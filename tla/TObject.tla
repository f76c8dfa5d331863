------------------------------ MODULE TObject ------------------------------
(***************************************************************************)
(* The token-object core of tpm2-pkcs11 (src/lib/object.h): the registry  *)
(* of tobjects of one token, the use counter `active` that keeps an       *)
(* object's TPM handle loaded while operations are in flight, destruction *)
(* refused while the object is in use, and the auth gate: the wrapped     *)
(* object auth `objauth`, unwrapped into `unsealed_auth` by a context-    *)
(* specific login that sets `is_authenticated`.                           *)
(*                                                                         *)
(* Every action is one call of the API by one session, atomic under the   *)
(* registry-wide lock (spec section 5).  The attribute store, the link    *)
(* relation and the search sessions are modelled in their own modules.    *)
(***************************************************************************)
EXTENDS Naturals, FiniteSets

CONSTANTS
    Sessions,   \* the caller sessions of the token
    Objects,    \* the tobject slots of the registry
    None        \* no object: a session with no operation in flight

ASSUME SessionsAssumption == IsFiniteSet(Sessions)
ASSUME NoneAssumption == None \notin Objects

VARIABLES
    live,              \* the tobjects in the token's object list
    active,            \* tobj->active: number of active users
    tpm_handle,        \* TRUE iff tobj->tpm_handle holds a loaded TPM handle
    objauth,           \* TRUE iff tobj->objauth (wrapped object auth) is set
    unsealed_auth,     \* TRUE iff tobj->unsealed_auth (unwrapped auth) is set
    is_authenticated,  \* tobj->is_authenticated
    logged_in,         \* the token's user login (external PIN/login state)
    op,                \* op[s]: the tobject session s's operation holds
    lastCall           \* the last call: who made it, on what, what it returned

objVars == <<live, active, tpm_handle, objauth, unsealed_auth, is_authenticated>>
vars == <<objVars, logged_in, op, lastCall>>

Calls == {"None", "Create", "Destroy", "Login", "Logout", "OpInit",
          "ContextLogin", "Sign", "CloseSession", "Decrement"}

(* The classified return conditions of spec section 7. *)
RVs == {"OK", "HostMemory", "ActionProhibited", "NotAuthenticated",
        "PinIncorrect", "DeviceError", "OperationActive", "GeneralError"}

Call(c, s, o, rv) == [call |-> c, s |-> s, o |-> o, rv |-> rv]

(* The sessions whose in-flight operation holds tobject o. *)
Holders(o) == {s \in Sessions : op[s] = o}

-----------------------------------------------------------------------------
(***************************************************************************)
(* The use counter.  Incrementing from 0 loads the key into the TPM; a     *)
(* device error on that load leaves the counter at 0 and no handle.        *)
(* Decrementing to 0 evicts the key; an evict error does not block the     *)
(* transition, so the handle is dropped either way, but it is reported.   *)
(* Decrementing an object that is not active is refused with a general    *)
(* error (UserDecrementIdle).                                              *)
(***************************************************************************)

(* Mutant: a user joining an already loaded object is not counted. *)
UserIncrementOnlyOnLoad(o) ==
    /\ active' = [active EXCEPT ![o] = IF @ = 0 THEN 1 ELSE @]
    /\ tpm_handle' = [tpm_handle EXCEPT ![o] = TRUE]

(* tobject_user_increment with the 0->1 load succeeding. *)
UserIncrement(o) ==
    /\ active' = [active EXCEPT ![o] = @ + 1]
    /\ tpm_handle' = [tpm_handle EXCEPT ![o] = TRUE]

(* Mutant: every decrement evicts the key, not only the 1->0 one. *)
UserDecrementEvictsAlways(o) ==
    /\ active[o] > 0
    /\ active' = [active EXCEPT ![o] = @ - 1]
    /\ tpm_handle' = [tpm_handle EXCEPT ![o] = FALSE]

(* tobject_user_decrement on an active object; evicts on 1->0. *)
UserDecrement(o) ==
    /\ active[o] > 0
    /\ active' = [active EXCEPT ![o] = @ - 1]
    /\ tpm_handle' = [tpm_handle EXCEPT ![o] = (active[o] - 1 > 0)]

(* What a call that decrements o reports: the evict on 1->0 may fail with *)
(* a device error, which is reported and not folded into success (spec 7). *)
DecrementRVs(o) == IF active[o] = 1 THEN {"OK", "DeviceError"} ELSE {"OK"}

-----------------------------------------------------------------------------

Init ==
    /\ live = {}
    /\ active = [o \in Objects |-> 0]
    /\ tpm_handle = [o \in Objects |-> FALSE]
    /\ objauth = [o \in Objects |-> FALSE]
    /\ unsealed_auth = [o \in Objects |-> FALSE]
    /\ is_authenticated = [o \in Objects |-> FALSE]
    /\ logged_in = FALSE
    /\ op = [s \in Sessions |-> None]
    /\ lastCall = Call("None", None, None, "OK")

(* object_create / import: a fresh tobject, with or without a wrapped     *)
(* object auth, is registered idle.                                      *)
Create(s, o, auth) ==
    /\ o \notin live
    /\ live' = live \cup {o}
    /\ active' = [active EXCEPT ![o] = 0]
    /\ tpm_handle' = [tpm_handle EXCEPT ![o] = FALSE]
    /\ objauth' = [objauth EXCEPT ![o] = auth]
    /\ unsealed_auth' = [unsealed_auth EXCEPT ![o] = FALSE]
    /\ is_authenticated' = [is_authenticated EXCEPT ![o] = FALSE]
    /\ lastCall' = Call("Create", s, o, "OK")
    /\ UNCHANGED <<logged_in, op>>

(* An allocation failure while building the tobject changes nothing. *)
CreateNoMemory(s, o) ==
    /\ o \notin live
    /\ lastCall' = Call("Create", s, o, "HostMemory")
    /\ UNCHANGED <<objVars, logged_in, op>>

(* Mutant: destroy without the active check. *)
DestroyUnguarded(s, o) ==
    /\ o \in live
    /\ live' = live \ {o}
    /\ unsealed_auth' = [unsealed_auth EXCEPT ![o] = FALSE]
    /\ is_authenticated' = [is_authenticated EXCEPT ![o] = FALSE]
    /\ lastCall' = Call("Destroy", s, o, "OK")
    /\ UNCHANGED <<active, tpm_handle, objauth, logged_in, op>>

(* Mutant: destroy releases the tobject but not its unwrapped auth. *)
DestroyKeepsAuth(s, o) ==
    /\ o \in live
    /\ active[o] = 0
    /\ live' = live \ {o}
    /\ lastCall' = Call("Destroy", s, o, "OK")
    /\ UNCHANGED <<active, tpm_handle, objauth, unsealed_auth, is_authenticated,
                   logged_in, op>>

(* object_destroy of an idle object: it leaves the registry and its auth  *)
(* state is released.                                                     *)
Destroy(s, o) ==
    /\ o \in live
    /\ active[o] = 0
    /\ live' = live \ {o}
    /\ unsealed_auth' = [unsealed_auth EXCEPT ![o] = FALSE]
    /\ is_authenticated' = [is_authenticated EXCEPT ![o] = FALSE]
    /\ lastCall' = Call("Destroy", s, o, "OK")
    /\ UNCHANGED <<active, tpm_handle, objauth, logged_in, op>>

(* object_destroy is refused while the object is active. *)
DestroyRefused(s, o) ==
    /\ o \in live
    /\ active[o] > 0
    /\ lastCall' = Call("Destroy", s, o, "ActionProhibited")
    /\ UNCHANGED <<objVars, logged_in, op>>

(* The user logs in to the token (external login state machine). *)
Login(s) ==
    /\ ~logged_in
    /\ logged_in' = TRUE
    /\ lastCall' = Call("Login", s, None, "OK")
    /\ UNCHANGED <<objVars, op>>

(* Logout clears every unwrapped object auth and context login. *)
Logout(s) ==
    /\ logged_in
    /\ logged_in' = FALSE
    /\ unsealed_auth' = [o \in Objects |-> FALSE]
    /\ is_authenticated' = [o \in Objects |-> FALSE]
    /\ lastCall' = Call("Logout", s, None, "OK")
    /\ UNCHANGED <<live, active, tpm_handle, objauth, op>>

(* A session starts an operation on o (C_SignInit and the like): it      *)
(* marks the object in use, which loads it on the 0->1 transition.      *)
OpInit(s, o) ==
    /\ o \in live
    /\ op[s] = None
    /\ UserIncrement(o)
    /\ op' = [op EXCEPT ![s] = o]
    /\ lastCall' = Call("OpInit", s, o, "OK")
    /\ UNCHANGED <<live, objauth, unsealed_auth, is_authenticated, logged_in>>

(* Only one operation per session is outstanding. *)
OpInitBusy(s, o) ==
    /\ o \in live
    /\ op[s] # None
    /\ lastCall' = Call("OpInit", s, o, "OperationActive")
    /\ UNCHANGED <<objVars, logged_in, op>>

(* Mutant: the counter is bumped before the load, and not undone. *)
OpInitLoadFailsCounted(s, o) ==
    /\ o \in live
    /\ op[s] = None
    /\ active[o] = 0
    /\ active' = [active EXCEPT ![o] = 1]
    /\ lastCall' = Call("OpInit", s, o, "GeneralError")
    /\ UNCHANGED <<live, tpm_handle, objauth, unsealed_auth, is_authenticated,
                   logged_in, op>>

(* The 0->1 load fails: nothing is incremented and no operation starts.   *)
(* tobject_user_increment reports CKR_GENERAL_ERROR, the only error its    *)
(* documentation lists (object.h:127), for a failed load as well.         *)
OpInitLoadFails(s, o) ==
    /\ o \in live
    /\ op[s] = None
    /\ active[o] = 0
    /\ lastCall' = Call("OpInit", s, o, "GeneralError")
    /\ UNCHANGED <<objVars, logged_in, op>>

(* Context-specific login: the wrapped auth of o is unwrapped under the  *)
(* logged-in token.                                                      *)
ContextLogin(s, o) ==
    /\ o \in live
    /\ objauth[o]
    /\ logged_in
    /\ unsealed_auth' = [unsealed_auth EXCEPT ![o] = TRUE]
    /\ is_authenticated' = [is_authenticated EXCEPT ![o] = TRUE]
    /\ lastCall' = Call("ContextLogin", s, o, "OK")
    /\ UNCHANGED <<live, active, tpm_handle, objauth, logged_in, op>>

(* A wrong auth value leaves the state unchanged. *)
ContextLoginFails(s, o) ==
    /\ o \in live
    /\ objauth[o]
    /\ logged_in
    /\ lastCall' = Call("ContextLogin", s, o, "PinIncorrect")
    /\ UNCHANGED <<objVars, logged_in, op>>

(* The private-key operation of session s (C_Sign) on an object that     *)
(* needs no auth or is authenticated: the operation ends and the object  *)
(* is released; a failed evict on 1->0 is reported as a device error.    *)
Sign(s) ==
    /\ op[s] # None
    /\ ~objauth[op[s]] \/ is_authenticated[op[s]]
    /\ UserDecrement(op[s])
    /\ op' = [op EXCEPT ![s] = None]
    /\ \E rv \in DecrementRVs(op[s]) : lastCall' = Call("Sign", s, op[s], rv)
    /\ UNCHANGED <<live, objauth, unsealed_auth, is_authenticated, logged_in>>

(* Sign on an object with a wrapped auth that is not authenticated is    *)
(* refused; as C_Sign does on every error, the operation ends and the    *)
(* object is released.                                                   *)
SignRefused(s) ==
    /\ op[s] # None
    /\ objauth[op[s]] /\ ~is_authenticated[op[s]]
    /\ UserDecrement(op[s])
    /\ op' = [op EXCEPT ![s] = None]
    /\ lastCall' = Call("Sign", s, op[s], "NotAuthenticated")
    /\ UNCHANGED <<live, objauth, unsealed_auth, is_authenticated, logged_in>>

(* Closing a session with an operation in flight releases the object. *)
CloseSession(s) ==
    /\ op[s] # None
    /\ UserDecrement(op[s])
    /\ op' = [op EXCEPT ![s] = None]
    /\ \E rv \in DecrementRVs(op[s]) : lastCall' = Call("CloseSession", s, op[s], rv)
    /\ UNCHANGED <<live, objauth, unsealed_auth, is_authenticated, logged_in>>

(* Mutant: a decrement of an idle object is not refused, and the counter *)
(* goes below zero.                                                      *)
UserDecrementIdleUnchecked(s, o) ==
    /\ o \in live
    /\ active[o] = 0
    /\ active' = [active EXCEPT ![o] = @ - 1]
    /\ lastCall' = Call("Decrement", s, o, "OK")
    /\ UNCHANGED <<live, tpm_handle, objauth, unsealed_auth, is_authenticated,
                   logged_in, op>>

(* tobject_user_decrement by a caller that holds no use of the object    *)
(* (a user/reference mismatch): it is refused with CKR_GENERAL_ERROR and  *)
(* the counter stays at zero (spec 8).                                   *)
UserDecrementIdle(s, o) ==
    /\ o \in live
    /\ active[o] = 0
    /\ lastCall' = Call("Decrement", s, o, "GeneralError")
    /\ UNCHANGED <<objVars, logged_in, op>>

Next ==
    \E s \in Sessions :
        \/ \E o \in Objects, auth \in BOOLEAN : Create(s, o, auth)
        \/ \E o \in Objects : CreateNoMemory(s, o)
        \/ \E o \in Objects : Destroy(s, o)
        \/ \E o \in Objects : DestroyRefused(s, o)
        \/ Login(s)
        \/ Logout(s)
        \/ \E o \in Objects : OpInit(s, o)
        \/ \E o \in Objects : OpInitBusy(s, o)
        \/ \E o \in Objects : OpInitLoadFails(s, o)
        \/ \E o \in Objects : ContextLogin(s, o)
        \/ \E o \in Objects : ContextLoginFails(s, o)
        \/ Sign(s)
        \/ SignRefused(s)
        \/ CloseSession(s)
        \/ \E o \in Objects : UserDecrementIdle(s, o)

Spec == Init /\ [][Next]_vars

-----------------------------------------------------------------------------
(* Properties *)

(* Every variable holds a value of its type. *)
ObjectsTypeOK ==
    /\ live \subseteq Objects
    /\ active \in [Objects -> Nat]
    /\ tpm_handle \in [Objects -> BOOLEAN]
    /\ objauth \in [Objects -> BOOLEAN]
    /\ unsealed_auth \in [Objects -> BOOLEAN]
    /\ is_authenticated \in [Objects -> BOOLEAN]

SessionsTypeOK ==
    /\ logged_in \in BOOLEAN
    /\ op \in [Sessions -> Objects \cup {None}]

CallTypeOK ==
    lastCall \in [call : Calls, s : Sessions \cup {None},
                  o : Objects \cup {None}, rv : RVs]

TypeOK == ObjectsTypeOK /\ SessionsTypeOK /\ CallTypeOK

(* The TPM handle of an object is loaded exactly while its use counter   *)
(* is positive, across failed loads and interleaved users (spec 3).     *)
HandleIffActive ==
    \A o \in Objects : tpm_handle[o] <=> active[o] > 0

(* The use counter of every object equals the number of sessions whose   *)
(* operation holds it: increments and decrements of concurrent sessions *)
(* never get lost or double-counted (spec 8, first property).           *)
ActiveCountsHolders ==
    \A o \in Objects : active[o] = Cardinality(Holders(o))

(* No operation in flight ever finds its object destroyed or its key     *)
(* evicted, whatever the other sessions do meanwhile.                   *)
InFlightLoaded ==
    \A s \in Sessions : op[s] # None => op[s] \in live /\ tpm_handle[op[s]]

(* An unwrapped object auth or context login exists only for a live      *)
(* object that has a wrapped auth, and only while the user is logged in.*)
AuthOnlyWhileLoggedIn ==
    \A o \in Objects :
        unsealed_auth[o] \/ is_authenticated[o] =>
            logged_in /\ o \in live /\ objauth[o]

(* The registry, the counter and the TPM handle implement UseCounter: a   *)
(* key is loaded exactly while some operation holds it, it stays loaded    *)
(* when one of several holders releases it, objects are acquired only     *)
(* while registered, and are destroyed only when no operation holds them. *)
UC == INSTANCE UseCounter WITH registered <- live,
                               holders <- [o \in Objects |-> Holders(o)],
                               loaded <- tpm_handle

ImplementsUseCounter == UC!Spec

=============================================================================
