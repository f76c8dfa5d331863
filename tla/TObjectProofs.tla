--------------------------- MODULE TObjectProofs ---------------------------
(***************************************************************************)
(* Proofs about the token-object core, for every finite set of sessions   *)
(* and every set of tobject slots.                                         *)
(*                                                                         *)
(* InFlightLoaded is not inductive by itself: a Sign by one session        *)
(* decrements the counter, and only the fact that the counter equals the   *)
(* number of holders tells that the key stays loaded for the others.  The  *)
(* inductive invariant IInv therefore carries the counting invariant, the  *)
(* handle invariant, and the fact that only live objects are held (so a    *)
(* re-created slot starts with no holders).                                *)
(***************************************************************************)
EXTENDS TObject, FiniteSetTheorems, TLAPS

(* The sessions that a function on sessions maps to p. *)
SessionsOn(f, p) == {x \in Sessions : f[x] = p}

(* Only live objects are held by an operation in flight. *)
HoldersLive ==
    \A s \in Sessions : op[s] # None => op[s] \in live

IInv ==
    /\ TypeOK
    /\ HandleIffActive
    /\ ActiveCountsHolders
    /\ HoldersLive

-----------------------------------------------------------------------------
(* Lemmas on the set of sessions mapped to an object. *)

LEMMA SessionsOnFinite ==
    ASSUME NEW f, NEW p
    PROVE  IsFiniteSet(SessionsOn(f, p))
BY SessionsAssumption, FS_Subset DEF SessionsOn

(* Re-pointing one session s from f[s] to v adds s to the sessions of v, *)
(* removes it from those of f[s], and leaves every other value alone.    *)
LEMMA SessionsOnJoin ==
    ASSUME NEW f \in [Sessions -> Objects \cup {None}], NEW s \in Sessions,
           NEW v, f[s] # v
    PROVE  Cardinality(SessionsOn([f EXCEPT ![s] = v], v))
             = Cardinality(SessionsOn(f, v)) + 1
<1>1. IsFiniteSet(SessionsOn(f, v))
  BY SessionsOnFinite
<1>2. SessionsOn([f EXCEPT ![s] = v], v) = SessionsOn(f, v) \cup {s}
  BY DEF SessionsOn
<1>3. s \notin SessionsOn(f, v)
  BY DEF SessionsOn
<1>4. QED
  BY <1>1, <1>2, <1>3, FS_AddElement

LEMMA SessionsOnLeave ==
    ASSUME NEW f \in [Sessions -> Objects \cup {None}], NEW s \in Sessions,
           NEW v, f[s] # v
    PROVE  Cardinality(SessionsOn([f EXCEPT ![s] = v], f[s]))
             = Cardinality(SessionsOn(f, f[s])) - 1
<1>1. IsFiniteSet(SessionsOn(f, f[s]))
  BY SessionsOnFinite
<1>2. SessionsOn([f EXCEPT ![s] = v], f[s]) = SessionsOn(f, f[s]) \ {s}
  BY DEF SessionsOn
<1>3. s \in SessionsOn(f, f[s])
  BY DEF SessionsOn
<1>4. QED
  BY <1>1, <1>2, <1>3, FS_RemoveElement

LEMMA SessionsOnOther ==
    ASSUME NEW f \in [Sessions -> Objects \cup {None}], NEW s \in Sessions,
           NEW v, NEW p, p # v, p # f[s]
    PROVE  SessionsOn([f EXCEPT ![s] = v], p) = SessionsOn(f, p)
BY DEF SessionsOn

(* An object whose counter is 0 is held by no session. *)
LEMMA IdleHasNoHolders ==
    ASSUME ActiveCountsHolders, NEW o \in Objects, active[o] = 0
    PROVE  Holders(o) = {}
<1>1. IsFiniteSet(Holders(o))
  BY SessionsOnFinite DEF SessionsOn, Holders
<1>2. Cardinality(Holders(o)) = 0
  BY DEF ActiveCountsHolders
<1>3. QED
  BY <1>1, <1>2, FS_EmptySet

-----------------------------------------------------------------------------
(* Type correctness *)

(* Each action keeps every variable in its type. *)
LEMMA TypeStep == TypeOK /\ [Next]_vars => TypeOK'
<1> SUFFICES ASSUME TypeOK, [Next]_vars PROVE TypeOK'
  OBVIOUS
<1> USE DEF TypeOK, ObjectsTypeOK, SessionsTypeOK, CallTypeOK, Call, Calls, RVs
<1>1. ASSUME NEW s \in Sessions, NEW o \in Objects, NEW auth \in BOOLEAN,
             Create(s, o, auth)
      PROVE  TypeOK'
  BY <1>1 DEF Create, objVars
<1>2. ASSUME NEW s \in Sessions, NEW o \in Objects,
             CreateNoMemory(s, o)
      PROVE  TypeOK'
  BY <1>2 DEF CreateNoMemory, objVars
<1>3. ASSUME NEW s \in Sessions, NEW o \in Objects,
             Destroy(s, o)
      PROVE  TypeOK'
  BY <1>3 DEF Destroy, objVars
<1>4. ASSUME NEW s \in Sessions, NEW o \in Objects,
             DestroyRefused(s, o)
      PROVE  TypeOK'
  BY <1>4 DEF DestroyRefused, objVars
<1>5. ASSUME NEW s \in Sessions,
             Login(s)
      PROVE  TypeOK'
  BY <1>5 DEF Login, objVars
<1>6. ASSUME NEW s \in Sessions,
             Logout(s)
      PROVE  TypeOK'
  BY <1>6 DEF Logout, objVars
<1>7. ASSUME NEW s \in Sessions, NEW o \in Objects,
             OpInit(s, o)
      PROVE  TypeOK'
  BY <1>7 DEF OpInit, UserIncrement, objVars
<1>8. ASSUME NEW s \in Sessions, NEW o \in Objects,
             OpInitBusy(s, o)
      PROVE  TypeOK'
  BY <1>8 DEF OpInitBusy, objVars
<1>9. ASSUME NEW s \in Sessions, NEW o \in Objects,
             OpInitLoadFails(s, o)
      PROVE  TypeOK'
  BY <1>9 DEF OpInitLoadFails, objVars
<1>10. ASSUME NEW s \in Sessions, NEW o \in Objects,
             ContextLogin(s, o)
      PROVE  TypeOK'
  BY <1>10 DEF ContextLogin, objVars
<1>11. ASSUME NEW s \in Sessions, NEW o \in Objects,
             ContextLoginFails(s, o)
      PROVE  TypeOK'
  BY <1>11 DEF ContextLoginFails, objVars
<1>12. ASSUME NEW s \in Sessions,
             Sign(s)
      PROVE  TypeOK'
  BY <1>12 DEF Sign, UserDecrement, DecrementRVs, objVars
<1>13. ASSUME NEW s \in Sessions,
             SignRefused(s)
      PROVE  TypeOK'
  BY <1>13 DEF SignRefused, UserDecrement, objVars
<1>14. ASSUME NEW s \in Sessions,
             CloseSession(s)
      PROVE  TypeOK'
  BY <1>14 DEF CloseSession, UserDecrement, DecrementRVs, objVars
<1>15. ASSUME NEW s \in Sessions, NEW o \in Objects,
             UserDecrementIdle(s, o)
      PROVE  TypeOK'
  BY <1>15 DEF UserDecrementIdle, objVars
<1>16. CASE UNCHANGED vars
  BY <1>16 DEF vars, objVars
<1>17. QED
  BY <1>1, <1>2, <1>3, <1>4, <1>5, <1>6, <1>7, <1>8, <1>9, <1>10, <1>11, <1>12,
     <1>13, <1>14, <1>15, <1>16 DEF Next

LEMMA InitTypeOK == Init => TypeOK
<1> SUFFICES ASSUME Init PROVE TypeOK
  OBVIOUS
<1>1. ObjectsTypeOK
  BY DEF Init, ObjectsTypeOK
<1>2. SessionsTypeOK
  BY NoneAssumption DEF Init, SessionsTypeOK
<1>3. CallTypeOK
  BY DEF Init, CallTypeOK, Call, Calls, RVs
<1>4. QED
  BY <1>1, <1>2, <1>3 DEF TypeOK

(* Every reachable state is well typed. *)
THEOREM TypeCorrect == Spec => []TypeOK
BY InitTypeOK, TypeStep, PTL DEF Spec

-----------------------------------------------------------------------------
(* The use counter *)

(* A step that changes none of the registry, the counters, the handles  *)
(* and the operations keeps the counting invariants.                     *)
LEMMA CountingUnchanged ==
    ASSUME IInv, UNCHANGED <<live, active, tpm_handle, op>>
    PROVE  HandleIffActive' /\ ActiveCountsHolders' /\ HoldersLive'
BY DEF IInv, HandleIffActive, ActiveCountsHolders, HoldersLive, Holders

(* Session s starts holding o: the counter of o goes up by one. *)
LEMMA CountingJoin ==
    ASSUME IInv, NEW s \in Sessions, NEW o \in Objects,
           o \in live, op[s] = None, UserIncrement(o),
           op' = [op EXCEPT ![s] = o], live' = live
    PROVE  HandleIffActive' /\ ActiveCountsHolders' /\ HoldersLive'
<1> USE DEF IInv, TypeOK, ObjectsTypeOK, SessionsTypeOK
<1>1. HandleIffActive'
  BY DEF HandleIffActive, UserIncrement
<1>2. ActiveCountsHolders'
  <2> SUFFICES ASSUME NEW p \in Objects
               PROVE  active'[p] = Cardinality(Holders(p)')
    BY DEF ActiveCountsHolders
  <2>1. Holders(p)' = SessionsOn([op EXCEPT ![s] = o], p)
    BY DEF Holders, SessionsOn
  <2>2. active[p] = Cardinality(SessionsOn(op, p))
    BY DEF ActiveCountsHolders, Holders, SessionsOn
  <2>3. op[s] # o
    BY NoneAssumption
  <2>4. CASE p = o
    <3>1. Cardinality(SessionsOn([op EXCEPT ![s] = o], p))
            = Cardinality(SessionsOn(op, p)) + 1
      BY <2>3, <2>4, SessionsOnJoin
    <3>2. QED
      BY <2>1, <2>2, <2>4, <3>1 DEF UserIncrement
  <2>5. CASE p # o
    <3>1. p # op[s]
      BY NoneAssumption
    <3>2. SessionsOn([op EXCEPT ![s] = o], p) = SessionsOn(op, p)
      <4>1. op \in [Sessions -> Objects \cup {None}]
        OBVIOUS
      <4>2. QED
        BY <4>1, <2>5, <3>1 DEF SessionsOn
    <3>3. active'[p] = active[p]
      BY <2>5 DEF UserIncrement
    <3>4. QED
      BY <2>1, <2>2, <3>2, <3>3
  <2>6. QED
    BY <2>4, <2>5
<1>3. HoldersLive'
  BY DEF HoldersLive
<1>4. QED
  BY <1>1, <1>2, <1>3

(* Session s stops holding its object: the counter goes down by one and  *)
(* the key is evicted when it reaches 0.                                 *)
LEMMA CountingLeave ==
    ASSUME IInv, NEW s \in Sessions, op[s] # None, UserDecrement(op[s]),
           op' = [op EXCEPT ![s] = None], live' = live
    PROVE  HandleIffActive' /\ ActiveCountsHolders' /\ HoldersLive'
<1> USE DEF IInv, TypeOK, ObjectsTypeOK, SessionsTypeOK
<1> DEFINE o == op[s]
<1>1. o \in Objects
  OBVIOUS
<1>2. HandleIffActive'
  BY <1>1 DEF HandleIffActive, UserDecrement
<1>3. ActiveCountsHolders'
  <2> SUFFICES ASSUME NEW p \in Objects
               PROVE  active'[p] = Cardinality(Holders(p)')
    BY DEF ActiveCountsHolders
  <2>1. Holders(p)' = SessionsOn([op EXCEPT ![s] = None], p)
    BY DEF Holders, SessionsOn
  <2>2. active[p] = Cardinality(SessionsOn(op, p))
    BY DEF ActiveCountsHolders, Holders, SessionsOn
  <2>3. CASE p = o
    <3>1. Cardinality(SessionsOn([op EXCEPT ![s] = None], p))
            = Cardinality(SessionsOn(op, p)) - 1
      BY <1>1, <2>3, NoneAssumption, SessionsOnLeave
    <3>2. QED
      BY <1>1, <2>1, <2>2, <2>3, <3>1 DEF UserDecrement
  <2>4. CASE p # o
    <3>1. p # None
      BY NoneAssumption
    <3>2. SessionsOn([op EXCEPT ![s] = None], p) = SessionsOn(op, p)
      <4>1. op \in [Sessions -> Objects \cup {None}]
        OBVIOUS
      <4>2. QED
        BY <4>1, <2>4, <3>1 DEF SessionsOn
    <3>3. active'[p] = active[p]
      BY <1>1, <2>4 DEF UserDecrement
    <3>4. QED
      BY <2>1, <2>2, <3>2, <3>3
  <2>5. QED
    BY <2>3, <2>4
<1>4. HoldersLive'
  BY DEF HoldersLive
<1>5. QED
  BY <1>2, <1>3, <1>4

(* A created slot had no holders, since only live objects are held. *)
LEMMA DeadHasNoHolders ==
    ASSUME HoldersLive, NEW o \in Objects, o \notin live
    PROVE  Holders(o) = {}
BY NoneAssumption DEF HoldersLive, Holders

(* The object of an operation in flight has a positive use counter. *)
LEMMA HeldIsActive ==
    ASSUME IInv, NEW s \in Sessions, op[s] # None
    PROVE  active[op[s]] > 0
<1> DEFINE o == op[s]
<1>1. o \in Objects
  BY DEF IInv, TypeOK, SessionsTypeOK
<1>2. s \in Holders(o)
  BY DEF Holders
<1>3. IsFiniteSet(Holders(o))
  BY SessionsOnFinite DEF SessionsOn, Holders
<1>4. Cardinality(Holders(o)) # 0
  BY <1>2, <1>3, FS_EmptySet
<1>5. Cardinality(Holders(o)) \in Nat
  BY <1>3, FS_CardinalityType
<1>6. QED
  BY <1>1, <1>4, <1>5 DEF IInv, ActiveCountsHolders

LEMMA IInvInit == Init => IInv
<1> SUFFICES ASSUME Init PROVE IInv
  OBVIOUS
<1>1. TypeOK
  BY InitTypeOK
<1>2. \A o \in Objects : Holders(o) = {}
  BY NoneAssumption DEF Init, Holders
<1>3. ActiveCountsHolders
  BY <1>2, FS_EmptySet DEF Init, ActiveCountsHolders
<1>4. QED
  BY <1>1, <1>3, NoneAssumption DEF Init, IInv, HandleIffActive, HoldersLive

LEMMA IInvStep == IInv /\ [Next]_vars => IInv'
<1> SUFFICES ASSUME IInv, [Next]_vars
             PROVE  HandleIffActive' /\ ActiveCountsHolders' /\ HoldersLive'
  BY TypeStep DEF IInv
<1> USE DEF IInv
<1>1. ASSUME NEW s \in Sessions, NEW o \in Objects, NEW auth \in BOOLEAN,
             Create(s, o, auth)
      PROVE  HandleIffActive' /\ ActiveCountsHolders' /\ HoldersLive'
  <2>1. Holders(o) = {}
    BY <1>1, DeadHasNoHolders DEF Create
  <2>2. Cardinality(Holders(o)) = 0
    BY <2>1, FS_EmptySet
  <2>3. \A p \in Objects : Holders(p)' = Holders(p)
    BY <1>1 DEF Create, Holders
  <2>4. ActiveCountsHolders'
    BY <1>1, <2>2, <2>3 DEF Create, ActiveCountsHolders, TypeOK, ObjectsTypeOK
  <2>5. HandleIffActive'
    BY <1>1 DEF Create, HandleIffActive, TypeOK, ObjectsTypeOK
  <2>6. HoldersLive'
    BY <1>1 DEF Create, HoldersLive
  <2>7. QED
    BY <2>4, <2>5, <2>6
<1>2. ASSUME NEW s \in Sessions, NEW o \in Objects, CreateNoMemory(s, o)
      PROVE  HandleIffActive' /\ ActiveCountsHolders' /\ HoldersLive'
  BY <1>2, CountingUnchanged DEF CreateNoMemory, objVars
<1>3. ASSUME NEW s \in Sessions, NEW o \in Objects, Destroy(s, o)
      PROVE  HandleIffActive' /\ ActiveCountsHolders' /\ HoldersLive'
  <2>1. Holders(o) = {}
    BY <1>3, IdleHasNoHolders DEF Destroy
  <2>2. HoldersLive'
    BY <1>3, <2>1 DEF Destroy, HoldersLive, Holders
  <2>3. HandleIffActive' /\ ActiveCountsHolders'
    BY <1>3 DEF Destroy, HandleIffActive, ActiveCountsHolders, Holders
  <2>4. QED
    BY <2>2, <2>3
<1>4. ASSUME NEW s \in Sessions, NEW o \in Objects, DestroyRefused(s, o)
      PROVE  HandleIffActive' /\ ActiveCountsHolders' /\ HoldersLive'
  BY <1>4, CountingUnchanged DEF DestroyRefused, objVars
<1>5. ASSUME NEW s \in Sessions, Login(s)
      PROVE  HandleIffActive' /\ ActiveCountsHolders' /\ HoldersLive'
  BY <1>5, CountingUnchanged DEF Login, objVars
<1>6. ASSUME NEW s \in Sessions, Logout(s)
      PROVE  HandleIffActive' /\ ActiveCountsHolders' /\ HoldersLive'
  BY <1>6, CountingUnchanged DEF Logout
<1>7. ASSUME NEW s \in Sessions, NEW o \in Objects, OpInit(s, o)
      PROVE  HandleIffActive' /\ ActiveCountsHolders' /\ HoldersLive'
  BY <1>7, CountingJoin DEF OpInit
<1>8. ASSUME NEW s \in Sessions, NEW o \in Objects, OpInitBusy(s, o)
      PROVE  HandleIffActive' /\ ActiveCountsHolders' /\ HoldersLive'
  BY <1>8, CountingUnchanged DEF OpInitBusy, objVars
<1>9. ASSUME NEW s \in Sessions, NEW o \in Objects, OpInitLoadFails(s, o)
      PROVE  HandleIffActive' /\ ActiveCountsHolders' /\ HoldersLive'
  BY <1>9, CountingUnchanged DEF OpInitLoadFails, objVars
<1>10. ASSUME NEW s \in Sessions, NEW o \in Objects, ContextLogin(s, o)
      PROVE  HandleIffActive' /\ ActiveCountsHolders' /\ HoldersLive'
  BY <1>10, CountingUnchanged DEF ContextLogin
<1>11. ASSUME NEW s \in Sessions, NEW o \in Objects, ContextLoginFails(s, o)
      PROVE  HandleIffActive' /\ ActiveCountsHolders' /\ HoldersLive'
  BY <1>11, CountingUnchanged DEF ContextLoginFails, objVars
<1>12. ASSUME NEW s \in Sessions, Sign(s)
      PROVE  HandleIffActive' /\ ActiveCountsHolders' /\ HoldersLive'
  BY <1>12, CountingLeave DEF Sign
<1>13. ASSUME NEW s \in Sessions, SignRefused(s)
      PROVE  HandleIffActive' /\ ActiveCountsHolders' /\ HoldersLive'
  BY <1>13, CountingLeave DEF SignRefused
<1>14. ASSUME NEW s \in Sessions, CloseSession(s)
      PROVE  HandleIffActive' /\ ActiveCountsHolders' /\ HoldersLive'
  BY <1>14, CountingLeave DEF CloseSession
<1>15. ASSUME NEW s \in Sessions, NEW o \in Objects, UserDecrementIdle(s, o)
      PROVE  HandleIffActive' /\ ActiveCountsHolders' /\ HoldersLive'
  BY <1>15, CountingUnchanged DEF UserDecrementIdle, objVars
<1>16. CASE UNCHANGED vars
  BY <1>16, CountingUnchanged DEF vars, objVars
<1>17. QED
  BY <1>1, <1>2, <1>3, <1>4, <1>5, <1>6, <1>7, <1>8, <1>9, <1>10, <1>11,
     <1>12, <1>13, <1>14, <1>15, <1>16 DEF Next

(* Every operation in flight, of any session, finds its object in the     *)
(* registry with its key loaded: object_destroy's active check and the    *)
(* load/evict on the 0->1 and 1->0 transitions of the use counter keep    *)
(* it so under every interleaving of the sessions.                        *)
THEOREM InFlightLoadedHolds == Spec => []InFlightLoaded
<1>1. IInv => InFlightLoaded
  <2> SUFFICES ASSUME IInv, NEW s \in Sessions, op[s] # None
               PROVE  op[s] \in live /\ tpm_handle[op[s]]
    BY DEF InFlightLoaded
  <2>1. active[op[s]] > 0
    BY HeldIsActive
  <2>2. QED
    BY <2>1 DEF IInv, TypeOK, SessionsTypeOK, HoldersLive, HandleIffActive
<1>2. QED
  BY <1>1, IInvInit, IInvStep, PTL DEF Spec

(* The TPM handle of every object is loaded exactly while its use counter *)
(* is positive: tobject_user_increment loads on 0->1 and                  *)
(* tobject_user_decrement evicts on 1->0, under every interleaving.      *)
THEOREM HandleIffActiveHolds == Spec => []HandleIffActive
BY IInvInit, IInvStep, PTL DEF Spec, IInv


(* The use counter of every object equals the number of operations in     *)
(* flight on it (tobject_user_increment/decrement lose no update).        *)
THEOREM ActiveCountsHoldersHolds == Spec => []ActiveCountsHolders
BY IInvInit, IInvStep, PTL DEF Spec, IInv

-----------------------------------------------------------------------------
(* The auth gate *)

(* Each action keeps the unwrapped auth and the context logins confined  *)
(* to live objects with a wrapped auth while the user is logged in.      *)
LEMMA AuthStep == TypeOK /\ AuthOnlyWhileLoggedIn /\ [Next]_vars
                    => AuthOnlyWhileLoggedIn'
<1> SUFFICES ASSUME TypeOK, AuthOnlyWhileLoggedIn, [Next]_vars
             PROVE  AuthOnlyWhileLoggedIn'
  OBVIOUS
<1> USE DEF TypeOK, ObjectsTypeOK, AuthOnlyWhileLoggedIn
<1>1. ASSUME NEW s \in Sessions, NEW o \in Objects, NEW auth \in BOOLEAN,
             Create(s, o, auth)
      PROVE  AuthOnlyWhileLoggedIn'
  BY <1>1 DEF Create
<1>2. ASSUME NEW s \in Sessions, NEW o \in Objects, CreateNoMemory(s, o)
      PROVE  AuthOnlyWhileLoggedIn'
  BY <1>2 DEF CreateNoMemory, objVars
<1>3. ASSUME NEW s \in Sessions, NEW o \in Objects, Destroy(s, o)
      PROVE  AuthOnlyWhileLoggedIn'
  BY <1>3 DEF Destroy
<1>4. ASSUME NEW s \in Sessions, NEW o \in Objects, DestroyRefused(s, o)
      PROVE  AuthOnlyWhileLoggedIn'
  BY <1>4 DEF DestroyRefused, objVars
<1>5. ASSUME NEW s \in Sessions, Login(s)
      PROVE  AuthOnlyWhileLoggedIn'
  BY <1>5 DEF Login, objVars
<1>6. ASSUME NEW s \in Sessions, Logout(s)
      PROVE  AuthOnlyWhileLoggedIn'
  BY <1>6 DEF Logout
<1>7. ASSUME NEW s \in Sessions, NEW o \in Objects, OpInit(s, o)
      PROVE  AuthOnlyWhileLoggedIn'
  BY <1>7 DEF OpInit
<1>8. ASSUME NEW s \in Sessions, NEW o \in Objects, OpInitBusy(s, o)
      PROVE  AuthOnlyWhileLoggedIn'
  BY <1>8 DEF OpInitBusy, objVars
<1>9. ASSUME NEW s \in Sessions, NEW o \in Objects, OpInitLoadFails(s, o)
      PROVE  AuthOnlyWhileLoggedIn'
  BY <1>9 DEF OpInitLoadFails, objVars
<1>10. ASSUME NEW s \in Sessions, NEW o \in Objects, ContextLogin(s, o)
      PROVE  AuthOnlyWhileLoggedIn'
  BY <1>10 DEF ContextLogin
<1>11. ASSUME NEW s \in Sessions, NEW o \in Objects, ContextLoginFails(s, o)
      PROVE  AuthOnlyWhileLoggedIn'
  BY <1>11 DEF ContextLoginFails, objVars
<1>12. ASSUME NEW s \in Sessions, Sign(s)
      PROVE  AuthOnlyWhileLoggedIn'
  BY <1>12 DEF Sign
<1>13. ASSUME NEW s \in Sessions, SignRefused(s)
      PROVE  AuthOnlyWhileLoggedIn'
  BY <1>13 DEF SignRefused
<1>14. ASSUME NEW s \in Sessions, CloseSession(s)
      PROVE  AuthOnlyWhileLoggedIn'
  BY <1>14 DEF CloseSession
<1>15. ASSUME NEW s \in Sessions, NEW o \in Objects, UserDecrementIdle(s, o)
      PROVE  AuthOnlyWhileLoggedIn'
  BY <1>15 DEF UserDecrementIdle, objVars
<1>16. CASE UNCHANGED vars
  BY <1>16 DEF vars, objVars
<1>17. QED
  BY <1>1, <1>2, <1>3, <1>4, <1>5, <1>6, <1>7, <1>8, <1>9, <1>10, <1>11,
     <1>12, <1>13, <1>14, <1>15, <1>16 DEF Next

(* An unwrapped object auth or a context login never outlives the user's *)
(* login or the object it belongs to: Logout and object_destroy clear   *)
(* them, and only a context login on a live object with a wrapped auth  *)
(* sets them.                                                            *)
THEOREM AuthScoped == Spec => []AuthOnlyWhileLoggedIn
<1>1. Init => AuthOnlyWhileLoggedIn
  BY DEF Init, AuthOnlyWhileLoggedIn
<1>2. QED
  BY <1>1, InitTypeOK, TypeStep, AuthStep, PTL DEF Spec

-----------------------------------------------------------------------------
(* Refinement of the abstract use counter *)

HolderMap == [o \in Objects |-> Holders(o)]

(* A finite set is empty exactly when its cardinality is zero. *)
LEMMA NonEmptyIffCard ==
    ASSUME NEW S, IsFiniteSet(S)
    PROVE  Cardinality(S) > 0 <=> S # {}
BY FS_EmptySet, FS_CardinalityType

(* Under IInv the loaded keys are exactly the held objects: this is the  *)
(* abstract variable loaded read off the concrete state.                *)
LEMMA LoadedIsHeld ==
    ASSUME IInv
    PROVE  tpm_handle = [p \in Objects |-> Holders(p) # {}]
<1>1. ASSUME NEW p \in Objects PROVE tpm_handle[p] <=> Holders(p) # {}
  <2>1. IsFiniteSet(Holders(p))
    BY SessionsOnFinite DEF Holders, SessionsOn
  <2>2. QED
    BY <2>1, NonEmptyIffCard DEF IInv, HandleIffActive, ActiveCountsHolders
<1>2. QED
  BY <1>1 DEF IInv, TypeOK, ObjectsTypeOK

LEMMA RefineInit == Init => UC!Init
<1> SUFFICES ASSUME Init PROVE UC!Init
  OBVIOUS
<1>1. \A o \in Objects : Holders(o) = {}
  BY NoneAssumption DEF Init, Holders
<1>2. QED
  BY <1>1 DEF Init, UC!Init

(* A step that changes neither the registry, the operations in flight   *)
(* nor the handles is a stutter of the abstract use counter.            *)
LEMMA RefineUnchanged ==
    ASSUME UNCHANGED <<live, op, tpm_handle>>
    PROVE  UNCHANGED UC!ucVars
BY DEF UC!ucVars, Holders

LEMMA RefineStep == IInv /\ [Next]_vars => [UC!Next]_UC!ucVars
<1> SUFFICES ASSUME IInv, [Next]_vars PROVE [UC!Next]_UC!ucVars
  OBVIOUS
<1>a. tpm_handle = [p \in Objects |-> HolderMap[p] # {}]
  BY LoadedIsHeld DEF HolderMap
<1>b. tpm_handle' = [p \in Objects |-> HolderMap'[p] # {}]
  <2>1. IInv'
    BY IInvStep
  <2>2. ASSUME NEW p \in Objects PROVE tpm_handle'[p] <=> Holders(p)' # {}
    <3>1. IsFiniteSet(Holders(p)')
      BY SessionsOnFinite DEF Holders, SessionsOn
    <3>2. QED
      BY <2>1, <3>1, NonEmptyIffCard DEF IInv, HandleIffActive, ActiveCountsHolders
  <2>3. QED
    BY <2>1, <2>2 DEF IInv, TypeOK, ObjectsTypeOK, HolderMap
<1> USE DEF IInv, TypeOK, SessionsTypeOK, ObjectsTypeOK
<1>1. ASSUME NEW s \in Sessions, NEW o \in Objects, NEW auth \in BOOLEAN,
             Create(s, o, auth)
      PROVE  UC!Register(o)
  <2>1. HolderMap' = HolderMap
    BY <1>1 DEF Create, HolderMap, Holders
  <2>2. tpm_handle' = tpm_handle
    BY <1>a, <1>b, <2>1
  <2>3. QED
    BY <1>1, <2>1, <2>2 DEF Create, UC!Register, HolderMap
<1>2. ASSUME NEW s \in Sessions, NEW o \in Objects, Destroy(s, o)
      PROVE  UC!Unregister(o)
  <2>1. Holders(o) = {}
    BY <1>2, IdleHasNoHolders DEF Destroy
  <2>2. HolderMap' = HolderMap
    BY <1>2 DEF Destroy, HolderMap, Holders
  <2>3. QED
    BY <1>2, <2>1, <2>2 DEF Destroy, UC!Unregister, HolderMap
<1>3. ASSUME NEW s \in Sessions, NEW o \in Objects, OpInit(s, o)
      PROVE  UC!Acquire(s, o)
  <2>1. \A p \in Objects : s \notin Holders(p)
    BY <1>3, NoneAssumption DEF OpInit, Holders
  <2>2. HolderMap' = [HolderMap EXCEPT ![o] = @ \cup {s}]
    <3>1. Holders(o)' = Holders(o) \cup {s}
      BY <1>3 DEF OpInit, Holders
    <3>2. ASSUME NEW p \in Objects, p # o PROVE Holders(p)' = Holders(p)
      BY <1>3, <3>2, NoneAssumption DEF OpInit, Holders
    <3>3. QED
      BY <3>1, <3>2 DEF HolderMap
  <2>3. QED
    BY <1>3, <2>1, <2>2 DEF OpInit, UserIncrement, UC!Acquire, HolderMap
<1>4. ASSUME NEW s \in Sessions, op[s] # None, op' = [op EXCEPT ![s] = None],
             live' = live
      PROVE  UC!Release(s, op[s])
  <2>1. s \in Holders(op[s])
    BY DEF Holders
  <2>2. HolderMap' = [HolderMap EXCEPT ![op[s]] = @ \ {s}]
    BY <1>4, NoneAssumption DEF HolderMap, Holders
  <2>3. tpm_handle' = [tpm_handle EXCEPT ![op[s]] = HolderMap'[op[s]] # {}]
    <3>1. op[s] \in Objects
      BY <1>4
    <3>2. ASSUME NEW p \in Objects, p # op[s]
          PROVE  tpm_handle'[p] = tpm_handle[p]
      BY <1>a, <1>b, <2>2, <3>2
    <3>3. tpm_handle'[op[s]] = (HolderMap'[op[s]] # {})
      BY <1>b, <3>1
    <3>4. QED
      BY <3>1, <3>2, <3>3, <1>b
  <2>4. QED
    BY <1>4, <2>1, <2>2, <2>3 DEF UC!Release, HolderMap
<1>5. ASSUME NEW s \in Sessions, op[s] # None, UC!Release(s, op[s])
      PROVE  UC!Next
  BY <1>5 DEF UC!Next
<1>6. CASE UNCHANGED <<live, op, tpm_handle>>
  BY <1>6, RefineUnchanged
<1>7. QED
  <2>1. ASSUME NEW s \in Sessions, Sign(s) PROVE UC!Next
    BY <2>1, <1>4, <1>5 DEF Sign
  <2>2. ASSUME NEW s \in Sessions, SignRefused(s) PROVE UC!Next
    BY <2>2, <1>4, <1>5 DEF SignRefused
  <2>3. ASSUME NEW s \in Sessions, CloseSession(s) PROVE UC!Next
    BY <2>3, <1>4, <1>5 DEF CloseSession
  <2>4. ASSUME NEW s \in Sessions, NEW o \in Objects, NEW auth \in BOOLEAN,
               Create(s, o, auth)
        PROVE  UC!Next
    BY <2>4, <1>1 DEF UC!Next
  <2>5. ASSUME NEW s \in Sessions, NEW o \in Objects, Destroy(s, o) PROVE UC!Next
    BY <2>5, <1>2 DEF UC!Next
  <2>6. ASSUME NEW s \in Sessions, NEW o \in Objects, OpInit(s, o) PROVE UC!Next
    BY <2>6, <1>3 DEF UC!Next
  <2>7. QED
    BY <2>1, <2>2, <2>3, <2>4, <2>5, <2>6, <1>6
       DEF Next, vars, objVars, CreateNoMemory, DestroyRefused, Login, Logout,
           OpInitBusy, OpInitLoadFails, ContextLogin, ContextLoginFails,
           UserDecrementIdle

(* The registry and the use counter implement the abstract use counter:  *)
(* object_destroy never unregisters an object in use, and an operation  *)
(* acquires an object only while it is registered and its session holds *)
(* nothing else.                                                         *)
THEOREM ImplementsUseCounterHolds == Spec => ImplementsUseCounter
<1>1. Spec => []IInv
  BY IInvInit, IInvStep, PTL DEF Spec
<1>2. QED
  BY <1>1, RefineInit, RefineStep, PTL DEF Spec, ImplementsUseCounter, UC!Spec

====
