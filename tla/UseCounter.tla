----------------------------- MODULE UseCounter -----------------------------
(***************************************************************************)
(* What the use counter of spec section 4.2 promises, without counting:   *)
(* each registered object has a set of holders and a key that is loaded   *)
(* exactly while the set is not empty; a session holds at most one        *)
(* object; an object is acquired only while registered and unregistered   *)
(* only when nobody holds it.  TObject implements this specification with *)
(* holders[o] = the sessions whose op is o and loaded = tpm_handle.       *)
(***************************************************************************)
CONSTANTS Sessions, Objects

VARIABLES registered, holders, loaded

ucVars == <<registered, holders, loaded>>

Init ==
    /\ registered = {}
    /\ holders = [o \in Objects |-> {}]
    /\ loaded = [o \in Objects |-> FALSE]

Register(o) ==
    /\ o \notin registered
    /\ registered' = registered \cup {o}
    /\ UNCHANGED <<holders, loaded>>

Unregister(o) ==
    /\ o \in registered
    /\ holders[o] = {}
    /\ registered' = registered \ {o}
    /\ UNCHANGED <<holders, loaded>>

(* The first holder loads the key; later ones find it loaded. *)
Acquire(s, o) ==
    /\ o \in registered
    /\ \A p \in Objects : s \notin holders[p]
    /\ holders' = [holders EXCEPT ![o] = @ \cup {s}]
    /\ loaded' = [loaded EXCEPT ![o] = TRUE]
    /\ UNCHANGED registered

(* The key is unloaded when, and only when, its last holder leaves. *)
Release(s, o) ==
    /\ s \in holders[o]
    /\ holders' = [holders EXCEPT ![o] = @ \ {s}]
    /\ loaded' = [loaded EXCEPT ![o] = holders'[o] # {}]
    /\ UNCHANGED registered

Next ==
    \/ \E o \in Objects : Register(o) \/ Unregister(o)
    \/ \E s \in Sessions, o \in Objects : Acquire(s, o) \/ Release(s, o)

Spec == Init /\ [][Next]_ucVars

=============================================================================
