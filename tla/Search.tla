------------------------------- MODULE Search -------------------------------
(***************************************************************************)
(* The Search Session of tpm2-pkcs11 (object_find_init, object_find,      *)
(* object_find_final, src/lib/object.h l.81-85) over the token's object   *)
(* registry, with the registry operations of the other sessions that can  *)
(* interleave with a search: object_create, object_destroy and            *)
(* object_set_attributes of a mutable attribute (the label).              *)
(*                                                                         *)
(* Following spec section 4.3, find_init snapshots the ids of the live    *)
(* objects, walked in ascending id order, together with the template, and *)
(* each find walks the snapshot past its cursor, testing the template     *)
(* against the object as it is when that find runs.  An object destroyed  *)
(* since find_init is no longer in the registry and matches nothing.     *)
(* Since the walk order is ascending id, the snapshot is kept as its set  *)
(* of ids and the cursor as the id of the last entry passed.  An id can   *)
(* be destroyed and given to a new object later; gen[i] counts the        *)
(* objects created under id i, and the snapshot keeps the count it saw,   *)
(* so that a find tells the object of its snapshot from a newer one that  *)
(* reuses the id (spec 4.3: find never observes objects created after     *)
(* find_init).                                                            *)
(***************************************************************************)
EXTENDS Naturals, Sequences, FiniteSets

CONSTANTS
    Sessions,   \* caller sessions
    NIds,       \* ids are 1..NIds; the snapshot order is ascending id
    Labels,     \* the values of the mutable label attribute
    AnyLabel,        \* the empty template, which every object matches
    MaxCount,   \* the largest max_object_count a caller passes
    MaxGen      \* the most objects ever created under one id

ASSUME SearchAssumption ==
    /\ NIds \in Nat
    /\ MaxCount \in Nat \ {0}
    /\ MaxGen \in Nat
    /\ AnyLabel \notin Labels

Ids == 1..NIds
Templates == Labels \cup {AnyLabel}

VARIABLES
    live,      \* the ids of the registered tobjects
    label,     \* label[i]: the label attribute of object i
    gen,       \* gen[i]: how many objects have been created under id i
    sstate,    \* sstate[s]: "Idle" (uninitialized) or "Active"
    snap,      \* snap[s]: the ids taken by find_init
    snapGen,   \* snapGen[s][i]: gen[i] when find_init took the snapshot
    tmpl,      \* tmpl[s]: the template of the search
    cursor,    \* cursor[s]: the last snapshot id find has passed (0: none)
    emitted,   \* emitted[s]: the handles returned so far by this search
    mutated,   \* mutated[s]: the registry changed since find_init
    fresh,     \* fresh[s]: the ids created since find_init (history)
    lastCall   \* the last call, its session, the handles it returned, rv

regVars == <<live, label, gen>>
findVars == <<sstate, snap, snapGen, tmpl, cursor, emitted>>
histVars == <<mutated, fresh>>
vars == <<regVars, findVars, histVars, lastCall>>

Call(c, s, ids, rv) == [call |-> c, s |-> s, ids |-> ids, rv |-> rv]

(* The place of id i in the ascending walk of the ids H. *)
Rank(i, H) == Cardinality({j \in H : j <= i})

(* The ids H in the order the walk meets them. *)
Ascending(H) == [k \in 1..Cardinality(H) |-> CHOOSE i \in H : Rank(i, H) = k]

(* Attribute Store matches(template) for the label attribute. *)
Matches(i, t) == i \in live /\ (t = AnyLabel \/ label[i] = t)

(* Snapshot entry i of session s is still the object find_init saw, and  *)
(* it matches the template now.                                          *)
Found(s, i) == Matches(i, tmpl[s]) /\ gen[i] = snapGen[s][i]

(* Mutant: an id of the snapshot matches whatever object now holds it.  *)
HitsAnyIncarnation(s) == {i \in snap[s] : cursor[s] < i /\ Matches(i, tmpl[s])}

(* The snapshot entries after the cursor that are found now. *)
Hits(s) == {i \in snap[s] : cursor[s] < i /\ Found(s, i)}

(* The walk has passed every entry of the snapshot. *)
Exhausted(s) == \A i \in snap[s] : i <= cursor[s]

(* Every registry change marks the searches in progress as disturbed. *)
Disturb == mutated' = [s \in Sessions |-> mutated[s] \/ sstate[s] = "Active"]

-----------------------------------------------------------------------------
Init ==
    /\ live = {}
    /\ label \in [Ids -> Labels]
    /\ gen = [i \in Ids |-> 0]
    /\ sstate = [s \in Sessions |-> "Idle"]
    /\ snap = [s \in Sessions |-> {}]
    /\ snapGen = [s \in Sessions |-> [i \in Ids |-> 0]]
    /\ tmpl = [s \in Sessions |-> AnyLabel]
    /\ cursor = [s \in Sessions |-> 0]
    /\ emitted = [s \in Sessions |-> <<>>]
    /\ mutated = [s \in Sessions |-> FALSE]
    /\ fresh = [s \in Sessions |-> {}]
    /\ lastCall = Call("None", CHOOSE s \in Sessions : TRUE, <<>>, "OK")

(* object_create (any native or imported object) registers a new object *)
(* under a free id, which may be the id of an object destroyed earlier.  *)
Create(s, i, l) ==
    /\ i \notin live
    /\ gen[i] < MaxGen
    /\ live' = live \cup {i}
    /\ label' = [label EXCEPT ![i] = l]
    /\ gen' = [gen EXCEPT ![i] = @ + 1]
    /\ Disturb
    /\ fresh' = [r \in Sessions |-> IF sstate[r] = "Active" THEN fresh[r] \cup {i}
                                                         ELSE fresh[r]]
    /\ lastCall' = Call("Create", s, <<i>>, "OK")
    /\ UNCHANGED findVars

(* object_destroy of an idle object. *)
Destroy(s, i) ==
    /\ i \in live
    /\ live' = live \ {i}
    /\ Disturb
    /\ lastCall' = Call("Destroy", s, <<i>>, "OK")
    /\ UNCHANGED <<label, gen, findVars, fresh>>

(* object_set_attributes of the (mutable) label of a live object. *)
SetLabel(s, i, l) ==
    /\ i \in live
    /\ label[i] # l
    /\ label' = [label EXCEPT ![i] = l]
    /\ Disturb
    /\ lastCall' = Call("SetAttributes", s, <<i>>, "OK")
    /\ UNCHANGED <<live, gen, findVars, fresh>>

(* object_find_init: snapshot the live ids and the template. *)
FindInit(s, t) ==
    /\ sstate[s] = "Idle"
    /\ sstate' = [sstate EXCEPT ![s] = "Active"]
    /\ snap' = [snap EXCEPT ![s] = live]
    /\ snapGen' = [snapGen EXCEPT ![s] = gen]
    /\ tmpl' = [tmpl EXCEPT ![s] = t]
    /\ cursor' = [cursor EXCEPT ![s] = 0]
    /\ emitted' = [emitted EXCEPT ![s] = <<>>]
    /\ mutated' = [mutated EXCEPT ![s] = FALSE]
    /\ fresh' = [fresh EXCEPT ![s] = {}]
    /\ lastCall' = Call("FindInit", s, <<>>, "OK")
    /\ UNCHANGED regVars

(* Only one outstanding search per session. *)
FindInitBusy(s, t) ==
    /\ sstate[s] = "Active"
    /\ lastCall' = Call("FindInit", s, <<>>, "OperationActive")
    /\ UNCHANGED <<regVars, findVars, histVars>>

(* The first m hits of a find, and the cursor it leaves: past the m-th   *)
(* hit, or at the end of the snapshot when at most m remain.             *)
Chunk(s, m) == {i \in Hits(s) : Rank(i, Hits(s)) <= m}
CursorAfter(s, m) ==
    IF Cardinality(Hits(s)) <= m THEN NIds
    ELSE CHOOSE i \in Hits(s) : Rank(i, Hits(s)) = m

(* Mutant: an exhausting find leaves the cursor where it was. *)
FindNoExhaust(s, m) ==
    /\ sstate[s] = "Active"
    /\ cursor' = [cursor EXCEPT ![s] = IF Cardinality(Hits(s)) <= m THEN @
                                         ELSE CursorAfter(s, m)]
    /\ emitted' = [emitted EXCEPT ![s] = @ \o Ascending(Chunk(s, m))]
    /\ lastCall' = Call("Find", s, Ascending(Chunk(s, m)), "OK")
    /\ UNCHANGED <<regVars, sstate, snap, snapGen, tmpl, histVars>>

(* Mutant: a full chunk moves the cursor one id past its last match. *)
FindSkipsNext(s, m) ==
    /\ sstate[s] = "Active"
    /\ cursor' = [cursor EXCEPT ![s] = IF Cardinality(Hits(s)) <= m THEN NIds
                                         ELSE CursorAfter(s, m) + 1]
    /\ emitted' = [emitted EXCEPT ![s] = @ \o Ascending(Chunk(s, m))]
    /\ lastCall' = Call("Find", s, Ascending(Chunk(s, m)), "OK")
    /\ UNCHANGED <<regVars, sstate, snap, snapGen, tmpl, histVars>>

(* Mutant: a find that matches nothing does not advance the cursor. *)
FindStallsOnMiss(s, m) ==
    /\ sstate[s] = "Active"
    /\ cursor' = [cursor EXCEPT ![s] = IF Hits(s) = {} THEN @ ELSE CursorAfter(s, m)]
    /\ emitted' = [emitted EXCEPT ![s] = @ \o Ascending(Chunk(s, m))]
    /\ lastCall' = Call("Find", s, Ascending(Chunk(s, m)), "OK")
    /\ UNCHANGED <<regVars, sstate, snap, snapGen, tmpl, histVars>>

(* Mutant: an exhausting find puts the cursor one past the last id. *)
FindPastEnd(s, m) ==
    /\ sstate[s] = "Active"
    /\ cursor' = [cursor EXCEPT ![s] = IF Cardinality(Hits(s)) <= m THEN NIds + 1
                                         ELSE CursorAfter(s, m)]
    /\ emitted' = [emitted EXCEPT ![s] = @ \o Ascending(Chunk(s, m))]
    /\ lastCall' = Call("Find", s, Ascending(Chunk(s, m)), "OK")
    /\ UNCHANGED <<regVars, sstate, snap, snapGen, tmpl, histVars>>

(* object_find(max_object_count = m): emit the next m matches at most, in *)
(* walk order; when fewer remain the search is exhausted.                *)
Find(s, m) ==
    /\ sstate[s] = "Active"
    /\ cursor' = [cursor EXCEPT ![s] = CursorAfter(s, m)]
    /\ emitted' = [emitted EXCEPT ![s] = @ \o Ascending(Chunk(s, m))]
    /\ lastCall' = Call("Find", s, Ascending(Chunk(s, m)), "OK")
    /\ UNCHANGED <<regVars, sstate, snap, snapGen, tmpl, histVars>>

(* find without a find_init. *)
FindIdle(s) ==
    /\ sstate[s] = "Idle"
    /\ lastCall' = Call("Find", s, <<>>, "OperationNotInitialized")
    /\ UNCHANGED <<regVars, findVars, histVars>>

(* object_find_final discards the snapshot and the cursor. *)
FindFinal(s) ==
    /\ sstate[s] = "Active"
    /\ sstate' = [sstate EXCEPT ![s] = "Idle"]
    /\ snap' = [snap EXCEPT ![s] = {}]
    /\ snapGen' = [snapGen EXCEPT ![s] = [i \in Ids |-> 0]]
    /\ tmpl' = [tmpl EXCEPT ![s] = AnyLabel]
    /\ cursor' = [cursor EXCEPT ![s] = 0]
    /\ emitted' = [emitted EXCEPT ![s] = <<>>]
    /\ mutated' = [mutated EXCEPT ![s] = FALSE]
    /\ fresh' = [fresh EXCEPT ![s] = {}]
    /\ lastCall' = Call("FindFinal", s, <<>>, "OK")
    /\ UNCHANGED regVars

Next ==
    \E s \in Sessions :
        \/ \E i \in Ids, l \in Labels : Create(s, i, l)
        \/ \E i \in Ids : Destroy(s, i)
        \/ \E i \in Ids, l \in Labels : SetLabel(s, i, l)
        \/ \E t \in Templates : FindInit(s, t)
        \/ \E t \in Templates : FindInitBusy(s, t)
        \/ \E m \in 1..MaxCount : Find(s, m)
        \/ FindIdle(s)
        \/ FindFinal(s)

(* A caller that has started a search keeps calling find until it is     *)
(* exhausted or finalised, as pkcs11-tool's lookup loop does in the      *)
(* integration test; no other call is assumed to happen.                 *)
Fairness == \A s \in Sessions : WF_vars(\E m \in 1..MaxCount : Find(s, m))

Spec == Init /\ [][Next]_vars /\ Fairness

-----------------------------------------------------------------------------
(* Properties *)

(* Every variable holds a value of its type; the cursor never leaves the *)
(* id range.                                                             *)
SearchTypeOK ==
    /\ live \subseteq Ids
    /\ label \in [Ids -> Labels]
    /\ sstate \in [Sessions -> {"Idle", "Active"}]
    /\ gen \in [Ids -> 0..MaxGen]
    /\ snap \in [Sessions -> SUBSET Ids]
    /\ snapGen \in [Sessions -> [Ids -> 0..MaxGen]]
    /\ tmpl \in [Sessions -> Templates]
    /\ cursor \in [Sessions -> 0..NIds]
    /\ emitted \in [Sessions -> Seq(Ids)]
    /\ mutated \in [Sessions -> BOOLEAN]
    /\ fresh \in [Sessions -> SUBSET Ids]

(* The handles a search has returned are snapshot ids, all the cursor has *)
(* passed, in strictly ascending order: chunked finds never re-emit an   *)
(* object and never go back, whatever the other sessions change.        *)
EmittedInOrder ==
    \A s \in Sessions : \A j \in DOMAIN emitted[s] :
        /\ emitted[s][j] \in snap[s]
        /\ emitted[s][j] <= cursor[s]
        /\ \A k \in DOMAIN emitted[s] : j < k => emitted[s][j] < emitted[s][k]

(* While no other session has changed the registry since find_init, the  *)
(* handles returned so far are exactly the matching objects the cursor   *)
(* has passed, in walk order: chunked finds add up to one unchunked find *)
(* (spec 8).                                                             *)
QuiescentComplete ==
    \A s \in Sessions :
        sstate[s] = "Active" /\ ~mutated[s] =>
            emitted[s] = Ascending({i \in snap[s] : i <= cursor[s] /\ Found(s, i)})

(* A find never returns the handle of an object created after its       *)
(* find_init (spec 4.3), even when another session destroyed an object  *)
(* of the snapshot and created a new one under the same id in between.  *)
FindsNoNewObjects ==
    [][lastCall'.call = "Find" =>
         \A j \in DOMAIN lastCall'.ids : lastCall'.ids[j] \notin fresh[lastCall'.s]]_vars

(* A search that the caller keeps driving is eventually exhausted, or    *)
(* finalised: find always advances its cursor.                           *)
SearchEnds ==
    \A s \in Sessions :
        sstate[s] = "Active" ~> (Exhausted(s) \/ sstate[s] = "Idle")

=============================================================================
