--------------------------- MODULE AttrLinkProofs ---------------------------
(***************************************************************************)
(* TLAPS proofs about the Attribute Store and Link Resolver (AttrLink),  *)
(* for every set of ids, types and immutable types satisfying            *)
(* AttrAssumption.                                                        *)
(***************************************************************************)
EXTENDS AttrLink, TLAPS

(* A batch names a set of types and gives each a value.                   *)
LEMMA BatchFacts ==
    ASSUME NEW b \in Batches
    PROVE  /\ DOMAIN b \subseteq Types
           /\ \A t \in DOMAIN b : b[t] \in Vals
BY DEF Batches

(* A batch without immutable types leaves the class record and every     *)
(* immutable record of the store as they were.                           *)
LEMMA AppliedKeepsImmutable ==
    ASSUME AttrTypeOK, NEW i \in Ids, NEW b \in Batches, DOMAIN b \cap ImmTypes = {}
    PROVE  /\ Applied(i, b) \in [Types -> Vals \cup {Absent}]
           /\ \A t \in ImmTypes : Applied(i, b)[t] = attrs[i][t]
BY BatchFacts, AttrAssumption DEF Applied, AttrTypeOK

LEMMA InitTypeOK == Init => AttrTypeOK
BY DEF Init, AttrTypeOK

LEMMA TypeStep == AttrTypeOK /\ [Next]_vars => AttrTypeOK'
<1> SUFFICES ASSUME AttrTypeOK, [Next]_vars PROVE AttrTypeOK'
    OBVIOUS
<1>1. ASSUME NEW i \in Ids, NEW a \in [Types -> Vals \cup {Absent}],
             NEW tgt \in Ids \cup {NoLink}, Create(i, a, tgt)
      PROVE  AttrTypeOK'
    BY <1>1 DEF Create, AttrTypeOK
<1>2. ASSUME NEW i \in Ids, NEW a \in [Types -> Vals \cup {Absent}], CreateIncomplete(i, a)
      PROVE  AttrTypeOK'
    BY <1>2 DEF CreateIncomplete, AttrTypeOK
<1>3. ASSUME NEW i \in Ids, CreateDuplicate(i) PROVE AttrTypeOK'
    BY <1>3 DEF CreateDuplicate, AttrTypeOK
<1>4. ASSUME NEW i \in Ids, Destroy(i) PROVE AttrTypeOK'
    BY <1>4 DEF Destroy, AttrTypeOK
<1>5. ASSUME NEW i \in Ids, NEW b \in Batches, Set(i, b) PROVE AttrTypeOK'
    <2>1. /\ Applied(i, b) \in [Types -> Vals \cup {Absent}]
          /\ Applied(i, b)[ClassType] = attrs[i][ClassType]
        BY <1>5, AppliedKeepsImmutable, AttrAssumption DEF Set
    <2> QED BY <1>5, <2>1 DEF Set, AttrTypeOK
<1>6. ASSUME NEW i \in Ids, NEW b \in Batches, SetProhibited(i, b) PROVE AttrTypeOK'
    BY <1>6 DEF SetProhibited, AttrTypeOK
<1>7. ASSUME NEW i \in Ids, NEW t \in Types, NEW cap \in Caps, GetFull(i, t, cap)
      PROVE  AttrTypeOK'
    BY <1>7 DEF GetFull, AttrTypeOK
<1>8. CASE UNCHANGED vars
    BY <1>8 DEF vars, AttrTypeOK
<1> QED BY <1>1, <1>2, <1>3, <1>4, <1>5, <1>6, <1>7, <1>8 DEF Next

(* Every reachable state is well typed and every registered object has   *)
(* its class record, for every instance of the constants.                *)
THEOREM TypeCorrect == Spec => []AttrTypeOK
BY InitTypeOK, TypeStep, PTL DEF Spec

=====
