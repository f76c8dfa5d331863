---------------------------- MODULE SearchProofs ----------------------------
(***************************************************************************)
(* Proofs about the Search Session: the type invariant, that a search     *)
(* returns snapshot ids in ascending order and never more than the cursor *)
(* has passed (EmittedInOrder), that an undisturbed search has returned   *)
(* exactly the matches it has passed (QuiescentComplete), and that no    *)
(* find returns an object created after its find_init                    *)
(* (FindsNoNewObjects), for every set of sessions, ids, labels, chunk    *)
(* sizes and re-creations of an id.  The last rests on GenInv: an id     *)
(* created since find_init has a newer incarnation than its snapshot's.  *)
(*                                                                         *)
(* They rest on facts about the walk order: Rank is a strictly monotone  *)
(* bijection from a finite set of ids onto 1..Cardinality, so Ascending  *)
(* lists the set without gaps or repeats, and it is the only ascending   *)
(* sequence with that set of elements.                                   *)
(***************************************************************************)
EXTENDS Search, FiniteSetTheorems, SequenceTheorems, TLAPS

-----------------------------------------------------------------------------
(* The walk order of a finite set of ids. *)

(* Rank(i, H) places i in 1..Cardinality(H), and a larger id later. *)
LEMMA RankOrder ==
    ASSUME NEW H \in SUBSET Nat, IsFiniteSet(H)
    PROVE  /\ \A i \in H : Rank(i, H) \in 1..Cardinality(H)
           /\ \A i, j \in H : i < j => Rank(i, H) < Rank(j, H)
<1>1. ASSUME NEW i \in H
      PROVE  Rank(i, H) \in 1..Cardinality(H)
  <2> DEFINE B == {j \in H : j <= i}
  <2>1. IsFiniteSet(B) /\ Cardinality(B) <= Cardinality(H)
    BY FS_Subset DEF B
  <2>2. Cardinality(B) # 0
    BY <2>1, FS_EmptySet DEF B
  <2>3. Cardinality(B) \in Nat /\ Cardinality(H) \in Nat
    BY <2>1, FS_CardinalityType
  <2> QED
    BY <2>1, <2>2, <2>3 DEF Rank, B
<1>2. \A i, j \in H : i < j => Rank(i, H) < Rank(j, H)
  <2> SUFFICES ASSUME NEW i \in H, NEW j \in H, i < j
               PROVE  Rank(i, H) < Rank(j, H)
    OBVIOUS
  <2> DEFINE A == {k \in H : k <= i}
             B == {k \in H : k <= j}
  <2>1. IsFiniteSet(A) /\ IsFiniteSet(B)
    BY FS_Subset DEF A, B
  <2>2. j \notin A
    BY DEF A
  <2>3. Cardinality(A \cup {j}) = Cardinality(A) + 1
    BY <2>1, <2>2, FS_AddElement
  <2>4. A \cup {j} \subseteq B
    <3> SUFFICES ASSUME NEW k \in A \cup {j} PROVE k \in B
      OBVIOUS
    <3> QED
      BY DEF A, B
  <2>5. Cardinality(A \cup {j}) <= Cardinality(B)
    BY <2>1, <2>4, FS_Subset
  <2>6. Cardinality(A) \in Nat /\ Cardinality(B) \in Nat
    BY <2>1, FS_CardinalityType
  <2>7. Rank(i, H) = Cardinality(A) /\ Rank(j, H) = Cardinality(B)
    BY DEF Rank, A, B
  <2> QED
    BY <2>3, <2>5, <2>6, <2>7
<1> QED
  BY <1>1, <1>2

(* Every place 1..Cardinality(H) is the rank of an id of H. *)
LEMMA RankOnto ==
    ASSUME NEW H \in SUBSET Nat, IsFiniteSet(H),
           NEW k \in 1..Cardinality(H)
    PROVE  \E i \in H : Rank(i, H) = k
<1> DEFINE n == Cardinality(H)
           r == [i \in H |-> Rank(i, H)]
<1>1. n \in Nat
  BY FS_CardinalityType DEF n
<1>2. r \in Injection(H, 1..n)
  <2>1. r \in [H -> 1..n]
    BY RankOrder DEF r, n
  <2>2. \A a, b \in H : r[a] = r[b] => a = b
    <3> SUFFICES ASSUME NEW a \in H, NEW b \in H, a # b
                 PROVE  r[a] # r[b]
      OBVIOUS
    <3>1. CASE a < b
      BY <3>1, RankOrder DEF r
    <3>2. CASE b < a
      BY <3>2, RankOrder DEF r
    <3> QED
      BY <3>1, <3>2
  <2> QED
    BY <2>1, <2>2 DEF Injection, IsInjective
<1>3. IsFiniteSet(1..n) /\ Cardinality(1..n) = n
  BY <1>1, FS_Interval
<1>4. r \in Surjection(H, 1..n)
  BY <1>2, <1>3, FS_Injection
<1> QED
  BY <1>4 DEF Surjection, n, r
(* So the rank tells ids apart, and orders them as the ids do. *)
LEMMA RankDecides ==
    ASSUME NEW H \in SUBSET Nat, IsFiniteSet(H), NEW a \in H, NEW b \in H
    PROVE  /\ Rank(a, H) = Rank(b, H) => a = b
           /\ Rank(a, H) < Rank(b, H) => a < b
<1>1. Rank(a, H) \in Nat /\ Rank(b, H) \in Nat
  BY RankOrder
<1>2. CASE a < b
  BY <1>1, <1>2, RankOrder
<1>3. CASE b < a
  BY <1>1, <1>3, RankOrder
<1>4. CASE a = b
  BY <1>1, <1>4
<1> QED
  BY <1>2, <1>3, <1>4

(* Ascending(H) lists H: each place k holds the id of rank k, the ids    *)
(* rise strictly, and every id of H has a place.                         *)
LEMMA AscendingFacts ==
    ASSUME NEW H \in SUBSET Nat, IsFiniteSet(H)
    PROVE  /\ Ascending(H) \in Seq(H)
           /\ Len(Ascending(H)) = Cardinality(H)
           /\ \A k \in 1..Cardinality(H) :
                 Ascending(H)[k] \in H /\ Rank(Ascending(H)[k], H) = k
           /\ \A k, l \in 1..Cardinality(H) :
                 k < l => Ascending(H)[k] < Ascending(H)[l]
           /\ \A i \in H : \E k \in 1..Cardinality(H) : Ascending(H)[k] = i
<1> DEFINE n == Cardinality(H)
           e == Ascending(H)
<1>1. n \in Nat
  BY FS_CardinalityType DEF n
<1>2. \A k \in 1..n : e[k] \in H /\ Rank(e[k], H) = k
  <2> SUFFICES ASSUME NEW k \in 1..n
               PROVE  e[k] \in H /\ Rank(e[k], H) = k
    OBVIOUS
  <2>1. \E i \in H : Rank(i, H) = k
    BY RankOnto DEF n
  <2> QED
    BY <2>1 DEF e, n, Ascending
<1>3. e \in Seq(H) /\ Len(e) = n
  <2>1. e = [k \in 1..n |-> e[k]] /\ e \in [1..n -> H]
    BY <1>2 DEF e, n, Ascending
  <2> QED
    BY <1>1, <2>1
<1>4. \A k, l \in 1..n : k < l => e[k] < e[l]
  <2> SUFFICES ASSUME NEW k \in 1..n, NEW l \in 1..n, k < l
               PROVE  e[k] < e[l]
    OBVIOUS
  <2>1. e[k] \in H /\ Rank(e[k], H) = k /\ e[l] \in H /\ Rank(e[l], H) = l
    BY <1>2
  <2>2. Rank(e[k], H) < Rank(e[l], H) => e[k] < e[l]
    BY <2>1, RankDecides
  <2> QED
    BY <2>1, <2>2
<1>5. \A i \in H : \E k \in 1..n : e[k] = i
  <2> SUFFICES ASSUME NEW i \in H
               PROVE  \E k \in 1..n : e[k] = i
    OBVIOUS
  <2> DEFINE r == Rank(i, H)
  <2>1. r \in 1..n
    BY RankOrder DEF n, r
  <2>2. e[r] \in H /\ Rank(e[r], H) = r
    BY <1>2, <2>1
  <2>4. e[r] = i
    BY <2>2, RankDecides DEF r
  <2> QED
    BY <2>1, <2>4
<1> QED
  BY <1>2, <1>3, <1>4, <1>5 DEF n, e

(* The ids of a strictly rising list of k ids are k distinct ids. *)
LEMMA RisingImage ==
    ASSUME NEW k \in Nat, NEW e \in [1..k -> Nat],
           \A a, b \in 1..k : a < b => e[a] < e[b]
    PROVE  /\ IsFiniteSet({e[a] : a \in 1..k})
           /\ Cardinality({e[a] : a \in 1..k}) = k
<1> DEFINE T == {e[a] : a \in 1..k}
<1>1. e \in Surjection(1..k, T)
  BY DEF Surjection, T
<1>2. e \in Injection(1..k, T)
  <2>1. \A a, b \in 1..k : e[a] = e[b] => a = b
    <3> SUFFICES ASSUME NEW a \in 1..k, NEW b \in 1..k, a # b
                 PROVE  e[a] # e[b]
      OBVIOUS
    <3>1. a < b \/ b < a
      OBVIOUS
    <3> QED
      BY <3>1
  <2> QED
    BY <2>1 DEF Injection, IsInjective, T
<1>3. IsFiniteSet(1..k) /\ Cardinality(1..k) = k
  BY FS_Interval
<1> QED
  BY <1>1, <1>2, <1>3, FS_Surjection DEF T

(* A strictly rising sequence of ids is the walk order of its own ids. *)
LEMMA AscendingUnique ==
    ASSUME NEW e \in Seq(Nat),
           \A a, b \in 1..Len(e) : a < b => e[a] < e[b]
    PROVE  /\ IsFiniteSet({e[a] : a \in 1..Len(e)})
           /\ e = Ascending({e[a] : a \in 1..Len(e)})
<1> DEFINE H == {e[a] : a \in 1..Len(e)}
<1>0. Len(e) \in Nat /\ e \in [1..Len(e) -> Nat]
  BY LenProperties
<1>1. IsFiniteSet(H) /\ Cardinality(H) = Len(e)
  BY <1>0, RisingImage DEF H
<1>2. H \in SUBSET Nat
  BY <1>0 DEF H
<1>3. \A k \in 1..Len(e) : Rank(e[k], H) = k
  <2> SUFFICES ASSUME NEW k \in 1..Len(e)
               PROVE  Rank(e[k], H) = k
    OBVIOUS
  <2>1. {j \in H : j <= e[k]} = {e[a] : a \in 1..k}
    <3>1. \A a \in 1..Len(e) : e[a] <= e[k] <=> a <= k
      <4> SUFFICES ASSUME NEW a \in 1..Len(e) PROVE e[a] <= e[k] <=> a <= k
        OBVIOUS
      <4>1. CASE a < k
        BY <1>0, <4>1
      <4>2. CASE k < a
        BY <1>0, <4>2
      <4> QED
        BY <4>1, <4>2
    <3> QED
      BY <3>1 DEF H
  <2>2. Cardinality({e[a] : a \in 1..k}) = k
    <3> DEFINE f == [a \in 1..k |-> e[a]]
    <3>1. k \in Nat /\ f \in [1..k -> Nat] /\ \A a, b \in 1..k : a < b => f[a] < f[b]
      BY <1>0 DEF f
    <3>2. {f[a] : a \in 1..k} = {e[a] : a \in 1..k}
      BY DEF f
    <3>3. Cardinality({f[a] : a \in 1..k}) = k
      BY <3>1, RisingImage
    <3> QED
      BY <3>2, <3>3
  <2> QED
    BY <2>1, <2>2 DEF Rank
<1>4. \A k \in 1..Len(e) : Ascending(H)[k] = e[k]
  <2> SUFFICES ASSUME NEW k \in 1..Len(e)
               PROVE  Ascending(H)[k] = e[k]
    OBVIOUS
  <2>1. Ascending(H)[k] \in H /\ Rank(Ascending(H)[k], H) = k
    BY <1>1, <1>2, AscendingFacts
  <2>2. e[k] \in H /\ Rank(e[k], H) = k
    BY <1>3 DEF H
  <2> QED
    BY <1>1, <1>2, <2>1, <2>2, RankDecides
<1>5. Ascending(H) \in Seq(H) /\ Len(Ascending(H)) = Len(e)
  BY <1>1, <1>2, AscendingFacts
<1>6. Ascending(H) = e
  BY <1>0, <1>1, <1>4 DEF Ascending
<1> QED
  BY <1>1, <1>6 DEF H

(* Two rising lists, every id of the first below every id of the second, *)
(* rise when joined.                                                    *)
LEMMA RisingConcat ==
    ASSUME NEW x \in Seq(Nat), NEW y \in Seq(Nat),
           \A k, l \in 1..Len(x) : k < l => x[k] < x[l],
           \A k, l \in 1..Len(y) : k < l => y[k] < y[l],
           \A k \in 1..Len(x), l \in 1..Len(y) : x[k] < y[l]
    PROVE  /\ x \o y \in Seq(Nat)
           /\ Len(x \o y) = Len(x) + Len(y)
           /\ \A k \in 1..Len(x \o y) :
                 (x \o y)[k] = IF k <= Len(x) THEN x[k] ELSE y[k - Len(x)]
           /\ \A a, b \in 1..Len(x \o y) : a < b => (x \o y)[a] < (x \o y)[b]
<1> DEFINE e == x \o y
<1>1. /\ e \in Seq(Nat)
      /\ Len(e) = Len(x) + Len(y)
      /\ \A k \in 1..Len(e) : e[k] = IF k <= Len(x) THEN x[k] ELSE y[k - Len(x)]
  BY ConcatProperties DEF e
<1>2. \A a, b \in 1..Len(e) : a < b => e[a] < e[b]
  <2> SUFFICES ASSUME NEW a \in 1..Len(e), NEW b \in 1..Len(e), a < b
               PROVE  e[a] < e[b]
    OBVIOUS
  <2>1. CASE b <= Len(x)
    BY <1>1, <2>1
  <2>2. CASE a <= Len(x) /\ Len(x) < b
    BY <1>1, <2>2
  <2>3. CASE Len(x) < a
    <3>1. /\ a - Len(x) \in 1..Len(y) /\ b - Len(x) \in 1..Len(y)
          /\ a - Len(x) < b - Len(x)
      BY <1>1, <2>3
    <3>2. e[a] = y[a - Len(x)] /\ e[b] = y[b - Len(x)]
      BY <1>1, <2>3
    <3> QED
      BY <3>1, <3>2
  <2> QED
    BY <2>1, <2>2, <2>3
<1> QED
  BY <1>1, <1>2 DEF e

(* Listing P and then C, every id of C above every id of P, lists P \cup C. *)
LEMMA AscendingConcat ==
    ASSUME NEW P \in SUBSET Nat, IsFiniteSet(P),
           NEW C \in SUBSET Nat, IsFiniteSet(C),
           \A p \in P, c \in C : p < c
    PROVE  Ascending(P) \o Ascending(C) = Ascending(P \cup C)
<1> DEFINE x == Ascending(P)
           y == Ascending(C)
           e == x \o y
<1>1. /\ x \in Seq(Nat) /\ Len(x) = Cardinality(P)
      /\ \A k \in 1..Len(x) : x[k] \in P
      /\ \A k, l \in 1..Len(x) : k < l => x[k] < x[l]
      /\ \A i \in P : \E k \in 1..Len(x) : x[k] = i
  <2>1. /\ x \in Seq(P) /\ Len(x) = Cardinality(P)
        /\ \A k \in 1..Cardinality(P) : x[k] \in P
        /\ \A k, l \in 1..Cardinality(P) : k < l => x[k] < x[l]
        /\ \A i \in P : \E k \in 1..Cardinality(P) : x[k] = i
    BY AscendingFacts DEF x
  <2>2. Seq(P) \subseteq Seq(Nat)
    BY SeqMonotonic
  <2> QED
    BY <2>1, <2>2
<1>2. /\ y \in Seq(Nat) /\ Len(y) = Cardinality(C)
      /\ \A k \in 1..Len(y) : y[k] \in C
      /\ \A k, l \in 1..Len(y) : k < l => y[k] < y[l]
      /\ \A i \in C : \E k \in 1..Len(y) : y[k] = i
  <2>1. /\ y \in Seq(C) /\ Len(y) = Cardinality(C)
        /\ \A k \in 1..Cardinality(C) : y[k] \in C
        /\ \A k, l \in 1..Cardinality(C) : k < l => y[k] < y[l]
        /\ \A i \in C : \E k \in 1..Cardinality(C) : y[k] = i
    BY AscendingFacts DEF y
  <2>2. Seq(C) \subseteq Seq(Nat)
    BY SeqMonotonic
  <2> QED
    BY <2>1, <2>2
<1>3. /\ e \in Seq(Nat)
      /\ Len(e) = Len(x) + Len(y)
      /\ \A k \in 1..Len(e) : e[k] = IF k <= Len(x) THEN x[k] ELSE y[k - Len(x)]
      /\ \A a, b \in 1..Len(e) : a < b => e[a] < e[b]
  BY <1>1, <1>2, RisingConcat DEF e
<1>5. {e[a] : a \in 1..Len(e)} = P \cup C
  <2>1. \A a \in 1..Len(e) : e[a] \in P \cup C
    BY <1>1, <1>2, <1>3
  <2>2. ASSUME NEW i \in P PROVE \E a \in 1..Len(e) : e[a] = i
    BY <1>1, <1>2, <1>3
  <2>3. ASSUME NEW i \in C PROVE \E a \in 1..Len(e) : e[a] = i
    <3>1. PICK k \in 1..Len(y) : y[k] = i
      BY <1>2
    <3>2. Len(x) + k \in 1..Len(e) /\ e[Len(x) + k] = i
      BY <1>1, <1>2, <1>3, <3>1
    <3> QED
      BY <3>2
  <2> QED
    BY <2>1, <2>2, <2>3
<1> QED
  BY <1>3, <1>5, AscendingUnique DEF e

-----------------------------------------------------------------------------
(* What one object_find computes. *)

(* The ids at or before the cursor that match now: an undisturbed search *)
(* has returned exactly these.                                          *)
Passed(s) == {i \in snap[s] : i <= cursor[s] /\ Found(s, i)}

LEMMA IdsFinite == IsFiniteSet(Ids) /\ Ids \subseteq Nat
BY SearchAssumption, FS_Interval DEF Ids

(* A find walks from the cursor to CursorAfter(s, m) and returns the     *)
(* matching ids strictly after the first and up to the second, in order. *)
LEMMA FindFacts ==
    ASSUME SearchTypeOK, NEW s \in Sessions, NEW m \in 1..MaxCount
    PROVE  LET C == Chunk(s, m)
               c == CursorAfter(s, m)
           IN  /\ C \subseteq snap[s] /\ IsFiniteSet(C) /\ C \subseteq Nat
               /\ c \in 0..NIds /\ cursor[s] <= c
               /\ \A i \in C : cursor[s] < i /\ i <= c /\ Found(s, i)
               /\ \A i \in snap[s] :
                     cursor[s] < i /\ i <= c /\ Found(s, i) => i \in C
<1> DEFINE h == Hits(s)
           C == Chunk(s, m)
           c == CursorAfter(s, m)
<1>1. h \subseteq snap[s] /\ snap[s] \subseteq Ids /\ IsFiniteSet(h) /\ h \subseteq Nat
      /\ cursor[s] \in 0..NIds
  <2>1. snap[s] \subseteq Ids /\ cursor[s] \in 0..NIds
    BY DEF SearchTypeOK
  <2>2. h \subseteq Ids
    BY <2>1 DEF h, Hits
  <2> QED
    BY <2>1, <2>2, IdsFinite, FS_Subset DEF h, Hits
<1>2. C \subseteq h /\ IsFiniteSet(C)
  BY <1>1, FS_Subset DEF C, Chunk, h
<1>3. \A i \in h : cursor[s] < i /\ Found(s, i)
  BY DEF h, Hits
<1>4. NIds \in Nat /\ m \in Nat
  BY SearchAssumption
<1>5. CASE Cardinality(h) <= m
  <2>1. c = NIds
    BY <1>5 DEF c, CursorAfter, h
  <2>2. C = h
    <3>1. \A i \in h : Rank(i, h) \in 1..Cardinality(h)
      BY <1>1, RankOrder
    <3>2. Cardinality(h) \in Nat
      BY <1>1, FS_CardinalityType
    <3> QED
      BY <1>4, <1>5, <3>1, <3>2 DEF C, Chunk, h
  <2> QED
    BY <1>1, <1>2, <1>3, <1>4, <2>1, <2>2 DEF Ids, Hits, h, C, c
<1>6. CASE ~(Cardinality(h) <= m)
  <2>1. Cardinality(h) \in Nat
    BY <1>1, FS_CardinalityType
  <2>2. m \in 1..Cardinality(h)
    BY <1>4, <1>6, <2>1
  <2>3. \E i \in h : Rank(i, h) = m
    BY <1>1, <2>2, RankOnto
  <2>4. c \in h /\ Rank(c, h) = m
    BY <1>6, <2>3 DEF c, CursorAfter, h
  <2>5. \A i \in C : i <= c
    <3> SUFFICES ASSUME NEW i \in C PROVE i <= c
      OBVIOUS
    <3>1. i \in h /\ Rank(i, h) <= m
      BY DEF C, Chunk, h
    <3>2. Rank(i, h) \in Nat /\ i \in Nat /\ c \in Nat
      BY <1>1, <2>4, <3>1, RankOrder
    <3>3. c < i => Rank(c, h) < Rank(i, h)
      BY <1>1, <2>4, <3>1, RankOrder
    <3> QED
      BY <2>4, <3>1, <3>2, <3>3
  <2>6. \A i \in h : i <= c => i \in C
    <3> SUFFICES ASSUME NEW i \in h, i <= c PROVE i \in C
      OBVIOUS
    <3>1. i < c => Rank(i, h) < Rank(c, h)
      BY <1>1, <2>4, RankOrder
    <3>2. Rank(i, h) \in Nat
      BY <1>1, RankOrder
    <3> QED
      BY <1>1, <2>4, <3>1, <3>2 DEF C, Chunk, h
  <2> QED
    BY <1>1, <1>2, <1>3, <2>4, <2>5, <2>6 DEF Hits, Ids, h, C, c
<1> QED
  BY <1>5, <1>6

LEMMA AscendingEmpty == Ascending({}) = <<>>
BY FS_EmptySet DEF Ascending

(* The chunk a find returns is a list of ids of its own chunk, rising. *)
LEMMA ChunkList ==
    ASSUME SearchTypeOK, NEW s \in Sessions, NEW m \in 1..MaxCount
    PROVE  LET x == Ascending(Chunk(s, m))
           IN  /\ x \in Seq(Ids)
               /\ \A k \in 1..Len(x) : x[k] \in Chunk(s, m)
               /\ \A k, l \in 1..Len(x) : k < l => x[k] < x[l]
<1> DEFINE C == Chunk(s, m)
           x == Ascending(C)
<1>1. C \subseteq snap[s] /\ IsFiniteSet(C) /\ C \subseteq Nat /\ snap[s] \subseteq Ids
  BY FindFacts DEF C, SearchTypeOK
<1>2. /\ x \in Seq(C) /\ Len(x) = Cardinality(C)
      /\ \A k \in 1..Cardinality(C) : x[k] \in C
      /\ \A k, l \in 1..Cardinality(C) : k < l => x[k] < x[l]
  BY <1>1, AscendingFacts DEF x
<1>3. x \in Seq(Ids)
  BY <1>1, <1>2, SeqMonotonic
<1> QED
  BY <1>2, <1>3 DEF x, C

-----------------------------------------------------------------------------
(* The type invariant. *)

LEMMA TypeInit == Init => SearchTypeOK
BY SearchAssumption DEF Init, SearchTypeOK, Ids, Templates

LEMMA TypeStep == SearchTypeOK /\ [Next]_vars => SearchTypeOK'
<1> SUFFICES ASSUME SearchTypeOK, [Next]_vars PROVE SearchTypeOK'
  OBVIOUS
<1> USE DEF SearchTypeOK
<1>1. ASSUME NEW s \in Sessions, NEW i \in Ids, NEW l \in Labels, Create(s, i, l)
      PROVE  SearchTypeOK'
  <2>1. mutated' \in [Sessions -> BOOLEAN]
    BY <1>1, Zenon DEF Create, Disturb
  <2>2. fresh' \in [Sessions -> SUBSET Ids]
    BY <1>1 DEF Create
  <2>3. gen' \in [Ids -> 0..MaxGen]
    BY <1>1, SearchAssumption DEF Create
  <2> QED
    BY <1>1, <2>1, <2>2, <2>3 DEF Create, findVars
<1>2. ASSUME NEW s \in Sessions, NEW i \in Ids, Destroy(s, i)
      PROVE  SearchTypeOK'
  <2>1. mutated' \in [Sessions -> BOOLEAN]
    BY <1>2, Zenon DEF Destroy, Disturb
  <2> QED
    BY <1>2, <2>1 DEF Destroy, findVars
<1>3. ASSUME NEW s \in Sessions, NEW i \in Ids, NEW l \in Labels, SetLabel(s, i, l)
      PROVE  SearchTypeOK'
  <2>1. mutated' \in [Sessions -> BOOLEAN]
    BY <1>3, Zenon DEF SetLabel, Disturb
  <2> QED
    BY <1>3, <2>1 DEF SetLabel, findVars
<1>4. ASSUME NEW s \in Sessions, NEW t \in Templates, FindInit(s, t)
      PROVE  SearchTypeOK'
  <2>1. mutated' \in [Sessions -> BOOLEAN]
    BY <1>4, Zenon DEF FindInit
  <2> QED
    BY <1>4, <2>1, SearchAssumption DEF FindInit, regVars
<1>5. ASSUME NEW s \in Sessions, NEW t \in Templates, FindInitBusy(s, t)
      PROVE  SearchTypeOK'
  BY <1>5 DEF FindInitBusy, regVars, findVars, histVars
<1>6. ASSUME NEW s \in Sessions, NEW m \in 1..MaxCount, Find(s, m)
      PROVE  SearchTypeOK'
  <2>1. CursorAfter(s, m) \in 0..NIds
    BY FindFacts
  <2>2. emitted[s] \o Ascending(Chunk(s, m)) \in Seq(Ids)
    BY ChunkList, ConcatProperties
  <2> QED
    BY <1>6, <2>1, <2>2 DEF Find, regVars, histVars
<1>7. ASSUME NEW s \in Sessions, FindIdle(s)
      PROVE  SearchTypeOK'
  BY <1>7 DEF FindIdle, regVars, findVars, histVars
<1>8. ASSUME NEW s \in Sessions, FindFinal(s)
      PROVE  SearchTypeOK'
  <2>1. mutated' \in [Sessions -> BOOLEAN]
    BY <1>8, Zenon DEF FindFinal
  <2> QED
    BY <1>8, <2>1, SearchAssumption DEF FindFinal, regVars, Templates
<1>9. CASE UNCHANGED vars
  BY <1>9 DEF vars, regVars, findVars, histVars
<1> QED
  BY <1>1, <1>2, <1>3, <1>4, <1>5, <1>6, <1>7, <1>8, <1>9 DEF Next

(* Every state the Search Session reaches is well typed, and every cursor *)
(* stays inside the id range (object_find never runs past the snapshot).  *)
THEOREM TypeCorrect == Spec => []SearchTypeOK
BY TypeInit, TypeStep, PTL DEF Spec

-----------------------------------------------------------------------------
(* Order: one session at a time. *)

(* What EmittedInOrder says of session r. *)
InOrder(r) ==
    \A j \in DOMAIN emitted[r] :
        /\ emitted[r][j] \in snap[r]
        /\ emitted[r][j] <= cursor[r]
        /\ \A k \in DOMAIN emitted[r] : j < k => emitted[r][j] < emitted[r][k]

LEMMA InOrderAll == EmittedInOrder <=> \A r \in Sessions : InOrder(r)
BY DEF EmittedInOrder, InOrder

(* A step that leaves a session's list, snapshot and cursor alone, or that *)
(* empties its list, keeps that session in order.                        *)
LEMMA InOrderFrame ==
    ASSUME NEW r, InOrder(r),
           \/ /\ emitted'[r] = emitted[r] /\ snap'[r] = snap[r]
              /\ cursor'[r] = cursor[r]
           \/ emitted'[r] = << >>
    PROVE  InOrder(r)'
BY DEF InOrder

(* object_find appends its chunk to a list that stays in order: the old  *)
(* handles lie at or before the cursor, the chunk after it.              *)
LEMMA FindOrder ==
    ASSUME SearchTypeOK, NEW s \in Sessions, NEW m \in 1..MaxCount,
           InOrder(s), Find(s, m)
    PROVE  InOrder(s)'
<1> DEFINE e == emitted[s]
           x == Ascending(Chunk(s, m))
           C == Chunk(s, m)
           c == CursorAfter(s, m)
<1>1. /\ C \subseteq snap[s] /\ c \in 0..NIds /\ cursor[s] <= c
      /\ \A i \in C : cursor[s] < i /\ i <= c
  BY FindFacts DEF C, c
<1>2. /\ x \in Seq(Ids)
      /\ \A k \in 1..Len(x) : x[k] \in C
      /\ \A k, l \in 1..Len(x) : k < l => x[k] < x[l]
  BY ChunkList DEF x, C
<1>3. /\ e \in Seq(Ids)
      /\ \A k \in 1..Len(e) : e[k] \in snap[s] /\ e[k] <= cursor[s]
      /\ \A k, l \in 1..Len(e) : k < l => e[k] < e[l]
  BY DEF SearchTypeOK, InOrder, e
<1>4. e \in Seq(Nat) /\ x \in Seq(Nat) /\ cursor[s] \in Nat
  <2>1. Ids \subseteq Nat
    BY IdsFinite
  <2>2. e \in Seq(Nat)
    BY <1>3, <2>1, SeqMonotonic
  <2>3. x \in Seq(Nat)
    BY <1>2, <2>1, SeqMonotonic
  <2>4. cursor[s] \in Nat
    BY DEF SearchTypeOK
  <2> QED
    BY <2>2, <2>3, <2>4
<1>5. \A k \in 1..Len(e), l \in 1..Len(x) : e[k] < x[l]
  <2> SUFFICES ASSUME NEW k \in 1..Len(e), NEW l \in 1..Len(x)
               PROVE  e[k] < x[l]
    OBVIOUS
  <2>1. e[k] <= cursor[s]
    BY <1>3
  <2>2. x[l] \in C
    BY <1>2
  <2>3. cursor[s] < x[l]
    BY <2>2, <1>1
  <2> QED
    BY <1>4, <2>1, <2>3, ElementOfSeq
<1>6. /\ e \o x \in Seq(Nat)
      /\ Len(e \o x) = Len(e) + Len(x)
      /\ \A k \in 1..Len(e \o x) :
            (e \o x)[k] = IF k <= Len(e) THEN e[k] ELSE x[k - Len(e)]
      /\ \A a, b \in 1..Len(e \o x) : a < b => (e \o x)[a] < (e \o x)[b]
  BY <1>2, <1>3, <1>4, <1>5, RisingConcat
<1>7. emitted'[s] = e \o x /\ snap'[s] = snap[s] /\ cursor'[s] = c
  BY DEF Find, SearchTypeOK, e, x, c
<1>8. \A k \in 1..Len(e \o x) : (e \o x)[k] \in snap[s] /\ (e \o x)[k] <= c
  <2> SUFFICES ASSUME NEW k \in 1..Len(e \o x)
               PROVE  (e \o x)[k] \in snap[s] /\ (e \o x)[k] <= c
    OBVIOUS
  <2>1. CASE k <= Len(e)
    BY <1>1, <1>3, <1>4, <1>6, <2>1
  <2>2. CASE ~(k <= Len(e))
    <3>1. k - Len(e) \in 1..Len(x)
      BY <1>4, <1>6, <2>2
    <3> QED
      BY <1>1, <1>2, <1>6, <2>2, <3>1
  <2> QED
    BY <2>1, <2>2
<1>9. DOMAIN (e \o x) = 1..Len(e \o x)
  BY <1>6
<1> QED
  <2> SUFFICES ASSUME NEW j \in 1..Len(e \o x)
               PROVE  /\ (e \o x)[j] \in snap[s]
                      /\ (e \o x)[j] <= c
                      /\ \A k \in 1..Len(e \o x) : j < k => (e \o x)[j] < (e \o x)[k]
    BY <1>7, <1>9 DEF InOrder
  <2> QED
    BY <1>6, <1>8

(* Every step keeps every session in order. *)
LEMMA OrderStep ==
    ASSUME SearchTypeOK, EmittedInOrder, [Next]_vars
    PROVE  EmittedInOrder'
<1> SUFFICES ASSUME NEW r \in Sessions PROVE InOrder(r)'
  BY DEF EmittedInOrder, InOrder
<1>0. InOrder(r)
  BY InOrderAll
<1>1. CASE \E s \in Sessions, i \in Ids, l \in Labels : Create(s, i, l)
  BY <1>0, <1>1, InOrderFrame DEF Create, findVars
<1>2. CASE \E s \in Sessions, i \in Ids : Destroy(s, i)
  BY <1>0, <1>2, InOrderFrame DEF Destroy, findVars
<1>3. CASE \E s \in Sessions, i \in Ids, l \in Labels : SetLabel(s, i, l)
  BY <1>0, <1>3, InOrderFrame DEF SetLabel, findVars
<1>4. CASE \E s \in Sessions, t \in Templates : FindInit(s, t)
  BY <1>0, <1>4, InOrderFrame DEF FindInit, SearchTypeOK
<1>5. CASE \E s \in Sessions, t \in Templates : FindInitBusy(s, t)
  BY <1>0, <1>5, InOrderFrame DEF FindInitBusy, findVars
<1>6. CASE \E s \in Sessions, m \in 1..MaxCount : Find(s, m)
  <2> PICK s \in Sessions, m \in 1..MaxCount : Find(s, m)
    BY <1>6
  <2>1. CASE r = s
    BY <1>0, <2>1, FindOrder
  <2>2. CASE r # s
    BY <1>0, <2>2, InOrderFrame DEF Find, SearchTypeOK
  <2> QED
    BY <2>1, <2>2
<1>7. CASE \E s \in Sessions : FindIdle(s)
  BY <1>0, <1>7, InOrderFrame DEF FindIdle, findVars
<1>8. CASE \E s \in Sessions : FindFinal(s)
  BY <1>0, <1>8, InOrderFrame DEF FindFinal, SearchTypeOK
<1>9. CASE UNCHANGED vars
  BY <1>0, <1>9, InOrderFrame DEF vars, findVars
<1> QED
  BY <1>1, <1>2, <1>3, <1>4, <1>5, <1>6, <1>7, <1>8, <1>9 DEF Next

(* Every list of handles a search has returned rises strictly and stays *)
(* inside its find_init snapshot and at or before its cursor: object_find *)
(* never returns a handle twice, out of order, or from outside the snapshot. *)
THEOREM EmittedInOrderHolds == Spec => []EmittedInOrder
<1>1. Init => EmittedInOrder
  BY DEF Init, EmittedInOrder
<1>2. SearchTypeOK /\ EmittedInOrder /\ [Next]_vars => EmittedInOrder'
  BY OrderStep
<1> QED
  BY <1>1, <1>2, TypeCorrect, TypeInit, TypeStep, PTL DEF Spec


-----------------------------------------------------------------------------
(* Completeness of an undisturbed search. *)

(* What QuiescentComplete says of session r. *)
Quiet(r) ==
    sstate[r] = "Active" /\ ~mutated[r] => emitted[r] = Ascending(Passed(r))

LEMMA QuietAll == QuiescentComplete <=> \A r \in Sessions : Quiet(r)
BY DEF QuiescentComplete, Quiet, Passed

(* A step that changes nothing a session's claim reads keeps it; so does *)
(* one that leaves the session idle or marks it disturbed.              *)
LEMMA QuietFrame ==
    ASSUME NEW r, Quiet(r),
           \/ /\ emitted'[r] = emitted[r] /\ snap'[r] = snap[r]
              /\ cursor'[r] = cursor[r] /\ tmpl'[r] = tmpl[r]
              /\ sstate'[r] = sstate[r] /\ mutated'[r] = mutated[r]
              /\ snapGen'[r] = snapGen[r]
              /\ live' = live /\ label' = label /\ gen' = gen
           \/ sstate'[r] # "Active"
           \/ mutated'[r] = TRUE
    PROVE  Quiet(r)'
BY DEF Quiet, Passed, Found, Matches

(* The registry operations mark every active search disturbed. *)
LEMMA DisturbQuiet ==
    ASSUME SearchTypeOK, NEW r \in Sessions, Disturb, UNCHANGED findVars
    PROVE  sstate'[r] # "Active" \/ mutated'[r] = TRUE
BY DEF Disturb, findVars

(* An undisturbed object_find extends the list of every id up to the old *)
(* cursor by the chunk, which is every id up to the new cursor.          *)
LEMMA FindQuiet ==
    ASSUME SearchTypeOK, NEW s \in Sessions, NEW m \in 1..MaxCount,
           Quiet(s), Find(s, m)
    PROVE  Quiet(s)'
<1> DEFINE C == Chunk(s, m)
           c == CursorAfter(s, m)
           P == Passed(s)
<1> SUFFICES ASSUME sstate[s] = "Active", ~mutated[s]
             PROVE  emitted'[s] = Ascending(Passed(s)')
  BY DEF Find, Quiet, histVars
<1>1. /\ C \subseteq snap[s] /\ IsFiniteSet(C) /\ C \subseteq Nat
      /\ c \in 0..NIds /\ cursor[s] <= c
      /\ \A i \in C : cursor[s] < i /\ i <= c /\ Found(s, i)
      /\ \A i \in snap[s] :
            cursor[s] < i /\ i <= c /\ Found(s, i) => i \in C
  BY FindFacts DEF C, c
<1>2. P \subseteq Nat /\ IsFiniteSet(P) /\ cursor[s] \in Nat
  <2>1. P \subseteq Ids
    BY DEF P, Passed, SearchTypeOK
  <2>2. IsFiniteSet(P)
    BY <2>1, IdsFinite, FS_Subset
  <2>3. cursor[s] \in 0..NIds
    BY DEF SearchTypeOK
  <2>4. P \subseteq Nat
    BY <2>1, IdsFinite
  <2>5. cursor[s] \in Nat
    BY <2>3, SearchAssumption
  <2> QED
    BY <2>2, <2>4, <2>5
<1>3. \A p \in P, q \in C : p < q
  BY <1>1, <1>2 DEF P, Passed
<1>4. Passed(s)' = P \cup C
  <2>1. Passed(s)' = {i \in snap[s] : i <= c /\ Found(s, i)}
    BY DEF Passed, Found, Matches, Find, SearchTypeOK, c, regVars
  <2>2. \A i \in snap[s] : i \in Nat
    BY IdsFinite DEF SearchTypeOK
  <2> QED
    BY <1>1, <1>2, <2>1, <2>2 DEF P, Passed
<1>5. emitted'[s] = Ascending(P) \o Ascending(C)
  BY DEF Find, Quiet, SearchTypeOK, P, C
<1> QED
  BY <1>1, <1>2, <1>3, <1>4, <1>5, AscendingConcat

(* find_init starts a search with nothing returned and nothing passed. *)
LEMMA FindInitQuiet ==
    ASSUME SearchTypeOK, NEW s \in Sessions, NEW t \in Templates, FindInit(s, t)
    PROVE  Quiet(s)'
<1>1. Passed(s)' = {}
  <2>1. snap'[s] = live /\ cursor'[s] = 0 /\ live \subseteq 1..NIds
    BY DEF FindInit, SearchTypeOK, Ids
  <2> SUFFICES ASSUME NEW i \in Passed(s)' PROVE FALSE
    OBVIOUS
  <2>2. i \in snap'[s] /\ i <= cursor'[s]
    BY DEF Passed
  <2>3. i \in 1..NIds /\ i <= 0
    BY <2>1, <2>2
  <2> QED
    BY <2>3, SearchAssumption
<1>2. emitted'[s] = << >>
  BY DEF FindInit, SearchTypeOK
<1> QED
  BY <1>1, <1>2, AscendingEmpty DEF Quiet

(* Every step keeps every undisturbed search complete. *)
LEMMA QuietStep ==
    ASSUME SearchTypeOK, QuiescentComplete, [Next]_vars
    PROVE  QuiescentComplete'
<1> SUFFICES ASSUME NEW r \in Sessions PROVE Quiet(r)'
  BY DEF QuiescentComplete, Quiet, Passed
<1>0. Quiet(r)
  BY QuietAll
<1>1. CASE \E s \in Sessions, i \in Ids, l \in Labels : Create(s, i, l)
  BY <1>0, <1>1, DisturbQuiet, QuietFrame DEF Create
<1>2. CASE \E s \in Sessions, i \in Ids : Destroy(s, i)
  BY <1>0, <1>2, DisturbQuiet, QuietFrame DEF Destroy
<1>3. CASE \E s \in Sessions, i \in Ids, l \in Labels : SetLabel(s, i, l)
  BY <1>0, <1>3, DisturbQuiet, QuietFrame DEF SetLabel
<1>4. CASE \E s \in Sessions, t \in Templates : FindInit(s, t)
  <2> PICK s \in Sessions, t \in Templates : FindInit(s, t)
    BY <1>4
  <2>1. CASE r = s
    BY <2>1, FindInitQuiet
  <2>2. CASE r # s
    BY <1>0, <2>2, QuietFrame DEF FindInit, SearchTypeOK, regVars
  <2> QED
    BY <2>1, <2>2
<1>5. CASE \E s \in Sessions, t \in Templates : FindInitBusy(s, t)
  BY <1>0, <1>5, QuietFrame DEF FindInitBusy, findVars, regVars, histVars
<1>6. CASE \E s \in Sessions, m \in 1..MaxCount : Find(s, m)
  <2> PICK s \in Sessions, m \in 1..MaxCount : Find(s, m)
    BY <1>6
  <2>1. CASE r = s
    BY <1>0, <2>1, FindQuiet
  <2>2. CASE r # s
    BY <1>0, <2>2, QuietFrame DEF Find, SearchTypeOK, regVars, histVars
  <2> QED
    BY <2>1, <2>2
<1>7. CASE \E s \in Sessions : FindIdle(s)
  BY <1>0, <1>7, QuietFrame DEF FindIdle, findVars, regVars, histVars
<1>8. CASE \E s \in Sessions : FindFinal(s)
  <2> PICK s \in Sessions : FindFinal(s)
    BY <1>8
  <2>1. CASE r = s
    <3>1. sstate'[r] # "Active"
      BY <2>1 DEF FindFinal, SearchTypeOK
    <3> QED
      BY <1>0, <3>1, QuietFrame
  <2>2. CASE r # s
    BY <1>0, <2>2, QuietFrame DEF FindFinal, SearchTypeOK, regVars
  <2> QED
    BY <2>1, <2>2
<1>9. CASE UNCHANGED vars
  BY <1>0, <1>9, QuietFrame DEF vars, findVars, regVars, histVars
<1> QED
  BY <1>1, <1>2, <1>3, <1>4, <1>5, <1>6, <1>7, <1>8, <1>9 DEF Next

(* A search that no create, destroy or set_attributes has disturbed since *)
(* its find_init has returned exactly the matching snapshot ids up to its *)
(* cursor, in ascending order: chunked object_find calls miss nothing.    *)
THEOREM QuiescentCompleteHolds == Spec => []QuiescentComplete
<1>1. Init => QuiescentComplete
  BY DEF Init, QuiescentComplete
<1>2. SearchTypeOK /\ QuiescentComplete /\ [Next]_vars => QuiescentComplete'
  BY QuietStep
<1> QED
  BY <1>1, <1>2, TypeCorrect, TypeInit, TypeStep, PTL DEF Spec


-----------------------------------------------------------------------------
(* What a find returns. *)

(* The snapshot remembers, for every id, an incarnation no newer than    *)
(* the current one, and an id created since find_init has a newer one.  *)
GenInv ==
    \A r \in Sessions, i \in Ids :
        /\ snapGen[r][i] <= gen[i]
        /\ i \in fresh[r] => snapGen[r][i] < gen[i]

LEMMA GenInit == Init => GenInv
BY DEF Init, GenInv

LEMMA GenStep ==
    ASSUME SearchTypeOK, GenInv, [Next]_vars
    PROVE  GenInv'
<1> SUFFICES ASSUME NEW r \in Sessions, NEW i \in Ids
             PROVE  /\ snapGen'[r][i] <= gen'[i]
                    /\ i \in fresh'[r] => snapGen'[r][i] < gen'[i]
  BY DEF GenInv
<1>0. /\ snapGen[r][i] <= gen[i]
      /\ i \in fresh[r] => snapGen[r][i] < gen[i]
      /\ gen[i] \in Nat /\ snapGen[r][i] \in Nat
  BY SearchAssumption DEF GenInv, SearchTypeOK
<1>1. ASSUME NEW s \in Sessions, NEW k \in Ids, NEW l \in Labels, Create(s, k, l)
      PROVE  /\ snapGen'[r][i] <= gen'[i]
             /\ i \in fresh'[r] => snapGen'[r][i] < gen'[i]
  <2>1. snapGen' = snapGen /\ fresh'[r] \subseteq fresh[r] \cup {k}
    BY <1>1 DEF Create, findVars
  <2>2. CASE i = k
    BY <1>0, <1>1, <2>1, <2>2 DEF Create, SearchTypeOK
  <2>3. CASE i # k
    BY <1>0, <1>1, <2>1, <2>3 DEF Create, SearchTypeOK
  <2> QED
    BY <2>2, <2>3
<1>2. ASSUME NEW s \in Sessions, NEW t \in Templates, FindInit(s, t)
      PROVE  /\ snapGen'[r][i] <= gen'[i]
             /\ i \in fresh'[r] => snapGen'[r][i] < gen'[i]
  BY <1>0, <1>2 DEF FindInit, SearchTypeOK, regVars
<1>3. ASSUME NEW s \in Sessions, FindFinal(s)
      PROVE  /\ snapGen'[r][i] <= gen'[i]
             /\ i \in fresh'[r] => snapGen'[r][i] < gen'[i]
  BY <1>0, <1>3 DEF FindFinal, SearchTypeOK, regVars
<1>4. CASE UNCHANGED <<gen, snapGen, fresh>>
  BY <1>0, <1>4
<1> QED
  <2>1. ASSUME NEW s \in Sessions,
               \/ \E k \in Ids : Destroy(s, k)
               \/ \E k \in Ids, l \in Labels : SetLabel(s, k, l)
               \/ \E t \in Templates : FindInitBusy(s, t)
               \/ \E m \in 1..MaxCount : Find(s, m)
               \/ FindIdle(s)
        PROVE  UNCHANGED <<gen, snapGen, fresh>>
    BY <2>1 DEF Destroy, SetLabel, FindInitBusy, Find, FindIdle, regVars,
                findVars, histVars
  <2>2. CASE UNCHANGED vars
    BY <1>4, <2>2 DEF vars, regVars, findVars, histVars
  <2>3. CASE Next
    <3> PICK s \in Sessions :
            \/ \E k \in Ids, l \in Labels : Create(s, k, l)
            \/ \E k \in Ids : Destroy(s, k)
            \/ \E k \in Ids, l \in Labels : SetLabel(s, k, l)
            \/ \E t \in Templates : FindInit(s, t)
            \/ \E t \in Templates : FindInitBusy(s, t)
            \/ \E m \in 1..MaxCount : Find(s, m)
            \/ FindIdle(s)
            \/ FindFinal(s)
      BY <2>3 DEF Next
    <3> QED
      BY <1>1, <1>2, <1>3, <1>4, <2>1
  <2> QED
    BY <2>2, <2>3

(* The step of FindsNoNewObjects. *)
NoNewStep ==
    lastCall'.call = "Find" =>
        \A j \in DOMAIN lastCall'.ids : lastCall'.ids[j] \notin fresh[lastCall'.s]

LEMMA NoNewNext ==
    ASSUME SearchTypeOK, GenInv, [Next]_vars
    PROVE  [NoNewStep]_vars
<1>1. ASSUME NEW s \in Sessions, NEW m \in 1..MaxCount, Find(s, m)
      PROVE  NoNewStep
  <2> DEFINE x == Ascending(Chunk(s, m))
  <2>1. lastCall'.s = s /\ lastCall'.ids = x
    BY <1>1 DEF Find, Call, x
  <2>2. x \in Seq(Ids) /\ \A k \in 1..Len(x) : x[k] \in Chunk(s, m)
    BY ChunkList DEF x
  <2>3. \A i \in Chunk(s, m) : gen[i] = snapGen[s][i] /\ i \in Ids
    BY FindFacts DEF Found, SearchTypeOK
  <2>4. \A i \in Chunk(s, m) : i \notin fresh[s]
    BY <2>3, SearchAssumption DEF GenInv, SearchTypeOK
  <2> QED
    BY <2>1, <2>2, <2>4 DEF NoNewStep
<1>2. ASSUME NEW s \in Sessions, FindIdle(s)
      PROVE  NoNewStep
  BY <1>2 DEF FindIdle, Call, NoNewStep
<1>3. ASSUME ~\E s \in Sessions :
                 \/ \E m \in 1..MaxCount : Find(s, m)
                 \/ FindIdle(s),
             Next
      PROVE  lastCall'.call # "Find"
  BY <1>3 DEF Next, Create, Destroy, SetLabel, FindInit, FindInitBusy, FindFinal, Call
<1> QED
  BY <1>1, <1>2, <1>3 DEF NoNewStep

(* No object_find returns the handle of an object created after its      *)
(* search's find_init, even when a concurrent object_destroy and         *)
(* object_create have put a new object under an id of the snapshot.      *)
THEOREM FindsNoNewObjectsHolds == Spec => FindsNoNewObjects
<1>1. SearchTypeOK /\ GenInv /\ [Next]_vars => GenInv'
  BY GenStep
<1>2. SearchTypeOK /\ GenInv /\ [Next]_vars => [NoNewStep]_vars
  BY NoNewNext
<1>3. FindsNoNewObjects <=> [][NoNewStep]_vars
  BY DEF FindsNoNewObjects, NoNewStep
<1> QED
  BY <1>1, <1>2, <1>3, GenInit, TypeCorrect, TypeInit, TypeStep, PTL DEF Spec

=====
