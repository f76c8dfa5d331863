------------------------ MODULE TObjectTpmSlotsProofs ------------------------
(***************************************************************************)
(* Proof that the TPM slot accounting of TObjectTpmSlots is sound for     *)
(* every number of sessions, registry slots and TPM slots: a load never   *)
(* goes beyond the TPM's capacity and every loaded key occupies a slot.  *)
(*                                                                         *)
(* SlotsCoverLoaded is not inductive alone.  A Sign or CloseSession gives *)
(* back a slot only on the 1->0 transition, and only HandleIffActive says *)
(* that the key was loaded then (so the count of loaded keys drops too)   *)
(* and that a 0->1 load adds a key that was not loaded before.  The       *)
(* inductive invariant therefore extends the core's IInv.                 *)
(***************************************************************************)
EXTENDS TObjectTpmSlots, TObjectProofs

SlotInv ==
    /\ tpmUsed \in 0..TpmSlots
    /\ SlotsCoverLoaded

TIInv == IInv /\ SlotInv

LEMMA LoadedFinite ==
    ASSUME TypeOK
    PROVE  /\ IsFiniteSet(Loaded)
           /\ Cardinality(Loaded) \in Nat
BY ObjectsAssumption, FS_Subset, FS_CardinalityType DEF Loaded

LEMMA TIInvInit == TInit => TIInv
<1> SUFFICES ASSUME TInit PROVE TIInv
    OBVIOUS
<1>1. IInv
    BY IInvInit DEF TInit
<1>2. Loaded = {}
    BY DEF TInit, Init, Loaded
<1>3. QED
    BY <1>1, <1>2, FS_EmptySet, TpmSlotsAssumption
       DEF TInit, TIInv, SlotInv, SlotsCoverLoaded

(* A step that leaves the handles alone and reports no load and no end  *)
(* of an operation keeps the slot count and the loaded keys.            *)
LEMMA QuietStep ==
    ASSUME TIInv, TpmStep, tpm_handle' = tpm_handle,
           ~(lastCall'.call = "OpInit" /\ lastCall'.rv = "OK"),
           lastCall'.call \notin {"Sign", "CloseSession"}
    PROVE  SlotInv'
BY DEF TpmStep, TIInv, SlotInv, SlotsCoverLoaded, Loaded

(* object_create only ever clears a handle, so fewer keys are loaded.     *)
LEMMA CreateSlotStep ==
    ASSUME TIInv, TpmStep, NEW s \in Sessions, NEW o \in Objects,
           NEW auth \in BOOLEAN, Create(s, o, auth)
    PROVE  SlotInv'
<1>1. tpmUsed' = tpmUsed
    BY DEF Create, Call, TpmStep
<1>2. Loaded' \subseteq Loaded
    BY DEF Create, Loaded, TIInv, IInv, TypeOK, ObjectsTypeOK
<1>3. /\ IsFiniteSet(Loaded)
      /\ Cardinality(Loaded) \in Nat
    BY LoadedFinite DEF TIInv, IInv
<1>4. /\ Cardinality(Loaded') <= Cardinality(Loaded)
      /\ Cardinality(Loaded') \in Nat
    BY <1>2, <1>3, FS_Subset, FS_CardinalityType
<1>5. QED
    BY <1>1, <1>3, <1>4 DEF TIInv, SlotInv, SlotsCoverLoaded

(* A 0->1 load takes a free slot for a key that was not loaded; a later  *)
(* user of a loaded key takes none.                                      *)
LEMMA OpInitSlotStep ==
    ASSUME TIInv, TpmStep, NEW s \in Sessions, NEW o \in Objects, OpInit(s, o)
    PROVE  SlotInv'
<1> USE DEF TIInv, IInv, SlotInv, SlotsCoverLoaded
<1>1. lastCall'.call = "OpInit" /\ lastCall'.rv = "OK" /\ lastCall'.o = o
    BY DEF OpInit, Call
<1>2. /\ IsFiniteSet(Loaded)
      /\ Cardinality(Loaded) \in Nat
    BY LoadedFinite
<1>3. CASE active[o] = 0
    <2>1. tpmUsed < TpmSlots /\ tpmUsed' = tpmUsed + 1
        BY <1>1, <1>3 DEF TpmStep
    <2>2. o \notin Loaded
        BY <1>3 DEF HandleIffActive, Loaded
    <2>3. Loaded' = Loaded \cup {o}
        BY DEF OpInit, UserIncrement, Loaded, TypeOK, ObjectsTypeOK
    <2>4. Cardinality(Loaded') = Cardinality(Loaded) + 1
        BY <1>2, <2>2, <2>3, FS_AddElement
    <2>5. QED
        BY <1>2, <2>1, <2>4, TpmSlotsAssumption DEF SlotInv, SlotsCoverLoaded
<1>4. CASE active[o] # 0
    <2>1. tpmUsed' = tpmUsed
        BY <1>1, <1>4 DEF TpmStep
    <2>2. o \in Loaded
        BY <1>4 DEF HandleIffActive, Loaded, TypeOK, ObjectsTypeOK
    <2>3. Loaded' = Loaded
        BY <2>2 DEF OpInit, UserIncrement, Loaded, TypeOK, ObjectsTypeOK
    <2>4. QED
        BY <2>1, <2>3 DEF SlotInv, SlotsCoverLoaded
<1>5. QED
    BY <1>3, <1>4

(* The end of an operation (Sign, a refused Sign, CloseSession) gives a  *)
(* slot back only on 1->0, when its key leaves the loaded set; a failed  *)
(* evict gives none back.                                                *)
LEMMA ReleaseSlotStep ==
    ASSUME TIInv, TpmStep, NEW s \in Sessions, op[s] # None,
           UserDecrement(op[s]),
           NEW c \in {"Sign", "CloseSession"}, NEW rv,
           lastCall' = Call(c, s, op[s], rv)
    PROVE  SlotInv'
<1> USE DEF TIInv, IInv, SlotInv, SlotsCoverLoaded
<1> DEFINE o == op[s]
<1>1. o \in Objects
    BY DEF TypeOK, SessionsTypeOK
<1>2. /\ IsFiniteSet(Loaded)
      /\ Cardinality(Loaded) \in Nat
    BY LoadedFinite
<1>3. active[o] > 0 /\ active[o] \in Nat
    BY <1>1 DEF UserDecrement, TypeOK, ObjectsTypeOK
<1>4. o \in Loaded
    BY <1>1, <1>3 DEF HandleIffActive, Loaded
<1>5. CASE active[o] = 1
    <2>1. tpmUsed' \in {tpmUsed - 1, tpmUsed}
        BY <1>5 DEF TpmStep, Call, EvictFrees
    <2>2. Loaded' = Loaded \ {o}
        <3>1. ~(active[o] - 1 > 0)
            BY <1>5
        <3>2. tpm_handle' = [tpm_handle EXCEPT ![o] = (active[o] - 1 > 0)]
            BY DEF UserDecrement
        <3>3. ~tpm_handle'[o]
            BY <1>1, <3>1, <3>2 DEF TypeOK, ObjectsTypeOK
        <3>4. \A p \in Objects \ {o} : tpm_handle'[p] = tpm_handle[p]
            BY <3>2
        <3>5. QED
            BY <3>3, <3>4 DEF Loaded
    <2>3. Cardinality(Loaded') = Cardinality(Loaded) - 1
        BY <1>2, <1>4, <2>2, FS_RemoveElement
    <2>4. Cardinality(Loaded) >= 1
        BY <1>2, <1>4, FS_EmptySet
    <2>5. tpmUsed \in 1..TpmSlots
        BY <1>2, <2>4
    <2>6. CASE tpmUsed' = tpmUsed - 1
        BY <1>2, <2>3, <2>5, <2>6, TpmSlotsAssumption
    <2>7. CASE tpmUsed' = tpmUsed
        BY <1>2, <2>3, <2>5, <2>7, TpmSlotsAssumption
    <2>8. QED
        BY <2>1, <2>6, <2>7
<1>6. CASE active[o] # 1
    <2>1. tpmUsed' = tpmUsed
        BY <1>6 DEF TpmStep, Call
    <2>2. Loaded' = Loaded
        BY <1>1, <1>3, <1>4, <1>6 DEF UserDecrement, Loaded, TypeOK, ObjectsTypeOK
    <2>3. QED
        BY <2>1, <2>2 DEF SlotInv, SlotsCoverLoaded
<1>7. QED
    BY <1>5, <1>6

LEMMA TIInvStep == TIInv /\ [TNext]_tVars => TIInv'
<1> SUFFICES ASSUME TIInv, [TNext]_tVars PROVE TIInv'
    OBVIOUS
<1>1. IInv'
    BY IInvStep DEF TIInv, TNext, tVars
<1>2. CASE UNCHANGED tVars
    <2>1. SlotInv'
        BY <1>2 DEF tVars, vars, objVars, TIInv, SlotInv, SlotsCoverLoaded, Loaded
    <2>2. QED
        BY <1>1, <2>1 DEF TIInv
<1>3. CASE TNext
    <2> USE <1>3 DEF TNext
    <2>1. ASSUME NEW s \in Sessions, NEW o \in Objects, NEW auth \in BOOLEAN,
                 Create(s, o, auth)
          PROVE  SlotInv'
        BY <2>1, CreateSlotStep
    <2>2. ASSUME NEW s \in Sessions, NEW o \in Objects, OpInit(s, o)
          PROVE  SlotInv'
        BY <2>2, OpInitSlotStep
    <2>3. ASSUME NEW s \in Sessions, Sign(s) PROVE SlotInv'
        <3>1. PICK rv \in DecrementRVs(op[s]) :
                  lastCall' = Call("Sign", s, op[s], rv)
            BY <2>3 DEF Sign
        <3>2. QED
            BY <2>3, <3>1, ReleaseSlotStep DEF Sign
    <2>4. ASSUME NEW s \in Sessions, SignRefused(s) PROVE SlotInv'
        BY <2>4, ReleaseSlotStep DEF SignRefused
    <2>5. ASSUME NEW s \in Sessions, CloseSession(s) PROVE SlotInv'
        <3>1. PICK rv \in DecrementRVs(op[s]) :
                  lastCall' = Call("CloseSession", s, op[s], rv)
            BY <2>5 DEF CloseSession
        <3>2. QED
            BY <2>5, <3>1, ReleaseSlotStep DEF CloseSession
    <2>6. ASSUME NEW s \in Sessions,
                 \/ \E o \in Objects : \/ CreateNoMemory(s, o) \/ Destroy(s, o)
                                       \/ DestroyRefused(s, o) \/ OpInitBusy(s, o)
                                       \/ OpInitLoadFails(s, o) \/ ContextLogin(s, o)
                                       \/ ContextLoginFails(s, o)
                                       \/ UserDecrementIdle(s, o)
                 \/ Login(s) \/ Logout(s)
          PROVE  SlotInv'
        <3>1. /\ tpm_handle' = tpm_handle
              /\ ~(lastCall'.call = "OpInit" /\ lastCall'.rv = "OK")
              /\ lastCall'.call \notin {"Sign", "CloseSession"}
            BY <2>6 DEF CreateNoMemory, Destroy, DestroyRefused, OpInitBusy,
                        OpInitLoadFails, ContextLogin, ContextLoginFails,
                        UserDecrementIdle, Login, Logout, Call, objVars
        <3>2. QED
            BY <3>1, QuietStep
    <2>7. SlotInv'
        BY <2>1, <2>2, <2>3, <2>4, <2>5, <2>6 DEF Next
    <2>8. QED
        BY <1>1, <2>7 DEF TIInv
<1>4. QED
    BY <1>2, <1>3

(* Every key a tobject holds loaded occupies a TPM slot of its own,      *)
(* whatever the interleaving of sessions and however many evicts fail:   *)
(* the slot of a key shared by several sessions is given back only when  *)
(* its last user leaves.                                                 *)
THEOREM SlotsCoverLoadedHolds == TSpec => []SlotsCoverLoaded
<1>1. TSpec => []TIInv
    BY TIInvInit, TIInvStep, PTL DEF TSpec
<1>2. QED
    BY <1>1, PTL DEF TIInv, SlotInv

=============================================================================
