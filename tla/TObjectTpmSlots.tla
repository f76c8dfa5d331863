-------------------------- MODULE TObjectTpmSlots --------------------------
(***************************************************************************)
(* TObject together with the TPM's pool of transient object slots, which  *)
(* the 0->1 load of tobject_user_increment takes and the 1->0 evict of    *)
(* tobject_user_decrement gives back.  Spec section 7: an evict error     *)
(* does not block the counter's transition to 0, so the slot of a key     *)
(* whose evict failed stays taken in the TPM with no tobject holding it.  *)
(***************************************************************************)
EXTENDS TObject

CONSTANT TpmSlots   \* transient object slots of the TPM

ASSUME TpmSlotsAssumption == TpmSlots \in Nat \ {0}

(* The registry's slots are finitely many (spec 5: the object count is   *)
(* small), so the number of loaded keys is defined.                      *)
ASSUME ObjectsAssumption == IsFiniteSet(Objects)

VARIABLE tpmUsed    \* slots the TPM has in use

tVars == <<vars, tpmUsed>>

TInit ==
    /\ Init
    /\ tpmUsed = 0

(* The 1->0 evict of a decrement (Sign, a refused Sign, CloseSession):    *)
(* reported OK, it freed the slot; reported as a device error, it failed  *)
(* and the slot stays taken; behind a refusal its outcome is not shown.   *)
EvictFrees(c) ==
    CASE c.rv = "OK" -> {tpmUsed - 1}
      [] c.rv = "DeviceError" -> {tpmUsed}
      [] OTHER -> {tpmUsed - 1, tpmUsed}

(* Mutant: every decrement evicts, not only the 1->0 one. *)
TpmStepEvictEvery ==
    LET c == lastCall' IN
    IF c.call = "OpInit" /\ c.rv = "OK" /\ active[c.o] = 0
      THEN /\ tpmUsed < TpmSlots
           /\ tpmUsed' = tpmUsed + 1
    ELSE IF c.call \in {"Sign", "CloseSession"}
      THEN tpmUsed' \in {tpmUsed - 1, tpmUsed}
    ELSE UNCHANGED tpmUsed

(* The transport side of each call, as TObject reports it in lastCall':  *)
(* a 0->1 load needs a free slot, and a 1->0 evict frees the slot unless  *)
(* it fails.  When no slot is free the load fails (OpInitLoadFails).     *)
TpmStep ==
    LET c == lastCall' IN
    IF c.call = "OpInit" /\ c.rv = "OK" /\ active[c.o] = 0
      THEN /\ tpmUsed < TpmSlots
           /\ tpmUsed' = tpmUsed + 1
    ELSE IF c.call \in {"Sign", "CloseSession"} /\ active[c.o] = 1
      THEN tpmUsed' \in EvictFrees(c)
    ELSE UNCHANGED tpmUsed

TNext == Next /\ TpmStep

TSpec == TInit /\ [][TNext]_tVars

(* The keys whose tobject holds a loaded TPM handle. *)
Loaded == {o \in Objects : tpm_handle[o]}

(* Every key a tobject holds loaded occupies its own TPM slot: the      *)
(* evict of tobject_user_decrement happens on the 1->0 transition only, *)
(* so a slot is never given back while another session still uses the   *)
(* key.  Leaked slots make the count larger, never smaller.             *)
SlotsCoverLoaded ==
    Cardinality(Loaded) <= tpmUsed

(* Spec 7 keeps a key whose evict failed from staying busy; the token as *)
(* a whole must not become unusable either: whenever no object is in use *)
(* the TPM has a free slot, so the next 0->1 load can succeed.           *)
IdleTokenCanLoad ==
    (\A o \in Objects : active[o] = 0) => tpmUsed < TpmSlots

=============================================================================
