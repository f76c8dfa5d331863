# TLA+ verification of the tpm2-pkcs11 token-object core

This directory holds TLA+ models of the object-management core of
tpm2-pkcs11. The C interface is `src/src/lib/object.h`, and its behaviour is
described in `spec.md`. The directory also holds TLC configurations that
model-check the models, TLAPS proofs of their main invariants, and
`PROJECT.json`, which records the components, runs, mutants, the
source-line map, the findings and the hazards.

## 1. The system (inventory)

The repository contains three source files:

- `object.h`: the `struct tobject` and the declarations of the core's operations;
- an integration test, `ptool-link-persistent.sh.nosetup`;
- an automake fragment.

The parts the spec and the header name are the following.

| Part | Code | State | Operations |
|---|---|---|---|
| Token Object | `struct tobject` (l.18-45), `tobject_new`, `tobject_set_blob_data`, `tobject_set_auth`, `object_create`, `object_destroy` | registry membership, `id`, `obj_handle`, `pub`, `priv`, `attrs` | create/import, destroy, set blobs/auth |
| Use counter | `active` (l.21), `tobject_user_increment`/`decrement` (l.108-129) | `active`, `tpm_handle` (l.41) | increment (TPM load on 0->1), decrement (evict on 1->0) |
| Auth Gate | `objauth` (l.33), `unsealed_auth` (l.39), `is_authenticated` (l.44) | wrapped auth, unwrapped auth, flag | context login, logout clearing, gate on private-key ops |
| Attribute Store | `object_get_attributes`, `object_set_attributes`, `tobject_get_attribute_full` (l.87-91) | `attrs` | get, NULL-buffer length probe, all-or-nothing set |
| Link Resolver | `tobject_get_attrs` (l.97-106) | the link relation | serve the reads of a link from its target's attribute list |
| Search Session | `object_find_init`, `object_find`, `object_find_final` (l.81-85) | a per-session snapshot and cursor | init, chunked find, final |

These parts interact as follows:

- Caller sessions run concurrently against one registry. Every registry mutation and counter transition is serialised under one lock (spec §5).
- An operation on a key increments the key's use counter; its end or the session's close decrements it.
- A private-key operation on an object with a wrapped auth passes the Auth Gate only after a context login.
- `object_destroy` is refused while the counter is positive.

The hard behaviours are the following:

- the interleaving of many sessions on one shared counter;
- a failed TPM load at 0->1;
- an evict at 1->0 that must not race a remaining user;
- a destroy racing an in-flight operation;
- auth state that must not outlive a logout or a destroy;
- a search snapshot that the registry's later changes, including an id destroyed and reused, must not disturb.

## 2. Modules

- **`TObject`** models the registry, the use counter and the auth gate of one
  token.

  Constants:
  - `Sessions`: the caller sessions;
  - `Objects`: the tobject slots;
  - `None`.

  Variables:
  - `live`: the token's object list;
  - `active`, `tpm_handle`, `objauth`, `unsealed_auth` and `is_authenticated`: per slot, as in `struct tobject`;
  - `logged_in`: the external login state;
  - `op[s]`: the object held by session `s`'s operation in flight;
  - `lastCall`: the last call, the caller and the classified return value of spec §7.

  Each API call is one action, and each error path is an action of its own,
  visible in `lastCall`. The actions are:
  - `Create` and `CreateNoMemory`;
  - `Destroy` and `DestroyRefused`;
  - `Login` and `Logout`;
  - `OpInit`, `OpInitBusy` and `OpInitLoadFails`;
  - `ContextLogin` and `ContextLoginFails`;
  - `Sign` and `SignRefused`;
  - `CloseSession`;
  - `UserDecrementIdle`.

  The counter transitions are the helpers `UserIncrement` and `UserDecrement`
  (`tobject_user_increment`/`decrement`, l.111-129):
  - the header documents only the counter and its CKR_GENERAL_ERROR; the load
    on 0->1 and the evict on 1->0 are from spec §4.2;
  - a 0->1 load that fails is `OpInitLoadFails`, which leaves the counter at 0
    and reports CKR_GENERAL_ERROR, the only error the header lists (l.127);
  - an evict at 1->0 drops the handle whether or not the evict fails, and a
    failure is reported as a device error (`DecrementRVs`, spec §7), not folded
    into success;
  - a decrement of an object that is not active (a caller releasing what it
    never acquired) is `UserDecrementIdle`: refused with CKR_GENERAL_ERROR, as
    the header says (l.117), the counter stays at 0;
  - a refused `Sign` ends the operation and releases the object, as PKCS#11's
    `C_Sign` does on every error.

  Data are abstracted:
  - a blob or an auth value is a Boolean, meaning present or absent;
  - the TPM is represented only by whether a handle is loaded.
- **`TObjectAuthScope`** extends `TObject` with a history variable `authBy[o]`.
  It records the sessions whose context login on `o` succeeded since the auth
  state was last cleared. The history lets a property ask which session authenticated an object.
- **`UseCounter`** is the abstract specification of what the use counter
  promises:
  - registered objects have a set of holding sessions;
  - a session holds at most one object;
  - an object is unregistered only when it has no holders;
  - its key is loaded exactly while it has a holder: the first holder loads
    it, the last one to leave unloads it.

  `TObject` implements it under the refinement mapping
  `registered <- live, holders <- [o \in Objects |-> Holders(o)], loaded <- tpm_handle`. The mapping
  is `UC == INSTANCE UseCounter WITH ...` in `TObject`, and the implementation
  property is `ImplementsUseCounter == UC!Spec`.
- **`TObjectTpmSlots`** extends `TObject` with the TPM's pool of `TpmSlots`
  transient slots (`tpmUsed`):
  - a 0->1 load takes a slot and needs one free;
  - a 1->0 evict returns the slot when it is reported OK, and keeps it when it
    is reported as a device error (`EvictFrees`).

  This module is written from spec §4.2 and §7: the header says nothing of
  the TPM's slots.

  It reads the call each step made from `lastCall'`, so it constrains `Next`
  without changing any of its actions.
- **`Search`** models `object_find_init`, `object_find` and `object_find_final`
  (l.81-85) against a registry that changes concurrently.

  State:
  - `live` and `label` for each id of `1..NIds`, and `gen[i]`, the number of
    objects created so far under id `i` (at most `MaxGen`), which tells an
    object from a later one that reuses its id;
  - for each session: `sstate` (Idle/Active), the snapshot `snap`, the set of
    live ids taken by `find_init` and walked in ascending id order, the template
    `tmpl` (a label or `AnyLabel`), the `cursor` (the last snapshot id passed,
    0 before the first) and the ids `emitted` so far;
  - `snapGen[s]`, the `gen` of every id when `find_init` took the snapshot;
  - two history variables: `mutated[s]`, whether the registry changed during
    `s`'s search, and `fresh[s]`, the ids created since `s`'s `find_init`.

  Actions:
  - `FindInit`, and `FindInitBusy` (CKR_OPERATION_ACTIVE);
  - `Find(s, m)`, with `m` standing for `max_object_count`;
  - `FindIdle` (CKR_OPERATION_NOT_INITIALIZED);
  - `FindFinal`;
  - the registry calls `Create`, `Destroy` and `SetLabel` (`object_set_attributes` on CKA_LABEL).

  Following spec §4.3, `Find` walks the snapshot from the cursor and tests the
  template against the current registry (`Hits`), skipping an id whose object
  was created after `find_init` (`Found`: its `gen` is newer than the
  snapshot's), since a find "never observes objects created after
  `find_init`". It returns the `m` lowest hits
  (`Chunk`, listed by `Ascending`, which puts the id of rank `k` at place `k`)
  and moves the cursor to the last one returned (`CursorAfter`), or to `NIds`
  when fewer than `m` remain.
- **`AttrLink`** models the Attribute Store and the Link Resolver (l.87-106).

  State:
  - `live`;
  - `attrs[i][t]`, the record of type `t` of object `i`, or `Absent`;
  - `link[i]`, a counterpart id or `NoLink`.

  A value is abstracted to its length, `1..MaxLen`.

  Actions:
  - `Create`, `CreateIncomplete` (no class record) and `CreateDuplicate` (an id that is already live);
  - `Destroy`;
  - `Set`, which applies a batch whole through `Applied`, and `SetProhibited`, when the batch has an immutable type;
  - `GetFull(i, t, cap)`: `object_get_attributes` through
    `tobject_get_attribute_full`. `cap = 0` stands for a NULL `pValue`, a
    length probe, which succeeds with the length; a non-NULL buffer shorter
    than the value gets CKR_BUFFER_TOO_SMALL.

  `Resolve(i)` is `tobject_get_attrs`: it takes no type, and for a link it
  returns the whole attribute list of the link target, as the header's comment
  says (l.97-106). Spec §4.5 narrows the redirection to public-class
  attributes; the model follows the header.

  The header's `struct tobject` has no link field. The link is modelled as
  spec §4.5 describes it: an id reference, set at creation and never changed.
  A link pairs two halves, so its target must not be a link itself.
- **`TObjectProofs`**, **`TObjectTpmSlotsProofs`**, **`AttrLinkProofs`** and **`SearchProofs`** hold the TLAPS proofs.
- **`MCTObject`**, **`MCTObjectAuthScope`**, **`MCTObjectTpmSlots`**,
  **`MCSearch`** and **`MCAttrLink`** are the TLC instances.

### Not planned: the integration test as a module

The persistent-link integration test is a sequential script of one session.
Every step it takes is an action already modelled:

- a link is a `Create` of a pair in `AttrLink`;
- a sign is `OpInit`, `ContextLogin` and `Sign` in `TObject`;
- a read or a listing is `GetFull` in `AttrLink` or `Find` in `Search`.

A module of its own would be one linear trace.

## 3. Runs

| Run | Instance | Checks | Result |
|---|---|---|---|
| `tobject_core` | 2 sessions, 2 slots, symmetry | `TypeOK`, `HandleIffActive`, `ActiveCountsHolders`, `InFlightLoaded`, `AuthOnlyWhileLoggedIn`, `ImplementsUseCounter` | passes, 852 distinct states |
| `auth_scope` | 2 sessions, 1 slot | `SignUsesOwnAuth` | violated, as expected |
| `tpm_slots` | 2 sessions, 2 slots, 2 TPM slots | `IdleTokenCanLoad` | violated, as expected |
| `tpm_slots_accounting` | 2 sessions, 2 slots, 2 TPM slots, symmetry | `SlotsCoverLoaded` | passes, 1,714 distinct states |
| `search` | 1 session, 2 ids, 2 labels, chunks of 1-2, 2 objects per id | `SearchTypeOK`, `EmittedInOrder`, `QuiescentComplete`, `[][FindsNoNewObjects]`, `SearchEnds` | passes, 32,564 distinct states |
| `attr_store` | 2 ids, 3 types (class, label, point), values of length 1-2, symmetry | `AttrTypeOK` | passes, 8,043 distinct states |
| `link_reuse` | 3 ids, same types | `PairAgrees` | violated, as expected |

The bounds are enough for the following reasons:

- Two sessions are needed for every cross-session hazard:
  - a second holder of one object;
  - a destroy or logout by another session;
  - a sign after another session's context login.
- Two slots let an operation on one object run while another object is destroyed and re-created.

- In `attr_store`, two ids give a linked pair and the destroy and re-create
  of either half. Three types give an immutable public type, an immutable
  private one and a mutable one. Two lengths make a changed value visible.
  `link_reuse` needs a third id, so that the re-created id can pair with it.
- In `search`, one searching session is enough: searches of different sessions
  share no state, and the registry calls stand for every other session. Two
  ids and chunks of 1 or 2 give a chunk that ends before the snapshot does, an
  exhausting chunk, and a change to an id before and after the cursor.
  `MaxGen = 2` lets an id of the snapshot be destroyed and given to a new
  object before the next find. (Three ids give 1.6 million states and the
  same verdicts.)

The core model has no unbounded counter other than `active`, and `active` is bounded by the number of sessions. TLC therefore explores the whole state space.

What the properties say:

- **HandleIffActive**: the TPM handle is loaded exactly while the counter is positive.
- **ActiveCountsHolders**: the counter equals the number of sessions holding the object.
- **InFlightLoaded**: an operation in flight never finds its object destroyed or evicted, whatever other sessions do.
- **AuthOnlyWhileLoggedIn**: unwrapped auth and context logins exist only for a live object with a wrapped auth, while the user is logged in.
- **ImplementsUseCounter**: every step of the core is, under the mapping, a register, unregister, acquire or release of the abstract counter, or a stutter. Because the mapping includes `loaded <- tpm_handle`, this also says that no decrement except the last one unloads the key, and that an acquire leaves it loaded.
- **EmittedInOrder**: a search never returns an id twice, and it returns ids in snapshot order, each before the cursor.
- **QuiescentComplete**: while the registry has not changed since `find_init`, the ids returned are exactly the matching ids of the snapshot up to the cursor. No match is skipped.
- **FindsNoNewObjects** (an action property): no `find` returns an id in `fresh`, that is, an object created after its `find_init`. Breaking it takes one session's `find_init`, then another session's destroy and create under the same id, then the find.
- **SearchEnds**: an active search eventually exhausts its snapshot or is finalised.
- **SlotsCoverLoaded**: every key a tobject holds loaded occupies a TPM slot of its own. Failed evicts only leak slots. No slot is given back while a key is still in use.
- **AttrTypeOK**: the type invariant, and every registered object keeps its class record through every sequence of sets.

Each property is killed by a mutant of the code it is about, listed in `PROJECT.json`:

- a decrement of an idle object that is not refused (the counter goes below 0);
- counting only the first user;
- destroy without the active check;
- destroy that keeps the unwrapped auth;
- a failed load that stays counted;
- a decrement that evicts the key on every transition, not only on 1->0;
- a find that moves the cursor past the last id when it exhausts the snapshot;
- a find that does not exhaust after a short chunk;
- a find that skips the id after a chunk;
- a match that takes whatever object now holds a snapshot id;
- a find that stalls when nothing matches;
- a set that rebuilds the store from the batch;
- an evict of the TPM slot on every decrement.

**Finding (`auth_scope`).** `object.h` keeps one `is_authenticated` (l.44) and one `unsealed_auth` (l.39) per tobject, and every session of the token shares them. TLC finds this trace:

1. Session `s2` does a context login on `o1`.
2. Session `s1`, which never authenticated `o1`, signs with it successfully.

Spec §4.4 requires the authentication to be "for the requesting session".

**Finding (`tpm_slots`).** Spec §7 lets the counter drop to 0 when the evict
fails, so that the key does not stay busy. The TPM slot stays taken, though,
and nothing reclaims it. TLC finds this trace with two TPM slots:

1. A load, then a sign whose evict fails.
2. A second load, then a second failed evict.

At that point no object is in use, yet no load can succeed.

**Finding (`link_reuse`).** The link is a non-owning id reference (spec §3,
§4.5), and provisioning chooses ids (spec §6). TLC finds this trace:

1. `i2` is linked to `i1`.
2. `i1` is destroyed.
3. `i1` is registered again, linked to `i3`.

From then on, `i2`'s reads are served from the new `i1`'s attribute list,
which is a link itself, so they differ from what `i1` reports when read
(through its own link to `i3`), against spec §8.

**Fairness.** `TObject` has no fairness. Every call there is a request a
caller may or may not make. `Search` assumes weak fairness of each session's
`Find`. The reason is that a PKCS#11 caller drives a search by calling
`C_FindObjects` until it returns fewer handles than asked for (as `pkcs11-tool`
does). Under that assumption `SearchEnds` states that `object_find` guarantees
the loop ends. `FindInit` and `FindFinal` are left without fairness. The run
of `search` uses no symmetry, because it checks a liveness property.

## 4. Proofs (TLAPS)

`TObjectProofs` proves these theorems for every finite `Sessions` and every `Objects` with `None \notin Objects` (assumptions `SessionsAssumption` and `NoneAssumption` in `TObject`):

- `TypeCorrect`: `Spec => []TypeOK`.
- `HandleIffActiveHolds`: `Spec => []HandleIffActive`.
- `ActiveCountsHoldersHolds`: `Spec => []ActiveCountsHolders`.
- `InFlightLoadedHolds`: `Spec => []InFlightLoaded`.
- `AuthScoped`: `Spec => []AuthOnlyWhileLoggedIn`.
- `ImplementsUseCounterHolds`: `Spec => ImplementsUseCounter`. `TObject` refines `UseCounter`.

The argument for the counting theorems:

- `InFlightLoaded` is not inductive by itself. When one session's `Sign` decrements the counter, only the count tells that the key stays loaded for the other holders.
- The inductive invariant is `IInv == TypeOK /\ HandleIffActive /\ ActiveCountsHolders /\ HoldersLive`. `HoldersLive` states that only live objects are held, so a re-created slot starts with no holders.
- The lemmas `SessionsOnJoin`, `SessionsOnLeave` and `SessionsOnOther` give the cardinality of the holder set when one session joins or leaves. They rest on `FS_AddElement` and `FS_RemoveElement`.
- `CountingJoin` and `CountingLeave` apply those lemmas to `OpInit`, and to `Sign`, `SignRefused` and `CloseSession`.
- `HeldIsActive` derives a positive counter from a holder.

`AuthOnlyWhileLoggedIn` is inductive together with `TypeOK`.

The refinement proof has three parts:

- `RefineInit` maps the initial state to `UC!Init`.
- `RefineStep` shows that, under `IInv`, each `TObject` action is a `UC!Next`
  step or a stutter of the mapped variables:
  - `Create` is `Register`, and `Destroy` is `Unregister` (allowed because `active = 0` means no holders);
  - `OpInit` is `Acquire` (allowed because `op[s] = None` means `s` holds nothing);
  - `Sign`, `SignRefused` and `CloseSession` are `Release`;
  - all other actions leave `live`, the holders and the handles alone.

  The abstract `loaded` is read off the concrete state by `LoadedIsHeld`:
  under `IInv`, `tpm_handle[o]` holds exactly when `Holders(o)` is not empty
  (`HandleIffActive`, `ActiveCountsHolders` and a finite holder set). Applied
  before and after a step, it gives `loaded'` for `Release`.
- The theorem combines both with `Spec => []IInv` by PTL.

`AttrLinkProofs` proves, for all constants satisfying `AttrAssumption` (the class type is immutable, `NoLink` is not an id):

- `TypeCorrect`: `Spec => []AttrTypeOK`. `AttrTypeOK` is inductive by itself: a set never carries the class type, because that type is immutable (lemma `AppliedKeepsImmutable`).

`TObjectTpmSlotsProofs` proves, for every finite `Objects` and every `TpmSlots \in Nat \ {0}` (assumptions `ObjectsAssumption` and `TpmSlotsAssumption`):

- `SlotsCoverLoadedHolds`: `TSpec => []SlotsCoverLoaded`.

`SlotsCoverLoaded` is not inductive alone, so the inductive invariant is
`TIInv == IInv /\ tpmUsed \in 0..TpmSlots /\ SlotsCoverLoaded`. The core's
`HandleIffActive` is the part it needs:

- a 0->1 load adds a key that was not loaded;
- a 1->0 release removes a key that was loaded.

In both cases the count of loaded keys (`Loaded`) moves with `tpmUsed`. When
the evict fails (or its outcome is hidden behind a refused sign), `Loaded`
shrinks and `tpmUsed` may stay. The steps are the lemmas `OpInitSlotStep`,
`ReleaseSlotStep`, `CreateSlotStep` and `QuietStep`. The core's part of each
step comes from `IInvStep`.

`SearchProofs` proves, for every `Sessions`, every `NIds \in Nat`, every set of
`Labels`, every `MaxCount \in Nat \ {0}` and every `MaxGen \in Nat` (assumption `SearchAssumption`):

- `TypeCorrect`: `Spec => []SearchTypeOK`. The cursor stays in `0..NIds`.
- `EmittedInOrderHolds`: `Spec => []EmittedInOrder`.
- `QuiescentCompleteHolds`: `Spec => []QuiescentComplete`.
- `FindsNoNewObjectsHolds`: `Spec => FindsNoNewObjects`.

The argument rests on lemmas about ranks in a finite set of naturals:

- `RankOrder`, `RankOnto` and `RankDecides`: the ranks of `H` are `1..Cardinality(H)`,
  one per id, in the order of the ids (via `FS_Injection` and `FS_Surjection`);
- `AscendingFacts` and `AscendingUnique`: `Ascending(H)` is the only rising list
  whose elements are exactly `H`;
- `AscendingConcat`: listing `P` and then `C`, every id of `C` above every id of
  `P`, lists `P \cup C` (with `RisingConcat`, which joins two rising lists);
- `FindFacts`: the chunk of a find is exactly the matching snapshot ids strictly
  after the cursor and up to `CursorAfter`, and `CursorAfter` stays in `0..NIds`.

`SearchTypeOK` is inductive by itself. Each of `EmittedInOrder` and
`QuiescentComplete` is inductive together with `SearchTypeOK`, session by session
(`InOrder(r)`, `Quiet(r)`):

- a find appends a chunk whose ids all lie above the old cursor and at or below the new one;
- for `QuiescentComplete`, the ids passed after the find are the ids passed before
  (`Passed`) and the chunk, so `AscendingConcat` closes the step;
- a registry call leaves a session idle or marks it `mutated`;
- `find_init` starts from an empty list and passes no id, because ids start at 1.

`FindsNoNewObjects` is not a consequence of the type invariant: it needs
`GenInv`, which says that for every session and id, `snapGen[s][i] <= gen[i]`,
and that an id in `fresh[s]` has `snapGen[s][i] < gen[i]`. `GenInv` is
inductive: a create raises `gen` of the id it adds to `fresh`, and `find_init`
and `find_final` reset `snapGen` and `fresh` together. A find returns only ids
whose `gen` equals the snapshot's, so none of them is in `fresh`.

What is only model-checked:

- the liveness `SearchEnds` of `Search`;
- the violation run.

The following are out of the provers' reach and stay with TLC:

- liveness (`SearchEnds`) and `ENABLED`;
- what recursive operators and recursive functions compute (`SelectSeq` is one: the
  provers cannot unfold it, which is why `Search` lists a snapshot with `Ascending`
  over ranks instead);
- modules that declare a `RECURSIVE` operator.

## 5. Not modelled

- `tobject_get_min_buf_size` and `object_mech_is_supported` (l.93-95) are not modelled. They are read-only queries over key data the model abstracts away.
- The leak of TPM slots is modelled only as a count, in `TObjectTpmSlots`. Handle values are not modelled.
- The build rules (`src/unnamed/part_000`) are build configuration with no runtime state.
- Blob contents, `id` and `obj_handle` values are not modelled yet.
