----------------------------- MODULE AttrLink -----------------------------
(***************************************************************************)
(* The Attribute Store of each tobject and the Link Resolver above it:   *)
(* object_get_attributes / tobject_get_attribute_full (two-call probe),  *)
(* object_set_attributes (all-or-nothing, immutable types refused) and   *)
(* tobject_get_attrs, which serves the reads of a linked object from the *)
(* whole attribute list of its counterpart (object.h l.97-106; spec 4.5  *)
(* narrows this to public-class attributes, the header does not).        *)
(* Registry calls are serialised under one                               *)
(* lock (spec 5), so each call is one step.  A value is abstracted to its *)
(* length, 1..MaxLen: equal lengths stand for equal byte strings.        *)
(***************************************************************************)
EXTENDS Naturals

CONSTANTS
    Ids,        \* object ids (tobject.id)
    Types,      \* attribute types
    ImmTypes,   \* types immutable after creation (CKA_CLASS, CKA_KEY_TYPE, ...)
    PubTypes,   \* public-class types, which spec 8 says agree across a pair
    ClassType,  \* the type every create template must carry
    MaxLen,     \* longest attribute value
    Absent,     \* "no record of this type"
    NoLink      \* tobject without a link

ASSUME AttrAssumption ==
    /\ ImmTypes \subseteq Types /\ PubTypes \subseteq Types
    /\ ClassType \in ImmTypes
    /\ MaxLen \in Nat \ {0}
    /\ NoLink \notin Ids

Vals == 1..MaxLen
Caps == 0..MaxLen          \* size of the caller's buffer; 0 stands for a NULL pValue

VARIABLES
    live,       \* ids in the token's object list
    attrs,      \* attrs[i][t]: value of the record of type t, or Absent
    link,       \* link[i]: id of the counterpart, or NoLink
    lastCall    \* last call and what it returned

vars == <<live, attrs, link, lastCall>>

Call(c, i, t, rv, len) == [call |-> c, id |-> i, type |-> t, rv |-> rv, len |-> len]

(* tobject_get_attrs: the object whose attribute list a read of i gets:  *)
(* the link target when i is a link, i itself otherwise.                *)
Resolve(i) == IF link[i] # NoLink THEN link[i] ELSE i

(* Mutant: the lookup ignores the link. *)
ReadAttrNoLink(i, t) == IF i \in live THEN attrs[i][t] ELSE Absent

(* tobject_get_attribute_full on the list tobject_get_attrs returns. *)
ReadAttr(i, t) ==
    IF i \in live /\ Resolve(i) \in live THEN attrs[Resolve(i)][t] ELSE Absent

Init ==
    /\ live = {}
    /\ attrs = [i \in Ids |-> [t \in Types |-> Absent]]
    /\ link = [i \in Ids |-> NoLink]
    /\ lastCall = Call("None", NoLink, ClassType, "OK", 0)

(* object_create: a complete template (it carries ClassType) registers a  *)
(* fresh id.  The link target, if any, is a live object that is not a    *)
(* link itself (a link pairs two halves); it never changes afterwards.    *)
Create(i, a, tgt) ==
    /\ i \notin live
    /\ a[ClassType] # Absent
    /\ tgt \in {NoLink} \cup {j \in live : link[j] = NoLink}
    /\ live' = live \cup {i}
    /\ attrs' = [attrs EXCEPT ![i] = a]
    /\ link' = [link EXCEPT ![i] = tgt]
    /\ lastCall' = Call("Create", i, ClassType, "OK", 0)

CreateIncomplete(i, a) ==
    /\ i \notin live
    /\ a[ClassType] = Absent
    /\ lastCall' = Call("Create", i, ClassType, "TemplateIncomplete", 0)
    /\ UNCHANGED <<live, attrs, link>>

(* Registering an id that is already live: double registration (spec 7). *)
CreateDuplicate(i) ==
    /\ i \in live
    /\ lastCall' = Call("Create", i, ClassType, "GeneralError", 0)
    /\ UNCHANGED <<live, attrs, link>>

(* object_destroy: the link is a lookup, so destroying either half leaves *)
(* the other one in place (spec 3).                                       *)
Destroy(i) ==
    /\ i \in live
    /\ live' = live \ {i}
    /\ attrs' = [attrs EXCEPT ![i] = [t \in Types |-> Absent]]
    /\ link' = [link EXCEPT ![i] = NoLink]
    /\ lastCall' = Call("Destroy", i, ClassType, "OK", 0)

Batches == UNION {[S -> Vals] : S \in SUBSET Types \ {{}}}

(* A set that rebuilds the store from the batch alone.                   *)
AppliedReplaces(i, b) == [t \in Types |-> IF t \in DOMAIN b THEN b[t] ELSE Absent]

(* A batch applied over the store of i (replace or insert in place).      *)
Applied(i, b) == [t \in Types |-> IF t \in DOMAIN b THEN b[t] ELSE attrs[i][t]]

(* object_set_attributes: a batch with no immutable type is applied whole. *)
Set(i, b) ==
    /\ i \in live
    /\ DOMAIN b \cap ImmTypes = {}
    /\ attrs' = [attrs EXCEPT ![i] = Applied(i, b)]
    /\ lastCall' = Call("Set", i, ClassType, "OK", 0)
    /\ UNCHANGED <<live, link>>

(* ... and with an immutable type it is refused with nothing applied.     *)
SetProhibited(i, b) ==
    /\ i \in live
    /\ DOMAIN b \cap ImmTypes # {}
    /\ lastCall' = Call("Set", i, ClassType, "ActionProhibited", 0)
    /\ UNCHANGED <<live, attrs, link>>

(* object_get_attributes / tobject_get_attribute_full: never mutates; on a *)
(* match reports the length; a NULL pValue (cap 0) is a length probe and  *)
(* succeeds, a buffer too small for the value is refused.                *)
GetFull(i, t, cap) ==
    LET v == ReadAttr(i, t) IN
    /\ lastCall' = IF v = Absent THEN Call("Get", i, t, "AttributeTypeInvalid", 0)
                   ELSE IF cap # 0 /\ cap < v THEN Call("Get", i, t, "BufferTooSmall", v)
                   ELSE Call("Get", i, t, "OK", v)
    /\ UNCHANGED <<live, attrs, link>>

Next ==
    \/ \E i \in Ids, a \in [Types -> Vals \cup {Absent}], tgt \in Ids \cup {NoLink} :
          Create(i, a, tgt)
    \/ \E i \in Ids, a \in [Types -> Vals \cup {Absent}] : CreateIncomplete(i, a)
    \/ \E i \in Ids : CreateDuplicate(i) \/ Destroy(i)
    \/ \E i \in Ids, b \in Batches : Set(i, b) \/ SetProhibited(i, b)
    \/ \E i \in Ids, t \in Types, cap \in Caps : GetFull(i, t, cap)

Spec == Init /\ [][Next]_vars

-----------------------------------------------------------------------------
(* Properties *)

(* Type invariant, with the shape of the store: every registered object *)
(* keeps its class record through any sequence of sets.                   *)
AttrTypeOK ==
    /\ live \subseteq Ids
    /\ attrs \in [Ids -> [Types -> Vals \cup {Absent}]]
    /\ link \in [Ids -> Ids \cup {NoLink}]
    /\ \A i \in live : attrs[i][ClassType] # Absent

(* Spec 8: for a linked pair, a public-class attribute read through      *)
(* either half gives the same result (tobject_get_attrs follows the      *)
(* link from the private half).                                          *)
PairAgrees ==
    \A i \in live :
       link[i] \in live => \A t \in PubTypes : ReadAttr(i, t) = ReadAttr(link[i], t)

=============================================================================
