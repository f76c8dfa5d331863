CONSTANTS
    Sessions = {s1}
    NIds = 2
    Labels = {l1, l2}
    AnyLabel = AnyLabel
    MaxCount = 2
    MaxGen = 2
SPECIFICATION Spec
INVARIANTS
    SearchTypeOK
    EmittedInOrder
    QuiescentComplete
PROPERTIES
    FindsNoNewObjects
    SearchEnds
