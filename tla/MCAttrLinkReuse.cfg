CONSTANTS
    Ids = {i1, i2, i3}
    Types <- MCTypes
    ImmTypes <- MCImmTypes
    PubTypes <- MCPubTypes
    ClassType = "class"
    MaxLen = 2
    Absent = Absent
    NoLink = NoLink
SPECIFICATION Spec
SYMMETRY MCSymmetry
INVARIANTS
    PairAgrees
