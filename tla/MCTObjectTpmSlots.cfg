CONSTANTS
    Sessions = {s1, s2}
    Objects = {o1, o2}
    None = None
    TpmSlots = 2
SPECIFICATION TSpec
SYMMETRY MCSymmetry
INVARIANTS
    IdleTokenCanLoad
