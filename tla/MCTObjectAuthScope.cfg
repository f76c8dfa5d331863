CONSTANTS
    Sessions = {s1, s2}
    Objects = {o1}
    None = None
SPECIFICATION HSpec
SYMMETRY MCSymmetry
PROPERTIES
    SignUsesOwnAuth
