CONSTANTS
    Sessions = {s1, s2}
    Objects = {o1, o2}
    None = None
SPECIFICATION Spec
SYMMETRY MCSymmetry
INVARIANTS
    TypeOK
    HandleIffActive
    ActiveCountsHolders
    InFlightLoaded
    AuthOnlyWhileLoggedIn

    
