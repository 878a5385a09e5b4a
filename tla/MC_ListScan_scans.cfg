CONSTANTS
    k1 = k1
    k2 = k2
    k3 = k3
    Nil = Nil
    Keys <- MC_Keys
    Prefixed <- MC_Prefixed
    MaxRev = 4
    Limit = 1
SPECIFICATION Spec
INVARIANT
    ScansComplete
