CONSTANTS
    p1 = p1
    p2 = p2
    k1 = k1
    k2 = k2
    w1 = w1
    Nil = Nil
    Procs <- MC_Procs
    Keys <- MC_Keys
    KeysOf <- MC_KeysOfDisjoint
    Watchers <- MC_Watchers
    InitRev = 1
    MaxRev = 6
SPECIFICATION Spec
INVARIANT
    WatchOrder
