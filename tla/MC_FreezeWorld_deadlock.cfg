CONSTANTS
    p1 = p1
    p2 = p2
    s1 = s1
    Nil = Nil
    Procs <- MC_Procs
    OpsOf <- MC_OpsNested
SPECIFICATION Spec
PROPERTY CallsReturn
CHECK_DEADLOCK FALSE
