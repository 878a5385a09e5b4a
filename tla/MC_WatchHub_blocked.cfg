CONSTANTS
    s1 = s1
    s2 = s2
    w1 = w1
    w2 = w2
    Nil = Nil
    Writers <- MC_Writers
    Watchers <- MC_Watchers
    Stoppable <- MC_Stoppable
    Cap = 1
    MaxEvents = 3
SPECIFICATION Spec
PROPERTY SendCompletes
CHECK_DEADLOCK FALSE
