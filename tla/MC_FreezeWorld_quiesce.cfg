CONSTANTS
    p1 = p1
    p2 = p2
    s1 = s1
    Nil = Nil
    Procs <- MC_Procs
    OpsOf <- MC_OpsNested
SPECIFICATION Spec
INVARIANT TypeOK
\* A lister that nests its read lock behind a pending Stop wedges the store
\* (run freeze_deadlock), so states with no successor are real here.
CHECK_DEADLOCK FALSE
