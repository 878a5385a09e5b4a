CONSTANTS
    s1 = s1
    s2 = s2
    w1 = w1
    w2 = w2
    Nil = Nil
    Writers <- MC_Writers
    Watchers <- MC_Watchers
    Stoppable <- MC_Stoppable
    Cap = 1
    MaxEvents = 3
SPECIFICATION Spec
INVARIANT NoDuplicateDelivery
PROPERTY SendBlocksOnlyOnStopped
\* A writer blocked on a stopped watcher's full channel never returns, so
\* states with no successor are real here (run hub_blocked).
CHECK_DEADLOCK FALSE
