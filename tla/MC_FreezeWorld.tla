--------------------------- MODULE MC_FreezeWorld ---------------------------
EXTENDS FreezeWorld, TLC

CONSTANTS p1, p2, s1

MC_Procs == {p1, p2, s1}

\* Two callers that may list (and so nest the read lock), and one Stop.
MC_OpsNested == (p1 :> {"Op", "List"}) @@ (p2 :> {"Op", "List"}) @@ (s1 :> {"Stop"})

====
