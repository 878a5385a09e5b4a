---------------------------- MODULE MC_MemStore ----------------------------
(***************************************************************************)
(* Small instances of MemStore for TLC.                                    *)
(***************************************************************************)
EXTENDS MemStore

CONSTANTS p1, p2, k1, k2, w1

\* Two clients, each on a key of its own (the common case: independent
\* objects), so every interleaving of their steps is explored but no two
\* calls race on one key.
MC_Procs == {p1, p2}
MC_Keys == {k1, k2}
MC_KeysOfDisjoint == [p \in MC_Procs |-> IF p = p1 THEN {k1} ELSE {k2}]
\* Two clients on the same key.
MC_KeysOfShared == [p \in MC_Procs |-> {k1}]
MC_Watchers == {w1}
=============================================================================
