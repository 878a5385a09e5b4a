---------------------------- MODULE MC_ListScan ----------------------------
EXTENDS ListScan
CONSTANTS k1, k2, k3
MC_Keys == {k1, k2, k3}
\* k3 lies outside the listed prefix.
MC_Prefixed == {k1, k2}
====
