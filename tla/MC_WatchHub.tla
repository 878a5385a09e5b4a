----------------------------- MODULE MC_WatchHub -----------------------------
EXTENDS WatchHub

CONSTANTS s1, s2, w1, w2

\* Two writers finishing mutations concurrently, two watchers.
MC_Writers == {s1, s2}
MC_Watchers == {w1, w2}
\* One watcher's consumer may stop it; the other keeps reading.
MC_Stoppable == {w2}

====
