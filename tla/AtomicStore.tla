----------------------------- MODULE AtomicStore -----------------------------
(***************************************************************************)
(* What the in-memory store promises its callers (spec.md, sections 2 and *)
(* 4): a map from keys to the revision of the object each key holds, in   *)
(* which                                                                  *)
(*   - revisions are handed out by a global counter, one at a time;       *)
(*   - a mutation commits a revision it was handed and that nothing else  *)
(*     has committed, changing exactly one key in one atomic step;        *)
(*   - the object a key holds is only ever replaced by a newer one.       *)
(* A mutation may fail after taking its revision, which then stays unused. *)
(* A store's value 0 means the key is absent.                             *)
(***************************************************************************)
EXTENDS Naturals

CONSTANTS Keys, InitRev, MaxRev

VARIABLES
    rev,        \* the global revision counter
    store,      \* key -> revision of its object, or 0 when absent
    pending     \* revisions handed out to mutations that have not finished

vars == <<rev, store, pending>>

TypeOK ==
    /\ rev \in InitRev..MaxRev
    /\ store \in [Keys -> 0..MaxRev]
    /\ pending \subseteq (InitRev + 1)..rev

Init ==
    /\ rev = InitRev
    /\ store = [k \in Keys |-> 0]
    /\ pending = {}

\* A mutation takes the next revision.
Reserve ==
    /\ rev < MaxRev
    /\ rev' = rev + 1
    /\ pending' = pending \cup {rev + 1}
    /\ UNCHANGED store

\* A mutation commits its revision r as key k's new object.
Install(k, r) ==
    /\ r \in pending
    /\ store[k] < r
    /\ store' = [store EXCEPT ![k] = r]
    /\ pending' = pending \ {r}
    /\ UNCHANGED rev

\* A delete commits its revision r by removing key k.
Remove(k, r) ==
    /\ r \in pending
    /\ store[k] # 0
    /\ store' = [store EXCEPT ![k] = 0]
    /\ pending' = pending \ {r}
    /\ UNCHANGED rev

\* A mutation fails after taking its revision.
Abandon(r) ==
    /\ r \in pending
    /\ pending' = pending \ {r}
    /\ UNCHANGED <<rev, store>>

Next ==
    \/ Reserve
    \/ \E k \in Keys, r \in pending : Install(k, r) \/ Remove(k, r)
    \/ \E r \in pending : Abandon(r)

Spec == Init /\ [][Next]_vars

====
