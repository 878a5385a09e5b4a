------------------------------ MODULE ListScan ------------------------------
(***************************************************************************)
(* The read path of MemoryStore over the revision-ordered list:            *)
(* binarySearchInObjList, recursive GetList with its continue tokens, and *)
(* the replay of a watch from a resourceVersion (getObjEventsAfterRev)    *)
(* (pkg/store/inmemory/simple_memory_store.go).                           *)
(*                                                                         *)
(* Writers are atomic here: an update or a delete of a key is one step     *)
(* that leaves the key tree and the list agreeing, which is what MemStore  *)
(* shows for keys no two calls race on.  One client pages through a       *)
(* recursive listing, one GetList call per step, while writers run        *)
(* between its pages.  Positions in the list are 0-based like the Go      *)
(* code's, so position i is kvList[i + 1]; a slot records its position.   *)
(***************************************************************************)
EXTENDS Naturals, Sequences

CONSTANTS
    Keys,       \* keys written to the store
    Prefixed,   \* the keys under the prefix the client lists
    MaxRev,     \* bound on _MemoryRev
    Limit,      \* pred.Limit of every page
    Nil

ASSUME ListScanAssumption ==
    /\ Prefixed \subseteq Keys
    /\ MaxRev \in Nat
    /\ Limit \in Nat \ {0}
    /\ Nil \notin Keys

VARIABLES
    memRev,     \* _MemoryRev
    kvs,        \* key -> live slot or Nil
    kvList,     \* revision-ordered list of slots and Nil tombstones
    phase,      \* the lister: "idle", "paging", or "done" after its last page
    pivot,      \* opts of the first page: [rv, match]
    token,      \* the continue token of the next page: [key, rev] or Nil
    listed,     \* the items all pages returned so far, in order
    stable      \* slots live since the listing began and not replaced since

vars == <<memRev, kvs, kvList, phase, pivot, token, listed, stable>>

Rev == 1..MaxRev
Slot == [key: Keys, rev: Rev, pos: Nat]
Item == [key: Keys, rev: Rev]
Matches == {"NotOlderThan", "Exact", ""}

ItemOf(s) == [key |-> s.key, rev |-> s.rev]
LiveSlots == {kvList[i] : i \in {j \in DOMAIN kvList : kvList[j] # Nil}}

TypeOK ==
    /\ memRev \in 0..MaxRev
    /\ kvs \in [Keys -> Slot \cup {Nil}]
    /\ kvList \in Seq(Slot \cup {Nil})
    /\ phase \in {"idle", "paging", "done"}
    /\ pivot \in [rv: 0..MaxRev, match: Matches]
    /\ token \in Item \cup {Nil}
    /\ listed \in Seq(Item)
    /\ stable \subseteq Slot

Init ==
    /\ memRev = 0
    /\ kvs = [k \in Keys |-> Nil]
    /\ kvList = << >>
    /\ phase = "idle"
    /\ pivot = [rv |-> 0, match |-> ""]
    /\ token = Nil
    /\ listed = << >>
    /\ stable = {}

-----------------------------------------------------------------------------
(***************************************************************************)
(* Writers, each one atomic step: a create or update appends a slot with a *)
(* fresh revision and clears the key's previous slot; a delete takes a     *)
(* revision, removes the key and clears its slot.  Tombstones stay.        *)
(***************************************************************************)
ClearSlot(l, s) == IF s = Nil THEN l ELSE [l EXCEPT ![s.pos + 1] = Nil]

\* Mutant: the slot is stamped with the counter's value before the bump.
WriteStaleRev(k) ==
    /\ memRev < MaxRev
    /\ LET s == [key |-> k, rev |-> memRev, pos |-> Len(kvList)]
       IN /\ kvList' = Append(ClearSlot(kvList, kvs[k]), s)
          /\ kvs' = [kvs EXCEPT ![k] = s]
    /\ memRev' = memRev + 1
    /\ stable' = stable \ {kvs[k]}
    /\ UNCHANGED <<phase, pivot, token, listed>>

Write(k) ==
    /\ memRev < MaxRev
    /\ LET s == [key |-> k, rev |-> memRev + 1, pos |-> Len(kvList)]
       IN /\ kvList' = Append(ClearSlot(kvList, kvs[k]), s)
          /\ kvs' = [kvs EXCEPT ![k] = s]
    /\ memRev' = memRev + 1
    /\ stable' = stable \ {kvs[k]}
    /\ UNCHANGED <<phase, pivot, token, listed>>

Delete(k) ==
    /\ memRev < MaxRev
    /\ kvs[k] # Nil
    /\ memRev' = memRev + 1
    /\ kvList' = ClearSlot(kvList, kvs[k])
    /\ kvs' = [kvs EXCEPT ![k] = Nil]
    /\ stable' = stable \ {kvs[k]}
    /\ UNCHANGED <<phase, pivot, token, listed>>

-----------------------------------------------------------------------------
(***************************************************************************)
(* binarySearchInObjList(rv): sort.Search(len(kvList), f) where f(i) is    *)
(* false on a nil slot and otherwise compares the slot's revision with rv. *)
(* sort.Search bisects [i, j) with h = (i + j) / 2, moving i to h + 1 when *)
(* f(h) is false and j to h when it is true.                               *)
(***************************************************************************)
SearchPred(i, rv) == kvList[i + 1] # Nil /\ kvList[i + 1].rev >= rv

RECURSIVE Bisect(_, _, _)
Bisect(i, j, rv) ==
    IF i >= j THEN i
    ELSE LET h == (i + j) \div 2
         IN  IF SearchPred(h, rv) THEN Bisect(i, h, rv) ELSE Bisect(h + 1, j, rv)

BinarySearchInObjList(rv) == Bisect(0, Len(kvList), rv)

(***************************************************************************)
(* The match rule of a recursive GetList: NotOlderThan takes rv >= withRV, *)
(* Exact and the empty match take rv > withRV.                            *)
(***************************************************************************)
\* Mutant: every match mode takes rv >= withRV.
AdmitsInclusive(match, rv, withRV) == rv >= withRV

Admits(match, rv, withRV) ==
    IF match = "NotOlderThan" THEN rv >= withRV ELSE rv > withRV

(***************************************************************************)
(* The scan loop of GetList from position i.  A live slot sets lastKey and *)
(* lastRev whether or not it is taken; a slot outside the prefix skips    *)
(* the limit check (the Go `continue`).  When the page holds Limit items,  *)
(* hasMore is set if any position follows, whatever it holds.              *)
(***************************************************************************)
RECURSIVE Scan(_, _, _, _, _)
Scan(i, withRV, match, acc, last) ==
    IF i >= Len(kvList) THEN [items |-> acc, more |-> FALSE, last |-> last]
    ELSE
      LET v    == kvList[i + 1]
          seen == IF v = Nil THEN last ELSE ItemOf(v)
          take == v # Nil /\ v.key \in Prefixed /\ Admits(match, v.rev, withRV)
          acc2 == IF take THEN Append(acc, ItemOf(v)) ELSE acc
      IN  IF v # Nil /\ v.key \notin Prefixed
          THEN Scan(i + 1, withRV, match, acc, seen)
          ELSE IF Len(acc2) = Limit
               THEN [items |-> acc2, more |-> i < Len(kvList) - 1, last |-> seen]
               ELSE Scan(i + 1, withRV, match, acc2, seen)

\* The position a page starts from, and its withRV.
FirstPageStart(rv) == IF rv > 0 THEN BinarySearchInObjList(rv) ELSE 0

ContinueStart(t) ==
    IF kvs[t.key] = Nil THEN 0
    ELSE IF kvs[t.key].rev = t.rev THEN kvs[t.key].pos
    ELSE BinarySearchInObjList(t.rev)

(***************************************************************************)
(* One recursive GetList call from position start with withRV and match,  *)
(* after the items of the earlier pages: an empty list when start is past *)
(* the end of kvList; otherwise the scanned page, and a continue token    *)
(* carrying the last slot seen when hasMore.                              *)
(***************************************************************************)
Page(start, withRV, match, before) ==
    LET r == Scan(start, withRV, match, << >>, [key |-> Nil, rev |-> withRV])
    IN  IF start >= Len(kvList)
        THEN /\ listed' = before
             /\ token' = Nil
             /\ phase' = "done"
        ELSE /\ listed' = before \o r.items
             /\ token' = IF r.more THEN r.last ELSE Nil
             /\ phase' = IF r.more THEN "paging" ELSE "done"

\* The first page: resourceVersion rv (0 when unset) and a match mode.
FirstPage(rv, match) ==
    /\ phase # "paging"
    /\ pivot' = [rv |-> rv, match |-> match]
    /\ stable' = LiveSlots
    /\ Page(FirstPageStart(rv), rv, match, << >>)
    /\ UNCHANGED <<memRev, kvs, kvList>>

\* A following page with the continue token; the API server refuses a
\* resourceVersionMatch together with continue, so match is empty.
NextPage ==
    /\ phase = "paging"
    /\ Page(ContinueStart(token), token.rev, "", listed)
    /\ UNCHANGED <<memRev, kvs, kvList, pivot, stable>>

(***************************************************************************)
(* getObjEventsAfterRev(rev), the replay of a watch with resourceVersion   *)
(* rev > 1: from binarySearchInObjList(rev) to the end of kvList, every    *)
(* live slot under the prefix whose revision passes the match rule becomes *)
(* a Created event; WatchReplay is the sequence of their objects.         *)
(***************************************************************************)
RECURSIVE ReplayScan(_, _, _, _)
ReplayScan(i, rev, match, acc) ==
    IF i >= Len(kvList) THEN acc
    ELSE LET v == kvList[i + 1]
         IN  ReplayScan(i + 1, rev, match,
                        IF v # Nil /\ v.key \in Prefixed /\ Admits(match, v.rev, rev)
                        THEN Append(acc, ItemOf(v)) ELSE acc)

WatchReplay(rev, match) ==
    ReplayScan(BinarySearchInObjList(rev), rev, match, << >>)

Next ==
    \/ \E k \in Keys : Write(k) \/ Delete(k)
    \/ \E rv \in 0..MaxRev, match \in Matches : FirstPage(rv, match)
    \/ NextPage

Spec == Init /\ [][Next]_vars

-----------------------------------------------------------------------------
(***************************************************************************)
(* Properties.                                                             *)
(***************************************************************************)

(***************************************************************************)
(* The items of a paged listing, across all its pages and the writes      *)
(* between them, come in strictly increasing revision order, so no object *)
(* version is returned twice: a continue token resumes after the last     *)
(* item, by its slot or by its revision when the key changed.              *)
(***************************************************************************)
ListOrdered ==
    \A i, j \in DOMAIN listed : i < j => listed[i].rev < listed[j].rev

(***************************************************************************)
(* The scans that start at the binary-search pivot miss nothing (spec.md  *)
(* GetList and Watch: walk forward from the pivot, skipping nil slots): a *)
(* finished listing returned every object that was live under the prefix *)
(* for the whole listing and matches the first page's revision rule, and *)
(* a watch replay returned every live object under the prefix that        *)
(* matches its rule.                                                       *)
(***************************************************************************)
ScansComplete ==
    /\ phase = "done" =>
         \A s \in stable :
           (s.key \in Prefixed /\ Admits(pivot.match, s.rev, pivot.rv))
              => \E i \in DOMAIN listed : listed[i] = ItemOf(s)
    /\ \A rev \in 2..MaxRev, match \in Matches, s \in LiveSlots :
         (s.key \in Prefixed /\ Admits(match, s.rev, rev))
            => \E i \in DOMAIN WatchReplay(rev, match) :
                 WatchReplay(rev, match)[i] = ItemOf(s)

====
