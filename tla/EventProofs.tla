---------------------------- MODULE EventProofs ----------------------------
(***************************************************************************)
(* Proof that the events broadcast for a key tell its history             *)
(* (EventChain) when no two clients share a key.                          *)
(*                                                                         *)
(* EventChain speaks of settled keys only; a call commits to the tree     *)
(* (kvs.put or kvs.del) one step before its sendEvent.  The strengthening *)
(* says that the latest event of a key describes the tree's object, but   *)
(* the object the call read from the moment the call commits until its    *)
(* event is out; and that a call's revision is newer than every event of  *)
(* its key, so its event becomes the key's latest.                        *)
(***************************************************************************)
EXTENDS IndexProofs

\* What the events of key k say its object is: c, or none.
EventsShow(k, c) ==
    IF LiveAfter(KeyEvents(k))
    THEN c # Nil /\ c.rev = LatestOf(KeyEvents(k)).rev
    ELSE c = Nil

\* The first conjunct of EventChain, for key k.
ChainLinks(k) ==
    \A e \in KeyEvents(k) :
      LET before == {d \in KeyEvents(k) : d.rev < e.rev} IN
      IF LiveAfter(before)
      THEN e.kind # "Created" /\ e.old = LatestOf(before).rev
      ELSE e.kind = "Created" /\ e.old = 0

\* Calls that have committed to the tree and not yet sent their event.
Committed(p) == pc[p] \in {"index", "send"}

\* Calls holding a revision they have not broadcast.
Holding(p) == pc[p] \in {"get", "put", "index", "del", "send"}

\* Events of one key have distinct revisions, none beyond memRev, and a
\* revision a call holds is newer than every event of its key.
EventRevs ==
    /\ \A e, d \in events : e.key = d.key /\ e.rev = d.rev => e = d
    /\ \A e \in events : e.rev <= memRev
    /\ \A p \in Procs : Holding(p) =>
         /\ newRev[p] <= memRev
         /\ \A e \in KeyEvents(opKey[p]) : e.rev < newRev[p]

\* What a committed call left in the tree.
CommittedTree ==
    \A p \in Procs : pc[p] = "send" =>
      IF op[p] = "Delete"
      THEN kvs[opKey[p]] = Nil /\ curObj[p] # Nil
      ELSE kvs[opKey[p]] = NewSlot(p) /\ NewSlot(p) \in Slot

EventsFollowRead == \A p \in Procs : Committed(p) => EventsShow(opKey[p], curObj[p])

EventsFollowTree ==
    \A k \in Keys :
      (\A p \in Procs : Committed(p) => opKey[p] # k) => EventsShow(k, kvs[k])

\* Delete goes from its check to its del; the write stages are the others'.
OpStages ==
    \A p \in Procs : pc[p] \in {"reserve", "get", "put", "index"} => op[p] # "Delete"

\* The strengthening of EventChain, inductive together with AgreeInv.
EvPart ==
    /\ EventRevs
    /\ \A k \in Keys : ChainLinks(k)
    /\ OpStages
    /\ CommittedTree
    /\ EventsFollowRead
    /\ EventsFollowTree

\* The whole inductive invariant, the one TLC checks on the disjoint model.
EvInv == AgreeInv /\ EvPart

-----------------------------------------------------------------------------
USE KeysOfAssumption, RevAssumption, NilAssumption

(***************************************************************************)
(* LatestOf picks the event of highest revision, when revisions are       *)
(* distinct.                                                               *)
(***************************************************************************)
LEMMA LatestIsMax ==
  ASSUME NEW E, NEW m \in E,
         \A d \in E : d.rev \in Nat /\ d.rev <= m.rev,
         \A d1, d2 \in E : d1.rev = d2.rev => d1 = d2
  PROVE  LatestOf(E) = m
  <1>1. LatestOf(E) \in E /\ \A d \in E : d.rev <= LatestOf(E).rev
    BY DEF LatestOf
  <1>2. LatestOf(E).rev = m.rev
    BY <1>1
  <1>3. QED
    BY <1>1, <1>2

(***************************************************************************)
(* A step of client p that changes neither the events nor the tree, does  *)
(* not commit, and at most takes a fresh revision keeps EvPart.          *)
(***************************************************************************)
LEMMA QuietStepKeepsEvPart ==
  ASSUME TypeInv, EvPart, NEW p \in Procs,
         UNCHANGED <<events, kvs>>,
         memRev \in Nat, memRev' \in {memRev, memRev + 1},
         \A q \in Procs \ {p} : /\ pc'[q] = pc[q] /\ op'[q] = op[q]
                                /\ opKey'[q] = opKey[q]
                                /\ curObj'[q] = curObj[q]
                                /\ newRev'[q] = newRev[q]
                                /\ newIndex'[q] = newIndex[q],
         ~Committed(p), ~Committed(p)', pc'[p] # "send",
         Holding(p)' => /\ opKey'[p] = opKey[p]
                        /\ \/ Holding(p) /\ newRev'[p] = newRev[p]
                           \/ newRev'[p] = memRev + 1 /\ memRev' = memRev + 1,
         pc'[p] \in {"reserve", "get", "put", "index"} => op'[p] # "Delete"
  PROVE  EvPart'
  <1>0. \A k : KeyEvents(k)' = KeyEvents(k)
    BY DEF KeyEvents
  <1>1. EventRevs'
    <2>1. \A e, d \in events' : e.key = d.key /\ e.rev = d.rev => e = d
      BY DEF EvPart, EventRevs
    <2>2. \A e \in events' : e.rev <= memRev'
      BY DEF EvPart, EventRevs, TypeInv, TypeOK, Event, Rev
    <2>3. ASSUME NEW q \in Procs, Holding(q)'
          PROVE  /\ newRev'[q] <= memRev'
                 /\ \A e \in KeyEvents(opKey'[q]) : e.rev < newRev'[q]
      <3>1. CASE q # p
        <4>1. Holding(q) /\ opKey'[q] = opKey[q] /\ newRev'[q] = newRev[q]
          BY <2>3, <3>1 DEF Holding
        <4>2. newRev[q] <= memRev /\ \A e \in KeyEvents(opKey[q]) : e.rev < newRev[q]
          BY <4>1 DEF EvPart, EventRevs
        <4>3. newRev'[q] <= memRev'
          <5>1. newRev[q] \in Nat
            BY DEF TypeInv, TypeOK, Rev
          <5>2. QED
            BY <4>1, <4>2, <5>1
        <4>4. \A e \in KeyEvents(opKey'[q]) : e.rev < newRev'[q]
          BY <4>1, <4>2
        <4>5. QED
          BY <4>3, <4>4
      <3>2. CASE q = p /\ Holding(p) /\ newRev'[p] = newRev[p]
        <4>1. opKey'[p] = opKey[p]
          BY <2>3, <3>2
        <4>2. newRev[p] <= memRev /\ \A e \in KeyEvents(opKey[p]) : e.rev < newRev[p]
          BY <3>2 DEF EvPart, EventRevs
        <4>3. newRev'[p] <= memRev'
          <5>1. newRev[p] \in Nat
            BY DEF TypeInv, TypeOK, Rev
          <5>2. QED
            BY <3>2, <4>2, <5>1
        <4>4. \A e \in KeyEvents(opKey'[p]) : e.rev < newRev'[p]
          BY <3>2, <4>1, <4>2
        <4>5. QED
          BY <3>2, <4>3, <4>4
      <3>3. CASE q = p /\ newRev'[p] = memRev + 1 /\ memRev' = memRev + 1
        <4>1. \A e \in events : e.rev <= memRev /\ e.rev \in Nat
          BY DEF EvPart, EventRevs, TypeInv, TypeOK, Event, Rev
        <4>2. QED
          BY <3>3, <4>1 DEF KeyEvents
      <3>4. QED
        BY <2>3, <3>1, <3>2, <3>3
    <2>4. QED
      BY <1>0, <2>1, <2>2, <2>3 DEF EventRevs
  <1>2. \A k \in Keys : ChainLinks(k)'
    BY <1>0 DEF EvPart, ChainLinks
  <1>3. OpStages'
    BY DEF EvPart, OpStages
  <1>4. CommittedTree'
    BY DEF EvPart, CommittedTree, NewSlot, Committed
  <1>5. EventsFollowRead'
    <2> SUFFICES ASSUME NEW q \in Procs, Committed(q)'
                 PROVE  EventsShow(opKey[q], curObj[q])'
      BY DEF EventsFollowRead
    <2>1. q # p /\ Committed(q) /\ opKey'[q] = opKey[q] /\ curObj'[q] = curObj[q]
      BY DEF Committed
    <2>2. EventsShow(opKey[q], curObj[q])
      BY <2>1 DEF EvPart, EventsFollowRead
    <2>3. QED
      BY <1>0, <2>1, <2>2 DEF EventsShow
  <1>6. EventsFollowTree'
    <2> SUFFICES ASSUME NEW k \in Keys,
                        \A q \in Procs : Committed(q)' => opKey'[q] # k
                 PROVE  EventsShow(k, kvs[k])'
      BY DEF EventsFollowTree
    <2>1. \A q \in Procs : Committed(q) => opKey[q] # k
      BY DEF Committed
    <2>2. EventsShow(k, kvs[k])
      BY <2>1 DEF EvPart, EventsFollowTree
    <2>3. QED
      BY <1>0, <2>2 DEF EventsShow
  <1>7. QED
    BY <1>1, <1>2, <1>3, <1>4, <1>5, <1>6 DEF EvPart

(***************************************************************************)
(* sendEvent: the call's event is newer than every event of its key, so   *)
(* it becomes the key's latest.  It links to the history because the      *)
(* events showed the object the call read, and after it they show what    *)
(* the call left in the tree.                                              *)
(***************************************************************************)
LEMMA SendEventKeepsEvPart ==
  ASSUME Disjoint, TypeInv, RefInv, EvPart, NEW p \in Procs, SendEvent(p)
  PROVE  EvPart'
  <1>1. /\ pc[p] = "send"
        /\ events' = events \cup {EventOf(p)}
        /\ UNCHANGED <<memRev, kvs>>
        /\ Return(p)
    BY DEF SendEvent
  <1> PICK k \in Keys : k = opKey[p]
    BY <1>1 DEF TypeInv, LocalsOK
  <1>2. /\ newRev[p] \in Rev
        /\ newRev[p] <= memRev
        /\ \A e \in KeyEvents(k) : e.rev < newRev[p]
    <2>1. newRev[p] \in Rev
      BY <1>1 DEF TypeInv, LocalsOK
    <2>2. Holding(p)
      BY <1>1 DEF Holding
    <2>3. QED
      BY <2>1, <2>2 DEF EvPart, EventRevs
  <1>3. /\ EventOf(p).key = k
        /\ EventOf(p).rev = newRev[p]
        /\ EventOf(p).kind = IF op[p] = "Delete" THEN "Deleted"
                             ELSE IF curObj[p] = Nil THEN "Created" ELSE "Updated"
        /\ EventOf(p).old = ExpectedRv(p)
    BY DEF EventOf
  <1>4. \A q \in Procs \ {p} : /\ pc'[q] = pc[q] /\ op'[q] = op[q]
                               /\ opKey'[q] = opKey[q]
                               /\ curObj'[q] = curObj[q]
                               /\ newRev'[q] = newRev[q]
                               /\ newIndex'[q] = newIndex[q]
    BY <1>1 DEF Return
  <1>5. pc'[p] = "idle"
    BY <1>1 DEF Return, TypeInv, TypeOK
  <1>6. \A q \in Procs \ {p} : pc[q] # "idle" => opKey[q] # k
    BY <1>1, UniqueOwner DEF Owner
  <1>7. /\ KeyEvents(k)' = KeyEvents(k) \cup {EventOf(p)}
        /\ \A k2 \in Keys \ {k} : KeyEvents(k2)' = KeyEvents(k2)
    BY <1>1, <1>3 DEF KeyEvents
  <1>8. \A e \in events : e.rev \in Nat
    BY DEF TypeInv, TypeOK, Event, Rev
  <1>20. newRev[p] \in Nat
    BY <1>2 DEF Rev
  <1>21. \A e \in KeyEvents(k) : e.rev \in Nat /\ e.rev < newRev[p]
    BY <1>2, <1>8 DEF KeyEvents
  \* The new event is the latest of its key.
  <1>9. LatestOf(KeyEvents(k)') = EventOf(p)
    <2>1. \A d \in KeyEvents(k)' : d.rev \in Nat /\ d.rev <= EventOf(p).rev
      BY <1>3, <1>7, <1>20, <1>21
    <2>2. \A d1, d2 \in KeyEvents(k)' : d1.rev = d2.rev => d1 = d2
      <3>1. \A d1, d2 \in KeyEvents(k) : d1.rev = d2.rev => d1 = d2
        BY DEF KeyEvents, EvPart, EventRevs
      <3>2. \A d \in KeyEvents(k) : d.rev # EventOf(p).rev
        BY <1>3, <1>20, <1>21
      <3>3. QED
        BY <1>7, <3>1, <3>2
    <2>3. EventOf(p) \in KeyEvents(k)'
      BY <1>7
    <2>4. QED
      BY <2>1, <2>2, <2>3, LatestIsMax
  <1>10. EventRevs'
    <2>1. \A e, d \in events' : e.key = d.key /\ e.rev = d.rev => e = d
      <3>1. \A d \in events : d.key = EventOf(p).key => d.rev # EventOf(p).rev
        BY <1>3, <1>20, <1>21 DEF KeyEvents
      <3>2. QED
        BY <1>1, <3>1 DEF EvPart, EventRevs
    <2>2. \A e \in events' : e.rev <= memRev'
      BY <1>1, <1>2, <1>3 DEF EvPart, EventRevs
    <2>3. ASSUME NEW q \in Procs, Holding(q)'
          PROVE  /\ newRev'[q] <= memRev'
                 /\ \A e \in events' : e.key = opKey'[q] => e.rev < newRev'[q]
      <3>1. q # p /\ Holding(q) /\ opKey[q] # k /\ opKey[q] \in Keys
        BY <1>4, <1>5, <1>6, <2>3 DEF Holding, TypeInv, LocalsOK
      <3>2. /\ newRev[q] <= memRev
            /\ \A e \in events : e.key = opKey[q] => e.rev < newRev[q]
        BY <3>1 DEF EvPart, EventRevs, KeyEvents
      <3>3. QED
        BY <1>1, <1>3, <1>4, <3>1, <3>2
    <2>4. QED
      BY <2>1, <2>2, <2>3 DEF EventRevs, KeyEvents
  <1>11. \A k2 \in Keys : ChainLinks(k2)'
    <2> SUFFICES ASSUME NEW k2 \in Keys, NEW e \in KeyEvents(k2)'
                 PROVE  LET before == {d \in KeyEvents(k2)' : d.rev < e.rev} IN
                        IF LiveAfter(before)
                        THEN e.kind # "Created" /\ e.old = LatestOf(before).rev
                        ELSE e.kind = "Created" /\ e.old = 0
      BY DEF ChainLinks
    <2>1. CASE k2 # k
      BY <1>7, <2>1 DEF EvPart, ChainLinks
    <2>2. CASE k2 = k /\ e # EventOf(p)
      <3>1. e \in KeyEvents(k) /\ e.rev < newRev[p]
        BY <1>7, <1>21, <2>2
      <3>2. {d \in KeyEvents(k)' : d.rev < e.rev} = {d \in KeyEvents(k) : d.rev < e.rev}
        BY <1>3, <1>7, <1>20, <1>21, <3>1
      <3>3. QED
        BY <2>2, <3>1, <3>2 DEF EvPart, ChainLinks
    <2>3. CASE k2 = k /\ e = EventOf(p)
      <3>1. {d \in KeyEvents(k)' : d.rev < e.rev} = KeyEvents(k)
        BY <1>3, <1>7, <1>20, <1>21, <2>3
      <3>2. EventsShow(k, curObj[p])
        BY <1>1 DEF EvPart, EventsFollowRead, Committed
      <3>3. op[p] = "Delete" => curObj[p] # Nil
        BY <1>1 DEF EvPart, CommittedTree
      <3>4. QED
        BY <1>3, <2>3, <3>1, <3>2, <3>3 DEF EventsShow, ExpectedRv
    <2>4. QED
      BY <2>1, <2>2, <2>3
  <1>12. OpStages' /\ CommittedTree'
    BY <1>1, <1>4, <1>5 DEF EvPart, OpStages, CommittedTree, NewSlot
  <1>13. EventsFollowRead'
    <2> SUFFICES ASSUME NEW q \in Procs, Committed(q)'
                 PROVE  EventsShow(opKey[q], curObj[q])'
      BY DEF EventsFollowRead
    <2>1. q # p /\ Committed(q) /\ opKey'[q] = opKey[q] /\ curObj'[q] = curObj[q]
      BY <1>4, <1>5 DEF Committed
    <2>2. opKey[q] # k /\ opKey[q] \in Keys
      BY <1>6, <2>1 DEF Committed, TypeInv, LocalsOK
    <2>3. EventsShow(opKey[q], curObj[q])
      BY <2>1 DEF EvPart, EventsFollowRead
    <2>4. KeyEvents(opKey[q])' = KeyEvents(opKey[q])
      BY <1>1, <1>3, <2>1, <2>2 DEF KeyEvents
    <2>5. QED
      BY <2>1, <2>3, <2>4 DEF EventsShow
  <1>14. EventsFollowTree'
    <2> SUFFICES ASSUME NEW k2 \in Keys,
                        \A q \in Procs : Committed(q)' => opKey'[q] # k2
                 PROVE  EventsShow(k2, kvs[k2])'
      BY DEF EventsFollowTree
    <2>1. CASE k2 # k
      <3>1. \A q \in Procs : Committed(q) => opKey[q] # k2
        BY <1>4, <2>1 DEF Committed
      <3>2. EventsShow(k2, kvs[k2])
        BY <3>1 DEF EvPart, EventsFollowTree
      <3>3. QED
        BY <1>1, <1>7, <2>1, <3>2 DEF EventsShow
    <2>2. CASE k2 = k
      <3>1. KeyEvents(k)' # {}
        BY <1>7
      <3>2. IF op[p] = "Delete" THEN kvs[k] = Nil
            ELSE kvs[k] = NewSlot(p) /\ NewSlot(p) \in Slot
        BY <1>1 DEF EvPart, CommittedTree
      <3>3. LiveAfter(KeyEvents(k)') <=> op[p] # "Delete"
        BY <1>3, <1>9, <3>1 DEF LiveAfter
      <3>4. CASE op[p] = "Delete"
        BY <1>1, <2>2, <3>2, <3>3, <3>4 DEF EventsShow
      <3>5. CASE op[p] # "Delete"
        <4>1. kvs'[k] = NewSlot(p) /\ NewSlot(p) \in Slot
          BY <1>1, <3>2, <3>5
        <4>2. kvs'[k] # Nil /\ kvs'[k].rev = LatestOf(KeyEvents(k)').rev
          BY <1>3, <1>9, <4>1, NilAssumption DEF NewSlot
        <4>3. QED
          BY <2>2, <3>3, <3>5, <4>2 DEF EventsShow
      <3>6. QED
        BY <3>4, <3>5
    <2>3. QED
      BY <2>1, <2>2
  <1>15. QED
    BY <1>10, <1>11, <1>12, <1>13, <1>14 DEF EvPart

(***************************************************************************)
(* A step in which client p, owning key k, writes v into the tree for k   *)
(* and becomes committed (kvs.put, or kvs.del of a present key) keeps     *)
(* EvPart: the object p read is the one in the tree, which the events     *)
(* showed while no one was committed on k, and p is now the only call     *)
(* committed on k.                                                          *)
(***************************************************************************)
LEMMA CommitKeepsEvPart ==
  ASSUME Disjoint, TypeInv, RefInv, EvPart, NEW p \in Procs, NEW k \in Keys,
         NEW v, k = opKey[p], pc[p] \in {"put", "del"}, curObj[p] = kvs[k],
         pc' = [pc EXCEPT ![p] = pc'[p]], pc'[p] \in {"index", "send"},
         kvs' = [kvs EXCEPT ![k] = v],
         UNCHANGED <<memRev, events, op, opKey, curObj, newRev, newIndex>>,
         pc'[p] = "send" =>
           IF op[p] = "Delete" THEN v = Nil /\ curObj[p] # Nil
           ELSE v = NewSlot(p) /\ NewSlot(p) \in Slot,
         pc'[p] = "index" => op[p] # "Delete"
  PROVE  EvPart'
  <1>0. \A k2 : KeyEvents(k2)' = KeyEvents(k2)
    BY DEF KeyEvents
  <1>1. \A q \in Procs \ {p} : pc[q] # "idle" => opKey[q] # k /\ opKey[q] \in Keys
    BY UniqueOwner DEF Owner, TypeInv, LocalsOK
  <1>2. \A q \in Procs \ {p} : pc'[q] = pc[q]
    BY DEF TypeInv, TypeOK
  <1>3. Holding(p) /\ Holding(p)' /\ ~Committed(p) /\ Committed(p)'
    BY DEF Holding, Committed, TypeInv, TypeOK
  <1>4. EventRevs'
    <2>1. ASSUME NEW q \in Procs, Holding(q)'
          PROVE  /\ newRev'[q] <= memRev'
                 /\ \A e \in events' : e.key = opKey'[q] => e.rev < newRev'[q]
      <3>1. Holding(q)
        BY <1>2, <1>3, <2>1 DEF Holding
      <3>2. QED
        BY <3>1 DEF EvPart, EventRevs, KeyEvents
    <2>2. QED
      BY <2>1 DEF EvPart, EventRevs, KeyEvents
  <1>5. \A k2 \in Keys : ChainLinks(k2)'
    BY <1>0 DEF EvPart, ChainLinks
  <1>6. OpStages'
    BY <1>2 DEF EvPart, OpStages
  <1>7. CommittedTree'
    <2> SUFFICES ASSUME NEW q \in Procs, pc'[q] = "send"
                 PROVE  IF op[q] = "Delete"
                        THEN kvs'[opKey[q]] = Nil /\ curObj[q] # Nil
                        ELSE kvs'[opKey[q]] = NewSlot(q) /\ NewSlot(q) \in Slot
      BY DEF CommittedTree, NewSlot
    <2>1. CASE q = p
      BY <2>1 DEF TypeOK, TypeInv
    <2>2. CASE q # p
      <3>1. pc[q] = "send" /\ opKey[q] # k /\ opKey[q] \in Keys
        BY <1>1, <1>2, <2>2
      <3>2. kvs'[opKey[q]] = kvs[opKey[q]]
        BY <3>1 DEF TypeInv, TypeOK
      <3>3. QED
        BY <3>1, <3>2 DEF EvPart, CommittedTree
    <2>3. QED
      BY <2>1, <2>2
  <1>8. EventsFollowRead'
    <2> SUFFICES ASSUME NEW q \in Procs, Committed(q)'
                 PROVE  EventsShow(opKey[q], curObj[q])'
      BY DEF EventsFollowRead
    <2>1. CASE q = p
      <3>1. \A q2 \in Procs : Committed(q2) => opKey[q2] # k
        BY <1>1, <1>3 DEF Committed
      <3>2. EventsShow(k, kvs[k])
        BY <3>1 DEF EvPart, EventsFollowTree
      <3>3. QED
        BY <1>0, <2>1, <3>2 DEF EventsShow
    <2>2. CASE q # p
      <3>1. Committed(q)
        BY <1>2, <2>2 DEF Committed
      <3>2. QED
        BY <1>0, <3>1 DEF EvPart, EventsFollowRead, EventsShow
    <2>3. QED
      BY <2>1, <2>2
  <1>9. EventsFollowTree'
    <2> SUFFICES ASSUME NEW k2 \in Keys,
                        \A q \in Procs : Committed(q)' => opKey'[q] # k2
                 PROVE  EventsShow(k2, kvs[k2])'
      BY DEF EventsFollowTree
    <2>1. k2 # k
      BY <1>3
    <2>2. \A q \in Procs : Committed(q) => opKey[q] # k2
      BY <1>2, <1>3 DEF Committed
    <2>3. EventsShow(k2, kvs[k2])
      BY <2>2 DEF EvPart, EventsFollowTree
    <2>4. kvs'[k2] = kvs[k2]
      BY <2>1 DEF TypeInv, TypeOK
    <2>5. QED
      BY <1>0, <2>3, <2>4 DEF EventsShow
  <1>10. QED
    BY <1>4, <1>5, <1>6, <1>7, <1>8, <1>9 DEF EvPart

(***************************************************************************)
(* writeSlots: the index write of a committed put moves the call to its   *)
(* send with the tree still holding its new slot.                          *)
(***************************************************************************)
LEMMA WriteSlotsKeepsEvPart ==
  ASSUME TypeInv, KeyInv, EvPart, NEW p \in Procs, WriteSlots(p)
  PROVE  EvPart'
  <1>1. /\ pc[p] = "index" /\ pc' = [pc EXCEPT ![p] = "send"]
        /\ UNCHANGED <<memRev, kvs, events, op, opKey, curObj, newRev, newIndex>>
    BY DEF WriteSlots, Goto
  <1>0. \A k2 : KeyEvents(k2)' = KeyEvents(k2)
    BY <1>1 DEF KeyEvents
  <1>2. \A q \in Procs \ {p} : pc'[q] = pc[q]
    BY <1>1 DEF TypeInv, TypeOK
  <1>3. pc'[p] = "send"
    BY <1>1 DEF TypeInv, TypeOK
  <1>4. \A q \in Procs : /\ Holding(q)' <=> Holding(q)
                         /\ Committed(q)' <=> Committed(q)
    BY <1>1, <1>2, <1>3 DEF Holding, Committed
  <1>5. /\ op[p] # "Delete"
        /\ kvs[opKey[p]] = NewSlot(p)
    BY <1>1 DEF EvPart, OpStages, KeyInv, ListAgreesWithRead, WritingAgrees
  <1>6. NewSlot(p) \in Slot
    BY <1>1, <1>5 DEF TypeInv, LocalsOK, NewSlot, Slot
  <1>7. CommittedTree'
    BY <1>1, <1>2, <1>3, <1>5, <1>6 DEF EvPart, CommittedTree, NewSlot
  <1>8. EventRevs' /\ OpStages'
    BY <1>1, <1>2, <1>3, <1>4 DEF EvPart, EventRevs, OpStages, KeyEvents
  <1>9. /\ \A k \in Keys : ChainLinks(k)'
        /\ EventsFollowRead'
        /\ EventsFollowTree'
    BY <1>0, <1>1, <1>4 DEF EvPart, ChainLinks, EventsFollowRead, EventsFollowTree, EventsShow
  <1>10. QED
    BY <1>7, <1>8, <1>9 DEF EvPart

(***************************************************************************)
(* A call that returns before committing (a refused put, a failed check, a *)
(* delete of a key already gone) leaves events and tree alone.             *)
(***************************************************************************)
LEMMA ReturnKeepsEvPart ==
  ASSUME TypeInv, EvPart, NEW p \in Procs, ~Committed(p), Return(p),
         UNCHANGED <<events, kvs, memRev>>
  PROVE  EvPart'
  <1>1. \A q \in Procs \ {p} : /\ pc'[q] = pc[q] /\ op'[q] = op[q]
                               /\ opKey'[q] = opKey[q]
                               /\ curObj'[q] = curObj[q]
                               /\ newRev'[q] = newRev[q]
                               /\ newIndex'[q] = newIndex[q]
    BY DEF Return
  <1>2. pc'[p] = "idle"
    BY DEF Return, TypeInv, TypeOK
  <1>3. /\ ~Committed(p)' /\ pc'[p] # "send" /\ ~Holding(p)'
        /\ pc'[p] \notin {"reserve", "get", "put", "index"}
    BY <1>2 DEF Committed, Holding
  <1>4. memRev \in Nat /\ memRev' \in {memRev, memRev + 1}
    BY DEF TypeInv, TypeOK, Rev
  <1>5. UNCHANGED <<events, kvs>>
    OBVIOUS
  <1>6. QED
    BY <1>1, <1>3, <1>4, <1>5, QuietStepKeepsEvPart, Zenon

(***************************************************************************)
(* Every step of the store keeps EvPart, given the invariants of the      *)
(* earlier proofs (types, reservations, ownership, tree/list agreement).  *)
(***************************************************************************)
LEMMA NextEvPart ==
  ASSUME Disjoint, AgreeInv, EvPart, [Next]_vars
  PROVE  EvPart'
  <1>0. TypeInv /\ RefInv /\ KeyInv /\ memRev \in Nat
    BY DEF AgreeInv, IInv, TypeInv, TypeOK, Rev
  <1>1. ASSUME UNCHANGED <<memRev, kvs, events, clientVars>> PROVE EvPart'
    <2>1. \A k : KeyEvents(k)' = KeyEvents(k)
      BY <1>1 DEF KeyEvents
    <2>2. QED
      BY <1>1, <2>1 DEF clientVars, EvPart, EventRevs, ChainLinks, OpStages,
         CommittedTree, EventsFollowRead, EventsFollowTree, EventsShow,
         Committed, Holding, NewSlot
  <1>2. ASSUME NEW p \in Procs, NEW k \in KeysOf[p],
               NEW o \in Ops \ {"CreateOrReplace"}, BeginGet(p, o, k)
        PROVE  EvPart'
    <2>1. PICK next \in AfterGet(o, kvs[k]) :
               IF next = "idle"
               THEN UNCHANGED clientVars
               ELSE /\ Goto(p, next)
                    /\ op' = [op EXCEPT ![p] = o]
                    /\ opKey' = [opKey EXCEPT ![p] = k]
                    /\ curObj' = [curObj EXCEPT ![p] = kvs[k]]
                    /\ UNCHANGED <<newRev, newIndex>>
      BY <1>2 DEF BeginGet
    <2>2. /\ next \in {"idle", "reserve", "check"}
          /\ next = "reserve" => o # "Delete"
      BY DEF AfterGet, CreateAfterGet, DeleteAfterGet, UpdateAfterGet,
             MergeAfterGet, Ops
    <2>3. UNCHANGED <<memRev, kvs, events>> /\ pc[p] = "idle"
      BY <1>2 DEF BeginGet
    <2>4. CASE next = "idle"
      BY <1>1, <2>1, <2>3, <2>4
    <2>5. CASE next # "idle"
      <3>1. /\ pc' = [pc EXCEPT ![p] = next]
            /\ op' = [op EXCEPT ![p] = o]
            /\ opKey' = [opKey EXCEPT ![p] = k]
            /\ curObj' = [curObj EXCEPT ![p] = kvs[k]]
            /\ UNCHANGED <<newRev, newIndex>>
        BY <2>1, <2>5 DEF Goto
      <3>2. \A q \in Procs \ {p} : /\ pc'[q] = pc[q] /\ op'[q] = op[q]
                                   /\ opKey'[q] = opKey[q]
                                   /\ curObj'[q] = curObj[q]
                                   /\ newRev'[q] = newRev[q]
                                   /\ newIndex'[q] = newIndex[q]
        BY <3>1
      <3>3. /\ ~Committed(p) /\ ~Committed(p)' /\ pc'[p] # "send" /\ ~Holding(p)'
            /\ pc'[p] \in {"reserve", "get", "put", "index"} => op'[p] # "Delete"
        BY <1>0, <2>2, <2>3, <2>5, <3>1 DEF Committed, Holding, TypeInv, TypeOK
      <3>4. memRev' \in {memRev, memRev + 1} /\ UNCHANGED <<events, kvs>>
        BY <2>3
      <3>5. QED
        BY <1>0, <3>2, <3>3, <3>4, QuietStepKeepsEvPart, Zenon
    <2>6. QED
      BY <2>4, <2>5
  <1>3. ASSUME NEW p \in Procs, NEW k \in KeysOf[p], BeginCreateOrReplace(p, k)
        PROVE  EvPart'
    <2>1. /\ UNCHANGED <<memRev, kvs, events, curObj, newRev, newIndex>>
          /\ pc[p] = "idle"
          /\ pc' = [pc EXCEPT ![p] = "reserve"]
          /\ op' = [op EXCEPT ![p] = "CreateOrReplace"]
          /\ opKey' = [opKey EXCEPT ![p] = k]
      BY <1>3 DEF BeginCreateOrReplace, Goto
    <2>2. \A q \in Procs \ {p} : /\ pc'[q] = pc[q] /\ op'[q] = op[q]
                                 /\ opKey'[q] = opKey[q]
                                 /\ curObj'[q] = curObj[q]
                                 /\ newRev'[q] = newRev[q]
                                 /\ newIndex'[q] = newIndex[q]
      BY <2>1
    <2>3. /\ ~Committed(p) /\ ~Committed(p)' /\ pc'[p] # "send" /\ ~Holding(p)'
          /\ pc'[p] \in {"reserve", "get", "put", "index"} => op'[p] # "Delete"
      BY <1>0, <2>1 DEF Committed, Holding, TypeInv, TypeOK
    <2>4. memRev' \in {memRev, memRev + 1} /\ UNCHANGED <<events, kvs>>
      BY <2>1
    <2>5. QED
      BY <1>0, <2>2, <2>3, <2>4, QuietStepKeepsEvPart, Zenon
  <1>4. ASSUME NEW p \in Procs, ReserveRevAndSlot(p) PROVE EvPart'
    <2>1. /\ UNCHANGED <<kvs, events, op, opKey, curObj>>
          /\ pc[p] = "reserve"
          /\ pc' = [pc EXCEPT ![p] = IF op[p] = "CreateOrReplace" THEN "get" ELSE "put"]
          /\ memRev' = memRev + 1
          /\ newRev' = [newRev EXCEPT ![p] = memRev + 1]
          /\ newIndex' = [newIndex EXCEPT ![p] = Len(kvList) + 1]
      BY <1>4 DEF ReserveRevAndSlot, Goto
    <2>2. \A q \in Procs \ {p} : /\ pc'[q] = pc[q] /\ op'[q] = op[q]
                                 /\ opKey'[q] = opKey[q]
                                 /\ curObj'[q] = curObj[q]
                                 /\ newRev'[q] = newRev[q]
                                 /\ newIndex'[q] = newIndex[q]
      BY <2>1
    <2>3. /\ ~Committed(p) /\ ~Committed(p)' /\ pc'[p] # "send"
          /\ pc'[p] \in {"get", "put"}
          /\ newRev'[p] = memRev + 1
      BY <1>0, <2>1 DEF Committed, TypeInv, TypeOK
    <2>4. Holding(p)' => /\ opKey'[p] = opKey[p]
                         /\ \/ Holding(p) /\ newRev'[p] = newRev[p]
                            \/ newRev'[p] = memRev + 1 /\ memRev' = memRev + 1
      BY <2>1, <2>3
    <2>5. pc'[p] \in {"reserve", "get", "put", "index"} => op'[p] # "Delete"
      BY <2>1 DEF EvPart, OpStages
    <2>6. memRev' \in {memRev, memRev + 1} /\ UNCHANGED <<events, kvs>>
      BY <2>1
    <2>7. QED
      BY <1>0, <2>2, <2>3, <2>4, <2>5, <2>6, QuietStepKeepsEvPart, Zenon
  <1>5. ASSUME NEW p \in Procs, ReplaceGet(p) PROVE EvPart'
    <2>1. /\ UNCHANGED <<memRev, kvs, events, op, opKey, newRev, newIndex>>
          /\ pc[p] = "get"
          /\ pc' = [pc EXCEPT ![p] = "put"]
          /\ curObj' = [curObj EXCEPT ![p] = kvs[opKey[p]]]
      BY <1>5 DEF ReplaceGet, Goto
    <2>2. \A q \in Procs \ {p} : /\ pc'[q] = pc[q] /\ op'[q] = op[q]
                                 /\ opKey'[q] = opKey[q]
                                 /\ curObj'[q] = curObj[q]
                                 /\ newRev'[q] = newRev[q]
                                 /\ newIndex'[q] = newIndex[q]
      BY <2>1
    <2>3. /\ ~Committed(p) /\ ~Committed(p)' /\ pc'[p] # "send"
          /\ Holding(p)' => /\ opKey'[p] = opKey[p]
                            /\ \/ Holding(p) /\ newRev'[p] = newRev[p]
                               \/ newRev'[p] = memRev + 1 /\ memRev' = memRev + 1
      BY <1>0, <2>1 DEF Committed, Holding, TypeInv, TypeOK
    <2>4. pc'[p] \in {"reserve", "get", "put", "index"} => op'[p] # "Delete"
      BY <2>1 DEF EvPart, OpStages
    <2>5. memRev' \in {memRev, memRev + 1} /\ UNCHANGED <<events, kvs>>
      BY <1>0, <2>1
    <2>6. QED
      BY <1>0, <2>2, <2>3, <2>4, <2>5, QuietStepKeepsEvPart, Zenon
  <1>6. ASSUME NEW p \in Procs, Put(p) PROVE EvPart'
    <2>1. /\ pc[p] = "put"
          /\ pc' = [pc EXCEPT ![p] = "index"]
          /\ kvs' = [kvs EXCEPT ![opKey[p]] = NewSlot(p)]
          /\ UNCHANGED <<memRev, events, op, opKey, curObj, newRev, newIndex>>
      BY <1>6 DEF Put, Goto
    <2>2. PICK k \in Keys : k = opKey[p]
      BY <1>0, <2>1 DEF TypeInv, LocalsOK
    <2>3. curObj[p] = kvs[k]
      BY <1>0, <2>1, <2>2 DEF KeyInv, ReadCurrent, ReadCurrentAt
    <2>4. /\ pc' = [pc EXCEPT ![p] = pc'[p]] /\ pc'[p] = "index"
          /\ op[p] # "Delete"
      BY <1>0, <2>1 DEF TypeInv, TypeOK, EvPart, OpStages
    <2>5. QED
      BY <1>0, <2>1, <2>2, <2>3, <2>4, CommitKeepsEvPart
  <1>7. ASSUME NEW p \in Procs, PutConflict(p) PROVE EvPart'
    BY <1>0, <1>7, ReturnKeepsEvPart DEF PutConflict, Committed
  <1>8. ASSUME NEW p \in Procs, WriteSlots(p) PROVE EvPart'
    BY <1>0, <1>8, WriteSlotsKeepsEvPart
  <1>9. ASSUME NEW p \in Procs, DeleteCheck(p) PROVE EvPart'
    <2>1. pc[p] = "check" /\ UNCHANGED <<kvs, events>> /\ ~Committed(p)
      BY <1>9 DEF DeleteCheck, Committed
    <2>2. CASE Return(p) /\ UNCHANGED memRev
      BY <1>0, <2>1, <2>2, ReturnKeepsEvPart
    <2>3. CASE /\ memRev' = memRev + 1
               /\ newRev' = [newRev EXCEPT ![p] = memRev + 1]
               /\ Goto(p, "del")
               /\ UNCHANGED <<op, opKey, curObj, newIndex>>
      <3>1. \A q \in Procs \ {p} : /\ pc'[q] = pc[q] /\ op'[q] = op[q]
                                   /\ opKey'[q] = opKey[q]
                                   /\ curObj'[q] = curObj[q]
                                   /\ newRev'[q] = newRev[q]
                                   /\ newIndex'[q] = newIndex[q]
        BY <2>3 DEF Goto
      <3>2. /\ ~Committed(p)' /\ pc'[p] # "send"
            /\ pc'[p] \notin {"reserve", "get", "put", "index"}
            /\ newRev'[p] = memRev + 1
        BY <1>0, <2>3 DEF Goto, Committed, TypeInv, TypeOK
      <3>3. Holding(p)' => /\ opKey'[p] = opKey[p]
                           /\ \/ Holding(p) /\ newRev'[p] = newRev[p]
                              \/ newRev'[p] = memRev + 1 /\ memRev' = memRev + 1
        BY <2>3, <3>2
      <3>4. memRev' \in {memRev, memRev + 1} /\ UNCHANGED <<events, kvs>>
        BY <2>1, <2>3
      <3>5. QED
        BY <1>0, <2>1, <3>1, <3>2, <3>3, <3>4, QuietStepKeepsEvPart, Zenon
    <2>4. QED
      BY <1>9, <2>2, <2>3 DEF DeleteCheck
  <1>10. ASSUME NEW p \in Procs, DeleteDel(p) PROVE EvPart'
    <2>1. pc[p] = "del" /\ UNCHANGED <<memRev, events>> /\ ~Committed(p)
      BY <1>10 DEF DeleteDel, Committed
    <2>2. CASE kvs[opKey[p]] = Nil /\ Return(p) /\ UNCHANGED <<kvs, kvList>>
      BY <1>0, <2>1, <2>2, ReturnKeepsEvPart
    <2>3. CASE /\ kvs[opKey[p]] # Nil
               /\ kvs' = [kvs EXCEPT ![opKey[p]] = Nil]
               /\ Goto(p, "send")
               /\ UNCHANGED <<op, opKey, curObj, newRev, newIndex>>
      <3>1. PICK k \in Keys : k = opKey[p]
        BY <1>0, <2>1 DEF TypeInv, LocalsOK
      <3>2. curObj[p] = kvs[k]
        BY <1>0, <2>1, <3>1 DEF KeyInv, ReadCurrent, ReadCurrentAt
      <3>3. /\ pc' = [pc EXCEPT ![p] = pc'[p]] /\ pc'[p] = "send"
            /\ op[p] = "Delete" /\ curObj[p] # Nil
        BY <1>0, <2>1, <2>3 DEF Goto, TypeInv, TypeOK, LocalsOK
      <3>4. QED
        BY <1>0, <2>1, <2>3, <3>1, <3>2, <3>3, CommitKeepsEvPart
    <2>4. QED
      BY <1>10, <2>2, <2>3 DEF DeleteDel
  <1>11. ASSUME NEW p \in Procs, SendEvent(p) PROVE EvPart'
    BY <1>0, <1>11, SendEventKeepsEvPart
  <1>12. ASSUME NEW w \in Watchers, Watch(w) PROVE EvPart'
    BY <1>1, <1>12 DEF Watch
  <1>13. CASE Done \/ UNCHANGED vars
    BY <1>1, <1>13 DEF Done, vars
  <1>14. QED
    BY <1>2, <1>3, <1>4, <1>5, <1>6, <1>7, <1>8, <1>9, <1>10, <1>11, <1>12,
       <1>13 DEF Next

LEMMA InitEvPart == Init => EvPart
  <1> SUFFICES ASSUME Init PROVE EvPart
    OBVIOUS
  <1>1. \A k : KeyEvents(k) = {}
    BY DEF Init, KeyEvents
  <1>2. \A k \in Keys : ChainLinks(k)
    BY <1>1 DEF ChainLinks
  <1>3. \A k \in Keys : EventsShow(k, kvs[k])
    BY <1>1 DEF EventsShow, LiveAfter, Init
  <1>4. QED
    BY <1>1, <1>2, <1>3 DEF Init, EvPart, EventRevs, OpStages, CommittedTree,
       EventsFollowRead, EventsFollowTree, Committed, Holding

(***************************************************************************)
(* The events broadcast for a key tell its whole history, and the last of  *)
(* them its state in the tree, on every key no call is working on (the    *)
(* property EventChain that run disjoint checks), for any number of keys,  *)
(* clients and revisions, provided no two clients share a key.  Every      *)
(* successful put or delete emits one event whose pre-image is the        *)
(* object it replaced, and sendEvent runs while the key is still the      *)
(* call's own.  Run race shows that two clients on one key break it.       *)
(***************************************************************************)
THEOREM EventChainInvariant ==
  ASSUME Disjoint
  PROVE  Spec => []EventChain
  <1>1. AgreeInv /\ EvPart /\ [Next]_vars => EvPart'
    BY NextEvPart
  <1>2. EvPart => EventChain
    <2> SUFFICES ASSUME EvPart, NEW k \in Keys, Settled(k)
                 PROVE  ChainLinks(k) /\ EventsShow(k, kvs[k])
      BY DEF EventChain, ChainLinks, EventsShow
    <2>1. \A p \in Procs : Committed(p) => opKey[p] # k
      BY DEF Settled, Committed
    <2>2. QED
      BY <2>1 DEF EvPart, EventsFollowTree
  <1>3. Spec => []EvPart
    BY <1>1, InitEvPart, AgreeInvariant, PTL DEF Spec
  <1>4. QED
    BY <1>2, <1>3, PTL

=============================================================================
