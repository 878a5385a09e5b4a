-------------------------- MODULE RefinementProofs --------------------------
(***************************************************************************)
(* Proof that the store implements AtomicStore when no two clients share  *)
(* a key: every step of MemStore is a step of AtomicStore under the       *)
(* mapping Atomic of MemStore, or leaves the mapped state unchanged.      *)
(***************************************************************************)
EXTENDS MemStoreProofs

\* No two clients ever pass the same key to the store.
Disjoint == \A p, q \in Procs : p # q => KeysOf[p] \cap KeysOf[q] = {}

(***************************************************************************)
(* What the mapping needs of the implementation's state:                  *)
(*   - the objects in kvs and the ones a call read carry revisions the    *)
(*     counter already handed out (and the objects in kvs, nonzero ones); *)
(*   - a call works on one of its own keys;                                *)
(*   - the revisions calls hold and have not committed are handed out and  *)
(*     pairwise distinct, so committing one removes exactly it;           *)
(*   - a call about to put holds a revision newer than the object it      *)
(*     expects to replace, and CreateOrReplace, which reserves before it  *)
(*     reads, finds its key no newer than its revision: only it writes    *)
(*     that key.                                                          *)
(***************************************************************************)
KvsRevsIssued ==
    \A k \in Keys : kvs[k] # Nil => kvs[k].rev \in (InitRev + 1)..memRev

ReadRevsIssued ==
    \A p \in Procs : curObj[p] # Nil => curObj[p].rev \in (InitRev + 1)..memRev

OwnKeys == \A p \in Procs : pc[p] # "idle" => opKey[p] \in KeysOf[p]

PendingIssued == \A p \in Reserving : newRev[p] \in (InitRev + 1)..memRev

PendingDistinct == \A p, q \in Reserving : p # q => newRev[p] # newRev[q]

PutNewer ==
    \A p \in Procs :
      pc[p] = "put" /\ curObj[p] # Nil => curObj[p].rev < newRev[p]

GetNewer ==
    \A p \in Procs :
      pc[p] = "get" => \/ kvs[opKey[p]] = Nil
                       \/ kvs[opKey[p]].rev < newRev[p]

RefInv ==
    /\ KvsRevsIssued
    /\ ReadRevsIssued
    /\ OwnKeys
    /\ PendingIssued
    /\ PendingDistinct
    /\ PutNewer
    /\ GetNewer

\* The abstract state, as the mapping Atomic of MemStore computes it.
AbsStore == [k \in Keys |-> IF kvs[k] = Nil THEN 0 ELSE kvs[k].rev]
AbsPending == {newRev[p] : p \in Reserving}

-----------------------------------------------------------------------------
USE KeysOfAssumption, RevAssumption, NilAssumption

LEMMA InitRefInv == Init => RefInv
  BY DEF Init, RefInv, KvsRevsIssued, ReadRevsIssued, OwnKeys, PendingIssued,
         PendingDistinct, PutNewer, GetNewer, Reserving

(***************************************************************************)
(* The initial states map to AtomicStore's initial state.                  *)
(***************************************************************************)
LEMMA InitRefines == Init => Atomic!Init
  BY DEF Init, Atomic!Init, Reserving

(***************************************************************************)
(* How the pending set follows the clients that hold a reservation: it     *)
(* stays, gains the revision of a client that reserves, or loses the       *)
(* revision of a client that commits or gives up, and only that one.      *)
(***************************************************************************)
LEMMA PendingSame ==
  ASSUME Reserving' = Reserving,
         \A q \in Reserving : newRev'[q] = newRev[q]
  PROVE  AbsPending' = AbsPending
  BY DEF AbsPending

LEMMA PendingAdd ==
  ASSUME NEW p \in Procs,
         Reserving' = Reserving \cup {p},
         \A q \in Reserving : newRev'[q] = newRev[q]
  PROVE  AbsPending' = AbsPending \cup {newRev'[p]}
  BY DEF AbsPending

LEMMA PendingRemove ==
  ASSUME PendingDistinct,
         NEW p \in Reserving,
         Reserving' = Reserving \ {p},
         \A q \in Reserving' : newRev'[q] = newRev[q]
  PROVE  AbsPending' = AbsPending \ {newRev[p]}
  BY DEF AbsPending, PendingDistinct

(***************************************************************************)
(* A step of one client p that takes no revision and commits none, ends   *)
(* outside a reservation, and at most removes objects from kvs keeps      *)
(* RefInv.                                                                *)
(***************************************************************************)
LEMMA QuietStepKeepsRefInv ==
  ASSUME TypeInv, RefInv, NEW p \in Procs,
         memRev' = memRev,
         kvs' \in [Keys -> Slot \cup {Nil}],
         \A k \in Keys : kvs'[k] \in {kvs[k], Nil},
         \A q \in Procs \ {p} : /\ pc'[q] = pc[q] /\ opKey'[q] = opKey[q]
                                /\ curObj'[q] = curObj[q]
                                /\ newRev'[q] = newRev[q],
         pc' \in [Procs -> Pcs],
         pc'[p] \notin {"get", "put", "del"},
         pc'[p] # "idle" => pc[p] # "idle" /\ opKey'[p] = opKey[p],
         curObj'[p] \in {curObj[p], Nil}
  PROVE  RefInv'
  <1> USE DEF TypeInv, TypeOK, Rev, Slot
  <1>1. KvsRevsIssued'
    BY DEF RefInv, KvsRevsIssued
  <1>2. ReadRevsIssued'
    BY DEF RefInv, ReadRevsIssued
  <1>3. OwnKeys'
    BY DEF RefInv, OwnKeys
  <1>4. Reserving' \subseteq Reserving \ {p}
    BY DEF Reserving
  <1>5. PendingIssued' /\ PendingDistinct'
    BY <1>4 DEF RefInv, PendingIssued, PendingDistinct, Reserving
  <1>6. PutNewer'
    BY DEF RefInv, PutNewer
  <1>7. GetNewer'
    <2> SUFFICES ASSUME NEW q \in Procs, pc'[q] = "get"
                 PROVE  \/ kvs'[opKey'[q]] = Nil
                        \/ kvs'[opKey'[q]].rev < newRev'[q]
      BY DEF GetNewer
    <2>1. q # p /\ pc[q] = "get" /\ opKey[q] \in Keys
      BY DEF LocalsOK, Pcs
    <2>2. QED
      BY <2>1 DEF RefInv, GetNewer
  <1>8. QED
    BY <1>1, <1>2, <1>3, <1>5, <1>6, <1>7 DEF RefInv

(***************************************************************************)
(* RefInv is kept by every step when no two clients share a key.  One     *)
(* step per action.  Only Put can make a client's expectation stale, and  *)
(* Disjoint is used there: the key of a client in CreateOrReplace's get   *)
(* is not the key of any other client's put.                              *)
(***************************************************************************)
LEMMA NextRefInv ==
  ASSUME Disjoint, TypeInv, RefInv, [Next]_vars
  PROVE  RefInv'
  <1> USE DEF TypeInv, TypeOK, Rev, Slot
  <1>1. ASSUME NEW p \in Procs, NEW k \in KeysOf[p],
               NEW o \in Ops \ {"CreateOrReplace"}, BeginGet(p, o, k)
        PROVE RefInv'
    <2>1. PICK next \in AfterGet(o, kvs[k]) :
               IF next = "idle"
               THEN UNCHANGED clientVars
               ELSE /\ Goto(p, next)
                    /\ op' = [op EXCEPT ![p] = o]
                    /\ opKey' = [opKey EXCEPT ![p] = k]
                    /\ curObj' = [curObj EXCEPT ![p] = kvs[k]]
                    /\ UNCHANGED <<newRev, newIndex>>
      BY <1>1 DEF BeginGet
    <2>2. next \in {"idle", "reserve", "check"}
      BY DEF AfterGet, CreateAfterGet, DeleteAfterGet, UpdateAfterGet,
             MergeAfterGet, Ops
    <2>3. UNCHANGED <<memRev, kvs>> /\ pc[p] = "idle"
      BY <1>1 DEF BeginGet
    <2>4. CASE next = "idle"
      BY <2>1, <2>3, <2>4 DEF clientVars, RefInv, KvsRevsIssued,
         ReadRevsIssued, OwnKeys, PendingIssued, PendingDistinct, PutNewer,
         GetNewer, Reserving
    <2>5. CASE next # "idle"
      <3>1. /\ pc' = [pc EXCEPT ![p] = next]
            /\ opKey' = [opKey EXCEPT ![p] = k]
            /\ curObj' = [curObj EXCEPT ![p] = kvs[k]]
            /\ UNCHANGED newRev
        BY <2>1, <2>5 DEF Goto
      <3>2. Reserving' = Reserving
        BY <2>2, <2>3, <3>1 DEF Reserving
      <3>3. k \in Keys /\ (kvs[k] # Nil => kvs[k].rev <= memRev)
        BY DEF RefInv, KvsRevsIssued
      <3>4. QED
        BY <2>2, <2>3, <3>1, <3>2, <3>3 DEF RefInv, KvsRevsIssued,
           ReadRevsIssued, OwnKeys, PendingIssued, PendingDistinct, PutNewer,
           GetNewer
    <2>6. QED
      BY <2>4, <2>5
  <1>2. ASSUME NEW p \in Procs, NEW k \in KeysOf[p], BeginCreateOrReplace(p, k)
        PROVE RefInv'
    <2>1. Reserving' = Reserving
      BY <1>2 DEF BeginCreateOrReplace, Goto, Reserving
    <2>2. QED
      BY <1>2, <2>1 DEF BeginCreateOrReplace, Goto, RefInv, KvsRevsIssued,
         ReadRevsIssued, OwnKeys, PendingIssued, PendingDistinct, PutNewer,
         GetNewer
  <1>3. ASSUME NEW p \in Procs, ReserveRevAndSlot(p) PROVE RefInv'
    <2>1. /\ pc[p] = "reserve" /\ pc'[p] \in {"get", "put"}
          /\ memRev' = memRev + 1 /\ newRev'[p] = memRev + 1
          /\ \A q \in Procs \ {p} : pc'[q] = pc[q] /\ newRev'[q] = newRev[q]
          /\ UNCHANGED <<kvs, op, opKey, curObj>>
      BY <1>3 DEF ReserveRevAndSlot, Goto
    <2>2. Reserving' = Reserving \cup {p} /\ p \notin Reserving
      BY <2>1 DEF Reserving
    <2>3. pc'[p] = "put" => op[p] # "CreateOrReplace"
      BY <1>3 DEF ReserveRevAndSlot, Goto
    <2>4. KvsRevsIssued' /\ ReadRevsIssued'
      BY <2>1 DEF RefInv, KvsRevsIssued, ReadRevsIssued
    <2>5. OwnKeys'
      <3> SUFFICES ASSUME NEW q \in Procs, pc'[q] # "idle"
                   PROVE  opKey'[q] \in KeysOf[q]
        BY DEF OwnKeys
      <3>1. pc[q] # "idle"
        BY <2>1
      <3>2. QED
        BY <2>1, <3>1 DEF RefInv, OwnKeys
    <2>9. PendingIssued'
      <3> SUFFICES ASSUME NEW q \in Reserving'
                   PROVE  newRev'[q] \in (InitRev + 1)..memRev'
        BY DEF PendingIssued
      <3>1. CASE q = p
        BY <2>1, <3>1
      <3>2. CASE q # p
        BY <2>1, <2>2, <3>2 DEF Reserving, RefInv, PendingIssued
      <3>3. QED
        BY <3>1, <3>2
    <2>10. PendingDistinct'
      <3> SUFFICES ASSUME NEW q \in Reserving', NEW r \in Reserving', q # r
                   PROVE  newRev'[q] # newRev'[r]
        BY DEF PendingDistinct
      <3>1. CASE q # p /\ r # p
        BY <2>1, <2>2, <3>1 DEF Reserving, RefInv, PendingDistinct
      <3>2. CASE q = p \/ r = p
        BY <2>1, <2>2, <3>2 DEF Reserving, RefInv, PendingIssued
      <3>3. QED
        BY <3>1, <3>2
    <2>6. PutNewer'
      <3> SUFFICES ASSUME NEW q \in Procs, pc'[q] = "put", curObj'[q] # Nil
                   PROVE  curObj'[q].rev < newRev'[q]
        BY DEF PutNewer
      <3>1. CASE q = p
        BY <2>1, <3>1 DEF RefInv, ReadRevsIssued
      <3>2. CASE q # p
        BY <2>1, <3>2 DEF RefInv, PutNewer
      <3>3. QED
        BY <3>1, <3>2
    <2>7. GetNewer'
      <3> SUFFICES ASSUME NEW q \in Procs, pc'[q] = "get"
                   PROVE  \/ kvs'[opKey'[q]] = Nil
                          \/ kvs'[opKey'[q]].rev < newRev'[q]
        BY DEF GetNewer
      <3>1. CASE q = p
        <4>1. opKey[p] \in Keys
          BY <2>1 DEF LocalsOK
        <4>2. QED
          BY <2>1, <3>1, <4>1 DEF RefInv, KvsRevsIssued
      <3>2. CASE q # p
        BY <2>1, <3>2 DEF RefInv, GetNewer
      <3>3. QED
        BY <3>1, <3>2
    <2>8. QED
      BY <2>4, <2>5, <2>6, <2>7, <2>9, <2>10 DEF RefInv
  <1>4. ASSUME NEW p \in Procs, ReplaceGet(p) PROVE RefInv'
    <2>1. /\ pc[p] = "get" /\ pc' = [pc EXCEPT ![p] = "put"]
          /\ curObj' = [curObj EXCEPT ![p] = kvs[opKey[p]]]
          /\ UNCHANGED <<memRev, kvs, opKey, newRev>>
      BY <1>4 DEF ReplaceGet, Goto
    <2>2. Reserving' = Reserving
      BY <2>1 DEF Reserving
    <2>3. opKey[p] \in Keys
      BY <2>1 DEF LocalsOK
    <2>4. QED
      BY <2>1, <2>2, <2>3 DEF RefInv, KvsRevsIssued, ReadRevsIssued, OwnKeys,
         PendingIssued, PendingDistinct, PutNewer, GetNewer
  <1>5. ASSUME NEW p \in Procs, Put(p) PROVE RefInv'
    <2>1. /\ pc[p] = "put" /\ pc' = [pc EXCEPT ![p] = "index"]
          /\ kvs' = [kvs EXCEPT ![opKey[p]] = NewSlot(p)]
          /\ UNCHANGED <<memRev, opKey, curObj, newRev>>
      BY <1>5 DEF Put, Goto
    <2>2. Reserving' = Reserving \ {p} /\ p \in Reserving
      BY <2>1 DEF Reserving
    <2>3. opKey[p] \in KeysOf[p] /\ opKey[p] \in Keys
      BY <2>1 DEF RefInv, OwnKeys
    <2>4. NewSlot(p).rev \in (InitRev + 1)..memRev
      BY <2>2 DEF NewSlot, RefInv, PendingIssued
    <2>5. KvsRevsIssued'
      BY <2>1, <2>3, <2>4 DEF RefInv, KvsRevsIssued
    <2>6. ReadRevsIssued' /\ OwnKeys' /\ PutNewer'
      BY <2>1 DEF RefInv, ReadRevsIssued, OwnKeys, PutNewer
    <2>7. PendingIssued' /\ PendingDistinct'
      BY <2>1, <2>2 DEF RefInv, PendingIssued, PendingDistinct
    <2>8. GetNewer'
      <3> SUFFICES ASSUME NEW q \in Procs, pc'[q] = "get"
                   PROVE  \/ kvs'[opKey'[q]] = Nil
                          \/ kvs'[opKey'[q]].rev < newRev'[q]
        BY DEF GetNewer
      <3>1. q # p /\ pc[q] = "get"
        BY <2>1
      <3>2. opKey[q] \in KeysOf[q]
        BY <3>1 DEF RefInv, OwnKeys
      <3>3. opKey[q] # opKey[p]
        BY <2>3, <3>1, <3>2 DEF Disjoint
      <3>4. kvs'[opKey[q]] = kvs[opKey[q]]
        BY <2>1, <2>3, <3>2, <3>3
      <3>5. QED
        BY <2>1, <3>1, <3>4 DEF RefInv, GetNewer
    <2>9. QED
      BY <2>5, <2>6, <2>7, <2>8 DEF RefInv
  <1>6. ASSUME NEW p \in Procs, PutConflict(p) PROVE RefInv'
    <2>1. /\ pc[p] = "put" /\ pc' = [pc EXCEPT ![p] = "idle"]
          /\ curObj' = [curObj EXCEPT ![p] = Nil]
          /\ opKey' = [opKey EXCEPT ![p] = Nil]
          /\ newRev' = [newRev EXCEPT ![p] = 0]
          /\ UNCHANGED <<memRev, kvs>>
      BY <1>6 DEF PutConflict, Return
    <2>2. Reserving' = Reserving \ {p}
      BY <2>1 DEF Reserving
    <2>3. QED
      BY <2>1, <2>2 DEF RefInv, KvsRevsIssued, ReadRevsIssued, OwnKeys,
         PendingIssued, PendingDistinct, PutNewer, GetNewer
  <1>7. ASSUME NEW p \in Procs, WriteSlots(p) PROVE RefInv'
    <2>1. /\ pc[p] = "index" /\ pc' = [pc EXCEPT ![p] = "send"]
          /\ UNCHANGED <<memRev, kvs, opKey, curObj, newRev>>
      BY <1>7 DEF WriteSlots, Goto
    <2>2. Reserving' = Reserving
      BY <2>1 DEF Reserving
    <2>3. QED
      BY <2>1, <2>2 DEF RefInv, KvsRevsIssued, ReadRevsIssued, OwnKeys,
         PendingIssued, PendingDistinct, PutNewer, GetNewer
  <1>8. ASSUME NEW p \in Procs, DeleteCheck(p) PROVE RefInv'
    <2>1. pc[p] = "check" /\ UNCHANGED kvs
      BY <1>8 DEF DeleteCheck
    <2>2. CASE /\ memRev < MaxRev
               /\ memRev' = memRev + 1
               /\ newRev' = [newRev EXCEPT ![p] = memRev + 1]
               /\ Goto(p, "del")
               /\ UNCHANGED <<op, opKey, curObj, newIndex>>
      <3>1. Reserving' = Reserving \cup {p} /\ p \notin Reserving
        BY <2>1, <2>2 DEF Goto, Reserving
      <3>2. /\ pc' = [pc EXCEPT ![p] = "del"]
            /\ \A q \in Procs \ {p} : newRev'[q] = newRev[q]
        BY <2>2 DEF Goto
      <3>3. KvsRevsIssued' /\ ReadRevsIssued' /\ PutNewer' /\ GetNewer'
        BY <2>1, <2>2, <3>2 DEF RefInv, KvsRevsIssued, ReadRevsIssued,
           PutNewer, GetNewer
      <3>4. OwnKeys'
        BY <2>1, <2>2, <3>2 DEF RefInv, OwnKeys
      <3>5. PendingIssued'
        <4> SUFFICES ASSUME NEW q \in Reserving'
                     PROVE  newRev'[q] \in (InitRev + 1)..memRev'
          BY DEF PendingIssued
        <4>1. CASE q = p
          BY <2>2, <4>1
        <4>2. CASE q # p
          BY <2>2, <3>1, <3>2, <4>2 DEF RefInv, PendingIssued
        <4>3. QED
          BY <4>1, <4>2
      <3>6. PendingDistinct'
        <4> SUFFICES ASSUME NEW q \in Reserving', NEW r \in Reserving', q # r
                     PROVE  newRev'[q] # newRev'[r]
          BY DEF PendingDistinct
        <4>1. CASE q # p /\ r # p
          BY <3>1, <3>2, <4>1 DEF Reserving, RefInv, PendingDistinct
        <4>2. CASE q = p \/ r = p
          BY <2>2, <3>1, <3>2, <4>2 DEF RefInv, PendingIssued
        <4>3. QED
          BY <4>1, <4>2
      <3>7. QED
        BY <3>3, <3>4, <3>5, <3>6 DEF RefInv
    <2>3. CASE Return(p) /\ UNCHANGED memRev
      BY <2>1, <2>3, QuietStepKeepsRefInv DEF Return, Pcs
    <2>4. QED
      BY <1>8, <2>2, <2>3 DEF DeleteCheck
  <1>9. ASSUME NEW p \in Procs, DeleteDel(p) PROVE RefInv'
    <2>1. pc[p] = "del" /\ UNCHANGED memRev /\ opKey[p] \in Keys
      BY <1>9 DEF DeleteDel, LocalsOK
    <2>2. CASE /\ kvs[opKey[p]] # Nil
               /\ kvs' = [kvs EXCEPT ![opKey[p]] = Nil]
               /\ kvList' = [kvList EXCEPT ![curObj[p].index] = Nil]
               /\ Goto(p, "send")
               /\ UNCHANGED <<op, opKey, curObj, newRev, newIndex>>
      <3>1. Reserving' = Reserving \ {p}
        BY <2>1, <2>2 DEF Goto, Reserving
      <3>2. QED
        BY <2>1, <2>2, <3>1 DEF Goto, RefInv, KvsRevsIssued, ReadRevsIssued,
           OwnKeys, PendingIssued, PendingDistinct, PutNewer, GetNewer
    <2>3. CASE kvs[opKey[p]] = Nil /\ Return(p) /\ UNCHANGED <<kvs, kvList>>
      <3>1. Reserving' = Reserving \ {p}
        BY <2>1, <2>3 DEF Return, Reserving
      <3>2. QED
        BY <2>1, <2>3, <3>1 DEF Return, RefInv, KvsRevsIssued, ReadRevsIssued,
           OwnKeys, PendingIssued, PendingDistinct, PutNewer, GetNewer
    <2>4. QED
      BY <1>9, <2>2, <2>3 DEF DeleteDel
  <1>10. ASSUME NEW p \in Procs, SendEvent(p) PROVE RefInv'
    BY <1>10, QuietStepKeepsRefInv DEF SendEvent, Return, Pcs
  <1>11. ASSUME NEW w \in Watchers, Watch(w) PROVE RefInv'
    BY <1>11 DEF Watch, clientVars, RefInv, KvsRevsIssued, ReadRevsIssued,
       OwnKeys, PendingIssued, PendingDistinct, PutNewer, GetNewer, Reserving
  <1>12. CASE Done \/ UNCHANGED vars
    BY <1>12 DEF Done, vars, clientVars, RefInv, KvsRevsIssued, ReadRevsIssued,
       OwnKeys, PendingIssued, PendingDistinct, PutNewer, GetNewer, Reserving
  <1>13. QED
    BY <1>1, <1>2, <1>3, <1>4, <1>5, <1>6, <1>7, <1>8, <1>9, <1>10, <1>11,
       <1>12 DEF Next

(***************************************************************************)
(* The abstract actions, restated over AbsStore and AbsPending.            *)
(***************************************************************************)
LEMMA AbsStutter ==
  ASSUME memRev' = memRev, AbsStore' = AbsStore, AbsPending' = AbsPending
  PROVE  UNCHANGED Atomic!vars
  BY DEF Atomic!vars, AbsStore, AbsPending

LEMMA AbsReserve ==
  ASSUME memRev < MaxRev, memRev' = memRev + 1, AbsStore' = AbsStore,
         AbsPending' = AbsPending \cup {memRev + 1}
  PROVE  Atomic!Next
  BY DEF Atomic!Next, Atomic!Reserve, AbsStore, AbsPending

LEMMA AbsInstall ==
  ASSUME NEW k \in Keys, NEW r \in AbsPending, AbsStore[k] < r,
         AbsStore' = [AbsStore EXCEPT ![k] = r],
         AbsPending' = AbsPending \ {r}, memRev' = memRev
  PROVE  Atomic!Next
  BY DEF Atomic!Next, Atomic!Install, AbsStore, AbsPending

LEMMA AbsRemove ==
  ASSUME NEW k \in Keys, NEW r \in AbsPending, AbsStore[k] # 0,
         AbsStore' = [AbsStore EXCEPT ![k] = 0],
         AbsPending' = AbsPending \ {r}, memRev' = memRev
  PROVE  Atomic!Next
  BY DEF Atomic!Next, Atomic!Remove, AbsStore, AbsPending

LEMMA AbsAbandon ==
  ASSUME NEW r \in AbsPending, AbsStore' = AbsStore,
         AbsPending' = AbsPending \ {r}, memRev' = memRev
  PROVE  Atomic!Next
  BY DEF Atomic!Next, Atomic!Abandon, AbsStore, AbsPending

(***************************************************************************)
(* Every step of the store is a step of AtomicStore or a stutter of it:   *)
(* reserving is Reserve, a put Install, a successful kvs.del Remove, a    *)
(* refused put or a delete of a vanished key Abandon; the other steps     *)
(* leave the map, the counter and the pending revisions alone.            *)
(***************************************************************************)
LEMMA NextRefines ==
  ASSUME TypeInv, RefInv, [Next]_vars
  PROVE  [Atomic!Next]_Atomic!vars
  <1> USE DEF TypeInv, TypeOK, Rev, Slot
  <1>1. ASSUME NEW p \in Procs, NEW k \in KeysOf[p],
               NEW o \in Ops \ {"CreateOrReplace"}, BeginGet(p, o, k)
        PROVE UNCHANGED Atomic!vars
    <2>1. PICK next \in AfterGet(o, kvs[k]) :
               IF next = "idle"
               THEN UNCHANGED clientVars
               ELSE /\ Goto(p, next)
                    /\ UNCHANGED newRev
      BY <1>1 DEF BeginGet
    <2>2. next \in {"idle", "reserve", "check"}
      BY DEF AfterGet, CreateAfterGet, DeleteAfterGet, UpdateAfterGet,
             MergeAfterGet, Ops
    <2>3. UNCHANGED <<memRev, kvs>> /\ pc[p] = "idle"
      BY <1>1 DEF BeginGet
    <2>4. Reserving' = Reserving /\ UNCHANGED newRev
      BY <2>1, <2>2, <2>3 DEF Goto, clientVars, Reserving
    <2>5. QED
      BY <2>3, <2>4, PendingSame, AbsStutter DEF AbsStore
  <1>2. ASSUME NEW p \in Procs, NEW k \in KeysOf[p], BeginCreateOrReplace(p, k)
        PROVE UNCHANGED Atomic!vars
    <2>1. Reserving' = Reserving /\ UNCHANGED <<memRev, kvs, newRev>>
      BY <1>2 DEF BeginCreateOrReplace, Goto, Reserving
    <2>2. QED
      BY <2>1, PendingSame, AbsStutter DEF AbsStore
  <1>3. ASSUME NEW p \in Procs, ReserveRevAndSlot(p) PROVE Atomic!Next
    <2>1. /\ pc[p] = "reserve" /\ pc'[p] \in {"get", "put"}
          /\ memRev < MaxRev /\ memRev' = memRev + 1
          /\ newRev'[p] = memRev + 1
          /\ \A q \in Procs \ {p} : pc'[q] = pc[q] /\ newRev'[q] = newRev[q]
          /\ UNCHANGED kvs
      BY <1>3 DEF ReserveRevAndSlot, Goto
    <2>2. Reserving' = Reserving \cup {p} /\ p \notin Reserving
      BY <2>1 DEF Reserving
    <2>3. \A q \in Reserving : newRev'[q] = newRev[q]
      BY <2>1, <2>2 DEF Reserving
    <2>4. AbsPending' = AbsPending \cup {memRev + 1}
      BY <2>1, <2>2, <2>3, PendingAdd
    <2>5. QED
      BY <2>1, <2>4, AbsReserve DEF AbsStore
  <1>4. ASSUME NEW p \in Procs, ReplaceGet(p) PROVE UNCHANGED Atomic!vars
    <2>1. Reserving' = Reserving /\ UNCHANGED <<memRev, kvs, newRev>>
      BY <1>4 DEF ReplaceGet, Goto, Reserving
    <2>2. QED
      BY <2>1, PendingSame, AbsStutter DEF AbsStore
  <1>5. ASSUME NEW p \in Procs, Put(p) PROVE Atomic!Next
    <2> DEFINE k == opKey[p]
               r == newRev[p]
    <2>1. /\ pc[p] = "put" /\ pc' = [pc EXCEPT ![p] = "index"]
          /\ PutAccepts(k, ExpectedRv(p))
          /\ kvs' = [kvs EXCEPT ![k] = NewSlot(p)]
          /\ UNCHANGED <<memRev, newRev>>
      BY <1>5 DEF Put, Goto
    <2>2. Reserving' = Reserving \ {p} /\ p \in Reserving
      BY <2>1 DEF Reserving
    <2>3. k \in Keys /\ r \in (InitRev + 1)..memRev
      BY <2>1, <2>2 DEF LocalsOK, RefInv, PendingIssued
    <2>4. r \in AbsPending
      BY <2>2 DEF AbsPending
    <2>5. AbsStore[k] < r
      <3>1. CASE curObj[p] = Nil
        BY <2>1, <2>3, <3>1 DEF PutAccepts, ExpectedRv, AbsStore
      <3>2. CASE curObj[p] # Nil
        <4>1. kvs[k] # Nil /\ kvs[k].rev = curObj[p].rev
          BY <2>1, <3>2 DEF PutAccepts, ExpectedRv, RefInv, ReadRevsIssued
        <4>2. curObj[p].rev < r
          BY <2>1, <3>2 DEF RefInv, PutNewer
        <4>3. QED
          BY <2>3, <4>1, <4>2 DEF AbsStore
      <3>3. QED
        BY <3>1, <3>2
    <2>6. AbsStore' = [AbsStore EXCEPT ![k] = r]
      <3>1. NewSlot(p) # Nil /\ NewSlot(p).rev = r
        <4>1. NewSlot(p) \in Slot
          BY <2>1, <2>3 DEF NewSlot, LocalsOK, Reserved
        <4>2. QED
          BY <4>1 DEF NewSlot
      <3>2. QED
        BY <2>1, <2>3, <3>1 DEF AbsStore
    <2>7. AbsPending' = AbsPending \ {r}
      <3>1. \A q \in Reserving' : newRev'[q] = newRev[q]
        BY <2>1
      <3>2. QED
        BY <2>2, <3>1, PendingRemove DEF RefInv
    <2>8. QED
      BY <2>1, <2>3, <2>4, <2>5, <2>6, <2>7, AbsInstall
  <1>6. ASSUME NEW p \in Procs, PutConflict(p) PROVE Atomic!Next
    <2>1. /\ pc[p] = "put" /\ pc' = [pc EXCEPT ![p] = "idle"]
          /\ newRev' = [newRev EXCEPT ![p] = 0]
          /\ UNCHANGED <<memRev, kvs>>
      BY <1>6 DEF PutConflict, Return
    <2>2. Reserving' = Reserving \ {p} /\ p \in Reserving
      BY <2>1 DEF Reserving
    <2>3. \A q \in Reserving' : newRev'[q] = newRev[q]
      BY <2>1, <2>2
    <2>4. AbsPending' = AbsPending \ {newRev[p]} /\ newRev[p] \in AbsPending
      BY <2>2, <2>3, PendingRemove DEF RefInv, AbsPending
    <2>5. QED
      BY <2>1, <2>4, AbsAbandon DEF AbsStore
  <1>7. ASSUME NEW p \in Procs, WriteSlots(p) PROVE UNCHANGED Atomic!vars
    <2>1. Reserving' = Reserving /\ UNCHANGED <<memRev, kvs, newRev>>
      BY <1>7 DEF WriteSlots, Goto, Reserving
    <2>2. QED
      BY <2>1, PendingSame, AbsStutter DEF AbsStore
  <1>8. ASSUME NEW p \in Procs, DeleteCheck(p) PROVE [Atomic!Next]_Atomic!vars
    <2>1. pc[p] = "check" /\ UNCHANGED kvs
      BY <1>8 DEF DeleteCheck
    <2>2. CASE /\ memRev < MaxRev
               /\ memRev' = memRev + 1
               /\ newRev' = [newRev EXCEPT ![p] = memRev + 1]
               /\ Goto(p, "del")
               /\ UNCHANGED <<op, opKey, curObj, newIndex>>
      <3>1. Reserving' = Reserving \cup {p} /\ p \notin Reserving
        BY <2>1, <2>2 DEF Goto, Reserving
      <3>2. \A q \in Reserving : newRev'[q] = newRev[q]
        BY <2>2, <3>1 DEF Reserving
      <3>3. AbsPending' = AbsPending \cup {memRev + 1}
        BY <2>2, <3>1, <3>2, PendingAdd
      <3>4. QED
        BY <2>1, <2>2, <3>3, AbsReserve DEF AbsStore
    <2>3. CASE Return(p) /\ UNCHANGED memRev
      <3>1. Reserving' = Reserving /\ \A q \in Reserving : newRev'[q] = newRev[q]
        BY <2>1, <2>3 DEF Return, Reserving
      <3>2. QED
        BY <2>1, <2>3, <3>1, PendingSame, AbsStutter DEF AbsStore
    <2>4. QED
      BY <1>8, <2>2, <2>3 DEF DeleteCheck
  <1>9. ASSUME NEW p \in Procs, DeleteDel(p) PROVE Atomic!Next
    <2>1. pc[p] = "del" /\ UNCHANGED memRev /\ opKey[p] \in Keys
      BY <1>9 DEF DeleteDel, LocalsOK
    <2>2. p \in Reserving /\ newRev[p] \in AbsPending
      BY <2>1 DEF Reserving, AbsPending
    <2>3. CASE /\ kvs[opKey[p]] # Nil
               /\ kvs' = [kvs EXCEPT ![opKey[p]] = Nil]
               /\ Goto(p, "send")
               /\ UNCHANGED newRev
      <3>1. Reserving' = Reserving \ {p}
        BY <2>1, <2>3 DEF Goto, Reserving
      <3>2. AbsPending' = AbsPending \ {newRev[p]}
        BY <2>2, <2>3, <3>1, PendingRemove DEF RefInv
      <3>3. AbsStore[opKey[p]] # 0
        BY <2>1, <2>3 DEF RefInv, KvsRevsIssued, AbsStore
      <3>4. AbsStore' = [AbsStore EXCEPT ![opKey[p]] = 0]
        BY <2>1, <2>3 DEF AbsStore
      <3>5. QED
        BY <2>1, <2>2, <3>2, <3>3, <3>4, AbsRemove
    <2>4. CASE kvs[opKey[p]] = Nil /\ Return(p) /\ UNCHANGED kvs
      <3>1. Reserving' = Reserving \ {p}
        BY <2>1, <2>4 DEF Return, Reserving
      <3>2. \A q \in Reserving' : newRev'[q] = newRev[q]
        BY <2>4, <3>1 DEF Return, Reserving
      <3>3. AbsPending' = AbsPending \ {newRev[p]}
        BY <2>2, <3>1, <3>2, PendingRemove DEF RefInv
      <3>4. QED
        BY <2>1, <2>2, <2>4, <3>3, AbsAbandon DEF AbsStore
    <2>5. QED
      BY <1>9, <2>3, <2>4 DEF DeleteDel
  <1>10. ASSUME NEW p \in Procs, SendEvent(p) PROVE UNCHANGED Atomic!vars
    <2>1. Reserving' = Reserving /\ \A q \in Reserving : newRev'[q] = newRev[q]
      BY <1>10 DEF SendEvent, Return, Reserving
    <2>2. QED
      BY <1>10, <2>1, PendingSame, AbsStutter DEF SendEvent, AbsStore
  <1>11. CASE (\E w \in Watchers : Watch(w)) \/ Done \/ UNCHANGED vars
    <2>1. Reserving' = Reserving /\ UNCHANGED <<memRev, kvs, newRev>>
      BY <1>11 DEF Watch, Done, vars, clientVars, Reserving
    <2>2. QED
      BY <2>1, PendingSame, AbsStutter DEF AbsStore
  <1>12. QED
    BY <1>1, <1>2, <1>3, <1>4, <1>5, <1>6, <1>7, <1>8, <1>9, <1>10, <1>11
       DEF Next

(***************************************************************************)
(* When no two clients share a key, every step of the store, however the  *)
(* steps of concurrent calls interleave, is an atomic AtomicStore step or *)
(* a stutter (the property ImplementsAtomicStore the disjoint run checks):*)
(* each committed revision was handed out and is committed once, one key *)
(* changes at a time, and a key's object is only replaced by a newer one. *)
(* Run keyrev shows why Disjoint is needed: CreateOrReplace reserves      *)
(* before it reads and can replace a newer object on a shared key.        *)
(***************************************************************************)
THEOREM StepsRefineAtomicStore ==
  ASSUME Disjoint PROVE Spec => ImplementsAtomicStore
  <1> DEFINE Inv == TypeInv /\ RefInv
  <1>1. Init => Inv
    BY InitTypeInv, InitRefInv
  <1>2. Inv /\ [Next]_vars => Inv'
    BY NextTypeInv, NextRefInv
  <1>3. Inv /\ [Next]_vars => [Atomic!Next]_Atomic!vars
    BY NextRefines
  <1>4. QED
    BY <1>1, <1>2, <1>3, PTL DEF Spec, ImplementsAtomicStore

(***************************************************************************)
(* The store implements AtomicStore when no two clients share a key.       *)
(***************************************************************************)
THEOREM AtomicRefinement == ASSUME Disjoint PROVE Spec => Atomic!Spec
  <1>1. Init => Atomic!Init
    BY InitRefines
  <1>2. Spec => ImplementsAtomicStore
    BY StepsRefineAtomicStore
  <1>3. QED
    BY <1>1, <1>2, PTL DEF Spec, ImplementsAtomicStore, Atomic!Spec

====
