--------------------------- MODULE MemStoreProofs ---------------------------
(***************************************************************************)
(* Proofs about the write path of MemStore, for every value of the         *)
(* constants: the type invariant, and that kvList stays ordered by         *)
(* revision however the steps of the clients interleave.                   *)
(***************************************************************************)
EXTENDS MemStore, SequenceTheorems, TLAPS

\* Clients holding a reserved slot they have not written yet.
Reserved(p) == pc[p] \in {"get", "put", "index"}

(***************************************************************************)
(* What a client's locals hold at each point of its call.                  *)
(***************************************************************************)
LocalsOK ==
    \A p \in Procs :
      /\ pc[p] # "idle" => opKey[p] \in Keys /\ op[p] \in Ops
      /\ Reserved(p) => /\ newIndex[p] \in 1..Len(kvList)
                        /\ newRev[p] \in Rev
      /\ pc[p] \in {"index", "send"} /\ op[p] # "Delete" => newRev[p] \in Rev
      /\ pc[p] = "index" => newIndex[p] \in 1..Len(kvList)
      /\ pc[p] \in {"del", "send"} /\ op[p] = "Delete" => newRev[p] \in Rev
      /\ pc[p] \in {"check", "del"} => op[p] = "Delete" /\ curObj[p] # Nil
      /\ curObj[p] # Nil => curObj[p].index \in 1..Len(kvList)

\* The slots the key tree points to lie inside kvList.
SlotRefsOK ==
    \A k \in Keys : kvs[k] # Nil => kvs[k].index \in 1..Len(kvList)

\* The inductive form of TypeOK.
TypeInv == TypeOK /\ LocalsOK /\ SlotRefsOK

(***************************************************************************)
(* The strengthening of RevListSorted: a reservation is a slot still to be *)
(* written, at a position and with a revision that the lock gave out      *)
(* together.  Reservations and written slots lie below memRev and         *)
(* Len(kvList), a reserved position is still nil and owned by one client, *)
(* and positions and revisions of slots and reservations increase         *)
(* together.                                                               *)
(***************************************************************************)
SlotsBelow ==
    \A i \in DOMAIN kvList :
      kvList[i] # Nil => kvList[i].index = i /\ kvList[i].rev <= memRev

ReservationsBelow ==
    \A p \in Procs : Reserved(p) =>
      /\ newRev[p] <= memRev
      /\ kvList[newIndex[p]] = Nil
      /\ \A q \in Procs : q # p /\ Reserved(q) => newIndex[q] # newIndex[p]

SlotReservationOrder ==
    \A p \in Procs, i \in DOMAIN kvList :
      Reserved(p) /\ kvList[i] # Nil =>
        /\ i < newIndex[p] => kvList[i].rev < newRev[p]
        /\ newIndex[p] < i => newRev[p] < kvList[i].rev

ReservationOrder ==
    \A p, q \in Procs :
      Reserved(p) /\ Reserved(q) /\ newIndex[p] < newIndex[q]
        => newRev[p] < newRev[q]


-----------------------------------------------------------------------------
USE KeysOfAssumption, RevAssumption, NilAssumption

LEMMA InitTypeInv == Init => TypeInv
  <1> SUFFICES ASSUME Init PROVE TypeInv
    OBVIOUS
  <1>1. TypeOK
    <2>1. memRev \in Rev /\ kvs \in [Keys -> Slot \cup {Nil}]
      BY DEF Init, Rev
    <2>2. kvList \in Seq(Slot \cup {Nil}) /\ recv \in [Watchers -> Seq(Event)]
      BY DEF Init
    <2>3. pc \in [Procs -> Pcs] /\ op \in [Procs -> Ops \cup {Nil}]
      BY DEF Init, Pcs
    <2>4. opKey \in [Procs -> Keys \cup {Nil}] /\ curObj \in [Procs -> Slot \cup {Nil}]
      BY DEF Init
    <2>5. newRev \in [Procs -> Rev \cup {0}] /\ newIndex \in [Procs -> Nat]
      BY DEF Init
    <2>6. QED
      BY <2>1, <2>2, <2>3, <2>4, <2>5 DEF Init, TypeOK
  <1>2. LocalsOK
    BY DEF Init, LocalsOK, Reserved
  <1>3. SlotRefsOK
    BY DEF Init, SlotRefsOK
  <1>4. QED
    BY <1>1, <1>2, <1>3 DEF TypeInv

(***************************************************************************)
(* One step per action; under each, the conjuncts of TypeInv it can        *)
(* disturb.                                                                *)
(***************************************************************************)
LEMMA NextTypeInv == TypeInv /\ [Next]_vars => TypeInv'
  <1> SUFFICES ASSUME TypeInv, [Next]_vars PROVE TypeInv'
    OBVIOUS
  <1> USE DEF TypeInv, TypeOK, Rev, Pcs
  <1>1. ASSUME NEW p \in Procs, NEW k \in KeysOf[p],
               NEW o \in Ops \ {"CreateOrReplace"}, BeginGet(p, o, k)
        PROVE TypeInv'
    <2>1. PICK next \in AfterGet(o, kvs[k]) :
               IF next = "idle"
               THEN UNCHANGED clientVars
               ELSE /\ Goto(p, next)
                    /\ op' = [op EXCEPT ![p] = o]
                    /\ opKey' = [opKey EXCEPT ![p] = k]
                    /\ curObj' = [curObj EXCEPT ![p] = kvs[k]]
                    /\ UNCHANGED <<newRev, newIndex>>
      BY <1>1 DEF BeginGet
    <2>2. /\ next \in {"idle", "reserve", "check"}
          /\ next = "check" => o = "Delete" /\ kvs[k] # Nil
      BY <1>1 DEF AfterGet, CreateAfterGet, DeleteAfterGet, UpdateAfterGet,
             MergeAfterGet, Ops
    <2>3. k \in Keys
      BY <1>1
    <2>4. UNCHANGED <<memRev, kvs, kvList, watchers, recv, events>>
      BY <1>1 DEF BeginGet
    <2>5. CASE next = "idle"
      BY <2>1, <2>4, <2>5 DEF clientVars, LocalsOK, Reserved, SlotRefsOK
    <2>6. CASE next # "idle"
      <3>1. /\ pc' = [pc EXCEPT ![p] = next]
            /\ op' = [op EXCEPT ![p] = o]
            /\ opKey' = [opKey EXCEPT ![p] = k]
            /\ curObj' = [curObj EXCEPT ![p] = kvs[k]]
            /\ UNCHANGED <<newRev, newIndex>>
        BY <2>1, <2>6 DEF Goto
      <3>2. TypeOK'
        BY <3>1, <2>2, <2>3, <2>4
      <3>3. LocalsOK'
        <4> SUFFICES ASSUME NEW q \in Procs PROVE LocalsOK!(q)'
          BY DEF LocalsOK
        <4>1. CASE q = p
          BY <3>1, <2>2, <2>3, <2>4, <2>6, <4>1 DEF Ops, Reserved, SlotRefsOK
        <4>2. CASE q # p
          BY <3>1, <2>4, <4>1 DEF LocalsOK, Reserved
        <4>3. QED
          BY <4>1, <4>2
      <3>4. SlotRefsOK'
        BY <2>4 DEF SlotRefsOK
      <3>5. QED
        BY <3>2, <3>3, <3>4
    <2>7. QED
      BY <2>5, <2>6
  <1>2. ASSUME NEW p \in Procs, NEW k \in KeysOf[p], BeginCreateOrReplace(p, k)
        PROVE TypeInv'
    BY <1>2 DEF BeginCreateOrReplace, Goto, Ops, LocalsOK, Reserved, SlotRefsOK
  <1>3. ASSUME NEW p \in Procs, ReserveRevAndSlot(p) PROVE TypeInv'
    <2>1. Len(kvList') = Len(kvList) + 1
      BY <1>3 DEF ReserveRevAndSlot
    <2>2. TypeOK'
      BY <1>3 DEF ReserveRevAndSlot, Goto
    <2>3. LocalsOK'
      <3>1. memRev + 1 \in Rev
        BY <1>3 DEF ReserveRevAndSlot
      <3>2. SUFFICES ASSUME NEW q \in Procs PROVE LocalsOK!(q)'
        BY DEF LocalsOK
      <3>3. CASE q = p
        BY <1>3, <2>1, <3>1, <3>3 DEF ReserveRevAndSlot, Goto, LocalsOK, Reserved
      <3>4. CASE q # p
        BY <1>3, <2>1, <3>4 DEF ReserveRevAndSlot, Goto, LocalsOK, Reserved
      <3>5. QED
        BY <3>3, <3>4
    <2>4. SlotRefsOK'
      BY <1>3, <2>1 DEF ReserveRevAndSlot, SlotRefsOK
    <2>5. QED
      BY <2>2, <2>3, <2>4
  <1>4. ASSUME NEW p \in Procs, ReplaceGet(p) PROVE TypeInv'
    BY <1>4 DEF ReplaceGet, Goto, LocalsOK, Reserved, SlotRefsOK
  <1>5. ASSUME NEW p \in Procs, Put(p) PROVE TypeInv'
    <2>1. NewSlot(p) \in Slot /\ NewSlot(p).index \in 1..Len(kvList)
      BY <1>5 DEF Put, NewSlot, Slot, LocalsOK, Reserved
    <2>2. TypeOK'
      BY <1>5, <2>1 DEF Put, Goto, LocalsOK
    <2>3. LocalsOK'
      BY <1>5 DEF Put, Goto, LocalsOK, Reserved
    <2>4. SlotRefsOK'
      BY <1>5, <2>1 DEF Put, SlotRefsOK, LocalsOK
    <2>5. QED
      BY <2>2, <2>3, <2>4
  <1>6. ASSUME NEW p \in Procs, PutConflict(p) PROVE TypeInv'
    BY <1>6 DEF PutConflict, Return, LocalsOK, Reserved, SlotRefsOK
  <1>7. ASSUME NEW p \in Procs, WriteSlots(p) PROVE TypeInv'
    <2>1. NewSlot(p) \in Slot /\ newIndex[p] \in 1..Len(kvList)
      BY <1>7 DEF WriteSlots, NewSlot, Slot, LocalsOK, Reserved
    <2>2. DEFINE cleared == [i \in DOMAIN kvList |->
                               IF curObj[p] # Nil /\ i = curObj[p].index
                               THEN Nil ELSE kvList[i]]
    <2>3. cleared \in Seq(Slot \cup {Nil}) /\ Len(cleared) = Len(kvList)
      <3>1. cleared = [i \in 1..Len(kvList) |->
                         IF curObj[p] # Nil /\ i = curObj[p].index
                         THEN Nil ELSE kvList[i]]
        OBVIOUS
      <3>2. QED
        BY <3>1
    <2>4. kvList' = [cleared EXCEPT ![newIndex[p]] = NewSlot(p)]
      BY <1>7 DEF WriteSlots
    <2>5. kvList' \in Seq(Slot \cup {Nil}) /\ Len(kvList') = Len(kvList)
      BY <2>1, <2>3, <2>4, ExceptSeq
    <2>6. TypeOK'
      BY <1>7, <2>5 DEF WriteSlots, Goto
    <2>7. LocalsOK'
      BY <1>7, <2>5 DEF WriteSlots, Goto, LocalsOK, Reserved
    <2>8. SlotRefsOK'
      BY <1>7, <2>5 DEF WriteSlots, SlotRefsOK
    <2>9. QED
      BY <2>6, <2>7, <2>8
  <1>8. ASSUME NEW p \in Procs, DeleteCheck(p) PROVE TypeInv'
    <2>1. UNCHANGED <<kvs, kvList, watchers, recv, events>>
      BY <1>8 DEF DeleteCheck
    <2>2. op[p] = "Delete" /\ curObj[p] # Nil
      BY <1>8 DEF DeleteCheck, LocalsOK
    <2>3. CASE /\ memRev < MaxRev
               /\ memRev' = memRev + 1
               /\ newRev' = [newRev EXCEPT ![p] = memRev + 1]
               /\ Goto(p, "del")
               /\ UNCHANGED <<op, opKey, curObj, newIndex>>
      <3>1. memRev + 1 \in Rev
        BY <2>3
      <3>2. TypeOK'
        BY <2>1, <2>3, <3>1 DEF Goto
      <3>3. LocalsOK'
        BY <1>8, <2>1, <2>2, <2>3, <3>1 DEF Goto, DeleteCheck, LocalsOK, Reserved
      <3>4. SlotRefsOK'
        BY <2>1 DEF SlotRefsOK
      <3>5. QED
        BY <3>2, <3>3, <3>4
    <2>4. CASE Return(p) /\ UNCHANGED memRev
      BY <2>1, <2>4 DEF Return, LocalsOK, Reserved, SlotRefsOK
    <2>5. QED
      BY <1>8, <2>3, <2>4 DEF DeleteCheck
  <1>9. ASSUME NEW p \in Procs, DeleteDel(p) PROVE TypeInv'
    <2>1. UNCHANGED <<memRev, watchers, recv, events>>
      BY <1>9 DEF DeleteDel
    <2>2. CASE /\ kvs[opKey[p]] # Nil
               /\ kvs' = [kvs EXCEPT ![opKey[p]] = Nil]
               /\ kvList' = [kvList EXCEPT ![curObj[p].index] = Nil]
               /\ Goto(p, "send")
               /\ UNCHANGED <<op, opKey, curObj, newRev, newIndex>>
      <3>1. curObj[p].index \in 1..Len(kvList) /\ opKey[p] \in Keys
        BY <1>9 DEF DeleteDel, LocalsOK
      <3>2. kvList' \in Seq(Slot \cup {Nil}) /\ Len(kvList') = Len(kvList)
        BY <2>2, <3>1, ExceptSeq
      <3>3. TypeOK'
        BY <2>1, <2>2, <3>1, <3>2 DEF Goto
      <3>4. LocalsOK'
        BY <1>9, <2>2, <3>2 DEF Goto, DeleteDel, LocalsOK, Reserved
      <3>5. SlotRefsOK'
        BY <2>2, <3>1, <3>2 DEF SlotRefsOK
      <3>6. QED
        BY <3>3, <3>4, <3>5
    <2>3. CASE kvs[opKey[p]] = Nil /\ Return(p) /\ UNCHANGED <<kvs, kvList>>
      BY <2>1, <2>3 DEF Return, LocalsOK, Reserved, SlotRefsOK
    <2>4. QED
      BY <1>9, <2>2, <2>3 DEF DeleteDel
  <1>10. ASSUME NEW p \in Procs, SendEvent(p) PROVE TypeInv'
    <2>1. EventOf(p) \in Event
      <3>1. opKey[p] \in Keys /\ newRev[p] \in Rev
        BY <1>10 DEF SendEvent, LocalsOK
      <3>2. ExpectedRv(p) \in Rev \cup {0}
        BY DEF ExpectedRv, Slot
      <3>3. QED
        BY <3>1, <3>2 DEF EventOf, Event, EventKind
    <2>2. TypeOK'
      BY <1>10, <2>1 DEF SendEvent, Return
    <2>3. LocalsOK'
      BY <1>10 DEF SendEvent, Return, LocalsOK, Reserved
    <2>4. SlotRefsOK'
      BY <1>10 DEF SendEvent, SlotRefsOK
    <2>5. QED
      BY <2>2, <2>3, <2>4
  <1>11. ASSUME NEW w \in Watchers, Watch(w) PROVE TypeInv'
    BY <1>11 DEF Watch, clientVars, LocalsOK, Reserved, SlotRefsOK
  <1>12. CASE Done
    BY <1>12 DEF Done, vars, clientVars, LocalsOK, Reserved, SlotRefsOK
  <1>13. CASE UNCHANGED vars
    BY <1>13 DEF vars, clientVars, LocalsOK, Reserved, SlotRefsOK
  <1>14. QED
    BY <1>1, <1>2, <1>3, <1>4, <1>5, <1>6, <1>7, <1>8, <1>9, <1>10, <1>11,
       <1>12, <1>13 DEF Next

(***************************************************************************)
(* Type correctness: every variable of the store and of its clients keeps  *)
(* its type in every reachable state, whatever the interleaving.           *)
(***************************************************************************)
THEOREM TypeCorrect == Spec => []TypeOK
  <1>1. Init => TypeInv
    BY InitTypeInv
  <1>2. TypeInv /\ [Next]_vars => TypeInv'
    BY NextTypeInv
  <1>3. TypeInv => TypeOK
    BY DEF TypeInv
  <1>4. QED
    BY <1>1, <1>2, <1>3, PTL DEF Spec


(***************************************************************************)
(* The order conjuncts of IInv.                                            *)
(***************************************************************************)
OrderInv ==
    /\ RevListSorted
    /\ SlotsBelow
    /\ ReservationsBelow
    /\ SlotReservationOrder
    /\ ReservationOrder

(***************************************************************************)
(* A step that only clears slots, keeps or drops reservations and does     *)
(* not decrease memRev keeps the order conjuncts.                          *)
(***************************************************************************)
LEMMA ClearingStepKeepsOrder ==
  ASSUME TypeInv, OrderInv, TypeInv',
         Len(kvList') = Len(kvList),
         \A i \in 1..Len(kvList) : kvList'[i] \in {kvList[i], Nil},
         memRev <= memRev',
         \A q \in Procs : Reserved(q)' =>
            Reserved(q) /\ newRev'[q] = newRev[q] /\ newIndex'[q] = newIndex[q]
  PROVE  OrderInv'
  <1> USE DEF TypeInv, TypeOK, Rev
  <1>0. ASSUME NEW i \in DOMAIN kvList', kvList'[i] # Nil
        PROVE  i \in DOMAIN kvList /\ kvList'[i] = kvList[i]
    <2>1. DOMAIN kvList' = 1..Len(kvList) /\ DOMAIN kvList = 1..Len(kvList)
      OBVIOUS
    <2>2. i \in 1..Len(kvList)
      BY <2>1
    <2>3. kvList'[i] \in {kvList[i], Nil}
      BY <2>2
    <2>4. QED
      BY <1>0, <2>1, <2>2, <2>3
  <1>1. RevListSorted'
    <2>1. ASSUME NEW i \in DOMAIN kvList', kvList'[i] # Nil
          PROVE  kvList'[i].index = i
      BY <1>0, <2>1 DEF OrderInv, RevListSorted
    <2>2. ASSUME NEW i \in DOMAIN kvList', NEW j \in DOMAIN kvList',
                 i < j, kvList'[i] # Nil, kvList'[j] # Nil
          PROVE  kvList'[i].rev < kvList'[j].rev
      BY <1>0, <2>2 DEF OrderInv, RevListSorted
    <2>3. QED
      BY <2>1, <2>2 DEF RevListSorted
  <1>2. SlotsBelow'
    <2>1. ASSUME NEW i \in DOMAIN kvList', kvList'[i] # Nil
          PROVE  kvList'[i].index = i /\ kvList'[i].rev <= memRev'
      <3>1. kvList[i].index = i /\ kvList[i].rev <= memRev
        BY <1>0, <2>1 DEF OrderInv, SlotsBelow
      <3>2. kvList[i].rev \in Nat
        BY <1>0, <2>1 DEF Slot
      <3>3. QED
        BY <1>0, <2>1, <3>1, <3>2
    <2>2. QED
      BY <2>1 DEF SlotsBelow
  <1>3. ReservationsBelow'
    BY DEF OrderInv, ReservationsBelow, LocalsOK
  <1>4. SlotReservationOrder'
    <2>1. ASSUME NEW q \in Procs, NEW i \in DOMAIN kvList',
                 Reserved(q)', kvList'[i] # Nil
          PROVE  /\ i < newIndex'[q] => kvList'[i].rev < newRev'[q]
                 /\ newIndex'[q] < i => newRev'[q] < kvList'[i].rev
      BY <1>0, <2>1 DEF OrderInv, SlotReservationOrder
    <2>2. QED
      BY <2>1 DEF SlotReservationOrder
  <1>5. ReservationOrder'
    BY DEF OrderInv, ReservationOrder
  <1>6. QED
    BY <1>1, <1>2, <1>3, <1>4, <1>5 DEF OrderInv

(***************************************************************************)
(* reserveRevAndSlot: the new reservation lies past every slot and every   *)
(* other reservation, in position and in revision, because both come      *)
(* from the same critical section.                                         *)
(***************************************************************************)
LEMMA ReserveKeepsOrder ==
  ASSUME TypeInv, OrderInv, TypeInv', NEW p \in Procs, ReserveRevAndSlot(p)
  PROVE  OrderInv'
  <1> USE DEF TypeInv, TypeOK, Rev
  <1>1. /\ kvList' = Append(kvList, Nil)
        /\ memRev' = memRev + 1
        /\ newRev' = [newRev EXCEPT ![p] = memRev + 1]
        /\ newIndex' = [newIndex EXCEPT ![p] = Len(kvList) + 1]
        /\ pc[p] = "reserve"
        /\ pc'[p] \in {"get", "put"}
        /\ \A q \in Procs : q # p => pc'[q] = pc[q]
    BY DEF ReserveRevAndSlot, Goto
  <1>2. /\ Len(kvList') = Len(kvList) + 1
        /\ DOMAIN kvList' = 1..Len(kvList) + 1
        /\ \A i \in 1..Len(kvList) : kvList'[i] = kvList[i]
        /\ kvList'[Len(kvList) + 1] = Nil
    BY <1>1
  <1>3. ASSUME NEW q \in Procs, Reserved(q)', q # p
        PROVE  /\ Reserved(q)
               /\ newRev'[q] = newRev[q] /\ newIndex'[q] = newIndex[q]
               /\ newIndex[q] \in 1..Len(kvList) /\ newRev[q] <= memRev
               /\ newRev[q] \in Nat
    BY <1>1, <1>3 DEF Reserved, LocalsOK, OrderInv, ReservationsBelow
  <1>4. Reserved(p)' /\ newRev'[p] = memRev + 1
        /\ newIndex'[p] = Len(kvList) + 1
    BY <1>1 DEF Reserved
  <1>5. ASSUME NEW i \in DOMAIN kvList', kvList'[i] # Nil
        PROVE  /\ i \in 1..Len(kvList) /\ kvList'[i] = kvList[i]
               /\ kvList[i].index = i /\ kvList[i].rev <= memRev
               /\ kvList[i].rev \in Nat
    BY <1>2, <1>5 DEF OrderInv, SlotsBelow, Slot
  <1>6. RevListSorted'
    <2>1. ASSUME NEW i \in DOMAIN kvList', kvList'[i] # Nil
          PROVE  kvList'[i].index = i
      BY <1>5, <2>1
    <2>2. ASSUME NEW i \in DOMAIN kvList', NEW j \in DOMAIN kvList',
                 i < j, kvList'[i] # Nil, kvList'[j] # Nil
          PROVE  kvList'[i].rev < kvList'[j].rev
      <3>1. i \in 1..Len(kvList) /\ kvList'[i] = kvList[i]
        BY <1>5, <2>2
      <3>2. j \in 1..Len(kvList) /\ kvList'[j] = kvList[j]
        BY <1>5, <2>2
      <3>3. QED
        BY <2>2, <3>1, <3>2 DEF OrderInv, RevListSorted
    <2>3. QED
      BY <2>1, <2>2 DEF RevListSorted
  <1>7. SlotsBelow'
    <2>1. ASSUME NEW i \in DOMAIN kvList', kvList'[i] # Nil
          PROVE  kvList'[i].index = i /\ kvList'[i].rev <= memRev'
      <3>1. i \in 1..Len(kvList) /\ kvList'[i] = kvList[i]
            /\ kvList[i].index = i /\ kvList[i].rev <= memRev
            /\ kvList[i].rev \in Nat
        BY <1>5, <2>1
      <3>2. QED
        BY <1>1, <3>1
    <2>2. QED
      BY <2>1 DEF SlotsBelow
  <1>8. ReservationsBelow'
    <2> SUFFICES ASSUME NEW q \in Procs, Reserved(q)'
                 PROVE  /\ newRev'[q] <= memRev'
                        /\ kvList'[newIndex'[q]] = Nil
                        /\ \A r \in Procs : r # q /\ Reserved(r)'
                              => newIndex'[r] # newIndex'[q]
      BY DEF ReservationsBelow
    <2>1. CASE q = p
      BY <1>1, <1>2, <1>3, <1>4, <2>1
    <2>2. CASE q # p
      <3>1. kvList[newIndex[q]] = Nil
        BY <1>3, <2>2 DEF OrderInv, ReservationsBelow
      <3>2. \A r \in Procs : r # q /\ r # p /\ Reserved(r)'
              => newIndex'[r] # newIndex'[q]
        BY <1>3, <2>2 DEF OrderInv, ReservationsBelow
      <3>3. QED
        BY <1>1, <1>2, <1>3, <1>4, <2>2, <3>1, <3>2
    <2>3. QED
      BY <2>1, <2>2
  <1>9. SlotReservationOrder'
    <2> SUFFICES ASSUME NEW q \in Procs, NEW i \in DOMAIN kvList',
                        Reserved(q)', kvList'[i] # Nil
                 PROVE  /\ i < newIndex'[q] => kvList'[i].rev < newRev'[q]
                        /\ newIndex'[q] < i => newRev'[q] < kvList'[i].rev
      BY DEF SlotReservationOrder
    <2>0. /\ i \in 1..Len(kvList) /\ kvList'[i] = kvList[i]
          /\ kvList[i].rev <= memRev /\ kvList[i].rev \in Nat
      BY <1>5
    <2>1. CASE q = p
      BY <1>4, <2>0, <2>1
    <2>2. CASE q # p
      <3>1. Reserved(q) /\ newRev'[q] = newRev[q] /\ newIndex'[q] = newIndex[q]
        BY <1>3, <2>2
      <3>2. QED
        BY <2>0, <3>1 DEF OrderInv, SlotReservationOrder
    <2>3. QED
      BY <2>1, <2>2
  <1>10. ReservationOrder'
    <2> SUFFICES ASSUME NEW q \in Procs, NEW r \in Procs,
                        Reserved(q)', Reserved(r)', newIndex'[q] < newIndex'[r]
                 PROVE  newRev'[q] < newRev'[r]
      BY DEF ReservationOrder
    <2>1. CASE q # p /\ r # p
      BY <1>3, <2>1 DEF OrderInv, ReservationOrder
    <2>2. CASE q = p /\ r # p
      BY <1>3, <1>4, <2>2
    <2>3. CASE r = p /\ q # p
      <3>1. newRev'[q] = newRev[q] /\ newRev[q] <= memRev /\ newRev[q] \in Nat
        BY <1>3, <2>3
      <3>2. newRev'[r] = memRev + 1
        BY <1>4, <2>3
      <3>3. QED
        BY <3>1, <3>2
    <2>4. CASE q = p /\ r = p
      BY <2>4
    <2>5. QED
      BY <2>1, <2>2, <2>3, <2>4
  <1>11. QED
    BY <1>6, <1>7, <1>8, <1>9, <1>10 DEF OrderInv

(***************************************************************************)
(* The late kvList write of a call puts its slot exactly where, and with   *)
(* the revision, its reservation promised; clearing the slot it replaced   *)
(* only removes a slot.                                                    *)
(***************************************************************************)
LEMMA WriteKeepsOrder ==
  ASSUME TypeInv, OrderInv, TypeInv', NEW p \in Procs, WriteSlots(p)
  PROVE  OrderInv'
  <1> USE DEF TypeInv, TypeOK, Rev
  <1> DEFINE n == newIndex[p]
  <1>1. /\ pc[p] = "index" /\ pc'[p] = "send"
        /\ \A q \in Procs : q # p => pc'[q] = pc[q]
        /\ UNCHANGED <<memRev, newRev, newIndex>>
    BY DEF WriteSlots, Goto
  <1>2. /\ Reserved(p) /\ ~Reserved(p)'
        /\ n \in 1..Len(kvList) /\ newRev[p] \in Nat /\ newRev[p] <= memRev
        /\ kvList[n] = Nil
    BY <1>1 DEF Reserved, LocalsOK, OrderInv, ReservationsBelow
  <1>3. /\ Len(kvList') = Len(kvList)
        /\ DOMAIN kvList' = 1..Len(kvList)
        /\ kvList'[n] = NewSlot(p)
        /\ \A i \in 1..Len(kvList) : i # n => kvList'[i] \in {kvList[i], Nil}
    <2>1. DEFINE cleared == [i \in DOMAIN kvList |->
                               IF curObj[p] # Nil /\ i = curObj[p].index
                               THEN Nil ELSE kvList[i]]
    <2>2. kvList' = [cleared EXCEPT ![n] = NewSlot(p)]
      BY DEF WriteSlots
    <2>3. DOMAIN cleared = 1..Len(kvList)
      OBVIOUS
    <2>4. QED
      BY <1>2, <2>2, <2>3
  <1>4. NewSlot(p).index = n /\ NewSlot(p).rev = newRev[p] /\ NewSlot(p) # Nil
    <2>1. NewSlot(p) \in Slot
      BY <1>1, <1>2 DEF NewSlot, Slot, LocalsOK, Reserved
    <2>2. QED
      BY <2>1 DEF NewSlot
  <1>5. ASSUME NEW q \in Procs, Reserved(q)'
        PROVE  q # p /\ Reserved(q) /\ newIndex[q] # n
               /\ newIndex[q] \in 1..Len(kvList) /\ newRev[q] \in Nat
    BY <1>1, <1>2, <1>5 DEF Reserved, LocalsOK, OrderInv, ReservationsBelow
  <1>6. ASSUME NEW i \in DOMAIN kvList', kvList'[i] # Nil, i # n
        PROVE  /\ i \in 1..Len(kvList) /\ kvList'[i] = kvList[i]
               /\ kvList[i].index = i /\ kvList[i].rev <= memRev
               /\ kvList[i].rev \in Nat
               /\ i < n => kvList[i].rev < newRev[p]
               /\ n < i => newRev[p] < kvList[i].rev
    <2>1. i \in 1..Len(kvList) /\ kvList'[i] = kvList[i]
      BY <1>3, <1>6
    <2>2. kvList[i] # Nil /\ kvList[i] \in Slot
      BY <1>6, <2>1
    <2>3. kvList[i].index = i /\ kvList[i].rev <= memRev /\ kvList[i].rev \in Nat
      BY <2>1, <2>2 DEF OrderInv, SlotsBelow, Slot
    <2>4. /\ i < n => kvList[i].rev < newRev[p]
          /\ n < i => newRev[p] < kvList[i].rev
      BY <1>2, <2>1, <2>2 DEF OrderInv, SlotReservationOrder
    <2>5. QED
      BY <2>1, <2>3, <2>4
  <1>7. RevListSorted'
    <2>1. ASSUME NEW i \in DOMAIN kvList', kvList'[i] # Nil
          PROVE  kvList'[i].index = i
      <3>1. CASE i = n
        BY <1>3, <1>4, <3>1
      <3>2. CASE i # n
        BY <1>6, <2>1, <3>2
      <3>3. QED
        BY <3>1, <3>2
    <2>2. ASSUME NEW i \in DOMAIN kvList', NEW j \in DOMAIN kvList',
                 i < j, kvList'[i] # Nil, kvList'[j] # Nil
          PROVE  kvList'[i].rev < kvList'[j].rev
      <3>1. CASE i = n
        <4>1. j # n /\ n < j
          BY <2>2, <3>1
        <4>2. kvList'[j] = kvList[j] /\ newRev[p] < kvList[j].rev
          BY <1>6, <2>2, <4>1
        <4>3. QED
          BY <1>3, <1>4, <3>1, <4>2
      <3>2. CASE j = n
        <4>1. i # n /\ i < n
          BY <2>2, <3>2
        <4>2. kvList'[i] = kvList[i] /\ kvList[i].rev < newRev[p]
          BY <1>6, <2>2, <4>1
        <4>3. QED
          BY <1>3, <1>4, <3>2, <4>2
      <3>3. CASE i # n /\ j # n
        <4>1. kvList'[i] = kvList[i] /\ kvList'[j] = kvList[j]
              /\ i \in DOMAIN kvList /\ j \in DOMAIN kvList
          BY <1>6, <2>2, <3>3
        <4>2. QED
          BY <2>2, <4>1 DEF OrderInv, RevListSorted
      <3>4. QED
        BY <3>1, <3>2, <3>3
    <2>3. QED
      BY <2>1, <2>2 DEF RevListSorted
  <1>8. SlotsBelow'
    <2>1. ASSUME NEW i \in DOMAIN kvList', kvList'[i] # Nil
          PROVE  kvList'[i].index = i /\ kvList'[i].rev <= memRev'
      <3>1. CASE i = n
        BY <1>1, <1>2, <1>3, <1>4, <3>1
      <3>2. CASE i # n
        BY <1>1, <1>6, <2>1, <3>2
      <3>3. QED
        BY <3>1, <3>2
    <2>2. QED
      BY <2>1 DEF SlotsBelow
  <1>9. ReservationsBelow'
    <2> SUFFICES ASSUME NEW q \in Procs, Reserved(q)'
                 PROVE  /\ newRev'[q] <= memRev'
                        /\ kvList'[newIndex'[q]] = Nil
                        /\ \A r \in Procs : r # q /\ Reserved(r)'
                              => newIndex'[r] # newIndex'[q]
      BY DEF ReservationsBelow
    <2>1. q # p /\ Reserved(q) /\ newIndex[q] # n /\ newIndex[q] \in 1..Len(kvList)
      BY <1>5
    <2>2. kvList[newIndex[q]] = Nil /\ newRev[q] <= memRev
      BY <2>1 DEF OrderInv, ReservationsBelow
    <2>3. kvList'[newIndex[q]] = Nil
      BY <1>3, <2>1, <2>2
    <2>4. \A r \in Procs : r # q /\ Reserved(r)' => newIndex[r] # newIndex[q]
      BY <1>5, <2>1 DEF OrderInv, ReservationsBelow
    <2>5. QED
      BY <1>1, <2>2, <2>3, <2>4
  <1>10. SlotReservationOrder'
    <2> SUFFICES ASSUME NEW q \in Procs, NEW i \in DOMAIN kvList',
                        Reserved(q)', kvList'[i] # Nil
                 PROVE  /\ i < newIndex'[q] => kvList'[i].rev < newRev'[q]
                        /\ newIndex'[q] < i => newRev'[q] < kvList'[i].rev
      BY DEF SlotReservationOrder
    <2>1. q # p /\ Reserved(q) /\ newIndex[q] # n /\ newRev[q] \in Nat
      BY <1>5
    <2>2. CASE i = n
      <3>1. n < newIndex[q] => newRev[p] < newRev[q]
        BY <1>2, <2>1 DEF OrderInv, ReservationOrder
      <3>2. newIndex[q] < n => newRev[q] < newRev[p]
        BY <1>2, <2>1 DEF OrderInv, ReservationOrder
      <3>3. QED
        BY <1>1, <1>3, <1>4, <2>2, <3>1, <3>2
    <2>3. CASE i # n
      <3>1. i \in DOMAIN kvList /\ kvList'[i] = kvList[i] /\ kvList[i] # Nil
        BY <1>6, <2>3
      <3>2. QED
        BY <1>1, <2>1, <3>1 DEF OrderInv, SlotReservationOrder
    <2>4. QED
      BY <2>2, <2>3
  <1>11. ReservationOrder'
    BY <1>1, <1>5 DEF OrderInv, ReservationOrder
  <1>12. QED
    BY <1>7, <1>8, <1>9, <1>10, <1>11 DEF OrderInv

IInv == TypeInv /\ OrderInv


LEMMA NextOrderInv == IInv /\ [Next]_vars => OrderInv'
  <1> SUFFICES ASSUME IInv, [Next]_vars PROVE OrderInv'
    OBVIOUS
  <1>0. TypeInv /\ OrderInv /\ TypeInv'
    BY NextTypeInv DEF IInv
  <1> USE DEF TypeInv, TypeOK
  \* The hypotheses of ClearingStepKeepsOrder, for the steps that leave
  \* kvList alone.
  <1> DEFINE KeepsReservations ==
               \A q \in Procs : Reserved(q)' =>
                  Reserved(q) /\ newRev'[q] = newRev[q] /\ newIndex'[q] = newIndex[q]
  <1>1. ASSUME UNCHANGED <<kvList, memRev>>, KeepsReservations
        PROVE  OrderInv'
    <2>1. Len(kvList') = Len(kvList)
          /\ \A i \in 1..Len(kvList) : kvList'[i] \in {kvList[i], Nil}
      BY <1>0, <1>1
    <2>2. QED
      BY <1>0, <1>1, <2>1, ClearingStepKeepsOrder DEF Rev
  <1>2. ASSUME NEW p \in Procs, NEW k \in KeysOf[p],
               NEW o \in Ops \ {"CreateOrReplace"}, BeginGet(p, o, k)
        PROVE  OrderInv'
    <2>1. PICK next \in AfterGet(o, kvs[k]) :
               IF next = "idle"
               THEN UNCHANGED clientVars
               ELSE /\ Goto(p, next)
                    /\ UNCHANGED <<newRev, newIndex>>
      BY <1>0, <1>2 DEF BeginGet
    <2>2. next \in {"idle", "reserve", "check"}
      BY <1>0, <1>2 DEF AfterGet, CreateAfterGet, DeleteAfterGet, UpdateAfterGet,
             MergeAfterGet, Ops
    <2>3. pc[p] = "idle" /\ UNCHANGED <<kvList, memRev, newRev, newIndex>>
      BY <1>0, <1>2, <2>1 DEF BeginGet, clientVars
    <2>4. KeepsReservations
      BY <1>0, <2>1, <2>2, <2>3 DEF Goto, Reserved, clientVars
    <2>5. QED
      BY <1>0, <1>1, <2>3, <2>4
  <1>3. ASSUME NEW p \in Procs, NEW k \in KeysOf[p], BeginCreateOrReplace(p, k)
        PROVE  OrderInv'
    BY <1>0, <1>1, <1>3 DEF BeginCreateOrReplace, Goto, Reserved
  <1>4. ASSUME NEW p \in Procs, ReserveRevAndSlot(p) PROVE OrderInv'
    BY <1>0, <1>4, ReserveKeepsOrder, Zenon
  <1>5. ASSUME NEW p \in Procs, ReplaceGet(p) PROVE OrderInv'
    BY <1>0, <1>1, <1>5 DEF ReplaceGet, Goto, Reserved
  <1>6. ASSUME NEW p \in Procs, Put(p) PROVE OrderInv'
    BY <1>0, <1>1, <1>6 DEF Put, Goto, Reserved
  <1>7. ASSUME NEW p \in Procs, PutConflict(p) PROVE OrderInv'
    BY <1>0, <1>1, <1>7 DEF PutConflict, Return, Reserved
  <1>8. ASSUME NEW p \in Procs, WriteSlots(p) PROVE OrderInv'
    BY <1>0, <1>8, WriteKeepsOrder, Zenon
  <1>9. ASSUME NEW p \in Procs, DeleteCheck(p) PROVE OrderInv'
    <2>1. pc[p] = "check" /\ UNCHANGED kvList /\ memRev <= memRev'
      BY <1>0, <1>9 DEF DeleteCheck, Rev
    <2>2. KeepsReservations
      BY <1>0, <1>9 DEF DeleteCheck, Goto, Return, Reserved
    <2>3. Len(kvList') = Len(kvList)
          /\ \A i \in 1..Len(kvList) : kvList'[i] \in {kvList[i], Nil}
      BY <1>0, <2>1
    <2>4. QED
      BY <1>0, <2>1, <2>2, <2>3, ClearingStepKeepsOrder
  <1>10. ASSUME NEW p \in Procs, DeleteDel(p) PROVE OrderInv'
    <2>1. pc[p] = "del" /\ UNCHANGED memRev
      BY <1>0, <1>10 DEF DeleteDel
    <2>2. KeepsReservations
      BY <1>0, <1>10 DEF DeleteDel, Goto, Return, Reserved
    <2>3. CASE kvList' = [kvList EXCEPT ![curObj[p].index] = Nil]
      <3>1. curObj[p].index \in 1..Len(kvList)
        BY <1>0, <2>1 DEF LocalsOK
      <3>2. Len(kvList') = Len(kvList)
            /\ \A i \in 1..Len(kvList) : kvList'[i] \in {kvList[i], Nil}
        BY <1>0, <2>3, <3>1
      <3>3. QED
        BY <1>0, <2>1, <2>2, <3>2, ClearingStepKeepsOrder DEF Rev
    <2>4. CASE UNCHANGED kvList
      BY <1>0, <1>1, <2>1, <2>2, <2>4
    <2>5. QED
      BY <1>0, <1>10, <2>3, <2>4 DEF DeleteDel
  <1>11. ASSUME NEW p \in Procs, SendEvent(p) PROVE OrderInv'
    BY <1>0, <1>1, <1>11 DEF SendEvent, Return, Reserved
  <1>12. ASSUME NEW w \in Watchers, Watch(w) PROVE OrderInv'
    BY <1>0, <1>1, <1>12 DEF Watch, clientVars, Reserved
  <1>13. CASE Done \/ UNCHANGED vars
    BY <1>0, <1>1, <1>13 DEF Done, vars, clientVars, Reserved
  <1>14. QED
    BY <1>0, <1>2, <1>3, <1>4, <1>5, <1>6, <1>7, <1>8, <1>9, <1>10, <1>11,
       <1>12, <1>13 DEF Next

(***************************************************************************)
(* kvList is ordered by revision in every reachable state, however the     *)
(* steps of any number of concurrent calls interleave, for every key set,  *)
(* client set and revision bound: each slot sits at its own index and the  *)
(* revisions of live slots strictly increase along the list.  This is what *)
(* reserveRevAndSlot's single critical section buys, and what the binary   *)
(* searches of GetList and Watch rely on.                                  *)
(***************************************************************************)
THEOREM RevListSortedInvariant == Spec => []RevListSorted
  <1>1. Init => IInv
    <2> SUFFICES ASSUME Init PROVE IInv
      OBVIOUS
    <2>1. TypeInv
      BY InitTypeInv
    <2>2. OrderInv
      BY DEF Init, OrderInv, RevListSorted, SlotsBelow, ReservationsBelow,
             SlotReservationOrder, ReservationOrder, Reserved
    <2>3. QED
      BY <2>1, <2>2 DEF IInv
  <1>2. IInv /\ [Next]_vars => IInv'
    BY NextTypeInv, NextOrderInv DEF IInv
  <1>3. IInv => RevListSorted
    BY DEF IInv, OrderInv
  <1>4. QED
    BY <1>1, <1>2, <1>3, PTL DEF Spec

=============================================================================
