---------------------------- MODULE IndexProofs ----------------------------
(***************************************************************************)
(* Proof that the key tree and the revision list agree on every settled   *)
(* key (IndexesAgree) when no two clients share a key.                    *)
(*                                                                         *)
(* IndexesAgree is not inductive: it says nothing of a key while its call *)
(* runs, and a call's kvs.put and its kvList writes are two steps.  The   *)
(* strengthening follows the one call that may own a key: until it puts,  *)
(* the tree and the list agree on the key and the call's curObjWi is the  *)
(* tree's object; between its put and its kvList writes the list agrees   *)
(* with curObjWi instead, while the tree already holds the new slot.      *)
(* Other calls cannot disturb the key's slots: the slots they write were  *)
(* reserved nil, and the slots they clear carry their own keys.           *)
(***************************************************************************)
EXTENDS RefinementProofs

\* p is inside a call on key k.
Owner(p, k) == pc[p] # "idle" /\ opKey[p] = k

\* The list L agrees with c as the object of key k: c, if any, sits at its
\* index, and no other live slot has key k.
ListAgrees(L, k, c) ==
    /\ c # Nil => /\ c.index \in DOMAIN L
                  /\ L[c.index] = c
    /\ \A i \in DOMAIN L : (L[i] # Nil /\ L[i].key = k) => c = L[i]

\* A slot records the key it was written for; a call's curObjWi is dropped
\* when it returns.
SlotKeys ==
    /\ \A k \in Keys : kvs[k] # Nil => kvs[k].key = k
    /\ \A p \in Procs : curObj[p] # Nil =>
         pc[p] # "idle" /\ curObj[p].key = opKey[p]

\* Until it puts, a call's curObjWi is still the tree's object for its key
\* (CreateOrReplace reads it only after its reservation).
ReadCurrentAt(p) ==
    \/ pc[p] \in {"put", "check", "del"}
    \/ pc[p] = "reserve" /\ op[p] # "CreateOrReplace"
    => curObj[p] = kvs[opKey[p]]

ReadCurrent == \A p \in Procs : ReadCurrentAt(p)

\* Between its kvs.put and its kvList writes, the list agrees with the
\* call's curObjWi and the tree already holds its new slot.
WritingAgrees(p) ==
    pc[p] = "index" =>
      /\ ListAgrees(kvList, opKey[p], curObj[p])
      /\ kvs[opKey[p]] = NewSlot(p)

ListAgreesWithRead == \A p \in Procs : WritingAgrees(p)

\* Otherwise the list agrees with the tree.
NoWriterOn(k) == \A p \in Procs : pc[p] = "index" => opKey[p] # k

TreeAgrees(k) == NoWriterOn(k) => ListAgrees(kvList, k, kvs[k])

ListAgreesWithTree == \A k \in Keys : TreeAgrees(k)

KeyInv == SlotKeys /\ ReadCurrent /\ ListAgreesWithRead /\ ListAgreesWithTree

AgreeInv == IInv /\ RefInv /\ KeyInv

-----------------------------------------------------------------------------
USE KeysOfAssumption, RevAssumption, NilAssumption

(***************************************************************************)
(* How a list's agreement on a key survives the writes of other calls.    *)
(***************************************************************************)

\* reserveRevAndSlot appends a nil slot.
LEMMA AppendNilAgrees ==
  ASSUME NEW L \in Seq(Slot \cup {Nil}), NEW k, NEW c, ListAgrees(L, k, c)
  PROVE  ListAgrees(Append(L, Nil), k, c)
  BY DEF ListAgrees

\* Slots are cleared, or written with another key's slot, anywhere but at
\* c's index.
LEMMA OtherWritesAgree ==
  ASSUME NEW L \in Seq(Slot \cup {Nil}), NEW M \in Seq(Slot \cup {Nil}),
         NEW k, NEW c, ListAgrees(L, k, c),
         Len(M) = Len(L),
         \A i \in 1..Len(L) : M[i] = L[i] \/ M[i] = Nil \/ M[i].key # k,
         c # Nil => M[c.index] = L[c.index]
  PROVE  ListAgrees(M, k, c)
  BY DEF ListAgrees

\* Under Disjoint, a key is the key of at most one call.
LEMMA UniqueOwner ==
  ASSUME Disjoint, RefInv, NEW p \in Procs, NEW q \in Procs, NEW k,
         Owner(p, k), Owner(q, k)
  PROVE  p = q
  BY DEF Disjoint, RefInv, OwnKeys, Owner

(***************************************************************************)
(* A step of one client p that writes neither the tree nor the list and   *)
(* neither starts nor ends p's kvList writes keeps KeyInv, provided p's   *)
(* own curObjWi stays well formed.                                         *)
(***************************************************************************)
LEMMA QuietStepKeepsKeyInv ==
  ASSUME KeyInv, NEW p \in Procs,
         UNCHANGED <<kvs, kvList>>,
         \A q \in Procs \ {p} : /\ pc'[q] = pc[q] /\ op'[q] = op[q]
                                /\ opKey'[q] = opKey[q]
                                /\ curObj'[q] = curObj[q]
                                /\ newRev'[q] = newRev[q]
                                /\ newIndex'[q] = newIndex[q],
         pc[p] # "index", pc'[p] # "index",
         curObj'[p] # Nil => pc'[p] # "idle" /\ curObj'[p].key = opKey'[p],
         ReadCurrentAt(p)'
  PROVE  KeyInv'
  <1>1. SlotKeys'
    BY DEF KeyInv, SlotKeys
  <1>2. ReadCurrent'
    BY DEF KeyInv, ReadCurrent, ReadCurrentAt
  <1>3. ListAgreesWithRead'
    <2> SUFFICES ASSUME NEW q \in Procs, pc'[q] = "index"
                 PROVE  /\ ListAgrees(kvList', opKey'[q], curObj'[q])
                        /\ kvs'[opKey'[q]] = NewSlot(q)'
      BY DEF ListAgreesWithRead, WritingAgrees
    <2>1. q # p
      OBVIOUS
    <2>2. WritingAgrees(q)
      BY DEF KeyInv, ListAgreesWithRead
    <2>3. QED
      BY <2>1, <2>2 DEF WritingAgrees, NewSlot
  <1>4. ListAgreesWithTree'
    <2> SUFFICES ASSUME NEW k \in Keys, NoWriterOn(k)'
                 PROVE  ListAgrees(kvList', k, kvs'[k])
      BY DEF ListAgreesWithTree, TreeAgrees
    <2>1. NoWriterOn(k)
      BY DEF NoWriterOn
    <2>2. QED
      BY <2>1 DEF KeyInv, ListAgreesWithTree, TreeAgrees
  <1>5. QED
    BY <1>1, <1>2, <1>3, <1>4 DEF KeyInv

\* reserveRevAndSlot only appends a nil slot to the list.
LEMMA ReserveKeepsKeyInv ==
  ASSUME TypeInv, KeyInv, NEW p \in Procs, ReserveRevAndSlot(p)
  PROVE  KeyInv'
  <1>1. /\ kvList' = Append(kvList, Nil)
        /\ kvList \in Seq(Slot \cup {Nil})
        /\ UNCHANGED <<kvs, op, opKey, curObj>>
        /\ pc[p] = "reserve"
        /\ pc' = [pc EXCEPT ![p] = IF op[p] = "CreateOrReplace" THEN "get" ELSE "put"]
        /\ \A q \in Procs \ {p} : newRev'[q] = newRev[q] /\ newIndex'[q] = newIndex[q]
    BY DEF ReserveRevAndSlot, Goto, TypeInv, TypeOK
  <1>2. SlotKeys'
    BY <1>1 DEF KeyInv, SlotKeys
  <1>3. ReadCurrent'
    BY <1>1 DEF KeyInv, ReadCurrent, ReadCurrentAt
  <1>4. ListAgreesWithRead'
    <2> SUFFICES ASSUME NEW q \in Procs, pc'[q] = "index"
                 PROVE  /\ ListAgrees(kvList', opKey'[q], curObj'[q])
                        /\ kvs'[opKey'[q]] = NewSlot(q)'
      BY DEF ListAgreesWithRead, WritingAgrees
    <2>1. q # p /\ pc[q] = "index"
      BY <1>1
    <2>2. /\ ListAgrees(kvList, opKey[q], curObj[q])
          /\ kvs[opKey[q]] = NewSlot(q)
      BY <2>1 DEF KeyInv, ListAgreesWithRead, WritingAgrees
    <2>3. ListAgrees(Append(kvList, Nil), opKey[q], curObj[q])
      BY <1>1, <2>2, AppendNilAgrees
    <2>4. QED
      BY <1>1, <2>1, <2>2, <2>3 DEF NewSlot
  <1>5. ListAgreesWithTree'
    <2> SUFFICES ASSUME NEW k \in Keys, NoWriterOn(k)'
                 PROVE  ListAgrees(kvList', k, kvs'[k])
      BY DEF ListAgreesWithTree, TreeAgrees
    <2>1. NoWriterOn(k)
      BY <1>1 DEF NoWriterOn
    <2>2. ListAgrees(kvList, k, kvs[k])
      BY <2>1 DEF KeyInv, ListAgreesWithTree, TreeAgrees
    <2>3. QED
      BY <1>1, <2>2, AppendNilAgrees
  <1>6. QED
    BY <1>2, <1>3, <1>4, <1>5 DEF KeyInv

(***************************************************************************)
(* kvs.put: the tree takes the new slot while the list still agrees with  *)
(* the object the call read, which is the tree's old one.  No other call  *)
(* is on that key, so no other call's expectation changes.                *)
(***************************************************************************)
LEMMA PutKeepsKeyInv ==
  ASSUME Disjoint, TypeInv, RefInv, KeyInv, NEW p \in Procs, Put(p)
  PROVE  KeyInv'
  <1>1. /\ pc[p] = "put"
        /\ pc' = [pc EXCEPT ![p] = "index"]
        /\ kvs' = [kvs EXCEPT ![opKey[p]] = NewSlot(p)]
        /\ UNCHANGED <<kvList, op, opKey, curObj, newRev, newIndex>>
        /\ pc \in [Procs -> Pcs] /\ kvs \in [Keys -> Slot \cup {Nil}]
    BY DEF Put, Goto, TypeInv, TypeOK
  <1>2. opKey[p] \in Keys /\ Owner(p, opKey[p])
    BY <1>1 DEF TypeInv, LocalsOK, Owner
  \* Every other call in progress works on another key.
  <1>3. \A q \in Procs \ {p} : pc[q] # "idle" => opKey[q] # opKey[p] /\ opKey[q] \in Keys
    BY <1>2, UniqueOwner DEF Owner, TypeInv, LocalsOK
  <1>4. curObj[p] = kvs[opKey[p]]
    BY <1>1 DEF KeyInv, ReadCurrent, ReadCurrentAt
  <1>5. ListAgrees(kvList, opKey[p], kvs[opKey[p]])
    <2>1. NoWriterOn(opKey[p])
      BY <1>1, <1>3 DEF NoWriterOn
    <2>2. QED
      BY <1>2, <2>1 DEF KeyInv, ListAgreesWithTree, TreeAgrees
  <1>6. SlotKeys'
    BY <1>1, <1>2 DEF KeyInv, SlotKeys, NewSlot
  <1>7. ReadCurrent'
    BY <1>1, <1>3 DEF KeyInv, ReadCurrent, ReadCurrentAt
  <1>8. ListAgreesWithRead'
    <2> SUFFICES ASSUME NEW q \in Procs, pc'[q] = "index"
                 PROVE  /\ ListAgrees(kvList', opKey'[q], curObj'[q])
                        /\ kvs'[opKey'[q]] = NewSlot(q)'
      BY DEF ListAgreesWithRead, WritingAgrees
    <2>1. CASE q = p
      BY <1>1, <1>2, <1>4, <1>5, <2>1 DEF NewSlot
    <2>2. CASE q # p
      <3>1. pc[q] = "index" /\ opKey[q] # opKey[p] /\ opKey[q] \in Keys
        BY <1>1, <1>3, <2>2
      <3>2. WritingAgrees(q)
        BY DEF KeyInv, ListAgreesWithRead
      <3>3. QED
        BY <1>1, <3>1, <3>2 DEF WritingAgrees, NewSlot
    <2>3. QED
      BY <2>1, <2>2
  <1>9. ListAgreesWithTree'
    <2> SUFFICES ASSUME NEW k \in Keys, NoWriterOn(k)'
                 PROVE  ListAgrees(kvList', k, kvs'[k])
      BY DEF ListAgreesWithTree, TreeAgrees
    <2>1. k # opKey[p]
      BY <1>1 DEF NoWriterOn
    <2>2. NoWriterOn(k)
      BY <1>1 DEF NoWriterOn
    <2>3. ListAgrees(kvList, k, kvs[k])
      BY <2>2 DEF KeyInv, ListAgreesWithTree, TreeAgrees
    <2>4. QED
      BY <1>1, <2>1, <2>3
  <1>10. QED
    BY <1>6, <1>7, <1>8, <1>9 DEF KeyInv

(***************************************************************************)
(* The kvList writes: the new slot goes into the nil slot the call        *)
(* reserved and the slot it read is cleared, so the list agrees with the  *)
(* tree on the call's key again.  The two slots written are the call's    *)
(* own: the reserved one is nil and the cleared one carries the call's    *)
(* key, so no other key's slot is touched.                                *)
(***************************************************************************)
LEMMA WriteSlotsKeepsKeyInv ==
  ASSUME Disjoint, TypeInv, OrderInv, RefInv, KeyInv, TypeInv',
         NEW p \in Procs, WriteSlots(p)
  PROVE  KeyInv'
  <1>1. /\ pc[p] = "index"
        /\ pc' = [pc EXCEPT ![p] = "send"]
        /\ UNCHANGED <<kvs, op, opKey, curObj, newRev, newIndex>>
        /\ pc \in [Procs -> Pcs]
        /\ kvList \in Seq(Slot \cup {Nil}) /\ kvList' \in Seq(Slot \cup {Nil})
    BY DEF WriteSlots, Goto, TypeInv, TypeOK
  <1>2. /\ opKey[p] \in Keys
        /\ newIndex[p] \in 1..Len(kvList)
        /\ kvList[newIndex[p]] = Nil
    BY <1>1 DEF TypeInv, LocalsOK, OrderInv, ReservationsBelow, Reserved
  <1>3. /\ Len(kvList') = Len(kvList)
        /\ kvList'[newIndex[p]] = NewSlot(p)
        /\ \A i \in 1..Len(kvList) : i # newIndex[p] =>
             kvList'[i] = IF curObj[p] # Nil /\ i = curObj[p].index
                          THEN Nil ELSE kvList[i]
    BY <1>1, <1>2 DEF WriteSlots
  <1>4. /\ ListAgrees(kvList, opKey[p], curObj[p])
        /\ kvs[opKey[p]] = NewSlot(p)
    BY <1>1 DEF KeyInv, ListAgreesWithRead, WritingAgrees
  <1>5. curObj[p] # Nil => /\ curObj[p].key = opKey[p]
                           /\ curObj[p].index # newIndex[p]
    BY <1>2, <1>4 DEF KeyInv, SlotKeys, ListAgrees
  <1>6. \A q \in Procs \ {p} : pc[q] # "idle" => opKey[q] # opKey[p] /\ opKey[q] \in Keys
    BY <1>1, UniqueOwner DEF Owner, TypeInv, LocalsOK
  \* The list still agrees on every other key, with the same object.
  <1>7. ASSUME NEW k \in Keys, k # opKey[p], NEW c,
               ListAgrees(kvList, k, c), c # Nil => c.key = k
        PROVE  ListAgrees(kvList', k, c)
    <2>1. \A i \in 1..Len(kvList) :
            kvList'[i] = kvList[i] \/ kvList'[i] = Nil \/ kvList'[i].key # k
      BY <1>3, <1>7 DEF NewSlot
    <2>2. c # Nil => kvList'[c.index] = kvList[c.index]
      <3> SUFFICES ASSUME c # Nil PROVE kvList'[c.index] = kvList[c.index]
        OBVIOUS
      <3>1. c.index \in 1..Len(kvList) /\ kvList[c.index] = c
        BY <1>1, <1>7 DEF ListAgrees
      <3>2. c.index # newIndex[p]
        BY <1>2, <3>1
      <3>3. curObj[p] # Nil => kvList[curObj[p].index] = curObj[p]
        BY <1>4 DEF ListAgrees
      <3>4. ~(curObj[p] # Nil /\ c.index = curObj[p].index)
        BY <1>5, <1>7, <3>1, <3>3
      <3>5. QED
        BY <1>3, <3>1, <3>2, <3>4
    <2>3. QED
      BY <1>1, <1>3, <1>7, <2>1, <2>2, OtherWritesAgree
  \* On the call's own key, the list now agrees with the new slot.
  <1>8. ListAgrees(kvList', opKey[p], NewSlot(p))
    <2>1. NewSlot(p).index \in DOMAIN kvList' /\ kvList'[NewSlot(p).index] = NewSlot(p)
      BY <1>1, <1>2, <1>3 DEF NewSlot
    <2>2. ASSUME NEW i \in DOMAIN kvList', kvList'[i] # Nil,
                 kvList'[i].key = opKey[p], i # newIndex[p]
          PROVE  FALSE
      <3>1. i \in 1..Len(kvList) /\ ~(curObj[p] # Nil /\ i = curObj[p].index)
            /\ kvList'[i] = kvList[i]
        BY <1>1, <1>3, <2>2
      <3>2. curObj[p] = kvList[i]
        BY <1>4, <2>2, <3>1 DEF ListAgrees
      <3>3. kvList[i].index = i
        BY <2>2, <3>1 DEF OrderInv, SlotsBelow
      <3>4. QED
        BY <2>2, <3>1, <3>2, <3>3
    <2>3. QED
      BY <1>3, <2>1, <2>2 DEF ListAgrees
  <1>9. SlotKeys' /\ ReadCurrent'
    BY <1>1 DEF KeyInv, SlotKeys, ReadCurrent, ReadCurrentAt
  <1>10. ListAgreesWithRead'
    <2> SUFFICES ASSUME NEW q \in Procs, pc'[q] = "index"
                 PROVE  /\ ListAgrees(kvList', opKey'[q], curObj'[q])
                        /\ kvs'[opKey'[q]] = NewSlot(q)'
      BY DEF ListAgreesWithRead, WritingAgrees
    <2>1. q # p /\ pc[q] = "index"
      BY <1>1
    <2>2. opKey[q] # opKey[p] /\ opKey[q] \in Keys
      BY <1>6, <2>1
    <2>3. ListAgrees(kvList, opKey[q], curObj[q]) /\ kvs[opKey[q]] = NewSlot(q)
      BY <2>1 DEF KeyInv, ListAgreesWithRead, WritingAgrees
    <2>4. curObj[q] # Nil => curObj[q].key = opKey[q]
      BY DEF KeyInv, SlotKeys
    <2>5. ListAgrees(kvList', opKey[q], curObj[q])
      BY <2>2, <2>3, <2>4, <1>7
    <2>6. QED
      BY <1>1, <2>3, <2>5 DEF NewSlot
  <1>11. ListAgreesWithTree'
    <2> SUFFICES ASSUME NEW k \in Keys, NoWriterOn(k)'
                 PROVE  ListAgrees(kvList', k, kvs'[k])
      BY DEF ListAgreesWithTree, TreeAgrees
    <2>1. CASE k = opKey[p]
      BY <1>1, <1>4, <1>8, <2>1
    <2>2. CASE k # opKey[p]
      <3>1. NoWriterOn(k)
        BY <1>1, <2>2 DEF NoWriterOn
      <3>2. ListAgrees(kvList, k, kvs[k]) /\ (kvs[k] # Nil => kvs[k].key = k)
        BY <3>1 DEF KeyInv, ListAgreesWithTree, TreeAgrees, SlotKeys
      <3>3. QED
        BY <1>1, <2>2, <3>2, <1>7
    <2>3. QED
      BY <2>1, <2>2
  <1>12. QED
    BY <1>9, <1>10, <1>11 DEF KeyInv

(***************************************************************************)
(* Delete's kvs.del and the clearing of the slot it read: the key leaves  *)
(* the tree and its one live slot leaves the list.  When the key is       *)
(* already gone the call returns and nothing is written.                  *)
(***************************************************************************)
LEMMA DeleteDelKeepsKeyInv ==
  ASSUME Disjoint, TypeInv, OrderInv, RefInv, KeyInv, TypeInv',
         NEW p \in Procs, DeleteDel(p)
  PROVE  KeyInv'
  <1>1. /\ pc[p] = "del"
        /\ pc \in [Procs -> Pcs]
        /\ kvList \in Seq(Slot \cup {Nil}) /\ kvList' \in Seq(Slot \cup {Nil})
        /\ kvs \in [Keys -> Slot \cup {Nil}]
        /\ opKey[p] \in Keys
    BY DEF DeleteDel, TypeInv, TypeOK, LocalsOK
  <1>2. CASE kvs[opKey[p]] = Nil
    <2>1. /\ UNCHANGED <<kvs, kvList>>
          /\ pc' = [pc EXCEPT ![p] = "idle"]
          /\ curObj' = [curObj EXCEPT ![p] = Nil]
          /\ \A q \in Procs \ {p} : /\ op'[q] = op[q] /\ opKey'[q] = opKey[q]
                                    /\ newRev'[q] = newRev[q]
                                    /\ newIndex'[q] = newIndex[q]
      BY <1>2 DEF DeleteDel, Return, TypeInv, TypeOK
    <2>2. ReadCurrentAt(p)'
      BY <1>1, <2>1 DEF ReadCurrentAt
    <2>3. pc[p] # "index" /\ pc'[p] # "index"
      BY <1>1, <2>1
    <2>4. \A q \in Procs \ {p} : /\ pc'[q] = pc[q] /\ op'[q] = op[q]
                               /\ opKey'[q] = opKey[q]
                               /\ curObj'[q] = curObj[q]
                               /\ newRev'[q] = newRev[q]
                               /\ newIndex'[q] = newIndex[q]
      BY <2>1
    <2>5. curObj'[p] # Nil => pc'[p] # "idle" /\ curObj'[p].key = opKey'[p]
      BY <2>1 DEF TypeInv, TypeOK
    <2>6. QED
      BY <2>1, <2>2, <2>3, <2>4, <2>5, QuietStepKeepsKeyInv, Zenon
  <1>3. CASE kvs[opKey[p]] # Nil
    <2>1. /\ kvs' = [kvs EXCEPT ![opKey[p]] = Nil]
          /\ kvList' = [kvList EXCEPT ![curObj[p].index] = Nil]
          /\ pc' = [pc EXCEPT ![p] = "send"]
          /\ UNCHANGED <<op, opKey, curObj, newRev, newIndex>>
      BY <1>3 DEF DeleteDel, Goto
    <2>2. curObj[p] = kvs[opKey[p]] /\ curObj[p] # Nil
      BY <1>1, <1>3 DEF KeyInv, ReadCurrent, ReadCurrentAt
    <2>3. \A q \in Procs \ {p} : pc[q] # "idle" => opKey[q] # opKey[p] /\ opKey[q] \in Keys
      BY <1>1, UniqueOwner DEF Owner, TypeInv, LocalsOK
    <2>4. ListAgrees(kvList, opKey[p], curObj[p])
      <3>1. NoWriterOn(opKey[p])
        BY <1>1, <2>3 DEF NoWriterOn
      <3>2. QED
        BY <1>1, <2>2, <3>1 DEF KeyInv, ListAgreesWithTree, TreeAgrees
    <2>5. /\ curObj[p].key = opKey[p]
          /\ curObj[p].index \in 1..Len(kvList)
          /\ kvList[curObj[p].index] = curObj[p]
      BY <1>1, <2>2, <2>4 DEF KeyInv, SlotKeys, ListAgrees
    <2>6. /\ Len(kvList') = Len(kvList)
          /\ kvList'[curObj[p].index] = Nil
          /\ \A i \in 1..Len(kvList) : i # curObj[p].index => kvList'[i] = kvList[i]
      BY <2>1, <2>5
    \* The list still agrees on every other key, with the same object.
    <2>7. ASSUME NEW k \in Keys, k # opKey[p], NEW c,
                 ListAgrees(kvList, k, c), c # Nil => c.key = k
          PROVE  ListAgrees(kvList', k, c)
      <3>1. c # Nil => c.index # curObj[p].index
        BY <2>5, <2>7 DEF ListAgrees
      <3>2. c # Nil => kvList'[c.index] = kvList[c.index]
        BY <1>1, <2>6, <2>7, <3>1 DEF ListAgrees
      <3>3. QED
        BY <1>1, <2>6, <2>7, <3>2, OtherWritesAgree
    \* No live slot of the deleted key is left.
    <2>8. ListAgrees(kvList', opKey[p], Nil)
      <3> SUFFICES ASSUME NEW i \in DOMAIN kvList', kvList'[i] # Nil,
                          kvList'[i].key = opKey[p]
                   PROVE  FALSE
        BY DEF ListAgrees
      <3>1. i \in 1..Len(kvList) /\ i # curObj[p].index /\ kvList'[i] = kvList[i]
        BY <1>1, <2>6
      <3>2. curObj[p] = kvList[i]
        BY <2>4, <3>1 DEF ListAgrees
      <3>3. kvList[i].index = i
        BY <3>1 DEF OrderInv, SlotsBelow
      <3>4. QED
        BY <3>1, <3>2, <3>3
    <2>9. SlotKeys'
      BY <1>1, <2>1 DEF KeyInv, SlotKeys
    <2>10. ReadCurrent'
      BY <1>1, <2>1, <2>3 DEF KeyInv, ReadCurrent, ReadCurrentAt
    <2>11. ListAgreesWithRead'
      <3> SUFFICES ASSUME NEW q \in Procs, pc'[q] = "index"
                   PROVE  /\ ListAgrees(kvList', opKey'[q], curObj'[q])
                          /\ kvs'[opKey'[q]] = NewSlot(q)'
        BY DEF ListAgreesWithRead, WritingAgrees
      <3>1. q # p /\ pc[q] = "index"
        BY <1>1, <2>1
      <3>2. opKey[q] # opKey[p] /\ opKey[q] \in Keys
        BY <2>3, <3>1
      <3>3. ListAgrees(kvList, opKey[q], curObj[q]) /\ kvs[opKey[q]] = NewSlot(q)
        BY <3>1 DEF KeyInv, ListAgreesWithRead, WritingAgrees
      <3>4. curObj[q] # Nil => curObj[q].key = opKey[q]
        BY DEF KeyInv, SlotKeys
      <3>5. ListAgrees(kvList', opKey[q], curObj[q])
        BY <3>2, <3>3, <3>4, <2>7
      <3>6. QED
        BY <2>1, <3>2, <3>3, <3>5 DEF NewSlot
    <2>12. ListAgreesWithTree'
      <3> SUFFICES ASSUME NEW k \in Keys, NoWriterOn(k)'
                   PROVE  ListAgrees(kvList', k, kvs'[k])
        BY DEF ListAgreesWithTree, TreeAgrees
      <3>1. CASE k = opKey[p]
        BY <1>1, <2>1, <2>8, <3>1
      <3>2. CASE k # opKey[p]
        <4>1. NoWriterOn(k)
          BY <1>1, <2>1, <3>2 DEF NoWriterOn
        <4>2. ListAgrees(kvList, k, kvs[k]) /\ (kvs[k] # Nil => kvs[k].key = k)
          BY <4>1 DEF KeyInv, ListAgreesWithTree, TreeAgrees, SlotKeys
        <4>3. QED
          BY <1>1, <2>1, <3>2, <4>2, <2>7
      <3>3. QED
        BY <3>1, <3>2
    <2>13. QED
      BY <2>9, <2>10, <2>11, <2>12 DEF KeyInv
  <1>4. QED
    BY <1>2, <1>3

\* A call that returns without writing the tree or the list.
LEMMA ReturnKeepsKeyInv ==
  ASSUME TypeInv, KeyInv, NEW p \in Procs, pc[p] # "index", Return(p),
         UNCHANGED <<kvs, kvList>>
  PROVE  KeyInv'
  <1>1. \A q \in Procs \ {p} : /\ pc'[q] = pc[q] /\ op'[q] = op[q]
                               /\ opKey'[q] = opKey[q]
                               /\ curObj'[q] = curObj[q]
                               /\ newRev'[q] = newRev[q]
                               /\ newIndex'[q] = newIndex[q]
    BY DEF Return
  <1>2. pc'[p] = "idle" /\ curObj'[p] = Nil
    BY DEF Return, TypeInv, TypeOK
  <1>3. ReadCurrentAt(p)'
    BY <1>2 DEF ReadCurrentAt
  <1>4. QED
    BY <1>1, <1>2, <1>3, QuietStepKeepsKeyInv, Zenon

(***************************************************************************)
(* KeyInv is kept by every step when no two clients share a key.           *)
(***************************************************************************)
LEMMA NextKeyInv ==
  ASSUME Disjoint, AgreeInv, [Next]_vars
  PROVE  KeyInv'
  <1>0. TypeInv /\ OrderInv /\ RefInv /\ KeyInv /\ TypeInv'
    BY NextTypeInv DEF AgreeInv, IInv
  <1>1. ASSUME UNCHANGED <<kvs, kvList, clientVars>> PROVE KeyInv'
    BY <1>0, <1>1 DEF clientVars, KeyInv, SlotKeys, ReadCurrent, ReadCurrentAt,
       ListAgreesWithRead, WritingAgrees, NewSlot, ListAgreesWithTree,
       TreeAgrees, NoWriterOn
  <1>2. ASSUME NEW p \in Procs, NEW k \in KeysOf[p],
               NEW o \in Ops \ {"CreateOrReplace"}, BeginGet(p, o, k)
        PROVE  KeyInv'
    <2>1. PICK next \in AfterGet(o, kvs[k]) :
               IF next = "idle"
               THEN UNCHANGED clientVars
               ELSE /\ Goto(p, next)
                    /\ op' = [op EXCEPT ![p] = o]
                    /\ opKey' = [opKey EXCEPT ![p] = k]
                    /\ curObj' = [curObj EXCEPT ![p] = kvs[k]]
                    /\ UNCHANGED <<newRev, newIndex>>
      BY <1>2 DEF BeginGet
    <2>2. next \in {"idle", "reserve", "check"}
      BY DEF AfterGet, CreateAfterGet, DeleteAfterGet, UpdateAfterGet,
             MergeAfterGet, Ops
    <2>3. UNCHANGED <<kvs, kvList>> /\ pc[p] = "idle" /\ k \in Keys
      BY <1>2 DEF BeginGet
    <2>4. CASE next = "idle"
      BY <1>1, <2>1, <2>3, <2>4
    <2>5. CASE next # "idle"
      <3>1. /\ pc' = [pc EXCEPT ![p] = next]
            /\ op' = [op EXCEPT ![p] = o]
            /\ opKey' = [opKey EXCEPT ![p] = k]
            /\ curObj' = [curObj EXCEPT ![p] = kvs[k]]
            /\ UNCHANGED <<newRev, newIndex>>
        BY <2>1, <2>5 DEF Goto
      <3>2. \A q \in Procs \ {p} : /\ pc'[q] = pc[q] /\ op'[q] = op[q]
                                   /\ opKey'[q] = opKey[q]
                                   /\ curObj'[q] = curObj[q]
                                   /\ newRev'[q] = newRev[q]
                                   /\ newIndex'[q] = newIndex[q]
        BY <3>1
      <3>3. pc[p] # "index" /\ pc'[p] # "index"
        BY <1>0, <2>2, <2>3, <3>1 DEF TypeInv, TypeOK
      <3>4. curObj'[p] # Nil => pc'[p] # "idle" /\ curObj'[p].key = opKey'[p]
        BY <1>0, <2>2, <2>3, <2>5, <3>1 DEF TypeInv, TypeOK, KeyInv, SlotKeys
      <3>5. ReadCurrentAt(p)'
        BY <1>0, <2>2, <2>3, <2>5, <3>1 DEF TypeInv, TypeOK, ReadCurrentAt
      <3>6. QED
        BY <1>0, <2>3, <3>2, <3>3, <3>4, <3>5, QuietStepKeepsKeyInv, Zenon
    <2>6. QED
      BY <2>4, <2>5
  <1>3. ASSUME NEW p \in Procs, NEW k \in KeysOf[p], BeginCreateOrReplace(p, k)
        PROVE  KeyInv'
    <2>1. /\ UNCHANGED <<kvs, kvList, curObj, newRev, newIndex>>
          /\ pc[p] = "idle"
          /\ pc' = [pc EXCEPT ![p] = "reserve"]
          /\ op' = [op EXCEPT ![p] = "CreateOrReplace"]
          /\ opKey' = [opKey EXCEPT ![p] = k]
      BY <1>3 DEF BeginCreateOrReplace, Goto
    <2>2. \A q \in Procs \ {p} : /\ pc'[q] = pc[q] /\ op'[q] = op[q]
                                 /\ opKey'[q] = opKey[q]
                                 /\ curObj'[q] = curObj[q]
                                 /\ newRev'[q] = newRev[q]
                                 /\ newIndex'[q] = newIndex[q]
      BY <2>1
    <2>3. pc[p] # "index" /\ pc'[p] # "index"
      BY <1>0, <2>1 DEF TypeInv, TypeOK
    \* An idle client holds no curObjWi.
    <2>4. curObj'[p] = Nil
      BY <1>0, <2>1 DEF KeyInv, SlotKeys
    <2>5. ReadCurrentAt(p)'
      BY <1>0, <2>1 DEF TypeInv, TypeOK, ReadCurrentAt
    <2>6. QED
      BY <1>0, <2>1, <2>2, <2>3, <2>4, <2>5, QuietStepKeepsKeyInv, Zenon
  <1>4. ASSUME NEW p \in Procs, ReserveRevAndSlot(p) PROVE KeyInv'
    BY <1>0, <1>4, ReserveKeepsKeyInv
  <1>5. ASSUME NEW p \in Procs, ReplaceGet(p) PROVE KeyInv'
    <2>1. /\ UNCHANGED <<kvs, kvList, op, opKey, newRev, newIndex>>
          /\ pc[p] = "get"
          /\ pc' = [pc EXCEPT ![p] = "put"]
          /\ curObj' = [curObj EXCEPT ![p] = kvs[opKey[p]]]
      BY <1>5 DEF ReplaceGet, Goto
    <2>2. \A q \in Procs \ {p} : /\ pc'[q] = pc[q] /\ op'[q] = op[q]
                                 /\ opKey'[q] = opKey[q]
                                 /\ curObj'[q] = curObj[q]
                                 /\ newRev'[q] = newRev[q]
                                 /\ newIndex'[q] = newIndex[q]
      BY <2>1
    <2>3. pc[p] # "index" /\ pc'[p] # "index"
      BY <1>0, <2>1 DEF TypeInv, TypeOK
    <2>4. opKey[p] \in Keys
      BY <1>0, <2>1 DEF TypeInv, LocalsOK
    <2>5. curObj'[p] # Nil => pc'[p] # "idle" /\ curObj'[p].key = opKey'[p]
      BY <1>0, <2>1, <2>4 DEF TypeInv, TypeOK, KeyInv, SlotKeys
    <2>6. ReadCurrentAt(p)'
      BY <1>0, <2>1 DEF TypeInv, TypeOK, ReadCurrentAt
    <2>7. QED
      BY <1>0, <2>1, <2>2, <2>3, <2>5, <2>6, QuietStepKeepsKeyInv, Zenon
  <1>6. ASSUME NEW p \in Procs, Put(p) PROVE KeyInv'
    BY <1>0, <1>6, PutKeepsKeyInv
  <1>7. ASSUME NEW p \in Procs, PutConflict(p) PROVE KeyInv'
    BY <1>0, <1>7, ReturnKeepsKeyInv DEF PutConflict
  <1>8. ASSUME NEW p \in Procs, WriteSlots(p) PROVE KeyInv'
    BY <1>0, <1>8, WriteSlotsKeepsKeyInv
  <1>9. ASSUME NEW p \in Procs, DeleteCheck(p) PROVE KeyInv'
    <2>1. pc[p] = "check" /\ UNCHANGED <<kvs, kvList>>
      BY <1>9 DEF DeleteCheck
    <2>2. CASE Return(p)
      BY <1>0, <2>1, <2>2, ReturnKeepsKeyInv
    <2>3. CASE /\ pc' = [pc EXCEPT ![p] = "del"]
               /\ UNCHANGED <<op, opKey, curObj, newIndex>>
               /\ newRev' = [newRev EXCEPT ![p] = memRev + 1]
      <3>1. \A q \in Procs \ {p} : /\ pc'[q] = pc[q] /\ op'[q] = op[q]
                                   /\ opKey'[q] = opKey[q]
                                   /\ curObj'[q] = curObj[q]
                                   /\ newRev'[q] = newRev[q]
                                   /\ newIndex'[q] = newIndex[q]
        BY <2>3
      <3>2. pc[p] # "index" /\ pc'[p] # "index"
        BY <1>0, <2>1, <2>3 DEF TypeInv, TypeOK
      <3>3. curObj'[p] # Nil => pc'[p] # "idle" /\ curObj'[p].key = opKey'[p]
        BY <1>0, <2>1, <2>3 DEF TypeInv, TypeOK, KeyInv, SlotKeys
      <3>4. ReadCurrentAt(p)'
        BY <1>0, <2>1, <2>3 DEF TypeInv, TypeOK, KeyInv, ReadCurrent, ReadCurrentAt
      <3>5. QED
        BY <1>0, <2>1, <3>1, <3>2, <3>3, <3>4, QuietStepKeepsKeyInv, Zenon
    <2>4. QED
      BY <1>9, <2>2, <2>3 DEF DeleteCheck, Goto
  <1>10. ASSUME NEW p \in Procs, DeleteDel(p) PROVE KeyInv'
    BY <1>0, <1>10, DeleteDelKeepsKeyInv
  <1>11. ASSUME NEW p \in Procs, SendEvent(p) PROVE KeyInv'
    BY <1>0, <1>11, ReturnKeepsKeyInv DEF SendEvent
  <1>12. ASSUME NEW w \in Watchers, Watch(w) PROVE KeyInv'
    BY <1>1, <1>12 DEF Watch
  <1>13. CASE Done \/ UNCHANGED vars
    BY <1>1, <1>13 DEF Done, vars
  <1>14. QED
    BY <1>2, <1>3, <1>4, <1>5, <1>6, <1>7, <1>8, <1>9, <1>10, <1>11, <1>12,
       <1>13 DEF Next

-----------------------------------------------------------------------------
LEMMA InitAgreeInv == Init => AgreeInv
  <1> SUFFICES ASSUME Init PROVE AgreeInv
    OBVIOUS
  <1>1. TypeInv
    BY InitTypeInv
  <1>2. OrderInv
    BY DEF Init, OrderInv, RevListSorted, SlotsBelow, ReservationsBelow,
           SlotReservationOrder, ReservationOrder, Reserved
  <1>3. RefInv
    BY InitRefInv
  <1>4. KeyInv
    BY DEF Init, KeyInv, SlotKeys, ReadCurrent, ReadCurrentAt,
           ListAgreesWithRead, WritingAgrees, ListAgreesWithTree, TreeAgrees,
           ListAgrees
  <1>5. QED
    BY <1>1, <1>2, <1>3, <1>4 DEF AgreeInv, IInv

(***************************************************************************)
(* When no two clients share a key, the key tree and the revision list    *)
(* agree on every key no call is working on, in every reachable state and *)
(* for every number of clients, keys and revisions: the slot kvs holds is *)
(* in kvList at its index, and no other live slot has the key.  Without   *)
(* Disjoint this fails (run race): two calls on one key can each clear    *)
(* and write slots from stale reads.                                       *)
(***************************************************************************)
\* AgreeInv holds in every reachable state when no two clients share a key.
LEMMA AgreeInvariant ==
  ASSUME Disjoint
  PROVE  Spec => []AgreeInv
  <1>1. AgreeInv /\ [Next]_vars => AgreeInv'
    <2> SUFFICES ASSUME AgreeInv, [Next]_vars PROVE AgreeInv'
      OBVIOUS
    <2>1. IInv'
      BY NextTypeInv, NextOrderInv DEF AgreeInv, IInv
    <2>2. RefInv'
      BY NextRefInv DEF AgreeInv, IInv
    <2>3. KeyInv'
      BY NextKeyInv
    <2>4. QED
      BY <2>1, <2>2, <2>3 DEF AgreeInv
  <1>2. QED
    BY InitAgreeInv, <1>1, PTL DEF Spec

THEOREM IndexesAgreeInvariant ==
  ASSUME Disjoint
  PROVE  Spec => []IndexesAgree
  <1>1. AgreeInv => IndexesAgree
    <2> SUFFICES ASSUME AgreeInv, NEW k \in Keys, Settled(k)
                 PROVE  /\ kvs[k] # Nil => /\ kvs[k].index \in DOMAIN kvList
                                           /\ kvList[kvs[k].index] = kvs[k]
                        /\ \A i \in DOMAIN kvList :
                             (kvList[i] # Nil /\ kvList[i].key = k) => kvs[k] = kvList[i]
      BY DEF IndexesAgree
    <2>1. NoWriterOn(k)
      BY DEF Settled, NoWriterOn
    <2>2. QED
      BY <2>1 DEF AgreeInv, KeyInv, ListAgreesWithTree, TreeAgrees, ListAgrees
  <1>2. QED
    BY <1>1, AgreeInvariant, PTL

(***************************************************************************)
(* Only a kvs.put replaces a key's object with another one; the other     *)
(* steps leave the key tree alone or remove a key.                         *)
(***************************************************************************)
LEMMA OnlyPutReplaces ==
  ASSUME TypeInv, [Next]_vars, NEW k \in Keys,
         kvs'[k] # Nil, kvs'[k] # kvs[k]
  PROVE  \E p \in Procs : Put(p) /\ opKey[p] = k
  <1> USE DEF TypeInv, TypeOK
  <1>1. ASSUME NEW p \in Procs, Put(p) PROVE opKey[p] = k
    BY <1>1 DEF Put
  <1>2. ASSUME NEW p \in Procs, DeleteDel(p) PROVE FALSE
    BY <1>2 DEF DeleteDel
  <1>3. QED
    BY <1>1, <1>2 DEF Next, BeginGet, BeginCreateOrReplace, ReserveRevAndSlot,
       ReplaceGet, PutConflict, WriteSlots, DeleteCheck, SendEvent, Watch,
       Done, vars

(***************************************************************************)
(* When no two clients share a key, a key's resourceVersion only grows:   *)
(* a step that replaces the object a key holds installs one with a higher *)
(* revision, whatever the interleaving, for every number of clients, keys *)
(* and revisions.  The call that puts read the key's current object and   *)
(* reserved a newer revision after it; no other call writes the key in    *)
(* between.  Run keyrev shows it fails when clients share a key.          *)
(***************************************************************************)
THEOREM KeyRevGrowsUnderDisjoint ==
  ASSUME Disjoint
  PROVE  Spec => KeyRevGrows
  <1>1. AgreeInv /\ [Next]_vars =>
          \A k \in Keys : (kvs[k] # Nil /\ kvs'[k] # Nil /\ kvs'[k] # kvs[k])
                             => kvs'[k].rev > kvs[k].rev
    <2> SUFFICES ASSUME AgreeInv, [Next]_vars, NEW k \in Keys,
                        kvs[k] # Nil, kvs'[k] # Nil, kvs'[k] # kvs[k]
                 PROVE  kvs'[k].rev > kvs[k].rev
      OBVIOUS
    <2>1. PICK p \in Procs : Put(p) /\ opKey[p] = k
      BY OnlyPutReplaces DEF AgreeInv, IInv
    <2>2. kvs'[k] = NewSlot(p) /\ pc[p] = "put"
      BY <2>1 DEF Put, AgreeInv, IInv, TypeInv, TypeOK
    <2>3. curObj[p] = kvs[k]
      BY <2>1, <2>2 DEF AgreeInv, KeyInv, ReadCurrent, ReadCurrentAt
    <2>4. curObj[p].rev < newRev[p]
      BY <2>2, <2>3 DEF AgreeInv, RefInv, PutNewer
    <2>5. QED
      BY <2>2, <2>3, <2>4 DEF NewSlot
  <1>2. QED
    BY <1>1, AgreeInvariant, PTL DEF KeyRevGrows, Spec

=====
