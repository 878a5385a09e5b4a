--------------------------- MODULE FreezeWorldProofs ---------------------------
(***************************************************************************)
(* Proof that the read-lock bookkeeping of freezeWorld stays in range,    *)
(* for any finite set of goroutines and any calls they make: the nested   *)
(* RLock of binarySearchInObjList and the paired deferred RUnlocks keep   *)
(* each goroutine's depth in 0..2, and the writer's count of departing    *)
(* read locks (readerWait) never goes below zero.                          *)
(*                                                                         *)
(* TypeOK is not inductive: an RUnlock lowers readerWait while a writer   *)
(* is announced, so readerWait must count exactly the read locks still    *)
(* held since Lock announced the writer (no RLock is granted meanwhile),  *)
(* and each pc must hold the read locks its call has taken.  LockInv      *)
(* states that.                                                            *)
(***************************************************************************)
EXTENDS FreezeWorld, FiniteSetTheorems, TLAPS

USE FreezeWorldAssumption

\* The read locks a goroutine holds at each label of its call.
HoldsAtPc ==
    \A p \in Procs :
        /\ pc[p] \in {"idle", "enter", "lock", "lockwait", "locked"} => holds[p] = 0
        /\ pc[p] = "body"     => holds[p] = IF p \in blocked THEN 0 ELSE 1
        /\ pc[p] = "search"   => holds[p] = 1
        /\ pc[p] = "insearch" => holds[p] = IF p \in blocked THEN 1 ELSE 2
        /\ pc[p] = "exit"     => holds[p] = 1

\* Only the calls stopped at an RLock are blocked.
BlockedAtRLock == \A p \in blocked : pc[p] \in {"body", "insearch"}

\* The writer is the goroutine between Lock and Unlock.
WriterIsStop ==
    \A p \in Procs : pc[p] \in {"lockwait", "locked"} <=> writer = p

\* readerWait counts the read locks held while a writer is announced, and
\* is 0 once the writer holds the lock or none is announced.
ReaderWaitCounts ==
    /\ writer # Nil => readerWait = ReadLocksHeld
    /\ writer = Nil => readerWait = 0
    /\ \A p \in Procs : pc[p] = "locked" => readerWait = 0

\* A reader is blocked only behind a writer that holds or waits for the lock.
BlockedOnlyBehindWriter == blocked # {} => writer # Nil

LockInv ==
    /\ TypeOK
    /\ HoldsAtPc
    /\ BlockedAtRLock
    /\ WriterIsStop
    /\ ReaderWaitCounts
    /\ BlockedOnlyBehindWriter

-----------------------------------------------------------------------------
(***************************************************************************)
(* Facts about the count of read locks.                                    *)
(***************************************************************************)

\* Every holding of read locks is a finite set of tokens.
LEMMA TokensFinite ==
    ASSUME NEW h
    PROVE  IsFiniteSet(LockTokens(h))
<1>1. IsFiniteSet({1}) /\ IsFiniteSet({2})
  BY FS_Singleton
<1>2. IsFiniteSet({1} \cup {2})
  BY <1>1, FS_Union
<1>3. IsFiniteSet(Procs \X {1, 2})
  <2>1. {1} \cup {2} = {1, 2}
    OBVIOUS
  <2>2. QED
    BY <1>2, <2>1, FS_Product
<1>4. LockTokens(h) \in SUBSET (Procs \X {1, 2})
  BY DEF LockTokens
<1>5. QED
  BY <1>3, <1>4, FS_Subset

\* Releasing one of p's read locks removes exactly one token.
LEMMA ReleaseOneToken ==
    ASSUME NEW h \in [Procs -> 0..2], NEW p \in Procs, h[p] \in {1, 2}
    PROVE  Cardinality(LockTokens(h))
             = Cardinality(LockTokens([h EXCEPT ![p] = h[p] - 1])) + 1
<1>1. LockTokens([h EXCEPT ![p] = h[p] - 1]) = LockTokens(h) \ {<<p, h[p]>>}
  BY DEF LockTokens
<1>2. <<p, h[p]>> \in LockTokens(h)
  BY DEF LockTokens
<1>3. IsFiniteSet(LockTokens(h))
  BY TokensFinite
<1>4. Cardinality(LockTokens(h)) \in Nat
  BY <1>3, FS_CardinalityType
<1>5. Cardinality(LockTokens(h) \ {<<p, h[p]>>}) = Cardinality(LockTokens(h)) - 1
  BY <1>2, <1>3, FS_RemoveElement
<1>6. \A a \in Nat : \A b : b = a - 1 => a = b + 1
  OBVIOUS
<1>7. QED
  BY <1>1, <1>4, <1>5, <1>6, Zenon

-----------------------------------------------------------------------------
(***************************************************************************)
(* LockInv is inductive.                                                   *)
(***************************************************************************)
LEMMA InitLockInv == Init => LockInv
<1> SUFFICES ASSUME Init PROVE LockInv
  OBVIOUS
<1>1. ReadLocksHeld = 0
  <2>1. LockTokens(holds) = {}
    BY DEF Init, LockTokens
  <2>2. QED
    BY <2>1, FS_EmptySet DEF ReadLocksHeld
<1>2. QED
  BY <1>1 DEF Init, LockInv, TypeOK, HoldsAtPc, BlockedAtRLock, WriterIsStop,
             ReaderWaitCounts, BlockedOnlyBehindWriter, Pcs

LEMMA NextLockInv == LockInv /\ [Next]_vars => LockInv'
<1> SUFFICES ASSUME LockInv, [Next]_vars PROVE LockInv'
  OBVIOUS
<1> USE DEF LockInv, TypeOK, HoldsAtPc, BlockedAtRLock, WriterIsStop,
            ReaderWaitCounts, BlockedOnlyBehindWriter, Pcs
<1>1. CASE UNCHANGED vars
  BY <1>1 DEF vars, ReadLocksHeld
<1>2. ASSUME NEW p \in Procs, NEW o \in Ops, Call(p, o) PROVE LockInv'
  BY <1>2 DEF Call, ReadLocksHeld
<1>3. ASSUME NEW p \in Procs, EnterRLock(p) PROVE LockInv'
  BY <1>3 DEF EnterRLock, RLock, ReadLocksHeld
<1>4. ASSUME NEW p \in Procs, Body(p) PROVE LockInv'
  BY <1>4 DEF Body, ReadLocksHeld
<1>5. ASSUME NEW p \in Procs, SearchRLock(p) PROVE LockInv'
  BY <1>5 DEF SearchRLock, RLock, ReadLocksHeld
<1>6. ASSUME NEW p \in Procs, SearchRUnlock(p) PROVE LockInv'
  <2>1. ReadLocksHeld = ReadLocksHeld' + 1
    BY <1>6, ReleaseOneToken DEF SearchRUnlock, RUnlock, ReadLocksHeld
  <2>2. ReadLocksHeld' \in Nat
    BY TokensFinite, FS_CardinalityType DEF ReadLocksHeld
  <2>3. ReaderWaitCounts'
    <3>1. writer' = writer /\ pc' = [pc EXCEPT ![p] = pc'[p]] /\ pc'[p] # "locked"
      BY <1>6 DEF SearchRUnlock, RUnlock
    <3>2. readerWait' = IF writer # Nil /\ readerWait > 0
                        THEN readerWait - 1 ELSE readerWait
      BY <1>6 DEF SearchRUnlock, RUnlock
    <3>3. CASE writer # Nil
      <4>1. readerWait = ReadLocksHeld' + 1
        BY <3>3, <2>1 DEF ReadLocksHeld
      <4>2. readerWait' = ReadLocksHeld'
        BY <3>2, <3>3, <4>1, <2>2 DEF ReadLocksHeld
      <4>3. \A q \in Procs : pc'[q] = "locked" => readerWait' = 0
        BY <3>1, <4>2, <2>1, <2>2 DEF ReadLocksHeld
      <4>4. QED
        BY <3>1, <3>3, <4>2, <4>3 DEF ReadLocksHeld
    <3>4. CASE writer = Nil
      BY <3>1, <3>2, <3>4
    <3>5. QED
      BY <3>3, <3>4
  <2>4. TypeOK' /\ HoldsAtPc' /\ BlockedAtRLock' /\ WriterIsStop'
          /\ BlockedOnlyBehindWriter'
    BY <1>6 DEF SearchRUnlock, RUnlock
  <2>5. QED
    BY <2>3, <2>4
<1>7. ASSUME NEW p \in Procs, ExitRUnlock(p) PROVE LockInv'
  <2>1. ReadLocksHeld = ReadLocksHeld' + 1
    BY <1>7, ReleaseOneToken DEF ExitRUnlock, RUnlock, ReadLocksHeld
  <2>2. ReadLocksHeld' \in Nat
    BY TokensFinite, FS_CardinalityType DEF ReadLocksHeld
  <2>3. ReaderWaitCounts'
    <3>1. writer' = writer /\ pc' = [pc EXCEPT ![p] = pc'[p]] /\ pc'[p] # "locked"
      BY <1>7 DEF ExitRUnlock, RUnlock
    <3>2. readerWait' = IF writer # Nil /\ readerWait > 0
                        THEN readerWait - 1 ELSE readerWait
      BY <1>7 DEF ExitRUnlock, RUnlock
    <3>3. CASE writer # Nil
      <4>1. readerWait = ReadLocksHeld' + 1
        BY <3>3, <2>1 DEF ReadLocksHeld
      <4>2. readerWait' = ReadLocksHeld'
        BY <3>2, <3>3, <4>1, <2>2 DEF ReadLocksHeld
      <4>3. \A q \in Procs : pc'[q] = "locked" => readerWait' = 0
        BY <3>1, <4>2, <2>1, <2>2 DEF ReadLocksHeld
      <4>4. QED
        BY <3>1, <3>3, <4>2, <4>3 DEF ReadLocksHeld
    <3>4. CASE writer = Nil
      BY <3>1, <3>2, <3>4
    <3>5. QED
      BY <3>3, <3>4
  <2>4. TypeOK' /\ HoldsAtPc' /\ BlockedAtRLock' /\ WriterIsStop'
          /\ BlockedOnlyBehindWriter'
    BY <1>7 DEF ExitRUnlock, RUnlock
  <2>5. QED
    BY <2>3, <2>4
<1>8. ASSUME NEW p \in Procs, Lock(p) PROVE LockInv'
  <2>1. ReadLocksHeld \in Nat
    BY TokensFinite, FS_CardinalityType DEF ReadLocksHeld
  <2>2. QED
    BY <1>8, <2>1 DEF Lock, ReadLocksHeld
<1>9. ASSUME NEW p \in Procs, LockAcquire(p) PROVE LockInv'
  BY <1>9 DEF LockAcquire, ReadLocksHeld
<1>10. ASSUME NEW p \in Procs, Unlock(p) PROVE LockInv'
  BY <1>10 DEF Unlock
<1>11. QED
  BY <1>1, <1>2, <1>3, <1>4, <1>5, <1>6, <1>7, <1>8, <1>9, <1>10
     DEF Next, Step

-----------------------------------------------------------------------------
(***************************************************************************)
(* The theorems.                                                           *)
(***************************************************************************)

(***************************************************************************)
(* Every reachable state is well typed, for any finite set of goroutines: *)
(* the call sites' nested RLock and deferred RUnlocks keep every read-lock *)
(* depth in 0..2, and no RUnlock drives readerWait below zero.             *)
(***************************************************************************)
THEOREM FreezeWorldTypeCorrect == Spec => []TypeOK
BY InitLockInv, NextLockInv, PTL DEF Spec, LockInv

====
