----------------------------- MODULE FreezeWorld -----------------------------
(***************************************************************************)
(* The store's global quiesce lock, ms.freezeWorld (a sync.RWMutex), and   *)
(* the calls that take it (pkg/store/inmemory/simple_memory_store.go):     *)
(*   - the public operations that take it (Create, Delete, Get, GetList,   *)
(*     the updates, getObjEventsAfterRev) hold freezeWorld.RLock for their *)
(*     whole body; Count and watch's registration (lines 125, 764) take no *)
(*     lock, do not touch freezeWorld, and are left out;                   *)
(*   - GetList and getObjEventsAfterRev (watch with a resourceVersion)     *)
(*     call binarySearchInObjList from inside that body, and it takes      *)
(*     freezeWorld.RLock a second time;                                     *)
(*   - Stop takes freezeWorld.Lock and releases it.                         *)
(* The bodies themselves are abstracted away: only the lock steps remain.  *)
(*                                                                         *)
(* sync.RWMutex is modelled by what it does: Lock first takes the writer   *)
(* mutex w, then announces itself, which makes every later RLock block,    *)
(* and waits until the read locks held at that moment are released;       *)
(* Unlock grants the read locks of all blocked readers.                    *)
(***************************************************************************)
EXTENDS Naturals, FiniteSets

CONSTANTS
    Procs,      \* goroutines calling the store
    OpsOf,      \* OpsOf[p]: the calls goroutine p makes
    Nil

Ops == {"Op", "List", "Stop"}

ASSUME FreezeWorldAssumption ==
    /\ IsFiniteSet(Procs)
    /\ OpsOf \in [Procs -> SUBSET Ops]
    /\ Nil \notin Procs

VARIABLES
    pc,         \* pc[p]: where goroutine p is
    op,         \* op[p]: the call p is making
    holds,      \* holds[p]: read locks p holds (nested RLock counts twice)
    blocked,    \* goroutines blocked in RLock behind a writer
    writer,     \* the goroutine holding the writer mutex w, or Nil
    readerWait  \* read locks the writer still waits to be released

vars == <<pc, op, holds, blocked, writer, readerWait>>

Pcs == {"idle", "enter", "body", "search", "insearch", "exit",
        "lock", "lockwait", "locked"}

TypeOK ==
    /\ pc \in [Procs -> Pcs]
    /\ op \in [Procs -> Ops \cup {Nil}]
    /\ holds \in [Procs -> 0..2]
    /\ blocked \subseteq Procs
    /\ writer \in Procs \cup {Nil}
    /\ readerWait \in Nat

Init ==
    /\ pc = [p \in Procs |-> "idle"]
    /\ op = [p \in Procs |-> Nil]
    /\ holds = [p \in Procs |-> 0]
    /\ blocked = {}
    /\ writer = Nil
    /\ readerWait = 0

-----------------------------------------------------------------------------
(***************************************************************************)
(* RLock by p, continuing at label next: it is granted at once unless a    *)
(* writer has announced itself, in which case p blocks until Unlock.       *)
(***************************************************************************)
RLock(p, next) ==
    /\ pc' = [pc EXCEPT ![p] = next]
    /\ IF writer = Nil
       THEN /\ holds' = [holds EXCEPT ![p] = @ + 1]
            /\ UNCHANGED blocked
       ELSE /\ blocked' = blocked \cup {p}
            /\ UNCHANGED holds

\* RUnlock by p: a release the waiting writer counted lets it come closer.
RUnlock(p, next) ==
    /\ holds' = [holds EXCEPT ![p] = @ - 1]
    /\ readerWait' = IF writer # Nil /\ readerWait > 0
                     THEN readerWait - 1 ELSE readerWait
    /\ pc' = [pc EXCEPT ![p] = next]

\* A goroutine starts a call.
Call(p, o) ==
    /\ pc[p] = "idle"
    /\ o \in OpsOf[p]
    /\ op' = [op EXCEPT ![p] = o]
    /\ pc' = [pc EXCEPT ![p] = IF o = "Stop" THEN "lock" ELSE "enter"]
    /\ UNCHANGED <<holds, blocked, writer, readerWait>>

\* ms.freezeWorld.RLock() at the top of every public operation.
EnterRLock(p) ==
    /\ pc[p] = "enter"
    /\ RLock(p, "body")
    /\ UNCHANGED <<op, writer, readerWait>>

(***************************************************************************)
(* The body of a call.  A GetList with a continue token or a               *)
(* resourceVersion, and getObjEventsAfterRev, call binarySearchInObjList,  *)
(* which takes the read lock again; other bodies run to their end.         *)
(***************************************************************************)
Body(p) ==
    /\ pc[p] = "body"
    /\ p \notin blocked
    /\ \/ /\ op[p] = "List"
          /\ pc' = [pc EXCEPT ![p] = "search"]
       \/ pc' = [pc EXCEPT ![p] = "exit"]
    /\ UNCHANGED <<op, holds, blocked, writer, readerWait>>

\* binarySearchInObjList: ms.freezeWorld.RLock() ...
SearchRLock(p) ==
    /\ pc[p] = "search"
    /\ RLock(p, "insearch")
    /\ UNCHANGED <<op, writer, readerWait>>

\* A binarySearchInObjList that never releases its read lock.
SearchNoRUnlock(p) ==
    /\ pc[p] = "insearch"
    /\ p \notin blocked
    /\ pc' = [pc EXCEPT ![p] = "exit"]
    /\ UNCHANGED <<op, holds, blocked, writer, readerWait>>

\* ... and its deferred RUnlock once sort.Search returns.
SearchRUnlock(p) ==
    /\ pc[p] = "insearch"
    /\ p \notin blocked
    /\ RUnlock(p, "exit")
    /\ UNCHANGED <<op, blocked, writer>>

\* The deferred ms.freezeWorld.RUnlock() of the operation.
ExitRUnlock(p) ==
    /\ pc[p] = "exit"
    /\ RUnlock(p, "idle")
    /\ op' = [op EXCEPT ![p] = Nil]
    /\ UNCHANGED <<blocked, writer>>

(***************************************************************************)
(* Stop: ms.freezeWorld.Lock(), then the deferred Unlock().  Lock takes    *)
(* the writer mutex w and announces the writer, counting the read locks    *)
(* held at that moment (readerCount, nested ones included); it holds the   *)
(* lock once all of those are released.                                    *)
(***************************************************************************)
\* One token <<q, i>> per read lock q holds under h, i = 1 .. h[q].
LockTokens(h) == {t \in Procs \X {1, 2} : t[2] <= h[t[1]]}

ReadLocksHeld == Cardinality(LockTokens(holds))

Lock(p) ==
    /\ pc[p] = "lock"
    /\ writer = Nil
    /\ writer' = p
    /\ readerWait' = ReadLocksHeld
    /\ pc' = [pc EXCEPT ![p] = "lockwait"]
    /\ UNCHANGED <<op, holds, blocked>>

\* The writer wakes once the last counted read lock is released.
LockAcquire(p) ==
    /\ pc[p] = "lockwait"
    /\ readerWait = 0
    /\ pc' = [pc EXCEPT ![p] = "locked"]
    /\ UNCHANGED <<op, holds, blocked, writer, readerWait>>

\* Unlock: every blocked reader is granted its read lock; w is released.
Unlock(p) ==
    /\ pc[p] = "locked"
    /\ writer' = Nil
    /\ holds' = [q \in Procs |-> IF q \in blocked THEN holds[q] + 1 ELSE holds[q]]
    /\ blocked' = {}
    /\ pc' = [pc EXCEPT ![p] = "idle"]
    /\ op' = [op EXCEPT ![p] = Nil]
    /\ UNCHANGED readerWait

Step(p) ==
    \/ \E o \in Ops : Call(p, o)
    \/ EnterRLock(p)
    \/ Body(p)
    \/ SearchRLock(p)
    \/ SearchRUnlock(p)
    \/ ExitRUnlock(p)
    \/ Lock(p)
    \/ LockAcquire(p)
    \/ Unlock(p)

Next == \E p \in Procs : Step(p)

\* The Go scheduler runs every runnable goroutine: weak fairness per goroutine.
Fairness == \A p \in Procs : WF_vars(Step(p))

Spec == Init /\ [][Next]_vars /\ Fairness

-----------------------------------------------------------------------------
(***************************************************************************)
(* Every call returns: a goroutine that starts an operation, a GetList or  *)
(* a Stop eventually comes back idle (the store never wedges its callers). *)
(***************************************************************************)
CallsReturn == \A p \in Procs : pc[p] # "idle" ~> pc[p] = "idle"


====
