------------------------------ MODULE MemStore ------------------------------
(***************************************************************************)
(* The write path of the in-memory revision-ordered store                  *)
(* (pkg/store/inmemory/simple_memory_store.go, type MemoryStore).          *)
(*                                                                         *)
(* Every public mutating method runs on the caller's goroutine and is NOT  *)
(* atomic: it reads the key tree (kvs.get), reserves a revision and a slot *)
(* of the revision-ordered list under revmu (reserveRevAndSlot), writes    *)
(* the key tree (kvs.put / kvs.del, each atomic under the tree's locks),   *)
(* writes the slots of kvList, and finally broadcasts an event to the      *)
(* registered watchers (sendEvent).  Each of those is one step of a        *)
(* client process here, so that the steps of several clients interleave   *)
(* the way the goroutines do.                                              *)
(*                                                                         *)
(* Object contents are abstracted to the only thing the store inspects:    *)
(* the resource version.  A slot (objWithIndex) is the record              *)
(* [key, rev, index]; since every slot gets a fresh revision, two slot     *)
(* records are equal exactly when they are the same Go pointer.  Indexes   *)
(* of kvList are 1-based here, 0-based in Go.                              *)
(***************************************************************************)
EXTENDS Naturals, Sequences

CONSTANTS
    Keys,       \* the keys clients operate on
    Procs,      \* client goroutines calling the store
    KeysOf,     \* KeysOf[p]: the keys client p may pass to the store
    Watchers,   \* watch subscriptions that may be registered
    InitRev,    \* initial value of the global counter _MemoryRev
    MaxRev,     \* bound on _MemoryRev, to keep the model finite
    Nil         \* absent object / tombstone slot / unset local

ASSUME KeysOfAssumption == KeysOf \in [Procs -> SUBSET Keys]
ASSUME RevAssumption == InitRev \in Nat /\ MaxRev \in Nat /\ InitRev <= MaxRev

VARIABLES
    memRev,     \* _MemoryRev, the process-wide revision counter
    kvs,        \* the key tree: key -> the live slot, or Nil
    kvList,     \* the revision-ordered slot list: slot or Nil (tombstone)
    watchers,   \* ms.watchers: the registered watch subscriptions
    recv,       \* recv[w]: the events pushed into w's incoming channel
    events,     \* history: every event any sendEvent has broadcast
    pc,         \* pc[p]: where client p is inside its current call
    op,         \* op[p]: the method client p is executing
    opKey,      \* opKey[p]: the key argument of that call
    curObj,     \* curObj[p]: the slot client p read from kvs (curObjWi)
    newRev,     \* newRev[p]: the revision client p was given
    newIndex    \* newIndex[p]: the kvList slot client p reserved

clientVars == <<pc, op, opKey, curObj, newRev, newIndex>>
vars == <<memRev, kvs, kvList, watchers, recv, events, clientVars>>

Rev == InitRev..MaxRev
Slot == [key: Keys, rev: Rev, index: Nat \ {0}]
\* Nil is none of the keys and none of the slots.
ASSUME NilAssumption == Nil \notin Keys \cup Slot

EventKind == {"Created", "Updated", "Deleted"}
\* An objEvent; old is the revision of oldObj, 0 when oldObj is nil.
Event == [key: Keys, rev: Rev, kind: EventKind, old: Rev \cup {0}]

Ops == {"Create", "Delete", "GuaranteedUpdate", "CreateOrUpdate",
        "GetOrCreate", "CreateOrReplace"}
Pcs == {"idle", "reserve", "get", "put", "index", "check", "del", "send"}

TypeOK ==
    /\ memRev \in Rev
    /\ kvs \in [Keys -> Slot \cup {Nil}]
    /\ kvList \in Seq(Slot \cup {Nil})
    /\ watchers \subseteq Watchers
    /\ recv \in [Watchers -> Seq(Event)]
    /\ events \subseteq Event
    /\ pc \in [Procs -> Pcs]
    /\ op \in [Procs -> Ops \cup {Nil}]
    /\ opKey \in [Procs -> Keys \cup {Nil}]
    /\ curObj \in [Procs -> Slot \cup {Nil}]
    /\ newRev \in [Procs -> Rev \cup {0}]
    /\ newIndex \in [Procs -> Nat]

Init ==
    /\ memRev = InitRev
    /\ kvs = [k \in Keys |-> Nil]
    /\ kvList = << >>
    /\ watchers = {}
    /\ recv = [w \in Watchers |-> << >>]
    /\ events = {}
    /\ pc = [p \in Procs |-> "idle"]
    /\ op = [p \in Procs |-> Nil]
    /\ opKey = [p \in Procs |-> Nil]
    /\ curObj = [p \in Procs |-> Nil]
    /\ newRev = [p \in Procs |-> 0]
    /\ newIndex = [p \in Procs |-> 0]

(***************************************************************************)
(* Control flow of a call.                                                 *)
(***************************************************************************)
Goto(p, l) == pc' = [pc EXCEPT ![p] = l]

\* A call returns: the client is idle again and its locals are dropped.
Return(p) ==
    /\ pc' = [pc EXCEPT ![p] = "idle"]
    /\ op' = [op EXCEPT ![p] = Nil]
    /\ opKey' = [opKey EXCEPT ![p] = Nil]
    /\ curObj' = [curObj EXCEPT ![p] = Nil]
    /\ newRev' = [newRev EXCEPT ![p] = 0]
    /\ newIndex' = [newIndex EXCEPT ![p] = 0]

\* Where a call goes after its kvs.get returned c: "reserve" to go on with
\* a write, "check" for Delete's locked section, "idle" for an early return.
\* Create: an existing key is a KeyExistsError.  GetOrCreate: an existing
\* object is returned as it is.
CreateAfterGet(c) == IF c = Nil THEN {"reserve"} ELSE {"idle"}

\* Delete: an absent key is a KeyNotFoundError.
DeleteAfterGet(c) == IF c = Nil THEN {"idle"} ELSE {"check"}

\* GuaranteedUpdate: an absent key returns (zero value or KeyNotFound); a
\* present one may still fail its preconditions or tryUpdate.
UpdateAfterGet(c) == IF c = Nil THEN {"idle"} ELSE {"reserve", "idle"}

\* CreateOrUpdate: an absent key is created; a present one is merged, and
\* returns an error when mergeFunc is nil or fails.
MergeAfterGet(c) == IF c = Nil THEN {"reserve"} ELSE {"reserve", "idle"}

AfterGet(o, c) ==
    CASE o \in {"Create", "GetOrCreate"} -> CreateAfterGet(c)
      [] o = "Delete"                     -> DeleteAfterGet(c)
      [] o = "GuaranteedUpdate"           -> UpdateAfterGet(c)
      [] o = "CreateOrUpdate"             -> MergeAfterGet(c)

(***************************************************************************)
(* A call begins: the method's first kvs.get (every method but             *)
(* CreateOrReplace, which reserves its revision before it reads).          *)
(***************************************************************************)
BeginGet(p, o, k) ==
    /\ pc[p] = "idle"
    /\ memRev < MaxRev
    /\ \E next \in AfterGet(o, kvs[k]) :
         IF next = "idle"
         THEN UNCHANGED clientVars
         ELSE /\ Goto(p, next)
              /\ op' = [op EXCEPT ![p] = o]
              /\ opKey' = [opKey EXCEPT ![p] = k]
              /\ curObj' = [curObj EXCEPT ![p] = kvs[k]]
              /\ UNCHANGED <<newRev, newIndex>>
    /\ UNCHANGED <<memRev, kvs, kvList, watchers, recv, events>>

BeginCreateOrReplace(p, k) ==
    /\ pc[p] = "idle"
    /\ memRev < MaxRev
    /\ Goto(p, "reserve")
    /\ op' = [op EXCEPT ![p] = "CreateOrReplace"]
    /\ opKey' = [opKey EXCEPT ![p] = k]
    /\ UNCHANGED <<curObj, newRev, newIndex>>
    /\ UNCHANGED <<memRev, kvs, kvList, watchers, recv, events>>

\* Mutant: the increment of _MemoryRev is lost (a racy read-modify-write),
\* and a later reservation hands out the same revision again.
ReserveRevAndSlotLostIncrement(p) ==
    /\ pc[p] = "reserve"
    /\ memRev < MaxRev
    /\ UNCHANGED memRev
    /\ kvList' = Append(kvList, Nil)
    /\ newRev' = [newRev EXCEPT ![p] = memRev + 1]
    /\ newIndex' = [newIndex EXCEPT ![p] = Len(kvList) + 1]
    /\ Goto(p, IF op[p] = "CreateOrReplace" THEN "get" ELSE "put")
    /\ UNCHANGED <<kvs, watchers, recv, events, op, opKey, curObj>>

\* Mutant: the slot index is len(kvList) before the append, off by one
\* against the 1-based list (the Go code's 0-based index kept as is).
ReserveRevAndSlotOffByOne(p) ==
    /\ pc[p] = "reserve"
    /\ memRev < MaxRev
    /\ memRev' = memRev + 1
    /\ kvList' = Append(kvList, Nil)
    /\ newRev' = [newRev EXCEPT ![p] = memRev + 1]
    /\ newIndex' = [newIndex EXCEPT ![p] = Len(kvList)]
    /\ Goto(p, IF op[p] = "CreateOrReplace" THEN "get" ELSE "put")
    /\ UNCHANGED <<kvs, watchers, recv, events, op, opKey, curObj>>

(***************************************************************************)
(* reserveRevAndSlot: under revmu, bump _MemoryRev and append a nil slot.  *)
(***************************************************************************)
ReserveRevAndSlot(p) ==
    /\ pc[p] = "reserve"
    /\ memRev < MaxRev
    /\ memRev' = memRev + 1
    /\ kvList' = Append(kvList, Nil)
    /\ newRev' = [newRev EXCEPT ![p] = memRev + 1]
    /\ newIndex' = [newIndex EXCEPT ![p] = Len(kvList) + 1]
    /\ Goto(p, IF op[p] = "CreateOrReplace" THEN "get" ELSE "put")
    /\ UNCHANGED <<kvs, watchers, recv, events, op, opKey, curObj>>

\* CreateOrReplace's kvs.get, after its reservation.
ReplaceGet(p) ==
    /\ pc[p] = "get"
    /\ curObj' = [curObj EXCEPT ![p] = kvs[opKey[p]]]
    /\ Goto(p, "put")
    /\ UNCHANGED <<memRev, kvs, kvList, watchers, recv, events>>
    /\ UNCHANGED <<op, opKey, newRev, newIndex>>

(***************************************************************************)
(* kvs.put(keys, slot, expectedRv): expectedRv is 0 on the create paths    *)
(* (the key must be absent) and currRv on the update paths (the key must   *)
(* still hold the revision the caller read).                               *)
(***************************************************************************)
ExpectedRv(p) == IF curObj[p] = Nil THEN 0 ELSE curObj[p].rev

PutAccepts(k, expectedRv) ==
    IF expectedRv = 0 THEN kvs[k] = Nil
    ELSE kvs[k] # Nil /\ kvs[k].rev = expectedRv

NewSlot(p) == [key |-> opKey[p], rev |-> newRev[p], index |-> newIndex[p]]

Put(p) ==
    /\ pc[p] = "put"
    /\ PutAccepts(opKey[p], ExpectedRv(p))
    /\ kvs' = [kvs EXCEPT ![opKey[p]] = NewSlot(p)]
    /\ Goto(p, "index")
    /\ UNCHANGED <<memRev, kvList, watchers, recv, events>>
    /\ UNCHANGED <<op, opKey, curObj, newRev, newIndex>>

\* kvs.put refuses: the call returns its error; the reserved slot stays nil.
PutConflict(p) ==
    /\ pc[p] = "put"
    /\ ~PutAccepts(opKey[p], ExpectedRv(p))
    /\ Return(p)
    /\ UNCHANGED <<memRev, kvs, kvList, watchers, recv, events>>

\* Mutant: the slot of the replaced object is not cleared.
WriteSlotsKeepOld(p) ==
    /\ pc[p] = "index"
    /\ kvList' = [kvList EXCEPT ![newIndex[p]] = NewSlot(p)]
    /\ Goto(p, "send")
    /\ UNCHANGED <<memRev, kvs, watchers, recv, events>>
    /\ UNCHANGED <<op, opKey, curObj, newRev, newIndex>>

\* kvList[curObjWi.index] = nil; kvList[index] = objWi (no lock held).
WriteSlots(p) ==
    /\ pc[p] = "index"
    /\ kvList' = [ [i \in DOMAIN kvList |->
                      IF curObj[p] # Nil /\ i = curObj[p].index
                      THEN Nil ELSE kvList[i]]
                   EXCEPT ![newIndex[p]] = NewSlot(p) ]
    /\ Goto(p, "send")
    /\ UNCHANGED <<memRev, kvs, watchers, recv, events>>
    /\ UNCHANGED <<op, opKey, curObj, newRev, newIndex>>

(***************************************************************************)
(* Delete: under revmu, preconditions and validateDeletion are checked on  *)
(* the object read before the lock, then _MemoryRev is bumped (no slot).   *)
(* Then kvs.del removes whatever the key holds now and the slot that was   *)
(* read is cleared.                                                        *)
(***************************************************************************)
\* Mutant: the delete's revision is read (atomic.LoadUint64) rather than
\* taken (atomic.AddUint64), so it repeats one already handed out.
DeleteCheckLoadRev(p) ==
    /\ pc[p] = "check"
    /\ \/ /\ memRev < MaxRev
          /\ UNCHANGED memRev
          /\ newRev' = [newRev EXCEPT ![p] = memRev]
          /\ Goto(p, "del")
          /\ UNCHANGED <<op, opKey, curObj, newIndex>>
       \/ /\ Return(p)
          /\ UNCHANGED memRev
    /\ UNCHANGED <<kvs, kvList, watchers, recv, events>>

DeleteCheck(p) ==
    /\ pc[p] = "check"
    /\ \/ /\ memRev < MaxRev
          /\ memRev' = memRev + 1
          /\ newRev' = [newRev EXCEPT ![p] = memRev + 1]
          /\ Goto(p, "del")
          /\ UNCHANGED <<op, opKey, curObj, newIndex>>
       \/ /\ Return(p)
          /\ UNCHANGED memRev
    /\ UNCHANGED <<kvs, kvList, watchers, recv, events>>

DeleteDel(p) ==
    /\ pc[p] = "del"
    /\ \/ /\ kvs[opKey[p]] # Nil
          /\ kvs' = [kvs EXCEPT ![opKey[p]] = Nil]
          /\ kvList' = [kvList EXCEPT ![curObj[p].index] = Nil]
          /\ Goto(p, "send")
          /\ UNCHANGED <<op, opKey, curObj, newRev, newIndex>>
       \/ /\ kvs[opKey[p]] = Nil
          /\ Return(p)
          /\ UNCHANGED <<kvs, kvList>>
    /\ UNCHANGED <<memRev, watchers, recv, events>>

(***************************************************************************)
(* sendEvent: push the event into every registered watcher's channel.      *)
(***************************************************************************)
\* Mutant: the event carries the new object where the old one belongs.
EventOfNewAsOld(p) ==
    [key |-> opKey[p], rev |-> newRev[p],
     kind |-> IF op[p] = "Delete" THEN "Deleted"
              ELSE IF curObj[p] = Nil THEN "Created" ELSE "Updated",
     old |-> newRev[p]]

EventOf(p) ==
    [key |-> opKey[p], rev |-> newRev[p],
     kind |-> IF op[p] = "Delete" THEN "Deleted"
              ELSE IF curObj[p] = Nil THEN "Created" ELSE "Updated",
     old |-> ExpectedRv(p)]

SendEvent(p) ==
    /\ pc[p] = "send"
    /\ events' = events \cup {EventOf(p)}
    /\ recv' = [w \in Watchers |->
                  IF w \in watchers THEN Append(recv[w], EventOf(p))
                  ELSE recv[w]]
    /\ Return(p)
    /\ UNCHANGED <<memRev, kvs, kvList, watchers>>

(***************************************************************************)
(* Watch with resourceVersion 0: register and tail the live events.        *)
(***************************************************************************)
Watch(w) ==
    /\ w \notin watchers
    /\ watchers' = watchers \cup {w}
    /\ UNCHANGED <<memRev, kvs, kvList, recv, events, clientVars>>

\* _MemoryRev reached the model's bound: no call takes a revision any more
\* (calls that wait for one stay where they are) and the run may stop.
Done ==
    /\ memRev = MaxRev
    /\ UNCHANGED vars

Next ==
    \/ \E p \in Procs :
         \/ \E k \in KeysOf[p] :
              \/ \E o \in Ops \ {"CreateOrReplace"} : BeginGet(p, o, k)
              \/ BeginCreateOrReplace(p, k)
         \/ ReserveRevAndSlot(p)
         \/ ReplaceGet(p)
         \/ Put(p)
         \/ PutConflict(p)
         \/ WriteSlots(p)
         \/ DeleteCheck(p)
         \/ DeleteDel(p)
         \/ SendEvent(p)
    \/ \E w \in Watchers : Watch(w)
    \/ Done

Spec == Init /\ [][Next]_vars

-----------------------------------------------------------------------------
(***************************************************************************)
(* Properties.                                                             *)
(***************************************************************************)

\* A key no client is in the middle of a call on.
Settled(k) == \A p \in Procs : pc[p] = "idle" \/ opKey[p] # k

(***************************************************************************)
(* The list is ordered by revision (spec invariant 2): reserveRevAndSlot   *)
(* hands out revisions and slots under one lock, so slot positions and     *)
(* revisions increase together, and every slot records its own position.  *)
(* Binary search over kvList (GetList, Watch) depends on it.              *)
(***************************************************************************)
RevListSorted ==
    /\ \A i \in DOMAIN kvList : kvList[i] # Nil => kvList[i].index = i
    /\ \A i, j \in DOMAIN kvList :
         (i < j /\ kvList[i] # Nil /\ kvList[j] # Nil)
            => kvList[i].rev < kvList[j].rev

(***************************************************************************)
(* The key tree and the revision list agree on every key no call is        *)
(* working on (spec invariants 1 and 3): the slot kvs holds for a key is   *)
(* in kvList at its index, and no other live slot of kvList has that key.  *)
(* Broken if a write clears the wrong slot, or a call's late kvList write  *)
(* resurrects a slot another call already superseded.                      *)
(***************************************************************************)
IndexesAgree ==
    \A k \in Keys : Settled(k) =>
      /\ kvs[k] # Nil => /\ kvs[k].index \in DOMAIN kvList
                         /\ kvList[kvs[k].index] = kvs[k]
      /\ \A i \in DOMAIN kvList :
           (kvList[i] # Nil /\ kvList[i].key = k) => kvs[k] = kvList[i]

(***************************************************************************)
(* The events broadcast for a key, read in revision order, tell its whole  *)
(* history (spec invariant 3 and property 6): a Created event follows      *)
(* nothing or a Deleted one, every other event's pre-image is the          *)
(* previous event's object, and the last event is the key's current state  *)
(* in the tree.  Every successful mutation must emit exactly one event,    *)
(* with the pre-image it really replaced.                                  *)
(***************************************************************************)
KeyEvents(k) == {e \in events : e.key = k}
LatestOf(E) == CHOOSE e \in E : \A d \in E : d.rev <= e.rev
LiveAfter(E) == E # {} /\ LatestOf(E).kind # "Deleted"

EventChain ==
    \A k \in Keys : Settled(k) =>
      /\ \A e \in KeyEvents(k) :
           LET before == {d \in KeyEvents(k) : d.rev < e.rev} IN
           IF LiveAfter(before)
           THEN e.kind # "Created" /\ e.old = LatestOf(before).rev
           ELSE e.kind = "Created" /\ e.old = 0
      /\ IF LiveAfter(KeyEvents(k))
         THEN kvs[k] # Nil /\ kvs[k].rev = LatestOf(KeyEvents(k)).rev
         ELSE kvs[k] = Nil

(***************************************************************************)
(* Every watcher receives its events in strictly increasing revision      *)
(* (spec invariant 5, section 4.E): sendEvent must deliver events in the  *)
(* order reserveRevAndSlot handed out their revisions.                    *)
(***************************************************************************)
WatchOrder ==
    \A w \in Watchers : \A i, j \in DOMAIN recv[w] :
      i < j => recv[w][i].rev < recv[w][j].rev


(***************************************************************************)
(* A key's revision only grows (spec, quantified invariant 1: successful  *)
(* mutations get strictly increasing revisions): a step that replaces the *)
(* object a key holds installs one with a higher resourceVersion.  Broken *)
(* when a call that reserved its revision early commits after a call that *)
(* reserved later, e.g. CreateOrReplace, which reserves before its get.   *)
(***************************************************************************)
KeyRevGrows ==
    [][\A k \in Keys :
         (kvs[k] # Nil /\ kvs'[k] # Nil /\ kvs'[k] # kvs[k])
            => kvs'[k].rev > kvs[k].rev]_vars


(***************************************************************************)
(* Refinement: the store implements AtomicStore.  The abstract map is the *)
(* revision of each key's object in kvs, the counter is _MemoryRev, and   *)
(* the pending revisions are those of the calls that hold a reservation   *)
(* and have not yet committed it (kvs.put or kvs.del) or given it up.     *)
(* Every step of a call must then be one atomic abstract mutation or a    *)
(* stutter: a revision is committed at most once, by the call that took   *)
(* it, to one key, and only over an older object.                         *)
(***************************************************************************)
Reserving == {p \in Procs : pc[p] \in {"get", "put", "del"}}

Atomic == INSTANCE AtomicStore WITH
    rev <- memRev,
    store <- [k \in Keys |-> IF kvs[k] = Nil THEN 0 ELSE kvs[k].rev],
    pending <- {newRev[p] : p \in Reserving}

\* The step part of Atomic!Spec; its initial condition, Init => Atomic!Init,
\* is lemma InitRefines of RefinementProofs.
ImplementsAtomicStore == [][Atomic!Next]_Atomic!vars

=============================================================================
