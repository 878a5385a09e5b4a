# Formal models of the fornax-serverless in-memory store

This directory holds TLA+ models of the revision-ordered in-memory object
store in `src/pkg/store/inmemory/simple_memory_store.go` (type
`MemoryStore`), TLC configurations that check them on small instances, and
TLAPS proofs of their main invariants for every instance.

## The system

`spec.md` describes an in-memory store that serves an API server. It
assigns a strictly monotonic revision to every mutation. It indexes live
objects both by key and by revision, and it fans mutation events out to
watchers. `MemoryStore` holds:

| State | In the code | In the model |
|---|---|---|
| global revision counter | `_MemoryRev` (line 67) | `memRev` |
| key tree | `kvs *memoryStoreMap` (not under `src/`) | `kvs`: key -> slot or `Nil` |
| revision-ordered list | `kvList objList` of `*objWithIndex` | `kvList`: sequence of slots or `Nil` |
| watchers | `watchers []*memoryStoreWatcher` | `watchers`, and `recv[w]`, the events pushed to `w` |
| the call a goroutine is in | locals of each method | `pc, op, opKey, curObj, newRev, newIndex` per client |

A slot (`objWithIndex`) is the record `[key, rev, index]`. The store never
looks inside an object except at its resourceVersion. Every slot gets a
fresh revision, so two slot records are equal exactly when they are the same
Go pointer. Model indexes are 1-based.

Every mutating method runs on the caller's goroutine with no store-wide lock
(`freezeWorld` is only read-locked). The code holds a lock for each of these
pieces, one at a time:

1. `kvs.get`, atomic in the tree.
2. `reserveRevAndSlot`, under `revmu`: bump `_MemoryRev` and append a nil slot.
3. `kvs.put(keys, slot, expectedRv)` or `kvs.del`, atomic in the tree.
4. The writes `kvList[old] = nil` and `kvList[index] = slot`, with no lock.
5. `sendEvent`, which pushes the event into every watcher's channel.

Delete's order differs: its preconditions and revision bump run under `revmu`
(lines 203-227), and only then come `kvs.del` and the slot clear.

## Inventory

| Part | Source | Status |
|---|---|---|
| Write path: Create, Delete, GuaranteedUpdate, CreateOrUpdate, GetOrCreate, CreateOrReplace, reserveRevAndSlot, sendEvent | simple_memory_store.go 131-251, 429-725, 847-879 | modelled in `MemStore`; refines `AtomicStore` on disjoint keys |
| watch registration and the fan-out of sendEvent | 756-778, 847-859 | `MemStore` (atomic registration), `WatchHub` (unlocked append, range, blocking send, write-back) |
| Read path: GetList, binarySearchInObjList, getObjEventsAfterRev | 285-426, 780-845 | modelled in `ListScan` |
| Get, getSingleObjectAsList | 254-282, 881-951 | not modelled: they change no state, and their revision checks are single comparisons (see Findings) |
| freezeWorld and Stop | 50, 118-122, and every RLock | modelled in `FreezeWorld` |
| shrink | 861-869 | not modelled: no caller in `src/`, and `objList.shrink` is not in the repository |
| EnsureUpdateAndDelete, Count | 125-128, 743-754 | not modelled as a whole: see below |
| memoryStoreMap, objList, memoryStoreWatcher | not under `src/` | put/get/del, the watcher loop and its Stop modelled from spec.md (marked spec_modelled) |
| SessionActor | src/pkg/nodeagent/session/session_actor.go | not modelled: see below |
| pod cgroup manager | src/unnamed/part_000 | not modelled: cgroup filesystem I/O |
| fake clientset, test YAML | src/pkg/client/..., src/hack/... | not modelled: generated code and data |

## Modules

- `MemStore.tla` is the store's write path.
  - Each client `p \in Procs` runs one method call at a time, one step per
    locked piece listed above. Any number of clients interleave.
  - The actions and the code they model:
    - `BeginGet` is the first `kvs.get` of five methods. The early returns
      come from `CreateAfterGet`, `DeleteAfterGet`, `UpdateAfterGet` and
      `MergeAfterGet`. A failing precondition, tryUpdate or mergeFunc is a
      nondeterministic return.
    - `BeginCreateOrReplace`: CreateOrReplace reserves before it reads.
    - `ReserveRevAndSlot`.
    - `ReplaceGet`: the read of CreateOrReplace.
    - `Put` and `PutConflict`: kvs.put accepts or refuses.
    - `WriteSlots`: the two kvList writes.
    - `DeleteCheck`: Delete's section under revmu.
    - `DeleteDel`: kvs.del, then clearing the slot read earlier.
    - `SendEvent`.
    - `Watch`.
  - `Done` lets a run end once `memRev` reaches `MaxRev`.
  - Constants:
    - `Keys`, `Procs`, `KeysOf` (the keys each client uses) and `Watchers`.
    - `InitRev` and `MaxRev`: the first revision and the bound on
      `_MemoryRev`.
    - `Nil`.
- `MC_MemStore.tla` gives model values to the clients, the keys and the
  watcher, with two key assignments: disjoint and shared.
- `MemStoreProofs.tla` holds the TLAPS proofs of `MemStore`'s invariants.
- `AtomicStore.tla` is what the store promises (spec.md sections 2 and 4):
  a map from keys to revisions, a counter that hands revisions out one at a
  time (`Reserve`), and mutations that commit a handed-out revision to one
  key in one step (`Install`, `Remove`) or give it up (`Abandon`). A key's
  revision only grows.
  - `MemStore` maps onto it (`Atomic == INSTANCE AtomicStore WITH ...`):
    `rev` is `_MemoryRev`, `store[k]` is the revision of `kvs[k]` (0 when
    absent), and `pending` is the set of revisions held by calls that have
    reserved and not yet committed (pc `get`, `put` or `del`).
  - `RefinementProofs.tla` proves the mapping.
- `ListScan.tla` is the read path over the revision list.
  - Writers are atomic steps (`Write`, `Delete`): one key is updated or
    deleted and the tree and the list agree afterwards, which is what
    `MemStore` shows for keys no two calls race on. An update clears the
    key's old slot and appends a new one, so nil slots (tombstones) appear.
  - `Bisect` is `sort.Search`'s bisection with binarySearchInObjList's
    predicate, false on nil slots.
  - A client pages through a recursive GetList one call per step
    (`FirstPage`, `NextPage`), with writers running between the pages.
    `Scan` is the loop of lines 375-410, including how `lastKey`/`lastRev`
    are set by every live slot and how `hasMore` is decided;
    `ContinueStart` is the continue-token branch of lines 324-350.
  - The watch replay, which changes no state, is a function of the state:
    `WatchReplay` (getObjEventsAfterRev, lines 780-830).
- `FreezeWorld.tla` is the store's quiesce lock `freezeWorld`, a Go
  `sync.RWMutex`, modelled by what it does:
  - `Lock` takes the writer mutex, announces the writer and counts the read
    locks held at that moment;
  - an `RLock` after that blocks until `Unlock`, even in a goroutine that
    already holds a read lock;
  - `Unlock` grants the blocked readers their read locks.
  Each goroutine makes calls from `OpsOf[p]`: a plain operation (one RLock
  around its body), a GetList that reaches binarySearchInObjList (a
  second, nested RLock) or Stop (Lock, then Unlock). The bodies are
  abstracted to their lock steps. Count (line 125) and watch's registration
  (line 764) take no lock and do not touch freezeWorld, so they are left
  out (see the hazard at line 764).
- `WatchHub.tla` is `ms.watchers` and sendEvent, split into the steps the
  code takes without any lock: `Register` (the append of watch),
  `StartSend` (the range reads the slice), `SendSkip`/`SendPick` (the
  `stopped` check), `Enqueue` (the blocking channel send, possible only
  while the channel holds fewer than `Cap` events) and `FinishSend` (the
  write-back `ms.watchers = watchers`). The watcher's loop (`Deliver`) and
  its `Stop` are not in `src/`; they are modelled from spec.md 4.D.
- `MC_ListScan.tla`, `MC_FreezeWorld.tla` and `MC_WatchHub.tla` give the
  constants model values.
- The proof modules extend the module they prove things about and hold no
  behaviour of their own: `MemStoreProofs`, `RefinementProofs`,
  `IndexProofs` and `EventProofs` (a chain, each extending the one before)
  for `MemStore`, `FreezeWorldProofs` for `FreezeWorld` and
  `WatchHubProofs` for `WatchHub`.

## Properties and runs

| Run | Config | Expect | Checks |
|---|---|---|---|
| disjoint | `MC_MemStore_disjoint.cfg` | pass | `TypeOK`, `RevListSorted`, `IndexesAgree`, `EventChain`, `ImplementsAtomicStore`, `KeyRevGrows` with 2 clients on distinct keys, 1 watcher, revisions 1..6 (269,242 states) |
| shared | `MC_MemStore_shared.cfg` | pass | `TypeOK`, `RevListSorted` with 2 clients on the same 2 keys, revisions 1..5 (172,741 states); put conflicts and deletes of vanished keys happen here |
| race | `MC_MemStore_race.cfg` | violation | `IndexesAgree` with shared keys |
| watchorder | `MC_MemStore_watchorder.cfg` | violation | `WatchOrder` |
| keyrev | `MC_MemStore_keyrev.cfg` | violation | `KeyRevGrows` |
| listscan_paging | `MC_ListScan_paging.cfg` | pass | `TypeOK`, `ListOrdered` with 3 keys (2 under the prefix), revisions 1..6, one item per page (139,900 states) |
| listscan_scans | `MC_ListScan_scans.cfg` | violation | `ScansComplete` |
| freeze_quiesce | `MC_FreezeWorld_quiesce.cfg` | pass | `TypeOK` with 2 clients doing operations and GetLists and one Stop (331 states): read-lock depth stays in 0..2 and `readerWait` never goes below zero |
| freeze_deadlock | `MC_FreezeWorld_deadlock.cfg` | violation | `CallsReturn` with GetLists that nest their RLock |
| hub_live | `MC_WatchHub_live.cfg` | pass | `NoDuplicateDelivery`, `SendBlocksOnlyOnStopped` with 2 writers, 2 watchers (one stoppable), channel capacity 1, 3 events (30,388 states) |
| hub_blocked | `MC_WatchHub_blocked.cfg` | violation | `SendCompletes` |
| hub_lost | `MC_WatchHub_lost.cfg` | violation | `WatcherKept` |

- `RevListSorted`: every live slot records its own index, and revisions
  strictly increase along `kvList` (spec invariant 2). Binary search by
  revision depends on it.
- `IndexesAgree`: for a key no call is working on, `kvs` and `kvList` agree.
  The key's slot is live at its index, and no other live slot has that key.
- `EventChain`: the events of a key, in revision order, form a chain.
  - Created follows nothing or a Deleted event.
  - Every other event's pre-image is the previous event.
  - The last event is the key's state in `kvs`.
- `WatchOrder`: each watcher receives events in increasing revision order
  (spec quantified invariant 2).
- `KeyRevGrows`, an action property: a step that replaces a key's object
  installs a higher revision (spec quantified invariant 1).
- `ImplementsAtomicStore`, an action property: every step of the write path
  is a step of `AtomicStore` under the refinement mapping, or leaves the
  mapped state unchanged.
- `ListOrdered`: the items of all pages of one listing come in strictly
  increasing revision order, however the keys change between pages. This
  is the continue token's job: resuming by the last key's slot or by its
  revision, or from position 0 when the key is gone.
- `ScansComplete`: a finished listing returned every object that was live
  under the prefix for the whole listing and matches the first page's
  rule, and a watch replay returns every live object under the prefix that
  matches its rule.
- `TypeOK` of `FreezeWorld`: besides the types, each goroutine's read-lock
  depth stays in 0..2 and `readerWait` stays a natural number. This depends
  on the call sites: the one nested RLock and the paired deferred RUnlocks.
- `CallsReturn` (liveness): every call returns.
- `SendBlocksOnlyOnStopped` (liveness): every sendEvent returns or ends up
  blocked sending to a stopped watcher.
- `SendCompletes` (liveness): every sendEvent returns.
- `NoDuplicateDelivery`: no watcher is handed an event twice. The events
  in its incomingChan are distinct, and none was delivered before. The
  write-backs of concurrent sendEvents come from stale snapshots with no
  lock. Such a write-back must never list a watcher twice.
- `WatcherKept`: a registered watcher that was never stopped is in
  `ms.watchers`, or in the slice of a sendEvent that will write it back.

### Findings

1. **Resurrected slots (run `race`).** Create calls `kvs.put` (line 163)
   and then writes `kvList[index]` with no lock (line 167). A Delete of the
   same key that runs in between removes the key, so Create's late write
   leaves a live slot in `kvList` for a deleted key. GetList and watch
   replay then return that object. Delete has a related flaw: it clears the
   slot it read before `revmu` (line 236), but `kvs.del` removes whatever
   the key holds now (line 232).
2. **Watch events out of order (run `watchorder`).** `sendEvent` (line 853)
   is not serialized with revision allocation. Two writers on different keys
   can deliver revision 3 before revision 2.
3. **Revision going backwards (run `keyrev`).** CreateOrReplace reserves its
   revision at line 671, before `kvs.get` at line 683. Suppose a Create
   reserves a later revision and commits first. CreateOrReplace then reads
   that object's revision as `currRv`, and its put replaces it with an
   object of a lower revision. `EventChain` fails on shared keys for the
   same reason, which is why the shared run does not check it.
4. **Binary search past live objects (run `listscan_scans`).**
   binarySearchInObjList (line 843) gives `sort.Search` a predicate that is
   false on nil slots. Once a Delete or an update leaves a tombstone the predicate is
   not monotone, and the search can land after a live object whose
   revision is at least rv. A GetList with a resourceVersion or a stale continue token, and a
   watch replay, then skip that object.
5. **Nested RLock deadlock (run `freeze_deadlock`).** GetList holds
   freezeWorld's read lock and binarySearchInObjList takes it again (line
   833). If Stop calls Lock in between, Go's RWMutex blocks the second
   RLock behind the writer, and the writer waits for the first: GetList,
   Stop and every later call hang.
6. **Blocking sendEvent (run `hub_blocked`).** sendEvent sends into each
   watcher's channel with a blocking send (line 853). A watcher stopped
   with a full channel blocks the writer forever, inside its read lock of
   freezeWorld, so Stop then hangs too. spec.md 4.D says the enqueue is
   non-blocking and drops the watcher. `hub_live` shows this is the only way
   a send wedges.
7. **Lost registration (run `hub_lost`).** watch appends to ms.watchers
   (line 764) and sendEvent writes back its filtered copy (line 858), both
   without a lock. A watcher registered during a sendEvent disappears from
   the registry and never gets an event. spec.md 4.E says the registry is
   guarded by a mutex.

Two more differences were noted while reading the read path. They are
single comparisons, which a unit test reaches, and no run checks them:
- getSingleObjectAsList takes `rv == fromRV` for Exact (line 919). The
  recursive list and watch replay take `rv > fromRV`, and spec.md says the
  single-key list uses the same rules.
- Get passes the read object's revision to validateMinimumResourceVersion
  (line 275). So once another key has been written, a Get with the store's
  current revision fails with TooLargeResourceVersion. The function's
  comment (lines 937-938) says it refuses only versions above the most
  recent revision of the store.

### Bounds

- Two clients are the fewest that can race.
- Two keys let one pair of calls share a key while another is independent.
- Revisions 1..5 or 1..6 allow three to five mutations. That is enough for
  a create, an update and a delete of the same key, with a second client
  interleaved between any two steps of each.
- One watcher is enough for the ordering properties.
- ListScan: 3 keys, 2 of them under the prefix, so that a page can skip a
  key outside it. Revisions 1..6 give lists of up to six slots with
  several tombstones, and pages of one item make every listing take
  several calls with writes in between. The violation run uses 1..4, which
  already reaches the counterexample.
- FreezeWorld: two callers and one Stop. The deadlock needs one GetList and
  one Stop. With a second caller, a Stop overlaps two readers, one of which
  may nest its read lock.
- WatchHub: two writers so that two sendEvents overlap, two watchers so
  that one can be stopped while the other keeps consuming, channels of
  capacity 1 so that they fill, and 3 events.

Each property also has a mutant in `PROJECT.json`: a plausible bug in the
modelled code, which the run detects. Among them:
- a lost increment of `_MemoryRev`, and an off-by-one slot index;
- not clearing the replaced slot, and an event carrying the new revision as
  its old one;
- Delete reading `_MemoryRev` instead of incrementing it;
- a bisection that moves its upper bound to h - 1, and Exact taking rv >=;
- a Lock that counts reading goroutines rather than read locks, an Unlock
  that wakes no reader, a missing RUnlock;
- a send that does not move on, and a channel bound off by one.

### Fairness

- `FreezeWorld`: weak fairness of each goroutine's step. The Go scheduler
  runs every runnable goroutine, and a goroutine blocked in RLock or Lock
  is not runnable (its step is not enabled), so fairness cannot wake it.
  The run `freeze_deadlock` uses this fairness: even so, calls hang.
- `WatchHub`: weak fairness of each writer's sendEvent step, for the same
  reason, and of each watcher's delivery: a watcher that is not stopped has
  a consumer that keeps reading. Registration and Stop are the clients'
  choices and get no fairness.
- `MemStore` and `ListScan` check only safety.

## Proofs (TLAPS)

The proofs hold for every value of the constants. Those about `MemStore`
assume only three things:
- `KeysOf \in [Procs -> SUBSET Keys]`.
- `InitRev <= MaxRev` are naturals.
- `Nil` is not a key or a slot.

### TypeCorrect: `Spec => []TypeOK` (`MemStoreProofs.tla`)

`TypeOK` alone is not inductive. It is strengthened to `TypeInv`, which adds
two invariants:
- `LocalsOK`: the locals a client has at each `pc` are set, and reserved
  indexes and `curObj.index` point into `kvList`.
- `SlotRefsOK`: every slot of `kvs` points into `kvList`.

The proof is `InitTypeInv`, then `NextTypeInv` with one step per action,
then a PTL step.

### RevListSortedInvariant: `Spec => []RevListSorted` (`MemStoreProofs.tla`)

Sortedness alone is not inductive either. `WriteSlots` may write a slot at a
position reserved long ago, so the proof also needs facts about the slots
that are reserved but not yet written. The inductive invariant
`IInv == TypeInv /\ OrderInv` adds four facts:
- `SlotsBelow`: no live slot's revision exceeds `memRev`.
- `ReservationsBelow`: a reserved slot is still nil, is distinct from every
  other reservation, and has a revision no greater than `memRev`.
- `SlotReservationOrder`: positions and revisions increase together between
  live slots and reservations.
- `ReservationOrder`: the same holds between two reservations.

TLC checked `IInv` as an invariant on shared keys with MaxRev 6 before the
proof was written. The step proof rests on three lemmas:
- `ClearingStepKeepsOrder`: a step that only clears slots, does not lower
  `memRev` and creates no reservation keeps `OrderInv`.
- `ReserveKeepsOrder`: a reservation lands after every slot and every
  reservation.
- `WriteKeepsOrder`: writing a reserved slot lands its revision exactly
  where the reservation promised.

### StepsRefineAtomicStore and AtomicRefinement (`RefinementProofs.tla`)

Both theorems assume `Disjoint`: no two clients share a key. Without it the
refinement is false (findings 1 and 3).

- `InitRefines`: the initial state maps to `Atomic!Init`.
- `NextRefines`: under `TypeInv` and `RefInv`, a step of `MemStore` maps to
  a step of `AtomicStore` or a stutter. The cases:
  - `ReserveRevAndSlot` and Delete's revision bump are `Reserve`;
  - an accepted put is `Install`, `DeleteDel` is `Remove`;
  - an early return after reserving is `Abandon`;
  - every other step changes nothing the mapping reads.
- `RefInv` is the strengthening this needs. It says:
  - every revision in `kvs` and in a client's `curObj` was handed out
    (`InitRev < r <= memRev`);
  - a client works only on its own keys;
  - the revisions of reserving clients were handed out and are distinct;
  - a put's revision exceeds the revision it read (`PutNewer`), and the
    key's current revision (`GetNewer`).

  Without `Disjoint`, another client could change the key between the read
  and the put, and `PutNewer` would fail.
- `NextRefInv` shows `RefInv` is inductive, with one case per action.
  `QuietStepKeepsRefInv` handles the steps that leave the store alone.
- TLC checked `RefInv` as an invariant before the proof.
- `StepsRefineAtomicStore` states `Spec => ImplementsAtomicStore`, the
  property the `disjoint` run checks.
- `AtomicRefinement` adds the initial condition: `Spec => Atomic!Spec`.

### IndexesAgreeInvariant and KeyRevGrowsUnderDisjoint (`IndexProofs.tla`)

Both assume `Disjoint`; runs `race` and `keyrev` show that each property
fails when two clients share a key. The inductive invariant is
`AgreeInv == IInv /\ RefInv /\ KeyInv`, checked by TLC on the disjoint
model first (and found violated on the shared one). `KeyInv` says:
- `SlotKeys`: a slot in `kvs[k]` has key `k`, and a client's `curObj` is a
  slot of its own key.
- `ReadCurrent`: from its read until its commit (pc `put`, `check`, `del`,
  and `reserve` except for CreateOrReplace) a client's `curObj` is still the
  tree's object. Only the client itself may change its key.
- `ListAgreesWithRead`: between kvs.put and the kvList writes (pc `index`)
  the list still agrees with what the client read, and the tree holds its
  new slot. This is what `WriteSlots` needs to restore agreement.
- `ListAgreesWithTree`: every key with no client at `index` is agreed on.

`IndexesAgree` is needed as the last conjunct and not as it stands: a
settled key says nothing about the key a client is between its two
writes on. The step lemmas are one per kind of step (`QuietStepKeepsKeyInv`,
`ReserveKeepsKeyInv`, `PutKeepsKeyInv`, `WriteSlotsKeepsKeyInv`,
`DeleteDelKeepsKeyInv`, `ReturnKeepsKeyInv`), with `OtherWritesAgree`, a
lemma about the list written at positions holding no slot of the key, and
`UniqueOwner`. `KeyRevGrowsUnderDisjoint` is an action property: it
follows from `PutNewer` (in `RefInv`) and `ReadCurrent`, since a put
replaces exactly the object the client read.

### EventChainInvariant (`EventProofs.tla`)

Under `Disjoint`, `Spec => []EventChain`. `EventChain` speaks only of
settled keys, but a call commits to the tree one step (kvs.put or kvs.del)
or two (then the kvList writes) before its sendEvent. The strengthening
`EvPart`, inductive together with `AgreeInv`, says:
- `EventRevs`: events of one key have distinct revisions, none above
  `memRev`, and a revision a call holds is newer than every event of its
  key, so its event will be the key's latest (`LatestIsMax`).
- `ChainLinks`: the first conjunct of `EventChain`, for every key.
- `EventsFollowRead`: while a call is committed (pc `index` or `send`) the
  events still describe the object it read, which its event's pre-image
  names.
- `EventsFollowTree`: for a key no call is committed on, the events
  describe the tree's object.
- `CommittedTree`: what a committed call left in the tree (nil for a
  delete, else its new slot); `OpStages`: Delete is never at a write stage.

`SendEventKeepsEvPart` carries the argument: the new event becomes the
latest, links to the object the call read, and makes the events describe
what the call left in the tree. `CommitKeepsEvPart` covers kvs.put and
kvs.del. TLC checked `AgreeInv /\ EvPart` (`EvInv`) on the disjoint model
and on one client owning both keys before the proof.

### FreezeWorldTypeCorrect (`FreezeWorldProofs.tla`)

`Spec => []TypeOK` for `FreezeWorld`. Two facts depend on the call sites:
the read-lock depth stays in 0..2, and no RUnlock drives `readerWait`
below zero. `TypeOK` is strengthened to the inductive invariant `LockInv`:
- `HoldsAtPc`: the read locks each goroutine holds at each pc.
- `BlockedAtRLock`: a blocked goroutine is in an RLock.
- `WriterIsStop`: the announced writer is the goroutine between Lock and
  Unlock.
- `ReaderWaitCounts`: `readerWait` is the number of read locks held while
  a writer is announced, and 0 once it holds the lock.
- `BlockedOnlyBehindWriter`: a reader is blocked only behind a writer.

`ReadLocksHeld` is the cardinality of a set of (goroutine, depth) tokens.
The lemmas `TokensFinite` and `ReleaseOneToken` do the counting, so the
proofs assume `IsFiniteSet(Procs)` (FreezeWorldAssumption). An RUnlock
under an announced writer lowers both `readerWait` and `ReadLocksHeld`
by one, so `readerWait` stays a natural number.

### NoDuplicateDeliveryInvariant (`WatchHubProofs.tla`)

`Spec => []NoDuplicateDelivery` for `WatchHub`, for every set of writers
and watchers, every capacity and every event bound. The property is not
inductive on its own. It is strengthened to `DupInv`:
- `HubInv`: the types, and `SendersOK` (a sender past its check holds an
  event, and one at `put` holds a watcher).
- `SlicesDistinct`: `ms.watchers` lists registered watchers once each
  (`HubOK`). For every sender, its range and local slice list registered
  watchers once each, and the watcher it is sending to is in neither
  (`SliceOK`). This is what makes the unlocked write-back safe against
  duplicates. The slice a sender writes back is a subsequence of a
  duplicate-free snapshot.
- `EventsFresh`: every given event is numbered. Each active sender's event
  is not yet given to any watcher still ahead of it (`FreshOK`). No two
  active senders hold the same event.

The lemmas `TailFacts` and `AppendFacts` say what a range step and a slice
append do to `ToSet` and `IsInjective`. `SliceOKStays`, `FreshOKStays`,
`SlicesStep` and `FreshStep` are the frame: a step that moves one writer
leaves the others' conjuncts as they were. TLC checked `DupInv` with 4
events before the proof. The mutant that appends the local slice to
`ms.watchers` instead of replacing it breaks the property.

### Only model-checked

Several kinds of fact stay with TLC:
- The properties the violation runs show false (`IndexesAgree` on one
  key, `WatchOrder`, `KeyRevGrows` with CreateOrReplace, `ScansComplete`,
  `CallsReturn`, `SendCompletes`, `WatcherKept`): a counterexample is their
  result.
- `RevListSorted` and `TypeOK` are proved for every key layout, so the
  `shared` run adds only the small-instance check of the same theorems.
- Everything in `ListScan`. Its scans are RECURSIVE operators, which
  tlapm cannot use with its SMT backend, and what a recursive definition
  computes for every input (induction over data) is beyond the provers.
- Liveness: `SendBlocksOnlyOnStopped` (run `hub_live`) is a leads-to
  property under weak fairness, which needs ENABLED reasoning that TLAPS's
  backends do not do.

A module with a theorem uses no RECURSIVE operator.

## Not modelled

- **Composition of watch replay and registration.** watch registers the
  watcher before it computes the replay (lines 764-767). An event committed
  in between may be both replayed and delivered live. `ListScan` and
  `WatchHub` model the two halves, but no module composes them.
- **The append data race.** reserveRevAndSlot's `append` (line 877) may
  reallocate the slice while another goroutine writes a slot of the old
  array without a lock. That is a Go data race whose outcome depends on the
  timing of the reallocation. The model treats the slice as one array.
- **EnsureUpdateAndDelete.** It is a GuaranteedUpdate followed by a Delete,
  both modelled, but whether to delete depends on the deletion timestamp
  and the finalizers, which the model abstracts away.
- **Count.** It is a read of the key tree, which is not under `src/`.
- **shrink.** No code in `src/` calls it, and its `objList.shrink` is not
  in the repository.
- **SessionActor.** It forwards calls to `sessionservice.SessionService`,
  retries with `util.BackoffExec`, and reports states to its supervisor.
  None of those is in the repository. One hazard is listed without a
  property: a CloseSession that fails with any error except
  SessionNotFound leaves the session Closing and reports nothing.
- **Pod cgroup manager, fake clientset, test YAML.** These are I/O,
  generated code and data.
