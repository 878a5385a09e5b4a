------------------------------- MODULE WatchHub -------------------------------
(***************************************************************************)
(* The watcher registry of MemoryStore (ms.watchers) and its fan-out,     *)
(* pkg/store/inmemory/simple_memory_store.go:                             *)
(*   - watch appends a new memoryStoreWatcher to ms.watchers (line 764);   *)
(*   - sendEvent, called at the end of every mutation on the writer's own  *)
(*     goroutine, copies nothing and takes no lock: it walks ms.watchers,  *)
(*     skips stopped watchers, does a blocking send into each other        *)
(*     watcher's incomingChan, and finally assigns the watchers it sent    *)
(*     to back to ms.watchers (lines 848-859).                             *)
(* The watcher's delivery loop and its Stop are not in the repository's    *)
(* source (memoryStoreWatcher); they are modelled from spec.md 4.D: the   *)
(* loop moves events from incomingChan to the consumer, and Stop marks the *)
(* watcher stopped, after which its loop no longer drains incomingChan.   *)
(* Events are numbered in the order writers start sending them; what they *)
(* carry is left out.                                                      *)
(***************************************************************************)
EXTENDS Naturals, Sequences, SequencesExt

CONSTANTS
    Writers,    \* goroutines that finish a mutation and call sendEvent
    Watchers,   \* watch subscriptions
    Stoppable,  \* the watchers whose consumer may stop them
    Cap,        \* capacity of a watcher's incomingChan
    MaxEvents,  \* bound on the number of events, to keep the model finite
    Nil

ASSUME WatchHubAssumption ==
    /\ Stoppable \subseteq Watchers
    /\ Cap \in Nat \ {0}
    /\ MaxEvents \in Nat
    /\ Nil \notin Watchers

VARIABLES
    hub,        \* ms.watchers, in slice order
    registered, \* watchers whose watch call has appended them
    stopped,    \* watchers whose stopped flag is set
    chan,       \* chan[w]: the events queued in w's incomingChan
    delivered,  \* delivered[w]: the events w's loop handed to its consumer
    sent,       \* events whose sendEvent has started
    spc,        \* spc[s]: where writer s is in sendEvent
    ev,         \* ev[s]: the event s is sending
    todo,       \* todo[s]: the watchers of the range s has not reached yet
    acc,        \* acc[s]: the local slice of watchers s has sent to
    cur         \* cur[s]: the watcher s is sending to, or Nil

vars == <<hub, registered, stopped, chan, delivered, sent,
          spc, ev, todo, acc, cur>>

Events == 1..MaxEvents

TypeOK ==
    /\ hub \in Seq(Watchers)
    /\ registered \subseteq Watchers /\ stopped \subseteq registered
    /\ chan \in [Watchers -> Seq(Events)]
    /\ \A w \in Watchers : Len(chan[w]) <= Cap
    /\ delivered \in [Watchers -> SUBSET Events]
    /\ sent \in 0..MaxEvents
    /\ spc \in [Writers -> {"idle", "check", "put"}]
    /\ ev \in [Writers -> 0..MaxEvents]
    /\ todo \in [Writers -> Seq(Watchers)]
    /\ acc \in [Writers -> Seq(Watchers)]
    /\ cur \in [Writers -> Watchers \cup {Nil}]

Init ==
    /\ hub = << >>
    /\ registered = {}
    /\ stopped = {}
    /\ chan = [w \in Watchers |-> << >>]
    /\ delivered = [w \in Watchers |-> {}]
    /\ sent = 0
    /\ spc = [s \in Writers |-> "idle"]
    /\ ev = [s \in Writers |-> 0]
    /\ todo = [s \in Writers |-> << >>]
    /\ acc = [s \in Writers |-> << >>]
    /\ cur = [s \in Writers |-> Nil]

-----------------------------------------------------------------------------
\* watch: NewMemoryStoreWatcher, then ms.watchers = append(ms.watchers, w).
Register(w) ==
    /\ w \notin registered
    /\ registered' = registered \cup {w}
    /\ hub' = Append(hub, w)
    /\ UNCHANGED <<stopped, chan, delivered, sent, spc, ev, todo, acc, cur>>

\* sendEvent begins: watchers := []; for _, v := range ms.watchers.
StartSend(s) ==
    /\ spc[s] = "idle"
    /\ sent < MaxEvents
    /\ sent' = sent + 1
    /\ ev' = [ev EXCEPT ![s] = sent + 1]
    /\ todo' = [todo EXCEPT ![s] = hub]
    /\ acc' = [acc EXCEPT ![s] = << >>]
    /\ spc' = [spc EXCEPT ![s] = "check"]
    /\ UNCHANGED <<hub, registered, stopped, chan, delivered, cur>>

\* if !v.stopped: the next watcher of the range is stopped and skipped ...
SendSkip(s) ==
    /\ spc[s] = "check"
    /\ todo[s] # << >>
    /\ Head(todo[s]) \in stopped
    /\ todo' = [todo EXCEPT ![s] = Tail(@)]
    /\ UNCHANGED <<hub, registered, stopped, chan, delivered, sent,
                   spc, ev, acc, cur>>

\* ... or it is live and s goes on to send to it.
SendPick(s) ==
    /\ spc[s] = "check"
    /\ todo[s] # << >>
    /\ Head(todo[s]) \notin stopped
    /\ cur' = [cur EXCEPT ![s] = Head(todo[s])]
    /\ todo' = [todo EXCEPT ![s] = Tail(@)]
    /\ spc' = [spc EXCEPT ![s] = "put"]
    /\ UNCHANGED <<hub, registered, stopped, chan, delivered, sent, ev, acc>>

\* Mutant: the send does not move on, and the range sends to v again.
EnqueueNoAdvance(s) ==
    /\ spc[s] = "put"
    /\ Len(chan[cur[s]]) < Cap
    /\ chan' = [chan EXCEPT ![cur[s]] = Append(@, ev[s])]
    /\ UNCHANGED <<hub, registered, stopped, delivered, sent, spc, ev,
                   todo, acc, cur>>

\* v.incomingChan <- event, blocking while the channel is full; then
\* watchers = append(watchers, v).
Enqueue(s) ==
    /\ spc[s] = "put"
    /\ Len(chan[cur[s]]) < Cap
    /\ chan' = [chan EXCEPT ![cur[s]] = Append(@, ev[s])]
    /\ acc' = [acc EXCEPT ![s] = Append(@, cur[s])]
    /\ spc' = [spc EXCEPT ![s] = "check"]
    /\ cur' = [cur EXCEPT ![s] = Nil]
    /\ UNCHANGED <<hub, registered, stopped, delivered, sent, ev, todo>>

\* Mutant: the local slice is appended to ms.watchers instead of replacing it.
FinishSendAppend(s) ==
    /\ spc[s] = "check"
    /\ todo[s] = << >>
    /\ hub' = hub \o acc[s]
    /\ spc' = [spc EXCEPT ![s] = "idle"]
    /\ UNCHANGED <<registered, stopped, chan, delivered, sent, ev, todo,
                   acc, cur>>

\* The range is over: ms.watchers = watchers.
FinishSend(s) ==
    /\ spc[s] = "check"
    /\ todo[s] = << >>
    /\ hub' = acc[s]
    /\ spc' = [spc EXCEPT ![s] = "idle"]
    /\ UNCHANGED <<registered, stopped, chan, delivered, sent, ev, todo,
                   acc, cur>>

\* The watcher's loop hands the oldest queued event to its consumer.
Deliver(w) ==
    /\ w \notin stopped
    /\ chan[w] # << >>
    /\ delivered' = [delivered EXCEPT ![w] = @ \cup {Head(chan[w])}]
    /\ chan' = [chan EXCEPT ![w] = Tail(@)]
    /\ UNCHANGED <<hub, registered, stopped, sent, spc, ev, todo, acc, cur>>

\* The consumer stops the watcher; its loop exits.
Stop(w) ==
    /\ w \in Stoppable
    /\ w \in registered \ stopped
    /\ stopped' = stopped \cup {w}
    /\ UNCHANGED <<hub, registered, chan, delivered, sent, spc, ev, todo,
                   acc, cur>>

\* Every event has been sent and no writer is in sendEvent: the run may end.
Done ==
    /\ sent = MaxEvents
    /\ \A s \in Writers : spc[s] = "idle"
    /\ UNCHANGED vars

SenderStep(s) ==
    StartSend(s) \/ SendSkip(s) \/ SendPick(s) \/ Enqueue(s) \/ FinishSend(s)

Next ==
    \/ \E s \in Writers : SenderStep(s)
    \/ \E w \in Watchers : Register(w) \/ Deliver(w) \/ Stop(w)
    \/ Done

(***************************************************************************)
(* A writer's goroutine runs whenever it can (the Go scheduler), and a    *)
(* watcher that is not stopped has a consumer that keeps reading: weak    *)
(* fairness for each.  Registration and Stop are the clients' choice.     *)
(***************************************************************************)
Fairness ==
    /\ \A s \in Writers : WF_vars(SenderStep(s))
    /\ \A w \in Watchers : WF_vars(Deliver(w))

Spec == Init /\ [][Next]_vars /\ Fairness

-----------------------------------------------------------------------------
(***************************************************************************)
(* With consumers that keep reading, a writer in sendEvent can only wedge *)
(* on a stopped watcher: every sendEvent returns, or ends up blocked      *)
(* sending to a watcher that has been stopped.                            *)
(***************************************************************************)
SendBlocksOnlyOnStopped ==
    \A s \in Writers :
      spc[s] # "idle" ~> \/ spc[s] = "idle"
                         \/ spc[s] = "put" /\ cur[s] \in stopped

(***************************************************************************)
(* No watcher is handed an event twice: the events queued in its         *)
(* incomingChan are distinct, and none of them was delivered before.      *)
(* sendEvent ranges over a snapshot of ms.watchers and writes its local   *)
(* slice back without a lock (lines 850-857), while other writers and     *)
(* watch do the same; a write-back that listed a watcher twice would make *)
(* every later sendEvent enqueue each event to it twice.                  *)
(***************************************************************************)
NoDuplicateDelivery ==
    \A w \in Watchers :
      /\ IsInjective(chan[w])
      /\ ToSet(chan[w]) \cap delivered[w] = {}

(***************************************************************************)
(* Every sendEvent returns (spec.md 4.D/4.E: enqueue is non-blocking and  *)
(* the writer path is never blocked by a watcher; a watcher that cannot   *)
(* take an event is dropped).                                              *)
(***************************************************************************)
SendCompletes == \A s \in Writers : spc[s] # "idle" ~> spc[s] = "idle"

(***************************************************************************)
(* A watcher that has registered and has not been stopped stays in the    *)
(* registry (spec.md 4.E: registration appends; only stopped watchers are *)
(* pruned): it is in ms.watchers, or in the slice of a sendEvent in       *)
(* progress that will assign it back.                                      *)
(***************************************************************************)
WatcherKept ==
    \A w \in registered \ stopped :
      \/ w \in ToSet(hub)
      \/ \E s \in Writers :
           spc[s] # "idle" /\ w \in ToSet(todo[s]) \cup ToSet(acc[s]) \cup {cur[s]}

====
