--------------------------- MODULE WatchHubProofs ---------------------------
(***************************************************************************)
(* Proof that no watcher is handed an event twice, for every number of    *)
(* writers and watchers, every channel capacity and every bound on        *)
(* events, however the sendEvents of concurrent writers and the appends   *)
(* of watch interleave.                                                    *)
(*                                                                         *)
(* NoDuplicateDelivery is not inductive.  The argument needs that         *)
(* ms.watchers and every sender's range and local slice list each watcher  *)
(* once (SlicesDistinct), and that each sender's event is its own and not  *)
(* yet given to the watchers still ahead of it (EventsFresh).              *)
(***************************************************************************)
EXTENDS WatchHub, TLAPS

\* A writer in sendEvent holds the event it numbered, and one at the send
\* has picked the watcher it sends to.
SendersOK ==
    \A s \in Writers :
      /\ spc[s] # "idle" => ev[s] \in Events
      /\ spc[s] = "put" => cur[s] \in Watchers

HubInv == TypeOK /\ SendersOK

\* A writer's event so far, and the watchers its range will still send to.
Active(s) == spc[s] # "idle"
Ahead(s) == ToSet(todo[s]) \cup (IF spc[s] = "put" THEN {cur[s]} ELSE {})
\* The events w has been given: queued in incomingChan or delivered.
Given(w) == ToSet(chan[w]) \cup delivered[w]

\* ms.watchers lists registered watchers, each once.
HubOK == IsInjective(hub) /\ ToSet(hub) \subseteq registered

\* Writer s's range and local slice list registered watchers once each,
\* and the watcher s is sending to is in neither.
SliceOK(s) ==
    /\ IsInjective(acc[s]) /\ IsInjective(todo[s])
    /\ ToSet(acc[s]) \cap Ahead(s) = {}
    /\ ToSet(acc[s]) \cup Ahead(s) \subseteq registered
    /\ spc[s] = "put" => cur[s] \notin ToSet(todo[s])

SlicesDistinct == HubOK /\ \A s \in Writers : Active(s) => SliceOK(s)

\* Writer s's event is numbered, and no watcher still ahead of s has it.
FreshOK(s) ==
    /\ ev[s] \in 1..sent
    /\ \A w \in Ahead(s) : ev[s] \notin Given(w)

\* Events are numbered once: the given ones are numbered, every writer's
\* is fresh for the watchers ahead of it, and no two writers share one.
EventsFresh ==
    /\ \A w \in Watchers : Given(w) \subseteq 1..sent
    /\ \A s \in Writers : Active(s) => FreshOK(s)
    /\ \A s, t \in Writers : Active(s) /\ Active(t) /\ s # t => ev[s] # ev[t]

DupInv == HubInv /\ SlicesDistinct /\ EventsFresh /\ NoDuplicateDelivery

\* A step that leaves writer t where it is.
WriterSame(t) ==
    /\ todo'[t] = todo[t] /\ acc'[t] = acc[t] /\ spc'[t] = spc[t]
    /\ cur'[t] = cur[t] /\ ev'[t] = ev[t]

-----------------------------------------------------------------------------
USE WatchHubAssumption

\* What the range's step (Tail) and the local slice's append do to the
\* set of watchers a slice lists and to its having each once.
LEMMA EmptySeqFacts == ToSet(<< >>) = {} /\ IsInjective(<< >>)
  BY DEF ToSet, IsInjective

LEMMA TailFacts ==
  ASSUME NEW S, NEW q \in Seq(S), q # << >>
  PROVE  /\ Tail(q) \in Seq(S)
         /\ Head(q) \in S
         /\ ToSet(q) = ToSet(Tail(q)) \cup {Head(q)}
         /\ IsInjective(q) => /\ IsInjective(Tail(q))
                              /\ Head(q) \notin ToSet(Tail(q))
  <1>1. Tail(q) \in Seq(S) /\ Head(q) \in S
    OBVIOUS
  <1>2. ToSet(q) = ToSet(Tail(q)) \cup {Head(q)}
    <2>1. ASSUME NEW y PROVE y \in ToSet(q) <=> y \in ToSet(Tail(q)) \cup {Head(q)}
      <3>a. y \in ToSet(q) <=> \E i \in 1..Len(q) : q[i] = y
        BY DEF ToSet
      <3>b. y \in ToSet(Tail(q)) <=> \E i \in 1..Len(q)-1 : q[i+1] = y
        BY DEF ToSet
      <3>c. QED
        BY <3>a, <3>b
    <2>2. QED
      BY <2>1
  <1>3. IsInjective(q) => IsInjective(Tail(q))
    BY DEF IsInjective
  <1>4. IsInjective(q) => Head(q) \notin ToSet(Tail(q))
    BY DEF IsInjective, ToSet
  <1>5. QED
    BY <1>1, <1>2, <1>3, <1>4

LEMMA AppendFacts ==
  ASSUME NEW S, NEW q \in Seq(S), NEW x \in S
  PROVE  /\ ToSet(Append(q, x)) = ToSet(q) \cup {x}
         /\ IsInjective(q) /\ x \notin ToSet(q) => IsInjective(Append(q, x))
  <1>1. ToSet(Append(q, x)) = ToSet(q) \cup {x}
    <2>1. ASSUME NEW y PROVE y \in ToSet(Append(q, x)) <=> y \in ToSet(q) \cup {x}
      <3>a. y \in ToSet(Append(q, x)) <=> \E i \in 1..Len(q)+1 : Append(q, x)[i] = y
        BY DEF ToSet
      <3>b. y \in ToSet(q) <=> \E i \in 1..Len(q) : q[i] = y
        BY DEF ToSet
      <3>c. QED
        BY <3>a, <3>b
    <2>2. QED
      BY <2>1
  <1>2. IsInjective(q) /\ x \notin ToSet(q) => IsInjective(Append(q, x))
    BY DEF IsInjective, ToSet
  <1>3. QED
    BY <1>1, <1>2

LEMMA InitHubInv == Init => HubInv
  BY DEF Init, HubInv, TypeOK, SendersOK, Events

LEMMA NextHubInv == HubInv /\ [Next]_vars => HubInv'
  <1> SUFFICES ASSUME HubInv, [Next]_vars PROVE HubInv'
    OBVIOUS
  <1> USE DEF HubInv, TypeOK, SendersOK, Events
  <1>1. ASSUME NEW w \in Watchers, Register(w) PROVE HubInv'
    BY <1>1 DEF Register
  <1>2. ASSUME NEW s \in Writers, StartSend(s) PROVE HubInv'
    BY <1>2 DEF StartSend
  <1>3. ASSUME NEW s \in Writers, SendSkip(s) PROVE HubInv'
    BY <1>3 DEF SendSkip
  <1>4. ASSUME NEW s \in Writers, SendPick(s) PROVE HubInv'
    BY <1>4 DEF SendPick
  \* The guard Len(chan[cur[s]]) < Cap is what keeps the channel bounded.
  <1>5. ASSUME NEW s \in Writers, Enqueue(s) PROVE HubInv'
    BY <1>5 DEF Enqueue
  <1>6. ASSUME NEW s \in Writers, FinishSend(s) PROVE HubInv'
    BY <1>6 DEF FinishSend
  <1>7. ASSUME NEW w \in Watchers, Deliver(w) PROVE HubInv'
    BY <1>7 DEF Deliver
  <1>8. ASSUME NEW w \in Watchers, Stop(w) PROVE HubInv'
    BY <1>8 DEF Stop
  <1>9. CASE Done \/ UNCHANGED vars
    BY <1>9 DEF Done, vars
  <1>10. QED
    BY <1>1, <1>2, <1>3, <1>4, <1>5, <1>6, <1>7, <1>8, <1>9 DEF Next, SenderStep

LEMMA SeqToSetIn ==
  ASSUME NEW S, NEW q \in Seq(S)
  PROVE  ToSet(q) \subseteq S
  BY DEF ToSet

\* The watchers ahead of a writer are watchers.
LEMMA AheadWatchers ==
  ASSUME HubInv, NEW t \in Writers
  PROVE  Ahead(t) \subseteq Watchers
  <1>1. todo[t] \in Seq(Watchers)
    BY DEF HubInv, TypeOK
  <1>2. spc[t] = "put" => cur[t] \in Watchers
    BY DEF HubInv, SendersOK
  <1>3. QED
    BY <1>1, <1>2, SeqToSetIn DEF Ahead

-----------------------------------------------------------------------------
(* The frame: what a step does not do to a writer it leaves where it is.   *)

LEMMA SliceOKStays ==
  ASSUME NEW t \in Writers, SliceOK(t), WriterSame(t),
         registered \subseteq registered'
  PROVE  SliceOK(t)'
  BY DEF SliceOK, Ahead, WriterSame

LEMMA FreshOKStays ==
  ASSUME HubInv, NEW t \in Writers, FreshOK(t), WriterSame(t),
         sent \in Nat, sent' \in Nat, sent <= sent',
         NEW e, e # ev[t],
         \A w \in Watchers : Given(w)' \subseteq Given(w) \cup {e}
  PROVE  FreshOK(t)'
  <1>1. Ahead(t)' = Ahead(t)
    BY DEF Ahead, WriterSame
  <1>2. Ahead(t) \subseteq Watchers
    BY AheadWatchers
  <1>3. QED
    BY <1>1, <1>2 DEF FreshOK, WriterSame

\* A step that keeps ms.watchers right, keeps the writer s it moves right
\* and leaves the other writers where they are keeps SlicesDistinct.
LEMMA SlicesStep ==
  ASSUME SlicesDistinct, NEW s \in Writers,
         \A t \in Writers \ {s} : WriterSame(t),
         registered \subseteq registered',
         HubOK', Active(s)' => SliceOK(s)'
  PROVE  SlicesDistinct'
  <1>1. ASSUME NEW t \in Writers, Active(t)' PROVE SliceOK(t)'
    <2>1. CASE t = s
      BY <1>1, <2>1
    <2>2. CASE t # s
      <3>1. WriterSame(t) /\ Active(t)
        BY <1>1, <2>2 DEF WriterSame, Active
      <3>2. SliceOK(t)
        BY <3>1 DEF SlicesDistinct
      <3>3. QED
        BY <3>1, <3>2, SliceOKStays
    <2>3. QED
      BY <2>1, <2>2
  <1>2. QED
    BY <1>1 DEF SlicesDistinct

\* Likewise for EventsFresh, when the step gives watchers at most the one
\* event e, which no other active writer holds.
LEMMA FreshStep ==
  ASSUME HubInv, EventsFresh, NEW s \in Writers, NEW e,
         \A t \in Writers \ {s} : WriterSame(t),
         \A t \in Writers \ {s} : Active(t) => ev[t] # e,
         sent \in Nat, sent' \in Nat, sent <= sent',
         \A w \in Watchers : Given(w)' \subseteq Given(w) \cup {e},
         e \in 1..sent' \/ \A w \in Watchers : Given(w)' = Given(w),
         Active(s)' => /\ FreshOK(s)'
                       /\ \A t \in Writers \ {s} : Active(t) => ev'[s] # ev[t]
  PROVE  EventsFresh'
  <1>1. \A w \in Watchers : Given(w)' \subseteq 1..sent'
    BY DEF EventsFresh
  <1>2. ASSUME NEW t \in Writers, Active(t)' PROVE FreshOK(t)'
    <2>1. CASE t = s
      BY <1>2, <2>1
    <2>2. CASE t # s
      <3>1. WriterSame(t) /\ Active(t)
        BY <1>2, <2>2 DEF WriterSame, Active
      <3>2. FreshOK(t) /\ ev[t] # e
        BY <3>1, <2>2 DEF EventsFresh
      <3>3. QED
        BY <3>1, <3>2, FreshOKStays
    <2>3. QED
      BY <2>1, <2>2
  <1>3. ASSUME NEW t \in Writers, NEW u \in Writers, Active(t)', Active(u)', t # u
        PROVE  ev'[t] # ev'[u]
    <2>1. CASE t # s /\ u # s
      BY <1>3, <2>1 DEF WriterSame, Active, EventsFresh
    <2>2. CASE t = s
      BY <1>3, <2>2 DEF WriterSame, Active
    <2>3. CASE u = s
      BY <1>3, <2>3 DEF WriterSame, Active
    <2>4. QED
      BY <2>1, <2>2, <2>3
  <1>4. QED
    BY <1>1, <1>2, <1>3 DEF EventsFresh

-----------------------------------------------------------------------------
LEMMA InitDupInv == Init => DupInv
  <1> SUFFICES ASSUME Init PROVE DupInv
    OBVIOUS
  <1>1. HubInv
    BY InitHubInv
  <1>2. SlicesDistinct /\ EventsFresh /\ NoDuplicateDelivery
    BY EmptySeqFacts DEF Init, SlicesDistinct, HubOK, EventsFresh,
                         NoDuplicateDelivery, Active, Given
  <1>3. QED
    BY <1>1, <1>2 DEF DupInv


LEMMA NextDupInv == DupInv /\ [Next]_vars => DupInv'
  <1> SUFFICES ASSUME DupInv, [Next]_vars PROVE DupInv'
    OBVIOUS
  <1>0. HubInv'
    BY NextHubInv DEF DupInv
  <1>T. /\ HubInv /\ TypeOK /\ SendersOK /\ SlicesDistinct /\ EventsFresh
        /\ NoDuplicateDelivery /\ sent \in Nat
    BY DEF DupInv, HubInv, TypeOK
  \* A step of no writer: every writer keeps its place.
  <1>W. ASSUME UNCHANGED <<spc, ev, todo, acc, cur>>
        PROVE  \A t \in Writers : WriterSame(t)
    BY <1>W DEF WriterSame
  <1>1. ASSUME NEW w \in Watchers, Register(w) PROVE DupInv'
    <2>1. w \notin ToSet(hub) /\ hub \in Seq(Watchers) /\ IsInjective(hub)
      BY <1>1, <1>T DEF SlicesDistinct, HubOK, Register, TypeOK
    <2>2. HubOK'
      <3>1. hub' = Append(hub, w) /\ registered' = registered \cup {w}
        BY <1>1 DEF Register
      <3>2. ToSet(hub') = ToSet(hub) \cup {w} /\ IsInjective(hub')
        BY <3>1, <2>1, AppendFacts
      <3>3. QED
        BY <3>1, <3>2, <1>T DEF HubOK, SlicesDistinct
    <2>3. SlicesDistinct'
      <3>1. ASSUME NEW t \in Writers, Active(t)' PROVE SliceOK(t)'
        <4>1. WriterSame(t)
          BY <1>1, <1>W DEF Register
        <4>2. SliceOK(t)
          BY <4>1, <3>1, <1>T DEF WriterSame, Active, SlicesDistinct
        <4>3. registered \subseteq registered'
          BY <1>1 DEF Register
        <4>4. QED
          BY <4>1, <4>2, <4>3, SliceOKStays
      <3>2. QED
        BY <3>1, <2>2 DEF SlicesDistinct
    <2>4. EventsFresh'
      BY <1>1, <1>T DEF EventsFresh, FreshOK, Register, Active, Ahead, Given
    <2>5. NoDuplicateDelivery'
      BY <1>1, <1>T DEF NoDuplicateDelivery, Register
    <2>6. QED
      BY <1>0, <2>3, <2>4, <2>5 DEF DupInv
  <1>2. ASSUME NEW s \in Writers, StartSend(s) PROVE DupInv'
    <2>0. /\ todo'[s] = hub /\ acc'[s] = << >> /\ spc'[s] = "check"
          /\ ev'[s] = sent + 1 /\ sent' = sent + 1
          /\ \A t \in Writers \ {s} : WriterSame(t)
          /\ UNCHANGED <<hub, registered, chan, delivered>>
      BY <1>2, <1>T DEF StartSend, TypeOK, WriterSame
    <2>1. Ahead(s)' = ToSet(hub)
      BY <2>0 DEF Ahead
    <2>2. SliceOK(s)'
      BY <2>0, <2>1, <1>T, EmptySeqFacts DEF SliceOK, SlicesDistinct, HubOK
    <2>3. SlicesDistinct'
      <3>1. HubOK'
        BY <2>0, <1>T DEF HubOK, SlicesDistinct
      <3>2. registered \subseteq registered'
        BY <2>0
      <3>3. QED
        BY <2>0, <2>2, <3>1, <3>2, <1>T, SlicesStep
    <2>4. \A w \in Watchers : Given(w)' = Given(w)
      BY <2>0 DEF Given
    <2>5. FreshOK(s)'
      <3>1. \A w \in ToSet(hub) : Given(w) \subseteq 1..sent
        BY <1>T, SeqToSetIn DEF EventsFresh, TypeOK
      <3>2. QED
        BY <3>1, <2>0, <2>1, <2>4, <1>T, SeqToSetIn DEF FreshOK, TypeOK
    <2>6. \A t \in Writers \ {s} : Active(t) => ev'[s] # ev[t]
      BY <2>0, <1>T DEF EventsFresh, FreshOK
    <2>7. \A t \in Writers \ {s} : Active(t) => ev[t] # 0
      BY <1>T DEF EventsFresh, FreshOK
    <2>8. EventsFresh'
      <3>1. sent \in Nat /\ sent' \in Nat /\ sent <= sent'
        BY <2>0, <1>T
      <3>2. \A w \in Watchers : Given(w)' \subseteq Given(w) \cup {0}
        BY <2>4
      <3>3. QED
        BY <2>0, <2>4, <2>5, <2>6, <2>7, <3>1, <3>2, <1>T, FreshStep
    <2>9. NoDuplicateDelivery'
      BY <2>0, <1>T DEF NoDuplicateDelivery
    <2>10. QED
      BY <1>0, <2>3, <2>8, <2>9 DEF DupInv
  <1>3. ASSUME NEW s \in Writers, SendSkip(s) PROVE DupInv'
    <2>0. /\ spc[s] = "check" /\ todo[s] # << >>
          /\ todo'[s] = Tail(todo[s])
          /\ acc'[s] = acc[s] /\ spc'[s] = spc[s] /\ ev'[s] = ev[s]
          /\ \A t \in Writers \ {s} : WriterSame(t)
          /\ UNCHANGED <<hub, registered, chan, delivered, sent>>
      BY <1>3, <1>T DEF SendSkip, TypeOK, WriterSame
    <2>1. /\ IsInjective(todo[s]) /\ todo[s] \in Seq(Watchers)
          /\ SliceOK(s) /\ FreshOK(s)
      BY <2>0, <1>T DEF SlicesDistinct, EventsFresh, SliceOK, Active, TypeOK
    <2>2. ToSet(todo'[s]) \subseteq ToSet(todo[s]) /\ IsInjective(todo'[s])
      BY <2>0, <2>1, TailFacts
    <2>3. Ahead(s)' \subseteq Ahead(s)
      BY <2>0, <2>2 DEF Ahead
    <2>4. SliceOK(s)'
      BY <2>0, <2>1, <2>2, <2>3 DEF SliceOK
    <2>5. SlicesDistinct'
      BY <2>0, <2>4, <1>T, SlicesStep DEF HubOK, SlicesDistinct
    <2>6. \A w \in Watchers : Given(w)' = Given(w)
      BY <2>0 DEF Given
    <2>7. FreshOK(s)'
      BY <2>0, <2>1, <2>3, <2>6, AheadWatchers, <1>T DEF FreshOK
    <2>8. EventsFresh'
      <3>1. sent \in Nat /\ sent' \in Nat /\ sent <= sent'
        BY <2>0, <1>T
      <3>2. \A t \in Writers \ {s} : Active(t) => ev[t] # 0
        BY <1>T DEF EventsFresh, FreshOK
      <3>3. \A t \in Writers \ {s} : Active(t) => ev'[s] # ev[t]
        BY <2>0, <1>T DEF EventsFresh, Active
      <3>4. QED
        BY <2>6, <2>7, <3>1, <3>2, <3>3, <2>0, <1>T, FreshStep
    <2>9. NoDuplicateDelivery'
      BY <2>0, <1>T DEF NoDuplicateDelivery
    <2>10. QED
      BY <1>0, <2>5, <2>8, <2>9 DEF DupInv
  <1>4. ASSUME NEW s \in Writers, SendPick(s) PROVE DupInv'
    <2>0. /\ spc[s] = "check" /\ todo[s] # << >>
          /\ todo'[s] = Tail(todo[s]) /\ cur'[s] = Head(todo[s])
          /\ spc'[s] = "put" /\ acc'[s] = acc[s] /\ ev'[s] = ev[s]
          /\ \A t \in Writers \ {s} : WriterSame(t)
          /\ UNCHANGED <<hub, registered, chan, delivered, sent>>
      BY <1>4, <1>T DEF SendPick, TypeOK, WriterSame
    <2>1. /\ IsInjective(todo[s]) /\ todo[s] \in Seq(Watchers)
          /\ SliceOK(s) /\ FreshOK(s)
      BY <2>0, <1>T DEF SlicesDistinct, EventsFresh, SliceOK, Active, TypeOK
    <2>2. /\ ToSet(todo[s]) = ToSet(todo'[s]) \cup {cur'[s]}
          /\ IsInjective(todo'[s]) /\ cur'[s] \notin ToSet(todo'[s])
      BY <2>0, <2>1, TailFacts
    <2>3. Ahead(s)' = Ahead(s)
      BY <2>0, <2>2 DEF Ahead
    <2>4. SliceOK(s)'
      BY <2>0, <2>1, <2>2, <2>3 DEF SliceOK
    <2>5. SlicesDistinct'
      BY <2>0, <2>4, <1>T, SlicesStep DEF HubOK, SlicesDistinct
    <2>6. \A w \in Watchers : Given(w)' = Given(w)
      BY <2>0 DEF Given
    <2>7. FreshOK(s)'
      BY <2>0, <2>1, <2>3, <2>6, AheadWatchers, <1>T DEF FreshOK
    <2>8. EventsFresh'
      <3>1. sent \in Nat /\ sent' \in Nat /\ sent <= sent'
        BY <2>0, <1>T
      <3>2. \A t \in Writers \ {s} : Active(t) => ev[t] # 0
        BY <1>T DEF EventsFresh, FreshOK
      <3>3. \A t \in Writers \ {s} : Active(t) => ev'[s] # ev[t]
        BY <2>0, <1>T DEF EventsFresh, Active
      <3>4. QED
        BY <2>6, <2>7, <3>1, <3>2, <3>3, <2>0, <1>T, FreshStep
    <2>9. NoDuplicateDelivery'
      BY <2>0, <1>T DEF NoDuplicateDelivery
    <2>10. QED
      BY <1>0, <2>5, <2>8, <2>9 DEF DupInv
  \* The send: the event becomes given to v, and v leaves the writer's range
  \* for its local slice.
  <1>5. ASSUME NEW s \in Writers, Enqueue(s) PROVE DupInv'
    <2> PICK v \in Watchers : v = cur[s]
      BY <1>5, <1>T DEF Enqueue, SendersOK
    <2>0. /\ spc[s] = "put" /\ spc'[s] = "check" /\ cur'[s] = Nil
          /\ chan' = [chan EXCEPT ![v] = Append(chan[v], ev[s])]
          /\ acc'[s] = Append(acc[s], v)
          /\ todo'[s] = todo[s] /\ ev'[s] = ev[s]
          /\ \A t \in Writers \ {s} : WriterSame(t)
          /\ UNCHANGED <<hub, registered, delivered, sent>>
      BY <1>5, <1>T DEF Enqueue, TypeOK, WriterSame
    <2>1. /\ SliceOK(s) /\ FreshOK(s)
          /\ chan[v] \in Seq(Events) /\ acc[s] \in Seq(Watchers)
          /\ ev[s] \in Events
      BY <2>0, <1>T DEF SlicesDistinct, EventsFresh, Active, TypeOK,
                       SendersOK
    <2>2. /\ v \in Ahead(s) /\ Ahead(s)' = ToSet(todo[s])
          /\ Ahead(s) = ToSet(todo[s]) \cup {v}
      BY <2>0 DEF Ahead
    <2>3. /\ ev[s] \notin Given(v) /\ v \notin ToSet(acc[s])
          /\ v \notin ToSet(todo[s]) /\ v \in registered
      BY <2>0, <2>1, <2>2 DEF SliceOK, FreshOK
    <2>4. /\ ToSet(chan'[v]) = ToSet(chan[v]) \cup {ev[s]}
          /\ IsInjective(chan[v]) => IsInjective(chan'[v])
          /\ ToSet(acc'[s]) = ToSet(acc[s]) \cup {v}
          /\ IsInjective(acc[s]) => IsInjective(acc'[s])
      <3>1. chan'[v] = Append(chan[v], ev[s])
        BY <2>0, <1>T DEF TypeOK
      <3>2. ev[s] \notin ToSet(chan[v])
        BY <2>3 DEF Given
      <3>3. /\ ToSet(chan'[v]) = ToSet(chan[v]) \cup {ev[s]}
            /\ IsInjective(chan[v]) => IsInjective(chan'[v])
        BY <3>1, <3>2, <2>1, AppendFacts
      <3>4. /\ ToSet(acc'[s]) = ToSet(acc[s]) \cup {v}
            /\ IsInjective(acc[s]) => IsInjective(acc'[s])
        BY <2>0, <2>1, <2>3, AppendFacts
      <3>5. QED
        BY <3>3, <3>4
    <2>5. \A u \in Watchers \ {v} : chan'[u] = chan[u]
      BY <2>0, <1>T DEF TypeOK
    <2>6. /\ Given(v)' = Given(v) \cup {ev[s]}
          /\ \A u \in Watchers \ {v} : Given(u)' = Given(u)
      BY <2>0, <2>4, <2>5 DEF Given
    <2>7. SliceOK(s)'
      BY <2>0, <2>1, <2>2, <2>3, <2>4 DEF SliceOK
    <2>8. SlicesDistinct'
      BY <2>0, <2>7, <1>T, SlicesStep DEF HubOK, SlicesDistinct
    <2>9. FreshOK(s)'
      <3>1. ToSet(todo[s]) \subseteq Watchers \ {v}
        BY <2>3, <1>T, SeqToSetIn DEF TypeOK
      <3>2. \A w \in ToSet(todo[s]) : ev[s] \notin Given(w)'
        BY <3>1, <2>1, <2>2, <2>6 DEF FreshOK
      <3>3. QED
        BY <3>2, <2>0, <2>1, <2>2 DEF FreshOK
    <2>10. EventsFresh'
      <3>1. sent \in Nat /\ sent' \in Nat /\ sent <= sent'
        BY <2>0, <1>T
      <3>2. \A w \in Watchers : Given(w)' \subseteq Given(w) \cup {ev[s]}
        BY <2>6
      <3>3. ev[s] \in 1..sent'
        BY <2>0, <2>1 DEF FreshOK
      <3>4. \A t \in Writers \ {s} : Active(t) => ev[t] # ev[s]
        BY <2>0, <1>T DEF EventsFresh, Active
      <3>5. QED
        BY <2>9, <3>1, <3>2, <3>3, <3>4, <2>0, <1>T, FreshStep
    <2>11. NoDuplicateDelivery'
      <3>1. IsInjective(chan[v]) /\ ToSet(chan[v]) \cap delivered[v] = {}
        BY <1>T DEF NoDuplicateDelivery
      <3>2. IsInjective(chan'[v]) /\ ToSet(chan'[v]) \cap delivered'[v] = {}
        BY <3>1, <2>0, <2>3, <2>4 DEF Given
      <3>3. QED
        BY <3>2, <2>0, <2>5, <1>T DEF NoDuplicateDelivery
    <2>12. QED
      BY <1>0, <2>8, <2>10, <2>11 DEF DupInv
  \* The write-back: ms.watchers becomes the writer's local slice.
  <1>6. ASSUME NEW s \in Writers, FinishSend(s) PROVE DupInv'
    <2>0. /\ spc[s] = "check" /\ spc'[s] = "idle" /\ hub' = acc[s]
          /\ \A t \in Writers \ {s} : WriterSame(t)
          /\ UNCHANGED <<registered, chan, delivered, sent>>
      BY <1>6, <1>T DEF FinishSend, TypeOK, WriterSame
    <2>1. SliceOK(s)
      BY <2>0, <1>T DEF SlicesDistinct, Active
    <2>2. HubOK'
      BY <2>0, <2>1 DEF HubOK, SliceOK
    <2>3. SlicesDistinct'
      BY <2>0, <2>2, <1>T, SlicesStep DEF Active
    <2>4. \A w \in Watchers : Given(w)' = Given(w)
      BY <2>0 DEF Given
    <2>5. EventsFresh'
      <3>1. sent \in Nat /\ sent' \in Nat /\ sent <= sent'
        BY <2>0, <1>T
      <3>2. \A t \in Writers \ {s} : Active(t) => ev[t] # 0
        BY <1>T DEF EventsFresh, FreshOK
      <3>3. QED
        BY <2>4, <3>1, <3>2, <2>0, <1>T, FreshStep DEF Active
    <2>6. NoDuplicateDelivery'
      BY <2>0, <1>T DEF NoDuplicateDelivery
    <2>7. QED
      BY <1>0, <2>3, <2>5, <2>6 DEF DupInv
  \* The watcher's loop: an event moves from incomingChan to the consumer.
  <1>7. ASSUME NEW w \in Watchers, Deliver(w) PROVE DupInv'
    <2>0. /\ chan[w] # << >>
          /\ chan' = [chan EXCEPT ![w] = Tail(chan[w])]
          /\ delivered' = [delivered EXCEPT ![w] = delivered[w] \cup {Head(chan[w])}]
          /\ UNCHANGED <<hub, registered, sent, spc, ev, todo, acc, cur>>
      BY <1>7 DEF Deliver
    <2>1. /\ chan[w] \in Seq(Events)
          /\ IsInjective(chan[w]) /\ ToSet(chan[w]) \cap delivered[w] = {}
      BY <1>T DEF TypeOK, NoDuplicateDelivery
    <2>2. /\ chan'[w] = Tail(chan[w])
          /\ delivered'[w] = delivered[w] \cup {Head(chan[w])}
          /\ \A u \in Watchers \ {w} : chan'[u] = chan[u] /\ delivered'[u] = delivered[u]
      BY <2>0, <1>T DEF TypeOK
    <2>3. /\ ToSet(chan[w]) = ToSet(chan'[w]) \cup {Head(chan[w])}
          /\ IsInjective(chan'[w])
          /\ Head(chan[w]) \notin ToSet(chan'[w])
      BY <2>0, <2>1, <2>2, TailFacts
    <2>4. \A u \in Watchers : Given(u)' = Given(u)
      BY <2>2, <2>3 DEF Given
    <2>5. \A t \in Writers : WriterSame(t)
      BY <2>0 DEF WriterSame
    <2>6. SlicesDistinct'
      <3>1. ASSUME NEW t \in Writers, Active(t)' PROVE SliceOK(t)'
        BY <3>1, <2>0, <2>5, <1>T, SliceOKStays DEF SlicesDistinct, Active
      <3>2. QED
        BY <3>1, <2>0, <1>T DEF SlicesDistinct, HubOK
    <2>7. EventsFresh'
      <3>1. ASSUME NEW t \in Writers, Active(t)' PROVE FreshOK(t)'
        <4>1. Active(t) /\ FreshOK(t)
          BY <3>1, <2>0, <1>T DEF Active, EventsFresh
        <4>2. ev[t] # 0 /\ sent \in Nat
          BY <4>1, <1>T DEF FreshOK
        <4>3. \A u \in Watchers : Given(u)' \subseteq Given(u) \cup {0}
          BY <2>4
        <4>4. WriterSame(t) /\ sent' \in Nat /\ sent <= sent'
          BY <4>2, <2>0, <2>5
        <4>5. QED
          BY <4>1, <4>2, <4>3, <4>4, <1>T, FreshOKStays
      <3>2. QED
        BY <3>1, <2>0, <2>4, <1>T DEF EventsFresh, Active
    <2>8. NoDuplicateDelivery'
      BY <2>1, <2>2, <2>3, <1>T DEF NoDuplicateDelivery
    <2>9. QED
      BY <1>0, <2>6, <2>7, <2>8 DEF DupInv
  \* Stop, Done and stuttering leave everything the invariant reads alone.
  <1>8. ASSUME NEW w \in Watchers, Stop(w) PROVE DupInv'
    <2>1. UNCHANGED <<hub, registered, chan, delivered, sent, spc, ev, todo,
                      acc, cur>>
      BY <1>8 DEF Stop
    <2>2. QED
      BY <2>1, <1>0, <1>T DEF DupInv, SlicesDistinct, HubOK, SliceOK,
                              EventsFresh, FreshOK, NoDuplicateDelivery,
                              Active, Ahead, Given
  <1>9. CASE Done \/ UNCHANGED vars
    <2>1. UNCHANGED vars
      BY <1>9 DEF Done
    <2>2. QED
      BY <2>1, <1>0, <1>T DEF vars, DupInv, SlicesDistinct, HubOK, SliceOK,
                              EventsFresh, FreshOK, NoDuplicateDelivery,
                              Active, Ahead, Given
  <1>10. QED
    BY <1>1, <1>2, <1>3, <1>4, <1>5, <1>6, <1>7, <1>8, <1>9 DEF Next, SenderStep

(***************************************************************************)
(* No watcher is ever handed the same event twice, for any writers,       *)
(* watchers, channel capacity and event bound: however the snapshots,    *)
(* sends and unlocked write-backs of concurrent sendEvents (lines         *)
(* 850-857) interleave with watch's append (line 764) and with delivery,  *)
(* ms.watchers lists a watcher at most once and each event reaches each   *)
(* watcher at most once.                                                   *)
(***************************************************************************)
THEOREM NoDuplicateDeliveryInvariant == Spec => []NoDuplicateDelivery
  <1>1. DupInv => NoDuplicateDelivery
    BY DEF DupInv
  <1>2. QED
    BY <1>1, InitDupInv, NextDupInv, PTL DEF Spec

=============================================================================
