------------------------------ MODULE EventBus ------------------------------
(***************************************************************************)
(* orchestrator.memBus, the publishers that call it (the scheduler and the *)
(* workers of the runs) and the event streams that read from it            *)
(* (executor.DrainEvents, one per open GET /runs/:id/events).              *)
(*                                                                         *)
(* A publisher holds the read lock while it offers its event to every      *)
(* subscriber of the run, so several publishers may be inside Publish at   *)
(* once and interleave per subscriber; Subscribe and the unsubscribe       *)
(* closure hold the write lock, one step each.  A channel that is full     *)
(* loses the event.                                                        *)
(***************************************************************************)
EXTENDS Integers, SequencesExt

CONSTANTS
  Run,        \* run ids
  Publisher,  \* goroutines that publish
  Stream,     \* open event streams
  ChanSize,   \* memBusChanSize
  MaxEvents,  \* bound: events per publisher
  NoRun       \* no run: the stream is not subscribed

ASSUME ChanSizeAssumption  == ChanSize \in Nat \ {0}
ASSUME RunAssumption       == Run # {}
ASSUME NoRunAssumption     == NoRun \notin Run
ASSUME MaxEventsAssumption == MaxEvents \in Nat \ {0}
ASSUME FiniteAssumption    == IsFiniteSet(Stream) /\ IsFiniteSet(Publisher)

VARIABLES
  subs,     \* subs[r]: the subscribers of run r, in order of subscription
  chan,     \* chan[s]: the events in the channel of s
  closed,   \* closed[s]: the channel of s has been closed
  readers,  \* publishers that hold the read lock
  todo,     \* todo[p]: subscribers p's event has not been offered to yet
  event,    \* event[p]: the event p is publishing
  count,    \* count[p]: events p has published or is publishing
  reading,  \* reading[s]: the run whose stream s is served, NoRun otherwise
  got,      \* got[s]: the events s has taken from its channel
  due,      \* due[s]: events published to s since it subscribed
  dropped   \* DroppedCount

busVars == <<subs, chan, closed, readers, todo, event, count, reading, got, due,
          dropped>>

Event == [by : Publisher, nr : 1..MaxEvents, run : Run]

BusInit ==
  /\ subs = [r \in Run |-> <<>>]
  /\ chan = [s \in Stream |-> <<>>]
  /\ closed = [s \in Stream |-> FALSE]
  /\ readers = {}
  /\ todo = [p \in Publisher |-> <<>>]
  /\ event = [p \in Publisher |-> [by |-> p, nr |-> 1, run |-> CHOOSE r \in Run : TRUE]]
  /\ count = [p \in Publisher |-> 0]
  /\ reading = [s \in Stream |-> NoRun]
  /\ got = [s \in Stream |-> <<>>]
  /\ due = [s \in Stream |-> 0]
  /\ dropped = 0

----------------------------------------------------------------------------
(* Publish *)

(* Mutant: the subscribers are copied under the lock and the lock dropped. *)
PublishSnapshot(p, r) ==
  /\ p \notin readers
  /\ todo[p] = <<>>
  /\ count[p] < MaxEvents
  /\ count' = [count EXCEPT ![p] = @ + 1]
  /\ event' = [event EXCEPT ![p] = [by |-> p, nr |-> count[p] + 1, run |-> r]]
  /\ todo' = [todo EXCEPT ![p] = subs[r]]
  /\ due' = [s \in Stream |-> due[s] + (IF Contains(subs[r], s) THEN 1 ELSE 0)]
  /\ UNCHANGED <<subs, chan, closed, readers, reading, got, dropped>>

(* The read lock is taken; no write section is open between two steps. *)
Publish(p, r) ==
  /\ p \notin readers
  /\ count[p] < MaxEvents
  /\ readers' = readers \cup {p}
  /\ count' = [count EXCEPT ![p] = @ + 1]
  /\ event' = [event EXCEPT ![p] = [by |-> p, nr |-> count[p] + 1, run |-> r]]
  /\ todo' = [todo EXCEPT ![p] = subs[r]]
  /\ due' = [s \in Stream |-> due[s] + (IF Contains(subs[r], s) THEN 1 ELSE 0)]
  /\ UNCHANGED <<subs, chan, closed, reading, got, dropped>>

(* Mutant: a full channel is waited for. *)
OfferBlocking(p) ==
  /\ todo[p] # <<>>
  /\ LET s == Head(todo[p])
     IN /\ Len(chan[s]) < ChanSize
        /\ chan' = [chan EXCEPT ![s] = Append(@, event[p])]
  /\ todo' = [todo EXCEPT ![p] = Tail(@)]
  /\ UNCHANGED <<subs, closed, readers, event, count, reading, got, due, dropped>>

(* Mutant: a full channel makes room by losing its oldest event, uncounted. *)
OfferEvicting(p) ==
  /\ todo[p] # <<>>
  /\ LET s == Head(todo[p])
     IN chan' = [chan EXCEPT ![s] =
                   Append(IF Len(@) < ChanSize THEN @ ELSE Tail(@), event[p])]
  /\ todo' = [todo EXCEPT ![p] = Tail(@)]
  /\ UNCHANGED <<subs, closed, readers, event, count, reading, got, due, dropped>>

(* One iteration of the send loop: select with a default branch. *)
Offer(p) ==
  /\ todo[p] # <<>>
  /\ LET s == Head(todo[p])
     IN IF Len(chan[s]) < ChanSize
        THEN /\ chan' = [chan EXCEPT ![s] = Append(@, event[p])]
             /\ UNCHANGED dropped
        ELSE /\ dropped' = dropped + 1
             /\ UNCHANGED chan
  /\ todo' = [todo EXCEPT ![p] = Tail(@)]
  /\ UNCHANGED <<subs, closed, readers, event, count, reading, got, due>>

Unlock(p) ==
  /\ p \in readers
  /\ todo[p] = <<>>
  /\ readers' = readers \ {p}
  /\ UNCHANGED <<subs, chan, closed, todo, event, count, reading, got, due, dropped>>

----------------------------------------------------------------------------
(* DrainEvents *)

Subscribe(s, r) ==
  /\ readers = {}
  /\ reading[s] = NoRun
  /\ ~closed[s]
  /\ subs' = [subs EXCEPT ![r] = Append(@, s)]
  /\ reading' = [reading EXCEPT ![s] = r]
  /\ UNCHANGED <<chan, closed, readers, todo, event, count, got, due, dropped>>

(* Mutant: the newest event is taken first. *)
DrainNewest(s) ==
  /\ reading[s] # NoRun
  /\ chan[s] # <<>>
  /\ got' = [got EXCEPT ![s] = Append(@, Last(chan[s]))]
  /\ chan' = [chan EXCEPT ![s] = Front(@)]
  /\ UNCHANGED <<subs, closed, readers, todo, event, count, reading, due, dropped>>

Drain(s) ==
  /\ reading[s] # NoRun
  /\ chan[s] # <<>>
  /\ got' = [got EXCEPT ![s] = Append(@, Head(chan[s]))]
  /\ chan' = [chan EXCEPT ![s] = Tail(@)]
  /\ UNCHANGED <<subs, closed, readers, todo, event, count, reading, due, dropped>>

(***************************************************************************)
(* The client went away or a write to it failed: the deferred unsubscribe. *)
(* What is left in the channel is never read.                              *)
(***************************************************************************)
Leave(s) ==
  /\ readers = {}
  /\ reading[s] # NoRun
  /\ \E i \in 1..Len(subs[reading[s]]) :
       /\ subs[reading[s]][i] = s
       /\ subs' = [subs EXCEPT ![reading[s]] = RemoveAt(@, i)]
  /\ closed' = [closed EXCEPT ![s] = TRUE]
  /\ reading' = [reading EXCEPT ![s] = NoRun]
  /\ UNCHANGED <<chan, readers, todo, event, count, got, due, dropped>>

BusNext ==
  \/ \E p \in Publisher : (\E r \in Run : Publish(p, r)) \/ Offer(p) \/ Unlock(p)
  \/ \E s \in Stream : (\E r \in Run : Subscribe(s, r)) \/ Drain(s) \/ Leave(s)

(* A publisher inside Publish keeps running; streams need not. *)
BusFairness == \A p \in Publisher : WF_busVars(Offer(p)) /\ WF_busVars(Unlock(p))

BusSpec == BusInit /\ [][BusNext]_busVars /\ BusFairness

----------------------------------------------------------------------------
(* Properties *)

BusTypeOK ==
  /\ subs \in [Run -> Seq(Stream)]
  /\ chan \in [Stream -> Seq(Event)]
  /\ \A s \in Stream : Len(chan[s]) <= ChanSize
  /\ closed \in [Stream -> BOOLEAN]
  /\ readers \subseteq Publisher
  /\ todo \in [Publisher -> Seq(Stream)]
  /\ event \in [Publisher -> Event]
  /\ count \in [Publisher -> 0..MaxEvents]
  /\ reading \in [Stream -> Run \cup {NoRun}]
  /\ got \in [Stream -> Seq(Event)]
  /\ due \in [Stream -> Nat]
  /\ dropped \in Nat

(***************************************************************************)
(* "which makes a send-on-closed-channel panic impossible": no subscriber  *)
(* a publisher still has to offer its event to has closed its channel.     *)
(***************************************************************************)
NoSendOnClosed == \A p \in Publisher : \A i \in DOMAIN todo[p] : ~closed[todo[p][i]]

(* What has reached stream s. *)
Received(s) == got[s] \o chan[s]

(***************************************************************************)
(* A stream sees the events of its own run only, and those of one          *)
(* publisher in the order it published them: node.started is never behind  *)
(* node.success, however publishers interleave inside Publish.             *)
(***************************************************************************)
InOrder ==
  \A s \in Stream : LET evs == Received(s) IN
    \A i, j \in DOMAIN evs :
      /\ evs[i].run = evs[1].run
      /\ i < j /\ evs[i].by = evs[j].by => evs[i].nr < evs[j].nr

(***************************************************************************)
(* Every event offered to a subscriber is in its stream or in              *)
(* DroppedCount: nothing is lost silently and nothing arrives twice.       *)
(***************************************************************************)
SumOver(f) == FoldFunctionOnSet(+, 0, f, DOMAIN f)

Accounted ==
  SumOver(due) =
    SumOver([s \in Stream |-> Len(Received(s))]) + dropped
    + SumOver([p \in Publisher |-> Len(todo[p])])

(***************************************************************************)
(* Publish returns whatever the readers do: a stream nobody drains does    *)
(* not wedge a run.                                                        *)
(***************************************************************************)
PublishReturns == \A p \in Publisher : p \in readers ~> p \notin readers
=============================================================================
