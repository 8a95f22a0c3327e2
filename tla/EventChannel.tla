---------------------------- MODULE EventChannel ----------------------------
(***************************************************************************)
(* What one crossbar lane promises, free of atomics, mutexes and condition *)
(* variables: a bounded first-in first-out channel of events with a single *)
(* consumer that hands each event, one at a time, to the route's sink.     *)
(* CrossbarLane implements this specification (LaneRefinement there).      *)
(***************************************************************************)
EXTENDS Naturals, Sequences

CONSTANTS Event,      \* the events producers may submit
          Capacity,   \* the bound on the number of queued events
          PassingEvent \* the events the route's filters let through

VARIABLES open,  \* may events still enter?
          seen,  \* the events that have ever entered
          chan,  \* the queued events, oldest first
          hand,  \* <<>> or <<e>>: the event the consumer is working on
          sink   \* what the sink has been given, in order

vars == <<open, seen, chan, hand, sink>>

Init ==
  /\ open = TRUE
  /\ seen = {}
  /\ chan = <<>>
  /\ hand = <<>>
  /\ sink = <<>>

\* An event enters at most once, at the tail, while the channel is open and
\* has room.
Enqueue(e) ==
  /\ open
  /\ e \notin seen
  /\ Len(chan) < Capacity
  /\ chan' = Append(chan, e)
  /\ seen' = seen \cup {e}
  /\ UNCHANGED <<open, hand, sink>>

Dequeue ==
  /\ hand = <<>>
  /\ chan # <<>>
  /\ hand' = <<Head(chan)>>
  /\ chan' = Tail(chan)
  /\ UNCHANGED <<open, seen, sink>>

\* The consumer finishes with its event: the sink gets it iff the filters pass.
Consume ==
  /\ hand # <<>>
  /\ sink' = IF Head(hand) \in PassingEvent THEN Append(sink, Head(hand)) ELSE sink
  /\ hand' = <<>>
  /\ UNCHANGED <<open, seen, chan>>

\* The channel closes for good.
Close ==
  /\ open
  /\ open' = FALSE
  /\ UNCHANGED <<seen, chan, hand, sink>>

Next ==
  \/ \E e \in Event : Enqueue(e)
  \/ Dequeue
  \/ Consume
  \/ Close

Spec == Init /\ [][Next]_vars
=============================================================================
