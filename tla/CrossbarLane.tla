---------------------------- MODULE CrossbarLane ----------------------------
(***************************************************************************)
(* One lane of detail::SinkCrossbar at the granularity of its atomic       *)
(* operations: the bounded WorkersEventQueue (src/async), the producers    *)
(* that submit to it through a delivery strategy (src/delivery.cpp), the   *)
(* lane's worker thread (lane_loop_) and the threads that run              *)
(* Pipeline::start(), close(), request_stop() and SinkCrossbar::configure  *)
(* down to this lane. The latter exclude each other with worker_m, except  *)
(* for the store to accepting with which close() and request_stop() begin. *)
(*                                                                         *)
(* Every load, compare-exchange, fetch_sub, notify and queue operation is  *)
(* a step of its own. The Workers BlockingQueue inside the lane is         *)
(* external code and is specified by the contract its callers rely on.     *)
(* Two pieces of state are not variables because the program counters      *)
(* determine them: the holder of space_m_ (SpaceLocked) and the wait set   *)
(* of cv_space_ (Waiters).                                                 *)
(***************************************************************************)
EXTENDS Integers, Sequences, FiniteSets

CONSTANTS Producers,     \* threads that log to the route
          QueueCapacity, \* Config::queue_capacity(), any size_t
          MaxEvents,     \* bound: events that each producer submits
          Passing        \* producers whose endpoint the route's filters pass

ASSUME LaneAssumption ==
  /\ IsFiniteSet(Producers)
  /\ QueueCapacity \in Nat
  /\ MaxEvents \in [Producers -> Nat]
  /\ Passing \subseteq Producers

VARIABLES
  size_,          \* reserved slots: std::atomic<std::size_t>
  items,          \* content of the Workers queue, oldest first
  closed,         \* has the Workers queue been closed?
  accepting, running, \* Pipeline::Impl's flags
  delivery,       \* the route's delivery strategy, fixed for the lane
  ppc,            \* where each producer is in submit()
  n,              \* reserve_slot_'s local n, per producer
  sent,           \* number of events each producer has submitted so far
  acked,          \* history: events for which the queue's push returned true
  wpc,            \* where the worker is in lane_loop_
  hand,           \* <<>> or <<e>>: the worker's local event
  draining,       \* is the worker in the second, draining loop?
  drain_on_stop,  \* Lane::drain_on_stop
  stop_requested, \* the worker's stop token
  spc,            \* where the thread is that stops the lane
  written         \* what the route's sink has received

queueVars    == <<size_, items, closed>>
producerVars == <<ppc, n, sent, acked>>
workerVars   == <<wpc, hand, draining, written>>
stopVars     == <<accepting, running, drain_on_stop, stop_requested, spc>>
vars == <<queueVars, producerVars, workerVars, stopVars, delivery>>

\* An event is identified by its producer and its place in that producer's
\* sequence of calls.
Event == UNION {{p} \X (1..MaxEvents[p]) : p \in Producers}

\* WorkersEventQueue and SinkCrossbar both round a zero capacity up to one.
capacity_ == IF QueueCapacity < 1 THEN 1 ELSE QueueCapacity

\* Producer states. "check", "checkSize" and "sleepy" are inside cv_space_.wait:
\* about to lock space_m_ and load accepting; holding space_m_, about to load
\* size_; holding space_m_ with a false predicate, about to block.
ProducerStates == {"idle", "accepting", "load", "cas", "push", "undo", "undone",
                   "check", "checkSize", "sleepy", "asleep"}

WorkerStates == {"unstarted", "pop", "release", "notify", "process",
                 "drainFlag", "drain", "exited"}

\* Who stops the lane: nobody; a caller that waits for worker_m ("flag"); a caller
\* inside stop_lanes_, holding worker_m ("close" to "join"); a caller that is done
\* ("stopped"). A "dropped" lane is no longer in the pipeline's crossbar.
StopStates == {"none", "flag", "close", "notify", "stop", "join", "stopped", "dropped"}

WorkerMutexFree == spc \in {"none", "flag", "stopped", "dropped"}

SpaceLocked == \E p \in Producers : ppc[p] \in {"checkSize", "sleepy"}

Waiters == {p \in Producers : ppc[p] = "asleep"}

\* stop_lanes_(false) ends by replacing lane->queue, which destroys the old one.
\* What a producer still inside it does from then on is undefined.
QueueDestroyed == spc = "stopped" /\ ~drain_on_stop

\* The event a producer's current call is about.
CurrentEvent(p) == <<p, sent[p]>>

RoutePasses(e) == e[1] \in Passing

-----------------------------------------------------------------------------
(* Producers: Pipeline::submit's accepting test, then strategy->submit.    *)

\* Mutant: try_push waits on cv_space_ too.
WhenFullAlwaysWaits == "check"

\* Where a call goes when reserve_slot_ finds the queue full: push_blocking
\* waits on cv_space_, try_push gives up.
WhenFull == IF delivery = "block_when_full" THEN "check" ELSE "idle"

\* The accepting test, and a snapshot of the crossbar's lanes that has this one.
Submit(p) ==
  /\ ppc[p] = "idle" /\ spc # "dropped"
  /\ sent[p] < MaxEvents[p]
  /\ accepting
  /\ ~QueueDestroyed
  /\ sent' = [sent EXCEPT ![p] = @ + 1]
  /\ ppc' = [ppc EXCEPT ![p] = IF delivery = "block_when_full"
                               THEN "accepting" ELSE "load"]
  /\ UNCHANGED <<queueVars, workerVars, stopVars, delivery, n, acked>>

\* while (accepting.load()) in push_blocking.
LoopCondition(p) ==
  /\ ppc[p] = "accepting"
  /\ ~QueueDestroyed
  /\ ppc' = [ppc EXCEPT ![p] = IF accepting THEN "load" ELSE "idle"]
  /\ UNCHANGED <<queueVars, workerVars, stopVars, delivery, n, sent, acked>>

\* reserve_slot_: the first load of size_.
LoadSize(p) ==
  /\ ppc[p] = "load"
  /\ ~QueueDestroyed
  /\ n' = [n EXCEPT ![p] = size_]
  /\ ppc' = [ppc EXCEPT ![p] = IF size_ < capacity_ THEN "cas" ELSE WhenFull]
  /\ UNCHANGED <<queueVars, workerVars, stopVars, delivery, sent, acked>>

\* Mutant: size_.store(n + 1) in place of the compare-exchange.
CompareExchangeBlind(p) ==
  /\ ppc[p] = "cas"
  /\ ~QueueDestroyed
  /\ size_' = n[p] + 1
  /\ ppc' = [ppc EXCEPT ![p] = "push"]
  /\ UNCHANGED <<n, items, closed, workerVars, stopVars, delivery, sent, acked>>

\* reserve_slot_: compare_exchange_weak. A failure reloads n and tests it
\* again; a spurious failure would reload the same n and changes nothing.
CompareExchange(p) ==
  /\ ppc[p] = "cas"
  /\ ~QueueDestroyed
  /\ \/ /\ n[p] = size_
        /\ size_' = size_ + 1
        /\ ppc' = [ppc EXCEPT ![p] = "push"]
        /\ UNCHANGED n
     \/ /\ n[p] # size_
        /\ n' = [n EXCEPT ![p] = size_]
        /\ ppc' = [ppc EXCEPT ![p] = IF size_ < capacity_ THEN "cas" ELSE WhenFull]
        /\ UNCHANGED size_
  /\ UNCHANGED <<items, closed, workerVars, stopVars, delivery, sent, acked>>

\* Mutant: the queue takes events after close().
PushIgnoringClose(p) ==
  /\ ppc[p] = "push"
  /\ ~QueueDestroyed
  /\ items' = Append(items, CurrentEvent(p))
  /\ acked' = acked \cup {CurrentEvent(p)}
  /\ ppc' = [ppc EXCEPT ![p] = "idle"]
  /\ UNCHANGED <<size_, closed, workerVars, stopVars, delivery, n, sent>>

\* queue_.push(): the Workers queue refuses events once it is closed.
Push(p) ==
  /\ ppc[p] = "push"
  /\ ~QueueDestroyed
  /\ \/ /\ ~closed
        /\ items' = Append(items, CurrentEvent(p))
        /\ acked' = acked \cup {CurrentEvent(p)}
        /\ ppc' = [ppc EXCEPT ![p] = "idle"]
     \/ /\ closed
        /\ ppc' = [ppc EXCEPT ![p] = "undo"]
        /\ UNCHANGED <<items, acked>>
  /\ UNCHANGED <<size_, closed, workerVars, stopVars, delivery, n, sent>>

\* release_slot_ after a refused push: fetch_sub ...
UndoReserve(p) ==
  /\ ppc[p] = "undo"
  /\ ~QueueDestroyed
  /\ size_' = size_ - 1
  /\ ppc' = [ppc EXCEPT ![p] = "undone"]
  /\ UNCHANGED <<items, closed, workerVars, stopVars, delivery, n, sent, acked>>

\* cv_space_.notify_one(), which does not take space_m_: one waiter, if there is
\* one, goes back to evaluating its predicate. pcs are the program counters
\* after the notifying thread's own step.
NotifyOne(pcs) ==
  \/ Waiters = {} /\ ppc' = pcs
  \/ \E w \in Waiters : ppc' = [pcs EXCEPT ![w] = "check"]

\* ... and notify_one; the call returns false.
UndoNotify(p) ==
  /\ ppc[p] = "undone"
  /\ ~QueueDestroyed
  /\ NotifyOne([ppc EXCEPT ![p] = "idle"])
  /\ UNCHANGED <<queueVars, workerVars, stopVars, delivery, n, sent, acked>>

\* cv_space_.wait: lock space_m_ (on entry or after a wake-up) and load
\* accepting. If it is false the predicate holds: unlock, back to the loop.
WaitLoadAccepting(p) ==
  /\ ppc[p] = "check"
  /\ ~QueueDestroyed
  /\ ~SpaceLocked
  /\ ppc' = [ppc EXCEPT ![p] = IF accepting THEN "checkSize" ELSE "accepting"]
  /\ UNCHANGED <<queueVars, workerVars, stopVars, delivery, n, sent, acked>>

\* The predicate's second operand: load size_.
WaitLoadSize(p) ==
  /\ ppc[p] = "checkSize"
  /\ ~QueueDestroyed
  /\ ppc' = [ppc EXCEPT ![p] = IF size_ < capacity_ THEN "accepting" ELSE "sleepy"]
  /\ UNCHANGED <<queueVars, workerVars, stopVars, delivery, n, sent, acked>>

\* Block: enter the wait set and unlock space_m_, in one atomic step.
WaitBlock(p) ==
  /\ ppc[p] = "sleepy"
  /\ ~QueueDestroyed
  /\ ppc' = [ppc EXCEPT ![p] = "asleep"]
  /\ UNCHANGED <<queueVars, workerVars, stopVars, delivery, n, sent, acked>>

\* std::condition_variable permits a wake-up nobody asked for.
SpuriousWake(p) ==
  /\ ppc[p] = "asleep"
  /\ ~QueueDestroyed
  /\ ppc' = [ppc EXCEPT ![p] = "check"]
  /\ UNCHANGED <<queueVars, workerVars, stopVars, delivery, n, sent, acked>>

-----------------------------------------------------------------------------
(* The lane's worker.                                                      *)

\* Pipeline::start() and, unless the pipeline is running already or the lane is no
\* longer in its crossbar, SinkCrossbar::start(): a new worker with a new stop token,
\* on the queue as it is.
Start ==
  /\ WorkerMutexFree
  /\ ~QueueDestroyed
  /\ accepting' = TRUE /\ running' = TRUE
  /\ \/ /\ running \/ spc = "dropped"
        /\ UNCHANGED <<wpc, draining, drain_on_stop, stop_requested>>
     \/ /\ ~running /\ spc # "dropped"
        /\ wpc' = "pop" /\ draining' = FALSE
        /\ drain_on_stop' = TRUE /\ stop_requested' = FALSE
  /\ UNCHANGED <<queueVars, producerVars, delivery, hand, written, spc>>

\* Mutant: last in, first out.
TakeNewest ==
  /\ items # <<>>
  /\ hand' = <<items[Len(items)]>>
  /\ items' = SubSeq(items, 1, Len(items) - 1)
  /\ wpc' = "release"
  /\ UNCHANGED <<size_, closed, producerVars, stopVars, delivery, draining, written>>

\* Workers pop / try_pop taking the oldest event; both are followed by
\* release_slot_.
TakeOldest ==
  /\ items # <<>>
  /\ hand' = <<Head(items)>>
  /\ items' = Tail(items)
  /\ wpc' = "release"
  /\ UNCHANGED <<size_, closed, producerVars, stopVars, delivery, draining, written>>

\* Mutant: only close() wakes the worker, never a push.
PopBlockingLate ==
  /\ wpc = "pop"
  /\ closed
  /\ TakeOldest

PopBlocking ==
  /\ wpc = "pop"
  /\ TakeOldest

\* The Workers pop returns something other than ok. It may do so as soon as the
\* queue is closed or the token is stopped, whether or not events remain.
PopEnds ==
  /\ wpc = "pop"
  /\ closed \/ stop_requested
  /\ wpc' = "drainFlag"
  /\ UNCHANGED <<queueVars, producerVars, stopVars, delivery, hand, draining, written>>

\* Mutant: pop_blocking and its caller both release the slot.
ReleaseSlotTwice ==
  /\ wpc = "release"
  /\ size_' = size_ - 2
  /\ wpc' = "notify"
  /\ UNCHANGED <<items, closed, producerVars, stopVars, delivery, hand, draining, written>>

\* release_slot_ after a successful pop: fetch_sub ...
ReleaseSlot ==
  /\ wpc = "release"
  /\ size_' = size_ - 1
  /\ wpc' = "notify"
  /\ UNCHANGED <<items, closed, producerVars, stopVars, delivery, hand, draining, written>>

\* ... and notify_one.
ReleaseNotify ==
  /\ wpc = "notify"
  /\ NotifyOne(ppc)
  /\ wpc' = "process"
  /\ UNCHANGED <<queueVars, stopVars, delivery, n, sent, acked, hand, draining, written>>

\* Mutant: process_ trusts the cached route mask and does not filter again.
ProcessUnfiltered ==
  /\ wpc = "process"
  /\ written' = Append(written, Head(hand))
  /\ hand' = <<>>
  /\ wpc' = IF draining THEN "drain" ELSE "pop"
  /\ UNCHANGED <<queueVars, producerVars, stopVars, delivery, draining>>

\* process_: filters again, then render and write; back to the loop it came from.
Process ==
  /\ wpc = "process"
  /\ written' = IF RoutePasses(Head(hand)) THEN Append(written, Head(hand)) ELSE written
  /\ hand' = <<>>
  /\ wpc' = IF draining THEN "drain" ELSE "pop"
  /\ UNCHANGED <<queueVars, producerVars, stopVars, delivery, draining>>

\* Mutant: the test of drain_on_stop is inverted.
LoadDrainFlagInverted ==
  /\ wpc = "drainFlag"
  /\ draining' = ~drain_on_stop
  /\ wpc' = IF drain_on_stop THEN "exited" ELSE "drain"
  /\ UNCHANGED <<queueVars, producerVars, stopVars, delivery, hand, written>>

\* Between the two loops: return at once unless this is a graceful close.
LoadDrainFlag ==
  /\ wpc = "drainFlag"
  /\ draining' = drain_on_stop
  /\ wpc' = IF drain_on_stop THEN "drain" ELSE "exited"
  /\ UNCHANGED <<queueVars, producerVars, stopVars, delivery, hand, written>>

\* while (try_pop(e)): take one more event ...
DrainTake ==
  /\ wpc = "drain"
  /\ TakeOldest

\* Mutant: the draining loop waits for events instead of calling try_pop.
DrainNeverEnds ==
  /\ wpc = "drain"
  /\ items = <<>>
  /\ UNCHANGED vars

\* ... or find the queue empty and return.
DrainEnd ==
  /\ wpc = "drain"
  /\ items = <<>>
  /\ wpc' = "exited"
  /\ UNCHANGED <<queueVars, producerVars, stopVars, delivery, hand, draining, written>>

-----------------------------------------------------------------------------
(* Pipeline::close() (d = TRUE) or request_stop() (d = FALSE), which run   *)
(* stop_lanes_ under worker_m, and configure(), which does so too.         *)

\* close() and request_stop() clear accepting before they have worker_m: while
\* another call is stopping the lane, and before a start() that sets it again.
StopAccepting ==
  /\ ~QueueDestroyed
  /\ accepting' = FALSE
  /\ spc' = IF spc \in {"none", "stopped"} THEN "flag" ELSE spc
  /\ UNCHANGED <<queueVars, producerVars, workerVars, delivery, running, drain_on_stop,
                 stop_requested>>

SetDrainFlag(d) ==
  /\ spc = "flag"
  /\ running' = FALSE
  /\ drain_on_stop' = d
  /\ spc' = "close"
  /\ UNCHANGED <<queueVars, producerVars, workerVars, delivery, accepting, stop_requested>>

\* SinkCrossbar::configure, when a route is added or all are removed: a running
\* crossbar first stops and drains its lanes, with accepting as it is; then the lane
\* is dropped.
Reconfigure ==
  /\ spc \in {"none", "flag", "stopped"}
  /\ ~QueueDestroyed
  /\ drain_on_stop' = (running \/ drain_on_stop)
  /\ spc' = IF running THEN "close" ELSE "dropped"
  /\ UNCHANGED <<queueVars, producerVars, workerVars, delivery, accepting, running,
                 stop_requested>>

\* WorkersEventQueue::close(): close the Workers queue, then ...
CloseQueue ==
  /\ spc = "close"
  /\ closed' = TRUE
  /\ spc' = "notify"
  /\ UNCHANGED <<size_, items, producerVars, workerVars, delivery, accepting, running,
                 drain_on_stop, stop_requested>>

\* ... cv_space_.notify_all(), again without space_m_.
NotifyAll ==
  /\ spc = "notify"
  /\ ppc' = [p \in Producers |-> IF p \in Waiters THEN "check" ELSE ppc[p]]
  /\ spc' = "stop"
  /\ UNCHANGED <<queueVars, workerVars, delivery, n, sent, acked, accepting, running,
                 drain_on_stop, stop_requested>>

RequestStop ==
  /\ spc = "stop"
  /\ stop_requested' = (wpc # "unstarted")
  /\ spc' = "join"
  /\ UNCHANGED <<queueVars, producerVars, workerVars, delivery, accepting, running, drain_on_stop>>

\* join() when the worker was ever started; for a forced stop the queue is then
\* replaced (QueueDestroyed). Only configure() gets here with running set; it goes on
\* to drop the lane.
Join ==
  /\ spc = "join"
  /\ wpc \in {"unstarted", "exited"}
  /\ spc' = IF running THEN "dropped" ELSE "stopped"
  /\ UNCHANGED <<queueVars, producerVars, workerVars, delivery, accepting, running,
                 drain_on_stop, stop_requested>>

\* The end of close() and request_stop(): the pipeline gets another crossbar.
ReplaceCrossbar ==
  /\ spc = "stopped" /\ ~QueueDestroyed
  /\ spc' = "dropped"
  /\ UNCHANGED <<queueVars, producerVars, workerVars, delivery, accepting, running,
                 drain_on_stop, stop_requested>>

\* The lane has been dropped and no call is left in it (or the calls that are left
\* are in a destroyed queue).
Finished ==
  /\ spc \in {"stopped", "dropped"}
  /\ QueueDestroyed \/ \A p \in Producers : ppc[p] = "idle"
  /\ UNCHANGED vars

-----------------------------------------------------------------------------
Init ==
  /\ size_ = 0 /\ items = <<>> /\ closed = FALSE
  /\ accepting = TRUE /\ running = FALSE
  /\ delivery \in {"drop_when_full", "block_when_full"}
  /\ ppc = [p \in Producers |-> "idle"]
  /\ n = [p \in Producers |-> 0]
  /\ sent = [p \in Producers |-> 0]
  /\ acked = {}
  /\ wpc = "unstarted" /\ hand = <<>> /\ draining = FALSE
  /\ drain_on_stop = TRUE /\ stop_requested = FALSE
  /\ spc = "none"
  /\ written = <<>>

\* What a producer does once it is inside submit().
ProducerStep(p) ==
  \/ LoopCondition(p) \/ LoadSize(p) \/ CompareExchange(p) \/ Push(p)
  \/ UndoReserve(p) \/ UndoNotify(p)
  \/ WaitLoadAccepting(p) \/ WaitLoadSize(p) \/ WaitBlock(p)

WorkerStep ==
  \/ PopBlocking \/ PopEnds \/ ReleaseSlot \/ ReleaseNotify \/ Process
  \/ LoadDrainFlag \/ DrainTake \/ DrainEnd

\* What a stopping thread does once it is inside close(), request_stop() or configure().
StopStep ==
  \/ \E d \in BOOLEAN : SetDrainFlag(d)
  \/ CloseQueue \/ NotifyAll \/ RequestStop \/ Join \/ ReplaceCrossbar

Next ==
  \/ \E p \in Producers : Submit(p) \/ ProducerStep(p) \/ SpuriousWake(p)
  \/ Start
  \/ WorkerStep
  \/ StopAccepting \/ Reconfigure
  \/ StopStep
  \/ Finished

Spec == Init /\ [][Next]_vars

\* The scheduler runs every thread that can run. Nobody is obliged to call
\* submit, start or close, and a spurious wake-up is never owed.
Fairness ==
  /\ \A p \in Producers : WF_vars(ProducerStep(p))
  /\ WF_vars(WorkerStep)
  /\ WF_vars(StopStep)

FairSpec == Spec /\ Fairness

-----------------------------------------------------------------------------
(* Safety.                                                                 *)

TypeOK ==
  /\ size_ \in Nat
  /\ items \in Seq(Event)
  /\ closed \in BOOLEAN
  /\ accepting \in BOOLEAN /\ running \in BOOLEAN
  /\ delivery \in {"drop_when_full", "block_when_full"}
  /\ ppc \in [Producers -> ProducerStates]
  /\ n \in [Producers -> Nat]
  /\ sent \in [Producers -> Nat] /\ \A p \in Producers : sent[p] <= MaxEvents[p]
  /\ acked \subseteq Event
  /\ wpc \in WorkerStates
  /\ hand = <<>> \/ \E e \in Event : hand = <<e>>
  /\ draining \in BOOLEAN
  /\ drain_on_stop \in BOOLEAN
  /\ stop_requested \in BOOLEAN
  /\ spc \in StopStates
  /\ written \in Seq(Event)

\* Producers between a successful reserve_slot_ and the push or release that
\* uses the slot up.
Reserving == {p \in Producers : ppc[p] \in {"push", "undo"}}

\* Slot accounting of WorkersEventQueue: size_ counts exactly the queued events,
\* the slots producers have reserved and not yet used, and the slot of an event
\* the worker has popped and not yet released; it never passes capacity_ (nor
\* wraps below zero), and so neither does the number of queued events. A queue with
\* no slot in use has room, whatever capacity was configured, zero included.
SlotAccounting ==
  /\ size_ = Len(items) + Cardinality(Reserving) + (IF wpc = "release" THEN 1 ELSE 0)
  /\ size_ <= capacity_
  /\ items = <<>> /\ Reserving = {} /\ wpc # "release" => size_ < capacity_

\* The worker that a graceful close() lets drain leaves nothing behind: once
\* lane_loop_ has returned with drain_on_stop set, the queue is empty and stays
\* empty, although producers may still be inside submit().
DrainComplete ==
  wpc = "exited" /\ drain_on_stop => items = <<>> /\ hand = <<>>

\* No event whose push succeeded is lost or invented on its way through the
\* lane: an accepted event is queued, in the worker's hand, or processed, and of
\* the processed events the sink has exactly those that the filters pass.
NothingLost ==
  LET Elements(s) == {s[i] : i \in DOMAIN s}
      passing(S) == {e \in S : RoutePasses(e)}
      pending == Elements(items) \cup Elements(hand)
  IN /\ Elements(written) \cup passing(pending) = passing(acked)
     /\ pending \subseteq acked

\* The lane keeps each producer's order and duplicates nothing: along what the
\* sink has, then the worker's event, then the queue, the events of one producer
\* have strictly increasing numbers, under every interleaving of producers.
ProducerOrder ==
  LET s == written \o hand \o items
  IN \A i, j \in DOMAIN s : i < j /\ s[i][1] = s[j][1] => s[i][2] < s[j][2]

\* The lane implements the bounded first-in first-out channel of EventChannel.
Channel == INSTANCE EventChannel
             WITH Capacity <- capacity_,
                  PassingEvent <- {e \in Event : RoutePasses(e)},
                  open <- ~closed,
                  seen <- acked,
                  chan <- items,
                  sink <- written

\* Refinement: reservation by compare-exchange, waiting, releasing and the
\* shutdown flags are all invisible at the channel's level; an event enters only
\* while there is room and the queue is open, and leaves in order, once.
LaneRefinement == Channel!Spec

-----------------------------------------------------------------------------
(* Liveness, under Fairness.                                               *)

\* close(), request_stop() and configure() get past stop_lanes_: the worker always
\* reaches the end of lane_loop_, so join() does not wait for ever, whatever producers
\* do and although a start() may have set accepting again.
StopReturns == spc \in {"flag", "close"} ~> spc \in {"stopped", "dropped"}

\* An event queued in a lane whose worker was started is processed unless a
\* forced stop intervenes: neither waiting producers nor a racing close() can
\* strand it.
QueuedIsProcessed ==
  \A e \in Event :
    (wpc # "unstarted" /\ \E i \in DOMAIN items : items[i] = e)
      ~> (~drain_on_stop \/ \A i \in DOMAIN items : items[i] # e)

\* drop_when_full never makes its caller wait: every submit() returns, even with
\* no worker running and a full queue.
DroppingReturns ==
  \A p \in Producers :
    (delivery = "drop_when_full" /\ ppc[p] # "idle") ~> (ppc[p] = "idle" \/ QueueDestroyed)

\* docs/internals/async_pipeline.md, Backpressure: block_when_full() "waits until
\* capacity is available or the pipeline stops accepting events". A producer
\* asleep in cv_space_ when there is capacity or the pipeline is stopping must not
\* stay asleep, unless its lane has been dropped from the crossbar.
BlockedProducerWakes ==
  LET mayWait == accepting /\ size_ >= capacity_
      gone == QueueDestroyed \/ spc = "dropped"
  IN \A p \in Producers :
       (ppc[p] = "asleep" /\ ~mayWait) ~> (ppc[p] # "asleep" \/ mayWait \/ gone)

\* docs/api/lifecycle.md, request_stop(): blocked producers are woken, that is,
\* they return from the queue; so the queue must not be destroyed around them.
NoCallInDestroyedQueue ==
  QueueDestroyed => \A p \in Producers : ppc[p] = "idle"
=============================================================================
