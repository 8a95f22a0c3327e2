-------------------------- MODULE PipelineLifecycle --------------------------
(***************************************************************************)
(* Pipeline's lifecycle operations (src/logger.cpp) over the SinkCrossbar  *)
(* objects they create, start, stop and replace (src/async), with threads  *)
(* logging at the same time.                                               *)
(*                                                                         *)
(* crossbars and lanes are the heap: a crossbar or lane that has been      *)
(* replaced is still there for the producers that hold it. A lane's queue  *)
(* is the channel that CrossbarLane implements, with unlimited room        *)
(* (backpressure is CrossbarLane's subject). Routes have no filters and    *)
(* every lookup returns a current mask (RouteCache's subject). A sink is a *)
(* ConsoleSink, whose stream holds what was written until it is flushed.   *)
(*                                                                         *)
(* Each critical section of state_m, worker_m or m_ and each access to an  *)
(* atomic is a step, except that an operation that holds worker_m while it *)
(* stops the lanes does so in several steps (WorkerLocked).                *)
(***************************************************************************)
EXTENDS Integers, Sequences, FiniteSets

CONSTANTS Admins,     \* threads that call lifecycle operations
          Producers,  \* threads that log
          MaxOps,     \* bound: lifecycle operations
          MaxRoutes,  \* bound: calls of add_route
          MaxEvents   \* bound: events logged by each producer

ASSUME LifecycleAssumption == MaxOps \in Nat /\ MaxRoutes \in Nat /\ MaxEvents \in Nat

VARIABLES
  routes,     \* Impl::routes; a route is the number of the add_route call that made it
  async,      \* Impl::cfg.async_by_default
  running,    \* Impl::running
  accepting,  \* Impl::accepting
  crossbar,   \* Impl::crossbar, an index of crossbars
  crossbars,  \* every SinkCrossbar ever made: its lanes_ and running_
  lanes,      \* every Lane ever made
  out,        \* out[r]: what route r's sink has received
  flushed,    \* flushed[r]: the length of out[r] when the sink was last flushed
  apc, aop, acopy, ai,     \* an operation: where it is, which, its copy of routes, loop index
  ppc, sev, mask, held, todo, copied,  \* a call of log: where it is, its severity, its
                \* mask, its shared_ptr to a crossbar, the lanes still to push to, and
                \* dispatch_sync_'s copy of the routes as far as it is still to be written to
  calm,       \* history: no call of add_route or clear_routes has overlapped the call of log
  sent,       \* number of events each producer has logged
  accepted,   \* history: <<event, lane>> for each push that returned true
  ops, added  \* number of operations and of add_route calls so far

pipelineVars == <<routes, async, running, accepting, crossbar>>
heapVars     == <<crossbars, lanes>>
sinkVars     == <<out, flushed>>
adminVars    == <<apc, aop, acopy, ai, ops, added>>
producerVars == <<ppc, sev, mask, held, todo, copied, calm, sent, accepted>>
vars == <<pipelineVars, heapVars, sinkVars, adminVars, producerVars>>

RouteId == 1..MaxRoutes
Event   == Producers \X (1..MaxEvents)

\* A lane as SinkCrossbar::configure makes it; worker is "none" until the lane is
\* started. forced is history: did a request_stop() ever stop it?
NewLane(r, w) == [route |-> r, queue |-> <<>>, closed |-> FALSE,
                  worker |-> w, drain |-> TRUE, forced |-> FALSE]

LanesOf(x) == crossbars[x].lanes

\* lanes_ cleared and one lane made per route, in the current crossbar.
\* restart: each new lane gets its worker at once.
Rebuild(x, rs, restart) ==
  /\ lanes' = lanes \o [i \in DOMAIN rs |-> NewLane(rs[i], IF restart THEN "run" ELSE "none")]
  /\ crossbars' = [crossbars EXCEPT ![x] =
       [lanes |-> [i \in DOMAIN rs |-> Len(lanes) + i], running_ |-> restart]]

Held(x) == \E p \in Producers : held[p] = x

\* The lanes after ~SinkCrossbar: stop_lanes_(false), and the queues go away.
Destroyed(x) ==
  [l \in DOMAIN lanes |->
     IF \E i \in DOMAIN LanesOf(x) : LanesOf(x)[i] = l
     THEN [lanes[l] EXCEPT !.queue = <<>>, !.closed = TRUE, !.drain = FALSE,
                           !.worker = IF @ = "run" THEN "exited" ELSE @]
     ELSE lanes[l]]

\* Mutant: the old crossbar is reset and no new one is made.
ReplaceByNull(rs) ==
  /\ crossbar' = 0
  /\ UNCHANGED heapVars

\* A new crossbar with lanes for the routes rs replaces the current one, which is
\* destroyed unless a producer still holds it.
Replace(rs) ==
  LET old == IF Held(crossbar) THEN lanes ELSE Destroyed(crossbar)
  IN /\ lanes' = old \o [i \in DOMAIN rs |-> NewLane(rs[i], "none")]
     /\ crossbars' = Append(crossbars,
          [lanes |-> [i \in DOMAIN rs |-> Len(lanes) + i], running_ |-> FALSE])
     /\ crossbar' = Len(crossbars) + 1

-----------------------------------------------------------------------------
(* Lifecycle operations.                                                   *)

\* worker_m is held across the steps of stop_lanes_ and the rebuild after it.
WorkerLocked == \E a \in Admins : apc[a] \in {"closing", "joining", "rebuild"}

AGoto(a, l) == apc' = [apc EXCEPT ![a] = l]

Called(a) ==
  /\ apc[a] = "idle"
  /\ ops < MaxOps
  /\ ops' = ops + 1

Begin(a, op, l) ==
  /\ Called(a)
  /\ aop' = [aop EXCEPT ![a] = op]
  /\ AGoto(a, l)

\* The operation returns and its locals go away.
Finish(a) ==
  /\ AGoto(a, "idle")
  /\ aop' = [aop EXCEPT ![a] = "none"]
  /\ acopy' = [acopy EXCEPT ![a] = <<>>]
  /\ ai' = [ai EXCEPT ![a] = 1]

\* No call of log in progress stays calm.
Disturb ==
  /\ calm' = [p \in Producers |-> ppc[p] = "idle"]
  /\ UNCHANGED <<ppc, sev, mask, held, todo, copied, sent, accepted>>

\* add_route and clear_routes: change the routes and copy them, under state_m.
add_route(a) ==
  /\ Begin(a, "route", "relane")
  /\ added < MaxRoutes
  /\ added' = added + 1
  /\ routes' = Append(routes, added + 1)
  /\ acopy' = [acopy EXCEPT ![a] = routes']
  /\ Disturb
  /\ UNCHANGED <<async, running, accepting, crossbar, heapVars, sinkVars, ai>>

\* Mutant: clear_routes does not configure the crossbar.
ClearRoutesOnly(a) ==
  /\ Called(a)
  /\ routes' = <<>>
  /\ Disturb
  /\ UNCHANGED <<async, running, accepting, crossbar, heapVars, sinkVars, apc, aop, acopy, ai, added>>

clear_routes(a) ==
  /\ Begin(a, "route", "relane")
  /\ routes' = <<>>
  /\ acopy' = [acopy EXCEPT ![a] = <<>>]
  /\ Disturb
  /\ UNCHANGED <<async, running, accepting, crossbar, heapVars, sinkVars, ai, added>>

\* stop_lanes_(d) begins, under m_: nothing to do for an idle crossbar without
\* lanes; otherwise running_ and the drain flags are set.
StopBegins(a, d, next) ==
  LET x == crossbar IN
  IF ~crossbars[x].running_ /\ LanesOf(x) = <<>>
  THEN AGoto(a, next) /\ UNCHANGED <<heapVars, ai>>
  ELSE /\ crossbars' = [crossbars EXCEPT ![x].running_ = FALSE]
       /\ lanes' = [l \in DOMAIN lanes |->
            IF \E i \in DOMAIN LanesOf(x) : LanesOf(x)[i] = l
            THEN [lanes[l] EXCEPT !.drain = d, !.forced = @ \/ ~d] ELSE lanes[l]]
       /\ ai' = [ai EXCEPT ![a] = 1]
       /\ AGoto(a, "closing")

\* Then SinkCrossbar::configure with the copy, under worker_m: a running crossbar
\* is first stopped, draining; any other just gets new lanes.
Relane(a) ==
  /\ apc[a] = "relane"
  /\ ~WorkerLocked
  /\ \/ /\ crossbars[crossbar].running_
        /\ StopBegins(a, TRUE, "rebuild")
        /\ UNCHANGED <<aop, acopy>>
     \/ /\ ~crossbars[crossbar].running_
        /\ Rebuild(crossbar, acopy[a], FALSE)
        /\ Finish(a)
  /\ UNCHANGED <<pipelineVars, sinkVars, ops, added, producerVars>>

start(a) ==
  /\ Called(a)
  /\ ~WorkerLocked
  /\ accepting' = TRUE
  /\ running' = TRUE
  /\ \/ /\ running \/ crossbars[crossbar].running_
        /\ UNCHANGED heapVars
     \/ /\ ~running /\ ~crossbars[crossbar].running_
        /\ crossbars' = [crossbars EXCEPT ![crossbar].running_ = TRUE]
        /\ lanes' = [l \in DOMAIN lanes |->
             IF \E i \in DOMAIN LanesOf(crossbar) : LanesOf(crossbar)[i] = l
             THEN [lanes[l] EXCEPT !.drain = TRUE, !.worker = "run"] ELSE lanes[l]]
  /\ UNCHANGED <<routes, async, crossbar, sinkVars, apc, aop, acopy, ai, added, producerVars>>

\* close() and request_stop(): accepting = false ...
Stop(a, op) ==
  /\ Begin(a, op, "stop")
  /\ accepting' = FALSE
  /\ UNCHANGED <<routes, async, running, crossbar, heapVars, sinkVars, acopy, ai, added, producerVars>>

\* ... then, under worker_m, running = false and stop_lanes_ ...
StopLanes(a) ==
  /\ apc[a] = "stop"
  /\ ~WorkerLocked
  /\ running' = FALSE
  /\ StopBegins(a, aop[a] = "close", "flush")
  /\ UNCHANGED <<routes, async, accepting, crossbar, sinkVars, aop, acopy, ops, added, producerVars>>

\* ... which closes the queues one lane at a time (and requests the workers'
\* stop, which a closed queue makes redundant) ...
CloseLane(a) ==
  /\ apc[a] = "closing"
  /\ \/ /\ ai[a] <= Len(LanesOf(crossbar))
        /\ lanes' = [lanes EXCEPT ![LanesOf(crossbar)[ai[a]]].closed = TRUE]
        /\ ai' = [ai EXCEPT ![a] = @ + 1]
        /\ UNCHANGED apc
     \/ /\ ai[a] > Len(LanesOf(crossbar))
        /\ AGoto(a, "joining")
        /\ UNCHANGED <<lanes, ai>>
  /\ UNCHANGED <<pipelineVars, crossbars, sinkVars, aop, acopy, ops, added, producerVars>>

\* Mutant: the workers are not joined.
JoinNobody(a) ==
  /\ apc[a] = "joining"
  /\ AGoto(a, IF aop[a] = "route" THEN "rebuild" ELSE "flush")
  /\ UNCHANGED <<pipelineVars, heapVars, sinkVars, aop, acopy, ai, ops, added, producerVars>>

\* ... joins the workers, and after a forced stop gives every lane a new queue.
Join(a) ==
  /\ apc[a] = "joining"
  /\ \A i \in DOMAIN LanesOf(crossbar) : lanes[LanesOf(crossbar)[i]].worker # "run"
  /\ lanes' = [l \in DOMAIN lanes |->
       IF aop[a] = "request_stop" /\ \E i \in DOMAIN LanesOf(crossbar) : LanesOf(crossbar)[i] = l
       THEN [lanes[l] EXCEPT !.queue = <<>>, !.closed = FALSE] ELSE lanes[l]]
  /\ AGoto(a, IF aop[a] = "route" THEN "rebuild" ELSE "flush")
  /\ UNCHANGED <<pipelineVars, crossbars, sinkVars, aop, acopy, ai, ops, added, producerVars>>

\* Mutant: the new lanes are not started.
RebuildStopped(a) ==
  /\ apc[a] = "rebuild"
  /\ Rebuild(crossbar, acopy[a], FALSE)
  /\ Finish(a)
  /\ UNCHANGED <<pipelineVars, sinkVars, ops, added, producerVars>>

\* The rest of configure() on a crossbar that was running.
RebuildRunning(a) ==
  /\ apc[a] = "rebuild"
  /\ Rebuild(crossbar, acopy[a], TRUE)
  /\ Finish(a)
  /\ UNCHANGED <<pipelineVars, sinkVars, ops, added, producerVars>>

\* ConsoleSink::write and ConsoleSink::flush, on all that the stream ever took.
SinkWrite(stream, e, lane) == Append(stream, [event |-> e, lane |-> lane])
SinkFlush(stream) == Len(stream)

\* SinkCrossbar::flush: every sink of the lanes of crossbar x.
FlushSinks(x) ==
  flushed' = [r \in RouteId |->
    IF \E i \in DOMAIN LanesOf(x) : lanes[LanesOf(x)[i]].route = r
    THEN SinkFlush(out[r]) ELSE flushed[r]]

\* Mutant: nothing is flushed.
NoFlushAfterStop(a) ==
  /\ apc[a] = "flush"
  /\ AGoto(a, "copy")
  /\ UNCHANGED <<pipelineVars, heapVars, sinkVars, aop, acopy, ai, ops, added, producerVars>>

\* close() and request_stop() then flush ...
FlushAfterStop(a) ==
  /\ apc[a] = "flush"
  /\ ~WorkerLocked
  /\ FlushSinks(crossbar)
  /\ AGoto(a, "copy")
  /\ UNCHANGED <<pipelineVars, heapVars, out, aop, acopy, ai, ops, added, producerVars>>

\* ... copy the routes, under state_m (configure() does the same) ...
CopyRoutes(a) ==
  /\ apc[a] = "copy"
  /\ acopy' = [acopy EXCEPT ![a] = routes]
  /\ AGoto(a, "renew")
  /\ UNCHANGED <<pipelineVars, heapVars, sinkVars, aop, ai, ops, added, producerVars>>

\* ... and replace the crossbar, under worker_m; configure() accepts again.
Renew(a) ==
  /\ apc[a] = "renew"
  /\ ~WorkerLocked
  /\ Replace(acopy[a])
  /\ accepting' = (accepting \/ aop[a] = "configure")
  /\ Finish(a)
  /\ UNCHANGED <<routes, async, running, sinkVars, ops, added, producerVars>>

flush(a) ==
  /\ Called(a)
  /\ ~WorkerLocked
  /\ FlushSinks(crossbar)
  /\ UNCHANGED <<pipelineVars, heapVars, out, apc, aop, acopy, ai, added, producerVars>>

\* configure(): set cfg; then only a pipeline that is not running is rebuilt.
configure(a, mode) ==
  /\ Begin(a, "configure", "loadRunning")
  /\ async' = mode
  /\ UNCHANGED <<routes, running, accepting, crossbar, heapVars, sinkVars, acopy, ai, added, producerVars>>

LoadRunning(a) ==
  /\ apc[a] = "loadRunning"
  /\ \/ running /\ Finish(a)
     \/ ~running /\ AGoto(a, "copy") /\ UNCHANGED <<aop, acopy, ai>>
  /\ UNCHANGED <<pipelineVars, heapVars, sinkVars, ops, added, producerVars>>

-----------------------------------------------------------------------------
(* Producers: Logger::log_at. mask is the number of routes the mask names. *)

\* "fatal" is a severity with force_sync and flush_after, "normal" one with neither.
Severities == {"normal", "fatal"}

PGoto(p, l) == ppc' = [ppc EXCEPT ![p] = l]

\* Without a route the severity is not enabled and the call ends at once.
LogAt(p, severity) ==
  /\ ppc[p] = "idle"
  /\ sent[p] < MaxEvents
  /\ sent' = [sent EXCEPT ![p] = @ + 1]
  /\ \/ routes = <<>> /\ UNCHANGED <<ppc, sev, mask, calm>>
     \/ /\ routes # <<>>
        /\ sev' = [sev EXCEPT ![p] = severity]
        /\ mask' = [mask EXCEPT ![p] = Len(routes)]
        /\ calm' = [calm EXCEPT ![p] = \A a \in Admins : apc[a] = "idle" \/ aop[a] # "route"]
        /\ PGoto(p, "mode")
  /\ UNCHANGED <<pipelineVars, heapVars, sinkVars, adminVars, held, todo, copied, accepted>>

\* submit() reads the configuration. A custom severity may be as severe as fatal
\* without forcing synchronous dispatch; then fatal_sync decides.
LoadMode(p) ==
  /\ ppc[p] = "mode"
  /\ \/ async /\ sev[p] = "normal" /\ PGoto(p, "pointer")
     \/ PGoto(p, "sync")
  /\ UNCHANGED <<pipelineVars, heapVars, sinkVars, adminVars, sev, mask, held, todo, copied, calm, sent, accepted>>

\* The shared_ptr to the crossbar is copied under worker_m.
CopyPointer(p) ==
  /\ ppc[p] = "pointer"
  /\ ~WorkerLocked
  /\ held' = [held EXCEPT ![p] = crossbar]
  /\ PGoto(p, "accepting")
  /\ UNCHANGED <<pipelineVars, heapVars, sinkVars, adminVars, sev, mask, todo, copied, calm, sent, accepted>>

LoadAccepting(p) ==
  /\ ppc[p] = "accepting"
  /\ PGoto(p, IF accepting THEN "snapshot" ELSE "sync")
  /\ UNCHANGED <<pipelineVars, heapVars, sinkVars, adminVars, sev, mask, held, todo, copied, calm, sent, accepted>>

\* SinkCrossbar::submit: the lanes that the mask names, under m_.
Snapshot(p) ==
  /\ ppc[p] = "snapshot"
  /\ LET ls == LanesOf(held[p])
     IN todo' = [todo EXCEPT ![p] = SubSeq(ls, 1, IF mask[p] < Len(ls) THEN mask[p] ELSE Len(ls))]
  /\ PGoto(p, "push")
  /\ UNCHANGED <<pipelineVars, heapVars, sinkVars, adminVars, sev, mask, held, copied, calm, sent, accepted>>

\* One lane after the other; a closed queue refuses the event, which is dropped.
Push(p) ==
  /\ ppc[p] = "push" /\ todo[p] # <<>>
  /\ LET l == Head(todo[p]) IN
     \/ /\ ~lanes[l].closed
        /\ lanes' = [lanes EXCEPT ![l].queue = Append(@, <<p, sent[p]>>)]
        /\ accepted' = accepted \cup {<<<<p, sent[p]>>, l>>}
     \/ /\ lanes[l].closed
        /\ UNCHANGED <<lanes, accepted>>
  /\ todo' = [todo EXCEPT ![p] = Tail(@)]
  /\ UNCHANGED <<pipelineVars, crossbars, sinkVars, adminVars, ppc, sev, mask, held, copied, calm, sent>>

\* dispatch_sync_: copy the routes, under state_m, of which the mask names some; ...
DispatchSync(p) ==
  /\ ppc[p] = "sync"
  /\ copied' = [copied EXCEPT ![p] =
       SubSeq(routes, 1, IF mask[p] < Len(routes) THEN mask[p] ELSE Len(routes))]
  /\ PGoto(p, "write")
  /\ UNCHANGED <<pipelineVars, heapVars, sinkVars, adminVars, sev, mask, held, todo, calm, sent, accepted>>

\* ... then, without the lock, write to one sink after the other.
WriteSync(p) ==
  /\ ppc[p] = "write"
  /\ \/ /\ copied[p] # <<>>
        /\ out' = [out EXCEPT ![Head(copied[p])] = SinkWrite(@, <<p, sent[p]>>, 0)]
        /\ copied' = [copied EXCEPT ![p] = Tail(@)]
        /\ UNCHANGED ppc
     \/ /\ copied[p] = <<>>
        /\ PGoto(p, IF sev[p] = "fatal" THEN "flushPointer" ELSE "push")
        /\ UNCHANGED <<out, copied>>
  /\ UNCHANGED <<pipelineVars, heapVars, flushed, adminVars, sev, mask, held, todo, calm, sent, accepted>>

\* flush() after a fatal event: copy the shared_ptr, under worker_m, ...
CopyFlushPointer(p) ==
  /\ ppc[p] = "flushPointer"
  /\ ~WorkerLocked
  /\ held' = [held EXCEPT ![p] = crossbar]
  /\ PGoto(p, "flush")
  /\ UNCHANGED <<pipelineVars, heapVars, sinkVars, adminVars, sev, mask, todo, copied, calm, sent, accepted>>

\* Mutant: flush_after is ignored.
SkipFatalFlush(p) ==
  /\ ppc[p] = "flush"
  /\ PGoto(p, "push")
  /\ UNCHANGED <<pipelineVars, heapVars, sinkVars, adminVars, sev, mask, held, todo, copied, calm, sent, accepted>>

\* ... and flush the sinks of that crossbar's lanes.
FlushFatal(p) ==
  /\ ppc[p] = "flush"
  /\ FlushSinks(held[p])
  /\ PGoto(p, "push")
  /\ UNCHANGED <<pipelineVars, heapVars, out, adminVars, sev, mask, held, todo, copied, calm, sent, accepted>>

\* The call returns and drops its shared_ptr, perhaps the last one.
Return(p) ==
  /\ ppc[p] = "push" /\ todo[p] = <<>>
  /\ held' = [held EXCEPT ![p] = 0]
  /\ mask' = [mask EXCEPT ![p] = 0]
  /\ calm' = [calm EXCEPT ![p] = TRUE]
  /\ sev' = [sev EXCEPT ![p] = "normal"]
  /\ lanes' = IF held[p] \in {0, crossbar} \/ \E q \in Producers \ {p} : held[q] = held[p]
              THEN lanes ELSE Destroyed(held[p])
  /\ PGoto(p, "idle")
  /\ UNCHANGED <<pipelineVars, crossbars, sinkVars, adminVars, todo, copied, sent, accepted>>

-----------------------------------------------------------------------------
(* Workers: lane_loop_, as the channel's consumer.                         *)

\* Mutant: last in, first out.
WorkerWritesNewest(l) ==
  /\ lanes[l].worker = "run" /\ lanes[l].queue # <<>>
  /\ LET q == lanes[l].queue IN
     /\ out' = [out EXCEPT ![lanes[l].route] = SinkWrite(@, q[Len(q)], l)]
     /\ lanes' = [lanes EXCEPT ![l].queue = SubSeq(q, 1, Len(q) - 1)]
  /\ UNCHANGED <<pipelineVars, crossbars, flushed, adminVars, producerVars>>

WorkerWrites(l) ==
  /\ lanes[l].worker = "run" /\ lanes[l].queue # <<>>
  /\ out' = [out EXCEPT ![lanes[l].route] =
       SinkWrite(@, Head(lanes[l].queue), l)]
  /\ lanes' = [lanes EXCEPT ![l].queue = Tail(@)]
  /\ UNCHANGED <<pipelineVars, crossbars, flushed, adminVars, producerVars>>

\* Mutant: the worker polls the closed queue for ever.
WorkerPolls(l) ==
  /\ lanes[l].worker = "run" /\ lanes[l].closed /\ lanes[l].queue = <<>>
  /\ UNCHANGED vars

\* Mutant: the worker leaves without draining.
WorkerExitsAtOnce(l) ==
  /\ lanes[l].worker = "run" /\ lanes[l].closed
  /\ lanes' = [lanes EXCEPT ![l].worker = "exited"]
  /\ UNCHANGED <<pipelineVars, crossbars, sinkVars, adminVars, producerVars>>

WorkerExits(l) ==
  /\ lanes[l].worker = "run" /\ lanes[l].closed
  /\ lanes[l].drain => lanes[l].queue = <<>>
  /\ lanes' = [lanes EXCEPT ![l].worker = "exited"]
  /\ UNCHANGED <<pipelineVars, crossbars, sinkVars, adminVars, producerVars>>

-----------------------------------------------------------------------------
Init ==
  /\ routes = <<>> /\ async = TRUE /\ running = FALSE /\ accepting = TRUE
  /\ crossbar = 1 /\ crossbars = <<[lanes |-> <<>>, running_ |-> FALSE]>>
  /\ lanes = <<>>
  /\ out = [r \in RouteId |-> <<>>] /\ flushed = [r \in RouteId |-> 0]
  /\ apc = [a \in Admins |-> "idle"] /\ aop = [a \in Admins |-> "none"]
  /\ acopy = [a \in Admins |-> <<>>] /\ ai = [a \in Admins |-> 1]
  /\ ppc = [p \in Producers |-> "idle"] /\ sev = [p \in Producers |-> "normal"]
  /\ calm = [p \in Producers |-> TRUE] /\ mask = [p \in Producers |-> 0]
  /\ held = [p \in Producers |-> 0]
  /\ todo = [p \in Producers |-> <<>>] /\ copied = [p \in Producers |-> <<>>]
  /\ sent = [p \in Producers |-> 0] /\ accepted = {}
  /\ ops = 0 /\ added = 0

Call(a) ==
  \/ add_route(a) \/ clear_routes(a) \/ start(a) \/ flush(a)
  \/ \E op \in {"close", "request_stop"} : Stop(a, op)
  \/ \E mode \in BOOLEAN : configure(a, mode)

AdminStep(a) ==
  \/ Relane(a) \/ StopLanes(a) \/ CloseLane(a) \/ Join(a) \/ RebuildRunning(a)
  \/ FlushAfterStop(a) \/ CopyRoutes(a) \/ Renew(a) \/ LoadRunning(a)

ProducerStep(p) ==
  \/ LoadMode(p) \/ CopyPointer(p) \/ LoadAccepting(p) \/ Snapshot(p) \/ Push(p)
  \/ DispatchSync(p) \/ WriteSync(p) \/ CopyFlushPointer(p) \/ FlushFatal(p) \/ Return(p)

WorkerStep == \E l \in DOMAIN lanes : WorkerWrites(l) \/ WorkerExits(l)

\* Every bound is used up and nothing is left to do.
Finished ==
  /\ ops = MaxOps /\ \A a \in Admins : apc[a] = "idle"
  /\ \A p \in Producers : ppc[p] = "idle" /\ sent[p] = MaxEvents
  /\ UNCHANGED vars

Next ==
  \/ \E a \in Admins : Call(a) \/ AdminStep(a)
  \/ \E p \in Producers : ProducerStep(p) \/ \E severity \in Severities : LogAt(p, severity)
  \/ WorkerStep
  \/ Finished

Spec == Init /\ [][Next]_vars

\* Every thread that can run does; nobody is obliged to call anything.
Fairness ==
  /\ \A a \in Admins : WF_vars(AdminStep(a))
  /\ \A p \in Producers : WF_vars(ProducerStep(p))
  /\ WF_vars(WorkerStep)

FairSpec == Spec /\ Fairness

-----------------------------------------------------------------------------
(* Safety.                                                                 *)

LaneType == [route : RouteId, queue : Seq(Event), closed : BOOLEAN,
             worker : {"none", "run", "exited"}, drain : BOOLEAN, forced : BOOLEAN]

TypeOK ==
  /\ routes \in Seq(RouteId)
  /\ {async, running, accepting} \subseteq BOOLEAN
  /\ crossbar \in DOMAIN crossbars
  /\ crossbars \in Seq([lanes : Seq(DOMAIN lanes), running_ : BOOLEAN])
  /\ lanes \in Seq(LaneType)
  /\ \A r \in RouteId : flushed[r] \in 0..Len(out[r])
  /\ apc \in [Admins -> {"idle", "relane", "stop", "closing", "joining", "rebuild",
                         "flush", "copy", "renew", "loadRunning"}]
  /\ acopy \in [Admins -> Seq(RouteId)]
  /\ ppc \in [Producers -> {"idle", "mode", "pointer", "accepting", "snapshot", "push", "sync",
                            "write", "flushPointer", "flush"}]
  /\ sev \in [Producers -> Severities] /\ calm \in [Producers -> BOOLEAN]
  /\ held \in [Producers -> {0} \cup DOMAIN crossbars]
  /\ todo \in [Producers -> Seq(DOMAIN lanes)] /\ copied \in [Producers -> Seq(RouteId)]
  /\ accepted \subseteq Event \X DOMAIN lanes
  /\ ops \in 0..MaxOps /\ added \in 0..MaxRoutes

Quiet == \A a \in Admins : apc[a] = "idle"

\* Between operations the crossbar has exactly one lane per configured route, in
\* the order of the routes, so that bit i of a mask means the same route to the
\* lookup and to the crossbar.
LanesMatchRoutes ==
  Quiet => [i \in DOMAIN LanesOf(crossbar) |-> lanes[LanesOf(crossbar)[i]].route] = routes

\* Between operations, is_running() tells the truth: the current crossbar is
\* running if and only if the pipeline is, and then every lane is open, has a
\* worker, and new events are accepted.
RunningAgrees ==
  Quiet =>
    /\ running <=> crossbars[crossbar].running_
    /\ running => accepting
    /\ running => \A i \in DOMAIN LanesOf(crossbar) :
         LET l == lanes[LanesOf(crossbar)[i]] IN l.worker = "run" /\ ~l.closed

\* Is event e among the first k things route r's sink received?
Received(e, r, k) == \E i \in 1..k : out[r][i].event = e

\* Starting, closing, reconfiguring, replacing and destroying crossbars under load
\* loses no event that a lane with a worker accepted, unless request_stop() was
\* called: it is written, or queued in a lane whose worker is still there to write
\* it. This needs lifecycle operations to be called by one thread at a time.
GracefulLosesNothing ==
  \A x \in accepted :
    LET l == lanes[x[2]] IN
    \/ l.forced \/ l.worker = "none"
    \/ Received(x[1], l.route, Len(out[l.route]))
    \/ l.worker = "run" /\ \E i \in DOMAIN l.queue : l.queue[i] = x[1]

\* close() flushes after it has drained: when it is about to replace the
\* crossbar, every event that a started lane accepted for one of its routes is
\* flushed, also if that lane was replaced before. (The sink of a route that was
\* cleared in the meantime is not flushed.)
CloseFlushes ==
  \A a \in Admins, x \in accepted :
    LET l == lanes[x[2]] IN
    /\ apc[a] \in {"copy", "renew"} /\ aop[a] = "close"
    /\ l.worker # "none" /\ ~l.forced
    /\ \E i \in DOMAIN LanesOf(crossbar) : lanes[LanesOf(crossbar)[i]].route = l.route
    => Received(x[1], l.route, flushed[l.route])

\* A producer's events reach each sink in the order they were logged, even when
\* the lane was replaced in between, with one exception: an event written
\* synchronously (a fatal one, or one logged while close() drains or after
\* configure() has switched to synchronous) may overtake events still queued.
RouteOrder ==
  \A r \in RouteId : \A i, j \in DOMAIN out[r] :
    LET x == out[r][i]
        y == out[r][j]
    IN i < j /\ x.event[1] = y.event[1] /\ x.event[2] >= y.event[2] => x.lane = 0 /\ y.lane # 0

\* When a call that logs a fatal event returns, the event is flushed in every sink
\* it was written to, whatever starts, stops and replacements of crossbars happen
\* meanwhile: the sinks are written through the routes and flushed through the
\* lanes, which agree as long as no change of the routes overlaps the call.
FatalFlushed ==
  \A p \in Producers :
    ppc[p] = "push" /\ sev[p] = "fatal" /\ calm[p] =>
      \A r \in RouteId : \A i \in DOMAIN out[r] :
        out[r][i].event = <<p, sent[p]>> => i <= flushed[r]

\* docs/api/lifecycle.md, Normal startup: "A logger call made before start() is
\* still accepted. In async configuration it can be queued until the crossbar
\* starts". So an event that a lane accepted stays queued until it is written,
\* unless request_stop() discards it or clear_routes() removes its route.
QueuedUntilStarted ==
  \A x \in accepted :
    LET l == lanes[x[2]] IN
    \/ l.forced
    \/ \A i \in DOMAIN routes : routes[i] # l.route
    \/ Received(x[1], l.route, Len(out[l.route]))
    \/ /\ l.worker = "run" \/ \E i \in DOMAIN LanesOf(crossbar) : LanesOf(crossbar)[i] = x[2]
       /\ \E i \in DOMAIN l.queue : l.queue[i] = x[1]

\* Every call returns: no operation waits for ever for worker_m or a worker,
\* and no producer for worker_m.
CallsReturn ==
  /\ \A a \in Admins : apc[a] # "idle" ~> apc[a] = "idle"
  /\ \A p \in Producers : ppc[p] # "idle" ~> ppc[p] = "idle"
=============================================================================
