----------------------------- MODULE RouteCache -----------------------------
(***************************************************************************)
(* Pipeline's route table, endpoint cache and synchronous dispatch         *)
(* (src/logger.cpp), used by several threads: Logger::log asks             *)
(* cached_min_priority whether its severity is enabled, then submit looks  *)
(* the route mask up again, applies the global filters and writes to the   *)
(* routes; meanwhile other threads change routes and filters.              *)
(*                                                                         *)
(* Each critical section of state_m or cache_m and each access to          *)
(* dirty_cache is a step. The routes and the flag are changed inside one   *)
(* section of state_m, under which every reader copies the routes. The     *)
(* configuration is synchronous; CrossbarLane models asynchronous          *)
(* delivery. global_min_priority is written and never read by the code,    *)
(* and is left out.                                                        *)
(***************************************************************************)
EXTENDS RouteFilters, FiniteSets

CONSTANTS Loggers,        \* threads that log
          Events,         \* the events they log
          RouteChoices,   \* routes that may be added
          FilterChoices,  \* global filters that may be added
          PrefixChoices,  \* prefixes that may be added to a live EndpointFilter
          MaxChanges,     \* bound: changes to the routes and global filters
          MaxEdits        \* bound: changes to an EndpointFilter already in use

ASSUME CacheAssumption ==
  /\ MaxChanges \in Nat /\ MaxEdits \in Nat
  /\ \A e \in Events : e.priority \in 0..UInt16Max
  /\ \A r \in RouteChoices :
       /\ Len(r) \in Nat /\ DOMAIN r = 1..Len(r)
       /\ \A i \in DOMAIN r :
            /\ "kind" \in DOMAIN r[i]
            /\ r[i].kind = "severity" => r[i].minimum_priority \in 0..UInt16Max

VARIABLES
  routes,          \* Impl::routes
  global_filters,  \* Impl::global_filters
  dirty_cache,     \* Impl::dirty_cache
  endpoint_cache,  \* Impl::endpoint_cache, a function on the cached endpoints
  pc,              \* where each thread is
  phase,           \* is its lookup made by "enabled" or by "submit"?
  ev,              \* the event it logs
  entry,           \* the CacheEntry its current lookup has returned or computed
  copied,          \* dispatch_sync_'s copy of the routes
  stable,          \* history: no route or filter has changed during its call
  kept,            \* history: so many routes have stayed in place, behind the same
                   \* global filters, since its call began
  wrote,           \* history: the routes its call has written to
  fell_back,       \* history: its call has written to the emergency fallback
  changes,         \* number of changes to routes and global filters so far
  edits            \* number of filter edits so far

tableVars == <<routes, global_filters, changes, edits>>
cacheVars == <<dirty_cache, endpoint_cache>>
callVars  == <<phase, ev, entry, copied, stable, kept, wrote, fell_back>>
vars == <<tableVars, cacheVars, pc, callVars>>

Endpoint == {e.endpoint : e \in Events}

\* CacheEntry's default value.
NoEntry == [route_mask |-> {}, min_priority |-> UInt16Max]

EmptyCache == [ep \in {} |-> NoEntry]

Goto(t, l) == pc' = [pc EXCEPT ![t] = l]

-----------------------------------------------------------------------------
(* A call by a logging thread.                                             *)

\* Logger::log ("enabled") or a direct call of Pipeline::submit.
Call(t, e, first) ==
  /\ pc[t] = "idle"
  /\ Goto(t, "load")
  /\ phase' = [phase EXCEPT ![t] = first]
  /\ ev' = [ev EXCEPT ![t] = e]
  /\ stable' = [stable EXCEPT ![t] = TRUE]
  /\ kept' = [kept EXCEPT ![t] = Len(routes)]
  /\ UNCHANGED <<tableVars, cacheVars, entry, copied, wrote, fell_back>>

\* cached_route_mask_: dirty_cache.load().
LoadDirty(t) ==
  /\ pc[t] = "load"
  /\ Goto(t, IF dirty_cache THEN "clear" ELSE "find")
  /\ UNCHANGED <<tableVars, cacheVars, callVars>>

\* Under cache_m: exchange the flag, and clear the cache if it was still set.
ClearCache(t) ==
  /\ pc[t] = "clear"
  /\ dirty_cache' = FALSE
  /\ endpoint_cache' = IF dirty_cache THEN EmptyCache ELSE endpoint_cache
  /\ Goto(t, "find")
  /\ UNCHANGED <<tableVars, callVars>>

\* Under cache_m, shared.
FindEntry(t) ==
  /\ pc[t] = "find"
  /\ \/ /\ ev[t].endpoint \in DOMAIN endpoint_cache
        /\ entry' = [entry EXCEPT ![t] = endpoint_cache[ev[t].endpoint]]
        /\ Goto(t, "entry")
     \/ /\ ev[t].endpoint \notin DOMAIN endpoint_cache
        /\ Goto(t, "compute")
        /\ UNCHANGED entry
  /\ UNCHANGED <<tableVars, cacheVars, phase, ev, copied, stable, kept, wrote, fell_back>>

\* compute_cache_entry_ on a copy of the routes taken under state_m.
ComputeEntry(t) ==
  /\ pc[t] = "compute"
  /\ entry' = [entry EXCEPT ![t] = compute_cache_entry(routes, ev[t].endpoint)]
  /\ Goto(t, "emplace")
  /\ UNCHANGED <<tableVars, cacheVars, phase, ev, copied, stable, kept, wrote, fell_back>>

\* Under cache_m: emplace() leaves an entry that is already there alone.
EmplaceEntry(t) ==
  /\ pc[t] = "emplace"
  /\ endpoint_cache' =
       [ep \in DOMAIN endpoint_cache \cup {ev[t].endpoint} |->
          IF ep \in DOMAIN endpoint_cache THEN endpoint_cache[ep] ELSE entry[t]]
  /\ Goto(t, "entry")
  /\ UNCHANGED <<tableVars, dirty_cache, callVars>>

\* Logger::enabled() has its answer: return early, or build the event and submit.
TestEnabled(t) ==
  /\ pc[t] = "entry" /\ phase[t] = "enabled"
  /\ \/ /\ ev[t].priority >= cached_min_priority(entry[t])
        /\ phase' = [phase EXCEPT ![t] = "submit"]
        /\ Goto(t, "load")
     \/ /\ ev[t].priority < cached_min_priority(entry[t])
        /\ Goto(t, "done")
        /\ UNCHANGED phase
  /\ UNCHANGED <<tableVars, cacheVars, ev, entry, copied, stable, kept, wrote, fell_back>>

\* submit() has its mask: an empty one leads to the fallback and an early return.
TestMask(t) ==
  /\ pc[t] = "entry" /\ phase[t] = "submit"
  /\ \/ /\ entry[t].route_mask = {}
        /\ fell_back' = [fell_back EXCEPT ![t] = ev[t].priority >= error]
        /\ Goto(t, "done")
     \/ /\ entry[t].route_mask # {}
        /\ Goto(t, "global")
        /\ UNCHANGED fell_back
  /\ UNCHANGED <<tableVars, cacheVars, phase, ev, entry, copied, stable, kept, wrote>>

\* The global filters, under state_m.
GlobalFilters(t) ==
  /\ pc[t] = "global"
  /\ Goto(t, IF route_passes(global_filters, ev[t]) THEN "dispatch" ELSE "done")
  /\ UNCHANGED <<tableVars, cacheVars, callVars>>

\* dispatch_sync_ copies the routes under state_m: not the ones the mask was made for.
CopyRoutes(t) ==
  /\ pc[t] = "dispatch"
  /\ copied' = [copied EXCEPT ![t] = routes]
  /\ Goto(t, "write")
  /\ UNCHANGED <<tableVars, cacheVars, phase, ev, entry, stable, kept, wrote, fell_back>>

\* Mutant: dispatch_sync_ relies on the mask and does not filter again.
DispatchUnfiltered(t) ==
  /\ pc[t] = "write"
  /\ wrote' = [wrote EXCEPT ![t] = entry[t].route_mask \cap Addressable(copied[t])]
  /\ Goto(t, "done")
  /\ UNCHANGED <<tableVars, cacheVars, phase, ev, entry, copied, stable, kept, fell_back>>

\* It filters and writes without a lock.
DispatchSync(t) ==
  /\ pc[t] = "write"
  /\ wrote' = [wrote EXCEPT ![t] =
       {i \in entry[t].route_mask \cap Addressable(copied[t]) : route_passes(copied[t][i], ev[t])}]
  /\ Goto(t, "done")
  /\ UNCHANGED <<tableVars, cacheVars, phase, ev, entry, copied, stable, kept, fell_back>>

\* The call returns and its locals go away.
Return(t) ==
  /\ pc[t] = "done"
  /\ Goto(t, "idle")
  /\ entry' = [entry EXCEPT ![t] = NoEntry]
  /\ copied' = [copied EXCEPT ![t] = <<>>]
  /\ wrote' = [wrote EXCEPT ![t] = {}]
  /\ fell_back' = [fell_back EXCEPT ![t] = FALSE]
  /\ UNCHANGED <<tableVars, cacheVars, phase, ev, stable, kept>>

-----------------------------------------------------------------------------
(* Changes to the routes and filters, each under state_m.                  *)

\* A change is noted by every call in progress; only an added route keeps the others.
Changed(keeping) ==
  /\ changes < MaxChanges
  /\ changes' = changes + 1
  /\ stable' = [t \in Loggers |-> FALSE]
  /\ kept' = IF keeping THEN kept ELSE [t \in Loggers |-> 0]
  /\ UNCHANGED <<endpoint_cache, pc, phase, ev, entry, copied, wrote, fell_back, edits>>

\* Mutant: add_route forgets invalidate_cache_().
AddRouteSilently(r) ==
  /\ Changed(TRUE)
  /\ routes' = Append(routes, r)
  /\ UNCHANGED <<global_filters, dirty_cache>>

add_route(r) ==
  /\ Changed(TRUE)
  /\ routes' = Append(routes, r)
  /\ dirty_cache' = TRUE
  /\ UNCHANGED global_filters

clear_routes ==
  /\ Changed(FALSE)
  /\ routes' = <<>>
  /\ dirty_cache' = TRUE
  /\ UNCHANGED global_filters

add_global_filter(f) ==
  /\ Changed(FALSE)
  /\ global_filters' = Append(global_filters, f)
  /\ UNCHANGED <<routes, dirty_cache>>

clear_global_filters ==
  /\ Changed(FALSE)
  /\ global_filters' = <<>>
  /\ UNCHANGED <<routes, dirty_cache>>

\* EndpointFilter::allow or deny on a filter that routes[i] holds by shared_ptr.
\* The filter is not synchronised, so this is only done between calls.
EditFilter(i, j, list, prefix) ==
  /\ edits < MaxEdits
  /\ \A t \in Loggers : pc[t] = "idle"
  /\ i \in DOMAIN routes /\ j \in DOMAIN routes[i]
  /\ routes[i][j].kind = "endpoint"
  /\ routes' = [routes EXCEPT ![i][j][list] = @ \cup {prefix}]
  /\ edits' = edits + 1
  /\ UNCHANGED <<global_filters, changes, cacheVars, pc, callVars>>

-----------------------------------------------------------------------------
Init ==
  /\ routes = <<>> /\ global_filters = <<>>
  /\ dirty_cache = TRUE /\ endpoint_cache = EmptyCache
  /\ pc = [t \in Loggers |-> "idle"]
  /\ phase = [t \in Loggers |-> "enabled"]
  /\ ev \in [Loggers -> Events]
  /\ entry = [t \in Loggers |-> NoEntry]
  /\ copied = [t \in Loggers |-> <<>>]
  /\ stable = [t \in Loggers |-> TRUE]
  /\ kept = [t \in Loggers |-> 0]
  /\ wrote = [t \in Loggers |-> {}]
  /\ fell_back = [t \in Loggers |-> FALSE]
  /\ changes = 0 /\ edits = 0

LoggerStep(t) ==
  \/ LoadDirty(t) \/ ClearCache(t) \/ FindEntry(t) \/ ComputeEntry(t) \/ EmplaceEntry(t)
  \/ TestEnabled(t) \/ TestMask(t) \/ GlobalFilters(t) \/ CopyRoutes(t)
  \/ DispatchSync(t) \/ Return(t)

Next ==
  \/ \E t \in Loggers : LoggerStep(t)
  \/ \E t \in Loggers, e \in Events, first \in {"enabled", "submit"} : Call(t, e, first)
  \/ \E r \in RouteChoices : add_route(r)
  \/ clear_routes
  \/ \E f \in FilterChoices : add_global_filter(f)
  \/ clear_global_filters
  \/ \E i \in DOMAIN routes : \E j \in DOMAIN routes[i] :
       \E list \in {"allow", "deny"}, prefix \in PrefixChoices : EditFilter(i, j, list, prefix)

Spec == Init /\ [][Next]_vars
-----------------------------------------------------------------------------
(* Properties.                                                             *)

\* A mask of MaskBits bits: shifting 1ull further would be undefined.
Entries == [route_mask : SUBSET (1..MaskBits), min_priority : 0..UInt16Max]

PcStates == {"idle", "load", "clear", "find", "compute", "emplace", "entry",
             "global", "dispatch", "write", "done"}

TypeOK ==
  /\ dirty_cache \in BOOLEAN
  /\ DOMAIN endpoint_cache \subseteq Endpoint
  /\ \A ep \in DOMAIN endpoint_cache : endpoint_cache[ep] \in Entries
  /\ pc \in [Loggers -> PcStates]
  /\ phase \in [Loggers -> {"enabled", "submit"}]
  /\ ev \in [Loggers -> Events]
  /\ entry \in [Loggers -> Entries]
  /\ DOMAIN copied = Loggers
  /\ stable \in [Loggers -> BOOLEAN]
  /\ kept \in [Loggers -> Nat]
  /\ wrote \in [Loggers -> SUBSET (1..MaskBits)]
  /\ fell_back \in [Loggers -> BOOLEAN]
  /\ changes \in 0..MaxChanges
  /\ edits \in 0..MaxEdits

\* The endpoint cache never outlives the route table it was computed from:
\* while dirty_cache is clear, every entry is what compute_cache_entry_ would
\* return now, although routes change between a lookup's steps. This holds for
\* one logging thread, until a filter is edited in place.
CacheCoherent ==
  edits = 0 /\ ~dirty_cache =>
    \A ep \in DOMAIN endpoint_cache :
      endpoint_cache[ep] = compute_cache_entry(routes, ep)

\* The routes an event should be written to (the first MaskBits only).
Eligible(e) ==
  {i \in Addressable(routes) : route_passes(global_filters, e) /\ route_passes(routes[i], e)}

\* Of the routes that were there throughout a call, all of them if nothing changed
\* and the older ones if routes were added between its lookups and its copy, the
\* event has been written to exactly those all of whose filters pass: neither
\* Logger::enabled's shortcut nor a mask looked up earlier ever hides a matching
\* route from a built-in severity (below trace the summary's default does hide it).
\* Like CacheCoherent, for one logging thread, until a filter is edited in place.
DeliveryExact ==
  \A t \in Loggers :
    edits = 0 /\ pc[t] = "done" /\ ev[t].priority >= trace =>
      wrote[t] \cap (1..kept[t]) = Eligible(ev[t]) \cap (1..kept[t])

\* Whatever the state of the cache, however many threads log and whatever changes
\* between the lookup of the mask and its use: the bits may name other routes by
\* then, but an event never reaches a route whose filters reject it, nor past the
\* global filters a route that was there all along, and the emergency fallback is
\* used only for severe events that no route was given.
StaleMaskHarmless ==
  \A t \in Loggers :
    pc[t] = "done" =>
      /\ \A i \in wrote[t] : i \in DOMAIN copied[t] /\ route_passes(copied[t][i], ev[t])
      /\ wrote[t] \cap (1..kept[t]) \subseteq Eligible(ev[t])
      /\ fell_back[t] => wrote[t] = {} /\ ev[t].priority >= error

\* docs/architecture.md, Pipeline layer: "The endpoint cache is an optimization
\* only", so what a call delivers must not depend on it.
OptimizationOnly == DeliveryExact

\* docs/api/routing.md, Fallback behavior: when no route matches, "ERROR and more
\* severe events are written to the emergency fallback".
SevereFallsBack ==
  \A t \in Loggers :
    /\ pc[t] = "done" /\ stable[t] /\ ev[t].priority >= error
    /\ \A i \in DOMAIN routes : ~route_passes(routes[i], ev[t])
    => fell_back[t]
=============================================================================
