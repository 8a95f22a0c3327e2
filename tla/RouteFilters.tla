---------------------------- MODULE RouteFilters ----------------------------
(***************************************************************************)
(* The filters of src/logger.cpp and the summary of a route table that     *)
(* Pipeline::compute_cache_entry_ derives for one endpoint, as operators.  *)
(*                                                                         *)
(* An event is a record with the fields endpoint and priority; an endpoint *)
(* and a prefix are sequences of characters. A filter is a record whose    *)
(* kind is "severity" (with minimum_priority), "endpoint" (with the sets   *)
(* allow and deny of prefixes), "custom" (a user's IFilter, with the set   *)
(* of events it passes) or "null" (an empty shared_ptr). A route is the    *)
(* sequence of its filters.                                                *)
(***************************************************************************)
EXTENDS Integers, Sequences

CONSTANT MaskBits  \* the width of the route mask, 64 in the code

ASSUME MaskBitsAssumption == MaskBits \in Nat

trace == 100        \* severity::trace::priority()
error == 500        \* severity::error::priority()
UInt16Max == 65535  \* CacheEntry's min_priority when no route is eligible

\* EndpointFilter::matches_prefix
matches_prefix(ep, prefix) ==
  Len(prefix) <= Len(ep) /\ SubSeq(ep, 1, Len(prefix)) = prefix

\* EndpointFilter::pass: deny first, then an empty allow list allows all.
EndpointPass(f, ep) ==
  /\ \A d \in f.deny : ~matches_prefix(ep, d)
  /\ f.allow = {} \/ \E a \in f.allow : matches_prefix(ep, a)

\* IFilter::pass, skipping null pointers as every caller does.
pass(f, e) ==
  /\ f.kind = "severity" => e.priority >= f.minimum_priority
  /\ f.kind = "endpoint" => EndpointPass(f, e.endpoint)
  /\ f.kind = "custom" => e \in f.events

\* The filter loop of dispatch_sync_ and of SinkCrossbar::route_passes_.
route_passes(r, e) == \A i \in DOMAIN r : pass(r[i], e)

\* compute_cache_entry_'s inner loop overwrites its verdict at every filter of a
\* kind, so the last one of that kind decides.
IsLast(r, k, i) ==
  /\ i \in DOMAIN r /\ r[i].kind = k
  /\ \A j \in DOMAIN r : r[j].kind = k => j <= i

endpoint_ok(r, ep) == \A i \in DOMAIN r : IsLast(r, "endpoint", i) => EndpointPass(r[i], ep)

\* Mutant: a route without a severity filter contributes no minimum.
MinPriorityDefaultsHigh(r) ==
  IF \E i \in DOMAIN r : r[i].kind = "severity"
  THEN LET i == CHOOSE i \in DOMAIN r : IsLast(r, "severity", i) IN r[i].minimum_priority
  ELSE UInt16Max

min_priority(r) ==
  IF \E i \in DOMAIN r : r[i].kind = "severity"
  THEN LET i == CHOOSE i \in DOMAIN r : IsLast(r, "severity", i) IN r[i].minimum_priority
  ELSE trace

\* The smallest member of a set of priorities that contains UInt16Max.
Least(S) == CHOOSE m \in S : \A x \in S : m <= x

\* Mutant: the loop over the routes has no i < 64.
AddressableUnbounded(routes) == DOMAIN routes

\* The routes a mask of MaskBits bits can name.
Addressable(routes) == {i \in DOMAIN routes : i <= MaskBits}

\* Pipeline::compute_cache_entry_
compute_cache_entry(routes, ep) ==
  LET mask == {i \in Addressable(routes) : endpoint_ok(routes[i], ep)}
  IN [route_mask |-> mask,
      min_priority |-> Least({min_priority(routes[i]) : i \in mask} \cup {UInt16Max})]

\* Pipeline::cached_min_priority, given the endpoint's entry.
cached_min_priority(ce) == IF ce.route_mask = {} THEN UInt16Max ELSE ce.min_priority
=============================================================================
