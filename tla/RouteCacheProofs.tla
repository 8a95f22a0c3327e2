-------------------------- MODULE RouteCacheProofs --------------------------
(***************************************************************************)
(* Machine-checked theorems about RouteFilters and RouteCache, for any set *)
(* of routes, filters and events.                                          *)
(***************************************************************************)
EXTENDS RouteCache, TLAPS, NaturalsInduction, WellFoundedInduction, SequenceTheorems

\* A route as the public API can build it.
WellFormed(r) ==
  /\ \E n \in Nat : DOMAIN r = 1..n
  /\ \A i \in DOMAIN r :
       /\ "kind" \in DOMAIN r[i]
       /\ r[i].kind = "severity" => r[i].minimum_priority \in 0..UInt16Max

-----------------------------------------------------------------------------
(* The summary that compute_cache_entry_ makes of a route.                 *)

LEMMA MinExists ==
  ASSUME NEW S, S \subseteq Nat, S # {}
  PROVE  \E m \in S : \A x \in S : m <= x
  <1>1. PICK m \in S : \A x \in S : <<x, m>> \notin OpToRel(<, Nat)
    BY NatLessThanWellFounded, WFMin
  <1>2. \A x \in S : ~(x < m)
    BY <1>1, Zenon DEF OpToRel
  <1> QED
    BY <1>2

LEMMA LeastIsLeast ==
  ASSUME NEW S, S \subseteq Nat, S # {}
  PROVE  Least(S) \in S /\ \A x \in S : Least(S) <= x
  <1>1. \E m \in S : \A x \in S : m <= x
    BY MinExists
  <1> QED
    BY <1>1 DEF Least

\* A route with a filter of some kind has a last one.
LEMMA LastExists ==
  ASSUME NEW r, WellFormed(r), NEW k, NEW i \in DOMAIN r, r[i].kind = k
  PROVE  \E l \in DOMAIN r : IsLast(r, k, l)
  <1>0. PICK n \in Nat : DOMAIN r = 1..n
    BY DEF WellFormed
  <1> DEFINE D == {n - j : j \in {j \in DOMAIN r : r[j].kind = k}}
  <1>1. D \subseteq Nat /\ D # {}
    BY <1>0
  <1>2. PICK m \in D : \A x \in D : m <= x
    BY <1>1, MinExists
  <1>3. PICK l \in DOMAIN r : r[l].kind = k /\ m = n - l
    BY <1>2
  <1>4. ASSUME NEW j \in DOMAIN r, r[j].kind = k PROVE j <= l
    <2>1. n - j \in D
      BY <1>4
    <2>2. n - l <= n - j
      BY <2>1, <1>2, <1>3
    <2>3. j \in Nat /\ l \in Nat
      BY <1>0
    <2> QED
      BY <2>2, <2>3
  <1> QED
    BY <1>3, <1>4 DEF IsLast

LEMMA LastSeverity ==
  ASSUME NEW r, WellFormed(r), \E i \in DOMAIN r : r[i].kind = "severity"
  PROVE  \E l \in DOMAIN r : r[l].kind = "severity" /\ min_priority(r) = r[l].minimum_priority
  <1>1. \E l \in DOMAIN r : IsLast(r, "severity", l)
    BY LastExists
  <1> DEFINE c == CHOOSE l \in DOMAIN r : IsLast(r, "severity", l)
  <1>2. c \in DOMAIN r /\ IsLast(r, "severity", c)
    BY <1>1
  <1>3. min_priority(r) = r[c].minimum_priority
    BY DEF min_priority
  <1> QED
    BY <1>2, <1>3 DEF IsLast

LEMMA MinPriorityType ==
  ASSUME NEW r, WellFormed(r)
  PROVE  min_priority(r) \in 0..UInt16Max
  <1>1. CASE \E i \in DOMAIN r : r[i].kind = "severity"
    BY <1>1, LastSeverity DEF WellFormed
  <1>2. CASE ~\E i \in DOMAIN r : r[i].kind = "severity"
    BY <1>2 DEF min_priority, trace, UInt16Max
  <1> QED
    BY <1>1, <1>2

\* Overwriting the verdict at each filter only weakens the conjunction.
LEMMA SummarySound ==
  ASSUME NEW r, WellFormed(r), NEW e, route_passes(r, e)
  PROVE  /\ endpoint_ok(r, e.endpoint)
         /\ e.priority \in Nat /\ e.priority >= trace => e.priority >= min_priority(r)
  <1>1. endpoint_ok(r, e.endpoint)
    BY DEF endpoint_ok, route_passes, pass, IsLast
  <1>2. CASE \E i \in DOMAIN r : r[i].kind = "severity"
    <2>1. PICK l \in DOMAIN r : r[l].kind = "severity" /\ min_priority(r) = r[l].minimum_priority
      BY <1>2, LastSeverity
    <2>2. e.priority >= r[l].minimum_priority
      BY <2>1 DEF route_passes, pass
    <2> QED
      BY <1>1, <2>1, <2>2
  <1>3. CASE ~\E i \in DOMAIN r : r[i].kind = "severity"
    BY <1>1, <1>3 DEF min_priority
  <1> QED
    BY <1>2, <1>3

\* The entry ce serves the first n routes of a table: it names each of them that
\* may take the endpoint, and asks for no higher priority than that route does.
Serves(ce, table, n, ep) ==
  \A i \in Addressable(table) :
    i <= n /\ endpoint_ok(table[i], ep) =>
      /\ i \in ce.route_mask
      /\ ce.min_priority \in Nat /\ ce.min_priority <= min_priority(table[i])

\* What compute_cache_entry_ returns serves all routes it was computed from.
LEMMA ComputedServes ==
  ASSUME NEW table, \A i \in DOMAIN table : WellFormed(table[i]), NEW ep, NEW n
  PROVE  Serves(compute_cache_entry(table, ep), table, n, ep)
  <1> DEFINE mask == {j \in Addressable(table) : endpoint_ok(table[j], ep)}
             S == {min_priority(table[j]) : j \in mask} \cup {UInt16Max}
             ce == compute_cache_entry(table, ep)
  <1>1. ce.route_mask = mask /\ ce.min_priority = Least(S)
    BY DEF compute_cache_entry
  <1>2. S \subseteq Nat /\ S # {}
    <2>1. ASSUME NEW j \in mask PROVE min_priority(table[j]) \in Nat
      <3>1. WellFormed(table[j])
        BY <2>1 DEF Addressable
      <3>2. min_priority(table[j]) \in 0..UInt16Max
        BY <3>1, MinPriorityType
      <3> QED
        BY <3>2
    <2>2. UInt16Max \in Nat
      BY DEF UInt16Max
    <2> QED
      BY <2>1, <2>2
  <1>3. Least(S) \in S /\ \A x \in S : Least(S) <= x
    BY <1>2, LeastIsLeast
  <1>4. Least(S) \in Nat
    BY <1>2, <1>3
  <1>5. ASSUME NEW i \in Addressable(table), endpoint_ok(table[i], ep)
        PROVE  i \in ce.route_mask /\ ce.min_priority \in Nat /\ ce.min_priority <= min_priority(table[i])
    <2>1. i \in mask
      BY <1>5
    <2>2. min_priority(table[i]) \in S
      BY <2>1
    <2> HIDE DEF mask, S, ce
    <2> QED
      BY <1>1, <1>3, <1>4, <2>1, <2>2
  <1> HIDE DEF ce
  <1>6. Serves(ce, table, n, ep)
    BY <1>5 DEF Serves
  <1> QED
    BY <1>6 DEF ce

\* Routes are added at the end, so an entry goes on serving the ones before.
LEMMA AddingKeeps ==
  ASSUME NEW R, NEW table \in Seq(R), NEW r, NEW n \in Nat, n <= Len(table)
  PROVE  /\ Addressable(Append(table, r)) \cap (1..n) = Addressable(table) \cap (1..n)
         /\ \A i \in 1..n : Append(table, r)[i] = table[i]
         /\ \A ce, ep : Serves(ce, table, n, ep) => Serves(ce, Append(table, r), n, ep)
  <1> DEFINE longer == Append(table, r)
  <1>1. /\ DOMAIN table = 1..Len(table) /\ Len(table) \in Nat
        /\ DOMAIN longer = 1..(Len(table) + 1)
        /\ \A i \in 1..Len(table) : longer[i] = table[i]
    OBVIOUS
  <1> HIDE DEF longer
  <1>2. Addressable(longer) \cap (1..n) = Addressable(table) \cap (1..n)
    BY <1>1 DEF Addressable
  <1>3. \A i \in 1..n : longer[i] = table[i]
    BY <1>1
  <1>4. ASSUME NEW ce, NEW ep, Serves(ce, table, n, ep) PROVE Serves(ce, longer, n, ep)
    <2> SUFFICES ASSUME NEW i \in Addressable(longer), i <= n, endpoint_ok(longer[i], ep)
                 PROVE  /\ i \in ce.route_mask
                        /\ ce.min_priority \in Nat /\ ce.min_priority <= min_priority(longer[i])
      BY DEF Serves
    <2>1. i \in 1..n
      BY <1>1 DEF Addressable
    <2>2. i \in Addressable(table) /\ longer[i] = table[i]
      BY <1>2, <1>3, <2>1
    <2> QED
      BY <1>4, <2>2 DEF Serves
  <1> QED
    BY <1>2, <1>3, <1>4 DEF longer

-----------------------------------------------------------------------------
(* One logging thread, until a filter is edited in place.                  *)

Solo == \A s, t \in Loggers : s = t

CallsOK ==
  /\ routes \in Seq(RouteChoices)
  /\ dirty_cache \in BOOLEAN
  /\ pc \in [Loggers -> PcStates]
  /\ phase \in [Loggers -> {"enabled", "submit"}]
  /\ ev \in [Loggers -> Events]
  /\ DOMAIN entry = Loggers /\ entry = [t \in Loggers |-> entry[t]]
  /\ DOMAIN copied = Loggers /\ copied = [t \in Loggers |-> copied[t]]
  /\ kept \in [Loggers -> Nat]
  /\ DOMAIN wrote = Loggers /\ wrote = [t \in Loggers |-> wrote[t]]
  /\ edits = 0

\* What a thread about to emplace carries is current unless the flag is set.
InFlight ==
  \A t \in Loggers :
    pc[t] = "emplace" /\ ~dirty_cache =>
      entry[t] = compute_cache_entry(routes, ev[t].endpoint)

\* The entry a call will find or has got serves the routes that have stayed in
\* place since it began, and its copy of the routes begins with them.
KeptCall(t) ==
  /\ pc[t] # "idle" => kept[t] <= Len(routes)
  /\ pc[t] = "clear" => dirty_cache
  /\ pc[t] = "find" /\ ev[t].endpoint \in DOMAIN endpoint_cache =>
       Serves(endpoint_cache[ev[t].endpoint], routes, kept[t], ev[t].endpoint)
  /\ pc[t] \in {"emplace", "entry", "global", "dispatch", "write"} =>
       Serves(entry[t], routes, kept[t], ev[t].endpoint)
  /\ pc[t] \in {"dispatch", "write"} /\ kept[t] > 0 => route_passes(global_filters, ev[t])
  /\ pc[t] = "write" =>
       \A i \in 1..kept[t] : i \in DOMAIN copied[t] /\ copied[t][i] = routes[i]
  /\ pc[t] # "done" => wrote[t] = {}

KeptCalls == \A t \in Loggers : KeptCall(t)

\* Inductive as long as no filter has been edited.
CacheInv ==
  /\ CallsOK
  /\ CacheCoherent
  /\ InFlight
  /\ KeptCalls
  /\ DeliveryExact

LEMMA CacheInitInv == Init => CacheInv
  <1> SUFFICES ASSUME Init PROVE CacheInv
    OBVIOUS
  <1> USE DEF Init
  <1>1. routes \in Seq(RouteChoices)
    BY EmptySeq
  <1>2. CallsOK
    BY <1>1 DEF CallsOK, PcStates
  <1>3. CacheCoherent /\ InFlight /\ DeliveryExact
    BY DEF CacheCoherent, EmptyCache, InFlight, DeliveryExact
  <1>4. KeptCalls
    BY DEF KeptCalls, KeptCall
  <1> QED
    BY <1>2, <1>3, <1>4 DEF CacheInv

\* Every route of the table is well-formed and every priority is a natural.
LEMMA TableWellFormed ==
  ASSUME CallsOK
  PROVE  /\ \A i \in DOMAIN routes : WellFormed(routes[i])
         /\ \A t \in Loggers : ev[t].priority \in Nat
  <1>1. \A i \in DOMAIN routes : routes[i] \in RouteChoices
    BY LenProperties DEF CallsOK
  <1>2. \A r \in RouteChoices : WellFormed(r)
    BY CacheAssumption DEF WellFormed
  <1>3. ASSUME NEW t \in Loggers PROVE ev[t].priority \in Nat
    <2>1. ev[t] \in Events
      BY <1>3 DEF CallsOK
    <2>2. ev[t].priority \in 0..UInt16Max
      BY <2>1, CacheAssumption
    <2> QED
      BY <2>2
  <1> QED
    BY <1>1, <1>2, <1>3

\* With one thread, the facts about the others say nothing.
LEMMA OneThread ==
  ASSUME Solo, NEW t \in Loggers, KeptCall(t)'
  PROVE  KeptCalls'
  BY DEF Solo, KeptCalls

\* The call begins, and loads the flag: if it is clear, the cache is current.
LEMMA BeginStep ==
  ASSUME CacheInv, Solo, NEW t \in Loggers,
         LoadDirty(t) \/ \E e \in Events, first \in {"enabled", "submit"} : Call(t, e, first)
  PROVE  CacheInv'
  <1> USE DEF CacheInv, tableVars, cacheVars, callVars, Goto
  <1>0. Len(routes) \in Nat
    BY LenProperties DEF CallsOK
  <1>1. CallsOK'
    <2>1. /\ \E l \in PcStates : pc' = [pc EXCEPT ![t] = l]
          /\ phase' = phase \/ \E p \in {"enabled", "submit"} : phase' = [phase EXCEPT ![t] = p]
      BY DEF PcStates, LoadDirty, Call
    <2>2. ev' \in [Loggers -> Events] /\ kept' \in [Loggers -> Nat]
      BY <1>0 DEF CallsOK, LoadDirty, Call
    <2>3. UNCHANGED <<routes, dirty_cache, edits, entry, copied, wrote>>
      BY DEF LoadDirty, Call
    <2> QED
      BY <2>1, <2>2, <2>3 DEF CallsOK
  <1>2. CacheCoherent' /\ InFlight'
    BY DEF CacheCoherent, InFlight, CallsOK, LoadDirty, Call
  <1>3. KeptCall(t)'
    <2>1. CASE LoadDirty(t)
      <3>1. /\ UNCHANGED <<routes, dirty_cache, endpoint_cache, kept, ev, wrote>>
            /\ pc[t] = "load" /\ pc'[t] = IF dirty_cache THEN "clear" ELSE "find"
        BY <2>1 DEF LoadDirty, CallsOK
      <3>2. ASSUME ~dirty_cache, NEW ep \in DOMAIN endpoint_cache
            PROVE  Serves(endpoint_cache[ep], routes, kept[t], ep)
        <4>1. endpoint_cache[ep] = compute_cache_entry(routes, ep)
          BY <3>2 DEF CacheCoherent, CallsOK
        <4>2. Serves(compute_cache_entry(routes, ep), routes, kept[t], ep)
          BY ComputedServes, TableWellFormed
        <4> QED
          BY <4>1, <4>2
      <3>3. KeptCall(t)
        BY DEF KeptCalls
      <3>4. CASE dirty_cache
        BY <3>1, <3>3, <3>4 DEF KeptCall
      <3>5. CASE ~dirty_cache
        BY <3>1, <3>2, <3>3, <3>5 DEF KeptCall
      <3> QED
        BY <3>4, <3>5
    <2>2. ASSUME NEW e, NEW first, Call(t, e, first) PROVE KeptCall(t)'
      <3>1. /\ pc[t] = "idle" /\ pc'[t] = "load" /\ kept'[t] = Len(routes)
            /\ UNCHANGED <<routes, wrote>>
        BY <2>2 DEF Call, CallsOK
      <3>2. wrote[t] = {}
        BY <3>1 DEF KeptCalls, KeptCall
      <3> QED
        BY <1>0, <3>1, <3>2 DEF KeptCall
    <2> QED
      BY <2>1, <2>2
  <1>4. DeliveryExact'
    BY DEF Solo, DeliveryExact, CallsOK, LoadDirty, Call
  <1> QED
    BY <1>1, <1>2, <1>3, <1>4, OneThread

\* The lookup: clear, find, compute, emplace.
LEMMA LookupStep ==
  ASSUME CacheInv, Solo, NEW t \in Loggers,
         ClearCache(t) \/ FindEntry(t) \/ ComputeEntry(t) \/ EmplaceEntry(t)
  PROVE  CacheInv'
  <1> USE DEF CacheInv, tableVars, cacheVars, callVars, Goto
  <1>1. CallsOK'
    BY ZenonT(40) DEF CallsOK, PcStates, ClearCache, FindEntry, ComputeEntry, EmplaceEntry
  <1>2. CacheCoherent'
    <2>1. CASE EmplaceEntry(t)
      BY <2>1 DEF EmplaceEntry, CacheCoherent, InFlight, CallsOK
    <2>2. CASE ClearCache(t)
      BY <2>2 DEF ClearCache, CacheCoherent, EmptyCache
    <2>3. CASE FindEntry(t) \/ ComputeEntry(t)
      BY <2>3 DEF FindEntry, ComputeEntry, CacheCoherent
    <2> QED
      BY <2>1, <2>2, <2>3
  <1>3. InFlight'
    BY DEF Solo, InFlight, CallsOK, ClearCache, FindEntry, ComputeEntry, EmplaceEntry
  <1>4. KeptCall(t)'
    <2>1. Serves(compute_cache_entry(routes, ev[t].endpoint), routes, kept[t], ev[t].endpoint)
      BY ComputedServes, TableWellFormed
    <2>2. KeptCall(t)
      BY DEF KeptCalls
    <2>3. UNCHANGED <<routes, global_filters, kept, ev, copied, wrote>>
      BY DEF ClearCache, FindEntry, ComputeEntry, EmplaceEntry
    <2>4. CASE ClearCache(t)
      <3>1. pc[t] = "clear" /\ pc'[t] = "find" /\ (dirty_cache => endpoint_cache' = EmptyCache)
        BY <2>4 DEF ClearCache, CallsOK
      <3> QED
        BY <2>2, <2>3, <3>1 DEF KeptCall, EmptyCache
    <2>5. CASE FindEntry(t)
      <3>1. /\ pc[t] = "find"
            /\ \/ /\ pc'[t] = "entry" /\ ev[t].endpoint \in DOMAIN endpoint_cache
                  /\ entry'[t] = endpoint_cache[ev[t].endpoint]
               \/ pc'[t] = "compute"
        BY <2>5 DEF FindEntry, CallsOK
      <3> QED
        BY <2>2, <2>3, <3>1 DEF KeptCall
    <2>6. CASE ComputeEntry(t)
      <3>1. /\ pc[t] = "compute" /\ pc'[t] = "emplace"
            /\ entry'[t] = compute_cache_entry(routes, ev[t].endpoint)
        BY <2>6 DEF ComputeEntry, CallsOK
      <3> QED
        BY <2>1, <2>2, <2>3, <3>1 DEF KeptCall
    <2>7. CASE EmplaceEntry(t)
      <3>1. pc[t] = "emplace" /\ pc'[t] = "entry" /\ entry' = entry
        BY <2>7 DEF EmplaceEntry, CallsOK
      <3> QED
        BY <2>2, <2>3, <3>1 DEF KeptCall
    <2> QED
      BY <2>4, <2>5, <2>6, <2>7
  <1>5. DeliveryExact'
    BY DEF Solo, DeliveryExact, CallsOK, ClearCache, FindEntry, ComputeEntry, EmplaceEntry
  <1> QED
    BY <1>1, <1>2, <1>3, <1>4, <1>5, OneThread

\* An entry that serves the routes in place names each of them that passes the
\* event, and does not hide it by the priority test.
LEMMA EligibleIsNamed ==
  ASSUME CallsOK, NEW t \in Loggers, Serves(entry[t], routes, kept[t], ev[t].endpoint),
         NEW i \in Eligible(ev[t]) \cap (1..kept[t])
  PROVE  /\ i \in entry[t].route_mask
         /\ ev[t].priority >= trace => ~(ev[t].priority < cached_min_priority(entry[t]))
  <1>1. i \in Addressable(routes) /\ route_passes(routes[i], ev[t]) /\ i <= kept[t]
    BY DEF Eligible, CallsOK
  <1>2. WellFormed(routes[i]) /\ ev[t].priority \in Nat
    BY <1>1, TableWellFormed DEF Addressable
  <1>3. endpoint_ok(routes[i], ev[t].endpoint)
    BY <1>1, <1>2, SummarySound
  <1>4. /\ i \in entry[t].route_mask
        /\ entry[t].min_priority \in Nat /\ entry[t].min_priority <= min_priority(routes[i])
    BY <1>1, <1>3 DEF Serves
  <1>5. cached_min_priority(entry[t]) = entry[t].min_priority
    BY <1>4 DEF cached_min_priority
  <1>6. ASSUME ev[t].priority >= trace PROVE ~(ev[t].priority < entry[t].min_priority)
    <2>1. ev[t].priority >= min_priority(routes[i])
      BY <1>1, <1>2, <1>6, SummarySound
    <2>2. min_priority(routes[i]) \in 0..UInt16Max
      BY <1>2, MinPriorityType
    <2>3. min_priority(routes[i]) \in Nat
      BY <2>2
    <2> QED
      BY <1>2, <1>4, <2>1, <2>3
  <1> QED
    BY <1>4, <1>5, <1>6

\* The steps that decide what happens to the event.
LEMMA DecideStep ==
  ASSUME CacheInv, Solo, NEW t \in Loggers,
         \/ TestEnabled(t) \/ TestMask(t) \/ GlobalFilters(t) \/ CopyRoutes(t)
         \/ DispatchSync(t) \/ Return(t)
  PROVE  CacheInv'
  <1> USE DEF CacheInv, tableVars, cacheVars, callVars, Goto
  <1>1. CallsOK'
    <2>1. /\ \E l \in PcStates : pc' = [pc EXCEPT ![t] = l]
          /\ phase' = phase \/ phase' = [phase EXCEPT ![t] = "submit"]
      BY DEF PcStates, TestEnabled, TestMask, GlobalFilters, CopyRoutes, DispatchSync, Return
    <2>2. /\ DOMAIN wrote' = Loggers /\ wrote' = [s \in Loggers |-> wrote'[s]]
          /\ DOMAIN copied' = Loggers /\ copied' = [s \in Loggers |-> copied'[s]]
          /\ DOMAIN entry' = Loggers /\ entry' = [s \in Loggers |-> entry'[s]]
      BY DEF CallsOK, TestEnabled, TestMask, GlobalFilters, CopyRoutes, DispatchSync, Return
    <2>3. UNCHANGED <<routes, dirty_cache, edits, ev, kept>>
      BY DEF TestEnabled, TestMask, GlobalFilters, CopyRoutes, DispatchSync, Return
    <2>4. pc' \in [Loggers -> PcStates] /\ phase' \in [Loggers -> {"enabled", "submit"}]
      BY <2>1 DEF CallsOK
    <2> QED
      BY <2>2, <2>3, <2>4, Zenon DEF CallsOK
  <1>2. CacheCoherent'
    BY DEF CacheCoherent, TestEnabled, TestMask, GlobalFilters, CopyRoutes, DispatchSync, Return
  <1>3. InFlight'
    BY DEF Solo, InFlight, CallsOK, TestEnabled, TestMask, GlobalFilters, CopyRoutes, DispatchSync, Return
  <1>4. KeptCall(t)'
    <2>1. \A i \in 1..kept[t] : pc[t] # "idle" => i \in DOMAIN routes
      BY LenProperties DEF KeptCalls, KeptCall, CallsOK
    <2> QED
      BY <2>1 DEF KeptCalls, KeptCall, CallsOK,
         TestEnabled, TestMask, GlobalFilters, CopyRoutes, DispatchSync, Return
  <1>5. DeliveryExact'
    <2>1. UNCHANGED <<routes, global_filters, ev, kept, edits>>
      BY DEF TestEnabled, TestMask, GlobalFilters, CopyRoutes, DispatchSync, Return
    <2>2. Eligible(ev[t])' = Eligible(ev[t])
      BY <2>1 DEF Eligible
    <2>3. ASSUME pc'[t] = "done", ev[t].priority >= trace
          PROVE  wrote'[t] \cap (1..kept[t]) = Eligible(ev[t]) \cap (1..kept[t])
      <3>1. pc[t] \in {"entry", "global", "write"}
        BY <2>3 DEF CallsOK, TestEnabled, TestMask, GlobalFilters, CopyRoutes, DispatchSync, Return
      <3>2. Serves(entry[t], routes, kept[t], ev[t].endpoint)
        BY <3>1 DEF KeptCalls, KeptCall
      <3>3. \A i \in Eligible(ev[t]) \cap (1..kept[t]) :
              i \in entry[t].route_mask /\ ~(ev[t].priority < cached_min_priority(entry[t]))
        BY <2>3, <3>2, EligibleIsNamed
      <3>4. CASE DispatchSync(t)
        <4>1. pc[t] = "write" /\ \A i \in 1..kept[t] : i \in DOMAIN copied[t] /\ copied[t][i] = routes[i]
          BY <3>4 DEF DispatchSync, KeptCalls, KeptCall
        <4>2. ASSUME NEW i \in 1..kept[t]
              PROVE  route_passes(global_filters, ev[t]) /\ i \in DOMAIN routes
          <5>1. /\ kept[t] > 0 => route_passes(global_filters, ev[t])
                /\ kept[t] <= Len(routes)
            <6>1. KeptCall(t)
              BY Zenon DEF KeptCalls
            <6> QED
              BY <4>1, <6>1 DEF KeptCall
          <5>2. Len(routes) \in Nat /\ DOMAIN routes = 1..Len(routes) /\ kept[t] \in Nat /\ kept[t] > 0
            <6>1. routes \in Seq(RouteChoices) /\ kept[t] \in Nat
              BY DEF CallsOK
            <6>2. Len(routes) \in Nat /\ DOMAIN routes = 1..Len(routes)
              BY <6>1, LenProperties
            <6> QED
              BY <6>1, <6>2
          <5>3. i \in DOMAIN routes
            BY <5>1, <5>2
          <5> QED
            BY <5>1, <5>2, <5>3, Zenon
        <4>3. wrote'[t] = {i \in entry[t].route_mask \cap Addressable(copied[t]) :
                             route_passes(copied[t][i], ev[t])}
          BY <3>4 DEF DispatchSync, CallsOK
        <4>4. ASSUME NEW i \in 1..kept[t]
              PROVE  i \in wrote'[t] <=> i \in Eligible(ev[t])
          <5>1. copied[t][i] = routes[i]
            BY <4>1, Zenon
          <5>2. i \in Addressable(copied[t]) <=> i \in Addressable(routes)
            BY <4>1, <4>2, Zenon DEF Addressable
          <5>3. i \in Eligible(ev[t]) <=> i \in Addressable(routes) /\ route_passes(routes[i], ev[t])
            BY <4>2, Zenon DEF Eligible
          <5>4. i \in wrote'[t] <=> /\ i \in entry[t].route_mask /\ i \in Addressable(copied[t])
                                   /\ route_passes(copied[t][i], ev[t])
            BY <4>3, Zenon
          <5>5. i \in Eligible(ev[t]) => i \in entry[t].route_mask
            BY <3>3, Zenon
          <5> QED
            BY <5>1, <5>2, <5>3, <5>4, <5>5, Zenon
        <4> QED
          BY <4>4, Zenon
      <3>5. CASE TestMask(t)
        <4>1. entry[t].route_mask = {} /\ wrote'[t] = {}
          BY <2>3, <3>5 DEF TestMask, CallsOK, KeptCalls, KeptCall
        <4> QED
          BY <3>3, <4>1
      <3>6. CASE TestEnabled(t)
        <4>1. ev[t].priority < cached_min_priority(entry[t]) /\ wrote'[t] = {}
          BY <2>3, <3>6 DEF TestEnabled, CallsOK, KeptCalls, KeptCall
        <4> QED
          BY <3>3, <4>1
      <3>7. CASE GlobalFilters(t)
        <4>1. ~route_passes(global_filters, ev[t]) /\ wrote'[t] = {}
          BY <2>3, <3>7 DEF GlobalFilters, CallsOK, KeptCalls, KeptCall
        <4> QED
          BY <4>1 DEF Eligible
      <3>8. ASSUME CopyRoutes(t) \/ Return(t) PROVE FALSE
        BY <2>3, <3>8 DEF CopyRoutes, Return, CallsOK
      <3> QED
        BY <3>4, <3>5, <3>6, <3>7, <3>8
    <2> QED
      BY <2>1, <2>2, <2>3 DEF Solo, DeliveryExact, Eligible
  <1> QED
    BY <1>1, <1>2, <1>3, <1>4, <1>5, OneThread

\* Adding a route raises the flag and leaves the others where they are.
LEMMA AddStep ==
  ASSUME CacheInv, NEW r \in RouteChoices, add_route(r)
  PROVE  CacheInv'
  <1> USE DEF CacheInv
  <1>1. /\ routes' = Append(routes, r) /\ dirty_cache' = TRUE
        /\ UNCHANGED <<global_filters, kept, endpoint_cache, pc, phase, ev, entry, copied, wrote, edits>>
    BY DEF Changed, add_route
  <1>2. routes \in Seq(RouteChoices) /\ Len(routes) \in Nat
    BY LenProperties DEF CallsOK
  <1>3. routes' \in Seq(RouteChoices) /\ Len(routes') = Len(routes) + 1
    BY <1>1, <1>2, AppendProperties
  <1>4. CallsOK'
    BY <1>1, <1>3 DEF CallsOK
  <1>5. CacheCoherent' /\ InFlight'
    BY <1>1 DEF CacheCoherent, InFlight
  <1>6. ASSUME NEW t \in Loggers, pc[t] # "idle"
        PROVE  /\ kept[t] \in Nat /\ kept[t] <= Len(routes)
               /\ Addressable(routes') \cap (1..kept[t]) = Addressable(routes) \cap (1..kept[t])
               /\ \A i \in 1..kept[t] : routes'[i] = routes[i]
               /\ \A ce, ep : Serves(ce, routes, kept[t], ep) => Serves(ce, routes', kept[t], ep)
    <2>1. kept[t] \in Nat /\ kept[t] <= Len(routes)
      BY <1>6 DEF KeptCalls, KeptCall, CallsOK
    <2> QED
      BY <1>1, <1>2, <2>1, AddingKeeps
  <1>7. ASSUME NEW t \in Loggers PROVE KeptCall(t)'
    <2>1. CASE pc[t] = "idle"
      BY <1>1, <2>1 DEF KeptCalls, KeptCall
    <2>2. CASE pc[t] # "idle"
      <3>1. KeptCall(t)
        BY DEF KeptCalls
      <3> QED
        BY <1>1, <1>2, <1>3, <1>6, <2>2, <3>1 DEF KeptCall
    <2> QED
      BY <2>1, <2>2
  <1>8. ASSUME NEW t \in Loggers, pc[t] = "done"
        PROVE  Eligible(ev[t])' \cap (1..kept[t]) = Eligible(ev[t]) \cap (1..kept[t])
    BY <1>1, <1>6, <1>8 DEF Eligible
  <1>9. DeliveryExact'
    BY <1>1, <1>8 DEF DeliveryExact
  <1> QED
    BY <1>4, <1>5, <1>7, <1>9 DEF KeptCalls

\* Any other change leaves nothing in place for the calls in progress.
LEMMA ChangeStep ==
  ASSUME CacheInv,
         clear_routes \/ clear_global_filters \/ \E f \in FilterChoices : add_global_filter(f)
  PROVE  CacheInv'
  <1> USE DEF CacheInv
  <1>1. /\ kept' = [t \in Loggers |-> 0]
        /\ UNCHANGED <<endpoint_cache, pc, phase, ev, entry, copied, wrote, edits>>
        /\ (routes' = routes /\ dirty_cache' = dirty_cache) \/ (routes' = <<>> /\ dirty_cache' = TRUE)
    BY DEF Changed, clear_routes, add_global_filter, clear_global_filters
  <1>2. routes' \in Seq(RouteChoices) /\ Len(routes') \in Nat
    BY <1>1, EmptySeq, LenProperties DEF CallsOK
  <1>3. CallsOK'
    <2>1. dirty_cache' \in BOOLEAN
      BY <1>1 DEF CallsOK
    <2>2. kept' \in [Loggers -> Nat]
      BY <1>1
    <2> QED
      BY <1>1, <1>2, <2>1, <2>2 DEF CallsOK
  <1>4. CacheCoherent' /\ InFlight'
    BY <1>1 DEF CacheCoherent, InFlight
  <1>5. \A ce, ep : Serves(ce, routes', 0, ep)
    <2>1. \A i \in DOMAIN routes' : i \in Nat /\ i > 0
      BY <1>2, LenProperties
    <2> QED
      BY <2>1 DEF Serves, Addressable
  <1>6. ASSUME NEW t \in Loggers PROVE KeptCall(t)'
    <2>1. KeptCall(t) /\ kept'[t] = 0
      BY <1>1 DEF KeptCalls
    <2> QED
      BY <1>1, <1>2, <1>5, <2>1 DEF KeptCall
  <1>7. DeliveryExact'
    BY <1>1 DEF DeliveryExact
  <1> QED
    BY <1>3, <1>4, <1>6, <1>7 DEF KeptCalls

LEMMA CacheNextInv ==
  ASSUME Solo, CacheInv, [Next]_vars, edits' = 0
  PROVE  CacheInv'
  <1>1. ASSUME NEW t \in Loggers, LoggerStep(t) PROVE CacheInv'
    BY <1>1, BeginStep, LookupStep, DecideStep DEF LoggerStep
  <1>2. ASSUME NEW t \in Loggers, NEW e \in Events, NEW first \in {"enabled", "submit"},
               Call(t, e, first)
        PROVE  CacheInv'
    BY <1>2, BeginStep
  <1>3. ASSUME NEW i, NEW j, NEW list, NEW prefix, EditFilter(i, j, list, prefix) PROVE FALSE
    BY <1>3 DEF EditFilter, CacheInv, CallsOK
  <1>4. CASE UNCHANGED vars
    BY <1>4 DEF CacheInv, CallsOK, CacheCoherent, InFlight, KeptCalls, KeptCall,
       DeliveryExact, Eligible, vars, tableVars, cacheVars, callVars
  <1> QED
    BY <1>1, <1>2, <1>3, <1>4, AddStep, ChangeStep DEF Next

\* The number of edits never goes back to zero, so the invariant can be lost only
\* by an edit and for good.
EditedOrCacheInv == edits \in Nat /\ (edits = 0 => CacheInv)

LEMMA EditsGrow ==
  ASSUME edits \in Nat, [Next]_vars
  PROVE  edits' \in Nat /\ edits' >= edits
  <1>1. edits' = edits \/ edits' = edits + 1
    BY DEF Next, LoggerStep, Call, LoadDirty, ClearCache, FindEntry, ComputeEntry, EmplaceEntry,
       TestEnabled, TestMask, GlobalFilters, CopyRoutes, DispatchSync, Return, Changed, add_route, clear_routes,
       add_global_filter, clear_global_filters, EditFilter, vars, tableVars
  <1> QED
    BY <1>1

LEMMA CacheInvariant ==
  ASSUME Solo
  PROVE  Spec => []EditedOrCacheInv
  <1>1. Init => EditedOrCacheInv
    BY CacheInitInv DEF EditedOrCacheInv, Init
  <1>2. EditedOrCacheInv /\ [Next]_vars => EditedOrCacheInv'
    <2> SUFFICES ASSUME EditedOrCacheInv, [Next]_vars PROVE EditedOrCacheInv'
      OBVIOUS
    <2>1. edits' \in Nat /\ edits' >= edits
      BY EditsGrow DEF EditedOrCacheInv
    <2>2. ASSUME edits' = 0 PROVE CacheInv'
      <3>1. CacheInv
        BY <2>1, <2>2 DEF EditedOrCacheInv
      <3> QED
        BY <2>2, <3>1, CacheNextInv
    <2> QED
      BY <2>1, <2>2 DEF EditedOrCacheInv
  <1> QED
    BY <1>1, <1>2, PTL DEF Spec

\* With one logging thread the endpoint cache is never stale while dirty_cache is
\* clear, however route changes fall between the steps of a lookup.
THEOREM OneLoggerCoherent ==
  ASSUME Solo
  PROVE  Spec => []CacheCoherent
  <1>1. EditedOrCacheInv => CacheCoherent
    BY DEF EditedOrCacheInv, CacheInv, CacheCoherent
  <1> QED
    BY <1>1, CacheInvariant, PTL

\* With one logging thread, of the routes that are in place throughout a call
\* exactly those that pass its event get it, for any routes, filters and built-in
\* severities and whatever routes are added in mid-call: Logger::enabled and the
\* route mask lose nothing.
THEOREM OneLoggerDeliversExactly ==
  ASSUME Solo
  PROVE  Spec => []DeliveryExact
  <1>1. EditedOrCacheInv => DeliveryExact
    BY DEF EditedOrCacheInv, CacheInv, DeliveryExact
  <1> QED
    BY <1>1, CacheInvariant, PTL

-----------------------------------------------------------------------------
(* Type correctness, for any number of threads.                            *)

\* The table holds well-formed routes only: an edit of a filter keeps its kind.
TableOK == \E S : routes \in Seq(S) /\ \A r \in S : WellFormed(r)

LEMMA EditKeepsForm ==
  ASSUME NEW r, WellFormed(r), NEW j \in DOMAIN r, r[j].kind = "endpoint",
         NEW list \in {"allow", "deny"}, NEW v
  PROVE  WellFormed([r EXCEPT ![j] = [r[j] EXCEPT ![list] = v]])
  <1> DEFINE f == [r[j] EXCEPT ![list] = v]
             q == [r EXCEPT ![j] = f]
  <1>1. DOMAIN q = DOMAIN r /\ q[j] = f /\ \A i \in DOMAIN r : i # j => q[i] = r[i]
    OBVIOUS
  <1>2. "kind" \in DOMAIN f /\ f.kind = "endpoint"
    BY DEF WellFormed
  <1> QED
    BY <1>1, <1>2 DEF WellFormed

LEMMA TableInv ==
  ASSUME TableOK, [Next]_vars
  PROVE  TableOK'
  <1>1. PICK S : routes \in Seq(S) /\ \A r \in S : WellFormed(r)
    BY DEF TableOK
  <1>2. ASSUME NEW r \in RouteChoices, add_route(r) PROVE TableOK'
    <2>1. WellFormed(r)
      BY CacheAssumption DEF WellFormed
    <2>2. routes \in Seq(S \cup {r})
      BY <1>1, SeqMonotonic
    <2>3. routes' \in Seq(S \cup {r})
      BY <1>2, <2>2, AppendProperties DEF add_route
    <2> QED
      BY <1>1, <2>1, <2>3 DEF TableOK
  <1>3. CASE clear_routes
    BY <1>1, <1>3, EmptySeq DEF TableOK, clear_routes
  <1>4. ASSUME NEW i \in DOMAIN routes, NEW j \in DOMAIN routes[i],
               NEW list \in {"allow", "deny"}, NEW prefix, EditFilter(i, j, list, prefix)
        PROVE  TableOK'
    <2> DEFINE v == routes[i][j][list] \cup {prefix}
               r == [routes[i] EXCEPT ![j] = [routes[i][j] EXCEPT ![list] = v]]
    <2>1. i \in 1..Len(routes)
      BY <1>1, LenProperties
    <2>2. WellFormed(routes[i])
      BY <1>1, <2>1, ElementOfSeq
    <2>3. WellFormed(r)
      <3>1. routes[i][j].kind = "endpoint"
        BY <1>4 DEF EditFilter
      <3> QED
        BY <2>2, <3>1, EditKeepsForm
    <2>4. routes' = [routes EXCEPT ![i] = r]
      BY <1>4 DEF EditFilter
    <2>5. routes \in Seq(S \cup {r})
      BY <1>1, SeqMonotonic
    <2> HIDE DEF r
    <2>6. routes' \in Seq(S \cup {r})
      BY <2>1, <2>4, <2>5, ExceptSeq
    <2> QED
      BY <1>1, <2>3, <2>6 DEF TableOK
  <1>5. CASE UNCHANGED routes
    BY <1>1, <1>5 DEF TableOK
  <1>6. ASSUME NEW t \in Loggers, LoggerStep(t) PROVE UNCHANGED routes
    BY <1>6 DEF LoggerStep, LoadDirty, ClearCache, FindEntry, ComputeEntry, EmplaceEntry,
       TestEnabled, TestMask, GlobalFilters, CopyRoutes, DispatchSync, Return, tableVars
  <1>7. ASSUME NEW t, NEW e, NEW first, Call(t, e, first) PROVE UNCHANGED routes
    BY <1>7 DEF Call, tableVars
  <1>8. ASSUME NEW f, add_global_filter(f) \/ clear_global_filters PROVE UNCHANGED routes
    BY <1>8 DEF add_global_filter, clear_global_filters
  <1>9. ASSUME UNCHANGED vars PROVE UNCHANGED routes
    BY <1>9 DEF vars, tableVars
  <1> QED
    BY <1>2, <1>3, <1>4, <1>5, <1>6, <1>7, <1>8, <1>9 DEF Next

\* The mask fits its width and the minimum its 16 bits.
LEMMA EntryType ==
  ASSUME TableOK, NEW ep
  PROVE  compute_cache_entry(routes, ep) \in Entries
  <1>1. PICK S : routes \in Seq(S) /\ \A r \in S : WellFormed(r)
    BY DEF TableOK
  <1> DEFINE mask == {j \in Addressable(routes) : endpoint_ok(routes[j], ep)}
             M == {min_priority(routes[j]) : j \in mask} \cup {UInt16Max}
  <1>2. DOMAIN routes = 1..Len(routes) /\ Len(routes) \in Nat
    BY <1>1, LenProperties
  <1>3. mask \subseteq 1..MaskBits
    BY <1>2, MaskBitsAssumption DEF Addressable
  <1>4. ASSUME NEW j \in mask PROVE min_priority(routes[j]) \in 0..UInt16Max
    <2>1. j \in 1..Len(routes)
      BY <1>2 DEF Addressable
    <2>2. WellFormed(routes[j])
      BY <1>1, <2>1, ElementOfSeq
    <2> QED
      BY <2>2, MinPriorityType
  <1>5. M \subseteq 0..UInt16Max /\ M # {}
    <2>1. UInt16Max \in 0..UInt16Max
      BY DEF UInt16Max
    <2> HIDE DEF mask
    <2> QED
      BY <1>4, <2>1
  <1>6. Least(M) \in 0..UInt16Max
    <2>1. M \subseteq Nat
      BY <1>5
    <2>2. Least(M) \in M
      BY <1>5, <2>1, LeastIsLeast
    <2> QED
      BY <1>5, <2>2
  <1>7. compute_cache_entry(routes, ep) = [route_mask |-> mask, min_priority |-> Least(M)]
    BY DEF compute_cache_entry
  <1> HIDE DEF mask, M
  <1> QED
    BY <1>3, <1>6, <1>7 DEF Entries

LEMMA NoEntryType == NoEntry \in Entries
  BY DEF NoEntry, Entries, UInt16Max

LEMMA TypeCall ==
  ASSUME TypeOK, TableOK, NEW t \in Loggers,
         LoggerStep(t) \/ \E e \in Events, first \in {"enabled", "submit"} : Call(t, e, first)
  PROVE  TypeOK'
  <1> USE DEF TypeOK, Goto, tableVars, cacheVars, callVars
  <1>1. phase' \in [Loggers -> {"enabled", "submit"}] /\ ev' \in [Loggers -> Events]
    <2>1. /\ phase' = phase \/ \E l \in {"enabled", "submit"} : phase' = [phase EXCEPT ![t] = l]
          /\ ev' = ev \/ \E e \in Events : ev' = [ev EXCEPT ![t] = e]
      BY DEF LoggerStep, Call, LoadDirty, ClearCache, FindEntry, ComputeEntry, EmplaceEntry,
         TestEnabled, TestMask, GlobalFilters, CopyRoutes, DispatchSync, Return
    <2> QED
      BY <2>1
  <1>5. dirty_cache' \in BOOLEAN /\ UNCHANGED <<changes, edits>>
    <2>1. (dirty_cache' = FALSE \/ UNCHANGED dirty_cache) /\ UNCHANGED <<changes, edits>>
      BY DEF LoggerStep, Call, LoadDirty, ClearCache, FindEntry, ComputeEntry, EmplaceEntry,
         TestEnabled, TestMask, GlobalFilters, CopyRoutes, DispatchSync, Return
    <2> QED
      BY <2>1
  <1>2. \E l \in PcStates : pc' = [pc EXCEPT ![t] = l]
    BY DEF PcStates, LoggerStep, Call, LoadDirty, ClearCache, FindEntry, ComputeEntry,
       EmplaceEntry, TestEnabled, TestMask, GlobalFilters, CopyRoutes, DispatchSync, Return
  <1>3. stable' \in [Loggers -> BOOLEAN]
    <2>1. stable' = stable \/ stable' = [stable EXCEPT ![t] = TRUE]
      BY DEF LoggerStep, Call, LoadDirty, ClearCache, FindEntry, ComputeEntry, EmplaceEntry,
         TestEnabled, TestMask, GlobalFilters, CopyRoutes, DispatchSync, Return
    <2> QED
      BY <2>1
  <1>10. DOMAIN copied' = Loggers /\ kept' \in [Loggers -> Nat]
    <2>1. /\ copied' = copied \/ \E c : copied' = [copied EXCEPT ![t] = c]
          /\ kept' = kept \/ kept' = [kept EXCEPT ![t] = Len(routes)]
      BY DEF LoggerStep, Call, LoadDirty, ClearCache, FindEntry, ComputeEntry, EmplaceEntry,
         TestEnabled, TestMask, GlobalFilters, CopyRoutes, DispatchSync, Return
    <2>2. Len(routes) \in Nat
      BY LenProperties DEF TableOK
    <2> QED
      BY <2>1, <2>2
  <1>4. fell_back' \in [Loggers -> BOOLEAN]
    <2>1. \/ fell_back' = fell_back
          \/ fell_back' = [fell_back EXCEPT ![t] = FALSE]
          \/ fell_back' = [fell_back EXCEPT ![t] = ev[t].priority >= error]
      BY DEF LoggerStep, Call, LoadDirty, ClearCache, FindEntry, ComputeEntry, EmplaceEntry,
         TestEnabled, TestMask, GlobalFilters, CopyRoutes, DispatchSync, Return
    <2>2. (ev[t].priority >= error) \in BOOLEAN
      OBVIOUS
    <2> QED
      BY <2>1, <2>2
  <1>6. \A ep : compute_cache_entry(routes, ep) \in Entries
    BY EntryType
  <1>7. entry' \in [Loggers -> Entries]
    BY <1>6, NoEntryType DEF LoggerStep, Call, LoadDirty, ClearCache, FindEntry, ComputeEntry,
       EmplaceEntry, TestEnabled, TestMask, GlobalFilters, CopyRoutes, DispatchSync, Return
  <1>8. wrote' \in [Loggers -> SUBSET (1..MaskBits)]
    <2>1. ASSUME DispatchSync(t) PROVE wrote' \in [Loggers -> SUBSET (1..MaskBits)]
      <3>1. entry[t].route_mask \subseteq 1..MaskBits
        BY DEF Entries
      <3> QED
        BY <2>1, <3>1 DEF DispatchSync
    <2>2. ASSUME ~DispatchSync(t) PROVE wrote' = wrote \/ wrote' = [wrote EXCEPT ![t] = {}]
      BY <2>2 DEF LoggerStep, Call, LoadDirty, ClearCache, FindEntry, ComputeEntry, EmplaceEntry,
         TestEnabled, TestMask, GlobalFilters, CopyRoutes, Return
    <2> QED
      BY <2>1, <2>2
  <1>9. /\ DOMAIN endpoint_cache' \subseteq Endpoint
        /\ \A ep \in DOMAIN endpoint_cache' : endpoint_cache'[ep] \in Entries
    <2>1. CASE EmplaceEntry(t)
      <3>1. ev[t].endpoint \in Endpoint
        BY DEF Endpoint
      <3> QED
        BY <2>1, <3>1 DEF EmplaceEntry
    <2>2. CASE ~EmplaceEntry(t)
      <3>1. endpoint_cache' = endpoint_cache \/ endpoint_cache' = EmptyCache
        BY <2>2 DEF LoggerStep, Call, LoadDirty, ClearCache, FindEntry, ComputeEntry,
           TestEnabled, TestMask, GlobalFilters, CopyRoutes, DispatchSync, Return
      <3> QED
        BY <3>1 DEF EmptyCache
    <2> QED
      BY <2>1, <2>2
  <1>11. pc' \in [Loggers -> PcStates]
    BY <1>2
  <1>12. changes' \in 0..MaxChanges /\ edits' \in 0..MaxEdits
    BY <1>5, Zenon
  <1> QED
    BY <1>1, <1>3, <1>4, <1>5, <1>7, <1>8, <1>9, <1>10, <1>11, <1>12, Zenon

LEMMA TypeChange ==
  ASSUME TypeOK,
         \/ \E r \in RouteChoices : add_route(r)
         \/ clear_routes
         \/ \E f \in FilterChoices : add_global_filter(f)
         \/ clear_global_filters
  PROVE  TypeOK'
  <1>1. (Changed(TRUE) \/ Changed(FALSE)) /\ (dirty_cache' = TRUE \/ UNCHANGED dirty_cache)
    BY DEF add_route, clear_routes, add_global_filter, clear_global_filters
  <1>2. changes' \in 0..MaxChanges
    BY <1>1, CacheAssumption DEF Changed, TypeOK
  <1>3. dirty_cache' \in BOOLEAN /\ stable' \in [Loggers -> BOOLEAN]
    BY <1>1 DEF Changed, TypeOK
  <1>4. kept' \in [Loggers -> Nat]
    <2>1. kept' = kept \/ kept' = [t \in Loggers |-> 0]
      BY <1>1 DEF Changed
    <2> QED
      BY <2>1 DEF TypeOK
  <1> QED
    BY <1>1, <1>2, <1>3, <1>4 DEF Changed, TypeOK

\* Cache entries and masks keep their widths, whatever is added, cleared or
\* edited: no route beyond bit 63 is ever shifted into a mask or written to, and
\* every minimum fits 16 bits.
THEOREM CacheTypesHold == Spec => []TypeOK
  <1> DEFINE TInv == TypeOK /\ TableOK
  <1>1. Init => TInv
    <2> SUFFICES ASSUME Init PROVE TInv
      OBVIOUS
    <2>1. TypeOK
      BY NoEntryType, CacheAssumption DEF Init, TypeOK, EmptyCache, PcStates
    <2>2. routes \in Seq({})
      BY EmptySeq DEF Init
    <2> QED
      BY <2>1, <2>2 DEF TableOK
  <1>2. TInv /\ [Next]_vars => TInv'
    <2> SUFFICES ASSUME TInv, [Next]_vars PROVE TInv'
      OBVIOUS
    <2>1. ASSUME NEW i, NEW j, NEW list, NEW prefix, EditFilter(i, j, list, prefix)
          PROVE  TypeOK'
      <3>1. edits' \in 0..MaxEdits
        BY <2>1, CacheAssumption DEF EditFilter, TypeOK
      <3>2. UNCHANGED <<changes, cacheVars, pc, callVars>>
        BY <2>1 DEF EditFilter
      <3> QED
        BY <3>1, <3>2 DEF TypeOK, cacheVars, callVars
    <2>2. ASSUME UNCHANGED vars PROVE TypeOK'
      BY <2>2 DEF TypeOK, vars, tableVars, cacheVars, callVars
    <2>3. TypeOK'
      BY <2>1, <2>2, TypeCall, TypeChange DEF Next
    <2> QED
      BY <2>3, TableInv
  <1> QED
    BY <1>1, <1>2, PTL DEF Spec

-----------------------------------------------------------------------------
(* Any number of logging threads, any filter edits: what the filters alone *)
(* guarantee, whatever entry a call has been given.                        *)

\* What StaleMaskHarmless says of one call, and what is known before it is done.
HarmlessCall(t) ==
  /\ pc[t] # "idle" => kept[t] <= Len(routes)
  /\ pc[t] \in {"dispatch", "write"} /\ kept[t] > 0 => route_passes(global_filters, ev[t])
  /\ pc[t] = "write" => \A i \in 1..kept[t] : copied[t][i] = routes[i]
  /\ pc[t] # "done" => wrote[t] = {} /\ ~fell_back[t]
  /\ pc[t] = "done" =>
       /\ \A i \in wrote[t] : i \in DOMAIN copied[t] /\ route_passes(copied[t][i], ev[t])
       /\ wrote[t] \cap (1..kept[t]) \subseteq Eligible(ev[t])
       /\ fell_back[t] => wrote[t] = {} /\ ev[t].priority >= error

HarmlessInv ==
  /\ pc \in [Loggers -> PcStates]
  /\ DOMAIN ev = Loggers
  /\ DOMAIN copied = Loggers
  /\ kept \in [Loggers -> Nat]
  /\ DOMAIN wrote = Loggers
  /\ DOMAIN fell_back = Loggers
  /\ \A t \in Loggers : HarmlessCall(t)

LEMMA TableLength == TableOK => Len(routes) \in Nat /\ DOMAIN routes = 1..Len(routes)
  BY LenProperties DEF TableOK

\* A step of thread s leaves the calls of the others as they are.
LEMMA OwnCallOnly ==
  ASSUME HarmlessInv, TableOK, NEW s \in Loggers,
         LoggerStep(s) \/ \E e \in Events, first \in {"enabled", "submit"} : Call(s, e, first)
  PROVE  /\ UNCHANGED <<routes, global_filters>>
         /\ pc' \in [Loggers -> PcStates]
         /\ DOMAIN ev' = Loggers /\ DOMAIN copied' = Loggers /\ kept' \in [Loggers -> Nat]
         /\ DOMAIN wrote' = Loggers /\ DOMAIN fell_back' = Loggers
         /\ \A t \in Loggers \ {s} :
              /\ pc'[t] = pc[t] /\ ev'[t] = ev[t] /\ copied'[t] = copied[t] /\ kept'[t] = kept[t]
              /\ wrote'[t] = wrote[t] /\ fell_back'[t] = fell_back[t]
  <1> USE DEF HarmlessInv, Goto, tableVars, cacheVars, callVars
  <1>1. UNCHANGED <<routes, global_filters>>
    BY DEF LoggerStep, Call, LoadDirty, ClearCache, FindEntry, ComputeEntry, EmplaceEntry,
       TestEnabled, TestMask, GlobalFilters, CopyRoutes, DispatchSync, Return
  <1>2. \E l \in PcStates : pc' = [pc EXCEPT ![s] = l]
    BY DEF PcStates, LoggerStep, Call, LoadDirty, ClearCache, FindEntry, ComputeEntry,
       EmplaceEntry, TestEnabled, TestMask, GlobalFilters, CopyRoutes, DispatchSync, Return
  <1>3. /\ ev' = ev \/ \E e : ev' = [ev EXCEPT ![s] = e]
        /\ kept' = kept \/ kept' = [kept EXCEPT ![s] = Len(routes)]
    BY DEF LoggerStep, Call, LoadDirty, ClearCache, FindEntry, ComputeEntry, EmplaceEntry,
       TestEnabled, TestMask, GlobalFilters, CopyRoutes, DispatchSync, Return
  <1>4. /\ wrote' = wrote \/ \E w : wrote' = [wrote EXCEPT ![s] = w]
        /\ fell_back' = fell_back \/ \E b : fell_back' = [fell_back EXCEPT ![s] = b]
        /\ copied' = copied \/ \E c : copied' = [copied EXCEPT ![s] = c]
    BY DEF LoggerStep, Call, LoadDirty, ClearCache, FindEntry, ComputeEntry, EmplaceEntry,
       TestEnabled, TestMask, GlobalFilters, CopyRoutes, DispatchSync, Return
  <1>5. kept' \in [Loggers -> Nat]
    BY <1>3, TableLength
  <1>6. pc' \in [Loggers -> PcStates] /\ DOMAIN ev' = Loggers
    BY <1>2, <1>3
  <1>7. DOMAIN copied' = Loggers /\ DOMAIN wrote' = Loggers /\ DOMAIN fell_back' = Loggers
    BY <1>4
  <1>8. ASSUME NEW t \in Loggers \ {s}
        PROVE  /\ pc'[t] = pc[t] /\ ev'[t] = ev[t] /\ kept'[t] = kept[t]
               /\ copied'[t] = copied[t] /\ wrote'[t] = wrote[t] /\ fell_back'[t] = fell_back[t]
    <2>1. pc'[t] = pc[t]
      BY <1>2
    <2>2. ev'[t] = ev[t] /\ kept'[t] = kept[t]
      BY <1>3
    <2>3. copied'[t] = copied[t] /\ wrote'[t] = wrote[t] /\ fell_back'[t] = fell_back[t]
      BY <1>4
    <2> QED
      BY <2>1, <2>2, <2>3
  <1> QED
    BY <1>1, <1>5, <1>6, <1>7, <1>8

\* The steps of the thread's own call.
LEMMA OwnStepHarmless ==
  ASSUME HarmlessInv, TableOK, NEW s \in Loggers,
         LoggerStep(s) \/ \E e \in Events, first \in {"enabled", "submit"} : Call(s, e, first)
  PROVE  HarmlessCall(s)'
  <1> USE DEF HarmlessInv, Goto, tableVars, cacheVars, callVars
  <1>1. HarmlessCall(s) /\ kept[s] \in Nat /\ Len(routes) \in Nat
    BY TableLength
  <1>2. ASSUME NEW e, NEW first, Call(s, e, first) PROVE HarmlessCall(s)'
    BY <1>1, <1>2 DEF HarmlessCall, Call
  <1>3. CASE LoadDirty(s) \/ ClearCache(s) \/ FindEntry(s) \/ ComputeEntry(s) \/ EmplaceEntry(s)
    <2>1. /\ UNCHANGED <<routes, kept, wrote, fell_back>>
          /\ pc[s] # "idle" /\ pc[s] # "done"
          /\ pc'[s] \in {"clear", "find", "compute", "emplace", "entry"}
      BY <1>3 DEF LoadDirty, ClearCache, FindEntry, ComputeEntry, EmplaceEntry
    <2> QED
      BY <1>1, <2>1 DEF HarmlessCall
  <1>4. CASE TestEnabled(s) \/ TestMask(s)
    <2>1. /\ UNCHANGED <<routes, kept, wrote, ev>>
          /\ pc[s] = "entry" /\ pc'[s] \in {"load", "global", "done"}
          /\ fell_back'[s] => fell_back[s] \/ ev[s].priority >= error
          /\ pc'[s] # "done" => fell_back'[s] = fell_back[s]
      BY <1>4 DEF TestEnabled, TestMask
    <2> QED
      BY <1>1, <2>1 DEF HarmlessCall
  <1>5. CASE GlobalFilters(s)
    <2>1. /\ UNCHANGED <<routes, global_filters, kept, wrote, fell_back, ev>>
          /\ pc[s] = "global"
          /\ pc'[s] = IF route_passes(global_filters, ev[s]) THEN "dispatch" ELSE "done"
      BY <1>5 DEF GlobalFilters
    <2> QED
      BY <1>1, <2>1 DEF HarmlessCall
  <1>6. CASE CopyRoutes(s)
    <2>1. /\ UNCHANGED <<routes, global_filters, kept, wrote, fell_back, ev>>
          /\ pc[s] = "dispatch" /\ pc'[s] = "write" /\ copied'[s] = routes
      BY <1>6 DEF CopyRoutes
    <2> QED
      BY <1>1, <2>1 DEF HarmlessCall
  <1>7. CASE DispatchSync(s)
    <2>1. /\ UNCHANGED <<routes, global_filters, kept, copied, fell_back, ev>>
          /\ pc[s] = "write" /\ pc'[s] = "done"
          /\ wrote'[s] = {i \in entry[s].route_mask \cap Addressable(copied[s]) :
                            route_passes(copied[s][i], ev[s])}
      BY <1>7 DEF DispatchSync
    <2>2. \A i \in wrote'[s] :
            i \in DOMAIN copied[s] /\ i <= MaskBits /\ route_passes(copied[s][i], ev[s])
      BY <2>1 DEF Addressable
    <2>3. ASSUME NEW i \in wrote'[s] \cap (1..kept[s]) PROVE i \in Eligible(ev[s])
      <3>1. route_passes(global_filters, ev[s]) /\ copied[s][i] = routes[i]
        BY <1>1, <2>1, <2>3 DEF HarmlessCall
      <3>2. i \in DOMAIN routes
        BY <1>1, <2>1, <2>3, TableLength DEF HarmlessCall
      <3> QED
        BY <2>2, <2>3, <3>1, <3>2 DEF Eligible, Addressable
    <2>4. Eligible(ev[s])' = Eligible(ev[s])
      BY <2>1 DEF Eligible
    <2> QED
      BY <1>1, <2>1, <2>2, <2>3, <2>4 DEF HarmlessCall
  <1>8. CASE Return(s)
    BY <1>8 DEF Return, HarmlessCall
  <1> QED
    BY <1>2, <1>3, <1>4, <1>5, <1>6, <1>7, <1>8 DEF LoggerStep

LEMMA HarmlessCallStep ==
  ASSUME HarmlessInv, TableOK, NEW s \in Loggers,
         LoggerStep(s) \/ \E e \in Events, first \in {"enabled", "submit"} : Call(s, e, first)
  PROVE  HarmlessInv'
  <1>1. ASSUME NEW t \in Loggers \ {s} PROVE HarmlessCall(t)'
    <2>1. Eligible(ev[t])' = Eligible(ev[t])
      BY OwnCallOnly DEF Eligible
    <2> QED
      BY <2>1, OwnCallOnly DEF HarmlessInv, HarmlessCall
  <1>2. HarmlessCall(s)'
    BY OwnStepHarmless
  <1> QED
    BY <1>1, <1>2, OwnCallOnly DEF HarmlessInv

LEMMA HarmlessChange ==
  ASSUME HarmlessInv, TableOK,
         \/ \E r \in RouteChoices : add_route(r)
         \/ clear_routes
         \/ \E f \in FilterChoices : add_global_filter(f)
         \/ clear_global_filters
  PROVE  HarmlessInv'
  <1> USE DEF HarmlessInv
  <1>1. UNCHANGED <<pc, ev, copied, wrote, fell_back>>
    BY DEF Changed, add_route, clear_routes, add_global_filter, clear_global_filters
  <1>2. ASSUME NEW r \in RouteChoices, add_route(r) PROVE HarmlessInv'
    <2>1. routes' = Append(routes, r) /\ UNCHANGED <<global_filters, kept>>
      BY <1>2 DEF Changed, add_route
    <2>2. PICK S : routes \in Seq(S)
      BY DEF TableOK
    <2>3. Len(routes) \in Nat /\ Len(routes') = Len(routes) + 1
      BY <2>1, <2>2, LenProperties, AppendProperties
    <2>4. ASSUME NEW t \in Loggers PROVE HarmlessCall(t)'
      <3>1. CASE pc[t] = "idle"
        BY <1>1, <3>1 DEF HarmlessCall
      <3>2. CASE pc[t] # "idle"
        <4>1. HarmlessCall(t) /\ kept[t] \in Nat /\ kept[t] <= Len(routes)
          BY <3>2 DEF HarmlessCall
        <4>2. /\ Addressable(routes') \cap (1..kept[t]) = Addressable(routes) \cap (1..kept[t])
              /\ \A i \in 1..kept[t] : routes'[i] = routes[i]
          BY <2>1, <2>2, <4>1, AddingKeeps
        <4>3. Eligible(ev[t])' \cap (1..kept[t]) = Eligible(ev[t]) \cap (1..kept[t])
          BY <1>1, <2>1, <4>2 DEF Eligible
        <4> QED
          BY <1>1, <2>1, <2>3, <4>1, <4>2, <4>3 DEF HarmlessCall
      <3> QED
        BY <3>1, <3>2
    <2> QED
      BY <1>1, <2>1, <2>4
  <1>3. CASE clear_routes \/ clear_global_filters \/ \E f \in FilterChoices : add_global_filter(f)
    <2>1. kept' = [t \in Loggers |-> 0] /\ (routes' = routes \/ routes' = <<>>)
      BY <1>3 DEF Changed, clear_routes, add_global_filter, clear_global_filters
    <2>2. Len(routes') \in Nat
      BY <2>1, TableLength
    <2>3. ASSUME NEW t \in Loggers PROVE HarmlessCall(t)'
      <3>1. HarmlessCall(t) /\ kept'[t] = 0
        BY <2>1
      <3> QED
        BY <1>1, <2>2, <3>1 DEF HarmlessCall
    <2> QED
      BY <1>1, <2>1, <2>3
  <1> QED
    BY <1>2, <1>3

\* Whatever the cache holds, however many threads log, whichever filters are edited
\* between calls and whatever routes are added or cleared in mid-call: no event
\* reaches a route that rejects it, and the fallback takes severe events only, and
\* only when no route has got them.
THEOREM StaleMasksAreHarmless == Spec => []StaleMaskHarmless
  <1> DEFINE HInv == HarmlessInv /\ TableOK
  <1>1. Init => HInv
    <2> SUFFICES ASSUME Init PROVE HInv
      OBVIOUS
    <2>1. routes \in Seq({})
      BY EmptySeq DEF Init
    <2>2. TableOK
      BY <2>1 DEF TableOK
    <2>3. HarmlessInv
      BY DEF Init, HarmlessInv, HarmlessCall, PcStates
    <2> QED
      BY <2>2, <2>3
  <1>2. HInv /\ [Next]_vars => HInv'
    <2> SUFFICES ASSUME HarmlessInv, TableOK, [Next]_vars PROVE HarmlessInv'
      BY TableInv
    <2>1. ASSUME NEW i, NEW j, NEW list, NEW prefix, EditFilter(i, j, list, prefix)
          PROVE  HarmlessInv'
      BY <2>1 DEF EditFilter, HarmlessInv, HarmlessCall, callVars
    <2>2. CASE UNCHANGED vars
      BY <2>2 DEF HarmlessInv, HarmlessCall, Eligible, vars, tableVars, callVars
    <2> QED
      BY <2>1, <2>2, HarmlessCallStep, HarmlessChange DEF Next
  <1>3. HInv => StaleMaskHarmless
    BY DEF HarmlessInv, HarmlessCall, StaleMaskHarmless
  <1> QED
    BY <1>1, <1>2, <1>3, PTL DEF Spec
=============================================================================
