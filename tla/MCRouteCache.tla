---------------------------- MODULE MCRouteCache ----------------------------
(***************************************************************************)
(* Instances of RouteCache for TLC: two endpoints, one a prefix of the     *)
(* other, priorities around trace and error, and routes that have one      *)
(* filter of each kind, several of one kind, or none.                      *)
(***************************************************************************)
EXTENDS RouteCache, TLC

http  == <<"h">>
noisy == <<"h", "n">>

MCEvents == {[endpoint |-> http, priority |-> 0],
             [endpoint |-> http, priority |-> 500],
             [endpoint |-> noisy, priority |-> 100]}

AtLeast(n)      == [kind |-> "severity", minimum_priority |-> n]
Allow(p)        == [kind |-> "endpoint", allow |-> {p}, deny |-> {}]
Deny(p)         == [kind |-> "endpoint", allow |-> {}, deny |-> {p}]
Only(endpoint)  == [kind |-> "custom", events |-> {e \in MCEvents : e.endpoint = endpoint}]

MCRouteChoices == {<<>>,
                   <<Allow(http), Deny(noisy)>>,
                   <<AtLeast(500), AtLeast(300), Only(http)>>,
                   <<[kind |-> "null"], Allow(noisy)>>}

MCFilterChoices == {AtLeast(500)}

MCPrefixChoices == {http, noisy}

Symmetry == Permutations(Loggers)
=============================================================================
