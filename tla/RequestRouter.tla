---------------------------- MODULE RequestRouter ----------------------------
(***************************************************************************)
(* The request router of core/request_router.cpp: routes in order of        *)
(* priority, weighted targets with a cached total, the circuit breaker and  *)
(* the default backend. Requests are routed one at a time: two that share   *)
(* routes_mutex_ can also meet inside is_circuit_open, which is left out.   *)
(*                                                                         *)
(* A request is one of a few kinds, and what RouteRule::matches says of a   *)
(* kind is the constant RouteMatches: exact, prefix, regular expression,    *)
(* header, method and query rules only decide which kinds a route takes.    *)
(***************************************************************************)
EXTENDS Naturals, Integers, Sequences, SequencesExt, FiniteSets

CONSTANTS
    RouteIds,       \* the Route objects
    RouteName, Priority,    \* per route: its name and priority
    RouteMatches,   \* per route: the kinds of request all its rules match
    RequestKinds,
    TargetWeights,  \* the weights targets are given
    MaxTargets,     \* targets, at most
    Thresholds      \* what enable_circuit_breaker is called with

ASSUME RouterAssumption ==
    /\ Priority \in [RouteIds -> Int] /\ RouteMatches \in [RouteIds -> SUBSET RequestKinds]
    /\ TargetWeights \subseteq Nat /\ MaxTargets \in Nat /\ Thresholds \subseteq Int

VARIABLES
    routes_,        \* the routes, in the order they are tried
    targets_,       \* targets_[r]: the weights of its targets
    cached_total_weight_, weight_cache_valid_,
    error_threshold_, circuit_open_,
    default_backend_,           \* whether there is one
    default_backend_target_,    \* the raw pointer: to nothing, to a target its
                                \* caller still owns, to a freed one; "twice" is
                                \* the undefined state after a second owner
    served          \* history: the last request, its route and its target

routerVars == <<routes_, targets_, cached_total_weight_, weight_cache_valid_,
                error_threshold_, circuit_open_, default_backend_, default_backend_target_,
                served>>
defaultVars == <<default_backend_, default_backend_target_>>
Nothing == [kind |-> "none", route |-> "none", target |-> 0]

\* A route as its constructor leaves it, with the default threshold of errors.
RouterInit ==
    /\ routes_ = <<>> /\ targets_ = [r \in RouteIds |-> <<>>]
    /\ cached_total_weight_ = [r \in RouteIds |-> 0]
    /\ weight_cache_valid_ = [r \in RouteIds |-> FALSE]
    /\ error_threshold_ = [r \in RouteIds |-> 50]
    /\ circuit_open_ = [r \in RouteIds |-> FALSE]
    /\ default_backend_ = FALSE /\ default_backend_target_ = "null"
    /\ served = Nothing

Total(ws) == FoldSeq(LAMBDA w, t : w + t, 0, ws)

\* add_route: before the first route whose priority is not higher (lower_bound).
\* A caller adds a route once.
add_route(r) ==
    /\ r \notin ToSet(routes_) /\ served' = Nothing
    /\ LET higher == {i \in DOMAIN routes_ : Priority[routes_[i]] > Priority[r]}
       IN routes_' = InsertAt(routes_, Cardinality(higher) + 1, r)
    /\ UNCHANGED <<targets_, cached_total_weight_, weight_cache_valid_, error_threshold_,
                   circuit_open_, defaultVars>>

\* remove_route: every route of that name.
remove_route(name) ==
    /\ routes_' = SelectSeq(routes_, LAMBDA r : RouteName[r] # name)
    /\ served' = Nothing
    /\ UNCHANGED <<targets_, cached_total_weight_, weight_cache_valid_, error_threshold_,
                   circuit_open_, defaultVars>>

CanAddTarget ==
    FoldSet(LAMBDA r, n : n + Len(targets_[r]), 0, RouteIds) < MaxTargets

\* Mutant: a new target leaves the cached total as it is.
AddTargetCached(r, w) ==
    /\ CanAddTarget /\ served' = Nothing
    /\ targets_' = [targets_ EXCEPT ![r] = Append(@, w)]
    /\ UNCHANGED <<routes_, cached_total_weight_, weight_cache_valid_, error_threshold_,
                   circuit_open_, defaultVars>>

add_target(r, w) ==
    /\ CanAddTarget /\ served' = Nothing
    /\ targets_' = [targets_ EXCEPT ![r] = Append(@, w)]
    /\ weight_cache_valid_' = [weight_cache_valid_ EXCEPT ![r] = FALSE]
    /\ UNCHANGED <<routes_, cached_total_weight_, error_threshold_, circuit_open_, defaultVars>>

enable_circuit_breaker(r, threshold) ==
    /\ error_threshold_' = [error_threshold_ EXCEPT ![r] = threshold]
    /\ served' = Nothing
    /\ UNCHANGED <<routes_, targets_, cached_total_weight_, weight_cache_valid_, circuit_open_,
                   defaultVars>>

set_default_backend ==
    /\ default_backend_' = TRUE /\ default_backend_target_' = "null" /\ served' = Nothing
    /\ UNCHANGED <<routes_, targets_, cached_total_weight_, weight_cache_valid_, error_threshold_,
                   circuit_open_>>

\* The caller drops the shared_ptr of the default target, which frees it.
DropDefault ==
    /\ default_backend_target_ = "owned" /\ default_backend_target_' = "freed"
    /\ served' = Nothing
    /\ UNCHANGED <<routes_, targets_, cached_total_weight_, weight_cache_valid_, error_threshold_,
                   circuit_open_, default_backend_>>

\* is_circuit_open, with whether the reset time has passed: an open circuit
\* closes then, a closed one opens when there are enough errors. Nothing counts
\* errors: errors_ is 0, and only a threshold of 0 or less opens the circuit.
CircuitOpens(r, passed) ==
    IF circuit_open_[r] THEN ~passed ELSE 0 >= error_threshold_[r]

\* The total that select_target works with.
TotalUsed(r) ==
    IF weight_cache_valid_[r] THEN cached_total_weight_[r] ELSE Total(targets_[r])

\* The target that a random number x in 0..total-1 selects: the first whose
\* running sum exceeds x, and the last one should none.
Chosen(r, x) ==
    LET past == {i \in DOMAIN targets_[r] : x < Total(SubSeq(targets_[r], 1, i))}
    IN IF past = {} THEN Len(targets_[r]) ELSE CHOOSE i \in past : \A j \in past : i <= j

\* The route that serves a request: the first that matches and has a target.
Tried(kind, passed) ==
    LET fits(i) == /\ kind \in RouteMatches[routes_[i]]
                   /\ ~CircuitOpens(routes_[i], passed) /\ TotalUsed(routes_[i]) # 0
    IN {i \in DOMAIN routes_ : fits(i) /\ \A j \in 1..(i - 1) : ~fits(j)}

\* The cached pointer after a request that no route serves: a new target, owned by
\* the shared_ptr that is returned; or the cached one, given a second owner.
Cached ==
    IF ~default_backend_ THEN default_backend_target_
    ELSE IF default_backend_target_ = "null" THEN "owned" ELSE "twice"

\* route_request: each matching route up to the one that serves it is asked for a
\* target, which moves its circuit and, unless the circuit is open or there are
\* no targets, fills its cache.
route_request(kind, passed) ==
    LET to == Tried(kind, passed)
        asked == {routes_[i] : i \in {j \in DOMAIN routes_ :
                                        /\ kind \in RouteMatches[routes_[j]]
                                        /\ targets_[routes_[j]] # <<>>
                                        /\ \A t \in to : j <= t}}
        summed == {r \in asked : ~CircuitOpens(r, passed)}
    IN /\ circuit_open_' = [r \in RouteIds |-> IF r \in asked THEN CircuitOpens(r, passed)
                                              ELSE circuit_open_[r]]
       /\ cached_total_weight_' = [r \in RouteIds |-> IF r \in summed THEN TotalUsed(r)
                                                     ELSE cached_total_weight_[r]]
       /\ weight_cache_valid_' = [r \in RouteIds |-> r \in summed \/ weight_cache_valid_[r]]
       /\ default_backend_target_' = IF to = {} THEN Cached ELSE default_backend_target_
       /\ IF to = {} THEN served' = Nothing
          ELSE LET r == routes_[CHOOSE i \in to : TRUE]
               IN \E x \in 0..(TotalUsed(r) - 1) :
                    served' = [kind |-> kind, route |-> r, target |-> Chosen(r, x)]
       /\ UNCHANGED <<routes_, targets_, error_threshold_, default_backend_>>

RouterNext ==
    /\ default_backend_target_ # "twice"
    /\ \/ set_default_backend \/ DropDefault
       \/ \E r \in RouteIds :
            \/ add_route(r) \/ remove_route(RouteName[r])
            \/ \E w \in TargetWeights : add_target(r, w)
            \/ \E threshold \in Thresholds : enable_circuit_breaker(r, threshold)
       \/ \E kind \in RequestKinds, passed \in BOOLEAN : route_request(kind, passed)

-----------------------------------------------------------------------------
RouterTypeOK ==
    /\ routes_ \in Seq(RouteIds) /\ Cardinality(ToSet(routes_)) = Len(routes_)
    /\ \A r \in RouteIds : targets_[r] \in Seq(TargetWeights)
    /\ default_backend_target_ \in {"null", "owned", "freed", "twice"}
    /\ default_backend_target_ # "null" => default_backend_
    /\ weight_cache_valid_ \in [RouteIds -> BOOLEAN] /\ circuit_open_ \in [RouteIds -> BOOLEAN]

\* The cached total is never stale: where it is valid it is the sum of the
\* weights of the targets the route has now.
TotalFresh ==
    \A r \in RouteIds : weight_cache_valid_[r] => cached_total_weight_[r] = Total(targets_[r])

\* Whatever routes were added and removed, the route that serves a request has the
\* highest priority of those that match it, have a weight to give and whose
\* circuit did not refuse it.
HighestServes ==
    served # Nothing =>
        \A r \in ToSet(routes_) :
            (served.kind \in RouteMatches[r] /\ Total(targets_[r]) > 0 /\ ~circuit_open_[r])
                => Priority[served.route] >= Priority[r]

\* A target of weight 0 is never chosen.
WeightServes == served # Nothing => targets_[served.route][served.target] > 0

\* Who serves a request: a target with a weight, chosen by a total that is not
\* stale, of the route with the highest priority that takes it.
ServedRight == TotalFresh /\ HighestServes /\ WeightServes
=============================================================================
