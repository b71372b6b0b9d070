--------------------------- MODULE RoutePlanning ---------------------------
(***************************************************************************)
(* The order in which a truck visits its pickups, as optimizeRoute of      *)
(* backend/src/transport/services/route-optimization.service.ts plans it:  *)
(* the nearest-neighbour route, its 2-opt improvement, the genetic search, *)
(* and the cache of routes.  The handler runs without an await, so one     *)
(* request is planned at a time; each turn of a loop is a step.  Positions *)
(* count from 1 where the code counts from 0.                              *)
(***************************************************************************)
EXTENDS Integers, Sequences

CONSTANTS Pickups, Warehouse, Delivery,
          Asked,        \* lists of pickups that requests may give
          Algorithms,   \* algorithms that requests may name
          Distances,    \* haversine distances between the stops
          Generations,  \* of the genetic search: 100 in the code
          NoAlgorithm

Places == Pickups \cup {Warehouse, Delivery}
Visited(s) == {s[k] : k \in DOMAIN s}
IsOrderOf(s, S) ==
  /\ s \in Seq(S) /\ Visited(s) = S
  /\ \A k, l \in DOMAIN s : s[k] = s[l] => k = l

\* Of requests with a pickup at least and none twice.  Nothing in the code sees
\* to that: the controller passes on the ids of the request and numbers those
\* that come without one (transport.controller.ts:278-282), so two may be equal.
\* The loops go by position and do not mind; crossover goes by id, and may then
\* drop a pickup.
ASSUME AskedAssumption ==
  \A asked \in Asked : Len(asked) > 0 /\ Visited(asked) \subseteq Pickups
                       /\ IsOrderOf(asked, Visited(asked))
Keys == {Visited(asked) : asked \in Asked}
ASSUME DistancesAssumption == Distances \subseteq [Places \X Places -> Nat]
ASSUME PlacesAssumption == NoAlgorithm \notin Pickups /\ Generations \in Nat
ASSUME AlgorithmsAssumption ==
  Algorithms \subseteq {"nearest_neighbor", "tsp_2opt", "genetic"}

VARIABLES dist,     \* of the two places; a key of the cache has the coordinates
          cache,    \* by the pickups of the request, in whatever order
          run,      \* the request that is planned
          answer    \* to the last request

routeVars == <<dist, cache, run, answer>>

NoRoute == [algorithm |-> NoAlgorithm, stops |-> <<>>]
NoRun == [pc |-> "idle", algorithm |-> NoAlgorithm, asked |-> <<>>, route |-> <<>>,
         nearest |-> <<>>, i |-> 1, j |-> 3, improved |-> FALSE, gen |-> 0]
NoAnswer == [algorithm |-> NoAlgorithm, asked |-> <<>>, nearest |-> <<>>,
             route |-> NoRoute]

haversineDistance(p, q) == dist[<<p, q>>]
Remaining == Visited(run.asked) \ Visited(run.route)
Length == Len(run.route)

(***************************************************************************)
(* A request.  A route in the cache is returned as it is.                  *)
(***************************************************************************)
fromCache(algorithm, asked) ==
  /\ run.pc = "idle" /\ cache[Visited(asked)] # NoRoute
  /\ answer' = [algorithm |-> algorithm, asked |-> asked, nearest |-> <<>>,
                route |-> cache[Visited(asked)]]
  /\ UNCHANGED <<dist, cache, run>>

optimizeRoute(algorithm, asked) ==
  /\ run.pc = "idle" /\ cache[Visited(asked)] = NoRoute
  /\ run' = [NoRun EXCEPT
       !.pc = IF algorithm = "genetic" /\ Len(asked) > 3 THEN "shuffle"
              ELSE "nearest",
       !.algorithm = algorithm, !.asked = asked]
  /\ UNCHANGED <<dist, cache, answer>>

\* CACHE_TTL has passed.
expires(stops) ==
  /\ run.pc = "idle" /\ cache[stops] # NoRoute
  /\ cache' = [cache EXCEPT ![stops] = NoRoute]
  /\ UNCHANGED <<dist, run, answer>>

(***************************************************************************)
(* nearestNeighbor: the stop closest to the last one, of two as close the  *)
(* one that was given first.                                               *)
(***************************************************************************)
Last == IF Length = 0 THEN Warehouse ELSE run.route[Length]
GivenBefore(p, q) ==
  \E k, l \in DOMAIN run.asked : k <= l /\ run.asked[k] = p /\ run.asked[l] = q

\* Mutant of Nearest: any stop that is left.
AnyLeft(p) == p \in Remaining

Nearest(p) ==
  /\ p \in Remaining
  /\ \A q \in Remaining :
       \/ haversineDistance(Last, p) < haversineDistance(Last, q)
       \/ haversineDistance(Last, p) = haversineDistance(Last, q) /\ GivenBefore(p, q)

nearestNeighbor ==
  /\ run.pc = "nearest"
  /\ \E p \in Remaining :
       Nearest(p) /\ run' = [run EXCEPT !.route = Append(run.route, p)]
  /\ UNCHANGED <<dist, cache, answer>>

nearestDone ==
  /\ run.pc = "nearest" /\ Remaining = {}
  /\ run' = [run EXCEPT !.nearest = run.route,
               !.pc = IF run.algorithm = "tsp_2opt" THEN "2opt" ELSE "plan"]
  /\ UNCHANGED <<dist, cache, answer>>

(***************************************************************************)
(* twoOptImprovement: the two loops over i and j.                          *)
(***************************************************************************)
\* The stops after i up to j are reversed.
twoOptSwap(s, i, j) ==
  [k \in 1..Len(s) |-> IF k \in (i + 1)..j THEN s[i + 1 + j - k] ELSE s[k]]

\* The leg into i and the leg out of j.
calculateSegmentDistance(s, i, j) ==
  haversineDistance(IF i = 1 THEN Warehouse ELSE s[i - 1], s[i])
    + haversineDistance(s[j], IF j = Len(s) THEN Delivery ELSE s[j + 1])

\* Mutant of Shorter: the same length will do.
NotLonger(s, t, i, j) ==
  calculateSegmentDistance(s, i, j) <= calculateSegmentDistance(t, i, j)

Shorter(s, t, i, j) ==
  calculateSegmentDistance(s, i, j) < calculateSegmentDistance(t, i, j)

\* The pair the loops come to next; i = Length when they are over.
AfterPair(i, j) == IF j < Length THEN [i |-> i, j |-> j + 1]
                   ELSE IF i + 3 <= Length THEN [i |-> i + 1, j |-> i + 3]
                   ELSE [i |-> Length, j |-> Length]

twoOptTry ==
  LET i == run.i
      j == run.j
      t == twoOptSwap(run.route, i, j)
      next == AfterPair(i, j)
      better == Shorter(t, run.route, i, j)
  IN  /\ run.pc = "2opt" /\ i < Length /\ j <= Length
      /\ run' = [run EXCEPT !.route = IF better THEN t ELSE run.route,
                   !.improved = run.improved \/ better,
                   !.i = next.i, !.j = next.j]
      /\ UNCHANGED <<dist, cache, answer>>

\* A round is over: another one if this one has changed something.
twoOptRound ==
  /\ run.pc = "2opt" /\ (run.i >= Length \/ run.j > Length)
  /\ run' = IF run.improved THEN [run EXCEPT !.i = 1, !.j = 3, !.improved = FALSE]
            ELSE [run EXCEPT !.pc = "plan"]
  /\ UNCHANGED <<dist, cache, answer>>

(***************************************************************************)
(* geneticAlgorithm.  Of the population the model keeps one member, which  *)
(* may be any: whom the distances let survive is left open.                *)
(***************************************************************************)
\* The orders of each set of pickups that is asked.
Orders == [S \in Keys |->
  {s \in [DOMAIN (CHOOSE asked \in Asked : Visited(asked) = S) -> S] :
     IsOrderOf(s, S)}]
OrdersAsked == Orders[Visited(run.asked)]

\* Mutant of crossover: what the first parent gave is not left out.
crossoverBlind(s, t, a, b) ==
  [k \in 1..Len(s) |-> IF k \in a..b THEN s[k] ELSE t[k]]

\* The stops of the second parent that the segment of the first does not have.
notUsed(s, t, a, b) ==
  LET rest[n \in 0..Len(t)] ==
        IF n = 0 THEN <<>>
        ELSE IF \E k \in a..b : s[k] = t[n] THEN rest[n - 1]
        ELSE Append(rest[n - 1], t[n])
  IN  rest[Len(t)]

\* A segment of one parent, and the other stops in the order of the other.
crossover(s, t, a, b) ==
  LET rest == notUsed(s, t, a, b)
  IN  [k \in 1..Len(s) |-> IF k \in a..b THEN s[k]
                           ELSE IF k < a THEN rest[k] ELSE rest[k - (b - a + 1)]]

mutate(s, k, l) == [s EXCEPT ![k] = s[l], ![l] = s[k]]

shuffleArray ==
  /\ run.pc = "shuffle"
  /\ \E s \in OrdersAsked : run' = [run EXCEPT !.route = s, !.pc = "breed"]
  /\ UNCHANGED <<dist, cache, answer>>

\* One generation: the member survives, or a child of two takes its place.
survives ==
  /\ run.pc = "breed" /\ run.gen < Generations
  /\ run' = [run EXCEPT !.gen = run.gen + 1]
  /\ UNCHANGED <<dist, cache, answer>>

isReplaced ==
  /\ run.pc = "breed" /\ run.gen < Generations
  /\ \E other \in OrdersAsked, a \in 1..Length : \E b \in a..Length :
       run' = [run EXCEPT !.pc = "child", !.gen = run.gen + 1,
                 !.route = crossover(run.route, other, a, b)]
  /\ UNCHANGED <<dist, cache, answer>>

\* A child may be mutated.
isBorn ==
  /\ run.pc = "child"
  /\ \/ run' = [run EXCEPT !.pc = "breed"]
     \/ \E k, l \in 1..Length :
          run' = [run EXCEPT !.pc = "breed", !.route = mutate(run.route, k, l)]
  /\ UNCHANGED <<dist, cache, answer>>

fittest ==
  /\ run.pc = "breed" /\ run.gen = Generations
  /\ run' = [run EXCEPT !.pc = "plan"]
  /\ UNCHANGED <<dist, cache, answer>>

-----------------------------------------------------------------------------
\* The route is cached and returned.
plan ==
  LET route == [algorithm |-> run.algorithm, stops |-> run.route]
  IN  /\ run.pc = "plan"
      /\ cache' = [cache EXCEPT ![Visited(run.asked)] = route]
      /\ answer' = [algorithm |-> run.algorithm, asked |-> run.asked,
                    nearest |-> run.nearest, route |-> route]
      /\ run' = NoRun
      /\ UNCHANGED dist

RouteInit ==
  /\ dist \in Distances
  /\ cache = [stops \in Keys |-> NoRoute]
  /\ run = NoRun
  /\ answer = NoAnswer

Compute == \/ nearestNeighbor \/ nearestDone \/ twoOptTry \/ twoOptRound
           \/ shuffleArray \/ survives \/ isReplaced \/ isBorn \/ fittest
           \/ plan

RouteNext ==
  \/ \E algorithm \in Algorithms, asked \in Asked :
       fromCache(algorithm, asked) \/ optimizeRoute(algorithm, asked)
  \/ \E stops \in Keys : expires(stops)
  \/ Compute

\* The loops run to their end: nothing else gets the thread before.
RouteSpec == RouteInit /\ [][RouteNext]_routeVars /\ WF_routeVars(Compute)

(***************************************************************************)
(* Properties.                                                             *)
(***************************************************************************)
\* Whatever the algorithm, however often segments are reversed and parents
\* crossed, and whether the route was planned now or comes from the cache:
\* the truck visits every pickup of the request once, and no other.
VisitsAsked ==
  answer # NoAnswer => IsOrderOf(answer.route.stops, Visited(answer.asked))

\* Where 2-opt ends: the first stop is one closest to the warehouse, and of
\* the stops after it none is closer to the one that follows j than stop j
\* is.  (The code compares the leg out of j with the one the reversal makes of
\* it, for every i, so that a last round without a change leaves no such pair.)
After(s, j) == IF j = Len(s) THEN Delivery ELSE s[j + 1]
SettledFromTheEnd ==
  LET s == answer.route.stops
  IN  answer.route.algorithm = "tsp_2opt" =>
        /\ \A k \in DOMAIN s :
             haversineDistance(Warehouse, s[1]) <= haversineDistance(Warehouse, s[k])
        /\ \A j \in DOMAIN s : \A k \in 2..(j - 1) :
             haversineDistance(s[j], After(s, j)) <= haversineDistance(s[k], After(s, j))

\* Every request is answered: the rounds of 2-opt come to an end although a
\* reversal that shortens the leg out of j may lengthen others.
Answers == (run.pc # "idle") ~> (run.pc = "idle")

RouteLength(s) ==
  LET f[k \in 0..Len(s)] ==
        IF k = 0 THEN 0
        ELSE f[k - 1] + haversineDistance(IF k = 1 THEN Warehouse ELSE s[k - 1], s[k])
  IN  f[Len(s)] + haversineDistance(s[Len(s)], Delivery)

\* transport-optimization.spec.ts:280: "2-opt should generally produce better or
\* equal results", toBeLessThanOrEqual the distance of the nearest neighbour.
TwoOptNotLonger ==
  (answer.nearest # <<>> /\ answer.algorithm = "tsp_2opt") =>
    RouteLength(answer.route.stops) <= RouteLength(answer.nearest)
=============================================================================
