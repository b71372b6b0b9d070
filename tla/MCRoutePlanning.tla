-------------------------- MODULE MCRoutePlanning --------------------------
(* Stops on a line (a meridian): every choice of places up to Span.  The    *)
(* genetic search does not look at distances in the model, so it is asked   *)
(* for one choice only, that of one place, and searches in the first        *)
(* request; the shorter list is only given to it.                           *)
EXTENDS RoutePlanning

CONSTANTS p1, p2, p3, p4, Span

Apart(x, y) == IF x < y THEN y - x ELSE x - y
Map(at) == [ab \in Places \X Places |-> Apart(at[ab[1]], at[ab[2]])]
Lines == {Map(at) : at \in [Places -> 0..Span]}
Flat == Map([a \in Places |-> 0])
Lists == {<<p1, p2, p3, p4>>, <<p2, p1>>}

InScope ==
  \/ run.pc = "idle"
  \/ run.algorithm = "genetic" /\ dist = Flat
     /\ (run.pc = "shuffle" => answer = NoAnswer)
  \/ run.algorithm # "genetic" /\ dist # Flat /\ run.asked # <<p2, p1>>

MCSpec == RouteInit /\ [][RouteNext /\ InScope']_routeVars /\ WF_routeVars(Compute)
=============================================================================
