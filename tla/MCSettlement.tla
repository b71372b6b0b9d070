---------------------------- MODULE MCSettlement ----------------------------
(* One trade, two settlements in flight, a request.  Either the admin's     *)
(* routes, failures and restarts meet the settlement, or all the writers of *)
(* the row do: both at once are more states than TLC can hold.              *)
EXTENDS TradeOperation

VARIABLE scenario

\* One lock empties the wallet or leaves enough for a second one.
MCPrice == 1
MCFunds == 2

MCInit == Init /\ scenario \in {"faults", "writers"}
MCNext == /\ \/ Core
             \/ scenario = "faults" /\ (escrowRoutes \/ Faults)
             \/ scenario = "writers" /\ OtherWriters
          /\ UNCHANGED scenario
MCSpec == MCInit /\ [][MCNext]_<<vars, scenario>>
=============================================================================
