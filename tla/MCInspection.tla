---------------------------- MODULE MCInspection ----------------------------
(* The state space is cut in three.  "calm": requests do not overlap.         *)
(* "overlap": two requests that have awaits overlap, about one inspection.    *)
(* "beside": requests without one meet a request that has them, and at most   *)
(* one result fails.  Calls and sellers are interchangeable.                  *)
EXTENDS Inspection, TLC

VARIABLE scenario

Symmetry == Permutations(Calls) \cup Permutations(Sellers)

InFlight == {c \in Calls : calls[c] # Idle}
MCInit == Init /\ scenario \in {"calm", "overlap", "beside"}
MCNext ==
  /\ Next
  /\ scenario = "calm" => calm' \/ Quiet'
  /\ scenario # "calm" => inspections'[I].status = "none"
  /\ scenario = "overlap" => Quiet \/ calls' # calls
  /\ scenario = "beside" => failed' < F /\ Cardinality(InFlight') <= 1
  /\ UNCHANGED scenario
MCSpec == MCInit /\ [][MCNext]_<<vars, scenario>>
=============================================================================
