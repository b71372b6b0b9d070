------------------------------ MODULE MCGrove ------------------------------
(* Either two rounds over one balance and nobody stakes, or one round and   *)
(* two blocks to stake in.  With a fee of one half, the fee on one share is *)
(* nothing and on two it is 1, so that the fees of single purchases and of  *)
(* a whole round differ; a harvest of 1 is less than a unit for each share, *)
(* one of 3 leaves dust.                                                    *)
EXTENDS Grove

VARIABLE scenario

MCPrices == {1}
MCSales == {1, 3}
MCFunds == {2}
MCRates == {0, 1}

MCInit == GroveInit /\ scenario \in {"rounds", "staking"}
MCNext == /\ GroveNext
          /\ scenario = "rounds" => UNCHANGED staking
          /\ scenario = "staking" => nextRoundId' <= 2
          /\ UNCHANGED scenario
MCSpec == MCInit /\ [][MCNext]_<<chain, scenario>>
=============================================================================
