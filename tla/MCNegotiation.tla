---------------------------- MODULE MCNegotiation ----------------------------
(* One seller and one price: what two overlapping requests and the cron do  *)
(* to one pair of rows.                                                     *)
EXTENDS Negotiation

MCOffers == {1}
==============================================================================
