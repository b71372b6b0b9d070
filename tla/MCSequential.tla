---------------------------- MODULE MCSequential ----------------------------
(* Two sellers, one of whom comes with a grade.  Two prices tell which of   *)
(* two offers was agreed to, and their sums tell which sellers count.       *)
EXTENDS SequentialNegotiation

MCOffers == {1, 3}
=============================================================================
