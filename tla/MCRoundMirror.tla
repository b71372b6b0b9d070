---------------------------- MODULE MCRoundMirror ----------------------------
(* Calls are interchangeable.                                                *)
EXTENDS RoundMirror, TLC

Symmetry == Permutations(Calls)
=============================================================================
