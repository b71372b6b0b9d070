---------------------------- MODULE MCTransport ----------------------------
(* Calls, transporters and sellers are interchangeable.                      *)
EXTENDS Transport, TLC

Symmetry == Permutations(Calls) \cup Permutations(Transporters)
              \cup Permutations(Sellers)
=============================================================================
