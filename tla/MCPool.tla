------------------------------- MODULE MCPool -------------------------------
(* Instances of Pool for TLC.                                              *)
EXTENDS Pool, TLC

(* Callers are interchangeable, and so are session names.                  *)
Symmetry == Permutations(Clients) \cup Permutations(Conns)

=============================================================================
