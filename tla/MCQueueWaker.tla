---------------------------- MODULE MCQueueWaker ----------------------------
(* Instances of QueueWaker for TLC.                                        *)
EXTENDS QueueWaker

(* Waiters are interchangeable.  Jobs are not: a sweep returns them in an  *)
(* order, which SetToSeq fixes.                                            *)
Symmetry == Permutations(Waiters)

=============================================================================
