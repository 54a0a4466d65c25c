---------------------------- MODULE MCQueueLease ----------------------------
EXTENDS QueueLease, TLC

Symmetric == Permutations(Workers)
=============================================================================
