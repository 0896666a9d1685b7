------------------------------ MODULE MCSeqMap ------------------------------
(* The sequence map alone: two clients whose numbers collide.              *)
EXTENDS SeqMap, TLC

CONSTANT MaxAllocated \* bound on the proxy numbers handed out

MCNext == SeqMapNext /\ nextSeq' <= MaxAllocated + 1

MCSpec == SeqMapInit /\ [][MCNext]_seqMapVars

Symmetry == Permutations(Clients)

=============================================================================
