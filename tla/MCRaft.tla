------------------------------- MODULE MCRaft -------------------------------
(* Raft for TLC: nodes are interchangeable. *)
EXTENDS RaftCommit, TLC

NodeSymmetry == Permutations(Node)
=============================================================================
