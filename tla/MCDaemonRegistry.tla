-------------------------- MODULE MCDaemonRegistry --------------------------
(* DaemonRegistry for TLC: processes are interchangeable, and so are plants. *)
EXTENDS DaemonRegistry

ProcSymmetry == Permutations(Proc) \cup Permutations(Plant)
=============================================================================
