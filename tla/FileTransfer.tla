---------------------------- MODULE FileTransfer ----------------------------
(***************************************************************************)
(* What the client and the server promise together, without connection,    *)
(* messages and keys: the files the client offers are taken in the order   *)
(* in which they were offered, and each is stored under its own name.      *)
(***************************************************************************)
EXTENDS Integers, Sequences

CONSTANTS
    Path,       \* the client's files
    BaseOf      \* the last part of a path, the name the server gives a file

VARIABLES
    offered,    \* the files sent, in order
    taken,      \* how many of them the server is done with
    stored      \* what is stored under each name

vars == <<offered, taken, stored>>

Init ==
    /\ offered = <<>> /\ taken = 0
    /\ stored \in [{BaseOf[p] : p \in Path} -> {{}}]

Offer == \E p \in Path :
    /\ offered' = Append(offered, p)
    /\ UNCHANGED <<taken, stored>>

\* A file whose name cannot be opened for writing is dropped.
Take ==
    /\ taken < Len(offered)
    /\ taken' = taken + 1
    /\ LET p == offered[taken + 1]
       IN stored' \in {stored, [stored EXCEPT ![BaseOf[p]] = {p}]}
    /\ UNCHANGED offered

Next == Offer \/ Take

Spec == Init /\ [][Next]_vars
=============================================================================
