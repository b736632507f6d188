----------------------------- MODULE RaftStorage -----------------------------
(***************************************************************************)
(* What restore_pstate (raft.c:37-138) recovers from a node's log file.    *)
(*                                                                         *)
(* The file tmp/raft-<id>.log is append-only: STATE, TRUNCATE and ENTRY    *)
(* records, one per line.  A restart replays it from the top.  Since both  *)
(* appending and replaying go from the first record to the last, the file  *)
(* is represented by the result of replaying it (a "store"), and writing a *)
(* record is the replay step of that record.  `ok' becomes FALSE at the    *)
(* first record on which the replay gives up; nothing after it is read.    *)
(* A record is in the file whole or not at all: a torn last line is not    *)
(* modelled here.                                                          *)
(***************************************************************************)
EXTENDS Integers, Sequences

CONSTANTS
    Nil,        \* RAFT_NONE: no vote, no leader, no command
    LogCap      \* RAFT_LOG_CAP: cells of PersistentState.log

ASSUME LogCapAssumption == LogCap \in Nat \ {0}

\* A cell of a zeroed struct (memset in initialise_raft_sm).
ZeroEntry == [index |-> 0, term |-> 0, command |-> Nil]

\* The result of replaying a file that does not exist yet.  The log is an
\* array: cells past `len' keep what was last written in them.
EmptyStore ==
    [term |-> 0, votedFor |-> Nil,
     log |-> [i \in 1 .. LogCap |-> ZeroEntry], len |-> 0, ok |-> TRUE]

ReplayState_NoVote(d, term, vote) ==
    IF d.ok THEN [d EXCEPT !.term = term, !.votedFor = Nil] ELSE d

\* STATE <term> <vote>
ReplayState(d, term, vote) ==
    IF d.ok THEN [d EXCEPT !.term = term, !.votedFor = vote] ELSE d

\* TRUNCATE <from>: lowers the length, never raises it.
ReplayTruncate(d, from) ==
    IF d.ok /\ from <= d.len + 1 THEN [d EXCEPT !.len = from - 1] ELSE d

\* The array `cells' with the entries es written after its first len cells.
Extended(cells, len, es) ==
    [i \in 1 .. LogCap |->
        IF i \in len + 1 .. len + Len(es) THEN es[i - len] ELSE cells[i]]

\* One ENTRY record per member of es, whose indices are consecutive and at
\* most LogCap.  An index other than the next one ends the replay.
ReplayEntries(d, es) ==
    IF ~d.ok \/ es = <<>> THEN d
    ELSE IF es[1].index = d.len + 1
         THEN [d EXCEPT !.log = Extended(d.log, d.len, es), !.len = d.len + Len(es)]
         ELSE [d EXCEPT !.ok = FALSE]
==============================================================================
