------------------------------ MODULE RaftLog ------------------------------
(***************************************************************************)
(* Why the logs of Raft agree: the inductive invariant behind LogMatching  *)
(* and RestoreMatchesMemory.                                               *)
(***************************************************************************)
EXTENDS RaftElection

\* A run is a stretch of a log: its cells at the positions after `from', up to
\* `to', and the term the entry at `from' has (0 at the start of the log).
MemoryRun(n) == [from |-> 0, to |-> logLen[n], base |-> 0, cells |-> log[n]]

DiskRun(n) == [from |-> 0, to |-> disk[n].len, base |-> 0, cells |-> disk[n].log]

MessageRun(m) ==
    [from |-> m.prevLogIndex, to |-> m.prevLogIndex + Len(m.entries),
     base |-> IF m.prevLogIndex = 0 THEN 0 ELSE m.prevLogTerm,
     cells |-> [i \in m.prevLogIndex + 1 .. m.prevLogIndex + Len(m.entries) |->
                   m.entries[i - m.prevLogIndex]]]

\* Every stretch of a log there is: in memory, in a file, or under way.
Runs ==
    {MemoryRun(n) : n \in Node} \cup {DiskRun(n) : n \in Node}
        \cup {MessageRun(m) : m \in {k \in net : k.type = "AppendEntries"}}

TermAt(r, i) == IF i = r.from THEN r.base ELSE r.cells[i].term

Holds(r, k) == r.from < k /\ k <= r.to

\* Where both hold an entry of the same term, they agree up to it, as far down
\* as both go.
Agree(r, s) ==
    \A k \in 1 .. Lesser(r.to, s.to) :
        Holds(r, k) /\ Holds(s, k) /\ r.cells[k].term = s.cells[k].term
            => \A i \in 0 .. k :
                 /\ i >= r.from /\ i >= s.from => TermAt(r, i) = TermAt(s, i)
                 /\ i > r.from /\ i > s.from => r.cells[i] = s.cells[i]

RunsAgree == \A r, s \in Runs : Agree(r, s)

\* Every entry is in the cell of its index, and was made by the winner of its term.
RunsAreElected ==
    \A r \in Runs : \A k \in r.from + 1 .. r.to :
        /\ r.cells[k].index = k
        /\ \E e \in elected : e.term = r.cells[k].term

\* A leader holds every entry of its term.
LeaderHoldsTerm ==
    \A n \in Node : role[n] = "LEADER"
        => \A r \in Runs : \A k \in r.from + 1 .. r.to :
             r.cells[k].term = currentTerm[n] => k <= logLen[n]

\* A node counting votes has not won that election already.
CandidateIsFresh ==
    \A n \in Node :
        role[n] = "CANDIDATE" /\ electionterm[n] = currentTerm[n]
            => [leader |-> n, term |-> currentTerm[n]] \notin elected

\* As long as the file can be replayed, one of file and memory is a prefix of the
\* other, even in a node that went on after a failed write.
FileFollowsMemory ==
    \A n \in Node :
        disk[n].ok
            => \A i \in 1 .. Lesser(logLen[n], disk[n].len) : disk[n].log[i] = log[n][i]

\* The facts that make LogMatching and RestoreMatchesMemory inductive: what
\* HandleAppendEntriesRequest splices together, raft_leader_send_command appends and
\* restore_pstate reads back are all stretches of the logs of winners of elections, and
\* agree wherever they hold an entry of the same index and term.
LogInv ==
    /\ RestoreMatchesMemory
    /\ FileFollowsMemory
    /\ CandidateIsFresh
    /\ RunsAgree
    /\ RunsAreElected
    /\ LeaderHoldsTerm
=============================================================================
