---------------------------- MODULE RaftElection ----------------------------
(***************************************************************************)
(* Why Raft's elections are safe: the inductive invariant behind VoteOnce, *)
(* ElectionSafety and LeaderIsElected.                                     *)
(***************************************************************************)
EXTENDS Raft

\* A node in this term with this vote will not give another vote in v's term.
Pledged(term, vote, v) ==
    v.term < term \/ (v.term = term /\ vote = v.candidate)

\* A node that can write remembers every vote it ever gave ...
MemoryKeepsVotes ==
    \A v \in votes :
        fd[v.voter] => Pledged(currentTerm[v.voter], votedFor[v.voter], v)

\* ... and so does its file, for as long as the file can be replayed to its end.
DiskKeepsVotes ==
    \A v \in votes :
        disk[v.voter].ok => Pledged(disk[v.voter].term, disk[v.voter].votedFor, v)

\* A candidacy is announced only after its self-vote was written.
RequestsAreCampaigns ==
    \A m \in net : m.type = "RequestVote" => Vote(m.from, m.from, m.term) \in votes

\* A granting response stands for a vote in some election the receiver held.  Its
\* term is the one the voter had before, so it may be lower than the election's.
ResponsesAreVotes ==
    \A m \in net :
        m.type = "RequestVoteResponse" /\ m.voteGranted
            => \E t \in Term : /\ m.term <= t
                               /\ Vote(m.from, m.to, t) \in votes
                               /\ Vote(m.to, m.to, t) \in votes

\* The counters a candidate uses are those of an election it announced.
CountersAreVotes ==
    \A n \in Node :
        /\ role[n] = "CANDIDATE" => currentTerm[n] # 0
        /\ electionterm[n] # 0 => fd[n] /\ Vote(n, n, electionterm[n]) \in votes
        /\ n \notin votesGranted[n]
        /\ \A p \in votesGranted[n] : Vote(p, n, electionterm[n]) \in votes

\* Every election was won with the votes of a majority.
ElectedAreBacked ==
    \A e \in elected :
        \E S \in SUBSET Node :
            /\ e.leader \notin S
            /\ Cardinality(S) + 1 >= majority(Cardinality(Node))
            /\ \A p \in S \cup {e.leader} : Vote(p, e.leader, e.term) \in votes

\* Only the winner of a term sends AppendEntries in it.
VoicesAreElected ==
    \A m \in net :
        m.type = "AppendEntries" => [leader |-> m.from, term |-> m.term] \in elected

\* The facts that make VoteOnce, ElectionSafety and LeaderIsElected inductive: no
\* vote given by HandleRequestVoteRequest or raft_timeout is ever forgotten by a
\* node that could still vote, through failed writes and restarts, and every vote
\* HandleRequestVoteResponse counts was given in the election it is counted in.
ElectionInv ==
    /\ MemoryKeepsVotes
    /\ DiskKeepsVotes
    /\ RequestsAreCampaigns
    /\ ResponsesAreVotes
    /\ CountersAreVotes
    /\ ElectedAreBacked
    /\ VoicesAreElected
    /\ VoteOnce
    /\ LeaderIsElected
=============================================================================
