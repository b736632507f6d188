----------------------------- MODULE RaftCommit -----------------------------
(***************************************************************************)
(* Why what a leader of Raft counted as committed is never lost, as long   *)
(* as no write fails: the inductive invariant behind LeaderCompleteness,   *)
(* MatchIsDurable and DurableQuorum.  And when what the others take for    *)
(* committed is: the one behind StateMachineSafety.                        *)
(***************************************************************************)
EXTENDS RaftLog

\* No write has failed: every file can be written, and knows its node's term.
Undamaged ==
    \A n \in Node : fd[n] /\ role[n] # "FAILED" /\ disk[n].term = currentTerm[n]

-----------------------------------------------------------------------------
(* The terms in the logs *)

Requests == {m \in net : m.type = "AppendEntries"}

\* Every stretch of a log in memory or under way.
LogRuns == {MemoryRun(n) : n \in Node} \cup {MessageRun(m) : m \in Requests}

\* Terms never fall along a log.
Rises(r) == \A i, j \in r.from .. r.to : i <= j => TermAt(r, i) <= TermAt(r, j)

TermsRise == \A r \in LogRuns : Rises(r)

\* Every one of them was won.
TermsWon ==
    \A r \in LogRuns : \A i \in r.from .. r.to :
        TermAt(r, i) = 0 \/ \E e \in elected : e.term = TermAt(r, i)

\* None is later than that of the node, or the request, it is in.
TermsPast ==
    /\ \A n \in Node : \A i \in 0 .. logLen[n] : TermAt(MemoryRun(n), i) <= currentTerm[n]
    /\ \A m \in Requests : LET r == MessageRun(m)
                           IN \A i \in r.from .. r.to : TermAt(r, i) <= m.term

\* A leader's log goes as far as any position of its term.
LeaderIsAhead ==
    \A n \in Node : role[n] = "LEADER"
        => \A r \in LogRuns : \A i \in r.from .. r.to :
             TermAt(r, i) = currentTerm[n] => i <= logLen[n]

TermsInv == TermsRise /\ TermsWon /\ TermsPast /\ LeaderIsAhead

-----------------------------------------------------------------------------
(* What requests and responses stand for *)

\* Every vote was asked for.
VotesAreCampaigns ==
    \A v \in votes : Vote(v.candidate, v.candidate, v.term) \in votes

\* While its sender stands in that election, a request for votes shows its log.
RequestsShowLog ==
    \A m \in net : \A n \in Node :
        /\ m.type = "RequestVote" /\ m.from = n
        /\ role[n] = "CANDIDATE" /\ currentTerm[n] = m.term
        => m.lastLogIndex = logLen[n] /\ m.lastLogTerm = LastTerm(n)

\* p is a part of the run r.
PartOf(p, r) ==
    /\ r.from <= p.from /\ p.to <= r.to
    /\ p.base = TermAt(r, p.from)
    /\ \A k \in p.from + 1 .. p.to : p.cells[k] = r.cells[k]

\* While its sender leads in that term, a request is a part of its log, and it will
\* ask for no more than it has.
LeaderSpeaks ==
    \A n \in Node : role[n] = "LEADER"
        => /\ \A m \in Requests : m.from = n /\ m.term = currentTerm[n]
                => PartOf(MessageRun(m), MemoryRun(n))
           /\ \A p \in Node : nextIndex[n][p] <= logLen[n] + 1

\* How far q has told, or is telling, the leader n that it follows.
Acks(n, q) ==
    {matchIndex[n][q]} \cup
        {m.matchIndex : m \in {k \in net : /\ k.type = "AppendEntriesResponse"
                                           /\ k.from = q /\ k.to = n /\ k.success
                                           /\ k.term = currentTerm[n]}}

\* It does, as long as it is in the leader's term.
AcksHold ==
    \A n, q \in Node : role[n] = "LEADER" /\ n # q
        => \A a \in Acks(n, q) : a > 0
             => /\ a <= logLen[n]
                /\ currentTerm[q] >= currentTerm[n]
                /\ currentTerm[q] = currentTerm[n]
                     => a <= logLen[q] /\ \A i \in 1 .. a : log[q][i] = log[n][i]

\* A success is told to the winner of the term.
SuccessIsWon ==
    \A m \in net : m.type = "AppendEntriesResponse" /\ m.success
        => [leader |-> m.to, term |-> m.term] \in elected

TalkInv == VotesAreCampaigns /\ RequestsShowLog /\ LeaderSpeaks /\ AcksHold /\ SuccessIsWon

-----------------------------------------------------------------------------
(* An entry that is safe *)

HasEntry(n, e) == e.index <= logLen[n] /\ log[n][e.index] = e

\* A run that is as up to date as the entry e, in the order of checkLog, at some
\* position, has e; or starts after it, in no earlier term.
Covers(r, e) ==
    \A i \in r.from .. r.to :
        checkLog(i, TermAt(r, i), e.index, e.term)
            => /\ e.index <= i
               /\ IF e.index > r.from THEN r.cells[e.index] = e ELSE r.base >= e.term

\* No request of e's term or a later one would cut e out of a log that has it.
RequestsSpare(e) ==
    \A m \in Requests, n \in Node :
        m.term >= e.term /\ HasEntry(n, e)
            => \A i \in m.prevLogIndex .. m.prevLogIndex + Len(m.entries) :
                 i <= e.index => TermAt(MessageRun(m), i) = TermAt(MemoryRun(n), i)

\* Every leader since e's term has it.
LeadersHave(e) ==
    \A n \in Node : role[n] = "LEADER" /\ currentTerm[n] >= e.term => HasEntry(n, e)

Safe(e) ==
    /\ \A r \in LogRuns : Covers(r, e)
    /\ RequestsSpare(e)
    /\ LeadersHave(e)

\* The node q has e, and has voted, after e's term, for no candidate that might yet
\* win without it.
Supports(q, e) ==
    /\ HasEntry(q, e)
    /\ currentTerm[q] >= e.term
    /\ \A v \in votes : \A n \in Node :
         /\ v.voter = q /\ v.candidate = n /\ v.term > e.term
         /\ role[n] = "CANDIDATE" /\ currentTerm[n] = v.term
         => checkLog(logLen[n], LastTerm(n), e.index, e.term)

Majority == {Q \in SUBSET Node : Cardinality(Q) >= majority(Cardinality(Node))}

\* The leader n was told, or will be, that q has its log up to k.
Acked(n, q, k) == q = n \/ \E a \in Acks(n, q) : a >= k

\* An entry of its own term that a leader can still come to commit, with the acks of
\* a majority, is safe, and those who acked support it.
OpenIsSafe ==
    \A n \in Node, e \in Entry, Q \in Majority :
        /\ role[n] = "LEADER" /\ e.index > 0 /\ HasEntry(n, e) /\ e.term = currentTerm[n]
        /\ \A q \in Q : Acked(n, q, e.index) \/ currentTerm[q] <= e.term
        => Safe(e) /\ \A q \in Q : Acked(n, q, e.index) => Supports(q, e)

\* The entry e was counted by a leader of its term: it is safe and a majority
\* supports it.
Counted(e) == Safe(e) /\ \E Q \in Majority : \A q \in Q : Supports(q, e)

\* Whatever was committed was counted, or lies before what was.
CommittedIsSafe ==
    \A c \in committed : \E d \in committed :
        /\ d.at = c.at /\ d.entry.term = c.at
        /\ c.entry.index \in 1 .. d.entry.index
        /\ \A n \in Node : HasEntry(n, d.entry) => HasEntry(n, c.entry)
        /\ Counted(d.entry)

\* The facts that make LeaderCompleteness, MatchIsDurable and DurableQuorum inductive
\* while no write fails: an entry AdvanceCommitIndex_locked could still count is held by
\* everyone who told the leader so, has been voted for by none of them without, and is
\* in every log the voting rule of HandleRequestVoteRequest lets win.
CommitInv ==
    /\ Undamaged
    /\ TermsInv
    /\ TalkInv
    /\ OpenIsSafe
    /\ CommittedIsSafe

-----------------------------------------------------------------------------
(* What the others take for committed, and hand out *)

\* A leader, of the term t at the latest, committed e.
Known(e, t) == \E c \in committed : c.entry = e /\ c.at <= t

\* commitIndex is over entries a leader of the node's past committed.
CommitIndexIsKnown ==
    \A n \in Node :
        /\ commitIndex[n] <= logLen[n]
        /\ \A i \in 1 .. commitIndex[n] : Known(log[n][i], currentTerm[n])

\* The commit position in a request is over such entries too, as far as the request
\* goes.  One that was counted lies at or after it, and if prevLogIndex is no less
\* than its index, prevLogTerm is no less than its term.
RequestIsKnown(m) ==
    LET r == MessageRun(m)
    IN m.leaderCommit > 0
       => /\ \E d \in committed :
               /\ d.entry.term = d.at /\ d.at <= m.term
               /\ m.leaderCommit <= d.entry.index
               /\ d.entry.index <= r.from => d.at <= r.base
          /\ \A i \in 1 .. Lesser(m.leaderCommit, r.to) : \E c \in committed :
               /\ c.at <= m.term /\ c.entry.index = i
               /\ i > r.from => r.cells[i] = c.entry

\* What was handed out is committed.
AppliedIsKnown ==
    \A n \in Node :
        /\ Len(applied[n]) <= commitIndex[n]
        /\ \A i \in 1 .. Len(applied[n]) :
             \E c \in committed : c.entry = applied[n][i] /\ c.entry.index = i

\* The facts that make the rest of StateMachineSafety, and CommittedPrefixStable,
\* inductive while no write fails, up to the step that sets overran: commitIndex,
\* wherever HandleAppendEntriesRequest moves it, is over what a leader committed.
AppliedInv ==
    /\ CommitIndexIsKnown
    /\ \A m \in Requests : RequestIsKnown(m)
    /\ AppliedIsKnown
=============================================================================
