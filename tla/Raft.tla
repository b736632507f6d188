--------------------------------- MODULE Raft ---------------------------------
(***************************************************************************)
(* The replicated state machine of src/tetrish/system_programs/raft.c: the *)
(* election, log replication, commitment and persistence of a group of     *)
(* tetrisd nodes.                                                          *)
(*                                                                         *)
(* Every exported handler takes the node's mutex for its whole body, so a  *)
(* handler is one action.  A handler returns the messages it wants sent;   *)
(* tetrisd, whose transport is not written yet, is to carry them.  The     *)
(* transport here (external) delays and reorders messages and, when Lossy,  *)
(* loses and repeats them.                                                 *)
(***************************************************************************)
EXTENDS Integers, Sequences, FiniteSets, RaftStorage

CONSTANTS
    Node,           \* the members of the group
    Command,        \* client commands
    Batch,          \* RAFT_APPEND_BATCH
    OutCap,         \* out_cap of raft_commit_entry's caller
    MaxTerm,        \* bound: no election is started in this term
    MaxElections,   \* bound: elections started
    MaxCrashes,     \* bound: restarts
    MaxFaults,      \* bound: handler calls hit by a failing write or sync
    MaxInFlight,    \* bound: messages in flight
    Lossy,          \* TRUE: the transport may lose and repeat messages
    UseHeartbeat    \* TRUE: the caller sends heartbeat_tick's messages too

ASSUME NodeAssumption == Node # {} /\ IsFiniteSet(Node) /\ Nil \notin Node
ASSUME CommandAssumption == Nil \notin Command
ASSUME BoundAssumption ==
    /\ Batch \in Nat \ {0} /\ OutCap \in Nat \ {0}
    /\ MaxTerm \in Nat /\ MaxElections \in Nat /\ MaxCrashes \in Nat /\ MaxFaults \in Nat
    /\ MaxInFlight \in Nat
    /\ Lossy \in BOOLEAN /\ UseHeartbeat \in BOOLEAN

VARIABLES
    role,           \* r->state
    leaderId,       \* r->leader_id
    currentTerm,    \* r->pstate.currentTerm
    votedFor,       \* r->pstate.votedFor
    log,            \* r->pstate.log, RAFT_LOG_CAP cells
    logLen,         \* r->pstate.log_len
    commitIndex,    \* r->vstate.commitIndex
    applied,        \* what raft_commit_entry handed out; its length is lastApplied
    electionterm,   \* r->cstate.electionterm
    votesResponded, \* r->cstate.votes_responded, the peers whose flag is set
    votesGranted,   \* r->cstate.votes_granted, likewise
    nextIndex,      \* r->lstate.next_index
    matchIndex,     \* r->lstate.match_index
    fd,             \* r->log_file is an open descriptor
    disk,           \* the log file, as the result of replaying it
    net,            \* messages in flight
    votes,          \* [voter, candidate, term]: every vote given (history)
    elected,        \* [leader, term]: every election won (history)
    committed,      \* [entry, at]: what a leader of term `at' committed (history)
    overran,        \* a commitIndex went past what its request covered (history)
    elections,      \* elections started so far
    crashes,        \* restarts so far
    faults          \* handler calls hit by a storage failure so far

pstate == <<currentTerm, votedFor, log, logLen>>
cstate == <<electionterm, votesResponded, votesGranted>>
lstate == <<nextIndex, matchIndex>>
history == <<votes, elected, committed, overran>>
budget == <<elections, crashes, faults>>
vars == <<role, leaderId, pstate, commitIndex, applied, cstate, lstate,
          fd, disk, net, history, budget>>

-------------------------------------------------------------------------------
(* Values *)

Role == {"FOLLOWER", "CANDIDATE", "LEADER", "FAILED"}

Term == 0 .. MaxTerm
Index == 0 .. LogCap
Entry == [index : Index, term : Term, command : Command \cup {Nil}]
Cells == [1 .. LogCap -> Entry]
Store == [term : Term, votedFor : Node \cup {Nil}, log : Cells, len : Index,
          ok : BOOLEAN]

RequestVote ==
    [type : {"RequestVote"}, from : Node, to : Node, term : Term,
     lastLogIndex : Index, lastLogTerm : Term]
RequestVoteResponse ==
    [type : {"RequestVoteResponse"}, from : Node, to : Node, term : Term,
     voteGranted : BOOLEAN]
AppendEntries ==
    [type : {"AppendEntries"}, from : Node, to : Node, term : Term,
     prevLogIndex : Index, prevLogTerm : Term, leaderCommit : Index,
     entries : Seq(Entry)]
AppendEntriesResponse ==
    [type : {"AppendEntriesResponse"}, from : Node, to : Node, term : Term,
     success : BOOLEAN, matchIndex : Index]
Message == RequestVote \cup RequestVoteResponse \cup AppendEntries
               \cup AppendEntriesResponse

-------------------------------------------------------------------------------
(* Local calculations *)

\* r->peers, which tetrisd fills in (external): everyone else in the group.
Peers(n) == Node \ {n}

majority_OffByOne(n) == n \div 2
majority(n) == (n \div 2) + 1

Lesser(a, b) == IF a < b THEN a ELSE b

LastTerm(n) == IF logLen[n] = 0 THEN 0 ELSE log[n][logLen[n]].term

checkLog_Lenient(reqLogIdx, reqLogTerm, lastIdx, lastTerm) == reqLogTerm >= lastTerm

\* The candidate's log is at least as up to date as the voter's.
checkLog(reqLogIdx, reqLogTerm, lastIdx, lastTerm) ==
    IF reqLogTerm # lastTerm THEN reqLogTerm > lastTerm ELSE reqLogIdx >= lastIdx

\* find_peer_idx # SIZE_MAX
KnownPeer(n, p) == p \in Peers(n)

-------------------------------------------------------------------------------
(* Storage.  A persist_* call either succeeds, or reports a failure after    *)
(* which the record may be in the file (fdatasync failed: "written") or not  *)
(* (dprintf failed: "lost").  With no open descriptor every call fails.      *)

Outcome(n) ==
    IF fd[n]
    THEN {"ok"} \cup (IF faults < MaxFaults THEN {"lost", "written"} ELSE {})
    ELSE {"lost"}

\* The file after a call with this outcome.
Persisted(io, before, after) == IF io = "lost" THEN before ELSE after

\* Failures that come from a missing descriptor are not charged to the budget.
Charge(n, hit) == faults' = IF hit /\ fd[n] THEN faults + 1 ELSE faults

-------------------------------------------------------------------------------
(* The transport *)

Send(ms) ==
    /\ net' = net \cup ms
    /\ Cardinality(net') <= MaxInFlight

\* Take m in and send ms.  A message that may be repeated stays until lost.
Answer(m, ms) ==
    /\ net' = (IF Lossy THEN net ELSE net \ {m}) \cup ms
    /\ Cardinality(net') <= MaxInFlight

Lose(m) ==
    /\ Lossy
    /\ net' = net \ {m}
    /\ UNCHANGED <<role, leaderId, pstate, commitIndex, applied, cstate, lstate,
                   fd, disk, history, budget>>

Inbox(n, type) == {m \in net : m.to = n /\ m.type = type}

-------------------------------------------------------------------------------
(* initialise_raft_sm on an empty file, for every node *)

Init ==
    /\ role = [n \in Node |-> "FOLLOWER"]
    /\ leaderId = [n \in Node |-> Nil]
    /\ currentTerm = [n \in Node |-> 0]
    /\ votedFor = [n \in Node |-> Nil]
    /\ log = [n \in Node |-> EmptyStore.log]
    /\ logLen = [n \in Node |-> 0]
    /\ commitIndex = [n \in Node |-> 0]
    /\ applied = [n \in Node |-> <<>>]
    /\ electionterm = [n \in Node |-> 0]
    /\ votesResponded = [n \in Node |-> {}]
    /\ votesGranted = [n \in Node |-> {}]
    /\ nextIndex = [n \in Node |-> [p \in Node |-> 0]]
    /\ matchIndex = [n \in Node |-> [p \in Node |-> 0]]
    /\ fd = [n \in Node |-> TRUE]
    /\ disk = [n \in Node |-> EmptyStore]
    /\ net = {} /\ votes = {} /\ elected = {} /\ committed = {} /\ overran = FALSE
    /\ elections = 0 /\ crashes = 0 /\ faults = 0

-------------------------------------------------------------------------------
(* Elections *)

\* raft_init_leader_state
BecomeLeader(n, term) ==
    /\ role' = [role EXCEPT ![n] = "LEADER"]
    /\ leaderId' = [leaderId EXCEPT ![n] = n]
    /\ nextIndex' = [nextIndex EXCEPT ![n] = [p \in Node |-> logLen[n] + 1]]
    /\ matchIndex' = [matchIndex EXCEPT ![n] = [p \in Node |-> 0]]
    /\ elected' = elected \cup {[leader |-> n, term |-> term]}

Vote(voter, candidate, term) ==
    [voter |-> voter, candidate |-> candidate, term |-> term]

VoteRequests(n, term) ==
    {[type |-> "RequestVote", from |-> n, to |-> p, term |-> term,
      lastLogIndex |-> logLen[n], lastLogTerm |-> LastTerm(n)] : p \in Peers(n)}

\* A failed write leaves the node a candidate of the new term with the vote
\* counters of its previous election.
StartElection(n, io) ==
    LET term == currentTerm[n] + 1
        alone == majority(Cardinality(Node)) = 1
    IN /\ currentTerm' = [currentTerm EXCEPT ![n] = term]
       /\ votedFor' = [votedFor EXCEPT ![n] = n]
       /\ disk' = [disk EXCEPT ![n] = Persisted(io, @, ReplayState(@, term, n))]
       /\ Charge(n, io # "ok")
       /\ IF io = "ok"
          THEN /\ electionterm' = [electionterm EXCEPT ![n] = term]
               /\ votesResponded' = [votesResponded EXCEPT ![n] = {}]
               /\ votesGranted' = [votesGranted EXCEPT ![n] = {}]
               /\ votes' = votes \cup {Vote(n, n, term)}
          ELSE UNCHANGED <<cstate, votes>>
       /\ IF io = "ok" /\ alone
          THEN BecomeLeader(n, term)
          ELSE /\ role' = [role EXCEPT ![n] = "CANDIDATE"]
               /\ leaderId' = [leaderId EXCEPT ![n] = Nil]
               /\ UNCHANGED <<lstate, elected>>
       /\ Send(IF io = "ok" /\ ~alone THEN VoteRequests(n, term) ELSE {})

\* The election timer, a random delay restarted by contact with a leader and
\* by granting a vote, may run out at any time.  The caller's out[] has room
\* for a message to every peer.
raft_timeout(n) ==
    /\ role[n] \notin {"FAILED", "LEADER"}
    /\ currentTerm[n] < MaxTerm
    /\ elections < MaxElections
    /\ elections' = elections + 1
    /\ \E io \in Outcome(n) : StartElection(n, io)
    /\ UNCHANGED <<log, logLen, commitIndex, applied, fd, committed, overran, crashes>>

\* The counters of an abandoned candidacy or leadership are zeroed, unless the
\* new term could not be written (update_term_locked returns first).
ClearCounters(n, clear) ==
    /\ electionterm' = [electionterm EXCEPT ![n] = IF clear THEN 0 ELSE @]
    /\ votesResponded' = [votesResponded EXCEPT ![n] = IF clear THEN {} ELSE @]
    /\ votesGranted' = [votesGranted EXCEPT ![n] = IF clear THEN {} ELSE @]
    /\ nextIndex' = [nextIndex EXCEPT ![n] = IF clear THEN [p \in Node |-> 0] ELSE @]
    /\ matchIndex' = [matchIndex EXCEPT ![n] = IF clear THEN [p \in Node |-> 0] ELSE @]

Demoted_Never(n, io) == role[n]

\* r->state after update_term_locked: FAILED stays FAILED.
Demoted(n, io) ==
    IF role[n] = "FAILED" \/ io # "ok" THEN "FAILED" ELSE "FOLLOWER"

update_term_locked(n, term, io) ==
    /\ role' = [role EXCEPT ![n] = Demoted(n, io)]
    /\ currentTerm' = [currentTerm EXCEPT ![n] = term]
    /\ votedFor' = [votedFor EXCEPT ![n] = Nil]
    /\ leaderId' = [leaderId EXCEPT ![n] = Nil]
    /\ disk' = [disk EXCEPT ![n] = Persisted(io, @, ReplayState(@, term, Nil))]
    /\ Charge(n, io # "ok")
    /\ ClearCounters(n, io = "ok")

\* A response of a newer term ends its handler there.
StepDown(n, term) ==
    /\ \E io \in Outcome(n) : update_term_locked(n, term, io)
    /\ UNCHANGED <<log, logLen, commitIndex, applied, fd, history, elections, crashes>>

Newer(n, m) == m.term > currentTerm[n]

\* The node's vote once it has adopted the request's term.
CurrentVote(n, m) == IF Newer(n, m) THEN Nil ELSE votedFor[n]

Willing(n, m) ==
    /\ m.term >= currentTerm[n]
    /\ Newer(n, m) \/ role[n] # "LEADER"
    /\ CurrentVote(n, m) \in {Nil, m.from}
    /\ checkLog(m.lastLogIndex, m.lastLogTerm, logLen[n], LastTerm(n))

\* The request's term is adopted first (ioTerm: that write's outcome), and the
\* handler goes on even if that failed.  The vote is then written (ioVote)
\* before it is given.  The response carries the term read on entry.
ConsiderVote(n, m, ioTerm, ioVote) ==
    LET newer == Newer(n, m)
        term == IF newer THEN m.term ELSE currentTerm[n]
        file == IF newer
                THEN Persisted(ioTerm, disk[n], ReplayState(disk[n], term, Nil))
                ELSE disk[n]
        granted == Willing(n, m) /\ ioVote = "ok"
    IN /\ currentTerm' = [currentTerm EXCEPT ![n] = term]
       /\ votedFor' = [votedFor EXCEPT ![n] =
                           IF Willing(n, m) THEN m.from ELSE CurrentVote(n, m)]
       /\ leaderId' = [leaderId EXCEPT ![n] = IF newer THEN Nil ELSE @]
       /\ role' = [role EXCEPT ![n] =
                       IF ioVote # "ok" THEN "FAILED"
                       ELSE IF newer THEN Demoted(n, ioTerm) ELSE @]
       /\ disk' = [disk EXCEPT ![n] =
                       IF Willing(n, m)
                       THEN Persisted(ioVote, file, ReplayState(file, term, m.from))
                       ELSE file]
       /\ Charge(n, ioTerm # "ok" \/ ioVote # "ok")
       /\ ClearCounters(n, newer /\ ioTerm = "ok")
       /\ votes' = IF granted THEN votes \cup {Vote(n, m.from, term)} ELSE votes
       /\ Answer(m, {[type |-> "RequestVoteResponse", from |-> n, to |-> m.from,
                      term |-> currentTerm[n], voteGranted |-> granted]})

HandleRequestVoteRequest(n) ==
    /\ \E m \in Inbox(n, "RequestVote") :
         \E ioTerm \in IF Newer(n, m) THEN Outcome(n) ELSE {"ok"},
            ioVote \in IF Willing(n, m) THEN Outcome(n) ELSE {"ok"} :
           ConsiderVote(n, m, ioTerm, ioVote)
    /\ UNCHANGED <<log, logLen, commitIndex, applied, fd, elected, committed,
                   overran, elections, crashes>>

\* A response counts once per peer, and only in the election it answers.
CountsVote(n, m) ==
    /\ role[n] = "CANDIDATE"
    /\ m.term = currentTerm[n]
    /\ m.term = electionterm[n]
    /\ KnownPeer(n, m.from)
    /\ m.from \notin votesResponded[n]

CountVote(n, m) ==
    LET granted == IF m.voteGranted THEN votesGranted[n] \cup {m.from}
                                    ELSE votesGranted[n]
    IN /\ votesResponded' = [votesResponded EXCEPT ![n] = @ \cup {m.from}]
       /\ votesGranted' = [votesGranted EXCEPT ![n] = granted]
       /\ IF Cardinality(granted) + 1 >= majority(Cardinality(Node))
          THEN BecomeLeader(n, currentTerm[n])
          ELSE UNCHANGED <<role, leaderId, lstate, elected>>
       /\ UNCHANGED <<pstate, commitIndex, applied, electionterm, fd, disk,
                      votes, committed, overran, budget>>

IgnoreResponse ==
    UNCHANGED <<role, leaderId, pstate, commitIndex, applied, cstate, lstate,
                fd, disk, history, budget>>

HandleRequestVoteResponse(n) ==
    \E m \in Inbox(n, "RequestVoteResponse") :
      /\ Answer(m, {})
      /\ \/ Newer(n, m) /\ StepDown(n, m.term)
         \/ CountsVote(n, m) /\ CountVote(n, m)
         \/ ~Newer(n, m) /\ ~CountsVote(n, m) /\ IgnoreResponse

-------------------------------------------------------------------------------
(* Replication: the leader's side *)

\* The payload raft_append_entries builds for peer p: what follows
\* next_index - 1, at most a batch.
AppendRequest(n, p) ==
    LET prev == nextIndex[n][p] - 1
        count == Lesser(Batch, IF prev < logLen[n] THEN logLen[n] - prev ELSE 0)
    IN [type |-> "AppendEntries", from |-> n, to |-> p, term |-> currentTerm[n],
        prevLogIndex |-> prev,
        prevLogTerm |-> IF prev > 0 THEN log[n][prev].term ELSE 0,
        leaderCommit |-> commitIndex[n],
        entries |-> [i \in 1 .. count |-> log[n][prev + i]]]

raft_append_entries(n, p) ==
    /\ role[n] = "LEADER"
    /\ KnownPeer(n, p)
    /\ Send({AppendRequest(n, p)})
    /\ UNCHANGED <<role, leaderId, pstate, commitIndex, applied, cstate, lstate,
                   fd, disk, history, budget>>

\* An empty request that claims to follow index 0, for every peer.
heartbeat_tick(n) ==
    /\ UseHeartbeat
    /\ role[n] = "LEADER"
    /\ Send({[type |-> "AppendEntries", from |-> n, to |-> p, term |-> currentTerm[n],
              prevLogIndex |-> 0, prevLogTerm |-> 0,
              leaderCommit |-> commitIndex[n], entries |-> <<>>] : p \in Peers(n)})
    /\ UNCHANGED <<role, leaderId, pstate, commitIndex, applied, cstate, lstate,
                   fd, disk, history, budget>>

\* Move commitIndex to k, and remember what that committed.
Commit(n, k, cells) ==
    /\ commitIndex' = [commitIndex EXCEPT ![n] = k]
    /\ committed' = committed \cup
           {[entry |-> cells[i], at |-> currentTerm[n]] : i \in commitIndex[n] + 1 .. k}

\* The entry is written to the file, then to memory.  A lone server commits it
\* at once.
AcceptCommand(n, c, io) ==
    LET k == logLen[n] + 1
        entry == [index |-> k, term |-> currentTerm[n], command |-> c]
        cells == [log[n] EXCEPT ![k] = entry]
    IN /\ disk' = [disk EXCEPT ![n] = Persisted(io, @, ReplayEntries(@, <<entry>>))]
       /\ Charge(n, io # "ok")
       /\ IF io = "ok"
          THEN /\ log' = [log EXCEPT ![n] = cells]
               /\ logLen' = [logLen EXCEPT ![n] = k]
               /\ IF majority(Cardinality(Node)) = 1
                  THEN Commit(n, k, cells)
                  ELSE UNCHANGED <<commitIndex, committed>>
               /\ UNCHANGED role
          ELSE /\ role' = [role EXCEPT ![n] = "FAILED"]
               /\ UNCHANGED <<log, logLen, commitIndex, committed>>

raft_leader_send_command(n) ==
    /\ role[n] = "LEADER"
    /\ logLen[n] < LogCap
    /\ \E c \in Command, io \in Outcome(n) : AcceptCommand(n, c, io)
    /\ UNCHANGED <<leaderId, currentTerm, votedFor, applied, cstate, lstate,
                   fd, net, votes, elected, overran, elections, crashes>>

Replicated_OffByOne(n, match) ==
    {k \in commitIndex[n] + 1 .. logLen[n] :
        /\ log[n][k].term = currentTerm[n]
        /\ Cardinality({p \in Peers(n) : match[p] + 1 >= k}) + 1
               >= majority(Cardinality(Node))}

\* AdvanceCommitIndex_locked: the indices of this term's entries that enough
\* peers are known to hold.
Replicated(n, match) ==
    {k \in commitIndex[n] + 1 .. logLen[n] :
        /\ log[n][k].term = currentTerm[n]
        /\ Cardinality({p \in Peers(n) : match[p] >= k}) + 1
               >= majority(Cardinality(Node))}

Moves_ByTwo(n, m) == nextIndex[n][m.from] + 1 < m.matchIndex

\* The peer's progress is recorded only if it passes next_index.
Moves(n, m) == nextIndex[n][m.from] < m.matchIndex

PeerAccepted(n, m) ==
    LET match == IF Moves(n, m) THEN [matchIndex[n] EXCEPT ![m.from] = m.matchIndex]
                                ELSE matchIndex[n]
    IN /\ matchIndex' = [matchIndex EXCEPT ![n] = match]
       /\ nextIndex' = [nextIndex EXCEPT ![n][m.from] =
                            IF Moves(n, m) THEN m.matchIndex + 1 ELSE @]
       /\ \/ /\ Replicated(n, match) = {}
             /\ UNCHANGED <<commitIndex, committed>>
          \/ \E k \in Replicated(n, match) :
                /\ \A j \in Replicated(n, match) : j <= k
                /\ Commit(n, k, log[n])

PeerRefused_Unguarded(n, m) ==
    /\ nextIndex' = [nextIndex EXCEPT ![n][m.from] = @ - 1]
    /\ UNCHANGED <<matchIndex, commitIndex, committed>>

PeerRefused(n, m) ==
    /\ nextIndex' = [nextIndex EXCEPT ![n][m.from] = IF @ > 1 THEN @ - 1 ELSE @]
    /\ UNCHANGED <<matchIndex, commitIndex, committed>>

HandleAppendEntriesResponse(n) ==
    \E m \in Inbox(n, "AppendEntriesResponse") :
      /\ Answer(m, {})
      /\ \/ (role[n] # "LEADER" \/ m.term < currentTerm[n]) /\ IgnoreResponse
         \/ role[n] = "LEADER" /\ Newer(n, m) /\ StepDown(n, m.term)
         \/ /\ role[n] = "LEADER" /\ m.term = currentTerm[n] /\ KnownPeer(n, m.from)
            /\ IF m.success THEN PeerAccepted(n, m) ELSE PeerRefused(n, m)
            /\ UNCHANGED <<role, leaderId, pstate, applied, cstate, fd, disk, votes, elected,
                           overran, budget>>

-------------------------------------------------------------------------------
(* Replication: the follower's side.  The loop of HandleAppendEntriesRequest  *)
(* in closed form: the entries pass its checks up to position `last', and the *)
(* first one that has to be written is at position `first'.                   *)

\* The entry is the one expected at this position, and there is a cell for it.
Expected(m, i) ==
    /\ m.entries[i].index = m.prevLogIndex + i
    /\ m.prevLogIndex + i <= LogCap

Present_AnyTerm(n, m, i) == m.prevLogIndex + i <= logLen[n]

\* Memory already holds an entry of the same index and term.
Present(n, m, i) ==
    /\ m.prevLogIndex + i <= logLen[n]
    /\ log[n][m.prevLogIndex + i].term = m.entries[i].term

Scan(n, m, first, last) ==
    /\ \A i \in 1 .. last : Expected(m, i)
    /\ last < Len(m.entries) => ~Expected(m, last + 1)
    /\ \A i \in 1 .. first - 1 : Present(n, m, i)
    /\ first <= last => ~Present(n, m, first)

Conflict_Unrecorded(n, m, first) == FALSE

\* The entry to write contradicts one in memory, which goes first.
Conflict(n, m, first) == m.prevLogIndex + first <= logLen[n]

\* The leader's entry before the batch is in the log.
PrevMatches(n, m) ==
    /\ m.prevLogIndex <= logLen[n]
    /\ m.prevLogIndex > 0 => log[n][m.prevLogIndex].term = m.prevLogTerm

AppendReply_OwnLast(n, m, term, success) ==
    Answer(m, {[type |-> "AppendEntriesResponse", from |-> n, to |-> m.from,
                term |-> term, success |-> success,
                matchIndex |-> IF success THEN logLen'[n] ELSE 0]})

AppendReply(n, m, term, success) ==
    Answer(m, {[type |-> "AppendEntriesResponse", from |-> n, to |-> m.from,
                term |-> term, success |-> success,
                matchIndex |-> IF success THEN m.prevLogIndex + Len(m.entries) ELSE 0]})

\* The request is of the node's term or a newer one, which is written first;
\* its sender is the leader.  `failed': a later write of this call failed.
Follow(n, m, failed) ==
    /\ m.term >= currentTerm[n]
    /\ Newer(n, m) => fd[n]
    /\ role' = [role EXCEPT ![n] =
                    IF failed \/ @ = "FAILED" THEN "FAILED" ELSE "FOLLOWER"]
    /\ leaderId' = [leaderId EXCEPT ![n] = m.from]
    /\ currentTerm' = [currentTerm EXCEPT ![n] = m.term]
    /\ votedFor' = [votedFor EXCEPT ![n] = CurrentVote(n, m)]
    /\ ClearCounters(n, Newer(n, m))
    /\ Charge(n, failed)

\* The file after Follow, before the entries.
FollowFile(n, m) ==
    IF Newer(n, m) THEN ReplayState(disk[n], m.term, Nil) ELSE disk[n]

CutFile(n, m, first) ==
    IF Conflict(n, m, first)
    THEN ReplayTruncate(FollowFile(n, m), m.prevLogIndex + first)
    ELSE FollowFile(n, m)

\* The request is older than the node's term.
AppendStale(n, m) ==
    /\ m.term < currentTerm[n]
    /\ AppendReply(n, m, currentTerm[n], FALSE)
    /\ UNCHANGED <<role, leaderId, pstate, commitIndex, applied, cstate, lstate,
                   fd, disk, history, budget>>

\* The newer term could not be written: the response has the old one.
AppendTermFault(n, m) ==
    /\ Newer(n, m)
    /\ \E io \in Outcome(n) \ {"ok"} :
         disk' = [disk EXCEPT ![n] = Persisted(io, @, ReplayState(@, m.term, Nil))]
    /\ role' = [role EXCEPT ![n] = "FAILED"]
    /\ currentTerm' = [currentTerm EXCEPT ![n] = m.term]
    /\ votedFor' = [votedFor EXCEPT ![n] = Nil]
    /\ leaderId' = [leaderId EXCEPT ![n] = Nil]
    /\ Charge(n, TRUE)
    /\ AppendReply(n, m, currentTerm[n], FALSE)
    /\ UNCHANGED <<log, logLen, commitIndex, applied, cstate, lstate, fd,
                   history, elections, crashes>>

AppendMismatch(n, m) ==
    /\ Follow(n, m, FALSE)
    /\ ~PrevMatches(n, m)
    /\ disk' = [disk EXCEPT ![n] = FollowFile(n, m)]
    /\ AppendReply(n, m, m.term, FALSE)
    /\ UNCHANGED <<log, logLen, commitIndex, applied, fd, history, elections, crashes>>

\* The loop writes the entries first .. last to the file and to memory.  It ran
\* to its end if that was the last entry; then the leader's commit position is
\* adopted, as far as the log goes: not as far as the request does, behind which
\* the log may have a tail that no one has compared with the leader's (overran).
StoreEntries(n, m, first, last) ==
    LET new == SubSeq(m.entries, first, last)
        len == IF first <= last THEN m.prevLogIndex + last ELSE logLen[n]
        success == last = Len(m.entries)
    IN /\ first <= last => fd[n]
       /\ log' = [log EXCEPT ![n] = Extended(@, m.prevLogIndex + first - 1, new)]
       /\ logLen' = [logLen EXCEPT ![n] = len]
       /\ disk' = [disk EXCEPT ![n] =
                       IF first <= last
                       THEN ReplayEntries(CutFile(n, m, first), new)
                       ELSE FollowFile(n, m)]
       /\ commitIndex' = [commitIndex EXCEPT ![n] =
                              IF success /\ m.leaderCommit > @
                              THEN Lesser(m.leaderCommit, len) ELSE @]
       /\ overran' = (overran \/ (/\ commitIndex'[n] > commitIndex[n]
                                 /\ commitIndex'[n] > m.prevLogIndex + Len(m.entries)))
       /\ AppendReply(n, m, m.term, success)

AppendStored(n, m) ==
    /\ Follow(n, m, FALSE)
    /\ PrevMatches(n, m)
    /\ \E last \in 0 .. Len(m.entries) : \E first \in 1 .. last + 1 :
         Scan(n, m, first, last) /\ StoreEntries(n, m, first, last)
    /\ UNCHANGED <<applied, fd, votes, elected, committed, elections, crashes>>

\* Writing TRUNCATE fails: memory keeps the conflicting entries.
AppendTruncateFault(n, m) ==
    /\ Follow(n, m, TRUE)
    /\ PrevMatches(n, m)
    /\ \E last \in 1 .. Len(m.entries) : \E first \in 1 .. last :
         /\ Scan(n, m, first, last)
         /\ Conflict(n, m, first)
         /\ \E io \in Outcome(n) \ {"ok"} :
              disk' = [disk EXCEPT ![n] =
                          Persisted(io, FollowFile(n, m), CutFile(n, m, first))]
    /\ AppendReply(n, m, m.term, FALSE)
    /\ UNCHANGED <<log, logLen, commitIndex, applied, fd, history, elections, crashes>>

\* Writing the ENTRY at position `at' fails: memory has those before it.
StoreUntil(n, m, first, at, io) ==
    LET file == CutFile(n, m, first)
        before == SubSeq(m.entries, first, at - 1)
    IN /\ ~fd[n] => at = first /\ ~Conflict(n, m, first)
       /\ log' = [log EXCEPT ![n] = Extended(@, m.prevLogIndex + first - 1, before)]
       /\ logLen' = [logLen EXCEPT ![n] = m.prevLogIndex + at - 1]
       /\ disk' = [disk EXCEPT ![n] =
                       Persisted(io, ReplayEntries(file, before),
                                 ReplayEntries(file, SubSeq(m.entries, first, at)))]

AppendEntryFault(n, m) ==
    /\ Follow(n, m, TRUE)
    /\ PrevMatches(n, m)
    /\ \E last \in 1 .. Len(m.entries) : \E first \in 1 .. last : \E at \in first .. last :
         /\ Scan(n, m, first, last)
         /\ \E io \in Outcome(n) \ {"ok"} : StoreUntil(n, m, first, at, io)
    /\ AppendReply(n, m, m.term, FALSE)
    /\ UNCHANGED <<commitIndex, applied, fd, history, elections, crashes>>

HandleAppendEntriesRequest(n) ==
    \E m \in Inbox(n, "AppendEntries") :
      \/ AppendStale(n, m)
      \/ AppendTermFault(n, m)
      \/ AppendMismatch(n, m)
      \/ AppendStored(n, m)
      \/ AppendTruncateFault(n, m)
      \/ AppendEntryFault(n, m)

-------------------------------------------------------------------------------
(* The caller's side *)

\* Hand out at most OutCap committed entries.
raft_commit_entry(n) ==
    LET count == Lesser(OutCap, commitIndex[n] - Len(applied[n]))
    IN /\ Len(applied[n]) < commitIndex[n]
       /\ applied' = [applied EXCEPT ![n] =
                          @ \o [i \in 1 .. count |-> log[n][Len(@) + i]]]
       /\ UNCHANGED <<role, leaderId, pstate, commitIndex, cstate, lstate, fd, disk,
                      net, history, budget>>

\* The process dies and initialise_raft_sm runs again.  create_log_file may fail;
\* restore_pstate may fail to open the file, or give up inside it.  In each case
\* the node runs on, without a descriptor, with what had been restored.
Restore(n, got, opened) ==
    /\ currentTerm' = [currentTerm EXCEPT ![n] = got.term]
    /\ votedFor' = [votedFor EXCEPT ![n] = got.votedFor]
    /\ log' = [log EXCEPT ![n] = got.log]
    /\ logLen' = [logLen EXCEPT ![n] = got.len]
    /\ fd' = [fd EXCEPT ![n] = opened /\ got.ok]

Restart(n) ==
    /\ crashes < MaxCrashes
    /\ \/ Restore(n, disk[n], TRUE) /\ UNCHANGED faults
       \/ /\ faults < MaxFaults /\ faults' = faults + 1
          /\ Restore(n, disk[n], FALSE) \/ Restore(n, EmptyStore, FALSE)
    /\ crashes' = crashes + 1
    /\ role' = [role EXCEPT ![n] = "FOLLOWER"]
    /\ leaderId' = [leaderId EXCEPT ![n] = Nil]
    /\ commitIndex' = [commitIndex EXCEPT ![n] = 0]
    /\ applied' = [applied EXCEPT ![n] = <<>>]
    /\ ClearCounters(n, TRUE)
    /\ UNCHANGED <<disk, net, history, elections>>

-------------------------------------------------------------------------------
Next ==
    \E n \in Node :
      \/ raft_timeout(n)
      \/ HandleRequestVoteRequest(n)
      \/ HandleRequestVoteResponse(n)
      \/ \E p \in Node : raft_append_entries(n, p)
      \/ heartbeat_tick(n)
      \/ HandleAppendEntriesRequest(n)
      \/ HandleAppendEntriesResponse(n)
      \/ raft_leader_send_command(n)
      \/ raft_commit_entry(n)
      \/ Restart(n)
      \/ \E m \in net : m.to = n /\ Lose(m)

Spec == Init /\ [][Next]_vars

\* tetrisd, which is to poll the node every heartbeat_interval_ms, keeps handing
\* it the messages that arrived and keeps asking the leader for what to send.
\* Nothing is assumed of timers, clients and failures.
Fairness ==
    \A n \in Node :
      /\ WF_vars(HandleRequestVoteRequest(n))
      /\ WF_vars(HandleRequestVoteResponse(n))
      /\ WF_vars(HandleAppendEntriesRequest(n))
      /\ WF_vars(HandleAppendEntriesResponse(n))
      /\ \A p \in Node : WF_vars(raft_append_entries(n, p))

FairSpec == Spec /\ Fairness

-------------------------------------------------------------------------------
(* Properties *)

ServerOK ==
    /\ role \in [Node -> Role]
    /\ leaderId \in [Node -> Node \cup {Nil}]
    /\ currentTerm \in [Node -> Term]
    /\ votedFor \in [Node -> Node \cup {Nil}]

LogOK ==
    /\ log \in [Node -> Cells]
    /\ logLen \in [Node -> Index]
    /\ commitIndex \in [Node -> Index]
    /\ applied \in [Node -> Seq(Entry)]

CandidateOK ==
    /\ electionterm \in [Node -> Term]
    /\ votesResponded \in [Node -> SUBSET Node]
    /\ votesGranted \in [Node -> SUBSET Node]

LeaderOK ==
    /\ nextIndex \in [Node -> [Node -> 0 .. LogCap + 1]]
    /\ matchIndex \in [Node -> [Node -> Index]]
    /\ \A n, p \in Node : role[n] = "LEADER" => nextIndex[n][p] >= 1

StorageOK ==
    /\ fd \in [Node -> BOOLEAN]
    /\ disk \in [Node -> Store]

HistoryOK ==
    /\ votes \subseteq [voter : Node, candidate : Node, term : Term]
    /\ elected \subseteq [leader : Node, term : Term]
    /\ committed \subseteq [entry : Entry, at : Term]
    /\ overran \in BOOLEAN

BudgetOK == elections \in Nat /\ crashes \in Nat /\ faults \in Nat

\* Every field of raft_node, every record of the file and every message stays
\* in the range the declarations of raft.h give it, and the unsigned index
\* next_index - 1 a leader computes never wraps.
TypeOK ==
    /\ ServerOK
    /\ LogOK
    /\ CandidateOK
    /\ LeaderOK
    /\ StorageOK
    /\ net \subseteq Message
    /\ HistoryOK
    /\ BudgetOK

\* No node votes for two candidates of a term, itself included, whatever is
\* lost, repeated, written badly or restarted in between: the vote is on disk
\* before HandleRequestVoteRequest gives it, and a candidacy before raft_timeout
\* announces it.
VoteOnce ==
    \A u, v \in votes : u.voter = v.voter /\ u.term = v.term => u.candidate = v.candidate

\* No term is ever won by two nodes, at the same time or one after the other.
ElectionSafety ==
    \A e, f \in elected : e.term = f.term => e.leader = f.leader

\* A node that leads, or the leader_id a node would send a client to, is the
\* winner of that node's term.
LeaderIsElected ==
    \A n \in Node :
        /\ leaderId[n] # Nil => [leader |-> leaderId[n], term |-> currentTerm[n]] \in elected
        /\ role[n] = "LEADER" => leaderId[n] = n

\* If two logs hold an entry of the same index and term, they agree up to it:
\* what the prevLogIndex check, the truncation and the append loop of
\* HandleAppendEntriesRequest are for.
LogMatching ==
    \A n, p \in Node : \A k \in 1 .. Lesser(logLen[n], logLen[p]) :
        log[n][k].term = log[p][k].term => \A i \in 1 .. k : log[n][i] = log[p][i]

\* An entry AdvanceCommitIndex_locked counted as committed is in the log of
\* every leader of a later term, through elections, truncations and restarts.
LeaderCompleteness ==
    \A c \in committed, n \in Node :
        role[n] = "LEADER" /\ currentTerm[n] > c.at
            => /\ logLen[n] >= c.entry.index
               /\ log[n][c.entry.index] = c.entry

\* No two leaders, nor one leader twice, commit different entries at an index.
CommittedOnce ==
    \A c, d \in committed : c.entry.index = d.entry.index => c.entry = d.entry

\* raft_commit_entry never hands out an entry no leader committed, and so no
\* two nodes, nor two runs of one node, apply different commands at an index,
\* until a follower has taken over a commit position past the entries the
\* request covered (raft.c:792 compares it with the length of its log only).
StateMachineSafety ==
    /\ ~overran => \A n \in Node : \A i \in 1 .. Len(applied[n]) :
                     \E c \in committed : c.entry = applied[n][i] /\ c.entry.index = i
    /\ CommittedOnce

\* While a node can write and has not declared itself FAILED, a restart would
\* give back exactly the log it has in memory: the order of writing and
\* updating in the append paths loses nothing, whatever fails and whenever the
\* node dies.
RestoreMatchesMemory ==
    \A n \in Node :
        fd[n] /\ role[n] # "FAILED"
            => /\ disk[n].ok
               /\ disk[n].len = logLen[n]
               /\ \A i \in 1 .. logLen[n] : disk[n].log[i] = log[n][i]

\* What a leader believes a peer holds (match_index, on which it commits) is in
\* the peer's log file, and would survive the peer's death, until the peer has
\* heard of a later term.
MatchIsDurable ==
    \A n, p \in Node :
        role[n] = "LEADER" /\ n # p /\ disk[p].term <= currentTerm[n]
            => /\ matchIndex[n][p] <= disk[p].len
               /\ \A i \in 1 .. matchIndex[n][p] : disk[p].log[i] = log[n][i]

\* A committed entry would be restored by a majority of the nodes, should all
\* of them die: the other tetrisd instances have at least the committed entries.
DurableQuorum ==
    \A c \in committed :
        Cardinality({n \in Node : /\ disk[n].len >= c.entry.index
                                  /\ disk[n].log[c.entry.index] = c.entry})
            >= majority(Cardinality(Node))

\* While a process lives, the part of its log that raft_commit_entry may read is
\* never truncated nor overwritten, and never shrinks, until a follower has
\* taken over a commit position past the entries its request covered.
CommittedPrefixStable ==
    [][\A n \in Node :
         crashes' = crashes /\ ~overran
             => /\ commitIndex'[n] >= commitIndex[n]
                /\ logLen'[n] >= commitIndex[n]
                /\ \A i \in 1 .. commitIndex[n] : log'[n][i] = log[n][i]]_vars

\* A command the leader accepted is committed once another one follows it,
\* unless the leader loses its office.
BacklogCommits ==
    \A n \in Node, k \in 1 .. LogCap - 1 :
        (role[n] = "LEADER" /\ logLen[n] > k /\ log[n][k].term = currentTerm[n])
            ~> (commitIndex[n] >= k \/ role[n] # "LEADER")

\* A command the leader accepted is committed, unless the leader loses its
\* office: "update to n if majority has this" (AdvanceCommitIndex_locked).
CommandCommits ==
    \A n \in Node, k \in 1 .. LogCap :
        (role[n] = "LEADER" /\ logLen[n] >= k /\ log[n][k].term = currentTerm[n])
            ~> (commitIndex[n] >= k \/ role[n] # "LEADER")

\* A candidate that a majority voted for leads as soon as it has their
\* responses: "check vote count vs majority ... you won the election"
\* (HandleRequestVoteResponse).
MajorityWins ==
    \A n \in Node :
        /\ role[n] = "CANDIDATE"
        /\ Cardinality({v \in votes : v.candidate = n /\ v.term = currentTerm[n]})
               >= majority(Cardinality(Node))
        => Inbox(n, "RequestVoteResponse") # {}
===============================================================================
