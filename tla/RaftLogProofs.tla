---------------------------- MODULE RaftLogProofs ----------------------------
(***************************************************************************)
(* Proofs that TypeOK, ElectionInv and then LogInv are inductive, and of   *)
(* what follows from them: for every group of nodes, every log capacity    *)
(* and batch size, every bound and every transport.                        *)
(***************************************************************************)
EXTENDS RaftLog, FiniteSetTheorems, TLAPS

USE LogCapAssumption, NodeAssumption, CommandAssumption, BoundAssumption

-----------------------------------------------------------------------------
(* What the replay of a record leaves in a store *)

\* Replaying a STATE record yields a store.
LEMMA ReplayStateType ==
    ASSUME NEW d \in Store, NEW t \in Term, NEW v \in Node \cup {Nil}
    PROVE  ReplayState(d, t, v) \in Store
  BY DEF ReplayState, Store

\* Replaying a TRUNCATE record yields a store.
LEMMA ReplayTruncateType ==
    ASSUME NEW d \in Store, NEW from \in 1 .. LogCap
    PROVE  ReplayTruncate(d, from) \in Store
  BY DEF ReplayTruncate, Store, Index

\* Writing a run of entries yields an array of entries.
LEMMA ExtendedType ==
    ASSUME NEW cells \in Cells, NEW len \in Nat, NEW es \in Seq(Entry)
    PROVE  Extended(cells, len, es) \in Cells
  <1>1. \A i \in 1 .. LogCap :
           i \in len + 1 .. len + Len(es) => i - len \in 1 .. Len(es)
    OBVIOUS
  <1>2. \A j \in 1 .. Len(es) : es[j] \in Entry
    OBVIOUS
  <1> QED BY <1>1, <1>2 DEF Extended, Cells

\* Replaying a run of ENTRY records that fits the array yields a store.
LEMMA ReplayEntriesType ==
    ASSUME NEW d \in Store, NEW es \in Seq(Entry),
           es # <<>> => es[1].index + Len(es) <= LogCap + 1
    PROVE  ReplayEntries(d, es) \in Store
  <1>1. CASE ~d.ok \/ es = <<>>
    BY <1>1 DEF ReplayEntries
  <1>2. CASE d.ok /\ es # <<>> /\ es[1].index = d.len + 1
    <2>1. Extended(d.log, d.len, es) \in Cells
      BY ExtendedType DEF Store, Index
    <2>2. d.len + Len(es) \in Index
      BY <1>2 DEF Store, Index
    <2>3. ReplayEntries(d, es) =
            [d EXCEPT !.log = Extended(d.log, d.len, es), !.len = d.len + Len(es)]
      BY <1>2 DEF ReplayEntries
    <2> QED BY <2>1, <2>2, <2>3 DEF Store
  <1>3. CASE d.ok /\ es # <<>> /\ es[1].index # d.len + 1
    <2>1. ReplayEntries(d, es) = [d EXCEPT !.ok = FALSE]
      BY <1>3 DEF ReplayEntries
    <2> QED BY <2>1 DEF Store
  <1> QED BY <1>1, <1>2, <1>3 DEF Store

\* A write that fails leaves a store as well.
LEMMA PersistedType ==
    ASSUME NEW io, NEW old \in Store, NEW new \in Store
    PROVE  Persisted(io, old, new) \in Store
  BY DEF Persisted

\* What initialise_raft_sm starts from, an empty store, is well typed.
LEMMA EmptyStoreType == EmptyStore \in Store
  BY DEF EmptyStore, ZeroEntry, Store, Cells, Entry, Index, Term

-----------------------------------------------------------------------------
(* Type correctness *)

\* Freshly initialised nodes are well typed.
LEMMA TypeInit == Init => TypeOK
  <1> SUFFICES ASSUME Init PROVE TypeOK
    OBVIOUS
  <1>1. EmptyStore.log \in Cells
    BY EmptyStoreType DEF Store
  <1>2. 0 \in Term /\ 0 \in Index
    BY DEF Term, Index
  <1>3. ServerOK /\ CandidateOK
    BY <1>2 DEF Init, ServerOK, CandidateOK, Role
  <1>4. LogOK
    BY <1>1, <1>2 DEF Init, LogOK
  <1>5. LeaderOK
    BY <1>2 DEF Init, LeaderOK
  <1>6. StorageOK
    BY EmptyStoreType DEF Init, StorageOK
  <1>7. net \subseteq Message /\ HistoryOK /\ BudgetOK
    BY DEF Init, HistoryOK, BudgetOK
  <1> QED BY <1>3, <1>4, <1>5, <1>6, <1>7 DEF TypeOK

\* A cell of the log that is in memory holds an entry.
LEMMA CellType ==
    ASSUME LogOK, NEW n \in Node, NEW i \in 1 .. LogCap
    PROVE  log[n][i] \in Entry /\ log[n][i].term \in Term
  <1>1. log[n] \in Cells
    BY DEF LogOK
  <1>2. log[n][i] \in Entry
    BY <1>1 DEF Cells
  <1> QED BY <1>2 DEF Entry

\* raft_last_log_term is a term.
LEMMA LastTermType ==
    ASSUME LogOK, NEW n \in Node
    PROVE  LastTerm(n) \in Term
  <1>1. logLen[n] \in Index
    BY DEF LogOK
  <1>2. CASE logLen[n] = 0
    BY <1>2 DEF LastTerm, Term
  <1>3. CASE logLen[n] # 0
    BY <1>1, <1>3, CellType DEF LastTerm, Index
  <1> QED BY <1>2, <1>3

\* raft_init_leader_state sets well-typed counters.
LEMMA TypeBecomeLeader ==
    ASSUME ServerOK, LogOK, LeaderOK, HistoryOK, NEW n \in Node, NEW t \in Term,
           BecomeLeader(n, t)
    PROVE  /\ role' \in [Node -> Role]
           /\ leaderId' \in [Node -> Node \cup {Nil}]
           /\ LeaderOK'
           /\ elected' \subseteq [leader : Node, term : Term]
  <1>1. logLen[n] + 1 \in 1 .. LogCap + 1
    BY DEF LogOK, Index
  <1>2. 0 \in Index
    BY DEF Index
  <1>3. LeaderOK'
    BY <1>1, <1>2 DEF LeaderOK, ServerOK, BecomeLeader
  <1> QED BY <1>3 DEF ServerOK, HistoryOK, BecomeLeader, Role

\* Clearing the candidate and leader state sets well-typed counters.
LEMMA TypeClearCounters ==
    ASSUME CandidateOK, LeaderOK, NEW n \in Node, NEW clear \in BOOLEAN,
           ClearCounters(n, clear), ServerOK, NEW r, r # "LEADER",
           role' = [role EXCEPT ![n] = r]
    PROVE  CandidateOK' /\ LeaderOK'
  <1>1. 0 \in Index /\ 0 \in Term
    BY DEF Index, Term
  <1>2. CandidateOK'
    BY <1>1 DEF CandidateOK, ClearCounters
  <1>3. /\ nextIndex' \in [Node -> [Node -> 0 .. LogCap + 1]]
        /\ matchIndex' \in [Node -> [Node -> Index]]
    BY <1>1 DEF LeaderOK, ClearCounters
  <1>4. \A q, p \in Node : role'[q] = "LEADER" => nextIndex'[q][p] >= 1
    BY DEF LeaderOK, ServerOK, ClearCounters
  <1> QED BY <1>2, <1>3, <1>4 DEF LeaderOK

\* The requests raft_timeout sends are messages.
LEMMA VoteRequestsType ==
    ASSUME LogOK, NEW n \in Node, NEW t \in Term
    PROVE  VoteRequests(n, t) \subseteq Message
  <1>1. LastTerm(n) \in Term /\ logLen[n] \in Index
    BY LastTermType DEF LogOK
  <1>2. VoteRequests(n, t) \subseteq RequestVote
    BY <1>1 DEF VoteRequests, Peers, RequestVote
  <1> QED BY <1>2 DEF Message

\* raft_timeout keeps the types, also when persisting the vote fails.
LEMMA TypeTimeout ==
    ASSUME TypeOK, NEW n \in Node, raft_timeout(n)
    PROVE  TypeOK'
  <1>1. PICK io \in Outcome(n) : StartElection(n, io)
    BY DEF raft_timeout
  <1> DEFINE term == currentTerm[n] + 1
  <1>2. term \in Term
    BY DEF TypeOK, ServerOK, raft_timeout, Term
  <1>3. disk' \in [Node -> Store]
    <2>1. disk[n] \in Store
      BY DEF TypeOK, StorageOK
    <2>2. ReplayState(disk[n], term, n) \in Store
      BY <1>2, <2>1, ReplayStateType
    <2>3. Persisted(io, disk[n], ReplayState(disk[n], term, n)) \in Store
      BY <2>1, <2>2, PersistedType
    <2> QED BY <1>1, <2>3 DEF TypeOK, StorageOK, StartElection
  <1>4. net' \subseteq Message
    <2>1. VoteRequests(n, term) \subseteq Message
      BY <1>2, VoteRequestsType DEF TypeOK
    <2> QED BY <1>1, <2>1 DEF TypeOK, StartElection, Send
  <1>5. /\ role' \in [Node -> Role]
        /\ leaderId' \in [Node -> Node \cup {Nil}]
        /\ LeaderOK'
        /\ elected' \subseteq [leader : Node, term : Term]
    <2>1. CASE io = "ok" /\ majority(Cardinality(Node)) = 1
      <3>1. BecomeLeader(n, term)
        BY <1>1, <2>1 DEF StartElection
      <3> QED BY <1>2, <3>1, TypeBecomeLeader DEF TypeOK
    <2>2. CASE ~(io = "ok" /\ majority(Cardinality(Node)) = 1)
      <3>1. /\ role' = [role EXCEPT ![n] = "CANDIDATE"]
            /\ leaderId' = [leaderId EXCEPT ![n] = Nil]
            /\ UNCHANGED <<lstate, elected>>
        BY <1>1, <2>2 DEF StartElection
      <3> QED BY <3>1 DEF TypeOK, ServerOK, LeaderOK, HistoryOK, lstate, Role
    <2> QED BY <2>1, <2>2
  <1>6. /\ currentTerm' \in [Node -> Term]
        /\ votedFor' \in [Node -> Node \cup {Nil}]
    BY <1>1, <1>2 DEF TypeOK, ServerOK, StartElection
  <1>7. CandidateOK'
    BY <1>1, <1>2 DEF TypeOK, CandidateOK, StartElection, cstate
  <1>8. votes' \subseteq [voter : Node, candidate : Node, term : Term]
    BY <1>1, <1>2 DEF TypeOK, HistoryOK, StartElection, Vote
  <1>9. BudgetOK'
    BY <1>1 DEF TypeOK, BudgetOK, StartElection, Charge, raft_timeout
  <1> QED
    BY <1>3, <1>4, <1>5, <1>6, <1>7, <1>8, <1>9
    DEF TypeOK, ServerOK, LogOK, StorageOK, HistoryOK, raft_timeout

\* What a message may be, by its type.
LEMMA InboxType ==
    ASSUME net \subseteq Message, NEW n \in Node, NEW type, NEW m \in Inbox(n, type)
    PROVE  /\ m \in net /\ m.to = n /\ m.type = type
           /\ m.from \in Node /\ m.term \in Term
           /\ type = "RequestVote" => m \in RequestVote
           /\ type = "RequestVoteResponse" => m \in RequestVoteResponse
           /\ type = "AppendEntries" => m \in AppendEntries
           /\ type = "AppendEntriesResponse" => m \in AppendEntriesResponse
  <1>1. m \in net /\ m.to = n /\ m.type = type
    BY DEF Inbox
  <1>2. m \in Message
    BY <1>1
  <1> QED
    BY <1>1, <1>2 DEF Message, RequestVote, RequestVoteResponse, AppendEntries,
                      AppendEntriesResponse

\* Consuming a message and answering it leaves messages in flight.
LEMMA AnswerType ==
    ASSUME net \subseteq Message, NEW m, NEW ms, ms \subseteq Message, Answer(m, ms)
    PROVE  net' \subseteq Message
  BY DEF Answer

\* update_term_locked leaves a role.
LEMMA DemotedType ==
    ASSUME NEW n \in Node, NEW io
    PROVE  Demoted(n, io) \in Role /\ Demoted(n, io) # "LEADER"
  BY DEF Demoted, Role

\* Adopting a newer term keeps the types, also when persisting it fails.
LEMMA TypeStepDown ==
    ASSUME TypeOK, NEW n \in Node, NEW t \in Term, StepDown(n, t), net' \subseteq Message
    PROVE  TypeOK'
  <1>1. PICK io \in Outcome(n) : update_term_locked(n, t, io)
    BY DEF StepDown
  <1>2. StorageOK'
    <2>1. disk[n] \in Store
      BY DEF TypeOK, StorageOK
    <2>2. ReplayState(disk[n], t, Nil) \in Store
      BY <2>1, ReplayStateType
    <2>3. Persisted(io, disk[n], ReplayState(disk[n], t, Nil)) \in Store
      BY <2>1, <2>2, PersistedType
    <2> QED BY <1>1, <2>3 DEF TypeOK, StorageOK, update_term_locked, StepDown
  <1>3. CandidateOK' /\ LeaderOK'
    <2>1. /\ ClearCounters(n, io = "ok")
          /\ role' = [role EXCEPT ![n] = Demoted(n, io)]
      BY <1>1 DEF update_term_locked
    <2> QED BY <2>1, DemotedType, TypeClearCounters DEF TypeOK
  <1>4. ServerOK'
    BY <1>1, DemotedType DEF TypeOK, ServerOK, update_term_locked
  <1>5. BudgetOK'
    BY <1>1 DEF TypeOK, BudgetOK, update_term_locked, Charge, StepDown
  <1>6. LogOK' /\ HistoryOK'
    BY DEF TypeOK, LogOK, HistoryOK, history, StepDown
  <1> QED BY <1>2, <1>3, <1>4, <1>5, <1>6 DEF TypeOK

\* HandleRequestVoteRequest keeps the types.
LEMMA TypeRequestVoteRequest ==
    ASSUME TypeOK, NEW n \in Node, HandleRequestVoteRequest(n)
    PROVE  TypeOK'
  <1>1. PICK m \in Inbox(n, "RequestVote") :
          \E ioTerm \in IF Newer(n, m) THEN Outcome(n) ELSE {"ok"},
             ioVote \in IF Willing(n, m) THEN Outcome(n) ELSE {"ok"} :
               ConsiderVote(n, m, ioTerm, ioVote)
    BY DEF HandleRequestVoteRequest
  <1>2. PICK ioTerm, ioVote : ConsiderVote(n, m, ioTerm, ioVote)
    BY <1>1
  <1>3. m.from \in Node /\ m.term \in Term
    BY InboxType DEF TypeOK
  <1> DEFINE term == IF Newer(n, m) THEN m.term ELSE currentTerm[n]
             file == IF Newer(n, m)
                     THEN Persisted(ioTerm, disk[n], ReplayState(disk[n], term, Nil))
                     ELSE disk[n]
             file2 == IF Willing(n, m)
                      THEN Persisted(ioVote, file, ReplayState(file, term, m.from))
                      ELSE file
  <1>4. term \in Term /\ currentTerm[n] \in Term
    BY <1>3 DEF TypeOK, ServerOK
  <1>5. StorageOK'
    <2>1. disk[n] \in Store
      BY DEF TypeOK, StorageOK
    <2>2. ReplayState(disk[n], term, Nil) \in Store
      BY <1>4, <2>1, ReplayStateType
    <2>3. file \in Store
      BY <2>1, <2>2, PersistedType
    <2>4. ReplayState(file, term, m.from) \in Store
      BY <1>3, <1>4, <2>3, ReplayStateType
    <2>5. file2 \in Store
      BY <2>3, <2>4, PersistedType
    <2>6. disk' = [disk EXCEPT ![n] = file2]
      BY <1>2 DEF ConsiderVote
    <2> QED BY <2>5, <2>6 DEF TypeOK, StorageOK, HandleRequestVoteRequest
  <1>6. ServerOK'
    BY <1>2, <1>3, <1>4, DemotedType
    DEF TypeOK, ServerOK, ConsiderVote, CurrentVote, Role
  <1>7. CandidateOK' /\ LeaderOK'
    <2>1. ClearCounters(n, Newer(n, m) /\ ioTerm = "ok")
      BY <1>2 DEF ConsiderVote
    <2>2. role' = [role EXCEPT ![n] = IF ioVote # "ok" THEN "FAILED"
                                      ELSE IF Newer(n, m) THEN Demoted(n, ioTerm)
                                      ELSE role[n]]
      BY <1>2 DEF ConsiderVote
    <2>3. CASE Newer(n, m) \/ ioVote # "ok"
      BY <2>1, <2>2, <2>3, DemotedType, TypeClearCounters DEF TypeOK
    <2>4. CASE ~Newer(n, m) /\ ioVote = "ok"
      BY <2>1, <2>2, <2>4
      DEF TypeOK, ServerOK, CandidateOK, LeaderOK, ClearCounters
    <2> QED BY <2>3, <2>4
  <1>8. net' \subseteq Message
    <2> DEFINE r == [type |-> "RequestVoteResponse", from |-> n, to |-> m.from,
                     term |-> currentTerm[n],
                     voteGranted |-> Willing(n, m) /\ ioVote = "ok"]
    <2>1. Answer(m, {r})
      BY <1>2 DEF ConsiderVote
    <2>2. r \in RequestVoteResponse
      BY <1>3, <1>4 DEF RequestVoteResponse
    <2>3. {r} \subseteq Message
      BY <2>2 DEF Message
    <2> QED BY <2>1, <2>3, AnswerType DEF TypeOK
  <1>9. HistoryOK'
    BY <1>2, <1>3, <1>4
    DEF TypeOK, HistoryOK, ConsiderVote, Vote, HandleRequestVoteRequest
  <1>10. BudgetOK'
    BY <1>2 DEF TypeOK, BudgetOK, ConsiderVote, Charge, HandleRequestVoteRequest
  <1>11. LogOK'
    BY DEF TypeOK, LogOK, HandleRequestVoteRequest
  <1> QED BY <1>5, <1>6, <1>7, <1>8, <1>9, <1>10, <1>11 DEF TypeOK

\* Dropping a response keeps the types.
LEMMA TypeIgnore ==
    ASSUME TypeOK, IgnoreResponse, net' \subseteq Message
    PROVE  TypeOK'
  BY DEF TypeOK, ServerOK, LogOK, CandidateOK, LeaderOK, StorageOK, HistoryOK, BudgetOK,
         IgnoreResponse, pstate, cstate, lstate, history, budget

\* HandleRequestVoteResponse keeps the types: only peers are counted.
LEMMA TypeRequestVoteResponse ==
    ASSUME TypeOK, NEW n \in Node, HandleRequestVoteResponse(n)
    PROVE  TypeOK'
  <1>1. PICK m \in Inbox(n, "RequestVoteResponse") :
          /\ Answer(m, {})
          /\ \/ Newer(n, m) /\ StepDown(n, m.term)
             \/ CountsVote(n, m) /\ CountVote(n, m)
             \/ ~Newer(n, m) /\ ~CountsVote(n, m) /\ IgnoreResponse
    BY DEF HandleRequestVoteResponse
  <1>2. m.from \in Node /\ m.term \in Term
    BY InboxType DEF TypeOK
  <1>3. net' \subseteq Message
    BY <1>1, AnswerType DEF TypeOK
  <1>4. CASE StepDown(n, m.term)
    BY <1>2, <1>3, <1>4, TypeStepDown
  <1>5. CASE IgnoreResponse
    BY <1>3, <1>5, TypeIgnore
  <1>6. CASE CountVote(n, m)
    <2> DEFINE granted == IF m.voteGranted THEN votesGranted[n] \cup {m.from}
                                           ELSE votesGranted[n]
    <2>1. granted \subseteq Node
      BY <1>2 DEF TypeOK, CandidateOK
    <2>2. CandidateOK'
      BY <1>2, <1>6, <2>1 DEF TypeOK, CandidateOK, CountVote
    <2>3. /\ role' \in [Node -> Role]
          /\ leaderId' \in [Node -> Node \cup {Nil}]
          /\ LeaderOK'
          /\ elected' \subseteq [leader : Node, term : Term]
      <3>1. CASE BecomeLeader(n, currentTerm[n])
        BY <3>1, TypeBecomeLeader DEF TypeOK, ServerOK
      <3>2. CASE UNCHANGED <<role, leaderId, lstate, elected>>
        BY <3>2 DEF TypeOK, ServerOK, LeaderOK, HistoryOK, lstate
      <3> QED BY <1>6, <3>1, <3>2 DEF CountVote
    <2>4. /\ UNCHANGED <<pstate, commitIndex, applied, electionterm, fd, disk,
                         votes, committed, overran, budget>>
      BY <1>6 DEF CountVote
    <2>5. ServerOK' /\ LogOK' /\ StorageOK' /\ HistoryOK' /\ BudgetOK'
      BY <2>3, <2>4 DEF TypeOK, ServerOK, LogOK, StorageOK, HistoryOK, BudgetOK,
                        pstate, budget
    <2> QED BY <1>3, <2>2, <2>3, <2>5 DEF TypeOK
  <1> QED BY <1>1, <1>4, <1>5, <1>6

\* Steps that only touch the network.
LEMMA TypeNetOnly ==
    ASSUME TypeOK, net' \subseteq Message,
           UNCHANGED <<role, leaderId, pstate, commitIndex, applied, cstate, lstate,
                       fd, disk, history, budget>>
    PROVE  TypeOK'
  BY DEF TypeOK, ServerOK, LogOK, CandidateOK, LeaderOK, StorageOK, HistoryOK, BudgetOK,
         pstate, cstate, lstate, history, budget

\* raft_append_entries builds a well-typed request from the log.
LEMMA TypeAppendEntries ==
    ASSUME TypeOK, NEW n \in Node, NEW p \in Node, raft_append_entries(n, p)
    PROVE  TypeOK'
  <1> DEFINE prev == nextIndex[n][p] - 1
             avail == IF prev < logLen[n] THEN logLen[n] - prev ELSE 0
             count == Lesser(Batch, avail)
             es == [i \in 1 .. count |-> log[n][prev + i]]
  <1>1. prev \in Index
    BY DEF TypeOK, LeaderOK, raft_append_entries, Index
  <1>2. logLen[n] \in Index
    BY DEF TypeOK, LogOK
  <1>3. count \in Nat /\ count <= avail
    BY <1>1, <1>2 DEF Lesser, Index
  <1>4. \A i \in 1 .. count : prev + i \in 1 .. LogCap
    BY <1>1, <1>2, <1>3 DEF Index
  <1>5. \A i \in 1 .. count : log[n][prev + i] \in Entry
    BY <1>4, CellType DEF TypeOK
  <1>6. es \in Seq(Entry)
    BY <1>3, <1>5
  <1>7. (IF prev > 0 THEN log[n][prev].term ELSE 0) \in Term
    BY <1>1, CellType DEF TypeOK, Index, Term
  <1>8. AppendRequest(n, p) \in AppendEntries
    <2>1. currentTerm[n] \in Term /\ commitIndex[n] \in Index
      BY DEF TypeOK, ServerOK, LogOK
    <2>2. AppendRequest(n, p) =
            [type |-> "AppendEntries", from |-> n, to |-> p, term |-> currentTerm[n],
             prevLogIndex |-> prev,
             prevLogTerm |-> IF prev > 0 THEN log[n][prev].term ELSE 0,
             leaderCommit |-> commitIndex[n], entries |-> es]
      BY DEF AppendRequest
    <2> HIDE DEF prev, es
    <2> QED BY <1>1, <1>6, <1>7, <2>1, <2>2 DEF AppendEntries
  <1>9. net' \subseteq Message
    BY <1>8 DEF TypeOK, raft_append_entries, Send, Message
  <1> QED BY <1>9, TypeNetOnly DEF raft_append_entries

\* heartbeat_tick sends a well-typed request.
LEMMA TypeHeartbeat ==
    ASSUME TypeOK, NEW n \in Node, heartbeat_tick(n)
    PROVE  TypeOK'
  <1>1. currentTerm[n] \in Term /\ commitIndex[n] \in Index /\ 0 \in Index /\ 0 \in Term
    BY DEF TypeOK, ServerOK, LogOK, Index, Term
  <1>2. \A p \in Peers(n) :
          [type |-> "AppendEntries", from |-> n, to |-> p, term |-> currentTerm[n],
           prevLogIndex |-> 0, prevLogTerm |-> 0,
           leaderCommit |-> commitIndex[n], entries |-> <<>>] \in AppendEntries
    BY <1>1 DEF AppendEntries, Peers
  <1>3. net' \subseteq Message
    BY <1>2 DEF TypeOK, heartbeat_tick, Send, Message
  <1> QED BY <1>3, TypeNetOnly DEF heartbeat_tick

\* AdvanceCommitIndex_locked sets an index within the log.
LEMMA TypeCommit ==
    ASSUME LogOK, HistoryOK, ServerOK, NEW n \in Node, NEW k \in Index, NEW cells \in Cells,
           Commit(n, k, cells)
    PROVE  /\ commitIndex' \in [Node -> Index]
           /\ committed' \subseteq [entry : Entry, at : Term]
  <1>1. commitIndex' \in [Node -> Index]
    BY DEF LogOK, Commit
  <1>2. \A i \in commitIndex[n] + 1 .. k : cells[i] \in Entry
    <2>1. commitIndex[n] \in Index
      BY DEF LogOK
    <2> QED BY <2>1 DEF Index, Cells
  <1>3. currentTerm[n] \in Term
    BY DEF ServerOK
  <1> QED BY <1>1, <1>2, <1>3 DEF Commit, HistoryOK

\* raft_leader_send_command keeps the types and the capacity of the log.
LEMMA TypeSendCommand ==
    ASSUME TypeOK, NEW n \in Node, raft_leader_send_command(n)
    PROVE  TypeOK'
  <1>1. PICK c \in Command, io \in Outcome(n) : AcceptCommand(n, c, io)
    BY DEF raft_leader_send_command
  <1> DEFINE k == logLen[n] + 1
             entry == [index |-> k, term |-> currentTerm[n], command |-> c]
             cells == [log[n] EXCEPT ![k] = entry]
  <1>2. k \in 1 .. LogCap /\ k \in Index
    BY DEF TypeOK, LogOK, raft_leader_send_command, Index
  <1>3. entry \in Entry
    BY <1>2 DEF TypeOK, ServerOK, Entry
  <1>4. cells \in Cells
    BY <1>3 DEF TypeOK, LogOK, Cells
  <1>5. StorageOK'
    <2>1. disk[n] \in Store
      BY DEF TypeOK, StorageOK
    <2>2. /\ <<entry>> \in Seq(Entry)
          /\ <<entry>>[1].index + Len(<<entry>>) <= LogCap + 1
      BY <1>2, <1>3
    <2> HIDE DEF entry
    <2>3. ReplayEntries(disk[n], <<entry>>) \in Store
      BY <2>1, <2>2, ReplayEntriesType
    <2>4. Persisted(io, disk[n], ReplayEntries(disk[n], <<entry>>)) \in Store
      BY <2>1, <2>3, PersistedType
    <2>5. disk' = [disk EXCEPT ![n] =
                      Persisted(io, disk[n], ReplayEntries(disk[n], <<entry>>))]
      BY <1>1 DEF AcceptCommand, entry
    <2> QED BY <2>4, <2>5 DEF TypeOK, StorageOK, raft_leader_send_command
  <1>6. CASE io = "ok"
    <2>1. /\ log' = [log EXCEPT ![n] = cells]
          /\ logLen' = [logLen EXCEPT ![n] = k]
          /\ Commit(n, k, cells) \/ UNCHANGED <<commitIndex, committed>>
          /\ UNCHANGED role
      BY <1>1, <1>6 DEF AcceptCommand
    <2> HIDE DEF cells, k
    <2>2. /\ commitIndex' \in [Node -> Index]
          /\ committed' \subseteq [entry : Entry, at : Term]
      <3>1. CASE Commit(n, k, cells)
        BY <1>2, <1>4, <3>1, TypeCommit DEF TypeOK
      <3>2. CASE UNCHANGED <<commitIndex, committed>>
        BY <3>2 DEF TypeOK, LogOK, HistoryOK
      <3> QED BY <2>1, <3>1, <3>2
    <2>3. LogOK'
      BY <1>2, <1>4, <2>1, <2>2 DEF TypeOK, LogOK, raft_leader_send_command
    <2>4. HistoryOK'
      BY <2>2 DEF TypeOK, HistoryOK, raft_leader_send_command
    <2>5. ServerOK' /\ CandidateOK' /\ LeaderOK'
      BY <2>1 DEF TypeOK, ServerOK, CandidateOK, LeaderOK, cstate, lstate,
                  raft_leader_send_command
    <2>6. BudgetOK' /\ net' \subseteq Message
      BY <1>1 DEF TypeOK, BudgetOK, AcceptCommand, Charge, raft_leader_send_command
    <2> QED BY <1>5, <2>3, <2>4, <2>5, <2>6 DEF TypeOK
  <1>7. CASE io # "ok"
    <2>1. /\ role' = [role EXCEPT ![n] = "FAILED"]
          /\ UNCHANGED <<log, logLen, commitIndex, committed>>
      BY <1>1, <1>7 DEF AcceptCommand
    <2>2. ServerOK' /\ CandidateOK' /\ LeaderOK'
      BY <2>1 DEF TypeOK, ServerOK, CandidateOK, LeaderOK, cstate, lstate, Role,
                  raft_leader_send_command
    <2>3. LogOK' /\ HistoryOK'
      BY <2>1 DEF TypeOK, LogOK, HistoryOK, raft_leader_send_command
    <2>4. BudgetOK' /\ net' \subseteq Message
      BY <1>1 DEF TypeOK, BudgetOK, AcceptCommand, Charge, raft_leader_send_command
    <2> QED BY <1>5, <2>2, <2>3, <2>4 DEF TypeOK
  <1> QED BY <1>6, <1>7

\* HandleAppendEntriesResponse keeps next_index at 1 or more and match_index in its range.
LEMMA TypeAppendEntriesResponse ==
    ASSUME TypeOK, NEW n \in Node, HandleAppendEntriesResponse(n)
    PROVE  TypeOK'
  <1>1. PICK m \in Inbox(n, "AppendEntriesResponse") :
          /\ Answer(m, {})
          /\ \/ IgnoreResponse
             \/ StepDown(n, m.term)
             \/ /\ IF m.success THEN PeerAccepted(n, m) ELSE PeerRefused(n, m)
                /\ UNCHANGED <<role, leaderId, pstate, applied, cstate, fd, disk, votes,
                               elected, overran, budget>>
    BY DEF HandleAppendEntriesResponse
  <1>2. m.from \in Node /\ m.term \in Term /\ m.matchIndex \in Index
    BY InboxType DEF TypeOK, AppendEntriesResponse
  <1>3. net' \subseteq Message
    BY <1>1, AnswerType DEF TypeOK
  <1>4. CASE StepDown(n, m.term)
    BY <1>2, <1>3, <1>4, TypeStepDown
  <1>5. CASE IgnoreResponse
    BY <1>3, <1>5, TypeIgnore
  <1>6. CASE /\ PeerAccepted(n, m) \/ PeerRefused(n, m)
             /\ UNCHANGED <<role, leaderId, pstate, applied, cstate, fd, disk, votes,
                            elected, overran, budget>>
    <2>1. ServerOK' /\ CandidateOK' /\ StorageOK' /\ BudgetOK'
      BY <1>6 DEF TypeOK, ServerOK, CandidateOK, StorageOK, BudgetOK, pstate, cstate,
                  budget
    <2>2. LeaderOK'
      <3>1. CASE PeerRefused(n, m)
        BY <1>2, <1>6, <3>1 DEF TypeOK, LeaderOK, ServerOK, PeerRefused
      <3>2. CASE PeerAccepted(n, m)
        BY <1>2, <1>6, <3>2 DEF TypeOK, LeaderOK, ServerOK, PeerAccepted, Index
      <3> QED BY <1>6, <3>1, <3>2
    <2>3. /\ commitIndex' \in [Node -> Index]
          /\ committed' \subseteq [entry : Entry, at : Term]
      <3>1. CASE UNCHANGED <<commitIndex, committed>>
        BY <3>1 DEF TypeOK, LogOK, HistoryOK
      <3>2. ASSUME NEW k \in commitIndex[n] + 1 .. logLen[n], Commit(n, k, log[n])
            PROVE  /\ commitIndex' \in [Node -> Index]
                   /\ committed' \subseteq [entry : Entry, at : Term]
        <4>1. k \in Index /\ log[n] \in Cells
          BY DEF TypeOK, LogOK, Index
        <4> QED BY <3>2, <4>1, TypeCommit DEF TypeOK
      <3> QED BY <1>6, <3>1, <3>2 DEF PeerAccepted, PeerRefused, Replicated
    <2>4. LogOK'
      BY <1>6, <2>3 DEF TypeOK, LogOK, pstate
    <2>5. HistoryOK'
      BY <1>6, <2>3 DEF TypeOK, HistoryOK
    <2> QED BY <1>3, <2>1, <2>2, <2>4, <2>5 DEF TypeOK
  <1> QED BY <1>1, <1>4, <1>5, <1>6

\* The answer to AppendEntries is a message.
LEMMA AppendReplyType ==
    ASSUME net \subseteq Message, NEW n \in Node, NEW m \in AppendEntries, NEW t \in Term,
           NEW success \in BOOLEAN, AppendReply(n, m, t, success),
           success => m.prevLogIndex + Len(m.entries) \in Index
    PROVE  net' \subseteq Message
  <1> DEFINE k == IF success THEN m.prevLogIndex + Len(m.entries) ELSE 0
             r == [type |-> "AppendEntriesResponse", from |-> n, to |-> m.from,
                   term |-> t, success |-> success, matchIndex |-> k]
  <1>1. k \in Index
    BY DEF Index
  <1>2. m.from \in Node
    BY DEF AppendEntries
  <1>3. r \in AppendEntriesResponse
    BY <1>1, <1>2 DEF AppendEntriesResponse
  <1>4. {r} \subseteq Message
    BY <1>3 DEF Message
  <1>5. Answer(m, {r})
    BY DEF AppendReply
  <1> QED BY <1>4, <1>5, AnswerType

\* Following the leader of a request keeps the types.
LEMMA TypeFollow ==
    ASSUME TypeOK, NEW n \in Node, NEW m \in AppendEntries, NEW failed \in BOOLEAN,
           Follow(n, m, failed)
    PROVE  ServerOK' /\ CandidateOK' /\ LeaderOK' /\ faults' \in Nat
  <1> DEFINE r == IF failed \/ role[n] = "FAILED" THEN "FAILED" ELSE "FOLLOWER"
  <1>1. m.from \in Node /\ m.term \in Term
    BY DEF AppendEntries
  <1>2. role' = [role EXCEPT ![n] = r] /\ r # "LEADER" /\ r \in Role
    BY DEF Follow, Role
  <1>3. CurrentVote(n, m) \in Node \cup {Nil}
    BY DEF CurrentVote, TypeOK, ServerOK
  <1>4. ServerOK'
    BY <1>1, <1>2, <1>3 DEF TypeOK, ServerOK, Follow
  <1>5. CandidateOK' /\ LeaderOK'
    <2>1. ClearCounters(n, Newer(n, m)) /\ Newer(n, m) \in BOOLEAN
      BY DEF Follow, Newer
    <2> QED BY <1>2, <2>1, TypeClearCounters DEF TypeOK
  <1> QED BY <1>4, <1>5 DEF TypeOK, BudgetOK, Follow, Charge

\* The file after the new term is recorded is a sequence of records.
LEMMA FollowFileType ==
    ASSUME TypeOK, NEW n \in Node, NEW m \in AppendEntries
    PROVE  FollowFile(n, m) \in Store
  <1>1. disk[n] \in Store /\ m.term \in Term
    BY DEF TypeOK, StorageOK, AppendEntries
  <1>2. ReplayState(disk[n], m.term, Nil) \in Store
    BY <1>1, ReplayStateType
  <1> QED BY <1>1, <1>2 DEF FollowFile

\* The file after a truncation is recorded is a sequence of records.
LEMMA CutFileType ==
    ASSUME TypeOK, NEW n \in Node, NEW m \in AppendEntries, NEW first \in Nat \ {0},
           m.prevLogIndex + first <= LogCap
    PROVE  CutFile(n, m, first) \in Store
  <1>1. m.prevLogIndex + first \in 1 .. LogCap
    BY DEF AppendEntries, Index
  <1>2. ReplayTruncate(FollowFile(n, m), m.prevLogIndex + first) \in Store
    BY <1>1, FollowFileType, ReplayTruncateType
  <1> QED BY <1>2, FollowFileType DEF CutFile

\* What the loop has checked of the entries it writes.
LEMMA ScanBounds ==
    ASSUME NEW n \in Node, NEW m \in AppendEntries, NEW last \in 0 .. Len(m.entries),
           NEW first \in 1 .. last + 1, Scan(n, m, first, last)
    PROVE  /\ Len(m.entries) \in Nat /\ m.prevLogIndex \in Index
           /\ last > 0 => m.prevLogIndex + last <= LogCap
           /\ m.prevLogIndex + last \in Index
           /\ \A j \in 1 .. last : /\ m.entries[j] \in Entry
                                   /\ m.entries[j].index = m.prevLogIndex + j
  <1>1. m.entries \in Seq(Entry) /\ m.prevLogIndex \in Index
    BY DEF AppendEntries
  <1>2. Len(m.entries) \in Nat
    BY <1>1
  <1>3. \A j \in 1 .. last : Expected(m, j) /\ m.entries[j] \in Entry
    BY <1>1, <1>2 DEF Scan
  <1>4. last > 0 => m.prevLogIndex + last <= LogCap
    BY <1>2, <1>3 DEF Expected
  <1> QED BY <1>1, <1>2, <1>3, <1>4 DEF Expected, Index

\* A part of the entries that passed the checks, and its replay.
LEMMA SubSeqType ==
    ASSUME TypeOK, NEW n \in Node, NEW m \in AppendEntries,
           NEW last \in 1 .. Len(m.entries),
           NEW first \in 1 .. last, Scan(n, m, first, last),
           NEW to \in first - 1 .. last
    PROVE  /\ SubSeq(m.entries, first, to) \in Seq(Entry)
           /\ ReplayEntries(CutFile(n, m, first), SubSeq(m.entries, first, to)) \in Store
           /\ Extended(log[n], m.prevLogIndex + first - 1, SubSeq(m.entries, first, to))
                  \in Cells
  <1> DEFINE es == SubSeq(m.entries, first, to)
  <1>1. /\ m.entries \in Seq(Entry)
        /\ Len(m.entries) \in Nat
        /\ m.prevLogIndex \in Index
        /\ m.prevLogIndex + last <= LogCap
        /\ \A j \in 1 .. last : m.entries[j].index = m.prevLogIndex + j
    BY ScanBounds DEF AppendEntries
  <1>2. es \in Seq(Entry) /\ Len(es) = to - first + 1
    BY <1>1
  <1>3. es # <<>> => es[1] = m.entries[first]
    BY <1>1, <1>2
  <1>4. es # <<>> => es[1].index + Len(es) <= LogCap + 1
    BY <1>1, <1>2, <1>3 DEF Index
  <1>5. CutFile(n, m, first) \in Store
    BY <1>1, CutFileType DEF Index
  <1>6. ReplayEntries(CutFile(n, m, first), es) \in Store
    <2> HIDE DEF es
    <2> QED BY <1>2, <1>4, <1>5, ReplayEntriesType
  <1>7. Extended(log[n], m.prevLogIndex + first - 1, es) \in Cells
    <2>1. log[n] \in Cells /\ m.prevLogIndex + first - 1 \in Nat
      BY <1>1 DEF TypeOK, LogOK, Index
    <2> HIDE DEF es
    <2> QED BY <1>2, <2>1, ExtendedType
  <1> QED BY <1>2, <1>6, <1>7

\* A failure to persist the request's term keeps the types.
LEMMA TypeAppendTermFault ==
    ASSUME TypeOK, NEW n \in Node, NEW m \in AppendEntries, AppendTermFault(n, m)
    PROVE  TypeOK'
  <1>1. m.term \in Term /\ currentTerm[n] \in Term /\ disk[n] \in Store
    BY DEF AppendEntries, TypeOK, ServerOK, StorageOK
  <1>2. PICK io : disk' = [disk EXCEPT ![n] =
                              Persisted(io, disk[n], ReplayState(disk[n], m.term, Nil))]
    BY DEF AppendTermFault
  <1>3. Persisted(io, disk[n], ReplayState(disk[n], m.term, Nil)) \in Store
    BY <1>1, ReplayStateType, PersistedType
  <1>4. StorageOK'
    BY <1>2, <1>3 DEF TypeOK, StorageOK, AppendTermFault
  <1>5. ServerOK'
    BY <1>1 DEF TypeOK, ServerOK, AppendTermFault, Role
  <1>6. CandidateOK' /\ LeaderOK'
    BY DEF TypeOK, ServerOK, CandidateOK, LeaderOK, AppendTermFault, cstate, lstate
  <1>7. LogOK' /\ HistoryOK' /\ BudgetOK'
    BY DEF TypeOK, LogOK, HistoryOK, BudgetOK, AppendTermFault, history, Charge
  <1>8. net' \subseteq Message
    BY <1>1, AppendReplyType DEF TypeOK, AppendTermFault
  <1> QED BY <1>4, <1>5, <1>6, <1>7, <1>8 DEF TypeOK

\* Refusing a request whose predecessor does not match keeps the types.
LEMMA TypeAppendMismatch ==
    ASSUME TypeOK, NEW n \in Node, NEW m \in AppendEntries, AppendMismatch(n, m)
    PROVE  TypeOK'
  <1>1. ServerOK' /\ CandidateOK' /\ LeaderOK' /\ faults' \in Nat
    BY TypeFollow DEF AppendMismatch
  <1>2. StorageOK'
    BY FollowFileType DEF TypeOK, StorageOK, AppendMismatch
  <1>3. LogOK' /\ HistoryOK' /\ BudgetOK'
    BY <1>1 DEF TypeOK, LogOK, HistoryOK, BudgetOK, AppendMismatch, history
  <1>4. net' \subseteq Message
    BY AppendReplyType DEF TypeOK, AppendMismatch, AppendEntries
  <1> QED BY <1>1, <1>2, <1>3, <1>4 DEF TypeOK

\* Storing the entries of a request keeps the types and the capacity of the log.
LEMMA TypeAppendStored ==
    ASSUME TypeOK, NEW n \in Node, NEW m \in AppendEntries, AppendStored(n, m)
    PROVE  TypeOK'
  <1>1. ServerOK' /\ CandidateOK' /\ LeaderOK' /\ faults' \in Nat
    BY TypeFollow DEF AppendStored
  <1>2. PICK last \in 0 .. Len(m.entries) : \E first \in 1 .. last + 1 :
          Scan(n, m, first, last) /\ StoreEntries(n, m, first, last)
    BY DEF AppendStored
  <1>3. PICK first \in 1 .. last + 1 :
          Scan(n, m, first, last) /\ StoreEntries(n, m, first, last)
    BY <1>2
  <1> DEFINE new == SubSeq(m.entries, first, last)
             len == IF first <= last THEN m.prevLogIndex + last ELSE logLen[n]
             cells == Extended(log[n], m.prevLogIndex + first - 1, new)
             file == IF first <= last THEN ReplayEntries(CutFile(n, m, first), new)
                                      ELSE FollowFile(n, m)
  <1>4. /\ Len(m.entries) \in Nat /\ m.prevLogIndex \in Index
        /\ m.prevLogIndex + last \in Index
        /\ m.entries \in Seq(Entry)
    BY <1>3, ScanBounds DEF AppendEntries
  <1>5. /\ log' = [log EXCEPT ![n] = cells]
        /\ logLen' = [logLen EXCEPT ![n] = len]
        /\ disk' = [disk EXCEPT ![n] = file]
        /\ commitIndex' = [commitIndex EXCEPT ![n] =
                              IF last = Len(m.entries) /\ m.leaderCommit > commitIndex[n]
                              THEN Lesser(m.leaderCommit, len) ELSE commitIndex[n]]
        /\ AppendReply(n, m, m.term, last = Len(m.entries))
    BY <1>3 DEF StoreEntries
  <1>6. cells \in Cells /\ file \in Store
    <2>1. CASE first <= last
      BY <1>3, <1>4, <2>1, SubSeqType
    <2>2. CASE first = last + 1
      <3>1. new = <<>> /\ new \in Seq(Entry)
        BY <1>4, <2>2
      <3>2. log[n] \in Cells /\ m.prevLogIndex + first - 1 \in Nat
        BY <1>4 DEF TypeOK, LogOK, Index
      <3>3. cells \in Cells
        <4> HIDE DEF new
        <4> QED BY <3>1, <3>2, ExtendedType
      <3> QED BY <1>4, <2>2, <3>3, FollowFileType
    <2> QED BY <1>4, <2>1, <2>2
  <1>7. len \in Index
    BY <1>4 DEF TypeOK, LogOK
  <1> HIDE DEF cells, file, len
  <1>8. LogOK'
    <2>1. m.leaderCommit \in Index
      BY DEF AppendEntries
    <2>2. Lesser(m.leaderCommit, len) \in Index
      BY <1>7, <2>1 DEF Lesser
    <2> QED BY <1>5, <1>6, <1>7, <2>2 DEF TypeOK, LogOK, AppendStored
  <1>9. StorageOK'
    BY <1>5, <1>6 DEF TypeOK, StorageOK, AppendStored
  <1>10. HistoryOK' /\ BudgetOK'
    <2>1. overran' \in BOOLEAN
      BY <1>3 DEF StoreEntries
    <2> QED BY <1>1, <2>1 DEF TypeOK, HistoryOK, BudgetOK, AppendStored
  <1>11. net' \subseteq Message
    <2>1. m.term \in Term
      BY DEF AppendEntries
    <2> QED BY <1>4, <1>5, <2>1, AppendReplyType DEF TypeOK
  <1> QED BY <1>1, <1>8, <1>9, <1>10, <1>11 DEF TypeOK

\* A failure to persist the truncation keeps the types.
LEMMA TypeAppendTruncateFault ==
    ASSUME TypeOK, NEW n \in Node, NEW m \in AppendEntries, AppendTruncateFault(n, m)
    PROVE  TypeOK'
  <1>1. ServerOK' /\ CandidateOK' /\ LeaderOK' /\ faults' \in Nat
    BY TypeFollow DEF AppendTruncateFault
  <1>2. PICK last \in 1 .. Len(m.entries) : \E first \in 1 .. last, io \in Outcome(n) :
          /\ Scan(n, m, first, last)
          /\ disk' = [disk EXCEPT ![n] =
                         Persisted(io, FollowFile(n, m), CutFile(n, m, first))]
    BY DEF AppendTruncateFault
  <1>3. PICK first \in 1 .. last, io \in Outcome(n) :
          /\ Scan(n, m, first, last)
          /\ disk' = [disk EXCEPT ![n] =
                         Persisted(io, FollowFile(n, m), CutFile(n, m, first))]
    BY <1>2
  <1>4. CutFile(n, m, first) \in Store
    BY <1>3, ScanBounds, CutFileType DEF Index
  <1>5. StorageOK'
    BY <1>3, <1>4, FollowFileType, PersistedType DEF TypeOK, StorageOK, AppendTruncateFault
  <1>6. LogOK' /\ HistoryOK' /\ BudgetOK'
    BY <1>1 DEF TypeOK, LogOK, HistoryOK, BudgetOK, AppendTruncateFault, history
  <1>7. net' \subseteq Message
    BY AppendReplyType DEF TypeOK, AppendTruncateFault, AppendEntries
  <1> QED BY <1>1, <1>5, <1>6, <1>7 DEF TypeOK

\* A failure to persist one of the entries keeps the types.
LEMMA TypeAppendEntryFault ==
    ASSUME TypeOK, NEW n \in Node, NEW m \in AppendEntries, AppendEntryFault(n, m)
    PROVE  TypeOK'
  <1>1. ServerOK' /\ CandidateOK' /\ LeaderOK' /\ faults' \in Nat
    BY TypeFollow DEF AppendEntryFault
  <1>2. PICK last \in 1 .. Len(m.entries) : \E first \in 1 .. last : \E at \in first .. last :
         /\ Scan(n, m, first, last)
         /\ \E io \in Outcome(n) \ {"ok"} : StoreUntil(n, m, first, at, io)
    BY DEF AppendEntryFault
  <1>3. PICK first \in 1 .. last : \E at \in first .. last :
         /\ Scan(n, m, first, last)
         /\ \E io \in Outcome(n) \ {"ok"} : StoreUntil(n, m, first, at, io)
    BY <1>2
  <1>4. PICK at \in first .. last, io \in Outcome(n) :
          Scan(n, m, first, last) /\ StoreUntil(n, m, first, at, io)
    BY <1>3
  <1> DEFINE cells == Extended(log[n], m.prevLogIndex + first - 1,
                               SubSeq(m.entries, first, at - 1))
             old == ReplayEntries(CutFile(n, m, first), SubSeq(m.entries, first, at - 1))
             new == ReplayEntries(CutFile(n, m, first), SubSeq(m.entries, first, at))
  <1>5. /\ Len(m.entries) \in Nat /\ m.prevLogIndex \in Index
        /\ m.prevLogIndex + last <= LogCap
    BY <1>4, ScanBounds DEF Index
  <1>6. at - 1 \in first - 1 .. last /\ at \in first - 1 .. last
    BY <1>5
  <1>7. cells \in Cells /\ old \in Store /\ new \in Store
    BY <1>4, <1>6, SubSeqType
  <1>8. m.prevLogIndex + at - 1 \in Index
    BY <1>5 DEF Index
  <1>9. /\ log' = [log EXCEPT ![n] = cells]
        /\ logLen' = [logLen EXCEPT ![n] = m.prevLogIndex + at - 1]
        /\ disk' = [disk EXCEPT ![n] = Persisted(io, old, new)]
    BY <1>4 DEF StoreUntil
  <1> HIDE DEF cells, old, new
  <1>10. StorageOK'
    BY <1>7, <1>9, PersistedType DEF TypeOK, StorageOK, AppendEntryFault
  <1>11. LogOK'
    BY <1>7, <1>8, <1>9 DEF TypeOK, LogOK, AppendEntryFault
  <1>12. HistoryOK' /\ BudgetOK'
    BY <1>1 DEF TypeOK, HistoryOK, BudgetOK, AppendEntryFault, history
  <1>13. net' \subseteq Message
    BY AppendReplyType DEF TypeOK, AppendEntryFault, AppendEntries
  <1> QED BY <1>1, <1>10, <1>11, <1>12, <1>13 DEF TypeOK

\* Refusing a request of an older term keeps the types.
LEMMA TypeAppendStale ==
    ASSUME TypeOK, NEW n \in Node, NEW m \in AppendEntries, AppendStale(n, m)
    PROVE  TypeOK'
  <1>1. currentTerm[n] \in Term
    BY DEF TypeOK, ServerOK
  <1>2. net' \subseteq Message
    BY <1>1, AppendReplyType DEF TypeOK, AppendStale
  <1> QED BY <1>2, TypeNetOnly DEF AppendStale

\* HandleAppendEntriesRequest keeps the types, whichever way it returns.
LEMMA TypeAppendEntriesRequest ==
    ASSUME TypeOK, NEW n \in Node, HandleAppendEntriesRequest(n)
    PROVE  TypeOK'
  <1>1. PICK m \in Inbox(n, "AppendEntries") :
          \/ AppendStale(n, m) \/ AppendTermFault(n, m) \/ AppendMismatch(n, m)
          \/ AppendStored(n, m) \/ AppendTruncateFault(n, m) \/ AppendEntryFault(n, m)
    BY DEF HandleAppendEntriesRequest
  <1>2. m \in AppendEntries
    BY InboxType DEF TypeOK
  <1> QED
    BY <1>1, <1>2, TypeAppendStale, TypeAppendTermFault, TypeAppendMismatch,
       TypeAppendStored, TypeAppendTruncateFault, TypeAppendEntryFault

\* What raft_commit_entry hands out are entries.
LEMMA TypeCommitEntry ==
    ASSUME TypeOK, NEW n \in Node, raft_commit_entry(n)
    PROVE  TypeOK'
  <1> DEFINE from == Len(applied[n])
             count == Lesser(OutCap, commitIndex[n] - from)
             out == [i \in 1 .. count |-> log[n][from + i]]
  <1>1. applied[n] \in Seq(Entry) /\ from \in Nat /\ commitIndex[n] \in Index
    BY DEF TypeOK, LogOK
  <1>2. from < commitIndex[n]
    BY DEF raft_commit_entry
  <1>3. count \in Nat /\ count <= commitIndex[n] - from
    BY <1>1, <1>2 DEF Lesser, Index
  <1>4. \A i \in 1 .. count : log[n][from + i] \in Entry
    BY <1>1, <1>3, CellType DEF TypeOK, Index
  <1>5. out \in Seq(Entry)
    BY <1>3, <1>4
  <1>6. applied' = [applied EXCEPT ![n] = applied[n] \o out]
    BY DEF raft_commit_entry
  <1> HIDE DEF out
  <1>7. applied[n] \o out \in Seq(Entry)
    BY <1>1, <1>5
  <1>8. LogOK'
    BY <1>6, <1>7 DEF TypeOK, LogOK, raft_commit_entry, pstate
  <1> QED
    BY <1>8 DEF TypeOK, ServerOK, CandidateOK, LeaderOK, StorageOK, HistoryOK, BudgetOK,
                raft_commit_entry, pstate, cstate, lstate, history, budget

\* A restart rebuilds well-typed state from any file.
LEMMA TypeRestart ==
    ASSUME TypeOK, NEW n \in Node, Restart(n)
    PROVE  TypeOK'
  <1>1. PICK got \in Store, opened \in BOOLEAN : Restore(n, got, opened)
    BY EmptyStoreType DEF Restart, TypeOK, StorageOK
  <1>2. /\ got.term \in Term /\ got.votedFor \in Node \cup {Nil} /\ got.log \in Cells
        /\ got.len \in Index /\ got.ok \in BOOLEAN
    BY DEF Store
  <1>3. ServerOK'
    BY <1>1, <1>2 DEF TypeOK, ServerOK, Restart, Restore, Role
  <1>4. LogOK'
    BY <1>1, <1>2 DEF TypeOK, LogOK, Restart, Restore, Index
  <1>5. CandidateOK' /\ LeaderOK'
    BY TypeClearCounters DEF TypeOK, Restart
  <1>6. StorageOK'
    BY <1>1, <1>2 DEF TypeOK, StorageOK, Restart, Restore
  <1>7. HistoryOK' /\ net' \subseteq Message
    <2>1. UNCHANGED <<votes, elected, committed, overran, net>>
      BY DEF Restart, history
    <2> QED BY <2>1 DEF TypeOK, HistoryOK
  <1>8. BudgetOK'
    <2>1. /\ faults' = faults \/ faults' = faults + 1
          /\ crashes' = crashes + 1 /\ elections' = elections
      BY DEF Restart
    <2> QED BY <2>1 DEF TypeOK, BudgetOK
  <1> QED BY <1>3, <1>4, <1>5, <1>6, <1>7, <1>8 DEF TypeOK

\* Every step keeps the types.
LEMMA TypeNext == TypeOK /\ [Next]_vars => TypeOK'
  <1> SUFFICES ASSUME TypeOK, [Next]_vars PROVE TypeOK'
    OBVIOUS
  <1>1. CASE UNCHANGED vars
    BY <1>1, TypeNetOnly DEF vars, TypeOK, pstate, cstate, lstate, history, budget
  <1>2. ASSUME NEW n \in Node, NEW m \in net, Lose(m)
        PROVE  TypeOK'
    BY <1>2, TypeNetOnly DEF TypeOK, Lose
  <1> QED
    BY <1>1, <1>2, TypeTimeout, TypeRequestVoteRequest, TypeRequestVoteResponse,
       TypeAppendEntries, TypeHeartbeat, TypeAppendEntriesRequest,
       TypeAppendEntriesResponse, TypeSendCommand, TypeCommitEntry, TypeRestart
    DEF Next

\* Every field, record and message keeps its declared range, whatever is sent,
\* lost, repeated, written badly or restarted.
THEOREM TypeCorrect == Spec => []TypeOK
  BY TypeInit, TypeNext, PTL DEF Spec

-----------------------------------------------------------------------------
(* Storage: the entry records never touch the term and the vote *)

\* If e can be replayed to its end, so could d, to the same term and vote.
SameState(d, e) == e.ok => d.ok /\ e.term = d.term /\ e.votedFor = d.votedFor

\* TRUNCATE and ENTRY records do not touch the term and the vote restore_pstate has read.
LEMMA ReplayKeepsState ==
    ASSUME NEW d \in Store, NEW es, NEW from
    PROVE  /\ SameState(d, ReplayEntries(d, es))
           /\ SameState(d, ReplayTruncate(d, from))
  BY DEF SameState, ReplayEntries, ReplayTruncate, Store

\* What the follower's loop leaves in the file has the term and vote of Follow.
LEMMA LoopKeepsState ==
    ASSUME TypeOK, NEW n \in Node, NEW m \in AppendEntries, NEW first \in Nat \ {0},
           m.prevLogIndex + first <= LogCap
    PROVE  /\ SameState(FollowFile(n, m), CutFile(n, m, first))
           /\ \A es : SameState(FollowFile(n, m), ReplayEntries(CutFile(n, m, first), es))
  <1>1. FollowFile(n, m) \in Store /\ CutFile(n, m, first) \in Store
    BY FollowFileType, CutFileType
  <1>2. SameState(FollowFile(n, m), CutFile(n, m, first))
    BY <1>1, ReplayKeepsState DEF CutFile, SameState
  <1>3. \A es : SameState(CutFile(n, m, first), ReplayEntries(CutFile(n, m, first), es))
    BY <1>1, ReplayKeepsState
  <1> QED BY <1>2, <1>3 DEF SameState

\* So does a write that fails.
LEMMA PersistedKeepsState ==
    ASSUME NEW c, NEW d, NEW e, SameState(c, d), SameState(c, e), NEW io
    PROVE  SameState(c, Persisted(io, d, e))
  BY DEF SameState, Persisted

-----------------------------------------------------------------------------
(* Adopting a term, in every handler that does not also vote *)

\* Node n takes term t and vote w in memory, and its file becomes d, giving no
\* vote: w is not one, or could not be written.
Adopts(n, t, w, d) ==
    /\ t \in Term
    /\ t > currentTerm[n] \/ (t = currentTerm[n] /\ votedFor[n] \in {Nil, w})
    /\ currentTerm' = [currentTerm EXCEPT ![n] = t]
    /\ votedFor' = [votedFor EXCEPT ![n] = w]
    /\ disk' = [disk EXCEPT ![n] = d]
    /\ \/ SameState(disk[n], d)
       \/ fd[n] /\ (d.ok => d.term = t /\ (t > currentTerm[n] \/ d.votedFor = w))
    /\ UNCHANGED <<fd, votes>>

\* What n had voted for is still remembered.
LEMMA AdoptKeepsVotes ==
    ASSUME TypeOK, ElectionInv, NEW n \in Node, NEW t, NEW w, NEW d, Adopts(n, t, w, d)
    PROVE  MemoryKeepsVotes' /\ DiskKeepsVotes'
  <1>1. \A v \in votes : v.voter \in Node /\ v.candidate # Nil /\ v.term \in Term
    BY DEF TypeOK, HistoryOK
  <1>2. \A p \in Node : currentTerm[p] \in Term
    BY DEF TypeOK, ServerOK
  <1>3. MemoryKeepsVotes'
    BY <1>1, <1>2 DEF TypeOK, ServerOK, ElectionInv, MemoryKeepsVotes, Pledged, Adopts, Term
  <1>4. DiskKeepsVotes'
    <2> SUFFICES ASSUME NEW v \in votes, disk'[v.voter].ok
                 PROVE  Pledged(disk'[v.voter].term, disk'[v.voter].votedFor, v)
      BY DEF DiskKeepsVotes, Adopts
    <2>1. CASE v.voter # n
      BY <1>1, <2>1 DEF TypeOK, StorageOK, ElectionInv, DiskKeepsVotes, Adopts
    <2>2. CASE v.voter = n
      <3>1. disk'[n] = d
        BY DEF TypeOK, StorageOK, Adopts
      <3>2. CASE SameState(disk[n], d)
        BY <2>2, <3>1, <3>2 DEF ElectionInv, DiskKeepsVotes, SameState, Pledged
      <3>3. CASE fd[n] /\ (d.ok => d.term = t /\ (t > currentTerm[n] \/ d.votedFor = w))
        <4>1. Pledged(currentTerm[n], votedFor[n], v)
          BY <2>2, <3>3 DEF ElectionInv, MemoryKeepsVotes
        <4>2. d.term = t /\ (t > currentTerm[n] \/ d.votedFor = w)
          BY <2>2, <3>1, <3>3
        <4> QED BY <1>1, <1>2, <2>2, <3>1, <4>1, <4>2 DEF Pledged, Adopts, Term
      <3> QED BY <3>2, <3>3 DEF Adopts
    <2> QED BY <2>1, <2>2
  <1> QED BY <1>3, <1>4

-----------------------------------------------------------------------------
(* The other parts, in steps that give no vote *)

\* No new vote or winner; no new request, vote or voice in the network.
LEMMA QuietNet ==
    ASSUME ElectionInv, UNCHANGED <<votes, elected>>,
           \A m \in net' : m \in net \/ m.type = "AppendEntriesResponse"
    PROVE  /\ RequestsAreCampaigns' /\ ResponsesAreVotes' /\ VoicesAreElected'
           /\ ElectedAreBacked' /\ VoteOnce'
  <1>1. RequestsAreCampaigns'
    BY DEF ElectionInv, RequestsAreCampaigns
  <1>2. ResponsesAreVotes'
    BY DEF ElectionInv, ResponsesAreVotes
  <1>3. VoicesAreElected'
    BY DEF ElectionInv, VoicesAreElected
  <1>4. ElectedAreBacked'
    BY DEF ElectionInv, ElectedAreBacked
  <1>5. VoteOnce'
    BY DEF ElectionInv, VoteOnce
  <1> QED BY <1>1, <1>2, <1>3, <1>4, <1>5

\* The counters are kept or zeroed, and the role is not raised.
LEMMA QuietCounters ==
    ASSUME TypeOK, ElectionInv, NEW n \in Node, NEW clear \in BOOLEAN, NEW r,
           ClearCounters(n, clear), role' = [role EXCEPT ![n] = r], r # "CANDIDATE",
           \A p \in Node \ {n} : currentTerm'[p] = currentTerm[p],
           UNCHANGED <<fd, votes>>
    PROVE  CountersAreVotes'
  BY DEF TypeOK, ServerOK, CandidateOK, ElectionInv, CountersAreVotes, ClearCounters

\* The leader hint of the other nodes is not touched.
LEMMA QuietHints ==
    ASSUME TypeOK, ElectionInv, NEW n \in Node, NEW t, NEW r, NEW h,
           r # "LEADER" \/ h = n,
           h = Nil \/ [leader |-> h, term |-> t] \in elected,
           role' = [role EXCEPT ![n] = r], leaderId' = [leaderId EXCEPT ![n] = h],
           currentTerm' = [currentTerm EXCEPT ![n] = t], elected \subseteq elected'
    PROVE  LeaderIsElected'
  BY DEF TypeOK, ServerOK, ElectionInv, LeaderIsElected

\* Adopting a newer term keeps ElectionInv: the vote goes only with its term.
LEMMA ElectionStepDown ==
    ASSUME TypeOK, ElectionInv, NEW n \in Node, NEW m, Answer(m, {}), NEW t \in Term,
           t > currentTerm[n], StepDown(n, t)
    PROVE  ElectionInv'
  <1>1. PICK io \in Outcome(n) : update_term_locked(n, t, io)
    BY DEF StepDown
  <1> DEFINE d == Persisted(io, disk[n], ReplayState(disk[n], t, Nil))
  <1>2. /\ role' = [role EXCEPT ![n] = Demoted(n, io)]
        /\ currentTerm' = [currentTerm EXCEPT ![n] = t]
        /\ votedFor' = [votedFor EXCEPT ![n] = Nil]
        /\ leaderId' = [leaderId EXCEPT ![n] = Nil]
        /\ disk' = [disk EXCEPT ![n] = d]
        /\ ClearCounters(n, io = "ok")
    BY <1>1 DEF update_term_locked
  <1>3. UNCHANGED <<fd, votes, elected>>
    BY DEF StepDown, history
  <1>4. Adopts(n, t, Nil, d)
    <2>1. disk[n] \in Store
      BY DEF TypeOK, StorageOK
    <2>2. ~fd[n] => io = "lost"
      BY DEF Outcome
    <2>3. SameState(disk[n], d) \/ (fd[n] /\ (d.ok => d.term = t))
      BY <2>1, <2>2 DEF SameState, Persisted, ReplayState, Store
    <2> HIDE DEF d
    <2> QED BY <1>2, <1>3, <2>3 DEF Adopts, TypeOK, ServerOK, Term
  <1>5. MemoryKeepsVotes' /\ DiskKeepsVotes'
    BY <1>4, AdoptKeepsVotes
  <1>6. \A k \in net' : k \in net \/ k.type = "AppendEntriesResponse"
    BY DEF Answer
  <1>7. CountersAreVotes'
    <2>1. Demoted(n, io) # "CANDIDATE"
      BY DEF Demoted
    <2> QED BY <1>2, <1>3, <2>1, QuietCounters DEF TypeOK, ServerOK
  <1>8. LeaderIsElected'
    BY <1>2, <1>3, DemotedType, QuietHints
  <1> QED BY <1>3, <1>5, <1>6, <1>7, <1>8, QuietNet DEF ElectionInv

-----------------------------------------------------------------------------
(* The initial state, and steps that leave the election alone *)

\* Nothing has been voted, won, sent or counted yet.
LEMMA ElectionInit == Init => ElectionInv
  <1> SUFFICES ASSUME Init PROVE ElectionInv
    OBVIOUS
  <1>1. MemoryKeepsVotes /\ DiskKeepsVotes /\ VoteOnce /\ ElectedAreBacked
    BY DEF Init, MemoryKeepsVotes, DiskKeepsVotes, VoteOnce, ElectedAreBacked
  <1>2. RequestsAreCampaigns /\ ResponsesAreVotes /\ VoicesAreElected
    BY DEF Init, RequestsAreCampaigns, ResponsesAreVotes, VoicesAreElected
  <1>3. CountersAreVotes /\ LeaderIsElected
    BY DEF Init, CountersAreVotes, LeaderIsElected
  <1> QED BY <1>1, <1>2, <1>3 DEF ElectionInv

\* A step that changes no term, vote, role, counter or winner, writes at most
\* entry records, and sends at most what the winner of a term may send.
LEMMA ElectionQuiet ==
    ASSUME TypeOK, ElectionInv,
           UNCHANGED <<leaderId, currentTerm, votedFor, cstate, fd, votes, elected>>,
           \A p \in Node : role'[p] = role[p] \/ role'[p] = "FAILED",
           \A p \in Node : SameState(disk[p], disk'[p]),
           \A m \in net' : \/ m \in net \/ m.type = "AppendEntriesResponse"
                           \/ /\ m.type = "AppendEntries"
                              /\ [leader |-> m.from, term |-> m.term] \in elected
    PROVE  ElectionInv'
  <1>1. MemoryKeepsVotes'
    BY DEF ElectionInv, MemoryKeepsVotes
  <1>2. DiskKeepsVotes'
    BY DEF TypeOK, HistoryOK, ElectionInv, DiskKeepsVotes, SameState
  <1>3. RequestsAreCampaigns' /\ ResponsesAreVotes'
    BY DEF ElectionInv, RequestsAreCampaigns, ResponsesAreVotes
  <1>4. VoicesAreElected'
    BY DEF ElectionInv, VoicesAreElected
  <1>5. CountersAreVotes'
    BY DEF ElectionInv, CountersAreVotes, cstate
  <1>6. ElectedAreBacked' /\ VoteOnce'
    BY DEF ElectionInv, ElectedAreBacked, VoteOnce
  <1>7. LeaderIsElected'
    BY DEF ElectionInv, LeaderIsElected
  <1> QED BY <1>1, <1>2, <1>3, <1>4, <1>5, <1>6, <1>7 DEF ElectionInv

\* Every file is the same as before.
LEMMA SameDisk ==
    ASSUME disk' = disk
    PROVE  \A p \in Node : SameState(disk[p], disk'[p])
  BY DEF SameState

\* raft_append_entries and heartbeat_tick speak for the winner of the term.
LEMMA ElectionSend ==
    ASSUME TypeOK, ElectionInv, NEW n \in Node,
           (\E p \in Node : raft_append_entries(n, p)) \/ heartbeat_tick(n)
    PROVE  ElectionInv'
  <1>1. [leader |-> n, term |-> currentTerm[n]] \in elected
    <2>1. role[n] = "LEADER"
      BY DEF raft_append_entries, heartbeat_tick
    <2>2. leaderId[n] = n /\ n # Nil
      BY <2>1 DEF ElectionInv, LeaderIsElected
    <2>3. leaderId[n] # Nil => [leader |-> leaderId[n], term |-> currentTerm[n]] \in elected
      BY DEF ElectionInv, LeaderIsElected
    <2> QED BY <2>2, <2>3
  <1>2. \A m \in net' : m \in net \/ (m.type = "AppendEntries" /\ m.from = n
                                      /\ m.term = currentTerm[n])
    BY DEF raft_append_entries, heartbeat_tick, Send, AppendRequest
  <1>3. UNCHANGED <<role, leaderId, currentTerm, votedFor, cstate, fd, votes, elected, disk>>
    BY DEF raft_append_entries, heartbeat_tick, pstate, cstate, history
  <1> QED BY <1>1, <1>2, <1>3, SameDisk, ElectionQuiet

\* The leader's log and indices, and the entries handed out, are no part of it.
LEMMA ElectionLeaderStep ==
    ASSUME TypeOK, ElectionInv, NEW n \in Node,
           raft_leader_send_command(n) \/ raft_commit_entry(n)
    PROVE  ElectionInv'
  <1>1. UNCHANGED <<leaderId, currentTerm, votedFor, cstate, fd, votes, elected, net>>
    BY DEF raft_leader_send_command, raft_commit_entry, pstate, cstate, history
  <1>2. \A p \in Node : role'[p] = role[p] \/ role'[p] = "FAILED"
    BY DEF raft_leader_send_command, raft_commit_entry, AcceptCommand, TypeOK, ServerOK
  <1>3. \A p \in Node : SameState(disk[p], disk'[p])
    <2>1. CASE raft_commit_entry(n)
      BY <2>1, SameDisk DEF raft_commit_entry
    <2>2. CASE raft_leader_send_command(n)
      <3>1. PICK e, io : disk' = [disk EXCEPT ![n] =
                            Persisted(io, disk[n], ReplayEntries(disk[n], <<e>>))]
        BY <2>2 DEF raft_leader_send_command, AcceptCommand
      <3>2. disk[n] \in Store
        BY DEF TypeOK, StorageOK
      <3>3. SameState(disk[n], ReplayEntries(disk[n], <<e>>))
        BY <3>2, ReplayKeepsState
      <3> QED BY <3>1, <3>3 DEF TypeOK, StorageOK, SameState, Persisted
    <2> QED BY <2>1, <2>2
  <1> QED BY <1>1, <1>2, <1>3, ElectionQuiet

\* A message that is dropped, or a response that is not used.
LEMMA ElectionIgnored ==
    ASSUME TypeOK, ElectionInv, IgnoreResponse, net' \subseteq net
    PROVE  ElectionInv'
  BY SameDisk, ElectionQuiet DEF IgnoreResponse, pstate, cstate, history

\* HandleAppendEntriesResponse keeps ElectionInv.
LEMMA ElectionAppendResponse ==
    ASSUME TypeOK, ElectionInv, NEW n \in Node, HandleAppendEntriesResponse(n)
    PROVE  ElectionInv'
  <1>1. PICK m \in Inbox(n, "AppendEntriesResponse") :
          /\ Answer(m, {})
          /\ \/ IgnoreResponse
             \/ Newer(n, m) /\ StepDown(n, m.term)
             \/ UNCHANGED <<role, leaderId, pstate, cstate, fd, disk, votes, elected>>
    BY DEF HandleAppendEntriesResponse
  <1>2. m.term \in Term
    BY InboxType DEF TypeOK
  <1>3. net' \subseteq net
    BY <1>1 DEF Answer
  <1>4. CASE IgnoreResponse
    BY <1>3, <1>4, ElectionIgnored
  <1>5. CASE Newer(n, m) /\ StepDown(n, m.term)
    BY <1>1, <1>2, <1>5, ElectionStepDown DEF Newer
  <1>6. CASE UNCHANGED <<role, leaderId, pstate, cstate, fd, disk, votes, elected>>
    BY <1>3, <1>6, SameDisk, ElectionQuiet DEF pstate
  <1> QED BY <1>1, <1>4, <1>5, <1>6

-----------------------------------------------------------------------------
(* AppendEntries at a follower *)

\* Only a response enters the network.
LEMMA ReplyOnly ==
    ASSUME NEW n, NEW m, NEW t, NEW success, AppendReply(n, m, t, success)
    PROVE  \A k \in net' : k \in net \/ k.type = "AppendEntriesResponse"
  BY DEF AppendReply, Answer

\* Refusing a request of an older term keeps ElectionInv.
LEMMA ElectionAppendStale ==
    ASSUME TypeOK, ElectionInv, NEW n \in Node, NEW m, AppendStale(n, m)
    PROVE  ElectionInv'
  <1>1. \A k \in net' : k \in net \/ k.type = "AppendEntriesResponse"
    BY ReplyOnly DEF AppendStale
  <1>2. UNCHANGED <<role, leaderId, currentTerm, votedFor, cstate, fd, votes, elected, disk>>
    BY DEF AppendStale, pstate, cstate, history
  <1> QED BY <1>1, <1>2, SameDisk, ElectionQuiet

\* A failure to persist the request's term keeps ElectionInv.
LEMMA ElectionAppendTermFault ==
    ASSUME TypeOK, ElectionInv, NEW n \in Node, NEW m \in AppendEntries,
           AppendTermFault(n, m)
    PROVE  ElectionInv'
  <1>1. PICK io \in Outcome(n) \ {"ok"} : disk' = [disk EXCEPT ![n] =
                              Persisted(io, disk[n], ReplayState(disk[n], m.term, Nil))]
    BY DEF AppendTermFault
  <1> DEFINE d == Persisted(io, disk[n], ReplayState(disk[n], m.term, Nil))
  <1>2. Adopts(n, m.term, Nil, d)
    <2>1. disk[n] \in Store /\ m.term \in Term /\ currentTerm[n] \in Term
      BY DEF TypeOK, StorageOK, ServerOK, AppendEntries
    <2>2. ~fd[n] => io = "lost"
      BY <1>1 DEF Outcome
    <2>3. SameState(disk[n], d) \/ (fd[n] /\ (d.ok => d.term = m.term))
      BY <2>1, <2>2 DEF SameState, Persisted, ReplayState, Store
    <2>4. disk' = [disk EXCEPT ![n] = d]
      BY <1>1
    <2>5. /\ m.term > currentTerm[n]
          /\ currentTerm' = [currentTerm EXCEPT ![n] = m.term]
          /\ votedFor' = [votedFor EXCEPT ![n] = Nil]
          /\ UNCHANGED <<fd, votes>>
      BY DEF AppendTermFault, history, Newer
    <2> HIDE DEF d
    <2> QED BY <2>1, <2>3, <2>4, <2>5 DEF Adopts, Term
  <1>3. MemoryKeepsVotes' /\ DiskKeepsVotes'
    BY <1>2, AdoptKeepsVotes
  <1>4. \A k \in net' : k \in net \/ k.type = "AppendEntriesResponse"
    BY ReplyOnly DEF AppendTermFault
  <1>5. UNCHANGED <<cstate, fd, votes, elected>>
    BY DEF AppendTermFault, history
  <1>6. CountersAreVotes'
    BY <1>5 DEF TypeOK, ServerOK, ElectionInv, CountersAreVotes, AppendTermFault, cstate
  <1>7. LeaderIsElected'
    BY <1>5, QuietHints DEF AppendTermFault
  <1> QED BY <1>3, <1>4, <1>5, <1>6, <1>7, QuietNet DEF ElectionInv

\* The sender of an AppendEntries becomes the leader; whatever entry records
\* follow, the file keeps the adopted term and the vote.
LEMMA ElectionFollow ==
    ASSUME TypeOK, ElectionInv, NEW n \in Node, NEW m \in AppendEntries, m \in net,
           NEW failed \in BOOLEAN, Follow(n, m, failed),
           NEW d, disk' = [disk EXCEPT ![n] = d], SameState(FollowFile(n, m), d),
           \A k \in net' : k \in net \/ k.type = "AppendEntriesResponse",
           UNCHANGED <<fd, votes, elected>>
    PROVE  ElectionInv'
  <1>1. disk[n] \in Store /\ m.term \in Term /\ currentTerm[n] \in Term
    BY DEF TypeOK, StorageOK, ServerOK, AppendEntries
  <1>2. Adopts(n, m.term, CurrentVote(n, m), d)
    <2>1. CASE Newer(n, m)
      <3>1. d.ok => d.term = m.term
        BY <1>1, <2>1 DEF SameState, FollowFile, ReplayState, Store
      <3> QED BY <1>1, <2>1, <3>1 DEF Adopts, Follow, Newer, CurrentVote
    <2>2. CASE ~Newer(n, m)
      <3>1. SameState(disk[n], d)
        BY <2>2 DEF FollowFile
      <3> QED BY <1>1, <2>2, <3>1 DEF Adopts, Follow, Newer, CurrentVote, Term
    <2> QED BY <2>1, <2>2
  <1>3. MemoryKeepsVotes' /\ DiskKeepsVotes'
    BY <1>2, AdoptKeepsVotes
  <1> DEFINE r == IF failed \/ role[n] = "FAILED" THEN "FAILED" ELSE "FOLLOWER"
  <1>4. role' = [role EXCEPT ![n] = r] /\ r # "CANDIDATE" /\ r # "LEADER"
    BY DEF Follow
  <1> HIDE DEF r
  <1>5. CountersAreVotes'
    <2>1. ClearCounters(n, Newer(n, m)) /\ Newer(n, m) \in BOOLEAN
      BY DEF Follow, Newer
    <2>2. \A p \in Node \ {n} : currentTerm'[p] = currentTerm[p]
      BY DEF Follow, TypeOK, ServerOK
    <2> QED BY <1>4, <2>1, <2>2, QuietCounters
  <1>6. LeaderIsElected'
    <2>1. [leader |-> m.from, term |-> m.term] \in elected
      BY DEF ElectionInv, VoicesAreElected, AppendEntries
    <2> QED BY <1>4, <2>1, QuietHints DEF Follow
  <1> QED BY <1>3, <1>5, <1>6, QuietNet DEF ElectionInv

\* Refusing a request whose predecessor does not match keeps ElectionInv.
LEMMA ElectionAppendMismatch ==
    ASSUME TypeOK, ElectionInv, NEW n \in Node, NEW m \in AppendEntries, m \in net,
           AppendMismatch(n, m)
    PROVE  ElectionInv'
  <1>1. SameState(FollowFile(n, m), FollowFile(n, m))
    BY DEF SameState
  <1>2. \A k \in net' : k \in net \/ k.type = "AppendEntriesResponse"
    BY ReplyOnly DEF AppendMismatch
  <1> QED BY <1>1, <1>2, ElectionFollow DEF AppendMismatch, history

\* Storing entries keeps ElectionInv: log records carry no vote.
LEMMA ElectionAppendStored ==
    ASSUME TypeOK, ElectionInv, NEW n \in Node, NEW m \in AppendEntries, m \in net,
           AppendStored(n, m)
    PROVE  ElectionInv'
  <1>1. PICK last \in 0 .. Len(m.entries) : \E first \in 1 .. last + 1 :
          Scan(n, m, first, last) /\ StoreEntries(n, m, first, last)
    BY DEF AppendStored
  <1>2. PICK first \in 1 .. last + 1 :
          Scan(n, m, first, last) /\ StoreEntries(n, m, first, last)
    BY <1>1
  <1> DEFINE d == IF first <= last
                  THEN ReplayEntries(CutFile(n, m, first), SubSeq(m.entries, first, last))
                  ELSE FollowFile(n, m)
  <1>3. disk' = [disk EXCEPT ![n] = d]
    BY <1>2 DEF StoreEntries
  <1>4. /\ Len(m.entries) \in Nat /\ m.prevLogIndex \in Index
        /\ last > 0 => m.prevLogIndex + last <= LogCap
    BY <1>2, ScanBounds
  <1>5. SameState(FollowFile(n, m), d)
    <2>1. CASE first <= last
      <3>1. first \in Nat \ {0} /\ m.prevLogIndex + first <= LogCap
        BY <1>4, <2>1 DEF Index
      <3> QED BY <2>1, <3>1, LoopKeepsState
    <2>2. CASE ~(first <= last)
      BY <2>2 DEF SameState
    <2> QED BY <2>1, <2>2
  <1>6. \A k \in net' : k \in net \/ k.type = "AppendEntriesResponse"
    BY <1>2, ReplyOnly DEF StoreEntries
  <1> HIDE DEF d
  <1> QED BY <1>3, <1>5, <1>6, ElectionFollow DEF AppendStored, history

\* A failure to persist the truncation keeps ElectionInv.
LEMMA ElectionAppendTruncateFault ==
    ASSUME TypeOK, ElectionInv, NEW n \in Node, NEW m \in AppendEntries, m \in net,
           AppendTruncateFault(n, m)
    PROVE  ElectionInv'
  <1>1. PICK last \in 1 .. Len(m.entries) : \E first \in 1 .. last, io \in Outcome(n) :
          /\ Scan(n, m, first, last)
          /\ disk' = [disk EXCEPT ![n] =
                         Persisted(io, FollowFile(n, m), CutFile(n, m, first))]
    BY DEF AppendTruncateFault
  <1>2. PICK first \in 1 .. last, io \in Outcome(n) :
          /\ Scan(n, m, first, last)
          /\ disk' = [disk EXCEPT ![n] =
                         Persisted(io, FollowFile(n, m), CutFile(n, m, first))]
    BY <1>1
  <1>3. /\ Len(m.entries) \in Nat /\ m.prevLogIndex \in Index
        /\ m.prevLogIndex + last <= LogCap
    BY <1>2, ScanBounds DEF Index
  <1>4. first \in Nat \ {0} /\ m.prevLogIndex + first <= LogCap
    BY <1>3 DEF Index
  <1> DEFINE d == Persisted(io, FollowFile(n, m), CutFile(n, m, first))
  <1>5. SameState(FollowFile(n, m), d)
    <2>1. /\ SameState(FollowFile(n, m), FollowFile(n, m))
          /\ SameState(FollowFile(n, m), CutFile(n, m, first))
      BY <1>4, LoopKeepsState DEF SameState
    <2> QED BY <2>1, PersistedKeepsState
  <1>6. \A k \in net' : k \in net \/ k.type = "AppendEntriesResponse"
    BY ReplyOnly DEF AppendTruncateFault
  <1>7. disk' = [disk EXCEPT ![n] = d]
    BY <1>2
  <1> HIDE DEF d
  <1> QED BY <1>5, <1>6, <1>7, ElectionFollow DEF AppendTruncateFault, history

\* A failure to persist an entry keeps ElectionInv.
LEMMA ElectionAppendEntryFault ==
    ASSUME TypeOK, ElectionInv, NEW n \in Node, NEW m \in AppendEntries, m \in net,
           AppendEntryFault(n, m)
    PROVE  ElectionInv'
  <1>1. PICK last \in 1 .. Len(m.entries) : \E first \in 1 .. last : \E at \in first .. last :
         /\ Scan(n, m, first, last)
         /\ \E io \in Outcome(n) \ {"ok"} : StoreUntil(n, m, first, at, io)
    BY DEF AppendEntryFault
  <1>2. PICK first \in 1 .. last : \E at \in first .. last :
         /\ Scan(n, m, first, last)
         /\ \E io \in Outcome(n) \ {"ok"} : StoreUntil(n, m, first, at, io)
    BY <1>1
  <1>3. PICK at \in first .. last, io \in Outcome(n) :
          Scan(n, m, first, last) /\ StoreUntil(n, m, first, at, io)
    BY <1>2
  <1>4. /\ Len(m.entries) \in Nat /\ m.prevLogIndex \in Index
        /\ m.prevLogIndex + last <= LogCap
    BY <1>3, ScanBounds DEF Index
  <1>5. first \in Nat \ {0} /\ m.prevLogIndex + first <= LogCap
    BY <1>4 DEF Index
  <1> DEFINE d == Persisted(io,
                    ReplayEntries(CutFile(n, m, first), SubSeq(m.entries, first, at - 1)),
                    ReplayEntries(CutFile(n, m, first), SubSeq(m.entries, first, at)))
  <1>6. disk' = [disk EXCEPT ![n] = d]
    BY <1>3 DEF StoreUntil
  <1>7. SameState(FollowFile(n, m), d)
    <2>1. \A es : SameState(FollowFile(n, m), ReplayEntries(CutFile(n, m, first), es))
      BY <1>5, LoopKeepsState
    <2> QED BY <2>1, PersistedKeepsState
  <1>8. \A k \in net' : k \in net \/ k.type = "AppendEntriesResponse"
    BY ReplyOnly DEF AppendEntryFault
  <1> HIDE DEF d
  <1> QED BY <1>6, <1>7, <1>8, ElectionFollow DEF AppendEntryFault, history

\* HandleAppendEntriesRequest keeps ElectionInv, whichever way it returns.
LEMMA ElectionAppendRequest ==
    ASSUME TypeOK, ElectionInv, NEW n \in Node, HandleAppendEntriesRequest(n)
    PROVE  ElectionInv'
  <1>1. PICK m \in Inbox(n, "AppendEntries") :
          \/ AppendStale(n, m) \/ AppendTermFault(n, m) \/ AppendMismatch(n, m)
          \/ AppendStored(n, m) \/ AppendTruncateFault(n, m) \/ AppendEntryFault(n, m)
    BY DEF HandleAppendEntriesRequest
  <1>2. m \in AppendEntries /\ m \in net
    BY InboxType DEF TypeOK
  <1> QED
    BY <1>1, <1>2, ElectionAppendStale, ElectionAppendTermFault, ElectionAppendMismatch,
       ElectionAppendStored, ElectionAppendTruncateFault, ElectionAppendEntryFault

-----------------------------------------------------------------------------
(* Giving a vote *)

\* Node n gives its vote in term t to c, having written it: nobody's memory but
\* n's changes, and n had given no other vote in t.
GivesVote(n, t, c) ==
    /\ t \in Term /\ c \in Node /\ fd[n]
    /\ \/ t > currentTerm[n]
       \/ t = currentTerm[n] /\ votedFor[n] \in {Nil, c}
    /\ currentTerm' = [currentTerm EXCEPT ![n] = t]
    /\ votedFor' = [votedFor EXCEPT ![n] = c]
    /\ votes' = votes \cup {Vote(n, c, t)}
    /\ fd' = fd
    /\ \E d : /\ disk' = [disk EXCEPT ![n] = d]
              /\ d.ok => d.term = t /\ d.votedFor = c

\* The vote is consistent with those given before, and remembered.
LEMMA VoteKeepsVotes ==
    ASSUME TypeOK, ElectionInv, NEW n \in Node, NEW t, NEW c, GivesVote(n, t, c)
    PROVE  MemoryKeepsVotes' /\ DiskKeepsVotes' /\ VoteOnce'
  <1>1. \A v \in votes : v.voter \in Node /\ v.candidate \in Node /\ v.term \in Term
    BY DEF TypeOK, HistoryOK
  <1>2. currentTerm[n] \in Term /\ t \in Term /\ c \in Node
    BY DEF TypeOK, ServerOK, GivesVote
  <1>3. \A v \in votes : v.voter = n => Pledged(t, c, v)
    <2> SUFFICES ASSUME NEW v \in votes, v.voter = n PROVE Pledged(t, c, v)
      OBVIOUS
    <2>1. Pledged(currentTerm[n], votedFor[n], v)
      BY DEF ElectionInv, MemoryKeepsVotes, GivesVote
    <2>2. CASE t > currentTerm[n]
      BY <1>1, <1>2, <2>1, <2>2 DEF Pledged, Term
    <2>3. CASE t = currentTerm[n] /\ votedFor[n] \in {Nil, c}
      BY <1>1, <1>2, <2>1, <2>3 DEF Pledged
    <2> QED BY <2>2, <2>3 DEF GivesVote
  <1>4. Pledged(t, c, Vote(n, c, t))
    BY DEF Pledged, Vote
  <1>5. Vote(n, c, t).voter = n /\ Vote(n, c, t).candidate = c /\ Vote(n, c, t).term = t
    BY DEF Vote
  <1>6. MemoryKeepsVotes'
    <2> SUFFICES ASSUME NEW v \in votes', fd'[v.voter]
                 PROVE  Pledged(currentTerm'[v.voter], votedFor'[v.voter], v)
      BY DEF MemoryKeepsVotes
    <2>1. CASE v.voter = n
      BY <1>3, <1>4, <2>1 DEF GivesVote, TypeOK, ServerOK
    <2>2. CASE v.voter # n
      <3>1. v \in votes
        BY <1>5, <2>2 DEF GivesVote
      <3> QED BY <1>1, <2>2, <3>1 DEF ElectionInv, MemoryKeepsVotes, GivesVote, TypeOK, ServerOK
    <2> QED BY <2>1, <2>2
  <1>7. DiskKeepsVotes'
    <2> SUFFICES ASSUME NEW v \in votes', disk'[v.voter].ok
                 PROVE  Pledged(disk'[v.voter].term, disk'[v.voter].votedFor, v)
      BY DEF DiskKeepsVotes
    <2>1. PICK d : disk' = [disk EXCEPT ![n] = d] /\ (d.ok => d.term = t /\ d.votedFor = c)
      BY DEF GivesVote
    <2>2. CASE v.voter = n
      <3>1. disk'[n] = d
        BY <2>1 DEF TypeOK, StorageOK
      <3>2. Pledged(t, c, v)
        BY <1>3, <1>4, <2>2 DEF GivesVote
      <3> QED BY <2>1, <2>2, <3>1, <3>2
    <2>3. CASE v.voter # n
      <3>1. v \in votes
        BY <1>5, <2>3 DEF GivesVote
      <3> QED BY <1>1, <2>1, <2>3, <3>1 DEF ElectionInv, DiskKeepsVotes, TypeOK, StorageOK
    <2> QED BY <2>2, <2>3
  <1>8. VoteOnce'
    <2> SUFFICES ASSUME NEW u \in votes', NEW v \in votes', u.voter = v.voter, u.term = v.term
                 PROVE  u.candidate = v.candidate
      BY DEF VoteOnce
    <2>1. \A w \in votes : w.voter = n /\ w.term = t => w.candidate = c
      BY <1>1, <1>2, <1>3 DEF Pledged, Term
    <2>2. CASE u \in votes /\ v \in votes
      BY <2>2 DEF ElectionInv, VoteOnce
    <2> QED BY <1>5, <2>1, <2>2 DEF GivesVote
  <1> QED BY <1>6, <1>7, <1>8

\* What was backed by votes, or was a vote, stays so when votes are added.
LEMMA MoreVotes ==
    ASSUME ElectionInv, votes \subseteq votes'
    PROVE  /\ elected' = elected => ElectedAreBacked'
           /\ \A m \in net : /\ m.type = "RequestVote" => Vote(m.from, m.from, m.term) \in votes'
                             /\ m.type = "RequestVoteResponse" /\ m.voteGranted
                                  => \E t \in Term : /\ m.term <= t
                                                     /\ Vote(m.from, m.to, t) \in votes'
                                                     /\ Vote(m.to, m.to, t) \in votes'
  <1>1. elected' = elected => ElectedAreBacked'
    BY DEF ElectionInv, ElectedAreBacked
  <1> QED BY <1>1 DEF ElectionInv, RequestsAreCampaigns, ResponsesAreVotes

\* A candidate with the votes of a majority is backed.
LEMMA WinnerIsBacked ==
    ASSUME ElectionInv, votes \subseteq votes', NEW n \in Node, NEW t, NEW S \in SUBSET Node,
           elected' = elected \cup {[leader |-> n, term |-> t]},
           n \notin S, Cardinality(S) + 1 >= majority(Cardinality(Node)),
           \A p \in S \cup {n} : Vote(p, n, t) \in votes'
    PROVE  ElectedAreBacked'
  <1> SUFFICES ASSUME NEW e \in elected'
               PROVE  \E T \in SUBSET Node :
                        /\ e.leader \notin T
                        /\ Cardinality(T) + 1 >= majority(Cardinality(Node))
                        /\ \A p \in T \cup {e.leader} : Vote(p, e.leader, e.term) \in votes'
    BY DEF ElectedAreBacked
  <1>1. CASE e \in elected
    BY <1>1 DEF ElectionInv, ElectedAreBacked
  <1>2. CASE e = [leader |-> n, term |-> t]
    BY <1>2
  <1> QED BY <1>1, <1>2

\* raft_timeout keeps ElectionInv: the vote for itself is in the file before it counts.
LEMMA ElectionTimeout ==
    ASSUME TypeOK, ElectionInv, NEW n \in Node, raft_timeout(n)
    PROVE  ElectionInv'
  <1>1. PICK io \in Outcome(n) : StartElection(n, io)
    BY DEF raft_timeout
  <1> DEFINE t == currentTerm[n] + 1
             d == Persisted(io, disk[n], ReplayState(disk[n], t, n))
  <1>2. currentTerm[n] \in Term /\ t \in Term /\ t > currentTerm[n] /\ t # 0 /\ disk[n] \in Store
    BY DEF TypeOK, ServerOK, StorageOK, raft_timeout, Term
  <1>3. /\ currentTerm' = [currentTerm EXCEPT ![n] = t]
        /\ votedFor' = [votedFor EXCEPT ![n] = n]
        /\ disk' = [disk EXCEPT ![n] = d]
        /\ fd' = fd
    BY <1>1 DEF StartElection, raft_timeout
  <1>4. ~fd[n] => io = "lost"
    BY <1>1 DEF Outcome
  <1>5. CASE io # "ok"
    <2>1. /\ UNCHANGED <<cstate, votes, elected>>
          /\ role' = [role EXCEPT ![n] = "CANDIDATE"]
          /\ leaderId' = [leaderId EXCEPT ![n] = Nil]
          /\ net' = net
      BY <1>1, <1>5 DEF StartElection, Send
    <2>2. SameState(disk[n], d) \/ (fd[n] /\ (d.ok => d.term = t))
      BY <1>2, <1>4 DEF SameState, Persisted, ReplayState, Store
    <2> HIDE DEF d, t
    <2>3. Adopts(n, t, n, d)
      BY <1>2, <1>3, <2>1, <2>2 DEF Adopts
    <2>4. MemoryKeepsVotes' /\ DiskKeepsVotes'
      BY <2>3, AdoptKeepsVotes
    <2>5. CountersAreVotes'
      BY <1>2, <1>3, <2>1 DEF TypeOK, ServerOK, ElectionInv, CountersAreVotes, cstate
    <2>6. LeaderIsElected'
      BY <1>3, <2>1, QuietHints
    <2> QED BY <2>1, <2>4, <2>5, <2>6, QuietNet DEF ElectionInv
  <1>6. CASE io = "ok"
    <2>1. /\ electionterm' = [electionterm EXCEPT ![n] = t]
          /\ votesGranted' = [votesGranted EXCEPT ![n] = {}]
          /\ votes' = votes \cup {Vote(n, n, t)}
      BY <1>1, <1>6 DEF StartElection
    <2>2. d.ok => d.term = t /\ d.votedFor = n
      BY <1>2, <1>6 DEF Persisted, ReplayState, Store
    <2>3. fd[n]
      BY <1>4, <1>6
    <2>4. \A m \in net' \ net : m.type = "RequestVote" /\ m.from = n /\ m.term = t
      BY <1>1 DEF StartElection, Send, VoteRequests
    <2>5. \/ BecomeLeader(n, t) /\ majority(Cardinality(Node)) = 1
          \/ /\ role' = [role EXCEPT ![n] = "CANDIDATE"]
             /\ leaderId' = [leaderId EXCEPT ![n] = Nil]
             /\ elected' = elected
      BY <1>1, <1>6 DEF StartElection
    <2> HIDE DEF d, t
    <2>6. GivesVote(n, t, n)
      BY <1>2, <1>3, <2>1, <2>2, <2>3 DEF GivesVote
    <2>7. MemoryKeepsVotes' /\ DiskKeepsVotes' /\ VoteOnce'
      BY <2>6, VoteKeepsVotes
    <2>8. RequestsAreCampaigns' /\ ResponsesAreVotes'
      <3>1. Vote(n, n, t) \in votes' /\ votes \subseteq votes'
        BY <2>1
      <3>2. RequestsAreCampaigns'
        BY <2>4, <3>1, MoreVotes DEF RequestsAreCampaigns
      <3>3. ResponsesAreVotes'
        <4> SUFFICES ASSUME NEW m \in net', m.type = "RequestVoteResponse", m.voteGranted
                     PROVE  \E u \in Term : /\ m.term <= u
                                            /\ Vote(m.from, m.to, u) \in votes'
                                            /\ Vote(m.to, m.to, u) \in votes'
          BY DEF ResponsesAreVotes
        <4>1. m \in net
          BY <2>4
        <4> QED BY <3>1, <4>1, MoreVotes
      <3> QED BY <3>2, <3>3
    <2>9. CountersAreVotes'
      BY <1>2, <1>3, <2>1, <2>3, <2>5
      DEF TypeOK, ServerOK, CandidateOK, ElectionInv, CountersAreVotes, BecomeLeader
    <2>10. VoicesAreElected'
      <3>1. elected \subseteq elected'
        BY <2>5 DEF BecomeLeader
      <3> QED BY <2>4, <3>1 DEF ElectionInv, VoicesAreElected
    <2>11. ElectedAreBacked' /\ LeaderIsElected'
      <3>1. CASE BecomeLeader(n, t) /\ majority(Cardinality(Node)) = 1
        <4>1. {} \in SUBSET Node /\ Cardinality({}) = 0
          BY FS_EmptySet
        <4>2. elected' = elected \cup {[leader |-> n, term |-> t]}
          BY <3>1 DEF BecomeLeader
        <4>3. ElectedAreBacked'
          BY <2>1, <3>1, <4>1, <4>2, WinnerIsBacked
        <4>4. LeaderIsElected'
          BY <1>3, <3>1 DEF TypeOK, ServerOK, ElectionInv, LeaderIsElected, BecomeLeader
        <4> QED BY <4>3, <4>4
      <3>2. CASE /\ role' = [role EXCEPT ![n] = "CANDIDATE"]
                 /\ leaderId' = [leaderId EXCEPT ![n] = Nil]
                 /\ elected' = elected
        BY <1>3, <2>1, <3>2, MoreVotes, QuietHints
      <3> QED BY <2>5, <3>1, <3>2
    <2> QED BY <2>7, <2>8, <2>9, <2>10, <2>11 DEF ElectionInv
  <1> QED BY <1>5, <1>6

\* HandleRequestVoteRequest keeps ElectionInv: a vote is in the file before it is answered.
LEMMA ElectionRequestVote ==
    ASSUME TypeOK, ElectionInv, NEW n \in Node, HandleRequestVoteRequest(n)
    PROVE  ElectionInv'
  <1>1. PICK m \in Inbox(n, "RequestVote") :
          \E ioTerm \in IF Newer(n, m) THEN Outcome(n) ELSE {"ok"},
             ioVote \in IF Willing(n, m) THEN Outcome(n) ELSE {"ok"} :
               ConsiderVote(n, m, ioTerm, ioVote)
    BY DEF HandleRequestVoteRequest
  <1>2. PICK ioTerm \in IF Newer(n, m) THEN Outcome(n) ELSE {"ok"},
             ioVote \in IF Willing(n, m) THEN Outcome(n) ELSE {"ok"} :
               ConsiderVote(n, m, ioTerm, ioVote)
    BY <1>1
  <1>3. m \in net /\ m.type = "RequestVote" /\ m.from \in Node /\ m.term \in Term
    BY InboxType DEF TypeOK
  <1>4. currentTerm[n] \in Term /\ disk[n] \in Store
    BY DEF TypeOK, ServerOK, StorageOK
  <1> DEFINE t == IF Newer(n, m) THEN m.term ELSE currentTerm[n]
             file == IF Newer(n, m)
                     THEN Persisted(ioTerm, disk[n], ReplayState(disk[n], t, Nil))
                     ELSE disk[n]
             d == IF Willing(n, m)
                  THEN Persisted(ioVote, file, ReplayState(file, t, m.from))
                  ELSE file
             w == IF Willing(n, m) THEN m.from ELSE CurrentVote(n, m)
             r == IF ioVote # "ok" THEN "FAILED"
                  ELSE IF Newer(n, m) THEN Demoted(n, ioTerm) ELSE role[n]
             granted == Willing(n, m) /\ ioVote = "ok"
             reply == [type |-> "RequestVoteResponse", from |-> n, to |-> m.from,
                       term |-> currentTerm[n], voteGranted |-> granted]
  <1>5. /\ currentTerm' = [currentTerm EXCEPT ![n] = t]
        /\ votedFor' = [votedFor EXCEPT ![n] = w]
        /\ leaderId' = [leaderId EXCEPT ![n] = IF Newer(n, m) THEN Nil ELSE leaderId[n]]
        /\ role' = [role EXCEPT ![n] = r]
        /\ disk' = [disk EXCEPT ![n] = d]
        /\ ClearCounters(n, Newer(n, m) /\ ioTerm = "ok")
        /\ votes' = IF granted THEN votes \cup {Vote(n, m.from, t)} ELSE votes
        /\ Answer(m, {reply})
    BY <1>2 DEF ConsiderVote
  <1>6. fd' = fd /\ elected' = elected
    BY DEF HandleRequestVoteRequest
  <1>7. t \in Term /\ currentTerm[n] <= t /\ (Newer(n, m) <=> t > currentTerm[n])
    BY <1>3, <1>4 DEF Newer, Term
  <1>8. Willing(n, m) => t = m.term
    BY <1>3, <1>4 DEF Willing, Newer, Term
  <1>9. ~fd[n] => (Newer(n, m) => ioTerm = "lost") /\ (Willing(n, m) => ioVote = "lost")
    BY <1>2 DEF Outcome
  <1>10. file \in Store /\ (file.ok => disk[n].ok)
    <2>1. ReplayState(disk[n], t, Nil) \in Store
      BY <1>4, <1>7, ReplayStateType
    <2> QED BY <1>4, <2>1, PersistedType DEF Persisted, ReplayState, Store
  <1>11. votes \subseteq votes'
    BY <1>5
  <1>12. MemoryKeepsVotes' /\ DiskKeepsVotes' /\ VoteOnce'
    <2>1. CASE granted
      <3>1. d.ok => d.term = t /\ d.votedFor = m.from
        <4> HIDE DEF file, t
        <4> QED BY <1>10, <2>1 DEF Persisted, ReplayState, Store
      <3>2. t > currentTerm[n] \/ (t = currentTerm[n] /\ votedFor[n] \in {Nil, m.from})
        BY <1>7, <2>1 DEF Willing, CurrentVote
      <3>3. fd[n]
        BY <1>9, <2>1
      <3>4. w = m.from /\ votes' = votes \cup {Vote(n, m.from, t)}
        BY <1>5, <2>1
      <3> HIDE DEF d, t, w
      <3>5. GivesVote(n, t, m.from)
        BY <1>3, <1>5, <1>6, <1>7, <3>1, <3>2, <3>3, <3>4 DEF GivesVote
      <3> QED BY <3>5, VoteKeepsVotes
    <2>2. CASE ~granted
      <3>1. t > currentTerm[n] \/ (t = currentTerm[n] /\ votedFor[n] \in {Nil, w})
        BY <1>7 DEF Willing, CurrentVote
      <3>2. \/ SameState(disk[n], d)
            \/ fd[n] /\ (d.ok => d.term = t /\ (t > currentTerm[n] \/ d.votedFor = w))
        <4>1. CASE ~fd[n]
          BY <1>9, <4>1 DEF Persisted, SameState
        <4>2. CASE fd[n] /\ Newer(n, m)
          <5>1. SameState(disk[n], file) \/ file.term = t
            BY <1>4, <4>2 DEF Persisted, ReplayState, SameState, Store
          <5>2. SameState(disk[n], d) \/ (d.ok => d.term = t)
            <6>1. d = file \/ d = ReplayState(file, t, m.from)
              BY DEF Persisted
            <6>2. LET e == ReplayState(file, t, m.from) IN e.ok => e.term = t
              <7> HIDE DEF file, t
              <7> QED BY <1>10 DEF ReplayState, Store
            <6> HIDE DEF d, file, t
            <6> QED BY <5>1, <6>1, <6>2
          <5> HIDE DEF d, t
          <5> QED BY <1>7, <4>2, <5>2
        <4>3. CASE fd[n] /\ ~Newer(n, m)
          <5>1. file = disk[n]
            BY <4>3
          <5>2. CASE d = disk[n]
            BY <5>2 DEF SameState
          <5>3. CASE Willing(n, m) /\ d = ReplayState(disk[n], t, m.from)
            <6>1. d.ok => d.term = t /\ d.votedFor = m.from
              <7>1. PICK e \in Store : e = disk[n]
                BY <1>4
              <7>2. d = IF e.ok THEN [e EXCEPT !.term = t, !.votedFor = m.from] ELSE e
                BY <5>3, <7>1 DEF ReplayState
              <7> HIDE DEF d, t
              <7> QED BY <7>2 DEF Store
            <6> HIDE DEF d, t
            <6> QED BY <4>3, <5>3, <6>1
          <5> QED BY <5>1, <5>2, <5>3 DEF Persisted
        <4> QED BY <4>1, <4>2, <4>3
      <3>3. votes' = votes
        BY <1>5, <2>2
      <3> HIDE DEF d, t, w
      <3>4. Adopts(n, t, w, d)
        BY <1>5, <1>6, <1>7, <3>1, <3>2, <3>3 DEF Adopts
      <3>5. VoteOnce'
        BY <3>3 DEF ElectionInv, VoteOnce
      <3> QED BY <3>4, <3>5, AdoptKeepsVotes
    <2> QED BY <2>1, <2>2
  <1>13. RequestsAreCampaigns' /\ ResponsesAreVotes' /\ VoicesAreElected' /\ ElectedAreBacked'
    <2>1. \A k \in net' : k \in net \/ k = reply
      BY <1>5 DEF Answer
    <2>2. RequestsAreCampaigns'
      BY <1>11, <2>1, MoreVotes DEF RequestsAreCampaigns
    <2>3. VoicesAreElected'
      BY <1>6, <2>1 DEF ElectionInv, VoicesAreElected
    <2>4. ResponsesAreVotes'
      <3> SUFFICES ASSUME NEW k \in net', k.type = "RequestVoteResponse", k.voteGranted
                   PROVE  \E u \in Term : /\ k.term <= u
                                          /\ Vote(k.from, k.to, u) \in votes'
                                          /\ Vote(k.to, k.to, u) \in votes'
        BY DEF ResponsesAreVotes
      <3>1. CASE k \in net
        BY <1>11, <3>1, MoreVotes
      <3>2. CASE k = reply
        <4>1. granted /\ k.from = n /\ k.to = m.from /\ k.term = currentTerm[n]
          BY <3>2
        <4>2. Vote(n, m.from, t) \in votes'
          BY <1>5, <4>1
        <4>3. Vote(m.from, m.from, m.term) \in votes'
          BY <1>3, <1>11, MoreVotes
        <4>4. t = m.term
          BY <1>8, <4>1
        <4> HIDE DEF t, granted
        <4> QED BY <1>7, <4>1, <4>2, <4>3, <4>4
      <3> QED BY <2>1, <3>1, <3>2
    <2> QED BY <1>6, <1>11, <2>2, <2>3, <2>4, MoreVotes
  <1>14. r = role[n] \/ r \notin {"CANDIDATE", "LEADER"}
    BY DEF Demoted
  <1>15. r = role[n] => t = currentTerm[n] \/ r \notin {"CANDIDATE", "LEADER"}
    BY DEF Demoted
  <1> HIDE DEF r, t, d, w, granted
  <1>16. CountersAreVotes'
    <2>1. \A q \in Node : role'[q] = "CANDIDATE" => role[q] = "CANDIDATE"
                                                     /\ currentTerm'[q] = currentTerm[q]
      BY <1>5, <1>14, <1>15 DEF TypeOK, ServerOK
    <2>2. \A q \in Node : /\ electionterm'[q] = electionterm[q] \/ electionterm'[q] = 0
                          /\ \/ votesGranted'[q] = {}
                             \/ /\ votesGranted'[q] = votesGranted[q]
                                /\ electionterm'[q] = electionterm[q]
      BY <1>5 DEF ClearCounters, TypeOK, CandidateOK
    <2> QED BY <1>6, <1>11, <2>1, <2>2 DEF ElectionInv, CountersAreVotes
  <1>17. LeaderIsElected'
    <2>1. CASE Newer(n, m)
      <3>1. r # "LEADER"
        BY <2>1, DemotedType DEF r
      <3> QED BY <1>5, <1>6, <2>1, <3>1, QuietHints
    <2>2. CASE ~Newer(n, m)
      <3>1. t = currentTerm[n] /\ (r # "LEADER" \/ r = role[n])
        BY <1>14, <2>2 DEF t
      <3>2. /\ leaderId[n] = Nil \/ [leader |-> leaderId[n], term |-> t] \in elected
            /\ r # "LEADER" \/ leaderId[n] = n
        BY <3>1 DEF ElectionInv, LeaderIsElected
      <3> QED BY <1>5, <1>6, <2>2, <3>2, QuietHints
    <2> QED BY <2>1, <2>2
  <1> QED BY <1>12, <1>13, <1>16, <1>17 DEF ElectionInv

-----------------------------------------------------------------------------
(* Counting votes *)

\* A response that HandleRequestVoteResponse counts was given in this election.
LEMMA CountedVote ==
    ASSUME TypeOK, ElectionInv, NEW n \in Node, NEW m \in net,
           m \in RequestVoteResponse, m.to = n, CountsVote(n, m)
    PROVE  /\ electionterm[n] = currentTerm[n]
           /\ Vote(n, n, currentTerm[n]) \in votes
           /\ m.voteGranted => Vote(m.from, n, currentTerm[n]) \in votes
  <1>1. currentTerm[n] \in Term /\ m.term \in Term /\ m.type = "RequestVoteResponse"
    BY DEF TypeOK, ServerOK, RequestVoteResponse
  <1>2. /\ role[n] = "CANDIDATE" /\ m.term = currentTerm[n]
        /\ electionterm[n] = currentTerm[n]
    BY DEF CountsVote
  <1>3. fd[n] /\ Vote(n, n, currentTerm[n]) \in votes
    BY <1>2 DEF ElectionInv, CountersAreVotes
  <1>4. ASSUME m.voteGranted PROVE Vote(m.from, n, currentTerm[n]) \in votes
    <2>1. PICK u \in Term : /\ m.term <= u
                            /\ Vote(m.from, m.to, u) \in votes
                            /\ Vote(m.to, m.to, u) \in votes
      BY <1>1, <1>4 DEF ElectionInv, ResponsesAreVotes
    <2>2. u <= currentTerm[n]
      <3>1. Pledged(currentTerm[n], votedFor[n], Vote(n, n, u))
        BY <1>3, <2>1 DEF ElectionInv, MemoryKeepsVotes, Vote
      <3> QED BY <1>1, <3>1 DEF Pledged, Vote, Term
    <2>3. u = currentTerm[n]
      BY <1>1, <1>2, <2>1, <2>2 DEF Term
    <2> QED BY <2>1, <2>3
  <1> QED BY <1>2, <1>3, <1>4

\* Counting a vote keeps ElectionInv: it was given, and it is counted once.
LEMMA ElectionCountVote ==
    ASSUME TypeOK, ElectionInv, NEW n \in Node, NEW m \in net,
           m \in RequestVoteResponse, m.to = n, Answer(m, {}),
           CountsVote(n, m), CountVote(n, m)
    PROVE  ElectionInv'
  <1> DEFINE t == currentTerm[n]
             granted == IF m.voteGranted THEN votesGranted[n] \cup {m.from}
                                         ELSE votesGranted[n]
  <1>1. /\ votesGranted' = [votesGranted EXCEPT ![n] = granted]
        /\ UNCHANGED <<currentTerm, votedFor, electionterm, fd, disk, votes>>
    BY DEF CountVote, pstate
  <1>2. /\ electionterm[n] = t
        /\ Vote(n, n, t) \in votes
        /\ m.voteGranted => Vote(m.from, n, t) \in votes
    BY CountedVote
  <1>3. granted \in SUBSET Node /\ n \notin granted /\ \A p \in granted : Vote(p, n, t) \in votes
    <2>1. m.from \in Node /\ m.from # n
      BY DEF CountsVote, KnownPeer, Peers
    <2>2. votesGranted[n] \in SUBSET Node /\ n \notin votesGranted[n]
      BY DEF TypeOK, CandidateOK, ElectionInv, CountersAreVotes
    <2>3. \A p \in votesGranted[n] : Vote(p, n, t) \in votes
      BY <1>2 DEF ElectionInv, CountersAreVotes
    <2> QED BY <1>2, <2>1, <2>2, <2>3
  <1>4. \/ /\ BecomeLeader(n, t)
           /\ Cardinality(granted) + 1 >= majority(Cardinality(Node))
        \/ UNCHANGED <<role, leaderId, elected>>
    BY DEF CountVote
  <1> HIDE DEF granted
  <1>5. MemoryKeepsVotes' /\ DiskKeepsVotes' /\ VoteOnce'
    BY <1>1 DEF ElectionInv, MemoryKeepsVotes, DiskKeepsVotes, VoteOnce
  <1>6. net' \subseteq net /\ elected \subseteq elected'
    BY <1>4 DEF Answer, BecomeLeader
  <1>7. RequestsAreCampaigns' /\ ResponsesAreVotes' /\ VoicesAreElected'
    <2>1. RequestsAreCampaigns'
      BY <1>1, <1>6 DEF ElectionInv, RequestsAreCampaigns
    <2>2. ResponsesAreVotes'
      BY <1>1, <1>6 DEF ElectionInv, ResponsesAreVotes
    <2>3. VoicesAreElected'
      BY <1>6 DEF ElectionInv, VoicesAreElected
    <2> QED BY <2>1, <2>2, <2>3
  <1>8. CountersAreVotes'
    <2>1. \A q \in Node : role'[q] = "CANDIDATE" => role[q] = "CANDIDATE"
      BY <1>4 DEF BecomeLeader, TypeOK, ServerOK
    <2> QED BY <1>1, <1>2, <1>3, <2>1 DEF TypeOK, CandidateOK, ElectionInv, CountersAreVotes
  <1>9. ElectedAreBacked' /\ LeaderIsElected'
    <2>1. CASE /\ BecomeLeader(n, t)
               /\ Cardinality(granted) + 1 >= majority(Cardinality(Node))
      <3>1. elected' = elected \cup {[leader |-> n, term |-> t]}
        BY <2>1 DEF BecomeLeader
      <3>2. ElectedAreBacked'
        <4> HIDE DEF t
        <4> QED BY <1>1, <1>2, <1>3, <2>1, <3>1, WinnerIsBacked
      <3>3. LeaderIsElected'
        BY <1>1, <2>1 DEF TypeOK, ServerOK, ElectionInv, LeaderIsElected, BecomeLeader
      <3> QED BY <3>2, <3>3
    <2>2. CASE UNCHANGED <<role, leaderId, elected>>
      BY <1>1, <2>2 DEF ElectionInv, ElectedAreBacked, LeaderIsElected
    <2> QED BY <1>4, <2>1, <2>2
  <1> QED BY <1>5, <1>7, <1>8, <1>9 DEF ElectionInv

\* HandleRequestVoteResponse keeps ElectionInv.
LEMMA ElectionVoteResponse ==
    ASSUME TypeOK, ElectionInv, NEW n \in Node, HandleRequestVoteResponse(n)
    PROVE  ElectionInv'
  <1>1. PICK m \in Inbox(n, "RequestVoteResponse") :
          /\ Answer(m, {})
          /\ \/ Newer(n, m) /\ StepDown(n, m.term)
             \/ CountsVote(n, m) /\ CountVote(n, m)
             \/ IgnoreResponse
    BY DEF HandleRequestVoteResponse
  <1>2. m \in net /\ m.to = n /\ m.term \in Term /\ m \in RequestVoteResponse
    BY InboxType DEF TypeOK
  <1>3. net' \subseteq net
    BY <1>1 DEF Answer
  <1>4. CASE Newer(n, m) /\ StepDown(n, m.term)
    BY <1>1, <1>2, <1>4, ElectionStepDown DEF Newer
  <1>5. CASE CountsVote(n, m) /\ CountVote(n, m)
    BY <1>1, <1>2, <1>5, ElectionCountVote
  <1>6. CASE IgnoreResponse
    BY <1>3, <1>6, ElectionIgnored
  <1> QED BY <1>1, <1>4, <1>5, <1>6

-----------------------------------------------------------------------------
(* Restarts *)

\* A node that can write after its restart has replayed its whole file.
LEMMA ElectionRestart ==
    ASSUME TypeOK, ElectionInv, NEW n \in Node, Restart(n)
    PROVE  ElectionInv'
  <1>1. PICK got, opened : /\ Restore(n, got, opened)
                           /\ opened \in BOOLEAN
                           /\ opened => got = disk[n]
    BY DEF Restart
  <1>2. UNCHANGED <<disk, net, votes, elected>> /\ ClearCounters(n, TRUE)
    BY DEF Restart, history
  <1>3. /\ currentTerm' = [currentTerm EXCEPT ![n] = got.term]
        /\ votedFor' = [votedFor EXCEPT ![n] = got.votedFor]
        /\ fd' = [fd EXCEPT ![n] = opened /\ got.ok]
        /\ role' = [role EXCEPT ![n] = "FOLLOWER"]
        /\ leaderId' = [leaderId EXCEPT ![n] = Nil]
    BY <1>1 DEF Restart, Restore
  <1>4. MemoryKeepsVotes'
    <2> SUFFICES ASSUME NEW v \in votes, fd'[v.voter]
                 PROVE  Pledged(currentTerm'[v.voter], votedFor'[v.voter], v)
      BY <1>2 DEF MemoryKeepsVotes
    <2>1. v.voter \in Node
      BY DEF TypeOK, HistoryOK
    <2>2. CASE v.voter = n
      <3>1. got = disk[n] /\ got.ok
        BY <1>1, <1>3, <2>2 DEF TypeOK, StorageOK
      <3> QED BY <1>3, <2>2, <3>1 DEF TypeOK, ServerOK, ElectionInv, DiskKeepsVotes
    <2>3. CASE v.voter # n
      BY <1>3, <2>1, <2>3 DEF TypeOK, ServerOK, StorageOK, ElectionInv, MemoryKeepsVotes
    <2> QED BY <2>2, <2>3
  <1>5. DiskKeepsVotes'
    BY <1>2 DEF ElectionInv, DiskKeepsVotes
  <1>6. CountersAreVotes'
    <2> SUFFICES ASSUME NEW q \in Node
                 PROVE  /\ role'[q] = "CANDIDATE" => currentTerm'[q] # 0
                        /\ electionterm'[q] # 0 => fd'[q] /\ Vote(q, q, electionterm'[q]) \in votes
                        /\ q \notin votesGranted'[q]
                        /\ \A p \in votesGranted'[q] : Vote(p, q, electionterm'[q]) \in votes
      BY <1>2 DEF CountersAreVotes
    <2>1. CASE q = n
      BY <1>2, <1>3, <2>1 DEF TypeOK, ServerOK, CandidateOK, ClearCounters
    <2>2. CASE q # n
      BY <1>2, <1>3, <2>2 DEF TypeOK, ServerOK, CandidateOK, StorageOK, ClearCounters,
                              ElectionInv, CountersAreVotes
    <2> QED BY <2>1, <2>2
  <1>7. LeaderIsElected'
    BY <1>2, <1>3, QuietHints
  <1> QED BY <1>2, <1>4, <1>5, <1>6, <1>7, QuietNet DEF ElectionInv

-----------------------------------------------------------------------------
(* The theorems *)

\* Every step keeps ElectionInv.
LEMMA ElectionNext == TypeOK /\ ElectionInv /\ [Next]_vars => ElectionInv'
  <1> SUFFICES ASSUME TypeOK, ElectionInv, [Next]_vars PROVE ElectionInv'
    OBVIOUS
  <1>1. CASE UNCHANGED vars
    <2>1. IgnoreResponse /\ net' \subseteq net
      BY <1>1 DEF vars, IgnoreResponse
    <2> QED BY <2>1, ElectionIgnored
  <1>2. ASSUME NEW m \in net, Lose(m) PROVE ElectionInv'
    <2>1. IgnoreResponse /\ net' \subseteq net
      BY <1>2 DEF Lose, IgnoreResponse
    <2> QED BY <2>1, ElectionIgnored
  <1> QED
    BY <1>1, <1>2, ElectionTimeout, ElectionRequestVote, ElectionVoteResponse, ElectionSend,
       ElectionAppendRequest, ElectionAppendResponse, ElectionLeaderStep, ElectionRestart
    DEF Next

\* The invariant behind the election: every vote that counts was given, written
\* and is remembered, in every reachable state.
THEOREM ElectionInvariant == Spec => []ElectionInv
  BY TypeInit, TypeNext, ElectionInit, ElectionNext, PTL DEF Spec

\* Two majorities have a node in common, which voted only once in the term.
LEMMA MajoritiesAgree ==
    ASSUME TypeOK, ElectionInv
    PROVE  ElectionSafety
  <1> SUFFICES ASSUME NEW e \in elected, NEW f \in elected, e.term = f.term
               PROVE  e.leader = f.leader
    BY DEF ElectionSafety
  <1>1. e.leader \in Node /\ f.leader \in Node
    BY DEF TypeOK, HistoryOK
  <1>2. PICK S \in SUBSET Node : /\ e.leader \notin S
                                 /\ Cardinality(S) + 1 >= majority(Cardinality(Node))
                                 /\ \A p \in S \cup {e.leader} : Vote(p, e.leader, e.term) \in votes
    BY DEF ElectionInv, ElectedAreBacked
  <1>3. PICK T \in SUBSET Node : /\ f.leader \notin T
                                 /\ Cardinality(T) + 1 >= majority(Cardinality(Node))
                                 /\ \A p \in T \cup {f.leader} : Vote(p, f.leader, f.term) \in votes
    BY DEF ElectionInv, ElectedAreBacked
  <1> DEFINE Q == S \cup {e.leader}
             R == T \cup {f.leader}
  <1>4. IsFiniteSet(S) /\ IsFiniteSet(T) /\ Cardinality(Node) \in Nat
    BY FS_Subset, FS_CardinalityType
  <1>5. /\ Cardinality(Q) = Cardinality(S) + 1 /\ Cardinality(Q) \in Nat
        /\ Cardinality(R) = Cardinality(T) + 1 /\ Cardinality(R) \in Nat
    BY <1>2, <1>3, <1>4, FS_AddElement, FS_CardinalityType
  <1>6. Cardinality(Q) + Cardinality(R) > Cardinality(Node)
    BY <1>2, <1>3, <1>4, <1>5 DEF majority
  <1>7. PICK p : p \in Q /\ p \in R
    <2>1. Q \in SUBSET Node /\ R \in SUBSET Node
      BY <1>1
    <2> HIDE DEF Q, R
    <2>2. Q \cap R # {}
      BY <1>6, <2>1, FS_MajoritiesIntersect
    <2> QED BY <2>2
  <1>8. Vote(p, e.leader, e.term) \in votes /\ Vote(p, f.leader, f.term) \in votes
    BY <1>2, <1>3, <1>7
  <1> QED BY <1>8 DEF ElectionInv, VoteOnce, Vote

\* A node's vote is given to one candidate of a term, whatever is lost, repeated,
\* written badly or restarted, in a group of any size.
THEOREM VotesOnce == Spec => []VoteOnce
  <1>1. ElectionInv => VoteOnce
    BY DEF ElectionInv
  <1> QED BY <1>1, ElectionInvariant, PTL

\* No term is won by two nodes, in a group of any size.
THEOREM ElectionsSafe == Spec => []ElectionSafety
  BY MajoritiesAgree, TypeCorrect, ElectionInvariant, PTL

\* Whoever leads, or is named as the leader, won the term of the node that says so.
THEOREM LeadersElected == Spec => []LeaderIsElected
  <1>1. ElectionInv => LeaderIsElected
    BY DEF ElectionInv
  <1> QED BY <1>1, ElectionInvariant, PTL

-----------------------------------------------------------------------------
(* Runs: what agrees with everything still does when cut or joined *)

IsRun(r) == r.from \in Nat /\ r.to \in Nat

\* p is a part of the run r, or empty.
Piece(p, r) ==
    /\ IsRun(p) /\ IsRun(r)
    /\ p.from < p.to => /\ r.from <= p.from /\ p.to <= r.to
                        /\ p.base = TermAt(r, p.from)
    /\ \A k \in Nat : Holds(p, k) => p.cells[k] = r.cells[k]

\* j is b up to `at', and m after it.  The two meet in the same term.
Join(j, b, m, at) ==
    /\ IsRun(j) /\ IsRun(b) /\ IsRun(m) /\ at \in Nat
    /\ j.from = b.from /\ j.base = b.base
    /\ b.from <= at /\ at <= b.to /\ m.from <= at /\ j.to <= m.to
    /\ TermAt(b, at) = TermAt(m, at)
    /\ \A k \in Nat : /\ Holds(j, k) /\ k <= at => j.cells[k] = b.cells[k]
                      /\ Holds(j, k) /\ k > at => j.cells[k] = m.cells[k]

\* r is made of runs of S.
Derived(r, S) ==
    \/ \E s \in S : Piece(r, s)
    \/ \E b, m \in S : \E at \in Nat : Join(r, b, m, at)

\* Lesser is the minimum of two numbers.
LEMMA LesserIsMin ==
    ASSUME NEW a \in Nat, NEW b \in Nat
    PROVE  /\ Lesser(a, b) \in Nat
           /\ \A k \in Nat : k <= Lesser(a, b) <=> k <= a /\ k <= b
  BY DEF Lesser

\* What agreement says about one common entry.
LEMMA AgreeAt ==
    ASSUME NEW r, NEW s, IsRun(r), IsRun(s), Agree(r, s), NEW k \in Nat,
           Holds(r, k), Holds(s, k), r.cells[k].term = s.cells[k].term,
           NEW i \in 0 .. k
    PROVE  /\ i >= r.from /\ i >= s.from => TermAt(r, i) = TermAt(s, i)
           /\ i > r.from /\ i > s.from => r.cells[i] = s.cells[i]
  <1>1. k \in 1 .. Lesser(r.to, s.to)
    BY DEF Holds, IsRun, Lesser
  <1> QED BY <1>1 DEF Agree

\* How agreement is shown: one common entry at a time.
LEMMA AgreeBy ==
    ASSUME NEW r, NEW s, IsRun(r), IsRun(s),
           ASSUME NEW k \in Nat, Holds(r, k), Holds(s, k),
                  r.cells[k].term = s.cells[k].term, NEW i \in 0 .. k
           PROVE  /\ i >= r.from /\ i >= s.from => TermAt(r, i) = TermAt(s, i)
                  /\ i > r.from /\ i > s.from => r.cells[i] = s.cells[i]
    PROVE  Agree(r, s)
  <1>1. 1 .. Lesser(r.to, s.to) \subseteq Nat
    BY LesserIsMin DEF IsRun
  <1> QED BY <1>1 DEF Agree

\* Agreement is symmetric.
LEMMA AgreeSym ==
    ASSUME NEW r, NEW s, IsRun(r), IsRun(s), Agree(r, s)
    PROVE  Agree(s, r)
  <1> SUFFICES ASSUME NEW k \in Nat, Holds(s, k), Holds(r, k),
                      s.cells[k].term = r.cells[k].term, NEW i \in 0 .. k
               PROVE  /\ i >= s.from /\ i >= r.from => TermAt(s, i) = TermAt(r, i)
                      /\ i > s.from /\ i > r.from => s.cells[i] = r.cells[i]
    BY AgreeBy
  <1> QED BY AgreeAt

\* A part of a run agrees with whatever the run agrees with.
LEMMA PieceAgrees ==
    ASSUME NEW p, NEW r, NEW x, IsRun(x), Piece(p, r), Agree(r, x)
    PROVE  Agree(p, x)
  <1>0. IsRun(p) /\ IsRun(r)
    BY DEF Piece
  <1> SUFFICES ASSUME NEW k \in Nat, Holds(p, k), Holds(x, k),
                      p.cells[k].term = x.cells[k].term, NEW i \in 0 .. k
               PROVE  /\ i >= p.from /\ i >= x.from => TermAt(p, i) = TermAt(x, i)
                      /\ i > p.from /\ i > x.from => p.cells[i] = x.cells[i]
    BY <1>0, AgreeBy
  <1>1. Holds(r, k) /\ p.cells[k] = r.cells[k]
    BY <1>0 DEF Piece, Holds, IsRun
  <1>2. /\ i >= r.from /\ i >= x.from => TermAt(r, i) = TermAt(x, i)
        /\ i > r.from /\ i > x.from => r.cells[i] = x.cells[i]
    BY <1>0, <1>1, AgreeAt
  <1>3. i > p.from => p.cells[i] = r.cells[i] /\ i > r.from
    BY <1>0 DEF Piece, Holds, IsRun
  <1>4. i >= p.from => i >= r.from /\ TermAt(p, i) = TermAt(r, i)
    BY <1>0, <1>3 DEF Piece, Holds, IsRun, TermAt
  <1> QED BY <1>2, <1>3, <1>4

\* Two runs joined where they have the same term agree with whatever both agree
\* with: the consistency check of HandleAppendEntriesRequest.
LEMMA JoinAgrees ==
    ASSUME NEW j, NEW b, NEW m, NEW at, NEW x, IsRun(x), Join(j, b, m, at),
           Agree(b, x), Agree(m, x)
    PROVE  Agree(j, x)
  <1>0. IsRun(j) /\ IsRun(b) /\ IsRun(m) /\ at \in Nat
    BY DEF Join
  <1> SUFFICES ASSUME NEW k \in Nat, Holds(j, k), Holds(x, k),
                      j.cells[k].term = x.cells[k].term, NEW i \in 0 .. k
               PROVE  /\ i >= j.from /\ i >= x.from => TermAt(j, i) = TermAt(x, i)
                      /\ i > j.from /\ i > x.from => j.cells[i] = x.cells[i]
    BY <1>0, AgreeBy
  <1>1. \A l \in 0 .. k : l <= at /\ l > j.from => j.cells[l] = b.cells[l]
    BY <1>0 DEF Join, Holds, IsRun
  <1>2. \A l \in 0 .. k : l > at => j.cells[l] = m.cells[l] /\ Holds(m, l)
    BY <1>0 DEF Join, Holds, IsRun
  <1>3. \A l \in 0 .. k : l <= at /\ l > j.from => Holds(b, l)
    BY <1>0 DEF Join, Holds, IsRun
  <1>4. \A l \in 0 .. k : l <= at /\ l >= j.from => TermAt(j, l) = TermAt(b, l)
    BY <1>0, <1>1 DEF Join, IsRun, TermAt
  <1>5. j.from = b.from
    BY DEF Join
  <1>6. CASE k <= at
    <2>1. Holds(b, k) /\ b.cells[k].term = x.cells[k].term
      BY <1>0, <1>1, <1>3, <1>6 DEF Holds
    <2>2. /\ i >= b.from /\ i >= x.from => TermAt(b, i) = TermAt(x, i)
          /\ i > b.from /\ i > x.from => b.cells[i] = x.cells[i]
      BY <1>0, <2>1, AgreeAt
    <2> QED BY <1>0, <1>1, <1>4, <1>5, <1>6, <2>2 DEF IsRun
  <1>7. CASE k > at
    <2>1. Holds(m, k) /\ m.cells[k].term = x.cells[k].term
      BY <1>2, <1>7
    <2>2. \A l \in 0 .. k : /\ l >= m.from /\ l >= x.from => TermAt(m, l) = TermAt(x, l)
                            /\ l > m.from /\ l > x.from => m.cells[l] = x.cells[l]
      BY <1>0, <2>1, AgreeAt
    <2>3. CASE i > at
      <3>1. i > m.from /\ i > j.from /\ j.cells[i] = m.cells[i]
        BY <1>0, <1>2, <2>3 DEF Join, IsRun
      <3>2. TermAt(j, i) = TermAt(m, i)
        BY <1>0, <3>1 DEF TermAt, IsRun
      <3> QED BY <1>0, <2>2, <3>1, <3>2 DEF IsRun
    <2>4. CASE i <= at /\ at < x.from
      BY <1>0, <2>4 DEF IsRun
    <2>5. CASE i <= at /\ at >= x.from
      <3>1. TermAt(b, at) = TermAt(x, at)
        BY <1>0, <1>7, <2>2, <2>5 DEF Join, IsRun
      <3>2. CASE at = b.from
        BY <1>0, <1>4, <1>5, <2>5, <3>1, <3>2 DEF IsRun
      <3>3. CASE at = x.from
        BY <1>0, <1>4, <1>5, <2>5, <3>1, <3>3 DEF IsRun
      <3>4. CASE at > b.from /\ at > x.from
        <4>1. b.cells[at].term = x.cells[at].term
          BY <1>0, <3>1, <3>4 DEF TermAt, IsRun
        <4>2. Holds(b, at) /\ Holds(x, at)
          BY <1>0, <1>7, <3>4 DEF Join, Holds, IsRun
        <4>3. /\ i >= b.from /\ i >= x.from => TermAt(b, i) = TermAt(x, i)
              /\ i > b.from /\ i > x.from => b.cells[i] = x.cells[i]
          BY <1>0, <2>5, <4>1, <4>2, AgreeAt
        <4> QED BY <1>0, <1>1, <1>4, <1>5, <2>5, <4>3 DEF IsRun
      <3> QED BY <1>0, <2>5, <3>2, <3>3, <3>4 DEF Join, IsRun
    <2> QED BY <1>0, <2>3, <2>4, <2>5 DEF IsRun
  <1> QED BY <1>0, <1>6, <1>7

\* What is made of runs that agree with x agrees with x.
LEMMA DerivedAgrees ==
    ASSUME NEW S, NEW r, NEW x, IsRun(x), Derived(r, S), \A s \in S : Agree(s, x)
    PROVE  Agree(r, x)
  BY PieceAgrees, JoinAgrees DEF Derived

\* What is made of runs is a run.
LEMMA DerivedIsRun ==
    ASSUME NEW S, NEW r, Derived(r, S)
    PROVE  IsRun(r)
  BY DEF Derived, Piece, Join

\* Two runs made of runs that agree with each other agree.
LEMMA DerivedPair ==
    ASSUME NEW S, NEW r, NEW s, Derived(r, S), Derived(s, S),
           \A x \in S : IsRun(x), \A x, y \in S : Agree(x, y)
    PROVE  Agree(r, s)
  <1>1. IsRun(r) /\ IsRun(s)
    BY DerivedIsRun
  <1>2. \A x \in S : Agree(s, x)
    BY DerivedAgrees
  <1>3. \A x \in S : Agree(x, s)
    BY <1>1, <1>2, AgreeSym
  <1> QED BY <1>1, <1>3, DerivedAgrees

\* The cells of what is made of runs are cells of those runs.
LEMMA DerivedCells ==
    ASSUME NEW S, NEW r, Derived(r, S), NEW k \in r.from + 1 .. r.to
    PROVE  \E s \in S : IsRun(s) /\ k \in s.from + 1 .. s.to /\ r.cells[k] = s.cells[k]
  <1>0. IsRun(r)
    BY DerivedIsRun
  <1>1. k \in Nat /\ Holds(r, k)
    BY <1>0 DEF IsRun, Holds
  <1>2. ASSUME NEW s \in S, Piece(r, s)
        PROVE  IsRun(s) /\ k \in s.from + 1 .. s.to /\ r.cells[k] = s.cells[k]
    BY <1>0, <1>1, <1>2 DEF Piece, IsRun
  <1>3. ASSUME NEW b \in S, NEW m \in S, NEW at \in Nat, Join(r, b, m, at), k <= at
        PROVE  IsRun(b) /\ k \in b.from + 1 .. b.to /\ r.cells[k] = b.cells[k]
    BY <1>0, <1>1, <1>3 DEF Join, IsRun
  <1>4. ASSUME NEW b \in S, NEW m \in S, NEW at \in Nat, Join(r, b, m, at), k > at
        PROVE  IsRun(m) /\ k \in m.from + 1 .. m.to /\ r.cells[k] = m.cells[k]
    BY <1>0, <1>1, <1>4 DEF Join, IsRun
  <1>5. \A at \in Nat : k <= at \/ k > at
    BY <1>1
  <1> QED BY <1>2, <1>3, <1>4, <1>5 DEF Derived

\* Every run is made of itself.
LEMMA DerivedSelf ==
    ASSUME NEW S, NEW r \in S, IsRun(r)
    PROVE  Derived(r, S)
  BY DEF Derived, Piece, IsRun, TermAt

-----------------------------------------------------------------------------
(* The runs of a state *)

\* Every stretch of a log has a beginning and an end.
LEMMA RunsAreRuns ==
    ASSUME TypeOK
    PROVE  /\ \A r \in Runs : IsRun(r)
           /\ \A n \in Node : MemoryRun(n) \in Runs /\ DiskRun(n) \in Runs
           /\ \A m \in net : m.type = "AppendEntries" => MessageRun(m) \in Runs
  <1>1. \A n \in Node : IsRun(MemoryRun(n))
    BY DEF TypeOK, LogOK, Index, MemoryRun, IsRun
  <1>2. \A n \in Node : IsRun(DiskRun(n))
    BY DEF TypeOK, StorageOK, Store, Index, DiskRun, IsRun
  <1>3. ASSUME NEW m \in net, m.type = "AppendEntries"
        PROVE  IsRun(MessageRun(m))
    <2>1. m \in AppendEntries
      BY <1>3 DEF TypeOK, Message, RequestVote, RequestVoteResponse, AppendEntries,
                  AppendEntriesResponse
    <2>2. m.prevLogIndex \in Nat /\ Len(m.entries) \in Nat
      BY <2>1 DEF AppendEntries, Index
    <2> QED BY <2>2 DEF MessageRun, IsRun
  <1> QED BY <1>1, <1>2, <1>3 DEF Runs

\* The runs of the next state are made of those of S.
LEMMA RunsDerived ==
    ASSUME NEW S,
           \A p \in Node : Derived(MemoryRun(p)', S) /\ Derived(DiskRun(p)', S),
           \A m \in net' : m.type = "AppendEntries" => Derived(MessageRun(m), S)
    PROVE  \A r \in Runs' : Derived(r, S)
  <1>1. \A m : MessageRun(m)' = MessageRun(m)
    BY DEF MessageRun
  <1> QED BY <1>1 DEF Runs

\* A step that makes the runs of known ones, and no new leader.
LEMMA RunsStep ==
    ASSUME TypeOK, LogInv, elected \subseteq elected',
           \A r \in Runs' : Derived(r, Runs),
           \A n \in Node : role'[n] = "LEADER"
               => /\ role[n] = "LEADER" /\ currentTerm'[n] = currentTerm[n]
                  /\ logLen'[n] = logLen[n]
    PROVE  RunsAgree' /\ RunsAreElected' /\ LeaderHoldsTerm'
  <1>1. RunsAgree'
    BY RunsAreRuns, DerivedPair DEF LogInv, RunsAgree
  <1>2. \A r \in Runs' : \A k \in r.from + 1 .. r.to :
          \E s \in Runs : k \in s.from + 1 .. s.to /\ r.cells[k] = s.cells[k]
    BY DerivedCells
  <1>3. RunsAreElected'
    BY <1>2 DEF LogInv, RunsAreElected
  <1>4. LeaderHoldsTerm'
    BY <1>2 DEF LogInv, LeaderHoldsTerm
  <1> QED BY <1>1, <1>3, <1>4

-----------------------------------------------------------------------------
(* Steps that write no entry *)

\* The two files replay to the same log.
SameCells(d, e) == e.log = d.log /\ e.len = d.len /\ e.ok = d.ok

\* STATE records do not touch the log restore_pstate has read.
LEMMA StateKeepsCells ==
    ASSUME NEW d \in Store, NEW t, NEW v, NEW io
    PROVE  /\ SameCells(d, ReplayState(d, t, v))
           /\ SameCells(d, Persisted(io, d, ReplayState(d, t, v)))
  BY DEF SameCells, ReplayState, Persisted, Store

\* No log is written, in memory or in a file, and none is sent.
QuietLog ==
    /\ UNCHANGED <<log, logLen, fd>>
    /\ \A p \in Node : SameCells(disk[p], disk'[p])
    /\ \A p \in Node : role'[p] # "FAILED" => role[p] # "FAILED"
    /\ \A m \in net' : m \in net \/ m.type # "AppendEntries"

\* Such a step keeps what is said about files, and has the same runs.
LEMMA QuietRuns ==
    ASSUME TypeOK, LogInv, QuietLog
    PROVE  /\ RestoreMatchesMemory' /\ FileFollowsMemory'
           /\ \A r \in Runs' : r \in Runs
           /\ \A r \in Runs' : Derived(r, Runs)
  <1>1. RestoreMatchesMemory'
    BY DEF LogInv, RestoreMatchesMemory, QuietLog, SameCells
  <1>2. FileFollowsMemory'
    BY DEF LogInv, FileFollowsMemory, QuietLog, SameCells
  <1>3. \A p \in Node : MemoryRun(p)' = MemoryRun(p) /\ DiskRun(p)' = DiskRun(p)
    BY DEF MemoryRun, DiskRun, QuietLog, SameCells
  <1>4. \A m : MessageRun(m)' = MessageRun(m)
    BY DEF MessageRun
  <1>5. \A r \in Runs' : r \in Runs
    BY <1>3, <1>4 DEF Runs, QuietLog
  <1> QED BY <1>1, <1>2, <1>5, RunsAreRuns, DerivedSelf

\* A step that writes no entry and makes no leader and no candidate.
LEMMA LogQuiet ==
    ASSUME TypeOK, LogInv, QuietLog, elected' = elected,
           \A n \in Node : role'[n] = "LEADER"
               => role[n] = "LEADER" /\ currentTerm'[n] = currentTerm[n],
           \A n \in Node : role'[n] = "CANDIDATE"
               => /\ role[n] = "CANDIDATE" /\ currentTerm'[n] = currentTerm[n]
                  /\ electionterm'[n] = electionterm[n]
    PROVE  LogInv'
  <1>1. CandidateIsFresh'
    BY DEF LogInv, CandidateIsFresh
  <1>2. RunsAgree' /\ RunsAreElected' /\ LeaderHoldsTerm'
    BY QuietRuns, RunsStep DEF QuietLog
  <1> QED BY <1>1, <1>2, QuietRuns DEF LogInv

\* Winning a term no entry has: raft_init_leader_state.
LEMMA LogElected ==
    ASSUME TypeOK, LogInv, QuietLog, ElectionSafety', NEW n \in Node, NEW t \in Term,
           [leader |-> n, term |-> t] \notin elected,
           elected' = elected \cup {[leader |-> n, term |-> t]},
           role' = [role EXCEPT ![n] = "LEADER"], currentTerm'[n] = t,
           \A p \in Node \ {n} : /\ currentTerm'[p] = currentTerm[p]
                                 /\ electionterm'[p] = electionterm[p]
    PROVE  LogInv'
  <1>1. CandidateIsFresh'
    BY DEF LogInv, CandidateIsFresh, TypeOK, ServerOK
  <1>2. RunsAgree'
    BY QuietRuns DEF LogInv, RunsAgree
  <1>3. RunsAreElected'
    BY QuietRuns DEF LogInv, RunsAreElected
  <1>4. \A e \in elected : e.term # t
    <2> SUFFICES ASSUME NEW e \in elected, e.term = t PROVE FALSE
      OBVIOUS
    <2>1. e.leader = n
      BY DEF ElectionSafety
    <2>2. e = [leader |-> n, term |-> t]
      BY <2>1 DEF TypeOK, HistoryOK
    <2> QED BY <2>2
  <1>5. LeaderHoldsTerm'
    <2> SUFFICES ASSUME NEW p \in Node, role'[p] = "LEADER", NEW r \in Runs,
                        NEW k \in r.from + 1 .. r.to, r.cells[k].term = currentTerm'[p]
                 PROVE  k <= logLen[p]
      BY QuietRuns DEF LeaderHoldsTerm, QuietLog
    <2>1. CASE p = n
      BY <1>4, <2>1 DEF LogInv, RunsAreElected
    <2>2. CASE p # n
      BY <2>2 DEF LogInv, LeaderHoldsTerm, TypeOK, ServerOK
    <2> QED BY <2>1, <2>2
  <1> QED BY <1>1, <1>2, <1>3, <1>5, QuietRuns DEF LogInv

\* A node that can write has not won a term above its own.
LEMMA WonTermsAreOld ==
    ASSUME TypeOK, ElectionInv, NEW n \in Node, fd[n]
    PROVE  /\ \A e \in elected : e.leader = n => e.term <= currentTerm[n]
           /\ electionterm[n] <= currentTerm[n]
  <1>1. \A v \in votes : v.voter = n => v.term <= currentTerm[n]
    BY DEF ElectionInv, MemoryKeepsVotes, Pledged, TypeOK, ServerOK, HistoryOK, Term
  <1>2. \A t \in Term : Vote(n, n, t) \in votes => t <= currentTerm[n]
    BY <1>1 DEF Vote
  <1>3. \A e \in elected : e.leader = n => Vote(n, n, e.term) \in votes /\ e.term \in Term
    BY DEF ElectionInv, ElectedAreBacked, TypeOK, HistoryOK
  <1>4. electionterm[n] \in Term /\ currentTerm[n] \in Term
    BY DEF TypeOK, CandidateOK, ServerOK
  <1>5. electionterm[n] <= currentTerm[n]
    BY <1>2, <1>4 DEF ElectionInv, CountersAreVotes, Term
  <1> QED BY <1>2, <1>3, <1>5

\* raft_timeout keeps LogInv: it starts an election the node has not won yet.
LEMMA LogTimeout ==
    ASSUME TypeOK, ElectionInv, LogInv, ElectionSafety', NEW n \in Node, raft_timeout(n)
    PROVE  LogInv'
  <1>1. PICK io \in Outcome(n) : StartElection(n, io)
    BY DEF raft_timeout
  <1> DEFINE term == currentTerm[n] + 1
             wins == io = "ok" /\ majority(Cardinality(Node)) = 1
  <1>2. term \in Term /\ currentTerm[n] \in Nat
    BY DEF TypeOK, ServerOK, raft_timeout, Term
  <1>3. UNCHANGED <<log, logLen, fd>>
    BY DEF raft_timeout
  <1>4. currentTerm' = [currentTerm EXCEPT ![n] = term]
    BY <1>1 DEF StartElection
  <1>5. QuietLog
    <2>1. \A p \in Node : SameCells(disk[p], disk'[p])
      <3>1. disk' = [disk EXCEPT ![n] = Persisted(io, disk[n], ReplayState(disk[n], term, n))]
        BY <1>1 DEF StartElection
      <3>2. disk[n] \in Store
        BY DEF TypeOK, StorageOK
      <3>3. SameCells(disk[n], Persisted(io, disk[n], ReplayState(disk[n], term, n)))
        BY <3>2, StateKeepsCells
      <3> QED BY <3>1, <3>3 DEF TypeOK, StorageOK, SameCells
    <2>2. \A p \in Node : role'[p] # "FAILED" => role[p] # "FAILED"
      BY <1>1 DEF raft_timeout, StartElection, BecomeLeader, TypeOK, ServerOK
    <2>3. \A m \in net' : m \in net \/ m.type # "AppendEntries"
      BY <1>1 DEF StartElection, Send, VoteRequests
    <2> QED BY <1>3, <2>1, <2>2, <2>3 DEF QuietLog
  <1>6. io = "ok" => [leader |-> n, term |-> term] \notin elected
    <2>1. io = "ok" => fd[n]
      BY DEF Outcome
    <2> QED BY <1>2, <2>1, WonTermsAreOld
  <1>7. \A p \in Node \ {n} : electionterm'[p] = electionterm[p]
    BY <1>1 DEF StartElection, cstate, TypeOK, CandidateOK
  <1>8. CASE wins
    <2>1. BecomeLeader(n, term)
      BY <1>1, <1>8 DEF StartElection
    <2>2. currentTerm'[n] = term /\ \A p \in Node \ {n} : currentTerm'[p] = currentTerm[p]
      BY <1>4 DEF TypeOK, ServerOK
    <2> QED BY <1>2, <1>5, <1>6, <1>7, <1>8, <2>1, <2>2, LogElected DEF BecomeLeader
  <1>9. CASE ~wins
    <2>1. role' = [role EXCEPT ![n] = "CANDIDATE"] /\ elected' = elected
      BY <1>1, <1>9 DEF StartElection
    <2>2. RunsAgree' /\ RunsAreElected' /\ LeaderHoldsTerm'
      <3>1. \A p \in Node : role'[p] = "LEADER"
               => /\ role[p] = "LEADER" /\ currentTerm'[p] = currentTerm[p]
                  /\ logLen'[p] = logLen[p]
        BY <1>3, <1>4, <2>1 DEF TypeOK, ServerOK
      <3> QED BY <1>5, <2>1, <3>1, QuietRuns, RunsStep
    <2>3. electionterm'[n] = currentTerm'[n] => io = "ok"
      <3>1. io # "ok" => electionterm'[n] = electionterm[n]
        BY <1>1 DEF StartElection, cstate
      <3>2. currentTerm'[n] = term
        BY <1>4 DEF TypeOK, ServerOK
      <3>3. electionterm[n] <= currentTerm[n]
        <4>1. electionterm[n] = 0 \/ fd[n]
          BY DEF ElectionInv, CountersAreVotes
        <4> QED BY <1>2, <4>1, WonTermsAreOld
      <3>4. electionterm[n] \in Nat
        BY DEF TypeOK, CandidateOK, Term
      <3> QED BY <1>2, <3>1, <3>2, <3>3, <3>4
    <2>4. CandidateIsFresh'
      <3> SUFFICES ASSUME NEW p \in Node, role'[p] = "CANDIDATE",
                          electionterm'[p] = currentTerm'[p]
                   PROVE  [leader |-> p, term |-> currentTerm'[p]] \notin elected
        BY <2>1 DEF CandidateIsFresh
      <3>1. CASE p = n
        BY <1>4, <1>6, <2>3, <3>1 DEF TypeOK, ServerOK
      <3>2. CASE p # n
        BY <1>4, <1>7, <2>1, <3>2 DEF LogInv, CandidateIsFresh, TypeOK, ServerOK
      <3> QED BY <3>1, <3>2
    <2> QED BY <1>5, <2>2, <2>4, QuietRuns DEF LogInv
  <1> QED BY <1>8, <1>9

\* Adopting a newer term keeps LogInv.
LEMMA LogStepDown ==
    ASSUME TypeOK, LogInv, NEW n \in Node, NEW m, Answer(m, {}), NEW t \in Term,
           StepDown(n, t)
    PROVE  LogInv'
  <1>1. PICK io \in Outcome(n) : update_term_locked(n, t, io)
    BY DEF StepDown
  <1>2. UNCHANGED <<log, logLen, fd, elected>>
    BY DEF StepDown, history
  <1>3. role' = [role EXCEPT ![n] = Demoted(n, io)]
    BY <1>1 DEF update_term_locked
  <1>4. \A p \in Node : SameCells(disk[p], disk'[p])
    <2>1. disk' = [disk EXCEPT ![n] = Persisted(io, disk[n], ReplayState(disk[n], t, Nil))]
      BY <1>1 DEF update_term_locked
    <2>2. disk[n] \in Store
      BY DEF TypeOK, StorageOK
    <2>3. SameCells(disk[n], Persisted(io, disk[n], ReplayState(disk[n], t, Nil)))
      BY <2>2, StateKeepsCells
    <2> QED BY <2>1, <2>3 DEF TypeOK, StorageOK, SameCells
  <1>5. QuietLog
    BY <1>2, <1>3, <1>4 DEF QuietLog, Demoted, Answer, TypeOK, ServerOK
  <1>6. \A p \in Node \ {n} : /\ currentTerm'[p] = currentTerm[p]
                              /\ electionterm'[p] = electionterm[p]
    BY <1>1 DEF update_term_locked, ClearCounters, TypeOK, ServerOK, CandidateOK
  <1>7. \A p \in Node : role'[p] \in {"LEADER", "CANDIDATE"} => p # n /\ role'[p] = role[p]
    BY <1>3 DEF Demoted, TypeOK, ServerOK
  <1> QED BY <1>2, <1>5, <1>6, <1>7, LogQuiet

\* HandleRequestVoteRequest keeps LogInv: it writes no entry.
LEMMA LogRequestVote ==
    ASSUME TypeOK, LogInv, NEW n \in Node, HandleRequestVoteRequest(n)
    PROVE  LogInv'
  <1>0. PICK m \in Inbox(n, "RequestVote") :
           \E ioTerm, ioVote : ConsiderVote(n, m, ioTerm, ioVote)
    BY DEF HandleRequestVoteRequest
  <1>1. PICK ioTerm, ioVote : ConsiderVote(n, m, ioTerm, ioVote)
    BY <1>0
  <1> DEFINE term == IF Newer(n, m) THEN m.term ELSE currentTerm[n]
             file == IF Newer(n, m)
                     THEN Persisted(ioTerm, disk[n], ReplayState(disk[n], term, Nil))
                     ELSE disk[n]
             file2 == IF Willing(n, m)
                      THEN Persisted(ioVote, file, ReplayState(file, term, m.from))
                      ELSE file
             r == IF ioVote # "ok" THEN "FAILED"
                  ELSE IF Newer(n, m) THEN Demoted(n, ioTerm) ELSE role[n]
  <1>2. UNCHANGED <<log, logLen, fd, elected>>
    BY DEF HandleRequestVoteRequest
  <1>3. \A p \in Node : SameCells(disk[p], disk'[p])
    <2>1. disk' = [disk EXCEPT ![n] = file2]
      BY <1>1 DEF ConsiderVote
    <2>2. disk[n] \in Store /\ m.term \in Term /\ m.from \in Node /\ currentTerm[n] \in Term
      BY InboxType DEF TypeOK, StorageOK, ServerOK
    <2>3. SameCells(disk[n], file) /\ file \in Store
      <3>1. ReplayState(disk[n], term, Nil) \in Store
        BY <2>2, ReplayStateType
      <3>2. file \in Store
        BY <2>2, <3>1, PersistedType
      <3> QED BY <2>2, <3>2, StateKeepsCells DEF SameCells
    <2>4. SameCells(file, file2)
      <3> HIDE DEF file
      <3> QED BY <2>3, StateKeepsCells DEF SameCells
    <2>5. SameCells(disk[n], file2)
      BY <2>3, <2>4 DEF SameCells
    <2> HIDE DEF file2
    <2> QED BY <2>1, <2>5 DEF TypeOK, StorageOK, SameCells
  <1>4. role' = [role EXCEPT ![n] = r]
    BY <1>1 DEF ConsiderVote
  <1>5. \A k \in net' : k \in net \/ k.type # "AppendEntries"
    BY <1>1 DEF ConsiderVote, Answer
  <1>6. QuietLog
    BY <1>2, <1>3, <1>4, <1>5 DEF QuietLog, Demoted, TypeOK, ServerOK
  <1>7. /\ currentTerm' = [currentTerm EXCEPT ![n] = term]
        /\ ClearCounters(n, Newer(n, m) /\ ioTerm = "ok")
    BY <1>1 DEF ConsiderVote
  <1>8. \A p \in Node : role'[p] \in {"LEADER", "CANDIDATE"}
            => /\ role'[p] = role[p] /\ currentTerm'[p] = currentTerm[p]
               /\ electionterm'[p] = electionterm[p]
    <2> SUFFICES ASSUME NEW p \in Node, role'[p] \in {"LEADER", "CANDIDATE"}
                 PROVE  /\ role'[p] = role[p] /\ currentTerm'[p] = currentTerm[p]
                        /\ electionterm'[p] = electionterm[p]
      OBVIOUS
    <2>1. CASE p # n
      BY <1>4, <1>7, <2>1 DEF ClearCounters, TypeOK, ServerOK, CandidateOK
    <2>2. CASE p = n
      <3>1. ~Newer(n, m) /\ ioVote = "ok"
        BY <1>4, <2>2 DEF Demoted, TypeOK, ServerOK
      <3> QED BY <1>4, <1>7, <2>2, <3>1 DEF ClearCounters, TypeOK, ServerOK, CandidateOK
    <2> QED BY <2>1, <2>2
  <1> QED BY <1>2, <1>6, <1>8, LogQuiet

\* A message that is dropped, or a response that is not used.
LEMMA LogIgnored ==
    ASSUME TypeOK, LogInv, UNCHANGED <<role, pstate, cstate, fd, disk, elected>>,
           \A m \in net' : m \in net \/ m.type # "AppendEntries"
    PROVE  LogInv'
  <1>1. QuietLog
    BY DEF QuietLog, SameCells, pstate
  <1> QED BY <1>1, LogQuiet DEF pstate, cstate

\* HandleRequestVoteResponse keeps LogInv: a term is won once, before it has entries.
LEMMA LogVoteResponse ==
    ASSUME TypeOK, LogInv, ElectionSafety', NEW n \in Node, HandleRequestVoteResponse(n)
    PROVE  LogInv'
  <1>1. PICK m \in Inbox(n, "RequestVoteResponse") :
          /\ Answer(m, {})
          /\ \/ Newer(n, m) /\ StepDown(n, m.term)
             \/ CountsVote(n, m) /\ CountVote(n, m)
             \/ IgnoreResponse
    BY DEF HandleRequestVoteResponse
  <1>2. m.term \in Term
    BY InboxType DEF TypeOK
  <1>3. \A k \in net' : k \in net
    BY <1>1 DEF Answer
  <1>4. CASE StepDown(n, m.term)
    BY <1>1, <1>2, <1>4, LogStepDown
  <1>5. CASE IgnoreResponse
    BY <1>3, <1>5, LogIgnored DEF IgnoreResponse, history
  <1>6. CASE CountsVote(n, m) /\ CountVote(n, m)
    <2>1. UNCHANGED <<pstate, electionterm, fd, disk>>
      BY <1>6 DEF CountVote
    <2>2. CASE BecomeLeader(n, currentTerm[n])
      <3>1. QuietLog
        BY <1>3, <1>6, <2>1, <2>2
        DEF QuietLog, SameCells, pstate, BecomeLeader, CountsVote, TypeOK, ServerOK
      <3>2. [leader |-> n, term |-> currentTerm[n]] \notin elected
        BY <1>6 DEF CountsVote, LogInv, CandidateIsFresh
      <3>3. currentTerm[n] \in Term
        BY DEF TypeOK, ServerOK
      <3>4. UNCHANGED <<currentTerm, electionterm>>
        BY <2>1 DEF pstate
      <3> QED BY <2>2, <3>1, <3>2, <3>3, <3>4, LogElected DEF BecomeLeader
    <2>3. CASE UNCHANGED <<role, leaderId, lstate, elected>>
      <3>1. QuietLog
        BY <1>3, <2>1, <2>3 DEF QuietLog, SameCells, pstate
      <3> QED BY <2>1, <2>3, <3>1, LogQuiet DEF pstate
    <2> QED BY <1>6, <2>2, <2>3 DEF CountVote
  <1> QED BY <1>1, <1>4, <1>5, <1>6

\* HandleAppendEntriesResponse and raft_commit_entry touch no log.
LEMMA LogAppendResponse ==
    ASSUME TypeOK, LogInv, NEW n \in Node,
           HandleAppendEntriesResponse(n) \/ raft_commit_entry(n)
    PROVE  LogInv'
  <1>1. CASE raft_commit_entry(n)
    BY <1>1, LogIgnored DEF raft_commit_entry, history
  <1>2. CASE HandleAppendEntriesResponse(n)
    <2>1. PICK m \in Inbox(n, "AppendEntriesResponse") :
            /\ Answer(m, {})
            /\ \/ IgnoreResponse
               \/ StepDown(n, m.term)
               \/ UNCHANGED <<role, pstate, cstate, fd, disk, elected>>
      BY <1>2 DEF HandleAppendEntriesResponse
    <2>2. m.term \in Term
      BY InboxType DEF TypeOK
    <2>3. \A k \in net' : k \in net
      BY <2>1 DEF Answer
    <2>4. CASE StepDown(n, m.term)
      BY <2>1, <2>2, <2>4, LogStepDown
    <2>5. CASE UNCHANGED <<role, pstate, cstate, fd, disk, elected>>
      BY <2>3, <2>5, LogIgnored
    <2>6. CASE IgnoreResponse
      BY <2>3, <2>6, LogIgnored DEF IgnoreResponse, history
    <2> QED BY <2>1, <2>4, <2>5, <2>6
  <1> QED BY <1>1, <1>2

-----------------------------------------------------------------------------
(* Sending entries *)

\* What raft_append_entries sends is a part of the leader's log.
LEMMA RequestIsPiece ==
    ASSUME TypeOK, NEW n \in Node, NEW p \in Node, role[n] = "LEADER"
    PROVE  Piece(MessageRun(AppendRequest(n, p)), MemoryRun(n))
  <1> DEFINE prev == nextIndex[n][p] - 1
             count == Lesser(Batch, IF prev < logLen[n] THEN logLen[n] - prev ELSE 0)
             es == [i \in 1 .. count |-> log[n][prev + i]]
             m == AppendRequest(n, p)
             q == MessageRun(m)
  <1>1. prev \in Nat /\ logLen[n] \in Nat
    <2>1. nextIndex[n][p] \in 0 .. LogCap + 1 /\ nextIndex[n][p] >= 1
      BY DEF TypeOK, LeaderOK
    <2>2. logLen[n] \in Nat
      BY DEF TypeOK, LogOK, Index
    <2> QED BY <2>1, <2>2
  <1>2. /\ count \in Nat
        /\ count > 0 => prev + count <= logLen[n]
    BY <1>1 DEF Lesser
  <1>3. /\ m.prevLogIndex = prev /\ m.entries = es
        /\ m.prevLogTerm = IF prev > 0 THEN log[n][prev].term ELSE 0
    BY DEF AppendRequest
  <1>4. Len(es) = count /\ \A i \in 1 .. count : es[i] = log[n][prev + i]
    BY <1>2
  <1>5. /\ q.from = prev /\ q.to = prev + count
        /\ q.base = IF prev > 0 THEN log[n][prev].term ELSE 0
        /\ \A k \in prev + 1 .. prev + count : q.cells[k] = es[k - prev]
    <2> HIDE DEF m, es, count, prev
    <2> QED BY <1>1, <1>2, <1>3, <1>4 DEF q, MessageRun
  <1>6. \A k \in prev + 1 .. prev + count : k - prev \in 1 .. count /\ prev + (k - prev) = k
    BY <1>1, <1>2
  <1>7. \A k \in prev + 1 .. prev + count : q.cells[k] = log[n][k]
    <2> HIDE DEF m, es, count, prev, q
    <2> QED BY <1>4, <1>5, <1>6
  <1>8. \A k \in Nat : Holds(q, k) => k \in prev + 1 .. prev + count
    <2> HIDE DEF m, es, count, prev, q
    <2> QED BY <1>1, <1>2, <1>5 DEF Holds
  <1> HIDE DEF m, es, count, prev, q
  <1>9. IsRun(q) /\ IsRun(MemoryRun(n))
    BY <1>1, <1>2, <1>5 DEF IsRun, MemoryRun
  <1>10. q.base = TermAt(MemoryRun(n), q.from)
    BY <1>1, <1>5 DEF MemoryRun, TermAt
  <1>11. Piece(q, MemoryRun(n))
    BY <1>1, <1>2, <1>5, <1>7, <1>8, <1>9, <1>10 DEF Piece, MemoryRun
  <1> QED BY <1>11 DEF q, m

\* A request without entries is an empty run.
LEMMA HeartbeatIsPiece ==
    ASSUME TypeOK, NEW n \in Node, NEW m, m.prevLogIndex = 0, m.entries = <<>>
    PROVE  Piece(MessageRun(m), MemoryRun(n))
  <1>1. Len(m.entries) = 0
    OBVIOUS
  <1>2. MessageRun(m).from = 0 /\ MessageRun(m).to = 0
    BY <1>1 DEF MessageRun
  <1>3. IsRun(MemoryRun(n))
    BY DEF IsRun, MemoryRun, TypeOK, LogOK, Index
  <1> QED BY <1>2, <1>3 DEF Piece, IsRun, Holds

\* raft_append_entries and heartbeat_tick keep LogInv.
LEMMA LogSend ==
    ASSUME TypeOK, LogInv, NEW n \in Node,
           (\E p \in Node : raft_append_entries(n, p)) \/ heartbeat_tick(n)
    PROVE  LogInv'
  <1>1. UNCHANGED <<role, pstate, cstate, fd, disk, elected>> /\ role[n] = "LEADER"
    BY DEF raft_append_entries, heartbeat_tick, history
  <1>2. RestoreMatchesMemory' /\ FileFollowsMemory' /\ CandidateIsFresh'
    BY <1>1 DEF LogInv, RestoreMatchesMemory, FileFollowsMemory, CandidateIsFresh,
                pstate, cstate
  <1>3. \A m \in net' : m \in net \/ Piece(MessageRun(m), MemoryRun(n))
    <2>1. ASSUME NEW p \in Node, raft_append_entries(n, p)
          PROVE  \A m \in net' : m \in net \/ m = AppendRequest(n, p)
      BY <2>1 DEF raft_append_entries, Send
    <2>2. heartbeat_tick(n)
            => \A m \in net' : m \in net \/ (m.prevLogIndex = 0 /\ m.entries = <<>>)
      BY DEF heartbeat_tick, Send
    <2> QED BY <1>1, <2>1, <2>2, RequestIsPiece, HeartbeatIsPiece
  <1>4. \A p \in Node : MemoryRun(p)' = MemoryRun(p) /\ DiskRun(p)' = DiskRun(p)
    BY <1>1 DEF MemoryRun, DiskRun, pstate
  <1>5. \A r \in Runs' : Derived(r, Runs)
    <2>1. \A p \in Node : Derived(MemoryRun(p)', Runs) /\ Derived(DiskRun(p)', Runs)
      BY <1>4, RunsAreRuns, DerivedSelf
    <2>2. \A m \in net' : m.type = "AppendEntries" => Derived(MessageRun(m), Runs)
      <3>1. \A m \in net : m.type = "AppendEntries" => Derived(MessageRun(m), Runs)
        BY RunsAreRuns, DerivedSelf
      <3>2. \A m : Piece(MessageRun(m), MemoryRun(n)) => Derived(MessageRun(m), Runs)
        BY RunsAreRuns DEF Derived
      <3> QED BY <1>3, <3>1, <3>2
    <2> QED BY <2>1, <2>2, RunsDerived
  <1>6. RunsAgree' /\ RunsAreElected' /\ LeaderHoldsTerm'
    BY <1>1, <1>5, RunsStep DEF pstate
  <1> QED BY <1>2, <1>6 DEF LogInv

-----------------------------------------------------------------------------
(* A new entry *)

\* The cells of an array after a run of entries was written.
LEMMA ExtendedAt ==
    ASSUME NEW cells, NEW len \in Nat, NEW es, Len(es) \in Nat, NEW i \in 1 .. LogCap
    PROVE  /\ i <= len => Extended(cells, len, es)[i] = cells[i]
           /\ i > len /\ i <= len + Len(es) => Extended(cells, len, es)[i] = es[i - len]
  BY DEF Extended

\* Writing nothing changes nothing.
LEMMA ExtendedNothing ==
    ASSUME NEW cells \in Cells, NEW len \in Nat, NEW es, Len(es) = 0
    PROVE  Extended(cells, len, es) = cells
  BY DEF Extended, Cells

\* A run agrees with itself.
LEMMA AgreeSelf ==
    ASSUME NEW r
    PROVE  Agree(r, r)
  BY DEF Agree

\* Adding an entry keeps agreement with a run that has no entry of its index and term.
LEMMA FreshAgrees ==
    ASSUME NEW r, NEW f, NEW x, IsRun(r), IsRun(f), IsRun(x), Agree(r, x),
           f.from = r.from, f.base = r.base, f.to = r.to + 1,
           \A k \in Nat : Holds(r, k) => f.cells[k] = r.cells[k],
           ~(Holds(x, f.to) /\ x.cells[f.to].term = f.cells[f.to].term)
    PROVE  Agree(f, x)
  <1> SUFFICES ASSUME NEW k \in Nat, Holds(f, k), Holds(x, k),
                      f.cells[k].term = x.cells[k].term, NEW i \in 0 .. k
               PROVE  /\ i >= f.from /\ i >= x.from => TermAt(f, i) = TermAt(x, i)
                      /\ i > f.from /\ i > x.from => f.cells[i] = x.cells[i]
    BY AgreeBy
  <1>1. k # f.to
    OBVIOUS
  <1>2. Holds(r, k) /\ f.cells[k] = r.cells[k]
    BY <1>1 DEF Holds, IsRun
  <1>3. /\ i >= r.from /\ i >= x.from => TermAt(r, i) = TermAt(x, i)
        /\ i > r.from /\ i > x.from => r.cells[i] = x.cells[i]
    BY <1>2, AgreeAt
  <1>4. i > f.from => f.cells[i] = r.cells[i]
    BY <1>2 DEF Holds, IsRun
  <1>5. i >= f.from => TermAt(f, i) = TermAt(r, i)
    BY <1>4 DEF TypeOK, TermAt, IsRun
  <1> QED BY <1>3, <1>4, <1>5

\* The file after an ENTRY record for the next free cell of memory.
LEMMA EntryRecord ==
    ASSUME TypeOK, NEW n \in Node, FileFollowsMemory, logLen[n] < LogCap,
           NEW entry, entry.index = logLen[n] + 1
    PROVE  LET d == disk[n]
               e == ReplayEntries(d, <<entry>>)
           IN \/ /\ d.ok /\ d.len = logLen[n] /\ e.ok /\ e.len = d.len + 1
                 /\ \A i \in 1 .. logLen[n] : e.log[i] = log[n][i]
                 /\ e.log[logLen[n] + 1] = entry
              \/ ~e.ok /\ e.len = d.len /\ e.log = d.log
  <1> DEFINE d == disk[n]
             es == <<entry>>
             e == ReplayEntries(d, es)
  <1>1. d \in Store /\ d.len \in Nat /\ logLen[n] \in Nat
    BY DEF TypeOK, StorageOK, LogOK, Store, Index
  <1>2. es # <<>> /\ es[1] = entry /\ Len(es) = 1
    OBVIOUS
  <1> HIDE DEF es
  <1>3. CASE ~d.ok
    BY <1>3 DEF ReplayEntries, es
  <1>4. CASE d.ok /\ d.len # logLen[n]
    <2>1. e = [d EXCEPT !.ok = FALSE]
      BY <1>1, <1>2, <1>4 DEF ReplayEntries
    <2> QED BY <1>1, <2>1 DEF Store, es
  <1>5. CASE d.ok /\ d.len = logLen[n]
    <2>1. e = [d EXCEPT !.log = Extended(d.log, d.len, es), !.len = d.len + Len(es)]
      BY <1>1, <1>2, <1>5 DEF ReplayEntries
    <2>2. e.ok /\ e.len = d.len + 1 /\ e.log = Extended(d.log, d.len, es)
      BY <1>1, <1>2, <1>5, <2>1 DEF Store
    <2> DEFINE cells == Extended(d.log, d.len, es)
    <2>5. e.log = cells
      BY <2>2
    <2>0. \A i \in 1 .. LogCap : /\ i <= d.len => cells[i] = d.log[i]
                                 /\ i > d.len /\ i <= d.len + 1 => cells[i] = es[i - d.len]
      BY <1>1, <1>2 DEF Extended
    <2> HIDE DEF cells, e
    <2>3. \A i \in 1 .. logLen[n] : e.log[i] = log[n][i]
      <3> TAKE i \in 1 .. logLen[n]
      <3>0. i \in 1 .. LogCap /\ i <= d.len
        BY <1>1, <1>5
      <3>1. e.log[i] = d.log[i]
        BY <2>0, <2>5, <3>0
      <3>2. d.log[i] = log[n][i]
        BY <1>5 DEF FileFollowsMemory, Lesser
      <3> QED BY <3>1, <3>2
    <2>4. e.log[logLen[n] + 1] = entry
      <3>1. logLen[n] + 1 \in 1 .. LogCap /\ logLen[n] + 1 - d.len = 1
        BY <1>1, <1>5
      <3>2. cells[logLen[n] + 1] = es[1]
        BY <1>1, <1>5, <2>0, <3>1
      <3> QED BY <1>2, <2>5, <3>2
    <2> QED BY <1>5, <2>2, <2>3, <2>4 DEF es, e
  <1> QED BY <1>3, <1>4, <1>5 DEF es

\* raft_leader_send_command keeps LogInv: the leader is the only one who makes entries
\* of its term, and has every one of them.
LEMMA LogSendCommand ==
    ASSUME TypeOK, ElectionInv, ElectionSafety, LogInv, NEW n \in Node,
           raft_leader_send_command(n)
    PROVE  LogInv'
  <1>1. PICK c \in Command, io \in Outcome(n) : AcceptCommand(n, c, io)
    BY DEF raft_leader_send_command
  <1> DEFINE k == logLen[n] + 1
             t == currentTerm[n]
             entry == [index |-> k, term |-> t, command |-> c]
             cells == [log[n] EXCEPT ![k] = entry]
             f == [from |-> 0, to |-> k, base |-> 0, cells |-> cells]
             S == Runs \cup {f}
             d == disk[n]
             e == ReplayEntries(d, <<entry>>)
  <1>2. /\ role[n] = "LEADER" /\ logLen[n] < LogCap
        /\ UNCHANGED <<currentTerm, electionterm, fd, net, elected>>
    BY DEF raft_leader_send_command, cstate
  <1>3. /\ disk' = [disk EXCEPT ![n] = Persisted(io, d, e)]
        /\ io = "ok" => /\ log' = [log EXCEPT ![n] = cells]
                        /\ logLen' = [logLen EXCEPT ![n] = k]
                        /\ role' = role
        /\ io # "ok" => /\ role' = [role EXCEPT ![n] = "FAILED"]
                        /\ UNCHANGED <<log, logLen>>
    BY <1>1 DEF AcceptCommand
  <1>4. logLen[n] \in Nat /\ k \in 1 .. LogCap /\ log[n] \in Cells
    BY <1>2 DEF TypeOK, LogOK, Index
  <1>5. /\ cells[k] = entry
        /\ \A i \in 1 .. logLen[n] : cells[i] = log[n][i]
    BY <1>4 DEF Cells
  <1>6. entry.index = logLen[n] + 1 /\ entry.term = t
    OBVIOUS
  <1>7. /\ f.from = 0 /\ f.to = k /\ f.base = 0 /\ f.cells = cells
    OBVIOUS
  <1> HIDE DEF entry, cells, f
  <1>8. \/ /\ d.ok /\ d.len = logLen[n] /\ e.ok /\ e.len = d.len + 1
           /\ \A i \in 1 .. logLen[n] : e.log[i] = log[n][i]
           /\ e.log[logLen[n] + 1] = entry
        \/ ~e.ok /\ e.len = d.len /\ e.log = d.log
    BY <1>2, <1>6, EntryRecord DEF LogInv
  <1>9. d \in Store /\ d.len \in Nat
    BY DEF TypeOK, StorageOK, Store, Index
  <1> HIDE DEF e
  <1>10. \A p \in Node \ {n} : /\ MemoryRun(p)' = MemoryRun(p) /\ DiskRun(p)' = DiskRun(p)
                               /\ logLen'[p] = logLen[p] /\ log'[p] = log[p]
                               /\ disk'[p] = disk[p] /\ role'[p] = role[p]
    BY <1>3 DEF MemoryRun, DiskRun, TypeOK, LogOK, StorageOK, ServerOK
  <1>11. \/ MemoryRun(n)' = MemoryRun(n) /\ logLen'[n] = logLen[n] /\ log'[n] = log[n]
         \/ MemoryRun(n)' = f /\ logLen'[n] = k /\ log'[n] = cells
    BY <1>3 DEF MemoryRun, f, TypeOK, LogOK
  <1>12. IsRun(f) /\ \A r \in Runs : IsRun(r)
    BY <1>4, <1>7, RunsAreRuns DEF IsRun
  <1>13. \A x, y \in S : Agree(x, y) /\ IsRun(x)
    <2>1. ASSUME NEW x \in Runs PROVE Agree(f, x)
      <3>1. Agree(MemoryRun(n), x)
        BY RunsAreRuns DEF LogInv, RunsAgree
      <3>2. ~(Holds(x, f.to) /\ x.cells[f.to].term = f.cells[f.to].term)
        <4> SUFFICES ASSUME Holds(x, k), x.cells[k].term = t PROVE FALSE
          BY <1>5, <1>6, <1>7
        <4>1. k \in x.from + 1 .. x.to
          BY <1>4, <1>12 DEF Holds, IsRun
        <4>2. k <= logLen[n]
          BY <1>2, <4>1 DEF LogInv, LeaderHoldsTerm
        <4> QED BY <1>4, <4>2
      <3>3. \A i \in Nat : Holds(MemoryRun(n), i) => f.cells[i] = MemoryRun(n).cells[i]
        BY <1>4, <1>5, <1>7 DEF Holds, MemoryRun
      <3>4. /\ f.from = MemoryRun(n).from /\ f.base = MemoryRun(n).base
            /\ f.to = MemoryRun(n).to + 1
        BY <1>7 DEF MemoryRun
      <3>5. IsRun(MemoryRun(n)) /\ IsRun(x)
        BY RunsAreRuns
      <3> QED BY <1>12, <3>1, <3>2, <3>3, <3>4, <3>5, FreshAgrees
    <2>2. \A x \in Runs : Agree(x, f)
      BY <1>12, <2>1, AgreeSym
    <2> QED BY <1>12, <2>1, <2>2, AgreeSelf DEF LogInv, RunsAgree
  <1>14. \A r \in Runs' : Derived(r, S)
    <2>1. \A r \in S : Derived(r, S)
      BY <1>12, DerivedSelf
    <2>2. Derived(MemoryRun(n)', S)
      BY <1>11, <2>1, RunsAreRuns
    <2>3. /\ DiskRun(n)'.to = disk'[n].len /\ DiskRun(n)'.cells = disk'[n].log
          /\ DiskRun(n)'.from = 0 /\ DiskRun(n)'.base = 0
      BY DEF DiskRun
    <2>4. disk'[n] = d \/ disk'[n] = e
      BY <1>3 DEF TypeOK, StorageOK, Persisted
    <2>5. Derived(DiskRun(n)', S)
      <3>1. CASE disk'[n] = d \/ (~e.ok /\ e.len = d.len /\ e.log = d.log)
        <4>1. DiskRun(n)' = DiskRun(n)
          BY <2>4, <3>1 DEF DiskRun
        <4> QED BY <2>1, <4>1, RunsAreRuns
      <3>2. CASE /\ disk'[n] = e /\ e.len = k
                 /\ \A i \in 1 .. logLen[n] : e.log[i] = log[n][i]
                 /\ e.log[logLen[n] + 1] = entry
        <4>1. \A i \in 1 .. k : e.log[i] = cells[i]
          BY <1>4, <1>5, <3>2
        <4>2. Piece(DiskRun(n)', f)
          BY <1>4, <1>7, <1>12, <2>3, <3>2, <4>1 DEF Piece, IsRun, Holds, TermAt
        <4> QED BY <4>2 DEF Derived
      <3> QED BY <1>8, <2>4, <3>1, <3>2
    <2>6. \A p \in Node : Derived(MemoryRun(p)', S) /\ Derived(DiskRun(p)', S)
      BY <1>10, <2>1, <2>2, <2>5, RunsAreRuns
    <2>7. \A m \in net' : m.type = "AppendEntries" => Derived(MessageRun(m), S)
      BY <1>2, <2>1, RunsAreRuns
    <2> QED BY <2>6, <2>7, RunsDerived
  <1>15. RunsAgree'
    BY <1>13, <1>14, DerivedPair DEF RunsAgree
  <1>16. \A r \in Runs' : \A i \in r.from + 1 .. r.to :
            \/ \E s \in Runs : i \in s.from + 1 .. s.to /\ r.cells[i] = s.cells[i]
            \/ i = k /\ r.cells[i] = entry
    <2> SUFFICES ASSUME NEW r \in Runs', NEW i \in r.from + 1 .. r.to
                 PROVE  \/ \E s \in Runs : i \in s.from + 1 .. s.to /\ r.cells[i] = s.cells[i]
                        \/ i = k /\ r.cells[i] = entry
      OBVIOUS
    <2>1. PICK s \in S : i \in s.from + 1 .. s.to /\ r.cells[i] = s.cells[i]
      BY <1>14, DerivedCells
    <2>2. CASE s = f
      <3>1. i = k \/ i \in 1 .. logLen[n]
        BY <1>4, <1>7, <2>1, <2>2
      <3>2. CASE i = k
        BY <1>5, <1>7, <2>1, <2>2, <3>2
      <3>3. CASE i \in 1 .. logLen[n]
        <4>1. i \in MemoryRun(n).from + 1 .. MemoryRun(n).to
          BY <1>4, <3>3 DEF MemoryRun
        <4>2. r.cells[i] = MemoryRun(n).cells[i]
          BY <1>5, <1>7, <2>1, <2>2, <3>3 DEF MemoryRun
        <4> QED BY <4>1, <4>2, RunsAreRuns
      <3> QED BY <3>1, <3>2, <3>3
    <2> QED BY <2>1, <2>2
  <1>17. [leader |-> n, term |-> t] \in elected
    BY <1>2 DEF ElectionInv, LeaderIsElected
  <1>18. RunsAreElected'
    BY <1>2, <1>6, <1>16, <1>17 DEF LogInv, RunsAreElected
  <1>19. LeaderHoldsTerm'
    <2> SUFFICES ASSUME NEW p \in Node, role'[p] = "LEADER", NEW r \in Runs',
                        NEW i \in r.from + 1 .. r.to, r.cells[i].term = currentTerm[p]
                 PROVE  i <= logLen'[p]
      BY <1>2 DEF LeaderHoldsTerm
    <2>1. role[p] = "LEADER"
      BY <1>3 DEF TypeOK, ServerOK
    <2>2. CASE \E s \in Runs : i \in s.from + 1 .. s.to /\ r.cells[i] = s.cells[i]
      <3>1. PICK s \in Runs : i \in s.from + 1 .. s.to /\ r.cells[i] = s.cells[i]
        BY <2>2
      <3>2. i <= logLen[p] /\ i \in Int
        BY <1>12, <2>1, <3>1 DEF LogInv, LeaderHoldsTerm, IsRun
      <3> QED BY <1>4, <1>10, <1>11, <3>2
    <2>3. CASE i = k /\ r.cells[i] = entry
      <3>1. [leader |-> p, term |-> t] \in elected
        BY <1>6, <2>1, <2>3 DEF ElectionInv, LeaderIsElected
      <3>2. p = n
        BY <1>17, <3>1 DEF ElectionSafety
      <3>3. io = "ok"
        BY <1>3, <3>2 DEF TypeOK, ServerOK
      <3>4. logLen'[n] = k
        BY <1>3, <3>3 DEF TypeOK, LogOK
      <3> QED BY <1>4, <2>3, <3>2, <3>4
    <2> QED BY <1>16, <2>2, <2>3
  <1>20. CandidateIsFresh'
    <2>1. \A p \in Node : role'[p] = "CANDIDATE" => role[p] = "CANDIDATE"
      BY <1>3 DEF TypeOK, ServerOK
    <2> QED BY <1>2, <2>1 DEF LogInv, CandidateIsFresh
  <1>21. RestoreMatchesMemory'
    <2> SUFFICES ASSUME fd[n], role'[n] # "FAILED"
                 PROVE  /\ disk'[n].ok /\ disk'[n].len = logLen'[n]
                        /\ \A i \in 1 .. logLen'[n] : disk'[n].log[i] = log'[n][i]
      BY <1>2, <1>10 DEF LogInv, RestoreMatchesMemory
    <2>1. io = "ok"
      BY <1>3 DEF TypeOK, ServerOK
    <2>2. disk'[n] = e /\ logLen'[n] = k /\ log'[n] = cells
      BY <1>3, <2>1 DEF Persisted, TypeOK, StorageOK, LogOK
    <2>3. d.ok /\ d.len = logLen[n]
      BY <1>2 DEF LogInv, RestoreMatchesMemory
    <2>4. e.ok
      <3>1. ReplayEntries(d, <<entry>>).ok
        BY <1>6, <1>9, <2>3 DEF ReplayEntries, Store
      <3> QED BY <3>1 DEF e
    <2> QED BY <1>4, <1>5, <1>8, <2>2, <2>4
  <1>22. FileFollowsMemory'
    <2> SUFFICES ASSUME disk'[n].ok,
                        NEW i \in 1 .. Lesser(logLen'[n], disk'[n].len)
                 PROVE  disk'[n].log[i] = log'[n][i]
      BY <1>10 DEF LogInv, FileFollowsMemory
    <2>1. CASE disk'[n] = d /\ io # "ok"
      BY <1>3, <2>1 DEF LogInv, FileFollowsMemory
    <2>2. CASE disk'[n] = e
      <3>1. /\ e.len = k
            /\ \A j \in 1 .. logLen[n] : e.log[j] = log[n][j]
            /\ e.log[logLen[n] + 1] = entry
        BY <1>8, <2>2
      <3>2. logLen'[n] \in {logLen[n], k}
        BY <1>11
      <3>3. i \in 1 .. logLen'[n]
        BY <1>4, <2>2, <3>1, <3>2 DEF Lesser
      <3> QED BY <1>4, <1>5, <1>11, <2>2, <3>1, <3>3
    <2> QED BY <1>3, <2>1, <2>2 DEF Persisted, TypeOK, StorageOK
  <1> QED BY <1>15, <1>18, <1>19, <1>20, <1>21, <1>22 DEF LogInv

-----------------------------------------------------------------------------
(* AppendEntries at a follower *)

\* Where the loop starts to write: both logs have a cell there, of the same term.
LEMMA LoopStart ==
    ASSUME TypeOK, NEW n \in Node, NEW m \in AppendEntries,
           NEW last \in 0 .. Len(m.entries), NEW first \in 1 .. last + 1,
           Scan(n, m, first, last), PrevMatches(n, m)
    PROVE  LET at == m.prevLogIndex + first - 1
           IN /\ at \in Nat /\ at <= logLen[n]
              /\ TermAt(MemoryRun(n), at) = TermAt(MessageRun(m), at)
              /\ ~Conflict(n, m, first) => at = logLen[n]
              /\ Conflict(n, m, first) => at + 1 <= logLen[n]
  <1> DEFINE prev == m.prevLogIndex
             at == prev + first - 1
  <1>1. prev \in Nat /\ Len(m.entries) \in Nat /\ logLen[n] \in Nat
    BY DEF AppendEntries, TypeOK, LogOK, Index
  <1>2. first \in Nat /\ last \in Nat /\ at \in Nat
    BY <1>1
  <1>5. Conflict(n, m, first) <=> at + 1 <= logLen[n]
    BY <1>1, <1>2 DEF Conflict
  <1>3. CASE first = 1
    <2>1. at = prev /\ at <= logLen[n]
      BY <1>1, <1>3 DEF PrevMatches
    <2>2. TermAt(MessageRun(m), at) = IF prev = 0 THEN 0 ELSE m.prevLogTerm
      BY <2>1 DEF TermAt, MessageRun
    <2>3. TermAt(MemoryRun(n), at) = IF prev = 0 THEN 0 ELSE log[n][prev].term
      BY <2>1 DEF TermAt, MemoryRun
    <2> QED BY <1>1, <1>2, <1>5, <2>1, <2>2, <2>3 DEF PrevMatches
  <1>4. CASE first > 1
    <2>1. Present(n, m, first - 1)
      BY <1>2, <1>4 DEF Scan
    <2>2. prev + (first - 1) = at
      BY <1>1, <1>2
    <2>3. at <= logLen[n] /\ log[n][at].term = m.entries[first - 1].term
      BY <2>1, <2>2 DEF Present
    <2>4. at # 0 /\ at # prev /\ at \in prev + 1 .. prev + Len(m.entries)
      BY <1>1, <1>2, <1>4
    <2>5. TermAt(MemoryRun(n), at) = log[n][at].term
      BY <2>4 DEF TermAt, MemoryRun
    <2>6. at - prev = first - 1
      BY <1>1, <1>2
    <2>7. TermAt(MessageRun(m), at) = m.entries[first - 1].term
      BY <2>4, <2>6 DEF TermAt, MessageRun
    <2> QED BY <1>1, <1>2, <2>3, <2>5, <2>7 DEF Conflict
  <1> QED BY <1>1, <1>2, <1>3, <1>4

\* Positions in the log, in the request's entries and in a part of them.
LEMMA LoopPositions ==
    ASSUME NEW prev \in Nat, NEW first \in Nat, NEW to \in Nat, NEW len \in Nat,
           len = to - first + 1, NEW i \in Int, i >= prev + first, i <= prev + to
    PROVE  /\ i - (prev + first - 1) \in 1 .. len
           /\ first + (i - (prev + first - 1)) - 1 = i - prev
           /\ i \in (prev + first - 1) + 1 .. (prev + first - 1) + len
  OBVIOUS

\* What the loop has in hand: a part of the request's entries.
LEMMA LoopEntries ==
    ASSUME NEW m \in AppendEntries, NEW last \in 0 .. Len(m.entries),
           NEW first \in 1 .. last + 1, NEW to \in first - 1 .. last
    PROVE  LET es == SubSeq(m.entries, first, to)
               at == m.prevLogIndex + first - 1
           IN /\ es \in Seq(Entry) /\ Len(es) = to - first + 1
              /\ \A i \in at + 1 .. m.prevLogIndex + to :
                   /\ es[i - at] = m.entries[i - m.prevLogIndex]
                   /\ MessageRun(m).cells[i] = m.entries[i - m.prevLogIndex]
  <1> DEFINE es == SubSeq(m.entries, first, to)
             prev == m.prevLogIndex
             at == prev + first - 1
  <1>1. prev \in Nat /\ Len(m.entries) \in Nat /\ m.entries \in Seq(Entry)
    BY DEF AppendEntries, Index
  <1>2. first \in Nat /\ to \in Nat /\ last \in Nat
    BY <1>1
  <1>3. es \in Seq(Entry) /\ Len(es) = to - first + 1
    BY <1>1, <1>2
  <1>4. \A j \in 1 .. Len(es) : es[j] = m.entries[first + j - 1]
    BY <1>1, <1>2
  <1> HIDE DEF es
  <1>5. ASSUME NEW i \in at + 1 .. prev + to
        PROVE  es[i - at] = m.entries[i - prev] /\ MessageRun(m).cells[i] = m.entries[i - prev]
    <2>0. i \in Int /\ i >= prev + first /\ i <= prev + to /\ Len(es) \in Nat
      BY <1>1, <1>2, <1>3
    <2>1. i - at \in 1 .. Len(es) /\ first + (i - at) - 1 = i - prev
      <3> DEFINE len == Len(es)
      <3>1. len \in Nat /\ len = to - first + 1
        BY <1>3, <2>0
      <3> HIDE DEF len
      <3>2. i - at \in 1 .. len /\ first + (i - at) - 1 = i - prev
        BY <1>1, <1>2, <2>0, <3>1
      <3> QED BY <3>2 DEF len
    <2>2. i \in prev + 1 .. prev + Len(m.entries)
      BY <1>1, <1>2
    <2>3. es[i - at] = m.entries[i - prev]
      BY <1>4, <2>1
    <2> QED BY <2>2, <2>3 DEF MessageRun
  <1> QED BY <1>3, <1>5 DEF es

\* Memory after the loop: the log up to where it starts, then the entries.
LEMMA LoopMemory ==
    ASSUME TypeOK, NEW n \in Node, NEW m \in AppendEntries,
           NEW last \in 1 .. Len(m.entries), NEW first \in 1 .. last,
           Scan(n, m, first, last), PrevMatches(n, m), NEW to \in first - 1 .. last
    PROVE  LET at == m.prevLogIndex + first - 1
               cells == Extended(log[n], at, SubSeq(m.entries, first, to))
           IN /\ \A i \in 1 .. at : cells[i] = log[n][i]
              /\ \A i \in at + 1 .. m.prevLogIndex + to : cells[i] = m.entries[i - m.prevLogIndex]
              /\ Join([from |-> 0, to |-> m.prevLogIndex + to, base |-> 0, cells |-> cells],
                      MemoryRun(n), MessageRun(m), at)
  <1> DEFINE es == SubSeq(m.entries, first, to)
             prev == m.prevLogIndex
             at == prev + first - 1
             cells == Extended(log[n], at, es)
             j == [from |-> 0, to |-> prev + to, base |-> 0, cells |-> cells]
             b == MemoryRun(n)
             q == MessageRun(m)
  <1>0. /\ prev \in Nat /\ Len(m.entries) \in Nat
        /\ logLen[n] \in Nat /\ logLen[n] <= LogCap
    BY DEF AppendEntries, TypeOK, LogOK, Index
  <1>2. /\ first \in Nat /\ to \in Nat /\ last \in Nat
        /\ last \in 0 .. Len(m.entries) /\ first \in 1 .. last + 1 /\ last > 0
    BY <1>0
  <1>1. /\ prev \in Nat /\ Len(m.entries) \in Nat /\ logLen[n] \in Nat
        /\ logLen[n] <= LogCap /\ prev + last <= LogCap
    BY <1>0, <1>2, ScanBounds
  <1>3. /\ at \in Nat /\ at <= logLen[n]
        /\ TermAt(b, at) = TermAt(q, at)
    BY <1>1, <1>2, LoopStart
  <1>4. /\ Len(es) = to - first + 1
        /\ \A i \in at + 1 .. prev + to : /\ es[i - at] = m.entries[i - prev]
                                          /\ q.cells[i] = m.entries[i - prev]
    <2>1. last \in 0 .. Len(m.entries) /\ first \in 1 .. last + 1
      BY <1>2
    <2> QED BY <2>1, LoopEntries, ZenonT(60)
  <1> HIDE DEF es
  <1>5. \A i \in 1 .. at : cells[i] = log[n][i]
    BY <1>1, <1>3, <1>4 DEF Extended
  <1>6. \A i \in at + 1 .. prev + to : cells[i] = m.entries[i - prev]
    <2> TAKE i \in at + 1 .. prev + to
    <2>0. i \in Int /\ i >= prev + first /\ i <= prev + to /\ to <= last
      BY <1>1, <1>2, <1>3
    <2>3. Len(es) \in Nat
      BY <1>2, <1>4
    <2>4. i \in at + 1 .. at + Len(es)
      BY <1>1, <1>2, <1>4, <2>0, <2>3, LoopPositions
    <2>1. i \in 1 .. LogCap /\ i \in at + 1 .. at + Len(es)
      BY <1>1, <1>2, <2>0, <2>4
    <2>2. cells[i] = es[i - at]
      BY <2>1 DEF Extended
    <2> QED BY <1>4, <2>2
  <1> HIDE DEF cells
  <1>7. Join(j, b, q, at)
    <2>1. IsRun(j) /\ IsRun(b) /\ IsRun(q)
      BY <1>1, <1>2 DEF IsRun, MemoryRun, MessageRun
    <2>2. /\ j.from = b.from /\ j.base = b.base /\ b.from <= at /\ at <= b.to
          /\ q.from <= at /\ j.to <= q.to
      <3>1. b.from = 0 /\ b.base = 0 /\ b.to = logLen[n]
        BY DEF MemoryRun
      <3>2. q.from = prev /\ q.to = prev + Len(m.entries)
        BY DEF MessageRun
      <3>3. prev <= at /\ prev + to <= prev + Len(m.entries)
        BY <1>1, <1>2
      <3> QED BY <1>3, <3>1, <3>2, <3>3
    <2>3. ASSUME NEW k \in Nat, Holds(j, k)
          PROVE  /\ k <= at => j.cells[k] = b.cells[k]
                 /\ k > at => j.cells[k] = q.cells[k]
      <3>1. k \in 1 .. prev + to
        BY <1>1, <1>2, <2>3 DEF Holds
      <3>2. k <= at => k \in 1 .. at
        BY <1>3, <3>1
      <3>3. k > at => k \in at + 1 .. prev + to
        BY <1>1, <1>2, <1>3, <3>1
      <3>4. b.cells = log[n]
        BY DEF MemoryRun
      <3> QED BY <1>4, <1>5, <1>6, <3>2, <3>3, <3>4
    <2> QED BY <1>3, <2>1, <2>2, <2>3 DEF Join
  <1> QED BY <1>5, <1>6, <1>7 DEF cells, es

\* A TRUNCATE record the replay takes.
LEMMA TruncateRecord ==
    ASSUME NEW d \in Store, NEW from \in Int, d.ok, from <= d.len + 1
    PROVE  ReplayTruncate(d, from) = [d EXCEPT !.len = from - 1]
  BY DEF ReplayTruncate

\* The file before the entries are written: the old one, or a prefix of it.
LEMMA LoopCut ==
    ASSUME TypeOK, NEW n \in Node, NEW m \in AppendEntries, NEW first \in Nat \ {0},
           m.prevLogIndex + first <= LogCap
    PROVE  LET d == disk[n]
               c == CutFile(n, m, first)
               at == m.prevLogIndex + first - 1
           IN /\ c \in Store /\ c.ok = d.ok /\ c.log = d.log /\ c.len <= d.len
              /\ SameCells(d, FollowFile(n, m))
              /\ d.ok => c.len = IF Conflict(n, m, first) /\ at <= d.len THEN at ELSE d.len
  <1> DEFINE d == disk[n]
             g == FollowFile(n, m)
             c == CutFile(n, m, first)
             at == m.prevLogIndex + first - 1
  <1>1. d \in Store /\ d.len \in Nat /\ m.prevLogIndex \in Nat
    BY DEF TypeOK, StorageOK, Store, Index, AppendEntries
  <1>2. SameCells(d, g) /\ g \in Store
    BY <1>1, StateKeepsCells, FollowFileType DEF FollowFile, SameCells
  <1>3. c \in Store /\ g = FollowFile(n, m)
    BY CutFileType
  <1>6. c = IF Conflict(n, m, first) THEN ReplayTruncate(g, m.prevLogIndex + first) ELSE g
    BY DEF CutFile
  <1> HIDE DEF g, c
  <1>4. CASE g.ok /\ Conflict(n, m, first) /\ m.prevLogIndex + first <= g.len + 1
    <2>0. c = ReplayTruncate(g, m.prevLogIndex + first)
      BY <1>4, <1>6
    <2>1. c = [g EXCEPT !.len = m.prevLogIndex + first - 1]
      BY <1>1, <1>2, <1>4, <2>0, TruncateRecord
    <2>2. c.len = at /\ c.ok = g.ok /\ c.log = g.log
      BY <1>2, <2>1 DEF Store
    <2>3. at <= d.len
      BY <1>1, <1>2, <1>4 DEF SameCells
    <2> QED BY <1>1, <1>2, <1>3, <1>4, <2>2, <2>3 DEF SameCells, c
  <1>5. CASE ~(g.ok /\ Conflict(n, m, first) /\ m.prevLogIndex + first <= g.len + 1)
    <2>1. c = g
      BY <1>5, <1>6 DEF ReplayTruncate
    <2>2. d.ok /\ Conflict(n, m, first) => ~(at <= d.len)
      BY <1>1, <1>2, <1>5 DEF SameCells
    <2> QED BY <1>1, <1>2, <1>3, <2>1, <2>2 DEF SameCells, c
  <1> QED BY <1>4, <1>5

\* The file after some of the entries: as much of the old one as memory keeps, then
\* the entries; or, when the replay gives up, the old one or a prefix of it.
LEMMA LoopFile ==
    ASSUME TypeOK, LogInv, NEW n \in Node, NEW m \in net, m.type = "AppendEntries",
           m \in AppendEntries,
           NEW last \in 1 .. Len(m.entries), NEW first \in 1 .. last,
           Scan(n, m, first, last), PrevMatches(n, m), NEW to \in first - 1 .. last
    PROVE  LET at == m.prevLogIndex + first - 1
               e == ReplayEntries(CutFile(n, m, first), SubSeq(m.entries, first, to))
           IN /\ Derived([from |-> 0, to |-> e.len, base |-> 0, cells |-> e.log], Runs)
              /\ e.len \in Nat
              /\ e.ok => \A i \in 1 .. e.len :
                           /\ i <= at => e.log[i] = log[n][i]
                           /\ i > at /\ to >= first => e.log[i] = m.entries[i - m.prevLogIndex]
              /\ fd[n] /\ role[n] # "FAILED" /\ to >= first
                    => e.ok /\ e.len = m.prevLogIndex + to
  <1> DEFINE es == SubSeq(m.entries, first, to)
             prev == m.prevLogIndex
             at == prev + first - 1
             d == disk[n]
             c == CutFile(n, m, first)
             e == ReplayEntries(c, es)
             len == Len(es)
             b == DiskRun(n)
             q == MessageRun(m)
             j == [from |-> 0, to |-> e.len, base |-> 0, cells |-> e.log]
  <1>0. /\ prev \in Nat /\ Len(m.entries) \in Nat /\ logLen[n] \in Nat /\ logLen[n] <= LogCap
        /\ d \in Store /\ d.len \in Nat /\ d.len <= LogCap
    BY DEF AppendEntries, TypeOK, LogOK, StorageOK, Store, Index
  <1>1. /\ first \in Nat \ {0} /\ to \in Nat /\ last \in Nat /\ to <= last /\ first <= last
        /\ last \in 0 .. Len(m.entries) /\ first \in 1 .. last + 1 /\ last > 0
    BY <1>0
  <1>2. /\ prev + last <= LogCap
        /\ \A i \in 1 .. last : m.entries[i].index = prev + i
    BY <1>1, ScanBounds
  <1>3. /\ at \in Nat /\ at <= logLen[n]
        /\ TermAt(MemoryRun(n), at) = TermAt(q, at)
        /\ ~Conflict(n, m, first) => at = logLen[n]
        /\ Conflict(n, m, first) => at + 1 <= logLen[n]
    BY <1>1, LoopStart
  <1>4. /\ es \in Seq(Entry) /\ len = to - first + 1
        /\ \A i \in at + 1 .. prev + to : /\ es[i - at] = m.entries[i - prev]
                                          /\ q.cells[i] = m.entries[i - prev]
    BY <1>1, LoopEntries
  <1>5. /\ c \in Store /\ c.ok = d.ok /\ c.log = d.log /\ c.len <= d.len
        /\ d.ok => c.len = IF Conflict(n, m, first) /\ at <= d.len THEN at ELSE d.len
    <2>1. prev + first <= LogCap
      BY <1>0, <1>1, <1>2
    <2> QED BY <1>1, <2>1, LoopCut
  <1>6. d.ok => \A i \in Nat \ {0} : i <= logLen[n] /\ i <= d.len => d.log[i] = log[n][i]
    BY <1>0 DEF LogInv, FileFollowsMemory, Lesser
  <1>7. es # <<>> <=> to >= first
    <2>1. es # <<>> <=> len # 0
      BY <1>4 DEF len
    <2> HIDE DEF len
    <2> QED BY <1>1, <1>4, <2>1
  <1>8. to >= first => es[1].index = at + 1
    <2>1. to >= first => es[1] = m.entries[first]
      BY <1>0, <1>1, <1>4 DEF AppendEntries
    <2> QED BY <1>0, <1>1, <1>2, <2>1
  <1>9. b \in Runs /\ q \in Runs /\ IsRun(b) /\ IsRun(q)
    BY RunsAreRuns
  <1>10. fd[n] /\ role[n] # "FAILED" => d.ok /\ d.len = logLen[n]
    BY DEF LogInv, RestoreMatchesMemory
  <1>11. /\ b.from = 0 /\ b.base = 0 /\ b.to = d.len /\ b.cells = d.log
         /\ q.from = prev /\ q.to = prev + Len(m.entries)
    BY DEF DiskRun, MessageRun
  <1>12. c.len \in Nat
    BY <1>5 DEF Store, Index
  <1> HIDE DEF es, c, d, b, q, len
  <1>13. CASE ~(d.ok /\ to >= first /\ c.len = at)
    <2>1. e.log = d.log /\ e.len = c.len /\ (e.ok => d.ok /\ ~(to >= first))
      <3>1. CASE ~c.ok \/ es = <<>>
        <4>1. e = c
          BY <3>1 DEF ReplayEntries
        <4> QED BY <1>5, <1>7, <3>1, <4>1
      <3>2. CASE c.ok /\ es # <<>>
        <4>1. es[1].index # c.len + 1
          BY <1>3, <1>5, <1>7, <1>8, <1>12, <1>13, <3>2
        <4>2. e = [c EXCEPT !.ok = FALSE]
          BY <3>2, <4>1 DEF ReplayEntries
        <4> QED BY <1>5, <4>2 DEF Store
      <3> QED BY <3>1, <3>2
    <2> HIDE DEF e
    <2>2. Piece(j, b)
      BY <1>0, <1>5, <1>9, <1>11, <1>12, <2>1 DEF Piece, IsRun, Holds, TermAt
    <2>3. Derived(j, Runs)
      BY <1>9, <2>2 DEF Derived
    <2>4. e.ok => \A i \in 1 .. e.len : i <= at => e.log[i] = log[n][i]
      BY <1>0, <1>3, <1>5, <1>6, <1>12, <2>1
    <2>5. fd[n] /\ role[n] # "FAILED" /\ to >= first => FALSE
      BY <1>0, <1>3, <1>5, <1>10, <1>13
    <2> QED BY <1>12, <2>1, <2>3, <2>4, <2>5 DEF e, c, es
  <1>14. CASE d.ok /\ to >= first /\ c.len = at
    <2>1. e = [c EXCEPT !.log = Extended(c.log, c.len, es), !.len = c.len + len]
      BY <1>5, <1>7, <1>8, <1>14 DEF ReplayEntries, len
    <2>2. e.ok /\ e.len = at + len /\ e.log = Extended(d.log, at, es)
      BY <1>5, <1>14, <2>1 DEF Store
    <2>3. at + len = prev + to /\ len \in Nat
      BY <1>0, <1>1, <1>4, <1>14
    <2> HIDE DEF e
    <2>4. at <= d.len
      BY <1>5, <1>14
    <2>5. \A i \in 1 .. at : e.log[i] = d.log[i] /\ d.log[i] = log[n][i]
      <3> TAKE i \in 1 .. at
      <3>1. i \in 1 .. LogCap /\ i <= at /\ i \in Nat \ {0} /\ i <= logLen[n] /\ i <= d.len
        BY <1>0, <1>3, <2>4
      <3>2. Extended(d.log, at, es)[i] = d.log[i]
        BY <1>3, <3>1 DEF Extended
      <3> QED BY <1>6, <1>14, <2>2, <3>1, <3>2
    <2>6. \A i \in at + 1 .. prev + to : e.log[i] = m.entries[i - prev]
      <3> TAKE i \in at + 1 .. prev + to
      <3>1. i \in 1 .. LogCap /\ i \in at + 1 .. at + len
        BY <1>0, <1>1, <1>2, <1>3, <2>3
      <3>2. Extended(d.log, at, es)[i] = es[i - at]
        BY <3>1 DEF Extended, len
      <3> QED BY <1>4, <2>2, <3>2
    <2>7. TermAt(b, at) = TermAt(q, at)
      <3>1. at # 0 => d.log[at] = log[n][at]
        BY <1>3, <1>6, <1>14, <2>4
      <3>2. TermAt(b, at) = TermAt(MemoryRun(n), at)
        BY <1>11, <3>1 DEF TermAt, MemoryRun
      <3> QED BY <1>3, <3>2
    <2>8. Join(j, b, q, at)
      <3>1. IsRun(j)
        BY <1>0, <1>1, <2>2, <2>3 DEF IsRun
      <3>2. /\ j.from = b.from /\ j.base = b.base /\ b.from <= at /\ at <= b.to
            /\ q.from <= at /\ j.to <= q.to
        <4>1. prev <= at /\ prev + to <= prev + Len(m.entries)
          BY <1>0, <1>1
        <4> QED BY <1>3, <1>11, <2>2, <2>3, <2>4, <4>1
      <3>3. ASSUME NEW k \in Nat, Holds(j, k)
            PROVE  /\ k <= at => j.cells[k] = b.cells[k]
                   /\ k > at => j.cells[k] = q.cells[k]
        <4>1. k \in 1 .. prev + to
          BY <1>0, <1>1, <2>2, <2>3, <3>3 DEF Holds
        <4>2. k <= at => k \in 1 .. at
          BY <1>3, <4>1
        <4>3. k > at => k \in at + 1 .. prev + to
          BY <1>0, <1>1, <1>3, <4>1
        <4> QED BY <1>4, <1>11, <2>5, <2>6, <4>2, <4>3
      <3> QED BY <1>3, <1>9, <2>7, <3>1, <3>2, <3>3 DEF Join
    <2>9. Derived(j, Runs)
      BY <1>3, <1>9, <2>8 DEF Derived
    <2>10. \A i \in 1 .. e.len : (i <= at => i \in 1 .. at) /\ (i > at => i \in at + 1 .. prev + to)
      BY <1>0, <1>1, <1>3, <2>2, <2>3
    <2>11. e.len \in Nat /\ e.len = prev + to
      BY <1>0, <1>1, <2>2, <2>3
    <2>12. \A i \in 1 .. e.len : /\ i <= at => e.log[i] = log[n][i]
                                 /\ i > at => e.log[i] = m.entries[i - prev]
      BY <2>5, <2>6, <2>10
    <2> QED BY <2>2, <2>9, <2>11, <2>12 DEF e, c, es
  <1> QED BY <1>13, <1>14 DEF e, c, es

\* A node that follows a leader leads and stands for nothing itself.
LEMMA FollowRoles ==
    ASSUME TypeOK, NEW n \in Node, NEW m, NEW failed \in BOOLEAN, Follow(n, m, failed)
    PROVE  /\ \A p \in Node : role'[p] \in {"LEADER", "CANDIDATE"}
                 => /\ p # n /\ role'[p] = role[p] /\ currentTerm'[p] = currentTerm[p]
                    /\ electionterm'[p] = electionterm[p]
           /\ \A p \in Node : role'[p] # "FAILED" => role[p] # "FAILED"
           /\ failed => role'[n] = "FAILED"
  <1>1. \A p \in Node \ {n} : /\ role'[p] = role[p] /\ currentTerm'[p] = currentTerm[p]
                              /\ electionterm'[p] = electionterm[p]
    BY DEF Follow, ClearCounters, TypeOK, ServerOK, CandidateOK
  <1>2. role'[n] = IF failed \/ role[n] = "FAILED" THEN "FAILED" ELSE "FOLLOWER"
    BY DEF Follow, TypeOK, ServerOK
  <1> QED BY <1>1, <1>2

\* A follower's log and file, made of runs there were.
LEMMA LogFollow ==
    ASSUME TypeOK, LogInv, NEW n \in Node, NEW m, NEW failed \in BOOLEAN,
           Follow(n, m, failed), UNCHANGED <<fd, elected>>,
           \A k \in net' : k \in net \/ k.type = "AppendEntriesResponse",
           NEW cells, NEW len \in Nat, NEW d, d.len \in Nat,
           log' = [log EXCEPT ![n] = cells], logLen' = [logLen EXCEPT ![n] = len],
           disk' = [disk EXCEPT ![n] = d],
           Derived([from |-> 0, to |-> len, base |-> 0, cells |-> cells], Runs),
           Derived([from |-> 0, to |-> d.len, base |-> 0, cells |-> d.log], Runs),
           d.ok => \A i \in 1 .. len : i <= d.len => d.log[i] = cells[i],
           fd[n] /\ role[n] # "FAILED" /\ ~failed => d.ok /\ d.len = len
    PROVE  LogInv'
  <1>1. /\ log'[n] = cells /\ logLen'[n] = len /\ disk'[n] = d
        /\ \A p \in Node \ {n} : /\ log'[p] = log[p] /\ logLen'[p] = logLen[p]
                                 /\ disk'[p] = disk[p]
    BY DEF TypeOK, LogOK, StorageOK
  <1>2. /\ MemoryRun(n)' = [from |-> 0, to |-> len, base |-> 0, cells |-> cells]
        /\ DiskRun(n)' = [from |-> 0, to |-> d.len, base |-> 0, cells |-> d.log]
        /\ \A p \in Node \ {n} : MemoryRun(p)' = MemoryRun(p) /\ DiskRun(p)' = DiskRun(p)
    BY <1>1 DEF MemoryRun, DiskRun
  <1>3. \A r \in Runs : Derived(r, Runs)
    BY RunsAreRuns, DerivedSelf
  <1>4. \A p \in Node : Derived(MemoryRun(p)', Runs) /\ Derived(DiskRun(p)', Runs)
    BY <1>2, <1>3, RunsAreRuns
  <1>5. \A k \in net' : k.type = "AppendEntries" => Derived(MessageRun(k), Runs)
    BY <1>3, RunsAreRuns
  <1>6. \A r \in Runs' : Derived(r, Runs)
    BY <1>4, <1>5, RunsDerived
  <1>7. RunsAgree' /\ RunsAreElected' /\ LeaderHoldsTerm'
    BY <1>1, <1>6, FollowRoles, RunsStep
  <1>8. CandidateIsFresh'
    BY FollowRoles DEF LogInv, CandidateIsFresh
  <1>9. FileFollowsMemory'
    <2>1. \A i \in 1 .. Lesser(len, d.len) : i \in 1 .. len /\ i <= d.len
      BY DEF Lesser
    <2> QED BY <1>1, <2>1 DEF LogInv, FileFollowsMemory
  <1>10. RestoreMatchesMemory'
    <2> SUFFICES ASSUME NEW p \in Node, fd[p], role'[p] # "FAILED"
                 PROVE  /\ disk'[p].ok /\ disk'[p].len = logLen'[p]
                        /\ \A i \in 1 .. logLen'[p] : disk'[p].log[i] = log'[p][i]
      BY DEF RestoreMatchesMemory
    <2>1. role[p] # "FAILED"
      BY FollowRoles
    <2>2. CASE p = n
      <3>1. d.ok /\ d.len = len
        BY <2>1, <2>2, FollowRoles
      <3>2. \A i \in 1 .. len : i <= d.len
        BY <3>1
      <3> QED BY <1>1, <2>2, <3>1, <3>2
    <2>3. CASE p # n
      BY <1>1, <2>1, <2>3 DEF LogInv, RestoreMatchesMemory
    <2> QED BY <2>2, <2>3
  <1> QED BY <1>7, <1>8, <1>9, <1>10 DEF LogInv

\* Refusing a request keeps LogInv: nothing but the term is written.
LEMMA LogAppendRefused ==
    ASSUME TypeOK, LogInv, NEW n \in Node, NEW m \in AppendEntries, m \in net,
           AppendStale(n, m) \/ AppendTermFault(n, m) \/ AppendMismatch(n, m)
    PROVE  LogInv'
  <1>0. disk[n] \in Store
    BY DEF TypeOK, StorageOK
  <1>1. CASE AppendStale(n, m)
    <2>1. \A k \in net' : k \in net \/ k.type = "AppendEntriesResponse"
      BY <1>1, ReplyOnly DEF AppendStale
    <2> QED BY <1>1, <2>1, LogIgnored DEF AppendStale, history
  <1>2. CASE AppendTermFault(n, m)
    <2>1. \A k \in net' : k \in net \/ k.type = "AppendEntriesResponse"
      BY <1>2, ReplyOnly DEF AppendTermFault
    <2>2. PICK io \in Outcome(n) \ {"ok"} :
            disk' = [disk EXCEPT ![n] = Persisted(io, disk[n], ReplayState(disk[n], m.term, Nil))]
      BY <1>2 DEF AppendTermFault
    <2>3. SameCells(disk[n], Persisted(io, disk[n], ReplayState(disk[n], m.term, Nil)))
      BY <1>0, StateKeepsCells
    <2>4. \A p \in Node : SameCells(disk[p], disk'[p])
      BY <2>2, <2>3 DEF SameCells, TypeOK, StorageOK
    <2>5. /\ role' = [role EXCEPT ![n] = "FAILED"]
          /\ currentTerm' = [currentTerm EXCEPT ![n] = m.term]
          /\ UNCHANGED <<log, logLen, fd, elected, electionterm>>
      BY <1>2 DEF AppendTermFault, cstate, history
    <2>6. QuietLog
      BY <2>1, <2>4, <2>5 DEF QuietLog, TypeOK, ServerOK
    <2>7. \A p \in Node : role'[p] # "FAILED"
            => p # n /\ role'[p] = role[p] /\ currentTerm'[p] = currentTerm[p]
      BY <2>5 DEF TypeOK, ServerOK
    <2> QED BY <2>5, <2>6, <2>7, LogQuiet
  <1>3. CASE AppendMismatch(n, m)
    <2>1. \A k \in net' : k \in net \/ k.type = "AppendEntriesResponse"
      BY <1>3, ReplyOnly DEF AppendMismatch
    <2>2. SameCells(disk[n], FollowFile(n, m))
      BY <1>0, StateKeepsCells DEF FollowFile, SameCells
    <2>3. \A p \in Node : SameCells(disk[p], disk'[p])
      BY <1>3, <2>2 DEF AppendMismatch, SameCells, TypeOK, StorageOK
    <2>4. Follow(n, m, FALSE) /\ UNCHANGED <<log, logLen, fd, elected>>
      BY <1>3 DEF AppendMismatch, history
    <2>5. QuietLog
      BY <2>1, <2>3, <2>4, FollowRoles DEF QuietLog
    <2> QED BY <2>4, <2>5, FollowRoles, LogQuiet
  <1> QED BY <1>1, <1>2, <1>3

\* The loop that stores the entries keeps LogInv.
LEMMA LogAppendStored ==
    ASSUME TypeOK, LogInv, NEW n \in Node, NEW m \in AppendEntries, m \in net,
           m.type = "AppendEntries", AppendStored(n, m)
    PROVE  LogInv'
  <1>1. PICK last \in 0 .. Len(m.entries) : \E first \in 1 .. last + 1 :
          Scan(n, m, first, last) /\ StoreEntries(n, m, first, last)
    BY DEF AppendStored
  <1>2. PICK first \in 1 .. last + 1 :
          Scan(n, m, first, last) /\ StoreEntries(n, m, first, last)
    BY <1>1
  <1>3. Follow(n, m, FALSE) /\ PrevMatches(n, m) /\ UNCHANGED <<fd, elected>>
    BY DEF AppendStored, history
  <1>4. \A k \in net' : k \in net \/ k.type = "AppendEntriesResponse"
    BY <1>2, ReplyOnly DEF StoreEntries
  <1> DEFINE prev == m.prevLogIndex
             new == SubSeq(m.entries, first, last)
             cells == Extended(log[n], prev + first - 1, new)
  <1>5. /\ Len(m.entries) \in Nat /\ prev \in Nat /\ first \in Nat /\ last \in Nat
        /\ logLen[n] \in Nat /\ disk[n] \in Store
    BY DEF AppendEntries, Index, TypeOK, LogOK, StorageOK
  <1>6. CASE first <= last
    <2> DEFINE e == ReplayEntries(CutFile(n, m, first), new)
               at == prev + first - 1
    <2>1. /\ log' = [log EXCEPT ![n] = cells]
          /\ logLen' = [logLen EXCEPT ![n] = prev + last]
          /\ disk' = [disk EXCEPT ![n] = e]
      BY <1>2, <1>6 DEF StoreEntries
    <2>2. /\ last \in 1 .. Len(m.entries) /\ first \in 1 .. last
          /\ last \in first - 1 .. last /\ last >= first /\ prev + last \in Nat
      BY <1>5, <1>6
    <2>3. /\ \A i \in 1 .. at : cells[i] = log[n][i]
          /\ \A i \in at + 1 .. prev + last : cells[i] = m.entries[i - prev]
          /\ Join([from |-> 0, to |-> prev + last, base |-> 0, cells |-> cells],
                  MemoryRun(n), MessageRun(m), at)
      BY <1>2, <1>3, <2>2, LoopMemory
    <2>4. /\ Derived([from |-> 0, to |-> e.len, base |-> 0, cells |-> e.log], Runs)
          /\ e.len \in Nat
          /\ e.ok => \A i \in 1 .. e.len :
                       /\ i <= at => e.log[i] = log[n][i]
                       /\ i > at => e.log[i] = m.entries[i - prev]
          /\ fd[n] /\ role[n] # "FAILED" => e.ok /\ e.len = prev + last
      BY <1>2, <1>3, <2>2, LoopFile
    <2> HIDE DEF cells, e
    <2>5. Derived([from |-> 0, to |-> prev + last, base |-> 0, cells |-> cells], Runs)
      <3>1. at \in Nat
        BY <1>5
      <3> QED BY <2>3, <3>1, RunsAreRuns DEF Derived
    <2>6. ASSUME e.ok, NEW i \in 1 .. prev + last, i <= e.len
          PROVE  e.log[i] = cells[i]
      <3>1. i \in 1 .. e.len /\ (i <= at \/ i > at)
        BY <1>5, <2>2, <2>4, <2>6
      <3>2. i <= at => i \in 1 .. at
        BY <1>5
      <3>3. i > at => i \in at + 1 .. prev + last
        BY <1>5
      <3> QED BY <2>3, <2>4, <2>6, <3>1, <3>2, <3>3
    <2> QED BY <1>3, <1>4, <2>1, <2>2, <2>4, <2>5, <2>6, LogFollow
  <1>7. CASE ~(first <= last)
    <2>1. cells = log[n]
      <3>1. m.entries \in Seq(Entry) /\ log[n] \in Cells
        BY DEF AppendEntries, TypeOK, LogOK
      <3>2. Len(new) = 0 /\ prev + first - 1 \in Nat
        BY <1>5, <1>7, <3>1
      <3> HIDE DEF new
      <3> QED BY <3>1, <3>2, ExtendedNothing
    <2>2. /\ log' = [log EXCEPT ![n] = cells] /\ logLen' = [logLen EXCEPT ![n] = logLen[n]]
          /\ disk' = [disk EXCEPT ![n] = FollowFile(n, m)]
      BY <1>2, <1>7 DEF StoreEntries
    <2> HIDE DEF cells
    <2>3. UNCHANGED <<log, logLen>>
      BY <2>1, <2>2 DEF TypeOK, LogOK
    <2>4. SameCells(disk[n], FollowFile(n, m))
      <3>1. SameCells(disk[n], ReplayState(disk[n], m.term, Nil))
        BY <1>5, StateKeepsCells
      <3>2. SameCells(disk[n], disk[n])
        BY DEF SameCells
      <3> QED BY <3>1, <3>2 DEF FollowFile
    <2>5. \A p \in Node : SameCells(disk[p], disk'[p])
      BY <2>2, <2>4 DEF SameCells, TypeOK, StorageOK
    <2>6. QuietLog
      BY <1>3, <1>4, <2>3, <2>5, FollowRoles DEF QuietLog
    <2> QED BY <1>3, <2>6, FollowRoles, LogQuiet
  <1> QED BY <1>6, <1>7

\* A failure to write TRUNCATE keeps LogInv: the file may be cut, memory is not.
LEMMA LogAppendTruncateFault ==
    ASSUME TypeOK, LogInv, NEW n \in Node, NEW m \in AppendEntries, m \in net,
           AppendTruncateFault(n, m)
    PROVE  LogInv'
  <1>1. PICK last \in 1 .. Len(m.entries) : \E first \in 1 .. last, io \in Outcome(n) :
          /\ Scan(n, m, first, last)
          /\ disk' = [disk EXCEPT ![n] =
                         Persisted(io, FollowFile(n, m), CutFile(n, m, first))]
    BY DEF AppendTruncateFault
  <1>2. PICK first \in 1 .. last, io \in Outcome(n) :
          /\ Scan(n, m, first, last)
          /\ disk' = [disk EXCEPT ![n] =
                         Persisted(io, FollowFile(n, m), CutFile(n, m, first))]
    BY <1>1
  <1> DEFINE d == disk[n]
             e == Persisted(io, FollowFile(n, m), CutFile(n, m, first))
  <1>3. /\ Len(m.entries) \in Nat /\ m.prevLogIndex \in Index
        /\ m.prevLogIndex + last <= LogCap
    BY <1>2, ScanBounds DEF Index
  <1>4. first \in Nat \ {0} /\ m.prevLogIndex + first <= LogCap
    BY <1>3 DEF Index
  <1>5. /\ d \in Store /\ d.len \in Nat /\ logLen[n] \in Nat
        /\ d.ok => \A i \in 1 .. logLen[n] : i <= d.len => d.log[i] = log[n][i]
    BY DEF TypeOK, StorageOK, LogOK, Store, Index, LogInv, FileFollowsMemory, Lesser
  <1>6. e.ok = d.ok /\ e.log = d.log /\ e.len <= d.len /\ e.len \in Nat
    <2>1. /\ CutFile(n, m, first) \in Store /\ CutFile(n, m, first).ok = d.ok
          /\ CutFile(n, m, first).log = d.log /\ CutFile(n, m, first).len <= d.len
          /\ SameCells(d, FollowFile(n, m))
      BY <1>4, LoopCut
    <2>2. CutFile(n, m, first).len \in Nat
      BY <2>1 DEF Store, Index
    <2> QED BY <1>5, <2>1, <2>2 DEF Persisted, SameCells
  <1>7. \A k \in net' : k \in net \/ k.type = "AppendEntriesResponse"
    BY ReplyOnly DEF AppendTruncateFault
  <1>8. Follow(n, m, TRUE) /\ UNCHANGED <<log, logLen, fd, elected>>
    BY DEF AppendTruncateFault, history
  <1>9. /\ log' = [log EXCEPT ![n] = log[n]] /\ logLen' = [logLen EXCEPT ![n] = logLen[n]]
        /\ disk' = [disk EXCEPT ![n] = e]
    BY <1>2, <1>8 DEF TypeOK, LogOK
  <1> HIDE DEF e
  <1>10. Derived([from |-> 0, to |-> logLen[n], base |-> 0, cells |-> log[n]], Runs)
    BY RunsAreRuns, DerivedSelf DEF MemoryRun
  <1>11. Derived([from |-> 0, to |-> e.len, base |-> 0, cells |-> e.log], Runs)
    <2>1. IsRun(DiskRun(n)) /\ DiskRun(n) \in Runs
      BY RunsAreRuns
    <2>2. Piece([from |-> 0, to |-> e.len, base |-> 0, cells |-> e.log], DiskRun(n))
      BY <1>5, <1>6, <2>1 DEF Piece, IsRun, Holds, TermAt, DiskRun
    <2> QED BY <2>1, <2>2 DEF Derived
  <1>12. e.ok => \A i \in 1 .. logLen[n] : i <= e.len => e.log[i] = log[n][i]
    BY <1>5, <1>6
  <1> QED BY <1>5, <1>6, <1>7, <1>8, <1>9, <1>10, <1>11, <1>12, LogFollow

\* A failure to write ENTRY keeps LogInv: the file is at most one entry ahead.
LEMMA LogAppendEntryFault ==
    ASSUME TypeOK, LogInv, NEW n \in Node, NEW m \in AppendEntries, m \in net,
           m.type = "AppendEntries", AppendEntryFault(n, m)
    PROVE  LogInv'
  <1>1. PICK last \in 1 .. Len(m.entries) : \E first \in 1 .. last : \E at \in first .. last :
         /\ Scan(n, m, first, last)
         /\ \E io \in Outcome(n) \ {"ok"} : StoreUntil(n, m, first, at, io)
    BY DEF AppendEntryFault
  <1>2. PICK first \in 1 .. last : \E at \in first .. last :
         /\ Scan(n, m, first, last)
         /\ \E io \in Outcome(n) \ {"ok"} : StoreUntil(n, m, first, at, io)
    BY <1>1
  <1>3. PICK at \in first .. last, io \in Outcome(n) :
          Scan(n, m, first, last) /\ StoreUntil(n, m, first, at, io)
    BY <1>2
  <1> DEFINE prev == m.prevLogIndex
             cells == Extended(log[n], prev + first - 1, SubSeq(m.entries, first, at - 1))
             e1 == ReplayEntries(CutFile(n, m, first), SubSeq(m.entries, first, at - 1))
             e2 == ReplayEntries(CutFile(n, m, first), SubSeq(m.entries, first, at))
             e == Persisted(io, e1, e2)
             len == prev + at - 1
             start == prev + first - 1
  <1>4. /\ log' = [log EXCEPT ![n] = cells] /\ logLen' = [logLen EXCEPT ![n] = len]
        /\ disk' = [disk EXCEPT ![n] = e]
    BY <1>3 DEF StoreUntil
  <1>5. Follow(n, m, TRUE) /\ PrevMatches(n, m) /\ UNCHANGED <<fd, elected>>
    BY DEF AppendEntryFault, history
  <1>6. \A k \in net' : k \in net \/ k.type = "AppendEntriesResponse"
    BY ReplyOnly DEF AppendEntryFault
  <1>7. /\ Len(m.entries) \in Nat /\ prev \in Nat
        /\ first \in Nat \ {0} /\ at \in Nat \ {0} /\ first <= at
        /\ at - 1 \in first - 1 .. last /\ at \in first - 1 .. last /\ len \in Nat
        /\ len = prev + (at - 1) /\ start \in Nat
    BY DEF AppendEntries, Index
  <1>8. /\ \A i \in 1 .. start : cells[i] = log[n][i]
        /\ \A i \in start + 1 .. len : cells[i] = m.entries[i - prev]
        /\ Join([from |-> 0, to |-> len, base |-> 0, cells |-> cells],
                MemoryRun(n), MessageRun(m), start)
    BY <1>3, <1>5, <1>7, LoopMemory
  <1>9. /\ Derived([from |-> 0, to |-> e1.len, base |-> 0, cells |-> e1.log], Runs)
        /\ e1.len \in Nat
        /\ e1.ok => \A i \in 1 .. e1.len :
                      /\ i <= start => e1.log[i] = log[n][i]
                      /\ i > start /\ at - 1 >= first => e1.log[i] = m.entries[i - prev]
    BY <1>3, <1>5, <1>7, LoopFile
  <1>10. /\ Derived([from |-> 0, to |-> e2.len, base |-> 0, cells |-> e2.log], Runs)
         /\ e2.len \in Nat
         /\ e2.ok => \A i \in 1 .. e2.len :
                       /\ i <= start => e2.log[i] = log[n][i]
                       /\ i > start => e2.log[i] = m.entries[i - prev]
    <2>1. at >= first
      BY <1>7
    <2> QED BY <1>3, <1>5, <1>7, <2>1, LoopFile
  <1>11. e = e1 \/ e = e2
    BY DEF Persisted
  <1> HIDE DEF cells, e1, e2, e
  <1>12. /\ Derived([from |-> 0, to |-> e.len, base |-> 0, cells |-> e.log], Runs)
         /\ e.len \in Nat
    BY <1>9, <1>10, <1>11
  <1>13. ASSUME e.ok, NEW i \in 1 .. len, i <= e.len
         PROVE  e.log[i] = cells[i]
    <2>1. i \in 1 .. e.len /\ (i <= start \/ i > start)
      BY <1>7, <1>12, <1>13
    <2>2. i <= start => i \in 1 .. start
      BY <1>7
    <2>3. i > start => i \in start + 1 .. len /\ at - 1 >= first
      BY <1>7
    <2> QED BY <1>8, <1>9, <1>10, <1>11, <1>13, <2>1, <2>2, <2>3
  <1>14. Derived([from |-> 0, to |-> len, base |-> 0, cells |-> cells], Runs)
    BY <1>7, <1>8, RunsAreRuns DEF Derived
  <1> QED BY <1>4, <1>5, <1>6, <1>7, <1>12, <1>13, <1>14, LogFollow

\* HandleAppendEntriesRequest keeps LogInv, whichever way it returns.
LEMMA LogAppendRequest ==
    ASSUME TypeOK, LogInv, NEW n \in Node, HandleAppendEntriesRequest(n)
    PROVE  LogInv'
  <1>1. PICK m \in Inbox(n, "AppendEntries") :
          \/ AppendStale(n, m) \/ AppendTermFault(n, m) \/ AppendMismatch(n, m)
          \/ AppendStored(n, m) \/ AppendTruncateFault(n, m) \/ AppendEntryFault(n, m)
    BY DEF HandleAppendEntriesRequest
  <1>2. m \in AppendEntries /\ m \in net /\ m.type = "AppendEntries"
    BY InboxType DEF TypeOK, Inbox
  <1> QED
    BY <1>1, <1>2, LogAppendRefused, LogAppendStored, LogAppendTruncateFault,
       LogAppendEntryFault

-----------------------------------------------------------------------------
(* Restarts, and the theorems *)

\* A restart keeps LogInv: memory is what the file replays to, or empty.
LEMMA LogRestart ==
    ASSUME TypeOK, LogInv, NEW n \in Node, Restart(n)
    PROVE  LogInv'
  <1>1. PICK got \in {disk[n], EmptyStore} : \E opened \in BOOLEAN :
          Restore(n, got, opened) /\ (opened => got = disk[n])
    BY DEF Restart
  <1>2. PICK opened \in BOOLEAN : Restore(n, got, opened) /\ (opened => got = disk[n])
    BY <1>1
  <1>3. /\ role' = [role EXCEPT ![n] = "FOLLOWER"] /\ ClearCounters(n, TRUE)
        /\ UNCHANGED <<disk, net, elected>>
    BY DEF Restart, history
  <1>4. /\ log'[n] = got.log /\ logLen'[n] = got.len /\ fd'[n] = (opened /\ got.ok)
        /\ role'[n] = "FOLLOWER"
        /\ \A p \in Node \ {n} :
             /\ log'[p] = log[p] /\ logLen'[p] = logLen[p] /\ fd'[p] = fd[p]
             /\ role'[p] = role[p] /\ currentTerm'[p] = currentTerm[p]
             /\ electionterm'[p] = electionterm[p]
    BY <1>2, <1>3 DEF Restore, ClearCounters, TypeOK, ServerOK, LogOK, StorageOK, CandidateOK
  <1>5. disk[n] \in Store /\ disk[n].len \in Nat /\ EmptyStore.len = 0
    BY DEF TypeOK, StorageOK, Store, Index, EmptyStore
  <1>6. RestoreMatchesMemory'
    <2> SUFFICES ASSUME NEW p \in Node, fd'[p], role'[p] # "FAILED"
                 PROVE  /\ disk'[p].ok /\ disk'[p].len = logLen'[p]
                        /\ \A i \in 1 .. logLen'[p] : disk'[p].log[i] = log'[p][i]
      BY DEF RestoreMatchesMemory
    <2>1. CASE p = n
      BY <1>2, <1>3, <1>4, <2>1
    <2>2. CASE p # n
      BY <1>3, <1>4, <2>2 DEF LogInv, RestoreMatchesMemory
    <2> QED BY <2>1, <2>2
  <1>7. FileFollowsMemory'
    <2>1. \A i \in 1 .. Lesser(got.len, disk[n].len) : disk[n].log[i] = got.log[i]
      BY <1>1, <1>5 DEF Lesser
    <2> QED BY <1>3, <1>4, <2>1 DEF LogInv, FileFollowsMemory
  <1>8. CandidateIsFresh'
    BY <1>3, <1>4 DEF LogInv, CandidateIsFresh
  <1>9. \A p \in Node : Derived(MemoryRun(p)', Runs) /\ Derived(DiskRun(p)', Runs)
    <2>1. \A r \in Runs : Derived(r, Runs)
      BY RunsAreRuns, DerivedSelf
    <2>2. \A p \in Node : DiskRun(p)' = DiskRun(p)
      BY <1>3 DEF DiskRun
    <2>3. \A p \in Node \ {n} : MemoryRun(p)' = MemoryRun(p)
      BY <1>4 DEF MemoryRun
    <2>4. Derived(MemoryRun(n)', Runs)
      <3>1. CASE got = disk[n]
        <4>1. MemoryRun(n)' = DiskRun(n)
          BY <1>4, <3>1 DEF MemoryRun, DiskRun
        <4> QED BY <2>1, <4>1, RunsAreRuns
      <3>2. CASE got = EmptyStore
        <4>1. Piece(MemoryRun(n)', DiskRun(n))
          BY <1>4, <1>5, <3>2 DEF MemoryRun, DiskRun, Piece, IsRun, Holds
        <4> QED BY <4>1, RunsAreRuns DEF Derived
      <3> QED BY <1>1, <3>1, <3>2
    <2> QED BY <2>1, <2>2, <2>3, <2>4, RunsAreRuns
  <1>10. \A m \in net' : m.type = "AppendEntries" => Derived(MessageRun(m), Runs)
    BY <1>3, RunsAreRuns, DerivedSelf
  <1>11. \A r \in Runs' : Derived(r, Runs)
    BY <1>9, <1>10, RunsDerived
  <1>12. RunsAgree' /\ RunsAreElected' /\ LeaderHoldsTerm'
    BY <1>3, <1>4, <1>11, RunsStep
  <1> QED BY <1>6, <1>7, <1>8, <1>12 DEF LogInv

\* At the start nothing is stored, sent or won.
LEMMA LogInit == Init => LogInv
  <1> SUFFICES ASSUME Init PROVE LogInv
    OBVIOUS
  <1>1. \A n \in Node : /\ role[n] = "FOLLOWER" /\ logLen[n] = 0 /\ disk[n] = EmptyStore
    BY DEF Init
  <1>2. EmptyStore.ok /\ EmptyStore.len = 0
    BY DEF EmptyStore
  <1>3. \A r \in Runs : r.from = 0 /\ r.to = 0
    BY <1>1, <1>2 DEF Init, Runs, MemoryRun, DiskRun
  <1>4. RunsAgree
    BY <1>3 DEF RunsAgree, Agree, Lesser
  <1>5. RunsAreElected /\ LeaderHoldsTerm
    BY <1>3 DEF RunsAreElected, LeaderHoldsTerm
  <1>6. CandidateIsFresh
    BY <1>1 DEF CandidateIsFresh
  <1>7. RestoreMatchesMemory /\ FileFollowsMemory
    BY <1>1, <1>2 DEF RestoreMatchesMemory, FileFollowsMemory, Lesser
  <1> QED BY <1>4, <1>5, <1>6, <1>7 DEF LogInv

\* Every step keeps LogInv.
LEMMA LogNext ==
    TypeOK /\ ElectionInv /\ ElectionSafety /\ ElectionSafety' /\ LogInv /\ [Next]_vars
        => LogInv'
  <1> SUFFICES ASSUME TypeOK, ElectionInv, ElectionSafety, ElectionSafety', LogInv, [Next]_vars
               PROVE  LogInv'
    OBVIOUS
  <1>1. CASE UNCHANGED vars
    BY <1>1, LogIgnored DEF vars, history
  <1>2. ASSUME NEW m \in net, Lose(m) PROVE LogInv'
    BY <1>2, LogIgnored DEF Lose, history
  <1> QED
    BY <1>1, <1>2, LogTimeout, LogRequestVote, LogVoteResponse, LogSend, LogAppendRequest,
       LogAppendResponse, LogSendCommand, LogRestart
    DEF Next

\* The invariant behind the logs: every stretch of a log, in memory, in a file or in
\* a request under way, however old, agrees with every other where their terms meet,
\* in every reachable state of a group of any size.
THEOREM LogInvariant == Spec => []LogInv
  <1>1. Init => LogInv
    BY LogInit
  <1> QED BY <1>1, LogNext, TypeCorrect, ElectionInvariant, ElectionsSafe, PTL DEF Spec

\* Two logs that hold an entry of the same index and term agree up to it, through
\* every loss, repetition, failed write and restart, in a group of any size.
THEOREM LogsMatch == Spec => []LogMatching
  <1>1. TypeOK /\ LogInv => LogMatching
    <2> SUFFICES ASSUME TypeOK, LogInv, NEW n \in Node, NEW p \in Node,
                        NEW k \in 1 .. Lesser(logLen[n], logLen[p]),
                        log[n][k].term = log[p][k].term, NEW i \in 1 .. k
                 PROVE  log[n][i] = log[p][i]
      BY DEF LogMatching
    <2>1. Agree(MemoryRun(n), MemoryRun(p))
      BY RunsAreRuns DEF LogInv, RunsAgree
    <2>2. logLen[n] \in Nat /\ logLen[p] \in Nat
      BY DEF TypeOK, LogOK, Index
    <2>3. /\ MemoryRun(n).from = 0 /\ MemoryRun(n).to = logLen[n]
          /\ MemoryRun(n).cells = log[n]
          /\ MemoryRun(p).from = 0 /\ MemoryRun(p).to = logLen[p]
          /\ MemoryRun(p).cells = log[p]
      BY DEF MemoryRun
    <2>4. k \in Nat /\ Holds(MemoryRun(n), k) /\ Holds(MemoryRun(p), k) /\ i \in 0 .. k /\ i > 0
      BY <2>2, <2>3 DEF Holds, Lesser
    <2> QED BY <2>1, <2>3, <2>4 DEF Agree
  <1> QED BY <1>1, LogInvariant, TypeCorrect, PTL

\* As long as a node can write and has not declared itself FAILED, its file replays
\* to exactly the log it has in memory, in a group of any size.
THEOREM RestoresMemory == Spec => []RestoreMatchesMemory
  <1>1. LogInv => RestoreMatchesMemory
    BY DEF LogInv
  <1> QED BY <1>1, LogInvariant, PTL
==============================================================================
