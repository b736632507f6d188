-------------------------- MODULE RaftCommitProofs --------------------------
(***************************************************************************)
(* Proofs that CommitInv, and then AppliedInv, are inductive when no write *)
(* fails, and of what follows from them.                                   *)
(***************************************************************************)
EXTENDS RaftCommit, RaftLogProofs

USE LogCapAssumption, NodeAssumption, BoundAssumption

-----------------------------------------------------------------------------
(* The order of checkLog *)

\* Being as up to date as is transitive.
LEMMA UpToDateTransitive ==
    ASSUME NEW i \in Nat, NEW t \in Nat, NEW j \in Nat, NEW u \in Nat,
           NEW k \in Nat, NEW v \in Nat,
           checkLog(i, t, j, u), checkLog(j, u, k, v)
    PROVE  checkLog(i, t, k, v)
  BY DEF checkLog

-----------------------------------------------------------------------------
(* Runs *)

\* A run whose terms are numbers, as all runs of the model are.
HasTerms(r) == IsRun(r) /\ r.from <= r.to /\ \A i \in r.from .. r.to : TermAt(r, i) \in Nat

\* A part has the terms of the whole.
LEMMA PartTerms ==
    ASSUME NEW p, NEW r, IsRun(p), p.from <= p.to, HasTerms(r), PartOf(p, r)
    PROVE  /\ HasTerms(p)
           /\ \A i \in p.from .. p.to : i \in r.from .. r.to /\ TermAt(p, i) = TermAt(r, i)
  <1>1. \A i \in p.from .. p.to : i \in r.from .. r.to
    BY DEF PartOf, HasTerms, IsRun
  <1>2. ASSUME NEW i \in p.from .. p.to PROVE TermAt(p, i) = TermAt(r, i)
    <2>1. CASE i = p.from
      BY <2>1 DEF PartOf, TermAt
    <2>2. CASE i # p.from
      <3>1. i \in p.from + 1 .. p.to /\ i # r.from
        BY <2>2 DEF PartOf, HasTerms, IsRun
      <3> QED BY <2>2, <3>1 DEF PartOf, TermAt
    <2> QED BY <2>1, <2>2
  <1> QED BY <1>1, <1>2 DEF HasTerms

\* The terms of a part rise.
LEMMA PartRises ==
    ASSUME NEW p, NEW r, IsRun(p), p.from <= p.to, HasTerms(r), PartOf(p, r), Rises(r)
    PROVE  Rises(p)
  BY PartTerms DEF Rises

\* Cutting a run keeps what Covers says of it.
LEMMA PartCovers ==
    ASSUME NEW p, NEW r, IsRun(p), p.from <= p.to, HasTerms(r), PartOf(p, r), Rises(r),
           NEW e, e.index \in Nat, e.term \in Nat, Covers(r, e)
    PROVE  Covers(p, e)
  <1> SUFFICES ASSUME NEW i \in p.from .. p.to,
                      checkLog(i, TermAt(p, i), e.index, e.term)
               PROVE  /\ e.index <= i
                      /\ IF e.index > p.from THEN p.cells[e.index] = e ELSE p.base >= e.term
    BY DEF Covers
  <1>1. i \in r.from .. r.to /\ TermAt(p, i) = TermAt(r, i)
    BY PartTerms
  <1>2. /\ e.index <= i
        /\ IF e.index > r.from THEN r.cells[e.index] = e ELSE r.base >= e.term
    BY <1>1 DEF Covers
  <1>3. /\ p.from \in Nat /\ p.to \in Nat /\ r.from \in Nat /\ r.to \in Nat
        /\ r.from <= p.from /\ p.to <= r.to /\ i \in Nat /\ i <= p.to
    BY DEF IsRun, HasTerms, PartOf
  <1>4. CASE e.index > p.from
    <2>1. e.index > r.from /\ e.index \in p.from + 1 .. p.to
      BY <1>2, <1>3, <1>4
    <2> QED BY <1>2, <1>4, <2>1 DEF PartOf
  <1>5. CASE ~(e.index > p.from)
    <2>1. p.from \in r.from .. r.to /\ r.from \in r.from .. r.to /\ p.base = TermAt(r, p.from)
      BY <1>3 DEF PartOf
    <2>2. CASE e.index > r.from
      <3>1. e.index \in r.from .. r.to /\ e.index <= p.from /\ e.index # r.from
        BY <1>2, <1>3, <1>5, <2>2
      <3>2. TermAt(r, e.index) = e.term
        BY <1>2, <2>2, <3>1 DEF TermAt
      <3>3. TermAt(r, e.index) <= TermAt(r, p.from)
        BY <2>1, <3>1 DEF Rises
      <3> QED BY <1>2, <1>5, <2>1, <3>2, <3>3
    <2>3. CASE ~(e.index > r.from)
      <3>1. TermAt(r, r.from) <= TermAt(r, p.from) /\ r.base = TermAt(r, r.from)
        BY <1>3, <2>1 DEF Rises, TermAt
      <3>2. TermAt(r, r.from) \in Nat /\ TermAt(r, p.from) \in Nat
        BY <2>1 DEF HasTerms
      <3> QED BY <1>2, <1>5, <2>1, <2>3, <3>1, <3>2
    <2> QED BY <2>2, <2>3
  <1> QED BY <1>4, <1>5

\* A join has the terms of the two it is made of.
LEMMA JoinTerms ==
    ASSUME NEW j, NEW b, NEW m, NEW at, Join(j, b, m, at), HasTerms(b), HasTerms(m),
           at <= j.to
    PROVE  /\ HasTerms(j)
           /\ \A i \in j.from .. j.to :
                \/ i <= at /\ i \in b.from .. b.to /\ TermAt(j, i) = TermAt(b, i)
                \/ i > at /\ i \in m.from .. m.to /\ TermAt(j, i) = TermAt(m, i)
  <1>1. /\ j.from \in Nat /\ j.to \in Nat /\ b.from \in Nat /\ b.to \in Nat
        /\ m.from \in Nat /\ m.to \in Nat /\ at \in Nat
        /\ j.from = b.from /\ j.base = b.base
        /\ b.from <= at /\ at <= b.to /\ m.from <= at /\ j.to <= m.to
    BY DEF Join, IsRun
  <1>2. ASSUME NEW i \in j.from .. j.to
        PROVE  \/ i <= at /\ i \in b.from .. b.to /\ TermAt(j, i) = TermAt(b, i)
               \/ i > at /\ i \in m.from .. m.to /\ TermAt(j, i) = TermAt(m, i)
    <2>1. i \in Nat /\ i >= j.from /\ i <= j.to
      BY <1>1
    <2>2. CASE i = j.from
      BY <1>1, <2>1, <2>2 DEF TermAt
    <2>3. CASE i # j.from /\ i <= at
      <3>1. Holds(j, i) /\ i # b.from
        BY <1>1, <2>1, <2>3 DEF Holds
      <3> QED BY <1>1, <2>1, <2>3, <3>1 DEF TermAt, Join
    <2>4. CASE i # j.from /\ i > at
      <3>1. Holds(j, i) /\ i # m.from
        BY <1>1, <2>1, <2>4 DEF Holds
      <3> QED BY <1>1, <2>1, <2>4, <3>1 DEF TermAt, Join
    <2> QED BY <1>1, <2>1, <2>2, <2>3, <2>4
  <1>3. IsRun(j) /\ j.from <= j.to
    BY <1>1 DEF IsRun
  <1> QED BY <1>2, <1>3 DEF HasTerms

\* The terms of a join rise: the two meet in the same term.
LEMMA JoinRises ==
    ASSUME NEW j, NEW b, NEW m, NEW at, Join(j, b, m, at), HasTerms(b), HasTerms(m),
           at <= j.to, Rises(b), Rises(m)
    PROVE  Rises(j)
  <1> SUFFICES ASSUME NEW i \in j.from .. j.to, NEW k \in j.from .. j.to, i <= k
               PROVE  TermAt(j, i) <= TermAt(j, k)
    BY DEF Rises
  <1>1. /\ at \in b.from .. b.to /\ at \in m.from .. m.to /\ TermAt(b, at) = TermAt(m, at)
        /\ i \in Nat /\ k \in Nat /\ at \in Nat
    BY DEF Join, IsRun
  <1>2. CASE k <= at
    <2>1. TermAt(b, i) <= TermAt(b, k) /\ TermAt(j, i) = TermAt(b, i) /\ TermAt(j, k) = TermAt(b, k)
      BY <1>1, <1>2, JoinTerms DEF Rises
    <2> QED BY <2>1
  <1>3. CASE i > at
    <2>1. TermAt(m, i) <= TermAt(m, k) /\ TermAt(j, i) = TermAt(m, i) /\ TermAt(j, k) = TermAt(m, k)
      BY <1>1, <1>3, JoinTerms DEF Rises
    <2> QED BY <2>1
  <1>4. CASE i <= at /\ k > at
    <2>1. /\ i \in b.from .. b.to /\ TermAt(j, i) = TermAt(b, i)
          /\ k \in m.from .. m.to /\ TermAt(j, k) = TermAt(m, k)
      BY <1>1, <1>4, JoinTerms
    <2>2. TermAt(b, i) <= TermAt(b, at) /\ TermAt(m, at) <= TermAt(m, k)
      BY <1>1, <1>4, <2>1 DEF Rises
    <2>3. /\ TermAt(b, i) \in Nat /\ TermAt(b, at) \in Nat /\ TermAt(m, k) \in Nat
      BY <1>1, <2>1 DEF HasTerms
    <2> QED BY <1>1, <2>1, <2>2, <2>3
  <1> QED BY <1>1, <1>2, <1>3, <1>4

\* Splicing a request into a log keeps what Covers says of it: where the two meet they
\* agree, so an entry the request covers is in the log below.
LEMMA JoinCovers ==
    ASSUME NEW j, NEW b, NEW m, NEW at, Join(j, b, m, at), HasTerms(b), HasTerms(m),
           at <= j.to, Agree(b, m), b.from = 0,
           NEW e, e.index \in Nat \ {0}, e.term \in Nat, Covers(b, e), Covers(m, e)
    PROVE  Covers(j, e)
  <1> DEFINE k == e.index
  <1> SUFFICES ASSUME NEW i \in j.from .. j.to, checkLog(i, TermAt(j, i), k, e.term)
               PROVE  k <= i /\ j.cells[k] = e
    BY DEF Covers, Join
  <1>1. /\ j.from \in Nat /\ j.to \in Nat /\ b.from \in Nat /\ b.to \in Nat
        /\ m.from \in Nat /\ m.to \in Nat /\ at \in Nat /\ j.from = 0
        /\ at <= b.to /\ m.from <= at /\ j.to <= m.to /\ TermAt(b, at) = TermAt(m, at)
        /\ k \in Nat /\ k > 0 /\ i \in Nat /\ i <= j.to
    BY DEF Join, IsRun
  <1>2. ASSUME k <= at, k <= j.to, NEW g \in k .. at, checkLog(g, TermAt(b, g), k, e.term)
        PROVE  j.cells[k] = e
    <2>1. g \in b.from .. b.to
      BY <1>1
    <2>2. b.cells[k] = e
      BY <1>1, <1>2, <2>1 DEF Covers
    <2>3. Holds(j, k)
      BY <1>1, <1>2 DEF Holds
    <2> QED BY <1>1, <1>2, <2>2, <2>3 DEF Join
  <1>3. CASE i <= at
    <2>1. i \in b.from .. b.to /\ TermAt(j, i) = TermAt(b, i)
      BY <1>1, <1>3, JoinTerms
    <2>2. k <= i
      BY <2>1 DEF Covers
    <2> QED BY <1>1, <1>2, <1>3, <2>1, <2>2
  <1>4. CASE i > at
    <2>1. i \in m.from .. m.to /\ TermAt(j, i) = TermAt(m, i)
      BY <1>1, <1>4, JoinTerms
    <2>2. k <= i /\ IF k > m.from THEN m.cells[k] = e ELSE m.base >= e.term
      BY <2>1 DEF Covers
    <2>3. CASE k > at
      <3>1. Holds(j, k) /\ k > m.from
        BY <1>1, <2>2, <2>3 DEF Holds
      <3> QED BY <1>1, <2>2, <2>3, <3>1 DEF Join
    <2>4. CASE k <= at /\ k > m.from
      <3>1. Holds(m, at) /\ Holds(b, at) /\ at # m.from /\ at # b.from /\ Holds(j, k)
        BY <1>1, <1>4, <2>2, <2>4 DEF Holds
      <3>2. b.cells[at].term = m.cells[at].term
        BY <1>1, <3>1 DEF TermAt
      <3>3. IsRun(b) /\ IsRun(m) /\ k \in 0 .. at /\ k > b.from
        BY <1>1, <2>4 DEF IsRun
      <3>4. b.cells[k] = m.cells[k]
        BY <1>1, <2>4, <3>1, <3>2, <3>3, AgreeAt
      <3> QED BY <1>1, <2>2, <2>4, <3>1, <3>4 DEF Join
    <2>5. CASE k <= m.from
      <3>1. TermAt(b, m.from) = m.base
        <4>1. CASE at = m.from
          BY <1>1, <4>1 DEF TermAt
        <4>2. CASE at # m.from
          <5>1. Holds(m, at) /\ Holds(b, at) /\ at # b.from
            BY <1>1, <1>4, <4>2 DEF Holds
          <5>2. b.cells[at].term = m.cells[at].term
            BY <1>1, <4>2, <5>1 DEF TermAt
          <5>3. IsRun(b) /\ IsRun(m) /\ m.from \in 0 .. at /\ m.from >= b.from /\ m.from >= m.from
            BY <1>1 DEF IsRun
          <5>4. TermAt(b, m.from) = TermAt(m, m.from)
            BY <1>1, <5>1, <5>2, <5>3, AgreeAt
          <5> QED BY <5>4 DEF TermAt
        <4> QED BY <4>1, <4>2
      <3>2. m.from \in k .. at /\ m.from \in b.from .. b.to
        BY <1>1, <2>5
      <3>3. TermAt(b, m.from) \in Nat /\ m.base >= e.term
        BY <1>1, <2>2, <2>5, <3>2 DEF HasTerms
      <3>4. checkLog(m.from, TermAt(b, m.from), k, e.term)
        BY <1>1, <2>5, <3>1, <3>3 DEF checkLog
      <3> QED BY <1>1, <1>2, <2>2, <2>5, <3>2, <3>4
    <2> QED BY <1>1, <2>3, <2>4, <2>5
  <1> QED BY <1>1, <1>3, <1>4

-----------------------------------------------------------------------------
(* The runs of a state *)

\* A log is a run.
LEMMA MemoryRunType ==
    ASSUME NEW cells \in Cells, NEW len \in Index
    PROVE  LET r == [from |-> 0, to |-> len, base |-> 0, cells |-> cells]
           IN HasTerms(r) /\ \A i \in 1 .. len : TermAt(r, i) = cells[i].term
  <1> DEFINE r == [from |-> 0, to |-> len, base |-> 0, cells |-> cells]
  <1>1. r.from = 0 /\ r.to = len /\ r.base = 0 /\ r.cells = cells
    OBVIOUS
  <1>2. len \in Nat /\ \A i \in 1 .. len : i # 0 /\ cells[i].term \in Nat
    BY DEF Cells, Index, Entry, Term
  <1> HIDE DEF r
  <1>3. \A i \in 0 .. len : i = 0 \/ i \in 1 .. len
    BY <1>2
  <1>4. \A i \in 0 .. len : TermAt(r, i) \in Nat
    BY <1>1, <1>2, <1>3 DEF TermAt
  <1>5. \A i \in 1 .. len : TermAt(r, i) = cells[i].term
    BY <1>1, <1>2 DEF TermAt
  <1> QED BY <1>1, <1>2, <1>4, <1>5 DEF HasTerms, IsRun, r

\* A request is a run.
LEMMA MessageRunType ==
    ASSUME NEW m \in AppendEntries
    PROVE  /\ HasTerms(MessageRun(m))
           /\ MessageRun(m).from = m.prevLogIndex
           /\ MessageRun(m).to = m.prevLogIndex + Len(m.entries)
           /\ \A i \in 1 .. Len(m.entries) :
                /\ MessageRun(m).cells[m.prevLogIndex + i] = m.entries[i]
                /\ TermAt(MessageRun(m), m.prevLogIndex + i) = m.entries[i].term
  <1> DEFINE r == MessageRun(m)
             prev == m.prevLogIndex
             len == Len(m.entries)
  <1>1. /\ prev \in Nat /\ m.prevLogTerm \in Nat /\ len \in Nat
        /\ m.entries \in Seq(Entry)
    BY DEF AppendEntries, Index, Term
  <1>2. \A i \in 1 .. len : m.entries[i] \in Entry
    BY <1>1
  <1>3. \A i \in 1 .. len : m.entries[i].term \in Nat
    BY <1>2 DEF Entry, Term
  <1>4. /\ r.from = prev /\ r.to = prev + len /\ r.base \in Nat
        /\ \A k \in prev + 1 .. prev + len : r.cells[k] = m.entries[k - prev]
    BY <1>1 DEF MessageRun
  <1> HIDE DEF r
  <1>5. \A i \in 1 .. len : /\ prev + i \in prev + 1 .. prev + len /\ (prev + i) - prev = i
                            /\ prev + i # prev
    BY <1>1
  <1>6. \A i \in 1 .. len : r.cells[prev + i] = m.entries[i] /\ TermAt(r, prev + i) = m.entries[i].term
    BY <1>4, <1>5 DEF TermAt
  <1>7. \A k \in prev .. prev + len : k = prev \/ (k - prev \in 1 .. len /\ k = prev + (k - prev))
    BY <1>1
  <1>8. \A k \in prev .. prev + len : TermAt(r, k) \in Nat
    <2> TAKE k \in prev .. prev + len
    <2>1. CASE k = prev
      BY <1>4, <2>1 DEF TermAt
    <2>2. CASE k # prev
      BY <1>3, <1>6, <1>7, <2>2
    <2> QED BY <2>1, <2>2
  <1>9. HasTerms(r)
    BY <1>1, <1>4, <1>8 DEF HasTerms, IsRun
  <1> QED BY <1>4, <1>6, <1>9 DEF r

\* The runs of LogRuns are such runs, and among those LogInv speaks of.
LEMMA LogRunTypes ==
    ASSUME TypeOK
    PROVE  /\ \A n \in Node : /\ MemoryRun(n) \in LogRuns /\ HasTerms(MemoryRun(n))
                              /\ MemoryRun(n).from = 0 /\ MemoryRun(n).to = logLen[n]
                              /\ MemoryRun(n).base = 0 /\ MemoryRun(n).cells = log[n]
                              /\ logLen[n] \in Nat /\ currentTerm[n] \in Nat
           /\ \A m \in Requests : /\ m \in AppendEntries /\ MessageRun(m) \in LogRuns
                                  /\ HasTerms(MessageRun(m)) /\ m.term \in Nat
           /\ \A r \in LogRuns : HasTerms(r) /\ r \in Runs
  <1>1. \A n \in Node : log[n] \in Cells /\ logLen[n] \in Index
    BY DEF TypeOK, LogOK
  <1>2. \A n \in Node : /\ HasTerms(MemoryRun(n))
                        /\ MemoryRun(n).from = 0 /\ MemoryRun(n).to = logLen[n]
                        /\ MemoryRun(n).base = 0 /\ MemoryRun(n).cells = log[n]
    BY <1>1, MemoryRunType DEF MemoryRun
  <1>3. \A n \in Node : logLen[n] \in Nat /\ currentTerm[n] \in Nat
    BY DEF TypeOK, LogOK, ServerOK, Index, Term
  <1>4. \A m \in Requests : m \in AppendEntries
    BY DEF Requests, TypeOK, Message, RequestVote, RequestVoteResponse, AppendEntriesResponse
  <1>5. \A m \in Requests : HasTerms(MessageRun(m)) /\ m.term \in Nat
    BY <1>4, MessageRunType DEF AppendEntries, Term
  <1> QED BY <1>2, <1>3, <1>4, <1>5 DEF LogRuns, Runs, Requests

\* Two runs from the start that hold the same entry have the same terms up to it.
LEMMA SameBelow ==
    ASSUME NEW r, NEW s, HasTerms(r), HasTerms(s), Agree(r, s),
           r.from = 0, s.from = 0, r.base = 0, s.base = 0,
           NEW k \in Nat \ {0}, k <= r.to, k <= s.to, r.cells[k].term = s.cells[k].term
    PROVE  \A i \in 0 .. k : TermAt(r, i) = TermAt(s, i) /\ (i > 0 => r.cells[i] = s.cells[i])
  <1>1. IsRun(r) /\ IsRun(s) /\ Holds(r, k) /\ Holds(s, k)
    BY DEF HasTerms, Holds
  <1> QED BY <1>1, AgreeAt

\* The last term of a log is that at its end.
LEMMA LastTermAt ==
    ASSUME TypeOK, NEW n \in Node
    PROVE  LastTerm(n) = TermAt(MemoryRun(n), logLen[n]) /\ LastTerm(n) \in Nat
  <1>1. logLen[n] \in 0 .. logLen[n]
    BY LogRunTypes
  <1>2. LastTerm(n) = TermAt(MemoryRun(n), logLen[n])
    BY LogRunTypes DEF LastTerm, TermAt
  <1> QED BY <1>1, <1>2, LogRunTypes DEF HasTerms

\* A log that has an entry is as up to date as the entry.
LEMMA HoldersAreUpToDate ==
    ASSUME TypeOK, TermsRise, NEW n \in Node, NEW e \in Entry, e.index # 0, HasEntry(n, e)
    PROVE  checkLog(logLen[n], LastTerm(n), e.index, e.term)
  <1>1. /\ e.index \in Nat /\ e.term \in Nat /\ logLen[n] \in Nat
        /\ e.index <= logLen[n] /\ log[n][e.index] = e
    BY LogRunTypes DEF Entry, Index, Term, HasEntry
  <1>2. TermAt(MemoryRun(n), e.index) = e.term
    BY <1>1, LogRunTypes DEF TermAt
  <1>3. TermAt(MemoryRun(n), e.index) <= TermAt(MemoryRun(n), logLen[n])
    BY <1>1, LogRunTypes DEF TermsRise, Rises
  <1> QED BY <1>1, <1>2, <1>3, LastTermAt DEF checkLog

\* Two majorities have a node in common.
LEMMA MajoritiesMeet ==
    ASSUME NEW Q \in Majority, NEW R \in Majority
    PROVE  \E q \in Q : q \in R
  <1>1. Q \in SUBSET Node /\ R \in SUBSET Node
    BY DEF Majority
  <1>2. Cardinality(Q) \in Nat /\ Cardinality(R) \in Nat /\ Cardinality(Node) \in Nat
    BY <1>1, FS_Subset, FS_CardinalityType
  <1>3. Cardinality(Q) + Cardinality(R) > Cardinality(Node)
    BY <1>2 DEF Majority, majority
  <1>4. Q \cap R # {}
    BY <1>1, <1>3, FS_MajoritiesIntersect
  <1> QED BY <1>4

-----------------------------------------------------------------------------
(* What is known of every state *)

\* What the earlier theorems and Undamaged say, as it is needed here.
RunsTyped ==
    /\ \A n \in Node : /\ MemoryRun(n) \in LogRuns /\ HasTerms(MemoryRun(n))
                       /\ MemoryRun(n).from = 0 /\ MemoryRun(n).to = logLen[n]
                       /\ MemoryRun(n).base = 0 /\ MemoryRun(n).cells = log[n]
                       /\ logLen[n] \in Nat /\ currentTerm[n] \in Nat /\ LastTerm(n) \in Nat
                       /\ LastTerm(n) = TermAt(MemoryRun(n), logLen[n])
    /\ \A m \in Requests : /\ m \in AppendEntries /\ MessageRun(m) \in LogRuns
                           /\ HasTerms(MessageRun(m)) /\ m.term \in Nat /\ m.from \in Node
    /\ \A r \in LogRuns : HasTerms(r) /\ r \in Runs
    /\ votes \subseteq [voter : Node, candidate : Node, term : Nat]
    /\ elected \subseteq [leader : Node, term : Nat]
    /\ \A c \in committed : c.entry \in Entry
    /\ \A n, q \in Node : nextIndex[n][q] \in Nat /\ Acks(n, q) \subseteq Nat

HoldersAgree ==
    \A n, p \in Node : \A k \in Nat \ {0} :
        /\ k <= logLen[n] /\ k <= logLen[p] /\ log[n][k].term = log[p][k].term
        => \A i \in 0 .. k : /\ TermAt(MemoryRun(n), i) = TermAt(MemoryRun(p), i)
                             /\ i > 0 => log[n][i] = log[p][i]

VotesArePast == \A v \in votes : v.term <= currentTerm[v.voter]

LeadersWon ==
    \A n \in Node : role[n] = "LEADER"
        => [leader |-> n, term |-> currentTerm[n]] \in elected

WinnersHaveMajority ==
    \A e \in elected : \E S \in Majority : \A p \in S : Vote(p, e.leader, e.term) \in votes

Basics ==
    /\ RunsTyped
    /\ HoldersAgree
    /\ VotesArePast
    /\ LeadersWon
    /\ WinnersHaveMajority
    /\ VoicesAreElected
    /\ RequestsAreCampaigns
    /\ ElectionSafety
    /\ RunsAgree
    /\ RunsAreElected

\* With the earlier invariants they hold.
LEMMA BasicsHold ==
    ASSUME TypeOK, ElectionInv, ElectionSafety, LogInv, Undamaged
    PROVE  Basics
  <1>1. RunsTyped
    <2>1. votes \subseteq [voter : Node, candidate : Node, term : Nat]
      BY DEF TypeOK, HistoryOK, Term
    <2>2. \A m \in Requests : m.from \in Node
      BY LogRunTypes DEF AppendEntries
    <2>3. elected \subseteq [leader : Node, term : Nat]
      BY DEF TypeOK, HistoryOK, Term
    <2>4. \A c \in committed : c.entry \in Entry
      BY DEF TypeOK, HistoryOK
    <2>5. \A n, q \in Node : nextIndex[n][q] \in Nat /\ matchIndex[n][q] \in Nat
      BY DEF TypeOK, LeaderOK, Index
    <2>6. \A m \in net : m.type = "AppendEntriesResponse" => m.matchIndex \in Nat
      BY DEF TypeOK, Message, RequestVote, RequestVoteResponse, AppendEntries,
             AppendEntriesResponse, Index
    <2>7. \A n, q \in Node : Acks(n, q) \subseteq Nat
      BY <2>5, <2>6 DEF Acks
    <2> QED BY <2>1, <2>2, <2>3, <2>4, <2>5, <2>7, LogRunTypes, LastTermAt DEF RunsTyped
  <1>2. HoldersAgree
    <2> SUFFICES ASSUME NEW n \in Node, NEW p \in Node, NEW k \in Nat \ {0},
                        k <= logLen[n], k <= logLen[p], log[n][k].term = log[p][k].term
                 PROVE  \A i \in 0 .. k : /\ TermAt(MemoryRun(n), i) = TermAt(MemoryRun(p), i)
                                          /\ i > 0 => log[n][i] = log[p][i]
      BY DEF HoldersAgree
    <2>1. Agree(MemoryRun(n), MemoryRun(p))
      BY LogRunTypes DEF LogInv, RunsAgree
    <2> HIDE DEF MemoryRun
    <2> QED BY <2>1, LogRunTypes, SameBelow
  <1>3. VotesArePast
    <2>1. \A v \in votes : v.voter \in Node /\ v.term \in Nat /\ currentTerm[v.voter] \in Nat
      BY DEF TypeOK, HistoryOK, ServerOK, Term
    <2> QED BY <2>1 DEF VotesArePast, ElectionInv, MemoryKeepsVotes, Pledged, Undamaged
  <1>4. LeadersWon
    BY NodeAssumption DEF LeadersWon, ElectionInv, LeaderIsElected
  <1>5. WinnersHaveMajority
    <2> SUFFICES ASSUME NEW e \in elected
                 PROVE  \E S \in Majority : \A p \in S : Vote(p, e.leader, e.term) \in votes
      BY DEF WinnersHaveMajority
    <2>1. PICK S \in SUBSET Node :
            /\ e.leader \notin S
            /\ Cardinality(S) + 1 >= majority(Cardinality(Node))
            /\ \A p \in S \cup {e.leader} : Vote(p, e.leader, e.term) \in votes
      BY DEF ElectionInv, ElectedAreBacked
    <2>2. e.leader \in Node
      BY DEF TypeOK, HistoryOK
    <2>3. IsFiniteSet(S)
      BY FS_Subset
    <2>4. Cardinality(S \cup {e.leader}) = Cardinality(S) + 1
      BY <2>1, <2>3, FS_AddElement
    <2>5. S \cup {e.leader} \in Majority
      BY <2>1, <2>2, <2>4 DEF Majority
    <2> QED BY <2>1, <2>5
  <1> QED BY <1>1, <1>2, <1>3, <1>4, <1>5 DEF Basics, ElectionInv, LogInv

-----------------------------------------------------------------------------
(* What a step does to what CommitInv is about.  Only raft_leader_send_command *)
(* does more: it adds an entry.                                                *)

SameLog(n) ==
    logLen'[n] = logLen[n] /\ \A i \in 1 .. logLen[n] : log'[n][i] = log[n][i]

\* The follower n has cut its log at a conflict and copied a request of its term.
Spliced(n, m, at) ==
    /\ m \in Requests /\ m.term = currentTerm'[n]
    /\ Join(MemoryRun(n)', MemoryRun(n), MessageRun(m), at)
    /\ at < logLen'[n]
    /\ at < logLen[n] => log[n][at + 1].term # MessageRun(m).cells[at + 1].term

LogsMove ==
    \A n \in Node : \/ SameLog(n)
                    \/ role'[n] = "FOLLOWER" /\ \E m \in Requests, at \in Nat : Spliced(n, m, at)

TermsMove ==
    /\ \A n \in Node : currentTerm[n] <= currentTerm'[n]
    /\ elected \subseteq elected' /\ votes \subseteq votes'

\* A request is sent by a leader, out of its log.
RequestsMove ==
    \A m \in Requests' : m \in Requests \/
        /\ m.from \in Node /\ role[m.from] = "LEADER" /\ m.term = currentTerm[m.from]
        /\ PartOf(MessageRun(m), MemoryRun(m.from))

Stays(n) == role[n] = "LEADER" /\ currentTerm'[n] = currentTerm[n]

\* The candidate n wins with the votes there are, or is alone.
Takes(n) ==
    /\ role[n] # "LEADER" /\ currentTerm'[n] # 0
    /\ [leader |-> n, term |-> currentTerm'[n]] \notin elected
    /\ \A p \in Node : matchIndex'[n][p] = 0
    /\ \/ role[n] = "CANDIDATE" /\ currentTerm'[n] = currentTerm[n] /\ votes' = votes
       \/ Node = {n}

LeadersMove ==
    \A n \in Node : role'[n] = "LEADER"
        => /\ Stays(n) \/ Takes(n)
           /\ \A p \in Node : nextIndex'[n][p] <= logLen'[n] + 1

CandidatesMove ==
    \A n \in Node : role'[n] = "CANDIDATE"
        => \/ currentTerm[n] < currentTerm'[n]
           \/ role[n] = "CANDIDATE" /\ currentTerm'[n] = currentTerm[n]

\* A vote is for oneself, or for a request whose log is as up to date as the voter's.
VotesMove ==
    \A v \in votes' : v \in votes \/
        /\ SameLog(v.voter)
        /\ \/ v.candidate = v.voter
           \/ \E m \in net :
                /\ m.type = "RequestVote" /\ m.from = v.candidate /\ m.term = v.term
                /\ m.lastLogIndex \in Nat /\ m.lastLogTerm \in Nat
                /\ checkLog(m.lastLogIndex, m.lastLogTerm, logLen[v.voter], LastTerm(v.voter))

CampaignsMove ==
    \A m \in net' : m.type = "RequestVote"
        => m \in net \/ (m.lastLogIndex = logLen[m.from] /\ m.lastLogTerm = LastTerm(m.from))

SuccessesMove ==
    \A m \in net' : m.type = "AppendEntriesResponse" /\ m.success
        => m \in net \/ [leader |-> m.to, term |-> m.term] \in elected

\* q has just stored the leader's log up to a.
Stored(n, q, a) ==
    /\ currentTerm'[q] = currentTerm'[n] /\ a <= logLen'[n] /\ a <= logLen'[q]
    /\ \A i \in 1 .. a : log'[q][i] = log'[n][i]

AcksMove ==
    \A n, q \in Node : role'[n] = "LEADER" /\ Stays(n) /\ n # q
        => \A a \in Acks(n, q)' : a > 0 => a \in Acks(n, q) \/ Stored(n, q, a)

\* A leader commits up to an entry of its term that a majority has acked.
CommitsMove ==
    \A c \in committed' : c \in committed \/
        \E n \in Node, e \in Entry :
            /\ role'[n] = "LEADER" /\ e.index > 0 /\ HasEntry(n, e)' /\ e.term = currentTerm'[n]
            /\ c.at = e.term /\ c.entry.index \in 1 .. e.index /\ HasEntry(n, c.entry)'
            /\ [entry |-> e, at |-> e.term] \in committed'
            /\ \E Q \in Majority : \A q \in Q : Acked(n, q, e.index)'

Gradual ==
    /\ LogsMove /\ TermsMove /\ RequestsMove /\ LeadersMove /\ CandidatesMove
    /\ VotesMove /\ CampaignsMove /\ SuccessesMove /\ AcksMove /\ CommitsMove
    /\ committed \subseteq committed'

-----------------------------------------------------------------------------
(* Such a step keeps what is said of the terms *)

\* A log that is kept is a part of itself.
LEMMA SameLogRun ==
    ASSUME RunsTyped, RunsTyped', NEW n \in Node, SameLog(n)
    PROVE  /\ PartOf(MemoryRun(n)', MemoryRun(n))
           /\ \A i \in 0 .. logLen[n] : TermAt(MemoryRun(n)', i) = TermAt(MemoryRun(n), i)
           /\ LastTerm(n)' = LastTerm(n)
           /\ \A e \in Entry : e.index # 0 => (HasEntry(n, e)' <=> HasEntry(n, e))
  <1>1. /\ MemoryRun(n)'.from = 0 /\ MemoryRun(n)'.to = logLen[n]
        /\ MemoryRun(n)'.base = 0 /\ MemoryRun(n)'.cells = log'[n]
        /\ MemoryRun(n).from = 0 /\ MemoryRun(n).to = logLen[n]
        /\ MemoryRun(n).base = 0 /\ MemoryRun(n).cells = log[n] /\ logLen[n] \in Nat
        /\ HasTerms(MemoryRun(n)) /\ HasTerms(MemoryRun(n)') /\ logLen'[n] = logLen[n]
    BY DEF RunsTyped, SameLog
  <1>2. PartOf(MemoryRun(n)', MemoryRun(n))
    BY <1>1 DEF PartOf, TermAt, SameLog
  <1>3. \A i \in 0 .. logLen[n] : TermAt(MemoryRun(n)', i) = TermAt(MemoryRun(n), i)
    BY <1>1, <1>2, PartTerms DEF HasTerms
  <1>4. LastTerm(n)' = LastTerm(n)
    BY <1>1, <1>3 DEF RunsTyped
  <1>5. \A e \in Entry : e.index # 0 => (HasEntry(n, e)' <=> HasEntry(n, e))
    BY <1>1 DEF HasEntry, SameLog, Entry, Index
  <1> QED BY <1>2, <1>3, <1>4, <1>5

\* The runs after the step are parts and joins of those before.
LEMMA MovedRuns ==
    ASSUME Basics, Basics', LogsMove, RequestsMove, NEW r \in LogRuns'
    PROVE  /\ IsRun(r) /\ r.from <= r.to
           /\ \/ \E s \in LogRuns : PartOf(r, s)
              \/ \E b, m \in LogRuns : \E at \in Nat :
                   Join(r, b, m, at) /\ at <= r.to /\ b.from = 0 /\ Agree(b, m)
  <1>1. IsRun(r) /\ r.from <= r.to
    BY DEF Basics, RunsTyped, HasTerms
  <1>2. CASE \E n \in Node : r = MemoryRun(n)'
    <2>1. PICK n \in Node : r = MemoryRun(n)'
      BY <1>2
    <2>2. CASE SameLog(n)
      <3>1. RunsTyped /\ RunsTyped' /\ MemoryRun(n) \in LogRuns
        BY DEF Basics, RunsTyped
      <3>2. PartOf(MemoryRun(n)', MemoryRun(n))
        BY <2>2, <3>1, SameLogRun
      <3> QED BY <1>1, <2>1, <3>1, <3>2
    <2>3. CASE \E m \in Requests, at \in Nat : Spliced(n, m, at)
      <3>1. PICK m \in Requests, at \in Nat : Spliced(n, m, at)
        BY <2>3
      <3>2. MemoryRun(n) \in LogRuns /\ MessageRun(m) \in LogRuns /\ MemoryRun(n).from = 0
        BY DEF Basics, RunsTyped
      <3>3. Agree(MemoryRun(n), MessageRun(m))
        BY <3>2 DEF Basics, RunsTyped, RunsAgree
      <3>4. at <= r.to
        BY <2>1, <3>1 DEF Spliced, Basics, RunsTyped
      <3> QED BY <1>1, <2>1, <3>1, <3>2, <3>3, <3>4 DEF Spliced
    <2> QED BY <2>2, <2>3 DEF LogsMove
  <1>3. CASE \E m \in Requests' : r = MessageRun(m)
    <2>1. PICK m \in Requests' : r = MessageRun(m)
      BY <1>3
    <2>2. CASE m \in Requests
      <3>1. MessageRun(m) \in LogRuns
        BY <2>2 DEF Basics, RunsTyped
      <3>2. PartOf(r, r)
        BY <1>1 DEF PartOf, TermAt, IsRun
      <3> QED BY <1>1, <2>1, <3>1, <3>2
    <2>3. CASE m \notin Requests
      BY <1>1, <2>1, <2>3 DEF RequestsMove, Basics, RunsTyped
    <2> QED BY <2>2, <2>3
  <1>4. (\E n \in Node : r = MemoryRun(n)') \/ (\E m \in Requests' : r = MessageRun(m))
    BY DEF LogRuns, MessageRun
  <1> QED BY <1>2, <1>3, <1>4

\* Their terms were there before, at the same place.
LEMMA MovedTerms ==
    ASSUME Basics, Basics', LogsMove, RequestsMove, NEW r \in LogRuns', NEW i \in r.from .. r.to
    PROVE  \E s \in LogRuns : i \in s.from .. s.to /\ TermAt(r, i) = TermAt(s, i)
  <1>1. \A s \in LogRuns : HasTerms(s)
    BY DEF Basics, RunsTyped
  <1>2. CASE \E s \in LogRuns : PartOf(r, s)
    BY <1>1, <1>2, MovedRuns, PartTerms
  <1>3. CASE \E b, m \in LogRuns : \E at \in Nat : Join(r, b, m, at) /\ at <= r.to
    BY <1>1, <1>3, JoinTerms
  <1> QED BY <1>2, <1>3, MovedRuns

\* The terms along every log rise.
LEMMA TermsStillRise ==
    ASSUME Basics, Basics', LogsMove, RequestsMove, TermsRise
    PROVE  TermsRise'
  <1> SUFFICES ASSUME NEW r \in LogRuns' PROVE Rises(r)
    BY DEF TermsRise, Rises, TermAt
  <1>1. \A s \in LogRuns : HasTerms(s) /\ Rises(s)
    BY DEF Basics, RunsTyped, TermsRise
  <1>2. CASE \E s \in LogRuns : PartOf(r, s)
    BY <1>1, <1>2, MovedRuns, PartRises
  <1>3. CASE \E b, m \in LogRuns : \E at \in Nat : Join(r, b, m, at) /\ at <= r.to
    BY <1>1, <1>3, JoinRises
  <1> QED BY <1>2, <1>3, MovedRuns

\* A term that is taken was not won before.
LEMMA TakenIsNew ==
    ASSUME Basics', TermsMove, LeadersMove, NEW n \in Node, role'[n] = "LEADER", Takes(n),
           NEW t, t = 0 \/ \E w \in elected : w.term = t
    PROVE  t # currentTerm'[n]
  <1> SUFFICES ASSUME t = currentTerm'[n] PROVE FALSE
    OBVIOUS
  <1>1. PICK w \in elected : w.term = currentTerm'[n]
    BY DEF Takes
  <1>2. w \in elected' /\ [leader |-> n, term |-> currentTerm'[n]] \in elected'
    BY DEF TermsMove, Basics, LeadersWon
  <1>3. w.leader = n
    BY <1>1, <1>2 DEF Basics, ElectionSafety
  <1>4. w \in [leader : Node, term : Nat]
    BY <1>2 DEF Basics, RunsTyped
  <1>5. w = [leader |-> n, term |-> currentTerm'[n]]
    BY <1>1, <1>3, <1>4
  <1> QED BY <1>5 DEF Takes

\* What is said of terms is kept.
LEMMA TermsInvKept ==
    ASSUME Basics, Basics', LogsMove, TermsMove, RequestsMove, LeadersMove, TermsInv
    PROVE  TermsInv'
  <1>1. TermsRise'
    BY TermsStillRise DEF TermsInv
  <1>2. TermsWon'
    <2> SUFFICES ASSUME NEW r \in LogRuns', NEW i \in r.from .. r.to
                 PROVE  TermAt(r, i) = 0 \/ \E w \in elected' : w.term = TermAt(r, i)
      BY DEF TermsWon, TermAt
    <2>1. PICK s \in LogRuns : i \in s.from .. s.to /\ TermAt(r, i) = TermAt(s, i)
      BY MovedTerms
    <2>2. TermAt(s, i) = 0 \/ \E w \in elected : w.term = TermAt(s, i)
      BY <2>1 DEF TermsInv, TermsWon
    <2> QED BY <2>1, <2>2 DEF TermsMove
  <1>3. \A n \in Node : currentTerm[n] \in Nat /\ currentTerm'[n] \in Nat /\ currentTerm[n] <= currentTerm'[n]
    BY DEF TermsMove, Basics, RunsTyped
  <1>4. ASSUME NEW n \in Node, NEW i \in 0 .. logLen'[n]
        PROVE  TermAt(MemoryRun(n)', i) <= currentTerm'[n]
    <2>0. RunsTyped /\ RunsTyped'
      BY DEF Basics
    <2>1. CASE SameLog(n)
      <3>1. i \in 0 .. logLen[n] /\ TermAt(MemoryRun(n)', i) = TermAt(MemoryRun(n), i)
        BY <2>0, <2>1, SameLogRun DEF SameLog
      <3>2. TermAt(MemoryRun(n), i) <= currentTerm[n] /\ TermAt(MemoryRun(n), i) \in Nat
        BY <2>0, <3>1 DEF TermsInv, TermsPast, RunsTyped, HasTerms
      <3> QED BY <1>3, <3>1, <3>2
    <2>2. CASE \E m \in Requests, at \in Nat : Spliced(n, m, at)
      <3>1. PICK m \in Requests, at \in Nat : Spliced(n, m, at)
        BY <2>2
      <3>2. /\ HasTerms(MemoryRun(n)) /\ HasTerms(MessageRun(m))
            /\ MemoryRun(n)'.from = 0 /\ MemoryRun(n)'.to = logLen'[n] /\ logLen'[n] \in Nat
            /\ MemoryRun(n).from = 0 /\ MemoryRun(n).to = logLen[n]
            /\ currentTerm'[n] \in Nat
        BY <2>0 DEF RunsTyped
      <3>3. at <= MemoryRun(n)'.to /\ i \in MemoryRun(n)'.from .. MemoryRun(n)'.to
        BY <3>1, <3>2 DEF Spliced
      <3>4. \/ i \in 0 .. logLen[n] /\ TermAt(MemoryRun(n)', i) = TermAt(MemoryRun(n), i)
            \/ /\ i \in MessageRun(m).from .. MessageRun(m).to
               /\ TermAt(MemoryRun(n)', i) = TermAt(MessageRun(m), i)
        BY <3>1, <3>2, <3>3, JoinTerms DEF Spliced
      <3>5. CASE i \in 0 .. logLen[n] /\ TermAt(MemoryRun(n)', i) = TermAt(MemoryRun(n), i)
        <4>1. TermAt(MemoryRun(n), i) <= currentTerm[n] /\ TermAt(MemoryRun(n), i) \in Nat
          BY <3>2, <3>5 DEF TermsInv, TermsPast, HasTerms
        <4> QED BY <1>3, <3>5, <4>1
      <3>6. CASE /\ i \in MessageRun(m).from .. MessageRun(m).to
                 /\ TermAt(MemoryRun(n)', i) = TermAt(MessageRun(m), i)
        <4>1. TermAt(MessageRun(m), i) <= m.term
          BY <3>6 DEF TermsInv, TermsPast
        <4> QED BY <3>1, <3>6, <4>1 DEF Spliced
      <3> QED BY <3>4, <3>5, <3>6
    <2> QED BY <2>1, <2>2 DEF LogsMove
  <1>5. ASSUME NEW m \in Requests', NEW i \in MessageRun(m).from .. MessageRun(m).to
        PROVE  TermAt(MessageRun(m), i) <= m.term
    <2>1. CASE m \in Requests
      BY <2>1 DEF TermsInv, TermsPast
    <2>2. CASE m \notin Requests
      <3>1. /\ m.from \in Node /\ m.term = currentTerm[m.from]
            /\ PartOf(MessageRun(m), MemoryRun(m.from))
        BY <2>2 DEF RequestsMove
      <3>2. /\ HasTerms(MessageRun(m)) /\ HasTerms(MemoryRun(m.from))
            /\ MemoryRun(m.from).from = 0 /\ MemoryRun(m.from).to = logLen[m.from]
        BY <3>1 DEF Basics, RunsTyped
      <3>3. i \in 0 .. logLen[m.from] /\ TermAt(MessageRun(m), i) = TermAt(MemoryRun(m.from), i)
        BY <3>1, <3>2, PartTerms DEF HasTerms
      <3> QED BY <3>1, <3>3 DEF TermsInv, TermsPast
    <2> QED BY <2>1, <2>2
  <1>6. TermsPast'
    BY <1>4, <1>5 DEF TermsPast, MessageRun, TermAt
  <1>7. LeaderIsAhead'
    <2> SUFFICES ASSUME NEW n \in Node, role'[n] = "LEADER", NEW r \in LogRuns',
                        NEW i \in r.from .. r.to, TermAt(r, i) = currentTerm'[n]
                 PROVE  i <= logLen'[n]
      BY DEF LeaderIsAhead, TermAt
    <2>1. PICK s \in LogRuns : i \in s.from .. s.to /\ TermAt(r, i) = TermAt(s, i)
      BY MovedTerms
    <2>2. ~Takes(n)
      BY <2>1, TakenIsNew DEF TermsInv, TermsWon
    <2>3. Stays(n) /\ SameLog(n)
      BY <2>2 DEF LeadersMove, LogsMove
    <2> QED BY <2>1, <2>3 DEF Stays, SameLog, TermsInv, LeaderIsAhead
  <1> QED BY <1>1, <1>2, <1>6, <1>7 DEF TermsInv

-----------------------------------------------------------------------------
(* ... and of the messages *)

\* A candidate that already voted for itself in its term was a candidate of it before.
LEMMA OldCampaign ==
    ASSUME Basics, Basics', CandidatesMove, NEW n \in Node, NEW t, Vote(n, n, t) \in votes,
           role'[n] = "CANDIDATE", currentTerm'[n] = t
    PROVE  role[n] = "CANDIDATE" /\ currentTerm[n] = t
  <1>1. t <= currentTerm[n]
    BY DEF Basics, VotesArePast, Vote
  <1>2. currentTerm[n] \in Nat /\ currentTerm'[n] \in Nat
    BY DEF Basics, RunsTyped
  <1> QED BY <1>1, <1>2 DEF CandidatesMove

\* Only the leader of a term is heard in it.
LEMMA OneVoice ==
    ASSUME Basics, NEW n \in Node, role[n] = "LEADER", NEW m \in Requests, m.term = currentTerm[n]
    PROVE  m.from = n
  <1>1. /\ [leader |-> n, term |-> currentTerm[n]] \in elected
        /\ [leader |-> m.from, term |-> m.term] \in elected
    BY DEF Basics, LeadersWon, VoicesAreElected, Requests
  <1> QED BY <1>1 DEF Basics, ElectionSafety

\* Every vote was asked for.
LEMMA CampaignsKept ==
    ASSUME Basics, Basics', TermsMove, VotesMove, VotesAreCampaigns
    PROVE  VotesAreCampaigns'
  <1> SUFFICES ASSUME NEW v \in votes' PROVE Vote(v.candidate, v.candidate, v.term) \in votes'
    BY DEF VotesAreCampaigns, Vote
  <1>1. CASE v \in votes
    BY <1>1 DEF VotesAreCampaigns, TermsMove
  <1>2. CASE v.candidate = v.voter
    <2>1. v \in [voter : Node, candidate : Node, term : Nat]
      BY DEF Basics, RunsTyped
    <2>2. v = Vote(v.candidate, v.candidate, v.term)
      BY <1>2, <2>1 DEF Vote
    <2> QED BY <2>2
  <1>3. CASE \E m \in net : m.type = "RequestVote" /\ m.from = v.candidate /\ m.term = v.term
    BY <1>3 DEF Basics, RequestsAreCampaigns, TermsMove
  <1> QED BY <1>1, <1>2, <1>3 DEF VotesMove

\* A candidate's requests show its log.
LEMMA RequestsStillShowLog ==
    ASSUME Basics, Basics', LogsMove, CandidatesMove, CampaignsMove, RequestsShowLog
    PROVE  RequestsShowLog'
  <1> SUFFICES ASSUME NEW m \in net', NEW n \in Node, m.type = "RequestVote", m.from = n,
                      role'[n] = "CANDIDATE", currentTerm'[n] = m.term
               PROVE  m.lastLogIndex = logLen'[n] /\ m.lastLogTerm = LastTerm(n)'
    BY DEF RequestsShowLog
  <1>1. SameLog(n) /\ RunsTyped /\ RunsTyped'
    BY DEF LogsMove, Basics
  <1>2. logLen'[n] = logLen[n] /\ LastTerm(n)' = LastTerm(n)
    BY <1>1, SameLogRun DEF SameLog
  <1>3. CASE m \in net
    <2>1. Vote(n, n, m.term) \in votes
      BY <1>3 DEF Basics, RequestsAreCampaigns
    <2>2. role[n] = "CANDIDATE" /\ currentTerm[n] = m.term
      BY <2>1, OldCampaign
    <2> QED BY <1>2, <1>3, <2>2 DEF RequestsShowLog
  <1>4. CASE m \notin net
    BY <1>2, <1>4 DEF CampaignsMove
  <1> QED BY <1>3, <1>4

\* A leader speaks out of its log.
LEMMA LeaderStillSpeaks ==
    ASSUME Basics, Basics', LogsMove, RequestsMove, LeadersMove, LeaderSpeaks
    PROVE  LeaderSpeaks'
  <1> SUFFICES ASSUME NEW n \in Node, role'[n] = "LEADER", NEW m \in Requests',
                      m.from = n, m.term = currentTerm'[n]
               PROVE  PartOf(MessageRun(m), MemoryRun(n)')
    BY DEF LeaderSpeaks, LeadersMove, PartOf, MessageRun, TermAt
  <1>1. SameLog(n) /\ RunsTyped /\ RunsTyped'
    BY DEF LogsMove, Basics
  <1>2. ~Takes(n)
    <2> SUFFICES ASSUME Takes(n) PROVE FALSE
      OBVIOUS
    <2>1. m \in Requests
      BY DEF RequestsMove, Takes
    <2> QED BY <2>1 DEF Basics, VoicesAreElected, Takes, Requests
  <1>3. Stays(n)
    BY <1>2 DEF LeadersMove
  <1>4. PartOf(MessageRun(m), MemoryRun(n))
    BY <1>3 DEF RequestsMove, LeaderSpeaks, Stays
  <1>5. /\ MemoryRun(n)'.from = 0 /\ MemoryRun(n)'.to = logLen[n]
        /\ MemoryRun(n)'.base = 0 /\ MemoryRun(n)'.cells = log'[n]
        /\ MemoryRun(n).from = 0 /\ MemoryRun(n).to = logLen[n]
        /\ MemoryRun(n).base = 0 /\ MemoryRun(n).cells = log[n] /\ logLen[n] \in Nat
        /\ HasTerms(MessageRun(m))
    BY <1>1 DEF RunsTyped, SameLog
  <1>6. MessageRun(m).from \in 0 .. logLen[n]
    BY <1>4, <1>5 DEF PartOf, HasTerms, IsRun
  <1>7. TermAt(MemoryRun(n)', MessageRun(m).from) = TermAt(MemoryRun(n), MessageRun(m).from)
    BY <1>1, <1>6, SameLogRun
  <1>8. \A k \in MessageRun(m).from + 1 .. MessageRun(m).to : k \in 1 .. logLen[n]
    BY <1>4, <1>5, <1>6 DEF PartOf, HasTerms, IsRun
  <1> QED BY <1>1, <1>4, <1>5, <1>7, <1>8 DEF PartOf, SameLog

\* Whom a success is told to has won.
LEMMA SuccessStillWon ==
    ASSUME TermsMove, SuccessesMove, SuccessIsWon
    PROVE  SuccessIsWon'
  BY DEF SuccessIsWon, SuccessesMove, TermsMove

\* A request that would cut or overwrite a log at a position differs from it there, so
\* the positions at which it does not are kept.
LEMMA SpliceKeeps ==
    ASSUME Basics, Basics', NEW n \in Node, NEW m \in Requests, NEW at \in Nat,
           Spliced(n, m, at), NEW k \in Nat, k <= logLen[n],
           \A i \in m.prevLogIndex .. m.prevLogIndex + Len(m.entries) :
               i <= k => TermAt(MessageRun(m), i) = TermAt(MemoryRun(n), i)
    PROVE  k <= logLen'[n] /\ \A i \in 1 .. k : log'[n][i] = log[n][i]
  <1>1. /\ MemoryRun(n)'.from = 0 /\ MemoryRun(n)'.to = logLen'[n] /\ MemoryRun(n)'.cells = log'[n]
        /\ MemoryRun(n).from = 0 /\ MemoryRun(n).to = logLen[n] /\ MemoryRun(n).cells = log[n]
        /\ logLen[n] \in Nat /\ logLen'[n] \in Nat
        /\ m \in AppendEntries
    BY DEF Basics, RunsTyped
  <1>2. /\ MessageRun(m).from = m.prevLogIndex
        /\ MessageRun(m).to = m.prevLogIndex + Len(m.entries)
    BY <1>1, MessageRunType
  <1>3. /\ m.prevLogIndex <= at /\ logLen'[n] <= m.prevLogIndex + Len(m.entries)
        /\ at < logLen'[n]
        /\ m.prevLogIndex \in Nat /\ m.prevLogIndex + Len(m.entries) \in Nat
    BY <1>1, <1>2 DEF Spliced, Join, IsRun
  <1>4. k <= at
    <2> SUFFICES ASSUME at + 1 <= k PROVE FALSE
      OBVIOUS
    <2>1. at + 1 \in m.prevLogIndex .. m.prevLogIndex + Len(m.entries)
      BY <1>1, <1>3
    <2>2. TermAt(MessageRun(m), at + 1) = TermAt(MemoryRun(n), at + 1)
      BY <2>1
    <2>3. at + 1 # MessageRun(m).from /\ at + 1 # MemoryRun(n).from
      BY <1>1, <1>2, <1>3
    <2>4. at < logLen[n]
      BY <1>1
    <2> QED BY <1>1, <2>2, <2>3, <2>4 DEF Spliced, TermAt
  <1>5. \A i \in 1 .. k : Holds(MemoryRun(n)', i) /\ i <= at /\ i \in Nat
    BY <1>1, <1>3, <1>4 DEF Holds
  <1>6. \A i \in 1 .. k : MemoryRun(n)'.cells[i] = MemoryRun(n).cells[i]
    BY <1>5 DEF Spliced, Join
  <1> QED BY <1>1, <1>3, <1>4, <1>6

\* Who acked holds what it acked.
LEMMA AcksStillHold ==
    ASSUME Basics, Basics', LogsMove, TermsMove, LeadersMove, SuccessesMove, AcksMove,
           LeaderSpeaks, AcksHold, SuccessIsWon
    PROVE  AcksHold'
  <1> SUFFICES ASSUME NEW n \in Node, NEW q \in Node, role'[n] = "LEADER", n # q,
                      NEW a \in Acks(n, q)', a > 0
               PROVE  /\ a <= logLen'[n]
                      /\ currentTerm'[q] >= currentTerm'[n]
                      /\ currentTerm'[q] = currentTerm'[n]
                           => a <= logLen'[q] /\ \A i \in 1 .. a : log'[q][i] = log'[n][i]
    BY DEF AcksHold
  <1>1. ~Takes(n)
    <2> SUFFICES ASSUME Takes(n) PROVE FALSE
      OBVIOUS
    <2>1. a = matchIndex'[n][q] \/ \E m \in net' : /\ m.type = "AppendEntriesResponse" /\ m.success
                                                   /\ m.to = n /\ m.term = currentTerm'[n]
      BY DEF Acks
    <2>2. CASE a = matchIndex'[n][q]
      BY <2>2 DEF Takes
    <2>3. CASE \E m \in net' : /\ m.type = "AppendEntriesResponse" /\ m.success
                               /\ m.to = n /\ m.term = currentTerm'[n]
      BY <2>3 DEF Takes, SuccessesMove, SuccessIsWon
    <2> QED BY <2>1, <2>2, <2>3
  <1>2. Stays(n) /\ SameLog(n)
    BY <1>1 DEF LeadersMove, LogsMove
  <1>3. a \in Nat /\ (a \in Acks(n, q) \/ Stored(n, q, a))
    BY <1>2 DEF AcksMove, Basics, RunsTyped
  <1>4. /\ currentTerm[n] \in Nat /\ currentTerm[q] \in Nat /\ currentTerm'[q] \in Nat
        /\ currentTerm'[n] = currentTerm[n] /\ currentTerm[q] <= currentTerm'[q]
        /\ logLen[n] \in Nat /\ logLen[q] \in Nat
    BY <1>2 DEF TermsMove, Basics, RunsTyped, Stays
  <1>5. CASE Stored(n, q, a)
    BY <1>4, <1>5 DEF Stored
  <1>6. CASE a \in Acks(n, q)
    <2>1. /\ a <= logLen[n] /\ currentTerm[q] >= currentTerm[n]
          /\ currentTerm[q] = currentTerm[n]
               => a <= logLen[q] /\ \A i \in 1 .. a : log[q][i] = log[n][i]
      BY <1>2, <1>6 DEF AcksHold, Stays
    <2>2. a <= logLen'[n] /\ \A i \in 1 .. a : log'[n][i] = log[n][i]
      BY <1>2, <1>3, <1>4, <2>1 DEF SameLog
    <2>3. ASSUME currentTerm'[q] = currentTerm'[n]
          PROVE  a <= logLen'[q] /\ \A i \in 1 .. a : log'[q][i] = log'[n][i]
      <3>1. a <= logLen[q] /\ \A i \in 1 .. a : log[q][i] = log[n][i]
        BY <1>4, <2>1, <2>3
      <3>2. a <= logLen'[q] /\ \A i \in 1 .. a : log'[q][i] = log[q][i]
        <4>1. CASE SameLog(q)
          BY <1>3, <1>4, <3>1, <4>1 DEF SameLog
        <4>2. CASE \E m \in Requests, at \in Nat : Spliced(q, m, at)
          <5>1. PICK m \in Requests, at \in Nat : Spliced(q, m, at)
            BY <4>2
          <5>2. m.term = currentTerm[n]
            BY <1>4, <2>3, <5>1 DEF Spliced
          <5>3. m.from = n
            BY <1>2, <5>2, OneVoice DEF Stays
          <5>4. PartOf(MessageRun(m), MemoryRun(n))
            BY <1>2, <5>2, <5>3 DEF LeaderSpeaks, Stays
          <5>5. /\ HasTerms(MessageRun(m)) /\ HasTerms(MemoryRun(n)) /\ m \in AppendEntries
                /\ MemoryRun(n).from = 0 /\ MemoryRun(n).base = 0 /\ MemoryRun(n).cells = log[n]
                /\ MemoryRun(q).from = 0 /\ MemoryRun(q).base = 0 /\ MemoryRun(q).cells = log[q]
            BY DEF Basics, RunsTyped
          <5>6. ASSUME NEW i \in m.prevLogIndex .. m.prevLogIndex + Len(m.entries), i <= a
                PROVE  TermAt(MessageRun(m), i) = TermAt(MemoryRun(q), i)
            <6>1. i \in MessageRun(m).from .. MessageRun(m).to
              BY <5>5, MessageRunType
            <6>2. TermAt(MessageRun(m), i) = TermAt(MemoryRun(n), i) /\ i \in Nat
              BY <5>4, <5>5, <6>1, PartTerms DEF HasTerms, IsRun
            <6>3. i = 0 \/ i \in 1 .. a
              BY <1>3, <5>6, <6>2
            <6>4. TermAt(MemoryRun(n), i) = TermAt(MemoryRun(q), i)
              BY <3>1, <5>5, <6>3 DEF TermAt
            <6> QED BY <6>2, <6>4
          <5> QED BY <1>3, <3>1, <5>1, <5>6, SpliceKeeps
        <4> QED BY <4>1, <4>2 DEF LogsMove
      <3> QED BY <2>2, <3>1, <3>2
    <2> QED BY <1>4, <2>1, <2>2, <2>3
  <1> QED BY <1>3, <1>5, <1>6

\* What is said of requests and responses is kept.
LEMMA TalkInvKept ==
    ASSUME Basics, Basics', Gradual, TalkInv
    PROVE  TalkInv'
  <1>1. VotesAreCampaigns' /\ RequestsShowLog'
    BY CampaignsKept, RequestsStillShowLog DEF Gradual, TalkInv
  <1>2. LeaderSpeaks' /\ SuccessIsWon'
    BY LeaderStillSpeaks, SuccessStillWon DEF Gradual, TalkInv
  <1>3. AcksHold'
    BY AcksStillHold DEF Gradual, TalkInv
  <1> QED BY <1>1, <1>2, <1>3 DEF TalkInv

-----------------------------------------------------------------------------
(* ... and of safe entries *)

\* An entry there can be.
IsEntry(e) == e \in Entry /\ e.index \in Nat \ {0} /\ e.term \in Nat

\* A node of e's term or a later one keeps e, and what is before it.
LEMMA EntryKept ==
    ASSUME Basics, Basics', LogsMove, TermsMove, NEW q \in Node, NEW e, IsEntry(e),
           HasEntry(q, e), currentTerm[q] >= e.term, RequestsSpare(e)
    PROVE  HasEntry(q, e)' /\ \A i \in 1 .. e.index : log'[q][i] = log[q][i]
  <1>1. /\ e.index \in Nat /\ e.index # 0 /\ e.index <= logLen[q] /\ log[q][e.index] = e
        /\ logLen[q] \in Nat /\ e.index \in 1 .. e.index /\ e.term \in Nat
        /\ currentTerm[q] \in Nat /\ currentTerm'[q] \in Nat /\ currentTerm[q] <= currentTerm'[q]
    BY DEF IsEntry, HasEntry, Basics, RunsTyped, TermsMove
  <1>2. e.index <= logLen'[q] /\ \A i \in 1 .. e.index : log'[q][i] = log[q][i]
    <2>1. CASE SameLog(q)
      BY <1>1, <2>1 DEF SameLog
    <2>2. CASE \E m \in Requests, at \in Nat : Spliced(q, m, at)
      <3>1. PICK m \in Requests, at \in Nat : Spliced(q, m, at)
        BY <2>2
      <3>2. m.term >= e.term
        BY <1>1, <3>1 DEF Spliced
      <3> QED BY <1>1, <3>1, <3>2, SpliceKeeps DEF RequestsSpare
    <2> QED BY <2>1, <2>2 DEF LogsMove
  <1> QED BY <1>1, <1>2 DEF HasEntry

\* An entry stays safe if its later leaders have it, and a node that has it keeps it.
LEMMA SafeKept ==
    ASSUME Basics, Basics', LogsMove, TermsMove, RequestsMove, TermsInv,
           NEW e, IsEntry(e), Safe(e), LeadersHave(e)',
           NEW q \in Node, HasEntry(q, e), currentTerm[q] >= e.term
    PROVE  Safe(e)'
  <1>1. ASSUME NEW r \in LogRuns' PROVE Covers(r, e)
    <2>1. \A s \in LogRuns : HasTerms(s) /\ Rises(s) /\ Covers(s, e)
      BY DEF Basics, RunsTyped, TermsInv, TermsRise, Safe
    <2>2. CASE \E s \in LogRuns : PartOf(r, s)
      BY <2>1, <2>2, MovedRuns, PartCovers DEF IsEntry
    <2>3. CASE \E b, m \in LogRuns : \E at \in Nat :
                  Join(r, b, m, at) /\ at <= r.to /\ b.from = 0 /\ Agree(b, m)
      BY <2>1, <2>3, JoinCovers DEF IsEntry
    <2> QED BY <2>2, <2>3, MovedRuns
  <1>2. /\ e.index \in Nat \ {0} /\ e.index <= logLen[q] /\ log[q][e.index] = e
        /\ HasEntry(q, e)' /\ \A i \in 1 .. e.index : log'[q][i] = log[q][i]
    BY EntryKept DEF Safe, HasEntry, IsEntry
  <1>3. ASSUME NEW m \in Requests', NEW n \in Node, m.term >= e.term, HasEntry(n, e)',
               NEW i \in m.prevLogIndex .. m.prevLogIndex + Len(m.entries), i <= e.index
        PROVE  TermAt(MessageRun(m), i) = TermAt(MemoryRun(n)', i)
    <2>1. /\ m \in AppendEntries /\ HasTerms(MessageRun(m))
          /\ MessageRun(m).from = m.prevLogIndex
          /\ MessageRun(m).to = m.prevLogIndex + Len(m.entries)
      BY MessageRunType DEF Basics, RunsTyped
    <2>2. i \in MessageRun(m).from .. MessageRun(m).to /\ i \in 0 .. e.index
      BY <1>2, <1>3, <2>1 DEF HasTerms, IsRun
    <2>3. TermAt(MemoryRun(n)', i) = TermAt(MemoryRun(q)', i)
      <3>1. /\ e.index <= logLen'[n] /\ e.index <= logLen'[q]
            /\ log'[n][e.index].term = log'[q][e.index].term
        BY <1>2, <1>3 DEF HasEntry
      <3>2. HoldersAgree'
        BY DEF Basics
      <3> QED BY <1>2, <2>2, <3>1, <3>2 DEF HoldersAgree
    <2>4. TermAt(MemoryRun(q)', i) = TermAt(MemoryRun(q), i)
      <3>1. /\ MemoryRun(q)'.from = 0 /\ MemoryRun(q)'.base = 0 /\ MemoryRun(q)'.cells = log'[q]
            /\ MemoryRun(q).from = 0 /\ MemoryRun(q).base = 0 /\ MemoryRun(q).cells = log[q]
        BY DEF Basics, RunsTyped
      <3>2. i = 0 \/ i \in 1 .. e.index
        BY <1>2, <2>2
      <3> QED BY <1>2, <3>1, <3>2 DEF TermAt
    <2>5. CASE m \in Requests
      <3>1. TermAt(MessageRun(m), i) = TermAt(MemoryRun(q), i)
        BY <1>3, <2>5 DEF Safe, RequestsSpare
      <3> QED BY <2>3, <2>4, <3>1
    <2>6. CASE m \notin Requests
      <3> DEFINE l == m.from
      <3>1. /\ l \in Node /\ role[l] = "LEADER" /\ m.term = currentTerm[l]
            /\ PartOf(MessageRun(m), MemoryRun(l))
        BY <2>6 DEF RequestsMove
      <3>2. HasEntry(l, e)
        BY <1>3, <3>1 DEF Safe, LeadersHave
      <3>3. /\ e.index <= logLen[l] /\ log[l][e.index].term = log[q][e.index].term
        BY <1>2, <3>2 DEF HasEntry
      <3>4. HoldersAgree
        BY DEF Basics
      <3>5. TermAt(MemoryRun(l), i) = TermAt(MemoryRun(q), i)
        BY <1>2, <2>2, <3>1, <3>3, <3>4 DEF HoldersAgree
      <3>6. TermAt(MessageRun(m), i) = TermAt(MemoryRun(l), i)
        <4>1. HasTerms(MemoryRun(l))
          BY <3>1 DEF Basics, RunsTyped
        <4>2. IsRun(MessageRun(m)) /\ MessageRun(m).from <= MessageRun(m).to
          BY <2>1 DEF HasTerms
        <4> HIDE DEF l
        <4> QED BY <2>2, <3>1, <4>1, <4>2, PartTerms
      <3> QED BY <2>3, <2>4, <3>5, <3>6
    <2> QED BY <2>5, <2>6
  <1>4. RequestsSpare(e)'
    BY <1>3 DEF RequestsSpare, MessageRun, TermAt
  <1>5. \A r \in LogRuns' : Covers(r, e)'
    BY <1>1 DEF Covers, TermAt
  <1> QED BY <1>4, <1>5 DEF Safe

\* A node that supports an entry goes on doing so: it votes only for logs as up to date
\* as its own.
LEMMA SupportsKept ==
    ASSUME Basics, Basics', LogsMove, TermsMove, CandidatesMove, VotesMove, TermsInv, TermsInv',
           TalkInv, NEW e, IsEntry(e), RequestsSpare(e), NEW q \in Node, Supports(q, e)
    PROVE  Supports(q, e)'
  <1>1. HasEntry(q, e) /\ currentTerm[q] >= e.term
    BY DEF Supports
  <1>2. HasEntry(q, e)'
    BY <1>1, EntryKept
  <1>3. currentTerm'[q] >= e.term
    BY <1>1 DEF IsEntry, TermsMove, Basics, RunsTyped
  <1>4. ASSUME NEW v \in votes', NEW n \in Node, v.voter = q, v.candidate = n, v.term > e.term,
               role'[n] = "CANDIDATE", currentTerm'[n] = v.term
        PROVE  checkLog(logLen'[n], LastTerm(n)', e.index, e.term)
    <2>1. SameLog(n) /\ RunsTyped /\ RunsTyped'
      BY <1>4 DEF LogsMove, Basics
    <2>2. logLen'[n] = logLen[n] /\ LastTerm(n)' = LastTerm(n)
      BY <2>1, SameLogRun DEF SameLog
    <2>3. CASE v \in votes
      <3>1. Vote(n, n, v.term) \in votes
        BY <1>4, <2>3 DEF TalkInv, VotesAreCampaigns
      <3>2. role[n] = "CANDIDATE" /\ currentTerm[n] = v.term
        BY <1>4, <3>1, OldCampaign
      <3> QED BY <1>4, <2>2, <2>3, <3>2 DEF Supports
    <2>4. CASE v.candidate = v.voter
      <3>1. /\ e.index \in Nat /\ e.index <= logLen'[n] /\ log'[n][e.index] = e
            /\ e.index # 0 /\ e.term \in Nat /\ logLen'[n] \in Nat
        BY <1>2, <1>4, <2>1, <2>4 DEF HasEntry, IsEntry, RunsTyped
      <3>2. TermAt(MemoryRun(n)', e.index) = e.term
        BY <2>1, <3>1 DEF RunsTyped, TermAt
      <3>3. /\ MemoryRun(n)' \in LogRuns' /\ e.index \in MemoryRun(n)'.from .. MemoryRun(n)'.to
            /\ logLen'[n] \in MemoryRun(n)'.from .. MemoryRun(n)'.to
        BY <2>1, <3>1 DEF RunsTyped
      <3>4. Rises(MemoryRun(n)')
        BY <3>3 DEF TermsInv, TermsRise, Rises, TermAt
      <3>5. e.term <= LastTerm(n)' /\ LastTerm(n)' \in Nat
        BY <2>1, <3>1, <3>2, <3>3, <3>4 DEF Rises, RunsTyped
      <3> QED BY <3>1, <3>5 DEF checkLog
    <2>5. CASE /\ SameLog(v.voter)
               /\ \E m \in net :
                    /\ m.type = "RequestVote" /\ m.from = v.candidate /\ m.term = v.term
                    /\ m.lastLogIndex \in Nat /\ m.lastLogTerm \in Nat
                    /\ checkLog(m.lastLogIndex, m.lastLogTerm, logLen[v.voter], LastTerm(v.voter))
      <3>1. PICK m \in net :
               /\ m.type = "RequestVote" /\ m.from = n /\ m.term = v.term
               /\ checkLog(m.lastLogIndex, m.lastLogTerm, logLen[q], LastTerm(q))
        BY <1>4, <2>5
      <3>2. Vote(n, n, v.term) \in votes
        BY <3>1 DEF Basics, RequestsAreCampaigns
      <3>3. role[n] = "CANDIDATE" /\ currentTerm[n] = v.term
        BY <1>4, <3>2, OldCampaign
      <3>4. m.lastLogIndex = logLen[n] /\ m.lastLogTerm = LastTerm(n)
        BY <3>1, <3>3 DEF TalkInv, RequestsShowLog
      <3>5. /\ e.index \in Nat /\ e.index <= logLen[q] /\ log[q][e.index] = e
            /\ e.index # 0 /\ e.term \in Nat /\ logLen[q] \in Nat
        BY <1>1, <2>1 DEF HasEntry, IsEntry, RunsTyped
      <3>6. TermAt(MemoryRun(q), e.index) = e.term
        BY <2>1, <3>5 DEF RunsTyped, TermAt
      <3>7. /\ MemoryRun(q) \in LogRuns /\ e.index \in MemoryRun(q).from .. MemoryRun(q).to
            /\ logLen[q] \in MemoryRun(q).from .. MemoryRun(q).to
        BY <2>1, <3>5 DEF RunsTyped
      <3>8. e.term <= LastTerm(q) /\ LastTerm(q) \in Nat
        BY <2>1, <3>5, <3>6, <3>7 DEF TermsInv, TermsRise, Rises, RunsTyped
      <3>9. checkLog(logLen[q], LastTerm(q), e.index, e.term)
        BY <3>5, <3>8 DEF checkLog
      <3>10. logLen[n] \in Nat /\ LastTerm(n) \in Nat
        BY <2>1 DEF RunsTyped
      <3>11. checkLog(logLen[n], LastTerm(n), logLen[q], LastTerm(q))
        BY <3>1, <3>4
      <3> QED BY <2>2, <3>5, <3>8, <3>9, <3>10, <3>11, UpToDateTransitive
    <2> QED BY <2>3, <2>4, <2>5 DEF VotesMove
  <1> QED BY <1>2, <1>3, <1>4 DEF Supports

\* Whoever wins has every safe entry that a majority supports, or might have acked.
LEMMA LeadersGain ==
    ASSUME Basics, Basics', LogsMove, TermsMove, LeadersMove, TermsInv,
           NEW e, IsEntry(e), Safe(e), NEW h \in Node, HasEntry(h, e),
           NEW Q \in Majority, \A q \in Q : Supports(q, e) \/ currentTerm[q] <= e.term
    PROVE  LeadersHave(e)'
  <1> SUFFICES ASSUME NEW n \in Node, role'[n] = "LEADER", currentTerm'[n] >= e.term
               PROVE  HasEntry(n, e)'
    BY DEF LeadersHave
  <1>1. SameLog(n) /\ RunsTyped /\ RunsTyped'
    BY DEF LogsMove, Basics
  <1>2. HasEntry(n, e) => HasEntry(n, e)'
    BY <1>1, SameLogRun DEF IsEntry
  <1>3. CASE Stays(n)
    BY <1>2, <1>3 DEF Stays, Safe, LeadersHave
  <1>4. CASE Takes(n) /\ Node = {n}
    BY <1>2, <1>4
  <1>5. CASE Takes(n) /\ role[n] = "CANDIDATE" /\ currentTerm'[n] = currentTerm[n] /\ votes' = votes
    <2>1. /\ e.index \in Nat /\ e.index <= logLen[h] /\ log[h][e.index] = e
          /\ e.index # 0 /\ e.term \in Nat /\ logLen[h] \in Nat
          /\ currentTerm[n] \in Nat /\ logLen[n] \in Nat /\ LastTerm(n) \in Nat
      BY <1>1 DEF HasEntry, IsEntry, RunsTyped
    <2>2. /\ TermAt(MemoryRun(h), e.index) = e.term /\ MemoryRun(h) \in LogRuns
          /\ e.index \in MemoryRun(h).from .. MemoryRun(h).to
      BY <1>1, <2>1 DEF RunsTyped, TermAt
    <2>3. e.term # currentTerm'[n]
      BY <1>5, <2>2, TakenIsNew DEF TermsInv, TermsWon
    <2>4. currentTerm[n] > e.term
      BY <1>5, <2>1, <2>3
    <2>5. PICK S \in Majority : \A p \in S : Vote(p, n, currentTerm[n]) \in votes
      BY <1>5 DEF Basics, LeadersWon, WinnersHaveMajority
    <2>6. PICK q \in Q : q \in S
      BY MajoritiesMeet
    <2>7. Vote(q, n, currentTerm[n]) \in votes /\ q \in Node
      BY <2>5, <2>6 DEF Majority
    <2>8. currentTerm[n] <= currentTerm[q] /\ currentTerm[q] \in Nat
      BY <1>1, <2>7 DEF Basics, VotesArePast, Vote, RunsTyped
    <2>9. Supports(q, e)
      BY <2>1, <2>4, <2>6, <2>8
    <2>10. checkLog(logLen[n], LastTerm(n), e.index, e.term)
      BY <1>5, <2>4, <2>7, <2>9 DEF Supports, Vote
    <2>11. /\ MemoryRun(n) \in LogRuns /\ logLen[n] \in MemoryRun(n).from .. MemoryRun(n).to
           /\ LastTerm(n) = TermAt(MemoryRun(n), logLen[n]) /\ MemoryRun(n).from = 0
           /\ MemoryRun(n).cells = log[n]
      BY <1>1, <2>1 DEF RunsTyped
    <2>12. e.index <= logLen[n] /\ log[n][e.index] = e
      BY <2>1, <2>10, <2>11 DEF Safe, Covers
    <2> QED BY <1>2, <2>12 DEF HasEntry
  <1> QED BY <1>3, <1>4, <1>5 DEF LeadersMove, Takes

\* An entry of the model is one.
LEMMA EntryType ==
    ASSUME NEW e \in Entry, e.index > 0
    PROVE  IsEntry(e)
  BY DEF IsEntry, Entry, Index, Term

\* Having acked holds the entry, and votes for no one in a later term.
LEMMA StoredSupports ==
    ASSUME Basics', NEW n \in Node, NEW q \in Node, NEW e, IsEntry(e), HasEntry(n, e)',
           e.term = currentTerm'[n], NEW a \in Nat, a >= e.index, Stored(n, q, a)
    PROVE  Supports(q, e)'
  <1>1. /\ e.index \in Nat /\ e.index > 0 /\ log'[n][e.index] = e /\ e.term \in Nat
        /\ currentTerm'[q] = e.term
    BY DEF IsEntry, HasEntry, Stored
  <1>2. HasEntry(q, e)'
    <2>1. e.index \in 1 .. a /\ a <= logLen'[q] /\ logLen'[q] \in Nat
      BY <1>1 DEF Stored, Basics, RunsTyped
    <2> QED BY <1>1, <2>1 DEF Stored, HasEntry
  <1>3. \A v \in votes' : v.voter = q => ~(v.term > e.term)
    <2>1. \A v \in votes' : v.term <= currentTerm'[v.voter] /\ v.term \in Nat
      BY DEF Basics, VotesArePast, RunsTyped
    <2> QED BY <1>1, <2>1
  <1> QED BY <1>1, <1>2, <1>3 DEF Supports

\* An entry a leader can still come to commit stays safe.
LEMMA OpenKept ==
    ASSUME Basics, Basics', Gradual, TermsInv, TermsInv', TalkInv, OpenIsSafe
    PROVE  OpenIsSafe'
  <1> SUFFICES ASSUME NEW n \in Node, NEW e \in Entry, NEW Q \in Majority,
                      role'[n] = "LEADER", e.index > 0, HasEntry(n, e)', e.term = currentTerm'[n],
                      \A q \in Q : Acked(n, q, e.index)' \/ currentTerm'[q] <= e.term
               PROVE  Safe(e)' /\ \A q \in Q : Acked(n, q, e.index)' => Supports(q, e)'
    BY DEF OpenIsSafe
  <1>1. IsEntry(e) /\ \A q \in Q : q \in Node
    BY EntryType DEF Majority
  <1>2. SameLog(n) /\ RunsTyped /\ RunsTyped'
    BY DEF LogsMove, Basics, Gradual
  <1>3. HasEntry(n, e)
    BY <1>1, <1>2, SameLogRun DEF IsEntry
  <1>4. Stays(n)
    <2>1. /\ e.index \in Nat /\ e.index <= logLen[n] /\ log[n][e.index] = e /\ e.index # 0
      BY <1>1, <1>3 DEF HasEntry, IsEntry
    <2>2. /\ TermAt(MemoryRun(n), e.index) = e.term /\ MemoryRun(n) \in LogRuns
          /\ e.index \in MemoryRun(n).from .. MemoryRun(n).to
      BY <1>2, <2>1 DEF RunsTyped, TermAt
    <2>3. ~Takes(n)
      BY <2>2, TakenIsNew DEF TermsInv, TermsWon, Gradual
    <2> QED BY <2>3 DEF Gradual, LeadersMove
  <1>5. /\ role[n] = "LEADER" /\ e.term = currentTerm[n]
        /\ \A q \in Node : /\ currentTerm[q] <= currentTerm'[q]
                           /\ currentTerm[q] \in Nat /\ currentTerm'[q] \in Nat
    BY <1>2, <1>4 DEF Stays, Gradual, TermsMove, RunsTyped
  <1>6. ASSUME NEW q \in Node, Acked(n, q, e.index)'
        PROVE  Acked(n, q, e.index) \/ \E a \in Nat : a >= e.index /\ Stored(n, q, a)
    <2>1. CASE q = n
      BY <2>1 DEF Acked
    <2>2. CASE q # n
      <3>1. PICK a \in Acks(n, q)' : a >= e.index
        BY <1>6, <2>2 DEF Acked
      <3>2. a \in Nat /\ a > 0 /\ (a \in Acks(n, q) \/ Stored(n, q, a))
        BY <1>1, <1>2, <1>4, <2>2, <3>1 DEF Gradual, AcksMove, IsEntry, RunsTyped
      <3> QED BY <3>1, <3>2 DEF Acked
    <2> QED BY <2>1, <2>2
  <1>7. \A q \in Q : Acked(n, q, e.index) \/ currentTerm[q] <= e.term
    <2> TAKE q \in Q
    <2>1. CASE currentTerm'[q] <= e.term
      BY <1>1, <1>5, <2>1 DEF IsEntry
    <2>2. CASE Acked(n, q, e.index)'
      BY <1>1, <1>5, <1>6, <2>2 DEF Stored, Stays
    <2> QED BY <2>1, <2>2
  <1>8. Safe(e) /\ \A q \in Q : Acked(n, q, e.index) => Supports(q, e)
    BY <1>3, <1>5, <1>7 DEF OpenIsSafe
  <1>9. LeadersHave(e)'
    BY <1>1, <1>3, <1>7, <1>8, LeadersGain DEF Gradual
  <1>10. Safe(e)'
    BY <1>1, <1>3, <1>5, <1>8, <1>9, SafeKept DEF Gradual, IsEntry
  <1>11. ASSUME NEW q \in Q, Acked(n, q, e.index)' PROVE Supports(q, e)'
    <2>1. CASE Acked(n, q, e.index)
      <3>1. Supports(q, e) /\ RequestsSpare(e)
        BY <1>8, <2>1 DEF Safe
      <3> QED BY <1>1, <3>1, SupportsKept DEF Gradual
    <2>2. CASE \E a \in Nat : a >= e.index /\ Stored(n, q, a)
      BY <1>1, <2>2, StoredSupports
    <2> QED BY <1>1, <1>6, <1>11, <2>1, <2>2
  <1> QED BY <1>10, <1>11

\* A majority has a member.
LEMMA MajorityHasOne ==
    ASSUME NEW Q \in Majority
    PROVE  \E q \in Q : q \in Node
  BY MajoritiesMeet DEF Majority

\* A counted entry stays counted.
LEMMA CountedKept ==
    ASSUME Basics, Basics', Gradual, TermsInv, TermsInv', TalkInv, NEW e, IsEntry(e), Counted(e)
    PROVE  Counted(e)'
  <1>1. PICK Q \in Majority : \A q \in Q : Supports(q, e)
    BY DEF Counted
  <1>2. PICK h \in Q : h \in Node
    BY MajorityHasOne
  <1>3. HasEntry(h, e) /\ currentTerm[h] >= e.term
    BY <1>1 DEF Supports
  <1>4. Safe(e) /\ RequestsSpare(e)
    BY DEF Counted, Safe
  <1>5. LeadersHave(e)'
    BY <1>1, <1>2, <1>3, <1>4, LeadersGain DEF Gradual
  <1>6. Safe(e)'
    BY <1>2, <1>3, <1>4, <1>5, SafeKept DEF Gradual
  <1>7. \A q \in Q : Supports(q, e)'
    <2>1. \A q \in Q : q \in Node
      BY DEF Majority
    <2> QED BY <1>1, <1>4, <2>1, SupportsKept DEF Gradual
  <1> QED BY <1>6, <1>7 DEF Counted

\* Logs that have d agree on what comes before it.
LEMMA BelowShared ==
    ASSUME Basics', NEW h \in Node, NEW d, IsEntry(d), HasEntry(h, d)',
           NEW c, c.index \in 1 .. d.index, HasEntry(h, c)'
    PROVE  \A n \in Node : HasEntry(n, d)' => HasEntry(n, c)'
  <1> SUFFICES ASSUME NEW n \in Node, HasEntry(n, d)' PROVE HasEntry(n, c)'
    OBVIOUS
  <1>1. /\ d.index \in Nat \ {0} /\ d.index <= logLen'[n] /\ d.index <= logLen'[h]
        /\ log'[n][d.index].term = log'[h][d.index].term
    BY DEF HasEntry, IsEntry
  <1>2. HoldersAgree' /\ logLen'[n] \in Nat
    BY DEF Basics, RunsTyped
  <1>3. c.index \in 0 .. d.index /\ c.index > 0 /\ c.index <= logLen'[n]
    BY <1>1, <1>2
  <1>4. log'[n][c.index] = log'[h][c.index]
    BY <1>1, <1>2, <1>3 DEF HoldersAgree
  <1> QED BY <1>3, <1>4 DEF HasEntry

\* What a leader commits was open, and is counted.
LEMMA NewlyCommitted ==
    ASSUME Basics', CommitsMove, OpenIsSafe', NEW c \in committed', c \notin committed
    PROVE  \E d \in committed' :
             /\ d.at = c.at /\ d.entry.term = c.at
             /\ c.entry.index \in 1 .. d.entry.index
             /\ \A n \in Node : HasEntry(n, d.entry)' => HasEntry(n, c.entry)'
             /\ Counted(d.entry)'
  <1>1. PICK n \in Node, e \in Entry :
          /\ role'[n] = "LEADER" /\ e.index > 0 /\ HasEntry(n, e)' /\ e.term = currentTerm'[n]
          /\ c.at = e.term /\ c.entry.index \in 1 .. e.index /\ HasEntry(n, c.entry)'
          /\ [entry |-> e, at |-> e.term] \in committed'
          /\ \E Q \in Majority : \A q \in Q : Acked(n, q, e.index)'
    BY DEF CommitsMove
  <1>2. IsEntry(e)
    BY <1>1, EntryType
  <1>3. PICK Q \in Majority : \A q \in Q : Acked(n, q, e.index)'
    BY <1>1
  <1>4. Safe(e)' /\ \A q \in Q : Supports(q, e)'
    BY <1>1, <1>3 DEF OpenIsSafe
  <1>5. Counted(e)'
    BY <1>4 DEF Counted
  <1>6. \A p \in Node : HasEntry(p, e)' => HasEntry(p, c.entry)'
    BY <1>1, <1>2, BelowShared
  <1> DEFINE d == [entry |-> e, at |-> e.term]
  <1>7. d \in committed' /\ d.entry = e /\ d.at = e.term
    BY <1>1
  <1> QED BY <1>1, <1>5, <1>6, <1>7

\* What was committed stays safe, and what is committed is.
LEMMA CommittedKept ==
    ASSUME Basics, Basics', Gradual, TermsInv, TermsInv', TalkInv, OpenIsSafe', CommittedIsSafe
    PROVE  CommittedIsSafe'
  <1> SUFFICES ASSUME NEW c \in committed'
               PROVE  \E d \in committed' :
                        /\ d.at = c.at /\ d.entry.term = c.at
                        /\ c.entry.index \in 1 .. d.entry.index
                        /\ \A n \in Node : HasEntry(n, d.entry)' => HasEntry(n, c.entry)'
                        /\ Counted(d.entry)'
    BY DEF CommittedIsSafe
  <1>1. CASE c \in committed
    <2>1. PICK d \in committed :
             /\ d.at = c.at /\ d.entry.term = c.at
             /\ c.entry.index \in 1 .. d.entry.index
             /\ \A n \in Node : HasEntry(n, d.entry) => HasEntry(n, c.entry)
             /\ Counted(d.entry)
      BY <1>1 DEF CommittedIsSafe
    <2>2. d \in committed' /\ d.entry \in Entry
      BY DEF Gradual, Basics, RunsTyped
    <2>3. IsEntry(d.entry)
      <3>1. d.entry.index \in Nat
        BY <2>2 DEF Entry, Index
      <3> QED BY <2>1, <2>2, <3>1, EntryType
    <2>4. Counted(d.entry)'
      <3> DEFINE e == d.entry
      <3>1. IsEntry(e) /\ Counted(e)
        BY <2>1, <2>3
      <3> HIDE DEF e
      <3>2. Counted(e)'
        BY <3>1, CountedKept
      <3> QED BY <3>2 DEF e
    <2>5. PICK Q \in Majority : \A q \in Q : Supports(q, d.entry)
      BY <2>1 DEF Counted
    <2>6. PICK h \in Q : h \in Node
      BY MajorityHasOne
    <2>7. /\ HasEntry(h, d.entry) /\ currentTerm[h] >= d.entry.term /\ RequestsSpare(d.entry)
          /\ HasEntry(h, c.entry)
      BY <2>1, <2>5, <2>6 DEF Supports, Counted, Safe
    <2>8. HasEntry(h, d.entry)' /\ \A i \in 1 .. d.entry.index : log'[h][i] = log[h][i]
      BY <2>3, <2>6, <2>7, EntryKept DEF Gradual
    <2>9. HasEntry(h, c.entry)'
      <3>1. /\ d.entry.index <= logLen'[h] /\ logLen'[h] \in Nat /\ d.entry.index \in Nat
        BY <2>3, <2>6, <2>8 DEF HasEntry, Basics, RunsTyped, IsEntry
      <3> QED BY <2>1, <2>7, <2>8, <3>1 DEF HasEntry
    <2>10. \A n \in Node : HasEntry(n, d.entry)' => HasEntry(n, c.entry)'
      BY <2>1, <2>3, <2>6, <2>8, <2>9, BelowShared
    <2> QED BY <2>1, <2>2, <2>4, <2>10
  <1>2. CASE c \notin committed
    BY <1>2, NewlyCommitted DEF Gradual
  <1> QED BY <1>1, <1>2

\* A step that adds no entry keeps CommitInv.
LEMMA GradualKeeps ==
    ASSUME Basics, Basics', Gradual, Undamaged', CommitInv
    PROVE  CommitInv'
  <1>1. TermsInv'
    BY TermsInvKept DEF Gradual, CommitInv
  <1>2. TalkInv'
    BY TalkInvKept DEF CommitInv
  <1>3. OpenIsSafe'
    BY <1>1, OpenKept DEF CommitInv
  <1>4. CommittedIsSafe'
    BY <1>1, <1>3, CommittedKept DEF CommitInv
  <1> QED BY <1>1, <1>2, <1>3, <1>4 DEF CommitInv

-----------------------------------------------------------------------------
(* raft_leader_send_command *)

\* The leader n adds the entry e to its log.
Grows(n, e) ==
    /\ role[n] = "LEADER" /\ IsEntry(e) /\ e.index = logLen[n] + 1 /\ e.term = currentTerm[n]
    /\ HasEntry(n, e)' /\ logLen'[n] = e.index
    /\ \A i \in 1 .. logLen[n] : log'[n][i] = log[n][i]
    /\ \A p \in Node : p # n => log'[p] = log[p] /\ logLen'[p] = logLen[p]
    /\ UNCHANGED <<role, currentTerm, net, votes, elected, nextIndex, matchIndex>>

\* Every log is kept; the only run that is new is the leader's.
LEMMA GrownRuns ==
    ASSUME Basics, Basics', NEW n \in Node, NEW e, Grows(n, e)
    PROVE  /\ \A p \in Node : /\ logLen[p] <= logLen'[p]
                              /\ \A i \in 1 .. logLen[p] : log'[p][i] = log[p][i]
                              /\ \A i \in 0 .. logLen[p] : TermAt(MemoryRun(p)', i) = TermAt(MemoryRun(p), i)
                              /\ \A f : IsEntry(f) /\ HasEntry(p, f) => HasEntry(p, f)'
           /\ \A p \in Node : p # n => LastTerm(p)' = LastTerm(p) /\ MemoryRun(p)' = MemoryRun(p)
           /\ \A f : IsEntry(f) /\ HasEntry(n, f)' => HasEntry(n, f) \/ f = e
           /\ TermAt(MemoryRun(n)', e.index) = e.term /\ MemoryRun(n)'.cells[e.index] = e
           /\ Requests' = Requests
           /\ \A r \in LogRuns' : r \in LogRuns \/ r = MemoryRun(n)'
  <1>1. \A p \in Node : /\ MemoryRun(p)'.from = 0 /\ MemoryRun(p)'.to = logLen'[p]
                        /\ MemoryRun(p)'.base = 0 /\ MemoryRun(p)'.cells = log'[p]
                        /\ MemoryRun(p).from = 0 /\ MemoryRun(p).to = logLen[p]
                        /\ MemoryRun(p).base = 0 /\ MemoryRun(p).cells = log[p]
                        /\ logLen[p] \in Nat /\ logLen'[p] \in Nat
    BY DEF Basics, RunsTyped
  <1>2. ASSUME NEW p \in Node
        PROVE  /\ logLen[p] <= logLen'[p]
               /\ \A i \in 1 .. logLen[p] : log'[p][i] = log[p][i]
    BY <1>1 DEF Grows
  <1>3. ASSUME NEW p \in Node, NEW i \in 0 .. logLen[p]
        PROVE  TermAt(MemoryRun(p)', i) = TermAt(MemoryRun(p), i)
    <2>1. i = 0 \/ i \in 1 .. logLen[p]
      BY <1>1
    <2> QED BY <1>1, <1>2, <2>1 DEF TermAt
  <1>4. ASSUME NEW p \in Node, NEW f, IsEntry(f), HasEntry(p, f) PROVE HasEntry(p, f)'
    BY <1>1, <1>2, <1>4 DEF HasEntry, IsEntry
  <1>5. ASSUME NEW p \in Node, p # n
        PROVE  LastTerm(p)' = LastTerm(p) /\ MemoryRun(p)' = MemoryRun(p)
    BY <1>5 DEF Grows, LastTerm, MemoryRun
  <1>6. ASSUME NEW f, IsEntry(f), HasEntry(n, f)' PROVE HasEntry(n, f) \/ f = e
    <2>1. f.index \in Nat \ {0} /\ f.index <= logLen[n] + 1 /\ log'[n][f.index] = f
      BY <1>6 DEF HasEntry, IsEntry, Grows
    <2>2. CASE f.index <= logLen[n]
      BY <1>1, <1>2, <2>1, <2>2 DEF HasEntry
    <2>3. CASE f.index = logLen[n] + 1
      BY <2>1, <2>3 DEF HasEntry, Grows
    <2> QED BY <1>1, <2>1, <2>2, <2>3
  <1>7. e.index # 0 /\ log'[n][e.index] = e
    BY DEF Grows, IsEntry, HasEntry
  <1>8. TermAt(MemoryRun(n)', e.index) = e.term /\ MemoryRun(n)'.cells[e.index] = e
    BY <1>1, <1>7 DEF TermAt
  <1>9. Requests' = Requests
    BY DEF Requests, Grows
  <1>10. \A r \in LogRuns' : r \in LogRuns \/ r = MemoryRun(n)'
    <2> TAKE r \in LogRuns'
    <2>1. (\E p \in Node : r = MemoryRun(p)') \/ (\E m \in Requests' : r = MessageRun(m))
      BY DEF LogRuns, MessageRun
    <2> QED BY <1>5, <1>9, <2>1 DEF LogRuns
  <1> QED BY <1>2, <1>3, <1>4, <1>5, <1>6, <1>8, <1>9, <1>10

\* What is said of the terms is kept.
LEMMA GrownTerms ==
    ASSUME Basics, Basics', NEW n \in Node, NEW e, Grows(n, e), TermsInv
    PROVE  TermsInv'
  <1>1. /\ MemoryRun(n) \in LogRuns /\ HasTerms(MemoryRun(n))
        /\ MemoryRun(n).from = 0 /\ MemoryRun(n).to = logLen[n]
        /\ MemoryRun(n)'.from = 0 /\ MemoryRun(n)'.to = logLen[n] + 1
        /\ e.index = logLen[n] + 1 /\ e.term = currentTerm[n] /\ e.term \in Nat
        /\ logLen[n] \in Nat /\ role[n] = "LEADER" /\ logLen'[n] = logLen[n] + 1
    BY DEF Basics, RunsTyped, Grows, IsEntry
  <1>2. ASSUME NEW i \in 0 .. logLen[n] + 1
        PROVE  \/ /\ i \in 0 .. logLen[n] /\ TermAt(MemoryRun(n)', i) = TermAt(MemoryRun(n), i)
                  /\ TermAt(MemoryRun(n), i) \in Nat /\ TermAt(MemoryRun(n), i) <= e.term
               \/ i = e.index /\ TermAt(MemoryRun(n)', i) = e.term
    <2>1. CASE i \in 0 .. logLen[n]
      <3>1. TermAt(MemoryRun(n), i) \in Nat /\ TermAt(MemoryRun(n), i) <= e.term
        BY <1>1, <2>1 DEF HasTerms, TermsInv, TermsPast
      <3> QED BY <2>1, <3>1, GrownRuns
    <2>2. CASE i = logLen[n] + 1
      BY <1>1, <2>2, GrownRuns
    <2> QED BY <1>1, <2>1, <2>2
  <1>3. TermsRise'
    <2> SUFFICES ASSUME NEW r \in LogRuns' PROVE Rises(r)
      BY DEF TermsRise, Rises, TermAt
    <2>1. CASE r \in LogRuns
      BY <2>1 DEF TermsInv, TermsRise
    <2>2. CASE r = MemoryRun(n)'
      <3> SUFFICES ASSUME NEW i \in 0 .. logLen[n] + 1, NEW j \in 0 .. logLen[n] + 1, i <= j
                   PROVE  TermAt(MemoryRun(n)', i) <= TermAt(MemoryRun(n)', j)
        BY <1>1, <2>2 DEF Rises
      <3>1. Rises(MemoryRun(n))
        BY <1>1 DEF TermsInv, TermsRise
      <3>2. CASE j \in 0 .. logLen[n]
        <4>1. i \in 0 .. logLen[n] /\ j # e.index /\ i # e.index
          BY <1>1, <3>2
        <4>2. TermAt(MemoryRun(n), i) <= TermAt(MemoryRun(n), j)
          BY <1>1, <3>1, <3>2, <4>1 DEF Rises
        <4> QED BY <1>2, <4>1, <4>2
      <3>3. CASE j = e.index
        <4>1. TermAt(MemoryRun(n)', j) = e.term
          BY <3>3, GrownRuns
        <4> QED BY <1>1, <1>2, <4>1
      <3> QED BY <1>2, <3>2, <3>3
    <2> QED BY <2>1, <2>2, GrownRuns
  <1>4. TermsWon'
    <2> SUFFICES ASSUME NEW r \in LogRuns', NEW i \in r.from .. r.to
                 PROVE  TermAt(r, i) = 0 \/ \E w \in elected : w.term = TermAt(r, i)
      BY DEF TermsWon, TermAt, Grows
    <2>1. CASE r \in LogRuns
      BY <2>1 DEF TermsInv, TermsWon
    <2>2. CASE r = MemoryRun(n)'
      <3>1. i \in 0 .. logLen[n] + 1
        BY <1>1, <2>2
      <3>2. \E w \in elected : w.term = e.term
        BY <1>1 DEF Basics, LeadersWon
      <3>3. \A j \in 0 .. logLen[n] : \/ TermAt(MemoryRun(n), j) = 0
                                      \/ \E w \in elected : w.term = TermAt(MemoryRun(n), j)
        BY <1>1 DEF TermsInv, TermsWon
      <3> QED BY <1>2, <2>2, <3>1, <3>2, <3>3
    <2> QED BY <2>1, <2>2, GrownRuns
  <1>5. TermsPast'
    <2>1. ASSUME NEW p \in Node, NEW i \in 0 .. logLen'[p]
          PROVE  TermAt(MemoryRun(p)', i) <= currentTerm'[p]
      <3>1. CASE p = n
        BY <1>1, <1>2, <3>1 DEF Grows
      <3>2. CASE p # n
        <4>1. i \in 0 .. logLen[p] /\ currentTerm'[p] = currentTerm[p]
          BY <3>2 DEF Grows
        <4> QED BY <4>1, GrownRuns DEF TermsInv, TermsPast
      <3> QED BY <3>1, <3>2
    <2>2. \A m \in Requests' : \A i \in MessageRun(m).from .. MessageRun(m).to :
             TermAt(MessageRun(m), i) <= m.term
      BY GrownRuns DEF TermsInv, TermsPast
    <2> QED BY <2>1, <2>2 DEF TermsPast, MessageRun, TermAt
  <1>6. LeaderIsAhead'
    <2> SUFFICES ASSUME NEW l \in Node, role[l] = "LEADER", NEW r \in LogRuns',
                        NEW i \in r.from .. r.to, TermAt(r, i) = currentTerm[l]
                 PROVE  i <= logLen'[l]
      BY DEF LeaderIsAhead, TermAt, Grows
    <2>1. ASSUME NEW s \in LogRuns, NEW j \in s.from .. s.to, TermAt(s, j) = currentTerm[l]
          PROVE  j <= logLen'[l]
      <3>1. j <= logLen[l]
        BY <2>1 DEF TermsInv, LeaderIsAhead
      <3>2. /\ s.from \in Nat /\ s.to \in Nat /\ logLen[l] <= logLen'[l]
            /\ logLen[l] \in Nat /\ logLen'[l] \in Nat
        BY GrownRuns DEF Basics, RunsTyped, HasTerms, IsRun
      <3> QED BY <3>1, <3>2
    <2>2. CASE r \in LogRuns
      BY <2>1, <2>2
    <2>3. CASE r = MemoryRun(n)'
      <3>1. i \in 0 .. logLen[n] + 1
        BY <1>1, <2>3
      <3>2. CASE i \in 0 .. logLen[n] /\ TermAt(MemoryRun(n)', i) = TermAt(MemoryRun(n), i)
        BY <1>1, <2>1, <2>3, <3>2
      <3>3. CASE i = e.index /\ TermAt(MemoryRun(n)', i) = e.term
        <4>1. currentTerm[l] = currentTerm[n]
          BY <1>1, <2>3, <3>3
        <4>2. l = n
          BY <1>1, <4>1 DEF Basics, LeadersWon, ElectionSafety
        <4> QED BY <1>1, <3>3, <4>2
      <3> QED BY <1>2, <3>1, <3>2, <3>3
    <2> QED BY <2>2, <2>3, GrownRuns
  <1> QED BY <1>3, <1>4, <1>5, <1>6 DEF TermsInv

\* What is said of requests and responses is kept.
LEMMA GrownTalk ==
    ASSUME Basics, Basics', NEW n \in Node, NEW e, Grows(n, e), TalkInv
    PROVE  TalkInv'
  <1>1. VotesAreCampaigns' /\ SuccessIsWon'
    BY DEF TalkInv, VotesAreCampaigns, SuccessIsWon, Grows, Vote
  <1>2. RequestsShowLog'
    <2> SUFFICES ASSUME NEW m \in net, NEW p \in Node, m.type = "RequestVote", m.from = p,
                        role[p] = "CANDIDATE", currentTerm[p] = m.term
                 PROVE  m.lastLogIndex = logLen'[p] /\ m.lastLogTerm = LastTerm(p)'
      BY DEF RequestsShowLog, Grows
    <2>1. p # n
      BY DEF Grows
    <2>2. logLen'[p] = logLen[p] /\ LastTerm(p)' = LastTerm(p)
      BY <2>1, GrownRuns DEF Grows
    <2> QED BY <2>2 DEF TalkInv, RequestsShowLog
  <1>3. LeaderSpeaks'
    <2>1. ASSUME NEW l \in Node, role[l] = "LEADER", NEW m \in Requests, m.from = l,
                 m.term = currentTerm[l]
          PROVE  PartOf(MessageRun(m), MemoryRun(l)')
      <3>1. PartOf(MessageRun(m), MemoryRun(l))
        BY <2>1 DEF TalkInv, LeaderSpeaks
      <3>2. /\ MemoryRun(l)'.from = 0 /\ MemoryRun(l)'.to = logLen'[l]
            /\ MemoryRun(l)'.cells = log'[l]
            /\ MemoryRun(l).from = 0 /\ MemoryRun(l).to = logLen[l]
            /\ MemoryRun(l).cells = log[l] /\ logLen[l] \in Nat /\ logLen'[l] \in Nat
            /\ HasTerms(MessageRun(m))
        BY DEF Basics, RunsTyped
      <3>3. /\ MessageRun(m).from \in 0 .. logLen[l] /\ MessageRun(m).to <= logLen[l]
            /\ MessageRun(m).to \in Nat
        BY <3>1, <3>2 DEF PartOf, HasTerms, IsRun
      <3>4. \A k \in MessageRun(m).from + 1 .. MessageRun(m).to : k \in 1 .. logLen[l]
        BY <3>2, <3>3
      <3>5. /\ logLen[l] <= logLen'[l] /\ \A i \in 1 .. logLen[l] : log'[l][i] = log[l][i]
            /\ TermAt(MemoryRun(l)', MessageRun(m).from) = TermAt(MemoryRun(l), MessageRun(m).from)
        BY <3>3, GrownRuns
      <3>6. MessageRun(m).to <= logLen'[l]
        BY <3>2, <3>3, <3>5
      <3> QED BY <3>1, <3>2, <3>4, <3>5, <3>6 DEF PartOf
    <2>2. \A l, p \in Node : role[l] = "LEADER" => nextIndex[l][p] <= logLen'[l] + 1
      <3> SUFFICES ASSUME NEW l \in Node, NEW p \in Node, role[l] = "LEADER"
                   PROVE  nextIndex[l][p] <= logLen'[l] + 1
        OBVIOUS
      <3>1. nextIndex[l][p] <= logLen[l] + 1
        BY DEF TalkInv, LeaderSpeaks
      <3>2. CASE l # n
        BY <3>1, <3>2 DEF Grows
      <3>3. CASE l = n
        <4>1. nextIndex[l][p] \in Nat /\ logLen[l] \in Nat /\ logLen'[l] = logLen[l] + 1
          BY <3>3 DEF Grows, Basics, RunsTyped
        <4> QED BY <3>1, <4>1
      <3> QED BY <3>2, <3>3
    <2>3. /\ Requests' = Requests /\ role' = role /\ currentTerm' = currentTerm
          /\ nextIndex' = nextIndex
      BY GrownRuns DEF Grows
    <2>4. ASSUME NEW l \in Node, role'[l] = "LEADER", NEW m \in Requests', m.from = l,
                 m.term = currentTerm'[l]
          PROVE  PartOf(MessageRun(m), MemoryRun(l)')
      BY <2>1, <2>3, <2>4
    <2>5. \A l, p \in Node : role'[l] = "LEADER" => nextIndex'[l][p] <= logLen'[l] + 1
      BY <2>2, <2>3
    <2> QED BY <2>4, <2>5 DEF LeaderSpeaks, PartOf, MessageRun, TermAt
  <1>4. AcksHold'
    <2> SUFFICES ASSUME NEW l \in Node, NEW q \in Node, role[l] = "LEADER", l # q,
                        NEW a \in Acks(l, q), a > 0
                 PROVE  /\ a <= logLen'[l]
                        /\ currentTerm[q] >= currentTerm[l]
                        /\ currentTerm[q] = currentTerm[l]
                             => a <= logLen'[q] /\ \A i \in 1 .. a : log'[q][i] = log'[l][i]
      BY DEF AcksHold, Acks, Grows
    <2>1. /\ a <= logLen[l]
          /\ currentTerm[q] >= currentTerm[l]
          /\ currentTerm[q] = currentTerm[l]
               => a <= logLen[q] /\ \A i \in 1 .. a : log[q][i] = log[l][i]
      BY DEF TalkInv, AcksHold
    <2>2. /\ logLen[l] \in Nat /\ logLen'[l] \in Nat /\ logLen[q] \in Nat /\ logLen'[q] \in Nat
          /\ a \in Nat
      BY DEF Basics, RunsTyped
    <2>3. /\ logLen[l] <= logLen'[l] /\ \A i \in 1 .. logLen[l] : log'[l][i] = log[l][i]
          /\ logLen[q] <= logLen'[q] /\ \A i \in 1 .. logLen[q] : log'[q][i] = log[q][i]
      BY GrownRuns
    <2>4. a <= logLen'[l]
      BY <2>1, <2>2, <2>3
    <2>5. ASSUME currentTerm[q] = currentTerm[l]
          PROVE  a <= logLen'[q] /\ \A i \in 1 .. a : log'[q][i] = log'[l][i]
      BY <2>1, <2>2, <2>3, <2>5
    <2> QED BY <2>1, <2>4, <2>5
  <1> QED BY <1>1, <1>2, <1>3, <1>4 DEF TalkInv

\* A safe entry stays safe, and those who support it go on doing so.
LEMMA GrownSafe ==
    ASSUME Basics, Basics', NEW n \in Node, NEW e, Grows(n, e), NEW f, IsEntry(f), Safe(f)
    PROVE  /\ Safe(f)' /\ \A p \in Node : HasEntry(p, f)' <=> HasEntry(p, f)
           /\ \A q \in Node : Supports(q, f) => Supports(q, f)'
  <1>0. f.index \in Nat /\ f.index > 0 /\ f.term \in Nat
    BY DEF IsEntry
  <1>1. \A p \in Node : HasEntry(p, f)' <=> HasEntry(p, f)
    <2>1. \A p \in Node : HasEntry(p, f) => HasEntry(p, f)'
      BY GrownRuns
    <2>2. \A p \in Node \ {n} : HasEntry(p, f)' => HasEntry(p, f)
      BY DEF HasEntry, Grows
    <2>3. f # e
      <3> SUFFICES ASSUME f = e PROVE FALSE
        OBVIOUS
      <3>1. HasEntry(n, e)
        BY <1>0 DEF Safe, LeadersHave, Grows
      <3> QED BY <3>1 DEF HasEntry, Grows, Basics, RunsTyped
    <2>4. HasEntry(n, f)' => HasEntry(n, f)
      BY <2>3, GrownRuns
    <2> QED BY <2>1, <2>2, <2>4
  <1>2. ASSUME NEW r \in LogRuns' PROVE Covers(r, f)
    <2>1. CASE r \in LogRuns
      BY <2>1 DEF Safe
    <2>2. CASE r = MemoryRun(n)'
      <3>1. /\ MemoryRun(n) \in LogRuns
            /\ MemoryRun(n).from = 0 /\ MemoryRun(n).to = logLen[n] /\ MemoryRun(n).cells = log[n]
            /\ MemoryRun(n)'.from = 0 /\ MemoryRun(n)'.to = logLen[n] + 1
            /\ MemoryRun(n)'.cells = log'[n] /\ logLen[n] \in Nat
            /\ e.index = logLen[n] + 1 /\ e.term = currentTerm[n] /\ e.term \in Nat
        BY DEF Basics, RunsTyped, Grows, IsEntry
      <3> SUFFICES ASSUME NEW i \in 0 .. logLen[n] + 1,
                          checkLog(i, TermAt(MemoryRun(n)', i), f.index, f.term)
                   PROVE  f.index <= i /\ log'[n][f.index] = f
        BY <1>0, <2>2, <3>1 DEF Covers
      <3>2. CASE i \in 0 .. logLen[n]
        <4>1. checkLog(i, TermAt(MemoryRun(n), i), f.index, f.term)
          BY <3>2, GrownRuns
        <4>2. f.index <= i /\ log[n][f.index] = f
          BY <1>0, <3>1, <3>2, <4>1 DEF Safe, Covers
        <4>3. f.index \in 1 .. logLen[n]
          BY <1>0, <3>1, <3>2, <4>2
        <4> QED BY <4>2, <4>3, GrownRuns
      <3>3. CASE i = e.index
        <4>1. TermAt(MemoryRun(n)', i) = e.term
          BY <3>3, GrownRuns
        <4>2. e.term >= f.term
          BY <1>0, <3>1, <4>1 DEF checkLog
        <4>3. HasEntry(n, f)
          BY <3>1, <4>2 DEF Safe, LeadersHave, Grows
        <4>4. f.index \in 1 .. logLen[n] /\ log[n][f.index] = f
          BY <1>0, <3>1, <4>3 DEF HasEntry
        <4>5. log'[n][f.index] = f
          BY <4>4, GrownRuns
        <4> QED BY <1>0, <3>1, <3>3, <4>4, <4>5
      <3> QED BY <3>1, <3>2, <3>3
    <2> QED BY <2>1, <2>2, GrownRuns
  <1>3. ASSUME NEW m \in Requests', NEW p \in Node, m.term >= f.term, HasEntry(p, f)',
               NEW i \in m.prevLogIndex .. m.prevLogIndex + Len(m.entries), i <= f.index
        PROVE  TermAt(MessageRun(m), i) = TermAt(MemoryRun(p)', i)
    <2>1. m \in Requests /\ HasEntry(p, f)
      BY <1>1, <1>3, GrownRuns
    <2>2. TermAt(MessageRun(m), i) = TermAt(MemoryRun(p), i)
      BY <1>3, <2>1 DEF Safe, RequestsSpare
    <2>3. m.prevLogIndex \in Nat /\ f.index <= logLen[p] /\ logLen[p] \in Nat
      BY <2>1 DEF Basics, RunsTyped, AppendEntries, Index, HasEntry
    <2>4. i \in 0 .. logLen[p]
      BY <1>0, <1>3, <2>3
    <2> QED BY <2>2, <2>4, GrownRuns
  <1>4. RequestsSpare(f)'
    BY <1>3 DEF RequestsSpare, MessageRun, TermAt
  <1>5. LeadersHave(f)'
    BY <1>1 DEF Safe, LeadersHave, Grows
  <1>6. \A r \in LogRuns' : Covers(r, f)'
    BY <1>2 DEF Covers, TermAt
  <1>7. ASSUME NEW q \in Node, Supports(q, f) PROVE Supports(q, f)'
    <2>1. HasEntry(q, f)' /\ currentTerm'[q] >= f.term
      BY <1>1, <1>7 DEF Supports, Grows
    <2>2. ASSUME NEW v \in votes', NEW p \in Node, v.voter = q, v.candidate = p,
                 v.term > f.term, role'[p] = "CANDIDATE", currentTerm'[p] = v.term
          PROVE  checkLog(logLen'[p], LastTerm(p)', f.index, f.term)
      <3>1. p # n /\ v \in votes /\ role[p] = "CANDIDATE" /\ currentTerm[p] = v.term
        BY <2>2 DEF Grows
      <3>2. logLen'[p] = logLen[p] /\ LastTerm(p)' = LastTerm(p)
        BY <3>1, GrownRuns DEF Grows
      <3> QED BY <1>7, <2>2, <3>1, <3>2 DEF Supports
    <2> QED BY <2>1, <2>2 DEF Supports
  <1> QED BY <1>1, <1>4, <1>5, <1>6, <1>7 DEF Safe

\* The new entry is safe while a majority has heard of no later term.
LEMMA FreshIsSafe ==
    ASSUME Basics, Basics', NEW n \in Node, NEW e, Grows(n, e), TermsInv, TalkInv,
           NEW Q \in Majority, \A q \in Q : currentTerm[q] <= e.term
    PROVE  Safe(e)' /\ Supports(n, e)'
  <1>0. /\ e.index = logLen[n] + 1 /\ e.term = currentTerm[n] /\ e.term \in Nat /\ IsEntry(e)
        /\ logLen[n] \in Nat /\ role[n] = "LEADER" /\ HasEntry(n, e)' /\ e.index > 0
        /\ \A p \in Node : currentTerm[p] \in Nat
    BY DEF Grows, IsEntry, Basics, RunsTyped
  <1>1. \A w \in elected : w.term <= e.term
    <2> TAKE w \in elected
    <2>1. PICK S \in Majority : \A p \in S : Vote(p, w.leader, w.term) \in votes
      BY DEF Basics, WinnersHaveMajority
    <2>2. PICK q \in Q : q \in S
      BY MajoritiesMeet
    <2>3. w.term <= currentTerm[q] /\ currentTerm[q] <= e.term /\ q \in Node
      BY <2>1, <2>2 DEF Basics, VotesArePast, Vote, Majority
    <2>4. w.term \in Nat
      BY DEF Basics, RunsTyped
    <2> QED BY <1>0, <2>3, <2>4
  <1>2. ASSUME NEW l \in Node, [leader |-> l, term |-> e.term] \in elected PROVE l = n
    BY <1>0, <1>2 DEF Basics, LeadersWon, ElectionSafety
  <1>3. ASSUME NEW s \in LogRuns, NEW i \in s.from .. s.to,
               checkLog(i, TermAt(s, i), e.index, e.term)
        PROVE  FALSE
    <2>1. TermAt(s, i) \in Nat /\ i \in Nat
      BY DEF Basics, RunsTyped, HasTerms, IsRun
    <2>2. TermAt(s, i) <= e.term
      BY <1>0, <1>1 DEF TermsInv, TermsWon
    <2>3. TermAt(s, i) = e.term /\ i >= e.index
      BY <1>0, <1>3, <2>1, <2>2 DEF checkLog
    <2>4. i <= logLen[n]
      BY <1>0, <2>3 DEF TermsInv, LeaderIsAhead
    <2> QED BY <1>0, <2>1, <2>3, <2>4
  <1>4. \A r \in LogRuns' : Covers(r, e)
    <2> TAKE r \in LogRuns'
    <2>1. CASE r \in LogRuns
      BY <1>3, <2>1 DEF Covers
    <2>2. CASE r = MemoryRun(n)'
      <3>1. /\ MemoryRun(n) \in LogRuns
            /\ MemoryRun(n).from = 0 /\ MemoryRun(n).to = logLen[n]
            /\ MemoryRun(n)'.from = 0 /\ MemoryRun(n)'.to = logLen[n] + 1
        BY DEF Basics, RunsTyped, Grows
      <3> SUFFICES ASSUME NEW i \in 0 .. logLen[n] + 1,
                          checkLog(i, TermAt(MemoryRun(n)', i), e.index, e.term)
                   PROVE  e.index <= i /\ MemoryRun(n)'.cells[e.index] = e
        BY <1>0, <2>2, <3>1 DEF Covers
      <3>2. CASE i \in 0 .. logLen[n]
        <4>1. checkLog(i, TermAt(MemoryRun(n), i), e.index, e.term)
          BY <3>2, GrownRuns
        <4> QED BY <1>3, <3>1, <3>2, <4>1
      <3>3. CASE i = e.index
        BY <1>0, <3>3, GrownRuns
      <3> QED BY <1>0, <3>2, <3>3
    <2> QED BY <2>1, <2>2, GrownRuns
  <1>5. ASSUME NEW p \in Node, HasEntry(p, e)' PROVE p = n
    <2> SUFFICES ASSUME p # n PROVE FALSE
      OBVIOUS
    <2>1. e.index <= logLen[p] /\ log[p][e.index] = e /\ logLen[p] \in Nat
      BY <1>5 DEF HasEntry, Grows, Basics, RunsTyped
    <2>2. /\ MemoryRun(p) \in LogRuns /\ e.index \in MemoryRun(p).from .. MemoryRun(p).to
          /\ TermAt(MemoryRun(p), e.index) = e.term
      BY <1>0, <2>1 DEF Basics, RunsTyped, TermAt
    <2> QED BY <1>0, <1>3, <2>2 DEF checkLog
  <1>6. ASSUME NEW m \in Requests', NEW p \in Node, m.term >= e.term, HasEntry(p, e)',
               NEW i \in m.prevLogIndex .. m.prevLogIndex + Len(m.entries), i <= e.index
        PROVE  TermAt(MessageRun(m), i) = TermAt(MemoryRun(p)', i)
    <2>1. p = n /\ m \in Requests
      BY <1>5, <1>6, GrownRuns
    <2>2. /\ [leader |-> m.from, term |-> m.term] \in elected /\ m.term \in Nat
          /\ m \in AppendEntries /\ HasTerms(MessageRun(m))
      BY <2>1 DEF Basics, VoicesAreElected, Requests, RunsTyped
    <2>3. m.term = e.term
      BY <1>0, <1>1, <1>6, <2>2
    <2>4. m.from = n
      BY <1>0, <2>1, <2>3, OneVoice
    <2>5. PartOf(MessageRun(m), MemoryRun(n))
      BY <1>0, <2>1, <2>3, <2>4 DEF TalkInv, LeaderSpeaks
    <2>6. /\ MemoryRun(n).from = 0 /\ MemoryRun(n).to = logLen[n] /\ HasTerms(MemoryRun(n))
      BY DEF Basics, RunsTyped
    <2>7. i \in MessageRun(m).from .. MessageRun(m).to
      BY <2>2, MessageRunType
    <2>8. i \in 0 .. logLen[n] /\ TermAt(MessageRun(m), i) = TermAt(MemoryRun(n), i)
      BY <2>2, <2>5, <2>6, <2>7, PartTerms DEF HasTerms
    <2> QED BY <2>1, <2>8, GrownRuns
  <1>7. RequestsSpare(e)'
    BY <1>6 DEF RequestsSpare, MessageRun, TermAt
  <1>8. LeadersHave(e)'
    <2> SUFFICES ASSUME NEW l \in Node, role[l] = "LEADER", currentTerm[l] >= e.term
                 PROVE  HasEntry(l, e)'
      BY DEF LeadersHave, Grows
    <2>1. [leader |-> l, term |-> currentTerm[l]] \in elected
      BY DEF Basics, LeadersWon
    <2>2. currentTerm[l] = e.term
      BY <1>0, <1>1, <2>1
    <2> QED BY <1>0, <1>2, <2>1, <2>2
  <1>9. \A r \in LogRuns' : Covers(r, e)'
    BY <1>4 DEF Covers, TermAt
  <1>10. Supports(n, e)'
    <2>1. \A v \in votes' : v.voter = n => ~(v.term > e.term)
      <3>1. \A v \in votes : v.term <= currentTerm[v.voter] /\ v.term \in Nat
        BY DEF Basics, VotesArePast, RunsTyped
      <3> QED BY <1>0, <3>1 DEF Grows
    <2>2. currentTerm'[n] >= e.term
      BY <1>0 DEF Grows
    <2> QED BY <1>0, <2>1, <2>2 DEF Supports
  <1> QED BY <1>7, <1>8, <1>9, <1>10 DEF Safe

\* Adding an entry keeps CommitInv.
LEMMA GrowsKeeps ==
    ASSUME Basics, Basics', NEW n \in Node, NEW e, Grows(n, e), Undamaged', CommitInv,
           CommitsMove, committed \subseteq committed'
    PROVE  CommitInv'
  <1>0. TermsInv /\ TalkInv /\ OpenIsSafe /\ CommittedIsSafe
    BY DEF CommitInv
  <1>1. TermsInv' /\ TalkInv'
    BY <1>0, GrownTerms, GrownTalk
  <1>2. OpenIsSafe'
    <2> SUFFICES ASSUME NEW l \in Node, NEW f \in Entry, NEW Q \in Majority,
                        role'[l] = "LEADER", f.index > 0, HasEntry(l, f)', f.term = currentTerm'[l],
                        \A q \in Q : Acked(l, q, f.index)' \/ currentTerm'[q] <= f.term
                 PROVE  Safe(f)' /\ \A q \in Q : Acked(l, q, f.index)' => Supports(q, f)'
      BY DEF OpenIsSafe
    <2>1. /\ role[l] = "LEADER" /\ f.term = currentTerm[l] /\ IsEntry(f)
          /\ \A q \in Q : q \in Node
          /\ \A q \in Node : currentTerm'[q] = currentTerm[q]
      BY EntryType DEF Grows, Majority
    <2>2. \A q \in Node : Acked(l, q, f.index)' <=> Acked(l, q, f.index)
      BY DEF Acked, Acks, Grows
    <2>3. CASE HasEntry(l, f)
      <3>1. Safe(f) /\ \A q \in Q : Acked(l, q, f.index) => Supports(q, f)
        BY <1>0, <2>1, <2>2, <2>3 DEF OpenIsSafe
      <3> QED BY <2>1, <2>2, <3>1, GrownSafe
    <2>4. CASE ~HasEntry(l, f)
      <3>1. l = n /\ f = e
        <4>1. CASE l = n
          BY <2>1, <2>4, <4>1, GrownRuns
        <4>2. CASE l # n
          BY <2>4, <4>2 DEF HasEntry, Grows
        <4> QED BY <4>1, <4>2
      <3>2. ASSUME NEW q \in Node, q # n PROVE ~Acked(n, q, e.index)
        <4> SUFFICES ASSUME NEW a \in Acks(n, q), a >= e.index PROVE FALSE
          BY <3>2 DEF Acked
        <4>1. a \in Nat /\ logLen[n] \in Nat /\ e.index = logLen[n] + 1 /\ role[n] = "LEADER"
          BY DEF Grows, Basics, RunsTyped
        <4>2. a > 0
          BY <4>1
        <4>3. a <= logLen[n]
          BY <1>0, <3>2, <4>1, <4>2 DEF TalkInv, AcksHold
        <4> QED BY <4>1, <4>3
      <3>3. e.term = currentTerm[n] /\ currentTerm[n] \in Nat
        BY DEF Grows, Basics, RunsTyped
      <3>4. \A q \in Q : currentTerm[q] <= e.term
        BY <2>1, <2>2, <3>1, <3>2, <3>3
      <3>5. Safe(e)' /\ Supports(n, e)'
        BY <1>0, <3>4, FreshIsSafe
      <3> QED BY <2>1, <2>2, <3>1, <3>2, <3>5
    <2> QED BY <2>3, <2>4
  <1>3. CommittedIsSafe'
    <2> SUFFICES ASSUME NEW c \in committed'
                 PROVE  \E d \in committed' :
                          /\ d.at = c.at /\ d.entry.term = c.at
                          /\ c.entry.index \in 1 .. d.entry.index
                          /\ \A p \in Node : HasEntry(p, d.entry)' => HasEntry(p, c.entry)'
                          /\ Counted(d.entry)'
      BY DEF CommittedIsSafe
    <2>1. CASE c \notin committed
      BY <1>2, <2>1, NewlyCommitted
    <2>2. CASE c \in committed
      <3>1. PICK d \in committed :
               /\ d.at = c.at /\ d.entry.term = c.at
               /\ c.entry.index \in 1 .. d.entry.index
               /\ \A p \in Node : HasEntry(p, d.entry) => HasEntry(p, c.entry)
               /\ Counted(d.entry)
        BY <1>0, <2>2 DEF CommittedIsSafe
      <3> DEFINE f == d.entry
                 g == c.entry
      <3>2. f \in Entry /\ g \in Entry
        BY <2>2 DEF Basics, RunsTyped
      <3>3. IsEntry(f) /\ IsEntry(g)
        <4>1. f.index \in Nat /\ g.index \in Nat
          BY <3>2 DEF Entry, Index
        <4>2. f.index > 0 /\ g.index > 0
          BY <3>1, <4>1
        <4> QED BY <3>2, <4>2, EntryType
      <3>4. Safe(f) /\ \E Q \in Majority : \A q \in Q : Supports(q, f)
        BY <3>1 DEF Counted
      <3>5. \A p \in Node : HasEntry(p, f) => HasEntry(p, g)
        BY <3>1
      <3> HIDE DEF f, g
      <3>6. /\ Safe(f)' /\ \A p \in Node : HasEntry(p, f)' => HasEntry(p, f)
            /\ \A q \in Node : Supports(q, f) => Supports(q, f)'
        BY <3>3, <3>4, GrownSafe
      <3>7. Counted(f)'
        BY <3>4, <3>6 DEF Counted, Majority
      <3>8. \A p \in Node : HasEntry(p, f)' => HasEntry(p, g)'
        BY <3>3, <3>5, <3>6, GrownRuns
      <3> QED BY <3>1, <3>7, <3>8 DEF f, g
    <2> QED BY <2>1, <2>2
  <1> QED BY <1>1, <1>2, <1>3 DEF CommitInv

-----------------------------------------------------------------------------
(* The actions.  With no budget for faults, every write succeeds. *)

\* What a write does then, and what a node and its file hold before it.
LEMMA NoFault ==
    ASSUME MaxFaults = 0, TypeOK, LogInv, Undamaged, NEW n \in Node
    PROVE  /\ Outcome(n) = {"ok"} /\ fd[n] /\ role[n] # "FAILED"
           /\ disk[n] \in Store /\ disk[n].ok /\ disk[n].term = currentTerm[n]
           /\ disk[n].len = logLen[n] /\ \A i \in 1 .. logLen[n] : disk[n].log[i] = log[n][i]
           /\ ~(faults < MaxFaults)
  <1>1. ~(faults < MaxFaults)
    BY DEF TypeOK, BudgetOK
  <1>2. fd[n] /\ role[n] # "FAILED" /\ disk[n].term = currentTerm[n] /\ disk[n] \in Store
    BY DEF Undamaged, TypeOK, StorageOK
  <1> QED BY <1>1, <1>2 DEF Outcome, LogInv, RestoreMatchesMemory

\* A STATE record is read back.
LEMMA StateRecord ==
    ASSUME NEW d \in Store, d.ok, NEW t, NEW v
    PROVE  ReplayState(d, t, v).term = t /\ ReplayState(d, t, v).ok
  BY DEF ReplayState, Store

\* A step in which no log is written or sent, no one wins and nothing is acked.
Calm ==
    /\ \A n \in Node : SameLog(n) /\ currentTerm[n] <= currentTerm'[n]
    /\ \A n \in Node : role'[n] \in {"LEADER", "CANDIDATE"}
           => role'[n] = role[n] /\ currentTerm'[n] = currentTerm[n]
    /\ \A n \in Node : role'[n] = "LEADER"
           => nextIndex'[n] = nextIndex[n] /\ matchIndex'[n] = matchIndex[n]
    /\ \A m \in net' : \/ m \in net
                       \/ m.type = "RequestVoteResponse"
                       \/ m.type = "AppendEntriesResponse" /\ ~m.success
    /\ elected' = elected /\ committed' = committed /\ votes \subseteq votes'

\* Only its votes are left to look at.
LEMMA CalmIsGradual ==
    ASSUME Calm, LeaderSpeaks, VotesMove
    PROVE  Gradual
  <1>1. LogsMove /\ TermsMove /\ CandidatesMove
    BY DEF Calm, LogsMove, TermsMove, CandidatesMove
  <1>2. RequestsMove /\ CampaignsMove /\ SuccessesMove
    BY DEF Calm, RequestsMove, CampaignsMove, SuccessesMove, Requests
  <1>3. LeadersMove
    BY DEF Calm, LeadersMove, Stays, LeaderSpeaks, SameLog
  <1>4. AcksMove
    <2> SUFFICES ASSUME NEW n \in Node, NEW q \in Node, role'[n] = "LEADER",
                        NEW a \in Acks(n, q)'
                 PROVE  a \in Acks(n, q)
      BY DEF AcksMove
    <2>1. matchIndex'[n] = matchIndex[n] /\ currentTerm'[n] = currentTerm[n]
      BY DEF Calm
    <2>2. \A m \in net' : m.type = "AppendEntriesResponse" /\ m.success => m \in net
      BY DEF Calm
    <2> QED BY <2>1, <2>2 DEF Acks
  <1>5. CommitsMove
    BY DEF Calm, CommitsMove
  <1> QED BY <1>1, <1>2, <1>3, <1>4, <1>5 DEF Gradual, Calm

\* An action that keeps the votes.
LEMMA CalmKeeps ==
    ASSUME Basics, Basics', CommitInv, Calm, votes' = votes, Undamaged'
    PROVE  CommitInv'
  <1>1. VotesMove
    BY DEF VotesMove
  <1> QED BY <1>1, CalmIsGradual, GradualKeeps DEF CommitInv, TalkInv

\* Nothing but messages, commitIndex and applied changes: a response that is not used, a
\* lost message, AppendStale, raft_commit_entry, stuttering.
LEMMA IdleKeeps ==
    ASSUME TypeOK, Basics, Basics', CommitInv,
           UNCHANGED <<role, pstate, lstate, fd, disk, history>>,
           \A m \in net' : \/ m \in net
                           \/ m.type = "RequestVoteResponse"
                           \/ m.type = "AppendEntriesResponse" /\ ~m.success
    PROVE  CommitInv'
  <1>1. Undamaged'
    BY DEF CommitInv, Undamaged, pstate
  <1>2. Calm
    BY DEF Calm, SameLog, pstate, lstate, history, TypeOK, ServerOK, Term
  <1> QED BY <1>1, <1>2, CalmKeeps DEF history, CommitInv

-----------------------------------------------------------------------------
(* Nothing gets damaged *)

\* One node's file and term change together.
LEMMA OneFile ==
    ASSUME TypeOK, Undamaged, NEW n \in Node, NEW t, NEW d, NEW r, d.term = t, r # "FAILED",
           disk' = [disk EXCEPT ![n] = d], currentTerm' = [currentTerm EXCEPT ![n] = t],
           role' = [role EXCEPT ![n] = r], fd' = fd
    PROVE  Undamaged'
  BY DEF Undamaged, TypeOK, ServerOK, StorageOK

\* StepDown writes the new term.
LEMMA UndamagedStepDown ==
    ASSUME MaxFaults = 0, TypeOK, LogInv, Undamaged, NEW n \in Node, NEW t, StepDown(n, t)
    PROVE  Undamaged'
  <1>1. update_term_locked(n, t, "ok") /\ fd' = fd
    BY NoFault DEF StepDown
  <1>2. /\ disk' = [disk EXCEPT ![n] = ReplayState(disk[n], t, Nil)]
        /\ currentTerm' = [currentTerm EXCEPT ![n] = t]
        /\ role' = [role EXCEPT ![n] = Demoted(n, "ok")]
    BY <1>1 DEF update_term_locked, Persisted
  <1>3. Demoted(n, "ok") # "FAILED"
    BY NoFault DEF Demoted
  <1>4. ReplayState(disk[n], t, Nil).term = t
    BY NoFault, StateRecord
  <1> QED BY <1>1, <1>2, <1>3, <1>4, OneFile

\* So does raft_timeout.
LEMMA UndamagedTimeout ==
    ASSUME MaxFaults = 0, TypeOK, LogInv, Undamaged, NEW n \in Node, raft_timeout(n)
    PROVE  Undamaged'
  <1>1. StartElection(n, "ok") /\ fd' = fd
    BY NoFault DEF raft_timeout
  <1> DEFINE t == currentTerm[n] + 1
             d == ReplayState(disk[n], t, n)
  <1>2. /\ disk' = [disk EXCEPT ![n] = d] /\ currentTerm' = [currentTerm EXCEPT ![n] = t]
        /\ \E r \in {"LEADER", "CANDIDATE"} : role' = [role EXCEPT ![n] = r]
    BY <1>1 DEF StartElection, Persisted, BecomeLeader
  <1>3. d.term = t
    BY NoFault, StateRecord
  <1> HIDE DEF d, t
  <1> QED BY <1>1, <1>2, <1>3, OneFile

\* What ConsiderVote does when both writes succeed.
LEMMA VoteWritten ==
    ASSUME MaxFaults = 0, TypeOK, LogInv, Undamaged, NEW n \in Node, NEW m \in Inbox(n, "RequestVote"),
           NEW ioTerm \in IF Newer(n, m) THEN Outcome(n) ELSE {"ok"},
           NEW ioVote \in IF Willing(n, m) THEN Outcome(n) ELSE {"ok"}
    PROVE  ioTerm = "ok" /\ ioVote = "ok"
  BY NoFault

\* HandleRequestVoteRequest writes the term, and the vote with it.
LEMMA UndamagedRequestVote ==
    ASSUME MaxFaults = 0, TypeOK, LogInv, Undamaged, NEW n \in Node, HandleRequestVoteRequest(n)
    PROVE  Undamaged'
  <1>1. PICK m \in Inbox(n, "RequestVote") : ConsiderVote(n, m, "ok", "ok")
    BY VoteWritten DEF HandleRequestVoteRequest
  <1>2. fd' = fd
    BY DEF HandleRequestVoteRequest
  <1> DEFINE t == IF Newer(n, m) THEN m.term ELSE currentTerm[n]
             file == IF Newer(n, m) THEN ReplayState(disk[n], t, Nil) ELSE disk[n]
             d == IF Willing(n, m) THEN ReplayState(file, t, m.from) ELSE file
             r == IF Newer(n, m) THEN Demoted(n, "ok") ELSE role[n]
  <1>3. /\ disk' = [disk EXCEPT ![n] = d] /\ currentTerm' = [currentTerm EXCEPT ![n] = t]
        /\ role' = [role EXCEPT ![n] = r]
    BY <1>1 DEF ConsiderVote, Persisted
  <1>4. file.term = t /\ file \in Store /\ file.ok
    <2>1. m.term \in Term
      BY InboxType DEF TypeOK
    <2>2. ReplayState(disk[n], m.term, Nil) \in Store
      BY <2>1, NoFault, ReplayStateType
    <2> QED BY <2>2, NoFault, StateRecord
  <1>5. d.term = t
    <2> HIDE DEF file, t
    <2> QED BY <1>4, StateRecord
  <1>6. r # "FAILED"
    BY NoFault DEF Demoted
  <1> HIDE DEF d, t, r
  <1> QED BY <1>2, <1>3, <1>5, <1>6, OneFile

\* Nothing of it changes.
LEMMA UndamagedIdle ==
    ASSUME Undamaged, UNCHANGED <<role, pstate, fd, disk>>
    PROVE  Undamaged'
  BY DEF Undamaged, pstate

\* HandleRequestVoteResponse and HandleAppendEntriesResponse.
LEMMA UndamagedResponse ==
    ASSUME MaxFaults = 0, TypeOK, LogInv, Undamaged, NEW n \in Node,
           HandleRequestVoteResponse(n) \/ HandleAppendEntriesResponse(n)
    PROVE  Undamaged'
  <1>1. ASSUME NEW t, StepDown(n, t) PROVE Undamaged'
    BY <1>1, UndamagedStepDown
  <1>2. IgnoreResponse => Undamaged'
    BY UndamagedIdle DEF IgnoreResponse
  <1>3. ASSUME NEW m, CountsVote(n, m), CountVote(n, m) PROVE Undamaged'
    <2>1. \E r \in Role \ {"FAILED"} : role' = [role EXCEPT ![n] = r]
      BY <1>3, NoFault DEF CountVote, BecomeLeader, TypeOK, ServerOK, Role
    <2>2. UNCHANGED <<pstate, fd, disk>>
      BY <1>3 DEF CountVote
    <2> QED BY <2>1, <2>2 DEF Undamaged, pstate, TypeOK, ServerOK
  <1>4. UNCHANGED <<role, pstate, fd, disk>> => Undamaged'
    BY UndamagedIdle
  <1> QED BY <1>1, <1>2, <1>3, <1>4 DEF HandleRequestVoteResponse, HandleAppendEntriesResponse

\* A restart reads the term and the log back.
LEMMA UndamagedRestart ==
    ASSUME MaxFaults = 0, TypeOK, LogInv, Undamaged, NEW n \in Node, Restart(n)
    PROVE  /\ Undamaged' /\ Restore(n, disk[n], TRUE)
           /\ currentTerm'[n] = currentTerm[n] /\ fd' = fd
  <1>1. Restore(n, disk[n], TRUE) /\ disk' = disk /\ role' = [role EXCEPT ![n] = "FOLLOWER"]
    BY NoFault DEF Restart
  <1>2. disk[n].ok /\ disk[n].term = currentTerm[n] /\ fd[n]
    BY NoFault
  <1>3. fd' = fd /\ currentTerm'[n] = currentTerm[n] /\ currentTerm' = [currentTerm EXCEPT ![n] = disk[n].term]
    BY <1>1, <1>2 DEF Restore, TypeOK, StorageOK, ServerOK
  <1> QED BY <1>1, <1>2, <1>3 DEF Undamaged, TypeOK, ServerOK, StorageOK

\* A follower's file has the request's term before the entries are written.
LEMMA FollowedTerm ==
    ASSUME MaxFaults = 0, TypeOK, LogInv, Undamaged, NEW n \in Node, NEW m \in AppendEntries,
           m.term >= currentTerm[n]
    PROVE  FollowFile(n, m).term = m.term
  <1>1. m.term \in Nat /\ currentTerm[n] \in Nat
    BY DEF AppendEntries, Term, TypeOK, ServerOK
  <1>2. ReplayState(disk[n], m.term, Nil).term = m.term
    BY NoFault, StateRecord
  <1> QED BY <1>1, <1>2, NoFault DEF FollowFile, Newer

\* HandleAppendEntriesRequest writes the term, then entries that do not touch it.
LEMMA UndamagedAppend ==
    ASSUME MaxFaults = 0, TypeOK, LogInv, Undamaged, LogInv', TypeOK', NEW n \in Node,
           NEW m \in AppendEntries,
           \/ AppendStale(n, m) \/ AppendTermFault(n, m) \/ AppendMismatch(n, m)
           \/ AppendStored(n, m) \/ AppendTruncateFault(n, m) \/ AppendEntryFault(n, m)
    PROVE  /\ Undamaged'
           /\ AppendStale(n, m) \/ AppendMismatch(n, m) \/ AppendStored(n, m)
  <1>1. Outcome(n) \ {"ok"} = {}
    BY NoFault
  <1>2. AppendStale(n, m) \/ AppendMismatch(n, m) \/ AppendStored(n, m)
    BY <1>1 DEF AppendTermFault, AppendTruncateFault, AppendEntryFault
  <1>3. ASSUME Follow(n, m, FALSE), fd' = fd, NEW d, disk' = [disk EXCEPT ![n] = d],
               d.ok => d.term = m.term
        PROVE  Undamaged'
    <2>1. /\ role' = [role EXCEPT ![n] = "FOLLOWER"]
          /\ currentTerm' = [currentTerm EXCEPT ![n] = m.term]
      BY <1>3, NoFault DEF Follow
    <2>2. disk'[n] = d /\ fd'[n] /\ role'[n] = "FOLLOWER"
      BY <1>3, <2>1, NoFault DEF TypeOK, StorageOK, ServerOK
    <2>3. d.ok
      BY <2>2 DEF LogInv, RestoreMatchesMemory
    <2> QED BY <1>3, <2>1, <2>3, OneFile
  <1>4. CASE AppendStale(n, m)
    BY <1>4, UndamagedIdle DEF AppendStale
  <1>5. CASE AppendMismatch(n, m)
    <2>1. FollowFile(n, m).term = m.term
      BY <1>5, FollowedTerm DEF AppendMismatch, Follow
    <2> QED BY <1>3, <1>5, <2>1 DEF AppendMismatch
  <1>6. CASE AppendStored(n, m)
    <2>1. PICK last \in 0 .. Len(m.entries) : \E first \in 1 .. last + 1 :
            Scan(n, m, first, last) /\ StoreEntries(n, m, first, last)
      BY <1>6 DEF AppendStored
    <2>2. PICK first \in 1 .. last + 1 :
            Scan(n, m, first, last) /\ StoreEntries(n, m, first, last)
      BY <2>1
    <2> DEFINE d == IF first <= last
                    THEN ReplayEntries(CutFile(n, m, first), SubSeq(m.entries, first, last))
                    ELSE FollowFile(n, m)
    <2>3. disk' = [disk EXCEPT ![n] = d]
      BY <2>2 DEF StoreEntries
    <2>4. /\ Len(m.entries) \in Nat /\ m.prevLogIndex \in Index
          /\ last > 0 => m.prevLogIndex + last <= LogCap
      BY <2>2, ScanBounds
    <2>5. SameState(FollowFile(n, m), d)
      <3>1. CASE first <= last
        <4>1. first \in Nat \ {0} /\ m.prevLogIndex + first <= LogCap
          BY <2>4, <3>1 DEF Index
        <4> QED BY <3>1, <4>1, LoopKeepsState
      <3>2. CASE ~(first <= last)
        BY <3>2 DEF SameState
      <3> QED BY <3>1, <3>2
    <2>6. FollowFile(n, m).term = m.term
      BY <1>6, FollowedTerm DEF AppendStored, Follow
    <2> HIDE DEF d
    <2> QED BY <1>3, <1>6, <2>3, <2>5, <2>6 DEF AppendStored, SameState
  <1> QED BY <1>2, <1>4, <1>5, <1>6

\* raft_leader_send_command writes an entry.
LEMMA UndamagedCommand ==
    ASSUME MaxFaults = 0, TypeOK, LogInv, Undamaged, LogInv', TypeOK', NEW n \in Node,
           raft_leader_send_command(n)
    PROVE  Undamaged'
  <1>1. PICK c \in Command : AcceptCommand(n, c, "ok")
    BY NoFault DEF raft_leader_send_command
  <1>2. UNCHANGED <<role, fd, currentTerm>>
    BY <1>1 DEF raft_leader_send_command, AcceptCommand
  <1>3. PICK e : disk' = [disk EXCEPT ![n] = ReplayEntries(disk[n], <<e>>)]
    BY <1>1 DEF AcceptCommand, Persisted
  <1> DEFINE d == ReplayEntries(disk[n], <<e>>)
  <1>4. SameState(disk[n], d)
    BY NoFault, ReplayKeepsState
  <1> HIDE DEF d
  <1>5. d.ok
    <2>1. disk'[n] = d /\ fd'[n] /\ role'[n] # "FAILED"
      BY <1>2, <1>3, NoFault DEF TypeOK, StorageOK, d
    <2> QED BY <2>1 DEF LogInv, RestoreMatchesMemory
  <1>6. disk' = [disk EXCEPT ![n] = d] /\ d.term = currentTerm[n]
    BY <1>3, <1>4, <1>5, NoFault DEF SameState, d
  <1> QED BY <1>2, <1>6 DEF Undamaged, TypeOK, StorageOK

\* No step damages anything.
LEMMA UndamagedNext ==
    ASSUME MaxFaults = 0, TypeOK, LogInv, Undamaged, LogInv', TypeOK', [Next]_vars
    PROVE  Undamaged'
  <1>1. UNCHANGED vars => Undamaged'
    BY UndamagedIdle DEF vars
  <1>2. ASSUME NEW n \in Node, NEW p \in Node, raft_append_entries(n, p) PROVE Undamaged'
    BY <1>2, UndamagedIdle DEF raft_append_entries
  <1>3. ASSUME NEW n \in Node, heartbeat_tick(n) \/ raft_commit_entry(n) PROVE Undamaged'
    BY <1>3, UndamagedIdle DEF heartbeat_tick, raft_commit_entry
  <1>4. ASSUME NEW m, Lose(m) PROVE Undamaged'
    BY <1>4, UndamagedIdle DEF Lose
  <1>5. ASSUME NEW n \in Node, HandleAppendEntriesRequest(n) PROVE Undamaged'
    <2>1. \A m \in Inbox(n, "AppendEntries") : m \in AppendEntries
      BY InboxType DEF TypeOK
    <2> QED BY <1>5, <2>1, UndamagedAppend DEF HandleAppendEntriesRequest
  <1> QED BY <1>1, <1>2, <1>3, <1>4, <1>5, UndamagedTimeout, UndamagedRequestVote,
             UndamagedResponse, UndamagedCommand, UndamagedRestart DEF Next

-----------------------------------------------------------------------------
(* Every action keeps CommitInv *)

\* What is known before and after a step.
Step ==
    /\ MaxFaults = 0
    /\ TypeOK /\ TypeOK' /\ ElectionInv /\ LogInv
    /\ Basics /\ Basics' /\ CommitInv /\ Undamaged'

\* Only n changes, and it does not run for office.
LEMMA OneCalm ==
    ASSUME Step, NEW n \in Node,
           \A p \in Node \ {n} : /\ role'[p] = role[p] /\ currentTerm'[p] = currentTerm[p]
                                 /\ nextIndex'[p] = nextIndex[p] /\ matchIndex'[p] = matchIndex[p],
           \A p \in Node : SameLog(p),
           \/ role'[n] = "FOLLOWER" /\ currentTerm'[n] >= currentTerm[n]
           \/ /\ role'[n] = role[n] /\ currentTerm'[n] = currentTerm[n]
              /\ nextIndex'[n] = nextIndex[n] /\ matchIndex'[n] = matchIndex[n],
           \A m \in net' : \/ m \in net
                           \/ m.type = "RequestVoteResponse"
                           \/ m.type = "AppendEntriesResponse" /\ ~m.success,
           elected' = elected, committed' = committed, votes \subseteq votes'
    PROVE  Calm
  <1>1. \A p \in Node : currentTerm[p] \in Nat /\ currentTerm'[p] \in Nat
    BY DEF Step, Basics, RunsTyped
  <1> QED BY <1>1 DEF Calm

\* A log that is not touched.
LEMMA LogsUntouched ==
    ASSUME log' = log, logLen' = logLen
    PROVE  \A p \in Node : SameLog(p)
  BY DEF SameLog

\* StepDown, after a response of a newer term.
LEMMA CommitStepDown ==
    ASSUME Step, NEW n \in Node, NEW t \in Term, t > currentTerm[n], StepDown(n, t), net' \subseteq net
    PROVE  CommitInv'
  <1>1. update_term_locked(n, t, "ok")
    BY NoFault DEF StepDown, Step, CommitInv
  <1>2. currentTerm[n] \in Nat /\ t \in Nat /\ role[n] # "FAILED"
    BY DEF Step, Basics, RunsTyped, Term, CommitInv, Undamaged
  <1>3. role'[n] = "FOLLOWER" /\ currentTerm'[n] >= currentTerm[n]
    BY <1>1, <1>2 DEF update_term_locked, Demoted, Step, TypeOK, ServerOK
  <1>4. \A p \in Node \ {n} : /\ role'[p] = role[p] /\ currentTerm'[p] = currentTerm[p]
                              /\ nextIndex'[p] = nextIndex[p] /\ matchIndex'[p] = matchIndex[p]
    BY <1>1 DEF update_term_locked, ClearCounters, Step, TypeOK, ServerOK, LeaderOK
  <1>5. UNCHANGED <<log, logLen, votes, elected, committed>>
    BY DEF StepDown, history
  <1>6. Calm
    BY <1>3, <1>4, <1>5, LogsUntouched, OneCalm
  <1> QED BY <1>5, <1>6, CalmKeeps DEF Step

\* HandleRequestVoteRequest: a vote is given only to a log as up to date as the voter's.
LEMMA CommitRequestVote ==
    ASSUME Step, NEW n \in Node, HandleRequestVoteRequest(n)
    PROVE  CommitInv'
  <1>0. TypeOK /\ LogInv /\ Undamaged /\ MaxFaults = 0
    BY DEF Step, CommitInv
  <1>1. PICK m \in Inbox(n, "RequestVote") : ConsiderVote(n, m, "ok", "ok")
    BY <1>0, VoteWritten DEF HandleRequestVoteRequest
  <1>2. m \in net /\ m.type = "RequestVote" /\ m \in RequestVote
    BY <1>0, InboxType DEF TypeOK
  <1>3. /\ m.term \in Nat /\ m.lastLogIndex \in Nat /\ m.lastLogTerm \in Nat /\ m.from \in Node
        /\ currentTerm[n] \in Nat
    BY <1>0, <1>2 DEF RequestVote, Term, Index, TypeOK, ServerOK
  <1>4. UNCHANGED <<log, logLen, elected, committed>>
    BY DEF HandleRequestVoteRequest
  <1>5. \/ role'[n] = "FOLLOWER" /\ currentTerm'[n] >= currentTerm[n]
        \/ /\ role'[n] = role[n] /\ currentTerm'[n] = currentTerm[n]
           /\ nextIndex'[n] = nextIndex[n] /\ matchIndex'[n] = matchIndex[n]
    <2>1. CASE Newer(n, m)
      <3>1. role'[n] = Demoted(n, "ok") /\ currentTerm'[n] = m.term
        BY <1>0, <1>1, <2>1 DEF ConsiderVote, TypeOK, ServerOK
      <3> QED BY <1>0, <1>3, <2>1, <3>1 DEF Newer, Demoted, Undamaged
    <2>2. CASE ~Newer(n, m)
      BY <1>0, <1>1, <2>2 DEF ConsiderVote, ClearCounters, TypeOK, ServerOK, LeaderOK
    <2> QED BY <2>1, <2>2
  <1>6. \A p \in Node \ {n} : /\ role'[p] = role[p] /\ currentTerm'[p] = currentTerm[p]
                              /\ nextIndex'[p] = nextIndex[p] /\ matchIndex'[p] = matchIndex[p]
    BY <1>0, <1>1 DEF ConsiderVote, ClearCounters, TypeOK, ServerOK, LeaderOK
  <1>7. \A k \in net' : k \in net \/ k.type = "RequestVoteResponse"
    BY <1>1 DEF ConsiderVote, Answer
  <1>8. \A v \in votes' : v \in votes \/ (Willing(n, m) /\ v = Vote(n, m.from, m.term))
    BY <1>1, <1>3 DEF ConsiderVote, Willing, Newer
  <1>9. votes \subseteq votes'
    BY <1>1 DEF ConsiderVote
  <1>10. Calm
    BY <1>4, <1>5, <1>6, <1>7, <1>9, LogsUntouched, OneCalm
  <1>11. VotesMove
    <2> SUFFICES ASSUME NEW v \in votes', v \notin votes
                 PROVE  /\ SameLog(v.voter)
                        /\ \E k \in net :
                             /\ k.type = "RequestVote" /\ k.from = v.candidate /\ k.term = v.term
                             /\ k.lastLogIndex \in Nat /\ k.lastLogTerm \in Nat
                             /\ checkLog(k.lastLogIndex, k.lastLogTerm, logLen[v.voter], LastTerm(v.voter))
      BY DEF VotesMove
    <2>1. v.voter = n /\ v.candidate = m.from /\ v.term = m.term /\ Willing(n, m)
      BY <1>8 DEF Vote
    <2> QED BY <1>2, <1>3, <1>4, <2>1, LogsUntouched DEF Willing
  <1>12. Gradual
    BY <1>10, <1>11, CalmIsGradual DEF Step, CommitInv, TalkInv
  <1> QED BY <1>12, GradualKeeps DEF Step

\* Only n changes: it runs for office, or takes it.
LEMMA OfficeIsGradual ==
    ASSUME Step, NEW n \in Node, role[n] # "LEADER", log' = log, logLen' = logLen,
           \A p \in Node \ {n} : /\ role'[p] = role[p] /\ currentTerm'[p] = currentTerm[p]
                                 /\ nextIndex'[p] = nextIndex[p] /\ matchIndex'[p] = matchIndex[p],
           currentTerm'[n] >= currentTerm[n],
           role'[n] = "CANDIDATE" => currentTerm[n] < currentTerm'[n],
           role'[n] = "LEADER" => Takes(n) /\ \A p \in Node : nextIndex'[n][p] <= logLen[n] + 1,
           \A m \in net' : m \in net \/ m.type = "RequestVote",
           elected \subseteq elected', votes \subseteq votes', committed' = committed,
           VotesMove, CampaignsMove
    PROVE  Gradual
  <1>1. \A p \in Node : SameLog(p) /\ currentTerm[p] \in Nat /\ currentTerm'[p] \in Nat
    BY LogsUntouched DEF Step, Basics, RunsTyped
  <1>2. \A p \in Node : currentTerm[p] <= currentTerm'[p]
    BY <1>1
  <1>3. LogsMove /\ TermsMove /\ CandidatesMove
    BY <1>1, <1>2 DEF LogsMove, TermsMove, CandidatesMove
  <1>4. RequestsMove /\ SuccessesMove
    BY DEF RequestsMove, SuccessesMove, Requests
  <1>5. LeadersMove
    BY <1>1 DEF LeadersMove, Stays, Step, CommitInv, TalkInv, LeaderSpeaks
  <1>6. AcksMove
    <2> SUFFICES ASSUME NEW l \in Node, NEW q \in Node, role'[l] = "LEADER", Stays(l),
                        NEW a \in Acks(l, q)'
                 PROVE  a \in Acks(l, q)
      BY DEF AcksMove
    <2>1. matchIndex'[l] = matchIndex[l] /\ currentTerm'[l] = currentTerm[l]
      BY DEF Stays
    <2>2. \A m \in net' : m.type = "AppendEntriesResponse" /\ m.success => m \in net
      OBVIOUS
    <2> QED BY <2>1, <2>2 DEF Acks
  <1>7. CommitsMove
    BY DEF CommitsMove
  <1> QED BY <1>3, <1>4, <1>5, <1>6, <1>7 DEF Gradual

\* HandleRequestVoteResponse counts a vote, and may win with it.
LEMMA CommitCountVote ==
    ASSUME Step, NEW n \in Node, NEW m, CountsVote(n, m), CountVote(n, m), net' \subseteq net
    PROVE  CommitInv'
  <1>1. /\ UNCHANGED <<log, logLen, currentTerm, votes, committed>>
        /\ role[n] = "CANDIDATE" /\ electionterm[n] = currentTerm[n]
    BY DEF CountVote, CountsVote, pstate
  <1>2. CASE BecomeLeader(n, currentTerm[n])
    <2>1. \A p \in Node \ {n} : /\ role'[p] = role[p] /\ currentTerm'[p] = currentTerm[p]
                                /\ nextIndex'[p] = nextIndex[p] /\ matchIndex'[p] = matchIndex[p]
      BY <1>1, <1>2 DEF BecomeLeader, Step, TypeOK, ServerOK, LeaderOK
    <2>2. /\ role'[n] = "LEADER" /\ \A p \in Node : matchIndex'[n][p] = 0
          /\ \A p \in Node : nextIndex'[n][p] = logLen[n] + 1
      BY <1>2 DEF BecomeLeader, Step, TypeOK, ServerOK, LeaderOK
    <2>3. currentTerm[n] # 0 /\ [leader |-> n, term |-> currentTerm[n]] \notin elected
      BY <1>1 DEF Step, ElectionInv, CountersAreVotes, LogInv, CandidateIsFresh
    <2>4. Takes(n)
      BY <1>1, <2>2, <2>3 DEF Takes
    <2>5. logLen[n] \in Nat /\ currentTerm[n] \in Nat
      BY DEF Step, Basics, RunsTyped
    <2>6. VotesMove /\ CampaignsMove /\ elected \subseteq elected'
      BY <1>1, <1>2 DEF VotesMove, CampaignsMove, BecomeLeader
    <2>7. Gradual
      BY <1>1, <2>1, <2>2, <2>4, <2>5, <2>6, OfficeIsGradual
    <2> QED BY <2>7, GradualKeeps DEF Step
  <1>3. CASE UNCHANGED <<role, leaderId, lstate, elected>>
    <2>1. Calm
      BY <1>1, <1>3, LogsUntouched, OneCalm DEF lstate
    <2> QED BY <1>1, <2>1, CalmKeeps DEF Step
  <1> QED BY <1>2, <1>3 DEF CountVote

\* HandleRequestVoteResponse.
LEMMA CommitVoteResponse ==
    ASSUME Step, NEW n \in Node, HandleRequestVoteResponse(n)
    PROVE  CommitInv'
  <1>1. PICK m \in Inbox(n, "RequestVoteResponse") :
          /\ Answer(m, {})
          /\ \/ Newer(n, m) /\ StepDown(n, m.term)
             \/ CountsVote(n, m) /\ CountVote(n, m)
             \/ IgnoreResponse
    BY DEF HandleRequestVoteResponse
  <1>2. net' \subseteq net
    BY <1>1 DEF Answer
  <1>3. m.term \in Term
    BY InboxType DEF Step, TypeOK
  <1>4. CASE Newer(n, m) /\ StepDown(n, m.term)
    BY <1>2, <1>3, <1>4, CommitStepDown DEF Newer
  <1>5. CASE CountsVote(n, m) /\ CountVote(n, m)
    BY <1>2, <1>5, CommitCountVote
  <1>6. CASE IgnoreResponse
    BY <1>2, <1>6, IdleKeeps DEF IgnoreResponse, Step
  <1> QED BY <1>1, <1>4, <1>5, <1>6

\* raft_timeout: a new term, a vote for oneself, and requests that show one's log.
LEMMA CommitTimeout ==
    ASSUME Step, NEW n \in Node, raft_timeout(n)
    PROVE  CommitInv'
  <1>0. TypeOK /\ LogInv /\ Undamaged /\ MaxFaults = 0 /\ ElectionInv
    BY DEF Step, CommitInv
  <1>1. StartElection(n, "ok") /\ UNCHANGED <<log, logLen, committed>> /\ role[n] # "LEADER"
    BY <1>0, NoFault DEF raft_timeout
  <1> DEFINE t == currentTerm[n] + 1
             alone == majority(Cardinality(Node)) = 1
  <1>2. /\ currentTerm[n] \in Nat /\ logLen[n] \in Nat /\ t \in Nat
        /\ t > currentTerm[n] /\ t >= currentTerm[n]
    BY DEF Step, Basics, RunsTyped
  <1>3. currentTerm' = [currentTerm EXCEPT ![n] = t] /\ votes' = votes \cup {Vote(n, n, t)}
    BY <1>1 DEF StartElection
  <1>4. currentTerm'[n] = t
    BY <1>0, <1>3 DEF TypeOK, ServerOK
  <1>5. VotesMove
    <2>1. \A v \in votes' : v \in votes \/ (v.voter = n /\ v.candidate = n)
      BY <1>3 DEF Vote
    <2> QED BY <1>1, <2>1, LogsUntouched DEF VotesMove
  <1>6. CASE ~alone
    <2>1. /\ role' = [role EXCEPT ![n] = "CANDIDATE"] /\ UNCHANGED <<nextIndex, matchIndex, elected>>
          /\ net' = net \cup VoteRequests(n, t)
      BY <1>1, <1>6 DEF StartElection, Send, lstate
    <2>2. CampaignsMove /\ \A m \in net' : m \in net \/ m.type = "RequestVote"
      BY <2>1 DEF VoteRequests, CampaignsMove
    <2>3. role'[n] = "CANDIDATE"
      BY <1>0, <2>1 DEF TypeOK, ServerOK
    <2>4. \A p \in Node \ {n} : /\ role'[p] = role[p] /\ currentTerm'[p] = currentTerm[p]
                                /\ nextIndex'[p] = nextIndex[p] /\ matchIndex'[p] = matchIndex[p]
      BY <1>0, <1>3, <2>1 DEF TypeOK, ServerOK
    <2> HIDE DEF t
    <2>5. Gradual
      BY <1>1, <1>2, <1>3, <1>4, <1>5, <2>1, <2>2, <2>3, <2>4, OfficeIsGradual
    <2> QED BY <2>5, GradualKeeps DEF Step
  <1>7. CASE alone
    <2>1. BecomeLeader(n, t) /\ net' = net
      BY <1>1, <1>7 DEF StartElection, Send
    <2>2. Node = {n}
      <3>1. Cardinality(Node) \in Nat /\ Cardinality(Node) # 0
        BY FS_CardinalityType, FS_EmptySet
      <3>2. Cardinality(Node) = 1
        BY <1>7, <3>1 DEF majority
      <3>3. \E x : Node = {x}
        BY <3>2, FS_Singleton
      <3> QED BY <3>3
    <2>3. [leader |-> n, term |-> t] \notin elected
      BY <1>0, <1>2, WonTermsAreOld DEF Undamaged
    <2>4. /\ role'[n] = "LEADER" /\ \A p \in Node : matchIndex'[n][p] = 0
          /\ \A p \in Node : nextIndex'[n][p] = logLen[n] + 1
      BY <1>0, <2>1 DEF BecomeLeader, TypeOK, ServerOK, LeaderOK
    <2>5. elected \subseteq elected' /\ CampaignsMove
      BY <2>1 DEF BecomeLeader, CampaignsMove
    <2>6. t # 0
      BY <1>2
    <2> HIDE DEF t
    <2>7. Takes(n)
      BY <1>1, <1>4, <2>2, <2>3, <2>4, <2>6 DEF Takes
    <2>8. \A p \in Node : nextIndex'[n][p] <= logLen[n] + 1
      BY <1>2, <2>4
    <2>9. Gradual
      BY <1>1, <1>2, <1>3, <1>4, <1>5, <2>1, <2>2, <2>4, <2>5, <2>7, <2>8, OfficeIsGradual
    <2> QED BY <2>9, GradualKeeps DEF Step
  <1> QED BY <1>6, <1>7

\* A restart: the node comes back as it was, and holds no office.
LEMMA CommitRestart ==
    ASSUME Step, NEW n \in Node, Restart(n)
    PROVE  CommitInv'
  <1>0. TypeOK /\ LogInv /\ Undamaged /\ MaxFaults = 0
    BY DEF Step, CommitInv
  <1>1. Restore(n, disk[n], TRUE) /\ currentTerm'[n] = currentTerm[n]
    BY <1>0, UndamagedRestart
  <1>2. UNCHANGED <<net, votes, elected, committed>>
    BY DEF Restart, history
  <1>3. role'[n] = "FOLLOWER" /\ currentTerm[n] \in Nat
    BY <1>0 DEF Restart, TypeOK, ServerOK, Term
  <1>4. \A p \in Node \ {n} : /\ role'[p] = role[p] /\ currentTerm'[p] = currentTerm[p]
                              /\ nextIndex'[p] = nextIndex[p] /\ matchIndex'[p] = matchIndex[p]
    BY <1>0, <1>1 DEF Restart, Restore, ClearCounters, TypeOK, ServerOK, LeaderOK
  <1>5. ASSUME NEW p \in Node PROVE SameLog(p)
    <2>1. CASE p = n
      <3>1. logLen'[n] = disk[n].len /\ log'[n] = disk[n].log
        BY <1>0, <1>1 DEF Restore, TypeOK, LogOK
      <3> QED BY <1>0, <2>1, <3>1, NoFault DEF SameLog
    <2>2. CASE p # n
      BY <1>0, <1>1, <2>2 DEF Restore, TypeOK, LogOK, SameLog
    <2> QED BY <2>1, <2>2
  <1>6. Calm
    BY <1>1, <1>2, <1>3, <1>4, <1>5, OneCalm
  <1> QED BY <1>2, <1>6, CalmKeeps DEF Step

\* What raft_append_entries sends is a part of the leader's log, not beyond its end.
LEMMA RequestIsPart ==
    ASSUME TypeOK, NEW n \in Node, NEW p \in Node, role[n] = "LEADER",
           nextIndex[n][p] <= logLen[n] + 1
    PROVE  PartOf(MessageRun(AppendRequest(n, p)), MemoryRun(n))
  <1> DEFINE prev == nextIndex[n][p] - 1
             count == Lesser(Batch, IF prev < logLen[n] THEN logLen[n] - prev ELSE 0)
             es == [i \in 1 .. count |-> log[n][prev + i]]
             m == AppendRequest(n, p)
             q == MessageRun(m)
  <1>1. prev \in Nat /\ logLen[n] \in Nat /\ prev <= logLen[n]
    <2>1. nextIndex[n][p] \in 0 .. LogCap + 1 /\ nextIndex[n][p] >= 1
      BY DEF TypeOK, LeaderOK
    <2>2. logLen[n] \in Nat
      BY DEF TypeOK, LogOK, Index
    <2> QED BY <2>1, <2>2
  <1>2. count \in Nat /\ prev + count <= logLen[n]
    BY <1>1 DEF Lesser
  <1>3. /\ m.prevLogIndex = prev /\ m.entries = es
        /\ m.prevLogTerm = IF prev > 0 THEN log[n][prev].term ELSE 0
    BY DEF AppendRequest
  <1>4. Len(es) = count
    BY <1>2
  <1>5. /\ q.from = prev /\ q.to = prev + count
        /\ q.base = IF prev > 0 THEN log[n][prev].term ELSE 0
    <2> HIDE DEF m, es, count, prev
    <2> QED BY <1>1, <1>2, <1>3, <1>4 DEF q, MessageRun
  <1>6. Piece(q, MemoryRun(n))
    BY RequestIsPiece
  <1> HIDE DEF m, es, count, prev, q
  <1>7. ASSUME NEW k \in q.from + 1 .. q.to PROVE q.cells[k] = MemoryRun(n).cells[k]
    <2>1. k \in Nat /\ Holds(q, k)
      BY <1>1, <1>2, <1>5 DEF Holds
    <2> QED BY <1>6, <2>1 DEF Piece
  <1>8. q.base = TermAt(MemoryRun(n), q.from)
    BY <1>1, <1>5 DEF MemoryRun, TermAt
  <1>9. MemoryRun(n).from <= q.from /\ q.to <= MemoryRun(n).to
    BY <1>1, <1>2, <1>5 DEF MemoryRun
  <1> QED BY <1>7, <1>8, <1>9 DEF PartOf, q, m

\* So is the empty request of heartbeat_tick.
LEMMA HeartbeatIsPart ==
    ASSUME TypeOK, NEW n \in Node, NEW m, m.prevLogIndex = 0, m.entries = <<>>
    PROVE  PartOf(MessageRun(m), MemoryRun(n))
  <1>1. Len(m.entries) = 0
    OBVIOUS
  <1>2. MessageRun(m).from = 0 /\ MessageRun(m).to = 0 /\ MessageRun(m).base = 0
    BY <1>1 DEF MessageRun
  <1>3. logLen[n] \in Nat
    BY DEF TypeOK, LogOK, Index
  <1>4. MemoryRun(n).from = 0 /\ MemoryRun(n).to = logLen[n] /\ MemoryRun(n).base = 0
    BY DEF MemoryRun
  <1> QED BY <1>2, <1>3, <1>4 DEF PartOf, TermAt

\* raft_append_entries and heartbeat_tick.
LEMMA CommitSend ==
    ASSUME Step, NEW n \in Node,
           (\E p \in Node : raft_append_entries(n, p)) \/ heartbeat_tick(n)
    PROVE  CommitInv'
  <1>1. /\ UNCHANGED <<role, log, logLen, currentTerm, nextIndex, matchIndex,
                       votes, elected, committed>>
        /\ role[n] = "LEADER"
    BY DEF raft_append_entries, heartbeat_tick, pstate, lstate, history
  <1>2. LeaderSpeaks
    BY DEF Step, CommitInv, TalkInv
  <1>3. \A m \in net' : m \in net \/
          /\ m.type = "AppendEntries" /\ m.from = n /\ m.term = currentTerm[n]
          /\ PartOf(MessageRun(m), MemoryRun(n))
    <2>1. ASSUME NEW p \in Node, raft_append_entries(n, p), NEW m \in net', m \notin net
          PROVE  /\ m.type = "AppendEntries" /\ m.from = n /\ m.term = currentTerm[n]
                 /\ PartOf(MessageRun(m), MemoryRun(n))
      <3>1. m = AppendRequest(n, p)
        BY <2>1 DEF raft_append_entries, Send
      <3>2. m.type = "AppendEntries" /\ m.from = n /\ m.term = currentTerm[n]
        BY <3>1 DEF AppendRequest
      <3>3. nextIndex[n][p] <= logLen[n] + 1
        BY <1>1, <1>2 DEF LeaderSpeaks
      <3>4. PartOf(MessageRun(AppendRequest(n, p)), MemoryRun(n))
        BY <1>1, <3>3, RequestIsPart DEF Step
      <3> QED BY <3>1, <3>2, <3>4
    <2>2. ASSUME heartbeat_tick(n), NEW m \in net', m \notin net
          PROVE  /\ m.type = "AppendEntries" /\ m.from = n /\ m.term = currentTerm[n]
                 /\ PartOf(MessageRun(m), MemoryRun(n))
      <3>1. /\ m.type = "AppendEntries" /\ m.from = n /\ m.term = currentTerm[n]
            /\ m.prevLogIndex = 0 /\ m.entries = <<>>
        BY <2>2 DEF heartbeat_tick, Send
      <3> QED BY <3>1, HeartbeatIsPart DEF Step
    <2> QED BY <2>1, <2>2
  <1>4. \A p \in Node : SameLog(p) /\ currentTerm[p] \in Nat
    BY <1>1, LogsUntouched DEF Step, Basics, RunsTyped
  <1>5. LogsMove /\ TermsMove /\ CandidatesMove /\ VotesMove /\ CommitsMove
    BY <1>1, <1>4 DEF LogsMove, TermsMove, CandidatesMove, VotesMove, CommitsMove
  <1>6. LeadersMove
    BY <1>1, <1>2 DEF LeadersMove, Stays, LeaderSpeaks
  <1>7. RequestsMove
    BY <1>1, <1>3 DEF RequestsMove, Requests
  <1>8. CampaignsMove /\ SuccessesMove
    BY <1>3 DEF CampaignsMove, SuccessesMove
  <1>9. AcksMove
    <2> SUFFICES ASSUME NEW l \in Node, NEW q \in Node, NEW a \in Acks(l, q)'
                 PROVE  a \in Acks(l, q)
      BY DEF AcksMove
    <2>1. \A m \in net' : m.type = "AppendEntriesResponse" => m \in net
      BY <1>3
    <2> QED BY <1>1, <2>1 DEF Acks
  <1>10. Gradual
    BY <1>1, <1>5, <1>6, <1>7, <1>8, <1>9 DEF Gradual
  <1> QED BY <1>10, GradualKeeps DEF Step

\* The cells are n's log, and the request's entries from position `first' on.
Copied(n, m, first, cells) ==
    /\ \A i \in 1 .. m.prevLogIndex + first - 1 : cells[i] = log[n][i]
    /\ \A i \in m.prevLogIndex + first .. m.prevLogIndex + Len(m.entries) :
         cells[i] = m.entries[i - m.prevLogIndex]

\* A follower that has stored all of a request has its sender's log up to the end of it.
LEMMA StoredAgrees ==
    ASSUME Step, NEW n \in Node, NEW l \in Node, NEW m \in Requests, m \in AppendEntries,
           role[l] = "LEADER", m.from = l, m.term = currentTerm[l],
           NEW first \in 1 .. Len(m.entries) + 1,
           Scan(n, m, first, Len(m.entries)), PrevMatches(n, m),
           NEW cells, Copied(n, m, first, cells)
    PROVE  /\ m.prevLogIndex + Len(m.entries) <= logLen[l]
           /\ \A i \in 1 .. m.prevLogIndex + Len(m.entries) : cells[i] = log[l][i]
  <1> DEFINE prev == m.prevLogIndex
             len == Len(m.entries)
             at == prev + first - 1
             r == MessageRun(m)
             s == MemoryRun(l)
  <1>1. prev \in Nat /\ len \in Nat /\ first \in Nat /\ first <= len + 1 /\ first >= 1 /\ logLen[l] \in Nat
    BY DEF AppendEntries, Index, Step, Basics, RunsTyped
  <1>2. PartOf(r, s)
    BY DEF Step, CommitInv, TalkInv, LeaderSpeaks
  <1>3. /\ HasTerms(r) /\ HasTerms(s) /\ HasTerms(MemoryRun(n)) /\ r.from = prev /\ r.to = prev + len
        /\ s.from = 0 /\ s.to = logLen[l] /\ s.cells = log[l] /\ MemoryRun(n).from = 0
        /\ MemoryRun(n).cells = log[n] /\ logLen[n] \in Nat
        /\ \A i \in 1 .. len : r.cells[prev + i] = m.entries[i]
    BY MessageRunType DEF Step, Basics, RunsTyped
  <1>4. at \in Nat /\ at <= logLen[n] /\ TermAt(MemoryRun(n), at) = TermAt(r, at)
    BY <1>1, LoopStart DEF Step
  <1> HIDE DEF r, s
  <1>5. at \in r.from .. r.to
    BY <1>1, <1>3
  <1>6. TermAt(r, at) = TermAt(s, at)
    BY <1>2, <1>3, <1>5, PartTerms DEF HasTerms
  <1>7. prev + len <= logLen[l] /\ at <= logLen[l]
    BY <1>1, <1>2, <1>3 DEF PartOf
  <1>8. ASSUME NEW i \in 1 .. at PROVE log[n][i] = log[l][i]
    <2>1. at \in Nat \ {0} /\ i \in 0 .. at /\ i > 0
      BY <1>4
    <2>2. log[n][at].term = log[l][at].term
      BY <1>3, <1>4, <1>6, <2>1 DEF TermAt
    <2> QED BY <1>4, <1>7, <2>1, <2>2 DEF Step, Basics, HoldersAgree
  <1>9. ASSUME NEW i \in prev + first .. prev + len PROVE m.entries[i - prev] = log[l][i]
    <2>1. i - prev \in 1 .. len /\ prev + (i - prev) = i /\ i \in r.from + 1 .. r.to
      BY <1>1, <1>3
    <2>2. r.cells[i] = m.entries[i - prev]
      BY <1>3, <2>1
    <2> QED BY <1>2, <1>3, <2>1, <2>2 DEF PartOf
  <1>10. \A i \in 1 .. prev + len : i \in 1 .. at \/ i \in prev + first .. prev + len
    BY <1>1
  <1>11. /\ \A i \in 1 .. at : cells[i] = log[n][i]
         /\ \A i \in prev + first .. prev + len : cells[i] = m.entries[i - prev]
    BY DEF Copied
  <1> QED BY <1>7, <1>8, <1>9, <1>10, <1>11

\* What the loop of HandleAppendEntriesRequest leaves in memory.
LEMMA StoredLog ==
    ASSUME Step, NEW n \in Node, NEW m \in Requests, m \in AppendEntries, AppendStored(n, m),
           NEW last \in 0 .. Len(m.entries), NEW first \in 1 .. last + 1,
           Scan(n, m, first, last), StoreEntries(n, m, first, last)
    PROVE  LET prev == m.prevLogIndex
               at == prev + first - 1
           IN /\ at \in Nat /\ at <= logLen[n]
              /\ currentTerm' = [currentTerm EXCEPT ![n] = m.term]
              /\ \A p \in Node \ {n} : log'[p] = log[p] /\ logLen'[p] = logLen[p]
              /\ logLen'[n] = IF first <= last THEN prev + last ELSE logLen[n]
              /\ \A i \in 1 .. at : log'[n][i] = log[n][i]
              /\ \A i \in prev + first .. prev + last : log'[n][i] = m.entries[i - prev]
              /\ first <= last => Spliced(n, m, at)
              /\ first > last => SameLog(n) /\ at <= logLen'[n]
  <1>1. TypeOK /\ Undamaged /\ Basics
    BY DEF Step, CommitInv
  <1>2. Scan(n, m, first, last) /\ StoreEntries(n, m, first, last)
    OBVIOUS
  <1>3. Follow(n, m, FALSE) /\ PrevMatches(n, m)
    BY DEF AppendStored
  <1> DEFINE prev == m.prevLogIndex
             at == prev + first - 1
             cells == Extended(log[n], at, SubSeq(m.entries, first, last))
             len == IF first <= last THEN prev + last ELSE logLen[n]
  <1>4. currentTerm' = [currentTerm EXCEPT ![n] = m.term]
    BY <1>3 DEF Follow
  <1>5. log' = [log EXCEPT ![n] = cells] /\ logLen' = [logLen EXCEPT ![n] = len]
    BY <1>2 DEF StoreEntries
  <1>6. /\ Len(m.entries) \in Nat /\ prev \in Nat /\ first \in Nat /\ last \in Nat
        /\ logLen[n] \in Nat /\ m.entries \in Seq(Entry) /\ log[n] \in Cells
        /\ first <= last + 1 /\ first >= 1 /\ last <= Len(m.entries)
    BY <1>1 DEF AppendEntries, Index, TypeOK, LogOK
  <1>7. /\ currentTerm'[n] = m.term /\ log'[n] = cells /\ logLen'[n] = len
        /\ \A p \in Node \ {n} : log'[p] = log[p] /\ logLen'[p] = logLen[p]
    BY <1>1, <1>4, <1>5 DEF TypeOK, ServerOK, LogOK
  <1>8. /\ \A i \in 1 .. at : cells[i] = log[n][i]
        /\ \A i \in prev + first .. prev + last : cells[i] = m.entries[i - prev]
        /\ first <= last => Spliced(n, m, at)
        /\ first > last => SameLog(n) /\ at <= len
    <2>0. at \in Nat /\ at <= logLen[n] /\ at + 1 = prev + first
      BY <1>1, <1>2, <1>3, <1>6, LoopStart
    <2>1. CASE first <= last
      <3>1. /\ last \in 1 .. Len(m.entries) /\ first \in 1 .. last
            /\ last \in first - 1 .. last
        BY <1>6, <2>1
      <3>2. /\ \A i \in 1 .. at : cells[i] = log[n][i]
            /\ \A i \in at + 1 .. prev + last : cells[i] = m.entries[i - prev]
            /\ Join([from |-> 0, to |-> prev + last, base |-> 0, cells |-> cells],
                    MemoryRun(n), MessageRun(m), at)
        BY <1>1, <1>2, <1>3, <3>1, LoopMemory
      <3> HIDE DEF cells
      <3>3. MemoryRun(n)' = [from |-> 0, to |-> prev + last, base |-> 0, cells |-> cells]
        BY <1>7, <2>1 DEF MemoryRun
      <3>4. at < logLen'[n]
        BY <1>6, <1>7, <2>1
      <3>5. ASSUME at < logLen[n]
            PROVE  log[n][at + 1].term # MessageRun(m).cells[at + 1].term
        <4>1. ~Present(n, m, first) /\ prev + first <= logLen[n]
          BY <1>2, <1>6, <2>0, <2>1, <3>5 DEF Scan
        <4>2. first \in 1 .. Len(m.entries)
          BY <1>6, <2>1
        <4>3. MessageRun(m).cells[prev + first] = m.entries[first]
          BY <4>2, MessageRunType
        <4> QED BY <2>0, <4>1, <4>3 DEF Present
      <3>6. Spliced(n, m, at)
        BY <1>7, <3>2, <3>3, <3>4, <3>5 DEF Spliced
      <3>7. ~(first > last) /\ at + 1 .. prev + last = prev + first .. prev + last
        BY <1>6, <2>0, <2>1
      <3> HIDE DEF at, len
      <3> QED BY <3>2, <3>6, <3>7, Zenon
    <2>2. CASE first > last
      <3>1. Len(SubSeq(m.entries, first, last)) = 0 /\ at \in Nat
        BY <1>6, <2>0, <2>2
      <3>2. cells = log[n]
        <4> DEFINE new == SubSeq(m.entries, first, last)
        <4>1. Len(new) = 0
          BY <3>1
        <4> HIDE DEF new
        <4>2. Extended(log[n], at, new) = log[n]
          BY <1>6, <3>1, <4>1, ExtendedNothing
        <4> QED BY <4>2 DEF new
      <3> HIDE DEF cells
      <3>3. SameLog(n) /\ at <= len
        BY <1>6, <1>7, <2>0, <2>2, <3>2 DEF SameLog
      <3>4. \A i \in prev + first .. prev + last : FALSE
        BY <1>6, <2>2
      <3> QED BY <1>6, <2>2, <3>2, <3>3, <3>4
    <2>3. first <= last \/ first > last
      BY <1>6
    <2> HIDE DEF cells
    <2> QED BY <2>1, <2>2, <2>3
  <1>9. at \in Nat /\ at <= logLen[n]
    BY <1>1, <1>2, <1>3, <1>6, LoopStart
  <1> HIDE DEF cells
  <1>10. /\ \A i \in 1 .. at : log'[n][i] = log[n][i]
         /\ \A i \in prev + first .. prev + last : log'[n][i] = m.entries[i - prev]
    BY <1>7, <1>8
  <1>11. /\ first <= last => Spliced(n, m, at)
         /\ first > last => SameLog(n) /\ at <= logLen'[n]
    BY <1>7, <1>8
  <1> QED BY <1>4, <1>7, <1>9, <1>10, <1>11

\* HandleAppendEntriesRequest stores what a leader sent.
LEMMA CommitAppendStored ==
    ASSUME Step, NEW n \in Node, NEW m \in Requests, m \in AppendEntries, AppendStored(n, m)
    PROVE  CommitInv'
  <1>0. TypeOK /\ Undamaged /\ Basics /\ LeaderSpeaks
    BY DEF Step, CommitInv, TalkInv
  <1>1. PICK last \in 0 .. Len(m.entries) : \E first \in 1 .. last + 1 :
          Scan(n, m, first, last) /\ StoreEntries(n, m, first, last)
    BY DEF AppendStored
  <1>2. PICK first \in 1 .. last + 1 :
          Scan(n, m, first, last) /\ StoreEntries(n, m, first, last)
    BY <1>1
  <1>3. Follow(n, m, FALSE) /\ PrevMatches(n, m) /\ UNCHANGED <<votes, elected, committed>>
    BY DEF AppendStored, history
  <1> DEFINE prev == m.prevLogIndex
             at == prev + first - 1
             cells == Extended(log[n], at, SubSeq(m.entries, first, last))
             len == IF first <= last THEN prev + last ELSE logLen[n]
             reply == [type |-> "AppendEntriesResponse", from |-> n, to |-> m.from,
                       term |-> m.term, success |-> last = Len(m.entries),
                       matchIndex |-> IF last = Len(m.entries) THEN prev + Len(m.entries) ELSE 0]
  <1>4. /\ role' = [role EXCEPT ![n] = "FOLLOWER"]
        /\ currentTerm' = [currentTerm EXCEPT ![n] = m.term]
        /\ m.term >= currentTerm[n]
    BY <1>0, <1>3 DEF Follow, Undamaged
  <1>5. \A p \in Node \ {n} : nextIndex'[p] = nextIndex[p] /\ matchIndex'[p] = matchIndex[p]
    BY <1>0, <1>3 DEF Follow, ClearCounters, TypeOK, LeaderOK
  <1>6. \A k \in net' : k \in net \/ k = reply
    BY <1>2 DEF StoreEntries, AppendReply, Answer
  <1>7. log' = [log EXCEPT ![n] = cells] /\ logLen' = [logLen EXCEPT ![n] = len]
    BY <1>2 DEF StoreEntries
  <1>8. /\ Len(m.entries) \in Nat /\ prev \in Nat /\ first \in Nat /\ last \in Nat
        /\ logLen[n] \in Nat /\ m.entries \in Seq(Entry) /\ log[n] \in Cells
        /\ first <= last + 1 /\ first >= 1 /\ last <= Len(m.entries)
    BY <1>0 DEF AppendEntries, Index, TypeOK, LogOK
  <1>9. /\ role'[n] = "FOLLOWER" /\ currentTerm'[n] = m.term
        /\ log'[n] = cells /\ logLen'[n] = len
        /\ \A p \in Node \ {n} : /\ role'[p] = role[p] /\ currentTerm'[p] = currentTerm[p]
                                 /\ log'[p] = log[p] /\ logLen'[p] = logLen[p]
    BY <1>0, <1>4, <1>7 DEF TypeOK, ServerOK, LogOK
  <1>10. /\ \A i \in 1 .. at : cells[i] = log[n][i]
         /\ \A i \in prev + first .. prev + last : cells[i] = m.entries[i - prev]
         /\ first <= last => Spliced(n, m, at)
         /\ first > last => SameLog(n) /\ at <= len
    <2> HIDE DEF cells
    <2> QED BY <1>2, <1>9, StoredLog
  <1> HIDE DEF cells
  <1>11. LogsMove
    <2>1. \A p \in Node \ {n} : SameLog(p)
      BY <1>9 DEF SameLog
    <2>2. SameLog(n) \/ \E k \in Requests, a \in Nat : Spliced(n, k, a)
      BY <1>8, <1>10
    <2> QED BY <1>9, <2>1, <2>2 DEF LogsMove
  <1>12. TermsMove /\ VotesMove /\ CommitsMove
    <2>1. \A p \in Node : currentTerm[p] <= currentTerm'[p]
      <3>1. \A p \in Node : currentTerm[p] \in Nat /\ currentTerm'[p] \in Nat
        BY DEF Step, Basics, RunsTyped
      <3> QED BY <1>4, <1>9, <3>1
    <2> QED BY <1>3, <2>1 DEF TermsMove, VotesMove, CommitsMove
  <1>13. CandidatesMove
    BY <1>9 DEF CandidatesMove
  <1>14. LeadersMove
    BY <1>0, <1>5, <1>9 DEF LeadersMove, Stays, LeaderSpeaks
  <1>15. RequestsMove /\ CampaignsMove
    BY <1>6 DEF RequestsMove, CampaignsMove, Requests
  <1>16. SuccessesMove
    <2>1. [leader |-> m.from, term |-> m.term] \in elected
      BY <1>0 DEF Basics, VoicesAreElected, Requests
    <2>2. reply.to = m.from /\ reply.term = m.term
      OBVIOUS
    <2> QED BY <1>6, <2>1, <2>2 DEF SuccessesMove
  <1>17. AcksMove
    <2> SUFFICES ASSUME NEW l \in Node, NEW q \in Node, role'[l] = "LEADER", Stays(l), l # q,
                        NEW a \in Acks(l, q)', a \notin Acks(l, q)
                 PROVE  Stored(l, q, a)
      BY DEF AcksMove
    <2>1. /\ l # n /\ role[l] = "LEADER" /\ currentTerm'[l] = currentTerm[l]
          /\ matchIndex'[l] = matchIndex[l] /\ logLen'[l] = logLen[l] /\ log'[l] = log[l]
      BY <1>5, <1>9 DEF Stays
    <2>2. PICK k \in net' : /\ k.type = "AppendEntriesResponse" /\ k.from = q /\ k.to = l
                            /\ k.success /\ k.term = currentTerm[l] /\ k.matchIndex = a
                            /\ k \notin net
      BY <2>1 DEF Acks
    <2>3. k = reply
      BY <1>6, <2>2
    <2>4. /\ q = n /\ m.from = l /\ m.term = currentTerm[l] /\ last = Len(m.entries)
          /\ a = prev + Len(m.entries)
      BY <2>2, <2>3
    <2>5. first \in 1 .. Len(m.entries) + 1 /\ Scan(n, m, first, Len(m.entries))
      BY <1>2, <2>4
    <2>6. /\ \A i \in 1 .. prev + first - 1 : cells[i] = log[n][i]
          /\ \A i \in prev + first .. prev + Len(m.entries) : cells[i] = m.entries[i - prev]
      BY <1>10, <2>4
    <2>7. /\ prev + Len(m.entries) <= logLen[l]
          /\ \A i \in 1 .. prev + Len(m.entries) : cells[i] = log[l][i]
      <3>1. Copied(n, m, first, cells)
        BY <2>6 DEF Copied
      <3> QED BY <1>3, <2>1, <2>4, <2>5, <3>1, StoredAgrees
    <2>8. a <= len
      <3>1. CASE first <= last
        BY <1>8, <2>4, <3>1
      <3>2. CASE ~(first <= last)
        <4>1. first > last /\ first = last + 1
          BY <1>8, <3>2
        <4>2. at <= len
          BY <1>10, <4>1
        <4>3. at = a
          BY <1>8, <2>4, <4>1
        <4> QED BY <4>2, <4>3
      <3> QED BY <3>1, <3>2
    <2> QED BY <1>9, <2>1, <2>4, <2>7, <2>8 DEF Stored
  <1>18. Gradual
    BY <1>3, <1>11, <1>12, <1>13, <1>14, <1>15, <1>16, <1>17 DEF Gradual
  <1> QED BY <1>18, GradualKeeps DEF Step

\* HandleAppendEntriesRequest.
LEMMA CommitAppendRequest ==
    ASSUME Step, LogInv', NEW n \in Node, HandleAppendEntriesRequest(n)
    PROVE  CommitInv'
  <1>0. TypeOK /\ TypeOK' /\ LogInv /\ Undamaged /\ MaxFaults = 0
    BY DEF Step, CommitInv
  <1>1. PICK m \in Inbox(n, "AppendEntries") :
          \/ AppendStale(n, m) \/ AppendTermFault(n, m) \/ AppendMismatch(n, m)
          \/ AppendStored(n, m) \/ AppendTruncateFault(n, m) \/ AppendEntryFault(n, m)
    BY DEF HandleAppendEntriesRequest
  <1>2. m \in AppendEntries /\ m \in Requests
    BY <1>0, InboxType DEF TypeOK, Requests
  <1>3. AppendStale(n, m) \/ AppendMismatch(n, m) \/ AppendStored(n, m)
    BY <1>0, <1>1, <1>2, UndamagedAppend
  <1>4. CASE AppendStale(n, m)
    <2>1. \A k \in net' : k \in net \/ (k.type = "AppendEntriesResponse" /\ ~k.success)
      BY <1>4 DEF AppendStale, AppendReply, Answer
    <2> QED BY <1>4, <2>1, IdleKeeps DEF AppendStale, Step
  <1>5. CASE AppendMismatch(n, m)
    <2>1. Follow(n, m, FALSE) /\ UNCHANGED <<log, logLen, votes, elected, committed>>
      BY <1>5 DEF AppendMismatch, history
    <2>2. \A k \in net' : k \in net \/ (k.type = "AppendEntriesResponse" /\ ~k.success)
      BY <1>5 DEF AppendMismatch, AppendReply, Answer
    <2>3. /\ role' = [role EXCEPT ![n] = "FOLLOWER"] /\ m.term >= currentTerm[n]
          /\ currentTerm' = [currentTerm EXCEPT ![n] = m.term]
      BY <1>0, <2>1 DEF Follow, Undamaged
    <2>4. \A p \in Node \ {n} : /\ role'[p] = role[p] /\ currentTerm'[p] = currentTerm[p]
                                /\ nextIndex'[p] = nextIndex[p] /\ matchIndex'[p] = matchIndex[p]
      BY <1>0, <2>1, <2>3 DEF Follow, ClearCounters, TypeOK, ServerOK, LeaderOK
    <2>5. role'[n] = "FOLLOWER" /\ currentTerm'[n] >= currentTerm[n]
      BY <1>0, <2>3 DEF TypeOK, ServerOK
    <2>6. Calm
      BY <2>1, <2>2, <2>4, <2>5, LogsUntouched, OneCalm
    <2> QED BY <2>1, <2>6, CalmKeeps DEF Step
  <1>6. CASE AppendStored(n, m)
    BY <1>2, <1>6, CommitAppendStored
  <1> QED BY <1>3, <1>4, <1>5, <1>6

\* A leader has moved its commitIndex from i0 to k, an entry of its term that Q acked.
LEMMA CommitsWith ==
    ASSUME Step, NEW n \in Node, role'[n] = "LEADER", NEW k \in 1 .. logLen'[n], NEW i0 \in Nat,
           i0 < k, log'[n][k].term = currentTerm'[n],
           committed' = committed \cup {[entry |-> log'[n][i], at |-> currentTerm'[n]] : i \in i0 + 1 .. k},
           NEW Q \in Majority, \A q \in Q : Acked(n, q, k)'
    PROVE  CommitsMove
  <1>1. logLen'[n] \in Index /\ log'[n] \in Cells
    BY DEF Step, TypeOK, LogOK
  <1>2. k \in Nat /\ logLen'[n] \in Nat /\ k <= logLen'[n] /\ logLen'[n] <= LogCap
    BY <1>1 DEF Index
  <1>3. ASSUME NEW i \in 1 .. k, NEW x, x = log'[n][i]
        PROVE  x \in Entry /\ x.index = i /\ HasEntry(n, x)'
    <2>1. i \in 1 .. LogCap /\ i \in Nat /\ i <= logLen'[n] /\ i \in 1 .. logLen'[n]
      BY <1>2
    <2>2. x \in Entry
      BY <1>1, <1>3, <2>1 DEF Cells
    <2>3. /\ MemoryRun(n)' \in Runs' /\ MemoryRun(n)'.from = 0 /\ MemoryRun(n)'.to = logLen'[n]
          /\ MemoryRun(n)'.cells = log'[n] /\ RunsAreElected'
      BY DEF Step, Basics, RunsTyped
    <2>4. x.index = i
      BY <1>3, <2>1, <2>3 DEF RunsAreElected
    <2> QED BY <1>3, <2>1, <2>2, <2>4 DEF HasEntry
  <1>4. PICK e : e = log'[n][k]
    OBVIOUS
  <1>5. /\ e \in Entry /\ e.index = k /\ e.index > 0 /\ HasEntry(n, e)'
        /\ e.term = currentTerm'[n]
    <2>1. k \in 1 .. k /\ k > 0
      BY <1>2
    <2> QED BY <1>3, <1>4, <2>1
  <1>6. [entry |-> e, at |-> e.term] \in committed'
    <2>1. k \in i0 + 1 .. k
      BY <1>2
    <2> QED BY <1>4, <1>5, <2>1
  <1>7. ASSUME NEW c \in committed', c \notin committed
        PROVE  c.at = e.term /\ c.entry.index \in 1 .. e.index /\ HasEntry(n, c.entry)'
    <2>1. PICK i \in i0 + 1 .. k : c = [entry |-> log'[n][i], at |-> currentTerm'[n]]
      BY <1>7
    <2>2. i \in 1 .. k
      BY <1>2
    <2>3. c.at = currentTerm'[n] /\ c.entry = log'[n][i]
      BY <2>1
    <2>4. c.entry.index = i /\ HasEntry(n, c.entry)'
      BY <1>3, <2>2, <2>3
    <2> QED BY <1>5, <2>2, <2>3, <2>4
  <1>8. \E R \in Majority : \A q \in R : Acked(n, q, e.index)'
    BY <1>5
  <1> QED BY <1>5, <1>6, <1>7, <1>8 DEF CommitsMove

\* A leader takes in a response.
LEMMA LeaderLearns ==
    ASSUME Step, NEW n \in Node, role[n] = "LEADER",
           UNCHANGED <<role, log, logLen, currentTerm, votes, elected>>, net' \subseteq net,
           \A p \in Node : nextIndex'[n][p] <= logLen[n] + 1 /\ matchIndex'[n][p] \in Acks(n, p),
           \A p \in Node \ {n} : nextIndex'[p] = nextIndex[p] /\ matchIndex'[p] = matchIndex[p],
           committed \subseteq committed', CommitsMove
    PROVE  CommitInv'
  <1>1. \A p \in Node : SameLog(p) /\ currentTerm[p] \in Nat
    BY LogsUntouched DEF Step, Basics, RunsTyped
  <1>2. LogsMove /\ TermsMove /\ CandidatesMove /\ VotesMove
    BY <1>1 DEF LogsMove, TermsMove, CandidatesMove, VotesMove
  <1>3. RequestsMove /\ CampaignsMove /\ SuccessesMove
    BY DEF RequestsMove, CampaignsMove, SuccessesMove, Requests
  <1>4. LeadersMove
    BY DEF LeadersMove, Stays, Step, CommitInv, TalkInv, LeaderSpeaks
  <1>5. AcksMove
    <2> SUFFICES ASSUME NEW l \in Node, NEW q \in Node, NEW a \in Acks(l, q)'
                 PROVE  a \in Acks(l, q)
      BY DEF AcksMove
    <2>1. matchIndex'[l][q] \in Acks(l, q)
      BY DEF Acks
    <2> QED BY <2>1 DEF Acks
  <1>6. Gradual
    BY <1>2, <1>3, <1>4, <1>5 DEF Gradual
  <1> QED BY <1>6, GradualKeeps DEF Step

\* HandleAppendEntriesResponse: a follower has stored the leader's log so far, and the
\* leader commits what a majority has.
LEMMA CommitPeerAccepted ==
    ASSUME Step, NEW n \in Node, NEW m \in AppendEntriesResponse, m \in net, m.to = n,
           role[n] = "LEADER", m.term = currentTerm[n], KnownPeer(n, m.from), m.success,
           PeerAccepted(n, m), net' \subseteq net,
           UNCHANGED <<role, log, logLen, currentTerm, votes, elected>>
    PROVE  CommitInv'
  <1>0. TypeOK /\ LeaderSpeaks /\ AcksHold
    BY DEF Step, CommitInv, TalkInv
  <1> DEFINE f == m.from
             match == IF Moves(n, m) THEN [matchIndex[n] EXCEPT ![f] = m.matchIndex] ELSE matchIndex[n]
             i0 == commitIndex[n]
  <1>1. /\ f \in Node /\ f # n /\ m.type = "AppendEntriesResponse" /\ m.matchIndex \in Nat
        /\ nextIndex[n][f] \in Nat /\ nextIndex[n][f] >= 1 /\ logLen[n] \in Nat /\ i0 \in Nat
    <2>1. f \in Node /\ f # n /\ m.type = "AppendEntriesResponse" /\ m.matchIndex \in Nat
      BY DEF KnownPeer, Peers, AppendEntriesResponse, Index
    <2>2. nextIndex[n][f] \in 0 .. LogCap + 1 /\ nextIndex[n][f] >= 1
      BY <1>0, <2>1 DEF TypeOK, LeaderOK
    <2>3. logLen[n] \in Nat /\ i0 \in Nat
      BY <1>0 DEF TypeOK, LogOK, Index
    <2> QED BY <2>1, <2>2, <2>3
  <1>2. /\ matchIndex' = [matchIndex EXCEPT ![n] = match]
        /\ nextIndex' = [nextIndex EXCEPT ![n][f] = IF Moves(n, m) THEN m.matchIndex + 1 ELSE @]
    BY DEF PeerAccepted
  <1>3. m.matchIndex \in Acks(n, f)
    BY <1>1 DEF Acks
  <1>4. Moves(n, m) => m.matchIndex + 1 <= logLen[n] + 1
    <2> SUFFICES ASSUME Moves(n, m) PROVE m.matchIndex <= logLen[n]
      BY <1>1
    <2>1. m.matchIndex > 0
      BY <1>1 DEF Moves
    <2> QED BY <1>0, <1>1, <1>3, <2>1 DEF AcksHold
  <1>5. matchIndex'[n] = match /\ \A p \in Node : match[p] \in Acks(n, p)
    <2>1. matchIndex'[n] = match
      BY <1>0, <1>2 DEF TypeOK, LeaderOK
    <2>2. \A p \in Node : matchIndex[n][p] \in Acks(n, p)
      BY DEF Acks
    <2>3. \A p \in Node : match[p] = matchIndex[n][p] \/ (p = f /\ match[p] = m.matchIndex)
      BY <1>0 DEF TypeOK, LeaderOK
    <2> QED BY <1>3, <2>1, <2>2, <2>3
  <1>6. \A p \in Node : nextIndex'[n][p] <= logLen[n] + 1
    <2>1. \A p \in Node : nextIndex[n][p] <= logLen[n] + 1
      BY <1>0 DEF LeaderSpeaks
    <2>2. \A p \in Node : \/ nextIndex'[n][p] = nextIndex[n][p]
                          \/ Moves(n, m) /\ nextIndex'[n][p] = m.matchIndex + 1
      BY <1>0, <1>1, <1>2 DEF TypeOK, LeaderOK
    <2> QED BY <1>4, <2>1, <2>2
  <1>7. \A p \in Node \ {n} : nextIndex'[p] = nextIndex[p] /\ matchIndex'[p] = matchIndex[p]
    BY <1>0, <1>2 DEF TypeOK, LeaderOK
  <1>8. CommitsMove /\ committed \subseteq committed'
    <2>1. CASE committed' = committed
      BY <2>1 DEF CommitsMove
    <2>2. CASE \E k \in Replicated(n, match) : Commit(n, k, log[n])
      <3>1. PICK k \in Replicated(n, match) : Commit(n, k, log[n])
        BY <2>2
      <3> HIDE DEF match
      <3>2. /\ k \in i0 + 1 .. logLen[n] /\ log[n][k].term = currentTerm[n]
            /\ Cardinality({p \in Peers(n) : match[p] >= k}) + 1 >= majority(Cardinality(Node))
        BY DEF Replicated
      <3> DEFINE S == {p \in Peers(n) : match[p] >= k}
      <3>3. k \in 1 .. logLen'[n] /\ i0 < k
        BY <1>1, <3>2
      <3>4. S \cup {n} \in Majority
        <4>1. S \subseteq Node /\ n \notin S
          BY DEF Peers
        <4>2. IsFiniteSet(S)
          BY <4>1, FS_Subset
        <4>3. Cardinality(S \cup {n}) = Cardinality(S) + 1
          BY <4>1, <4>2, FS_AddElement
        <4> HIDE DEF S
        <4>4. Cardinality(S) + 1 >= majority(Cardinality(Node))
          BY <3>2 DEF S
        <4> QED BY <4>1, <4>3, <4>4 DEF Majority
      <3>5. \A q \in S \cup {n} : Acked(n, q, k)'
        <4>1. \A q \in S : matchIndex'[n][q] >= k
          BY <1>5 DEF match
        <4>2. \A q : matchIndex'[n][q] \in Acks(n, q)'
          BY DEF Acks
        <4> HIDE DEF S
        <4> QED BY <4>1, <4>2 DEF Acked
      <3>6. committed' = committed \cup {[entry |-> log'[n][i], at |-> currentTerm'[n]] : i \in i0 + 1 .. k}
        BY <3>1 DEF Commit
      <3> HIDE DEF S, i0
      <3> QED BY <1>1, <3>2, <3>3, <3>4, <3>5, <3>6, CommitsWith
    <2> QED BY <2>1, <2>2 DEF PeerAccepted
  <1> HIDE DEF match
  <1> QED BY <1>5, <1>6, <1>7, <1>8, LeaderLearns

\* HandleAppendEntriesResponse.
LEMMA CommitAppendResponse ==
    ASSUME Step, NEW n \in Node, HandleAppendEntriesResponse(n)
    PROVE  CommitInv'
  <1>0. TypeOK /\ LeaderSpeaks
    BY DEF Step, CommitInv, TalkInv
  <1>1. PICK m \in Inbox(n, "AppendEntriesResponse") :
          /\ Answer(m, {})
          /\ \/ IgnoreResponse
             \/ Newer(n, m) /\ StepDown(n, m.term)
             \/ /\ role[n] = "LEADER" /\ m.term = currentTerm[n] /\ KnownPeer(n, m.from)
                /\ IF m.success THEN PeerAccepted(n, m) ELSE PeerRefused(n, m)
                /\ UNCHANGED <<role, leaderId, pstate, applied, cstate, fd, disk, votes, elected, overran, budget>>
    BY DEF HandleAppendEntriesResponse
  <1>2. net' \subseteq net
    BY <1>1 DEF Answer
  <1>3. m \in AppendEntriesResponse /\ m \in net /\ m.to = n /\ m.term \in Term /\ m.from \in Node
    BY <1>0, InboxType DEF TypeOK
  <1>4. CASE IgnoreResponse
    BY <1>2, <1>4, IdleKeeps DEF IgnoreResponse, Step
  <1>5. CASE Newer(n, m) /\ StepDown(n, m.term)
    BY <1>2, <1>3, <1>5, CommitStepDown DEF Newer
  <1>6. CASE /\ role[n] = "LEADER" /\ m.term = currentTerm[n] /\ KnownPeer(n, m.from)
             /\ IF m.success THEN PeerAccepted(n, m) ELSE PeerRefused(n, m)
             /\ UNCHANGED <<role, leaderId, pstate, applied, cstate, fd, disk, votes, elected, overran, budget>>
    <2>1. UNCHANGED <<role, log, logLen, currentTerm, votes, elected>>
      BY <1>6 DEF pstate
    <2>2. CASE m.success
      BY <1>2, <1>3, <1>6, <2>1, <2>2, CommitPeerAccepted
    <2>3. CASE ~m.success
      <3>1. PeerRefused(n, m)
        BY <1>6, <2>3
      <3>2. matchIndex' = matchIndex /\ committed' = committed
        BY <3>1 DEF PeerRefused
      <3>3. \A p \in Node : nextIndex[n][p] \in Nat /\ logLen[n] \in Nat
        BY DEF Step, Basics, RunsTyped
      <3>4. nextIndex' = [nextIndex EXCEPT ![n][m.from] = IF @ > 1 THEN @ - 1 ELSE @]
        BY <3>1 DEF PeerRefused
      <3>5. \A p \in Node : nextIndex'[n][p] \in {nextIndex[n][p], nextIndex[n][p] - 1}
        BY <1>0, <1>3, <3>4 DEF TypeOK, LeaderOK
      <3>6. \A p \in Node : nextIndex[n][p] <= logLen[n] + 1
        BY <1>0, <1>6 DEF LeaderSpeaks
      <3>7. \A p \in Node : nextIndex'[n][p] <= logLen[n] + 1 /\ matchIndex'[n][p] \in Acks(n, p)
        BY <3>2, <3>3, <3>5, <3>6 DEF Acks
      <3>8. \A p \in Node \ {n} : nextIndex'[p] = nextIndex[p] /\ matchIndex'[p] = matchIndex[p]
        BY <1>0, <3>2, <3>4 DEF TypeOK, LeaderOK
      <3> QED BY <1>2, <1>6, <2>1, <3>2, <3>7, <3>8, LeaderLearns DEF CommitsMove
    <2> QED BY <2>2, <2>3
  <1> QED BY <1>1, <1>4, <1>5, <1>6

\* raft_leader_send_command: the entry is new, and only a lone server commits it at once.
LEMMA CommitCommand ==
    ASSUME Step, NEW n \in Node, raft_leader_send_command(n)
    PROVE  CommitInv'
  <1>0. TypeOK /\ TypeOK' /\ LogInv /\ Undamaged /\ MaxFaults = 0
    BY DEF Step, CommitInv
  <1>1. PICK x \in Command : AcceptCommand(n, x, "ok")
    BY <1>0, NoFault DEF raft_leader_send_command
  <1>2. PICK k : k = logLen[n] + 1
    OBVIOUS
  <1>3. PICK e : e = [index |-> k, term |-> currentTerm[n], command |-> x]
    OBVIOUS
  <1> DEFINE cells == [log[n] EXCEPT ![k] = e]
  <1>4. /\ log' = [log EXCEPT ![n] = cells] /\ logLen' = [logLen EXCEPT ![n] = k]
        /\ role[n] = "LEADER" /\ logLen[n] < LogCap
        /\ UNCHANGED <<role, currentTerm, net, votes, elected, nextIndex, matchIndex>>
    BY <1>1, <1>2, <1>3 DEF raft_leader_send_command, AcceptCommand, lstate
  <1>5. /\ logLen[n] \in Nat /\ k \in Nat /\ k > 0 /\ k \in 1 .. LogCap /\ log[n] \in Cells
        /\ commitIndex[n] \in Nat
    BY <1>0, <1>2, <1>4 DEF TypeOK, LogOK, Index
  <1>6. /\ logLen'[n] = k /\ log'[n] = cells /\ log'[n][k] = e
        /\ \A i \in 1 .. logLen[n] : log'[n][i] = log[n][i]
        /\ \A p \in Node : p # n => log'[p] = log[p] /\ logLen'[p] = logLen[p]
    <2>1. /\ logLen'[n] = k /\ log'[n] = cells
          /\ \A p \in Node : p # n => log'[p] = log[p] /\ logLen'[p] = logLen[p]
      BY <1>0, <1>4 DEF TypeOK, LogOK
    <2>2. cells[k] = e /\ \A i \in 1 .. logLen[n] : cells[i] = log[n][i]
      BY <1>2, <1>5 DEF Cells
    <2> QED BY <2>1, <2>2
  <1>7. e.index = k /\ e.term = currentTerm[n]
    BY <1>3
  <1>8. e \in Entry
    <2>1. log'[n] \in Cells
      BY <1>0 DEF TypeOK, LogOK
    <2> QED BY <1>5, <1>6, <2>1 DEF Cells
  <1>9. CommitsMove /\ committed \subseteq committed'
    <2>1. CASE committed' = committed
      BY <2>1 DEF CommitsMove
    <2>2. CASE majority(Cardinality(Node)) = 1 /\ Commit(n, k, cells)
      <3>1. committed' = committed \cup {[entry |-> log'[n][i], at |-> currentTerm'[n]]
                                           : i \in commitIndex[n] + 1 .. k}
        BY <1>4, <1>6, <2>2 DEF Commit
      <3>2. CASE commitIndex[n] < k
        <4>1. {n} \in Majority
          <5>1. Cardinality({n}) = 1
            BY FS_Singleton
          <5> QED BY <2>2, <5>1 DEF Majority
        <4>2. \A q \in {n} : Acked(n, q, k)'
          BY DEF Acked
        <4>3. k \in 1 .. logLen'[n] /\ log'[n][k].term = currentTerm'[n] /\ role'[n] = "LEADER"
          BY <1>4, <1>5, <1>6, <1>7
        <4> HIDE DEF cells
        <4>4. CommitsMove
          BY <1>5, <3>1, <3>2, <4>1, <4>2, <4>3, CommitsWith
        <4> QED BY <3>1, <4>4
      <3>3. CASE ~(commitIndex[n] < k)
        <4>1. commitIndex[n] + 1 .. k = {}
          BY <1>5, <3>3
        <4>2. committed' = committed
          BY <3>1, <4>1
        <4> QED BY <2>1, <4>2
      <3> QED BY <3>2, <3>3
    <2> QED BY <1>1, <1>2, <1>3, <2>1, <2>2 DEF AcceptCommand
  <1> HIDE DEF cells
  <1>10. Grows(n, e)
    <2>1. IsEntry(e)
      BY <1>5, <1>7, <1>8, EntryType
    <2>2. HasEntry(n, e)'
      <3>1. e.index <= logLen'[n] /\ log'[n][e.index] = e
        BY <1>5, <1>6, <1>7
      <3> QED BY <3>1 DEF HasEntry
    <2> QED BY <1>4, <1>6, <1>7, <1>2, <2>1, <2>2 DEF Grows
  <1> QED BY <1>9, <1>10, GrowsKeeps DEF Step

\* Every log is empty and nothing has been sent.
LEMMA CommitInit == Init => CommitInv
  <1> SUFFICES ASSUME Init PROVE CommitInv
    OBVIOUS
  <1>1. Undamaged
    BY DEF Init, Undamaged, EmptyStore
  <1>2. Requests = {} /\ \A r \in LogRuns : r.from = 0 /\ r.to = 0 /\ r.base = 0
    BY DEF Init, Requests, LogRuns, MemoryRun
  <1>3. \A r \in LogRuns : \A i \in r.from .. r.to : i = 0 /\ TermAt(r, i) = 0
    BY <1>2 DEF TermAt
  <1>4. TermsRise /\ TermsWon
    BY <1>3 DEF TermsRise, TermsWon, Rises
  <1>5. TermsPast
    <2>1. \A n \in Node : MemoryRun(n) \in LogRuns /\ logLen[n] = 0 /\ currentTerm[n] = 0
      BY DEF Init, LogRuns
    <2>2. ASSUME NEW n \in Node, NEW i \in 0 .. logLen[n]
          PROVE  TermAt(MemoryRun(n), i) <= currentTerm[n]
      <3>1. i \in MemoryRun(n).from .. MemoryRun(n).to
        BY DEF MemoryRun
      <3>2. TermAt(MemoryRun(n), i) = 0
        BY <1>3, <2>1, <3>1
      <3> QED BY <2>1, <3>2
    <2> QED BY <1>2, <2>2 DEF TermsPast
  <1>6. LeaderIsAhead /\ TalkInv
    BY <1>2 DEF Init, LeaderIsAhead, TalkInv, VotesAreCampaigns, RequestsShowLog, LeaderSpeaks,
                AcksHold, SuccessIsWon
  <1>7. OpenIsSafe /\ CommittedIsSafe
    BY DEF Init, OpenIsSafe, CommittedIsSafe
  <1> QED BY <1>1, <1>4, <1>5, <1>6, <1>7 DEF CommitInv, TermsInv

\* Every step keeps CommitInv.
LEMMA CommitNext ==
    ASSUME MaxFaults = 0, TypeOK, ElectionInv, ElectionSafety, LogInv, CommitInv, [Next]_vars,
           TypeOK', ElectionInv', ElectionSafety', LogInv'
    PROVE  CommitInv'
  <1>1. Undamaged
    BY DEF CommitInv
  <1>2. Undamaged'
    BY <1>1, UndamagedNext
  <1>3. Basics
    BY <1>1, BasicsHold
  <1>4. Basics'
    BY <1>2, BasicsHold, PTL
  <1>5. Step
    BY <1>2, <1>3, <1>4 DEF Step
  <1>6. ASSUME UNCHANGED vars PROVE CommitInv'
    BY <1>3, <1>4, <1>6, IdleKeeps DEF vars
  <1>7. ASSUME NEW n \in Node, raft_commit_entry(n) PROVE CommitInv'
    BY <1>3, <1>4, <1>7, IdleKeeps DEF raft_commit_entry
  <1>8. ASSUME NEW m, Lose(m) PROVE CommitInv'
    BY <1>3, <1>4, <1>8, IdleKeeps DEF Lose
  <1> QED BY <1>5, <1>6, <1>7, <1>8, CommitTimeout, CommitRequestVote, CommitVoteResponse,
             CommitSend, CommitAppendRequest, CommitAppendResponse, CommitCommand,
             CommitRestart DEF Next

-----------------------------------------------------------------------------
(* Theorems about what is committed *)

\* As long as no write fails, everything said in RaftCommit holds of every state.
THEOREM CommitInvariant ==
    ASSUME MaxFaults = 0
    PROVE  Spec => []CommitInv
  <1>1. /\ TypeOK /\ ElectionInv /\ ElectionSafety /\ LogInv /\ CommitInv /\ [Next]_vars
        /\ TypeOK' /\ ElectionInv' /\ ElectionSafety' /\ LogInv'
        => CommitInv'
    BY CommitNext
  <1> QED BY <1>1, CommitInit, TypeCorrect, ElectionInvariant, ElectionsSafe, LogInvariant, PTL
          DEF Spec

\* What AdvanceCommitIndex_locked counted is in the log of every later leader: the vote
\* of HandleRequestVoteRequest is not given to a log without it, and no request cuts it.
THEOREM LeadersComplete ==
    ASSUME MaxFaults = 0
    PROVE  Spec => []LeaderCompleteness
  <1>1. TypeOK /\ CommitInv => LeaderCompleteness
    <2> SUFFICES ASSUME TypeOK, CommitInv, NEW c \in committed, NEW n \in Node,
                        role[n] = "LEADER", currentTerm[n] > c.at
                 PROVE  logLen[n] >= c.entry.index /\ log[n][c.entry.index] = c.entry
      BY DEF LeaderCompleteness
    <2>1. PICK d \in committed :
            /\ d.at = c.at /\ d.entry.term = c.at
            /\ \A p \in Node : HasEntry(p, d.entry) => HasEntry(p, c.entry)
            /\ Counted(d.entry)
      BY DEF CommitInv, CommittedIsSafe
    <2>2. c.at \in Nat /\ c.entry.index \in Nat /\ currentTerm[n] \in Nat /\ logLen[n] \in Nat
      BY DEF TypeOK, HistoryOK, Term, Entry, Index, ServerOK, LogOK
    <2>3. HasEntry(n, d.entry)
      BY <2>1, <2>2 DEF Counted, Safe, LeadersHave
    <2> QED BY <2>1, <2>2, <2>3 DEF HasEntry
  <1> QED BY <1>1, CommitInvariant, TypeCorrect, PTL

\* What a leader believes a peer holds is in the peer's log file until the peer hears of
\* a later term: HandleAppendEntriesRequest answers after the entries are written, and
\* only a request of the same leader could have changed them since.
THEOREM MatchesAreDurable ==
    ASSUME MaxFaults = 0
    PROVE  Spec => []MatchIsDurable
  <1>1. TypeOK /\ LogInv /\ CommitInv => MatchIsDurable
    <2> SUFFICES ASSUME TypeOK, LogInv, CommitInv, NEW n \in Node, NEW p \in Node,
                        role[n] = "LEADER", n # p, disk[p].term <= currentTerm[n]
                 PROVE  /\ matchIndex[n][p] <= disk[p].len
                        /\ \A i \in 1 .. matchIndex[n][p] : disk[p].log[i] = log[n][i]
      BY DEF MatchIsDurable
    <2> DEFINE a == matchIndex[n][p]
    <2>1. /\ a \in Nat /\ currentTerm[n] \in Nat /\ currentTerm[p] \in Nat /\ logLen[p] \in Nat
          /\ a \in Acks(n, p)
      BY DEF TypeOK, LeaderOK, ServerOK, LogOK, Index, Term, Acks
    <2>2. /\ disk[p].term = currentTerm[p] /\ disk[p].len = logLen[p]
          /\ \A i \in 1 .. logLen[p] : disk[p].log[i] = log[p][i]
      BY DEF CommitInv, Undamaged, LogInv, RestoreMatchesMemory
    <2> HIDE DEF a
    <2>3. CASE a = 0
      BY <2>1, <2>2, <2>3 DEF a
    <2>4. CASE a > 0
      <3>1. /\ currentTerm[p] >= currentTerm[n]
            /\ currentTerm[p] = currentTerm[n]
                 => a <= logLen[p] /\ \A i \in 1 .. a : log[p][i] = log[n][i]
        BY <2>1, <2>4 DEF CommitInv, TalkInv, AcksHold
      <3>2. a <= logLen[p] /\ \A i \in 1 .. a : log[p][i] = log[n][i]
        BY <2>1, <2>2, <3>1
      <3>3. \A i \in 1 .. a : i \in 1 .. logLen[p]
        BY <2>1, <3>2
      <3> QED BY <2>2, <3>2, <3>3 DEF a
    <2> QED BY <2>1, <2>3, <2>4
  <1> QED BY <1>1, CommitInvariant, LogInvariant, TypeCorrect, PTL

\* A committed entry is in the log files of a majority, and stays there.
THEOREM CommitsAreDurable ==
    ASSUME MaxFaults = 0
    PROVE  Spec => []DurableQuorum
  <1>1. TypeOK /\ LogInv /\ CommitInv => DurableQuorum
    <2> SUFFICES ASSUME TypeOK, LogInv, CommitInv, NEW c \in committed
                 PROVE  Cardinality({n \in Node : /\ disk[n].len >= c.entry.index
                                                  /\ disk[n].log[c.entry.index] = c.entry})
                            >= majority(Cardinality(Node))
      BY DEF DurableQuorum
    <2> DEFINE S == {n \in Node : /\ disk[n].len >= c.entry.index
                                  /\ disk[n].log[c.entry.index] = c.entry}
    <2>1. PICK d \in committed :
            /\ c.entry.index \in 1 .. d.entry.index
            /\ \A p \in Node : HasEntry(p, d.entry) => HasEntry(p, c.entry)
            /\ Counted(d.entry)
      BY DEF CommitInv, CommittedIsSafe
    <2>2. PICK Q \in Majority : \A q \in Q : Supports(q, d.entry)
      BY <2>1 DEF Counted
    <2>3. Q \subseteq S
      <3> SUFFICES ASSUME NEW q \in Q PROVE q \in S
        OBVIOUS
      <3>1. q \in Node /\ HasEntry(q, c.entry)
        BY <2>1, <2>2 DEF Majority, Supports
      <3>2. d.entry.index \in Nat /\ logLen[q] \in Nat
        BY <3>1 DEF TypeOK, HistoryOK, Entry, Index, LogOK
      <3>3. c.entry.index \in 1 .. logLen[q] /\ log[q][c.entry.index] = c.entry
        BY <2>1, <3>1, <3>2 DEF HasEntry
      <3>4. /\ disk[q].len = logLen[q]
            /\ \A i \in 1 .. logLen[q] : disk[q].log[i] = log[q][i]
        BY <3>1 DEF CommitInv, Undamaged, LogInv, RestoreMatchesMemory
      <3> QED BY <3>1, <3>2, <3>3, <3>4
    <2>4. S \subseteq Node /\ Q \subseteq Node
      BY DEF Majority
    <2> HIDE DEF S
    <2>5. IsFiniteSet(S)
      BY <2>4, FS_Subset
    <2>6. /\ Cardinality(Q) <= Cardinality(S) /\ Cardinality(Q) \in Nat /\ Cardinality(S) \in Nat
          /\ Cardinality(Node) \in Nat
      BY <2>3, <2>4, <2>5, FS_Subset, FS_CardinalityType
    <2>7. Cardinality(Q) >= majority(Cardinality(Node))
      BY DEF Majority
    <2>8. Cardinality(S) >= majority(Cardinality(Node))
      BY <2>6, <2>7 DEF majority
    <2> QED BY <2>8 DEF S
  <1> QED BY <1>1, CommitInvariant, LogInvariant, TypeCorrect, PTL

\* No two entries are ever committed at one index: the majorities that hold them have a
\* node in common.
THEOREM CommitsAreOnce ==
    ASSUME MaxFaults = 0
    PROVE  Spec => []CommittedOnce
  <1>1. CommitInv => CommittedOnce
    <2> SUFFICES ASSUME CommitInv, NEW c \in committed, NEW d \in committed,
                        c.entry.index = d.entry.index
                 PROVE  c.entry = d.entry
      BY DEF CommittedOnce
    <2>1. \A x \in committed : \E Q \in Majority : \A q \in Q : HasEntry(q, x.entry)
      <3> TAKE x \in committed
      <3>1. PICK y \in committed :
              /\ \A p \in Node : HasEntry(p, y.entry) => HasEntry(p, x.entry)
              /\ Counted(y.entry)
        BY DEF CommitInv, CommittedIsSafe
      <3> QED BY <3>1 DEF Counted, Supports, Majority
    <2>2. PICK Q \in Majority : \A q \in Q : HasEntry(q, c.entry)
      BY <2>1
    <2>3. PICK R \in Majority : \A q \in R : HasEntry(q, d.entry)
      BY <2>1
    <2>4. PICK q \in Q : q \in R
      BY MajoritiesMeet
    <2> QED BY <2>2, <2>3, <2>4 DEF HasEntry
  <1> QED BY <1>1, CommitInvariant, PTL
-----------------------------------------------------------------------------
(* What is committed, seen from the others *)

\* Who holds what was committed: a majority, with all that was counted with it.
LEMMA CommittedIsHeld ==
    ASSUME Basics, CommitInv, NEW c \in committed
    PROVE  \E d \in committed :
             /\ d.at = c.at /\ d.entry.term = c.at /\ IsEntry(d.entry) /\ Safe(d.entry)
             /\ c.entry.index \in 1 .. d.entry.index
             /\ \E Q \in Majority : \A q \in Q :
                  q \in Node /\ HasEntry(q, d.entry) /\ HasEntry(q, c.entry)
  <1>1. PICK d \in committed :
          /\ d.at = c.at /\ d.entry.term = c.at
          /\ c.entry.index \in 1 .. d.entry.index
          /\ \A n \in Node : HasEntry(n, d.entry) => HasEntry(n, c.entry)
          /\ Counted(d.entry)
    BY DEF CommitInv, CommittedIsSafe
  <1>2. PICK Q \in Majority : \A q \in Q : Supports(q, d.entry)
    BY <1>1 DEF Counted
  <1>3. \A q \in Q : q \in Node /\ HasEntry(q, d.entry) /\ HasEntry(q, c.entry)
    BY <1>1, <1>2 DEF Supports, Majority
  <1>4. IsEntry(d.entry)
    <2>1. d.entry \in Entry
      BY DEF Basics, RunsTyped
    <2>2. d.entry.index > 0
      BY <1>1, <2>1 DEF Entry, Index
    <2> QED BY <2>1, <2>2, EntryType
  <1> QED BY <1>1, <1>3, <1>4 DEF Counted

\* A request contradicts no log where that log holds what was committed in the
\* request's past.
LEMMA CommittedIsSpared ==
    ASSUME Basics, CommitInv, NEW m \in Requests, NEW n \in Node, NEW c \in committed,
           c.at <= m.term, HasEntry(n, c.entry)
    PROVE  \A i \in m.prevLogIndex .. m.prevLogIndex + Len(m.entries) :
             i <= c.entry.index => TermAt(MessageRun(m), i) = TermAt(MemoryRun(n), i)
  <1> SUFFICES ASSUME NEW i \in m.prevLogIndex .. m.prevLogIndex + Len(m.entries),
                      i <= c.entry.index
               PROVE  TermAt(MessageRun(m), i) = TermAt(MemoryRun(n), i)
    OBVIOUS
  <1>1. PICK d \in committed :
          /\ d.at = c.at /\ d.entry.term = c.at /\ IsEntry(d.entry) /\ Safe(d.entry)
          /\ c.entry.index \in 1 .. d.entry.index
          /\ \E Q \in Majority : \A q \in Q :
               q \in Node /\ HasEntry(q, d.entry) /\ HasEntry(q, c.entry)
    BY CommittedIsHeld
  <1>2. PICK q \in Node : HasEntry(q, d.entry) /\ HasEntry(q, c.entry)
    BY <1>1, MajorityHasOne
  <1>3. m \in AppendEntries /\ m.prevLogIndex \in Nat /\ Len(m.entries) \in Nat
    BY DEF Basics, RunsTyped, AppendEntries, Index
  <1>4. i \in Nat /\ d.entry.index \in Nat /\ c.entry.index \in Nat \ {0} /\ i <= d.entry.index
    BY <1>1, <1>3 DEF IsEntry
  <1>5. TermAt(MessageRun(m), i) = TermAt(MemoryRun(q), i)
    BY <1>1, <1>2, <1>4 DEF Safe, RequestsSpare
  <1>6. TermAt(MemoryRun(n), i) = TermAt(MemoryRun(q), i)
    <2>1. /\ c.entry.index <= logLen[n] /\ c.entry.index <= logLen[q]
          /\ log[n][c.entry.index].term = log[q][c.entry.index].term
      BY <1>2 DEF HasEntry
    <2>2. i \in 0 .. c.entry.index
      BY <1>4
    <2> QED BY <1>4, <2>1, <2>2 DEF Basics, HoldersAgree
  <1> QED BY <1>5, <1>6

\* A log that passes the check of prevLogIndex has, up to there, what the request's
\* sender knew to be committed.
LEMMA PrevIsCommitted ==
    ASSUME Basics, CommitInv, NEW m \in Requests, RequestIsKnown(m), NEW n \in Node,
           PrevMatches(n, m), NEW c \in committed, c.at <= m.term,
           c.entry.index \in 1 .. m.leaderCommit, c.entry.index <= m.prevLogIndex
    PROVE  HasEntry(n, c.entry)
  <1> DEFINE prev == m.prevLogIndex
             r == MessageRun(m)
             i == c.entry.index
  <1>1. /\ m \in AppendEntries /\ prev \in Nat /\ m.leaderCommit \in Nat /\ Len(m.entries) \in Nat
        /\ r.from = prev /\ r.to = prev + Len(m.entries) /\ HasTerms(r)
    <2>1. m \in AppendEntries /\ HasTerms(r)
      BY DEF Basics, RunsTyped
    <2> QED BY <2>1, MessageRunType DEF AppendEntries, Index
  <1>2. i \in Nat \ {0} /\ i <= m.leaderCommit /\ m.leaderCommit > 0 /\ prev > 0 /\ i <= prev
    BY <1>1
  <1>3. prev <= logLen[n] /\ TermAt(MemoryRun(n), prev) = r.base /\ r.base \in Nat
    <2>1. prev <= logLen[n] /\ log[n][prev].term = m.prevLogTerm
      BY <1>2 DEF PrevMatches
    <2>2. r.base = m.prevLogTerm
      BY <1>2 DEF MessageRun
    <2>3. MemoryRun(n).from = 0 /\ MemoryRun(n).cells = log[n]
      BY DEF Basics, RunsTyped
    <2>4. r.base \in Nat
      <3>1. prev \in r.from .. r.to /\ TermAt(r, prev) = r.base
        BY <1>1 DEF TermAt
      <3> QED BY <1>1, <3>1 DEF HasTerms
    <2> QED BY <1>2, <2>1, <2>2, <2>3, <2>4 DEF TermAt
  <1>4. PICK d0 \in committed :
          /\ d0.entry.term = d0.at /\ d0.at <= m.term
          /\ m.leaderCommit <= d0.entry.index
          /\ d0.entry.index <= r.from => d0.at <= r.base
    BY <1>2 DEF RequestIsKnown
  <1> HIDE DEF r
  <1>5. PICK d \in committed :
          /\ d.at = d0.at /\ d.entry.term = d0.at /\ IsEntry(d.entry) /\ Safe(d.entry)
          /\ d0.entry.index \in 1 .. d.entry.index
          /\ \E Q \in Majority : \A q \in Q :
               q \in Node /\ HasEntry(q, d.entry) /\ HasEntry(q, d0.entry)
    BY CommittedIsHeld
  <1>6. PICK Q \in Majority : \A q \in Q : q \in Node /\ HasEntry(q, d.entry)
    BY <1>5
  <1>7. PICK R \in Majority : \A q \in R : q \in Node /\ HasEntry(q, c.entry)
    BY CommittedIsHeld
  <1>8. PICK q \in Q : q \in R
    BY <1>6, <1>7, MajoritiesMeet
  <1>9. q \in Node /\ HasEntry(q, d.entry) /\ HasEntry(q, c.entry)
    BY <1>6, <1>7, <1>8
  <1>10. /\ d.entry.index \in Nat \ {0} /\ d.entry.term \in Nat /\ i <= d.entry.index
         /\ d0.entry.index <= d.entry.index /\ d0.entry.index \in Nat
    BY <1>1, <1>2, <1>4, <1>5 DEF IsEntry
  <1>11. /\ logLen[n] \in Nat /\ logLen[q] \in Nat /\ d.entry.index <= logLen[q]
         /\ log[q][d.entry.index] = d.entry /\ log[q][i] = c.entry
         /\ MemoryRun(q).from = 0 /\ MemoryRun(q).cells = log[q]
         /\ MemoryRun(n).from = 0 /\ MemoryRun(n).to = logLen[n] /\ MemoryRun(n).cells = log[n]
         /\ MemoryRun(n) \in LogRuns
    BY <1>9 DEF Basics, RunsTyped, HasEntry
  <1>12. CASE prev <= d.entry.index
    <2>1. prev \in m.prevLogIndex .. m.prevLogIndex + Len(m.entries)
      BY <1>1
    <2>2. TermAt(r, prev) = TermAt(MemoryRun(q), prev)
      BY <1>4, <1>5, <1>9, <1>12, <2>1 DEF Safe, RequestsSpare, r
    <2>3. TermAt(r, prev) = r.base
      BY <1>1 DEF TermAt
    <2>4. log[n][prev].term = log[q][prev].term
      BY <1>2, <1>3, <1>11, <2>2, <2>3 DEF TermAt
    <2>5. prev <= logLen[n] /\ prev <= logLen[q] /\ prev \in Nat \ {0} /\ i \in 0 .. prev
      BY <1>1, <1>2, <1>3, <1>10, <1>11, <1>12
    <2>6. log[n][i] = log[q][i]
      BY <1>2, <1>9, <2>4, <2>5 DEF Basics, HoldersAgree
    <2> QED BY <1>2, <1>11, <2>5, <2>6 DEF HasEntry
  <1>13. CASE prev > d.entry.index
    <2>1. d.entry.term <= r.base
      BY <1>1, <1>4, <1>5, <1>10, <1>13
    <2>2. checkLog(prev, TermAt(MemoryRun(n), prev), d.entry.index, d.entry.term)
      BY <1>1, <1>3, <1>10, <1>13, <2>1 DEF checkLog
    <2>3. Covers(MemoryRun(n), d.entry)
      BY <1>5, <1>11 DEF Safe
    <2>4. prev \in MemoryRun(n).from .. MemoryRun(n).to
      BY <1>1, <1>3, <1>11
    <2>5. log[n][d.entry.index] = d.entry
      BY <1>10, <1>11, <2>2, <2>3, <2>4 DEF Covers
    <2>6. d.entry.index <= logLen[n] /\ i \in 0 .. d.entry.index
      BY <1>1, <1>2, <1>3, <1>10, <1>11, <1>13
    <2>7. log[n][i] = log[q][i]
      BY <1>2, <1>9, <1>10, <1>11, <2>5, <2>6 DEF Basics, HoldersAgree
    <2> QED BY <1>2, <1>10, <1>11, <2>6, <2>7 DEF HasEntry
  <1> QED BY <1>1, <1>10, <1>12, <1>13

-----------------------------------------------------------------------------
(* What a step does to what AppliedInv is about *)

\* The node n keeps what it took for committed, and moves commitIndex only over entries
\* that are; it may hand some of them out.
Advances(n) ==
    /\ commitIndex[n] <= commitIndex'[n] /\ commitIndex'[n] <= logLen'[n]
    /\ \A i \in 1 .. commitIndex[n] : log'[n][i] = log[n][i]
    /\ \A i \in commitIndex[n] + 1 .. commitIndex'[n] : Known(log[n][i], currentTerm[n])'
    /\ Len(applied'[n]) <= commitIndex[n]
    /\ \A i \in 1 .. Len(applied'[n]) :
         \/ i <= Len(applied[n]) /\ applied'[n][i] = applied[n][i]
         \/ applied'[n][i] = log[n][i]

\* It died, and starts again.
Starts(n) == crashes' # crashes /\ commitIndex'[n] = 0 /\ applied'[n] = <<>>

CommitIndexMoves ==
    /\ committed \subseteq committed'
    /\ \A n \in Node : currentTerm[n] <= currentTerm'[n]
    /\ \A n \in Node : Advances(n) \/ Starts(n)
    /\ \A m \in Requests' : m \in Requests \/ RequestIsKnown(m)'

\* Such a step keeps AppliedInv.
LEMMA AppliedKept ==
    ASSUME Step, AppliedInv, CommitIndexMoves
    PROVE  AppliedInv'
  <1>1. /\ committed \subseteq committed'
        /\ \A n \in Node : currentTerm[n] <= currentTerm'[n]
        /\ \A n \in Node : Advances(n) \/ Starts(n)
        /\ \A m \in Requests' : m \in Requests \/ RequestIsKnown(m)'
    BY DEF CommitIndexMoves
  <1>2. /\ \A n \in Node : /\ commitIndex[n] \in Nat /\ commitIndex'[n] \in Nat
                           /\ logLen[n] \in Nat /\ logLen'[n] \in Nat
                           /\ currentTerm[n] \in Nat /\ currentTerm'[n] \in Nat
                           /\ applied[n] \in Seq(Entry) /\ applied'[n] \in Seq(Entry)
        /\ \A c \in committed : c.at \in Nat
    BY DEF Step, TypeOK, LogOK, ServerOK, HistoryOK, Index, Term
  <1>3. ASSUME NEW e, NEW t \in Nat, NEW u \in Nat, t <= u, Known(e, t) PROVE Known(e, u)'
    BY <1>1, <1>2, <1>3 DEF Known
  <1>4. CommitIndexIsKnown'
    <2> SUFFICES ASSUME NEW n \in Node
                 PROVE  /\ commitIndex'[n] <= logLen'[n]
                        /\ \A i \in 1 .. commitIndex'[n] : Known(log[n][i], currentTerm[n])'
      BY DEF CommitIndexIsKnown, Known
    <2>1. CASE Starts(n)
      BY <1>2, <2>1 DEF Starts
    <2>2. CASE Advances(n)
      <3>1. commitIndex'[n] <= logLen'[n]
        BY <2>2 DEF Advances
      <3>2. ASSUME NEW i \in 1 .. commitIndex[n] PROVE Known(log[n][i], currentTerm[n])'
        <4>1. Known(log[n][i], currentTerm[n]) /\ log'[n][i] = log[n][i]
          BY <2>2, <3>2 DEF Advances, AppliedInv, CommitIndexIsKnown
        <4> QED BY <1>1, <1>2, <1>3, <4>1
      <3>3. \A i \in 1 .. commitIndex'[n] : i \in 1 .. commitIndex[n]
                                              \/ i \in commitIndex[n] + 1 .. commitIndex'[n]
        BY <1>2
      <3> QED BY <2>2, <3>1, <3>2, <3>3 DEF Advances
    <2> QED BY <1>1, <2>1, <2>2
  <1>5. ASSUME NEW m \in Requests' PROVE RequestIsKnown(m)'
    <2>1. CASE m \in Requests
      <3>1. RequestIsKnown(m)
        BY <2>1 DEF AppliedInv
      <3> QED BY <1>1, <3>1 DEF RequestIsKnown
    <2> QED BY <1>1, <2>1
  <1>6. AppliedIsKnown'
    <2> SUFFICES ASSUME NEW n \in Node
                 PROVE  /\ Len(applied'[n]) <= commitIndex'[n]
                        /\ \A i \in 1 .. Len(applied'[n]) :
                             \E c \in committed' : c.entry = applied'[n][i] /\ c.entry.index = i
      BY DEF AppliedIsKnown
    <2>1. CASE Starts(n)
      BY <1>2, <2>1 DEF Starts
    <2>2. CASE Advances(n)
      <3>1. Len(applied'[n]) \in Nat /\ Len(applied[n]) \in Nat /\ Len(applied'[n]) <= commitIndex[n]
        BY <1>2, <2>2 DEF Advances
      <3>2. ASSUME NEW i \in 1 .. Len(applied'[n])
            PROVE  \E c \in committed' : c.entry = applied'[n][i] /\ c.entry.index = i
        <4>1. CASE i <= Len(applied[n]) /\ applied'[n][i] = applied[n][i]
          <5>1. i \in 1 .. Len(applied[n])
            BY <3>1, <4>1
          <5> QED BY <1>1, <4>1, <5>1 DEF AppliedInv, AppliedIsKnown
        <4>2. CASE applied'[n][i] = log[n][i]
          <5>1. i \in 1 .. commitIndex[n] /\ i \in 1 .. logLen[n]
            BY <1>2, <3>1 DEF AppliedInv, CommitIndexIsKnown
          <5>2. Known(log[n][i], currentTerm[n])
            BY <5>1 DEF AppliedInv, CommitIndexIsKnown
          <5>3. log[n][i].index = i
            <6>1. MemoryRun(n) \in Runs /\ MemoryRun(n).from = 0 /\ MemoryRun(n).to = logLen[n]
                  /\ MemoryRun(n).cells = log[n]
              BY DEF Step, Basics, RunsTyped
            <6>2. i \in MemoryRun(n).from + 1 .. MemoryRun(n).to
              BY <5>1, <6>1
            <6> QED BY <6>1, <6>2 DEF Step, Basics, RunsAreElected
          <5> QED BY <1>1, <4>2, <5>2, <5>3 DEF Known
        <4> QED BY <2>2, <4>1, <4>2 DEF Advances
      <3>3. Len(applied'[n]) <= commitIndex'[n]
        BY <1>2, <2>2, <3>1 DEF Advances
      <3> QED BY <3>2, <3>3
    <2> QED BY <1>1, <2>1, <2>2
  <1> QED BY <1>4, <1>5, <1>6 DEF AppliedInv

\* A node whose log and positions stay as they are.
LEMMA StillAdvances ==
    ASSUME Step, AppliedInv, NEW n \in Node, commitIndex'[n] = commitIndex[n],
           applied'[n] = applied[n], commitIndex[n] <= logLen'[n],
           \A i \in 1 .. commitIndex[n] : log'[n][i] = log[n][i]
    PROVE  Advances(n)
  <1>1. commitIndex[n] \in Nat /\ applied[n] \in Seq(Entry)
    BY DEF Step, TypeOK, LogOK, Index
  <1>2. commitIndex[n] + 1 .. commitIndex[n] = {}
    BY <1>1
  <1>3. Len(applied[n]) \in Nat /\ Len(applied[n]) <= commitIndex[n]
    BY <1>1 DEF AppliedInv, AppliedIsKnown
  <1> QED BY <1>1, <1>2, <1>3 DEF Advances

\* A step that writes no log, commits nothing and asks for nothing.
LEMMA QuietMoves ==
    ASSUME Step, AppliedInv, UNCHANGED <<log, logLen, commitIndex, applied, committed>>,
           \A n \in Node : currentTerm[n] <= currentTerm'[n], Requests' \subseteq Requests
    PROVE  CommitIndexMoves
  <1>1. \A n \in Node : commitIndex[n] <= logLen[n]
    BY DEF AppliedInv, CommitIndexIsKnown
  <1>2. \A n \in Node : Advances(n)
    BY <1>1, StillAdvances
  <1> QED BY <1>2 DEF CommitIndexMoves

-----------------------------------------------------------------------------
(* Every action moves so *)

\* raft_timeout, the votes, a response that ends a leadership or is of no use.
LEMMA MovesElections ==
    ASSUME Step, AppliedInv, NEW n \in Node,
           \/ raft_timeout(n) \/ HandleRequestVoteRequest(n) \/ HandleRequestVoteResponse(n)
    PROVE  CommitIndexMoves
  <1>0. TypeOK /\ TypeOK' /\ LogInv /\ Undamaged /\ MaxFaults = 0
    BY DEF Step, CommitInv
  <1>1. UNCHANGED <<log, logLen, commitIndex, applied, committed>>
    BY DEF raft_timeout, HandleRequestVoteRequest, HandleRequestVoteResponse, StepDown,
           CountVote, IgnoreResponse, pstate, history
  <1>2. \A p \in Node : currentTerm[p] \in Nat /\ currentTerm'[p] \in Nat
    BY DEF Step, Basics, RunsTyped
  <1>3. Requests' \subseteq Requests
    BY DEF raft_timeout, StartElection, VoteRequests, Send, HandleRequestVoteRequest, ConsiderVote,
           HandleRequestVoteResponse, Answer, Requests
  <1>4. \A p \in Node : currentTerm[p] <= currentTerm'[p]
    <2>1. CASE raft_timeout(n)
      BY <1>0, <1>2, <2>1 DEF raft_timeout, StartElection, TypeOK, ServerOK
    <2>2. CASE HandleRequestVoteRequest(n)
      BY <1>0, <1>2, <2>2 DEF HandleRequestVoteRequest, ConsiderVote, Newer, TypeOK, ServerOK
    <2>3. CASE HandleRequestVoteResponse(n)
      BY <1>0, <1>2, <2>3 DEF HandleRequestVoteResponse, StepDown, update_term_locked, CountVote,
         IgnoreResponse, Newer, pstate, TypeOK, ServerOK
    <2> QED BY <2>1, <2>2, <2>3
  <1> QED BY <1>1, <1>3, <1>4, QuietMoves

\* What a leader knows to be committed, one entry of it at least counted.
LEMMA LeaderKnows ==
    ASSUME Step, AppliedInv, NEW n \in Node, role[n] = "LEADER", commitIndex[n] > 0
    PROVE  /\ \A i \in 1 .. commitIndex[n] : \E c \in committed :
                c.at <= currentTerm[n] /\ c.entry = log[n][i] /\ c.entry.index = i
           /\ \E d \in committed : /\ d.entry.term = d.at /\ d.at <= currentTerm[n]
                                   /\ commitIndex[n] <= d.entry.index
                                   /\ IsEntry(d.entry) /\ HasEntry(n, d.entry)
  <1> DEFINE k == commitIndex[n]
  <1>1. k \in Nat /\ logLen[n] \in Nat /\ k <= logLen[n]
    BY DEF Step, TypeOK, LogOK, Index, AppliedInv, CommitIndexIsKnown
  <1>2. ASSUME NEW i \in 1 .. k
        PROVE  \E c \in committed : c.at <= currentTerm[n] /\ c.entry = log[n][i] /\ c.entry.index = i
    <2>1. Known(log[n][i], currentTerm[n])
      BY DEF AppliedInv, CommitIndexIsKnown
    <2>2. /\ MemoryRun(n).from = 0 /\ MemoryRun(n).to = logLen[n] /\ MemoryRun(n).cells = log[n]
          /\ MemoryRun(n) \in Runs
      BY DEF Step, Basics, RunsTyped
    <2>3. i \in MemoryRun(n).from + 1 .. MemoryRun(n).to
      BY <1>1, <2>2
    <2>4. log[n][i].index = i
      BY <2>2, <2>3 DEF Step, Basics, RunsAreElected
    <2> QED BY <2>1, <2>4 DEF Known
  <1>3. PICK c \in committed : c.at <= currentTerm[n] /\ c.entry = log[n][k] /\ c.entry.index = k
    <2>1. k \in 1 .. k
      BY <1>1
    <2> QED BY <1>2, <2>1
  <1>4. PICK d \in committed :
          /\ d.at = c.at /\ d.entry.term = c.at /\ IsEntry(d.entry) /\ Safe(d.entry)
          /\ c.entry.index \in 1 .. d.entry.index
    BY CommittedIsHeld DEF Step
  <1>5. HasEntry(n, d.entry)
    BY <1>3, <1>4 DEF Safe, LeadersHave
  <1>6. d.entry.term = d.at /\ d.at <= currentTerm[n] /\ k <= d.entry.index
    BY <1>1, <1>3, <1>4 DEF IsEntry
  <1> QED BY <1>2, <1>4, <1>5, <1>6

\* raft_append_entries tells a peer of nothing but what is committed, as far as what it
\* sends goes.
LEMMA SentIsKnown ==
    ASSUME Step, AppliedInv, NEW n \in Node, NEW p \in Peers(n), role[n] = "LEADER",
           NEW m, m = AppendRequest(n, p)
    PROVE  RequestIsKnown(m)
  <1> DEFINE r == MessageRun(m)
             k == commitIndex[n]
  <1>1. PICK prev : prev = nextIndex[n][p] - 1
    OBVIOUS
  <1>2. p \in Node /\ nextIndex[n][p] <= logLen[n] + 1
    BY DEF Peers, Step, CommitInv, TalkInv, LeaderSpeaks
  <1>3. PartOf(r, MemoryRun(n))
    BY <1>2, RequestIsPart DEF Step
  <1>4. /\ prev \in Nat /\ prev <= logLen[n] /\ logLen[n] \in Nat /\ k \in Nat
        /\ currentTerm[n] \in Nat
    <2>0. TypeOK
      BY DEF Step
    <2>1. nextIndex[n][p] \in 0 .. LogCap + 1 /\ nextIndex[n][p] >= 1
      BY <1>2, <2>0 DEF TypeOK, LeaderOK
    <2>2. logLen[n] \in Nat /\ k \in Nat /\ currentTerm[n] \in Nat
      BY <2>0 DEF TypeOK, LogOK, ServerOK, Index, Term
    <2> QED BY <1>1, <1>2, <2>1, <2>2, LogCapAssumption
  <1>5. PICK count : count = Lesser(Batch, IF prev < logLen[n] THEN logLen[n] - prev ELSE 0)
    OBVIOUS
  <1>6. count \in Nat
    BY <1>4, <1>5, BoundAssumption DEF Lesser
  <1>7. /\ m.prevLogIndex = prev /\ m.leaderCommit = k /\ m.term = currentTerm[n]
        /\ m.entries = [i \in 1 .. count |-> log[n][prev + i]]
    BY <1>1, <1>5 DEF AppendRequest
  <1>8. Len(m.entries) = count
    BY <1>6, <1>7
  <1>9. r.from = prev /\ r.to = prev + count
    BY <1>7, <1>8 DEF MessageRun
  <1> HIDE DEF r
  <1>10. /\ MemoryRun(n).from = 0 /\ MemoryRun(n).to = logLen[n] /\ MemoryRun(n).cells = log[n]
         /\ MemoryRun(n) \in Runs /\ MemoryRun(n) \in LogRuns /\ HasTerms(MemoryRun(n))
    BY DEF Step, Basics, RunsTyped
  <1> SUFFICES ASSUME k > 0
               PROVE  /\ \E d \in committed :
                           /\ d.entry.term = d.at /\ d.at <= currentTerm[n]
                           /\ k <= d.entry.index
                           /\ d.entry.index <= r.from => d.at <= r.base
                      /\ \A i \in 1 .. Lesser(k, r.to) : \E c \in committed :
                           /\ c.at <= currentTerm[n] /\ c.entry.index = i
                           /\ i > r.from => r.cells[i] = c.entry
    BY <1>7 DEF RequestIsKnown, r
  <1>11. \A i \in 1 .. k : \E c \in committed :
           c.at <= currentTerm[n] /\ c.entry = log[n][i] /\ c.entry.index = i
    BY LeaderKnows
  <1>12. PICK d \in committed : /\ d.entry.term = d.at /\ d.at <= currentTerm[n]
                                /\ k <= d.entry.index
                                /\ IsEntry(d.entry) /\ HasEntry(n, d.entry)
    BY LeaderKnows
  <1>13. d.entry.index \in Nat \ {0} /\ d.entry.term \in Nat
    BY <1>12 DEF IsEntry
  <1>14. ASSUME d.entry.index <= r.from PROVE d.at <= r.base
    <2>1. /\ d.entry.index \in MemoryRun(n).from .. MemoryRun(n).to
          /\ prev \in MemoryRun(n).from .. MemoryRun(n).to
      BY <1>4, <1>9, <1>10, <1>13, <1>14
    <2>2. TermAt(MemoryRun(n), d.entry.index) <= TermAt(MemoryRun(n), prev)
      BY <1>9, <1>10, <1>14, <2>1 DEF Step, CommitInv, TermsInv, TermsRise, Rises
    <2>3. TermAt(MemoryRun(n), d.entry.index) = d.entry.term
      BY <1>10, <1>12, <1>13 DEF TermAt, HasEntry
    <2>4. r.base = TermAt(MemoryRun(n), prev)
      BY <1>3, <1>9 DEF PartOf
    <2> QED BY <1>12, <2>2, <2>3, <2>4
  <1>15. ASSUME NEW i \in 1 .. Lesser(k, r.to)
         PROVE  \E b \in committed : /\ b.at <= currentTerm[n] /\ b.entry.index = i
                                     /\ i > r.from => r.cells[i] = b.entry
    <2>1. i \in 1 .. k /\ i \in 1 .. r.to
      BY <1>4, <1>6, <1>9 DEF Lesser
    <2>2. PICK b \in committed : b.at <= currentTerm[n] /\ b.entry = log[n][i] /\ b.entry.index = i
      BY <1>11, <2>1
    <2>3. ASSUME i > r.from PROVE r.cells[i] = log[n][i]
      <3>1. i \in r.from + 1 .. r.to
        BY <1>4, <1>6, <1>9, <2>1, <2>3
      <3> QED BY <1>3, <1>10, <3>1 DEF PartOf
    <2> QED BY <2>2, <2>3
  <1> QED BY <1>12, <1>14, <1>15

\* heartbeat_tick covers no entry at all.
LEMMA HeartbeatIsKnown ==
    ASSUME Step, AppliedInv, NEW n \in Node, role[n] = "LEADER", NEW m,
           m.prevLogIndex = 0, m.entries = <<>>, m.leaderCommit = commitIndex[n],
           m.term = currentTerm[n]
    PROVE  RequestIsKnown(m)
  <1>1. MessageRun(m).from = 0 /\ MessageRun(m).to = 0
    BY DEF MessageRun
  <1>2. commitIndex[n] \in Nat
    BY DEF Step, TypeOK, LogOK, Index
  <1> SUFFICES ASSUME commitIndex[n] > 0 PROVE RequestIsKnown(m)
    BY DEF RequestIsKnown
  <1>3. PICK d \in committed : /\ d.entry.term = d.at /\ d.at <= currentTerm[n]
                               /\ commitIndex[n] <= d.entry.index /\ IsEntry(d.entry)
    BY LeaderKnows
  <1>4. ~(d.entry.index <= MessageRun(m).from)
    BY <1>1, <1>3 DEF IsEntry
  <1>5. 1 .. Lesser(m.leaderCommit, MessageRun(m).to) = {}
    BY <1>1, <1>2 DEF Lesser
  <1> QED BY <1>3, <1>4, <1>5 DEF RequestIsKnown

\* A step that only sends, and only requests a leader knows enough for.
LEMMA SendsMove ==
    ASSUME Step, AppliedInv, UNCHANGED <<log, logLen, commitIndex, applied, committed, currentTerm>>,
           \A m \in Requests' : m \in Requests \/ RequestIsKnown(m)
    PROVE  CommitIndexMoves
  <1>1. ASSUME NEW q \in Node PROVE Advances(q) /\ currentTerm[q] <= currentTerm'[q]
    <2>1. commitIndex[q] <= logLen[q]
      BY DEF AppliedInv, CommitIndexIsKnown
    <2>2. currentTerm[q] \in Nat
      BY DEF Step, Basics, RunsTyped
    <2>3. Advances(q)
      BY <2>1, StillAdvances
    <2> QED BY <2>2, <2>3
  <1>2. ASSUME NEW m \in Requests' PROVE m \in Requests \/ RequestIsKnown(m)'
    BY DEF RequestIsKnown
  <1> QED BY <1>1, <1>2 DEF CommitIndexMoves

\* raft_append_entries.
LEMMA MovesSend ==
    ASSUME Step, AppliedInv, NEW n \in Node, NEW p \in Node, raft_append_entries(n, p)
    PROVE  CommitIndexMoves
  <1>1. UNCHANGED <<log, logLen, commitIndex, applied, committed, currentTerm>> /\ role[n] = "LEADER"
        /\ p \in Peers(n)
    BY DEF raft_append_entries, KnownPeer, pstate, history
  <1>2. \A m \in net' : m \in net \/ m = AppendRequest(n, p)
    BY DEF raft_append_entries, Send
  <1>3. ASSUME NEW m \in Requests', m \notin Requests PROVE RequestIsKnown(m)
    <2>1. m = AppendRequest(n, p)
      BY <1>2, <1>3 DEF Requests
    <2> QED BY <1>1, <2>1, SentIsKnown
  <1> QED BY <1>1, <1>3, SendsMove

\* heartbeat_tick.
LEMMA MovesHeartbeat ==
    ASSUME Step, AppliedInv, NEW n \in Node, heartbeat_tick(n)
    PROVE  CommitIndexMoves
  <1>1. UNCHANGED <<log, logLen, commitIndex, applied, committed, currentTerm>> /\ role[n] = "LEADER"
    BY DEF heartbeat_tick, pstate, history
  <1>2. ASSUME NEW m \in net', m \notin net
        PROVE  /\ m.prevLogIndex = 0 /\ m.entries = <<>>
               /\ m.leaderCommit = commitIndex[n] /\ m.term = currentTerm[n]
    BY <1>2 DEF heartbeat_tick, Send
  <1>3. ASSUME NEW m \in Requests', m \notin Requests PROVE RequestIsKnown(m)
    <2>1. m \in net' /\ m \notin net
      BY <1>3 DEF Requests
    <2> QED BY <1>1, <1>2, <2>1, HeartbeatIsKnown
  <1> QED BY <1>1, <1>3, SendsMove

\* Where the loop of HandleAppendEntriesRequest has gone through, memory has what a leader
\* committed up to the request's commit position, as far as the request goes.
LEMMA StoredIsKnown ==
    ASSUME Step, AppliedInv, NEW n \in Node, NEW m \in Requests, m \in AppendEntries,
           AppendStored(n, m), NEW first \in 1 .. Len(m.entries) + 1,
           Scan(n, m, first, Len(m.entries)), StoreEntries(n, m, first, Len(m.entries)),
           NEW k \in Nat \ {0}, k <= m.leaderCommit, k <= m.prevLogIndex + Len(m.entries)
    PROVE  /\ k <= logLen'[n]
           /\ \A i \in 1 .. k :
                \E c \in committed : c.entry = log'[n][i] /\ c.at <= m.term
  <1> DEFINE prev == m.prevLogIndex
             last == Len(m.entries)
             at == prev + first - 1
             r == MessageRun(m)
  <1>1. TypeOK /\ Basics /\ CommitInv /\ PrevMatches(n, m) /\ RequestIsKnown(m)
    BY DEF Step, AppendStored, AppliedInv
  <1>2. /\ prev \in Nat /\ last \in Nat /\ first \in Nat /\ first >= 1 /\ first <= last + 1
        /\ m.leaderCommit \in Nat /\ logLen[n] \in Nat
    BY <1>1 DEF AppendEntries, Index, TypeOK, LogOK
  <1>3. /\ r.from = prev /\ r.to = prev + last /\ HasTerms(r) /\ r \in Runs
        /\ \A i \in 1 .. last : r.cells[prev + i] = m.entries[i]
    BY <1>1, MessageRunType DEF Basics, RunsTyped
  <1>4. /\ MemoryRun(n).from = 0 /\ MemoryRun(n).to = logLen[n] /\ MemoryRun(n).cells = log[n]
        /\ MemoryRun(n) \in Runs
    BY <1>1 DEF Basics, RunsTyped
  <1>5. last \in 0 .. Len(m.entries)
    BY <1>2
  <1>6. /\ at \in Nat /\ at <= logLen[n]
        /\ logLen'[n] = IF first <= last THEN prev + last ELSE logLen[n]
        /\ \A i \in 1 .. at : log'[n][i] = log[n][i]
        /\ \A i \in prev + first .. prev + last : log'[n][i] = m.entries[i - prev]
        /\ first > last => at <= logLen'[n]
    BY <1>5, StoredLog
  <1>7. TermAt(MemoryRun(n), at) = TermAt(r, at)
    BY <1>1, <1>5, LoopStart
  <1> HIDE DEF r
  <1>8. m.leaderCommit > 0 /\ k <= prev + last /\ \A i \in 1 .. k : i \in 1 .. Lesser(m.leaderCommit, r.to)
    BY <1>2, <1>3 DEF Lesser
  <1>9. k <= logLen'[n]
    <2>1. prev + last <= logLen'[n]
      BY <1>2, <1>6
    <2>2. logLen'[n] \in Nat
      BY <1>2, <1>6
    <2> QED BY <1>2, <1>8, <2>1, <2>2
  <1>10. ASSUME NEW i \in 1 .. k
         PROVE  \E c \in committed : c.entry = log'[n][i] /\ c.at <= m.term
    <2>1. PICK c \in committed : /\ c.at <= m.term /\ c.entry.index = i
                                 /\ i > r.from => r.cells[i] = c.entry
      BY <1>1, <1>8 DEF RequestIsKnown, r
    <2>2. i \in Nat \ {0} /\ i <= prev + last /\ i \in 1 .. m.leaderCommit
      BY <1>2, <1>8
    <2>3. CASE i <= prev
      <3>1. HasEntry(n, c.entry)
        BY <1>1, <2>1, <2>2, <2>3, PrevIsCommitted
      <3>2. i \in 1 .. at
        BY <1>2, <2>2, <2>3
      <3> QED BY <1>6, <2>1, <3>1, <3>2 DEF HasEntry
    <2>4. CASE i > prev /\ i <= at
      <3>1. /\ at \in 1 .. Lesser(MemoryRun(n).to, r.to) /\ Holds(MemoryRun(n), at) /\ Holds(r, at)
        BY <1>2, <1>3, <1>4, <1>6, <2>2, <2>4 DEF Lesser, Holds
      <3>2. MemoryRun(n).cells[at].term = r.cells[at].term
        BY <1>2, <1>3, <1>4, <1>7, <2>2, <2>4 DEF TermAt
      <3>3. i \in 0 .. at /\ i > r.from /\ i > MemoryRun(n).from
        BY <1>3, <1>4, <1>6, <2>2, <2>4
      <3>4. MemoryRun(n).cells[i] = r.cells[i]
        BY <1>1, <1>3, <1>4, <3>1, <3>2, <3>3 DEF Basics, RunsAgree, Agree
      <3>5. i \in 1 .. at
        BY <1>6, <2>2, <2>4
      <3> QED BY <1>4, <1>6, <2>1, <3>3, <3>4, <3>5
    <2>5. CASE i > at
      <3>1. i \in prev + first .. prev + last /\ i - prev \in 1 .. last /\ prev + (i - prev) = i
            /\ i > r.from
        BY <1>2, <1>3, <2>2, <2>5
      <3>2. r.cells[i] = m.entries[i - prev]
        BY <1>3, <3>1
      <3> QED BY <1>6, <2>1, <3>1, <3>2
    <2> QED BY <1>2, <1>6, <2>2, <2>3, <2>4, <2>5
  <1> QED BY <1>9, <1>10

\* The loop overwrites nothing that the node takes for committed.
LEMMA StoredSpares ==
    ASSUME Step, AppliedInv, NEW n \in Node, NEW m \in Requests, m \in AppendEntries,
           AppendStored(n, m)
    PROVE  commitIndex[n] <= logLen'[n] /\ \A i \in 1 .. commitIndex[n] : log'[n][i] = log[n][i]
  <1> DEFINE k == commitIndex[n]
  <1>1. TypeOK /\ TypeOK' /\ Basics /\ Basics' /\ CommitInv
    BY DEF Step
  <1>2. /\ k \in Nat /\ logLen[n] \in Nat /\ logLen'[n] \in Nat /\ k <= logLen[n]
        /\ currentTerm[n] \in Nat /\ m.term \in Nat /\ m.term >= currentTerm[n]
    <2>1. k \in Nat /\ logLen[n] \in Nat /\ logLen'[n] \in Nat
      BY <1>1 DEF TypeOK, LogOK, Index
    <2>2. k <= logLen[n]
      BY DEF AppliedInv, CommitIndexIsKnown
    <2>3. currentTerm[n] \in Nat /\ m.term \in Nat
      BY <1>1 DEF Basics, RunsTyped
    <2>4. m.term >= currentTerm[n]
      BY DEF AppendStored, Follow
    <2> QED BY <2>1, <2>2, <2>3, <2>4
  <1>3. PICK last \in 0 .. Len(m.entries) : \E first \in 1 .. last + 1 :
          Scan(n, m, first, last) /\ StoreEntries(n, m, first, last)
    BY DEF AppendStored
  <1>4. PICK first \in 1 .. last + 1 :
          Scan(n, m, first, last) /\ StoreEntries(n, m, first, last)
    BY <1>3
  <1>5. PICK at : at = m.prevLogIndex + first - 1
    OBVIOUS
  <1>6. /\ at \in Nat
        /\ first <= last => Spliced(n, m, at)
        /\ first > last => SameLog(n)
    BY <1>4, <1>5, StoredLog
  <1>7. CASE k = 0
    BY <1>2, <1>7
  <1>8. CASE SameLog(n)
    BY <1>2, <1>8 DEF SameLog
  <1>9. CASE k > 0 /\ Spliced(n, m, at)
    <2>1. k \in 1 .. k
      BY <1>2, <1>9
    <2>2. PICK c \in committed : c.entry = log[n][k] /\ c.at <= currentTerm[n]
      BY <2>1 DEF AppliedInv, CommitIndexIsKnown, Known
    <2>3. log[n][k].index = k
      <3>1. /\ MemoryRun(n) \in Runs /\ MemoryRun(n).from = 0 /\ MemoryRun(n).to = logLen[n]
            /\ MemoryRun(n).cells = log[n]
        BY <1>1 DEF Basics, RunsTyped
      <3>2. k \in MemoryRun(n).from + 1 .. MemoryRun(n).to
        BY <1>2, <1>9, <3>1
      <3> QED BY <1>1, <3>1, <3>2 DEF Basics, RunsAreElected
    <2>4. HasEntry(n, c.entry) /\ c.at <= m.term
      <3>1. c.at \in Nat
        BY <1>1 DEF TypeOK, HistoryOK, Term
      <3> QED BY <1>2, <2>2, <2>3, <3>1 DEF HasEntry
    <2>5. \A i \in m.prevLogIndex .. m.prevLogIndex + Len(m.entries) :
            i <= k => TermAt(MessageRun(m), i) = TermAt(MemoryRun(n), i)
      BY <1>1, <2>2, <2>3, <2>4, CommittedIsSpared
    <2> HIDE DEF k
    <2>6. k <= logLen'[n] /\ \A i \in 1 .. k : log'[n][i] = log[n][i]
      BY <1>1, <1>2, <1>6, <1>9, <2>5, SpliceKeeps
    <2> QED BY <2>6 DEF k
  <1>10. first <= last \/ first > last
    <2>1. first \in Nat /\ last \in Nat
      BY DEF AppendEntries
    <2> QED BY <2>1
  <1> QED BY <1>2, <1>6, <1>7, <1>8, <1>9, <1>10

\* HandleAppendEntriesRequest stores what a leader sent, and takes over its commit position.
LEMMA MovesStored ==
    ASSUME Step, AppliedInv, NEW n \in Node, NEW m \in Requests, m \in AppendEntries,
           AppendStored(n, m), ~overran'
    PROVE  CommitIndexMoves
  <1>1. TypeOK /\ TypeOK' /\ Basics
    BY DEF Step
  <1>2. UNCHANGED <<applied, committed>> /\ m.term >= currentTerm[n]
        /\ currentTerm' = [currentTerm EXCEPT ![n] = m.term]
    BY DEF AppendStored, Follow, history
  <1>3. PICK last \in 0 .. Len(m.entries) : \E first \in 1 .. last + 1 :
          Scan(n, m, first, last) /\ StoreEntries(n, m, first, last)
    BY DEF AppendStored
  <1>4. PICK first \in 1 .. last + 1 :
          Scan(n, m, first, last) /\ StoreEntries(n, m, first, last)
    BY <1>3
  <1>5. /\ currentTerm'[n] = m.term
        /\ \A p \in Node \ {n} : currentTerm'[p] = currentTerm[p]
    BY <1>1, <1>2 DEF TypeOK, ServerOK
  <1>6. \A p \in Node : currentTerm[p] <= currentTerm'[p]
    <2>1. \A p \in Node : currentTerm[p] \in Nat
      BY <1>1 DEF Basics, RunsTyped
    <2> QED BY <1>2, <1>5, <2>1
  <1>7. Requests' \subseteq Requests
    BY <1>4 DEF StoreEntries, AppendReply, Answer, Requests
  <1>8. /\ \A p \in Node \ {n} : log'[p] = log[p] /\ logLen'[p] = logLen[p]
        /\ logLen'[n] = IF first <= last THEN m.prevLogIndex + last ELSE logLen[n]
    BY <1>4, StoredLog
  <1>9. /\ commitIndex'[n] = IF last = Len(m.entries) /\ m.leaderCommit > commitIndex[n]
                             THEN Lesser(m.leaderCommit, logLen'[n]) ELSE commitIndex[n]
        /\ \A p \in Node \ {n} : commitIndex'[p] = commitIndex[p]
    <2>1. commitIndex' = [commitIndex EXCEPT ![n] =
                             IF last = Len(m.entries) /\ m.leaderCommit > @
                             THEN Lesser(m.leaderCommit, IF first <= last THEN m.prevLogIndex + last ELSE logLen[n])
                             ELSE @]
      BY <1>4 DEF StoreEntries
    <2> QED BY <1>1, <1>8, <2>1 DEF TypeOK, LogOK
  <1>10. ASSUME NEW p \in Node \ {n} PROVE Advances(p)
    <2>1. commitIndex[p] <= logLen[p]
      BY DEF AppliedInv, CommitIndexIsKnown
    <2> QED BY <1>2, <1>8, <1>9, <2>1, StillAdvances
  <1>11. commitIndex[n] <= logLen'[n] /\ \A i \in 1 .. commitIndex[n] : log'[n][i] = log[n][i]
    BY StoredSpares
  <1>12. CASE commitIndex'[n] = commitIndex[n]
    <2>1. Advances(n)
      BY <1>2, <1>11, <1>12, StillAdvances
    <2> QED BY <1>2, <1>6, <1>7, <1>10, <2>1 DEF CommitIndexMoves
  <1>13. CASE commitIndex'[n] # commitIndex[n]
    <2>1. /\ last = Len(m.entries) /\ m.leaderCommit > commitIndex[n]
          /\ commitIndex'[n] = Lesser(m.leaderCommit, logLen'[n])
      BY <1>9, <1>13
    <2>2. /\ m.leaderCommit \in Nat /\ commitIndex[n] \in Nat /\ logLen'[n] \in Nat
          /\ applied[n] \in Seq(Entry)
      BY <1>1 DEF AppendEntries, Index, TypeOK, LogOK
    <2>3. /\ commitIndex'[n] <= logLen'[n] /\ commitIndex'[n] > commitIndex[n]
          /\ \A i \in 1 .. commitIndex'[n] :
               \E c \in committed : c.entry = log'[n][i] /\ c.at <= m.term
      <3>1. /\ first \in 1 .. Len(m.entries) + 1 /\ Scan(n, m, first, Len(m.entries))
            /\ StoreEntries(n, m, first, Len(m.entries))
        BY <1>4, <2>1
      <3>2. commitIndex'[n] \in Nat /\ commitIndex'[n] > commitIndex[n] /\ commitIndex'[n] <= m.leaderCommit
        BY <1>11, <1>13, <2>1, <2>2 DEF Lesser
      <3>3. commitIndex'[n] <= m.prevLogIndex + Len(m.entries)
        <4>1. ~(commitIndex'[n] > m.prevLogIndex + Len(m.entries))
          BY <1>4, <3>2 DEF StoreEntries
        <4>2. m.prevLogIndex + Len(m.entries) \in Nat
          BY DEF AppendEntries, Index
        <4> QED BY <3>2, <4>1, <4>2
      <3>4. PICK k : k = commitIndex'[n]
        OBVIOUS
      <3>5. k \in Nat \ {0} /\ k <= m.leaderCommit /\ k <= m.prevLogIndex + Len(m.entries)
        BY <2>2, <3>2, <3>3, <3>4
      <3> QED BY <3>1, <3>2, <3>4, <3>5, StoredIsKnown
    <2>5. ASSUME NEW i \in commitIndex[n] + 1 .. commitIndex'[n]
          PROVE  Known(log[n][i], currentTerm[n])'
      <3>1. i \in 1 .. commitIndex'[n]
        BY <2>2
      <3> QED BY <1>2, <1>5, <2>3, <3>1 DEF Known
    <2>6. Len(applied[n]) <= commitIndex[n] /\ Len(applied[n]) \in Nat
      BY <2>2 DEF AppliedInv, AppliedIsKnown
    <2>7. Advances(n)
      <3>1. applied'[n] = applied[n] /\ commitIndex'[n] \in Nat
        BY <1>1, <1>2 DEF TypeOK, LogOK, Index
      <3>2. commitIndex[n] <= commitIndex'[n]
        BY <2>2, <2>3, <3>1
      <3>3. \A i \in 1 .. Len(applied'[n]) : i <= Len(applied[n]) /\ applied'[n][i] = applied[n][i]
        BY <2>6, <3>1
      <3> QED BY <1>11, <2>3, <2>5, <2>6, <3>1, <3>2, <3>3, Zenon DEF Advances
    <2> QED BY <1>2, <1>6, <1>7, <1>10, <2>7 DEF CommitIndexMoves
  <1> QED BY <1>12, <1>13

\* HandleAppendEntriesRequest.
LEMMA MovesAppendRequest ==
    ASSUME Step, LogInv', AppliedInv, NEW n \in Node, HandleAppendEntriesRequest(n), ~overran'
    PROVE  CommitIndexMoves
  <1>0. TypeOK /\ TypeOK' /\ LogInv /\ Undamaged /\ MaxFaults = 0 /\ Basics
    BY DEF Step, CommitInv
  <1>1. PICK m \in Inbox(n, "AppendEntries") :
          \/ AppendStale(n, m) \/ AppendTermFault(n, m) \/ AppendMismatch(n, m)
          \/ AppendStored(n, m) \/ AppendTruncateFault(n, m) \/ AppendEntryFault(n, m)
    BY DEF HandleAppendEntriesRequest
  <1>2. m \in AppendEntries /\ m \in Requests
    BY <1>0, InboxType DEF TypeOK, Requests
  <1>3. AppendStale(n, m) \/ AppendMismatch(n, m) \/ AppendStored(n, m)
    BY <1>0, <1>1, <1>2, UndamagedAppend
  <1>4. \A p \in Node : currentTerm[p] \in Nat
    BY <1>0 DEF Basics, RunsTyped
  <1>5. CASE AppendStale(n, m)
    <2>1. UNCHANGED <<log, logLen, commitIndex, applied, committed, currentTerm>>
      BY <1>5 DEF AppendStale, pstate, history
    <2>2. Requests' \subseteq Requests
      BY <1>5 DEF AppendStale, AppendReply, Answer, Requests
    <2> QED BY <1>4, <2>1, <2>2, QuietMoves
  <1>6. CASE AppendMismatch(n, m)
    <2>1. UNCHANGED <<log, logLen, commitIndex, applied, committed>>
      BY <1>6 DEF AppendMismatch, history
    <2>2. Requests' \subseteq Requests
      BY <1>6 DEF AppendMismatch, AppendReply, Answer, Requests
    <2>3. \A p \in Node : currentTerm[p] <= currentTerm'[p]
      BY <1>0, <1>4, <1>6 DEF AppendMismatch, Follow, TypeOK, ServerOK
    <2> QED BY <2>1, <2>2, <2>3, QuietMoves
  <1> QED BY <1>2, <1>3, <1>5, <1>6, MovesStored

\* A leader moves its own commitIndex, and remembers what that commits.
LEMMA MovesCommit ==
    ASSUME Step, AppliedInv, NEW n \in Node, NEW k \in Nat, commitIndex[n] <= k, k <= logLen'[n],
           commitIndex' = [commitIndex EXCEPT ![n] = k],
           committed' = committed \cup {[entry |-> log'[n][i], at |-> currentTerm[n]]
                                          : i \in commitIndex[n] + 1 .. k},
           \A p \in Node : /\ logLen[p] <= logLen'[p]
                           /\ \A i \in 1 .. logLen[p] : log'[p][i] = log[p][i],
           UNCHANGED <<applied, currentTerm>>, Requests' \subseteq Requests
    PROVE  CommitIndexMoves
  <1>1. \A p \in Node : /\ commitIndex[p] \in Nat /\ logLen[p] \in Nat /\ logLen'[p] \in Nat
                        /\ applied[p] \in Seq(Entry) /\ currentTerm[p] \in Nat
                        /\ commitIndex[p] <= logLen[p] /\ Len(applied[p]) <= commitIndex[p]
    BY DEF Step, TypeOK, LogOK, ServerOK, Index, Term, AppliedInv, CommitIndexIsKnown, AppliedIsKnown
  <1>2. \A p \in Node : /\ commitIndex[p] <= logLen'[p]
                        /\ \A i \in 1 .. commitIndex[p] : log'[p][i] = log[p][i]
    BY <1>1
  <1>3. commitIndex'[n] = k /\ \A p \in Node \ {n} : commitIndex'[p] = commitIndex[p]
    BY DEF Step, TypeOK, LogOK
  <1>4. ASSUME NEW p \in Node \ {n} PROVE Advances(p)
    BY <1>2, <1>3, StillAdvances
  <1>5. ASSUME NEW i \in commitIndex[n] + 1 .. k PROVE Known(log[n][i], currentTerm[n])'
    <2>1. [entry |-> log'[n][i], at |-> currentTerm[n]] \in committed'
      OBVIOUS
    <2> QED BY <1>1, <2>1 DEF Known
  <1>6. Advances(n)
    BY <1>1, <1>2, <1>3, <1>5 DEF Advances
  <1> QED BY <1>1, <1>4, <1>6 DEF CommitIndexMoves

\* HandleAppendEntriesResponse.
LEMMA MovesAppendResponse ==
    ASSUME Step, AppliedInv, NEW n \in Node, HandleAppendEntriesResponse(n)
    PROVE  CommitIndexMoves
  <1>1. PICK m \in Inbox(n, "AppendEntriesResponse") :
          /\ Answer(m, {})
          /\ \/ IgnoreResponse
             \/ Newer(n, m) /\ StepDown(n, m.term)
             \/ /\ IF m.success THEN PeerAccepted(n, m) ELSE PeerRefused(n, m)
                /\ UNCHANGED <<role, leaderId, pstate, applied, cstate, fd, disk, votes, elected, overran, budget>>
    BY DEF HandleAppendEntriesResponse
  <1>2. Requests' \subseteq Requests
    BY <1>1 DEF Answer, Requests
  <1>3. /\ \A p \in Node : currentTerm[p] \in Nat /\ commitIndex[p] \in Nat /\ logLen[p] \in Nat
        /\ m.term \in Nat
    <2>1. TypeOK
      BY DEF Step
    <2>2. m \in AppendEntriesResponse
      BY <2>1, InboxType DEF TypeOK
    <2> QED BY <2>1, <2>2 DEF TypeOK, ServerOK, LogOK, Index, Term, AppendEntriesResponse
  <1>4. CASE IgnoreResponse
    BY <1>2, <1>3, <1>4, QuietMoves DEF IgnoreResponse, pstate, history
  <1>5. CASE Newer(n, m) /\ StepDown(n, m.term)
    <2>1. UNCHANGED <<log, logLen, commitIndex, applied, committed>>
      BY <1>5 DEF StepDown, history
    <2>2. \A p \in Node : currentTerm[p] <= currentTerm'[p]
      <3>1. currentTerm' = [currentTerm EXCEPT ![n] = m.term] /\ m.term > currentTerm[n]
        BY <1>5 DEF StepDown, update_term_locked, Newer
      <3> QED BY <1>3, <3>1 DEF Step, TypeOK, ServerOK
    <2> QED BY <1>2, <2>1, <2>2, QuietMoves
  <1>6. CASE /\ IF m.success THEN PeerAccepted(n, m) ELSE PeerRefused(n, m)
             /\ UNCHANGED <<role, leaderId, pstate, applied, cstate, fd, disk, votes, elected, overran, budget>>
    <2>1. UNCHANGED <<log, logLen, applied, currentTerm>>
      BY <1>6 DEF pstate
    <2>2. CASE UNCHANGED <<commitIndex, committed>>
      BY <1>2, <1>3, <2>1, <2>2, QuietMoves
    <2>3. CASE \E k \in commitIndex[n] + 1 .. logLen[n] : Commit(n, k, log[n])
      <3>1. PICK k \in commitIndex[n] + 1 .. logLen[n] : Commit(n, k, log[n])
        BY <2>3
      <3>2. k \in Nat /\ commitIndex[n] <= k /\ k <= logLen[n]
        BY <1>3
      <3>3. /\ commitIndex' = [commitIndex EXCEPT ![n] = k]
            /\ committed' = committed \cup {[entry |-> log[n][i], at |-> currentTerm[n]]
                                              : i \in commitIndex[n] + 1 .. k}
        BY <3>1 DEF Commit
      <3>4. \A p \in Node : logLen[p] <= logLen[p]
        BY <1>3
      <3> QED BY <1>2, <2>1, <3>2, <3>3, <3>4, MovesCommit
    <2>4. UNCHANGED <<commitIndex, committed>>
            \/ \E k \in commitIndex[n] + 1 .. logLen[n] : Commit(n, k, log[n])
      BY <1>6 DEF PeerAccepted, PeerRefused, Replicated
    <2> QED BY <2>2, <2>3, <2>4
  <1> QED BY <1>1, <1>4, <1>5, <1>6

\* raft_leader_send_command: only a lone server moves its commitIndex.
LEMMA MovesCommand ==
    ASSUME Step, AppliedInv, NEW n \in Node, raft_leader_send_command(n)
    PROVE  CommitIndexMoves
  <1>0. TypeOK /\ TypeOK' /\ LogInv /\ Undamaged /\ MaxFaults = 0
    BY DEF Step, CommitInv
  <1>1. PICK x \in Command : AcceptCommand(n, x, "ok")
    BY <1>0, NoFault DEF raft_leader_send_command
  <1>2. PICK k : k = logLen[n] + 1
    OBVIOUS
  <1>3. PICK e : e = [index |-> k, term |-> currentTerm[n], command |-> x]
    OBVIOUS
  <1> DEFINE cells == [log[n] EXCEPT ![k] = e]
  <1>4. /\ log' = [log EXCEPT ![n] = cells] /\ logLen' = [logLen EXCEPT ![n] = k]
        /\ UNCHANGED <<currentTerm, net, applied>> /\ logLen[n] < LogCap
        /\ UNCHANGED <<commitIndex, committed>> \/ Commit(n, k, cells)
    BY <1>1, <1>2, <1>3 DEF raft_leader_send_command, AcceptCommand
  <1>5. /\ \A p \in Node : logLen[p] \in Nat /\ commitIndex[p] \in Nat /\ currentTerm[p] \in Nat
        /\ k \in Nat /\ log[n] \in Cells
    <2>1. \A p \in Node : logLen[p] \in Nat /\ commitIndex[p] \in Nat /\ log[p] \in Cells
      BY <1>0 DEF TypeOK, LogOK, Index
    <2>2. \A p \in Node : currentTerm[p] \in Nat
      BY <1>0 DEF TypeOK, ServerOK, Term
    <2> QED BY <1>2, <2>1, <2>2
  <1>6. log'[n] = cells /\ logLen'[n] = k
        /\ \A p \in Node \ {n} : log'[p] = log[p] /\ logLen'[p] = logLen[p]
    BY <1>0, <1>4 DEF TypeOK, LogOK
  <1>7. \A i \in 1 .. logLen[n] : cells[i] = log[n][i]
    BY <1>2, <1>4, <1>5 DEF Cells
  <1> HIDE DEF cells
  <1>8. \A p \in Node : /\ logLen[p] <= logLen'[p]
                        /\ \A i \in 1 .. logLen[p] : log'[p][i] = log[p][i]
    BY <1>2, <1>5, <1>6, <1>7
  <1>9. Requests' \subseteq Requests
    BY <1>4 DEF Requests
  <1>10. commitIndex[n] <= k /\ k <= logLen'[n]
    <2>1. commitIndex[n] <= logLen[n]
      BY DEF AppliedInv, CommitIndexIsKnown
    <2> QED BY <1>2, <1>5, <1>6, <2>1
  <1>11. CASE UNCHANGED <<commitIndex, committed>>
    <2>1. ASSUME NEW p \in Node PROVE Advances(p)
      <3>1. commitIndex[p] <= logLen[p]
        BY DEF AppliedInv, CommitIndexIsKnown
      <3>2. logLen'[p] \in Nat
        BY <1>0 DEF TypeOK, LogOK, Index
      <3>3. commitIndex[p] <= logLen'[p] /\ \A i \in 1 .. commitIndex[p] : log'[p][i] = log[p][i]
        BY <1>5, <1>8, <3>1, <3>2
      <3> QED BY <1>4, <1>11, <3>3, StillAdvances
    <2> QED BY <1>4, <1>5, <1>9, <1>11, <2>1 DEF CommitIndexMoves
  <1>12. CASE Commit(n, k, cells)
    <2>1. /\ commitIndex' = [commitIndex EXCEPT ![n] = k]
          /\ committed' = committed \cup {[entry |-> log'[n][i], at |-> currentTerm[n]]
                                            : i \in commitIndex[n] + 1 .. k}
      BY <1>6, <1>12 DEF Commit
    <2> QED BY <1>4, <1>5, <1>8, <1>9, <1>10, <2>1, MovesCommit
  <1> QED BY <1>4, <1>11, <1>12

\* What is at the positions of a concatenation.
LEMMA Concatenation ==
    ASSUME NEW S, NEW s \in Seq(S), NEW t \in Seq(S)
    PROVE  /\ Len(s \o t) = Len(s) + Len(t)
           /\ \A i \in 1 .. Len(s) : (s \o t)[i] = s[i]
           /\ \A i \in 1 .. Len(t) : (s \o t)[Len(s) + i] = t[i]
  OBVIOUS

\* raft_commit_entry hands out entries of the log below commitIndex.
LEMMA MovesCommitEntry ==
    ASSUME Step, AppliedInv, NEW n \in Node, raft_commit_entry(n)
    PROVE  CommitIndexMoves
  <1>1. /\ UNCHANGED <<log, logLen, currentTerm, commitIndex, committed, net>>
        /\ Len(applied[n]) < commitIndex[n]
    BY DEF raft_commit_entry, pstate, history
  <1>2. \A p \in Node : /\ commitIndex[p] \in Nat /\ currentTerm[p] \in Nat
                        /\ applied[p] \in Seq(Entry) /\ commitIndex[p] <= logLen[p]
    BY DEF Step, TypeOK, LogOK, ServerOK, Index, Term, AppliedInv, CommitIndexIsKnown
  <1>3. PICK count : count = Lesser(OutCap, commitIndex[n] - Len(applied[n]))
    OBVIOUS
  <1> DEFINE out == [i \in 1 .. count |-> log[n][Len(applied[n]) + i]]
  <1>4. applied' = [applied EXCEPT ![n] = applied[n] \o out]
    BY <1>3 DEF raft_commit_entry
  <1>5. applied'[n] = applied[n] \o out /\ \A p \in Node \ {n} : applied'[p] = applied[p]
    BY <1>4 DEF Step, TypeOK, LogOK
  <1>6. /\ Len(applied[n]) \in Nat /\ count \in Nat
        /\ Len(applied[n]) + count <= commitIndex[n]
    <2>1. Len(applied[n]) \in Nat /\ OutCap \in Nat
      BY <1>2, BoundAssumption
    <2> QED BY <1>1, <1>2, <1>3, <2>1 DEF Lesser
  <1>7. Len(out) = count
    BY <1>6
  <1>8. out \in Seq(Entry)
    <2>1. ASSUME NEW i \in 1 .. count PROVE log[n][Len(applied[n]) + i] \in Entry
      <3>1. log[n] \in Cells /\ logLen[n] \in 0 .. LogCap
        BY DEF Step, TypeOK, LogOK, Index
      <3>2. commitIndex[n] \in Nat /\ commitIndex[n] <= logLen[n]
        BY <1>2
      <3>3. Len(applied[n]) + i \in 1 .. LogCap
        BY <1>6, <3>1, <3>2, LogCapAssumption, SMTT(30)
      <3> QED BY <3>1, <3>3, SMTT(30) DEF Cells
    <2> QED BY <1>6, <2>1, SMTT(30)
  <1>9. /\ Len(applied'[n]) = Len(applied[n]) + count
        /\ \A i \in 1 .. Len(applied[n]) : applied'[n][i] = applied[n][i]
        /\ \A i \in 1 .. count : applied'[n][Len(applied[n]) + i] = out[i]
    <2> HIDE DEF out
    <2>1. applied[n] \in Seq(Entry)
      BY <1>2
    <2>2. /\ Len(applied[n] \o out) = Len(applied[n]) + Len(out)
          /\ \A i \in 1 .. Len(applied[n]) : (applied[n] \o out)[i] = applied[n][i]
          /\ \A i \in 1 .. Len(out) : (applied[n] \o out)[Len(applied[n]) + i] = out[i]
      BY <1>8, <2>1, Concatenation
    <2> QED BY <1>5, <1>7, <2>2
  <1>10. ASSUME NEW i \in Len(applied[n]) + 1 .. Len(applied[n]) + count
         PROVE  applied'[n][i] = log[n][i]
    <2>1. PICK j \in 1 .. count : i = Len(applied[n]) + j
      <3>1. i - Len(applied[n]) \in 1 .. count /\ i = Len(applied[n]) + (i - Len(applied[n]))
        BY <1>6
      <3> QED BY <3>1
    <2>2. out[j] = log[n][Len(applied[n]) + j]
      OBVIOUS
    <2> QED BY <1>9, <2>1, <2>2
  <1> HIDE DEF out
  <1>11. \A i \in 1 .. Len(applied'[n]) : \/ i <= Len(applied[n]) /\ applied'[n][i] = applied[n][i]
                                          \/ applied'[n][i] = log[n][i]
    BY <1>6, <1>9, <1>10
  <1>12. Advances(n)
    <2>1. commitIndex[n] + 1 .. commitIndex[n] = {}
      BY <1>2
    <2> QED BY <1>1, <1>2, <1>6, <1>9, <1>11, <2>1 DEF Advances
  <1>13. \A p \in Node \ {n} : Advances(p)
    BY <1>1, <1>2, <1>5, StillAdvances
  <1> QED BY <1>1, <1>2, <1>12, <1>13 DEF CommitIndexMoves, Requests

\* A node dies and starts again.
LEMMA MovesRestart ==
    ASSUME Step, AppliedInv, NEW n \in Node, Restart(n)
    PROVE  CommitIndexMoves
  <1>0. TypeOK /\ LogInv /\ Undamaged /\ MaxFaults = 0
    BY DEF Step, CommitInv
  <1>1. /\ crashes' = crashes + 1 /\ UNCHANGED <<net, committed>>
        /\ commitIndex' = [commitIndex EXCEPT ![n] = 0]
        /\ applied' = [applied EXCEPT ![n] = <<>>]
    BY DEF Restart, history
  <1>2. Restore(n, disk[n], TRUE) /\ currentTerm'[n] = currentTerm[n]
    BY <1>0, UndamagedRestart
  <1>3. \A p \in Node \ {n} : /\ currentTerm'[p] = currentTerm[p] /\ log'[p] = log[p]
                              /\ logLen'[p] = logLen[p] /\ commitIndex'[p] = commitIndex[p]
                              /\ applied'[p] = applied[p]
    BY <1>0, <1>1, <1>2 DEF Restore, TypeOK, ServerOK, LogOK
  <1>4. Starts(n)
    BY <1>0, <1>1 DEF Starts, TypeOK, BudgetOK, LogOK
  <1>5. \A p \in Node : currentTerm[p] \in Nat /\ commitIndex[p] <= logLen[p]
    BY <1>0 DEF TypeOK, ServerOK, Term, AppliedInv, CommitIndexIsKnown
  <1>6. \A p \in Node \ {n} : Advances(p)
    BY <1>3, <1>5, StillAdvances
  <1> QED BY <1>1, <1>2, <1>3, <1>4, <1>5, <1>6 DEF CommitIndexMoves, Requests

\* Every step but the one that sets overran.
LEMMA MovesNext ==
    ASSUME Step, LogInv', AppliedInv, ~overran', [Next]_vars
    PROVE  CommitIndexMoves
  <1>1. \A p \in Node : currentTerm[p] \in Nat
    BY DEF Step, Basics, RunsTyped
  <1>2. CASE UNCHANGED vars
    <2>1. UNCHANGED <<log, logLen, commitIndex, applied, committed, currentTerm, net>>
      BY <1>2 DEF vars, pstate, history
    <2> QED BY <1>1, <2>1, QuietMoves DEF Requests
  <1>3. ASSUME NEW m, Lose(m) PROVE CommitIndexMoves
    <2>1. UNCHANGED <<log, logLen, commitIndex, applied, committed, currentTerm>> /\ net' \subseteq net
      BY <1>3 DEF Lose, pstate, history
    <2> QED BY <1>1, <2>1, QuietMoves DEF Requests
  <1> QED BY <1>2, <1>3, MovesElections, MovesSend, MovesHeartbeat, MovesAppendRequest,
             MovesAppendResponse, MovesCommand, MovesCommitEntry, MovesRestart DEF Next

\* Only HandleAppendEntriesRequest, where it takes over a commit position, sets overran,
\* and nothing clears it.
LEMMA OverrunsAreStores ==
    ASSUME TypeOK, [Next]_vars
    PROVE  \/ overran' = overran
           \/ overran' /\ \E n \in Node, m \in Requests : m \in AppendEntries /\ AppendStored(n, m)
  <1>1. ASSUME NEW n \in Node, HandleAppendEntriesRequest(n)
        PROVE  \/ overran' = overran
               \/ overran' /\ \E m \in Requests : m \in AppendEntries /\ AppendStored(n, m)
    <2>1. PICK m \in Inbox(n, "AppendEntries") :
            \/ AppendStale(n, m) \/ AppendTermFault(n, m) \/ AppendMismatch(n, m)
            \/ AppendStored(n, m) \/ AppendTruncateFault(n, m) \/ AppendEntryFault(n, m)
      BY <1>1 DEF HandleAppendEntriesRequest
    <2>2. m \in AppendEntries /\ m \in Requests
      BY InboxType DEF TypeOK, Requests
    <2>3. CASE ~AppendStored(n, m)
      BY <2>1, <2>3 DEF AppendStale, AppendTermFault, AppendMismatch, AppendTruncateFault,
                        AppendEntryFault, history
    <2>4. CASE AppendStored(n, m)
      <3>1. PICK last \in 0 .. Len(m.entries) : \E first \in 1 .. last + 1 : StoreEntries(n, m, first, last)
        BY <2>4 DEF AppendStored
      <3>2. PICK first \in 1 .. last + 1 : StoreEntries(n, m, first, last)
        BY <3>1
      <3>3. overran \in BOOLEAN
        BY DEF TypeOK, HistoryOK
      <3>4. overran' = overran \/ overran'
        BY <3>2, <3>3 DEF StoreEntries
      <3> QED BY <2>2, <2>4, <3>4
    <2> QED BY <2>3, <2>4
  <1>2. ASSUME NEW n \in Node,
               \/ raft_timeout(n) \/ HandleRequestVoteRequest(n) \/ HandleRequestVoteResponse(n)
               \/ heartbeat_tick(n) \/ \E p \in Node : raft_append_entries(n, p)
               \/ HandleAppendEntriesResponse(n) \/ raft_leader_send_command(n)
               \/ raft_commit_entry(n) \/ Restart(n) \/ \E m \in net : Lose(m)
        PROVE  overran' = overran
    BY <1>2 DEF raft_timeout, HandleRequestVoteRequest, HandleRequestVoteResponse, StepDown, CountVote,
         IgnoreResponse, heartbeat_tick, raft_append_entries, HandleAppendEntriesResponse,
         raft_leader_send_command, raft_commit_entry, Restart, Lose, history
  <1>3. CASE UNCHANGED vars
    BY <1>3 DEF vars, history
  <1> QED BY <1>1, <1>2, <1>3 DEF Next

\* At the start nothing is committed.
LEMMA AppliedInit == Init => AppliedInv
  <1> SUFFICES ASSUME Init PROVE AppliedInv
    OBVIOUS
  <1>1. /\ Requests = {}
        /\ \A n \in Node : commitIndex[n] = 0 /\ logLen[n] = 0 /\ applied[n] = <<>>
    BY DEF Init, Requests
  <1> QED BY <1>1 DEF AppliedInv, CommitIndexIsKnown, AppliedIsKnown

\* What a step may do to what a live process reads (CommittedPrefixStable).
KeepsPrefix(n) ==
    /\ commitIndex'[n] >= commitIndex[n]
    /\ logLen'[n] >= commitIndex[n]
    /\ \A i \in 1 .. commitIndex[n] : log'[n][i] = log[n][i]

\* What moves so keeps it, or starts from nothing.
LEMMA MovesAreStable ==
    ASSUME Step, AppliedInv, CommitIndexMoves, crashes' = crashes, NEW n \in Node
    PROVE  KeepsPrefix(n)
  <1>1. Advances(n)
    BY DEF CommitIndexMoves, Starts
  <1>2. commitIndex[n] \in Nat /\ commitIndex'[n] \in Nat /\ logLen'[n] \in Nat
    BY DEF Step, TypeOK, LogOK, Index
  <1> QED BY <1>1, <1>2 DEF Advances, KeepsPrefix

\* So does the step that sets overran.
LEMMA StoresAreStable ==
    ASSUME Step, AppliedInv, NEW n \in Node, NEW m \in Requests, m \in AppendEntries,
           AppendStored(n, m), NEW p \in Node
    PROVE  KeepsPrefix(p)
  <1>1. TypeOK /\ TypeOK'
    BY DEF Step
  <1>2. PICK last \in 0 .. Len(m.entries) : \E first \in 1 .. last + 1 :
          Scan(n, m, first, last) /\ StoreEntries(n, m, first, last)
    BY DEF AppendStored
  <1>3. PICK first \in 1 .. last + 1 :
          Scan(n, m, first, last) /\ StoreEntries(n, m, first, last)
    BY <1>2
  <1>4. /\ \A q \in Node \ {n} : log'[q] = log[q] /\ logLen'[q] = logLen[q]
        /\ logLen'[n] = IF first <= last THEN m.prevLogIndex + last ELSE logLen[n]
    BY <1>3, StoredLog
  <1>5. commitIndex' = [commitIndex EXCEPT ![n] =
                           IF last = Len(m.entries) /\ m.leaderCommit > @
                           THEN Lesser(m.leaderCommit, IF first <= last THEN m.prevLogIndex + last ELSE logLen[n])
                           ELSE @]
    BY <1>3 DEF StoreEntries
  <1>6. \A q \in Node : /\ commitIndex[q] \in Nat /\ logLen'[q] \in Nat /\ commitIndex[q] <= logLen[q]
                        /\ logLen[q] \in Nat
    BY <1>1 DEF TypeOK, LogOK, Index, AppliedInv, CommitIndexIsKnown
  <1>7. CASE p # n
    <2>1. commitIndex'[p] = commitIndex[p]
      BY <1>1, <1>5, <1>7 DEF TypeOK, LogOK
    <2> QED BY <1>4, <1>6, <1>7, <2>1 DEF KeepsPrefix
  <1>8. CASE p = n
    <2>1. commitIndex[n] <= logLen'[n] /\ \A i \in 1 .. commitIndex[n] : log'[n][i] = log[n][i]
      BY StoredSpares
    <2>2. commitIndex'[n] = IF last = Len(m.entries) /\ m.leaderCommit > commitIndex[n]
                            THEN Lesser(m.leaderCommit, logLen'[n]) ELSE commitIndex[n]
      BY <1>1, <1>4, <1>5 DEF TypeOK, LogOK
    <2>3. m.leaderCommit \in Nat
      BY DEF AppendEntries, Index
    <2>4. commitIndex'[n] >= commitIndex[n]
      BY <1>6, <2>1, <2>2, <2>3 DEF Lesser
    <2> QED BY <1>6, <1>8, <2>1, <2>4 DEF KeepsPrefix
  <1> QED BY <1>7, <1>8

\* What every step starts from and ends in.
LEMMA StepHolds ==
    ASSUME MaxFaults = 0, TypeOK, ElectionInv, ElectionSafety, LogInv, CommitInv,
           TypeOK', ElectionInv', ElectionSafety', LogInv', CommitInv'
    PROVE  Step
  <1>1. Undamaged /\ Undamaged'
    BY DEF CommitInv
  <1>2. Basics
    BY <1>1, BasicsHold
  <1>3. Basics'
    BY <1>1, BasicsHold, PTL
  <1> QED BY <1>1, <1>2, <1>3 DEF Step

-----------------------------------------------------------------------------
(* Theorems about what is handed out *)

\* As long as no write fails, and until a follower takes over a commit position past the
\* entries its request covered (raft.c:792), commitIndex is over what a leader committed
\* wherever HandleAppendEntriesRequest or AdvanceCommitIndex_locked moves it.
THEOREM AppliedInvariant ==
    ASSUME MaxFaults = 0
    PROVE  Spec => [](~overran => AppliedInv)
  <1>1. /\ TypeOK /\ ElectionInv /\ ElectionSafety /\ LogInv /\ CommitInv /\ [Next]_vars
        /\ TypeOK' /\ ElectionInv' /\ ElectionSafety' /\ LogInv' /\ CommitInv'
        /\ (~overran => AppliedInv)
        => (~overran => AppliedInv)'
    <2> SUFFICES ASSUME TypeOK, ElectionInv, ElectionSafety, LogInv, CommitInv, [Next]_vars,
                        TypeOK', ElectionInv', ElectionSafety', LogInv', CommitInv',
                        ~overran => AppliedInv, ~overran'
                 PROVE  AppliedInv'
      OBVIOUS
    <2>1. Step
      BY StepHolds
    <2>2. AppliedInv
      BY OverrunsAreStores
    <2>3. CommitIndexMoves
      BY <2>1, <2>2, MovesNext
    <2> QED BY <2>1, <2>2, <2>3, AppliedKept
  <1>2. Init => (~overran => AppliedInv)
    BY AppliedInit
  <1> QED BY <1>1, <1>2, TypeCorrect, ElectionInvariant, ElectionsSafe, LogInvariant,
             CommitInvariant, PTL DEF Spec

\* Until then raft_commit_entry hands out nothing but what a leader committed, and so no two
\* nodes, nor two lives of one node, are handed different commands at an index.
THEOREM AppliesAreSafe ==
    ASSUME MaxFaults = 0
    PROVE  Spec => []StateMachineSafety
  <1>1. (~overran => AppliedInv) /\ CommittedOnce => StateMachineSafety
    BY DEF AppliedInv, AppliedIsKnown, StateMachineSafety
  <1> QED BY <1>1, AppliedInvariant, CommitsAreOnce, PTL

\* Until then, and in the very step that goes too far, the part of the log
\* raft_commit_entry may read is neither truncated nor overwritten by
\* HandleAppendEntriesRequest while the process lives.
THEOREM PrefixIsStable ==
    ASSUME MaxFaults = 0
    PROVE  Spec => CommittedPrefixStable
  <1> DEFINE Keeps == \A n \in Node :
                        crashes' = crashes /\ ~overran
                            => /\ commitIndex'[n] >= commitIndex[n]
                               /\ logLen'[n] >= commitIndex[n]
                               /\ \A i \in 1 .. commitIndex[n] : log'[n][i] = log[n][i]
  <1>1. /\ TypeOK /\ ElectionInv /\ ElectionSafety /\ LogInv /\ CommitInv /\ [Next]_vars
        /\ TypeOK' /\ ElectionInv' /\ ElectionSafety' /\ LogInv' /\ CommitInv'
        /\ (~overran => AppliedInv)
        => Keeps
    <2> SUFFICES ASSUME TypeOK, ElectionInv, ElectionSafety, LogInv, CommitInv, [Next]_vars,
                        TypeOK', ElectionInv', ElectionSafety', LogInv', CommitInv',
                        ~overran => AppliedInv, NEW n \in Node, crashes' = crashes, ~overran
                 PROVE  KeepsPrefix(n)
      BY DEF KeepsPrefix
    <2>1. Step /\ AppliedInv
      BY StepHolds
    <2>2. CASE overran' = overran
      <3>1. CommitIndexMoves
        BY <2>1, <2>2, MovesNext
      <3> QED BY <2>1, <3>1, MovesAreStable
    <2>3. CASE \E q \in Node, m \in Requests : m \in AppendEntries /\ AppendStored(q, m)
      BY <2>1, <2>3, StoresAreStable
    <2> QED BY <2>2, <2>3, OverrunsAreStores
  <1> QED BY <1>1, AppliedInvariant, TypeCorrect, ElectionInvariant, ElectionsSafe, LogInvariant,
             CommitInvariant, PTL DEF Spec, CommittedPrefixStable
=============================================================================
