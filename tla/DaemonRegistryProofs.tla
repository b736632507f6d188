------------------------ MODULE DaemonRegistryProofs ------------------------
(***************************************************************************)
(* Proofs about DaemonRegistry: what holds however the commands overlap,   *)
(* and what holds when they are run one after the other.                   *)
(***************************************************************************)
EXTENDS DaemonRegistry, FiniteSetTheorems, FunctionTheorems, WellFoundedInduction, TLAPS

USE RegistryAssumption, NameAssumption

-----------------------------------------------------------------------------
(* The invariants *)

\* A name in a file: that of a plant or of the dspawn daemons, then numbers.
LineName ==
    {s \in Seq(Plant \cup {DSpawn} \cup Nat) : s # <<>> /\ Head(s) \in Plant \cup {DSpawn}}

RegLine == [name : LineName, pid : Proc]

\* Who is called what, by what it is about to do.  Only dspawn counts namesakes.
NamesByPhase ==
    \A p \in Proc :
        /\ pc[p] \in {"check", "lock", "locked", "revive", "reread", "spawned", "respawned",
                      "detached"} => name[p] \in Plant
        /\ pc[p] = "count" => name[p] = DSpawn
        /\ pc[p] = "append" => name[p] \in Plant \cup {DSpawn}
        /\ pc[p] \in {"unborn", "count"} \/ name[p] \in Plant => count[p] = 0

\* The lock is held for as long as spawn_plant relies on it.
LockIsHeld ==
    \A p \in Proc : pc[p] \in {"locked", "spawned"} => lock[name[p]] = p

RegistryInv ==
    /\ pc \in [Proc -> Phase]
    /\ name \in [Proc -> Plant \cup {DSpawn, Nil}]
    /\ lock \in [Plant -> Proc \cup {Nil}]
    /\ count \in [Proc -> Nat]
    /\ reg \in Seq([name : LineName, pid : Proc])
    /\ mishap \in [Proc -> SUBSET Mishap]
    /\ NamesByPhase
    /\ LockIsHeld
    /\ NameStaysListed

Busy(p) == pc[p] \notin {"unborn", "working", "exit"}

\* One command at a time.
Solo == \A p, q \in Proc : Busy(p) /\ Busy(q) => p = q

\* A line is a plant's, or one of the dspawn daemons', which are numbered from 0.
LinesAreNumbered ==
    \A i \in DOMAIN reg :
        \/ \E x \in Plant : reg[i].name = <<x>>
        \/ \E k \in 0 .. Namesakes(reg, <<DSpawn>>) - 1 :
             reg[i].name = Numbered(<<DSpawn>>, k)

\* What daemon_register found out still holds when it appends, if it could look.
FoundStillHolds ==
    \A p \in Proc : pc[p] = "append"
        => \/ /\ name[p] = DSpawn
              /\ count[p] = Namesakes(reg, <<DSpawn>>) \/ ("call" \in mishap[p] /\ count[p] = 0)
           \/ name[p] \in Plant /\ ("call" \in mishap[p] \/ ~is_daemon_registered(name[p]))

SoloInv ==
    /\ Solo
    /\ LinesAreNumbered
    /\ FoundStillHolds
    /\ NamesDistinct

\* A process has one line, from when it starts to work.
OneLineEach ==
    /\ \A i, j \in DOMAIN reg : reg[i].pid = reg[j].pid => i = j
    /\ \A i \in DOMAIN reg : pc[reg[i].pid] \in {"working", "exit"}

\* Every unharmed daemon has a line of its own, under its own name if it is a plant.
ListedByName ==
    \A p \in Proc : pc[p] = "working" /\ Unharmed(p)
        => \E i \in DOMAIN reg : /\ reg[i].pid = p
                                 /\ name[p] \in Plant => reg[i].name = <<name[p]>>

\* Nobody unharmed works for a plant that somebody unharmed starts, and it has no line.
StartsAlone ==
    \A p \in Proc : name[p] \in Plant /\ Unharmed(p) =>
        /\ pc[p] \in {"lock", "locked", "spawned", "detached", "append"}
             => \A q \in Daemons(name[p]) : ~Unharmed(q)
        /\ pc[p] \in {"spawned", "detached", "append"} => ~is_daemon_registered(name[p])

\* dkill offers every unharmed daemon there is, or as many as it has room for.
OffersAll ==
    \A p \in Proc : pc[p] = "prompt" /\ Len(listed[p]) # MaxDaemons
        => \A q \in Proc : pc[q] = "working" /\ Unharmed(q) => q \in Pids(listed[p])

\* A respawned daemon is not unharmed from when it has been told apart.
RespawnsHarmed == \A p \in Proc : pc[p] = "respawned" => ~Unharmed(p)

SequentialInv ==
    /\ OneLineEach
    /\ ListedByName
    /\ StartsAlone
    /\ DOMAIN listed = Proc /\ OffersAll
    /\ RespawnsHarmed
    /\ \A x \in Plant : \A p, q \in Daemons(x) : Unharmed(p) /\ Unharmed(q) => p = q

-----------------------------------------------------------------------------
(* However the commands overlap *)

\* Whoever kills, processes go nowhere but to their end.
LEMMA KillEnds ==
    ASSUME RegistryInv, NEW p \in Proc, NEW lines, NEW those, NEW pidOf, NEW call,
           Kill(p, lines, those, pidOf, call)
    PROVE  /\ pc' \in [Proc -> Phase] /\ pc'[p] = "exit"
           /\ \A q \in Proc : pc'[q] = pc[q] \/ pc'[q] = "exit"
  BY DEF Kill, RegistryInv, Phase

\* Whoever is at work after p emptied the register knows why.
Excused(p) ==
    \A q \in Proc : pc'[q] = "working" =>
        \/ mishap'[q] \cap {"call", "full"} # {}
        \/ /\ "unknown" \in mishap'[q]
           /\ q \notin Pids(listed[p]) /\ Len(listed[p]) # MaxDaemons

\* What happened is not forgotten.
MishapsGrow ==
    /\ mishap' \in [Proc -> SUBSET Mishap]
    /\ \A q \in Proc : mishap[q] \subseteq mishap'[q]

\* dkill, however it is answered, and a plant's death: processes end, and the
\* register stays or is emptied.
Ends(p) ==
    /\ pc' \in [Proc -> Phase] /\ pc'[p] = "exit"
    /\ \A q \in Proc : pc'[q] = pc[q] \/ pc'[q] = "exit"
    /\ UNCHANGED <<name, lock, count, listed>>
    /\ MishapsGrow
    /\ \/ UNCHANGED reg
       \/ reg' = <<>> /\ pc[p] = "prompt" /\ Excused(p)

\* What befalls a process is added to what befell it before.
LEMMA MishapAdds ==
    ASSUME RegistryInv, NEW p \in Proc, NEW m \in Mishap,
           mishap' = [mishap EXCEPT ![p] = @ \cup {m}]
    PROVE  /\ MishapsGrow
           /\ \A q \in Proc \ {p} : mishap'[q] = mishap[q]
           /\ mishap'[p] = mishap[p] \cup {m}
  <1>1. mishap \in [Proc -> SUBSET Mishap]
    BY DEF RegistryInv
  <1>2. /\ \A q \in Proc \ {p} : mishap'[q] = mishap[q]
        /\ mishap'[p] = mishap[p] \cup {m}
    BY <1>1
  <1>3. mishap[p] \cup {m} \in SUBSET Mishap
    BY <1>1
  <1>4. mishap' \in [Proc -> SUBSET Mishap]
    <2> HIDE DEF Mishap
    <2> QED BY <1>1, <1>3
  <1>5. \A q \in Proc : mishap[q] \subseteq mishap'[q]
    BY <1>2
  <1> QED BY <1>2, <1>4, <1>5 DEF MishapsGrow

\* Whoever has a call fail, or was respawned, is not unharmed.
LEMMA Harms ==
    ASSUME RegistryInv, NEW p \in Proc, NEW m \in Mishap \ {"unknown"},
           mishap' = [mishap EXCEPT ![p] = @ \cup {m}]
    PROVE  ~Unharmed(p)'
  <1>1. mishap'[p] = mishap[p] \cup {m} /\ m # "unknown"
    BY MishapAdds
  <1> QED BY <1>1 DEF Unharmed

\* A call that fails, or none.
LEMMA MishapCall ==
    ASSUME RegistryInv, NEW p \in Proc, UNCHANGED history \/ CallFails(p)
    PROVE  /\ MishapsGrow
           /\ \A q \in Proc \ {p} : mishap'[q] = mishap[q]
           /\ mishap'[p] = mishap[p] \/ "call" \in mishap'[p]
  <1>1. CASE UNCHANGED history
    BY <1>1 DEF RegistryInv, history, MishapsGrow
  <1>2. CASE CallFails(p)
    <2>1. "call" \in Mishap /\ mishap' = [mishap EXCEPT ![p] = @ \cup {"call"}]
      BY <1>2 DEF CallFails, Mishap
    <2> QED BY <2>1, MishapAdds
  <1> QED BY <1>1, <1>2

\* Every step but a death: what happens, happens to the one that takes it.
LEMMA MishapStep ==
    ASSUME RegistryInv, NEW p \in Proc,
           \/ RunDplant(p) \/ RunDspawn(p) \/ RunDkill(p)
           \/ CheckRunning(p) \/ TakeLock(p) \/ CheckName(p)
           \/ spawn_plant(p) \/ FindName(p) \/ daemon_register(p)
           \/ RespawnIfDead(p) \/ RespawnIfKnown(p) \/ CountNamesakes(p) \/ ListDaemons(p)
    PROVE  MishapsGrow /\ \A q \in Proc \ {p} : mishap'[q] = mishap[q]
  <1>1. CASE UNCHANGED history \/ CallFails(p)
    BY <1>1, MishapCall
  <1>2. CASE mishap' = [mishap EXCEPT ![p] = @ \cup {"respawned"}]
    BY <1>2 DEF MishapsGrow, RegistryInv, Mishap
  <1> QED BY <1>1, <1>2
    DEF RunDplant, RunDspawn, RunDkill, CheckRunning, TakeLock, plant_lock, CheckName,
        spawn_plant, FindName, daemon_register, RespawnIfDead, RespawnIfKnown,
        CountNamesakes, ListDaemons

\* An emptied register leaves nobody without a reason.
LEMMA KillAllEnds ==
    ASSUME RegistryInv, NEW p \in Proc, pc[p] = "prompt", KillAll(p),
           UNCHANGED <<name, lock, count, listed>>
    PROVE  Ends(p)
  <1>1. PICK call \in Calls(DOMAIN listed[p]) :
          /\ Kill(p, listed[p], DOMAIN listed[p], [q \in Proc |-> p], call)
          /\ \/ /\ reg' = <<>>
                /\ mishap' = [q \in Proc |-> mishap[q] \cup Spared(p, q, call)]
             \/ UNCHANGED <<reg, mishap>>
    BY DEF KillAll
  <1>2. /\ pc' \in [Proc -> Phase] /\ pc'[p] = "exit"
        /\ \A q \in Proc : pc'[q] = pc[q] \/ pc'[q] = "exit"
        /\ \A i \in DOMAIN listed[p] :
             /\ listed[p][i].pid \in Proc /\ Alive(listed[p][i].pid) /\ call[i] # "not killed"
             => pc'[listed[p][i].pid] = "exit"
    <2>1. /\ pc' \in [Proc -> Phase] /\ pc'[p] = "exit"
          /\ \A q \in Proc : pc'[q] = pc[q] \/ pc'[q] = "exit"
      BY <1>1, KillEnds
    <2>2. Kill(p, listed[p], DOMAIN listed[p], [q \in Proc |-> p], call)
      BY <1>1
    <2>3. \A i \in DOMAIN listed[p] :
             /\ listed[p][i].pid \in Proc /\ Alive(listed[p][i].pid) /\ call[i] # "not killed"
             => pc'[listed[p][i].pid] = "exit"
      <3> SUFFICES ASSUME NEW i \in DOMAIN listed[p], listed[p][i].pid \in Proc,
                          Alive(listed[p][i].pid), call[i] # "not killed"
                   PROVE  pc'[listed[p][i].pid] = "exit"
        OBVIOUS
      <3> QED BY <2>2 DEF Kill
    <2> QED BY <2>1, <2>3
  <1>3. CASE UNCHANGED <<reg, mishap>>
    BY <1>2, <1>3 DEF Ends, MishapsGrow, RegistryInv
  <1>4. CASE reg' = <<>> /\ mishap' = [q \in Proc |-> mishap[q] \cup Spared(p, q, call)]
    <2>1. MishapsGrow
      BY <1>4 DEF MishapsGrow, RegistryInv, Spared, Mishap
    <2>2. ASSUME NEW q \in Proc, pc'[q] = "working"
          PROVE  \/ mishap'[q] \cap {"call", "full"} # {}
                 \/ /\ "unknown" \in mishap'[q]
                    /\ q \notin Pids(listed[p]) /\ Len(listed[p]) # MaxDaemons
      <3>1. pc[q] = "working" /\ Alive(q)
        BY <1>2, <2>2 DEF Alive
      <3>2. Spared(p, q, call) \subseteq mishap'[q]
        BY <1>4
      <3>3. DOMAIN call = DOMAIN listed[p]
        BY DEF Calls
      <3>4. CASE q \in Pids(listed[p])
        <4>1. PICK i \in DOMAIN listed[p] : listed[p][i].pid = q
          BY <3>4 DEF Pids
        <4>2. call[i] = "not killed"
          BY <1>2, <2>2, <3>1, <4>1
        <4>3. "call" \in Spared(p, q, call)
          BY <3>1, <3>3, <4>1, <4>2 DEF Spared
        <4> QED BY <3>2, <4>3
      <3>5. CASE q \notin Pids(listed[p])
        <4>1. \/ "call" \in Spared(p, q, call)
              \/ "full" \in Spared(p, q, call)
              \/ "unknown" \in Spared(p, q, call) /\ Len(listed[p]) # MaxDaemons
          BY <3>1, <3>5 DEF Spared
        <4> QED BY <3>2, <3>5, <4>1
      <3> QED BY <3>4, <3>5
    <2>3. Excused(p)
      BY <2>2 DEF Excused
    <2> QED BY <1>2, <1>4, <2>1, <2>3 DEF Ends
  <1> QED BY <1>1, <1>3, <1>4

\* Both are such steps.
LEMMA DeathsEnd ==
    ASSUME RegistryInv, NEW p \in Proc, dkill(p) \/ plant_died(p)
    PROVE  Ends(p)
  <1>1. CASE plant_died(p)
    <2>1. UNCHANGED <<name, lock, reg, count, listed>> /\ pc[p] = "working"
      BY <1>1 DEF plant_died
    <2>2. CASE Goto(p, "exit") /\ CallFails(p)
      <3>1. MishapsGrow
        BY <2>2, MishapCall
      <3> QED BY <2>1, <2>2, <3>1 DEF Goto, Ends, RegistryInv, Phase
    <2>3. CASE UNCHANGED mishap /\ \E lines, those, pidOf, call : Kill(p, lines, those, pidOf, call)
      <3>1. PICK lines, those, pidOf, call : Kill(p, lines, those, pidOf, call)
        BY <2>3
      <3> QED BY <2>1, <2>3, <3>1, KillEnds DEF Ends, MishapsGrow, RegistryInv
    <2> QED BY <1>1, <2>2, <2>3 DEF plant_died
  <1>2. CASE dkill(p) /\ KillOne(p)
    <2>1. PICK lines, those, pidOf, call : Kill(p, lines, those, pidOf, call)
      BY <1>2 DEF KillOne
    <2> QED BY <1>2, <2>1, KillEnds DEF dkill, KillOne, Ends, MishapsGrow, RegistryInv
  <1>3. CASE dkill(p) /\ KillAll(p)
    BY <1>3, KillAllEnds DEF dkill
  <1>4. CASE dkill(p) /\ Cancel(p)
    BY <1>4 DEF dkill, Cancel, Goto, Ends, RegistryInv, Phase, MishapsGrow, history
  <1> QED BY <1>1, <1>2, <1>3, <1>4 DEF dkill

\* The first part of a name stays when a number is added.
LEMMA HeadOfNumbered ==
    ASSUME NEW s \in LineName, NEW k \in Nat
    PROVE  Numbered(s, k) \in LineName
  <1> DEFINE W == Plant \cup {DSpawn} \cup Nat
  <1>1. s \in Seq(W) /\ s # <<>> /\ Head(s) \in Plant \cup {DSpawn} /\ k \in W
    BY DEF LineName
  <1> HIDE DEF W
  <1>2. Append(s, k) \in Seq(W) /\ Append(s, k) # <<>> /\ Head(Append(s, k)) = Head(s)
    BY <1>1
  <1> QED BY <1>1, <1>2 DEF Numbered, LineName, W

\* The name a daemon registers.
LEMMA NumberedIsName ==
    ASSUME NEW x \in Plant \cup {DSpawn}, NEW k \in Nat
    PROVE  Numbered(<<x>>, k) \in LineName
  <1> DEFINE W == Plant \cup {DSpawn} \cup Nat
  <1>1. <<x>> \in Seq(W) /\ <<x>> # <<>> /\ Head(<<x>>) = x
    OBVIOUS
  <1>2. <<x>> \in LineName
    BY <1>1 DEF LineName
  <1> QED BY <1>2, HeadOfNumbered

\* A line that is appended.
LEMMA AppendedLine ==
    ASSUME RegistryInv, NEW p \in Proc, pc[p] = "append", AppendLine(p)
    PROVE  /\ reg' \in Seq([name : LineName, pid : Proc])
           /\ Len(reg') = Len(reg) + 1
           /\ DOMAIN reg = 1 .. Len(reg) /\ DOMAIN reg' = 1 .. Len(reg) + 1
           /\ \A i \in DOMAIN reg : i \in DOMAIN reg' /\ reg'[i] = reg[i]
           /\ reg'[Len(reg) + 1].name = Numbered(<<name[p]>>, count[p])
           /\ reg'[Len(reg) + 1].pid = p
  <1> DEFINE l == Line(Numbered(<<name[p]>>, count[p]), p)
  <1>1. Numbered(<<name[p]>>, count[p]) \in LineName
    BY NumberedIsName DEF RegistryInv, NamesByPhase
  <1>2. l \in [name : LineName, pid : Proc]
    BY <1>1 DEF Line
  <1> HIDE DEF l
  <1>3. reg' = Append(reg, l) /\ reg \in Seq([name : LineName, pid : Proc])
    BY DEF AppendLine, l, RegistryInv
  <1>4. l.name = Numbered(<<name[p]>>, count[p]) /\ l.pid = p
    BY DEF l, Line
  <1> QED BY <1>2, <1>3, <1>4

\* Every line is a process's.
LEMMA LinesOfProcs ==
    ASSUME RegistryInv
    PROVE  /\ Len(reg) \in Nat /\ DOMAIN reg = 1 .. Len(reg)
           /\ \A i \in DOMAIN reg : reg[i].pid \in Proc
  <1> DEFINE S == [name : LineName, pid : Proc]
  <1>1. \A l \in S : l.pid \in Proc
    OBVIOUS
  <1>2. reg \in Seq(S)
    BY DEF RegistryInv
  <1> HIDE DEF S
  <1>3. \A i \in DOMAIN reg : reg[i] \in S
    BY <1>2
  <1> QED BY <1>1, <1>2, <1>3

\* The number of namesakes is a number.
LEMMA NamesakesType ==
    ASSUME RegistryInv, NEW n
    PROVE  Namesakes(reg, n) \in Nat
  <1>1. DOMAIN reg = 1 .. Len(reg) /\ Len(reg) \in Nat
    BY DEF RegistryInv
  <1>2. IsFiniteSet(1 .. Len(reg))
    BY <1>1, FS_Interval
  <1>3. IsFiniteSet({i \in DOMAIN reg : IsPrefix(n, reg[i].name)})
    BY <1>1, <1>2, FS_Subset
  <1> QED BY <1>3, FS_CardinalityType DEF Namesakes

\* The registers of names keep what is said of them when no line goes and nobody
\* new works.
LEMMA StaysListed ==
    ASSUME NameStaysListed, UNCHANGED reg, MishapsGrow,
           \A p \in Proc : pc'[p] = "working" => pc[p] = "working" /\ name'[p] = name[p]
    PROVE  NameStaysListed'
  BY DEF NameStaysListed, is_daemon_registered, MishapsGrow

\* Running a command keeps RegistryInv.
LEMMA RegistryRun ==
    ASSUME RegistryInv, NEW p \in Proc, RunDplant(p) \/ RunDspawn(p) \/ RunDkill(p)
    PROVE  RegistryInv'
  <1>1. UNCHANGED <<lock, reg, count>> /\ pc[p] = "unborn" /\ MishapsGrow
    BY MishapStep DEF RunDplant, RunDspawn, RunDkill, Ready
  <1>2. PICK ph \in {"check", "revive", "count", "list", "exit"} :
          /\ pc' = [pc EXCEPT ![p] = ph]
          /\ ph = "exit" => RunDspawn(p)
    BY DEF RunDplant, RunDspawn, RunDkill, Goto
  <1>3. /\ name' \in [Proc -> Plant \cup {DSpawn, Nil}]
        /\ \A q \in Proc \ {p} : name'[q] = name[q]
        /\ ph \in {"check", "revive"} => name'[p] \in Plant
        /\ ph \in {"count", "exit"} => name'[p] = DSpawn
    BY <1>2 DEF RunDplant, RunDspawn, RunDkill, Goto, RegistryInv
  <1>4. /\ pc' \in [Proc -> Phase] /\ pc'[p] = ph
        /\ \A q \in Proc \ {p} : pc'[q] = pc[q]
    BY <1>2 DEF RegistryInv, Phase
  <1>5. NamesByPhase'
    BY <1>1, <1>3, <1>4 DEF RegistryInv, NamesByPhase
  <1>6. LockIsHeld'
    BY <1>1, <1>3, <1>4 DEF RegistryInv, LockIsHeld
  <1>7. NameStaysListed'
    BY <1>1, <1>3, <1>4, StaysListed DEF RegistryInv
  <1> QED BY <1>1, <1>3, <1>4, <1>5, <1>6, <1>7 DEF RegistryInv, MishapsGrow

\* Starting and stopping keep RegistryInv: everything up to daemon_register.
LEMMA RegistryStart ==
    ASSUME RegistryInv, NEW p \in Proc,
           \/ CheckRunning(p) \/ TakeLock(p) \/ CheckName(p) \/ spawn_plant(p)
           \/ RespawnIfDead(p) \/ RespawnIfKnown(p) \/ ListDaemons(p)
    PROVE  RegistryInv'
  <1>1. UNCHANGED <<name, reg, count>> /\ MishapsGrow
    BY MishapStep DEF CheckRunning, TakeLock, CheckName, spawn_plant, RespawnIfDead, RespawnIfKnown,
           ListDaemons
  <1>2. PICK ph \in {"exit", "lock", "locked", "spawned", "detached", "reread", "respawned",
                     "prompt"} :
          /\ pc' = [pc EXCEPT ![p] = ph]
          /\ ph \in {"lock", "locked", "spawned", "detached", "reread", "respawned"}
               => name[p] \in Plant
          /\ ph \in {"exit", "prompt"} \/ pc[p] # "unborn"
          /\ pc[p] # "unborn"
    BY DEF CheckRunning, TakeLock, plant_lock, CheckName, spawn_plant,
           RespawnIfDead, RespawnIfKnown, ListDaemons, Goto, RegistryInv, NamesByPhase
  <1>3. /\ pc' \in [Proc -> Phase] /\ pc'[p] = ph
        /\ \A q \in Proc \ {p} : pc'[q] = pc[q]
    BY <1>2 DEF RegistryInv, Phase
  <1>4. NamesByPhase'
    BY <1>1, <1>2, <1>3 DEF RegistryInv, NamesByPhase
  <1>5. NameStaysListed'
    BY <1>1, <1>3, StaysListed DEF RegistryInv
  <1>6. /\ lock' \in [Plant -> Proc \cup {Nil}]
        /\ ph \in {"locked", "spawned"} => lock'[name[p]] = p
        /\ \A q \in Proc \ {p} : \A x \in Plant : lock[x] = q => lock'[x] = q
    <2>1. CASE TakeLock(p)
      <3>1. /\ lock \in [Plant -> Proc \cup {Nil}] /\ name[p] \in Plant
        BY <2>1 DEF TakeLock, RegistryInv, NamesByPhase
      <3>2. CASE lock[name[p]] = Nil /\ lock' = [lock EXCEPT ![name[p]] = p]
        BY <3>1, <3>2
      <3>3. CASE UNCHANGED lock /\ Goto(p, "exit")
        BY <1>3, <3>1, <3>3 DEF Goto, RegistryInv
      <3> QED BY <2>1, <3>2, <3>3 DEF TakeLock, plant_lock
    <2>2. CASE CheckName(p)
      BY <1>2, <1>3, <2>2
      DEF CheckName, Goto, RegistryInv, NamesByPhase, LockIsHeld, Phase
    <2>3. CASE spawn_plant(p)
      BY <1>2, <1>3, <2>3 DEF spawn_plant, CloseAll, Goto, RegistryInv, NamesByPhase, Phase
    <2>4. CASE lock' = lock /\ ph \notin {"locked", "spawned"}
      BY <2>4 DEF RegistryInv
    <2>5. CASE CheckRunning(p) \/ RespawnIfDead(p) \/ RespawnIfKnown(p) \/ ListDaemons(p)
      BY <1>2, <1>3, <2>4, <2>5
      DEF CheckRunning, RespawnIfDead, RespawnIfKnown, ListDaemons, Goto, RegistryInv, Phase
    <2> QED BY <2>1, <2>2, <2>3, <2>5
  <1>7. LockIsHeld'
    <2> SUFFICES ASSUME NEW q \in Proc, pc'[q] \in {"locked", "spawned"}
                 PROVE  lock'[name[q]] = q
      BY <1>1 DEF LockIsHeld
    <2>1. CASE q = p
      BY <1>3, <1>6, <2>1
    <2>2. CASE q # p
      BY <1>3, <1>6, <2>2 DEF RegistryInv, LockIsHeld, NamesByPhase
    <2> QED BY <2>1, <2>2
  <1> QED BY <1>1, <1>3, <1>4, <1>5, <1>6, <1>7 DEF RegistryInv, MishapsGrow

\* Registering keeps RegistryInv.
LEMMA RegistryRegister ==
    ASSUME RegistryInv, NEW p \in Proc,
           FindName(p) \/ daemon_register(p) \/ CountNamesakes(p)
    PROVE  RegistryInv'
  <1>1. UNCHANGED <<name, lock>> /\ MishapsGrow
    BY MishapStep DEF FindName, daemon_register, CountNamesakes
  <1>2. CASE FindName(p)
    <2>1. PICK ph \in {"working", "append"} :
            /\ pc' = [pc EXCEPT ![p] = ph] /\ pc[p] = "detached" /\ UNCHANGED <<reg, count>>
            /\ ph = "working" => is_daemon_registered(name[p])
      BY <1>2 DEF FindName, Goto
    <2>2. NamesByPhase' /\ LockIsHeld' /\ pc' \in [Proc -> Phase]
      BY <1>1, <2>1 DEF RegistryInv, NamesByPhase, LockIsHeld, Phase
    <2>3. NameStaysListed'
      BY <1>1, <2>1 DEF RegistryInv, NameStaysListed, is_daemon_registered, MishapsGrow
    <2> QED BY <1>1, <2>1, <2>2, <2>3 DEF RegistryInv, MishapsGrow
  <1>3. CASE CountNamesakes(p)
    <2>1. /\ pc' = [pc EXCEPT ![p] = "append"] /\ pc[p] = "count" /\ UNCHANGED reg
          /\ \/ count' = [count EXCEPT ![p] = Namesakes(reg, <<name[p]>>)]
             \/ UNCHANGED count
      BY <1>3 DEF CountNamesakes, Goto
    <2>2. name[p] = DSpawn /\ name[p] \notin Plant
      BY <2>1 DEF RegistryInv, NamesByPhase
    <2>3. NamesByPhase' /\ LockIsHeld' /\ pc' \in [Proc -> Phase]
      BY <1>1, <2>1, <2>2 DEF RegistryInv, NamesByPhase, LockIsHeld, Phase
    <2>4. NameStaysListed'
      BY <1>1, <2>1, StaysListed DEF RegistryInv
    <2>5. count' \in [Proc -> Nat]
      <3>1. count \in [Proc -> Nat] /\ Namesakes(reg, <<name[p]>>) \in Nat
        BY NamesakesType DEF RegistryInv
      <3> QED BY <2>1, <3>1
    <2> QED BY <1>1, <2>1, <2>3, <2>4, <2>5 DEF RegistryInv, MishapsGrow
  <1>4. CASE daemon_register(p)
    <2>1. /\ pc' = [pc EXCEPT ![p] = "working"] /\ pc[p] = "append" /\ UNCHANGED count
          /\ AppendLine(p) \/ (UNCHANGED reg /\ CallFails(p))
      BY <1>4 DEF daemon_register, Goto
    <2>2. NamesByPhase' /\ LockIsHeld' /\ pc' \in [Proc -> Phase]
      BY <1>1, <2>1 DEF RegistryInv, NamesByPhase, LockIsHeld, Phase
    <2>3. CASE UNCHANGED reg /\ CallFails(p)
      <3>1. "call" \in mishap'[p]
        BY <2>3 DEF CallFails, RegistryInv
      <3>2. NameStaysListed'
        <4> SUFFICES ASSUME NEW q \in Proc, pc'[q] = "working", name[q] \in Plant,
                            mishap'[q] \subseteq {"respawned"}
                     PROVE  is_daemon_registered(name[q])
          BY <1>1, <2>3 DEF NameStaysListed, is_daemon_registered
        <4>1. q # p
          BY <3>1
        <4>2. pc[q] = "working" /\ mishap[q] \subseteq mishap'[q]
          BY <1>1, <2>1, <4>1 DEF RegistryInv, MishapsGrow
        <4>3. mishap[q] \subseteq {"respawned"}
          BY <4>2
        <4> QED BY <4>2, <4>3 DEF RegistryInv, NameStaysListed
      <3> QED BY <1>1, <2>1, <2>2, <2>3, <3>2 DEF RegistryInv, MishapsGrow
    <2>4. CASE AppendLine(p)
      <3>1. /\ reg' \in Seq([name : LineName, pid : Proc])
            /\ \A i \in DOMAIN reg : i \in DOMAIN reg' /\ reg'[i] = reg[i]
            /\ \E i \in DOMAIN reg' : reg'[i].name = Numbered(<<name[p]>>, count[p])
        <4>1. Len(reg) \in Nat
          BY DEF RegistryInv
        <4>2. Len(reg) + 1 \in 1 .. Len(reg) + 1
          BY <4>1
        <4>3. Len(reg) + 1 \in DOMAIN reg'
          BY <2>1, <2>4, <4>2, AppendedLine
        <4>4. reg'[Len(reg) + 1].name = Numbered(<<name[p]>>, count[p])
          BY <2>1, <2>4, AppendedLine
        <4> QED BY <2>1, <2>4, <4>3, <4>4, AppendedLine
      <3>2. NameStaysListed'
        <4> SUFFICES ASSUME NEW q \in Proc, pc'[q] = "working", name[q] \in Plant,
                            mishap[q] \subseteq {"respawned"}
                     PROVE  \E i \in DOMAIN reg' : reg'[i].name = <<name[q]>>
          BY <1>1 DEF NameStaysListed, is_daemon_registered, MishapsGrow
        <4>1. CASE q = p
          BY <3>1, <4>1 DEF RegistryInv, NamesByPhase, Numbered
        <4>2. CASE q # p
          BY <2>1, <3>1, <4>2 DEF RegistryInv, NameStaysListed, is_daemon_registered
        <4> QED BY <4>1, <4>2
      <3> QED BY <1>1, <2>1, <2>2, <3>1, <3>2 DEF RegistryInv, MishapsGrow
    <2> QED BY <2>1, <2>3, <2>4
  <1> QED BY <1>2, <1>3, <1>4

\* A death keeps RegistryInv.
LEMMA RegistryDeath ==
    ASSUME RegistryInv, NEW p \in Proc, Ends(p)
    PROVE  RegistryInv'
  <1>1. NamesByPhase' /\ LockIsHeld'
    BY DEF Ends, RegistryInv, NamesByPhase, LockIsHeld
  <1>2. NameStaysListed'
    <2>1. CASE UNCHANGED reg
      BY <2>1, StaysListed DEF Ends, RegistryInv
    <2>2. CASE Excused(p)
      BY <2>2 DEF Excused, NameStaysListed
    <2> QED BY <2>1, <2>2 DEF Ends
  <1>3. reg' \in Seq([name : LineName, pid : Proc])
    <2> DEFINE S == [name : LineName, pid : Proc]
    <2>1. reg \in Seq(S) /\ (reg' = reg \/ reg' = <<>>)
      BY DEF Ends, RegistryInv
    <2> HIDE DEF S
    <2>2. <<>> \in Seq(S)
      OBVIOUS
    <2>3. reg' \in Seq(S)
      BY <2>1, <2>2, Zenon
    <2> QED BY <2>3 DEF S
  <1> QED BY <1>1, <1>2, <1>3 DEF Ends, RegistryInv, MishapsGrow

\* RegistryInv holds at first, and every step keeps it.
LEMMA RegistryInit == Init => RegistryInv
  BY DEF Init, RegistryInv, Phase, NamesByPhase, LockIsHeld, NameStaysListed

LEMMA RegistryNext == RegistryInv /\ [Next]_vars => RegistryInv'
  <1> SUFFICES ASSUME RegistryInv, [Next]_vars PROVE RegistryInv'
    OBVIOUS
  <1>1. CASE UNCHANGED vars
    BY <1>1 DEF vars, history, RegistryInv, NamesByPhase, LockIsHeld, NameStaysListed,
                is_daemon_registered
  <1>2. ASSUME NEW p \in Proc, dkill(p) \/ plant_died(p) PROVE RegistryInv'
    BY <1>2, DeathsEnd, RegistryDeath
  <1> QED BY <1>1, <1>2, RegistryRun, RegistryStart, RegistryRegister DEF Next

\* However many commands overlap, for any plants: who starts a plant holds its lock,
\* and the name of a daemon at work is in the register unless one of the mishaps befell it.
THEOREM RegistryInvariant == Spec => []RegistryInv
  BY RegistryInit, RegistryNext, PTL DEF Spec

\* One process at most is between plant_lock and the end of spawn_plant for a plant.
THEOREM SpawnsAlone == Spec => []SpawnsExclusively
  <1>1. RegistryInv => SpawnsExclusively
    <2> SUFFICES ASSUME RegistryInv, NEW x \in Plant
                 PROVE  Cardinality({p \in Proc : /\ name[p] = x
                                                  /\ pc[p] \in {"locked", "spawned"}}) <= 1
      BY DEF SpawnsExclusively
    <2> DEFINE S == {p \in Proc : name[p] = x /\ pc[p] \in {"locked", "spawned"}}
    <2>1. S \subseteq {lock[x]}
      BY DEF RegistryInv, LockIsHeld
    <2>2. IsFiniteSet({lock[x]}) /\ Cardinality({lock[x]}) = 1
      BY FS_Singleton
    <2>3. Cardinality(S) <= 1
      BY <2>1, <2>2, FS_Subset
    <2> QED BY <2>3
  <1> QED BY <1>1, RegistryInvariant, PTL

\* Losing the race to register loses no name, however the commands overlap and whichever
\* calls fail.
THEOREM NamesStay == Spec => []NameStaysListed
  <1>1. RegistryInv => NameStaysListed
    BY DEF RegistryInv
  <1> QED BY <1>1, RegistryInvariant, PTL

-----------------------------------------------------------------------------
(* One command at a time *)

\* Numbered names are told apart by their numbers, and from other names.
LEMMA NumberedNames ==
    ASSUME NEW n, NEW k \in Nat
    PROVE  /\ \A l \in Nat : Numbered(<<n>>, k) = Numbered(<<n>>, l) => k = l
           /\ \A x : Numbered(<<n>>, k) = <<x>> => x = n
           /\ \A x : IsPrefix(<<x>>, Numbered(<<n>>, k)) <=> x = n
  <1>1. CASE k = 0
    BY <1>1 DEF Numbered, IsPrefix
  <1>2. CASE k # 0
    BY <1>2 DEF Numbered, IsPrefix
  <1> QED BY <1>1, <1>2

\* Appending a line raises the number of its namesakes by one, and no other.
LEMMA NamesakesAppend ==
    ASSUME RegistryInv, NEW p \in Proc, pc[p] = "append", AppendLine(p)
    PROVE  Namesakes(reg', <<DSpawn>>)
               = Namesakes(reg, <<DSpawn>>) + IF name[p] = DSpawn THEN 1 ELSE 0
  <1> DEFINE A == {i \in DOMAIN reg : IsPrefix(<<DSpawn>>, reg[i].name)}
             B == {i \in DOMAIN reg' : IsPrefix(<<DSpawn>>, reg'[i].name)}
             new == Len(reg) + 1
  <1>1. Len(reg) \in Nat /\ count[p] \in Nat
    BY DEF RegistryInv
  <1>2. IsPrefix(<<DSpawn>>, reg'[new].name) <=> name[p] = DSpawn
    <2>1. reg'[new].name = Numbered(<<name[p]>>, count[p])
      BY AppendedLine
    <2>2. IsPrefix(<<DSpawn>>, Numbered(<<name[p]>>, count[p])) <=> DSpawn = name[p]
      BY <1>1, NumberedNames
    <2> QED BY <2>1, <2>2
  <1>3. /\ DOMAIN reg = 1 .. Len(reg) /\ DOMAIN reg' = DOMAIN reg \cup {new}
        /\ new \notin DOMAIN reg
    <2>1. DOMAIN reg = 1 .. Len(reg) /\ DOMAIN reg' = 1 .. Len(reg) + 1
      BY AppendedLine
    <2>2. 1 .. Len(reg) + 1 = (1 .. Len(reg)) \cup {Len(reg) + 1}
      BY <1>1
    <2>3. Len(reg) + 1 \notin 1 .. Len(reg)
      BY <1>1
    <2> QED BY <2>1, <2>2, <2>3
  <1>4. B = A \cup (IF name[p] = DSpawn THEN {new} ELSE {}) /\ new \notin A
    BY <1>2, <1>3, AppendedLine
  <1>5. IsFiniteSet(A)
    <2>1. IsFiniteSet(1 .. Len(reg))
      BY <1>1, FS_Interval
    <2> QED BY <1>3, <2>1, FS_Subset
  <1> HIDE DEF A, B
  <1>6. CASE name[p] = DSpawn
    <2>1. B = A \cup {new}
      BY <1>4, <1>6
    <2>2. Cardinality(B) = Cardinality(A) + 1
      BY <1>4, <1>5, <2>1, FS_AddElement
    <2> QED BY <1>6, <2>2 DEF A, B, Namesakes
  <1>7. CASE name[p] # DSpawn
    <2>1. B = A /\ Cardinality(A) \in Nat
      BY <1>4, <1>5, <1>7, FS_CardinalityType
    <2>2. Cardinality(B) = Cardinality(A) + 0
      BY <2>1
    <2> QED BY <1>7, <2>2 DEF A, B, Namesakes
  <1> QED BY <1>6, <1>7

\* A step of whoever is under way, or of nobody, that leaves the register alone.
LEMMA SoloQuiet ==
    ASSUME RegistryInv, SoloInv, MishapsGrow, UNCHANGED <<name, reg, count>>,
           \A q \in Proc : Busy(q)' => Busy(q),
           \A q \in Proc : pc'[q] = "append" => pc[q] = "append"
    PROVE  SoloInv'
  <1>1. Solo'
    BY DEF SoloInv, Solo
  <1>2. LinesAreNumbered' /\ NamesDistinct'
    BY LinesOfProcs DEF SoloInv, LinesAreNumbered, NamesDistinct, Namesakes, MishapsGrow
  <1>3. FoundStillHolds'
    BY DEF SoloInv, FoundStillHolds, Namesakes, is_daemon_registered, MishapsGrow
  <1> QED BY <1>1, <1>2, <1>3 DEF SoloInv

\* Adding a line keeps SoloInv.
LEMMA SoloAppend ==
    ASSUME RegistryInv, SoloInv, NEW p \in Proc, daemon_register(p), AppendLine(p),
           UNCHANGED history
    PROVE  SoloInv'
  <1> DEFINE N == Namesakes(reg, <<DSpawn>>)
             M == Namesakes(reg', <<DSpawn>>)
             new == Len(reg) + 1
  <1>1. /\ pc' = [pc EXCEPT ![p] = "working"] /\ pc[p] = "append" /\ AppendLine(p)
        /\ UNCHANGED <<name, count, mishap>>
    BY DEF daemon_register, Goto, history
  <1>2. /\ DOMAIN reg = 1 .. Len(reg) /\ DOMAIN reg' = 1 .. new
        /\ \A i \in DOMAIN reg : i \in DOMAIN reg' /\ reg'[i] = reg[i]
        /\ reg'[new].name = Numbered(<<name[p]>>, count[p]) /\ reg'[new].pid = p
        /\ Len(reg) \in Nat /\ count[p] \in Nat /\ N \in Nat
    <2>1. Len(reg) \in Nat /\ count[p] \in Nat
      BY DEF RegistryInv
    <2>2. N \in Nat
      BY NamesakesType
    <2> HIDE DEF N
    <2> QED BY <1>1, <2>1, <2>2, AppendedLine
  <1>3. M = N + IF name[p] = DSpawn THEN 1 ELSE 0
    BY <1>1, NamesakesAppend
  <1>4. \/ name[p] = DSpawn /\ (count[p] = N \/ ("call" \in mishap[p] /\ count[p] = 0))
        \/ /\ name[p] \in Plant /\ count[p] = 0
           /\ "call" \in mishap[p] \/ ~is_daemon_registered(name[p])
    BY <1>1 DEF RegistryInv, NamesByPhase, SoloInv, FoundStillHolds
  <1>5. \A i \in DOMAIN reg' : i = new \/ i \in DOMAIN reg
    BY <1>2
  <1> HIDE DEF N, M
  <1>6. Solo'
    BY <1>1 DEF SoloInv, Solo, Busy, RegistryInv
  <1>7. FoundStillHolds'
    <2>1. \A q \in Proc : pc'[q] # "append"
      BY <1>1 DEF SoloInv, Solo, Busy, RegistryInv
    <2> QED BY <2>1 DEF FoundStillHolds
  <1>8. LinesAreNumbered'
    <2> SUFFICES ASSUME NEW i \in DOMAIN reg'
                 PROVE  \/ \E x \in Plant : reg'[i].name = <<x>>
                        \/ \E k \in 0 .. M - 1 : reg'[i].name = Numbered(<<DSpawn>>, k)
      BY DEF LinesAreNumbered, M
    <2>1. CASE i = new /\ name[p] = DSpawn
      BY <1>2, <1>3, <1>4, <2>1
    <2>2. CASE i = new /\ name[p] # DSpawn
      BY <1>2, <1>4, <2>2 DEF Numbered
    <2>3. CASE i \in DOMAIN reg
      <3>1. 0 .. N - 1 \subseteq 0 .. M - 1
        BY <1>2, <1>3
      <3> QED BY <1>2, <2>3, <3>1 DEF SoloInv, LinesAreNumbered, N
    <2> QED BY <1>5, <2>1, <2>2, <2>3
  <1>9. "call" \notin mishap[p] => \A i \in DOMAIN reg : reg[i].name # reg'[new].name
    <2> SUFFICES ASSUME "call" \notin mishap[p],
                        NEW i \in DOMAIN reg, reg[i].name = reg'[new].name
                 PROVE  FALSE
      OBVIOUS
    <2>1. \/ \E x \in Plant : reg[i].name = <<x>>
          \/ \E k \in 0 .. N - 1 : reg[i].name = Numbered(<<DSpawn>>, k)
      BY DEF SoloInv, LinesAreNumbered, N
    <2>2. CASE \E x \in Plant : reg[i].name = <<x>>
      <3>1. PICK x \in Plant : reg[i].name = <<x>>
        BY <2>2
      <3>2. x = name[p]
        BY <1>2, <3>1, NumberedNames
      <3> QED BY <1>4, <3>1, <3>2 DEF is_daemon_registered
    <2>3. CASE \E k \in 0 .. N - 1 : reg[i].name = Numbered(<<DSpawn>>, k)
      <3>1. PICK k \in 0 .. N - 1 : reg[i].name = Numbered(<<DSpawn>>, k)
        BY <2>3
      <3>2. k \in Nat /\ k # N
        BY <1>2, <3>1
      <3>3. name[p] = DSpawn
        BY <1>2, <1>4, <3>1, <3>2, NumberedNames DEF Numbered
      <3> QED BY <1>2, <1>4, <3>1, <3>2, <3>3, NumberedNames
    <2> QED BY <2>1, <2>2, <2>3
  <1>10. NamesDistinct'
    BY <1>1, <1>2, <1>5, <1>9 DEF SoloInv, NamesDistinct
  <1> QED BY <1>6, <1>7, <1>8, <1>10 DEF SoloInv

\* Every step keeps SoloInv, when commands do not overlap.
LEMMA SoloNext ==
    ASSUME ~Overlap, RegistryInv, SoloInv, [Next]_vars
    PROVE  SoloInv'
  <1>1. CASE UNCHANGED vars
    <2>1. MishapsGrow
      BY <1>1 DEF vars, history, MishapsGrow, RegistryInv
    <2> QED BY <1>1, <2>1, SoloQuiet DEF vars, Busy
  <1>2. ASSUME NEW p \in Proc, RunDplant(p) \/ RunDspawn(p) \/ RunDkill(p)
        PROVE  SoloInv'
    <2>1. UNCHANGED <<reg, count>> /\ Quiet /\ MishapsGrow
      BY <1>2, MishapStep DEF RunDplant, RunDspawn, RunDkill, Ready
    <2>2. PICK ph \in {"check", "revive", "count", "list", "exit"} : pc' = [pc EXCEPT ![p] = ph]
      BY <1>2 DEF RunDplant, RunDspawn, RunDkill, Goto
    <2>3. \A q \in Proc \ {p} : pc'[q] = pc[q] /\ ~Busy(q)
      BY <2>1, <2>2 DEF Quiet, Busy, RegistryInv
    <2>4. Solo'
      BY <2>3 DEF Solo, Busy
    <2>5. \A q \in Proc : pc'[q] # "append"
      BY <2>1, <2>2, <2>3 DEF Quiet, RegistryInv
    <2> QED BY <2>1, <2>4, <2>5, LinesOfProcs
      DEF SoloInv, LinesAreNumbered, FoundStillHolds, NamesDistinct, Namesakes, MishapsGrow
  <1>3. ASSUME NEW p \in Proc,
               \/ CheckRunning(p) \/ TakeLock(p) \/ CheckName(p) \/ spawn_plant(p)
               \/ RespawnIfDead(p) \/ RespawnIfKnown(p) \/ ListDaemons(p)
        PROVE  SoloInv'
    <2>1. UNCHANGED <<name, reg, count>> /\ Busy(p) /\ MishapsGrow
      BY <1>3, MishapStep DEF CheckRunning, TakeLock, CheckName, spawn_plant, RespawnIfDead,
                  RespawnIfKnown, ListDaemons, Busy
    <2>2. PICK ph \in Phase \ {"append"} : pc' = [pc EXCEPT ![p] = ph]
      BY <1>3 DEF CheckRunning, TakeLock, plant_lock, CheckName,
                  spawn_plant, RespawnIfDead, RespawnIfKnown, ListDaemons, Goto, Phase
    <2> QED BY <2>1, <2>2, SoloQuiet DEF Busy, RegistryInv
  <1>4. ASSUME NEW p \in Proc, FindName(p) \/ CountNamesakes(p)
        PROVE  SoloInv'
    <2>1. UNCHANGED <<name, reg>> /\ Busy(p) /\ MishapsGrow
      BY <1>4, MishapStep DEF FindName, CountNamesakes, Busy
    <2>2. \A q \in Proc \ {p} : pc'[q] = pc[q] /\ ~Busy(q)
      BY <1>4, <2>1 DEF FindName, CountNamesakes, Goto, RegistryInv, SoloInv, Solo
    <2>3. Solo'
      BY <2>2 DEF Solo, Busy
    <2>4. pc'[p] = "append"
            => \/ /\ name[p] = DSpawn
                  /\ \/ count'[p] = Namesakes(reg, <<DSpawn>>)
                     \/ "call" \in mishap'[p] /\ count'[p] = 0
               \/ /\ name[p] \in Plant
                  /\ "call" \in mishap'[p] \/ ~is_daemon_registered(name[p])
      <3>1. CASE FindName(p)
        <4>1. name[p] \in Plant
          BY <3>1 DEF FindName, RegistryInv, NamesByPhase
        <4>2. CASE CallFails(p)
          BY <4>1, <4>2 DEF CallFails, RegistryInv
        <4>3. CASE Goto(p, IF is_daemon_registered(name[p]) THEN "working" ELSE "append")
          BY <4>1, <4>3 DEF Goto, RegistryInv
        <4> QED BY <3>1, <4>2, <4>3 DEF FindName
      <3>2. CASE CountNamesakes(p)
        <4>1. name[p] = DSpawn /\ count[p] = 0
          BY <3>2 DEF CountNamesakes, RegistryInv, NamesByPhase
        <4>2. CASE UNCHANGED count /\ CallFails(p)
          BY <4>1, <4>2 DEF CallFails, RegistryInv
        <4>3. CASE count' = [count EXCEPT ![p] = Namesakes(reg, <<name[p]>>)]
          BY <4>1, <4>3 DEF RegistryInv
        <4> QED BY <3>2, <4>2, <4>3 DEF CountNamesakes
      <3> QED BY <1>4, <3>1, <3>2
    <2>5. FoundStillHolds'
      <3>1. \A q \in Proc \ {p} : pc'[q] # "append"
        BY <2>2 DEF Busy
      <3> QED BY <2>1, <2>4, <3>1 DEF FoundStillHolds, Namesakes, is_daemon_registered
    <2>6. NamesDistinct'
      BY <2>1, LinesOfProcs DEF SoloInv, NamesDistinct, MishapsGrow
    <2> QED BY <2>1, <2>3, <2>5, <2>6 DEF SoloInv, LinesAreNumbered, Namesakes
  <1>5. ASSUME NEW p \in Proc, dkill(p) \/ plant_died(p)
        PROVE  SoloInv'
    <2>1. Ends(p)
      BY <1>5, DeathsEnd
    <2>2. CASE reg' = reg
      BY <2>1, <2>2, SoloQuiet DEF Ends, Busy
    <2>3. CASE reg' = <<>> /\ pc[p] = "prompt"
      <3>1. Solo'
        BY <2>1 DEF Ends, SoloInv, Solo, Busy
      <3>2. \A q \in Proc : pc'[q] # "append"
        BY <2>1, <2>3 DEF Ends, SoloInv, Solo, Busy
      <3> QED BY <2>3, <3>1, <3>2
        DEF SoloInv, LinesAreNumbered, FoundStillHolds, NamesDistinct
    <2> QED BY <2>1, <2>2, <2>3 DEF Ends
  <1>6. ASSUME NEW p \in Proc, daemon_register(p)
        PROVE  SoloInv'
    <2>1. CASE AppendLine(p) /\ UNCHANGED history
      BY <1>6, <2>1, SoloAppend
    <2>2. CASE UNCHANGED reg
      <3>1. MishapsGrow /\ UNCHANGED <<name, count>> /\ Busy(p) /\ pc' = [pc EXCEPT ![p] = "working"]
        BY <1>6, MishapStep DEF daemon_register, Goto, Busy
      <3> QED BY <2>2, <3>1, SoloQuiet DEF Busy, RegistryInv
    <2> QED BY <1>6, <2>1, <2>2 DEF daemon_register
  <1> QED BY <1>1, <1>2, <1>3, <1>4, <1>5, <1>6 DEF Next

\* When commands are run one after the other, no two lines of the register have the
\* same name, but for those of daemons that could not read it: for any plants, any number
\* of daemons, kills, deaths, respawns and failing calls.
THEOREM NamesAreDistinct == ~Overlap => (Spec => []NamesDistinct)
  <1> SUFFICES ASSUME ~Overlap PROVE Spec => []NamesDistinct
    OBVIOUS
  <1>1. Init => SoloInv
    BY DEF Init, SoloInv, Solo, Busy, LinesAreNumbered, FoundStillHolds, NamesDistinct
  <1>2. RegistryInv /\ SoloInv /\ [Next]_vars => SoloInv'
    BY SoloNext
  <1>3. SoloInv => NamesDistinct
    BY DEF SoloInv
  <1> QED BY <1>1, <1>2, <1>3, RegistryInvariant, PTL DEF Spec

-----------------------------------------------------------------------------
(* dkill's list *)

Rank(i) == Cardinality({j \in Active : j <= i})

\* The lines whose process exists are numbered by their ranks.
LEMMA Ranks ==
    ASSUME RegistryInv
    PROVE  /\ Active \in SUBSET (1 .. Len(reg)) /\ Len(reg) \in Nat
           /\ \A j \in Active : j \in Nat /\ reg[j] \in RegLine
           /\ IsFiniteSet(Active) /\ Cardinality(Active) \in Nat
           /\ \A i \in Active : Rank(i) \in 1 .. Cardinality(Active)
           /\ \A a, b \in Active : Rank(a) = Rank(b) => a = b
           /\ \A k \in 1 .. Cardinality(Active) : \E i \in Active : Rank(i) = k
  <1> DEFINE UpTo(a) == {j \in Active : j <= a}
             N == Cardinality(Active)
             r == [i \in Active |-> Cardinality(UpTo(i))]
  <1>1. /\ Active \subseteq 1 .. Len(reg) /\ Len(reg) \in Nat
        /\ \A j \in Active : j \in Nat /\ reg[j] \in RegLine
    <2>1. reg \in Seq(RegLine)
      BY DEF RegistryInv, RegLine
    <2>2. Len(reg) \in Nat /\ DOMAIN reg = 1 .. Len(reg) /\ \A j \in DOMAIN reg : reg[j] \in RegLine
      BY <2>1
    <2>3. Active \subseteq DOMAIN reg
      BY DEF Active
    <2> QED BY <2>2, <2>3
  <1>2. IsFiniteSet(Active) /\ N \in Nat
    <2>1. IsFiniteSet(1 .. Len(reg)) /\ Active \in SUBSET (1 .. Len(reg))
      BY <1>1, FS_Interval
    <2> QED BY <2>1, FS_Subset, FS_CardinalityType
  <1>3. ASSUME NEW j \in Active
        PROVE  IsFiniteSet(UpTo(j)) /\ Cardinality(UpTo(j)) \in 1 .. N
    <2>1. UpTo(j) \in SUBSET Active /\ j \in UpTo(j)
      BY <1>1
    <2> HIDE DEF UpTo
    <2>2. IsFiniteSet(UpTo(j)) /\ Cardinality(UpTo(j)) \in Nat /\ Cardinality(UpTo(j)) <= N
      BY <1>2, <2>1, FS_Subset, FS_CardinalityType
    <2>3. Cardinality(UpTo(j)) # 0
      BY <2>1, <2>2, FS_EmptySet
    <2> HIDE DEF N
    <2> QED BY <1>2, <2>2, <2>3
  <1>4. ASSUME NEW a \in Active, NEW b \in Active, r[a] = r[b] PROVE a = b
    <2>0. Cardinality(UpTo(a)) = Cardinality(UpTo(b))
      BY <1>4
    <2>1. ASSUME NEW c \in Active, NEW d \in Active, c < d
          PROVE  Cardinality(UpTo(c)) # Cardinality(UpTo(d))
      <3>1. c \in Nat /\ d \in Nat /\ \A j \in Active : j \in Nat
        BY <1>1
      <3>2. (\A j \in Active : j <= c => j <= d) /\ d <= d /\ ~(d <= c)
        BY <2>1, <3>1
      <3>3. UpTo(c) \in SUBSET UpTo(d) /\ d \in UpTo(d) /\ d \notin UpTo(c)
        BY <3>2
      <3>4. Cardinality(UpTo(d)) = Cardinality(UpTo(c)) => UpTo(d) = UpTo(c)
        BY <1>3, <3>3, FS_Subset
      <3> QED BY <3>3, <3>4
    <2>2. a < b \/ b < a \/ a = b
      BY <1>1
    <2> HIDE DEF UpTo
    <2> QED BY <2>0, <2>1, <2>2
  <1>5. r \in Injection(Active, 1 .. N)
    <2>1. r \in [Active -> 1 .. N]
      BY <1>3
    <2> HIDE DEF r, N
    <2> QED BY <1>4, <2>1, Fun_IsInj
  <1>6. IsFiniteSet(1 .. N) /\ Cardinality(1 .. N) = N
    <2> HIDE DEF N
    <2> QED BY <1>2, FS_Interval
  <1>7. \A k \in 1 .. N : \E i \in Active : Cardinality(UpTo(i)) = k
    <2>1. r \in Surjection(Active, 1 .. N)
      BY <1>5, <1>6, FS_Injection
    <2> QED BY <2>1 DEF Surjection
  <1>8. \A i \in Active : Rank(i) = Cardinality(UpTo(i)) /\ r[i] = Rank(i)
    BY DEF Rank
  <1> HIDE DEF UpTo, r
  <1> QED BY <1>1, <1>2, <1>3, <1>4, <1>7, <1>8

\* dkill's array: lines of the register, the first ones, and no more than it has room for.
LEMMA OffersFit ==
    ASSUME RegistryInv
    PROVE  /\ ActiveDaemons \in Seq(RegLine) /\ Len(ActiveDaemons) <= MaxDaemons
           /\ Len(ActiveDaemons) = Cardinality(Leading(MaxDaemons))
  <1> DEFINE N == Cardinality(Active)
             L == Leading(MaxDaemons)
             C == Cardinality(L)
  <1>1. C \in Nat /\ C <= N /\ C <= MaxDaemons
    <2>1. L \in SUBSET Active /\ \A i \in L : Rank(i) <= MaxDaemons
      BY DEF Leading, Rank
    <2>2. C \in Nat /\ C <= N
      BY <2>1, Ranks, FS_Subset, FS_CardinalityType
    <2> DEFINE h == [i \in L |-> Rank(i)]
    <2>3. h \in [L -> 1 .. MaxDaemons] /\ \A i, j \in L : h[i] = h[j] => i = j
      <3>1. \A i \in L : Rank(i) \in 1 .. MaxDaemons
        <4>1. ASSUME NEW i \in L PROVE Rank(i) \in 1 .. MaxDaemons
          <5>1. Rank(i) \in 1 .. N /\ N \in Nat /\ Rank(i) <= MaxDaemons
            BY <2>1, Ranks
          <5> HIDE DEF N
          <5> QED BY <5>1
        <4> HIDE DEF L
        <4> QED BY <4>1
      <3>2. \A i, j \in L : Rank(i) = Rank(j) => i = j
        BY <2>1, Ranks
      <3> HIDE DEF L
      <3> QED BY <3>1, <3>2
    <2>4. IsFiniteSet(1 .. MaxDaemons) /\ Cardinality(1 .. MaxDaemons) = MaxDaemons
      BY FS_Interval
    <2> HIDE DEF h, L
    <2>5. h \in Injection(L, 1 .. MaxDaemons)
      BY <2>3, Fun_IsInj
    <2>6. C <= MaxDaemons
      BY <2>4, <2>5, FS_Injection
    <2> QED BY <2>2, <2>6
  <1>2. ActiveDaemons = [k \in 1 .. C |-> reg[CHOOSE i \in Active : Rank(i) = k]]
    BY DEF ActiveDaemons, Rank
  <1>3. \A k \in 1 .. C : reg[CHOOSE i \in Active : Rank(i) = k] \in RegLine
    <2> TAKE k \in 1 .. C
    <2>1. k \in 1 .. N /\ N \in Nat
      <3>1. N \in Nat
        BY Ranks
      <3> HIDE DEF C, N
      <3> QED BY <1>1, <3>1
    <2>2. (CHOOSE i \in Active : Rank(i) = k) \in Active
      BY <2>1, Ranks
    <2> QED BY <2>2, Ranks
  <1>4. ActiveDaemons \in [1 .. C -> RegLine]
    <2> HIDE DEF C
    <2> QED BY <1>2, <1>3
  <1>5. C = Cardinality(Leading(MaxDaemons))
    OBVIOUS
  <1> HIDE DEF C
  <1> QED BY <1>1, <1>4, <1>5

\* A list that is not full holds every line whose process exists.
LEMMA AllOffered ==
    ASSUME RegistryInv, Len(ActiveDaemons) # MaxDaemons, NEW i \in Active
    PROVE  reg[i].pid \in Pids(ActiveDaemons)
  <1> DEFINE N == Cardinality(Active)
             L == Leading(MaxDaemons)
  <1>1. N \in Nat /\ Rank(i) \in 1 .. N
    BY Ranks
  <1>2. N <= MaxDaemons
    <2> SUFFICES ASSUME N > MaxDaemons PROVE FALSE
      BY <1>1
    <2> DEFINE g == [k \in 1 .. MaxDaemons |-> CHOOSE j \in Active : Rank(j) = k]
    <2>1. \A k \in 1 .. MaxDaemons : g[k] \in Active /\ Rank(g[k]) = k
      <3> TAKE k \in 1 .. MaxDaemons
      <3>1. k \in 1 .. N
        <4> HIDE DEF N
        <4> QED BY <1>1
      <3>2. \E j \in Active : Rank(j) = k
        BY <3>1, Ranks
      <3> QED BY <3>2
    <2>2. g \in [1 .. MaxDaemons -> L]
      <3>1. \A j \in Active : Rank(j) <= MaxDaemons => j \in L
        BY DEF Leading, Rank
      <3>2. \A k \in 1 .. MaxDaemons : k <= MaxDaemons
        OBVIOUS
      <3> HIDE DEF L
      <3>3. \A k \in 1 .. MaxDaemons : g[k] \in L
        <4> HIDE DEF g
        <4> QED BY <2>1, <3>1, <3>2
      <3> QED BY <3>3
    <2>3. \A k, l \in 1 .. MaxDaemons : g[k] = g[l] => k = l
      <3> HIDE DEF g
      <3> QED BY <2>1
    <2> HIDE DEF g
    <2>4. g \in Injection(1 .. MaxDaemons, L)
      <3> HIDE DEF L
      <3> QED BY <2>2, <2>3, Fun_IsInj
    <2>5. IsFiniteSet(L) /\ Cardinality(L) \in Nat
      <3>1. L \in SUBSET Active
        BY DEF Leading
      <3> QED BY <3>1, Ranks, FS_Subset, FS_CardinalityType
    <2>6. MaxDaemons <= Cardinality(L)
      <3>1. Cardinality(1 .. MaxDaemons) = MaxDaemons
        BY FS_Interval
      <3> HIDE DEF L
      <3> QED BY <2>4, <2>5, <3>1, FS_Injection
    <2>7. Cardinality(L) <= MaxDaemons /\ Cardinality(L) # MaxDaemons
      BY OffersFit
    <2> HIDE DEF L
    <2> QED BY <2>5, <2>6, <2>7
  <1>3. L = Active
    <2>1. \A j \in Active : Rank(j) <= MaxDaemons
      <3> TAKE j \in Active
      <3>1. Rank(j) \in 1 .. N
        BY Ranks
      <3> HIDE DEF N
      <3> QED BY <1>1, <1>2, <3>1
    <2> QED BY <2>1 DEF Leading, Rank
  <1> DEFINE k == Rank(i)
  <1>4. i = CHOOSE j \in Active : Rank(j) = k
    BY Ranks
  <1>5. k \in DOMAIN ActiveDaemons /\ ActiveDaemons[k] = reg[i]
    BY <1>1, <1>3, <1>4 DEF ActiveDaemons, Rank
  <1> QED BY <1>5 DEF Pids

-----------------------------------------------------------------------------
(* One command at a time *)

\* A process that takes a step, without working yet, and finds what StartsAlone and
\* OffersAll ask of it.
LEMMA SequentialStep ==
    ASSUME RegistryInv, SequentialInv, MishapsGrow, NEW p \in Proc,
           NEW ph \in Phase \ {"working"},
           pc' = [pc EXCEPT ![p] = ph], pc[p] \notin {"working", "exit"}, UNCHANGED reg,
           DOMAIN listed' = Proc,
           \A q \in Proc \ {p} : name'[q] = name[q] /\ listed'[q] = listed[q],
           Unharmed(p)' /\ ph \in {"lock", "locked", "spawned", "detached", "append"}
                        /\ name'[p] \in Plant
               => \A q \in Proc : ~(pc[q] = "working" /\ Unharmed(q) /\ name[q] = name'[p]),
           Unharmed(p)' /\ ph \in {"spawned", "detached", "append"} /\ name'[p] \in Plant
               => \A i \in DOMAIN reg : reg[i].name # <<name'[p]>>,
           ph = "respawned" => ~Unharmed(p)',
           ph = "prompt" /\ Len(listed'[p]) # MaxDaemons
               => \A q \in Proc : pc[q] = "working" /\ Unharmed(q) => q \in Pids(listed'[p])
    PROVE  SequentialInv'
  <1>1. pc'[p] = ph /\ \A q \in Proc \ {p} : pc'[q] = pc[q]
    BY DEF RegistryInv
  <1>2. \A q \in Proc : pc'[q] = "working" <=> pc[q] = "working"
    BY <1>1
  <1>3. \A q \in Proc : Unharmed(q)' => Unharmed(q)
    BY DEF Unharmed, MishapsGrow
  <1>4. \A x \in Plant : Daemons(x)' = Daemons(x)
    BY <1>1, <1>2 DEF Daemons
  <1>5. OneLineEach'
    BY <1>1, LinesOfProcs DEF SequentialInv, OneLineEach
  <1>6. ListedByName'
    BY <1>1, <1>2, <1>3 DEF SequentialInv, ListedByName
  <1>7. StartsAlone'
    <2>1. ASSUME NEW q \in Proc, name'[q] \in Plant, Unharmed(q)', NEW r \in Proc,
                 pc'[q] \in {"lock", "locked", "spawned", "detached", "append"}
          PROVE  ~(pc'[r] = "working" /\ name'[r] = name'[q] /\ Unharmed(r)')
      <3>1. pc'[r] = "working" => r # p /\ pc[r] = "working" /\ name'[r] = name[r]
        BY <1>1, <1>2
      <3>2. CASE q = p
        BY <1>1, <1>3, <2>1, <3>1, <3>2
      <3>3. CASE q # p
        BY <1>1, <1>3, <2>1, <3>1, <3>3 DEF SequentialInv, StartsAlone, Daemons
      <3> QED BY <3>2, <3>3
    <2>2. ASSUME NEW q \in Proc, name'[q] \in Plant, Unharmed(q)',
                 pc'[q] \in {"spawned", "detached", "append"}, NEW i \in DOMAIN reg
          PROVE  reg[i].name # <<name'[q]>>
      <3>1. CASE q = p
        BY <1>1, <2>2, <3>1
      <3>2. CASE q # p
        BY <1>1, <1>3, <2>2, <3>2 DEF SequentialInv, StartsAlone, is_daemon_registered
      <3> QED BY <3>1, <3>2
    <2> QED BY <2>1, <2>2 DEF StartsAlone, Daemons, is_daemon_registered
  <1>8. OffersAll'
    BY <1>1, <1>2, <1>3 DEF SequentialInv, OffersAll, Pids
  <1>9. RespawnsHarmed'
    BY <1>1, <1>3 DEF SequentialInv, RespawnsHarmed
  <1>10. ASSUME NEW x \in Plant, NEW q \in Daemons(x)', NEW r \in Daemons(x)',
                Unharmed(q)', Unharmed(r)'
         PROVE  q = r
    BY <1>3, <1>4, <1>10 DEF SequentialInv, Daemons
  <1> QED BY <1>5, <1>6, <1>7, <1>8, <1>9, <1>10 DEF SequentialInv

\* A respawned daemon goes to work without a line of its own.
LEMMA SequentialIdle ==
    ASSUME RegistryInv, SequentialInv, MishapsGrow, NEW p \in Proc,
           pc' = [pc EXCEPT ![p] = "working"], pc[p] = "detached", ~Unharmed(p)',
           UNCHANGED <<name, reg, listed>>
    PROVE  SequentialInv'
  <1>1. pc'[p] = "working" /\ \A q \in Proc \ {p} : pc'[q] = pc[q]
    BY DEF RegistryInv
  <1>2. \A q \in Proc : Unharmed(q)' => Unharmed(q) /\ pc'[q] = pc[q]
    BY <1>1 DEF Unharmed, MishapsGrow
  <1>3. \A x \in Plant : \A q \in Daemons(x)' : Unharmed(q)' => q \in Daemons(x) /\ Unharmed(q)
    BY <1>2 DEF Daemons
  <1>4. OneLineEach'
    BY <1>1, LinesOfProcs DEF SequentialInv, OneLineEach
  <1>5. ListedByName'
    BY <1>2 DEF SequentialInv, ListedByName
  <1>6. StartsAlone'
    BY <1>2, <1>3 DEF SequentialInv, StartsAlone, is_daemon_registered
  <1>7. OffersAll'
    BY <1>1, <1>2 DEF SequentialInv, OffersAll, Pids
  <1>8. RespawnsHarmed'
    BY <1>1, <1>2 DEF SequentialInv, RespawnsHarmed
  <1> QED BY <1>3, <1>4, <1>5, <1>6, <1>7, <1>8 DEF SequentialInv

\* A daemon goes to work, with a line of its own.
LEMMA SequentialRegister ==
    ASSUME RegistryInv, Solo, SequentialInv, NEW p \in Proc, daemon_register(p)
    PROVE  SequentialInv'
  <1>1. /\ pc' = [pc EXCEPT ![p] = "working"] /\ pc[p] = "append"
        /\ UNCHANGED <<name, count, listed>>
        /\ AppendLine(p) \/ (UNCHANGED reg /\ CallFails(p))
    BY DEF daemon_register, Goto
  <1>2. MishapsGrow /\ \A q \in Proc : Unharmed(q)' => Unharmed(q)
    BY MishapStep DEF MishapsGrow, Unharmed
  <1>3. pc'[p] = "working" /\ \A q \in Proc \ {p} : pc'[q] = pc[q] /\ ~Busy(q)
    BY <1>1 DEF RegistryInv, Solo, Busy
  <1>4. /\ name[p] \in Plant => count[p] = 0
        /\ name[p] \in Plant /\ Unharmed(p) => \A q \in Daemons(name[p]) : ~Unharmed(q)
    BY <1>1 DEF RegistryInv, NamesByPhase, SequentialInv, StartsAlone
  <1>5. OneLineEach' /\ ListedByName'
    <2>1. CASE AppendLine(p)
      <3>1. /\ Len(reg) + 1 \in DOMAIN reg'
            /\ \A i \in DOMAIN reg : i \in DOMAIN reg' /\ reg'[i] = reg[i]
            /\ \A i \in DOMAIN reg' : i = Len(reg) + 1 \/ i \in DOMAIN reg
            /\ reg'[Len(reg) + 1].name = Numbered(<<name[p]>>, count[p])
            /\ reg'[Len(reg) + 1].pid = p
        <4>1. Len(reg) \in Nat
          BY DEF RegistryInv
        <4> QED BY <1>1, <2>1, <4>1, AppendedLine
      <3>2. OneLineEach'
        <4>1. \A i \in DOMAIN reg : reg[i].pid # p
          BY <1>1 DEF SequentialInv, OneLineEach
        <4>2. \A i \in DOMAIN reg : reg[i].pid \in Proc
          BY LinesOfProcs
        <4> QED BY <1>3, <3>1, <4>1, <4>2 DEF SequentialInv, OneLineEach
      <3>3. ListedByName'
        <4> SUFFICES ASSUME NEW q \in Proc, pc'[q] = "working", Unharmed(q)
                     PROVE  \E i \in DOMAIN reg' :
                                /\ reg'[i].pid = q
                                /\ name[q] \in Plant => reg'[i].name = <<name[q]>>
          BY <1>1, <1>2 DEF ListedByName
        <4>1. CASE q = p
          BY <1>4, <3>1, <4>1 DEF Numbered
        <4>2. CASE q # p
          <5>1. pc[q] = "working"
            BY <1>3, <4>2
          <5>2. PICK i \in DOMAIN reg : /\ reg[i].pid = q
                                        /\ name[q] \in Plant => reg[i].name = <<name[q]>>
            BY <5>1 DEF SequentialInv, ListedByName
          <5> QED BY <3>1, <5>2
        <4> QED BY <4>1, <4>2
      <3> QED BY <3>2, <3>3
    <2>2. CASE UNCHANGED reg /\ CallFails(p)
      <3>1. ~Unharmed(p)'
        BY <2>2 DEF CallFails, Unharmed, RegistryInv
      <3>2. OneLineEach'
        BY <1>3, <2>2, LinesOfProcs DEF SequentialInv, OneLineEach
      <3>3. ListedByName'
        BY <1>1, <1>2, <1>3, <2>2, <3>1 DEF SequentialInv, ListedByName
      <3> QED BY <3>2, <3>3
    <2> QED BY <1>1, <2>1, <2>2
  <1>6. StartsAlone' /\ OffersAll' /\ RespawnsHarmed'
    BY <1>3 DEF StartsAlone, OffersAll, RespawnsHarmed, Busy
  <1>7. ASSUME NEW x \in Plant, NEW q \in Daemons(x)', NEW r \in Daemons(x)',
               Unharmed(q)', Unharmed(r)'
        PROVE  q = r
    <2>1. \A s \in Daemons(x)' : s = p \/ s \in Daemons(x)
      BY <1>1, <1>3 DEF Daemons
    <2>2. p \in Daemons(x)' /\ Unharmed(p)' => \A s \in Daemons(x) : ~Unharmed(s)
      BY <1>1, <1>2, <1>4 DEF Daemons
    <2>3. q \in Proc /\ r \in Proc
      BY DEF Daemons
    <2> QED BY <1>2, <1>7, <2>1, <2>2, <2>3 DEF SequentialInv
  <1> QED BY <1>1, <1>5, <1>6, <1>7 DEF SequentialInv

\* Deaths, and a register emptied.
LEMMA SequentialDeath ==
    ASSUME RegistryInv, SequentialInv, NEW p \in Proc, dkill(p) \/ plant_died(p)
    PROVE  SequentialInv'
  <1>1. Ends(p)
    BY DeathsEnd
  <1>2. \A q \in Proc : pc'[q] # "exit" => pc'[q] = pc[q]
    BY <1>1 DEF Ends
  <1>3. \A q \in Proc : Unharmed(q)' => Unharmed(q)
    BY <1>1 DEF Ends, Unharmed, MishapsGrow
  <1>4. UNCHANGED <<name, listed>>
    BY <1>1 DEF Ends
  <1>5. \A x \in Plant : Daemons(x)' \subseteq Daemons(x)
    BY <1>2, <1>4 DEF Daemons
  <1>6. \/ reg' = reg
        \/ reg' = <<>> /\ \A q \in Proc : pc'[q] = "working" => ~Unharmed(q)'
    <2>1. CASE reg' = <<>> /\ pc[p] = "prompt" /\ Excused(p)
      <3>1. ASSUME NEW q \in Proc, pc'[q] = "working", Unharmed(q)'
            PROVE  FALSE
        <4>1. pc[q] = "working" /\ Unharmed(q)
          BY <1>2, <1>3, <3>1
        <4>2. mishap'[q] \cap {"call", "full"} = {}
          BY <3>1 DEF Unharmed
        <4>3. q \notin Pids(listed[p]) /\ Len(listed[p]) # MaxDaemons
          BY <2>1, <3>1, <4>2 DEF Excused
        <4> QED BY <2>1, <4>1, <4>3 DEF SequentialInv, OffersAll
      <3> QED BY <2>1, <3>1
    <2> QED BY <1>1, <2>1 DEF Ends
  <1>7. OneLineEach' /\ ListedByName'
    <2>1. CASE reg' = reg
      <3>1. \A i \in DOMAIN reg : reg[i].pid \in Proc
        BY LinesOfProcs
      <3> QED BY <1>2, <1>3, <1>4, <2>1, <3>1 DEF SequentialInv, OneLineEach, ListedByName
    <2>2. CASE reg' = <<>> /\ \A q \in Proc : pc'[q] = "working" => ~Unharmed(q)'
      BY <2>2 DEF OneLineEach, ListedByName
    <2> QED BY <1>6, <2>1, <2>2
  <1>8. StartsAlone'
    <2>1. \A x : is_daemon_registered(x)' => is_daemon_registered(x)
      BY <1>6 DEF is_daemon_registered
    <2>2. \A x \in Plant : \A q \in Daemons(x)' : q \in Proc /\ q \in Daemons(x)
      BY <1>5 DEF Daemons
    <2> QED BY <1>2, <1>3, <1>4, <2>1, <2>2 DEF SequentialInv, StartsAlone
  <1>9. OffersAll' /\ RespawnsHarmed'
    BY <1>2, <1>3, <1>4 DEF SequentialInv, OffersAll, Pids, RespawnsHarmed
  <1>10. \A x \in Plant : \A q, r \in Daemons(x)' : Unharmed(q)' /\ Unharmed(r)' => q = r
    BY <1>3, <1>5 DEF SequentialInv, Daemons
  <1> QED BY <1>4, <1>7, <1>8, <1>9, <1>10 DEF SequentialInv

\* Every step keeps SequentialInv, one command at a time.
LEMMA SequentialNext ==
    ASSUME ~Overlap, RegistryInv, SoloInv, SequentialInv, [Next]_vars
    PROVE  SequentialInv'
  <1>1. CASE UNCHANGED vars
    BY <1>1 DEF vars, history, SequentialInv, OneLineEach, ListedByName, StartsAlone,
                OffersAll, RespawnsHarmed, Daemons, is_daemon_registered, Pids, Unharmed
  <1>2. ASSUME NEW p \in Proc, RunDplant(p) \/ RunDspawn(p) \/ RunDkill(p)
        PROVE  SequentialInv'
    <2>1. UNCHANGED <<reg, listed>> /\ pc[p] = "unborn" /\ MishapsGrow
      BY <1>2, MishapStep DEF RunDplant, RunDspawn, RunDkill, Ready
    <2>2. PICK ph \in {"check", "revive", "count", "list", "exit"} : pc' = [pc EXCEPT ![p] = ph]
      BY <1>2 DEF RunDplant, RunDspawn, RunDkill, Goto
    <2>3. \A q \in Proc \ {p} : name'[q] = name[q]
      BY <1>2 DEF RunDplant, RunDspawn, RunDkill, RegistryInv
    <2>4. ph \in Phase \ {"working"}
      BY DEF Phase
    <2>5. DOMAIN listed' = Proc
      BY <2>1 DEF SequentialInv
    <2> QED BY <2>1, <2>2, <2>3, <2>4, <2>5, SequentialStep
  <1>3. ASSUME NEW p \in Proc, CheckRunning(p)
        PROVE  SequentialInv'
    <2>1. PICK ph \in {"exit", "lock"} :
            /\ pc' = [pc EXCEPT ![p] = ph]
            /\ ph = "lock" => ~Running(name[p]) \/ CallFails(p)
      BY <1>3 DEF CheckRunning, Goto
    <2>2. /\ pc[p] = "check" /\ UNCHANGED <<name, reg, listed>>
          /\ DOMAIN listed' = Proc /\ MishapsGrow
      BY <1>3, MishapStep DEF CheckRunning, SequentialInv
    <2>3. ph \in Phase \ {"working"}
      BY DEF Phase
    <2>4. CallFails(p) => ~Unharmed(p)'
      BY Harms DEF CallFails, Mishap
    <2>5. ~Running(name[p]) /\ name[p] \in Plant
            => \A q \in Proc : ~(pc[q] = "working" /\ Unharmed(q) /\ name[q] = name[p])
      BY DEF Running, Alive, SequentialInv, ListedByName
    <2> QED BY <2>1, <2>2, <2>3, <2>4, <2>5, SequentialStep
  <1>4. ASSUME NEW p \in Proc, TakeLock(p) \/ CheckName(p) \/ spawn_plant(p) \/ FindName(p)
        PROVE  SequentialInv'
    <2>1. /\ UNCHANGED <<name, reg, listed>> /\ DOMAIN listed' = Proc /\ MishapsGrow
          /\ pc[p] \in {"lock", "locked", "spawned", "respawned", "detached"}
      BY <1>4, MishapStep DEF TakeLock, CheckName, spawn_plant, FindName, SequentialInv
    <2>2. name[p] \in Plant /\ (Unharmed(p)' => Unharmed(p))
      BY <2>1 DEF RegistryInv, NamesByPhase, MishapsGrow, Unharmed
    <2>3. CallFails(p) => ~Unharmed(p)'
      BY Harms DEF CallFails, Mishap
    <2>4. Unharmed(p)' =>
            /\ \A q \in Proc : ~(pc[q] = "working" /\ Unharmed(q) /\ name[q] = name[p])
            /\ pc[p] \in {"spawned", "respawned", "detached"} => ~is_daemon_registered(name[p])
      BY <2>1, <2>2 DEF SequentialInv, StartsAlone, RespawnsHarmed, Daemons
    <2>5. PICK ph \in {"exit", "locked", "spawned", "detached", "working", "append"} :
            /\ pc' = [pc EXCEPT ![p] = ph]
            /\ Unharmed(p)' /\ ph \in {"spawned", "detached", "append"}
                 => ~is_daemon_registered(name[p])
            /\ ph = "working" => is_daemon_registered(name[p]) /\ pc[p] = "detached"
      <3>1. CASE TakeLock(p)
        BY <3>1 DEF TakeLock, plant_lock, Goto
      <3>2. CASE CheckName(p)
        BY <2>3, <3>2 DEF CheckName, Goto
      <3>3. CASE spawn_plant(p)
        BY <2>4, <3>3 DEF spawn_plant, Goto
      <3>4. CASE FindName(p)
        BY <2>4, <3>4 DEF FindName, Goto
      <3> QED BY <1>4, <3>1, <3>2, <3>3, <3>4
    <2>6. CASE ph # "working"
      <3>1. ph \in Phase \ {"working"} /\ ph # "respawned" /\ ph # "prompt"
        BY <2>6 DEF Phase
      <3> QED BY <2>1, <2>4, <2>5, <3>1, SequentialStep DEF is_daemon_registered
    <2>7. CASE ph = "working"
      <3>1. ~Unharmed(p)'
        BY <2>4, <2>5, <2>7
      <3> QED BY <2>1, <2>5, <2>7, <3>1, SequentialIdle
    <2> QED BY <2>6, <2>7
  <1>5. ASSUME NEW p \in Proc, CountNamesakes(p)
        PROVE  SequentialInv'
    <2>1. /\ pc' = [pc EXCEPT ![p] = "append"] /\ pc[p] = "count"
          /\ UNCHANGED <<name, reg, listed>> /\ MishapsGrow
      BY <1>5, MishapStep DEF CountNamesakes, Goto
    <2>2. name[p] \notin Plant /\ DOMAIN listed' = Proc
      BY <2>1 DEF RegistryInv, NamesByPhase, SequentialInv
    <2>3. "append" \in Phase \ {"working"}
      BY DEF Phase
    <2> QED BY <2>1, <2>2, <2>3, SequentialStep
  <1>6. ASSUME NEW p \in Proc, ListDaemons(p)
        PROVE  SequentialInv'
    <2>1. pc[p] = "list" /\ UNCHANGED <<name, reg>> /\ MishapsGrow
      BY <1>6, MishapStep DEF ListDaemons
    <2>2. PICK ph \in {"exit", "prompt"} :
            /\ pc' = [pc EXCEPT ![p] = ph]
            /\ \/ listed' = [listed EXCEPT ![p] = ActiveDaemons]
               \/ ph = "exit" /\ UNCHANGED listed
      BY <1>6 DEF ListDaemons, Goto
    <2>3. /\ DOMAIN listed' = Proc /\ (ph = "prompt" => listed'[p] = ActiveDaemons)
          /\ \A q \in Proc \ {p} : listed'[q] = listed[q]
      BY <2>2 DEF SequentialInv
    <2>4. ASSUME NEW q \in Proc, pc[q] = "working", Unharmed(q),
                 Len(ActiveDaemons) # MaxDaemons
          PROVE  q \in Pids(ActiveDaemons)
      <3>1. PICK i \in DOMAIN reg : reg[i].pid = q
        BY <2>4 DEF SequentialInv, ListedByName
      <3>2. i \in Active
        BY <2>4, <3>1 DEF Active, Alive
      <3> QED BY <2>4, <3>1, <3>2, AllOffered
    <2>5. ph \in Phase \ {"working"}
      BY DEF Phase
    <2>6. ph = "prompt" /\ Len(listed'[p]) # MaxDaemons
            => \A q \in Proc : pc[q] = "working" /\ Unharmed(q) => q \in Pids(listed'[p])
      BY <2>3, <2>4
    <2> QED BY <2>1, <2>2, <2>3, <2>5, <2>6, SequentialStep
  <1>7. ASSUME NEW p \in Proc, RespawnIfDead(p) \/ RespawnIfKnown(p)
        PROVE  SequentialInv'
    <2>1. /\ UNCHANGED <<name, reg, listed>> /\ DOMAIN listed' = Proc /\ MishapsGrow
          /\ pc[p] \in {"revive", "reread"}
      BY <1>7, MishapStep DEF RespawnIfDead, RespawnIfKnown, SequentialInv
    <2>2. PICK ph \in {"exit", "reread", "respawned"} :
            /\ pc' = [pc EXCEPT ![p] = ph]
            /\ ph = "respawned" => mishap' = [mishap EXCEPT ![p] = @ \cup {"respawned"}]
      BY <1>7 DEF RespawnIfDead, RespawnIfKnown, Goto
    <2>3. ph = "respawned" => ~Unharmed(p)'
      BY <2>2, Harms DEF Mishap
    <2>4. ph \in Phase \ {"working"}
      BY DEF Phase
    <2> QED BY <2>1, <2>2, <2>3, <2>4, SequentialStep
  <1>8. ASSUME NEW p \in Proc, daemon_register(p)
        PROVE  SequentialInv'
    BY <1>8, SequentialRegister DEF SoloInv
  <1>9. ASSUME NEW p \in Proc, dkill(p) \/ plant_died(p)
        PROVE  SequentialInv'
    BY <1>9, SequentialDeath
  <1> QED BY <1>1, <1>2, <1>3, <1>4, <1>5, <1>6, <1>7, <1>8, <1>9 DEF Next

\* One after the other, SequentialInv holds.
LEMMA SequentialInvariant ==
    ASSUME ~Overlap
    PROVE  Spec => []SequentialInv
  <1>1. Init => SoloInv
    BY DEF Init, SoloInv, Solo, Busy, LinesAreNumbered, FoundStillHolds, NamesDistinct
  <1>2. Init => SequentialInv
    BY DEF Init, SequentialInv, OneLineEach, ListedByName, StartsAlone, OffersAll,
           RespawnsHarmed, Daemons
  <1>3. RegistryInv /\ SoloInv /\ [Next]_vars => SoloInv'
    BY SoloNext
  <1>4. RegistryInv /\ SoloInv /\ SequentialInv /\ [Next]_vars => SequentialInv'
    BY SequentialNext
  <1> QED BY <1>1, <1>2, <1>3, <1>4, RegistryInvariant, PTL DEF Spec

\* Commands run one after the other: every daemon at work has its line, however many were
\* killed, died of their own, or had the register emptied over them, unless a call failed
\* for it, it was respawned, or dkill's list was full.  dkill, which alone empties the
\* register, has otherwise listed and ended all of them.
THEOREM DaemonsListed == ~Overlap => (Spec => []EveryDaemonListed)
  <1> SUFFICES ASSUME ~Overlap PROVE Spec => []EveryDaemonListed
    OBVIOUS
  <1>1. SequentialInv => EveryDaemonListed
    BY DEF SequentialInv, ListedByName, EveryDaemonListed, Pids
  <1> QED BY <1>1, SequentialInvariant, PTL

\* ... and, those daemons left aside, no plant has two: what is_plant_running reads is then
\* the whole truth, and stays so until the new daemon has its line.
THEOREM OneDaemonEach == ~Overlap => (Spec => []OneDaemonPerPlant)
  <1> SUFFICES ASSUME ~Overlap PROVE Spec => []OneDaemonPerPlant
    OBVIOUS
  <1>1. SequentialInv => OneDaemonPerPlant
    <2> SUFFICES ASSUME SequentialInv, NEW x \in Plant
                 PROVE  Cardinality({p \in Daemons(x) : Unharmed(p)}) <= 1
      BY DEF OneDaemonPerPlant
    <2> DEFINE S == {p \in Daemons(x) : Unharmed(p)}
    <2>1. CASE S = {}
      BY <2>1, FS_EmptySet
    <2>2. CASE S # {}
      <3>1. PICK p \in S : TRUE
        BY <2>2
      <3>2. S = {p}
        BY <3>1 DEF SequentialInv
      <3>3. Cardinality(S) = 1
        <4> HIDE DEF S
        <4> QED BY <3>2, FS_Singleton
      <3> QED BY <3>3
    <2> QED BY <2>1, <2>2
  <1> QED BY <1>1, SequentialInvariant, PTL

-----------------------------------------------------------------------------
(* The graveyard *)

\* A set of numbers has a least one.
LEMMA LeastExists ==
    ASSUME NEW T \in SUBSET Nat, T # {}
    PROVE  \E m \in T : \A n \in T : m <= n
  <1>1. \E m \in T : \A n \in T : ~(<<n, m>> \in OpToRel(<, Nat))
    BY NatLessThanWellFounded, WFMin
  <1>2. PICK m \in T : \A n \in T : ~(<<n, m>> \in OpToRel(<, Nat))
    BY <1>1
  <1>3. ASSUME NEW n \in T PROVE m <= n
    <2>1. ~(n < m)
      BY <1>2 DEF OpToRel
    <2> QED BY <2>1
  <1> QED BY <1>2, <1>3

\* The greatest of the numbers up to n, when n is among them.
LEMMA LastIsMax ==
    ASSUME NEW n \in Nat, NEW S \in SUBSET (1 .. n), n \in S
    PROVE  Max(S) = n
  <1>1. \A y \in S : y \in Nat /\ n >= y
    OBVIOUS
  <1>2. \A x \in S : (\A y \in S : x >= y) => x = n
    BY <1>1
  <1> QED BY <1>1, <1>2 DEF Max

\* The positions of the lines, one by one.
Positions(lines) == [i \in DOMAIN lines |-> i]

\* What Kill does with one line.
BuryLine(lines, those, pidOf, call, g, i) ==
    IF i \in those /\ Alive(lines[i].pid)
    THEN Bury(g, [lines[i] EXCEPT !.pid = pidOf[@]], call[i]) ELSE g

\* f is the graveyard after burying each set of the first n lines.
Buries(f, n, g, lines, those, pidOf, call) ==
    f = [S \in SUBSET (1 .. n) |-> IF S = {} THEN g
            ELSE BuryLine(lines, those, pidOf, call, f[S \ {Max(S)}], Positions(lines)[Max(S)])]

\* The recursion of the fold is well founded.
LEMMA BuriesExists ==
    ASSUME NEW g, NEW lines, NEW those, NEW pidOf, NEW call, NEW n \in Nat
    PROVE  \E f : Buries(f, n, g, lines, those, pidOf, call)
  <1> DEFINE D(f, m) == Buries(f, m, g, lines, those, pidOf, call)
             Bad == {m \in Nat : ~ \E f : D(f, m)}
  <1>1. \E f : D(f, 0)
    <2> DEFINE f == [S \in SUBSET (1 .. 0) |-> g]
    <2>1. \A S \in SUBSET (1 .. 0) : S = {}
      OBVIOUS
    <2>2. D(f, 0)
      BY <2>1 DEF Buries
    <2> HIDE DEF D, f
    <2> QED BY <2>2
  <1>2. ASSUME NEW m \in Nat \ {0}, \E f : D(f, m - 1)
        PROVE  \E f : D(f, m)
    <2>1. PICK f : D(f, m - 1)
      BY <1>2
    <2> DEFINE h == [S \in SUBSET (1 .. m) |->
                        IF m \in S THEN BuryLine(lines, those, pidOf, call, f[S \ {m}], Positions(lines)[m]) ELSE f[S]]
    <2>2. \A S \in SUBSET (1 .. m) : m \notin S => S \in SUBSET (1 .. m - 1)
      OBVIOUS
    <2>3. ASSUME NEW S \in SUBSET (1 .. m), m \in S
          PROVE  h[S] = BuryLine(lines, those, pidOf, call, h[S \ {Max(S)}], Positions(lines)[Max(S)])
      <3>1. Max(S) = m
        BY <2>3, LastIsMax
      <3>2. S \ {m} \in SUBSET (1 .. m) /\ m \notin S \ {m}
        OBVIOUS
      <3>3. h[S \ {m}] = f[S \ {m}]
        BY <3>2
      <3>4. h[S] = BuryLine(lines, those, pidOf, call, f[S \ {m}], Positions(lines)[m])
        BY <2>3
      <3> HIDE DEF h
      <3> QED BY <3>1, <3>3, <3>4
    <2>4. ASSUME NEW S \in SUBSET (1 .. m), m \notin S
          PROVE  h[S] = IF S = {} THEN g
                        ELSE BuryLine(lines, those, pidOf, call, h[S \ {Max(S)}], Positions(lines)[Max(S)])
      <3>1. S \in SUBSET (1 .. m - 1) /\ h[S] = f[S]
        BY <2>2, <2>4
      <3>2. S \ {Max(S)} \in SUBSET (1 .. m) /\ m \notin S \ {Max(S)}
        BY <2>4
      <3>3. h[S \ {Max(S)}] = f[S \ {Max(S)}]
        BY <3>2
      <3>4. f[S] = IF S = {} THEN g
                   ELSE BuryLine(lines, those, pidOf, call, f[S \ {Max(S)}], Positions(lines)[Max(S)])
        BY <2>1, <3>1 DEF Buries
      <3> HIDE DEF h
      <3> QED BY <3>1, <3>3, <3>4
    <2>5. h = [S \in SUBSET (1 .. m) |-> h[S]]
      OBVIOUS
    <2>6. \A S \in SUBSET (1 .. m) :
            h[S] = IF S = {} THEN g ELSE BuryLine(lines, those, pidOf, call, h[S \ {Max(S)}], Positions(lines)[Max(S)])
      <3> HIDE DEF h
      <3> QED BY <2>3, <2>4
    <2> HIDE DEF h
    <2>7. D(h, m)
      BY <2>5, <2>6, Zenon DEF Buries
    <2> HIDE DEF D
    <2> QED BY <2>7
  <1> HIDE DEF D
  <1>3. SUFFICES ASSUME Bad # {} PROVE FALSE
    BY DEF D
  <1>4. PICK m \in Bad : \A k \in Bad : m <= k
    BY <1>3, LeastExists
  <1>5. m \in Nat \ {0} /\ m - 1 \in Nat /\ ~(m <= m - 1)
    BY <1>1, <1>4
  <1>6. \E f : D(f, m - 1)
    BY <1>4, <1>5
  <1> QED BY <1>2, <1>4, <1>5, <1>6

\* A stone with a number on it is a line like those of the register.
LEMMA BuryType ==
    ASSUME NEW g \in Seq(RegLine), NEW lines \in Seq(RegLine), NEW those,
           NEW pidOf \in [Proc -> Proc], NEW call, NEW i \in DOMAIN lines
    PROVE  BuryLine(lines, those, pidOf, call, g, i) \in Seq(RegLine)
  <1> DEFINE rip == [lines[i] EXCEPT !.pid = pidOf[@]]
             k == Namesakes(g, rip.name)
  <1>1. lines[i] \in RegLine
    OBVIOUS
  <1>2. rip \in RegLine /\ rip.name \in LineName
    BY <1>1 DEF RegLine
  <1>3. k \in Nat
    <2>1. IsFiniteSet(1 .. Len(g)) /\ DOMAIN g = 1 .. Len(g)
      <3>1. Len(g) \in Nat
        OBVIOUS
      <3> QED BY <3>1, FS_Interval
    <2>2. IsFiniteSet({j \in DOMAIN g : IsPrefix(rip.name, g[j].name)})
      BY <2>1, FS_Subset
    <2> QED BY <2>2, FS_CardinalityType DEF Namesakes
  <1> HIDE DEF k
  <1>4. Numbered(rip.name, k) \in LineName
    <2> HIDE DEF rip
    <2> QED BY <1>2, <1>3, HeadOfNumbered
  <1>5. [rip EXCEPT !.name = Numbered(@, k)] \in RegLine
    <2> HIDE DEF rip
    <2> QED BY <1>2, <1>4 DEF RegLine
  <1>6. add_to_graveyard(g, rip) \in Seq(RegLine)
    <2>1. add_to_graveyard(g, rip) = Append(g, [rip EXCEPT !.name = Numbered(@, k)])
      BY DEF add_to_graveyard, k
    <2> HIDE DEF rip
    <2> QED BY <1>5, <2>1
  <1>7. Append(g, rip) \in Seq(RegLine)
    <2> HIDE DEF rip
    <2> QED BY <1>2
  <1>8. Bury(g, rip, call[i]) \in Seq(RegLine)
    <2> HIDE DEF rip
    <2> QED BY <1>6, <1>7 DEF Bury
  <1> QED BY <1>8 DEF BuryLine

\* Whatever is buried, the graveyard holds lines like those of the register.
LEMMA KillBuries ==
    ASSUME grave \in Seq(RegLine), NEW p \in Proc, NEW lines \in Seq(RegLine), NEW those,
           NEW pidOf \in [Proc -> Proc], NEW call,
           Kill(p, lines, those, pidOf, call)
    PROVE  grave' \in Seq(RegLine)
  <1> DEFINE n == Len(lines)
             D(f) == Buries(f, n, grave, lines, those, pidOf, call)
  <1>1. n \in Nat /\ DOMAIN lines = 1 .. n
    OBVIOUS
  <1>2. grave' = (CHOOSE f : D(f))[DOMAIN lines]
    <2>1. DOMAIN Positions(lines) = 1 .. n
      BY <1>1 DEF Positions
    <2>2. grave' = FoldLeft(LAMBDA g, i : BuryLine(lines, those, pidOf, call, g, i), grave, Positions(lines))
      BY DEF Kill, FoldLeftDomain, Positions, BuryLine
    <2> QED BY <1>1, <2>1, <2>2 DEF FoldLeft, MapThenFoldSet, Buries
  <1>3. PICK f : D(f) /\ grave' = f[1 .. n]
    <2> HIDE DEF D
    <2>1. \E f : D(f)
      BY <1>1, BuriesExists DEF D
    <2> QED BY <1>1, <1>2, <2>1
  <1> DEFINE Bad == {m \in Nat : m <= n /\ f[1 .. m] \notin Seq(RegLine)}
  <1> SUFFICES ASSUME Bad # {} PROVE FALSE
    BY <1>1, <1>3
  <1>4. PICK m \in Bad : \A k \in Bad : m <= k
    BY LeastExists
  <1>5. m # 0
    <2>1. 1 .. 0 = {} /\ 1 .. 0 \in SUBSET (1 .. n)
      BY <1>1
    <2>2. f[1 .. 0] = grave
      BY <1>3, <2>1 DEF Buries
    <2> QED BY <1>4, <2>2
  <1>6. m \in Nat \ {0} /\ m <= n
    BY <1>4, <1>5
  <1> HIDE DEF n, Bad
  <1>7. m \in 1 .. n /\ m - 1 \in Nat /\ m - 1 <= n /\ ~(m <= m - 1) /\ m \in 1 .. m
    BY <1>1, <1>6
  <1>8. 1 .. m \in SUBSET (1 .. n) /\ 1 .. m # {} /\ (1 .. m) \ {m} = 1 .. m - 1
    <2>2. 1 .. m \subseteq 1 .. n /\ 1 \in 1 .. m
      BY <1>1, <1>6
    <2>3. (1 .. m) \ {m} = 1 .. m - 1
      BY <1>6
    <2> QED BY <2>2, <2>3
  <1>9. f[1 .. m - 1] \in Seq(RegLine)
    BY <1>4, <1>7 DEF Bad
  <1>10. f[1 .. m] = BuryLine(lines, those, pidOf, call, f[1 .. m - 1], m)
    <2>1. Max(1 .. m) = m
      BY <1>6, <1>7, LastIsMax
    <2>2. f[1 .. m] = BuryLine(lines, those, pidOf, call, f[(1 .. m) \ {Max(1 .. m)}], Positions(lines)[Max(1 .. m)])
      BY <1>3, <1>8 DEF Buries
    <2> QED BY <1>1, <1>7, <1>8, <2>1, <2>2 DEF Positions
  <1>11. BuryLine(lines, those, pidOf, call, f[1 .. m - 1], m) \in Seq(RegLine)
    BY <1>1, <1>7, <1>9, BuryType
  <1> QED BY <1>4, <1>10, <1>11 DEF Bad
-----------------------------------------------------------------------------
(* The lists *)

\* The register and the graveyard hold lines of processes, one for each in the register,
\* and dkill offers no more than it has room for.
ListsInv ==
    /\ RegistryInv
    /\ OneLineEach
    /\ grave \in Seq(RegLine)
    /\ count \in [Proc -> 0 .. Cardinality(Proc)]
    /\ listed \in [Proc -> Seq(RegLine)]
    /\ \A p \in Proc : Len(listed[p]) <= MaxDaemons
    /\ faults \in 0 .. MaxFaults

\* No more lines are found than there are processes.
LEMMA NamesakesFit ==
    ASSUME RegistryInv, OneLineEach, NEW n
    PROVE  Namesakes(reg, n) \in 0 .. Cardinality(Proc)
  <1> DEFINE S == {i \in DOMAIN reg : IsPrefix(n, reg[i].name)}
             f == [i \in S |-> reg[i].pid]
  <1>1. f \in [S -> Proc] /\ \A i, j \in S : f[i] = f[j] => i = j
    BY LinesOfProcs DEF OneLineEach
  <1> HIDE DEF f, S
  <1>2. f \in Injection(S, Proc)
    BY <1>1, Fun_IsInj
  <1>3. IsFiniteSet(S) /\ Cardinality(S) <= Cardinality(Proc)
    BY <1>2, FS_Injection
  <1>4. Cardinality(S) \in Nat /\ Cardinality(Proc) \in Nat
    BY <1>3, FS_CardinalityType
  <1> QED BY <1>3, <1>4 DEF Namesakes, S

\* A call fails only while it may.
LEMMA FaultsStep ==
    ASSUME faults \in 0 .. MaxFaults, NEW p \in Proc,
           \/ RunDplant(p) \/ RunDspawn(p) \/ RunDkill(p)
           \/ CheckRunning(p) \/ TakeLock(p) \/ CheckName(p)
           \/ spawn_plant(p) \/ FindName(p) \/ daemon_register(p)
           \/ RespawnIfDead(p) \/ RespawnIfKnown(p) \/ CountNamesakes(p) \/ ListDaemons(p)
    PROVE  faults' \in 0 .. MaxFaults
  <1>1. faults' = faults \/ (faults < MaxFaults /\ faults' = faults + 1)
    BY DEF RunDplant, RunDspawn, RunDkill, CheckRunning, TakeLock, plant_lock, CheckName,
           spawn_plant, FindName, daemon_register, RespawnIfDead, RespawnIfKnown,
           CountNamesakes, ListDaemons, CallFails, history
  <1> QED BY <1>1

\* So many calls fail in going through some lines.
LEMMA FailedType ==
    ASSUME NEW those, IsFiniteSet(those), NEW call \in Calls(those)
    PROVE  Failed(call) \in Nat /\ faults + Failed(call) <= MaxFaults
  <1>1. DOMAIN call = those /\ faults + Failed(call) <= MaxFaults
    BY DEF Calls
  <1>2. IsFiniteSet({i \in DOMAIN call : call[i] # "done"})
    BY <1>1, FS_Subset
  <1> QED BY <1>1, <1>2, FS_CardinalityType DEF Failed

\* A step that changes no list, of a process that is neither at work nor gone.
LEMMA ListsQuiet ==
    ASSUME ListsInv, RegistryInv', NEW p \in Proc, pc[p] \notin {"working", "exit"},
           \A q \in Proc \ {p} : pc'[q] = pc[q],
           UNCHANGED <<reg, grave, count, listed>>, faults' \in 0 .. MaxFaults
    PROVE  ListsInv'
  <1>1. OneLineEach'
    BY LinesOfProcs DEF ListsInv, OneLineEach
  <1> QED BY <1>1 DEF ListsInv

\* A daemon adds its line, or could not.
LEMMA ListsRegister ==
    ASSUME ListsInv, RegistryInv', NEW p \in Proc, daemon_register(p)
    PROVE  ListsInv'
  <1>1. /\ pc' = [pc EXCEPT ![p] = "working"] /\ pc[p] = "append"
        /\ UNCHANGED <<name, grave, count, listed>> /\ faults' \in 0 .. MaxFaults
    BY FaultsStep DEF daemon_register, Goto, ListsInv
  <1>2. RegistryInv /\ OneLineEach /\ \A i \in DOMAIN reg : reg[i].pid \in Proc
    BY LinesOfProcs DEF ListsInv
  <1>3. pc'[p] = "working" /\ \A q \in Proc \ {p} : pc'[q] = pc[q]
    BY <1>1, <1>2 DEF RegistryInv
  <1>4. CASE UNCHANGED reg
    <2>1. OneLineEach'
      BY <1>1, <1>2, <1>3, <1>4 DEF OneLineEach
    <2> QED BY <1>1, <2>1 DEF ListsInv
  <1>5. CASE AppendLine(p)
    <2>1. /\ \A i \in DOMAIN reg : i \in DOMAIN reg' /\ reg'[i] = reg[i]
          /\ \A i \in DOMAIN reg' : i = Len(reg) + 1 \/ i \in DOMAIN reg
          /\ reg'[Len(reg) + 1].pid = p
      <3>1. /\ Len(reg') = Len(reg) + 1
            /\ DOMAIN reg = 1 .. Len(reg) /\ DOMAIN reg' = 1 .. Len(reg) + 1
            /\ \A i \in DOMAIN reg : i \in DOMAIN reg' /\ reg'[i] = reg[i]
            /\ reg'[Len(reg) + 1].pid = p
        BY <1>1, <1>2, <1>5, AppendedLine
      <3>2. Len(reg) \in Nat
        BY <1>2, LinesOfProcs
      <3>3. \A i \in 1 .. Len(reg) + 1 : i = Len(reg) + 1 \/ i \in 1 .. Len(reg)
        BY <3>2
      <3> QED BY <3>1, <3>3
    <2>2. \A i \in DOMAIN reg : reg[i].pid # p
      BY <1>1, <1>2 DEF OneLineEach
    <2>3. OneLineEach'
      BY <1>2, <1>3, <2>1, <2>2 DEF OneLineEach
    <2> QED BY <1>1, <2>3 DEF ListsInv
  <1> QED BY <1>4, <1>5 DEF daemon_register

\* dkill and a plant's death bury lines, and no more calls fail than may.
LEMMA DeathBuries ==
    ASSUME ListsInv, NEW p \in Proc, dkill(p) \/ plant_died(p)
    PROVE  grave' \in Seq(RegLine) /\ faults' \in 0 .. MaxFaults
  <1>1. /\ RegistryInv /\ listed[p] \in Seq(RegLine) /\ grave \in Seq(RegLine)
        /\ faults \in 0 .. MaxFaults
        /\ [q \in Proc |-> p] \in [Proc -> Proc] /\ [q \in Proc |-> q] \in [Proc -> Proc]
    BY DEF ListsInv
  <1>2. ASSUME NEW lines \in Seq(RegLine), NEW those \in SUBSET (DOMAIN lines)
        PROVE  IsFiniteSet(those)
    <2>1. IsFiniteSet(1 .. Len(lines)) /\ DOMAIN lines = 1 .. Len(lines)
      BY FS_Interval
    <2> QED BY <2>1, FS_Subset
  <1>3. CASE plant_died(p)
    <2>1. ActiveDaemons \in Seq(RegLine)
      BY <1>1, OffersFit
    <2>2. CASE UNCHANGED grave /\ CallFails(p)
      BY <1>1, <2>2 DEF CallFails
    <2>3. CASE \E those \in SUBSET (DOMAIN ActiveDaemons) : \E call \in Calls(those) :
                 /\ Kill(p, ActiveDaemons, those, [q \in Proc |-> q], call)
                 /\ faults' = faults + Failed(call)
      <3>1. PICK those \in SUBSET (DOMAIN ActiveDaemons) : \E call \in Calls(those) :
                 /\ Kill(p, ActiveDaemons, those, [q \in Proc |-> q], call)
                 /\ faults' = faults + Failed(call)
        BY <2>3
      <3>2. PICK call \in Calls(those) :
                 /\ Kill(p, ActiveDaemons, those, [q \in Proc |-> q], call)
                 /\ faults' = faults + Failed(call)
        BY <3>1
      <3>3. grave' \in Seq(RegLine)
        BY <1>1, <2>1, <3>2, KillBuries
      <3>4. Failed(call) \in Nat /\ faults + Failed(call) <= MaxFaults
        BY <1>2, <2>1, FailedType
      <3> QED BY <1>1, <3>2, <3>3, <3>4
    <2>4. \/ UNCHANGED grave /\ CallFails(p)
          \/ \E those \in SUBSET (DOMAIN ActiveDaemons) : \E call \in Calls(those) :
                 /\ Kill(p, ActiveDaemons, those, [q \in Proc |-> q], call)
                 /\ faults' = faults + Failed(call)
      BY <1>3, Zenon DEF plant_died
    <2> QED BY <2>2, <2>3, <2>4
  <1>4. CASE KillOne(p)
    <2>1. PICK i \in DOMAIN listed[p] : \E call \in Calls({i}) :
            /\ Kill(p, listed[p], {i}, [q \in Proc |-> p], call)
            /\ faults' = faults + Failed(call)
      BY <1>4 DEF KillOne
    <2>4. PICK call \in Calls({i}) :
            /\ Kill(p, listed[p], {i}, [q \in Proc |-> p], call)
            /\ faults' = faults + Failed(call)
      BY <2>1
    <2>2. Failed(call) \in Nat /\ faults + Failed(call) <= MaxFaults
      BY FS_Singleton, FailedType
    <2>3. grave' \in Seq(RegLine)
      BY <1>1, <2>4, KillBuries
    <2> QED BY <1>1, <2>4, <2>2, <2>3
  <1>5. CASE KillAll(p)
    <2>1. PICK call \in Calls(DOMAIN listed[p]) :
            /\ Kill(p, listed[p], DOMAIN listed[p], [q \in Proc |-> p], call)
            /\ \/ faults' = faults + Failed(call)
               \/ faults + Failed(call) < MaxFaults /\ faults' = faults + Failed(call) + 1
      BY <1>5 DEF KillAll
    <2>2. Failed(call) \in Nat /\ faults + Failed(call) <= MaxFaults
      BY <1>1, <1>2, FailedType
    <2>3. grave' \in Seq(RegLine)
      BY <1>1, <2>1, KillBuries
    <2> QED BY <1>1, <2>1, <2>2, <2>3
  <1>6. CASE Cancel(p)
    BY <1>1, <1>6 DEF Cancel, history
  <1> QED BY <1>3, <1>4, <1>5, <1>6 DEF dkill

LEMMA ListsDeath ==
    ASSUME ListsInv, RegistryInv', NEW p \in Proc, dkill(p) \/ plant_died(p)
    PROVE  ListsInv'
  <1>1. RegistryInv /\ Ends(p)
    BY DeathsEnd DEF ListsInv
  <1>2. grave' \in Seq(RegLine) /\ faults' \in 0 .. MaxFaults
    BY DeathBuries
  <1>3. OneLineEach'
    <2>1. CASE reg' = reg
      BY <1>1, <2>1, LinesOfProcs DEF Ends, ListsInv, OneLineEach
    <2>2. CASE reg' = <<>>
      BY <2>2 DEF OneLineEach
    <2> QED BY <1>1, <2>1, <2>2 DEF Ends
  <1> QED BY <1>1, <1>2, <1>3 DEF Ends, ListsInv

\* Every step keeps ListsInv.
LEMMA ListsNext == ListsInv /\ [Next]_vars => ListsInv'
  <1> SUFFICES ASSUME ListsInv, [Next]_vars PROVE ListsInv'
    OBVIOUS
  <1>1. RegistryInv /\ RegistryInv'
    BY RegistryNext DEF ListsInv
  <1>2. CASE UNCHANGED vars
    BY <1>1, <1>2 DEF vars, history, ListsInv, OneLineEach
  <1>3. ASSUME NEW p \in Proc,
               \/ RunDplant(p) \/ RunDspawn(p) \/ RunDkill(p) \/ CheckRunning(p)
               \/ TakeLock(p) \/ CheckName(p) \/ spawn_plant(p) \/ FindName(p)
               \/ RespawnIfDead(p) \/ RespawnIfKnown(p)
        PROVE  ListsInv'
    <2>1. UNCHANGED <<reg, grave, count, listed>> /\ pc[p] \notin {"working", "exit"}
      BY <1>3 DEF RunDplant, RunDspawn, RunDkill, Ready, CheckRunning, TakeLock, CheckName,
                  spawn_plant, FindName, RespawnIfDead, RespawnIfKnown
    <2>2. PICK ph : pc' = [pc EXCEPT ![p] = ph]
      BY <1>3 DEF RunDplant, RunDspawn, RunDkill, CheckRunning, TakeLock, plant_lock,
                  CheckName, spawn_plant, FindName, RespawnIfDead,
                  RespawnIfKnown, Goto
    <2>3. \A q \in Proc \ {p} : pc'[q] = pc[q]
      BY <1>1, <2>2 DEF RegistryInv
    <2>4. faults' \in 0 .. MaxFaults
      BY <1>3, FaultsStep DEF ListsInv
    <2> QED BY <1>1, <2>1, <2>3, <2>4, ListsQuiet
  <1>4. ASSUME NEW p \in Proc, CountNamesakes(p)
        PROVE  ListsInv'
    <2>1. /\ pc' = [pc EXCEPT ![p] = "append"] /\ pc[p] = "count"
          /\ UNCHANGED <<reg, grave, listed>> /\ faults' \in 0 .. MaxFaults
          /\ UNCHANGED count \/ count' = [count EXCEPT ![p] = Namesakes(reg, <<name[p]>>)]
      BY <1>4, FaultsStep DEF CountNamesakes, Goto, ListsInv
    <2>2. count' \in [Proc -> 0 .. Cardinality(Proc)]
      BY <1>1, <2>1, NamesakesFit DEF ListsInv
    <2>3. OneLineEach'
      BY <1>1, <2>1, LinesOfProcs DEF ListsInv, OneLineEach, RegistryInv
    <2> QED BY <1>1, <2>1, <2>2, <2>3 DEF ListsInv
  <1>5. ASSUME NEW p \in Proc, ListDaemons(p)
        PROVE  ListsInv'
    <2>1. /\ UNCHANGED <<reg, grave, count>> /\ pc[p] = "list" /\ faults' \in 0 .. MaxFaults
          /\ UNCHANGED listed \/ listed' = [listed EXCEPT ![p] = ActiveDaemons]
      BY <1>5, FaultsStep DEF ListDaemons, ListsInv
    <2>2. PICK ph : pc' = [pc EXCEPT ![p] = ph]
      BY <1>5 DEF ListDaemons, Goto
    <2>3. /\ listed' \in [Proc -> Seq(RegLine)]
          /\ \A q \in Proc : listed'[q] \in {ActiveDaemons, listed[q]}
      BY <1>1, <2>1, OffersFit DEF ListsInv
    <2>4. \A q \in Proc : Len(listed'[q]) <= MaxDaemons
      BY <1>1, <2>3, OffersFit DEF ListsInv
    <2>5. OneLineEach'
      BY <1>1, <2>1, <2>2, LinesOfProcs DEF ListsInv, OneLineEach, RegistryInv
    <2> QED BY <1>1, <2>1, <2>3, <2>4, <2>5 DEF ListsInv
  <1>6. ASSUME NEW p \in Proc, daemon_register(p)
        PROVE  ListsInv'
    BY <1>1, <1>6, ListsRegister
  <1>7. ASSUME NEW p \in Proc, dkill(p) \/ plant_died(p)
        PROVE  ListsInv'
    BY <1>1, <1>7, ListsDeath
  <1> QED BY <1>2, <1>3, <1>4, <1>5, <1>6, <1>7 DEF Next

\* However the commands overlap, and whatever calls fail: every line of the register, of
\* the graveyard and of dkill's list is a process's, under a name that the programs make;
\* the numbers dspawn gives are below the number of commands; dkill's list stays within
\* its array.
THEOREM ListsTyped == Spec => []TypeOK
  <1>1. Init => ListsInv
    <2>1. ASSUME Init PROVE ListsInv
      <3>1. RegistryInv /\ OneLineEach
        BY <2>1, RegistryInit DEF Init, OneLineEach
      <3>2. Cardinality(Proc) \in Nat
        BY FS_CardinalityType
      <3>3. /\ count \in [Proc -> 0 .. Cardinality(Proc)] /\ faults \in 0 .. MaxFaults
            /\ grave \in Seq(RegLine) /\ listed \in [Proc -> Seq(RegLine)]
        <4>1. <<>> \in Seq(RegLine) /\ 0 \in 0 .. Cardinality(Proc) /\ 0 \in 0 .. MaxFaults
          BY <3>2
        <4> QED BY <2>1, <4>1, Zenon DEF Init
      <3>4. \A p \in Proc : Len(listed[p]) <= MaxDaemons
        BY <2>1 DEF Init
      <3> QED BY <3>1, <3>3, <3>4 DEF ListsInv
    <2> QED BY <2>1
  <1>2. ListsInv => TypeOK
    <2> SUFFICES ASSUME ListsInv PROVE TypeOK
      OBVIOUS
    <2>1. ASSUME NEW lines \in Seq(RegLine)
          PROVE  OfDaemons(lines)
      <3>1. \A l \in RegLine : l.pid \in Proc /\ Head(l.name) \in Plant \cup {DSpawn}
        BY DEF RegLine, LineName
      <3>2. \A i \in DOMAIN lines : lines[i] \in RegLine
        OBVIOUS
      <3> QED BY <3>1, <3>2 DEF OfDaemons
    <2>2. OfDaemons(reg) /\ OfDaemons(grave) /\ \A p \in Proc : OfDaemons(listed[p])
      BY <2>1 DEF ListsInv, RegistryInv, RegLine
    <2> QED BY <2>2 DEF ListsInv, RegistryInv, TypeOK
  <1> QED BY <1>1, <1>2, ListsNext, PTL DEF Spec
=============================================================================
