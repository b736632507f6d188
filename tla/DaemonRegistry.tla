---------------------------- MODULE DaemonRegistry ----------------------------
(***************************************************************************)
(* How the daemon programs dplant, dspawn and dkill start, list and stop   *)
(* daemons through the files of tmp/: the register daemons.reg, the        *)
(* graveyard cematary.reg and a lock file per plant.                       *)
(*                                                                         *)
(* A process here is one command, and the daemon it may turn into: the     *)
(* parents that fork and exit are not told apart from it.  Each file       *)
(* operation is a step, so commands and daemons that are starting up       *)
(* interleave.  SIGTERM ends a daemon at once, and no pid is used twice.   *)
(* dcheck prints the register and the graveyard and changes nothing.       *)
(*                                                                         *)
(* Opening a file, fork and kill may fail; malloc is taken not to.         *)
(***************************************************************************)
EXTENDS Integers, Sequences, FiniteSets, SequencesExt

CONSTANTS
    Proc,           \* bound: the commands that are run
    Plant,          \* names given to dplant
    DSpawn,         \* "dspawnowo", the name every dspawn daemon goes by
    Nil,
    MaxDaemons,     \* MAX_DAEMONS
    MaxFaults,      \* bound: calls that fail
    Overlap,        \* TRUE: a command may be run while another is under way
    UseRespawn      \* TRUE: "dplant <name> respawn" is run too

ASSUME RegistryAssumption ==
    /\ MaxDaemons \in Nat \ {0} /\ MaxFaults \in Nat
    /\ Overlap \in BOOLEAN /\ UseRespawn \in BOOLEAN

\* A plant called like the dspawn daemons, which would share their lines, is left aside.
ASSUME NameAssumption ==
    /\ IsFiniteSet(Proc) /\ Nil \notin Proc
    /\ DSpawn \notin Plant

VARIABLES
    pc,         \* what the process does next
    name,       \* its plant name, or DSpawn
    lock,       \* per plant, who holds the flock on plant_<name>.lock
    reg,        \* the lines of daemons.reg
    grave,      \* the lines of cematary.reg
    count,      \* dspawn: the number of namesakes it read
    listed,     \* dkill: the daemons it offers
    mishap,     \* what has befallen each process (history)
    faults      \* calls that have failed so far

history == <<mishap, faults>>
vars == <<pc, name, lock, reg, grave, count, listed, history>>

\* A call of its own failed, or its kill by a dkill that then emptied the register; dkill
\* emptied the register when its list was full without it, or did not have it; it was
\* respawned under the line of a dead daemon.
Mishap == {"call", "full", "unknown", "respawned"}

\* A registered name is its parts, split at the dots: <<x>>, <<x, 1>>, ...
Line(n, p) == [name |-> n, pid |-> p]

Phase == {"unborn", "check", "lock", "locked", "revive", "reread", "spawned", "respawned",
          "detached", "count", "append", "working", "list", "prompt", "exit"}

\* /proc/<pid> exists.
Alive(p) == pc[p] \notin {"unborn", "exit"}

\* is_plant_running
Running(x) == \E i \in DOMAIN reg : reg[i].name = <<x>> /\ Alive(reg[i].pid)

is_daemon_registered(x) == \E i \in DOMAIN reg : reg[i].name = <<x>>

Namesakes_Exact(lines, n) == Cardinality({i \in DOMAIN lines : lines[i].name = n})

\* The lines that begin with the name and go on with a space or a dot.
Namesakes(lines, n) == Cardinality({i \in DOMAIN lines : IsPrefix(n, lines[i].name)})

\* The name, with the number of its namesakes when there are any.
Numbered(n, k) == IF k = 0 THEN n ELSE Append(n, k)

add_to_graveyard(lines, rip) ==
    Append(lines, [rip EXCEPT !.name = Numbered(@, Namesakes(lines, @))])

\* The positions of the lines whose process exists, and of the first k of them.
Active == {i \in DOMAIN reg : Alive(reg[i].pid)}

Leading(k) == {i \in Active : Cardinality({j \in Active : j <= i}) <= k}

ActiveDaemons_Unbounded == SelectSeq(reg, LAMBDA l : Alive(l.pid))

\* The first MAX_DAEMONS lines whose process exists: the k-th is at the position up to
\* which there are k.
ActiveDaemons ==
    [k \in 1 .. Cardinality(Leading(MaxDaemons)) |->
        reg[CHOOSE i \in Active : Cardinality({j \in Active : j <= i}) = k]]

Pids(lines) == {lines[i].pid : i \in DOMAIN lines}

-------------------------------------------------------------------------------
Init ==
    /\ pc = [p \in Proc |-> "unborn"]
    /\ name = [p \in Proc |-> Nil]
    /\ lock = [x \in Plant |-> Nil]
    /\ reg = <<>> /\ grave = <<>>
    /\ count = [p \in Proc |-> 0]
    /\ listed = [p \in Proc |-> <<>>]
    /\ mishap = [p \in Proc |-> {}] /\ faults = 0

Goto(p, phase) == pc' = [pc EXCEPT ![p] = phase]

\* A call of p fails.
CallFails(p) ==
    /\ faults < MaxFaults /\ faults' = faults + 1
    /\ mishap' = [mishap EXCEPT ![p] = @ \cup {"call"}]

\* Nothing is under way: every process has become a daemon or is gone.
Quiet == \A p \in Proc : pc[p] \in {"unborn", "working", "exit"}

\* Somebody may run a command.
Ready(p) == pc[p] = "unborn" /\ (Overlap \/ Quiet)

RunDplant(p) ==
    /\ Ready(p)
    /\ \E x \in Plant : name' = [name EXCEPT ![p] = x]
    /\ Goto(p, "check") \/ (UseRespawn /\ Goto(p, "revive"))
    /\ UNCHANGED <<lock, reg, grave, count, listed, history>>

\* spawn_daemon takes no lock and reads no file; it may fail to fork.
RunDspawn(p) ==
    /\ Ready(p)
    /\ name' = [name EXCEPT ![p] = DSpawn]
    /\ \/ Goto(p, "count") /\ UNCHANGED history
       \/ Goto(p, "exit") /\ CallFails(p)
    /\ UNCHANGED <<lock, reg, grave, count, listed>>

RunDkill(p) ==
    /\ Ready(p)
    /\ Goto(p, "list")
    /\ UNCHANGED <<name, lock, reg, grave, count, listed, history>>

-------------------------------------------------------------------------------
(* dplant <name> *)

\* A register that cannot be opened is read as an empty one, here and below.
CheckRunning(p) ==
    /\ pc[p] = "check"
    /\ \/ Goto(p, IF Running(name[p]) THEN "exit" ELSE "lock") /\ UNCHANGED history
       \/ Goto(p, "lock") /\ CallFails(p)
    /\ UNCHANGED <<name, lock, reg, grave, count, listed>>

plant_lock_Unchecked(p) ==
    /\ lock' = [lock EXCEPT ![name[p]] = p] /\ Goto(p, "locked")
    /\ UNCHANGED history

\* LOCK_NB: whoever finds the lock taken, or cannot open its file, gives up.
plant_lock(p) ==
    \/ /\ lock[name[p]] = Nil
       /\ lock' = [lock EXCEPT ![name[p]] = p] /\ Goto(p, "locked")
       /\ UNCHANGED history
    \/ /\ UNCHANGED lock /\ Goto(p, "exit")
       /\ (lock[name[p]] # Nil /\ UNCHANGED history) \/ CallFails(p)

TakeLock(p) ==
    /\ pc[p] = "lock"
    /\ plant_lock(p)
    /\ UNCHANGED <<name, reg, grave, count, listed>>

\* A name in the register is refused; the lock goes with the process.
CheckName(p) ==
    /\ pc[p] = "locked"
    /\ \/ /\ is_daemon_registered(name[p]) /\ UNCHANGED history
          /\ lock' = [lock EXCEPT ![name[p]] = Nil] /\ Goto(p, "exit")
       \/ /\ (~is_daemon_registered(name[p]) /\ UNCHANGED history) \/ CallFails(p)
          /\ UNCHANGED lock /\ Goto(p, "spawned")
    /\ UNCHANGED <<name, reg, grave, count, listed>>

CloseAll_NotLock(p) == UNCHANGED lock

\* Every descriptor is closed, the locked one included.
CloseAll(p) == lock' = [lock EXCEPT ![name[p]] = IF @ = p THEN Nil ELSE @]

\* spawn_plant closes them last; if it cannot fork they go with the process.
spawn_plant(p) ==
    /\ pc[p] \in {"spawned", "respawned"}
    /\ CloseAll(p)
    /\ \/ Goto(p, "detached") /\ UNCHANGED history
       \/ Goto(p, "exit") /\ CallFails(p)
    /\ UNCHANGED <<name, reg, grave, count, listed>>

\* dplant's daemon_register looks for the name and returns if it is there; the
\* daemon goes to work all the same.
FindName(p) ==
    /\ pc[p] = "detached"
    /\ \/ /\ Goto(p, IF is_daemon_registered(name[p]) THEN "working" ELSE "append")
          /\ UNCHANGED history
       \/ Goto(p, "append") /\ CallFails(p)
    /\ UNCHANGED <<name, lock, reg, grave, count, listed>>

AppendLine_Truncating(p) == reg' = <<Line(Numbered(<<name[p]>>, count[p]), p)>>

AppendLine(p) == reg' = Append(reg, Line(Numbered(<<name[p]>>, count[p]), p))

\* Either daemon_register adds its line.  The file is opened for appending, and nothing
\* locks it since it was read; a daemon that cannot open it works without a line.
daemon_register(p) ==
    /\ pc[p] = "append"
    /\ \/ AppendLine(p) /\ UNCHANGED history
       \/ UNCHANGED reg /\ CallFails(p)
    /\ Goto(p, "working")
    /\ UNCHANGED <<name, lock, grave, count, listed>>

-------------------------------------------------------------------------------
(* dplant <name> respawn *)

\* Only a plant that is not running is respawned.
RespawnIfDead(p) ==
    /\ pc[p] = "revive"
    /\ \/ Goto(p, IF Running(name[p]) THEN "exit" ELSE "reread") /\ UNCHANGED history
       \/ Goto(p, "reread") /\ CallFails(p)
    /\ UNCHANGED <<name, lock, reg, grave, count, listed>>

\* ... and only if it is registered.  No lock is taken.
RespawnIfKnown(p) ==
    /\ pc[p] = "reread"
    /\ \/ /\ is_daemon_registered(name[p]) /\ Goto(p, "respawned")
          /\ mishap' = [mishap EXCEPT ![p] = @ \cup {"respawned"}] /\ UNCHANGED faults
       \/ /\ (~is_daemon_registered(name[p]) /\ UNCHANGED history) \/ CallFails(p)
          /\ Goto(p, "exit")
    /\ UNCHANGED <<name, lock, reg, grave, count, listed>>

-------------------------------------------------------------------------------
(* dspawn *)

\* dspawn's daemon_register counts the daemons of the same name.
CountNamesakes(p) ==
    /\ pc[p] = "count"
    /\ \/ count' = [count EXCEPT ![p] = Namesakes(reg, <<name[p]>>)] /\ UNCHANGED history
       \/ UNCHANGED count /\ CallFails(p)
    /\ Goto(p, "append")
    /\ UNCHANGED <<name, lock, reg, grave, listed>>

-------------------------------------------------------------------------------
(* dkill, and a plant that dies *)

ListDaemons(p) ==
    /\ pc[p] = "list"
    /\ \/ /\ listed' = [listed EXCEPT ![p] = ActiveDaemons]
          /\ Goto(p, IF ActiveDaemons = <<>> THEN "exit" ELSE "prompt")
          /\ UNCHANGED history
       \/ UNCHANGED listed /\ Goto(p, "exit") /\ CallFails(p)
    /\ UNCHANGED <<name, lock, reg, grave, count>>

\* How a kill and the burial that follows it go.
Outcome == {"done", "not killed", "not counted", "not opened"}

\* No stone if the graveyard cannot be opened for appending, one without a number if it
\* cannot be read.
Bury(g, rip, outcome) ==
    CASE outcome = "done" -> add_to_graveyard(g, rip)
      [] outcome = "not counted" -> Append(g, rip)
      [] OTHER -> g

\* Send SIGTERM to those of the lines and bury the processes that were there, in order;
\* then p is done too.  What goes on the gravestone is the pid given by pidOf, and call
\* says how it goes.  One step: whatever comes between two kills could come before them,
\* while dkill prompts.
Kill(p, lines, those, pidOf, call) ==
    LET Then(g, i) ==
            IF i \in those /\ Alive(lines[i].pid)
            THEN Bury(g, [lines[i] EXCEPT !.pid = pidOf[@]], call[i]) ELSE g
        hit == {lines[i].pid : i \in {j \in those : call[j] # "not killed"}}
    IN /\ grave' = FoldLeftDomain(Then, grave, lines)
       /\ pc' = [q \in Proc |-> IF q = p \/ (q \in hit /\ Alive(q)) THEN "exit" ELSE pc[q]]

Failed(call) == Cardinality({i \in DOMAIN call : call[i] # "done"})

\* All the ways to go through those lines with the failures that are left.
Calls(those) == {call \in [those -> Outcome] : faults + Failed(call) <= MaxFaults}

\* A number: one of the daemons listed.  dkill writes its own pid.
KillOne(p) ==
    /\ \E i \in DOMAIN listed[p] : \E call \in Calls({i}) :
         /\ Kill(p, listed[p], {i}, [q \in Proc |-> p], call)
         /\ faults' = faults + Failed(call)
    /\ UNCHANGED <<reg, mishap>>

\* What it means for q that p has emptied the register.
Spared(p, q, call) ==
    IF pc[q] # "working" THEN {}
    ELSE IF \E i \in DOMAIN call : listed[p][i].pid = q /\ call[i] = "not killed"
    THEN {"call"}
    ELSE IF q \in Pids(listed[p]) THEN {}
    ELSE IF Len(listed[p]) = MaxDaemons THEN {"full"} ELSE {"unknown"}

\* 'a': all of them, and the register is emptied, whoever is left.  dkill crashes when it
\* cannot open it.
KillAll(p) ==
    \E call \in Calls(DOMAIN listed[p]) :
      /\ Kill(p, listed[p], DOMAIN listed[p], [q \in Proc |-> p], call)
      /\ \/ /\ reg' = <<>> /\ faults' = faults + Failed(call)
            /\ mishap' = [q \in Proc |-> mishap[q] \cup Spared(p, q, call)]
         \/ /\ faults + Failed(call) < MaxFaults /\ faults' = faults + Failed(call) + 1
            /\ UNCHANGED <<reg, mishap>>

Cancel(p) == Goto(p, "exit") /\ UNCHANGED <<reg, grave, history>>

\* The answer to dkill's prompt, however long after the listing.
dkill(p) ==
    /\ pc[p] = "prompt"
    /\ KillOne(p) \/ KillAll(p) \/ Cancel(p)
    /\ UNCHANGED <<name, lock, count, listed>>

\* dkill_auto of a plant whose health is gone: it kills and buries the daemons
\* of its own name in the order of the register, and itself when it comes to its
\* own line, which ends it there.
plant_died(p) ==
    LET mine == {i \in DOMAIN ActiveDaemons : ActiveDaemons[i].name = <<name[p]>>}
        first == {i \in mine : \A j \in mine : j <= i => ActiveDaemons[j].pid # p}
    IN /\ pc[p] = "working" /\ name[p] \in Plant
       /\ \/ \E call \in Calls(first) :
               /\ Kill(p, ActiveDaemons, first, [q \in Proc |-> q], call)
               /\ faults' = faults + Failed(call) /\ UNCHANGED mishap
          \/ UNCHANGED grave /\ Goto(p, "exit") /\ CallFails(p)
       /\ UNCHANGED <<name, lock, reg, count, listed>>

-------------------------------------------------------------------------------
Next ==
    \E p \in Proc :
      \/ RunDplant(p) \/ RunDspawn(p) \/ RunDkill(p)
      \/ CheckRunning(p) \/ TakeLock(p) \/ CheckName(p)
      \/ spawn_plant(p) \/ FindName(p) \/ daemon_register(p)
      \/ RespawnIfDead(p) \/ RespawnIfKnown(p)
      \/ CountNamesakes(p)
      \/ ListDaemons(p) \/ dkill(p) \/ plant_died(p)

Spec == Init /\ [][Next]_vars

\* Whoever holds a lock waits for nothing but its turn, and gets it.  Nothing is assumed
\* of the user, of the plants, nor of anybody else.
Fairness == \A p \in Proc : WF_vars(CheckName(p)) /\ WF_vars(spawn_plant(p))

FairSpec == Spec /\ Fairness

-------------------------------------------------------------------------------
(* Properties *)

\* Lines of processes, under names the programs make.
OfDaemons(lines) ==
    \A i \in DOMAIN lines :
        lines[i].pid \in Proc /\ Head(lines[i].name) \in Plant \cup {DSpawn}

TypeOK ==
    /\ pc \in [Proc -> Phase]
    /\ name \in [Proc -> Plant \cup {DSpawn, Nil}]
    /\ lock \in [Plant -> Proc \cup {Nil}]
    /\ OfDaemons(reg) /\ OfDaemons(grave)
    /\ count \in [Proc -> 0 .. Cardinality(Proc)]
    /\ \A p \in Proc : Len(listed[p]) <= MaxDaemons /\ OfDaemons(listed[p])
    /\ mishap \in [Proc -> SUBSET Mishap] /\ faults \in 0 .. MaxFaults

Daemons(x) == {p \in Proc : pc[p] = "working" /\ name[p] = x}

\* Nothing has happened to p that can happen while commands do not overlap.
Unharmed(p) == mishap[p] \subseteq {"unknown"}

\* No plant has two daemons ("dplant daemon <name> is already active", "could not acquire
\* lock for daemon"), if those are left aside for whom a call failed, who were respawned,
\* or whom a dkill with a full list let go unlisted: nobody else gets a twin by that.
OneDaemonPerPlant ==
    \A x \in Plant : Cardinality({p \in Daemons(x) : Unharmed(p)}) <= 1

\* From plant_lock until spawn_plant has closed its descriptors one process at
\* most is at work for a plant (respawn_plant, which takes no lock, left aside).
SpawnsExclusively ==
    \A x \in Plant :
        Cardinality({p \in Proc : name[p] = x /\ pc[p] \in {"locked", "spawned"}}) <= 1

\* Every daemon at work has a line in the register, so that dcheck shows it and dkill can
\* end it, through kills, deaths and emptied registers, unless a call failed for it, dkill
\* emptied the register with its list full, or it was respawned.
EveryDaemonListed ==
    \A p \in Proc : pc[p] = "working" /\ Unharmed(p) => p \in Pids(reg)

\* No two lines of the register have the same name: "check for daemons created
\* with the same name and add a number to differentiate it" (dspawn.c); a daemon
\* that could not read the register is left aside.
NamesDistinct ==
    \A i, j \in DOMAIN reg :
        /\ reg[i].name = reg[j].name
        /\ "call" \notin mishap[reg[i].pid] \cup mishap[reg[j].pid]
        => i = j

\* However the commands overlap, the name of a daemon at work stays in the register,
\* respawned or not, unless a call failed for it or it was missing from the list of a
\* dkill that emptied the register: losing the race to register loses no name.
NameStaysListed ==
    \A p \in Proc : pc[p] = "working" /\ name[p] \in Plant /\ mishap[p] \subseteq {"respawned"}
                        => is_daemon_registered(name[p])

\* A plant's lock is always given back, by whichever way its holder goes on.
LockIsReleased == \A x \in Plant : lock[x] # Nil ~> lock[x] = Nil
===============================================================================
