------------------------------ MODULE PlantState ------------------------------
(***************************************************************************)
(* The state of one plant: the file tmp/<name>.state, the copy the daemon  *)
(* of dplant keeps in memory from when it starts until it ends, and the    *)
(* commands "dplant <name> water" that rewrite the file meanwhile.         *)
(*                                                                         *)
(* Saving is two steps, since open with O_TRUNC empties the file before    *)
(* flock is called, and a read takes no lock.  The times in the struct are *)
(* left out; how many minutes have passed since last_updated is chosen     *)
(* from Gaps.  "dplant <name> stats" only reads.  How daemons are kept     *)
(* apart is DaemonRegistry's subject: here they come one after the other.  *)
(***************************************************************************)
EXTENDS Integers

CONSTANTS
    Daemon,     \* bound: the daemons of this plant, first and respawned
    Client,     \* bound: the water commands under way at a time
    Gaps,       \* bound: the minutes that pass between two looks at the clock
    Absent,     \* there is no state file
    Empty       \* the state file has no contents

ASSUME GapsAssumption == Gaps \subseteq Nat \ {0}

VARIABLES
    file,       \* the contents of the state file
    mem,        \* a process's PlantStats
    pc          \* what a process does next

vars == <<file, mem, pc>>

Process == Daemon \cup Client

Phase == {"unborn", "load", "init", "loop", "read", "save", "write", "dead"}

Stats == [waterlevel : 0 .. 100, health : {h \in Int : h <= 100}, level : Nat]

Saved(f) == f \notin {Absent, Empty}

Lower(a, b) == IF a < b THEN a ELSE b

\* waterlevel after so many minutes
Drained(water, minutes) == IF water < 5 * minutes THEN 0 ELSE water - 5 * minutes

NewPlant == [waterlevel |-> 100, health |-> 100, level |-> 1]

Poured_Unbounded(plant) == [plant EXCEPT !.waterlevel = @ + 20]

Poured(plant) == [plant EXCEPT !.waterlevel = Lower(@ + 20, 100)]

Health_NoWither(water, health) == IF water > 80 /\ health < 100 THEN health + 1 ELSE health

Health(water, health) ==
    IF water = 0 THEN health - 5
    ELSE IF water > 80 /\ health < 100 THEN health + 1 ELSE health

LevelsUp_AtLeast(water, health) == health > 95 /\ water >= 95

LevelsUp(water, health) == health > 95 /\ water > 95

\* One plant cycle of daemon_work.
Aged(plant, minutes) ==
    LET water == Drained(plant.waterlevel, minutes)
        health == Health(water, plant.health)
    IN [waterlevel |-> water, health |-> health,
        level |-> plant.level + (IF LevelsUp(water, health) THEN 1 ELSE 0)]

-------------------------------------------------------------------------------
Init ==
    /\ file = Absent
    /\ mem = [p \in Process |-> NewPlant]
    /\ pc = [p \in Process |-> "unborn"]

Goto(p, phase) == pc' = [pc EXCEPT ![p] = phase]

\* The process ends, and its memory with it.  A water command may be run again.
End(p) ==
    /\ Goto(p, IF p \in Daemon THEN "dead" ELSE "unborn")
    /\ mem' = [mem EXCEPT ![p] = NewPlant]

Living == {d \in Daemon : pc[d] \notin {"unborn", "dead"}}

\* open with O_TRUNC, with the new state already in memory.
Truncate(p, plant) ==
    /\ mem' = [mem EXCEPT ![p] = plant]
    /\ file' = Empty
    /\ Goto(p, "write")

\* dplant <name>, or dplant <name> respawn.
Start(d) ==
    /\ pc[d] = "unborn" /\ Living = {}
    /\ Goto(d, "load")
    /\ UNCHANGED <<file, mem>>

\* plant_load: a file that is missing or too short gives a new plant.
plant_load(d) ==
    /\ pc[d] = "load"
    /\ Goto(d, IF Saved(file) THEN "loop" ELSE "init")
    /\ mem' = [mem EXCEPT ![d] = IF Saved(file) THEN file ELSE @]
    /\ UNCHANGED file

plant_init_state(d) ==
    /\ pc[d] = "init"
    /\ Truncate(d, NewPlant)

\* At the top of daemon_work's loop a minute or more has passed ...
Cycle(d) ==
    /\ pc[d] = "loop"
    /\ \E minutes \in Gaps : Truncate(d, Aged(mem[d], minutes))

\* ... or not, and a plant that was loaded with no health left dies at once.
plant_died(d) ==
    /\ pc[d] = "loop" /\ mem[d].health <= 0
    /\ End(d)
    /\ UNCHANGED file

\* The rest of plant_save or plant_init_state, and of the loop's body.
DaemonWrite(d) ==
    /\ pc[d] = "write"
    /\ file' = mem[d]
    /\ IF mem[d].health <= 0 THEN End(d) ELSE UNCHANGED mem /\ Goto(d, "loop")

\* SIGTERM from dkill.
Kill(d) ==
    /\ d \in Living
    /\ End(d)
    /\ UNCHANGED file

-------------------------------------------------------------------------------
(* dplant <name> water *)

\* is_plant_running: a plant without a daemon is refused.
Water(c) ==
    /\ pc[c] = "unborn" /\ Living # {}
    /\ Goto(c, "read")
    /\ UNCHANGED <<file, mem>>

\* plant_water reads the file; one that is missing or too short ends it.
WaterRead(c) ==
    /\ pc[c] = "read"
    /\ IF Saved(file)
       THEN mem' = [mem EXCEPT ![c] = Poured(file)] /\ Goto(c, "save")
       ELSE End(c)
    /\ UNCHANGED file

WaterSave(c) ==
    /\ pc[c] = "save"
    /\ Truncate(c, mem[c])

WaterWrite(c) ==
    /\ pc[c] = "write"
    /\ file' = mem[c]
    /\ End(c)

-------------------------------------------------------------------------------
Next ==
    \/ \E d \in Daemon : \/ Start(d) \/ plant_load(d) \/ plant_init_state(d)
                         \/ Cycle(d) \/ plant_died(d) \/ DaemonWrite(d) \/ Kill(d)
    \/ \E c \in Client : Water(c) \/ WaterRead(c) \/ WaterSave(c) \/ WaterWrite(c)

Spec == Init /\ [][Next]_vars

\* A process that can go on does, and minutes pass.  Nothing makes anybody start,
\* kill or water a plant.
Fairness ==
    /\ \A d \in Daemon : /\ WF_vars(plant_load(d)) /\ WF_vars(plant_init_state(d))
                         /\ WF_vars(Cycle(d)) /\ WF_vars(DaemonWrite(d))
    /\ \A c \in Client : WF_vars(WaterRead(c)) /\ WF_vars(WaterSave(c)) /\ WF_vars(WaterWrite(c))

FairSpec == Spec /\ Fairness

-------------------------------------------------------------------------------
(* Properties *)

\* The water of a plant stays within 0 and 100 and its health at 100 or less,
\* whoever writes the file.
TypeOK ==
    /\ file \in Stats \cup {Absent, Empty}
    /\ mem \in [Process -> Stats]
    /\ pc \in [Process -> Phase]

\* A plant never rises above level 1: a cycle takes 5 from a waterlevel of at
\* most 100 before it asks whether more than 95 are left.
StaysAtLevelOne ==
    /\ \A p \in Process : mem[p].level = 1
    /\ Saved(file) => file.level = 1

\* Every daemon ends, however often its plant is watered: daemon_work never reads
\* the file again, so the water does not reach it.
PlantsWither == \A d \in Daemon : pc[d] = "load" ~> pc[d] = "dead"
===============================================================================
