--------------------------- MODULE PlantStateProofs ---------------------------
(***************************************************************************)
(* Proofs about PlantState, for any number of daemons and water commands   *)
(* and for any gaps: the bounds of a plant's stats and its level.          *)
(***************************************************************************)
EXTENDS PlantState, TLAPS

\* The two properties together are inductive: the level rests on the bound of the
\* water, which rests on what is in the file.
PlantInv == TypeOK /\ StaysAtLevelOne

\* What a process may hold in memory: stats in their bounds, at level 1.
Sound(plant) == plant \in Stats /\ plant.level = 1

\* A new plant is sound.
LEMMA NewPlantSound == Sound(NewPlant)
BY DEF NewPlant, Sound, Stats

\* Watering keeps stats within their bounds.
LEMMA PouredSound ==
    ASSUME NEW plant, Sound(plant)
    PROVE  Sound(Poured(plant))
<1>1. plant.waterlevel \in 0 .. 100 /\ plant.level = 1
  BY DEF Sound, Stats
<1>2. Lower(plant.waterlevel + 20, 100) \in 0 .. 100
  BY <1>1 DEF Lower
<1> QED
  BY <1>1, <1>2 DEF Sound, Poured, Stats

\* A cycle keeps stats within their bounds, and never raises the level: 5 at least
\* are gone before LevelsUp asks for more than 95.
LEMMA AgedSound ==
    ASSUME NEW plant, Sound(plant), NEW minutes \in Gaps
    PROVE  Sound(Aged(plant, minutes))
<1> DEFINE water == Drained(plant.waterlevel, minutes)
           health == Health(water, plant.health)
<1>1. plant.waterlevel \in 0 .. 100 /\ plant.health \in Int /\ plant.health <= 100
        /\ plant.level = 1
  BY DEF Sound, Stats
<1>2. minutes \in Nat /\ minutes >= 1
  BY GapsAssumption
<1>3. water \in 0 .. 95
  BY <1>1, <1>2 DEF Drained
<1>4. health \in Int /\ health <= 100
  <2> HIDE DEF water
  <2> QED BY <1>1, <1>3 DEF Health
<1>5. ~LevelsUp(water, health)
  <2> HIDE DEF water, health
  <2> QED BY <1>3 DEF LevelsUp
<1>6. Aged(plant, minutes) = [waterlevel |-> water, health |-> health, level |-> 1]
  <2>1. Aged(plant, minutes)
          = [waterlevel |-> water, health |-> health,
             level |-> plant.level + (IF LevelsUp(water, health) THEN 1 ELSE 0)]
    BY DEF Aged
  <2> QED BY <2>1, <1>1, <1>5
<1> HIDE DEF water, health
<1> QED
  BY <1>3, <1>4, <1>6 DEF Sound, Stats

\* PlantInv holds at the start.
LEMMA InitPlantInv == Init => PlantInv
<1> SUFFICES ASSUME Init PROVE PlantInv
  OBVIOUS
<1>1. mem \in [Process -> Stats] /\ \A p \in Process : mem[p].level = 1
  BY NewPlantSound DEF Init, Sound
<1>2. pc \in [Process -> Phase]
  BY DEF Init, Phase
<1>3. file = Absent
  BY DEF Init
<1>4. TypeOK
  BY <1>1, <1>2, <1>3 DEF TypeOK
<1>5. StaysAtLevelOne
  BY <1>1, <1>3 DEF StaysAtLevelOne, Saved
<1> QED
  BY <1>4, <1>5 DEF PlantInv

\* The part of PlantInv that a step may disturb, when what it writes is sound.
LEMMA WritesSound ==
    ASSUME PlantInv, NEW p \in Process, NEW plant, Sound(plant),
           mem' = mem \/ mem' = [mem EXCEPT ![p] = plant],
           file' = file \/ file' = Empty \/ file' = mem[p]
    PROVE  /\ mem' \in [Process -> Stats] /\ file' \in Stats \cup {Absent, Empty}
           /\ StaysAtLevelOne'
<1>1. mem \in [Process -> Stats] /\ \A q \in Process : mem[q].level = 1
  BY DEF PlantInv, TypeOK, StaysAtLevelOne
<1>2. mem' \in [Process -> Stats] /\ \A q \in Process : mem'[q].level = 1
  BY <1>1 DEF Sound
<1>3. file' \in Stats \cup {Absent, Empty} /\ (Saved(file') => file'.level = 1)
  BY <1>1 DEF PlantInv, TypeOK, StaysAtLevelOne, Saved
<1> QED
  BY <1>2, <1>3 DEF StaysAtLevelOne

\* Every step keeps PlantInv.
LEMMA NextPlantInv == PlantInv /\ [Next]_vars => PlantInv'
<1> SUFFICES ASSUME PlantInv, [Next]_vars PROVE PlantInv'
  OBVIOUS
<1>1. mem \in [Process -> Stats] /\ pc \in [Process -> Phase]
        /\ \A p \in Process : Sound(mem[p])
  BY DEF PlantInv, TypeOK, StaysAtLevelOne, Sound
<1>2. Saved(file) => Sound(file)
  BY DEF PlantInv, TypeOK, StaysAtLevelOne, Sound, Saved
<1>3. ASSUME NEW p \in Process, NEW plant, Sound(plant),
             mem' = mem \/ mem' = [mem EXCEPT ![p] = plant],
             file' = file \/ file' = Empty \/ file' = mem[p],
             pc' \in [Process -> Phase]
      PROVE  PlantInv'
  <2>1. mem' \in [Process -> Stats] /\ file' \in Stats \cup {Absent, Empty} /\ StaysAtLevelOne'
    BY <1>3, WritesSound
  <2> QED
    BY <2>1, <1>3 DEF PlantInv, TypeOK
<1>4. ASSUME NEW p \in Process, NEW phase \in Phase, Goto(p, phase)
      PROVE  pc' \in [Process -> Phase]
  BY <1>1, <1>4 DEF Goto
<1>5. ASSUME NEW p \in Process, End(p)
      PROVE  pc' \in [Process -> Phase] /\ mem' = [mem EXCEPT ![p] = NewPlant]
  BY <1>4, <1>5 DEF End, Phase
<1>6. CASE UNCHANGED vars
  BY <1>6 DEF PlantInv, TypeOK, StaysAtLevelOne, Saved, vars
<1>7. ASSUME NEW d \in Daemon,
             \/ Start(d) \/ plant_load(d) \/ plant_init_state(d)
             \/ Cycle(d) \/ plant_died(d) \/ DaemonWrite(d) \/ Kill(d)
      PROVE  PlantInv'
  <2>1. d \in Process
    BY DEF Process
  <2>2. CASE Start(d)
    BY <1>1, <1>3, <1>4, <2>1, <2>2, NewPlantSound DEF Start, Phase
  <2>3. CASE plant_load(d)
    <3>1. CASE Saved(file)
      BY <1>1, <1>2, <1>3, <1>4, <2>1, <2>3, <3>1 DEF plant_load, Phase
    <3>2. CASE ~Saved(file)
      BY <1>1, <1>3, <1>4, <2>1, <2>3, <3>2 DEF plant_load, Phase
    <3> QED BY <3>1, <3>2
  <2>4. CASE plant_init_state(d)
    BY <1>1, <1>3, <1>4, <2>1, <2>4, NewPlantSound DEF plant_init_state, Truncate, Phase
  <2>5. CASE Cycle(d)
    <3>1. PICK minutes \in Gaps : Truncate(d, Aged(mem[d], minutes))
      BY <2>5 DEF Cycle
    <3>2. Sound(Aged(mem[d], minutes))
      BY <1>1, <2>1, AgedSound
    <3>3. pc' \in [Process -> Phase]
      BY <1>4, <2>1, <3>1 DEF Truncate, Phase
    <3> QED
      BY <1>3, <2>1, <3>1, <3>2, <3>3 DEF Truncate
  <2>6. CASE plant_died(d)
    BY <1>1, <1>3, <1>5, <2>1, <2>6, NewPlantSound DEF plant_died
  <2>7. CASE DaemonWrite(d)
    <3>1. CASE mem[d].health <= 0
      BY <1>1, <1>3, <1>5, <2>1, <2>7, <3>1, NewPlantSound DEF DaemonWrite
    <3>2. CASE ~(mem[d].health <= 0)
      BY <1>1, <1>3, <1>4, <2>1, <2>7, <3>2, NewPlantSound DEF DaemonWrite, Phase
    <3> QED BY <3>1, <3>2
  <2>8. CASE Kill(d)
    BY <1>1, <1>3, <1>5, <2>1, <2>8, NewPlantSound DEF Kill
  <2> QED
    BY <1>7, <2>2, <2>3, <2>4, <2>5, <2>6, <2>7, <2>8
<1>8. ASSUME NEW c \in Client, Water(c) \/ WaterRead(c) \/ WaterSave(c) \/ WaterWrite(c)
      PROVE  PlantInv'
  <2>1. c \in Process
    BY DEF Process
  <2>2. CASE Water(c)
    BY <1>1, <1>3, <1>4, <2>1, <2>2, NewPlantSound DEF Water, Phase
  <2>3. CASE WaterRead(c)
    <3>1. CASE Saved(file)
      BY <1>1, <1>2, <1>3, <1>4, <2>1, <2>3, <3>1, PouredSound DEF WaterRead, Phase
    <3>2. CASE ~Saved(file)
      BY <1>1, <1>3, <1>5, <2>1, <2>3, <3>2, NewPlantSound DEF WaterRead
    <3> QED BY <3>1, <3>2
  <2>4. CASE WaterSave(c)
    BY <1>1, <1>3, <1>4, <2>1, <2>4 DEF WaterSave, Truncate, Phase
  <2>5. CASE WaterWrite(c)
    BY <1>1, <1>3, <1>5, <2>1, <2>5, NewPlantSound DEF WaterWrite
  <2> QED
    BY <1>8, <2>2, <2>3, <2>4, <2>5
<1> QED
  BY <1>6, <1>7, <1>8 DEF Next

\* However daemons, kills and waterings interleave, a plant's water stays within
\* 0 and 100 and its health at most 100, in memory and in the file.
THEOREM StatsInBounds == Spec => []TypeOK
<1>1. PlantInv => TypeOK
  BY DEF PlantInv
<1> QED
  BY InitPlantInv, NextPlantInv, <1>1, PTL DEF Spec

\* ... and its level never rises: the level++ of daemon_work is never executed.
THEOREM LevelStays == Spec => []StaysAtLevelOne
<1>1. PlantInv => StaysAtLevelOne
  BY DEF PlantInv
<1> QED
  BY InitPlantInv, NextPlantInv, <1>1, PTL DEF Spec
===============================================================================
