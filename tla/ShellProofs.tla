----------------------------- MODULE ShellProofs -----------------------------
(***************************************************************************)
(* Proofs about Shell, for any command lines and any number of processes:  *)
(* the terminal is given back, keys reach the programs and not the shell,  *)
(* main frees what expand_alias allocated and nothing else, and the        *)
(* builtins keep the promises of Session.                                  *)
(***************************************************************************)
EXTENDS Shell, SequenceTheorems, WellFoundedInduction, TLAPS

Phase == {"main", "startup", "rc", "rcfork", "rcwait", "prompt", "fork", "wait", "gone"}
Early == {"main", "startup", "rc", "rcfork", "rcwait"}

\* The part of the state the proofs are about has its type.
ProcessOK ==
    /\ phase \in Phase
    /\ waiting \in Kid \cup {Nil}
    /\ kid \in [Kid -> KidState]
    /\ keys \in [Kid -> SUBSET Key]
    /\ sig \in [Key \cup {"TERM"} -> {"default", "catch", "ignore"}]
    /\ touched \in SUBSET Kid
    /\ spoilt \in BOOLEAN

\* What the shell does on signals, as far as it has come.
SignalsOK ==
    /\ phase \notin {"main", "gone"} => sig["TERM"] = "catch"
    /\ phase \notin {"main", "startup", "gone"} => \A s \in Key : sig[s] = "ignore"
    /\ \A k \in Kid : kid[k] \in {"run", "stopped", "seen"} => Key \subseteq keys[k]

\* Who may be between fork and restore_cooked, and who may have made the terminal raw:
\* only the program the shell waits for, unless the shell is gone.
ChildrenOK ==
    /\ \A k \in Kid : kid[k] = "forked" => phase = "gone" \/ (phase = "wait" /\ waiting = k)
    /\ \A k \in Kid : kid[k] = "cooked" =>
         phase = "gone" \/ (phase \in {"wait", "rcwait"} /\ waiting = k)
    /\ \A k \in touched :
         kid[k] = "run" /\ (phase = "gone" \/ (phase \in {"wait", "rcwait"} /\ waiting = k))

\* The settings, phase by phase.
SettingsOK ==
    /\ phase \in Early => orig = "zero" /\ (tty = "cooked" \/ touched # {})
    /\ phase \in {"prompt", "fork"} => orig = "cooked" /\ tty = "raw"
    /\ phase = "wait" =>
         /\ orig = "cooked" /\ waiting \in Kid
         /\ kid[waiting] = "forked" \/ tty = "cooked" \/ waiting \in touched
    /\ phase = "gone" => (tty = "cooked" /\ orig = "cooked") \/ orig = "zero"

TerminalInv == ProcessOK /\ SignalsOK /\ (~spoilt => ChildrenOK /\ SettingsOK)

\* TerminalInv holds at the start.
LEMMA InitTerminal == Init => TerminalInv
<1> SUFFICES ASSUME Init PROVE TerminalInv
  OBVIOUS
<1>1. ProcessOK
  BY DEF Init, ProcessOK, Phase, KidState, Key
<1>2. SignalsOK
  BY DEF Init, SignalsOK
<1>3. ChildrenOK
  BY DEF Init, ChildrenOK
<1>4. SettingsOK
  BY DEF Init, SettingsOK, Early
<1> QED
  BY <1>1, <1>2, <1>3, <1>4 DEF TerminalInv

\* Every step keeps the types.
LEMMA StepProcess ==
    ASSUME ProcessOK, [Next]_vars
    PROVE  ProcessOK'
<1>1. CASE Handlers
  BY <1>1 DEF Handlers, kids, terminal, ProcessOK, Phase, KidState, Key
<1>2. CASE Startup
  BY <1>2 DEF Startup, tty_disable_ctrl_c, kids, terminal, ProcessOK, Phase, KidState,
         Key
<1>3. CASE Fork
  BY <1>3 DEF Fork, Wait, terminal, ProcessOK, Phase, KidState, Key
<1>4. CASE ForkFails
  BY <1>4 DEF ForkFails, Wait, kids, ProcessOK, Phase, KidState, Key
<1>5. CASE ChildReturns
  BY <1>5, ShellAssumption DEF ChildReturns, waitpid, line_raw_init, ProcessOK, Phase,
         KidState, Key
<1>6. CASE RcChildReturns
  BY <1>6, ShellAssumption DEF RcChildReturns, waitpid, terminal, ProcessOK, Phase,
         KidState, Key
<1>7. CASE run_rc
  BY <1>7 DEF run_rc, Run, Exit, restore, kids, ProcessOK, Phase, KidState, Key
<1>8. CASE RcEnds
  BY <1>8 DEF RcEnds, line_raw_init, kids, ProcessOK, Phase, KidState, Key
<1>9. CASE Command
  BY <1>9 DEF Command, Run, Exit, restore, kids, ProcessOK, Phase, KidState, Key
<1>10. CASE EndOfInput
  BY <1>10 DEF EndOfInput, Exit, restore, kids, ProcessOK, Phase, KidState, Key
<1>11. CASE Terminate
  BY <1>11 DEF Terminate, Deliver, Exit, restore, kids, ProcessOK, Phase, KidState,
         Key
<1>12. ASSUME NEW s \in Key, Press(s) PROVE ProcessOK'
  BY <1>12 DEF Press, Deliver, Exit, restore, ProcessOK, Phase, KidState, Key
<1>13. ASSUME NEW k \in Kid, RestoreCooked(k) PROVE ProcessOK'
  BY <1>13 DEF RestoreCooked, restore, rest, ProcessOK, Phase, KidState, Key
<1>14. ASSUME NEW k \in Kid, Exec(k) PROVE ProcessOK'
  BY <1>14 DEF Exec, rest, tty_restore_ctrl_c, terminal, ProcessOK, Phase, KidState,
         Key
<1>15. ASSUME NEW k \in Kid, TermChild(k) PROVE ProcessOK'
  BY <1>15 DEF TermChild, restore, rest, ProcessOK, Phase, KidState, Key
<1>16. ASSUME NEW k \in Kid, SetTerminal(k) PROVE ProcessOK'
  BY <1>16 DEF SetTerminal, rest, kids, ProcessOK, Phase, KidState, Key
<1>17. ASSUME NEW k \in Kid, Rmdir(k) PROVE ProcessOK'
  BY <1>17 DEF Rmdir, rest, kids, terminal, ProcessOK, Phase, KidState, Key
<1>18. ASSUME NEW k \in Kid, Leave(k) PROVE ProcessOK'
  BY <1>18 DEF Leave, rest, ProcessOK, Phase, KidState, Key
<1>19. ASSUME NEW k \in Kid, Continue(k) PROVE ProcessOK'
  BY <1>19 DEF Continue, rest, terminal, ProcessOK, Phase, KidState, Key
<1>20. CASE UNCHANGED vars
  BY <1>20 DEF vars, process, kids, terminal, command, session,
         ProcessOK, Phase, KidState, Key
<1> QED
  BY <1>1, <1>2, <1>3, <1>4, <1>5, <1>6, <1>7, <1>8, <1>9, <1>10, <1>11, <1>12, <1>13, <1>14,
     <1>15, <1>16, <1>17, <1>18, <1>19, <1>20
  DEF Next, ShellStep, ChildStep

\* Every step keeps the signals as they are meant to be.
LEMMA StepSignals ==
    ASSUME ProcessOK, SignalsOK, [Next]_vars
    PROVE  SignalsOK'
<1>1. CASE Handlers
  BY <1>1 DEF Handlers, kids, terminal, ProcessOK, SignalsOK, Phase, Key
<1>2. CASE Startup
  BY <1>2 DEF Startup, tty_disable_ctrl_c, kids, terminal, ProcessOK, SignalsOK,
         Phase, Key
<1>3. CASE Fork
  BY <1>3 DEF Fork, Wait, terminal, ProcessOK, SignalsOK, Phase, Key
<1>4. CASE ForkFails
  BY <1>4 DEF ForkFails, Wait, kids, ProcessOK, SignalsOK, Phase, Key
<1>5. CASE ChildReturns
  BY <1>5, ShellAssumption DEF ChildReturns, waitpid, line_raw_init, ProcessOK,
         SignalsOK, Phase, Key
<1>6. CASE RcChildReturns
  BY <1>6, ShellAssumption DEF RcChildReturns, waitpid, terminal, ProcessOK,
         SignalsOK, Phase, Key
<1>7. CASE run_rc
  BY <1>7 DEF run_rc, Run, Exit, restore, kids, ProcessOK, SignalsOK, Phase, Key
<1>8. CASE RcEnds
  BY <1>8 DEF RcEnds, line_raw_init, kids, ProcessOK, SignalsOK, Phase, Key
<1>9. CASE Command
  BY <1>9 DEF Command, Run, Exit, restore, kids, ProcessOK, SignalsOK, Phase, Key
<1>10. CASE EndOfInput
  BY <1>10 DEF EndOfInput, Exit, restore, kids, ProcessOK, SignalsOK, Phase, Key
<1>11. CASE Terminate
  BY <1>11 DEF Terminate, Deliver, Exit, restore, kids, ProcessOK, SignalsOK, Phase,
         Key
<1>12. ASSUME NEW s \in Key, Press(s) PROVE SignalsOK'
  BY <1>12 DEF Press, Deliver, Exit, restore, ProcessOK, SignalsOK, Phase, Key
<1>13. ASSUME NEW k \in Kid, RestoreCooked(k) PROVE SignalsOK'
  BY <1>13 DEF RestoreCooked, restore, rest, ProcessOK, SignalsOK, Phase, Key
<1>14. ASSUME NEW k \in Kid, Exec(k) PROVE SignalsOK'
  BY <1>14 DEF Exec, rest, tty_restore_ctrl_c, terminal, ProcessOK, SignalsOK, Phase,
         Key
<1>15. ASSUME NEW k \in Kid, TermChild(k) PROVE SignalsOK'
  BY <1>15 DEF TermChild, restore, rest, ProcessOK, SignalsOK, Phase, Key
<1>16. ASSUME NEW k \in Kid, SetTerminal(k) PROVE SignalsOK'
  BY <1>16 DEF SetTerminal, rest, kids, ProcessOK, SignalsOK, Phase, Key
<1>17. ASSUME NEW k \in Kid, Rmdir(k) PROVE SignalsOK'
  BY <1>17 DEF Rmdir, rest, kids, terminal, ProcessOK, SignalsOK, Phase, Key
<1>18. ASSUME NEW k \in Kid, Leave(k) PROVE SignalsOK'
  BY <1>18 DEF Leave, rest, ProcessOK, SignalsOK, Phase, Key
<1>19. ASSUME NEW k \in Kid, Continue(k) PROVE SignalsOK'
  BY <1>19 DEF Continue, rest, terminal, ProcessOK, SignalsOK, Phase, Key
<1>20. CASE UNCHANGED vars
  BY <1>20 DEF vars, process, kids, terminal, command, session,
         ProcessOK, SignalsOK, Phase, Key
<1> QED
  BY <1>1, <1>2, <1>3, <1>4, <1>5, <1>6, <1>7, <1>8, <1>9, <1>10, <1>11, <1>12, <1>13, <1>14,
     <1>15, <1>16, <1>17, <1>18, <1>19, <1>20
  DEF Next, ShellStep, ChildStep

\* As long as nothing spoils the terminal, only the program waited for may have changed it.
LEMMA StepChildren ==
    ASSUME TerminalInv, ~spoilt', [Next]_vars
    PROVE  ChildrenOK'
<1>1. CASE Handlers
  BY <1>1 DEF Handlers, kids, terminal, ProcessOK, SignalsOK, Phase, Key, KidState,
         ChildrenOK, TerminalInv
<1>2. CASE Startup
  BY <1>2 DEF Startup, tty_disable_ctrl_c, kids, terminal, ProcessOK, SignalsOK,
         Phase, Key, KidState, ChildrenOK, TerminalInv
<1>3. CASE Fork
  BY <1>3 DEF Fork, Wait, terminal, ProcessOK, SignalsOK, Phase, Key, KidState,
         ChildrenOK, TerminalInv
<1>4. CASE ForkFails
  BY <1>4 DEF ForkFails, Wait, kids, ProcessOK, SignalsOK, Phase, Key, KidState,
         ChildrenOK, TerminalInv
<1>5. CASE ChildReturns
  BY <1>5, ShellAssumption DEF ChildReturns, waitpid, line_raw_init, ProcessOK,
         SignalsOK, Phase, Key, KidState, ChildrenOK, TerminalInv
<1>6. CASE RcChildReturns
  BY <1>6, ShellAssumption DEF RcChildReturns, waitpid, terminal, ProcessOK,
         SignalsOK, Phase, Key, KidState, ChildrenOK, TerminalInv
<1>7. CASE run_rc
  BY <1>7 DEF run_rc, Run, Exit, restore, kids, ProcessOK, SignalsOK, Phase, Key,
         KidState, ChildrenOK, TerminalInv
<1>8. CASE RcEnds
  BY <1>8 DEF RcEnds, line_raw_init, kids, ProcessOK, SignalsOK, Phase, Key, KidState,
         ChildrenOK, TerminalInv
<1>9. CASE Command
  BY <1>9 DEF Command, Run, Exit, restore, kids, ProcessOK, SignalsOK, Phase, Key,
         KidState, ChildrenOK, TerminalInv
<1>10. CASE EndOfInput
  BY <1>10 DEF EndOfInput, Exit, restore, kids, ProcessOK, SignalsOK, Phase, Key,
         KidState, ChildrenOK, TerminalInv
<1>11. CASE Terminate
  BY <1>11 DEF Terminate, Deliver, Exit, restore, kids, ProcessOK, SignalsOK, Phase,
         Key, KidState, ChildrenOK, TerminalInv
<1>12. ASSUME NEW s \in Key, Press(s) PROVE ChildrenOK'
  BY <1>12 DEF Press, Deliver, Exit, restore, ProcessOK, SignalsOK, Phase, Key,
         KidState, ChildrenOK, TerminalInv
<1>13. ASSUME NEW k \in Kid, RestoreCooked(k) PROVE ChildrenOK'
  BY <1>13 DEF RestoreCooked, restore, rest, ProcessOK, SignalsOK, Phase, Key,
         KidState, ChildrenOK, TerminalInv
<1>14. ASSUME NEW k \in Kid, Exec(k) PROVE ChildrenOK'
  BY <1>14 DEF Exec, rest, tty_restore_ctrl_c, terminal, ProcessOK, SignalsOK, Phase,
         Key, KidState, ChildrenOK, TerminalInv
<1>15. ASSUME NEW k \in Kid, TermChild(k) PROVE ChildrenOK'
  BY <1>15 DEF TermChild, restore, rest, ProcessOK, SignalsOK, Phase, Key, KidState,
         ChildrenOK, TerminalInv
<1>16. ASSUME NEW k \in Kid, SetTerminal(k) PROVE ChildrenOK'
  BY <1>16 DEF SetTerminal, rest, kids, ProcessOK, SignalsOK, Phase, Key, KidState,
         ChildrenOK, TerminalInv
<1>17. ASSUME NEW k \in Kid, Rmdir(k) PROVE ChildrenOK'
  BY <1>17 DEF Rmdir, rest, kids, terminal, ProcessOK, SignalsOK, Phase, Key,
         KidState, ChildrenOK, TerminalInv
<1>18. ASSUME NEW k \in Kid, Leave(k) PROVE ChildrenOK'
  BY <1>18 DEF Leave, rest, ProcessOK, SignalsOK, Phase, Key, KidState, ChildrenOK,
         TerminalInv
<1>19. ASSUME NEW k \in Kid, Continue(k) PROVE ChildrenOK'
  BY <1>19 DEF Continue, rest, terminal, ProcessOK, SignalsOK, Phase, Key, KidState,
         ChildrenOK, TerminalInv
<1>20. CASE UNCHANGED vars
  BY <1>20 DEF vars, process, kids, terminal, command, session,
         ProcessOK, SignalsOK, Phase, Key, KidState, ChildrenOK, TerminalInv
<1> QED
  BY <1>1, <1>2, <1>3, <1>4, <1>5, <1>6, <1>7, <1>8, <1>9, <1>10, <1>11, <1>12, <1>13, <1>14,
     <1>15, <1>16, <1>17, <1>18, <1>19, <1>20
  DEF Next, ShellStep, ChildStep

\* As long as nothing spoils the terminal, its settings and the saved ones go with the
\* phase.  ChildReturns is the step that matters: it saves what the program left.
LEMMA StepSettings ==
    ASSUME TerminalInv, ~spoilt', [Next]_vars
    PROVE  SettingsOK'
<1>1. CASE Handlers
  BY <1>1 DEF Handlers, kids, terminal, ProcessOK, SignalsOK, Phase, Key, KidState,
         ChildrenOK, TerminalInv, SettingsOK, Early
<1>2. CASE Startup
  BY <1>2 DEF Startup, tty_disable_ctrl_c, kids, terminal, ProcessOK, SignalsOK,
         Phase, Key, KidState, ChildrenOK, TerminalInv, SettingsOK, Early
<1>3. CASE Fork
  BY <1>3 DEF Fork, Wait, terminal, ProcessOK, SignalsOK, Phase, Key, KidState,
         ChildrenOK, TerminalInv, SettingsOK, Early
<1>4. CASE ForkFails
  <2>1. ~spoilt /\ phase # "fork"
    BY <1>4, Zenon DEF ForkFails
  <2>2. phase \in {"fork", "rcfork"} /\ phase' = Wait[phase]
    BY <1>4 DEF ForkFails, Wait
  <2>3. phase = "rcfork" /\ phase' = "rcwait"
    BY <2>1, <2>2 DEF Wait
  <2>4. UNCHANGED <<tty, orig, touched>>
    BY <1>4 DEF ForkFails
  <2> QED
    BY <2>1, <2>3, <2>4 DEF SettingsOK, Early, TerminalInv
<1>5. CASE ChildReturns
  BY <1>5, ShellAssumption DEF ChildReturns, waitpid, line_raw_init, Raw, ProcessOK,
         SignalsOK, Phase, Key, KidState, ChildrenOK, TerminalInv, SettingsOK, Early
<1>6. CASE RcChildReturns
  BY <1>6, ShellAssumption DEF RcChildReturns, waitpid, terminal, ProcessOK,
         SignalsOK, Phase, Key, KidState, ChildrenOK, TerminalInv, SettingsOK, Early
<1>7. CASE run_rc
  BY <1>7 DEF run_rc, Run, Exit, restore, kids, ProcessOK, SignalsOK, Phase, Key,
         KidState, ChildrenOK, TerminalInv, SettingsOK, Early
<1>8. CASE RcEnds
  BY <1>8 DEF RcEnds, line_raw_init, kids, Raw, ProcessOK, SignalsOK, Phase, Key,
         KidState, ChildrenOK, TerminalInv, SettingsOK, Early
<1>9. CASE Command
  BY <1>9 DEF Command, Run, Exit, restore, kids, ProcessOK, SignalsOK, Phase, Key,
         KidState, ChildrenOK, TerminalInv, SettingsOK, Early
<1>10. CASE EndOfInput
  BY <1>10 DEF EndOfInput, Exit, restore, kids, ProcessOK, SignalsOK, Phase, Key,
         KidState, ChildrenOK, TerminalInv, SettingsOK, Early
<1>11. CASE Terminate
  BY <1>11 DEF Terminate, Deliver, Exit, restore, kids, ProcessOK, SignalsOK, Phase,
         Key, KidState, ChildrenOK, TerminalInv, SettingsOK, Early
<1>12. ASSUME NEW s \in Key, Press(s) PROVE SettingsOK'
  BY <1>12 DEF Press, Deliver, Exit, restore, ProcessOK, SignalsOK, Phase, Key,
         KidState, ChildrenOK, TerminalInv, SettingsOK, Early
<1>13. ASSUME NEW k \in Kid, RestoreCooked(k) PROVE SettingsOK'
  BY <1>13 DEF RestoreCooked, restore, rest, ProcessOK, SignalsOK, Phase, Key,
         KidState, ChildrenOK, TerminalInv, SettingsOK, Early
<1>14. ASSUME NEW k \in Kid, Exec(k) PROVE SettingsOK'
  BY <1>14 DEF Exec, rest, tty_restore_ctrl_c, terminal, ProcessOK, SignalsOK, Phase,
         Key, KidState, ChildrenOK, TerminalInv, SettingsOK, Early
<1>15. ASSUME NEW k \in Kid, TermChild(k) PROVE SettingsOK'
  BY <1>15 DEF TermChild, restore, rest, ProcessOK, SignalsOK, Phase, Key, KidState,
         ChildrenOK, TerminalInv, SettingsOK, Early
<1>16. ASSUME NEW k \in Kid, SetTerminal(k) PROVE SettingsOK'
  BY <1>16 DEF SetTerminal, rest, kids, ProcessOK, SignalsOK, Phase, Key, KidState,
         ChildrenOK, TerminalInv, SettingsOK, Early
<1>17. ASSUME NEW k \in Kid, Rmdir(k) PROVE SettingsOK'
  BY <1>17 DEF Rmdir, rest, kids, terminal, ProcessOK, SignalsOK, Phase, Key,
         KidState, ChildrenOK, TerminalInv, SettingsOK, Early
<1>18. ASSUME NEW k \in Kid, Leave(k) PROVE SettingsOK'
  BY <1>18 DEF Leave, rest, ProcessOK, SignalsOK, Phase, Key, KidState, ChildrenOK,
         TerminalInv, SettingsOK, Early
<1>19. ASSUME NEW k \in Kid, Continue(k) PROVE SettingsOK'
  BY <1>19 DEF Continue, rest, terminal, ProcessOK, SignalsOK, Phase, Key, KidState,
         ChildrenOK, TerminalInv, SettingsOK, Early
<1>20. CASE UNCHANGED vars
  BY <1>20 DEF vars, process, kids, terminal, command, session,
         ProcessOK, SignalsOK, Phase, Key, KidState, ChildrenOK, TerminalInv, SettingsOK, Early
<1> QED
  BY <1>1, <1>2, <1>3, <1>4, <1>5, <1>6, <1>7, <1>8, <1>9, <1>10, <1>11, <1>12, <1>13, <1>14,
     <1>15, <1>16, <1>17, <1>18, <1>19, <1>20
  DEF Next, ShellStep, ChildStep

\* While argv may still be freed, the flag says whether it is a copy.
FlagInv == phase \in {"fork", "wait"} => (argv_allocated <=> owner = "heap")

\* Every step keeps FlagInv: expand_alias sets the flag before any fork.
LEMMA StepFlag ==
    ASSUME FlagInv, [Next]_vars
    PROVE  FlagInv'
<1>1. CASE Handlers
  BY <1>1 DEF Handlers, command, FlagInv
<1>2. CASE Startup
  BY <1>2 DEF Startup, tty_disable_ctrl_c, command, FlagInv
<1>3. CASE Fork
  BY <1>3 DEF Fork, Wait, command, FlagInv
<1>4. CASE ForkFails
  BY <1>4 DEF ForkFails, Wait, command, FlagInv
<1>5. CASE ChildReturns
  BY <1>5 DEF ChildReturns, waitpid, line_raw_init, FlagInv
<1>6. CASE RcChildReturns
  BY <1>6 DEF RcChildReturns, waitpid, command, FlagInv
<1>7. CASE run_rc
  BY <1>7 DEF run_rc, Run, Exit, restore, FlagInv
<1>8. CASE RcEnds
  BY <1>8 DEF RcEnds, line_raw_init, command, FlagInv
<1>9. CASE Command
  BY <1>9 DEF Command, Run, Exit, restore, expand_alias, FlagInv
<1>10. CASE EndOfInput
  BY <1>10 DEF EndOfInput, Exit, restore, command, FlagInv
<1>11. CASE Terminate
  BY <1>11 DEF Terminate, Deliver, Exit, restore, command, FlagInv
<1>12. ASSUME NEW s \in Key, Press(s) PROVE FlagInv'
  BY <1>12 DEF Press, Deliver, Exit, restore, command, FlagInv
<1>13. ASSUME NEW k \in Kid, RestoreCooked(k) PROVE FlagInv'
  BY <1>13 DEF RestoreCooked, restore, rest, command, FlagInv
<1>14. ASSUME NEW k \in Kid, Exec(k) PROVE FlagInv'
  BY <1>14 DEF Exec, rest, tty_restore_ctrl_c, command, FlagInv
<1>15. ASSUME NEW k \in Kid, TermChild(k) PROVE FlagInv'
  BY <1>15 DEF TermChild, restore, rest, command, FlagInv
<1>16. ASSUME NEW k \in Kid, SetTerminal(k) PROVE FlagInv'
  BY <1>16 DEF SetTerminal, rest, command, FlagInv
<1>17. ASSUME NEW k \in Kid, Rmdir(k) PROVE FlagInv'
  BY <1>17 DEF Rmdir, rest, command, FlagInv
<1>18. ASSUME NEW k \in Kid, Leave(k) PROVE FlagInv'
  BY <1>18 DEF Leave, rest, command, FlagInv
<1>19. ASSUME NEW k \in Kid, Continue(k) PROVE FlagInv'
  BY <1>19 DEF Continue, rest, command, FlagInv
<1>20. CASE UNCHANGED vars
  BY <1>20 DEF vars, process, kids, terminal, command, session,
         FlagInv
<1> QED
  BY <1>1, <1>2, <1>3, <1>4, <1>5, <1>6, <1>7, <1>8, <1>9, <1>10, <1>11, <1>12, <1>13, <1>14,
     <1>15, <1>16, <1>17, <1>18, <1>19, <1>20
  DEF Next, ShellStep, ChildStep

\* The inductive invariant holds throughout.
THEOREM TerminalInvariant == Spec => []TerminalInv
<1>1. Init => TerminalInv
  BY InitTerminal
<1>2. TerminalInv /\ [Next]_vars => TerminalInv'
  <2> SUFFICES ASSUME TerminalInv, [Next]_vars PROVE TerminalInv'
    OBVIOUS
  <2>1. ProcessOK /\ SignalsOK
    BY DEF TerminalInv
  <2>2. ProcessOK' /\ SignalsOK'
    BY <2>1, StepProcess, StepSignals
  <2>3. ASSUME ~spoilt' PROVE ChildrenOK' /\ SettingsOK'
    BY <2>3, StepChildren, StepSettings
  <2> QED
    BY <2>2, <2>3, Zenon DEF TerminalInv
<1> QED
  BY <1>1, <1>2, PTL DEF Spec

\* However many programs were run, stopped and continued, a shell that ends gives the
\* terminal back as it found it, unless it was spoilt or nothing had been saved.
THEOREM GivesTerminalBack == Spec => []TerminalGivenBack
<1>1. TerminalInv => TerminalGivenBack
  BY Zenon DEF TerminalInv, SettingsOK, TerminalGivenBack
<1> QED
  BY <1>1, TerminalInvariant, PTL

\* The keys pass a started shell by and reach each of its programs.
THEOREM KeysReachPrograms == Spec => []KeysHitPrograms
<1>1. TerminalInv => KeysHitPrograms
  BY DEF TerminalInv, SignalsOK, KeysHitPrograms
<1> QED
  BY <1>1, TerminalInvariant, PTL

\* What main frees behind fork_child is what expand_alias allocated.
THEOREM FreesOwnCopies == Spec => []FreesItsOwn
<1>1. Init => FlagInv
  BY DEF Init, FlagInv
<1>2. FlagInv /\ [Next]_vars => FlagInv'
  BY StepFlag
<1>3. FlagInv => FreesItsOwn
  BY Zenon DEF FlagInv, FreesItsOwn
<1> QED
  BY <1>1, <1>2, <1>3, PTL DEF Spec

--------------------------------------------------------------------------------
(* Commands of several arguments *)

\* What alias or setenv does with one argument.
Arg(builtin, st, w) == IF builtin = "alias" THEN alias_arg(st, w) ELSE setenv_arg(st, w)

\* f is the state after each set of the first n arguments.
Takes(f, n, builtin, st, words) ==
    f = [S \in SUBSET (1 .. n) |-> IF S = {} THEN st
            ELSE Arg(builtin, f[S \ {Max(S)}], words[Max(S)])]

\* A set of numbers has a least one.
LEMMA LeastExists ==
    ASSUME NEW T \in SUBSET Nat, T # {}
    PROVE  \E m \in T : \A n \in T : m <= n
<1>1. \E m \in T : \A n \in T : ~(<<n, m>> \in OpToRel(<, Nat))
  BY NatLessThanWellFounded, WFMin
<1>2. PICK m \in T : \A n \in T : ~(<<n, m>> \in OpToRel(<, Nat))
  BY <1>1
<1>3. ASSUME NEW n \in T PROVE m <= n
  <2>1. ~(n < m)
    BY <1>2 DEF OpToRel
  <2> QED BY <2>1
<1> QED
  BY <1>2, <1>3

\* The greatest of the numbers up to n, when n is among them.
LEMMA LastIsMax ==
    ASSUME NEW n \in Nat, NEW S \in SUBSET (1 .. n), n \in S
    PROVE  Max(S) = n
<1>1. \A y \in S : y \in Nat /\ n >= y
  OBVIOUS
<1>2. \A x \in S : (\A y \in S : x >= y) => x = n
  BY <1>1
<1> QED
  BY <1>1, <1>2 DEF Max

\* The recursion of the fold is well founded.
LEMMA TakesExists ==
    ASSUME NEW builtin, NEW st, NEW words, NEW n \in Nat
    PROVE  \E f : Takes(f, n, builtin, st, words)
<1> DEFINE D(f, m) == Takes(f, m, builtin, st, words)
           Bad == {m \in Nat : ~ \E f : D(f, m)}
<1>1. \E f : D(f, 0)
  <2> DEFINE f == [S \in SUBSET (1 .. 0) |-> st]
  <2>1. \A S \in SUBSET (1 .. 0) : S = {}
    OBVIOUS
  <2>2. D(f, 0)
    BY <2>1 DEF Takes
  <2> HIDE DEF D, f
  <2> QED BY <2>2
<1>2. ASSUME NEW m \in Nat \ {0}, \E f : D(f, m - 1)
      PROVE  \E f : D(f, m)
  <2>1. PICK f : D(f, m - 1)
    BY <1>2
  <2> DEFINE h == [S \in SUBSET (1 .. m) |->
                      IF m \in S THEN Arg(builtin, f[S \ {m}], words[m]) ELSE f[S]]
  <2>2. \A S \in SUBSET (1 .. m) : m \notin S => S \in SUBSET (1 .. m - 1)
    OBVIOUS
  <2>3. ASSUME NEW S \in SUBSET (1 .. m), m \in S
        PROVE  h[S] = Arg(builtin, h[S \ {Max(S)}], words[Max(S)])
    <3>1. Max(S) = m
      BY <2>3, LastIsMax
    <3>2. S \ {m} \in SUBSET (1 .. m) /\ m \notin S \ {m}
      OBVIOUS
    <3>3. h[S \ {m}] = f[S \ {m}]
      BY <3>2
    <3>4. h[S] = Arg(builtin, f[S \ {m}], words[m])
      BY <2>3
    <3> HIDE DEF h
    <3> QED BY <3>1, <3>3, <3>4
  <2>4. ASSUME NEW S \in SUBSET (1 .. m), m \notin S
        PROVE  h[S] = IF S = {} THEN st ELSE Arg(builtin, h[S \ {Max(S)}], words[Max(S)])
    <3>1. S \in SUBSET (1 .. m - 1) /\ h[S] = f[S]
      BY <2>2, <2>4
    <3>2. S \ {Max(S)} \in SUBSET (1 .. m) /\ m \notin S \ {Max(S)}
      BY <2>4
    <3>3. h[S \ {Max(S)}] = f[S \ {Max(S)}]
      BY <3>2
    <3>4. f[S] = IF S = {} THEN st ELSE Arg(builtin, f[S \ {Max(S)}], words[Max(S)])
      BY <2>1, <3>1 DEF Takes
    <3> HIDE DEF h
    <3> QED BY <3>1, <3>3, <3>4
  <2>5. h = [S \in SUBSET (1 .. m) |-> h[S]]
    OBVIOUS
  <2>6. \A S \in SUBSET (1 .. m) :
          h[S] = IF S = {} THEN st ELSE Arg(builtin, h[S \ {Max(S)}], words[Max(S)])
    <3> HIDE DEF h
    <3> QED BY <2>3, <2>4
  <2> HIDE DEF h
  <2>7. D(h, m)
    BY <2>5, <2>6, Zenon DEF Takes
  <2> HIDE DEF D
  <2> QED BY <2>7
<1> HIDE DEF D
<1>3. SUFFICES ASSUME Bad # {} PROVE FALSE
  BY DEF D
<1>4. PICK m \in Bad : \A k \in Bad : m <= k
  BY <1>3, LeastExists
<1>5. m \in Nat \ {0} /\ m - 1 \in Nat /\ ~(m <= m - 1)
  BY <1>1, <1>4
<1>6. \E f : D(f, m - 1)
  BY <1>4, <1>5
<1> QED
  BY <1>2, <1>4, <1>5, <1>6

\* r is what is made of st by the arguments, one after the other.
InTurn(r, n, builtin, st, words) ==
    /\ r[0] = st
    /\ \A m \in 1 .. n : r[m] = Arg(builtin, r[m - 1], words[m])

\* The arguments are taken one by one.
LEMMA OneByOne ==
    ASSUME NEW builtin, NEW st, NEW words, NEW n \in Nat, NEW f,
           Takes(f, n, builtin, st, words)
    PROVE  \E r : InTurn(r, n, builtin, st, words) /\ r[n] = f[1 .. n]
<1> DEFINE r == [m \in 0 .. n |-> f[1 .. m]]
<1>1. r[0] = st
  <2>1. 1 .. 0 = {} /\ 1 .. 0 \in SUBSET (1 .. n) /\ 0 \in 0 .. n
    OBVIOUS
  <2>2. f[1 .. 0] = st
    BY <2>1 DEF Takes
  <2> QED BY <2>1, <2>2
<1>2. ASSUME NEW m \in 1 .. n PROVE r[m] = Arg(builtin, r[m - 1], words[m])
  <2>1. m \in Nat /\ m \in 0 .. n /\ m - 1 \in 0 .. n /\ m \in 1 .. m
    OBVIOUS
  <2>2. 1 .. m \in SUBSET (1 .. n) /\ 1 .. m # {}
    <3>1. \A x \in 1 .. m : x \in 1 .. n
      BY <2>1
    <3> QED BY <2>1, <3>1
  <2>3. (1 .. m) \ {m} = 1 .. m - 1
    BY <2>1
  <2>4. Max(1 .. m) = m
    BY <2>1, LastIsMax
  <2>5. f[1 .. m] = Arg(builtin, f[(1 .. m) \ {Max(1 .. m)}], words[Max(1 .. m)])
    BY <2>2 DEF Takes
  <2> QED BY <2>1, <2>3, <2>4, <2>5
<1>3. r[n] = f[1 .. n]
  OBVIOUS
<1> HIDE DEF r
<1>4. InTurn(r, n, builtin, st, words)
  BY <1>1, <1>2 DEF InTurn
<1> QED
  BY <1>3, <1>4

--------------------------------------------------------------------------------
(* The list of aliases *)

Entry == [name : {Assign[w].name : w \in DOMAIN Assign}, value : Seq(Word)]

\* Every alias is in the list once.
AliasList(list) ==
    /\ list \in Seq(Entry)
    /\ \A i, j \in DOMAIN list : list[i].name = list[j].name => i = j

Has(list, n) == \E i \in DOMAIN list : list[i].name = n

\* What alias_lookup finds in a list.
Meaning(list, n) ==
    IF alias_find(list, n) = 0 THEN Nil ELSE list[alias_find(list, n)].value

\* A list of aliases is a sequence of entries.
LEMMA Entries ==
    ASSUME NEW list, AliasList(list)
    PROVE  /\ Len(list) \in Nat /\ DOMAIN list = 1 .. Len(list)
           /\ \A i \in DOMAIN list : list[i] \in Entry
  BY DEF AliasList

\* An alias is found where it is, and means what stands there.
LEMMA Finds ==
    ASSUME NEW list, AliasList(list), NEW n
    PROVE  /\ \A i \in DOMAIN list : list[i].name = n
                => /\ alias_find(list, n) = i
                   /\ Meaning(list, n) = list[i].value /\ Meaning(list, n) \in Seq(Word)
           /\ ~Has(list, n) => alias_find(list, n) = 0 /\ Meaning(list, n) = Nil
           /\ Has(list, n) <=> alias_find(list, n) # 0
           /\ Has(list, n) <=> Meaning(list, n) # Nil
<1> DEFINE I == {i \in 1 .. Len(list) : list[i].name = n}
<1>1. Len(list) \in Nat /\ DOMAIN list = 1 .. Len(list)
  BY Entries
<1>2. alias_find(list, n) = IF I # {} THEN Min(I) ELSE 0
  BY DEF alias_find, SelectInSeq
<1>3. ASSUME NEW i \in DOMAIN list, list[i].name = n
      PROVE  /\ alias_find(list, n) = i /\ i # 0
             /\ Meaning(list, n) = list[i].value /\ Meaning(list, n) \in Seq(Word)
  <2>1. I = {i} /\ i \in Nat
    BY <1>1, <1>3 DEF AliasList
  <2>2. Min(I) = i
    BY <2>1 DEF Min
  <2>3. alias_find(list, n) = i /\ i # 0
    BY <1>1, <1>2, <2>1, <2>2
  <2>4. Meaning(list, n) = list[i].value
    BY <2>3 DEF Meaning
  <2>5. list[i].value \in Seq(Word)
    <3>1. list[i] \in Entry
      BY Entries
    <3> QED BY <3>1 DEF Entry
  <2> QED BY <2>3, <2>4, <2>5
<1>4. ASSUME ~Has(list, n) PROVE alias_find(list, n) = 0 /\ Meaning(list, n) = Nil
  <2>1. I = {}
    BY <1>1, <1>4 DEF Has
  <2> QED BY <1>2, <2>1 DEF Meaning
<1> QED
  BY <1>3, <1>4, WordAssumption DEF Has

\* The list l has the value v for n, and all other entries of list.
OneChanged(list, l, n, v) ==
    /\ \E i \in DOMAIN l : l[i].name = n /\ l[i].value = v
    /\ \A i \in DOMAIN l : l[i].name # n => \E k \in DOMAIN list : l[i] = list[k]
    /\ \A k \in DOMAIN list : list[k].name # n => \E i \in DOMAIN l : l[i] = list[k]

\* A list in which one name has changed its value means what the old one did otherwise.
LEMMA Means ==
    ASSUME NEW list, AliasList(list), NEW l, AliasList(l), NEW n, NEW v,
           OneChanged(list, l, n, v)
    PROVE  \A m : Meaning(l, m) = IF m = n THEN v ELSE Meaning(list, m)
<1> TAKE m
<1> USE DEF OneChanged
<1>1. CASE m = n
  BY <1>1, Finds
<1>2. CASE m # n /\ Has(list, m)
  <2>1. PICK k \in DOMAIN list : list[k].name = m
    BY <1>2 DEF Has
  <2>2. PICK i \in DOMAIN l : l[i] = list[k]
    BY <1>2, <2>1
  <2>3. Meaning(list, m) = list[k].value
    BY <2>1, Finds
  <2>4. Meaning(l, m) = l[i].value
    BY <2>1, <2>2, Finds
  <2> QED BY <1>2, <2>2, <2>3, <2>4
<1>3. CASE m # n /\ ~Has(list, m)
  <2>1. ~Has(l, m)
    BY <1>3 DEF Has
  <2> QED BY <1>3, <2>1, Finds
<1> QED
  BY <1>1, <1>2, <1>3

\* A new alias comes to the front.
LEMMA Fronts ==
    ASSUME NEW list, AliasList(list), NEW e \in Entry, ~Has(list, e.name)
    PROVE  /\ AliasList(<<e>> \o list)
           /\ \A m : Meaning(<<e>> \o list, m) = IF m = e.name THEN e.value ELSE Meaning(list, m)
<1> DEFINE l == <<e>> \o list
<1>1. list \in Seq(Entry) /\ Len(list) \in Nat /\ DOMAIN list = 1 .. Len(list)
  BY Entries DEF AliasList
<1>2. l \in Seq(Entry) /\ Len(l) = Len(list) + 1 /\ DOMAIN l = 1 .. Len(list) + 1
  BY <1>1
<1>3. l[1] = e /\ \A i \in 1 .. Len(list) : l[i + 1] = list[i]
  BY <1>1
<1> HIDE DEF l
<1>4. \A i \in DOMAIN l : i # 1 => i - 1 \in DOMAIN list /\ l[i] = list[i - 1]
  <2> TAKE i \in DOMAIN l
  <2> HAVE i # 1
  <2>1. i - 1 \in 1 .. Len(list) /\ (i - 1) + 1 = i
    BY <1>1, <1>2
  <2> QED BY <1>1, <1>3, <2>1
<1>5. ASSUME NEW i \in DOMAIN l, NEW j \in DOMAIN l, l[i].name = l[j].name PROVE i = j
  <2>1. i \in Int /\ j \in Int
    BY <1>2
  <2>2. CASE i = 1 \/ j = 1
    BY <1>3, <1>4, <1>5, <2>2 DEF Has
  <2>3. CASE i # 1 /\ j # 1
    <3>1. i - 1 = j - 1
      BY <1>4, <1>5, <2>3 DEF AliasList
    <3> QED BY <2>1, <3>1
  <2> QED BY <2>2, <2>3
<1>6. AliasList(l)
  BY <1>2, <1>5 DEF AliasList
<1>7. \A m : Meaning(l, m) = IF m = e.name THEN e.value ELSE Meaning(list, m)
  <2>1. 1 \in DOMAIN l /\ \A k \in DOMAIN list : k + 1 \in DOMAIN l /\ l[k + 1] = list[k]
    BY <1>1, <1>2, <1>3
  <2>2. \E i \in DOMAIN l : l[i].name = e.name /\ l[i].value = e.value
    BY <1>3, <2>1
  <2>3. \A i \in DOMAIN l : l[i].name # e.name => \E k \in DOMAIN list : l[i] = list[k]
    BY <1>3, <1>4
  <2>4. \A k \in DOMAIN list : list[k].name # e.name => \E i \in DOMAIN l : l[i] = list[k]
    BY <2>1
  <2>5. OneChanged(list, l, e.name, e.value)
    BY <2>2, <2>3, <2>4 DEF OneChanged
  <2> QED BY <1>6, <2>5, Means
<1> QED
  BY <1>6, <1>7 DEF l

\* alias_set gives one name its value, changes no other and adds none twice.
LEMMA AliasSets ==
    ASSUME NEW list, AliasList(list), NEW n \in {Assign[w].name : w \in DOMAIN Assign},
           NEW v \in Seq(Word)
    PROVE  /\ AliasList(alias_set(list, n, v))
           /\ \A m : Meaning(alias_set(list, n, v), m) = IF m = n THEN v ELSE Meaning(list, m)
<1>1. CASE ~Has(list, n)
  <2> DEFINE e == [name |-> n, value |-> v]
  <2>1. e \in Entry /\ e.name = n /\ e.value = v
    BY DEF Entry
  <2>2. alias_set(list, n, v) = <<e>> \o list
    BY <1>1, Finds DEF alias_set
  <2> HIDE DEF e
  <2> QED BY <1>1, <2>1, <2>2, Fronts
<1>2. CASE Has(list, n)
  <2>1. PICK f \in DOMAIN list : list[f].name = n
    BY <1>2 DEF Has
  <2> DEFINE l == [list EXCEPT ![f].value = v]
  <2>2. alias_find(list, n) = f /\ f # 0
    BY <1>2, <2>1, Finds
  <2>3. alias_set(list, n, v) = l
    BY <2>2 DEF alias_set
  <2>4. list \in Seq(Entry) /\ \A i \in DOMAIN list : list[i] \in Entry
    BY Entries DEF AliasList
  <2>5. /\ DOMAIN l = DOMAIN list
        /\ \A i \in DOMAIN list : l[i] = IF i = f THEN [list[i] EXCEPT !.value = v] ELSE list[i]
    BY <2>4
  <2>6. /\ \A i \in DOMAIN list : l[i] \in Entry /\ l[i].name = list[i].name
        /\ l[f].value = v
    <3>1. \A x \in Entry : /\ [x EXCEPT !.value = v] \in Entry
                           /\ [x EXCEPT !.value = v].name = x.name
                           /\ [x EXCEPT !.value = v].value = v
      BY DEF Entry
    <3> HIDE DEF l
    <3> QED BY <2>4, <2>5, <3>1
  <2>7. l \in Seq(Entry)
    <3>1. l \in [1 .. Len(list) -> Entry] /\ Len(list) \in Nat
      BY <2>5, <2>6, Entries
    <3> HIDE DEF l
    <3> QED BY <3>1
  <2> HIDE DEF l
  <2>8. AliasList(l)
    BY <2>5, <2>6, <2>7 DEF AliasList
  <2>9. \A m : Meaning(l, m) = IF m = n THEN v ELSE Meaning(list, m)
    <3>1. \A i \in DOMAIN list : list[i].name # n => l[i] = list[i]
      BY <2>1, <2>5
    <3>2. \E i \in DOMAIN l : l[i].name = n /\ l[i].value = v
      BY <2>1, <2>5, <2>6
    <3>3. \A i \in DOMAIN l : l[i].name # n => \E k \in DOMAIN list : l[i] = list[k]
      BY <2>5, <2>6, <3>1
    <3>4. \A k \in DOMAIN list : list[k].name # n => \E i \in DOMAIN l : l[i] = list[k]
      BY <2>5, <3>1
    <3>5. OneChanged(list, l, n, v)
      BY <3>2, <3>3, <3>4 DEF OneChanged
    <3> QED BY <2>8, <3>5, Means
  <2> QED BY <2>3, <2>8, <2>9
<1> QED
  BY <1>1, <1>2

\* unalias takes one alias away and leaves the others as they are.
LEMMA AliasLeaves ==
    ASSUME NEW list, AliasList(list), NEW n, alias_find(list, n) # 0
    PROVE  LET l == RemoveAt(list, alias_find(list, n)) IN
           /\ AliasList(l)
           /\ Meaning(l, n) = Nil
           /\ \A m : m # n => Meaning(l, m) = Meaning(list, m)
<1>1. PICK f \in DOMAIN list : list[f].name = n /\ alias_find(list, n) = f
  BY Finds DEF Has
<1> DEFINE N == Len(list)
           l == RemoveAt(list, f)
<1>2. list \in Seq(Entry) /\ N \in Nat /\ DOMAIN list = 1 .. N
  BY Entries DEF AliasList
<1>3. f \in 1 .. N
  BY <1>1, <1>2
<1>4. /\ l \in Seq(Entry) /\ Len(l) = N - 1 /\ DOMAIN l = 1 .. N - 1
      /\ \A i \in 1 .. N - 1 : l[i] = IF i < f THEN list[i] ELSE list[i + 1]
  <2> DEFINE a == SubSeq(list, 1, f - 1)
             b == SubSeq(list, f + 1, N)
  <2>1. a \in Seq(Entry) /\ Len(a) = f - 1 /\ \A i \in 1 .. f - 1 : a[i] = list[i]
    BY <1>2, <1>3
  <2>2. b \in Seq(Entry) /\ Len(b) = N - f /\ \A i \in 1 .. N - f : b[i] = list[f + i]
    BY <1>2, <1>3
  <2>3. l = a \o b
    BY DEF RemoveAt
  <2> HIDE DEF a, b, l, N
  <2>4. /\ l \in Seq(Entry) /\ Len(l) = N - 1
        /\ \A i \in 1 .. N - 1 : l[i] = IF i <= f - 1 THEN a[i] ELSE b[i - (f - 1)]
    <3>1. /\ a \o b \in Seq(Entry) /\ Len(a \o b) = Len(a) + Len(b)
          /\ \A i \in 1 .. Len(a) + Len(b) :
               (a \o b)[i] = IF i <= Len(a) THEN a[i] ELSE b[i - Len(a)]
      BY <2>1, <2>2, ConcatProperties
    <3>2. Len(a) = f - 1 /\ Len(a) + Len(b) = N - 1
      BY <1>2, <1>3, <2>1, <2>2
    <3> QED BY <2>3, <3>1, <3>2
  <2>5. ASSUME NEW i \in 1 .. N - 1 PROVE l[i] = IF i < f THEN list[i] ELSE list[i + 1]
    <3>1. CASE i < f
      <4>1. i <= f - 1 /\ i \in 1 .. f - 1
        BY <1>2, <1>3, <3>1
      <4> QED BY <2>1, <2>4, <3>1, <4>1
    <3>2. CASE ~(i < f)
      <4>1. ~(i <= f - 1) /\ i - (f - 1) \in 1 .. N - f /\ f + (i - (f - 1)) = i + 1
        BY <1>2, <1>3, <3>2
      <4> QED BY <2>2, <2>4, <3>2, <4>1
    <3> QED BY <3>1, <3>2
  <2>6. DOMAIN l = 1 .. N - 1
    BY <2>4
  <2> QED BY <2>4, <2>5, <2>6
<1> HIDE DEF l, N
<1>5. ASSUME NEW i \in DOMAIN l
      PROVE  \E j \in DOMAIN list : j # f /\ l[i] = list[j] /\ j = IF i < f THEN i ELSE i + 1
  <2>1. i \in Int /\ i \in 1 .. N - 1
    BY <1>4
  <2>2. CASE i < f
    <3>1. i \in 1 .. N /\ i # f
      BY <1>2, <1>3, <2>1, <2>2
    <3> QED BY <1>2, <1>4, <2>1, <2>2, <3>1
  <2>3. CASE ~(i < f)
    <3>1. i + 1 \in 1 .. N /\ i + 1 # f
      BY <1>2, <1>3, <2>1, <2>3
    <3> QED BY <1>2, <1>4, <2>1, <2>3, <3>1
  <2> QED BY <2>2, <2>3
<1>6. ASSUME NEW j \in DOMAIN list, j # f
      PROVE  \E i \in DOMAIN l : l[i] = list[j]
  <2>1. j \in Int /\ j \in 1 .. N
    BY <1>2
  <2>2. CASE j < f
    <3>1. j \in 1 .. N - 1
      BY <1>2, <1>3, <2>1, <2>2
    <3> QED BY <1>4, <2>2, <3>1
  <2>3. CASE ~(j < f)
    <3>1. j - 1 \in 1 .. N - 1 /\ ~(j - 1 < f) /\ (j - 1) + 1 = j
      BY <1>2, <1>3, <1>6, <2>1, <2>3
    <3> QED BY <1>4, <3>1
  <2> QED BY <2>2, <2>3
<1>7. AliasList(l)
  <2>1. ASSUME NEW i \in DOMAIN l, NEW k \in DOMAIN l, l[i].name = l[k].name PROVE i = k
    <3>1. PICK x \in DOMAIN list : l[i] = list[x] /\ x = IF i < f THEN i ELSE i + 1
      BY <1>5
    <3>2. PICK y \in DOMAIN list : l[k] = list[y] /\ y = IF k < f THEN k ELSE k + 1
      BY <1>5
    <3>3. x = y
      BY <2>1, <3>1, <3>2 DEF AliasList
    <3>4. i \in Int /\ k \in Int /\ f \in Int
      BY <1>3, <1>4
    <3> QED BY <3>1, <3>2, <3>3, <3>4
  <2> QED BY <1>4, <2>1 DEF AliasList
<1>8. ~Has(l, n)
  BY <1>1, <1>5 DEF Has, AliasList
<1>9. ASSUME NEW m, m # n PROVE Meaning(l, m) = Meaning(list, m)
  <2>1. CASE Has(list, m)
    <3>1. PICK j \in DOMAIN list : list[j].name = m
      BY <2>1 DEF Has
    <3>2. PICK i \in DOMAIN l : l[i] = list[j]
      BY <1>1, <1>6, <1>9, <3>1
    <3>3. Meaning(list, m) = list[j].value
      BY <3>1, Finds
    <3>4. Meaning(l, m) = l[i].value
      BY <1>7, <3>1, <3>2, Finds
    <3> QED BY <3>2, <3>3, <3>4
  <2>2. CASE ~Has(list, m)
    <3>1. ~Has(l, m)
      BY <1>5, <2>2 DEF Has
    <3> QED BY <1>7, <2>2, <3>1, Finds
  <2> QED BY <2>1, <2>2
<1>10. Meaning(l, n) = Nil
  BY <1>7, <1>8, Finds
<1> QED
  BY <1>1, <1>7, <1>9, <1>10 DEF l

--------------------------------------------------------------------------------
(* What the builtins do *)

\* The greatest of some numbers.
LEMMA MaxIs ==
    ASSUME NEW S \in SUBSET Int, NEW x \in S, \A y \in S : y <= x
    PROVE  Max(S) = x /\ Promised!Max(S) = x
<1>1. \A z \in S : (\A y \in S : z >= y) => z = x
  OBVIOUS
<1>2. \A y \in S : x >= y
  OBVIOUS
<1> QED
  BY <1>1, <1>2 DEF Max, Promised!Max

\* There is a greatest among finitely many.
LEMMA MaxAmong ==
    ASSUME NEW n \in Nat, NEW S \in SUBSET (1 .. n), S # {}
    PROVE  Max(S) \in S /\ Promised!Max(S) = Max(S)
<1> DEFINE B == {k \in Nat : \A y \in S : y <= k}
<1>1. n \in B
  OBVIOUS
<1>2. PICK k \in B : \A b \in B : k <= b
  BY <1>1, LeastExists
<1>3. k \in S
  <2> SUFFICES ASSUME k \notin S PROVE FALSE
    OBVIOUS
  <2>1. \A y \in S : y \in Nat /\ 1 <= y /\ y <= k /\ y # k
    BY <1>2
  <2>2. k \in Nat /\ 1 <= k
    <3>1. PICK y \in S : TRUE
      OBVIOUS
    <3>2. y \in Nat /\ 1 <= y /\ y <= k
      BY <2>1
    <3> QED BY <1>2, <3>2
  <2>3. k - 1 \in B
    <3>1. \A y \in S : y <= k - 1
      BY <2>1, <2>2
    <3> QED BY <2>2, <3>1
  <2>4. k <= k - 1
    BY <1>2, <2>3
  <2> QED BY <2>2, <2>4
<1>4. \A y \in S : y <= k
  BY <1>2
<1>5. S \in SUBSET Int
  OBVIOUS
<1> HIDE DEF B
<1> QED
  BY <1>3, <1>4, <1>5, MaxIs

\* The least of some numbers.
LEMMA MinIs ==
    ASSUME NEW S \in SUBSET Int, NEW x \in S, \A y \in S : x <= y
    PROVE  Promised!Min(S) = x
<1>1. \A z \in S : (\A y \in S : z <= y) => z = x
  OBVIOUS
<1> QED
  BY <1>1 DEF Promised!Min

\* An argument that defines an alias, when those at the positions Q are in quotes.
Defines(args, Q, i) == i \notin Q /\ args[i] \in DOMAIN Assign

\* Definitions among the first m arguments whose quote is not closed there, and those
\* that are complete.
OpenBy(args, Q, m) ==
    {i \in 1 .. m : /\ Defines(args, Q, i) /\ Assign[args[i]].open
                    /\ \A k \in i + 1 .. m : args[k] \notin DOMAIN Closes}

DoneBy(args, Q, m) ==
    {i \in 1 .. m : /\ Defines(args, Q, i)
                    /\ Assign[args[i]].open
                         => \E k \in i + 1 .. m : args[k] \in DOMAIN Closes}

\* A further argument opens, closes or completes definitions.
LEMMA NextDefinitions ==
    ASSUME NEW args, NEW Q, NEW m \in Nat
    PROVE  /\ OpenBy(args, Q, m + 1) =
                (IF args[m + 1] \in DOMAIN Closes THEN {} ELSE OpenBy(args, Q, m))
                \cup (IF Defines(args, Q, m + 1) /\ Assign[args[m + 1]].open
                      THEN {m + 1} ELSE {})
           /\ DoneBy(args, Q, m + 1) =
                DoneBy(args, Q, m)
                \cup (IF args[m + 1] \in DOMAIN Closes THEN OpenBy(args, Q, m) ELSE {})
                \cup (IF Defines(args, Q, m + 1) /\ ~Assign[args[m + 1]].open
                      THEN {m + 1} ELSE {})
<1>1. \A i \in 1 .. m : i + 1 .. m + 1 = (i + 1 .. m) \cup {m + 1}
  OBVIOUS
<1>2. 1 .. m + 1 = (1 .. m) \cup {m + 1} /\ m + 1 \notin 1 .. m
  OBVIOUS
<1>3. (m + 1) + 1 .. m + 1 = {}
  OBVIOUS
<1>4. \A i \in 1 .. m :
        /\ i \in OpenBy(args, Q, m + 1)
             <=> i \in OpenBy(args, Q, m) /\ args[m + 1] \notin DOMAIN Closes
        /\ i \in DoneBy(args, Q, m + 1)
             <=> \/ i \in DoneBy(args, Q, m)
                 \/ i \in OpenBy(args, Q, m) /\ args[m + 1] \in DOMAIN Closes
  BY <1>1, <1>2 DEF OpenBy, DoneBy
<1>5. /\ m + 1 \in OpenBy(args, Q, m + 1)
           <=> Defines(args, Q, m + 1) /\ Assign[args[m + 1]].open
      /\ m + 1 \in DoneBy(args, Q, m + 1)
           <=> Defines(args, Q, m + 1) /\ ~Assign[args[m + 1]].open
  BY <1>2, <1>3 DEF OpenBy, DoneBy
<1>6. /\ OpenBy(args, Q, m + 1) \subseteq (1 .. m) \cup {m + 1}
      /\ DoneBy(args, Q, m + 1) \subseteq (1 .. m) \cup {m + 1}
      /\ OpenBy(args, Q, m) \subseteq 1 .. m /\ DoneBy(args, Q, m) \subseteq 1 .. m
  BY <1>2 DEF OpenBy, DoneBy
<1> QED
  BY <1>2, <1>4, <1>5, <1>6

\* Those of the arguments at the positions D that name n.
Naming(args, D, n) == {i \in D : Assign[args[i]].name = n}

LastIs(args, D, j, n) ==
    IF n = Assign[args[j]].name
    THEN Naming(args, D \cup {j}, n) # {} /\ Max(Naming(args, D \cup {j}, n)) = j
    ELSE Naming(args, D \cup {j}, n) = Naming(args, D, n)

\* A definition behind those in D is the last one of its name.
LEMMA LastNaming ==
    ASSUME NEW args, NEW m \in Nat, NEW D \in SUBSET (1 .. m), NEW j \in 1 .. m + 1,
           \A i \in D : i < j, NEW n
    PROVE  LastIs(args, D, j, n)
<1> USE DEF LastIs
<1>1. CASE n = Assign[args[j]].name
  <2> DEFINE N == Naming(args, D \cup {j}, n)
  <2>1. D \cup {j} \in SUBSET Int /\ \A i \in D \cup {j} : i <= j
    OBVIOUS
  <2>2. N \in SUBSET Int /\ j \in N /\ \A i \in N : i <= j
    BY <1>1, <2>1 DEF Naming
  <2> HIDE DEF N
  <2>3. Max(N) = j /\ N # {}
    BY <2>2, MaxIs
  <2> QED BY <1>1, <2>3 DEF N
<1>2. CASE n # Assign[args[j]].name
  BY <1>2 DEF Naming
<1> QED
  BY <1>1, <1>2

\* What n stands for when the definitions at the positions D are made, old before.
ValueBy(args, D, n, old) ==
    IF Naming(args, D, n) = {} THEN old ELSE Promised!Given(args, Max(Naming(args, D, n)))

\* The definition at j, behind those in D, gives its name the value there.
LEMMA OneMore ==
    ASSUME NEW args, NEW m \in Nat, NEW D \in SUBSET (1 .. m), NEW j \in 1 .. m + 1,
           \A i \in D : i < j, NEW n, NEW old
    PROVE  ValueBy(args, D \cup {j}, n, old) =
             IF n = Assign[args[j]].name THEN Promised!Given(args, j)
             ELSE ValueBy(args, D, n, old)
  BY LastNaming DEF LastIs, ValueBy

\* Where alias is between two arguments.
Aliasing(st) ==
    /\ st = [list |-> st.list, todo |-> st.todo, value |-> st.value]
    /\ AliasList(st.list)
    /\ st.todo \in {Assign[w].name : w \in DOMAIN Assign} \cup {Nil}
    /\ st.value \in Seq(Word)

\* An argument w goes on with a quote, closes it, or defines or opens another one.
Treats(st, w, t) ==
    /\ st.todo # Nil /\ w \in DOMAIN Closes =>
         /\ t.todo = Nil
         /\ \A m : Meaning(t.list, m) = IF m = st.todo THEN Append(st.value, Closes[w])
                                        ELSE Meaning(st.list, m)
    /\ st.todo # Nil /\ w \notin DOMAIN Closes =>
         t.list = st.list /\ t.todo = st.todo /\ t.value = Append(st.value, w)
    /\ st.todo = Nil /\ w \notin DOMAIN Assign => t.list = st.list /\ t.todo = Nil
    /\ st.todo = Nil /\ w \in DOMAIN Assign =>
         IF Assign[w].open
         THEN t.list = st.list /\ t.todo = Assign[w].name /\ t.value = Assign[w].value
         ELSE /\ t.todo = Nil
              /\ \A m : Meaning(t.list, m) = IF m = Assign[w].name THEN Assign[w].value
                                             ELSE Meaning(st.list, m)

\* One argument of alias.
LEMMA AliasArg ==
    ASSUME NEW st, Aliasing(st), NEW w \in Word, NEW t, t = alias_arg(st, w)
    PROVE  Aliasing(t) /\ Treats(st, w, t)
<1> USE DEF Treats
<1>1. CASE st.todo # Nil /\ w \in DOMAIN Closes
  <2> DEFINE v == Append(st.value, Closes[w])
             l == alias_set(st.list, st.todo, v)
  <2>0. Closes[w] \in {Closes[x] : x \in DOMAIN Closes}
    BY <1>1
  <2>1. Closes[w] \in Word
    BY <2>0 DEF Word
  <2>2. v \in Seq(Word)
    BY <2>1 DEF Aliasing
  <2>3. AliasList(l) /\ \A m : Meaning(l, m) = IF m = st.todo THEN v ELSE Meaning(st.list, m)
    <3> HIDE DEF v
    <3> QED BY <1>1, <2>2, AliasSets DEF Aliasing
  <2>4. t = [list |-> l, todo |-> Nil, value |-> <<>>]
    BY <1>1 DEF alias_arg
  <2>5. <<>> \in Seq(Word)
    OBVIOUS
  <2> HIDE DEF l
  <2> QED BY <1>1, <2>3, <2>4, <2>5 DEF Aliasing
<1>2. CASE st.todo # Nil /\ w \notin DOMAIN Closes
  <2>1. Append(st.value, w) \in Seq(Word)
    BY DEF Aliasing
  <2>2. t = [st EXCEPT !.value = Append(@, w)]
    BY <1>2 DEF alias_arg
  <2>3. t = [list |-> st.list, todo |-> st.todo, value |-> Append(st.value, w)]
    BY <2>2 DEF Aliasing
  <2> QED BY <1>2, <2>1, <2>3 DEF Aliasing
<1>3. CASE st.todo = Nil /\ w \notin DOMAIN Assign
  BY <1>3 DEF alias_arg
<1>4. CASE st.todo = Nil /\ w \in DOMAIN Assign /\ Assign[w].open
  <2>1. t = [st EXCEPT !.todo = Assign[w].name, !.value = Assign[w].value]
    BY <1>4 DEF alias_arg
  <2>2. t = [list |-> st.list, todo |-> Assign[w].name, value |-> Assign[w].value]
    BY <2>1 DEF Aliasing
  <2> QED BY <1>4, <2>2, WordAssumption DEF Aliasing
<1>5. CASE st.todo = Nil /\ w \in DOMAIN Assign /\ ~Assign[w].open
  <2> DEFINE l == alias_set(st.list, Assign[w].name, Assign[w].value)
  <2>1. /\ AliasList(l)
        /\ \A m : Meaning(l, m) = IF m = Assign[w].name THEN Assign[w].value
                                  ELSE Meaning(st.list, m)
    BY <1>5, AliasSets, WordAssumption DEF Aliasing
  <2>2. t = [st EXCEPT !.list = l]
    BY <1>5 DEF alias_arg
  <2>3. t = [list |-> l, todo |-> st.todo, value |-> st.value]
    BY <2>2 DEF Aliasing
  <2> HIDE DEF l
  <2> QED BY <1>5, <2>1, <2>3 DEF Aliasing
<1> QED
  BY <1>1, <1>2, <1>3, <1>4, <1>5

\* The words after the first.
LEMMA RestOfWords ==
    ASSUME NEW words \in Seq(Word), words # <<>>
    PROVE  Tail(words) \in Seq(Word)
  OBVIOUS

\* What the value given at j is when its quote is closed at m.
LEMMA ClosedAt ==
    ASSUME NEW args \in Seq(Word), NEW m \in 1 .. Len(args), NEW j \in 1 .. m - 1,
           Assign[args[j]].open, args[m] \in DOMAIN Closes,
           \A k \in j + 1 .. m - 1 : args[k] \notin DOMAIN Closes
    PROVE  Promised!Given(args, j) =
             Append(Assign[args[j]].value \o SubSeq(args, j + 1, m - 1), Closes[args[m]])
<1>1. Len(args) \in Nat /\ DOMAIN args = 1 .. Len(args)
  OBVIOUS
<1>2. Promised!Ends(args, j) \in SUBSET Int /\ m \in Promised!Ends(args, j)
  BY <1>1 DEF Promised!Ends
<1>3. \A k \in Promised!Ends(args, j) : m <= k
  <2> SUFFICES ASSUME NEW k \in Promised!Ends(args, j), ~(m <= k) PROVE FALSE
    OBVIOUS
  <2>1. k \in j + 1 .. m - 1 /\ args[k] \in DOMAIN Closes
    BY <1>1 DEF Promised!Ends
  <2> QED BY <2>1
<1>4. Promised!Min(Promised!Ends(args, j)) = m
  BY <1>2, <1>3, MinIs
<1> QED
  BY <1>4 DEF Promised!Given

\* The only definition that is open by m stands at j.
Opened(st, args, Q, m, j) ==
    /\ OpenBy(args, Q, m) = {j} /\ \A i \in DoneBy(args, Q, m) : i < j
    /\ st.todo = Assign[args[j]].name
    /\ st.value = Assign[args[j]].value \o SubSeq(args, j + 1, m)

\* What alias has done to list when it has seen m arguments.
Stands(st, args, Q, m, list) ==
    /\ st.todo = Nil => OpenBy(args, Q, m) = {}
    /\ st.todo # Nil => \E j \in 1 .. m : Opened(st, args, Q, m, j)
    /\ \A n : Meaning(st.list, n) = ValueBy(args, DoneBy(args, Q, m), n, Meaning(list, n))

\* A word that is appended to two sequences belongs to the second.
LEMMA AppendsAtEnd ==
    ASSUME NEW v \in Seq(Word), NEW q \in Seq(Word), NEW w \in Word
    PROVE  Append(v \o q, w) = v \o (q \o <<w>>)
<1>1. v \o q \in Seq(Word) /\ <<w>> \in Seq(Word)
  BY ConcatProperties
<1>2. Append(v \o q, w) = (v \o q) \o <<w>>
  BY <1>1, AppendIsConcat
<1>3. (v \o q) \o <<w>> = v \o (q \o <<w>>)
  <2>1. PICK u \in Seq(Word) : u = <<w>>
    BY <1>1
  <2>2. (v \o q) \o u = v \o (q \o u)
    BY ConcatAssociative
  <2> QED BY <2>1, <2>2
<1> QED
  BY <1>2, <1>3

\* A further argument.
LEMMA StandsNext ==
    ASSUME NEW args \in Seq(Word), NEW Q, NEW m \in Nat, m + 1 <= Len(args), NEW list,
           NEW st, Aliasing(st), Stands(st, args, Q, m, list),
           m + 1 \in Q <=> st.todo # Nil,
           NEW t, t = alias_arg(st, args[m + 1])
    PROVE  Stands(t, args, Q, m + 1, list)
<1> DEFINE w == args[m + 1]
           O == OpenBy(args, Q, m)
           D == DoneBy(args, Q, m)
           Oo == OpenBy(args, Q, m + 1)
           Dd == DoneBy(args, Q, m + 1)
           New == Defines(args, Q, m + 1)
<1>1. w \in Word /\ Len(args) \in Nat
  OBVIOUS
<1>2. /\ Oo = (IF w \in DOMAIN Closes THEN {} ELSE O)
                \cup (IF New /\ Assign[w].open THEN {m + 1} ELSE {})
      /\ Dd = D \cup (IF w \in DOMAIN Closes THEN O ELSE {})
                \cup (IF New /\ ~Assign[w].open THEN {m + 1} ELSE {})
  BY NextDefinitions
<1>3. D \in SUBSET (1 .. m) /\ O \in SUBSET (1 .. m) /\ \A i \in 1 .. m : i < m + 1
  BY DEF OpenBy, DoneBy
<1>4. New <=> st.todo = Nil /\ w \in DOMAIN Assign
  BY DEF Defines
<1>5. \A n : Meaning(st.list, n) = ValueBy(args, D, n, Meaning(list, n))
  BY DEF Stands
<1>t. Treats(st, w, t)
  BY <1>1, AliasArg
<1>6. CASE st.todo # Nil
  <2>1. PICK j \in 1 .. m : Opened(st, args, Q, m, j)
    BY <1>6 DEF Stands
  <2>2. O = {j} /\ \A i \in D : i < j
    BY <2>1 DEF Opened
  <2>3. CASE w \in DOMAIN Closes
    <3>1. Oo = {} /\ Dd = D \cup {j}
      BY <1>2, <1>4, <1>6, <2>2, <2>3
    <3>2. /\ t.todo = Nil
          /\ \A n : Meaning(t.list, n) = IF n = st.todo THEN Append(st.value, Closes[w])
                                         ELSE Meaning(st.list, n)
      BY <1>t, <1>6, <2>3 DEF Treats
    <3>3. j \in OpenBy(args, Q, m)
      BY <2>2
    <3>4. Assign[args[j]].open /\ \A k \in j + 1 .. m : args[k] \notin DOMAIN Closes
      BY <3>3 DEF OpenBy
    <3>5. Promised!Given(args, j) = Append(st.value, Closes[w])
      <4>1. m + 1 \in 1 .. Len(args) /\ j \in 1 .. (m + 1) - 1 /\ (m + 1) - 1 = m
        BY <1>1
      <4>2. Promised!Given(args, j)
              = Append(Assign[args[j]].value \o SubSeq(args, j + 1, m), Closes[w])
        BY <2>3, <3>4, <4>1, ClosedAt
      <4> QED BY <2>1, <4>2 DEF Opened
    <3>6. ASSUME NEW n
          PROVE  Meaning(t.list, n) = ValueBy(args, Dd, n, Meaning(list, n))
      <4>1. j \in 1 .. m + 1
        OBVIOUS
      <4>2. ValueBy(args, D \cup {j}, n, Meaning(list, n)) =
              IF n = Assign[args[j]].name THEN Promised!Given(args, j)
              ELSE ValueBy(args, D, n, Meaning(list, n))
        BY <1>3, <2>2, <4>1, OneMore
      <4>3. st.todo = Assign[args[j]].name
        BY <2>1 DEF Opened
      <4> HIDE DEF D, Dd, w
      <4> QED BY <1>5, <3>1, <3>2, <3>5, <4>2, <4>3
    <3> QED BY <3>1, <3>2, <3>6 DEF Stands
  <2>4. CASE w \notin DOMAIN Closes
    <3>1. Oo = {j} /\ Dd = D
      BY <1>2, <1>4, <1>6, <2>2, <2>4
    <3>2. t.list = st.list /\ t.todo = st.todo /\ t.value = Append(st.value, w)
      BY <1>t, <1>6, <2>4 DEF Treats
    <3>3. t.value = Assign[args[j]].value \o SubSeq(args, j + 1, m + 1)
      <4>1. PICK v \in Seq(Word) : v = Assign[args[j]].value
        <5>1. j \in OpenBy(args, Q, m)
          BY <2>2
        <5> QED BY <5>1, WordAssumption DEF OpenBy, Defines
      <4>2. st.value = v \o SubSeq(args, j + 1, m)
        BY <2>1, <4>1 DEF Opened
      <4>3. SubSeq(args, j + 1, m + 1) = SubSeq(args, j + 1, m) \o <<w>>
        <5>1. j + 1 \in 1 .. Len(args) /\ m + 1 \in j + 1 .. Len(args) /\ (m + 1) - 1 = m
          BY <1>1
        <5> QED BY <5>1, SubSeqRecursiveSecond
      <4>4. PICK q \in Seq(Word) : q = SubSeq(args, j + 1, m)
        <5>1. SubSeq(args, j + 1, m) \in Seq(Word)
          OBVIOUS
        <5> QED BY <5>1
      <4> HIDE DEF w
      <4>5. Append(v \o q, w) = v \o (q \o <<w>>)
        BY <1>1, AppendsAtEnd
      <4> QED BY <3>2, <4>1, <4>2, <4>3, <4>4, <4>5
    <3>4. Opened(t, args, Q, m + 1, j)
      BY <2>1, <2>2, <3>1, <3>2, <3>3 DEF Opened
    <3>5. j \in 1 .. m + 1
      OBVIOUS
    <3> QED BY <1>5, <1>6, <3>1, <3>2, <3>4, <3>5 DEF Stands
  <2> QED BY <2>3, <2>4
<1>7. CASE st.todo = Nil /\ ~New
  <2>1. O = {}
    BY <1>7 DEF Stands
  <2>2. Oo = {} /\ Dd = D
    BY <1>2, <1>7, <2>1
  <2>3. t.list = st.list /\ t.todo = Nil
    BY <1>t, <1>4, <1>7 DEF Treats
  <2> QED BY <1>5, <2>2, <2>3 DEF Stands
<1>8. CASE st.todo = Nil /\ New /\ Assign[w].open
  <2>1. O = {}
    BY <1>8 DEF Stands
  <2>2. Oo = {m + 1} /\ Dd = D
    BY <1>2, <1>8, <2>1
  <2>3. t.list = st.list /\ t.todo = Assign[w].name /\ t.value = Assign[w].value
    BY <1>t, <1>4, <1>8 DEF Treats
  <2>4. w \in DOMAIN Assign
    BY <1>4, <1>8
  <2>5. t.todo # Nil /\ Assign[w].value \in Seq(Word)
    BY <2>3, <2>4, WordAssumption
  <2>6. t.value = Assign[w].value \o SubSeq(args, (m + 1) + 1, m + 1)
    <3>1. SubSeq(args, (m + 1) + 1, m + 1) = <<>>
      OBVIOUS
    <3>2. \A v \in Seq(Word) : v \o <<>> = v
      OBVIOUS
    <3> QED BY <2>3, <2>5, <3>1, <3>2
  <2>7. Opened(t, args, Q, m + 1, m + 1)
    BY <1>3, <2>2, <2>3, <2>6 DEF Opened
  <2>8. m + 1 \in 1 .. m + 1
    OBVIOUS
  <2> QED BY <1>5, <2>2, <2>3, <2>5, <2>7, <2>8 DEF Stands
<1>9. CASE st.todo = Nil /\ New /\ ~Assign[w].open
  <2>1. O = {}
    BY <1>9 DEF Stands
  <2>2. Oo = {} /\ Dd = D \cup {m + 1}
    BY <1>2, <1>9, <2>1
  <2>3. /\ t.todo = Nil
        /\ \A n : Meaning(t.list, n) = IF n = Assign[w].name THEN Assign[w].value
                                       ELSE Meaning(st.list, n)
    BY <1>t, <1>4, <1>9 DEF Treats
  <2>4. Promised!Given(args, m + 1) = Assign[w].value
    BY <1>9 DEF Promised!Given
  <2>5. ASSUME NEW n PROVE Meaning(t.list, n) = ValueBy(args, Dd, n, Meaning(list, n))
    <3>1. PICK j \in 1 .. m + 1 : j = m + 1
      OBVIOUS
    <3>2. \A i \in D : i < j
      BY <1>3, <3>1
    <3>3. ValueBy(args, D \cup {j}, n, Meaning(list, n)) =
            IF n = Assign[args[j]].name THEN Promised!Given(args, j)
            ELSE ValueBy(args, D, n, Meaning(list, n))
      BY <1>3, <3>2, OneMore
    <3>4. w = args[j]
      BY <3>1
    <3> HIDE DEF D, Dd, w
    <3> QED BY <1>5, <2>2, <2>3, <2>4, <3>1, <3>3, <3>4
  <2> QED BY <2>2, <2>3, <2>5 DEF Stands
<1> QED
  BY <1>6, <1>7, <1>8, <1>9

\* However many arguments alias has and wherever it stops, the names in its complete
\* definitions have the values given there last, and all other names the ones they had.
AliasSays(args, Q, list, l) ==
    /\ Promised!Quoted(args, Q)
    /\ \A n : Meaning(l, n) = ValueBy(args, DoneBy(args, Q, Len(args)), n, Meaning(list, n))

LEMMA AliasMeans ==
    ASSUME AliasList(alist), NEW words \in Seq(Word), words # <<>>, bi_alias(words)
    PROVE  /\ AliasList(alist')
           /\ \E Q \in SUBSET (1 .. Len(Tail(words))) : AliasSays(Tail(words), Q, alist, alist')
<1> DEFINE args == Tail(words)
           n == Len(args)
           st == [list |-> alist, todo |-> Nil, value |-> <<>>]
           D(f) == f = [S \in SUBSET (1 .. n) |-> IF S = {} THEN st
                           ELSE alias_arg(f[S \ {Max(S)}], args[Max(S)])]
<1>1. args \in Seq(Word) /\ n \in Nat /\ DOMAIN args = 1 .. n /\ \A i \in 1 .. n : args[i] \in Word
  <2>1. args \in Seq(Word)
    BY RestOfWords
  <2> HIDE DEF args
  <2> QED BY <2>1
<1>2. alist' = (CHOOSE f : D(f))[1 .. n].list
  BY <1>1 DEF bi_alias, FoldLeft, MapThenFoldSet
<1> HIDE DEF args, st, n
<1>3. PICK f : D(f) /\ alist' = f[1 .. n].list
  <2>1. PICK f : Takes(f, n, "alias", st, args)
    BY <1>1, TakesExists
  <2>2. D(f)
    BY <2>1 DEF Takes, Arg
  <2> HIDE DEF D
  <2> QED BY <1>2, <2>2
<1>r. PICK r : /\ r[0] = st /\ r[n] = f[1 .. n]
               /\ \A m \in 1 .. n : r[m] = alias_arg(r[m - 1], args[m])
  <2>1. Takes(f, n, "alias", st, args)
    BY <1>3 DEF Takes, Arg
  <2>2. PICK r : InTurn(r, n, "alias", st, args) /\ r[n] = f[1 .. n]
    <3>1. n \in Nat
      BY <1>1
    <3> HIDE DEF D
    <3> QED BY <2>1, <3>1, OneByOne
  <2> QED BY <2>2 DEF InTurn, Arg
<1> DEFINE Q == {i \in 1 .. n : r[i - 1].todo # Nil}
           OK(m) == Aliasing(r[m]) /\ Stands(r[m], args, Q, m, alist)
<1>4. OK(0)
  <2>1. <<>> \in Seq(Word)
    OBVIOUS
  <2>2. Aliasing(st) /\ st.todo = Nil /\ st.list = alist
    BY <2>1 DEF Aliasing, st
  <2>3. OpenBy(args, Q, 0) = {} /\ DoneBy(args, Q, 0) = {}
    BY DEF OpenBy, DoneBy
  <2>4. \A x, old : ValueBy(args, {}, x, old) = old
    BY DEF ValueBy, Naming
  <2> HIDE DEF Q
  <2>5. Stands(st, args, Q, 0, alist)
    BY <2>2, <2>3, <2>4 DEF Stands
  <2> QED BY <1>r, <2>2, <2>5
<1>5. ASSUME NEW i \in 1 .. n, OK(i - 1) PROVE OK(i)
  <2>1. r[i] = alias_arg(r[i - 1], args[i])
    BY <1>r
  <2>2. i \in Q <=> r[i - 1].todo # Nil
    OBVIOUS
  <2>3. i - 1 \in Nat /\ (i - 1) + 1 = i /\ i <= Len(args)
    BY <1>1 DEF n
  <2> HIDE DEF Q
  <2>4. Aliasing(r[i])
    BY <1>1, <1>5, <2>1, AliasArg
  <2>5. PICK k \in Nat : k = i - 1
    BY <2>3
  <2>6. k + 1 = i /\ Aliasing(r[k]) /\ Stands(r[k], args, Q, k, alist)
    BY <1>5, <2>3, <2>5
  <2>7. Stands(r[i], args, Q, k + 1, alist)
    BY <1>1, <2>1, <2>2, <2>3, <2>5, <2>6, StandsNext
  <2> QED BY <2>4, <2>6, <2>7
<1> HIDE DEF OK
<1> DEFINE Bad == {i \in Nat : i <= n /\ ~OK(i)}
<1>6. Bad = {}
  <2> SUFFICES ASSUME Bad # {} PROVE FALSE
    OBVIOUS
  <2>1. PICK i \in Bad : \A k \in Bad : i <= k
    BY LeastExists
  <2>2. i \in 1 .. n /\ i - 1 \in Nat /\ i - 1 <= n /\ ~(i <= i - 1)
    BY <1>1, <1>4, <2>1
  <2> QED BY <1>5, <2>1, <2>2
<1>7. \A i \in 0 .. n : OK(i)
  BY <1>1, <1>6
<1>8. n \in 0 .. n
  BY <1>1
<1>9. AliasList(alist')
  BY <1>3, <1>r, <1>7, <1>8 DEF OK, Aliasing
<1>10. \A x : Meaning(alist', x) = ValueBy(args, DoneBy(args, Q, n), x, Meaning(alist, x))
  <2> HIDE DEF Q
  <2> QED BY <1>3, <1>r, <1>7, <1>8 DEF OK, Stands
<1>11. Promised!Quoted(args, Q)
  <2>1. ASSUME NEW i \in 1 .. n
        PROVE  i \in Q <=> OpenBy(args, Q, i - 1) # {}
    <3>1. i - 1 \in 0 .. n
      BY <1>1
    <3>2. OK(i - 1)
      BY <1>7, <3>1
    <3>3. r[i - 1].todo # Nil => \E j : OpenBy(args, Q, i - 1) = {j}
      BY <3>2 DEF OK, Stands, Opened
    <3>4. r[i - 1].todo = Nil => OpenBy(args, Q, i - 1) = {}
      BY <3>2 DEF OK, Stands
    <3>5. i \in Q <=> r[i - 1].todo # Nil
      OBVIOUS
    <3> HIDE DEF Q
    <3> QED BY <3>3, <3>4, <3>5
  <2> HIDE DEF Q
  <2>2. \A i \in 1 .. n : OpenBy(args, Q, i - 1) # {}
          <=> \E j \in 1 .. i - 1 :
                 /\ j \notin Q /\ args[j] \in DOMAIN Assign /\ Assign[args[j]].open
                 /\ \A k \in j + 1 .. i - 1 : args[k] \notin DOMAIN Closes
    BY DEF OpenBy, Defines
  <2> QED BY <1>1, <2>1, <2>2, Zenon DEF Promised!Quoted
<1>12. AliasSays(args, Q, alist, alist')
  <2> HIDE DEF Q
  <2> QED BY <1>10, <1>11 DEF AliasSays, n
<1>13. Q \in SUBSET (1 .. Len(args))
  BY DEF n
<1> QED
  <2> HIDE DEF Q
  <2> QED BY <1>9, <1>12, <1>13 DEF args

\* The arguments of setenv among the first m before any that is malformed.
SetBy(args, m) == {j \in 1 .. m : \A k \in 1 .. j : ~Promised!Malformed(args[k])}

\* Where setenv is between two arguments.
Setting(st, args, m, e) ==
    /\ st = [env |-> st.env, failed |-> st.failed]
    /\ st.failed \in BOOLEAN /\ (st.failed <=> \E k \in 1 .. m : Promised!Malformed(args[k]))
    /\ st.env = [n \in EnvName |->
                   IF Naming(args, SetBy(args, m), n) = {} THEN e[n]
                   ELSE Assign[args[Max(Naming(args, SetBy(args, m), n))]].value]

\* One argument of setenv.
LEMMA SetenvArg ==
    ASSUME NEW st, NEW e, NEW args, NEW m \in Nat, Setting(st, args, m, e)
    PROVE  Setting(setenv_arg(st, args[m + 1]), args, m + 1, e)
<1> DEFINE w == args[m + 1]
           S == SetBy(args, m)
           Ss == SetBy(args, m + 1)
<1>1. 1 .. m + 1 = (1 .. m) \cup {m + 1} /\ m + 1 \notin 1 .. m
  OBVIOUS
<1>2. S \in SUBSET (1 .. m) /\ \A i \in S : i < m + 1
  BY DEF SetBy
<1>3. CASE st.failed \/ Promised!Malformed(w)
  <2>1. setenv_arg(st, w) = [st EXCEPT !.failed = TRUE]
    BY <1>3 DEF setenv_arg, bad_name, Promised!Malformed, Promised!Bad, Setting
  <2>2. setenv_arg(st, w) = [env |-> st.env, failed |-> TRUE]
    BY <2>1 DEF Setting
  <2>3. \E k \in 1 .. m + 1 : Promised!Malformed(args[k])
    BY <1>1, <1>3 DEF Setting
  <2>4. Ss = S
    <3>1. \A j \in 1 .. m : j \in Ss <=> j \in S
      BY <1>1 DEF SetBy
    <3>2. m + 1 \notin Ss
      BY <2>3 DEF SetBy
    <3>3. Ss \subseteq 1 .. m + 1
      BY DEF SetBy
    <3> HIDE DEF S, Ss
    <3> QED BY <1>1, <1>2, <3>1, <3>2, <3>3
  <2> HIDE DEF w, S, Ss
  <2> QED BY <2>2, <2>3, <2>4 DEF Setting, w, S, Ss
<1>4. CASE ~st.failed /\ ~Promised!Malformed(w)
  <2> DEFINE f == [st.env EXCEPT ![Assign[w].name] = Assign[w].value]
  <2>1. w \in DOMAIN Assign /\ ~bad_name(Assign[w].name)
    BY <1>4 DEF bad_name, Promised!Malformed, Promised!Bad
  <2>2. setenv_arg(st, w) = [st EXCEPT !.env[Assign[w].name] = Assign[w].value]
    BY <1>4, <2>1 DEF setenv_arg
  <2>3. setenv_arg(st, w) = [env |-> f, failed |-> FALSE]
    BY <1>4, <2>2 DEF Setting
  <2>4. \A k \in 1 .. m + 1 : ~Promised!Malformed(args[k])
    BY <1>1, <1>4 DEF Setting
  <2>5. Ss = S \cup {m + 1}
    <3>1. \A j \in 1 .. m : j \in Ss <=> j \in S
      BY <1>1 DEF SetBy
    <3>2. m + 1 \in Ss
      BY <2>4 DEF SetBy
    <3>3. Ss \subseteq 1 .. m + 1
      BY DEF SetBy
    <3> HIDE DEF S, Ss
    <3> QED BY <1>1, <1>2, <3>1, <3>2, <3>3
  <2>6. f = [n \in EnvName |-> IF n = Assign[w].name THEN Assign[w].value ELSE st.env[n]]
    BY DEF Setting
  <2>7. ASSUME NEW n \in EnvName
        PROVE  f[n] = IF Naming(args, Ss, n) = {} THEN e[n]
                      ELSE Assign[args[Max(Naming(args, Ss, n))]].value
    <3>1. PICK j \in 1 .. m + 1 : j = m + 1
      OBVIOUS
    <3>0. \A i \in S : i < j
      BY <1>2, <3>1
    <3>2. LastIs(args, S, j, n)
      <4> HIDE DEF S, w
      <4> QED BY <1>2, <3>0, LastNaming
    <3>5. w = args[j]
      BY <3>1
    <3>3. st.env[n] = IF Naming(args, S, n) = {} THEN e[n]
                      ELSE Assign[args[Max(Naming(args, S, n))]].value
      BY DEF Setting
    <3>4. f[n] = IF n = Assign[w].name THEN Assign[args[m + 1]].value ELSE st.env[n]
      BY <2>6
    <3> HIDE DEF f, w, S, Ss
    <3> QED BY <2>5, <3>1, <3>2, <3>3, <3>4, <3>5 DEF LastIs
  <2>8. ~ \E k \in 1 .. m + 1 : Promised!Malformed(args[k])
    BY <2>4
  <2> HIDE DEF f
  <2>9. f = [n \in EnvName |->
               IF Naming(args, Ss, n) = {} THEN e[n]
               ELSE Assign[args[Max(Naming(args, Ss, n))]].value]
    BY <2>6, <2>7
  <2> HIDE DEF w
  <2> QED BY <2>3, <2>8, <2>9 DEF Setting, w
<1> QED
  BY <1>3, <1>4 DEF Setting

\* f is what the arguments of setenv before any that is malformed make of e.
SetenvSays(args, e, f) ==
    f = [n \in EnvName |->
           IF Naming(args, SetBy(args, Len(args)), n) = {} THEN e[n]
           ELSE Assign[args[Max(Naming(args, SetBy(args, Len(args)), n))]].value]

\* However many arguments setenv has and wherever it stops.
LEMMA SetenvMeans ==
    ASSUME env = [n \in EnvName |-> env[n]], NEW words \in Seq(Word), words # <<>>,
           bi_setenv(words)
    PROVE  SetenvSays(Tail(words), env, env')
<1> DEFINE args == Tail(words)
           n == Len(args)
           st == [env |-> env, failed |-> FALSE]
           D(f) == f = [S \in SUBSET (1 .. n) |-> IF S = {} THEN st
                           ELSE setenv_arg(f[S \ {Max(S)}], args[Max(S)])]
<1>1. args \in Seq(Word) /\ n \in Nat /\ DOMAIN args = 1 .. n
  <2>1. args \in Seq(Word)
    BY RestOfWords
  <2> HIDE DEF args
  <2> QED BY <2>1
<1>2. env' = (CHOOSE f : D(f))[1 .. n].env
  BY <1>1 DEF bi_setenv, FoldLeft, MapThenFoldSet
<1> HIDE DEF args, st, n
<1>3. PICK f : D(f) /\ env' = f[1 .. n].env
  <2>1. PICK f : Takes(f, n, "setenv", st, args)
    BY <1>1, TakesExists
  <2>2. D(f)
    BY <2>1 DEF Takes, Arg
  <2> HIDE DEF D
  <2> QED BY <1>2, <2>2
<1>r. PICK r : /\ r[0] = st /\ r[n] = f[1 .. n]
               /\ \A m \in 1 .. n : r[m] = setenv_arg(r[m - 1], args[m])
  <2>1. Takes(f, n, "setenv", st, args)
    BY <1>3 DEF Takes, Arg
  <2>2. PICK r : InTurn(r, n, "setenv", st, args) /\ r[n] = f[1 .. n]
    <3>1. n \in Nat
      BY <1>1
    <3> HIDE DEF D
    <3> QED BY <2>1, <3>1, OneByOne
  <2> QED BY <2>2 DEF InTurn, Arg
<1> DEFINE OK(m) == Setting(r[m], args, m, env)
<1>4. OK(0)
  <2>1. SetBy(args, 0) = {} /\ \A x : Naming(args, {}, x) = {}
    BY DEF SetBy, Naming
  <2>2. ~ \E k \in 1 .. 0 : Promised!Malformed(args[k])
    OBVIOUS
  <2>3. Setting(st, args, 0, env)
    BY <2>1, <2>2 DEF Setting, st
  <2> QED BY <1>r, <2>3
<1>5. ASSUME NEW i \in 1 .. n, OK(i - 1) PROVE OK(i)
  <2>1. r[i] = setenv_arg(r[i - 1], args[i])
    BY <1>r
  <2>2. PICK k \in Nat : k = i - 1 /\ k + 1 = i
    BY <1>1
  <2>3. Setting(setenv_arg(r[k], args[k + 1]), args, k + 1, env)
    BY <1>5, <2>2, SetenvArg
  <2> QED BY <2>1, <2>2, <2>3
<1> HIDE DEF OK
<1> DEFINE Bad == {i \in Nat : i <= n /\ ~OK(i)}
<1>6. Bad = {}
  <2> SUFFICES ASSUME Bad # {} PROVE FALSE
    OBVIOUS
  <2>1. PICK i \in Bad : \A k \in Bad : i <= k
    BY LeastExists
  <2>2. i \in 1 .. n /\ i - 1 \in Nat /\ i - 1 <= n /\ ~(i <= i - 1)
    BY <1>1, <1>4, <2>1
  <2> QED BY <1>5, <2>1, <2>2
<1>7. OK(n)
  BY <1>1, <1>6
<1> QED
  <2>1. SetenvSays(args, env, env')
    BY <1>3, <1>r, <1>7 DEF OK, Setting, SetenvSays, n
  <2> QED BY <2>1 DEF args

IsDefined(t, args, D, val) ==
    /\ Promised!Define(t, args, val) =
         [x \in DOMAIN t |-> IF Naming(args, D, x) = {} THEN t[x]
                             ELSE val[Max(Naming(args, D, x))]]
    /\ \A x : Naming(args, D, x) # {} => Max(Naming(args, D, x)) \in D

\* What the definitions at the positions D make of a table.
LEMMA Defined ==
    ASSUME NEW n \in Nat, NEW D \in SUBSET (1 .. n), NEW args,
           \A i \in D : args[i] \in DOMAIN Assign, NEW t, NEW val, DOMAIN val = D
    PROVE  IsDefined(t, args, D, val)
<1>1. \A x : Naming(args, D, x) \in SUBSET (1 .. n) /\ Naming(args, D, x) \subseteq D
  BY DEF Naming
<1>2. \A x : Naming(args, D, x) # {} =>
        /\ Max(Naming(args, D, x)) \in Naming(args, D, x)
        /\ Promised!Max(Naming(args, D, x)) = Max(Naming(args, D, x))
  BY <1>1, MaxAmong
<1>3. \A x : {i \in DOMAIN val : Promised!Gives(args[i], x)} = Naming(args, D, x)
  BY DEF Promised!Gives, Naming
<1>4. \A x \in DOMAIN t :
        Naming(args, D, x) # {} =>
          val[Promised!Max(Naming(args, D, x))] = val[Max(Naming(args, D, x))]
  BY <1>2
<1>5. Promised!Define(t, args, val) =
        [x \in DOMAIN t |-> IF Naming(args, D, x) = {} THEN t[x]
                            ELSE val[Promised!Max(Naming(args, D, x))]]
  BY <1>3 DEF Promised!Define
<1> QED
  BY <1>1, <1>2, <1>4, <1>5 DEF IsDefined

--------------------------------------------------------------------------------
(* Refinement *)

\* What the builtins find: a list of aliases and an environment, and no command before
\* the rc file is read.
SessionInv ==
    /\ AliasList(alist)
    /\ env = [n \in EnvName |-> env[n]]
    /\ phase \in {"main", "startup"} => argv = <<>> /\ entered = 0

\* The table of aliases as Session has it.
Table == [n \in Names |-> alias_lookup(n)]

\* The table is what the list means.
LEMMA TableMeans ==
    ASSUME TRUE
    PROVE  /\ Table = [n \in Names |-> Meaning(alist, n)]
           /\ Table' = [n \in Names |-> Meaning(alist', n)]
  BY DEF Table, alias_lookup, Meaning

\* A step that leaves the session alone is none of Session.
LEMMA SessionStays ==
    ASSUME UNCHANGED <<session, argv, entered>>
    PROVE  UNCHANGED Promised!vars
  BY DEF session, Promised!vars, alias_lookup

\* A command that leaves the session alone is one that Session allows to.
LEMMA OtherStep ==
    ASSUME UNCHANGED session, NEW words \in Seq(Word), argv' = words,
           words = <<>> \/ words[1] \notin {"alias", "unalias", "setenv", "unsetenv", "cd"}
    PROVE  Promised!Other
  BY DEF session, Promised!Other, alias_lookup

\* alias
LEMMA AliasStep ==
    ASSUME SessionInv, NEW words \in Seq(Word), words # <<>>, words[1] = "alias",
           bi_alias(words), argv' = words
    PROVE  AliasList(alist') /\ UNCHANGED env /\ Promised!Alias
<1> DEFINE args == Tail(words)
           n == Len(args)
<1>1. args \in Seq(Word) /\ n \in Nat /\ DOMAIN args = 1 .. n
  <2>1. args \in Seq(Word)
    BY RestOfWords
  <2> HIDE DEF args
  <2> QED BY <2>1
<1>2. /\ AliasList(alist')
      /\ \E Q \in SUBSET (1 .. n) : AliasSays(args, Q, alist, alist')
  BY AliasMeans DEF SessionInv
<1>3. PICK Q \in SUBSET (1 .. n) : AliasSays(args, Q, alist, alist')
  BY <1>2
<1> DEFINE D == {j \in DOMAIN args \ Q :
                   /\ args[j] \in DOMAIN Assign
                   /\ Assign[args[j]].open => Promised!Ends(args, j) # {}}
           val == [i \in D |-> Promised!Given(args, i)]
<1> HIDE DEF args, n
<1>4. D = DoneBy(args, Q, n)
  <2>1. n = Len(args)
    BY DEF n
  <2>2. \A j \in 1 .. n : Promised!Ends(args, j) # {}
                            <=> \E k \in j + 1 .. n : args[k] \in DOMAIN Closes
    BY <1>1 DEF Promised!Ends
  <2> QED BY <1>1, <2>2 DEF DoneBy, Defines
<1>5. D \in SUBSET (1 .. n) /\ (\A i \in D : args[i] \in DOMAIN Assign) /\ DOMAIN val = D
  BY <1>1
<1>6. /\ Promised!Define(Table, args, val) =
           [x \in DOMAIN Table |-> IF Naming(args, D, x) = {} THEN Table[x]
                                   ELSE val[Max(Naming(args, D, x))]]
      /\ \A x : Naming(args, D, x) # {} => Max(Naming(args, D, x)) \in D
  <2> HIDE DEF D, val
  <2>1. IsDefined(Table, args, D, val)
    BY <1>1, <1>5, Defined
  <2> QED BY <2>1 DEF IsDefined
<1>7. ASSUME NEW x \in Names
      PROVE  Meaning(alist', x) = IF Naming(args, D, x) = {} THEN Table[x]
                                  ELSE val[Max(Naming(args, D, x))]
  <2>1. Meaning(alist', x) = ValueBy(args, D, x, Meaning(alist, x))
    BY <1>3, <1>4 DEF AliasSays, n
  <2>2. Table[x] = Meaning(alist, x)
    BY TableMeans
  <2>3. Naming(args, D, x) # {} =>
          val[Max(Naming(args, D, x))] = Promised!Given(args, Max(Naming(args, D, x)))
    BY <1>6
  <2> HIDE DEF D, val
  <2> QED BY <2>1, <2>2, <2>3 DEF ValueBy
<1>8. Table' = Promised!Define(Table, args, val)
  <2>1. DOMAIN Table = Names
    BY DEF Table
  <2> HIDE DEF D, val
  <2> QED BY <1>6, <1>7, <2>1, TableMeans
<1>9. UNCHANGED <<env, cwd, dirs>>
  BY DEF bi_alias
<1>10. Promised!Runs("alias")
  BY DEF Promised!Runs
<1>11. Promised!Quoted(args, Q) /\ Q \in SUBSET DOMAIN args /\ args = Tail(argv')
  BY <1>1, <1>3 DEF AliasSays, args
<1>12. Table' = Promised!Aliased(Table, args, Q)
  BY <1>8 DEF Promised!Aliased
<1>13. Promised!Alias
  <2> HIDE DEF D, val
  <2> QED BY <1>9, <1>10, <1>11, <1>12 DEF Promised!Alias, Table
<1> QED
  BY <1>2, <1>9, <1>13

\* unalias
LEMMA UnaliasStep ==
    ASSUME SessionInv, NEW words \in Seq(Word), words # <<>>, words[1] = "unalias",
           bi_unalias(words), argv' = words
    PROVE  AliasList(alist') /\ UNCHANGED env /\ Promised!Unalias
<1>1. AliasList(alist) /\ UNCHANGED <<env, cwd, dirs>>
  BY DEF SessionInv, bi_unalias
<1>0. Promised!Runs("unalias")
  BY DEF Promised!Runs
<1>2. CASE Len(words) # 2
  <2>1. UNCHANGED alist
    BY <1>1, <1>2 DEF bi_unalias, session
  <2>2. Table' = Table
    BY <2>1 DEF Table, alias_lookup
  <2> QED BY <1>0, <1>1, <1>2, <2>1, <2>2 DEF Promised!Unalias, Table
<1>3. CASE Len(words) = 2
  <2> DEFINE n == words[2]
  <2>1. /\ AliasList(alist')
        /\ \A m : Meaning(alist', m) = IF m = n THEN Nil ELSE Meaning(alist, m)
    <3>1. CASE alias_find(alist, n) = 0
      <4>1. alist' = alist
        BY <1>3, <3>1 DEF bi_unalias
      <4>2. Meaning(alist, n) = Nil
        BY <3>1 DEF Meaning
      <4> QED BY <1>1, <4>1, <4>2
    <3>2. CASE alias_find(alist, n) # 0
      <4>1. alist' = RemoveAt(alist, alias_find(alist, n))
        BY <1>3, <3>2 DEF bi_unalias
      <4> HIDE DEF n
      <4> QED BY <1>1, <3>2, <4>1, AliasLeaves
    <3> QED BY <3>1, <3>2
  <2>2. Table' = [Table EXCEPT ![n] = Nil]
    <3>1. /\ Table = [m \in Names |-> Meaning(alist, m)]
          /\ Table' = [m \in Names |-> Meaning(alist', m)]
      BY TableMeans
    <3> HIDE DEF n
    <3> QED BY <2>1, <3>1
  <2>3. Len(argv') = 2 /\ argv'[2] = n
    BY <1>3
  <2> HIDE DEF n
  <2>4. Promised!Unalias
    BY <1>0, <1>1, <2>2, <2>3 DEF Promised!Unalias, Table
  <2> QED BY <1>1, <2>1, <2>4
<1> QED
  BY <1>2, <1>3

\* setenv
LEMMA SetenvStep ==
    ASSUME SessionInv, NEW words \in Seq(Word), words # <<>>, words[1] = "setenv",
           bi_setenv(words), argv' = words
    PROVE  UNCHANGED alist /\ env' = [n \in EnvName |-> env'[n]] /\ Promised!Setenv
<1> DEFINE args == Tail(words)
           n == Len(args)
           D == {j \in DOMAIN args : \A k \in 1 .. j : ~Promised!Malformed(args[k])}
           val == [i \in D |-> Assign[args[i]].value]
<1>1. args \in Seq(Word) /\ n \in Nat /\ DOMAIN args = 1 .. n
  <2>1. args \in Seq(Word)
    BY RestOfWords
  <2> HIDE DEF args
  <2> QED BY <2>1
<1>2. UNCHANGED <<alist, cwd, dirs>> /\ env = [x \in EnvName |-> env[x]]
  BY DEF bi_setenv, SessionInv
<1>3. UNCHANGED Table
  BY <1>2 DEF Table, alias_lookup
<1>4. SetenvSays(args, env, env')
  BY <1>2, SetenvMeans
<1> HIDE DEF args, n
<1>5. D = SetBy(args, n)
  BY <1>1 DEF SetBy
<1>6. D \in SUBSET (1 .. n) /\ (\A i \in D : args[i] \in DOMAIN Assign) /\ DOMAIN val = D
  <2>1. \A i \in D : i \in 1 .. i
    BY <1>1
  <2>2. \A i \in D : ~Promised!Malformed(args[i])
    BY <2>1
  <2> QED BY <1>1, <2>2 DEF Promised!Malformed
<1>7. /\ Promised!Define(env, args, val) =
           [x \in DOMAIN env |-> IF Naming(args, D, x) = {} THEN env[x]
                                 ELSE val[Max(Naming(args, D, x))]]
      /\ \A x : Naming(args, D, x) # {} => Max(Naming(args, D, x)) \in D
  <2> HIDE DEF D, val
  <2>1. IsDefined(env, args, D, val)
    BY <1>1, <1>6, Defined
  <2> QED BY <2>1 DEF IsDefined
<1>8. \A x : Naming(args, D, x) # {} =>
               val[Max(Naming(args, D, x))] = Assign[args[Max(Naming(args, D, x))]].value
  BY <1>7
<1>9. env' = Promised!Define(env, args, val) /\ env' = [x \in EnvName |-> env'[x]]
  <2>1. DOMAIN env = EnvName
    BY <1>2
  <2>2. env' = [x \in EnvName |-> IF Naming(args, D, x) = {} THEN env[x]
                                  ELSE Assign[args[Max(Naming(args, D, x))]].value]
    BY <1>4, <1>5 DEF SetenvSays, n
  <2> HIDE DEF D, val
  <2> QED BY <1>7, <1>8, <2>1, <2>2
<1>10. Promised!Runs("setenv") /\ args = Tail(argv')
  BY DEF Promised!Runs, args
<1>11. Promised!Setenv
  BY <1>2, <1>3, <1>9, <1>10 DEF Promised!Setenv, Table
<1> QED
  BY <1>2, <1>9, <1>11

\* unsetenv
LEMMA UnsetenvStep ==
    ASSUME SessionInv, NEW words \in Seq(Word), words # <<>>, words[1] = "unsetenv",
           bi_unsetenv(words), argv' = words
    PROVE  UNCHANGED alist /\ env' = [n \in EnvName |-> env'[n]] /\ Promised!Unsetenv
<1>1. UNCHANGED <<alist, cwd, dirs>> /\ env = [n \in EnvName |-> env[n]]
  BY DEF bi_unsetenv, SessionInv
<1>2. UNCHANGED Table
  BY <1>1 DEF Table, alias_lookup
<1>3. Promised!Runs("unsetenv")
  BY DEF Promised!Runs
<1>4. (\E i \in 2 .. Len(words) : bad_name(words[i]))
        <=> \E w \in Range(Tail(words)) : bad_name(w)
  <2> DEFINE args == Tail(words)
  <2>1. /\ Len(words) \in Nat \ {0} /\ Len(args) = Len(words) - 1 /\ DOMAIN args = 1 .. Len(args)
        /\ \A i \in 1 .. Len(args) : args[i] = words[i + 1]
    OBVIOUS
  <2>2. ASSUME NEW i \in 2 .. Len(words) PROVE words[i] \in Range(args)
    <3>1. i - 1 \in 1 .. Len(args) /\ (i - 1) + 1 = i
      BY <2>1
    <3>2. args[i - 1] = words[i]
      BY <2>1, <3>1
    <3> HIDE DEF args
    <3> QED BY <2>1, <3>1, <3>2 DEF Range
  <2>3. ASSUME NEW w \in Range(args) PROVE \E i \in 2 .. Len(words) : words[i] = w
    <3> HIDE DEF args
    <3>1. PICK i \in DOMAIN args : args[i] = w
      BY <2>3 DEF Range
    <3>2. i + 1 \in 2 .. Len(words) /\ words[i + 1] = w
      BY <2>1, <3>1
    <3> QED BY <3>2
  <2> HIDE DEF args
  <2>4. Range(args) = Range(Tail(words))
    BY DEF args
  <2> QED BY <2>2, <2>3, <2>4
<1>5. /\ Promised!Range(Tail(words)) = Range(Tail(words))
      /\ \A w : Promised!Bad(w) <=> bad_name(w)
  BY DEF Promised!Range, Range, Promised!Bad, bad_name
<1>6. DOMAIN env = EnvName
  BY <1>1
<1>7. env' = IF \E w \in Promised!Range(Tail(words)) : Promised!Bad(w) THEN env
             ELSE [n \in DOMAIN env |-> IF n \in Promised!Range(Tail(words)) THEN Nil ELSE env[n]]
  BY <1>4, <1>5, <1>6 DEF bi_unsetenv
<1>8. env' = [n \in EnvName |-> env'[n]]
  BY <1>1, <1>6, <1>7
<1>9. Promised!Unsetenv
  BY <1>1, <1>2, <1>3, <1>7 DEF Promised!Unsetenv, Table
<1> QED
  BY <1>1, <1>8, <1>9

\* cd
LEMMA CdStep ==
    ASSUME SessionInv, NEW words \in Seq(Word), words # <<>>, words[1] = "cd",
           bi_cd(words), argv' = words
    PROVE  UNCHANGED alist /\ env' = [n \in EnvName |-> env'[n]] /\ Promised!Cd
<1>0. UNCHANGED <<alist, dirs>> /\ env = [n \in EnvName |-> env[n]]
  BY DEF bi_cd, SessionInv
<1>1. UNCHANGED Table
  BY <1>0 DEF Table, alias_lookup
<1>2. Promised!Runs("cd") /\ Promised!Destination = Destination(words)
  BY DEF Promised!Runs, Promised!Destination, Destination
<1>3. CASE Destination(words) \notin dirs
  <2>1. UNCHANGED <<cwd, env>>
    BY <1>3 DEF bi_cd
  <2>2. Promised!Cd
    BY <1>0, <1>1, <1>2, <1>3, <2>1 DEF Promised!Cd, Table
  <2> QED BY <1>0, <2>1, <2>2
<1>4. CASE Destination(words) \in dirs
  <2>1. PICK old \in IF cwd \in dirs THEN {cwd} ELSE Stack : env' = [env EXCEPT !["OLDPWD"] = old]
    BY <1>4 DEF bi_cd
  <2>2. cwd' = Destination(words)
    BY <1>4 DEF bi_cd
  <2>3. "OLDPWD" \in EnvName
    BY DEF EnvName
  <2>4. /\ env' = [n \in EnvName |-> env'[n]] /\ env'["OLDPWD"] = old
        /\ cwd \in dirs => old = cwd
    BY <1>0, <2>1, <2>3
  <2>5. env' = [env EXCEPT !["OLDPWD"] = env'["OLDPWD"]]
    BY <2>1, <2>4
  <2>6. Promised!Cd
    BY <1>0, <1>1, <1>2, <1>4, <2>2, <2>4, <2>5 DEF Promised!Cd, Table
  <2> QED BY <1>0, <2>4, <2>6
<1> QED
  BY <1>3, <1>4

\* Whatever command is run.
LEMMA CommandStep ==
    ASSUME SessionInv, NEW words \in Seq(Word), argv' = words, NEW fork, Run(words, fork)
    PROVE  /\ AliasList(alist') /\ env' = [n \in EnvName |-> env'[n]]
           /\ \/ Promised!Alias \/ Promised!Unalias \/ Promised!Setenv \/ Promised!Unsetenv
              \/ Promised!Cd \/ Promised!Other
<1>1. CASE /\ UNCHANGED session
           /\ words = <<>> \/ words[1] \notin Builtin \/ words[1] \in {"exit"} \cup Printers
  <2>1. Promised!Other
    BY <1>1, OtherStep DEF Builtin, Printers
  <2> QED BY <1>1, <2>1 DEF session, SessionInv
<1>2. CASE words # <<>> /\ words[1] \in Builtin \ {"exit"} /\ bi_call(words)
  <2>1. CASE words[1] = "cd"
    <3>1. bi_cd(words)
      BY <1>2, <2>1 DEF bi_call, bi_cd, bi_setenv, bi_unsetenv, bi_alias, bi_unalias, Printers
    <3>2. UNCHANGED alist /\ env' = [n \in EnvName |-> env'[n]] /\ Promised!Cd
      BY <1>2, <2>1, <3>1, CdStep
    <3> QED BY <3>2 DEF SessionInv
  <2>2. CASE words[1] = "alias"
    <3>1. bi_alias(words)
      BY <1>2, <2>2 DEF bi_call, bi_cd, bi_setenv, bi_unsetenv, bi_alias, bi_unalias, Printers
    <3>2. AliasList(alist') /\ UNCHANGED env /\ Promised!Alias
      BY <1>2, <2>2, <3>1, AliasStep
    <3> QED BY <3>2 DEF SessionInv
  <2>3. CASE words[1] = "unalias"
    <3>1. bi_unalias(words)
      BY <1>2, <2>3 DEF bi_call, bi_cd, bi_setenv, bi_unsetenv, bi_alias, bi_unalias, Printers
    <3>2. AliasList(alist') /\ UNCHANGED env /\ Promised!Unalias
      BY <1>2, <2>3, <3>1, UnaliasStep
    <3> QED BY <3>2 DEF SessionInv
  <2>4. CASE words[1] = "setenv"
    <3>1. bi_setenv(words)
      BY <1>2, <2>4 DEF bi_call, bi_cd, bi_setenv, bi_unsetenv, bi_alias, bi_unalias, Printers
    <3>2. UNCHANGED alist /\ env' = [n \in EnvName |-> env'[n]] /\ Promised!Setenv
      BY <1>2, <2>4, <3>1, SetenvStep
    <3> QED BY <3>2 DEF SessionInv
  <2>5. CASE words[1] = "unsetenv"
    <3>1. bi_unsetenv(words)
      BY <1>2, <2>5 DEF bi_call, bi_cd, bi_setenv, bi_unsetenv, bi_alias, bi_unalias, Printers
    <3>2. UNCHANGED alist /\ env' = [n \in EnvName |-> env'[n]] /\ Promised!Unsetenv
      BY <1>2, <2>5, <3>1, UnsetenvStep
    <3> QED BY <3>2 DEF SessionInv
  <2>6. CASE words[1] \in Printers
    BY <1>1, <1>2, <2>6 DEF bi_call, Printers
  <2> QED BY <1>2, <2>1, <2>2, <2>3, <2>4, <2>5, <2>6 DEF Builtin
<1> QED
  BY <1>1, <1>2 DEF Run

\* The words of a line, with the first one expanded, are words.
LEMMA ExpandedWords ==
    ASSUME SessionInv, NEW line \in Lines, expand_alias(tokenise(line)) \/ argv' = tokenise(line)
    PROVE  argv' \in Seq(Word)
<1>1. line \in Seq(Word) /\ line # <<>> /\ Len(line) \in Nat \ {0}
  BY ShellAssumption, WordAssumption
<1>2. tokenise(line) \in Seq(Word) /\ tokenise(line) # <<>>
  <2>1. CASE Len(line) < MaxArgs
    BY <1>1, <2>1 DEF tokenise
  <2>2. CASE ~(Len(line) < MaxArgs)
    <3>1. MaxArgs - 1 \in 1 .. Len(line)
      BY <1>1, <2>2, ShellAssumption
    <3>2. /\ SubSeq(line, 1, MaxArgs - 1) \in Seq(Word)
          /\ Len(SubSeq(line, 1, MaxArgs - 1)) = MaxArgs - 1
      BY <1>1, <3>1
    <3> QED BY <2>2, <3>1, <3>2 DEF tokenise
  <2> QED BY <2>1, <2>2
<1>3. PICK words \in Seq(Word) : words = tokenise(line) /\ words # <<>>
  BY <1>2
<1>4. ASSUME expand_alias(words) PROVE argv' \in Seq(Word)
  <2> DEFINE exp == Meaning(alist, words[1])
  <2>1. alias_lookup(words[1]) = exp
    BY DEF alias_lookup, Meaning
  <2> HIDE DEF exp
  <2>2. argv' = words \/ argv' = <<>> \/ (exp # Nil /\ argv' = exp \o Tail(words))
    BY <1>4, <2>1 DEF expand_alias
  <2>3. exp # Nil => exp \in Seq(Word)
    BY Finds DEF exp, SessionInv, Has
  <2>4. Tail(words) \in Seq(Word) /\ <<>> \in Seq(Word)
    BY <1>3, RestOfWords
  <2>5. exp # Nil => exp \o Tail(words) \in Seq(Word)
    BY <2>3, <2>4, ConcatProperties
  <2> QED BY <2>2, <2>4, <2>5
<1> QED
  BY <1>3, <1>4

\* Every step of the shell is one that Session allows.
LEMMA StepSession ==
    ASSUME SessionInv, [Next]_vars
    PROVE  SessionInv' /\ [Promised!Next]_Promised!vars
<1>1. CASE UNCHANGED vars
  <2>1. UNCHANGED <<session, argv, entered, phase>>
    BY <1>1 DEF vars, process, command
  <2> QED BY <2>1, SessionStays DEF session, SessionInv
<1>2. CASE run_rc \/ Command
  <2>1. PICK line \in Lines, fork \in {"fork", "rcfork"} :
           /\ expand_alias(tokenise(line)) \/ argv' = tokenise(line)
           /\ Run(argv', fork)
    BY <1>2 DEF run_rc, Command
  <2>2. phase \in {"rc", "prompt"} /\ phase' \in {phase, fork, "gone"}
    BY <1>2, <2>1 DEF run_rc, Command, Run, Exit
  <2>3. PICK words \in Seq(Word) : words = argv'
    BY <2>1, ExpandedWords
  <2>4. Run(words, fork) /\ entered' = entered + 1
    BY <1>2, <2>1, <2>3 DEF run_rc, Command
  <2>5. /\ AliasList(alist') /\ env' = [n \in EnvName |-> env'[n]]
        /\ \/ Promised!Alias \/ Promised!Unalias \/ Promised!Setenv \/ Promised!Unsetenv
           \/ Promised!Cd \/ Promised!Other
    BY <2>3, <2>4, CommandStep
  <2>7. Promised!Next
    BY <2>4, <2>5 DEF Promised!Next, Promised!Command
  <2>6. phase' \notin {"main", "startup"}
    BY <2>2
  <2> QED BY <2>5, <2>6, <2>7 DEF SessionInv
<1>3. CASE Startup
  <2>1. /\ phase = "startup" /\ phase' = "rc" /\ env' = [env EXCEPT !["PATH"] = <<"bin">> \o @]
        /\ UNCHANGED <<argv, entered, alist, cwd, dirs>>
    BY <1>3 DEF Startup, command
  <2>2. env' = [n \in EnvName |-> env'[n]] /\ argv = <<>> /\ entered = 0
    BY <2>1 DEF SessionInv
  <2>3. Promised!Startup
    BY <2>1, <2>2 DEF Promised!Startup, alias_lookup
  <2> QED BY <2>1, <2>2, <2>3 DEF SessionInv, Promised!Next
<1>4. ASSUME NEW k \in Kid, Rmdir(k) PROVE SessionInv' /\ Promised!Next
  <2>1. UNCHANGED <<argv, entered, phase, alist, env, cwd>> /\ dirs' \subseteq dirs
    BY <1>4 DEF Rmdir, rest, command
  <2>2. Promised!Rmdir
    BY <2>1 DEF Promised!Rmdir, alias_lookup
  <2> QED BY <2>1, <2>2 DEF SessionInv, Promised!Next
<1>5. CASE /\ UNCHANGED <<session, argv, entered>>
           /\ phase' \in {"main", "startup"} => phase \in {"main", "startup"}
  BY <1>5, SessionStays DEF session, SessionInv
<1>6. CASE Handlers \/ RcEnds \/ EndOfInput \/ Terminate \/ \E s \in Key : Press(s)
  <2>1. UNCHANGED <<session, argv, entered>>
    BY <1>6 DEF Handlers, RcEnds, EndOfInput, Terminate, Press, command
  <2>2. phase' \in {"main", "startup"} => phase \in {"main", "startup"}
    BY <1>6 DEF Handlers, RcEnds, EndOfInput, Terminate, Press, Deliver, Exit
  <2> QED BY <1>5, <2>1, <2>2
<1>7. CASE Fork \/ ForkFails \/ ChildReturns \/ RcChildReturns
  <2>1. UNCHANGED <<session, argv, entered>>
    BY <1>7 DEF Fork, ForkFails, ChildReturns, RcChildReturns, command
  <2>2. phase' \in {"main", "startup"} => phase \in {"main", "startup"}
    <3>1. phase \in DOMAIN Wait => Wait[phase] \in {"wait", "rcwait"}
      BY DEF Wait
    <3> QED BY <1>7, <3>1 DEF Fork, ForkFails, ChildReturns, RcChildReturns
  <2> QED BY <1>5, <2>1, <2>2
<1>8. ASSUME NEW k \in Kid, \/ ChildStep(k) \/ TermChild(k) \/ SetTerminal(k)
                            \/ Leave(k) \/ Continue(k)
      PROVE  SessionInv' /\ [Promised!Next]_Promised!vars
  <2>1. UNCHANGED <<session, argv, entered, phase>>
    BY <1>8 DEF ChildStep, RestoreCooked, Exec, TermChild, SetTerminal, Leave, Continue,
                rest, command
  <2> QED BY <1>5, <2>1
<1> QED
  BY <1>1, <1>2, <1>3, <1>4, <1>6, <1>7, <1>8 DEF Next, ShellStep

\* The shell keeps the promises of Session, for any lines, aliases and variables: every
\* command of a builtin has the effect on aliases, environment and directory that its
\* arguments name, a command that stops half way the one of those before, and no other
\* command or program has any.
THEOREM ShellKeepsSession == Spec => KeepsSession
<1>1. Init => SessionInv /\ Promised!Init
  <2> SUFFICES ASSUME Init PROVE SessionInv /\ Promised!Init
    OBVIOUS
  <2>1. AliasList(alist)
    <3>1. alist = <<>> /\ <<>> \in Seq(Entry)
      BY DEF Init
    <3> QED BY <3>1 DEF AliasList
  <2>2. env = [n \in EnvName |-> env[n]] /\ argv = <<>> /\ entered = 0
    BY DEF Init
  <2>3. \A n \in Names : alias_lookup(n) = Nil
    <3>1. \A n : ~Has(alist, n)
      BY DEF Init, Has
    <3>2. \A n : alias_lookup(n) = Meaning(alist, n)
      BY DEF alias_lookup, Meaning
    <3> QED BY <2>1, <3>1, <3>2, Finds
  <2>4. cwd = Home /\ Home \in dirs
    BY ShellAssumption DEF Init
  <2>5. Promised!Init
    BY <2>2, <2>3, <2>4 DEF Promised!Init
  <2> QED BY <2>1, <2>2, <2>5 DEF SessionInv
<1>2. SessionInv /\ [Next]_vars => SessionInv' /\ [Promised!Next]_Promised!vars
  BY StepSession
<1> QED
  BY <1>1, <1>2, PTL DEF Spec, KeepsSession, Promised!Spec
==============================================================================
