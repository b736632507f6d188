--------------------------------- MODULE Shell ---------------------------------
(***************************************************************************)
(* The shell around its prompt: main, startup, the rc file, fork_child and *)
(* the signals of src/tetrish/shell.c, the builtins of builtin.c, and the  *)
(* terminal settings that cmdline.c saves and restores.                    *)
(*                                                                         *)
(* The programs it runs, the terminal and the kernel are external.  A word *)
(* of a command is a model value or string; a word that holds an equals    *)
(* sign is a member of DOMAIN Assign, which says what stands on each side. *)
(* Listings (help, usage, env, bins, alias without a value) and the log    *)
(* file change nothing that is kept here.                                  *)
(***************************************************************************)
EXTENDS Integers, Sequences, FiniteSets, SequencesExt

CONSTANTS
    Nil,
    Kid,        \* bound: the processes the shell may fork
    Lines,      \* the command lines, as words, that are typed or in the rc file
    Names,      \* the words that may become aliases
    Assign,     \* name=value words: their name, the words of the value, and
                \* whether the value opens a quote that the word does not close
    Closes,     \* the words that end in a quote, and what they are without it
    BadName,    \* words that are no name of a variable
    Dirs,       \* directories, as values of variables
    Home,       \* the directory the shell starts in, and $HOME
    Stack,      \* what an uninitialised cwd_old may hold
    MaxArgs,    \* MAX_ARGS
    MaxLines,   \* bound: command lines
    MaxFails    \* bound: forks that fail

EnvName == {"HOME", "OLDPWD", "PATH"} \cup ({Assign[w].name : w \in DOMAIN Assign} \ BadName)

\* The words of the lines, of the values and of quotes that are closed.
Word ==
    (UNION {Range(l) : l \in Lines})
        \cup (UNION {Range(Assign[w].value) : w \in DOMAIN Assign})
        \cup {Closes[w] : w \in DOMAIN Closes}

ASSUME ShellAssumption ==
    /\ MaxArgs \in Nat \ {0, 1} /\ MaxLines \in Nat /\ MaxFails \in Nat
    /\ Home \in Dirs /\ Nil \notin Kid
    /\ \A l \in Lines : l # <<>>

ASSUME WordAssumption ==
    /\ Lines \subseteq Seq(Word) /\ Nil \notin Seq(Word)
    /\ \A w \in DOMAIN Assign : Assign[w].name # Nil /\ Assign[w].value \in Seq(Word)

VARIABLES
    phase,      \* where the shell is; "gone": it has ended
    sig,        \* what the shell does on a signal
    waiting,    \* the process waitpid waits for, Nil: any
    kid,        \* the state of each process
    keys,       \* the keys whose signals reach it
    tty,        \* the settings of the terminal
    orig,       \* the saved ones, "zero" until there are any
    touched,    \* the programs that have made the terminal raw themselves (history)
    spoilt,     \* a fork failed, or a program did not leave the terminal as it was
                \* (history)
    argv,       \* the words of the command
    owner,      \* whose they are: "line", "heap" (copied by expand_alias) or "freed"
    argv_allocated,
    alist,      \* the list of aliases, its head first
    env, cwd,
    dirs,       \* the directories that exist
    entered,    \* command lines so far
    fails       \* failed forks so far

terminal == <<tty, orig, touched, spoilt>>
kids == <<kid, keys>>
process == <<phase, sig, waiting, kids, entered, fails>>
command == <<argv, owner, argv_allocated>>
session == <<alist, env, cwd, dirs>>
vars == <<process, terminal, command, session>>

Key == {"INT", "QUIT", "TSTP"}

KidState == {"none", "forked", "cooked", "run", "stopped", "seen", "zombie", "reaped"}

--------------------------------------------------------------------------------
(* Terminal *)

\* tcgetattr, then the same without ECHO, ICANON and IXON
Raw(t) == IF t = "cooked" THEN "raw" ELSE t

\* The settings are saved each time.
line_raw_init == orig' = tty /\ tty' = Raw(tty)

\* line_raw_cleanup, restore_cooked
restore == tty' = orig /\ UNCHANGED orig

--------------------------------------------------------------------------------
(* Aliases *)

alias_find(list, n) == SelectInSeq(list, LAMBDA a : a.name = n)

alias_lookup(n) ==
    IF alias_find(alist, n) = 0 THEN Nil ELSE alist[alias_find(alist, n)].value

alias_set_Twice(list, n, v) == <<[name |-> n, value |-> v]>> \o list

\* An alias that is there gets the new value, another one becomes the head.
alias_set(list, n, v) ==
    IF alias_find(list, n) = 0 THEN <<[name |-> n, value |-> v]>> \o list
    ELSE [list EXCEPT ![alias_find(list, n)].value = v]

\* One argument of alias: a query, a definition, the start of a quoted value, or
\* a word in one (todo).
alias_arg(st, w) ==
    IF st.todo # Nil
    THEN IF w \in DOMAIN Closes
         THEN [list |-> alias_set(st.list, st.todo, Append(st.value, Closes[w])),
               todo |-> Nil, value |-> <<>>]
         ELSE [st EXCEPT !.value = Append(@, w)]
    ELSE IF w \notin DOMAIN Assign THEN st
    ELSE IF Assign[w].open
         THEN [st EXCEPT !.todo = Assign[w].name, !.value = Assign[w].value]
         ELSE [st EXCEPT !.list = alias_set(@, Assign[w].name, Assign[w].value)]

\* A quote that is never closed ends the command; the aliases before it stay.
bi_alias(words) ==
    /\ alist' = FoldLeft(alias_arg, [list |-> alist, todo |-> Nil, value |-> <<>>],
                         Tail(words)).list
    /\ UNCHANGED <<env, cwd, dirs>>

bi_unalias(words) ==
    /\ alist' = IF Len(words) = 2 /\ alias_find(alist, words[2]) # 0
                THEN RemoveAt(alist, alias_find(alist, words[2])) ELSE alist
    /\ UNCHANGED <<env, cwd, dirs>>

--------------------------------------------------------------------------------
(* Environment and working directory *)

bad_name(w) == w \in BadName \/ w \in DOMAIN Assign

\* Variables are set up to the first argument that is malformed.
setenv_arg(st, w) ==
    IF st.failed \/ w \notin DOMAIN Assign THEN [st EXCEPT !.failed = TRUE]
    ELSE IF bad_name(Assign[w].name) THEN [st EXCEPT !.failed = TRUE]
    ELSE [st EXCEPT !.env[Assign[w].name] = Assign[w].value]

bi_setenv(words) ==
    /\ env' = FoldLeft(setenv_arg, [env |-> env, failed |-> FALSE], Tail(words)).env
    /\ UNCHANGED <<alist, cwd, dirs>>

\* All names are looked at before the first is unset.
bi_unsetenv(words) ==
    /\ env' = IF \E i \in 2 .. Len(words) : bad_name(words[i]) THEN env
              ELSE [n \in EnvName |-> IF n \in Range(Tail(words)) THEN Nil ELSE env[n]]
    /\ UNCHANGED <<alist, cwd, dirs>>

Destination(words) ==
    IF Len(words) = 1 THEN env["HOME"]
    ELSE IF words[2] = "-" THEN env["OLDPWD"] ELSE <<words[2]>>

\* getcwd fails, and its result is used, when the directory left does not exist.
bi_cd(words) ==
    /\ IF Destination(words) \in dirs
       THEN /\ cwd' = Destination(words)
            /\ \E old \in IF cwd \in dirs THEN {cwd} ELSE Stack :
                 env' = [env EXCEPT !["OLDPWD"] = old]
       ELSE UNCHANGED <<cwd, env>>
    /\ UNCHANGED <<alist, dirs>>

Printers == {"help", "usage", "env", "bins"}
Builtin == {"exit", "cd", "setenv", "unsetenv", "alias", "unalias"} \cup Printers

--------------------------------------------------------------------------------
(* The shell *)

\* exit: the atexit functions.  _exit in catch_and_restore does the same here.
Exit == phase' = "gone" /\ restore

\* The builtins other than exit, in the order of the table.
bi_call(words) ==
    CASE words[1] = "cd" -> bi_cd(words)
      [] words[1] = "setenv" -> bi_setenv(words)
      [] words[1] = "unsetenv" -> bi_unsetenv(words)
      [] words[1] = "alias" -> bi_alias(words)
      [] words[1] = "unalias" -> bi_unalias(words)
      [] words[1] \in Printers -> UNCHANGED session

\* The words beyond the last but one place of argv are dropped.
tokenise(line) == IF Len(line) < MaxArgs THEN line ELSE SubSeq(line, 1, MaxArgs - 1)

expand_alias_KeepsFlag(words) ==
    LET exp == alias_lookup(words[1])
    IN /\ argv' = IF exp = Nil THEN words ELSE exp \o Tail(words)
       /\ owner' = IF exp = Nil THEN "line" ELSE "heap"
       /\ argv_allocated' = (argv_allocated \/ exp # Nil)

\* Once, and only the first word.  No words are left of an alias that stands for
\* none, or for too many.
expand_alias(words) ==
    LET exp == alias_lookup(words[1])
        long == /\ exp # Nil
                /\ Len(exp) + Len(words) - 1 >= MaxArgs \/ Len(exp) >= MaxArgs - 1
    IN /\ argv' = IF exp = Nil THEN words
                  ELSE IF long THEN <<>> ELSE exp \o Tail(words)
       /\ owner' = IF exp = Nil \/ long THEN "line" ELSE "heap"
       /\ argv_allocated' = (exp # Nil /\ ~long)

\* Runs a command of the prompt ("fork") or of the rc file ("rcfork").
Run(words, fork) ==
    \/ /\ words = <<>>
       /\ UNCHANGED <<phase, tty, orig, session>>
    \/ /\ words # <<>> /\ words[1] = "exit"
       /\ Exit /\ UNCHANGED session
    \/ /\ words # <<>> /\ words[1] \in Builtin \ {"exit"}
       /\ bi_call(words)
       /\ UNCHANGED <<phase, tty, orig>>
    \/ /\ words # <<>> /\ words[1] \notin Builtin
       /\ \E k \in Kid : kid[k] = "none"
       /\ phase' = fork
       /\ UNCHANGED <<tty, orig, session>>

\* cleanup_handlers
Handlers ==
    /\ phase = "main" /\ phase' = "startup"
    /\ sig' = [sig EXCEPT !["TERM"] = "catch", !["QUIT"] = "catch"]
    /\ UNCHANGED <<waiting, kids, entered, fails, terminal, command, session>>

tty_disable_ctrl_c == sig' = [s \in DOMAIN sig |-> IF s \in Key THEN "ignore" ELSE sig[s]]

\* startup, as far as the rc file
Startup ==
    /\ phase = "startup" /\ phase' = "rc"
    /\ tty_disable_ctrl_c
    /\ env' = [env EXCEPT !["PATH"] = <<"bin">> \o @]
    /\ UNCHANGED <<waiting, kids, entered, fails, terminal, command, alist, cwd, dirs>>

\* A line of the rc file; its aliases are not expanded.
run_rc ==
    /\ phase = "rc" /\ entered < MaxLines
    /\ entered' = entered + 1
    /\ \E line \in Lines :
         /\ argv' = tokenise(line)
         /\ Run(argv', "rcfork")
    /\ UNCHANGED <<owner, argv_allocated, sig, waiting, kids, fails, touched, spoilt>>

\* The end of the rc file
RcEnds ==
    /\ phase = "rc" /\ phase' = "prompt"
    /\ line_raw_init
    /\ UNCHANGED <<sig, waiting, kids, entered, fails, touched, spoilt, command, session>>

\* One turn of main's loop, up to fork_child.
Command ==
    /\ phase = "prompt" /\ entered < MaxLines
    /\ entered' = entered + 1
    /\ \E line \in Lines :
         /\ expand_alias(tokenise(line))
         /\ Run(argv', "fork")
    /\ UNCHANGED <<sig, waiting, kids, fails, touched, spoilt>>

\* line_read returns -1.
EndOfInput ==
    /\ phase = "prompt"
    /\ Exit
    /\ UNCHANGED <<sig, waiting, kids, entered, fails, touched, spoilt, command, session>>

Wait == [fork |-> "wait", rcfork |-> "rcwait"]

Fork ==
    /\ phase \in DOMAIN Wait /\ phase' = Wait[phase]
    /\ \E k \in Kid :
         /\ kid[k] = "none"
         /\ kid' = [kid EXCEPT ![k] = IF phase = "fork" THEN "forked" ELSE "cooked"]
         /\ waiting' = k
    /\ UNCHANGED <<keys, sig, entered, fails, terminal, command, session>>

\* fork returns -1, which waitpid takes for any process.  The terminal is still raw.
ForkFails ==
    /\ phase \in DOMAIN Wait /\ phase' = Wait[phase]
    /\ fails < MaxFails /\ fails' = fails + 1
    /\ waiting' = Nil
    /\ spoilt' = (spoilt \/ phase = "fork")
    /\ UNCHANGED <<kids, sig, entered, tty, orig, touched, command, session>>

\* The process, or any one, has ended or, with WUNTRACED, newly stopped; or there is
\* none to wait for (external).
waitpid(untraced) ==
    \/ \E k \in Kid :
         /\ waiting \in {k, Nil}
         /\ \/ kid[k] = "zombie" /\ kid' = [kid EXCEPT ![k] = "reaped"]
            \/ untraced /\ kid[k] = "stopped" /\ kid' = [kid EXCEPT ![k] = "seen"]
    \/ /\ waiting = Nil /\ \A k \in Kid : kid[k] \in {"none", "reaped"}
       /\ UNCHANGED kid

ChildReturns_NotStopped ==
    /\ phase = "wait" /\ phase' = "prompt"
    /\ waitpid(FALSE)
    /\ line_raw_init
    /\ owner' = IF argv_allocated THEN "freed" ELSE owner
    /\ UNCHANGED <<keys, sig, waiting, entered, fails, touched, spoilt, argv,
                   argv_allocated, session>>

\* The rest of fork_child, and of the turn of main's loop.
ChildReturns ==
    /\ phase = "wait" /\ phase' = "prompt"
    /\ waitpid(TRUE)
    /\ line_raw_init
    /\ owner' = IF argv_allocated THEN "freed" ELSE owner
    /\ UNCHANGED <<keys, sig, waiting, entered, fails, touched, spoilt, argv,
                   argv_allocated, session>>

RcChildReturns ==
    /\ phase = "rcwait" /\ phase' = "rc"
    /\ waitpid(FALSE)
    /\ UNCHANGED <<keys, sig, waiting, entered, fails, terminal, command, session>>

--------------------------------------------------------------------------------
(* Children *)

rest == <<phase, sig, waiting, entered, fails, command>>

RestoreCooked_Not(k) ==
    /\ kid[k] = "forked" /\ kid' = [kid EXCEPT ![k] = "cooked"]
    /\ UNCHANGED <<tty, orig, keys, touched, spoilt, rest, session>>

RestoreCooked(k) ==
    /\ kid[k] = "forked" /\ kid' = [kid EXCEPT ![k] = "cooked"]
    /\ restore
    /\ UNCHANGED <<keys, touched, spoilt, rest, session>>

tty_restore_ctrl_c_NotStop == {"INT", "QUIT"}

\* The keys whose signals are set back to the default.
tty_restore_ctrl_c == {"INT", "QUIT", "TSTP"}

\* The program starts, or there is none and the child ends.
Exec(k) ==
    /\ kid[k] = "cooked"
    /\ \/ kid' = [kid EXCEPT ![k] = "run"] /\ keys' = [keys EXCEPT ![k] = tty_restore_ctrl_c]
       \/ kid' = [kid EXCEPT ![k] = "zombie"] /\ UNCHANGED keys
    /\ UNCHANGED <<terminal, rest, session>>

\* SIGTERM before there is a program: the child has the shell's handler.
TermChild(k) ==
    /\ kid[k] \in {"forked", "cooked"} /\ kid' = [kid EXCEPT ![k] = "zombie"]
    /\ restore
    /\ spoilt' = (spoilt \/ orig = "zero")
    /\ UNCHANGED <<keys, touched, rest, session>>

\* A program changes the terminal: for itself, if it is the one waited for, and
\* badly for all if not (external).
SetTerminal(k) ==
    /\ kid[k] = "run"
    /\ \/ tty' = "raw" /\ touched' = touched \cup {k}
       \/ tty' = "cooked" /\ touched' = touched \ {k}
    /\ spoilt' = (spoilt \/ waiting # k \/ phase \notin {"wait", "rcwait"})
    /\ UNCHANGED <<orig, kids, rest, session>>

Rmdir(k) ==
    /\ kid[k] = "run"
    /\ \E d \in dirs \ {Home} : dirs' = dirs \ {d}
    /\ UNCHANGED <<kids, terminal, rest, alist, env, cwd>>

\* A program ends, or is killed.
Leave(k) ==
    /\ kid[k] = "run" /\ kid' = [kid EXCEPT ![k] = "zombie"]
    /\ spoilt' = (spoilt \/ k \in touched)
    /\ UNCHANGED <<keys, tty, orig, touched, rest, session>>

\* SIGCONT from elsewhere; the shell never sends one.
Continue(k) ==
    /\ kid[k] \in {"stopped", "seen"} /\ kid' = [kid EXCEPT ![k] = "run"]
    /\ UNCHANGED <<keys, terminal, rest, session>>

--------------------------------------------------------------------------------
(* Signals *)

\* Default action (a shell that is stopped is taken to be continued),
\* catch_and_restore, or nothing.
Deliver(s) ==
    \/ /\ sig[s] = "default" /\ phase' = IF s = "TSTP" THEN phase ELSE "gone"
       /\ UNCHANGED <<tty, orig>>
    \/ sig[s] = "catch" /\ Exit
    \/ sig[s] = "ignore" /\ UNCHANGED <<phase, tty, orig>>

\* A key of the terminal signals the shell and all its programs.
Press(s) ==
    /\ phase # "gone" /\ tty # "zero"
    /\ Deliver(s)
    /\ LET hit == {k \in Kid : kid[k] = "run" /\ s \in keys[k]}
       IN /\ kid' = [k \in Kid |-> IF k \notin hit THEN kid[k]
                                   ELSE IF s = "TSTP" THEN "stopped" ELSE "zombie"]
          /\ spoilt' = (spoilt \/ hit \cap touched # {})
    /\ UNCHANGED <<keys, touched, sig, waiting, entered, fails, command, session>>

Terminate ==
    /\ phase # "gone"
    /\ Deliver("TERM")
    /\ UNCHANGED <<kids, touched, spoilt, sig, waiting, entered, fails, command, session>>

--------------------------------------------------------------------------------
Init ==
    /\ phase = "main" /\ sig = [s \in Key \cup {"TERM"} |-> "default"]
    /\ waiting = Nil /\ kid = [k \in Kid |-> "none"] /\ keys = [k \in Kid |-> {}]
    /\ tty = "cooked" /\ orig = "zero" /\ touched = {} /\ spoilt = FALSE
    /\ argv = <<>> /\ owner = "line" /\ argv_allocated = FALSE
    /\ alist = <<>> /\ cwd = Home /\ dirs = Dirs
    /\ env = [n \in EnvName |-> IF n = "HOME" THEN Home ELSE IF n = "PATH" THEN <<>> ELSE Nil]
    /\ entered = 0 /\ fails = 0

ShellStep ==
    \/ Handlers \/ Startup \/ Fork \/ ForkFails \/ ChildReturns \/ RcChildReturns

ChildStep(k) == RestoreCooked(k) \/ Exec(k)

Next ==
    \/ ShellStep \/ run_rc \/ RcEnds \/ Command \/ EndOfInput \/ Terminate
    \/ \E s \in Key : Press(s)
    \/ \E k \in Kid :
         \/ ChildStep(k) \/ TermChild(k) \/ SetTerminal(k) \/ Rmdir(k)
         \/ Leave(k) \/ Continue(k)

Spec == Init /\ [][Next]_vars

\* The shell and a fresh child run on when nothing holds them up.  Nothing is assumed
\* of the programs or of the user.
Fairness == WF_vars(ShellStep) /\ \A k \in Kid : WF_vars(ChildStep(k))

FairSpec == Spec /\ Fairness

--------------------------------------------------------------------------------
(* Properties *)

\* A shell that ends, by exit, the end of the input or SIGTERM, leaves the terminal as
\* it found it: unless a fork failed or a program spoilt it first, or nothing had been
\* saved yet, as when the rc file holds an exit.
TerminalGivenBack == phase = "gone" => tty = "cooked" \/ orig = "zero" \/ spoilt

\* While the shell waits in fork_child the flag says whether argv is its own copy, so
\* that the loop behind it frees all that expand_alias allocated and nothing else.
FreesItsOwn == phase = "wait" => (argv_allocated <=> owner = "heap")

\* CTRL-C, CTRL-Z and CTRL-\ pass a shell that has started by, the handler that
\* cleanup_handlers sets up for one of them included, and each reaches every program,
\* although a child inherits what the shell ignores.
KeysHitPrograms ==
    /\ phase \notin {"main", "startup", "gone"} => \A s \in Key : sig[s] = "ignore"
    /\ \A k \in Kid : kid[k] = "run" => Key \subseteq keys[k]

\* The shell waits for a child that has stopped or ended, or the child is on its way
\* to its program.  A child of the rc file is not waited for when it stops.
Held ==
    \/ phase \in {"fork", "rcfork"}
    \/ /\ phase \in {"wait", "rcwait"} /\ waiting # Nil
       /\ \/ kid[waiting] \in {"forked", "cooked", "zombie"}
          \/ kid[waiting] = "stopped" /\ phase = "wait"

\* The prompt comes back, or the next line of the rc file, whenever a program ends,
\* cannot be run or is stopped.
PromptReturns == Held ~> ~Held

Promised == INSTANCE Session WITH aliases <- [n \in Names |-> alias_lookup(n)]

\* The builtins change what the user asked for and nothing else, also in commands with
\* several arguments that fail half way; what is unaliased is gone.
KeepsSession == Promised!Spec
================================================================================
