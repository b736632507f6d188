-------------------------------- MODULE Session --------------------------------
(***************************************************************************)
(* What the builtins promise the user of the shell, without the list of    *)
(* aliases and the loops over arguments of builtin.c: a table of aliases,  *)
(* an environment and a working directory, each changed by its own         *)
(* commands only, in the way their arguments say, and by no program.       *)
(***************************************************************************)
EXTENDS Integers, Sequences, SequencesExt

CONSTANTS
    Nil,
    Home,       \* the working directory at the start
    Assign,     \* name=value words: their name, the words of the value, and
                \* whether the value opens a quote that the word does not close
    Closes,     \* the words that end in a quote, and what they are without it
    BadName     \* words that are no name of a variable

VARIABLES
    entered,    \* commands so far
    argv,       \* the last one, its aliases expanded
    aliases,    \* what each name stands for, Nil when it is no alias
    env,        \* the value of each variable, Nil when it is not set
    cwd,        \* the working directory
    dirs        \* the directories that exist

vars == <<entered, argv, aliases, env, cwd, dirs>>

Init ==
    /\ entered = 0 /\ argv = <<>> /\ cwd = Home /\ Home \in dirs
    /\ \A n \in DOMAIN aliases : aliases[n] = Nil

Runs(name) == argv' # <<>> /\ argv'[1] = name

Gives(w, n) == w \in DOMAIN Assign /\ Assign[w].name = n

\* The table t when the arguments at the positions of val define what they name; the last
\* definition of a name counts.
Define(t, args, val) ==
    [n \in DOMAIN t |->
        LET those == {i \in DOMAIN val : Gives(args[i], n)}
        IN IF those = {} THEN t[n] ELSE val[Max(those)]]

\* The positions in quotes: an argument before, which is not in one, opens a quote that
\* none in between closes.
Quoted(args, Q) ==
    \A i \in DOMAIN args :
        i \in Q <=> \E j \in 1 .. i - 1 :
                      /\ j \notin Q /\ args[j] \in DOMAIN Assign /\ Assign[args[j]].open
                      /\ \A k \in j + 1 .. i - 1 : args[k] \notin DOMAIN Closes

\* Where a quote that is opened at i may end.
Ends(args, i) == {k \in DOMAIN args : k > i /\ args[k] \in DOMAIN Closes}

\* The value given at i goes on until its quote is closed.
Given(args, i) ==
    IF ~Assign[args[i]].open THEN Assign[args[i]].value
    ELSE LET k == Min(Ends(args, i))
         IN Append(Assign[args[i]].value \o SubSeq(args, i + 1, k - 1), Closes[args[k]])

\* The table t with the aliases that the arguments define, those at Q being in quotes.  A
\* quote that is not closed ends the command, which has then dealt with what came before.
Aliased(t, args, Q) ==
    Define(t, args,
        [i \in {j \in DOMAIN args \ Q :
                  /\ args[j] \in DOMAIN Assign
                  /\ Assign[args[j]].open => Ends(args, j) # {}}
           |-> Given(args, i)])

Alias ==
    /\ Runs("alias")
    /\ \E Q \in SUBSET DOMAIN Tail(argv') :
         Quoted(Tail(argv'), Q) /\ aliases' = Aliased(aliases, Tail(argv'), Q)
    /\ UNCHANGED <<env, cwd, dirs>>

\* What is unaliased is no alias any more, whatever was defined before.
Unalias ==
    /\ Runs("unalias")
    /\ aliases' = IF Len(argv') = 2 THEN [aliases EXCEPT ![argv'[2]] = Nil] ELSE aliases
    /\ UNCHANGED <<env, cwd, dirs>>

Bad(w) == w \in BadName \/ w \in DOMAIN Assign

Malformed(w) == w \notin DOMAIN Assign \/ Bad(Assign[w].name)

\* The arguments before the first that is malformed.
Setenv ==
    /\ Runs("setenv")
    /\ LET args == Tail(argv')
       IN env' = Define(env, args,
              [i \in {j \in DOMAIN args : \A k \in 1 .. j : ~Malformed(args[k])}
                 |-> Assign[args[i]].value])
    /\ UNCHANGED <<aliases, cwd, dirs>>

\* All of the names or none.
Unsetenv ==
    /\ Runs("unsetenv")
    /\ LET names == Range(Tail(argv'))
       IN env' = IF \E w \in names : Bad(w) THEN env
                 ELSE [n \in DOMAIN env |-> IF n \in names THEN Nil ELSE env[n]]
    /\ UNCHANGED <<aliases, cwd, dirs>>

Destination ==
    IF Len(argv') = 1 THEN env["HOME"]
    ELSE IF argv'[2] = "-" THEN env["OLDPWD"] ELSE <<argv'[2]>>

\* The directory that is left can be gone back to, if it is still there.
Cd ==
    /\ Runs("cd")
    /\ IF Destination \in dirs
       THEN /\ cwd' = Destination
            /\ env' = [env EXCEPT !["OLDPWD"] = env'["OLDPWD"]]
            /\ cwd \in dirs => env'["OLDPWD"] = cwd
       ELSE UNCHANGED <<cwd, env>>
    /\ UNCHANGED <<aliases, dirs>>

\* Any other command, or none that is left after expansion.
Other ==
    /\ argv' = <<>> \/ argv'[1] \notin {"alias", "unalias", "setenv", "unsetenv", "cd"}
    /\ UNCHANGED <<aliases, env, cwd, dirs>>

Command ==
    /\ entered' = entered + 1
    /\ Alias \/ Unalias \/ Setenv \/ Unsetenv \/ Cd \/ Other

\* The shell puts its own programs before those of the system.
Startup ==
    /\ entered = 0
    /\ env' = [env EXCEPT !["PATH"] = <<"bin">> \o @]
    /\ UNCHANGED <<entered, argv, aliases, cwd, dirs>>

\* A program removes a directory.
Rmdir == dirs' \subseteq dirs /\ UNCHANGED <<entered, argv, aliases, env, cwd>>

Next == Command \/ Startup \/ Rmdir

Spec == Init /\ [][Next]_vars
================================================================================
