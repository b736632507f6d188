------------------------------- MODULE MCShell -------------------------------
(* Shell for TLC: two programs, and commands that meet every builtin's cases. *)
EXTENDS Shell

MCNames == {"l"}

MCAssign ==
    [w \in {"l=ls", "l=cd -", "l='ls", "l=", "V=1", "?=1"} |->
       CASE w = "l=ls" -> [name |-> "l", value |-> <<"ls">>, open |-> FALSE]
         [] w = "l=cd -" -> [name |-> "l", value |-> <<"cd", "-">>, open |-> FALSE]
         [] w = "l='ls" -> [name |-> "l", value |-> <<"ls">>, open |-> TRUE]
         [] w = "l=" -> [name |-> "l", value |-> <<>>, open |-> FALSE]
         [] w = "V=1" -> [name |-> "V", value |-> <<"1">>, open |-> FALSE]
         [] w = "?=1" -> [name |-> "?", value |-> <<"1">>, open |-> FALSE]]

MCCloses == [w \in {"-a'"} |-> "-a"]
MCBadName == {"?"}
MCHome == <<"h">>
MCDirs == {MCHome, <<"d">>}
MCStack == {MCHome, <<"?">>}

MCLines == {
    <<"l">>, <<"l", "x", "y">>, <<"exit">>, <<"help">>, <<"cd">>, <<"cd", "d">>, <<"cd", "-">>,
    <<"alias", "l=ls">>, <<"alias", "l=cd -">>, <<"alias", "l=", "l='ls">>,
    <<"alias", "l='ls", "-a'">>, <<"alias", "l='ls", "l=">>, <<"unalias", "l">>, <<"unalias">>,
    <<"setenv", "V=1", "?=1">>, <<"setenv", "HOME", "V=1">>, <<"unsetenv", "V", "HOME", "PATH">>,
    <<"unsetenv", "V", "?">>}
==============================================================================
