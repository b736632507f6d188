---------------------------- MODULE MCLineEditor ----------------------------
(* LineEditor for TLC, with a few names to complete. *)
EXTENDS LineEditor

MCCommands == {<<"x">>, <<"x", ".">>}
MCFiles == {<<"x", "x">>}
=============================================================================
