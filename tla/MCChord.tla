-------------------------------- MODULE MCChord --------------------------------
(* Chord for TLC: the three bits of chord.h, and every ring they allow. *)
EXTENDS Chord
===============================================================================
