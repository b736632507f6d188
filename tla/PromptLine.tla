------------------------------ MODULE PromptLine ------------------------------
(***************************************************************************)
(* What the prompt promises its user, without the buffer and the ring of   *)
(* cmdline.c: a line with a cursor in it, edited at the cursor, and the    *)
(* latest lines entered, any of which can come back.                       *)
(***************************************************************************)
EXTENDS Integers, Sequences, SequencesExt

CONSTANTS
    Cap,        \* room for the line and its end mark
    HistCap     \* how many lines are remembered

VARIABLES
    left,       \* the text before the cursor
    right,      \* the text from the cursor on
    recent      \* the lines remembered, oldest first

vars == <<left, right, recent>>

Init == left = <<>> /\ right = <<>> /\ recent = <<>>

\* Text goes in before the cursor, if it fits.
Insert ==
    /\ IsStrictPrefix(left, left')
    /\ Len(left') + Len(right) < Cap
    /\ UNCHANGED <<right, recent>>

Rubout ==
    /\ left # <<>> /\ left' = Front(left)
    /\ UNCHANGED <<right, recent>>

Erase ==
    /\ right # <<>> /\ right' = Tail(right)
    /\ UNCHANGED <<left, recent>>

Move ==
    /\ left' \o right' = left \o right
    /\ UNCHANGED recent

\* A remembered line, or an empty one, takes the place of the line.
Recall ==
    /\ left' \in Range(recent) \cup {<<>>} /\ right' = <<>>
    /\ UNCHANGED recent

\* The line is entered; the oldest is forgotten when there are too many.
Latest(lines) ==
    IF Len(lines) <= HistCap THEN lines ELSE Tail(lines)

Enter ==
    /\ left \o right # <<>>
    /\ recent' = Latest(Append(recent, left \o right))
    /\ left' = <<>> /\ right' = <<>>

Next == Insert \/ Rubout \/ Erase \/ Move \/ Recall \/ Enter

Spec == Init /\ [][Next]_vars
===============================================================================
