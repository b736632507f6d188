------------------------------ MODULE LineEditor ------------------------------
(***************************************************************************)
(* The prompt of the shell, src/tetrish/cmdline.c: line_read with its      *)
(* escape sequences, completion, and the ring of history lines.            *)
(*                                                                         *)
(* A step is one byte that getchar returns.  Of a character only its class *)
(* is kept: "x" for a letter or digit, " " for white space, "." for any    *)
(* other printable one.  What is drawn on the screen is left out.          *)
(***************************************************************************)
EXTENDS Integers, Sequences, FiniteSets, SequencesExt

CONSTANTS
    Nil,
    Cap,        \* IN_BUFFER: line_read's cap
    HistCap,    \* 128: slots of hist[]
    Commands,   \* what the first word may be completed to: builtins, $PATH, bin
    Files,      \* the names in the working directory
    Dirs,       \* the names that are directories
    MaxTyped    \* bound: characters typed or completed

Char == {"x", " ", "."}
Line == Seq(Char)

ASSUME EditorAssumption ==
    /\ Cap \in Nat \ {0} /\ HistCap \in Nat \ {0} /\ MaxTyped \in Nat
    /\ Nil \notin Line
    /\ Commands \subseteq Line /\ Files \subseteq Line

VARIABLES
    mode,       \* where line_read is in an escape sequence; "closed": it returned -1
    buf,        \* the line: the first len bytes of out
    pos,        \* the cursor
    hist,       \* the ring of history lines, Nil where there is none
    hlen, hhead, hcur,
    typed       \* characters that have gone into the line so far

ring == <<hist, hlen, hhead, hcur>>
vars == <<mode, buf, pos, ring, typed>>

Mode == {"text", "esc", "alien", "csi", "delete", "mod1", "mod2", "mod3", "bad2",
         "bad3", "swallow", "closed"}

Slot == 0 .. HistCap - 1

Alnum == {"x"}

Lesser(a, b) == IF a < b THEN a ELSE b

-------------------------------------------------------------------------------
(* The ring *)

history_Behind(line) ==
    /\ hist' = [hist EXCEPT ![(hhead + 1) % HistCap] = line]
    /\ hhead' = (hhead + 1) % HistCap
    /\ hlen' = IF hlen < HistCap THEN hlen + 1 ELSE hlen
    /\ hcur' = (hhead + 1) % HistCap

\* A line is stored at hhead, over the oldest one when the ring is full.
history(line) ==
    /\ hist' = [hist EXCEPT ![hhead] = line]
    /\ hhead' = (hhead + 1) % HistCap
    /\ hlen' = IF hlen < HistCap THEN hlen + 1 ELSE hlen
    /\ hcur' = (hhead + 1) % HistCap

\* The slots before and after the cursor.
Older == (hcur + HistCap - 1) % HistCap
Newer == (hcur + 1) % HistCap

\* The line is replaced unless the slot has none; its end becomes the cursor.
Show_Blank(line) == buf' = line /\ pos' = IF line = Nil THEN 0 ELSE Len(line)

Show(line) ==
    IF line = Nil THEN UNCHANGED <<buf, pos>>
    ELSE buf' = line /\ pos' = Len(line)

\* The cursor moves on over empty slots too, but never onto hhead.
hist_up ==
    IF hlen = 0 \/ Older = hhead
    THEN UNCHANGED <<hcur, buf, pos>>
    ELSE hcur' = Older /\ Show(hist[Older])

hist_down_Stays ==
    IF hcur = hhead
    THEN UNCHANGED <<hcur, buf, pos>>
    ELSE hcur' = Newer /\ Show(hist[hcur])

hist_down ==
    IF hcur = hhead
    THEN UNCHANGED <<hcur, buf, pos>>
    ELSE hcur' = Newer /\ Show(IF Newer = hhead THEN <<>> ELSE hist[Newer])

-------------------------------------------------------------------------------
(* Completion *)

\* Where the word that ends at the cursor starts.
WordStart == CHOOSE s \in 0 .. pos :
    /\ \A i \in s + 1 .. pos : buf[i] # " "
    /\ s = 0 \/ buf[s] = " "

add_dir_matches(token) == {n \in Files : IsPrefix(token, n)}

\* A word is the first when no white space stands before it.
Candidates(token, start) ==
    IF \A i \in 1 .. start : buf[i] # " "
    THEN {n \in Commands : IsPrefix(token, n)}
    ELSE add_dir_matches(token)

\* What is missing of the only candidate, and a slash if that is a directory.
Missing(token, name) ==
    SubSeq(name, Len(token) + 1, Len(name)) \o (IF name \in Dirs THEN <<".">> ELSE <<>>)

\* Text goes in at the cursor.
Put(s) ==
    /\ buf' = SubSeq(buf, 1, pos) \o s \o SubSeq(buf, pos + 1, Len(buf))
    /\ pos' = pos + Len(s)

\* Only a single candidate that fits changes the line; several are listed.
tab_complete ==
    LET start == WordStart
        token == SubSeq(buf, start + 1, pos)
        found == Candidates(token, start)
        more == Missing(token, CHOOSE n \in found : TRUE)
    IN IF Cardinality(found) = 1 /\ Len(buf) + Len(more) < Cap
       THEN /\ typed + Len(more) <= MaxTyped
            /\ Put(more) /\ typed' = typed + Len(more)
       ELSE UNCHANGED <<buf, pos, typed>>

-------------------------------------------------------------------------------
(* Keys *)

\* The end of the run of such characters after place i, and the start of the one
\* before it.
Past(i, run) == CHOOSE j \in i .. Len(buf) :
    /\ \A k \in i + 1 .. j : buf[k] \in run
    /\ j = Len(buf) \/ buf[j + 1] \notin run

Before(i, run) == CHOOSE j \in 0 .. i :
    /\ \A k \in j + 1 .. i : buf[k] \in run
    /\ j = 0 \/ buf[j] \notin run

\* CTRL-right goes past the letters and then past what is between words;
\* CTRL-left goes back a character, then over letters, then over the rest.
JumpRight == Past(Past(pos, Alnum), Char \ Alnum)
JumpLeft == Before(Before(IF pos > 0 THEN pos - 1 ELSE 0, Alnum), Char \ Alnum)

Backspace ==
    IF pos > 0
    THEN buf' = RemoveAt(buf, pos) /\ pos' = pos - 1
    ELSE UNCHANGED <<buf, pos>>

DeleteKey ==
    IF pos < Len(buf)
    THEN buf' = RemoveAt(buf, pos + 1) /\ UNCHANGED pos
    ELSE UNCHANGED <<buf, pos>>

Cursor(p) == pos' = p /\ UNCHANGED buf

-------------------------------------------------------------------------------
Init ==
    /\ mode = "text" /\ buf = <<>> /\ pos = 0
    /\ hist = [i \in Slot |-> Nil] /\ hlen = 0 /\ hhead = 0 /\ hcur = 0
    /\ typed = 0

\* A byte in the text.
Printable(c) ==
    /\ mode = "text"
    /\ IF Len(buf) < Cap - 1
       THEN typed < MaxTyped /\ Put(<<c>>) /\ typed' = typed + 1
       ELSE UNCHANGED <<buf, pos, typed>>
    /\ UNCHANGED <<mode, ring>>

\* Enter: the line goes into the history, unless it is empty, and line_read
\* returns.  The shell runs it and calls line_read again.
Submit ==
    /\ mode = "text"
    /\ IF buf = <<>> THEN UNCHANGED ring ELSE history(buf)
    /\ buf' = <<>> /\ pos' = 0
    /\ UNCHANGED <<mode, typed>>

Rubout == mode = "text" /\ Backspace /\ UNCHANGED <<mode, ring, typed>>

Tab == mode = "text" /\ tab_complete /\ UNCHANGED <<mode, ring>>

\* The end of the input, or CTRL-D on an empty line.
Close ==
    /\ mode # "closed"
    /\ mode' = "closed"
    /\ UNCHANGED <<buf, pos, ring, typed>>

\* A byte that only moves line_read through an escape sequence.  One that is not
\* known eats what follows, up to and with a byte that is not printable.
Step ==
    /\ \/ mode = "text" /\ mode' = "esc"
       \/ mode = "esc" /\ mode' \in {"csi", "alien"}
       \/ mode = "alien" /\ mode' = "swallow"
       \/ mode = "csi" /\ mode' \in {"delete", "mod1", "swallow"}
       \/ mode = "delete" /\ mode' = "text"
       \/ mode = "mod1" /\ mode' \in {"mod2", "bad2"}
       \/ mode = "mod2" /\ mode' \in {"mod3", "bad3"}
       \/ mode = "bad2" /\ mode' = "bad3"
       \/ mode \in {"mod3", "bad3"} /\ mode' = "text"
       \/ mode = "swallow" /\ mode' = "text"
    /\ UNCHANGED <<buf, pos, ring, typed>>

\* ESC [ A, ESC [ B
Arrow ==
    /\ mode = "csi" /\ mode' = "text"
    /\ hist_up \/ hist_down
    /\ UNCHANGED <<hist, hlen, hhead, typed>>

\* ESC [ C, ESC [ D
Sideways ==
    /\ mode = "csi" /\ mode' = "text"
    /\ Cursor(Lesser(pos + 1, Len(buf))) \/ Cursor(IF pos > 0 THEN pos - 1 ELSE 0)
    /\ UNCHANGED <<ring, typed>>

\* ESC [ 3 ~
Delete ==
    /\ mode = "delete" /\ mode' = "text"
    /\ DeleteKey
    /\ UNCHANGED <<ring, typed>>

\* ESC [ 1 ; 5 C, ESC [ 1 ; 5 D
Jump ==
    /\ mode = "mod3" /\ mode' = "text"
    /\ Cursor(JumpRight) \/ Cursor(JumpLeft)
    /\ UNCHANGED <<ring, typed>>

Next ==
    \/ \E c \in Char : Printable(c)
    \/ Submit \/ Rubout \/ Tab \/ Close \/ Step
    \/ Arrow \/ Sideways \/ Delete \/ Jump

Spec == Init /\ [][Next]_vars

-------------------------------------------------------------------------------
(* Properties *)

\* The cursor is in the line, the line and its end mark fit into the buffer, and
\* a slot that was never filled does not become the line.
TypeOK ==
    /\ mode \in Mode
    /\ buf \in Line /\ Len(buf) < Cap
    /\ pos \in 0 .. Len(buf)
    /\ hist \in [Slot -> Line \cup {Nil}]
    /\ hlen \in 0 .. HistCap
    /\ hhead \in Slot /\ hcur \in Slot
    /\ typed \in Nat

\* The lines in the ring, oldest first.
Lines == [i \in 1 .. hlen |-> hist[(hhead + HistCap - hlen + i - 1) % HistCap]]

Prompt == INSTANCE PromptLine WITH
    left <- SubSeq(buf, 1, pos),
    right <- SubSeq(buf, pos + 1, Len(buf)),
    recent <- Lines

\* The buffer, its cursor and the ring behave as the prompt promises: keys edit at
\* the cursor, and the ring always holds the latest lines in the order in which
\* they were entered, whatever was recalled and edited in between.
KeepsPrompt == Prompt!Spec

\* How many lines back the cursor is.
Age(cur) == (hhead + HistCap - cur) % HistCap

\* The arrows walk the history by age: a line that an arrow shows is the one
\* entered as many lines back as the cursor has moved, and each press moves it by
\* one line.
WalksByAge ==
    [][ hcur' # hcur /\ hhead' = hhead =>
          /\ Age(hcur)' - Age(hcur) \in {1, -1}
          /\ LET a == Age(hcur)'
             IN buf' # buf => buf' = IF a = 0 THEN <<>> ELSE Lines[hlen - a + 1] ]_vars
===============================================================================
