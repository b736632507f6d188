--------------------------- MODULE LineEditorProofs ---------------------------
(***************************************************************************)
(* Proofs about LineEditor, for any size of the buffer and of the ring and *)
(* any names to complete: the cursor stays in the line and the line, with  *)
(* its end mark, in the buffer; the arrows walk the ring line by line; and *)
(* the editor implements PromptLine.                                       *)
(***************************************************************************)
EXTENDS LineEditor, WellFoundedInduction, FiniteSetTheorems, SequenceTheorems, TLAPS

\* Lines come back from the ring, so they have to fit as well.
Fits(line) == line \in Line /\ Len(line) < Cap

HistoryFits == \A i \in Slot : hist[i] = Nil \/ Fits(hist[i])

EditorInv == TypeOK /\ HistoryFits

-------------------------------------------------------------------------------
(* Searching the line *)

\* A set of numbers has a least one.
LEMMA LeastExists ==
    ASSUME NEW T \in SUBSET Nat, T # {}
    PROVE  \E m \in T : \A n \in T : m <= n
<1>1. \E m \in T : \A n \in T : ~(<<n, m>> \in OpToRel(<, Nat))
  BY NatLessThanWellFounded, WFMin
<1>2. PICK m \in T : \A n \in T : ~(<<n, m>> \in OpToRel(<, Nat))
  BY <1>1
<1>3. ASSUME NEW n \in T PROVE m <= n
  <2>1. ~(n < m)
    BY <1>2 DEF OpToRel
  <2> QED
    BY <2>1
<1> QED
  BY <1>2, <1>3

\* A set of numbers up to n has a greatest one.
LEMMA GreatestExists ==
    ASSUME NEW n \in Nat, NEW T \in SUBSET (0 .. n), T # {}
    PROVE  \E m \in T : \A k \in T : k <= m
<1> DEFINE U == {n - k : k \in T}
<1>1. U \in SUBSET Nat /\ U # {}
  <2>1. ASSUME NEW k \in T PROVE n - k \in Nat
    <3>1. k \in 0 .. n
      OBVIOUS
    <3> QED BY <3>1
  <2>2. PICK k \in T : TRUE
    OBVIOUS
  <2>3. n - k \in U
    BY <2>2
  <2> QED BY <2>1, <2>3
<1>2. PICK u \in U : \A v \in U : u <= v
  <2> HIDE DEF U
  <2> QED BY <1>1, LeastExists
<1>3. PICK m \in T : u = n - m
  OBVIOUS
<1>4. ASSUME NEW k \in T PROVE k <= m
  <2>1. n - k \in U
    OBVIOUS
  <2>2. n - m <= n - k
    BY <1>2, <1>3, <2>1
  <2> QED BY <2>2
<1> QED
  BY <1>3, <1>4

\* The jump to the right has a place to stop at.
LEMMA PastInLine ==
    ASSUME buf \in Line, NEW i \in 0 .. Len(buf), NEW run
    PROVE  Past(i, run) \in i .. Len(buf)
<1> DEFINE T == {j \in i .. Len(buf) : j = Len(buf) \/ buf[j + 1] \notin run}
<1>0. Len(buf) \in Nat
  BY DEF Line
<1>1. T \in SUBSET Nat /\ T # {}
  <2>1. Len(buf) \in T
    BY <1>0
  <2> QED BY <2>1, <1>0
<1>2. PICK j \in T : \A n \in T : j <= n
  <2> HIDE DEF T
  <2> QED BY <1>1, LeastExists
<1>3. ASSUME NEW k \in i + 1 .. j PROVE buf[k] \in run
  <2>1. k - 1 \in i .. Len(buf) /\ k - 1 < j
    BY <1>0, <1>2
  <2>2. k - 1 \notin T
    <3> HIDE DEF T
    <3>1. ASSUME k - 1 \in T PROVE FALSE
      <4>1. j <= k - 1 /\ j \in Nat /\ k \in Nat
        BY <1>0, <1>1, <1>2, <3>1
      <4> QED BY <2>1, <4>1
    <3> QED BY <3>1
  <2>3. ~(buf[(k - 1) + 1] \notin run)
    BY <2>1, <2>2
  <2>4. (k - 1) + 1 = k
    BY <1>0, <1>2
  <2> QED BY <2>3, <2>4
<1>4. j \in i .. Len(buf) /\ (j = Len(buf) \/ buf[j + 1] \notin run)
  BY <1>2
<1>5. \E l \in i .. Len(buf) :
        /\ \A k \in i + 1 .. l : buf[k] \in run
        /\ l = Len(buf) \/ buf[l + 1] \notin run
  BY <1>3, <1>4
<1> QED
  BY <1>5 DEF Past

\* The jump to the left has a place to stop at.
LEMMA BeforeInLine ==
    ASSUME buf \in Line, NEW i \in 0 .. Len(buf), NEW run
    PROVE  Before(i, run) \in 0 .. i
<1> DEFINE T == {j \in 0 .. i : j = 0 \/ buf[j] \notin run}
<1>0. i \in Nat
  BY DEF Line
<1>1. T \in SUBSET (0 .. i) /\ T # {}
  <2>1. 0 \in T
    BY <1>0
  <2> QED BY <2>1
<1>2. PICK j \in T : \A k \in T : k <= j
  <2> HIDE DEF T
  <2> QED BY <1>0, <1>1, GreatestExists
<1>3. ASSUME NEW k \in j + 1 .. i PROVE buf[k] \in run
  <2>1. k \in 0 .. i /\ ~(k <= j) /\ k # 0
    BY <1>0, <1>2
  <2>2. k \notin T
    BY <1>2, <2>1
  <2> QED BY <2>1, <2>2
<1>4. \E l \in 0 .. i :
        /\ \A k \in l + 1 .. i : buf[k] \in run
        /\ l = 0 \/ buf[l] \notin run
  BY <1>2, <1>3
<1> QED
  BY <1>4 DEF Before

\* The word at the cursor has a start.
LEMMA WordStartInLine ==
    ASSUME buf \in Line, pos \in 0 .. Len(buf)
    PROVE  WordStart \in 0 .. pos
<1> DEFINE T == {j \in 0 .. pos : j = 0 \/ buf[j] = " "}
<1>0. pos \in Nat
  BY DEF Line
<1>1. T \in SUBSET (0 .. pos) /\ T # {}
  <2>1. 0 \in T
    BY <1>0
  <2> QED BY <2>1
<1>2. PICK j \in T : \A k \in T : k <= j
  <2> HIDE DEF T
  <2> QED BY <1>0, <1>1, GreatestExists
<1>3. ASSUME NEW k \in j + 1 .. pos PROVE buf[k] # " "
  <2>0. j \in 0 .. pos
    BY <1>2
  <2>1. k \in 0 .. pos /\ ~(k <= j)
    <3> HIDE DEF T
    <3> QED BY <1>0, <2>0
  <2> QED BY <1>2, <2>1
<1>4. \E s \in 0 .. pos :
        /\ \A k \in s + 1 .. pos : buf[k] # " "
        /\ s = 0 \/ buf[s] = " "
  BY <1>2, <1>3
<1> QED
  BY <1>4 DEF WordStart

-------------------------------------------------------------------------------
(* Changing the line *)

\* What is cut out of a line is a line.
LEMMA PartIsLine ==
    ASSUME NEW l \in Line, NEW i \in Nat \ {0}, NEW j \in 0 .. Len(l)
    PROVE  /\ SubSeq(l, i, j) \in Line
           /\ Len(SubSeq(l, i, j)) = IF i <= j THEN j - i + 1 ELSE 0
BY DEF Line

\* Two lines, one behind the other, are a line.
LEMMA JoinIsLine ==
    ASSUME NEW a \in Line, NEW b \in Line
    PROVE  a \o b \in Line /\ Len(a \o b) = Len(a) + Len(b)
BY DEF Line

\* A character is a line of its own, and nothing is one.
LEMMA ShortLines ==
    /\ \A c \in Char : <<c>> \in Line /\ Len(<<c>>) = 1
    /\ <<>> \in Line /\ Len(<<>>) = 0
BY DEF Line

\* Text put in at the cursor makes a line that is longer by the text.
LEMMA PutGrows ==
    ASSUME buf \in Line, pos \in 0 .. Len(buf), NEW s \in Line, Put(s)
    PROVE  /\ buf' \in Line /\ Len(buf') = Len(buf) + Len(s)
           /\ pos' \in 0 .. Len(buf')
<1> DEFINE l == SubSeq(buf, 1, pos)
           r == SubSeq(buf, pos + 1, Len(buf))
<1>1. Len(buf) \in Nat /\ Len(s) \in Nat
  BY DEF Line
<1>2. l \in Line /\ Len(l) = pos
  BY <1>1, PartIsLine
<1>3. r \in Line /\ Len(r) = Len(buf) - pos
  BY <1>1, PartIsLine
<1>4. buf' = l \o s \o r /\ pos' = pos + Len(s)
  BY DEF Put
<1> HIDE DEF l, r
<1>5. l \o s \in Line /\ Len(l \o s) = Len(l) + Len(s)
  BY <1>2, JoinIsLine
<1>6. (l \o s) \o r \in Line /\ Len((l \o s) \o r) = Len(l \o s) + Len(r)
  BY <1>3, <1>5, JoinIsLine
<1> QED
  BY <1>1, <1>2, <1>3, <1>4, <1>5, <1>6

\* Taking one character out makes the line shorter by one.
LEMMA RemoveShrinks ==
    ASSUME buf \in Line, NEW i \in 1 .. Len(buf)
    PROVE  RemoveAt(buf, i) \in Line /\ Len(RemoveAt(buf, i)) = Len(buf) - 1
<1> DEFINE l == SubSeq(buf, 1, i - 1)
           r == SubSeq(buf, i + 1, Len(buf))
<1>1. Len(buf) \in Nat
  BY DEF Line
<1>2. l \in Line /\ Len(l) = i - 1
  BY <1>1, PartIsLine
<1>3. r \in Line /\ Len(r) = Len(buf) - i
  BY <1>1, PartIsLine
<1>4. RemoveAt(buf, i) = l \o r
  BY DEF RemoveAt
<1> HIDE DEF l, r
<1>5. l \o r \in Line /\ Len(l \o r) = Len(l) + Len(r)
  BY <1>2, <1>3, JoinIsLine
<1> QED
  BY <1>1, <1>2, <1>3, <1>4, <1>5

\* What completion adds is a line.
LEMMA MissingIsLine ==
    ASSUME NEW token \in Line, NEW name \in Line
    PROVE  Missing(token, name) \in Line
<1>1. Len(token) + 1 \in Nat \ {0} /\ Len(name) \in 0 .. Len(name)
  BY DEF Line
<1>2. SubSeq(name, Len(token) + 1, Len(name)) \in Line
  BY <1>1, PartIsLine
<1>3. <<".">> \in Line /\ <<>> \in Line
  BY ShortLines DEF Char
<1> DEFINE a == SubSeq(name, Len(token) + 1, Len(name))
           b == IF name \in Dirs THEN <<".">> ELSE <<>>
<1>4. a \in Line /\ b \in Line
  BY <1>2, <1>3
<1> HIDE DEF a, b
<1>5. a \o b \in Line
  BY <1>4, JoinIsLine
<1> QED
  BY <1>5 DEF Missing, a, b

\* A line recalled from the ring, or an empty one, fits.
LEMMA ShowFits ==
    ASSUME EditorInv, NEW line, line = Nil \/ Fits(line), Show(line)
    PROVE  buf' \in Line /\ Len(buf') < Cap /\ pos' \in 0 .. Len(buf')
<1>1. CASE line = Nil
  BY <1>1 DEF Show, EditorInv, TypeOK
<1>2. CASE line # Nil /\ Fits(line)
  <2>1. buf' = line /\ pos' = Len(line) /\ Len(line) \in Nat
    BY <1>2 DEF Show, Fits, Line
  <2> QED BY <1>2, <2>1 DEF Fits
<1> QED
  BY <1>1, <1>2

-------------------------------------------------------------------------------
(* Steps *)

\* The part of TypeOK that is about the line, and the part about the ring.
LineOK == buf \in Line /\ Len(buf) < Cap /\ pos \in 0 .. Len(buf)

RingOK ==
    /\ hist \in [Slot -> Line \cup {Nil}]
    /\ hlen \in 0 .. HistCap
    /\ hhead \in Slot /\ hcur \in Slot
    /\ HistoryFits

\* The two parts, the mode and the bound make up the invariant.
LEMMA InvParts == EditorInv <=> LineOK /\ RingOK /\ mode \in Mode /\ typed \in Nat
BY DEF EditorInv, TypeOK, LineOK, RingOK

\* A step that leaves the ring alone leaves it in order.
LEMMA RingStays ==
    ASSUME RingOK, UNCHANGED ring
    PROVE  RingOK'
BY DEF ring, RingOK, HistoryFits, Fits

\* The places next to a slot are slots.
LEMMA Neighbours ==
    ASSUME NEW i \in Slot
    PROVE  (i + 1) % HistCap \in Slot /\ (i + HistCap - 1) % HistCap \in Slot
<1>1. HistCap \in Nat /\ HistCap > 0
  BY EditorAssumption
<1>2. i \in Nat /\ i + 1 \in Nat /\ i + HistCap - 1 \in Nat
  BY <1>1 DEF Slot
<1>3. \A n \in Nat : n % HistCap \in 0 .. HistCap - 1
  BY <1>1
<1> QED
  BY <1>2, <1>3 DEF Slot

\* history keeps the ring in order, if the line fits.
LEMMA HistoryKeepsRing ==
    ASSUME RingOK, Fits(buf), history(buf)
    PROVE  RingOK'
<1>1. HistCap \in Nat
  BY EditorAssumption
<1>2. hhead' \in Slot /\ hcur' \in Slot
  BY Neighbours DEF RingOK, history
<1>3. hist' \in [Slot -> Line \cup {Nil}]
  BY DEF RingOK, history, Fits
<1>4. hlen' \in 0 .. HistCap
  BY <1>1 DEF RingOK, history
<1>5. HistoryFits'
  <2> SUFFICES ASSUME NEW i \in Slot PROVE hist'[i] = Nil \/ Fits(hist'[i])
    BY DEF HistoryFits, Fits
  <2>1. CASE i = hhead
    BY <2>1 DEF RingOK, history
  <2>2. CASE i # hhead
    BY <2>2 DEF RingOK, history, HistoryFits
  <2> QED BY <2>1, <2>2
<1> QED
  BY <1>2, <1>3, <1>4, <1>5 DEF RingOK

\* CTRL with an arrow leaves the cursor in the line.
LEMMA JumpsInLine ==
    ASSUME buf \in Line, pos \in 0 .. Len(buf)
    PROVE  JumpRight \in 0 .. Len(buf) /\ JumpLeft \in 0 .. Len(buf)
<1>0. Len(buf) \in Nat
  BY DEF Line
<1>1. JumpRight \in 0 .. Len(buf)
  <2>1. Past(pos, Alnum) \in 0 .. Len(buf)
    BY <1>0, PastInLine
  <2>2. Past(Past(pos, Alnum), Char \ Alnum) \in Past(pos, Alnum) .. Len(buf)
    BY <1>0, <2>1, PastInLine
  <2> QED BY <1>0, <2>1, <2>2 DEF JumpRight
<1>2. JumpLeft \in 0 .. Len(buf)
  <2> DEFINE back == IF pos > 0 THEN pos - 1 ELSE 0
  <2>1. back \in 0 .. Len(buf)
    BY <1>0
  <2> HIDE DEF back
  <2>2. Before(back, Alnum) \in 0 .. Len(buf)
    BY <1>0, <2>1, BeforeInLine
  <2>3. Before(Before(back, Alnum), Char \ Alnum) \in 0 .. Before(back, Alnum)
    BY <1>0, <2>2, BeforeInLine
  <2> QED BY <1>0, <2>2, <2>3 DEF JumpLeft, back
<1> QED
  BY <1>1, <1>2

\* Completion adds a line, if there is one candidate and it fits.
LEMMA TabPuts ==
    ASSUME LineOK, Tab
    PROVE  \/ UNCHANGED <<buf, pos, typed>>
           \/ \E s \in Line : /\ Put(s) /\ Len(buf) + Len(s) < Cap
                              /\ typed' = typed + Len(s)
<1> DEFINE start == WordStart
           token == SubSeq(buf, start + 1, pos)
           found == Candidates(token, start)
           name == CHOOSE n \in found : TRUE
           more == Missing(token, name)
<1>0. buf \in Line /\ pos \in 0 .. Len(buf) /\ Len(buf) \in Nat
  BY DEF LineOK, Line
<1>1. CASE Cardinality(found) = 1 /\ Len(buf) + Len(more) < Cap
  <2>1. Put(more) /\ typed' = typed + Len(more)
    BY <1>1 DEF Tab, tab_complete
  <2>2. start + 1 \in Nat \ {0}
    <3> HIDE DEF start
    <3>1. start \in 0 .. pos
      BY <1>0, WordStartInLine DEF start
    <3> QED BY <1>0, <3>1
  <2>3. token \in Line
    <3> HIDE DEF start
    <3> QED BY <1>0, <2>2, PartIsLine
  <2>4. found # {}
    <3> HIDE DEF found
    <3> QED BY <1>1, FS_EmptySet
  <2>5. name \in found
    BY <2>4
  <2>6. found \subseteq Commands \cup Files
    BY DEF Candidates, add_dir_matches
  <2>7. more \in Line
    <3> HIDE DEF token, name, found
    <3>1. name \in Line
      BY <2>5, <2>6, EditorAssumption
    <3> QED BY <2>3, <3>1, MissingIsLine
  <2> HIDE DEF more
  <2> QED BY <1>1, <2>1, <2>7
<1>2. CASE ~(Cardinality(found) = 1 /\ Len(buf) + Len(more) < Cap)
  BY <1>2 DEF Tab, tab_complete
<1> QED
  BY <1>1, <1>2

\* Every step keeps the invariant.
LEMMA StepEditor ==
    ASSUME EditorInv, [Next]_vars
    PROVE  EditorInv'
<1> USE DEF LineOK
<1>0. LineOK /\ RingOK /\ mode \in Mode /\ typed \in Nat /\ Len(buf) \in Nat
        /\ Cap \in Nat \ {0} /\ MaxTyped \in Nat
  BY InvParts, EditorAssumption DEF Line
<1>1. ASSUME NEW c \in Char, Printable(c) PROVE EditorInv'
  <2>1. mode' \in Mode /\ RingOK'
    BY <1>0, <1>1, RingStays DEF Printable
  <2>2. CASE Len(buf) < Cap - 1
    <3>1. Put(<<c>>) /\ typed' = typed + 1
      BY <1>1, <2>2 DEF Printable
    <3>2. <<c>> \in Line /\ Len(<<c>>) = 1
      BY ShortLines
    <3>3. /\ buf' \in Line /\ Len(buf') = Len(buf) + Len(<<c>>)
          /\ pos' \in 0 .. Len(buf')
      BY <1>0, <3>1, <3>2, PutGrows
    <3>4. LineOK'
      BY <1>0, <2>2, <3>2, <3>3
    <3> QED BY <1>0, <2>1, <3>1, <3>4 DEF EditorInv, TypeOK, RingOK
  <2>3. CASE ~(Len(buf) < Cap - 1)
    BY <1>0, <1>1, <2>1, <2>3 DEF EditorInv, TypeOK, RingOK, Printable
  <2> QED BY <2>2, <2>3
<1>2. CASE Submit
  <2>1. buf' = <<>> /\ pos' = 0 /\ UNCHANGED <<mode, typed>>
    BY <1>2 DEF Submit
  <2>2. LineOK'
    BY <1>0, <2>1, ShortLines
  <2>3. RingOK'
    BY <1>0, <1>2, RingStays, HistoryKeepsRing DEF Submit, Fits
  <2> QED BY <1>0, <2>1, <2>2, <2>3 DEF EditorInv, TypeOK, RingOK
<1>3. CASE Rubout
  <2>1. RingOK' /\ mode' \in Mode /\ typed' \in Nat
    BY <1>0, <1>3, RingStays DEF Rubout
  <2>2. LineOK'
    <3>1. CASE pos > 0
      <4>1. buf' = RemoveAt(buf, pos) /\ pos' = pos - 1 /\ pos \in 1 .. Len(buf)
        BY <1>0, <1>3, <3>1 DEF Rubout, Backspace
      <4> QED BY <1>0, <4>1, RemoveShrinks
    <3>2. CASE ~(pos > 0)
      BY <1>0, <1>3, <3>2 DEF Rubout, Backspace
    <3> QED BY <3>1, <3>2
  <2> QED BY <2>1, <2>2 DEF EditorInv, TypeOK, RingOK
<1>4. CASE Tab
  <2>1. RingOK' /\ mode' \in Mode
    BY <1>0, <1>4, RingStays DEF Tab
  <2>2. CASE UNCHANGED <<buf, pos, typed>>
    BY <1>0, <2>1, <2>2 DEF EditorInv, TypeOK, RingOK
  <2>3. ASSUME NEW s \in Line, Put(s), Len(buf) + Len(s) < Cap, typed' = typed + Len(s)
        PROVE  EditorInv'
    <3>1. LineOK'
      BY <1>0, <2>3, PutGrows
    <3>2. typed' \in Nat
      BY <1>0, <2>3 DEF Line
    <3> QED BY <2>1, <3>1, <3>2 DEF EditorInv, TypeOK, RingOK
  <2> QED BY <1>0, <1>4, <2>2, <2>3, TabPuts
<1>5. CASE Close
  <2>1. RingOK' /\ mode' \in Mode
    BY <1>0, <1>5, RingStays DEF Close, Mode
  <2> QED BY <1>0, <1>5, <2>1 DEF EditorInv, TypeOK, RingOK, Close
<1>6. CASE Step
  <2>1. RingOK'
    BY <1>0, <1>6, RingStays DEF Step
  <2>2. mode' \in Mode
    BY <1>6 DEF Step, Mode
  <2> QED BY <1>0, <1>6, <2>1, <2>2 DEF EditorInv, TypeOK, RingOK, Step
<1>7. CASE Arrow
  <2>1. mode' \in Mode /\ typed' \in Nat
    BY <1>0, <1>7 DEF Arrow, Mode
  <2>2. hcur \in Slot /\ hhead \in Slot /\ \A i \in Slot : hist[i] = Nil \/ Fits(hist[i])
    BY <1>0 DEF RingOK, HistoryFits
  <2>3. Older \in Slot /\ Newer \in Slot
    BY <2>2, Neighbours DEF Older, Newer
  <2>4. Fits(<<>>)
    BY <1>0, ShortLines DEF Fits
  <2>5. hcur' \in Slot /\ LineOK'
    <3>1. CASE UNCHANGED <<hcur, buf, pos>>
      BY <1>0, <2>2, <3>1
    <3>2. ASSUME NEW line, line = Nil \/ Fits(line), Show(line), hcur' \in {Older, Newer}
          PROVE  hcur' \in Slot /\ LineOK'
      BY <2>3, <3>2, ShowFits
    <3>3. hist[Older] = Nil \/ Fits(hist[Older])
      BY <2>2, <2>3
    <3>4. DEFINE below == IF Newer = hhead THEN <<>> ELSE hist[Newer]
    <3>5. below = Nil \/ Fits(below)
      BY <2>2, <2>3, <2>4
    <3>6. CASE hist_up
      BY <3>1, <3>2, <3>3, <3>6 DEF hist_up
    <3>7. CASE hist_down
      <4> HIDE DEF below
      <4>1. UNCHANGED <<hcur, buf, pos>> \/ (hcur' = Newer /\ Show(below))
        BY <3>7 DEF hist_down, below
      <4> QED BY <3>1, <3>2, <3>5, <4>1
    <3> QED BY <1>7, <3>6, <3>7 DEF Arrow
  <2>6. RingOK'
    BY <1>0, <1>7, <2>5 DEF Arrow, RingOK, HistoryFits, Fits
  <2> QED BY <2>1, <2>5, <2>6 DEF EditorInv, TypeOK, RingOK
<1>8. CASE Sideways
  <2>1. RingOK' /\ mode' \in Mode /\ typed' \in Nat
    BY <1>0, <1>8, RingStays DEF Sideways, Mode
  <2>2. LineOK'
    BY <1>0, <1>8 DEF Sideways, Cursor, Lesser
  <2> QED BY <2>1, <2>2 DEF EditorInv, TypeOK, RingOK
<1>9. CASE Delete
  <2>1. RingOK' /\ mode' \in Mode /\ typed' \in Nat
    BY <1>0, <1>9, RingStays DEF Delete, Mode
  <2>2. LineOK'
    <3>1. CASE pos < Len(buf)
      <4>1. buf' = RemoveAt(buf, pos + 1) /\ pos' = pos /\ pos + 1 \in 1 .. Len(buf)
        BY <1>0, <1>9, <3>1 DEF Delete, DeleteKey
      <4> QED BY <1>0, <3>1, <4>1, RemoveShrinks
    <3>2. CASE ~(pos < Len(buf))
      BY <1>0, <1>9, <3>2 DEF Delete, DeleteKey
    <3> QED BY <3>1, <3>2
  <2> QED BY <2>1, <2>2 DEF EditorInv, TypeOK, RingOK
<1>10. CASE Jump
  <2>1. RingOK' /\ mode' \in Mode /\ typed' \in Nat
    BY <1>0, <1>10, RingStays DEF Jump, Mode
  <2>2. LineOK'
    BY <1>0, <1>10, JumpsInLine DEF Jump, Cursor
  <2> QED BY <2>1, <2>2 DEF EditorInv, TypeOK, RingOK
<1>11. CASE UNCHANGED vars
  <2>1. RingOK'
    BY <1>0, <1>11, RingStays DEF vars
  <2> QED BY <1>0, <1>11, <2>1 DEF EditorInv, TypeOK, RingOK, vars
<1> QED
  BY <1>1, <1>2, <1>3, <1>4, <1>5, <1>6, <1>7, <1>8, <1>9, <1>10, <1>11 DEF Next

\* The cursor stays in the line and the line in the buffer, whatever is typed,
\* completed and recalled, for any size of the buffer and of the history.
THEOREM LineFits == Spec => []TypeOK
<1>1. Init => EditorInv
  <2> SUFFICES ASSUME Init PROVE EditorInv
    OBVIOUS
  <2>1. HistCap \in Nat \ {0} /\ Cap \in Nat \ {0}
    BY EditorAssumption
  <2>2. LineOK
    BY <2>1, ShortLines DEF Init, LineOK
  <2>3. RingOK
    BY <2>1 DEF Init, RingOK, Slot, HistoryFits
  <2> QED BY <2>2, <2>3, InvParts DEF Init, Mode
<1>2. EditorInv /\ [Next]_vars => EditorInv'
  BY StepEditor
<1>3. EditorInv => TypeOK
  BY DEF EditorInv
<1> QED
  BY <1>1, <1>2, <1>3, PTL DEF Spec

-------------------------------------------------------------------------------
(* The ring *)

\* Once around the ring: up to the number of slots a place is its own slot, and
\* from there to twice the number it is the slot that many lower.
LEMMA Wrap ==
    /\ HistCap \in Nat \ {0}
    /\ \A n \in 0 .. HistCap - 1 : n % HistCap = n
    /\ \A n \in HistCap .. 2 * HistCap - 1 : n % HistCap = n - HistCap
<1>0. HistCap \in Nat \ {0}
  BY EditorAssumption
<1>1. ASSUME NEW q \in Int, NEW r \in 0 .. HistCap - 1, NEW n \in Nat,
             n = HistCap * q + r, n < 2 * HistCap
      PROVE  q \in {0, 1}
  <2>1. CASE q >= 2
    <3>1. PICK k \in Nat : q = k + 2
      BY <2>1, <1>1
    <3>2. HistCap * q = HistCap * k + 2 * HistCap
      BY <1>0, <3>1
    <3>3. HistCap * k >= 0
      BY <1>0, <3>1
    <3> QED BY <1>0, <1>1, <3>2, <3>3
  <2>2. CASE q <= -1
    <3>1. PICK k \in Nat : q = -1 - k
      <4>1. -1 - q \in Nat /\ q = -1 - (-1 - q)
        BY <2>2, <1>1
      <4> QED BY <4>1
    <3>2. HistCap * q = -HistCap - HistCap * k
      BY <1>0, <3>1
    <3>3. HistCap * k >= 0
      BY <1>0, <3>1
    <3> QED BY <1>0, <1>1, <3>2, <3>3
  <2> QED BY <2>1, <2>2, <1>1
<1>2. \A n \in Nat : /\ n = HistCap * (n \div HistCap) + (n % HistCap)
                     /\ n % HistCap \in 0 .. HistCap - 1
                     /\ n \div HistCap \in Int
  BY <1>0
<1>3. ASSUME NEW n \in Nat, n < 2 * HistCap
      PROVE  n % HistCap = n \/ n % HistCap = n - HistCap
  <2>1. n \div HistCap \in {0, 1}
    BY <1>1, <1>2, <1>3
  <2>2. CASE n \div HistCap = 0
    BY <1>0, <1>2, <2>2
  <2>3. CASE n \div HistCap = 1
    BY <1>0, <1>2, <2>3
  <2> QED BY <2>1, <2>2, <2>3
<1>4. ASSUME NEW n \in 0 .. HistCap - 1 PROVE n % HistCap = n
  <2>1. n \in Nat /\ n < 2 * HistCap /\ n < HistCap
    BY <1>0
  <2> QED BY <1>0, <1>2, <1>3, <2>1
<1>5. ASSUME NEW n \in HistCap .. 2 * HistCap - 1 PROVE n % HistCap = n - HistCap
  <2>1. n \in Nat /\ n < 2 * HistCap /\ n >= HistCap
    BY <1>0
  <2> QED BY <1>0, <1>2, <1>3, <2>1
<1> QED
  BY <1>0, <1>4, <1>5

\* The slots that were filled are the ones below hlen; until all are, the next
\* line goes right above them.
RingFilled ==
    /\ hlen < HistCap => hhead = hlen
    /\ \A s \in Slot : hist[s] = Nil <=> s >= hlen

\* A filled ring is in order in every state.
PromptInv == EditorInv /\ RingFilled

\* The slot of the line that is a lines back.
Back(a) == (hhead + HistCap - a) % HistCap

\* The slots in plain numbers.
LEMMA Places ==
    ASSUME RingOK
    PROVE  /\ HistCap \in Nat \ {0} /\ hlen \in 0 .. HistCap
           /\ hhead \in 0 .. HistCap - 1 /\ hcur \in 0 .. HistCap - 1
           /\ Older = IF hcur = 0 THEN HistCap - 1 ELSE hcur - 1
           /\ Newer = IF hcur = HistCap - 1 THEN 0 ELSE hcur + 1
           /\ (hhead + 1) % HistCap = IF hhead = HistCap - 1 THEN 0 ELSE hhead + 1
           /\ \A c \in 0 .. HistCap - 1 :
                Age(c) = IF c <= hhead THEN hhead - c ELSE hhead + HistCap - c
           /\ \A a \in 1 .. HistCap :
                Back(a) = IF a <= hhead THEN hhead - a ELSE hhead + HistCap - a
<1>0. /\ HistCap \in Nat \ {0} /\ hlen \in 0 .. HistCap
      /\ hhead \in 0 .. HistCap - 1 /\ hcur \in 0 .. HistCap - 1
  BY Wrap DEF RingOK, Slot
<1>1. Older = IF hcur = 0 THEN HistCap - 1 ELSE hcur - 1
  <2>1. CASE hcur = 0
    <3>1. hcur + HistCap - 1 \in 0 .. HistCap - 1
      BY <1>0, <2>1
    <3> QED BY <1>0, <2>1, <3>1, Wrap DEF Older
  <2>2. CASE hcur # 0
    <3>1. hcur + HistCap - 1 \in HistCap .. 2 * HistCap - 1
      BY <1>0, <2>2
    <3>2. Older = (hcur + HistCap - 1) - HistCap
      BY <3>1, Wrap DEF Older
    <3> QED BY <1>0, <2>2, <3>2
  <2> QED BY <2>1, <2>2
<1>2. ASSUME NEW n \in 0 .. HistCap - 1
      PROVE  (n + 1) % HistCap = IF n = HistCap - 1 THEN 0 ELSE n + 1
  <2>1. CASE n = HistCap - 1
    <3>1. n + 1 \in HistCap .. 2 * HistCap - 1
      BY <1>0, <2>1
    <3>2. (n + 1) % HistCap = (n + 1) - HistCap
      BY <3>1, Wrap
    <3> QED BY <1>0, <2>1, <3>2
  <2>2. CASE n # HistCap - 1
    <3>1. n + 1 \in 0 .. HistCap - 1
      BY <1>0, <2>2
    <3> QED BY <2>2, <3>1, Wrap
  <2> QED BY <2>1, <2>2
<1>3. ASSUME NEW c \in 0 .. HistCap
      PROVE  (c \in 0 .. hhead => hhead + HistCap - c \in HistCap .. 2 * HistCap - 1)
             /\ (c \notin 0 .. hhead => hhead + HistCap - c \in 0 .. HistCap - 1)
  BY <1>0
<1>4. ASSUME NEW c \in 0 .. HistCap
      PROVE  (hhead + HistCap - c) % HistCap
               = IF c <= hhead THEN hhead - c ELSE hhead + HistCap - c
  <2>1. CASE c <= hhead
    <3>1. hhead + HistCap - c \in HistCap .. 2 * HistCap - 1
      BY <1>0, <1>3, <2>1
    <3>2. (hhead + HistCap - c) % HistCap = (hhead + HistCap - c) - HistCap
      BY <3>1, Wrap
    <3> QED BY <1>0, <2>1, <3>2
  <2>2. CASE ~(c <= hhead)
    <3>1. hhead + HistCap - c \in 0 .. HistCap - 1
      BY <1>0, <1>3, <2>2
    <3> QED BY <2>2, <3>1, Wrap
  <2> QED BY <2>1, <2>2
<1>5. \A c \in 0 .. HistCap - 1 :
        Age(c) = IF c <= hhead THEN hhead - c ELSE hhead + HistCap - c
  BY <1>0, <1>4 DEF Age
<1>6. \A a \in 1 .. HistCap :
        Back(a) = IF a <= hhead THEN hhead - a ELSE hhead + HistCap - a
  BY <1>0, <1>4 DEF Back
<1>7. Newer = IF hcur = HistCap - 1 THEN 0 ELSE hcur + 1
  BY <1>0, <1>2 DEF Newer
<1> QED
  BY <1>0, <1>1, <1>2, <1>5, <1>6, <1>7

\* The lines remembered are the filled slots, counted back from hhead.
LEMMA LinesBack ==
    ASSUME RingOK, RingFilled
    PROVE  /\ Lines \in Seq(Line) /\ Len(Lines) = hlen
           /\ \A a \in 1 .. hlen : /\ Back(a) \in Slot /\ Back(a) < hlen
                                   /\ Lines[hlen - a + 1] = hist[Back(a)]
<1>1. /\ HistCap \in Nat \ {0} /\ hlen \in 0 .. HistCap
      /\ hhead \in 0 .. HistCap - 1
      /\ \A a \in 1 .. HistCap :
                Back(a) = IF a <= hhead THEN hhead - a ELSE hhead + HistCap - a
  BY Places
<1>2. ASSUME NEW a \in 1 .. hlen
      PROVE  Back(a) \in Slot /\ Back(a) < hlen /\ hist[Back(a)] \in Line
  <2>1. Back(a) = IF a <= hhead THEN hhead - a ELSE hhead + HistCap - a
    BY <1>1
  <2>2. Back(a) \in Slot
    BY <1>1, <2>1 DEF Slot
  <2>3. Back(a) < hlen
    <3>1. CASE hlen < HistCap
      BY <1>1, <2>1, <3>1 DEF RingFilled
    <3>2. CASE ~(hlen < HistCap)
      BY <1>1, <2>2, <3>2 DEF Slot
    <3> QED BY <3>1, <3>2
  <2>4. hist[Back(a)] # Nil
    BY <1>1, <2>2, <2>3 DEF RingFilled, Slot
  <2> QED BY <2>2, <2>3, <2>4 DEF RingOK
<1>3. ASSUME NEW i \in 1 .. hlen
      PROVE  /\ hlen - i + 1 \in 1 .. hlen
             /\ (hhead + HistCap - hlen + i - 1) % HistCap = Back(hlen - i + 1)
  <2>1. hhead + HistCap - hlen + i - 1 = hhead + HistCap - (hlen - i + 1)
    BY <1>1
  <2> QED BY <1>1, <2>1 DEF Back
<1>4. \A i \in 1 .. hlen : Lines[i] = hist[Back(hlen - i + 1)] /\ Lines[i] \in Line
  BY <1>2, <1>3 DEF Lines
<1>5. Lines \in [1 .. hlen -> Line] /\ hlen \in Nat
  <2>1. Lines = [i \in 1 .. hlen |-> Lines[i]]
    BY DEF Lines
  <2> HIDE DEF Lines
  <2> QED BY <1>1, <1>4, <2>1
<1>6. Lines \in Seq(Line) /\ Len(Lines) = hlen
  BY <1>5
<1>7. ASSUME NEW a \in 1 .. hlen PROVE Lines[hlen - a + 1] = hist[Back(a)]
  <2>1. hlen - a + 1 \in 1 .. hlen /\ hlen - (hlen - a + 1) + 1 = a
    BY <1>1
  <2> QED BY <1>4, <2>1
<1> QED
  BY <1>2, <1>6, <1>7

\* history fills the next slot.
LEMMA HistoryFills ==
    ASSUME RingOK, RingFilled, Fits(buf), history(buf)
    PROVE  RingFilled'
<1>1. /\ HistCap \in Nat \ {0} /\ hlen \in 0 .. HistCap
      /\ hhead \in 0 .. HistCap - 1
      /\ (hhead + 1) % HistCap = IF hhead = HistCap - 1 THEN 0 ELSE hhead + 1
  BY Places
<1>2. /\ hist' = [hist EXCEPT ![hhead] = buf]
      /\ hhead' = IF hhead = HistCap - 1 THEN 0 ELSE hhead + 1
      /\ hlen' = IF hlen < HistCap THEN hlen + 1 ELSE hlen
  BY <1>1 DEF history
<1>3. hlen' < HistCap => hhead' = hlen'
  BY <1>1, <1>2 DEF RingFilled
<1>4. ASSUME NEW s \in Slot PROVE hist'[s] = Nil <=> s >= hlen'
  <2>1. s \in 0 .. HistCap - 1 /\ (hist[s] = Nil <=> s >= hlen)
    BY DEF RingFilled, Slot
  <2>2. CASE s = hhead
    <3>1. hist'[s] = buf /\ buf # Nil
      BY <1>2, <2>2, EditorAssumption DEF RingOK, Fits
    <3>2. hhead < hlen'
      BY <1>1, <1>2 DEF RingFilled
    <3>3. hlen' \in Int /\ ~(s >= hlen')
      BY <1>1, <1>2, <2>1, <2>2, <3>2
    <3> QED BY <3>1, <3>3
  <2>3. CASE s # hhead
    <3>1. hist'[s] = hist[s]
      BY <1>2, <2>3 DEF RingOK
    <3>2. s >= hlen <=> s >= hlen'
      <4>1. CASE hlen < HistCap
        BY <1>1, <1>2, <2>1, <2>3, <4>1 DEF RingFilled
      <4>2. CASE ~(hlen < HistCap)
        BY <1>2, <4>2
      <4> QED BY <4>1, <4>2
    <3> QED BY <2>1, <3>1, <3>2
  <2> QED BY <2>2, <2>3
<1> QED
  BY <1>3, <1>4 DEF RingFilled

\* Every step keeps the ring filled in order.
LEMMA StepPrompt ==
    ASSUME PromptInv, [Next]_vars
    PROVE  PromptInv'
<1>1. EditorInv /\ RingFilled /\ RingOK
  BY InvParts DEF PromptInv
<1>2. EditorInv'
  BY <1>1, StepEditor
<1>3. CASE UNCHANGED <<hist, hlen, hhead>>
  BY <1>1, <1>2, <1>3 DEF PromptInv, RingFilled
<1>4. CASE Submit /\ buf # <<>>
  <2>1. history(buf) /\ Fits(buf)
    BY <1>1, <1>4 DEF Submit, EditorInv, TypeOK, Fits
  <2> QED BY <1>1, <1>2, <2>1, HistoryFills DEF PromptInv
<1>5. UNCHANGED <<hist, hlen, hhead>> \/ (Submit /\ buf # <<>>)
  BY DEF Next, vars, ring, Printable, Submit, Rubout, Tab, Close, Step, Arrow, Sideways,
         Delete, Jump
<1> QED
  BY <1>3, <1>4, <1>5

\* The ring is in order in every state.
LEMMA PromptInvHolds == Spec => []PromptInv
<1>1. Init => PromptInv
  <2> SUFFICES ASSUME Init PROVE PromptInv
    OBVIOUS
  <2>1. HistCap \in Nat \ {0}
    BY EditorAssumption
  <2>2. LineOK
    BY <2>1, EditorAssumption, ShortLines DEF Init, LineOK
  <2>3. RingOK /\ RingFilled
    BY <2>1 DEF Init, RingOK, Slot, HistoryFits, RingFilled
  <2> QED BY <2>2, <2>3, InvParts DEF Init, Mode, PromptInv
<1>2. PromptInv /\ [Next]_vars => PromptInv'
  BY StepPrompt
<1> QED
  BY <1>1, <1>2, PTL DEF Spec

-------------------------------------------------------------------------------
(* The arrows *)

\* An older line is one further back, and the slot the cursor moves to is that line's.
LEMMA UpIsOlder ==
    ASSUME RingOK, RingFilled, Older # hhead
    PROVE  /\ Age(Older) = Age(hcur) + 1
           /\ Age(Older) \in 1 .. HistCap - 1 /\ Back(Age(Older)) = Older
           /\ hist[Older] # Nil => Age(Older) <= hlen
<1>0. /\ HistCap \in Nat \ {0} /\ hlen \in 0 .. HistCap
      /\ hhead \in 0 .. HistCap - 1 /\ hcur \in 0 .. HistCap - 1
      /\ Older = IF hcur = 0 THEN HistCap - 1 ELSE hcur - 1
      /\ \A c \in 0 .. HistCap - 1 :
                Age(c) = IF c <= hhead THEN hhead - c ELSE hhead + HistCap - c
      /\ \A a \in 1 .. HistCap :
                Back(a) = IF a <= hhead THEN hhead - a ELSE hhead + HistCap - a
  BY Places
<1>1. Older \in 0 .. HistCap - 1
  BY <1>0
<1>2. Age(Older) = Age(hcur) + 1 /\ Age(Older) \in 1 .. HistCap - 1
  BY <1>0, <1>1
<1>3. Back(Age(Older)) = Older
  BY <1>0, <1>1, <1>2
<1>4. ASSUME hist[Older] # Nil PROVE Age(Older) <= hlen
  <2>1. Older < hlen
    BY <1>0, <1>1, <1>4 DEF RingFilled, Slot
  <2>2. CASE hlen < HistCap
    BY <1>0, <1>1, <2>1, <2>2 DEF RingFilled
  <2>3. CASE ~(hlen < HistCap)
    BY <1>0, <1>2, <2>3
  <2> QED BY <2>2, <2>3
<1> QED
  BY <1>2, <1>3, <1>4

\* A newer line is one less far back, down to the line being typed.
LEMMA DownIsNewer ==
    ASSUME RingOK, RingFilled, hcur # hhead
    PROVE  /\ Age(Newer) = Age(hcur) - 1
           /\ Age(Newer) \in 0 .. HistCap - 2
           /\ Age(Newer) = 0 <=> Newer = hhead
           /\ Newer # hhead => Back(Age(Newer)) = Newer
           /\ Newer # hhead /\ hist[Newer] # Nil => Age(Newer) <= hlen
<1>0. /\ HistCap \in Nat \ {0} /\ hlen \in 0 .. HistCap
      /\ hhead \in 0 .. HistCap - 1 /\ hcur \in 0 .. HistCap - 1
      /\ Newer = IF hcur = HistCap - 1 THEN 0 ELSE hcur + 1
      /\ \A c \in 0 .. HistCap - 1 :
                Age(c) = IF c <= hhead THEN hhead - c ELSE hhead + HistCap - c
      /\ \A a \in 1 .. HistCap :
                Back(a) = IF a <= hhead THEN hhead - a ELSE hhead + HistCap - a
  BY Places
<1>1. Newer \in 0 .. HistCap - 1
  BY <1>0
<1>2. /\ Age(Newer) = Age(hcur) - 1
      /\ Age(Newer) \in 0 .. HistCap - 2
      /\ Age(Newer) = 0 <=> Newer = hhead
  BY <1>0, <1>1
<1>3. Newer # hhead => Back(Age(Newer)) = Newer
  BY <1>0, <1>1, <1>2
<1>4. ASSUME Newer # hhead, hist[Newer] # Nil PROVE Age(Newer) <= hlen
  <2>1. Newer < hlen
    BY <1>0, <1>1, <1>4 DEF RingFilled, Slot
  <2>2. CASE hlen < HistCap
    BY <1>0, <1>1, <2>1, <2>2, <1>4 DEF RingFilled
  <2>3. CASE ~(hlen < HistCap)
    BY <1>0, <1>2, <2>3
  <2> QED BY <2>2, <2>3
<1> QED
  BY <1>2, <1>3, <1>4

\* An arrow leaves the line alone, or moves the cursor by one line and shows the
\* line that far back.
LEMMA ArrowWalks ==
    ASSUME PromptInv, Arrow
    PROVE  \/ UNCHANGED <<hcur, buf, pos>>
           \/ /\ Age(hcur') - Age(hcur) \in {1, -1}
              /\ \/ UNCHANGED <<buf, pos>>
                 \/ Age(hcur') = 0 /\ buf' = <<>> /\ pos' = 0
                 \/ /\ Age(hcur') \in 1 .. hlen
                    /\ buf' = Lines[hlen - Age(hcur') + 1] /\ pos' = Len(buf')
<1>0. RingOK /\ RingFilled /\ hlen \in Nat /\ HistCap \in Nat
  BY InvParts, EditorAssumption DEF PromptInv, RingOK
<1>1. CASE hist_up /\ hlen # 0 /\ Older # hhead
  <2>1. hcur' = Older /\ Show(hist[Older])
    BY <1>1 DEF hist_up
  <2>2. /\ Age(Older) = Age(hcur) + 1
        /\ Age(Older) \in 1 .. HistCap - 1 /\ Back(Age(Older)) = Older
        /\ hist[Older] # Nil => Age(Older) <= hlen
    BY <1>0, <1>1, UpIsOlder
  <2>3. Age(hcur) \in Int
    BY <1>0, Places DEF Age
  <2>4. CASE hist[Older] = Nil
    BY <2>1, <2>2, <2>3, <2>4 DEF Show
  <2>5. CASE hist[Older] # Nil
    <3>1. Age(Older) \in 1 .. hlen
      BY <1>0, <2>2, <2>5
    <3>2. Lines[hlen - Age(Older) + 1] = hist[Older]
      BY <1>0, <2>2, <3>1, LinesBack
    <3> QED BY <2>1, <2>2, <2>3, <2>5, <3>1, <3>2 DEF Show
  <2> QED BY <2>4, <2>5
<1>2. CASE hist_down /\ hcur # hhead
  <2> DEFINE line == IF Newer = hhead THEN <<>> ELSE hist[Newer]
  <2>1. hcur' = Newer /\ Show(line)
    BY <1>2 DEF hist_down
  <2>2. /\ Age(Newer) = Age(hcur) - 1
        /\ Age(Newer) \in 0 .. HistCap - 2
        /\ Age(Newer) = 0 <=> Newer = hhead
        /\ Newer # hhead => Back(Age(Newer)) = Newer
        /\ Newer # hhead /\ hist[Newer] # Nil => Age(Newer) <= hlen
    BY <1>0, <1>2, DownIsNewer
  <2>3. Age(hcur) \in Int /\ <<>> # Nil /\ Len(<<>>) = 0
    <3>1. /\ hhead \in 0 .. HistCap - 1 /\ hcur \in 0 .. HistCap - 1
          /\ \A c \in 0 .. HistCap - 1 :
               Age(c) = IF c <= hhead THEN hhead - c ELSE hhead + HistCap - c
      BY <1>0, Places
    <3>2. Age(hcur) \in Int
      BY <1>0, <3>1
    <3> QED BY <3>2, EditorAssumption, ShortLines
  <2>4. CASE Newer = hhead
    BY <2>1, <2>2, <2>3, <2>4 DEF Show
  <2>5. CASE Newer # hhead /\ hist[Newer] = Nil
    BY <2>1, <2>2, <2>3, <2>5 DEF Show
  <2>6. CASE Newer # hhead /\ hist[Newer] # Nil
    <3>1. Age(Newer) \in 1 .. hlen
      <4>1. Age(Newer) \in 0 .. HistCap - 2 /\ Age(Newer) # 0
        BY <2>2, <2>6
      <4>2. Age(Newer) <= hlen
        BY <2>2, <2>6
      <4> QED BY <1>0, <4>1, <4>2
    <3>2. Lines[hlen - Age(Newer) + 1] = hist[Newer]
      BY <1>0, <2>2, <2>6, <3>1, LinesBack
    <3> QED BY <2>1, <2>2, <2>3, <2>6, <3>1, <3>2 DEF Show
  <2> QED BY <2>4, <2>5, <2>6
<1>3. \/ UNCHANGED <<hcur, buf, pos>>
      \/ hist_up /\ hlen # 0 /\ Older # hhead
      \/ hist_down /\ hcur # hhead
  BY DEF Arrow, hist_up, hist_down
<1> QED
  BY <1>1, <1>2, <1>3

\* The arrows walk the history line by line, and show the line that is as many
\* lines back as the cursor, for any number of slots.
THEOREM ArrowsWalk == Spec => WalksByAge
<1> DEFINE A == hcur' # hcur /\ hhead' = hhead =>
          /\ Age(hcur)' - Age(hcur) \in {1, -1}
          /\ LET a == Age(hcur)'
             IN buf' # buf => buf' = IF a = 0 THEN <<>> ELSE Lines[hlen - a + 1]
<1>1. ASSUME PromptInv, [Next]_vars PROVE [A]_vars
  <2> SUFFICES ASSUME hcur' # hcur, hhead' = hhead PROVE A
    OBVIOUS
  <2>0. RingOK
    BY <1>1, InvParts DEF PromptInv
  <2>1. CASE Arrow
    <3>1. Age(hcur)' = Age(hcur')
      BY DEF Age
    <3> QED BY <1>1, <2>1, <3>1, ArrowWalks
  <2>2. CASE Submit
    <3>1. history(buf)
      BY <2>2 DEF Submit, ring
    <3>2. /\ HistCap \in Nat \ {0}
          /\ hhead \in 0 .. HistCap - 1 /\ hcur \in 0 .. HistCap - 1
          /\ (hhead + 1) % HistCap = IF hhead = HistCap - 1 THEN 0 ELSE hhead + 1
      BY <2>0, Places
    <3>3. hhead' = (hhead + 1) % HistCap /\ hcur' = hhead'
      BY <3>1 DEF history
    <3>4. hhead = 0 /\ HistCap = 1
      BY <3>2, <3>3
    <3>5. hcur = 0 /\ hcur' = 0
      BY <3>2, <3>3, <3>4
    <3> QED BY <3>5
  <2> QED
    BY <1>1, <2>1, <2>2 DEF Next, vars, ring, Printable, Rubout, Tab, Close, Step,
         Sideways, Delete, Jump
<1>2. PromptInv /\ [Next]_vars => [A]_vars
  BY <1>1
<1> QED
  BY <1>2, PromptInvHolds, PTL DEF Spec, WalksByAge

-------------------------------------------------------------------------------
(* The prompt *)

\* Two sequences with the same elements at the same places are the same.
LEMMA SameSequence ==
    ASSUME NEW S, NEW s \in Seq(S), NEW t \in Seq(S), Len(s) = Len(t),
           \A i \in 1 .. Len(s) : s[i] = t[i]
    PROVE  s = t
OBVIOUS

\* Where the characters of two joined lines are.
LEMMA JoinPlaces ==
    ASSUME NEW a \in Line, NEW b \in Line
    PROVE  /\ \A i \in 1 .. Len(a) : (a \o b)[i] = a[i]
           /\ \A i \in 1 .. Len(b) : (a \o b)[Len(a) + i] = b[i]
BY DEF Line

\* Where the characters of a part of a line are.
LEMMA PartPlaces ==
    ASSUME NEW l \in Line, NEW i \in Nat \ {0}, NEW j \in 0 .. Len(l)
    PROVE  \A k \in 1 .. Len(SubSeq(l, i, j)) : SubSeq(l, i, j)[k] = l[i + k - 1]
BY DEF Line

\* A line is what stands before a place in it and what stands after.
LEMMA Halves ==
    ASSUME NEW l \in Line, NEW p \in 0 .. Len(l)
    PROVE  /\ SubSeq(l, 1, p) \in Line /\ Len(SubSeq(l, 1, p)) = p
           /\ SubSeq(l, p + 1, Len(l)) \in Line
           /\ Len(SubSeq(l, p + 1, Len(l))) = Len(l) - p
           /\ SubSeq(l, 1, p) \o SubSeq(l, p + 1, Len(l)) = l
<1>1. Len(l) \in Nat /\ p \in Nat
  BY DEF Line
<1> DEFINE a == SubSeq(l, 1, p)
           b == SubSeq(l, p + 1, Len(l))
<1>2. a \in Line /\ Len(a) = p
  BY <1>1, PartIsLine
<1>3. b \in Line /\ Len(b) = Len(l) - p
  BY <1>1, PartIsLine
<1>4. \A k \in 1 .. p : a[k] = l[k]
  <2>1. \A k \in 1 .. Len(a) : a[k] = l[1 + k - 1]
    BY <1>1, PartPlaces
  <2> QED BY <1>1, <1>2, <2>1
<1>5. \A k \in 1 .. Len(l) - p : b[k] = l[p + k]
  <2>1. \A k \in 1 .. Len(b) : b[k] = l[(p + 1) + k - 1]
    BY <1>1, PartPlaces
  <2> HIDE DEF b
  <2> QED BY <1>1, <1>3, <2>1
<1> HIDE DEF a, b
<1>6. a \o b \in Line /\ Len(a \o b) = Len(l)
  BY <1>1, <1>2, <1>3, JoinIsLine
<1>7. ASSUME NEW i \in 1 .. Len(l) PROVE (a \o b)[i] = l[i]
  <2>1. CASE i <= p
    BY <1>1, <1>2, <1>3, <1>4, <2>1, JoinPlaces
  <2>2. CASE ~(i <= p)
    <3>1. i - p \in 1 .. Len(l) - p /\ i = p + (i - p)
      BY <1>1, <2>2
    <3>2. (a \o b)[p + (i - p)] = b[i - p]
      BY <1>2, <1>3, <3>1, JoinPlaces
    <3> QED BY <1>5, <3>1, <3>2
  <2> QED BY <2>1, <2>2
<1>8. a \o b = l
  BY <1>6, <1>7, SameSequence DEF Line
<1> QED
  BY <1>2, <1>3, <1>8 DEF a, b

\* A line cut after its first part falls into the parts it was joined from.
LEMMA Cut ==
    ASSUME NEW a \in Line, NEW b \in Line
    PROVE  /\ SubSeq(a \o b, 1, Len(a)) = a
           /\ SubSeq(a \o b, Len(a) + 1, Len(a \o b)) = b
BY DEF Line

\* What is joined to a line has it as a prefix.
LEMMA JoinExtends ==
    ASSUME NEW a \in Line, NEW s \in Line
    PROVE  (s = <<>> /\ a \o s = a) \/ IsStrictPrefix(a, a \o s)
BY DEF Line, IsStrictPrefix, IsPrefix

\* Text put in at the cursor goes in before it, and nothing else changes.
LEMMA PutInserts ==
    ASSUME LineOK, NEW s \in Line, Put(s), Len(buf) + Len(s) < Cap, UNCHANGED Lines
    PROVE  [Prompt!Insert]_(Prompt!vars)
<1> DEFINE a == SubSeq(buf, 1, pos)
           b == SubSeq(buf, pos + 1, Len(buf))
<1>1. buf \in Line /\ pos \in 0 .. Len(buf) /\ Len(buf) \in Nat /\ Len(s) \in Nat
  BY DEF LineOK, Line
<1>2. a \in Line /\ Len(a) = pos /\ b \in Line /\ Len(b) = Len(buf) - pos
  BY <1>1, Halves
<1>3. buf' = (a \o s) \o b /\ pos' = pos + Len(s)
  BY DEF Put
<1> HIDE DEF a, b
<1>4. a \o s \in Line /\ Len(a \o s) = pos + Len(s)
  BY <1>2, JoinIsLine
<1>5. SubSeq(buf', 1, pos') = a \o s /\ SubSeq(buf', pos' + 1, Len(buf')) = b
  <2>1. /\ SubSeq((a \o s) \o b, 1, Len(a \o s)) = a \o s
        /\ SubSeq((a \o s) \o b, Len(a \o s) + 1, Len((a \o s) \o b)) = b
    BY <1>2, <1>4, Cut
  <2> QED BY <1>3, <1>4, <2>1
<1>6. Len(a \o s) + Len(b) < Cap
  BY <1>1, <1>2, <1>4
<1>7. CASE IsStrictPrefix(a, a \o s)
  <2>1. /\ IsStrictPrefix(SubSeq(buf, 1, pos), SubSeq(buf', 1, pos'))
        /\ Len(SubSeq(buf', 1, pos')) + Len(SubSeq(buf, pos + 1, Len(buf))) < Cap
        /\ SubSeq(buf', pos' + 1, Len(buf')) = SubSeq(buf, pos + 1, Len(buf))
    BY <1>5, <1>6, <1>7 DEF a, b
  <2>2. Prompt!Insert
    BY <2>1 DEF Prompt!Insert, Prompt!IsStrictPrefix, Prompt!IsPrefix, IsStrictPrefix, IsPrefix
  <2> QED BY <2>2
<1>8. CASE s = <<>> /\ a \o s = a
  <2>1. /\ SubSeq(buf', 1, pos') = SubSeq(buf, 1, pos)
        /\ SubSeq(buf', pos' + 1, Len(buf')) = SubSeq(buf, pos + 1, Len(buf))
    BY <1>5, <1>8 DEF a, b
  <2> QED BY <2>1 DEF Prompt!vars
<1> QED
  BY <1>2, <1>7, <1>8, JoinExtends

\* The cursor moves through the line.
LEMMA CursorMoves ==
    ASSUME LineOK, NEW p \in 0 .. Len(buf), Cursor(p), UNCHANGED Lines
    PROVE  Prompt!Move
<1>1. buf \in Line /\ pos \in 0 .. Len(buf) /\ buf' = buf /\ pos' = p
  BY DEF LineOK, Cursor
<1>2. SubSeq(buf, 1, pos) \o SubSeq(buf, pos + 1, Len(buf)) = buf
  BY <1>1, Halves
<1>3. SubSeq(buf, 1, p) \o SubSeq(buf, p + 1, Len(buf)) = buf
  BY <1>1, Halves
<1>4. SubSeq(buf', 1, pos') \o SubSeq(buf', pos' + 1, Len(buf'))
        = SubSeq(buf, 1, pos) \o SubSeq(buf, pos + 1, Len(buf))
  BY <1>1, <1>2, <1>3
<1> QED
  BY <1>4 DEF Prompt!Move

\* Taking the character at place i out leaves what stands before it and after it.
LEMMA RemoveLeaves ==
    ASSUME NEW l \in Line, NEW i \in 1 .. Len(l)
    PROVE  /\ RemoveAt(l, i) \in Line
           /\ SubSeq(RemoveAt(l, i), 1, i - 1) = SubSeq(l, 1, i - 1)
           /\ SubSeq(RemoveAt(l, i), i, Len(RemoveAt(l, i))) = SubSeq(l, i + 1, Len(l))
<1> DEFINE a == SubSeq(l, 1, i - 1)
           b == SubSeq(l, i + 1, Len(l))
<1>1. Len(l) \in Nat
  BY DEF Line
<1>2. a \in Line /\ Len(a) = i - 1
  BY <1>1, PartIsLine
<1>3. b \in Line
  BY <1>1, PartIsLine
<1>4. RemoveAt(l, i) = a \o b
  BY DEF RemoveAt
<1> HIDE DEF a, b
<1>5. SubSeq(a \o b, 1, i - 1) = a /\ SubSeq(a \o b, i, Len(a \o b)) = b
  <2>1. Len(a) + 1 = i
    BY <1>1, <1>2
  <2> QED BY <1>2, <1>3, <2>1, Cut
<1>6. a \o b \in Line
  BY <1>2, <1>3, JoinIsLine
<1> QED
  BY <1>4, <1>5, <1>6 DEF a, b

\* The first part of a part, and what is left of a part without its first element.
LEMMA PartOfPart ==
    ASSUME NEW l \in Line, NEW p \in 1 .. Len(l)
    PROVE  /\ SubSeq(l, 1, p) # <<>>
           /\ SubSeq(SubSeq(l, 1, p), 1, p - 1) = SubSeq(l, 1, p - 1)
           /\ SubSeq(l, p, Len(l)) # <<>>
           /\ Tail(SubSeq(l, p, Len(l))) = SubSeq(l, p + 1, Len(l))
<1>1. Len(l) \in Nat /\ p \in Nat \ {0} /\ l \in Seq(Char)
  BY DEF Line
<1>2. SubSeq(l, 1, p) # <<>> /\ SubSeq(l, p, Len(l)) # <<>>
  <2>1. Len(SubSeq(l, 1, p)) = p /\ Len(SubSeq(l, p, Len(l))) = Len(l) - p + 1
    BY <1>1, PartIsLine
  <2>2. p # 0 /\ Len(l) - p + 1 # 0
    BY <1>1
  <2> QED BY <2>1, <2>2, ShortLines
<1>3. SubSeq(SubSeq(l, 1, p), 1, p - 1) = SubSeq(l, 1, p - 1)
  <2> DEFINE b == SubSeq(l, 1, p)
             c == SubSeq(l, 1, p - 1)
             d == SubSeq(b, 1, p - 1)
  <2>1. b \in Line /\ Len(b) = p
    BY <1>1, PartIsLine
  <2>2. c \in Line /\ Len(c) = p - 1
    BY <1>1, PartIsLine
  <2>3. d \in Line /\ Len(d) = p - 1
    <3> HIDE DEF b
    <3> QED BY <1>1, <2>1, PartIsLine
  <2>4. ASSUME NEW k \in 1 .. p - 1 PROVE d[k] = c[k]
    <3>1. b[k] = l[1 + k - 1]
      BY <1>1, <2>1, PartPlaces
    <3>2. c[k] = l[1 + k - 1]
      BY <1>1, <2>2, PartPlaces
    <3>3. d[k] = b[1 + k - 1]
      <4> HIDE DEF b
      <4> QED BY <1>1, <2>1, <2>3, PartPlaces
    <3>4. 1 + k - 1 = k
      BY <1>1
    <3> HIDE DEF b, c, d
    <3> QED BY <3>1, <3>2, <3>3, <3>4
  <2> HIDE DEF b, c, d
  <2>5. d = c
    BY <2>2, <2>3, <2>4, SameSequence DEF Line
  <2> QED BY <2>5 DEF b, c, d
<1>4. Tail(SubSeq(l, p, Len(l))) = SubSeq(l, p + 1, Len(l))
  <2> DEFINE b == SubSeq(l, p, Len(l))
             c == SubSeq(l, p + 1, Len(l))
  <2>1. b \in Seq(Char) /\ Len(b) = Len(l) - p + 1
    BY <1>1
  <2>2. c \in Seq(Char) /\ Len(c) = Len(l) - p
    BY <1>1
  <2>3. \A k \in 1 .. Len(b) : b[k] = l[p + k - 1]
    BY <1>1, PartPlaces
  <2>4. \A k \in 1 .. Len(c) : c[k] = l[(p + 1) + k - 1]
    BY <1>1, PartPlaces
  <2> HIDE DEF b, c
  <2>5. Tail(b) \in Seq(Char) /\ Len(Tail(b)) = Len(l) - p
    BY <1>1, <2>1
  <2>6. ASSUME NEW k \in 1 .. Len(l) - p PROVE Tail(b)[k] = c[k]
    <3>1. Tail(b)[k] = b[k + 1]
      BY <1>1, <2>1
    <3>2. b[k + 1] = l[p + (k + 1) - 1]
      BY <1>1, <2>1, <2>3
    <3>3. p + (k + 1) - 1 = (p + 1) + k - 1
      BY <1>1
    <3> QED BY <2>2, <2>4, <3>1, <3>2, <3>3
  <2>7. Tail(b) = c
    BY <2>2, <2>5, <2>6, SameSequence
  <2> QED BY <2>7 DEF b, c
<1> QED
  BY <1>2, <1>3, <1>4

\* Backspace takes the character before the cursor out, if there is one.
LEMMA BackspaceRubsOut ==
    ASSUME LineOK, Backspace, UNCHANGED Lines
    PROVE  [Prompt!Rubout]_(Prompt!vars)
<1>1. buf \in Line /\ pos \in 0 .. Len(buf) /\ Len(buf) \in Nat
  BY DEF LineOK, Line
<1>2. CASE pos > 0
  <2>1. buf' = RemoveAt(buf, pos) /\ pos' = pos - 1 /\ pos \in 1 .. Len(buf)
    BY <1>1, <1>2 DEF Backspace
  <2>2. /\ SubSeq(buf', 1, pos') = SubSeq(buf, 1, pos - 1)
        /\ SubSeq(buf', pos' + 1, Len(buf')) = SubSeq(buf, pos + 1, Len(buf))
    <3>1. pos' + 1 = pos
      BY <1>1, <2>1
    <3> QED BY <1>1, <2>1, <3>1, RemoveLeaves
  <2>3. SubSeq(buf, 1, pos) # <<>> /\ Len(SubSeq(buf, 1, pos)) = pos
    BY <1>1, <2>1, PartOfPart, Halves
  <2>4. SubSeq(buf', 1, pos') = SubSeq(SubSeq(buf, 1, pos), 1, pos - 1)
    BY <1>1, <2>1, <2>2, PartOfPart
  <2>5. Prompt!Rubout
    BY <2>2, <2>3, <2>4 DEF Prompt!Rubout, Prompt!Front
  <2> QED BY <2>5
<1>3. CASE ~(pos > 0)
  BY <1>3 DEF Backspace, Prompt!vars
<1> QED
  BY <1>2, <1>3

\* The delete key takes the character at the cursor out, if there is one.
LEMMA DeleteErases ==
    ASSUME LineOK, DeleteKey, UNCHANGED Lines
    PROVE  [Prompt!Erase]_(Prompt!vars)
<1>1. buf \in Line /\ pos \in 0 .. Len(buf) /\ Len(buf) \in Nat
  BY DEF LineOK, Line
<1>2. CASE pos < Len(buf)
  <2>1. /\ buf' = RemoveAt(buf, pos + 1) /\ pos' = pos /\ pos + 1 \in 1 .. Len(buf)
        /\ (pos + 1) - 1 = pos
    BY <1>1, <1>2 DEF DeleteKey
  <2>2. /\ SubSeq(buf', 1, pos') = SubSeq(buf, 1, pos)
        /\ SubSeq(buf', pos' + 1, Len(buf')) = SubSeq(buf, (pos + 1) + 1, Len(buf))
    BY <1>1, <2>1, RemoveLeaves
  <2>3. /\ SubSeq(buf, pos + 1, Len(buf)) # <<>>
        /\ Tail(SubSeq(buf, pos + 1, Len(buf))) = SubSeq(buf, (pos + 1) + 1, Len(buf))
    BY <1>1, <2>1, PartOfPart
  <2>4. Prompt!Erase
    BY <2>2, <2>3 DEF Prompt!Erase
  <2> QED BY <2>4
<1>3. CASE ~(pos < Len(buf))
  BY <1>3 DEF DeleteKey, Prompt!vars
<1> QED
  BY <1>2, <1>3

\* An arrow recalls a line that is remembered, or an empty one.
LEMMA ArrowRecalls ==
    ASSUME PromptInv, Arrow, UNCHANGED Lines
    PROVE  [Prompt!Recall]_(Prompt!vars)
<1>1. RingOK /\ RingFilled /\ hlen \in Nat
  BY InvParts, EditorAssumption DEF PromptInv, RingOK
<1>2. Lines \in Seq(Line) /\ Len(Lines) = hlen
  BY <1>1, LinesBack
<1>3. CASE UNCHANGED <<buf, pos>>
  BY <1>3 DEF Prompt!vars
<1>4. ASSUME buf' \in Line, pos' = Len(buf'), buf' = <<>> \/ \E i \in 1 .. hlen : buf' = Lines[i]
      PROVE  Prompt!Recall
  <2>1. SubSeq(buf', 1, pos') = buf' /\ SubSeq(buf', pos' + 1, Len(buf')) = <<>>
    BY <1>4 DEF Line
  <2>2. buf' \in {Lines[i] : i \in DOMAIN Lines} \cup {<<>>}
    BY <1>2, <1>4
  <2> QED BY <2>1, <2>2 DEF Prompt!Recall, Prompt!Range
<1>5. \/ UNCHANGED <<buf, pos>>
      \/ buf' = <<>> /\ pos' = 0
      \/ \E i \in 1 .. hlen : buf' = Lines[i] /\ pos' = Len(buf')
  <2>1. ASSUME NEW a \in 1 .. hlen PROVE hlen - a + 1 \in 1 .. hlen
    BY <1>1
  <2> QED BY <2>1, ArrowWalks
<1>6. CASE buf' = <<>> /\ pos' = 0
  BY <1>4, <1>6, ShortLines
<1>7. CASE \E i \in 1 .. hlen : buf' = Lines[i] /\ pos' = Len(buf')
  <2>1. buf' \in Line
    BY <1>2, <1>7
  <2> QED BY <1>4, <1>7, <2>1
<1> QED
  BY <1>3, <1>5, <1>6, <1>7

\* Going on from a slot by less than a turn.
LEMMA Turn ==
    ASSUME NEW h \in 0 .. HistCap - 1, NEW i \in 1 .. HistCap
    PROVE  (h + i - 1) % HistCap
             = IF h + i - 1 < HistCap THEN h + i - 1 ELSE h + i - 1 - HistCap
<1>0. HistCap \in Nat \ {0}
  BY Wrap
<1>1. CASE h + i - 1 < HistCap
  <2>1. h + i - 1 \in 0 .. HistCap - 1
    BY <1>0, <1>1
  <2> QED BY <1>1, <2>1, Wrap
<1>2. CASE ~(h + i - 1 < HistCap)
  <2>1. h + i - 1 \in HistCap .. 2 * HistCap - 1
    BY <1>0, <1>2
  <2> QED BY <1>2, <2>1, Wrap
<1> QED
  BY <1>1, <1>2

\* A sequence is the function of its elements.
LEMMA SequenceIs ==
    ASSUME NEW S, NEW n \in Nat, NEW s \in Seq(S), Len(s) = n
    PROVE  s = [i \in 1 .. n |-> s[i]]
OBVIOUS

\* A sequence without its first element.
LEMMA TailIs ==
    ASSUME NEW S, NEW n \in Nat, NEW s \in Seq(S), Len(s) = n + 1
    PROVE  Tail(s) = [i \in 1 .. n |-> s[i + 1]]
<1>1. /\ Tail(s) \in Seq(S) /\ Len(Tail(s)) = n
      /\ \A i \in 1 .. n : Tail(s)[i] = s[i + 1]
  <2>1. s # <<>> /\ Len(s) - 1 = n
    OBVIOUS
  <2> QED BY <2>1, HeadTailProperties
<1>2. Tail(s) = [i \in 1 .. n |-> Tail(s)[i]]
  BY <1>1, SequenceIs
<1> QED
  BY <1>1, <1>2

\* history puts the line behind the others, and forgets the oldest of them when the
\* ring is full.
LEMMA HistoryRemembers ==
    ASSUME PromptInv, Fits(buf), history(buf)
    PROVE  Lines' = Prompt!Latest(Append(Lines, buf))
<1>0. RingOK /\ RingFilled
  BY InvParts DEF PromptInv
<1>1. /\ HistCap \in Nat \ {0} /\ hlen \in 0 .. HistCap
      /\ hhead \in 0 .. HistCap - 1
      /\ (hhead + 1) % HistCap = IF hhead = HistCap - 1 THEN 0 ELSE hhead + 1
  BY <1>0, Places
<1>2. PICK h, l : h = hhead' /\ l = hlen'
  OBVIOUS
<1>3. /\ hist \in [Slot -> Line \cup {Nil}]
      /\ hist' = [hist EXCEPT ![hhead] = buf]
      /\ h = IF hhead = HistCap - 1 THEN 0 ELSE hhead + 1
      /\ l = IF hlen < HistCap THEN hlen + 1 ELSE hlen
      /\ buf \in Line
  BY <1>0, <1>1, <1>2 DEF history, RingOK, Fits
<1>4. Lines \in Seq(Line) /\ Len(Lines) = hlen
  BY <1>0, LinesBack
<1>5. PICK s \in Seq(Line) : s = Append(Lines, buf) /\ Len(s) = hlen + 1
  <2>1. Append(Lines, buf) \in Seq(Line) /\ Len(Append(Lines, buf)) = hlen + 1
    BY <1>3, <1>4, AppendProperties
  <2> QED BY <2>1
<1>6. ASSUME NEW i \in 1 .. hlen
      PROVE  s[i] = hist[(hhead + HistCap - hlen + i - 1) % HistCap]
  <2>1. s[i] = Lines[i]
    BY <1>1, <1>3, <1>4, <1>5
  <2> QED BY <2>1 DEF Lines
<1>7. s[hlen + 1] = buf
  BY <1>3, <1>4, <1>5
<1>8. Lines' = [i \in 1 .. l |-> hist'[(h + HistCap - l + i - 1) % HistCap]]
  BY <1>2 DEF Lines
<1>9. hhead \in Slot /\ hist'[hhead] = buf
        /\ \A j \in Slot : j # hhead => hist'[j] = hist[j]
  BY <1>1, <1>3 DEF Slot
<1>10. CASE hlen < HistCap
  <2>1. hhead = hlen /\ l = hlen + 1
    BY <1>0, <1>3, <1>10 DEF RingFilled
  <2>2. ASSUME NEW i \in 1 .. hlen PROVE s[i] = hist[i - 1]
    <3>1. /\ hhead + HistCap - hlen + i - 1 = HistCap + i - 1
          /\ HistCap + i - 1 \in HistCap .. 2 * HistCap - 1
          /\ (HistCap + i - 1) - HistCap = i - 1
      BY <1>1, <1>10, <2>1
    <3>2. (HistCap + i - 1) % HistCap = (HistCap + i - 1) - HistCap
      BY <3>1, Wrap
    <3> QED BY <1>6, <3>1, <3>2
  <2>3. ASSUME NEW i \in 1 .. hlen + 1 PROVE (h + HistCap - l + i - 1) % HistCap = i - 1
    <3>1. CASE hhead = HistCap - 1
      <4>1. h + HistCap - l + i - 1 = i - 1 /\ i - 1 \in 0 .. HistCap - 1
        BY <1>1, <1>3, <1>10, <2>1, <3>1
      <4> QED BY <4>1, Wrap
    <3>2. CASE hhead # HistCap - 1
      <4>1. /\ h + HistCap - l + i - 1 = HistCap + i - 1
            /\ HistCap + i - 1 \in HistCap .. 2 * HistCap - 1
            /\ (HistCap + i - 1) - HistCap = i - 1
        BY <1>1, <1>3, <1>10, <2>1, <3>2
      <4>2. (HistCap + i - 1) % HistCap = (HistCap + i - 1) - HistCap
        BY <4>1, Wrap
      <4> QED BY <4>1, <4>2
    <3> QED BY <3>1, <3>2
  <2>4. ASSUME NEW i \in 1 .. hlen + 1 PROVE hist'[i - 1] = s[i]
    <3>1. CASE i = hlen + 1
      <4>1. i - 1 = hhead
        BY <1>1, <2>1, <3>1
      <4> QED BY <1>7, <1>9, <3>1, <4>1
    <3>2. CASE i # hlen + 1
      <4>1. i \in 1 .. hlen /\ i - 1 # hhead /\ i - 1 \in Slot
        BY <1>1, <2>1, <3>2 DEF Slot
      <4> QED BY <1>9, <2>2, <4>1
    <3> QED BY <3>1, <3>2
  <2>5. Lines' = [i \in 1 .. hlen + 1 |-> s[i]]
    BY <1>8, <2>1, <2>3, <2>4
  <2>6. s = [i \in 1 .. hlen + 1 |-> s[i]]
    <3>1. hlen + 1 \in Nat
      BY <1>1
    <3> QED BY <1>5, <3>1, SequenceIs
  <2>7. Prompt!Latest(s) = s
    BY <1>1, <1>5, <1>10 DEF Prompt!Latest
  <2> QED BY <1>5, <2>5, <2>6, <2>7
<1>11. CASE ~(hlen < HistCap)
  <2>1. hlen = HistCap /\ l = HistCap
    BY <1>1, <1>3, <1>11
  <2>2. h \in 0 .. HistCap - 1
    BY <1>1, <1>3
  <2>3. ASSUME NEW i \in 1 .. HistCap
        PROVE  s[i] = hist[IF hhead + i - 1 < HistCap THEN hhead + i - 1
                           ELSE hhead + i - 1 - HistCap]
    <3>1. hhead + HistCap - hlen + i - 1 = hhead + i - 1
      BY <1>1, <2>1
    <3>2. s[i] = hist[(hhead + i - 1) % HistCap]
      BY <1>6, <2>1, <3>1
    <3> QED BY <1>1, <3>2, Turn
  <2>4. ASSUME NEW i \in 1 .. HistCap
        PROVE  (h + HistCap - l + i - 1) % HistCap
                 = IF h + i - 1 < HistCap THEN h + i - 1 ELSE h + i - 1 - HistCap
    <3>1. h + HistCap - l + i - 1 = h + i - 1
      BY <1>1, <2>1, <2>2
    <3> QED BY <2>2, <3>1, Turn
  <2>5. ASSUME NEW i \in 1 .. HistCap
        PROVE  hist'[(h + HistCap - l + i - 1) % HistCap] = s[i + 1]
    <3>1. PICK j : j = IF h + i - 1 < HistCap THEN h + i - 1 ELSE h + i - 1 - HistCap
      OBVIOUS
    <3>2. CASE i = HistCap
      <4>1. j = hhead
        BY <1>1, <1>3, <3>1, <3>2
      <4> QED BY <1>7, <1>9, <2>1, <2>4, <3>1, <3>2, <4>1
    <3>3. CASE i # HistCap
      <4>1. i + 1 \in 1 .. HistCap
        BY <1>1, <3>3
      <4>2. j = IF hhead + (i + 1) - 1 < HistCap THEN hhead + (i + 1) - 1
                ELSE hhead + (i + 1) - 1 - HistCap
        BY <1>1, <1>3, <3>1, <3>3
      <4>3. j \in Slot /\ j # hhead
        BY <1>1, <3>3, <4>2 DEF Slot
      <4>4. hist'[j] = hist[j]
        BY <1>9, <4>3
      <4>5. s[i + 1] = hist[j]
        BY <2>3, <4>1, <4>2
      <4> QED BY <2>4, <3>1, <4>4, <4>5
    <3> QED BY <3>2, <3>3
  <2>6. Lines' = [i \in 1 .. HistCap |-> s[i + 1]]
    BY <1>8, <2>1, <2>5
  <2>7. Tail(s) = [i \in 1 .. HistCap |-> s[i + 1]]
    <3>1. HistCap \in Nat /\ Len(s) = HistCap + 1
      BY <1>1, <1>5, <2>1
    <3> QED BY <3>1, TailIs
  <2>8. Prompt!Latest(s) = Tail(s)
    BY <1>1, <1>5, <2>1 DEF Prompt!Latest
  <2> QED BY <1>5, <2>6, <2>7, <2>8
<1> QED
  BY <1>10, <1>11

\* Enter enters the line, unless it is empty.
LEMMA SubmitEnters ==
    ASSUME PromptInv, Submit
    PROVE  [Prompt!Enter]_(Prompt!vars)
<1>1. buf \in Line /\ pos \in 0 .. Len(buf) /\ Fits(buf)
  BY DEF PromptInv, EditorInv, TypeOK, Fits
<1>2. buf' = <<>> /\ pos' = 0
  BY DEF Submit
<1>3. SubSeq(buf', 1, pos') = <<>> /\ SubSeq(buf', pos' + 1, Len(buf')) = <<>>
  BY <1>2
<1>4. SubSeq(buf, 1, pos) \o SubSeq(buf, pos + 1, Len(buf)) = buf
  BY <1>1, Halves
<1>5. CASE buf = <<>>
  <2>1. pos = 0
    BY <1>1, <1>5
  <2>2. buf' = buf /\ pos' = pos
    BY <1>2, <1>5, <2>1
  <2>3. Lines' = Lines
    BY <1>5 DEF Submit, ring, Lines
  <2> QED BY <2>2, <2>3 DEF Prompt!vars
<1>6. CASE buf # <<>>
  <2>1. Lines' = Prompt!Latest(Append(Lines, buf))
    BY <1>1, <1>6, HistoryRemembers DEF Submit
  <2>2. Prompt!Enter
    BY <1>3, <1>4, <1>6, <2>1 DEF Prompt!Enter
  <2> QED BY <2>2
<1> QED
  BY <1>5, <1>6

\* Every step of the editor is a step of the prompt, or none.
LEMMA StepKeepsPrompt ==
    ASSUME PromptInv, [Next]_vars
    PROVE  [Prompt!Next]_(Prompt!vars)
<1>0. LineOK
  BY InvParts DEF PromptInv
<1>1. buf \in Line /\ pos \in 0 .. Len(buf) /\ Len(buf) \in Nat
  BY <1>0 DEF LineOK, Line
<1>2. ASSUME UNCHANGED <<buf, pos, hist, hlen, hhead>> PROVE UNCHANGED Prompt!vars
  <2>1. Lines' = Lines
    BY <1>2 DEF Lines
  <2> QED BY <1>2, <2>1 DEF Prompt!vars
<1>3. ASSUME UNCHANGED <<hist, hlen, hhead>> PROVE UNCHANGED Lines
  BY <1>3 DEF Lines
<1>4. ASSUME NEW c \in Char, Printable(c) PROVE [Prompt!Insert]_(Prompt!vars)
  <2>1. CASE Len(buf) < Cap - 1
    <3>1. <<c>> \in Line /\ Len(<<c>>) = 1
      BY ShortLines
    <3>2. Len(buf) + Len(<<c>>) < Cap
      BY <1>1, <2>1, <3>1, EditorAssumption
    <3> QED BY <1>0, <1>3, <1>4, <2>1, <3>1, <3>2, PutInserts DEF Printable, ring
  <2>2. CASE ~(Len(buf) < Cap - 1)
    BY <1>2, <1>4, <2>2 DEF Printable, ring
  <2> QED BY <2>1, <2>2
<1>5. CASE Submit
  BY <1>5, SubmitEnters DEF Prompt!Next
<1>6. CASE Rubout
  <2>1. [Prompt!Rubout]_(Prompt!vars)
    BY <1>0, <1>3, <1>6, BackspaceRubsOut DEF Rubout, ring
  <2> QED BY <2>1 DEF Prompt!Next
<1>7. CASE Tab
  <2>1. CASE UNCHANGED <<buf, pos>>
    BY <1>2, <1>7, <2>1 DEF Tab, ring
  <2>2. CASE \E s \in Line : Put(s) /\ Len(buf) + Len(s) < Cap
    <3>1. [Prompt!Insert]_(Prompt!vars)
      BY <1>0, <1>3, <1>7, <2>2, PutInserts DEF Tab, ring
    <3> QED BY <3>1 DEF Prompt!Next
  <2> QED BY <1>0, <1>7, <2>1, <2>2, TabPuts
<1>8. CASE Close \/ Step
  BY <1>2, <1>8 DEF Close, Step, ring
<1>9. CASE Arrow
  <2>1. [Prompt!Recall]_(Prompt!vars)
    BY <1>3, <1>9, ArrowRecalls DEF Arrow
  <2> QED BY <2>1 DEF Prompt!Next
<1>10. CASE Sideways \/ Jump
  <2>1. PICK p \in 0 .. Len(buf) : Cursor(p)
    <3>1. CASE Sideways
      <4>1. /\ Lesser(pos + 1, Len(buf)) \in 0 .. Len(buf)
            /\ (IF pos > 0 THEN pos - 1 ELSE 0) \in 0 .. Len(buf)
        BY <1>1 DEF Lesser
      <4> QED BY <3>1, <4>1 DEF Sideways
    <3>2. CASE Jump
      <4>1. JumpRight \in 0 .. Len(buf) /\ JumpLeft \in 0 .. Len(buf)
        BY <1>1, JumpsInLine
      <4> QED BY <3>2, <4>1 DEF Jump
    <3> QED BY <1>10, <3>1, <3>2
  <2>2. Prompt!Move
    BY <1>0, <1>3, <1>10, <2>1, CursorMoves DEF Sideways, Jump, ring
  <2> QED BY <2>2 DEF Prompt!Next
<1>11. CASE Delete
  <2>1. [Prompt!Erase]_(Prompt!vars)
    BY <1>0, <1>3, <1>11, DeleteErases DEF Delete, ring
  <2> QED BY <2>1 DEF Prompt!Next
<1>12. CASE UNCHANGED vars
  BY <1>2, <1>12 DEF vars, ring
<1>13. ASSUME NEW c \in Char, Printable(c) PROVE [Prompt!Next]_(Prompt!vars)
  BY <1>4, <1>13 DEF Prompt!Next
<1> QED
  BY <1>5, <1>6, <1>7, <1>8, <1>9, <1>10, <1>11, <1>12, <1>13 DEF Next

\* The buffer with its cursor and the ring implement the prompt: keys edit at the
\* cursor, and what can be recalled is what was entered, for any size of both.
THEOREM EditorKeepsPrompt == Spec => KeepsPrompt
<1>1. Init => Prompt!Init
  <2> SUFFICES ASSUME Init PROVE Prompt!Init
    OBVIOUS
  <2>1. buf = <<>> /\ pos = 0 /\ hlen = 0
    BY DEF Init
  <2>2. SubSeq(buf, 1, pos) = <<>> /\ SubSeq(buf, pos + 1, Len(buf)) = <<>>
    BY <2>1
  <2>3. Lines = <<>>
    BY <2>1 DEF Lines
  <2> QED BY <2>2, <2>3 DEF Prompt!Init
<1>2. PromptInv /\ [Next]_vars => [Prompt!Next]_(Prompt!vars)
  BY StepKeepsPrompt
<1> QED
  BY <1>1, <1>2, PromptInvHolds, PTL DEF Spec, KeepsPrompt, Prompt!Spec
===============================================================================
