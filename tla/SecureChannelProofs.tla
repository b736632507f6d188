------------------------- MODULE SecureChannelProofs -------------------------
(***************************************************************************)
(* The client and the server stay in step on every connection, however the *)
(* bytes between them are cut up: what each has received, what is on its   *)
(* way to it and what the other has yet to send spells a succession of     *)
(* messages, and each program stands where one of their parts ends.  From  *)
(* that follow InStep, the refinement of FileTransfer and ClosesWhenDone.  *)
(***************************************************************************)
EXTENDS SecureChannel, SequenceTheorems, WellFoundedInduction, TLAPS

-------------------------------------------------------------------------------
(* Integers as bytes *)

\* One turn of the loop in bytes_to_int (up) or in int_to_bytes.
Turn(decode, acc, bs, k) == IF decode THEN acc * Radix + bs[k].digit ELSE acc \div Radix

\* f is the value after each turn.
Turns(f, n, decode, x, bs) ==
    f = [k \in 0 .. n |-> IF k = 0 THEN x ELSE Turn(decode, f[k - 1], bs, k)]

\* A set of numbers has a least one.
LEMMA LeastExists ==
    ASSUME NEW T \in SUBSET Nat, T # {}
    PROVE  \E m \in T : \A n \in T : m <= n
<1>1. \E m \in T : \A n \in T : ~(<<n, m>> \in OpToRel(<, Nat))
  BY NatLessThanWellFounded, WFMin
<1>2. PICK m \in T : \A n \in T : ~(<<n, m>> \in OpToRel(<, Nat))
  BY <1>1
<1>3. ASSUME NEW n \in T PROVE m <= n
  <2>1. ~(n < m)
    BY <1>2 DEF OpToRel
  <2> QED BY <2>1
<1> QED
  BY <1>2, <1>3

\* The loops are well founded.
LEMMA TurnsExist ==
    ASSUME NEW n \in Nat, NEW decode, NEW x, NEW bs
    PROVE  \E f : Turns(f, n, decode, x, bs)
<1> DEFINE D(f, m) == Turns(f, m, decode, x, bs)
           Bad == {m \in Nat : ~ \E f : D(f, m)}
<1>1. \E f : D(f, 0)
  <2> DEFINE f == [k \in 0 .. 0 |-> x]
  <2>1. D(f, 0)
    BY DEF Turns
  <2> HIDE DEF D, f
  <2> QED BY <2>1
<1>2. ASSUME NEW m \in Nat \ {0}, \E f : D(f, m - 1)
      PROVE  \E f : D(f, m)
  <2>1. PICK f : D(f, m - 1)
    BY <1>2
  <2> DEFINE h == [k \in 0 .. m |-> IF k = m THEN Turn(decode, f[m - 1], bs, m) ELSE f[k]]
  <2>2. ASSUME NEW k \in 0 .. m
        PROVE  h[k] = IF k = 0 THEN x ELSE Turn(decode, h[k - 1], bs, k)
    <3>1. CASE k = m
      <4>1. h[k] = Turn(decode, f[m - 1], bs, m) /\ h[m - 1] = f[m - 1]
        BY <3>1
      <4> HIDE DEF h
      <4> QED BY <3>1, <4>1
    <3>2. CASE k # m
      <4>1. k \in 0 .. m - 1 /\ h[k] = f[k] /\ (k # 0 => k - 1 \in 0 .. m - 1 /\ h[k - 1] = f[k - 1])
        BY <3>2
      <4>2. f[k] = IF k = 0 THEN x ELSE Turn(decode, f[k - 1], bs, k)
        BY <2>1, <4>1 DEF Turns
      <4> HIDE DEF h
      <4> QED BY <4>1, <4>2
    <3> QED BY <3>1, <3>2
  <2>3. h = [k \in 0 .. m |-> h[k]]
    OBVIOUS
  <2> HIDE DEF h
  <2>4. D(h, m)
    BY <2>2, <2>3, Zenon DEF Turns
  <2> HIDE DEF D
  <2> QED BY <2>4
<1> HIDE DEF D
<1>3. SUFFICES ASSUME Bad # {} PROVE FALSE
  BY DEF D
<1>4. PICK m \in Bad : \A k \in Bad : m <= k
  BY <1>3, LeastExists
<1>5. m \in Nat \ {0} /\ m - 1 \in Nat /\ ~(m <= m - 1)
  BY <1>1, <1>4
<1>6. \E f : D(f, m - 1)
  BY <1>4, <1>5
<1> QED
  BY <1>2, <1>4, <1>5, <1>6

\* What int_to_bytes shifts out of x, turn by turn.
LEMMA ShiftedTurns ==
    ASSUME NEW x
    PROVE  Turns(Shifted(x), IntBytes, FALSE, x, <<>>)
<1>1. IntBytes \in Nat
  BY ChannelAssumption
<1>2. \E f : Turns(f, IntBytes, FALSE, x, <<>>)
  BY <1>1, TurnsExist
<1>3. \E f : f = [k \in 0 .. IntBytes |-> IF k = 0 THEN x ELSE f[k - 1] \div Radix]
  BY <1>2 DEF Turns, Turn
<1>4. Shifted(x) = [k \in 0 .. IntBytes |-> IF k = 0 THEN x ELSE Shifted(x)[k - 1] \div Radix]
  BY <1>3, Zenon DEF Shifted
<1> QED
  BY <1>4 DEF Turns, Turn

\* What bytes_to_int makes of the bytes, turn by turn.
LEMMA ResultTurns ==
    ASSUME NEW bs, Len(bs) \in Nat
    PROVE  \E f : Turns(f, Len(bs), TRUE, 0, bs) /\ bytes_to_int(bs) = f[Len(bs)]
<1> DEFINE R(f) == f = [i \in 0 .. Len(bs) |-> IF i = 0 THEN 0 ELSE f[i - 1] * Radix + bs[i].digit]
           r == CHOOSE f : R(f)
<1>1. \E f : Turns(f, Len(bs), TRUE, 0, bs)
  BY TurnsExist
<1>2. \E f : R(f)
  BY <1>1 DEF Turns, Turn
<1>3. bytes_to_int(bs) = r[Len(bs)]
  BY DEF bytes_to_int
<1>4. R(r)
  <2> HIDE DEF R
  <2> QED BY <1>2
<1> HIDE DEF r
<1>5. Turns(r, Len(bs), TRUE, 0, bs)
  BY <1>4 DEF Turns, Turn
<1> QED
  BY <1>3, <1>5

\* Division with remainder.
LEMMA Quotient ==
    ASSUME NEW a \in Int, NEW r \in Int, r > 0
    PROVE  a = r * (a \div r) + (a % r)
  BY Z3

\* What is left of x is a number, and less than Radix times what was left a turn later.
LEMMA ShiftedStep ==
    ASSUME NEW x \in Nat
    PROVE  /\ Shifted(x)[0] = x
           /\ \A k \in 0 .. IntBytes : Shifted(x)[k] \in Nat
           /\ \A k \in 1 .. IntBytes :
                Shifted(x)[k - 1] = Shifted(x)[k] * Radix + (Shifted(x)[k - 1] % Radix)
<1> DEFINE f == Shifted(x)
           Bad == {k \in Nat : k \in 0 .. IntBytes /\ f[k] \notin Nat}
<1>0. IntBytes \in Nat /\ Radix \in Nat \ {0, 1}
  BY ChannelAssumption
<1>1. f[0] = x /\ \A k \in 1 .. IntBytes : f[k] = f[k - 1] \div Radix
  <2>1. Turns(f, IntBytes, FALSE, x, <<>>)
    BY ShiftedTurns
  <2> HIDE DEF f
  <2> QED BY <1>0, <2>1 DEF Turns, Turn
<1> HIDE DEF f
<1>2. ASSUME NEW a \in Nat
      PROVE  /\ a \div Radix \in Nat
             /\ a = (a \div Radix) * Radix + (a % Radix)
  <2>1. a \div Radix \in Nat /\ a % Radix \in Nat
    BY <1>0
  <2>2. a = Radix * (a \div Radix) + (a % Radix)
    BY <1>0, Quotient
  <2> QED BY <1>0, <2>1, <2>2
<1>3. Bad = {}
  <2> SUFFICES ASSUME Bad # {} PROVE FALSE
    OBVIOUS
  <2>1. PICK k \in Bad : \A j \in Bad : k <= j
    BY LeastExists
  <2>2. k # 0
    BY <1>1
  <2>3. k \in 1 .. IntBytes /\ k - 1 \in 0 .. IntBytes /\ k - 1 \in Nat /\ k - 1 \notin Bad
    BY <2>1, <2>2, <1>0
  <2>4. f[k - 1] \in Nat
    BY <2>3
  <2> QED BY <1>1, <1>2, <2>3, <2>4
<1>4. \A k \in 0 .. IntBytes : f[k] \in Nat
  BY <1>0, <1>3
<1>5. ASSUME NEW k \in 1 .. IntBytes PROVE f[k - 1] = f[k] * Radix + (f[k - 1] % Radix)
  <2>1. k - 1 \in 0 .. IntBytes
    BY <1>0
  <2> QED BY <1>1, <1>2, <1>4, <2>1
<1> QED
  BY <1>1, <1>4, <1>5 DEF f

\* A function on the first numbers is a sequence.
LEMMA FunctionIsSeq ==
    ASSUME NEW n \in Nat, NEW S, NEW f \in [1 .. n -> S]
    PROVE  f \in Seq(S) /\ Len(f) = n
<1>1. f = [i \in 1 .. n |-> f[i]] /\ \A i \in 1 .. n : f[i] \in S
  OBVIOUS
<1>2. [i \in 1 .. n |-> f[i]] \in Seq(S)
  BY <1>1
<1> QED
  BY <1>1, <1>2

\* The bytes of an integer: IntBytes digits.
LEMMA IntShape ==
    ASSUME NEW x \in Nat
    PROVE  /\ Len(int_to_bytes(x)) = IntBytes /\ DOMAIN int_to_bytes(x) = 1 .. IntBytes
           /\ int_to_bytes(x) \in Seq([digit : Nat])
<1>0. IntBytes \in Nat /\ Radix \in Nat \ {0, 1}
  BY ChannelAssumption
<1>1. ASSUME NEW i \in 1 .. IntBytes PROVE Shifted(x)[IntBytes - i] % Radix \in Nat
  <2>1. IntBytes - i \in 0 .. IntBytes
    BY <1>0
  <2>2. PICK a \in Nat : a = Shifted(x)[IntBytes - i]
    BY <2>1, ShiftedStep
  <2> QED BY <1>0, <2>2
<1>2. int_to_bytes(x) \in [1 .. IntBytes -> [digit : Nat]]
  BY <1>1 DEF int_to_bytes
<1>3. Len(int_to_bytes(x)) = IntBytes /\ int_to_bytes(x) \in Seq([digit : Nat])
  BY <1>0, <1>2, FunctionIsSeq
<1> QED
  BY <1>0, <1>2, <1>3

\* bytes_to_int is the inverse of int_to_bytes, for numbers that fit.
LEMMA IntComesBack ==
    ASSUME NEW x \in Nat, Shifted(x)[IntBytes] = 0
    PROVE  bytes_to_int(int_to_bytes(x)) = x
<1> DEFINE s == Shifted(x)
           bs == int_to_bytes(x)
<1>0. IntBytes \in Nat /\ Radix \in Nat \ {0, 1}
  BY ChannelAssumption
<1>1. Len(bs) = IntBytes /\ \A i \in 1 .. IntBytes : bs[i].digit = s[IntBytes - i] % Radix
  BY IntShape DEF int_to_bytes
<1>2. /\ s[0] = x /\ s[IntBytes] = 0
      /\ \A k \in 1 .. IntBytes : s[k - 1] = s[k] * Radix + (s[k - 1] % Radix)
  BY ShiftedStep
<1> HIDE DEF s, bs
<1>3. PICK f : Turns(f, IntBytes, TRUE, 0, bs) /\ bytes_to_int(bs) = f[IntBytes]
  BY <1>0, <1>1, ResultTurns
<1>4. f[0] = 0 /\ \A k \in 1 .. IntBytes : f[k] = f[k - 1] * Radix + bs[k].digit
  BY <1>0, <1>3 DEF Turns, Turn
<1> DEFINE Bad == {k \in Nat : k \in 0 .. IntBytes /\ f[k] # s[IntBytes - k]}
<1>5. Bad = {}
  <2> SUFFICES ASSUME Bad # {} PROVE FALSE
    OBVIOUS
  <2>1. PICK k \in Bad : \A j \in Bad : k <= j
    BY LeastExists
  <2>2. k # 0
    BY <1>0, <1>2, <1>4
  <2>3. k \in 1 .. IntBytes /\ k - 1 \in 0 .. IntBytes /\ k - 1 \in Nat /\ k - 1 \notin Bad
    BY <2>1, <2>2, <1>0
  <2>4. f[k - 1] = s[IntBytes - (k - 1)]
    BY <2>3
  <2>5. IntBytes - (k - 1) \in 1 .. IntBytes /\ IntBytes - (k - 1) - 1 = IntBytes - k
    BY <1>0, <2>3
  <2>6. s[IntBytes - k] = s[IntBytes - (k - 1)] * Radix + (s[IntBytes - k] % Radix)
    BY <1>2, <2>5
  <2>7. f[k] = f[k - 1] * Radix + bs[k].digit /\ bs[k].digit = s[IntBytes - k] % Radix
    BY <1>1, <1>4, <2>3
  <2>8. f[k] = s[IntBytes - k]
    BY <2>4, <2>6, <2>7
  <2> QED BY <2>1, <2>8
<1>6. f[IntBytes] = s[IntBytes - IntBytes] /\ IntBytes - IntBytes = 0
  BY <1>0, <1>5
<1> QED
  BY <1>2, <1>3, <1>6 DEF bs

-------------------------------------------------------------------------------
(* What is on its way *)

\* A message is known by its type, its blob, how many files have been offered when it
\* is sent and the name sent last.  "none" stands for what is before the first one;
\* "keyless" announces a key that is not sent; "signature" and "certificate" are the
\* server's answers.
Type == [auth |-> MSG_AUTH, key |-> MSG_SYMKEY, keyless |-> MSG_SYMKEY, name |-> MSG_FILENAME,
         data |-> MSG_FILE_DATA, close |-> MSG_CLOSE]

NoBlob == Blob("none", Nil, 0)
Before == [type |-> "none", blob |-> NoBlob, files |-> 0, name |-> Nil]

Letter(m) ==
    /\ m.files \in Nat
    /\ \/ m.type \in {"none", "close"} /\ m.blob = NoBlob
       \/ m.type = "auth" /\ m.blob = Challenge
       \/ m.type = "key" /\ m.blob = rsa_encrypt_block(SessionKey)
       \/ m.type = "keyless" /\ m.blob \in {rsa_encrypt_block(SessionKey), Blob("wrapped", SessionKey, 0)}
       \/ m.type = "name" /\ m.name \in Path /\ m.blob = Blob("name", m.name, NameLen)
       \/ m.type = "data" /\ m.name \in Path /\ m.blob = session_encrypt(SessionKey, m.name)
       \/ m.type = "signature" /\ m.blob = sign_message_pss(Challenge)
       \/ m.type = "certificate" /\ m.blob = Certificate

\* n may be sent after m.
Succ(m, n) ==
    \/ /\ \/ n.type \in {"auth", "signature"} /\ m.type = "none"
          \/ n.type \in {"key", "keyless"} /\ m.type = "auth"
          \/ n.type = "certificate" /\ m.type = "signature"
          \/ n.type = "close" /\ m.type \in {"key", "keyless", "name", "data", "close"}
       /\ n.files = m.files /\ n.name = m.name
    \/ n.type = "name" /\ m.type \in {"key", "keyless", "name", "data"} /\ n.files = m.files
    \/ n.type = "data" /\ m.type = "name" /\ n.files = m.files + 1 /\ n.name = m.name

\* The parts of a message: type, length, blob.
Part(m, part) ==
    IF part = 1 THEN int_to_bytes(Type[m.type])
    ELSE IF part = 2 THEN int_to_bytes(m.blob.len) ELSE Bytes(m.blob)

First(m) == IF m.type \in {"signature", "certificate"} THEN 2 ELSE 1

\* A place in the stream: byte at of a part of a message.
Place(m, part, at) == [m |-> m, part |-> part, at |-> at]

Size(a) == Len(Part(a.m, a.part))

\* What follows the length is not the blob it announces.
Lacks(a) == a.part = 2 /\ a.m.type = "keyless"

\* No part of the message follows.
Ends(a) == a.part = 3 \/ Lacks(a) \/ a.m.type = "close"

\* b is where the next part or message begins.
Joint(a, b) ==
    /\ b.at = 1
    /\ IF Ends(a) THEN Succ(a.m, b.m) /\ b.part = First(b.m)
                  ELSE b.m = a.m /\ b.part = a.part + 1

\* The bytes bs are those at the places t[1], t[2] ..., and what came before them ended
\* at t[0].  They may break off anywhere.
Flow(types, t, bs) ==
    /\ \A i \in 0 .. Len(bs) :
         /\ Letter(t[i].m) /\ t[i].m.type \in types
         /\ t[i].part \in 1 .. 3 /\ t[i].at \in Nat /\ Size(t[i]) \in Nat
    /\ t[0].at = Size(t[0])
    /\ \A i \in 1 .. Len(bs) :
         t[i].at \in 1 .. Size(t[i]) /\ bs[i] = Part(t[i].m, t[i].part)[t[i].at]
    /\ \A i \in 1 .. Len(bs) : \A j \in i .. Len(bs) :
         t[i].at + (j - i) <= Size(t[i])
           => t[j].m = t[i].m /\ t[j].part = t[i].part /\ t[j].at = t[i].at + (j - i)
    /\ \A i \in 0 .. Len(bs) - 1 : t[i].at = Size(t[i]) => Joint(t[i], t[i + 1])

Blobs ==
    {NoBlob, Challenge, sign_message_pss(Challenge), Certificate, rsa_encrypt_block(SessionKey),
     Blob("wrapped", SessionKey, 0)}
        \cup {Blob("name", p, NameLen) : p \in Path}
        \cup {session_encrypt(SessionKey, p) : p \in Path}

Byte == [digit : Nat] \cup [blob : Blobs, at : Nat]

\* Lengths are numbers that fit; only that of a key that is not sent may be 0.
LEMMA Lengths ==
    ASSUME NEW m, Letter(m)
    PROVE  /\ m.blob \in Blobs /\ m.blob.len \in Nat /\ Shifted(m.blob.len)[IntBytes] = 0
           /\ m.type \notin {"none", "close", "keyless"} => m.blob.len > 0
<1>1. ASSUME NEW p \in Path PROVE TokenLen(FileLen[p]) \in Nat \ {0}
  <2>1. /\ IvLen \in Nat /\ HmacLen \in Nat /\ Block \in Nat \ {0} /\ FileLen[p] \in Nat
    BY ChannelAssumption
  <2>2. FileLen[p] \div Block \in Nat
    BY <2>1
  <2>3. PICK q \in Nat : q = FileLen[p] \div Block
    BY <2>2
  <2>4. (q + 1) * Block \in Nat /\ (q + 1) * Block > 0
    BY <2>1, <2>3
  <2> QED BY <2>1, <2>3, <2>4 DEF TokenLen
<1>2. /\ KeyLen \in Nat \ {0} /\ RsaLen \in Nat \ {0} /\ CertLen \in Nat \ {0} /\ NameLen \in Nat \ {0}
  BY ChannelAssumption
<1>3. /\ Shifted(0)[IntBytes] = 0 /\ Shifted(KeyLen)[IntBytes] = 0 /\ Shifted(RsaLen)[IntBytes] = 0
      /\ Shifted(CertLen)[IntBytes] = 0 /\ Shifted(NameLen)[IntBytes] = 0
      /\ \A p \in Path : Shifted(TokenLen(FileLen[p]))[IntBytes] = 0
  <2> DEFINE Fitting == (MSG_FILENAME .. MSG_SYMKEY) \cup {KeyLen, RsaLen, CertLen, NameLen}
                            \cup {TokenLen(FileLen[p]) : p \in Path}
  <2>1. \A x \in Fitting : Shifted(x)[IntBytes] = 0
    BY FitsAssumption
  <2>2. 0 \in Fitting /\ {KeyLen, RsaLen, CertLen, NameLen} \subseteq Fitting
    BY DEF MSG_FILENAME, MSG_SYMKEY
  <2>3. \A p \in Path : TokenLen(FileLen[p]) \in Fitting
    OBVIOUS
  <2> HIDE DEF Fitting
  <2> QED BY <2>1, <2>2, <2>3
<1>4. m.blob \in Blobs
  <2>1. CASE m.type = "name"
    BY <2>1 DEF Letter, Blobs
  <2>2. CASE m.type = "data"
    BY <2>2 DEF Letter, Blobs
  <2>3. CASE m.type \notin {"name", "data"}
    BY <2>3 DEF Letter, Blobs
  <2> QED BY <2>1, <2>2, <2>3
<1>5. CASE m.type = "data"
  <2>1. m.name \in Path /\ m.blob.len = TokenLen(FileLen[m.name])
    BY <1>5 DEF Letter, session_encrypt, Blob
  <2> QED BY <1>1, <1>3, <1>4, <1>5, <2>1
<1>6. CASE m.type # "data"
  <2>1. \/ m.type \in {"none", "close"} /\ m.blob.len = 0
        \/ m.type = "auth" /\ m.blob.len = KeyLen
        \/ m.type = "key" /\ m.blob.len = RsaLen
        \/ m.type = "keyless" /\ m.blob.len \in {0, RsaLen}
        \/ m.type = "name" /\ m.blob.len = NameLen
        \/ m.type = "signature" /\ m.blob.len = RsaLen
        \/ m.type = "certificate" /\ m.blob.len = CertLen
    BY <1>6 DEF Letter, NoBlob, Challenge, rsa_encrypt_block, sign_message_pss, Certificate, Blob
  <2> QED BY <1>2, <1>3, <1>4, <2>1
<1> QED
  BY <1>5, <1>6

\* The parts of a message as bytes, and as what they stand for.
LEMMA Parts ==
    ASSUME NEW m, Letter(m), m.type # "none"
    PROVE  /\ Part(m, 2) \in Seq(Byte) /\ Part(m, 3) \in Seq(Byte)
           /\ Len(Part(m, 2)) = IntBytes /\ Len(Part(m, 3)) = m.blob.len
           /\ bytes_to_int(Part(m, 2)) = m.blob.len
           /\ m.type \in DOMAIN Type =>
                /\ Part(m, 1) \in Seq(Byte) /\ Len(Part(m, 1)) = IntBytes
                /\ bytes_to_int(Part(m, 1)) = Type[m.type]
<1>1. m.blob \in Blobs /\ m.blob.len \in Nat /\ Shifted(m.blob.len)[IntBytes] = 0
  BY Lengths
<1>2. \A bs : bs \in Seq([digit : Nat]) => bs \in Seq(Byte)
  <2>1. [digit : Nat] \subseteq Byte
    BY DEF Byte
  <2> QED BY <2>1, SeqMonotonic
<1>3. Part(m, 2) = int_to_bytes(m.blob.len)
  BY DEF Part
<1>4. /\ Part(m, 2) \in Seq(Byte) /\ Len(Part(m, 2)) = IntBytes
      /\ bytes_to_int(Part(m, 2)) = m.blob.len
  BY <1>1, <1>2, <1>3, IntShape, IntComesBack
<1>5. Part(m, 3) \in Seq(Byte) /\ Len(Part(m, 3)) = m.blob.len
  <2>1. PICK b \in Blobs : b = m.blob /\ b.len \in Nat
    BY <1>1
  <2>2. Bytes(b) \in [1 .. b.len -> Byte]
    BY <2>1 DEF Bytes, Byte
  <2>3. Bytes(b) \in Seq(Byte) /\ Len(Bytes(b)) = b.len
    BY <2>1, <2>2, FunctionIsSeq
  <2> QED BY <2>1, <2>3 DEF Part
<1>6. ASSUME m.type \in DOMAIN Type
      PROVE  /\ Part(m, 1) \in Seq(Byte) /\ Len(Part(m, 1)) = IntBytes
             /\ bytes_to_int(Part(m, 1)) = Type[m.type]
  <2>1. Part(m, 1) = int_to_bytes(Type[m.type])
    BY DEF Part
  <2>2. Type[m.type] \in MSG_FILENAME .. MSG_SYMKEY
    BY <1>6 DEF Type, MSG_FILENAME, MSG_FILE_DATA, MSG_CLOSE, MSG_AUTH, MSG_SYMKEY
  <2>3. PICK x : x = Type[m.type] /\ x \in MSG_FILENAME .. MSG_SYMKEY
    BY <2>2
  <2>4. x \in Nat /\ Shifted(x)[IntBytes] = 0
    BY <2>3, FitsAssumption DEF MSG_FILENAME, MSG_SYMKEY
  <2> QED BY <1>2, <2>1, <2>3, <2>4, IntShape, IntComesBack
<1> QED
  BY <1>4, <1>5, <1>6

-------------------------------------------------------------------------------
(* How the stream changes *)

\* The part that begins at t[1] has been read when as many bytes as it has are there.
LEMMA PartIsRead ==
    ASSUME NEW types, NEW t, NEW bs \in Seq(Byte), Flow(types, t, bs),
           NEW w \in 1 .. Len(bs), w = Size(t[1])
    PROVE  /\ Joint(t[0], t[1]) /\ Letter(t[1].m) /\ t[1].m.type \in types
           /\ t[w].m = t[1].m /\ t[w].part = t[1].part /\ t[w].at = Size(t[w])
           /\ \A i \in 1 .. w : bs[i] = Part(t[1].m, t[1].part)[i]
<1>0. Len(bs) \in Nat /\ 0 \in 0 .. Len(bs) - 1 /\ 1 \in 1 .. Len(bs)
  OBVIOUS
<1>1. Joint(t[0], t[1]) /\ t[1].at = 1
  <2>1. t[0].at = Size(t[0]) => Joint(t[0], t[0 + 1])
    BY <1>0 DEF Flow
  <2> QED BY <2>1 DEF Flow, Joint
<1>2. Letter(t[1].m) /\ t[1].m.type \in types
  BY <1>0 DEF Flow
<1>3. ASSUME NEW i \in 1 .. w
      PROVE  /\ t[i].m = t[1].m /\ t[i].part = t[1].part /\ t[i].at = i
             /\ bs[i] = Part(t[1].m, t[1].part)[i]
  <2>1. i \in 1 .. Len(bs) /\ t[1].at + (i - 1) = i /\ i <= Size(t[1])
    BY <1>0, <1>1
  <2>2. t[i].m = t[1].m /\ t[i].part = t[1].part /\ t[i].at = i
    BY <1>0, <2>1 DEF Flow
  <2> QED BY <2>1, <2>2 DEF Flow
<1>4. t[w].m = t[1].m /\ t[w].part = t[1].part /\ t[w].at = Size(t[w])
  BY <1>3 DEF Size
<1> QED
  BY <1>1, <1>2, <1>3, <1>4

\* cs is bs without its first k bytes.
Drops(bs, cs, k) ==
    /\ cs \in Seq(Byte) /\ k \in 0 .. Len(bs) /\ Len(cs) = Len(bs) - k
    /\ \A i \in 1 .. Len(cs) : cs[i] = bs[k + i]

\* u is t from place k on.
Skips(types, t, k, u, cs) ==
    Flow(types, u, cs) /\ \A i \in 0 .. Len(cs) : u[i] = t[k + i]

\* What is read leaves the stream, at the end of a part.
LEMMA FlowDrops ==
    ASSUME NEW types, NEW t, NEW bs \in Seq(Byte), Flow(types, t, bs),
           NEW k \in Nat, t[k].at = Size(t[k]), NEW cs, Drops(bs, cs, k)
    PROVE  \E u : Skips(types, t, k, u, cs)
<1> DEFINE u == [i \in 0 .. Len(cs) |-> t[k + i]]
<1>0. Len(bs) \in Nat /\ Len(cs) \in Nat /\ k \in Nat /\ k + Len(cs) = Len(bs)
  <2>1. /\ cs \in Seq(Byte) /\ k \in 0 .. Len(bs) /\ Len(cs) = Len(bs) - k
        /\ \A i \in 1 .. Len(cs) : cs[i] = bs[k + i]
    BY DEF Drops
  <2> QED BY <2>1
<1>1. \A i \in 0 .. Len(cs) : u[i] = t[k + i] /\ k + i \in 0 .. Len(bs)
  BY <1>0
<1>2. k + 0 = k
  BY <1>0
<1> HIDE DEF u
<1>3. \A i \in 0 .. Len(cs) :
         /\ Letter(u[i].m) /\ u[i].m.type \in types
         /\ u[i].part \in 1 .. 3 /\ u[i].at \in Nat /\ Size(u[i]) \in Nat
  BY <1>1 DEF Flow
<1>4. u[0].at = Size(u[0])
  BY <1>0, <1>1, <1>2
<1>5. \A i \in 1 .. Len(cs) :
        u[i].at \in 1 .. Size(u[i]) /\ cs[i] = Part(u[i].m, u[i].part)[u[i].at]
  <2> TAKE i \in 1 .. Len(cs)
  <2>1. k + i \in 1 .. Len(bs) /\ u[i] = t[k + i]
    BY <1>0, <1>1
  <2>2. cs[i] = bs[k + i]
    BY DEF Drops
  <2> QED BY <2>1, <2>2 DEF Flow
<1>6. \A i \in 1 .. Len(cs) : \A j \in i .. Len(cs) :
        u[i].at + (j - i) <= Size(u[i])
          => u[j].m = u[i].m /\ u[j].part = u[i].part /\ u[j].at = u[i].at + (j - i)
  <2> TAKE i \in 1 .. Len(cs)
  <2> TAKE j \in i .. Len(cs)
  <2>1. /\ k + i \in 1 .. Len(bs) /\ k + j \in (k + i) .. Len(bs) /\ (k + j) - (k + i) = j - i
        /\ u[i] = t[k + i] /\ u[j] = t[k + j]
    BY <1>0, <1>1
  <2> QED BY <2>1 DEF Flow
<1>7. \A i \in 0 .. Len(cs) - 1 : u[i].at = Size(u[i]) => Joint(u[i], u[i + 1])
  <2> TAKE i \in 0 .. Len(cs) - 1
  <2>1. /\ k + i \in 0 .. Len(bs) - 1 /\ (k + i) + 1 = k + (i + 1)
        /\ u[i] = t[k + i] /\ u[i + 1] = t[k + (i + 1)]
    <3>1. i \in 0 .. Len(cs) /\ i + 1 \in 0 .. Len(cs)
      BY <1>0
    <3>2. u[i] = t[k + i] /\ u[i + 1] = t[k + (i + 1)]
      BY <1>1, <3>1
    <3> QED BY <1>0, <3>2
  <2> QED BY <2>1 DEF Flow
<1>8. Flow(types, u, cs)
  BY <1>3, <1>4, <1>5, <1>6, <1>7 DEF Flow
<1> QED
  BY <1>1, <1>8 DEF Skips

\* The stream may be cut short.
LEMMA FlowBreaks ==
    ASSUME NEW types, NEW t, NEW bs \in Seq(Byte), Flow(types, t, bs),
           NEW cs \in Seq(Byte), Len(cs) <= Len(bs), \A i \in 1 .. Len(cs) : cs[i] = bs[i]
    PROVE  Flow(types, t, cs)
<1>1. Len(bs) \in Nat /\ Len(cs) \in Nat
  OBVIOUS
<1>2. /\ 0 .. Len(cs) \subseteq 0 .. Len(bs) /\ 1 .. Len(cs) \subseteq 1 .. Len(bs)
      /\ 0 .. Len(cs) - 1 \subseteq 0 .. Len(bs) - 1
      /\ \A i \in 1 .. Len(cs) : i .. Len(cs) \subseteq i .. Len(bs)
  BY <1>1
<1> QED
  BY <1>1, <1>2 DEF Flow

\* With a part more, u is t.
Grows(types, t, bs, u, m, part) ==
    /\ Flow(types, u, bs \o Part(m, part))
    /\ \A i \in 0 .. Len(bs) : u[i] = t[i]
    /\ \A i \in Len(bs) + 1 .. Len(bs \o Part(m, part)) : u[i].m = m
    /\ u[Len(bs \o Part(m, part))] = Place(m, part, Len(Part(m, part)))

\* A stream that has come to the end of a part may go on with the next.
LEMMA FlowGrows ==
    ASSUME NEW types, NEW t, NEW bs \in Seq(Byte), Flow(types, t, bs),
           NEW m, NEW part \in 1 .. 3, Letter(m), m.type \in types, m.type # "none",
           Part(m, part) \in Seq(Byte), Part(m, part) # <<>>,
           t[Len(bs)].at = Size(t[Len(bs)]), Joint(t[Len(bs)], Place(m, part, 1))
    PROVE  \E u : Grows(types, t, bs, u, m, part)
<1> DEFINE n == Len(bs)
           c == Part(m, part)
           cs == bs \o c
           u == [i \in 0 .. n + Len(c) |-> IF i <= n THEN t[i] ELSE Place(m, part, i - n)]
<1>0. n \in Nat /\ Len(c) \in Nat \ {0}
  OBVIOUS
<1>1. /\ cs \in Seq(Byte) /\ Len(cs) = n + Len(c)
      /\ \A i \in 1 .. n : cs[i] = bs[i]
      /\ \A i \in n + 1 .. n + Len(c) : cs[i] = c[i - n]
  BY ConcatProperties
<1>2. /\ \A i \in 0 .. n : u[i] = t[i]
      /\ \A i \in n + 1 .. n + Len(c) : u[i] = Place(m, part, i - n)
  BY <1>0
<1>3. \A i : /\ Place(m, part, i).m = m /\ Place(m, part, i).part = part
             /\ Place(m, part, i).at = i /\ Size(Place(m, part, i)) = Len(c)
  BY DEF Place, Size
<1> HIDE DEF u, cs, c
<1>4. \A i \in 0 .. Len(cs) :
         /\ Letter(u[i].m) /\ u[i].m.type \in types
         /\ u[i].part \in 1 .. 3 /\ u[i].at \in Nat /\ Size(u[i]) \in Nat
  <2> TAKE i \in 0 .. Len(cs)
  <2>1. CASE i <= n
    <3>1. i \in 0 .. n /\ u[i] = t[i]
      BY <1>0, <1>2, <2>1
    <3> QED BY <3>1 DEF Flow
  <2>2. CASE ~(i <= n)
    <3>1. u[i] = Place(m, part, i - n) /\ i - n \in Nat
      <4>1. Len(cs) = n + Len(c)
        BY <1>1
      <4>2. i \in n + 1 .. n + Len(c) /\ i - n \in Nat
        BY <1>0, <2>2, <4>1
      <4> QED BY <1>2, <4>2
    <3> QED BY <1>0, <1>3, <3>1
  <2> QED BY <2>1, <2>2
<1>5. u[0].at = Size(u[0])
  BY <1>0, <1>2 DEF Flow
<1>6. \A i \in 1 .. Len(cs) :
        u[i].at \in 1 .. Size(u[i]) /\ cs[i] = Part(u[i].m, u[i].part)[u[i].at]
  <2> TAKE i \in 1 .. Len(cs)
  <2>1. CASE i <= n
    <3>1. i \in 1 .. n /\ i \in 0 .. n
      BY <1>0, <1>1, <2>1
    <3> QED BY <1>1, <1>2, <3>1 DEF Flow
  <2>2. CASE ~(i <= n)
    <3>1. i \in n + 1 .. n + Len(c) /\ i - n \in 1 .. Len(c)
      BY <1>0, <1>1, <2>2
    <3> QED BY <1>1, <1>2, <1>3, <3>1 DEF c
  <2> QED BY <2>1, <2>2
<1>7. ASSUME NEW i \in 1 .. Len(cs), NEW j \in i .. Len(cs), u[i].at + (j - i) <= Size(u[i])
      PROVE  u[j].m = u[i].m /\ u[j].part = u[i].part /\ u[j].at = u[i].at + (j - i)
  <2>0. i \in 1 .. n + Len(c) /\ j \in i .. n + Len(c)
    BY <1>1
  <2>1. CASE j <= n
    <3>1. i \in 1 .. n /\ j \in i .. n /\ i \in 0 .. n /\ j \in 0 .. n
      BY <1>0, <2>0, <2>1
    <3>2. u[i] = t[i] /\ u[j] = t[j]
      BY <1>2, <3>1
    <3> QED BY <1>7, <3>1, <3>2 DEF Flow
  <2>2. CASE i <= n /\ ~(j <= n)
    <3>1. i \in 1 .. n /\ n \in i .. n /\ i \in 0 .. n /\ n \in 0 .. n /\ t[i].at \in Nat
      BY <1>0, <2>0, <2>2 DEF Flow
    <3>2. u[i] = t[i] /\ t[i].at + (j - i) <= Size(t[i])
      BY <1>2, <1>7, <3>1
    <3>3. Size(t[i]) \in Nat
      BY <3>1 DEF Flow
    <3>4. t[i].at + (n - i) <= Size(t[i])
      BY <1>0, <2>2, <3>1, <3>2, <3>3
    <3>5. t[n].m = t[i].m /\ t[n].part = t[i].part /\ t[n].at = t[i].at + (n - i)
      BY <3>1, <3>4 DEF Flow
    <3>6. t[n].at = Size(t[i])
      BY <3>5 DEF Size
    <3> QED BY <1>0, <2>2, <3>1, <3>2, <3>3, <3>5, <3>6
  <2>3. CASE ~(i <= n)
    <3>1. i \in n + 1 .. n + Len(c) /\ j \in n + 1 .. n + Len(c)
      BY <1>0, <2>0, <2>3
    <3>2. u[i] = Place(m, part, i - n) /\ u[j] = Place(m, part, j - n)
      BY <1>2, <3>1
    <3>3. j - n = (i - n) + (j - i)
      BY <1>0, <3>1
    <3> QED BY <1>3, <3>2, <3>3
  <2> QED BY <1>0, <2>0, <2>1, <2>2, <2>3
<1>8. ASSUME NEW i \in 0 .. Len(cs) - 1, u[i].at = Size(u[i]) PROVE Joint(u[i], u[i + 1])
  <2>0. i \in 0 .. n + Len(c) - 1
    BY <1>1
  <2>1. CASE i < n
    <3>1. i \in 0 .. n - 1 /\ i \in 0 .. n /\ i + 1 \in 0 .. n
      BY <1>0, <2>0, <2>1
    <3>2. u[i] = t[i] /\ u[i + 1] = t[i + 1]
      BY <1>2, <3>1
    <3> QED BY <1>8, <3>1, <3>2 DEF Flow
  <2>2. CASE i = n
    <3>1. u[i] = t[n] /\ n + 1 \in n + 1 .. n + Len(c) /\ (n + 1) - n = 1
      BY <1>0, <1>2, <2>2
    <3>2. u[i + 1] = Place(m, part, 1)
      BY <1>2, <2>2, <3>1
    <3> QED BY <3>1, <3>2
  <2>3. CASE i > n
    <3>1. i \in n + 1 .. n + Len(c) /\ i - n < Len(c)
      BY <1>0, <2>0, <2>3
    <3>2. u[i] = Place(m, part, i - n)
      BY <1>2, <3>1
    <3>3. u[i].at = i - n /\ Size(u[i]) = Len(c)
      BY <1>3, <3>2
    <3>4. i - n = Len(c)
      BY <1>8, <3>3
    <3>5. i - n \in Int /\ Len(c) \in Int
      BY <1>0, <3>1
    <3> QED BY <3>1, <3>4, <3>5
  <2> QED BY <1>0, <2>0, <2>1, <2>2, <2>3
<1>9. Flow(types, u, cs)
  BY <1>4, <1>5, <1>6, <1>7, <1>8 DEF Flow
<1>10. /\ \A i \in n + 1 .. Len(cs) : u[i].m = m
       /\ u[Len(cs)] = Place(m, part, Len(c))
  <2>1. Len(cs) \in n + 1 .. n + Len(c) /\ Len(cs) - n = Len(c)
    BY <1>0, <1>1
  <2>2. u[Len(cs)] = Place(m, part, Len(c))
    BY <1>2, <2>1
  <2>3. \A i \in n + 1 .. Len(cs) : u[i] = Place(m, part, i - n)
    BY <1>1, <1>2
  <2>4. \A i \in n + 1 .. Len(cs) : u[i].m = m
    BY <1>3, <2>3
  <2> QED BY <2>2, <2>4
<1>11. Grows(types, t, bs, u, m, part)
  BY <1>2, <1>9, <1>10 DEF cs, c, Grows
<1> QED
  BY <1>11

\* Three sequences one after the other.
LEMMA Regroup ==
    ASSUME NEW a \in Seq(Byte), NEW b \in Seq(Byte), NEW c \in Seq(Byte)
    PROVE  (a \o b) \o c = a \o (b \o c)
  BY ConcatAssociative

\* The bytes c may go to the end of w or to the beginning of d.
Moved(a, w, c, d) == (a \o (w \o c)) \o d = (a \o w) \o (c \o d)

\* They are the same bytes.
LEMMA RegroupFour ==
    ASSUME NEW a \in Seq(Byte), NEW w \in Seq(Byte), NEW c \in Seq(Byte), NEW d \in Seq(Byte)
    PROVE  Moved(a, w, c, d)
<1>1. PICK e \in Seq(Byte) : e = a \o w
  BY ConcatProperties
<1>2. (a \o w) \o c = a \o (w \o c)
  BY Regroup
<1>3. (e \o c) \o d = e \o (c \o d)
  BY Regroup
<1> QED BY <1>1, <1>2, <1>3 DEF Moved

\* cs continues bs with the message m, up to the end of a part of it.
Continues(types, t, bs, u, cs, m, part) ==
    /\ cs \in Seq(Byte) /\ Len(bs) <= Len(cs) /\ Flow(types, u, cs)
    /\ \A i \in 0 .. Len(bs) : u[i] = t[i]
    /\ \A i \in Len(bs) + 1 .. Len(cs) : u[i].m = m
    /\ u[Len(cs)].m = m /\ u[Len(cs)].part = part /\ u[Len(cs)].at = Size(u[Len(cs)])

\* The whole message as send_int and send_all have it sent.
Spelled(m) ==
    IF m.type = "close" THEN Part(m, 1)
    ELSE IF m.type = "keyless" THEN Part(m, 1) \o Part(m, 2)
    ELSE IF First(m) = 2 THEN Part(m, 2) \o Part(m, 3)
    ELSE Part(m, 1) \o Part(m, 2) \o Part(m, 3)

\* The first part of a message.
LEMMA MessageBegins ==
    ASSUME NEW types, NEW t, NEW bs \in Seq(Byte), Flow(types, t, bs),
           NEW m, Letter(m), m.type \in types, m.type \in DOMAIN Type \/ First(m) = 2,
           t[Len(bs)].at = Size(t[Len(bs)]), Ends(t[Len(bs)]), Succ(t[Len(bs)].m, m)
    PROVE  \E u : Continues(types, t, bs, u, bs \o Part(m, First(m)), m, First(m))
<1> DEFINE p == First(m)
<1>1. m.type # "none" /\ p \in {1, 2} /\ (p = 1 => m.type \in DOMAIN Type)
  BY DEF Type, First
<1>2. Part(m, p) \in Seq(Byte) /\ Len(Part(m, p)) = IntBytes /\ IntBytes \in Nat \ {0}
  BY <1>1, Parts, ChannelAssumption
<1>3. Joint(t[Len(bs)], Place(m, p, 1))
  BY DEF Joint, Place
<1> HIDE DEF p
<1>4. PICK u : Grows(types, t, bs, u, m, p)
  <2>1. p \in 1 .. 3 /\ Part(m, p) # <<>>
    BY <1>1, <1>2
  <2> QED BY <1>1, <1>2, <1>3, <2>1, FlowGrows
<1>5. bs \o Part(m, p) \in Seq(Byte) /\ Len(bs) <= Len(bs \o Part(m, p))
  BY <1>2, ConcatProperties
<1>6. /\ Place(m, p, Len(Part(m, p))).m = m /\ Place(m, p, Len(Part(m, p))).part = p
      /\ Place(m, p, Len(Part(m, p))).at = Size(Place(m, p, Len(Part(m, p))))
  BY DEF Place, Size
<1>7. Continues(types, t, bs, u, bs \o Part(m, p), m, p)
  BY <1>4, <1>5, <1>6 DEF Continues, Grows
<1> QED
  BY <1>7 DEF p

\* The next part of it.
LEMMA MessageGoesOn ==
    ASSUME NEW types, NEW t, NEW bs \in Seq(Byte), NEW u, NEW cs, NEW m, NEW part \in {1, 2},
           Continues(types, t, bs, u, cs, m, part), Letter(m), m.type \in types, m.type # "none",
           m.type # "close", part = 2 => m.type # "keyless"
    PROVE  \E v : Continues(types, t, bs, v, cs \o Part(m, part + 1), m, part + 1)
<1> DEFINE q == part + 1
<1>1. q \in {2, 3} /\ q \in 1 .. 3
  OBVIOUS
<1>2. Part(m, q) \in Seq(Byte) /\ Len(Part(m, q)) \in Nat \ {0}
  <2>1. CASE part = 1
    BY <2>1, Parts, ChannelAssumption
  <2>2. CASE part = 2
    BY <2>2, Parts, Lengths
  <2> QED BY <2>1, <2>2
<1>3. cs \in Seq(Byte) /\ Flow(types, u, cs)
  BY DEF Continues
<1>4. Joint(u[Len(cs)], Place(m, q, 1)) /\ u[Len(cs)].at = Size(u[Len(cs)])
  BY DEF Continues, Joint, Ends, Lacks, Place
<1> HIDE DEF q
<1>5. PICK v : Grows(types, u, cs, v, m, q)
  <2>1. Part(m, q) # <<>>
    BY <1>2
  <2> QED BY <1>1, <1>2, <1>3, <1>4, <2>1, FlowGrows
<1>6. /\ cs \o Part(m, q) \in Seq(Byte) /\ Len(cs \o Part(m, q)) = Len(cs) + Len(Part(m, q))
      /\ Len(bs) <= Len(cs) /\ Len(bs) \in Nat /\ Len(cs) \in Nat
  BY <1>2, <1>3, ConcatProperties DEF Continues
<1>7. /\ Place(m, q, Len(Part(m, q))).m = m /\ Place(m, q, Len(Part(m, q))).part = q
      /\ Place(m, q, Len(Part(m, q))).at = Size(Place(m, q, Len(Part(m, q))))
  BY DEF Place, Size
<1>8. \A i \in 0 .. Len(bs) : v[i] = t[i]
  <2> TAKE i \in 0 .. Len(bs)
  <2>1. i \in 0 .. Len(cs)
    BY <1>6
  <2> QED BY <1>5, <2>1 DEF Continues, Grows
<1>9. \A i \in Len(bs) + 1 .. Len(cs \o Part(m, q)) : v[i].m = m
  <2> TAKE i \in Len(bs) + 1 .. Len(cs \o Part(m, q))
  <2>1. CASE i <= Len(cs)
    <3>1. i \in Len(bs) + 1 .. Len(cs) /\ i \in 0 .. Len(cs)
      BY <1>6, <2>1
    <3> QED BY <1>5, <3>1 DEF Continues, Grows
  <2>2. CASE ~(i <= Len(cs))
    <3>1. i \in Len(cs) + 1 .. Len(cs \o Part(m, q))
      BY <1>6, <2>2
    <3> QED BY <1>5, <3>1 DEF Grows
  <2> QED BY <2>1, <2>2
<1>10. Len(bs) <= Len(cs \o Part(m, q))
  BY <1>2, <1>6
<1>11. Continues(types, t, bs, v, cs \o Part(m, q), m, q)
  BY <1>5, <1>6, <1>7, <1>8, <1>9, <1>10 DEF Continues, Grows
<1> QED
  BY <1>11 DEF q

\* A whole message.
LEMMA MessageIsSent ==
    ASSUME NEW types, NEW t, NEW bs \in Seq(Byte), Flow(types, t, bs),
           NEW m, Letter(m), m.type \in types, m.type \in DOMAIN Type \/ First(m) = 2,
           t[Len(bs)].at = Size(t[Len(bs)]), Ends(t[Len(bs)]), Succ(t[Len(bs)].m, m)
    PROVE  /\ Spelled(m) \in Seq(Byte)
           /\ \E u, part : /\ Continues(types, t, bs, u, bs \o Spelled(m), m, part)
                           /\ Ends(Place(m, part, 0))
<1>0. m.type # "none" /\ (First(m) # 2 => First(m) = 1 /\ m.type \in DOMAIN Type)
  BY DEF Type, First
<1>1. PICK u : Continues(types, t, bs, u, bs \o Part(m, First(m)), m, First(m))
  BY MessageBegins
<1>2. Part(m, 2) \in Seq(Byte) /\ Part(m, 3) \in Seq(Byte) /\ Len(Part(m, 3)) = m.blob.len
  BY <1>0, Parts
<1>3. m.type \in DOMAIN Type => Part(m, 1) \in Seq(Byte)
  BY <1>0, Parts
<1>4. CASE m.type = "close"
  <2>1. First(m) = 1 /\ Spelled(m) = Part(m, 1) /\ m.type \in DOMAIN Type /\ Ends(Place(m, 1, 0))
    BY <1>4 DEF First, Spelled, Type, Ends, Place
  <2> QED BY <1>1, <1>3, <1>4, <2>1
<1>5. CASE First(m) = 2
  <2>1. m.type \notin {"close", "keyless"} /\ Spelled(m) = Part(m, 2) \o Part(m, 3)
    <3>1. m.type \in {"signature", "certificate"}
      BY <1>5 DEF First
    <3> QED BY <1>5, <3>1 DEF Spelled
  <2>2. PICK v : Continues(types, t, bs, v, (bs \o Part(m, 2)) \o Part(m, 3), m, 3)
    BY <1>0, <1>1, <1>5, <2>1, MessageGoesOn
  <2>3. (bs \o Part(m, 2)) \o Part(m, 3) = bs \o Spelled(m) /\ Spelled(m) \in Seq(Byte)
    BY <1>2, <2>1, Regroup, ConcatProperties
  <2>4. Ends(Place(m, 3, 0))
    BY DEF Ends, Place
  <2> QED BY <2>2, <2>3, <2>4
<1>6. CASE m.type # "close" /\ First(m) = 1
  <2>1. Part(m, 1) \in Seq(Byte)
    BY <1>0, <1>3, <1>6
  <2>2. PICK v : Continues(types, t, bs, v, (bs \o Part(m, 1)) \o Part(m, 2), m, 2)
    BY <1>0, <1>1, <1>6, MessageGoesOn
  <2>3. /\ (bs \o Part(m, 1)) \o Part(m, 2) = bs \o (Part(m, 1) \o Part(m, 2))
        /\ Part(m, 1) \o Part(m, 2) \in Seq(Byte)
    BY <1>2, <2>1, Regroup, ConcatProperties
  <2>4. CASE m.type # "keyless"
    <3>1. Spelled(m) = (Part(m, 1) \o Part(m, 2)) \o Part(m, 3)
      BY <1>6, <2>4 DEF Spelled
    <3>2. /\ (bs \o (Part(m, 1) \o Part(m, 2))) \o Part(m, 3) = bs \o Spelled(m)
          /\ Spelled(m) \in Seq(Byte)
      <4>1. PICK c \in Seq(Byte) : c = Part(m, 1) \o Part(m, 2)
        BY <2>3
      <4>2. PICK d \in Seq(Byte) : d = Part(m, 3)
        BY <1>2
      <4>3. (bs \o c) \o d = bs \o (c \o d)
        BY Regroup, Zenon
      <4>4. c \o d \in Seq(Byte)
        BY ConcatProperties
      <4> QED BY <3>1, <4>1, <4>2, <4>3, <4>4
    <3>3. \E w : Continues(types, t, bs, w, ((bs \o Part(m, 1)) \o Part(m, 2)) \o Part(m, 3), m, 3)
      BY <1>0, <1>6, <2>2, <2>4, MessageGoesOn
    <3>4. Ends(Place(m, 3, 0))
      BY DEF Ends, Place
    <3> QED BY <2>3, <3>2, <3>3, <3>4
  <2>5. CASE m.type = "keyless"
    <3>1. Spelled(m) = Part(m, 1) \o Part(m, 2)
      BY <2>5 DEF Spelled
    <3>2. Ends(Place(m, 2, 0))
      BY <2>5 DEF Ends, Lacks, Place
    <3> QED BY <2>2, <2>3, <3>1, <3>2
  <2> QED BY <2>4, <2>5
<1> QED
  BY <1>0, <1>4, <1>5, <1>6

-------------------------------------------------------------------------------
(* The two sides *)

\* All that s may still get: what it has, what is on its way, and what the other side
\* has yet to send, unless the connection is broken.
Stream(s) == (got[s] \o wire[s]) \o (IF up THEN out[Peer(s)] ELSE <<>>)

SocketOK ==
    /\ pc = [r \in Side |-> pc[r]] /\ want \in [Side -> Nat] /\ up \in BOOLEAN
    /\ got \in [Side -> Seq(Byte)] /\ wire \in [Side -> Seq(Byte)] /\ out \in [Side -> Seq(Byte)]
    /\ \A s \in Side : Len(got[s]) <= want[s]
    /\ ~up => \A s \in Side : wire[s] = <<>>

\* The files, as far as the types go.
FilesOK ==
    /\ taken \in Nat /\ offered \in Seq(Path)
    /\ pc["client"] = "open" => chosen \in Path

\* A stream is of bytes and begins with what has been received.
LEMMA StreamShape ==
    ASSUME SocketOK, NEW s \in Side
    PROVE  /\ Stream(s) \in Seq(Byte) /\ Len(got[s]) \in 0 .. Len(Stream(s))
           /\ got[s] \in Seq(Byte)
           /\ \A i \in 1 .. Len(got[s]) : got[s][i] = Stream(s)[i]
<1>1. PICK a \in Seq(Byte), b \in Seq(Byte), c \in Seq(Byte) :
        a = got[s] /\ b = wire[s] /\ c = IF up THEN out[Peer(s)] ELSE <<>>
  BY EmptySeq DEF SocketOK, Side, Peer
<1>2. Stream(s) = (a \o b) \o c
  BY <1>1 DEF Stream
<1>3. a \o b \in Seq(Byte) /\ (a \o b) \o c \in Seq(Byte)
  BY ConcatProperties
<1>4. Len((a \o b) \o c) = Len(a) + Len(b) + Len(c)
  BY <1>3, ConcatProperties
<1>5. \A i \in 1 .. Len(a) : ((a \o b) \o c)[i] = a[i]
  BY <1>3, ConcatProperties
<1>6. Len(a) \in Nat /\ Len(b) \in Nat /\ Len(c) \in Nat
  OBVIOUS
<1>7. Len(a) \in 0 .. Len((a \o b) \o c)
  BY <1>4, <1>6
<1> QED
  BY <1>1, <1>2, <1>3, <1>5, <1>7

\* A side that is done with a part leaves it behind, and its answer follows all that is
\* on its way to the other side.
LEMMA GotoMoves ==
    ASSUME SocketOK, NEW s \in Side, out[s] = <<>>, Len(got[s]) = want[s],
           NEW label, NEW bs \in Seq(Byte), NEW n \in Nat, Goto(s, label, bs, n)
    PROVE  /\ SocketOK' /\ Drops(Stream(s), Stream(s)', want[s])
           /\ Stream(Peer(s))' = IF up THEN Stream(Peer(s)) \o bs ELSE Stream(Peer(s))
<1> DEFINE p == Peer(s)
<1>0. p \in Side /\ p # s /\ Peer(p) = s
  BY DEF Side, Peer
<1>1. /\ pc' = [pc EXCEPT ![s] = label] /\ out' = [out EXCEPT ![s] = bs]
      /\ want' = [want EXCEPT ![s] = n] /\ got' = [got EXCEPT ![s] = <<>>]
      /\ UNCHANGED <<wire, up>>
  BY DEF Goto
<1> HIDE DEF p
<1>2. SocketOK'
  <2>1. <<>> \in Seq(Byte) /\ Len(<<>>) = 0
    BY EmptySeq
  <2>2. pc' = [r \in Side |-> pc'[r]] /\ want' \in [Side -> Nat] /\ up' \in BOOLEAN
    BY <1>1 DEF SocketOK
  <2>3. /\ got' \in [Side -> Seq(Byte)] /\ wire' \in [Side -> Seq(Byte)]
        /\ out' \in [Side -> Seq(Byte)]
    BY <1>1, <2>1 DEF SocketOK
  <2>4. \A r \in Side : Len(got'[r]) <= want'[r]
    BY <1>1, <2>1 DEF SocketOK
  <2>5. ~up' => \A r \in Side : wire'[r] = <<>>
    BY <1>1 DEF SocketOK
  <2> QED BY <2>2, <2>3, <2>4, <2>5 DEF SocketOK
<1>3. Drops(Stream(s), Stream(s)', want[s])
  <2>1. PICK a \in Seq(Byte), b \in Seq(Byte), c \in Seq(Byte) :
          a = got[s] /\ b = wire[s] /\ c = IF up THEN out[p] ELSE <<>>
    BY <1>0, EmptySeq DEF SocketOK
  <2>2. Stream(s) = (a \o b) \o c
    BY <2>1 DEF Stream, p
  <2>3. Stream(s)' = (<<>> \o b) \o c
    <3>1. got'[s] = <<>> /\ wire'[s] = b /\ (IF up' THEN out'[p] ELSE <<>>) = c
      BY <1>0, <1>1, <2>1 DEF SocketOK
    <3> QED BY <3>1 DEF Stream, p
  <2>4. (<<>> \o b) \o c = b \o c
    BY ConcatEmptySeq
  <2>5. (a \o b) \o c = a \o (b \o c)
    BY Regroup, Zenon
  <2>6. PICK d \in Seq(Byte) : d = b \o c
    BY ConcatProperties
  <2>7. Drops(a \o d, d, Len(a))
    <3>1. /\ Len(a \o d) = Len(a) + Len(d)
          /\ \A i \in 1 .. Len(a) + Len(d) : (a \o d)[i] = IF i <= Len(a) THEN a[i] ELSE d[i - Len(a)]
      BY ConcatProperties
    <3>2. Len(a) \in Nat /\ Len(d) \in Nat
      OBVIOUS
    <3>3. ASSUME NEW i \in 1 .. Len(d) PROVE d[i] = (a \o d)[Len(a) + i]
      <4>1. Len(a) + i \in 1 .. Len(a) + Len(d) /\ ~(Len(a) + i <= Len(a)) /\ (Len(a) + i) - Len(a) = i
        BY <3>2
      <4> QED BY <3>1, <4>1
    <3> QED BY <3>1, <3>2, <3>3 DEF Drops
  <2>8. Len(a) = want[s]
    BY <2>1
  <2> QED BY <2>2, <2>3, <2>4, <2>5, <2>6, <2>7, <2>8
<1>4. Stream(p)' = IF up THEN Stream(p) \o bs ELSE Stream(p)
  <2>1. PICK a \in Seq(Byte), b \in Seq(Byte) : a = got[p] /\ b = wire[p]
    BY <1>0 DEF SocketOK
  <2>2. got'[p] = a /\ wire'[p] = b /\ out'[s] = bs
    BY <1>0, <1>1, <2>1 DEF SocketOK
  <2>3. Stream(p) = (a \o b) \o <<>> /\ Stream(p)' = (a \o b) \o (IF up THEN bs ELSE <<>>)
    BY <1>0, <1>1, <2>1, <2>2 DEF Stream
  <2>4. (a \o b) \o <<>> = a \o b
    BY ConcatProperties, ConcatEmptySeq
  <2> QED BY <2>3, <2>4
<1> QED
  BY <1>2, <1>3, <1>4 DEF p

\* A sequence is its beginning and the rest.
LEMMA CutInTwo ==
    ASSUME NEW b \in Seq(Byte), NEW n \in 1 .. Len(b)
    PROVE  \E c \in Seq(Byte), d \in Seq(Byte) :
              c = SubSeq(b, 1, n) /\ d = SubSeq(b, n + 1, Len(b)) /\ b = c \o d /\ Len(c) = n
<1>1. Len(b) \in Nat /\ n \in Nat
  OBVIOUS
<1>2. /\ SubSeq(b, 1, n) \in Seq(Byte) /\ Len(SubSeq(b, 1, n)) = n
      /\ \A i \in 1 .. n : SubSeq(b, 1, n)[i] = b[i]
  BY <1>1, SubSeqProperties
<1>3. /\ SubSeq(b, n + 1, Len(b)) \in Seq(Byte) /\ Len(SubSeq(b, n + 1, Len(b))) = Len(b) - n
      /\ \A i \in 1 .. Len(b) - n : SubSeq(b, n + 1, Len(b))[i] = b[n + i]
  BY <1>1, SubSeqProperties
<1>4. PICK c \in Seq(Byte), d \in Seq(Byte) : c = SubSeq(b, 1, n) /\ d = SubSeq(b, n + 1, Len(b))
  BY <1>2, <1>3
<1>5. /\ c \o d \in Seq(Byte) /\ Len(c \o d) = Len(c) + Len(d)
      /\ \A i \in 1 .. Len(c) + Len(d) : (c \o d)[i] = IF i <= Len(c) THEN c[i] ELSE d[i - Len(c)]
  BY ConcatProperties
<1>6. ASSUME NEW i \in 1 .. Len(b) PROVE (c \o d)[i] = b[i]
  <2>1. CASE i <= n
    BY <1>1, <1>2, <1>3, <1>4, <1>5, <2>1
  <2>2. CASE ~(i <= n)
    <3>1. i - n \in 1 .. Len(b) - n /\ n + (i - n) = i
      BY <1>1, <2>2
    <3> QED BY <1>1, <1>2, <1>3, <1>4, <1>5, <2>2, <3>1
  <2> QED BY <2>1, <2>2
<1>7. Len(c \o d) = Len(b)
  BY <1>1, <1>2, <1>3, <1>4, <1>5
<1>8. c \o d = b
  BY <1>5, <1>6, <1>7, SeqEqual
<1> QED
  BY <1>2, <1>3, <1>4, <1>8

\* However the bytes are cut up on their way, the stream stays what it is.
LEMMA SocketMoves ==
    ASSUME SocketOK, NEW s \in Side, Send(s) \/ Receive(s)
    PROVE  SocketOK' /\ \A r \in Side : Stream(r)' = Stream(r)
<1> DEFINE p == Peer(s)
<1>0. p \in Side /\ p # s /\ Peer(p) = s
  BY DEF Side, Peer
<1> HIDE DEF p
<1>1. CASE Send(s)
  <2>1. PICK n \in 1 .. Len(out[s]) : send_all(s, n)
    BY <1>1 DEF Send
  <2>2. up /\ UNCHANGED <<pc, want, got, up>>
    BY <1>1 DEF Send
  <2>3. PICK a \in Seq(Byte), w \in Seq(Byte), b \in Seq(Byte) : a = got[p] /\ w = wire[p] /\ b = out[s]
    BY <1>0 DEF SocketOK
  <2>4. PICK c \in Seq(Byte), d \in Seq(Byte) : 
          c = SubSeq(b, 1, n) /\ d = SubSeq(b, n + 1, Len(b)) /\ b = c \o d /\ Len(c) = n
    <3>1. n \in 1 .. Len(b)
      BY <2>1, <2>3
    <3> QED BY <3>1, CutInTwo
  <2>5. /\ wire' = [wire EXCEPT ![p] = w \o c] /\ out' = [out EXCEPT ![s] = d]
    BY <2>1, <2>3, <2>4 DEF send_all, p
  <2>6. w \o c \in Seq(Byte)
    BY ConcatProperties
  <2>7. SocketOK'
    BY <1>0, <2>2, <2>5, <2>6 DEF SocketOK
  <2>8. Stream(p)' = Stream(p)
    <3>1. Stream(p) = (a \o w) \o b
      BY <1>0, <2>2, <2>3 DEF Stream
    <3>2. Stream(p)' = (a \o (w \o c)) \o d
      BY <1>0, <2>2, <2>3, <2>5 DEF Stream, SocketOK
    <3>3. Moved(a, w, c, d)
      BY RegroupFour, Zenon
    <3> QED BY <2>4, <3>1, <3>2, <3>3 DEF Moved
  <2>9. Stream(s)' = Stream(s)
    <3>1. wire'[s] = wire[s] /\ out'[p] = out[p] /\ Peer(s) = p
      BY <1>0, <2>5 DEF SocketOK, p
    <3> QED BY <2>2, <3>1 DEF Stream
  <2>10. Side = {s, p}
    BY <1>0 DEF Side
  <2> QED BY <2>7, <2>8, <2>9, <2>10
<1>2. CASE Receive(s)
  <2>1. UNCHANGED <<pc, out, want, up>>
    BY <1>2 DEF Receive
  <2>2. PICK a \in Seq(Byte), b \in Seq(Byte) : a = got[s] /\ b = wire[s] /\ Len(a) <= want[s] /\ want[s] \in Nat
    BY DEF SocketOK
  <2>3. PICK n : /\ n \in 1 .. Lesser(Lesser(want[s] - Len(got[s]), Chunk), Len(wire[s]))
                 /\ got' = [got EXCEPT ![s] = @ \o SubSeq(wire[s], 1, n)]
                 /\ wire' = [wire EXCEPT ![s] = SubSeq(@, n + 1, Len(@))]
    BY <1>2 DEF Receive
  <2>4. n \in 1 .. Len(b) /\ Len(a) + n <= want[s]
    <3>1. Len(b) \in Nat /\ Len(a) \in Nat /\ Chunk \in Nat
      BY ChannelAssumption
    <3> QED BY <2>2, <2>3, <3>1 DEF Lesser
  <2>5. PICK c \in Seq(Byte), d \in Seq(Byte) :
          c = SubSeq(b, 1, n) /\ d = SubSeq(b, n + 1, Len(b)) /\ b = c \o d /\ Len(c) = n
    BY <2>4, CutInTwo
  <2>6. got' = [got EXCEPT ![s] = a \o c] /\ wire' = [wire EXCEPT ![s] = d]
    BY <2>2, <2>3, <2>5
  <2>7. a \o c \in Seq(Byte) /\ Len(a \o c) = Len(a) + n
    BY <2>5, ConcatProperties
  <2>8. up
    <3>1. b # <<>>
      BY <2>4
    <3> QED BY <2>2, <3>1 DEF SocketOK
  <2>9. SocketOK'
    BY <2>1, <2>4, <2>6, <2>7, <2>8 DEF SocketOK
  <2>10. Stream(s)' = Stream(s)
    <3>1. PICK e \in Seq(Byte) : e = out[p]
      BY <1>0 DEF SocketOK
    <3>2. Stream(s) = (a \o b) \o e
      BY <2>2, <2>8, <3>1 DEF Stream, p
    <3>3. Stream(s)' = ((a \o c) \o d) \o e
      BY <2>1, <2>6, <2>8, <3>1 DEF Stream, p, SocketOK
    <3>4. (a \o c) \o d = a \o (c \o d)
      BY Regroup, Zenon
    <3> QED BY <2>5, <3>2, <3>3, <3>4
  <2>11. Stream(p)' = Stream(p)
    BY <1>0, <2>1, <2>6 DEF Stream, SocketOK
  <2>12. Side = {s, p}
    BY <1>0 DEF Side
  <2> QED BY <2>9, <2>10, <2>11, <2>12
<1> QED
  BY <1>1, <1>2

ClientTypes == {"none"} \cup DOMAIN Type
ServerTypes == {"none", "signature", "certificate"}

LengthLabel == [auth |-> "challengeLen", key |-> "wrappedLen", keyless |-> "wrappedLen", name |-> "nameLen", data |-> "dataLen"]

\* Where the server is when the last part it has read ended at a.
ServerAt(a) ==
    \/ pc["server"] = "accept" /\ a.m.type = "none" /\ a.part = 3 /\ want["server"] = 0
    \/ /\ pc["server"] = "type" /\ Ends(a) /\ a.m.type \notin {"close", "keyless"}
       /\ want["server"] = IntBytes
    \/ /\ a.m.type \in DOMAIN LengthLabel
       /\ \/ /\ a.part = 1 /\ pc["server"] = LengthLabel[a.m.type]
             /\ want["server"] = IntBytes
          \/ /\ a.part = 2 /\ pc["server"] = After[LengthLabel[a.m.type]]
             /\ want["server"] = a.m.blob.len
    \/ pc["server"] = "cert" /\ a.m.type = "auth" /\ a.part = 3 /\ want["server"] = 0

\* What it has made of that.
ServerHas(a) ==
    /\ taken = IF a.m.type = "data" /\ a.part < 3 THEN a.m.files - 1 ELSE a.m.files
    /\ (a.m.type = "name" /\ a.part = 3) \/ a.m.type = "data" => filename = a.m.name

\* What a message of the client says of the files it has offered, and of its key.
Tracks(m) ==
    /\ m.files \in 0 .. Len(offered)
    /\ m.type = "data" => m.files > 0 /\ offered[m.files] = m.name
    /\ m.type = "close" => /\ m.files = Len(offered)
                           /\ pc["client"] \in {"closing", "done", "failed", "killed", "crashed"}
    /\ m.type = "keyless" => keyless

\* What the client has sent, up to a.
ClientSent(a) ==
    /\ a.at = Size(a) /\ Ends(a) /\ a.m.files = Len(offered)
    /\ \/ pc["client"] \in {"start", "auth"} /\ a.m.type = "none"
       \/ /\ pc["client"] \in {"sigLen", "signature", "certLen", "certificate", "symkey"}
          /\ a.m.type = "auth"
       \/ pc["client"] = "prompt" /\ a.m.type \in {"key", "keyless", "name", "data"}
       \/ pc["client"] = "open" /\ a.m.type = "name" /\ a.m.name = chosen
       \/ pc["client"] = "closing" /\ a.m.type = "close"

\* Where the client is when the last part it has read ended at b.
ClientAt(b) ==
    \/ pc["client"] \in {"start", "auth"} /\ b.m.type = "none" /\ b.part = 3 /\ want["client"] = 0
    \/ pc["client"] = "sigLen" /\ b.m.type = "none" /\ b.part = 3 /\ want["client"] = IntBytes
    \/ pc["client"] = "signature" /\ b.m.type = "signature" /\ b.part = 2 /\ want["client"] = RsaLen
    \/ pc["client"] = "certLen" /\ b.m.type = "signature" /\ b.part = 3 /\ want["client"] = IntBytes
    \/ pc["client"] = "certificate" /\ b.m.type = "certificate" /\ b.part = 2 /\ want["client"] = CertLen
    \/ pc["client"] \in {"symkey", "prompt", "open", "closing"} /\ want["client"] = 0

\* What the server, which reads behind a, has sent, up to b: nothing until it has
\* read the challenge, then the signature.
ServerSent(a, b) ==
    /\ a.m.type = "none" \/ (a.m.type = "auth" /\ a.part < 3)
         => b.m.type = "none" /\ b.part = 3 /\ b.at = Size(b)
    /\ pc["server"] = "cert" => b.m.type = "signature" /\ b.part = 3 /\ b.at = Size(b)

ToServer(t) ==
    /\ Flow(ClientTypes, t, Stream("server")) /\ ServerAt(t[0]) /\ ServerHas(t[0])
    /\ \A i \in 0 .. Len(Stream("server")) : Tracks(t[i].m)

ToClient(u) == Flow(ServerTypes, u, Stream("client")) /\ ClientAt(u[0])

Connected == up /\ ~Gone("client") /\ ~Gone("server")

Streams(t, u) ==
    /\ ~Gone("server") => ToServer(t)
    /\ ~Gone("client") => ToClient(u)
    /\ Connected => /\ ClientSent(t[Len(Stream("server"))])
                    /\ ServerSent(t[0], u[Len(Stream("client"))])

ChannelInv == SocketOK /\ FilesOK /\ \E t, u : Streams(t, u)

\* Nothing that is received or sent, but not acted upon, changes what the sides are at.
LEMMA StreamsStay ==
    ASSUME NEW t, NEW u, Streams(t, u), \A r \in Side : Stream(r)' = Stream(r),
           UNCHANGED <<pc, want, up, filename, taken, offered, chosen, keyless>>
    PROVE  Streams(t, u)'
<1>1. Stream("server")' = Stream("server") /\ Stream("client")' = Stream("client")
  BY DEF Side
<1>2. (ToServer(t) <=> ToServer(t)') /\ (ToClient(u) <=> ToClient(u)')
  BY <1>1 DEF ToServer, ToClient, ServerAt, ServerHas, Tracks, ClientAt
<1>3. /\ \A a : ClientSent(a) <=> ClientSent(a)'
      /\ \A a, b : ServerSent(a, b) <=> ServerSent(a, b)'
  BY DEF ClientSent, ServerSent
<1>4. (Gone("server") <=> Gone("server")') /\ (Gone("client") <=> Gone("client")')
  BY DEF Gone
<1> QED
  BY <1>1, <1>2, <1>3, <1>4 DEF Streams, Connected

\* cs is what bs begins with.
Shortens(bs, cs) ==
    cs \in Seq(Byte) /\ Len(cs) <= Len(bs) /\ \A i \in 1 .. Len(cs) : cs[i] = bs[i]

\* A side that ends, or a connection that breaks, leaves part of a stream.
LEMMA StreamsBreak ==
    ASSUME SocketOK, NEW t, NEW u, Streams(t, u), ~Connected',
           \A r \in Side : Gone(r)' \/ ( /\ pc'[r] = pc[r] /\ want'[r] = want[r]
                                       /\ Shortens(Stream(r), Stream(r)')),
           UNCHANGED <<filename, taken, offered, keyless>>
    PROVE  Streams(t, u)'
<1>0. \A r \in Side : Gone(r) => Gone(r)'
  BY DEF Gone
<1>1. ASSUME ~Gone("server")' PROVE ToServer(t)'
  <2>1. ToServer(t)
    BY <1>0, <1>1 DEF Streams, Side
  <2>2. /\ pc'["server"] = pc["server"] /\ want'["server"] = want["server"]
        /\ Shortens(Stream("server"), Stream("server")')
    BY <1>1 DEF Side
  <2>3. PICK bs \in Seq(Byte) : bs = Stream("server")
    BY StreamShape DEF Side
  <2>4. PICK cs \in Seq(Byte) : cs = Stream("server")'
    BY <2>2 DEF Shortens
  <2>5. Flow(ClientTypes, t, bs) /\ Shortens(bs, cs)
    BY <2>1, <2>2, <2>3, <2>4 DEF ToServer
  <2>6. Flow(ClientTypes, t, cs)
    BY <2>5, FlowBreaks DEF Shortens
  <2>7. ServerAt(t[0])' /\ ServerHas(t[0])'
    BY <2>1, <2>2 DEF ToServer, ServerAt, ServerHas
  <2>8. \A m : Tracks(m) => Tracks(m)'
    <3>1. Gone("client")' \/ pc'["client"] = pc["client"]
      BY DEF Side
    <3> QED BY <3>1 DEF Tracks, Gone
  <2>9. \A i \in 0 .. Len(cs) : i \in 0 .. Len(bs)
    BY <2>5 DEF Shortens
  <2>10. \A i \in 0 .. Len(cs) : Tracks(t[i].m)'
    BY <2>1, <2>3, <2>8, <2>9 DEF ToServer
  <2> QED BY <2>4, <2>6, <2>7, <2>10 DEF ToServer
<1>2. ASSUME ~Gone("client")' PROVE ToClient(u)'
  <2>1. ToClient(u)
    BY <1>0, <1>2 DEF Streams, Side
  <2>2. /\ pc'["client"] = pc["client"] /\ want'["client"] = want["client"]
        /\ Shortens(Stream("client"), Stream("client")')
    BY <1>2 DEF Side
  <2>3. PICK bs \in Seq(Byte) : bs = Stream("client")
    BY StreamShape DEF Side
  <2>4. PICK cs \in Seq(Byte) : cs = Stream("client")'
    BY <2>2 DEF Shortens
  <2>5. Flow(ServerTypes, u, bs) /\ Shortens(bs, cs)
    BY <2>1, <2>2, <2>3, <2>4 DEF ToClient
  <2>6. Flow(ServerTypes, u, cs)
    BY <2>5, FlowBreaks DEF Shortens
  <2>7. ClientAt(u[0])'
    BY <2>1, <2>2 DEF ToClient, ClientAt
  <2> QED BY <2>4, <2>6, <2>7 DEF ToClient
<1> QED
  BY <1>1, <1>2 DEF Streams

\* A beginning.
LEMMA ConcatShortens ==
    ASSUME NEW a \in Seq(Byte), NEW b \in Seq(Byte)
    PROVE  a \o b \in Seq(Byte) /\ Shortens(a \o b, a)
<1>1. /\ a \o b \in Seq(Byte) /\ Len(a \o b) = Len(a) + Len(b)
      /\ \A i \in 1 .. Len(a) + Len(b) : (a \o b)[i] = IF i <= Len(a) THEN a[i] ELSE b[i - Len(a)]
  BY ConcatProperties
<1>2. Len(a) \in Nat /\ Len(b) \in Nat
  OBVIOUS
<1>3. Len(a) <= Len(a \o b)
  BY <1>1, <1>2
<1>4. \A i \in 1 .. Len(a) : (a \o b)[i] = a[i]
  BY <1>1, <1>2
<1> QED
  BY <1>1, <1>3, <1>4 DEF Shortens

\* The same stream.
LEMMA SameShortens ==
    ASSUME NEW a \in Seq(Byte)
    PROVE  Shortens(a, a)
  BY DEF Shortens

Ended == {"done", "failed", "killed", "crashed"}

\* A side ends.
LEMMA Leaves ==
    ASSUME SocketOK, NEW t, NEW u, Streams(t, u), NEW s \in Side, NEW label \in Ended,
           End(s, label), UNCHANGED <<filename, taken, offered, keyless>>
    PROVE  SocketOK' /\ Streams(t, u)'
<1> DEFINE p == Peer(s)
<1>0. p \in Side /\ p # s /\ Peer(p) = s /\ Side = {s, p} /\ Side = {"client", "server"}
  BY DEF Side, Peer
<1> HIDE DEF p
<1>1. /\ pc' = [pc EXCEPT ![s] = label] /\ out' = [out EXCEPT ![s] = <<>>]
      /\ want' = [want EXCEPT ![s] = 0] /\ got' = [got EXCEPT ![s] = <<>>]
      /\ UNCHANGED <<wire, up>>
  BY DEF End, Goto
<1>2. Gone(s)'
  BY <1>1 DEF Gone, Ended, SocketOK
<1>3. SocketOK'
  <2>1. <<>> \in Seq(Byte) /\ Len(<<>>) = 0
    BY EmptySeq
  <2>2. pc' = [r \in Side |-> pc'[r]] /\ want' \in [Side -> Nat] /\ up' \in BOOLEAN
    <3>1. pc = [r \in Side |-> pc[r]] /\ want \in [Side -> Nat] /\ up \in BOOLEAN
      BY DEF SocketOK
    <3>3. pc' = [r \in Side |-> pc'[r]]
      BY <1>1, <3>1
    <3> QED BY <1>1, <3>1, <3>3
  <2>3. /\ got' \in [Side -> Seq(Byte)] /\ wire' \in [Side -> Seq(Byte)]
        /\ out' \in [Side -> Seq(Byte)]
    BY <1>1, <2>1 DEF SocketOK
  <2>4. \A r \in Side : Len(got'[r]) <= want'[r]
    BY <1>1, <2>1 DEF SocketOK
  <2>5. ~up' => \A r \in Side : wire'[r] = <<>>
    BY <1>1 DEF SocketOK
  <2> QED BY <2>2, <2>3, <2>4, <2>5 DEF SocketOK
<1>4. pc'[p] = pc[p] /\ want'[p] = want[p] /\ got'[p] = got[p]
  BY <1>0, <1>1 DEF SocketOK
<1>5. Shortens(Stream(p), Stream(p)')
  <2>1. PICK a \in Seq(Byte), b \in Seq(Byte), c \in Seq(Byte) :
          a = got[p] /\ b = wire[p] /\ c = IF up THEN out[s] ELSE <<>>
    BY <1>0, EmptySeq DEF SocketOK
  <2>2. PICK d \in Seq(Byte) : d = a \o b
    BY ConcatProperties
  <2>3. Stream(p) = d \o c
    BY <1>0, <2>1, <2>2 DEF Stream
  <2>4. Stream(p)' = d \o <<>>
    <3>1. out'[s] = <<>>
      BY <1>1 DEF SocketOK
    <3> QED BY <1>0, <1>1, <1>4, <2>1, <2>2, <3>1 DEF Stream
  <2>5. d \o <<>> = d
    BY ConcatEmptySeq
  <2> QED BY <2>3, <2>4, <2>5, ConcatShortens
<1>6. ~Connected'
  BY <1>0, <1>2 DEF Connected
<1>7. \A r \in Side : Gone(r)' \/ ( /\ pc'[r] = pc[r] /\ want'[r] = want[r]
                                    /\ Shortens(Stream(r), Stream(r)'))
  BY <1>0, <1>2, <1>4, <1>5
<1>8. Streams(t, u)'
  BY <1>6, <1>7, StreamsBreak
<1> QED
  BY <1>3, <1>8

\* What cannot be sent is lost.
LEMMA SendFailsStep ==
    ASSUME SocketOK, NEW t, NEW u, Streams(t, u), NEW s \in Side, SendFails(s)
    PROVE  SocketOK' /\ Streams(t, u)'
<1> DEFINE p == Peer(s)
<1>0. p \in Side /\ p # s /\ Peer(p) = s /\ Side = {s, p} /\ Side = {"client", "server"}
  BY DEF Side, Peer
<1>1. /\ out' = [out EXCEPT ![s] = <<>>] /\ (~up \/ Gone(p))
      /\ UNCHANGED <<want, got, wire, up, filename, taken, offered, keyless>>
      /\ pc' = pc \/ (\E label \in Ended : pc' = [pc EXCEPT ![s] = label])
  BY DEF SendFails, server, client, Ended
<1> HIDE DEF p
<1>2. SocketOK'
  <2>1. <<>> \in Seq(Byte)
    BY EmptySeq
  <2>2. out' \in [Side -> Seq(Byte)]
    BY <1>1, <2>1 DEF SocketOK
  <2>3. pc' = [r \in Side |-> pc'[r]]
    <3>1. pc = [r \in Side |-> pc[r]]
      BY DEF SocketOK
    <3> QED BY <1>1, <3>1
  <2> QED BY <1>1, <2>2, <2>3 DEF SocketOK
<1>3. Gone(s)' \/ pc' = pc
  BY <1>1 DEF Gone, Ended, SocketOK
<1>4. pc'[p] = pc[p] /\ out'[p] = out[p]
  BY <1>0, <1>1 DEF SocketOK
<1>5. Stream(s)' = Stream(s)
  <2>1. Peer(s) = p
    BY DEF p
  <2> QED BY <1>1, <1>4, <2>1 DEF Stream
<1>6. ~up => Stream(p)' = Stream(p)
  BY <1>1 DEF Stream
<1>7. ~Connected'
  BY <1>0, <1>1, <1>4 DEF Connected, Gone
<1>8. \A r \in Side : Shortens(Stream(r), Stream(r))
  BY StreamShape, SameShortens
<1>9. \A r \in Side : Gone(r)' \/ ( /\ pc'[r] = pc[r] /\ want'[r] = want[r]
                                    /\ Shortens(Stream(r), Stream(r)'))
  <2>1. Gone(s)' \/ (pc'[s] = pc[s] /\ want'[s] = want[s] /\ Shortens(Stream(s), Stream(s)'))
    BY <1>1, <1>3, <1>5, <1>8
  <2>2. Gone(p)' \/ (pc'[p] = pc[p] /\ want'[p] = want[p] /\ Shortens(Stream(p), Stream(p)'))
    BY <1>0, <1>1, <1>4, <1>6, <1>8 DEF Gone
  <2> QED BY <1>0, <2>1, <2>2
<1>10. Streams(t, u)'
  BY <1>1, <1>7, <1>9, StreamsBreak
<1> QED
  BY <1>2, <1>10

\* The connection breaks.
LEMMA BreakStep ==
    ASSUME SocketOK, NEW t, NEW u, Streams(t, u), Break
    PROVE  SocketOK' /\ Streams(t, u)'
<1>1. /\ ~up' /\ up' = FALSE /\ wire' = [r \in Side |-> <<>>]
      /\ UNCHANGED <<pc, out, want, got, filename, taken, offered, keyless>>
  BY DEF Break, server, client
<1>2. SocketOK'
  <2>1. <<>> \in Seq(Byte)
    BY EmptySeq
  <2> QED BY <1>1, <2>1 DEF SocketOK
<1>3. ASSUME NEW r \in Side PROVE Shortens(Stream(r), Stream(r)')
  <2>1. PICK a \in Seq(Byte), b \in Seq(Byte), c \in Seq(Byte) :
          a = got[r] /\ b = wire[r] /\ c = IF up THEN out[Peer(r)] ELSE <<>>
    BY EmptySeq DEF SocketOK, Side, Peer
  <2>2. Stream(r) = (a \o b) \o c
    BY <2>1 DEF Stream
  <2>3. (a \o b) \o c = a \o (b \o c)
    BY Regroup, Zenon
  <2>4. Stream(r)' = (a \o <<>>) \o <<>>
    BY <1>1, <2>1 DEF Stream
  <2>5. a \o <<>> = a
    BY ConcatEmptySeq
  <2>6. PICK d \in Seq(Byte) : d = b \o c
    BY ConcatProperties
  <2>7. Shortens(a \o d, a)
    BY ConcatShortens
  <2> QED BY <2>2, <2>3, <2>4, <2>5, <2>6, <2>7
<1>4. ~Connected'
  BY <1>1 DEF Connected
<1>5. \A r \in Side : Gone(r)' \/ ( /\ pc'[r] = pc[r] /\ want'[r] = want[r]
                                    /\ Shortens(Stream(r), Stream(r)'))
  BY <1>1, <1>3
<1>6. Streams(t, u)'
  BY <1>1, <1>4, <1>5, StreamsBreak
<1> QED
  BY <1>2, <1>6

\* The client connects.
LEMMA ConnectStep ==
    ASSUME SocketOK, NEW t, NEW u, Streams(t, u), Connect
    PROVE  SocketOK' /\ Streams(t, u)'
<1>1. /\ pc["client"] = "start" /\ pc["server"] = "accept"
      /\ pc' = [pc EXCEPT !["client"] = "auth", !["server"] = "type"]
      /\ want' = [want EXCEPT !["server"] = IntBytes]
      /\ UNCHANGED <<out, got, wire, up, filename, taken, offered, chosen, keyless>>
  BY DEF Connect, server, client
<1>2. "client" \in Side /\ "server" \in Side /\ Side = {"client", "server"}
  BY DEF Side
<1>3. ToServer(t) /\ ToClient(u)
  BY <1>1 DEF Streams, Gone
<1>4. want["server"] = 0 /\ t[0].m.type = "none" /\ t[0].part = 3
  BY <1>1, <1>3 DEF ToServer, ServerAt, LengthLabel, After
<1>5. /\ pc'["client"] = "auth" /\ pc'["server"] = "type"
      /\ want'["server"] = IntBytes /\ want'["client"] = want["client"]
  BY <1>1, <1>2 DEF SocketOK
<1>6. SocketOK'
  <2>1. IntBytes \in Nat
    BY ChannelAssumption
  <2>2. pc' = [r \in Side |-> pc'[r]] /\ want' \in [Side -> Nat]
    <3>1. pc = [r \in Side |-> pc[r]] /\ want \in [Side -> Nat]
      BY DEF SocketOK
    <3>2. pc' = [r \in Side |-> pc'[r]]
      BY <1>1, <3>1
    <3>3. want' \in [Side -> Nat]
      BY <1>1, <2>1, <3>1
    <3> QED BY <3>2, <3>3
  <2>3. \A r \in Side : Len(got'[r]) <= want'[r]
    <3>1. Len(got["server"]) <= 0 /\ Len(got["client"]) <= want["client"]
      BY <1>2, <1>4 DEF SocketOK
    <3>2. Len(got["server"]) <= IntBytes
      BY <1>2, <2>1, <3>1 DEF SocketOK
    <3> QED BY <1>1, <1>2, <1>5, <3>1, <3>2
  <2> QED BY <1>1, <2>2, <2>3 DEF SocketOK
<1>7. Stream("server")' = Stream("server") /\ Stream("client")' = Stream("client")
  BY <1>1 DEF Stream
<1>8. ToServer(t)'
  <2>1. ServerAt(t[0])'
    BY <1>4, <1>5 DEF ServerAt, Ends
  <2>2. ServerHas(t[0])'
    BY <1>1, <1>3 DEF ToServer, ServerHas
  <2>3. \A m : Tracks(m) => Tracks(m)'
    BY <1>1, <1>5 DEF Tracks
  <2> QED BY <1>3, <1>7, <2>1, <2>2, <2>3 DEF ToServer
<1>9. ToClient(u)'
  <2>1. ClientAt(u[0])'
    BY <1>1, <1>3, <1>5 DEF ToClient, ClientAt
  <2> QED BY <1>3, <1>7, <2>1 DEF ToClient
<1>10. Connected => \A a, b : /\ ClientSent(a) => ClientSent(a)'
                              /\ ServerSent(a, b) => ServerSent(a, b)'
  BY <1>1, <1>5 DEF ClientSent, ServerSent
<1>11. Connected' => Connected
  BY <1>1 DEF Connected, Gone
<1> QED
  BY <1>6, <1>7, <1>8, <1>9, <1>10, <1>11 DEF Streams

\* The start.
LEMMA InitChannel == Init => ChannelInv
<1> SUFFICES ASSUME Init PROVE ChannelInv
  OBVIOUS
<1>1. <<>> \in Seq(Byte) /\ Len(<<>>) = 0 /\ <<>> \o <<>> = <<>> /\ <<>> \in Seq(Path)
  BY EmptySeq, ConcatEmptySeq
<1>2. SocketOK
  <2>1. /\ pc = [r \in Side |-> pc[r]]
        /\ up = TRUE /\ want = [s \in Side |-> 0] /\ wire = [s \in Side |-> <<>>]
        /\ got = [s \in Side |-> <<>>] /\ out = [s \in Side |-> <<>>]
    BY DEF Init
  <2>2. pc = [r \in Side |-> pc[r]]
    BY <2>1
  <2>3. /\ want \in [Side -> Nat] /\ got \in [Side -> Seq(Byte)]
        /\ wire \in [Side -> Seq(Byte)] /\ out \in [Side -> Seq(Byte)]
    BY <1>1, <2>1
  <2>4. \A s \in Side : Len(got[s]) <= want[s]
    BY <1>1, <2>1
  <2> QED BY <2>1, <2>2, <2>3, <2>4 DEF SocketOK
<1>3. FilesOK
  BY <1>1 DEF Init, FilesOK, Side
<1> DEFINE t == [i \in {0} |-> Place(Before, 3, 0)]
<1>4. Stream("server") = <<>> /\ Stream("client") = <<>>
  BY <1>1 DEF Init, Stream, Side, Peer
<1>5. t[0].m = Before /\ t[0].part = 3 /\ t[0].at = 0
  BY DEF Place
<1>6. Size(t[0]) = 0
  <2>1. Part(Before, 3) = Bytes(NoBlob) /\ NoBlob.len = 0
    BY DEF Part, Before, NoBlob, Blob
  <2>2. Bytes(NoBlob) \in [1 .. 0 -> Byte]
    BY <2>1 DEF Bytes
  <2>3. Len(Bytes(NoBlob)) = 0
    BY <2>2, FunctionIsSeq
  <2> QED BY <1>5, <2>1, <2>3 DEF Size
<1> HIDE DEF t
<1>7. /\ Before.type = "none" /\ Before.blob = NoBlob /\ Before.files = 0
  BY DEF Before
<1>8. \A types : "none" \in types => Flow(types, t, <<>>)
  BY <1>1, <1>5, <1>6, <1>7 DEF Flow, Letter
<1>9. Flow(ClientTypes, t, <<>>) /\ Flow(ServerTypes, t, <<>>)
  BY <1>8 DEF ClientTypes, ServerTypes
<1>10. /\ pc["server"] = "accept" /\ pc["client"] = "start" /\ want["server"] = 0
       /\ want["client"] = 0 /\ taken = 0 /\ offered = <<>> /\ filename = Nil
  BY DEF Init, Side
<1>11. ToServer(t)
  <2>1. ServerAt(t[0]) /\ ServerHas(t[0])
    BY <1>5, <1>7, <1>10 DEF ServerAt, ServerHas
  <2>2. Tracks(t[0].m)
    BY <1>1, <1>5, <1>7, <1>10 DEF Tracks
  <2>3. \A i \in 0 .. Len(<<>>) : i = 0
    BY <1>1
  <2> QED BY <1>4, <1>9, <2>1, <2>2, <2>3 DEF ToServer
<1>12. ToClient(t)
  BY <1>4, <1>5, <1>7, <1>9, <1>10 DEF ToClient, ClientAt
<1>13. ClientSent(t[0]) /\ ServerSent(t[0], t[0])
  BY <1>1, <1>5, <1>6, <1>7, <1>10 DEF ClientSent, ServerSent, Ends
<1>14. Streams(t, t)
  BY <1>1, <1>4, <1>11, <1>12, <1>13 DEF Streams
<1> QED
  BY <1>2, <1>3, <1>14 DEF ChannelInv

-------------------------------------------------------------------------------
(* Reading *)

\* What s has received is the part of m that follows t[0].
Handed(types, t, s, m, part) ==
    /\ part \in 1 .. 3 /\ Letter(m) /\ m.type \in types /\ m.type # "none"
    /\ Joint(t[0], Place(m, part, 1)) /\ got[s] = Part(m, part)
    /\ want[s] \in 1 .. Len(Stream(s))
    /\ t[want[s]].m = m /\ t[want[s]].part = part /\ t[want[s]].at = Size(t[want[s]])

\* What may follow a place that ends a part.
LEMMA NextPart ==
    ASSUME SocketOK, NEW s \in Side, NEW types, NEW t, Flow(types, t, Stream(s)),
           Len(got[s]) = want[s], want[s] > 0
    PROVE  /\ Joint(t[0], t[1]) /\ Letter(t[1].m) /\ t[1].m.type \in types
           /\ t[1].part \in 1 .. 3 /\ want[s] \in 1 .. Len(Stream(s))
<1>1. PICK bs \in Seq(Byte) : bs = Stream(s) /\ Len(got[s]) \in 0 .. Len(bs)
  BY StreamShape
<1>2. Len(bs) \in Nat /\ want[s] \in 1 .. Len(bs)
  BY <1>1 DEF SocketOK
<1>3. 0 \in 0 .. Len(bs) - 1 /\ 1 \in 0 .. Len(bs)
  BY <1>2
<1>4. Joint(t[0], t[0 + 1])
  BY <1>1, <1>3 DEF Flow
<1> QED
  BY <1>1, <1>2, <1>3, <1>4 DEF Flow

\* A side that has what it wants has the next part.
LEMMA PartAtHand ==
    ASSUME SocketOK, NEW s \in Side, NEW types, NEW t, Flow(types, t, Stream(s)),
           Len(got[s]) = want[s], want[s] > 0, Size(t[1]) = want[s], t[1].m.type # "none"
    PROVE  Handed(types, t, s, t[1].m, t[1].part)
<1>1. PICK bs \in Seq(Byte) : bs = Stream(s)
  BY StreamShape
<1>2. /\ Joint(t[0], t[1]) /\ Letter(t[1].m) /\ t[1].m.type \in types
      /\ t[1].part \in 1 .. 3 /\ want[s] \in 1 .. Len(bs)
  BY <1>1, NextPart
<1>3. PICK w \in 1 .. Len(bs) : w = want[s]
  BY <1>2
<1>4. /\ t[w].m = t[1].m /\ t[w].part = t[1].part /\ t[w].at = Size(t[w])
      /\ \A i \in 1 .. w : bs[i] = Part(t[1].m, t[1].part)[i]
  BY <1>1, <1>3, PartIsRead
<1>5. got[s] \in Seq(Byte) /\ \A i \in 1 .. Len(got[s]) : got[s][i] = bs[i]
  BY <1>1, StreamShape
<1>6. PICK c \in Seq(Byte) : c = Part(t[1].m, t[1].part)
  <2>1. t[1].m.type \in DOMAIN Type \/ t[1].part # 1
    <3>1. t[0].part \in 1 .. 3
      <4>1. Len(bs) \in Nat
        OBVIOUS
      <4> QED BY <1>1, <4>1 DEF Flow
    <3>2. CASE Ends(t[0])
      <4>1. Succ(t[0].m, t[1].m) /\ t[1].part = First(t[1].m)
        BY <1>2, <3>2 DEF Joint
      <4>2. t[1].part = 1 => t[1].m.type \notin {"signature", "certificate"}
        BY <4>1 DEF First
      <4>3. t[1].m.type \in {"auth", "signature", "key", "keyless", "certificate", "close", "name", "data"}
        BY <4>1 DEF Succ
      <4> QED BY <4>2, <4>3 DEF Type
    <3>3. CASE ~Ends(t[0])
      BY <1>2, <3>1, <3>3 DEF Joint
    <3> QED BY <3>2, <3>3
  <2> QED BY <1>2, <2>1, Parts
<1>7. Len(c) = w
  BY <1>3, <1>6 DEF Size
<1>8. got[s] = c
  BY <1>3, <1>4, <1>5, <1>6, <1>7, SeqEqual
<1>9. Joint(t[0], Place(t[1].m, t[1].part, 1))
  BY <1>2 DEF Joint, Place
<1> QED
  BY <1>1, <1>2, <1>3, <1>4, <1>6, <1>8, <1>9 DEF Handed

\* Only a key may be announced and not sent.
LEMMA OnlyKeyLacks ==
    ASSUME NEW a, ServerAt(a), pc["server"] # "wrapped"
    PROVE  ~Lacks(a)
  BY DEF ServerAt, Lacks, LengthLabel, After

\* What the server has received, by where it is.
ServerPart(a, m, part) ==
    \/ pc["server"] = "type" /\ part = 1 /\ Succ(a.m, m) /\ m.type \in DOMAIN Type
    \/ /\ m = a.m /\ m.type \in DOMAIN LengthLabel
       /\ \/ part = 2 /\ pc["server"] = LengthLabel[m.type]
          \/ part = 3 /\ pc["server"] = After[LengthLabel[m.type]]

\* What the server has when its read_bytes returns, unless it waits for a key that
\* does not come.
LEMMA ServerReads ==
    ASSUME SocketOK, NEW t, ToServer(t), At("server", pc["server"]), want["server"] > 0,
           ~Lacks(t[0])
    PROVE  \E m, part : Handed(ClientTypes, t, "server", m, part) /\ ServerPart(t[0], m, part)
<1> DEFINE m == t[1].m
           part == t[1].part
<1>0. "server" \in Side
  BY DEF Side
<1>1. Flow(ClientTypes, t, Stream("server")) /\ ServerAt(t[0]) /\ Len(got["server"]) = want["server"]
  BY DEF ToServer, At
<1>2. /\ Joint(t[0], t[1]) /\ Letter(m) /\ m.type \in ClientTypes /\ part \in 1 .. 3
  BY <1>0, <1>1, NextPart
<1>3. m.type # "none" /\ ServerPart(t[0], m, part) /\ Size(t[1]) = want["server"]
  <2>1. CASE pc["server"] = "type" /\ Ends(t[0]) /\ want["server"] = IntBytes
    <3>1. Succ(t[0].m, m) /\ part = First(m)
      BY <1>2, <2>1 DEF Joint
    <3>2. t[0].m.type \in ClientTypes
      <4>1. Len(Stream("server")) \in Nat
        BY <1>0, StreamShape
      <4> QED BY <1>1, <4>1 DEF Flow
    <3>3. m.type # "none" /\ m.type \in DOMAIN Type /\ First(m) = 1
      <4>1. m.type # "none"
        BY <3>1 DEF Succ
      <4>2. m.type \in DOMAIN Type
        BY <1>2, <4>1 DEF ClientTypes
      <4> QED BY <4>1, <4>2 DEF Type, First
    <3>4. Len(Part(m, 1)) = IntBytes
      BY <1>2, <3>3, Parts
    <3> QED BY <2>1, <3>1, <3>3, <3>4 DEF ServerPart, Size
  <2>2. CASE /\ t[0].m.type \in DOMAIN LengthLabel /\ t[0].part = 1
             /\ pc["server"] = LengthLabel[t[0].m.type] /\ want["server"] = IntBytes
    <3>1. ~Ends(t[0])
      BY <2>2 DEF Ends, Lacks, LengthLabel
    <3>2. m = t[0].m /\ part = 2
      BY <1>2, <2>2, <3>1 DEF Joint
    <3>3. m.type # "none"
      BY <2>2, <3>2 DEF LengthLabel
    <3>4. Len(Part(m, 2)) = IntBytes
      BY <1>2, <3>3, Parts
    <3> QED BY <2>2, <3>2, <3>3, <3>4 DEF ServerPart, Size
  <2>3. CASE /\ t[0].m.type \in DOMAIN LengthLabel /\ t[0].part = 2
             /\ pc["server"] = After[LengthLabel[t[0].m.type]] /\ want["server"] = t[0].m.blob.len
    <3>1. ~Ends(t[0])
      BY <2>3 DEF Ends, LengthLabel
    <3>2. m = t[0].m /\ part = 3
      BY <1>2, <2>3, <3>1 DEF Joint
    <3>3. m.type # "none"
      BY <2>3, <3>2 DEF LengthLabel
    <3>4. Len(Part(m, 3)) = m.blob.len
      BY <1>2, <3>3, Parts
    <3> QED BY <2>3, <3>2, <3>3, <3>4 DEF ServerPart, Size
  <2> QED BY <1>1, <2>1, <2>2, <2>3 DEF ServerAt
<1>4. Handed(ClientTypes, t, "server", m, part)
  BY <1>0, <1>1, <1>3, PartAtHand
<1> QED
  BY <1>3, <1>4

\* What the client has received, by where it is.
ClientPart(a, m, part) ==
    \/ pc["client"] = "sigLen" /\ part = 2 /\ m.type = "signature"
    \/ pc["client"] = "signature" /\ part = 3 /\ m.type = "signature"
    \/ pc["client"] = "certLen" /\ part = 2 /\ m.type = "certificate"
    \/ pc["client"] = "certificate" /\ part = 3 /\ m.type = "certificate"

\* What the client has when its read_bytes returns.
LEMMA ClientReads ==
    ASSUME SocketOK, NEW u, ToClient(u), At("client", pc["client"]), want["client"] > 0
    PROVE  \E m, part : Handed(ServerTypes, u, "client", m, part) /\ ClientPart(u[0], m, part)
<1> DEFINE m == u[1].m
           part == u[1].part
<1>0. "client" \in Side
  BY DEF Side
<1>1. Flow(ServerTypes, u, Stream("client")) /\ ClientAt(u[0]) /\ Len(got["client"]) = want["client"]
  BY DEF ToClient, At
<1>2. /\ Joint(u[0], u[1]) /\ Letter(m) /\ m.type \in ServerTypes /\ part \in 1 .. 3
  BY <1>0, <1>1, NextPart
<1>3. Letter(u[0].m)
  <2>1. Len(Stream("client")) \in Nat
    BY <1>0, StreamShape
  <2> QED BY <1>1, <2>1 DEF Flow
<1>4. m.type # "none" /\ ClientPart(u[0], m, part) /\ want["client"] = IF part = 2 THEN IntBytes ELSE m.blob.len
  <2>1. CASE pc["client"] = "sigLen" /\ u[0].m.type = "none" /\ u[0].part = 3 /\ want["client"] = IntBytes
    <3>1. Succ(u[0].m, m) /\ part = First(m)
      BY <1>2, <2>1 DEF Joint, Ends
    <3>2. m.type = "signature"
      BY <1>2, <2>1, <3>1 DEF Succ, ServerTypes
    <3> QED BY <2>1, <3>1, <3>2 DEF First, ClientPart
  <2>2. CASE pc["client"] = "signature" /\ u[0].m.type = "signature" /\ u[0].part = 2 /\ want["client"] = RsaLen
    <3>1. u[0].m.blob.len = RsaLen
      BY <1>3, <2>2 DEF Letter, sign_message_pss, Blob
    <3>2. m = u[0].m /\ part = 3
      BY <1>2, <2>2 DEF Joint, Ends, Lacks
    <3> QED BY <2>2, <3>1, <3>2 DEF ClientPart
  <2>3. CASE pc["client"] = "certLen" /\ u[0].m.type = "signature" /\ u[0].part = 3 /\ want["client"] = IntBytes
    <3>1. Succ(u[0].m, m) /\ part = First(m)
      BY <1>2, <2>3 DEF Joint, Ends
    <3>2. m.type = "certificate"
      BY <1>2, <2>3, <3>1 DEF Succ, ServerTypes
    <3> QED BY <2>3, <3>1, <3>2 DEF First, ClientPart
  <2>4. CASE pc["client"] = "certificate" /\ u[0].m.type = "certificate" /\ u[0].part = 2 /\ want["client"] = CertLen
    <3>1. u[0].m.blob.len = CertLen
      BY <1>3, <2>4 DEF Letter, Certificate, Blob
    <3>2. m = u[0].m /\ part = 3
      BY <1>2, <2>4 DEF Joint, Ends, Lacks
    <3> QED BY <2>4, <3>1, <3>2 DEF ClientPart
  <2> QED BY <1>1, <2>1, <2>2, <2>3, <2>4 DEF ClientAt
<1>5. Size(u[1]) = want["client"]
  <2>1. Len(Part(m, 2)) = IntBytes /\ Len(Part(m, 3)) = m.blob.len
    BY <1>2, <1>4, Parts
  <2>2. part \in {2, 3}
    BY <1>4 DEF ClientPart
  <2> QED BY <1>4, <2>1, <2>2 DEF Size
<1>6. Handed(ServerTypes, u, "client", m, part)
  BY <1>0, <1>1, <1>4, <1>5, PartAtHand
<1> QED
  BY <1>4, <1>6

\* The bytes of a blob are the whole of it.
LEMMA WholeBlob ==
    ASSUME NEW blob, blob.len \in Nat, blob.len > 0
    PROVE  /\ Whole(Bytes(blob), blob.kind) /\ Bytes(blob)[1].blob = blob
           /\ Value(Bytes(blob)) = blob.value /\ Len(Bytes(blob)) = blob.len
           /\ \A kind : Whole(Bytes(blob), kind) => kind = blob.kind
<1>1. PICK n \in Nat : n = blob.len /\ n > 0
  OBVIOUS
<1>2. Bytes(blob) = [i \in 1 .. n |-> [blob |-> blob, at |-> i]]
  BY <1>1 DEF Bytes
<1>3. Bytes(blob) \in [1 .. n -> [blob : {blob}, at : Nat]]
  BY <1>2
<1>4. Bytes(blob) \in Seq([blob : {blob}, at : Nat]) /\ Len(Bytes(blob)) = n
  BY <1>3, FunctionIsSeq
<1>5. Bytes(blob) # <<>>
  BY <1>1, <1>4, EmptySeq
<1>6. \A i \in 1 .. n : Bytes(blob)[i].blob = blob /\ "blob" \in DOMAIN Bytes(blob)[i]
  BY <1>2
<1>7. DOMAIN Bytes(blob) = 1 .. n
  BY <1>3
<1>8. Bytes(blob)[1].blob = blob /\ 1 \in 1 .. n
  BY <1>1, <1>6
<1> QED
  BY <1>1, <1>4, <1>5, <1>6, <1>7, <1>8 DEF Whole, Value

\* The blob of a message is of the kind the label is named for at which it is read.
BlobKind == [auth |-> "challenge", key |-> "wrapped", name |-> "name", data |-> "token",
             signature |-> "signature", certificate |-> "certificate"]

\* The kind of a blob follows from the type of its message.
LEMMA LetterKind ==
    ASSUME NEW m, Letter(m), m.type \in DOMAIN BlobKind
    PROVE  m.blob.kind = BlobKind[m.type]
  BY DEF Letter, BlobKind, Challenge, rsa_encrypt_block, session_encrypt, sign_message_pss,
         Certificate, Blob

\* The bytes of an integer are digits.
LEMMA DigitsOnly ==
    ASSUME NEW x \in Nat
    PROVE  \A i \in DOMAIN int_to_bytes(x) : "digit" \in DOMAIN int_to_bytes(x)[i]
<1>1. DOMAIN int_to_bytes(x) = 1 .. IntBytes
  BY IntShape
<1> QED
  BY <1>1 DEF int_to_bytes

\* What is read as an integer is one.
LEMMA IntParts ==
    ASSUME NEW m, Letter(m), m.type # "none"
    PROVE  /\ \A i \in DOMAIN Part(m, 2) : "digit" \in DOMAIN Part(m, 2)[i]
           /\ m.type \in DOMAIN Type =>
                /\ \A i \in DOMAIN Part(m, 1) : "digit" \in DOMAIN Part(m, 1)[i]
                /\ bytes_to_int(Part(m, 1)) \in MSG_FILENAME .. MSG_SYMKEY
<1>1. m.blob.len \in Nat /\ Part(m, 2) = int_to_bytes(m.blob.len)
  BY Lengths DEF Part
<1>2. ASSUME m.type \in DOMAIN Type
      PROVE  /\ Part(m, 1) = int_to_bytes(Type[m.type]) /\ Type[m.type] \in Nat
             /\ Type[m.type] \in MSG_FILENAME .. MSG_SYMKEY
             /\ bytes_to_int(Part(m, 1)) = Type[m.type]
  <2>1. Type[m.type] \in {0, 1, 2, 3, 4}
    BY <1>2 DEF Type, MSG_FILENAME, MSG_FILE_DATA, MSG_CLOSE, MSG_AUTH, MSG_SYMKEY
  <2>2. Type[m.type] \in MSG_FILENAME .. MSG_SYMKEY
    BY <2>1 DEF MSG_FILENAME, MSG_SYMKEY
  <2> QED BY <1>2, <2>1, <2>2, Parts DEF Part
<1> QED
  BY <1>1, <1>2, DigitsOnly

\* What is read as a blob is the whole of one.
LEMMA BlobParts ==
    ASSUME NEW m, Letter(m), m.type \in DOMAIN BlobKind, m.blob.len > 0
    PROVE  Whole(Part(m, 3), BlobKind[m.type])
<1>1. m.blob.len \in Nat /\ Part(m, 3) = Bytes(m.blob)
  BY Lengths DEF Part
<1> QED
  BY <1>1, WholeBlob, LetterKind

\* The server is in step.
LEMMA ServerInStep ==
    ASSUME SocketOK, NEW t, ToServer(t), At("server", pc["server"])
    PROVE  /\ pc["server"] \in IntLabels =>
                /\ \A i \in DOMAIN got["server"] : "digit" \in DOMAIN got["server"][i]
                /\ pc["server"] = "type" => bytes_to_int(got["server"]) \in MSG_FILENAME .. MSG_SYMKEY
           /\ pc["server"] \in BlobLabels =>
                Whole(got["server"], Kind(pc["server"])) \/ (pc["server"] = "wrapped" /\ keyless)
<1>0. IntBytes \in Nat \ {0} /\ "server" \in Side
  BY ChannelAssumption DEF Side
<1>1. ServerAt(t[0]) /\ Len(got["server"]) = want["server"] /\ Letter(t[0].m) /\ Tracks(t[0].m)
  <2>1. Len(Stream("server")) \in Nat
    BY <1>0, StreamShape
  <2> QED BY <2>1 DEF ToServer, At, Flow
<1>2. CASE pc["server"] \in IntLabels
  <2>1. /\ want["server"] = IntBytes /\ pc["server"] \notin Range(After)
        /\ pc["server"] \notin BlobLabels /\ ~Lacks(t[0])
    BY <1>1, <1>2 DEF IntLabels, ServerAt, After, LengthLabel, Range, BlobLabels, Lacks
  <2>2. PICK m, part : Handed(ClientTypes, t, "server", m, part) /\ ServerPart(t[0], m, part)
    BY <1>0, <2>1, ServerReads
  <2>3. \/ part = 1 /\ m.type \in DOMAIN Type
        \/ part = 2 /\ pc["server"] # "type"
    BY <2>1, <2>2 DEF ServerPart, LengthLabel, After, Range
  <2>4. got["server"] = Part(m, part) /\ Letter(m) /\ m.type # "none"
    BY <2>2 DEF Handed
  <2> QED BY <2>1, <2>3, <2>4, IntParts
<1>3. CASE pc["server"] \in BlobLabels
  <2>1. /\ pc["server"] \notin IntLabels
        /\ t[0].m.type \in DOMAIN LengthLabel /\ t[0].part = 2
        /\ pc["server"] = After[LengthLabel[t[0].m.type]] /\ want["server"] = t[0].m.blob.len
    BY <1>1, <1>3 DEF IntLabels, ServerAt, After, LengthLabel, Range, BlobLabels
  <2>2. CASE t[0].m.type = "keyless"
    <3>1. keyless
      BY <1>1, <2>2 DEF Tracks
    <3> QED BY <2>1, <2>2, <3>1 DEF LengthLabel, After
  <2>3. CASE t[0].m.type # "keyless"
    <3>1. want["server"] > 0
      <4>1. t[0].m.type \notin {"none", "close", "keyless"} => t[0].m.blob.len > 0
        BY <1>1, Lengths
      <4> QED BY <2>1, <2>3, <4>1 DEF LengthLabel
    <3>2. PICK m, part : Handed(ClientTypes, t, "server", m, part) /\ ServerPart(t[0], m, part)
      BY <2>3, <3>1, ServerReads DEF Lacks
    <3>3. part = 3 /\ m = t[0].m
      BY <2>1, <3>2 DEF ServerPart, LengthLabel, After
    <3>4. got["server"] = Part(m, 3) /\ Letter(m) /\ m.blob.len > 0
      BY <2>1, <3>1, <3>2, <3>3 DEF Handed
    <3>5. m.type \in DOMAIN BlobKind /\ Kind(pc["server"]) = BlobKind[m.type]
      BY <2>1, <2>3, <3>3 DEF BlobKind, LengthLabel, After, Kind
    <3> QED BY <2>1, <3>4, <3>5, BlobParts
  <2> QED BY <2>2, <2>3
<1> QED
  BY <1>2, <1>3

\* The client is in step.
LEMMA ClientInStep ==
    ASSUME SocketOK, NEW u, ToClient(u), At("client", pc["client"])
    PROVE  /\ pc["client"] \in IntLabels =>
                /\ \A i \in DOMAIN got["client"] : "digit" \in DOMAIN got["client"][i]
                /\ pc["client"] # "type"
           /\ pc["client"] \in BlobLabels => Whole(got["client"], Kind(pc["client"]))
<1>0. IntBytes > 0 /\ RsaLen > 0 /\ CertLen > 0 /\ "client" \in Side
  BY ChannelAssumption DEF Side
<1>1. ClientAt(u[0])
  BY DEF ToClient
<1>2. CASE pc["client"] \in IntLabels
  <2>1. want["client"] = IntBytes /\ pc["client"] \in {"sigLen", "certLen"}
    BY <1>1, <1>2 DEF IntLabels, ClientAt, After
  <2>2. PICK m, part : Handed(ServerTypes, u, "client", m, part) /\ ClientPart(u[0], m, part)
    BY <1>0, <2>1, ClientReads
  <2>3. part = 2 /\ got["client"] = Part(m, part) /\ Letter(m) /\ m.type # "none"
    BY <2>1, <2>2 DEF Handed, ClientPart
  <2> QED BY <2>1, <2>3, IntParts DEF BlobLabels, After, Range
<1>3. CASE pc["client"] \in BlobLabels
  <2>1. want["client"] > 0 /\ pc["client"] \in {"signature", "certificate"}
    BY <1>0, <1>1, <1>3 DEF BlobLabels, ClientAt, After, Range
  <2>2. PICK m, part : Handed(ServerTypes, u, "client", m, part) /\ ClientPart(u[0], m, part)
    BY <1>0, <2>1, ClientReads
  <2>3. part = 3 /\ got["client"] = Part(m, part) /\ Letter(m) /\ m.type = pc["client"]
    BY <2>1, <2>2 DEF Handed, ClientPart
  <2>4. m.blob.len > 0 /\ m.type \in DOMAIN BlobKind /\ BlobKind[m.type] = Kind(pc["client"])
    BY <2>1, <2>3, Lengths DEF BlobKind, Kind
  <2> QED BY <2>1, <2>3, <2>4, BlobParts DEF IntLabels, After
<1> QED
  BY <1>2, <1>3

\* Both sides are.
LEMMA BothInStep == ChannelInv => InStep
<1> SUFFICES ASSUME ChannelInv, NEW s \in Side, At(s, pc[s])
             PROVE  /\ pc[s] \in IntLabels =>
                         /\ \A i \in DOMAIN got[s] : "digit" \in DOMAIN got[s][i]
                         /\ pc[s] = "type" => bytes_to_int(got[s]) \in MSG_FILENAME .. MSG_SYMKEY
                    /\ pc[s] \in BlobLabels =>
                         Whole(got[s], Kind(pc[s])) \/ (pc[s] = "wrapped" /\ keyless)
  BY DEF InStep
<1>1. PICK t, u : Streams(t, u)
  BY DEF ChannelInv
<1>2. CASE Gone(s)
  BY <1>2 DEF Gone, IntLabels, BlobLabels, After, Range
<1>3. CASE ~Gone(s) /\ s = "server"
  <2>1. ToServer(t)
    BY <1>1, <1>3 DEF Streams
  <2> QED BY <1>3, <2>1, ServerInStep DEF ChannelInv
<1>4. CASE ~Gone(s) /\ s = "client"
  <2>1. ToClient(u)
    BY <1>1, <1>4 DEF Streams
  <2> QED BY <1>4, <2>1, ClientInStep DEF ChannelInv
<1> QED
  BY <1>2, <1>3, <1>4 DEF Side

-------------------------------------------------------------------------------
(* Going on *)

\* v is t without what s has read.
Forwards(types, t, v, s) ==
    /\ Flow(types, v, Stream(s)') /\ v[0] = t[want[s]]
    /\ v[Len(Stream(s)')] = t[Len(Stream(s))]
    /\ \A i \in 0 .. Len(Stream(s)') : \E j \in 0 .. Len(Stream(s)) : v[i] = t[j]

\* What remains of a stream is again one.
LEMMA Forward ==
    ASSUME SocketOK, NEW s \in Side, NEW types, NEW t, Flow(types, t, Stream(s)),
           Drops(Stream(s), Stream(s)', want[s]), t[want[s]].at = Size(t[want[s]])
    PROVE  \E v : Forwards(types, t, v, s)
<1>1. PICK bs \in Seq(Byte) : bs = Stream(s)
  BY StreamShape
<1>2. PICK cs \in Seq(Byte) : cs = Stream(s)'
  BY DEF Drops
<1>3. PICK k \in 0 .. Len(bs) : k = want[s]
  BY <1>1 DEF Drops
<1>4. Len(cs) = Len(bs) - k /\ \A i \in 1 .. Len(cs) : cs[i] = bs[k + i]
  BY <1>1, <1>2, <1>3 DEF Drops
<1>5. Flow(types, t, bs) /\ t[k].at = Size(t[k]) /\ Drops(bs, cs, k) /\ k \in Nat
  BY <1>1, <1>2, <1>3
<1>6. PICK v : Skips(types, t, k, v, cs)
  BY <1>5, FlowDrops
<1>7. Len(bs) \in Nat /\ Len(cs) \in Nat
  OBVIOUS
<1>8. v[0] = t[k] /\ v[Len(cs)] = t[Len(bs)]
  <2>1. 0 \in 0 .. Len(cs) /\ Len(cs) \in 0 .. Len(cs) /\ k + 0 = k /\ k + Len(cs) = Len(bs)
    BY <1>4, <1>7
  <2> QED BY <1>6, <2>1 DEF Skips
<1>9. \A i \in 0 .. Len(cs) : k + i \in 0 .. Len(bs)
  BY <1>4, <1>7
<1>10. \A i \in 0 .. Len(cs) : \E j \in 0 .. Len(bs) : v[i] = t[j]
  BY <1>6, <1>9 DEF Skips
<1> QED
  BY <1>1, <1>2, <1>3, <1>6, <1>8, <1>10 DEF Forwards, Skips

\* The client leaves behind what it has read.
LEMMA ClientForward ==
    ASSUME SocketOK, NEW u, ToClient(u), At("client", pc["client"]),
           NEW label, NEW bs \in Seq(Byte), NEW n \in Nat, Goto("client", label, bs, n)
    PROVE  \E v : Forwards(ServerTypes, u, v, "client")
<1>1. "client" \in Side /\ out["client"] = <<>> /\ Len(got["client"]) = want["client"]
  BY DEF Side, At
<1>2. Drops(Stream("client"), Stream("client")', want["client"])
  BY <1>1, GotoMoves
<1>3. u[want["client"]].at = Size(u[want["client"]])
  <2>1. CASE want["client"] = 0
    BY <2>1 DEF ToClient, Flow
  <2>2. CASE want["client"] > 0
    BY <2>2, ClientReads DEF Handed
  <2> QED BY <1>1, <2>1, <2>2 DEF SocketOK
<1>4. Flow(ServerTypes, u, Stream("client"))
  BY DEF ToClient
<1> QED
  BY <1>1, <1>2, <1>3, <1>4, Forward

\* The server too.
LEMMA ServerForward ==
    ASSUME SocketOK, NEW t, ToServer(t), At("server", pc["server"]), ~Lacks(t[0]),
           NEW label, NEW bs \in Seq(Byte), NEW n \in Nat, Goto("server", label, bs, n)
    PROVE  \E v : Forwards(ClientTypes, t, v, "server")
<1>1. "server" \in Side /\ out["server"] = <<>> /\ Len(got["server"]) = want["server"]
  BY DEF Side, At
<1>2. Drops(Stream("server"), Stream("server")', want["server"])
  BY <1>1, GotoMoves
<1>3. t[want["server"]].at = Size(t[want["server"]])
  <2>1. CASE want["server"] = 0
    BY <2>1 DEF ToServer, Flow
  <2>2. CASE want["server"] > 0
    BY <2>2, ServerReads DEF Handed
  <2> QED BY <1>1, <2>1, <2>2 DEF SocketOK
<1>4. Flow(ClientTypes, t, Stream("server"))
  BY DEF ToServer
<1> QED
  BY <1>1, <1>2, <1>3, <1>4, Forward

\* What the client does leaves v as what the server may read, in place of t.
Leads(t, v) ==
    /\ ~Gone("server") => ToServer(v)'
    /\ Connected => v[0] = t[0] /\ (ClientSent(v[Len(Stream("server"))]))'

\* A client that sends nothing leaves what the server may read.
LEMMA ClientSilent ==
    ASSUME NEW t, NEW u, Streams(t, u), Stream("server")' = Stream("server"),
           ~Gone("client"), UNCHANGED <<filename, taken, up>>,
           pc'["server"] = pc["server"], want'["server"] = want["server"],
           \A m : Tracks(m) => Tracks(m)', \A a : ClientSent(a) => ClientSent(a)'
    PROVE  Leads(t, t)
<1>1. ASSUME ~Gone("server") PROVE ToServer(t)'
  <2>1. ToServer(t)
    BY <1>1 DEF Streams
  <2>2. ServerAt(t[0])' /\ ServerHas(t[0])'
    BY <2>1 DEF ToServer, ServerAt, ServerHas
  <2> QED BY <2>1, <2>2 DEF ToServer
<1>2. ASSUME Connected PROVE (ClientSent(t[Len(Stream("server"))]))'
  BY <1>2 DEF Streams
<1> QED
  BY <1>1, <1>2 DEF Leads

\* With bs the client has sent the message m, to the end.
Adds(types, t, s, v, bs, m, part) ==
    Continues(types, t, Stream(s), v, Stream(s) \o bs, m, part) /\ Ends(Place(m, part, 0))

\* A client that sends m adds it to what the server may read.
LEMMA ClientTells ==
    ASSUME SocketOK, NEW t, NEW u, Streams(t, u), NEW m, NEW ds,
           ~Gone("client"), UNCHANGED <<filename, taken, up>>,
           Stream("server")' = IF up THEN Stream("server") \o ds ELSE Stream("server"),
           pc'["server"] = pc["server"], want'["server"] = want["server"],
           Connected => \E v, part : Adds(ClientTypes, t, "server", v, ds, m, part),
           \A x : Tracks(x) => Tracks(x)', Tracks(m)',
           \A a : a.m = m /\ Ends(a) /\ a.at = Size(a) => ClientSent(a)'
    PROVE  \E v : Leads(t, v)
<1>1. CASE Gone("server")
  BY <1>1 DEF Leads, Connected
<1>2. CASE ~Gone("server") /\ ~up
  <2>1. ToServer(t)
    BY <1>2 DEF Streams
  <2>2. ServerAt(t[0])' /\ ServerHas(t[0])'
    BY <2>1 DEF ToServer, ServerAt, ServerHas
  <2>3. ToServer(t)'
    BY <1>2, <2>1, <2>2 DEF ToServer
  <2> QED BY <1>2, <2>3 DEF Leads, Connected
<1>3. CASE ~Gone("server") /\ up
  <2>1. Connected
    BY <1>3 DEF Connected
  <2>2. ToServer(t)
    BY <1>3 DEF Streams
  <2>3. PICK bs \in Seq(Byte) : bs = Stream("server")
    BY StreamShape DEF Side
  <2>6. PICK v, part : Adds(ClientTypes, t, "server", v, ds, m, part)
    BY <2>1
  <2>7. PICK cs : cs = bs \o ds /\ cs = Stream("server")'
    BY <1>3, <2>3
  <2>8. Continues(ClientTypes, t, bs, v, cs, m, part) /\ Ends(Place(m, part, 0))
    BY <2>3, <2>6, <2>7 DEF Adds
  <2>9. cs \in Seq(Byte) /\ Len(bs) <= Len(cs) /\ Flow(ClientTypes, v, cs)
    BY <2>8 DEF Continues
  <2>10. Len(bs) \in Nat /\ Len(cs) \in Nat
    BY <2>9
  <2>11. v[0] = t[0]
    BY <2>8, <2>10 DEF Continues
  <2>12. ASSUME NEW i \in 0 .. Len(cs) PROVE Tracks(v[i].m)'
    <3>1. CASE i <= Len(bs)
      <4>1. i \in 0 .. Len(bs) /\ v[i] = t[i]
        BY <2>8, <2>10, <3>1 DEF Continues
      <4>2. Tracks(t[i].m)
        BY <2>2, <2>3, <4>1 DEF ToServer
      <4> QED BY <4>1, <4>2
    <3>2. CASE ~(i <= Len(bs))
      <4>1. i \in Len(bs) + 1 .. Len(cs)
        BY <2>10, <3>2
      <4> QED BY <2>8, <4>1 DEF Continues
    <3> QED BY <3>1, <3>2
  <2>13. ServerAt(v[0])' /\ ServerHas(v[0])'
    BY <2>2, <2>11 DEF ToServer, ServerAt, ServerHas
  <2>14. ToServer(v)'
    BY <2>7, <2>9, <2>12, <2>13 DEF ToServer
  <2>15. ClientSent(v[Len(cs)])'
    <3>1. v[Len(cs)].m = m /\ v[Len(cs)].part = part /\ v[Len(cs)].at = Size(v[Len(cs)])
      BY <2>8 DEF Continues
    <3>2. Ends(v[Len(cs)])
      BY <2>8, <3>1 DEF Ends, Lacks, Place
    <3> QED BY <3>1, <3>2
  <2> QED BY <2>7, <2>11, <2>14, <2>15 DEF Leads
<1> QED
  BY <1>1, <1>2, <1>3

\* A step of the client that does not end it.
LEMMA ClientGoes ==
    ASSUME SocketOK, NEW t, NEW u, Streams(t, u), ~Gone("client"), At("client", pc["client"]),
           NEW label, NEW bs \in Seq(Byte), NEW n \in Nat, Goto("client", label, bs, n),
           NEW b, b = u[want["client"]], ClientAt(b)', NEW v, Leads(t, v)
    PROVE  SocketOK' /\ \E w : Streams(v, w)'
<1>1. "client" \in Side /\ out["client"] = <<>> /\ Len(got["client"]) = want["client"]
  BY DEF Side, At
<1>2. SocketOK'
  BY <1>1, GotoMoves
<1>3. ToClient(u)
  BY DEF Streams
<1>4. PICK w : Forwards(ServerTypes, u, w, "client")
  BY <1>3, ClientForward
<1>5. ToClient(w)'
  BY <1>4 DEF Forwards, ToClient
<1>6. Gone("server")' <=> Gone("server")
  BY DEF Goto, Gone, SocketOK, Side
<1>7. Connected' => Connected
  BY <1>6 DEF Connected, Goto
<1>8. ASSUME Connected' PROVE (ServerSent(v[0], w[Len(Stream("client"))]))'
  <2>1. Connected /\ v[0] = t[0]
    BY <1>7, <1>8 DEF Leads
  <2>2. ServerSent(t[0], u[Len(Stream("client"))])
    BY <2>1 DEF Streams
  <2>3. w[Len(Stream("client")')] = u[Len(Stream("client"))]
    BY <1>4 DEF Forwards
  <2>4. pc'["server"] = pc["server"]
    BY DEF Goto, SocketOK, Side
  <2> QED BY <2>1, <2>2, <2>3, <2>4 DEF ServerSent
<1> QED
  BY <1>2, <1>5, <1>6, <1>7, <1>8 DEF Streams, Leads

-------------------------------------------------------------------------------
(* The client *)

\* The two sides and what is between them.
ChannelOK == SocketOK /\ \E t, u : Streams(t, u)

\* A step of the client that sends nothing.
LEMMA ClientQuiet ==
    ASSUME SocketOK, NEW t, NEW u, Streams(t, u), ~Gone("client"), At("client", pc["client"]),
           NEW label, NEW n \in Nat, Goto("client", label, <<>>, n),
           UNCHANGED <<filename, taken>>,
           \A m : Tracks(m) => Tracks(m)', \A a : ClientSent(a) => ClientSent(a)',
           NEW b, b = u[want["client"]], ClientAt(b)'
    PROVE  ChannelOK'
<1>0. /\ "client" \in Side /\ Peer("client") = "server" /\ out["client"] = <<>>
      /\ Len(got["client"]) = want["client"] /\ <<>> \in Seq(Byte)
  BY EmptySeq DEF Side, Peer, At
<1>1. Stream("server")' = IF up THEN Stream("server") \o <<>> ELSE Stream("server")
  <2>1. Stream(Peer("client"))' = IF up THEN Stream(Peer("client")) \o <<>> ELSE Stream(Peer("client"))
    BY <1>0, GotoMoves
  <2> QED BY <1>0, <2>1 DEF Stream
<1>2. PICK bs \in Seq(Byte) : bs = Stream("server")
  BY StreamShape DEF Side
<1>3. bs \o <<>> = bs
  BY ConcatEmptySeq
<1>4. Stream("server")' = Stream("server")
  BY <1>1, <1>2, <1>3
<1>5. /\ up' = up /\ pc'["server"] = pc["server"] /\ want'["server"] = want["server"]
  BY DEF Goto, SocketOK, Side
<1>6. Leads(t, t)
  BY <1>4, <1>5, ClientSilent
<1>7. SocketOK' /\ \E w : Streams(t, w)'
  BY <1>0, <1>6, ClientGoes
<1> QED
  BY <1>7 DEF ChannelOK

\* A step of the client that sends m, once or more.
LEMMA ClientWrites ==
    ASSUME SocketOK, NEW t, NEW u, Streams(t, u), ~Gone("client"), At("client", pc["client"]),
           NEW m, NEW label, NEW n \in Nat, NEW ds \in Seq(Byte), Goto("client", label, ds, n),
           UNCHANGED <<filename, taken>>,
           Connected => \E v, part : Adds(ClientTypes, t, "server", v, ds, m, part),
           \A x : Tracks(x) => Tracks(x)', Tracks(m)',
           \A a : a.m = m /\ Ends(a) /\ a.at = Size(a) => ClientSent(a)',
           NEW b, b = u[want["client"]], ClientAt(b)'
    PROVE  ChannelOK'
<1>0. /\ "client" \in Side /\ Peer("client") = "server" /\ out["client"] = <<>>
      /\ Len(got["client"]) = want["client"]
  BY DEF Side, Peer, At
<1>1. Stream("server")' = IF up THEN Stream("server") \o ds ELSE Stream("server")
  <2>1. Stream(Peer("client"))' = IF up THEN Stream(Peer("client")) \o ds ELSE Stream(Peer("client"))
    BY <1>0, GotoMoves
  <2> QED BY <1>0, <2>1 DEF Stream
<1>2. /\ up' = up /\ pc'["server"] = pc["server"] /\ want'["server"] = want["server"]
  BY DEF Goto, SocketOK, Side
<1>3. PICK v : Leads(t, v)
  BY <1>1, <1>2, ClientTells
<1>4. SocketOK' /\ \E w : Streams(v, w)'
  BY <1>0, <1>3, ClientGoes
<1> QED
  BY <1>4 DEF ChannelOK

\* A message sent once.
LEMMA OneNote ==
    ASSUME SocketOK, NEW t, NEW u, Streams(t, u), Connected, NEW m, Letter(m),
           m.type \in DOMAIN Type, Succ(t[Len(Stream("server"))].m, m)
    PROVE  \E v, part : Adds(ClientTypes, t, "server", v, Spelled(m), m, part)
<1>1. ToServer(t) /\ ClientSent(t[Len(Stream("server"))])
  BY DEF Streams, Connected
<1>2. PICK bs \in Seq(Byte) : bs = Stream("server")
  BY StreamShape DEF Side
<1>3. Flow(ClientTypes, t, bs) /\ t[Len(bs)].at = Size(t[Len(bs)]) /\ Ends(t[Len(bs)])
  BY <1>1, <1>2 DEF ToServer, ClientSent
<1>4. Succ(t[Len(bs)].m, m) /\ m.type \in ClientTypes
  BY <1>2 DEF ClientTypes
<1>5. PICK v, part : /\ Continues(ClientTypes, t, bs, v, bs \o Spelled(m), m, part)
                     /\ Ends(Place(m, part, 0))
  BY <1>3, <1>4, MessageIsSent
<1>6. Adds(ClientTypes, t, "server", v, Spelled(m), m, part)
  BY <1>2, <1>5 DEF Adds
<1> QED
  BY <1>6

\* A close message sent twice.
LEMMA TwoNotes ==
    ASSUME SocketOK, NEW t, NEW u, Streams(t, u), Connected, NEW m, Letter(m),
           m.type = "close", Succ(t[Len(Stream("server"))].m, m), Spelled(m) \in Seq(Byte)
    PROVE  \E v, part : Adds(ClientTypes, t, "server", v, Spelled(m) \o Spelled(m), m, part)
<1>1. m.type \in DOMAIN Type /\ m.type \in ClientTypes
  BY DEF Type, ClientTypes
<1>2. PICK v, part : Adds(ClientTypes, t, "server", v, Spelled(m), m, part)
  BY <1>1, OneNote
<1>3. PICK bs \in Seq(Byte) : bs = Stream("server")
  BY StreamShape DEF Side
<1>4. PICK e \in Seq(Byte) : e = Spelled(m)
  OBVIOUS
<1>5. PICK cs \in Seq(Byte) : cs = bs \o e
  BY ConcatProperties
<1>6. Continues(ClientTypes, t, bs, v, cs, m, part) /\ Ends(Place(m, part, 0))
  BY <1>2, <1>3, <1>4, <1>5 DEF Adds
<1>7. /\ Flow(ClientTypes, v, cs) /\ v[Len(cs)].m = m /\ v[Len(cs)].part = part
      /\ v[Len(cs)].at = Size(v[Len(cs)])
  BY <1>6 DEF Continues
<1>8. Ends(v[Len(cs)]) /\ Succ(v[Len(cs)].m, m)
  BY <1>7 DEF Ends, Succ
<1>9. PICK w, last : /\ Continues(ClientTypes, v, cs, w, cs \o Spelled(m), m, last)
                     /\ Ends(Place(m, last, 0))
  BY <1>1, <1>7, <1>8, MessageIsSent
<1>10. PICK ds \in Seq(Byte) : ds = cs \o e
  BY ConcatProperties
<1>11. Continues(ClientTypes, v, cs, w, ds, m, last)
  BY <1>4, <1>9, <1>10
<1>12. Continues(ClientTypes, t, bs, w, ds, m, last)
  <2>1. Len(bs) \in Nat /\ Len(cs) \in Nat /\ Len(ds) \in Nat /\ Len(bs) <= Len(cs) /\ Len(cs) <= Len(ds)
    BY <1>6, <1>11 DEF Continues
  <2>2. \A i \in 0 .. Len(bs) : w[i] = t[i]
    <3> TAKE i \in 0 .. Len(bs)
    <3>1. i \in 0 .. Len(cs)
      BY <2>1
    <3> QED BY <1>6, <1>11, <3>1 DEF Continues
  <2>3. \A i \in Len(bs) + 1 .. Len(ds) : w[i].m = m
    <3> TAKE i \in Len(bs) + 1 .. Len(ds)
    <3>1. CASE i <= Len(cs)
      <4>1. i \in 0 .. Len(cs) /\ i \in Len(bs) + 1 .. Len(cs)
        BY <2>1, <3>1
      <4>2. w[i] = v[i] /\ v[i].m = m
        BY <1>6, <1>11, <4>1 DEF Continues
      <4> QED BY <4>2
    <3>2. CASE ~(i <= Len(cs))
      <4>1. i \in Len(cs) + 1 .. Len(ds)
        BY <2>1, <3>2
      <4> QED BY <1>11, <4>1 DEF Continues
    <3> QED BY <3>1, <3>2
  <2> QED BY <1>11, <2>1, <2>2, <2>3 DEF Continues
<1>13. ds = Stream("server") \o (Spelled(m) \o Spelled(m))
  <2>1. (bs \o e) \o e = bs \o (e \o e)
    BY Regroup, Zenon
  <2> QED BY <1>3, <1>4, <1>5, <1>10, <2>1
<1>14. Adds(ClientTypes, t, "server", w, Spelled(m) \o Spelled(m), m, last)
  BY <1>3, <1>9, <1>12, <1>13 DEF Adds
<1> QED
  BY <1>14

\* A message is spelled in its parts.
LEMMA SpelledSeq ==
    ASSUME NEW m, Letter(m), m.type # "none"
    PROVE  Spelled(m) \in Seq(Byte)
<1>1. Part(m, 2) \in Seq(Byte) /\ Part(m, 3) \in Seq(Byte)
  BY Parts
<1>2. CASE First(m) = 2
  <2>1. m.type # "keyless"
    BY <1>2 DEF First
  <2> QED BY <1>1, <1>2, <2>1, ConcatProperties DEF Spelled, First
<1>3. CASE First(m) # 2
  <2>1. m.type \in DOMAIN Type
    BY <1>3 DEF First, Letter, Type
  <2>2. PICK a \in Seq(Byte), b \in Seq(Byte), c \in Seq(Byte) :
          a = Part(m, 1) /\ b = Part(m, 2) /\ c = Part(m, 3)
    BY <1>1, <2>1, Parts
  <2>3. PICK d \in Seq(Byte) : d = a \o b
    BY ConcatProperties
  <2>4. d \o c \in Seq(Byte)
    BY ConcatProperties
  <2> QED BY <1>3, <2>2, <2>3, <2>4 DEF Spelled
<1> QED
  BY <1>2, <1>3

\* A message of the client.
Note(m, type, blob, files, name) ==
    /\ m.type = type /\ m.blob = blob /\ m.files = files /\ m.name = name
    /\ Spelled(m) = IF type = "close" THEN int_to_bytes(MSG_CLOSE)
                    ELSE IF type = "keyless" THEN int_to_bytes(MSG_SYMKEY) \o int_to_bytes(blob.len)
                    ELSE Message(Type[type], blob)

\* There is such a message.
LEMMA NoteIsSent ==
    ASSUME NEW type \in DOMAIN Type, NEW blob, NEW files, NEW name
    PROVE  \E m : Note(m, type, blob, files, name)
<1> DEFINE m == [type |-> type, blob |-> blob, files |-> files, name |-> name]
<1>1. m.type = type /\ m.blob = blob /\ m.files = files /\ m.name = name
  OBVIOUS
<1> HIDE DEF m
<1>2. /\ First(m) = 1 /\ Part(m, 1) = int_to_bytes(Type[type])
      /\ Part(m, 2) = int_to_bytes(blob.len) /\ Part(m, 3) = Bytes(blob)
  BY <1>1 DEF First, Part, Type
<1>3. type \notin {"close", "keyless"} => Spelled(m) = Message(Type[type], blob)
  BY <1>1, <1>2 DEF Spelled, Message
<1>4. type = "close" => Spelled(m) = int_to_bytes(MSG_CLOSE)
  BY <1>1, <1>2 DEF Spelled, Type
<1>5. type = "keyless" => Spelled(m) = int_to_bytes(MSG_SYMKEY) \o int_to_bytes(blob.len)
  BY <1>1, <1>2 DEF Spelled, Type
<1>6. Note(m, type, blob, files, name)
  BY <1>1, <1>3, <1>4, <1>5 DEF Note
<1> QED
  BY <1>6

\* The challenge.
LEMMA SendChallengeStep ==
    ASSUME SocketOK, FilesOK, NEW t, NEW u, Streams(t, u), SendChallenge
    PROVE  ChannelOK'
<1>1. /\ At("client", "auth") /\ UNCHANGED <<filename, taken, offered, chosen, keyless>>
      /\ pc["client"] = "auth" /\ ~Gone("client") /\ At("client", pc["client"])
  BY DEF SendChallenge, At, Gone, server, client
<1>2. CASE End("client", "failed")
  BY <1>1, <1>2, Leaves DEF ChannelOK, Side, Ended
<1>3. CASE Goto("client", "sigLen", Message(MSG_AUTH, Challenge), IntBytes)
  <2>1. PICK m : /\ m.type = "auth" /\ m.blob = Challenge /\ m.files = Len(offered)
                 /\ m.name = t[Len(Stream("server"))].m.name
                 /\ Spelled(m) = Message(MSG_AUTH, Challenge)
    <3>1. "auth" \in DOMAIN Type /\ Type["auth"] = MSG_AUTH
      BY DEF Type
    <3>2. PICK m : Note(m, "auth", Challenge, Len(offered), t[Len(Stream("server"))].m.name)
      BY <3>1, NoteIsSent
    <3> QED BY <3>1, <3>2 DEF Note
  <2>2. Letter(m) /\ m.type \in DOMAIN Type /\ m.type # "none"
    BY <2>1 DEF Letter, Type, FilesOK
  <2>3. pc'["client"] = "sigLen" /\ want'["client"] = IntBytes /\ IntBytes \in Nat
    BY <1>3, ChannelAssumption DEF Goto, SocketOK, Side
  <2>4. Spelled(m) \in Seq(Byte)
    BY <2>2, SpelledSeq
  <2>5. Connected => Succ(t[Len(Stream("server"))].m, m)
    <3> SUFFICES ASSUME Connected PROVE Succ(t[Len(Stream("server"))].m, m)
      OBVIOUS
    <3>1. ClientSent(t[Len(Stream("server"))])
      BY DEF Streams
    <3>2. PICK a : a = t[Len(Stream("server"))]
      OBVIOUS
    <3>3. ClientSent(a)
      BY <3>1, <3>2
    <3>4. a.m.type = "none" /\ a.m.files = Len(offered) /\ m.name = a.m.name
      BY <1>1, <2>1, <3>2, <3>3 DEF ClientSent
    <3> QED BY <2>1, <3>2, <3>4 DEF Succ
  <2>6. \A x : Tracks(x) => Tracks(x)'
    BY <1>1 DEF Tracks
  <2>9. Tracks(m)'
    <3>1. Len(offered) \in Nat /\ offered' = offered
      BY <1>1 DEF FilesOK
    <3> QED BY <2>1, <3>1 DEF Tracks
  <2>7. \A a : a.m = m /\ Ends(a) /\ a.at = Size(a) => ClientSent(a)'
    BY <1>1, <2>1, <2>3 DEF ClientSent
  <2>8. PICK b : b = u[want["client"]]
    OBVIOUS
  <2>10. ClientAt(b)'
    <3>1. ToClient(u)
      BY <1>1 DEF Streams
    <3>2. ClientAt(u[0]) /\ want["client"] = 0
      BY <1>1, <3>1 DEF ToClient, ClientAt
    <3> QED BY <1>1, <2>3, <2>8, <3>2 DEF ClientAt
  <2>11. Goto("client", "sigLen", Spelled(m), IntBytes) /\ UNCHANGED <<filename, taken>>
    BY <1>1, <1>3, <2>1
  <2>12. Connected => \E v, part : Adds(ClientTypes, t, "server", v, Spelled(m), m, part)
    BY <2>2, <2>5, OneNote
  <2> QED BY <1>1, <2>2, <2>3, <2>4, <2>5, <2>6, <2>7, <2>8, <2>9, <2>10, <2>11, <2>12, ClientWrites
<1> QED
  BY <1>2, <1>3 DEF SendChallenge

\* A step of the client to the prompt, or to the file it has named.
LEMMA ClientSays ==
    ASSUME SocketOK, NEW t, NEW u, Streams(t, u), ~Gone("client"), At("client", pc["client"]),
           NEW m, Letter(m), m.type \in DOMAIN Type, NEW label \in {"prompt", "open"},
           Goto("client", label, Spelled(m), 0), UNCHANGED <<filename, taken>>,
           Connected => Succ(t[Len(Stream("server"))].m, m),
           \A x : Tracks(x) => Tracks(x)', Tracks(m)', m.files = Len(offered'),
           label = "prompt" => m.type \in {"key", "keyless", "name", "data"},
           label = "open" => m.type = "name" /\ m.name = chosen'
    PROVE  ChannelOK'
<1>1. m.type # "none" /\ 0 \in Nat /\ pc'["client"] = label /\ want'["client"] = 0
  BY DEF Type, Goto, SocketOK, Side
<1>2. Spelled(m) \in Seq(Byte)
  BY <1>1, SpelledSeq
<1>3. Connected => \E v, part : Adds(ClientTypes, t, "server", v, Spelled(m), m, part)
  BY OneNote
<1>4. \A a : a.m = m /\ Ends(a) /\ a.at = Size(a) => ClientSent(a)'
  BY <1>1 DEF ClientSent
<1>5. PICK b : b = u[want["client"]]
  OBVIOUS
<1>6. ClientAt(b)'
  BY <1>1 DEF ClientAt
<1> QED
  BY <1>1, <1>2, <1>3, <1>4, <1>5, <1>6, ClientWrites

\* The session key.
LEMMA SendKeyStep ==
    ASSUME SocketOK, FilesOK, NEW t, NEW u, Streams(t, u), SendKey
    PROVE  ChannelOK'
<1>1. /\ At("client", "symkey") /\ UNCHANGED <<filename, taken, offered, chosen>>
      /\ pc["client"] = "symkey" /\ ~Gone("client") /\ At("client", pc["client"])
      /\ keyless' = keyless \/ keyless' = TRUE
  BY DEF SendKey, At, Gone, server
<1>2. CASE End("client", "failed") /\ UNCHANGED keyless
  BY <1>1, <1>2, Leaves DEF ChannelOK, Side, Ended
<1>3. ASSUME NEW m, Letter(m), m.type \in {"key", "keyless"}, m.type = "keyless" => keyless',
             m.files = Len(offered), m.name = t[Len(Stream("server"))].m.name,
             Goto("client", "prompt", Spelled(m), 0)
      PROVE  ChannelOK'
  <2>1. m.type \in DOMAIN Type
    BY <1>3 DEF Type
  <2>2. pc'["client"] = "prompt"
    BY <1>3 DEF Goto, SocketOK, Side
  <2>3. Connected => Succ(t[Len(Stream("server"))].m, m)
    <3> SUFFICES ASSUME Connected PROVE Succ(t[Len(Stream("server"))].m, m)
      OBVIOUS
    <3>1. PICK a : a = t[Len(Stream("server"))] /\ ClientSent(a)
      BY DEF Streams
    <3>2. a.m.type = "auth" /\ a.m.files = Len(offered) /\ m.name = a.m.name
      BY <1>1, <1>3, <3>1 DEF ClientSent
    <3> QED BY <1>3, <3>1, <3>2 DEF Succ
  <2>4. \A x : Tracks(x) => Tracks(x)'
    BY <1>1 DEF Tracks
  <2>5. Tracks(m)' /\ m.files = Len(offered')
    <3>1. Len(offered) \in Nat /\ offered' = offered
      BY <1>1 DEF FilesOK
    <3> QED BY <1>3, <3>1 DEF Tracks
  <2>6. UNCHANGED <<filename, taken>>
    BY <1>1
  <2> QED BY <1>1, <1>3, <2>1, <2>3, <2>4, <2>5, <2>6, ClientSays
<1>4. CASE Goto("client", "prompt", Message(MSG_SYMKEY, rsa_encrypt_block(SessionKey)), 0)
  <2>1. "key" \in DOMAIN Type /\ Type["key"] = MSG_SYMKEY
    BY DEF Type
  <2>2. PICK m : Note(m, "key", rsa_encrypt_block(SessionKey), Len(offered),
                      t[Len(Stream("server"))].m.name)
    BY <2>1, NoteIsSent
  <2>3. Letter(m) /\ m.type = "key"
    BY <2>2 DEF Letter, Note, FilesOK
  <2>4. m.files = Len(offered) /\ m.name = t[Len(Stream("server"))].m.name
    BY <2>2 DEF Note
  <2>5. Goto("client", "prompt", Spelled(m), 0)
    BY <1>4, <2>1, <2>2 DEF Note
  <2> QED BY <1>3, <2>3, <2>4, <2>5
<1>5. ASSUME NEW len \in {0, RsaLen}, keyless',
             Goto("client", "prompt", int_to_bytes(MSG_SYMKEY) \o int_to_bytes(len), 0)
      PROVE  ChannelOK'
  <2>1. PICK blob : blob = Blob("wrapped", SessionKey, len) /\ blob.len = len
    <3>1. Blob("wrapped", SessionKey, len).len = len
      BY DEF Blob
    <3> QED BY <3>1
  <2>2. PICK m : Note(m, "keyless", blob, Len(offered), t[Len(Stream("server"))].m.name)
    <3>1. "keyless" \in DOMAIN Type
      BY DEF Type
    <3> QED BY <3>1, NoteIsSent
  <2>3. Letter(m) /\ m.type = "keyless"
    BY <1>5, <2>1, <2>2 DEF Letter, Note, FilesOK, rsa_encrypt_block
  <2>4. m.files = Len(offered) /\ m.name = t[Len(Stream("server"))].m.name
    BY <2>2 DEF Note
  <2>5. Goto("client", "prompt", Spelled(m), 0)
    BY <1>5, <2>1, <2>2 DEF Note
  <2> QED BY <1>3, <1>5, <2>3, <2>4, <2>5
<1> QED
  BY <1>2, <1>4, <1>5 DEF SendKey

\* The name of a file.
LEMMA SendNameStep ==
    ASSUME SocketOK, FilesOK, NEW t, NEW u, Streams(t, u), SendName
    PROVE  ChannelOK' /\ FilesOK'
<1>1. /\ At("client", "prompt") /\ UNCHANGED <<filename, taken, offered, keyless>>
      /\ pc["client"] = "prompt" /\ ~Gone("client") /\ At("client", pc["client"])
  BY DEF SendName, At, Gone, server
<1>2. PICK p \in Path :
        Goto("client", "open", Message(MSG_FILENAME, Blob("name", p, NameLen)), 0) /\ chosen' = p
  BY DEF SendName
<1>3. FilesOK'
  BY <1>1, <1>2 DEF FilesOK
<1>4. PICK m : /\ m.type = "name" /\ m.blob = Blob("name", p, NameLen) /\ m.files = Len(offered)
               /\ m.name = p /\ Spelled(m) = Message(MSG_FILENAME, Blob("name", p, NameLen))
  <2>1. "name" \in DOMAIN Type /\ Type["name"] = MSG_FILENAME
    BY DEF Type
  <2>2. PICK m : Note(m, "name", Blob("name", p, NameLen), Len(offered), p)
    BY <2>1, NoteIsSent
  <2> QED BY <2>1, <2>2 DEF Note
<1>5. Letter(m) /\ m.type \in DOMAIN Type
  BY <1>4 DEF Letter, Type, FilesOK
<1>6. pc'["client"] = "open"
  BY <1>2 DEF Goto, SocketOK, Side
<1>7. Connected => Succ(t[Len(Stream("server"))].m, m)
  <2> SUFFICES ASSUME Connected PROVE Succ(t[Len(Stream("server"))].m, m)
    OBVIOUS
  <2>1. PICK a : a = t[Len(Stream("server"))] /\ ClientSent(a)
    BY DEF Streams
  <2>2. a.m.type \in {"key", "keyless", "name", "data"} /\ a.m.files = Len(offered)
    BY <1>1, <2>1 DEF ClientSent
  <2> QED BY <1>4, <2>1, <2>2 DEF Succ
<1>8. \A x : Tracks(x) => Tracks(x)'
  BY <1>1 DEF Tracks
<1>9. Tracks(m)' /\ m.files = Len(offered')
  <2>1. Len(offered) \in Nat /\ offered' = offered
    BY <1>1 DEF FilesOK
  <2> QED BY <1>4, <2>1 DEF Tracks
<1>10. Goto("client", "open", Spelled(m), 0) /\ UNCHANGED <<filename, taken>>
  BY <1>1, <1>2, <1>4
<1>11. ChannelOK'
  BY <1>1, <1>2, <1>4, <1>5, <1>7, <1>8, <1>9, <1>10, ClientSays
<1> QED
  BY <1>3, <1>11

\* What is true of the files offered stays true.
LEMMA TracksMore ==
    ASSUME offered \in Seq(Path), NEW p \in Path, offered' = Append(offered, p),
           pc["client"] = "open", keyless' = keyless, NEW x, Tracks(x)
    PROVE  Tracks(x)'
<1>1. /\ Len(offered) \in Nat /\ Len(offered') = Len(offered) + 1
      /\ \A i \in 1 .. Len(offered) : offered'[i] = offered[i]
  BY AppendProperties
<1>2. x.files \in 0 .. Len(offered) /\ x.type # "close"
  BY DEF Tracks
<1>3. x.type = "data" => x.files \in 1 .. Len(offered) /\ offered[x.files] = x.name
  BY <1>1, <1>2 DEF Tracks
<1> QED
  BY <1>1, <1>2, <1>3 DEF Tracks

\* The data of a file.
LEMMA SendFileStep ==
    ASSUME SocketOK, FilesOK, NEW t, NEW u, Streams(t, u), SendFile
    PROVE  ChannelOK' /\ FilesOK'
<1>1. /\ At("client", "open") /\ UNCHANGED <<filename, taken, chosen, keyless>>
      /\ pc["client"] = "open" /\ ~Gone("client") /\ At("client", pc["client"])
      /\ chosen \in Path /\ offered \in Seq(Path) /\ taken \in Nat
  BY DEF SendFile, At, Gone, server, FilesOK
<1>2. CASE /\ Goto("client", "prompt", Message(MSG_FILE_DATA, session_encrypt(SessionKey, chosen)), 0)
           /\ offered' = Append(offered, chosen)
  <2>1. /\ offered' \in Seq(Path) /\ Len(offered) \in Nat /\ Len(offered') = Len(offered) + 1
        /\ offered'[Len(offered) + 1] = chosen
    BY <1>1, <1>2, AppendProperties
  <2>2. pc'["client"] = "prompt"
    BY <1>2 DEF Goto, SocketOK, Side
  <2>3. FilesOK'
    BY <1>1, <2>1, <2>2 DEF FilesOK
  <2>4. PICK p \in Path : p = chosen
    BY <1>1
  <2>5. PICK m : /\ m.type = "data" /\ m.blob = session_encrypt(SessionKey, p)
                 /\ m.files = Len(offered) + 1
                 /\ m.name = p /\ Spelled(m) = Message(MSG_FILE_DATA, session_encrypt(SessionKey, p))
    <3>1. "data" \in DOMAIN Type /\ Type["data"] = MSG_FILE_DATA
      BY DEF Type
    <3>2. PICK m : Note(m, "data", session_encrypt(SessionKey, p), Len(offered) + 1, p)
      BY <3>1, NoteIsSent
    <3> QED BY <3>1, <3>2 DEF Note
  <2>6. Letter(m) /\ m.type \in DOMAIN Type
    BY <2>1, <2>5 DEF Letter, Type
  <2>7. Connected => Succ(t[Len(Stream("server"))].m, m)
    <3> SUFFICES ASSUME Connected PROVE Succ(t[Len(Stream("server"))].m, m)
      OBVIOUS
    <3>1. PICK a : a = t[Len(Stream("server"))] /\ ClientSent(a)
      BY DEF Streams
    <3>2. a.m.type = "name" /\ a.m.files = Len(offered) /\ a.m.name = p
      BY <1>1, <2>4, <3>1 DEF ClientSent
    <3> QED BY <2>5, <3>1, <3>2 DEF Succ
  <2>8. \A x : Tracks(x) => Tracks(x)'
    BY <1>1, <1>2, TracksMore
  <2>9. Tracks(m)' /\ m.files = Len(offered')
    BY <2>1, <2>4, <2>5 DEF Tracks
  <2>10. Goto("client", "prompt", Spelled(m), 0) /\ UNCHANGED <<filename, taken>>
    BY <1>1, <1>2, <2>4, <2>5
  <2>11. ChannelOK'
    BY <1>1, <2>5, <2>6, <2>7, <2>8, <2>9, <2>10, ClientSays
  <2> QED BY <2>3, <2>11
<1>3. CASE Goto("client", "prompt", <<>>, 0) /\ UNCHANGED offered
  <2>1. pc'["client"] = "prompt" /\ want'["client"] = 0 /\ 0 \in Nat
    BY <1>3 DEF Goto, SocketOK, Side
  <2>2. FilesOK'
    BY <1>1, <1>3, <2>1 DEF FilesOK
  <2>3. \A m : Tracks(m) => Tracks(m)'
    BY <1>1, <1>3 DEF Tracks
  <2>4. \A a : ClientSent(a) => ClientSent(a)'
    BY <1>1, <1>3, <2>1 DEF ClientSent
  <2>5. PICK b : b = u[want["client"]]
    OBVIOUS
  <2>6. ClientAt(b)'
    BY <2>1 DEF ClientAt
  <2>7. ChannelOK'
    BY <1>1, <1>3, <2>1, <2>3, <2>4, <2>5, <2>6, ClientQuiet
  <2> QED BY <2>2, <2>7
<1> QED
  BY <1>2, <1>3 DEF SendFile, SendData

\* The goodbye.
LEMMA QuitStep ==
    ASSUME SocketOK, FilesOK, NEW t, NEW u, Streams(t, u), Quit
    PROVE  ChannelOK'
<1>1. /\ At("client", "prompt") /\ UNCHANGED <<filename, taken, offered, chosen, keyless>>
      /\ pc["client"] = "prompt" /\ ~Gone("client") /\ At("client", pc["client"])
      /\ Len(offered) \in Nat
  BY DEF Quit, At, Gone, server, client, FilesOK
<1>2. PICK m : /\ m.type = "close" /\ m.blob = NoBlob /\ m.files = Len(offered)
               /\ m.name = t[Len(Stream("server"))].m.name /\ Spelled(m) = int_to_bytes(MSG_CLOSE)
  <2>1. "close" \in DOMAIN Type
    BY DEF Type
  <2>2. PICK m : Note(m, "close", NoBlob, Len(offered), t[Len(Stream("server"))].m.name)
    BY <2>1, NoteIsSent
  <2> QED BY <2>2 DEF Note
<1>3. Letter(m) /\ m.type \in DOMAIN Type /\ m.type # "none"
  BY <1>1, <1>2 DEF Letter, Type
<1>4. PICK e \in Seq(Byte) : e = Spelled(m)
  BY <1>3, SpelledSeq
<1>5. PICK ds : /\ ds \in {e, e \o e} /\ Goto("client", "closing", ds, 0)
  <2>1. PICK again \in {<<>>, e} : Goto("client", "closing", e \o again, 0)
    BY <1>2, <1>4 DEF Quit
  <2>2. e \o <<>> = e
    BY ConcatEmptySeq
  <2> QED BY <2>1, <2>2
<1>6. pc'["client"] = "closing" /\ want'["client"] = 0 /\ 0 \in Nat
  BY <1>5 DEF Goto, SocketOK, Side
<1>7. ds \in Seq(Byte)
  BY <1>5, ConcatProperties
<1>8. Connected => Succ(t[Len(Stream("server"))].m, m)
  <2> SUFFICES ASSUME Connected PROVE Succ(t[Len(Stream("server"))].m, m)
    OBVIOUS
  <2>1. PICK a : a = t[Len(Stream("server"))] /\ ClientSent(a)
    BY DEF Streams
  <2>2. a.m.type \in {"key", "keyless", "name", "data"} /\ a.m.files = Len(offered) /\ m.name = a.m.name
    BY <1>1, <1>2, <2>1 DEF ClientSent
  <2> QED BY <1>2, <2>1, <2>2 DEF Succ
<1>9. Connected => \E v, part : Adds(ClientTypes, t, "server", v, ds, m, part)
  <2>1. ASSUME Connected PROVE \E v, part : Adds(ClientTypes, t, "server", v, e, m, part)
    BY <1>3, <1>4, <1>8, <2>1, OneNote
  <2>2. ASSUME Connected PROVE \E v, part : Adds(ClientTypes, t, "server", v, e \o e, m, part)
    BY <1>2, <1>3, <1>4, <1>8, <2>2, TwoNotes
  <2> QED BY <1>5, <2>1, <2>2
<1>10. \A x : Tracks(x) => Tracks(x)'
  BY <1>1, <1>6 DEF Tracks
<1>11. Tracks(m)'
  BY <1>1, <1>2, <1>6 DEF Tracks
<1>12. \A a : a.m = m /\ Ends(a) /\ a.at = Size(a) => ClientSent(a)'
  BY <1>1, <1>2, <1>6 DEF ClientSent
<1>13. PICK b : b = u[want["client"]]
  OBVIOUS
<1>14. ClientAt(b)'
  BY <1>6 DEF ClientAt
<1>15. UNCHANGED <<filename, taken>>
  BY <1>1
<1> QED
  BY <1>1, <1>5, <1>6, <1>7, <1>9, <1>10, <1>11, <1>12, <1>13, <1>14, <1>15, ClientWrites

\* A step of the client while it reads the server's answers.
LEMMA ClientListens ==
    ASSUME SocketOK, NEW t, NEW u, Streams(t, u), At("client", pc["client"]),
           pc["client"] \in {"sigLen", "signature", "certLen", "certificate"},
           NEW label \in {"signature", "certLen", "certificate", "symkey"}, NEW n \in Nat,
           Goto("client", label, <<>>, n), UNCHANGED <<filename, taken, offered, keyless>>,
           NEW b, b = u[want["client"]], ClientAt(b)'
    PROVE  ChannelOK'
<1>1. pc'["client"] = label /\ ~Gone("client")
  BY DEF Goto, SocketOK, Side, Gone
<1>2. \A m : Tracks(m) => Tracks(m)'
  BY DEF Tracks
<1>3. \A a : ClientSent(a) => ClientSent(a)'
  BY <1>1 DEF ClientSent
<1>4. UNCHANGED <<filename, taken>>
  OBVIOUS
<1> QED
  BY <1>1, <1>2, <1>3, <1>4, ClientQuiet

\* The length of the signature, and the signature.
LEMMA ReadSignatureStep ==
    ASSUME SocketOK, NEW t, NEW u, Streams(t, u), ReadSignature
    PROVE  ChannelOK'
<1>0. IntBytes \in Nat \ {0} /\ RsaLen \in Nat \ {0} /\ UNCHANGED <<filename, taken, offered, keyless>>
  BY ChannelAssumption DEF ReadSignature, server
<1>1. CASE At("client", "sigLen") /\ Goto("client", "signature", <<>>, bytes_to_int(got["client"]))
  <2>1. pc["client"] = "sigLen" /\ ~Gone("client") /\ At("client", pc["client"])
    BY <1>1 DEF At, Gone
  <2>2. ToClient(u)
    BY <2>1 DEF Streams
  <2>3. want["client"] > 0
    BY <1>0, <2>1, <2>2 DEF ToClient, ClientAt
  <2>4. PICK m, part : Handed(ServerTypes, u, "client", m, part) /\ ClientPart(u[0], m, part)
    BY <2>1, <2>2, <2>3, ClientReads
  <2>5. m.type = "signature" /\ part = 2 /\ Letter(m)
    BY <2>1, <2>4 DEF ClientPart, Handed
  <2>6. m.blob.len = RsaLen
    BY <2>5 DEF Letter, sign_message_pss, Blob
  <2>7. bytes_to_int(got["client"]) = RsaLen
    BY <2>4, <2>5, <2>6, Parts DEF Handed
  <2>8. PICK b : b = u[want["client"]]
    OBVIOUS
  <2>9. b.m = m /\ b.part = 2
    BY <2>4, <2>5, <2>8 DEF Handed
  <2>10. pc'["client"] = "signature" /\ want'["client"] = RsaLen
    BY <1>1, <2>7 DEF Goto, SocketOK, Side
  <2>11. ClientAt(b)'
    BY <2>5, <2>9, <2>10 DEF ClientAt
  <2>12. Goto("client", "signature", <<>>, RsaLen)
    BY <1>1, <2>7
  <2> QED BY <1>0, <2>1, <2>8, <2>11, <2>12, ClientListens
<1>2. CASE At("client", "signature") /\ Goto("client", "certLen", <<>>, IntBytes)
  <2>1. pc["client"] = "signature" /\ ~Gone("client") /\ At("client", pc["client"])
    BY <1>2 DEF At, Gone
  <2>2. ToClient(u)
    BY <2>1 DEF Streams
  <2>3. want["client"] > 0
    BY <1>0, <2>1, <2>2 DEF ToClient, ClientAt
  <2>4. PICK m, part : Handed(ServerTypes, u, "client", m, part) /\ ClientPart(u[0], m, part)
    BY <2>1, <2>2, <2>3, ClientReads
  <2>5. m.type = "signature" /\ part = 3
    BY <2>1, <2>4 DEF ClientPart
  <2>6. PICK b : b = u[want["client"]]
    OBVIOUS
  <2>7. b.m = m /\ b.part = 3
    BY <2>4, <2>5, <2>6 DEF Handed
  <2>8. pc'["client"] = "certLen" /\ want'["client"] = IntBytes
    BY <1>2 DEF Goto, SocketOK, Side
  <2>9. ClientAt(b)'
    BY <2>5, <2>7, <2>8 DEF ClientAt
  <2> QED BY <1>0, <1>2, <2>1, <2>6, <2>9, ClientListens
<1> QED
  BY <1>1, <1>2 DEF ReadSignature

\* The length of the certificate.
LEMMA ReadCertificateStep ==
    ASSUME SocketOK, NEW t, NEW u, Streams(t, u), ReadCertificate
    PROVE  ChannelOK'
<1>0. /\ IntBytes \in Nat \ {0} /\ CertLen \in Nat \ {0} /\ UNCHANGED <<filename, taken, offered, keyless>>
      /\ Goto("client", "certificate", <<>>, bytes_to_int(got["client"]))
  BY ChannelAssumption DEF ReadCertificate, server, client
<1>1. pc["client"] = "certLen" /\ ~Gone("client") /\ At("client", pc["client"])
  BY DEF ReadCertificate, At, Gone
<1>2. ToClient(u)
  BY <1>1 DEF Streams
<1>3. want["client"] > 0
  BY <1>0, <1>1, <1>2 DEF ToClient, ClientAt
<1>4. PICK m, part : Handed(ServerTypes, u, "client", m, part) /\ ClientPart(u[0], m, part)
  BY <1>1, <1>2, <1>3, ClientReads
<1>5. m.type = "certificate" /\ part = 2 /\ Letter(m)
  BY <1>1, <1>4 DEF ClientPart, Handed
<1>6. m.blob.len = CertLen
  BY <1>5 DEF Letter, Certificate, Blob
<1>7. bytes_to_int(got["client"]) = CertLen
  BY <1>4, <1>5, <1>6, Parts DEF Handed
<1>8. PICK b : b = u[want["client"]]
  OBVIOUS
<1>9. b.m = m /\ b.part = 2
  BY <1>4, <1>5, <1>8 DEF Handed
<1>10. pc'["client"] = "certificate" /\ want'["client"] = CertLen
  BY <1>0, <1>7 DEF Goto, SocketOK, Side
<1>11. ClientAt(b)'
  BY <1>5, <1>9, <1>10 DEF ClientAt
<1>12. Goto("client", "certificate", <<>>, CertLen)
  BY <1>0, <1>7
<1> QED
  BY <1>0, <1>1, <1>8, <1>11, <1>12, ClientListens

\* The certificate.
LEMMA VerifyServerStep ==
    ASSUME SocketOK, NEW t, NEW u, Streams(t, u), VerifyServer
    PROVE  ChannelOK'
<1>1. /\ pc["client"] = "certificate" /\ At("client", pc["client"])
      /\ UNCHANGED <<filename, taken, offered, keyless>>
  BY DEF VerifyServer, At, server, client
<1>2. CASE End("client", "failed")
  BY <1>1, <1>2, Leaves DEF ChannelOK, Side, Ended
<1>3. CASE Goto("client", "symkey", <<>>, 0)
  <2>1. PICK b : b = u[want["client"]]
    OBVIOUS
  <2>2. pc'["client"] = "symkey" /\ want'["client"] = 0 /\ 0 \in Nat
    BY <1>3 DEF Goto, SocketOK, Side
  <2>3. ClientAt(b)'
    BY <2>2 DEF ClientAt
  <2> QED BY <1>1, <1>3, <2>1, <2>2, <2>3, ClientListens
<1> QED
  BY <1>2, <1>3 DEF VerifyServer

\* The end of the client.
LEMMA DisconnectStep ==
    ASSUME SocketOK, NEW t, NEW u, Streams(t, u), Disconnect
    PROVE  ChannelOK'
  BY Leaves DEF Disconnect, server, client, ChannelOK, Side, Ended

-------------------------------------------------------------------------------
(* The server *)

\* What the server, which goes on behind a, does leaves w as what the client may read.
Hears(a, w) ==
    /\ ~Gone("client") => ToClient(w)'
    /\ Connected => (ServerSent(a, w[Len(Stream("client"))]))'

\* A step of the server that does not end it.
LEMMA ServerGoes ==
    ASSUME SocketOK, NEW t, NEW u, Streams(t, u), ~Gone("server"), At("server", pc["server"]),
           NEW label, NEW bs \in Seq(Byte), NEW n \in Nat, Goto("server", label, bs, n),
           UNCHANGED <<offered, chosen, keyless>>, ~Lacks(t[0]),
           NEW a, a = t[want["server"]], ServerAt(a)', ServerHas(a)', NEW w, Hears(a, w)
    PROVE  ChannelOK'
<1>1. "server" \in Side /\ out["server"] = <<>> /\ Len(got["server"]) = want["server"]
  BY DEF Side, At
<1>2. SocketOK'
  BY <1>1, GotoMoves
<1>3. ToServer(t)
  BY DEF Streams
<1>4. PICK v : Forwards(ClientTypes, t, v, "server")
  BY <1>3, ServerForward
<1>5. pc'["client"] = pc["client"] /\ up' = up
  BY DEF Goto, SocketOK, Side
<1>6. ToServer(v)'
  <2>1. \A m : Tracks(m) => Tracks(m)'
    BY <1>5 DEF Tracks
  <2>2. \A i \in 0 .. Len(Stream("server")') : Tracks(v[i].m)'
    <3> TAKE i \in 0 .. Len(Stream("server")')
    <3>1. PICK j \in 0 .. Len(Stream("server")) : v[i] = t[j]
      BY <1>4 DEF Forwards
    <3>2. Tracks(t[j].m)
      BY <1>3 DEF ToServer
    <3> QED BY <2>1, <3>1, <3>2
  <2>3. v[0] = a
    BY <1>4 DEF Forwards
  <2> QED BY <1>4, <2>2, <2>3 DEF Forwards, ToServer
<1>7. Gone("client")' <=> Gone("client")
  BY <1>5 DEF Gone
<1>8. Connected' => Connected
  BY <1>5, <1>7 DEF Connected
<1>9. ASSUME Connected' PROVE (ClientSent(v[Len(Stream("server"))]))'
  <2>1. ClientSent(t[Len(Stream("server"))])
    BY <1>8, <1>9 DEF Streams
  <2>2. v[Len(Stream("server")')] = t[Len(Stream("server"))]
    BY <1>4 DEF Forwards
  <2> QED BY <1>5, <2>1, <2>2 DEF ClientSent
<1>10. ASSUME Connected' PROVE (ServerSent(v[0], w[Len(Stream("client"))]))'
  <2>1. v[0] = a
    BY <1>4 DEF Forwards
  <2> QED BY <1>8, <1>10, <2>1 DEF Hears
<1>11. Streams(v, w)'
  BY <1>6, <1>7, <1>9, <1>10 DEF Streams, Hears
<1> QED
  BY <1>2, <1>11 DEF ChannelOK

\* A step of the server that sends nothing.
LEMMA ServerQuiet ==
    ASSUME SocketOK, NEW t, NEW u, Streams(t, u), ~Gone("server"), At("server", pc["server"]),
           NEW label, NEW n \in Nat, Goto("server", label, <<>>, n),
           UNCHANGED <<offered, chosen, keyless>>, ~Lacks(t[0]),
           NEW a, a = t[want["server"]], ServerAt(a)', ServerHas(a)',
           \A b : ServerSent(t[0], b) => ServerSent(a, b)'
    PROVE  ChannelOK'
<1>0. /\ "server" \in Side /\ Peer("server") = "client" /\ out["server"] = <<>>
      /\ Len(got["server"]) = want["server"] /\ <<>> \in Seq(Byte)
  BY EmptySeq DEF Side, Peer, At
<1>1. Stream("client")' = IF up THEN Stream("client") \o <<>> ELSE Stream("client")
  <2>1. Stream(Peer("server"))' = IF up THEN Stream(Peer("server")) \o <<>> ELSE Stream(Peer("server"))
    BY <1>0, GotoMoves
  <2> QED BY <1>0, <2>1 DEF Stream
<1>2. PICK bs \in Seq(Byte) : bs = Stream("client")
  BY StreamShape DEF Side
<1>3. bs \o <<>> = bs
  BY ConcatEmptySeq
<1>4. Stream("client")' = Stream("client")
  BY <1>1, <1>2, <1>3
<1>5. /\ pc'["client"] = pc["client"] /\ want'["client"] = want["client"]
  BY DEF Goto, SocketOK, Side
<1>6. ASSUME ~Gone("client") PROVE ToClient(u)'
  <2>1. ToClient(u)
    BY <1>6 DEF Streams
  <2> QED BY <1>4, <1>5, <2>1 DEF ToClient, ClientAt
<1>7. ASSUME Connected PROVE (ServerSent(a, u[Len(Stream("client"))]))'
  <2>1. ServerSent(t[0], u[Len(Stream("client"))])
    BY <1>7 DEF Streams
  <2> QED BY <1>4, <2>1
<1>8. Hears(a, u)
  BY <1>6, <1>7 DEF Hears
<1> QED
  BY <1>0, <1>8, ServerGoes

\* A step of the server that sends the answer m.
LEMMA ServerWrites ==
    ASSUME SocketOK, NEW t, NEW u, Streams(t, u), ~Gone("server"), At("server", pc["server"]),
           NEW label, NEW n \in Nat, NEW ds \in Seq(Byte), Goto("server", label, ds, n),
           UNCHANGED <<offered, chosen, keyless>>, ~Lacks(t[0]),
           NEW a, a = t[want["server"]], ServerAt(a)', ServerHas(a)', NEW m,
           Connected => \E w, part : Adds(ServerTypes, u, "client", w, ds, m, part),
           \A b : b.m = m /\ Ends(b) /\ b.at = Size(b) => ServerSent(a, b)'
    PROVE  ChannelOK'
<1>0. /\ "server" \in Side /\ Peer("server") = "client" /\ out["server"] = <<>>
      /\ Len(got["server"]) = want["server"]
  BY DEF Side, Peer, At
<1>1. Stream("client")' = IF up THEN Stream("client") \o ds ELSE Stream("client")
  <2>1. Stream(Peer("server"))' = IF up THEN Stream(Peer("server")) \o ds ELSE Stream(Peer("server"))
    BY <1>0, GotoMoves
  <2> QED BY <1>0, <2>1 DEF Stream
<1>2. /\ pc'["client"] = pc["client"] /\ want'["client"] = want["client"]
  BY DEF Goto, SocketOK, Side
<1>3. \E w : Hears(a, w)
  <2>1. CASE Gone("client")
    BY <2>1 DEF Hears, Connected
  <2>2. CASE ~Gone("client") /\ ~up
    <3>1. ToClient(u)
      BY <2>2 DEF Streams
    <3>2. Stream("client")' = Stream("client")
      BY <1>1, <2>2
    <3>3. ToClient(u)'
      BY <1>2, <3>1, <3>2 DEF ToClient, ClientAt
    <3> QED BY <2>2, <3>3 DEF Hears, Connected
  <2>3. CASE ~Gone("client") /\ up
    <3>1. Connected
      BY <2>3 DEF Connected
    <3>2. ToClient(u)
      BY <2>3 DEF Streams
    <3>3. PICK bs \in Seq(Byte) : bs = Stream("client")
      BY StreamShape DEF Side
    <3>4. PICK w, part : Adds(ServerTypes, u, "client", w, ds, m, part)
      BY <3>1
    <3>5. PICK cs : cs = bs \o ds /\ cs = Stream("client")'
      BY <1>1, <2>3, <3>3
    <3>6. Continues(ServerTypes, u, bs, w, cs, m, part) /\ Ends(Place(m, part, 0))
      BY <3>3, <3>4, <3>5 DEF Adds
    <3>7. cs \in Seq(Byte) /\ Flow(ServerTypes, w, cs) /\ w[0] = u[0]
      <4>1. Len(bs) \in Nat
        OBVIOUS
      <4> QED BY <3>6, <4>1 DEF Continues
    <3>8. ToClient(w)'
      BY <1>2, <3>2, <3>5, <3>7 DEF ToClient, ClientAt
    <3>9. w[Len(cs)].m = m /\ w[Len(cs)].part = part /\ w[Len(cs)].at = Size(w[Len(cs)])
      BY <3>6 DEF Continues
    <3>10. Ends(w[Len(cs)])
      BY <3>6, <3>9 DEF Ends, Lacks, Place
    <3>11. ServerSent(a, w[Len(cs)])'
      BY <3>9, <3>10
    <3> QED BY <3>5, <3>8, <3>11 DEF Hears
  <2> QED BY <2>1, <2>2, <2>3
<1>4. PICK w : Hears(a, w)
  BY <1>3
<1> QED
  BY <1>0, <1>4, ServerGoes

\* A message that has been read whole is dealt with.
LEMMA EndedMessage ==
    ASSUME NEW a, Ends(a), ServerHas(a)
    PROVE  taken = a.m.files /\ (a.m.type \in {"name", "data"} => filename = a.m.name)
<1>1. a.m.type \in {"name", "data"} => a.part = 3
  BY DEF Ends, Lacks
<1> QED
  BY <1>1 DEF ServerHas

\* The switch on the message type.
LEMMA DispatchStep ==
    ASSUME SocketOK, NEW t, NEW u, Streams(t, u), Dispatch
    PROVE  ChannelOK'
<1>0. /\ IntBytes \in Nat \ {0} /\ UNCHANGED <<offered, chosen, filename, taken, keyless>>
      /\ pc["server"] = "type" /\ At("server", pc["server"]) /\ ~Gone("server")
  BY ChannelAssumption DEF Dispatch, At, Gone, server, client
<1>1. ToServer(t)
  BY <1>0 DEF Streams
<1>2. ServerAt(t[0]) /\ ServerHas(t[0]) /\ Letter(t[0].m) /\ t[0].part \in 1 .. 3
  <2>1. Len(Stream("server")) \in Nat
    BY StreamShape DEF Side
  <2> QED BY <1>1, <2>1 DEF ToServer, Flow
<1>3. Ends(t[0]) /\ want["server"] = IntBytes /\ ~Lacks(t[0])
  BY <1>0, <1>2, OnlyKeyLacks DEF ServerAt, LengthLabel, After
<1>4. PICK m, part : Handed(ClientTypes, t, "server", m, part) /\ ServerPart(t[0], m, part)
  BY <1>0, <1>1, <1>3, ServerReads
<1>5. Succ(t[0].m, m) /\ m.type \in DOMAIN Type /\ part = 1 /\ Letter(m)
  BY <1>0, <1>4 DEF ServerPart, LengthLabel, After, Handed
<1>6. bytes_to_int(got["server"]) = Type[m.type]
  <2>1. m.type # "none"
    BY <1>5 DEF Type
  <2> QED BY <1>4, <1>5, <2>1, Parts DEF Handed
<1>7. PICK a : a = t[want["server"]]
  OBVIOUS
<1>8. a.m = m /\ a.part = 1
  BY <1>4, <1>5, <1>7 DEF Handed
<1>9. CASE m.type = "close"
  <2>1. bytes_to_int(got["server"]) = 2
    BY <1>6, <1>9 DEF Type, MSG_CLOSE
  <2>2. End("server", "done")
    BY <2>1 DEF Dispatch, MSG_FILENAME, MSG_FILE_DATA, MSG_CLOSE, MSG_AUTH, MSG_SYMKEY
  <2> QED BY <1>0, <2>2, Leaves DEF ChannelOK, Side, Ended
<1>10. CASE m.type \in DOMAIN LengthLabel
  <2>1. Goto("server", LengthLabel[m.type], <<>>, IntBytes)
    <3>1. CASE m.type = "auth"
      BY <1>6, <3>1 DEF Dispatch, Type, LengthLabel, MSG_FILENAME, MSG_FILE_DATA, MSG_CLOSE, MSG_AUTH, MSG_SYMKEY
    <3>2. CASE m.type = "key"
      BY <1>6, <3>2 DEF Dispatch, Type, LengthLabel, MSG_FILENAME, MSG_FILE_DATA, MSG_CLOSE, MSG_AUTH, MSG_SYMKEY
    <3>5. CASE m.type = "keyless"
      BY <1>6, <3>5 DEF Dispatch, Type, LengthLabel, MSG_FILENAME, MSG_FILE_DATA, MSG_CLOSE, MSG_AUTH, MSG_SYMKEY
    <3>3. CASE m.type = "name"
      BY <1>6, <3>3 DEF Dispatch, Type, LengthLabel, MSG_FILENAME, MSG_FILE_DATA, MSG_CLOSE, MSG_AUTH, MSG_SYMKEY
    <3>4. CASE m.type = "data"
      BY <1>6, <3>4 DEF Dispatch, Type, LengthLabel, MSG_FILENAME, MSG_FILE_DATA, MSG_CLOSE, MSG_AUTH, MSG_SYMKEY
    <3> QED BY <1>10, <3>1, <3>2, <3>3, <3>4, <3>5 DEF LengthLabel
  <2>2. pc'["server"] = LengthLabel[m.type] /\ want'["server"] = IntBytes
    BY <2>1 DEF Goto, SocketOK, Side
  <2>3. ServerAt(a)'
    BY <1>8, <1>10, <2>2 DEF ServerAt
  <2>4. taken = t[0].m.files /\ (t[0].m.type \in {"name", "data"} => filename = t[0].m.name)
    BY <1>2, <1>3, EndedMessage
  <2>5. ServerHas(a)'
    <3>1. taken \in Nat
      BY <1>2, <2>4 DEF Letter
    <3>2. CASE m.type = "data"
      <4>1. t[0].m.type = "name" /\ m.files = t[0].m.files + 1 /\ m.name = t[0].m.name
        BY <1>5, <3>2 DEF Succ
      <4> QED BY <1>0, <1>8, <2>4, <3>1, <3>2, <4>1 DEF ServerHas
    <3>3. CASE m.type # "data"
      <4>1. m.files = t[0].m.files
        BY <1>5, <3>3 DEF Succ
      <4> QED BY <1>0, <1>8, <2>4, <3>3, <4>1 DEF ServerHas
    <3> QED BY <3>2, <3>3
  <2>6. \A b : ServerSent(t[0], b) => ServerSent(a, b)'
    <3>1. m.type # "none" /\ pc'["server"] # "cert"
      BY <1>10, <2>2 DEF LengthLabel
    <3>2. m.type = "auth" => t[0].m.type = "none"
      BY <1>5 DEF Succ
    <3> QED BY <1>8, <3>1, <3>2 DEF ServerSent
  <2> QED BY <1>0, <1>3, <1>7, <2>1, <2>3, <2>5, <2>6, ServerQuiet
<1> QED
  BY <1>5, <1>9, <1>10 DEF Type, LengthLabel

\* The length of what follows.
LEMMA ReadLengthStep ==
    ASSUME SocketOK, NEW t, NEW u, Streams(t, u), ReadLength
    PROVE  ChannelOK'
<1>0. IntBytes \in Nat \ {0} /\ UNCHANGED <<offered, chosen, filename, taken, keyless>>
  BY ChannelAssumption DEF ReadLength, server, client
<1>1. PICK l \in DOMAIN After :
        At("server", l) /\ Goto("server", After[l], <<>>, bytes_to_int(got["server"]))
  BY DEF ReadLength
<1>2. pc["server"] = l /\ At("server", pc["server"]) /\ ~Gone("server")
  BY <1>1 DEF At, Gone, After
<1>3. ToServer(t)
  BY <1>2 DEF Streams
<1>4. ServerAt(t[0]) /\ ServerHas(t[0])
  BY <1>3 DEF ToServer
<1>5. t[0].part = 1 /\ want["server"] = IntBytes /\ ~Lacks(t[0])
  BY <1>2, <1>4 DEF ServerAt, LengthLabel, After, Lacks
<1>6. PICK m, part : Handed(ClientTypes, t, "server", m, part) /\ ServerPart(t[0], m, part)
  BY <1>0, <1>2, <1>3, <1>5, ServerReads
<1>7. /\ m = t[0].m /\ m.type \in DOMAIN LengthLabel /\ part = 2 /\ l = LengthLabel[m.type]
      /\ Letter(m)
  BY <1>1, <1>2, <1>6 DEF ServerPart, LengthLabel, After, Handed
<1>8. bytes_to_int(got["server"]) = m.blob.len /\ m.blob.len \in Nat
  <2>1. m.type # "none"
    BY <1>7 DEF LengthLabel
  <2> QED BY <1>6, <1>7, <2>1, Parts, Lengths DEF Handed
<1>9. Goto("server", After[LengthLabel[m.type]], <<>>, m.blob.len)
  BY <1>1, <1>7, <1>8
<1>10. PICK a : a = t[want["server"]]
  OBVIOUS
<1>11. a.m = m /\ a.part = 2
  BY <1>6, <1>7, <1>10 DEF Handed
<1>12. pc'["server"] = After[LengthLabel[m.type]] /\ want'["server"] = m.blob.len
  BY <1>9 DEF Goto, SocketOK, Side
<1>13. ServerAt(a)'
  BY <1>7, <1>11, <1>12 DEF ServerAt
<1>14. ServerHas(a)'
  BY <1>0, <1>4, <1>5, <1>7, <1>11 DEF ServerHas
<1>15. \A b : ServerSent(t[0], b) => ServerSent(a, b)'
  <2>1. m.type # "none" /\ pc'["server"] # "cert"
    BY <1>7, <1>12 DEF LengthLabel, After
  <2> QED BY <1>5, <1>7, <1>11, <2>1 DEF ServerSent
<1> QED
  BY <1>0, <1>2, <1>5, <1>8, <1>9, <1>10, <1>13, <1>14, <1>15, ServerQuiet

\* The server has the blob of a message.
LEMMA ServerHasBlob ==
    ASSUME SocketOK, NEW t, ToServer(t), At("server", pc["server"]),
           pc["server"] \in {"name", "data", "challenge", "wrapped"}, got["server"] # <<>>,
           ~Lacks(t[0])
    PROVE  /\ Letter(t[0].m) /\ t[0].m.type \in DOMAIN LengthLabel /\ t[0].part = 2
           /\ pc["server"] = After[LengthLabel[t[0].m.type]]
           /\ got["server"] = Bytes(t[0].m.blob) /\ t[0].m.blob.len > 0 /\ t[0].m.blob.len \in Nat
           /\ t[want["server"]].m = t[0].m /\ t[want["server"]].part = 3
<1>1. ServerAt(t[0]) /\ Len(got["server"]) = want["server"] /\ got["server"] \in Seq(Byte)
  BY DEF ToServer, At, SocketOK, Side
<1>2. want["server"] > 0
  <2>1. Len(got["server"]) \in Nat /\ Len(got["server"]) # 0
    BY <1>1, EmptySeq
  <2> QED BY <1>1, <2>1
<1>3. PICK m, part : Handed(ClientTypes, t, "server", m, part) /\ ServerPart(t[0], m, part)
  BY <1>2, ServerReads
<1>4. m = t[0].m /\ part = 3 /\ m.type \in DOMAIN LengthLabel /\ pc["server"] = After[LengthLabel[m.type]]
  BY <1>3 DEF ServerPart, LengthLabel, After
<1>5. t[0].part = 2 /\ want["server"] = m.blob.len
  <2>1. pc["server"] \notin {"accept", "type", "cert"}
    OBVIOUS
  <2>2. pc["server"] # LengthLabel[m.type]
    BY <1>4 DEF LengthLabel, After
  <2> QED BY <1>1, <1>4, <2>1, <2>2 DEF ServerAt
<1>6. got["server"] = Bytes(m.blob) /\ Letter(m)
  BY <1>3, <1>4 DEF Handed, Part
<1>7. t[want["server"]].m = m /\ t[want["server"]].part = 3
  BY <1>3, <1>4 DEF Handed
<1>8. m.blob.len \in Nat
  BY <1>6, Lengths
<1> QED
  BY <1>2, <1>4, <1>5, <1>6, <1>7, <1>8

\* Only a key may be empty.
LEMMA BlobNotEmpty ==
    ASSUME SocketOK, NEW t, ToServer(t), At("server", pc["server"]),
           pc["server"] \in {"name", "data", "challenge"}
    PROVE  got["server"] # <<>> /\ ~Lacks(t[0])
<1>1. ServerAt(t[0]) /\ Len(got["server"]) = want["server"] /\ Letter(t[0].m)
  <2>1. Len(Stream("server")) \in Nat
    BY StreamShape DEF Side
  <2> QED BY <2>1 DEF ToServer, At, Flow
<1>2. want["server"] = t[0].m.blob.len /\ t[0].m.type \in {"name", "data", "auth"}
  BY <1>1 DEF ServerAt, LengthLabel, After
<1>3. t[0].m.blob.len > 0
  BY <1>1, <1>2, Lengths
<1>4. ~Lacks(t[0])
  BY <1>1, OnlyKeyLacks
<1> QED
  BY <1>1, <1>2, <1>3, <1>4, EmptySeq

\* The name of a file.
LEMMA ReadNameStep ==
    ASSUME SocketOK, NEW t, NEW u, Streams(t, u), ReadName
    PROVE  ChannelOK'
<1>0. /\ IntBytes \in Nat /\ UNCHANGED <<offered, chosen, taken, keyless>>
      /\ pc["server"] = "name" /\ At("server", pc["server"]) /\ ~Gone("server")
      /\ Goto("server", "type", <<>>, IntBytes) /\ filename' = Value(got["server"])
  BY ChannelAssumption DEF ReadName, At, Gone, HandleFilename, client
<1>1. ToServer(t)
  BY <1>0 DEF Streams
<1>2. PICK m : m = t[0].m
  OBVIOUS
<1>3. PICK a : a = t[want["server"]]
  OBVIOUS
<1>4. got["server"] # <<>> /\ ~Lacks(t[0])
  BY <1>0, <1>1, BlobNotEmpty
<1>5. /\ Letter(m) /\ m.type = "name" /\ got["server"] = Bytes(m.blob)
      /\ m.blob.len > 0 /\ m.blob.len \in Nat /\ a.m = m /\ a.part = 3
  BY <1>0, <1>1, <1>2, <1>3, <1>4, ServerHasBlob DEF LengthLabel, After
<1>6. filename' = m.name
  <2>1. Value(Bytes(m.blob)) = m.blob.value
    BY <1>5, WholeBlob
  <2>2. m.blob.value = m.name
    BY <1>5 DEF Letter, Blob
  <2> QED BY <1>0, <1>5, <2>1, <2>2
<1>7. pc'["server"] = "type" /\ want'["server"] = IntBytes
  BY <1>0 DEF Goto, SocketOK, Side
<1>8. ServerAt(a)'
  BY <1>5, <1>7 DEF ServerAt, Ends
<1>9. ServerHas(a)'
  BY <1>0, <1>1, <1>2, <1>5, <1>6 DEF ToServer, ServerHas
<1>10. \A b : ServerSent(t[0], b) => ServerSent(a, b)'
  BY <1>5, <1>7 DEF ServerSent
<1> QED
  BY <1>0, <1>3, <1>4, <1>8, <1>9, <1>10, ServerQuiet

\* The data of a file that opens with the session key.
LEMMA DataAtHand ==
    ASSUME SocketOK, NEW t, ToServer(t), At("server", "data")
    PROVE  /\ Whole(got["server"], "token") /\ Value(got["server"]).path = t[0].m.name
           /\ t[0].m.type = "data" /\ t[0].part = 2 /\ Letter(t[0].m)
           /\ t[want["server"]].m = t[0].m /\ t[want["server"]].part = 3
           /\ ~Lacks(t[0])
<1>1. pc["server"] = "data" /\ At("server", pc["server"])
  BY DEF At
<1>2. PICK m : m = t[0].m
  OBVIOUS
<1>3. got["server"] # <<>> /\ ~Lacks(t[0])
  BY <1>1, BlobNotEmpty
<1>4. /\ Letter(m) /\ m.type = "data" /\ got["server"] = Bytes(m.blob) /\ t[0].part = 2
      /\ m.blob.len > 0 /\ m.blob.len \in Nat
      /\ t[want["server"]].m = m /\ t[want["server"]].part = 3
  BY <1>1, <1>2, <1>3, ServerHasBlob DEF LengthLabel, After
<1>5. Whole(Bytes(m.blob), m.blob.kind) /\ Value(Bytes(m.blob)) = m.blob.value
  BY <1>4, WholeBlob
<1>6. m.blob.kind = "token" /\ m.blob.value.path = m.name
  BY <1>4 DEF Letter, session_encrypt, Blob
<1> QED
  BY <1>2, <1>3, <1>4, <1>5, <1>6

\* The data of a file, decrypted and stored or not.
LEMMA HandleDataStep ==
    ASSUME SocketOK, NEW t, NEW u, Streams(t, u), HandleData
    PROVE  ChannelOK'
<1>0. /\ IntBytes \in Nat /\ UNCHANGED <<offered, chosen, filename, keyless>>
      /\ pc["server"] = "data" /\ At("server", pc["server"]) /\ ~Gone("server")
      /\ At("server", "data")
  BY ChannelAssumption DEF HandleData, At, Gone, client
<1>1. ToServer(t)
  BY <1>0 DEF Streams
<1>2. CASE End("server", "done") /\ UNCHANGED taken
  BY <1>0, <1>2, Leaves DEF ChannelOK, Side, Ended
<1>3. CASE Goto("server", "type", <<>>, IntBytes) /\ taken' = taken + 1
  <2>1. PICK m : m = t[0].m
    OBVIOUS
  <2>2. PICK a : a = t[want["server"]]
    OBVIOUS
  <2>3. /\ m.type = "data" /\ t[0].part = 2 /\ Letter(m) /\ a.m = m /\ a.part = 3
        /\ ~Lacks(t[0])
    BY <1>0, <1>1, <2>1, <2>2, DataAtHand
  <2>4. taken = m.files - 1 /\ filename = m.name /\ m.files \in Nat
    BY <1>1, <2>1, <2>3 DEF ToServer, ServerHas, Letter
  <2>5. pc'["server"] = "type" /\ want'["server"] = IntBytes
    BY <1>3 DEF Goto, SocketOK, Side
  <2>6. ServerAt(a)'
    BY <2>3, <2>5 DEF ServerAt, Ends
  <2>7. ServerHas(a)'
    <3>1. taken' = m.files /\ filename' = m.name
      BY <1>0, <1>3, <2>4
    <3> QED BY <2>3, <3>1 DEF ServerHas
  <2>8. \A b : ServerSent(t[0], b) => ServerSent(a, b)'
    BY <2>3, <2>5 DEF ServerSent
  <2> QED BY <1>0, <1>3, <2>2, <2>3, <2>6, <2>7, <2>8, ServerQuiet
<1> QED
  BY <1>2, <1>3 DEF HandleData

\* What is taken for a key that was not sent does not open: it begins with an integer.
LEMMA KeyDoesNotOpen ==
    ASSUME SocketOK, NEW t, ToServer(t), At("server", pc["server"]), Lacks(t[0])
    PROVE  ~rsa_decrypt_block(got["server"])
<1> SUFFICES ASSUME Whole(got["server"], "wrapped") PROVE FALSE
  BY DEF rsa_decrypt_block
<1>0. "server" \in Side /\ got["server"] \in Seq(Byte) /\ Len(got["server"]) = want["server"]
  BY DEF SocketOK, Side, At
<1>1. got["server"] # <<>> /\ \A i \in DOMAIN got["server"] : "blob" \in DOMAIN got["server"][i]
  BY DEF Whole
<1>2. PICK g \in Seq(Byte) : g = got["server"] /\ 1 \in 1 .. Len(g) /\ Len(g) > 0
  BY <1>0, <1>1, EmptySeq
<1>3. "blob" \in DOMAIN g[1]
  BY <1>1, <1>2
<1>4. Flow(ClientTypes, t, Stream("server"))
  BY DEF ToServer
<1>5. /\ Joint(t[0], t[1]) /\ Letter(t[1].m) /\ t[1].m.type \in ClientTypes
      /\ want["server"] \in 1 .. Len(Stream("server"))
  BY <1>0, <1>2, <1>4, NextPart
<1>6. Succ(t[0].m, t[1].m) /\ t[1].part = First(t[1].m) /\ t[1].at = 1
  BY <1>5 DEF Joint, Ends
<1>7. t[1].m.type \in DOMAIN Type /\ First(t[1].m) = 1
  BY <1>5, <1>6 DEF Succ, ClientTypes, Type, First
<1>8. PICK bs \in Seq(Byte) : bs = Stream("server") /\ \A i \in 1 .. Len(g) : g[i] = bs[i]
  BY <1>0, <1>2, StreamShape
<1>9. 1 \in 1 .. Len(bs)
  BY <1>5, <1>8
<1>10. bs[1] = Part(t[1].m, 1)[1] /\ 1 \in 1 .. Size(t[1])
  BY <1>4, <1>6, <1>7, <1>8, <1>9 DEF Flow
<1>11. Part(t[1].m, 1) = int_to_bytes(Type[t[1].m.type])
  BY DEF Part
<1>12. 1 \in 1 .. IntBytes
  BY ChannelAssumption
<1>13. int_to_bytes(Type[t[1].m.type])[1] = [digit |-> Shifted(Type[t[1].m.type])[IntBytes - 1] % Radix]
  BY <1>12 DEF int_to_bytes
<1>14. DOMAIN g[1] = {"digit"}
  BY <1>2, <1>8, <1>10, <1>11, <1>13
<1> QED
  BY <1>3, <1>14

\* The session key, decrypted.
LEMMA ReadKeyStep ==
    ASSUME SocketOK, NEW t, NEW u, Streams(t, u), ReadKey
    PROVE  ChannelOK'
<1>0. /\ IntBytes \in Nat /\ UNCHANGED <<offered, chosen, filename, taken, keyless>>
      /\ pc["server"] = "wrapped" /\ At("server", pc["server"]) /\ ~Gone("server")
  BY ChannelAssumption DEF ReadKey, At, Gone, client
<1>1. ToServer(t)
  BY <1>0 DEF Streams
<1>2. CASE End("server", "done")
  BY <1>0, <1>2, Leaves DEF ChannelOK, Side, Ended
<1>3. CASE Goto("server", "type", <<>>, IntBytes) /\ rsa_decrypt_block(got["server"])
  <2>1. PICK m : m = t[0].m
    OBVIOUS
  <2>2. PICK a : a = t[want["server"]]
    OBVIOUS
  <2>3. got["server"] # <<>> /\ ~Lacks(t[0])
    BY <1>0, <1>1, <1>3, KeyDoesNotOpen DEF rsa_decrypt_block, Whole
  <2>4. m.type = "key" /\ t[0].part = 2 /\ a.m = m /\ a.part = 3
    <3>1. /\ m.type \in DOMAIN LengthLabel /\ t[0].part = 2 /\ a.m = m /\ a.part = 3
          /\ After[LengthLabel[m.type]] = "wrapped"
      BY <1>0, <1>1, <2>1, <2>2, <2>3, ServerHasBlob
    <3> QED BY <2>1, <2>3, <3>1 DEF LengthLabel, After, Lacks
  <2>5. pc'["server"] = "type" /\ want'["server"] = IntBytes
    BY <1>3 DEF Goto, SocketOK, Side
  <2>6. ServerAt(a)'
    BY <2>4, <2>5 DEF ServerAt, Ends
  <2>7. ServerHas(a)'
    BY <1>0, <1>1, <2>1, <2>4 DEF ToServer, ServerHas
  <2>8. \A b : ServerSent(t[0], b) => ServerSent(a, b)'
    BY <2>4, <2>5 DEF ServerSent
  <2> QED BY <1>0, <1>3, <2>2, <2>3, <2>6, <2>7, <2>8, ServerQuiet
<1> QED
  BY <1>2, <1>3 DEF ReadKey, HandleKey

\* An answer of the server.
AnswerLetter(m, type, blob, files, name) ==
    /\ m.type = type /\ m.blob = blob /\ m.files = files /\ m.name = name
    /\ Spelled(m) = Answer(blob)

\* There is such an answer.
LEMMA AnswerIsSent ==
    ASSUME NEW type \in {"signature", "certificate"}, NEW blob, NEW files, NEW name
    PROVE  \E m : AnswerLetter(m, type, blob, files, name)
<1> DEFINE m == [type |-> type, blob |-> blob, files |-> files, name |-> name]
<1>1. m.type = type /\ m.blob = blob /\ m.files = files /\ m.name = name
  OBVIOUS
<1> HIDE DEF m
<1>2. First(m) = 2 /\ Part(m, 2) = int_to_bytes(blob.len) /\ Part(m, 3) = Bytes(blob)
  BY <1>1 DEF First, Part
<1>3. Spelled(m) = Answer(blob)
  BY <1>1, <1>2 DEF Spelled, Answer
<1>4. AnswerLetter(m, type, blob, files, name)
  BY <1>1, <1>3 DEF AnswerLetter
<1> QED
  BY <1>4

\* The answers are bytes.
LEMMA AnswersAreBytes ==
    /\ Answer(sign_message_pss(Challenge)) \in Seq(Byte)
    /\ Answer(Certificate) \in Seq(Byte)
<1>1. PICK m : AnswerLetter(m, "signature", sign_message_pss(Challenge), 0, Nil)
  BY AnswerIsSent
<1>2. PICK n : AnswerLetter(n, "certificate", Certificate, 0, Nil)
  BY AnswerIsSent
<1>3. Letter(m) /\ m.type # "none"
  BY <1>1 DEF Letter, AnswerLetter
<1>4. Letter(n) /\ n.type # "none"
  BY <1>2 DEF Letter, AnswerLetter
<1>5. Spelled(m) \in Seq(Byte) /\ Spelled(n) \in Seq(Byte)
  BY <1>3, <1>4, SpelledSeq
<1> QED
  BY <1>1, <1>2, <1>5 DEF AnswerLetter

\* One answer.
LEMMA OneAnswer ==
    ASSUME SocketOK, NEW u, ToClient(u), NEW m, Letter(m),
           m.type \in {"signature", "certificate"}, NEW a, a = u[Len(Stream("client"))],
           a.at = Size(a), Ends(a), Succ(a.m, m)
    PROVE  \E w, part : Adds(ServerTypes, u, "client", w, Spelled(m), m, part)
<1>1. PICK bs \in Seq(Byte) : bs = Stream("client")
  BY StreamShape DEF Side
<1>2. Flow(ServerTypes, u, bs) /\ u[Len(bs)].at = Size(u[Len(bs)]) /\ Ends(u[Len(bs)])
  BY <1>1 DEF ToClient
<1>3. Succ(u[Len(bs)].m, m) /\ m.type \in ServerTypes /\ First(m) = 2
  BY <1>1 DEF ServerTypes, First
<1>4. PICK w, part : /\ Continues(ServerTypes, u, bs, w, bs \o Spelled(m), m, part)
                     /\ Ends(Place(m, part, 0))
  BY <1>2, <1>3, MessageIsSent
<1>5. Adds(ServerTypes, u, "client", w, Spelled(m), m, part)
  BY <1>1, <1>4 DEF Adds
<1> QED
  BY <1>5

\* The signature of the challenge.
LEMMA SignChallengeStep ==
    ASSUME SocketOK, NEW t, NEW u, Streams(t, u), SignChallenge
    PROVE  ChannelOK'
<1>0. /\ 0 \in Nat /\ UNCHANGED <<offered, chosen, filename, taken, keyless>>
      /\ pc["server"] = "challenge" /\ At("server", pc["server"]) /\ ~Gone("server")
  BY DEF SignChallenge, At, Gone, server, client
<1>1. ToServer(t)
  BY <1>0 DEF Streams
<1>2. CASE End("server", "done")
  BY <1>0, <1>2, Leaves DEF ChannelOK, Side, Ended
<1>3. CASE Goto("server", "cert", Answer(sign_message_pss(got["server"][1].blob)), 0)
  <2>1. PICK p : p = t[0].m
    OBVIOUS
  <2>2. PICK a : a = t[want["server"]]
    OBVIOUS
  <2>3. got["server"] # <<>> /\ ~Lacks(t[0])
    BY <1>0, <1>1, BlobNotEmpty
  <2>4. /\ p.type = "auth" /\ t[0].part = 2 /\ a.m = p /\ a.part = 3 /\ Letter(p)
        /\ got["server"] = Bytes(p.blob) /\ p.blob.len > 0 /\ p.blob.len \in Nat
    BY <1>0, <1>1, <2>1, <2>2, <2>3, ServerHasBlob DEF LengthLabel, After
  <2>5. got["server"][1].blob = Challenge
    <3>1. Bytes(p.blob)[1].blob = p.blob
      BY <2>4, WholeBlob
    <3> QED BY <2>4, <3>1 DEF Letter
  <2>6. Goto("server", "cert", Answer(sign_message_pss(Challenge)), 0)
    BY <1>3, <2>5
  <2>7. pc'["server"] = "cert" /\ want'["server"] = 0
    BY <2>6 DEF Goto, SocketOK, Side
  <2>8. ServerAt(a)'
    BY <2>4, <2>7 DEF ServerAt
  <2>9. ServerHas(a)'
    BY <1>0, <1>1, <2>1, <2>4 DEF ToServer, ServerHas
  <2>10. PICK c : c = u[Len(Stream("client"))]
    OBVIOUS
  <2>11. PICK m : AnswerLetter(m, "signature", sign_message_pss(Challenge), c.m.files, c.m.name)
    BY AnswerIsSent
  <2>12. Connected => \E w, part : Adds(ServerTypes, u, "client", w, Answer(sign_message_pss(Challenge)), m, part)
    <3> SUFFICES ASSUME Connected
                 PROVE  \E w, part : Adds(ServerTypes, u, "client", w, Answer(sign_message_pss(Challenge)), m, part)
      OBVIOUS
    <3>1. ToClient(u) /\ ServerSent(t[0], c)
      BY <2>10 DEF Streams, Connected
    <3>2. c.m.type = "none" /\ c.part = 3 /\ c.at = Size(c)
      BY <2>1, <2>4, <3>1 DEF ServerSent
    <3>3. Letter(c.m)
      <4>1. Len(Stream("client")) \in Nat
        BY StreamShape DEF Side
      <4> QED BY <2>10, <3>1, <4>1 DEF ToClient, Flow
    <3>4. Letter(m) /\ m.type = "signature" /\ Succ(c.m, m) /\ Ends(c)
      BY <2>11, <3>2, <3>3 DEF Letter, AnswerLetter, Succ, Ends
    <3>5. \E w, part : Adds(ServerTypes, u, "client", w, Spelled(m), m, part)
      BY <2>10, <3>1, <3>2, <3>4, OneAnswer
    <3> QED BY <2>11, <3>5 DEF AnswerLetter
  <2>13. \A b : b.m = m /\ Ends(b) /\ b.at = Size(b) => ServerSent(a, b)'
    <3>1. m.type = "signature"
      BY <2>11 DEF AnswerLetter
    <3>2. \A b : b.m = m /\ Ends(b) => b.part = 3
      BY <3>1 DEF Ends, Lacks
    <3> QED BY <2>4, <2>7, <3>1, <3>2 DEF ServerSent
  <2>14. UNCHANGED <<offered, chosen, keyless>>
    BY <1>0
  <2> QED BY <1>0, <2>2, <2>3, <2>6, <2>8, <2>9, <2>12, <2>13, <2>14, AnswersAreBytes, ServerWrites
<1> QED
  BY <1>2, <1>3 DEF SignChallenge

\* The certificate.
LEMMA SendCertificateStep ==
    ASSUME SocketOK, NEW t, NEW u, Streams(t, u), SendCertificate
    PROVE  ChannelOK'
<1>0. /\ IntBytes \in Nat /\ UNCHANGED <<offered, chosen, filename, taken, keyless>>
      /\ pc["server"] = "cert" /\ At("server", pc["server"]) /\ ~Gone("server")
  BY ChannelAssumption DEF SendCertificate, At, Gone, server, client
<1>1. ToServer(t)
  BY <1>0 DEF Streams
<1>2. CASE End("server", "done")
  BY <1>0, <1>2, Leaves DEF ChannelOK, Side, Ended
<1>3. CASE Goto("server", "type", Answer(Certificate), IntBytes)
  <2>1. PICK a : a = t[0]
    OBVIOUS
  <2>2. want["server"] = 0 /\ a.m.type = "auth" /\ a.part = 3 /\ a = t[want["server"]] /\ ~Lacks(t[0])
    BY <1>0, <1>1, <2>1 DEF ToServer, ServerAt, LengthLabel, After, Lacks
  <2>3. pc'["server"] = "type" /\ want'["server"] = IntBytes
    BY <1>3 DEF Goto, SocketOK, Side
  <2>4. ServerAt(a)'
    BY <2>2, <2>3 DEF ServerAt, Ends
  <2>5. ServerHas(a)'
    BY <1>0, <1>1, <2>1 DEF ToServer, ServerHas
  <2>6. PICK c : c = u[Len(Stream("client"))]
    OBVIOUS
  <2>7. PICK m : AnswerLetter(m, "certificate", Certificate, c.m.files, c.m.name)
    BY AnswerIsSent
  <2>8. Connected => \E w, part : Adds(ServerTypes, u, "client", w, Answer(Certificate), m, part)
    <3> SUFFICES ASSUME Connected
                 PROVE  \E w, part : Adds(ServerTypes, u, "client", w, Answer(Certificate), m, part)
      OBVIOUS
    <3>1. ToClient(u) /\ ServerSent(t[0], c)
      BY <2>6 DEF Streams, Connected
    <3>2. c.m.type = "signature" /\ c.part = 3 /\ c.at = Size(c)
      BY <1>0, <3>1 DEF ServerSent
    <3>3. Letter(c.m)
      <4>1. Len(Stream("client")) \in Nat
        BY StreamShape DEF Side
      <4> QED BY <2>6, <3>1, <4>1 DEF ToClient, Flow
    <3>4. Letter(m) /\ m.type = "certificate" /\ Succ(c.m, m) /\ Ends(c)
      BY <2>7, <3>2, <3>3 DEF Letter, AnswerLetter, Succ, Ends
    <3>5. \E w, part : Adds(ServerTypes, u, "client", w, Spelled(m), m, part)
      BY <2>6, <3>1, <3>2, <3>4, OneAnswer
    <3> QED BY <2>7, <3>5 DEF AnswerLetter
  <2>9. \A b : b.m = m /\ Ends(b) /\ b.at = Size(b) => ServerSent(a, b)'
    BY <2>2, <2>3 DEF ServerSent
  <2>10. UNCHANGED <<offered, chosen, keyless>>
    BY <1>0
  <2> QED BY <1>0, <1>3, <2>2, <2>4, <2>5, <2>8, <2>9, <2>10, AnswersAreBytes, ServerWrites
<1> QED
  BY <1>2, <1>3 DEF SendCertificate

-------------------------------------------------------------------------------
(* The steps *)

\* A step that names no file and sends no data leaves the files what they are.
LEMMA FilesStay ==
    ASSUME FilesOK, UNCHANGED <<offered, chosen>>, taken' \in {taken, taken + 1},
           pc'["client"] = "open" => pc["client"] = "open"
    PROVE  FilesOK'
<1>1. taken' \in Nat
  BY DEF FilesOK
<1> QED
  BY <1>1 DEF FilesOK

\* A side that goes elsewhere does not get to open a file.
LEMMA GotoElsewhere ==
    ASSUME SocketOK, NEW s \in Side, NEW label, label # "open", NEW bs, NEW n, Goto(s, label, bs, n)
    PROVE  pc'["client"] = "open" => pc["client"] = "open"
<1>1. pc' = [pc EXCEPT ![s] = label] /\ pc = [r \in Side |-> pc[r]] /\ "client" \in Side
  BY DEF Goto, SocketOK, Side
<1> QED
  BY <1>1

\* A step of the client.
LEMMA ClientStepHolds ==
    ASSUME SocketOK, FilesOK, NEW t, NEW u, Streams(t, u), ClientStep \/ SendName \/ Quit
    PROVE  ChannelOK' /\ FilesOK'
<1>0. "client" \in Side
  BY DEF Side
<1>1. CASE SendName
  BY <1>1, SendNameStep
<1>2. CASE SendFile
  BY <1>2, SendFileStep
<1>3. ASSUME UNCHANGED <<offered, chosen, taken>>,
             NEW label, label # "open", NEW bs, NEW n, Goto("client", label, bs, n)
      PROVE  FilesOK'
  <2>1. pc'["client"] = "open" => pc["client"] = "open"
    BY <1>0, <1>3, GotoElsewhere
  <2> QED BY <1>3, <2>1, FilesStay
<1>4. CASE SendChallenge
  <2>1. FilesOK'
    BY <1>3, <1>4 DEF SendChallenge, End, server, client
  <2> QED BY <1>4, <2>1, SendChallengeStep
<1>5. CASE ReadSignature
  <2>1. FilesOK'
    BY <1>3, <1>5 DEF ReadSignature, server
  <2> QED BY <1>5, <2>1, ReadSignatureStep
<1>6. CASE ReadCertificate
  <2>1. FilesOK'
    BY <1>3, <1>6 DEF ReadCertificate, server, client
  <2> QED BY <1>6, <2>1, ReadCertificateStep
<1>7. CASE VerifyServer
  <2>1. FilesOK'
    BY <1>3, <1>7 DEF VerifyServer, End, server, client
  <2> QED BY <1>7, <2>1, VerifyServerStep
<1>8. CASE SendKey
  <2>1. FilesOK'
    BY <1>3, <1>8 DEF SendKey, End, server, client
  <2> QED BY <1>8, <2>1, SendKeyStep
<1>9. CASE Disconnect
  <2>1. FilesOK'
    BY <1>3, <1>9 DEF Disconnect, End, server, client
  <2> QED BY <1>9, <2>1, DisconnectStep
<1>10. CASE Quit
  <2>1. FilesOK'
    BY <1>3, <1>10 DEF Quit, server, client
  <2> QED BY <1>10, <2>1, QuitStep
<1> QED
  BY <1>1, <1>2, <1>4, <1>5, <1>6, <1>7, <1>8, <1>9, <1>10 DEF ClientStep

\* A step of the server.
LEMMA ServerStepHolds ==
    ASSUME SocketOK, FilesOK, NEW t, NEW u, Streams(t, u), ServerStep
    PROVE  ChannelOK' /\ FilesOK'
<1>0. "server" \in Side /\ "client" \in Side
  BY DEF Side
<1>1. ASSUME UNCHANGED <<offered, chosen>>, taken' \in {taken, taken + 1},
             NEW label, NEW bs, NEW n, Goto("server", label, bs, n)
      PROVE  FilesOK'
  <2>1. pc'["client"] = pc["client"]
    BY <1>0, <1>1 DEF Goto, SocketOK
  <2> QED BY <1>1, <2>1, FilesStay
<1>2. CASE Dispatch
  <2>1. FilesOK'
    BY <1>1, <1>2 DEF Dispatch, End, server, client
  <2> QED BY <1>2, <2>1, DispatchStep
<1>3. CASE ReadLength
  <2>1. FilesOK'
    BY <1>1, <1>3 DEF ReadLength, server, client
  <2> QED BY <1>3, <2>1, ReadLengthStep
<1>4. CASE ReadName
  <2>1. FilesOK'
    BY <1>1, <1>4 DEF ReadName, HandleFilename, client
  <2> QED BY <1>4, <2>1, ReadNameStep
<1>5. CASE HandleData
  <2>1. FilesOK'
    BY <1>1, <1>5 DEF HandleData, End, client
  <2> QED BY <1>5, <2>1, HandleDataStep
<1>6. CASE SignChallenge
  <2>1. FilesOK'
    BY <1>1, <1>6 DEF SignChallenge, End, server, client
  <2> QED BY <1>6, <2>1, SignChallengeStep
<1>7. CASE SendCertificate
  <2>1. FilesOK'
    BY <1>1, <1>7 DEF SendCertificate, End, server, client
  <2> QED BY <1>7, <2>1, SendCertificateStep
<1>8. CASE ReadKey
  <2>1. FilesOK'
    BY <1>1, <1>8 DEF ReadKey, HandleKey, End, client
  <2> QED BY <1>8, <2>1, ReadKeyStep
<1> QED
  BY <1>2, <1>3, <1>4, <1>5, <1>6, <1>7, <1>8 DEF ServerStep

\* A turn of a loop, a failure, an interrupt.
LEMMA OtherStepHolds ==
    ASSUME SocketOK, FilesOK, NEW t, NEW u, Streams(t, u), NEW s \in Side,
           Socket(s) \/ Interrupt(s) \/ Connect \/ ConnectFails \/ Break
    PROVE  ChannelOK' /\ FilesOK'
<1>0. "server" \in Side /\ "client" \in Side
  BY DEF Side
<1>1. ASSUME NEW r \in Side, NEW label \in Ended, End(r, label),
             UNCHANGED <<filename, taken, offered, chosen, keyless>>
      PROVE  ChannelOK' /\ FilesOK'
  <2>1. label # "open"
    BY DEF Ended
  <2>2. pc'["client"] = "open" => pc["client"] = "open"
    BY <1>1, <2>1, GotoElsewhere DEF End
  <2>3. FilesOK'
    BY <1>1, <2>2, FilesStay
  <2>4. UNCHANGED <<filename, taken, offered, keyless>>
    BY <1>1
  <2>5. ChannelOK'
    BY <1>1, <2>4, Leaves DEF ChannelOK
  <2> QED BY <2>3, <2>5
<1>2. CASE Send(s) \/ Receive(s)
  <2>1. SocketOK' /\ \A r \in Side : Stream(r)' = Stream(r)
    BY <1>2, SocketMoves
  <2>2. UNCHANGED <<pc, want, up, filename, taken, offered, chosen, keyless>>
    BY <1>2 DEF Send, Receive, server, client
  <2>3. Streams(t, u)'
    BY <2>1, <2>2, StreamsStay
  <2>4. FilesOK'
    BY <2>2, FilesStay
  <2> QED BY <2>1, <2>3, <2>4 DEF ChannelOK
<1>3. CASE SendFails(s)
  <2>1. UNCHANGED <<offered, chosen, taken>>
    BY <1>3 DEF SendFails, server, client
  <2>2. pc'["client"] = "open" => pc["client"] = "open"
    <3>1. pc = [r \in Side |-> pc[r]]
      BY DEF SocketOK
    <3>2. pc' = pc \/ \E label \in Ended : pc' = [pc EXCEPT ![s] = label]
      BY <1>3 DEF SendFails, Ended
    <3> QED BY <1>0, <3>1, <3>2 DEF Ended
  <2>3. FilesOK'
    BY <2>1, <2>2, FilesStay
  <2> QED BY <1>3, <2>3, SendFailsStep DEF ChannelOK
<1>4. CASE ReceiveFails(s)
  <2>1. PICK label \in AfterBreak(s) : End(s, label)
    BY <1>4 DEF ReceiveFails
  <2>2. label \in Ended
    BY <2>1 DEF AfterBreak, Ended
  <2> QED BY <1>1, <1>4, <2>1, <2>2 DEF ReceiveFails, server, client
<1>5. CASE Interrupt(s)
  <2>1. PICK label \in Ended : End(s, label)
    BY <1>5 DEF Interrupt, Ended
  <2> QED BY <1>1, <1>5, <2>1 DEF Interrupt, server, client
<1>6. CASE ConnectFails
  <2>1. "failed" \in Ended
    BY DEF Ended
  <2> QED BY <1>0, <1>1, <1>6, <2>1 DEF ConnectFails, server, client
<1>7. CASE Connect
  <2>1. pc'["client"] = "auth" /\ UNCHANGED <<offered, chosen, taken>>
    BY <1>0, <1>7 DEF Connect, SocketOK, server, client
  <2>2. FilesOK'
    BY <2>1, FilesStay
  <2> QED BY <1>7, <2>2, ConnectStep DEF ChannelOK
<1>8. CASE Break
  <2>1. UNCHANGED <<pc, offered, chosen, taken>>
    BY <1>8 DEF Break, server, client
  <2>2. FilesOK'
    BY <2>1, FilesStay
  <2> QED BY <1>8, <2>2, BreakStep DEF ChannelOK
<1> QED
  BY <1>2, <1>3, <1>4, <1>5, <1>6, <1>7, <1>8 DEF Socket

\* Every step keeps what is on its way in order.
LEMMA StepChannel == ChannelInv /\ [Next]_vars => ChannelInv'
<1> SUFFICES ASSUME ChannelInv, [Next]_vars PROVE ChannelInv'
  OBVIOUS
<1>1. PICK t, u : Streams(t, u)
  BY DEF ChannelInv
<1>2. SocketOK /\ FilesOK
  BY DEF ChannelInv
<1>3. CASE UNCHANGED vars
  <2>1. /\ UNCHANGED <<pc, want, up, filename, taken, offered, chosen, keyless>>
        /\ UNCHANGED <<out, got, wire>>
    BY <1>3 DEF vars, socket, server, client
  <2>2. \A r \in Side : Stream(r)' = Stream(r)
    BY <2>1 DEF Stream
  <2>3. Streams(t, u)'
    BY <1>1, <2>1, <2>2, StreamsStay
  <2>4. SocketOK' /\ FilesOK'
    BY <1>2, <2>1 DEF SocketOK, FilesOK
  <2> QED BY <2>3, <2>4 DEF ChannelInv
<1>4. CASE ClientStep \/ SendName \/ Quit
  BY <1>1, <1>2, <1>4, ClientStepHolds DEF ChannelInv, ChannelOK
<1>5. CASE ServerStep
  BY <1>1, <1>2, <1>5, ServerStepHolds DEF ChannelInv, ChannelOK
<1>6. CASE Connect \/ ConnectFails \/ Break
  <2>1. "client" \in Side
    BY DEF Side
  <2> QED BY <1>1, <1>2, <1>6, <2>1, OtherStepHolds DEF ChannelInv, ChannelOK
<1>7. CASE \E s \in Side : Socket(s) \/ Interrupt(s)
  BY <1>1, <1>2, <1>7, OtherStepHolds DEF ChannelInv, ChannelOK
<1> QED
  BY <1>3, <1>4, <1>5, <1>6, <1>7 DEF Next

\* At every moment what is on its way is a succession of whole parts of messages, of
\* which only the last may be cut off, and both programs stand where one of them ends;
\* an announced key that could not be encrypted lacks its last part.
THEOREM ChannelInvariant == Spec => []ChannelInv
  BY InitChannel, StepChannel, PTL DEF Spec

\* The two sides stay in step: what read_bytes returns is the integer or the whole blob
\* that the caller takes it for, however the bytes have been cut up; only where the
\* server reads a key that the client could not encrypt it has something else, and ends.
THEOREM ChannelInStep == Spec => []InStep
  BY ChannelInvariant, BothInStep, PTL

\* The start of the transfer.
LEMMA TransferInit == Init => Transfer!Init
<1> SUFFICES ASSUME Init PROVE Transfer!Init
  OBVIOUS
<1>1. offered = <<>> /\ taken = 0 /\ stored = [b \in {BaseOf[p] : p \in Path} |-> {}]
  BY DEF Init
<1>2. [b \in {BaseOf[p] : p \in Path} |-> {}] \in [{BaseOf[p] : p \in Path} -> {{}}]
  OBVIOUS
<1> QED
  BY <1>1, <1>2 DEF Transfer!Init

\* The data of a file is that of the next file offered.
LEMMA DataIsNext ==
    ASSUME ChannelInv, At("server", "data")
    PROVE  /\ taken \in Nat /\ taken < Len(offered) /\ offered[taken + 1] = filename
           /\ Value(got["server"]).path = filename
<1>1. PICK t, u : Streams(t, u)
  BY DEF ChannelInv
<1>2. ToServer(t)
  BY <1>1 DEF Streams, At, Gone
<1>3. PICK m : m = t[0].m
  OBVIOUS
<1>4. m.type = "data" /\ t[0].part = 2 /\ Letter(m) /\ Value(got["server"]).path = m.name
  BY <1>2, <1>3, DataAtHand DEF ChannelInv
<1>5. taken = m.files - 1 /\ filename = m.name /\ m.files \in Nat
  BY <1>2, <1>3, <1>4 DEF ToServer, ServerHas, Letter
<1>6. Tracks(m)
  <2>1. 0 \in 0 .. Len(Stream("server"))
    <3>1. Len(Stream("server")) \in Nat
      BY StreamShape DEF Side, ChannelInv
    <3> QED BY <3>1
  <2> QED BY <1>2, <1>3, <2>1 DEF ToServer
<1>7. m.files \in 0 .. Len(offered) /\ m.files > 0 /\ offered[m.files] = m.name
  BY <1>4, <1>6 DEF Tracks
<1>8. Len(offered) \in Nat
  BY DEF ChannelInv, FilesOK
<1> QED
  BY <1>4, <1>5, <1>7, <1>8

\* What the server does with it.
LEMMA TransferTakes ==
    ASSUME ChannelInv, HandleData
    PROVE  Transfer!Take \/ UNCHANGED Transfer!vars
<1>0. At("server", "data") /\ offered' = offered
  BY DEF HandleData, client
<1>1. CASE UNCHANGED <<stored, taken>>
  BY <1>0, <1>1 DEF Transfer!vars
<1>2. CASE /\ taken' = taken + 1
           /\ \/ stored' = [stored EXCEPT ![BaseOf[filename]] = {Value(got["server"]).path}]
              \/ stored' = stored
  <2>1. /\ taken \in Nat /\ taken < Len(offered) /\ offered[taken + 1] = filename
        /\ Value(got["server"]).path = filename
    BY <1>0, DataIsNext
  <2>2. stored' \in {stored, [stored EXCEPT ![BaseOf[offered[taken + 1]]] = {offered[taken + 1]}]}
    BY <1>2, <2>1
  <2>3. Transfer!Take
    BY <1>0, <1>2, <2>1, <2>2 DEF Transfer!Take
  <2> QED BY <2>3
<1> QED
  BY <1>1, <1>2 DEF HandleData

\* Every step is one of the transfer or none.
LEMMA TransferStep == ChannelInv /\ [Next]_vars => [Transfer!Next]_(Transfer!vars)
<1> SUFFICES ASSUME ChannelInv, [Next]_vars PROVE Transfer!Next \/ UNCHANGED Transfer!vars
  OBVIOUS
<1>1. CASE UNCHANGED vars
  BY <1>1 DEF vars, server, client, Transfer!vars
<1>2. CASE HandleData
  BY <1>2, TransferTakes DEF Transfer!Next
<1>3. CASE SendFile
  <2>1. UNCHANGED <<taken, stored>> /\ chosen \in Path
    BY <1>3 DEF SendFile, server, At, ChannelInv, FilesOK
  <2>2. offered' = Append(offered, chosen) \/ offered' = offered
    BY <1>3 DEF SendFile, SendData
  <2>3. CASE offered' = Append(offered, chosen)
    BY <2>1, <2>3 DEF Transfer!Offer, Transfer!Next
  <2>4. CASE offered' = offered
    BY <2>1, <2>4 DEF Transfer!vars
  <2> QED BY <2>2, <2>3, <2>4
<1>4. CASE \/ Connect \/ ConnectFails \/ SendName \/ Quit \/ Break
           \/ SendChallenge \/ ReadSignature \/ ReadCertificate \/ VerifyServer \/ SendKey \/ Disconnect
  BY <1>4 DEF Connect, ConnectFails, SendName, Quit, Break, SendChallenge, ReadSignature,
              ReadCertificate, VerifyServer, SendKey, Disconnect, server, client, Transfer!vars
<1>5. CASE Dispatch \/ ReadLength \/ ReadName \/ SignChallenge \/ SendCertificate \/ ReadKey
  <2>1. UNCHANGED <<offered, taken, stored>>
    BY <1>5 DEF Dispatch, ReadLength, ReadName, HandleFilename, SignChallenge, SendCertificate, ReadKey,
                server, client
  <2> QED BY <2>1 DEF Transfer!vars
<1>6. CASE \E s \in Side : Socket(s) \/ Interrupt(s)
  BY <1>6 DEF Socket, Send, SendFails, Receive, ReceiveFails, Interrupt, server, client, Transfer!vars
<1> QED
  BY <1>1, <1>2, <1>3, <1>4, <1>5, <1>6 DEF Next, ClientStep, ServerStep

\* The server stores the files that the client sent data for, in that order and each
\* under its own name, also when a name was sent and its data never followed.
THEOREM ChannelKeepsTransfer == Spec => KeepsTransfer
<1>1. Init /\ [][Next]_vars /\ []ChannelInv => Transfer!Init /\ [][Transfer!Next]_(Transfer!vars)
  BY TransferInit, TransferStep, PTL
<1> QED
  BY <1>1, ChannelInvariant, PTL DEF Spec, KeepsTransfer, Transfer!Spec

\* The close message comes when the files offered before it are dealt with.
LEMMA CloseComesLast ==
    ASSUME ChannelInv, At("server", "type"), bytes_to_int(got["server"]) = MSG_CLOSE
    PROVE  taken = Len(offered)
<1>1. PICK t, u : Streams(t, u)
  BY DEF ChannelInv
<1>2. /\ SocketOK /\ pc["server"] = "type" /\ At("server", pc["server"]) /\ ToServer(t)
      /\ IntBytes > 0
  BY <1>1, ChannelAssumption DEF Streams, At, Gone, ChannelInv
<1>3. /\ ServerAt(t[0]) /\ ServerHas(t[0]) /\ Letter(t[0].m) /\ t[0].part \in 1 .. 3
  <2>1. Len(Stream("server")) \in Nat
    BY <1>2, StreamShape DEF Side
  <2> QED BY <1>2, <2>1 DEF ToServer, Flow
<1>4. Ends(t[0]) /\ want["server"] = IntBytes /\ ~Lacks(t[0])
  BY <1>2, <1>3, OnlyKeyLacks DEF ServerAt, LengthLabel, After
<1>5. PICK m, part : Handed(ClientTypes, t, "server", m, part) /\ ServerPart(t[0], m, part)
  BY <1>2, <1>4, ServerReads
<1>6. /\ Succ(t[0].m, m) /\ m.type \in DOMAIN Type /\ part = 1 /\ Letter(m) /\ m.type # "none"
  BY <1>2, <1>5 DEF ServerPart, LengthLabel, After, Handed
<1>7. bytes_to_int(got["server"]) = Type[m.type]
  BY <1>5, <1>6, Parts DEF Handed
<1>8. m.type = "close"
  BY <1>6, <1>7 DEF Type, MSG_FILENAME, MSG_FILE_DATA, MSG_CLOSE, MSG_AUTH, MSG_SYMKEY
<1>9. taken = t[0].m.files
  BY <1>3, <1>4, EndedMessage
<1>10. m.files = t[0].m.files
  BY <1>6, <1>8 DEF Succ
<1>11. Tracks(m)
  <2>1. t[want["server"]].m = m /\ want["server"] \in 1 .. Len(Stream("server"))
    BY <1>5 DEF Handed
  <2>2. Len(Stream("server")) \in Nat
    BY <1>2, StreamShape DEF Side
  <2>3. want["server"] \in 0 .. Len(Stream("server"))
    BY <2>1, <2>2
  <2> QED BY <1>2, <2>1, <2>3 DEF ToServer
<1> QED
  BY <1>8, <1>9, <1>10, <1>11 DEF Tracks

\* A server that closes because it was told to has dealt with every file offered.
THEOREM ChannelClosesWhenDone == Spec => ClosesWhenDone
<1>1. ChannelInv => ( At("server", "type") /\ pc'["server"] = "done"
                        /\ bytes_to_int(got["server"]) = MSG_CLOSE => taken = Len(offered) )
  BY CloseComesLast
<1> QED
  BY <1>1, ChannelInvariant, PTL DEF ClosesWhenDone
===============================================================================
