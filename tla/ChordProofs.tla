----------------------------- MODULE ChordProofs ------------------------------
(***************************************************************************)
(* Proofs about Chord, for any number of bits and any nodes: the tables    *)
(* are well formed, their entries name the owners, the intervals cover the *)
(* ring once, and hops come closer to a key's owner.                       *)
(*                                                                         *)
(* The provers know nothing of exponents; the powers of two come from the  *)
(* sizes of power sets.                                                    *)
(***************************************************************************)
EXTENDS Chord, FunctionTheorems, FiniteSetTheorems, WellFoundedInduction, TLAPS

(* Powers of two *)

\* One more element doubles the number of subsets.
LEMMA Doubles ==
    ASSUME NEW n \in Nat
    PROVE  2 ^ (n + 1) = 2 * 2 ^ n
<1> DEFINE A == SUBSET (1 .. n)
           B == {U \cup {n + 1} : U \in A}
<1>1. /\ IsFiniteSet(1 .. n) /\ Cardinality(1 .. n) = n
      /\ IsFiniteSet(1 .. n + 1) /\ Cardinality(1 .. n + 1) = n + 1
  BY FS_Interval
<1>2. /\ IsFiniteSet(A) /\ Cardinality(A) = 2 ^ n
      /\ Cardinality(SUBSET (1 .. n + 1)) = 2 ^ (n + 1)
  <2>1. IsFiniteSet(A) /\ Cardinality(A) = 2 ^ Cardinality(1 .. n)
    BY <1>1, FS_SUBSET
  <2>2. Cardinality(SUBSET (1 .. n + 1)) = 2 ^ Cardinality(1 .. n + 1)
    BY <1>1, FS_SUBSET
  <2> HIDE DEF A
  <2> QED BY <1>1, <2>1, <2>2
<1>3. IsFiniteSet(B) /\ Cardinality(B) = Cardinality(A)
  <2> DEFINE f == [U \in A |-> U \cup {n + 1}]
  <2>1. f \in Bijection(A, B)
    <3>1. f \in [A -> B] /\ \A b \in B : \E U \in A : f[U] = b
      OBVIOUS
    <3>2. ASSUME NEW U \in A, NEW V \in A, f[U] = f[V] PROVE U = V
      <4>1. U \cup {n + 1} = V \cup {n + 1}
        BY <3>2
      <4>2. n + 1 \notin U /\ n + 1 \notin V
        <5>1. n + 1 \notin 1 .. n
          OBVIOUS
        <5> QED BY <5>1
      <4> QED BY <4>1, <4>2
    <3> HIDE DEF f, A, B
    <3> QED BY <3>1, <3>2, Fun_IsBij
  <2>2. ExistsBijection(A, B)
    BY <2>1 DEF ExistsBijection
  <2> HIDE DEF A, B
  <2> QED BY <1>2, <2>2, FS_Bijection
<1>4. A \cup B = SUBSET (1 .. n + 1)
  <2>1. 1 .. n + 1 = (1 .. n) \cup {n + 1}
    OBVIOUS
  <2>2. ASSUME NEW W \in SUBSET (1 .. n + 1), W \notin A PROVE W \in B
    <3>1. n + 1 \in W
      BY <2>1, <2>2
    <3>2. W \ {n + 1} \in A /\ W = (W \ {n + 1}) \cup {n + 1}
      BY <2>1, <3>1
    <3> QED BY <3>2
  <2>3. A \subseteq SUBSET (1 .. n + 1) /\ B \subseteq SUBSET (1 .. n + 1)
    BY <2>1
  <2> HIDE DEF A, B
  <2> QED BY <2>2, <2>3
<1>5. A \cap B = {}
  <2>1. n + 1 \notin 1 .. n
    OBVIOUS
  <2> QED BY <2>1
<1>6. Cardinality(A) \in Nat /\ Cardinality(A \cap B) = 0
  <2> HIDE DEF A, B
  <2> QED BY <1>2, <1>5, FS_CardinalityType, FS_EmptySet
<1>7. Cardinality(A \cup B) = Cardinality(A) + Cardinality(B) - Cardinality(A \cap B)
  <2> HIDE DEF A, B
  <2> QED BY <1>2, <1>3, FS_Union
<1>8. Cardinality(A \cup B) = 2 * Cardinality(A)
  <2> HIDE DEF A, B
  <2> QED BY <1>3, <1>6, <1>7
<1> QED
  <2> HIDE DEF A, B
  <2> QED BY <1>2, <1>4, <1>8

\* The powers of two, from the sizes of power sets.
LEMMA Powers ==
    /\ 2 ^ 0 = 1
    /\ \A i \in Nat : 2 ^ i \in Nat \ {0}
    /\ \A i \in Nat : 2 ^ (i + 1) = 2 * 2 ^ i
    /\ \A i, j \in Nat : i <= j => 2 ^ i <= 2 ^ j
<1>1. ASSUME NEW i \in Nat
      PROVE  /\ IsFiniteSet(SUBSET (1 .. i)) /\ Cardinality(SUBSET (1 .. i)) = 2 ^ i
             /\ 2 ^ i \in Nat \ {0}
  <2>1. IsFiniteSet(1 .. i) /\ Cardinality(1 .. i) = i
    BY FS_Interval
  <2>2. IsFiniteSet(SUBSET (1 .. i)) /\ Cardinality(SUBSET (1 .. i)) = 2 ^ Cardinality(1 .. i)
    BY <2>1, FS_SUBSET
  <2>3. Cardinality(SUBSET (1 .. i)) \in Nat
    BY <2>2, FS_CardinalityType
  <2>4. SUBSET (1 .. i) # {}
    OBVIOUS
  <2>5. Cardinality(SUBSET (1 .. i)) # 0
    BY <2>2, <2>4, FS_EmptySet
  <2> QED BY <2>1, <2>2, <2>3, <2>5
<1>2. ASSUME NEW i \in Nat, NEW j \in Nat, i <= j PROVE 2 ^ i <= 2 ^ j
  <2>1. 1 .. i \subseteq 1 .. j
    BY <1>2
  <2>2. SUBSET (1 .. i) \in SUBSET (SUBSET (1 .. j))
    BY <2>1
  <2>3. Cardinality(SUBSET (1 .. i)) <= Cardinality(SUBSET (1 .. j))
    BY <1>1, <2>2, FS_Subset
  <2> QED BY <1>1, <2>3
<1>3. 2 ^ 0 = 1
  OBVIOUS
<1> QED
  BY <1>1, <1>2, <1>3, Doubles

-------------------------------------------------------------------------------
(* The ring of keys *)

\* The keys are numbers from 0, at least two of them and no more than a byte has.
LEMMA Keys == Keyspace \in Nat /\ 2 <= Keyspace /\ Keyspace <= 256 /\ Keyspace = 2 * 2 ^ (M_BITS - 1)
<1>1. M_BITS \in Nat /\ M_BITS - 1 \in Nat /\ (M_BITS - 1) + 1 = M_BITS
  BY BitsAssumption
<1>2. 2 ^ M_BITS = 2 * 2 ^ (M_BITS - 1) /\ 2 ^ (M_BITS - 1) \in Nat \ {0} /\ 2 ^ M_BITS \in Nat
  <2>1. 2 ^ ((M_BITS - 1) + 1) = 2 * 2 ^ (M_BITS - 1)
    BY <1>1, Powers
  <2> QED BY <1>1, <2>1, Powers
<1> QED
  BY <1>2, BitsAssumption DEF Keyspace

\* Once around the ring, in either direction.
LEMMA Around ==
    /\ \A n \in 0 .. Keyspace - 1 : n % Keyspace = n
    /\ \A n \in Keyspace .. 2 * Keyspace - 1 : n % Keyspace = n - Keyspace
    /\ \A n \in 1 - Keyspace .. -1 : n % Keyspace = n + Keyspace
<1>1. PICK K \in Nat \ {0} : K = Keyspace
  BY Keys
<1>2. /\ \A n \in 0 .. K - 1 : n % K = n
      /\ \A n \in K .. 2 * K - 1 : n % K = n - K
      /\ \A n \in 1 - K .. -1 : n % K = n + K
  OBVIOUS
<1> QED
  BY <1>1, <1>2

\* How far it is from one key to another.
LEMMA Distance ==
    ASSUME NEW a \in Key, NEW b \in Key
    PROVE  /\ Clockwise(a, b) = IF a <= b THEN b - a ELSE b - a + Keyspace
           /\ Clockwise(a, b) \in 0 .. Keyspace - 1
<1>1. a \in 0 .. Keyspace - 1 /\ b \in 0 .. Keyspace - 1 /\ Keyspace \in Nat
  BY Keys DEF Key
<1>2. CASE a <= b
  <2>1. b - a \in 0 .. Keyspace - 1
    BY <1>1, <1>2
  <2> QED BY <1>2, <2>1, Around DEF Clockwise
<1>3. CASE ~(a <= b)
  <2>1. b - a \in 1 - Keyspace .. -1
    BY <1>1, <1>3
  <2>2. b - a + Keyspace \in 0 .. Keyspace - 1
    BY <1>1, <1>3
  <2> QED BY <1>3, <2>1, <2>2, Around DEF Clockwise
<1> QED
  BY <1>2, <1>3

\* Distances tell keys apart, and add up.
LEMMA DistanceSame ==
    ASSUME NEW a \in Key, NEW b \in Key, NEW c \in Key, Clockwise(a, b) = Clockwise(a, c)
    PROVE  b = c
<1>1. a \in Int /\ b \in 0 .. Keyspace - 1 /\ c \in 0 .. Keyspace - 1 /\ Keyspace \in Nat
  BY Keys DEF Key
<1> QED
  BY <1>1, Distance

\* A key at a distance from another, and the distance between two such keys.
LEMMA DistanceAdds ==
    ASSUME NEW a \in Key, NEW b \in Key, NEW c \in Key
    PROVE  Clockwise(b, c) = IF Clockwise(a, b) <= Clockwise(a, c)
                             THEN Clockwise(a, c) - Clockwise(a, b)
                             ELSE Clockwise(a, c) - Clockwise(a, b) + Keyspace
<1>1. /\ a \in 0 .. Keyspace - 1 /\ b \in 0 .. Keyspace - 1 /\ c \in 0 .. Keyspace - 1
      /\ Keyspace \in Nat
  BY Keys DEF Key
<1>2. /\ Clockwise(a, b) = IF a <= b THEN b - a ELSE b - a + Keyspace
      /\ Clockwise(a, c) = IF a <= c THEN c - a ELSE c - a + Keyspace
      /\ Clockwise(b, c) = IF b <= c THEN c - b ELSE c - b + Keyspace
  BY Distance
<1> QED
  BY <1>1, <1>2

\* A finger starts a power of two away from its node, and its interval is as long.
LEMMA Starts ==
    ASSUME NEW n \in Key, NEW i \in Finger
    PROVE  /\ finger_start(n, i) \in Key /\ finger_interval_end(n, i) \in Key
           /\ 2 ^ (i - 1) \in Nat \ {0} /\ 2 ^ i = 2 * 2 ^ (i - 1) /\ 2 ^ i <= Keyspace
           /\ Clockwise(n, finger_start(n, i)) = 2 ^ (i - 1)
           /\ Clockwise(finger_start(n, i), finger_interval_end(n, i)) = 2 ^ (i - 1)
<1>0. Keyspace \in Nat /\ 2 <= Keyspace /\ Keyspace <= 256 /\ n \in 0 .. Keyspace - 1
  BY Keys DEF Key
<1>1. i \in Nat /\ i - 1 \in Nat /\ (i - 1) + 1 = i /\ i <= M_BITS /\ M_BITS \in Nat
  BY BitsAssumption DEF Finger
<1>2. PICK p \in Nat \ {0} : p = 2 ^ (i - 1)
  BY <1>1, Powers
<1>3. 2 ^ i = 2 * p
  <2>1. 2 ^ ((i - 1) + 1) = 2 * 2 ^ (i - 1)
    BY <1>1, Powers
  <2> QED BY <1>1, <1>2, <2>1
<1>4. 2 * p <= Keyspace
  BY <1>1, <1>3, Powers DEF Keyspace
<1>5. \A k \in Key : k % 256 = k
  BY <1>0 DEF Key
<1>6. PICK s \in Key : s = finger_start(n, i) /\ s = IF n + p < Keyspace THEN n + p ELSE n + p - Keyspace
  <2>1. CASE n + p < Keyspace
    <3>1. n + p \in 0 .. Keyspace - 1
      BY <1>0, <2>1
    <3>2. (n + p) % Keyspace = n + p
      BY <3>1, Around
    <3> QED BY <1>2, <1>5, <2>1, <3>1, <3>2 DEF finger_start, Key
  <2>2. CASE ~(n + p < Keyspace)
    <3>1. n + p \in Keyspace .. 2 * Keyspace - 1 /\ n + p - Keyspace \in 0 .. Keyspace - 1
      BY <1>0, <1>4, <2>2
    <3>2. (n + p) % Keyspace = n + p - Keyspace
      BY <1>0, <3>1, Around
    <3> QED BY <1>2, <1>5, <2>2, <3>1, <3>2 DEF finger_start, Key
  <2> QED BY <2>1, <2>2
<1>7. PICK e \in Key : e = finger_interval_end(n, i)
                       /\ e = IF n + 2 * p < Keyspace THEN n + 2 * p ELSE n + 2 * p - Keyspace
  <2>1. CASE n + 2 * p < Keyspace
    <3>1. n + 2 * p \in 0 .. Keyspace - 1
      BY <1>0, <2>1
    <3>2. (n + 2 * p) % Keyspace = n + 2 * p
      BY <3>1, Around
    <3> QED BY <1>3, <1>5, <2>1, <3>1, <3>2 DEF finger_interval_end, Key
  <2>2. CASE ~(n + 2 * p < Keyspace)
    <3>1. n + 2 * p \in Keyspace .. 2 * Keyspace - 1 /\ n + 2 * p - Keyspace \in 0 .. Keyspace - 1
      BY <1>0, <1>4, <2>2
    <3>2. (n + 2 * p) % Keyspace = n + 2 * p - Keyspace
      BY <1>0, <3>1, Around
    <3> QED BY <1>3, <1>5, <2>2, <3>1, <3>2 DEF finger_interval_end, Key
  <2> QED BY <2>1, <2>2
<1>8. Clockwise(n, s) = p
  <2>1. Clockwise(n, s) = IF n <= s THEN s - n ELSE s - n + Keyspace
    BY Distance
  <2> QED BY <1>0, <1>4, <1>6, <2>1
<1>9. Clockwise(s, e) = p
  <2>1. Clockwise(s, e) = IF s <= e THEN e - s ELSE e - s + Keyspace
    BY Distance
  <2> QED BY <1>0, <1>4, <1>6, <1>7, <2>1
<1> QED
  BY <1>2, <1>3, <1>4, <1>6, <1>7, <1>8, <1>9

-------------------------------------------------------------------------------
(* The list of nodes *)

\* A set of numbers has a least one.
LEMMA LeastExists ==
    ASSUME NEW T \in SUBSET Nat, T # {}
    PROVE  \E m \in T : \A n \in T : m <= n
<1>1. \E m \in T : \A n \in T : ~(<<n, m>> \in OpToRel(<, Nat))
  BY NatLessThanWellFounded, WFMin
<1>2. PICK m \in T : \A n \in T : ~(<<n, m>> \in OpToRel(<, Nat))
  BY <1>1
<1>3. ASSUME NEW n \in T PROVE m <= n
  <2>1. ~(n < m)
    BY <1>2 DEF OpToRel
  <2> QED
    BY <2>1
<1> QED
  BY <1>2, <1>3

\* How many of a ring are below a number.
Rank(ring, p) == Cardinality({q \in ring : q < p})

\* Ranks are in the order of the nodes, and there is one node of each.
LEMMA Ranks ==
    ASSUME NEW ring \in SUBSET Key, ring # {}
    PROVE  /\ Cardinality(ring) \in Nat \ {0}
           /\ \A p \in ring : Rank(ring, p) \in 0 .. Cardinality(ring) - 1
           /\ \A p, q \in ring : p < q => Rank(ring, p) < Rank(ring, q)
           /\ \A k \in 0 .. Cardinality(ring) - 1 : \E p \in ring : Rank(ring, p) = k
<1>0. IsFiniteSet(ring) /\ Cardinality(ring) \in Nat \ {0} /\ ring \subseteq Nat
  <2>1. IsFiniteSet(Key) /\ Key \subseteq Nat
    <3>1. 0 \in Int /\ Keyspace - 1 \in Int
      BY Keys
    <3> QED BY <3>1, FS_Interval DEF Key
  <2>2. IsFiniteSet(ring)
    BY <2>1, FS_Subset
  <2> QED BY <2>1, <2>2, FS_CardinalityType, FS_EmptySet
<1>1. ASSUME NEW p \in ring
      PROVE  /\ IsFiniteSet({q \in ring : q < p})
             /\ Rank(ring, p) \in 0 .. Cardinality(ring) - 1
  <2> DEFINE T == {q \in ring : q < p}
  <2>1. T \in SUBSET ring /\ p \notin T
    BY <1>0
  <2> HIDE DEF T
  <2>2. IsFiniteSet(T) /\ Cardinality(T) <= Cardinality(ring)
          /\ (Cardinality(ring) = Cardinality(T) => ring = T)
    BY <1>0, <2>1, FS_Subset
  <2>3. Cardinality(T) \in Nat
    BY <2>2, FS_CardinalityType
  <2>4. Cardinality(T) # Cardinality(ring)
    BY <2>1, <2>2
  <2>5. Cardinality(T) \in 0 .. Cardinality(ring) - 1
    BY <1>0, <2>2, <2>3, <2>4
  <2> QED BY <2>2, <2>5 DEF Rank, T
<1>2. ASSUME NEW p \in ring, NEW q \in ring, p < q PROVE Rank(ring, p) < Rank(ring, q)
  <2> DEFINE T == {r \in ring : r < p}
             U == {r \in ring : r < q}
  <2>1. T \in SUBSET U /\ p \in U /\ p \notin T
    <3>1. p \in Nat /\ q \in Nat /\ \A r \in ring : r \in Nat
      BY <1>0
    <3>2. \A r \in ring : r < p => r < q
      BY <1>2, <3>1
    <3>3. ~(p < p)
      BY <3>1
    <3>4. p \in U /\ p \notin T
      BY <1>2, <3>3
    <3>5. T \subseteq U
      BY <3>2
    <3> QED BY <3>4, <3>5
  <2>2. IsFiniteSet(U)
    BY <1>1
  <2>0. Rank(ring, p) = Cardinality(T) /\ Rank(ring, q) = Cardinality(U)
    BY DEF Rank
  <2>3. Cardinality(T) \in Int /\ Cardinality(U) \in Int
    BY <1>0, <1>1, <2>0
  <2> HIDE DEF T, U
  <2>4. Cardinality(T) <= Cardinality(U) /\ (Cardinality(U) = Cardinality(T) => U = T)
    BY <2>1, <2>2, FS_Subset
  <2> QED BY <2>0, <2>1, <2>3, <2>4
<1>3. ASSUME NEW k \in 0 .. Cardinality(ring) - 1 PROVE \E p \in ring : Rank(ring, p) = k
  <2> DEFINE R == 0 .. Cardinality(ring) - 1
             f == [p \in ring |-> Rank(ring, p)]
  <2>1. IsFiniteSet(R) /\ Cardinality(R) = Cardinality(ring)
    <3>1. Cardinality(ring) - 1 \in Int /\ ~(0 > Cardinality(ring) - 1)
            /\ (Cardinality(ring) - 1) - 0 + 1 = Cardinality(ring)
      BY <1>0
    <3> QED BY <3>1, FS_Interval
  <2>2. f \in [ring -> R]
    BY <1>1
  <2>3. ASSUME NEW p \in ring, NEW q \in ring, f[p] = f[q] PROVE p = q
    <3>0. f[p] = Rank(ring, p) /\ f[q] = Rank(ring, q)
      OBVIOUS
    <3>1. Rank(ring, p) = Rank(ring, q) /\ Rank(ring, p) \in Int
      <4>1. Rank(ring, p) \in 0 .. Cardinality(ring) - 1
        BY <1>1
      <4>2. Rank(ring, p) \in Int
        BY <1>0, <4>1
      <4>3. Rank(ring, p) = Rank(ring, q)
        BY <2>3, <3>0
      <4> QED BY <4>2, <4>3
    <3>2. p \in Nat /\ q \in Nat
      BY <1>0
    <3>3. ~(p < q) /\ ~(q < p)
      BY <1>2, <3>1
    <3> QED BY <3>2, <3>3
  <2> HIDE DEF R, f
  <2>4. f \in Injection(ring, R)
    BY <2>2, <2>3, Fun_IsInj
  <2>5. f \in Surjection(ring, R)
    BY <2>1, <2>4, FS_Injection
  <2>6. PICK p \in ring : f[p] = k
    BY <2>5 DEF Surjection, R
  <2> QED BY <2>6 DEF f
<1> QED
  BY <1>0, <1>1, <1>2, <1>3

\* The list of a ring's nodes: all of them, in ascending order.
Listed(s, ring) ==
    /\ ring \in SUBSET Key /\ ring # {}
    /\ s \in Seq(ring) /\ Len(s) \in Nat \ {0}
    /\ \A j, k \in 1 .. Len(s) : j < k => s[j] < s[k]
    /\ ToSet(s) = ring

\* Sorting lists every node once.
LEMMA AscendingLists ==
    ASSUME NEW ring \in SUBSET Key, ring # {}
    PROVE  Listed(Ascending(ring), ring)
<1> DEFINE s == Ascending(ring)
           N == Cardinality(ring)
<1>1. /\ N \in Nat \ {0} /\ ring \subseteq Nat
      /\ \A p \in ring : Rank(ring, p) \in 0 .. N - 1
      /\ \A p, q \in ring : p < q => Rank(ring, p) < Rank(ring, q)
      /\ \A k \in 0 .. N - 1 : \E p \in ring : Rank(ring, p) = k
  BY Ranks, Keys DEF Key
<1>2. s = [k \in 1 .. N |-> CHOOSE p \in ring : Rank(ring, p) = k - 1]
  BY DEF Ascending, Rank
<1>3. ASSUME NEW k \in 1 .. N PROVE s[k] \in ring /\ Rank(ring, s[k]) = k - 1
  <2>1. k - 1 \in 0 .. N - 1
    BY <1>1
  <2>2. \E p \in ring : Rank(ring, p) = k - 1
    BY <1>1, <2>1
  <2>3. s[k] = CHOOSE p \in ring : Rank(ring, p) = k - 1
    <3> HIDE DEF s, N
    <3> QED BY <1>2
  <2> HIDE DEF s
  <2> QED BY <2>2, <2>3
<1> HIDE DEF s, N
<1>4. s \in [1 .. N -> ring] /\ s \in Seq(ring) /\ Len(s) = N
  <2>1. s \in [1 .. N -> ring]
    BY <1>2, <1>3
  <2> QED BY <1>1, <2>1
<1>5. ASSUME NEW j \in 1 .. N, NEW k \in 1 .. N, j < k PROVE s[j] < s[k]
  <2>1. s[j] \in Nat /\ s[k] \in Nat
    BY <1>1, <1>3
  <2>2. s[j] # s[k]
    BY <1>1, <1>3, <1>5
  <2>3. ASSUME s[k] < s[j] PROVE FALSE
    <3>1. Rank(ring, s[k]) < Rank(ring, s[j])
      <4>1. s[j] \in ring /\ s[k] \in ring
        BY <1>3
      <4> QED BY <1>1, <2>3, <4>1
    <3>2. Rank(ring, s[j]) = j - 1 /\ Rank(ring, s[k]) = k - 1
      BY <1>3
    <3> QED BY <1>1, <1>5, <3>1, <3>2
  <2> QED BY <2>1, <2>2, <2>3
<1>6. ASSUME NEW p \in ring PROVE \E k \in 1 .. N : s[k] = p
  <2>1. Rank(ring, p) \in 0 .. N - 1
    BY <1>1
  <2>2. PICK k \in 1 .. N : k - 1 = Rank(ring, p)
    <3>1. Rank(ring, p) + 1 \in 1 .. N /\ (Rank(ring, p) + 1) - 1 = Rank(ring, p)
      BY <1>1, <2>1
    <3> QED BY <3>1
  <2>3. s[k] \in ring /\ Rank(ring, s[k]) = Rank(ring, p)
    BY <1>3, <2>2
  <2>4. PICK q \in ring : q = s[k]
    BY <2>3
  <2>5. q \in Nat /\ p \in Nat /\ Rank(ring, q) = Rank(ring, p) /\ Rank(ring, p) \in Int
    BY <1>1, <2>1, <2>3, <2>4
  <2>6. ~(q < p) /\ ~(p < q)
    BY <1>1, <2>5
  <2>7. s[k] = p
    BY <2>4, <2>5, <2>6
  <2> QED BY <2>7
<1>7. ToSet(s) = ring
  <2>1. DOMAIN s = 1 .. N
    BY <1>4
  <2> QED BY <1>3, <1>6, <2>1 DEF ToSet
<1>8. Listed(s, ring)
  BY <1>1, <1>4, <1>5, <1>7 DEF Listed
<1> QED
  BY <1>8 DEF s

-------------------------------------------------------------------------------
(* Owners and tables *)

Peers == ToSet(peers)

\* Every key has exactly one owner.
LEMMA OwnerExists ==
    ASSUME Listed(peers, Peers), NEW key \in Key
    PROVE  /\ Owner(key) \in Peers
           /\ \A q \in Peers : Clockwise(key, Owner(key)) <= Clockwise(key, q)
<1> DEFINE T == {Clockwise(key, q) : q \in Peers}
<1>1. Peers \subseteq Key /\ Peers # {}
  BY DEF Listed
<1>2. T \in SUBSET Nat /\ T # {}
  <2>1. \A q \in Peers : Clockwise(key, q) \in Nat
    BY <1>1, Keys, Distance
  <2> QED BY <1>1, <2>1
<1>3. PICK m \in T : \A d \in T : m <= d
  <2> HIDE DEF T
  <2> QED BY <1>2, LeastExists
<1>4. \E p \in Peers : \A q \in Peers : Clockwise(key, p) <= Clockwise(key, q)
  BY <1>3
<1> QED
  BY <1>4 DEF Owner, Peers

\* A node that no other is nearer than is the owner.
LEMMA OwnerIs ==
    ASSUME Listed(peers, Peers), NEW key \in Key, NEW p \in Peers,
           \A q \in Peers : Clockwise(key, p) <= Clockwise(key, q)
    PROVE  p = Owner(key)
<1>1. Peers \subseteq Key
  BY DEF Listed
<1>2. PICK o \in Peers : o = Owner(key) /\ \A q \in Peers : Clockwise(key, o) <= Clockwise(key, q)
  BY OwnerExists
<1>3. p \in Key /\ o \in Key
  BY <1>1
<1>4. Clockwise(key, p) \in Int /\ Clockwise(key, o) \in Int
  BY <1>3, Keys, Distance
<1>5. Clockwise(key, p) = Clockwise(key, o)
  BY <1>2, <1>4
<1> QED
  BY <1>2, <1>3, <1>5, DistanceSame

\* The search of the list finds the owner.
LEMMA SearchFindsOwner ==
    ASSUME Listed(peers, Peers), NEW key \in Key
    PROVE  find_successor_linear(key) = Owner(key)
<1> DEFINE after == {k \in DOMAIN peers : peers[k] >= key}
<1>0. key \in 0 .. Keyspace - 1 /\ Keyspace \in Nat
  BY Keys DEF Key
<1>1. /\ DOMAIN peers = 1 .. Len(peers) /\ Len(peers) \in Nat \ {0}
      /\ \A k \in 1 .. Len(peers) : peers[k] \in Key /\ peers[k] \in 0 .. Keyspace - 1
      /\ \A j, k \in 1 .. Len(peers) : j < k => peers[j] < peers[k]
      /\ \A q \in Peers : \E k \in 1 .. Len(peers) : q = peers[k]
      /\ \A k \in 1 .. Len(peers) : peers[k] \in Peers
  BY DEF Listed, Peers, ToSet, Key
<1>2. \A k \in 1 .. Len(peers) :
        Clockwise(key, peers[k]) = IF key <= peers[k] THEN peers[k] - key
                                   ELSE peers[k] - key + Keyspace
  BY <1>1, Distance
<1>3. CASE after = {}
  <2>1. find_successor_linear(key) = peers[1]
    BY <1>3 DEF find_successor_linear
  <2>2. ASSUME NEW k \in 1 .. Len(peers)
        PROVE  Clockwise(key, peers[1]) <= Clockwise(key, peers[k])
    <3>1. ~(peers[k] >= key) /\ ~(peers[1] >= key) /\ 1 \in 1 .. Len(peers)
      BY <1>1, <1>3
    <3>2. peers[1] <= peers[k]
      <4>1. CASE k = 1
        BY <1>1, <4>1, <3>1
      <4>2. CASE k # 1
        <5>1. 1 < k
          BY <4>2
        <5>2. peers[1] < peers[k]
          BY <1>1, <3>1, <5>1
        <5> QED BY <1>1, <3>1, <5>2
      <4> QED BY <4>1, <4>2
    <3> QED BY <1>0, <1>1, <1>2, <3>1, <3>2
  <2>3. peers[1] \in Peers
    BY <1>1
  <2>4. \A q \in Peers : Clockwise(key, peers[1]) <= Clockwise(key, q)
    BY <1>1, <2>2
  <2> QED BY <2>1, <2>3, <2>4, OwnerIs
<1>4. CASE after # {}
  <2>1. after \in SUBSET Nat
    BY <1>1
  <2>2. PICK m \in after : m = Min(after) /\ \A k \in after : m <= k
    <3> HIDE DEF after
    <3>1. \E m \in after : \A k \in after : m <= k
      BY <1>4, <2>1, LeastExists
    <3> QED BY <3>1 DEF Min
  <2>3. find_successor_linear(key) = peers[m]
    BY <1>4, <2>2 DEF find_successor_linear
  <2>4. m \in 1 .. Len(peers) /\ peers[m] >= key
    BY <1>1, <2>2
  <2>5. ASSUME NEW k \in 1 .. Len(peers)
        PROVE  Clockwise(key, peers[m]) <= Clockwise(key, peers[k])
    <3>1. CASE peers[k] >= key
      <4>1. m <= k
        BY <1>1, <2>2, <3>1
      <4>2. peers[m] <= peers[k]
        <5>1. CASE m = k
          BY <1>1, <2>4, <5>1
        <5>2. CASE m # k
          <6>1. m < k
            BY <2>4, <4>1, <5>2
          <6>2. peers[m] < peers[k]
            BY <1>1, <2>4, <6>1
          <6> QED BY <1>1, <2>4, <6>2
        <5> QED BY <5>1, <5>2
      <4> QED BY <1>0, <1>1, <1>2, <2>4, <3>1, <4>2
    <3>2. CASE ~(peers[k] >= key)
      BY <1>0, <1>1, <1>2, <2>4, <3>2
    <3> QED BY <3>1, <3>2
  <2>6. peers[m] \in Peers
    BY <1>1, <2>4
  <2>7. \A q \in Peers : Clockwise(key, peers[m]) <= Clockwise(key, q)
    BY <1>1, <2>5
  <2> QED BY <2>3, <2>6, <2>7, OwnerIs
<1> QED
  BY <1>3, <1>4

\* A table with the right starts and ends, and the owner of each start.
Correct(n, t) ==
    /\ t \in [Finger -> [start : Key, end : Key, successor : Peers]]
    /\ \A i \in Finger : /\ t[i].start = finger_start(n, i)
                         /\ t[i].end = finger_interval_end(n, i)
                         /\ t[i].successor = Owner(t[i].start)

ChordInv ==
    /\ Listed(peers, Peers)
    /\ DOMAIN fingers = Peers
    /\ \A n \in Peers : fingers[n] = None \/ Correct(n, fingers[n])

\* A table filled from a list that names every key's owner is correct.
LEMMA TableCorrect ==
    ASSUME Listed(peers, Peers), NEW n \in Peers, NEW successor,
           \A key \in Key : successor[key] = Owner(key)
    PROVE  Correct(n, Table(n, successor))
<1> DEFINE t == Table(n, successor)
<1>1. n \in Key
  BY DEF Listed
<1>2. ASSUME NEW i \in Finger
      PROVE  /\ t[i] \in [start : Key, end : Key, successor : Peers]
             /\ t[i].start = finger_start(n, i)
             /\ t[i].end = finger_interval_end(n, i)
             /\ t[i].successor = Owner(t[i].start)
  <2>1. finger_start(n, i) \in Key /\ finger_interval_end(n, i) \in Key
    BY <1>1, Starts
  <2>2. t[i] = [start |-> finger_start(n, i), end |-> finger_interval_end(n, i),
                successor |-> successor[finger_start(n, i)]]
    BY DEF Table
  <2>3. successor[finger_start(n, i)] = Owner(finger_start(n, i))
    BY <2>1
  <2>4. Owner(finger_start(n, i)) \in Peers
    BY <2>1, OwnerExists
  <2> HIDE DEF t
  <2> QED BY <2>1, <2>2, <2>3, <2>4
<1>3. t = [i \in Finger |-> t[i]]
  BY DEF Table
<1> HIDE DEF t
<1>4. t \in [Finger -> [start : Key, end : Key, successor : Peers]]
  BY <1>2, <1>3
<1>5. Correct(n, t)
  BY <1>2, <1>4 DEF Correct
<1> QED
  BY <1>5 DEF t

\* Each function that fills a table fills it correctly.
LEMMA StepChord ==
    ASSUME ChordInv, [Next]_vars
    PROVE  ChordInv'
<1>1. CASE UNCHANGED vars
  <2>1. peers' = peers /\ fingers' = fingers
    BY <1>1 DEF vars
  <2> QED BY <2>1 DEF ChordInv, Listed, Correct, Peers, Owner
<1>2. ASSUME NEW n \in Peers, NEW t, Correct(n, t),
             peers' = peers, fingers' = [fingers EXCEPT ![n] = t]
      PROVE  ChordInv'
  <2>1. DOMAIN fingers' = Peers
    BY <1>2 DEF ChordInv
  <2>2. ASSUME NEW p \in Peers PROVE fingers'[p] = None \/ Correct(p, fingers'[p])
    BY <1>2 DEF ChordInv
  <2>3. Peers' = Peers /\ \A key : Owner(key)' = Owner(key)
    BY <1>2 DEF Peers, Owner
  <2> QED BY <1>2, <2>1, <2>2, <2>3 DEF ChordInv, Listed, Correct
<1>3. ASSUME NEW n \in Peers, calculate_fingertable_known_nodes(n) PROVE ChordInv'
  <2> DEFINE successor == [key \in Id |-> find_successor_linear(key)]
  <2>1. Key \subseteq Id
    BY Keys DEF Key, Id
  <2>2. \A key \in Key : successor[key] = Owner(key)
    BY <2>1, SearchFindsOwner DEF ChordInv
  <2>3. peers' = peers /\ fingers' = [fingers EXCEPT ![n] = Table(n, successor)]
    BY <1>3 DEF calculate_fingertable_known_nodes
  <2> HIDE DEF successor
  <2>4. Correct(n, Table(n, successor))
    BY <2>2, TableCorrect DEF ChordInv
  <2> QED BY <1>2, <2>3, <2>4
<1>4. ASSUME NEW n \in Peers, calculate_fingertable(n) PROVE ChordInv'
  <2> DEFINE successor == [key \in Id |-> n]
  <2>1. Key \subseteq Id
    BY Keys DEF Key, Id
  <2>2. Peers = {n}
    <3>1. Len(peers) = 1 /\ DOMAIN peers = 1 .. Len(peers)
      BY <1>4 DEF calculate_fingertable, ChordInv, Listed
    <3>2. DOMAIN peers = {1}
      BY <3>1
    <3>3. Peers = {peers[1]}
      BY <3>2 DEF Peers, ToSet
    <3> QED BY <3>3
  <2>3. ASSUME NEW key \in Key PROVE n = Owner(key)
    BY <2>2, OwnerExists DEF ChordInv
  <2>4. \A key \in Key : successor[key] = Owner(key)
    BY <2>1, <2>3
  <2>5. peers' = peers /\ fingers' = [fingers EXCEPT ![n] = Table(n, successor)]
    BY <1>4 DEF calculate_fingertable
  <2> HIDE DEF successor
  <2>6. Correct(n, Table(n, successor))
    BY <2>4, TableCorrect DEF ChordInv
  <2> QED BY <1>2, <2>5, <2>6
<1> QED
  BY <1>1, <1>3, <1>4 DEF Next, Peers

\* The tables are correct in every state.
LEMMA ChordInvHolds == Spec => []ChordInv
<1>1. Init => ChordInv
  <2> SUFFICES ASSUME Init PROVE ChordInv
    OBVIOUS
  <2>1. PICK ring \in (SUBSET Key) \ {{}} : peers = Ascending(ring)
    BY DEF Init
  <2>2. Listed(peers, ring)
    BY <2>1, AscendingLists
  <2>3. Peers = ring
    BY <2>2 DEF Listed, Peers
  <2>4. fingers = [n \in Peers |-> None]
    BY DEF Init, Peers
  <2> QED BY <2>2, <2>3, <2>4 DEF ChordInv
<1>2. ChordInv /\ [Next]_vars => ChordInv'
  BY StepChord
<1> QED
  BY <1>1, <1>2, PTL DEF Spec

-------------------------------------------------------------------------------
(* What the tables are good for *)

\* Tables hold identifiers of the ring and live nodes, in rings of any size.
THEOREM TablesTyped == Spec => []TypeOK
<1>1. ChordInv => TypeOK
  BY DEF ChordInv, Correct, TypeOK, Peers
<1> QED
  BY <1>1, ChordInvHolds, PTL

\* Every finger names the owner of its start, whichever function filled the table
\* and wherever the ring wraps, for any number of bits and any nodes.
THEOREM OwnersNamed == Spec => []FingersNameOwners
<1>1. ChordInv => FingersNameOwners
  BY DEF ChordInv, Correct, FingersNameOwners, Peers
<1> QED
  BY <1>1, ChordInvHolds, PTL

\* Two keys are at some distance.
LEMMA ApartIs ==
    ASSUME NEW n \in Key, NEW key \in Key, key # n
    PROVE  Clockwise(n, key) \in 1 .. Keyspace - 1
<1>1. key \in 0 .. Keyspace - 1 /\ n \in 0 .. Keyspace - 1 /\ Keyspace \in Nat
  BY Keys DEF Key
<1>2. Clockwise(n, key) = IF n <= key THEN key - n ELSE key - n + Keyspace
  BY Distance
<1> QED
  BY <1>1, <1>2

\* A key is in a finger's interval when it is at least as far from the node as the
\* finger reaches, and less than twice as far.
LEMMA IntervalIs ==
    ASSUME NEW n \in Key, NEW key \in Key, key # n, NEW i \in Finger
    PROVE  InInterval(key, finger_start(n, i), finger_interval_end(n, i))
             <=> 2 ^ (i - 1) <= Clockwise(n, key) /\ Clockwise(n, key) < 2 ^ i
<1>1. PICK s \in Key : s = finger_start(n, i)
  BY Starts
<1>2. PICK p \in Nat \ {0} : /\ p = 2 ^ (i - 1) /\ 2 ^ i = 2 * p /\ 2 * p <= Keyspace
                             /\ Clockwise(n, s) = p
                             /\ Clockwise(s, finger_interval_end(n, i)) = p
  BY <1>1, Starts
<1>3. PICK d \in 1 .. Keyspace - 1 : d = Clockwise(n, key)
  BY ApartIs
<1>4. Clockwise(s, key) = IF p <= d THEN d - p ELSE d - p + Keyspace
  BY <1>2, <1>3, DistanceAdds
<1>5. InInterval(key, finger_start(n, i), finger_interval_end(n, i)) <=> Clockwise(s, key) < p
  BY <1>1, <1>2 DEF InInterval
<1>6. Clockwise(s, key) < p <=> p <= d /\ d < 2 * p
  BY <1>2, <1>3, <1>4, Keys
<1> QED
  BY <1>2, <1>3, <1>5, <1>6

\* The distances from 1 to the size of the ring fall between two powers of two, in
\* one way.
LEMMA PowersTile ==
    ASSUME NEW d \in 1 .. Keyspace - 1
    PROVE  \E i \in Finger : \A j \in Finger :
               2 ^ (j - 1) <= d /\ d < 2 ^ j <=> j = i
<1>0. M_BITS \in Nat \ {0} /\ Keyspace \in Nat /\ d \in Nat /\ 1 <= d
  BY BitsAssumption, Keys
<1> DEFINE T == {j \in Finger : d < 2 ^ j}
<1>1. M_BITS \in T
  BY <1>0 DEF Finger, Keyspace
<1>2. T \in SUBSET Nat
  BY <1>0 DEF Finger
<1>3. PICK i \in T : \A j \in T : i <= j
  <2> HIDE DEF T
  <2> QED BY <1>1, <1>2, LeastExists
<1>4. i \in Finger /\ i \in 1 .. M_BITS /\ d < 2 ^ i
  BY <1>3 DEF Finger
<1>5. 2 ^ (i - 1) <= d
  <2>1. CASE i = 1
    <3>1. 2 ^ (i - 1) = 1
      BY <2>1, Powers
    <3> QED BY <1>0, <3>1
  <2>2. CASE i # 1
    <3>1. i - 1 \in 1 .. M_BITS /\ ~(i <= i - 1)
      BY <1>0, <1>4, <2>2
    <3>2. i - 1 \notin T
      BY <1>3, <3>1
    <3>3. ~(d < 2 ^ (i - 1))
      BY <3>1, <3>2 DEF Finger
    <3>4. 2 ^ (i - 1) \in Nat
      BY <3>1, Powers
    <3> QED BY <1>0, <3>3, <3>4
  <2> QED BY <2>1, <2>2
<1>6. ASSUME NEW j \in Finger, 2 ^ (j - 1) <= d, d < 2 ^ j PROVE j = i
  <2>1. j \in 1 .. M_BITS
    BY DEF Finger
  <2>2. /\ i \in Nat /\ j \in Nat /\ i - 1 \in Nat /\ j - 1 \in Nat
        /\ 2 ^ i \in Int /\ 2 ^ j \in Int /\ 2 ^ (i - 1) \in Int /\ 2 ^ (j - 1) \in Int
    <3>1. i \in Nat /\ j \in Nat /\ i - 1 \in Nat /\ j - 1 \in Nat
      BY <1>0, <1>4, <2>1
    <3> QED BY <3>1, Powers
  <2>3. ASSUME j < i PROVE FALSE
    <3>1. 2 ^ j <= 2 ^ (i - 1)
      <4>1. j <= i - 1
        BY <2>2, <2>3
      <4> QED BY <2>2, <4>1, Powers
    <3> QED BY <1>0, <1>5, <1>6, <2>2, <3>1
  <2>4. ASSUME i < j PROVE FALSE
    <3>1. 2 ^ i <= 2 ^ (j - 1)
      <4>1. i <= j - 1
        BY <2>2, <2>4
      <4> QED BY <2>2, <4>1, Powers
    <3> QED BY <1>0, <1>4, <1>6, <2>2, <3>1
  <2> QED BY <2>2, <2>3, <2>4
<1> QED
  BY <1>4, <1>5, <1>6

\* The intervals of a table meet without gap or overlap, for any number of bits.
THEOREM IntervalsMeet == Spec => []IntervalsTile
<1>1. ASSUME ChordInv PROVE IntervalsTile
  <2> SUFFICES ASSUME NEW n \in DOMAIN fingers, fingers[n] # None, NEW key \in Key \ {n}
               PROVE  Cardinality({i \in Finger : InInterval(key, fingers[n][i].start,
                                                             fingers[n][i].end)}) = 1
    BY DEF IntervalsTile
  <2>1. n \in Key /\ Correct(n, fingers[n])
    BY <1>1 DEF ChordInv, Listed
  <2>2. Clockwise(n, key) \in 1 .. Keyspace - 1
    BY <2>1, ApartIs
  <2>3. PICK i \in Finger : \A j \in Finger :
               2 ^ (j - 1) <= Clockwise(n, key) /\ Clockwise(n, key) < 2 ^ j <=> j = i
    BY <2>2, PowersTile
  <2>4. \A j \in Finger : InInterval(key, fingers[n][j].start, fingers[n][j].end) <=> j = i
    BY <2>1, <2>3, IntervalIs DEF Correct
  <2>5. {j \in Finger : InInterval(key, fingers[n][j].start, fingers[n][j].end)} = {i}
    BY <2>4
  <2> QED BY <2>5, FS_Singleton
<1>2. ChordInv => IntervalsTile
  BY <1>1
<1> QED
  BY <1>2, ChordInvHolds, PTL

\* Following the finger whose interval holds a key never passes the key's owner, for
\* any number of bits and any nodes.
THEOREM HopsComeCloser == Spec => []HopsApproach
<1>1. ASSUME ChordInv PROVE HopsApproach
  <2> SUFFICES ASSUME NEW n \in DOMAIN fingers, fingers[n] # None,
                      NEW i \in Finger, NEW key \in Key, key # n,
                      InInterval(key, fingers[n][i].start, fingers[n][i].end),
                      fingers[n][i].successor # Owner(key)
               PROVE  Clockwise(n, fingers[n][i].successor) < Clockwise(n, key)
    BY DEF HopsApproach
  <2>1. n \in Key /\ Correct(n, fingers[n]) /\ Listed(peers, Peers) /\ Peers \subseteq Key
    BY <1>1 DEF ChordInv, Listed
  <2>2. PICK s \in Key : s = finger_start(n, i) /\ s = fingers[n][i].start
    BY <2>1, Starts DEF Correct
  <2>3. PICK o \in Peers : /\ o = fingers[n][i].successor /\ o # Owner(key)
                           /\ \A q \in Peers : Clockwise(s, o) <= Clockwise(s, q)
    <3>1. fingers[n][i].successor = Owner(s)
      BY <2>1, <2>2 DEF Correct
    <3> QED BY <2>1, <3>1, OwnerExists
  <2>4. PICK p \in Nat \ {0} : Clockwise(n, s) = p /\ p = 2 ^ (i - 1)
    <3>1. 2 ^ (i - 1) \in Nat \ {0} /\ Clockwise(n, finger_start(n, i)) = 2 ^ (i - 1)
      BY <2>1, Starts
    <3> QED BY <2>2, <3>1
  <2>5. p <= Clockwise(n, key)
    <3>1. InInterval(key, finger_start(n, i), finger_interval_end(n, i))
      BY <2>1 DEF Correct
    <3> QED BY <2>1, <2>4, <3>1, IntervalIs
  <2>6. PICK d \in 0 .. Keyspace - 1 : d = Clockwise(n, key) /\ p <= d
    BY <2>1, <2>5, Distance
  <2>7. PICK c \in 0 .. Keyspace - 1 : c = Clockwise(n, o)
    BY <2>1, Distance
  <2>8. Keyspace \in Nat
    BY Keys
  <2>9. ASSUME ~(c < d) PROVE FALSE
    <3>1. ASSUME NEW q \in Peers PROVE Clockwise(key, o) <= Clockwise(key, q)
      <4>1. PICK e \in 0 .. Keyspace - 1 : e = Clockwise(n, q)
        BY <2>1, Distance
      <4>2. Clockwise(s, o) = IF p <= c THEN c - p ELSE c - p + Keyspace
        BY <2>1, <2>4, <2>7, DistanceAdds
      <4>3. Clockwise(s, q) = IF p <= e THEN e - p ELSE e - p + Keyspace
        BY <2>1, <2>4, <4>1, DistanceAdds
      <4>4. Clockwise(s, o) <= Clockwise(s, q)
        BY <2>3
      <4>5. Clockwise(key, o) = IF d <= c THEN c - d ELSE c - d + Keyspace
        BY <2>1, <2>6, <2>7, DistanceAdds
      <4>6. Clockwise(key, q) = IF d <= e THEN e - d ELSE e - d + Keyspace
        BY <2>1, <2>6, <4>1, DistanceAdds
      <4> QED BY <2>4, <2>6, <2>7, <2>8, <2>9, <4>1, <4>2, <4>3, <4>4, <4>5, <4>6
    <3>2. o = Owner(key)
      BY <2>1, <3>1, OwnerIs
    <3> QED BY <2>3, <3>2
  <2> QED BY <2>3, <2>6, <2>7, <2>8, <2>9
<1>2. ChordInv => HopsApproach
  BY <1>1
<1> QED
  BY <1>2, ChordInvHolds, PTL
===============================================================================
