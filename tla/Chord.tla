-------------------------------- MODULE Chord --------------------------------
(***************************************************************************)
(* The finger tables of a Chord ring (chord.c).  Init chooses the nodes of *)
(* a ring; each of them computes its table from the list of all of them,   *)
(* and a node that is alone from its own successor pointer.  The table is  *)
(* compared with what the Chord paper and the README define: the successor *)
(* of a key is the first node at or after it, clockwise.                   *)
(***************************************************************************)
EXTENDS Integers, Sequences, FiniteSets, FiniteSetsExt, SequencesExt

CONSTANTS
    M_BITS,     \* bits of an identifier
    None        \* a table that has not been computed

\* KEYSPACE
Keyspace == 2 ^ M_BITS

\* chord_id_t is a uint8_t, and a whole ring has to fit.
ASSUME BitsAssumption == M_BITS \in Nat \ {0} /\ Keyspace <= 256

VARIABLES
    peers,      \* the known nodes, in ascending order
    fingers     \* the finger table of each of them

vars == <<peers, fingers>>

\* chord_id_t
Id == 0 .. 255

Key == 0 .. Keyspace - 1

Finger == 1 .. M_BITS

finger_start_NoWrap(n, i) == (n + 2 ^ (i - 1)) % 256

finger_start(n, i) == ((n + 2 ^ (i - 1)) % Keyspace) % 256

finger_interval_end_OneStep(n, i) == ((n + 2 ^ (i - 1) + 1) % Keyspace) % 256

finger_interval_end(n, i) == ((n + 2 ^ i) % Keyspace) % 256

find_successor_linear_Strict(key) ==
    LET after == {k \in DOMAIN peers : peers[k] > key}
    IN peers[IF after = {} THEN 1 ELSE Min(after)]

\* The first of the peers that is not below the key; else the first of all.
find_successor_linear(key) ==
    LET after == {k \in DOMAIN peers : peers[k] >= key}
    IN peers[IF after = {} THEN 1 ELSE Min(after)]

\* The loop both functions share, given the successor of each start.
Table(n, successor) ==
    [i \in Finger |-> LET start == finger_start(n, i)
                      IN [start |-> start, end |-> finger_interval_end(n, i),
                          successor |-> successor[start]]]

-------------------------------------------------------------------------------
Ascending(ring) ==
    [k \in 1 .. Cardinality(ring) |->
        CHOOSE p \in ring : Cardinality({q \in ring : q < p}) = k - 1]

Init ==
    /\ \E ring \in (SUBSET Key) \ {{}} : peers = Ascending(ring)
    /\ fingers = [n \in ToSet(peers) |-> None]

calculate_fingertable_known_nodes(n) ==
    /\ fingers' = [fingers EXCEPT ![n] = Table(n, [key \in Id |-> find_successor_linear(key)])]
    /\ UNCHANGED peers

\* The genesis node: every entry gets node->successor, which is the node itself.
calculate_fingertable(n) ==
    /\ Len(peers) = 1
    /\ fingers' = [fingers EXCEPT ![n] = Table(n, [key \in Id |-> n])]
    /\ UNCHANGED peers

Next ==
    \E n \in ToSet(peers) :
        /\ fingers[n] = None
        /\ calculate_fingertable_known_nodes(n) \/ calculate_fingertable(n)

Spec == Init /\ [][Next]_vars

-------------------------------------------------------------------------------
(* Properties *)

\* Steps from a to b around the ring.
Clockwise(a, b) == (b - a) % Keyspace

\* The node that owns a key: the nearest clockwise, the key itself included.
Owner(key) ==
    CHOOSE p \in ToSet(peers) :
        \A q \in ToSet(peers) : Clockwise(key, p) <= Clockwise(key, q)

\* A key lies in [start, end), which may wrap around.
InInterval(key, start, end) == Clockwise(start, key) < Clockwise(start, end)

\* Tables hold identifiers of the ring, and live nodes as successors.
TypeOK ==
    \A n \in DOMAIN fingers :
        fingers[n] \in {None} \cup [Finger -> [start : Key, end : Key, successor : ToSet(peers)]]

\* Every entry names the owner of its start, wherever the ring wraps, whichever of
\* the two functions computed it: the README's table of node 6 and all others.
FingersNameOwners ==
    \A n \in DOMAIN fingers : fingers[n] # None =>
        \A i \in Finger : fingers[n][i].successor = Owner(fingers[n][i].start)

\* The intervals of a table meet without gap or overlap: every key but the node's
\* own is in exactly one, so that a lookup has one finger to follow.
IntervalsTile ==
    \A n \in DOMAIN fingers : fingers[n] # None =>
        \A key \in Key \ {n} :
            Cardinality({i \in Finger : InInterval(key, fingers[n][i].start, fingers[n][i].end)}) = 1

\* Following the finger whose interval holds a key never passes the key's owner:
\* each hop shortens the way there, and the owner is reached.
HopsApproach ==
    \A n \in DOMAIN fingers : fingers[n] # None =>
        \A i \in Finger, key \in Key :
            /\ key # n
            /\ InInterval(key, fingers[n][i].start, fingers[n][i].end)
            => \/ fingers[n][i].successor = Owner(key)
               \/ Clockwise(n, fingers[n][i].successor) < Clockwise(n, key)
===============================================================================
