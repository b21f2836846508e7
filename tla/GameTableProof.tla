--------------------------- MODULE GameTableProof ---------------------------
(***************************************************************************)
(* The table of players of both servers of cw10: what the operators of     *)
(* GameTable find, and what a client that comes, or clients that are       *)
(* removed, do to the table.  For any number of clients and slots.         *)
(***************************************************************************)
EXTENDS GameTable, FiniteSetTheorems, SequenceTheorems, WellFoundedInduction, TLAPS

\* What RivalOf and Starts say of one client: the messages q to it, and t, what it was told.
IsStart(m) == m.command = "add" /\ m.arg \in {"O", "X"}
StartsIn(q) == {k \in DOMAIN q : IsStart(q[k])}
Rival(q, t) == IF StartsIn(q) = {} THEN t ELSE q[First(StartsIn(q))].from

\* Whom each client plays, also if it has not read that yet.
Rivals == [c \in Clients |-> Rival(to_client[c], told[c])]

\* Players that sit next to each other were told so, but for one that had gone when the
\* game began; one that waits was told nothing.
Pairs ==
    \A i \in Occupied :
        \/ Rivals[clients[i]] = NULL /\ (clients[get_opponent(i)] = NULL \/ exited[clients[i]])
        \/ clients[get_opponent(i)] # NULL /\ Rivals[clients[i]] = clients[get_opponent(i)]

-----------------------------------------------------------------------------
(* The operators of the model.                                             *)

\* CHOOSE-free description of First.
LEMMA FirstIsLeast ==
    ASSUME NEW S, S \subseteq Nat, S # {}
    PROVE  First(S) \in S /\ \A j \in S : First(S) <= j
<1> DEFINE R == OpToRel(<, Nat)
<1>1. IsWellFoundedOn(R, Nat)
    BY NatLessThanWellFounded
<1>2. \A x, y \in Nat : x < y => <<x, y>> \in R
    BY DEF OpToRel
<1> HIDE DEF R
<1>3. PICK x \in S : \A y \in S : ~(<<y, x>> \in R)
    BY <1>1, WFMin
<1>4. \A y \in S : ~(y < x)
    BY <1>2, <1>3, Zenon
<1>5. \E i \in S : \A j \in S : i <= j
    BY <1>3, <1>4, SMT
<1> QED BY <1>5 DEF First

LEMMA FirstOfOne ==
    ASSUME NEW k \in Nat
    PROVE  First({k}) = k
<1> First({k}) \in {k}
    BY FirstIsLeast, {k} # {}
<1> QED OBVIOUS

\* Slots go in pairs.
LEMMA Opponents ==
    /\ Slots \subseteq Nat /\ IsFiniteSet(Slots)
    /\ \A i \in Slots : /\ get_opponent(i) \in Slots /\ get_opponent(get_opponent(i)) = i
                        /\ get_opponent(i) # i
                        /\ i % 2 \in {0, 1}
                        /\ i % 2 = 0 => get_opponent(i) = i + 1 /\ (i + 1) % 2 = 1
                        /\ i % 2 = 1 => get_opponent(i) = i - 1 /\ (i - 1) % 2 = 0
<1>1. Slots \subseteq Nat /\ IsFiniteSet(Slots)
    BY GameServerAssumption, FS_Interval DEF Slots
<1>2. ASSUME NEW i \in Slots
      PROVE  /\ get_opponent(i) \in Slots /\ get_opponent(get_opponent(i)) = i
             /\ get_opponent(i) # i
             /\ i % 2 \in {0, 1}
             /\ i % 2 = 0 => get_opponent(i) = i + 1 /\ (i + 1) % 2 = 1
             /\ i % 2 = 1 => get_opponent(i) = i - 1 /\ (i - 1) % 2 = 0
    BY <1>2, GameServerAssumption DEF Slots, get_opponent
<1> QED BY <1>1, <1>2

LEMMA StartsArePlaces ==
    ASSUME NEW S, NEW q \in Seq(S)
    PROVE  /\ StartsIn(q) \subseteq DOMAIN q /\ DOMAIN q \subseteq Nat
           /\ StartsIn(q) # {} => First(StartsIn(q)) \in StartsIn(q)
<1>1. StartsIn(q) \subseteq DOMAIN q
    BY DEF StartsIn
<1>2. DOMAIN q \subseteq Nat
    BY LenProperties
<1> QED BY <1>1, <1>2, FirstIsLeast

-----------------------------------------------------------------------------
(* The table.                                                              *)

Waiting == {i \in Occupied : get_opponent(i) \in Free}
TableTypes == clients \in [Slots -> Clients \cup {NULL}] /\ clients_count \in Int

\* A client that comes gets a free slot: beside the player that waits, or a pair of its own
\* when nobody does.
LEMMA NewIndexFits ==
    ASSUME TableTypes, TableIsSound, NEW c \in Clients, NewIndex(c) # -1
    PROVE  /\ get_by_name(c) = {} /\ NewIndex(c) \in Free
           /\ NewIndex(c) % 2 = 1 => get_opponent(NewIndex(c)) \in Occupied
           /\ NewIndex(c) % 2 = 0 => get_opponent(NewIndex(c)) \in Free /\ Waiting = {}
<1> DEFINE waiting == {i \in Occupied : i % 2 = 0 /\ i + 1 \in Free}
<1>1. get_by_name(c) = {} /\ Free # {}
    BY DEF NewIndex
<1>2. /\ Occupied \subseteq Slots /\ Free \subseteq Slots /\ Occupied \cap Free = {}
      /\ \A i \in Slots : i \in Occupied \/ i \in Free
      /\ Occupied \subseteq Nat /\ Free \subseteq Nat /\ waiting \subseteq Nat
    BY Opponents DEF Occupied, Free
<1>3. CASE waiting # {}
  <2>1. First(waiting) \in waiting
      BY <1>2, <1>3, FirstIsLeast
  <2>2. NewIndex(c) = First(waiting) + 1
      BY <1>1, <1>3 DEF NewIndex
  <2>3. PICK i \in Occupied : i = First(waiting) /\ i % 2 = 0 /\ i + 1 \in Free
      BY <2>1
  <2>4. (i + 1) % 2 = 1 /\ get_opponent(i + 1) = i
      BY <1>2, <2>3, Opponents
  <2> QED BY <1>1, <2>2, <2>3, <2>4
<1>4. CASE waiting = {}
  <2>1. First(Free) \in Free /\ \A j \in Free : First(Free) <= j
      BY <1>1, <1>2, FirstIsLeast
  <2>2. NewIndex(c) = First(Free)
      BY <1>1, <1>4 DEF NewIndex
  <2>3. PICK i \in Free : i = First(Free)
      BY <2>1
  <2>4. i % 2 # 1
    <3>1. SUFFICES ASSUME i % 2 = 1
                   PROVE  FALSE
        OBVIOUS
    <3>2. i - 1 \in Slots /\ (i - 1) % 2 = 0 /\ (i - 1) + 1 = i /\ ~(i <= i - 1)
        BY <1>2, <2>3, <3>1, Opponents
    <3>3. i - 1 \in Occupied
        BY <1>2, <2>1, <2>3, <3>2
    <3> QED BY <1>4, <2>3, <3>2, <3>3
  <2>5. i % 2 = 0 /\ get_opponent(i) = i + 1 /\ i + 1 \in Slots /\ (i + 1) % 2 = 1 /\ (i + 1) - 1 = i
      BY <1>2, <2>3, <2>4, Opponents
  <2>6. i + 1 \in Free
      BY <1>2, <2>3, <2>5 DEF TableIsSound
  <2>7. ASSUME NEW j \in Waiting
        PROVE  FALSE
    <3>1. j \in Slots /\ j \in Occupied /\ get_opponent(j) \in Free
        BY <1>2 DEF Waiting
    <3>2. CASE j % 2 = 0
        BY <1>4, <3>1, <3>2, Opponents
    <3>3. CASE j % 2 = 1
        BY <1>2, <3>1, <3>3, Opponents DEF TableIsSound
    <3> QED BY <3>1, <3>2, <3>3, Opponents
  <2> QED BY <1>1, <2>2, <2>3, <2>5, <2>6, <2>7
<1> QED BY <1>3, <1>4

\* The table after a client has come.
LEMMA TableAfterAdd ==
    ASSUME TableTypes, TableIsSound, NEW c \in Clients, NEW i, i = NewIndex(c), i # -1,
           add_client(c, i)
    PROVE  /\ TableTypes' /\ TableIsSound' /\ i \in Free
           /\ Occupied' = Occupied \cup {i}
           /\ clients'[i] = c
           /\ \A j \in Slots : j # i => clients'[j] = clients[j]
<1>1. /\ get_by_name(c) = {} /\ i \in Free
      /\ i % 2 = 1 => get_opponent(i) \in Occupied
      /\ i % 2 = 0 => get_opponent(i) \in Free /\ Waiting = {}
    BY NewIndexFits
<1>2. /\ TableTypes' /\ clients'[i] = c /\ i \in Slots
      /\ \A j \in Slots : j # i => clients'[j] = clients[j]
      /\ clients_count' = clients_count + 1
    BY <1>1 DEF add_client, TableTypes, Free
<1>3. Occupied' = Occupied \cup {i} /\ Free' = Free \ {i}
    BY <1>2, GameServerAssumption DEF Occupied, Free
<1>4. IsFiniteSet(Occupied) /\ i \notin Occupied /\ Occupied \subseteq Slots
    BY <1>1, Opponents, FS_Subset DEF Occupied, Free
<1>5. clients_count' = Cardinality(Occupied')
    BY <1>2, <1>3, <1>4, FS_AddElement, FS_CardinalityType DEF TableIsSound, TableTypes
<1>6. ASSUME NEW j \in Occupied', NEW k \in Occupied', Name(clients'[j]) = Name(clients'[k])
      PROVE  j = k
    BY <1>1, <1>2, <1>3, <1>4, <1>6 DEF TableIsSound, get_by_name
<1>7. ASSUME NEW j \in Occupied', j % 2 = 1
      PROVE  j - 1 \in Occupied'
    BY <1>1, <1>2, <1>3, <1>7, Opponents DEF TableIsSound
<1>8. Cardinality(Waiting') <= 1
  <2>1. CASE i % 2 = 1
    <3>1. Waiting' \subseteq Waiting
        BY <1>1, <1>3, <1>4, <2>1 DEF Waiting, Free
    <3>2. IsFiniteSet(Waiting) /\ Cardinality(Waiting) <= 1 /\ Cardinality(Waiting) \in Nat
        BY <1>4, FS_Subset, FS_CardinalityType DEF Waiting, TableIsSound
    <3>3. Cardinality(Waiting') <= Cardinality(Waiting) /\ Cardinality(Waiting') \in Nat
        BY <3>1, <3>2, FS_Subset, FS_CardinalityType
    <3> QED BY <3>2, <3>3
  <2>2. CASE i % 2 = 0
    <3>1. Waiting' \subseteq {i}
        BY <1>1, <1>3, <1>4, <2>2 DEF Waiting
    <3>2. IsFiniteSet({i}) /\ Cardinality({i}) = 1
        BY FS_Singleton
    <3> QED BY <3>1, <3>2, FS_Subset
  <2> QED BY <1>2, <2>1, <2>2, Opponents
<1> QED BY <1>1, <1>2, <1>3, <1>5, <1>6, <1>7, <1>8 DEF TableIsSound, Waiting

\* The table after players have been removed: pairs leave it as a whole.
LEMMA TableAfterRemoval ==
    ASSUME TableTypes, TableIsSound, NEW leaving, leaving \subseteq Occupied, NEW answered,
           remove_clients(leaving, answered)
    PROVE  /\ TableTypes' /\ TableIsSound'
           /\ Occupied' \subseteq Occupied
           /\ \A i \in Occupied' : clients'[i] = clients[i] /\ clients'[get_opponent(i)] = clients[get_opponent(i)]
           /\ \A i \in Slots : clients'[i] \in {clients[i], NULL}
           /\ clients_count' <= clients_count
<1> DEFINE gone == Removed(leaving)
<1>1. /\ Occupied \subseteq Slots /\ IsFiniteSet(Occupied)
      /\ leaving \subseteq Slots /\ gone \subseteq Occupied
    BY Opponents, FS_Subset DEF Occupied, Removed
<1>2. /\ TableTypes' /\ clients_count' = clients_count - Cardinality(gone)
      /\ \A i \in Slots : clients'[i] = IF i \in gone THEN NULL ELSE clients[i]
  <2>1. IsFiniteSet(gone) /\ Cardinality(gone) \in Nat
      BY <1>1, FS_Subset, FS_CardinalityType
  <2> QED BY <2>1 DEF remove_clients, TableTypes
<1>3. Occupied' = Occupied \ gone
    BY <1>1, <1>2 DEF Occupied
<1>4. ASSUME NEW i \in gone, get_opponent(i) \in Occupied
      PROVE  get_opponent(i) \in gone
    BY <1>1, <1>4, Opponents DEF Removed
<1>5. ASSUME NEW i \in Occupied'
      PROVE  /\ i \in Occupied /\ i \in Slots /\ get_opponent(i) \in Slots
             /\ clients'[i] = clients[i] /\ clients'[get_opponent(i)] = clients[get_opponent(i)]
  <2>1. i \in Occupied /\ i \notin gone /\ i \in Slots /\ get_opponent(i) \in Slots /\ get_opponent(get_opponent(i)) = i
      BY <1>1, <1>3, Opponents
  <2>2. get_opponent(i) \notin gone
      BY <1>4, <2>1
  <2> QED BY <1>2, <2>1, <2>2
<1>6. clients_count' = Cardinality(Occupied') /\ clients_count' <= clients_count
  <2>1. Cardinality(gone) \in Nat /\ Cardinality(Occupied) \in Nat /\ gone \cap Occupied = gone
      BY <1>1, FS_Subset, FS_CardinalityType
  <2>2. Cardinality(Occupied \ gone) = Cardinality(Occupied) - Cardinality(gone)
    <3>1. Cardinality(Occupied \ gone) = Cardinality(Occupied) - Cardinality(Occupied \cap gone)
      BY <1>1, FS_Difference, Zenon
    <3>2. Occupied \cap gone = gone
      BY <2>1
    <3> QED BY <3>1, <3>2
  <2> QED BY <1>2, <1>3, <2>1, <2>2 DEF TableIsSound
<1>7. \A j, k \in Occupied' : Name(clients'[j]) = Name(clients'[k]) => j = k
    BY <1>5 DEF TableIsSound
<1>8. ASSUME NEW j \in Occupied', j % 2 = 1
      PROVE  j - 1 \in Occupied'
  <2>1. j - 1 \in Occupied /\ get_opponent(j) = j - 1
      BY <1>5, <1>8, Opponents DEF TableIsSound
  <2>2. clients'[j - 1] = clients[j - 1] /\ j - 1 \in Slots
      BY <1>1, <1>5, <2>1
  <2> QED BY <2>1, <2>2 DEF Occupied
<1>9. Cardinality(Waiting') <= 1
  <2>1. Waiting' \subseteq Waiting
    <3>1. SUFFICES ASSUME NEW j \in Waiting'
                   PROVE  j \in Waiting
        OBVIOUS
    <3>2. j \in Occupied' /\ get_opponent(j) \notin Occupied'
        BY <3>1 DEF Waiting, Free
    <3>3. get_opponent(j) \notin Occupied
        BY <1>5, <3>2 DEF Occupied
    <3> QED BY <1>5, <3>2, <3>3 DEF Waiting, Free
  <2>2. IsFiniteSet(Waiting) /\ Cardinality(Waiting) <= 1 /\ Cardinality(Waiting) \in Nat
      BY <1>1, FS_Subset, FS_CardinalityType DEF Waiting, TableIsSound
  <2>3. Cardinality(Waiting') <= Cardinality(Waiting) /\ Cardinality(Waiting') \in Nat
      BY <2>1, <2>2, FS_Subset, FS_CardinalityType
  <2> QED BY <2>2, <2>3
<1>10. \A i \in Slots : clients'[i] \in {clients[i], NULL}
    BY <1>2
<1> QED BY <1>2, <1>3, <1>5, <1>6, <1>7, <1>8, <1>9, <1>10 DEF TableIsSound, Waiting
-----------------------------------------------------------------------------
(* Frames: what a step has to show.                                        *)

LEMMA RivalsKept ==
    ASSUME \A d \in Clients : Rival(to_client[d], told[d])' = Rival(to_client[d], told[d])
    PROVE  Rivals' = Rivals
BY DEF Rivals

LEMMA PairsKept ==
    ASSUME Pairs, Rivals' = Rivals, \A d \in Clients : exited[d] => exited'[d],
           Occupied' \subseteq Occupied,
           \A i \in Occupied' : /\ clients[i] \in Clients /\ clients'[i] = clients[i]
                                /\ clients'[get_opponent(i)] = clients[get_opponent(i)]
    PROVE  Pairs'
BY DEF Pairs
=============================================================================
