--------------------------- MODULE PizzeriaProof ---------------------------
(***************************************************************************)
(* The safety of Pizzeria for every number of cooks, of suppliers and of   *)
(* slots.  The inductive invariant accounts for every unit of the five     *)
(* semaphores (who holds it), for the counters (who is between storing and *)
(* announcing, between reserving and clearing) and for the shape of the    *)
(* two cyclic arrays; the properties a reader cares about follow from it.  *)
(* Then: the loops implement the queues of Bakery, and both life cycles    *)
(* are safe over any number of runs and of crashes.                        *)
(***************************************************************************)
EXTENDS PizzeriaImpl, MCPizzeriaObjects, FiniteSetTheorems, SequenceTheorems, TLAPS

\* Counting the processes at given labels before and after one of them moves.
Moves(p, S, L, from, to) == IF p \in S /\ from \notin L /\ to \in L THEN 1
                            ELSE IF p \in S /\ from \in L /\ to \notin L THEN -1
                            ELSE 0

\* The processes of a set S at some labels are finitely many.
LEMMA AtFinite ==
    ASSUME NEW S \in SUBSET Procs, NEW L
    PROVE  IsFiniteSet(At(S, L)) /\ Cardinality(At(S, L)) \in Nat
<1>1. IsFiniteSet(Procs)
  BY PizzeriaAssumption, FS_Union DEF Procs
<1>2. At(S, L) \in SUBSET Procs
  BY DEF At
<1> QED  BY <1>1, <1>2, FS_Subset, FS_CardinalityType

\* One jump changes who is at a set of labels by at most the process that jumps.
LEMMA AtStep ==
    ASSUME NEW S \in SUBSET Procs, NEW L, NEW p \in Procs, NEW from, NEW to,
           pc \in [Procs -> Labels], Goto(p, from, to)
    PROVE  /\ Cardinality(At(S, L)') = Cardinality(At(S, L)) + Moves(p, S, L, from, to)
           /\ At(S, L)' = CASE Moves(p, S, L, from, to) = 1 -> At(S, L) \cup {p}
                            [] Moves(p, S, L, from, to) = -1 -> At(S, L) \ {p}
                            [] Moves(p, S, L, from, to) = 0 -> At(S, L)
<1>1. /\ pc[p] = from /\ pc'[p] = to
      /\ \A q \in Procs : q # p => pc'[q] = pc[q]
  BY DEF Goto
<1>2. /\ IsFiniteSet(At(S, L))
      /\ Cardinality(At(S, L)) \in Nat
  BY AtFinite
<1>3. CASE Moves(p, S, L, from, to) = 1
  <2>1. p \in S /\ from \notin L /\ to \in L
    BY <1>3 DEF Moves
  <2>2. p \notin At(S, L) /\ At(S, L)' = At(S, L) \cup {p}
    BY <1>1, <2>1 DEF At
  <2> QED  BY <1>2, <1>3, <2>2, FS_AddElement
<1>4. CASE Moves(p, S, L, from, to) = -1
  <2>1. p \in S /\ from \in L /\ to \notin L
    BY <1>4 DEF Moves
  <2>2. p \in At(S, L) /\ At(S, L)' = At(S, L) \ {p}
    BY <1>1, <2>1 DEF At
  <2> QED  BY <1>2, <1>4, <2>2, FS_RemoveElement, SMTT(30)
<1>5. CASE Moves(p, S, L, from, to) = 0
  <2>1. p \in S => (from \in L <=> to \in L)
    BY <1>5 DEF Moves
  <2>2. At(S, L)' = At(S, L)
    BY <1>1, <2>1 DEF At
  <2> QED  BY <1>2, <1>5, <2>2
<1> QED  BY <1>3, <1>4, <1>5 DEF Moves
-----------------------------------------------------------------------------
(* The cyclic array.                                                       *)

\* The next index wraps to 0 at the end of the array.
LEMMA NextIndex ==
    ASSUME NEW n \in Nat \ {0}, NEW i \in 0..(n - 1)
    PROVE  (i + 1) % n = IF i + 1 = n THEN 0 ELSE i + 1
OBVIOUS

\* Storing a pizza in a free slot leaves the array half-way through an insertion.
LEMMA ShapeStore ==
    ASSUME NEW n \in Nat \ {0}, NEW buf \in BufferType(n), NEW t \in Types,
           Shape(buf, n, FALSE, FALSE), buf.pizzas \in 0..(n - 1)
    PROVE  /\ Store(buf, t) \in BufferType(n)
           /\ Shape(Store(buf, t), n, TRUE, FALSE)
           /\ Store(buf, t).pizzas = buf.pizzas
BY PizzeriaAssumption DEF Store, Shape, Window, BufferType

\* Advancing the index completes the insertion: the window grows by one slot.
LEMMA ShapePlaced ==
    ASSUME NEW n \in Nat \ {0}, NEW buf \in BufferType(n),
           Shape(buf, n, TRUE, FALSE), buf.pizzas \in 0..(n - 1)
    PROVE  /\ Placed(buf, n) \in BufferType(n)
           /\ Shape(Placed(buf, n), n, FALSE, FALSE)
           /\ Placed(buf, n).pizzas = buf.pizzas + 1
<1> DEFINE new == Placed(buf, n)
           next == IF buf.idx_to_place + 1 = n THEN 0 ELSE buf.idx_to_place + 1
           mid == [buf EXCEPT !.idx_to_place = next]
<1>1. /\ buf.idx_to_place \in 0..(n - 1) /\ buf.idx_to_take_out \in 0..(n - 1)
      /\ next \in 0..(n - 1)
  BY DEF BufferType
<1>2. (buf.idx_to_place + 1) % n = next
  BY <1>1, NextIndex
<1>3. mid = [buf EXCEPT !.idx_to_place = next] /\ new = [mid EXCEPT !.pizzas = buf.pizzas + 1]
  BY <1>2 DEF Placed
<1> HIDE DEF next, mid, new
<1>4. /\ mid.slots = buf.slots /\ mid.pizzas = buf.pizzas
      /\ mid.idx_to_take_out = buf.idx_to_take_out /\ mid.idx_to_place = next
      /\ mid \in BufferType(n)
  BY <1>1, <1>3 DEF BufferType
<1>5. buf.pizzas + 1 \in Int
  OBVIOUS
<1>6. /\ new.slots = buf.slots /\ new.pizzas = buf.pizzas + 1
      /\ new.idx_to_take_out = buf.idx_to_take_out /\ new.idx_to_place = next
      /\ new \in BufferType(n)
  BY <1>3, <1>4, <1>5 DEF BufferType
<1>7. \/ new.idx_to_place = new.idx_to_take_out + new.pizzas
      \/ new.idx_to_place = new.idx_to_take_out + new.pizzas - n
  BY <1>1, <1>6 DEF Shape, next
<1>8. ASSUME NEW i \in 0..(n - 1)
      PROVE  i \in Window(new, n) <=> i \in Window(buf, n) \/ i = buf.idx_to_place
  BY <1>1, <1>6 DEF Shape, Window
<1> QED  BY <1>6, <1>7, <1>8 DEF Shape, new

\* A non-empty array has a pizza at the index to take out; clearing that slot
\* leaves the array half-way through a removal.
LEMMA ShapeClear ==
    ASSUME NEW n \in Nat \ {0}, NEW buf \in BufferType(n),
           Shape(buf, n, FALSE, FALSE), buf.pizzas \in 1..n
    PROVE  /\ buf.slots[buf.idx_to_take_out] \in Types
           /\ Clear(buf) \in BufferType(n)
           /\ Shape(Clear(buf), n, FALSE, TRUE)
           /\ Clear(buf).pizzas = buf.pizzas
<1> DEFINE new == Clear(buf)
<1>1. /\ buf.idx_to_take_out \in 0..(n - 1)
      /\ buf.slots \in [0..(n - 1) -> Types \cup {NoPizza}]
  BY DEF BufferType
<1>2. buf.idx_to_take_out \in Window(buf, n)
  BY <1>1 DEF Window
<1>3. buf.slots[buf.idx_to_take_out] \in Types
  BY <1>1, <1>2 DEF Shape
<1>4. /\ new.slots = [buf.slots EXCEPT ![buf.idx_to_take_out] = NoPizza]
      /\ new.pizzas = buf.pizzas
      /\ new.idx_to_take_out = buf.idx_to_take_out
      /\ new.idx_to_place = buf.idx_to_place
      /\ new \in BufferType(n)
  BY <1>1 DEF Clear, BufferType
<1> HIDE DEF new
<1>5. Window(new, n) = Window(buf, n)
  BY <1>4 DEF Window
<1>6. Shape(new, n, FALSE, TRUE)
  BY <1>1, <1>4, <1>5 DEF Shape
<1> QED  BY <1>3, <1>4, <1>6 DEF new

\* Advancing the index completes the removal: the window shrinks by one slot.
LEMMA ShapeTakenOut ==
    ASSUME NEW n \in Nat \ {0}, NEW buf \in BufferType(n),
           Shape(buf, n, FALSE, TRUE), buf.pizzas \in 1..n
    PROVE  /\ TakenOut(buf, n) \in BufferType(n)
           /\ Shape(TakenOut(buf, n), n, FALSE, FALSE)
           /\ TakenOut(buf, n).pizzas = buf.pizzas - 1
<1> DEFINE new == TakenOut(buf, n)
           next == IF buf.idx_to_take_out + 1 = n THEN 0 ELSE buf.idx_to_take_out + 1
           mid == [buf EXCEPT !.idx_to_take_out = next]
<1>1. /\ buf.idx_to_place \in 0..(n - 1) /\ buf.idx_to_take_out \in 0..(n - 1)
      /\ next \in 0..(n - 1)
  BY DEF BufferType
<1>2. (buf.idx_to_take_out + 1) % n = next
  BY <1>1, NextIndex
<1>3. mid = [buf EXCEPT !.idx_to_take_out = next] /\ new = [mid EXCEPT !.pizzas = buf.pizzas - 1]
  BY <1>2 DEF TakenOut
<1> HIDE DEF next, mid, new
<1>4. /\ mid.slots = buf.slots /\ mid.pizzas = buf.pizzas
      /\ mid.idx_to_place = buf.idx_to_place /\ mid.idx_to_take_out = next
      /\ mid \in BufferType(n)
  BY <1>1, <1>3 DEF BufferType
<1>5. buf.pizzas - 1 \in Int
  OBVIOUS
<1>6. /\ new.slots = buf.slots /\ new.pizzas = buf.pizzas - 1
      /\ new.idx_to_take_out = next /\ new.idx_to_place = buf.idx_to_place
      /\ new \in BufferType(n)
  BY <1>3, <1>4, <1>5 DEF BufferType
<1>7. \/ new.idx_to_place = new.idx_to_take_out + new.pizzas
      \/ new.idx_to_place = new.idx_to_take_out + new.pizzas - n
  BY <1>1, <1>6 DEF Shape, next
<1>8. ASSUME NEW i \in 0..(n - 1)
      PROVE  i \in Window(new, n) <=> i \in Window(buf, n) /\ i # buf.idx_to_take_out
  BY <1>1, <1>6 DEF Window, next
<1> QED  BY <1>6, <1>7, <1>8 DEF Shape, new
-----------------------------------------------------------------------------
(* The inductive invariant.                                                *)

\* Whoever has drawn or taken out a pizza and not put it down holds a real one.
HandsFull ==
    /\ \A c \in At(Cooks, Carrying) : type[c] \in Types
    /\ \A s \in At(Suppliers, {"fetch_advance", "fetch_done", "unlock_table_full", "deliver"}) :
          type[s] \in Types

IInv == /\ TypeOK
        /\ MutexAccounting
        /\ CapacityAccounting
        /\ PizzasCounted
        /\ HandsFull
        /\ Contiguous

\* A process inside a critical section is alone there.
LEMMA Alone ==
    ASSUME IInv, NEW p \in Procs
    PROVE  /\ p \in Cooks /\ pc[p] \in AtOven => At(Cooks, AtOven) = {p}
           /\ pc[p] \in AtTable => At(Procs, AtTable) = {p}
<1>1. /\ IsFiniteSet(At(Cooks, AtOven)) /\ Cardinality(At(Cooks, AtOven)) \in Nat
      /\ IsFiniteSet(At(Procs, AtTable)) /\ Cardinality(At(Procs, AtTable)) \in Nat
  BY AtFinite DEF Procs
<1>2. sem["OVEN"] \in Nat /\ sem["TABLE"] \in Nat
  BY DEF IInv, TypeOK, Semaphores
<1>3. ASSUME p \in Cooks, pc[p] \in AtOven
      PROVE  At(Cooks, AtOven) = {p}
  <2>1. p \in At(Cooks, AtOven)
    BY <1>3 DEF At
  <2>2. Cardinality(At(Cooks, AtOven)) # 0
    BY <1>1, <2>1, FS_EmptySet
  <2>3. Cardinality(At(Cooks, AtOven)) = 1
    BY <1>1, <1>2, <2>2 DEF IInv, MutexAccounting
  <2> QED  BY <1>1, <2>1, <2>3, FS_Singleton
<1>4. ASSUME pc[p] \in AtTable
      PROVE  At(Procs, AtTable) = {p}
  <2>1. p \in At(Procs, AtTable)
    BY <1>4 DEF At
  <2>2. Cardinality(At(Procs, AtTable)) # 0
    BY <1>1, <2>1, FS_EmptySet
  <2>3. Cardinality(At(Procs, AtTable)) = 1
    BY <1>1, <1>2, <2>2 DEF IInv, MutexAccounting
  <2> QED  BY <1>1, <2>1, <2>3, FS_Singleton
<1> QED  BY <1>3, <1>4

\* There is room for a process about to store and a pizza for one about to clear,
\* and the counters stay within the arrays.
LEMMA Room ==
    ASSUME IInv
    PROVE  /\ oven.pizzas \in 0..OvenSize
           /\ table.pizzas \in 0..TableSize
           /\ \A c \in Cooks : /\ pc[c] \in {"put_store", "put_advance"} =>
                                     oven.pizzas \in 0..(OvenSize - 1)
                               /\ pc[c] \in {"take_clear", "take_advance"} =>
                                     oven.pizzas \in 1..OvenSize
                               /\ pc[c] \in {"place_store", "place_advance"} =>
                                     table.pizzas \in 0..(TableSize - 1)
           /\ \A s \in Suppliers : pc[s] \in {"fetch_clear", "fetch_advance"} =>
                                     table.pizzas \in 1..TableSize
<1> DEFINE I == At(Cooks, InOven)
           H == At(Cooks, HoldsOven)
           J == At(Cooks, JustPlaced)
           F == At(Suppliers, AboutToFetch)
           T == At(Procs, HoldsTable)
<1>1. /\ \A X \in {I, H, J, F, T} : IsFiniteSet(X) /\ Cardinality(X) \in Nat
      /\ IsFiniteSet(J \cup F)
  BY AtFinite, FS_Union DEF Procs
<1>2. /\ sem["OVEN_FULL"] \in Nat /\ sem["TABLE_FULL"] \in Nat /\ sem["TABLE_EMPTY"] \in Nat
      /\ OvenSize \in Nat /\ TableSize \in Nat
      /\ sem["OVEN_FULL"] + Cardinality(H) = OvenSize
      /\ sem["TABLE_FULL"] + sem["TABLE_EMPTY"] + Cardinality(T) = TableSize
      /\ oven.pizzas = Cardinality(I)
      /\ table.pizzas = sem["TABLE_EMPTY"] + Cardinality(J) + Cardinality(F)
  BY PizzeriaAssumption DEF IInv, TypeOK, Semaphores, CapacityAccounting, PizzasCounted
<1>3. I \subseteq H
  BY DEF At, InOven, HoldsOven, AtOven
<1>4. J \cup F \subseteq T /\ J \cap F = {}
  BY PizzeriaAssumption DEF At, JustPlaced, AboutToFetch, HoldsTable, AtTable, Procs
<1>5. /\ Cardinality(I) <= Cardinality(H)
      /\ Cardinality(I) = Cardinality(H) => I = H
  BY <1>1, <1>3, FS_Subset
<1>6. Cardinality(J \cup F) = Cardinality(J) + Cardinality(F)
  <2>1. Cardinality(J \cap F) = 0
    BY <1>4, FS_EmptySet, Zenon
  <2>2. Cardinality(J \cup F) = Cardinality(J) + Cardinality(F) - Cardinality(J \cap F)
    BY <1>1, FS_Union
  <2>3. Cardinality(J) \in Nat /\ Cardinality(F) \in Nat
    BY <1>1
  <2> QED  BY <2>1, <2>2, <2>3
<1>7. /\ Cardinality(J) + Cardinality(F) <= Cardinality(T)
      /\ Cardinality(J) + Cardinality(F) = Cardinality(T) => J \cup F = T
  <2>1. J \cup F \in SUBSET T /\ IsFiniteSet(T)
    BY <1>1, <1>4
  <2>2. /\ Cardinality(J \cup F) <= Cardinality(T)
        /\ Cardinality(J \cup F) = Cardinality(T) => J \cup F = T
    BY <2>1, FS_Subset
  <2> QED  BY <1>6, <2>2
<1>8. oven.pizzas \in 0..OvenSize /\ table.pizzas \in 0..TableSize
  BY <1>1, <1>2, <1>5, <1>7
<1>9. ASSUME NEW c \in Cooks, pc[c] \in {"put_store", "put_advance"}
      PROVE  oven.pizzas \in 0..(OvenSize - 1)
  <2>1. c \in H /\ c \notin I
    BY <1>9 DEF At, InOven, HoldsOven, AtOven
  <2> QED  BY <1>1, <1>2, <1>5, <2>1
<1>10. ASSUME NEW c \in Cooks, pc[c] \in {"take_clear", "take_advance"}
       PROVE  oven.pizzas \in 1..OvenSize
  <2>1. c \in I
    BY <1>10 DEF At, InOven
  <2>2. Cardinality(I) # 0
    BY <1>1, <2>1, FS_EmptySet
  <2> QED  BY <1>1, <1>2, <1>8, <2>2
<1>11. ASSUME NEW c \in Cooks, pc[c] \in {"place_store", "place_advance"}
       PROVE  table.pizzas \in 0..(TableSize - 1)
  <2>1. c \in T /\ c \notin J \cup F
    BY <1>11, PizzeriaAssumption
       DEF At, JustPlaced, AboutToFetch, HoldsTable, AtTable, Procs
  <2> QED  BY <1>1, <1>2, <1>7, <2>1
<1>12. ASSUME NEW s \in Suppliers, pc[s] \in {"fetch_clear", "fetch_advance"}
       PROVE  table.pizzas \in 1..TableSize
  <2>1. s \in F
    BY <1>12 DEF At, AboutToFetch
  <2>2. Cardinality(F) # 0
    BY <1>1, <2>1, FS_EmptySet
  <2> QED  BY <1>1, <1>2, <1>8, <2>2
<1> QED  BY <1>8, <1>9, <1>10, <1>11, <1>12
-----------------------------------------------------------------------------
(* Steps preserve it.                                                      *)

\* All the counts the invariant speaks of, after a jump.
LEMMA Counts ==
    ASSUME TypeOK, NEW p \in Procs, NEW from, NEW to, Goto(p, from, to)
    PROVE  /\ Cardinality(At(Cooks, AtOven)') =
                Cardinality(At(Cooks, AtOven)) + Moves(p, Cooks, AtOven, from, to)
           /\ Cardinality(At(Procs, AtTable)') =
                Cardinality(At(Procs, AtTable)) + Moves(p, Procs, AtTable, from, to)
           /\ Cardinality(At(Cooks, HoldsOven)') =
                Cardinality(At(Cooks, HoldsOven)) + Moves(p, Cooks, HoldsOven, from, to)
           /\ Cardinality(At(Procs, HoldsTable)') =
                Cardinality(At(Procs, HoldsTable)) + Moves(p, Procs, HoldsTable, from, to)
           /\ Cardinality(At(Cooks, InOven)') =
                Cardinality(At(Cooks, InOven)) + Moves(p, Cooks, InOven, from, to)
           /\ Cardinality(At(Cooks, JustPlaced)') =
                Cardinality(At(Cooks, JustPlaced)) + Moves(p, Cooks, JustPlaced, from, to)
           /\ Cardinality(At(Suppliers, AboutToFetch)') =
                Cardinality(At(Suppliers, AboutToFetch))
                  + Moves(p, Suppliers, AboutToFetch, from, to)
<1>1. pc \in [Procs -> Labels]
  BY DEF TypeOK
<1>2. Cooks \in SUBSET Procs /\ Suppliers \in SUBSET Procs /\ Procs \in SUBSET Procs
  BY DEF Procs
<1>3. ASSUME NEW S \in SUBSET Procs, NEW L
      PROVE  Cardinality(At(S, L)') = Cardinality(At(S, L)) + Moves(p, S, L, from, to)
  BY <1>1, AtStep
<1> QED  BY <1>2, <1>3

\* The counts are natural numbers.
LEMMA CountsNat ==
    /\ Cardinality(At(Cooks, AtOven)) \in Nat
    /\ Cardinality(At(Procs, AtTable)) \in Nat
    /\ Cardinality(At(Cooks, HoldsOven)) \in Nat
    /\ Cardinality(At(Procs, HoldsTable)) \in Nat
    /\ Cardinality(At(Cooks, InOven)) \in Nat
    /\ Cardinality(At(Cooks, JustPlaced)) \in Nat
    /\ Cardinality(At(Suppliers, AboutToFetch)) \in Nat
<1>1. Cooks \in SUBSET Procs /\ Suppliers \in SUBSET Procs /\ Procs \in SUBSET Procs
  BY DEF Procs
<1>2. \A S \in SUBSET Procs : \A L : Cardinality(At(S, L)) \in Nat
  BY AtFinite
<1> QED  BY <1>1, <1>2

\* A jump whose change of the semaphores and of the two counters balances the
\* processes it moves preserves every equation of the accounts.
Balanced(p, from, to) ==
    /\ sem'["OVEN"] + Moves(p, Cooks, AtOven, from, to) = sem["OVEN"]
    /\ sem'["TABLE"] + Moves(p, Procs, AtTable, from, to) = sem["TABLE"]
    /\ sem'["OVEN_FULL"] + Moves(p, Cooks, HoldsOven, from, to) = sem["OVEN_FULL"]
    /\ sem'["TABLE_FULL"] + sem'["TABLE_EMPTY"] + Moves(p, Procs, HoldsTable, from, to)
         = sem["TABLE_FULL"] + sem["TABLE_EMPTY"]
    /\ oven'.pizzas = oven.pizzas + Moves(p, Cooks, InOven, from, to)
    /\ table'.pizzas - sem'["TABLE_EMPTY"] =
         table.pizzas - sem["TABLE_EMPTY"] + Moves(p, Cooks, JustPlaced, from, to)
           + Moves(p, Suppliers, AboutToFetch, from, to)

\* Balanced steps preserve the accounts.
LEMMA Accounts ==
    ASSUME IInv, TypeOK', NEW p \in Procs, NEW from, NEW to,
           Goto(p, from, to), Balanced(p, from, to)
    PROVE  MutexAccounting' /\ CapacityAccounting' /\ PizzasCounted'
<1>1. /\ sem["OVEN"] \in Nat /\ sem["TABLE"] \in Nat /\ sem["OVEN_FULL"] \in Nat
      /\ sem["TABLE_FULL"] \in Nat /\ sem["TABLE_EMPTY"] \in Nat
      /\ sem'["OVEN"] \in Nat /\ sem'["TABLE"] \in Nat /\ sem'["OVEN_FULL"] \in Nat
      /\ sem'["TABLE_FULL"] \in Nat /\ sem'["TABLE_EMPTY"] \in Nat
      /\ oven.pizzas \in Int /\ oven'.pizzas \in Int
      /\ table.pizzas \in Int /\ table'.pizzas \in Int
      /\ OvenSize \in Nat /\ TableSize \in Nat
  BY PizzeriaAssumption DEF IInv, TypeOK, Semaphores, BufferType
<1>2. \A S, L : Moves(p, S, L, from, to) \in Int
  BY DEF Moves
<1>3. MutexAccounting'
  BY <1>1, <1>2, CountsNat, Counts DEF IInv, MutexAccounting, Balanced
<1>4. CapacityAccounting'
  BY <1>1, <1>2, CountsNat, Counts DEF IInv, CapacityAccounting, Balanced
<1>5. PizzasCounted'
  BY <1>1, <1>2, CountsNat, Counts DEF IInv, PizzasCounted, Balanced
<1> QED  BY <1>3, <1>4, <1>5

SupplierHolds == {"fetch_advance", "fetch_done", "unlock_table_full", "deliver"}

\* A jump that gives nobody a pizza keeps the hands full.
LEMMA HandsStay ==
    ASSUME IInv, NEW p \in Procs, NEW from, NEW to, Goto(p, from, to), type' = type,
           p \in Cooks /\ to \in Carrying => from \in Carrying,
           p \in Suppliers /\ to \in SupplierHolds => from \in SupplierHolds
    PROVE  HandsFull'
BY DEF IInv, TypeOK, Goto, HandsFull, At, SupplierHolds

HalfWay == {"put_advance", "take_advance", "place_advance", "fetch_advance"}

\* A balanced lock or unlock that leaves memory alone preserves the invariant.
LEMMA SemopStep ==
    ASSUME IInv, NEW p \in Procs, NEW from, NEW to \in Labels, Goto(p, from, to),
           type' = type, oven' = oven, table' = table, sem' \in [Semaphores -> Nat],
           Balanced(p, from, to), from \notin HalfWay, to \notin HalfWay,
           p \in Cooks /\ to \in Carrying => from \in Carrying,
           p \in Suppliers /\ to \in SupplierHolds => from \in SupplierHolds
    PROVE  IInv'
<1>1. TypeOK'
  BY DEF IInv, TypeOK, Goto
<1>2. MutexAccounting' /\ CapacityAccounting' /\ PizzasCounted'
  BY <1>1, Accounts
<1>3. HandsFull'
  BY HandsStay
<1>4. ASSUME NEW l \in HalfWay, NEW S \in SUBSET Procs
      PROVE  At(S, {l})' = At(S, {l})
  BY DEF IInv, TypeOK, Goto, At
<1>5. Contiguous'
  BY <1>4 DEF IInv, Contiguous, HalfWay, Procs
<1> QED  BY <1>1, <1>2, <1>3, <1>5 DEF IInv

\* The semops of a cook.
LEMMA CookSemopStep ==
    ASSUME IInv, NEW c \in Cooks, CookSemop(c)
    PROVE  IInv'
<1>1. c \in Procs /\ c \notin Suppliers
  BY PizzeriaAssumption DEF Procs
<1>2. /\ sem \in [Semaphores -> Nat]
      /\ oven \in BufferType(OvenSize) /\ table \in BufferType(TableSize)
  BY DEF IInv, TypeOK
<1>3. /\ oven.pizzas \in Int /\ table.pizzas \in Int
  BY <1>2 DEF BufferType
<1> USE <1>1, <1>2, <1>3 DEF Semaphores, lock_semaphore, unlock_semaphore, Balanced, Moves,
        Labels, AtOven, AtTable, HoldsOven, HoldsTable, InOven, JustPlaced, AboutToFetch,
        Carrying, SupplierHolds, HalfWay
<1>4. CASE ReserveOven(c)
  BY <1>4, SemopStep DEF ReserveOven
<1>5. CASE OpenToPut(c)
  BY <1>5, SemopStep DEF OpenToPut
<1>6. CASE CloseAfterPut(c)
  BY <1>6, SemopStep DEF CloseAfterPut
<1>7. CASE OpenToTake(c)
  BY <1>7, SemopStep DEF OpenToTake
<1>8. CASE CloseAfterTake(c)
  BY <1>8, SemopStep DEF CloseAfterTake
<1>9. CASE FreeOven(c)
  BY <1>9, SemopStep DEF FreeOven
<1>10. CASE ReserveTable(c)
  BY <1>10, SemopStep DEF ReserveTable
<1>11. CASE ReachToPlace(c)
  BY <1>11, SemopStep DEF ReachToPlace
<1>12. CASE LeaveTable(c)
  BY <1>12, SemopStep DEF LeaveTable
<1>13. CASE AnnouncePizza(c)
  BY <1>13, SemopStep DEF AnnouncePizza
<1> QED  BY <1>4, <1>5, <1>6, <1>7, <1>8, <1>9, <1>10, <1>11, <1>12, <1>13 DEF CookSemop

\* The semops of a supplier.
LEMMA SupplierSemopStep ==
    ASSUME IInv, NEW s \in Suppliers, SupplierSemop(s)
    PROVE  IInv'
<1>1. s \in Procs /\ s \notin Cooks
  BY PizzeriaAssumption DEF Procs
<1>2. /\ sem \in [Semaphores -> Nat]
      /\ oven \in BufferType(OvenSize) /\ table \in BufferType(TableSize)
  BY DEF IInv, TypeOK
<1>3. /\ oven.pizzas \in Int /\ table.pizzas \in Int
  BY <1>2 DEF BufferType
<1> USE <1>1, <1>2, <1>3 DEF Semaphores, lock_semaphore, unlock_semaphore, Balanced, Moves,
        Labels, AtOven, AtTable, HoldsOven, HoldsTable, InOven, JustPlaced, AboutToFetch,
        Carrying, SupplierHolds, HalfWay
<1>4. CASE AwaitPizza(s)
  BY <1>4, SemopStep DEF AwaitPizza
<1>5. CASE ReachToFetch(s)
  BY <1>5, SemopStep DEF ReachToFetch
<1>6. CASE WithdrawFetch(s)
  <2>1. /\ Goto(s, "fetch_done", "unlock_table_full")
        /\ sem' = [sem EXCEPT !["TABLE"] = @ + 1]
        /\ type' = type /\ oven' = oven /\ table' = table
    BY <1>6 DEF WithdrawFetch
  <2>2. sem' \in [Semaphores -> Nat]
    BY <2>1
  <2>3. Balanced(s, "fetch_done", "unlock_table_full")
    BY <2>1
  <2> QED  BY <2>1, <2>2, <2>3, SemopStep
<1>7. CASE FreeTable(s)
  BY <1>7, SemopStep DEF FreeTable
<1> QED  BY <1>4, <1>5, <1>6, <1>7 DEF SupplierSemop

\* At most one of the two operations on an array is half-way, and only by the
\* process whose step is looked at.
LEMMA Exclusive ==
    ASSUME IInv
    PROVE  /\ \A c \in Cooks : pc[c] \in {"put_store", "take_clear"} =>
                 At(Cooks, {"put_advance"}) = {} /\ At(Cooks, {"take_advance"}) = {}
           /\ \A c \in Cooks : pc[c] = "put_advance" =>
                 At(Cooks, {"put_advance"}) = {c} /\ At(Cooks, {"take_advance"}) = {}
           /\ \A c \in Cooks : pc[c] = "take_advance" =>
                 At(Cooks, {"put_advance"}) = {} /\ At(Cooks, {"take_advance"}) = {c}
           /\ \A c \in Cooks : pc[c] = "place_store" =>
                 At(Cooks, {"place_advance"}) = {} /\ At(Suppliers, {"fetch_advance"}) = {}
           /\ \A s \in Suppliers : pc[s] = "fetch_clear" =>
                 At(Cooks, {"place_advance"}) = {} /\ At(Suppliers, {"fetch_advance"}) = {}
           /\ \A c \in Cooks : pc[c] = "place_advance" =>
                 At(Cooks, {"place_advance"}) = {c} /\ At(Suppliers, {"fetch_advance"}) = {}
           /\ \A s \in Suppliers : pc[s] = "fetch_advance" =>
                 At(Cooks, {"place_advance"}) = {} /\ At(Suppliers, {"fetch_advance"}) = {s}
<1>1. ASSUME NEW p \in Cooks, pc[p] \in AtOven
      PROVE  \A q \in Cooks : pc[q] \in AtOven => q = p
  <2>1. At(Cooks, AtOven) = {p}
    BY <1>1, Alone DEF Procs
  <2> QED  BY <2>1 DEF At
<1>2. ASSUME NEW p \in Procs, pc[p] \in AtTable
      PROVE  \A q \in Procs : pc[q] \in AtTable => q = p
  <2>1. At(Procs, AtTable) = {p}
    BY <1>2, Alone
  <2> QED  BY <2>1 DEF At
<1> QED  BY <1>1, <1>2 DEF At, AtOven, AtTable, Procs


\* The two arrays between two operations on them.
LEMMA Parts ==
    ASSUME IInv
    PROVE  /\ pc \in [Procs -> Labels] /\ type \in [Procs -> Types \cup {NoPizza}]
           /\ oven \in BufferType(OvenSize) /\ table \in BufferType(TableSize)
           /\ sem \in [Semaphores -> Nat]
           /\ oven.pizzas \in Int /\ table.pizzas \in Int
           /\ OvenSize \in Nat \ {0} /\ TableSize = OvenSize
           /\ Cooks \subseteq Procs /\ Suppliers \subseteq Procs /\ Cooks \cap Suppliers = {}
BY PizzeriaAssumption DEF IInv, TypeOK, Procs, BufferType

\* Drawing a type fills the hands of a cook.
LEMMA PrepareStep ==
    ASSUME IInv, NEW c \in Cooks, Prepare(c)
    PROVE  IInv'
<1> USE Parts
<1>1. /\ c \in Procs /\ c \notin Suppliers /\ Goto(c, "prepare", "lock_oven_full")
      /\ oven' = oven /\ table' = table /\ sem' = sem
  BY DEF Prepare
<1>2. PICK t \in Types : type' = [type EXCEPT ![c] = t]
  BY DEF Prepare
<1>3. TypeOK'
  BY <1>1, <1>2 DEF TypeOK, Goto, Labels
<1>4. Balanced(c, "prepare", "lock_oven_full")
  BY <1>1 DEF Balanced, Moves, Semaphores, AtOven, AtTable, HoldsOven, HoldsTable, InOven,
              JustPlaced, AboutToFetch
<1>5. HandsFull'
  BY <1>1, <1>2 DEF IInv, HandsFull, Goto, At, Carrying
<1>6. Contiguous'
  <2>1. ASSUME NEW l \in HalfWay, NEW S \in SUBSET Procs
        PROVE  At(S, {l})' = At(S, {l})
    BY <1>1 DEF Goto, At, HalfWay
  <2> QED  BY <1>1, <2>1 DEF IInv, Contiguous, HalfWay
<1> QED  BY <1>1, <1>3, <1>4, <1>5, <1>6, Accounts DEF IInv

\* The drive of a supplier touches nothing shared.
LEMMA DeliverStep ==
    ASSUME IInv, NEW s \in Suppliers, Deliver(s)
    PROVE  IInv'
<1> USE Parts
<1>1. /\ s \in Procs /\ s \notin Cooks /\ Goto(s, "deliver", "await_pizza")
      /\ type' = type /\ oven' = oven /\ table' = table /\ sem' = sem
  BY DEF Deliver
<1>2. Balanced(s, "deliver", "await_pizza")
  BY <1>1 DEF Balanced, Moves, Semaphores, AtOven, AtTable, HoldsOven, HoldsTable, InOven,
              JustPlaced, AboutToFetch
<1> QED  BY <1>1, <1>2, SemopStep DEF Labels, HalfWay, SupplierHolds

\* Both halves of put_in_oven.
LEMMA PutStep ==
    ASSUME IInv, NEW c \in Cooks, put_in_oven(c)
    PROVE  IInv'
<1> USE Parts
<1>1. c \in Procs /\ c \notin Suppliers
  OBVIOUS
<1>2. CASE /\ Goto(c, "put_store", "put_advance")
           /\ oven' = Store(oven, type[c])
           /\ type' = type /\ table' = table /\ sem' = sem
  <2>1. pc[c] = "put_store"
    BY <1>2 DEF Goto
  <2>2. type[c] \in Types
    BY <2>1 DEF IInv, HandsFull, At, Carrying
  <2>3. Shape(oven, OvenSize, FALSE, FALSE) /\ oven.pizzas \in 0..(OvenSize - 1)
    BY <2>1, Exclusive, Room DEF IInv, Contiguous
  <2>4. /\ oven' \in BufferType(OvenSize) /\ Shape(oven', OvenSize, TRUE, FALSE)
        /\ oven'.pizzas = oven.pizzas
    BY <1>2, <2>2, <2>3, ShapeStore
  <2>5. TypeOK'
    BY <1>2, <2>4 DEF IInv, TypeOK, Goto, Labels, AtOven
  <2>6. Balanced(c, "put_store", "put_advance")
    BY <1>1, <1>2, <2>4 DEF Balanced, Moves, Semaphores, AtOven, AtTable, HoldsOven,
                       HoldsTable, InOven, JustPlaced, AboutToFetch
  <2>7. HandsFull'
    BY <1>1, <1>2, HandsStay DEF Carrying, SupplierHolds
  <2>8. /\ At(Cooks, {"put_advance"})' # {} /\ At(Cooks, {"take_advance"})' = {}
        /\ At(Cooks, {"place_advance"})' = At(Cooks, {"place_advance"})
        /\ At(Suppliers, {"fetch_advance"})' = At(Suppliers, {"fetch_advance"})
    BY <1>1, <1>2, <2>1, Exclusive DEF Goto, At
  <2>9. Contiguous'
    BY <1>2, <2>4, <2>8 DEF IInv, Contiguous
  <2> QED  BY <1>1, <1>2, <2>5, <2>6, <2>7, <2>9, Accounts DEF IInv
<1>3. CASE /\ Goto(c, "put_advance", "put_done")
           /\ oven' = Placed(oven, OvenSize)
           /\ type' = type /\ table' = table /\ sem' = sem
  <2>1. pc[c] = "put_advance"
    BY <1>3 DEF Goto
  <2>2. Shape(oven, OvenSize, TRUE, FALSE) /\ oven.pizzas \in 0..(OvenSize - 1)
    BY <2>1, Exclusive, Room DEF IInv, Contiguous
  <2>3. /\ oven' \in BufferType(OvenSize) /\ Shape(oven', OvenSize, FALSE, FALSE)
        /\ oven'.pizzas = oven.pizzas + 1
    BY <1>3, <2>2, ShapePlaced
  <2>4. TypeOK'
    BY <1>3, <2>3 DEF IInv, TypeOK, Goto, Labels, AtOven
  <2>5. Balanced(c, "put_advance", "put_done")
    BY <1>1, <1>3, <2>3 DEF Balanced, Moves, Semaphores, AtOven, AtTable, HoldsOven,
                       HoldsTable, InOven, JustPlaced, AboutToFetch
  <2>6. HandsFull'
    BY <1>1, <1>3, HandsStay DEF Carrying, SupplierHolds
  <2>7. /\ At(Cooks, {"put_advance"})' = {} /\ At(Cooks, {"take_advance"})' = {}
        /\ At(Cooks, {"place_advance"})' = At(Cooks, {"place_advance"})
        /\ At(Suppliers, {"fetch_advance"})' = At(Suppliers, {"fetch_advance"})
    BY <1>1, <1>3, <2>1, Exclusive DEF Goto, At
  <2>8. Contiguous'
    BY <1>3, <2>3, <2>7 DEF IInv, Contiguous
  <2> QED  BY <1>1, <1>3, <2>4, <2>5, <2>6, <2>8, Accounts DEF IInv
<1> QED  BY <1>2, <1>3 DEF put_in_oven

\* Both halves of deliver_pizza at the oven.
LEMMA TakeStep ==
    ASSUME IInv, NEW c \in Cooks, deliver_from_oven(c)
    PROVE  IInv'
<1> USE Parts
<1>1. c \in Procs /\ c \notin Suppliers
  OBVIOUS
<1>2. CASE /\ Goto(c, "take_clear", "take_advance")
           /\ oven' = Clear(oven)
           /\ type' = [type EXCEPT ![c] = oven.slots[oven.idx_to_take_out]]
           /\ table' = table /\ sem' = sem
  <2>1. pc[c] = "take_clear"
    BY <1>2 DEF Goto
  <2>2. Shape(oven, OvenSize, FALSE, FALSE) /\ oven.pizzas \in 1..OvenSize
    BY <2>1, Exclusive, Room DEF IInv, Contiguous
  <2>3. /\ oven' \in BufferType(OvenSize) /\ Shape(oven', OvenSize, FALSE, TRUE)
        /\ oven'.pizzas = oven.pizzas /\ oven.slots[oven.idx_to_take_out] \in Types
    BY <1>2, <2>2, ShapeClear
  <2>4. TypeOK'
    BY <1>2, <2>3 DEF IInv, TypeOK, Goto, Labels, AtOven
  <2>5. Balanced(c, "take_clear", "take_advance")
    BY <1>1, <1>2, <2>3 DEF Balanced, Moves, Semaphores, AtOven, AtTable, HoldsOven,
                       HoldsTable, InOven, JustPlaced, AboutToFetch
  <2>6. HandsFull'
    BY <1>1, <1>2, <2>3 DEF IInv, HandsFull, Goto, At, Carrying
  <2>7. /\ At(Cooks, {"take_advance"})' # {} /\ At(Cooks, {"put_advance"})' = {}
        /\ At(Cooks, {"place_advance"})' = At(Cooks, {"place_advance"})
        /\ At(Suppliers, {"fetch_advance"})' = At(Suppliers, {"fetch_advance"})
    BY <1>1, <1>2, <2>1, Exclusive DEF Goto, At
  <2>8. Contiguous'
    BY <1>2, <2>3, <2>7 DEF IInv, Contiguous
  <2> QED  BY <1>1, <1>2, <2>4, <2>5, <2>6, <2>8, Accounts DEF IInv
<1>3. CASE /\ Goto(c, "take_advance", "take_done")
           /\ oven' = TakenOut(oven, OvenSize)
           /\ type' = type /\ table' = table /\ sem' = sem
  <2>1. pc[c] = "take_advance"
    BY <1>3 DEF Goto
  <2>2. Shape(oven, OvenSize, FALSE, TRUE) /\ oven.pizzas \in 1..OvenSize
    BY <2>1, Exclusive, Room DEF IInv, Contiguous
  <2>3. /\ oven' \in BufferType(OvenSize) /\ Shape(oven', OvenSize, FALSE, FALSE)
        /\ oven'.pizzas = oven.pizzas - 1
    BY <1>3, <2>2, ShapeTakenOut
  <2>4. TypeOK'
    BY <1>3, <2>3 DEF IInv, TypeOK, Goto, Labels, AtOven
  <2>5. Balanced(c, "take_advance", "take_done")
    BY <1>1, <1>3, <2>3 DEF Balanced, Moves, Semaphores, AtOven, AtTable, HoldsOven,
                       HoldsTable, InOven, JustPlaced, AboutToFetch
  <2>6. HandsFull'
    BY <1>1, <1>3, HandsStay DEF Carrying, SupplierHolds
  <2>7. /\ At(Cooks, {"take_advance"})' = {} /\ At(Cooks, {"put_advance"})' = {}
        /\ At(Cooks, {"place_advance"})' = At(Cooks, {"place_advance"})
        /\ At(Suppliers, {"fetch_advance"})' = At(Suppliers, {"fetch_advance"})
    BY <1>1, <1>3, <2>1, Exclusive DEF Goto, At
  <2>8. Contiguous'
    BY <1>3, <2>3, <2>7 DEF IInv, Contiguous
  <2> QED  BY <1>1, <1>3, <2>4, <2>5, <2>6, <2>8, Accounts DEF IInv
<1> QED  BY <1>2, <1>3 DEF deliver_from_oven

\* Both halves of place_on_table, which wraps at OVEN_SIZE: TableSize = OvenSize.
LEMMA PlaceStep ==
    ASSUME IInv, NEW c \in Cooks, place_on_table(c)
    PROVE  IInv'
<1> USE Parts
<1>1. c \in Procs /\ c \notin Suppliers
  OBVIOUS
<1>2. CASE /\ Goto(c, "place_store", "place_advance")
           /\ table' = Store(table, type[c])
           /\ type' = type
           /\ oven' = oven /\ sem' = sem
  <2>1. pc[c] = "place_store"
    BY <1>2 DEF Goto
  <2>2. type[c] \in Types
    BY <2>1 DEF IInv, HandsFull, At, Carrying
  <2>3. Shape(table, TableSize, FALSE, FALSE) /\ table.pizzas \in 0..(TableSize - 1)
    BY <2>1, Exclusive, Room DEF IInv, Contiguous
  <2>4. /\ table' \in BufferType(TableSize) /\ Shape(table', TableSize, TRUE, FALSE)
        /\ table'.pizzas = table.pizzas
    BY <1>2, <2>2, <2>3, ShapeStore
  <2>5. TypeOK'
    BY <1>2, <2>4 DEF IInv, TypeOK, Goto, Labels, AtTable
  <2>6. Balanced(c, "place_store", "place_advance")
    BY <1>1, <1>2, <2>4 DEF Balanced, Moves, Semaphores, AtOven, AtTable, HoldsOven,
                       HoldsTable, InOven, JustPlaced, AboutToFetch
  <2>7. HandsFull'
    BY <1>1, <1>2, HandsStay DEF Carrying, SupplierHolds
  <2>8. /\ At(Cooks, {"place_advance"})' # {} /\ At(Suppliers, {"fetch_advance"})' = {}
        /\ At(Cooks, {"put_advance"})' = At(Cooks, {"put_advance"})
        /\ At(Cooks, {"take_advance"})' = At(Cooks, {"take_advance"})
    BY <1>1, <1>2, <2>1, Exclusive DEF Goto, At
  <2>9. Contiguous'
    BY <1>2, <2>4, <2>8 DEF IInv, Contiguous
  <2> QED  BY <1>1, <1>2, <2>5, <2>6, <2>7, <2>9, Accounts DEF IInv
<1>3. CASE /\ Goto(c, "place_advance", "place_done")
           /\ table' = Placed(table, OvenSize)
           /\ type' = type /\ oven' = oven /\ sem' = sem
  <2>1. pc[c] = "place_advance"
    BY <1>3 DEF Goto
  <2>2. Shape(table, TableSize, TRUE, FALSE) /\ table.pizzas \in 0..(TableSize - 1)
    BY <2>1, Exclusive, Room DEF IInv, Contiguous
  <2>3. /\ table' \in BufferType(TableSize) /\ Shape(table', TableSize, FALSE, FALSE)
        /\ table'.pizzas = table.pizzas + 1
    BY <1>3, <2>2, ShapePlaced
  <2>4. TypeOK'
    BY <1>3, <2>3 DEF IInv, TypeOK, Goto, Labels, AtTable
  <2>5. Balanced(c, "place_advance", "place_done")
    BY <1>1, <1>3, <2>3 DEF Balanced, Moves, Semaphores, AtOven, AtTable, HoldsOven,
                       HoldsTable, InOven, JustPlaced, AboutToFetch
  <2>6. HandsFull'
    BY <1>1, <1>3, HandsStay DEF Carrying, SupplierHolds
  <2>7. /\ At(Cooks, {"place_advance"})' = {} /\ At(Suppliers, {"fetch_advance"})' = {}
        /\ At(Cooks, {"put_advance"})' = At(Cooks, {"put_advance"})
        /\ At(Cooks, {"take_advance"})' = At(Cooks, {"take_advance"})
    BY <1>1, <1>3, <2>1, Exclusive DEF Goto, At
  <2>8. Contiguous'
    BY <1>3, <2>3, <2>7 DEF IInv, Contiguous
  <2> QED  BY <1>1, <1>3, <2>4, <2>5, <2>6, <2>8, Accounts DEF IInv
<1> QED  BY <1>2, <1>3 DEF place_on_table

\* Both halves of deliver_pizza at the table.
LEMMA FetchStep ==
    ASSUME IInv, NEW s \in Suppliers, deliver_from_table(s)
    PROVE  IInv'
<1> USE Parts
<1>1. s \in Procs /\ s \notin Cooks
  OBVIOUS
<1>2. CASE /\ Goto(s, "fetch_clear", "fetch_advance")
           /\ table' = Clear(table)
           /\ type' = [type EXCEPT ![s] = table.slots[table.idx_to_take_out]]
           /\ oven' = oven /\ sem' = sem
  <2>1. pc[s] = "fetch_clear"
    BY <1>2 DEF Goto
  <2>2. Shape(table, TableSize, FALSE, FALSE) /\ table.pizzas \in 1..TableSize
    BY <2>1, Exclusive, Room DEF IInv, Contiguous
  <2>3. /\ table' \in BufferType(TableSize) /\ Shape(table', TableSize, FALSE, TRUE)
        /\ table'.pizzas = table.pizzas /\ table.slots[table.idx_to_take_out] \in Types
    BY <1>2, <2>2, ShapeClear
  <2>4. TypeOK'
    BY <1>2, <2>3 DEF IInv, TypeOK, Goto, Labels, AtTable
  <2>5. Balanced(s, "fetch_clear", "fetch_advance")
    BY <1>1, <1>2, <2>3 DEF Balanced, Moves, Semaphores, AtOven, AtTable, HoldsOven,
                       HoldsTable, InOven, JustPlaced, AboutToFetch
  <2>6. HandsFull'
    BY <1>1, <1>2, <2>3 DEF IInv, HandsFull, Goto, At, Carrying
  <2>7. /\ At(Suppliers, {"fetch_advance"})' # {} /\ At(Cooks, {"place_advance"})' = {}
        /\ At(Cooks, {"put_advance"})' = At(Cooks, {"put_advance"})
        /\ At(Cooks, {"take_advance"})' = At(Cooks, {"take_advance"})
    BY <1>1, <1>2, <2>1, Exclusive DEF Goto, At
  <2>8. Contiguous'
    BY <1>2, <2>3, <2>7 DEF IInv, Contiguous
  <2> QED  BY <1>1, <1>2, <2>4, <2>5, <2>6, <2>8, Accounts DEF IInv
<1>3. CASE /\ Goto(s, "fetch_advance", "fetch_done")
           /\ table' = TakenOut(table, TableSize)
           /\ type' = type /\ oven' = oven /\ sem' = sem
  <2>1. pc[s] = "fetch_advance"
    BY <1>3 DEF Goto
  <2>2. Shape(table, TableSize, FALSE, TRUE) /\ table.pizzas \in 1..TableSize
    <3>1. At(Cooks, {"place_advance"}) = {} /\ At(Suppliers, {"fetch_advance"}) = {s}
      BY <2>1, Exclusive
    <3>2. /\ (At(Cooks, {"place_advance"}) # {}) = FALSE
          /\ (At(Suppliers, {"fetch_advance"}) # {}) = TRUE
      BY <3>1
    <3>3. Shape(table, TableSize, FALSE, TRUE)
      BY <3>2 DEF IInv, Contiguous
    <3>4. table.pizzas \in 1..TableSize
      BY <2>1, Room
    <3> QED  BY <3>3, <3>4
  <2>3. /\ table' \in BufferType(TableSize) /\ Shape(table', TableSize, FALSE, FALSE)
        /\ table'.pizzas = table.pizzas - 1
    BY <1>3, <2>2, ShapeTakenOut
  <2>4. TypeOK'
    BY <1>3, <2>3 DEF IInv, TypeOK, Goto, Labels, AtTable
  <2>5. Balanced(s, "fetch_advance", "fetch_done")
    BY <1>1, <1>3, <2>3 DEF Balanced, Moves, Semaphores, AtOven, AtTable, HoldsOven,
                       HoldsTable, InOven, JustPlaced, AboutToFetch
  <2>6. HandsFull'
    BY <1>1, <1>3, HandsStay DEF Carrying, SupplierHolds
  <2>7. /\ At(Suppliers, {"fetch_advance"})' = {} /\ At(Cooks, {"place_advance"})' = {}
        /\ At(Cooks, {"put_advance"})' = At(Cooks, {"put_advance"})
        /\ At(Cooks, {"take_advance"})' = At(Cooks, {"take_advance"})
    BY <1>1, <1>3, <2>1, Exclusive DEF Goto, At
  <2>8. Contiguous'
    BY <1>3, <2>3, <2>7 DEF IInv, Contiguous
  <2> QED  BY <1>1, <1>3, <2>4, <2>5, <2>6, <2>8, Accounts DEF IInv
<1> QED  BY <1>2, <1>3 DEF deliver_from_table
-----------------------------------------------------------------------------
(* The theorems.                                                           *)

\* The kitchen as main sets it up satisfies the invariant.
LEMMA InitIInv == Init => IInv
<1> SUFFICES ASSUME Init PROVE IInv
  OBVIOUS
<1>1. \A p \in Procs : pc[p] \in {"prepare", "await_pizza"}
  BY DEF Init, FirstLabel
<1>2. /\ At(Cooks, AtOven) = {} /\ At(Procs, AtTable) = {} /\ At(Cooks, HoldsOven) = {}
      /\ At(Procs, HoldsTable) = {} /\ At(Cooks, InOven) = {} /\ At(Cooks, JustPlaced) = {}
      /\ At(Suppliers, AboutToFetch) = {} /\ At(Cooks, Carrying) = {}
      /\ At(Cooks, {"put_advance"}) = {} /\ At(Cooks, {"take_advance"}) = {}
      /\ At(Cooks, {"place_advance"}) = {} /\ At(Suppliers, {"fetch_advance"}) = {}
      /\ At(Suppliers, SupplierHolds) = {}
  BY <1>1 DEF At, AtOven, AtTable, HoldsOven, HoldsTable, InOven, JustPlaced, AboutToFetch,
              Carrying, SupplierHolds, Procs
<1>3. /\ sem \in [Semaphores -> Nat]
      /\ sem["OVEN"] = 1 /\ sem["TABLE"] = 1 /\ sem["OVEN_FULL"] = OvenSize
      /\ sem["TABLE_FULL"] = TableSize /\ sem["TABLE_EMPTY"] = 0
  BY PizzeriaAssumption DEF Init, InitialSem, Semaphores
<1>4. /\ oven \in BufferType(OvenSize) /\ table \in BufferType(TableSize)
      /\ oven.pizzas = 0 /\ table.pizzas = 0
      /\ Shape(oven, OvenSize, FALSE, FALSE) /\ Shape(table, TableSize, FALSE, FALSE)
  BY PizzeriaAssumption DEF Init, EmptyBuffer, BufferType, Shape, Window
<1>5. TypeOK
  BY <1>1, <1>3, <1>4 DEF TypeOK, Init, Labels, FirstLabel
<1>6. MutexAccounting /\ CapacityAccounting /\ PizzasCounted
  BY <1>2, <1>3, <1>4, FS_EmptySet, PizzeriaAssumption
     DEF MutexAccounting, CapacityAccounting, PizzasCounted
<1>7. HandsFull /\ Contiguous
  BY <1>2, <1>4 DEF HandsFull, Contiguous, SupplierHolds
<1> QED  BY <1>5, <1>6, <1>7 DEF IInv

\* Every step of every process preserves it.
LEMMA NextIInv == IInv /\ [Next]_vars => IInv'
<1> SUFFICES ASSUME IInv, [Next]_vars PROVE IInv'
  OBVIOUS
<1>1. ASSUME NEW c \in Cooks, Cook(c)
      PROVE  IInv'
  BY <1>1, CookSemopStep, PrepareStep, PutStep, TakeStep, PlaceStep DEF Cook, CookLocal
<1>2. ASSUME NEW s \in Suppliers, Supplier(s)
      PROVE  IInv'
  BY <1>2, SupplierSemopStep, FetchStep, DeliverStep DEF Supplier, SupplierLocal
<1>3. CASE UNCHANGED vars
  <2>1. \A S, L : At(S, L)' = At(S, L)
    BY <1>3 DEF vars, At
  <2> QED  BY <1>3, <2>1 DEF vars, IInv, TypeOK, MutexAccounting, CapacityAccounting,
                         PizzasCounted, HandsFull, Contiguous
<1> QED  BY <1>1, <1>2, <1>3 DEF Next

\* What the invariant says of overwriting, of phantom pizzas and of the limits.
LEMMA IInvImplies == IInv => WithinLimits /\ NoOverwrite /\ NoPhantomPizza
<1> SUFFICES ASSUME IInv PROVE WithinLimits /\ NoOverwrite /\ NoPhantomPizza
  OBVIOUS
<1> USE Parts
<1>1. WithinLimits
  BY Room DEF WithinLimits
<1>2. ASSUME NEW c \in Cooks, pc[c] = "put_store"
      PROVE  oven.slots[oven.idx_to_place] = NoPizza
  <2>1. Shape(oven, OvenSize, FALSE, FALSE) /\ oven.pizzas \in 0..(OvenSize - 1)
    BY <1>2, Exclusive, Room DEF IInv, Contiguous
  <2>2. oven.idx_to_place \in 0..(OvenSize - 1) /\ oven.idx_to_take_out \in 0..(OvenSize - 1)
    BY DEF BufferType
  <2>3. oven.idx_to_place \notin Window(oven, OvenSize)
    BY <2>1, <2>2 DEF Shape, Window
  <2> QED  BY <2>1, <2>2, <2>3 DEF Shape
<1>3. ASSUME NEW c \in Cooks, pc[c] = "place_store"
      PROVE  table.slots[table.idx_to_place] = NoPizza
  <2>1. Shape(table, TableSize, FALSE, FALSE) /\ table.pizzas \in 0..(TableSize - 1)
    BY <1>3, Exclusive, Room DEF IInv, Contiguous
  <2>2. table.idx_to_place \in 0..(TableSize - 1) /\ table.idx_to_take_out \in 0..(TableSize - 1)
    BY DEF BufferType
  <2>3. table.idx_to_place \notin Window(table, TableSize)
    BY <2>1, <2>2 DEF Shape, Window
  <2> QED  BY <2>1, <2>2, <2>3 DEF Shape
<1>4. ASSUME NEW c \in Cooks, pc[c] = "take_clear"
      PROVE  oven.slots[oven.idx_to_take_out] # NoPizza
  <2>1. Shape(oven, OvenSize, FALSE, FALSE) /\ oven.pizzas \in 1..OvenSize
    BY <1>4, Exclusive, Room DEF IInv, Contiguous
  <2> QED  BY <2>1, ShapeClear, PizzeriaAssumption
<1>5. ASSUME NEW s \in Suppliers, pc[s] = "fetch_clear"
      PROVE  table.slots[table.idx_to_take_out] # NoPizza
  <2>1. Shape(table, TableSize, FALSE, FALSE) /\ table.pizzas \in 1..TableSize
    BY <1>5, Exclusive, Room DEF IInv, Contiguous
  <2> QED  BY <2>1, ShapeClear, PizzeriaAssumption
<1>6. /\ \A c \in At(Cooks, Carrying) : type[c] # NoPizza
      /\ \A s \in At(Suppliers, {"deliver"}) : type[s] # NoPizza
  BY PizzeriaAssumption DEF IInv, HandsFull, At
<1> QED  BY <1>1, <1>2, <1>3, <1>4, <1>5, <1>6 DEF NoOverwrite, NoPhantomPizza, At

\* The inductive invariant holds in every reachable state.
THEOREM Invariance == Spec => []IInv
BY InitIInv, NextIInv, PTL DEF Spec

\* TypeOK of every execution of the cooks and suppliers: indices stay inside the
\* arrays and no semaphore is negative, whatever their number and the sizes.
THEOREM TypeCorrect == Spec => []TypeOK
<1>1. IInv => TypeOK
  BY DEF IInv
<1> QED  BY <1>1, Invariance, PTL

\* At most one process at the oven window and one at the table (readme.md:44), and
\* every unit of the semaphores and every pizza accounted for, for any number of
\* cooks and suppliers.
THEOREM MutualExclusion == Spec => []UnitsAccounted
<1>1. IInv => UnitsAccounted
  BY DEF IInv, UnitsAccounted
<1> QED  BY <1>1, Invariance, PTL

\* The number of pizzas never exceeds an array (readme.md:44), and no pizza is overwritten.
THEOREM NothingLost == Spec => [](WithinLimits /\ NoOverwrite)
BY IInvImplies, Invariance, PTL

\* No pizza is taken from a free slot, neither from the oven nor from the table.
THEOREM NothingMadeUp == Spec => []NoPhantomPizza
BY IInvImplies, Invariance, PTL

\* Each array is a queue: what is occupied is the window between its two indices.
THEOREM BuffersAreQueues == Spec => []Contiguous
<1>1. IInv => Contiguous
  BY DEF IInv
<1> QED  BY <1>1, Invariance, PTL
-----------------------------------------------------------------------------
(* The contents of a cyclic array as a queue.                              *)

\* An index that goes round at most once.
LEMMA GoesRound ==
    ASSUME NEW n \in Nat \ {0}, NEW i \in 0..(2 * n - 1)
    PROVE  i % n = IF i < n THEN i ELSE i - n
OBVIOUS

\* Where the k-th oldest pizza of an array is.
Slot(buf, n, k) == (buf.idx_to_take_out + k - 1) % n

\* It is in the window, the first one at the index to take out.
LEMMA KthSlot ==
    ASSUME NEW n \in Nat \ {0}, NEW buf \in BufferType(n), buf.pizzas \in 0..n,
           NEW k \in 1..buf.pizzas
    PROVE  /\ Slot(buf, n, k) \in Window(buf, n)
           /\ Slot(buf, n, k) \in 0..(n - 1)
           /\ Slot(buf, n, k) = buf.idx_to_take_out <=> k = 1
<1> DEFINE i == buf.idx_to_take_out + k - 1
<1>1. buf.idx_to_take_out \in 0..(n - 1)
  BY DEF BufferType
<1>2. i \in 0..(2 * n - 1)
  BY <1>1
<1>3. i % n = IF i < n THEN i ELSE i - n
  BY <1>2, GoesRound
<1>4. Slot(buf, n, k) = IF i < n THEN i ELSE i - n
  BY <1>3 DEF Slot
<1> QED  BY <1>1, <1>4 DEF Window

\* The contents of an array are a sequence of the pizzas in it.
LEMMA ContentsType ==
    ASSUME NEW n \in Nat \ {0}, NEW buf \in BufferType(n), buf.pizzas \in 0..n
    PROVE  /\ Contents(buf, n, FALSE) \in Seq(Types \cup {NoPizza})
           /\ Len(Contents(buf, n, FALSE)) = buf.pizzas
           /\ \A k \in 1..buf.pizzas : Contents(buf, n, FALSE)[k] = buf.slots[Slot(buf, n, k)]
           /\ Contents(buf, n, FALSE) = [k \in 1..buf.pizzas |-> buf.slots[Slot(buf, n, k)]]
<1> DEFINE q == [k \in 1..buf.pizzas |-> buf.slots[Slot(buf, n, k)]]
<1>1. buf.slots \in [0..(n - 1) -> Types \cup {NoPizza}]
  BY DEF BufferType
<1>2. Contents(buf, n, FALSE) = q
  <2>1. ASSUME NEW k \in 1..buf.pizzas
        PROVE  (buf.idx_to_take_out + 0 + k - 1) % n = Slot(buf, n, k)
    <3>1. buf.idx_to_take_out + 0 + k - 1 = buf.idx_to_take_out + k - 1
      BY DEF BufferType
    <3> QED  BY <3>1 DEF Slot
  <2> QED  BY <2>1 DEF Contents
<1>3. q \in [1..buf.pizzas -> Types \cup {NoPizza}]
  BY <1>1, KthSlot
<1>4. q \in Seq(Types \cup {NoPizza})
  BY <1>3
<1>5. Len(q) = buf.pizzas
  BY <1>3
<1> QED  BY <1>2, <1>4, <1>5

\* Storing in the slot behind the window does not show.
LEMMA ContentsStore ==
    ASSUME NEW n \in Nat \ {0}, NEW buf \in BufferType(n), NEW t \in Types,
           Shape(buf, n, FALSE, FALSE), buf.pizzas \in 0..(n - 1)
    PROVE  Contents(Store(buf, t), n, FALSE) = Contents(buf, n, FALSE)
<1> DEFINE new == Store(buf, t)
<1>1. /\ new.slots = [buf.slots EXCEPT ![buf.idx_to_place] = t]
      /\ new.idx_to_take_out = buf.idx_to_take_out /\ new.pizzas = buf.pizzas
      /\ buf.idx_to_place \in 0..(n - 1) /\ buf.idx_to_take_out \in 0..(n - 1)
      /\ buf.slots \in [0..(n - 1) -> Types \cup {NoPizza}]
      /\ new \in BufferType(n) /\ buf.pizzas \in 0..n
  BY ShapeStore, SMTT(30) DEF Store, BufferType
<1>2. buf.idx_to_place \notin Window(buf, n)
  BY <1>1 DEF Shape, Window
<1> HIDE DEF new
<1>3. \A k \in 1..buf.pizzas : Slot(new, n, k) = Slot(buf, n, k)
  BY <1>1 DEF Slot
<1>4. \A k \in 1..buf.pizzas : new.slots[Slot(buf, n, k)] = buf.slots[Slot(buf, n, k)]
  BY <1>1, <1>2, KthSlot
<1>5. /\ Contents(new, n, FALSE) = [k \in 1..buf.pizzas |-> new.slots[Slot(new, n, k)]]
      /\ Contents(buf, n, FALSE) = [k \in 1..buf.pizzas |-> buf.slots[Slot(buf, n, k)]]
  <2>1. Contents(new, n, FALSE) = [k \in 1..new.pizzas |-> new.slots[Slot(new, n, k)]]
    BY <1>1, ContentsType
  <2>2. Contents(buf, n, FALSE) = [k \in 1..buf.pizzas |-> buf.slots[Slot(buf, n, k)]]
    BY <1>1, ContentsType
  <2> QED  BY <1>1, <2>1, <2>2
<1>6. \A k \in 1..buf.pizzas : new.slots[Slot(new, n, k)] = buf.slots[Slot(buf, n, k)]
  BY <1>3, <1>4
<1> QED  BY <1>5, <1>6, Zenon DEF new

\* Advancing the index appends what was stored there.
LEMMA ContentsPlaced ==
    ASSUME NEW n \in Nat \ {0}, NEW buf \in BufferType(n),
           Shape(buf, n, TRUE, FALSE), buf.pizzas \in 0..(n - 1)
    PROVE  Contents(Placed(buf, n), n, FALSE) =
             Append(Contents(buf, n, FALSE), buf.slots[buf.idx_to_place])
<1> DEFINE new == Placed(buf, n)
           oldQ == Contents(buf, n, FALSE)
           newQ == Contents(new, n, FALSE)
           last == buf.slots[buf.idx_to_place]
<1>1. /\ new \in BufferType(n) /\ new.pizzas = buf.pizzas + 1
      /\ new.slots = buf.slots /\ new.idx_to_take_out = buf.idx_to_take_out
  BY ShapePlaced DEF Placed, BufferType
<1>2. /\ buf.idx_to_place \in 0..(n - 1) /\ buf.idx_to_take_out \in 0..(n - 1)
      /\ last \in Types \cup {NoPizza}
  BY DEF BufferType
<1> HIDE DEF new
<1>3. \A k : Slot(new, n, k) = Slot(buf, n, k)
  BY <1>1 DEF Slot
<1>4. Slot(buf, n, buf.pizzas + 1) = buf.idx_to_place
  <2> DEFINE e == buf.idx_to_take_out + buf.pizzas
  <2>1. buf.idx_to_place = e \/ buf.idx_to_place = e - n
    BY <1>2 DEF Shape
  <2>2. e \in 0..(2 * n - 1) /\ buf.idx_to_take_out + (buf.pizzas + 1) - 1 = e
    BY <1>2
  <2>3. Slot(buf, n, buf.pizzas + 1) = e % n
    BY <2>2 DEF Slot
  <2> HIDE DEF e
  <2>4. e % n = IF e < n THEN e ELSE e - n
    BY <2>2, GoesRound
  <2> QED  BY <1>2, <2>1, <2>2, <2>3, <2>4
<1>5. /\ newQ \in Seq(Types \cup {NoPizza}) /\ Len(newQ) = buf.pizzas + 1
      /\ \A k \in 1..(buf.pizzas + 1) : newQ[k] = buf.slots[Slot(new, n, k)]
  <2>1. new.pizzas \in 0..n
    BY <1>1
  <2>2. /\ newQ \in Seq(Types \cup {NoPizza}) /\ Len(newQ) = new.pizzas
        /\ \A k \in 1..new.pizzas : newQ[k] = new.slots[Slot(new, n, k)]
    BY <1>1, <2>1, ContentsType
  <2> HIDE DEF newQ
  <2> QED  BY <1>1, <2>2
<1>6. /\ oldQ \in Seq(Types \cup {NoPizza}) /\ Len(oldQ) = buf.pizzas
      /\ \A k \in 1..buf.pizzas : oldQ[k] = buf.slots[Slot(buf, n, k)]
  <2>1. buf.pizzas \in 0..n
    OBVIOUS
  <2> QED  BY <2>1, ContentsType
<1> HIDE DEF oldQ, newQ, last
<1>7. newQ[buf.pizzas + 1] = last
  BY <1>3, <1>4, <1>5 DEF last
<1>8. ASSUME NEW k \in 1..buf.pizzas
      PROVE  newQ[k] = oldQ[k]
  <2>1. k \in 1..(buf.pizzas + 1)
    OBVIOUS
  <2> QED  BY <1>3, <1>5, <1>6, <2>1
<1>9. newQ = Append(oldQ, last)
  <2>1. /\ Append(oldQ, last) \in Seq(Types \cup {NoPizza})
        /\ Len(Append(oldQ, last)) = Len(newQ)
    BY <1>2, <1>5, <1>6
  <2>2. \A k \in 1..Len(newQ) : newQ[k] = Append(oldQ, last)[k]
    BY <1>2, <1>5, <1>6, <1>7, <1>8
  <2> QED  BY <1>5, <2>1, <2>2, SeqEqual
<1> QED  BY <1>9 DEF new, oldQ, newQ, last

\* Clearing the oldest slot takes the head away.
LEMMA ContentsClear ==
    ASSUME NEW n \in Nat \ {0}, NEW buf \in BufferType(n), buf.pizzas \in 1..n
    PROVE  /\ Contents(buf, n, FALSE) # <<>>
           /\ buf.slots[buf.idx_to_take_out] = Head(Contents(buf, n, FALSE))
           /\ Contents(Clear(buf), n, TRUE) = Tail(Contents(buf, n, FALSE))
<1> DEFINE new == Clear(buf)
           oldQ == Contents(buf, n, FALSE)
<1>1. /\ buf.idx_to_take_out \in 0..(n - 1)
      /\ buf.slots \in [0..(n - 1) -> Types \cup {NoPizza}]
      /\ new.slots = [buf.slots EXCEPT ![buf.idx_to_take_out] = NoPizza]
      /\ new.idx_to_take_out = buf.idx_to_take_out /\ new.pizzas = buf.pizzas
      /\ buf.pizzas \in 0..n
  BY DEF Clear, BufferType
<1>2. /\ oldQ \in Seq(Types \cup {NoPizza}) /\ Len(oldQ) = buf.pizzas
      /\ \A k \in 1..buf.pizzas : oldQ[k] = buf.slots[Slot(buf, n, k)]
  BY <1>1, ContentsType
<1> HIDE DEF new, oldQ
<1>3. oldQ # <<>> /\ oldQ[1] = buf.slots[buf.idx_to_take_out]
  <2>1. 1 \in 1..buf.pizzas
    OBVIOUS
  <2>2. Slot(buf, n, 1) = buf.idx_to_take_out
    BY <1>1, <2>1, KthSlot
  <2> QED  BY <1>2, <2>1, <2>2
<1>4. ASSUME NEW k \in 1..(buf.pizzas - 1)
      PROVE  new.slots[(new.idx_to_take_out + 1 + k - 1) % n] = oldQ[k + 1]
  <2>1. k + 1 \in 1..buf.pizzas /\ k + 1 # 1
    OBVIOUS
  <2>2. new.idx_to_take_out + 1 + k - 1 = buf.idx_to_take_out + (k + 1) - 1
    BY <1>1
  <2>3. (new.idx_to_take_out + 1 + k - 1) % n = Slot(buf, n, k + 1)
    BY <2>2 DEF Slot
  <2>4. Slot(buf, n, k + 1) \in 0..(n - 1) /\ Slot(buf, n, k + 1) # buf.idx_to_take_out
    BY <1>1, <2>1, KthSlot
  <2>5. oldQ[k + 1] = buf.slots[Slot(buf, n, k + 1)]
    BY <1>2, <2>1
  <2> QED  BY <1>1, <2>3, <2>4, <2>5
<1>5. Contents(new, n, TRUE) = [k \in 1..(Len(oldQ) - 1) |-> oldQ[k + 1]]
  BY <1>1, <1>2, <1>4 DEF Contents
<1>6. /\ Head(oldQ) = oldQ[1]
      /\ Tail(oldQ) \in Seq(Types \cup {NoPizza}) /\ Len(Tail(oldQ)) = buf.pizzas - 1
      /\ \A k \in 1..(buf.pizzas - 1) : Tail(oldQ)[k] = oldQ[k + 1]
  BY <1>2, <1>3, HeadTailProperties
<1>7. Contents(new, n, TRUE) = Tail(oldQ)
  <2> DEFINE q == [k \in 1..(Len(oldQ) - 1) |-> oldQ[k + 1]]
  <2>1. q \in Seq(Types \cup {NoPizza}) /\ Len(q) = buf.pizzas - 1
    <3>1. \A k \in 1..(Len(oldQ) - 1) : oldQ[k + 1] \in Types \cup {NoPizza}
      BY <1>2
    <3>2. Len(oldQ) - 1 \in Nat
      BY <1>2
    <3>3. q \in [1..(Len(oldQ) - 1) -> Types \cup {NoPizza}]
      BY <3>1
    <3> HIDE DEF q
    <3> QED  BY <1>2, <3>2, <3>3
  <2>2. \A k \in 1..Len(q) : q[k] = Tail(oldQ)[k]
    BY <1>2, <1>6, <2>1
  <2>3. q = Tail(oldQ)
    BY <1>6, <2>1, <2>2, SeqEqual
  <2> QED  BY <1>5, <2>3
<1> QED  BY <1>3, <1>6, <1>7 DEF new, oldQ

\* Advancing the index behind a cleared slot does not show.
LEMMA ContentsTakenOut ==
    ASSUME NEW n \in Nat \ {0}, NEW buf \in BufferType(n), buf.pizzas \in 1..n
    PROVE  Contents(TakenOut(buf, n), n, FALSE) = Contents(buf, n, TRUE)
<1> DEFINE new == TakenOut(buf, n)
           next == IF buf.idx_to_take_out + 1 = n THEN 0 ELSE buf.idx_to_take_out + 1
<1>1. buf.idx_to_take_out \in 0..(n - 1)
  BY DEF BufferType
<1>2. (buf.idx_to_take_out + 1) % n = next
  BY <1>1, NextIndex
<1>3. /\ new.slots = buf.slots /\ new.pizzas = buf.pizzas - 1 /\ new.idx_to_take_out = next
  BY <1>2 DEF TakenOut, BufferType
<1> HIDE DEF new
<1>4. ASSUME NEW k \in 1..(buf.pizzas - 1)
      PROVE  (next + 0 + k - 1) % n = (buf.idx_to_take_out + 1 + k - 1) % n
  <2> DEFINE i == next + 0 + k - 1
             j == buf.idx_to_take_out + 1 + k - 1
  <2>1. /\ i \in 0..(2 * n - 1) /\ j \in 0..(2 * n - 1)
        /\ i = j \/ (i = j - n)
        /\ i = j \/ (i < n /\ j >= n)
    BY <1>1
  <2> HIDE DEF i, j
  <2>2. i % n = (IF i < n THEN i ELSE i - n) /\ j % n = (IF j < n THEN j ELSE j - n)
    BY <2>1, GoesRound
  <2>3. i % n = j % n
    BY <2>1, <2>2
  <2> QED  BY <2>3 DEF i, j
<1> HIDE DEF next
<1>5. /\ Contents(new, n, FALSE) =
           [k \in 1..(buf.pizzas - 1 - 0) |-> buf.slots[(next + 0 + k - 1) % n]]
      /\ Contents(buf, n, TRUE) =
           [k \in 1..(buf.pizzas - 1) |-> buf.slots[(buf.idx_to_take_out + 1 + k - 1) % n]]
  BY <1>3 DEF Contents
<1>6. buf.pizzas - 1 - 0 = buf.pizzas - 1
  OBVIOUS
<1> QED  BY <1>4, <1>5, <1>6 DEF new
-----------------------------------------------------------------------------
(* The mapping.                                                            *)

Duty == [c \in Cooks |-> DutyOf(pc[c])]
Hand == [c \in Cooks |-> IF DutyOf(pc[c]) \in {"put", "place"} THEN type[c] ELSE NoPizza]
OvenQ == Contents(oven, OvenSize, At(Cooks, {"take_advance"}) # {})
TableQ == Contents(table, TableSize, At(Suppliers, {"fetch_advance"}) # {})

\* What a cook between its two halves of storing has stored is the pizza in its hands.
Stored ==
    /\ \A c \in At(Cooks, {"put_advance"}) : oven.slots[oven.idx_to_place] = type[c]
    /\ \A c \in At(Cooks, {"place_advance"}) : table.slots[table.idx_to_place] = type[c]

\* Bakery's variables under the mapping, and its steps in these terms.
LEMMA BakeryVars == UNCHANGED <<Duty, Hand, OvenQ, TableQ>> => UNCHANGED Abstract!bakeryVars
BY DEF Abstract!bakeryVars, Duty, Hand, OvenQ, TableQ

LEMMA BakeryDraw ==
    ASSUME NEW c \in Cooks, NEW t \in Types, Duty[c] = "draw", Hand' = [Hand EXCEPT ![c] = t],
           Duty' = [Duty EXCEPT ![c] = "put"], UNCHANGED <<OvenQ, TableQ>>
    PROVE  Abstract!BakeryNext
BY DEF Abstract!BakeryNext, Abstract!Draw, Duty, Hand, OvenQ, TableQ

LEMMA BakeryPutIn ==
    ASSUME NEW c \in Cooks, Duty[c] = "put", Len(OvenQ) < OvenSize,
           OvenQ' = Append(OvenQ, Hand[c]), Duty' = [Duty EXCEPT ![c] = "take"],
           Hand' = [Hand EXCEPT ![c] = NoPizza], UNCHANGED TableQ
    PROVE  Abstract!BakeryNext
BY DEF Abstract!BakeryNext, Abstract!PutIn, Duty, Hand, OvenQ, TableQ

LEMMA BakeryTakeOut ==
    ASSUME NEW c \in Cooks, Duty[c] = "take", OvenQ # <<>>,
           Hand' = [Hand EXCEPT ![c] = Head(OvenQ)], OvenQ' = Tail(OvenQ),
           Duty' = [Duty EXCEPT ![c] = "place"], UNCHANGED TableQ
    PROVE  Abstract!BakeryNext
BY DEF Abstract!BakeryNext, Abstract!TakeOut, Duty, Hand, OvenQ, TableQ

LEMMA BakeryPlace ==
    ASSUME NEW c \in Cooks, Duty[c] = "place", Len(TableQ) < TableSize,
           TableQ' = Append(TableQ, Hand[c]), Duty' = [Duty EXCEPT ![c] = "draw"],
           Hand' = [Hand EXCEPT ![c] = NoPizza], UNCHANGED OvenQ
    PROVE  Abstract!BakeryNext
BY DEF Abstract!BakeryNext, Abstract!Place, Duty, Hand, OvenQ, TableQ

LEMMA BakeryFetch ==
    ASSUME TableQ # <<>>, TableQ' = Tail(TableQ), UNCHANGED <<Duty, Hand, OvenQ>>
    PROVE  Abstract!BakeryNext
BY DEF Abstract!BakeryNext, Abstract!Fetch, Duty, Hand, OvenQ, TableQ
-----------------------------------------------------------------------------
(* Steps.                                                                  *)

\* A jump of a cook changes its own duty and hands, one of a supplier nobody's.
LEMMA CookMaps ==
    ASSUME pc \in [Procs -> Labels], NEW c \in Cooks, NEW from, NEW to, Goto(c, from, to),
           \A d \in Cooks : d # c => type'[d] = type[d]
    PROVE  /\ Duty[c] = DutyOf(from)
           /\ Hand[c] = IF DutyOf(from) \in {"put", "place"} THEN type[c] ELSE NoPizza
           /\ Duty' = [Duty EXCEPT ![c] = DutyOf(to)]
           /\ Hand' = [Hand EXCEPT ![c] =
                         IF DutyOf(to) \in {"put", "place"} THEN type'[c] ELSE NoPizza]
<1>1. /\ pc[c] = from /\ pc'[c] = to
      /\ \A d \in Cooks : d # c => pc'[d] = pc[d]
  BY DEF Goto, Procs
<1> QED  BY <1>1 DEF Duty, Hand

LEMMA SupplierMaps ==
    ASSUME pc \in [Procs -> Labels], NEW s \in Suppliers, NEW from, NEW to, Goto(s, from, to),
           \A d \in Cooks : type'[d] = type[d]
    PROVE  Duty' = Duty /\ Hand' = Hand
<1>1. \A d \in Cooks : pc'[d] = pc[d]
  BY PizzeriaAssumption DEF Goto, Procs
<1> QED  BY <1>1 DEF Duty, Hand

\* An array that nobody touches keeps its contents.
LEMMA QueuesStay ==
    ASSUME pc \in [Procs -> Labels], NEW p \in Procs, NEW from, NEW to, Goto(p, from, to)
    PROVE  /\ from # "take_advance" /\ to # "take_advance" /\ oven' = oven => OvenQ' = OvenQ
           /\ from # "fetch_advance" /\ to # "fetch_advance" /\ table' = table
                => TableQ' = TableQ
<1>1. Cooks \in SUBSET Procs /\ Suppliers \in SUBSET Procs
  BY DEF Procs
<1>2. from # "take_advance" /\ to # "take_advance"
        => At(Cooks, {"take_advance"})' = At(Cooks, {"take_advance"})
  BY <1>1 DEF Goto, At
<1>3. from # "fetch_advance" /\ to # "fetch_advance"
        => At(Suppliers, {"fetch_advance"})' = At(Suppliers, {"fetch_advance"})
  BY <1>1 DEF Goto, At
<1> QED  BY <1>2, <1>3 DEF OvenQ, TableQ

\* Whoever has stored a pizza and not advanced the index is alone at the array, so that
\* nobody else stores there.
LEMMA StoredStays ==
    ASSUME IInv, Stored, NEW p \in Procs, NEW from, NEW to, Goto(p, from, to),
           p \in Cooks => to \notin {"put_advance", "place_advance"},
           oven' = oven \/ (p \in Cooks /\ from \in AtOven),
           table' = table \/ from \in AtTable,
           \A d \in Cooks : d # p => type'[d] = type[d]
    PROVE  Stored'
<1>1. /\ pc \in [Procs -> Labels] /\ pc[p] = from /\ pc'[p] = to
      /\ \A d \in Procs : d # p => pc'[d] = pc[d]
  BY Parts DEF Goto
<1>2. ASSUME NEW c \in Cooks, pc'[c] = "put_advance"
      PROVE  oven'.slots[oven'.idx_to_place] = type'[c]
  <2>1. c # p /\ pc[c] = "put_advance" /\ c \in Procs
    BY <1>1, <1>2 DEF Procs
  <2>2. ~(p \in Cooks /\ from \in AtOven)
    BY <1>1, <2>1, Alone DEF AtOven, At
  <2> QED  BY <2>1, <2>2 DEF Stored, At
<1>3. ASSUME NEW c \in Cooks, pc'[c] = "place_advance"
      PROVE  table'.slots[table'.idx_to_place] = type'[c]
  <2>1. c # p /\ pc[c] = "place_advance" /\ c \in Procs
    BY <1>1, <1>3 DEF Procs
  <2>2. from \notin AtTable
    BY <1>1, <2>1, Alone DEF AtTable, At
  <2> QED  BY <2>1, <2>2 DEF Stored, At
<1> QED  BY <1>2, <1>3 DEF Stored, At

\* What a step has to show: it keeps Stored and is a step of Bakery or changes none of its
\* variables.
Simulates == Stored' /\ (Abstract!BakeryNext \/ UNCHANGED <<Duty, Hand, OvenQ, TableQ>>)

\* A semop stutters: no duty begins or ends with it.
LEMMA SemopStutters ==
    ASSUME IInv, Stored, NEW p \in Procs, NEW from, NEW to, Goto(p, from, to),
           type' = type, oven' = oven, table' = table,
           from \notin HalfWay, to \notin HalfWay,
           p \in Cooks => DutyOf(from) = DutyOf(to)
    PROVE  Simulates
<1>1. pc \in [Procs -> Labels]
  BY Parts
<1>2. Stored'
  BY StoredStays DEF HalfWay
<1>3. OvenQ' = OvenQ /\ TableQ' = TableQ
  BY <1>1, QueuesStay DEF HalfWay
<1>4. Duty' = Duty /\ Hand' = Hand
  <2>1. \A c \in Cooks : DutyOf(pc'[c]) = DutyOf(pc[c])
    BY <1>1 DEF Goto, Procs
  <2> QED  BY <2>1 DEF Duty, Hand
<1> QED  BY <1>2, <1>3, <1>4 DEF Simulates

LEMMA CookSemopStutters ==
    ASSUME IInv, Stored, NEW c \in Cooks, CookSemop(c)
    PROVE  Simulates
<1>1. c \in Procs
  BY DEF Procs
<1> USE <1>1, SemopStutters DEF lock_semaphore, unlock_semaphore, HalfWay, DutyOf
<1>4. CASE ReserveOven(c)
  BY <1>4 DEF ReserveOven
<1>5. CASE OpenToPut(c)
  BY <1>5 DEF OpenToPut
<1>6. CASE CloseAfterPut(c)
  BY <1>6 DEF CloseAfterPut
<1>7. CASE OpenToTake(c)
  BY <1>7 DEF OpenToTake
<1>8. CASE CloseAfterTake(c)
  BY <1>8 DEF CloseAfterTake
<1>9. CASE FreeOven(c)
  BY <1>9 DEF FreeOven
<1>10. CASE ReserveTable(c)
  BY <1>10 DEF ReserveTable
<1>11. CASE ReachToPlace(c)
  BY <1>11 DEF ReachToPlace
<1>12. CASE LeaveTable(c)
  BY <1>12 DEF LeaveTable
<1>13. CASE AnnouncePizza(c)
  BY <1>13 DEF AnnouncePizza
<1> QED  BY <1>4, <1>5, <1>6, <1>7, <1>8, <1>9, <1>10, <1>11, <1>12, <1>13 DEF CookSemop

LEMMA SupplierStutters ==
    ASSUME IInv, Stored, NEW s \in Suppliers, SupplierSemop(s) \/ Deliver(s)
    PROVE  Simulates
<1>1. s \in Procs /\ s \notin Cooks
  BY PizzeriaAssumption DEF Procs
<1> USE <1>1, SemopStutters DEF lock_semaphore, unlock_semaphore, HalfWay
<1>2. CASE AwaitPizza(s)
  BY <1>2 DEF AwaitPizza
<1>3. CASE ReachToFetch(s)
  BY <1>3 DEF ReachToFetch
<1>4. CASE WithdrawFetch(s)
  BY <1>4 DEF WithdrawFetch
<1>5. CASE FreeTable(s)
  BY <1>5 DEF FreeTable
<1>6. CASE Deliver(s)
  BY <1>6 DEF Deliver
<1> QED  BY <1>2, <1>3, <1>4, <1>5, <1>6 DEF SupplierSemop

\* Drawing a pizza.
LEMMA PrepareDraws ==
    ASSUME IInv, Stored, NEW c \in Cooks, Prepare(c)
    PROVE  Simulates
<1>1. /\ c \in Procs /\ Goto(c, "prepare", "lock_oven_full") /\ oven' = oven /\ table' = table
      /\ pc \in [Procs -> Labels] /\ type \in [Procs -> Types \cup {NoPizza}]
  BY Parts DEF Prepare, Procs
<1>2. PICK t \in Types : type' = [type EXCEPT ![c] = t]
  BY DEF Prepare
<1>3. type'[c] = t /\ \A d \in Cooks : d # c => type'[d] = type[d]
  BY <1>1, <1>2 DEF Procs
<1>4. Stored'
  BY <1>1, <1>3, StoredStays
<1>5. OvenQ' = OvenQ /\ TableQ' = TableQ
  BY <1>1, QueuesStay
<1>6. Duty[c] = "draw" /\ Duty' = [Duty EXCEPT ![c] = "put"] /\ Hand' = [Hand EXCEPT ![c] = t]
  <2>1. DutyOf("prepare") = "draw" /\ DutyOf("lock_oven_full") = "put"
    BY DEF DutyOf
  <2> QED  BY <1>1, <1>3, <2>1, CookMaps
<1> QED  BY <1>4, <1>5, <1>6, BakeryDraw DEF Simulates
\* The pizza is in the queue once the index is advanced.
LEMMA PutSimulates ==
    ASSUME IInv, Stored, NEW c \in Cooks, put_in_oven(c)
    PROVE  Simulates
<1>1. /\ c \in Procs /\ pc \in [Procs -> Labels] /\ oven \in BufferType(OvenSize)
      /\ OvenSize \in Nat \ {0}
  BY Parts, PizzeriaAssumption DEF Procs
<1>2. CASE /\ Goto(c, "put_store", "put_advance")
           /\ oven' = Store(oven, type[c])
           /\ type' = type /\ table' = table
  <2>1. pc[c] = "put_store" /\ pc'[c] = "put_advance" /\ \A d \in Procs : d # c => pc'[d] = pc[d]
    BY <1>1, <1>2 DEF Goto
  <2>2. type[c] \in Types
    BY <2>1 DEF IInv, HandsFull, At, Carrying
  <2>3. /\ Shape(oven, OvenSize, FALSE, FALSE) /\ oven.pizzas \in 0..(OvenSize - 1)
        /\ At(Cooks, {"take_advance"}) = {} /\ At(Cooks, {"put_advance"}) = {}
    BY <2>1, Exclusive, Room DEF IInv, Contiguous
  <2>4. At(Cooks, {"take_advance"})' = {}
    BY <2>1, <2>3 DEF At, Procs
  <2>5. OvenQ' = OvenQ
    <3>1. Contents(oven', OvenSize, FALSE) = Contents(oven, OvenSize, FALSE)
      BY <1>1, <1>2, <2>2, <2>3, ContentsStore
    <3> QED  BY <2>3, <2>4, <3>1 DEF OvenQ
  <2>6. TableQ' = TableQ
    BY <1>1, <1>2, QueuesStay
  <2>7. Duty' = Duty /\ Hand' = Hand
    <3>1. \A d \in Cooks : DutyOf(pc'[d]) = DutyOf(pc[d])
      BY <2>1 DEF DutyOf, Procs
    <3> QED  BY <1>2, <3>1 DEF Duty, Hand
  <2>8. oven'.slots[oven'.idx_to_place] = type[c]
    <3>1. /\ oven'.slots = [oven.slots EXCEPT ![oven.idx_to_place] = type[c]]
          /\ oven'.idx_to_place = oven.idx_to_place
          /\ oven.slots \in [0..(OvenSize - 1) -> Types \cup {NoPizza}]
          /\ oven.idx_to_place \in 0..(OvenSize - 1)
      BY <1>1, <1>2 DEF Store, BufferType
    <3> QED  BY <3>1
  <2>9. Stored'
    <3>1. At(Cooks, {"put_advance"})' = {c}
      BY <2>1, <2>3 DEF At, Procs
    <3>2. At(Cooks, {"place_advance"})' = At(Cooks, {"place_advance"})
      BY <2>1 DEF At, Procs
    <3> QED  BY <1>2, <2>8, <3>1, <3>2 DEF Stored
  <2> QED  BY <2>5, <2>6, <2>7, <2>9 DEF Simulates
<1>3. CASE /\ Goto(c, "put_advance", "put_done")
           /\ oven' = Placed(oven, OvenSize)
           /\ type' = type /\ table' = table
  <2>1. pc[c] = "put_advance" /\ pc'[c] = "put_done" /\ \A d \in Procs : d # c => pc'[d] = pc[d]
    BY <1>1, <1>3 DEF Goto
  <2>2. /\ Shape(oven, OvenSize, TRUE, FALSE) /\ oven.pizzas \in 0..(OvenSize - 1)
        /\ At(Cooks, {"take_advance"}) = {}
    BY <2>1, Exclusive, Room DEF IInv, Contiguous
  <2>3. At(Cooks, {"take_advance"})' = {}
    BY <2>1, <2>2 DEF At, Procs
  <2>4. oven.slots[oven.idx_to_place] = type[c]
    BY <2>1 DEF Stored, At
  <2>5. Duty[c] = "put" /\ Duty' = [Duty EXCEPT ![c] = "take"]
        /\ Hand[c] = type[c] /\ Hand' = [Hand EXCEPT ![c] = NoPizza]
    <3>1. DutyOf("put_advance") = "put" /\ DutyOf("put_done") = "take"
      BY DEF DutyOf
    <3> QED  BY <1>1, <1>3, <3>1, CookMaps
  <2>6. Len(OvenQ) < OvenSize /\ OvenQ' = Append(OvenQ, Hand[c])
    <3>1. OvenQ = Contents(oven, OvenSize, FALSE) /\ OvenQ' = Contents(oven', OvenSize, FALSE)
      BY <2>2, <2>3 DEF OvenQ
    <3>2. Len(Contents(oven, OvenSize, FALSE)) = oven.pizzas
      <4>1. oven.pizzas \in 0..OvenSize
        BY <1>1, <2>2
      <4> QED  BY <1>1, <4>1, ContentsType
    <3>3. Contents(oven', OvenSize, FALSE)
            = Append(Contents(oven, OvenSize, FALSE), oven.slots[oven.idx_to_place])
      BY <1>1, <1>3, <2>2, ContentsPlaced
    <3>4. oven.pizzas < OvenSize
      BY <1>1, <2>2
    <3>5. Len(OvenQ) < OvenSize
      BY <3>1, <3>2, <3>4, Zenon
    <3>6. OvenQ' = Append(OvenQ, Hand[c])
      BY <2>4, <2>5, <3>1, <3>3, Zenon
    <3> QED  BY <3>5, <3>6
  <2>7. TableQ' = TableQ
    BY <1>1, <1>3, QueuesStay
  <2>8. Stored'
    BY <1>1, <1>3, StoredStays DEF AtOven
  <2> QED  BY <2>5, <2>6, <2>7, <2>8, BakeryPutIn DEF Simulates
<1> QED  BY <1>2, <1>3 DEF put_in_oven

\* A pizza leaves the oven's queue when its slot is cleared.
LEMMA TakeSimulates ==
    ASSUME IInv, Stored, NEW c \in Cooks, deliver_from_oven(c)
    PROVE  Simulates
<1>1. /\ c \in Procs /\ pc \in [Procs -> Labels] /\ oven \in BufferType(OvenSize)
      /\ type \in [Procs -> Types \cup {NoPizza}] /\ OvenSize \in Nat \ {0}
  BY Parts, PizzeriaAssumption DEF Procs
<1>2. CASE /\ Goto(c, "take_clear", "take_advance")
           /\ type' = [type EXCEPT ![c] = oven.slots[oven.idx_to_take_out]]
           /\ oven' = Clear(oven)
           /\ table' = table
  <2>1. pc[c] = "take_clear" /\ pc'[c] = "take_advance" /\ \A d \in Procs : d # c => pc'[d] = pc[d]
    BY <1>1, <1>2 DEF Goto
  <2>2. oven.pizzas \in 1..OvenSize /\ At(Cooks, {"take_advance"}) = {}
    BY <2>1, Exclusive, Room
  <2>3. At(Cooks, {"take_advance"})' # {}
    BY <2>1 DEF At
  <2>4. /\ type'[c] = oven.slots[oven.idx_to_take_out]
        /\ \A d \in Cooks : d # c => type'[d] = type[d]
    BY <1>1, <1>2 DEF Procs
  <2>5. /\ OvenQ # <<>> /\ oven.slots[oven.idx_to_take_out] = Head(OvenQ)
        /\ OvenQ' = Tail(OvenQ)
    <3>1. OvenQ = Contents(oven, OvenSize, FALSE) /\ OvenQ' = Contents(oven', OvenSize, TRUE)
      BY <2>2, <2>3 DEF OvenQ
    <3> QED  BY <1>1, <1>2, <2>2, <3>1, ContentsClear
  <2>6. Duty[c] = "take" /\ Duty' = [Duty EXCEPT ![c] = "place"]
        /\ Hand' = [Hand EXCEPT ![c] = Head(OvenQ)]
    <3>1. DutyOf("take_clear") = "take" /\ DutyOf("take_advance") = "place"
      BY DEF DutyOf
    <3> QED  BY <1>1, <1>2, <2>4, <2>5, <3>1, CookMaps
  <2>7. TableQ' = TableQ
    BY <1>1, <1>2, QueuesStay
  <2>8. Stored'
    BY <1>1, <1>2, <2>4, StoredStays DEF AtOven
  <2> QED  BY <2>5, <2>6, <2>7, <2>8, BakeryTakeOut DEF Simulates
<1>3. CASE /\ Goto(c, "take_advance", "take_done")
           /\ oven' = TakenOut(oven, OvenSize)
           /\ type' = type /\ table' = table
  <2>1. pc[c] = "take_advance" /\ pc'[c] = "take_done" /\ \A d \in Procs : d # c => pc'[d] = pc[d]
    BY <1>1, <1>3 DEF Goto
  <2>2. oven.pizzas \in 1..OvenSize /\ At(Cooks, {"take_advance"}) = {c}
    BY <2>1, Exclusive, Room
  <2>3. At(Cooks, {"take_advance"})' = {}
    BY <2>1, <2>2 DEF At, Procs
  <2>4. OvenQ' = OvenQ
    <3>1. OvenQ = Contents(oven, OvenSize, TRUE) /\ OvenQ' = Contents(oven', OvenSize, FALSE)
      <4>1. (At(Cooks, {"take_advance"}) # {}) = TRUE /\ (At(Cooks, {"take_advance"})' # {}) = FALSE
        BY <2>2, <2>3
      <4> QED  BY <4>1 DEF OvenQ
    <3> QED  BY <1>1, <1>3, <2>2, <3>1, ContentsTakenOut
  <2>5. TableQ' = TableQ
    BY <1>1, <1>3, QueuesStay
  <2>6. Duty' = Duty /\ Hand' = Hand
    <3>1. \A d \in Cooks : DutyOf(pc'[d]) = DutyOf(pc[d])
      BY <2>1 DEF DutyOf, Procs
    <3> QED  BY <1>3, <3>1 DEF Duty, Hand
  <2>7. Stored'
    BY <1>1, <1>3, StoredStays DEF AtOven
  <2> QED  BY <2>4, <2>5, <2>6, <2>7 DEF Simulates
<1> QED  BY <1>2, <1>3 DEF deliver_from_oven

\* The table's queue grows as the oven's does.
LEMMA PlaceSimulates ==
    ASSUME IInv, Stored, NEW c \in Cooks, place_on_table(c)
    PROVE  Simulates
<1>1. /\ c \in Procs /\ pc \in [Procs -> Labels] /\ table \in BufferType(TableSize)
      /\ TableSize \in Nat \ {0} /\ OvenSize = TableSize
  BY Parts, PizzeriaAssumption DEF Procs
<1>2. CASE /\ Goto(c, "place_store", "place_advance")
           /\ table' = Store(table, type[c])
           /\ type' = type /\ oven' = oven
  <2>1. /\ pc[c] = "place_store" /\ pc'[c] = "place_advance"
        /\ \A d \in Procs : d # c => pc'[d] = pc[d]
    BY <1>1, <1>2 DEF Goto
  <2>2. type[c] \in Types
    BY <2>1 DEF IInv, HandsFull, At, Carrying
  <2>3. /\ Shape(table, TableSize, FALSE, FALSE) /\ table.pizzas \in 0..(TableSize - 1)
        /\ At(Suppliers, {"fetch_advance"}) = {} /\ At(Cooks, {"place_advance"}) = {}
    BY <2>1, Exclusive, Room DEF IInv, Contiguous
  <2>4. At(Suppliers, {"fetch_advance"})' = {}
    BY <2>1, <2>3 DEF At, Procs
  <2>5. TableQ' = TableQ
    <3>1. Contents(table', TableSize, FALSE) = Contents(table, TableSize, FALSE)
      BY <1>1, <1>2, <2>2, <2>3, ContentsStore
    <3> QED  BY <2>3, <2>4, <3>1 DEF TableQ
  <2>6. OvenQ' = OvenQ
    BY <1>1, <1>2, QueuesStay
  <2>7. Duty' = Duty /\ Hand' = Hand
    <3>1. \A d \in Cooks : DutyOf(pc'[d]) = DutyOf(pc[d])
      BY <2>1 DEF DutyOf, Procs
    <3> QED  BY <1>2, <3>1 DEF Duty, Hand
  <2>8. table'.slots[table'.idx_to_place] = type[c]
    <3>1. /\ table'.slots = [table.slots EXCEPT ![table.idx_to_place] = type[c]]
          /\ table'.idx_to_place = table.idx_to_place
          /\ table.slots \in [0..(TableSize - 1) -> Types \cup {NoPizza}]
          /\ table.idx_to_place \in 0..(TableSize - 1)
      BY <1>1, <1>2 DEF Store, BufferType
    <3> QED  BY <3>1
  <2>9. Stored'
    <3>1. At(Cooks, {"place_advance"})' = {c}
      BY <2>1, <2>3 DEF At, Procs
    <3>2. At(Cooks, {"put_advance"})' = At(Cooks, {"put_advance"})
      BY <2>1 DEF At, Procs
    <3> QED  BY <1>2, <2>8, <3>1, <3>2 DEF Stored
  <2> QED  BY <2>5, <2>6, <2>7, <2>9 DEF Simulates
<1>3. CASE /\ Goto(c, "place_advance", "place_done")
           /\ table' = Placed(table, OvenSize)
           /\ type' = type /\ oven' = oven
  <2>1. pc[c] = "place_advance" /\ pc'[c] = "place_done" /\ \A d \in Procs : d # c => pc'[d] = pc[d]
    BY <1>1, <1>3 DEF Goto
  <2>2. /\ Shape(table, TableSize, TRUE, FALSE) /\ table.pizzas \in 0..(TableSize - 1)
        /\ At(Suppliers, {"fetch_advance"}) = {}
    BY <2>1, Exclusive, Room DEF IInv, Contiguous
  <2>3. At(Suppliers, {"fetch_advance"})' = {}
    BY <2>1, <2>2 DEF At, Procs
  <2>4. table.slots[table.idx_to_place] = type[c]
    BY <2>1 DEF Stored, At
  <2>5. Duty[c] = "place" /\ Duty' = [Duty EXCEPT ![c] = "draw"]
        /\ Hand[c] = type[c] /\ Hand' = [Hand EXCEPT ![c] = NoPizza]
    <3>1. DutyOf("place_advance") = "place" /\ DutyOf("place_done") = "draw"
      BY DEF DutyOf
    <3> QED  BY <1>1, <1>3, <3>1, CookMaps
  <2>6. Len(TableQ) < TableSize /\ TableQ' = Append(TableQ, Hand[c])
    <3>1. TableQ = Contents(table, TableSize, FALSE) /\ TableQ' = Contents(table', TableSize, FALSE)
      BY <2>2, <2>3 DEF TableQ
    <3>2. Len(Contents(table, TableSize, FALSE)) = table.pizzas
      <4>1. table.pizzas \in 0..TableSize
        BY <1>1, <2>2
      <4> QED  BY <1>1, <4>1, ContentsType
    <3>3. Contents(table', TableSize, FALSE)
            = Append(Contents(table, TableSize, FALSE), table.slots[table.idx_to_place])
      BY <1>1, <1>3, <2>2, ContentsPlaced
    <3>4. table.pizzas < TableSize
      BY <1>1, <2>2
    <3>5. Len(TableQ) < TableSize
      BY <3>1, <3>2, <3>4, Zenon
    <3>6. TableQ' = Append(TableQ, Hand[c])
      BY <2>4, <2>5, <3>1, <3>3, Zenon
    <3> QED  BY <3>5, <3>6
  <2>7. OvenQ' = OvenQ
    BY <1>1, <1>3, QueuesStay
  <2>8. Stored'
    BY <1>1, <1>3, StoredStays DEF AtTable
  <2> QED  BY <2>5, <2>6, <2>7, <2>8, BakeryPlace DEF Simulates
<1> QED  BY <1>2, <1>3 DEF place_on_table

\* A pizza leaves the table's queue when its slot is cleared.
LEMMA FetchSimulates ==
    ASSUME IInv, Stored, NEW s \in Suppliers, deliver_from_table(s)
    PROVE  Simulates
<1>1. /\ s \in Procs /\ s \notin Cooks /\ pc \in [Procs -> Labels]
      /\ table \in BufferType(TableSize)
      /\ type \in [Procs -> Types \cup {NoPizza}] /\ TableSize \in Nat \ {0}
  BY Parts, PizzeriaAssumption DEF Procs
<1>2. CASE /\ Goto(s, "fetch_clear", "fetch_advance")
           /\ type' = [type EXCEPT ![s] = table.slots[table.idx_to_take_out]]
           /\ table' = Clear(table)
           /\ oven' = oven
  <2>1. /\ pc[s] = "fetch_clear" /\ pc'[s] = "fetch_advance"
        /\ \A d \in Procs : d # s => pc'[d] = pc[d]
    BY <1>1, <1>2 DEF Goto
  <2>2. table.pizzas \in 1..TableSize /\ At(Suppliers, {"fetch_advance"}) = {}
    BY <2>1, Exclusive, Room
  <2>3. At(Suppliers, {"fetch_advance"})' # {}
    BY <2>1 DEF At
  <2>4. \A d \in Cooks : type'[d] = type[d]
    BY <1>1, <1>2 DEF Procs
  <2>5. TableQ # <<>> /\ TableQ' = Tail(TableQ)
    <3>1. TableQ = Contents(table, TableSize, FALSE) /\ TableQ' = Contents(table', TableSize, TRUE)
      BY <2>2, <2>3 DEF TableQ
    <3> QED  BY <1>1, <1>2, <2>2, <3>1, ContentsClear
  <2>6. Duty' = Duty /\ Hand' = Hand
    BY <1>1, <1>2, <2>4, SupplierMaps
  <2>7. OvenQ' = OvenQ
    BY <1>1, <1>2, QueuesStay
  <2>8. Stored'
    BY <1>1, <1>2, <2>4, StoredStays DEF AtTable
  <2> QED  BY <2>5, <2>6, <2>7, <2>8, BakeryFetch DEF Simulates
<1>3. CASE /\ Goto(s, "fetch_advance", "fetch_done")
           /\ table' = TakenOut(table, TableSize)
           /\ type' = type /\ oven' = oven
  <2>1. pc[s] = "fetch_advance" /\ pc'[s] = "fetch_done" /\ \A d \in Procs : d # s => pc'[d] = pc[d]
    BY <1>1, <1>3 DEF Goto
  <2>2. table.pizzas \in 1..TableSize /\ At(Suppliers, {"fetch_advance"}) = {s}
    BY <2>1, Exclusive, Room
  <2>3. At(Suppliers, {"fetch_advance"})' = {}
    BY <2>1, <2>2 DEF At, Procs
  <2>4. TableQ' = TableQ
    <3>1. TableQ = Contents(table, TableSize, TRUE) /\ TableQ' = Contents(table', TableSize, FALSE)
      <4>1. /\ (At(Suppliers, {"fetch_advance"}) # {}) = TRUE
            /\ (At(Suppliers, {"fetch_advance"})' # {}) = FALSE
        BY <2>2, <2>3
      <4> QED  BY <4>1 DEF TableQ
    <3> QED  BY <1>1, <1>3, <2>2, <3>1, ContentsTakenOut
  <2>5. OvenQ' = OvenQ
    BY <1>1, <1>3, QueuesStay
  <2>6. Duty' = Duty /\ Hand' = Hand
    BY <1>1, <1>3, SupplierMaps
  <2>7. Stored'
    BY <1>1, <1>3, StoredStays DEF AtTable
  <2> QED  BY <2>4, <2>5, <2>6, <2>7 DEF Simulates
<1> QED  BY <1>2, <1>3 DEF deliver_from_table
-----------------------------------------------------------------------------
(* The refinement.                                                         *)

\* The kitchen as main sets it up is a bakery with two empty queues.
LEMMA InitMaps == Init => Stored /\ Abstract!BakeryInit
<1> SUFFICES ASSUME Init PROVE Stored /\ Abstract!BakeryInit
  OBVIOUS
<1>1. \A p \in Procs : pc[p] \in {"prepare", "await_pizza"}
  BY DEF Init, FirstLabel
<1>2. Stored
  BY <1>1 DEF Stored, At, Procs
<1>3. \A c \in Cooks : pc[c] = "prepare" /\ DutyOf(pc[c]) = "draw"
  BY DEF Init, FirstLabel, DutyOf, Procs
<1>4. At(Cooks, {"take_advance"}) = {} /\ At(Suppliers, {"fetch_advance"}) = {}
  BY <1>1 DEF At, Procs
<1>5. OvenQ = <<>> /\ TableQ = <<>>
  BY <1>4 DEF OvenQ, TableQ, Contents, Init, EmptyBuffer
<1>6. Abstract!BakeryInit
  BY <1>3, <1>5 DEF Abstract!BakeryInit, OvenQ, TableQ
<1> QED  BY <1>2, <1>6

\* Every step of the kitchen is a step of the bakery or none at all.
LEMMA NextSimulates ==
    IInv /\ Stored /\ [Next]_vars => Stored' /\ [Abstract!BakeryNext]_Abstract!bakeryVars
<1> SUFFICES ASSUME IInv, Stored, [Next]_vars
             PROVE  Stored' /\ [Abstract!BakeryNext]_Abstract!bakeryVars
  OBVIOUS
<1>1. Simulates => Stored' /\ [Abstract!BakeryNext]_Abstract!bakeryVars
  BY BakeryVars DEF Simulates
<1>2. ASSUME NEW c \in Cooks, Cook(c)
      PROVE  Simulates
  BY <1>2, CookSemopStutters, PrepareDraws, PutSimulates, TakeSimulates, PlaceSimulates
     DEF Cook, CookLocal
<1>3. ASSUME NEW s \in Suppliers, Supplier(s)
      PROVE  Simulates
  BY <1>3, SupplierStutters, FetchSimulates DEF Supplier, SupplierLocal
<1>4. ASSUME UNCHANGED vars
      PROVE  Simulates
  <2>1. \A S, L : At(S, L)' = At(S, L)
    BY <1>4 DEF vars, At
  <2> QED  BY <1>4, <2>1 DEF vars, Simulates, Stored, Duty, Hand, OvenQ, TableQ
<1> QED  BY <1>1, <1>2, <1>3, <1>4 DEF Next

\* Without a word on liveness: whatever cooks and suppliers do between their semaphores,
\* the pizzas pass the oven and the table in order, none lost, doubled or made up.
THEOREM PassesInOrder == Spec => Abstract!BakerySteps
<1>1. Init => IInv /\ Stored /\ Abstract!BakeryInit
  BY InitIInv, InitMaps
<1>2. IInv /\ Stored /\ [Next]_vars
        => IInv' /\ Stored' /\ [Abstract!BakeryNext]_Abstract!bakeryVars
  BY NextIInv, NextSimulates
<1> QED  BY <1>1, <1>2, PTL DEF Spec, Abstract!BakerySteps
-----------------------------------------------------------------------------
(* The life cycles.  System V: every run starts the kitchen anew, so the   *)
(* invariant above holds throughout.  POSIX: it holds until a run crashes; *)
(* from then on the semaphores may disagree with the arrays, and what is   *)
(* left of it is an account with inequalities, which even the restart      *)
(* keeps.                                                                  *)

(* The kitchen's steps have the same bodies in the instances as in Pizzeria. *)

\* A step of the System V variant is a step of the kitchen, leaves the kitchen alone, or
\* sets the arrays and all five semaphores back to their first values.
LEMMA SysVKitchen == SysV!SysVNext => Init' \/ Next \/ UNCHANGED vars
<1>1. SysV!LifeStep => UNCHANGED vars
  BY DEF SysV!LifeStep, SysV!Fork, SysV!Attach, SysV!StartWaiting, SysV!BossExits, SysV!vars, vars
<1>2. (\E p \in SysV!Procs : SysV!SemopFails(p)) => UNCHANGED vars
  BY DEF SysV!SemopFails, SysV!vars, vars
<1>3. SysV!SIGINT_handler \/ SysV!Crash \/ SysV!Done => UNCHANGED vars
  BY DEF SysV!SIGINT_handler, SysV!Crash, SysV!Done, SysV!allVars, SysV!vars, vars
<1>4. SysV!Restart => Init'
  BY DEF SysV!Restart, SysV!RestartWith, SysV!InitialSem, SysV!Semaphores, SysV!EmptyBuffer,
         SysV!FirstLabel, SysV!Procs, Init, InitialSem, Semaphores, EmptyBuffer, FirstLabel, Procs
<1>5. ASSUME NEW c \in Cooks, SysV!RunCook(c)
      PROVE  Cook(c)
  BY <1>5 DEF SysV!RunCook, SysV!CookLocal, SysV!CookSemop, SysV!Goto,
       SysV!lock_semaphore, SysV!unlock_semaphore, SysV!Prepare, SysV!put_in_oven,
       SysV!deliver_from_oven, SysV!place_on_table, SysV!ReserveOven, SysV!OpenToPut,
       SysV!CloseAfterPut, SysV!OpenToTake, SysV!CloseAfterTake, SysV!FreeOven,
       SysV!ReserveTable, SysV!ReachToPlace, SysV!LeaveTable, SysV!AnnouncePizza,
       SysV!Store, SysV!Placed, SysV!Clear, SysV!TakenOut,
       Cook, CookLocal, CookSemop, Goto, lock_semaphore, unlock_semaphore, Prepare, put_in_oven,
       deliver_from_oven, place_on_table, ReserveOven, OpenToPut, CloseAfterPut, OpenToTake,
       CloseAfterTake, FreeOven, ReserveTable, ReachToPlace, LeaveTable, AnnouncePizza,
       Store, Placed, Clear, TakenOut
<1>6. ASSUME NEW s \in Suppliers, SysV!RunSupplier(s)
      PROVE  Supplier(s)
  BY <1>6 DEF SysV!RunSupplier, SysV!SupplierLocal, SysV!SupplierSemop, SysV!Goto,
       SysV!lock_semaphore, SysV!unlock_semaphore, SysV!AwaitPizza, SysV!ReachToFetch,
       SysV!WithdrawFetch, SysV!FreeTable, SysV!deliver_from_table, SysV!Deliver,
       SysV!Clear, SysV!TakenOut,
       Supplier, SupplierLocal, SupplierSemop, Goto, lock_semaphore, unlock_semaphore,
       AwaitPizza, ReachToFetch, WithdrawFetch, FreeTable, deliver_from_table, Deliver,
       Clear, TakenOut
<1> QED  BY <1>1, <1>2, <1>3, <1>4, <1>5, <1>6 DEF SysV!SysVNext, Next

\* The cooks and the suppliers of the POSIX variant take the same steps.
LEMMA PosixCook ==
    ASSUME NEW c \in Cooks, Posix!RunCook(c)
    PROVE  Cook(c) /\ UNCHANGED lifeVars
BY DEF Posix!RunCook, Posix!Cook, Posix!CookLocal, Posix!CookSemop, Posix!Goto,
       Posix!lock_semaphore, Posix!unlock_semaphore, Posix!Prepare, Posix!put_in_oven,
       Posix!deliver_from_oven, Posix!place_on_table, Posix!ReserveOven, Posix!OpenToPut,
       Posix!CloseAfterPut, Posix!OpenToTake, Posix!CloseAfterTake, Posix!FreeOven,
       Posix!ReserveTable, Posix!ReachToPlace, Posix!LeaveTable, Posix!AnnouncePizza,
       Posix!Store, Posix!Placed, Posix!Clear, Posix!TakenOut, Posix!lifeVars, lifeVars,
       Cook, CookLocal, CookSemop, Goto, lock_semaphore, unlock_semaphore, Prepare, put_in_oven,
       deliver_from_oven, place_on_table, ReserveOven, OpenToPut, CloseAfterPut, OpenToTake,
       CloseAfterTake, FreeOven, ReserveTable, ReachToPlace, LeaveTable, AnnouncePizza,
       Store, Placed, Clear, TakenOut

LEMMA PosixSupplier ==
    ASSUME NEW s \in Suppliers, Posix!RunSupplier(s)
    PROVE  Supplier(s) /\ UNCHANGED lifeVars
BY DEF Posix!RunSupplier, Posix!Supplier, Posix!SupplierLocal, Posix!SupplierSemop, Posix!Goto,
       Posix!lock_semaphore, Posix!unlock_semaphore, Posix!AwaitPizza, Posix!ReachToFetch,
       Posix!WithdrawFetch, Posix!FreeTable, Posix!deliver_from_table, Posix!Deliver,
       Posix!Clear, Posix!TakenOut, Posix!lifeVars, lifeVars,
       Supplier, SupplierLocal, SupplierSemop, Goto, lock_semaphore, unlock_semaphore,
       AwaitPizza, ReachToFetch, WithdrawFetch, FreeTable, deliver_from_table, Deliver,
       Clear, TakenOut
-----------------------------------------------------------------------------
(* Units are only lost: an account with inequalities, of the POSIX variant. *)

\* UnitsOnlyLost with the types it needs: nothing is said of the arrays.
UnitsInv ==
    /\ pc \in [Procs -> Labels]
    /\ sem \in [Semaphores -> Nat]
    /\ sem["OVEN"] + Cardinality(At(Cooks, AtOven)) <= 1
    /\ sem["TABLE"] + Cardinality(At(Procs, AtTable)) <= 1
    /\ sem["OVEN_FULL"] + Cardinality(At(Cooks, HoldsOven)) <= OvenSize
    /\ sem["TABLE_FULL"] + sem["TABLE_EMPTY"] + Cardinality(At(Procs, HoldsTable)) <= TableSize

\* A step that takes from the semaphores what the process that jumps then holds.
Exchanged(p, from, to) ==
    /\ sem'["OVEN"] + Moves(p, Cooks, AtOven, from, to) = sem["OVEN"]
    /\ sem'["TABLE"] + Moves(p, Procs, AtTable, from, to) = sem["TABLE"]
    /\ sem'["OVEN_FULL"] + Moves(p, Cooks, HoldsOven, from, to) = sem["OVEN_FULL"]
    /\ sem'["TABLE_FULL"] + sem'["TABLE_EMPTY"] + Moves(p, Procs, HoldsTable, from, to)
         = sem["TABLE_FULL"] + sem["TABLE_EMPTY"]

\* Such a step makes no units.
LEMMA UnitsExchanged ==
    ASSUME UnitsInv, NEW p \in Procs, NEW from, NEW to \in Labels, Goto(p, from, to),
           sem' \in [Semaphores -> Nat], Exchanged(p, from, to)
    PROVE  UnitsInv'
<1>1. Cooks \in SUBSET Procs /\ Procs \in SUBSET Procs
  BY DEF Procs
<1>2. ASSUME NEW S \in SUBSET Procs, NEW L
      PROVE  /\ Cardinality(At(S, L)) \in Nat
             /\ Cardinality(At(S, L)') = Cardinality(At(S, L)) + Moves(p, S, L, from, to)
             /\ Moves(p, S, L, from, to) \in Int
  <2>1. pc \in [Procs -> Labels]
    BY DEF UnitsInv
  <2>2. Cardinality(At(S, L)) \in Nat
    BY AtFinite
  <2>3. Cardinality(At(S, L)') = Cardinality(At(S, L)) + Moves(p, S, L, from, to)
    BY <2>1, AtStep
  <2>4. Moves(p, S, L, from, to) \in Int
    BY DEF Moves
  <2> QED  BY <2>2, <2>3, <2>4
<1>3. pc' \in [Procs -> Labels]
  BY DEF UnitsInv, Goto
<1>4. OvenSize \in Nat /\ TableSize \in Nat
  BY PizzeriaAssumption
<1>5. /\ sem'["OVEN"] + Cardinality(At(Cooks, AtOven)') <= 1
      /\ sem'["TABLE"] + Cardinality(At(Procs, AtTable)') <= 1
  BY <1>1, <1>2 DEF UnitsInv, Exchanged, Semaphores
<1>6. /\ sem'["OVEN_FULL"] + Cardinality(At(Cooks, HoldsOven)') <= OvenSize
      /\ sem'["TABLE_FULL"] + sem'["TABLE_EMPTY"] + Cardinality(At(Procs, HoldsTable)') <= TableSize
  BY <1>1, <1>2, <1>4 DEF UnitsInv, Exchanged, Semaphores
<1> QED  BY <1>3, <1>5, <1>6 DEF UnitsInv

\* The steps of a cook make no units.
LEMMA UnitsCook ==
    ASSUME UnitsInv, NEW c \in Cooks, Cook(c)
    PROVE  UnitsInv'
<1>1. c \in Procs /\ c \notin Suppliers /\ sem \in [Semaphores -> Nat]
  BY PizzeriaAssumption DEF Procs, UnitsInv
<1> USE <1>1, UnitsExchanged DEF Semaphores, lock_semaphore, unlock_semaphore, Exchanged, Moves,
        Labels, AtOven, AtTable, HoldsOven, HoldsTable
<1>4. CASE ReserveOven(c)
  BY <1>4 DEF ReserveOven
<1>5. CASE OpenToPut(c)
  BY <1>5 DEF OpenToPut
<1>6. CASE CloseAfterPut(c)
  BY <1>6 DEF CloseAfterPut
<1>7. CASE OpenToTake(c)
  BY <1>7 DEF OpenToTake
<1>8. CASE CloseAfterTake(c)
  BY <1>8 DEF CloseAfterTake
<1>9. CASE FreeOven(c)
  BY <1>9 DEF FreeOven
<1>10. CASE ReserveTable(c)
  BY <1>10 DEF ReserveTable
<1>11. CASE ReachToPlace(c)
  BY <1>11 DEF ReachToPlace
<1>12. CASE LeaveTable(c)
  BY <1>12 DEF LeaveTable
<1>13. CASE AnnouncePizza(c)
  BY <1>13 DEF AnnouncePizza
<1>14. CASE Prepare(c)
  BY <1>14 DEF Prepare
<1>15. CASE put_in_oven(c)
  BY <1>15 DEF put_in_oven
<1>16. CASE deliver_from_oven(c)
  BY <1>16 DEF deliver_from_oven
<1>17. CASE place_on_table(c)
  BY <1>17 DEF place_on_table
<1> QED  BY <1>4, <1>5, <1>6, <1>7, <1>8, <1>9, <1>10, <1>11, <1>12, <1>13, <1>14, <1>15, <1>16, <1>17
            DEF Cook, CookSemop, CookLocal

\* Nor do the steps of a supplier.
LEMMA UnitsSupplier ==
    ASSUME UnitsInv, NEW s \in Suppliers, Supplier(s)
    PROVE  UnitsInv'
<1>1. s \in Procs /\ s \notin Cooks /\ sem \in [Semaphores -> Nat]
  BY PizzeriaAssumption DEF Procs, UnitsInv
<1> USE <1>1, UnitsExchanged DEF Semaphores, lock_semaphore, unlock_semaphore, Exchanged, Moves,
        Labels, AtOven, AtTable, HoldsOven, HoldsTable
<1>2. CASE AwaitPizza(s)
  BY <1>2 DEF AwaitPizza
<1>3. CASE ReachToFetch(s)
  BY <1>3 DEF ReachToFetch
<1>4. CASE WithdrawFetch(s)
  BY <1>4 DEF WithdrawFetch
<1>5. CASE FreeTable(s)
  BY <1>5 DEF FreeTable
<1>6. CASE deliver_from_table(s)
  BY <1>6 DEF deliver_from_table
<1>7. CASE Deliver(s)
  BY <1>7 DEF Deliver
<1> QED  BY <1>2, <1>3, <1>4, <1>5, <1>6, <1>7 DEF Supplier, SupplierSemop, SupplierLocal

\* A kitchen whose accounts are right has not gained a unit.
LEMMA IInvUnits == IInv => UnitsInv
<1> SUFFICES ASSUME IInv PROVE UnitsInv
  OBVIOUS
<1>1. /\ sem["OVEN"] \in Nat /\ sem["TABLE"] \in Nat /\ sem["OVEN_FULL"] \in Nat
      /\ sem["TABLE_FULL"] \in Nat /\ sem["TABLE_EMPTY"] \in Nat
      /\ OvenSize \in Nat /\ TableSize \in Nat
  BY PizzeriaAssumption DEF IInv, TypeOK, Semaphores
<1> QED  BY <1>1, CountsNat DEF IInv, TypeOK, MutexAccounting, CapacityAccounting, UnitsInv
-----------------------------------------------------------------------------
(* The invariant of the POSIX life cycle.                                  *)

\* Until a run crashes the kitchen is as good as new, since a process only ends once the
\* names are unlinked: when the parent is through with its waits the next run makes new
\* semaphores. With nobody to wait for, nobody has touched the old ones.
CleanInv ==
    /\ IInv
    /\ ipc = "exists" => \A p \in Procs : life[p] # "exited"
    /\ boss = "exited" /\ ipc = "exists" => Procs = {}
    /\ Procs = {} => sem = InitialSem

PosixInv ==
    /\ crashes \in Nat
    /\ ipc \in {"exists", "removed"}
    /\ life \in [Procs -> {"unborn", "starting", "running", "exited"}]
    /\ UnitsInv
    /\ crashes = 0 => CleanInv

\* The instance of the module counts as this one does.
LEMMA SameCount == \A S : Posix!Cardinality(S) = Cardinality(S)
BY DEF Posix!Cardinality, Posix!IsFiniteSet, Cardinality, IsFiniteSet

\* What the whole of it says of the two programs.
ObjectsInv ==
    /\ objects \in {"System V", "POSIX"}
    /\ objects = "System V" => IInv
    /\ objects = "POSIX" => PosixInv

\* Every cook and supplier keeps the POSIX invariant.
LEMMA PosixWork ==
    ASSUME PosixInv, NEW p \in Procs,
           \/ p \in Cooks /\ Cook(p)
           \/ p \in Suppliers /\ Supplier(p),
           UNCHANGED lifeVars
    PROVE  PosixInv'
<1>1. UnitsInv'
  BY UnitsCook, UnitsSupplier DEF PosixInv
<1>2. crashes = 0 => IInv'
  BY NextIInv DEF PosixInv, CleanInv, Next
<1> QED  BY <1>1, <1>2 DEF PosixInv, CleanInv, lifeVars

\* Forking, attaching and waiting do: a process that finds the names does not exit, and the
\* parent exits when all have.
LEMMA PosixLife ==
    ASSUME PosixInv, Posix!LifeStep
    PROVE  PosixInv'
<1>1. UNCHANGED <<vars, ipc, crashes>>
  BY DEF Posix!LifeStep, Posix!Fork, Posix!Attach, Posix!StartWaiting, Posix!BossExits,
         Posix!vars, vars
<1>2. UnitsInv' /\ (crashes = 0 => IInv')
  <2>1. \A S, L : At(S, L)' = At(S, L)
    BY <1>1 DEF vars, At
  <2>2. UnitsInv'
    BY <1>1, <2>1 DEF vars, PosixInv, UnitsInv
  <2> QED  BY <1>1, <2>2, NextIInv DEF PosixInv, CleanInv
<1>3. CASE \E p \in Procs : Posix!Fork(p)
  BY <1>1, <1>2, <1>3 DEF Posix!Fork, Posix!SetLife, PosixInv, CleanInv, vars
<1>4. CASE \E p \in Procs : Posix!Attach(p)
  BY <1>1, <1>2, <1>4 DEF Posix!Attach, Posix!SetLife, PosixInv, CleanInv, vars
<1>5. CASE Posix!StartWaiting
  BY <1>1, <1>2, <1>5 DEF Posix!StartWaiting, PosixInv, CleanInv, vars
<1>6. CASE Posix!BossExits
  BY <1>1, <1>2, <1>6 DEF Posix!BossExits, Posix!Procs, Procs, PosixInv, CleanInv, vars
<1> QED  BY <1>3, <1>4, <1>5, <1>6 DEF Posix!LifeStep, Posix!Procs, Procs

\* So do a SIGINT, which unlinks the names, and a crash.
LEMMA PosixSignals ==
    ASSUME PosixInv, Posix!SIGINT_handler \/ Posix!Crash
    PROVE  PosixInv'
<1>1. UNCHANGED vars
  BY DEF Posix!SIGINT_handler, Posix!Crash, Posix!vars, vars
<1>2. UnitsInv' /\ (crashes = 0 => IInv')
  <2>1. \A S, L : At(S, L)' = At(S, L)
    BY <1>1 DEF vars, At
  <2>2. UnitsInv'
    BY <1>1, <2>1 DEF vars, PosixInv, UnitsInv
  <2> QED  BY <1>1, <2>2, NextIInv DEF PosixInv, CleanInv
<1>3. CASE Posix!SIGINT_handler
  BY <1>1, <1>2, <1>3 DEF Posix!SIGINT_handler, Posix!KillChildren, Posix!Procs, Procs, PosixInv, CleanInv, vars
<1>4. CASE Posix!Crash
  BY <1>1, <1>2, <1>4 DEF Posix!Crash, Posix!Procs, Procs, PosixInv, CleanInv, vars
<1> QED  BY <1>3, <1>4

\* A restart gives the arrays back to nobody: it can but lose the units that were held,
\* and makes the kitchen anew if the names are gone.
LEMMA PosixRestart ==
    ASSUME PosixInv, Posix!Restart
    PROVE  PosixInv'
<1>1. /\ pc' = [p \in Procs |-> FirstLabel(p)]
      /\ sem' = IF ipc = "exists" THEN sem ELSE InitialSem
      /\ boss = "exited" /\ boss' = "forking"
      /\ ipc' = "exists"
      /\ life' = [p \in Procs |-> "unborn"]
      /\ crashes' = crashes
  BY DEF Posix!Restart, Posix!RestartWith, Posix!setup_semaphores, Posix!InitialSem,
         Posix!Semaphores, Posix!FirstLabel, Posix!Procs, InitialSem, Semaphores, FirstLabel, Procs
<1>2. sem' = InitialSem => Init'
  BY DEF Posix!Restart, Posix!RestartWith, Posix!EmptyBuffer,
         Posix!FirstLabel, Posix!Procs, Init, EmptyBuffer, FirstLabel, Procs
<1>3. ASSUME sem' = InitialSem
      PROVE  IInv'
  <2>1. (Init => IInv)'
    BY InitIInv, PTL
  <2> QED  BY <1>2, <1>3, <2>1
<1>4. UnitsInv'
  <2>1. CASE sem' = InitialSem
    <3>1. (IInv => UnitsInv)'
      BY IInvUnits, PTL
    <3> QED  BY <1>3, <2>1, <3>1
  <2>2. CASE sem' = sem
    <3>1. \A p \in Procs : pc'[p] \in {"prepare", "await_pizza"}
      BY <1>1 DEF FirstLabel
    <3>2. /\ At(Cooks, AtOven)' = {} /\ At(Procs, AtTable)' = {}
          /\ At(Cooks, HoldsOven)' = {} /\ At(Procs, HoldsTable)' = {}
      BY <3>1 DEF At, AtOven, AtTable, HoldsOven, HoldsTable, Procs
    <3>3. /\ Cardinality(At(Cooks, AtOven)) \in Nat /\ Cardinality(At(Procs, AtTable)) \in Nat
          /\ Cardinality(At(Cooks, HoldsOven)) \in Nat /\ Cardinality(At(Procs, HoldsTable)) \in Nat
          /\ OvenSize \in Nat /\ TableSize \in Nat
      BY CountsNat, PizzeriaAssumption
    <3>4. pc' \in [Procs -> Labels]
      BY <1>1 DEF FirstLabel, Labels
    <3> QED  BY <2>2, <3>2, <3>3, <3>4, FS_EmptySet DEF PosixInv, UnitsInv, Semaphores
  <2> QED  BY <1>1, <2>1, <2>2
<1>5. crashes = 0 => sem' = InitialSem
  BY <1>1 DEF PosixInv, CleanInv
<1> QED  BY <1>1, <1>3, <1>4, <1>5 DEF PosixInv, CleanInv

\* Every step of either program keeps the invariant.
LEMMA ObjectsStep == ObjectsInv /\ [SysVStep \/ PosixStep]_everything => ObjectsInv'
<1> SUFFICES ASSUME ObjectsInv, [SysVStep \/ PosixStep]_everything PROVE ObjectsInv'
  OBVIOUS
<1>1. CASE UNCHANGED everything
  <2>1. UNCHANGED <<vars, life, boss, ipc, crashes, objects>>
    BY <1>1 DEF everything, allVars, lifeVars
  <2>2. \A S, L : At(S, L)' = At(S, L)
    BY <2>1 DEF vars, At
  <2>3. UnitsInv => UnitsInv'
    BY <2>1, <2>2 DEF vars, UnitsInv
  <2>4. IInv => IInv'
    BY <2>1, NextIInv
  <2> QED  BY <2>1, <2>3, <2>4 DEF ObjectsInv, PosixInv, CleanInv, vars
<1>2. CASE SysVStep
  <2>1. /\ objects = "System V" /\ objects' = "System V" /\ IInv
        /\ Init' \/ Next \/ UNCHANGED vars
    BY <1>2, SysVKitchen DEF SysVStep, ObjectsInv
  <2>2. (Init => IInv)'
    BY InitIInv, PTL
  <2> QED  BY <2>1, <2>2, NextIInv DEF ObjectsInv
<1>3. CASE PosixStep
  <2>1. objects = "POSIX" /\ objects' = "POSIX" /\ PosixInv /\ Posix!PosixNext
    BY <1>3 DEF PosixStep, ObjectsInv
  <2>2. ASSUME NEW c \in Cooks, Posix!RunCook(c)
        PROVE  PosixInv'
    BY <2>1, <2>2, PosixCook, PosixWork DEF Procs
  <2>3. ASSUME NEW s \in Suppliers, Posix!RunSupplier(s)
        PROVE  PosixInv'
    BY <2>1, <2>3, PosixSupplier, PosixWork DEF Procs
  <2>4. ASSUME Posix!Done
        PROVE  PosixInv'
    <3>1. UNCHANGED <<vars, life, boss, ipc, crashes>>
      BY <2>4 DEF Posix!Done, Posix!allVars, Posix!vars, Posix!lifeVars, vars
    <3>2. \A S, L : At(S, L)' = At(S, L)
      BY <3>1 DEF vars, At
    <3>3. UnitsInv'
      BY <2>1, <3>1, <3>2 DEF vars, PosixInv, UnitsInv
    <3>4. IInv => IInv'
      BY <3>1, NextIInv
    <3> QED  BY <2>1, <3>1, <3>3, <3>4 DEF PosixInv, CleanInv, vars
  <2>5. PosixInv'
    BY <2>1, <2>2, <2>3, <2>4, PosixLife, PosixSignals, PosixRestart DEF Posix!PosixNext
  <2> QED  BY <2>1, <2>5 DEF ObjectsInv
<1> QED  BY <1>1, <1>2, <1>3

\* It holds in every reachable state of either program.
THEOREM Inductive == ObjectsSpec => []ObjectsInv
<1>1. ObjectsInit => ObjectsInv
  <2> SUFFICES ASSUME ObjectsInit PROVE ObjectsInv
    OBVIOUS
  <2>1. IInv /\ UnitsInv
    BY InitIInv, IInvUnits DEF ObjectsInit, LifeInit
  <2> QED  BY <2>1 DEF ObjectsInit, LifeInit, Init, ObjectsInv, PosixInv, CleanInv
<1> QED  BY <1>1, ObjectsStep, PTL DEF ObjectsSpec

\* System V: in every run, before and after a SIGINT, a crash and a restart, no pizza is
\* overwritten, none is taken from a free slot and no unit of capacity is lost.
THEOREM SysVSafety == ObjectsSpec => []SysVSafe
<1>1. ObjectsInv => SysVSafe
  BY IInvImplies DEF ObjectsInv, IInv, SysVSafe
<1> QED  BY <1>1, Inductive, PTL

\* POSIX: whatever values a crash leaves in the semaphores, no run ever has two processes
\* in a critical section or more capacity than slots; and until a run crashes every unit is
\* accounted for and nobody takes a pizza from a free slot.
THEOREM PosixSafety == ObjectsSpec => []PosixSafe
<1>1. ObjectsInv => PosixSafe
  <2> SUFFICES ASSUME ObjectsInv, objects = "POSIX"
               PROVE  Posix!UnitsOnlyLost /\ Posix!CleanUnlessCrashed
    BY DEF PosixSafe
  <2>1. Posix!UnitsOnlyLost
    BY SameCount DEF ObjectsInv, PosixInv, UnitsInv, Posix!UnitsOnlyLost, Posix!At, Posix!Procs,
           Posix!AtOven, Posix!AtTable, Posix!HoldsOven, Posix!HoldsTable,
           At, Procs, AtOven, AtTable, HoldsOven, HoldsTable
  <2>2. crashes = 0 => CapacityAccounting /\ NoPhantomPizza
    BY IInvImplies DEF ObjectsInv, PosixInv, CleanInv, IInv
  <2>3. Posix!CleanUnlessCrashed
    BY <2>2, SameCount DEF Posix!CleanUnlessCrashed, Posix!CapacityAccounting, Posix!NoPhantomPizza,
           Posix!At, Posix!Procs, Posix!AtOven, Posix!AtTable, Posix!HoldsOven,
           Posix!HoldsTable, Posix!Carrying,
           CapacityAccounting, NoPhantomPizza, At, Procs, AtOven, AtTable, HoldsOven,
           HoldsTable, Carrying
  <2> QED  BY <2>1, <2>3
<1> QED  BY <1>1, Inductive, PTL
=============================================================================
