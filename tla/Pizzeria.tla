------------------------------ MODULE Pizzeria ------------------------------
(***************************************************************************)
(* The loops of the cooks and the suppliers of cw07 (System V variant      *)
(* zad1, whose control the POSIX variant zad2 repeats line by line): two   *)
(* cyclic arrays in shared memory, guarded by five counting semaphores.    *)
(* The module knows nothing of how processes are started, stopped or       *)
(* restarted: PizzeriaSysV and PizzeriaPosix add the two life cycles.      *)
(*                                                                         *)
(* Every function that touches an array is two steps, the access to the    *)
(* slot and the update of index and counter, so a missing lock shows.      *)
(***************************************************************************)
EXTENDS Integers, FiniteSets

CONSTANTS Cooks,      \* the cook processes
          Suppliers,  \* the supplier processes
          OvenSize,   \* OVEN_SIZE, the slots of the oven
          TableSize,  \* TABLE_SIZE, the slots of the table
          Types,      \* the kinds of pizza a cook draws
          NoPizza     \* the -1 that marks a free slot

\* place_on_table (cook.c:69) wraps the table's index at OVEN_SIZE: the code is
\* right only while the two compile-time sizes are the same number.
ASSUME PizzeriaAssumption ==
    /\ IsFiniteSet(Cooks) /\ IsFiniteSet(Suppliers)
    /\ Cooks \cap Suppliers = {}
    /\ OvenSize \in Nat \ {0}
    /\ TableSize = OvenSize
    /\ NoPizza \notin Types

VARIABLES pc,     \* the statement each process executes next
          type,   \* the local variable "type" of each process
          oven, table,  \* the two shared-memory segments
          sem     \* the values of the five semaphores

vars == <<pc, type, oven, table, sem>>

Procs == Cooks \cup Suppliers
Semaphores == {"OVEN", "TABLE", "OVEN_FULL", "TABLE_FULL", "TABLE_EMPTY"}

\* An array of n slots as setup_shm_segment leaves it.
EmptyBuffer(n) == [slots |-> [i \in 0..(n - 1) |-> NoPizza], pizzas |-> 0,
                   idx_to_place |-> 0, idx_to_take_out |-> 0]

\* The values setup_semaphore sets.
InitialSem == [s \in Semaphores |->
                 CASE s \in {"OVEN", "TABLE"} -> 1
                   [] s = "OVEN_FULL" -> OvenSize
                   [] s = "TABLE_FULL" -> TableSize
                   [] s = "TABLE_EMPTY" -> 0]

\* Where a process stands when its loop begins.
FirstLabel(p) == IF p \in Cooks THEN "prepare" ELSE "await_pizza"

Init == /\ pc = [p \in Procs |-> FirstLabel(p)]
        /\ type = [p \in Procs |-> NoPizza]
        /\ oven = EmptyBuffer(OvenSize)
        /\ table = EmptyBuffer(TableSize)
        /\ sem = InitialSem
-----------------------------------------------------------------------------
Goto(p, from, to) == pc[p] = from /\ pc' = [pc EXCEPT ![p] = to]

\* A blocking semop of -1 and a semop of +1, with the jump that follows.
lock_semaphore(p, s, from, to) ==
    /\ Goto(p, from, to)
    /\ sem[s] > 0
    /\ sem' = [sem EXCEPT ![s] = @ - 1]
    /\ UNCHANGED <<type, oven, table>>

unlock_semaphore(p, s, from, to) ==
    /\ Goto(p, from, to)
    /\ sem' = [sem EXCEPT ![s] = @ + 1]
    /\ UNCHANGED <<type, oven, table>>

\* Variants of the definitions below with a plausible slip, used as mutants only.
Placed_NoWrap(buf, n) == [buf EXCEPT !.idx_to_place = @ + 1, !.pizzas = @ + 1]
Clear_KeepsSlot(buf) == buf
TakenOut_NoCount(buf, n) == [buf EXCEPT !.idx_to_take_out = (@ + 1) % n]

\* The two halves of adding to and of removing from a cyclic array of n slots.
Store(buf, t) == [buf EXCEPT !.slots[buf.idx_to_place] = t]
Placed(buf, n) == [buf EXCEPT !.idx_to_place = (@ + 1) % n, !.pizzas = @ + 1]
Clear(buf) == [buf EXCEPT !.slots[buf.idx_to_take_out] = NoPizza]
TakenOut(buf, n) == [buf EXCEPT !.idx_to_take_out = (@ + 1) % n, !.pizzas = @ - 1]
-----------------------------------------------------------------------------
(* The cook.                                                               *)

\* Mutants: a lock or an unlock forgotten, the cook's own pizza placed instead of the one taken out.
Jump(p, from, to) == Goto(p, from, to) /\ UNCHANGED <<type, oven, table, sem>>
OpenToTake_NoLock(c) == Jump(c, "open_to_take", "take_clear")
FreeOven_NoUnlock(c) == Jump(c, "unlock_oven_full", "lock_table_full")
ReserveTable_NoLock(c) == Jump(c, "lock_table_full", "reach_to_place")
AnnouncePizza_NoUnlock(c) == Jump(c, "unlock_table_empty", "prepare")
AwaitPizza_NoLock(s) == Jump(s, "await_pizza", "reach_to_fetch")
deliver_from_oven_KeepsType(c) ==
    \/ /\ Goto(c, "take_clear", "take_advance")
       /\ oven' = Clear(oven)
       /\ UNCHANGED <<type, table, sem>>
    \/ /\ Goto(c, "take_advance", "take_done")
       /\ oven' = TakenOut(oven, OvenSize)
       /\ UNCHANGED <<type, table, sem>>


Prepare(c) ==
    /\ Goto(c, "prepare", "lock_oven_full")
    /\ \E t \in Types : type' = [type EXCEPT ![c] = t]
    /\ UNCHANGED <<oven, table, sem>>

ReserveOven(c)   == lock_semaphore(c, "OVEN_FULL", "lock_oven_full", "open_to_put")
OpenToPut(c)     == lock_semaphore(c, "OVEN", "open_to_put", "put_store")
CloseAfterPut(c) == unlock_semaphore(c, "OVEN", "put_done", "open_to_take")
OpenToTake(c)    == lock_semaphore(c, "OVEN", "open_to_take", "take_clear")
CloseAfterTake(c) == unlock_semaphore(c, "OVEN", "take_done", "unlock_oven_full")
FreeOven(c)      == unlock_semaphore(c, "OVEN_FULL", "unlock_oven_full", "lock_table_full")
ReserveTable(c)  == lock_semaphore(c, "TABLE_FULL", "lock_table_full", "reach_to_place")
ReachToPlace(c)  == lock_semaphore(c, "TABLE", "reach_to_place", "place_store")
LeaveTable(c)    == unlock_semaphore(c, "TABLE", "place_done", "unlock_table_empty")
AnnouncePizza(c) == unlock_semaphore(c, "TABLE_EMPTY", "unlock_table_empty", "prepare")

put_in_oven(c) ==
    \/ /\ Goto(c, "put_store", "put_advance")
       /\ oven' = Store(oven, type[c])
       /\ UNCHANGED <<type, table, sem>>
    \/ /\ Goto(c, "put_advance", "put_done")
       /\ oven' = Placed(oven, OvenSize)
       /\ UNCHANGED <<type, table, sem>>

\* The slot is cleared in the same step as it is read: the mutex is held, and
\* what the cook gets is whatever the oldest slot holds, its own pizza or not.
deliver_from_oven(c) ==
    \/ /\ Goto(c, "take_clear", "take_advance")
       /\ type' = [type EXCEPT ![c] = oven.slots[oven.idx_to_take_out]]
       /\ oven' = Clear(oven)
       /\ UNCHANGED <<table, sem>>
    \/ /\ Goto(c, "take_advance", "take_done")
       /\ oven' = TakenOut(oven, OvenSize)
       /\ UNCHANGED <<type, table, sem>>

place_on_table(c) ==
    \/ /\ Goto(c, "place_store", "place_advance")
       /\ table' = Store(table, type[c])
       /\ UNCHANGED <<type, oven, sem>>
    \/ /\ Goto(c, "place_advance", "place_done")
       /\ table' = Placed(table, OvenSize)
       /\ UNCHANGED <<type, oven, sem>>

\* The steps of a cook that call semop, and those that only touch memory.
CookSemop(c) == \/ ReserveOven(c) \/ OpenToPut(c) \/ CloseAfterPut(c)
                \/ OpenToTake(c) \/ CloseAfterTake(c) \/ FreeOven(c)
                \/ ReserveTable(c) \/ ReachToPlace(c) \/ LeaveTable(c)
                \/ AnnouncePizza(c)
CookLocal(c) == \/ Prepare(c) \/ put_in_oven(c) \/ deliver_from_oven(c)
                \/ place_on_table(c)
-----------------------------------------------------------------------------
(* The supplier.                                                           *)

AwaitPizza(s)     == lock_semaphore(s, "TABLE_EMPTY", "await_pizza", "reach_to_fetch")
ReachToFetch(s)   == lock_semaphore(s, "TABLE", "reach_to_fetch", "fetch_clear")
WithdrawFetch(s)  == unlock_semaphore(s, "TABLE", "fetch_done", "unlock_table_full")
FreeTable(s)      == unlock_semaphore(s, "TABLE_FULL", "unlock_table_full", "deliver")

deliver_from_table(s) ==
    \/ /\ Goto(s, "fetch_clear", "fetch_advance")
       /\ type' = [type EXCEPT ![s] = table.slots[table.idx_to_take_out]]
       /\ table' = Clear(table)
       /\ UNCHANGED <<oven, sem>>
    \/ /\ Goto(s, "fetch_advance", "fetch_done")
       /\ table' = TakenOut(table, TableSize)
       /\ UNCHANGED <<type, oven, sem>>

\* The drive to the customer and back.
Deliver(s) == Goto(s, "deliver", "await_pizza") /\ UNCHANGED <<type, oven, table, sem>>

SupplierSemop(s) == \/ AwaitPizza(s) \/ ReachToFetch(s) \/ WithdrawFetch(s)
                    \/ FreeTable(s)
SupplierLocal(s) == deliver_from_table(s) \/ Deliver(s)
-----------------------------------------------------------------------------
Cook(c) == CookSemop(c) \/ CookLocal(c)
Supplier(s) == SupplierSemop(s) \/ SupplierLocal(s)

Next == \/ \E c \in Cooks : Cook(c)
        \/ \E s \in Suppliers : Supplier(s)

Spec == Init /\ [][Next]_vars

\* Each process keeps running: the scheduler is fair to it. Nothing is assumed
\* about which of several waiting processes a semaphore wakes.
Fairness == /\ \A c \in Cooks : WF_vars(Cook(c))
            /\ \A s \in Suppliers : WF_vars(Supplier(s))

FairSpec == Spec /\ Fairness
-----------------------------------------------------------------------------
(* What must hold of the kitchen.                                          *)

At(S, labels) == {p \in S : pc[p] \in labels}

\* A process inside a critical section, between lock and unlock of the mutex.
AtOven == {"put_store", "put_advance", "put_done", "take_clear", "take_advance", "take_done"}
AtTable == {"place_store", "place_advance", "place_done",
            "fetch_clear", "fetch_advance", "fetch_done"}

\* A process that has taken one unit of OVEN_FULL (of TABLE_FULL or TABLE_EMPTY)
\* and not yet given one back.
HoldsOven == AtOven \cup {"open_to_put", "open_to_take", "unlock_oven_full"}
HoldsTable == AtTable \cup {"reach_to_place", "unlock_table_empty",
                            "reach_to_fetch", "unlock_table_full"}

\* A cook whose pizza is counted by oven.pizzas; a cook (a supplier) whose pizza
\* is counted by table.pizzas while TABLE_EMPTY does not (no longer) count it.
InOven == {"put_done", "open_to_take", "take_clear", "take_advance"}
JustPlaced == {"place_done", "unlock_table_empty"}
AboutToFetch == {"reach_to_fetch", "fetch_clear", "fetch_advance"}

Carrying == {"lock_oven_full", "open_to_put", "put_store", "take_advance", "take_done",
             "unlock_oven_full", "lock_table_full", "reach_to_place", "place_store"}

Labels == AtOven \cup AtTable \cup HoldsOven \cup HoldsTable \cup
          {"prepare", "lock_oven_full", "lock_table_full", "await_pizza", "deliver"}

BufferType(n) == [slots : [0..(n - 1) -> Types \cup {NoPizza}], pizzas : Int,
                  idx_to_place : 0..(n - 1), idx_to_take_out : 0..(n - 1)]

\* Every variable ranges over what the C types and the labels allow; the five
\* semaphores never go below zero and both indices stay inside their arrays.
TypeOK == /\ pc \in [Procs -> Labels]
          /\ type \in [Procs -> Types \cup {NoPizza}]
          /\ oven \in BufferType(OvenSize)
          /\ table \in BufferType(TableSize)
          /\ sem \in [Semaphores -> Nat]

\* At most one process works at the oven window, and at most one reaches over
\* the table (readme.md:44), and no unit of the two mutexes is lost or invented.
MutexAccounting ==
    /\ sem["OVEN"] + Cardinality(At(Cooks, AtOven)) = 1
    /\ sem["TABLE"] + Cardinality(At(Procs, AtTable)) = 1

\* Units of capacity are conserved across cooks and suppliers: a unit is in a
\* semaphore or held by exactly one process on its way to another semaphore.
CapacityAccounting ==
    /\ sem["OVEN_FULL"] + Cardinality(At(Cooks, HoldsOven)) = OvenSize
    /\ sem["TABLE_FULL"] + sem["TABLE_EMPTY"] + Cardinality(At(Procs, HoldsTable)) = TableSize

\* The counters the log prints are the pizzas really there: TABLE_EMPTY counts
\* the pizzas on the table but for those being announced or being fetched.
PizzasCounted ==
    /\ oven.pizzas = Cardinality(At(Cooks, InOven))
    /\ table.pizzas = sem["TABLE_EMPTY"] + Cardinality(At(Cooks, JustPlaced))
                        + Cardinality(At(Suppliers, AboutToFetch))

\* Every unit of the five semaphores is where it has to be: free, or with one process, or
\* a pizza on the table; at most one process is at each place (readme.md:44).
UnitsAccounted == MutexAccounting /\ CapacityAccounting /\ PizzasCounted

\* The number of pizzas never exceeds the array (readme.md:44) nor drops below
\* zero, at the oven and at the table.
WithinLimits == oven.pizzas \in 0..OvenSize /\ table.pizzas \in 0..TableSize

\* A pizza is only ever written to a free slot: none is lost by being overwritten.
NoOverwrite ==
    /\ \A c \in At(Cooks, {"put_store"}) : oven.slots[oven.idx_to_place] = NoPizza
    /\ \A c \in At(Cooks, {"place_store"}) : table.slots[table.idx_to_place] = NoPizza

\* Nobody takes a pizza out of a free slot, so no cook carries and no supplier
\* delivers the -1 of an empty slot.
NoPhantomPizza ==
    /\ \A c \in At(Cooks, {"take_clear"}) : oven.slots[oven.idx_to_take_out] # NoPizza
    /\ \A s \in At(Suppliers, {"fetch_clear"}) : table.slots[table.idx_to_take_out] # NoPizza
    /\ \A c \in At(Cooks, Carrying) : type[c] # NoPizza
    /\ \A s \in At(Suppliers, {"deliver"}) : type[s] # NoPizza

\* The slots of a cyclic array that hold the counted pizzas.
Window(buf, n) ==
    {i \in 0..(n - 1) : \/ buf.idx_to_take_out <= i /\ i < buf.idx_to_take_out + buf.pizzas
                        \/ i + n < buf.idx_to_take_out + buf.pizzas}

\* The two indices are pizzas apart, and the occupied slots are exactly the window
\* between them but for the slot a process has stored or cleared half-way.
Shape(buf, n, storing, clearing) ==
    /\ \/ buf.idx_to_place = buf.idx_to_take_out + buf.pizzas
       \/ buf.idx_to_place = buf.idx_to_take_out + buf.pizzas - n
    /\ \A i \in 0..(n - 1) :
          (buf.slots[i] # NoPizza) <=>
             \/ i \in Window(buf, n) /\ ~(clearing /\ i = buf.idx_to_take_out)
             \/ storing /\ i = buf.idx_to_place

\* The arrays are queues: what is occupied is a contiguous cyclic window.
Contiguous ==
    /\ Shape(oven, OvenSize, At(Cooks, {"put_advance"}) # {},
             At(Cooks, {"take_advance"}) # {})
    /\ Shape(table, TableSize, At(Cooks, {"place_advance"}) # {},
             At(Suppliers, {"fetch_advance"}) # {})
=============================================================================
