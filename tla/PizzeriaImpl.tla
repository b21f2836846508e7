---------------------------- MODULE PizzeriaImpl ----------------------------
(* The pizzeria of cw07 implements the two bounded queues of Bakery.       *)
EXTENDS Pizzeria, Sequences

\* The contents of a cyclic array, oldest first: a half-done removal has already
\* happened, a half-done insertion has not.
Contents(buf, n, clearing) ==
    LET skip == IF clearing THEN 1 ELSE 0
    IN  [k \in 1..(buf.pizzas - skip) |->
            buf.slots[(buf.idx_to_take_out + skip + k - 1) % n]]

\* What a cook's label says it will do next to the two queues.
DutyOf(label) ==
    CASE label \in {"lock_oven_full", "open_to_put", "put_store", "put_advance"} -> "put"
      [] label \in {"put_done", "open_to_take", "take_clear"} -> "take"
      [] label \in {"take_advance", "take_done", "unlock_oven_full", "lock_table_full",
                    "reach_to_place", "place_store", "place_advance"} -> "place"
      [] OTHER -> "draw"

Abstract == INSTANCE Bakery WITH
    duty   <- [c \in Cooks |-> DutyOf(pc[c])],
    hand   <- [c \in Cooks |-> IF DutyOf(pc[c]) \in {"put", "place"} THEN type[c] ELSE NoPizza],
    ovenQ  <- Contents(oven, OvenSize, At(Cooks, {"take_advance"}) # {}),
    tableQ <- Contents(table, TableSize, At(Suppliers, {"fetch_advance"}) # {})

\* The semaphores, indices and counters of cook.c and supplier.c keep the promise
\* of Bakery: pizzas pass the oven and the table in order, none lost or doubled,
\* never more than fit, and under a fair scheduler the pipeline never stalls.
ImplementsBakery == Abstract!BakerySpec
=============================================================================
