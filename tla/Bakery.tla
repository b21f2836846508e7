------------------------------- MODULE Bakery -------------------------------
(***************************************************************************)
(* What the pizzeria promises, without semaphores, indices or counters:    *)
(* two bounded first-in first-out queues.  A cook puts the pizza it drew   *)
(* at the end of the oven's queue, later takes the pizza at the front (the *)
(* oldest, not necessarily its own) and puts that one on the table; a      *)
(* supplier takes the pizza at the front of the table.  Nothing is lost,   *)
(* duplicated, reordered or made up.                                       *)
(***************************************************************************)
EXTENDS Integers, Sequences

CONSTANTS Cooks, Suppliers, OvenSize, TableSize, Types, NoPizza

VARIABLES duty,    \* what each cook is about to do
          hand,    \* the pizza each cook has prepared or taken from the oven
          ovenQ, tableQ

bakeryVars == <<duty, hand, ovenQ, tableQ>>

BakeryInit == /\ duty = [c \in Cooks |-> "draw"]
              /\ hand = [c \in Cooks |-> NoPizza]
              /\ ovenQ = <<>>
              /\ tableQ = <<>>

Draw(c) == /\ duty[c] = "draw"
           /\ \E t \in Types : hand' = [hand EXCEPT ![c] = t]
           /\ duty' = [duty EXCEPT ![c] = "put"]
           /\ UNCHANGED <<ovenQ, tableQ>>

PutIn(c) == /\ duty[c] = "put"
            /\ Len(ovenQ) < OvenSize
            /\ ovenQ' = Append(ovenQ, hand[c])
            /\ duty' = [duty EXCEPT ![c] = "take"]
            /\ hand' = [hand EXCEPT ![c] = NoPizza]
            /\ UNCHANGED tableQ

TakeOut(c) == /\ duty[c] = "take"
              /\ ovenQ # <<>>
              /\ hand' = [hand EXCEPT ![c] = Head(ovenQ)]
              /\ ovenQ' = Tail(ovenQ)
              /\ duty' = [duty EXCEPT ![c] = "place"]
              /\ UNCHANGED tableQ

Place(c) == /\ duty[c] = "place"
            /\ Len(tableQ) < TableSize
            /\ tableQ' = Append(tableQ, hand[c])
            /\ duty' = [duty EXCEPT ![c] = "draw"]
            /\ hand' = [hand EXCEPT ![c] = NoPizza]
            /\ UNCHANGED ovenQ

Fetch == /\ tableQ # <<>>
         /\ tableQ' = Tail(tableQ)
         /\ UNCHANGED <<duty, hand, ovenQ>>

BakeryNext == \/ \E c \in Cooks : Draw(c) \/ PutIn(c) \/ TakeOut(c) \/ Place(c)
              \/ Fetch

BakerySteps == BakeryInit /\ [][BakeryNext]_bakeryVars

\* Cooks may overtake one another, but together they keep every stage moving
\* and the table is emptied whenever it holds a pizza.
BakerySpec == /\ BakerySteps
              /\ WF_bakeryVars(BakeryNext) /\ WF_bakeryVars(Fetch)
=============================================================================
