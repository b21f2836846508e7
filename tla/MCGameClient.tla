----------------------------- MODULE MCGameClient -----------------------------
(***************************************************************************)
(* A server with room for two players, and one of two parties: two clients *)
(* who play a game to its end, or three of whom two have one name.         *)
(***************************************************************************)
EXTENDS GameClient

CONSTANTS c1, c2, c3, c4, c5

FiveClients == {c1, c2, c3, c4, c5}
OneOfEach == {c1}
SameName(c) == IF c = c5 THEN c3 ELSE c
Second == {c2}

TwoOrThree == {{c1, c2}, {c3, c4, c5}}

FirstFree(b, places) ==
    {p \in places : b.objects[p] = FREE /\ \A q \in places : q < p => b.objects[q] # FREE}

\* c1 closes the first row with place 2, as the first player or as the second, unless c2
\* takes that place; then no line is left for either, and the board fills up when c1 is O.
Plan(c, b) ==
    CASE c = c1 -> IF FirstFree(b, {0, 1}) # {} THEN FirstFree(b, {0, 1})
                   ELSE {2} \cup FirstFree(b, {5, 6, 8})
      [] c = c2 -> {2} \cup FirstFree(b, {3, 4, 7})
      [] c = c3 -> {0}
      [] c \in {c4, c5} -> {}
=============================================================================
