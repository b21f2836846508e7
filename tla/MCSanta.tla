------------------------------ MODULE MCSanta ------------------------------
(***************************************************************************)
(* Santa with two reindeer and three or four elves.                        *)
(***************************************************************************)
EXTENDS Santa

CONSTANTS r1, r2, e1, e2, e3, e4

TwoReindeers == {r1, r2}
ThreeElves == {e1, e2, e3}
FourElves == {e1, e2, e3, e4}
=============================================================================
