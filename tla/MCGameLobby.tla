----------------------------- MODULE MCGameLobby -----------------------------
(***************************************************************************)
(* The server of tic-tac-toe with three clients, two of one name.          *)
(***************************************************************************)
EXTENDS GameLobby, TLC

CONSTANTS c1, c2, c3, c4

FourClients == {c1, c2, c3, c4}
SameName(c) == IF c = c4 THEN c1 ELSE c
ThreeOfFour == {{c1, c2, c3}, {c1, c2, c4}}
Some == {c1}
=============================================================================
