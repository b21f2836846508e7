------------------------------ MODULE GameBoard ------------------------------
(***************************************************************************)
(* cw10, client.c: the board of tic-tac-toe, its moves and its end.        *)
(***************************************************************************)
EXTENDS Integers, FiniteSets

FREE == "FREE"
O == "O"
X == "X"
Positions == 0..8

\* board.move says whose turn it is, 1 for O; O starts.
new_board == [move |-> 1, objects |-> [p \in Positions |-> FREE]]

\* The user may also type 9, which is let through: there objects[9] is the variable state
\* next to the board, which is not 0 (GAME_STARTING) during a move, so that it is refused.
CanMove(b, p) == p \in Positions /\ b.objects[p] = FREE

\* A mutant of move: the turn does not change.
move_SameTurn(b, p) ==
    IF ~CanMove(b, p) THEN b
    ELSE [b EXCEPT !.objects[p] = IF b.move = 1 THEN O ELSE X]

move(b, p) ==
    IF ~CanMove(b, p) THEN b
    ELSE [move |-> 1 - b.move,
          objects |-> [b.objects EXCEPT ![p] = IF b.move = 1 THEN O ELSE X]]

\* The owner of the last of these lines that is of one player, FREE if there is none.
Owner(b, lines) ==
    LET full == {k \in DOMAIN lines : /\ b.objects[lines[k][1]] # FREE
                                      /\ \A p \in {2, 3} : b.objects[lines[k][p]] = b.objects[lines[k][1]]}
    IN IF full = {} THEN FREE
       ELSE LET last == CHOOSE k \in full : \A j \in full : j <= k
            IN b.objects[lines[last][1]]

columns == [x \in 0..2 |-> <<x, x + 3, x + 6>>]
rows == [y \in 0..2 |-> <<3 * y, 3 * y + 1, 3 * y + 2>>]
lower_diagonal == [d \in {0} |-> <<0, 4, 8>>]
upper_diagonal == [d \in {0} |-> <<2, 4, 6>>]

\* Columns are looked at first, the upper diagonal last.
check_winner(b) ==
    IF Owner(b, columns) # FREE THEN Owner(b, columns)
    ELSE IF Owner(b, rows) # FREE THEN Owner(b, rows)
    ELSE IF Owner(b, lower_diagonal) # FREE THEN Owner(b, lower_diagonal)
    ELSE Owner(b, upper_diagonal)

\* A mutant of GameOver: only the first place is looked at.
GameOver_OnePlace(b) == check_winner(b) # FREE \/ b.objects[0] # FREE

\* check_game: somebody has won, or no place is free.
GameOver(b) == check_winner(b) # FREE \/ \A p \in Positions : b.objects[p] # FREE
-----------------------------------------------------------------------------
(* The rules, to compare with.                                             *)

Square(p) == <<p % 3, p \div 3>>

\* Three places are in a line when the middle one is the mean of the outer ones.
InLine(a, m, c) == /\ a # c
                   /\ \A k \in {1, 2} : Square(a)[k] + Square(c)[k] = 2 * Square(m)[k]

\* Three of the player's places are in a line.
Won(b, player) == \E a, m, c \in {p \in Positions : b.objects[p] = player} : InLine(a, m, c)

Finished(b) == Won(b, O) \/ Won(b, X) \/ \A p \in Positions : b.objects[p] \in {O, X}

\* All boards, reached or not.
Boards == [move : {0, 1}, objects : [Positions -> {FREE, O, X}]]
=============================================================================
