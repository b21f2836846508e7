------------------------------ MODULE GameClient ------------------------------
(***************************************************************************)
(* cw10/zad2: the client of tic-tac-toe with its two threads, and the      *)
(* server over datagram sockets.                                           *)
(*                                                                         *)
(* listen_server receives a message into the buffer that arg points into,  *)
(* and stores a state; play_game reads the state and arg, acts, and stores *)
(* a state of its own, without the mutex.  Each of these is a step.        *)
(***************************************************************************)
EXTENDS DatagramServer, GameBoard

CONSTANTS Typed(_, _),          \* bound: the positions a user may type on a board
          Interrupts,           \* bound: the clients that SIGINT may reach
          Parties               \* bound: the clients that take part, a set of choices

ASSUME ClientAssumption == /\ \A c \in Clients, b \in Boards : Typed(c, b) \subseteq Positions
                           /\ Interrupts \subseteq Clients
                           /\ Parties \subseteq SUBSET Clients

VARIABLES phase,                \* "absent", "new", "running" or "gone"
          play,                 \* play_game: "none", "top" of its loop, or "store"
          state, stored,        \* the state, and what play_game is about to store there
          arg,                  \* what arg points to
          board, is_client_O,
          raced                 \* a message has come in one of the windows below

playVars == <<phase, play, state, stored, arg, board, is_client_O>>
vars == <<serverVars, to_client, exited, told, playVars, raced>>

ClientInit ==
    /\ \E party \in Parties : phase = [c \in Clients |-> IF c \in party THEN "new" ELSE "absent"]
    /\ play = [c \in Clients |-> "none"]
    /\ state = [c \in Clients |-> "GAME_STARTING"] /\ stored = [c \in Clients |-> "GAME_STARTING"]
    /\ arg = [c \in Clients |-> 0]
    /\ board = [c \in Clients |-> [new_board EXCEPT !.move = 0]]
    /\ is_client_O = [c \in Clients |-> FALSE]
    /\ raced = FALSE

Init == ServerInit /\ ClientInit

Set(f, c, v) == [f EXCEPT ![c] = v]
SendFrom(c, command, value) == Post(c, Message(command, value, c))
-----------------------------------------------------------------------------
(* The start and the end of a client.                                      *)

init_server_connection(c) ==
    /\ phase[c] = "new" /\ phase' = Set(phase, c, "running")
    /\ SendFrom(c, "add", 0)
    /\ UNCHANGED <<play, state, stored, arg, board, is_client_O, to_client, exited, told, raced>>

\* The rest of a client that has ended says nothing.
exit(c) == /\ phase' = Set(phase, c, "gone") /\ exited' = Set(exited, c, TRUE)
           /\ play' = Set(play, c, "none") /\ state' = Set(state, c, "QUIT")
           /\ to_client' = Set(to_client, c, <<>>)
           /\ UNCHANGED <<stored, arg, board, is_client_O>>

quit(c) == exit(c) /\ SendFrom(c, "quit", 0)

SIGINT(c) == /\ c \in Interrupts /\ phase[c] = "running"
             /\ quit(c) /\ UNCHANGED <<told, raced>>
-----------------------------------------------------------------------------
(* listen_server.                                                          *)

\* What play_game has not read yet is overwritten by the next message.
ArgUnread(c) == play[c] = "top" /\ state[c] \in {"GAME_STARTING", "OPPONENT_MOVE"}

\* play_game is about to overwrite the state that a move or the start of a game stores.
StateOverwritten(c, m) == play[c] = "store" /\ m.command \in {"add", "move"}

listen_server(c) ==
    /\ phase[c] = "running" /\ to_client[c] # <<>>
    /\ LET m == Head(to_client[c])
       IN /\ raced' = (m.command # "quit" /\ (ArgUnread(c) \/ StateOverwritten(c, m)))
          /\ \/ /\ m.command = "quit" /\ exit(c) /\ UNCHANGED <<inbox, told>>
             \/ /\ m.command # "quit"
                /\ to_client' = Set(to_client, c, Tail(to_client[c]))
                /\ arg' = Set(arg, c, m.arg)
                /\ \/ /\ m.command = "add"
                      /\ state' = Set(state, c, "GAME_STARTING")
                      /\ play' = Set(play, c, IF play[c] = "none" THEN "top" ELSE play[c])
                      /\ told' = Set(told, c, m.from)
                      /\ UNCHANGED inbox
                   \/ /\ m.command = "move"
                      /\ state' = Set(state, c, "OPPONENT_MOVE")
                      /\ UNCHANGED <<play, inbox, told>>
                   \/ /\ m.command = "ping" /\ SendFrom(c, "pong", 0)
                      /\ UNCHANGED <<play, state, told>>
                /\ UNCHANGED <<phase, exited, stored, board, is_client_O>>
-----------------------------------------------------------------------------
(* play_game: one step to where it stores the state, one that stores it.   *)

AtTop(c, s) == phase[c] = "running" /\ play[c] = "top" /\ state[c] = s
ToStore(c, s) == play' = Set(play, c, "store") /\ stored' = Set(stored, c, s) /\ UNCHANGED state
NoMessage == UNCHANGED <<inbox, to_client, exited, told, raced>>

\* An answer to "add"; whatever is not known makes the client X.
StartGame(c) ==
    /\ AtTop(c, "GAME_STARTING")
    /\ \/ /\ arg[c] = "name_taken" /\ exit(c) /\ UNCHANGED <<inbox, told, raced>>
       \/ /\ arg[c] = "no_enemy" /\ ToStore(c, "WAITING")
          /\ UNCHANGED <<phase, arg, board, is_client_O>> /\ NoMessage
       \/ /\ arg[c] \notin {"name_taken", "no_enemy"}
          /\ board' = Set(board, c, new_board)
          /\ is_client_O' = Set(is_client_O, c, arg[c] = "O")
          /\ ToStore(c, IF arg[c] = "O" THEN "MOVE" ELSE "WAITING_FOR_MOVE")
          /\ UNCHANGED <<phase, arg>> /\ NoMessage

\* check_game after a move: the game ends, or it goes on with a state that is stored next.
check_game(c, next) ==
    IF GameOver(board'[c]) THEN /\ state' = Set(state, c, "QUIT")
                                /\ UNCHANGED <<play, stored>>
    ELSE ToStore(c, next)

OpponentMove(c) ==
    /\ AtTop(c, "OPPONENT_MOVE")
    /\ board' = Set(board, c, move(board[c], arg[c]))
    /\ check_game(c, "MOVE")
    /\ UNCHANGED <<phase, arg, is_client_O>> /\ NoMessage

\* A mutant of UserMove: what is sent is what was typed, which counts from 1.
UserMove_SendsTyped(c) ==
    /\ AtTop(c, "MOVE")
    /\ \E pos \in Typed(c, board[c]) :
         /\ CanMove(board[c], pos)
         /\ board' = Set(board, c, move(board[c], pos))
         /\ SendFrom(c, "move", pos + 1)
    /\ check_game(c, "WAITING_FOR_MOVE")
    /\ UNCHANGED <<phase, arg, is_client_O, to_client, exited, told, raced>>

\* What the user types is refused until it is a place that is free.
UserMove(c) ==
    /\ AtTop(c, "MOVE")
    /\ \E pos \in Typed(c, board[c]) :
         /\ CanMove(board[c], pos)
         /\ board' = Set(board, c, move(board[c], pos))
         /\ SendFrom(c, "move", pos)
    /\ check_game(c, "WAITING_FOR_MOVE")
    /\ UNCHANGED <<phase, arg, is_client_O, to_client, exited, told, raced>>

QuitAfterGame(c) == AtTop(c, "QUIT") /\ quit(c) /\ UNCHANGED <<told, raced>>

Store(c) == /\ phase[c] = "running" /\ play[c] = "store"
            /\ state' = Set(state, c, stored[c]) /\ play' = Set(play, c, "top")
            /\ UNCHANGED <<phase, stored, arg, board, is_client_O>> /\ NoMessage

play_game(c) == StartGame(c) \/ OpponentMove(c) \/ UserMove(c) \/ QuitAfterGame(c) \/ Store(c)
ClientStep(c) == init_server_connection(c) \/ listen_server(c) \/ play_game(c) \/ SIGINT(c)

\* The system is left alone once the server is down or a message has come too early.
Next == /\ up /\ ~raced
        /\ \/ ServerStep /\ UNCHANGED <<playVars, told, raced>>
           \/ \E c \in Clients : ClientStep(c) /\ UNCHANGED <<tableVars, up, message>>

Spec == Init /\ [][Next]_vars
-----------------------------------------------------------------------------
(* Properties.                                                             *)

\* All moves that are under way from d to c, each with the place where it is: noted by
\* listen_server and not made yet by play_game, in the queue of c, or with the server.
UnderWay(d, c) ==
    LET moves(place, messages) ==
            {<<place, k, messages[k].arg>> : k \in {j \in DOMAIN messages : messages[j].command = "move"}}
        from_d(place, messages) ==
            {<<place, k, messages[k].arg>> :
                k \in {j \in DOMAIN messages : messages[j].command = "move" /\ messages[j].from = d}}
    IN (IF AtTop(c, "OPPONENT_MOVE") THEN {<<"noted", 1, arg[c]>>} ELSE {})
       \cup moves("to_client", to_client[c])
       \cup from_d("message", <<message>>)
       \cup from_d("inbox", inbox[SocketOf(d)])

\* Whether the client has set up its board.
HasBoard(c) == play[c] # "none" /\ ~AtTop(c, "GAME_STARTING")
               /\ (play[c] = "store" => stored[c] # "WAITING") /\ state[c] # "WAITING"

Board(c) == IF HasBoard(c) THEN board[c] ELSE new_board

\* The server knows players by name: that of a player it has removed, which is not told, may
\* be given again, and the moves of the two are then taken for each other's.  A game is
\* followed until a namesake of one of its players has played or gone.
OwnName(c) == \A e \in Clients :
    Name(e) = Name(c) /\ (RivalOf(e) # NULL \/ phase[e] = "gone") => e = c

\* Clients that are there, whose names are their own, and of whom c plays d and has set up its
\* board; a game is left alone once the server is down.
InGame(c, d) == /\ up /\ ~raced /\ RivalOf(c) = d /\ HasBoard(c)
                /\ phase[c] = "running" /\ phase[d] = "running" /\ OwnName(c) /\ OwnName(d)

\* d has made at most one move that c has not, and it is the only one under way.
AheadByAtMostOne(d, c) ==
    /\ UnderWay(c, d) = {}
    /\ \/ UnderWay(d, c) = {} /\ Board(d) = Board(c)
       \/ \E m \in UnderWay(d, c) : UnderWay(d, c) = {m} /\ Board(d) = move(Board(c), m[3])

\* The two boards of a game are one, but for one move that is on its way.  Nothing but the
\* order of the messages keeps them together, and a move that is refused is refused silently.
BoardsAgree ==
    \A c, d \in Clients : InGame(c, d) => AheadByAtMostOne(c, d) \/ AheadByAtMostOne(d, c)

\* Or about to be.
ToMove(c) == AtTop(c, "MOVE") \/ (play[c] = "store" /\ stored[c] = "MOVE")

\* Only one of the players is to move, and what it places is its own sign.
PlayersTakeTurns ==
    \A c, d \in Clients :
        InGame(c, d) /\ ToMove(c) =>
            /\ (board[c].move = 1) = is_client_O[c]
            /\ ~ToMove(d) /\ UnderWay(d, c) = {}

\* A client stops playing when the game has been won or the board is full, and not before.
EndsWithTheGame ==
    \A c, d \in Clients : InGame(c, d) => (state[c] = "QUIT" <=> Finished(board[c]))
=============================================================================
