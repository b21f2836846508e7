--------------------------- MODULE GameClientProof ---------------------------
(***************************************************************************)
(* Games over datagrams, for any number of clients, slots and positions    *)
(* that are typed.                                                         *)
(*                                                                         *)
(* What keeps the boards of a game together is spread over four places: a  *)
(* move is in the queue of a socket, with the server, in the queue of the  *)
(* other client, or noted there.  The invariant says which states of the   *)
(* two clients go with each of them (Match).  It rests on the table, which *)
(* tells the two whom they play, and on names: a move reaches whoever sits *)
(* beside the name that sent it.                                           *)
(***************************************************************************)
EXTENDS GameClient, GameTableProof

-----------------------------------------------------------------------------
(* The board: check_winner and check_game decide every board as the rules  *)
(* do.                                                                     *)

\* All three places of a line are of one player.
Full(b, line) == /\ b.objects[line[1]] # FREE
                 /\ \A p \in {2, 3} : b.objects[line[p]] = b.objects[line[1]]

\* Owner finds a full line if there is one, whichever of several it reports.
LEMMA OwnerOfFull ==
    ASSUME NEW b, NEW lines, DOMAIN lines \in {0..2, {0}}
    PROVE  Owner(b, lines) # FREE <=> \E k \in DOMAIN lines : Full(b, lines[k])
<1> DEFINE full == {k \in DOMAIN lines : Full(b, lines[k])}
<1>1. Owner(b, lines) = IF full = {} THEN FREE
                        ELSE LET last == CHOOSE k \in full : \A j \in full : j <= k
                             IN b.objects[lines[last][1]]
  BY DEF Owner, Full
<1>2. CASE full = {}
  BY <1>1, <1>2
<1>3. CASE full # {}
  <2>1. full \subseteq {0, 1, 2}
    OBVIOUS
  <2>2. \E k \in full : \A j \in full : j <= k
    <3>1. CASE 2 \in full  BY <3>1, <2>1
    <3>2. CASE 2 \notin full /\ 1 \in full  BY <3>2, <2>1
    <3>3. CASE 2 \notin full /\ 1 \notin full  BY <3>3, <2>1, <1>3
    <3> QED  BY <3>1, <3>2, <3>3
  <2> DEFINE last == CHOOSE k \in full : \A j \in full : j <= k
  <2>3. last \in full
    BY <2>2
  <2>4. b.objects[lines[last][1]] # FREE
    BY <2>3 DEF Full
  <2> QED  BY <1>1, <1>3, <2>3, <2>4
<1> QED  BY <1>2, <1>3

\* The lines of the rules are the eight that check_winner looks at.
EightLines == {{0, 3, 6}, {1, 4, 7}, {2, 5, 8}, {0, 1, 2}, {3, 4, 5}, {6, 7, 8},
               {0, 4, 8}, {2, 4, 6}}

\* The squares of the places, as numbers.
LEMMA Squares == \A p \in Positions : /\ p % 3 \in 0..2 /\ p \div 3 \in 0..2
                                      /\ p = 3 * (p \div 3) + (p % 3)
BY DEF Positions

LEMMA OnlyEightLines ==
    ASSUME NEW a \in Positions, NEW m \in Positions, NEW c \in Positions, InLine(a, m, c)
    PROVE  {a, m, c} \in EightLines
<1> a # c /\ (a % 3) + (c % 3) = 2 * (m % 3) /\ (a \div 3) + (c \div 3) = 2 * (m \div 3)
  BY DEF InLine, Square
<1>1. \/ a = 0 /\ m = 3 /\ c = 6
      \/ a = 6 /\ m = 3 /\ c = 0
      \/ a = 1 /\ m = 4 /\ c = 7
      \/ a = 7 /\ m = 4 /\ c = 1
      \/ a = 2 /\ m = 5 /\ c = 8
      \/ a = 8 /\ m = 5 /\ c = 2
      \/ a = 0 /\ m = 1 /\ c = 2
      \/ a = 2 /\ m = 1 /\ c = 0
      \/ a = 3 /\ m = 4 /\ c = 5
      \/ a = 5 /\ m = 4 /\ c = 3
      \/ a = 6 /\ m = 7 /\ c = 8
      \/ a = 8 /\ m = 7 /\ c = 6
      \/ a = 0 /\ m = 4 /\ c = 8
      \/ a = 8 /\ m = 4 /\ c = 0
      \/ a = 2 /\ m = 4 /\ c = 6
      \/ a = 6 /\ m = 4 /\ c = 2
  BY Squares DEF Positions
<1>2. \A x, y, z : {x, y, z} = {z, y, x}
  OBVIOUS
<1> QED  BY <1>1, <1>2 DEF EightLines

LEMMA AllEightLines ==
    ASSUME NEW line \in EightLines
    PROVE  \E a, m, c \in Positions : line = {a, m, c} /\ InLine(a, m, c)
<1>1. /\ InLine(0, 3, 6) /\ InLine(1, 4, 7) /\ InLine(2, 5, 8)
      /\ InLine(0, 1, 2) /\ InLine(3, 4, 5) /\ InLine(6, 7, 8)
      /\ InLine(0, 4, 8) /\ InLine(2, 4, 6)
  BY DEF InLine, Square
<1> QED  BY <1>1 DEF EightLines, Positions

LEMMA LinesAreEight ==
    ASSUME NEW b, NEW player
    PROVE  Won(b, player) <=> \E line \in EightLines : \A p \in line : b.objects[p] = player
<1>1. ASSUME Won(b, player)
      PROVE  \E line \in EightLines : \A p \in line : b.objects[p] = player
  <2>1. PICK a, m, c \in {p \in Positions : b.objects[p] = player} : InLine(a, m, c)
    BY <1>1 DEF Won
  <2>2. {a, m, c} \in EightLines
    BY <2>1, OnlyEightLines
  <2>3. \A p \in {a, m, c} : b.objects[p] = player
    BY <2>1
  <2> QED  BY <2>2, <2>3
<1>2. ASSUME NEW line \in EightLines, \A p \in line : b.objects[p] = player
      PROVE  Won(b, player)
  <2>1. PICK a, m, c \in Positions : line = {a, m, c} /\ InLine(a, m, c)
    BY AllEightLines
  <2> QED  BY <1>2, <2>1 DEF Won
<1> QED  BY <1>1, <1>2

\* The places of one player fill one of the eight lines.
Held(b, x, y, z) == b.objects[x] # FREE /\ b.objects[y] = b.objects[x] /\ b.objects[z] = b.objects[x]

SomeLineHeld(b) == \/ Held(b, 0, 3, 6) \/ Held(b, 1, 4, 7) \/ Held(b, 2, 5, 8)
                   \/ Held(b, 0, 1, 2) \/ Held(b, 3, 4, 5) \/ Held(b, 6, 7, 8)
                   \/ Held(b, 0, 4, 8) \/ Held(b, 2, 4, 6)

\* check_winner reports a winner exactly when one of the eight lines is full.
LEMMA WinnerIffHeld ==
    ASSUME NEW b \in Boards
    PROVE  check_winner(b) # FREE <=> SomeLineHeld(b)
<1>1. Owner(b, columns) # FREE <=> Held(b, 0, 3, 6) \/ Held(b, 1, 4, 7) \/ Held(b, 2, 5, 8)
  <2>1. DOMAIN columns = 0..2 /\ columns[0] = <<0, 3, 6>> /\ columns[1] = <<1, 4, 7>> /\ columns[2] = <<2, 5, 8>>
    BY DEF columns
  <2>2. (\E k \in 0..2 : Full(b, columns[k])) <=> Full(b, columns[0]) \/ Full(b, columns[1]) \/ Full(b, columns[2])
    OBVIOUS
  <2> QED  BY <2>1, <2>2, OwnerOfFull DEF Full, Held
<1>2. Owner(b, rows) # FREE <=> Held(b, 0, 1, 2) \/ Held(b, 3, 4, 5) \/ Held(b, 6, 7, 8)
  <2>1. DOMAIN rows = 0..2 /\ rows[0] = <<0, 1, 2>> /\ rows[1] = <<3, 4, 5>> /\ rows[2] = <<6, 7, 8>>
    BY DEF rows
  <2>2. (\E k \in 0..2 : Full(b, rows[k])) <=> Full(b, rows[0]) \/ Full(b, rows[1]) \/ Full(b, rows[2])
    OBVIOUS
  <2> QED  BY <2>1, <2>2, OwnerOfFull DEF Full, Held
<1>3. Owner(b, lower_diagonal) # FREE <=> Held(b, 0, 4, 8)
  BY OwnerOfFull DEF lower_diagonal, Full, Held
<1>4. Owner(b, upper_diagonal) # FREE <=> Held(b, 2, 4, 6)
  BY OwnerOfFull DEF upper_diagonal, Full, Held
<1> QED  BY <1>1, <1>2, <1>3, <1>4 DEF check_winner, SomeLineHeld

\* The rules say so too.
LEMMA WonIffHeld ==
    ASSUME NEW b \in Boards
    PROVE  Won(b, O) \/ Won(b, X) <=> SomeLineHeld(b)
<1> DEFINE Of(player, line) == \A p \in line : b.objects[p] = player
<1>1. \A p \in Positions : b.objects[p] \in {FREE, O, X}
  BY DEF Boards
<1>2. O # FREE /\ X # FREE
  BY DEF O, X, FREE
<1>3. \A x, y, z \in Positions : Held(b, x, y, z) <=> Of(O, {x, y, z}) \/ Of(X, {x, y, z})
  BY <1>1, <1>2 DEF Held
<1>4. \A player : Won(b, player) <=> \/ Of(player, {0, 3, 6}) \/ Of(player, {1, 4, 7}) \/ Of(player, {2, 5, 8})
                                    \/ Of(player, {0, 1, 2}) \/ Of(player, {3, 4, 5}) \/ Of(player, {6, 7, 8})
                                    \/ Of(player, {0, 4, 8}) \/ Of(player, {2, 4, 6})
  BY LinesAreEight DEF EightLines
<1>5. {0, 1, 2, 3, 4, 5, 6, 7, 8} \subseteq Positions
  BY DEF Positions
<1> HIDE DEF Of
<1> QED  BY <1>3, <1>4, <1>5 DEF SomeLineHeld

\* Whatever is typed or received, new_board and move stay within these boards.
LEMMA MovesStayBoards == new_board \in Boards /\ \A b \in Boards : \A p : move(b, p) \in Boards
BY DEF Boards, new_board, move, CanMove, O, X, FREE

\* check_game ends the game on exactly the boards that the rules call finished, whichever
\* moves led there.
THEOREM RulesKept == \A b \in Boards : GameOver(b) <=> Finished(b)
<1> SUFFICES ASSUME NEW b \in Boards  PROVE GameOver(b) <=> Finished(b)
  OBVIOUS
<1>1. (\A p \in Positions : b.objects[p] # FREE) <=> \A p \in Positions : b.objects[p] \in {O, X}
  BY DEF Boards, O, X, FREE
<1> QED  BY <1>1, WinnerIffHeld, WonIffHeld DEF GameOver, Finished
-----------------------------------------------------------------------------
(* The invariant.                                                          *)

Senders == Clients \cup {NULL}
Args == Positions \cup {"O", "X", "no_enemy", "name_taken"}
Messages == [command : {"add", "move", "quit", "ping", "pong", "nothing"}, arg : Args,
             from : Senders]
States == {"GAME_STARTING", "WAITING", "MOVE", "OPPONENT_MOVE", "WAITING_FOR_MOVE", "QUIT"}

Types ==
    /\ clients \in [Slots -> Clients \cup {NULL}] /\ clients_count \in Int
    /\ to_client \in [Clients -> Seq(Messages)] /\ inbox \in [Sockets -> Seq(Messages)]
    /\ message \in Messages
    /\ exited \in [Clients -> BOOLEAN] /\ told \in [Clients -> Clients \cup {NULL}]
    /\ phase \in [Clients -> {"absent", "new", "running", "gone"}]
    /\ play \in [Clients -> {"none", "top", "store"}]
    /\ state \in [Clients -> States] /\ stored \in [Clients -> States]
    /\ arg \in [Clients -> Args]
    /\ board \in [Clients -> Boards] /\ is_client_O \in [Clients -> BOOLEAN]

\* A client is told once whom it plays, after at most one other answer, and before any move.
ToldOnce(q, t) ==
    /\ \A j, k \in StartsIn(q) : j = k
    /\ t # NULL => StartsIn(q) = {}
    /\ \A k \in DOMAIN q :
         /\ q[k].command \in {"add", "move", "ping", "quit"}
         /\ IsStart(q[k]) => q[k].from \in Clients
         /\ q[k].command = "add" /\ ~IsStart(q[k]) =>
              /\ q[k].arg \in {"no_enemy", "name_taken"} /\ q[k].from = NULL
              /\ k = 1 /\ t = NULL
         /\ q[k].command = "move" => /\ q[k].arg \in Positions
                                     /\ t # NULL \/ \E j \in StartsIn(q) : j < k

ToldOnceEach == \A c \in Clients : ToldOnce(to_client[c], told[c])

\* A message to the server is from a client that has started; only one that plays moves.
FromClient(m, in, rival) ==
    /\ m.command \in {"add", "move", "quit", "pong"}
    /\ m.from \in Clients /\ in[m.from] \in {"running", "gone"}
    /\ m.command = "move" => m.arg \in Positions /\ rival[m.from] # NULL

ServerMail ==
    /\ message = Nothing \/ FromClient(message, phase, told)
    /\ \A s \in Sockets : \A k \in DOMAIN inbox[s] :
         FromClient(inbox[s][k], phase, told) /\ SocketOf(inbox[s][k].from) = s

\* Until the server has handled its "add", of which there is one, a client is unheard of.
Joins(m, c) == m.command = "add" /\ m.from = c
Unheard(c) ==
    /\ \A i \in Slots : clients[i] # c
    /\ to_client[c] = <<>> /\ told[c] = NULL /\ play[c] = "none"

JoinsBy(c) ==
    /\ phase[c] \in {"absent", "new"} => Unheard(c)
    /\ Joins(message, c) => Unheard(c)
    /\ \A k \in DOMAIN inbox[SocketOf(c)] : Joins(inbox[SocketOf(c)][k], c) =>
         /\ Unheard(c) /\ ~Joins(message, c)
         /\ \A j \in DOMAIN inbox[SocketOf(c)] : Joins(inbox[SocketOf(c)][j], c) => j = k

JoinsOnce == \A c \in Clients : JoinsBy(c)

\* The states of a client before it is told whom it plays, and after.
Untold(c) ==
    \/ play[c] = "none" /\ state[c] = "GAME_STARTING"
    \/ play[c] = "top" /\ state[c] = "GAME_STARTING" /\ arg[c] \in {"name_taken", "no_enemy"}
    \/ play[c] = "store" /\ stored[c] = "WAITING" /\ state[c] = "GAME_STARTING"
    \/ play[c] = "top" /\ state[c] = "WAITING"
Plays(c) ==
    \/ play[c] = "top" /\ state[c] = "GAME_STARTING" /\ arg[c] \in {"O", "X"}
    \/ /\ play[c] = "store" /\ stored[c] \in {"MOVE", "WAITING_FOR_MOVE"}
       /\ state[c] \in {"GAME_STARTING", "OPPONENT_MOVE", "MOVE"}
    \/ play[c] = "top" /\ state[c] = "OPPONENT_MOVE" /\ arg[c] \in Positions
    \/ play[c] = "top" /\ state[c] \in {"MOVE", "WAITING_FOR_MOVE", "QUIT"}

StateOf(c) == /\ exited[c] <=> phase[c] = "gone"
              /\ phase[c] # "gone" => IF told[c] = NULL THEN Untold(c) ELSE Plays(c)
ClientStates == \A c \in Clients : StateOf(c)

\* Whether a client is O, also if it has not read that, or not set up its board, yet.
SignO(c) ==
    IF StartsIn(to_client[c]) # {} THEN to_client[c][First(StartsIn(to_client[c]))].arg = "O"
    ELSE IF AtTop(c, "GAME_STARTING") THEN arg[c] = "O" ELSE is_client_O[c]

\* Two that play know each other, and one of them is O.
Mutual ==
    \A c, d \in Clients :
        Rivals[c] = d /\ ~exited[c] /\ ~exited[d] => Rivals[d] = c /\ SignO(d) = ~SignO(c)

\* The moves in a queue that are of these senders.
IsMove(m, S) == m.command = "move" /\ m.from \in S
NoMoves(q, S) == \A k \in DOMAIN q : ~IsMove(q[k], S)
OneMove(q, S, p) == \E k \in DOMAIN q : /\ \A j \in DOMAIN q : IsMove(q[j], S) <=> j = k
                                        /\ q[k].arg = p

\* No move has been sent from d to c that c has not received, or one.
NoneSent(d, c) == /\ NoMoves(inbox[SocketOf(d)], {d}) /\ ~IsMove(message, {d})
                  /\ NoMoves(to_client[c], Senders)
OneSent(d, c, p) ==
    \/ /\ OneMove(inbox[SocketOf(d)], {d}, p) /\ ~IsMove(message, {d})
       /\ NoMoves(to_client[c], Senders)
    \/ /\ NoMoves(inbox[SocketOf(d)], {d}) /\ IsMove(message, {d}) /\ message.arg = p
       /\ NoMoves(to_client[c], Senders)
    \/ /\ NoMoves(inbox[SocketOf(d)], {d}) /\ ~IsMove(message, {d})
       /\ OneMove(to_client[c], Senders, p)

\* Where a player is in its game, and where it has to be when nothing is under way.
Mode(c) == IF ~HasBoard(c) THEN "none" ELSE IF play[c] = "store" THEN stored[c] ELSE state[c]
ModeAt(b, c) == IF GameOver(b) THEN "QUIT"
                ELSE IF (b.move = 1) = SignO(c) THEN "MOVE" ELSE "WAITING_FOR_MOVE"

Quiet(c, d) ==
    /\ NoneSent(c, d) /\ NoneSent(d, c) /\ Board(c) = Board(d)
    /\ Mode(c) \in {"none", ModeAt(Board(c), c)} /\ Mode(d) \in {"none", ModeAt(Board(d), d)}

\* d has made the move p and c has not.
Ahead(d, c, p) ==
    /\ NoneSent(c, d)
    /\ \/ OneSent(d, c, p) /\ Mode(c) \in {"none", "WAITING_FOR_MOVE"}
       \/ NoneSent(d, c) /\ Mode(c) = "OPPONENT_MOVE" /\ arg[c] = p
    /\ CanMove(Board(c), p) /\ Board(d) = move(Board(c), p)
    /\ ~GameOver(Board(c)) /\ (Board(c).move = 1) = SignO(d)
    /\ Mode(d) = ModeAt(Board(d), d)

Match(c, d) == Quiet(c, d) \/ \E p \in Positions : Ahead(d, c, p) \/ Ahead(c, d, p)

\* The client is there, and nobody else of its name has played or gone.
OnItsOwn(c) == phase[c] = "running" /\ OwnName(c)
GamesMatch == \A c, d \in Clients : Rivals[c] = d /\ OnItsOwn(c) /\ OnItsOwn(d) => Match(c, d)

Core == /\ Types /\ TableIsSound /\ Pairs /\ ToldOnceEach /\ ServerMail /\ JoinsOnce
        /\ ClientStates /\ Mutual /\ GamesMatch

IInv == up /\ ~raced => Core
-----------------------------------------------------------------------------
(* What the invariant says of the properties.                              *)

LEMMA RivalIs == \A c \in Clients : RivalOf(c) = Rivals[c]
BY DEF RivalOf, Starts, Rivals, Rival, StartsIn, IsStart

LEMMA RivalBecomes == \A c \in Clients : RivalOf(c)' = Rivals'[c]
BY DEF RivalOf, Starts, Rivals, Rival, StartsIn, IsStart

\* Who shares a name has neither played nor gone.
Played(e) == Rivals[e] # NULL \/ phase[e] = "gone"

LEMMA OwnNameIs ==
    /\ \A c \in Clients : OwnName(c) <=> \A e \in Clients : Name(e) = Name(c) /\ Played(e) => e = c
    /\ \A c \in Clients : OwnName(c)' <=> \A e \in Clients : Name(e) = Name(c) /\ Played(e)' => e = c
BY RivalIs, RivalBecomes DEF OwnName, Played

LEMMA BoardsAreBoards ==
    ASSUME Types, NEW c \in Clients
    PROVE  Board(c) \in Boards
BY MovesStayBoards DEF Types, Board

LEMMA MessagesInSeq ==
    ASSUME NEW q \in Seq(Messages)
    PROVE  \A k \in DOMAIN q : q[k] \in Messages /\ q[k].from \in Senders /\ q[k].arg \in Args
<1>1. \A k \in DOMAIN q : q[k] \in Messages
    BY ElementOfSeq, LenProperties
<1> QED BY <1>1 DEF Messages

LEMMA NothingUnderWay ==
    ASSUME Types, NEW c \in Clients, NEW d \in Clients, NoneSent(d, c), ~AtTop(c, "OPPONENT_MOVE")
    PROVE  UnderWay(d, c) = {}
<1>1. \A k \in DOMAIN to_client[c] : to_client[c][k].command # "move"
  <2>1. to_client[c] \in Seq(Messages)
      BY DEF Types
  <2>2. \A k \in DOMAIN to_client[c] : to_client[c][k].from \in Senders
      BY <2>1, MessagesInSeq
  <2> QED BY <2>2 DEF NoneSent, NoMoves, IsMove
<1>2. \A k \in DOMAIN inbox[SocketOf(d)] : ~(inbox[SocketOf(d)][k].command = "move" /\ inbox[SocketOf(d)][k].from = d)
    BY DEF NoneSent, NoMoves, IsMove
<1>3. DOMAIN <<message>> = {1} /\ <<message>>[1] = message
    OBVIOUS
<1>4. ~(message.command = "move" /\ message.from = d)
    BY DEF NoneSent, IsMove
<1> QED BY <1>1, <1>2, <1>3, <1>4 DEF UnderWay

LEMMA OneUnderWay ==
    ASSUME Types, NEW c \in Clients, NEW d \in Clients, NEW p,
           \/ OneSent(d, c, p) /\ ~AtTop(c, "OPPONENT_MOVE")
           \/ NoneSent(d, c) /\ AtTop(c, "OPPONENT_MOVE") /\ arg[c] = p
    PROVE  \E m \in UnderWay(d, c) : UnderWay(d, c) = {m} /\ m[3] = p
<1> DEFINE q == to_client[c]
           r == inbox[SocketOf(d)]
           noted == IF AtTop(c, "OPPONENT_MOVE") THEN {<<"noted", 1, arg[c]>>} ELSE {}
           to == {<<"to_client", k, q[k].arg>> : k \in {j \in DOMAIN q : q[j].command = "move"}}
           hand == {<<"message", k, <<message>>[k].arg>> :
                        k \in {j \in DOMAIN <<message>> : <<message>>[j].command = "move" /\ <<message>>[j].from = d}}
           from == {<<"inbox", k, r[k].arg>> : k \in {j \in DOMAIN r : r[j].command = "move" /\ r[j].from = d}}
<1>1. UnderWay(d, c) = noted \cup to \cup hand \cup from
    BY DEF UnderWay
<1>2. \A k \in DOMAIN q : IsMove(q[k], Senders) <=> q[k].command = "move"
  <2>1. q \in Seq(Messages)
      BY DEF Types
  <2>2. \A k \in DOMAIN q : q[k].from \in Senders
      BY <2>1, MessagesInSeq
  <2> QED BY <2>2 DEF IsMove
<1>3. \A k \in DOMAIN r : IsMove(r[k], {d}) <=> (r[k].command = "move" /\ r[k].from = d)
    BY DEF IsMove
<1>4. DOMAIN <<message>> = {1} /\ <<message>>[1] = message
    OBVIOUS
<1>5. /\ NoMoves(q, Senders) => to = {}
      /\ NoMoves(r, {d}) => from = {}
      /\ ~IsMove(message, {d}) => hand = {}
      /\ IsMove(message, {d}) => hand = {<<"message", 1, message.arg>>}
    BY <1>2, <1>3, <1>4 DEF NoMoves, IsMove
<1>6. ASSUME OneMove(q, Senders, p)
      PROVE  \E k : to = {<<"to_client", k, p>>}
    BY <1>2, <1>6 DEF OneMove
<1>7. ASSUME OneMove(r, {d}, p)
      PROVE  \E k : from = {<<"inbox", k, p>>}
    BY <1>3, <1>7 DEF OneMove
<1>8. \E x, k : noted \cup to \cup hand \cup from = {<<x, k, p>>}
  <2> HIDE DEF to, hand, from
  <2>1. CASE NoneSent(d, c) /\ AtTop(c, "OPPONENT_MOVE") /\ arg[c] = p
    <3>1. to = {} /\ hand = {} /\ from = {} /\ noted = {<<"noted", 1, p>>}
        BY <2>1, <1>5 DEF NoneSent
    <3> QED BY <3>1
  <2>2. CASE OneSent(d, c, p) /\ ~AtTop(c, "OPPONENT_MOVE")
    <3>0. noted = {}
        BY <2>2
    <3> HIDE DEF noted
    <3>1. CASE OneMove(r, {d}, p) /\ ~IsMove(message, {d}) /\ NoMoves(q, Senders)
        BY <3>0, <3>1, <1>5, <1>7
    <3>2. CASE NoMoves(r, {d}) /\ IsMove(message, {d}) /\ message.arg = p /\ NoMoves(q, Senders)
        BY <3>0, <3>2, <1>5
    <3>3. CASE NoMoves(r, {d}) /\ ~IsMove(message, {d}) /\ OneMove(q, Senders, p)
        BY <3>0, <3>3, <1>5, <1>6
    <3> QED BY <2>2, <3>1, <3>2, <3>3 DEF OneSent
  <2> QED BY <2>1, <2>2
<1>9. \A x, k : <<x, k, p>>[3] = p
    OBVIOUS
<1> HIDE DEF noted, to, hand, from
<1> QED BY <1>1, <1>8, <1>9

\* Quiet and Ahead, seen from the other side.
LEMMA MatchIsMutual ==
    ASSUME NEW c, NEW d, Match(c, d)
    PROVE  Match(d, c)
BY DEF Match, Quiet

LEMMA InGameMatches ==
    ASSUME Core, NEW c \in Clients, NEW d \in Clients, InGame(c, d)
    PROVE  Match(c, d) /\ Rivals[c] = d /\ told[c] # NULL /\ StartsIn(to_client[c]) = {} /\ Plays(c)
<1>1. Rivals[c] = d /\ OnItsOwn(c) /\ OnItsOwn(d) /\ HasBoard(c) /\ phase[c] = "running"
    BY RivalIs DEF InGame, OnItsOwn
<1>2. told[c] # NULL
    BY <1>1 DEF Core, ClientStates, StateOf, Untold, HasBoard, AtTop
<1>3. StartsIn(to_client[c]) = {}
    BY <1>2 DEF Core, ToldOnceEach, ToldOnce
<1> QED BY <1>1, <1>2, <1>3 DEF Core, GamesMatch, ClientStates, StateOf

LEMMA CoreAgrees == Core => BoardsAgree
<1> SUFFICES ASSUME Core, NEW c \in Clients, NEW d \in Clients, InGame(c, d)
             PROVE  AheadByAtMostOne(c, d) \/ AheadByAtMostOne(d, c)
    BY DEF BoardsAgree
<1>1. Match(c, d) /\ Types
    BY InGameMatches DEF Core
<1>2. \A e \in Clients : AtTop(e, "OPPONENT_MOVE") => Mode(e) = "OPPONENT_MOVE"
    BY DEF AtTop, Mode, HasBoard
<1>3. \A e \in Clients : Mode(e) = "OPPONENT_MOVE" /\ phase[e] = "running" /\ Plays(e) => AtTop(e, "OPPONENT_MOVE")
    BY DEF AtTop, Mode, HasBoard, Plays, Types
<1>4. ASSUME NEW e \in Clients, NEW f \in Clients, NEW p, Ahead(f, e, p), phase[e] = "running", phase[f] = "running"
      PROVE  AheadByAtMostOne(f, e)
  <2>1. ~AtTop(f, "OPPONENT_MOVE")
      BY <1>2, <1>4 DEF Ahead, ModeAt
  <2>2. UnderWay(e, f) = {}
      BY <1>1, <1>4, <2>1, NothingUnderWay DEF Ahead
  <2>3. \/ OneSent(f, e, p) /\ ~AtTop(e, "OPPONENT_MOVE")
        \/ NoneSent(f, e) /\ AtTop(e, "OPPONENT_MOVE") /\ arg[e] = p
    <3>1. CASE OneSent(f, e, p) /\ Mode(e) \in {"none", "WAITING_FOR_MOVE"}
        BY <3>1, <1>2
    <3>2. CASE NoneSent(f, e) /\ Mode(e) = "OPPONENT_MOVE" /\ arg[e] = p
      <4>1. HasBoard(e)
          BY <3>2 DEF Mode
      <4>2. told[e] # NULL
          BY <4>1, <1>4 DEF Core, ClientStates, StateOf, Untold, HasBoard, AtTop
      <4>3. Plays(e)
          BY <4>2, <1>4 DEF Core, ClientStates, StateOf
      <4> QED BY <3>2, <4>3, <1>3, <1>4
    <3> QED BY <1>4, <3>1, <3>2 DEF Ahead
  <2>4. \E m \in UnderWay(f, e) : UnderWay(f, e) = {m} /\ m[3] = p
      BY <1>1, <2>3, OneUnderWay
  <2> QED BY <2>2, <2>4, <1>4 DEF AheadByAtMostOne, Ahead
<1>5. ASSUME Quiet(c, d)
      PROVE  AheadByAtMostOne(d, c)
  <2>1. ~AtTop(c, "OPPONENT_MOVE") /\ ~AtTop(d, "OPPONENT_MOVE")
      BY <1>2, <1>5 DEF Quiet, ModeAt
  <2>2. UnderWay(c, d) = {} /\ UnderWay(d, c) = {}
      BY <1>1, <1>5, <2>1, NothingUnderWay DEF Quiet
  <2> QED BY <2>2, <1>5 DEF AheadByAtMostOne, Quiet
<1> QED BY <1>1, <1>4, <1>5 DEF Match, InGame

LEMMA CoreTakesTurns == Core => PlayersTakeTurns
<1> SUFFICES ASSUME Core, NEW c \in Clients, NEW d \in Clients, InGame(c, d), ToMove(c)
             PROVE  (board[c].move = 1) = is_client_O[c] /\ ~ToMove(d) /\ UnderWay(d, c) = {}
    BY DEF PlayersTakeTurns
<1>1. /\ Match(c, d) /\ Rivals[c] = d /\ told[c] # NULL /\ StartsIn(to_client[c]) = {}
      /\ Types /\ HasBoard(c) /\ phase[c] = "running" /\ phase[d] = "running"
    BY InGameMatches DEF Core, InGame
<1>2. Mode(c) = "MOVE" /\ ~AtTop(c, "OPPONENT_MOVE")
    BY <1>1 DEF Mode, ToMove, AtTop
<1>3. Quiet(c, d) /\ Mode(c) = ModeAt(Board(c), c)
  <2>1. ASSUME NEW p, Ahead(d, c, p)
        PROVE  FALSE
      BY <1>2, <2>1 DEF Ahead
  <2>2. ASSUME NEW p, Ahead(c, d, p)
        PROVE  FALSE
    <3>1. /\ ModeAt(Board(c), c) = "MOVE" /\ Board(c) = move(Board(d), p) /\ CanMove(Board(d), p)
          /\ (Board(d).move = 1) = SignO(c) /\ Board(d) \in Boards
        BY <1>1, <1>2, <2>2, BoardsAreBoards DEF Ahead
    <3>2. (Board(c).move = 1) = SignO(c)
        BY <3>1 DEF ModeAt
    <3>3. Board(c).move = 1 - Board(d).move /\ Board(d).move \in {0, 1}
        BY <3>1 DEF move, Boards
    <3> QED BY <3>1, <3>2, <3>3
  <2> QED BY <1>1, <1>2, <2>1, <2>2 DEF Match, Quiet
<1>4. ~GameOver(Board(c)) /\ (Board(c).move = 1) = SignO(c)
    BY <1>2, <1>3 DEF ModeAt
<1>5. SignO(c) = is_client_O[c] /\ Board(c) = board[c]
    BY <1>1 DEF SignO, HasBoard, Board
<1>6. SignO(d) = ~SignO(c)
  <2>1. ~exited[c] /\ ~exited[d]
      BY <1>1 DEF Core, ClientStates, StateOf
  <2> QED BY <1>1, <2>1 DEF Core, Mutual
<1>7. Mode(d) # "MOVE"
  <2>1. Board(d) = Board(c) /\ Mode(d) \in {"none", ModeAt(Board(d), d)}
      BY <1>3 DEF Quiet
  <2> QED BY <2>1, <1>4, <1>6 DEF ModeAt
<1>8. ~ToMove(d)
    BY <1>7, <1>1 DEF ToMove, Mode, HasBoard, AtTop, Core, ClientStates, StateOf, Untold, Plays
<1>9. UnderWay(d, c) = {}
    BY <1>1, <1>2, <1>3, NothingUnderWay DEF Quiet
<1> QED BY <1>4, <1>5, <1>8, <1>9

LEMMA CoreEnds == Core => EndsWithTheGame
<1> SUFFICES ASSUME Core, NEW c \in Clients, NEW d \in Clients, InGame(c, d)
             PROVE  state[c] = "QUIT" <=> Finished(board[c])
    BY DEF EndsWithTheGame
<1>1. Match(c, d) /\ Types /\ HasBoard(c) /\ Plays(c)
    BY InGameMatches DEF Core, InGame
<1>2. state[c] = "QUIT" <=> Mode(c) = "QUIT"
    BY <1>1 DEF Mode, HasBoard, AtTop, Plays
<1>3. Mode(c) # "none"
    BY <1>1 DEF Mode, HasBoard, Plays
<1>4. Mode(c) = "QUIT" <=> GameOver(Board(c))
    BY <1>1, <1>3 DEF Match, Quiet, Ahead, ModeAt
<1>5. Board(c) = board[c] /\ board[c] \in Boards
    BY <1>1 DEF Board, Types
<1> QED BY <1>2, <1>4, <1>5, RulesKept
-----------------------------------------------------------------------------
(* Queues with a message more, or less.                                    *)

\* The message that starts the game of a client.
StartOf(q) == q[First(StartsIn(q))]

LEMMA Appended ==
    ASSUME NEW q \in Seq(Messages), NEW m \in Messages
    PROVE  /\ Append(q, m) \in Seq(Messages) /\ Len(q) \in Nat
           /\ DOMAIN Append(q, m) = DOMAIN q \cup {Len(q) + 1}
           /\ \A k \in DOMAIN q : Append(q, m)[k] = q[k] /\ k \in Nat /\ k < Len(q) + 1
           /\ Append(q, m)[Len(q) + 1] = m
BY AppendProperties, LenProperties

LEMMA AppendOther ==
    ASSUME NEW q \in Seq(Messages), NEW m \in Messages, ~IsStart(m), NEW t
    PROVE  /\ StartsIn(Append(q, m)) = StartsIn(q)
           /\ StartsIn(q) # {} => StartOf(Append(q, m)) = StartOf(q)
           /\ Rival(Append(q, m), t) = Rival(q, t)
<1>1. StartsIn(Append(q, m)) = StartsIn(q)
    BY Appended DEF StartsIn
<1>2. StartsIn(q) # {} => First(StartsIn(q)) \in DOMAIN q
    BY StartsArePlaces
<1> QED BY <1>1, <1>2, Appended DEF StartOf, Rival

LEMMA AppendNotice ==
    ASSUME NEW q \in Seq(Messages), NEW m \in Messages, NEW t, ToldOnce(q, t),
           m.command \in {"ping", "quit"}
    PROVE  ToldOnce(Append(q, m), t)
<1>1. ~IsStart(m)
    BY DEF IsStart
<1>2. StartsIn(Append(q, m)) = StartsIn(q)
    BY <1>1, AppendOther
<1> QED BY <1>1, <1>2, Appended DEF ToldOnce

LEMMA AppendMove ==
    ASSUME NEW q \in Seq(Messages), NEW m \in Messages, NEW t, ToldOnce(q, t),
           m.command = "move", m.arg \in Positions, Rival(q, t) # NULL
    PROVE  ToldOnce(Append(q, m), t)
<1>1. ~IsStart(m)
    BY DEF IsStart
<1>2. StartsIn(Append(q, m)) = StartsIn(q)
    BY <1>1, AppendOther
<1>3. t # NULL \/ \E j \in StartsIn(q) : j < Len(q) + 1
  <2>1. CASE StartsIn(q) = {}
      BY <2>1 DEF Rival
  <2>2. CASE StartsIn(q) # {}
    <3>1. PICK j \in StartsIn(q) : TRUE
        BY <2>2
    <3>2. j \in DOMAIN q
        BY <3>1 DEF StartsIn
    <3> QED BY <3>1, <3>2, Appended
  <2> QED BY <2>1, <2>2
<1> QED BY <1>1, <1>2, <1>3, Appended DEF ToldOnce

LEMMA AppendStart ==
    ASSUME NEW q \in Seq(Messages), NEW m \in Messages, NEW t, ToldOnce(q, t),
           IsStart(m), m.from \in Clients, Rival(q, t) = NULL
    PROVE  /\ ToldOnce(Append(q, m), t) /\ Rival(Append(q, m), t) = m.from
           /\ StartsIn(Append(q, m)) # {} /\ StartOf(Append(q, m)) = m
           /\ t = NULL /\ \A k \in DOMAIN Append(q, m) : Append(q, m)[k].command # "move"
<1>1. StartsIn(q) = {} /\ t = NULL
  <2>1. StartsIn(q) # {} => First(StartsIn(q)) \in StartsIn(q)
      BY StartsArePlaces
  <2> QED BY <2>1, GameServerAssumption DEF Rival, ToldOnce, StartsIn
<1>2. StartsIn(Append(q, m)) = {Len(q) + 1}
    BY <1>1, Appended DEF StartsIn
<1>3. StartOf(Append(q, m)) = m /\ Rival(Append(q, m), t) = m.from
    BY <1>2, Appended, FirstOfOne DEF Rival, StartOf
<1>4. m.command = "add"
    BY DEF IsStart
<1>5. \A k \in DOMAIN q : q[k].command # "move"
    BY <1>1 DEF ToldOnce
<1> QED BY <1>1, <1>2, <1>3, <1>4, <1>5, Appended DEF ToldOnce

\* The first answer to a client that cannot play yet.
LEMMA FirstAnswer ==
    ASSUME NEW m \in Messages, m.command = "add", m.arg \in {"no_enemy", "name_taken"}, m.from = NULL
    PROVE  /\ ToldOnce(Append(<<>>, m), NULL) /\ Rival(Append(<<>>, m), NULL) = NULL
           /\ StartsIn(Append(<<>>, m)) = {} /\ Append(<<>>, m) \in Seq(Messages)
<1>1. ~IsStart(m) /\ m.command # "move"
    BY DEF IsStart
<1>2. DOMAIN Append(<<>>, m) = {1} /\ Append(<<>>, m)[1] = m
    OBVIOUS
<1>3. StartsIn(Append(<<>>, m)) = {}
    BY <1>1, <1>2 DEF StartsIn
<1> QED BY <1>1, <1>2, <1>3 DEF ToldOnce, Rival

LEMMA Rest ==
    ASSUME NEW q \in Seq(Messages), q # <<>>
    PROVE  /\ Len(q) \in Nat /\ DOMAIN q = 1..Len(q) /\ Len(q) > 0
           /\ Head(q) = q[1] /\ Head(q) \in Messages
           /\ Tail(q) \in Seq(Messages) /\ DOMAIN Tail(q) = 1..(Len(q) - 1)
           /\ \A k \in 1..(Len(q) - 1) : Tail(q)[k] = q[k + 1]
BY HeadTailProperties, LenProperties, EmptySeq, ElementOfSeq

LEMMA TailOther ==
    ASSUME NEW q \in Seq(Messages), q # <<>>, NEW t, ToldOnce(q, t), ~IsStart(Head(q))
    PROVE  /\ ToldOnce(Tail(q), t) /\ Rival(Tail(q), t) = Rival(q, t)
           /\ StartsIn(Tail(q)) = {} <=> StartsIn(q) = {}
           /\ StartsIn(q) # {} => StartOf(Tail(q)) = StartOf(q)
<1>1. StartsIn(Tail(q)) = {k \in 1..(Len(q) - 1) : k + 1 \in StartsIn(q)}
    BY Rest DEF StartsIn
<1>2. 1 \notin StartsIn(q)
    BY Rest DEF StartsIn
<1>3. CASE StartsIn(q) = {}
  <2>1. StartsIn(Tail(q)) = {}
      BY <1>1, <1>3
  <2> QED BY <1>3, <2>1, Rest DEF ToldOnce, Rival
<1>4. CASE StartsIn(q) # {}
  <2>1. PICK k \in StartsIn(q) : StartsIn(q) = {k}
      BY <1>4 DEF ToldOnce
  <2>2. k \in 1..Len(q) /\ k # 1
      BY <2>1, <1>2, Rest DEF StartsIn
  <2>3. StartsIn(Tail(q)) = {k - 1} /\ k - 1 \in 1..(Len(q) - 1)
      BY <2>1, <2>2, <1>1, Rest
  <2>4. StartOf(q) = q[k] /\ StartOf(Tail(q)) = q[k]
    <3>1. First({k}) = k /\ First({k - 1}) = k - 1 /\ Tail(q)[k - 1] = q[k]
        BY <2>2, <2>3, Rest, FirstOfOne
    <3> QED BY <3>1, <2>1, <2>3 DEF StartOf
  <2>5. t = NULL
      BY <1>4 DEF ToldOnce
  <2>6. ToldOnce(Tail(q), t)
    <3>1. ASSUME NEW j \in DOMAIN Tail(q)
          PROVE  Tail(q)[j] = q[j + 1] /\ j + 1 \in DOMAIN q /\ j + 1 # 1 /\ j \in Nat
        BY Rest
    <3>2. ASSUME NEW j \in DOMAIN Tail(q), Tail(q)[j].command = "move"
          PROVE  \E i \in StartsIn(Tail(q)) : i < j
      <4>1. \E i \in StartsIn(q) : i < j + 1
          BY <3>1, <3>2, <2>5 DEF ToldOnce
      <4>2. k - 1 < j
          BY <4>1, <2>1, <2>2, <3>1
      <4> QED BY <4>2, <2>3
    <3> QED BY <2>3, <2>5, <3>1, <3>2 DEF ToldOnce
  <2>7. Rival(Tail(q), t) = Rival(q, t)
      BY <1>4, <2>3, <2>4 DEF Rival, StartOf
  <2> QED BY <1>4, <2>3, <2>4, <2>6, <2>7
<1> QED BY <1>3, <1>4

LEMMA TailStart ==
    ASSUME NEW q \in Seq(Messages), q # <<>>, NEW t, ToldOnce(q, t), IsStart(Head(q))
    PROVE  /\ ToldOnce(Tail(q), Head(q).from) /\ Rival(Tail(q), Head(q).from) = Rival(q, t)
           /\ StartsIn(Tail(q)) = {} /\ StartsIn(q) # {} /\ StartOf(q) = Head(q)
           /\ Head(q).from \in Clients /\ t = NULL
<1>1. StartsIn(q) = {1}
    BY Rest DEF StartsIn, ToldOnce
<1>2. StartsIn(Tail(q)) = {}
    BY <1>1, Rest DEF StartsIn
<1>3. StartOf(q) = Head(q) /\ Head(q).from \in Clients /\ t = NULL
    BY <1>1, Rest, FirstOfOne DEF StartOf, ToldOnce
<1>4. Rival(q, t) = Head(q).from /\ Rival(Tail(q), Head(q).from) = Head(q).from
    BY <1>1, <1>2, <1>3 DEF Rival, StartOf
<1>5. ToldOnce(Tail(q), Head(q).from)
  <2>1. Head(q).from # NULL
      BY <1>3, GameServerAssumption
  <2>2. \A k \in DOMAIN Tail(q) : Tail(q)[k] = q[k + 1] /\ k + 1 \in DOMAIN q /\ k + 1 # 1
      BY Rest
  <2>3. \A k \in DOMAIN Tail(q) : ~IsStart(Tail(q)[k])
      BY <1>2 DEF StartsIn
  <2> QED BY <1>2, <2>1, <2>2, <2>3 DEF ToldOnce
<1> QED BY <1>1, <1>2, <1>3, <1>4, <1>5

LEMMA AppendKeepsMoves ==
    ASSUME NEW q \in Seq(Messages), NEW m \in Messages, NEW S, ~IsMove(m, S)
    PROVE  /\ NoMoves(q, S) => NoMoves(Append(q, m), S)
           /\ \A p : OneMove(q, S, p) => OneMove(Append(q, m), S, p)
BY Appended DEF NoMoves, OneMove

LEMMA AppendAddsMove ==
    ASSUME NEW q \in Seq(Messages), NEW m \in Messages, NEW S, IsMove(m, S), NoMoves(q, S)
    PROVE  OneMove(Append(q, m), S, m.arg)
BY Appended DEF NoMoves, OneMove

LEMMA TailKeepsMoves ==
    ASSUME NEW q \in Seq(Messages), q # <<>>, NEW S
    PROVE  /\ NoMoves(q, S) => NoMoves(Tail(q), S) /\ ~IsMove(Head(q), S)
           /\ \A p : OneMove(q, S, p) =>
                IF IsMove(Head(q), S) THEN NoMoves(Tail(q), S) /\ Head(q).arg = p
                ELSE OneMove(Tail(q), S, p)
<1>1. NoMoves(q, S) => NoMoves(Tail(q), S) /\ ~IsMove(Head(q), S)
    BY Rest DEF NoMoves
<1>2. ASSUME NEW p, OneMove(q, S, p)
      PROVE  IF IsMove(Head(q), S) THEN NoMoves(Tail(q), S) /\ Head(q).arg = p
             ELSE OneMove(Tail(q), S, p)
  <2>1. PICK k \in DOMAIN q : q[k].arg = p /\ \A j \in DOMAIN q : IsMove(q[j], S) <=> j = k
      BY <1>2 DEF OneMove
  <2>2. \A j \in 1..(Len(q) - 1) : IsMove(Tail(q)[j], S) <=> j + 1 = k
      BY <2>1, Rest
  <2>3. CASE k = 1
    <3>1. IsMove(Head(q), S) /\ Head(q).arg = p
        BY <2>1, <2>3, Rest
    <3>2. NoMoves(Tail(q), S)
        BY <2>2, <2>3, Rest DEF NoMoves
    <3> QED BY <3>1, <3>2
  <2>4. CASE k # 1
    <3>1. ~IsMove(Head(q), S)
        BY <2>1, <2>4, Rest
    <3>2. k - 1 \in DOMAIN Tail(q) /\ Tail(q)[k - 1] = q[k]
        BY <2>1, <2>4, Rest
    <3>3. \A j \in DOMAIN Tail(q) : IsMove(Tail(q)[j], S) <=> j = k - 1
        BY <2>1, <2>2, Rest
    <3> QED BY <2>1, <3>1, <3>2, <3>3 DEF OneMove
  <2> QED BY <2>3, <2>4
<1> QED BY <1>1, <1>2
-----------------------------------------------------------------------------
(* What a step that leaves a client, a queue or a game alone keeps.        *)

Same(d) == /\ phase'[d] = phase[d] /\ play'[d] = play[d] /\ state'[d] = state[d]
           /\ stored'[d] = stored[d] /\ arg'[d] = arg[d] /\ board'[d] = board[d]
           /\ is_client_O'[d] = is_client_O[d]
           /\ exited'[d] = exited[d] /\ told'[d] = told[d] /\ to_client'[d] = to_client[d]

SameView(d) == /\ Mode(d)' = Mode(d) /\ Board(d)' = Board(d) /\ SignO(d)' = SignO(d)
               /\ Mode(d) = "OPPONENT_MOVE" => arg'[d] = arg[d]

SameSent(d, c) == /\ NoneSent(d, c) => NoneSent(d, c)'
                  /\ \A p : OneSent(d, c, p) => OneSent(d, c, p)'

LEMMA ViewKept ==
    ASSUME NEW d, Same(d)
    PROVE  SameView(d) /\ (StateOf(d) => StateOf(d)')
<1>1. HasBoard(d)' = HasBoard(d)
    BY DEF Same, HasBoard, AtTop
<1>2. Mode(d)' = Mode(d) /\ Board(d)' = Board(d)
    BY <1>1 DEF Same, Mode, Board
<1>3. SignO(d)' = SignO(d)
    BY DEF Same, SignO, AtTop
<1>4. StateOf(d) => StateOf(d)'
    BY DEF Same, StateOf, Untold, Plays
<1> QED BY <1>2, <1>3, <1>4 DEF SameView, Same

LEMMA MatchKept ==
    ASSUME NEW c, NEW d, Match(c, d), SameView(c), SameView(d), SameSent(c, d), SameSent(d, c)
    PROVE  Match(c, d)'
<1>1. \A e \in {c, d} : \A b : ModeAt(b, e)' = ModeAt(b, e)
    BY DEF SameView, ModeAt
<1>2. CASE Quiet(c, d)
    BY <1>2 DEF Match, Quiet, SameView, SameSent, ModeAt
<1>3. ASSUME NEW p \in Positions, Ahead(d, c, p)
      PROVE  Ahead(d, c, p)'
    BY <1>3 DEF Ahead, SameView, SameSent, ModeAt
<1>4. ASSUME NEW p \in Positions, Ahead(c, d, p)
      PROVE  Ahead(c, d, p)'
    BY <1>4 DEF Ahead, SameView, SameSent, ModeAt
<1> QED BY <1>2, <1>3, <1>4 DEF Match

\* A message that is not a move of d changes nothing for its rival.
Posts(m) == \E s \in Sockets : inbox' = [inbox EXCEPT ![s] = Append(@, m)]

LEMMA SocketsOf == \A c : SocketOf(c) \in Sockets
BY DEF SocketOf, Sockets

LEMMA SentKept ==
    ASSUME Types, NEW c \in Clients, NEW d \in Clients,
           message' = message,
           \/ to_client'[c] = to_client[c]
           \/ /\ to_client[c] # <<>> /\ to_client'[c] = Tail(to_client[c])
              /\ Head(to_client[c]).command # "move",
           \/ inbox' = inbox
           \/ \E m \in Messages : Posts(m) /\ ~IsMove(m, {d})
    PROVE  SameSent(d, c)
<1> DEFINE q == inbox[SocketOf(d)]
           r == inbox'[SocketOf(d)]
<1>0. q \in Seq(Messages)
    BY SocketsOf DEF Types
<1>1. /\ NoMoves(q, {d}) => NoMoves(r, {d})
      /\ \A p : OneMove(q, {d}, p) => OneMove(r, {d}, p)
  <2>1. CASE inbox' = inbox
      BY <2>1
  <2>2. ASSUME NEW m \in Messages, NEW s \in Sockets, ~IsMove(m, {d}),
               inbox' = [inbox EXCEPT ![s] = Append(@, m)]
        PROVE  r = q \/ r = Append(q, m)
      BY <2>2, SocketsOf DEF Types
  <2>3. ASSUME NEW m \in Messages, NEW s \in Sockets, ~IsMove(m, {d}),
               inbox' = [inbox EXCEPT ![s] = Append(@, m)]
        PROVE  /\ NoMoves(q, {d}) => NoMoves(r, {d})
               /\ \A p : OneMove(q, {d}, p) => OneMove(r, {d}, p)
    <3> HIDE DEF q, r
    <3> QED BY <1>0, <2>3, <2>2, AppendKeepsMoves
  <2> QED BY <2>1, <2>3 DEF Posts
<1>2. /\ NoMoves(to_client[c], Senders) => NoMoves(to_client'[c], Senders)
      /\ \A p : OneMove(to_client[c], Senders, p) => OneMove(to_client'[c], Senders, p)
  <2>1. to_client[c] \in Seq(Messages)
      BY DEF Types
  <2>2. Head(to_client[c]).command # "move" => ~IsMove(Head(to_client[c]), Senders)
      BY DEF IsMove
  <2> QED BY <2>1, <2>2, TailKeepsMoves
<1>3. NoneSent(d, c) => NoneSent(d, c)'
    BY <1>1, <1>2 DEF NoneSent
<1>4. \A p : OneSent(d, c, p) => OneSent(d, c, p)'
    BY <1>1, <1>2 DEF OneSent
<1> QED BY <1>3, <1>4 DEF SameSent

\* A step of the client c: what it has to show of c, and what holds of the rest.
StepOf(c) ==
    /\ UNCHANGED <<tableVars, up, message>> /\ Types'
    /\ \A d \in Clients : d # c => Same(d)
    /\ \/ inbox' = inbox
       \/ \E m \in Messages : m.from = c /\ inbox' = [inbox EXCEPT ![SocketOf(c)] = Append(@, m)]
    /\ phase[c] # "absent" /\ phase'[c] \in {"running", "gone"}
    /\ exited[c] => exited'[c]
    /\ told[c] # NULL => told'[c] # NULL

LEMMA ServerMailKept ==
    ASSUME Core, NEW c \in Clients, StepOf(c),
           \/ inbox' = inbox
           \/ \E m \in Messages : m.from = c /\ FromClient(m, phase', told') /\ inbox' = [inbox EXCEPT ![SocketOf(c)] = Append(@, m)]
    PROVE  ServerMail'
<1>1. \A m : FromClient(m, phase, told) => FromClient(m, phase', told')
  <2>1. \A d \in Clients : d # c => phase'[d] = phase[d] /\ told'[d] = told[d]
      BY DEF StepOf, Same
  <2> QED BY <2>1 DEF FromClient, StepOf
<1>2. message' = Nothing \/ FromClient(message', phase', told')
    BY <1>1 DEF Core, ServerMail, StepOf, Nothing, Message, FromClient
<1>3. ASSUME NEW s \in Sockets, NEW k \in DOMAIN inbox'[s]
      PROVE  FromClient(inbox'[s][k], phase', told') /\ SocketOf(inbox'[s][k].from) = s
  <2>1. CASE inbox' = inbox
      BY <2>1, <1>1, <1>3 DEF Core, ServerMail
  <2>2. ASSUME NEW m \in Messages, m.from = c, FromClient(m, phase', told'), inbox' = [inbox EXCEPT ![SocketOf(c)] = Append(@, m)]
        PROVE  FromClient(inbox'[s][k], phase', told') /\ SocketOf(inbox'[s][k].from) = s
    <3>1. inbox[s] \in Seq(Messages) /\ \A j \in DOMAIN inbox[s] : FromClient(inbox[s][j], phase', told') /\ SocketOf(inbox[s][j].from) = s
        BY <1>1 DEF Core, ServerMail, Types
    <3>2. CASE s = SocketOf(c)
      <4>1. inbox'[s] = Append(inbox[s], m)
          BY <3>2, <2>2 DEF Core, Types
      <4>2. k \in DOMAIN inbox[s] \/ k = Len(inbox[s]) + 1
          BY <4>1, <3>1, Appended
      <4>3. inbox'[s][k] = m \/ (k \in DOMAIN inbox[s] /\ inbox'[s][k] = inbox[s][k])
          BY <4>1, <4>2, <3>1, Appended
      <4> QED BY <4>3, <3>1, <3>2, <2>2
    <3>3. CASE s # SocketOf(c)
      <4>1. inbox'[s] = inbox[s]
          BY <3>3, <2>2 DEF Core, Types
      <4> QED BY <4>1, <3>1
    <3> QED BY <3>2, <3>3
  <2> QED BY <2>1, <2>2
<1> QED BY <1>2, <1>3 DEF ServerMail

LEMMA OthersJoin ==
    ASSUME Core, NEW c \in Clients, StepOf(c), NEW d \in Clients, d # c
    PROVE  JoinsBy(d)'
<1> DEFINE q == inbox[SocketOf(d)]
           r == inbox'[SocketOf(d)]
<1>0. q \in Seq(Messages)
    BY SocketsOf DEF Core, Types
<1>1. Unheard(d)' <=> Unheard(d)
    BY DEF Unheard, StepOf, Same, tableVars
<1>2. \A k \in DOMAIN r : Joins(r[k], d) => k \in DOMAIN q /\ r[k] = q[k]
  <2>1. CASE inbox' = inbox
      BY <2>1
  <2>2. ASSUME NEW m \in Messages, m.from = c, inbox' = [inbox EXCEPT ![SocketOf(c)] = Append(@, m)]
        PROVE  \A k \in DOMAIN r : Joins(r[k], d) => k \in DOMAIN q /\ r[k] = q[k]
    <3>1. r = q \/ r = Append(q, m)
        BY <2>2, SocketsOf DEF Core, Types
    <3>2. ~Joins(m, d)
        BY <2>2 DEF Joins
    <3> HIDE DEF q, r
    <3> QED BY <1>0, <3>1, <3>2, Appended
  <2> QED BY <2>1, <2>2 DEF StepOf
<1>3. JoinsBy(d) /\ phase'[d] = phase[d] /\ message' = message
    BY DEF Core, JoinsOnce, StepOf, Same
<1> QED BY <1>1, <1>2, <1>3 DEF JoinsBy

LEMMA OwnNamesKept ==
    ASSUME NEW c \in Clients, StepOf(c), \A e \in Clients : Played(e) => Played(e)'
    PROVE  \A d \in Clients : /\ OwnName(d)' => OwnName(d)
                              /\ d # c /\ OnItsOwn(d)' => OnItsOwn(d)
<1>1. \A d \in Clients : OwnName(d)' => OwnName(d)
    BY OwnNameIs
<1> QED BY <1>1 DEF OnItsOwn, StepOf, Same

LEMMA NobodyIsNull == \A c \in Clients : c # NULL
BY GameServerAssumption

LEMMA UnheardHasNoRival ==
    ASSUME Types, NEW c \in Clients, Unheard(c)
    PROVE  Rivals[c] = NULL /\ StartsIn(to_client[c]) = {}
<1>1. StartsIn(<<>>) = {}
    BY DEF StartsIn
<1> QED BY <1>1 DEF Unheard, Rivals, Rival

\* A client that is running and has a rival is not its own.
LEMMA RivalsDiffer ==
    ASSUME Core, NEW c \in Clients, NEW d \in Clients, Rivals[c] = d, ~exited[c], ~exited[d]
    PROVE  c # d /\ Rivals[d] = c /\ SignO(d) = ~SignO(c)
<1>1. Rivals[d] = c /\ SignO(d) = ~SignO(c)
    BY DEF Core, Mutual
<1>2. SignO(c) \in BOOLEAN
    BY DEF SignO, Core, Types
<1> QED BY <1>1, <1>2

LEMMA ClientFrame ==
    ASSUME Core, NEW c \in Clients, StepOf(c), ServerMail', JoinsBy(c)',
           ToldOnce(to_client'[c], told'[c]), StateOf(c)',
           Rivals'[c] = Rivals[c] \/ (Rivals'[c] = NULL /\ exited'[c]),
           Rivals[c] # NULL /\ ~exited'[c] => SignO(c)' = SignO(c),
           \A d \in Clients : c # d /\ Rivals[c] = d /\ OnItsOwn(c) /\ OnItsOwn(d) /\ OnItsOwn(c)' /\ Match(c, d)
                                => Match(c, d)'
    PROVE  Core'
<1>1. Types' /\ (\A d \in Clients : d # c => Same(d)) /\ clients' = clients /\ (exited[c] => exited'[c])
    BY DEF StepOf, tableVars
<1>2. TableIsSound'
    BY DEF Core, TableIsSound, Occupied, Free, StepOf, tableVars
<1>3. \A d \in Clients : d # c => Rivals'[d] = Rivals[d]
    BY <1>1 DEF Rivals, Rival, Same
<1>4. Pairs'
  <2>1. Occupied' = Occupied /\ \A i \in Occupied : clients[i] \in Clients
      BY <1>1 DEF Occupied, Core, Types
  <2>2. \A d \in Clients : \/ Rivals'[d] = Rivals[d] /\ (exited[d] => exited'[d])
                           \/ Rivals'[d] = NULL /\ exited'[d]
      BY <1>1, <1>3 DEF Same
  <2>3. \A i \in Occupied : \/ Rivals[clients[i]] = NULL /\ (clients[get_opponent(i)] = NULL \/ exited[clients[i]])
                            \/ clients[get_opponent(i)] # NULL /\ Rivals[clients[i]] = clients[get_opponent(i)]
      BY DEF Core, Pairs
  <2>4. ASSUME NEW i \in Occupied
        PROVE  \/ Rivals'[clients[i]] = NULL /\ (clients[get_opponent(i)] = NULL \/ exited'[clients[i]])
               \/ clients[get_opponent(i)] # NULL /\ Rivals'[clients[i]] = clients[get_opponent(i)]
      BY <2>1, <2>2, <2>3
  <2> QED BY <1>1, <2>1, <2>4 DEF Pairs
<1>5. ToldOnceEach'
    BY <1>1 DEF Core, ToldOnceEach, Same
<1>6. JoinsOnce'
    BY OthersJoin DEF JoinsOnce
<1>7. ClientStates'
    BY <1>1, ViewKept DEF Core, ClientStates
<1>8. \A d \in Clients : /\ exited[d] => exited'[d]
                         /\ ~exited'[d] => Rivals'[d] = Rivals[d]
                         /\ ~exited'[d] /\ Rivals[d] # NULL => SignO(d)' = SignO(d)
    BY <1>1, <1>3, ViewKept DEF Same, SameView
<1>9. Mutual'
  <2>1. ASSUME NEW d \in Clients, NEW e \in Clients, Rivals'[d] = e, ~exited'[d], ~exited'[e]
        PROVE  Rivals'[e] = d /\ SignO(e)' = ~SignO(d)'
    <3>1. Rivals[d] = e /\ ~exited[d] /\ ~exited[e]
        BY <1>8, <2>1
    <3>2. Rivals[e] = d /\ SignO(e) = ~SignO(d)
        BY <3>1 DEF Core, Mutual
    <3> QED BY <1>8, <2>1, <3>1, <3>2, NobodyIsNull
  <2> QED BY <2>1 DEF Mutual
<1>10. ASSUME NEW e \in Clients, NEW f \in Clients, Rivals'[e] = f, OnItsOwn(e)', OnItsOwn(f)'
       PROVE  Match(e, f)'
  <2>1. ~exited'[e] /\ ~exited'[f] /\ Rivals[e] = f /\ ~exited[e] /\ ~exited[f]
      BY <1>7, <1>8, <1>10 DEF OnItsOwn, ClientStates, StateOf
  <2>2. e # f /\ Rivals[f] = e
      BY <2>1, RivalsDiffer
  <2>3. OnItsOwn(e) /\ OnItsOwn(f)
    <3>0. ASSUME NEW g \in Clients, Played(g)
          PROVE  Played(g)'
      <4>1. phase'[g] = "gone" <=> exited'[g]
          BY <1>7 DEF ClientStates, StateOf
      <4>2. phase[g] = "gone" <=> exited[g]
          BY DEF Core, ClientStates, StateOf
      <4> QED BY <3>0, <4>1, <4>2, <1>8 DEF Played
    <3>1. ASSUME NEW g \in Clients, Rivals[g] # NULL, OnItsOwn(g)', ~exited[g]
          PROVE  OnItsOwn(g)
      <4>1. CASE g # c
          BY <4>1, <3>0, <3>1, OwnNamesKept
      <4>2. CASE g = c
        <5>1. ~Unheard(c)
            BY <3>1, <4>2, UnheardHasNoRival DEF Core
        <5>2. phase[c] \notin {"absent", "new"} /\ phase[c] # "gone"
            BY <5>1, <3>1, <4>2 DEF Core, JoinsOnce, JoinsBy, ClientStates, StateOf
        <5>3. phase[c] = "running"
            BY <5>2 DEF Core, Types
        <5> QED BY <5>3, <3>0, <3>1, <4>2, OwnNamesKept DEF OnItsOwn
      <4> QED BY <4>1, <4>2
    <3> QED BY <3>1, <1>10, <2>1, <2>2, NobodyIsNull
  <2>4. Match(e, f) /\ Match(f, e)
      BY <2>1, <2>2, <2>3 DEF Core, GamesMatch
  <2>5. CASE e = c
      BY <2>5, <2>1, <2>2, <2>3, <2>4, <1>10
  <2>6. CASE f = c
    <3>1. Match(f, e)'
        BY <2>6, <2>1, <2>2, <2>3, <2>4, <1>10
    <3> QED BY <3>1 DEF Match, Quiet
  <2>7. CASE e # c /\ f # c
    <3>1. SameView(e) /\ SameView(f)
        BY <2>7, <1>1, ViewKept
    <3>2. message' = message /\ to_client'[e] = to_client[e] /\ to_client'[f] = to_client[f]
        BY <2>7, <1>1 DEF StepOf, Same
    <3>3. \/ inbox' = inbox
          \/ \E m \in Messages : Posts(m) /\ ~IsMove(m, {e}) /\ ~IsMove(m, {f})
        BY <2>7, SocketsOf DEF StepOf, Posts, IsMove
    <3>4. SameSent(e, f) /\ SameSent(f, e)
        BY <3>2, <3>3, SentKept DEF Core
    <3> QED BY <2>4, <3>1, <3>4, MatchKept
  <2> QED BY <2>5, <2>6, <2>7
<1> QED BY <1>1, <1>2, <1>4, <1>5, <1>6, <1>7, <1>9, <1>10 DEF Core, GamesMatch
-----------------------------------------------------------------------------
(* The start and the end of a client.                                      *)

LEMMA Fields == \A x, y, z : Message(x, y, z).command = x /\ Message(x, y, z).arg = y /\ Message(x, y, z).from = z
BY DEF Message

LEMMA MessageTypes ==
    ASSUME NEW x \in {"add", "move", "quit", "ping", "pong", "nothing"}, NEW y \in Args, NEW z \in Senders
    PROVE  Message(x, y, z) \in Messages
BY DEF Message, Messages

LEMMA SendFromPosts ==
    ASSUME Types, NEW c \in Clients, NEW x \in {"add", "move", "quit", "pong"}, NEW y \in Args, SendFrom(c, x, y)
    PROVE  /\ Message(x, y, c) \in Messages /\ Message(x, y, c).from = c
           /\ inbox' = [inbox EXCEPT ![SocketOf(c)] = Append(@, Message(x, y, c))]
           /\ inbox' \in [Sockets -> Seq(Messages)]
<1>1. Message(x, y, c) \in Messages /\ Message(x, y, c).from = c
    BY MessageTypes, Fields DEF Senders
<1>2. inbox' = [inbox EXCEPT ![SocketOf(c)] = Append(@, Message(x, y, c))]
    BY DEF SendFrom, Post
<1>3. Append(inbox[SocketOf(c)], Message(x, y, c)) \in Seq(Messages)
    BY <1>1, SocketsOf, AppendProperties DEF Types
<1> QED BY <1>1, <1>2, <1>3 DEF Types

LEMMA JoinsKept ==
    ASSUME Core, NEW c \in Clients, StepOf(c), Unheard(c) => Unheard(c)',
           \/ inbox' = inbox
           \/ \E m \in Messages : /\ m.from = c /\ m.command # "add"
                                  /\ inbox' = [inbox EXCEPT ![SocketOf(c)] = Append(@, m)]
    PROVE  JoinsBy(c)'
<1> DEFINE q == inbox[SocketOf(c)]
           r == inbox'[SocketOf(c)]
<1>0. q \in Seq(Messages)
    BY SocketsOf DEF Core, Types
<1>1. \A k \in DOMAIN r : Joins(r[k], c) => k \in DOMAIN q /\ r[k] = q[k]
  <2>1. CASE inbox' = inbox
      BY <2>1
  <2>2. ASSUME NEW m \in Messages, m.command # "add", inbox' = [inbox EXCEPT ![SocketOf(c)] = Append(@, m)]
        PROVE  \A k \in DOMAIN r : Joins(r[k], c) => k \in DOMAIN q /\ r[k] = q[k]
    <3>1. r = Append(q, m)
        BY <2>2, SocketsOf DEF Core, Types
    <3>2. ~Joins(m, c)
        BY <2>2 DEF Joins
    <3> HIDE DEF q, r
    <3> QED BY <1>0, <3>1, <3>2, Appended
  <2> QED BY <2>1, <2>2
<1>2. JoinsBy(c) /\ message' = message /\ phase'[c] \notin {"absent", "new"}
    BY DEF Core, JoinsOnce, StepOf
<1> QED BY <1>1, <1>2 DEF JoinsBy

\* A client ends: nothing is promised of its games any more.
LEMMA ExitStep ==
    ASSUME Core, NEW c \in Clients, phase[c] = "running", exit(c),
           UNCHANGED <<tableVars, up, message, told>>,
           inbox' = inbox \/ SendFrom(c, "quit", 0)
    PROVE  Core'
<1>0. Types /\ 0 \in Args /\ 0 \in Positions
    BY DEF Core, Args, Positions
<1>1. \/ inbox' = inbox
      \/ \E m \in Messages : /\ m.from = c /\ m.command = "quit"
                             /\ inbox' = [inbox EXCEPT ![SocketOf(c)] = Append(@, m)]
    BY <1>0, SendFromPosts, Fields
<1>2. Types'
  <2>1. inbox' \in [Sockets -> Seq(Messages)]
      BY <1>0, SendFromPosts DEF Types
  <2>2. <<>> \in Seq(Messages)
      OBVIOUS
  <2> QED BY <1>0, <2>1, <2>2 DEF exit, Set, Types, States, tableVars
<1>3. StepOf(c)
    BY <1>0, <1>1, <1>2 DEF StepOf, Same, exit, Set, Types
<1>4. /\ phase'[c] = "gone" /\ exited'[c] /\ to_client'[c] = <<>> /\ play'[c] = "none"
      /\ told'[c] = told[c]
    BY <1>0 DEF exit, Set, Types
<1>5. ServerMail'
  <2>1. \A m : m.from = c /\ m.command = "quit" => FromClient(m, phase', told')
      BY <1>4 DEF FromClient
  <2> QED BY <1>1, <1>3, <2>1, ServerMailKept
<1>6. JoinsBy(c)'
  <2>1. Unheard(c) => Unheard(c)'
      BY <1>4 DEF Unheard, tableVars
  <2> QED BY <1>1, <1>3, <2>1, JoinsKept
<1>7. StartsIn(<<>>) = {} /\ ToldOnce(<<>>, told[c])
    BY DEF StartsIn, ToldOnce
<1>8. Rivals'[c] = told[c] /\ (told[c] = NULL \/ Rivals[c] = told[c])
    BY <1>4, <1>7 DEF Rivals, Rival, Core, ToldOnceEach, ToldOnce
<1>9. StateOf(c)'
    BY <1>4 DEF StateOf
<1>10. ~OnItsOwn(c)'
    BY <1>4 DEF OnItsOwn
<1> QED BY <1>3, <1>4, <1>5, <1>6, <1>7, <1>8, <1>9, <1>10, ClientFrame

LEMMA InitConnectionStep ==
    ASSUME Core, NEW c \in Clients, init_server_connection(c), UNCHANGED <<tableVars, up, message>>
    PROVE  Core'
<1>0. Types /\ 0 \in Args /\ phase[c] = "new" /\ Unheard(c)
    BY DEF Core, Args, Positions, init_server_connection, JoinsOnce, JoinsBy
<1> DEFINE m == Message("add", 0, c)
           q == inbox[SocketOf(c)]
<1>1. m \in Messages /\ m.from = c /\ m.command = "add" /\ inbox' = [inbox EXCEPT ![SocketOf(c)] = Append(@, m)]
    BY <1>0, SendFromPosts, Fields DEF init_server_connection
<1>2. Types'
  <2>1. inbox' \in [Sockets -> Seq(Messages)]
      BY <1>0, SendFromPosts DEF init_server_connection
  <2>2. phase' \in [Clients -> {"absent", "new", "running", "gone"}]
      BY <1>0 DEF init_server_connection, Set, Types
  <2>3. UNCHANGED <<clients, clients_count, message, play, state, stored, arg, board, is_client_O,
                    to_client, exited, told>>
      BY DEF init_server_connection, tableVars
  <2> QED BY <1>0, <2>1, <2>2, <2>3 DEF Types
<1>3. StepOf(c)
  <2>1. /\ UNCHANGED <<tableVars, up, message>> /\ exited' = exited /\ told' = told
        /\ \A d \in Clients : d # c => Same(d)
      BY <1>0 DEF Same, init_server_connection, Set, Types
  <2>2. phase'[c] = "running" /\ phase[c] = "new"
      BY <1>0 DEF init_server_connection, Set, Types
  <2> QED BY <1>1, <1>2, <2>1, <2>2 DEF StepOf
<1>4. /\ phase'[c] = "running" /\ Unheard(c)'
      /\ UNCHANGED <<exited, to_client, told, play, state, stored, arg, board, is_client_O, message>>
    BY <1>0 DEF init_server_connection, Set, Types, Unheard, tableVars
<1>5. ServerMail'
  <2>1. FromClient(m, phase', told')
      BY <1>1, <1>4 DEF FromClient
  <2> QED BY <1>1, <1>3, <2>1, ServerMailKept
<1>6. JoinsBy(c)'
  <2>1. q \in Seq(Messages) /\ inbox'[SocketOf(c)] = Append(q, m)
      BY <1>0, <1>1, SocketsOf DEF Types
  <2>2. \A k \in DOMAIN q : q[k].from # c
      BY <1>0, SocketsOf DEF Core, ServerMail, FromClient
  <2>3. message.from # c
    <3>1. Nothing.from # c
        BY Fields, NobodyIsNull DEF Nothing
    <3> QED BY <1>0, <3>1 DEF Core, ServerMail, FromClient
  <2> HIDE DEF m, q
  <2>4. \A k \in DOMAIN Append(q, m) : Joins(Append(q, m)[k], c) => k = Len(q) + 1
      BY <1>1, <2>1, <2>2, Appended DEF Joins
  <2>5. ~Joins(message, c)
      BY <2>3 DEF Joins
  <2> QED BY <1>4, <2>1, <2>4, <2>5 DEF JoinsBy
<1>7. ToldOnce(to_client'[c], told'[c]) /\ Rivals'[c] = Rivals[c]
    BY <1>4 DEF Core, ToldOnceEach, Rivals
<1>8. StateOf(c)'
  <2>1. ~exited[c] /\ told[c] = NULL /\ StateOf(c)
      BY <1>0 DEF Core, ClientStates, StateOf, Unheard
  <2> QED BY <1>0, <1>4, <2>1 DEF StateOf, Untold
<1>9. SignO(c)' = SignO(c)
  <2>1. ~AtTop(c, "GAME_STARTING") /\ ~AtTop(c, "GAME_STARTING")'
      BY <1>0, <1>4 DEF AtTop, Unheard
  <2> QED BY <1>4, <2>1 DEF SignO
<1>10. Rivals[c] = NULL
    BY <1>0, UnheardHasNoRival
<1> QED BY <1>3, <1>5, <1>6, <1>7, <1>8, <1>9, <1>10, NobodyIsNull, ClientFrame
-----------------------------------------------------------------------------
(* listen_server.                                                          *)

\* What it does with a message that does not end the client, when it comes in no window.
Hears(c, m) ==
    /\ phase[c] = "running" /\ to_client[c] # <<>> /\ m = Head(to_client[c])
    /\ ~ArgUnread(c) /\ ~StateOverwritten(c, m)
    /\ to_client' = Set(to_client, c, Tail(to_client[c])) /\ arg' = Set(arg, c, m.arg)
    /\ UNCHANGED <<tableVars, up, message, phase, exited, stored, board, is_client_O>>

LEMMA HearsFrame ==
    ASSUME Core, NEW c \in Clients, NEW m, Hears(c, m), m.command # "move",
           play' \in [Clients -> {"none", "top", "store"}], state' \in [Clients -> States],
           told' \in [Clients -> Senders],
           \A d \in Clients : d # c => play'[d] = play[d] /\ state'[d] = state[d] /\ told'[d] = told[d],
           told[c] # NULL => told'[c] # NULL,
           inbox' = inbox \/ SendFrom(c, "pong", 0),
           ToldOnce(Tail(to_client[c]), told'[c]), Rival(Tail(to_client[c]), told'[c]) = Rivals[c],
           StateOf(c)', Rivals[c] # NULL => SignO(c)' = SignO(c),
           Mode(c)' = Mode(c), Board(c)' = Board(c), Mode(c) # "OPPONENT_MOVE"
    PROVE  Core'
<1>0. Types /\ to_client[c] \in Seq(Messages) /\ m \in Messages /\ Tail(to_client[c]) \in Seq(Messages)
      /\ 0 \in Args /\ m.arg \in Args
  <2>1. Types /\ to_client[c] \in Seq(Messages) /\ to_client[c] # <<>> /\ m = Head(to_client[c])
      BY DEF Core, Types, Hears
  <2>2. m \in Messages /\ Tail(to_client[c]) \in Seq(Messages)
      BY <2>1, Rest
  <2>3. 0 \in Args
      BY DEF Args, Positions
  <2> QED BY <2>1, <2>2, <2>3 DEF Messages
<1>1. \/ inbox' = inbox
      \/ \E n \in Messages : /\ n.from = c /\ n.command = "pong"
                             /\ inbox' = [inbox EXCEPT ![SocketOf(c)] = Append(@, n)]
    BY <1>0, SendFromPosts, Fields
<1>2. Types'
  <2>1. inbox' \in [Sockets -> Seq(Messages)]
      BY <1>0, SendFromPosts DEF Types
  <2> QED BY <1>0, <2>1 DEF Hears, Set, Types, tableVars, Senders
<1>3. StepOf(c)
    BY <1>0, <1>1, <1>2 DEF StepOf, Same, Hears, Set, Types
<1>4. to_client'[c] = Tail(to_client[c]) /\ phase'[c] = "running" /\ to_client[c] # <<>>
    BY <1>0 DEF Hears, Set, Types
<1>5. ServerMail'
  <2>1. \A n : n.from = c /\ n.command = "pong" => FromClient(n, phase', told')
      BY <1>4 DEF FromClient
  <2> QED BY <1>1, <1>3, <2>1, ServerMailKept
<1>6. JoinsBy(c)'
  <2>1. ~Unheard(c)
      BY <1>4 DEF Unheard
  <2> QED BY <1>1, <1>3, <2>1, JoinsKept
<1>7. Rivals'[c] = Rivals[c]
    BY <1>4 DEF Rivals
<1>8. ASSUME NEW d \in Clients, c # d, Rivals[c] = d, Match(c, d)
      PROVE  Match(c, d)'
  <2>1. SameView(c) /\ SameView(d)
    <3>1. SameView(c)
        BY <1>8, NobodyIsNull DEF SameView
    <3>2. Same(d)
        BY <1>3, <1>8 DEF StepOf
    <3> QED BY <3>1, <3>2, ViewKept
  <2>2. SameSent(d, c)
    <3>1. inbox' = inbox \/ \E n \in Messages : Posts(n) /\ ~IsMove(n, {d})
        BY <1>1, SocketsOf DEF Posts, IsMove
    <3> QED BY <1>0, <1>4, <3>1, SentKept DEF Hears
  <2>3. SameSent(c, d)
    <3>1. inbox' = inbox \/ \E n \in Messages : Posts(n) /\ ~IsMove(n, {c})
        BY <1>1, SocketsOf DEF Posts, IsMove
    <3>2. to_client'[d] = to_client[d] /\ message' = message
        BY <1>3, <1>8 DEF StepOf, Same
    <3> QED BY <1>0, <3>1, <3>2, SentKept
  <2> QED BY <1>8, <2>1, <2>2, <2>3, MatchKept
<1> QED BY <1>3, <1>4, <1>5, <1>6, <1>7, <1>8, ClientFrame

LEMMA HearsWhat ==
    ASSUME Core, NEW c \in Clients, NEW m, Hears(c, m)
    PROVE  /\ Types /\ to_client[c] \in Seq(Messages) /\ m \in Messages /\ ToldOnce(to_client[c], told[c])
           /\ StateOf(c) /\ ~exited[c] /\ (IF told[c] = NULL THEN Untold(c) ELSE Plays(c))
           /\ Rivals[c] = Rival(to_client[c], told[c])
           /\ arg'[c] = m.arg /\ to_client'[c] = Tail(to_client[c])
           /\ UNCHANGED <<phase, exited, stored, board, is_client_O>>
BY Rest DEF Core, Types, ToldOnceEach, ClientStates, StateOf, Hears, Rivals, Set

LEMMA HearsStart ==
    ASSUME Core, NEW c \in Clients, NEW m, Hears(c, m), m.command = "add",
           state' = Set(state, c, "GAME_STARTING"),
           play' = Set(play, c, IF play[c] = "none" THEN "top" ELSE play[c]),
           told' = Set(told, c, m.from), inbox' = inbox
    PROVE  Core'
<1>0. /\ Types /\ to_client[c] \in Seq(Messages) /\ m \in Messages /\ ToldOnce(to_client[c], told[c])
      /\ StateOf(c) /\ ~exited[c] /\ (IF told[c] = NULL THEN Untold(c) ELSE Plays(c))
      /\ Rivals[c] = Rival(to_client[c], told[c])
      /\ arg'[c] = m.arg /\ to_client'[c] = Tail(to_client[c])
      /\ UNCHANGED <<phase, exited, stored, board, is_client_O>>
      /\ phase[c] = "running" /\ to_client[c] # <<>> /\ m = Head(to_client[c])
    BY HearsWhat DEF Hears
<1>1. /\ 1 \in DOMAIN to_client[c] /\ to_client[c][1] = m
    BY <1>0, Rest
<1>2. told[c] = NULL
    BY <1>0, <1>1, TailStart DEF ToldOnce
<1>3. play[c] # "store" /\ ~(play[c] = "top" /\ state[c] = "GAME_STARTING")
    BY <1>0 DEF Hears, ArgUnread, StateOverwritten
<1>4. ~HasBoard(c)
    BY <1>0, <1>2, <1>3 DEF Untold, HasBoard
<1>5. play'[c] = "top" /\ state'[c] = "GAME_STARTING" /\ told'[c] = m.from /\ m.from \in Senders
    BY <1>0, <1>3 DEF Set, Types, Messages
<1>6. ~HasBoard(c)' /\ AtTop(c, "GAME_STARTING")'
    BY <1>0, <1>5 DEF HasBoard, AtTop
<1>7. Mode(c)' = Mode(c) /\ Board(c)' = Board(c) /\ Mode(c) # "OPPONENT_MOVE"
    BY <1>4, <1>6 DEF Mode, Board
<1>8. /\ play' \in [Clients -> {"none", "top", "store"}] /\ state' \in [Clients -> States]
      /\ told' \in [Clients -> Senders]
      /\ \A d \in Clients : d # c => play'[d] = play[d] /\ state'[d] = state[d] /\ told'[d] = told[d]
    BY <1>0, <1>3, <1>5 DEF Set, Types, States, Senders
<1>9. CASE IsStart(m)
  <2>1. /\ ToldOnce(Tail(to_client[c]), m.from) /\ Rival(Tail(to_client[c]), m.from) = Rivals[c]
        /\ StartsIn(Tail(to_client[c])) = {} /\ StartsIn(to_client[c]) # {}
        /\ StartOf(to_client[c]) = m /\ m.from \in Clients
      BY <1>0, <1>9, TailStart
  <2>2. StateOf(c)'
      BY <1>0, <1>5, <1>9, <2>1, NobodyIsNull DEF StateOf, Plays, IsStart
  <2>3. SignO(c)' = SignO(c)
      BY <1>0, <1>6, <2>1 DEF SignO, StartOf
  <2> QED BY <1>2, <1>5, <1>7, <1>8, <2>1, <2>2, <2>3, HearsFrame
<1>10. CASE ~IsStart(m)
  <2>1. m.arg \in {"no_enemy", "name_taken"} /\ m.from = NULL
      BY <1>0, <1>1, <1>10 DEF ToldOnce
  <2>2. /\ ToldOnce(Tail(to_client[c]), NULL) /\ Rival(Tail(to_client[c]), NULL) = Rivals[c]
        /\ StartsIn(Tail(to_client[c])) = {} <=> StartsIn(to_client[c]) = {}
        /\ StartsIn(to_client[c]) # {} => StartOf(Tail(to_client[c])) = StartOf(to_client[c])
      BY <1>0, <1>2, <1>10, TailOther
  <2>3. StateOf(c)'
      BY <1>0, <1>5, <2>1 DEF StateOf, Untold
  <2>4. Rivals[c] # NULL => SignO(c)' = SignO(c)
    <3>1. Rivals[c] # NULL => StartsIn(to_client[c]) # {}
        BY <1>0, <1>2 DEF Rival
    <3> QED BY <1>0, <2>2, <3>1 DEF SignO, StartOf
  <2> QED BY <1>2, <1>5, <1>7, <1>8, <2>1, <2>2, <2>3, <2>4, HearsFrame
<1> QED BY <1>9, <1>10

LEMMA HearsPing ==
    ASSUME Core, NEW c \in Clients, NEW m, Hears(c, m), m.command = "ping",
           SendFrom(c, "pong", 0), UNCHANGED <<play, state, told>>
    PROVE  Core'
<1>0. /\ Types /\ to_client[c] \in Seq(Messages) /\ m \in Messages /\ ToldOnce(to_client[c], told[c])
      /\ StateOf(c) /\ ~exited[c] /\ (IF told[c] = NULL THEN Untold(c) ELSE Plays(c))
      /\ Rivals[c] = Rival(to_client[c], told[c])
      /\ arg'[c] = m.arg /\ to_client'[c] = Tail(to_client[c])
      /\ UNCHANGED <<phase, exited, stored, board, is_client_O>>
      /\ phase[c] = "running" /\ to_client[c] # <<>> /\ m = Head(to_client[c])
    BY HearsWhat DEF Hears
<1>1. ~IsStart(m)
    BY DEF IsStart
<1>2. ~(play[c] = "top" /\ state[c] \in {"GAME_STARTING", "OPPONENT_MOVE"})
    BY <1>0 DEF Hears, ArgUnread
<1>3. /\ ToldOnce(Tail(to_client[c]), told[c]) /\ Rival(Tail(to_client[c]), told[c]) = Rivals[c]
      /\ StartsIn(Tail(to_client[c])) = {} <=> StartsIn(to_client[c]) = {}
      /\ StartsIn(to_client[c]) # {} => StartOf(Tail(to_client[c])) = StartOf(to_client[c])
    BY <1>0, <1>1, TailOther
<1>4. StateOf(c)'
    BY <1>0, <1>2 DEF StateOf, Untold, Plays
<1>5. SignO(c)' = SignO(c)
  <2>1. ~AtTop(c, "GAME_STARTING") /\ ~AtTop(c, "GAME_STARTING")'
      BY <1>0, <1>2 DEF AtTop
  <2> QED BY <1>0, <1>3, <2>1 DEF SignO, StartOf
<1>6. HasBoard(c)' = HasBoard(c)
    BY <1>0 DEF HasBoard, AtTop
<1>7. Mode(c)' = Mode(c) /\ Board(c)' = Board(c)
    BY <1>0, <1>6 DEF Mode, Board
<1>8. Mode(c) # "OPPONENT_MOVE"
    BY <1>0, <1>2 DEF Mode, HasBoard, Untold, Plays
<1>9. /\ play' \in [Clients -> {"none", "top", "store"}] /\ state' \in [Clients -> States]
      /\ told' \in [Clients -> Senders] /\ told'[c] = told[c]
      /\ \A d \in Clients : d # c => play'[d] = play[d] /\ state'[d] = state[d] /\ told'[d] = told[d]
    BY <1>0 DEF Types, Senders
<1> QED BY <1>3, <1>4, <1>5, <1>7, <1>8, <1>9, HearsFrame

\* A move that comes is the only one under way, and finds its player waiting for it.
LEMMA HearsMove ==
    ASSUME Core, NEW c \in Clients, NEW m, Hears(c, m), m.command = "move",
           state' = Set(state, c, "OPPONENT_MOVE"), UNCHANGED <<play, inbox, told>>
    PROVE  Core'
<1>0. /\ Types /\ to_client[c] \in Seq(Messages) /\ m \in Messages /\ ToldOnce(to_client[c], told[c])
      /\ StateOf(c) /\ ~exited[c] /\ (IF told[c] = NULL THEN Untold(c) ELSE Plays(c))
      /\ Rivals[c] = Rival(to_client[c], told[c])
      /\ arg'[c] = m.arg /\ to_client'[c] = Tail(to_client[c])
      /\ UNCHANGED <<phase, exited, stored, board, is_client_O>>
      /\ phase[c] = "running" /\ to_client[c] # <<>> /\ m = Head(to_client[c])
    BY HearsWhat DEF Hears
<1>1. ~IsStart(m) /\ IsMove(m, Senders)
    BY <1>0 DEF IsStart, IsMove, Messages
<1>2. told[c] # NULL /\ m.arg \in Positions
  <2>1. 1 \in DOMAIN to_client[c] /\ to_client[c][1] = m /\ DOMAIN to_client[c] \subseteq Nat
      BY <1>0, Rest
  <2>2. \A j \in StartsIn(to_client[c]) : ~(j < 1)
      BY <1>0, <2>1, Rest DEF StartsIn
  <2> QED BY <1>0, <2>1, <2>2 DEF ToldOnce
<1>3. play[c] = "top" /\ state[c] \in {"MOVE", "WAITING_FOR_MOVE", "QUIT"}
    BY <1>0, <1>2 DEF Hears, ArgUnread, StateOverwritten, Plays
<1>4. play'[c] = "top" /\ state'[c] = "OPPONENT_MOVE"
    BY <1>0, <1>3 DEF Set, Types
<1>5. HasBoard(c) /\ HasBoard(c)' /\ Mode(c)' = "OPPONENT_MOVE" /\ Board(c)' = Board(c)
    BY <1>0, <1>3, <1>4 DEF HasBoard, AtTop, Mode, Board
<1>6. Types'
  <2>1. Tail(to_client[c]) \in Seq(Messages) /\ m.arg \in Args
      BY <1>0, Rest DEF Messages
  <2> QED BY <1>0, <2>1 DEF Hears, Set, Types, tableVars, States
<1>7. StepOf(c)
    BY <1>0, <1>6 DEF StepOf, Same, Hears, Set, Types
<1>8. ServerMail' /\ JoinsBy(c)'
  <2>1. ~Unheard(c) /\ inbox' = inbox
      BY <1>0 DEF Unheard
  <2> QED BY <1>7, <2>1, ServerMailKept, JoinsKept
<1>9. /\ ToldOnce(Tail(to_client[c]), told[c]) /\ Rival(Tail(to_client[c]), told[c]) = Rivals[c]
      /\ StartsIn(Tail(to_client[c])) = {} /\ StartsIn(to_client[c]) = {}
    BY <1>0, <1>1, <1>2, TailOther DEF ToldOnce
<1>10. StateOf(c)'
    BY <1>0, <1>2, <1>4 DEF StateOf, Plays
<1>11. Rivals'[c] = Rivals[c]
    BY <1>0, <1>9 DEF Rivals
<1>12. SignO(c)' = SignO(c)
  <2>1. ~AtTop(c, "GAME_STARTING") /\ ~AtTop(c, "GAME_STARTING")'
      BY <1>3, <1>4 DEF AtTop
  <2> QED BY <1>0, <1>9, <2>1 DEF SignO
<1>13. ASSUME NEW d \in Clients, c # d, Match(c, d)
       PROVE  Match(c, d)'
  <2>1. Same(d) /\ message' = message /\ inbox' = inbox /\ to_client'[d] = to_client[d]
      BY <1>7, <1>13 DEF StepOf, Same
  <2>2. SameView(d) /\ SameSent(c, d)
      BY <1>0, <2>1, ViewKept, SentKept
  <2>3. ~NoMoves(to_client[c], Senders)
      BY <1>0, <1>1, TailKeepsMoves
  <2>4. PICK p \in Positions : Ahead(d, c, p)
      BY <1>13, <2>3 DEF Match, Quiet, Ahead, NoneSent
  <2>5. OneSent(d, c, p) /\ OneMove(to_client[c], Senders, p)
      BY <2>3, <2>4 DEF Ahead, NoneSent, OneSent
  <2>6. m.arg = p /\ NoMoves(Tail(to_client[c]), Senders)
      BY <1>0, <1>1, <2>5, TailKeepsMoves
  <2>7. NoneSent(d, c)'
      BY <1>0, <2>1, <2>3, <2>5, <2>6 DEF OneSent, NoneSent
  <2>8. Ahead(d, c, p)'
      BY <1>0, <1>5, <2>2, <2>4, <2>6, <2>7 DEF Ahead, SameView, SameSent, ModeAt
  <2> QED BY <2>8 DEF Match
<1> QED BY <1>0, <1>7, <1>8, <1>9, <1>10, <1>11, <1>12, <1>13, ClientFrame

LEMMA ListenStep ==
    ASSUME Core, NEW c \in Clients, listen_server(c), ~raced', UNCHANGED <<tableVars, up, message>>
    PROVE  Core'
<1> DEFINE m == Head(to_client[c])
<1>1. CASE m.command = "quit" /\ exit(c) /\ UNCHANGED <<inbox, told>>
    BY <1>1, ExitStep DEF listen_server
<1>2. CASE m.command # "quit" /\ ~(m.command = "quit" /\ exit(c) /\ UNCHANGED <<inbox, told>>)
  <2>1. Hears(c, m)
      BY <1>2 DEF listen_server, Hears
  <2>2. \/ /\ m.command = "add"
           /\ state' = Set(state, c, "GAME_STARTING")
           /\ play' = Set(play, c, IF play[c] = "none" THEN "top" ELSE play[c])
           /\ told' = Set(told, c, m.from)
           /\ UNCHANGED inbox
        \/ /\ m.command = "move"
           /\ state' = Set(state, c, "OPPONENT_MOVE")
           /\ UNCHANGED <<play, inbox, told>>
        \/ /\ m.command = "ping" /\ SendFrom(c, "pong", 0)
           /\ UNCHANGED <<play, state, told>>
      BY <1>2 DEF listen_server
  <2> QED BY <2>1, <2>2, HearsStart, HearsMove, HearsPing
<1> QED BY <1>1, <1>2 DEF listen_server
-----------------------------------------------------------------------------
(* play_game.                                                              *)

\* A step of play_game leaves alone what is sent to the client, and the others.
PlayStep(c) ==
    /\ phase[c] = "running" /\ play[c] # "none"
    /\ UNCHANGED <<tableVars, up, message, phase, arg, to_client, exited, told>>
    /\ play' \in [Clients -> {"none", "top", "store"}] /\ state' \in [Clients -> States]
    /\ stored' \in [Clients -> States] /\ board' \in [Clients -> Boards] /\ is_client_O' \in [Clients -> BOOLEAN]
    /\ \A d \in Clients : d # c => /\ play'[d] = play[d] /\ state'[d] = state[d] /\ stored'[d] = stored[d]
                                   /\ board'[d] = board[d] /\ is_client_O'[d] = is_client_O[d]

LEMMA PlayedByOne ==
    ASSUME NEW c \in Clients, PlayStep(c), NEW d \in Clients, d # c
    PROVE  Same(d) /\ SameView(d)
<1>1. Same(d)
    BY DEF PlayStep, Same
<1> QED BY <1>1, ViewKept

LEMMA PlayFrame ==
    ASSUME Core, NEW c \in Clients, PlayStep(c),
           inbox' = inbox \/ (told[c] # NULL /\ \E pos \in Positions : SendFrom(c, "move", pos)),
           StateOf(c)', Rivals[c] # NULL => SignO(c)' = SignO(c),
           \A d \in Clients : c # d /\ Rivals[c] = d /\ OnItsOwn(c) /\ OnItsOwn(d) /\ Match(c, d)
                                => Match(c, d)'
    PROVE  Core'
<1>0. Types
    BY DEF Core
<1>1. \/ inbox' = inbox
      \/ \E m \in Messages : /\ m.from = c /\ m.command = "move" /\ m.arg \in Positions /\ told[c] # NULL
                             /\ inbox' = [inbox EXCEPT ![SocketOf(c)] = Append(@, m)]
  <2>1. Positions \subseteq Args
      BY DEF Args
  <2> QED BY <1>0, <2>1, SendFromPosts, Fields
<1>2. Types'
  <2>1. inbox' \in [Sockets -> Seq(Messages)]
    <3>1. Positions \subseteq Args
        BY DEF Args
    <3>2. inbox \in [Sockets -> Seq(Messages)]
        BY <1>0 DEF Types
    <3> QED BY <1>0, <3>1, <3>2, SendFromPosts
  <2> QED BY <1>0, <2>1 DEF PlayStep, Types, tableVars
<1>3. StepOf(c)
    BY <1>0, <1>1, <1>2 DEF StepOf, Same, PlayStep, Types
<1>4. ServerMail'
  <2>1. \A n : n.from = c /\ n.command = "move" /\ n.arg \in Positions /\ told[c] # NULL => FromClient(n, phase', told')
      BY DEF FromClient, PlayStep
  <2> QED BY <1>1, <1>3, <2>1, ServerMailKept
<1>5. JoinsBy(c)'
  <2>1. ~Unheard(c)
      BY DEF Unheard, PlayStep
  <2> QED BY <1>1, <1>3, <2>1, JoinsKept
<1>6. ToldOnce(to_client'[c], told'[c]) /\ Rivals'[c] = Rivals[c]
    BY DEF Core, ToldOnceEach, Rivals, PlayStep
<1> QED BY <1>3, <1>4, <1>5, <1>6, ClientFrame

\* The views of the players and what is under way are what they were.
LEMMA PlayUnseen ==
    ASSUME Core, NEW c \in Clients, PlayStep(c), inbox' = inbox,
           Mode(c)' = Mode(c), Board(c)' = Board(c), StateOf(c)', Rivals[c] # NULL => SignO(c)' = SignO(c)
    PROVE  Core'
<1>1. ASSUME NEW d \in Clients, c # d, Rivals[c] = d, Match(c, d)
      PROVE  Match(c, d)'
  <2>1. SameView(d) /\ SameView(c)
      BY <1>1, PlayedByOne, NobodyIsNull DEF SameView, PlayStep
  <2>2. SameSent(c, d) /\ SameSent(d, c)
      BY SentKept DEF Core, PlayStep
  <2> QED BY <1>1, <2>1, <2>2, MatchKept
<1> QED BY <1>1, PlayFrame

LEMMA RunningState ==
    ASSUME Core, NEW c \in Clients, phase[c] = "running"
    PROVE  /\ Types /\ ~exited[c] /\ (IF told[c] = NULL THEN Untold(c) ELSE Plays(c))
           /\ told[c] # NULL => StartsIn(to_client[c]) = {} /\ Rivals[c] = told[c]
           /\ told[c] = NULL /\ Rivals[c] # NULL => StartsIn(to_client[c]) # {}
BY DEF Core, Types, ClientStates, StateOf, ToldOnceEach, ToldOnce, Rivals, Rival

LEMMA StoreStep ==
    ASSUME Core, NEW c \in Clients, Store(c), UNCHANGED <<tableVars, up, message>>
    PROVE  Core'
<1>0. /\ Types /\ ~exited[c] /\ (IF told[c] = NULL THEN Untold(c) ELSE Plays(c))
      /\ phase[c] = "running" /\ play[c] = "store"
    BY RunningState DEF Store
<1>1. PlayStep(c)
    BY <1>0 DEF PlayStep, Store, NoMessage, Set, Types
<1>2. /\ play'[c] = "top" /\ state'[c] = stored[c] /\ inbox' = inbox
      /\ UNCHANGED <<phase, stored, arg, board, is_client_O, told, exited, to_client>>
    BY <1>0 DEF Store, NoMessage, Set, Types
<1>3. IF told[c] = NULL THEN stored[c] = "WAITING" /\ state[c] = "GAME_STARTING"
      ELSE stored[c] \in {"MOVE", "WAITING_FOR_MOVE"} /\ state[c] \in {"GAME_STARTING", "OPPONENT_MOVE", "MOVE"}
    BY <1>0 DEF Untold, Plays
<1>4. StateOf(c)'
    BY <1>0, <1>2, <1>3 DEF StateOf, Untold, Plays
<1>5. HasBoard(c)' = HasBoard(c)
    BY <1>0, <1>2, <1>3 DEF HasBoard, AtTop
<1>6. Mode(c)' = Mode(c) /\ Board(c)' = Board(c)
    BY <1>0, <1>2, <1>5 DEF Mode, Board
<1>7. SignO(c)' = SignO(c)
  <2>1. ~AtTop(c, "GAME_STARTING") /\ ~AtTop(c, "GAME_STARTING")'
      BY <1>0, <1>2, <1>3 DEF AtTop
  <2> QED BY <1>2, <2>1 DEF SignO
<1> QED BY <1>1, <1>2, <1>4, <1>6, <1>7, PlayUnseen

LEMMA NewBoard == new_board \in Boards /\ new_board.move = 1 /\ ~GameOver(new_board)
<1>1. new_board \in Boards /\ new_board.move = 1
    BY MovesStayBoards DEF new_board
<1>2. \A p \in Positions : new_board.objects[p] = FREE
    BY DEF new_board
<1>3. ~Finished(new_board)
    BY <1>2 DEF Finished, Won, Positions, FREE, O, X
<1> QED BY <1>1, <1>3, RulesKept

LEMMA StartGameStep ==
    ASSUME Core, NEW c \in Clients, StartGame(c), UNCHANGED <<tableVars, up, message>>
    PROVE  Core'
<1>0. /\ Types /\ ~exited[c] /\ (IF told[c] = NULL THEN Untold(c) ELSE Plays(c))
      /\ told[c] # NULL => StartsIn(to_client[c]) = {} /\ Rivals[c] = told[c]
      /\ told[c] = NULL /\ Rivals[c] # NULL => StartsIn(to_client[c]) # {}
      /\ phase[c] = "running" /\ play[c] = "top" /\ state[c] = "GAME_STARTING"
    BY RunningState DEF StartGame, AtTop
<1>1. IF told[c] = NULL THEN arg[c] \in {"name_taken", "no_enemy"} ELSE arg[c] \in {"O", "X"}
    BY <1>0 DEF Untold, Plays
<1>2. CASE arg[c] = "name_taken" /\ exit(c) /\ UNCHANGED <<inbox, told, raced>>
    BY <1>0, <1>2, ExitStep
<1>3. CASE /\ arg[c] = "no_enemy" /\ ToStore(c, "WAITING")
           /\ UNCHANGED <<phase, arg, board, is_client_O>> /\ NoMessage
  <2>1. PlayStep(c)
      BY <1>0, <1>3 DEF PlayStep, NoMessage, Set, Types, ToStore, States
  <2>2. /\ told[c] = NULL /\ play'[c] = "store" /\ stored'[c] = "WAITING" /\ inbox' = inbox
        /\ UNCHANGED <<phase, state, arg, board, is_client_O, told, exited, to_client>>
      BY <1>0, <1>1, <1>3 DEF NoMessage, Set, Types, ToStore
  <2>3. StateOf(c)'
      BY <1>0, <2>2 DEF StateOf, Untold
  <2>4. ~HasBoard(c) /\ ~HasBoard(c)'
      BY <1>0, <2>2 DEF HasBoard, AtTop
  <2>5. Mode(c)' = Mode(c) /\ Board(c)' = Board(c)
      BY <2>4 DEF Mode, Board
  <2>6. Rivals[c] # NULL => SignO(c)' = SignO(c)
      BY <1>0, <2>2 DEF SignO
  <2> QED BY <2>1, <2>2, <2>3, <2>5, <2>6, PlayUnseen
<1>4. CASE /\ arg[c] \notin {"name_taken", "no_enemy"}
           /\ board' = Set(board, c, new_board)
           /\ is_client_O' = Set(is_client_O, c, arg[c] = "O")
           /\ ToStore(c, IF arg[c] = "O" THEN "MOVE" ELSE "WAITING_FOR_MOVE")
           /\ UNCHANGED <<phase, arg>> /\ NoMessage
  <2>1. PlayStep(c)
      BY <1>0, <1>4, NewBoard DEF PlayStep, NoMessage, Set, Types, ToStore, States
  <2>2. /\ told[c] # NULL /\ play'[c] = "store" /\ board'[c] = new_board /\ is_client_O'[c] = (arg[c] = "O")
        /\ stored'[c] = (IF arg[c] = "O" THEN "MOVE" ELSE "WAITING_FOR_MOVE") /\ inbox' = inbox
        /\ UNCHANGED <<phase, state, arg, told, exited, to_client, message>>
      BY <1>0, <1>1, <1>4 DEF NoMessage, Set, Types, ToStore
  <2>3. StateOf(c)'
      BY <1>0, <2>2 DEF StateOf, Plays
  <2>4. ~HasBoard(c) /\ HasBoard(c)'
      BY <1>0, <2>2 DEF HasBoard, AtTop
  <2>5. Mode(c) = "none" /\ Board(c) = new_board /\ Mode(c)' = stored'[c] /\ Board(c)' = new_board
      BY <2>2, <2>4 DEF Mode, Board
  <2>6. SignO(c) = (arg[c] = "O") /\ SignO(c)' = SignO(c)
      BY <1>0, <2>2 DEF SignO, AtTop
  <2>7. ASSUME NEW d \in Clients, c # d, Rivals[c] = d, OnItsOwn(d), Match(c, d)
        PROVE  Match(c, d)'
    <3>1. SameView(d) /\ SameSent(c, d) /\ SameSent(d, c)
        BY <1>0, <2>1, <2>2, <2>7, PlayedByOne, SentKept
    <3>2. SignO(d) = ~SignO(c)
      <4>1. ~exited[d]
          BY <2>7 DEF Core, ClientStates, StateOf, OnItsOwn
      <4> QED BY <1>0, <2>7, <4>1, RivalsDiffer
    <3>3. CASE Quiet(c, d)
      <4>1. Mode(c)' = ModeAt(Board(c), c)'
          BY <2>2, <2>5, <2>6, NewBoard DEF ModeAt
      <4>2. Quiet(c, d)'
          BY <2>5, <3>1, <3>3, <4>1 DEF Quiet, SameView, SameSent, ModeAt
      <4> QED BY <4>2 DEF Match
    <3>4. ASSUME NEW p \in Positions, Ahead(d, c, p)
          PROVE  Match(c, d)'
      <4>1. SignO(d)
          BY <2>5, <3>4, NewBoard DEF Ahead
      <4>2. Mode(c)' = "WAITING_FOR_MOVE" /\ OneSent(d, c, p)
          BY <2>2, <2>5, <2>6, <3>2, <3>4, <4>1 DEF Ahead
      <4>3. Ahead(d, c, p)'
          BY <2>5, <3>1, <3>4, <4>2 DEF Ahead, SameView, SameSent, ModeAt
      <4> QED BY <4>3 DEF Match
    <3>5. ASSUME NEW p \in Positions, Ahead(c, d, p)
          PROVE  FALSE
        BY <2>5, <3>5 DEF Ahead, ModeAt
    <3> QED BY <2>7, <3>3, <3>4, <3>5 DEF Match
  <2> QED BY <2>1, <2>2, <2>3, <2>6, <2>7, PlayFrame
<1> QED BY <1>2, <1>3, <1>4 DEF StartGame

\* After a move it is the turn of the other.
LEMMA MoveTurns ==
    ASSUME NEW b \in Boards, NEW p, CanMove(b, p)
    PROVE  move(b, p) \in Boards /\ (move(b, p).move = 1) = ~(b.move = 1)
<1>1. move(b, p) \in Boards
    BY MovesStayBoards
<1>2. move(b, p).move = 1 - b.move /\ b.move \in {0, 1}
    BY DEF move, Boards
<1> QED BY <1>1, <1>2

\* A client that has just placed a move: the game is over, or it stores what comes next.
LEMMA CheckGame ==
    ASSUME Types, NEW c \in Clients, NEW next \in {"MOVE", "WAITING_FOR_MOVE"}, check_game(c, next),
           AtTop(c, "MOVE") \/ AtTop(c, "OPPONENT_MOVE"),
           UNCHANGED <<phase, arg, is_client_O, told, exited, to_client>>, told[c] # NULL, ~exited[c]
    PROVE  /\ play' \in [Clients -> {"none", "top", "store"}] /\ state' \in [Clients -> States]
           /\ stored' \in [Clients -> States]
           /\ \A d \in Clients : d # c => /\ play'[d] = play[d] /\ state'[d] = state[d]
                                          /\ stored'[d] = stored[d]
           /\ HasBoard(c)' /\ Mode(c)' = IF GameOver(board'[c]) THEN "QUIT" ELSE next
           /\ StateOf(c)' /\ SignO(c)' = SignO(c)
<1>0. phase[c] = "running" /\ play[c] = "top" /\ state[c] \in {"MOVE", "OPPONENT_MOVE"}
    BY DEF AtTop
<1>1. \/ /\ GameOver(board'[c]) /\ state' = Set(state, c, "QUIT") /\ UNCHANGED <<play, stored>>
      \/ ~GameOver(board'[c]) /\ ToStore(c, next)
    BY DEF check_game
<1>2. /\ play' \in [Clients -> {"none", "top", "store"}] /\ state' \in [Clients -> States]
      /\ stored' \in [Clients -> States]
      /\ \A d \in Clients : d # c => /\ play'[d] = play[d] /\ state'[d] = state[d]
                                     /\ stored'[d] = stored[d]
  <2>1. CASE state' = Set(state, c, "QUIT") /\ UNCHANGED <<play, stored>>
      BY <2>1 DEF Types, Set, States
  <2>2. CASE ToStore(c, next)
      BY <2>2 DEF Types, Set, ToStore, States
  <2> QED BY <1>1, <2>1, <2>2
<1>3. IF GameOver(board'[c]) THEN play'[c] = "top" /\ state'[c] = "QUIT"
      ELSE play'[c] = "store" /\ stored'[c] = next /\ state'[c] = state[c]
    BY <1>0, <1>1 DEF Types, Set, ToStore
<1>4. HasBoard(c)'
    BY <1>0, <1>3 DEF HasBoard, AtTop
<1>5. Mode(c)' = IF GameOver(board'[c]) THEN "QUIT" ELSE next
    BY <1>3, <1>4 DEF Mode
<1>6. StateOf(c)'
    BY <1>0, <1>3 DEF StateOf, Plays, Types
<1>7. SignO(c)' = SignO(c)
  <2>1. ~AtTop(c, "GAME_STARTING") /\ ~AtTop(c, "GAME_STARTING")'
      BY <1>0, <1>3 DEF AtTop
  <2> QED BY <2>1 DEF SignO
<1> QED BY <1>2, <1>4, <1>5, <1>6, <1>7

\* The move that was noted is the last one under way: with it the boards are one.
LEMMA OpponentMoveStep ==
    ASSUME Core, NEW c \in Clients, OpponentMove(c), UNCHANGED <<tableVars, up, message>>
    PROVE  Core'
<1>0. /\ Types /\ ~exited[c] /\ (IF told[c] = NULL THEN Untold(c) ELSE Plays(c))
      /\ phase[c] = "running" /\ play[c] = "top" /\ state[c] = "OPPONENT_MOVE"
    BY RunningState DEF OpponentMove, AtTop
<1>1. told[c] # NULL /\ HasBoard(c) /\ Mode(c) = "OPPONENT_MOVE" /\ Board(c) = board[c] /\ board[c] \in Boards
    BY <1>0 DEF Untold, HasBoard, AtTop, Mode, Board, Types
<1>2. /\ board' = Set(board, c, move(board[c], arg[c])) /\ check_game(c, "MOVE") /\ AtTop(c, "OPPONENT_MOVE")
      /\ UNCHANGED <<phase, arg, is_client_O, inbox, to_client, exited, told>>
    BY DEF OpponentMove, NoMessage
<1>3. /\ play' \in [Clients -> {"none", "top", "store"}] /\ state' \in [Clients -> States]
      /\ stored' \in [Clients -> States]
      /\ \A d \in Clients : d # c => /\ play'[d] = play[d] /\ state'[d] = state[d]
                                     /\ stored'[d] = stored[d]
      /\ HasBoard(c)' /\ Mode(c)' = IF GameOver(board'[c]) THEN "QUIT" ELSE "MOVE"
      /\ StateOf(c)' /\ SignO(c)' = SignO(c)
    BY <1>0, <1>1, <1>2, CheckGame
<1>4. board' \in [Clients -> Boards] /\ board'[c] = move(board[c], arg[c]) /\ \A d \in Clients : d # c => board'[d] = board[d]
    BY <1>0, <1>1, <1>2, MovesStayBoards DEF Set, Types
<1>5. PlayStep(c)
    BY <1>0, <1>2, <1>3, <1>4 DEF PlayStep, Types
<1>6. ASSUME NEW d \in Clients, c # d, Rivals[c] = d, OnItsOwn(d), Match(c, d)
      PROVE  Match(c, d)'
  <2>1. SameView(d) /\ SameSent(c, d) /\ SameSent(d, c)
      BY <1>0, <1>2, <1>5, <1>6, PlayedByOne, SentKept DEF PlayStep
  <2>2. SignO(d) = ~SignO(c)
    <3>1. ~exited[d]
        BY <1>6 DEF Core, ClientStates, StateOf, OnItsOwn
    <3> QED BY <1>0, <1>6, <3>1, RivalsDiffer
  <2>3. PICK p \in Positions : Ahead(d, c, p)
      BY <1>1, <1>6 DEF Match, Quiet, Ahead, ModeAt
  <2>4. NoneSent(d, c) /\ NoneSent(c, d) /\ arg[c] = p /\ CanMove(board[c], p) /\ Board(d) = move(board[c], p)
      BY <1>1, <2>3 DEF Ahead
  <2>5. /\ (board[c].move = 1) = SignO(d) /\ Mode(d) = ModeAt(Board(d), d)
        /\ Board(c)' = Board(d) /\ board'[c] = Board(d) /\ (Board(d).move = 1) = ~(board[c].move = 1)
      BY <1>1, <1>3, <1>4, <2>3, <2>4, MoveTurns DEF Ahead, Board
  <2>6. SignO(c) \in BOOLEAN /\ SignO(d) \in BOOLEAN
      BY <1>0 DEF SignO, Types
  <2>7. Mode(c)' = ModeAt(Board(c), c)'
      BY <1>3, <2>2, <2>5, <2>6 DEF ModeAt
  <2>8. Quiet(c, d)'
      BY <2>1, <2>4, <2>5, <2>7 DEF Quiet, SameView, SameSent, ModeAt
  <2> QED BY <2>8 DEF Match
<1> QED BY <1>2, <1>3, <1>5, <1>6, PlayFrame

\* The player whose turn it is moves: it is ahead until the move has arrived.
LEMMA UserMoveStep ==
    ASSUME Core, NEW c \in Clients, UserMove(c), UNCHANGED <<tableVars, up, message>>
    PROVE  Core'
<1>0. /\ Types /\ ~exited[c] /\ (IF told[c] = NULL THEN Untold(c) ELSE Plays(c))
      /\ phase[c] = "running" /\ play[c] = "top" /\ state[c] = "MOVE" /\ AtTop(c, "MOVE")
    BY RunningState DEF UserMove, AtTop
<1>1. told[c] # NULL /\ HasBoard(c) /\ Mode(c) = "MOVE" /\ Board(c) = board[c] /\ board[c] \in Boards
    BY <1>0 DEF Untold, HasBoard, AtTop, Mode, Board, Types
<1>2. PICK pos \in Typed(c, board[c]) :
         CanMove(board[c], pos) /\ board' = Set(board, c, move(board[c], pos)) /\ SendFrom(c, "move", pos)
    BY DEF UserMove
<1>3. pos \in Positions /\ pos \in Args
    BY <1>1, ClientAssumption DEF Args
<1>4. check_game(c, "WAITING_FOR_MOVE") /\ UNCHANGED <<phase, arg, is_client_O, to_client, exited, told>>
    BY DEF UserMove
<1>5. /\ play' \in [Clients -> {"none", "top", "store"}] /\ state' \in [Clients -> States]
      /\ stored' \in [Clients -> States]
      /\ \A d \in Clients : d # c => /\ play'[d] = play[d] /\ state'[d] = state[d]
                                     /\ stored'[d] = stored[d]
      /\ HasBoard(c)' /\ Mode(c)' = IF GameOver(board'[c]) THEN "QUIT" ELSE "WAITING_FOR_MOVE"
      /\ StateOf(c)' /\ SignO(c)' = SignO(c)
    BY <1>0, <1>1, <1>4, CheckGame
<1>6. board' \in [Clients -> Boards] /\ board'[c] = move(board[c], pos) /\ \A d \in Clients : d # c => board'[d] = board[d]
    BY <1>0, <1>1, <1>2, MovesStayBoards DEF Set, Types
<1>7. PlayStep(c)
    BY <1>0, <1>4, <1>5, <1>6 DEF PlayStep, Types
<1>8. ASSUME NEW d \in Clients, c # d, Rivals[c] = d, OnItsOwn(d), Match(c, d)
      PROVE  Match(c, d)'
  <2> DEFINE m == Message("move", pos, c)
  <2>1. /\ m \in Messages /\ m.from = c /\ m.command = "move" /\ m.arg = pos
        /\ inbox' = [inbox EXCEPT ![SocketOf(c)] = Append(@, m)]
      BY <1>0, <1>2, <1>3, SendFromPosts, Fields
  <2> HIDE DEF m
  <2>2. SameView(d)
      BY <1>7, <1>8, PlayedByOne
  <2>3. SameSent(d, c)
    <3>1. Posts(m) /\ ~IsMove(m, {d})
        BY <1>8, <2>1, SocketsOf DEF Posts, IsMove
    <3> QED BY <1>0, <1>4, <1>7, <2>1, <3>1, SentKept DEF PlayStep
  <2>4. SignO(d) = ~SignO(c) /\ SignO(c) \in BOOLEAN /\ SignO(d) \in BOOLEAN
    <3>1. ~exited[d]
        BY <1>8 DEF Core, ClientStates, StateOf, OnItsOwn
    <3>2. SignO(c) \in BOOLEAN /\ SignO(d) \in BOOLEAN
        BY <1>0 DEF SignO, Types
    <3> QED BY <1>0, <1>8, <3>1, <3>2, RivalsDiffer
  <2>5. Quiet(c, d) /\ ModeAt(board[c], c) = "MOVE"
    <3>1. ASSUME NEW p \in Positions, Ahead(c, d, p)
          PROVE  FALSE
      <4>1. /\ board[c] = move(Board(d), p) /\ CanMove(Board(d), p) /\ (Board(d).move = 1) = SignO(c)
            /\ ModeAt(board[c], c) = "MOVE"
          BY <1>1, <3>1 DEF Ahead
      <4>2. (board[c].move = 1) = ~(Board(d).move = 1)
          BY <1>0, <4>1, BoardsAreBoards, MoveTurns
      <4> QED BY <4>1, <4>2, <2>4 DEF ModeAt
    <3>2. \A p : ~Ahead(d, c, p)
        BY <1>1 DEF Ahead
    <3> QED BY <1>1, <1>8, <3>1, <3>2 DEF Match, Quiet
  <2>6. /\ NoneSent(c, d) /\ NoneSent(d, c) /\ Board(d) = board[c] /\ Mode(d) \in {"none", "WAITING_FOR_MOVE"}
        /\ ~GameOver(board[c]) /\ (board[c].move = 1) = SignO(c)
      BY <1>1, <2>4, <2>5 DEF Quiet, ModeAt
  <2>7. OneSent(c, d, pos)'
    <3>1. OneMove(inbox'[SocketOf(c)], {c}, pos)
      <4>1. inbox[SocketOf(c)] \in Seq(Messages) /\ inbox'[SocketOf(c)] = Append(inbox[SocketOf(c)], m)
          BY <1>0, <2>1, SocketsOf DEF Types
      <4>2. IsMove(m, {c}) /\ NoMoves(inbox[SocketOf(c)], {c})
          BY <2>1, <2>6 DEF IsMove, NoneSent
      <4> QED BY <4>1, <4>2, <2>1, AppendAddsMove
    <3> QED BY <3>1, <2>6, <1>4, <1>7 DEF NoneSent, OneSent, PlayStep
  <2>8. Board(c)' = move(board[c], pos) /\ (Board(c)'.move = 1) = ~(board[c].move = 1)
      BY <1>1, <1>2, <1>5, <1>6, MoveTurns DEF Board
  <2>9. Mode(c)' = ModeAt(Board(c), c)'
      BY <1>5, <1>6, <2>4, <2>6, <2>8 DEF ModeAt
  <2>10. Ahead(c, d, pos)'
      BY <1>2, <2>2, <2>3, <2>6, <2>7, <2>8, <2>9, <1>5 DEF Ahead, SameView, SameSent
  <2> QED BY <2>10, <1>3 DEF Match
<1> QED BY <1>1, <1>2, <1>3, <1>5, <1>7, <1>8, PlayFrame

LEMMA ClientSteps ==
    ASSUME Core, NEW c \in Clients, ClientStep(c), ~raced', UNCHANGED <<tableVars, up, message>>
    PROVE  Core'
<1>1. CASE QuitAfterGame(c) \/ SIGINT(c)
  <2>1. phase[c] = "running" /\ exit(c) /\ SendFrom(c, "quit", 0) /\ UNCHANGED told
      BY <1>1 DEF QuitAfterGame, SIGINT, quit, AtTop
  <2> QED BY <2>1, ExitStep
<1> QED BY <1>1, InitConnectionStep, ListenStep, StartGameStep, OpponentMoveStep, UserMoveStep, StoreStep
        DEF ClientStep, play_game
-----------------------------------------------------------------------------
(* The server: no client acts, messages go on.                             *)

ServerFrame == UNCHANGED <<playVars, told, exited>> /\ up'

\* The views of all clients are what they were where nothing tells a client of a game.
LEMMA ViewsKept ==
    ASSUME ServerFrame, NEW c \in Clients,
           StartsIn(to_client'[c]) = {} <=> StartsIn(to_client[c]) = {},
           StartsIn(to_client[c]) # {} => StartOf(to_client'[c]) = StartOf(to_client[c])
    PROVE  SameView(c)
<1>1. HasBoard(c)' = HasBoard(c)
    BY DEF ServerFrame, playVars, HasBoard, AtTop
<1>2. Mode(c)' = Mode(c) /\ Board(c)' = Board(c) /\ arg' = arg
    BY <1>1 DEF ServerFrame, playVars, Mode, Board
<1>3. SignO(c)' = SignO(c)
    BY DEF ServerFrame, playVars, SignO, AtTop, StartOf
<1> QED BY <1>2, <1>3 DEF SameView

LEMMA StatesKept ==
    ASSUME ServerFrame
    PROVE  /\ ClientStates => ClientStates'
           /\ (\A e \in Clients : Rivals[e] # NULL => Rivals'[e] # NULL)
                => \A c \in Clients : OnItsOwn(c)' => OnItsOwn(c)
<1>1. ClientStates => ClientStates'
    BY DEF ServerFrame, playVars, ClientStates, StateOf, Untold, Plays
<1>2. ASSUME \A e \in Clients : Rivals[e] # NULL => Rivals'[e] # NULL, NEW c \in Clients, OnItsOwn(c)'
      PROVE  OnItsOwn(c)
  <2>1. \A e \in Clients : Played(e) => Played(e)'
      BY <1>2 DEF ServerFrame, playVars, Played
  <2> QED BY <1>2, <2>1, OwnNameIs DEF ServerFrame, playVars, OnItsOwn
<1> QED BY <1>1, <1>2

\* What a client is told of games stays what it was: what a step of the server has to show.
LEMMA ServerKeeps ==
    ASSUME Core, ServerFrame, Types', TableIsSound', Pairs', ServerMail', JoinsOnce', ToldOnceEach',
           \A c \in Clients : Rivals'[c] = Rivals[c] /\ SameView(c),
           \A c, d \in Clients : Rivals[c] = d /\ OnItsOwn(c) /\ OnItsOwn(d) => SameSent(c, d)
    PROVE  Core'
<1>1. ClientStates' /\ exited' = exited
    BY StatesKept DEF Core, ServerFrame
<1>2. Mutual'
    BY <1>1 DEF Core, Mutual, SameView
<1>3. ASSUME NEW c \in Clients, NEW d \in Clients, Rivals'[c] = d, OnItsOwn(c)', OnItsOwn(d)'
      PROVE  Match(c, d)'
  <2>1. Rivals[c] = d /\ OnItsOwn(c) /\ OnItsOwn(d)
      BY <1>3, StatesKept
  <2>2. ~exited[c] /\ ~exited[d]
      BY <2>1 DEF OnItsOwn, Core, ClientStates, StateOf
  <2>3. Rivals[d] = c
      BY <2>1, <2>2, RivalsDiffer
  <2>4. SameSent(c, d) /\ SameSent(d, c) /\ SameView(c) /\ SameView(d) /\ Match(c, d)
      BY <2>1, <2>3 DEF Core, GamesMatch
  <2> QED BY <2>4, MatchKept
<1> QED BY <1>1, <1>2, <1>3 DEF Core, GamesMatch

\* The main thread receives a message: it is the oldest of its socket.
LEMMA ReceiveStep ==
    ASSUME Core, up, Receive, UNCHANGED <<playVars, told, raced>>
    PROVE  Core'
<1>0. /\ Types /\ message = Nothing /\ UNCHANGED <<clients, online, clients_count, to_client, exited, told>>
      /\ ServerFrame
    BY DEF Core, Receive, ServerFrame, tableVars, playVars
<1>1. PICK s \in Sockets : /\ inbox[s] # <<>> /\ message' = Head(inbox[s])
                           /\ inbox' = [inbox EXCEPT ![s] = Tail(@)]
    BY DEF Receive
<1>2. /\ inbox[s] \in Seq(Messages) /\ inbox'[s] = Tail(inbox[s]) /\ message' \in Messages
      /\ \A t \in Sockets : t # s => inbox'[t] = inbox[t]
      /\ Types'
  <2>1. inbox[s] \in Seq(Messages) /\ inbox \in [Sockets -> Seq(Messages)]
      BY <1>0 DEF Types
  <2>2. Tail(inbox[s]) \in Seq(Messages) /\ Head(inbox[s]) \in Messages
      BY <1>1, <2>1, Rest
  <2>3. /\ inbox'[s] = Tail(inbox[s]) /\ \A t \in Sockets : t # s => inbox'[t] = inbox[t]
        /\ inbox' \in [Sockets -> Seq(Messages)]
      BY <1>1, <2>1, <2>2
  <2>4. Types'
      BY <1>0, <1>1, <2>2, <2>3 DEF Types, ServerFrame, playVars
  <2> QED BY <1>1, <2>1, <2>2, <2>3, <2>4
<1>3. /\ 1 \in DOMAIN inbox[s] /\ message' = inbox[s][1]
      /\ \A k \in DOMAIN inbox'[s] : k + 1 \in DOMAIN inbox[s] /\ k + 1 # 1 /\ inbox'[s][k] = inbox[s][k + 1]
      /\ \A j, k \in DOMAIN inbox'[s] : j + 1 = k + 1 => j = k
  <2>1. /\ Len(inbox[s]) \in Nat /\ Len(inbox[s]) > 0 /\ DOMAIN inbox[s] = 1..Len(inbox[s])
        /\ Head(inbox[s]) = inbox[s][1] /\ DOMAIN Tail(inbox[s]) = 1..(Len(inbox[s]) - 1)
        /\ \A k \in 1..(Len(inbox[s]) - 1) : Tail(inbox[s])[k] = inbox[s][k + 1]
      BY <1>1, <1>2, Rest
  <2>2. inbox'[s] = Tail(inbox[s]) /\ message' = Head(inbox[s])
      BY <1>1, <1>2
  <2> QED BY <2>1, <2>2
<1>4. SocketOf(message'.from) = s /\ FromClient(message', phase, told)
    BY <1>3 DEF Core, ServerMail
<1>5. ServerMail'
  <2>1. \A m : FromClient(m, phase', told') <=> FromClient(m, phase, told)
      BY <1>0 DEF ServerFrame, playVars
  <2>2. ASSUME NEW t \in Sockets, NEW k \in DOMAIN inbox'[t]
        PROVE  FromClient(inbox'[t][k], phase, told) /\ SocketOf(inbox'[t][k].from) = t
    <3>1. \A j \in DOMAIN inbox[t] : FromClient(inbox[t][j], phase, told) /\ SocketOf(inbox[t][j].from) = t
        BY DEF Core, ServerMail
    <3>2. CASE t = s
        BY <1>3, <2>2, <3>1, <3>2
    <3>3. CASE t # s
        BY <1>2, <2>2, <3>1, <3>3
    <3> QED BY <3>2, <3>3
  <2> QED BY <1>4, <2>1, <2>2 DEF ServerMail
<1>6. ASSUME NEW c \in Clients
      PROVE  JoinsBy(c)'
  <2>1. Unheard(c)' <=> Unheard(c)
      BY <1>0 DEF Unheard, ServerFrame, playVars
  <2>2. JoinsBy(c) /\ phase'[c] = phase[c] /\ SocketOf(c) \in Sockets
      BY <1>0, SocketsOf DEF Core, JoinsOnce, ServerFrame, playVars
  <2>3. CASE SocketOf(c) # s
    <3>1. ~Joins(message', c) /\ inbox'[SocketOf(c)] = inbox[SocketOf(c)] /\ ~Joins(message, c)
        BY <1>0, <1>2, <1>4, <2>2, <2>3 DEF Joins, Nothing, Message
    <3> QED BY <2>1, <2>2, <3>1 DEF JoinsBy
  <2>4. CASE SocketOf(c) = s
    <3>1. \A k \in DOMAIN inbox[s] : Joins(inbox[s][k], c) =>
             Unheard(c) /\ \A j \in DOMAIN inbox[s] : Joins(inbox[s][j], c) => j = k
        BY <2>2, <2>4 DEF JoinsBy
    <3>2. Joins(message', c) => Unheard(c) /\ \A k \in DOMAIN inbox'[s] : ~Joins(inbox'[s][k], c)
        BY <1>3, <3>1
    <3>3. \A k \in DOMAIN inbox'[s] : Joins(inbox'[s][k], c) =>
             /\ Unheard(c) /\ \A j \in DOMAIN inbox'[s] : Joins(inbox'[s][j], c) => j = k
        BY <1>3, <3>1
    <3> QED BY <2>1, <2>2, <2>4, <3>2, <3>3 DEF JoinsBy
  <2> QED BY <2>3, <2>4
<1>7. ASSUME NEW c \in Clients, NEW d \in Clients
      PROVE  SameSent(c, d)
  <2>1. to_client' = to_client /\ ~IsMove(message, {c}) /\ SocketOf(c) \in Sockets
      BY <1>0, SocketsOf DEF IsMove, Nothing, Message
  <2>2. CASE SocketOf(c) # s
    <3>1. ~IsMove(message', {c}) /\ inbox'[SocketOf(c)] = inbox[SocketOf(c)]
        BY <1>2, <1>4, <2>1, <2>2 DEF IsMove
    <3> QED BY <2>1, <3>1 DEF SameSent, NoneSent, OneSent
  <2>3. CASE SocketOf(c) = s
    <3>1. inbox'[SocketOf(c)] = Tail(inbox[SocketOf(c)]) /\ message' = Head(inbox[SocketOf(c)])
        BY <1>1, <1>2, <2>3
    <3>2. /\ NoMoves(inbox[SocketOf(c)], {c}) => NoMoves(inbox'[SocketOf(c)], {c}) /\ ~IsMove(message', {c})
          /\ \A p : OneMove(inbox[SocketOf(c)], {c}, p) =>
                IF IsMove(message', {c}) THEN NoMoves(inbox'[SocketOf(c)], {c}) /\ message'.arg = p
                ELSE OneMove(inbox'[SocketOf(c)], {c}, p)
        BY <1>1, <1>2, <2>3, <3>1, TailKeepsMoves
    <3> QED BY <2>1, <3>2 DEF SameSent, NoneSent, OneSent
  <2> QED BY <2>2, <2>3
<1>8. \A c \in Clients : Rivals'[c] = Rivals[c] /\ SameView(c)
    BY <1>0, ViewsKept DEF Rivals, StartOf
<1>9. TableIsSound' /\ Pairs' /\ ToldOnceEach' /\ JoinsOnce'
  <2>1. TableIsSound'
      BY <1>0 DEF Core, TableIsSound, Occupied, Free
  <2>2. Pairs'
      BY <1>0 DEF Core, Pairs, Occupied, Rivals
  <2>3. ToldOnceEach'
      BY <1>0 DEF Core, ToldOnceEach
  <2> QED BY <1>6, <2>1, <2>2, <2>3 DEF JoinsOnce
<1> QED BY <1>0, <1>2, <1>5, <1>7, <1>8, <1>9, ServerKeeps

\* Some of the clients that are in the table are pinged, or told to quit.
Notified(c) ==
    \/ to_client'[c] = to_client[c]
    \/ \E m \in Messages : /\ m.command \in {"ping", "quit"}
                           /\ to_client'[c] = Append(to_client[c], m)
                           /\ \E i \in Slots : clients[i] = c

\* What has been received is handled, unless nothing was.
HandledOther == message' = message \/ (message' = Nothing /\ message.command # "move")

LEMMA NoticesStep ==
    ASSUME Core, ServerFrame, TableTypes', TableIsSound',
           to_client' = [c \in Clients |-> to_client'[c]], \A c \in Clients : Notified(c),
           Occupied' \subseteq Occupied,
           \A i \in Occupied' : /\ clients'[i] = clients[i]
                                /\ clients'[get_opponent(i)] = clients[get_opponent(i)],
           \A i \in Slots : clients'[i] \in {clients[i], NULL},
           inbox' = inbox, HandledOther
    PROVE  Core'
<1>0. /\ Types /\ UNCHANGED <<phase, play, state, stored, arg, board, is_client_O, told, exited>>
      /\ \A c \in Clients : to_client[c] \in Seq(Messages) /\ ToldOnce(to_client[c], told[c])
    BY DEF Core, ServerFrame, playVars, Types, ToldOnceEach
<1>1. Nothing \in Messages /\ Nothing.command = "nothing"
  <2>1. 0 \in Args
      BY DEF Args, Positions
  <2> QED BY <2>1, MessageTypes, Fields DEF Nothing, Senders
<1>2. ASSUME NEW c \in Clients
      PROVE  /\ to_client'[c] \in Seq(Messages) /\ ToldOnce(to_client'[c], told[c])
             /\ Rival(to_client'[c], told[c]) = Rival(to_client[c], told[c])
             /\ StartsIn(to_client'[c]) = StartsIn(to_client[c])
             /\ StartsIn(to_client[c]) # {} => StartOf(to_client'[c]) = StartOf(to_client[c])
             /\ NoMoves(to_client[c], Senders) => NoMoves(to_client'[c], Senders)
             /\ \A p : OneMove(to_client[c], Senders, p) => OneMove(to_client'[c], Senders, p)
             /\ Unheard(c) => Unheard(c)'
  <2>1. CASE to_client'[c] = to_client[c]
    <3>1. Unheard(c) => Unheard(c)'
        BY <1>0, <2>1, NobodyIsNull DEF Unheard
    <3> QED BY <1>0, <2>1, <3>1
  <2>2. CASE to_client'[c] # to_client[c]
    <3>1. PICK m \in Messages : /\ m.command \in {"ping", "quit"}
                               /\ to_client'[c] = Append(to_client[c], m)
                               /\ \E i \in Slots : clients[i] = c
        BY <2>2 DEF Notified
    <3>2. ~IsStart(m) /\ ~IsMove(m, Senders) /\ ~Unheard(c)
        BY <3>1 DEF IsStart, IsMove, Unheard
    <3>3. to_client'[c] \in Seq(Messages) /\ ToldOnce(to_client'[c], told[c])
        BY <1>0, <3>1, Appended, AppendNotice
    <3>4. /\ Rival(to_client'[c], told[c]) = Rival(to_client[c], told[c])
          /\ StartsIn(to_client'[c]) = StartsIn(to_client[c])
          /\ StartsIn(to_client[c]) # {} => StartOf(to_client'[c]) = StartOf(to_client[c])
      <4> DEFINE q == to_client[c]
      <4>1. q \in Seq(Messages) /\ to_client'[c] = Append(q, m)
          BY <1>0, <3>1
      <4> HIDE DEF q
      <4>2. /\ StartsIn(Append(q, m)) = StartsIn(q)
            /\ StartsIn(q) # {} => StartOf(Append(q, m)) = StartOf(q)
            /\ Rival(Append(q, m), told[c]) = Rival(q, told[c])
          BY <3>2, <4>1, AppendOther
      <4> QED BY <4>1, <4>2 DEF q
    <3>5. /\ NoMoves(to_client[c], Senders) => NoMoves(to_client'[c], Senders)
          /\ \A p : OneMove(to_client[c], Senders, p) => OneMove(to_client'[c], Senders, p)
      <4>1. to_client[c] \in Seq(Messages) /\ m \in Messages
          BY <1>0
      <4> QED BY <3>1, <3>2, <4>1, AppendKeepsMoves
    <3> QED BY <3>2, <3>3, <3>4, <3>5
  <2> QED BY <2>1, <2>2
<1>3. Types'
  <2>1. to_client' \in [Clients -> Seq(Messages)] /\ message' \in Messages
      BY <1>0, <1>1, <1>2 DEF HandledOther, Types
  <2> QED BY <1>0, <2>1 DEF Types, TableTypes
<1>4. Rivals' = Rivals /\ \A c \in Clients : SameView(c)
  <2>1. Rivals' = Rivals
      BY <1>0, <1>2, RivalsKept
  <2>2. \A c \in Clients : SameView(c)
      BY <1>2, ViewsKept
  <2> QED BY <2>1, <2>2
<1>5. Pairs'
  <2>1. \A i \in Occupied' : clients[i] \in Clients
      BY DEF Occupied, Core, Types
  <2> QED BY <1>0, <1>4, <2>1, PairsKept DEF Core
<1>6. ServerMail'
    BY <1>0 DEF Core, ServerMail, FromClient, HandledOther
<1>7. ToldOnceEach'
    BY <1>0, <1>2 DEF ToldOnceEach
<1>8. JoinsOnce'
  <2>1. \A c \in Clients : Joins(message', c) => Joins(message, c)
      BY <1>1 DEF Joins, HandledOther
  <2>2. ASSUME NEW c \in Clients
        PROVE  JoinsBy(c)'
    <3>1. JoinsBy(c) /\ (Unheard(c) => Unheard(c)')
        BY <1>2 DEF Core, JoinsOnce
    <3> QED BY <1>0, <2>1, <3>1 DEF JoinsBy
  <2> QED BY <2>2 DEF JoinsOnce
<1>9. ASSUME NEW c \in Clients, NEW d \in Clients
      PROVE  SameSent(c, d)
  <2>1. IsMove(message', {c}) <=> IsMove(message, {c})
      BY <1>1 DEF IsMove, HandledOther
  <2>2. IsMove(message, {c}) => message'.arg = message.arg
      BY DEF IsMove, HandledOther
  <2> QED BY <1>2, <2>1, <2>2 DEF SameSent, NoneSent, OneSent
<1>10. \A c \in Clients : Rivals'[c] = Rivals[c]
    BY <1>4
<1> QED BY <1>3, <1>4, <1>5, <1>6, <1>7, <1>8, <1>9, <1>10, ServerKeeps

\* Notices to clients of the table are what Notified says.
LEMMA NoticesAreNotified ==
    ASSUME NEW notices, to_client' = Sent(notices),
           \A c \in DOMAIN notices : /\ \E i \in Slots : clients[i] = c
                                     /\ notices[c] \in {Message("ping", 0, NULL), Message("quit", 0, NULL)}
    PROVE  to_client' = [c \in Clients |-> to_client'[c]] /\ \A c \in Clients : Notified(c)
<1>1. Message("ping", 0, NULL) \in Messages /\ Message("quit", 0, NULL) \in Messages
  <2>1. 0 \in Args
      BY DEF Args, Positions
  <2> QED BY <2>1, MessageTypes DEF Senders
<1>2. \A c \in Clients : to_client'[c] = IF c \in DOMAIN notices /\ ~exited[c] THEN Append(to_client[c], notices[c])
                                         ELSE to_client[c]
    BY DEF Sent
<1>3. to_client' = [c \in Clients |-> to_client'[c]]
    BY DEF Sent
<1>4. ASSUME NEW c \in DOMAIN notices, c \in Clients, ~exited[c]
      PROVE  Notified(c)
  <2>1. notices[c] \in Messages /\ notices[c].command \in {"ping", "quit"}
      BY <1>1, <1>4, Fields
  <2> QED BY <1>2, <1>4, <2>1 DEF Notified
<1> QED BY <1>2, <1>3, <1>4 DEF Notified

\* Only clients of the table are told to quit.
LEMMA QuitToTable ==
    ASSUME NEW leaving, leaving \subseteq Occupied
    PROVE  /\ DOMAIN QuitTo(Told(leaving)) = {clients[i] : i \in Told(leaving)}
           /\ \A c \in DOMAIN QuitTo(Told(leaving)) :
                (\E i \in Slots : clients[i] = c) /\ QuitTo(Told(leaving))[c] = Message("quit", 0, NULL)
<1>1. Told(leaving) \subseteq Slots
    BY Opponents DEF Told, Removed, Occupied
<1>2. /\ DOMAIN QuitTo(Told(leaving)) = {clients[i] : i \in Told(leaving)}
      /\ \A c \in DOMAIN QuitTo(Told(leaving)) : QuitTo(Told(leaving))[c] = Message("quit", 0, NULL)
    BY DEF QuitTo
<1>3. \A c \in {clients[i] : i \in Told(leaving)} : \E i \in Slots : clients[i] = c
    BY <1>1
<1> QED BY <1>2, <1>3, Zenon

\* What the server does when it receives "quit" or "pong", and the ping thread.
LEMMA QuitStep ==
    ASSUME Core, ServerFrame, message.command = "quit", Quit(message.from), message' = Nothing, inbox' = inbox
    PROVE  Core'
<1> DEFINE leaving == get_by_name(message.from)
<1>1. remove_clients(leaving, TRUE) /\ to_client' = Sent(QuitTo(Told(leaving)))
    BY DEF Quit, GoDown, ServerFrame
<1>2. leaving \subseteq Occupied
    BY DEF get_by_name
<1>3. TableTypes /\ TableIsSound
    BY DEF TableTypes, Core, Types
<1> HIDE DEF leaving
<1>4. /\ TableTypes' /\ TableIsSound' /\ Occupied' \subseteq Occupied
      /\ \A i \in Occupied' : clients'[i] = clients[i] /\ clients'[get_opponent(i)] = clients[get_opponent(i)]
      /\ \A i \in Slots : clients'[i] \in {clients[i], NULL}
    BY <1>1, <1>2, <1>3, TableAfterRemoval
<1>5. to_client' = [c \in Clients |-> to_client'[c]] /\ \A c \in Clients : Notified(c)
  <2> DEFINE quits == QuitTo(Told(leaving))
  <2>1. \A c \in DOMAIN quits : (\E i \in Slots : clients[i] = c) /\ quits[c] = Message("quit", 0, NULL)
      BY <1>2, QuitToTable
  <2>2. to_client' = Sent(quits)
      BY <1>1
  <2> HIDE DEF quits
  <2> QED BY <2>1, <2>2, NoticesAreNotified
<1> QED BY <1>4, <1>5, NoticesStep DEF HandledOther

LEMMA PongStep ==
    ASSUME Core, ServerFrame, message.command = "pong", Pong(message.from), message' = Nothing, inbox' = inbox
    PROVE  Core'
<1>1. clients' = clients /\ clients_count' = clients_count /\ to_client' = to_client
    BY DEF Pong
<1>2. TableTypes' /\ TableIsSound' /\ Occupied' = Occupied
    BY <1>1 DEF TableTypes, Core, Types, TableIsSound, Occupied, Free
<1>3. to_client' = [c \in Clients |-> to_client'[c]]
    BY <1>1 DEF Core, Types
<1>4. \A c \in Clients : Notified(c)
    BY <1>1 DEF Notified
<1> QED BY <1>1, <1>2, <1>3, <1>4, NoticesStep DEF HandledOther

LEMMA PingStep ==
    ASSUME Core, ServerFrame, ping
    PROVE  Core'
<1> DEFINE pings == [c \in {clients[i] : i \in Occupied \ Removed(Silent)} |-> Message("ping", 0, NULL)]
           quits == QuitTo(Told(Silent))
           notices == [c \in DOMAIN pings \cup DOMAIN quits |-> IF c \in DOMAIN pings THEN pings[c] ELSE quits[c]]
<1>1. remove_clients(Silent, FALSE) /\ to_client' = Sent(notices) /\ message' = message /\ inbox' = inbox
    BY DEF ping
<1>2. Silent \subseteq Occupied
    BY DEF Silent
<1>3. TableTypes /\ TableIsSound
    BY DEF TableTypes, Core, Types
<1>4. /\ TableTypes' /\ TableIsSound' /\ Occupied' \subseteq Occupied
      /\ \A i \in Occupied' : clients'[i] = clients[i] /\ clients'[get_opponent(i)] = clients[get_opponent(i)]
      /\ \A i \in Slots : clients'[i] \in {clients[i], NULL}
    BY <1>1, <1>2, <1>3, TableAfterRemoval
<1>5. \A c \in DOMAIN notices : /\ \E i \in Slots : clients[i] = c
                                /\ notices[c] \in {Message("ping", 0, NULL), Message("quit", 0, NULL)}
  <2>1. \A c \in DOMAIN pings : (\E i \in Slots : clients[i] = c) /\ pings[c] = Message("ping", 0, NULL)
      BY DEF Occupied
  <2>2. \A c \in DOMAIN quits : (\E i \in Slots : clients[i] = c) /\ quits[c] = Message("quit", 0, NULL)
      BY <1>2, QuitToTable
  <2> HIDE DEF pings, quits
  <2> QED BY <2>1, <2>2
<1> HIDE DEF notices
<1>6. to_client' = [c \in Clients |-> to_client'[c]] /\ \A c \in Clients : Notified(c)
    BY <1>1, <1>5, NoticesAreNotified
<1> QED BY <1>1, <1>4, <1>6, NoticesStep DEF HandledOther

\* A client of the table has started.
LEMMA InTableStarted ==
    ASSUME Core, NEW c \in Clients, NEW i \in Slots, clients[i] = c
    PROVE  phase[c] \in {"running", "gone"}
<1>1. ~Unheard(c)
    BY DEF Unheard
<1> QED BY <1>1 DEF Core, JoinsOnce, JoinsBy, Types

\* A move that is handed on goes to the client that sits beside the name of its sender, and
\* that is its rival where the sender has its name for itself.
LEMMA MoveStep ==
    ASSUME Core, ServerFrame, message.command = "move", Move(message.from), message' = Nothing, inbox' = inbox
    PROVE  Core'
<1> DEFINE c == message.from
           i == First(get_by_name(c))
           j == get_opponent(i)
           rival == clients[j]
           m == Message("move", message.arg, c)
<1>0. /\ Types /\ c \in Clients /\ message.arg \in Positions /\ told[c] # NULL
      /\ phase[c] \in {"running", "gone"} /\ message # Nothing
  <2>1. message # Nothing
      BY Fields DEF Nothing
  <2> QED BY <2>1 DEF Core, ServerMail, FromClient
<1>1. /\ get_by_name(c) # {} /\ rival # NULL
      /\ to_client' = Sent([d \in {rival} |-> m])
      /\ UNCHANGED <<clients, online, clients_count>>
    BY DEF Move, GoDown, ServerFrame, tableVars
<1>2. /\ i \in Slots /\ i \in Occupied /\ j \in Slots /\ j \in Occupied /\ get_opponent(j) = i
      /\ Name(clients[i]) = Name(c) /\ clients[i] \in Clients /\ rival \in Clients
  <2>1. get_by_name(c) \subseteq Occupied /\ Occupied \subseteq Slots /\ Slots \subseteq Nat
      BY Opponents DEF get_by_name, Occupied
  <2>2. i \in get_by_name(c)
      BY <1>1, <2>1, FirstIsLeast
  <2>3. i \in Slots /\ i \in Occupied /\ j \in Slots /\ get_opponent(j) = i
      BY <2>1, <2>2, Opponents
  <2> QED BY <1>0, <1>1, <2>2, <2>3 DEF get_by_name, Occupied, Types
<1>3. ~exited[rival] => Rivals[rival] = clients[i]
    BY <1>2 DEF Core, Pairs, Occupied
<1>4. m \in Messages /\ m.command = "move" /\ m.from = c /\ m.arg = message.arg
  <2>1. message.arg \in Args
      BY <1>0 DEF Args
  <2> QED BY <1>0, <2>1, MessageTypes, Fields DEF Senders
<1> HIDE DEF m, c, rival, i, j
<1>5. ASSUME NEW d \in Clients
      PROVE  \/ to_client'[d] = to_client[d]
             \/ d = rival /\ ~exited[d] /\ to_client'[d] = Append(to_client[d], m)
    BY <1>1, <1>5 DEF Sent
<1>6. /\ UNCHANGED <<phase, play, state, stored, arg, board, is_client_O, told, exited>>
      /\ \A d \in Clients : to_client[d] \in Seq(Messages) /\ ToldOnce(to_client[d], told[d])
    BY <1>0 DEF Core, ServerFrame, playVars, Types, ToldOnceEach
<1>7. ~IsStart(m)
    BY <1>4 DEF IsStart
<1>8. ASSUME NEW d \in Clients
      PROVE  /\ to_client'[d] \in Seq(Messages) /\ ToldOnce(to_client'[d], told[d])
             /\ Rival(to_client'[d], told[d]) = Rival(to_client[d], told[d])
             /\ StartsIn(to_client'[d]) = StartsIn(to_client[d])
             /\ StartsIn(to_client[d]) # {} => StartOf(to_client'[d]) = StartOf(to_client[d])
             /\ Unheard(d) => Unheard(d)'
  <2> DEFINE q == to_client[d]
             t == told[d]
  <2>0. q \in Seq(Messages) /\ ToldOnce(q, t) /\ Rivals[d] = Rival(q, t)
      BY <1>6 DEF Rivals
  <2>1. CASE to_client'[d] = q
    <3>1. Unheard(d) => Unheard(d)'
        BY <1>1, <1>6, <2>1 DEF Unheard
    <3> QED BY <1>6, <2>1, <3>1
  <2>2. CASE d = rival /\ ~exited[d] /\ to_client'[d] = Append(q, m)
    <3>1. Rival(q, t) # NULL /\ ~Unheard(d)
        BY <1>2, <1>3, <2>0, <2>2, NobodyIsNull DEF Unheard, rival
    <3> HIDE DEF q, t
    <3>2. Append(q, m) \in Seq(Messages)
        BY <1>4, <2>0, Appended
    <3>3. ToldOnce(Append(q, m), t)
        BY <1>0, <1>4, <2>0, <3>1, AppendMove
    <3>4. /\ StartsIn(Append(q, m)) = StartsIn(q)
          /\ StartsIn(q) # {} => StartOf(Append(q, m)) = StartOf(q)
          /\ Rival(Append(q, m), t) = Rival(q, t)
        BY <1>4, <1>7, <2>0, AppendOther
    <3> QED BY <2>2, <3>1, <3>2, <3>3, <3>4 DEF q, t
  <2> QED BY <1>5, <2>1, <2>2
<1>9. Nothing \in Messages /\ Nothing.command = "nothing"
  <2>1. 0 \in Args
      BY DEF Args, Positions
  <2> QED BY <2>1, MessageTypes, Fields DEF Nothing, Senders
<1>10. Types' /\ TableIsSound'
  <2>1. to_client' \in [Clients -> Seq(Messages)] /\ message' \in Messages
    <3>1. to_client' = [d \in Clients |-> to_client'[d]]
        BY <1>1 DEF Sent
    <3> QED BY <1>8, <1>9, <3>1
  <2>2. Types'
      BY <1>0, <1>1, <1>6, <2>1 DEF Types
  <2>3. TableIsSound'
      BY <1>1 DEF Core, TableIsSound, Occupied, Free
  <2> QED BY <2>2, <2>3
<1>11. Rivals' = Rivals /\ \A d \in Clients : SameView(d)
  <2>1. Rivals' = Rivals
      BY <1>6, <1>8, RivalsKept
  <2>2. \A d \in Clients : SameView(d)
      BY <1>8, ViewsKept
  <2> QED BY <2>1, <2>2
<1>12. Pairs' /\ ServerMail' /\ ToldOnceEach' /\ JoinsOnce'
  <2>1. Pairs'
      BY <1>1, <1>6, <1>11 DEF Core, Pairs, Occupied
  <2>2. ServerMail'
      BY <1>6 DEF Core, ServerMail, FromClient
  <2>3. ToldOnceEach'
      BY <1>6, <1>8 DEF ToldOnceEach
  <2>4. ASSUME NEW d \in Clients
        PROVE  JoinsBy(d)'
    <3>1. JoinsBy(d) /\ (Unheard(d) => Unheard(d)') /\ ~Joins(message', d)
        BY <1>8, <1>9 DEF Core, JoinsOnce, Joins
    <3> QED BY <1>6, <3>1 DEF JoinsBy
  <2> QED BY <2>1, <2>2, <2>3, <2>4 DEF JoinsOnce
<1>13. ASSUME NEW d \in Clients, NEW e \in Clients, Rivals[d] = e, OnItsOwn(d), OnItsOwn(e)
       PROVE  SameSent(d, e)
  <2>1. ~exited[d] /\ ~exited[e]
      BY <1>13 DEF OnItsOwn, Core, ClientStates, StateOf
  <2>2. d # e /\ Rivals[e] = d
      BY <1>13, <2>1, RivalsDiffer
  <2>3. ~IsMove(message', {d})
      BY <1>9 DEF IsMove
  <2>4. CASE d = c
    <3>1. clients[i] = c
      <4>1. i \in Occupied /\ clients[i] \in Clients
          BY <1>2, InTableStarted
      <4>2. Rivals[clients[i]] # NULL \/ exited[clients[i]]
          BY <1>1, <4>1 DEF Core, Pairs, rival, j
      <4>3. Played(clients[i])
          BY <4>1, <4>2 DEF Played, Core, ClientStates, StateOf
      <4> QED BY <1>2, <1>13, <2>4, <4>1, <4>3, OwnNameIs DEF OnItsOwn
    <3>2. e = rival
      <4>1. Rivals[c] = clients[get_opponent(i)]
          BY <1>2, <1>13, <2>4, <3>1, NobodyIsNull DEF Core, Pairs
      <4> QED BY <4>1, <1>13, <2>4 DEF rival, j
    <3>3. to_client'[e] = Append(to_client[e], m)
        BY <1>1, <1>2, <2>1, <3>2 DEF Sent
    <3>4. IsMove(message, {d}) /\ IsMove(m, Senders)
        BY <1>0, <1>4, <2>4 DEF IsMove, c, Senders
    <3>5. NoMoves(to_client[e], Senders) => OneMove(to_client'[e], Senders, message.arg)
      <4>1. to_client[e] \in Seq(Messages)
          BY <1>6
      <4> QED BY <1>4, <3>3, <3>4, <4>1, AppendAddsMove
    <3> QED BY <2>3, <3>4, <3>5 DEF SameSent, NoneSent, OneSent
  <2>5. CASE d # c
    <3>1. e # rival
      <4>1. SUFFICES ASSUME e = rival
                     PROVE  FALSE
          OBVIOUS
      <4>2. clients[i] = d
          BY <1>3, <2>1, <2>2, <4>1
      <4>3. Rivals[c] # NULL
        <5>1. told[c] # NULL
            BY <1>0 DEF Core, ServerMail, FromClient, Nothing, Message, c
        <5> QED BY <1>0, <5>1 DEF Core, ToldOnceEach, ToldOnce, Rivals, Rival
      <4> QED BY <1>0, <1>2, <1>13, <2>5, <4>2, <4>3, OwnNameIs DEF OnItsOwn, Played
    <3>2. to_client'[e] = to_client[e]
        BY <1>5, <3>1
    <3>3. ~IsMove(message, {d})
        BY <2>5 DEF IsMove, c
    <3> QED BY <2>3, <3>2, <3>3 DEF SameSent, NoneSent, OneSent
  <2> QED BY <2>4, <2>5
<1>14. \A d \in Clients : Rivals'[d] = Rivals[d]
    BY <1>11
<1> QED BY <1>10, <1>11, <1>12, <1>13, <1>14, ServerKeeps

\* The client that the server is about to answer.
LEMMA Joining ==
    ASSUME Core, message.command = "add"
    PROVE  /\ message.from \in Clients /\ Unheard(message.from)
           /\ phase[message.from] \in {"running", "gone"}
           /\ \A k \in DOMAIN inbox[SocketOf(message.from)] :
                ~Joins(inbox[SocketOf(message.from)][k], message.from)
           /\ Nothing \in Messages /\ Nothing.command = "nothing"
<1>1. message # Nothing
    BY Fields DEF Nothing
<1>2. FromClient(message, phase, told)
    BY <1>1 DEF Core, ServerMail
<1>3. Joins(message, message.from) /\ JoinsBy(message.from)
    BY <1>2 DEF Joins, FromClient, Core, JoinsOnce
<1>4. Nothing \in Messages /\ Nothing.command = "nothing"
  <2>1. 0 \in Args
      BY DEF Args, Positions
  <2> QED BY <2>1, MessageTypes, Fields DEF Nothing, Senders
<1> QED BY <1>2, <1>3, <1>4 DEF FromClient, JoinsBy

\* A client comes: of the other clients, nobody that is unheard of is told anything.
LEMMA JoinsAfterAdd ==
    ASSUME Core, ServerFrame, message.command = "add", message' = Nothing, inbox' = inbox,
           \A d \in Clients : d # message.from /\ Unheard(d) => Unheard(d)'
    PROVE  ServerMail' /\ JoinsOnce'
<1>0. UNCHANGED <<phase, told>>
    BY DEF ServerFrame, playVars
<1>1. ServerMail'
    BY <1>0 DEF Core, ServerMail, FromClient
<1>2. ASSUME NEW d \in Clients
      PROVE  JoinsBy(d)'
  <2>1. JoinsBy(d) /\ ~Joins(message', d)
      BY Joining DEF Core, JoinsOnce, Joins
  <2>2. CASE d = message.from
      BY <1>0, <2>1, <2>2, Joining DEF JoinsBy
  <2>3. CASE d # message.from
      BY <1>0, <2>1, <2>3 DEF JoinsBy
  <2> QED BY <2>2, <2>3
<1> QED BY <1>1, <1>2 DEF JoinsOnce

\* The client is refused, or waits for another.
LEMMA NoGameStep ==
    ASSUME Core, ServerFrame, message.command = "add", message' = Nothing, inbox' = inbox,
           NEW answer \in {"name_taken", "no_enemy"},
           to_client' = Sent([d \in {message.from} |-> Message("add", answer, NULL)]),
           TableTypes', TableIsSound',
           \A i \in Slots : clients'[i] \in {clients[i], message.from},
           \A i \in Occupied' :
               \/ clients'[i] = message.from /\ clients'[get_opponent(i)] = NULL
               \/ /\ i \in Occupied /\ clients'[i] = clients[i]
                  /\ clients'[get_opponent(i)] = clients[get_opponent(i)]
    PROVE  Core'
<1> DEFINE c == message.from
           m == Message("add", answer, NULL)
<1>0. /\ Types /\ c \in Clients /\ Unheard(c) /\ Nothing \in Messages /\ Nothing.command = "nothing"
      /\ UNCHANGED <<phase, play, state, stored, arg, board, is_client_O, told, exited>>
      /\ told[c] = NULL /\ to_client[c] = <<>>
    BY Joining DEF Core, ServerFrame, playVars, Unheard
<1>1. m \in Messages /\ m.command = "add" /\ m.arg = answer /\ m.from = NULL
  <2>1. answer \in Args
      BY DEF Args
  <2> QED BY <2>1, MessageTypes, Fields DEF Senders
<1>2. /\ to_client' = [d \in Clients |-> to_client'[d]]
      /\ \A d \in Clients : d # c => to_client'[d] = to_client[d]
      /\ to_client'[c] \in {<<>>, Append(<<>>, m)}
    BY <1>0 DEF Sent
<1> HIDE DEF c, m
<1>3. ASSUME NEW d \in Clients
      PROVE  /\ to_client'[d] \in Seq(Messages) /\ ToldOnce(to_client'[d], told[d])
             /\ Rival(to_client'[d], told[d]) = Rival(to_client[d], told[d])
             /\ StartsIn(to_client'[d]) = StartsIn(to_client[d])
             /\ StartsIn(to_client[d]) # {} => StartOf(to_client'[d]) = StartOf(to_client[d])
             /\ NoMoves(to_client[d], Senders) => NoMoves(to_client'[d], Senders)
             /\ \A p : OneMove(to_client[d], Senders, p) => OneMove(to_client'[d], Senders, p)
             /\ d # c /\ Unheard(d) => Unheard(d)'
  <2>1. CASE to_client'[d] = to_client[d]
    <3>1. d # c /\ Unheard(d) => Unheard(d)'
        BY <1>0, <2>1 DEF Unheard, c
    <3>2. to_client[d] \in Seq(Messages) /\ ToldOnce(to_client[d], told[d])
        BY <1>0 DEF Core, Types, ToldOnceEach
    <3> QED BY <2>1, <3>1, <3>2
  <2>2. CASE d = c /\ to_client'[d] = Append(<<>>, m)
    <3>1. /\ ToldOnce(Append(<<>>, m), NULL) /\ Rival(Append(<<>>, m), NULL) = NULL
          /\ StartsIn(Append(<<>>, m)) = {} /\ Append(<<>>, m) \in Seq(Messages)
        BY <1>1, FirstAnswer
    <3>2. StartsIn(<<>>) = {} /\ Rival(<<>>, NULL) = NULL
        BY DEF StartsIn, Rival
    <3>3. /\ NoMoves(<<>>, Senders) => NoMoves(Append(<<>>, m), Senders)
          /\ \A p : OneMove(<<>>, Senders, p) => OneMove(Append(<<>>, m), Senders, p)
      <4>1. <<>> \in Seq(Messages) /\ ~IsMove(m, Senders)
          BY <1>1 DEF IsMove
      <4> QED BY <1>1, <4>1, AppendKeepsMoves
    <3> QED BY <1>0, <2>2, <3>1, <3>2, <3>3
  <2> QED BY <1>0, <1>2, <2>1, <2>2
<1>4. Types'
  <2>1. to_client' \in [Clients -> Seq(Messages)]
      BY <1>2, <1>3
  <2> QED BY <1>0, <2>1 DEF Types, TableTypes
<1>5. ServerMail' /\ JoinsOnce'
    BY <1>3, JoinsAfterAdd DEF c
<1>6. ToldOnceEach'
    BY <1>0, <1>3 DEF ToldOnceEach
<1>7. Rivals' = Rivals /\ \A d \in Clients : SameView(d)
  <2>1. Rivals' = Rivals
      BY <1>0, <1>3, RivalsKept
  <2>2. \A d \in Clients : SameView(d)
      BY <1>3, ViewsKept
  <2> QED BY <2>1, <2>2
<1>8. ASSUME NEW d \in Clients, NEW e \in Clients
      PROVE  SameSent(d, e)
  <2>1. ~IsMove(message', {d}) /\ ~IsMove(message, {d})
      BY <1>0 DEF IsMove
  <2> QED BY <1>3, <2>1 DEF SameSent, NoneSent, OneSent
<1>9. \A d \in Clients : Rivals'[d] = Rivals[d]
    BY <1>7
<1>10. Pairs'
  <2>1. Rivals[c] = NULL
      BY <1>0, UnheardHasNoRival
  <2> QED BY <1>0, <1>7, <2>1 DEF Core, Pairs, c
<1> QED BY <1>4, <1>5, <1>6, <1>7, <1>8, <1>9, <1>10, ServerKeeps

\* A client is told, if it is still there, that it plays e, and what follows for it.
IsTold(d, answer, e) ==
    to_client'[d] = IF exited[d] THEN to_client[d] ELSE Append(to_client[d], Message("add", answer, e))
NowPlays(d, answer, e) ==
    /\ to_client'[d] \in Seq(Messages) /\ ToldOnce(to_client'[d], told[d]) /\ told[d] = NULL
    /\ IF exited[d] THEN Rivals'[d] = NULL
       ELSE /\ Rivals'[d] = e /\ SignO(d)' = (answer = "O") /\ Mode(d)' = "none" /\ Board(d)' = new_board
            /\ NoMoves(to_client'[d], Senders)

LEMMA ToldOfGame ==
    ASSUME Core, ServerFrame, NEW d \in Clients, Rivals[d] = NULL, NEW e \in Clients,
           NEW answer \in {"O", "X"}, phase[d] \in {"running", "gone"}, IsTold(d, answer, e)
    PROVE  NowPlays(d, answer, e)
<1> DEFINE m == Message("add", answer, e)
           q == to_client[d]
           r == to_client'[d]
<1>0. /\ Types /\ q \in Seq(Messages) /\ ToldOnce(q, told[d]) /\ Rival(q, told[d]) = NULL
      /\ UNCHANGED <<phase, play, state, stored, arg, board, is_client_O, told, exited>>
      /\ Rivals'[d] = Rival(r, told[d])
    BY DEF Core, Types, ToldOnceEach, ServerFrame, playVars, Rivals
<1>1. m \in Messages /\ m.command = "add" /\ m.arg = answer /\ m.from = e /\ IsStart(m)
  <2>1. answer \in Args
      BY DEF Args
  <2>2. m \in Messages /\ m.command = "add" /\ m.arg = answer /\ m.from = e
      BY <2>1, MessageTypes, Fields DEF Senders
  <2> QED BY <2>2 DEF IsStart
<1>2. r = IF exited[d] THEN q ELSE Append(q, m)
    BY DEF IsTold
<1> HIDE DEF m, q, r
<1>3. /\ ToldOnce(Append(q, m), told[d]) /\ Rival(Append(q, m), told[d]) = e
      /\ StartsIn(Append(q, m)) # {} /\ StartOf(Append(q, m)) = m
      /\ told[d] = NULL /\ \A k \in DOMAIN Append(q, m) : Append(q, m)[k].command # "move"
      /\ Append(q, m) \in Seq(Messages)
    BY <1>0, <1>1, AppendStart, Appended
<1>4. CASE exited[d]
    BY <1>0, <1>2, <1>3, <1>4 DEF r, NowPlays
<1>5. CASE ~exited[d]
  <2>1. Untold(d) /\ phase[d] = "running"
      BY <1>3, <1>5 DEF Core, ClientStates, StateOf
  <2>2. ~HasBoard(d)'
      BY <1>0, <2>1 DEF Untold, HasBoard, AtTop
  <2>3. Mode(d)' = "none" /\ Board(d)' = new_board
      BY <2>2 DEF Mode, Board
  <2>4. SignO(d)' = (answer = "O")
      BY <1>1, <1>2, <1>3, <1>5 DEF SignO, StartOf, r
  <2>5. NoMoves(r, Senders)
      BY <1>2, <1>3, <1>5 DEF NoMoves, IsMove
  <2> QED BY <1>0, <1>2, <1>3, <1>5, <2>3, <2>4, <2>5 DEF r, NowPlays
<1> QED BY <1>4, <1>5

\* A game begins: both players are told, and neither has moved.
LEMMA GameStep ==
    ASSUME Core, ServerFrame, message.command = "add", message' = Nothing, inbox' = inbox,
           NEW c, c = message.from, NEW i \in Free, NEW r, r = clients[get_opponent(i)],
           get_opponent(i) \in Occupied, NEW first \in {c, r},
           NEW answers, to_client' = Sent(answers), DOMAIN answers = {c, r},
           answers[c] = Message("add", IF c = first THEN "O" ELSE "X", r),
           answers[r] = Message("add", IF r = first THEN "O" ELSE "X", c),
           TableTypes', TableIsSound', Occupied' = Occupied \cup {i}, clients'[i] = c,
           \A j \in Slots : j # i => clients'[j] = clients[j]
    PROVE  Core'
<1> DEFINE o == get_opponent(i)
<1>0. /\ Types /\ c \in Clients /\ Unheard(c) /\ Nothing \in Messages /\ Nothing.command = "nothing"
      /\ UNCHANGED <<phase, play, state, stored, arg, board, is_client_O, told, exited>>
    BY Joining DEF Core, ServerFrame, playVars
<1>1. /\ i \in Slots /\ i \notin Occupied /\ clients[i] = NULL /\ o \in Slots /\ o # i
      /\ get_opponent(o) = i /\ o \in Occupied /\ r \in Clients /\ r # NULL /\ r # c
  <2>1. i \in Slots /\ i \notin Occupied /\ clients[i] = NULL
      BY DEF Free, Occupied
  <2>2. o \in Slots /\ o # i /\ get_opponent(o) = i
      BY <2>1, Opponents
  <2> QED BY <1>0, <2>1, <2>2 DEF Occupied, Types, Unheard
<1> HIDE DEF o
<1>2. Rivals[c] = NULL /\ Rivals[r] = NULL
  <2>1. Rivals[c] = NULL
      BY <1>0, UnheardHasNoRival
  <2>2. Rivals[r] = NULL
      BY <1>1 DEF Core, Pairs, o
  <2> QED BY <2>1, <2>2
<1> phase[c] \in {"running", "gone"} /\ phase[r] \in {"running", "gone"}
    BY <1>1, Joining, InTableStarted DEF o
<1>3. /\ to_client' = [d \in Clients |-> to_client'[d]]
      /\ \A d \in Clients : d \notin {c, r} => to_client'[d] = to_client[d]
    BY DEF Sent
<1>4. PICK sc \in {"O", "X"}, sr \in {"O", "X"} : sc # sr /\ IsTold(c, sc, r) /\ IsTold(r, sr, c)
  <2>1. CASE first = c
    <3>1. IsTold(c, "O", r) /\ IsTold(r, "X", c)
        BY <1>0, <1>1, <2>1 DEF Sent, IsTold
    <3> QED BY <3>1
  <2>2. CASE first = r
    <3>1. IsTold(c, "X", r) /\ IsTold(r, "O", c)
        BY <1>0, <1>1, <2>2 DEF Sent, IsTold
    <3> QED BY <3>1
  <2> QED BY <2>1, <2>2
<1>5. NowPlays(c, sc, r) /\ NowPlays(r, sr, c)
    BY <1>0, <1>1, <1>2, <1>4, ToldOfGame
<1>6. /\ to_client'[c] \in Seq(Messages) /\ to_client'[r] \in Seq(Messages)
      /\ ToldOnce(to_client'[c], told[c]) /\ ToldOnce(to_client'[r], told[r])
      /\ told[c] = NULL /\ told[r] = NULL
      /\ IF exited[c] THEN Rivals'[c] = NULL ELSE Rivals'[c] = r
      /\ IF exited[r] THEN Rivals'[r] = NULL ELSE Rivals'[r] = c
    BY <1>5 DEF NowPlays
<1>7. ASSUME NEW d \in Clients, d \notin {c, r}
      PROVE  /\ Rivals'[d] = Rivals[d] /\ SameView(d) /\ to_client'[d] = to_client[d]
             /\ Unheard(d) => Unheard(d)'
  <2>1. to_client'[d] = to_client[d]
      BY <1>3, <1>7
  <2>2. Unheard(d) => Unheard(d)'
      BY <1>0, <1>1, <1>7, <2>1 DEF Unheard
  <2> QED BY <1>0, <2>1, <2>2, ViewsKept DEF Rivals, StartOf
<1>8. Types'
  <2>1. to_client' \in [Clients -> Seq(Messages)]
      BY <1>0, <1>3, <1>6 DEF Types
  <2> QED BY <1>0, <2>1 DEF Types, TableTypes
<1>9. ServerMail' /\ JoinsOnce'
  <2>1. ~Unheard(r)
      BY <1>1 DEF Unheard, o
  <2> QED BY <1>7, <2>1, JoinsAfterAdd
<1>10. ToldOnceEach'
  <2>1. \A d \in Clients : ToldOnce(to_client[d], told[d])
      BY DEF Core, ToldOnceEach
  <2> QED BY <1>0, <1>3, <1>6, <2>1 DEF ToldOnceEach
<1>11. Pairs'
  <2>1. clients'[i] = c /\ clients'[o] = r
      BY <1>1 DEF o
  <2>2. ASSUME NEW k \in Occupied', k # i, k # o
        PROVE  /\ k \in Occupied /\ clients'[k] = clients[k] /\ clients'[get_opponent(k)] = clients[get_opponent(k)]
               /\ clients[k] \in Clients /\ clients[k] \notin {c, r}
    <3>1. k \in Occupied /\ k \in Slots /\ get_opponent(k) \in Slots /\ get_opponent(k) # i
      <4>1. k \in Occupied /\ k \in Slots
          BY <2>2 DEF Occupied
      <4> QED BY <2>2, <4>1, Opponents DEF o
    <3>2. clients[k] \in Clients /\ clients[k] # c
        BY <1>0, <3>1 DEF Types, Occupied, Unheard
    <3>3. clients[k] # r
        BY <1>1, <2>2, <3>1 DEF Core, TableIsSound, o
    <3> QED BY <2>2, <3>1, <3>2, <3>3
  <2>3. ASSUME NEW k \in Occupied'
        PROVE  \/ Rivals'[clients'[k]] = NULL /\ (clients'[get_opponent(k)] = NULL \/ exited'[clients'[k]])
               \/ clients'[get_opponent(k)] # NULL /\ Rivals'[clients'[k]] = clients'[get_opponent(k)]
    <3>1. CASE k = i
        BY <1>0, <1>1, <1>6, <2>1, <3>1 DEF o
    <3>2. CASE k = o
        BY <1>0, <1>1, <1>6, <2>1, <3>2, NobodyIsNull
    <3>3. CASE k # i /\ k # o
      <4>1. Rivals'[clients[k]] = Rivals[clients[k]]
          BY <1>7, <2>2, <3>3
      <4> QED BY <1>0, <2>2, <3>3, <4>1 DEF Core, Pairs
    <3> QED BY <3>1, <3>2, <3>3
  <2> QED BY <2>3 DEF Pairs
<1>12. ClientStates' /\ \A d \in Clients : OnItsOwn(d)' => OnItsOwn(d) /\ ~exited[d]
  <2>1. \A e \in Clients : Rivals[e] # NULL => Rivals'[e] # NULL
      BY <1>2, <1>7
  <2> QED BY <1>0, <2>1, StatesKept DEF Core, ClientStates, OnItsOwn, StateOf
<1>13. ASSUME NEW d \in Clients, NEW e \in Clients, Rivals'[d] = e, ~exited[d], ~exited[e]
       PROVE  \/ d = c /\ e = r
              \/ d = r /\ e = c
              \/ d \notin {c, r} /\ e \notin {c, r} /\ Rivals[d] = e /\ Rivals[e] = d
  <2>1. CASE d = c
      BY <1>6, <1>13, <2>1
  <2>2. CASE d = r
      BY <1>6, <1>13, <2>2
  <2>3. CASE d \notin {c, r}
    <3>1. Rivals[d] = e
        BY <1>7, <1>13, <2>3
    <3>2. Rivals[e] = d
        BY <1>13, <3>1 DEF Core, Mutual
    <3> QED BY <1>2, <2>3, <3>1, <3>2, NobodyIsNull
  <2> QED BY <2>1, <2>2, <2>3
<1>14. Mutual'
  <2>1. ASSUME NEW d \in Clients, NEW e \in Clients, Rivals'[d] = e, ~exited'[d], ~exited'[e]
        PROVE  Rivals'[e] = d /\ SignO(e)' = ~SignO(d)'
    <3>1. ~exited[d] /\ ~exited[e]
        BY <1>0, <2>1
    <3>2. CASE (d = c /\ e = r) \/ (d = r /\ e = c)
        BY <1>4, <1>5, <3>1, <3>2 DEF NowPlays
    <3>3. CASE d \notin {c, r} /\ e \notin {c, r} /\ Rivals[d] = e /\ Rivals[e] = d
      <4>1. SignO(e) = ~SignO(d)
          BY <3>1, <3>3 DEF Core, Mutual
      <4> QED BY <1>7, <3>3, <4>1 DEF SameView
    <3> QED BY <1>13, <2>1, <3>1, <3>2, <3>3
  <2> QED BY <2>1 DEF Mutual
<1>15. ASSUME NEW d \in Clients, told[d] = NULL
       PROVE  NoMoves(inbox'[SocketOf(d)], {d}) /\ ~IsMove(message', {d})
  <2>1. ~IsMove(message', {d})
      BY <1>0 DEF IsMove
  <2>2. NoMoves(inbox[SocketOf(d)], {d})
      BY <1>15, SocketsOf DEF Core, ServerMail, FromClient, NoMoves, IsMove
  <2> QED BY <2>1, <2>2
<1>16. GamesMatch'
  <2>1. ASSUME NEW d \in Clients, NEW e \in Clients, Rivals'[d] = e, OnItsOwn(d)', OnItsOwn(e)'
        PROVE  Match(d, e)'
    <3>1. ~exited[d] /\ ~exited[e] /\ OnItsOwn(d) /\ OnItsOwn(e)
        BY <1>12, <2>1
    <3>2. CASE (d = c /\ e = r) \/ (d = r /\ e = c)
      <4>1. NoneSent(d, e)' /\ NoneSent(e, d)'
          BY <1>5, <1>6, <1>15, <3>1, <3>2 DEF NoneSent, NowPlays
      <4>2. Board(d)' = new_board /\ Board(e)' = new_board /\ Mode(d)' = "none" /\ Mode(e)' = "none"
          BY <1>5, <3>1, <3>2 DEF NowPlays
      <4> QED BY <4>1, <4>2 DEF Match, Quiet
    <3>3. CASE d \notin {c, r} /\ e \notin {c, r} /\ Rivals[d] = e /\ Rivals[e] = d
      <4>1. Match(d, e) /\ SameView(d) /\ SameView(e)
          BY <1>7, <3>1, <3>3 DEF Core, GamesMatch
      <4>2. ~IsMove(message, {d}) /\ ~IsMove(message, {e}) /\ ~IsMove(message', {d}) /\ ~IsMove(message', {e})
          BY <1>0 DEF IsMove
      <4>3. SameSent(d, e) /\ SameSent(e, d)
          BY <1>7, <3>3, <4>2 DEF SameSent, NoneSent, OneSent
      <4> QED BY <4>1, <4>3, MatchKept
    <3> QED BY <1>13, <2>1, <3>1, <3>2, <3>3
  <2> QED BY <2>1 DEF GamesMatch
<1> QED BY <1>8, <1>9, <1>10, <1>11, <1>12, <1>14, <1>16 DEF Core

LEMMA AddStep ==
    ASSUME Core, ServerFrame, message.command = "add", Add(message.from), message' = Nothing, inbox' = inbox
    PROVE  Core'
<1> DEFINE c == message.from
           i == NewIndex(c)
           r == clients[get_opponent(i)]
           game(O1, X1) == [d \in {O1, X1} |-> IF d = O1 THEN Message("add", "O", X1) ELSE Message("add", "X", O1)]
<1>0. c \in Clients /\ TableTypes /\ TableIsSound
    BY Joining DEF Core, Types, TableTypes
<1>1. PICK answers \in Answers(c, i) : to_client' = Sent(answers)
    BY DEF Add
<1>2. CASE i = -1
  <2>1. answers = [d \in {c} |-> Message("add", "name_taken", NULL)]
      BY <1>1, <1>2 DEF Answers
  <2>2. clients' = clients /\ clients_count' = clients_count
      BY <1>2 DEF Add, tableVars
  <2>3. /\ TableTypes' /\ TableIsSound'
        /\ \A j \in Occupied' : /\ j \in Occupied /\ clients'[j] = clients[j]
                                /\ clients'[get_opponent(j)] = clients[get_opponent(j)]
      BY <1>0, <2>2 DEF TableTypes, TableIsSound, Occupied, Free
  <2> QED BY <1>1, <2>1, <2>2, <2>3, NoGameStep
<1>3. CASE i # -1
  <2>1. add_client(c, i)
      BY <1>3 DEF Add
  <2>2. /\ i \in Free /\ get_by_name(c) = {}
        /\ i % 2 = 1 => get_opponent(i) \in Occupied
        /\ i % 2 = 0 => get_opponent(i) \in Free
      BY <1>0, <1>3, NewIndexFits
  <2>3. /\ TableTypes' /\ TableIsSound' /\ Occupied' = Occupied \cup {i} /\ clients'[i] = c
        /\ \A j \in Slots : j # i => clients'[j] = clients[j]
      BY <1>0, <1>3, <2>1, TableAfterAdd
  <2> HIDE DEF i
  <2>4. CASE i % 2 = 0
    <3>1. answers = [d \in {c} |-> Message("add", "no_enemy", NULL)]
        BY <1>1, <1>3, <2>4 DEF Answers
    <3>2. i \in Slots /\ get_opponent(i) \in Slots /\ get_opponent(i) # i /\ clients[get_opponent(i)] = NULL
        BY <2>2, <2>4, Opponents DEF Free, Occupied
    <3>3. ASSUME NEW j \in Occupied'
          PROVE  \/ clients'[j] = c /\ clients'[get_opponent(j)] = NULL
                 \/ /\ j \in Occupied /\ clients'[j] = clients[j]
                    /\ clients'[get_opponent(j)] = clients[get_opponent(j)]
      <4>1. CASE j = i
          BY <2>3, <3>2, <4>1
      <4>2. CASE j # i
        <5>1. j \in Occupied /\ j \in Slots /\ get_opponent(j) \in Slots /\ get_opponent(get_opponent(j)) = j
            BY <2>3, <3>3, <4>2, Opponents DEF Occupied
        <5>2. get_opponent(j) # i
            BY <3>2, <5>1 DEF Occupied
        <5> QED BY <2>3, <4>2, <5>1, <5>2
      <4> QED BY <4>1, <4>2
    <3>4. \A j \in Slots : clients'[j] \in {clients[j], c}
        BY <2>3
    <3> QED BY <1>1, <2>3, <3>1, <3>3, <3>4, NoGameStep
  <2>5. CASE i % 2 # 0
    <3>1. answers = game(c, r) \/ answers = game(r, c)
        BY <1>1, <1>3, <2>5 DEF Answers
    <3>2. i \in Slots /\ i % 2 = 1
        BY <2>2, <2>5, Opponents DEF Free
    <3>3. c # r
      <4>1. Unheard(c) /\ get_opponent(i) \in Slots
          BY <3>2, Joining, Opponents
      <4> QED BY <4>1 DEF Unheard
    <3> HIDE DEF r, c
    <3>4. /\ DOMAIN answers = {c, r}
          /\ \E first \in {c, r} : /\ answers[c] = Message("add", IF c = first THEN "O" ELSE "X", r)
                                  /\ answers[r] = Message("add", IF r = first THEN "O" ELSE "X", c)
        BY <3>1, <3>3
    <3>5. /\ c = message.from /\ r = clients[get_opponent(i)] /\ i \in Free /\ get_opponent(i) \in Occupied
          /\ clients'[i] = c /\ to_client' = Sent(answers)
        BY <1>1, <2>2, <2>3, <3>2 DEF c, r
    <3> QED BY <2>3, <3>4, <3>5, GameStep
  <2> QED BY <2>4, <2>5
<1> QED BY <1>2, <1>3

LEMMA ServerSteps ==
    ASSUME Core, up, up', ServerStep, UNCHANGED <<playVars, told, raced>>
    PROVE  Core'
<1>1. CASE Receive
    BY <1>1, ReceiveStep
<1>2. CASE Handle
  <2>1. ServerFrame /\ message' = Nothing /\ inbox' = inbox
      BY <1>2 DEF Handle, ServerFrame, playVars
  <2>2. \/ message.command = "add" /\ Add(message.from)
        \/ message.command = "move" /\ Move(message.from)
        \/ message.command = "quit" /\ Quit(message.from)
        \/ message.command = "pong" /\ Pong(message.from)
      BY <1>2 DEF Handle
  <2> QED BY <2>1, <2>2, AddStep, MoveStep, QuitStep, PongStep
<1>3. CASE ping
  <2>1. ServerFrame
      BY <1>3 DEF ping, ServerFrame, playVars
  <2> QED BY <1>3, <2>1, PingStep
<1> QED BY <1>1, <1>2, <1>3 DEF ServerStep
-----------------------------------------------------------------------------
(* The invariant holds.                                                    *)

LEMMA InitIsCore == Init => Core
<1> SUFFICES ASSUME Init
             PROVE  Core
    OBVIOUS
<1>1. /\ clients = [i \in Slots |-> NULL] /\ clients_count = 0
      /\ to_client = [c \in Clients |-> <<>>] /\ inbox = [s \in Sockets |-> <<>>] /\ message = Nothing
      /\ exited = [c \in Clients |-> FALSE] /\ told = [c \in Clients |-> NULL]
      /\ phase \in [Clients -> {"absent", "new"}]
      /\ play = [c \in Clients |-> "none"] /\ state = [c \in Clients |-> "GAME_STARTING"]
      /\ stored = [c \in Clients |-> "GAME_STARTING"] /\ arg = [c \in Clients |-> 0]
      /\ board = [c \in Clients |-> [new_board EXCEPT !.move = 0]]
      /\ is_client_O = [c \in Clients |-> FALSE]
    BY DEF Init, ServerInit, TableInit, ClientInit
<1>2. /\ StartsIn(<<>>) = {} /\ Nothing \in Messages /\ Nothing.command = "nothing" /\ 0 \in Args
      /\ [new_board EXCEPT !.move = 0] \in Boards
  <2>1. StartsIn(<<>>) = {} /\ 0 \in Args
      BY DEF StartsIn, Args, Positions
  <2>2. Nothing \in Messages /\ Nothing.command = "nothing"
      BY <2>1, MessageTypes, Fields DEF Nothing, Senders
  <2>3. [new_board EXCEPT !.move = 0] \in Boards
      BY DEF new_board, Boards
  <2> QED BY <2>1, <2>2, <2>3
<1>3. Types
  <2>1. /\ clients \in [Slots -> Clients \cup {NULL}] /\ clients_count \in Int
        /\ to_client \in [Clients -> Seq(Messages)] /\ inbox \in [Sockets -> Seq(Messages)]
        /\ message \in Messages
      BY <1>1, <1>2
  <2>2. /\ exited \in [Clients -> BOOLEAN] /\ told \in [Clients -> Clients \cup {NULL}]
        /\ play \in [Clients -> {"none", "top", "store"}] /\ is_client_O \in [Clients -> BOOLEAN]
        /\ phase \in [Clients -> {"absent", "new", "running", "gone"}]
      BY <1>1
  <2>3. state \in [Clients -> States] /\ stored \in [Clients -> States]
      BY <1>1 DEF States
  <2>4. arg \in [Clients -> Args] /\ board \in [Clients -> Boards]
      BY <1>1, <1>2
  <2> QED BY <2>1, <2>2, <2>3, <2>4 DEF Types
<1>4. TableIsSound /\ Pairs
  <2>1. Occupied = {} /\ Cardinality({}) = 0
      BY <1>1, FS_EmptySet DEF Occupied
  <2>2. {i \in {} : get_opponent(i) \in Free} = {}
      OBVIOUS
  <2> QED BY <1>1, <2>1, <2>2 DEF TableIsSound, Pairs
<1>5. \A c \in Clients : /\ Rivals[c] = NULL /\ Unheard(c) /\ ToldOnce(to_client[c], told[c]) /\ StateOf(c)
                         /\ JoinsBy(c)
  <2> SUFFICES ASSUME NEW c \in Clients
               PROVE  /\ Rivals[c] = NULL /\ Unheard(c) /\ ToldOnce(to_client[c], told[c]) /\ StateOf(c)
                      /\ JoinsBy(c)
      OBVIOUS
  <2>1. Unheard(c)
      BY <1>1, NobodyIsNull DEF Unheard
  <2>2. Rivals[c] = NULL
      BY <1>3, <2>1, UnheardHasNoRival
  <2>3. ToldOnce(to_client[c], told[c])
      BY <1>1, <1>2 DEF ToldOnce
  <2>4. StateOf(c)
      BY <1>1 DEF StateOf, Untold
  <2>5. JoinsBy(c)
      BY <1>1, <1>2, <2>1, SocketsOf DEF JoinsBy, Joins
  <2> QED BY <2>1, <2>2, <2>3, <2>4, <2>5
<1>6. ServerMail
    BY <1>1 DEF ServerMail
<1>7. ToldOnceEach /\ JoinsOnce /\ ClientStates /\ Mutual /\ GamesMatch
    BY <1>5, NobodyIsNull DEF ToldOnceEach, JoinsOnce, ClientStates, Mutual, GamesMatch
<1> QED BY <1>3, <1>4, <1>6, <1>7 DEF Core

LEMMA StutteringStep ==
    ASSUME Core, up, UNCHANGED vars
    PROVE  Core'
<1>1. /\ UNCHANGED <<clients, online, clients_count, up, inbox, message, to_client, exited, told>>
      /\ UNCHANGED <<phase, play, state, stored, arg, board, is_client_O>>
    BY DEF vars, serverVars, tableVars, playVars
<1>2. ServerFrame
    BY <1>1 DEF ServerFrame, playVars
<1>3. Types' /\ TableIsSound' /\ ServerMail' /\ ToldOnceEach'
    BY <1>1 DEF Core, Types, TableIsSound, Occupied, Free, ServerMail, FromClient, ToldOnceEach
<1>4. Pairs' /\ Rivals' = Rivals /\ \A c \in Clients : SameView(c)
    BY <1>1, <1>2, ViewsKept DEF Core, Pairs, Occupied, Rivals, StartOf
<1>5. JoinsOnce'
    BY <1>1 DEF Core, JoinsOnce, JoinsBy, Unheard
<1>6. \A c, d \in Clients : SameSent(c, d)
    BY <1>1 DEF SameSent, NoneSent, OneSent
<1> QED BY <1>2, <1>3, <1>4, <1>5, <1>6, ServerKeeps

LEMMA Inductive == Spec => []IInv
<1>1. Init => IInv
    BY InitIsCore DEF IInv
<1>2. ASSUME IInv, [Next]_vars
      PROVE  IInv'
  <2>1. SUFFICES ASSUME up', ~raced'
                 PROVE  Core'
      BY DEF IInv
  <2>2. CASE Next
    <3>1. Core /\ up
        BY <1>2, <2>2 DEF IInv, Next
    <3>2. CASE ServerStep /\ UNCHANGED <<playVars, told, raced>>
        BY <2>1, <3>1, <3>2, ServerSteps
    <3>3. ASSUME NEW c \in Clients, ClientStep(c), UNCHANGED <<tableVars, up, message>>
          PROVE  Core'
        BY <2>1, <3>1, <3>3, ClientSteps
    <3> QED BY <2>2, <3>2, <3>3 DEF Next
  <2>3. CASE UNCHANGED vars
    <3>1. up /\ ~raced
        BY <2>1, <2>3 DEF vars, serverVars
    <3> QED BY <1>2, <2>3, <3>1, StutteringStep DEF IInv
  <2> QED BY <1>2, <2>2, <2>3
<1> QED BY <1>1, <1>2, PTL DEF Spec

\* Throughout a game the boards of the two players are one, but for at most one move that is
\* on its way, whatever the queues, the sockets and the two threads of each client do.
THEOREM BoardsAlwaysAgree == Spec => []BoardsAgree
<1>1. IInv => BoardsAgree
    BY CoreAgrees DEF IInv, BoardsAgree, InGame
<1> QED BY <1>1, Inductive, PTL

\* Only one of the players is ever to move, nothing is under way to it, and what it places is
\* its own sign.
THEOREM TurnsAreTaken == Spec => []PlayersTakeTurns
<1>1. IInv => PlayersTakeTurns
    BY CoreTakesTurns DEF IInv, PlayersTakeTurns, InGame
<1> QED BY <1>1, Inductive, PTL

\* A client stops playing exactly on the boards that the rules call finished.
THEOREM GamesEndInTime == Spec => []EndsWithTheGame
<1>1. IInv => EndsWithTheGame
    BY CoreEnds DEF IInv, EndsWithTheGame, InGame
<1> QED BY <1>1, Inductive, PTL
=============================================================================
