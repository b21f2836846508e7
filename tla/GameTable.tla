------------------------------ MODULE GameTable ------------------------------
(***************************************************************************)
(* cw10: the table of players that both servers of tic-tac-toe keep.       *)
(* Two players in slots 2k and 2k + 1 play each other.                     *)
(***************************************************************************)
EXTENDS Integers, Sequences, FiniteSets

CONSTANTS Clients, Name(_),     \* client programs, the name each one is started with
          MAX_PLAYERS

NULL == "NULL"
Slots == 0..(MAX_PLAYERS - 1)

ASSUME GameServerAssumption ==
    /\ MAX_PLAYERS \in Nat \ {0} /\ MAX_PLAYERS % 2 = 0
    /\ NULL \notin Clients

VARIABLES clients, online,      \* the client in each slot, whether it has answered
          clients_count,
          up,                   \* FALSE once a signal has ended the server
          to_client,            \* what was sent to each client
          exited,               \* clients that have ended
          told                  \* whom each client was told to play, see Message

tableVars == <<clients, online, clients_count>>

TableInit == /\ clients = [i \in Slots |-> NULL] /\ online = [i \in Slots |-> FALSE]
             /\ clients_count = 0 /\ up = TRUE
             /\ to_client = [c \in Clients |-> <<>>]
             /\ exited = [c \in Clients |-> FALSE] /\ told = [c \in Clients |-> NULL]

\* A message, and who sent it or, for the start of a game, the other player: only the
\* properties look at that.
Message(command, arg, from) == [command |-> command, arg |-> arg, from |-> from]

\* Messages to several clients, one each; one to a client that has ended is lost.
Sent(messages) == [c \in Clients |-> IF c \in DOMAIN messages /\ ~exited[c]
                                     THEN Append(to_client[c], messages[c])
                                     ELSE to_client[c]]

get_opponent(i) == IF i % 2 = 0 THEN i + 1 ELSE i - 1
Occupied == {i \in Slots : clients[i] # NULL}
Free == Slots \ Occupied
First(S) == CHOOSE i \in S : \A j \in S : i <= j

\* Slots with the name.
get_by_name(c) == {i \in Occupied : Name(clients[i]) = Name(c)}

\* A mutant of NewIndex: names are not compared.
NewIndex_AnyName(c) ==
    LET waiting == {i \in Occupied : i % 2 = 0 /\ i + 1 \in Free}
    IN IF Free = {} THEN -1
       ELSE IF waiting # {} THEN First(waiting) + 1
       ELSE First(Free)

\* The slot add_client finds, or -1: next to a player that waits, or else the first one.
NewIndex(c) ==
    LET waiting == {i \in Occupied : i % 2 = 0 /\ i + 1 \in Free}
    IN IF get_by_name(c) # {} \/ Free = {} THEN -1
       ELSE IF waiting # {} THEN First(waiting) + 1
       ELSE First(Free)

add_client(c, i) == /\ clients' = [clients EXCEPT ![i] = c]
                    /\ online' = [online EXCEPT ![i] = TRUE]
                    /\ clients_count' = clients_count + 1

\* A mutant of Removed: the opponent stays.
Removed_Alone(leaving) == leaving

\* The slots remove_client clears, called for each of the slots in turn: theirs and their
\* opponents'.
Removed(leaving) == leaving \cup ({get_opponent(i) : i \in leaving} \cap Occupied)

\* A mutant of remove_clients: the opponents are not counted.
remove_clients_CountsOne(leaving, answered) ==
    /\ clients' = [i \in Slots |-> IF i \in Removed(leaving) THEN NULL ELSE clients[i]]
    /\ online' = [i \in Slots |-> i \notin Removed(leaving) /\ answered /\ online[i]]
    /\ clients_count' = clients_count - Cardinality(leaving)

remove_clients(leaving, answered) ==
    /\ clients' = [i \in Slots |-> IF i \in Removed(leaving) THEN NULL ELSE clients[i]]
    /\ online' = [i \in Slots |-> i \notin Removed(leaving) /\ answered /\ online[i]]
    /\ clients_count' = clients_count - Cardinality(Removed(leaving))

\* The answers to "add": one to the new client, or one to each player of a new game, who is
\* O being drawn.
Answers(c, index) ==
    LET only(arg) == {[d \in {c} |-> Message("add", arg, NULL)]}
        rival == clients[get_opponent(index)]
        game(O, X) == [d \in {O, X} |-> IF d = O THEN Message("add", "O", X) ELSE Message("add", "X", O)]
    IN IF index = -1 THEN only("name_taken")
       ELSE IF index % 2 = 0 THEN only("no_enemy")
       ELSE {game(c, rival), game(rival, c)}

Silent == {i \in Occupied : ~online[i]}
-----------------------------------------------------------------------------
(* Properties of both servers.                                             *)

\* The table is sound whatever both threads do to it: clients_count is the number of clients
\* in it; no two of them have the same name, so that a name finds its client; at most one
\* player waits, in the even slot of its pair, and all others have an opponent.
TableIsSound ==
    /\ clients_count = Cardinality(Occupied)
    /\ \A i, j \in Occupied : Name(clients[i]) = Name(clients[j]) => i = j
    /\ \A i \in Occupied : i % 2 = 1 => i - 1 \in Occupied
    /\ Cardinality({i \in Occupied : get_opponent(i) \in Free}) <= 1

\* Whom a client plays, also if it has not read that yet.
Starts(c) == {k \in DOMAIN to_client[c] : to_client[c][k].command = "add" /\ to_client[c][k].arg \in {"O", "X"}}
RivalOf(c) == IF Starts(c) = {} THEN told[c] ELSE to_client[c][First(Starts(c))].from

\* Whatever both threads remove, a player that is in the table sits next to the one it was
\* told to play, and only its moves reach it: slots are given again, games are not mixed.
GamesStayPaired ==
    \A i \in Occupied : RivalOf(clients[i]) # NULL => clients[get_opponent(i)] = RivalOf(clients[i])
MovesReachRival ==
    \A c \in Clients : \A k \in DOMAIN to_client[c] :
        to_client[c][k].command = "move" => to_client[c][k].from = RivalOf(c)
=============================================================================
