--------------------------- MODULE DatagramServer ---------------------------
(***************************************************************************)
(* cw10/zad2/server.c: the server of tic-tac-toe over datagram sockets,    *)
(* one local and one of the network.  It knows its players by name and     *)
(* address only, and tells a player whose opponent goes to quit.           *)
(***************************************************************************)
EXTENDS GameTable

CONSTANT Local                  \* the clients that use the local socket

ASSUME LocalAssumption == Local \subseteq Clients

VARIABLES inbox,                \* the messages of both sockets
          message               \* what the main thread has received, or Nothing

serverVars == <<tableVars, up, inbox, message>>

Nothing == Message("nothing", 0, NULL)
Sockets == {"local", "network"}
SocketOf(c) == IF c \in Local THEN "local" ELSE "network"
Post(c, m) == inbox' = [inbox EXCEPT ![SocketOf(c)] = Append(@, m)]

ServerInit == /\ TableInit
              /\ inbox = [s \in Sockets |-> <<>>]
              /\ message = Nothing

\* check_messages and recvfrom: the local socket comes first.
Receive == /\ message = Nothing
           /\ \E s \in Sockets :
                /\ inbox[s] # <<>>
                /\ s = "network" => inbox["local"] = <<>>
                /\ message' = Head(inbox[s])
                /\ inbox' = [inbox EXCEPT ![s] = Tail(@)]
           /\ UNCHANGED <<tableVars, up, to_client, exited>>

\* The rest uses an entry of the table that is not there.
GoDown == up' = FALSE /\ UNCHANGED <<tableVars, to_client>>

Add(c) == LET index == NewIndex(c)
          IN /\ IF index = -1 THEN UNCHANGED tableVars ELSE add_client(c, index)
             /\ \E answers \in Answers(c, index) : to_client' = Sent(answers)
             /\ UNCHANGED up

Move(c) == IF get_by_name(c) = {} \/ clients[get_opponent(First(get_by_name(c)))] = NULL
           THEN GoDown
           ELSE LET rival == clients[get_opponent(First(get_by_name(c)))]
                IN /\ to_client' = Sent([d \in {rival} |-> Message("move", message.arg, c)])
                   /\ UNCHANGED <<tableVars, up>>

\* The opponents that remove_client finds when it is called for these slots in turn.
Told(leaving) == {i \in Removed(leaving) : i \notin leaving \/ (i % 2 = 1 /\ i - 1 \in leaving)}
QuitTo(slots) == [c \in {clients[i] : i \in slots} |-> Message("quit", 0, NULL)]

Quit(c) == IF get_by_name(c) = {} THEN GoDown
           ELSE /\ remove_clients(get_by_name(c), TRUE)
                /\ to_client' = Sent(QuitTo(Told(get_by_name(c))))
                /\ UNCHANGED up

Pong(c) == /\ online' = [i \in Slots |-> online[i] \/ i \in get_by_name(c)]
           /\ UNCHANGED <<clients, clients_count, to_client, up>>

\* With the mutex.
Handle == /\ message # Nothing
          /\ LET c == message.from
             IN \/ message.command = "add" /\ Add(c)
                \/ message.command = "move" /\ Move(c)
                \/ message.command = "quit" /\ Quit(c)
                \/ message.command = "pong" /\ Pong(c)
          /\ message' = Nothing
          /\ UNCHANGED <<inbox, exited>>

\* The ping thread, with the mutex.
ping == /\ remove_clients(Silent, FALSE)
        /\ LET pings == [c \in {clients[i] : i \in Occupied \ Removed(Silent)} |-> Message("ping", 0, NULL)]
               quits == QuitTo(Told(Silent))
           IN to_client' = Sent([c \in DOMAIN pings \cup DOMAIN quits |->
                                    IF c \in DOMAIN pings THEN pings[c] ELSE quits[c]])
        /\ UNCHANGED <<up, inbox, message, exited>>

ServerStep == up /\ (Receive \/ Handle \/ ping)
=============================================================================
