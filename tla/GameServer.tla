----------------------------- MODULE GameServer -----------------------------
(***************************************************************************)
(* cw10/zad1/server.c: the server of tic-tac-toe over stream sockets.      *)
(*                                                                         *)
(* The main thread polls the sockets of the players and handles one        *)
(* message at a time; the ping thread removes the players that have not    *)
(* answered since it was here last.  A stream keeps the order of its       *)
(* messages; every message has the same length.                            *)
(***************************************************************************)
EXTENDS GameTable

VARIABLES main,                 \* where the main thread is: "check", "call", "poll", "handle"
          fds, nfds,            \* the clients it polls, and how many of them
          client_fd,            \* whose message it handles
          backlog,              \* clients that wait to be accepted
          to_server             \* the streams to the server; see to_client for the others

pollVars == <<main, fds, nfds, client_fd>>
netVars == <<backlog, to_server, to_client, exited>>
serverVars == <<tableVars, pollVars, up>>
gameVars == <<serverVars, netVars>>

Init == /\ TableInit
        /\ main = "check" /\ fds = <<>> /\ nfds = 0 /\ client_fd = NULL
        /\ backlog = {}
        /\ to_server = [c \in Clients |-> <<>>]

\* The end of a stream is a last message that stays.
Ends(c) == Message("end", 0, c)

\* A NULL dereference, an index outside the table, or SIGPIPE.
GoDown == up' = FALSE /\ UNCHANGED <<tableVars, pollVars, netVars>>

\* To a client that has closed its end, send raises SIGPIPE, at once over a local socket,
\* later or never over the network.
Broken(messages) == \E c \in DOMAIN messages : exited[c]
-----------------------------------------------------------------------------
(* The main thread.                                                        *)

Goto(from, to) == main = from /\ main' = to

\* A mutant of check_messages: the last client is left out.
check_messages_OneShort ==
    /\ Goto("check", "call")
    /\ fds' = [k \in 1..(clients_count - 1) |-> clients[k - 1]]
    /\ UNCHANGED <<nfds, client_fd, up, tableVars, netVars>>

\* check_messages takes the first clients_count slots for the occupied ones.
check_messages ==
    /\ main = "check"
    /\ IF \A i \in 0..(clients_count - 1) : clients[i] # NULL
       THEN /\ Goto("check", "call")
            /\ fds' = [k \in 1..clients_count |-> clients[k - 1]]
            /\ UNCHANGED <<nfds, client_fd, up, tableVars, netVars>>
       ELSE GoDown

\* poll is called with the count of now.
CallPoll == /\ Goto("call", "poll")
            /\ nfds' = clients_count
            /\ UNCHANGED <<fds, client_fd, up, tableVars, netVars>>

Ready(k) == to_server[fds[k]] # <<>>

\* Nothing was received: the buffer still holds the last message, cut into pieces.  There
\* is no name in it to compare with those in the table.
Garbage == /\ up' \in IF Occupied = {} THEN BOOLEAN ELSE {FALSE}
           /\ UNCHANGED <<tableVars, to_server, to_client>>

\* The listening sockets come first, then the first client that is ready, if the count of
\* now still reaches so far; otherwise it reads from descriptor 0.
PollReturns ==
    /\ main = "poll"
    /\ \/ /\ \/ \E c \in backlog : client_fd' = c /\ backlog' = backlog \ {c}
             \/ /\ backlog = {}
                /\ \E k \in 1..nfds : /\ Ready(k) /\ \A j \in 1..(k - 1) : ~Ready(j)
                                      /\ k <= clients_count
                                      /\ client_fd' = fds[k]
                /\ UNCHANGED backlog
          /\ Goto("poll", "handle")
          /\ UNCHANGED <<up, tableVars, to_server, to_client, exited>>
       \/ /\ backlog = {} /\ \E k \in 1..nfds : Ready(k)
          /\ \A k \in 1..nfds : Ready(k) => k > clients_count
          /\ Goto("poll", "check") /\ Garbage
          /\ UNCHANGED <<client_fd, backlog, exited>>
    /\ fds' = <<>> /\ nfds' = 0

Handled(c) == to_server' = [to_server EXCEPT ![c] = Tail(@)]

Add(c) ==
    LET index == NewIndex(c)
    IN \E answers \in Answers(c, index) :
         /\ IF index = -1 THEN UNCHANGED tableVars ELSE add_client(c, index)
         /\ Handled(c)
         /\ to_client' = Sent(answers)
         /\ up' \in IF Broken(answers) THEN BOOLEAN ELSE {TRUE}

\* A mutant of Move: without a look at the table, whoever was in slot 0 gets it.
Move_ToFirst(c) ==
    LET message == [d \in {clients[0]} |-> Message("move", Head(to_server[c]).arg, c)]
    IN /\ clients[0] # NULL
       /\ Handled(c) /\ to_client' = Sent(message) /\ up' = TRUE /\ UNCHANGED tableVars

\* A move goes to the opponent; without a place in the table the index is out of it.
Move(c) ==
    LET i == First(get_by_name(c))
        message == [d \in {clients[get_opponent(i)]} |-> Message("move", Head(to_server[c]).arg, c)]
    IN IF get_by_name(c) = {} \/ clients[get_opponent(i)] = NULL
       THEN up' = FALSE /\ UNCHANGED <<tableVars, to_server, to_client>>
       ELSE /\ Handled(c)
            /\ to_client' = Sent(message)
            /\ up' \in IF Broken(message) THEN BOOLEAN ELSE {TRUE}
            /\ UNCHANGED tableVars

Quit(c) == IF get_by_name(c) = {}
           THEN up' = FALSE /\ UNCHANGED <<tableVars, to_server, to_client>>
           ELSE /\ remove_clients(get_by_name(c), TRUE)
                /\ Handled(c) /\ UNCHANGED <<to_client, up>>

Pong(c) == /\ online' = [i \in Slots |-> online[i] \/ i \in get_by_name(c)]
           /\ Handled(c) /\ UNCHANGED <<clients, clients_count, to_client, up>>

\* With the mutex.
Handle == /\ Goto("handle", "check") /\ to_server[client_fd] # <<>>
          /\ LET c == client_fd
                 command == Head(to_server[c]).command
             IN \/ command = "add" /\ Add(c)
                \/ command = "move" /\ Move(c)
                \/ command = "quit" /\ Quit(c)
                \/ command = "pong" /\ Pong(c)
                \/ command = "end" /\ Garbage
          /\ client_fd' = NULL
          /\ UNCHANGED <<fds, nfds, backlog, exited>>

MainThread == up /\ (check_messages \/ CallPoll \/ PollReturns \/ Handle)
-----------------------------------------------------------------------------
(* The ping thread, with the mutex.                                        *)

ping == /\ up
        /\ remove_clients(Silent, FALSE)
        /\ LET pings == [c \in {clients[i] : i \in Occupied \ Removed(Silent)} |-> Message("ping", 0, NULL)]
           IN to_client' = Sent(pings) /\ up' \in IF Broken(pings) THEN BOOLEAN ELSE {TRUE}
        /\ UNCHANGED <<pollVars, backlog, to_server, exited>>
=============================================================================
