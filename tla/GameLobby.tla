------------------------------ MODULE GameLobby ------------------------------
(***************************************************************************)
(* cw10/zad1: the server of tic-tac-toe and clients that come, play and    *)
(* go, or stop to answer, as seen from the server: of client.c only what   *)
(* it sends and when.                                                      *)
(***************************************************************************)
EXTENDS GameServer

CONSTANTS MaxMoves,             \* bound: moves of all clients together
          Parties,              \* bound: the clients that take part, a set of choices
          Leaving               \* bound: the clients that may end before the server removes them

ASSUME LobbyAssumption == /\ MaxMoves \in Nat /\ Leaving \subseteq Clients
                          /\ Parties \subseteq SUBSET Clients

VARIABLES phase,                \* of each client
          moves                 \* how many moves were sent

clientVars == <<phase, told, moves>>
vars == <<gameVars, clientVars>>

LobbyInit == /\ Init
             /\ \E party \in Parties : phase = [c \in Clients |-> IF c \in party THEN "new" ELSE "absent"]
             /\ moves = 0

Advance(c, from, to) == phase[c] = from /\ phase' = [phase EXCEPT ![c] = to]
Send(c, messages) == to_server' = [to_server EXCEPT ![c] = @ \o messages]

Connect(c) == /\ Advance(c, "new", "connected")
              /\ backlog' = backlog \cup {c}
              /\ UNCHANGED <<serverVars, to_server, to_client, exited, told, moves>>

SendAdd(c) == /\ Advance(c, "connected", "joining")
              /\ Send(c, <<Message("add", 0, c)>>)
              /\ UNCHANGED <<serverVars, backlog, to_client, exited, told, moves>>

Closed(c) == exited' = [exited EXCEPT ![c] = TRUE]

\* listen_server and the start of play_game: pings are answered, a name that is taken
\* ends the client.
listen_server(c) ==
    /\ phase[c] \in {"joining", "playing"} /\ to_client[c] # <<>>
    /\ to_client' = [to_client EXCEPT ![c] = Tail(@)]
    /\ LET m == Head(to_client[c])
       IN \/ /\ m.command = "ping"
             /\ Send(c, <<Message("pong", 0, c)>>)
             /\ UNCHANGED <<clientVars, exited>>
          \/ /\ m.command = "add" /\ m.arg = "name_taken"
             /\ Advance(c, "joining", "gone")
             /\ Send(c, <<Ends(c)>>) /\ Closed(c)
             /\ UNCHANGED <<told, moves>>
          \/ /\ m.command = "add" /\ m.arg \in {"O", "X"}
             /\ Advance(c, "joining", "playing")
             /\ told' = [told EXCEPT ![c] = m.from]
             /\ UNCHANGED <<moves, to_server, exited>>
          \/ /\ m.command = "add" => m.arg = "no_enemy"
             /\ m.command # "ping"
             /\ UNCHANGED <<clientVars, to_server, exited>>
    /\ UNCHANGED <<serverVars, backlog>>

SendMove(c) == /\ phase[c] = "playing" /\ moves < MaxMoves
               /\ moves' = moves + 1
               /\ Send(c, <<Message("move", 0, c)>>)
               /\ UNCHANGED <<serverVars, backlog, to_client, exited, phase, told>>

\* After the game or on SIGINT with "quit", or killed without.
Exit(c) == /\ c \in Leaving /\ phase[c] \in {"connected", "joining", "playing"}
           /\ phase' = [phase EXCEPT ![c] = "gone"]
           /\ \/ Send(c, <<Message("quit", 0, c), Ends(c)>>)
              \/ Send(c, <<Ends(c)>>)
           /\ Closed(c)
           /\ UNCHANGED <<serverVars, backlog, to_client, told, moves>>

ServerStep == (MainThread \/ ping) /\ UNCHANGED clientVars

\* What clients do once the server is down is of no interest.
LobbyNext ==
    \/ ServerStep
    \/ up /\ \E c \in Clients : \/ Connect(c) \/ SendAdd(c) \/ listen_server(c)
                              \/ SendMove(c) \/ Exit(c)

LobbySpec == LobbyInit /\ [][LobbyNext]_vars
-----------------------------------------------------------------------------
(* Properties.                                                             *)

Messages == [command : {"add", "move", "quit", "pong", "ping", "end"},
             arg : {"name_taken", "no_enemy", "O", "X", 0}, from : Clients \cup {NULL}]

TypeOK == /\ clients \in [Slots -> Clients \cup {NULL}] /\ online \in [Slots -> BOOLEAN]
          /\ main \in {"check", "call", "poll", "handle"} /\ up \in BOOLEAN
          /\ nfds \in 0..Len(fds) /\ backlog \subseteq Clients
          /\ exited \in [Clients -> BOOLEAN]
          /\ \A c \in Clients : \A k \in DOMAIN to_client[c] : to_client[c][k].command \in {"add", "move", "ping"}
          /\ told \in [Clients -> Clients \cup {NULL}] /\ moves \in 0..MaxMoves
=============================================================================
