-------------------------------- MODULE Chat --------------------------------
(***************************************************************************)
(* cw06/zad1: a chat server and its clients over System V message queues.  *)
(*                                                                         *)
(* The server has one queue, every client one of its own.  A client is two *)
(* processes: the parent reads commands and waits for the replies to INIT  *)
(* and LIST, the child takes every message that is in the queue and prints *)
(* it.  msgsnd waits while the queue is full and fails when it is gone.    *)
(***************************************************************************)
EXTENDS ChatQueues
-----------------------------------------------------------------------------
(* The server.                                                             *)

To(s, m) == [to |-> connected_clients[s], message |-> m]

\* close_queue tells every client in the table; it runs at every exit.
Exiting == /\ server' = "exiting"
           /\ outbox' = [s \in Connected |-> To(s, FromServer(STOP, 0, Server))]
           /\ UNCHANGED connected_clients

list_action(m) == /\ outbox' = [s \in {m.sender_id} |-> To(s, FromServer(LIST, 0, m.from))]
                  /\ UNCHANGED <<connected_clients, server>>

Relayed(m, receiver) == Message(_2ONE, m.sender_id, receiver, m.m_text, m.from, m.m_type)
RelayToEach(slots, m) == [s \in slots |-> To(s, Relayed(m, s))]

\* A mutant of to_all_action: the sender gets its message back.
to_all_action_Everyone(m) == /\ outbox' = RelayToEach(Connected, m)
                             /\ UNCHANGED <<connected_clients, server>>

to_all_action(m) == /\ outbox' = RelayToEach(Connected \ {m.sender_id}, m)
                    /\ UNCHANGED <<connected_clients, server>>

to_one_action(m) == IF connected_clients[m.receiver_id] = Free
                    THEN Exiting
                    ELSE /\ outbox' = RelayToEach({m.receiver_id}, m)
                         /\ UNCHANGED <<connected_clients, server>>

\* A mutant of stop_action: the slot is not cleared.
stop_action_KeepsSlot(m) == UNCHANGED serverVars

stop_action(m) == /\ connected_clients' = [connected_clients EXCEPT ![m.sender_id] = Free]
                  /\ UNCHANGED <<server, outbox>>

\* msgget finds the queue of the client or nothing; the slot is taken either way.
Answer(new_id, found, m) ==
    /\ connected_clients' = [connected_clients EXCEPT ![new_id] = found]
    /\ outbox' = [s \in {new_id} |-> [to |-> found, message |-> m]]
    /\ UNCHANGED server
Found(c) == IF exists[c] THEN c ELSE NoQueue

\* Mutants of init_action: another number in the reply; a table with one slot left counts
\* as full.
init_action_NextId(m) ==
    IF Connected = Slots THEN UNCHANGED serverVars
    ELSE \E new_id \in Slots :
            /\ LastFree(new_id)
            /\ Answer(new_id, Found(m.from), FromServer(INIT, Cardinality(Connected), m.from))

init_action_KeepsOne(m) ==
    IF Cardinality(Connected) + 1 >= MAX_CLIENTS THEN UNCHANGED serverVars
    ELSE \E new_id \in Slots : /\ LastFree(new_id)
                               /\ Answer(new_id, Found(m.from), FromServer(INIT, new_id, m.from))

\* The last free slot is taken, and the client told its number; a full table leaves the
\* client without an answer.
init_action(m) ==
    IF Connected = Slots THEN UNCHANGED serverVars
    ELSE \E new_id \in Slots : /\ LastFree(new_id)
                               /\ Answer(new_id, Found(m.from), FromServer(INIT, new_id, m.from))

handle_message(m) == \/ m.m_type = LIST /\ list_action(m)
                     \/ m.m_type = _2ALL /\ to_all_action(m)
                     \/ m.m_type = _2ONE /\ to_one_action(m)
                     \/ m.m_type = STOP /\ stop_action(m)
                     \/ m.m_type = INIT /\ init_action(m)

\* msgrcv with a negative type: the first message of the lowest type.
Receive ==
    /\ server = "running" /\ ~Waiting
    /\ \E k \in DOMAIN queue[Server] :
         LET m == queue[Server][k]
         IN /\ \A j \in DOMAIN queue[Server] : queue[Server][j].m_type >= m.m_type
            /\ FirstOf(Server, m.m_type, k)
            /\ handle_message(m)
            /\ queue' = Taken(Server, k)
    /\ UNCHANGED <<exists, clientVars>>

\* One msgsnd of the handler; a failure ends the server, in close_queue it is ignored.
SendNext ==
    /\ \E s \in Slots :
         /\ NextSend(s)
         /\ IF outbox[s].to \in Clients /\ exists[outbox[s].to]
            THEN /\ Send(outbox[s].to, outbox[s].message)
                 /\ outbox' = Without(s) /\ UNCHANGED <<connected_clients, server>>
            ELSE /\ UNCHANGED queue
                 /\ \/ server = "running" /\ Exiting
                    \/ /\ server = "exiting" /\ outbox' = Without(s)
                       /\ UNCHANGED <<connected_clients, server>>
    /\ UNCHANGED <<exists, clientVars>>

SIGINT_handler == /\ ServerInterrupts /\ server = "running"
                  /\ Exiting
                  /\ UNCHANGED <<queue, exists, clientVars>>

\* The server's queue stays.
ServerEnds == /\ server = "exiting" /\ ~Waiting
              /\ server' = "gone"
              /\ UNCHANGED <<connected_clients, outbox, queue, exists, clientVars>>

ServerStep == Receive \/ SendNext \/ ServerEnds
-----------------------------------------------------------------------------
(* A client: p is its parent or its child process.                         *)

CreateQueue(c) == /\ Goto(c, "parent", "start", "created")
                  /\ exists' = [exists EXCEPT ![c] = TRUE]
                  /\ UNCHANGED <<serverVars, queue, client_id, left>>

SendInit(c) == /\ Goto(c, "parent", "created", "await_init")
               /\ Send(Server, FromClient(c, INIT, 0))
               /\ UNCHANGED <<serverVars, exists, client_id, left>>

\* The reply to INIT is awaited by its type; then the child is forked.
Join(c) == /\ pc[c].parent = "await_init"
           /\ \E k \in DOMAIN queue[c] :
                /\ FirstOf(c, INIT, k)
                /\ queue' = Taken(c, k)
                /\ client_id' = [client_id EXCEPT ![c] = queue[c][k].sender_id]
           /\ pc' = [pc EXCEPT ![c] = [parent |-> "ready", child |-> "reading"]]
           /\ UNCHANGED <<serverVars, exists, left>>

\* handle_input: an order to the server.
handle_input(c) ==
    /\ left[c] > 0
    /\ left' = [left EXCEPT ![c] = @ - 1]
    /\ \/ /\ Goto(c, "parent", "ready", "await_list")
          /\ Send(Server, FromClient(c, LIST, 0))
       \/ /\ pc[c].parent = "ready" /\ UNCHANGED pc
          /\ \/ Send(Server, FromClient(c, _2ALL, 0))
             \/ \E receiver \in Slots : Send(Server, FromClient(c, _2ONE, receiver))
    /\ UNCHANGED <<serverVars, exists, client_id>>

\* The rest of list_action; without its queue the client exits.
list_action_client(c) ==
    /\ \/ /\ Goto(c, "parent", "await_list", "ready")
          /\ \E k \in DOMAIN queue[c] : FirstOf(c, LIST, k) /\ queue' = Taken(c, k)
       \/ /\ ~exists[c] /\ Goto(c, "parent", "await_list", "removing")
          /\ UNCHANGED queue
    /\ UNCHANGED <<serverVars, exists, client_id, left>>

\* The child prints messages; it takes the others too and reports them as unknown.  If
\* the queue is removed while it is in msgrcv, it exits.
handle_msg_control(c) ==
    /\ \/ /\ pc[c].child = "reading" /\ queue[c] # <<>>
          /\ queue' = Taken(c, 1)
          /\ UNCHANGED pc
       \/ /\ ~exists[c] /\ Goto(c, "child", "reading", "removing")
          /\ UNCHANGED queue
    /\ UNCHANGED <<serverVars, exists, client_id, left>>

\* stop_action, from the STOP command or a malformed one, or as the SIGINT handler at
\* any earlier point; CTRL+C reaches both processes.  The parent kills the child.
stop_action_client(c) ==
    /\ \/ /\ \/ pc[c].parent = "ready"
             \/ c \in Interrupts /\ pc[c].parent \in {"created", "await_init", "await_list"}
          /\ pc' = [pc EXCEPT ![c].parent = "stopping",
                               ![c].child = IF @ = "none" THEN "none" ELSE "gone"]
       \/ c \in Interrupts /\ Goto(c, "child", "reading", "stopping")
    /\ UNCHANGED <<serverVars, queue, exists, client_id, left>>

SendStop(c, p) == /\ Goto(c, p, "stopping", "removing")
                  /\ Send(Server, FromClient(c, STOP, 0))
                  /\ UNCHANGED <<serverVars, exists, client_id, left>>

\* At the end of its input the client exits without killing the child.
EndOfInput(c) == /\ Goto(c, "parent", "ready", "removing")
                 /\ UNCHANGED <<serverVars, queue, exists, client_id, left>>

\* remove_queue, at every exit: another STOP, and the queue is removed.
SendLastStop(c, p) == /\ Goto(c, p, "removing", "rmid")
                      /\ Send(Server, FromClient(c, STOP, 0))
                      /\ UNCHANGED <<serverVars, exists, client_id, left>>

RemoveQueue(c, p) == /\ Goto(c, p, "rmid", "gone")
                     /\ exists' = [exists EXCEPT ![c] = FALSE]
                     /\ queue' = [queue EXCEPT ![c] = <<>>]
                     /\ UNCHANGED <<serverVars, client_id, left>>

\* What a client does without waiting for its user.
Leave(c, p) == SendStop(c, p) \/ SendLastStop(c, p) \/ RemoveQueue(c, p)
Parent(c) == \/ CreateQueue(c) \/ SendInit(c) \/ Join(c) \/ list_action_client(c)
             \/ Leave(c, "parent")
User(c) == c \in Typists /\ (handle_input(c) \/ stop_action_client(c) \/ EndOfInput(c))
-----------------------------------------------------------------------------
Next == \/ ServerStep \/ SIGINT_handler
        \/ \E c \in Clients : Parent(c) \/ User(c) \/ handle_msg_control(c) \/ Leave(c, "child")

Spec == Init /\ [][Next]_vars

\* The processes run; nobody has to type anything, or to press a key.
FairSpec == /\ Spec
            /\ WF_vars(ServerStep)
            /\ \A c \in Clients : /\ SF_vars(Parent(c))
                                  /\ WF_vars(handle_msg_control(c)) /\ SF_vars(Leave(c, "child"))
-----------------------------------------------------------------------------
(* What the documentation promises and the code does not keep.             *)

\* stop_action of the server takes the queue of the client that stops off the list
\* (cw06/readme.md:39), not that of another one.
StopFreesOwnSlot ==
    \A s \in Slots : /\ connected_clients[s] \in Clients
                     /\ connected_clients'[s] = Free
                     => pc[connected_clients[s]].parent \in {"stopping", "removing", "rmid", "gone"}
OnlyOwnSlotFreed == [][StopFreesOwnSlot]_vars

\* The server works with many clients at once (cw06/readme.md:50): it does not exit of
\* itself.
ServerOutlivesClients == server = "running"

\* When the server ends it waits for the STOP of every client (cw06/readme.md:59): then no
\* client it knew is left.
ServerAwaitsClients == server = "gone" => \A c \in Clients : pc[c].parent \in {"start", "gone"}

\* Every LIST is answered, as long as the server runs.
ListAnswered == \A c \in Clients :
    pc[c].parent = "await_list" ~> pc[c].parent # "await_list" \/ server # "running"

\* A handler of the server comes to its end.
SendsReturn == Waiting ~> ~Waiting
=============================================================================
