------------------------------ MODULE ChatPosix ------------------------------
(***************************************************************************)
(* cw06/zad2: the chat over POSIX queues.                                  *)
(*                                                                         *)
(* A message is received by its priority, the number of its type: highest  *)
(* first, INIT before everything and STOP after everything.  The client's  *)
(* parent takes what comes, its child reads the commands.  A queue that    *)
(* was unlinked can be sent to by whoever has it open, and mq_send waits   *)
(* while the queue is full.                                                *)
(***************************************************************************)
EXTENDS ChatQueues

\* The server's descriptor 0, the value that means a free slot: its standard input
\* (NoQueue), nothing (Free), or the queue of a client.
VARIABLE zero

posixVars == <<vars, zero>>

\* Descriptors other than 0 are told apart from 0 by what they are.
PosixInit == Init /\ zero = NoQueue

\* A mutant of Highest: the order of the System V queues.
Highest_Lowest(q, k) == /\ k \in DOMAIN queue[q]
                        /\ \A j \in DOMAIN queue[q] : queue[q][j].m_type >= queue[q][k].m_type
                        /\ FirstOf(q, queue[q][k].m_type, k)

\* mq_receive: the oldest message of the highest priority.
Highest(q, k) == /\ k \in DOMAIN queue[q]
                 /\ \A j \in DOMAIN queue[q] : queue[q][j].m_type <= queue[q][k].m_type
                 /\ FirstOf(q, queue[q][k].m_type, k)
-----------------------------------------------------------------------------
(* The server.                                                             *)

\* A message to whom the descriptor in a slot reaches; 0 is a descriptor too.
Addressed(s, m) ==
    [to |-> IF connected_clients[s] = Free THEN zero ELSE connected_clients[s], message |-> m]

\* close_queue, at every exit.
Exiting == /\ server' = "exiting"
           /\ outbox' = [s \in Connected |-> Addressed(s, FromServer(STOP, 0, Server))]
           /\ UNCHANGED <<connected_clients, zero>>

list_action(m) == /\ outbox' = [s \in {m.sender_id} |-> Addressed(s, FromServer(LIST, 0, m.from))]
                  /\ UNCHANGED <<connected_clients, server, zero>>

Forward(slots, m) ==
    [s \in slots |-> Addressed(s, Message(_2ONE, m.sender_id, s, m.m_text, m.from, m.m_type))]

to_one_action(m) == IF connected_clients[m.receiver_id] = Free
                    THEN Exiting
                    ELSE /\ outbox' = Forward({m.receiver_id}, m)
                         /\ UNCHANGED <<connected_clients, server, zero>>

\* A mutant of to_all_action: the sender gets its message back.
to_all_action_Everyone(m) == /\ outbox' = Forward(Connected, m)
                             /\ UNCHANGED <<connected_clients, server, zero>>

to_all_action(m) == /\ outbox' = Forward(Connected \ {m.sender_id}, m)
                    /\ UNCHANGED <<connected_clients, server, zero>>

\* A mutant of stop_action: the slot keeps its descriptor.
stop_action_KeepsSlot(m) == UNCHANGED <<serverVars, zero>>

\* For a client that is not there, the standard input is closed.
stop_action(m) ==
    /\ connected_clients' = [connected_clients EXCEPT ![m.sender_id] = Free]
    /\ zero' = IF connected_clients[m.sender_id] = Free THEN Free ELSE zero
    /\ UNCHANGED <<server, outbox>>

\* A mutant of init_action: no answer when only one slot is left.
init_action_KeepsOne(m) ==
    IF Cardinality(Connected) + 1 >= MAX_CLIENTS THEN UNCHANGED <<serverVars, zero>>
    ELSE \E new_id \in Slots :
            /\ LastFree(new_id)
            /\ connected_clients' = [connected_clients EXCEPT ![new_id] = m.from]
            /\ outbox' = [s \in {new_id} |-> [to |-> m.from, message |-> FromServer(INIT, new_id, m.from)]]
            /\ UNCHANGED <<server, zero>>

\* The last free slot is taken, if there is one.  mq_open gives the lowest descriptor that
\* is not in use: with 0 the slot goes on to look free.
init_action(m) ==
    IF Connected = Slots THEN UNCHANGED <<serverVars, zero>>
    ELSE \E new_id \in Slots :
            LET found == IF exists[m.from] THEN m.from ELSE NoQueue
            IN /\ LastFree(new_id)
               /\ IF zero = Free /\ found # NoQueue
                  THEN zero' = found /\ UNCHANGED connected_clients
                  ELSE /\ connected_clients' = [connected_clients EXCEPT ![new_id] = found]
                       /\ UNCHANGED zero
               /\ outbox' = [s \in {new_id} |-> [to |-> found, message |-> FromServer(INIT, new_id, m.from)]]
               /\ UNCHANGED server

handle_message(m) == \/ m.m_type = LIST /\ list_action(m)
                     \/ m.m_type = _2ALL /\ to_all_action(m)
                     \/ m.m_type = _2ONE /\ to_one_action(m)
                     \/ m.m_type = STOP /\ stop_action(m)
                     \/ m.m_type = INIT /\ init_action(m)

Receive == /\ server = "running" /\ ~Waiting
           /\ \E k \in DOMAIN queue[Server] :
                /\ Highest(Server, k)
                /\ handle_message(queue[Server][k])
                /\ queue' = Taken(Server, k)
           /\ UNCHANGED <<exists, clientVars>>

\* One mq_send of the handler.  It fails if the descriptor is no queue: that ends the
\* server, and in close_queue it is ignored.
SendNext ==
    /\ \E s \in Slots :
         /\ NextSend(s)
         /\ \/ /\ outbox[s].to \in Clients
               /\ Send(outbox[s].to, outbox[s].message)
               /\ outbox' = Without(s) /\ UNCHANGED <<connected_clients, server, zero>>
            \/ /\ outbox[s].to \notin Clients /\ server = "running"
               /\ Exiting /\ UNCHANGED queue
            \/ /\ outbox[s].to \notin Clients /\ server = "exiting"
               /\ outbox' = Without(s) /\ UNCHANGED <<connected_clients, server, zero, queue>>
    /\ UNCHANGED <<exists, clientVars>>

SIGINT_handler == /\ ServerInterrupts /\ server = "running"
                  /\ Exiting
                  /\ UNCHANGED <<queue, exists, clientVars>>

\* The name of the server's queue is removed.
ServerEnds == /\ server = "exiting" /\ ~Waiting
              /\ server' = "gone"
              /\ UNCHANGED <<connected_clients, outbox, queue, exists, clientVars, zero>>

ServerStep == Receive \/ SendNext \/ ServerEnds
-----------------------------------------------------------------------------
(* A client.                                                               *)

\* Both queues are opened; without a server the client exits and leaves its own behind.
OpenQueues(c) == /\ Goto(c, "parent", "start", IF server = "gone" THEN "gone" ELSE "created")
                 /\ exists' = [exists EXCEPT ![c] = TRUE]
                 /\ UNCHANGED <<serverVars, queue, client_id, left, zero>>

SendInit(c) == /\ Goto(c, "parent", "created", "await_init")
               /\ Send(Server, FromClient(c, INIT, 0))
               /\ UNCHANGED <<serverVars, exists, client_id, left, zero>>

\* Whatever message comes first is read as the answer; the text of another one than INIT
\* is some number.  Then the child is forked.
Join(c) == /\ pc[c].parent = "await_init"
           /\ \E k \in DOMAIN queue[c], id \in Slots :
                /\ Highest(c, k)
                /\ queue[c][k].m_type = INIT => id = queue[c][k].sender_id
                /\ queue' = Taken(c, k)
                /\ client_id' = [client_id EXCEPT ![c] = id]
           /\ pc' = [pc EXCEPT ![c] = [parent |-> "polling", child |-> "ready"]]
           /\ UNCHANGED <<serverVars, exists, left, zero>>

\* The child: an order to the server; LIST awaits an answer.
handle_input(c) ==
    /\ left[c] > 0 /\ pc[c].child = "ready"
    /\ left' = [left EXCEPT ![c] = @ - 1]
    /\ \/ Goto(c, "child", "ready", "await_list") /\ Send(Server, FromClient(c, LIST, 0))
       \/ Send(Server, FromClient(c, _2ALL, 0)) /\ UNCHANGED pc
       \/ \E receiver \in Slots : Send(Server, FromClient(c, _2ONE, receiver)) /\ UNCHANGED pc
    /\ UNCHANGED <<serverVars, exists, client_id, zero>>

\* The child takes whatever comes first for the list.
list_action_client(c) == /\ Goto(c, "child", "await_list", "ready")
                         /\ \E k \in DOMAIN queue[c] : Highest(c, k) /\ queue' = Taken(c, k)
                         /\ UNCHANGED <<serverVars, exists, client_id, left, zero>>

\* The child ends with its input; the parent knows nothing of it.
EndOfInput(c) == /\ Goto(c, "child", "ready", "gone")
                 /\ UNCHANGED <<serverVars, queue, exists, client_id, left, zero>>

\* stop_action kills the child, which is gone at once.
Stopping(c) == pc' = [pc EXCEPT ![c].parent = "stopping",
                                ![c].child = IF @ = "none" THEN "none" ELSE "gone"]

\* A mutant of handle_queue_message: STOP is an unknown type.
handle_queue_message_NoStop(c) ==
    /\ pc[c].parent = "polling"
    /\ \E k \in DOMAIN queue[c] : Highest(c, k) /\ queue' = Taken(c, k) /\ UNCHANGED pc
    /\ UNCHANGED <<serverVars, exists, client_id, left, zero>>

\* The parent takes what its polling found.  If the child was faster it waits in
\* mq_receive, where it does what it does when it polls.
handle_queue_message(c) ==
    /\ pc[c].parent = "polling"
    /\ \E k \in DOMAIN queue[c] :
         /\ Highest(c, k)
         /\ queue' = Taken(c, k)
         /\ IF queue[c][k].m_type = STOP THEN Stopping(c) ELSE UNCHANGED pc
    /\ UNCHANGED <<serverVars, exists, client_id, left, zero>>

\* SIGINT, from the child for STOP or from the keyboard; the latter at any earlier point.
stop_action_client(c) ==
    /\ \/ pc[c].parent = "polling"
       \/ c \in Interrupts /\ pc[c].parent \in {"created", "await_init"}
    /\ Stopping(c)
    /\ UNCHANGED <<serverVars, queue, exists, client_id, left, zero>>

SendStop(c) == /\ Goto(c, "parent", "stopping", "removing")
               /\ Send(Server, FromClient(c, STOP, 0))
               /\ UNCHANGED <<serverVars, exists, client_id, left, zero>>

\* A mutant of remove_queue: it sends STOP too, as the System V client does.
remove_queue_StopsAgain(c) ==
    /\ Goto(c, "parent", "removing", "gone")
    /\ exists' = [exists EXCEPT ![c] = FALSE]
    /\ Send(Server, FromClient(c, STOP, 0))
    /\ UNCHANGED <<serverVars, client_id, left, zero>>

\* What the server still has in the queue stays there.
remove_queue(c) == /\ Goto(c, "parent", "removing", "gone")
                   /\ exists' = [exists EXCEPT ![c] = FALSE]
                   /\ UNCHANGED <<serverVars, queue, client_id, left, zero>>

Parent(c) == \/ OpenQueues(c) \/ SendInit(c) \/ Join(c) \/ handle_queue_message(c)
             \/ SendStop(c) \/ remove_queue(c)
User(c) == c \in Typists /\ (handle_input(c) \/ EndOfInput(c) \/ stop_action_client(c))
-----------------------------------------------------------------------------
PosixNext == \/ ServerStep \/ SIGINT_handler
             \/ \E c \in Clients : Parent(c) \/ User(c) \/ list_action_client(c)

\* CTRL+C ended the client before it had read its number, and the server has taken the STOP
\* that it sent with number 0, whoever has that number.
Stray(c) ==
    /\ pc[c].child = "none" /\ pc[c].parent \in {"removing", "gone"}
    /\ \A k \in DOMAIN queue[Server] : queue[Server][k].m_type = STOP => queue[Server][k].from # c
NoStray == \A c \in Clients : ~Stray(c)

\* Until then, what the server can still be asked for by a client it is asked for by a
\* member: STOP comes last, so no order of a client is left when its slot is freed, and no
\* order is carried out in the name of the next client of the slot.
OrdersOfMembers ==
    server = "running" /\ NoStray =>
        \A k \in DOMAIN queue[Server] :
            LET m == queue[Server][k]
            IN m.m_type \in {LIST, _2ALL, _2ONE} => connected_clients[m.sender_id] = m.from

\* Until then a slot is only freed when the client in it has asked for that, and the step
\* that ends this frees no other slot than 0.
OwnSlotFreed ==
    NoStray => \A s \in Slots :
        /\ connected_clients[s] \in Clients /\ connected_clients'[s] # connected_clients[s]
        => pc[connected_clients[s]].parent \in {"removing", "gone"} \/ (s = 0 /\ ~NoStray')

\* The STOP of the server, last of all in the queue, ends a client whose child does not
\* ask for the list any more (the answer may be the STOP), unless it finds the queue of
\* the server full, that nobody empties.
ServerStopsClient ==
    \A c \in Clients :
        /\ \E k \in DOMAIN queue[c] : queue[c][k].m_type = STOP
        /\ pc[c].parent = "polling" /\ pc[c].child # "await_list" /\ left[c] = 0
        ~> pc[c].parent = "gone" \/ (pc[c].parent = "stopping" /\ ~HasRoom(Server))
=============================================================================
