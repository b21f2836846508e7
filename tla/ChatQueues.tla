----------------------------- MODULE ChatQueues -----------------------------
(***************************************************************************)
(* What the two chats of cw06 have in common: the server and its clients,  *)
(* one queue each, the messages, and what must hold of both.  A client is  *)
(* two processes, a parent and a child, that share its queue.              *)
(***************************************************************************)
EXTENDS Integers, Sequences, FiniteSets, SequencesExt

CONSTANTS Clients,
          MAX_CLIENTS,
          QueueSize,          \* messages that fit into a queue (msgmnb / MSG_SIZE,
                              \* MAX_SERVER_MESSAGES and MAX_CLIENTS_MESSAGES)
          Server,             \* the server, as the owner of its queue
          MaxCommands,        \* bound: orders each client gives before it only stops
          Typists,            \* bound: the clients at whose keyboard somebody sits,
          Interrupts,         \* of them those that SIGINT may reach,
          ServerInterrupts    \* and whether it may reach the server

STOP == 1
LIST == 2
_2ALL == 3
_2ONE == 4
INIT == 5

Slots == 0..(MAX_CLIENTS - 1)
Free == "free"              \* 0 in connected_clients
NoQueue == "no queue"       \* the -1 of msgget and mq_open for a queue that is not there

ASSUME ChatAssumption ==
    /\ IsFiniteSet(Clients) /\ MAX_CLIENTS \in Nat \ {0} /\ QueueSize \in Nat \ {0}
    /\ Server \notin Clients /\ MaxCommands \in [Clients -> Nat]
    /\ Free \notin Clients /\ NoQueue \notin Clients
    /\ Typists \subseteq Clients /\ Interrupts \subseteq Clients /\ ServerInterrupts \in BOOLEAN

VARIABLES connected_clients,  \* the client whose queue is in each slot
          server,             \* "running", "exiting" in close_queue, or "gone"
          outbox,             \* the sends left in the handler the server is in, by slot
          queue, exists,      \* the messages of each queue, and which clients' queues exist
          pc,                 \* where each client's parent and child process are
          client_id,
          left                \* orders each client may still give

serverVars == <<connected_clients, server, outbox>>
clientVars == <<pc, client_id, left>>
vars == <<serverVars, queue, exists, clientVars>>

\* A message: its type, sender_id, receiver_id and text, a number that counts down the
\* orders of its author; whose it is (the key in an INIT) and the order that caused it,
\* which only the properties look at.
Message(type, id, to, text, from, order) ==
    [m_type |-> type, sender_id |-> id, receiver_id |-> to, m_text |-> text,
     from |-> from, order |-> order]
FromClient(c, type, to) == Message(type, client_id[c], to, left[c], c, type)
FromServer(type, id, asker) == Message(type, id, 0, 0, asker, type)

Init == /\ connected_clients = [s \in Slots |-> Free]
        /\ server = "running" /\ outbox = <<>>
        /\ queue = [q \in Clients \cup {Server} |-> <<>>]
        /\ exists = [c \in Clients |-> FALSE]
        /\ pc = [c \in Clients |-> [parent |-> "start", child |-> "none"]]
        /\ client_id = [c \in Clients |-> 0]
        /\ left = MaxCommands

\* A mutant of HasRoom: one message too many.
HasRoom_OneMore(q) == Len(queue[q]) <= QueueSize

HasRoom(q) == Len(queue[q]) < QueueSize
Put(q, m) == [queue EXCEPT ![q] = Append(@, m)]
Taken(q, k) == [queue EXCEPT ![q] = RemoveAt(@, k)]

\* A mutant of FirstOf: the last one.
FirstOf_Last(q, type, k) == /\ k \in DOMAIN queue[q] /\ queue[q][k].m_type = type
                            /\ \A j \in (k + 1)..Len(queue[q]) : queue[q][j].m_type # type

\* The first message of a type in a queue.
FirstOf(q, type, k) == /\ k \in DOMAIN queue[q] /\ queue[q][k].m_type = type
                       /\ \A j \in 1..(k - 1) : queue[q][j].m_type # type

\* The slots that are not 0, and the last one that is.
Connected == {s \in Slots : connected_clients[s] # Free}
LastFree(s) == s \in Slots \ Connected /\ \A t \in Slots \ Connected : t <= s

\* Handlers that send to several clients do so by the numbers of their slots.
Waiting == DOMAIN outbox # {}
NextSend(s) == s \in DOMAIN outbox /\ \A t \in DOMAIN outbox : s <= t
Without(s) == Restrict(outbox, DOMAIN outbox \ {s})

\* The client's two processes.
Roles == {"parent", "child"}
Goto(c, p, from, to) == pc[c][p] = from /\ pc' = [pc EXCEPT ![c][p] = to]
Send(q, m) == HasRoom(q) /\ queue' = Put(q, m)
-----------------------------------------------------------------------------
(* Properties of both programs.                                            *)

Messages == [m_type : STOP..INIT, sender_id : Slots, receiver_id : Slots, m_text : Nat,
             from : Clients \cup {Server}, order : STOP..INIT]

TypeOK ==
    /\ connected_clients \in [Slots -> Clients \cup {Free, NoQueue}]
    /\ server \in {"running", "exiting", "gone"}
    /\ DOMAIN outbox \subseteq Slots
    /\ \A s \in DOMAIN outbox : /\ outbox[s].to \in Clients \cup {Free, NoQueue}
                                /\ outbox[s].message \in Messages
    /\ \A q \in Clients \cup {Server} : /\ Len(queue[q]) <= QueueSize
                                        /\ \A k \in DOMAIN queue[q] : queue[q][k] \in Messages
    /\ exists \in [Clients -> BOOLEAN]
    /\ client_id \in [Clients -> Slots] /\ left \in [Clients -> Nat]

\* As long as the server runs, what a client believes to be its number is where the server
\* has it: a client that has joined is in no other slot of connected_clients, and before
\* that it is in the slot that the reply to its INIT names.
IdentityConsistent ==
    server = "running" => \A c \in Clients, s \in Slots :
        connected_clients[s] = c =>
            \/ client_id[c] = s
            \/ /\ pc[c].child = "none"
               /\ \A k \in DOMAIN queue[c] : queue[c][k].m_type = INIT => queue[c][k].sender_id = s

\* to_all_action leaves the sender out (cw06/readme.md: "do wszystkich pozostalych
\* klientow"): nothing a client sent with 2ALL is put into its own queue, although the
\* server tells clients apart by numbers that are used again.
OwnMessageNotReturned ==
    \A c \in Clients : \A k \in DOMAIN queue[c] :
        queue[c][k].m_type = _2ONE /\ queue[c][k].order = _2ALL => queue[c][k].from # c

\* Through both queues, the priorities of the server and a server that may be in the
\* middle of a handler, the messages of one kind from one client to another stay in the
\* order in which they were typed, and none comes twice.
RelayedInOrder ==
    \A c \in Clients : \A i, j \in DOMAIN queue[c] :
        /\ i < j /\ queue[c][i].m_type = _2ONE /\ queue[c][j].m_type = _2ONE
        /\ queue[c][i].from = queue[c][j].from /\ queue[c][i].order = queue[c][j].order
        => queue[c][i].m_text > queue[c][j].m_text

\* What a client receives was written by others, and comes in their order.
RelayedRight == OwnMessageNotReturned /\ RelayedInOrder

\* The server waits to send to a client that takes nothing from its queue any more.
Stuck == \E s \in Slots, c \in Clients :
    /\ NextSend(s) /\ outbox[s].to = c /\ ~HasRoom(c)
    /\ pc[c].child # "reading" /\ pc[c].parent # "polling"

\* The INIT of the client has been taken and no answer is on its way.
Refused(c) ==
    /\ pc[c].parent = "await_init"
    /\ \A k \in DOMAIN queue[Server] : queue[Server][k].m_type = INIT => queue[Server][k].from # c
    /\ \A k \in DOMAIN queue[c] : queue[c][k].m_type # INIT
    /\ \A s \in DOMAIN outbox : outbox[s].message.m_type = INIT => outbox[s].to # c

\* A server that runs leaves an INIT without an answer only when all slots are taken; that
\* client waits for ever, and nobody else does unless the server gets stuck or exits.
InitAnswered ==
    /\ [][\A c \in Clients :
            ~Refused(c) /\ Refused(c)' /\ server' = "running" => Connected = Slots]_vars
    /\ []<>~Stuck =>
           <>[](server = "running" => \A c \in Clients : pc[c].parent = "await_init" => Refused(c))

\* Likewise a client that had joined and has ended is eventually not in connected_clients any
\* more (cw06/readme.md:39-41), also when CTRL+C ended it.
LeavesTable == []<>~Stuck => \A c \in Clients :
    pc[c].parent = "gone" /\ pc[c].child # "none"
        ~> (\A s \in Slots : connected_clients[s] # c) \/ server # "running"
=============================================================================
