------------------------------ MODULE ChatProof ------------------------------
(***************************************************************************)
(* Both chats, for any number of clients, slots and orders, and queues of  *)
(* any size.  Every step of either is one of a few kinds, by what it does  *)
(* to the queues, the table and the sends of the server (Kinds); the       *)
(* invariants are shown to be kept by each kind, for both at once.         *)
(***************************************************************************)
EXTENDS MCChats, FiniteSetTheorems, SequenceTheorems, TLAPS

Queues == Clients \cup {Server}
ParentPlaces == {"start", "created", "await_init", "ready", "await_list", "polling", "stopping",
                 "removing", "rmid", "gone"}
ChildPlaces == {"none", "reading", "ready", "await_list", "stopping", "removing", "rmid", "gone"}

Types ==
    /\ program \in {"System V", "POSIX"} /\ zero \in Clients \cup {Free, NoQueue}
    /\ TypeOK
    /\ queue \in [Queues -> Seq(Messages)]
    /\ pc \in [Clients -> [parent : ParentPlaces, child : ChildPlaces]]

\* A client has a child from when it has joined.
Childless ==
    \A c \in Clients : /\ pc[c].parent \in {"start", "created", "await_init"} => pc[c].child = "none"
                       /\ pc[c].parent \in {"ready", "await_list", "polling"} => pc[c].child # "none"
                       /\ program = "POSIX" /\ pc[c].child \in {"ready", "await_list"} => pc[c].parent = "polling"
-----------------------------------------------------------------------------
(* Joining.                                                                *)

Seats(c) == {s \in Slots : connected_clients[s] = c}
Asks(c) == {k \in DOMAIN queue[Server] : queue[Server][k].m_type = INIT /\ queue[Server][k].from = c}
Replies(c) == {k \in DOMAIN queue[c] : queue[c][k].m_type = INIT}
SendsReply(c) == {s \in DOMAIN outbox : outbox[s].to = c /\ outbox[s].message.m_type = INIT}
Answered(c) == Replies(c) # {} \/ SendsReply(c) # {}
Known(c) == Seats(c) # {} \/ zero = c

\* Who has not sent INIT is unknown to the server and gets no message, and so is who has sent
\* it while it is in the server's queue; it is there once at most.
UnknownYet(c) ==
    pc[c].parent \in {"start", "created"} \/ Asks(c) # {} =>
        ~Known(c) /\ ~Answered(c) /\ DOMAIN queue[c] = {}
AsksOnce(c) ==
    /\ pc[c].parent \in {"start", "created"} => Asks(c) = {}
    /\ Asks(c) # {} => pc[c].child = "none"
    /\ \A j, k \in Asks(c) : j = k

\* A client is in one slot at most, and the reply and the client know in which.
OneSeat(c) ==
    \A s \in Seats(c) :
        /\ Seats(c) = {s}
        /\ \A k \in Replies(c) : queue[c][k].sender_id = s
        /\ \A t \in SendsReply(c) : outbox[t].message.sender_id = s
        /\ pc[c].child # "none" => client_id[c] = s

\* The answer to INIT comes before everything else, and by itself.
AnswerFirst(c) ==
    /\ pc[c].parent = "await_init" /\ Known(c) => Answered(c)
    /\ pc[c].parent = "await_init" /\ DOMAIN queue[c] # {} => Replies(c) # {}
    /\ \A s \in SendsReply(c) : DOMAIN outbox = {s}
    /\ (\E s \in DOMAIN outbox : outbox[s].to = c /\ outbox[s].message.m_type # INIT) => Known(c)

Joining(c) == UnknownYet(c) /\ AsksOnce(c) /\ OneSeat(c) /\ AnswerFirst(c)
JoinInv == server = "running" => \A c \in Clients : Joining(c)
-----------------------------------------------------------------------------
(* What clients write.                                                     *)

Relay(m) == m.order \in {_2ALL, _2ONE}
SameKind(m, n) == m.from = n.from /\ m.order = n.order

\* What is in the server's queue was sent by a client, orders under the number of their author.
ServersMail(m) == /\ m.from \in Clients /\ m.order = m.m_type
                  /\ m.m_type \notin {STOP, INIT} =>
                        pc[m.from].child # "none" /\ m.sender_id = client_id[m.from]
ClientsMail(c, m) == /\ m.m_type = _2ONE <=> Relay(m)
                     /\ Relay(m) => m.from \in Clients
                     /\ m.order = _2ALL => m.from # c
MailInv == /\ \A k \in DOMAIN queue[Server] : ServersMail(queue[Server][k])
           /\ \A s \in DOMAIN outbox : ClientsMail(outbox[s].to, outbox[s].message)
           /\ \A c \in Clients : \A k \in DOMAIN queue[c] : ClientsMail(c, queue[c][k])

\* m was written after n, unless they are of different authors or kinds; and its author
\* has fewer orders left than there were then.
Later(m, n) == Relay(m) /\ SameKind(m, n) => m.m_text < n.m_text
Spent(m) == Relay(m) => m.m_text > left[m.from]

InOrder(q) ==
    \A k \in DOMAIN queue[q] :
        /\ Spent(queue[q][k])
        /\ \A j \in DOMAIN queue[q] : j < k => Later(queue[q][k], queue[q][j])
\* What is sent is later than what its receiver has, and is sent once.
SentInOrder(s) ==
    /\ Spent(outbox[s].message)
    /\ \A k \in DOMAIN queue[Server] : Later(queue[Server][k], outbox[s].message)
    /\ outbox[s].to \in Clients =>
         /\ \A k \in DOMAIN queue[outbox[s].to] : Later(outbox[s].message, queue[outbox[s].to][k])
         /\ Relay(outbox[s].message) => \A t \in DOMAIN outbox : outbox[t].to = outbox[s].to => t = s
OrderInv ==
    /\ \A q \in Queues : InOrder(q)
    /\ \A c \in Clients : \A j \in DOMAIN queue[c], k \in DOMAIN queue[Server] :
            Later(queue[Server][k], queue[c][j])
    /\ \A s \in DOMAIN outbox : SentInOrder(s)
-----------------------------------------------------------------------------
(* The members of the POSIX chat, until the server takes the STOP of a     *)
(* client that was interrupted while joining.                              *)

Seated(c) == connected_clients[client_id[c]] = c
StopsOf(c) == {k \in DOMAIN queue[Server] : queue[Server][k].m_type = STOP /\ queue[Server][k].from = c}
\* The server has no STOP any more of a client that ended before it had read its number.
Strays(c) == pc[c].child = "none" /\ pc[c].parent \in {"removing", "gone"} /\ StopsOf(c) = {}
Calm == program = "POSIX" /\ \A c \in Clients : ~Strays(c)

MembersOf(c) ==
    /\ pc[c].child = "none" => client_id[c] = 0
    /\ pc[c].parent = "await_init" =>
         \A k \in Replies(c) : connected_clients[queue[c][k].sender_id] = c
    /\ \A s \in SendsReply(c) : connected_clients[outbox[s].message.sender_id] = c
    /\ pc[c].parent \in {"polling", "stopping"} /\ pc[c].child # "none" => Seated(c)
    /\ \A k \in StopsOf(c) : /\ pc[c].parent \in {"removing", "gone"}
                             /\ \A j \in StopsOf(c) : j = k
    /\ \A k \in DOMAIN queue[Server] :
          LET m == queue[Server][k]
          IN m.from = c /\ m.m_type # INIT =>
                m.sender_id = client_id[c] /\ (pc[c].child # "none" => Seated(c))
MembersInv ==
    Calm /\ server = "running" => zero = NoQueue /\ \A c \in Clients : MembersOf(c)
-----------------------------------------------------------------------------
(* The steps of both programs, by what they do to the queues.              *)

\* Messages other than those at the places gone stay in their order.
Fewer(q, gone) ==
    /\ queue' \in [Queues -> Seq(Messages)]
    /\ \A p \in Queues : p # q => queue'[p] = queue[p]
    /\ Len(queue'[q]) <= Len(queue[q])
    /\ \E f \in [DOMAIN queue'[q] -> DOMAIN queue[q] \ gone] :
          \A j \in DOMAIN queue'[q] : /\ queue'[q][j] = queue[q][f[j]]
                                      /\ \A i \in DOMAIN queue'[q] : i < j => f[i] < f[j]

\* A message more, at the end.
More(q, m) ==
    /\ queue' \in [Queues -> Seq(Messages)]
    /\ \A p \in Queues : p # q => queue'[p] = queue[p]
    /\ Len(queue'[q]) <= QueueSize
    /\ \E last \in {Len(queue'[q])} :
          /\ DOMAIN queue'[q] = DOMAIN queue[q] \cup {last}
          /\ \A k \in DOMAIN queue[q] : k < last /\ queue'[q][k] = queue[q][k]
          /\ queue'[q][last] = m

\* The server.
ClientsStay == UNCHANGED <<exists, pc, client_id, left, program>>
Handles(k, m) ==
    /\ server = "running" /\ DOMAIN outbox = {}
    /\ k \in DOMAIN queue[Server] /\ m = queue[Server][k] /\ m \in Messages
    /\ Fewer(Server, {k})
    /\ \A j \in DOMAIN queue[Server] : j < k => queue[Server][j].m_type # m.m_type
    /\ program = "POSIX" => \A j \in DOMAIN queue[Server] : queue[Server][j].m_type <= m.m_type
    /\ ClientsStay
Ends == /\ server = "running" /\ server' = "exiting" /\ UNCHANGED <<connected_clients, zero>>
        /\ DOMAIN outbox' \subseteq Slots
        /\ \A s \in DOMAIN outbox' : /\ outbox'[s].to \in Clients \cup {Free, NoQueue}
                                     /\ outbox'[s].message = FromServer(STOP, 0, Server)
Lists(m) == /\ m.m_type = LIST /\ UNCHANGED <<connected_clients, server, zero>>
            /\ DOMAIN outbox' = {m.sender_id}
            /\ outbox'[m.sender_id].to \in {connected_clients[m.sender_id], zero}
            /\ outbox'[m.sender_id].message = FromServer(LIST, 0, m.from)
Relays(m) == /\ m.m_type \in {_2ALL, _2ONE} /\ UNCHANGED <<connected_clients, server, zero>>
             /\ DOMAIN outbox' \subseteq Connected
             /\ m.m_type = _2ALL => m.sender_id \notin DOMAIN outbox'
             /\ \A s \in DOMAIN outbox' :
                   /\ outbox'[s].to = connected_clients[s]
                   /\ outbox'[s].message = Message(_2ONE, m.sender_id, s, m.m_text, m.from, m.m_type)
Frees(m) == /\ m.m_type = STOP /\ UNCHANGED <<server, outbox>>
            /\ connected_clients' = [connected_clients EXCEPT ![m.sender_id] = Free]
            /\ zero' \in {zero, Free} /\ (connected_clients[m.sender_id] # Free => zero' = zero)
Admits(m) ==
    /\ m.m_type = INIT /\ UNCHANGED server
    /\ \E s \in Slots, found \in {m.from, NoQueue} :
         /\ connected_clients[s] = Free /\ (exists[m.from] => found = m.from)
         /\ DOMAIN outbox' = {s} /\ outbox'[s].to = found
         /\ outbox'[s].message = FromServer(INIT, s, m.from)
         /\ \/ /\ connected_clients' = [connected_clients EXCEPT ![s] = found] /\ UNCHANGED zero
            \/ /\ zero = Free /\ zero' = found /\ UNCHANGED connected_clients
Ignores(m) == m.m_type = INIT /\ UNCHANGED <<connected_clients, server, outbox, zero>>
ServerTakes == \E k \in DOMAIN queue[Server] : \E m \in {queue[Server][k]} :
    Handles(k, m) /\ (Ends \/ Lists(m) \/ Relays(m) \/ Frees(m) \/ Admits(m) \/ Ignores(m))
Delivers(s) == /\ s \in DOMAIN outbox /\ outbox[s].to \in Clients
               /\ More(outbox[s].to, outbox[s].message) /\ outbox' = Without(s)
               /\ UNCHANGED <<connected_clients, server, zero>> /\ ClientsStay
GivesUp == Ends /\ UNCHANGED queue /\ ClientsStay
Fades == /\ server # "running" /\ server' \in {"exiting", "gone"}
         /\ outbox' = outbox \/ \E s \in Slots : outbox' = Without(s)
         /\ UNCHANGED <<connected_clients, zero, queue>> /\ ClientsStay

\* The clients.
ServerStays == UNCHANGED <<connected_clients, server, outbox, zero, program>>
Moves(c) == /\ pc' \in [Clients -> [parent : ParentPlaces, child : ChildPlaces]]
            /\ \A d \in Clients : d # c => pc'[d] = pc[d]
\* Neither sending INIT nor joining.
Goes(c) ==
    /\ Moves(c)
    /\ pc'[c].child = "none" <=> pc[c].child = "none"
    /\ pc'[c].parent \in {"start", "created", "await_init"} =>
          pc'[c].parent = pc[c].parent \/ (pc[c].parent = "start" /\ pc'[c].parent = "created")
    /\ pc'[c].parent \in {"ready", "await_list", "polling"} => pc[c].child # "none"
    /\ program = "POSIX" /\ pc'[c].child \in {"ready", "await_list"} =>
          pc[c].child \in {"ready", "await_list"} /\ pc'[c].parent = pc[c].parent
    /\ program = "POSIX" =>
          /\ pc[c].parent \in {"removing", "gone"} => pc'[c].parent \in {"removing", "gone"}
          /\ pc'[c].parent \in {"polling", "stopping"} /\ pc[c].child # "none" =>
                pc[c].parent \in {"polling", "stopping"}
SendsInit(c) ==
    /\ pc[c].parent = "created" /\ pc[c].child = "none" /\ Moves(c)
    /\ pc'[c] = [pc[c] EXCEPT !.parent = "await_init"]
    /\ More(Server, FromClient(c, INIT, 0))
    /\ ServerStays /\ UNCHANGED <<exists, client_id, left>>
Orders(c) ==
    /\ \E type \in {LIST, _2ALL, _2ONE}, receiver \in Slots : More(Server, FromClient(c, type, receiver))
    /\ left[c] > 0 /\ left' = [left EXCEPT ![c] = @ - 1]
    /\ pc[c].child # "none" /\ (program = "POSIX" => pc[c].child = "ready") /\ Goes(c)
    /\ ServerStays /\ UNCHANGED <<exists, client_id>>
Stops(c) ==
    /\ More(Server, FromClient(c, STOP, 0)) /\ Goes(c)
    /\ program = "POSIX" => pc[c].parent = "stopping" /\ pc'[c].parent = "removing"
    /\ ServerStays /\ UNCHANGED <<exists, client_id, left>>
Joins(c, k) ==
    /\ pc[c].parent = "await_init" /\ k \in DOMAIN queue[c] /\ Fewer(c, {k})
    /\ Replies(c) # {} => queue[c][k].m_type = INIT
    /\ \E id \in Slots : /\ queue[c][k].m_type = INIT => id = queue[c][k].sender_id
                         /\ client_id' = [client_id EXCEPT ![c] = id]
    /\ Moves(c) /\ pc'[c].parent \in {"ready", "polling"} /\ pc'[c].child # "none"
    /\ program = "POSIX" => pc'[c].parent = "polling"
    /\ ServerStays /\ UNCHANGED <<exists, left>>
\* Reading from the queue, and removing it.
Reads(c) ==
    /\ pc[c].parent \notin {"start", "created", "await_init"}
    /\ Fewer(c, {}) /\ Goes(c)
    /\ ServerStays /\ UNCHANGED <<client_id, left>>
    /\ exists' \in [Clients -> BOOLEAN]
Passes(c) ==
    /\ Goes(c) /\ UNCHANGED queue
    /\ ServerStays /\ UNCHANGED <<client_id, left>>
    /\ exists' \in [Clients -> BOOLEAN]
ClientDoes(c) == \/ SendsInit(c) \/ Orders(c) \/ Stops(c) \/ Reads(c) \/ Passes(c)
                 \/ \E k \in DOMAIN queue[c] : Joins(c, k)
Kinds == ServerTakes \/ (\E s \in Slots : Delivers(s)) \/ GivesUp \/ Fades \/ \E c \in Clients : ClientDoes(c)
-----------------------------------------------------------------------------
LEMMA Removing ==
    ASSUME NEW S, NEW s \in Seq(S), NEW k \in 1..Len(s)
    PROVE  /\ RemoveAt(s, k) \in Seq(S) /\ Len(RemoveAt(s, k)) = Len(s) - 1
           /\ \A j \in 1..(Len(s) - 1) : RemoveAt(s, k)[j] = IF j < k THEN s[j] ELSE s[j + 1]
<1> DEFINE a == SubSeq(s, 1, k - 1)
           b == SubSeq(s, k + 1, Len(s))
<1>1. Len(s) \in Nat /\ k \in Nat /\ 1 <= k /\ k <= Len(s) /\ \A j \in 1..Len(s) : s[j] \in S
  OBVIOUS
<1>2. /\ a \in Seq(S) /\ Len(a) = k - 1
      /\ \A j \in 1..(k - 1) : a[j] = s[j]
  BY <1>1
<1>3. /\ b \in Seq(S) /\ Len(b) = Len(s) - k
      /\ \A j \in 1..(Len(s) - k) : b[j] = s[k + j]
  BY <1>1
<1>4. RemoveAt(s, k) = a \o b
  BY DEF RemoveAt
<1> HIDE DEF a, b
<1>5. /\ a \o b \in Seq(S) /\ Len(a \o b) = Len(a) + Len(b)
      /\ \A j \in 1..(Len(a) + Len(b)) : (a \o b)[j] = IF j <= Len(a) THEN a[j] ELSE b[j - Len(a)]
  BY <1>2, <1>3, ConcatProperties, Zenon
<1>6. Len(a) + Len(b) = Len(s) - 1
  BY <1>1, <1>2, <1>3
<1>7. \A j \in 1..(Len(s) - 1) : /\ j < k => j \in 1..(k - 1) /\ j <= k - 1
                                 /\ ~(j < k) => ~(j <= k - 1)
                                 /\ ~(j < k) => j - (k - 1) \in 1..(Len(s) - k) /\ k + (j - (k - 1)) = j + 1
  BY <1>1
<1> QED  BY <1>2, <1>3, <1>4, <1>5, <1>6, <1>7

LEMMA QueueTypes ==
    ASSUME Types
    PROVE  /\ queue \in [Queues -> Seq(Messages)]
           /\ \A q \in Queues : /\ queue[q] \in Seq(Messages) /\ Len(queue[q]) \in Nat
                                /\ DOMAIN queue[q] = 1..Len(queue[q])
                                /\ \A k \in DOMAIN queue[q] : queue[q][k] \in Messages
<1>1. queue \in [Queues -> Seq(Messages)]
  BY Zenon DEF Types
<1>2. \A q \in Queues : queue[q] \in Seq(Messages)
  BY <1>1
<1>3. ASSUME NEW q \in Queues
      PROVE  Len(queue[q]) \in Nat /\ DOMAIN queue[q] = 1..Len(queue[q])
             /\ \A k \in DOMAIN queue[q] : queue[q][k] \in Messages
  <2>1. PICK s \in Seq(Messages) : s = queue[q]
    BY <1>2
  <2>2. Len(s) \in Nat /\ DOMAIN s = 1..Len(s) /\ \A k \in DOMAIN s : s[k] \in Messages
    OBVIOUS
  <2> QED  BY <2>1, <2>2
<1> QED  BY <1>1, <1>2, <1>3

LEMMA Putting ==
    ASSUME Types, NEW q \in Queues, NEW m \in Messages, queue' = Put(q, m), HasRoom(q)
    PROVE  More(q, m)
<1> DEFINE old == queue[q]
           last == Len(old) + 1
<1>1. queue \in [Queues -> Seq(Messages)] /\ old \in Seq(Messages) /\ Len(old) \in Nat
  BY QueueTypes
<1>2. queue'[q] = Append(old, m) /\ queue' \in [Queues -> Seq(Messages)]
      /\ \A p \in Queues : p # q => queue'[p] = queue[p]
  BY <1>1 DEF Put
<1>3. /\ Len(queue'[q]) = last /\ DOMAIN queue'[q] = 1..last /\ DOMAIN old = 1..Len(old)
      /\ queue'[q][last] = m /\ \A k \in 1..Len(old) : queue'[q][k] = old[k]
  BY <1>1, <1>2
<1>4. last \in Nat /\ 1..last = 1..Len(old) \cup {last} /\ \A k \in 1..Len(old) : k < last
  BY <1>1
<1>5. Len(queue'[q]) <= QueueSize
  BY <1>1, <1>3, ChatAssumption DEF HasRoom
<1>6. /\ DOMAIN queue'[q] = DOMAIN queue[q] \cup {Len(queue'[q])} /\ queue'[q][Len(queue'[q])] = m
      /\ \A k \in DOMAIN queue[q] : k < Len(queue'[q]) /\ queue'[q][k] = queue[q][k]
  BY <1>3, <1>4
<1> HIDE DEF old, last
<1> QED  BY <1>2, <1>5, <1>6 DEF More

LEMMA Taking ==
    ASSUME Types, NEW q \in Queues, NEW k \in DOMAIN queue[q], queue' = Taken(q, k)
    PROVE  Fewer(q, {k})
<1>1. queue \in [Queues -> Seq(Messages)] /\ queue[q] \in Seq(Messages) /\ k \in 1..Len(queue[q])
  BY QueueTypes
<1>2. PICK old, new : old \in Seq(Messages) /\ old = queue[q] /\ new = RemoveAt(old, k)
  BY <1>1
<1>0. k \in 1..Len(old) /\ Len(old) \in Nat
  BY <1>1, <1>2
<1>3. /\ new \in Seq(Messages) /\ Len(new) = Len(old) - 1 /\ Len(old) \in Nat /\ k \in 1..Len(old)
      /\ \A j \in 1..(Len(old) - 1) : new[j] = IF j < k THEN old[j] ELSE old[j + 1]
  BY <1>0, <1>2, Removing, Zenon
<1>4. /\ queue'[q] = new /\ queue' \in [Queues -> Seq(Messages)]
      /\ \A p \in Queues : p # q => queue'[p] = queue[p]
  BY <1>1, <1>2, <1>3 DEF Taken
<1>5. DOMAIN new = 1..(Len(old) - 1) /\ DOMAIN old = 1..Len(old) /\ Len(new) <= Len(old)
  BY <1>3
<1>6. PICK f : f = [j \in DOMAIN new |-> IF j < k THEN j ELSE j + 1]
  BY Zenon
<1>7. \A j \in DOMAIN new : f[j] \in DOMAIN old \ {k} /\ new[j] = old[f[j]]
  BY <1>3, <1>5, <1>6
<1>8. \A i, j \in DOMAIN new : i < j => f[i] < f[j]
  BY <1>3, <1>5, <1>6
<1>9. f \in [DOMAIN new -> DOMAIN old \ {k}]
  BY <1>6, <1>7
<1>10. \E h \in [DOMAIN new -> DOMAIN old \ {k}] :
          \A j \in DOMAIN new : new[j] = old[h[j]] /\ \A i \in DOMAIN new : i < j => h[i] < h[j]
  BY <1>7, <1>8, <1>9
<1>11. Len(queue'[q]) <= Len(queue[q])
  BY <1>2, <1>4, <1>5
<1> QED  BY <1>2, <1>4, <1>10, <1>11 DEF Fewer

LEMMA FewerWithout ==
    ASSUME NEW q \in Queues, NEW gone, Fewer(q, gone)
    PROVE  Fewer(q, {})
BY Zenon DEF Fewer

LEMMA Emptying ==
    ASSUME Types, NEW q \in Queues, queue' = [queue EXCEPT ![q] = <<>>]
    PROVE  Fewer(q, {})
<1>1. queue \in [Queues -> Seq(Messages)] /\ queue[q] \in Seq(Messages) /\ <<>> \in Seq(Messages)
  BY QueueTypes
<1>2. /\ queue'[q] = <<>> /\ queue' \in [Queues -> Seq(Messages)]
      /\ \A p \in Queues : p # q => queue'[p] = queue[p]
  BY <1>1
<1>3. Len(queue'[q]) <= Len(queue[q]) /\ DOMAIN queue'[q] = {}
  BY <1>1, <1>2
<1>4. PICK f : f = [j \in {} |-> j]
  OBVIOUS
<1>5. f \in [DOMAIN queue'[q] -> DOMAIN queue[q] \ {}]
  BY <1>3, <1>4
<1> QED  BY <1>2, <1>3, <1>5, Zenon DEF Fewer

-----------------------------------------------------------------------------
(* Every step of the server is of one of these kinds.                      *)

Answers(m) == Ends \/ Lists(m) \/ Relays(m) \/ Frees(m) \/ Admits(m) \/ Ignores(m)

LEMMA TableTypes ==
    ASSUME Types
    PROVE  /\ connected_clients \in [Slots -> Clients \cup {Free, NoQueue}]
           /\ zero \in Clients \cup {Free, NoQueue}
           /\ \A m \in Messages : /\ m.m_type \in {STOP, LIST, _2ALL, _2ONE, INIT}
                                  /\ m.sender_id \in Slots /\ m.receiver_id \in Slots /\ m.m_text \in Nat
                                  /\ m.from \in Queues /\ m.order \in STOP..INIT
<1>1. ASSUME NEW m \in Messages
      PROVE  /\ m.m_type \in STOP..INIT /\ m.order \in STOP..INIT
             /\ m.sender_id \in Slots /\ m.receiver_id \in Slots /\ m.m_text \in Nat
             /\ m.from \in Queues
  BY DEF Messages, Queues
<1>2. STOP..INIT = {STOP, LIST, _2ALL, _2ONE, INIT}
  BY DEF STOP, LIST, _2ALL, _2ONE, INIT
<1>3. /\ connected_clients \in [Slots -> Clients \cup {Free, NoQueue}]
      /\ zero \in Clients \cup {Free, NoQueue}
  BY Zenon DEF Types, TypeOK
<1> QED  BY <1>1, <1>2, <1>3

LEMMA SysVExits ==
    ASSUME Types, server = "running", SysV!Exiting, UNCHANGED zero
    PROVE  Ends
<1>1. outbox' = [s \in Connected |-> [to |-> connected_clients[s],
                                      message |-> FromServer(STOP, 0, Server)]]
  BY DEF SysV!Exiting, SysV!To, SysV!Connected, Connected, SysV!FromServer, FromServer,
         SysV!Message, Message, SysV!STOP, STOP, SysV!Slots, Slots, SysV!Free, Free
<1>2. DOMAIN outbox' = Connected /\ Connected \subseteq Slots
  BY <1>1 DEF Connected
<1>3. \A s \in DOMAIN outbox' : /\ outbox'[s].to = connected_clients[s]
                                /\ outbox'[s].message = FromServer(STOP, 0, Server)
  BY <1>1
<1>4. server' = "exiting" /\ UNCHANGED connected_clients
  BY DEF SysV!Exiting
<1> QED  BY <1>2, <1>3, <1>4, TableTypes DEF Ends

LEMMA SysVAnswers ==
    ASSUME Types, server = "running", NEW m \in Messages, SysV!handle_message(m), UNCHANGED zero
    PROVE  Answers(m)
<1>0. /\ SysV!STOP = STOP /\ SysV!LIST = LIST /\ SysV!_2ALL = _2ALL /\ SysV!_2ONE = _2ONE /\ SysV!INIT = INIT
      /\ SysV!Free = Free /\ SysV!NoQueue = NoQueue /\ SysV!Slots = Slots /\ SysV!Connected = Connected
  BY DEF SysV!STOP, STOP, SysV!LIST, LIST, SysV!_2ALL, _2ALL, SysV!_2ONE, _2ONE, SysV!INIT, INIT,
         SysV!Free, Free, SysV!NoQueue, NoQueue, SysV!Slots, Slots, SysV!Connected, Connected
<1>1. CASE m.m_type = LIST /\ SysV!list_action(m)
  <2>1. outbox' = [s \in {m.sender_id} |-> [to |-> connected_clients[s], message |-> FromServer(LIST, 0, m.from)]]
        /\ UNCHANGED <<connected_clients, server>>
    BY <1>0, <1>1 DEF SysV!list_action, SysV!To, SysV!FromServer, FromServer, SysV!Message, Message
  <2>2. /\ DOMAIN outbox' = {m.sender_id} /\ outbox'[m.sender_id].to = connected_clients[m.sender_id]
        /\ outbox'[m.sender_id].message = FromServer(LIST, 0, m.from)
    BY <2>1
  <2> QED  BY <1>1, <2>1, <2>2 DEF Answers, Lists
<1>2. ASSUME NEW slots \in SUBSET Connected, outbox' = SysV!RelayToEach(slots, m),
             UNCHANGED <<connected_clients, server>>, m.m_type \in {_2ALL, _2ONE},
             m.m_type = _2ALL => m.sender_id \notin slots
      PROVE  Relays(m)
  <2>1. outbox' = [s \in slots |->
                      [to |-> connected_clients[s],
                       message |-> Message(_2ONE, m.sender_id, s, m.m_text, m.from, m.m_type)]]
    BY <1>0, <1>2 DEF SysV!RelayToEach, SysV!To, SysV!Relayed, SysV!Message, Message
  <2>2. DOMAIN outbox' = slots
    BY <2>1
  <2>3. \A s \in slots : /\ outbox'[s].to = connected_clients[s]
                         /\ outbox'[s].message = Message(_2ONE, m.sender_id, s, m.m_text, m.from, m.m_type)
    BY <2>1
  <2> QED  BY <1>2, <2>2, <2>3 DEF Relays
<1>3. CASE m.m_type = _2ALL /\ SysV!to_all_action(m)
  <2>1. Connected \ {m.sender_id} \in SUBSET Connected /\ m.sender_id \notin Connected \ {m.sender_id}
    OBVIOUS
  <2> QED  BY <1>0, <1>2, <1>3, <2>1 DEF SysV!to_all_action, Answers
<1>4. CASE m.m_type = _2ONE /\ SysV!to_one_action(m)
  <2>1. CASE connected_clients[m.receiver_id] = Free
    BY <1>0, <1>4, <2>1, SysVExits DEF SysV!to_one_action, Answers
  <2>2. CASE connected_clients[m.receiver_id] # Free
    <3>1. {m.receiver_id} \in SUBSET Connected
      BY <2>2, TableTypes DEF Connected
    <3> QED  BY <1>0, <1>2, <1>4, <2>2, <3>1 DEF SysV!to_one_action, Answers, _2ALL, _2ONE
  <2> QED  BY <2>1, <2>2
<1>5. CASE m.m_type = STOP /\ SysV!stop_action(m)
  BY <1>0, <1>5 DEF SysV!stop_action, Answers, Frees
<1>6. CASE m.m_type = INIT /\ SysV!init_action(m)
  <2>1. CASE Connected = Slots
    BY <1>0, <1>6, <2>1 DEF SysV!init_action, SysV!serverVars, Answers, Ignores
  <2>2. CASE Connected # Slots
    <3>1. PICK new_id \in Slots :
            /\ SysV!LastFree(new_id)
            /\ SysV!Answer(new_id, SysV!Found(m.from), SysV!FromServer(SysV!INIT, new_id, m.from))
      BY <1>0, <1>6, <2>2 DEF SysV!init_action
    <3>2. PICK found \in {m.from, NoQueue} : found = SysV!Found(m.from) /\ (exists[m.from] => found = m.from)
      BY <1>0 DEF SysV!Found
    <3>3. connected_clients[new_id] = Free
      BY <3>1 DEF SysV!LastFree, SysV!Connected, SysV!Slots, SysV!Free, Slots, Free
    <3>4. /\ connected_clients' = [connected_clients EXCEPT ![new_id] = found]
          /\ outbox' = [s \in {new_id} |-> [to |-> found, message |-> FromServer(INIT, new_id, m.from)]]
          /\ UNCHANGED server
      BY <1>0, <3>1, <3>2 DEF SysV!Answer, SysV!FromServer, FromServer, SysV!Message, Message
    <3>5. /\ DOMAIN outbox' = {new_id} /\ outbox'[new_id].to = found
          /\ outbox'[new_id].message = FromServer(INIT, new_id, m.from)
      BY <3>4
    <3>6. Admits(m)
      BY <1>6, <3>2, <3>3, <3>4, <3>5, Zenon DEF Admits
    <3> QED  BY <3>6 DEF Answers
  <2> QED  BY <2>1, <2>2
<1> QED  BY <1>0, <1>1, <1>3, <1>4, <1>5, <1>6 DEF SysV!handle_message

LEMMA SysVServer ==
    ASSUME Types, SysV!ServerStep \/ SysV!SIGINT_handler, InSysV
    PROVE  ServerTakes \/ (\E s \in Slots : Delivers(s)) \/ GivesUp \/ Fades
<1>0. program = "System V" /\ UNCHANGED <<program, zero>> /\ Server \in Queues
  BY Zenon DEF InSysV, Queues
<1>1. CASE SysV!Receive
  <2>1. PICK k \in DOMAIN queue[Server] :
          /\ SysV!FirstOf(Server, queue[Server][k].m_type, k)
          /\ SysV!handle_message(queue[Server][k])
          /\ queue' = SysV!Taken(Server, k)
    BY <1>1 DEF SysV!Receive
  <2>2. server = "running" /\ DOMAIN outbox = {} /\ ClientsStay
    BY <1>0, <1>1, Zenon DEF SysV!Receive, SysV!Waiting, SysV!clientVars, ClientsStay
  <2>3. PICK m \in Messages : m = queue[Server][k]
    BY <1>0, QueueTypes, Zenon
  <2>4. Fewer(Server, {k})
    BY <1>0, <2>1, Taking, Zenon DEF SysV!Taken, Taken, SysV!RemoveAt, RemoveAt
  <2>5. \A j \in DOMAIN queue[Server] : j < k => queue[Server][j].m_type # m.m_type
    <3>1. \A j \in 1..(k - 1) : queue[Server][j].m_type # m.m_type
      BY <2>1, <2>3 DEF SysV!FirstOf
    <3>2. \A j \in DOMAIN queue[Server] : j < k => j \in 1..(k - 1)
      <4>1. DOMAIN queue[Server] = 1..Len(queue[Server]) /\ Len(queue[Server]) \in Nat
        BY <1>0, QueueTypes, Zenon
      <4> QED  BY <4>1
    <3> QED  BY <3>1, <3>2
  <2>6. Handles(k, m)
    BY <1>0, <2>2, <2>3, <2>4, <2>5, Zenon DEF Handles
  <2>7. Answers(m)
    BY <1>0, <2>1, <2>2, <2>3, SysVAnswers, Zenon
  <2> QED  BY <2>3, <2>6, <2>7 DEF ServerTakes, Answers
<1>2. CASE SysV!SendNext
  <2>1. PICK s \in Slots :
          /\ s \in DOMAIN outbox
          /\ IF outbox[s].to \in Clients /\ exists[outbox[s].to]
             THEN /\ HasRoom(outbox[s].to) /\ queue' = Put(outbox[s].to, outbox[s].message)
                  /\ outbox' = Without(s) /\ UNCHANGED <<connected_clients, server>>
             ELSE /\ UNCHANGED queue
                  /\ \/ server = "running" /\ SysV!Exiting
                     \/ /\ server = "exiting" /\ outbox' = Without(s)
                        /\ UNCHANGED <<connected_clients, server>>
    BY <1>2, Zenon DEF SysV!SendNext, SysV!NextSend, SysV!Send, SysV!HasRoom, HasRoom, SysV!Put, Put,
                SysV!Without, Without, SysV!Restrict, Restrict, SysV!Slots, Slots
  <2>2. ClientsStay
    BY <1>0, <1>2, Zenon DEF SysV!SendNext, SysV!clientVars, ClientsStay
  <2>3. CASE outbox[s].to \in Clients /\ exists[outbox[s].to]
    <3>1. outbox[s].message \in Messages /\ outbox[s].to \in Queues
      BY <2>1, <2>3, Zenon DEF Types, TypeOK, Queues
    <3>2. More(outbox[s].to, outbox[s].message)
      BY <2>1, <2>3, <3>1, Putting
    <3> QED  BY <1>0, <2>1, <2>2, <2>3, <3>2, Zenon DEF Delivers
  <2>4. CASE ~(outbox[s].to \in Clients /\ exists[outbox[s].to]) /\ server = "running" /\ SysV!Exiting
    BY <1>0, <2>1, <2>2, <2>4, SysVExits, Zenon DEF GivesUp
  <2>5. CASE ~(outbox[s].to \in Clients /\ exists[outbox[s].to]) /\ ~(server = "running" /\ SysV!Exiting)
    BY <1>0, <2>1, <2>2, <2>5, Zenon DEF Fades
  <2> QED  BY <2>3, <2>4, <2>5
<1>3. CASE SysV!ServerEnds
  BY <1>0, <1>3, Zenon DEF SysV!ServerEnds, SysV!clientVars, Fades, ClientsStay
<1>4. CASE SysV!SIGINT_handler
  BY <1>0, <1>4, SysVExits, Zenon DEF SysV!SIGINT_handler, SysV!clientVars, GivesUp, ClientsStay
<1> QED  BY <1>1, <1>2, <1>3, <1>4 DEF SysV!ServerStep

LEMMA PosixNames ==
    /\ Posix!STOP = STOP /\ Posix!LIST = LIST /\ Posix!_2ALL = _2ALL /\ Posix!_2ONE = _2ONE /\ Posix!INIT = INIT
    /\ Posix!Free = Free /\ Posix!NoQueue = NoQueue /\ Posix!Slots = Slots /\ Posix!Connected = Connected
BY DEF Posix!STOP, STOP, Posix!LIST, LIST, Posix!_2ALL, _2ALL, Posix!_2ONE, _2ONE, Posix!INIT, INIT,
       Posix!Free, Free, Posix!NoQueue, NoQueue, Posix!Slots, Slots, Posix!Connected, Connected

LEMMA PosixExits ==
    ASSUME Types, server = "running", Posix!Exiting
    PROVE  Ends
<1>1. outbox' = [s \in Connected |-> [to |-> IF connected_clients[s] = Free THEN zero ELSE connected_clients[s],
                                      message |-> FromServer(STOP, 0, Server)]]
  BY PosixNames DEF Posix!Exiting, Posix!Addressed, Posix!FromServer, FromServer, Posix!Message, Message
<1>2. DOMAIN outbox' = Connected /\ Connected \subseteq Slots
  BY <1>1 DEF Connected
<1>3. \A s \in DOMAIN outbox' : /\ outbox'[s].to \in {connected_clients[s], zero}
                                /\ outbox'[s].message = FromServer(STOP, 0, Server)
  BY <1>1
<1>4. server' = "exiting" /\ UNCHANGED <<connected_clients, zero>>
  BY DEF Posix!Exiting
<1> QED  BY <1>2, <1>3, <1>4, TableTypes DEF Ends

LEMMA PosixAnswers ==
    ASSUME Types, server = "running", NEW m \in Messages, Posix!handle_message(m)
    PROVE  Answers(m)
<1>1. CASE m.m_type = LIST /\ Posix!list_action(m)
  <2>1. outbox' = [s \in {m.sender_id} |->
                      [to |-> IF connected_clients[s] = Free THEN zero ELSE connected_clients[s],
                       message |-> FromServer(LIST, 0, m.from)]]
        /\ UNCHANGED <<connected_clients, server, zero>>
    BY <1>1, PosixNames DEF Posix!list_action, Posix!Addressed, Posix!FromServer, FromServer, Posix!Message, Message
  <2>2. /\ DOMAIN outbox' = {m.sender_id}
        /\ outbox'[m.sender_id].to \in {connected_clients[m.sender_id], zero}
        /\ outbox'[m.sender_id].message = FromServer(LIST, 0, m.from)
    BY <2>1
  <2> QED  BY <1>1, <2>1, <2>2 DEF Answers, Lists
<1>2. ASSUME NEW slots \in SUBSET Connected, outbox' = Posix!Forward(slots, m),
             UNCHANGED <<connected_clients, server, zero>>, m.m_type \in {_2ALL, _2ONE},
             m.m_type = _2ALL => m.sender_id \notin slots
      PROVE  Relays(m)
  <2>1. outbox' = [s \in slots |->
                      [to |-> IF connected_clients[s] = Free THEN zero ELSE connected_clients[s],
                       message |-> Message(_2ONE, m.sender_id, s, m.m_text, m.from, m.m_type)]]
    BY <1>2, PosixNames DEF Posix!Forward, Posix!Addressed, Posix!Message, Message
  <2>2. DOMAIN outbox' = slots /\ \A s \in slots : connected_clients[s] # Free
    BY <2>1 DEF Connected
  <2>3. \A s \in slots : /\ outbox'[s].to = connected_clients[s]
                         /\ outbox'[s].message = Message(_2ONE, m.sender_id, s, m.m_text, m.from, m.m_type)
    BY <2>1, <2>2
  <2> QED  BY <1>2, <2>2, <2>3 DEF Relays
<1>3. CASE m.m_type = _2ALL /\ Posix!to_all_action(m)
  <2>1. Connected \ {m.sender_id} \in SUBSET Connected /\ m.sender_id \notin Connected \ {m.sender_id}
    OBVIOUS
  <2> QED  BY <1>2, <1>3, <2>1, PosixNames DEF Posix!to_all_action, Answers
<1>4. CASE m.m_type = _2ONE /\ Posix!to_one_action(m)
  <2>1. CASE connected_clients[m.receiver_id] = Free
    BY <1>4, <2>1, PosixExits, PosixNames DEF Posix!to_one_action, Answers
  <2>2. CASE connected_clients[m.receiver_id] # Free
    <3>1. {m.receiver_id} \in SUBSET Connected
      BY <2>2, TableTypes DEF Connected
    <3> QED  BY <1>2, <1>4, <2>2, <3>1, PosixNames DEF Posix!to_one_action, Answers, _2ALL, _2ONE
  <2> QED  BY <2>1, <2>2
<1>5. CASE m.m_type = STOP /\ Posix!stop_action(m)
  BY <1>5, PosixNames DEF Posix!stop_action, Answers, Frees
<1>6. CASE m.m_type = INIT /\ Posix!init_action(m)
  <2>1. CASE Connected = Slots
    BY <1>6, <2>1, PosixNames DEF Posix!init_action, Posix!serverVars, Answers, Ignores
  <2>2. CASE Connected # Slots
    <3>1. PICK new_id \in Slots, found \in {m.from, NoQueue} :
            /\ found = IF exists[m.from] THEN m.from ELSE NoQueue
            /\ Posix!LastFree(new_id)
            /\ IF zero = Free /\ found # NoQueue
               THEN zero' = found /\ UNCHANGED connected_clients
               ELSE /\ connected_clients' = [connected_clients EXCEPT ![new_id] = found]
                    /\ UNCHANGED zero
            /\ outbox' = [s \in {new_id} |-> [to |-> found, message |-> Posix!FromServer(Posix!INIT, new_id, m.from)]]
            /\ UNCHANGED server
      BY <1>6, <2>2, PosixNames, Zenon DEF Posix!init_action
    <3>3. connected_clients[new_id] = Free
      BY <3>1 DEF Posix!LastFree, Posix!Connected, Posix!Slots, Posix!Free, Slots, Free
    <3>4. outbox' = [s \in {new_id} |-> [to |-> found, message |-> FromServer(INIT, new_id, m.from)]]
      BY <3>1, PosixNames DEF Posix!FromServer, FromServer, Posix!Message, Message
    <3>5. /\ DOMAIN outbox' = {new_id} /\ outbox'[new_id].to = found
          /\ outbox'[new_id].message = FromServer(INIT, new_id, m.from)
      BY <3>4
    <3>6. Admits(m)
      BY <1>6, <3>1, <3>3, <3>5 DEF Admits
    <3> QED  BY <3>6 DEF Answers
  <2> QED  BY <2>1, <2>2
<1> QED  BY <1>1, <1>3, <1>4, <1>5, <1>6, PosixNames DEF Posix!handle_message

\* What the POSIX processes receive.
LEMMA Highest ==
    ASSUME Types, NEW q \in Queues, NEW k, Posix!Highest(q, k)
    PROVE  /\ k \in DOMAIN queue[q]
           /\ \A j \in DOMAIN queue[q] : /\ queue[q][j].m_type <= queue[q][k].m_type
                                         /\ j < k => queue[q][j].m_type # queue[q][k].m_type
<1>1. DOMAIN queue[q] = 1..Len(queue[q]) /\ Len(queue[q]) \in Nat
  BY QueueTypes
<1>2. /\ k \in DOMAIN queue[q] /\ \A j \in DOMAIN queue[q] : queue[q][j].m_type <= queue[q][k].m_type
      /\ \A j \in 1..(k - 1) : queue[q][j].m_type # queue[q][k].m_type
  BY DEF Posix!Highest, Posix!FirstOf
<1>3. \A j \in DOMAIN queue[q] : j < k => j \in 1..(k - 1)
  BY <1>1, <1>2
<1> QED  BY <1>2, <1>3

LEMMA PosixServer ==
    ASSUME Types, Posix!ServerStep \/ Posix!SIGINT_handler, InPosix
    PROVE  ServerTakes \/ (\E s \in Slots : Delivers(s)) \/ GivesUp \/ Fades
<1>0. program = "POSIX" /\ UNCHANGED program /\ Server \in Queues
  BY DEF InPosix, Queues
<1>1. CASE Posix!Receive
  <2>1. PICK k \in DOMAIN queue[Server] :
          /\ Posix!Highest(Server, k)
          /\ Posix!handle_message(queue[Server][k])
          /\ queue' = Posix!Taken(Server, k)
    BY <1>1 DEF Posix!Receive
  <2>2. server = "running" /\ DOMAIN outbox = {} /\ ClientsStay
    BY <1>0, <1>1 DEF Posix!Receive, Posix!Waiting, Posix!clientVars, ClientsStay
  <2>3. PICK m \in Messages : m = queue[Server][k]
    BY <1>0, QueueTypes
  <2>4. Fewer(Server, {k})
    BY <1>0, <2>1, Taking, Zenon DEF Posix!Taken, Taken, Posix!RemoveAt, RemoveAt
  <2>6. Handles(k, m)
    BY <1>0, <2>1, <2>2, <2>3, <2>4, Highest DEF Handles
  <2>7. Answers(m)
    BY <1>0, <2>1, <2>2, <2>3, PosixAnswers
  <2> QED  BY <2>3, <2>6, <2>7 DEF ServerTakes, Answers
<1>2. CASE Posix!SendNext
  <2>1. PICK s \in Slots :
          /\ s \in DOMAIN outbox
          /\ \/ /\ outbox[s].to \in Clients
                /\ HasRoom(outbox[s].to) /\ queue' = Put(outbox[s].to, outbox[s].message)
                /\ outbox' = Without(s) /\ UNCHANGED <<connected_clients, server, zero>>
             \/ /\ server = "running" /\ Posix!Exiting /\ UNCHANGED queue
             \/ /\ server = "exiting" /\ outbox' = Without(s)
                /\ UNCHANGED <<connected_clients, server, zero, queue>>
    BY <1>2, Zenon DEF Posix!SendNext, Posix!NextSend, Posix!Send, Posix!HasRoom, HasRoom, Posix!Put, Put,
                Posix!Without, Without, Posix!Restrict, Restrict, Posix!Slots, Slots
  <2>2. ClientsStay
    BY <1>0, <1>2 DEF Posix!SendNext, Posix!clientVars, ClientsStay
  <2>3. CASE /\ outbox[s].to \in Clients
             /\ HasRoom(outbox[s].to) /\ queue' = Put(outbox[s].to, outbox[s].message)
             /\ outbox' = Without(s) /\ UNCHANGED <<connected_clients, server, zero>>
    <3>1. outbox[s].message \in Messages /\ outbox[s].to \in Queues
      BY <2>1, <2>3, Zenon DEF Types, TypeOK, Queues
    <3>2. More(outbox[s].to, outbox[s].message)
      BY <2>3, <3>1, Putting
    <3> QED  BY <2>1, <2>2, <2>3, <3>2 DEF Delivers
  <2>4. CASE server = "running" /\ Posix!Exiting /\ UNCHANGED queue
    BY <2>2, <2>4, PosixExits DEF GivesUp
  <2>5. CASE server = "exiting" /\ outbox' = Without(s) /\ UNCHANGED <<connected_clients, server, zero, queue>>
    BY <2>2, <2>5 DEF Fades
  <2> QED  BY <2>1, <2>3, <2>4, <2>5
<1>3. CASE Posix!ServerEnds
  BY <1>0, <1>3 DEF Posix!ServerEnds, Posix!clientVars, Fades, ClientsStay
<1>4. CASE Posix!SIGINT_handler
  BY <1>0, <1>4, PosixExits DEF Posix!SIGINT_handler, Posix!clientVars, GivesUp, ClientsStay
<1> QED  BY <1>1, <1>2, <1>3, <1>4 DEF Posix!ServerStep
-----------------------------------------------------------------------------
(* And every step of a client.                                             *)

LEMMA Going ==
    ASSUME Types, NEW c \in Clients, NEW p \in Roles, NEW from, NEW to, Goto(c, p, from, to),
           to \in IF p = "parent" THEN ParentPlaces ELSE ChildPlaces
    PROVE  /\ pc[c][p] = from /\ pc'[c][p] = to /\ Moves(c)
           /\ p = "parent" => pc'[c].child = pc[c].child /\ pc'[c] = [pc[c] EXCEPT !.parent = to]
           /\ p = "child" => pc'[c].parent = pc[c].parent
<1>1. pc \in [Clients -> [parent : ParentPlaces, child : ChildPlaces]]
  BY Zenon DEF Types
<1>2. /\ pc' = [pc EXCEPT ![c] = [pc[c] EXCEPT ![p] = to]] /\ pc[c][p] = from
      /\ pc[c] \in [parent : ParentPlaces, child : ChildPlaces]
  BY <1>1 DEF Goto
<1>3. pc'[c] = [pc[c] EXCEPT ![p] = to] /\ \A d \in Clients : d # c => pc'[d] = pc[d]
  BY <1>1, <1>2
<1>4. CASE p = "parent"
  <2>1. /\ [pc[c] EXCEPT !.parent = to] \in [parent : ParentPlaces, child : ChildPlaces]
        /\ [pc[c] EXCEPT !.parent = to].parent = to /\ [pc[c] EXCEPT !.parent = to].child = pc[c].child
    BY <1>2, <1>4
  <2> QED  BY <1>1, <1>2, <1>3, <1>4, <2>1, Zenon DEF Moves
<1>5. CASE p = "child"
  <2>1. /\ [pc[c] EXCEPT !.child = to] \in [parent : ParentPlaces, child : ChildPlaces]
        /\ [pc[c] EXCEPT !.child = to].child = to /\ [pc[c] EXCEPT !.child = to].parent = pc[c].parent
    BY <1>2, <1>5
  <2> QED  BY <1>1, <1>2, <1>3, <1>5, <2>1 DEF Moves
<1> QED  BY <1>4, <1>5 DEF Roles

LEMMA ParentGoing ==
    ASSUME Types, NEW c \in Clients, NEW from, NEW to \in ParentPlaces, Goto(c, "parent", from, to)
    PROVE  /\ pc[c].parent = from /\ pc'[c].parent = to /\ Moves(c) /\ pc'[c].child = pc[c].child
           /\ pc'[c] = [pc[c] EXCEPT !.parent = to]
BY Going DEF Roles

LEMMA ChildGoing ==
    ASSUME Types, NEW c \in Clients, NEW from, NEW to \in ChildPlaces, Goto(c, "child", from, to)
    PROVE  pc[c].child = from /\ pc'[c].child = to /\ Moves(c) /\ pc'[c].parent = pc[c].parent
BY Going DEF Roles

LEMMA Killing ==
    ASSUME Types, NEW c \in Clients,
           pc' = [pc EXCEPT ![c].parent = "stopping", ![c].child = IF @ = "none" THEN "none" ELSE "gone"]
    PROVE  /\ Moves(c) /\ pc'[c].parent = "stopping"
           /\ pc'[c].child = IF pc[c].child = "none" THEN "none" ELSE "gone"
<1>1. pc \in [Clients -> [parent : ParentPlaces, child : ChildPlaces]]
  BY Zenon DEF Types
<1>2. PICK child \in ChildPlaces : child = IF pc[c].child = "none" THEN "none" ELSE "gone"
  BY DEF ChildPlaces
<1>3. PICK r : r = pc[c] /\ r \in [parent : ParentPlaces, child : ChildPlaces]
  BY <1>1
<1>4. pc' = [pc EXCEPT ![c] = [[r EXCEPT !.parent = "stopping"] EXCEPT !.child = child]]
  BY <1>1, <1>2, <1>3, Zenon
<1>5. PICK new : new = [[r EXCEPT !.parent = "stopping"] EXCEPT !.child = child]
  OBVIOUS
<1>6. new \in [parent : ParentPlaces, child : ChildPlaces] /\ new.parent = "stopping" /\ new.child = child
  BY <1>2, <1>3, <1>5, Zenon DEF ParentPlaces
<1>7. pc'[c] = new /\ pc' \in [Clients -> [parent : ParentPlaces, child : ChildPlaces]]
      /\ \A d \in Clients : d # c => pc'[d] = pc[d]
  BY <1>1, <1>4, <1>5, <1>6, ZenonT(40)
<1> QED  BY <1>2, <1>6, <1>7 DEF Moves

LEMMA Sending ==
    ASSUME Types, NEW c \in Clients, NEW type \in STOP..INIT, NEW receiver \in Slots,
           HasRoom(Server), queue' = Put(Server, FromClient(c, type, receiver))
    PROVE  More(Server, FromClient(c, type, receiver))
<1>1. client_id[c] \in Slots /\ left[c] \in Nat
  BY Zenon DEF Types, TypeOK
<1>2. FromClient(c, type, receiver) \in Messages /\ Server \in Queues
  BY <1>1 DEF FromClient, Message, Messages, Queues
<1> QED  BY <1>2, Putting

LEMMA Zero == 0 \in Slots
BY ChatAssumption DEF Slots

LEMMA Types5 == {STOP, LIST, _2ALL, _2ONE, INIT} \subseteq STOP..INIT
BY DEF STOP, LIST, _2ALL, _2ONE, INIT

LEMMA Places ==
    ASSUME Types, NEW c \in Clients
    PROVE  /\ pc \in [Clients -> [parent : ParentPlaces, child : ChildPlaces]]
           /\ pc[c].parent \in ParentPlaces /\ pc[c].child \in ChildPlaces
           /\ exists \in [Clients -> BOOLEAN]
BY Zenon DEF Types, TypeOK

LEMMA SysVClient ==
    ASSUME Types, Childless, NEW c \in Clients, InSysV,
           \/ SysV!Parent(c) \/ SysV!User(c) \/ SysV!handle_msg_control(c) \/ SysV!Leave(c, "child")
    PROVE  ClientDoes(c)
<1>a. program = "System V" /\ UNCHANGED <<program, zero>> /\ program # "POSIX" /\ c \in Queues
  BY DEF InSysV, Queues
<1>b. \A p, from, to : SysV!Goto(c, p, from, to) => Goto(c, p, from, to)
  BY DEF SysV!Goto, Goto
<1>c. \A q, m : SysV!Send(q, m) => HasRoom(q) /\ queue' = Put(q, m)
  BY DEF SysV!Send, SysV!HasRoom, HasRoom, SysV!Put, Put
<1>d. \A k : SysV!Taken(c, k) = Taken(c, k)
  BY DEF SysV!Taken, Taken, SysV!RemoveAt, RemoveAt
<1>e. /\ SysV!STOP = STOP /\ SysV!LIST = LIST /\ SysV!_2ALL = _2ALL /\ SysV!_2ONE = _2ONE /\ SysV!INIT = INIT
      /\ SysV!Slots = Slots
  BY DEF SysV!STOP, STOP, SysV!LIST, LIST, SysV!_2ALL, _2ALL, SysV!_2ONE, _2ONE, SysV!INIT, INIT,
         SysV!Slots, Slots
<1>f. \A type, to : SysV!FromClient(c, type, to) = FromClient(c, type, to)
  BY DEF SysV!FromClient, FromClient, SysV!Message, Message
<1>0. /\ program = "System V" /\ UNCHANGED <<program, zero>> /\ program # "POSIX" /\ c \in Queues
      /\ \A p, from, to : SysV!Goto(c, p, from, to) => Goto(c, p, from, to)
      /\ \A q, m : SysV!Send(q, m) => HasRoom(q) /\ queue' = Put(q, m)
      /\ SysV!STOP = STOP /\ SysV!LIST = LIST /\ SysV!_2ALL = _2ALL /\ SysV!_2ONE = _2ONE /\ SysV!INIT = INIT
      /\ SysV!Slots = Slots
      /\ \A type, to : SysV!FromClient(c, type, to) = FromClient(c, type, to)
      /\ \A k : SysV!Taken(c, k) = Taken(c, k)
  BY <1>a, <1>b, <1>c, <1>d, <1>e, <1>f, Zenon
<1>1. "parent" \in Roles /\ "child" \in Roles
  BY DEF Roles
<1>2. CASE SysV!CreateQueue(c)
  BY <1>0, <1>2, ParentGoing, Places, ZenonT(40)
  DEF SysV!CreateQueue, SysV!serverVars, ClientDoes, Passes, Goes, ServerStays, ParentPlaces
<1>3. CASE SysV!SendInit(c)
  <2>1. pc[c].child = "none" /\ pc[c].parent = "created" /\ Moves(c)
        /\ pc'[c] = [pc[c] EXCEPT !.parent = "await_init"]
    BY <1>0, <1>3, ParentGoing, Zenon DEF SysV!SendInit, ParentPlaces, Childless
  <2>2. More(Server, FromClient(c, INIT, 0))
    BY <1>0, <1>3, Sending, Zero, Types5, Zenon DEF SysV!SendInit
  <2>3. ServerStays /\ UNCHANGED <<exists, client_id, left>>
    BY <1>0, <1>3, Zenon DEF SysV!SendInit, SysV!serverVars, ServerStays
  <2> QED  BY <2>1, <2>2, <2>3 DEF ClientDoes, SendsInit
<1>4. CASE SysV!Join(c)
  <2>1. PICK k \in DOMAIN queue[c] : /\ queue[c][k].m_type = INIT /\ queue' = Taken(c, k)
                                     /\ client_id' = [client_id EXCEPT ![c] = queue[c][k].sender_id]
    BY <1>0, <1>4, Zenon DEF SysV!Join, SysV!FirstOf
  <2>2. queue[c][k].sender_id \in Slots
    BY <1>0, QueueTypes, TableTypes, Zenon
  <2>3. pc[c].parent = "await_init" /\ pc' = [pc EXCEPT ![c] = [parent |-> "ready", child |-> "reading"]]
    BY <1>4 DEF SysV!Join
  <2>4. [parent |-> "ready", child |-> "reading"] \in [parent : ParentPlaces, child : ChildPlaces]
    BY DEF ParentPlaces, ChildPlaces
  <2>5. Moves(c) /\ pc'[c].parent = "ready" /\ pc'[c].child = "reading"
    BY <2>3, <2>4, Places DEF Moves
  <2>6. Fewer(c, {k})
    BY <1>0, <2>1, Taking, Zenon
  <2>7. ServerStays /\ UNCHANGED <<exists, left>>
    BY <1>0, <1>4, Zenon DEF SysV!Join, SysV!serverVars, ServerStays
  <2>8. Joins(c, k)
    BY <1>0, <2>1, <2>2, <2>3, <2>5, <2>6, <2>7, Zenon DEF Joins
  <2> QED  BY <2>8 DEF ClientDoes
<1>5. CASE SysV!list_action_client(c)
  <2>1. /\ pc[c].parent = "await_list" /\ Moves(c) /\ pc'[c].parent \in {"ready", "removing"}
        /\ pc'[c].child = pc[c].child /\ pc[c].child # "none"
    BY <1>0, <1>5, ParentGoing, ZenonT(40) DEF SysV!list_action_client, ParentPlaces, Childless
  <2>2. Goes(c)
    BY <1>0, <2>1, Zenon DEF Goes
  <2>3. UNCHANGED queue \/ Fewer(c, {})
    BY <1>0, <1>5, Taking, FewerWithout, Zenon DEF SysV!list_action_client, SysV!FirstOf
  <2>4. ServerStays /\ UNCHANGED <<exists, client_id, left>>
    BY <1>0, <1>5, Zenon DEF SysV!list_action_client, SysV!serverVars, ServerStays
  <2> QED  BY <1>0, <2>1, <2>2, <2>3, <2>4, Places, Zenon DEF ClientDoes, Reads, Passes
<1>6. CASE SysV!handle_msg_control(c)
  <2>1. pc[c].child = "reading" /\ pc[c].parent \notin {"start", "created", "await_init"}
    <3>1. pc[c].child = "reading" \/ Goto(c, "child", "reading", "removing")
      BY <1>b, <1>6 DEF SysV!handle_msg_control
    <3>2. "removing" \in ChildPlaces
      BY DEF ChildPlaces
    <3>3. pc[c].child = "reading"
      BY <3>1, <3>2, ChildGoing
    <3> QED  BY <3>3 DEF Childless
  <2>2. Moves(c) /\ pc'[c].parent = pc[c].parent /\ pc'[c].child \in {"reading", "removing"}
    BY <1>0, <1>6, <2>1, ChildGoing, Places, ZenonT(40) DEF SysV!handle_msg_control, ChildPlaces, Moves
  <2>3. Goes(c)
    BY <1>0, <2>1, <2>2, Zenon DEF Goes
  <2>4. UNCHANGED queue \/ Fewer(c, {})
    <3>1. CASE queue[c] # <<>> /\ queue' = Taken(c, 1)
      <4>1. 1 \in DOMAIN queue[c]
        <5>1. queue[c] \in Seq(Messages) /\ queue[c] # <<>>
          BY <1>0, <3>1, QueueTypes, Zenon
        <5> QED  BY <5>1
      <4> QED  BY <1>0, <3>1, <4>1, Taking, FewerWithout, Zenon
    <3> QED  BY <1>0, <1>6, <3>1, Zenon DEF SysV!handle_msg_control
  <2>5. ServerStays /\ UNCHANGED <<exists, client_id, left>>
    BY <1>0, <1>6, Zenon DEF SysV!handle_msg_control, SysV!serverVars, ServerStays
  <2> QED  BY <1>0, <2>1, <2>3, <2>4, <2>5, Places, Zenon DEF ClientDoes, Reads, Passes
<1>7. CASE SysV!handle_input(c)
  <2>1. /\ pc[c].parent = "ready" /\ Moves(c) /\ pc'[c].parent \in {"ready", "await_list"}
        /\ pc'[c].child = pc[c].child /\ pc[c].child # "none"
    BY <1>0, <1>7, ParentGoing, Places, Zenon DEF SysV!handle_input, ParentPlaces, Childless, Moves
  <2>2. Goes(c)
    BY <1>0, <2>1, Zenon DEF Goes
  <2>3. \E type \in {LIST, _2ALL, _2ONE}, receiver \in Slots : More(Server, FromClient(c, type, receiver))
    <3>1. PICK type \in {LIST, _2ALL, _2ONE}, receiver \in Slots :
            SysV!Send(Server, SysV!FromClient(c, type, receiver))
      BY <1>0, <1>7, Zero, Zenon DEF SysV!handle_input
    <3>2. HasRoom(Server) /\ queue' = Put(Server, FromClient(c, type, receiver))
      BY <1>c, <1>f, <3>1
    <3>3. type \in STOP..INIT
      BY Types5
    <3> QED  BY <3>2, <3>3, Sending
  <2>4. /\ left[c] > 0 /\ left' = [left EXCEPT ![c] = @ - 1]
        /\ ServerStays /\ UNCHANGED <<exists, client_id>>
    BY <1>0, <1>7, Zenon DEF SysV!handle_input, SysV!serverVars, ServerStays
  <2> QED  BY <1>0, <2>1, <2>2, <2>3, <2>4, Zenon DEF ClientDoes, Orders
<1>8. CASE SysV!stop_action_client(c)
  <2>1. CASE pc' = [pc EXCEPT ![c].parent = "stopping", ![c].child = IF @ = "none" THEN "none" ELSE "gone"]
    <3>1. Goes(c)
      <4>1. /\ Moves(c) /\ pc'[c].parent = "stopping"
            /\ pc'[c].child = IF pc[c].child = "none" THEN "none" ELSE "gone"
        BY <2>1, Killing, Zenon
      <4> QED  BY <1>a, <4>1, Zenon DEF Goes
    <3> QED  BY <1>0, <1>8, <3>1, Places, Zenon
             DEF SysV!stop_action_client, SysV!serverVars, ServerStays, ClientDoes, Passes
  <2>2. CASE Goto(c, "child", "reading", "stopping")
    <3>0. "stopping" \in ChildPlaces
      BY DEF ChildPlaces
    <3>1. Goes(c)
      <4>1. /\ pc[c].child = "reading" /\ pc'[c].child = "stopping" /\ Moves(c)
            /\ pc'[c].parent = pc[c].parent
        BY <2>2, <3>0, ChildGoing
      <4> QED  BY <1>a, <4>1, Zenon DEF Goes, Childless
    <3> QED  BY <1>0, <1>8, <3>1, Places, Zenon
             DEF SysV!stop_action_client, SysV!serverVars, ServerStays, ClientDoes, Passes
  <2> QED  BY <1>0, <1>8, <2>1, <2>2, Zenon DEF SysV!stop_action_client
<1>9. CASE SysV!EndOfInput(c)
  <2>1. Goto(c, "parent", "ready", "removing") /\ "removing" \in ParentPlaces
    BY <1>b, <1>9 DEF SysV!EndOfInput, ParentPlaces
  <2>2. Goes(c)
    <3>1. /\ pc[c].parent = "ready" /\ pc'[c].parent = "removing" /\ Moves(c)
          /\ pc'[c].child = pc[c].child
      BY <2>1, ParentGoing, ZenonT(40)
    <3> QED  BY <1>a, <3>1, Zenon DEF Goes
  <2> QED  BY <1>0, <1>9, <2>2, Places, Zenon DEF SysV!EndOfInput, SysV!serverVars, ServerStays, ClientDoes, Passes
<1>10. ASSUME NEW p \in Roles, SysV!SendStop(c, p) \/ SysV!SendLastStop(c, p)
       PROVE  ClientDoes(c)
  <2>0. PICK from \in {"stopping", "removing"}, to \in {"removing", "rmid"} : Goto(c, p, from, to)
    BY <1>b, <1>10 DEF SysV!SendStop, SysV!SendLastStop
  <2>1. Goes(c)
    <3>1. to \in ParentPlaces /\ to \in ChildPlaces
      BY DEF ParentPlaces, ChildPlaces
    <3>2. CASE p = "parent"
      BY <1>a, <2>0, <3>1, <3>2, ParentGoing, Zenon DEF Goes
    <3>3. CASE p = "child"
      BY <1>a, <2>0, <3>1, <3>3, ChildGoing, ZenonT(40) DEF Goes, Childless
    <3> QED  BY <3>2, <3>3 DEF Roles
  <2>2. More(Server, FromClient(c, STOP, 0))
    BY <1>0, <1>10, Sending, Zero, Types5, Zenon DEF SysV!SendStop, SysV!SendLastStop
  <2>3. ServerStays /\ UNCHANGED <<exists, client_id, left>>
    BY <1>0, <1>10, Zenon DEF SysV!SendStop, SysV!SendLastStop, SysV!serverVars, ServerStays
  <2> QED  BY <1>0, <2>1, <2>2, <2>3, Zenon DEF ClientDoes, Stops
<1>11. ASSUME NEW p \in Roles, SysV!RemoveQueue(c, p)
       PROVE  ClientDoes(c)
  <2>1. /\ pc[c][p] = "rmid" /\ pc'[c][p] = "gone" /\ Moves(c)
        /\ p = "parent" => pc'[c].child = pc[c].child
        /\ p = "child" => pc'[c].parent = pc[c].parent
    <3>1. Goto(c, p, "rmid", "gone") /\ "gone" \in ParentPlaces /\ "gone" \in ChildPlaces
      BY <1>b, <1>11 DEF SysV!RemoveQueue, ParentPlaces, ChildPlaces
    <3>2. CASE p = "parent"
      BY <3>1, <3>2, ParentGoing, Zenon
    <3>3. CASE p = "child"
      BY <3>1, <3>3, ChildGoing
    <3> QED  BY <3>2, <3>3 DEF Roles
  <2>2. pc[c].parent \notin {"start", "created", "await_init"}
    BY <2>1 DEF Roles, Childless
  <2>3. Goes(c)
    BY <1>0, <2>1, <2>2, Zenon DEF Goes, Roles, Childless
  <2>4. Fewer(c, {})
    BY <1>0, <1>11, Emptying, Zenon DEF SysV!RemoveQueue
  <2>5. ServerStays /\ UNCHANGED <<client_id, left>> /\ exists' \in [Clients -> BOOLEAN]
    BY <1>0, <1>11, Places, Zenon DEF SysV!RemoveQueue, SysV!serverVars, ServerStays
  <2> QED  BY <1>0, <2>2, <2>3, <2>4, <2>5, Zenon DEF ClientDoes, Reads
<1>12. ASSUME NEW p \in Roles, SysV!Leave(c, p)
       PROVE  ClientDoes(c)
  BY <1>10, <1>11, <1>12 DEF SysV!Leave
<1> QED  BY <1>1, <1>2, <1>3, <1>4, <1>5, <1>6, <1>7, <1>8, <1>9, <1>12 DEF SysV!Parent, SysV!User

LEMMA PosixClient ==
    ASSUME Types, Childless, NEW c \in Clients, InPosix,
           Posix!Parent(c) \/ Posix!User(c) \/ Posix!list_action_client(c)
    PROVE  ClientDoes(c)
<1>a. program = "POSIX" /\ UNCHANGED program /\ c \in Queues
  BY DEF InPosix, Queues
<1>b. \A p, from, to : Posix!Goto(c, p, from, to) => Goto(c, p, from, to)
  BY DEF Posix!Goto, Goto
<1>c. \A q, m : Posix!Send(q, m) => HasRoom(q) /\ queue' = Put(q, m)
  BY DEF Posix!Send, Posix!HasRoom, HasRoom, Posix!Put, Put
<1>d. \A k : Posix!Taken(c, k) = Taken(c, k)
  BY DEF Posix!Taken, Taken, Posix!RemoveAt, RemoveAt
<1>e. \A type, to : Posix!FromClient(c, type, to) = FromClient(c, type, to)
  BY DEF Posix!FromClient, FromClient, Posix!Message, Message
<1>f. /\ {"created", "await_init", "polling", "stopping", "removing", "gone"} \subseteq ParentPlaces
      /\ {"ready", "await_list", "gone"} \subseteq ChildPlaces
  BY DEF ParentPlaces, ChildPlaces
<1>g. ASSUME NEW k, Posix!Highest(c, k), queue' = Posix!Taken(c, k)
      PROVE  k \in DOMAIN queue[c] /\ Fewer(c, {k}) /\ Fewer(c, {})
  <2>1. k \in DOMAIN queue[c]
    BY <1>a, <1>g, Highest
  <2>2. queue' = Taken(c, k)
    BY <1>d, <1>g
  <2>3. Fewer(c, {k})
    BY <1>a, <2>1, <2>2, Taking
  <2> QED  BY <1>a, <2>1, <2>3, FewerWithout
<1>1. CASE Posix!OpenQueues(c)
  <2>0. PICK to : to = (IF server = "gone" THEN "gone" ELSE "created") /\ to \in ParentPlaces
    BY <1>f
  <2>1. Goto(c, "parent", "start", to) /\ to \in {"created", "gone"}
    BY <2>0, <1>1 DEF Posix!OpenQueues, Posix!Goto, Goto
  <2>2. /\ pc[c].parent = "start" /\ pc'[c].parent = to /\ Moves(c) /\ pc'[c].child = pc[c].child
    BY <2>0, <2>1, ParentGoing, ZenonT(40)
  <2>3. Goes(c)
    BY <2>1, <2>2 DEF Goes, Childless
  <2>4. exists' = [exists EXCEPT ![c] = TRUE] /\ UNCHANGED <<queue, client_id, left>> /\ ServerStays
    BY <1>a, <1>1 DEF Posix!OpenQueues, Posix!serverVars, ServerStays
  <2>5. exists' \in [Clients -> BOOLEAN]
    BY <2>4, Places
  <2>6. Passes(c)
    BY <2>1, <2>2, <2>3, <2>4, <2>5 DEF Passes
  <2> QED  BY <2>6 DEF ClientDoes
<1>2. CASE Posix!SendInit(c)
  <2>1. Goto(c, "parent", "created", "await_init")
    BY <1>b, <1>2 DEF Posix!SendInit
  <2>2. pc[c].parent = "created" /\ Moves(c) /\ pc'[c] = [pc[c] EXCEPT !.parent = "await_init"]
    BY <1>f, <2>1, ParentGoing
  <2>3. pc[c].child = "none"
    BY <2>2 DEF Childless
  <2>4. HasRoom(Server) /\ queue' = Put(Server, FromClient(c, INIT, 0))
    BY <1>c, <1>e, <1>2, PosixNames DEF Posix!SendInit
  <2>5. More(Server, FromClient(c, INIT, 0))
    BY <2>4, Sending, Zero, Types5
  <2>6. ServerStays /\ UNCHANGED <<exists, client_id, left>>
    BY <1>a, <1>2 DEF Posix!SendInit, Posix!serverVars, ServerStays
  <2> QED  BY <2>2, <2>3, <2>5, <2>6 DEF ClientDoes, SendsInit
<1>3. CASE Posix!Join(c)
  <2>1. PICK k \in DOMAIN queue[c], id \in Slots :
          /\ Posix!Highest(c, k) /\ queue' = Posix!Taken(c, k)
          /\ queue[c][k].m_type = INIT => id = queue[c][k].sender_id
          /\ client_id' = [client_id EXCEPT ![c] = id]
    BY <1>3, PosixNames, Zenon DEF Posix!Join
  <2>2. Replies(c) # {} => queue[c][k].m_type = INIT
    <3>1. \A j \in DOMAIN queue[c] : queue[c][j].m_type <= queue[c][k].m_type
      BY <1>a, <2>1, Highest
    <3>2. queue[c][k].m_type \in {STOP, LIST, _2ALL, _2ONE, INIT}
      BY <1>a, <2>1, QueueTypes, TableTypes
    <3> QED  BY <3>1, <3>2 DEF Replies, STOP, LIST, _2ALL, _2ONE, INIT
  <2>3. pc[c].parent = "await_init" /\ pc' = [pc EXCEPT ![c] = [parent |-> "polling", child |-> "ready"]]
    BY <1>3 DEF Posix!Join
  <2>4. [parent |-> "polling", child |-> "ready"] \in [parent : ParentPlaces, child : ChildPlaces]
    BY DEF ParentPlaces, ChildPlaces
  <2>5. Moves(c) /\ pc'[c].parent = "polling" /\ pc'[c].child = "ready"
    BY <2>3, <2>4, Places DEF Moves
  <2>6. Fewer(c, {k})
    BY <1>g, <2>1
  <2>7. ServerStays /\ UNCHANGED <<exists, left>>
    BY <1>a, <1>3 DEF Posix!Join, Posix!serverVars, ServerStays
  <2>8. Joins(c, k)
    BY <2>1, <2>2, <2>3, <2>5, <2>6, <2>7, Zenon DEF Joins
  <2> QED  BY <2>8 DEF ClientDoes
<1>4. CASE Posix!handle_queue_message(c)
  <2>1. Fewer(c, {})
    BY <1>g, <1>4, Zenon DEF Posix!handle_queue_message
  <2>2. ServerStays /\ UNCHANGED <<exists, client_id, left>> /\ pc[c].parent = "polling"
    BY <1>a, <1>4 DEF Posix!handle_queue_message, Posix!serverVars, ServerStays
  <2>3. Goes(c)
    <3>1. CASE UNCHANGED pc
      BY <2>2, <3>1, Places DEF Goes, Moves, Childless
    <3>2. CASE Posix!Stopping(c)
      <4>1. pc' = [pc EXCEPT ![c].parent = "stopping", ![c].child = IF @ = "none" THEN "none" ELSE "gone"]
        BY <3>2 DEF Posix!Stopping
      <4>2. /\ Moves(c) /\ pc'[c].parent = "stopping"
            /\ pc'[c].child = IF pc[c].child = "none" THEN "none" ELSE "gone"
        BY <4>1, Killing, Zenon
      <4> QED  BY <2>2, <4>2 DEF Goes
    <3> QED  BY <1>4, <3>1, <3>2 DEF Posix!handle_queue_message
  <2> QED  BY <2>1, <2>2, <2>3, Places DEF ClientDoes, Reads
<1>5. CASE Posix!SendStop(c)
  <2>1. Goto(c, "parent", "stopping", "removing")
    BY <1>b, <1>5 DEF Posix!SendStop
  <2>2. /\ pc[c].parent = "stopping" /\ pc'[c].parent = "removing" /\ Moves(c) /\ pc'[c].child = pc[c].child
    BY <1>f, <2>1, ParentGoing, ZenonT(40)
  <2>3. Goes(c)
    BY <1>a, <2>2 DEF Goes, Childless
  <2>4. HasRoom(Server) /\ queue' = Put(Server, FromClient(c, STOP, 0))
    BY <1>c, <1>e, <1>5, PosixNames DEF Posix!SendStop
  <2>5. More(Server, FromClient(c, STOP, 0))
    BY <2>4, Sending, Zero, Types5
  <2>6. ServerStays /\ UNCHANGED <<exists, client_id, left>>
    BY <1>a, <1>5 DEF Posix!SendStop, Posix!serverVars, ServerStays
  <2> QED  BY <2>2, <2>3, <2>5, <2>6 DEF ClientDoes, Stops
<1>6. CASE Posix!remove_queue(c)
  <2>1. Goto(c, "parent", "removing", "gone")
    BY <1>b, <1>6 DEF Posix!remove_queue
  <2>2. /\ pc[c].parent = "removing" /\ pc'[c].parent = "gone" /\ Moves(c) /\ pc'[c].child = pc[c].child
    BY <1>f, <2>1, ParentGoing, ZenonT(40)
  <2>3. Goes(c)
    BY <1>a, <2>2 DEF Goes, Childless
  <2>4. exists' = [exists EXCEPT ![c] = FALSE] /\ UNCHANGED <<queue, client_id, left>> /\ ServerStays
    BY <1>a, <1>6 DEF Posix!remove_queue, Posix!serverVars, ServerStays
  <2>5. exists' \in [Clients -> BOOLEAN]
    BY <2>4, Places
  <2>6. Passes(c)
    BY <2>2, <2>3, <2>4, <2>5 DEF Passes
  <2> QED  BY <2>6 DEF ClientDoes
<1>7. CASE Posix!handle_input(c)
  <2>1. pc[c].child = "ready" /\ pc[c].parent = "polling"
    BY <1>a, <1>7 DEF Posix!handle_input, Childless
  <2>2. PICK type \in {LIST, _2ALL, _2ONE}, receiver \in Slots :
          Posix!Send(Server, Posix!FromClient(c, type, receiver))
    BY <1>7, Zero, PosixNames DEF Posix!handle_input
  <2>3. HasRoom(Server) /\ queue' = Put(Server, FromClient(c, type, receiver)) /\ type \in STOP..INIT
    BY <1>c, <1>e, <2>2, Types5
  <2>4. More(Server, FromClient(c, type, receiver))
    BY <2>3, Sending
  <2>5. UNCHANGED pc \/ Goto(c, "child", "ready", "await_list")
    BY <1>b, <1>7 DEF Posix!handle_input
  <2>6. Moves(c) /\ pc'[c].child \in {"ready", "await_list"} /\ pc'[c].parent = pc[c].parent
    <3>1. CASE UNCHANGED pc
      BY <2>1, <3>1, Places DEF Moves
    <3>2. CASE Goto(c, "child", "ready", "await_list")
      BY <1>f, <3>2, ChildGoing
    <3> QED  BY <2>5, <3>1, <3>2
  <2>7. Goes(c)
    BY <2>1, <2>6 DEF Goes
  <2>8. /\ left[c] > 0 /\ left' = [left EXCEPT ![c] = @ - 1]
        /\ ServerStays /\ UNCHANGED <<exists, client_id>>
    BY <1>a, <1>7 DEF Posix!handle_input, Posix!serverVars, ServerStays
  <2>9. Orders(c)
    BY <2>1, <2>4, <2>7, <2>8 DEF Orders
  <2> QED  BY <2>9 DEF ClientDoes
<1>8. CASE Posix!EndOfInput(c)
  <2>1. Goto(c, "child", "ready", "gone")
    BY <1>b, <1>8 DEF Posix!EndOfInput
  <2>2. /\ pc[c].child = "ready" /\ pc'[c].child = "gone" /\ Moves(c) /\ pc'[c].parent = pc[c].parent
    BY <1>f, <2>1, ChildGoing
  <2>3. Goes(c)
    BY <2>2 DEF Goes, Childless
  <2>4. UNCHANGED <<queue, exists, client_id, left>> /\ ServerStays
    BY <1>a, <1>8 DEF Posix!EndOfInput, Posix!serverVars, ServerStays
  <2> QED  BY <2>2, <2>3, <2>4, Places DEF ClientDoes, Passes
<1>9. CASE Posix!stop_action_client(c)
  <2>1. pc' = [pc EXCEPT ![c].parent = "stopping", ![c].child = IF @ = "none" THEN "none" ELSE "gone"]
    BY <1>9 DEF Posix!stop_action_client, Posix!Stopping
  <2>2. /\ Moves(c) /\ pc'[c].parent = "stopping"
        /\ pc'[c].child = IF pc[c].child = "none" THEN "none" ELSE "gone"
    BY <2>1, Killing, Zenon
  <2>3. /\ pc[c].parent \in {"created", "await_init", "polling"}
        /\ pc[c].child # "none" => pc[c].parent = "polling"
    BY <1>9 DEF Posix!stop_action_client, Childless
  <2>4. Goes(c)
    BY <2>2, <2>3 DEF Goes
  <2>5. UNCHANGED <<queue, exists, client_id, left>> /\ ServerStays
    BY <1>a, <1>9 DEF Posix!stop_action_client, Posix!serverVars, ServerStays
  <2> QED  BY <2>2, <2>3, <2>4, <2>5, Places DEF ClientDoes, Passes
<1>10. CASE Posix!list_action_client(c)
  <2>1. Fewer(c, {})
    BY <1>g, <1>10, Zenon DEF Posix!list_action_client
  <2>2. Goto(c, "child", "await_list", "ready") /\ ServerStays /\ UNCHANGED <<exists, client_id, left>>
    BY <1>a, <1>b, <1>10 DEF Posix!list_action_client, Posix!serverVars, ServerStays
  <2>3. /\ pc[c].child = "await_list" /\ pc'[c].child = "ready" /\ Moves(c) /\ pc'[c].parent = pc[c].parent
    BY <1>f, <2>2, ChildGoing
  <2>4. Goes(c)
    BY <2>3 DEF Goes, Childless
  <2> QED  BY <2>1, <2>2, <2>3, <2>4, Places DEF ClientDoes, Reads, Childless
<1> QED  BY <1>1, <1>2, <1>3, <1>4, <1>5, <1>6, <1>7, <1>8, <1>9, <1>10 DEF Posix!Parent, Posix!User

\* The steps are of these kinds.
LEMMA StepKinds ==
    ASSUME Types, Childless, Step
    PROVE  Kinds
<1>1. ASSUME NEW c \in Clients, ClientDoes(c)
      PROVE  Kinds
  BY <1>1 DEF Kinds
<1>2. ASSUME ServerTakes \/ (\E s \in Slots : Delivers(s)) \/ GivesUp \/ Fades
      PROVE  Kinds
  BY <1>2 DEF Kinds
<1>3. CASE SysV!Next /\ InSysV
  BY <1>1, <1>2, <1>3, SysVServer, SysVClient DEF SysV!Next
<1>4. CASE Posix!PosixNext /\ InPosix
  BY <1>1, <1>2, <1>4, PosixServer, PosixClient DEF Posix!PosixNext
<1> QED  BY <1>3, <1>4 DEF Step
-----------------------------------------------------------------------------
(* What becomes of the messages.                                           *)

LEMMA MessageFields ==
    \A type, id, to, text, from, order :
        LET m == Message(type, id, to, text, from, order)
        IN /\ m.m_type = type /\ m.sender_id = id /\ m.m_text = text /\ m.from = from /\ m.order = order
BY DEF Message

\* The message at each place of a queue was at place g before.
Kept(g) ==
    \A q \in Queues : \A k \in DOMAIN queue'[q] :
        /\ k \in Nat /\ g[q][k] \in Nat
        /\ g[q][k] \in DOMAIN queue[q] /\ queue'[q][k] = queue[q][g[q][k]]
        /\ \A i \in DOMAIN queue'[q] : i < k => g[q][i] < g[q][k]

LEMMA KeptByNone ==
    ASSUME Types, UNCHANGED queue
    PROVE  \E g : Kept(g)
<1>1. PICK g : g = [q \in Queues |-> [k \in DOMAIN queue[q] |-> k]]
  BY Zenon
<1>2. \A q \in Queues : \A k \in DOMAIN queue[q] : k \in Nat /\ g[q][k] = k
  <2>1. \A q \in Queues : \A k \in DOMAIN queue[q] : k \in Nat
    BY QueueTypes
  <2> QED  BY <1>1, <2>1
<1> QED  BY <1>2 DEF Kept

LEMMA KeptByFewer ==
    ASSUME Types, NEW q \in Queues, NEW gone, Fewer(q, gone)
    PROVE  \E g : Kept(g) /\ \A k \in DOMAIN queue'[q] : g[q][k] \notin gone
<1>1. PICK f \in [DOMAIN queue'[q] -> DOMAIN queue[q] \ gone] :
        \A j \in DOMAIN queue'[q] : /\ queue'[q][j] = queue[q][f[j]]
                                    /\ \A i \in DOMAIN queue'[q] : i < j => f[i] < f[j]
  BY DEF Fewer
<1>2. PICK g : g = [p \in Queues |-> IF p = q THEN f ELSE [k \in DOMAIN queue[p] |-> k]]
  BY Zenon
<1>3. \A p \in Queues : /\ DOMAIN queue[p] \subseteq Nat /\ DOMAIN queue'[p] \subseteq Nat
                        /\ p # q => queue'[p] = queue[p]
  <2>1. ASSUME NEW p \in Queues  PROVE DOMAIN queue[p] \subseteq Nat /\ DOMAIN queue'[p] \subseteq Nat
    <3>1. DOMAIN queue[p] = 1..Len(queue[p]) /\ Len(queue[p]) \in Nat
      BY QueueTypes
    <3>2. PICK new : new = queue'[p] /\ new \in Seq(Messages)
      BY DEF Fewer
    <3>3. DOMAIN new = 1..Len(new) /\ Len(new) \in Nat
      BY <3>2
    <3> QED  BY <3>1, <3>2, <3>3
  <2> QED  BY <2>1 DEF Fewer
<1>4. ASSUME NEW p \in Queues, p # q
      PROVE  \A k \in DOMAIN queue'[p] : k \in Nat /\ g[p][k] = k /\ queue'[p] = queue[p]
  BY <1>2, <1>3, <1>4
<1>5. g[q] = f /\ \A k \in DOMAIN queue'[q] : k \in Nat /\ f[k] \in DOMAIN queue[q] \ gone /\ f[k] \in Nat
  BY <1>1, <1>2, <1>3
<1>6. \A p \in Queues : \A k \in DOMAIN queue'[p] :
        /\ k \in Nat /\ g[p][k] \in Nat
        /\ g[p][k] \in DOMAIN queue[p] /\ queue'[p][k] = queue[p][g[p][k]]
        /\ \A i \in DOMAIN queue'[p] : i < k => g[p][i] < g[p][k]
  <2>1. SUFFICES ASSUME NEW p \in Queues, NEW k \in DOMAIN queue'[p]
        PROVE  /\ k \in Nat /\ g[p][k] \in Nat
               /\ g[p][k] \in DOMAIN queue[p] /\ queue'[p][k] = queue[p][g[p][k]]
               /\ \A i \in DOMAIN queue'[p] : i < k => g[p][i] < g[p][k]
    OBVIOUS
  <2>2. CASE p = q
    BY <1>1, <1>5, <2>2
  <2>3. CASE p # q
    BY <1>4, <2>3
  <2> QED  BY <2>2, <2>3
<1> QED  BY <1>5, <1>6 DEF Kept

LEMMA AsksKept ==
    ASSUME NEW g, Kept(g), NEW c \in Clients
    PROVE  /\ \A k \in Asks(c)' : g[Server][k] \in Asks(c)
           /\ \A k \in Replies(c)' : g[c][k] \in Replies(c) /\ queue'[c][k] = queue[c][g[c][k]]
           /\ Asks(c)' # {} => Asks(c) # {}
           /\ Replies(c)' # {} => Replies(c) # {}
           /\ DOMAIN queue[c] = {} => DOMAIN queue'[c] = {}
           /\ (\A j, k \in Asks(c) : j = k) => (\A j, k \in Asks(c)' : j = k)
<1>1. Server \in Queues /\ c \in Queues
  BY DEF Queues
<1>2. \A k \in Asks(c)' : g[Server][k] \in Asks(c) /\ k \in DOMAIN queue'[Server] /\ k \in Nat
  BY <1>1 DEF Kept, Asks
<1>3. \A k \in Replies(c)' : g[c][k] \in Replies(c) /\ queue'[c][k] = queue[c][g[c][k]]
  BY <1>1 DEF Kept, Replies
<1>4. DOMAIN queue[c] = {} => DOMAIN queue'[c] = {}
  BY <1>1 DEF Kept
<1>5. ASSUME \A j, k \in Asks(c) : j = k, NEW j \in Asks(c)', NEW k \in Asks(c)', j < k
      PROVE  FALSE
  <2>1. g[Server][j] < g[Server][k] /\ g[Server][j] = g[Server][k] /\ g[Server][k] \in Nat
    BY <1>1, <1>2, <1>5 DEF Kept
  <2> QED  BY <2>1
<1>6. ASSUME \A j, k \in Asks(c) : j = k, NEW j \in Asks(c)', NEW k \in Asks(c)'
      PROVE  j = k
  <2>1. j \in Nat /\ k \in Nat
    BY <1>2
  <2> QED  BY <1>5, <1>6, <2>1
<1> QED  BY <1>2, <1>3, <1>4, <1>6

LEMMA MoreKeeps ==
    ASSUME NEW q \in Queues, NEW m, More(q, m)
    PROVE  /\ Len(queue'[q]) \notin DOMAIN queue[q] /\ queue'[q][Len(queue'[q])] = m
           /\ DOMAIN queue'[q] = DOMAIN queue[q] \cup {Len(queue'[q])}
           /\ \A k \in DOMAIN queue[q] : k < Len(queue'[q]) /\ queue'[q][k] = queue[q][k]
           /\ \A p \in Queues : p # q => queue'[p] = queue[p]
<1>1. PICK new : new = queue'[q] /\ new \in Seq(Messages)
  BY DEF More
<1>2. Len(queue'[q]) \in Nat
  BY <1>1
<1>3. /\ queue'[q][Len(queue'[q])] = m
      /\ DOMAIN queue'[q] = DOMAIN queue[q] \cup {Len(queue'[q])}
      /\ \A k \in DOMAIN queue[q] : k < Len(queue'[q]) /\ queue'[q][k] = queue[q][k]
      /\ \A p \in Queues : p # q => queue'[p] = queue[p]
  BY DEF More
<1>4. Len(queue'[q]) \notin DOMAIN queue[q]
  BY <1>2, <1>3
<1> QED  BY <1>3, <1>4
-----------------------------------------------------------------------------
(* Who is joining.                                                         *)

\* A client that the handler does not write INIT to.
LEMMA JoiningLeftAlone ==
    ASSUME NEW d \in Clients, Joining(d), DOMAIN outbox = {},
           NEW g, Kept(g), queue'[d] = queue[d], UNCHANGED <<pc, client_id>>,
           Seats(d)' \subseteq Seats(d), Known(d)' => Known(d), Known(d) => Known(d)' \/ pc[d].parent # "await_init",
           SendsReply(d)' = {},
           \A s \in DOMAIN outbox' : outbox'[s].to = d => Known(d)'
    PROVE  Joining(d)'
<1>1. SendsReply(d) = {} /\ Replies(d)' = Replies(d)
  BY DEF SendsReply, Replies
<1>2. Answered(d)' <=> Answered(d)
  BY <1>1 DEF Answered
<1>3. UnknownYet(d)'
  BY <1>2, AsksKept DEF Joining, UnknownYet
<1>4. AsksOnce(d)'
  BY AsksKept DEF Joining, AsksOnce
<1>5. OneSeat(d)'
  BY <1>1 DEF Joining, OneSeat
<1>6. AnswerFirst(d)'
  BY <1>1, <1>2 DEF Joining, AnswerFirst
<1> QED  BY <1>3, <1>4, <1>5, <1>6 DEF Joining

LEMMA JoinHandles ==
    ASSUME Types, JoinInv, MailInv, server' = "running",
           NEW k \in DOMAIN queue[Server], NEW m \in Messages, Handles(k, m), Answers(m)
    PROVE  JoinInv'
<1>1. server = "running" /\ DOMAIN outbox = {} /\ m = queue[Server][k] /\ \A d \in Clients : Joining(d)
  BY DEF Handles, JoinInv
<1>2. PICK g : Kept(g) /\ \A i \in DOMAIN queue'[Server] : g[Server][i] # k
  <2>1. Server \in Queues /\ Fewer(Server, {k})
    BY DEF Queues, Handles
  <2> QED  BY <2>1, KeptByFewer
<1>3. UNCHANGED <<pc, client_id>> /\ \A d \in Clients : queue'[d] = queue[d]
  BY ChatAssumption DEF Handles, ClientsStay, Fewer, Queues
<1>4. SUFFICES ASSUME NEW d \in Clients  PROVE Joining(d)'
  BY DEF JoinInv
<1>5. d # Free /\ d # NoQueue
  BY ChatAssumption
<1>6. CASE Lists(m)
  <2>1. Seats(d)' = Seats(d) /\ (Known(d)' <=> Known(d))
    BY <1>6 DEF Lists, Seats, Known
  <2>2. SendsReply(d)' = {}
    BY <1>6 DEF Lists, SendsReply, FromServer, Message, LIST, INIT
  <2>3. m.sender_id \in Slots
    BY TableTypes
  <2>4. \A s \in DOMAIN outbox' : outbox'[s].to = d => Known(d)
    BY <1>6, <2>3 DEF Lists, Known, Seats
  <2> QED  BY <1>1, <1>2, <1>3, <2>1, <2>2, <2>4, JoiningLeftAlone
<1>7. CASE Relays(m)
  <2>1. Seats(d)' = Seats(d) /\ (Known(d)' <=> Known(d))
    BY <1>7 DEF Relays, Seats, Known
  <2>2. SendsReply(d)' = {}
    <3>1. \A s \in DOMAIN outbox' : outbox'[s].message.m_type = _2ONE
      BY <1>7, MessageFields DEF Relays
    <3> QED  BY <3>1 DEF SendsReply, _2ONE, INIT
  <2>3. \A s \in DOMAIN outbox' : outbox'[s].to = d => Known(d)
    BY <1>7 DEF Relays, Known, Seats, Connected
  <2> QED  BY <1>1, <1>2, <1>3, <2>1, <2>2, <2>3, JoiningLeftAlone
<1>8. CASE Frees(m) \/ Ignores(m)
  <2>1. Seats(d)' \subseteq Seats(d)
    BY <1>5, <1>8, TableTypes DEF Frees, Ignores, Seats
  <2>2. Known(d)' => Known(d)
    BY <1>5, <1>8, <2>1 DEF Frees, Ignores, Known
  <2>3. DOMAIN outbox' = {} /\ SendsReply(d)' = {} /\ SendsReply(d) = {}
    BY <1>1, <1>8 DEF Frees, Ignores, SendsReply
  <2>4. Replies(d)' = Replies(d)
    BY <1>3 DEF Replies
  <2>5. Answered(d)' <=> Answered(d)
    BY <2>3, <2>4 DEF Answered
  <2>6. UnknownYet(d)'
    BY <1>1, <1>2, <1>3, <2>2, <2>5, AsksKept DEF Joining, UnknownYet
  <2>7. AsksOnce(d)'
    BY <1>1, <1>2, <1>3, AsksKept DEF Joining, AsksOnce
  <2>8. OneSeat(d)'
    BY <1>1, <1>3, <2>1, <2>3, <2>4 DEF Joining, OneSeat
  <2>9. AnswerFirst(d)'
    BY <1>1, <1>3, <2>2, <2>3, <2>4, <2>5 DEF Joining, AnswerFirst
  <2> QED  BY <2>6, <2>7, <2>8, <2>9 DEF Joining
<1>9. CASE Admits(m)
  <2>1. PICK s \in Slots, found \in {m.from, NoQueue} :
          /\ connected_clients[s] = Free
          /\ DOMAIN outbox' = {s} /\ outbox'[s].to = found
          /\ outbox'[s].message = FromServer(INIT, s, m.from)
          /\ \/ connected_clients' = [connected_clients EXCEPT ![s] = found] /\ UNCHANGED zero
             \/ zero = Free /\ zero' = found /\ UNCHANGED connected_clients
    BY <1>9 DEF Admits
  <2>2. outbox'[s].message.m_type = INIT /\ outbox'[s].message.sender_id = s
    BY <2>1 DEF FromServer, Message
  <2>3. connected_clients \in [Slots -> Clients \cup {Free, NoQueue}]
    BY TableTypes
  <2>4. CASE found # d
    <3>1. Seats(d)' = Seats(d) /\ (Known(d)' <=> Known(d))
      <4>1. Seats(d)' = Seats(d)
        BY <1>5, <2>1, <2>3, <2>4 DEF Seats
      <4> QED  BY <1>5, <2>1, <2>4, <4>1 DEF Known
    <3>2. SendsReply(d)' = {} /\ \A t \in DOMAIN outbox' : outbox'[t].to # d
      BY <2>1, <2>4 DEF SendsReply
    <3> QED  BY <1>1, <1>2, <1>3, <3>1, <3>2, JoiningLeftAlone
  <2>5. CASE found = d
    <3>1. m.from = d /\ m.m_type = INIT
      BY <1>5, <1>9, <2>1, <2>5 DEF Admits
    <3>2. k \in Asks(d)
      BY <1>1, <3>1 DEF Asks
    <3>3. /\ ~Known(d) /\ ~Answered(d) /\ DOMAIN queue[d] = {} /\ pc[d].child = "none"
          /\ pc[d].parent \notin {"start", "created"}
      BY <1>1, <3>2 DEF Joining, UnknownYet, AsksOnce
    <3>4. Asks(d)' = {}
      <4>1. ASSUME NEW j \in Asks(d)'  PROVE FALSE
        <5>1. g[Server][j] \in Asks(d) /\ g[Server][j] # k
          BY <1>2, <4>1, AsksKept DEF Asks
        <5> QED  BY <1>1, <3>2, <5>1 DEF Joining, AsksOnce
      <4> QED  BY <4>1
    <3>5. Replies(d)' = {} /\ SendsReply(d)' = {s}
      <4>1. Replies(d)' = {}
        BY <1>3, <3>3 DEF Replies
      <4>2. SendsReply(d)' = {s}
        BY <2>1, <2>2, <2>5 DEF SendsReply
      <4> QED  BY <4>1, <4>2
    <3>6. Seats(d)' \subseteq {s}
      BY <2>1, <2>3, <3>3 DEF Known, Seats
    <3>7. UnknownYet(d)' /\ AsksOnce(d)'
      BY <1>3, <3>3, <3>4 DEF UnknownYet, AsksOnce
    <3>8. OneSeat(d)'
      BY <1>3, <2>2, <3>3, <3>5, <3>6 DEF OneSeat
    <3>9. AnswerFirst(d)'
      BY <1>3, <2>1, <2>2, <3>3, <3>5 DEF AnswerFirst, Answered
    <3> QED  BY <3>7, <3>8, <3>9 DEF Joining
  <2> QED  BY <2>4, <2>5
<1>10. ~Ends
  BY DEF Ends
<1> QED  BY <1>6, <1>7, <1>8, <1>9, <1>10 DEF Answers

LEMMA JoinDelivers ==
    ASSUME Types, JoinInv, server' = "running", NEW s \in Slots, Delivers(s)
    PROVE  JoinInv'
<1>1. /\ server = "running" /\ s \in DOMAIN outbox /\ outbox[s].to \in Clients
      /\ UNCHANGED <<connected_clients, zero, pc, client_id>>
      /\ More(outbox[s].to, outbox[s].message)
      /\ \A d \in Clients : Joining(d)
  BY DEF Delivers, ClientsStay, JoinInv
<1>2. PICK c, m : c \in Clients /\ c = outbox[s].to /\ m = outbox[s].message
  BY <1>1
<1>3. /\ DOMAIN outbox' = DOMAIN outbox \ {s}
      /\ \A t \in DOMAIN outbox' : outbox'[t] = outbox[t]
  BY DEF Delivers, Without, Restrict
<1>4. /\ queue'[Server] = queue[Server]
      /\ \A d \in Clients : d # c => queue'[d] = queue[d]
      /\ Len(queue'[c]) \notin DOMAIN queue[c] /\ queue'[c][Len(queue'[c])] = m
      /\ DOMAIN queue'[c] = DOMAIN queue[c] \cup {Len(queue'[c])}
      /\ \A k \in DOMAIN queue[c] : queue'[c][k] = queue[c][k]
  <2>1. c \in Queues /\ More(c, m) /\ Server \in Queues /\ c # Server /\ Clients \subseteq Queues
    BY <1>1, <1>2, ChatAssumption DEF Queues
  <2> QED  BY <2>1, MoreKeeps
<1>5. SUFFICES ASSUME NEW d \in Clients  PROVE Joining(d)'
  BY DEF JoinInv
<1>6. Asks(d)' = Asks(d) /\ Seats(d)' = Seats(d) /\ (Known(d)' <=> Known(d))
  BY <1>1, <1>4 DEF Asks, Seats, Known
<1>7. Joining(d)
  BY <1>1
<1>8. AsksOnce(d)'
  BY <1>1, <1>6, <1>7 DEF Joining, AsksOnce
<1>9. SendsReply(d)' \subseteq SendsReply(d) /\ \A t \in SendsReply(d)' : t \in DOMAIN outbox' /\ outbox'[t] = outbox[t]
  BY <1>3 DEF SendsReply
<1>10. CASE d # c
  <2>1. queue'[d] = queue[d] /\ Replies(d)' = Replies(d)
    BY <1>4, <1>10 DEF Replies
  <2>2. SendsReply(d)' = SendsReply(d)
    BY <1>2, <1>3, <1>10 DEF SendsReply
  <2>3. Answered(d)' <=> Answered(d)
    BY <2>1, <2>2 DEF Answered
  <2>4. UnknownYet(d)'
    BY <1>1, <1>6, <1>7, <2>1, <2>3 DEF Joining, UnknownYet
  <2>5. OneSeat(d)'
    BY <1>1, <1>6, <1>7, <1>9, <2>1 DEF Joining, OneSeat
  <2>6. AnswerFirst(d)'
    <3>1. \A t \in SendsReply(d)' : DOMAIN outbox' = {t}
      BY <1>3, <1>7, <1>9, Zenon DEF Joining, AnswerFirst, SendsReply
    <3>2. (\E t \in DOMAIN outbox' : outbox'[t].to = d /\ outbox'[t].message.m_type # INIT) => Known(d)'
      BY <1>3, <1>6, <1>7 DEF Joining, AnswerFirst
    <3> QED  BY <1>1, <1>6, <1>7, <2>1, <2>3, <3>1, <3>2, Zenon DEF Joining, AnswerFirst
  <2> QED  BY <1>8, <2>4, <2>5, <2>6 DEF Joining
<1>11. CASE d = c /\ m.m_type = INIT
  <2>1. s \in SendsReply(d) /\ Answered(d)
    BY <1>1, <1>2, <1>11 DEF SendsReply, Answered
  <2>2. ~(pc[d].parent \in {"start", "created"} \/ Asks(d) # {}) /\ DOMAIN outbox = {s}
    BY <1>7, <2>1 DEF Joining, UnknownYet, AnswerFirst
  <2>3. DOMAIN outbox' = {} /\ SendsReply(d)' = {}
    BY <1>3, <2>2 DEF SendsReply
  <2>4. /\ Len(queue'[d]) \in Replies(d)'
        /\ \A k \in Replies(d)' : \/ k \in Replies(d) /\ queue'[d][k] = queue[d][k]
                                  \/ queue'[d][k] = m
    BY <1>4, <1>11 DEF Replies
  <2>5. UnknownYet(d)'
    BY <1>1, <1>6, <2>2 DEF UnknownYet
  <2>6. OneSeat(d)'
    <3>1. \A t \in Seats(d) : m.sender_id = t
      BY <1>2, <1>7, <2>1 DEF Joining, OneSeat
    <3> QED  BY <1>1, <1>6, <1>7, <2>3, <2>4, <3>1 DEF Joining, OneSeat
  <2>7. AnswerFirst(d)'
    BY <2>3, <2>4 DEF AnswerFirst, Answered
  <2> QED  BY <1>8, <2>5, <2>6, <2>7 DEF Joining
<1>12. CASE d = c /\ m.m_type # INIT
  <2>1. Known(d)
    BY <1>1, <1>2, <1>7, <1>12 DEF Joining, AnswerFirst
  <2>2. ~(pc[d].parent \in {"start", "created"} \/ Asks(d) # {})
    BY <1>7, <2>1 DEF Joining, UnknownYet
  <2>3. Replies(d)' = Replies(d) /\ \A k \in Replies(d) : queue'[d][k] = queue[d][k]
    BY <1>4, <1>12 DEF Replies
  <2>4. SendsReply(d) = {}
    <3>1. SUFFICES ASSUME NEW t \in SendsReply(d)  PROVE FALSE
      OBVIOUS
    <3>2. DOMAIN outbox = {t} /\ outbox[t].message.m_type = INIT
      BY <1>7, <3>1 DEF Joining, AnswerFirst, SendsReply
    <3> QED  BY <1>1, <1>2, <1>12, <3>2
  <2>5. SendsReply(d)' = {} /\ (Answered(d)' <=> Answered(d))
    BY <1>9, <2>3, <2>4 DEF Answered
  <2>6. UnknownYet(d)'
    BY <1>1, <1>6, <2>2 DEF UnknownYet
  <2>7. OneSeat(d)'
    BY <1>1, <1>6, <1>7, <2>3, <2>5 DEF Joining, OneSeat
  <2>8. AnswerFirst(d)'
    BY <1>1, <1>6, <1>7, <2>1, <2>3, <2>4, <2>5 DEF Joining, AnswerFirst, Answered
  <2> QED  BY <1>8, <2>6, <2>7, <2>8 DEF Joining
<1> QED  BY <1>10, <1>11, <1>12

\* A client's step that the server's queue gets no INIT from, and that takes no answer.
LEMMA JoiningGoesOn ==
    ASSUME ServerStays, NEW d \in Clients, Joining(d),
           Asks(d)' = Asks(d), UNCHANGED client_id,
           pc'[d].child = "none" <=> pc[d].child = "none",
           pc'[d].parent \in {"start", "created"} => pc[d].parent \in {"start", "created"},
           pc'[d].parent = "await_init" => pc[d].parent = "await_init",
           DOMAIN queue[d] = {} => DOMAIN queue'[d] = {},
           \A k \in Replies(d)' : \E j \in Replies(d) : queue'[d][k] = queue[d][j],
           pc[d].parent = "await_init" => queue'[d] = queue[d]
    PROVE  Joining(d)'
<1>1. /\ UNCHANGED outbox /\ SendsReply(d)' = SendsReply(d) /\ Seats(d)' = Seats(d)
      /\ Known(d)' <=> Known(d)
  BY DEF ServerStays, SendsReply, Seats, Known
<1>2. Answered(d)' => Answered(d)
  BY <1>1 DEF Answered
<1>3. pc[d].parent = "await_init" => Replies(d)' = Replies(d) /\ (Answered(d) => Answered(d)')
  BY <1>1 DEF Answered, Replies
<1>4. UnknownYet(d)'
  BY <1>1, <1>2 DEF Joining, UnknownYet
<1>5. AsksOnce(d)'
  BY DEF Joining, AsksOnce
<1>6. OneSeat(d)'
  BY <1>1 DEF Joining, OneSeat
<1>7. AnswerFirst(d)'
  BY <1>1, <1>3 DEF Joining, AnswerFirst
<1> QED  BY <1>4, <1>5, <1>6, <1>7 DEF Joining

LEMMA ServerGets ==
    ASSUME NEW m, More(Server, m), NEW d \in Clients
    PROVE  /\ queue'[d] = queue[d] /\ Replies(d)' = Replies(d)
           /\ Asks(d) \subseteq Asks(d)'
           /\ Asks(d)' \subseteq Asks(d) \cup {Len(queue'[Server])}
           /\ m.m_type # INIT \/ m.from # d => Asks(d)' = Asks(d)
<1>1. /\ Len(queue'[Server]) \notin DOMAIN queue[Server] /\ queue'[Server][Len(queue'[Server])] = m
      /\ DOMAIN queue'[Server] = DOMAIN queue[Server] \cup {Len(queue'[Server])}
      /\ \A k \in DOMAIN queue[Server] : queue'[Server][k] = queue[Server][k]
      /\ queue'[d] = queue[d]
  <2>1. Server \in Queues /\ d \in Queues /\ d # Server
    BY ChatAssumption DEF Queues
  <2> QED  BY <2>1, MoreKeeps
<1> QED  BY <1>1 DEF Asks, Replies

LEMMA JoinClient ==
    ASSUME Types, Childless, JoinInv, server' = "running", NEW c \in Clients, ClientDoes(c)
    PROVE  JoinInv'
<1>1. ServerStays /\ Moves(c) /\ \A d \in Clients : d # c => pc'[d] = pc[d]
  BY Zenon DEF ClientDoes, SendsInit, Orders, Stops, Reads, Passes, Joins, Goes, Moves
<1>2. server = "running" /\ \A d \in Clients : Joining(d)
  BY <1>1 DEF ServerStays, JoinInv
<1>3. SUFFICES ASSUME NEW d \in Clients  PROVE Joining(d)'
  BY DEF JoinInv
<1>4. CASE SendsInit(c)
  <2>1. PICK m : m = FromClient(c, INIT, 0) /\ m.from = c /\ m.m_type = INIT
    BY MessageFields DEF FromClient
  <2>2. More(Server, m) /\ UNCHANGED client_id
    BY <1>4, <2>1 DEF SendsInit
  <2>3. CASE d # c
    BY <1>1, <1>2, <2>1, <2>2, <2>3, ServerGets, JoiningGoesOn
  <2>4. CASE d = c
    <3>1. pc[c].parent = "created" /\ pc[c].child = "none" /\ pc'[c] = [pc[c] EXCEPT !.parent = "await_init"]
      BY <1>4 DEF SendsInit
    <3>2. pc'[c].parent = "await_init" /\ pc'[c].child = "none"
      BY <3>1, Places
    <3>3. /\ Asks(c) = {} /\ ~Known(c) /\ ~Answered(c) /\ DOMAIN queue[c] = {}
      BY <1>2, <3>1 DEF Joining, UnknownYet, AsksOnce
    <3>4. /\ queue'[c] = queue[c] /\ Replies(c)' = Replies(c)
          /\ \A i, j \in Asks(c)' : i = j
      BY <2>2, <3>3, ServerGets
    <3>5. UNCHANGED outbox /\ SendsReply(c)' = SendsReply(c) /\ Seats(c)' = Seats(c) /\ (Known(c)' <=> Known(c))
      BY <1>1 DEF ServerStays, SendsReply, Seats, Known
    <3>6. Answered(c)' <=> Answered(c)
      BY <3>4, <3>5 DEF Answered
    <3>7. UnknownYet(c)' /\ AsksOnce(c)'
      BY <3>2, <3>3, <3>4, <3>5, <3>6 DEF UnknownYet, AsksOnce
    <3>8. OneSeat(c)'
      BY <3>3, <3>5 DEF OneSeat, Known
    <3>9. AnswerFirst(c)'
      BY <1>2, <3>3, <3>4, <3>5, <3>6 DEF Joining, AnswerFirst
    <3> QED  BY <2>4, <3>7, <3>8, <3>9 DEF Joining
  <2> QED  BY <2>3, <2>4
<1>5. ASSUME Goes(c)
      PROVE  /\ pc'[d].child = "none" <=> pc[d].child = "none"
             /\ pc'[d].parent \in {"start", "created"} => pc[d].parent \in {"start", "created"}
             /\ pc'[d].parent = "await_init" => pc[d].parent = "await_init"
  BY <1>1, <1>5 DEF Goes
<1>6. CASE Orders(c) \/ Stops(c)
  <2>1. PICK type, receiver : type \in {LIST, _2ALL, _2ONE, STOP} /\ More(Server, FromClient(c, type, receiver))
    BY <1>6 DEF Orders, Stops
  <2>2. PICK m : m = FromClient(c, type, receiver) /\ m.m_type # INIT
    BY <2>1, MessageFields DEF FromClient, LIST, _2ALL, _2ONE, STOP, INIT
  <2>3. queue'[d] = queue[d] /\ Replies(d)' = Replies(d) /\ Asks(d)' = Asks(d)
    BY <2>1, <2>2, ServerGets
  <2>4. Goes(c) /\ UNCHANGED client_id
    BY <1>6 DEF Orders, Stops
  <2> QED  BY <1>1, <1>2, <1>5, <2>3, <2>4, JoiningGoesOn
<1>7. CASE Passes(c)
  <2>1. Goes(c) /\ UNCHANGED <<queue, client_id>>
    BY <1>7 DEF Passes
  <2>2. Replies(d)' = Replies(d) /\ Asks(d)' = Asks(d)
    BY <2>1 DEF Replies, Asks
  <2> QED  BY <1>1, <1>2, <1>5, <2>1, <2>2, JoiningGoesOn
<1>8. ASSUME NEW gone, Fewer(c, gone)
      PROVE  /\ Asks(d)' = Asks(d) /\ (d # c => queue'[d] = queue[d])
             /\ DOMAIN queue[d] = {} => DOMAIN queue'[d] = {}
             /\ \A k \in Replies(d)' : \E j \in Replies(d) : queue'[d][k] = queue[d][j]
  <2>1. c \in Queues /\ d \in Queues /\ Server \in Queues /\ c # Server
    BY ChatAssumption DEF Queues
  <2>2. PICK g : Kept(g)
    BY <1>8, <2>1, KeptByFewer
  <2>3. queue'[Server] = queue[Server] /\ (d # c => queue'[d] = queue[d])
    BY <1>8, <2>1 DEF Fewer
  <2>4. Asks(d)' = Asks(d)
    BY <2>3 DEF Asks
  <2> QED  BY <2>2, <2>3, <2>4, AsksKept
<1>9. CASE Reads(c)
  <2>1. Goes(c) /\ Fewer(c, {}) /\ UNCHANGED client_id
        /\ pc[c].parent \notin {"start", "created", "await_init"}
    BY <1>9 DEF Reads
  <2>2. pc[d].parent = "await_init" => queue'[d] = queue[d]
    BY <1>8, <2>1
  <2> QED  BY <1>1, <1>2, <1>5, <1>8, <2>1, <2>2, JoiningGoesOn
<1>10. ASSUME NEW k \in DOMAIN queue[c], Joins(c, k)
       PROVE  Joining(d)'
  <2>1. /\ pc[c].parent = "await_init" /\ Fewer(c, {k})
        /\ Replies(c) # {} => queue[c][k].m_type = INIT
        /\ pc'[c].parent \in {"ready", "polling"} /\ pc'[c].child # "none"
    BY <1>10 DEF Joins
  <2>2. PICK id \in Slots : /\ queue[c][k].m_type = INIT => id = queue[c][k].sender_id
                            /\ client_id' = [client_id EXCEPT ![c] = id]
    BY <1>10, Zenon DEF Joins
  <2>3. client_id'[c] = id /\ \A e \in Clients : e # c => client_id'[e] = client_id[e]
    BY <2>2, Zenon DEF Types, TypeOK
  <2>4. UNCHANGED outbox /\ SendsReply(d)' = SendsReply(d) /\ Seats(d)' = Seats(d) /\ (Known(d)' <=> Known(d))
    BY <1>1 DEF ServerStays, SendsReply, Seats, Known
  <2>5. CASE d # c
    <3>1. queue'[d] = queue[d] /\ Asks(d)' = Asks(d) /\ Replies(d)' = Replies(d)
      BY <1>8, <2>1, <2>5 DEF Replies
    <3>2. Answered(d)' <=> Answered(d)
      BY <2>4, <3>1 DEF Answered
    <3>3. pc'[d] = pc[d] /\ client_id'[d] = client_id[d]
      BY <1>1, <2>3, <2>5
    <3>4. UnknownYet(d)' /\ AsksOnce(d)'
      BY <1>2, <2>4, <3>1, <3>2, <3>3 DEF Joining, UnknownYet, AsksOnce
    <3>5. OneSeat(d)'
      BY <1>2, <2>4, <3>1, <3>3 DEF Joining, OneSeat
    <3>6. AnswerFirst(d)'
      BY <1>2, <2>4, <3>1, <3>2, <3>3 DEF Joining, AnswerFirst
    <3> QED  BY <3>4, <3>5, <3>6 DEF Joining
  <2>6. CASE d = c
    <3>1. Replies(c) # {} /\ queue[c][k].m_type = INIT /\ k \in Replies(c) /\ id = queue[c][k].sender_id
      <4>1. Replies(c) # {}
        BY <1>2, <2>1 DEF Joining, AnswerFirst
      <4> QED  BY <2>1, <2>2, <4>1 DEF Replies
    <3>2. Asks(c) = {} /\ Asks(c)' = {}
      <4>1. Asks(c) = {}
        BY <1>2 DEF Joining, UnknownYet
      <4> QED  BY <1>8, <2>1, <2>6, <4>1
    <3>3. UnknownYet(c)' /\ AsksOnce(c)'
      BY <2>1, <3>2 DEF UnknownYet, AsksOnce
    <3>4. OneSeat(c)'
      <4>1. \A s \in Seats(c) : client_id'[c] = s /\ Seats(c) = {s}
        BY <1>2, <2>3, <3>1 DEF Joining, OneSeat
      <4>2. \A j \in Replies(c)' : \E i \in Replies(c) : queue'[c][j] = queue[c][i]
        BY <1>8, <2>1, <2>6
      <4> QED  BY <1>2, <2>4, <2>6, <4>1, <4>2 DEF Joining, OneSeat
    <3>5. AnswerFirst(c)'
      BY <1>2, <2>1, <2>4, <2>6 DEF Joining, AnswerFirst
    <3> QED  BY <2>6, <3>3, <3>4, <3>5 DEF Joining
  <2> QED  BY <2>5, <2>6
<1> QED  BY <1>4, <1>6, <1>7, <1>9, <1>10 DEF ClientDoes
-----------------------------------------------------------------------------
(* What is in the messages.                                                *)

LEMMA FromServerFields ==
    \A type, id, asker :
        LET m == FromServer(type, id, asker)
        IN m.m_type = type /\ m.sender_id = id /\ m.from = asker /\ m.order = type
BY MessageFields DEF FromServer

LEMMA FromClientFields ==
    \A c, type, to :
        LET m == FromClient(c, type, to)
        IN m.m_type = type /\ m.sender_id = client_id[c] /\ m.m_text = left[c] /\ m.from = c /\ m.order = type
BY MessageFields DEF FromClient

\* The messages that the server writes itself.
LEMMA NotRelayed ==
    ASSUME NEW type \in {STOP, LIST, INIT}, NEW id, NEW asker, NEW m, m = FromServer(type, id, asker)
    PROVE  ~Relay(m) /\ \A c : ClientsMail(c, m)
<1>1. m.m_type = type /\ m.order = type
  BY FromServerFields
<1>2. type # _2ALL /\ type # _2ONE
  BY DEF STOP, LIST, INIT, _2ALL, _2ONE
<1> QED  BY <1>1, <1>2 DEF Relay, ClientsMail

LEMMA MailHandles ==
    ASSUME Types, JoinInv, MailInv,
           NEW k \in DOMAIN queue[Server], NEW m \in Messages, Handles(k, m), Answers(m)
    PROVE  MailInv'
<1>1. server = "running" /\ DOMAIN outbox = {} /\ m = queue[Server][k] /\ UNCHANGED <<pc, client_id>>
  BY DEF Handles, ClientsStay
<1>2. PICK g : Kept(g)
  <2>1. Server \in Queues /\ Fewer(Server, {k})
    BY DEF Queues, Handles
  <2> QED  BY <2>1, KeptByFewer
<1>3. \A i \in DOMAIN queue'[Server] : ServersMail(queue[Server][i])'
  BY <1>1, <1>2 DEF Kept, Queues, MailInv, ServersMail
<1>4. \A c \in Clients : \A i \in DOMAIN queue'[c] : ClientsMail(c, queue'[c][i])
  BY <1>2 DEF Kept, Queues, MailInv
<1>5. \A s \in DOMAIN outbox' : ClientsMail(outbox'[s].to, outbox'[s].message)
  <2>1. CASE Ends
    BY <2>1, NotRelayed DEF Ends
  <2>2. CASE Lists(m)
    BY <2>2, NotRelayed DEF Lists
  <2>3. CASE Admits(m)
    BY <2>3, NotRelayed DEF Admits
  <2>4. CASE Frees(m) \/ Ignores(m)
    BY <1>1, <2>4 DEF Frees, Ignores
  <2>5. CASE Relays(m)
    <3>1. SUFFICES ASSUME NEW s \in DOMAIN outbox'  PROVE ClientsMail(outbox'[s].to, outbox'[s].message)
      OBVIOUS
    <3>2. PICK n : /\ n = outbox'[s].message /\ n.m_type = _2ONE
                   /\ n.from = m.from /\ n.order = m.m_type
      BY <2>5, MessageFields DEF Relays
    <3>3. /\ m.m_type \in {_2ALL, _2ONE} /\ m.m_type \notin {STOP, INIT}
          /\ outbox'[s].to = connected_clients[s] /\ s \in Slots
          /\ m.m_type = _2ALL => m.sender_id # s
      BY <2>5 DEF Relays, Connected, STOP, INIT, _2ALL, _2ONE
    <3>4. ServersMail(m)
      BY <1>1 DEF MailInv
    <3>5. m.from \in Clients /\ pc[m.from].child # "none" /\ m.sender_id = client_id[m.from]
      BY <3>3, <3>4 DEF ServersMail
    <3>6. m.m_type = _2ALL => connected_clients[s] # m.from
      <4>1. s \in Seats(m.from) => client_id[m.from] = s
        BY <1>1, <3>5 DEF JoinInv, Joining, OneSeat
      <4> QED  BY <3>3, <3>5, <4>1 DEF Seats
    <3>7. Relay(n)
      BY <3>2, <3>3 DEF Relay
    <3> QED  BY <3>2, <3>3, <3>5, <3>6, <3>7 DEF ClientsMail
  <2> QED  BY <2>1, <2>2, <2>3, <2>4, <2>5 DEF Answers
<1> QED  BY <1>3, <1>4, <1>5 DEF MailInv

LEMMA MailDelivers ==
    ASSUME Types, MailInv, NEW s \in Slots, Delivers(s)
    PROVE  MailInv'
<1>1. /\ s \in DOMAIN outbox /\ outbox[s].to \in Clients /\ UNCHANGED <<pc, client_id>>
      /\ More(outbox[s].to, outbox[s].message)
  BY DEF Delivers, ClientsStay
<1>2. PICK c, m : c \in Clients /\ c = outbox[s].to /\ m = outbox[s].message
  BY <1>1
<1>3. DOMAIN outbox' \subseteq DOMAIN outbox /\ \A t \in DOMAIN outbox' : outbox'[t] = outbox[t]
  BY DEF Delivers, Without, Restrict
<1>4. /\ queue'[Server] = queue[Server]
      /\ \A d \in Clients : d # c => queue'[d] = queue[d]
      /\ \A k \in DOMAIN queue'[c] : \/ queue'[c][k] = m
                                     \/ k \in DOMAIN queue[c] /\ queue'[c][k] = queue[c][k]
  <2>1. c \in Queues /\ More(c, m) /\ Server \in Queues /\ c # Server /\ Clients \subseteq Queues
    BY <1>1, <1>2, ChatAssumption DEF Queues
  <2> QED  BY <2>1, MoreKeeps
<1>5. ClientsMail(c, m)
  BY <1>1, <1>2 DEF MailInv
<1>6. \A d \in Clients : \A k \in DOMAIN queue'[d] : ClientsMail(d, queue'[d][k])
  BY <1>4, <1>5 DEF MailInv
<1>7. \A k \in DOMAIN queue'[Server] : ServersMail(queue[Server][k])'
  BY <1>1, <1>4 DEF MailInv, ServersMail
<1> QED  BY <1>3, <1>6, <1>7 DEF MailInv

\* A server that ends.
LEMMA MailFades ==
    ASSUME Types, MailInv, GivesUp \/ Fades
    PROVE  MailInv'
<1>1. UNCHANGED <<queue, pc, client_id>>
  BY DEF GivesUp, Fades, ClientsStay
<1>2. \A s \in DOMAIN outbox' : ClientsMail(outbox'[s].to, outbox'[s].message)
  <2>1. CASE GivesUp
    BY <2>1, NotRelayed DEF GivesUp, Ends
  <2>2. CASE Fades
    BY <2>2, Zenon DEF Fades, Without, Restrict, MailInv
  <2> QED  BY <2>1, <2>2
<1> QED  BY <1>1, <1>2 DEF MailInv, ServersMail

LEMMA MailClient ==
    ASSUME Types, Childless, MailInv, NEW c \in Clients, ClientDoes(c)
    PROVE  MailInv'
<1>1. ServerStays /\ Moves(c)
  BY Zenon DEF ClientDoes, SendsInit, Orders, Stops, Reads, Passes, Joins, Goes
<1>2. \A s \in DOMAIN outbox' : ClientsMail(outbox'[s].to, outbox'[s].message)
  BY <1>1 DEF ServerStays, MailInv
<1>3. \A d \in Clients : d # c => pc'[d] = pc[d]
  BY <1>1 DEF Moves
\* Who has given an order has a child and a number, and keeps them.
<1>4. ASSUME NEW n, ServersMail(n), UNCHANGED client_id, pc[c].child # "none" => pc'[c].child # "none"
      PROVE  ServersMail(n)'
  BY <1>3, <1>4 DEF ServersMail
<1>5. ASSUME NEW m, More(Server, m), UNCHANGED client_id, pc[c].child # "none" => pc'[c].child # "none",
             ServersMail(m)'
      PROVE  MailInv'
  <2>1. /\ \A k \in DOMAIN queue'[Server] : \/ queue'[Server][k] = m
                                            \/ k \in DOMAIN queue[Server] /\ queue'[Server][k] = queue[Server][k]
        /\ \A d \in Clients : queue'[d] = queue[d]
    <3>1. Server \in Queues /\ \A d \in Clients : d \in Queues /\ d # Server
      BY ChatAssumption DEF Queues
    <3> QED  BY <1>5, <3>1, MoreKeeps
  <2>2. \A k \in DOMAIN queue'[Server] : ServersMail(queue[Server][k])'
    BY <1>4, <1>5, <2>1 DEF MailInv
  <2> QED  BY <1>2, <2>1, <2>2 DEF MailInv
<1>6. CASE SendsInit(c)
  <2>1. PICK m : m = FromClient(c, INIT, 0) /\ m.from = c /\ m.m_type = INIT /\ m.order = INIT
    BY FromClientFields
  <2>2. ServersMail(m)'
    BY <2>1 DEF ServersMail
  <2> QED  BY <1>5, <1>6, <2>1, <2>2 DEF SendsInit
<1>7. CASE Stops(c)
  <2>1. PICK m : m = FromClient(c, STOP, 0) /\ m.from = c /\ m.m_type = STOP /\ m.order = STOP
    BY FromClientFields
  <2>2. ServersMail(m)'
    BY <2>1 DEF ServersMail
  <2> QED  BY <1>5, <1>7, <2>1, <2>2 DEF Stops, Goes
<1>8. CASE Orders(c)
  <2>1. PICK type, receiver : More(Server, FromClient(c, type, receiver))
    BY <1>8 DEF Orders
  <2>2. PICK m : /\ m = FromClient(c, type, receiver) /\ m.from = c /\ m.order = m.m_type
                 /\ m.sender_id = client_id[c]
    BY FromClientFields
  <2>3. pc[c].child # "none" /\ pc'[c].child # "none" /\ UNCHANGED client_id
    BY <1>8 DEF Orders, Goes
  <2>4. ServersMail(m)'
    BY <2>2, <2>3 DEF ServersMail
  <2> QED  BY <1>5, <2>1, <2>2, <2>3, <2>4
<1>9. CASE Passes(c)
  BY <1>2, <1>4, <1>9 DEF Passes, Goes, MailInv
<1>10. ASSUME NEW gone, Fewer(c, gone), \A n : ServersMail(n) => ServersMail(n)'
       PROVE  MailInv'
  <2>1. c \in Queues /\ Server \in Queues /\ c # Server /\ Clients \subseteq Queues
    BY ChatAssumption DEF Queues
  <2>2. PICK g : Kept(g)
    BY <1>10, <2>1, KeptByFewer
  <2>3. \A d \in Clients : \A k \in DOMAIN queue'[d] : ClientsMail(d, queue'[d][k])
    BY <2>1, <2>2 DEF Kept, MailInv
  <2>4. queue'[Server] = queue[Server]
    BY <1>10, <2>1 DEF Fewer
  <2> QED  BY <1>2, <1>10, <2>3, <2>4 DEF MailInv
<1>11. CASE Reads(c)
  <2>1. Fewer(c, {}) /\ UNCHANGED client_id /\ (pc[c].child # "none" => pc'[c].child # "none")
    BY <1>11 DEF Reads, Goes
  <2> QED  BY <1>4, <1>10, <2>1
<1>12. ASSUME NEW k \in DOMAIN queue[c], Joins(c, k)
       PROVE  MailInv'
  <2>1. Fewer(c, {k}) /\ pc[c].child = "none"
    BY <1>12 DEF Joins, Childless
  <2>2. \A d \in Clients : d # c => client_id'[d] = client_id[d]
    BY <1>12, Zenon DEF Joins, Types, TypeOK
  <2>3. \A n : ServersMail(n) => ServersMail(n)'
    BY <1>3, <2>1, <2>2 DEF ServersMail
  <2> QED  BY <1>10, <2>1, <2>3
<1> QED  BY <1>6, <1>7, <1>8, <1>9, <1>11, <1>12 DEF ClientDoes
-----------------------------------------------------------------------------
(* In which order the messages come.                                       *)

LEMMA Unordered ==
    ASSUME NEW m, ~Relay(m)
    PROVE  Spent(m) /\ Spent(m)' /\ \A n : Later(m, n) /\ Later(n, m)
BY DEF Spent, Later, Relay, SameKind

\* Messages that are kept are in order as before.
LEMMA OrderKept ==
    ASSUME OrderInv, NEW g, Kept(g), \A q \in Queues : \A k \in DOMAIN queue[q] :
               Spent(queue[q][k]) => (Relay(queue[q][k]) => queue[q][k].m_text > left'[queue[q][k].from])
    PROVE  /\ \A q \in Queues : InOrder(q)'
           /\ \A c \in Clients : \A j \in DOMAIN queue'[c], k \in DOMAIN queue'[Server] :
                  Later(queue'[Server][k], queue'[c][j])
<1>1. ASSUME NEW q \in Queues  PROVE InOrder(q)'
  <2>1. InOrder(q)
    BY DEF OrderInv
  <2>2. \A k \in DOMAIN queue'[q] :
          /\ g[q][k] \in DOMAIN queue[q] /\ queue'[q][k] = queue[q][g[q][k]]
          /\ \A i \in DOMAIN queue'[q] : i < k => g[q][i] < g[q][k]
    BY DEF Kept
  <2>3. \A k \in DOMAIN queue'[q] : Spent(queue[q][k])'
    BY <2>1, <2>2 DEF InOrder, Spent
  <2>4. \A k \in DOMAIN queue'[q] : \A j \in DOMAIN queue'[q] : j < k => Later(queue'[q][k], queue'[q][j])
    BY <2>1, <2>2 DEF InOrder
  <2> QED  BY <2>3, <2>4 DEF InOrder
<1>2. ASSUME NEW c \in Clients, NEW j \in DOMAIN queue'[c], NEW k \in DOMAIN queue'[Server]
      PROVE  Later(queue'[Server][k], queue'[c][j])
  <2>1. c \in Queues /\ Server \in Queues
    BY DEF Queues
  <2>2. /\ g[c][j] \in DOMAIN queue[c] /\ queue'[c][j] = queue[c][g[c][j]]
        /\ g[Server][k] \in DOMAIN queue[Server] /\ queue'[Server][k] = queue[Server][g[Server][k]]
    BY <1>2, <2>1 DEF Kept
  <2> QED  BY <2>2 DEF OrderInv
<1> QED  BY <1>1, <1>2

LEMMA OrderHandles ==
    ASSUME Types, JoinInv, MailInv, OrderInv,
           NEW k \in DOMAIN queue[Server], NEW m \in Messages, Handles(k, m), Answers(m)
    PROVE  OrderInv'
<1>1. /\ server = "running" /\ DOMAIN outbox = {} /\ m = queue[Server][k] /\ UNCHANGED left
      /\ k \in Nat /\ Server \in Queues /\ Clients \subseteq Queues
  BY QueueTypes DEF Handles, ClientsStay, Queues
<1>2. PICK g : Kept(g) /\ \A i \in DOMAIN queue'[Server] : g[Server][i] # k
  <2>1. Fewer(Server, {k})
    BY DEF Handles
  <2> QED  BY <1>1, <2>1, KeptByFewer
<1>3. /\ \A q \in Queues : InOrder(q)'
      /\ \A c \in Clients : \A j \in DOMAIN queue'[c], i \in DOMAIN queue'[Server] :
            Later(queue'[Server][i], queue'[c][j])
  BY <1>1, <1>2, OrderKept DEF Spent
<1>4. ASSUME NEW s \in DOMAIN outbox', ~Relay(outbox'[s].message)
      PROVE  SentInOrder(s)'
  BY <1>4, Unordered DEF SentInOrder
<1>5. \A s \in DOMAIN outbox' : SentInOrder(s)'
  <2>1. CASE Ends
    BY <1>4, <2>1, NotRelayed DEF Ends
  <2>2. CASE Lists(m)
    BY <1>4, <2>2, NotRelayed DEF Lists
  <2>3. CASE Admits(m)
    BY <1>4, <2>3, NotRelayed DEF Admits
  <2>4. CASE Frees(m) \/ Ignores(m)
    BY <1>1, <2>4 DEF Frees, Ignores
  <2>5. CASE Relays(m)
    <3>1. SUFFICES ASSUME NEW s \in DOMAIN outbox'  PROVE SentInOrder(s)'
      OBVIOUS
    <3>2. PICK n : /\ n = outbox'[s].message /\ n.m_text = m.m_text
                   /\ n.from = m.from /\ n.order = m.m_type
      BY <2>5, MessageFields DEF Relays
    <3>3. /\ m.m_type \in {_2ALL, _2ONE}
          /\ \A t \in DOMAIN outbox' : t \in Slots /\ outbox'[t].to = connected_clients[t]
      BY <2>5 DEF Relays, Connected
    <3>4. m.order = m.m_type
      BY <1>1 DEF MailInv, ServersMail
    <3>5. Relay(m) /\ Relay(n) /\ \A o : Later(m, o) => Later(n, o)
      BY <3>2, <3>3, <3>4 DEF Relay, Later, SameKind
    <3>6. Spent(n)'
      BY <1>1, <3>2, <3>5 DEF Spent, OrderInv, InOrder
    <3>7. ASSUME NEW i \in DOMAIN queue'[Server]
          PROVE  Later(queue'[Server][i], n)
      <4>1. PICK j \in DOMAIN queue[Server] : queue'[Server][i] = queue[Server][j] /\ j # k /\ j \in Nat
        BY <1>1, <1>2, <3>7 DEF Kept
      <4>2. CASE k < j
        <5>1. Later(queue[Server][j], m)
          BY <1>1, <4>2 DEF OrderInv, InOrder
        <5> QED  BY <3>2, <3>4, <4>1, <5>1 DEF Later, SameKind
      <4>3. CASE j < k
        <5>1. queue[Server][j].m_type # m.m_type /\ queue[Server][j].order = queue[Server][j].m_type
          BY <4>3 DEF Handles, MailInv, ServersMail
        <5> QED  BY <3>2, <4>1, <5>1 DEF Later, SameKind
      <4> QED  BY <1>1, <4>1, <4>2, <4>3
    <3>8. ASSUME outbox'[s].to \in Clients
          PROVE  /\ \A j \in DOMAIN queue'[outbox'[s].to] : Later(n, queue'[outbox'[s].to][j])
                 /\ \A t \in DOMAIN outbox' : outbox'[t].to = outbox'[s].to => t = s
      <4>1. PICK c \in Clients : c = outbox'[s].to
        BY <3>8
      <4>2. queue'[c] = queue[c]
        BY ChatAssumption, Zenon DEF Handles, Fewer, Queues
      <4>3. \A j \in DOMAIN queue'[c] : Later(n, queue'[c][j])
        BY <1>1, <3>5, <4>2 DEF OrderInv
      <4>4. \A t \in DOMAIN outbox' : outbox'[t].to = c => t = s
        BY <1>1, <3>3, <4>1 DEF JoinInv, Joining, OneSeat, Seats
      <4> QED  BY <4>1, <4>3, <4>4
    <3> QED  BY <3>2, <3>6, <3>7, <3>8 DEF SentInOrder
  <2> QED  BY <2>1, <2>2, <2>3, <2>4, <2>5 DEF Answers
<1> QED  BY <1>3, <1>5 DEF OrderInv

LEMMA OrderDelivers ==
    ASSUME Types, OrderInv, NEW s \in Slots, Delivers(s)
    PROVE  OrderInv'
<1>1. /\ s \in DOMAIN outbox /\ outbox[s].to \in Clients /\ UNCHANGED left
      /\ More(outbox[s].to, outbox[s].message)
  BY DEF Delivers, ClientsStay
<1>2. PICK c, m : c \in Clients /\ c = outbox[s].to /\ m = outbox[s].message
  BY <1>1
<1>3. DOMAIN outbox' = DOMAIN outbox \ {s} /\ \A t \in DOMAIN outbox' : outbox'[t] = outbox[t]
  BY DEF Delivers, Without, Restrict
<1>4. /\ \A q \in Queues : q # c => queue'[q] = queue[q]
      /\ queue'[Server] = queue[Server] /\ \A d \in Clients : d # c => queue'[d] = queue[d]
      /\ Len(queue'[c]) \notin DOMAIN queue[c] /\ queue'[c][Len(queue'[c])] = m
      /\ DOMAIN queue'[c] = DOMAIN queue[c] \cup {Len(queue'[c])}
      /\ \A k \in DOMAIN queue[c] : k < Len(queue'[c]) /\ queue'[c][k] = queue[c][k]
      /\ Len(queue'[c]) \in Nat
  <2>1. c \in Queues /\ More(c, m) /\ Server \in Queues /\ c # Server /\ Clients \subseteq Queues
    BY <1>1, <1>2, ChatAssumption DEF Queues
  <2>2. Len(queue'[c]) \in Nat
    <3>1. PICK new : new = queue'[c] /\ new \in Seq(Messages)
      BY <2>1 DEF More
    <3> QED  BY <3>1
  <2> QED  BY <2>1, <2>2, MoreKeeps
<1>5. /\ Spent(m) /\ \A k \in DOMAIN queue[Server] : Later(queue[Server][k], m)
      /\ \A k \in DOMAIN queue[c] : Later(m, queue[c][k])
      /\ Relay(m) => \A t \in DOMAIN outbox : outbox[t].to = c => t = s
  BY <1>1, <1>2 DEF OrderInv, SentInOrder
<1>6. ASSUME NEW q \in Queues  PROVE InOrder(q)'
  <2>1. InOrder(q)
    BY DEF OrderInv
  <2>2. CASE q # c
    BY <1>1, <1>4, <2>1, <2>2 DEF InOrder, Spent
  <2>3. CASE q = c
    <3>1. \A k \in DOMAIN queue'[c] : Spent(queue[c][k])'
      BY <1>1, <1>4, <1>5, <2>1, <2>3 DEF InOrder, Spent
    <3>2. \A k \in DOMAIN queue[c] : k \in Nat
      BY <1>2, QueueTypes DEF Queues
    <3>3. ASSUME NEW k \in DOMAIN queue'[c], NEW j \in DOMAIN queue'[c], j < k
          PROVE  Later(queue'[c][k], queue'[c][j])
      <4>1. j \in DOMAIN queue[c]
        BY <1>4, <3>2, <3>3
      <4> QED  BY <1>4, <1>5, <2>1, <2>3, <3>3, <4>1 DEF InOrder
    <3> QED  BY <2>3, <3>1, <3>3 DEF InOrder
  <2> QED  BY <2>2, <2>3
<1>7. ASSUME NEW d \in Clients, NEW j \in DOMAIN queue'[d], NEW k \in DOMAIN queue'[Server]
      PROVE  Later(queue'[Server][k], queue'[d][j])
  BY <1>4, <1>5, <1>7 DEF OrderInv
<1>8. ASSUME NEW t \in DOMAIN outbox'  PROVE SentInOrder(t)'
  <2>1. SentInOrder(t) /\ t # s /\ outbox'[t] = outbox[t]
    BY <1>3 DEF OrderInv
  <2>2. Spent(outbox[t].message)'
    BY <1>1, <2>1 DEF SentInOrder, Spent
  <2>3. \A k \in DOMAIN queue'[Server] : Later(queue'[Server][k], outbox'[t].message)
    BY <1>4, <2>1 DEF SentInOrder
  <2>4. ASSUME outbox'[t].to \in Clients
        PROVE  /\ \A k \in DOMAIN queue'[outbox'[t].to] : Later(outbox'[t].message, queue'[outbox'[t].to][k])
               /\ Relay(outbox'[t].message) =>
                    \A u \in DOMAIN outbox' : outbox'[u].to = outbox'[t].to => u = t
    <3>1. PICK d, n : d \in Clients /\ d = outbox[t].to /\ n = outbox[t].message
      BY <2>1, <2>4
    <3>2. /\ \A k \in DOMAIN queue[d] : Later(n, queue[d][k])
          /\ Relay(n) => \A u \in DOMAIN outbox : outbox[u].to = d => u = t
      BY <2>1, <3>1 DEF SentInOrder
    <3>3. d = c => ~Relay(n)
      BY <1>1, <1>2, <2>1, <3>2
    <3>4. \A k \in DOMAIN queue'[d] : Later(n, queue'[d][k])
      BY <1>4, <3>1, <3>2, <3>3, Unordered
    <3> QED  BY <1>3, <2>1, <3>1, <3>2, <3>4
  <2> QED  BY <2>1, <2>2, <2>3, <2>4 DEF SentInOrder
<1> QED  BY <1>6, <1>7, <1>8 DEF OrderInv

LEMMA OrderFades ==
    ASSUME Types, OrderInv, GivesUp \/ Fades
    PROVE  OrderInv'
<1>1. UNCHANGED <<queue, left>>
  BY DEF GivesUp, Fades, ClientsStay
<1>2. ASSUME NEW s \in DOMAIN outbox'  PROVE SentInOrder(s)'
  <2>1. CASE GivesUp
    <3>1. ~Relay(outbox'[s].message)
      BY <2>1, NotRelayed DEF GivesUp, Ends
    <3> QED  BY <3>1, Unordered DEF SentInOrder
  <2>2. CASE Fades
    <3>1. DOMAIN outbox' \subseteq DOMAIN outbox /\ \A t \in DOMAIN outbox' : outbox'[t] = outbox[t]
      BY <2>2, Zenon DEF Fades, Without, Restrict
    <3>2. SentInOrder(s) /\ outbox'[s] = outbox[s]
      BY <3>1 DEF OrderInv
    <3>3. Spent(outbox[s].message)'
      BY <1>1, <3>2 DEF SentInOrder, Spent
    <3> QED  BY <1>1, <3>1, <3>2, <3>3 DEF SentInOrder
  <2> QED  BY <2>1, <2>2
<1> QED  BY <1>1, <1>2 DEF OrderInv, InOrder, Spent

LEMMA OrderClient ==
    ASSUME Types, MailInv, OrderInv, NEW c \in Clients, ClientDoes(c)
    PROVE  OrderInv'
<1> DEFINE Somewhere(n) == \/ \E q \in Queues : \E k \in DOMAIN queue[q] : n = queue[q][k]
                           \/ \E s \in DOMAIN outbox : n = outbox[s].message
<1>1. UNCHANGED outbox /\ Server \in Queues /\ Clients \subseteq Queues /\ Server \notin Clients
  BY ChatAssumption, Zenon DEF ClientDoes, SendsInit, Orders, Stops, Reads, Passes, Joins, ServerStays, Queues
<1>2. left \in [Clients -> Nat]
  BY Zenon DEF Types, TypeOK
<1>3. ASSUME NEW n, Somewhere(n)
      PROVE  Spent(n) /\ n \in Messages /\ (Relay(n) => n.from \in Clients)
  <2>1. ASSUME NEW q \in Queues, NEW k \in DOMAIN queue[q], n = queue[q][k]
        PROVE  Spent(n) /\ n \in Messages /\ (Relay(n) => n.from \in Clients)
    <3>1. Spent(n) /\ n \in Messages
      BY <2>1, QueueTypes DEF OrderInv, InOrder
    <3> QED  BY <2>1, <3>1 DEF MailInv, ServersMail, ClientsMail, Queues
  <2>2. ASSUME NEW s \in DOMAIN outbox, n = outbox[s].message
        PROVE  Spent(n) /\ n \in Messages /\ (Relay(n) => n.from \in Clients)
    BY <2>2, Zenon DEF OrderInv, SentInOrder, Types, TypeOK, MailInv, ClientsMail
  <2> QED  BY <1>3, <2>1, <2>2
<1>4. ASSUME NEW m, More(Server, m), Spent(m)', \A n : Somewhere(n) => Spent(n)' /\ Later(m, n)
      PROVE  OrderInv'
  <2>1. /\ \A d \in Clients : queue'[d] = queue[d]
        /\ Len(queue'[Server]) \notin DOMAIN queue[Server] /\ queue'[Server][Len(queue'[Server])] = m
        /\ DOMAIN queue'[Server] = DOMAIN queue[Server] \cup {Len(queue'[Server])}
        /\ \A k \in DOMAIN queue[Server] : /\ k < Len(queue'[Server]) /\ k \in Nat
                                           /\ queue'[Server][k] = queue[Server][k]
        /\ Len(queue'[Server]) \in Nat
    <3>1. Len(queue'[Server]) \in Nat
      <4>1. PICK new : new = queue'[Server] /\ new \in Seq(Messages)
        BY <1>1, <1>4 DEF More
      <4> QED  BY <4>1
    <3>2. \A k \in DOMAIN queue[Server] : k \in Nat
      BY <1>1, QueueTypes
    <3> QED  BY <1>1, <1>4, <3>1, <3>2, MoreKeeps
  <2>2. ASSUME NEW d \in Clients  PROVE InOrder(d)'
    <3>1. InOrder(d) /\ queue'[d] = queue[d]
      BY <1>1, <2>1 DEF OrderInv
    <3>2. \A k \in DOMAIN queue[d] : Spent(queue[d][k])'
      BY <1>1, <1>4, <2>1
    <3> QED  BY <3>1, <3>2 DEF InOrder
  <2>3. InOrder(Server)'
    <3>1. InOrder(Server)
      BY <1>1 DEF OrderInv
    <3>2. \A k \in DOMAIN queue'[Server] : Spent(queue[Server][k])'
      <4>1. ASSUME NEW k \in DOMAIN queue[Server]
            PROVE  Relay(queue[Server][k]) => queue[Server][k].m_text > left'[queue[Server][k].from]
        <5>1. Somewhere(queue[Server][k])
          BY <1>1
        <5> QED  BY <1>4, <5>1 DEF Spent
      <4> QED  BY <1>4, <2>1, <4>1 DEF Spent
    <3>3. ASSUME NEW k \in DOMAIN queue'[Server], NEW j \in DOMAIN queue'[Server], j < k
          PROVE  Later(queue'[Server][k], queue'[Server][j])
      <4>1. j \in DOMAIN queue[Server]
        BY <2>1, <3>3
      <4> QED  BY <1>1, <1>4, <2>1, <3>1, <3>3, <4>1 DEF InOrder
    <3> QED  BY <3>2, <3>3 DEF InOrder
  <2>4. ASSUME NEW d \in Clients, NEW j \in DOMAIN queue'[d], NEW k \in DOMAIN queue'[Server]
        PROVE  Later(queue'[Server][k], queue'[d][j])
    BY <1>1, <1>4, <2>1, <2>4 DEF OrderInv
  <2>5. ASSUME NEW s \in DOMAIN outbox'  PROVE SentInOrder(s)'
    <3>1. SentInOrder(s) /\ outbox'[s] = outbox[s]
      BY <1>1 DEF OrderInv
    <3>2. Spent(outbox[s].message)' /\ Later(m, outbox[s].message)
      BY <1>1, <1>4
    <3>3. \A k \in DOMAIN queue'[Server] : Later(queue'[Server][k], outbox[s].message)
      BY <2>1, <3>1, <3>2 DEF SentInOrder
    <3> QED  BY <1>1, <2>1, <3>1, <3>2, <3>3 DEF SentInOrder
  <2> QED  BY <2>2, <2>3, <2>4, <2>5 DEF OrderInv, Queues
<1>5. ASSUME NEW g, Kept(g), UNCHANGED left
      PROVE  OrderInv'
  <2>1. /\ \A q \in Queues : InOrder(q)'
        /\ \A d \in Clients : \A j \in DOMAIN queue'[d], i \in DOMAIN queue'[Server] :
              Later(queue'[Server][i], queue'[d][j])
    BY <1>5, OrderKept DEF Spent
  <2>2. ASSUME NEW s \in DOMAIN outbox'  PROVE SentInOrder(s)'
    <3>1. SentInOrder(s) /\ outbox'[s] = outbox[s]
      BY <1>1 DEF OrderInv
    <3>2. Spent(outbox[s].message)'
      BY <1>5, <3>1 DEF SentInOrder, Spent
    <3>3. \A k \in DOMAIN queue'[Server] : Later(queue'[Server][k], outbox[s].message)
      BY <1>1, <1>5, <3>1 DEF SentInOrder, Kept
    <3>4. outbox[s].to \in Clients =>
            \A k \in DOMAIN queue'[outbox[s].to] : Later(outbox[s].message, queue'[outbox[s].to][k])
      BY <1>1, <1>5, <3>1 DEF SentInOrder, Kept
    <3> QED  BY <1>1, <3>1, <3>2, <3>3, <3>4 DEF SentInOrder
  <2> QED  BY <2>1, <2>2 DEF OrderInv
<1> HIDE DEF Somewhere
<1>6. CASE Orders(c)
  <2>1. PICK type, receiver : More(Server, FromClient(c, type, receiver))
    BY <1>6 DEF Orders
  <2>2. PICK m : m = FromClient(c, type, receiver) /\ m.from = c /\ m.m_text = left[c]
    BY FromClientFields
  <2>3. left[c] > 0 /\ left' = [left EXCEPT ![c] = @ - 1]
    BY <1>6 DEF Orders
  <2>4. left'[c] = left[c] - 1 /\ left[c] \in Nat /\ \A d \in Clients : d # c => left'[d] = left[d]
    BY <1>2, <2>3
  <2>5. Spent(m)'
    BY <2>2, <2>4 DEF Spent
  <2>6. ASSUME NEW n, Somewhere(n)
        PROVE  Spent(n)' /\ Later(m, n)
    <3>1. Spent(n) /\ n.m_text \in Nat /\ (Relay(n) => n.from \in Clients)
      BY <1>3, <2>6, TableTypes
    <3>2. Spent(n)'
      BY <1>2, <2>4, <3>1 DEF Spent
    <3>3. Later(m, n)
      BY <2>2, <2>4, <3>1 DEF Spent, Later, SameKind, Relay
    <3> QED  BY <3>2, <3>3
  <2> QED  BY <1>4, <2>1, <2>2, <2>5, <2>6
<1>7. CASE SendsInit(c) \/ Stops(c)
  <2>1. PICK type \in {INIT, STOP} : More(Server, FromClient(c, type, 0)) /\ UNCHANGED left
    BY <1>7 DEF SendsInit, Stops
  <2>2. PICK m : m = FromClient(c, type, 0) /\ m.order = type
    BY FromClientFields
  <2>3. ~Relay(m)
    BY <2>2 DEF Relay, STOP, INIT, _2ALL, _2ONE
  <2>4. ASSUME NEW n, Somewhere(n)
        PROVE  Spent(n)' /\ Later(m, n)
    BY <1>3, <2>1, <2>3, <2>4, Unordered DEF Spent
  <2> QED  BY <1>4, <2>1, <2>2, <2>3, <2>4, Unordered
<1>8. CASE Reads(c)
  <2>1. Fewer(c, {}) /\ UNCHANGED left
    BY <1>8 DEF Reads
  <2> QED  BY <1>1, <1>5, <2>1, KeptByFewer
<1>9. CASE Passes(c)
  BY <1>5, <1>9, KeptByNone DEF Passes
<1>10. ASSUME NEW k \in DOMAIN queue[c], Joins(c, k)
       PROVE  OrderInv'
  <2>1. Fewer(c, {k}) /\ UNCHANGED left
    BY <1>10 DEF Joins
  <2> QED  BY <1>1, <1>5, <2>1, KeptByFewer
<1> QED  BY <1>6, <1>7, <1>8, <1>9, <1>10 DEF ClientDoes
-----------------------------------------------------------------------------
(* The types.                                                              *)

LEMMA QueuesTyped ==
    ASSUME Types, NEW q \in Queues, NEW gone, NEW m, Fewer(q, gone) \/ More(q, m) \/ UNCHANGED queue
    PROVE  /\ queue' \in [Queues -> Seq(Messages)]
           /\ \A p \in Clients \cup {Server} : /\ Len(queue'[p]) <= QueueSize
                                               /\ \A k \in DOMAIN queue'[p] : queue'[p][k] \in Messages
<1>1. queue' \in [Queues -> Seq(Messages)]
  BY Zenon DEF Fewer, More, Types
<1>2. \A p \in Queues : Len(queue[p]) <= QueueSize /\ Len(queue[p]) \in Nat
  BY QueueTypes, Zenon DEF Types, TypeOK, Queues
<1>3. ASSUME NEW p \in Queues
      PROVE  Len(queue'[p]) <= QueueSize /\ \A k \in DOMAIN queue'[p] : queue'[p][k] \in Messages
  <2>1. PICK new : new = queue'[p] /\ new \in Seq(Messages)
    BY <1>1
  <2>2. \A k \in DOMAIN new : new[k] \in Messages /\ Len(new) \in Nat
    BY <2>1
  <2>3. Len(new) \in Nat
    BY <2>1
  <2>4. Len(queue'[p]) <= QueueSize
    <3>1. CASE Fewer(q, gone)
      <4>1. Len(queue'[p]) <= Len(queue[p])
        <5>1. p # q => queue'[p] = queue[p]
          BY <3>1 DEF Fewer
        <5>2. Len(queue'[q]) <= Len(queue[q])
          BY <3>1 DEF Fewer
        <5>3. Len(queue[p]) <= Len(queue[p])
          BY <1>2
        <5> QED  BY <5>1, <5>2, <5>3
      <4>2. Len(queue'[p]) \in Nat /\ QueueSize \in Nat
        BY <2>1, <2>3, ChatAssumption
      <4> QED  BY <1>2, <4>1, <4>2
    <3>2. CASE More(q, m)
      BY <1>2, <3>2 DEF More
    <3>3. CASE UNCHANGED queue
      BY <1>2, <3>3
    <3> QED  BY <3>1, <3>2, <3>3
  <2> QED  BY <2>1, <2>2, <2>4
<1> QED  BY <1>1, <1>3 DEF Queues

LEMMA FromServerTyped ==
    ASSUME NEW type \in {STOP, LIST, INIT}, NEW id \in Slots, NEW asker \in Queues
    PROVE  FromServer(type, id, asker) \in Messages
BY Types5, Zero DEF FromServer, Message, Messages, Queues

LEMMA TypesHandles ==
    ASSUME Types, MailInv,
           NEW k \in DOMAIN queue[Server], NEW m \in Messages, Handles(k, m), Answers(m)
    PROVE  Types'
<1>1. /\ queue' \in [Queues -> Seq(Messages)]
      /\ \A p \in Clients \cup {Server} : /\ Len(queue'[p]) <= QueueSize
                                          /\ \A i \in DOMAIN queue'[p] : queue'[p][i] \in Messages
  <2>1. Server \in Queues /\ Fewer(Server, {k})
    BY DEF Queues, Handles
  <2> QED  BY <2>1, QueuesTyped
<1>2. /\ m.from \in Clients /\ m.sender_id \in Slots /\ m.receiver_id \in Slots /\ m.m_text \in Nat
      /\ m.m_type \in STOP..INIT
  BY Types5, TableTypes DEF Handles, MailInv, ServersMail
<1>3. /\ connected_clients \in [Slots -> Clients \cup {Free, NoQueue}]
      /\ zero \in Clients \cup {Free, NoQueue}
  BY TableTypes
<1>4. /\ connected_clients' \in [Slots -> Clients \cup {Free, NoQueue}]
      /\ zero' \in Clients \cup {Free, NoQueue}
      /\ server' \in {"running", "exiting", "gone"}
  BY <1>2, <1>3, Zenon DEF Handles, Answers, Ends, Lists, Relays, Frees, Admits, Ignores
<1>5. /\ DOMAIN outbox' \subseteq Slots
      /\ \A s \in DOMAIN outbox' : /\ outbox'[s].to \in Clients \cup {Free, NoQueue}
                                   /\ outbox'[s].message \in Messages
  <2>1. CASE Ends
    BY <2>1, FromServerTyped, Zero DEF Ends, Queues
  <2>2. CASE Lists(m)
    BY <1>2, <1>3, <2>2, FromServerTyped, Zero DEF Lists, Queues
  <2>3. CASE Admits(m)
    BY <1>2, <2>3, FromServerTyped DEF Admits, Queues
  <2>4. CASE Frees(m) \/ Ignores(m)
    BY <2>4, Zenon DEF Frees, Ignores, Types, TypeOK
  <2>5. CASE Relays(m)
    <3>1. \A s \in Slots : Message(_2ONE, m.sender_id, s, m.m_text, m.from, m.m_type) \in Messages
      BY <1>2, Types5 DEF Message, Messages
    <3> QED  BY <1>3, <2>5, <3>1 DEF Relays, Connected
  <2> QED  BY <2>1, <2>2, <2>3, <2>4, <2>5 DEF Answers
<1>6. UNCHANGED <<exists, pc, client_id, left, program>>
  BY DEF Handles, ClientsStay
<1> QED  BY <1>1, <1>4, <1>5, <1>6, Zenon DEF Types, TypeOK

LEMMA TypesServer ==
    ASSUME Types, (\E s \in Slots : Delivers(s)) \/ GivesUp \/ Fades
    PROVE  Types'
<1>1. /\ queue' \in [Queues -> Seq(Messages)]
      /\ \A p \in Clients \cup {Server} : /\ Len(queue'[p]) <= QueueSize
                                          /\ \A i \in DOMAIN queue'[p] : queue'[p][i] \in Messages
  <2>1. ASSUME NEW s \in Slots, Delivers(s)
        PROVE  \E q \in Queues : \E m : More(q, m)
    BY <2>1 DEF Delivers, Queues
  <2>2. UNCHANGED queue \/ \E q \in Queues : \E m : More(q, m)
    BY <2>1 DEF GivesUp, Fades
  <2>3. Server \in Queues
    BY DEF Queues
  <2> QED  BY <2>2, <2>3, QueuesTyped, Zenon
<1>2. /\ DOMAIN outbox' \subseteq Slots
      /\ \A s \in DOMAIN outbox' : /\ outbox'[s].to \in Clients \cup {Free, NoQueue}
                                   /\ outbox'[s].message \in Messages
  <2>1. CASE GivesUp
    BY <2>1, FromServerTyped, Zero DEF GivesUp, Ends, Queues
  <2>2. CASE (\E s \in Slots : Delivers(s)) \/ Fades
    <3>1. DOMAIN outbox' \subseteq DOMAIN outbox /\ \A s \in DOMAIN outbox' : outbox'[s] = outbox[s]
      BY <2>2, Zenon DEF Delivers, Fades, Without, Restrict
    <3> QED  BY <3>1, Zenon DEF Types, TypeOK
  <2> QED  BY <2>1, <2>2
<1>3. /\ UNCHANGED <<connected_clients, zero, exists, pc, client_id, left, program>>
      /\ server' \in {"running", "exiting", "gone"}
  BY Zenon DEF Delivers, GivesUp, Ends, Fades, ClientsStay, Types, TypeOK
<1> QED  BY <1>1, <1>2, <1>3, Zenon DEF Types, TypeOK

LEMMA TypesClient ==
    ASSUME Types, NEW c \in Clients, ClientDoes(c)
    PROVE  Types'
<1>1. /\ queue' \in [Queues -> Seq(Messages)]
      /\ \A p \in Clients \cup {Server} : /\ Len(queue'[p]) <= QueueSize
                                          /\ \A i \in DOMAIN queue'[p] : queue'[p][i] \in Messages
  <2>1. Server \in Queues /\ c \in Queues
    BY DEF Queues
  <2>2. \E gone, m : Fewer(c, gone) \/ More(Server, m) \/ UNCHANGED queue
    BY Zenon DEF ClientDoes, SendsInit, Orders, Stops, Reads, Passes, Joins
  <2> QED  BY <2>1, <2>2, QueuesTyped
<1>2. ServerStays /\ pc' \in [Clients -> [parent : ParentPlaces, child : ChildPlaces]]
  BY Zenon DEF ClientDoes, SendsInit, Orders, Stops, Reads, Passes, Joins, Goes, Moves
<1>3. exists \in [Clients -> BOOLEAN] /\ client_id \in [Clients -> Slots] /\ left \in [Clients -> Nat]
  BY Zenon DEF Types, TypeOK
<1>4. exists' \in [Clients -> BOOLEAN]
  BY <1>3, Zenon DEF ClientDoes, SendsInit, Orders, Stops, Reads, Passes, Joins
<1>5. client_id' \in [Clients -> Slots]
  BY <1>3, Zenon DEF ClientDoes, SendsInit, Orders, Stops, Reads, Passes, Joins
<1>6. left' \in [Clients -> Nat]
  <2>1. CASE Orders(c)
    <3>1. left[c] \in Nat /\ left[c] > 0 /\ left' = [left EXCEPT ![c] = left[c] - 1]
      BY <1>3, <2>1 DEF Orders
    <3>2. left[c] - 1 \in Nat
      BY <3>1
    <3> QED  BY <1>3, <3>1, <3>2
  <2>2. CASE ~Orders(c)
    BY <1>3, <2>2, Zenon DEF ClientDoes, SendsInit, Stops, Reads, Passes, Joins
  <2> QED  BY <2>1, <2>2
<1> QED  BY <1>1, <1>2, <1>4, <1>5, <1>6, Zenon DEF Types, TypeOK, ServerStays

LEMMA ChildlessKept ==
    ASSUME Types, Childless, Kinds
    PROVE  Childless'
<1>1. CASE ServerTakes \/ (\E s \in Slots : Delivers(s)) \/ GivesUp \/ Fades
  <2>1. UNCHANGED <<pc, program>>
    BY <1>1, Zenon DEF ServerTakes, Handles, Delivers, GivesUp, Fades, ClientsStay
  <2> QED  BY <2>1 DEF Childless
<1>2. ASSUME NEW c \in Clients, ClientDoes(c)
      PROVE  Childless'
  <2>1. \A d \in Clients : d # c => pc'[d] = pc[d]
    BY <1>2, Zenon DEF ClientDoes, SendsInit, Orders, Stops, Reads, Passes, Joins, Goes, Moves
  <2>2. UNCHANGED program
    BY <1>2, Zenon DEF ClientDoes, SendsInit, Orders, Stops, Reads, Passes, Joins, ServerStays
  <2>3. CASE Goes(c)
    BY <2>1, <2>2, <2>3 DEF Goes, Childless
  <2>4. CASE SendsInit(c)
    <3>1. pc'[c].parent = "await_init" /\ pc'[c].child = "none"
      BY <2>4, Places DEF SendsInit
    <3> QED  BY <2>1, <2>2, <3>1 DEF Childless
  <2>5. CASE \E k \in DOMAIN queue[c] : Joins(c, k)
    BY <2>1, <2>2, <2>5 DEF Joins, Childless
  <2> QED  BY <1>2, <2>3, <2>4, <2>5 DEF ClientDoes, Orders, Stops, Reads, Passes
<1> QED  BY <1>1, <1>2 DEF Kinds
-----------------------------------------------------------------------------
(* The members of the POSIX chat.                                          *)

LEMMA StopsKept ==
    ASSUME NEW g, Kept(g), NEW c \in Clients
    PROVE  /\ \A k \in StopsOf(c)' : g[Server][k] \in StopsOf(c)
           /\ (\A j, k \in StopsOf(c) : j = k) => (\A j, k \in StopsOf(c)' : j = k)
<1>1. Server \in Queues
  BY DEF Queues
<1>2. \A k \in StopsOf(c)' : g[Server][k] \in StopsOf(c) /\ k \in DOMAIN queue'[Server] /\ k \in Nat
  BY <1>1 DEF Kept, StopsOf
<1>3. ASSUME \A j, k \in StopsOf(c) : j = k, NEW j \in StopsOf(c)', NEW k \in StopsOf(c)', j < k
      PROVE  FALSE
  <2>1. g[Server][j] < g[Server][k] /\ g[Server][j] = g[Server][k] /\ g[Server][k] \in Nat
    BY <1>1, <1>2, <1>3 DEF Kept
  <2> QED  BY <2>1
<1>4. ASSUME \A j, k \in StopsOf(c) : j = k, NEW j \in StopsOf(c)', NEW k \in StopsOf(c)'
      PROVE  j = k
  <2>1. j \in Nat /\ k \in Nat
    BY <1>2
  <2> QED  BY <1>3, <1>4, <2>1
<1> QED  BY <1>2, <1>4

\* A handler that takes no client of this one out of the table.
LEMMA MembersHandle ==
    ASSUME UNCHANGED <<pc, client_id>>, NEW d \in Clients, MembersOf(d),
           NEW g, Kept(g), queue'[d] = queue[d],
           \A s : connected_clients[s] = d => connected_clients'[s] = d,
           \A s \in SendsReply(d)' : connected_clients'[outbox'[s].message.sender_id] = d
    PROVE  MembersOf(d)'
<1>1. Server \in Queues
  BY DEF Queues
<1>2. Seated(d) => Seated(d)'
  BY DEF Seated
<1>3. Replies(d)' = Replies(d)
  BY DEF Replies
<1>4. \A k \in DOMAIN queue'[Server] : \E j \in DOMAIN queue[Server] : queue'[Server][k] = queue[Server][j]
  BY <1>1 DEF Kept
<1>5. \A k \in DOMAIN queue'[Server] :
          LET m == queue'[Server][k]
          IN m.from = d /\ m.m_type # INIT =>
                m.sender_id = client_id[d] /\ (pc[d].child # "none" => Seated(d))
  BY <1>4 DEF MembersOf
<1>6. \A k \in StopsOf(d)' : pc[d].parent \in {"removing", "gone"} /\ \A j \in StopsOf(d)' : j = k
  BY StopsKept DEF MembersOf
<1> QED  BY <1>2, <1>3, <1>5, <1>6 DEF MembersOf


LEMMA MembersHandles ==
    ASSUME Types, JoinInv, MailInv, MembersInv, Calm, Calm', server' = "running",
           NEW k \in DOMAIN queue[Server], NEW m \in Messages, Handles(k, m), Answers(m)
    PROVE  MembersInv'
<1>1. /\ server = "running" /\ DOMAIN outbox = {} /\ m = queue[Server][k]
      /\ UNCHANGED <<pc, client_id>>
      /\ zero = NoQueue /\ \A d \in Clients : MembersOf(d) /\ Joining(d)
  BY DEF Handles, ClientsStay, MembersInv, JoinInv
<1>2. PICK g : Kept(g) /\ \A i \in DOMAIN queue'[Server] : g[Server][i] # k
  <2>1. Server \in Queues /\ Fewer(Server, {k})
    BY DEF Queues, Handles
  <2> QED  BY <2>1, KeptByFewer
<1>3. \A d \in Clients : queue'[d] = queue[d]
  BY ChatAssumption DEF Handles, Fewer, Queues
<1>4. m.from \in Clients /\ m.sender_id \in Slots
  BY <1>1, TableTypes DEF MailInv, ServersMail
<1>5. CASE Lists(m) \/ Relays(m) \/ Ignores(m)
  <2>1. UNCHANGED <<connected_clients, zero>>
    BY <1>5 DEF Lists, Relays, Ignores
  <2>2. \A s \in DOMAIN outbox' : outbox'[s].message.m_type # INIT
    BY <1>1, <1>5, MessageFields, FromServerFields DEF Lists, Relays, Ignores, LIST, _2ONE, INIT
  <2>3. \A d \in Clients : SendsReply(d)' = {}
    BY <2>2 DEF SendsReply
  <2>4. \A d \in Clients : MembersOf(d)'
    BY <1>1, <1>2, <1>3, <2>1, <2>3, MembersHandle
  <2> QED  BY <1>1, <2>1, <2>2, <2>4 DEF MembersInv
<1>6. CASE Admits(m)
  <2>1. PICK s \in Slots, found \in {m.from, NoQueue} :
          /\ connected_clients[s] = Free
          /\ DOMAIN outbox' = {s} /\ outbox'[s].to = found
          /\ outbox'[s].message = FromServer(INIT, s, m.from)
          /\ connected_clients' = [connected_clients EXCEPT ![s] = found] /\ UNCHANGED zero
    BY <1>1, <1>6, Zenon DEF Admits, Free, NoQueue
  <2>2. outbox'[s].message.sender_id = s /\ connected_clients'[s] = found
    BY <2>1, FromServerFields, TableTypes
  <2>3. ASSUME NEW d \in Clients  PROVE MembersOf(d)'
    <3>1. \A t : connected_clients[t] = d => connected_clients'[t] = d
      BY <2>1, ChatAssumption, TableTypes
    <3>2. \A t \in SendsReply(d)' : connected_clients'[outbox'[t].message.sender_id] = d
      BY <2>1, <2>2 DEF SendsReply
    <3> QED  BY <1>1, <1>2, <1>3, <3>1, <3>2, MembersHandle
  <2> QED  BY <1>1, <2>1, <2>3 DEF MembersInv
<1>7. CASE Frees(m)
  <2>1. PICK c \in Clients : c = m.from
    BY <1>4
  <2>2. k \in StopsOf(c) /\ m.m_type = STOP /\ m.m_type # INIT
    BY <1>1, <1>7, <2>1 DEF Frees, StopsOf, STOP, INIT
  <2>3. /\ pc[c].parent \in {"removing", "gone"} /\ \A j \in StopsOf(c) : j = k
        /\ m.sender_id = client_id[c] /\ (pc[c].child # "none" => connected_clients[m.sender_id] = c)
    BY <1>1, <2>1, <2>2 DEF MembersOf, Seated
  <2>a. \A i \in DOMAIN queue'[Server] : \E j \in DOMAIN queue[Server] : j # k /\ queue'[Server][i] = queue[Server][j]
    BY <1>2 DEF Kept, Queues
  <2>b. StopsOf(c)' = {}
    BY <2>3, <2>a DEF StopsOf
  <2>c. connected_clients[m.sender_id] = c
    <3>1. ~Strays(c)'
      BY DEF Calm
    <3> QED  BY <1>1, <2>3, <2>b, <3>1 DEF Strays
  <2>4. UNCHANGED <<zero, outbox>> /\ connected_clients' = [connected_clients EXCEPT ![m.sender_id] = Free]
    BY <1>7, <2>c, ChatAssumption DEF Frees
  <2>5. \A d \in Clients : SendsReply(d)' = {}
    BY <1>1, <2>4 DEF SendsReply
  <2>6. ASSUME NEW d \in Clients, d # c  PROVE MembersOf(d)'
    <3>1. \A t : connected_clients[t] = d => connected_clients'[t] = d
      BY <2>4, <2>6, <2>c, TableTypes
    <3> QED  BY <1>1, <1>2, <1>3, <2>5, <3>1, MembersHandle
  <2>7. MembersOf(c)'
    <3>1. \A j \in DOMAIN queue[Server] : queue[Server][j].m_type = STOP
      <4>1. \A j \in DOMAIN queue[Server] : queue[Server][j].m_type <= STOP
        BY <2>2 DEF Handles, Calm
      <4>2. \A j \in DOMAIN queue[Server] : queue[Server][j].m_type \in {STOP, LIST, _2ALL, _2ONE, INIT}
        BY QueueTypes, TableTypes DEF Queues
      <4> QED  BY <4>1, <4>2 DEF STOP, LIST, _2ALL, _2ONE, INIT
    <3>2. \A i \in DOMAIN queue'[Server] : queue'[Server][i].from # c
      BY <2>3, <2>a, <3>1 DEF StopsOf
    <3> QED  BY <1>1, <2>3, <2>5, <2>b, <3>2 DEF MembersOf
  <2>9. \A d \in Clients : MembersOf(d)'
    BY <2>6, <2>7
  <2> QED  BY <1>1, <2>4, <2>9 DEF MembersInv
<1>8. ~Ends
  BY DEF Ends
<1> QED  BY <1>5, <1>6, <1>7, <1>8 DEF Answers

LEMMA MembersDelivers ==
    ASSUME Types, MembersInv, Calm, server' = "running", NEW s \in Slots, Delivers(s)
    PROVE  MembersInv'
<1>1. /\ server = "running" /\ s \in DOMAIN outbox /\ outbox[s].to \in Clients
      /\ UNCHANGED <<connected_clients, zero, pc, client_id>>
      /\ More(outbox[s].to, outbox[s].message)
      /\ zero = NoQueue /\ \A d \in Clients : MembersOf(d)
  BY DEF Delivers, ClientsStay, MembersInv
<1>2. PICK c, m : c \in Clients /\ c = outbox[s].to /\ m = outbox[s].message
  BY <1>1
<1>3. DOMAIN outbox' \subseteq DOMAIN outbox /\ \A t \in DOMAIN outbox' : outbox'[t] = outbox[t]
  BY DEF Delivers, Without, Restrict
<1>4. /\ queue'[Server] = queue[Server] /\ \A d \in Clients : d # c => queue'[d] = queue[d]
      /\ DOMAIN queue'[c] = DOMAIN queue[c] \cup {Len(queue'[c])} /\ queue'[c][Len(queue'[c])] = m
      /\ \A k \in DOMAIN queue[c] : queue'[c][k] = queue[c][k]
  <2>1. c \in Queues /\ More(c, m) /\ Server \in Queues /\ c # Server /\ Clients \subseteq Queues
    BY <1>1, <1>2, ChatAssumption DEF Queues
  <2> QED  BY <2>1, MoreKeeps
<1>5. ASSUME NEW d \in Clients  PROVE MembersOf(d)'
  <2>1. StopsOf(d)' = StopsOf(d) /\ (Seated(d)' <=> Seated(d))
    BY <1>1, <1>4 DEF StopsOf, Seated
  <2>2. \A t \in SendsReply(d)' : t \in SendsReply(d) /\ outbox'[t] = outbox[t]
    BY <1>3 DEF SendsReply
  <2>3. ASSUME pc[d].parent = "await_init", NEW k \in Replies(d)'
        PROVE  connected_clients[queue'[d][k].sender_id] = d
    <3>1. CASE d = c /\ k = Len(queue'[c])
      <4>1. s \in SendsReply(c)
        BY <1>1, <1>2, <1>4, <2>3, <3>1 DEF SendsReply, Replies
      <4> QED  BY <1>1, <1>2, <1>4, <3>1, <4>1 DEF MembersOf
    <3>2. CASE ~(d = c /\ k = Len(queue'[c]))
      <4>1. k \in Replies(d) /\ queue'[d][k] = queue[d][k]
        BY <1>4, <2>3, <3>2 DEF Replies
      <4> QED  BY <1>1, <2>3, <4>1 DEF MembersOf
    <3> QED  BY <3>1, <3>2
  <2> QED  BY <1>1, <1>4, <2>1, <2>2, <2>3 DEF MembersOf
<1> QED  BY <1>1, <1>5 DEF MembersInv

LEMMA ServerStopped ==
    ASSUME NEW m, More(Server, m), NEW d \in Clients
    PROVE  /\ \A k \in DOMAIN queue'[Server] :
                queue'[Server][k] = m \/ (k \in DOMAIN queue[Server] /\ queue'[Server][k] = queue[Server][k])
           /\ StopsOf(d)' \subseteq StopsOf(d) \cup {Len(queue'[Server])}
           /\ m.m_type # STOP \/ m.from # d => StopsOf(d)' = StopsOf(d)
<1>1. /\ Len(queue'[Server]) \notin DOMAIN queue[Server] /\ queue'[Server][Len(queue'[Server])] = m
      /\ DOMAIN queue'[Server] = DOMAIN queue[Server] \cup {Len(queue'[Server])}
      /\ \A k \in DOMAIN queue[Server] : queue'[Server][k] = queue[Server][k]
  <2>1. Server \in Queues
    BY DEF Queues
  <2> QED  BY <2>1, MoreKeeps
<1> QED  BY <1>1 DEF StopsOf

\* Who strays does so for good.
LEMMA StillAstray ==
    ASSUME Types, Kinds, Calm'
    PROVE  Calm
<1>1. ServerStays \/ ClientsStay
  BY Zenon DEF Kinds, ServerTakes, Handles, Delivers, GivesUp, Fades, ClientDoes, SendsInit, Orders, Stops, Reads,
               Passes, Joins
<1>2. program = "POSIX"
  BY <1>1 DEF ServerStays, ClientsStay, Calm
<1>3. Server \in Queues /\ Server \notin Clients
  BY ChatAssumption DEF Queues
<1>4. ASSUME NEW c \in Clients, Strays(c)
      PROVE  FALSE
  <2>1. CASE ServerTakes \/ (\E s \in Slots : Delivers(s)) \/ GivesUp \/ Fades
    <3>1. queue'[Server] = queue[Server] \/ \E k : Fewer(Server, {k})
      BY <1>3, <2>1 DEF ServerTakes, Handles, Delivers, More, GivesUp, Fades
    <3>2. \A k \in StopsOf(c)' : StopsOf(c) # {}
      <4>1. CASE queue'[Server] = queue[Server]
        BY <4>1 DEF StopsOf
      <4>2. ASSUME NEW k, Fewer(Server, {k})
            PROVE  \A i \in StopsOf(c)' : StopsOf(c) # {}
        <5>1. PICK g : Kept(g)
          BY <1>3, <4>2, KeptByFewer
        <5> QED  BY <5>1, StopsKept
      <4> QED  BY <3>1, <4>1, <4>2
    <3>3. UNCHANGED pc
      BY <2>1, Zenon DEF ServerTakes, Handles, Delivers, GivesUp, Fades, ClientsStay
    <3>4. Strays(c)'
      BY <1>4, <3>2, <3>3 DEF Strays
    <3> QED  BY <3>4 DEF Calm
  <2>2. ASSUME NEW d \in Clients, ClientDoes(d)
        PROVE  FALSE
    <3>1. CASE d # c
      <4>1. pc'[c] = pc[c]
        BY <2>2, <3>1, Zenon DEF ClientDoes, SendsInit, Orders, Stops, Reads, Passes, Joins, Goes, Moves
      <4>2. \/ queue'[Server] = queue[Server]
            \/ \E type, receiver : More(Server, FromClient(d, type, receiver))
        BY <1>3, <2>2 DEF ClientDoes, SendsInit, Orders, Stops, Reads, Passes, Joins, Fewer
      <4>3. StopsOf(c)' = StopsOf(c)
        <5>1. CASE queue'[Server] = queue[Server]
          BY <5>1 DEF StopsOf
        <5>2. ASSUME NEW type, NEW receiver, More(Server, FromClient(d, type, receiver))
              PROVE  StopsOf(c)' = StopsOf(c)
          <6>1. PICK m : m = FromClient(d, type, receiver) /\ m.from = d
            BY MessageFields DEF FromClient
          <6> QED  BY <3>1, <5>2, <6>1, ServerStopped
        <5> QED  BY <4>2, <5>1, <5>2
      <4>4. Strays(c)'
        BY <1>4, <4>1, <4>3 DEF Strays
      <4> QED  BY <4>4 DEF Calm
    <3>2. CASE d = c
      <4>1. pc[c].child = "none" /\ pc[c].parent \in {"removing", "gone"} /\ StopsOf(c) = {}
        BY <1>4 DEF Strays
      <4>2. Reads(c) \/ Passes(c)
        BY <1>2, <2>2, <3>2, <4>1 DEF ClientDoes, SendsInit, Orders, Stops, Joins
      <4>3. Goes(c) /\ queue'[Server] = queue[Server]
        BY <1>3, <4>2 DEF Reads, Passes, Fewer
      <4>4. pc'[c].child = "none" /\ pc'[c].parent \in {"removing", "gone"} /\ StopsOf(c)' = {}
        BY <1>2, <4>1, <4>3 DEF Goes, StopsOf
      <4>5. Strays(c)'
        BY <4>4 DEF Strays
      <4> QED  BY <4>5 DEF Calm
    <3> QED  BY <3>1, <3>2
  <2> QED  BY <2>1, <2>2 DEF Kinds
<1> QED  BY <1>2, <1>4 DEF Calm

LEMMA MembersClient ==
    ASSUME Types, Childless, JoinInv, MailInv, MembersInv, Calm, server' = "running",
           NEW c \in Clients, ClientDoes(c)
    PROVE  MembersInv'
<1>1. ServerStays /\ Moves(c) /\ \A d \in Clients : d # c => pc'[d] = pc[d]
  BY Zenon DEF ClientDoes, SendsInit, Orders, Stops, Reads, Passes, Joins, Goes, Moves
<1>2. /\ server = "running" /\ zero = NoQueue /\ UNCHANGED <<connected_clients, outbox, zero>>
      /\ \A d \in Clients : Joining(d) /\ MembersOf(d)
  BY <1>1 DEF ServerStays, JoinInv, MembersInv
<1>3. Server \in Queues /\ c \in Queues /\ c # Server /\ Clients \subseteq Queues
  BY ChatAssumption DEF Queues
<1>4. \A d \in Clients : SendsReply(d)' = SendsReply(d)
  BY <1>2 DEF SendsReply
<1>5. \/ queue'[Server] = queue[Server]
      \/ \E type, receiver : More(Server, FromClient(c, type, receiver))
  BY <1>3 DEF ClientDoes, SendsInit, Orders, Stops, Reads, Passes, Joins, Fewer
<1>6. ASSUME NEW d \in Clients, d # c  PROVE MembersOf(d)'
  <2>1. queue'[d] = queue[d]
    <3>1. d \in Queues /\ d # c /\ d # Server
      BY <1>3, <1>6, ChatAssumption
    <3> QED  BY <3>1 DEF ClientDoes, SendsInit, Orders, Stops, Reads, Passes, Joins, Fewer, More
  <2>2. client_id'[d] = client_id[d]
    BY <1>6, Zenon DEF ClientDoes, SendsInit, Orders, Stops, Reads, Passes, Joins, Types, TypeOK
  <2>3. pc'[d] = pc[d] /\ Replies(d)' = Replies(d)
    BY <1>1, <1>6, <2>1 DEF Replies
  <2>4. /\ StopsOf(d)' = StopsOf(d)
        /\ \A k \in DOMAIN queue'[Server] :
              queue'[Server][k].from = d => k \in DOMAIN queue[Server] /\ queue'[Server][k] = queue[Server][k]
    <3>1. CASE queue'[Server] = queue[Server]
      BY <3>1 DEF StopsOf
    <3>2. ASSUME NEW type, NEW receiver, More(Server, FromClient(c, type, receiver))
          PROVE  /\ StopsOf(d)' = StopsOf(d)
                 /\ \A k \in DOMAIN queue'[Server] :
                       queue'[Server][k].from = d
                       => k \in DOMAIN queue[Server] /\ queue'[Server][k] = queue[Server][k]
      <4>1. PICK m : m = FromClient(c, type, receiver) /\ m.from = c
        BY MessageFields DEF FromClient
      <4> QED  BY <1>6, <3>2, <4>1, ServerStopped
    <3> QED  BY <1>5, <3>1, <3>2
  <2>5. Seated(d)' <=> Seated(d)
    BY <1>2, <2>2 DEF Seated
  <2> QED  BY <1>2, <1>4, <2>1, <2>2, <2>3, <2>4, <2>5 DEF MembersOf
<1>7. MembersOf(c)'
  <2>1. MembersOf(c) /\ Joining(c)
    BY <1>2
  <2>2. CASE SendsInit(c)
    <3>1. PICK m : m = FromClient(c, INIT, 0) /\ m.from = c /\ m.m_type = INIT /\ m.m_type # STOP
      BY MessageFields DEF FromClient, INIT, STOP
    <3>2. /\ More(Server, m) /\ UNCHANGED client_id
          /\ pc[c].parent = "created" /\ pc'[c].parent = "await_init"
          /\ pc[c].child = "none" /\ pc'[c].child = "none"
      BY <2>2, <3>1, Places DEF SendsInit
    <3>3. DOMAIN queue'[c] = {} /\ Replies(c)' = {}
      BY <2>1, <3>2, ServerGets DEF Joining, UnknownYet, Replies
    <3>4. StopsOf(c)' = {}
      BY <2>1, <3>1, <3>2, ServerStopped DEF MembersOf
    <3>5. \A k \in DOMAIN queue'[Server] :
            queue'[Server][k].from = c => queue'[Server][k].m_type = INIT \/ queue'[Server][k].sender_id = client_id[c]
      BY <2>1, <3>1, <3>2, ServerStopped DEF MembersOf
    <3> QED  BY <1>2, <1>4, <2>1, <3>2, <3>3, <3>4, <3>5 DEF MembersOf
  <2>3. CASE Orders(c)
    <3>1. PICK type, receiver : type \in {LIST, _2ALL, _2ONE} /\ More(Server, FromClient(c, type, receiver))
      BY <2>3 DEF Orders
    <3>2. PICK m : /\ m = FromClient(c, type, receiver) /\ m.from = c /\ m.sender_id = client_id[c]
                   /\ m.m_type # INIT /\ m.m_type # STOP
      BY <3>1, MessageFields DEF FromClient, LIST, _2ALL, _2ONE, INIT, STOP
    <3>3. UNCHANGED client_id /\ pc[c].parent = "polling" /\ pc[c].child # "none" /\ Goes(c)
      BY <2>3 DEF Orders, Calm, Childless
    <3>4. pc'[c].child # "none" /\ pc'[c].parent # "await_init"
      BY <3>3 DEF Goes
    <3>5. Seated(c) /\ StopsOf(c) = {} /\ (Seated(c)' <=> Seated(c))
      BY <1>2, <2>1, <3>3 DEF MembersOf, Seated
    <3>6. StopsOf(c)' = {}
      BY <3>1, <3>2, <3>5, ServerStopped
    <3>7. \A k \in DOMAIN queue'[Server] :
            queue'[Server][k].from = c => queue'[Server][k].m_type = INIT \/ queue'[Server][k].sender_id = client_id[c]
      BY <2>1, <3>1, <3>2, ServerStopped DEF MembersOf
    <3> QED  BY <1>2, <1>4, <2>1, <3>3, <3>4, <3>5, <3>6, <3>7 DEF MembersOf
  <2>4. CASE Stops(c)
    <3>1. PICK m : /\ m = FromClient(c, STOP, 0) /\ m.from = c /\ m.sender_id = client_id[c]
                   /\ m.m_type # INIT
      BY MessageFields DEF FromClient, INIT, STOP
    <3>2. /\ More(Server, m) /\ UNCHANGED client_id
          /\ pc[c].parent = "stopping" /\ pc'[c].parent = "removing"
          /\ pc'[c].child = "none" <=> pc[c].child = "none"
      BY <2>4, <3>1 DEF Stops, Calm, Goes
    <3>3. (pc[c].child # "none" => Seated(c)) /\ StopsOf(c) = {} /\ (Seated(c)' <=> Seated(c))
      BY <1>2, <2>1, <3>2 DEF MembersOf, Seated
    <3>4. \A j, k \in StopsOf(c)' : j = k
      BY <3>1, <3>2, <3>3, ServerStopped
    <3>5. \A k \in DOMAIN queue'[Server] :
            queue'[Server][k].from = c => queue'[Server][k].m_type = INIT \/ queue'[Server][k].sender_id = client_id[c]
      BY <2>1, <3>1, <3>2, ServerStopped DEF MembersOf
    <3> QED  BY <1>2, <1>4, <2>1, <3>2, <3>3, <3>4, <3>5 DEF MembersOf
  <2>5. CASE Reads(c) \/ Passes(c)
    <3>1. /\ queue'[Server] = queue[Server] /\ UNCHANGED client_id /\ Goes(c)
          /\ pc[c].parent = "await_init" => UNCHANGED queue
      BY <1>3, <2>5 DEF Reads, Passes, Fewer
    <3>2. /\ pc'[c].parent = "await_init" => pc[c].parent = "await_init" /\ UNCHANGED queue
          /\ pc[c].parent \in {"removing", "gone"} => pc'[c].parent \in {"removing", "gone"}
          /\ pc'[c].parent \in {"polling", "stopping"} /\ pc[c].child # "none" =>
                pc[c].parent \in {"polling", "stopping"}
          /\ pc'[c].child = "none" <=> pc[c].child = "none"
      BY <3>1 DEF Goes, Calm
    <3>3. StopsOf(c)' = StopsOf(c) /\ (Seated(c)' <=> Seated(c))
      BY <1>2, <3>1 DEF StopsOf, Seated
    <3>4. pc'[c].parent = "await_init" => Replies(c)' = Replies(c) /\ queue'[c] = queue[c]
      BY <3>2 DEF Replies
    <3> QED  BY <1>2, <1>4, <2>1, <3>1, <3>2, <3>3, <3>4 DEF MembersOf
  <2>6. ASSUME NEW k \in DOMAIN queue[c], Joins(c, k)  PROVE MembersOf(c)'
    <3>1. /\ pc[c].parent = "await_init" /\ pc'[c].parent = "polling" /\ pc'[c].child # "none"
          /\ queue'[Server] = queue[Server] /\ pc[c].child = "none"
      BY <1>3, <2>6 DEF Joins, Fewer, Calm, Childless
    <3>2. k \in Replies(c)
      BY <2>1, <2>6, <3>1 DEF Joins, Joining, AnswerFirst, Replies
    <3>3. client_id'[c] = queue[c][k].sender_id
      BY <2>6, <3>2, Zenon DEF Joins, Replies, Types, TypeOK
    <3>4. Seated(c)'
      BY <1>2, <2>1, <3>1, <3>2, <3>3 DEF MembersOf, Seated
    <3>5. StopsOf(c) = {} /\ StopsOf(c)' = {}
      BY <2>1, <3>1 DEF MembersOf, StopsOf
    <3>6. \A j \in DOMAIN queue'[Server] : queue'[Server][j].from = c => queue'[Server][j].m_type = INIT
      BY <3>1, <3>5 DEF MailInv, ServersMail, StopsOf
    <3> QED  BY <1>2, <1>4, <2>1, <3>1, <3>4, <3>5, <3>6 DEF MembersOf
  <2> QED  BY <2>2, <2>3, <2>4, <2>5, <2>6 DEF ClientDoes
<1> QED  BY <1>2, <1>6, <1>7 DEF MembersInv
-----------------------------------------------------------------------------
(* The invariant.                                                          *)

ChatInv == Types /\ Childless /\ JoinInv /\ MailInv /\ OrderInv /\ MembersInv

LEMMA Beginning == ASSUME Begin PROVE ChatInv
<1>1. /\ program \in {"System V", "POSIX"} /\ zero = NoQueue
      /\ connected_clients = [s \in Slots |-> Free] /\ server = "running" /\ outbox = <<>>
      /\ queue = [q \in Queues |-> <<>>] /\ exists = [c \in Clients |-> FALSE]
      /\ pc = [c \in Clients |-> [parent |-> "start", child |-> "none"]]
      /\ client_id = [c \in Clients |-> 0] /\ left = MaxCommands
  BY PosixNames, Zenon DEF Begin, Posix!PosixInit, Posix!Init, Queues
<1>2. /\ DOMAIN outbox = {} /\ \A q \in Queues : DOMAIN queue[q] = {} /\ Len(queue[q]) = 0
      /\ queue \in [Queues -> Seq(Messages)]
  <2>1. PICK nothing : nothing = <<>>
    OBVIOUS
  <2>2. nothing \in Seq(Messages) /\ Len(nothing) = 0 /\ DOMAIN nothing = {}
    BY <2>1
  <2>3. outbox = nothing /\ queue = [q \in Queues |-> nothing]
    BY <1>1, <2>1, Zenon
  <2> QED  BY <2>2, <2>3
<1>3. Clients \subseteq Queues /\ Server \in Queues /\ Free \notin Clients /\ NoQueue \notin Clients
  BY ChatAssumption DEF Queues
<1>4. Types
  <2>1. /\ connected_clients \in [Slots -> Clients \cup {Free, NoQueue}]
        /\ server \in {"running", "exiting", "gone"}
        /\ exists \in [Clients -> BOOLEAN]
        /\ client_id \in [Clients -> Slots] /\ left \in [Clients -> Nat]
    BY <1>1, Zero, ChatAssumption, Zenon
  <2>2. QueueSize \in Nat /\ \A q \in Clients \cup {Server} : Len(queue[q]) <= QueueSize /\ DOMAIN queue[q] = {}
    BY <1>2, ChatAssumption DEF Queues
  <2>3. TypeOK
    BY <1>2, <2>1, <2>2 DEF TypeOK
  <2>4. [parent |-> "start", child |-> "none"] \in [parent : ParentPlaces, child : ChildPlaces]
    BY DEF ParentPlaces, ChildPlaces
  <2>5. pc \in [Clients -> [parent : ParentPlaces, child : ChildPlaces]]
    BY <1>1, <2>4, Zenon
  <2> QED  BY <1>1, <1>2, <2>3, <2>5, Zenon DEF Types
<1>5. \A c \in Clients : pc[c].parent = "start" /\ pc[c].child = "none"
  BY <1>1, Zenon
<1>6. \A c \in Clients : /\ Seats(c) = {} /\ Asks(c) = {} /\ Replies(c) = {} /\ SendsReply(c) = {}
                         /\ StopsOf(c) = {}
  BY <1>1, <1>2, <1>3, Zenon DEF Seats, Asks, Replies, SendsReply, StopsOf
<1>7. Childless
  BY <1>5 DEF Childless
<1>8. JoinInv
  <2>1. ASSUME NEW c \in Clients  PROVE Joining(c)
    <3>1. UnknownYet(c) /\ AsksOnce(c)
      BY <1>1, <1>2, <1>3, <1>6, Zenon DEF UnknownYet, AsksOnce, Known, Answered
    <3>2. OneSeat(c) /\ AnswerFirst(c)
      BY <1>2, <1>5, <1>6 DEF OneSeat, AnswerFirst
    <3> QED  BY <3>1, <3>2 DEF Joining
  <2> QED  BY <2>1 DEF JoinInv
<1>9. MailInv
  BY <1>2, <1>3 DEF MailInv
<1>10. OrderInv
  BY <1>2, <1>3 DEF OrderInv, InOrder
<1>11. MembersInv
  BY <1>1, <1>2, <1>3, <1>5, <1>6, Zenon DEF MembersInv, MembersOf
<1> QED  BY <1>4, <1>7, <1>8, <1>9, <1>10, <1>11 DEF ChatInv

LEMMA Inductive ==
    ASSUME ChatInv, Step
    PROVE  ChatInv'
<1>1. Types /\ Childless /\ JoinInv /\ MailInv /\ OrderInv /\ MembersInv
  BY DEF ChatInv
<1>2. Kinds
  BY <1>1, StepKinds
<1>3. Childless' /\ (Calm' => Calm)
  BY <1>1, <1>2, ChildlessKept, StillAstray
<1>4. ASSUME NEW k \in DOMAIN queue[Server], NEW m, m = queue[Server][k], Handles(k, m), Answers(m)
      PROVE  ChatInv'
  <2>1. m \in Messages
    BY <1>4 DEF Handles
  <2>2. Types' /\ MailInv' /\ OrderInv'
    BY <1>1, <1>4, <2>1, TypesHandles, MailHandles, OrderHandles
  <2>3. JoinInv'
    <3>1. CASE server' = "running"
      BY <1>1, <1>4, <2>1, <3>1, JoinHandles
    <3>2. CASE server' # "running"
      BY <3>2 DEF JoinInv
    <3> QED  BY <3>1, <3>2
  <2>4. MembersInv'
    <3>1. CASE Calm' /\ server' = "running"
      BY <1>1, <1>3, <1>4, <2>1, <3>1, MembersHandles
    <3>2. CASE ~(Calm' /\ server' = "running")
      BY <3>2 DEF MembersInv
    <3> QED  BY <3>1, <3>2
  <2> QED  BY <1>3, <2>2, <2>3, <2>4 DEF ChatInv
<1>5. ASSUME NEW s \in Slots, Delivers(s)
      PROVE  ChatInv'
  <2>1. Types' /\ MailInv' /\ OrderInv'
    BY <1>1, <1>5, TypesServer, MailDelivers, OrderDelivers
  <2>2. JoinInv'
    <3>1. CASE server' = "running"
      BY <1>1, <1>5, <3>1, JoinDelivers
    <3>2. CASE server' # "running"
      BY <3>2 DEF JoinInv
    <3> QED  BY <3>1, <3>2
  <2>3. MembersInv'
    <3>1. CASE Calm' /\ server' = "running"
      BY <1>1, <1>3, <1>5, <3>1, MembersDelivers
    <3>2. CASE ~(Calm' /\ server' = "running")
      BY <3>2 DEF MembersInv
    <3> QED  BY <3>1, <3>2
  <2> QED  BY <1>3, <2>1, <2>2, <2>3 DEF ChatInv
<1>6. ASSUME GivesUp \/ Fades
      PROVE  ChatInv'
  <2>1. Types' /\ MailInv' /\ OrderInv'
    BY <1>1, <1>6, TypesServer, MailFades, OrderFades
  <2>2. server' # "running"
    BY <1>6 DEF GivesUp, Fades, Ends
  <2> QED  BY <1>3, <2>1, <2>2 DEF ChatInv, JoinInv, MembersInv
<1>7. ASSUME NEW c \in Clients, ClientDoes(c)
      PROVE  ChatInv'
  <2>1. Types' /\ MailInv' /\ OrderInv'
    BY <1>1, <1>7, TypesClient, MailClient, OrderClient
  <2>2. JoinInv'
    <3>1. CASE server' = "running"
      BY <1>1, <1>7, <3>1, JoinClient
    <3>2. CASE server' # "running"
      BY <3>2 DEF JoinInv
    <3> QED  BY <3>1, <3>2
  <2>3. MembersInv'
    <3>1. CASE Calm' /\ server' = "running"
      BY <1>1, <1>3, <1>7, <3>1, MembersClient
    <3>2. CASE ~(Calm' /\ server' = "running")
      BY <3>2 DEF MembersInv
    <3> QED  BY <3>1, <3>2
  <2> QED  BY <1>3, <2>1, <2>2, <2>3 DEF ChatInv
<1>8. CASE ServerTakes
  BY <1>4, <1>8 DEF ServerTakes, Answers
<1> QED  BY <1>2, <1>5, <1>6, <1>7, <1>8 DEF Kinds

LEMMA Standing ==
    ASSUME ChatInv, UNCHANGED everything
    PROVE  ChatInv'
<1>1. /\ UNCHANGED <<connected_clients, server, outbox, queue, exists, pc, client_id, left, zero, program>>
  BY DEF everything, vars, serverVars, clientVars
<1>2. Types' /\ Childless'
  BY <1>1, Zenon DEF ChatInv, Types, TypeOK, Childless
<1>3. JoinInv'
  <2>1. ASSUME NEW c \in Clients, Joining(c)  PROVE Joining(c)'
    <3>1. /\ Seats(c)' = Seats(c) /\ Asks(c)' = Asks(c) /\ Replies(c)' = Replies(c)
          /\ SendsReply(c)' = SendsReply(c)
      BY <1>1 DEF Seats, Asks, Replies, SendsReply
    <3>2. (Known(c)' <=> Known(c)) /\ (Answered(c)' <=> Answered(c))
      BY <1>1, <3>1 DEF Known, Answered
    <3>3. UnknownYet(c)' /\ AsksOnce(c)'
      BY <1>1, <2>1, <3>1, <3>2 DEF Joining, UnknownYet, AsksOnce
    <3>4. OneSeat(c)' /\ AnswerFirst(c)'
      BY <1>1, <2>1, <3>1, <3>2 DEF Joining, OneSeat, AnswerFirst
    <3> QED  BY <3>3, <3>4 DEF Joining
  <2> QED  BY <1>1, <2>1 DEF ChatInv, JoinInv
<1>4. MailInv'
  BY <1>1 DEF ChatInv, MailInv, ServersMail
<1>5. OrderInv'
  BY <1>1 DEF ChatInv, OrderInv, InOrder, SentInOrder, Spent
<1>6. MembersInv'
  BY <1>1 DEF ChatInv, MembersInv, Calm, Strays, MembersOf, Seated, StopsOf, Replies, SendsReply
<1> QED  BY <1>2, <1>3, <1>4, <1>5, <1>6 DEF ChatInv

\* Both chats keep all of it in every step.
THEOREM ChatInvariant == Chats => []ChatInv
<1>1. Begin => ChatInv
  BY Beginning
<1>2. ChatInv /\ [Step]_everything => ChatInv'
  BY Inductive, Standing
<1> QED  BY <1>1, <1>2, PTL DEF Chats

\* Of both programs: the slots, queues and numbers stay what they are, and no queue gets
\* more messages than it has room for.
THEOREM ChatTypes == Chats => []TypeOK
BY ChatInvariant, PTL DEF ChatInv, Types

\* While the server runs, a client and the server agree on the client's slot, although slots
\* are used again and the number travels in a message.
THEOREM ChatIdentity == Chats => []IdentityConsistent
<1>1. ChatInv => IdentityConsistent
  <2>1. SUFFICES ASSUME ChatInv, server = "running", NEW c \in Clients, NEW s \in Slots, connected_clients[s] = c
        PROVE  \/ client_id[c] = s
               \/ /\ pc[c].child = "none"
                  /\ \A k \in DOMAIN queue[c] : queue[c][k].m_type = INIT => queue[c][k].sender_id = s
    BY DEF IdentityConsistent
  <2>2. OneSeat(c) /\ s \in Seats(c)
    BY <2>1 DEF ChatInv, JoinInv, Joining, Seats
  <2> QED  BY <2>2 DEF OneSeat, Replies
<1> QED  BY <1>1, ChatInvariant, PTL

\* Nobody gets back what they sent to all others, and what one client writes to another
\* arrives in the order in which it was written, and once: through both queues, with any
\* number of clients, messages and places in a queue.
THEOREM ChatRelays == Chats => []RelayedRight
<1>1. ChatInv => OwnMessageNotReturned
  <2>1. SUFFICES ASSUME ChatInv, NEW c \in Clients, NEW k \in DOMAIN queue[c], queue[c][k].order = _2ALL
        PROVE  queue[c][k].from # c
    BY DEF OwnMessageNotReturned
  <2>2. ClientsMail(c, queue[c][k])
    BY <2>1 DEF ChatInv, MailInv
  <2> QED  BY <2>1, <2>2 DEF ClientsMail
<1>2. ChatInv => RelayedInOrder
  <2>1. SUFFICES ASSUME ChatInv, NEW c \in Clients, NEW i \in DOMAIN queue[c], NEW j \in DOMAIN queue[c],
                        i < j, queue[c][i].m_type = _2ONE, queue[c][j].m_type = _2ONE,
                        queue[c][i].from = queue[c][j].from, queue[c][i].order = queue[c][j].order
        PROVE  queue[c][i].m_text > queue[c][j].m_text
    BY DEF RelayedInOrder
  <2>2. /\ c \in Queues /\ InOrder(c) /\ ClientsMail(c, queue[c][j])
        /\ queue[c][i] \in Messages /\ queue[c][j] \in Messages
    BY <2>1, Zenon DEF ChatInv, MailInv, OrderInv, Types, TypeOK, Queues
  <2>3. queue[c][j].m_text < queue[c][i].m_text
    BY <2>1, <2>2 DEF InOrder, Later, SameKind, ClientsMail
  <2>4. queue[c][i].m_text \in Nat /\ queue[c][j].m_text \in Nat
    BY <2>2 DEF Messages
  <2> QED  BY <2>3, <2>4
<1> QED  BY <1>1, <1>2, ChatInvariant, PTL DEF RelayedRight

LEMMA Astray ==
    ASSUME program = "POSIX", Posix!NoStray
    PROVE  Calm
BY PosixNames DEF Posix!NoStray, Posix!Stray, Calm, Strays, StopsOf

\* What the POSIX server has still to do for a client, that client is a member for, until the
\* STOP of a client that was interrupted while joining is taken: STOP has the lowest priority.
THEOREM ChatOrders == Chats => []OrdersOfMembers
<1>1. ChatInv => OrdersOfMembers
  <2>1. SUFFICES ASSUME ChatInv, program = "POSIX", server = "running", Posix!NoStray, NEW k \in DOMAIN queue[Server],
                        queue[Server][k].m_type \in {LIST, _2ALL, _2ONE}
        PROVE  connected_clients[queue[Server][k].sender_id] = queue[Server][k].from
    BY PosixNames DEF OrdersOfMembers, Posix!OrdersOfMembers
  <2>2. PICK c \in Clients : c = queue[Server][k].from
    BY <2>1 DEF ChatInv, MailInv, ServersMail
  <2>3. queue[Server][k].m_type \notin {STOP, INIT}
    BY <2>1 DEF STOP, LIST, _2ALL, _2ONE, INIT
  <2>4. MembersOf(c) /\ pc[c].child # "none"
    BY <2>1, <2>2, <2>3, Astray DEF ChatInv, MembersInv, MailInv, ServersMail
  <2> QED  BY <2>1, <2>2, <2>3, <2>4 DEF MembersOf, Seated
<1> QED  BY <1>1, ChatInvariant, PTL

\* The POSIX server takes a client out of its table only when that client has asked for it,
\* until such a STOP is taken, which takes the client that has number 0.
THEOREM ChatSlots == Chats => OwnSlotFreed
<1>1. ChatInv /\ [Step]_everything => [program = "POSIX" => Posix!OwnSlotFreed]_everything
  <2>1. SUFFICES ASSUME ChatInv, Step, program = "POSIX", Posix!NoStray, NEW s \in Slots,
                        connected_clients[s] \in Clients, connected_clients'[s] # connected_clients[s]
        PROVE  pc[connected_clients[s]].parent \in {"removing", "gone"} \/ (s = 0 /\ ~Posix!NoStray')
    BY PosixNames DEF Posix!OwnSlotFreed
  <2>2. Types /\ Kinds /\ connected_clients \in [Slots -> Clients \cup {Free, NoQueue}]
    BY <2>1, StepKinds, TableTypes DEF ChatInv
  <2>3. PICK k \in DOMAIN queue[Server] : \E m \in {queue[Server][k]} :
           Handles(k, m) /\ (Ends \/ Lists(m) \/ Relays(m) \/ Frees(m) \/ Admits(m) \/ Ignores(m))
    BY <2>1, <2>2, Zenon DEF Kinds, ServerTakes, Delivers, GivesUp, Ends, Fades, ClientDoes, SendsInit, Orders, Stops,
                      Reads, Passes, Joins, ServerStays
  <2>4. PICK m : m = queue[Server][k] /\ Handles(k, m) /\ (Frees(m) \/ Admits(m))
    BY <2>1, <2>3 DEF Ends, Lists, Relays, Ignores
  <2>5. m.from \in Clients /\ m.sender_id \in Slots /\ server = "running"
    BY <2>1, <2>2, <2>4, TableTypes DEF ChatInv, MailInv, ServersMail, Handles
  <2>6. ~Admits(m)
    BY <2>1, <2>2, ChatAssumption, Zenon DEF Admits
  <2>7. m.m_type = STOP /\ m.m_type # INIT /\ s = m.sender_id
    BY <2>1, <2>2, <2>4, <2>6 DEF Frees, STOP, INIT
  <2>8. PICK c \in Clients : c = m.from
    BY <2>5
  <2>9. MembersOf(c) /\ k \in StopsOf(c)
    BY <2>1, <2>4, <2>5, <2>7, <2>8, Astray DEF ChatInv, MembersInv, StopsOf
  <2>10. /\ s = client_id[c] /\ pc[c].parent \in {"removing", "gone"} /\ \A j \in StopsOf(c) : j = k
         /\ pc[c].child # "none" => connected_clients[s] = c
         /\ pc[c].child = "none" => s = 0
    BY <2>4, <2>7, <2>8, <2>9 DEF MembersOf, Seated
  <2>11. ASSUME pc[c].child = "none"  PROVE ~Posix!NoStray'
    <3>1. PICK g : Kept(g) /\ \A i \in DOMAIN queue'[Server] : g[Server][i] # k
      <4>1. Server \in Queues /\ Fewer(Server, {k})
        BY <2>4 DEF Queues, Handles
      <4> QED  BY <2>2, <4>1, KeptByFewer
    <3>2. StopsOf(c)' = {}
      BY <2>10, <3>1, StopsKept DEF StopsOf
    <3>3. Posix!Stray(c)'
      BY <2>4, <2>10, <2>11, <3>2, PosixNames DEF Posix!Stray, StopsOf, Handles, ClientsStay
    <3> QED  BY <3>3 DEF Posix!NoStray
  <2> QED  BY <2>10, <2>11
<1> QED  BY <1>1, ChatInvariant, PTL DEF Chats, OwnSlotFreed
=============================================================================
