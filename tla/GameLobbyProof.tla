--------------------------- MODULE GameLobbyProof ---------------------------
(***************************************************************************)
(* The table of the stream server, for any number of clients and slots.    *)
(*                                                                         *)
(* The main thread looks players up by name long after it has read who     *)
(* they are: the ping thread may have removed them in between.  What keeps *)
(* games apart is that only the main thread adds, so that between the      *)
(* polling of a socket and the message read from it the name of a player   *)
(* cannot pass to somebody else; and that a client is heard once only with *)
(* "add", before anything was sent to it.                                  *)
(***************************************************************************)
EXTENDS GameLobby, GameTableProof

\* A client is told once whom it plays, and gets the moves of that client only.
ToldOnce(q, t) ==
    /\ \A j, k \in StartsIn(q) : j = k
    /\ t # NULL => StartsIn(q) = {}
    /\ \A k \in DOMAIN q : /\ q[k].command \in {"add", "move", "ping"}
                           /\ IsStart(q[k]) => q[k].from \in Clients
                           /\ q[k].command = "move" => q[k].from = Rival(q, t) /\ q[k].from \in Clients

Types ==
    /\ TypeOK
    /\ clients_count \in Int /\ fds \in Seq(Clients)
    /\ to_client \in [Clients -> Seq(Messages)] /\ to_server \in [Clients -> Seq(Messages)]
    /\ phase \in [Clients -> {"absent", "new", "connected", "joining", "playing", "gone"}]
    /\ client_fd \in IF main = "handle" THEN Clients ELSE {NULL}

ToldOnceEach == \A c \in Clients : ToldOnce(to_client[c], told[c])

\* Until the server has handled its "add" a client is unheard of.
Adds(c) == {k \in DOMAIN to_server[c] : to_server[c][k].command = "add"}
NotYet(c) == phase[c] \in {"absent", "new", "connected"} \/ c \in backlog \/ Adds(c) # {}
Unheard(c) ==
    /\ \A i \in Slots : clients[i] # c
    /\ to_client[c] = <<>> /\ told[c] = NULL
    /\ \A k \in DOMAIN to_server[c] : to_server[c][k].command # "move"

AddsComeFirst ==
    \A c \in Clients :
        /\ phase[c] \in {"absent", "new", "connected"} => to_server[c] = <<>>
        /\ phase[c] \in {"absent", "new"} => c \notin backlog /\ c # client_fd
        /\ Adds(c) \subseteq {1}
        /\ NotYet(c) => Unheard(c)
        /\ phase[c] = "playing" => told[c] # NULL

\* Whoever has the name of a client that is polled, or handled, is that client.
Owns(c) == \A i \in Occupied : Name(clients[i]) = Name(c) => clients[i] = c

NamesHold ==
    /\ main \in {"check", "handle"} => fds = <<>>
    /\ main = "call" => clients_count <= Len(fds)
    /\ \A k \in DOMAIN fds : Owns(fds[k]) /\ ~NotYet(fds[k])
    /\ main = "handle" => client_fd \notin backlog /\ (Unheard(client_fd) \/ Owns(client_fd))

IInv == Types /\ TableIsSound /\ Pairs /\ ToldOnceEach /\ AddsComeFirst /\ NamesHold
-----------------------------------------------------------------------------
(* The operators of the model.                                             *)

\* How a message more, or less, changes what a client was told.
LEMMA AppendOther ==
    ASSUME NEW q \in Seq(Messages), NEW m \in Messages, NEW t,
           ToldOnce(q, t), m.command \in {"add", "ping"}, ~IsStart(m)
    PROVE  ToldOnce(Append(q, m), t) /\ Rival(Append(q, m), t) = Rival(q, t)
<1>1. /\ DOMAIN Append(q, m) = DOMAIN q \cup {Len(q) + 1}
      /\ \A k \in DOMAIN q : Append(q, m)[k] = q[k]
      /\ Append(q, m)[Len(q) + 1] = m
    BY AppendProperties
<1>2. StartsIn(Append(q, m)) = StartsIn(q)
    BY <1>1 DEF StartsIn
<1>3. Rival(Append(q, m), t) = Rival(q, t)
  <2>1. StartsIn(q) # {} => First(StartsIn(q)) \in DOMAIN q
      BY StartsArePlaces
  <2> QED BY <2>1, <1>1, <1>2 DEF Rival
<1> QED BY <1>1, <1>2, <1>3 DEF ToldOnce

LEMMA AppendMove ==
    ASSUME NEW q \in Seq(Messages), NEW m \in Messages, NEW t,
           ToldOnce(q, t), m.command = "move", m.from = Rival(q, t), m.from \in Clients
    PROVE  ToldOnce(Append(q, m), t) /\ Rival(Append(q, m), t) = Rival(q, t)
<1>1. /\ DOMAIN Append(q, m) = DOMAIN q \cup {Len(q) + 1}
      /\ \A k \in DOMAIN q : Append(q, m)[k] = q[k]
      /\ Append(q, m)[Len(q) + 1] = m
    BY AppendProperties
<1>2. StartsIn(Append(q, m)) = StartsIn(q)
    BY <1>1 DEF StartsIn, IsStart
<1>3. Rival(Append(q, m), t) = Rival(q, t)
  <2>1. StartsIn(q) # {} => First(StartsIn(q)) \in DOMAIN q
      BY StartsArePlaces
  <2> QED BY <2>1, <1>1, <1>2 DEF Rival
<1> QED BY <1>1, <1>2, <1>3 DEF ToldOnce, IsStart

LEMMA AppendStart ==
    ASSUME NEW q \in Seq(Messages), NEW m \in Messages, NEW t,
           ToldOnce(q, t), IsStart(m), m.from \in Clients, Rival(q, t) = NULL
    PROVE  ToldOnce(Append(q, m), t) /\ Rival(Append(q, m), t) = m.from
<1>1. /\ DOMAIN Append(q, m) = DOMAIN q \cup {Len(q) + 1}
      /\ \A k \in DOMAIN q : Append(q, m)[k] = q[k]
      /\ Append(q, m)[Len(q) + 1] = m
      /\ Len(q) \in Nat
    BY AppendProperties, LenProperties
<1>2. StartsIn(q) = {} /\ t = NULL
  <2>1. StartsIn(q) # {} => First(StartsIn(q)) \in StartsIn(q)
      BY StartsArePlaces
  <2> QED BY <2>1, GameServerAssumption DEF Rival, ToldOnce, StartsIn
<1>3. StartsIn(Append(q, m)) = {Len(q) + 1}
    BY <1>1, <1>2 DEF StartsIn
<1>4. Rival(Append(q, m), t) = m.from
    BY <1>1, <1>3, FirstOfOne DEF Rival
<1>5. \A k \in DOMAIN q : q[k].command # "move"
    BY GameServerAssumption DEF ToldOnce
<1>6. m.command = "add"
    BY DEF IsStart
<1> QED BY <1>1, <1>2, <1>3, <1>4, <1>5, <1>6 DEF ToldOnce, StartsIn

LEMMA TailOfMessages ==
    ASSUME NEW q \in Seq(Messages), NEW t, q # <<>>, ToldOnce(q, t)
    PROVE  /\ ~IsStart(Head(q)) => ToldOnce(Tail(q), t) /\ Rival(Tail(q), t) = Rival(q, t)
           /\ IsStart(Head(q)) => /\ ToldOnce(Tail(q), Head(q).from)
                                  /\ Rival(Tail(q), Head(q).from) = Rival(q, t)
                                  /\ Head(q).from \in Clients
<1>1. /\ Len(q) \in Nat /\ 1 \in DOMAIN q /\ Head(q) = q[1] /\ Tail(q) \in Seq(Messages)
      /\ DOMAIN q = 1..Len(q) /\ DOMAIN Tail(q) = 1..(Len(q) - 1)
      /\ \A k \in 1..(Len(q) - 1) : Tail(q)[k] = q[k + 1]
    BY HeadTailProperties, LenProperties, EmptySeq
<1>2. StartsIn(Tail(q)) = {k \in 1..(Len(q) - 1) : k + 1 \in StartsIn(q)}
    BY <1>1 DEF StartsIn
<1>3. CASE ~IsStart(Head(q))
  <2>1. CASE StartsIn(q) = {}
    <3>1. StartsIn(Tail(q)) = {}
        BY <2>1, <1>2
    <3>2. Rival(q, t) = t /\ Rival(Tail(q), t) = t
        BY <2>1, <3>1 DEF Rival
    <3> QED BY <1>1, <2>1, <3>1, <3>2, <1>3 DEF ToldOnce
  <2>2. CASE StartsIn(q) # {}
    <3>1. PICK k \in StartsIn(q) : StartsIn(q) = {k}
        BY <2>2 DEF ToldOnce
    <3>2. k \in DOMAIN q /\ k # 1 /\ k \in Nat
        BY <3>1, <1>1, <1>3 DEF StartsIn
    <3>3. StartsIn(Tail(q)) = {k - 1} /\ k - 1 \in 1..(Len(q) - 1)
        BY <3>1, <3>2, <1>1, <1>2
    <3>4. Rival(q, t) = q[k].from /\ Rival(Tail(q), t) = q[k].from
      <4>1. First({k}) = k /\ First({k - 1}) = k - 1 /\ Tail(q)[k - 1] = q[k]
          BY <3>2, <3>3, <1>1, FirstOfOne
      <4> QED BY <4>1, <3>1, <3>3 DEF Rival
    <3>5. t = NULL
        BY <2>2 DEF ToldOnce
    <3> QED BY <1>1, <3>3, <3>4, <3>5, <1>3 DEF ToldOnce
  <2> QED BY <2>1, <2>2
<1>4. CASE IsStart(Head(q))
  <2>1. StartsIn(q) = {1}
      BY <1>1, <1>4 DEF StartsIn, ToldOnce
  <2>2. StartsIn(Tail(q)) = {}
      BY <2>1, <1>1, <1>2
  <2>3. Rival(q, t) = q[1].from /\ Rival(Tail(q), Head(q).from) = q[1].from /\ q[1].from \in Clients
      BY <2>1, <2>2, <1>1, <1>4, FirstOfOne DEF Rival, ToldOnce
  <2> QED BY <1>1, <2>2, <2>3, <1>4 DEF ToldOnce
<1> QED BY <1>3, <1>4
-----------------------------------------------------------------------------
(* Frames: what a step has to show.                                        *)

\* What a step of a client may do to one of them.
OneClient(d) ==
    /\ exited[d] => exited'[d]
    /\ NotYet(d)' => NotYet(d)
    /\ Unheard(d) => Unheard(d)'
    /\ d \in backlog' \ backlog => phase[d] = "new"
    /\ phase'[d] \in {"absent", "new", "connected"} => to_server'[d] = <<>>
    /\ phase'[d] \in {"absent", "new"} => d \notin backlog' /\ phase[d] \in {"absent", "new"}
    /\ Adds(d)' \subseteq {1}
    /\ phase'[d] = "playing" => told'[d] # NULL

\* A step of a client: the table and the main thread stay as they are.
LEMMA ClientFrame ==
    ASSUME IInv, Types', UNCHANGED serverVars, Rivals' = Rivals, ToldOnceEach',
           \A d \in Clients : OneClient(d)
    PROVE  IInv'
<1>1. Occupied' = Occupied /\ Free' = Free /\ clients' = clients
    BY DEF serverVars, tableVars, Occupied, Free
<1>2. TableIsSound'
    BY <1>1 DEF IInv, TableIsSound, serverVars, tableVars
<1>3. \A i \in Occupied : clients[i] \in Clients
    BY DEF IInv, Types, TypeOK, Occupied
<1>4. Pairs'
    BY <1>1, <1>3, PairsKept DEF IInv, OneClient
<1>5. AddsComeFirst'
    BY DEF AddsComeFirst, IInv, serverVars, pollVars, OneClient
<1>6. \A d : Owns(d) => Owns(d)'
    BY <1>1 DEF Owns
<1>7. NamesHold'
  <2>1. fds' = fds /\ main' = main /\ client_fd' = client_fd /\ clients_count' = clients_count
      BY DEF serverVars, pollVars, tableVars
  <2>2. \A k \in DOMAIN fds : Owns(fds[k]) /\ ~NotYet(fds[k]) /\ fds[k] \in Clients
      BY ElementOfSeq DEF IInv, NamesHold, Types
  <2>3. \A k \in DOMAIN fds' : Owns(fds[k])' /\ ~NotYet(fds[k])'
      BY <1>6, <2>1, <2>2 DEF Owns, NotYet, OneClient
  <2>4. main = "handle" => client_fd \in Clients /\ client_fd \notin backlog /\ phase[client_fd] # "new"
      BY DEF IInv, Types, NamesHold, AddsComeFirst
  <2>5. main = "handle" => client_fd \notin backlog' /\ (Unheard(client_fd)' \/ Owns(client_fd)')
      BY <1>6, <2>1, <2>4 DEF IInv, NamesHold, Unheard, Owns, OneClient
  <2> QED BY <2>1, <2>3, <2>5 DEF IInv, NamesHold
<1> QED BY <1>2, <1>4, <1>5, <1>7 DEF IInv

\* A step of the main thread that only polls.
LEMMA PollFrame ==
    ASSUME IInv, UNCHANGED <<tableVars, to_server, to_client, exited, phase, told>>,
           backlog' \subseteq backlog,
           client_fd' \in Clients => phase[client_fd'] \notin {"absent", "new"}
    PROVE  /\ TableIsSound' /\ Pairs' /\ ToldOnceEach' /\ AddsComeFirst'
           /\ \A d : (NotYet(d)' => NotYet(d)) /\ Unheard(d)' = Unheard(d) /\ Owns(d)' = Owns(d)
<1>1. Occupied' = Occupied /\ Free' = Free /\ clients' = clients
    BY DEF tableVars, Occupied, Free
<1>2. TableIsSound'
    BY <1>1 DEF IInv, TableIsSound, tableVars
<1>3. Rivals' = Rivals
    BY RivalsKept
<1>4. Pairs'
    BY <1>1, <1>3 DEF IInv, Pairs
<1>5. ToldOnceEach'
    BY DEF IInv, ToldOnceEach
<1>6. \A d : Adds(d)' = Adds(d) /\ (NotYet(d)' => NotYet(d)) /\ Unheard(d)' = Unheard(d) /\ Owns(d)' = Owns(d)
    BY <1>1 DEF Adds, NotYet, Unheard, Owns
<1>7. AddsComeFirst'
    BY <1>6 DEF IInv, AddsComeFirst
<1> QED BY <1>2, <1>4, <1>5, <1>6, <1>7
-----------------------------------------------------------------------------
(* The main thread polls.                                                  *)

LEMMA Down ==
    ASSUME IInv, GoDown, UNCHANGED clientVars
    PROVE  IInv'
<1>1. UNCHANGED <<tableVars, pollVars, netVars, phase, told, moves>> /\ up' = FALSE
    BY DEF GoDown, clientVars
<1>2. Types'
    BY <1>1 DEF IInv, Types, TypeOK, tableVars, pollVars, netVars
<1>3. client_fd' \in Clients => phase[client_fd'] \notin {"absent", "new"}
    BY <1>1 DEF IInv, AddsComeFirst, pollVars
<1>4. /\ TableIsSound' /\ Pairs' /\ ToldOnceEach' /\ AddsComeFirst'
      /\ \A d : (NotYet(d)' => NotYet(d)) /\ Unheard(d)' = Unheard(d) /\ Owns(d)' = Owns(d)
    BY <1>1, <1>3, PollFrame DEF netVars
<1>5. NamesHold'
    BY <1>1, <1>4 DEF IInv, NamesHold, pollVars, tableVars, netVars, Owns, NotYet, Adds, Unheard, Occupied
<1> QED BY <1>2, <1>4, <1>5 DEF IInv

LEMMA CheckMessages ==
    ASSUME IInv, check_messages, UNCHANGED clientVars
    PROVE  IInv'
<1>1. CASE \A i \in 0..(clients_count - 1) : clients[i] # NULL
  <2>1. /\ main = "check" /\ main' = "call"
        /\ fds' = [k \in 1..clients_count |-> clients[k - 1]]
        /\ UNCHANGED <<nfds, client_fd, up, tableVars, netVars, phase, told, moves>>
      BY <1>1 DEF check_messages, Goto, clientVars
  <2>2. clients_count \in Nat /\ clients_count <= MAX_PLAYERS
    <3>1. /\ IsFiniteSet(Slots) /\ Cardinality(Slots) = MAX_PLAYERS /\ MAX_PLAYERS \in Nat
          /\ Occupied \subseteq Slots
        BY GameServerAssumption, FS_Interval DEF Slots, Occupied
    <3> QED BY <3>1, FS_Subset, FS_CardinalityType DEF IInv, TableIsSound
  <2>3. ASSUME NEW k \in 1..clients_count
        PROVE  clients[k - 1] \in Clients /\ k - 1 \in Occupied
      BY <1>1, <2>2, GameServerAssumption DEF IInv, Types, TypeOK, Occupied, Slots
  <2>4. fds' \in Seq(Clients) /\ Len(fds') = clients_count /\ DOMAIN fds' = 1..clients_count
      BY <2>1, <2>2, <2>3, IsASeq, LenProperties
  <2>5. Types'
    <3>1. client_fd' = NULL /\ nfds' = nfds /\ nfds = 0
        BY <2>1, EmptySeq DEF IInv, Types, TypeOK, NamesHold
    <3> QED BY <2>1, <2>2, <2>4, <3>1 DEF IInv, Types, TypeOK, tableVars, netVars
  <2>6. client_fd' \notin Clients
      BY <2>1, GameServerAssumption DEF IInv, Types
  <2>7. /\ TableIsSound' /\ Pairs' /\ ToldOnceEach' /\ AddsComeFirst'
        /\ \A d : (NotYet(d)' => NotYet(d)) /\ Unheard(d)' = Unheard(d) /\ Owns(d)' = Owns(d)
      BY <2>1, <2>6, PollFrame DEF netVars
  <2>8. ASSUME NEW c, \E k \in 1..clients_count : c = clients[k - 1]
        PROVE  Owns(c)' /\ ~NotYet(c)'
    <3>1. PICK i \in Occupied : c = clients[i] /\ c \in Clients /\ i \in Slots
        BY <2>3, <2>8 DEF Occupied
    <3>2. Owns(c)
        BY <3>1 DEF Owns, IInv, TableIsSound
    <3>3. ~NotYet(c)
        BY <3>1 DEF IInv, AddsComeFirst, Unheard
    <3> QED BY <2>7, <3>2, <3>3
  <2>9. ASSUME NEW k \in DOMAIN fds'
        PROVE  Owns(fds[k])' /\ ~NotYet(fds[k])'
    <3>1. k \in 1..clients_count /\ fds'[k] = clients[k - 1]
        BY <2>1, <2>4
    <3>2. Owns(clients[k - 1])' /\ ~NotYet(clients[k - 1])'
      <4>1. PICK c : c = clients[k - 1]
          OBVIOUS
      <4>2. clients' = clients
          BY <2>1 DEF tableVars
      <4>3. Owns(c)' /\ ~NotYet(c)'
          BY <2>8, <3>1, <4>1
      <4> QED BY <4>1, <4>2, <4>3 DEF Owns, NotYet, Adds
    <3>3. clients' = clients
        BY <2>1 DEF tableVars
    <3> QED BY <3>1, <3>2, <3>3 DEF Owns, NotYet, Adds
  <2>10. NamesHold'
    <3>1. clients_count' = clients_count /\ main' = "call"
        BY <2>1 DEF tableVars
    <3> QED BY <2>2, <2>4, <2>9, <3>1 DEF NamesHold
  <2> QED BY <2>5, <2>7, <2>10 DEF IInv
<1>2. CASE ~\A i \in 0..(clients_count - 1) : clients[i] # NULL
    BY <1>2, Down DEF check_messages
<1> QED BY <1>1, <1>2

LEMMA CallsPoll ==
    ASSUME IInv, CallPoll, UNCHANGED clientVars
    PROVE  IInv'
<1>1. /\ main = "call" /\ main' = "poll" /\ nfds' = clients_count
      /\ UNCHANGED <<fds, client_fd, up, tableVars, netVars, phase, told, moves>>
    BY DEF CallPoll, Goto, clientVars
<1>2. clients_count \in Nat
    BY Opponents, FS_Subset, FS_CardinalityType DEF IInv, TableIsSound, Occupied
<1>3. Types'
    BY <1>1, <1>2, LenProperties DEF IInv, Types, TypeOK, tableVars, netVars, NamesHold
<1>4. client_fd' \notin Clients
    BY <1>1, GameServerAssumption DEF IInv, Types
<1>5. /\ TableIsSound' /\ Pairs' /\ ToldOnceEach' /\ AddsComeFirst'
      /\ \A d : (NotYet(d)' => NotYet(d)) /\ Unheard(d)' = Unheard(d) /\ Owns(d)' = Owns(d)
    BY <1>1, <1>4, PollFrame DEF netVars
<1>6. NamesHold'
    BY <1>1, <1>5 DEF IInv, NamesHold, tableVars, netVars, Owns, NotYet, Adds, Occupied
<1> QED BY <1>3, <1>5, <1>6 DEF IInv

LEMMA Returns ==
    ASSUME IInv, PollReturns, UNCHANGED clientVars
    PROVE  IInv'
<1>1. /\ main = "poll" /\ client_fd = NULL /\ fds' = <<>> /\ nfds' = 0
      /\ UNCHANGED <<tableVars, to_server, to_client, exited, phase, told, moves>>
      /\ backlog' \subseteq backlog /\ up' \in BOOLEAN
    BY DEF PollReturns, Garbage, clientVars, IInv, Types, TypeOK
<1>2. \/ main' = "check" /\ client_fd' = NULL
      \/ /\ main' = "handle" /\ client_fd' \in Clients /\ client_fd' \notin backlog'
         /\ phase[client_fd'] \notin {"absent", "new"}
         /\ Unheard(client_fd') \/ Owns(client_fd')
  <2>1. CASE \E c \in backlog : client_fd' = c /\ backlog' = backlog \ {c} /\ main' = "handle"
    <3>1. client_fd' \in Clients /\ NotYet(client_fd')
        BY <2>1 DEF NotYet, IInv, Types, TypeOK
    <3> QED BY <2>1, <3>1 DEF IInv, AddsComeFirst
  <2>2. CASE main' = "handle" /\ backlog' = backlog /\ \E k \in 1..nfds : client_fd' = fds[k]
    <3>1. PICK k \in 1..nfds : client_fd' = fds[k]
        BY <2>2
    <3>2. k \in DOMAIN fds /\ fds[k] \in Clients
        BY LenProperties, ElementOfSeq DEF IInv, Types, TypeOK
    <3>3. Owns(fds[k]) /\ ~NotYet(fds[k])
        BY <3>2 DEF IInv, NamesHold
    <3> QED BY <2>2, <3>1, <3>2, <3>3 DEF NotYet
  <2>3. CASE main' = "check" /\ UNCHANGED client_fd
      BY <1>1, <2>3
  <2> QED BY <1>1, <2>1, <2>2, <2>3 DEF PollReturns, Goto
<1>3. Types'
  <2>1. <<>> \in Seq(Clients) /\ Len(<<>>) = 0
      BY EmptySeq
  <2>2. fds' \in Seq(Clients) /\ nfds' \in 0..Len(fds')
      BY <1>1, <2>1
  <2>3. backlog' \subseteq Clients /\ main' \in {"check", "call", "poll", "handle"}
        /\ client_fd' \in IF main' = "handle" THEN Clients ELSE {NULL}
      BY <1>1, <1>2 DEF IInv, Types, TypeOK
  <2> QED BY <1>1, <2>2, <2>3 DEF IInv, Types, TypeOK, tableVars
<1>4. /\ TableIsSound' /\ Pairs' /\ ToldOnceEach' /\ AddsComeFirst'
      /\ \A d : (NotYet(d)' => NotYet(d)) /\ Unheard(d)' = Unheard(d) /\ Owns(d)' = Owns(d)
    BY <1>1, <1>2, PollFrame, GameServerAssumption
<1>5. NamesHold'
  <2>1. fds' = <<>> /\ DOMAIN fds' = {}
      BY <1>1, EmptySeq
  <2>2. main' = "handle" => client_fd' \notin backlog' /\ (Unheard(client_fd)' \/ Owns(client_fd)')
      BY <1>1, <1>2 DEF Unheard, Owns, Occupied, tableVars
  <2> QED BY <1>2, <2>1, <2>2 DEF NamesHold
<1> QED BY <1>3, <1>4, <1>5 DEF IInv
-----------------------------------------------------------------------------
(* The main thread handles a message.                                      *)

\* What is left to show of a message of c handled, or found to be the end of the stream.
LEMMA HandleFrame ==
    ASSUME IInv, NEW c \in Clients, main = "handle", client_fd = c, to_server[c] # <<>>,
           main' = "check", client_fd' = NULL, up' \in BOOLEAN,
           UNCHANGED <<fds, nfds, backlog, exited, phase, told, moves>>,
           to_server' = to_server \/ Handled(c),
           TableTypes', online' \in [Slots -> BOOLEAN], to_client' \in [Clients -> Seq(Messages)],
           TableIsSound', Pairs', ToldOnceEach',
           \A d \in Clients : Unheard(d) /\ NotYet(d)' => to_client'[d] = <<>> /\ \A i \in Slots : clients'[i] # d
    PROVE  IInv'
<1>1. Types'
  <2>1. to_server' \in [Clients -> Seq(Messages)]
    <3>1. to_server[c] \in Seq(Messages) /\ Tail(to_server[c]) \in Seq(Messages)
        BY HeadTailProperties DEF IInv, Types
    <3> QED BY <3>1 DEF IInv, Types, Handled
  <2>2. \A d \in Clients : \A k \in DOMAIN to_client'[d] : to_client'[d][k].command \in {"add", "move", "ping"}
      BY DEF ToldOnceEach, ToldOnce
  <2> QED BY <2>1, <2>2 DEF IInv, Types, TypeOK, TableTypes
<1>2. ASSUME NEW d \in Clients
      PROVE  /\ Adds(d)' \subseteq {1} /\ (NotYet(d)' => NotYet(d))
             /\ to_server[d] = <<>> => to_server'[d] = <<>>
             /\ (\A k \in DOMAIN to_server[d] : to_server[d][k].command # "move")
                => \A k \in DOMAIN to_server'[d] : to_server'[d][k].command # "move"
  <2>1. Adds(d) \subseteq {1}
      BY DEF IInv, AddsComeFirst
  <2>2. CASE to_server'[d] = to_server[d]
      BY <2>1, <2>2 DEF Adds, NotYet
  <2>3. CASE d = c /\ to_server'[d] = Tail(to_server[d])
    <3>1. to_server[d] \in Seq(Messages) /\ to_server[d] # <<>>
        BY <2>3 DEF IInv, Types
    <3>2. \A k \in DOMAIN to_server'[d] : k \in Nat /\ k # 0 /\ k + 1 \in DOMAIN to_server[d] /\ to_server'[d][k] = to_server[d][k + 1]
        BY <2>3, <3>1, HeadTailProperties, LenProperties
    <3>3. Adds(d)' = {}
        BY <2>1, <3>2, SMTT(30) DEF Adds
    <3> QED BY <2>3, <3>1, <3>2, <3>3 DEF NotYet
  <2> QED BY <2>2, <2>3 DEF Handled, IInv, Types
<1>3. ASSUME NEW d \in Clients, NotYet(d)'
      PROVE  Unheard(d)'
    BY <1>2, <1>3 DEF IInv, AddsComeFirst, Unheard
<1>4. AddsComeFirst'
    BY <1>2, <1>3, GameServerAssumption DEF IInv, AddsComeFirst
<1>5. NamesHold'
    BY EmptySeq DEF IInv, NamesHold
<1> QED BY <1>1, <1>4, <1>5 DEF IInv

LEMMA HandledOne ==
    ASSUME NEW c \in Clients, to_server \in [Clients -> Seq(Messages)], to_server[c] # <<>>
    PROVE  /\ Head(to_server[c]) \in Messages
           /\ Head(to_server[c]).command = "add" => 1 \in Adds(c)
           /\ Head(to_server[c]).command = "move" => ~Unheard(c)
<1>1. Head(to_server[c]) = to_server[c][1] /\ 1 \in DOMAIN to_server[c] /\ to_server[c][1] \in Messages
    BY HeadTailProperties, LenProperties, EmptySeq
<1> QED BY <1>1 DEF Adds, Unheard

\* The end of a stream.
LEMMA AtTheEnd ==
    ASSUME IInv, Handle, Garbage, UNCHANGED clientVars
    PROVE  IInv'
<1>1. /\ main = "handle" /\ main' = "check" /\ client_fd' = NULL /\ to_server[client_fd] # <<>>
      /\ UNCHANGED <<fds, nfds, backlog, exited, phase, told, moves, tableVars, to_server, to_client>>
      /\ up' \in BOOLEAN /\ client_fd \in Clients
    BY DEF Handle, Goto, Garbage, clientVars, IInv, Types
<1>2. /\ TableIsSound' /\ Pairs' /\ ToldOnceEach'
      /\ \A d : Unheard(d)' = Unheard(d)
    BY <1>1, PollFrame, GameServerAssumption
<1>3. TableTypes' /\ online' \in [Slots -> BOOLEAN] /\ to_client' \in [Clients -> Seq(Messages)]
    BY <1>1 DEF TableTypes, tableVars, IInv, Types, TypeOK
<1>4. \A d \in Clients : Unheard(d) => to_client'[d] = <<>> /\ \A i \in Slots : clients'[i] # d
    BY <1>2 DEF Unheard
<1>5. PICK c \in Clients : c = client_fd
    BY <1>1
<1> QED BY <1>1, <1>2, <1>3, <1>4, <1>5, HandleFrame

LEMMA PongKeeps ==
    ASSUME IInv, Handle, Pong(client_fd), UNCHANGED clientVars
    PROVE  IInv'
<1>1. /\ main = "handle" /\ main' = "check" /\ client_fd' = NULL /\ to_server[client_fd] # <<>>
      /\ UNCHANGED <<fds, nfds, backlog, exited, phase, told, moves, clients, clients_count, to_client, up>>
      /\ client_fd \in Clients /\ Handled(client_fd)
      /\ online' = [i \in Slots |-> online[i] \/ i \in get_by_name(client_fd)]
    BY DEF Handle, Goto, Pong, clientVars, IInv, Types
<1>2. TableTypes' /\ online' \in [Slots -> BOOLEAN] /\ to_client' \in [Clients -> Seq(Messages)] /\ up' \in BOOLEAN
    BY <1>1 DEF TableTypes, IInv, Types, TypeOK
<1>3. Occupied' = Occupied /\ Free' = Free
    BY <1>1 DEF Occupied, Free
<1>4. TableIsSound'
    BY <1>1, <1>3 DEF IInv, TableIsSound
<1>5. Rivals' = Rivals
    BY <1>1, RivalsKept
<1>6. Pairs' /\ ToldOnceEach'
    BY <1>1, <1>3, <1>5 DEF IInv, Pairs, ToldOnceEach
<1>7. \A d \in Clients : Unheard(d) => to_client'[d] = <<>> /\ \A i \in Slots : clients'[i] # d
    BY <1>1 DEF Unheard
<1>8. PICK c \in Clients : c = client_fd
    BY <1>1
<1> QED BY <1>1, <1>2, <1>4, <1>6, <1>7, <1>8, HandleFrame

LEMMA QuitKeeps ==
    ASSUME IInv, Handle, Quit(client_fd), UNCHANGED clientVars
    PROVE  IInv'
<1>1. /\ main = "handle" /\ main' = "check" /\ client_fd' = NULL /\ to_server[client_fd] # <<>>
      /\ UNCHANGED <<fds, nfds, backlog, exited, phase, told, moves, to_client>>
      /\ client_fd \in Clients
    BY DEF Handle, Goto, Quit, clientVars, IInv, Types
<1>2. PICK c \in Clients : c = client_fd
    BY <1>1
<1>3. to_client' \in [Clients -> Seq(Messages)]
    BY <1>1 DEF IInv, Types
<1>4. CASE get_by_name(c) = {}
    BY <1>2, <1>4, AtTheEnd DEF Quit, Garbage, tableVars
<1>5. CASE get_by_name(c) # {}
  <2>1. remove_clients(get_by_name(c), TRUE) /\ Handled(c) /\ up' \in BOOLEAN
      BY <1>2, <1>5 DEF Quit, IInv, Types, TypeOK
  <2>2. TableTypes /\ TableIsSound /\ get_by_name(c) \subseteq Occupied
      BY DEF IInv, Types, TypeOK, TableTypes, get_by_name
  <2>3. /\ TableTypes' /\ TableIsSound' /\ Occupied' \subseteq Occupied
        /\ \A i \in Occupied' : clients'[i] = clients[i] /\ clients'[get_opponent(i)] = clients[get_opponent(i)]
        /\ \A i \in Slots : clients'[i] \in {clients[i], NULL}
      BY <2>1, <2>2, TableAfterRemoval
  <2>4. online' \in [Slots -> BOOLEAN]
      BY <2>1 DEF remove_clients, IInv, Types, TypeOK
  <2>5. Rivals' = Rivals
      BY <1>1, RivalsKept
  <2>6. \A i \in Occupied : clients[i] \in Clients
      BY <2>2 DEF TableTypes, Occupied
  <2>7. Pairs'
      BY <1>1, <2>3, <2>5, <2>6, PairsKept DEF IInv
  <2>8. ToldOnceEach'
      BY <1>1 DEF IInv, ToldOnceEach
  <2>9. \A d \in Clients : Unheard(d) => to_client'[d] = <<>> /\ \A i \in Slots : clients'[i] # d
      BY <1>1, <2>3, GameServerAssumption DEF Unheard
  <2> QED BY <1>1, <1>2, <1>3, <2>1, <2>3, <2>4, <2>7, <2>8, <2>9, HandleFrame
<1> QED BY <1>4, <1>5

\* Messages that are none or one to each client.
LEMMA SentIs ==
    ASSUME NEW messages, to_client' = Sent(messages)
    PROVE  \A d \in Clients :
               /\ d \in DOMAIN messages /\ ~exited[d] => to_client'[d] = Append(to_client[d], messages[d])
               /\ d \notin DOMAIN messages \/ exited[d] => to_client'[d] = to_client[d]
BY DEF Sent

\* A move is the move of the rival of who gets it.
LEMMA MoveKeeps ==
    ASSUME IInv, Handle, Head(to_server[client_fd]).command = "move", Move(client_fd), UNCHANGED clientVars
    PROVE  IInv'
<1>1. /\ main = "handle" /\ main' = "check" /\ client_fd' = NULL /\ to_server[client_fd] # <<>>
      /\ UNCHANGED <<fds, nfds, backlog, exited, phase, told, moves, tableVars>>
      /\ client_fd \in Clients
    BY DEF Handle, Goto, Move, clientVars, IInv, Types
<1>2. PICK c \in Clients : c = client_fd
    BY <1>1
<1>3. TableTypes' /\ online' \in [Slots -> BOOLEAN]
    BY <1>1 DEF TableTypes, tableVars, IInv, Types, TypeOK
<1>4. Occupied' = Occupied /\ Free' = Free /\ clients' = clients
    BY <1>1 DEF tableVars, Occupied, Free
<1>5. TableIsSound'
    BY <1>1, <1>4 DEF tableVars, IInv, TableIsSound
<1> DEFINE i == First(get_by_name(c))
<1>6. CASE get_by_name(c) = {} \/ clients[get_opponent(i)] = NULL
    BY <1>2, <1>6, AtTheEnd DEF Move, Garbage
<1>7. CASE ~(get_by_name(c) = {} \/ clients[get_opponent(i)] = NULL)
  <2> DEFINE rival == clients[get_opponent(i)]
             m == Message("move", Head(to_server[c]).arg, c)
             message == [d \in {rival} |-> m]
  <2>1. Handled(c) /\ to_client' = Sent(message) /\ up' \in BOOLEAN
      BY <1>2, <1>7 DEF Move, IInv, Types, TypeOK
  <2>2. to_server \in [Clients -> Seq(Messages)] /\ to_client \in [Clients -> Seq(Messages)]
      BY DEF IInv, Types
  <2>3. m \in Messages /\ m.command = "move" /\ m.from = c
    <3>1. Head(to_server[c]) \in Messages
        BY <1>1, <1>2, <2>2, HandledOne
    <3> QED BY <3>1 DEF Message, Messages
  <2>4. i \in Occupied /\ i \in Slots /\ Name(clients[i]) = Name(c) /\ get_opponent(i) \in Slots /\ get_opponent(get_opponent(i)) = i
    <3>1. get_by_name(c) \subseteq Nat /\ get_by_name(c) # {} /\ get_by_name(c) \subseteq Slots
        BY <1>7, Opponents DEF get_by_name, Occupied
    <3>2. i \in get_by_name(c)
        BY <3>1, FirstIsLeast
    <3> QED BY <3>1, <3>2, Opponents DEF get_by_name
  <2>5. clients[i] = c
    <3>1. ~Unheard(c)
        BY <1>1, <1>2, <2>2, HandledOne
    <3>2. Owns(c)
        BY <1>1, <1>2, <3>1 DEF IInv, NamesHold
    <3> QED BY <2>4, <3>2 DEF Owns
  <2>6. rival \in Clients /\ get_opponent(i) \in Occupied
      BY <1>7, <2>4 DEF IInv, Types, TypeOK, Occupied
  <2>7. ~exited[rival] => Rival(to_client[rival], told[rival]) = c
    <3>1. Rivals[rival] = Rival(to_client[rival], told[rival])
        BY <2>6 DEF Rivals
    <3> QED BY <2>4, <2>5, <2>6, <3>1, GameServerAssumption DEF IInv, Pairs
  <2> HIDE DEF m, rival, i
  <2>8. ASSUME NEW d \in Clients
        PROVE  /\ to_client'[d] \in Seq(Messages) /\ ToldOnce(to_client'[d], told[d])
               /\ Rival(to_client'[d], told[d]) = Rival(to_client[d], told[d])
    <3>1. to_client[d] \in Seq(Messages) /\ ToldOnce(to_client[d], told[d])
        BY <2>2 DEF IInv, ToldOnceEach
    <3>2. CASE d = rival /\ ~exited[d]
      <4>1. to_client'[d] = Append(to_client[d], m)
          BY <2>1, <3>2, SentIs
      <4> QED BY <2>3, <2>7, <3>1, <3>2, <4>1, AppendMove, AppendProperties
    <3>3. CASE ~(d = rival /\ ~exited[d])
      <4>1. to_client'[d] = to_client[d]
          BY <2>1, <3>3, SentIs
      <4> QED BY <3>1, <4>1
    <3> QED BY <3>2, <3>3
  <2>9. to_client' \in [Clients -> Seq(Messages)]
      BY <2>1, <2>8 DEF Sent
  <2>10. ToldOnceEach'
      BY <1>1, <2>8 DEF ToldOnceEach
  <2>11. Rivals' = Rivals
      BY <1>1, <2>8, RivalsKept
  <2>12. Pairs'
      BY <1>1, <1>4, <2>11 DEF IInv, Pairs
  <2>13. ASSUME NEW d \in Clients, Unheard(d)
         PROVE  to_client'[d] = <<>> /\ \A j \in Slots : clients'[j] # d
    <3>1. d # rival /\ to_client[d] = <<>>
        BY <2>4, <2>13 DEF Unheard, rival
    <3> QED BY <1>4, <2>1, <2>13, <3>1, SentIs DEF Unheard
  <2> QED BY <1>1, <1>2, <1>3, <1>5, <2>1, <2>9, <2>10, <2>12, <2>13, HandleFrame
<1> QED BY <1>6, <1>7

\* A client whose "add" is handled is heard of from then on.
LEMMA HeardNow ==
    ASSUME IInv, main = "handle", NEW c \in Clients, c = client_fd, to_server[c] # <<>>,
           Head(to_server[c]).command = "add", Handled(c), UNCHANGED <<backlog, phase>>
    PROVE  Unheard(c) /\ ~NotYet(c)'
<1>1. to_server[c] \in Seq(Messages) /\ to_server \in [Clients -> Seq(Messages)]
    BY DEF IInv, Types
<1>2. 1 \in Adds(c)
    BY <1>1, HandledOne
<1>3. Unheard(c) /\ Adds(c) \subseteq {1} /\ phase[c] \notin {"absent", "new", "connected"} /\ c \notin backlog
    BY <1>2 DEF IInv, AddsComeFirst, NamesHold, NotYet
<1>4. to_server'[c] = Tail(to_server[c])
    BY <1>1 DEF Handled
<1>5. \A k \in DOMAIN to_server'[c] : k \in Nat /\ k # 0 /\ k + 1 \in DOMAIN to_server[c] /\ to_server'[c][k] = to_server[c][k + 1]
    BY <1>1, <1>4, HeadTailProperties, LenProperties
<1>6. Adds(c)' = {}
    BY <1>3, <1>5 DEF Adds
<1> QED BY <1>3, <1>6 DEF NotYet

LEMMA AddKeeps ==
    ASSUME IInv, Handle, Head(to_server[client_fd]).command = "add", Add(client_fd), UNCHANGED clientVars
    PROVE  IInv'
<1>1. /\ main = "handle" /\ main' = "check" /\ client_fd' = NULL /\ to_server[client_fd] # <<>>
      /\ UNCHANGED <<fds, nfds, backlog, exited, phase, told, moves>>
      /\ client_fd \in Clients
    BY DEF Handle, Goto, clientVars, IInv, Types
<1>2. PICK c \in Clients : c = client_fd
    BY <1>1
<1>3. PICK index : index = NewIndex(c)
    OBVIOUS
<1>4. PICK answers \in Answers(c, index) :
          /\ IF index = -1 THEN UNCHANGED tableVars ELSE add_client(c, index)
          /\ Handled(c)
          /\ to_client' = Sent(answers)
          /\ up' \in IF Broken(answers) THEN BOOLEAN ELSE {TRUE}
    BY <1>2, <1>3 DEF Add
<1>5. Unheard(c) /\ ~NotYet(c)' /\ up' \in BOOLEAN
    BY <1>1, <1>2, <1>4, HeardNow
<1>6. TableTypes /\ TableIsSound /\ to_client \in [Clients -> Seq(Messages)]
    BY DEF IInv, Types, TypeOK, TableTypes
<1>7. \A d \in Clients : ToldOnce(to_client[d], told[d]) /\ Rivals[d] = Rival(to_client[d], told[d])
    BY DEF IInv, ToldOnceEach, Rivals
<1>8. Rivals[c] = NULL
  <2>1. StartsIn(<<>>) = {}
      BY EmptySeq DEF StartsIn
  <2> QED BY <1>5, <1>7, <2>1 DEF Rival, Unheard
<1>9. \A j \in Occupied : j \in Slots /\ clients[j] \in Clients /\ clients[j] # c
    BY <1>5, <1>6 DEF Unheard, TableTypes, Occupied
<1>10. ASSUME index # -1
       PROVE  /\ TableTypes' /\ TableIsSound' /\ index \in Free /\ online' \in [Slots -> BOOLEAN]
              /\ Occupied' = Occupied \cup {index}
              /\ clients'[index] = c
              /\ \A j \in Slots : j # index => clients'[j] = clients[j]
              /\ \A d \in Clients : d # c /\ Unheard(d) => \A j \in Slots : clients'[j] # d
  <2>1. add_client(c, index)
      BY <1>4, <1>10
  <2>2. /\ TableTypes' /\ TableIsSound' /\ index \in Free
        /\ Occupied' = Occupied \cup {index}
        /\ clients'[index] = c
        /\ \A j \in Slots : j # index => clients'[j] = clients[j]
      BY <1>3, <1>6, <1>10, <2>1, TableAfterAdd
  <2>3. online' \in [Slots -> BOOLEAN]
      BY <2>1 DEF add_client, IInv, Types, TypeOK
  <2>4. \A d \in Clients : d # c /\ Unheard(d) => \A j \in Slots : clients'[j] # d
      BY <2>2 DEF Unheard
  <2> QED BY <2>2, <2>3, <2>4
<1>11. CASE index = -1 \/ index % 2 = 0
  <2>1. PICK arg \in {"name_taken", "no_enemy"} : answers = [d \in {c} |-> Message("add", arg, NULL)]
      BY <1>4, <1>11 DEF Answers
  <2> DEFINE m == Message("add", arg, NULL)
  <2>2. m \in Messages /\ m.command = "add" /\ ~IsStart(m)
      BY DEF Message, Messages, IsStart
  <2>3. \A d \in Clients : d \in DOMAIN answers => d = c /\ answers[d] = m
      BY <2>1
  <2> HIDE DEF m
  <2>4. ASSUME NEW d \in Clients
        PROVE  /\ to_client'[d] \in Seq(Messages) /\ ToldOnce(to_client'[d], told[d])
               /\ Rival(to_client'[d], told[d]) = Rival(to_client[d], told[d])
               /\ d # c => to_client'[d] = to_client[d]
    <3>1. CASE d \in DOMAIN answers /\ ~exited[d]
      <4>1. to_client'[d] = Append(to_client[d], m)
          BY <1>4, <2>3, <3>1, SentIs
      <4> QED BY <1>6, <1>7, <2>2, <2>3, <3>1, <4>1, AppendOther, AppendProperties
    <3>2. CASE ~(d \in DOMAIN answers /\ ~exited[d])
      <4>1. to_client'[d] = to_client[d]
          BY <1>4, <3>2, SentIs
      <4> QED BY <1>6, <1>7, <4>1
    <3> QED BY <3>1, <3>2
  <2>5. to_client' \in [Clients -> Seq(Messages)] /\ ToldOnceEach' /\ Rivals' = Rivals
      BY <1>1, <1>4, <2>4, RivalsKept DEF Sent, ToldOnceEach
  <2>6. CASE index = -1
    <3>1. Occupied' = Occupied /\ Free' = Free /\ clients' = clients /\ UNCHANGED tableVars
        BY <1>4, <2>6 DEF tableVars, Occupied, Free
    <3>2. TableTypes' /\ online' \in [Slots -> BOOLEAN] /\ TableIsSound'
        BY <1>6, <3>1 DEF tableVars, TableTypes, IInv, Types, TypeOK, TableIsSound
    <3>3. Pairs'
        BY <1>1, <2>5, <3>1 DEF IInv, Pairs
    <3>4. \A d \in Clients : Unheard(d) /\ NotYet(d)' => to_client'[d] = <<>> /\ \A j \in Slots : clients'[j] # d
        BY <1>5, <2>4, <3>1 DEF Unheard
    <3> QED BY <1>1, <1>2, <1>4, <1>5, <2>5, <3>2, <3>3, <3>4, HandleFrame
  <2>7. CASE index # -1
    <3>1. index \in Slots /\ index \notin Occupied /\ get_opponent(index) \notin Occupied
      <4>1. get_opponent(NewIndex(c)) \in Free
          BY <1>3, <1>6, <1>11, <2>7, NewIndexFits
      <4> QED BY <1>3, <1>10, <2>7, <4>1 DEF Free
    <3>2. ASSUME NEW j \in Occupied'
          PROVE  \/ Rivals'[clients'[j]] = NULL /\ (clients'[get_opponent(j)] = NULL \/ exited[clients'[j]])
                 \/ clients'[get_opponent(j)] # NULL /\ Rivals'[clients'[j]] = clients'[get_opponent(j)]
      <4>1. CASE j = index
        <5>1. get_opponent(index) \in Slots /\ get_opponent(index) # index
            BY <3>1, Opponents
        <5>2. clients'[get_opponent(index)] = NULL
            BY <1>10, <2>7, <3>1, <5>1 DEF Occupied
        <5> QED BY <1>8, <1>10, <2>5, <2>7, <4>1, <5>2
      <4>2. CASE j # index
        <5>1. j \in Occupied /\ j \in Slots
            BY <1>9, <1>10, <2>7, <4>2
        <5>2. get_opponent(j) \in Slots /\ get_opponent(j) # index
            BY <3>1, <5>1, Opponents
        <5>3. clients'[j] = clients[j] /\ clients'[get_opponent(j)] = clients[get_opponent(j)]
            BY <1>10, <2>7, <4>2, <5>1, <5>2
        <5> QED BY <2>5, <5>1, <5>3 DEF IInv, Pairs
      <4> QED BY <4>1, <4>2
    <3>3. Pairs'
        BY <1>1, <3>2 DEF Pairs
    <3>4. \A d \in Clients : Unheard(d) /\ NotYet(d)' => to_client'[d] = <<>> /\ \A j \in Slots : clients'[j] # d
        BY <1>5, <1>10, <2>4, <2>7 DEF Unheard
    <3> QED BY <1>1, <1>2, <1>4, <1>5, <1>10, <2>5, <2>7, <3>3, <3>4, HandleFrame
  <2> QED BY <2>6, <2>7
<1>12. CASE index # -1 /\ index % 2 # 0
  <2> DEFINE r == get_opponent(index)
             rival == clients[r]
  <2>1. index \in Slots /\ index \notin Occupied /\ r \in Occupied /\ r \in Slots /\ get_opponent(r) = index /\ r # index
    <3>1. index \in Slots /\ index \notin Occupied /\ index % 2 = 1
        BY <1>10, <1>12, Opponents DEF Free
    <3>2. get_opponent(index) \in Occupied
        BY <1>3, <1>6, <1>12, <3>1, NewIndexFits
    <3> QED BY <3>1, <3>2, Opponents
  <2>2. rival \in Clients /\ rival # c /\ Rivals[rival] = NULL
    <3>1. clients[get_opponent(r)] = NULL
        BY <2>1 DEF Occupied
    <3> QED BY <1>9, <2>1, <3>1 DEF IInv, Pairs
  <2>3. \A d \in Clients : /\ d \in DOMAIN answers <=> d \in {c, rival}
                           /\ d = c => answers[d] \in Messages /\ IsStart(answers[d]) /\ answers[d].from = rival
                           /\ d = rival => answers[d] \in Messages /\ IsStart(answers[d]) /\ answers[d].from = c
    <3>1. PICK O \in {c, rival}, X \in {c, rival} :
              O # X /\ answers = [d \in {O, X} |-> IF d = O THEN Message("add", "O", X) ELSE Message("add", "X", O)]
        BY <1>4, <1>12, <2>2 DEF Answers
    <3>2. \A arg \in {"O", "X"}, d \in Clients :
              Message("add", arg, d) \in Messages /\ IsStart(Message("add", arg, d)) /\ Message("add", arg, d).from = d
        BY DEF Message, Messages, IsStart
    <3> QED BY <2>2, <3>1, <3>2
  <2> HIDE DEF rival, r
  <2>4. ASSUME NEW d \in Clients
        PROVE  /\ to_client'[d] \in Seq(Messages) /\ ToldOnce(to_client'[d], told[d])
               /\ d \notin {c, rival} \/ exited[d] =>
                      to_client'[d] = to_client[d] /\ Rival(to_client'[d], told[d]) = Rival(to_client[d], told[d])
               /\ d = c /\ ~exited[d] => Rival(to_client'[d], told[d]) = rival
               /\ d = rival /\ ~exited[d] => Rival(to_client'[d], told[d]) = c
    <3>1. to_client[d] \in Seq(Messages) /\ ToldOnce(to_client[d], told[d])
        BY <1>6, <1>7
    <3>2. CASE d \in {c, rival} /\ ~exited[d]
      <4>1. PICK m : m = answers[d]
          OBVIOUS
      <4>2. m \in Messages /\ IsStart(m) /\ m.from \in Clients
          BY <2>2, <2>3, <3>2, <4>1
      <4>3. to_client'[d] = Append(to_client[d], m)
          BY <1>4, <2>3, <3>2, <4>1, SentIs
      <4>4. Rival(to_client[d], told[d]) = NULL
          BY <1>7, <1>8, <2>2, <3>2
      <4>5. ToldOnce(to_client'[d], told[d]) /\ Rival(to_client'[d], told[d]) = m.from
          BY <3>1, <4>2, <4>3, <4>4, AppendStart
      <4> QED BY <2>2, <2>3, <3>1, <3>2, <4>1, <4>2, <4>3, <4>5, AppendProperties
    <3>3. CASE ~(d \in {c, rival} /\ ~exited[d])
      <4>1. to_client'[d] = to_client[d]
          BY <1>4, <2>3, <3>3, SentIs
      <4> QED BY <3>1, <3>3, <4>1
    <3> QED BY <3>2, <3>3
  <2>5. to_client' \in [Clients -> Seq(Messages)] /\ ToldOnceEach'
      BY <1>1, <1>4, <2>4 DEF Sent, ToldOnceEach
  <2>6. Rivals' = [d \in Clients |-> Rival(to_client'[d], told[d])]
      BY <1>1 DEF Rivals
  <2>7. ASSUME NEW j \in Occupied'
        PROVE  \/ Rivals'[clients'[j]] = NULL /\ (clients'[get_opponent(j)] = NULL \/ exited[clients'[j]])
               \/ clients'[get_opponent(j)] # NULL /\ Rivals'[clients'[j]] = clients'[get_opponent(j)]
    <3>1. clients'[index] = c /\ clients'[r] = rival /\ get_opponent(index) = r /\ get_opponent(r) = index
        BY <1>10, <1>12, <2>1 DEF r, rival
    <3>2. CASE j = index
      <4>1. Rivals'[c] = IF exited[c] THEN NULL ELSE rival
          BY <1>7, <1>8, <2>4, <2>6
      <4> QED BY <2>2, <3>1, <3>2, <4>1, GameServerAssumption
    <3>3. CASE j = r
      <4>1. Rivals'[rival] = IF exited[rival] THEN NULL ELSE c
          BY <1>7, <2>2, <2>4, <2>6
      <4> QED BY <3>1, <3>3, <4>1, GameServerAssumption
    <3>4. CASE j \notin {index, r}
      <4>1. j \in Occupied /\ j \in Slots /\ clients[j] \in Clients /\ clients[j] # c
          BY <1>9, <1>10, <1>12, <3>4
      <4>2. get_opponent(j) \in Slots /\ get_opponent(j) # index
          BY <2>1, <3>1, <3>4, <4>1, Opponents
      <4>3. clients'[j] = clients[j] /\ clients'[get_opponent(j)] = clients[get_opponent(j)]
          BY <1>10, <1>12, <3>4, <4>1, <4>2
      <4>4. clients[j] # rival
          BY <1>6, <2>1, <3>4, <4>1 DEF TableIsSound, rival
      <4>5. Rivals'[clients[j]] = Rivals[clients[j]]
          BY <1>7, <2>4, <2>6, <4>1, <4>4
      <4> QED BY <4>1, <4>3, <4>5 DEF IInv, Pairs
    <3> QED BY <3>2, <3>3, <3>4
  <2>8. Pairs'
      BY <1>1, <2>7 DEF Pairs
  <2>9. ASSUME NEW d \in Clients, Unheard(d), NotYet(d)'
        PROVE  to_client'[d] = <<>> /\ \A j \in Slots : clients'[j] # d
    <3>1. d # c /\ d # rival
        BY <1>5, <2>1, <2>9 DEF Unheard, rival
    <3>2. to_client'[d] = <<>>
        BY <2>4, <2>9, <3>1 DEF Unheard
    <3> QED BY <1>10, <1>12, <2>9, <3>1, <3>2
  <2> QED BY <1>1, <1>2, <1>4, <1>5, <1>10, <1>12, <2>5, <2>8, <2>9, HandleFrame
<1> QED BY <1>11, <1>12

LEMMA HandleKeeps ==
    ASSUME IInv, Handle, UNCHANGED clientVars
    PROVE  IInv'
<1>1. \/ Head(to_server[client_fd]).command = "add" /\ Add(client_fd)
      \/ Head(to_server[client_fd]).command = "move" /\ Move(client_fd)
      \/ Quit(client_fd) \/ Pong(client_fd) \/ Garbage
    BY DEF Handle
<1> QED BY <1>1, AddKeeps, MoveKeeps, QuitKeeps, PongKeeps, AtTheEnd
-----------------------------------------------------------------------------
(* The ping thread.                                                        *)

LEMMA PingKeeps ==
    ASSUME IInv, ping, UNCHANGED clientVars
    PROVE  IInv'
<1> DEFINE m == Message("ping", 0, NULL)
<1>1. /\ UNCHANGED <<pollVars, backlog, to_server, exited, phase, told, moves>>
      /\ remove_clients(Silent, FALSE)
    BY DEF ping, clientVars
<1>2. PICK pings : /\ pings = [c \in {clients[i] : i \in Occupied \ Removed(Silent)} |-> m]
                   /\ to_client' = Sent(pings) /\ up' \in IF Broken(pings) THEN BOOLEAN ELSE {TRUE}
    BY DEF ping
<1>3. TableTypes /\ TableIsSound /\ Silent \subseteq Occupied /\ to_client \in [Clients -> Seq(Messages)]
    BY DEF IInv, Types, TypeOK, TableTypes, Silent
<1>4. /\ TableTypes' /\ TableIsSound' /\ Occupied' \subseteq Occupied
      /\ \A i \in Occupied' : clients'[i] = clients[i] /\ clients'[get_opponent(i)] = clients[get_opponent(i)]
      /\ \A i \in Slots : clients'[i] \in {clients[i], NULL}
      /\ clients_count' <= clients_count
    BY <1>1, <1>3, TableAfterRemoval
<1>5. \A i \in Occupied : clients[i] \in Clients /\ i \in Slots
    BY <1>3 DEF TableTypes, Occupied
<1>6. m \in Messages /\ m.command = "ping" /\ ~IsStart(m)
    BY DEF Message, Messages, IsStart
<1>7. \A d \in DOMAIN pings : pings[d] = m /\ ~Unheard(d)
    BY <1>2, <1>5 DEF Unheard
<1> HIDE DEF m
<1>8. ASSUME NEW d \in Clients
      PROVE  /\ to_client'[d] \in Seq(Messages) /\ ToldOnce(to_client'[d], told[d])
             /\ Rival(to_client'[d], told[d]) = Rival(to_client[d], told[d])
             /\ Unheard(d) => to_client'[d] = to_client[d]
  <2>1. to_client[d] \in Seq(Messages) /\ ToldOnce(to_client[d], told[d])
      BY <1>3 DEF IInv, ToldOnceEach
  <2>2. CASE d \in DOMAIN pings /\ ~exited[d]
    <3>1. to_client'[d] = Append(to_client[d], m)
        BY <1>2, <1>7, <2>2, SentIs
    <3> QED BY <1>6, <1>7, <2>1, <2>2, <3>1, AppendOther, AppendProperties
  <2>3. CASE ~(d \in DOMAIN pings /\ ~exited[d])
    <3>1. to_client'[d] = to_client[d]
        BY <1>2, <2>3, SentIs
    <3> QED BY <2>1, <3>1
  <2> QED BY <2>2, <2>3
<1>9. to_client' \in [Clients -> Seq(Messages)] /\ ToldOnceEach' /\ Rivals' = Rivals
    BY <1>1, <1>2, <1>8, RivalsKept DEF Sent, ToldOnceEach
<1>10. Pairs'
    BY <1>1, <1>4, <1>5, <1>9, PairsKept DEF IInv
<1>11. Types'
  <2>1. online' \in [Slots -> BOOLEAN] /\ up' \in BOOLEAN
      BY <1>1, <1>2 DEF remove_clients, IInv, Types, TypeOK
  <2>2. \A d \in Clients : \A k \in DOMAIN to_client'[d] : to_client'[d][k].command \in {"add", "move", "ping"}
      BY <1>9 DEF ToldOnceEach, ToldOnce
  <2> QED BY <1>1, <1>4, <1>9, <2>1, <2>2 DEF IInv, Types, TypeOK, TableTypes, pollVars
<1>12. ASSUME NEW d \in Clients
       PROVE  /\ NotYet(d)' = NotYet(d) /\ Adds(d)' = Adds(d)
              /\ Unheard(d) => Unheard(d)'
              /\ Owns(d) => Owns(d)'
  <2>1. NotYet(d)' = NotYet(d) /\ Adds(d)' = Adds(d)
      BY <1>1 DEF NotYet, Adds
  <2>2. Unheard(d) => Unheard(d)'
      BY <1>1, <1>4, <1>8, GameServerAssumption DEF Unheard
  <2>3. Owns(d) => Owns(d)'
      BY <1>4 DEF Owns
  <2> QED BY <2>1, <2>2, <2>3
<1>13. AddsComeFirst'
    BY <1>1, <1>12 DEF IInv, AddsComeFirst, pollVars
<1>14. NamesHold'
  <2>1. fds' = fds /\ main' = main /\ client_fd' = client_fd /\ backlog' = backlog
      BY <1>1 DEF pollVars
  <2>2. main = "call" => clients_count' <= Len(fds)
      BY <1>3, <1>4, LenProperties DEF IInv, Types, NamesHold, TableTypes
  <2>3. ASSUME NEW k \in DOMAIN fds
        PROVE  Owns(fds[k])' /\ ~NotYet(fds[k])'
    <3>1. PICK d \in Clients : d = fds[k] /\ Owns(d) /\ ~NotYet(d)
        BY <2>3, ElementOfSeq DEF IInv, Types, NamesHold
    <3>2. Owns(d)' /\ ~NotYet(d)'
        BY <1>12, <3>1
    <3> QED BY <2>1, <3>1, <3>2 DEF Owns, NotYet, Adds
  <2>4. ASSUME main = "handle"
        PROVE  client_fd \notin backlog /\ (Unheard(client_fd)' \/ Owns(client_fd)')
    <3>1. PICK d \in Clients : d = client_fd /\ client_fd \notin backlog /\ (Unheard(d) \/ Owns(d))
        BY <2>4 DEF IInv, Types, NamesHold
    <3>2. Unheard(d)' \/ Owns(d)'
        BY <1>12, <3>1
    <3> QED BY <2>1, <3>1, <3>2 DEF Owns, Unheard
  <2> QED BY <2>1, <2>2, <2>3, <2>4 DEF IInv, NamesHold
<1> QED BY <1>4, <1>9, <1>10, <1>11, <1>13, <1>14 DEF IInv
-----------------------------------------------------------------------------
(* The clients.                                                            *)

\* Messages of a client more.
LEMMA SendIs ==
    ASSUME to_server \in [Clients -> Seq(Messages)], NEW c \in Clients,
           NEW messages \in Seq(Messages), Send(c, messages)
    PROVE  /\ to_server' \in [Clients -> Seq(Messages)]
           /\ \A d \in Clients : d # c => to_server'[d] = to_server[d]
           /\ \A k \in DOMAIN to_server'[c] :
                  \/ k \in DOMAIN to_server[c] /\ to_server'[c][k] = to_server[c][k]
                  \/ \E j \in DOMAIN messages : to_server'[c][k] = messages[j]
           /\ to_server[c] = <<>> => to_server'[c] = messages
<1>1. to_server'[c] = to_server[c] \o messages /\ to_server[c] \in Seq(Messages)
    BY DEF Send
<1>2. to_server'[c] \in Seq(Messages) /\ \A k \in DOMAIN to_server'[c] :
                  \/ k \in DOMAIN to_server[c] /\ to_server'[c][k] = to_server[c][k]
                  \/ \E j \in DOMAIN messages : to_server'[c][k] = messages[j]
  <2>1. /\ to_server'[c] \in Seq(Messages)
        /\ Len(to_server'[c]) = Len(to_server[c]) + Len(messages)
        /\ \A k \in 1..Len(to_server'[c]) :
               to_server'[c][k] = IF k <= Len(to_server[c]) THEN to_server[c][k] ELSE messages[k - Len(to_server[c])]
      BY <1>1, ConcatProperties
  <2>2. ASSUME NEW k \in DOMAIN to_server'[c], k > Len(to_server[c])
        PROVE  k - Len(to_server[c]) \in DOMAIN messages
      BY <1>1, <2>1, <2>2, LenProperties
  <2>3. ASSUME NEW k \in DOMAIN to_server'[c], ~(k > Len(to_server[c]))
        PROVE  k \in DOMAIN to_server[c] /\ k <= Len(to_server[c])
      BY <1>1, <2>1, <2>3, LenProperties
  <2>4. DOMAIN to_server'[c] = 1..Len(to_server'[c]) /\ Len(to_server[c]) \in Nat
      BY <1>1, <2>1, LenProperties
  <2> QED BY <2>1, <2>2, <2>3, <2>4
<1>3. to_server[c] = <<>> => to_server'[c] = messages
    BY <1>1, ConcatEmptySeq
<1> QED BY <1>2, <1>3 DEF Send

\* A client that sends changes nothing of what it was told.
LEMMA NothingRead ==
    ASSUME IInv, UNCHANGED <<serverVars, to_client, told>>,
           phase' \in [Clients -> {"absent", "new", "connected", "joining", "playing", "gone"}],
           backlog' \subseteq Clients, exited' \in [Clients -> BOOLEAN], moves' \in 0..MaxMoves,
           to_server' \in [Clients -> Seq(Messages)]
    PROVE  Types' /\ Rivals' = Rivals /\ ToldOnceEach'
<1>1. Types'
    BY DEF IInv, Types, TypeOK, serverVars, tableVars, pollVars
<1>2. Rivals' = Rivals
    BY RivalsKept
<1> QED BY <1>1, <1>2 DEF IInv, ToldOnceEach

LEMMA ConnectKeeps ==
    ASSUME IInv, NEW c \in Clients, Connect(c)
    PROVE  IInv'
<1>1. /\ UNCHANGED <<serverVars, to_server, to_client, exited, told, moves>>
      /\ backlog' = backlog \cup {c} /\ phase[c] = "new" /\ phase' = [phase EXCEPT ![c] = "connected"]
    BY DEF Connect, Advance
<1>2. Types' /\ Rivals' = Rivals /\ ToldOnceEach'
    BY <1>1, NothingRead DEF IInv, Types, TypeOK
<1>3. ASSUME NEW d \in Clients
      PROVE  OneClient(d)
  <2>1. clients' = clients /\ Adds(d)' = Adds(d) /\ phase'[d] = IF d = c THEN "connected" ELSE phase[d]
      BY <1>1 DEF serverVars, tableVars, Adds, IInv, Types
  <2>2. NotYet(c)
      BY <1>1 DEF NotYet
  <2> QED BY <1>1, <2>1, <2>2 DEF IInv, AddsComeFirst, NotYet, Unheard, OneClient
<1> QED BY <1>1, <1>2, <1>3, ClientFrame

LEMMA SendAddKeeps ==
    ASSUME IInv, NEW c \in Clients, SendAdd(c)
    PROVE  IInv'
<1> DEFINE m == Message("add", 0, c)
<1>1. /\ UNCHANGED <<serverVars, backlog, to_client, exited, told, moves>>
      /\ phase[c] = "connected" /\ phase' = [phase EXCEPT ![c] = "joining"] /\ Send(c, <<m>>)
    BY DEF SendAdd, Advance
<1>2. <<m>> \in Seq(Messages) /\ DOMAIN <<m>> = {1} /\ <<m>>[1] = m /\ m.command = "add"
    BY DEF Message, Messages
<1> HIDE DEF m
<1>3. to_server[c] = <<>> /\ NotYet(c)
    BY <1>1 DEF IInv, AddsComeFirst, NotYet
<1>4. /\ to_server' \in [Clients -> Seq(Messages)] /\ to_server'[c] = <<m>>
      /\ \A d \in Clients : d # c => to_server'[d] = to_server[d]
    BY <1>1, <1>2, <1>3, SendIs DEF IInv, Types
<1>5. Types' /\ Rivals' = Rivals /\ ToldOnceEach'
    BY <1>1, <1>4, NothingRead DEF IInv, Types, TypeOK
<1>6. ASSUME NEW d \in Clients
      PROVE  OneClient(d)
  <2>1. clients' = clients /\ phase'[d] = IF d = c THEN "joining" ELSE phase[d]
      BY <1>1 DEF serverVars, tableVars, IInv, Types
  <2>2. CASE d = c
      BY <1>1, <1>2, <1>3, <1>4, <2>1, <2>2 DEF Unheard, Adds, OneClient
  <2>3. CASE d # c
      BY <1>1, <1>4, <2>1, <2>3 DEF IInv, AddsComeFirst, NotYet, Unheard, Adds, OneClient
  <2> QED BY <2>2, <2>3
<1> QED BY <1>1, <1>5, <1>6, ClientFrame

\* Messages other than "add", of a client that is not new any more.
LEMMA SendsLater ==
    ASSUME IInv, NEW c \in Clients, phase[c] \notin {"absent", "new"},
           UNCHANGED <<serverVars, backlog>>,
           phase' \in [Clients -> {"absent", "new", "connected", "joining", "playing", "gone"}],
           NEW messages \in Seq(Messages), Send(c, messages),
           \A j \in DOMAIN messages : messages[j].command # "add",
           phase'[c] \in {phase[c], "gone"}, phase[c] = "connected" => phase'[c] = "gone",
           \A d \in Clients : /\ d # c => phase'[d] = phase[d]
                              /\ exited[d] => exited'[d]
                              /\ Unheard(d) => to_client'[d] = <<>>,
           told' = told,
           phase[c] = "playing" \/ \A j \in DOMAIN messages : messages[j].command # "move"
    PROVE  /\ to_server' \in [Clients -> Seq(Messages)]
           /\ \A d \in Clients : OneClient(d)
<1>1. /\ to_server' \in [Clients -> Seq(Messages)]
      /\ \A d \in Clients : d # c => to_server'[d] = to_server[d]
      /\ \A k \in DOMAIN to_server'[c] :
             \/ k \in DOMAIN to_server[c] /\ to_server'[c][k] = to_server[c][k]
             \/ \E j \in DOMAIN messages : to_server'[c][k] = messages[j]
    BY SendIs DEF IInv, Types
<1>2. clients' = clients
    BY DEF serverVars, tableVars
<1>3. Unheard(c) => \A j \in DOMAIN messages : messages[j].command # "move"
    BY DEF IInv, AddsComeFirst, Unheard
<1>4. phase'[c] \notin {"absent", "new", "connected"}
    BY DEF IInv, Types
<1>5. ASSUME NEW d \in Clients
      PROVE  OneClient(d)
  <2>1. CASE d = c
    <3>1. Adds(d)' \subseteq Adds(d) /\ Adds(d) \subseteq {1}
        BY <1>1, <2>1 DEF Adds, IInv, AddsComeFirst
    <3>2. NotYet(d)' => NotYet(d)
        BY <1>4, <2>1, <3>1 DEF NotYet
    <3>3. Unheard(d) => Unheard(d)'
        BY <1>1, <1>2, <1>3, <2>1 DEF Unheard
    <3> QED BY <1>4, <2>1, <3>1, <3>2, <3>3 DEF IInv, AddsComeFirst, OneClient
  <2>2. CASE d # c
      BY <1>1, <1>2, <2>2 DEF IInv, AddsComeFirst, NotYet, Unheard, Adds, OneClient
  <2> QED BY <2>1, <2>2
<1> QED BY <1>1, <1>5

LEMMA SendMoveKeeps ==
    ASSUME IInv, NEW c \in Clients, SendMove(c)
    PROVE  IInv'
<1> DEFINE ms == <<Message("move", 0, c)>>
<1>1. /\ UNCHANGED <<serverVars, backlog, to_client, exited, phase, told>>
      /\ phase[c] = "playing" /\ moves' \in 0..MaxMoves /\ Send(c, ms)
    BY LobbyAssumption DEF SendMove, IInv, Types, TypeOK
<1>2. ms \in Seq(Messages) /\ \A j \in DOMAIN ms : ms[j].command # "add"
    BY DEF Message, Messages
<1> HIDE DEF ms
<1>3. phase' \in [Clients -> {"absent", "new", "connected", "joining", "playing", "gone"}]
    BY <1>1 DEF IInv, Types
<1>4. \A d \in Clients : Unheard(d) => to_client'[d] = <<>>
    BY <1>1 DEF Unheard
<1>5. /\ to_server' \in [Clients -> Seq(Messages)]
      /\ \A d \in Clients : OneClient(d)
    BY <1>1, <1>2, <1>3, <1>4, SendsLater
<1>6. Types' /\ Rivals' = Rivals /\ ToldOnceEach'
    BY <1>1, <1>3, <1>5, NothingRead DEF IInv, Types, TypeOK
<1> QED BY <1>1, <1>5, <1>6, ClientFrame

LEMMA ExitKeeps ==
    ASSUME IInv, NEW c \in Clients, Exit(c)
    PROVE  IInv'
<1>1. PICK ms \in {<<Message("quit", 0, c), Ends(c)>>, <<Ends(c)>>} : Send(c, ms)
    BY DEF Exit
<1>2. /\ UNCHANGED <<serverVars, backlog, to_client, told, moves>>
      /\ phase[c] \in {"connected", "joining", "playing"} /\ phase' = [phase EXCEPT ![c] = "gone"]
      /\ exited' = [exited EXCEPT ![c] = TRUE]
    BY DEF Exit, Closed
<1>3. ms \in Seq(Messages) /\ \A j \in DOMAIN ms : ms[j].command \in {"quit", "end"}
  <2> DEFINE m1 == Message("quit", 0, c)
             m2 == Ends(c)
  <2>1. /\ m1 \in Messages /\ m1.command = "quit"
        /\ m2 \in Messages /\ m2.command = "end"
      BY DEF Message, Messages, Ends
  <2>2. ms \in {<<m1, m2>>, <<m2>>}
      BY <1>1
  <2> HIDE DEF m1, m2
  <2>3. CASE ms = <<m1, m2>>
      BY <2>1, <2>3
  <2>4. CASE ms = <<m2>>
      BY <2>1, <2>4
  <2> QED BY <2>2, <2>3, <2>4
<1>4. phase' \in [Clients -> {"absent", "new", "connected", "joining", "playing", "gone"}]
    BY <1>2 DEF IInv, Types
<1>5. exited' \in [Clients -> BOOLEAN] /\ \A d \in Clients : exited[d] => exited'[d]
    BY <1>2 DEF IInv, Types, TypeOK
<1>6. \A d \in Clients : Unheard(d) => to_client'[d] = <<>>
    BY <1>2 DEF Unheard
<1>7. phase'[c] = "gone" /\ \A d \in Clients : d # c => phase'[d] = phase[d]
    BY <1>2 DEF IInv, Types
<1>8. /\ to_server' \in [Clients -> Seq(Messages)]
      /\ \A d \in Clients : OneClient(d)
    BY <1>1, <1>2, <1>3, <1>4, <1>5, <1>6, <1>7, SendsLater
<1>9. Types' /\ Rivals' = Rivals /\ ToldOnceEach'
    BY <1>2, <1>4, <1>5, <1>8, NothingRead DEF IInv, Types, TypeOK
<1> QED BY <1>2, <1>8, <1>9, ClientFrame

\* A client reads a message: only a start changes what it was told, to what the message said.
LEMMA ListenKeeps ==
    ASSUME IInv, NEW c \in Clients, listen_server(c)
    PROVE  IInv'
<1>1. /\ phase[c] \in {"joining", "playing"} /\ to_client[c] # <<>>
      /\ to_client' = [to_client EXCEPT ![c] = Tail(to_client[c])]
      /\ UNCHANGED <<serverVars, backlog>>
    BY DEF listen_server
<1>2. PICK m : m = Head(to_client[c])
    OBVIOUS
<1>3. /\ to_client[c] \in Seq(Messages) /\ to_client \in [Clients -> Seq(Messages)]
      /\ Tail(to_client[c]) \in Seq(Messages) /\ ToldOnce(to_client[c], told[c])
    BY <1>1, HeadTailProperties DEF IInv, Types, ToldOnceEach
<1>4. ~Unheard(c) /\ ~NotYet(c)
    BY <1>1 DEF Unheard, IInv, AddsComeFirst
<1>5. \A d \in Clients : Unheard(d) => to_client'[d] = <<>>
    BY <1>1, <1>4 DEF Unheard
<1>6. \/ /\ m.command = "ping" /\ Send(c, <<Message("pong", 0, c)>>)
         /\ UNCHANGED <<clientVars, exited>>
      \/ /\ m.command = "add" /\ m.arg = "name_taken"
         /\ Advance(c, "joining", "gone") /\ Send(c, <<Ends(c)>>) /\ Closed(c)
         /\ UNCHANGED <<told, moves>>
      \/ /\ m.command = "add" /\ m.arg \in {"O", "X"}
         /\ Advance(c, "joining", "playing")
         /\ told' = [told EXCEPT ![c] = m.from]
         /\ UNCHANGED <<moves, to_server, exited>>
      \/ /\ m.command = "add" => m.arg = "no_enemy"
         /\ UNCHANGED <<clientVars, to_server, exited>>
    BY <1>2 DEF listen_server
<1>7. ASSUME told' = [told EXCEPT ![c] = IF IsStart(m) THEN m.from ELSE told[c]],
             to_server' \in [Clients -> Seq(Messages)],
             phase' \in [Clients -> {"absent", "new", "connected", "joining", "playing", "gone"}],
             exited' \in [Clients -> BOOLEAN], moves' = moves,
             \A d \in Clients : OneClient(d)
      PROVE  IInv'
  <2>1. told \in [Clients -> Clients \cup {NULL}]
      BY DEF IInv, Types, TypeOK
  <2>2. /\ to_client'[c] = Tail(to_client[c]) /\ told'[c] = IF IsStart(m) THEN m.from ELSE told[c]
        /\ \A d \in Clients : d # c => to_client'[d] = to_client[d] /\ told'[d] = told[d]
      BY <1>1, <1>3, <1>7, <2>1
  <2>3. /\ ToldOnce(to_client'[c], told'[c]) /\ Rival(to_client'[c], told'[c]) = Rival(to_client[c], told[c])
        /\ IsStart(m) => m.from \in Clients
      BY <1>1, <1>2, <1>3, <2>2, TailOfMessages
  <2>4. ToldOnceEach'
      BY <2>2, <2>3 DEF IInv, ToldOnceEach
  <2>5. \A d \in Clients : Rival(to_client'[d], told'[d]) = Rival(to_client[d], told[d])
      BY <2>2, <2>3
  <2>6. Rivals' = Rivals
      BY <2>5 DEF Rivals
  <2>7. Types'
    <3>1. told' \in [Clients -> Clients \cup {NULL}] /\ to_client' \in [Clients -> Seq(Messages)]
        BY <1>1, <1>3, <1>7, <2>1, <2>3
    <3>2. \A d \in Clients : \A k \in DOMAIN to_client'[d] : to_client'[d][k].command \in {"add", "move", "ping"}
        BY <2>4 DEF ToldOnceEach, ToldOnce
    <3> QED BY <1>1, <1>7, <3>1, <3>2 DEF IInv, Types, TypeOK, serverVars, tableVars, pollVars
  <2> QED BY <1>1, <1>7, <2>4, <2>6, <2>7, ClientFrame
<1>8. CASE /\ m.command = "ping" /\ Send(c, <<Message("pong", 0, c)>>)
           /\ UNCHANGED <<clientVars, exited>>
  <2>1. PICK r : r = Message("pong", 0, c) /\ r \in Messages /\ r.command = "pong" /\ Send(c, <<r>>)
      BY <1>8 DEF Message, Messages
  <2>2. <<r>> \in Seq(Messages) /\ \A j \in DOMAIN <<r>> : <<r>>[j].command = "pong"
      BY <2>1
  <2>3. ~IsStart(m) /\ UNCHANGED <<phase, told, moves, exited>>
      BY <1>8 DEF IsStart, clientVars
  <2>4. /\ phase' \in [Clients -> {"absent", "new", "connected", "joining", "playing", "gone"}]
        /\ exited' \in [Clients -> BOOLEAN] /\ told' = [told EXCEPT ![c] = told[c]]
      BY <2>3 DEF IInv, Types, TypeOK
  <2>5. to_server' \in [Clients -> Seq(Messages)] /\ \A d \in Clients : OneClient(d)
      BY <1>1, <1>5, <2>1, <2>2, <2>3, <2>4, SendsLater
  <2> QED BY <1>7, <2>3, <2>4, <2>5
<1>9. CASE /\ m.command = "add" /\ m.arg = "name_taken"
           /\ Advance(c, "joining", "gone") /\ Send(c, <<Ends(c)>>) /\ Closed(c)
           /\ UNCHANGED <<told, moves>>
  <2>1. PICK r : r = Ends(c) /\ r \in Messages /\ r.command = "end" /\ Send(c, <<r>>)
      BY <1>9 DEF Message, Messages, Ends
  <2>2. <<r>> \in Seq(Messages) /\ \A j \in DOMAIN <<r>> : <<r>>[j].command = "end"
      BY <2>1
  <2>3. ~IsStart(m) /\ UNCHANGED <<told, moves>>
      BY <1>9 DEF IsStart
  <2>4. /\ phase' \in [Clients -> {"absent", "new", "connected", "joining", "playing", "gone"}]
        /\ phase'[c] = "gone" /\ \A d \in Clients : d # c => phase'[d] = phase[d]
      BY <1>9 DEF Advance, IInv, Types
  <2>5. /\ exited' \in [Clients -> BOOLEAN] /\ told' = [told EXCEPT ![c] = told[c]]
        /\ \A d \in Clients : exited[d] => exited'[d]
      BY <1>9, <2>3 DEF Closed, IInv, Types, TypeOK
  <2>6. to_server' \in [Clients -> Seq(Messages)] /\ \A d \in Clients : OneClient(d)
      BY <1>1, <1>5, <2>1, <2>2, <2>3, <2>4, <2>5, SendsLater
  <2> QED BY <1>7, <2>3, <2>4, <2>5, <2>6
<1>10. ASSUME to_server' = to_server, exited' = exited, moves' = moves,
              told' = [told EXCEPT ![c] = IF IsStart(m) THEN m.from ELSE told[c]],
              phase' = phase \/ (IsStart(m) /\ phase' = [phase EXCEPT ![c] = "playing"])
       PROVE  IInv'
  <2>1. /\ to_server' \in [Clients -> Seq(Messages)] /\ exited' \in [Clients -> BOOLEAN]
        /\ phase' \in [Clients -> {"absent", "new", "connected", "joining", "playing", "gone"}]
      BY <1>10 DEF IInv, Types, TypeOK
  <2>2. IsStart(m) => m.from \in Clients
      BY <1>1, <1>2, <1>3, TailOfMessages
  <2>3. told'[c] = (IF IsStart(m) THEN m.from ELSE told[c]) /\ \A d \in Clients : d # c => told'[d] = told[d]
      BY <1>10 DEF IInv, Types, TypeOK
  <2>4. ASSUME NEW d \in Clients
        PROVE  OneClient(d)
    <3>1. clients' = clients /\ Adds(d)' = Adds(d) /\ backlog' = backlog
        BY <1>1, <1>10 DEF serverVars, tableVars, Adds
    <3>2. CASE d = c
      <4>1. phase'[d] \in {phase[d], "playing"} /\ (phase'[d] # phase[d] => IsStart(m))
          BY <1>10, <3>2 DEF IInv, Types
      <4>2. phase'[d] = "playing" => told'[d] # NULL
          BY <2>2, <2>3, <3>2, <4>1, GameServerAssumption DEF IInv, AddsComeFirst
      <4>3. NotYet(d)' => NotYet(d)
          BY <3>1, <4>1 DEF NotYet
      <4> QED BY <1>1, <1>4, <1>10, <3>1, <3>2, <4>1, <4>2, <4>3 DEF IInv, AddsComeFirst, OneClient
    <3>3. CASE d # c
      <4>1. phase'[d] = phase[d] /\ to_client'[d] = to_client[d] /\ told'[d] = told[d]
          BY <1>1, <1>10, <2>3, <3>3 DEF IInv, Types
      <4> QED BY <1>10, <3>1, <4>1 DEF IInv, AddsComeFirst, NotYet, Unheard, OneClient
    <3> QED BY <3>2, <3>3
  <2> QED BY <1>7, <1>10, <2>1, <2>4
<1>11. CASE /\ m.command = "add" /\ m.arg \in {"O", "X"}
            /\ Advance(c, "joining", "playing")
            /\ told' = [told EXCEPT ![c] = m.from]
            /\ UNCHANGED <<moves, to_server, exited>>
  <2>1. IsStart(m) /\ phase' = [phase EXCEPT ![c] = "playing"]
      BY <1>11 DEF IsStart, Advance
  <2> QED BY <1>10, <1>11, <2>1
<1>12. CASE /\ m.command = "add" => m.arg = "no_enemy"
            /\ UNCHANGED <<clientVars, to_server, exited>>
  <2>1. ~IsStart(m) /\ UNCHANGED <<phase, told, moves>>
      BY <1>12 DEF IsStart, clientVars
  <2>2. told' = [told EXCEPT ![c] = told[c]]
      BY <2>1 DEF IInv, Types, TypeOK
  <2> QED BY <1>10, <1>12, <2>1, <2>2
<1> QED BY <1>6, <1>8, <1>9, <1>11, <1>12
-----------------------------------------------------------------------------
(* The theorems.                                                           *)

LEMMA LobbyStarts ==
    ASSUME LobbyInit
    PROVE  IInv
<1>1. /\ clients = [i \in Slots |-> NULL] /\ online = [i \in Slots |-> FALSE]
      /\ clients_count = 0 /\ up = TRUE
      /\ to_client = [c \in Clients |-> <<>>]
      /\ exited = [c \in Clients |-> FALSE] /\ told = [c \in Clients |-> NULL]
      /\ main = "check" /\ fds = <<>> /\ nfds = 0 /\ client_fd = NULL
      /\ backlog = {}
      /\ to_server = [c \in Clients |-> <<>>]
      /\ moves = 0
    BY DEF LobbyInit, Init, TableInit
<1>2. phase \in [Clients -> {"new", "absent"}]
    BY DEF LobbyInit
<1>3. <<>> \in Seq(Messages) /\ <<>> \in Seq(Clients) /\ Len(<<>>) = 0 /\ DOMAIN <<>> = {}
    BY EmptySeq
<1>4. Types
    BY <1>1, <1>2, <1>3, LobbyAssumption DEF Types, TypeOK
<1>5. Occupied = {}
    BY <1>1 DEF Occupied
<1>6. TableIsSound
  <2>1. {i \in Occupied : get_opponent(i) \in Free} = {}
      BY <1>5
  <2> QED BY <1>1, <1>5, <2>1, FS_EmptySet DEF TableIsSound
<1>7. Pairs /\ ToldOnceEach
    BY <1>1, <1>3, <1>5 DEF Pairs, ToldOnceEach, ToldOnce, StartsIn
<1>8. AddsComeFirst
    BY <1>1, <1>2, <1>3, GameServerAssumption DEF AddsComeFirst, Adds, Unheard
<1>9. NamesHold
    BY <1>1, <1>3 DEF NamesHold
<1> QED BY <1>4, <1>6, <1>7, <1>8, <1>9 DEF IInv

LEMMA LobbyStep ==
    ASSUME IInv, [LobbyNext]_vars
    PROVE  IInv'
<1>1. CASE UNCHANGED vars
  <2>1. UNCHANGED <<tableVars, pollVars, up, netVars, clientVars>>
      BY <1>1 DEF vars, gameVars, serverVars
  <2>2. Types'
      BY <2>1 DEF IInv, Types, TypeOK, tableVars, pollVars, netVars, clientVars
  <2>3. client_fd' \in Clients => phase[client_fd'] \notin {"absent", "new"}
      BY <2>1 DEF IInv, AddsComeFirst, pollVars
  <2>4. /\ TableIsSound' /\ Pairs' /\ ToldOnceEach' /\ AddsComeFirst'
      BY <2>1, <2>3, PollFrame DEF netVars, clientVars
  <2>5. NamesHold'
      BY <2>1 DEF IInv, NamesHold, pollVars, tableVars, netVars, clientVars, Owns, NotYet, Adds, Unheard, Occupied
  <2> QED BY <2>2, <2>4, <2>5 DEF IInv
<1>2. CASE ServerStep
    BY <1>2, CheckMessages, CallsPoll, Returns, HandleKeeps, PingKeeps DEF ServerStep, MainThread
<1>3. CASE \E c \in Clients : Connect(c) \/ SendAdd(c) \/ listen_server(c) \/ SendMove(c) \/ Exit(c)
    BY <1>3, ConnectKeeps, SendAddKeeps, ListenKeeps, SendMoveKeeps, ExitKeeps
<1> QED BY <1>1, <1>2, <1>3 DEF LobbyNext

LEMMA Inductive == LobbySpec => []IInv
<1>1. LobbyInit => IInv
    BY LobbyStarts
<1>2. IInv /\ [LobbyNext]_vars => IInv'
    BY LobbyStep
<1> QED BY <1>1, <1>2, PTL DEF LobbySpec

\* Types of the variables of the server and of the clients.
THEOREM TypeCorrect == LobbySpec => []TypeOK
<1>1. IInv => TypeOK
    BY DEF IInv, Types
<1> QED BY <1>1, Inductive, PTL

\* Whatever the ping thread removes while the main thread polls and handles: the count is
\* right, names are unique, and at most one player waits.
THEOREM Sound == LobbySpec => []TableIsSound
<1>1. IInv => TableIsSound
    BY DEF IInv
<1> QED BY <1>1, Inductive, PTL

\* Rivals are what the properties call RivalOf.
LEMMA RivalIs ==
    ASSUME NEW c \in Clients
    PROVE  RivalOf(c) = Rivals[c]
<1>1. Starts(c) = StartsIn(to_client[c])
    BY DEF Starts, StartsIn, IsStart
<1> QED BY <1>1 DEF RivalOf, Rivals, Rival

\* A player in the table sits next to the one it was told to play.
THEOREM Paired == LobbySpec => []GamesStayPaired
<1>1. ASSUME IInv
      PROVE  GamesStayPaired
  <2>1. \A i \in Occupied : clients[i] \in Clients
      BY <1>1 DEF IInv, Types, TypeOK, Occupied
  <2>2. \A i \in Occupied : RivalOf(clients[i]) = Rivals[clients[i]]
      BY <2>1, RivalIs
  <2> QED BY <1>1, <2>2 DEF IInv, Pairs, GamesStayPaired
<1> QED BY <1>1, Inductive, PTL

\* Only the moves of its rival reach a client.
THEOREM Moves == LobbySpec => []MovesReachRival
<1>1. ASSUME IInv
      PROVE  MovesReachRival
  <2>1. ASSUME NEW c \in Clients, NEW k \in DOMAIN to_client[c], to_client[c][k].command = "move"
        PROVE  to_client[c][k].from = RivalOf(c)
    <3>1. to_client[c][k].from = Rival(to_client[c], told[c])
        BY <1>1, <2>1 DEF IInv, ToldOnceEach, ToldOnce
    <3> QED BY <3>1, RivalIs DEF Rivals
  <2> QED BY <2>1 DEF MovesReachRival
<1> QED BY <1>1, Inductive, PTL
=============================================================================
