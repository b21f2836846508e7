--------------------------------- MODULE Fifo ---------------------------------
(***************************************************************************)
(* cw05/zad3: producers send the pieces of their files through a FIFO to   *)
(* consumers, which add each piece to the row of its producer in one file. *)
(*                                                                         *)
(* A file is short: stdio keeps all that a producer writes until fclose    *)
(* and then writes it at once, and one read of a consumer takes everything *)
(* that is in the FIFO.  Its text has neither blanks nor NULs; what comes  *)
(* after its last whole piece is not sent.                                 *)
(***************************************************************************)
EXTENDS Integers, Sequences, SequencesExt

CONSTANTS Producers,    \* the numbers of their rows, from 0
          Consumers,
          Pieces        \* bound: how many pieces of N characters each producer's file has

ASSUME FifoAssumption == /\ Pieces \in [Producers -> Nat]
                         /\ Consumers \cap {"fifo"} = {} /\ Producers \cap Consumers = {}

VARIABLES main,         \* "create_file", "fork", "wait" or "done"
          state,        \* of each process: see Processes
          fifo,         \* the messages in it
          buffer,       \* the messages each consumer has read and not handled yet
          place,        \* the first blank of the row, in the consumer that looked for it
          rows          \* the result file: the piece in each place, 0 for blanks

fifoVars == <<main, state, fifo, buffer, place, rows>>

\* "none", "starting", "blocked" in fopen, "open", "closing" after the end of file, "done",
\* or "killed" by SIGPIPE.
Processes == Producers \cup Consumers
In(P, where) == {p \in P : state[p] \in where}
HasReader == In(Consumers, {"blocked", "open", "closing"}) # {}
HasWriter == In(Producers, {"blocked", "open"}) # {}

\* Who ends closes the FIFO; what is in it is discarded when nobody else has it open or
\* waits in fopen.
Ends(p, how, messages) ==
    /\ state' = [state EXCEPT ![p] = how]
    /\ fifo' = IF In(Processes \ {p}, {"blocked", "open", "closing"}) = {} THEN <<>> ELSE messages

\* The consumers are forked before the file is created, the producers after.
FifoInit == /\ main = "create_file"
            /\ state = [p \in Processes |-> IF p \in Consumers THEN "starting" ELSE "none"]
            /\ fifo = <<>> /\ buffer = [c \in Consumers |-> <<>>]
            /\ place = [c \in Consumers |-> 0]
            /\ rows = [p \in Producers |-> <<>>]

\* No row has room for more than the pieces of its producer, and one to be told by.
create_file == /\ main = "create_file" /\ main' = "fork"
               /\ rows' = [p \in Producers |-> [k \in 1..(Pieces[p] + 1) |-> 0]]
               /\ UNCHANGED <<state, fifo, buffer, place>>

ForkProducer(p) == /\ main = "fork" /\ state[p] = "none"
                   /\ \A q \in Producers : q < p => state[q] # "none"
                   /\ state' = [state EXCEPT ![p] = "starting"]
                   /\ UNCHANGED <<main, fifo, buffer, place, rows>>

Wait == \/ /\ main = "fork" /\ In(Producers, {"none"}) = {} /\ main' = "wait"
           /\ UNCHANGED <<state, fifo, buffer, place, rows>>
        \/ /\ main = "wait" /\ In(Processes, {"done", "killed"}) = Processes /\ main' = "done"
           /\ UNCHANGED <<state, fifo, buffer, place, rows>>

\* fopen waits for the other side, and ends its waiting.
fopen(p) ==
    /\ state[p] = "starting"
    /\ LET others == IF p \in Producers THEN Consumers ELSE Producers
           here == IF p \in Producers THEN HasReader ELSE HasWriter
       IN state' = [q \in Processes |-> IF q = p THEN (IF here THEN "open" ELSE "blocked")
                                        ELSE IF q \in In(others, {"blocked"}) THEN "open"
                                        ELSE state[q]]
    /\ UNCHANGED <<main, fifo, buffer, place, rows>>

\* The producer has read its file; what it has written goes out.
fclose(p) ==
    /\ p \in Producers /\ state[p] = "open"
    /\ IF HasReader \/ Pieces[p] = 0
       THEN Ends(p, "done", fifo \o [k \in 1..Pieces[p] |-> [row |-> p, piece |-> k]])
       ELSE Ends(p, "killed", fifo)
    /\ UNCHANGED <<main, buffer, place, rows>>

Idle(c) == state[c] = "open" /\ buffer[c] = <<>>

\* A mutant of fread: the consumer's stream has no buffer.
fread_OneMessage(c) == /\ Idle(c) /\ fifo # <<>>
                       /\ buffer' = [buffer EXCEPT ![c] = <<Head(fifo)>>] /\ fifo' = Tail(fifo)
                       /\ UNCHANGED <<main, state, place, rows>>

fread(c) == /\ Idle(c) /\ fifo # <<>>
            /\ buffer' = [buffer EXCEPT ![c] = fifo] /\ fifo' = <<>>
            /\ UNCHANGED <<main, state, place, rows>>

\* A mutant of EndOfFile: a FIFO that is empty is at its end.
EndOfFile_IfEmpty(c) == /\ Idle(c) /\ fifo = <<>>
                        /\ state' = [state EXCEPT ![c] = "closing"]
                        /\ UNCHANGED <<main, fifo, buffer, place, rows>>

EndOfFile(c) == /\ Idle(c) /\ fifo = <<>> /\ ~HasWriter
                /\ state' = [state EXCEPT ![c] = "closing"]
                /\ UNCHANGED <<main, fifo, buffer, place, rows>>

\* write_to_file looks for the place of a piece before it locks the file,
FindPlace(c) ==
    /\ buffer[c] # <<>> /\ place[c] = 0
    /\ LET row == rows[Head(buffer[c]).row]
       IN place' = [place EXCEPT ![c] = SelectInSeq(row, LAMBDA piece : piece = 0)]
    /\ UNCHANGED <<main, state, fifo, buffer, rows>>

\* and puts it there.
write_to_file(c) ==
    /\ place[c] # 0
    /\ rows' = [rows EXCEPT ![Head(buffer[c]).row][place[c]] = Head(buffer[c]).piece]
    /\ place' = [place EXCEPT ![c] = 0]
    /\ buffer' = [buffer EXCEPT ![c] = Tail(@)]
    /\ UNCHANGED <<main, state, fifo>>

\* What was written since the end of the file may go with it.
CloseFifo(c) == /\ state[c] = "closing" /\ Ends(c, "done", fifo)
                /\ UNCHANGED <<main, buffer, place, rows>>

MainStep == create_file \/ Wait \/ \E p \in Producers : ForkProducer(p)
Process(p) == \/ fopen(p) \/ fclose(p)
              \/ p \in Consumers /\ (\/ fread(p) \/ EndOfFile(p) \/ FindPlace(p)
                                     \/ write_to_file(p) \/ CloseFifo(p))

FifoNext == MainStep \/ \E p \in Processes : Process(p)
-----------------------------------------------------------------------------
\* Who has pieces that are not in the file yet.
Holders == Consumers \cup {"fifo"}
Held(h) == IF h = "fifo" THEN fifo ELSE buffer[h]

\* Where the pieces of a producer are in a sequence of messages, and which they are.
Own(p, messages) == {k \in DOMAIN messages : messages[k].row = p}
Left(p, messages) == {messages[k].piece : k \in Own(p, messages)}
InOrder(p, messages) ==
    \A j, k \in Own(p, messages) : j < k => messages[j].piece < messages[k].piece

\* The first pieces of a producer are in its row, the others with one holder.
InOneHand(p, saved, holder) ==
    /\ rows[p] = [k \in 1..(Pieces[p] + 1) |-> IF k <= saved THEN k ELSE 0]
    /\ \A h \in Holders : /\ InOrder(p, Held(h))
                          /\ Left(p, Held(h)) = IF h = holder THEN (saved + 1)..Pieces[p] ELSE {}

\* What a producer wrote was discarded with the FIFO.
Discarded(p) == /\ rows[p] = [k \in 1..(Pieces[p] + 1) |-> 0]
                /\ \A h \in Holders : Left(p, Held(h)) = {}
                /\ In(Consumers, {"done"}) # {}

\* Nothing comes twice, and nothing is lost (cw05/readme.md) while no consumer has ended: the
\* row of a producer holds its first pieces, and once it has closed the FIFO the others are,
\* in their order, all there or all with one consumer; so two consumers never look for a
\* place in the same row, which only the buffers of stdio see to.  After a consumer has seen
\* the end and gone, all the pieces of a producer may be lost, but never only some.
PiecesInOneHand ==
    \A p \in Producers : state[p] = "done" =>
        \/ \E saved \in 0..Pieces[p], holder \in Holders : InOneHand(p, saved, holder)
        \/ Discarded(p)

\* If every process has opened the FIFO before a producer closes it, all of them end, and
\* every row is complete.  A consumer that comes later may wait for ever in fopen, and a
\* producer that comes when the consumers have gone does.
RowsComplete ==
    []( In(Producers, {"done", "killed"}) # {} => In(Processes, {"none", "starting", "blocked"}) = {} )
        => <>(main = "done" /\ \A p \in Producers : \A k \in 1..Pieces[p] : rows[p][k] = k)
=============================================================================
