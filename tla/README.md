# The operating-systems course programs in TLA+

`src/` holds ten sets of C programs (cw01 to cw10) written for a course on operating
systems.  They share no code.  Half of them are concurrent: processes over shared memory
and semaphores, threads over mutexes and condition variables, signal handlers, message
queues, sockets, FIFOs.  This directory models them in TLA+, checks the models with TLC
and proves the most important results with TLAPS.

`PROJECT.json` lists the components, the runs, the mutants, the lines each definition
models, the disagreements found and the hazards.

## 1. Inventory

### Modelled

| part | state it keeps | operations | what is hard | what makes it correct |
|---|---|---|---|---|
| **Table of word counts** (cw01) | a table of pointers to blocks | create, save, remove a block, remove all | holes that are filled again, a table that is full | a block is at its index until it is freed, once |
| **Signals, burst** (cw04/zad3a) sender, catcher | `count` of each process, the loop variables, pending signals, interrupted handlers | send all, send the summary, count, send back | SIGUSR1 that merge when pending; `handler1` interrupts the loop of `handler2` that reads `count` | no signal is made up, real-time ones are not lost, both programs end |
| **Signals, handshake** (cw04/zad3b) | the same, and `wait` | the same, one at a time, each confirmed | `wait` raised before sending, lowered in a handler; nested handlers | at most one signal under way, none lost, both end |
| **Pipeline of commands** (cw05/zad1) | two pipes, one command that runs | start a command, await it, hand its pipe on | each command is awaited before the next starts, pipes are bounded | each command reads what the one before it wrote; a line ends if its outputs fit |
| **Producers and consumers** (cw05/zad3) | the FIFO, the stdio buffers of the consumers, the result file | open, write, read, find a place, write it, close | a place is looked for before the file is locked; who opens too late | each row has the pieces of its producer, in order; all end |
| **Chat** (cw06/zad1 System V, zad2 POSIX) server, clients of two processes | `connected_clients`, a queue per client and one of the server, `client_id` | INIT, LIST, 2ALL, 2ONE, STOP, SIGINT, exit handlers | priorities that reorder a client's orders, bounded queues in both directions, two readers of one queue, numbers given again, queues that go away, descriptor 0 | a number means one client on both sides, messages reach others and in order, who asks is answered, who leaves is forgotten, one client does not end the server |
| **Pizzeria** (cw07/zad1 System V, zad2 POSIX) | two cyclic arrays in shared memory, five counting semaphores, the locals of each cook and supplier | cook and supplier loops, fork/exec/attach, SIGINT handler, start | interleaving, units of capacity travelling between processes, objects removed under running processes, leftovers of a crashed run | never more pizzas than slots, one process at a time in an array, no pizza lost, doubled or made up, deliveries go on, SIGINT empties the pizzeria |
| **Negative** (cw08) | the picture, its negative, what each thread has left to do | read, create threads, compute, join, save | how 256 values or the columns are divided, joins, a flag that is read before it is set | every pixel computed, by one thread, before the picture is saved |
| **Santa** (cw09/zad1) | `waiting_reindeers`, `waiting_elves`, `santa_sleeping`, five mutexes, five condition variables | loops of Santa, reindeer and elves; cancellation | waits without a predicate, decisions used after unlocking, nested mutexes, cancelled threads | a delivery has all reindeer, a meeting three elves, nobody is forgotten, the program ends |
| **Tic-tac-toe servers** (cw10/zad1 streams, zad2 datagrams) main thread, ping thread | table `clients` with `clients_count`, the poll set, the sockets | add, move, quit, pong, ping | the table changes between building the poll set, polling and reading; both threads remove players, always in pairs; slots given again; one socket read before the other | count and table agree, names are unique, pairs stay together, moves reach the rival |
| **Tic-tac-toe client** (cw10) listening thread, playing thread | `state`, `arg`, `buffer`, `board` | receive a message, start a game, move, end | state stored without the mutex, `arg` in a buffer that is overwritten | the two boards of a game agree, players take turns, a game ends by the rules |

How they interact.  Sender and catcher: signals in both directions.  Commands: a pipe from
each to the next.  Producers and consumers: the FIFO, then a file.  Chat: messages over
queues; a client's parent and child share its queue, the child is killed by the parent.
Pizzeria: shared memory and semaphores; the parent only forks, waits and cleans up.
Santa, Negative: threads over shared variables.  Game: datagrams or streams between the
clients and the server, a mutex between the two threads of each.

### Not modelled

| part | what it does | why not |
|---|---|---|
| cw02 filters, directory walks | copy without empty lines; grep-like filter; counters by file type | sequential functions of files; nothing but what they print could be said of them |
| cw03/zad1, zad3 | forked children that print or search | the processes share nothing |
| cw03/zad2 integral | children write their share into files, the parent adds up after it has awaited all | the shares are floating-point numbers, and whether their sum is right is a matter of rounding |
| cw04/zad1, zad2 | demonstrations of inherited masks, pending signals, sigaction flags | what they show is the kernel's behaviour |
| cw05/zad2 mail | popen of sort and mail | input and output only |

Formatting, logging, time stamps and the wording of messages are left out everywhere.

## 2. Modules

| module | stands on | models |
|---|---|---|
| `Blocks` | | the table of cw01 and the commands that use it |
| `Signals` | | two processes, pending signals that merge or queue, the stack of interrupted flows |
| `SignalBurst`, `SignalHandshake` | `Signals` | the two protocols of cw04/zad3 |
| `Commands`, `Fifo` | | cw05/zad1 and cw05/zad3 |
| `MCSmallPrograms` | the modules above | all of these for TLC, one program in each behaviour |
| `SmallProgramsProof` | `MCSmallPrograms` | proof: what is kept, sent or piped is not lost |
| `ChatQueues` | | what both chats have in common: constants, variables, messages, properties |
| `Chat`, `ChatPosix` | `ChatQueues` | server and clients of cw06/zad1 and of cw06/zad2 |
| `MCChats` | both (INSTANCE) | one or the other for TLC |
| `ChatProof` | `MCChats` | proof: numbers, recipients and order in both; orders and slots of members in cw06/zad2 |
| `Pizzeria` | | the loops of cook.c and supplier.c |
| `Bakery` | | what the pizzeria promises: two bounded first-in first-out queues |
| `PizzeriaImpl` | `Pizzeria`, `Bakery` (INSTANCE) | the refinement mapping |
| `PizzeriaLife` | `Pizzeria` | start, attach, crash, restart, as both variants have them |
| `PizzeriaSysV`, `PizzeriaPosix` | `PizzeriaLife` | what SIGINT and a restart do to System V and to POSIX objects |
| `MCPizzeriaObjects` | both (INSTANCE) | the life of one or the other for TLC |
| `PizzeriaProof` | `PizzeriaImpl`, `MCPizzeriaObjects` | proof: the safety of the kitchen, every step is one of `Bakery` or a stutter, and what SIGINT, crashes and restarts leave of it in both variants |
| `Negative` | | cw08 |
| `NegativeProof` | `Negative` | proof: the saved picture, the shares |
| `Santa` | | cw09/zad1 |
| `SantaProof` | `Santa` | proof: who is there when Santa opens |
| `GameTable` | | the table of players of both servers of cw10 |
| `GameServer` | `GameTable` | both threads of cw10/zad1/server.c |
| `GameLobby` | `GameServer` | the server with clients that come, play, fall silent and go |
| `GameTableProof` | `GameTable` | lemmas: what adding and removing do to the table |
| `GameLobbyProof` | `GameLobby`, `GameTableProof` | proof: the table, the pairs and the moves |
| `DatagramServer` | `GameTable` | both threads of cw10/zad2/server.c |
| `GameBoard` | | the board of client.c, and the rules of the game |
| `GameClient` | `DatagramServer`, `GameBoard` | both threads of a client, with the server |
| `GameClientProof` | `GameClient`, `GameTableProof` | proof: the boards of a game, whose turn it is, its end by the rules |

Each `MC...` module gives TLC its model values and small sets of processes.
Programs that share no code share a run where each is small; a variable `program` or
`objects` says which one a behaviour is about, and the others keep their initial state.
Definitions named `X_Something` with the comment "A mutant of X" are plausible wrong
versions of X; put in its place they make the property that `PROJECT.json` names fail.

## 3. How the modules correspond to the code

**Word counts.**  `create_table` asks for `size` entries of the size of a block, which is
twice that of a pointer, so the entry at `size`, where the search in `save_in_memory` ends
when the table is full, exists.  What is stored there is replaced by the next block, and
neither `remove_block` nor `remove_array` reaches it: `BlocksKept` speaks of the blocks
within the table.  `wc_files` and `remove_block` before `create_table` end the program.

**Signals.**  `stack[p]` is the list of interrupted flows of control of a process, the
running one first: `Deliver` pushes a handler, `Return` pops it, `<<>>` is a process that
exited.  A handler has its own signal blocked and no other (`sa_mask` is empty), so the
other one can interrupt it at each label.  `mode` is the argument of both
programs: KILL and SIGQUEUE both send SIGUSR1, which merges when it is pending, SIGRT sends
real-time signals, which are queued (`Queued`).  Left out: modes that the programs do not
know, the two programs started with different modes, the value that `sigqueue` carries
(only printed).  `SignalBurst` takes `handler1` as one step (`Count`), `handler2` of the
catcher as its loop (`SendBack`, `Answer`).  `SignalHandshake` splits the sender's loop at
`while (wait)`, `wait = true` and `kill`, and the catcher's `handler1` at counting,
confirming and printing.

**Commands.**  A command reads its input to its end and writes an output of a size that is
chosen with the line; `Read` and `Write` move one unit through a pipe that holds `PipeSize`.
`Start` is `pipe`, `fork` and the closing of the end for writing, `Awaited` the return of
`wait`, after which `curr` becomes `prev`.  The output of the last command goes to the
terminal.  Left out: how the line and its components are taken apart, commands that do not
read all of their input, a failing `execvp`.

**Producers and consumers.**  stdio keeps what a producer writes until `fclose`, when all of
it goes out at once, and one read of a consumer takes all that is there: files are short
(cw05/readme.md asks for that), and have neither blanks nor NULs.  `fopen` of a FIFO waits for the other
side; a producer that closes it when the readers have gone is killed by SIGPIPE; `EndOfFile`
needs an empty FIFO and no writer.  When the last process that has the FIFO open ends, what is
in it is discarded (`Ends`): a producer that still found the only consumer between its end of
file and its `fclose` loses all it wrote.  `FindPlace` and `write_to_file` are two steps, because
the place is looked for before the file is locked.

**Chat.**  Every send to and receipt from a queue is an action.  The sends that a handler of
the server makes are kept in `outbox`, by the slot they go to, because each of them may wait
for room; `SendNext` makes the one with the lowest slot, as the loops of the code do.  A failed send ends the server, which runs `close_queue` (`Exiting`).  A client has a
`parent` label and a `child` label.  Two fields of a message (`from`, `order`) exist for the
properties: `from` also stands for the key or the name that an INIT carries.  Left out of
both: `server_records.txt` and failures of `save_message`, receiver numbers outside the
table, failures before the client's queues are open, SIGINT during start or exit, a server
that is started again.

In zad1 the server takes the first message of the lowest type; the parent of a client awaits
the answers to INIT and LIST, the child takes whatever comes; `stop_action` and the exit
handler `remove_queue` send one STOP each, which is why there are two.  `msqid` 0, which the
table would take for a free slot, is left out.

In zad2 (`ChatPosix`) a message is received by priority, which is the number of its type:
INIT first, STOP last.  (cw06/readme.md asks for STOP first; the code is followed.)  The
parent polls and takes what comes, the child reads commands and awaits the answer to LIST.
Where a process awaits one kind of message and takes whatever comes first, the model does
too: a message that is not the answer to INIT is read as some number.  A failed send is not
retried, a queue that was unlinked still takes messages from who has it open.  `zero` is what the server's
descriptor 0 is: its standard input, until a STOP for a free slot closes it; then nothing;
then the queue of the next client, whose slot goes on to look free.  A client that finds no
server exits and leaves its queue behind.  `errno` is taken to be 0 before a message is
taken apart, and SIGKILL of the child to be immediate.

**Pizzeria.**  One action per semaphore operation and two per access to an array (the slot;
then index and counter), so that a missing lock would show.  Random sleeps, time stamps and
printing are left out; the type that a cook draws is a choice.  `PizzeriaLife` has `Fork`,
`Attach`, `StartWaiting`, `BossExits`, `Crash` and `RestartWith`; the two variants add their
`SIGINT_handler`, their restart, and for System V the failure of a `semop` on a removed set
(`SemopFails`).  SIGINT reaches the parent alone or, typed at the terminal, its children
too.  A process that stops for good at any label needs no action of its own in the safety
runs and theorems, because their specifications have no fairness.  Left out: failures of
`ftok`, `shmget`, `semget` other than a removed object, a failing `execl` (the child would
go on forking), a second start while processes of the first are at work.  The code wraps
the index of the table at `OVEN_SIZE` on one side and `TABLE_SIZE` on the other;
`PizzeriaAssumption` therefore asks for the two to be equal, as they are in `shared.h`.

**Santa.**  The stretch between two points where a thread can block is one action when all
it touches is protected by the mutexes it holds; the three mutexes that are never held over
a blocking point then need no variable.  A condition variable is the set of the threads
that wait on it; a broadcast empties the set.  `LoopOrLeave`, which reads `deliveries`
without a lock, and `WakeSanta`, which broadcasts without one, are actions of their own.
`CancelledElf` is the cancellation of an elf at `usleep` or in a `pthread_cond_wait`, with
its cleanup handler.  Left out: `elves_queue` (only printed), spurious wake-ups, and what
`cleanup_elf` does to mutexes its thread does not hold other than `sleep_mutex`, which it
releases whoever holds it.

**Negative.**  A picture is a function from pixels to values.  `Share` is what a thread is to
compute, by values or by columns, with the integer quotients of the code; the thread then
writes pixel by pixel, row by row, interleaved with the others.  `load_picture` reads
`get_max_pixel` before it is set: if it is true the width is taken for the greatest value,
and the program fails or goes on with an empty picture.  Failures of `pthread_create` and
`pthread_join` and of the input file are left out, and so are the measured times and a
`threads_number` of 0, with which nothing is computed.

**Game server.**  The main thread is four steps: `check_messages` builds the poll set,
`CallPoll` calls `poll` with the count of that moment, `PollReturns` chooses a descriptor,
`Handle` takes the mutex and handles one message; between them `ping` of the other thread
may run, which holds the mutex for all of its round.  The table is the function `clients`
from slots to clients.  Where the code would use a table entry that is not there (NULL, or
index -1), or write to a client that closed its end (SIGPIPE), or handle a buffer into
which nothing was received, the outcome is undefined or fatal: the model sets `up` to FALSE,
or leaves both outcomes open where the server may survive (a write to a stream that has just
been closed, an empty table with no name to compare).  Left out:
setting up sockets, partial reads (messages have a fixed length) and clients whose name is
no name.  `GameLobby` has of a client what the server sees: it connects, sends its name,
answers pings or stops to, moves, quits or is killed.

**Game over datagrams.**  `DatagramServer` receives from the local socket first and handles
the message in a second step; `ping` may run in between.  When a player is removed, its
opponent is told to quit (`Told`).  A move or quit of somebody who is not in the table takes
the server down: so does the second of the two quits with which a game ends.  Datagrams on
one machine are kept and in order.  A client has `listen_server`, one step per message, and
`play_game`, one step from the top of its loop to where it stores a state, and one that
stores it.  Two windows are not protected by the mutex: between the receipt of a message and
the reading of `arg`, which points into the buffer of the next message, and between the
reading of the state and the storing of the next one.  A message that comes in such a window
sets `raced`, and that execution is followed no further; the properties of the game hold until
then.  After it anything may happen to the game, and nothing in the repository excludes it.
`UnderWay` collects the moves of one player that the other has not made, with the place each
of them is in.
Position 9, which the client lets through, is outside the board: there lies `state`, which is
not 0 during a move, so that the position is refused.  `play_game` and the board are the same
lines in zad1.

## 4. Runs

Passing runs:

| run | bounds | question |
|---|---|---|
| `small_programs` | signals: 12, each mode; FIFO: 3 producers with 3, 1 and no pieces, 2 consumers; lines of 1 to 3 commands, outputs of 0 to 3 over pipes of 2; tables of up to 3, 5 blocks | handshake: one under way, none lost; burst: nothing made up, nothing lost when queued; inputs arrive, once; blocks are kept; all programs end |
| `chat_safety` | 2 clients, 2 slots, 2 messages per queue, 2 orders of one, SIGINT at the server and at the other client, also while it joins | numbers, recipients, order; POSIX, until the STOP of an interrupted joiner is taken: orders of members only, own slot freed |
| `chat_liveness` | 3 clients, 2 slots, queues of 1 message, a user and SIGINT at the first client, 1 order | INIT answered unless the table is full, leavers forgotten, numbers; POSIX: a server that ends stops its clients |
| `pizzeria` | 2 cooks, 1 supplier, 2 slots per array, 2 kinds of pizza | every invariant of the kitchen, and the loops implement `Bakery`, liveness included |
| `pizzeria_objects` | 2 cooks, 1 supplier, 1 slot, 2 runs, 1 crash | System V: SIGINT, crash and restart leave the kitchen safe; SIGINT ends it.  POSIX: a SIGINT to the parent disturbs nobody; leftovers of a crash lose units and never add any |
| `negative` | up to 2 x 3 pixels of 2 values, or a width of 255, 1, 2, 3 or 5 threads, both methods | what is saved is the negative, shares are disjoint, the program ends |
| `santa` | 2 reindeer, 4 elves of whom 3 meet, 2 deliveries | who is there when Santa opens; mutex released, program ends |
| `lobby_safety` | 3 clients, all of different names or two of one name, 4 slots, 1 move; one client leaves, all may fall silent | table, count, names, pairs, moves |
| `game` | room for two players; either two clients on two sockets and all 9 positions along a plan, one of them interrupted, or three clients of whom two have one name | boards, turns, end of the game |

Runs that show a disagreement between the code and what its documentation says of it
(each a finding, with the quotation, in `PROJECT.json`):

| run | the code |
|---|---|
| `chat_second_stop` | the second STOP of a System V client frees the slot of the next client |
| `pizzeria_posix_phantom` | after a crash a supplier takes a pizza that is not there |
| `santa_missed` | a broadcast comes before Santa waits, and he sleeps on |

`Chat` and `Santa` end with the promises of the readmes that the code does not keep.  Those
without a run of their own fail in the same way when they are put into a configuration:
`ServerOutlivesClients` (a message to a number nobody has ends the server),
`ServerAwaitsClients` with `ServerInterrupts` (the server ends without waiting for STOP),
`ListAnswered` under `FairSpec` (the child takes the LIST its parent waits for),
`SendsReturn` under `FairSpec` with queues of one message (server and client wait for room
in each other's queue), `ElfReturns` under `FairSpec` (an elf that finds the workshop full
waits for a signal that no line sends).

Why the bounds are enough.  The signal programs have two processes in the code as well;
twelve signals go through every phase of a round many times, and merge in every way (and the
proof covers every number for the handshake).  Three pieces leave some with the consumer
while it writes one; two consumers compete; a producer without pieces opens and closes.  A
pipe of two with outputs of up to three has outputs that fit, fill it and exceed it; a line
of three has a first, a middle and a last command.  A table of three can have a hole before,
between and behind its blocks, and five blocks fill it and go beyond.

In the chats, two clients with two slots are the smallest table in which a number is given
again while the other client is still there; a queue of one message makes every send wait,
two messages allow reordering, and one client with CTRL+C is enough as the clients do the
same.  Three clients for two slots are the fewest with which the table is full when somebody
asks to join: that one is refused without an answer and waits for ever, as the first part of
`InitAnswered` says; its second part says that nobody else does.

Two cooks contend for both mutexes, two slots fill and wrap, two kinds of pizza tell
order from reordering (and the proofs cover every number of cooks, suppliers and slots); one
slot is enough for the life cycles, which add nothing to the arrays.  Five threads are more
than columns, three do not divide two (and the proof covers every picture).  Santa's numbers
only matter as "all reindeer", "enough elves" and "one elf too many".  Four slots are two
games, so that a pair can be removed before another one and slots are given again; three
clients make a game and a waiting player, and one of a name that is taken.

In `game`, `Plan` gives each user some of the free positions, so that whole games are short
enough for TLC: all nine are played, c1 closes the first row as O or as X, or c2 takes the
third place of it, and then the board fills up without a winner or c2 runs out of places.  So
games are won with five signs and with six, and drawn with nine (each was looked for in the
run); that boards of every other shape are judged right is proved (`RulesKept`), and so is the
rest for any positions.  Of the other three clients two have one name: the second to come is
refused, or gets the name when the first was dropped, and then the game is no longer followed.

Deadlock is not checked where the system really stops: commands may fill a pipe, and
processes may open the FIFO too late; in the chats all clients may have left while the server
waits for messages, and a client may wait for ever for an answer the server does not send; a
finished program has no step (`negative`, `santa`); in `santa` all may wait, which
`santa_missed` shows; in the lobby and the game the server may be down.  In the pizzeria it
is checked.

## 5. Fairness

Signals: each program runs, and the kernel delivers what is pending and not blocked: weak
fairness of `Sender`, `Catcher` and `Deliver`.  FIFO: weak fairness of `main` and of each
process; that rows are completed is promised only if every process has opened the FIFO before
a producer closes it.  Commands: the interpreter and the command that runs go on.  Chats: the
server and each process of a client run; a process that waits for room in a queue competes
with others for it, hence strong fairness of `Parent` and `Leave` (a queue wakes its waiting
senders); users need not type anything.  `InitAnswered` and `LeavesTable` assume that the
server is not stuck for ever in a send to a client that takes nothing any more.  In the POSIX
chat a STOP comes last of all messages: it is handled because each client gives a bounded
number of orders, and orders without end would starve it.  Pizzeria: weak fairness of each
process, as the scheduler gives; nothing is fair about crashes, signals and restarts.
`Bakery` promises that some cook goes on, not each, since System V semaphores are not granted
to a particular one.  Negative: the main thread and the other threads run.  Santa: weak
fairness of each thread, and strong fairness of a cancelled elf, which ends at its next
cancellation point rather than going round.  The lobby and the game are checked for safety
only.

## 6. Proofs

The theorems hold for every value of the constants under the assumptions named in the
modules (`PizzeriaAssumption`, `LifeAssumption`, `SignalsAssumption`,
`SignalsNumberAssumption`, `BlocksAssumption`, `FifoAssumption`, `CommandsAssumption`,
`ChatAssumption`, `NegativeAssumption`, `SantaAssumption`, `GameServerAssumption`,
`LobbyAssumption`, `LocalAssumption`, `ClientAssumption`); TLC evaluates the assumptions in the runs.

`PizzeriaProof`: for any finite number of cooks and suppliers and any number of slots, the
indices stay in the arrays and no semaphore is negative (`TypeCorrect`), at most one process
is at each array and no unit or pizza is unaccounted for (`MutualExclusion`), no array
overflows and no pizza is overwritten (`NothingLost`) or taken from a free slot
(`NothingMadeUp`), and the arrays are contiguous queues (`BuffersAreQueues`).  None of these is
inductive alone: that a slot is free when a cook stores into it follows from the counter and
the window of occupied slots, the counter from who is between storing and announcing, and that
from the units of the semaphores.  Therefore

    IInv == TypeOK /\ MutexAccounting /\ CapacityAccounting
            /\ PizzasCounted /\ HandsFull /\ Contiguous

`AtStep` says how a jump of one process changes the number of processes at a set of labels,
`ShapeStore`, `ShapePlaced`, `ShapeClear` and `ShapeTakenOut` what the four kinds of access
do to a cyclic array; one lemma per operation combines them.

The same module proves the safety half of the refinement (`PassesInOrder`): the kitchen starts
as a `Bakery`, and each of its steps is one of `Bakery` or leaves it alone.  A pizza enters or
leaves a queue of `Bakery` when the counter of the array is changed (`Placed`, `TakenOut`);
storing into a slot and clearing one happen outside the window that the mapping reads, which
needs two facts more: the slots hold kinds of pizza (`Stored`), and who has stored and not
announced did so at the slot after the window.  `Slot` names the position of the k-th pizza of
an array, and `KthSlot` says when two positions are the same; with it the contents after each
of the four accesses (`Store`, `Placed`, `Clear`, `TakenOut`) are the same sequence, the
sequence with a pizza more, or its tail.

Its last part is about the objects: every step of the life cycle is a step of the kitchen, leaves it alone
or starts it anew.  With System V objects the invariant of the kitchen therefore holds through
SIGINT, crashes and restarts (`SysVSafety`).  With POSIX objects it does not: what a crash
leaves behind is inherited, and the next run attaches to semaphores that miss units
(`pizzeria_posix_phantom`).  What remains true of every run is that units are only lost, never
added (`PosixSafety`).  The invariant for it has two halves: `UnitsInv`, the accounts of the
semaphores with inequalities, which even a start on leftovers keeps because it puts all
processes at the first label; and `CleanInv`, for the time before the first crash, which
is the exact `IInv` together with why the next run finds new objects: no process ends while
the names are linked (and where there are no cooks and suppliers at all, nobody has touched
the objects).

`SmallProgramsProof`: first the handshake by itself.  For any number of signals, merging or
queued, at most one is under way in each direction (`NoTwoMerge`) and none is lost
(`AllCounted`).  The invariant lists
the phases of a round: `Ready` (nothing is out), `Out` (a signal is pending, counted,
confirmed), `Back` (its confirmation is), `Farewell` (SIGUSR2 and its answer), each with the
two stacks, what is pending and both counts.  One lemma per phase shows where a step leads.
The counts alone are not inductive: without the stacks a handler could be entered twice.

Then all of them: a behaviour belongs to one program, so the invariant is one for each.

- The table of blocks (`TablesKeepBlocks`), for tables of any sizes: every entry that is in
  use names a block that was stored under this index (`saved[blocks[e]] = e`), so no two
  entries name the same block and freeing one frees no other one.
- The burst (`BurstAddsNothing`), for any number of signals: `Accounted` relates what was sent
  to what was counted, is in a handler and is pending.  It needs to know which handlers can be
  on top of each other (`Flows`): `handler2` may interrupt `handler1` before it has counted,
  and how much it then sends back depends on that.
- The handshake (`HandshakeAlternates`, `HandshakeCounts`), from the theorems about it alone.
- The FIFO and the line of commands (`NothingLeftBehind`).  For the FIFO, `FifoInv` adds to
  `PiecesInOneHand` that a producer that has not closed has nothing on its way (`NotSent`), and
  that the place a consumer has found is still that of the piece in its hand (`PlaceFits`),
  although the row is not locked in between: with the piece it has all that are left of this
  producer (`InHandOf`), so nobody else writes into that row.  The pieces of a producer may also
  have been discarded, all of them, by then nobody has the FIFO open (`FifoGone`) and a consumer
  has ended.  cw05/readme.md asks for no loss ("brak utraty"); with consumers that close while
  a producer opens there is some, and no run is spent on stating it.  For the commands,
  what is in the pipe (`prev`) and what was read add up to the output of the command before.

`ChatProof`: for any number of clients, slots and orders, queues of any size, and both chats,
no queue gets more than it has room for (`ChatTypes`), client and server agree on the
client's number while the server runs (`ChatIdentity`), nobody gets back what they sent to
all others, and messages arrive in order and once (`ChatRelays`).  Of the POSIX chat it proves
too that orders are carried out for members only (`ChatOrders`) and that a slot is freed only
for the client in it (`ChatSlots`).

All five hold with any interrupts, but the last two speak of a server that has not taken a
STOP of a client that CTRL+C ended while it joined (`NoStray`).  Such a client does not know
its number and sends its STOP under number 0, whoever has that.  The step that takes it frees
slot 0 or, if that is free already, closes descriptor 0; `ChatSlots` covers this step as well,
and says that no other slot is freed by it.  After it nothing is promised: the client that had
number 0 is out of the table and goes on sending orders, which the server carries out for
whoever gets the slot.  cw06/readme.md:62 takes CTRL+C at a client for a STOP of that client,
which this is not.

The programs have some forty actions, but only a few ways to act on what the invariants speak
of.  `Kinds` names them (the server handles a message and answers it in one of six ways,
delivers, gives up, exits; a client sends INIT, an order or a STOP, joins, reads, or just goes
on), `SysVServer`, `SysVClient`, `PosixServer` and `PosixClient` show that every action is of
one of these kinds, and everything else is proved of the kinds.  The invariant is

    ChatInv == Types /\ Childless /\ JoinInv /\ MailInv /\ OrderInv /\ MembersInv

- `JoinInv` is what makes the numbers agree: a client asks once and is unknown to the server,
  in the table and in `outbox`, until the server has taken its INIT; it is in one slot at
  most, the one that the reply names; and until it has joined, the reply is the first thing it
  gets, by itself.  Without the last part the POSIX client could take another message for the
  answer.
- `MailInv` says who wrote what is in the server's queue, and under which number.
- `OrderInv` compares messages of one author and kind along the whole way, from the receiver's
  queue over `outbox` and the server's queue to what the author may still write (`Later`,
  `Spent`).  The handler takes the first message of its type, and types do not change on the
  way, so overtaking between types does no harm.
- `MembersInv`: a POSIX client in the middle of its life is in the slot of its number, its
  STOP is one, and as long as it is in the server's queue so is the client in the table: all
  that the client wrote before has a higher priority and is handled before the STOP.  A client
  without a child has number 0, and has sent nothing but INIT and STOP.  `StillAstray` shows
  that the condition the invariant stands under (`Calm`), once broken, stays broken.

`NegativeProof`: for every picture and every number of threads, what is saved is the negative
of what was read (`SavedPicture`), and no two threads have a pixel in common
(`ThreadsApart`).  The invariant says that a pixel that is in the share of a created thread
and not in its `todo` any more has its value, and that a joined thread has nothing left;
`SharesCover` and `SharesApart` are the arithmetic: consecutive intervals of
`n \div threads_number` and a last one that takes the rest cover 0..n-1 once.

`GameClientProof`: first the board by itself.  On every board, reached or not, `check_winner`
finds a winner exactly when a player has three in a line, and so `check_game` ends a game by
the rules (`RulesKept`).  Lines are defined by geometry, not as a list; `LinesAreEight` shows
that they are the three columns, three rows and two diagonals of the code, and `OwnerOfFull`
that the loops of `check_winner` miss none, whichever of several lines they report.

Then the games, for any number of clients on either socket, any names, any even number of
slots and any positions typed: the boards of a game are one but for a move that is on its way
(`BoardsAlwaysAgree`), only one player is to move, with its own sign (`TurnsAreTaken`), and a
client stops exactly on a finished board (`GamesEndInTime`).  None of these is inductive: a
move that the player makes is right on the other board only if nothing else is under way, and
that is so only if the other one is not to move.  The invariant is

    IInv == up /\ ~raced => Core
    Core == Types /\ TableIsSound /\ Pairs /\ ToldOnceEach /\ ServerMail /\ JoinsOnce
            /\ ClientStates /\ Mutual /\ GamesMatch

- `GamesMatch` relates the two players of a game.  A move is in one of four places: in the
  queue of a socket, in the hand of the server, in the queue of the rival, or noted there.
  Either nothing is under way, the boards are one and it is the turn that the board says
  (`Quiet`), or one player is ahead by one move, which the other waits for and can make
  (`Ahead`).  A client that has not set up its board yet takes part with an empty one.
- `Mutual`, `Pairs` and `ToldOnceEach` say who plays whom: two that play know each other, one
  of them is O, a client is told once, before any move, and the table keeps them side by side,
  or has removed both.  `Rivals` reads what a client will be told from its queue.
- `JoinsOnce` and `ServerMail` are about the way to the server: a client is unheard of until
  its "add" is handled, and only one that has been told of a rival sends moves.
- `ClientStates` lists the states of the two threads before a client is told and after.

One lemma per action says which of the two players it moves and what is under way then
(`ClientSteps`, `ServerSteps`).  The theorems speak of games before a message comes in a window
in which two threads race (`raced`), as the run does, and of players whose names are their own
(`OwnName`: a game is followed until a namesake of one of them has played or gone), which is
needed: the server drops a silent player without telling it and gives the name away, and what
the first one sends then reaches the rival of the second.  (Four clients are the fewest for
that, one more than ever take part together in `game`.)

`SantaProof`: for any numbers of reindeer, elves and deliveries, all reindeer are there when a
delivery begins (`AllPull`), and three elves when Santa helps (`GroupsComplete`).  Santa does
not count elves: he believes whoever woke him, and by the time he has his mutex the one who
did may have been served.  `LastOfAll` says that at most one reindeer is on its way to wake
him, and that if the delivery it came back for has ended the reindeer cannot be complete
again before it has gone round; `Elfcount` relates `waiting_elves` to the elves at the door,
but for those Santa has let in and those that were cancelled; `WokenForSomebody` says that a
Santa who is awake has all reindeer or a full group of elves waiting, also when the late
broadcast of that reindeer is the one that reaches him.

`GameLobbyProof`: for any number of clients, any names and any even number of slots, the table
and its count agree and names are unique (`Sound`), games stay between the two that were
paired (`Paired`), and a move reaches the rival and nobody else (`Moves`).  The poll set is
built before the poll, and read after it, while the ping thread removes players: what makes
this harmless is that only the main thread adds, so that a name or a descriptor it has in hand
cannot pass to somebody else in between (`NamesHold`, `Owns`).  The others are `AddsComeFirst`
and `Unheard` (what a client sends first is its name, and until the server has handled that it
has no slot, was told nothing and has sent no move), `ToldOnce` (who is told of a rival is
told once), and `Pairs`, which says that slots of two neighbours are taken and given up
together.  `NewIndexFits` is the arithmetic of the loop that looks for a free slot.  What the
proof needs to know of the table alone, adding and removing players, is in `GameTableProof`,
which `GameClientProof` uses too.

Only model-checked: liveness under fairness (out of reach of the prover), that of `Bakery` in
the refinement included.

## 7. Plan

1. Model: a chat server that is started again and finds its queue; the text of the POSIX
   messages; liveness of the lobby (who falls silent is removed).
