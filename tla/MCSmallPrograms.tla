-------------------------- MODULE MCSmallPrograms --------------------------
(***************************************************************************)
(* The small programs of cw01, cw04 and cw05 for TLC: what is kept, or is  *)
(* sent by signals or through pipes, and what of it arrives.  A behaviour  *)
(* belongs to one of these programs; the variables of the others keep      *)
(* their values.                                                           *)
(***************************************************************************)
EXTENDS Blocks, SignalHandshake, Fifo, Commands

CONSTANTS k1, k2        \* two consumers

VARIABLES program,      \* "blocks", "burst", "handshake", "fifo" or "commands"
          sent          \* of the burst

Burst == INSTANCE SignalBurst

signalVars == <<mode, pending, stack, i, wait, sent, count>>
pipeVars == <<fifoVars, commandsVars>>
all == <<program, blocksVars, signalVars, pipeVars>>

ThreePieces == (0 :> 3 @@ 1 :> 1 @@ 2 :> 0)

\* One program takes a step.
InBlocks == program = "blocks" /\ UNCHANGED <<program, signalVars, pipeVars>>
InBurst == program = "burst" /\ UNCHANGED <<program, i, wait, blocksVars, pipeVars>>
InHandshake == program = "handshake" /\ UNCHANGED <<program, sent, blocksVars, pipeVars>>
InFifo == program = "fifo" /\ UNCHANGED <<program, blocksVars, signalVars, commandsVars>>
InCommands == program = "commands" /\ UNCHANGED <<program, blocksVars, signalVars, fifoVars>>

ProgramsInit == /\ BlocksInit /\ FifoInit /\ CommandsInit
                /\ \/ program = "handshake" /\ Init /\ sent = [p \in Procs |-> 0]
                   \/ /\ program \in {"blocks", "burst", "fifo", "commands"} /\ Burst!Init
                      /\ program # "burst" => mode = "KILL"
                      /\ i = 0 /\ wait = FALSE

ProgramsNext == \/ BlocksNext /\ InBlocks
                \/ Burst!Next /\ InBurst
                \/ Next /\ InHandshake
                \/ FifoNext /\ InFifo
                \/ CommandsNext /\ InCommands

\* Every process runs: the programs' own, the kernel that delivers a signal, and the
\* commands of a line.
SenderTurn == \/ Burst!Sender /\ InBurst
              \/ Sender /\ InHandshake
CatcherTurn == \/ Burst!Catcher /\ InBurst
               \/ Catcher /\ InHandshake
Delivery(p) == Deliver(p) /\ UNCHANGED <<program, mode, i, wait, sent, count, blocksVars, pipeVars>>

ProgramsSpec == ProgramsInit /\ [][ProgramsNext]_all
FairProgramsSpec == /\ ProgramsSpec
                    /\ WF_all(SenderTurn) /\ WF_all(CatcherTurn)
                    /\ \A p \in Procs : WF_all(Delivery(p))
                    /\ WF_all(MainStep /\ InFifo)
                    /\ \A p \in Processes : WF_all(Process(p) /\ InFifo)
                    /\ WF_all(CommandsNext /\ InCommands)

\* The handshake never has two signals under way, so none merges with another one.
OneAtATime == program = "handshake" => OneUnderWay

\* The handshake ends with all signals counted on both sides.
NoneLost == program = "handshake" => NothingLost

\* The burst may lose signals and makes none up, and loses none in the real-time mode; it
\* sends back no more than arrived.
NoneMadeUp == program = "burst" => Burst!NoSignalFromNowhere /\ Burst!NoMoreThanSent

\* Both pairs of programs end (cw04/readme.md:58).
BothEnd == program \in {"burst", "handshake"} => <>Done

\* A block that has a place in the table is there until it is freed, once.
BlocksKept == program = "blocks" => TableKept

\* Every command that has ended has read what the one before it wrote; no producer's pieces
\* come twice or are with two consumers, and they are lost only together, with the FIFO.
InputsArrive == /\ program = "fifo" => PiecesInOneHand
                /\ program = "commands" => InputIsOutput

\* No process of cw05 waits for ever for another one: if all of them open the FIFO in time
\* the rows are complete in the end, and a line of commands ends if the pipes can hold the
\* outputs.
PipesDrain == /\ program = "fifo" => RowsComplete
              /\ program = "commands" => EndsIfItFits
=============================================================================
