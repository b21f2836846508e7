------------------------------ MODULE Commands ------------------------------
(***************************************************************************)
(* cw05/zad1: a line of commands, each with its output in a pipe that is   *)
(* the input of the next one.  The interpreter awaits each command before  *)
(* it starts the next one, so a pipe has to hold all of an output.         *)
(***************************************************************************)
EXTENDS Integers, Sequences

CONSTANTS Lengths,      \* bound: how many commands the line may have
          Outputs,      \* bound: how much a command may write
          PipeSize      \* how much a pipe holds

ASSUME CommandsAssumption == /\ Lengths \subseteq Nat \ {0} /\ Outputs \subseteq Nat
                             /\ PipeSize \in Nat \ {0}

VARIABLES outputs,      \* what each command of the line writes; <<>> before the line is read
          current,      \* the command that runs or is started next
          child,        \* "none", "running" or "exited"
          first,        \* pipe_first
          prev, curr,   \* what is in the pipes prev_fd and curr_fd
          written,      \* by the running command
          read          \* by each command

commandsVars == <<outputs, current, child, first, prev, curr, written, read>>

CommandsInit == /\ outputs = <<>> /\ current = 1 /\ child = "none" /\ first = TRUE
                /\ prev = 0 /\ curr = 0 /\ written = 0 /\ read = <<>>

\* A line of components, with the commands they are made of.
ReadLine == /\ outputs = <<>>
            /\ \E n \in Lengths : /\ outputs' \in [1..n -> Outputs]
                                  /\ read' = [k \in 1..n |-> 0]
            /\ UNCHANGED <<current, child, first, prev, curr, written>>

LastCommand == current = Len(outputs)

\* pipe and fork.
Start == /\ current <= Len(outputs) /\ child = "none"
         /\ child' = "running" /\ curr' = 0 /\ written' = 0
         /\ UNCHANGED <<outputs, current, first, prev, read>>

\* A command, which reads its input to the end before it exits, and writes to its pipe; the
\* last one writes to the terminal.
Read == /\ child = "running" /\ ~first /\ prev > 0
        /\ prev' = prev - 1
        /\ read' = [read EXCEPT ![current] = @ + 1]
        /\ UNCHANGED <<outputs, current, child, first, curr, written>>

Write == /\ child = "running" /\ written < outputs[current]
         /\ LastCommand \/ curr < PipeSize
         /\ curr' = IF LastCommand THEN curr ELSE curr + 1
         /\ written' = written + 1
         /\ UNCHANGED <<outputs, current, child, first, prev, read>>

\* A mutant of CommandExits: the interpreter does not close its end of the pipe for writing.
CommandExits_PipeOpen == /\ child = "running" /\ written = outputs[current] /\ first
                         /\ child' = "exited"
                         /\ UNCHANGED <<outputs, current, first, prev, curr, written, read>>

CommandExits == /\ child = "running" /\ written = outputs[current] /\ (first \/ prev = 0)
                /\ child' = "exited"
                /\ UNCHANGED <<outputs, current, first, prev, curr, written, read>>

\* A mutant of Awaited: it does not become another pipe's turn.
Awaited_KeepsPrev == /\ child = "exited" /\ child' = "none"
                     /\ first' = FALSE
                     /\ current' = current + 1
                     /\ UNCHANGED <<outputs, prev, curr, written, read>>

\* wait returns, and the pipe of the command becomes the previous one.
Awaited == /\ child = "exited" /\ child' = "none"
           /\ first' = FALSE
           /\ prev' = curr
           /\ current' = current + 1
           /\ UNCHANGED <<outputs, curr, written, read>>

CommandsNext == ReadLine \/ Start \/ Read \/ Write \/ CommandExits \/ Awaited
-----------------------------------------------------------------------------
\* Every command that has ended has read all that the one before it wrote, and nothing else.
InputIsOutput == \A k \in 2..Len(outputs) : k < current => read[k] = outputs[k - 1]

\* A line of commands ends if every output but the last fits into a pipe.
EndsIfItFits ==
    <>( \/ outputs # <<>> /\ current > Len(outputs)
        \/ \E k \in 1..(Len(outputs) - 1) : outputs[k] > PipeSize )
=============================================================================
