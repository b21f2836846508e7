--------------------------- MODULE SignalHandshake ---------------------------
(***************************************************************************)
(* cw04/zad3b: the sender sends the next SIGUSR1 when the catcher has      *)
(* confirmed the last one with a SIGUSR1 of its own.                       *)
(***************************************************************************)
EXTENDS Signals

VARIABLES i,          \* the loop of the sender: signals sent so far
          wait,
          count       \* of each process

locals == <<mode, i, wait, count>>
vars == <<mode, pending, stack, i, wait, count>>

\* The catcher is started first; the sender is told its PID.
Init == /\ SignalsInit([p \in Procs |-> IF p = sender THEN <<"spin">> ELSE <<"suspend">>])
        /\ i = 0 /\ wait = FALSE
        /\ count = [p \in Procs |-> 0]
-----------------------------------------------------------------------------
\* A mutant of Spin: it does not wait.
Spin_NoWait == /\ Running(sender, "spin")
               /\ Goto(sender, IF i < signals_number THEN "arm" ELSE "finish")
               /\ UNCHANGED <<pending, locals>>

\* while (wait) {} is over, before each signal and after the last.
Spin == /\ Running(sender, "spin") /\ ~wait
        /\ Goto(sender, IF i < signals_number THEN "arm" ELSE "finish")
        /\ UNCHANGED <<pending, locals>>

Arm == /\ Running(sender, "arm") /\ Goto(sender, "send")
       /\ wait' = TRUE
       /\ UNCHANGED <<mode, pending, i, count>>

Send == /\ Running(sender, "send") /\ Goto(sender, "spin")
        /\ Kill(catcher, 1)
        /\ i' = i + 1
        /\ UNCHANGED <<mode, wait, count>>

Finish == /\ Running(sender, "finish") /\ Goto(sender, "idle")
          /\ Kill(catcher, 2)
          /\ UNCHANGED locals

\* handler1 and handler2 of the sender.
Confirmed == /\ Running(sender, "count") /\ Return(sender)
             /\ count' = [count EXCEPT ![sender] = @ + 1]
             /\ wait' = FALSE
             /\ UNCHANGED <<mode, pending, i>>

Summary == /\ Running(sender, "answer") /\ Exit(sender)
           /\ UNCHANGED <<pending, locals>>

Sender == Spin \/ Arm \/ Send \/ Finish \/ Confirmed \/ Summary
-----------------------------------------------------------------------------
\* handler1 of the catcher: count, confirm, report.
Count == /\ Running(catcher, "count") /\ Goto(catcher, "reply")
         /\ count' = [count EXCEPT ![catcher] = @ + 1]
         /\ UNCHANGED <<mode, pending, i, wait>>

Reply == /\ Running(catcher, "reply") /\ Goto(catcher, "report")
         /\ Kill(sender, 1)
         /\ UNCHANGED locals

Report == /\ Running(catcher, "report") /\ Return(catcher)
          /\ UNCHANGED <<pending, locals>>

\* A mutant of Answer: the answer is a SIGUSR1.
Answer_WrongSignal == /\ Running(catcher, "answer") /\ Exit(catcher)
                      /\ Kill(sender, 1)
                      /\ UNCHANGED locals

\* handler2 of the catcher.
Answer == /\ Running(catcher, "answer") /\ Exit(catcher)
          /\ Kill(sender, 2)
          /\ UNCHANGED locals

Catcher == Count \/ Reply \/ Report \/ Answer
-----------------------------------------------------------------------------
Done == stack[sender] = <<>> /\ stack[catcher] = <<>>
Terminated == Done /\ UNCHANGED vars

\* The sender's busy loops go round.
BusyLoop == /\ \/ Running(sender, "idle")
               \/ Running(sender, "spin") /\ wait
            /\ UNCHANGED vars

Next == \/ Sender \/ Catcher
        \/ \E p \in Procs : Deliver(p) /\ UNCHANGED locals
        \/ BusyLoop \/ Terminated

Spec == Init /\ [][Next]_vars

\* Both processes run, and the kernel delivers what is pending.
FairSpec == /\ Spec
            /\ WF_vars(Sender) /\ WF_vars(Catcher)
            /\ \A p \in Procs : WF_vars(Deliver(p) /\ UNCHANGED locals)
-----------------------------------------------------------------------------
TypeOK == /\ mode \in Modes
          /\ pending \in [Procs -> [Signals -> Nat]]
          /\ stack \in [Procs -> Seq({"spin", "arm", "send", "finish", "idle", "suspend",
                                      "count", "reply", "report", "answer"})]
          /\ i \in 0..signals_number
          /\ wait \in BOOLEAN
          /\ count \in [Procs -> 0..signals_number]

\* At most one SIGUSR1 is under way, in either direction: no two merge, with standard
\* signals too.
OneUnderWay == /\ i - count[sender] \in {0, 1}
               /\ pending[sender][1] + pending[catcher][1] <= 1
               /\ pending[sender][1] + pending[catcher][1] <= i - count[sender]

\* readme.md:57-58: when the programs end, each has received as many signals as were sent.
NothingLost == \A p \in Procs : stack[p] = <<>> => \A q \in Procs : count[q] = signals_number

\* readme.md:58: the programs do not block each other.
Completes == <>Done
=============================================================================
