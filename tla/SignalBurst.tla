----------------------------- MODULE SignalBurst -----------------------------
(***************************************************************************)
(* cw04/zad3a: the sender sends all its SIGUSR1 and a SIGUSR2; the catcher *)
(* then sends back as many SIGUSR1 as it counted, and a SIGUSR2.           *)
(***************************************************************************)
EXTENDS Signals

VARIABLES sent,       \* SIGUSR1 sent by each process, the variable i of its loop
          count

locals == <<mode, sent, count>>
vars == <<mode, pending, stack, sent, count>>

Init == /\ SignalsInit([p \in Procs |-> IF p = sender THEN <<"send">> ELSE <<"suspend">>])
        /\ sent = [p \in Procs |-> 0]
        /\ count = [p \in Procs |-> 0]
-----------------------------------------------------------------------------
\* main of the sender.
Send == /\ Running(sender, "send") /\ sent[sender] < signals_number
        /\ Kill(catcher, 1)
        /\ sent' = [sent EXCEPT ![sender] = @ + 1]
        /\ UNCHANGED <<mode, stack, count>>

Finish == /\ Running(sender, "send") /\ sent[sender] = signals_number
          /\ Goto(sender, "idle")
          /\ Kill(catcher, 2)
          /\ UNCHANGED locals

\* A mutant of Count: one signal is counted twice.
Count_Twice(p) == /\ Running(p, "count") /\ Return(p)
                  /\ count' = [count EXCEPT ![p] = @ + 2]
                  /\ UNCHANGED <<mode, pending, sent>>

\* handler1 of both programs: one more.
Count(p) == /\ Running(p, "count") /\ Return(p)
            /\ count' = [count EXCEPT ![p] = @ + 1]
            /\ UNCHANGED <<mode, pending, sent>>

\* handler2 of the sender.
Summary == /\ Running(sender, "answer") /\ Exit(sender)
           /\ UNCHANGED <<pending, locals>>

\* A mutant of SendBack: the loop goes one too far.
SendBack_OneMore == /\ Running(catcher, "answer") /\ sent[catcher] <= count[catcher]
                    /\ Kill(sender, 1)
                    /\ sent' = [sent EXCEPT ![catcher] = @ + 1]
                    /\ UNCHANGED <<mode, stack, count>>

\* handler2 of the catcher reads count anew in every round of its loop, while handler1
\* may interrupt it.
SendBack == /\ Running(catcher, "answer") /\ sent[catcher] < count[catcher]
            /\ Kill(sender, 1)
            /\ sent' = [sent EXCEPT ![catcher] = @ + 1]
            /\ UNCHANGED <<mode, stack, count>>

\* A mutant of Answer: no SIGUSR2 when nothing was counted.
Answer_OnlyIfCounted == /\ Running(catcher, "answer") /\ sent[catcher] >= count[catcher]
                        /\ Exit(catcher)
                        /\ IF count[catcher] > 1 THEN Kill(sender, 2) ELSE UNCHANGED pending
                        /\ UNCHANGED locals

Answer == /\ Running(catcher, "answer") /\ sent[catcher] >= count[catcher]
          /\ Exit(catcher)
          /\ Kill(sender, 2)
          /\ UNCHANGED locals
-----------------------------------------------------------------------------
Done == stack[sender] = <<>> /\ stack[catcher] = <<>>
Terminated == Done /\ UNCHANGED vars

\* The sender's endless loop goes round.
BusyLoop == Running(sender, "idle") /\ UNCHANGED vars

Sender == Send \/ Finish \/ Count(sender) \/ Summary
Catcher == Count(catcher) \/ SendBack \/ Answer

Next == \/ Sender \/ Catcher
        \/ \E p \in Procs : Deliver(p) /\ UNCHANGED locals
        \/ BusyLoop \/ Terminated

Spec == Init /\ [][Next]_vars
FairSpec == /\ Spec
            /\ WF_vars(Sender) /\ WF_vars(Catcher)
            /\ \A p \in Procs : WF_vars(Deliver(p) /\ UNCHANGED locals)
-----------------------------------------------------------------------------
InHandler1(p) == IF \E k \in DOMAIN stack[p] : stack[p][k] = "count" THEN 1 ELSE 0

\* Signals get lost but are never made up: what a process counted, has in hand or has
\* pending, the other one sent; and with real-time signals nothing is lost while the
\* receiver lives.
NoSignalFromNowhere ==
    \A from, to \in Procs :
        LET known == count[to] + InHandler1(to) + pending[to][1]
        IN from # to /\ stack[to] # <<>>
               => IF Queued THEN known = sent[from] ELSE known <= sent[from]

\* The catcher sends back no more than it received, so the sender cannot count more
\* signals than it sent.
NoMoreThanSent == /\ count[sender] <= sent[catcher]
                  /\ sent[catcher] <= count[catcher]
                  /\ count[catcher] <= sent[sender]

\* A process that ends without an answer would leave the sender in its endless loop.
Completes == <>Done
=============================================================================
