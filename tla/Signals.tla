------------------------------ MODULE Signals ------------------------------
(***************************************************************************)
(* Two processes that send each other two signals, as the programs of      *)
(* cw04/zad3a and zad3b see them: the pending signals of a process and the *)
(* stack of its interrupted flows of control, the running one on top.  A   *)
(* handler blocks its own signal only (sa_mask is empty), so the other     *)
(* handler may interrupt it at every step.                                 *)
(***************************************************************************)
EXTENDS Integers, Sequences

CONSTANTS sender, catcher,
          signals_number      \* how many signals the sender is told to send

Procs == {sender, catcher}

\* SIGUSR1 and SIGUSR2, or SIGRTMIN + 1 and SIGRTMIN + 2: lower numbers come first.
Signals == {1, 2}
HandlerLabels == <<{"count", "reply", "report"}, {"answer", "end"}>>
HandlerEntry == <<"count", "answer">>

\* In KILL and SIGQUEUE a signal that is pending already merges with the next one; the
\* real-time signals of SIGRT are queued.
Modes == {"KILL", "SIGQUEUE", "SIGRT"}

ASSUME SignalsAssumption == sender # catcher
ASSUME SignalsNumberAssumption == signals_number \in Nat \ {0}

VARIABLES mode,         \* the mode both programs are started in
          pending,      \* how often each signal is pending for each process
          stack         \* the labels of each process, the running one first; <<>>: it exited

Queued == mode = "SIGRT"

SignalsInit(start) == /\ mode \in Modes
                      /\ pending = [p \in Procs |-> [s \in Signals |-> 0]]
                      /\ stack = start

\* kill() and sigqueue(); a process that has exited is not there any more.
Kill(p, s) == pending' = [pending EXCEPT ![p][s] = IF stack[p] = <<>> THEN 0
                                                   ELSE IF Queued THEN @ + 1 ELSE 1]

Running(p, label) == stack[p] # <<>> /\ Head(stack[p]) = label
Goto(p, label) == stack' = [stack EXCEPT ![p][1] = label]
Return(p) == stack' = [stack EXCEPT ![p] = Tail(@)]
Exit(p) == stack' = [stack EXCEPT ![p] = <<>>]

Blocked(p, s) == \E i \in DOMAIN stack[p] : stack[p][i] \in HandlerLabels[s]
Deliverable(p, s) == pending[p][s] > 0 /\ ~Blocked(p, s)

Deliver(p) == /\ stack[p] # <<>>
              /\ \E s \in Signals :
                   /\ Deliverable(p, s)
                   /\ \A lower \in Signals : lower < s => ~Deliverable(p, lower)
                   /\ pending' = [pending EXCEPT ![p][s] = @ - 1]
                   /\ stack' = [stack EXCEPT ![p] = <<HandlerEntry[s]>> \o @]
=============================================================================
