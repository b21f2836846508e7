-------------------------- MODULE SmallProgramsProof --------------------------
(***************************************************************************)
(* The small programs, for every size of a table, number of signals, line  *)
(* of commands, and number of processes and pieces.  A behaviour belongs   *)
(* to one program, so each has an invariant of its own.                    *)
(***************************************************************************)
EXTENDS MCSmallPrograms, FiniteSetTheorems, SequenceTheorems, TLAPS
-----------------------------------------------------------------------------
(* The handshake by itself, for every number of signals, merging or        *)
(* queued: it loses no signal.  The inductive invariant lists the phases a *)
(* round goes through; in each of them at most one signal is pending for   *)
(* either process.                                                         *)

\* The catcher outside its handlers, or still printing the last report.
Resting == {<<"suspend">>, <<"report", "suspend">>}

Pending(s1, s2, c1, c2) == /\ pending[sender][1] = s1 /\ pending[sender][2] = s2
                           /\ pending[catcher][1] = c1 /\ pending[catcher][2] = c2

\* The sender counted a confirmations, the catcher b signals.
Counted(a, b) == count[sender] = a /\ count[catcher] = b

Shape == /\ DOMAIN stack = Procs
         /\ pending \in [Procs -> [Signals -> Nat]]
         /\ count \in [Procs -> Nat]
         /\ i \in 0..signals_number
         /\ wait \in BOOLEAN

\* No signal is out: the sender is about to send, or has sent everything.
Ready == /\ stack[catcher] \in Resting
         /\ Pending(0, 0, 0, 0) /\ Counted(i, i)
         /\ \/ stack[sender] = <<"spin">> /\ wait = FALSE
            \/ stack[sender] = <<"arm">> /\ wait = FALSE /\ i < signals_number
            \/ stack[sender] = <<"send">> /\ wait = TRUE /\ i < signals_number
            \/ stack[sender] = <<"finish">> /\ wait = FALSE /\ i = signals_number

\* One signal is out: pending, being counted, being confirmed.
Out == /\ stack[sender] = <<"spin">> /\ wait = TRUE /\ i > 0
       /\ \/ stack[catcher] \in Resting /\ Pending(0, 0, 1, 0) /\ Counted(i - 1, i - 1)
          \/ stack[catcher] = <<"count", "suspend">> /\ Pending(0, 0, 0, 0) /\ Counted(i - 1, i - 1)
          \/ stack[catcher] = <<"reply", "suspend">> /\ Pending(0, 0, 0, 0) /\ Counted(i - 1, i)

\* Its confirmation is pending or being counted.
Back == /\ stack[catcher] \in Resting /\ wait = TRUE /\ i > 0 /\ Counted(i - 1, i)
        /\ \/ stack[sender] = <<"spin">> /\ Pending(1, 0, 0, 0)
           \/ stack[sender] = <<"count", "spin">> /\ Pending(0, 0, 0, 0)

\* The farewell: SIGUSR2 on its way to the catcher, and answered.
Farewell ==
    /\ i = signals_number /\ Counted(i, i) /\ wait = FALSE
    /\ \/ /\ stack[sender] = <<"idle">>
          /\ \/ stack[catcher] \in Resting /\ Pending(0, 0, 0, 1)
             \/ stack[catcher] \in {<<"answer", "suspend">>, <<"answer", "report", "suspend">>}
                /\ Pending(0, 0, 0, 0)
             \/ stack[catcher] = <<>> /\ Pending(0, 1, 0, 0)
       \/ /\ stack[sender] \in {<<"answer", "idle">>, <<>>}
          /\ stack[catcher] = <<>> /\ Pending(0, 0, 0, 0)

IInv == Shape /\ (Ready \/ Out \/ Back \/ Farewell)
-----------------------------------------------------------------------------
(* The stacks.                                                             *)

Labels == {"spin", "arm", "send", "finish", "idle", "suspend", "count", "reply", "report", "answer"}

LEMMA SeqEq == ASSUME NEW S, NEW s \in Seq(S), NEW t \in Seq(S), Len(s) = Len(t),
                      \A k \in 1..Len(s) : s[k] = t[k]
               PROVE  s = t
  BY SeqEqual, Zenon

LEMMA PushOne == ASSUME NEW x \in Labels, NEW y \in Labels PROVE <<x>> \o <<y>> = <<x, y>>
  <1> DEFINE u == <<x>> \o <<y>>
             v == <<x, y>>
  <1>1. <<x>> \in Seq(Labels) /\ <<y>> \in Seq(Labels)
    OBVIOUS
  <1>2. u \in Seq(Labels) /\ Len(u) = 2 /\ u[1] = x /\ u[2] = y
    BY <1>1
  <1>3. v \in Seq(Labels) /\ Len(v) = 2 /\ v[1] = x /\ v[2] = y
    OBVIOUS
  <1> HIDE DEF u, v
  <1>4. \A k \in 1..2 : u[k] = v[k]
    BY <1>2, <1>3
  <1>5. u = v
    BY <1>2, <1>3, <1>4, SeqEq
  <1> QED BY <1>5 DEF u, v

LEMMA PushTwo == ASSUME NEW x \in Labels, NEW y \in Labels, NEW z \in Labels
                 PROVE <<x>> \o <<y, z>> = <<x, y, z>>
  <1> DEFINE u == <<x>> \o <<y, z>>
             v == <<x, y, z>>
  <1>1. <<x>> \in Seq(Labels) /\ <<y, z>> \in Seq(Labels)
    OBVIOUS
  <1>2. u \in Seq(Labels) /\ Len(u) = 3 /\ u[1] = x /\ u[2] = y /\ u[3] = z
    BY <1>1
  <1>3. v \in Seq(Labels) /\ Len(v) = 3 /\ v[1] = x /\ v[2] = y /\ v[3] = z
    OBVIOUS
  <1> HIDE DEF u, v
  <1>4. \A k \in 1..3 : u[k] = v[k]
    BY <1>2, <1>3
  <1>5. u = v
    BY <1>2, <1>3, <1>4, SeqEq
  <1> QED BY <1>5 DEF u, v

\* What runs on each stack that occurs, and what is under it.
LEMMA RunsOne == ASSUME NEW p, NEW x, NEW label, stack[p] = <<x>>
                 PROVE  Running(p, label) <=> label = x
  BY DEF Running

LEMMA RunsTwo == ASSUME NEW p, NEW x, NEW y, NEW label, stack[p] = <<x, y>>
                 PROVE  Running(p, label) <=> label = x
  BY DEF Running

LEMMA RunsThree == ASSUME NEW p, NEW x, NEW y, NEW z, NEW label, stack[p] = <<x, y, z>>
                   PROVE  Running(p, label) <=> label = x
  BY DEF Running

LEMMA NothingRuns == ASSUME NEW p, NEW label, stack[p] = <<>> PROVE ~Running(p, label)
  BY DEF Running

LEMMA GotoOne == ASSUME NEW p \in Procs, NEW x, NEW label, stack[p] = <<x>>, Goto(p, label)
                 PROVE  stack' = [stack EXCEPT ![p] = <<label>>]
  <1>1. [<<x>> EXCEPT ![1] = label] = <<label>>
    OBVIOUS
  <1>2. stack' = [stack EXCEPT ![p] = [stack[p] EXCEPT ![1] = label]]
    BY DEF Goto
  <1> QED BY <1>1, <1>2, Zenon

LEMMA GotoTwo == ASSUME NEW p \in Procs, NEW x, NEW y, NEW label, stack[p] = <<x, y>>,
                        Goto(p, label)
                 PROVE  stack' = [stack EXCEPT ![p] = <<label, y>>]
  <1>1. [<<x, y>> EXCEPT ![1] = label] = <<label, y>>
    OBVIOUS
  <1>2. stack' = [stack EXCEPT ![p] = [stack[p] EXCEPT ![1] = label]]
    BY DEF Goto
  <1> QED BY <1>1, <1>2, Zenon

LEMMA ReturnTwo == ASSUME NEW p \in Procs, NEW x, NEW y, stack[p] = <<x, y>>, Return(p)
                   PROVE  stack' = [stack EXCEPT ![p] = <<y>>]
  <1>1. Tail(<<x, y>>) = <<y>>
    OBVIOUS
  <1> QED BY <1>1, Zenon DEF Return

\* Which signals can be delivered, by the handlers on the stack.
LEMMA OneIsOpen == ASSUME NEW p, NEW x, stack[p] = <<x>>,
                          x \notin HandlerLabels[1], x \notin HandlerLabels[2]
                   PROVE  ~Blocked(p, 1) /\ ~Blocked(p, 2)
  BY DEF Blocked

LEMMA ReportBlocks == ASSUME NEW p, NEW y, stack[p] = <<"report", y>>
                      PROVE  Blocked(p, 1)
  BY DEF Blocked, HandlerLabels

\* A delivery: the handler is pushed and the signal is not pending any more.
LEMMA Delivered == ASSUME Shape, NEW p \in Procs, NEW s \in Signals, Deliver(p),
                          \A t \in Signals : t # s => pending[p][t] = 0
                   PROVE  /\ pending[p][s] > 0 /\ ~Blocked(p, s)
                          /\ pending' = [pending EXCEPT ![p][s] = @ - 1]
                          /\ stack' = [stack EXCEPT ![p] = <<HandlerEntry[s]>> \o @]
  <1>1. PICK t \in Signals : /\ Deliverable(p, t)
                             /\ pending' = [pending EXCEPT ![p][t] = @ - 1]
                             /\ stack' = [stack EXCEPT ![p] = <<HandlerEntry[t]>> \o @]
    BY Zenon DEF Deliver
  <1>2. pending[p][t] > 0 /\ ~Blocked(p, t)
    BY <1>1 DEF Deliverable
  <1>3. t = s
    BY <1>2
  <1> QED BY <1>1, <1>2, <1>3

LEMMA NothingDelivered == ASSUME NEW p, Deliver(p), \A t \in Signals : pending[p][t] = 0
                          PROVE  FALSE
  BY DEF Deliver, Deliverable

\* A signal that was not pending is pending once after kill(), queued or not.
LEMMA Killed == ASSUME NEW p \in Procs, NEW s \in Signals, Kill(p, s), stack[p] # <<>>,
                       pending[p][s] = 0
                PROVE  pending' = [pending EXCEPT ![p][s] = 1]
  BY DEF Kill

LEMMA RestingRuns == ASSUME stack[catcher] \in Resting
                     PROVE  /\ ~Running(catcher, "count") /\ ~Running(catcher, "reply")
                            /\ ~Running(catcher, "answer") /\ stack[catcher] # <<>>
                            /\ Running(catcher, "report") => stack[catcher] = <<"report", "suspend">>
  <1>1. CASE stack[catcher] = <<"suspend">>
    BY <1>1, RunsOne
  <1>2. CASE stack[catcher] = <<"report", "suspend">>
    BY <1>2, RunsTwo
  <1> QED BY <1>1, <1>2 DEF Resting

LEMMA ReportRests == ASSUME Shape, stack[catcher] \in Resting, Report
                     PROVE  /\ stack' = [stack EXCEPT ![catcher] = <<"suspend">>]
                            /\ UNCHANGED <<pending, locals>>
  <1>1. stack[catcher] = <<"report", "suspend">>
    BY RestingRuns DEF Report
  <1> QED BY <1>1, ReturnTwo DEF Report, Procs

\* What the catcher may do while nothing is pending for it and no signal is in hand.
LEMMA RestingCatcher == ASSUME Shape, stack[catcher] \in Resting, Catcher PROVE Report
  BY RestingRuns, Zenon DEF Catcher, Count, Reply, Answer

LEMMA OneRuns == ASSUME NEW x, stack[sender] = <<x>>, Sender
                 PROVE  \/ x = "spin" /\ Spin
                        \/ x = "arm" /\ Arm
                        \/ x = "send" /\ Send
                        \/ x = "finish" /\ Finish
                        \/ x \in {"count", "answer"}
  <1>1. \A label : Running(sender, label) => label = x
    BY RunsOne
  <1>2. CASE Spin
    BY <1>1, <1>2, Zenon DEF Spin
  <1>3. CASE Arm
    BY <1>1, <1>3, Zenon DEF Arm
  <1>4. CASE Send
    BY <1>1, <1>4, Zenon DEF Send
  <1>5. CASE Finish
    BY <1>1, <1>5, Zenon DEF Finish
  <1>6. CASE Confirmed
    BY <1>1, <1>6, Zenon DEF Confirmed
  <1>7. CASE Summary
    BY <1>1, <1>7, Zenon DEF Summary
  <1> QED BY <1>2, <1>3, <1>4, <1>5, <1>6, <1>7 DEF Sender
Moves == Sender \/ Catcher \/ \E p \in Procs : Deliver(p) /\ UNCHANGED locals
-----------------------------------------------------------------------------
(* The steps out of each phase.                                            *)

LEMMA InitIInv == ASSUME Init PROVE IInv
  <1>1. /\ stack = [p \in Procs |-> IF p = sender THEN <<"spin">> ELSE <<"suspend">>]
        /\ pending = [p \in Procs |-> [s \in Signals |-> 0]]
        /\ i = 0 /\ wait = FALSE /\ count = [p \in Procs |-> 0]
    BY DEF Init, SignalsInit
  <1>2. stack[sender] = <<"spin">> /\ stack[catcher] = <<"suspend">> /\ DOMAIN stack = Procs
    BY <1>1, SignalsAssumption DEF Procs
  <1>3. Shape
    <2>1. pending \in [Procs -> [Signals -> Nat]] /\ count \in [Procs -> Nat]
      BY <1>1
    <2>2. i \in 0..signals_number
      BY <1>1, SignalsNumberAssumption
    <2>3. wait \in BOOLEAN
      BY <1>1
    <2> QED BY <1>2, <2>1, <2>2, <2>3 DEF Shape
  <1>4. Pending(0, 0, 0, 0) /\ Counted(0, 0)
    BY <1>1 DEF Pending, Counted, Procs, Signals
  <1> QED BY <1>1, <1>2, <1>3, <1>4 DEF IInv, Ready, Resting

LEMMA ReadyStep == ASSUME Shape, Ready, Moves
                   PROVE  IInv'
  <1> USE SignalsAssumption, SignalsNumberAssumption
  <1>1. ASSUME NEW p \in Procs, Deliver(p) PROVE FALSE
    BY <1>1, NothingDelivered DEF Ready, Pending, Procs, Signals
  <1>2. CASE Catcher
    <2>1. /\ stack' = [stack EXCEPT ![catcher] = <<"suspend">>]
          /\ UNCHANGED <<pending, locals>>
      BY <1>2, RestingCatcher, ReportRests DEF Ready
    <2>2. Shape'
      BY <2>1 DEF Shape, locals
    <2>3. stack'[sender] = stack[sender] /\ stack'[catcher] \in Resting
      BY <2>1 DEF Shape, Procs, Resting
    <2> QED BY <2>1, <2>2, <2>3 DEF IInv, Ready, Pending, Counted, locals
  <1>3. CASE Sender
    <2>1. stack[catcher] \in Resting /\ Pending(0, 0, 0, 0) /\ Counted(i, i) /\ stack[catcher] # <<>>
      BY RestingRuns DEF Ready
    <2>2. CASE stack[sender] = <<"spin">> /\ wait = FALSE
      <3>1. Spin
        BY <1>3, <2>2, OneRuns
      <3>2. stack' = [stack EXCEPT ![sender] = IF i < signals_number THEN <<"arm">> ELSE <<"finish">>]
        BY <2>2, <3>1, GotoOne DEF Spin, Procs
      <3>3. UNCHANGED <<pending, i, wait, count>>
        BY <3>1 DEF Spin, locals
      <3>4. /\ Shape' /\ stack'[catcher] = stack[catcher]
            /\ stack'[sender] = IF i < signals_number THEN <<"arm">> ELSE <<"finish">>
        BY <3>2, <3>3 DEF Shape, Procs
      <3>5. i < signals_number \/ i = signals_number
        BY DEF Shape
      <3> QED BY <2>1, <2>2, <3>3, <3>4, <3>5 DEF IInv, Ready, Pending, Counted
    <2>3. CASE stack[sender] = <<"arm">> /\ wait = FALSE /\ i < signals_number
      <3>1. Arm
        BY <1>3, <2>3, OneRuns
      <3>2. stack' = [stack EXCEPT ![sender] = <<"send">>]
        BY <2>3, <3>1, GotoOne DEF Arm, Procs
      <3>3. wait' = TRUE /\ UNCHANGED <<pending, i, count>>
        BY <3>1 DEF Arm
      <3>4. Shape' /\ stack'[catcher] = stack[catcher] /\ stack'[sender] = <<"send">>
        BY <3>2, <3>3 DEF Shape, Procs
      <3> QED BY <2>1, <2>3, <3>3, <3>4 DEF IInv, Ready, Pending, Counted
    <2>4. CASE stack[sender] = <<"send">> /\ wait = TRUE /\ i < signals_number
      <3>1. Send
        BY <1>3, <2>4, OneRuns
      <3>2. stack' = [stack EXCEPT ![sender] = <<"spin">>]
        BY <2>4, <3>1, GotoOne DEF Send, Procs
      <3>3. pending' = [pending EXCEPT ![catcher][1] = 1]
        BY <2>1, <3>1, Killed DEF Send, Procs, Signals, Pending
      <3>4. i' = i + 1 /\ UNCHANGED <<wait, count>>
        BY <3>1 DEF Send
      <3>5. stack'[catcher] = stack[catcher] /\ stack'[sender] = <<"spin">>
        BY <3>2 DEF Shape, Procs
      <3>6. Pending(0, 0, 1, 0)'
        BY <2>1, <3>3 DEF Shape, Pending, Procs, Signals
      <3>7. Shape'
        BY <2>4, <3>2, <3>3, <3>4 DEF Shape, Procs, Signals
      <3>8. i' > 0 /\ Counted(i - 1, i - 1)'
        <4>1. i \in Nat /\ i' - 1 = i /\ i' > 0
          BY <3>4 DEF Shape
        <4> QED BY <2>1, <3>4, <4>1 DEF Counted
      <3> QED BY <2>1, <2>4, <3>4, <3>5, <3>6, <3>7, <3>8 DEF IInv, Out
    <2>5. CASE stack[sender] = <<"finish">> /\ wait = FALSE /\ i = signals_number
      <3>1. Finish
        BY <1>3, <2>5, OneRuns
      <3>2. stack' = [stack EXCEPT ![sender] = <<"idle">>]
        BY <2>5, <3>1, GotoOne DEF Finish, Procs
      <3>3. pending' = [pending EXCEPT ![catcher][2] = 1]
        BY <2>1, <3>1, Killed DEF Finish, Procs, Signals, Pending
      <3>4. UNCHANGED <<i, wait, count>>
        BY <3>1 DEF Finish, locals
      <3>5. stack'[catcher] = stack[catcher] /\ stack'[sender] = <<"idle">>
        BY <3>2 DEF Shape, Procs
      <3>6. Pending(0, 0, 0, 1)'
        BY <2>1, <3>3 DEF Shape, Pending, Procs, Signals
      <3>7. Shape'
        BY <3>2, <3>3, <3>4 DEF Shape, Procs, Signals
      <3> QED BY <2>1, <2>5, <3>4, <3>5, <3>6, <3>7 DEF IInv, Farewell, Counted
    <2> QED BY <2>2, <2>3, <2>4, <2>5 DEF Ready
  <1> QED BY <1>1, <1>2, <1>3 DEF Moves

LEMMA OutStep == ASSUME Shape, Out, Moves
                 PROVE  IInv'
  <1> USE SignalsAssumption, SignalsNumberAssumption
  <1>1. ASSUME Sender PROVE FALSE
    BY <1>1, OneRuns DEF Out, Spin, Arm, Send, Finish, Sender, Confirmed, Summary, Running
  <1>2. ASSUME Deliver(sender) PROVE FALSE
    BY <1>2, NothingDelivered DEF Out, Pending, Signals
  <1>3. CASE stack[catcher] \in Resting /\ Pending(0, 0, 1, 0) /\ Counted(i - 1, i - 1)
    <2>1. CASE Catcher
      <3>1. /\ stack' = [stack EXCEPT ![catcher] = <<"suspend">>]
            /\ UNCHANGED <<pending, locals>>
        BY <1>3, <2>1, RestingCatcher, ReportRests
      <3>2. Shape' /\ stack'[sender] = stack[sender] /\ stack'[catcher] \in Resting
        BY <3>1 DEF Shape, Procs, Resting, locals
      <3> QED BY <1>3, <3>1, <3>2 DEF IInv, Out, Pending, Counted, locals
    <2>2. CASE Deliver(catcher) /\ UNCHANGED locals
      <3>1. /\ ~Blocked(catcher, 1)
            /\ pending' = [pending EXCEPT ![catcher][1] = 0]
            /\ stack' = [stack EXCEPT ![catcher] = <<HandlerEntry[1]>> \o @]
        BY <1>3, <2>2, Delivered DEF Pending, Procs, Signals
      <3>2. stack[catcher] = <<"suspend">>
        BY <1>3, <3>1, ReportBlocks DEF Resting
      <3>3. HandlerEntry[1] = "count"
        BY DEF HandlerEntry
      <3>4. <<"count">> \o <<"suspend">> = <<"count", "suspend">>
        BY PushOne DEF Labels
      <3>5. stack' = [stack EXCEPT ![catcher] = <<"count", "suspend">>]
        BY <3>1, <3>2, <3>3, <3>4
      <3>6. Shape'
        BY <2>2, <3>1, <3>5 DEF Shape, Procs, Signals, locals
      <3>7. stack'[sender] = stack[sender] /\ stack'[catcher] = <<"count", "suspend">>
        BY <3>5 DEF Shape, Procs
      <3>8. Pending(0, 0, 0, 0)'
        BY <1>3, <3>1 DEF Shape, Pending, Procs, Signals
      <3> QED BY <1>3, <2>2, <3>6, <3>7, <3>8 DEF IInv, Out, Counted, locals
    <2> QED BY <1>1, <1>2, <2>1, <2>2 DEF Procs, Moves
  <1>4. CASE /\ stack[catcher] = <<"count", "suspend">>
             /\ Pending(0, 0, 0, 0) /\ Counted(i - 1, i - 1)
    <2>1. ASSUME NEW p \in Procs, Deliver(p) PROVE FALSE
      BY <1>4, <2>1, NothingDelivered DEF Pending, Procs, Signals
    <2>2. CASE Catcher
      <3>1. \A label : Running(catcher, label) => label = "count"
        BY <1>4, RunsTwo
      <3>2. Count
        BY <2>2, <3>1, Zenon DEF Catcher, Reply, Report, Answer
      <3>3. stack' = [stack EXCEPT ![catcher] = <<"reply", "suspend">>]
        BY <1>4, <3>2, GotoTwo DEF Count, Procs
      <3>4. count' = [count EXCEPT ![catcher] = @ + 1] /\ UNCHANGED <<pending, i, wait>>
        BY <3>2 DEF Count
      <3>5. stack'[sender] = stack[sender] /\ stack'[catcher] = <<"reply", "suspend">>
        BY <3>3 DEF Shape, Procs
      <3>6. Shape'
        BY <3>3, <3>4 DEF Shape, Procs
      <3>7. Counted(i - 1, i)'
        BY <1>4, <3>4 DEF Counted, Shape, Procs
      <3> QED BY <1>4, <3>4, <3>5, <3>6, <3>7 DEF IInv, Out, Pending
    <2> QED BY <1>1, <2>1, <2>2 DEF Moves
  <1>5. CASE /\ stack[catcher] = <<"reply", "suspend">>
             /\ Pending(0, 0, 0, 0) /\ Counted(i - 1, i)
    <2>1. ASSUME NEW p \in Procs, Deliver(p) PROVE FALSE
      BY <1>5, <2>1, NothingDelivered DEF Pending, Procs, Signals
    <2>2. CASE Catcher
      <3>1. \A label : Running(catcher, label) => label = "reply"
        BY <1>5, RunsTwo
      <3>2. Reply
        BY <2>2, <3>1, Zenon DEF Catcher, Count, Report, Answer
      <3>3. stack' = [stack EXCEPT ![catcher] = <<"report", "suspend">>]
        BY <1>5, <3>2, GotoTwo DEF Reply, Procs
      <3>a. Kill(sender, 1) /\ stack[sender] # <<>> /\ pending[sender][1] = 0
        BY <1>5, <3>2 DEF Reply, Pending, Out
      <3>4. pending' = [pending EXCEPT ![sender][1] = 1] /\ UNCHANGED locals
        BY <3>2, <3>a, Killed DEF Reply, Procs, Signals
      <3>5. stack'[sender] = <<"spin">> /\ stack'[catcher] \in Resting
        BY <3>3 DEF Shape, Procs, Out, Resting
      <3>6. Shape'
        BY <3>3, <3>4 DEF Shape, Procs, Signals, locals
      <3>7. Pending(1, 0, 0, 0)'
        BY <1>5, <3>4 DEF Shape, Pending, Procs, Signals
      <3> QED BY <1>5, <3>4, <3>5, <3>6, <3>7 DEF IInv, Out, Back, Counted, locals
    <2> QED BY <1>1, <2>1, <2>2 DEF Moves
  <1> QED BY <1>3, <1>4, <1>5 DEF Out

LEMMA BackStep == ASSUME Shape, Back, Moves PROVE IInv'
  <1> USE SignalsAssumption, SignalsNumberAssumption
  <1>1. ASSUME Deliver(catcher) PROVE FALSE
    BY <1>1, NothingDelivered DEF Back, Pending, Signals
  <1>2. CASE Catcher
    <2>1. /\ stack' = [stack EXCEPT ![catcher] = <<"suspend">>]
          /\ UNCHANGED <<pending, locals>>
      BY <1>2, RestingCatcher, ReportRests DEF Back
    <2>2. Shape' /\ stack'[sender] = stack[sender] /\ stack'[catcher] \in Resting
      BY <2>1 DEF Shape, Procs, Resting, locals
    <2> QED BY <2>1, <2>2 DEF IInv, Back, Pending, Counted, locals
  <1>3. CASE stack[sender] = <<"spin">> /\ Pending(1, 0, 0, 0)
    <2>1. ASSUME Sender PROVE FALSE
      <3>1. \A label : Running(sender, label) => label = "spin"
        BY <1>3, RunsOne
      <3>2. Spin
        BY <2>1, <3>1, Zenon DEF Sender, Arm, Send, Finish, Confirmed, Summary
      <3> QED BY <3>2 DEF Spin, Back
    <2>2. CASE Deliver(sender) /\ UNCHANGED locals
      <3>a. pending[sender][1] = 1 /\ \A t \in Signals : t # 1 => pending[sender][t] = 0
        BY <1>3 DEF Pending, Signals
      <3>b. /\ pending' = [pending EXCEPT ![sender][1] = @ - 1]
            /\ stack' = [stack EXCEPT ![sender] = <<HandlerEntry[1]>> \o @]
        BY <2>2, <3>a, Delivered DEF Procs, Signals
      <3>1. /\ pending' = [pending EXCEPT ![sender][1] = 0]
            /\ stack' = [stack EXCEPT ![sender] = <<HandlerEntry[1]>> \o @]
        BY <3>a, <3>b
      <3>2. HandlerEntry[1] = "count"
        BY DEF HandlerEntry
      <3>3. <<"count">> \o <<"spin">> = <<"count", "spin">>
        BY PushOne DEF Labels
      <3>4. stack' = [stack EXCEPT ![sender] = <<"count", "spin">>]
        BY <1>3, <3>1, <3>2, <3>3
      <3>5. Shape'
        BY <2>2, <3>1, <3>4 DEF Shape, Procs, Signals, locals
      <3>6. stack'[sender] = <<"count", "spin">> /\ stack'[catcher] = stack[catcher]
        BY <3>4 DEF Shape, Procs
      <3>7. Pending(0, 0, 0, 0)'
        BY <1>3, <3>1 DEF Shape, Pending, Procs, Signals
      <3> QED BY <2>2, <3>5, <3>6, <3>7 DEF IInv, Back, Counted, locals
    <2> QED BY <1>1, <1>2, <2>1, <2>2 DEF Moves, Procs
  <1>4. CASE stack[sender] = <<"count", "spin">> /\ Pending(0, 0, 0, 0)
    <2>1. ASSUME Deliver(sender) PROVE FALSE
      BY <1>4, <2>1, NothingDelivered DEF Pending, Signals
    <2>2. CASE Sender
      <3>1. \A label : Running(sender, label) => label = "count"
        BY <1>4, RunsTwo
      <3>2. Confirmed
        BY <2>2, <3>1, Zenon DEF Sender, Spin, Arm, Send, Finish, Summary
      <3>3. stack' = [stack EXCEPT ![sender] = <<"spin">>]
        BY <1>4, <3>2, ReturnTwo DEF Confirmed, Procs
      <3>4. /\ count' = [count EXCEPT ![sender] = @ + 1] /\ wait' = FALSE
            /\ UNCHANGED <<pending, i>>
        BY <3>2 DEF Confirmed
      <3>5. stack'[sender] = <<"spin">> /\ stack'[catcher] = stack[catcher]
        BY <3>3 DEF Shape, Procs
      <3>a. wait' \in BOOLEAN /\ DOMAIN stack' = Procs
        BY <3>3, <3>4 DEF Shape
      <3>6. Shape'
        BY <3>4, <3>a DEF Shape, Procs
      <3>7. Counted(i, i)'
        BY <3>4 DEF Back, Counted, Shape, Procs
      <3> QED BY <1>4, <3>4, <3>5, <3>6, <3>7 DEF IInv, Back, Ready, Pending
    <2> QED BY <1>1, <1>2, <2>1, <2>2 DEF Moves, Procs
  <1> QED BY <1>3, <1>4 DEF Back

LEMMA NothingRunsIdle ==
    /\ stack[sender] \in {<<"idle">>, <<>>} => ~Sender
    /\ stack[catcher] = <<>> => ~Catcher
    /\ \A p \in Procs : stack[p] = <<>> => ~Deliver(p)
  <1>1. ASSUME stack[sender] = <<"idle">> PROVE ~Sender
    <2>1. \A label : Running(sender, label) => label = "idle"
      BY <1>1, RunsOne
    <2> QED BY <2>1, Zenon DEF Sender, Spin, Arm, Send, Finish, Confirmed, Summary
  <1>2. ASSUME stack[sender] = <<>> PROVE ~Sender
    <2>1. \A label : ~Running(sender, label)
      BY <1>2, NothingRuns
    <2> QED BY <2>1, Zenon DEF Sender, Spin, Arm, Send, Finish, Confirmed, Summary
  <1>3. ASSUME stack[catcher] = <<>> PROVE ~Catcher
    <2>1. \A label : ~Running(catcher, label)
      BY <1>3, NothingRuns
    <2> QED BY <2>1, Zenon DEF Catcher, Count, Reply, Report, Answer
  <1> QED BY <1>1, <1>2, <1>3 DEF Deliver

LEMMA FarewellStep == ASSUME Shape, Farewell, Moves PROVE IInv'
  <1> USE SignalsAssumption, SignalsNumberAssumption
  <1>0. i = signals_number /\ Counted(i, i) /\ wait = FALSE
    BY DEF Farewell
  <1>1. CASE stack[sender] = <<"idle">> /\ stack[catcher] \in Resting /\ Pending(0, 0, 0, 1)
    <2>1. ASSUME Deliver(sender) PROVE FALSE
      BY <1>1, <2>1, NothingDelivered DEF Pending, Signals
    <2>2. CASE Catcher
      <3>1. /\ stack' = [stack EXCEPT ![catcher] = <<"suspend">>]
            /\ UNCHANGED <<pending, locals>>
        BY <1>1, <2>2, RestingCatcher, ReportRests
      <3>2. Shape' /\ stack'[sender] = stack[sender] /\ stack'[catcher] \in Resting
        BY <3>1 DEF Shape, Procs, Resting, locals
      <3> QED BY <1>0, <1>1, <3>1, <3>2 DEF IInv, Farewell, Pending, Counted, locals
    <2>3. CASE Deliver(catcher) /\ UNCHANGED locals
      <3>1. pending[catcher][2] = 1 /\ \A t \in Signals : t # 2 => pending[catcher][t] = 0
        BY <1>1 DEF Pending, Signals
      <3>2. /\ pending' = [pending EXCEPT ![catcher][2] = @ - 1]
            /\ stack' = [stack EXCEPT ![catcher] = <<HandlerEntry[2]>> \o @]
        BY <2>3, <3>1, Delivered DEF Procs, Signals
      <3>3. HandlerEntry[2] = "answer"
        BY DEF HandlerEntry
      <3>4. /\ <<"answer">> \o <<"suspend">> = <<"answer", "suspend">>
            /\ <<"answer">> \o <<"report", "suspend">> = <<"answer", "report", "suspend">>
        BY PushOne, PushTwo DEF Labels
      <3>5. stack'[sender] = <<"idle">> /\ DOMAIN stack' = Procs
        BY <1>1, <3>2 DEF Shape, Procs
      <3>6. stack'[catcher] \in {<<"answer", "suspend">>, <<"answer", "report", "suspend">>}
        <4>1. stack'[catcher] = <<"answer">> \o stack[catcher]
          BY <3>2, <3>3 DEF Shape, Procs
        <4> QED BY <1>1, <3>4, <4>1, Zenon DEF Resting
      <3>7. Shape'
        BY <2>3, <3>1, <3>2, <3>5 DEF Shape, Procs, Signals, locals
      <3>8. Pending(0, 0, 0, 0)'
        BY <1>1, <3>1, <3>2 DEF Shape, Pending, Procs, Signals
      <3> QED BY <1>0, <2>3, <3>5, <3>6, <3>7, <3>8 DEF IInv, Farewell, Counted, locals
    <2> QED BY <1>1, <2>1, <2>2, <2>3, NothingRunsIdle DEF Moves, Procs
  <1>2. CASE /\ stack[sender] = <<"idle">> /\ Pending(0, 0, 0, 0)
             /\ stack[catcher] \in {<<"answer", "suspend">>, <<"answer", "report", "suspend">>}
    <2>1. ASSUME NEW p \in Procs, Deliver(p) PROVE FALSE
      BY <1>2, <2>1, NothingDelivered DEF Pending, Procs, Signals
    <2>2. CASE Catcher
      <3>1. \A label : Running(catcher, label) => label = "answer"
        BY <1>2, RunsTwo, RunsThree
      <3>2. Answer
        BY <2>2, <3>1, Zenon DEF Catcher, Count, Reply, Report
      <3>3. stack' = [stack EXCEPT ![catcher] = <<>>] /\ Kill(sender, 2) /\ UNCHANGED locals
        BY <3>2 DEF Answer, Exit
      <3>4. stack[sender] # <<>> /\ pending[sender][2] = 0
        BY <1>2 DEF Pending
      <3>5. pending' = [pending EXCEPT ![sender][2] = 1]
        BY <3>3, <3>4, Killed DEF Procs, Signals
      <3>6. stack'[sender] = <<"idle">> /\ stack'[catcher] = <<>> /\ DOMAIN stack' = Procs
        BY <1>2, <3>3 DEF Shape, Procs
      <3>7. Shape'
        BY <3>3, <3>5, <3>6 DEF Shape, Procs, Signals, locals
      <3>8. Pending(0, 1, 0, 0)'
        BY <1>2, <3>5 DEF Shape, Pending, Procs, Signals
      <3> QED BY <1>0, <3>3, <3>6, <3>7, <3>8 DEF IInv, Farewell, Counted, locals
    <2> QED BY <1>2, <2>1, <2>2, NothingRunsIdle DEF Moves
  <1>3. CASE stack[sender] = <<"idle">> /\ stack[catcher] = <<>> /\ Pending(0, 1, 0, 0)
    <2>1. Deliver(sender) /\ UNCHANGED locals
      BY <1>3, NothingRunsIdle DEF Moves, Procs
    <2>2. pending[sender][2] = 1 /\ \A t \in Signals : t # 2 => pending[sender][t] = 0
      BY <1>3 DEF Pending, Signals
    <2>3. /\ pending' = [pending EXCEPT ![sender][2] = @ - 1]
          /\ stack' = [stack EXCEPT ![sender] = <<HandlerEntry[2]>> \o @]
      BY <2>1, <2>2, Delivered DEF Procs, Signals
    <2>4. HandlerEntry[2] = "answer"
      BY DEF HandlerEntry
    <2>5. <<"answer">> \o <<"idle">> = <<"answer", "idle">>
      BY PushOne DEF Labels
    <2>6. /\ stack'[sender] = <<"answer", "idle">> /\ stack'[catcher] = <<>>
          /\ DOMAIN stack' = Procs
      BY <1>3, <2>3, <2>4, <2>5 DEF Shape, Procs
    <2>7. Shape'
      BY <2>1, <2>2, <2>3, <2>6 DEF Shape, Procs, Signals, locals
    <2>8. Pending(0, 0, 0, 0)'
      BY <1>3, <2>2, <2>3 DEF Shape, Pending, Procs, Signals
    <2> QED BY <1>0, <2>1, <2>6, <2>7, <2>8 DEF IInv, Farewell, Counted, locals
  <1>4. CASE stack[sender] = <<"answer", "idle">> /\ stack[catcher] = <<>> /\ Pending(0, 0, 0, 0)
    <2>1. ASSUME NEW p \in Procs, Deliver(p) PROVE FALSE
      BY <1>4, <2>1, NothingDelivered DEF Pending, Procs, Signals
    <2>2. Sender
      BY <1>4, <2>1, NothingRunsIdle DEF Moves
    <2>3. \A label : Running(sender, label) => label = "answer"
      BY <1>4, RunsTwo
    <2>4. Summary
      BY <2>2, <2>3, Zenon DEF Sender, Spin, Arm, Send, Finish, Confirmed
    <2>5. stack' = [stack EXCEPT ![sender] = <<>>] /\ UNCHANGED <<pending, locals>>
      BY <2>4 DEF Summary, Exit
    <2>6. stack'[sender] = <<>> /\ stack'[catcher] = <<>> /\ Shape'
      BY <1>4, <2>5 DEF Shape, Procs, locals
    <2> QED BY <1>0, <1>4, <2>5, <2>6 DEF IInv, Farewell, Counted, Pending, locals
  <1>5. CASE stack[sender] = <<>> /\ stack[catcher] = <<>>
    BY <1>5, NothingRunsIdle DEF Moves, Procs
  <1> QED BY <1>1, <1>2, <1>3, <1>4, <1>5 DEF Farewell
-----------------------------------------------------------------------------
LEMMA IInvStep == IInv /\ [Next]_vars => IInv'
  <1> SUFFICES ASSUME IInv, [Next]_vars PROVE IInv'
    OBVIOUS
  <1>1. CASE UNCHANGED vars
    BY <1>1 DEF IInv, Shape, Ready, Out, Back, Farewell, Pending, Counted, vars
  <1>2. CASE BusyLoop \/ Terminated
    BY <1>1, <1>2 DEF BusyLoop, Terminated
  <1>3. CASE Moves
    BY <1>3, ReadyStep, OutStep, BackStep, FarewellStep DEF IInv
  <1> QED BY <1>1, <1>2, <1>3 DEF Next, Moves

LEMMA IInvOneUnderWay == IInv => OneUnderWay
  <1> SUFFICES ASSUME IInv PROVE OneUnderWay
    OBVIOUS
  <1>1. i \in Int
    BY DEF IInv, Shape
  <1>2. CASE Ready
    BY <1>1, <1>2 DEF Ready, Pending, Counted, OneUnderWay
  <1>3. CASE Out
    BY <1>1, <1>3 DEF Out, Pending, Counted, OneUnderWay
  <1>4. CASE Back
    BY <1>1, <1>4 DEF Back, Pending, Counted, OneUnderWay
  <1>5. CASE Farewell
    BY <1>1, <1>5 DEF Farewell, Pending, Counted, OneUnderWay
  <1> QED BY <1>2, <1>3, <1>4, <1>5 DEF IInv

LEMMA IInvNothingLost == IInv => NothingLost
  <1> SUFFICES ASSUME IInv, NEW p \in Procs, stack[p] = <<>>, NEW q \in Procs
               PROVE  count[q] = signals_number
    BY Zenon DEF NothingLost
  <1>1. ASSUME stack[sender] = <<>> PROVE ~Ready /\ ~Out /\ ~Back
    BY <1>1 DEF Ready, Out, Back
  <1>2. ASSUME stack[catcher] = <<>> PROVE ~Ready /\ ~Out /\ ~Back
    BY <1>2 DEF Ready, Out, Back, Resting
  <1>3. Farewell
    BY <1>1, <1>2 DEF IInv, Procs
  <1> QED BY <1>3 DEF Farewell, Counted, Procs
-----------------------------------------------------------------------------
\* The phases follow each other: whatever the two programs and the kernel do, the
\* handshake is in one of them.
THEOREM Invariance == Spec => []IInv
  BY InitIInv, IInvStep, PTL DEF Spec

\* At most one SIGUSR1 is under way, so no two can merge (sender.c:74, catcher.c:18).
THEOREM NoTwoMerge == Spec => []OneUnderWay
  BY IInvOneUnderWay, Invariance, PTL

\* A program that has ended leaves both counts at the number of signals sent
\* (readme.md:57), for any number and with merging signals as well.
THEOREM AllCounted == Spec => []NothingLost
  BY IInvNothingLost, Invariance, PTL
-----------------------------------------------------------------------------
(* The table of blocks.                                                    *)

\* What is in an entry of the table was stored there, until a new table is made; what has
\* not been stored yet has not been freed.
BlocksInv ==
    /\ phase \in {"commands", "ended", "crashed"}
    /\ size \in Nat
    /\ size # 0 => blocks \in [0..size -> 0..Len(saved)]
    /\ saved \in Seq(Int) /\ Len(saved) <= MaxBlocks
    /\ freed \in [1..MaxBlocks -> Nat]
    /\ size # 0 => \A e \in 0..size : blocks[e] # 0 => saved[blocks[e]] = e
    /\ \A k \in 1..MaxBlocks : k > Len(saved) => freed[k] = 0
    /\ TableKept

LEMMA BlocksStart == BlocksInit => BlocksInv
BY BlocksAssumption DEF BlocksInit, BlocksInv, TableKept

\* A new table is empty, and all blocks are out of reach.
LEMMA CreateTable ==
    ASSUME BlocksInv, NEW n \in Sizes, create_table(n)
    PROVE  BlocksInv'
<1>1. CASE n <= 0
  BY <1>1 DEF create_table, blocksVars, BlocksInv, TableKept
<1>2. CASE ~(n <= 0)
  <2>1. /\ size' = n /\ n \in Nat /\ n # 0 /\ phase' = "commands" /\ freed' = freed
        /\ blocks' = [e \in 0..n |-> 0] /\ saved' = [k \in 1..Len(saved) |-> -1]
    BY <1>2, BlocksAssumption DEF create_table, BlocksInv
  <2>2. saved' \in Seq(Int) /\ Len(saved') = Len(saved) /\ \A k \in 1..Len(saved) : saved'[k] = -1
    BY <2>1 DEF BlocksInv
  <2> QED  BY <2>1, <2>2 DEF BlocksInv, TableKept
<1> QED  BY <1>1, <1>2

\* A new block is where the search ended.
LEMMA WcFiles ==
    ASSUME BlocksInv, wc_files
    PROVE  BlocksInv'
<1>1. CASE size = 0
  BY <1>1 DEF wc_files, BlocksInv, TableKept
<1>2. CASE size # 0
  <2>1. PICK e \in 0..size : /\ EmptyPlace(e)
                             /\ blocks' = [blocks EXCEPT ![e] = Len(saved) + 1]
                             /\ saved' = Append(saved, e)
    BY <1>2, Zenon DEF wc_files, save_in_memory
  <2>2. /\ UNCHANGED <<phase, size, freed>> /\ phase = "commands" /\ freed \in [1..MaxBlocks -> Nat] /\ Len(saved) < MaxBlocks
        /\ blocks \in [0..size -> 0..Len(saved)] /\ saved \in Seq(Int) /\ size \in Nat
        /\ blocks[e] = 0 \/ e = size
    BY <1>2, <2>1 DEF wc_files, BlocksInv, EmptyPlace
  <2>3. /\ saved' \in Seq(Int) /\ Len(saved') = Len(saved) + 1 /\ saved'[Len(saved) + 1] = e
        /\ \A k \in 1..Len(saved) : saved'[k] = saved[k]
    BY <2>1, <2>2
  <2>4. /\ blocks' \in [0..size -> 0..Len(saved')] /\ blocks'[e] = Len(saved) + 1
        /\ \A f \in 0..size : f # e => blocks'[f] = blocks[f]
    BY <2>1, <2>2, <2>3
  <2>5. TableKept'
    <3>1. DOMAIN saved' = 1..(Len(saved) + 1) /\ DOMAIN saved = 1..Len(saved)
      BY <2>2, <2>3
    <3>2. ASSUME NEW k \in 1..Len(saved)
          PROVE  freed[k] <= 1 /\ (saved[k] \in 0..(size - 1) => (blocks'[saved[k]] = k <=> freed[k] = 0))
      <4>1. freed[k] <= 1 /\ (saved[k] \in 0..(size - 1) => (blocks[saved[k]] = k <=> freed[k] = 0))
        BY <3>1 DEF BlocksInv, TableKept
      <4>2. k # 0 /\ k # Len(saved) + 1 /\ Len(saved) \in Nat /\ saved[k] \in Int
        BY <2>2
      <4>3. ASSUME saved[k] \in 0..(size - 1)
            PROVE  blocks'[saved[k]] = k <=> blocks[saved[k]] = k
        <5>1. saved[k] \in 0..size /\ saved[k] # size
          BY <2>2, <4>3
        <5>2. CASE saved[k] = e
          BY <2>2, <2>4, <4>2, <5>1, <5>2
        <5>3. CASE saved[k] # e
          BY <2>4, <5>1, <5>3
        <5> QED  BY <5>2, <5>3
      <4> QED  BY <4>1, <4>3
    <3>3. freed[Len(saved) + 1] = 0 /\ blocks'[e] = Len(saved) + 1
      BY <2>2, <2>4, BlocksAssumption, SMTT(30) DEF BlocksInv
    <3>4. ASSUME NEW k \in DOMAIN saved'
          PROVE  freed[k] <= 1 /\ (saved'[k] \in 0..(size - 1) => (blocks'[saved'[k]] = k <=> freed[k] = 0))
      <4>1. CASE k \in 1..Len(saved)
        BY <2>3, <3>2, <4>1
      <4>2. CASE k = Len(saved) + 1
        BY <2>3, <3>3, <4>2
      <4> QED  BY <2>2, <3>1, <3>4, <4>1, <4>2
    <3> QED  BY <2>2, <3>4 DEF TableKept
  <2>6. ASSUME NEW f \in 0..size, blocks'[f] # 0
        PROVE  saved'[blocks'[f]] = f
    <3>1. CASE f = e
      BY <2>3, <2>4, <3>1
    <3>2. CASE f # e
      <4>1. blocks'[f] = blocks[f] /\ blocks[f] \in 1..Len(saved) /\ saved[blocks[f]] = f
        BY <1>2, <2>2, <2>4, <2>6, <3>2, SMTT(30) DEF BlocksInv
      <4> QED  BY <2>3, <4>1
    <3> QED  BY <3>1, <3>2
  <2>7. \A k \in 1..MaxBlocks : k > Len(saved') => freed'[k] = 0
    BY <2>2, <2>3, BlocksAssumption DEF BlocksInv
  <2> QED  BY <2>2, <2>3, <2>4, <2>5, <2>6, <2>7, BlocksAssumption, SMTT(30) DEF BlocksInv
<1> QED  BY <1>1, <1>2

\* What is freed was in the table, and is not any more.
LEMMA Free ==
    ASSUME BlocksInv, size # 0, NEW S \in SUBSET (0..(size - 1)), free(S), UNCHANGED <<size, saved>>
    PROVE  /\ blocks' \in [0..size -> 0..Len(saved)] /\ freed' \in [1..MaxBlocks -> Nat]
           /\ \A e \in 0..size : blocks'[e] = IF e \in S THEN 0 ELSE blocks[e]
           /\ \A k \in 1..MaxBlocks : k > Len(saved) => freed'[k] = 0
           /\ \A k \in 1..Len(saved) :
                /\ freed'[k] <= 1
                /\ saved[k] \in 0..(size - 1)
                     => /\ blocks'[saved[k]] = k <=> freed'[k] = 0
                        /\ freed'[k] = IF saved[k] \in S THEN 1 ELSE freed[k]
<1>1. /\ blocks \in [0..size -> 0..Len(saved)] /\ freed \in [1..MaxBlocks -> Nat]
      /\ saved \in Seq(Int) /\ size \in Nat /\ Len(saved) <= MaxBlocks /\ Len(saved) \in Nat
      /\ \A e \in 0..size : blocks[e] # 0 => saved[blocks[e]] = e
      /\ \A k \in 1..MaxBlocks : k > Len(saved) => freed[k] = 0
      /\ \A k \in 1..Len(saved) : /\ freed[k] <= 1
                                  /\ saved[k] \in 0..(size - 1) => (blocks[saved[k]] = k <=> freed[k] = 0)
  BY SMTT(30) DEF BlocksInv, TableKept
<1>2. /\ \A e \in 0..size : blocks'[e] = IF e \in S THEN 0 ELSE blocks[e]
      /\ blocks' \in [0..size -> 0..Len(saved)]
  BY <1>1 DEF free
<1>3. /\ freed' \in [1..MaxBlocks -> Nat]
      /\ \A k \in 1..MaxBlocks : freed'[k] = freed[k] + (IF \E e \in S : blocks[e] = k THEN 1 ELSE 0)
  <2>1. freed' = [k \in 1..MaxBlocks |-> freed[k] + (IF \E e \in S : blocks[e] = k THEN 1 ELSE 0)]
    BY <1>1 DEF free
  <2> QED  BY <1>1, <2>1
<1>4. ASSUME NEW k \in 1..MaxBlocks, k > Len(saved)
      PROVE  freed'[k] = 0
  BY <1>1, <1>3, <1>4
<1>5. ASSUME NEW k \in 1..Len(saved)
      PROVE  (\E e \in S : blocks[e] = k) <=> (saved[k] \in S /\ blocks[saved[k]] = k)
  <2>1. ASSUME NEW e \in S, blocks[e] = k
        PROVE  saved[k] = e
    <3>1. e \in 0..size /\ k # 0
      BY <1>1
    <3> QED  BY <1>1, <2>1, <3>1
  <2> QED  BY <2>1
<1>6. ASSUME NEW k \in 1..Len(saved)
      PROVE  /\ freed'[k] <= 1
             /\ saved[k] \in 0..(size - 1)
                  => /\ blocks'[saved[k]] = k <=> freed'[k] = 0
                     /\ freed'[k] = IF saved[k] \in S THEN 1 ELSE freed[k]
  <2>1. k \in 1..MaxBlocks /\ freed[k] \in Nat /\ freed[k] <= 1 /\ k # 0
    BY <1>1, BlocksAssumption
  <2>2. freed'[k] = freed[k] + (IF saved[k] \in S /\ blocks[saved[k]] = k THEN 1 ELSE 0)
    BY <1>3, <1>5, <2>1
  <2>3. ASSUME saved[k] \in 0..(size - 1)
        PROVE  /\ blocks[saved[k]] = k <=> freed[k] = 0
               /\ blocks'[saved[k]] = IF saved[k] \in S THEN 0 ELSE blocks[saved[k]]
    <3>1. saved[k] \in 0..size
      BY <1>1, <2>3
    <3> QED  BY <1>1, <1>2, <2>3, <3>1
  <2>4. CASE saved[k] \in S
    <3>1. saved[k] \in 0..(size - 1) /\ saved[k] \in 0..size
      BY <1>1, <2>4
    <3> QED  BY <2>1, <2>2, <2>3, <2>4, <3>1
  <2>5. CASE saved[k] \notin S
    BY <2>1, <2>2, <2>3, <2>5
  <2> QED  BY <2>4, <2>5
<1> QED  BY <1>2, <1>3, <1>4, <1>6

LEMMA FreeKeeps ==
    ASSUME BlocksInv, size # 0, NEW S \in SUBSET (0..(size - 1)), free(S), UNCHANGED <<size, saved>>,
           phase' = "commands" \/ (phase' = "ended" /\ S = 0..(size - 1))
    PROVE  BlocksInv'
<1>1. /\ saved \in Seq(Int) /\ size \in Nat /\ Len(saved) <= MaxBlocks
      /\ blocks \in [0..size -> 0..Len(saved)]
      /\ \A e \in 0..size : blocks[e] # 0 => saved[blocks[e]] = e
      /\ DOMAIN saved = 1..Len(saved)
  BY DEF BlocksInv
<1>2. /\ blocks' \in [0..size -> 0..Len(saved)] /\ freed' \in [1..MaxBlocks -> Nat]
      /\ \A e \in 0..size : blocks'[e] = IF e \in S THEN 0 ELSE blocks[e]
      /\ \A k \in 1..MaxBlocks : k > Len(saved) => freed'[k] = 0
      /\ \A k \in 1..Len(saved) :
           /\ freed'[k] <= 1
           /\ saved[k] \in 0..(size - 1)
                => /\ blocks'[saved[k]] = k <=> freed'[k] = 0
                   /\ freed'[k] = IF saved[k] \in S THEN 1 ELSE freed[k]
  BY Free
<1>3. \A e \in 0..size : blocks'[e] # 0 => saved[blocks'[e]] = e
  BY <1>1, <1>2
<1>4. TableKept'
  BY <1>1, <1>2 DEF TableKept
<1> QED  BY <1>1, <1>2, <1>3, <1>4 DEF BlocksInv

LEMMA RemoveBlock ==
    ASSUME BlocksInv, NEW index \in Int, remove_block(index)
    PROVE  BlocksInv'
<1>1. CASE UNCHANGED <<size, blocks, saved, freed>> /\ (phase' = phase \/ phase' = "crashed")
  BY <1>1 DEF BlocksInv, TableKept
<1>2. CASE /\ free({index}) /\ UNCHANGED <<phase, size, saved>> /\ phase = "commands"
           /\ index \in 0..(size - 1)
  <2>1. {index} \in SUBSET (0..(size - 1)) /\ size # 0 /\ phase' = "commands"
    BY <1>2 DEF BlocksInv
  <2> QED  BY <1>2, <2>1, FreeKeeps
<1>3. size \in Nat
  BY DEF BlocksInv
<1> QED  BY <1>1, <1>2, <1>3 DEF remove_block, blocksVars

LEMMA RemoveArray ==
    ASSUME BlocksInv, remove_array
    PROVE  BlocksInv'
<1>1. CASE size = 0
  BY <1>1 DEF remove_array, BlocksInv, TableKept
<1>2. CASE size # 0
  <2>1. free(0..(size - 1)) /\ UNCHANGED <<size, saved>> /\ phase' = "ended"
    BY <1>2 DEF remove_array
  <2> QED  BY <1>2, <2>1, FreeKeeps
<1> QED  BY <1>1, <1>2

LEMMA BlocksStep == BlocksInv /\ [BlocksNext]_blocksVars => BlocksInv'
<1>1. ASSUME BlocksInv, BlocksNext
      PROVE  BlocksInv'
  <2>1. -1..(MaxBlocks + 1) \subseteq Int
    OBVIOUS
  <2> QED  BY <1>1, <2>1, CreateTable, WcFiles, RemoveBlock, RemoveArray DEF BlocksNext
<1>2. ASSUME BlocksInv, UNCHANGED blocksVars
      PROVE  BlocksInv'
  BY <1>2 DEF blocksVars, BlocksInv, TableKept
<1> QED  BY <1>1, <1>2
-----------------------------------------------------------------------------
(* A line of commands.                                                     *)

\* The pipe of the command that ran last has all that it wrote; the running one has read
\* what is missing in its input, and nobody after it has read anything.
CommandsInv ==
    /\ outputs \in Seq(Nat)
    /\ outputs # <<>> => read \in [1..Len(outputs) -> Nat]
    /\ current \in 1..(Len(outputs) + 1)
    /\ prev \in Nat /\ curr \in Nat /\ written \in Nat
    /\ child \in {"none", "running", "exited"}
    /\ first \in BOOLEAN /\ (first <=> current = 1)
    /\ InputIsOutput
    /\ \A k \in 1..Len(outputs) : k > current => read[k] = 0
    /\ child = "none" /\ current <= Len(outputs) => read[current] = 0
    /\ child = "none" /\ current \in 2..Len(outputs) => prev = outputs[current - 1]
    /\ child # "none" =>
         /\ current <= Len(outputs)
         /\ current > 1 => read[current] + prev = outputs[current - 1]
         /\ current < Len(outputs) => curr = written
         /\ child = "exited" => written = outputs[current] /\ (current = 1 \/ prev = 0)

LEMMA CommandsStart == CommandsInit => CommandsInv
BY DEF CommandsInit, CommandsInv, InputIsOutput

\* A command reads from the pipe before its own.
LEMMA ReadStep ==
    ASSUME CommandsInv, Read
    PROVE  CommandsInv'
<1>1. /\ child = "running" /\ child' = "running" /\ prev > 0 /\ prev' = prev - 1
      /\ read' = [read EXCEPT ![current] = @ + 1] /\ outputs' = outputs /\ current' = current
      /\ first' = first /\ curr' = curr /\ written' = written /\ ~first
  BY DEF Read
<1>2. /\ outputs \in Seq(Nat) /\ current \in 1..Len(outputs) /\ outputs # <<>> /\ Len(outputs) \in Nat
      /\ read \in [1..Len(outputs) -> Nat] /\ prev \in Nat /\ curr \in Nat /\ written \in Nat
      /\ first \in BOOLEAN /\ (first <=> current = 1)
      /\ read[current] + prev = outputs[current - 1] /\ current > 1
      /\ current < Len(outputs) => curr = written
      /\ \A k \in 1..Len(outputs) : k > current => read[k] = 0
      /\ \A k \in 2..Len(outputs) : k < current => read[k] = outputs[k - 1]
  BY <1>1 DEF CommandsInv, InputIsOutput
<1>3. /\ read' \in [1..Len(outputs) -> Nat] /\ read'[current] = read[current] + 1
      /\ \A k \in 1..Len(outputs) : k # current => read'[k] = read[k]
  <2>1. read \in [1..Len(outputs) -> Nat] /\ current \in 1..Len(outputs)
    BY <1>2
  <2>2. read' = [read EXCEPT ![current] = @ + 1]
    BY <1>1
  <2> QED  BY <2>1, <2>2
<1>4. read'[current] + prev' = outputs[current - 1] /\ prev' \in Nat
  <2>1. read[current] \in Nat
    BY <1>2
  <2> QED  BY <1>1, <1>2, <1>3, <2>1
<1>5. ASSUME NEW k \in 1..Len(outputs), k > current
      PROVE  read'[k] = 0
  BY <1>2, <1>3, <1>5
<1>6. InputIsOutput'
  <2>1. ASSUME NEW k \in 2..Len(outputs), k < current
        PROVE  read'[k] = outputs[k - 1]
    BY <1>2, <1>3, <2>1
  <2> QED  BY <1>1, <2>1 DEF InputIsOutput
<1> QED  BY <1>1, <1>2, <1>3, <1>4, <1>5, <1>6 DEF CommandsInv

\* The interpreter goes on to the next command.
LEMMA AwaitedStep ==
    ASSUME CommandsInv, Awaited
    PROVE  CommandsInv'
<1>1. /\ child = "exited" /\ child' = "none" /\ first' = FALSE /\ prev' = curr
      /\ current' = current + 1 /\ outputs' = outputs /\ curr' = curr /\ written' = written /\ read' = read
  BY DEF Awaited
<1>2. /\ outputs \in Seq(Nat) /\ current \in 1..Len(outputs) /\ outputs # <<>> /\ Len(outputs) \in Nat
      /\ read \in [1..Len(outputs) -> Nat] /\ curr \in Nat /\ written \in Nat
      /\ current > 1 => read[current] = outputs[current - 1]
      /\ current < Len(outputs) => curr = outputs[current]
      /\ \A k \in 1..Len(outputs) : k > current => read[k] = 0
      /\ \A k \in 2..Len(outputs) : k < current => read[k] = outputs[k - 1]
  <2>1. /\ outputs \in Seq(Nat) /\ current \in 1..Len(outputs) /\ outputs # <<>> /\ Len(outputs) \in Nat
        /\ read \in [1..Len(outputs) -> Nat] /\ curr \in Nat /\ written \in Nat
        /\ current > 1 => read[current] + prev = outputs[current - 1]
        /\ current < Len(outputs) => curr = written
        /\ written = outputs[current] /\ (current = 1 \/ prev = 0)
    BY <1>1 DEF CommandsInv
  <2>2. read[current] \in Nat
    BY <2>1
  <2>3. current > 1 => read[current] = outputs[current - 1]
    BY <2>1, <2>2
  <2> QED  BY <2>1, <2>3 DEF CommandsInv, InputIsOutput
<1>3. current' \in 1..(Len(outputs) + 1) /\ current' # 1
  BY <1>1, <1>2
<1>4. current' <= Len(outputs) => prev' = outputs[current' - 1] /\ read[current'] = 0
  BY <1>1, <1>2
<1>7. /\ outputs' \in Seq(Nat) /\ prev' \in Nat /\ curr' \in Nat /\ written' \in Nat
      /\ (outputs' # <<>> => read' \in [1..Len(outputs') -> Nat])
      /\ first' \in BOOLEAN /\ (first' <=> current' = 1)
  BY <1>1, <1>2, <1>3
<1>5. ASSUME NEW k \in 1..Len(outputs), k > current'
      PROVE  read[k] = 0
  BY <1>1, <1>2, <1>5
<1>6. InputIsOutput'
  <2>1. ASSUME NEW k \in 2..Len(outputs), k < current'
        PROVE  read[k] = outputs[k - 1]
    BY <1>1, <1>2, <2>1
  <2> QED  BY <1>1, <2>1 DEF InputIsOutput
<1> QED  BY <1>1, <1>3, <1>4, <1>5, <1>6, <1>7 DEF CommandsInv

LEMMA CommandsStep == CommandsInv /\ [CommandsNext]_commandsVars => CommandsInv'
<1> SUFFICES ASSUME CommandsInv, [CommandsNext]_commandsVars
             PROVE  CommandsInv'
  OBVIOUS
<1> USE DEF CommandsInv, InputIsOutput
<1>1. CASE ReadLine
  <2>1. PICK n \in Lengths : outputs' \in [1..n -> Outputs] /\ read' = [k \in 1..n |-> 0]
    BY <1>1 DEF ReadLine
  <2>2. /\ n \in Nat \ {0} /\ outputs = <<>> /\ UNCHANGED <<current, child, first, prev, curr, written>>
        /\ Len(outputs) = 0
    BY <1>1, CommandsAssumption DEF ReadLine
  <2>3. outputs' \in Seq(Nat) /\ Len(outputs') = n
    <3>1. outputs' \in [1..n -> Nat]
      BY <2>1, <2>2, CommandsAssumption
    <3> QED  BY <2>2, <3>1
  <2>4. current = 1 /\ child = "none" /\ first = TRUE
    BY <2>2
  <2> QED  BY <2>1, <2>2, <2>3, <2>4
<1>2. CASE Start
  BY <1>2 DEF Start
<1>3. CASE Read
  BY <1>3, ReadStep
<1>4. CASE Write
  BY <1>4 DEF Write, LastCommand
<1>5. CASE CommandExits
  BY <1>5 DEF CommandExits
<1>6. CASE Awaited
  BY <1>6, AwaitedStep
<1>7. CASE UNCHANGED commandsVars
  BY <1>7 DEF commandsVars
<1> QED  BY <1>1, <1>2, <1>3, <1>4, <1>5, <1>6, <1>7 DEF CommandsNext
-----------------------------------------------------------------------------
(* The burst.                                                              *)

\* The flows of control of a process over the label of its main program: a handler at most
\* once, and in either order.
Flows(base) == {<<base>>, <<"count", base>>, <<"answer", base>>,
                <<"count", "answer", base>>, <<"answer", "count", base>>}
Bases == {"send", "idle", "suspend"}
Has(s, label) == \E k \in DOMAIN s : s[k] = label

\* One that is in handler1 has a signal in hand that it has not counted yet.
Hand(s) == IF Has(s, "count") THEN 1 ELSE 0

\* What a process knows of the signals that were sent to it.
Known(p) == count[p] + Hand(stack[p]) + pending[p][1]
Accounted(p, from) ==
    stack[p] # <<>> => IF Queued THEN Known(p) = sent[from] ELSE Known(p) <= sent[from]

BurstTypes ==
    /\ pending \in [Procs -> [Signals -> Nat]]
    /\ sent \in [Procs -> Nat] /\ count \in [Procs -> Nat]
    /\ DOMAIN stack = Procs

BurstFlows ==
    /\ stack[sender] \in Flows("send") \cup Flows("idle") \cup {<<>>}
    /\ stack[catcher] \in Flows("suspend") \cup {<<>>}

BurstInv == /\ BurstTypes /\ BurstFlows
            /\ Accounted(sender, catcher) /\ Accounted(catcher, sender)
            /\ Burst!NoMoreThanSent

LEMMA HasOf ==
    ASSUME NEW x, NEW y, NEW z, NEW label
    PROVE  /\ Has(<<x>>, label) <=> label = x
           /\ Has(<<x, y>>, label) <=> label \in {x, y}
           /\ Has(<<x, y, z>>, label) <=> label \in {x, y, z}
<1>1. DOMAIN <<x>> = {1} /\ DOMAIN <<x, y>> = {1, 2} /\ DOMAIN <<x, y, z>> = {1, 2, 3}
  OBVIOUS
<1>2. Has(<<x>>, label) <=> label = x
  BY DEF Has
<1>3. Has(<<x, y>>, label) <=> label \in {x, y}
  BY DEF Has
<1>4. Has(<<x, y, z>>, label) <=> label \in {x, y, z}
  BY DEF Has
<1> QED  BY <1>2, <1>3, <1>4

\* A handler that returns, and one that is entered because it is not on the stack.
LEMMA Flow ==
    ASSUME NEW base \in Bases, NEW s \in Flows(base)
    PROVE  /\ s # <<>>
           /\ Head(s) = base => s = <<base>>
           /\ Head(s) \in {base, "count", "answer"}
           /\ Head(s) = "count" => Has(s, "count") /\ Tail(s) \in Flows(base) /\ ~Has(Tail(s), "count")
           /\ ~Has(s, "count") => <<"count">> \o s \in Flows(base) /\ Has(<<"count">> \o s, "count")
           /\ ~Has(s, "answer") => /\ <<"answer">> \o s \in Flows(base)
                                   /\ Has(<<"answer">> \o s, "count") <=> Has(s, "count")
<1>1. base \in Labels /\ base # "count" /\ base # "answer" /\ "count" \in Labels /\ "answer" \in Labels
  BY DEF Bases, Labels
<1>2. CASE s = <<base>>
  <2>1. <<"count">> \o s = <<"count", base>> /\ <<"answer">> \o s = <<"answer", base>>
    BY <1>1, <1>2, PushOne
  <2>2. Head(s) = base /\ s # <<>>
    BY <1>2
  <2>3. /\ ~Has(s, "count") /\ Has(<<"count", base>>, "count") /\ ~Has(<<"answer", base>>, "count")
    BY <1>1, <1>2, HasOf
  <2> QED  BY <1>1, <1>2, <2>1, <2>2, <2>3, Zenon DEF Flows
<1>3. CASE s = <<"count", base>>
  <2>1. <<"answer">> \o s = <<"answer", "count", base>>
    BY <1>1, <1>3, PushTwo
  <2>2. Head(s) = "count" /\ Tail(s) = <<base>> /\ s # <<>>
    BY <1>3
  <2>3. Has(s, "count")
    BY <1>3, HasOf
  <2>4. ~Has(<<base>>, "count")
    BY <1>1, HasOf
  <2>5. Has(<<"answer", "count", base>>, "count")
    BY HasOf
  <2> QED  BY <1>1, <1>3, <2>1, <2>2, <2>3, <2>4, <2>5, Zenon DEF Flows
<1>4. CASE s = <<"answer", base>>
  <2>1. <<"count">> \o s = <<"count", "answer", base>>
    BY <1>1, <1>4, PushTwo
  <2>2. Head(s) = "answer" /\ s # <<>> /\ "answer" # "count"
    BY <1>4
  <2>3. Has(s, "answer") /\ Has(<<"count", "answer", base>>, "count")
    BY <1>1, <1>4, HasOf
  <2> QED  BY <1>1, <1>4, <2>1, <2>2, <2>3, Zenon DEF Flows
<1>5. CASE s = <<"count", "answer", base>>
  <2>1. Head(s) = "count" /\ Tail(s) = <<"answer", base>> /\ s # <<>>
    BY <1>5
  <2>2. Has(s, "count") /\ Has(s, "answer")
    BY <1>5, HasOf
  <2>3. ~Has(<<"answer", base>>, "count")
    BY <1>1, HasOf
  <2> QED  BY <1>1, <1>5, <2>1, <2>2, <2>3, Zenon DEF Flows
<1>6. CASE s = <<"answer", "count", base>>
  <2>1. Head(s) = "answer" /\ s # <<>> /\ "answer" # "count"
    BY <1>6
  <2>2. Has(s, "count") /\ Has(s, "answer")
    BY <1>6, HasOf
  <2> QED  BY <1>1, <1>6, <2>1, <2>2, Zenon DEF Flows
<1> QED  BY <1>2, <1>3, <1>4, <1>5, <1>6 DEF Flows

LEMMA BurstStart == Burst!Init => BurstInv
<1> SUFFICES ASSUME Burst!Init
             PROVE  BurstInv
  OBVIOUS
<1>1. /\ stack = [p \in Procs |-> IF p = sender THEN <<"send">> ELSE <<"suspend">>]
      /\ pending = [p \in Procs |-> [s \in Signals |-> 0]]
      /\ sent = [p \in Procs |-> 0] /\ count = [p \in Procs |-> 0]
  BY DEF Burst!Init, Burst!SignalsInit, Burst!Procs, Burst!Signals, Procs, Signals
<1>2. stack[sender] = <<"send">> /\ stack[catcher] = <<"suspend">> /\ DOMAIN stack = Procs
  BY <1>1, SignalsAssumption DEF Procs
<1>3. Hand(stack[sender]) = 0 /\ Hand(stack[catcher]) = 0
  <2>1. ~Has(<<"send">>, "count") /\ ~Has(<<"suspend">>, "count")
    BY HasOf
  <2> QED  BY <1>2, <2>1 DEF Hand
<1>4. Known(sender) = 0 /\ Known(catcher) = 0
  BY <1>1, <1>3 DEF Known, Procs, Signals
<1>5. BurstTypes /\ BurstFlows
  BY <1>1, <1>2 DEF BurstTypes, BurstFlows, Flows
<1>6. /\ Accounted(sender, catcher) /\ Accounted(catcher, sender)
      /\ Burst!NoMoreThanSent
  BY <1>1, <1>4 DEF Accounted, Burst!NoMoreThanSent, Procs
<1> QED  BY <1>5, <1>6 DEF BurstInv

\* What the actions of the burst do.
Sends(from, to) ==
    /\ Kill(to, 1)
    /\ sent' = [sent EXCEPT ![from] = @ + 1]
    /\ mode' = mode /\ stack' = stack /\ count' = count

LEMMA BurstActions ==
    ASSUME Burst!Next
    PROVE  \/ Running(sender, "send") /\ Sends(sender, catcher)
           \/ Running(catcher, "answer") /\ sent[catcher] < count[catcher] /\ Sends(catcher, sender)
           \/ /\ Running(sender, "send") /\ Goto(sender, "idle") /\ Kill(catcher, 2)
              /\ mode' = mode /\ sent' = sent /\ count' = count
           \/ \E p \in Procs : /\ Running(p, "count") /\ Return(p)
                               /\ count' = [count EXCEPT ![p] = @ + 1]
                               /\ mode' = mode /\ sent' = sent /\ pending' = pending
           \/ Exit(sender) /\ mode' = mode /\ sent' = sent /\ count' = count /\ pending' = pending
           \/ Exit(catcher) /\ Kill(sender, 2) /\ mode' = mode /\ sent' = sent /\ count' = count
           \/ \E p \in Procs : Deliver(p) /\ mode' = mode /\ sent' = sent /\ count' = count
           \/ UNCHANGED <<mode, pending, stack, sent, count>>
BY DEF Burst!Next, Burst!Sender, Burst!Catcher, Burst!Send, Burst!Finish, Burst!Count, Burst!Summary,
       Burst!SendBack, Burst!Answer, Burst!BusyLoop, Burst!Terminated, Burst!locals, Burst!vars,
       Burst!Running, Burst!Kill, Burst!Goto, Burst!Return, Burst!Exit, Burst!Deliver, Burst!Procs,
       Burst!Signals, Burst!HandlerLabels, Burst!HandlerEntry, Burst!Queued, Burst!Blocked,
       Burst!Deliverable, Running, Kill, Goto, Return, Exit, Deliver, Procs, Signals, HandlerLabels,
       HandlerEntry, Queued, Blocked, Deliverable, Sends

\* A signal that is sent is on its way, or merges with one that is.
LEMMA AccountSent ==
    ASSUME BurstTypes, NEW from \in Procs, NEW to \in Procs, from # to, Accounted(to, from),
           Sends(from, to)
    PROVE  BurstTypes' /\ Accounted(to, from)'
<1>1. /\ pending' = [pending EXCEPT ![to][1] = IF stack[to] = <<>> THEN 0
                                               ELSE IF Queued THEN @ + 1 ELSE 1]
      /\ sent' = [sent EXCEPT ![from] = @ + 1]
      /\ mode' = mode /\ stack' = stack /\ count' = count
  BY DEF Sends, Kill
<1>2. pending[to][1] \in Nat /\ sent[from] \in Nat /\ count[to] \in Nat /\ Hand(stack[to]) \in Nat
  BY DEF BurstTypes, Signals, Hand
<1>3. /\ pending'[to][1] = IF stack[to] = <<>> THEN 0 ELSE IF Queued THEN pending[to][1] + 1 ELSE 1
      /\ sent'[from] = sent[from] + 1 /\ Hand(stack[to])' = Hand(stack[to]) /\ Queued' = Queued
  BY <1>1 DEF BurstTypes, Signals, Queued, Hand
<1>4. Accounted(to, from)'
  BY <1>1, <1>2, <1>3, SMTT(30) DEF Accounted, Known
<1>5. BurstTypes'
  BY <1>1, SMTT(30) DEF BurstTypes, Signals
<1> QED  BY <1>4, <1>5

\* What does not concern a process leaves it its account.
LEMMA AccountKept ==
    ASSUME NEW p, NEW from, Accounted(p, from), mode' = mode, sent'[from] = sent[from],
           stack'[p] # <<>> => stack[p] # <<>> /\ Known(p)' = Known(p)
    PROVE  Accounted(p, from)'
BY DEF Accounted, Queued

LEMMA SameAccount ==
    ASSUME NEW p, count'[p] = count[p], stack'[p] = stack[p], pending'[p][1] = pending[p][1]
    PROVE  Known(p)' = Known(p)
BY DEF Known, Hand

\* The loops of the two programs (sender.c:71 and catcher.c:22).
LEMMA BurstSends ==
    ASSUME BurstInv, NEW from \in Procs, NEW to \in Procs, from # to, Sends(from, to),
           from = catcher => sent[catcher] < count[catcher]
    PROVE  BurstInv'
<1>1. BurstTypes /\ BurstFlows /\ Accounted(to, from) /\ Accounted(from, to)
  BY DEF BurstInv, Procs
<1>2. BurstTypes' /\ Accounted(to, from)'
  BY <1>1, AccountSent
<1>3. /\ pending'[from][1] = pending[from][1] /\ sent'[to] = sent[to] /\ sent'[from] = sent[from] + 1
      /\ mode' = mode /\ stack' = stack /\ count' = count
  BY <1>1 DEF Sends, Kill, BurstTypes, Signals
<1>4. Accounted(from, to)'
  BY <1>1, <1>3, AccountKept, SameAccount
<1>5. Burst!NoMoreThanSent'
  BY <1>1, <1>3, SignalsAssumption DEF BurstInv, BurstTypes, Burst!NoMoreThanSent, Procs
<1>6. BurstFlows'
  BY <1>1, <1>3 DEF BurstFlows
<1> QED  BY <1>2, <1>4, <1>5, <1>6 DEF BurstInv, Procs

\* The summary, and the answer to it; a program that has its answer has ended.
LEMMA BurstFarewell ==
    ASSUME BurstInv, NEW p \in Procs, NEW other \in Procs, p # other,
           mode' = mode, sent' = sent, count' = count,
           Kill(other, 2) \/ pending' = pending,
           Exit(p) \/ (p = sender /\ Running(p, "send") /\ Goto(p, "idle"))
    PROVE  BurstInv'
<1>1. BurstTypes /\ BurstFlows /\ Accounted(p, other) /\ Accounted(other, p)
  BY DEF BurstInv, Procs
<1>2. /\ pending'[p][1] = pending[p][1] /\ pending'[other][1] = pending[other][1]
      /\ pending' \in [Procs -> [Signals -> Nat]]
  <2>1. CASE pending' = pending
    BY <1>1, <2>1 DEF BurstTypes
  <2>2. CASE Kill(other, 2)
    <3>1. pending \in [Procs -> [Signals -> Nat]] /\ pending[other][2] \in Nat
      BY <1>1 DEF BurstTypes, Signals
    <3>2. pending' = [pending EXCEPT ![other][2] = IF stack[other] = <<>> THEN 0
                                                   ELSE IF Queued THEN @ + 1 ELSE 1]
      BY <2>2 DEF Kill
    <3> QED  BY <3>1, <3>2 DEF Signals
  <2> QED  BY <2>1, <2>2
<1>3. CASE Exit(p)
  <2>1. stack' = [stack EXCEPT ![p] = <<>>]
    BY <1>3 DEF Exit
  <2>2. stack'[p] = <<>> /\ stack'[other] = stack[other] /\ DOMAIN stack' = Procs
    BY <1>1, <2>1 DEF BurstTypes
  <2>3. Accounted(p, other)' /\ Accounted(other, p)'
    BY <1>1, <1>2, <2>2, AccountKept, SameAccount
  <2>4. BurstFlows'
    BY <1>1, <2>2 DEF BurstFlows, Procs
  <2> QED  BY <1>1, <1>2, <2>2, <2>3, <2>4 DEF BurstInv, BurstTypes, Burst!NoMoreThanSent, Procs
<1>4. CASE p = sender /\ Running(p, "send") /\ Goto(p, "idle")
  <2>1. stack[p] = <<"send">>
    <3>1. stack[p] # <<>> /\ Head(stack[p]) = "send"
      BY <1>4 DEF Running
    <3>2. stack[p] \in Flows("send") \cup Flows("idle")
      BY <1>1, <1>4, <3>1 DEF BurstFlows
    <3>3. stack[p] \in Flows("idle") => FALSE
      BY <3>1, Flow DEF Bases
    <3> QED  BY <3>1, <3>2, <3>3, Flow DEF Bases
  <2>2. stack' = [stack EXCEPT ![p] = <<"idle">>]
    BY <1>4, <2>1, GotoOne
  <2>3. stack'[p] = <<"idle">> /\ stack'[other] = stack[other] /\ DOMAIN stack' = Procs
    BY <1>1, <2>2 DEF BurstTypes
  <2>4. Hand(<<"send">>) = 0 /\ Hand(<<"idle">>) = 0
    <3>1. ~Has(<<"send">>, "count") /\ ~Has(<<"idle">>, "count")
      <4>1. Has(<<"send">>, "count") <=> "count" = "send"
        BY HasOf
      <4>2. Has(<<"idle">>, "count") <=> "count" = "idle"
        BY HasOf
      <4> QED  BY <4>1, <4>2
    <3> QED  BY <3>1 DEF Hand
  <2>5. Known(p)' = Known(p)
    BY <1>2, <2>1, <2>3, <2>4 DEF Known, Hand
  <2>6. Accounted(p, other)' /\ Accounted(other, p)'
    <3>1. sent'[other] = sent[other] /\ sent'[p] = sent[p] /\ count'[other] = count[other]
      OBVIOUS
    <3>2. stack[p] # <<>>
      BY <2>1
    <3> QED  BY <1>1, <1>2, <2>3, <2>5, <3>1, <3>2, AccountKept, SameAccount
  <2>7. BurstFlows'
    BY <1>1, <1>4, <2>3 DEF BurstFlows, Flows, Procs
  <2> QED  BY <1>1, <1>2, <2>3, <2>6, <2>7 DEF BurstInv, BurstTypes, Burst!NoMoreThanSent, Procs
<1> QED  BY <1>3, <1>4

\* The flow of control of a process is one of its program.
LEMMA FlowOf ==
    ASSUME BurstFlows, NEW p \in Procs, stack[p] # <<>>
    PROVE  \E base \in Bases :
             /\ stack[p] \in Flows(base)
             /\ p = sender => base \in {"send", "idle"}
             /\ p = catcher => base = "suspend"
BY SignalsAssumption DEF BurstFlows, Bases, Procs

LEMMA FlowsStay ==
    ASSUME BurstFlows, NEW p \in Procs, NEW base \in Bases, NEW flow \in Flows(base),
           p = sender => base \in {"send", "idle"}, p = catcher => base = "suspend",
           DOMAIN stack = Procs, stack' = [stack EXCEPT ![p] = flow]
    PROVE  BurstFlows'
BY SignalsAssumption DEF BurstFlows, Procs

\* handler1 counts the signal that it has in hand.
LEMMA BurstCounts ==
    ASSUME BurstInv, NEW p \in Procs, NEW other \in Procs, p # other, Running(p, "count"), Return(p),
           count' = [count EXCEPT ![p] = @ + 1], mode' = mode, sent' = sent, pending' = pending
    PROVE  BurstInv'
<1>1. BurstTypes /\ BurstFlows /\ Accounted(p, other) /\ Accounted(other, p)
  BY DEF BurstInv, Procs
<1>2. stack[p] # <<>> /\ Head(stack[p]) = "count"
  BY DEF Running
<1>3. PICK base \in Bases : /\ stack[p] \in Flows(base)
                            /\ p = sender => base \in {"send", "idle"}
                            /\ p = catcher => base = "suspend"
  BY <1>1, <1>2, FlowOf
<1>4. /\ Has(stack[p], "count") /\ Tail(stack[p]) \in Flows(base) /\ ~Has(Tail(stack[p]), "count")
      /\ Tail(stack[p]) # <<>>
  BY <1>2, <1>3, Flow
<1>5. stack' = [stack EXCEPT ![p] = Tail(stack[p])]
  BY DEF Return
<1>6. stack'[p] = Tail(stack[p]) /\ stack'[other] = stack[other] /\ DOMAIN stack' = Procs
  BY <1>1, <1>5 DEF BurstTypes
<1>7. /\ count'[p] = count[p] + 1 /\ count'[other] = count[other] /\ count' \in [Procs -> Nat]
      /\ count[p] \in Nat /\ pending[p][1] \in Nat /\ sent[other] \in Nat
  BY <1>1 DEF BurstTypes, Signals
<1>8. Hand(stack[p]) = 1 /\ Hand(stack[p])' = 0
  BY <1>4, <1>6 DEF Hand
<1>9. Known(p)' = Known(p) /\ Known(p) >= count[p] + 1
  BY <1>7, <1>8 DEF Known
<1>10. Accounted(p, other)' /\ Accounted(other, p)'
  BY <1>1, <1>2, <1>6, <1>7, <1>9, AccountKept, SameAccount
<1>11. count[p] + 1 <= sent[other]
  <2>1. Known(p) <= sent[other]
    BY <1>1, <1>2, <1>7 DEF Accounted
  <2> QED  BY <1>7, <1>8, <2>1 DEF Known
<1>12. Burst!NoMoreThanSent'
  BY <1>1, <1>7, <1>11, SignalsAssumption DEF BurstInv, BurstTypes, Burst!NoMoreThanSent, Procs
<1>13. BurstFlows'
  BY <1>1, <1>3, <1>4, <1>5, FlowsStay DEF BurstTypes
<1> QED  BY <1>1, <1>6, <1>7, <1>10, <1>12, <1>13 DEF BurstInv, BurstTypes, Procs

\* A signal that is delivered is in hand instead of pending.
LEMMA BurstDelivers ==
    ASSUME BurstInv, NEW p \in Procs, NEW other \in Procs, p # other, Deliver(p),
           mode' = mode, sent' = sent, count' = count
    PROVE  BurstInv'
<1>1. BurstTypes /\ BurstFlows /\ Accounted(p, other) /\ Accounted(other, p)
  BY DEF BurstInv, Procs
<1>2. PICK s \in Signals : /\ stack[p] # <<>> /\ pending[p][s] > 0 /\ ~Blocked(p, s)
                           /\ pending' = [pending EXCEPT ![p][s] = @ - 1]
                           /\ stack' = [stack EXCEPT ![p] = <<HandlerEntry[s]>> \o @]
  BY Zenon DEF Deliver, Deliverable
<1>3. PICK base \in Bases : /\ stack[p] \in Flows(base)
                            /\ p = sender => base \in {"send", "idle"}
                            /\ p = catcher => base = "suspend"
  BY <1>1, <1>2, FlowOf
<1>4. ~Has(stack[p], HandlerEntry[s])
  <2>1. HandlerEntry[s] \in HandlerLabels[s]
    BY DEF HandlerEntry, HandlerLabels, Signals
  <2> QED  BY <1>2, <2>1 DEF Blocked, Has
<1>5. /\ pending' \in [Procs -> [Signals -> Nat]] /\ pending[p][1] \in Nat
      /\ pending'[p][1] = pending[p][1] - (IF s = 1 THEN 1 ELSE 0) /\ pending'[other] = pending[other]
  BY <1>1, <1>2, SMTT(30) DEF BurstTypes, Signals
<1>6. /\ <<HandlerEntry[s]>> \o stack[p] \in Flows(base)
      /\ Hand(<<HandlerEntry[s]>> \o stack[p]) = Hand(stack[p]) + (IF s = 1 THEN 1 ELSE 0)
  <2>1. CASE s = 1
    <3>1. HandlerEntry[s] = "count"
      BY <2>1 DEF HandlerEntry
    <3>2. ~Has(stack[p], "count")
      BY <1>4, <3>1
    <3> QED  BY <1>3, <2>1, <3>1, <3>2, Flow DEF Hand
  <2>2. CASE s = 2
    <3>1. HandlerEntry[s] = "answer"
      BY <2>2 DEF HandlerEntry
    <3>2. ~Has(stack[p], "answer")
      BY <1>4, <3>1
    <3> QED  BY <1>3, <2>2, <3>1, <3>2, Flow DEF Hand
  <2> QED  BY <2>1, <2>2 DEF Signals
<1>7. /\ stack'[p] = <<HandlerEntry[s]>> \o stack[p] /\ stack'[other] = stack[other]
      /\ DOMAIN stack' = Procs
  BY <1>1, <1>2 DEF BurstTypes
<1>8. Known(p)' = Known(p)
  <2>1. Hand(stack[p])' = Hand(stack[p]) + (IF s = 1 THEN 1 ELSE 0)
    BY <1>6, <1>7 DEF Hand
  <2>2. count[p] \in Nat /\ Hand(stack[p]) \in Nat
    BY <1>1 DEF BurstTypes, Hand
  <2> QED  BY <1>5, <2>1, <2>2 DEF Known
<1>9. Accounted(p, other)' /\ Accounted(other, p)'
  BY <1>1, <1>2, <1>5, <1>7, <1>8, AccountKept, SameAccount
<1>10. BurstFlows'
  <2>1. stack' = [stack EXCEPT ![p] = <<HandlerEntry[s]>> \o stack[p]]
    BY <1>2
  <2> QED  BY <1>1, <1>3, <1>6, <2>1, FlowsStay DEF BurstTypes
<1> QED  BY <1>1, <1>5, <1>7, <1>9, <1>10 DEF BurstInv, BurstTypes, Burst!NoMoreThanSent, Procs

LEMMA BurstStep == BurstInv /\ [Burst!Next]_(Burst!vars) => BurstInv'
<1> SUFFICES ASSUME BurstInv, [Burst!Next]_(Burst!vars)
             PROVE  BurstInv'
  OBVIOUS
<1>1. sender \in Procs /\ catcher \in Procs /\ sender # catcher /\ Procs = {sender, catcher}
  BY SignalsAssumption DEF Procs
<1>2. CASE UNCHANGED <<mode, pending, stack, sent, count>>
  BY <1>2 DEF BurstInv, BurstTypes, BurstFlows, Accounted, Known, Hand, Has, Queued, Burst!NoMoreThanSent
<1>3. CASE Burst!Next /\ ~(UNCHANGED <<mode, pending, stack, sent, count>>)
  BY <1>1, <1>3, BurstActions, BurstSends, BurstFarewell, BurstCounts, BurstDelivers
<1> QED  BY <1>2, <1>3 DEF Burst!vars

\* What the run checks of the burst.
LEMMA BurstKeeps == BurstInv => Burst!NoSignalFromNowhere /\ Burst!NoMoreThanSent
<1> SUFFICES ASSUME BurstInv, NEW from \in Procs, NEW to \in Procs, from # to, stack[to] # <<>>
             PROVE  IF Queued THEN Known(to) = sent[from] ELSE Known(to) <= sent[from]
  BY DEF BurstInv, Burst!NoSignalFromNowhere, Burst!InHandler1, Burst!Procs, Procs, Burst!Queued,
         Queued, Known, Hand, Has
<1> QED  BY DEF BurstInv, Accounted, Procs
-----------------------------------------------------------------------------
(* The FIFO.                                                               *)

LEMMA FirstBlank ==
    ASSUME NEW n \in Nat, NEW s \in Nat, s < n,
           NEW row, row = [k \in 1..(n + 1) |-> IF k <= s THEN k ELSE 0]
    PROVE  SelectInSeq(row, LAMBDA piece : piece = 0) = s + 1
<1> DEFINE I == {k \in 1..Len(row) : row[k] = 0}
<1>1. I = (s + 1)..(n + 1)
  <2>1. Len(row) = n + 1
    OBVIOUS
  <2> QED  BY <2>1
<1>2. Min(I) = s + 1 /\ I # {}
  BY <1>1 DEF Min
<1> QED  BY <1>2 DEF SelectInSeq

Messages == [row : Producers, piece : Nat \ {0}]

FifoTypes ==
    /\ main \in {"create_file", "fork", "wait", "done"}
    /\ DOMAIN state = Processes
    /\ fifo \in Seq(Messages) /\ buffer \in [Consumers -> Seq(Messages)]
    /\ place \in [Consumers -> Nat] /\ DOMAIN rows = Producers

\* A producer that has not closed the FIFO has nothing in it, and an empty row.
Blank(p) == rows[p] = [k \in 1..(Pieces[p] + 1) |-> 0]
NotSent(p) == /\ \A h \in Holders : Own(p, Held(h)) = {}
              /\ main # "create_file" => Blank(p)

\* A consumer that has been at the FIFO stays there or ends.
Came == {"blocked", "open", "closing", "done"}

\* The place that a consumer has found is that of the piece that it has in hand.
PlaceFits(c) == place[c] # 0 => buffer[c] # <<>> /\ place[c] = Head(buffer[c]).piece

FifoInv ==
    /\ FifoTypes
    /\ main = "create_file" => \A p \in Producers : state[p] = "none"
    /\ \A p \in Producers : state[p] # "done" => NotSent(p)
    /\ PiecesInOneHand
    /\ \A p \in Producers : Own(p, fifo) # {} => Blank(p)
    /\ fifo # <<>> => In(Consumers, Came) # {}
    /\ \A c \in Consumers : PlaceFits(c)

\* The first message of a producer in a sequence has its first piece there,
LEMMA FirstPiece ==
    ASSUME NEW q \in Seq(Messages), q # <<>>, NEW p, Head(q).row = p, InOrder(p, q),
           NEW s \in Nat, NEW n \in Nat, Left(p, q) = (s + 1)..n
    PROVE  Head(q).piece = s + 1 /\ s < n
<1>1. 1 \in DOMAIN q /\ q[1] = Head(q) /\ DOMAIN q = 1..Len(q) /\ Len(q) \in Nat
  OBVIOUS
<1>2. 1 \in Own(p, q)
  BY <1>1 DEF Own
<1>3. q[1].piece \in (s + 1)..n
  BY <1>2 DEF Left
<1>4. PICK k \in Own(p, q) : q[k].piece = s + 1
  <2>1. s + 1 \in Left(p, q)
    BY <1>3
  <2> QED  BY <2>1 DEF Left
<1>5. CASE k = 1
  BY <1>1, <1>3, <1>4, <1>5
<1>6. CASE k # 1
  <2>1. 1 < k
    BY <1>1, <1>6 DEF Own
  <2>2. q[1].piece < q[k].piece
    BY <1>2, <2>1 DEF InOrder
  <2> QED  BY <1>3, <1>4, <2>2
<1> QED  BY <1>5, <1>6

\* which is gone when the message is.
LEMMA PiecesOfTail ==
    ASSUME NEW q \in Seq(Messages), q # <<>>, NEW p, InOrder(p, q)
    PROVE  /\ InOrder(p, Tail(q))
           /\ Left(p, Tail(q)) = IF Head(q).row = p THEN Left(p, q) \ {Head(q).piece} ELSE Left(p, q)
           /\ Own(p, q) = {} => Own(p, Tail(q)) = {}
<1> DEFINE t == Tail(q)
<1>1. /\ Len(q) \in Nat /\ Len(q) > 0 /\ DOMAIN q = 1..Len(q) /\ q[1] = Head(q)
      /\ DOMAIN t = 1..(Len(q) - 1) /\ \A k \in 1..(Len(q) - 1) : t[k] = q[k + 1]
  OBVIOUS
<1> HIDE DEF t
<1>2. \A k \in DOMAIN t : k + 1 \in DOMAIN q /\ k + 1 # 1
  BY <1>1
<1>3. \A k \in DOMAIN q : k # 1 => k - 1 \in DOMAIN t /\ t[k - 1] = q[k]
  BY <1>1
<1>4. \A k \in Own(p, t) : k + 1 \in Own(p, q) /\ q[k + 1] = t[k]
  BY <1>1, <1>2 DEF Own
<1>5. \A k \in Own(p, q) : k # 1 => k - 1 \in Own(p, t) /\ t[k - 1] = q[k]
  BY <1>1, <1>3 DEF Own
<1>6. Own(p, q) = {} => Own(p, t) = {}
  BY <1>4
<1>7. ASSUME NEW j \in Own(p, t), NEW k \in Own(p, t), j < k
      PROVE  t[j].piece < t[k].piece
  <2>1. j \in Nat /\ k \in Nat /\ j + 1 < k + 1
    BY <1>1, <1>7 DEF Own
  <2> QED  BY <1>4, <2>1 DEF InOrder
<1>8. CASE Head(q).row = p
  <2>1. 1 \in Own(p, q)
    BY <1>1, <1>8 DEF Own
  <2>2. \A k \in Own(p, q) : k # 1 => q[k].piece # q[1].piece
    <3>1. ASSUME NEW k \in Own(p, q), k # 1
          PROVE  q[k].piece # q[1].piece
      <4>1. 1 < k
        BY <1>1, <3>1 DEF Own
      <4>2. q[1].piece < q[k].piece
        BY <2>1, <4>1 DEF InOrder
      <4>3. q[1] \in Messages /\ q[k] \in Messages
        BY <1>1, <3>1 DEF Own
      <4> QED  BY <4>2, <4>3 DEF Messages
    <3> QED  BY <3>1
  <2>3. Left(p, t) = Left(p, q) \ {q[1].piece}
    <3>1. ASSUME NEW x \in Left(p, t)
          PROVE  x \in Left(p, q) /\ x # q[1].piece
      <4>1. PICK k \in Own(p, t) : t[k].piece = x
        BY <3>1 DEF Left
      <4>2. k + 1 \in Own(p, q) /\ q[k + 1].piece = x /\ k + 1 # 1
        BY <1>1, <1>4, <4>1 DEF Own
      <4> QED  BY <2>2, <4>2 DEF Left
    <3>2. ASSUME NEW x \in Left(p, q), x # q[1].piece
          PROVE  x \in Left(p, t)
      <4>1. PICK k \in Own(p, q) : q[k].piece = x
        BY <3>2 DEF Left
      <4>2. k # 1
        BY <3>2, <4>1
      <4> QED  BY <1>5, <4>1, <4>2 DEF Left
    <3> QED  BY <3>1, <3>2
  <2> QED  BY <1>1, <1>6, <1>7, <1>8, <2>3 DEF InOrder, t
<1>9. CASE Head(q).row # p
  <2>1. 1 \notin Own(p, q)
    BY <1>1, <1>9 DEF Own
  <2>2. ASSUME NEW x
        PROVE  x \in Left(p, t) <=> x \in Left(p, q)
    <3>1. ASSUME x \in Left(p, t)
          PROVE  x \in Left(p, q)
      BY <1>4, <3>1 DEF Left
    <3>2. ASSUME x \in Left(p, q)
          PROVE  x \in Left(p, t)
      <4>1. PICK k \in Own(p, q) : q[k].piece = x
        BY <3>2 DEF Left
      <4>2. k # 1
        BY <2>1, <4>1
      <4> QED  BY <1>5, <4>1, <4>2 DEF Left
    <3> QED  BY <3>1, <3>2
  <2>3. Left(p, t) = Left(p, q)
    BY <2>2
  <2> QED  BY <1>6, <1>7, <1>9, <2>3 DEF InOrder, t
<1> QED  BY <1>8, <1>9

\* What a producer writes at once: all its pieces, in order.
Whole(p) == [k \in 1..Pieces[p] |-> [row |-> p, piece |-> k]]

LEMMA PiecesOfAll ==
    ASSUME NEW q \in Seq(Messages), NEW p \in Producers
    PROVE  /\ q \o Whole(p) \in Seq(Messages)
           /\ \A r : r # p => /\ Own(r, q \o Whole(p)) = Own(r, q)
                              /\ Left(r, q \o Whole(p)) = Left(r, q)
                              /\ InOrder(r, q) => InOrder(r, q \o Whole(p))
           /\ Own(p, q) = {} => /\ Left(p, q \o Whole(p)) = 1..Pieces[p]
                                /\ InOrder(p, q \o Whole(p))
<1> DEFINE t == Whole(p)
           u == q \o t
<1>0. PICK n \in Nat : n = Pieces[p]
  BY FifoAssumption
<1>1. t \in Seq(Messages) /\ Len(t) = n /\ t = [k \in 1..n |-> [row |-> p, piece |-> k]]
  <2>1. t = [k \in 1..n |-> [row |-> p, piece |-> k]]
    BY <1>0 DEF Whole
  <2> HIDE DEF t
  <2> QED  BY <2>1 DEF Messages
<1>1a. \A k \in 1..n : t[k].row = p /\ t[k].piece = k
  BY <1>1
<1> HIDE DEF t
<1>2. /\ u \in Seq(Messages) /\ Len(u) = Len(q) + n /\ DOMAIN u = 1..(Len(q) + n)
      /\ DOMAIN q = 1..Len(q) /\ Len(q) \in Nat
      /\ \A k \in 1..Len(q) : u[k] = q[k]
      /\ \A k \in 1..n : u[Len(q) + k] = t[k]
  BY <1>1
<1>3. \A k \in 1..n : u[Len(q) + k].row = p /\ u[Len(q) + k].piece = k
  BY <1>1a, <1>2
<1> HIDE DEF u
<1>4. \A k \in DOMAIN u : k \notin DOMAIN q => /\ k - Len(q) \in 1..n /\ u[k].row = p
                                               /\ u[k].piece = k - Len(q)
  <2>1. ASSUME NEW k \in DOMAIN u, k \notin DOMAIN q
        PROVE  k - Len(q) \in 1..n /\ u[k].row = p /\ u[k].piece = k - Len(q)
    <3>1. k - Len(q) \in 1..n /\ Len(q) + (k - Len(q)) = k
      BY <1>2, <2>1
    <3> QED  BY <1>3, <3>1
  <2> QED  BY <2>1
<1>5. ASSUME NEW r, r # p
      PROVE  /\ Own(r, u) = Own(r, q) /\ Left(r, u) = Left(r, q)
             /\ InOrder(r, q) => InOrder(r, u)
  <2>1. Own(r, u) = Own(r, q)
    BY <1>2, <1>4, <1>5 DEF Own
  <2>2. \A k \in Own(r, q) : u[k] = q[k]
    BY <1>2 DEF Own
  <2> QED  BY <2>1, <2>2 DEF Left, InOrder
<1>6. ASSUME Own(p, q) = {}
      PROVE  Left(p, u) = 1..n /\ InOrder(p, u)
  <2>1. ASSUME NEW k \in Own(p, u)
        PROVE  k \in Int /\ k - Len(q) \in 1..n /\ u[k].piece = k - Len(q)
    <3>1. k \in DOMAIN u /\ u[k].row = p
      BY DEF Own
    <3>2. k \notin DOMAIN q
      BY <1>2, <1>6, <3>1 DEF Own
    <3> QED  BY <1>2, <1>4, <3>1, <3>2
  <2>2. InOrder(p, u)
    BY <1>2, <2>1 DEF InOrder
  <2>3. ASSUME NEW k \in 1..n
        PROVE  k \in Left(p, u)
    <3>1. Len(q) + k \in Own(p, u) /\ u[Len(q) + k].piece = k
      BY <1>2, <1>3 DEF Own
    <3> QED  BY <3>1 DEF Left
  <2>4. \A x \in Left(p, u) : x \in 1..n
    BY <2>1 DEF Left
  <2> QED  BY <2>2, <2>3, <2>4
<1> QED  BY <1>0, <1>2, <1>5, <1>6 DEF t, u

LEMMA FifoStart == FifoInit => FifoInv
<1> SUFFICES ASSUME FifoInit
             PROVE  FifoInv
  OBVIOUS
<1> USE FifoAssumption DEF FifoInit
<1>1. FifoTypes
  BY DEF FifoTypes
<1>2. ASSUME NEW p \in Producers
      PROVE  state[p] = "none" /\ NotSent(p)
  <2>1. state[p] = "none"
    BY DEF Processes
  <2>2. \A h \in Holders : Held(h) = <<>>
    BY DEF Holders, Held
  <2>3. Own(p, <<>>) = {}
    BY DEF Own
  <2> QED  BY <2>1, <2>2, <2>3 DEF NotSent
<1>3. \A c \in Consumers : PlaceFits(c)
  BY DEF PlaceFits
<1>4. \A p : Own(p, fifo) = {}
  BY DEF Own
<1> QED  BY <1>1, <1>2, <1>3, <1>4 DEF FifoInv, PiecesInOneHand

\* A step that moves no message.
LEMMA NothingMoves ==
    ASSUME FifoInv, fifo' = fifo, buffer' = buffer, place' = place, rows' = rows,
           main' = main \/ (main # "create_file" /\ main' \in {"wait", "done"}),
           DOMAIN state' = Processes,
           \A p \in Producers : /\ state'[p] = "done" <=> state[p] = "done"
                                /\ state[p] = "none" /\ main = "create_file" => state'[p] = "none",
           \A c \in Consumers : /\ state[c] = "done" => state'[c] = "done"
                                /\ state[c] \in Came => state'[c] \in Came
    PROVE  FifoInv'
<1>1. \A h : Held(h)' = Held(h)
  BY DEF Held
<1>2. FifoTypes'
  BY DEF FifoInv, FifoTypes
<1>3. \A p : NotSent(p) => NotSent(p)'
  BY <1>1 DEF NotSent, Blank
<1>4. PiecesInOneHand'
  <2>1. \A p : Discarded(p) => Discarded(p)'
    BY <1>1 DEF Discarded, In
  <2> QED  BY <1>1, <2>1 DEF FifoInv, PiecesInOneHand, InOneHand
<1>5. \A c \in Consumers : PlaceFits(c)'
  BY DEF FifoInv, PlaceFits
<1>6. /\ \A p \in Producers : Own(p, fifo)' # {} => Blank(p)'
      /\ fifo' # <<>> => In(Consumers, Came)' # {}
  BY DEF FifoInv, Blank, In, Own
<1> QED  BY <1>2, <1>3, <1>4, <1>5, <1>6 DEF FifoInv

\* The last one to end takes what is in the FIFO with it, and has put nothing there.
LEMMA FifoGone ==
    ASSUME FifoInv, fifo' = <<>>, buffer' = buffer, place' = place, rows' = rows, main' = main,
           main # "create_file", DOMAIN state' = Processes,
           \A p \in Producers : state'[p] = "done" => state[p] = "done" \/ Pieces[p] = 0,
           \A p \in Producers : state[p] = "done" => state'[p] = "done",
           \A c \in Consumers : state[c] \in Came => state'[c] = "done"
    PROVE  FifoInv'
<1>1. \A q : Own(q, <<>>) = {} /\ Left(q, <<>>) = {} /\ InOrder(q, <<>>)
  BY DEF Own, Left, InOrder
<1>2. /\ Held("fifo") = fifo /\ Held("fifo")' = <<>> /\ "fifo" \in Holders
      /\ \A h \in Holders : h # "fifo" => Held(h)' = Held(h)
  BY DEF Held, Holders
<1>3. FifoTypes' /\ \A c \in Consumers : PlaceFits(c)'
  <2>1. <<>> \in Seq(Messages)
    OBVIOUS
  <2> QED  BY <2>1 DEF FifoInv, FifoTypes, PlaceFits
<1>4. \A p : NotSent(p) => NotSent(p)'
  BY <1>1, <1>2 DEF NotSent, Blank
<1>5. ASSUME NEW p \in Producers, state'[p] = "done"
      PROVE  (\E s \in 0..Pieces[p], holder \in Holders : InOneHand(p, s, holder)') \/ Discarded(p)'
  <2>0. Pieces[p] \in Nat
    BY FifoAssumption
  <2>1. CASE state[p] # "done"
    <3>1. Pieces[p] = 0 /\ NotSent(p)'
      BY <1>4, <1>5, <2>1 DEF FifoInv
    <3>2. \A h \in Holders : InOrder(p, Held(h)') /\ Left(p, Held(h)') = {}
      BY <3>1 DEF NotSent, InOrder, Left
    <3>3. \A k \in 1..(Pieces[p] + 1) : ~(k <= 0)
      OBVIOUS
    <3>4. InOneHand(p, 0, "fifo")'
      <4>1. rows'[p] = [k \in 1..(Pieces[p] + 1) |-> IF k <= 0 THEN k ELSE 0]
        BY <3>1, <3>3 DEF NotSent, Blank
      <4>2. (0 + 1)..Pieces[p] = {}
        BY <3>1
      <4> QED  BY <3>2, <4>1, <4>2 DEF InOneHand
    <3> QED  BY <1>2, <2>0, <3>4
  <2>2. CASE Discarded(p)
    <3>1. Discarded(p)'
      BY <1>1, <1>2, <2>2 DEF Discarded, In, Came
    <3> QED  BY <3>1
  <2>3. ASSUME NEW s \in 0..Pieces[p], NEW holder \in Holders, InOneHand(p, s, holder)
        PROVE  (\E t \in 0..Pieces[p], h \in Holders : InOneHand(p, t, h)') \/ Discarded(p)'
    <3>1. \A h \in Holders : /\ InOrder(p, Held(h))
                             /\ Left(p, Held(h)) = IF h = holder THEN (s + 1)..Pieces[p] ELSE {}
      BY <2>3 DEF InOneHand
    <3>2. CASE Own(p, fifo) = {}
      <4>1. Left(p, fifo) = {}
        BY <3>2 DEF Left
      <4>2. ASSUME NEW h \in Holders
            PROVE  /\ InOrder(p, Held(h)')
                   /\ Left(p, Held(h)') = IF h = holder THEN (s + 1)..Pieces[p] ELSE {}
        <5>1. CASE h = "fifo"
          BY <1>1, <1>2, <3>1, <4>1, <5>1
        <5>2. CASE h # "fifo"
          BY <1>2, <3>1, <5>2
        <5> QED  BY <5>1, <5>2
      <4>3. InOneHand(p, s, holder)'
        BY <2>3, <4>2 DEF InOneHand
      <4> QED  BY <4>3
    <3>3. CASE Own(p, fifo) # {}
      <4>1. Blank(p) /\ fifo # <<>>
        BY <1>1, <3>3 DEF FifoInv
      <4>2. In(Consumers, {"done"})' # {}
        BY <4>1 DEF FifoInv, In
      <4>3. holder = "fifo"
        <5>1. Left(p, Held("fifo")) # {}
          BY <1>2, <3>3 DEF Left
        <5> QED  BY <1>2, <3>1, <5>1
      <4>4. \A h \in Holders : Left(p, Held(h)') = {}
        BY <1>1, <1>2, <3>1, <4>3
      <4> QED  BY <4>1, <4>2, <4>4 DEF Discarded, Blank
    <3> QED  BY <3>2, <3>3
  <2> QED  BY <2>1, <2>2, <2>3 DEF FifoInv, PiecesInOneHand
<1>6. \A p \in Producers : state'[p] # "done" => NotSent(p)'
  BY <1>4 DEF FifoInv
<1>7. \A p : Own(p, fifo)' = {}
  BY <1>1
<1> QED  BY <1>3, <1>5, <1>6, <1>7 DEF FifoInv, PiecesInOneHand

LEMMA CreateFile ==
    ASSUME FifoInv, create_file
    PROVE  FifoInv'
<1>1. /\ main = "create_file" /\ main' = "fork"
      /\ rows' = [p \in Producers |-> [k \in 1..(Pieces[p] + 1) |-> 0]]
      /\ state' = state /\ fifo' = fifo /\ buffer' = buffer /\ place' = place
  BY DEF create_file
<1>2. FifoTypes'
  BY <1>1 DEF FifoInv, FifoTypes
<1>3. ASSUME NEW p \in Producers
      PROVE  state'[p] # "done" /\ NotSent(p)'
  <2>1. state[p] = "none" /\ NotSent(p)
    BY <1>1 DEF FifoInv
  <2> QED  BY <1>1, <2>1 DEF NotSent, Held, Blank
<1>4. \A c \in Consumers : PlaceFits(c)'
  BY <1>1 DEF FifoInv, PlaceFits
<1>5. \A p \in Producers : Own(p, fifo)' = {}
  BY <1>3 DEF NotSent, Holders, Held
<1>6. fifo' # <<>> => In(Consumers, Came)' # {}
  BY <1>1 DEF FifoInv, In
<1> QED  BY <1>1, <1>2, <1>3, <1>4, <1>5, <1>6 DEF FifoInv, PiecesInOneHand

\* Opening and ending: who has closed the FIFO as a producer stays that way.
LEMMA ComesAndGoes ==
    ASSUME FifoInv, NEW p \in Processes,
           \/ fopen(p)
           \/ p \in Producers /\ ForkProducer(p)
           \/ p \in Consumers /\ EndOfFile(p)
    PROVE  FifoInv'
<1>1. main' = main /\ fifo' = fifo /\ buffer' = buffer /\ place' = place /\ rows' = rows
  BY DEF fopen, ForkProducer, EndOfFile
<1>2. DOMAIN state = Processes /\ Producers \subseteq Processes
  BY DEF FifoInv, FifoTypes, Processes
<1>3. CASE fopen(p)
  <2>1. state[p] = "starting"
    BY <1>3 DEF fopen
  <2>2. DOMAIN state' = Processes
    BY <1>3 DEF fopen
  <2>3. ASSUME NEW q \in Processes
        PROVE  state'[q] = state[q] \/ (state[q] \in {"starting", "blocked"} /\ state'[q] \in {"open", "blocked"})
    BY <1>3, <2>1 DEF fopen, In
  <2>4. ASSUME NEW q \in Producers
        PROVE  /\ state'[q] = "done" <=> state[q] = "done"
               /\ state[q] = "none" /\ main = "create_file" => state'[q] = "none"
    BY <1>2, <2>3
  <2>5. ASSUME NEW c \in Consumers
        PROVE  /\ state[c] = "done" => state'[c] = "done"
               /\ state[c] \in Came => state'[c] \in Came
    BY <2>3 DEF Processes, Came
  <2> QED  BY <1>1, <2>2, <2>4, <2>5, NothingMoves
<1>4. CASE p \in Producers /\ ForkProducer(p)
  <2>1. state[p] = "none" /\ state' = [state EXCEPT ![p] = "starting"] /\ main = "fork"
    BY <1>4 DEF ForkProducer
  <2>2. DOMAIN state' = Processes /\ \A q \in Producers : state'[q] = "done" <=> state[q] = "done"
    BY <1>2, <2>1
  <2>3. \A c \in Consumers : state'[c] = state[c]
    BY <1>2, <1>4, <2>1, FifoAssumption
  <2> QED  BY <1>1, <2>1, <2>2, <2>3, NothingMoves
<1>5. CASE p \in Consumers /\ EndOfFile(p)
  <2>1. p \in Consumers /\ p \notin Producers
    BY <1>5, FifoAssumption
  <2>2. state' = [state EXCEPT ![p] = "closing"] /\ state[p] = "open"
    BY <1>5 DEF EndOfFile, Idle
  <2>3. DOMAIN state' = Processes /\ \A q \in Producers : state'[q] = state[q]
    BY <1>2, <2>1, <2>2
  <2>4. ASSUME NEW c \in Consumers
        PROVE  /\ state[c] = "done" => state'[c] = "done"
               /\ state[c] \in Came => state'[c] \in Came
    BY <1>2, <2>2 DEF Processes, Came
  <2> QED  BY <1>1, <2>3, <2>4, NothingMoves
<1> QED  BY <1>3, <1>4, <1>5

\* Nothing is written before the producers are there.
LEMMA EmptyAtFirst ==
    ASSUME FifoInv, fifo # <<>>
    PROVE  main # "create_file"
<1>1. fifo \in Seq(Messages) /\ "fifo" \in Holders /\ Held("fifo") = fifo
  BY DEF FifoInv, FifoTypes, Holders, Held
<1>2. 1 \in DOMAIN fifo /\ fifo[1] \in Messages
  BY <1>1
<1>3. fifo[1].row \in Producers /\ Own(fifo[1].row, fifo) # {}
  BY <1>2 DEF Messages, Own
<1> QED  BY <1>1, <1>3 DEF FifoInv, NotSent

\* All pieces of a producer go out at once.
LEMMA Fclose ==
    ASSUME FifoInv, NEW p \in Producers, fclose(p)
    PROVE  FifoInv'
<1>0. /\ state[p] = "open" /\ main' = main /\ buffer' = buffer /\ place' = place /\ rows' = rows
      /\ \/ /\ HasReader \/ Pieces[p] = 0
            /\ Ends(p, "done", fifo \o [k \in 1..Pieces[p] |-> [row |-> p, piece |-> k]])
         \/ Ends(p, "killed", fifo)
  BY DEF fclose
<1>1. state[p] = "open" /\ main' = main /\ buffer' = buffer /\ place' = place /\ rows' = rows
  BY <1>0
<1>2. /\ FifoTypes /\ NotSent(p) /\ main # "create_file" /\ p \in Processes /\ Producers \subseteq Processes
      /\ Consumers \subseteq Processes /\ p \notin Consumers
  BY <1>1, FifoAssumption DEF FifoInv, Processes
<1>2a. (\A c \in Consumers : state'[c] = state[c]) /\ DOMAIN state' = Processes
       /\ (\A q \in Producers : q # p => state'[q] = state[q]) /\ state'[p] \in {"done", "killed"}
  BY <1>0, <1>2 DEF Ends, FifoTypes
<1>3. CASE Ends(p, "killed", fifo) /\ fifo' = fifo
  <2>1. \A q \in Producers : state'[q] = "done" <=> state[q] = "done"
    BY <1>1, <1>2, <1>3 DEF FifoTypes, Ends
  <2> QED  BY <1>1, <1>2, <1>2a, <1>3, <2>1, NothingMoves
<1>5. CASE /\ fifo' = <<>> /\ In(Processes \ {p}, {"blocked", "open", "closing"}) = {}
           /\ Ends(p, "killed", fifo) \/ HasReader \/ Pieces[p] = 0
  <2>1. \A c \in Consumers : state[c] \notin {"blocked", "open", "closing"}
    BY <1>2, <1>5 DEF In
  <2>2. state'[p] = "done" => Pieces[p] = 0
    BY <1>2, <1>5, <2>1 DEF Ends, HasReader, In, FifoTypes
  <2>3. \A c \in Consumers : state[c] \in Came => state'[c] = "done"
    BY <1>2a, <2>1 DEF Came
  <2> QED  BY <1>1, <1>2, <1>2a, <1>5, <2>2, <2>3, FifoGone
<1>4. CASE /\ HasReader \/ Pieces[p] = 0
           /\ state' = [state EXCEPT ![p] = "done"]
           /\ fifo' = fifo \o [k \in 1..Pieces[p] |-> [row |-> p, piece |-> k]]
  <2>1. Pieces[p] \in Nat /\ fifo \in Seq(Messages)
    BY <1>2, FifoAssumption DEF FifoTypes
  <2>2. fifo' = fifo \o Whole(p)
    BY <1>4 DEF Whole
  <2>3. /\ fifo' \in Seq(Messages)
        /\ \A r : r # p => /\ Own(r, fifo') = Own(r, fifo) /\ Left(r, fifo') = Left(r, fifo)
                           /\ InOrder(r, fifo) => InOrder(r, fifo')
        /\ Own(p, fifo) = {} => Left(p, fifo') = 1..Pieces[p] /\ InOrder(p, fifo')
    BY <2>1, <2>2, PiecesOfAll
  <2>4. /\ Held("fifo") = fifo /\ Held("fifo")' = fifo' /\ "fifo" \in Holders
        /\ \A h \in Holders : h # "fifo" => Held(h)' = Held(h)
    BY <1>1 DEF Held, Holders
  <2>5. DOMAIN state' = Processes /\ state'[p] = "done" /\ \A r \in Producers : r # p => state'[r] = state[r]
    BY <1>2, <1>4 DEF FifoTypes
  <2>6. InOneHand(p, 0, "fifo")'
    <3>1. rows'[p] = [k \in 1..(Pieces[p] + 1) |-> IF k <= 0 THEN k ELSE 0]
      <4>1. rows'[p] = [k \in 1..(Pieces[p] + 1) |-> 0]
        BY <1>1, <1>2 DEF NotSent, Blank
      <4>2. \A k \in 1..(Pieces[p] + 1) : ~(k <= 0)
        BY <2>1
      <4> QED  BY <4>1, <4>2
    <3>2. ASSUME NEW h \in Holders
          PROVE  /\ InOrder(p, Held(h)')
                 /\ Left(p, Held(h)') = IF h = "fifo" THEN (0 + 1)..Pieces[p] ELSE {}
      <4>1. Own(p, Held(h)) = {}
        BY <1>2 DEF NotSent
      <4>2. CASE h = "fifo"
        BY <2>3, <2>4, <4>1, <4>2
      <4>3. CASE h # "fifo"
        BY <2>4, <4>1, <4>3 DEF InOrder, Left
      <4> QED  BY <4>2, <4>3
    <3> QED  BY <3>1, <3>2 DEF InOneHand
  <2>7. ASSUME NEW r \in Producers, r # p, NEW h \in Holders
        PROVE  /\ Own(r, Held(h)') = Own(r, Held(h)) /\ Left(r, Held(h)') = Left(r, Held(h))
               /\ InOrder(r, Held(h)) => InOrder(r, Held(h)')
    <3>1. CASE h = "fifo"
      BY <2>3, <2>4, <2>7, <3>1
    <3>2. CASE h # "fifo"
      BY <2>4, <3>2
    <3> QED  BY <3>1, <3>2
  <2>8. ASSUME NEW r \in Producers, state'[r] # "done"
        PROVE  NotSent(r)'
    <3>1. r # p /\ NotSent(r)
      BY <2>5, <2>8 DEF FifoInv
    <3> QED  BY <1>1, <2>7, <3>1 DEF NotSent, Blank
  <2>9. ASSUME NEW r \in Producers, state'[r] = "done"
        PROVE  (\E s \in 0..Pieces[r], holder \in Holders : InOneHand(r, s, holder)') \/ Discarded(r)'
    <3>1. CASE r = p
      BY <2>1, <2>4, <2>6, <3>1
    <3>2. CASE r # p
      <4>1. CASE Discarded(r)
        BY <1>1, <1>2a, <2>7, <3>2, <4>1 DEF Discarded, In
      <4>2. ASSUME NEW s \in 0..Pieces[r], NEW holder \in Holders, InOneHand(r, s, holder)
            PROVE  InOneHand(r, s, holder)'
        BY <1>1, <2>7, <3>2, <4>2 DEF InOneHand
      <4> QED  BY <4>1, <4>2, <2>5, <2>9, <3>2 DEF FifoInv, PiecesInOneHand
    <3> QED  BY <3>1, <3>2
  <2>10. FifoTypes'
    BY <1>1, <1>2, <2>3, <2>5 DEF FifoTypes
  <2>11. \A c \in Consumers : PlaceFits(c)'
    BY <1>1 DEF FifoInv, PlaceFits
  <2>12. ASSUME NEW r \in Producers, Own(r, fifo') # {}
         PROVE  Blank(r)'
    <3>1. CASE r = p
      BY <1>1, <1>2, <3>1 DEF NotSent, Blank
    <3>2. CASE r # p
      BY <1>1, <2>3, <2>12, <3>2 DEF FifoInv, Blank
    <3> QED  BY <3>1, <3>2
  <2>13. fifo' # <<>> => In(Consumers, Came)' # {}
    <3>1. CASE HasReader
      BY <1>2a, <3>1 DEF HasReader, In, Came
    <3>2. CASE Pieces[p] = 0
      <4>1. fifo' = fifo
        BY <1>4, <2>1, <3>2
      <4> QED  BY <1>2a, <4>1 DEF FifoInv, In
    <3> QED  BY <1>4, <3>1, <3>2
  <2> QED  BY <1>1, <1>2, <2>8, <2>9, <2>10, <2>11, <2>12, <2>13 DEF FifoInv, PiecesInOneHand
<1> QED  BY <1>0, <1>3, <1>4, <1>5 DEF Ends

\* What is in the FIFO stays there, or goes as a whole.
LEMMA CloseStep ==
    ASSUME FifoInv, NEW c \in Consumers, CloseFifo(c)
    PROVE  FifoInv'
<1>1. /\ state[c] = "closing" /\ state' = [state EXCEPT ![c] = "done"]
      /\ fifo' = IF In(Processes \ {c}, {"blocked", "open", "closing"}) = {} THEN <<>> ELSE fifo
      /\ main' = main /\ buffer' = buffer /\ place' = place /\ rows' = rows
  BY DEF CloseFifo, Ends
<1>2. /\ DOMAIN state' = Processes /\ c \in Processes /\ \A p \in Producers : state'[p] = state[p]
      /\ state'[c] = "done" /\ \A d \in Consumers : d # c => state'[d] = state[d]
  BY <1>1, FifoAssumption DEF FifoInv, FifoTypes, Processes
<1>3. CASE fifo' = fifo
  <2>1. \A d \in Consumers : /\ state[d] = "done" => state'[d] = "done"
                             /\ state[d] \in Came => state'[d] \in Came
    BY <1>2 DEF Came
  <2> QED  BY <1>1, <1>2, <1>3, <2>1, NothingMoves
<1>4. CASE fifo' = <<>> /\ fifo # <<>> /\ In(Processes \ {c}, {"blocked", "open", "closing"}) = {}
  <2>1. \A d \in Consumers : state[d] \in Came => state'[d] = "done"
    BY <1>2, <1>4 DEF Came, In, Processes
  <2>2. main # "create_file"
    BY <1>4, EmptyAtFirst
  <2> QED  BY <1>1, <1>2, <1>4, <2>1, <2>2, FifoGone
<1> QED  BY <1>1, <1>3, <1>4


\* Who has a piece in hand is the one who has all that are left of its producer.
LEMMA InHandOf ==
    ASSUME FifoInv, NEW c \in Consumers, buffer[c] # <<>>, NEW p, p = Head(buffer[c]).row
    PROVE  /\ p \in Producers /\ state[p] = "done" /\ main # "create_file"
           /\ \E s \in Nat : /\ s < Pieces[p] /\ Pieces[p] \in Nat /\ InOneHand(p, s, c)
                             /\ Head(buffer[c]).piece = s + 1
<1> DEFINE q == buffer[c]
<1>1. q \in Seq(Messages) /\ q # <<>> /\ c \in Holders /\ Held(c) = q
  BY FifoAssumption DEF FifoInv, FifoTypes, Holders, Held
<1> HIDE DEF q
<1>2. 1 \in DOMAIN q /\ q[1] = Head(q) /\ q[1] \in Messages
  BY <1>1
<1>3. p \in Producers /\ 1 \in Own(p, q) /\ q[1].piece \in Left(p, q)
  BY <1>2 DEF Messages, Own, Left, q
<1>4. state[p] = "done" /\ main # "create_file"
  BY <1>1, <1>3 DEF FifoInv, NotSent
<1>5. PICK s \in 0..Pieces[p], holder \in Holders : InOneHand(p, s, holder)
  BY <1>1, <1>3, <1>4 DEF FifoInv, PiecesInOneHand, Discarded
<1>6. InOrder(p, q) /\ Left(p, q) = IF c = holder THEN (s + 1)..Pieces[p] ELSE {}
  BY <1>1, <1>5 DEF InOneHand
<1>7. c = holder /\ Left(p, q) = (s + 1)..Pieces[p]
  BY <1>3, <1>6
<1>8. s \in Nat /\ Pieces[p] \in Nat
  BY <1>3, <1>5, FifoAssumption
<1>9. Head(q).row = p
  BY DEF q
<1>10. Head(q).piece = s + 1 /\ s < Pieces[p]
  BY <1>1, <1>6, <1>7, <1>8, <1>9, FirstPiece
<1> QED  BY <1>3, <1>4, <1>5, <1>7, <1>8, <1>10 DEF q

\* One read takes everything that is in the FIFO, to a consumer that had nothing.
LEMMA Fread ==
    ASSUME FifoInv, NEW c \in Consumers, fread(c)
    PROVE  FifoInv'
<1>1. /\ buffer[c] = <<>> /\ fifo' = <<>> /\ buffer' = [buffer EXCEPT ![c] = fifo]
      /\ main' = main /\ state' = state /\ place' = place /\ rows' = rows
  BY DEF fread, Idle
<1>2. FifoTypes /\ c # "fifo" /\ "fifo" \notin Consumers /\ \A d \in Consumers : PlaceFits(d)
  BY FifoAssumption DEF FifoInv
<1>3. FifoTypes'
  <2>1. <<>> \in Seq(Messages)
    OBVIOUS
  <2> QED  BY <1>1, <1>2, <2>1 DEF FifoTypes
<1>4. /\ Held("fifo")' = <<>> /\ Held(c)' = Held("fifo") /\ Held(c) = <<>>
      /\ \A h \in Holders : h # "fifo" /\ h # c => Held(h)' = Held(h)
      /\ c \in Holders /\ "fifo" \in Holders
  BY <1>1, <1>2 DEF Held, Holders, FifoTypes
<1>5. \A r : Own(r, <<>>) = {} /\ Left(r, <<>>) = {} /\ InOrder(r, <<>>)
  BY DEF Own, Left, InOrder
<1>6. ASSUME NEW r \in Producers, state'[r] # "done"
      PROVE  NotSent(r)'
  <2>1. NotSent(r)
    BY <1>1, <1>6 DEF FifoInv
  <2>2. ASSUME NEW h \in Holders
        PROVE  Own(r, Held(h)') = {}
    <3>1. CASE h = "fifo"
      BY <1>4, <1>5, <3>1
    <3>2. CASE h = c
      BY <1>4, <2>1, <3>2 DEF NotSent
    <3>3. CASE h # "fifo" /\ h # c
      BY <1>4, <2>1, <3>3 DEF NotSent
    <3> QED  BY <3>1, <3>2, <3>3
  <2> QED  BY <1>1, <2>1, <2>2 DEF NotSent, Blank
<1>6a. ASSUME NEW r \in Producers, Discarded(r)
       PROVE  Discarded(r)'
  <2>1. ASSUME NEW h \in Holders
        PROVE  Left(r, Held(h)') = {}
    <3>1. CASE h = "fifo"
      BY <1>4, <1>5, <3>1
    <3>2. CASE h = c
      BY <1>4, <1>6a, <3>2 DEF Discarded
    <3>3. CASE h # "fifo" /\ h # c
      BY <1>4, <1>6a, <3>3 DEF Discarded
    <3> QED  BY <3>1, <3>2, <3>3
  <2> QED  BY <1>1, <1>6a, <2>1 DEF Discarded, In
<1>7. ASSUME NEW r \in Producers, state'[r] = "done", ~Discarded(r)
      PROVE  \E s \in 0..Pieces[r], holder \in Holders : InOneHand(r, s, holder)'
  <2>1. PICK s \in 0..Pieces[r], holder \in Holders : InOneHand(r, s, holder)
    BY <1>1, <1>7 DEF FifoInv, PiecesInOneHand
  <2>2. \A h \in Holders : /\ InOrder(r, Held(h))
                           /\ Left(r, Held(h)) = IF h = holder THEN (s + 1)..Pieces[r] ELSE {}
    BY <2>1 DEF InOneHand
  <2> DEFINE next == IF holder \in {"fifo", c} THEN c ELSE holder
  <2>3. ASSUME holder = c
        PROVE  (s + 1)..Pieces[r] = {}
    BY <1>4, <1>5, <2>2, <2>3
  <2>4. ASSUME NEW h \in Holders
        PROVE  /\ InOrder(r, Held(h)')
               /\ Left(r, Held(h)') = IF h = next THEN (s + 1)..Pieces[r] ELSE {}
    <3>1. CASE h = "fifo"
      BY <1>2, <1>4, <1>5, <3>1
    <3>2. CASE h = c
      BY <1>2, <1>4, <2>2, <2>3, <3>2
    <3>3. CASE h # "fifo" /\ h # c
      BY <1>4, <2>2, <3>3
    <3> QED  BY <3>1, <3>2, <3>3
  <2>5. next \in Holders
    BY <1>4
  <2>6. InOneHand(r, s, next)'
    BY <1>1, <2>1, <2>4 DEF InOneHand
  <2> QED  BY <2>5, <2>6
<1>8. \A d \in Consumers : PlaceFits(d)'
  <2>1. place[c] = 0
    BY <1>1, <1>2 DEF PlaceFits
  <2> QED  BY <1>1, <1>2, <2>1 DEF PlaceFits, FifoTypes
<1>9. \A r : Own(r, fifo)' = {}
  BY <1>1, <1>5
<1> QED  BY <1>1, <1>3, <1>6, <1>6a, <1>7, <1>8, <1>9 DEF FifoInv, PiecesInOneHand

\* A consumer that looks for a place finds that of the piece it has in hand.
LEMMA FindPlaceStep ==
    ASSUME FifoInv, NEW c \in Consumers, FindPlace(c)
    PROVE  FifoInv'
<1> DEFINE p == Head(buffer[c]).row
           at == SelectInSeq(rows[p], LAMBDA piece : piece = 0)
<1>1. /\ buffer[c] # <<>> /\ place' = [place EXCEPT ![c] = at]
      /\ main' = main /\ state' = state /\ fifo' = fifo /\ buffer' = buffer /\ rows' = rows
  BY DEF FindPlace
<1>2. PICK s \in Nat : /\ s < Pieces[p] /\ Pieces[p] \in Nat /\ InOneHand(p, s, c)
                       /\ Head(buffer[c]).piece = s + 1
  BY <1>1, InHandOf
<1>3. at = s + 1
  <2>1. rows[p] = [k \in 1..(Pieces[p] + 1) |-> IF k <= s THEN k ELSE 0]
    BY <1>2 DEF InOneHand
  <2> QED  BY <1>2, <2>1, FirstBlank
<1> HIDE DEF p, at
<1>4. \A r \in Producers : NotSent(r) => NotSent(r)'
  BY <1>1 DEF NotSent, Held, Blank
<1>5. PiecesInOneHand'
  <2>1. \A h : Held(h)' = Held(h)
    BY <1>1 DEF Held
  <2>2. \A r : Discarded(r) => Discarded(r)'
    BY <1>1, <2>1 DEF Discarded, In
  <2> QED  BY <1>1, <2>1, <2>2 DEF FifoInv, PiecesInOneHand, InOneHand
<1>6. FifoTypes /\ \A d \in Consumers : PlaceFits(d)
  BY DEF FifoInv
<1>7. FifoTypes' /\ \A d \in Consumers : PlaceFits(d)'
  BY <1>1, <1>2, <1>3, <1>6 DEF FifoTypes, PlaceFits
<1>8. /\ \A r \in Producers : Own(r, fifo)' # {} => Blank(r)'
      /\ fifo' # <<>> => In(Consumers, Came)' # {}
  BY <1>1 DEF FifoInv, Own, Blank, In
<1> QED  BY <1>1, <1>4, <1>5, <1>7, <1>8 DEF FifoInv

\* A consumer that writes puts the next piece of a row in its place.
LEMMA WriteStep ==
    ASSUME FifoInv, NEW c \in Consumers, write_to_file(c)
    PROVE  FifoInv'
<1>0. PICK p : p = Head(buffer[c]).row
  OBVIOUS
<1>1. /\ place[c] # 0 /\ rows' = [rows EXCEPT ![p][place[c]] = Head(buffer[c]).piece]
      /\ place' = [place EXCEPT ![c] = 0] /\ buffer' = [buffer EXCEPT ![c] = Tail(buffer[c])]
      /\ main' = main /\ state' = state /\ fifo' = fifo
  BY <1>0 DEF write_to_file
<1>2. FifoTypes /\ \A d \in Consumers : PlaceFits(d)
  BY DEF FifoInv
<1>3. buffer[c] # <<>> /\ place[c] = Head(buffer[c]).piece /\ buffer[c] \in Seq(Messages)
  BY <1>1, <1>2 DEF PlaceFits, FifoTypes
<1>4. p \in Producers /\ state[p] = "done" /\ main # "create_file"
  BY <1>3, <1>0, InHandOf
<1>5. PICK s \in Nat : /\ s < Pieces[p] /\ Pieces[p] \in Nat /\ InOneHand(p, s, c)
                       /\ Head(buffer[c]).piece = s + 1
  BY <1>3, <1>0, InHandOf
<1>7. /\ c \in Holders /\ c # "fifo" /\ Held(c) = buffer[c] /\ Held(c)' = Tail(buffer[c])
      /\ \A h \in Holders : h # c => Held(h)' = Held(h)
  BY <1>1, <1>2, FifoAssumption DEF Held, Holders, FifoTypes
<1>8. FifoTypes'
  <2>1. Tail(buffer[c]) \in Seq(Messages)
    BY <1>3
  <2>2. buffer' \in [Consumers -> Seq(Messages)]
    BY <1>1, <1>2, <2>1 DEF FifoTypes
  <2> QED  BY <1>1, <1>2, <2>2 DEF FifoTypes
<1>9. \A d \in Consumers : PlaceFits(d)'
  BY <1>1, <1>2 DEF PlaceFits, FifoTypes
<1>6. PICK n \in 0..Pieces[p] : n \in Nat /\ n = s + 1
  BY <1>5
<1>10. rows'[p] = [k \in 1..(Pieces[p] + 1) |-> IF k <= n THEN k ELSE 0]
  <2>1. rows[p] = [k \in 1..(Pieces[p] + 1) |-> IF k <= s THEN k ELSE 0]
    BY <1>5 DEF InOneHand
  <2>2. rows'[p] = [rows[p] EXCEPT ![s + 1] = s + 1]
    BY <1>1, <1>2, <1>3, <1>4, <1>5 DEF FifoTypes
  <2>3. rows'[p] = [k \in 1..(Pieces[p] + 1) |-> IF k = s + 1 THEN s + 1 ELSE rows[p][k]]
    BY <2>1, <2>2
  <2>4. \A k \in 1..(Pieces[p] + 1) :
            (IF k = s + 1 THEN s + 1 ELSE rows[p][k]) = IF k <= n THEN k ELSE 0
    BY <1>5, <1>6, <2>1
  <2> QED  BY <2>3, <2>4
<1>11. \A r \in Producers : r # p => rows'[r] = rows[r]
  BY <1>1, <1>2 DEF FifoTypes
<1>12. ASSUME NEW r \in Producers, r # p, NEW h \in Holders
       PROVE  /\ Own(r, Held(h)) = {} => Own(r, Held(h)') = {}
              /\ InOrder(r, Held(h)) => InOrder(r, Held(h)') /\ Left(r, Held(h)') = Left(r, Held(h))
  <2>1. CASE h = c
    <3>1. ASSUME Own(r, buffer[c]) = {}
          PROVE  InOrder(r, buffer[c])
      BY <3>1 DEF InOrder
    <3>2. ASSUME InOrder(r, buffer[c])
          PROVE  /\ InOrder(r, Tail(buffer[c])) /\ Left(r, Tail(buffer[c])) = Left(r, buffer[c])
                 /\ Own(r, buffer[c]) = {} => Own(r, Tail(buffer[c])) = {}
      BY <1>3, <1>0, <1>12, <3>2, PiecesOfTail
    <3> QED  BY <1>7, <2>1, <3>1, <3>2
  <2>2. CASE h # c
    BY <1>7, <2>2
  <2> QED  BY <2>1, <2>2
<1>13. ASSUME NEW r \in Producers, state'[r] # "done"
       PROVE  NotSent(r)'
  <2>1. r # p /\ NotSent(r)
    BY <1>1, <1>4, <1>13 DEF FifoInv
  <2> QED  BY <1>1, <1>11, <1>12, <2>1 DEF NotSent, Blank
<1>14. InOneHand(p, n, c)'
  <2>1. ASSUME NEW h \in Holders
        PROVE  /\ InOrder(p, Held(h)')
               /\ Left(p, Held(h)') = IF h = c THEN (n + 1)..Pieces[p] ELSE {}
    <3>1. InOrder(p, Held(h)) /\ Left(p, Held(h)) = IF h = c THEN (s + 1)..Pieces[p] ELSE {}
      BY <1>5 DEF InOneHand
    <3>2. CASE h = c
      <4>1. InOrder(p, buffer[c]) /\ Left(p, buffer[c]) = (s + 1)..Pieces[p]
        BY <1>7, <3>1, <3>2
      <4>2. /\ InOrder(p, Tail(buffer[c]))
            /\ Left(p, Tail(buffer[c])) = Left(p, buffer[c]) \ {Head(buffer[c]).piece}
        BY <1>3, <1>0, <4>1, PiecesOfTail
      <4>3. ((s + 1)..Pieces[p]) \ {s + 1} = (n + 1)..Pieces[p]
        BY <1>5, <1>6
      <4> QED  BY <1>5, <1>7, <3>2, <4>1, <4>2, <4>3
    <3>3. CASE h # c
      BY <1>7, <3>1, <3>3
    <3> QED  BY <3>2, <3>3
  <2> QED  BY <1>10, <2>1 DEF InOneHand
<1>15. ASSUME NEW r \in Producers, state'[r] = "done", ~Discarded(r)'
       PROVE  \E m \in 0..Pieces[r], holder \in Holders : InOneHand(r, m, holder)'
  <2>1. CASE r = p
    BY <1>7, <1>6, <1>14, <2>1
  <2>2. CASE r # p
    <3>0. Discarded(r) => Discarded(r)'
      <4>1. ASSUME NEW h \in Holders, Left(r, Held(h)) = {}
            PROVE  Left(r, Held(h)') = {}
        <5>1. Own(r, Held(h)) = {}
          BY <4>1 DEF Left
        <5>2. Own(r, Held(h)') = {}
          BY <1>12, <2>2, <5>1
        <5> QED  BY <5>2 DEF Left
      <4>2. In(Consumers, {"done"})' = In(Consumers, {"done"}) /\ rows'[r] = rows[r]
        BY <1>1, <1>11, <2>2 DEF In
      <4> QED  BY <4>1, <4>2 DEF Discarded
    <3>1. PICK m \in 0..Pieces[r], holder \in Holders : InOneHand(r, m, holder)
      BY <1>1, <1>15, <3>0 DEF FifoInv, PiecesInOneHand
    <3>2. InOneHand(r, m, holder)'
      BY <1>11, <1>12, <2>2, <3>1 DEF InOneHand
    <3> QED  BY <3>2
  <2> QED  BY <2>1, <2>2
<1>16. ASSUME NEW r \in Producers, Own(r, fifo) # {}
       PROVE  Blank(r)'
  <2>1. r # p
    <3>1. Left(p, Held("fifo")) = {} /\ Held("fifo") = fifo
      BY <1>5, <1>7 DEF InOneHand, Holders, Held
    <3> QED  BY <3>1, <1>16 DEF Left
  <2> QED  BY <1>11, <1>16, <2>1 DEF FifoInv, Blank
<1>17. fifo' # <<>> => In(Consumers, Came)' # {}
  BY <1>1 DEF FifoInv, In
<1>18. \A r : Own(r, fifo)' = Own(r, fifo)
  BY <1>1
<1> QED  BY <1>1, <1>4, <1>8, <1>9, <1>13, <1>15, <1>16, <1>17, <1>18 DEF FifoInv, PiecesInOneHand

LEMMA FifoStep == FifoInv /\ [FifoNext]_fifoVars => FifoInv'
<1> SUFFICES ASSUME FifoInv, [FifoNext]_fifoVars
             PROVE  FifoInv'
  OBVIOUS
<1>1. CASE UNCHANGED fifoVars
  BY <1>1, NothingMoves DEF fifoVars, FifoInv, FifoTypes
<1>2. CASE MainStep
  <2>1. CASE Wait
    BY <2>1, NothingMoves DEF Wait, FifoInv, FifoTypes
  <2>2. ASSUME NEW p \in Producers, ForkProducer(p)
        PROVE  FifoInv'
    <3>1. p \in Processes
      BY DEF Processes
    <3> QED  BY <2>2, <3>1, ComesAndGoes
  <2> QED  BY <1>2, <2>1, <2>2, CreateFile DEF MainStep
<1>3. ASSUME NEW p \in Processes, Process(p)
      PROVE  FifoInv'
  <2>1. CASE fopen(p)
    BY <1>3, <2>1, ComesAndGoes
  <2>2. CASE fclose(p)
    BY <2>2, Fclose DEF fclose
  <2>3. CASE p \in Consumers /\ (EndOfFile(p) \/ CloseFifo(p))
    BY <1>3, <2>3, ComesAndGoes, CloseStep
  <2>4. CASE p \in Consumers /\ (fread(p) \/ FindPlace(p) \/ write_to_file(p))
    BY <2>4, Fread, FindPlaceStep, WriteStep
  <2> QED  BY <1>3, <2>1, <2>2, <2>3, <2>4 DEF Process
<1> QED  BY <1>1, <1>2, <1>3 DEF FifoNext
-----------------------------------------------------------------------------
(* All of them.                                                            *)

ProgramsInv ==
    /\ program = "blocks" => BlocksInv
    /\ program = "burst" => BurstInv
    /\ program = "handshake" => IInv
    /\ program = "fifo" => FifoInv
    /\ program = "commands" => CommandsInv

LEMMA ProgramsStart == ProgramsInit => ProgramsInv
BY BlocksStart, BurstStart, InitIInv, FifoStart, CommandsStart DEF ProgramsInit, ProgramsInv

\* A step of one program leaves the variables of the others alone, and is one of its own.
LEMMA ProgramsStep == ProgramsInv /\ [ProgramsNext]_all => ProgramsInv'
<1> SUFFICES ASSUME ProgramsInv, [ProgramsNext]_all
             PROVE  ProgramsInv'
  OBVIOUS
<1>1. program' = program
  BY DEF all, ProgramsNext, InBlocks, InBurst, InHandshake, InFifo, InCommands
<1>2. CASE program = "blocks"
  <2>1. [BlocksNext]_blocksVars
    BY <1>2 DEF all, ProgramsNext, InBlocks, InBurst, InHandshake, InFifo, InCommands
  <2> QED  BY <1>1, <1>2, <2>1, BlocksStep DEF ProgramsInv
<1>3. CASE program = "burst"
  <2>1. [Burst!Next]_(Burst!vars)
    BY <1>3 DEF all, signalVars, Burst!vars, ProgramsNext, InBlocks, InBurst, InHandshake, InFifo,
                InCommands
  <2> QED  BY <1>1, <1>3, <2>1, BurstStep DEF ProgramsInv
<1>4. CASE program = "handshake"
  <2>1. [Next]_vars
    BY <1>4 DEF all, signalVars, vars, ProgramsNext, InBlocks, InBurst, InHandshake, InFifo,
                InCommands
  <2> QED  BY <1>1, <1>4, <2>1, IInvStep DEF ProgramsInv
<1>5. CASE program = "fifo"
  <2>1. [FifoNext]_fifoVars
    BY <1>5 DEF all, pipeVars, ProgramsNext, InBlocks, InBurst, InHandshake, InFifo, InCommands
  <2> QED  BY <1>1, <1>5, <2>1, FifoStep DEF ProgramsInv
<1>6. CASE program = "commands"
  <2>1. [CommandsNext]_commandsVars
    BY <1>6 DEF all, pipeVars, ProgramsNext, InBlocks, InBurst, InHandshake, InFifo, InCommands
  <2> QED  BY <1>1, <1>6, <2>1, CommandsStep DEF ProgramsInv
<1> QED  BY <1>1, <1>2, <1>3, <1>4, <1>5, <1>6 DEF ProgramsInv

LEMMA AlwaysProgramsInv == ProgramsSpec => []ProgramsInv
BY ProgramsStart, ProgramsStep, PTL DEF ProgramsSpec
-----------------------------------------------------------------------------
\* A block that has a place in the table is there until it is freed, is freed once at most,
\* and is freed when the program ends, whatever tables are made and blocks removed
\* (count_words_library.c).
THEOREM TablesKeepBlocks == ProgramsSpec => []BlocksKept
<1>1. ProgramsInv => BlocksKept
  BY DEF ProgramsInv, BlocksInv, BlocksKept
<1> QED  BY <1>1, AlwaysProgramsInv, PTL

\* The handshake has one signal under way at most, for any number of them.
THEOREM HandshakeAlternates == ProgramsSpec => []OneAtATime
<1>1. ProgramsInv => OneAtATime
  BY IInvOneUnderWay DEF ProgramsInv, OneAtATime
<1> QED  BY <1>1, AlwaysProgramsInv, PTL

\* A program of the handshake that has ended leaves all signals counted on both sides.
THEOREM HandshakeCounts == ProgramsSpec => []NoneLost
<1>1. ProgramsInv => NoneLost
  BY IInvNothingLost DEF ProgramsInv, NoneLost
<1> QED  BY <1>1, AlwaysProgramsInv, PTL

\* Whatever merges in the burst, no program counts a signal that the other one has not
\* sent; queued signals are not lost while their receiver lives, and the catcher sends back
\* no more of them than it counted.
THEOREM BurstAddsNothing == ProgramsSpec => []NoneMadeUp
<1>1. ProgramsInv => NoneMadeUp
  BY BurstKeeps DEF ProgramsInv, NoneMadeUp
<1> QED  BY <1>1, AlwaysProgramsInv, PTL

\* For any number of producers, of consumers and of pieces: the pieces of a producer are in
\* order in its row or with one consumer, or were all discarded with the FIFO after some
\* consumer had ended; and every command of a line, of any length, that has ended has read
\* all that the one before it wrote.
THEOREM NothingLeftBehind == ProgramsSpec => []InputsArrive
<1>1. ProgramsInv => InputsArrive
  BY DEF ProgramsInv, FifoInv, CommandsInv, InputsArrive
<1> QED  BY <1>1, AlwaysProgramsInv, PTL
=============================================================================
