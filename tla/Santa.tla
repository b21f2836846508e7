-------------------------------- MODULE Santa --------------------------------
(***************************************************************************)
(* cw09/zad1: Santa, the reindeer and the elves as threads that meet over  *)
(* mutexes and condition variables.                                        *)
(*                                                                         *)
(* A stretch of code between two points at which its thread can block is   *)
(* one action when everything it touches is protected by the mutexes it    *)
(* holds.  elves_mutex, elves_waiting_mutex and reindeers_waiting_mutex    *)
(* are only ever held over such a stretch, so they are always free between *)
(* actions and need no variable; sleep_mutex and reindeers_mutex are held  *)
(* across blocking points and do.  A condition variable is the set of the  *)
(* threads waiting on it.  Spurious wake-ups are not modelled.             *)
(***************************************************************************)
EXTENDS Integers, FiniteSets

CONSTANTS Reindeers, Elves,      \* reindeer_threads, elf_threads
          santa, main,           \* the two other threads
          DELIVERS_NUMBER, REQUIRED_ELVES_NUMBER,
          NoOne                  \* the owner of a free mutex

REINDEERS_NUMBER == Cardinality(Reindeers)
Threads == Reindeers \cup Elves \cup {santa, main}
Conditions == {"santa_task", "santa_sleeping", "santa_helping", "santa_helped", "delivery_ended"}

ASSUME SantaAssumption ==
    /\ IsFiniteSet(Reindeers) /\ Reindeers # {}
    /\ IsFiniteSet(Elves)
    /\ Reindeers \cap Elves = {} /\ {santa, main} \cap (Reindeers \cup Elves) = {}
    /\ santa # main /\ NoOne \notin Threads
    /\ DELIVERS_NUMBER \in Nat \ {0}
    /\ REQUIRED_ELVES_NUMBER \in Nat \ {0}

VARIABLES pc,
          waiting_reindeers, waiting_elves, deliveries,
          asleep,           \* santa_sleeping, as a Boolean
          sleep_mutex, reindeers_mutex,
          waiting           \* the threads waiting on each condition variable

counters == <<waiting_reindeers, waiting_elves, deliveries>>
vars == <<pc, counters, asleep, sleep_mutex, reindeers_mutex, waiting>>

Init == /\ pc = [t \in Threads |-> CASE t \in Reindeers -> "loop"
                                     [] t \in Elves -> "work"
                                     [] t = santa -> "go_to_sleep"
                                     [] t = main -> "join"]
        /\ waiting_reindeers = 0 /\ waiting_elves = 0 /\ deliveries = 0
        /\ asleep = TRUE
        /\ sleep_mutex = NoOne /\ reindeers_mutex = NoOne
        /\ waiting = [c \in Conditions |-> {}]

Goto(t, from, to) == pc[t] = from /\ pc' = [pc EXCEPT ![t] = to]

\* The effects on the wait sets: broadcast empties one, a wait joins one.
Broadcast(c) == [waiting EXCEPT ![c] = {}]
WaitOn(c, t) == [waiting EXCEPT ![c] = @ \cup {t}]
Woken(c, t) == t \notin waiting[c]
-----------------------------------------------------------------------------
(* Santa.                                                                  *)

\* lock(sleep_mutex); cond_wait(santa_task_cond): no predicate is tested, whoever
\* broadcast before this step is not heard.
GoToSleep == /\ Goto(santa, "go_to_sleep", "asleep")
             /\ sleep_mutex = NoOne
             /\ waiting' = WaitOn("santa_task", santa)
             /\ UNCHANGED <<counters, asleep, sleep_mutex, reindeers_mutex>>

WakeUp == /\ Goto(santa, "asleep", "look_outside")
          /\ Woken("santa_task", santa)
          /\ sleep_mutex = NoOne
          /\ asleep' = FALSE
          /\ UNCHANGED <<counters, sleep_mutex, reindeers_mutex, waiting>>

\* reindeers_mutex is kept for the whole delivery, which takes seconds.
LookOutside ==
    /\ reindeers_mutex = NoOne
    /\ \/ /\ waiting_reindeers = REINDEERS_NUMBER
          /\ Goto(santa, "look_outside", "deliver")
          /\ reindeers_mutex' = santa
       \/ /\ waiting_reindeers # REINDEERS_NUMBER
          /\ Goto(santa, "look_outside", "invite_elves")
          /\ UNCHANGED reindeers_mutex
    /\ UNCHANGED <<counters, asleep, sleep_mutex, waiting>>

\* Mutants of DeliverToys: the counter is not reset; Santa ends with the mutex.
DeliverToys_NoReset ==
    /\ Goto(santa, "deliver",
            IF deliveries + 1 = DELIVERS_NUMBER THEN "done" ELSE "fall_asleep")
    /\ deliveries' = deliveries + 1
    /\ waiting' = Broadcast("delivery_ended")
    /\ reindeers_mutex' = NoOne
    /\ UNCHANGED <<waiting_reindeers, waiting_elves, asleep, sleep_mutex>>

DeliverToys_EndsLocked ==
    /\ Goto(santa, "deliver",
            IF deliveries + 1 = DELIVERS_NUMBER THEN "done" ELSE "fall_asleep")
    /\ deliveries' = deliveries + 1
    /\ waiting' = Broadcast("delivery_ended")
    /\ waiting_reindeers' = 0
    /\ reindeers_mutex' = IF deliveries + 1 = DELIVERS_NUMBER THEN santa ELSE NoOne
    /\ UNCHANGED <<waiting_elves, asleep, sleep_mutex>>

DeliverToys ==
    /\ Goto(santa, "deliver",
            IF deliveries + 1 = DELIVERS_NUMBER THEN "done" ELSE "fall_asleep")
    /\ deliveries' = deliveries + 1
    /\ waiting' = Broadcast("delivery_ended")
    /\ waiting_reindeers' = 0
    /\ reindeers_mutex' = NoOne
    /\ UNCHANGED <<waiting_elves, asleep, sleep_mutex>>

\* A mutant of InviteElves: the counter is reset before the meeting.
InviteElves_EarlyReset ==
    /\ Goto(santa, "invite_elves", "solve")
    /\ waiting' = Broadcast("santa_helping")
    /\ waiting_elves' = 0
    /\ UNCHANGED <<waiting_reindeers, deliveries, asleep, sleep_mutex, reindeers_mutex>>

\* The first broadcast lets the elves in, the second comes when Santa has finished.
InviteElves == /\ Goto(santa, "invite_elves", "solve")
               /\ waiting' = Broadcast("santa_helping")
               /\ UNCHANGED <<counters, asleep, sleep_mutex, reindeers_mutex>>

FinishWithElves == /\ Goto(santa, "solve", "fall_asleep")
                   /\ waiting' = Broadcast("santa_helping")
                   /\ waiting_elves' = 0
                   /\ UNCHANGED <<waiting_reindeers, deliveries, asleep, sleep_mutex, reindeers_mutex>>

FallAsleep == /\ Goto(santa, "fall_asleep", "go_to_sleep")
              /\ sleep_mutex = NoOne
              /\ asleep' = TRUE
              /\ waiting' = Broadcast("santa_sleeping")
              /\ UNCHANGED <<counters, sleep_mutex, reindeers_mutex>>

Santa == \/ GoToSleep \/ WakeUp \/ LookOutside \/ DeliverToys
         \/ InviteElves \/ FinishWithElves \/ FallAsleep
-----------------------------------------------------------------------------
(* A reindeer.                                                             *)

\* The loop's condition reads deliveries without a lock.
LoopOrLeave(r) == /\ Goto(r, "loop", IF deliveries < DELIVERS_NUMBER THEN "holiday" ELSE "done")
                  /\ UNCHANGED <<counters, asleep, sleep_mutex, reindeers_mutex, waiting>>

ComeBack(r) ==
    /\ reindeers_mutex = NoOne
    /\ waiting_reindeers' = waiting_reindeers + 1
    /\ Goto(r, "holiday",
            IF waiting_reindeers + 1 = REINDEERS_NUMBER THEN "is_santa_asleep" ELSE "join_others")
    /\ UNCHANGED <<waiting_elves, deliveries, asleep, sleep_mutex, reindeers_mutex, waiting>>

\* while (santa_sleeping == 0) cond_wait(...); what was read is used after unlocking.
SeeSantaAsleep(r) ==
    /\ sleep_mutex = NoOne
    /\ Woken("santa_sleeping", r)
    /\ IF asleep THEN Goto(r, "is_santa_asleep", "wake_santa") /\ UNCHANGED waiting
       ELSE /\ pc[r] = "is_santa_asleep" /\ UNCHANGED pc
            /\ waiting' = WaitOn("santa_sleeping", r)
    /\ UNCHANGED <<counters, asleep, sleep_mutex, reindeers_mutex>>

\* The broadcast is sent without sleep_mutex.
WakeSanta(r) == /\ Goto(r, "wake_santa", "join_others")
                /\ waiting' = Broadcast("santa_task")
                /\ UNCHANGED <<counters, asleep, sleep_mutex, reindeers_mutex>>

\* No predicate is tested: a delivery that has ended already is not noticed.
JoinOthers(r) == /\ Goto(r, "join_others", "pulling")
                 /\ waiting' = WaitOn("delivery_ended", r)
                 /\ UNCHANGED <<counters, asleep, sleep_mutex, reindeers_mutex>>

FlyAway(r) == /\ Goto(r, "pulling", "loop")
              /\ Woken("delivery_ended", r)
              /\ UNCHANGED <<counters, asleep, sleep_mutex, reindeers_mutex, waiting>>

Reindeer(r) == \/ LoopOrLeave(r) \/ ComeBack(r) \/ SeeSantaAsleep(r)
               \/ WakeSanta(r) \/ JoinOthers(r) \/ FlyAway(r)
-----------------------------------------------------------------------------
(* An elf.                                                                 *)

\* A mutant of ReportProblem: a full workshop is not noticed.
ReportProblem_NoLimit(e) ==
    /\ pc[e] = "work"
    /\ waiting_elves' = waiting_elves + 1
    /\ IF waiting_elves + 1 = REQUIRED_ELVES_NUMBER
       THEN Goto(e, "work", "lock_sleep") /\ UNCHANGED waiting
       ELSE Goto(e, "work", "at_workshop") /\ waiting' = WaitOn("santa_helping", e)
    /\ UNCHANGED <<waiting_reindeers, deliveries, asleep, sleep_mutex, reindeers_mutex>>

\* With three elves before the workshop the elf waits on a condition variable that
\* nobody ever signals; otherwise it is counted and waits for Santa, the third one
\* after waking him.
ReportProblem(e) ==
    /\ \/ /\ waiting_elves = REQUIRED_ELVES_NUMBER
          /\ Goto(e, "work", "turned_away")
          /\ waiting' = WaitOn("santa_helped", e)
          /\ UNCHANGED waiting_elves
       \/ /\ waiting_elves # REQUIRED_ELVES_NUMBER
          /\ waiting_elves' = waiting_elves + 1
          /\ IF waiting_elves + 1 = REQUIRED_ELVES_NUMBER
             THEN Goto(e, "work", "lock_sleep") /\ UNCHANGED waiting
             ELSE Goto(e, "work", "at_workshop") /\ waiting' = WaitOn("santa_helping", e)
    /\ UNCHANGED <<waiting_reindeers, deliveries, asleep, sleep_mutex, reindeers_mutex>>

LockSleep(e) == /\ Goto(e, "lock_sleep", "check_santa")
                /\ sleep_mutex = NoOne
                /\ sleep_mutex' = e
                /\ UNCHANGED <<counters, asleep, reindeers_mutex, waiting>>

\* A mutant of CheckSanta: the reindeer are not looked for.
CheckSanta_IgnoresReindeers(e) ==
    /\ reindeers_mutex = NoOne
    /\ sleep_mutex' = NoOne
    /\ IF ~asleep
       THEN /\ Goto(e, "check_santa", "wait_for_sleep")
            /\ waiting' = WaitOn("santa_sleeping", e)
       ELSE /\ Goto(e, "check_santa", "at_workshop")
            /\ waiting' = [Broadcast("santa_task") EXCEPT !["santa_helping"] = @ \cup {e}]
    /\ UNCHANGED <<counters, asleep, reindeers_mutex>>

\* The third elf, with sleep_mutex, needs reindeers_mutex to look for the reindeer.
CheckSanta(e) ==
    /\ reindeers_mutex = NoOne
    /\ sleep_mutex' = NoOne
    /\ IF ~asleep \/ waiting_reindeers = REINDEERS_NUMBER
       THEN /\ Goto(e, "check_santa", "wait_for_sleep")
            /\ waiting' = WaitOn("santa_sleeping", e)
       ELSE /\ Goto(e, "check_santa", "at_workshop")
            /\ waiting' = [Broadcast("santa_task") EXCEPT !["santa_helping"] = @ \cup {e}]
    /\ UNCHANGED <<counters, asleep, reindeers_mutex>>

CheckAgain(e) == /\ Goto(e, "wait_for_sleep", "check_santa")
                 /\ Woken("santa_sleeping", e)
                 /\ sleep_mutex = NoOne
                 /\ sleep_mutex' = e
                 /\ UNCHANGED <<counters, asleep, reindeers_mutex, waiting>>

\* An elf that was let in meets Santa and works on; one that was turned away would
\* look at the workshop again, if santa_helped were ever broadcast.
GoOn(e) == \E place \in {"at_workshop", "turned_away"} :
               /\ Goto(e, place, "work")
               /\ Woken(IF place = "at_workshop" THEN "santa_helping" ELSE "santa_helped", e)
               /\ UNCHANGED <<counters, asleep, sleep_mutex, reindeers_mutex, waiting>>

Elf(e) == \/ ReportProblem(e) \/ LockSleep(e) \/ CheckSanta(e)
          \/ CheckAgain(e) \/ GoOn(e)
-----------------------------------------------------------------------------
(* The main thread: clean().                                               *)

CancelElves == /\ Goto(main, "join", "collect")
               /\ \A t \in Reindeers \cup {santa} : pc[t] = "done"
               /\ UNCHANGED <<counters, asleep, sleep_mutex, reindeers_mutex, waiting>>

\* A cancelled elf ends in the usleep or the cond_wait it is in; cleanup_elf then
\* unlocks sleep_mutex whoever holds it.
CancelledElf(e) ==
    /\ pc[main] = "collect"
    /\ pc[e] \in {"work", "turned_away", "wait_for_sleep", "at_workshop"}
    /\ pc[e] = "wait_for_sleep" => sleep_mutex = NoOne
    /\ pc' = [pc EXCEPT ![e] = "done"]
    /\ waiting' = [c \in Conditions |-> waiting[c] \ {e}]
    /\ sleep_mutex' = NoOne
    /\ UNCHANGED <<counters, asleep, reindeers_mutex>>

\* The busy wait on completed_elves ends.
Exit == /\ Goto(main, "collect", "done")
        /\ \A e \in Elves : pc[e] = "done"
        /\ UNCHANGED <<counters, asleep, sleep_mutex, reindeers_mutex, waiting>>
-----------------------------------------------------------------------------
Next == \/ Santa
        \/ \E r \in Reindeers : Reindeer(r)
        \/ \E e \in Elves : Elf(e) \/ CancelledElf(e)
        \/ CancelElves \/ Exit

Spec == Init /\ [][Next]_vars

\* Every thread is scheduled; a cancelled elf ends before it starts another round.
Fairness == /\ WF_vars(Santa)
            /\ \A r \in Reindeers : WF_vars(Reindeer(r))
            /\ \A e \in Elves : WF_vars(Elf(e)) /\ SF_vars(CancelledElf(e))
            /\ WF_vars(CancelElves) /\ WF_vars(Exit)

FairSpec == Spec /\ Fairness
-----------------------------------------------------------------------------
(* Properties.                                                             *)

Returned == {r \in Reindeers : pc[r] \in {"is_santa_asleep", "wake_santa", "join_others"}
                                \/ (pc[r] = "pulling" /\ ~Woken("delivery_ended", r))}
AtTheDoor == {e \in Elves : pc[e] \in {"lock_sleep", "check_santa", "wait_for_sleep"}
                            \/ (pc[e] = "at_workshop" /\ ~Woken("santa_helping", e))}

\* Every variable has its type and the counters stay within the numbers of main.c:7-10.
TypeOK == /\ pc \in [Threads -> {"loop", "holiday", "is_santa_asleep", "wake_santa", "join_others",
                                 "pulling", "work", "turned_away", "lock_sleep", "check_santa",
                                 "wait_for_sleep", "at_workshop", "go_to_sleep", "asleep",
                                 "look_outside", "deliver", "invite_elves", "solve", "fall_asleep",
                                 "join", "collect", "done"}]
          /\ waiting_reindeers \in 0..REINDEERS_NUMBER
          /\ waiting_elves \in 0..REQUIRED_ELVES_NUMBER
          /\ deliveries \in 0..DELIVERS_NUMBER
          /\ asleep \in BOOLEAN
          /\ sleep_mutex \in Elves \cup {NoOne}
          /\ reindeers_mutex \in {santa, NoOne}
          /\ waiting \in [Conditions -> SUBSET Threads]

\* A delivery takes all the reindeer: the counter never counts one that is still away,
\* not even when the ninth woke Santa late or missed an earlier delivery.
DeliveryTakesAll == /\ waiting_reindeers <= Cardinality(Returned)
                    /\ pc[santa] = "deliver" => Returned = Reindeers

\* readme.md:49: no more than three elves wait for Santa; readme.md:39: when he takes them
\* into his workshop they are three.
SantaHelpsThree == /\ Cardinality(AtTheDoor) <= REQUIRED_ELVES_NUMBER
                   /\ pc[santa] = "invite_elves" => Cardinality(AtTheDoor) = REQUIRED_ELVES_NUMBER

\* sleep_mutex is held by the third elf over its wait for reindeers_mutex; the two are
\* never waited for in a circle, so it is always released.
SleepMutexReleased == sleep_mutex # NoOne ~> sleep_mutex = NoOne

\* Once Santa and the reindeer have ended, clean() cancels every elf wherever it waits
\* and the program exits.
CleanupCompletes == pc[main] = "collect" ~> pc[main] = "done"

\* No circle of mutexes: neither the elf with sleep_mutex nor the exit is held up for good.
NobodyHeldUp == SleepMutexReleased /\ CleanupCompletes
-----------------------------------------------------------------------------
(* What the documentation promises and the code does not keep.             *)

\* readme.md:48: Santa does not sleep while nine reindeer, or three elves, wait for him.
ReindeersAreServed == waiting_reindeers = REINDEERS_NUMBER ~> pc[santa] = "deliver"
ElvesAreServed == waiting_elves = REQUIRED_ELVES_NUMBER ~> pc[santa] \in {"solve", "done"}
NobodyIsMissed == ReindeersAreServed /\ ElvesAreServed

\* readme.md:19-21: an elf that finds three others before the workshop waits for their
\* return and then goes there itself.
ElfReturns == \A e \in Elves : pc[e] = "turned_away" ~> pc[e] # "turned_away"
=============================================================================
