----------------------------- MODULE SantaProof -----------------------------
(***************************************************************************)
(* Whom Santa meets, for any number of reindeer, elves and deliveries.     *)
(*                                                                         *)
(* Santa does not look whether elves are at his door: awake, and without   *)
(* all the reindeer, he invites them.  That they are there then follows    *)
(* from who can have woken him.  The last reindeer wakes him late when an  *)
(* elf has woken him before; then its delivery has ended, and the elves it *)
(* seems to disturb are those that were not served.                        *)
(***************************************************************************)
EXTENDS Santa, FiniteSetTheorems, TLAPS

ReindeerPlaces == {"loop", "holiday", "is_santa_asleep", "wake_santa", "join_others", "pulling", "done"}
ElfPlaces == {"work", "turned_away", "lock_sleep", "check_santa", "wait_for_sleep", "at_workshop", "done"}
SantaPlaces == {"go_to_sleep", "asleep", "look_outside", "deliver", "invite_elves", "solve",
                "fall_asleep", "done"}

\* The places of the threads, and that the elves are cancelled only when all others are done.
Places ==
    /\ \A r \in Reindeers : pc[r] \in ReindeerPlaces
    /\ \A e \in Elves : pc[e] \in ElfPlaces
    /\ pc[santa] \in SantaPlaces /\ pc[main] \in {"join", "collect", "done"}
    /\ pc[main] # "join" => \A t \in Reindeers \cup {santa} : pc[t] = "done"

\* The reindeer that was the last to come back and has not woken Santa yet.
Last == {r \in Reindeers : pc[r] \in {"is_santa_asleep", "wake_santa"}}

\* There is one at most; if the delivery it came back for has ended, it is not counted any
\* more, so that the reindeer can never be counted complete again.
LastOfAll ==
    /\ \A r, s \in Last : r = s
    /\ Last # {} => waiting_reindeers = REINDEERS_NUMBER \/ waiting_reindeers < Cardinality(Returned)

\* Santa delivers with the mutex of the reindeer, and ends after the last delivery.
Delivers ==
    /\ waiting_reindeers <= Cardinality(Returned)
    /\ pc[santa] = "deliver" => Returned = Reindeers /\ reindeers_mutex = santa
    /\ pc[santa] # "done" => deliveries < DELIVERS_NUMBER

\* The elf that completes a group, before it joins the others at the workshop.
Caller == {e \in Elves : pc[e] \in {"lock_sleep", "check_santa", "wait_for_sleep"}}
Ready == waiting_elves = REQUIRED_ELVES_NUMBER /\ Caller = {}

\* waiting_elves counts the elves at the door, but for those that Santa has let in, and those
\* that were cancelled.
Elfcount ==
    /\ \A e \in Caller : waiting_elves = REQUIRED_ELVES_NUMBER
    /\ \A e, f \in Caller : e = f
    /\ pc[santa] \notin {"solve", "done"} => Cardinality(AtTheDoor) = waiting_elves
    /\ pc[santa] = "solve" => AtTheDoor = {} /\ Ready
    /\ pc[santa] = "invite_elves" => Ready
    /\ Cardinality(AtTheDoor) <= waiting_elves

Awake == pc[santa] = "look_outside" \/ (pc[santa] = "asleep" /\ Woken("santa_task", santa))

\* Santa is woken for all the reindeer, or for elves that are at the door.
WokenForSomebody ==
    /\ Awake => waiting_reindeers = REINDEERS_NUMBER \/ Ready
    /\ (Awake \/ pc[santa] = "deliver") /\ Last # {} => waiting_reindeers = REINDEERS_NUMBER /\ Ready
    /\ pc[santa] \in {"invite_elves", "solve"} /\ Last # {} => waiting_reindeers = REINDEERS_NUMBER
    /\ Last # {} => waiting_reindeers = REINDEERS_NUMBER \/ Ready

IInv == TypeOK /\ Places /\ LastOfAll /\ Delivers /\ Elfcount /\ WokenForSomebody
-----------------------------------------------------------------------------
(* Who is counted, and whom a step does not concern.                       *)

\* The threads are different.
LEMMA Different ==
    /\ santa \notin Reindeers /\ santa \notin Elves /\ main \notin Reindeers /\ main \notin Elves
    /\ santa # main /\ \A t \in Reindeers : t \notin Elves
    /\ NoOne \notin Elves /\ NoOne # santa
    /\ santa \in Threads /\ main \in Threads /\ Reindeers \subseteq Threads /\ Elves \subseteq Threads
BY SantaAssumption DEF Threads

\* The sets that are counted are finite, and not all reindeer are in it when one is missing.
LEMMA Numbers ==
    /\ REINDEERS_NUMBER \in Nat \ {0} /\ REQUIRED_ELVES_NUMBER \in Nat \ {0}
    /\ DELIVERS_NUMBER \in Nat \ {0}
    /\ IsFiniteSet(Returned) /\ Cardinality(Returned) \in 0..REINDEERS_NUMBER
    /\ Cardinality(Returned) = REINDEERS_NUMBER => Returned = Reindeers
    /\ Cardinality(Returned) = 0 <=> Returned = {}
    /\ Returned \subseteq Reindeers /\ Last \subseteq Returned
    /\ IsFiniteSet(AtTheDoor) /\ Cardinality(AtTheDoor) \in Nat
    /\ Caller \subseteq AtTheDoor
    /\ AtTheDoor = {} => Cardinality(AtTheDoor) = 0
<1>1. IsFiniteSet(Reindeers) /\ Reindeers # {} /\ IsFiniteSet(Elves)
  BY SantaAssumption
<1>2. Returned \in SUBSET Reindeers /\ AtTheDoor \in SUBSET Elves
  BY DEF Returned, AtTheDoor
<1>3. Last \subseteq Returned /\ Caller \subseteq AtTheDoor
  BY DEF Last, Returned, Caller, AtTheDoor
<1>4. REINDEERS_NUMBER \in Nat /\ REINDEERS_NUMBER # 0
  BY <1>1, FS_CardinalityType, FS_EmptySet DEF REINDEERS_NUMBER
<1>5. /\ IsFiniteSet(Returned) /\ Cardinality(Returned) \in Nat
      /\ Cardinality(Returned) <= REINDEERS_NUMBER
      /\ Cardinality(Returned) = REINDEERS_NUMBER => Returned = Reindeers
  BY <1>1, <1>2, FS_Subset, FS_CardinalityType DEF REINDEERS_NUMBER
<1>6. IsFiniteSet(AtTheDoor) /\ Cardinality(AtTheDoor) \in Nat
  BY <1>1, <1>2, FS_Subset, FS_CardinalityType
<1>7. /\ Cardinality(Returned) = 0 <=> Returned = {}
      /\ AtTheDoor = {} => Cardinality(AtTheDoor) = 0
  BY <1>5, <1>6, FS_EmptySet
<1>8. REQUIRED_ELVES_NUMBER \in Nat \ {0} /\ DELIVERS_NUMBER \in Nat \ {0}
  BY SantaAssumption
<1> QED  BY <1>2, <1>3, <1>4, <1>5, <1>6, <1>7, <1>8

\* A step that leaves the reindeer where they are.
ReindeerStay == /\ \A r \in Reindeers : pc'[r] = pc[r]
                /\ \A r \in Reindeers : r \in waiting'["delivery_ended"] <=> r \in waiting["delivery_ended"]

LEMMA ReindeerKept == ReindeerStay => Returned' = Returned /\ Last' = Last
BY DEF ReindeerStay, Returned, Last, Woken

\* A step that leaves the elves where they are.
ElvesStay == /\ \A e \in Elves : pc'[e] = pc[e]
             /\ \A e \in Elves : e \in waiting'["santa_helping"] <=> e \in waiting["santa_helping"]

LEMMA ElvesKept == ElvesStay => AtTheDoor' = AtTheDoor /\ Caller' = Caller
BY DEF ElvesStay, AtTheDoor, Caller, Woken

\* A step of one thread.
LEMMA OneGoes ==
    ASSUME TypeOK, NEW t \in Threads, NEW from, NEW to, Goto(t, from, to)
    PROVE  pc[t] = from /\ pc'[t] = to /\ \A u \in Threads : u # t => pc'[u] = pc[u]
BY DEF TypeOK, Goto

\* The wait sets after a broadcast and after a wait.
LEMMA WaitSets ==
    ASSUME TypeOK, NEW c \in Conditions, NEW t
    PROVE  /\ Broadcast(c)[c] = {} /\ WaitOn(c, t)[c] = waiting[c] \cup {t}
           /\ \A d \in Conditions : d # c => Broadcast(c)[d] = waiting[d] /\ WaitOn(c, t)[d] = waiting[d]
           /\ Broadcast(c) \in [Conditions -> SUBSET Threads]
           /\ t \in Threads => WaitOn(c, t) \in [Conditions -> SUBSET Threads]
BY DEF TypeOK, Broadcast, WaitOn
-----------------------------------------------------------------------------
(* The initial state.                                                      *)

LEMMA InitIInv == Init => IInv
<1> SUFFICES ASSUME Init  PROVE IInv
  OBVIOUS
<1>1. /\ \A r \in Reindeers : pc[r] = "loop"
      /\ \A e \in Elves : pc[e] = "work"
      /\ pc[santa] = "go_to_sleep" /\ pc[main] = "join"
  BY Different DEF Init
<1>2. Returned = {} /\ Last = {} /\ AtTheDoor = {} /\ Caller = {}
  BY <1>1 DEF Returned, Last, AtTheDoor, Caller
<1>3. TypeOK
  BY <1>1, Numbers DEF Init, TypeOK, Threads
<1>4. Places
  BY <1>1 DEF Places, ReindeerPlaces, ElfPlaces, SantaPlaces
<1>5. Cardinality(Returned) = 0 /\ Cardinality(AtTheDoor) = 0
  BY <1>2, Numbers
<1>6. waiting_reindeers = 0 /\ waiting_elves = 0 /\ deliveries = 0
  BY DEF Init
<1>7. LastOfAll /\ Delivers /\ Elfcount /\ WokenForSomebody
  BY <1>1, <1>2, <1>5, <1>6, Numbers DEF LastOfAll, Delivers, Elfcount, WokenForSomebody, Awake
<1> QED  BY <1>3, <1>4, <1>7 DEF IInv
-----------------------------------------------------------------------------
(* The steps of Santa: reindeer stay, and elves unless they are let in.    *)

LEMMA SantaGoes ==
    ASSUME IInv, NEW from, NEW to \in SantaPlaces, from # "done", Goto(santa, from, to)
    PROVE  /\ pc[santa] = from /\ pc'[santa] = to
           /\ \A t \in Threads : t # santa => pc'[t] = pc[t]
           /\ \A r \in Reindeers : pc'[r] = pc[r]
           /\ \A e \in Elves : pc'[e] = pc[e]
           /\ Places'
<1>1. /\ pc[santa] = from /\ pc'[santa] = to
      /\ \A t \in Threads : t # santa => pc'[t] = pc[t]
  BY OneGoes, Different DEF IInv
<1> QED  BY <1>1, Different DEF IInv, Places

LEMMA GoToSleepStep ==
    ASSUME IInv, GoToSleep
    PROVE  IInv'
<1>1. /\ pc[santa] = "go_to_sleep" /\ pc'[santa] = "asleep" /\ Places'
      /\ \A r \in Reindeers : pc'[r] = pc[r]
      /\ \A e \in Elves : pc'[e] = pc[e]
  BY SantaGoes DEF GoToSleep, SantaPlaces
<1>2. /\ waiting'["santa_task"] = waiting["santa_task"] \cup {santa}
      /\ \A d \in Conditions : d # "santa_task" => waiting'[d] = waiting[d]
      /\ waiting' \in [Conditions -> SUBSET Threads]
  BY WaitSets, Different DEF GoToSleep, IInv, Conditions
<1>3. Returned' = Returned /\ Last' = Last
  BY <1>1, <1>2, ReindeerKept DEF ReindeerStay, Conditions
<1>4. AtTheDoor' = AtTheDoor /\ Caller' = Caller
  BY <1>1, <1>2, ElvesKept DEF ElvesStay, Conditions
<1>5. UNCHANGED <<counters, asleep, sleep_mutex, reindeers_mutex>>
  BY DEF GoToSleep
<1>6. TypeOK'
  BY <1>2, <1>5 DEF IInv, TypeOK, GoToSleep, Goto, counters
<1>7. LastOfAll' /\ Delivers' /\ Elfcount'
  BY <1>1, <1>3, <1>4, <1>5 DEF IInv, LastOfAll, Delivers, Elfcount, Ready, counters
<1>8. WokenForSomebody'
  BY <1>1, <1>2, <1>3, <1>4, <1>5 DEF IInv, WokenForSomebody, Ready, Awake, Woken, counters
<1> QED  BY <1>1, <1>6, <1>7, <1>8 DEF IInv

LEMMA WakeUpStep ==
    ASSUME IInv, WakeUp
    PROVE  IInv'
<1>1. /\ pc[santa] = "asleep" /\ pc'[santa] = "look_outside" /\ Places'
      /\ \A r \in Reindeers : pc'[r] = pc[r]
      /\ \A e \in Elves : pc'[e] = pc[e]
  BY SantaGoes DEF WakeUp, SantaPlaces
<1>2. UNCHANGED <<counters, sleep_mutex, reindeers_mutex, waiting>> /\ Awake /\ asleep' = FALSE
  BY <1>1 DEF WakeUp, Awake
<1>3. Returned' = Returned /\ Last' = Last /\ AtTheDoor' = AtTheDoor /\ Caller' = Caller
  BY <1>1, <1>2, ReindeerKept, ElvesKept DEF ReindeerStay, ElvesStay
<1>4. TypeOK'
  BY <1>2 DEF IInv, TypeOK, WakeUp, Goto, counters
<1>5. LastOfAll' /\ Delivers' /\ Elfcount'
  BY <1>1, <1>2, <1>3 DEF IInv, LastOfAll, Delivers, Elfcount, Ready, counters
<1>6. WokenForSomebody'
  BY <1>1, <1>2, <1>3 DEF IInv, WokenForSomebody, Ready, Awake, counters
<1> QED  BY <1>1, <1>4, <1>5, <1>6 DEF IInv

\* He takes the mutex when the reindeer are complete; else elves are there, or he would sleep.
LEMMA LookOutsideStep ==
    ASSUME IInv, LookOutside
    PROVE  IInv'
<1>1. UNCHANGED <<counters, asleep, sleep_mutex, waiting>> /\ Awake
  BY DEF LookOutside, Awake, Goto
<1>2. CASE waiting_reindeers = REINDEERS_NUMBER
  <2>1. /\ pc[santa] = "look_outside" /\ pc'[santa] = "deliver" /\ Places'
        /\ \A r \in Reindeers : pc'[r] = pc[r]
        /\ \A e \in Elves : pc'[e] = pc[e]
        /\ reindeers_mutex' = santa
    BY <1>2, SantaGoes DEF LookOutside, SantaPlaces
  <2>2. Returned' = Returned /\ Last' = Last /\ AtTheDoor' = AtTheDoor /\ Caller' = Caller
    BY <1>1, <2>1, ReindeerKept, ElvesKept DEF ReindeerStay, ElvesStay
  <2>3. TypeOK'
    BY <1>1, <2>1 DEF IInv, TypeOK, LookOutside, Goto, counters
  <2>4. Returned = Reindeers
    BY <1>2, Numbers DEF IInv, Delivers
  <2>5. LastOfAll' /\ Delivers' /\ Elfcount' /\ WokenForSomebody'
    BY <1>1, <2>1, <2>2, <2>4
       DEF IInv, LastOfAll, Delivers, Elfcount, WokenForSomebody, Ready, Awake, counters
  <2> QED  BY <2>1, <2>3, <2>5 DEF IInv
<1>3. CASE waiting_reindeers # REINDEERS_NUMBER
  <2>1. /\ pc[santa] = "look_outside" /\ pc'[santa] = "invite_elves" /\ Places'
        /\ \A r \in Reindeers : pc'[r] = pc[r]
        /\ \A e \in Elves : pc'[e] = pc[e]
        /\ UNCHANGED reindeers_mutex
    BY <1>3, SantaGoes DEF LookOutside, SantaPlaces
  <2>2. Returned' = Returned /\ Last' = Last /\ AtTheDoor' = AtTheDoor /\ Caller' = Caller
    BY <1>1, <2>1, ReindeerKept, ElvesKept DEF ReindeerStay, ElvesStay
  <2>3. TypeOK'
    BY <1>1, <2>1 DEF IInv, TypeOK, LookOutside, Goto, counters
  <2>4. Ready /\ Last = {}
    BY <1>1, <1>3 DEF IInv, WokenForSomebody
  <2>5. LastOfAll' /\ Delivers' /\ Elfcount' /\ WokenForSomebody'
    BY <1>1, <2>1, <2>2, <2>4
       DEF IInv, LastOfAll, Delivers, Elfcount, WokenForSomebody, Ready, Awake, counters
  <2> QED  BY <2>1, <2>3, <2>5 DEF IInv
<1> QED  BY <1>2, <1>3

\* The reindeer that pull are let go; one that was late stays, and is not counted any more.
LEMMA DeliverToysStep ==
    ASSUME IInv, DeliverToys
    PROVE  IInv'
<1>1. /\ pc[santa] = "deliver" /\ pc'[santa] \in {"done", "fall_asleep"} /\ Places'
      /\ pc'[santa] = "done" <=> deliveries + 1 = DELIVERS_NUMBER
      /\ \A r \in Reindeers : pc'[r] = pc[r]
      /\ \A e \in Elves : pc'[e] = pc[e]
  BY SantaGoes DEF DeliverToys, SantaPlaces
<1>2. /\ waiting'["delivery_ended"] = {}
      /\ \A d \in Conditions : d # "delivery_ended" => waiting'[d] = waiting[d]
      /\ waiting' \in [Conditions -> SUBSET Threads]
  BY WaitSets DEF DeliverToys, IInv, Conditions
<1>3. /\ UNCHANGED <<waiting_elves, asleep, sleep_mutex>>
      /\ deliveries' = deliveries + 1 /\ waiting_reindeers' = 0 /\ reindeers_mutex' = NoOne
  BY DEF DeliverToys
<1>4. Last' = Last /\ Last' \subseteq Returned'
  BY <1>1 DEF Last, Returned
<1>5. AtTheDoor' = AtTheDoor /\ Caller' = Caller
  BY <1>1, <1>2, ElvesKept DEF ElvesStay, Conditions
<1>6. /\ deliveries \in 0..(DELIVERS_NUMBER - 1) /\ DELIVERS_NUMBER \in Nat
      /\ 0 \in 0..REINDEERS_NUMBER /\ deliveries + 1 \in 0..DELIVERS_NUMBER
  BY <1>1, Numbers DEF IInv, TypeOK, Delivers
<1>7. TypeOK'
  BY <1>2, <1>3, <1>6 DEF IInv, TypeOK, DeliverToys, Goto
<1>8. Cardinality(Returned') \in Nat /\ (Cardinality(Returned') = 0 <=> Returned' = {})
  <2>1. Returned' \in SUBSET Reindeers
    BY DEF Returned
  <2> QED  BY <2>1, SantaAssumption, FS_Subset, FS_CardinalityType, FS_EmptySet
<1>9. LastOfAll' /\ Delivers'
  BY <1>1, <1>3, <1>4, <1>6, <1>8 DEF IInv, LastOfAll, Delivers
<1>10. Elfcount'
  BY <1>1, <1>3, <1>5 DEF IInv, Elfcount, Ready
<1>11. WokenForSomebody'
  BY <1>1, <1>3, <1>4, <1>5 DEF IInv, WokenForSomebody, Ready, Awake
<1> QED  BY <1>1, <1>7, <1>9, <1>10, <1>11 DEF IInv

\* All that are at the door are let in.
LEMMA InviteElvesStep ==
    ASSUME IInv, InviteElves
    PROVE  IInv'
<1>1. /\ pc[santa] = "invite_elves" /\ pc'[santa] = "solve" /\ Places'
      /\ \A r \in Reindeers : pc'[r] = pc[r]
      /\ \A e \in Elves : pc'[e] = pc[e]
  BY SantaGoes DEF InviteElves, SantaPlaces
<1>2. /\ waiting'["santa_helping"] = {}
      /\ \A d \in Conditions : d # "santa_helping" => waiting'[d] = waiting[d]
      /\ waiting' \in [Conditions -> SUBSET Threads]
  BY WaitSets DEF InviteElves, IInv, Conditions
<1>3. UNCHANGED <<counters, asleep, sleep_mutex, reindeers_mutex>>
  BY DEF InviteElves
<1>4. Returned' = Returned /\ Last' = Last
  BY <1>1, <1>2, ReindeerKept DEF ReindeerStay, Conditions
<1>5. Caller' = Caller /\ Caller = {}
  BY <1>1 DEF Caller, IInv, Elfcount, Ready
<1>6. AtTheDoor' = {}
  BY <1>1, <1>2, <1>5 DEF AtTheDoor, Caller, Woken
<1>7. Cardinality(AtTheDoor') = 0 /\ waiting_elves \in Nat
  BY <1>6, FS_EmptySet, Numbers DEF IInv, TypeOK
<1>8. TypeOK'
  BY <1>2, <1>3 DEF IInv, TypeOK, InviteElves, Goto, counters
<1>9. LastOfAll' /\ Delivers' /\ Elfcount' /\ WokenForSomebody'
  BY <1>1, <1>3, <1>4, <1>5, <1>6, <1>7
     DEF IInv, LastOfAll, Delivers, Elfcount, WokenForSomebody, Ready, Awake, counters
<1> QED  BY <1>1, <1>8, <1>9 DEF IInv

LEMMA FinishWithElvesStep ==
    ASSUME IInv, FinishWithElves
    PROVE  IInv'
<1>1. /\ pc[santa] = "solve" /\ pc'[santa] = "fall_asleep" /\ Places'
      /\ \A r \in Reindeers : pc'[r] = pc[r]
      /\ \A e \in Elves : pc'[e] = pc[e]
  BY SantaGoes DEF FinishWithElves, SantaPlaces
<1>2. /\ waiting'["santa_helping"] = {}
      /\ \A d \in Conditions : d # "santa_helping" => waiting'[d] = waiting[d]
      /\ waiting' \in [Conditions -> SUBSET Threads]
  BY WaitSets DEF FinishWithElves, IInv, Conditions
<1>3. /\ UNCHANGED <<waiting_reindeers, deliveries, asleep, sleep_mutex, reindeers_mutex>>
      /\ waiting_elves' = 0
  BY DEF FinishWithElves
<1>4. Returned' = Returned /\ Last' = Last
  BY <1>1, <1>2, ReindeerKept DEF ReindeerStay, Conditions
<1>5. Caller' = {} /\ AtTheDoor' = {}
  BY <1>1, <1>2 DEF Caller, AtTheDoor, Woken, IInv, Elfcount, Ready
<1>6. Cardinality(AtTheDoor') = 0 /\ 0 \in 0..REQUIRED_ELVES_NUMBER
  BY <1>5, FS_EmptySet, Numbers
<1>7. TypeOK'
  BY <1>2, <1>3, <1>6 DEF IInv, TypeOK, FinishWithElves, Goto
<1>8. LastOfAll' /\ Delivers' /\ Elfcount' /\ WokenForSomebody'
  BY <1>1, <1>3, <1>4, <1>5, <1>6
     DEF IInv, LastOfAll, Delivers, Elfcount, WokenForSomebody, Ready, Awake
<1> QED  BY <1>1, <1>7, <1>8 DEF IInv

LEMMA FallAsleepStep ==
    ASSUME IInv, FallAsleep
    PROVE  IInv'
<1>1. /\ pc[santa] = "fall_asleep" /\ pc'[santa] = "go_to_sleep" /\ Places'
      /\ \A r \in Reindeers : pc'[r] = pc[r]
      /\ \A e \in Elves : pc'[e] = pc[e]
  BY SantaGoes DEF FallAsleep, SantaPlaces
<1>2. /\ \A d \in Conditions : d # "santa_sleeping" => waiting'[d] = waiting[d]
      /\ waiting' \in [Conditions -> SUBSET Threads]
  BY WaitSets DEF FallAsleep, IInv, Conditions
<1>3. UNCHANGED <<counters, sleep_mutex, reindeers_mutex>> /\ asleep' = TRUE
  BY DEF FallAsleep
<1>4. Returned' = Returned /\ Last' = Last /\ AtTheDoor' = AtTheDoor /\ Caller' = Caller
  BY <1>1, <1>2, ReindeerKept, ElvesKept DEF ReindeerStay, ElvesStay, Conditions
<1>5. TypeOK'
  BY <1>2, <1>3 DEF IInv, TypeOK, FallAsleep, Goto, counters
<1>6. LastOfAll' /\ Delivers' /\ Elfcount' /\ WokenForSomebody'
  BY <1>1, <1>3, <1>4
     DEF IInv, LastOfAll, Delivers, Elfcount, WokenForSomebody, Ready, Awake, counters
<1> QED  BY <1>1, <1>5, <1>6 DEF IInv

LEMMA SantaStep == IInv /\ Santa => IInv'
BY GoToSleepStep, WakeUpStep, LookOutsideStep, DeliverToysStep, InviteElvesStep,
   FinishWithElvesStep, FallAsleepStep DEF Santa
-----------------------------------------------------------------------------
(* The steps of a reindeer: the elves stay, and so do Santa and main.      *)

LEMMA ReindeerGoes ==
    ASSUME IInv, NEW r \in Reindeers, NEW from, NEW to \in ReindeerPlaces, from # "done",
           Goto(r, from, to)
    PROVE  /\ pc[r] = from /\ pc'[r] = to
           /\ pc'[santa] = pc[santa] /\ pc'[main] = pc[main]
           /\ \A s \in Reindeers : s # r => pc'[s] = pc[s]
           /\ \A e \in Elves : pc'[e] = pc[e]
           /\ Places'
<1>1. /\ pc[r] = from /\ pc'[r] = to
      /\ \A t \in Threads : t # r => pc'[t] = pc[t]
  BY OneGoes, Different DEF IInv
<1> QED  BY <1>1, Different DEF IInv, Places

LEMMA LoopOrLeaveStep ==
    ASSUME IInv, NEW r \in Reindeers, LoopOrLeave(r)
    PROVE  IInv'
<1>1. /\ pc[r] = "loop" /\ pc'[r] \in {"holiday", "done"} /\ Places' /\ pc'[santa] = pc[santa]
      /\ \A s \in Reindeers : s # r => pc'[s] = pc[s]
      /\ \A e \in Elves : pc'[e] = pc[e]
  BY ReindeerGoes DEF LoopOrLeave, ReindeerPlaces
<1>2. UNCHANGED <<counters, asleep, sleep_mutex, reindeers_mutex, waiting>>
  BY DEF LoopOrLeave
<1>3. Returned' = Returned /\ Last' = Last
  BY <1>1, <1>2 DEF Returned, Last, Woken
<1>4. AtTheDoor' = AtTheDoor /\ Caller' = Caller
  BY <1>1, <1>2, ElvesKept DEF ElvesStay
<1>5. TypeOK'
  BY <1>2 DEF IInv, TypeOK, LoopOrLeave, Goto, counters
<1>6. LastOfAll' /\ Delivers' /\ Elfcount' /\ WokenForSomebody'
  BY <1>1, <1>2, <1>3, <1>4
     DEF IInv, LastOfAll, Delivers, Elfcount, WokenForSomebody, Ready, Awake, Woken, counters
<1> QED  BY <1>1, <1>5, <1>6 DEF IInv

\* It is counted when it comes back, and the last one has nobody before it.
LEMMA ComeBackStep ==
    ASSUME IInv, NEW r \in Reindeers, ComeBack(r)
    PROVE  IInv'
<1>1. /\ pc[r] = "holiday" /\ pc'[r] \in {"is_santa_asleep", "join_others"} /\ Places'
      /\ pc'[santa] = pc[santa]
      /\ pc'[r] = "is_santa_asleep" <=> waiting_reindeers + 1 = REINDEERS_NUMBER
      /\ \A s \in Reindeers : s # r => pc'[s] = pc[s]
      /\ \A e \in Elves : pc'[e] = pc[e]
  BY ReindeerGoes DEF ComeBack, ReindeerPlaces
<1>2. /\ UNCHANGED <<waiting_elves, deliveries, asleep, sleep_mutex, reindeers_mutex, waiting>>
      /\ waiting_reindeers' = waiting_reindeers + 1 /\ reindeers_mutex = NoOne
  BY DEF ComeBack
<1>3. r \notin Returned /\ Returned' = Returned \cup {r}
  BY <1>1, <1>2 DEF Returned, Woken
<1>4. /\ Cardinality(Returned') = Cardinality(Returned) + 1
      /\ Cardinality(Returned) \in 0..(REINDEERS_NUMBER - 1)
      /\ waiting_reindeers \in 0..(REINDEERS_NUMBER - 1)
      /\ REINDEERS_NUMBER \in Nat
  <2>1. Cardinality(Returned') = Cardinality(Returned) + 1
    BY <1>3, Numbers, FS_AddElement
  <2>2. Returned # Reindeers
    BY <1>3
  <2> QED  BY <2>1, <2>2, Numbers DEF IInv, TypeOK, Delivers
<1>5. AtTheDoor' = AtTheDoor /\ Caller' = Caller
  BY <1>1, <1>2, ElvesKept DEF ElvesStay
<1>6. pc[santa] # "deliver"
  BY <1>2, Different DEF IInv, Delivers
<1>7. TypeOK'
  <2>1. waiting_reindeers' \in 0..REINDEERS_NUMBER
    BY <1>2, <1>4
  <2> QED  BY <1>2, <2>1 DEF IInv, TypeOK, ComeBack, Goto
<1>8. Delivers' /\ Elfcount'
  BY <1>1, <1>2, <1>4, <1>5, <1>6 DEF IInv, Delivers, Elfcount, Ready
<1>9. CASE waiting_reindeers + 1 = REINDEERS_NUMBER
  <2>1. Last = {} /\ Last' = {r}
    BY <1>1, <1>4, <1>9 DEF IInv, LastOfAll, Last
  <2>2. Awake => Ready
    BY <1>4 DEF IInv, WokenForSomebody
  <2>3. LastOfAll' /\ WokenForSomebody'
    BY <1>1, <1>2, <1>5, <1>6, <1>9, <2>1, <2>2
       DEF IInv, LastOfAll, WokenForSomebody, Ready, Awake, Woken
  <2> QED  BY <1>1, <1>7, <1>8, <2>3 DEF IInv
<1>10. CASE waiting_reindeers + 1 # REINDEERS_NUMBER
  <2>1. Last' = Last
    BY <1>1, <1>10 DEF Last
  <2>2. waiting_reindeers # REINDEERS_NUMBER
    BY <1>4
  <2>3. LastOfAll' /\ WokenForSomebody'
    BY <1>1, <1>2, <1>4, <1>5, <1>6, <2>1, <2>2
       DEF IInv, LastOfAll, WokenForSomebody, Ready, Awake, Woken
  <2> QED  BY <1>1, <1>7, <1>8, <2>3 DEF IInv
<1> QED  BY <1>9, <1>10

LEMMA SeeSantaAsleepStep ==
    ASSUME IInv, NEW r \in Reindeers, SeeSantaAsleep(r)
    PROVE  IInv'
<1>1. UNCHANGED <<counters, asleep, sleep_mutex, reindeers_mutex>>
  BY DEF SeeSantaAsleep
<1>2. CASE asleep
  <2>1. /\ pc[r] = "is_santa_asleep" /\ pc'[r] = "wake_santa" /\ Places' /\ pc'[santa] = pc[santa]
        /\ \A s \in Reindeers : s # r => pc'[s] = pc[s]
        /\ \A e \in Elves : pc'[e] = pc[e]
        /\ UNCHANGED waiting
    BY <1>2, ReindeerGoes DEF SeeSantaAsleep, ReindeerPlaces
  <2>2. Returned' = Returned /\ Last' = Last
    BY <2>1 DEF Returned, Last, Woken
  <2>3. AtTheDoor' = AtTheDoor /\ Caller' = Caller
    BY <2>1, ElvesKept DEF ElvesStay
  <2>4. TypeOK'
    BY <1>1, <1>2, <2>1 DEF IInv, TypeOK, SeeSantaAsleep, Goto, counters
  <2>5. LastOfAll' /\ Delivers' /\ Elfcount' /\ WokenForSomebody'
    BY <1>1, <2>1, <2>2, <2>3
       DEF IInv, LastOfAll, Delivers, Elfcount, WokenForSomebody, Ready, Awake, Woken, counters
  <2> QED  BY <2>1, <2>4, <2>5 DEF IInv
<1>3. CASE ~asleep
  <2>1. UNCHANGED pc /\ waiting' = WaitOn("santa_sleeping", r)
    BY <1>3 DEF SeeSantaAsleep
  <2>2. /\ \A d \in Conditions : d # "santa_sleeping" => waiting'[d] = waiting[d]
        /\ waiting' \in [Conditions -> SUBSET Threads]
    BY <2>1, WaitSets, Different DEF IInv, Conditions
  <2>3. Returned' = Returned /\ Last' = Last /\ AtTheDoor' = AtTheDoor /\ Caller' = Caller
    BY <2>1, <2>2, ReindeerKept, ElvesKept DEF ReindeerStay, ElvesStay, Conditions
  <2>4. TypeOK' /\ Places'
    BY <1>1, <2>1, <2>2 DEF IInv, TypeOK, Places, counters
  <2>5. LastOfAll' /\ Delivers' /\ Elfcount' /\ WokenForSomebody'
    BY <1>1, <2>1, <2>2, <2>3
       DEF IInv, LastOfAll, Delivers, Elfcount, WokenForSomebody, Ready, Awake, Woken, counters,
           Conditions
  <2> QED  BY <2>4, <2>5 DEF IInv
<1> QED  BY <1>2, <1>3

\* Nobody else is late with waking Santa.
LEMMA WakeSantaStep ==
    ASSUME IInv, NEW r \in Reindeers, WakeSanta(r)
    PROVE  IInv'
<1>1. /\ pc[r] = "wake_santa" /\ pc'[r] = "join_others" /\ Places' /\ pc'[santa] = pc[santa]
      /\ \A s \in Reindeers : s # r => pc'[s] = pc[s]
      /\ \A e \in Elves : pc'[e] = pc[e]
  BY ReindeerGoes DEF WakeSanta, ReindeerPlaces
<1>2. /\ waiting'["santa_task"] = {}
      /\ \A d \in Conditions : d # "santa_task" => waiting'[d] = waiting[d]
      /\ waiting' \in [Conditions -> SUBSET Threads]
  BY WaitSets DEF WakeSanta, IInv, Conditions
<1>3. UNCHANGED <<counters, asleep, sleep_mutex, reindeers_mutex>>
  BY DEF WakeSanta
<1>4. Returned' = Returned
  BY <1>1, <1>2 DEF Returned, Woken, Conditions
<1>5. AtTheDoor' = AtTheDoor /\ Caller' = Caller
  BY <1>1, <1>2, ElvesKept DEF ElvesStay, Conditions
<1>6. r \in Last /\ Last' = {}
  BY <1>1 DEF Last, IInv, LastOfAll
<1>7. TypeOK'
  BY <1>2, <1>3 DEF IInv, TypeOK, WakeSanta, Goto, counters
<1>8. LastOfAll' /\ Delivers' /\ Elfcount' /\ WokenForSomebody'
  BY <1>1, <1>3, <1>4, <1>5, <1>6
     DEF IInv, LastOfAll, Delivers, Elfcount, WokenForSomebody, Ready, Awake, counters
<1> QED  BY <1>1, <1>7, <1>8 DEF IInv

LEMMA JoinOthersStep ==
    ASSUME IInv, NEW r \in Reindeers, JoinOthers(r)
    PROVE  IInv'
<1>1. /\ pc[r] = "join_others" /\ pc'[r] = "pulling" /\ Places' /\ pc'[santa] = pc[santa]
      /\ \A s \in Reindeers : s # r => pc'[s] = pc[s]
      /\ \A e \in Elves : pc'[e] = pc[e]
  BY ReindeerGoes DEF JoinOthers, ReindeerPlaces
<1>2. /\ waiting'["delivery_ended"] = waiting["delivery_ended"] \cup {r}
      /\ \A d \in Conditions : d # "delivery_ended" => waiting'[d] = waiting[d]
      /\ waiting' \in [Conditions -> SUBSET Threads]
  BY WaitSets, Different DEF JoinOthers, IInv, Conditions
<1>3. UNCHANGED <<counters, asleep, sleep_mutex, reindeers_mutex>>
  BY DEF JoinOthers
<1>4. Returned' = Returned /\ Last' = Last
  BY <1>1, <1>2 DEF Returned, Last, Woken
<1>5. AtTheDoor' = AtTheDoor /\ Caller' = Caller
  BY <1>1, <1>2, ElvesKept DEF ElvesStay, Conditions
<1>6. TypeOK'
  BY <1>2, <1>3 DEF IInv, TypeOK, JoinOthers, Goto, counters
<1>7. LastOfAll' /\ Delivers' /\ Elfcount' /\ WokenForSomebody'
  BY <1>1, <1>2, <1>3, <1>4, <1>5
     DEF IInv, LastOfAll, Delivers, Elfcount, WokenForSomebody, Ready, Awake, Woken, counters,
         Conditions
<1> QED  BY <1>1, <1>6, <1>7 DEF IInv

LEMMA FlyAwayStep ==
    ASSUME IInv, NEW r \in Reindeers, FlyAway(r)
    PROVE  IInv'
<1>1. /\ pc[r] = "pulling" /\ pc'[r] = "loop" /\ Places' /\ pc'[santa] = pc[santa]
      /\ \A s \in Reindeers : s # r => pc'[s] = pc[s]
      /\ \A e \in Elves : pc'[e] = pc[e]
  BY ReindeerGoes DEF FlyAway, ReindeerPlaces
<1>2. UNCHANGED <<counters, asleep, sleep_mutex, reindeers_mutex, waiting>>
  BY DEF FlyAway
<1>3. Returned' = Returned /\ Last' = Last
  BY <1>1, <1>2 DEF FlyAway, Returned, Last, Woken
<1>4. AtTheDoor' = AtTheDoor /\ Caller' = Caller
  BY <1>1, <1>2, ElvesKept DEF ElvesStay
<1>5. TypeOK'
  BY <1>2 DEF IInv, TypeOK, FlyAway, Goto, counters
<1>6. LastOfAll' /\ Delivers' /\ Elfcount' /\ WokenForSomebody'
  BY <1>1, <1>2, <1>3, <1>4
     DEF IInv, LastOfAll, Delivers, Elfcount, WokenForSomebody, Ready, Awake, Woken, counters
<1> QED  BY <1>1, <1>5, <1>6 DEF IInv

LEMMA ReindeerStep == ASSUME NEW r \in Reindeers  PROVE IInv /\ Reindeer(r) => IInv'
BY LoopOrLeaveStep, ComeBackStep, SeeSantaAsleepStep, WakeSantaStep, JoinOthersStep, FlyAwayStep
   DEF Reindeer
-----------------------------------------------------------------------------
(* The steps of an elf: the reindeer stay, and so do Santa and main.       *)

LEMMA ElfGoes ==
    ASSUME IInv, NEW e \in Elves, NEW from, NEW to \in ElfPlaces, Goto(e, from, to)
    PROVE  /\ pc[e] = from /\ pc'[e] = to
           /\ pc'[santa] = pc[santa] /\ pc'[main] = pc[main]
           /\ \A r \in Reindeers : pc'[r] = pc[r]
           /\ \A f \in Elves : f # e => pc'[f] = pc[f]
           /\ Places'
<1>1. /\ pc[e] = from /\ pc'[e] = to
      /\ \A t \in Threads : t # e => pc'[t] = pc[t]
  BY OneGoes, Different DEF IInv
<1> QED  BY <1>1, Different DEF IInv, Places

\* An elf that reports its problem is turned away or joins the others at the door.
LEMMA ReportProblemStep ==
    ASSUME IInv, NEW e \in Elves, ReportProblem(e)
    PROVE  IInv'
<1>1. UNCHANGED <<waiting_reindeers, deliveries, asleep, sleep_mutex, reindeers_mutex>>
  BY DEF ReportProblem
<1>2. CASE waiting_elves = REQUIRED_ELVES_NUMBER
  <2>1. /\ pc[e] = "work" /\ pc'[e] = "turned_away" /\ Places' /\ pc'[santa] = pc[santa]
        /\ \A r \in Reindeers : pc'[r] = pc[r]
        /\ \A f \in Elves : f # e => pc'[f] = pc[f]
        /\ waiting' = WaitOn("santa_helped", e) /\ UNCHANGED waiting_elves
    BY <1>2, ElfGoes DEF ReportProblem, ElfPlaces
  <2>2. /\ \A d \in Conditions : d # "santa_helped" => waiting'[d] = waiting[d]
        /\ waiting' \in [Conditions -> SUBSET Threads]
    BY <2>1, WaitSets, Different DEF IInv, Conditions
  <2>3. Returned' = Returned /\ Last' = Last
    BY <2>1, <2>2, ReindeerKept DEF ReindeerStay, Conditions
  <2>4. AtTheDoor' = AtTheDoor /\ Caller' = Caller
    BY <2>1, <2>2 DEF AtTheDoor, Caller, Woken, Conditions
  <2>5. TypeOK'
    BY <1>1, <1>2, <2>1, <2>2 DEF IInv, TypeOK, ReportProblem, Goto
  <2>6. LastOfAll' /\ Delivers' /\ Elfcount' /\ WokenForSomebody'
    BY <1>1, <2>1, <2>2, <2>3, <2>4
       DEF IInv, LastOfAll, Delivers, Elfcount, WokenForSomebody, Ready, Awake, Woken, Conditions
  <2> QED  BY <2>1, <2>5, <2>6 DEF IInv
<1>3. CASE waiting_elves # REQUIRED_ELVES_NUMBER
  <2>1. /\ pc[e] = "work" /\ pc'[e] \in {"lock_sleep", "at_workshop"} /\ Places'
        /\ pc'[e] = "lock_sleep" <=> waiting_elves + 1 = REQUIRED_ELVES_NUMBER
        /\ pc'[santa] = pc[santa]
        /\ \A r \in Reindeers : pc'[r] = pc[r]
        /\ \A f \in Elves : f # e => pc'[f] = pc[f]
        /\ waiting_elves' = waiting_elves + 1
        /\ waiting' = IF waiting_elves + 1 = REQUIRED_ELVES_NUMBER THEN waiting
                      ELSE WaitOn("santa_helping", e)
    BY <1>3, ElfGoes DEF ReportProblem, ElfPlaces
  <2>2. /\ pc'[e] = "at_workshop" => waiting'["santa_helping"] = waiting["santa_helping"] \cup {e}
        /\ pc'[e] = "lock_sleep" => waiting'["santa_helping"] = waiting["santa_helping"]
        /\ \A d \in Conditions : d # "santa_helping" => waiting'[d] = waiting[d]
        /\ waiting' \in [Conditions -> SUBSET Threads]
    BY <2>1, WaitSets, Different DEF IInv, TypeOK, Conditions
  <2>3. Returned' = Returned /\ Last' = Last
    BY <2>1, <2>2, ReindeerKept DEF ReindeerStay, Conditions
  <2>4. e \notin AtTheDoor /\ AtTheDoor' = AtTheDoor \cup {e}
    BY <2>1, <2>2 DEF AtTheDoor, Woken
  <2>5. Cardinality(AtTheDoor') = Cardinality(AtTheDoor) + 1 /\ Cardinality(AtTheDoor) \in Nat
    BY <2>4, Numbers, FS_AddElement
  <2>6. /\ waiting_elves \in 0..(REQUIRED_ELVES_NUMBER - 1) /\ REQUIRED_ELVES_NUMBER \in Nat
        /\ waiting_elves + 1 \in 0..REQUIRED_ELVES_NUMBER
    BY <1>3, Numbers DEF IInv, TypeOK
  <2>7. Caller = {} /\ ~Ready /\ Caller' \subseteq {e}
    BY <1>3, <2>1 DEF IInv, Elfcount, Ready, Caller
  <2>8. Caller' # {} => waiting_elves' = REQUIRED_ELVES_NUMBER
    BY <2>1, <2>7 DEF Caller
  <2>9. TypeOK'
    BY <1>1, <2>1, <2>2, <2>6 DEF IInv, TypeOK, ReportProblem, Goto
  <2>10. LastOfAll' /\ Delivers' /\ WokenForSomebody'
    BY <1>1, <2>1, <2>2, <2>3, <2>7
       DEF IInv, LastOfAll, Delivers, Elfcount, WokenForSomebody, Awake, Woken, Conditions
  <2>11. Elfcount'
    BY <2>1, <2>5, <2>6, <2>7, <2>8 DEF IInv, Elfcount
  <2> QED  BY <2>1, <2>9, <2>10, <2>11 DEF IInv
<1> QED  BY <1>2, <1>3

\* A step of the caller on its way, with or without sleep_mutex.
LEMMA CallerGoes ==
    ASSUME IInv, NEW e \in Elves, NEW from \in {"lock_sleep", "check_santa", "wait_for_sleep"},
           NEW to \in {"check_santa", "wait_for_sleep"}, Goto(e, from, to),
           sleep_mutex' \in Elves \cup {NoOne}, UNCHANGED <<counters, asleep, reindeers_mutex>>,
           waiting' \in {waiting, WaitOn("santa_sleeping", e)}
    PROVE  IInv'
<1>1. /\ pc[e] = from /\ pc'[e] = to /\ Places' /\ pc'[santa] = pc[santa]
      /\ \A r \in Reindeers : pc'[r] = pc[r]
      /\ \A f \in Elves : f # e => pc'[f] = pc[f]
  BY ElfGoes DEF ElfPlaces
<1>2. /\ \A d \in Conditions : d # "santa_sleeping" => waiting'[d] = waiting[d]
      /\ waiting' \in [Conditions -> SUBSET Threads]
  BY WaitSets, Different DEF IInv, TypeOK, Conditions
<1>3. Returned' = Returned /\ Last' = Last
  BY <1>1, <1>2, ReindeerKept DEF ReindeerStay, Conditions
<1>4. AtTheDoor' = AtTheDoor /\ Caller' = Caller
  BY <1>1, <1>2 DEF AtTheDoor, Caller, Woken, Conditions
<1>5. TypeOK'
  BY <1>2 DEF IInv, TypeOK, Goto, counters
<1>6. LastOfAll' /\ Delivers' /\ Elfcount' /\ WokenForSomebody'
  BY <1>1, <1>2, <1>3, <1>4
     DEF IInv, LastOfAll, Delivers, Elfcount, WokenForSomebody, Ready, Awake, Woken, counters,
         Conditions
<1> QED  BY <1>1, <1>5, <1>6 DEF IInv

LEMMA LockSleepStep == ASSUME IInv, NEW e \in Elves, LockSleep(e)  PROVE IInv'
BY CallerGoes DEF LockSleep

LEMMA CheckAgainStep == ASSUME IInv, NEW e \in Elves, CheckAgain(e)  PROVE IInv'
BY CallerGoes DEF CheckAgain

\* The caller wakes Santa for its group, when he sleeps and the reindeer are not complete.
LEMMA CheckSantaStep ==
    ASSUME IInv, NEW e \in Elves, CheckSanta(e)
    PROVE  IInv'
<1>1. UNCHANGED <<counters, asleep, reindeers_mutex>> /\ sleep_mutex' = NoOne
  BY DEF CheckSanta
<1>2. CASE ~asleep \/ waiting_reindeers = REINDEERS_NUMBER
  BY <1>1, <1>2, CallerGoes DEF CheckSanta
<1>3. CASE ~(~asleep \/ waiting_reindeers = REINDEERS_NUMBER)
  <2>1. /\ pc[e] = "check_santa" /\ pc'[e] = "at_workshop" /\ Places' /\ pc'[santa] = pc[santa]
        /\ \A r \in Reindeers : pc'[r] = pc[r]
        /\ \A f \in Elves : f # e => pc'[f] = pc[f]
        /\ waiting' = [Broadcast("santa_task") EXCEPT !["santa_helping"] = @ \cup {e}]
    BY <1>3, ElfGoes DEF CheckSanta, ElfPlaces
  <2>2. /\ waiting'["santa_task"] = {}
        /\ waiting'["santa_helping"] = waiting["santa_helping"] \cup {e}
        /\ \A d \in Conditions : d \notin {"santa_task", "santa_helping"} => waiting'[d] = waiting[d]
        /\ waiting' \in [Conditions -> SUBSET Threads]
    BY <2>1, Different DEF Broadcast, IInv, TypeOK, Conditions
  <2>3. Returned' = Returned /\ Last' = Last
    BY <2>1, <2>2, ReindeerKept DEF ReindeerStay, Conditions
  <2>4. e \in Caller /\ AtTheDoor' = AtTheDoor /\ Caller' = {}
    BY <2>1, <2>2 DEF AtTheDoor, Caller, Woken, IInv, Elfcount
  <2>5. waiting_elves = REQUIRED_ELVES_NUMBER /\ ~Ready /\ Last = {}
    BY <1>3, <2>4 DEF IInv, Elfcount, Ready, WokenForSomebody
  <2>6. TypeOK'
    BY <1>1, <1>3, <2>2 DEF IInv, TypeOK, CheckSanta, Goto, counters
  <2>7. LastOfAll' /\ Delivers' /\ Elfcount' /\ WokenForSomebody'
    BY <1>1, <2>1, <2>3, <2>4, <2>5
       DEF IInv, LastOfAll, Delivers, Elfcount, WokenForSomebody, Ready, counters
  <2> QED  BY <2>1, <2>6, <2>7 DEF IInv
<1> QED  BY <1>2, <1>3

LEMMA GoOnStep ==
    ASSUME IInv, NEW e \in Elves, GoOn(e)
    PROVE  IInv'
<1>1. PICK place \in {"at_workshop", "turned_away"} :
          /\ Goto(e, place, "work")
          /\ Woken(IF place = "at_workshop" THEN "santa_helping" ELSE "santa_helped", e)
          /\ UNCHANGED <<counters, asleep, sleep_mutex, reindeers_mutex, waiting>>
  BY DEF GoOn
<1>2. /\ pc[e] = place /\ pc'[e] = "work" /\ Places' /\ pc'[santa] = pc[santa]
      /\ \A r \in Reindeers : pc'[r] = pc[r]
      /\ \A f \in Elves : f # e => pc'[f] = pc[f]
  BY <1>1, ElfGoes DEF ElfPlaces
<1>3. Returned' = Returned /\ Last' = Last
  BY <1>1, <1>2, ReindeerKept DEF ReindeerStay
<1>4. AtTheDoor' = AtTheDoor /\ Caller' = Caller
  BY <1>1, <1>2 DEF AtTheDoor, Caller, Woken
<1>5. TypeOK'
  BY <1>1 DEF IInv, TypeOK, Goto, counters
<1>6. LastOfAll' /\ Delivers' /\ Elfcount' /\ WokenForSomebody'
  BY <1>1, <1>2, <1>3, <1>4
     DEF IInv, LastOfAll, Delivers, Elfcount, WokenForSomebody, Ready, Awake, Woken, counters
<1> QED  BY <1>2, <1>5, <1>6 DEF IInv

LEMMA ElfStep == ASSUME NEW e \in Elves  PROVE IInv /\ Elf(e) => IInv'
BY ReportProblemStep, LockSleepStep, CheckSantaStep, CheckAgainStep, GoOnStep DEF Elf
-----------------------------------------------------------------------------
(* The end: nobody waits for Santa any more.                               *)

\* When main cancels the elves all reindeer are done, and so is Santa.
LEMMA AllDone ==
    ASSUME IInv, pc[main] # "join"
    PROVE  pc[santa] = "done" /\ Last = {} /\ \A r \in Reindeers : pc[r] = "done"
BY DEF IInv, Places, Last

LEMMA CancelledElfStep ==
    ASSUME IInv, NEW e \in Elves, CancelledElf(e)
    PROVE  IInv'
<1>1. /\ pc' = [pc EXCEPT ![e] = "done"] /\ pc[main] # "join"
      /\ waiting' = [c \in Conditions |-> waiting[c] \ {e}]
      /\ UNCHANGED <<counters, asleep, reindeers_mutex>> /\ sleep_mutex' = NoOne
  BY DEF CancelledElf
<1>2. /\ pc'[e] = "done" /\ \A t \in Threads : t # e => pc'[t] = pc[t]
  BY <1>1, Different DEF IInv, TypeOK
<1>3. TypeOK'
  BY <1>1 DEF IInv, TypeOK, counters
<1>4. Places'
  BY <1>2, Different DEF IInv, Places, ElfPlaces
<1>5. /\ pc'[santa] = "done" /\ pc[santa] = "done" /\ Last = {}
      /\ \A r \in Reindeers : pc'[r] = pc[r]
  BY <1>1, <1>2, AllDone, Different
<1>6. Returned' = Returned /\ Last' = Last
  BY <1>1, <1>5, ReindeerKept, Different DEF ReindeerStay, Conditions
<1>7. AtTheDoor' \subseteq AtTheDoor /\ Caller' \subseteq Caller
  BY <1>1, <1>2, Different DEF AtTheDoor, Caller, Woken, Conditions
<1>8. Cardinality(AtTheDoor') <= Cardinality(AtTheDoor) /\ Cardinality(AtTheDoor') \in Nat
  BY <1>7, Numbers, FS_Subset, FS_CardinalityType
<1>9. LastOfAll' /\ Delivers' /\ WokenForSomebody'
  BY <1>1, <1>5, <1>6 DEF IInv, LastOfAll, Delivers, WokenForSomebody, Awake, counters
<1>10. Elfcount'
  <2>1. Cardinality(AtTheDoor) \in Nat /\ waiting_elves \in Nat /\ waiting_elves' = waiting_elves
    BY <1>1, Numbers DEF IInv, TypeOK, counters
  <2> QED  BY <1>5, <1>7, <1>8, <2>1 DEF IInv, Elfcount
<1> QED  BY <1>3, <1>4, <1>9, <1>10 DEF IInv

LEMMA MainStep ==
    ASSUME IInv, CancelElves \/ Exit
    PROVE  IInv'
<1>1. /\ \A t \in Threads : t # main => pc'[t] = pc[t]
      /\ pc'[main] \in {"collect", "done"}
      /\ \A t \in Reindeers \cup {santa} : pc[t] = "done"
      /\ UNCHANGED <<counters, asleep, sleep_mutex, reindeers_mutex, waiting>>
      /\ pc' \in {[pc EXCEPT ![main] = "collect"], [pc EXCEPT ![main] = "done"]}
  BY OneGoes, Different DEF CancelElves, Exit, Goto, IInv, Places
<1>2. Returned' = Returned /\ Last' = Last /\ AtTheDoor' = AtTheDoor /\ Caller' = Caller
  BY <1>1, Different, ReindeerKept, ElvesKept DEF ReindeerStay, ElvesStay
<1>3. pc'[santa] = pc[santa]
  BY <1>1, Different
<1>4. TypeOK'
  BY <1>1 DEF IInv, TypeOK, counters
<1>5. Places'
  BY <1>1, Different DEF IInv, Places, ReindeerPlaces, SantaPlaces
<1>6. LastOfAll' /\ Delivers' /\ Elfcount' /\ WokenForSomebody'
  BY <1>1, <1>2, <1>3
     DEF IInv, LastOfAll, Delivers, Elfcount, WokenForSomebody, Ready, Awake, Woken, counters
<1> QED  BY <1>4, <1>5, <1>6 DEF IInv
-----------------------------------------------------------------------------
(* The theorems.                                                           *)

LEMMA NextIInv == IInv /\ [Next]_vars => IInv'
<1> SUFFICES ASSUME IInv, [Next]_vars  PROVE IInv'
  OBVIOUS
<1>1. CASE UNCHANGED vars
  <2>1. Returned' = Returned /\ Last' = Last /\ AtTheDoor' = AtTheDoor /\ Caller' = Caller
    BY <1>1 DEF vars, Returned, Last, AtTheDoor, Caller, Woken
  <2>2. TypeOK' /\ Places'
    BY <1>1 DEF vars, IInv, TypeOK, Places, counters
  <2>3. LastOfAll' /\ Delivers' /\ Elfcount' /\ WokenForSomebody'
    BY <1>1, <2>1 DEF vars, counters, IInv, LastOfAll, Delivers, Elfcount, WokenForSomebody, Ready,
                      Awake, Woken
  <2> QED  BY <2>2, <2>3 DEF IInv
<1>2. CASE Next
  BY <1>2, SantaStep, ReindeerStep, ElfStep, CancelledElfStep, MainStep DEF Next
<1> QED  BY <1>1, <1>2

LEMMA Invariance == Spec => []IInv
BY InitIInv, NextIInv, PTL DEF Spec

\* Every variable keeps its type, and no counter leaves its range, for any number of threads.
THEOREM TypeCorrect == Spec => []TypeOK
<1>1. IInv => TypeOK
  BY DEF IInv
<1> QED  BY <1>1, Invariance, PTL

\* A delivery takes all the reindeer, however late the last of them woke Santa.
THEOREM AllPull == Spec => []DeliveryTakesAll
<1>1. IInv => DeliveryTakesAll
  BY DEF IInv, Delivers, DeliveryTakesAll
<1> QED  BY <1>1, Invariance, PTL

\* Santa opens to exactly as many elves as his workshop takes, and no more wait for him.
THEOREM GroupsComplete == Spec => []SantaHelpsThree
<1>1. ASSUME IInv  PROVE SantaHelpsThree
  <2>1. /\ waiting_elves \in Nat /\ waiting_elves <= REQUIRED_ELVES_NUMBER
        /\ Cardinality(AtTheDoor) \in Nat /\ REQUIRED_ELVES_NUMBER \in Nat
    BY <1>1, Numbers DEF IInv, TypeOK
  <2> QED  BY <1>1, <2>1 DEF IInv, Elfcount, Ready, SantaHelpsThree
<1> QED  BY <1>1, Invariance, PTL
=============================================================================
