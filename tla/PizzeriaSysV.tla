---------------------------- MODULE PizzeriaSysV ----------------------------
(***************************************************************************)
(* cw07/zad1: System V objects.  The SIGINT handler of the parent removes  *)
(* the semaphore set and the segments; a semop that is blocked or issued   *)
(* afterwards fails and its process exits, while memory already attached   *)
(* stays usable.  Every start sets all five semaphores (SETVAL).           *)
(***************************************************************************)
EXTENDS PizzeriaLife

\* The handler returns: the parent goes on forking or waiting.
SIGINT_handler ==
    /\ boss # "exited"
    /\ ipc = "exists"
    /\ ipc' = "removed"
    /\ \/ life' = life            \* sent to the parent alone
       \/ life' = KillChildren    \* typed at the terminal
    /\ UNCHANGED <<vars, boss, runs, crashes>>

\* The labels at which the next statement is a semop.
SemopLabels == Labels \ {"prepare", "put_store", "put_advance", "take_clear", "take_advance",
                         "place_store", "place_advance", "fetch_clear", "fetch_advance",
                         "deliver"}

\* A mutant of SemopFails: the error is reported and the call repeated, no exit.
SemopFails_Retries(p) == /\ ipc = "removed"
                         /\ pc[p] \in SemopLabels
                         /\ life[p] = "running"
                         /\ UNCHANGED allVars

SemopFails(p) == /\ ipc = "removed"
                 /\ pc[p] \in SemopLabels
                 /\ SetLife(p, "running", "exited")
                 /\ UNCHANGED <<vars, boss, ipc, runs, crashes>>

RunCook(c) == /\ life[c] = "running"
              /\ CookLocal(c) \/ (ipc = "exists" /\ CookSemop(c))
              /\ UNCHANGED lifeVars

RunSupplier(s) == /\ life[s] = "running"
                  /\ SupplierLocal(s) \/ (ipc = "exists" /\ SupplierSemop(s))
                  /\ UNCHANGED lifeVars

\* A mutant of Restart: the values of an existing semaphore set are kept.
Restart_KeepsSem == RestartWith(IF ipc = "exists" THEN sem ELSE InitialSem)

\* setup_shm_segment and setup_semaphore reset everything, left over or new.
Restart == RestartWith(InitialSem)

SysVNext == \/ LifeStep
            \/ \E c \in Cooks : RunCook(c)
            \/ \E s \in Suppliers : RunSupplier(s)
            \/ \E p \in Procs : SemopFails(p)
            \/ SIGINT_handler \/ Crash \/ Restart \/ Done

SysVSpec == LifeInit /\ [][SysVNext]_allVars

\* The scheduler is fair to every process; signals, crashes and restarts are
\* the user's.
SysVFairness == /\ WF_allVars(LifeStep)
                /\ \A c \in Cooks : WF_allVars(RunCook(c) \/ SemopFails(c))
                /\ \A s \in Suppliers : WF_allVars(RunSupplier(s) \/ SemopFails(s))

SysVFairSpec == SysVSpec /\ SysVFairness

\* A SIGINT empties the pizzeria: every process, even one blocked in semop or one
\* forked after the signal, runs into the removed set and exits, and the parent's
\* waits return.  A crash counts as an end too.
ShutdownCompletes == (ipc = "removed") ~> (boss = "exited")
=============================================================================
