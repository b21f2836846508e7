---------------------------- MODULE PizzeriaPosix ----------------------------
(***************************************************************************)
(* cw07/zad2: POSIX objects.  The SIGINT handler of the parent unlinks the *)
(* names only: processes that opened the semaphores keep working on them.  *)
(* A start opens each semaphore with O_CREAT and without O_EXCL, so a name *)
(* left by an earlier run brings that run's value back, while the arrays   *)
(* are always emptied.                                                     *)
(***************************************************************************)
EXTENDS PizzeriaLife

\* A mutant of SIGINT_handler: the names are never unlinked.
SIGINT_handler_NoUnlink ==
    /\ boss # "exited"
    /\ life' = KillChildren
    /\ UNCHANGED <<vars, boss, ipc, runs, crashes>>

\* sem_unlink of the five names (the two shared-memory names are passed to
\* sem_unlink as well, which leaves the segments: they are emptied on start).
SIGINT_handler ==
    /\ boss # "exited"
    /\ ipc' = "removed"
    /\ \/ ipc = "exists" /\ life' = life   \* sent to the parent alone
       \/ life' = KillChildren             \* typed at the terminal
    /\ UNCHANGED <<vars, boss, runs, crashes>>

RunCook(c) == life[c] = "running" /\ Cook(c) /\ UNCHANGED lifeVars

RunSupplier(s) == life[s] = "running" /\ Supplier(s) /\ UNCHANGED lifeVars

\* A mutant of setup_semaphores: the initial units are posted to what is there.
setup_semaphores_Posts ==
    IF ipc = "exists" THEN [s \in Semaphores |-> sem[s] + InitialSem[s]] ELSE InitialSem

\* sem_open gives the initial value to a new semaphore only.
setup_semaphores == IF ipc = "exists" THEN sem ELSE InitialSem

Restart == RestartWith(setup_semaphores)

PosixNext == \/ LifeStep
             \/ \E c \in Cooks : RunCook(c)
             \/ \E s \in Suppliers : RunSupplier(s)
             \/ SIGINT_handler \/ Crash \/ Restart \/ Done

PosixSpec == LifeInit /\ [][PosixNext]_allVars

PosixFairness == /\ WF_allVars(LifeStep)
                 /\ \A c \in Cooks : WF_allVars(RunCook(c))
                 /\ \A s \in Suppliers : WF_allVars(RunSupplier(s))

PosixFairSpec == PosixSpec /\ PosixFairness

\* zad2/main.c:134 "if table is empty you cannot take out any pizza": a supplier
\* that has passed TABLE_EMPTY finds a pizza on the table.
NothingFetchedFromEmptyTable ==
    \A s \in At(Suppliers, {"fetch_clear"}) : table.pizzas > 0

\* Whatever values earlier runs leave behind, units are only ever lost, never
\* gained: two processes never share a critical section (readme.md:44), and no
\* more capacity circulates than there are slots.
UnitsOnlyLost ==
    /\ sem["OVEN"] + Cardinality(At(Cooks, AtOven)) <= 1
    /\ sem["TABLE"] + Cardinality(At(Procs, AtTable)) <= 1
    /\ sem["OVEN_FULL"] + Cardinality(At(Cooks, HoldsOven)) <= OvenSize
    /\ sem["TABLE_FULL"] + sem["TABLE_EMPTY"] + Cardinality(At(Procs, HoldsTable)) <= TableSize

\* As long as every run was ended by SIGINT, which unlinks the names, the next one starts
\* with units that agree with the arrays.
CleanUnlessCrashed == crashes = 0 => CapacityAccounting /\ NoPhantomPizza

\* Unlinking the names does not disturb a kitchen at work: as long as a cook and a
\* supplier are inside and nobody types Ctrl-C or crashes, deliveries go on.
KitchenOutlivesItsNames ==
    []( (\E c \in Cooks : life[c] = "running") /\ (\E s \in Suppliers : life[s] = "running")
        => <>( \/ \E s \in Suppliers : pc[s] = "deliver"
               \/ \A p \in Procs : life[p] # "running"
               \/ crashes > 0 ) )
=============================================================================
