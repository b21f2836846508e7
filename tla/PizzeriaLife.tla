---------------------------- MODULE PizzeriaLife ----------------------------
(***************************************************************************)
(* What the two variants of the pizzeria share around the loops of         *)
(* Pizzeria: one parent (the "boss") forks every cook, then every          *)
(* supplier, each of which attaches to the IPC objects by name before it   *)
(* enters its loop; the parent then waits for all of them.  The objects    *)
(* outlive the processes, and the program may be run again.                *)
(***************************************************************************)
EXTENDS Pizzeria

CONSTANTS MaxRuns,    \* bound: how often the program is started
          MaxCrashes  \* bound: how often a run ends by a signal it does not handle

ASSUME LifeAssumption == MaxRuns \in Nat \ {0} /\ MaxCrashes \in Nat

VARIABLES life,    \* "unborn", "starting", "running" or "exited", per process
          boss,    \* "forking", "waiting" or "exited"
          ipc,     \* "exists" while the names or keys of the IPC objects resolve
          runs, crashes

lifeVars == <<life, boss, ipc, runs, crashes>>
allVars == <<vars, lifeVars>>

LifeInit == /\ Init
            /\ life = [p \in Procs |-> "unborn"]
            /\ boss = "forking"
            /\ ipc = "exists"
            /\ runs = 1
            /\ crashes = 0

SetLife(p, from, to) == life[p] = from /\ life' = [life EXCEPT ![p] = to]

\* The cooks are forked in the first loop, the suppliers in the second.
Fork(p) == /\ boss = "forking"
           /\ p \in Suppliers => \A c \in Cooks : life[c] # "unborn"
           /\ SetLife(p, "unborn", "starting")
           /\ UNCHANGED <<vars, boss, ipc, runs, crashes>>

StartWaiting == /\ boss = "forking"
                /\ \A p \in Procs : life[p] # "unborn"
                /\ boss' = "waiting"
                /\ UNCHANGED <<vars, life, ipc, runs, crashes>>

\* Looking up the objects fails, and the process exits, once they are gone.
Attach(p) == /\ SetLife(p, "starting", IF ipc = "exists" THEN "running" ELSE "exited")
             /\ UNCHANGED <<vars, boss, ipc, runs, crashes>>

\* wait() has returned once for every child.
BossExits == /\ boss = "waiting"
             /\ \A p \in Procs : life[p] = "exited"
             /\ boss' = "exited"
             /\ UNCHANGED <<vars, life, ipc, runs, crashes>>

\* A Ctrl-C reaches the children too, which have no handler after exec.
KillChildren == [p \in Procs |-> IF life[p] = "unborn" THEN "unborn" ELSE "exited"]

\* SIGHUP, SIGTERM or SIGKILL to the whole process group: only SIGINT has a
\* handler, so nothing is cleaned up.
Crash == /\ crashes < MaxCrashes
         /\ boss # "exited"
         /\ life' = [p \in Procs |-> "exited"]
         /\ boss' = "exited"
         /\ crashes' = crashes + 1
         /\ UNCHANGED <<vars, ipc, runs>>

\* A mutant of RestartWith: the arrays keep what the last run left in them.
RestartWith_KeepsArrays(newSem) ==
    /\ boss = "exited"
    /\ runs < MaxRuns
    /\ pc' = [p \in Procs |-> FirstLabel(p)]
    /\ type' = [p \in Procs |-> NoPizza]
    /\ sem' = newSem
    /\ ipc' = "exists"
    /\ life' = [p \in Procs |-> "unborn"]
    /\ boss' = "forking"
    /\ runs' = runs + 1
    /\ UNCHANGED <<oven, table, crashes>>

\* The program is started again; what happens to the semaphores is the variant's.
RestartWith(newSem) ==
    /\ boss = "exited"
    /\ runs < MaxRuns
    /\ pc' = [p \in Procs |-> FirstLabel(p)]
    /\ type' = [p \in Procs |-> NoPizza]
    /\ oven' = EmptyBuffer(OvenSize)
    /\ table' = EmptyBuffer(TableSize)
    /\ sem' = newSem
    /\ ipc' = "exists"
    /\ life' = [p \in Procs |-> "unborn"]
    /\ boss' = "forking"
    /\ runs' = runs + 1
    /\ UNCHANGED crashes

LifeStep == (\E p \in Procs : Fork(p) \/ Attach(p)) \/ StartWaiting \/ BossExits

\* A removed object is never used again, so a finished last run is no deadlock.
Done == boss = "exited" /\ runs = MaxRuns /\ UNCHANGED allVars
=============================================================================
