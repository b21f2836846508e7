------------------------- MODULE MCPizzeriaObjects -------------------------
(***************************************************************************)
(* The two life cycles of the pizzeria for TLC: a behaviour is one of the  *)
(* System V program or one of the POSIX program, over several runs.        *)
(***************************************************************************)
EXTENDS PizzeriaLife

CONSTANTS k1, k2, d1, margherita

VARIABLE objects        \* "System V" or "POSIX"

SysV == INSTANCE PizzeriaSysV
Posix == INSTANCE PizzeriaPosix

everything == <<allVars, objects>>

ObjectsInit == LifeInit /\ objects \in {"System V", "POSIX"}
SysVStep == objects = "System V" /\ SysV!SysVNext /\ UNCHANGED objects
PosixStep == objects = "POSIX" /\ Posix!PosixNext /\ UNCHANGED objects

ObjectsSpec == ObjectsInit /\ [][SysVStep \/ PosixStep]_everything

\* The fairness of the two modules: to the start, to each cook and to each supplier.
LifeTurn == LifeStep /\ UNCHANGED objects
CookTurn(c) == /\ \/ objects = "System V" /\ (SysV!RunCook(c) \/ SysV!SemopFails(c))
                  \/ objects = "POSIX" /\ Posix!RunCook(c)
               /\ UNCHANGED objects
SupplierTurn(s) == /\ \/ objects = "System V" /\ (SysV!RunSupplier(s) \/ SysV!SemopFails(s))
                      \/ objects = "POSIX" /\ Posix!RunSupplier(s)
                   /\ UNCHANGED objects

ObjectsFairSpec == /\ ObjectsSpec
                   /\ WF_everything(LifeTurn)
                   /\ \A c \in Cooks : WF_everything(CookTurn(c))
                   /\ \A s \in Suppliers : WF_everything(SupplierTurn(s))

\* System V: through SIGINT, crashes and restarts no pizza is overwritten or taken from a
\* free slot, and no unit of capacity is lost.
SysVSafe == objects = "System V" => NoOverwrite /\ NoPhantomPizza /\ CapacityAccounting

\* System V: SIGINT empties the pizzeria.
ShutdownCompletes == objects = "System V" /\ ipc = "removed" ~> boss = "exited"

\* POSIX: whatever earlier runs left, units are lost and never gained; and as long as no
\* run crashed the next one starts clean.
PosixSafe == objects = "POSIX" => Posix!UnitsOnlyLost /\ Posix!CleanUnlessCrashed

\* POSIX: unlinking the names does not disturb a kitchen at work.
KitchenOutlivesItsNames == objects = "POSIX" => Posix!KitchenOutlivesItsNames

\* POSIX, zad2/main.c:134: a supplier that has passed TABLE_EMPTY finds a pizza.
NothingFetchedFromEmptyTable == objects = "POSIX" => Posix!NothingFetchedFromEmptyTable
=============================================================================
