------------------------------ MODULE MCChats ------------------------------
(***************************************************************************)
(* Both chats for TLC, one or the other in a behaviour.                    *)
(***************************************************************************)
EXTENDS ChatQueues

CONSTANTS c1, c2, c3

VARIABLES program,      \* "System V" (zad1) or "POSIX" (zad2)
          zero          \* of the POSIX server

SysV == INSTANCE Chat
Posix == INSTANCE ChatPosix

everything == <<vars, zero, program>>

TwoClients == {c1, c2}
ThreeClients == {c1, c2, c3}
FirstTwo == [c \in Clients |-> IF c = c1 THEN 2 ELSE 0]
FirstOrders == [c \in Clients |-> IF c = c1 THEN 1 ELSE 0]
NoOrders == [c \in Clients |-> 0]

Begin == Posix!PosixInit /\ program \in {"System V", "POSIX"}
InSysV == program = "System V" /\ UNCHANGED <<program, zero>>
InPosix == program = "POSIX" /\ UNCHANGED program

Step == \/ SysV!Next /\ InSysV
        \/ Posix!PosixNext /\ InPosix

Chats == Begin /\ [][Step]_everything

\* The processes run; nobody has to type anything, or to press a key.
ServerTurn == \/ SysV!ServerStep /\ InSysV
              \/ Posix!ServerStep /\ InPosix
ParentTurn(c) == \/ SysV!Parent(c) /\ InSysV
                 \/ Posix!Parent(c) /\ InPosix
ChildReads(c) == \/ SysV!handle_msg_control(c) /\ InSysV
                 \/ Posix!list_action_client(c) /\ InPosix
ChildLeaves(c) == SysV!Leave(c, "child") /\ InSysV

FairChats == /\ Chats
             /\ WF_everything(ServerTurn)
             /\ \A c \in Clients : /\ SF_everything(ParentTurn(c))
                                   /\ WF_everything(ChildReads(c))
                                   /\ SF_everything(ChildLeaves(c))

\* What the POSIX server is asked for, it is asked for by clients in its table, until it
\* takes the STOP of a client that was interrupted while it joined.
OrdersOfMembers == program = "POSIX" => Posix!OrdersOfMembers

\* A POSIX client loses its slot only when it has asked for that, or when it has number 0
\* and the first such STOP is taken.
OwnSlotFreed == [][program = "POSIX" => Posix!OwnSlotFreed]_everything

\* A System V client too, says cw06/readme.md:39.
OnlyOwnSlotFreed == [][program = "System V" => SysV!StopFreesOwnSlot]_everything

\* The STOP of the POSIX server ends its clients.
ServerStopsClient == program = "POSIX" => Posix!ServerStopsClient
=============================================================================
