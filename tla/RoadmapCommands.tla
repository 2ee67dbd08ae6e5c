--------------------------- MODULE RoadmapCommands ---------------------------
(***************************************************************************)
(* A session of `tutor roadmap` commands on the tables: any command, with  *)
(* any arguments, after any other.  command is a history variable: the     *)
(* command line of the last step.                                          *)
(***************************************************************************)
EXTENDS RoadmapTables

VARIABLE command

vars == <<tables, command>>

Start == Init /\ command = [name |-> "none"]

Next == \E c \in Mutations \cup Imports : Perform(c) /\ command' = c

Spec == Start /\ [][Next]_vars

-----------------------------------------------------------------------------
(* The tables implement the outline: each command does to the outline what *)
(* the outline's command of that name does with the same arguments.  It    *)
(* changes the one entry it names and leaves the order, the texts and the  *)
(* follow-ups of every other topic alone, through renumbering, cascades    *)
(* and reused row ids.                                                     *)
Roadmap == INSTANCE Outline WITH outline <- Outlined

ImplementsOutline == Roadmap!Init /\ [][Roadmap!Perform(command')]_vars
==============================================================================
