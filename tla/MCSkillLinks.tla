---------------------------- MODULE MCSkillLinks ----------------------------
(***************************************************************************)
(* A retired name, the command and one skill; two runs.                    *)
(***************************************************************************)
EXTENDS SkillLinks

CONSTANTS retired, command, skill

MCPlaces == <<retired, command, skill>>
MCStarted == [{retired, command, skill} -> Contents] \cap
             {[d \in {retired, command, skill} |->
                 IF d = retired THEN x ELSE IF d = command THEN y ELSE z] :
              x \in {"none", "old", "work"}, y \in {"none", "ours", "link"},
              z \in {"none", "ours", "copy", "work"}}
=============================================================================
