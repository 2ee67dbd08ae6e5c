------------------------------ MODULE SkillLinks ------------------------------
(***************************************************************************)
(* tutor install: the links of internal/links, made and removed by several *)
(* runs at once, with a person changing the same places by hand and runs   *)
(* that are killed.  A place is a path under the command or a skill        *)
(* directory; what is at it is told apart as far as planLink and           *)
(* planRetired tell it apart.                                              *)
(***************************************************************************)
EXTENDS Integers, Sequences

CONSTANTS
    Places,       \* sequence of all destinations in the order Plan visits them
    Retired,      \* those with a retired name
    Directories,  \* managed ones whose source is a directory (the skills)
    Runs,         \* processes that run tutor install
    MaxEdits,     \* bound: changes by hand
    MaxKills      \* bound: runs that are killed

Destinations == {Places[n] : n \in DOMAIN Places}
Managed == Destinations \ Retired

(* ours: a link that resolves to the source.  copy: a directory with the   *)
(* same entries as the source.  old: a link into the checkout, to the old  *)
(* launcher or to nothing, under a retired name.  link, work: somebody's   *)
(* own link; own file or directory.                                        *)
Contents == {"none", "ours", "copy", "old", "link", "work"}
Own == {"link", "work"}

CONSTANT Started  \* what may be at the destinations in the beginning
ASSUME PlacesAssumption ==
    /\ Places \in Seq(Destinations)
    /\ Retired \subseteq Destinations /\ Directories \subseteq Managed
    /\ Started \subseteq [Destinations -> Contents]
    /\ \A found \in Started, d \in Managed : found[d] # "old"
    /\ MaxEdits \in Nat /\ MaxKills \in Nat

VARIABLES
    place,            \* what is at a destination
    pc, pos, plan,    \* each run: its step, the index into Places, the actions planned
    only,             \* the run is a --check
    backup,           \* what a run has moved aside
    result,           \* how its last run ended
    edits, kills,     \* counters of the bounds
    touched, conflict,\* history: somebody's own came after the second look; one was refused since Begin
    lost              \* history: runs that deleted somebody's own, and whether it was touched

runVars == <<pc, pos, plan, only, backup, result>>
vars == <<place, runVars, edits, kills, touched, conflict, lost>>

----------------------------------------------------------------------------
(* Mutants: an identical copy will do as it is; a retired link may stay.   *)
CopyWillDo(c) == IF c = "none" THEN "create" ELSE IF c \in {"ours", "copy"} THEN "ok" ELSE "refuse"
KeepRetired(c) == IF c = "none" THEN "absent" ELSE "keep"

(* What planLink and planRetired make of what is there.                    *)
LinkOutcome(c) == IF c = "none" THEN "create"
                  ELSE IF c = "ours" THEN "ok"
                  ELSE IF c = "copy" THEN "replace" ELSE "refuse"
RetiredOutcome(c) == IF c = "none" THEN "absent" ELSE IF c = "old" THEN "remove" ELSE "keep"
Outcome(d) == IF d \in Retired THEN RetiredOutcome(place[d]) ELSE LinkOutcome(place[d])

Refused(d) == d \in Managed /\ LinkOutcome(place[d]) = "refuse"

At(r) == Places[pos[r]]

----------------------------------------------------------------------------
Init ==
    /\ place \in Started
    /\ pc = [r \in Runs |-> "idle"]
    /\ pos = [r \in Runs |-> 1]
    /\ plan = [r \in Runs |-> [d \in Destinations |-> "none"]]
    /\ only = [r \in Runs |-> FALSE]
    /\ backup = [r \in Runs |-> "none"]
    /\ result = [r \in Runs |-> "none"]
    /\ edits = 0 /\ kills = 0
    /\ touched = [r \in Runs |-> FALSE]
    /\ conflict = [r \in Runs |-> FALSE]
    /\ lost = {}

(* The run ends; what it still has in a backup directory stays there.      *)
Leave(r, how) ==
               /\ pc' = [pc EXCEPT ![r] = "idle"]
               /\ result' = [result EXCEPT ![r] = how]
               /\ pos' = [pos EXCEPT ![r] = 1]
               /\ plan' = [plan EXCEPT ![r] = [d \in Destinations |-> "none"]]
               /\ only' = [only EXCEPT ![r] = FALSE]
               /\ backup' = [backup EXCEPT ![r] = "none"]
End(r, how) == /\ Leave(r, how)
               /\ conflict' = [conflict EXCEPT ![r] = FALSE]
               /\ UNCHANGED touched

ToNext(r) == /\ pc' = [pc EXCEPT ![r] = "apply"]
             /\ pos' = [pos EXCEPT ![r] = @ + 1]
             /\ touched' = [touched EXCEPT ![r] = FALSE]
             /\ UNCHANGED <<plan, only, result, conflict>>

Step(r, from, to) == /\ pc[r] = from
                     /\ pc' = [pc EXCEPT ![r] = to]
                     /\ UNCHANGED <<pos, plan, only, result, touched, conflict>>

(* Somebody's own comes to d while runs that have looked at d again act.   *)
Holding(q, d) == pc[q] \in {"checked", "moved", "taken"} /\ At(q) = d
Disturbs(d, c) == touched' = [q \in Runs |-> touched[q] \/ (c \in Own /\ Holding(q, d))]

Counters == UNCHANGED <<edits, kills>>

(* os.Remove, os.RemoveAll and a rename onto what is there delete it.      *)
Deletes(r, c) == lost' = IF c \in Own THEN lost \cup {[run |-> r, touched |-> touched[r]]} ELSE lost

----------------------------------------------------------------------------
(* tutor install [--check]                                                 *)
Begin(r) == \E check \in BOOLEAN :
    /\ pc[r] = "idle"
    /\ pc' = [pc EXCEPT ![r] = "plan"]
    /\ only' = [only EXCEPT ![r] = check]
    /\ result' = [result EXCEPT ![r] = "none"]
    /\ conflict' = [conflict EXCEPT ![r] = \E d \in Managed : Refused(d)]
    /\ Counters /\ UNCHANGED <<place, pos, plan, backup, touched, lost>>

(* Mutant: a destination that is refused is left out.                      *)
PlanAround(r) ==
    /\ pc[r] = "plan" /\ pos[r] <= Len(Places)
    /\ plan' = [plan EXCEPT ![r][At(r)] = IF Outcome(At(r)) = "refuse" THEN "keep" ELSE Outcome(At(r))]
    /\ pos' = [pos EXCEPT ![r] = @ + 1]
    /\ Counters /\ UNCHANGED <<place, pc, only, backup, result, touched, conflict, lost>>

(* Plan: one destination after the other; one that is refused ends it.     *)
PlanNext(r) ==
    /\ pc[r] = "plan" /\ pos[r] <= Len(Places)
    /\ IF Outcome(At(r)) = "refuse" THEN End(r, "refused")
       ELSE /\ plan' = [plan EXCEPT ![r][At(r)] = Outcome(At(r))]
            /\ pos' = [pos EXCEPT ![r] = @ + 1]
            /\ UNCHANGED <<pc, only, backup, result, touched, conflict>>
    /\ Counters /\ UNCHANGED <<place, lost>>

Planned(r) ==
    /\ pc[r] = "plan" /\ pos[r] > Len(Places)
    /\ IF only[r]
       THEN End(r, IF \A d \in Destinations : plan[r][d] \in {"ok", "keep", "absent"}
                   THEN "nothing to do" ELSE "would change")
       ELSE /\ pc' = [pc EXCEPT ![r] = "apply"]
            /\ pos' = [pos EXCEPT ![r] = 1]
            /\ UNCHANGED <<plan, only, backup, result, touched, conflict>>
    /\ Counters /\ UNCHANGED <<place, lost>>

(* Apply: an action without a change is skipped, any other destination is  *)
(* looked at again first.                                                  *)
Skip(r) ==
    /\ pc[r] = "apply" /\ pos[r] <= Len(Places)
    /\ \/ plan[r][At(r)] \in {"keep", "absent"}
       \/ plan[r][At(r)] = "ok" /\ Outcome(At(r)) = "ok"
    /\ ToNext(r)
    /\ Counters /\ UNCHANGED <<place, backup, lost>>

(* Mutant: the plan is applied as it was made.                             *)
NoRecheck(r) ==
    /\ pc[r] = "apply" /\ pos[r] <= Len(Places)
    /\ plan[r][At(r)] \notin {"keep", "absent", "ok"}
    /\ pc' = [pc EXCEPT ![r] = "checked"]
    /\ touched' = [touched EXCEPT ![r] = FALSE]
    /\ Counters /\ UNCHANGED <<place, pos, plan, only, backup, result, conflict, lost>>

Recheck(r) ==
    /\ pc[r] = "apply" /\ pos[r] <= Len(Places)
    /\ plan[r][At(r)] \notin {"keep", "absent"}
    /\ IF Outcome(At(r)) # plan[r][At(r)] THEN End(r, "changed")
       ELSE /\ plan[r][At(r)] # "ok"
            /\ pc' = [pc EXCEPT ![r] = "checked"]
            /\ touched' = [touched EXCEPT ![r] = FALSE]
            /\ UNCHANGED <<pos, plan, only, backup, result, conflict>>
    /\ Counters /\ UNCHANGED <<place, lost>>

(* removeRetired, after its second look: os.Remove takes a link or a file, *)
(* and fails on a directory with entries.                                  *)
RemoveRetired(r) ==
    /\ pc[r] = "checked" /\ plan[r][At(r)] = "remove"
    /\ \/ /\ place[At(r)] # "none"
          /\ place' = [place EXCEPT ![At(r)] = "none"]
          /\ Deletes(r, place[At(r)])
          /\ ToNext(r) /\ UNCHANGED backup
       \/ /\ place[At(r)] \in {"none", "work"}
          /\ End(r, "error") /\ UNCHANGED <<place, lost>>
    /\ Counters

(* installLink, outcome create: os.Symlink replaces nothing                *)
CreateLink(r) ==
    /\ pc[r] = "checked" /\ plan[r][At(r)] = "create"
    /\ IF place[At(r)] # "none"
       THEN End(r, "error") /\ UNCHANGED place
       ELSE /\ place' = [place EXCEPT ![At(r)] = "ours"]
            /\ ToNext(r) /\ UNCHANGED backup
    /\ Counters /\ UNCHANGED lost

(* installLink, outcome replace identical copy: aside ...                  *)
MoveAside(r) ==
    /\ pc[r] = "checked" /\ plan[r][At(r)] = "replace"
    /\ IF place[At(r)] = "none"
       THEN End(r, "error") /\ UNCHANGED place
       ELSE /\ place' = [place EXCEPT ![At(r)] = "none"]
            /\ backup' = [backup EXCEPT ![r] = place[At(r)]]
            /\ pc' = [pc EXCEPT ![r] = "moved"]
            /\ conflict' = [q \in Runs |-> conflict[q] /\ place[At(r)] \notin Own]
            /\ UNCHANGED <<pos, plan, only, result, touched>>
    /\ Counters /\ UNCHANGED lost

(* ... the link in its place ...                                           *)
LinkMoved(r) ==
    /\ pc[r] = "moved"
    /\ IF place[At(r)] = "none"
       THEN /\ place' = [place EXCEPT ![At(r)] = "ours"]
            /\ Step(r, "moved", "linked")
       ELSE Step(r, "moved", "taken") /\ UNCHANGED place
    /\ Counters /\ UNCHANGED <<backup, lost>>

(* ... and the backup away, whatever was moved into it.                    *)
Discard(r) ==
    /\ pc[r] = "linked"
    /\ Deletes(r, backup[r])
    /\ backup' = [backup EXCEPT ![r] = "none"]
    /\ ToNext(r)
    /\ Counters /\ UNCHANGED place

(* Something else is there: the backup is renamed back.  A link or a file  *)
(* goes onto a link or a file, a directory onto nothing that has entries;  *)
(* what cannot be renamed back stays in the backup directory.              *)
Restore(r) ==
    /\ pc[r] = "taken"
    /\ LET here == place[At(r)]
           links == backup[r] \in {"ours", "link"} /\ here \in {"ours", "link"}
       IN \/ /\ here = "none" \/ (backup[r] # "copy" /\ here # "copy")
             /\ place' = [place EXCEPT ![At(r)] = backup[r]]
             /\ Deletes(r, here)
             /\ Disturbs(At(r), backup[r])
             /\ conflict' = [q \in Runs |-> conflict[q] /\ q # r /\ here \notin Own]
          \/ /\ here # "none" /\ ~links
             /\ conflict' = [conflict EXCEPT ![r] = FALSE]
             /\ UNCHANGED <<place, lost, touched>>
    /\ Leave(r, "error")
    /\ Counters

Finish(r) == /\ pc[r] = "apply" /\ pos[r] > Len(Places)
             /\ End(r, "installed")
             /\ Counters /\ UNCHANGED <<place, lost>>

(* The process is killed, or an error of the file system ends it.          *)
Kill(r) == /\ pc[r] # "idle" /\ kills < MaxKills
           /\ kills' = kills + 1
           /\ End(r, "killed")
           /\ UNCHANGED <<place, edits, lost>>

----------------------------------------------------------------------------
(* A person at a destination: removes what is there, or puts something of  *)
(* their own or a copy of the skill there; an edited copy is one's own.    *)
ByHand(d, c) ==
    /\ edits < MaxEdits /\ edits' = edits + 1
    /\ c # place[d]
    /\ \/ c = "none"
       \/ c \in Own
       \/ c = "copy" /\ d \in Directories
    /\ place' = [place EXCEPT ![d] = c]
    /\ Disturbs(d, c)
    /\ conflict' = [r \in Runs |-> FALSE]
    /\ UNCHANGED <<runVars, kills, lost>>

RunStep(r) == \/ PlanNext(r) \/ Planned(r) \/ Skip(r) \/ Recheck(r) \/ RemoveRetired(r)
              \/ CreateLink(r) \/ MoveAside(r) \/ LinkMoved(r) \/ Discard(r) \/ Restore(r)
              \/ Finish(r)

Next == \/ \E r \in Runs : Begin(r) \/ RunStep(r) \/ Kill(r)
        \/ \E d \in Destinations, c \in Contents : ByHand(d, c)

Spec == Init /\ [][Next]_vars

(* A run goes on by itself, and tutor install is run again and again.      *)
FairSpec == /\ Spec
            /\ \A r \in Runs : /\ WF_vars(RunStep(r))
                               /\ SF_vars(Begin(r) /\ ~only'[r])

----------------------------------------------------------------------------
TypeOK ==
    /\ place \in [Destinations -> Contents]
    /\ pc \in [Runs -> {"idle", "plan", "apply", "checked", "moved", "linked", "taken"}]
    /\ pos \in [Runs -> 1..(Len(Places) + 1)]
    /\ plan \in [Runs -> [Destinations -> {"none", "create", "ok", "replace", "absent", "remove", "keep"}]]
    /\ only \in [Runs -> BOOLEAN]
    /\ backup \in [Runs -> Contents]
    /\ result \in [Runs -> {"none", "refused", "changed", "error", "killed", "installed",
                            "nothing to do", "would change"}]
    /\ edits \in 0..MaxEdits /\ kills \in 0..MaxKills
    /\ touched \in [Runs -> BOOLEAN] /\ conflict \in [Runs -> BOOLEAN]
    /\ lost \subseteq [run : Runs, touched : BOOLEAN]

(* links.go:9-12: somebody's own link, file or directory is never deleted  *)
(* silently - except one that was put there between the second look and    *)
(* the rename or removal, which nothing guards.                            *)
OnlyTouchedIsLost == \A l \in lost : l.touched

(* A run that reports success has linked every destination and removed the *)
(* retired ones, also beside a second run - which may hold the place of a  *)
(* link it has just moved aside.  (Beside two others it is not so: one of  *)
(* them can rename a copy it has moved aside back over the link.)          *)
InstalledMeansLinked ==
    \A r \in Runs : result[r] = "installed" /\ edits = 0 /\ kills = 0 =>
        /\ \A d \in Managed : \/ place[d] = "ours"
                              \/ \E q \in Runs : pc[q] = "moved" /\ At(q) = d
        /\ \A d \in Retired \cap Destinations : place[d] # "old"

(* A run that began while a destination was to be refused changes nothing, *)
(* unless a person changes something first.                                *)
RefusalTouchesNothing ==
    [][\A r \in Runs : conflict[r] /\ (RemoveRetired(r) \/ CreateLink(r) \/ MoveAside(r)) => place' = place]_vars

Alone == \A r, q \in Runs : pc[r] # "idle" /\ pc[q] # "idle" => r = q
Settled == \/ /\ \A d \in Managed : place[d] = "ours"
              /\ \A d \in Destinations : place[d] # "old"
           \/ \E d \in Managed : Refused(d)

(* However runs raced and were killed, once they no longer overlap the     *)
(* links are in place in the end, or somebody's own is at a managed        *)
(* destination and the install refuses.  Two runs that overlap for ever    *)
(* can rename each other's backups back for ever.                          *)
Converges == <>[]Alone => <>[]Settled
=============================================================================
