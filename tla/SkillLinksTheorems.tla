-------------------------- MODULE SkillLinksTheorems --------------------------
(***************************************************************************)
(* What tutor install may delete, for any places, any number of runs at    *)
(* once and any number of changes by hand.  A run that has looked again at *)
(* a destination and was not overtaken there holds nobody's own: neither   *)
(* at the destination nor in its backup directory.  A run that refuses     *)
(* changes nothing, and of two runs one that reports success has linked    *)
(* every destination.                                                      *)
(***************************************************************************)
EXTENDS SkillLinks, SequenceTheorems, TLAPS

(* A run that acts on a destination has not passed the last one.           *)
AtAPlace ==
    \A r \in Runs : pc[r] \in {"checked", "moved", "linked", "taken"} => pos[r] <= Len(Places)

(* Nobody's own is at a destination that was looked at again ...           *)
SeenIsNotOwn ==
    \A r \in Runs : pc[r] \in {"checked", "moved", "taken"} /\ ~touched[r] => place[At(r)] \notin Own

(* ... nor among what was moved aside from it.                             *)
BackupIsNotOwn ==
    \A r \in Runs : pc[r] \in {"moved", "linked", "taken"} /\ ~touched[r] => backup[r] \notin Own

(* The types of what the argument is about.                                *)
Typed ==
    /\ place \in [Destinations -> Contents]
    /\ pc \in [Runs -> {"idle", "plan", "apply", "checked", "moved", "linked", "taken"}]
    /\ pos \in [Runs -> 1..(Len(Places) + 1)]
    /\ plan \in [Runs -> [Destinations -> {"none", "create", "ok", "replace", "absent", "remove", "keep"}]]
    /\ backup \in [Runs -> Contents]
    /\ touched \in [Runs -> BOOLEAN]

IInv == Typed /\ AtAPlace /\ SeenIsNotOwn /\ BackupIsNotOwn /\ OnlyTouchedIsLost

----------------------------------------------------------------------------
(* A run's position is compared with a number.                             *)
LEMMA LengthIsNat == Len(Places) \in Nat /\ Places \in Seq(Destinations)
  BY PlacesAssumption, LenProperties

(* A position names a destination.                                         *)
LEMMA PositionInPlaces ==
    ASSUME Typed, NEW r \in Runs, pos[r] <= Len(Places)
    PROVE  At(r) \in Destinations
<1>1. pos[r] \in 1..Len(Places)
  BY LengthIsNat DEF Typed
<1> QED
  BY <1>1, LengthIsNat, ElementOfSeq DEF At

(* Whatever is there, planning it gives an outcome; somebody's own is      *)
(* refused under a managed name and kept under a retired one.              *)
LEMMA OutcomeOfContents ==
    ASSUME NEW d \in Destinations, place[d] \in Contents
    PROVE  /\ Outcome(d) \in {"create", "ok", "replace", "absent", "remove", "keep", "refuse"}
           /\ place[d] \in Own => Outcome(d) \in {"refuse", "keep"}
  BY DEF Outcome, LinkOutcome, RetiredOutcome, Contents, Own

(* A step that deletes somebody's own does so after it was touched.        *)
LEMMA DeletesIsRecorded ==
    ASSUME OnlyTouchedIsLost, NEW r \in Runs, NEW c, Deletes(r, c), c \in Own => touched[r]
    PROVE  OnlyTouchedIsLost'
<1>1. CASE c \in Own
  BY <1>1 DEF Deletes, OnlyTouchedIsLost
<1>2. CASE c \notin Own
  BY <1>2 DEF Deletes, OnlyTouchedIsLost
<1> QED
  BY <1>1, <1>2

(* No run has looked at anything at first.                                 *)
LEMMA InitHolds == Init => IInv
  BY LengthIsNat, PlacesAssumption DEF Init, IInv, Typed, AtAPlace, SeenIsNotOwn, BackupIsNotOwn,
     OnlyTouchedIsLost, Contents

----------------------------------------------------------------------------
(* A run that ends, whatever the reason, and nothing else.                 *)
LEMMA EndKeeps ==
    ASSUME IInv, NEW r \in Runs, NEW how, End(r, how), UNCHANGED <<place, lost>>
    PROVE  IInv'
<1> USE DEF IInv, End, Leave
<1>1. Typed'
  BY LengthIsNat DEF Typed, Contents
<1>2. AtAPlace'
  BY DEF AtAPlace, Typed
<1>3. SeenIsNotOwn'
  BY DEF SeenIsNotOwn, At, Typed
<1>4. BackupIsNotOwn'
  BY DEF BackupIsNotOwn, Typed
<1>5. OnlyTouchedIsLost'
  BY DEF OnlyTouchedIsLost
<1> QED
  BY <1>1, <1>2, <1>3, <1>4, <1>5

(* A run that is done with a destination, at which it may have left        *)
(* something that is nobody's own.                                         *)
LEMMA ToNextKeeps ==
    ASSUME IInv, NEW r \in Runs, pos[r] <= Len(Places), ToNext(r), OnlyTouchedIsLost',
           NEW c \in Contents \ Own,
           place' = place \/ place' = [place EXCEPT ![At(r)] = c],
           backup' = backup \/ backup' = [backup EXCEPT ![r] = "none"]
    PROVE  IInv'
<1> USE DEF IInv, ToNext
<1>1. Typed'
  <2>1. At(r) \in Destinations
    BY PositionInPlaces
  <2>2. place' \in [Destinations -> Contents]
    BY <2>1 DEF Typed
  <2>3. backup' \in [Runs -> Contents]
    BY DEF Typed, Contents
  <2>4. pos' \in [Runs -> 1..(Len(Places) + 1)]
    BY LengthIsNat DEF Typed
  <2> QED
    BY <2>2, <2>3, <2>4 DEF Typed
<1>2. AtAPlace'
  BY DEF AtAPlace, Typed
<1>3. SeenIsNotOwn'
  <2> SUFFICES ASSUME NEW q \in Runs, pc'[q] \in {"checked", "moved", "taken"}, ~touched'[q]
               PROVE  place'[At(q)'] \notin Own
    BY DEF SeenIsNotOwn
  <2>1. q # r
    BY DEF Typed
  <2>2. pc[q] \in {"checked", "moved", "taken"} /\ ~touched[q] /\ At(q)' = At(q)
    BY <2>1 DEF Typed, At
  <2>3. place[At(q)] \notin Own /\ At(q) \in Destinations
    BY <2>2, PositionInPlaces DEF SeenIsNotOwn, AtAPlace
  <2> QED
    BY <2>2, <2>3 DEF Typed
<1>4. BackupIsNotOwn'
  BY DEF BackupIsNotOwn, Typed
<1> QED
  BY <1>1, <1>2, <1>3, <1>4

(* A run that goes on at the same destination, where it may have left      *)
(* something that is nobody's own.                                         *)
LEMMA SamePlaceKeeps ==
    ASSUME IInv, NEW r \in Runs, NEW to \in {"moved", "linked", "taken"}, NEW c \in Contents \ Own,
           pc[r] \in {"checked", "moved"},
           pc' = [pc EXCEPT ![r] = to],
           place' = place \/ place' = [place EXCEPT ![At(r)] = c],
           \/ pc[r] = "checked" /\ backup' = [backup EXCEPT ![r] = place[At(r)]]
           \/ pc[r] = "moved" /\ backup' = backup,
           UNCHANGED <<pos, plan, touched, lost>>
    PROVE  IInv'
<1> USE DEF IInv
<1>0. pos[r] <= Len(Places) /\ At(r) \in Destinations /\ At(r)' = At(r)
  BY PositionInPlaces DEF AtAPlace, At
<1>1. Typed'
  BY <1>0 DEF Typed, Contents
<1>2. AtAPlace'
  BY <1>0 DEF AtAPlace, Typed
<1>3. SeenIsNotOwn'
  <2> SUFFICES ASSUME NEW q \in Runs, pc'[q] \in {"checked", "moved", "taken"}, ~touched'[q]
               PROVE  place'[At(q)'] \notin Own
    BY DEF SeenIsNotOwn
  <2>1. pc[q] \in {"checked", "moved", "taken"} /\ ~touched[q] /\ At(q)' = At(q)
    BY DEF Typed, At
  <2>2. place[At(q)] \notin Own /\ At(q) \in Destinations
    BY <2>1, PositionInPlaces DEF SeenIsNotOwn, AtAPlace
  <2> QED
    BY <2>1, <2>2, <1>0 DEF Typed
<1>4. BackupIsNotOwn'
  <2> SUFFICES ASSUME NEW q \in Runs, pc'[q] \in {"moved", "linked", "taken"}, ~touched'[q]
               PROVE  backup'[q] \notin Own
    BY DEF BackupIsNotOwn
  <2>1. CASE q = r
    BY <2>1 DEF SeenIsNotOwn, BackupIsNotOwn, Typed
  <2>2. CASE q # r
    BY <2>2 DEF BackupIsNotOwn, Typed
  <2> QED
    BY <2>1, <2>2
<1>5. OnlyTouchedIsLost'
  BY DEF OnlyTouchedIsLost
<1> QED
  BY <1>1, <1>2, <1>3, <1>4, <1>5

(* Whatever comes to a destination, the runs that act there are touched if *)
(* it is somebody's own.                                                   *)
LEMMA DisturbsKeepsSeen ==
    ASSUME IInv, NEW d \in Destinations, NEW c \in Contents, Disturbs(d, c),
           place' = [place EXCEPT ![d] = c],
           \A q \in Runs : (pc'[q] = pc[q] /\ pos'[q] = pos[q] /\ backup'[q] = backup[q]) \/ pc'[q] = "idle"
    PROVE  SeenIsNotOwn' /\ BackupIsNotOwn'
<1> USE DEF IInv
<1>1. \A q \in Runs : touched'[q] = (touched[q] \/ (c \in Own /\ Holding(q, d)))
  BY DEF Disturbs
<1>2. SeenIsNotOwn'
  <2> SUFFICES ASSUME NEW q \in Runs, pc'[q] \in {"checked", "moved", "taken"}, ~touched'[q]
               PROVE  place'[At(q)'] \notin Own
    BY DEF SeenIsNotOwn
  <2>1. pc[q] \in {"checked", "moved", "taken"} /\ ~touched[q] /\ At(q)' = At(q)
    BY <1>1 DEF At
  <2>2. place[At(q)] \notin Own /\ At(q) \in Destinations
    BY <2>1, PositionInPlaces DEF SeenIsNotOwn, AtAPlace
  <2>3. At(q) = d => c \notin Own
    BY <1>1, <2>1 DEF Holding
  <2> QED
    BY <2>1, <2>2, <2>3 DEF Typed
<1>3. BackupIsNotOwn'
  BY <1>1 DEF BackupIsNotOwn
<1> QED
  BY <1>2, <1>3

----------------------------------------------------------------------------
(* A run that begins has nothing planned and nothing moved aside.          *)
LEMMA BeginStep ==
    ASSUME IInv, NEW r \in Runs, Begin(r)
    PROVE  IInv'
<1>1. /\ pc[r] = "idle" /\ pc' = [pc EXCEPT ![r] = "plan"]
      /\ UNCHANGED <<place, pos, plan, backup, touched, lost>>
  BY DEF Begin
<1> QED
  BY <1>1 DEF IInv, Typed, AtAPlace, SeenIsNotOwn, BackupIsNotOwn, OnlyTouchedIsLost, At

(* Planning only looks.                                                    *)
LEMMA PlanNextStep ==
    ASSUME IInv, NEW r \in Runs, PlanNext(r)
    PROVE  IInv'
<1>1. CASE Outcome(At(r)) = "refuse"
  BY <1>1, EndKeeps DEF PlanNext
<1>2. CASE Outcome(At(r)) # "refuse"
  <2>1. At(r) \in Destinations
    BY PositionInPlaces DEF PlanNext, IInv
  <2>2. Outcome(At(r)) \in {"create", "ok", "replace", "absent", "remove", "keep"}
    BY <1>2, <2>1, OutcomeOfContents DEF IInv, Typed
  <2>3. /\ pc[r] = "plan" /\ pos[r] <= Len(Places)
        /\ plan' = [plan EXCEPT ![r] = [plan[r] EXCEPT ![At(r)] = Outcome(At(r))]]
        /\ pos' = [pos EXCEPT ![r] = pos[r] + 1]
        /\ UNCHANGED <<place, pc, backup, touched, lost>>
    BY <1>2 DEF PlanNext
  <2>4. Typed'
    <3>1. plan[r] \in [Destinations -> {"none", "create", "ok", "replace", "absent", "remove", "keep"}]
      BY DEF IInv, Typed
    <3>2. [plan[r] EXCEPT ![At(r)] = Outcome(At(r))]
             \in [Destinations -> {"none", "create", "ok", "replace", "absent", "remove", "keep"}]
      BY <3>1, <2>1, <2>2
    <3>3. plan' \in [Runs -> [Destinations -> {"none", "create", "ok", "replace", "absent", "remove", "keep"}]]
      BY <2>3, <3>2 DEF IInv, Typed
    <3>4. pos' \in [Runs -> 1..(Len(Places) + 1)]
      BY <2>3, LengthIsNat DEF IInv, Typed
    <3> QED
      BY <2>3, <3>3, <3>4 DEF IInv, Typed
  <2> QED
    BY <2>3, <2>4 DEF IInv, Typed, AtAPlace, SeenIsNotOwn, BackupIsNotOwn, OnlyTouchedIsLost, At
<1> QED
  BY <1>1, <1>2

(* The end of the plan sends the run back to its first destination.        *)
LEMMA PlannedStep ==
    ASSUME IInv, NEW r \in Runs, Planned(r)
    PROVE  IInv'
<1>1. CASE only[r]
  BY <1>1, EndKeeps DEF Planned
<1>2. CASE ~only[r]
  <2>1. /\ pc' = [pc EXCEPT ![r] = "apply"] /\ pos' = [pos EXCEPT ![r] = 1]
        /\ pc[r] = "plan" /\ UNCHANGED <<place, plan, backup, touched, lost>>
    BY <1>2 DEF Planned
  <2> QED
    BY <2>1, LengthIsNat DEF IInv, Typed, AtAPlace, SeenIsNotOwn, BackupIsNotOwn, OnlyTouchedIsLost, At
<1> QED
  BY <1>1, <1>2

(* A destination without an action is passed by.                           *)
LEMMA SkipStep ==
    ASSUME IInv, NEW r \in Runs, Skip(r)
    PROVE  IInv'
<1>1. /\ pos[r] <= Len(Places) /\ ToNext(r) /\ OnlyTouchedIsLost' /\ place' = place /\ backup' = backup
  BY DEF Skip, IInv, OnlyTouchedIsLost
<1>2. "none" \in Contents \ Own
  BY DEF Contents, Own
<1> QED
  BY <1>1, <1>2, ToNextKeeps

(* The second look finds what the plan found, which is nobody's own.       *)
LEMMA RecheckStep ==
    ASSUME IInv, NEW r \in Runs, Recheck(r)
    PROVE  IInv'
<1>1. CASE Outcome(At(r)) # plan[r][At(r)]
  BY <1>1, EndKeeps DEF Recheck
<1>2. CASE Outcome(At(r)) = plan[r][At(r)]
  <2>1. pos[r] <= Len(Places) /\ At(r) \in Destinations
    BY PositionInPlaces DEF Recheck, IInv
  <2>2. plan[r][At(r)] \in {"none", "create", "ok", "replace", "absent", "remove", "keep"}
    BY <2>1 DEF IInv, Typed
  <2>3. place[At(r)] \notin Own
    BY <1>2, <2>1, <2>2, OutcomeOfContents DEF Recheck, IInv, Typed
  <2>4. /\ pc' = [pc EXCEPT ![r] = "checked"] /\ touched' = [touched EXCEPT ![r] = FALSE]
        /\ UNCHANGED <<place, pos, plan, backup, lost>>
    BY <1>2 DEF Recheck
  <2>5. Typed' /\ AtAPlace' /\ OnlyTouchedIsLost'
    BY <2>1, <2>4 DEF IInv, Typed, AtAPlace, OnlyTouchedIsLost
  <2>6. SeenIsNotOwn' /\ BackupIsNotOwn'
    BY <2>3, <2>4 DEF IInv, Typed, SeenIsNotOwn, BackupIsNotOwn, At, Recheck
  <2> QED
    BY <2>5, <2>6 DEF IInv
<1> QED
  BY <1>1, <1>2

(* Removal deletes what was looked at twice, or what came in between.      *)
LEMMA RemoveRetiredStep ==
    ASSUME IInv, NEW r \in Runs, RemoveRetired(r)
    PROVE  IInv'
<1>1. CASE End(r, "error") /\ UNCHANGED <<place, lost>>
  BY <1>1, EndKeeps
<1>2. CASE /\ place' = [place EXCEPT ![At(r)] = "none"]
           /\ Deletes(r, place[At(r)]) /\ ToNext(r) /\ UNCHANGED backup
  <2>1. pc[r] = "checked" /\ pos[r] <= Len(Places)
    BY DEF RemoveRetired, IInv, AtAPlace
  <2>2. OnlyTouchedIsLost'
    BY <1>2, <2>1, DeletesIsRecorded DEF IInv, SeenIsNotOwn
  <2>3. "none" \in Contents \ Own
    BY DEF Contents, Own
  <2> QED
    BY <1>2, <2>1, <2>2, <2>3, ToNextKeeps
<1> QED
  BY <1>1, <1>2 DEF RemoveRetired

(* A new link replaces nothing.                                            *)
LEMMA CreateLinkStep ==
    ASSUME IInv, NEW r \in Runs, CreateLink(r)
    PROVE  IInv'
<1>1. CASE place[At(r)] # "none"
  BY <1>1, EndKeeps DEF CreateLink
<1>2. CASE place[At(r)] = "none"
  <2>1. /\ pos[r] <= Len(Places) /\ ToNext(r) /\ OnlyTouchedIsLost'
        /\ place' = [place EXCEPT ![At(r)] = "ours"] /\ backup' = backup
    BY <1>2 DEF CreateLink, IInv, AtAPlace, OnlyTouchedIsLost
  <2>2. "ours" \in Contents \ Own
    BY DEF Contents, Own
  <2> QED
    BY <2>1, <2>2, ToNextKeeps
<1> QED
  BY <1>1, <1>2

(* What the rename catches is what was looked at twice, or came in between.*)
LEMMA MoveAsideStep ==
    ASSUME IInv, NEW r \in Runs, MoveAside(r)
    PROVE  IInv'
<1>1. CASE place[At(r)] = "none"
  BY <1>1, EndKeeps DEF MoveAside
<1>2. CASE place[At(r)] # "none"
  <2>1. /\ pc[r] = "checked" /\ pc' = [pc EXCEPT ![r] = "moved"]
        /\ place' = [place EXCEPT ![At(r)] = "none"]
        /\ backup' = [backup EXCEPT ![r] = place[At(r)]]
        /\ UNCHANGED <<pos, plan, touched, lost>>
    BY <1>2 DEF MoveAside
  <2>2. "none" \in Contents \ Own
    BY DEF Contents, Own
  <2> QED
    BY <2>1, <2>2, SamePlaceKeeps
<1> QED
  BY <1>1, <1>2

(* The link goes to the place the backup was moved from.                   *)
LEMMA LinkMovedStep ==
    ASSUME IInv, NEW r \in Runs, LinkMoved(r)
    PROVE  IInv'
<1>1. "ours" \in Contents \ Own
  BY DEF Contents, Own
<1>2. CASE place[At(r)] = "none"
  <2>1. /\ pc[r] = "moved" /\ pc' = [pc EXCEPT ![r] = "linked"]
        /\ place' = [place EXCEPT ![At(r)] = "ours"]
        /\ UNCHANGED <<pos, plan, backup, touched, lost>>
    BY <1>2 DEF LinkMoved, Step
  <2> QED
    BY <1>1, <2>1, SamePlaceKeeps
<1>3. CASE place[At(r)] # "none"
  <2>1. /\ pc[r] = "moved" /\ pc' = [pc EXCEPT ![r] = "taken"]
        /\ UNCHANGED <<place, pos, plan, backup, touched, lost>>
    BY <1>3 DEF LinkMoved, Step
  <2> QED
    BY <1>1, <2>1, SamePlaceKeeps
<1> QED
  BY <1>2, <1>3

(* What is discarded is what was moved aside.                              *)
LEMMA DiscardStep ==
    ASSUME IInv, NEW r \in Runs, Discard(r)
    PROVE  IInv'
<1>1. pc[r] = "linked" /\ pos[r] <= Len(Places) /\ Deletes(r, backup[r]) /\ ToNext(r)
      /\ place' = place /\ backup' = [backup EXCEPT ![r] = "none"]
  BY DEF Discard, IInv, AtAPlace
<1>2. OnlyTouchedIsLost'
  BY <1>1, DeletesIsRecorded DEF IInv, BackupIsNotOwn
<1>3. "none" \in Contents \ Own
  BY DEF Contents, Own
<1> QED
  BY <1>1, <1>2, <1>3, ToNextKeeps

(* What a rename back replaces came after the second look; what it puts    *)
(* there is noticed by the other runs at that destination.                 *)
LEMMA RestoreStep ==
    ASSUME IInv, NEW r \in Runs, Restore(r)
    PROVE  IInv'
<1>1. /\ pc[r] = "taken" /\ pc' = [pc EXCEPT ![r] = "idle"] /\ pos' = [pos EXCEPT ![r] = 1]
      /\ plan' = [plan EXCEPT ![r] = [d \in Destinations |-> "none"]]
      /\ backup' = [backup EXCEPT ![r] = "none"]
  BY DEF Restore, Leave
<1>2. At(r) \in Destinations /\ backup[r] \in Contents
  BY <1>1, PositionInPlaces DEF IInv, AtAPlace, Typed
<1>3. pc' \in [Runs -> {"idle", "plan", "apply", "checked", "moved", "linked", "taken"}]
      /\ pos' \in [Runs -> 1..(Len(Places) + 1)]
      /\ plan' \in [Runs -> [Destinations -> {"none", "create", "ok", "replace", "absent", "remove", "keep"}]]
      /\ backup' \in [Runs -> Contents]
  BY <1>1, LengthIsNat DEF IInv, Typed, Contents
<1>4. AtAPlace'
  BY <1>1 DEF IInv, Typed, AtAPlace
<1>5. CASE UNCHANGED <<place, lost, touched>>
  BY <1>1, <1>3, <1>4, <1>5 DEF IInv, Typed, SeenIsNotOwn, BackupIsNotOwn, OnlyTouchedIsLost, At
<1>6. CASE /\ place' = [place EXCEPT ![At(r)] = backup[r]]
           /\ Deletes(r, place[At(r)]) /\ Disturbs(At(r), backup[r])
  <2>1. OnlyTouchedIsLost'
    BY <1>1, <1>6, DeletesIsRecorded DEF IInv, SeenIsNotOwn
  <2>2. \A q \in Runs : (pc'[q] = pc[q] /\ pos'[q] = pos[q] /\ backup'[q] = backup[q]) \/ pc'[q] = "idle"
    BY <1>1 DEF IInv, Typed
  <2>3. SeenIsNotOwn' /\ BackupIsNotOwn'
    BY <1>2, <1>6, <2>2, DisturbsKeepsSeen
  <2>4. place' \in [Destinations -> Contents]
    BY <1>2, <1>6 DEF IInv, Typed
  <2>5. touched' \in [Runs -> BOOLEAN]
    BY <1>6 DEF Disturbs
  <2> QED
    BY <1>3, <1>4, <2>1, <2>3, <2>4, <2>5 DEF IInv, Typed
<1> QED
  BY <1>5, <1>6 DEF Restore

(* A person's change marks every run that had looked there.                *)
LEMMA ByHandStep ==
    ASSUME IInv, NEW d \in Destinations, NEW c \in Contents, ByHand(d, c)
    PROVE  IInv'
<1>1. place' = [place EXCEPT ![d] = c] /\ Disturbs(d, c) /\ UNCHANGED <<pc, pos, plan, backup, lost>>
  BY DEF ByHand, runVars
<1>2. SeenIsNotOwn' /\ BackupIsNotOwn'
  BY <1>1, DisturbsKeepsSeen
<1>3. place' \in [Destinations -> Contents] /\ touched' \in [Runs -> BOOLEAN]
  BY <1>1 DEF IInv, Typed, Disturbs
<1> QED
  BY <1>1, <1>2, <1>3 DEF IInv, Typed, AtAPlace, OnlyTouchedIsLost

(* The invariant is inductive.                                             *)
LEMMA NextKeeps ==
    ASSUME IInv, [Next]_vars
    PROVE  IInv'
<1>1. ASSUME NEW r \in Runs, Finish(r) \/ Kill(r)
      PROVE  IInv'
  BY <1>1, EndKeeps DEF Finish, Kill
<1>2. ASSUME NEW r \in Runs, RunStep(r)
      PROVE  IInv'
  BY <1>1, <1>2, PlanNextStep, PlannedStep, SkipStep, RecheckStep, RemoveRetiredStep, CreateLinkStep,
     MoveAsideStep, LinkMovedStep, DiscardStep, RestoreStep DEF RunStep
<1>3. CASE Next
  BY <1>1, <1>2, <1>3, BeginStep, ByHandStep DEF Next
<1>4. CASE UNCHANGED vars
  BY <1>4 DEF IInv, Typed, AtAPlace, SeenIsNotOwn, BackupIsNotOwn, OnlyTouchedIsLost, At, vars, runVars
<1> QED
  BY <1>3, <1>4

(* links.go:9-12, for any number of destinations, runs and changes: what   *)
(* tutor install deletes of somebody's own came to the place between its   *)
(* second look and its rename or removal.                                  *)
THEOREM InstallKeepsOwn == Spec => []OnlyTouchedIsLost
<1>1. IInv => OnlyTouchedIsLost
  BY DEF IInv
<1> QED
  BY InitHolds, NextKeeps, <1>1, PTL DEF Spec

----------------------------------------------------------------------------
(* A run that begins while a managed destination is to be refused.  What   *)
(* it plans fits the destination ...                                       *)
PlanFits ==
    \A r \in Runs, d \in Destinations : /\ plan[r][d] = "remove" => d \in Retired
                                        /\ plan[r][d] = "replace" => d \notin Retired

(* ... links of earlier releases are under retired names only ...          *)
NothingOld == (\A d \in Managed : place[d] # "old") /\ (\A r \in Runs : backup[r] # "old")

(* ... a run starts with the first destination, and is never past the one  *)
(* that it has to refuse.                                                  *)
StartsAtFirst == \A r \in Runs : pc[r] = "idle" => pos[r] = 1
RefusalAhead ==
    /\ conflict \in [Runs -> BOOLEAN]
    /\ \A r \in Runs : conflict[r] =>
          /\ pc[r] = "plan"
          /\ \E n \in DOMAIN Places : pos[r] <= n /\ Refused(Places[n])

CInv == IInv /\ PlanFits /\ NothingOld /\ StartsAtFirst /\ RefusalAhead

(* A step of one run leaves the others what they have to refuse, unless    *)
(* somebody's own goes and conflict with it.                               *)
LEMMA RefusalKept ==
    ASSUME CInv, NEW r \in Runs, conflict' \in [Runs -> BOOLEAN], ~conflict'[r],
           \A q \in Runs \ {r} : /\ pc'[q] = pc[q] /\ pos'[q] = pos[q]
                                 /\ conflict'[q] => conflict[q],
           \A q \in Runs, d \in Managed : conflict'[q] /\ Refused(d) => Refused(d)'
    PROVE  RefusalAhead'
<1> SUFFICES ASSUME NEW q \in Runs, conflict'[q]
             PROVE  /\ pc'[q] = "plan"
                    /\ \E n \in DOMAIN Places : pos'[q] <= n /\ Refused(Places[n])'
  BY DEF RefusalAhead
<1>1. conflict[q] /\ pc'[q] = pc[q] /\ pos'[q] = pos[q]
  OBVIOUS
<1>2. pc[q] = "plan" /\ \E n \in DOMAIN Places : pos[q] <= n /\ Refused(Places[n])
  BY <1>1 DEF CInv, RefusalAhead
<1>3. PICK n \in DOMAIN Places : pos[q] <= n /\ Refused(Places[n])
  BY <1>2
<1>4. Refused(Places[n])'
  BY <1>3 DEF Refused
<1> QED
  BY <1>1, <1>2, <1>3, <1>4

(* A run that ends has nothing planned and refuses nothing any more.       *)
LEMMA EndKeepsRefusals ==
    ASSUME CInv, NEW r \in Runs, NEW how, End(r, how), UNCHANGED <<place, lost>>
    PROVE  CInv'
<1>1. IInv'
  BY EndKeeps DEF CInv
<1>2. PlanFits' /\ NothingOld' /\ StartsAtFirst'
  BY DEF CInv, IInv, Typed, PlanFits, NothingOld, StartsAtFirst, End, Leave
<1>3. RefusalAhead'
  <2>1. /\ conflict' \in [Runs -> BOOLEAN] /\ ~conflict'[r]
        /\ \A q \in Runs \ {r} : pc'[q] = pc[q] /\ pos'[q] = pos[q] /\ conflict'[q] = conflict[q]
    BY DEF CInv, IInv, Typed, RefusalAhead, End, Leave
  <2>2. \A d \in Managed : Refused(d) => Refused(d)'
    BY DEF Refused
  <2> QED
    BY <2>1, <2>2, RefusalKept
<1> QED
  BY <1>1, <1>2, <1>3 DEF CInv

(* A run beyond its plan has nothing to refuse; it goes on, and what it    *)
(* does to a destination hides no refusal.                                 *)
LEMMA ActingKeepsRefusals ==
    ASSUME CInv, IInv', NEW r \in Runs, pc[r] # "plan",
           NEW to \in {"apply", "checked", "moved", "linked", "taken"},
           pc' = [pc EXCEPT ![r] = to],
           \A q \in Runs \ {r} : pos'[q] = pos[q], plan' = plan,
           \A q \in Runs : conflict'[q] => conflict[q], conflict' \in [Runs -> BOOLEAN],
           NothingOld',
           \A q \in Runs, d \in Managed : conflict'[q] /\ Refused(d) => Refused(d)'
    PROVE  CInv'
<1>1. PlanFits'
  BY DEF CInv, PlanFits
<1>2. StartsAtFirst'
  BY DEF CInv, IInv, Typed, StartsAtFirst
<1>3. ~conflict'[r]
  BY DEF CInv, RefusalAhead
<1>4. RefusalAhead'
  BY <1>3, RefusalKept DEF CInv, IInv, Typed
<1> QED
  BY <1>1, <1>2, <1>4 DEF CInv

(* Planning passes only what it does not refuse.                           *)
LEMMA PlanNextRefuses ==
    ASSUME CInv, NEW r \in Runs, PlanNext(r)
    PROVE  CInv'
<1>1. CASE Outcome(At(r)) = "refuse"
  BY <1>1, EndKeepsRefusals DEF PlanNext
<1>2. CASE Outcome(At(r)) # "refuse"
  <2>1. /\ pc[r] = "plan" /\ pos[r] <= Len(Places)
        /\ plan' = [plan EXCEPT ![r] = [plan[r] EXCEPT ![At(r)] = Outcome(At(r))]]
        /\ pos' = [pos EXCEPT ![r] = pos[r] + 1]
        /\ UNCHANGED <<place, pc, backup, conflict>>
    BY <1>2 DEF PlanNext
  <2>2. IInv'
    BY PlanNextStep DEF CInv
  <2>3. PlanFits'
    <3>1. At(r) \in Destinations /\ (Outcome(At(r)) = "remove" => At(r) \in Retired)
          /\ (Outcome(At(r)) = "replace" => At(r) \notin Retired)
      BY <2>1, PositionInPlaces DEF CInv, IInv, Outcome, LinkOutcome, RetiredOutcome
    <3>2. plan[r] \in [Destinations -> {"none", "create", "ok", "replace", "absent", "remove", "keep"}]
          /\ DOMAIN plan = Runs
      BY DEF CInv, IInv, Typed
    <3> HIDE DEF At, Outcome
    <3> SUFFICES ASSUME NEW q \in Runs, NEW d \in Destinations
                 PROVE  /\ plan'[q][d] = "remove" => d \in Retired
                        /\ plan'[q][d] = "replace" => d \notin Retired
      BY DEF PlanFits
    <3>3. plan'[q][d] = plan[q][d] \/ (q = r /\ d = At(r) /\ plan'[q][d] = Outcome(At(r)))
      BY <2>1, <3>2
    <3> QED
      BY <3>1, <3>3 DEF CInv, PlanFits
  <2>4. NothingOld' /\ StartsAtFirst'
    BY <2>1 DEF CInv, IInv, Typed, NothingOld, StartsAtFirst
  <2>5. RefusalAhead'
    <3> SUFFICES ASSUME NEW q \in Runs, conflict[q]
                 PROVE  /\ pc[q] = "plan"
                        /\ \E n \in DOMAIN Places : pos'[q] <= n /\ Refused(Places[n])
      BY <2>1 DEF CInv, RefusalAhead, Refused
    <3>1. PICK n \in DOMAIN Places : pos[q] <= n /\ Refused(Places[n])
      BY DEF CInv, RefusalAhead
    <3>2. pc[q] = "plan"
      BY DEF CInv, RefusalAhead
    <3>3. CASE q = r
      <4>1. n # pos[r]
        BY <1>2, <3>1, <3>3 DEF Refused, Outcome, At, Managed
      <4>2. n \in Nat /\ pos[r] \in Nat
        BY LengthIsNat, LenProperties DEF CInv, IInv, Typed
      <4>3. pos'[q] <= n
        BY <2>1, <3>1, <3>3, <4>1, <4>2 DEF CInv, IInv, Typed
      <4> QED
        BY <3>1, <3>2, <4>3
    <3>4. CASE q # r
      BY <2>1, <3>1, <3>2, <3>4 DEF CInv, IInv, Typed
    <3> QED
      BY <3>3, <3>4
  <2> QED
    BY <2>2, <2>3, <2>4, <2>5 DEF CInv
<1> QED
  BY <1>1, <1>2

(* Every other step of a run.                                              *)
LEMMA RunKeepsRefusals ==
    ASSUME CInv, NEW r \in Runs, RunStep(r)
    PROVE  CInv'
<1>0. IInv'
  BY NextKeeps DEF CInv, Next
<1>1. CASE \E how : End(r, how) /\ UNCHANGED <<place, lost>>
  BY <1>1, EndKeepsRefusals
<1>2. CASE PlanNext(r)
  BY <1>2, PlanNextRefuses
<1>3. CASE Planned(r) /\ ~only[r]
  <2>1. /\ pc[r] = "plan" /\ pos[r] > Len(Places) /\ pc' = [pc EXCEPT ![r] = "apply"]
        /\ pos' = [pos EXCEPT ![r] = 1] /\ UNCHANGED <<place, plan, backup, conflict>>
    BY <1>3 DEF Planned
  <2>2. ~conflict[r]
    <3> SUFFICES ASSUME conflict[r] PROVE FALSE
      OBVIOUS
    <3>1. PICK n \in DOMAIN Places : pos[r] <= n
      BY DEF CInv, RefusalAhead
    <3>2. n \in 1 .. Len(Places) /\ pos[r] \in Nat
      BY LengthIsNat, LenProperties DEF CInv, IInv, Typed
    <3> QED
      BY <2>1, <3>1, <3>2, LengthIsNat
  <2>3. RefusalAhead'
    <3>1. /\ conflict' \in [Runs -> BOOLEAN] /\ ~conflict'[r]
          /\ \A q \in Runs \ {r} : pc'[q] = pc[q] /\ pos'[q] = pos[q]
      BY <2>1, <2>2 DEF CInv, IInv, Typed, RefusalAhead
    <3>2. \A d \in Managed : Refused(d) => Refused(d)'
      BY <2>1 DEF Refused
    <3> QED
      BY <2>1, <3>1, <3>2, RefusalKept
  <2> QED
    BY <1>0, <2>1, <2>3 DEF CInv, IInv, Typed, PlanFits, NothingOld, StartsAtFirst
<1>4. CASE Skip(r) \/ (Recheck(r) /\ Outcome(At(r)) = plan[r][At(r)])
  <2>1. /\ pc[r] = "apply" /\ UNCHANGED <<place, plan, backup, conflict>>
        /\ \A q \in Runs \ {r} : pos'[q] = pos[q]
        /\ pc' = [pc EXCEPT ![r] = "apply"] \/ pc' = [pc EXCEPT ![r] = "checked"]
    BY <1>4 DEF Skip, Recheck, ToNext, CInv, IInv, Typed
  <2>2. \A d \in Managed : Refused(d) => Refused(d)'
    BY <2>1 DEF Refused
  <2>3. NothingOld' /\ conflict' \in [Runs -> BOOLEAN]
    BY <2>1 DEF CInv, NothingOld, RefusalAhead
  <2> QED
    BY <1>0, <2>1, <2>2, <2>3, ActingKeepsRefusals
<1>5. CASE /\ RemoveRetired(r) \/ CreateLink(r) \/ MoveAside(r) \/ LinkMoved(r) \/ Discard(r)
           /\ ~\E how : End(r, how) /\ UNCHANGED <<place, lost>>
  <2>1. /\ pc[r] \in {"checked", "moved", "linked"} /\ pos[r] <= Len(Places)
        /\ At(r) \in Destinations
    BY <1>5, PositionInPlaces DEF RemoveRetired, CreateLink, MoveAside, LinkMoved, Discard,
                                  CInv, IInv, AtAPlace, Step
  <2>0. ~(End(r, "error") /\ UNCHANGED <<place, lost>>)
    BY <1>5
  <2>2. CASE RemoveRetired(r)
    <3>1. /\ plan[r][At(r)] = "remove" /\ place' = [place EXCEPT ![At(r)] = "none"]
          /\ ToNext(r) /\ UNCHANGED backup
      BY <2>0, <2>2 DEF RemoveRetired
    <3>2. At(r) \in Retired
      BY <2>1, <3>1 DEF CInv, PlanFits
    <3>3. \A d \in Managed : place'[d] = place[d]
      BY <3>1, <3>2 DEF Managed, CInv, IInv, Typed
    <3>4. NothingOld' /\ \A d \in Managed : Refused(d) => Refused(d)'
      BY <3>1, <3>3 DEF NothingOld, CInv, Refused
    <3>5. /\ pc' = [pc EXCEPT ![r] = "apply"] /\ plan' = plan /\ conflict' = conflict
          /\ \A q \in Runs \ {r} : pos'[q] = pos[q]
      BY <3>1 DEF ToNext, CInv, IInv, Typed
    <3> QED
      BY <1>0, <2>1, <3>4, <3>5, ActingKeepsRefusals DEF CInv, RefusalAhead
  <2>3. CASE CreateLink(r) \/ LinkMoved(r)
    <3>1. /\ \/ place' = place
             \/ place[At(r)] = "none" /\ place' = [place EXCEPT ![At(r)] = "ours"]
          /\ UNCHANGED <<plan, conflict, backup>>
          /\ \E to \in {"apply", "linked", "taken"} : pc' = [pc EXCEPT ![r] = to]
          /\ \A q \in Runs \ {r} : pos'[q] = pos[q]
      BY <2>0, <2>3 DEF CreateLink, LinkMoved, Step, ToNext, CInv, IInv, Typed
    <3>2. \A d \in Managed : /\ Refused(d) => Refused(d)'
                             /\ place[d] # "old" => place'[d] # "old"
      BY <2>1, <3>1 DEF Managed, Refused, LinkOutcome, CInv, IInv, Typed
    <3>3. NothingOld'
      BY <3>1, <3>2 DEF NothingOld, CInv
    <3>4. PICK to \in {"apply", "linked", "taken"} : pc' = [pc EXCEPT ![r] = to]
      BY <3>1
    <3>5. conflict' \in [Runs -> BOOLEAN] /\ pc[r] # "plan"
      BY <2>1, <3>1 DEF CInv, RefusalAhead
    <3> QED
      BY <1>0, <3>1, <3>2, <3>3, <3>4, <3>5, ActingKeepsRefusals
  <2>4. CASE MoveAside(r)
    <3>1. /\ plan[r][At(r)] = "replace" /\ place[At(r)] # "none"
          /\ place' = [place EXCEPT ![At(r)] = "none"]
          /\ backup' = [backup EXCEPT ![r] = place[At(r)]]
          /\ pc' = [pc EXCEPT ![r] = "moved"]
          /\ conflict' = [q \in Runs |-> conflict[q] /\ place[At(r)] \notin Own]
          /\ UNCHANGED <<pos, plan>>
      BY <2>0, <2>4 DEF MoveAside
    <3>2. At(r) \in Managed
      BY <2>1, <3>1 DEF CInv, PlanFits, Managed
    <3>3. place[At(r)] # "old"
      BY <3>2 DEF CInv, NothingOld
    <3>4. NothingOld'
      BY <2>1, <3>1, <3>3 DEF CInv, NothingOld, IInv, Typed, Managed
    <3>5. /\ conflict' \in [Runs -> BOOLEAN] /\ \A q \in Runs : conflict'[q] => conflict[q]
          /\ (\E q \in Runs : conflict'[q]) => place[At(r)] \notin Own
      BY <3>1 DEF CInv, RefusalAhead
    <3>6. ASSUME NEW q \in Runs, NEW d \in Managed, conflict'[q], Refused(d)
          PROVE  Refused(d)'
      <4>1. d # At(r)
        BY <3>3, <3>5, <3>6, <2>1 DEF Refused, LinkOutcome, Own, Contents, CInv, IInv, Typed
      <4>2. place'[d] = place[d]
        BY <3>1, <4>1 DEF Managed, CInv, IInv, Typed
      <4> QED
        BY <3>6, <4>2 DEF Refused
    <3> QED
      BY <1>0, <2>1, <3>1, <3>4, <3>5, <3>6, ActingKeepsRefusals
  <2>5. CASE Discard(r)
    <3>1. /\ place' = place /\ backup' = [backup EXCEPT ![r] = "none"]
          /\ pc' = [pc EXCEPT ![r] = "apply"] /\ plan' = plan /\ conflict' = conflict
          /\ \A q \in Runs \ {r} : pos'[q] = pos[q]
      BY <2>5 DEF Discard, ToNext, CInv, IInv, Typed
    <3>2. NothingOld' /\ \A d \in Managed : Refused(d) => Refused(d)'
      BY <3>1 DEF NothingOld, Refused, CInv, IInv, Typed
    <3> QED
      BY <1>0, <2>1, <3>1, <3>2, ActingKeepsRefusals DEF CInv, RefusalAhead
  <2> QED
    BY <1>5, <2>2, <2>3, <2>4, <2>5
<1>6. CASE Restore(r)
  <2>1. /\ pc[r] = "taken" /\ pos[r] <= Len(Places) /\ At(r) \in Destinations
        /\ Leave(r, "error")
    BY <1>6, PositionInPlaces DEF Restore, CInv, IInv, AtAPlace
  <2>2. /\ \/ place' = place
           \/ place' = [place EXCEPT ![At(r)] = backup[r]]
        /\ conflict' \in [Runs -> BOOLEAN] /\ ~conflict'[r]
        /\ \A q \in Runs : conflict'[q] => conflict[q]
        /\ (\E q \in Runs : conflict'[q]) => place' = place \/ place[At(r)] \notin Own
    BY <1>6 DEF Restore, CInv, RefusalAhead
  <2>3. PlanFits' /\ StartsAtFirst'
    BY <2>1 DEF Leave, PlanFits, StartsAtFirst, CInv, IInv, Typed
  <2>4. NothingOld'
    BY <2>1, <2>2 DEF Leave, NothingOld, CInv, IInv, Typed, Managed
  <2>5. ASSUME NEW q \in Runs, NEW d \in Managed, conflict'[q], Refused(d)
        PROVE  Refused(d)'
    <3>1. place' = place \/ d # At(r)
      BY <2>1, <2>2, <2>5 DEF Refused, LinkOutcome, Own, Contents, CInv, NothingOld, IInv, Typed, Managed
    <3>2. place'[d] = place[d]
      BY <2>2, <3>1 DEF Managed, CInv, IInv, Typed
    <3> QED
      BY <2>5, <3>2 DEF Refused
  <2>6. RefusalAhead'
    <3>1. \A q \in Runs \ {r} : pc'[q] = pc[q] /\ pos'[q] = pos[q]
      BY <2>1 DEF Leave, CInv, IInv, Typed
    <3> QED
      BY <2>2, <2>5, <3>1, RefusalKept
  <2> QED
    BY <1>0, <2>3, <2>4, <2>6 DEF CInv
<1>7. CASE Finish(r)
  BY <1>7, EndKeepsRefusals DEF Finish
<1> QED
  BY <1>1, <1>2, <1>3, <1>4, <1>5, <1>6, <1>7
  DEF RunStep, Planned, Recheck

(* The invariant is inductive: a run that begins has everything ahead, and *)
(* a person's change ends all conflicts.                                   *)
LEMMA NextKeepsRefusals ==
    ASSUME CInv, [Next]_vars
    PROVE  CInv'
<1>0. IInv'
  BY NextKeeps DEF CInv
<1>1. ASSUME NEW r \in Runs, Begin(r)
      PROVE  CInv'
  <2>1. /\ pc[r] = "idle" /\ pc' = [pc EXCEPT ![r] = "plan"]
        /\ conflict' = [conflict EXCEPT ![r] = \E d \in Managed : Refused(d)]
        /\ UNCHANGED <<place, pos, plan, backup>>
    BY <1>1 DEF Begin
  <2>2. PlanFits' /\ NothingOld' /\ StartsAtFirst'
    BY <2>1 DEF CInv, IInv, Typed, PlanFits, NothingOld, StartsAtFirst
  <2>3. conflict' \in [Runs -> BOOLEAN]
    BY <2>1 DEF CInv, RefusalAhead
  <2>4. ASSUME NEW q \in Runs, conflict'[q]
        PROVE  pc'[q] = "plan" /\ \E n \in DOMAIN Places : pos'[q] <= n /\ Refused(Places[n])'
    <3>1. CASE q = r
      <4>1. PICK d \in Managed : Refused(d)
        BY <2>1, <2>4, <3>1 DEF CInv, RefusalAhead
      <4>2. PICK n \in DOMAIN Places : d = Places[n]
        BY DEF Managed, Destinations
      <4>3. pos'[q] = 1 /\ n \in Nat /\ 1 <= n
        BY <2>1, <3>1, LengthIsNat, LenProperties DEF CInv, StartsAtFirst
      <4> QED
        BY <2>1, <3>1, <4>1, <4>2, <4>3 DEF Refused, CInv, IInv, Typed
    <3>2. CASE q # r
      <4>1. conflict[q]
        BY <2>1, <2>4, <3>2 DEF CInv, RefusalAhead
      <4> QED
        BY <2>1, <3>2, <4>1 DEF CInv, RefusalAhead, Refused
    <3> QED
      BY <3>1, <3>2
  <2> QED
    BY <1>0, <2>2, <2>3, <2>4 DEF CInv, RefusalAhead
<1>2. ASSUME NEW r \in Runs, Kill(r)
      PROVE  CInv'
  BY <1>2, EndKeepsRefusals DEF Kill
<1>3. ASSUME NEW d \in Destinations, NEW c \in Contents, ByHand(d, c)
      PROVE  CInv'
  <2>1. /\ place' = [place EXCEPT ![d] = c] /\ c # "old"
        /\ conflict' = [r \in Runs |-> FALSE] /\ UNCHANGED <<pc, pos, plan, backup>>
    BY <1>3 DEF ByHand, runVars, Own
  <2> QED
    BY <1>0, <2>1 DEF CInv, IInv, Typed, PlanFits, NothingOld, StartsAtFirst, RefusalAhead, Managed
<1>4. CASE UNCHANGED vars
  BY <1>0, <1>4 DEF vars, runVars, CInv, PlanFits, NothingOld, StartsAtFirst, RefusalAhead, Refused
<1> QED
  BY <1>1, <1>2, <1>3, <1>4, RunKeepsRefusals DEF Next

(* A run that began while something at a managed destination was to be     *)
(* refused renames, links and removes nothing, whatever other runs do      *)
(* meanwhile, for any destinations and any number of runs.                 *)
THEOREM RefusalsTouchNothing == Spec => RefusalTouchesNothing
<1>1. Init => CInv
  <2> SUFFICES ASSUME Init PROVE CInv
    OBVIOUS
  <2>1. PlanFits /\ StartsAtFirst /\ RefusalAhead
    BY DEF Init, PlanFits, StartsAtFirst, RefusalAhead
  <2>2. NothingOld
    BY PlacesAssumption DEF Init, NothingOld
  <2> QED
    BY <2>1, <2>2, InitHolds DEF CInv
<1>2. ASSUME CInv, NEW r \in Runs, conflict[r]
      PROVE  ~(RemoveRetired(r) \/ CreateLink(r) \/ MoveAside(r))
  BY <1>2 DEF CInv, RefusalAhead, RemoveRetired, CreateLink, MoveAside
<1>3. CInv => [\A r \in Runs : conflict[r] /\ (RemoveRetired(r) \/ CreateLink(r) \/ MoveAside(r))
                                 => place' = place]_vars
  BY <1>2
<1> QED
  BY <1>1, <1>3, NextKeepsRefusals, PTL DEF Spec, RefusalTouchesNothing

----------------------------------------------------------------------------
(* tutor install run by at most two at once, as InstalledMeansLinked is    *)
(* about: with a third one that moves the same copy aside it is false.     *)
TwoRuns == \A r, q, s \in Runs : r = q \/ r = s \/ q = s

(* Nobody has changed a place by hand or killed a run.                     *)
Calm == edits = 0 /\ kills = 0

(* Run r at destination d: about to move a copy aside, with the copy moved *)
(* aside, with the copy moved aside and something else in its place.       *)
Replacing(r, d) == pc[r] = "checked" /\ At(r) = d /\ plan[r][d] = "replace"
Aside(r, d) == pc[r] = "moved" /\ At(r) = d
Taken(r, d) == pc[r] = "taken" /\ At(r) = d

(* Links are planned under managed names; nothing is planned only under a  *)
(* retired name where there is no link of an earlier release.              *)
PlansSuit ==
    \A r \in Runs, d \in Destinations :
        /\ plan[r][d] = "create" => d \notin Retired
        /\ plan[r][d] \in {"keep", "absent"} => d \in Retired /\ place[d] # "old"

(* What a run has moved aside is the copy it looked at, or the link that   *)
(* the other run has put in the place of the copy.                         *)
HoldsACopy ==
    \A r \in Runs : pc[r] \in {"moved", "linked", "taken"} =>
        plan[r][At(r)] = "replace" /\ backup[r] \in {"copy", "ours"}

(* Only one run has a destination moved aside; once something is there     *)
(* again, it is the link, and nobody is about to move that aside.          *)
OneHolds ==
    \A r \in Runs, d \in Destinations :
        /\ Replacing(r, d) => place[d] \in {"none", "ours", "copy"}
        /\ Aside(r, d) => place[d] \in {"none", "ours"}
        /\ Taken(r, d) => place[d] = "ours"
        /\ \A q \in Runs \ {r} :
              /\ Aside(r, d) => ~Aside(q, d) /\ (Replacing(q, d) => place[d] = "none")
              /\ Taken(r, d) => ~Aside(q, d) /\ ~Replacing(q, d)

(* A destination as the install leaves it, and stays to be ...             *)
Done(d) == /\ d \in Managed => place[d] = "ours" \/ \E q \in Runs : Aside(q, d)
           /\ d \in Retired => place[d] # "old"

(* ... once a run has passed it.                                           *)
PassedIsDone ==
    \A r \in Runs :
        /\ pc[r] \in {"apply", "checked", "moved", "linked", "taken"} =>
              \A n \in DOMAIN Places : n < pos[r] => Done(Places[n])
        /\ pc[r] = "linked" => Done(At(r))
        /\ result[r] = "installed" => \A d \in Destinations : Done(d)

(* How a run may have ended, for the steps that set it.                    *)
Results == {"none", "refused", "changed", "error", "killed", "installed", "nothing to do", "would change"}

Linking == PlansSuit /\ HoldsACopy /\ OneHolds /\ PassedIsDone

LInv == /\ CInv
        /\ result \in [Runs -> Results] /\ edits \in Nat /\ kills \in Nat
        /\ Calm => Linking

(* A step of run r leaves the other runs where they are.                   *)
Others(r) == \A q \in Runs \ {r} : /\ pc'[q] = pc[q] /\ pos'[q] = pos[q] /\ plan'[q] = plan[q]
                                   /\ backup'[q] = backup[q] /\ result'[q] = result[q]

----------------------------------------------------------------------------
(* A step of r that leaves the places alone, and after which r acts on     *)
(* none of them, takes nothing from what any run holds or has passed.      *)
LEMMA QuietKeeps ==
    ASSUME Linking, NEW r \in Runs, Others(r), place' = place,
           pc[r] # "moved", pc'[r] \in {"idle", "plan", "apply"}
    PROVE  /\ HoldsACopy' /\ OneHolds'
           /\ \A d \in Destinations : Done(d) => Done(d)'
<1>1. \A q \in Runs : pc'[q] \in {"checked", "moved", "linked", "taken"} =>
          /\ q # r /\ pc'[q] = pc[q] /\ At(q)' = At(q)
          /\ plan'[q] = plan[q] /\ backup'[q] = backup[q]
  BY DEF Others, At
<1>2. HoldsACopy'
  BY <1>1 DEF Linking, HoldsACopy
<1>3. ASSUME NEW q \in Runs, NEW d \in Destinations
      PROVE  /\ Replacing(q, d)' => Replacing(q, d)
             /\ Aside(q, d)' => Aside(q, d)
             /\ Taken(q, d)' => Taken(q, d)
  BY <1>1 DEF Replacing, Aside, Taken
<1>4. OneHolds'
  BY <1>3 DEF Linking, OneHolds
<1>5. ASSUME NEW d \in Destinations, NEW q \in Runs, Aside(q, d)
      PROVE  Aside(q, d)'
  BY <1>5 DEF Others, At, Aside
<1>6. ASSUME NEW d \in Destinations, Done(d)
      PROVE  Done(d)'
  BY <1>5, <1>6 DEF Done
<1> QED
  BY <1>2, <1>4, <1>6

(* What the other runs have passed stays done if every destination does.   *)
LEMMA PassedKept ==
    ASSUME CInv, Linking, NEW r \in Runs, Others(r),
           \A d \in Destinations : Done(d) => Done(d)',
           pc'[r] \in {"apply", "checked", "moved", "linked", "taken"} =>
              \A n \in DOMAIN Places : n < pos'[r] => Done(Places[n])',
           pc'[r] = "linked" => Done(At(r))',
           result'[r] = "installed" => \A d \in Destinations : Done(d)'
    PROVE  PassedIsDone'
<1> SUFFICES ASSUME NEW q \in Runs
             PROVE  /\ pc'[q] \in {"apply", "checked", "moved", "linked", "taken"} =>
                          \A n \in DOMAIN Places : n < pos'[q] => Done(Places[n])'
                    /\ pc'[q] = "linked" => Done(At(q))'
                    /\ result'[q] = "installed" => \A d \in Destinations : Done(d)'
  BY DEF PassedIsDone
<1>1. CASE q = r
  BY <1>1
<1>2. CASE q # r
  <2>1. pc'[q] = pc[q] /\ pos'[q] = pos[q] /\ result'[q] = result[q] /\ At(q)' = At(q)
    BY <1>2 DEF Others, At
  <2>2. ASSUME NEW n \in DOMAIN Places, Done(Places[n]) PROVE Done(Places[n])'
    BY <2>2 DEF Destinations
  <2>3. ASSUME pc[q] = "linked" PROVE Done(At(q))'
    <3>1. Done(At(q)) /\ At(q) \in Destinations
      BY <2>3, PositionInPlaces DEF Linking, PassedIsDone, CInv, IInv, AtAPlace
    <3>2. \A d \in Destinations : d = At(q) => Done(d)'
      BY <3>1
    <3> QED
      BY <3>1, <3>2, <2>1 DEF Done
  <2> QED
    BY <2>1, <2>2, <2>3 DEF Linking, PassedIsDone
<1> QED
  BY <1>1, <1>2

(* A run that ends, and is content only if every destination is done.      *)
LEMMA LeaveKeepsLinks ==
    ASSUME LInv, Calm, NEW r \in Runs, NEW how, Leave(r, how), place' = place, pc[r] # "moved",
           how = "installed" => \A d \in Destinations : Done(d)
    PROVE  Linking'
<1> USE DEF LInv
<1>1. /\ Others(r) /\ pc'[r] = "idle" /\ result'[r] = how
      /\ \A d \in Destinations : plan'[r][d] = "none"
  BY DEF Leave, Others, CInv, IInv, Typed
<1>2. HoldsACopy' /\ OneHolds' /\ \A d \in Destinations : Done(d) => Done(d)'
  BY <1>1, QuietKeeps
<1>3. PlansSuit'
  BY <1>1 DEF Linking, PlansSuit, Others
<1>4. PassedIsDone'
  BY <1>1, <1>2, PassedKept
<1> QED
  BY <1>2, <1>3, <1>4 DEF Linking

(* A run that goes on to the next destination has passed this one, which   *)
(* is done.                                                                *)
LEMMA ToNextPasses ==
    ASSUME LInv, Calm, NEW r \in Runs, pos[r] <= Len(Places), ToNext(r), Others(r),
           pc[r] \in {"apply", "checked", "linked"},
           \A d \in Destinations : Done(d) => Done(d)',
           \A d \in Destinations : d = At(r) => Done(d)'
    PROVE  PassedIsDone'
<1> USE DEF LInv
<1>1. /\ pc'[r] = "apply" /\ pos'[r] = pos[r] + 1 /\ result' = result
      /\ pos[r] \in Nat /\ At(r) \in Destinations
  BY PositionInPlaces, LengthIsNat DEF ToNext, CInv, IInv, Typed
<1>2. ASSUME NEW n \in DOMAIN Places, n < pos'[r]
      PROVE  Done(Places[n])'
  <2>0. Places[n] \in Destinations /\ n \in Nat
    BY LengthIsNat, LenProperties DEF Destinations
  <2>1. CASE n < pos[r]
    <3>1. Done(Places[n])
      BY <2>1 DEF Linking, PassedIsDone
    <3> QED
      BY <2>0, <3>1
  <2>2. CASE n = pos[r]
    BY <2>0, <2>2 DEF At
  <2> QED
    BY <1>1, <1>2, <2>0, <2>1, <2>2
<1>3. result'[r] = "installed" => \A d \in Destinations : Done(d)'
  BY <1>1 DEF Linking, PassedIsDone
<1> QED
  BY <1>1, <1>2, <1>3, PassedKept

(* A run that begins.                                                      *)
LEMMA BeginLinks ==
    ASSUME LInv, Calm, NEW r \in Runs, Begin(r)
    PROVE  Linking'
<1> USE DEF LInv
<1>1. /\ Others(r) /\ pc[r] = "idle" /\ pc'[r] = "plan" /\ result'[r] = "none"
      /\ place' = place /\ plan' = plan
  BY DEF Begin, Others, CInv, IInv, Typed
<1>2. HoldsACopy' /\ OneHolds' /\ \A d \in Destinations : Done(d) => Done(d)'
  BY <1>1, QuietKeeps
<1>3. PlansSuit'
  BY <1>1 DEF Linking, PlansSuit
<1>4. PassedIsDone'
  BY <1>1, <1>2, PassedKept
<1> QED
  BY <1>2, <1>3, <1>4 DEF Linking

(* What is planned suits what is there.                                    *)
LEMMA PlanNextLinks ==
    ASSUME LInv, Calm, NEW r \in Runs, PlanNext(r)
    PROVE  Linking'
<1> USE DEF LInv
<1>1. CASE Outcome(At(r)) = "refuse"
  BY <1>1, LeaveKeepsLinks DEF PlanNext, End
<1>2. CASE Outcome(At(r)) # "refuse"
  <2>1. /\ Others(r) /\ pc[r] = "plan" /\ pc'[r] = "plan" /\ result' = result
        /\ place' = place /\ At(r) \in Destinations
        /\ plan'[r] = [plan[r] EXCEPT ![At(r)] = Outcome(At(r))]
    BY <1>2, PositionInPlaces DEF PlanNext, Others, CInv, IInv, Typed
  <2>2. HoldsACopy' /\ OneHolds' /\ \A d \in Destinations : Done(d) => Done(d)'
    BY <2>1, QuietKeeps
  <2>3. ASSUME NEW d \in Destinations
        PROVE  /\ Outcome(d) = "create" => d \notin Retired
               /\ Outcome(d) \in {"keep", "absent"} => d \in Retired /\ place[d] # "old"
    BY DEF Outcome, LinkOutcome, RetiredOutcome
  <2>4. PlansSuit'
    <3>1. \A d \in Destinations : plan'[r][d] = IF d = At(r) THEN Outcome(d) ELSE plan[r][d]
      BY <2>1 DEF CInv, IInv, Typed
    <3>2. ASSUME NEW q \in Runs, NEW d \in Destinations
          PROVE  /\ plan'[q][d] = "create" => d \notin Retired
                 /\ plan'[q][d] \in {"keep", "absent"} => d \in Retired /\ place[d] # "old"
      <4>1. CASE q = r /\ d = At(r)
        BY <2>3, <3>1, <4>1
      <4>2. CASE q = r /\ d # At(r)
        BY <3>1, <4>2 DEF Linking, PlansSuit
      <4>3. CASE q # r
        BY <2>1, <4>3 DEF Linking, PlansSuit, Others
      <4> QED
        BY <4>1, <4>2, <4>3
    <3> QED
      BY <2>1, <3>2 DEF PlansSuit
  <2>5. PassedIsDone'
    BY <2>1, <2>2, PassedKept DEF Linking, PassedIsDone
  <2> QED
    BY <2>2, <2>4, <2>5 DEF Linking
<1> QED
  BY <1>1, <1>2

(* Planning ends, and applying starts with the first destination.          *)
LEMMA PlannedLinks ==
    ASSUME LInv, Calm, NEW r \in Runs, Planned(r)
    PROVE  Linking'
<1> USE DEF LInv
<1>1. CASE only[r]
  <2>1. /\ Leave(r, "nothing to do") \/ Leave(r, "would change")
        /\ place' = place /\ pc[r] = "plan"
    <3>1. CASE \A d \in Destinations : plan[r][d] \in {"ok", "keep", "absent"}
      BY <1>1, <3>1 DEF Planned, End
    <3>2. CASE ~\A d \in Destinations : plan[r][d] \in {"ok", "keep", "absent"}
      BY <1>1, <3>2 DEF Planned, End
    <3> QED
      BY <3>1, <3>2
  <2> QED
    BY <2>1, LeaveKeepsLinks
<1>2. CASE ~only[r]
  <2>1. /\ Others(r) /\ pc[r] = "plan" /\ pc'[r] = "apply" /\ pos'[r] = 1 /\ result' = result
        /\ place' = place /\ plan' = plan
    BY <1>2 DEF Planned, Others, CInv, IInv, Typed
  <2>2. HoldsACopy' /\ OneHolds' /\ \A d \in Destinations : Done(d) => Done(d)'
    BY <2>1, QuietKeeps
  <2>3. PlansSuit'
    BY <2>1 DEF Linking, PlansSuit
  <2>4. \A n \in DOMAIN Places : ~(n < 1)
    BY LengthIsNat, LenProperties
  <2>5. PassedIsDone'
    BY <2>1, <2>2, <2>4, PassedKept DEF Linking, PassedIsDone
  <2> QED
    BY <2>2, <2>3, <2>5 DEF Linking
<1> QED
  BY <1>1, <1>2

(* A destination is skipped only if it is done.                            *)
LEMMA SkipLinks ==
    ASSUME LInv, Calm, NEW r \in Runs, Skip(r)
    PROVE  Linking'
<1> USE DEF LInv
<1>1. /\ Others(r) /\ pc[r] = "apply" /\ pc'[r] = "apply" /\ pos[r] <= Len(Places)
      /\ ToNext(r) /\ place' = place /\ plan' = plan /\ At(r) \in Destinations
  BY PositionInPlaces DEF Skip, ToNext, Others, CInv, IInv, Typed
<1>2. HoldsACopy' /\ OneHolds' /\ \A d \in Destinations : Done(d) => Done(d)'
  BY <1>1, QuietKeeps
<1>3. PlansSuit'
  BY <1>1 DEF Linking, PlansSuit
<1>4. Done(At(r))
  <2>1. CASE plan[r][At(r)] \in {"keep", "absent"}
    BY <1>1, <2>1 DEF Linking, PlansSuit, Done, Managed
  <2>2. CASE Outcome(At(r)) = "ok"
    BY <2>2 DEF Outcome, LinkOutcome, RetiredOutcome, Done, Managed
  <2> QED
    BY <2>1, <2>2 DEF Skip
<1>5. PassedIsDone'
  BY <1>1, <1>2, <1>4, ToNextPasses
<1> QED
  BY <1>2, <1>3, <1>5 DEF Linking

(* A destination is found as it was planned: what is about to be moved     *)
(* aside is a copy, at a destination that nobody else holds.               *)
LEMMA RecheckLinks ==
    ASSUME LInv, Calm, NEW r \in Runs, Recheck(r)
    PROVE  Linking'
<1> USE DEF LInv
<1>1. CASE Outcome(At(r)) # plan[r][At(r)]
  BY <1>1, LeaveKeepsLinks DEF Recheck, End
<1>2. CASE Outcome(At(r)) = plan[r][At(r)]
  <2>1. /\ Others(r) /\ pc[r] = "apply" /\ pc' = [pc EXCEPT ![r] = "checked"]
        /\ UNCHANGED <<place, pos, plan, backup, result>>
    BY <1>2 DEF Recheck, Others, CInv, IInv, Typed
  <2>2. /\ \A q \in Runs : At(q)' = At(q) /\ (q # r => pc'[q] = pc[q]) /\ pc'[r] = "checked"
    BY <2>1 DEF At, CInv, IInv, Typed
  <2>3. \A d \in Destinations, q \in Runs : (Aside(q, d)' <=> Aside(q, d)) /\ (Taken(q, d)' <=> Taken(q, d))
    BY <2>1, <2>2 DEF Aside, Taken
  <2>4. \A d \in Destinations, q \in Runs : Replacing(q, d)' => Replacing(q, d) \/ (q = r /\ place[d] = "copy")
    BY <1>2, <2>1, <2>2 DEF Replacing, Outcome, LinkOutcome, RetiredOutcome
  <2>5. OneHolds'
    <3> SUFFICES ASSUME NEW p \in Runs, NEW d \in Destinations
                 PROVE  /\ Replacing(p, d)' => place[d] \in {"none", "ours", "copy"}
                        /\ Aside(p, d)' => place[d] \in {"none", "ours"}
                        /\ Taken(p, d)' => place[d] = "ours"
                        /\ \A q \in Runs \ {p} :
                              /\ Aside(p, d)' => ~Aside(q, d)' /\ (Replacing(q, d)' => place[d] = "none")
                              /\ Taken(p, d)' => ~Aside(q, d)' /\ ~Replacing(q, d)'
      BY <2>1 DEF OneHolds
    <3> QED
      BY <2>3, <2>4 DEF Linking, OneHolds
  <2>6. \A d \in Destinations : Done(d) => Done(d)'
    BY <2>1, <2>3 DEF Done
  <2>7. PlansSuit' /\ HoldsACopy'
    BY <2>1, <2>2 DEF Linking, PlansSuit, HoldsACopy
  <2>8. PassedIsDone'
    <3>1. \A n \in DOMAIN Places : n < pos'[r] => Done(Places[n])'
      BY <2>1, <2>6 DEF Linking, PassedIsDone, Destinations
    <3>2. result'[r] = "installed" => \A d \in Destinations : Done(d)'
      BY <2>1, <2>6 DEF Linking, PassedIsDone
    <3> QED
      BY <2>1, <2>2, <2>6, <3>1, <3>2, PassedKept
  <2> QED
    BY <2>5, <2>7, <2>8 DEF Linking
<1> QED
  BY <1>1, <1>2

(* A retired link goes: nobody holds a retired destination.                *)
LEMMA RemoveRetiredLinks ==
    ASSUME LInv, Calm, NEW r \in Runs, RemoveRetired(r)
    PROVE  Linking'
<1> USE DEF LInv
<1>1. CASE End(r, "error") /\ UNCHANGED place
  BY <1>1, LeaveKeepsLinks DEF RemoveRetired, End
<1>2. CASE ToNext(r) /\ place' = [place EXCEPT ![At(r)] = "none"] /\ UNCHANGED backup
  <2>1. /\ Others(r) /\ pc[r] = "checked" /\ pc'[r] = "apply" /\ pos[r] <= Len(Places)
        /\ At(r) \in Destinations /\ plan' = plan /\ At(r) \in Retired
        /\ \A d \in Destinations : place'[d] = IF d = At(r) THEN "none" ELSE place[d]
    BY <1>2, PositionInPlaces DEF RemoveRetired, ToNext, Others, CInv, IInv, Typed, AtAPlace, PlanFits
  <2>2. \A q \in Runs : pc'[q] \in {"checked", "moved", "linked", "taken"} =>
            /\ q # r /\ pc'[q] = pc[q] /\ At(q)' = At(q)
            /\ plan'[q] = plan[q] /\ backup'[q] = backup[q]
    BY <2>1 DEF Others, At
  <2>3. \A q \in Runs, d \in Destinations : /\ Replacing(q, d)' => Replacing(q, d) /\ d # At(r)
                                            /\ Aside(q, d)' => Aside(q, d) /\ d # At(r)
                                            /\ Taken(q, d)' => Taken(q, d) /\ d # At(r)
    BY <2>1, <2>2 DEF Replacing, Aside, Taken, Linking, HoldsACopy, CInv, PlanFits
  <2>4. OneHolds'
    BY <2>1, <2>3 DEF Linking, OneHolds
  <2>5. HoldsACopy' /\ PlansSuit'
    BY <2>1, <2>2 DEF Linking, HoldsACopy, PlansSuit
  <2>6. \A d \in Destinations, q \in Runs : Aside(q, d) => Aside(q, d)'
    BY <2>1 DEF Others, At, Aside
  <2>7. \A d \in Destinations : (Done(d) => Done(d)') /\ (d = At(r) => Done(d)')
    BY <2>1, <2>6 DEF Done, Managed
  <2>8. PassedIsDone'
    BY <1>2, <2>1, <2>7, ToNextPasses
  <2> QED
    BY <2>4, <2>5, <2>8 DEF Linking
<1> QED
  BY <1>1, <1>2 DEF RemoveRetired

(* A link comes where nothing was, and the other of two runs may have what *)
(* was there moved aside, but is then not about to move the link.          *)
LEMMA CreateLinkLinks ==
    ASSUME TwoRuns, LInv, Calm, NEW r \in Runs, CreateLink(r)
    PROVE  Linking'
<1> USE DEF LInv
<1>1. CASE place[At(r)] # "none"
  BY <1>1, LeaveKeepsLinks DEF CreateLink, End
<1>2. CASE place[At(r)] = "none"
  <2>1. /\ Others(r) /\ pc[r] = "checked" /\ pc'[r] = "apply" /\ pos[r] <= Len(Places)
        /\ At(r) \in Destinations /\ plan' = plan /\ At(r) \notin Retired
        /\ \A d \in Destinations : place'[d] = IF d = At(r) THEN "ours" ELSE place[d]
        /\ ToNext(r)
    BY <1>2, PositionInPlaces DEF CreateLink, ToNext, Others, CInv, IInv, Typed, AtAPlace, Linking, PlansSuit
  <2>2. \A q \in Runs : pc'[q] \in {"checked", "moved", "linked", "taken"} =>
            /\ q # r /\ pc'[q] = pc[q] /\ At(q)' = At(q)
            /\ plan'[q] = plan[q] /\ backup'[q] = backup[q]
    BY <2>1 DEF Others, At, CreateLink
  <2>3. \A q \in Runs, d \in Destinations : /\ Replacing(q, d)' => Replacing(q, d) /\ q # r
                                            /\ Aside(q, d)' => Aside(q, d) /\ q # r
                                            /\ Taken(q, d)' => Taken(q, d) /\ q # r
    BY <2>1, <2>2 DEF Replacing, Aside, Taken
  <2>4. OneHolds'
    BY <2>1, <2>3 DEF TwoRuns, Linking, OneHolds
  <2>5. HoldsACopy' /\ PlansSuit'
    BY <2>1, <2>2 DEF Linking, HoldsACopy, PlansSuit
  <2>6. \A d \in Destinations, q \in Runs : Aside(q, d) => Aside(q, d)'
    BY <2>1 DEF Others, At, Aside
  <2>7. \A d \in Destinations : (Done(d) => Done(d)') /\ (d = At(r) => Done(d)')
    BY <2>1, <2>6 DEF Done, Managed
  <2>8. PassedIsDone'
    BY <2>1, <2>7, ToNextPasses
  <2> QED
    BY <2>4, <2>5, <2>8 DEF Linking
<1> QED
  BY <1>1, <1>2

(* The copy goes aside, at a destination that nobody else holds.           *)
LEMMA MoveAsideLinks ==
    ASSUME LInv, Calm, NEW r \in Runs, MoveAside(r)
    PROVE  Linking'
<1> USE DEF LInv
<1>1. CASE place[At(r)] = "none"
  BY <1>1, LeaveKeepsLinks DEF MoveAside, End
<1>2. CASE place[At(r)] # "none"
  <2>1. /\ Others(r) /\ pc[r] = "checked" /\ pc' = [pc EXCEPT ![r] = "moved"]
        /\ UNCHANGED <<pos, plan, result>> /\ pos[r] <= Len(Places) /\ At(r) \in Destinations
        /\ plan[r][At(r)] = "replace" /\ backup'[r] = place[At(r)]
        /\ \A d \in Destinations : place'[d] = IF d = At(r) THEN "none" ELSE place[d]
    BY <1>2, PositionInPlaces DEF MoveAside, Others, CInv, IInv, Typed, AtAPlace
  <2>2. \A q \in Runs : At(q)' = At(q) /\ (q # r => pc'[q] = pc[q]) /\ pc'[r] = "moved"
    BY <2>1 DEF At, CInv, IInv, Typed
  <2>3. Replacing(r, At(r)) /\ backup'[r] \in {"copy", "ours"}
    BY <1>2, <2>1 DEF Replacing, Linking, OneHolds
  <2>4. \A q \in Runs \ {r} : ~Aside(q, At(r)) /\ ~Taken(q, At(r))
    BY <1>2, <2>1, <2>3 DEF Linking, OneHolds
  <2>5. \A q \in Runs, d \in Destinations :
            /\ Replacing(q, d)' => Replacing(q, d) /\ q # r
            /\ Aside(q, d)' <=> (IF q = r THEN d = At(r) ELSE Aside(q, d))
            /\ Taken(q, d)' => Taken(q, d) /\ q # r
    BY <2>1, <2>2 DEF Replacing, Aside, Taken
  <2>6. OneHolds'
    <3> SUFFICES ASSUME NEW p \in Runs, NEW d \in Destinations
                 PROVE  /\ Replacing(p, d)' => place'[d] \in {"none", "ours", "copy"}
                        /\ Aside(p, d)' => place'[d] \in {"none", "ours"}
                        /\ Taken(p, d)' => place'[d] = "ours"
                        /\ \A q \in Runs \ {p} :
                              /\ Aside(p, d)' => ~Aside(q, d)' /\ (Replacing(q, d)' => place'[d] = "none")
                              /\ Taken(p, d)' => ~Aside(q, d)' /\ ~Replacing(q, d)'
      BY DEF OneHolds
    <3> QED
      BY <2>1, <2>4, <2>5 DEF Linking, OneHolds
  <2>7. HoldsACopy' /\ PlansSuit'
    <3>1. HoldsACopy'
      BY <2>1, <2>2, <2>3 DEF Linking, HoldsACopy, Others
    <3>2. PlansSuit'
      BY <2>1 DEF Linking, PlansSuit
    <3> QED
      BY <3>1, <3>2
  <2>8. \A d \in Destinations : Done(d) => Done(d)'
    <3> SUFFICES ASSUME NEW d \in Destinations, Done(d)
                 PROVE  Done(d)'
      OBVIOUS
    <3>1. CASE d = At(r)
      BY <2>1, <2>5, <3>1 DEF Done
    <3>2. CASE d # At(r)
      BY <2>1, <2>5, <3>2 DEF Done, Aside
    <3> QED
      BY <3>1, <3>2
  <2>9. PassedIsDone'
    <3>1. \A n \in DOMAIN Places : n < pos'[r] => Done(Places[n])'
      BY <2>1, <2>8 DEF Linking, PassedIsDone, Destinations
    <3>2. result'[r] = "installed" => \A d \in Destinations : Done(d)'
      BY <2>1, <2>8 DEF Linking, PassedIsDone
    <3> QED
      BY <2>1, <2>2, <2>8, <3>1, <3>2, PassedKept
  <2> QED
    BY <2>6, <2>7, <2>9 DEF Linking
<1> QED
  BY <1>1, <1>2

(* The link takes the place of what was moved aside, or is there already.  *)
LEMMA LinkMovedLinks ==
    ASSUME LInv, Calm, NEW r \in Runs, LinkMoved(r)
    PROVE  Linking'
<1> USE DEF LInv
<1>1. /\ Others(r) /\ pc[r] = "moved" /\ pos[r] <= Len(Places) /\ At(r) \in Destinations
      /\ pc' = [pc EXCEPT ![r] = IF place[At(r)] = "none" THEN "linked" ELSE "taken"]
      /\ UNCHANGED <<pos, plan, result, backup>>
      /\ place[At(r)] \in {"none", "ours"}
      /\ \A d \in Destinations : place'[d] = IF d = At(r) THEN "ours" ELSE place[d]
  <2>1. /\ Others(r) /\ pc[r] = "moved" /\ pos[r] <= Len(Places) /\ At(r) \in Destinations
        /\ pc' = [pc EXCEPT ![r] = IF place[At(r)] = "none" THEN "linked" ELSE "taken"]
        /\ UNCHANGED <<pos, plan, result, backup>>
    BY PositionInPlaces DEF LinkMoved, Step, Others, CInv, IInv, Typed, AtAPlace
  <2>2. place[At(r)] \in {"none", "ours"}
    BY <2>1 DEF Linking, OneHolds, Aside
  <2> QED
    BY <2>1, <2>2 DEF LinkMoved, CInv, IInv, Typed
<1>2. \A q \in Runs : At(q)' = At(q) /\ (q # r => pc'[q] = pc[q]) /\ pc'[r] \in {"linked", "taken"}
  BY <1>1 DEF At, CInv, IInv, Typed
<1>3. Aside(r, At(r))
  BY <1>1 DEF Aside
<1>4. \A q \in Runs, d \in Destinations :
          /\ Replacing(q, d)' <=> Replacing(q, d)
          /\ Aside(q, d)' <=> Aside(q, d) /\ q # r
          /\ Taken(q, d)' => Taken(q, d) \/ (q = r /\ d = At(r) /\ place[d] # "none")
  BY <1>1, <1>2 DEF Replacing, Aside, Taken, CInv, IInv, Typed
<1>5. \A q \in Runs \ {r} : ~Aside(q, At(r)) /\ ~Taken(q, At(r)) /\ (Replacing(q, At(r)) => place[At(r)] = "none")
  BY <1>1, <1>3 DEF Linking, OneHolds
<1>6. OneHolds'
  <2> SUFFICES ASSUME NEW p \in Runs, NEW d \in Destinations
               PROVE  /\ Replacing(p, d)' => place'[d] \in {"none", "ours", "copy"}
                      /\ Aside(p, d)' => place'[d] \in {"none", "ours"}
                      /\ Taken(p, d)' => place'[d] = "ours"
                      /\ \A q \in Runs \ {p} :
                            /\ Aside(p, d)' => ~Aside(q, d)' /\ (Replacing(q, d)' => place'[d] = "none")
                            /\ Taken(p, d)' => ~Aside(q, d)' /\ ~Replacing(q, d)'
    BY DEF OneHolds
  <2>1. CASE d = At(r)
    BY <1>1, <1>4, <1>5, <2>1 DEF Linking, OneHolds
  <2>2. CASE d # At(r)
    BY <1>1, <1>4, <2>2 DEF Linking, OneHolds
  <2> QED
    BY <2>1, <2>2
<1>7. HoldsACopy' /\ PlansSuit'
  <2>1. HoldsACopy'
    BY <1>1, <1>2 DEF Linking, HoldsACopy
  <2>2. PlansSuit'
    BY <1>1 DEF Linking, PlansSuit
  <2> QED
    BY <2>1, <2>2
<1>8. \A d \in Destinations : (Done(d) => Done(d)') /\ (d = At(r) => Done(d)')
  <2> SUFFICES ASSUME NEW d \in Destinations
               PROVE  (Done(d) => Done(d)') /\ (d = At(r) => Done(d)')
    OBVIOUS
  <2>1. CASE d = At(r)
    BY <1>1, <2>1 DEF Done
  <2>2. CASE d # At(r)
    <3>1. \A q \in Runs : Aside(q, d) => Aside(q, d)'
      BY <1>4, <2>2 DEF Aside
    <3> QED
      BY <1>1, <2>2, <3>1 DEF Done
  <2> QED
    BY <2>1, <2>2
<1>9. PassedIsDone'
  <2>1. \A n \in DOMAIN Places : n < pos'[r] => Done(Places[n])'
    BY <1>1, <1>8 DEF Linking, PassedIsDone, Destinations
  <2>2. result'[r] = "installed" => \A d \in Destinations : Done(d)'
    BY <1>1, <1>8 DEF Linking, PassedIsDone
  <2>3. Done(At(r))'
    <3>1. \A d \in Destinations : d = At(r) => Done(d)'
      BY <1>8
    <3> QED
      BY <1>1, <1>2, <3>1 DEF Done
  <2> QED
    BY <1>1, <1>2, <1>8, <2>1, <2>2, <2>3, PassedKept
<1> QED
  BY <1>6, <1>7, <1>9 DEF Linking

(* The backup away: its destination is done.                               *)
LEMMA DiscardLinks ==
    ASSUME LInv, Calm, NEW r \in Runs, Discard(r)
    PROVE  Linking'
<1> USE DEF LInv
<1>1. /\ Others(r) /\ pc[r] = "linked" /\ pc'[r] = "apply" /\ pos[r] <= Len(Places)
      /\ ToNext(r) /\ place' = place /\ plan' = plan
  BY DEF Discard, ToNext, Others, CInv, IInv, Typed, AtAPlace
<1>2. HoldsACopy' /\ OneHolds' /\ \A d \in Destinations : Done(d) => Done(d)'
  BY <1>1, QuietKeeps
<1>3. PlansSuit'
  BY <1>1 DEF Linking, PlansSuit
<1>4. Done(At(r))
  BY <1>1 DEF Linking, PassedIsDone
<1>5. PassedIsDone'
  BY <1>1, <1>2, <1>4, ToNextPasses
<1> QED
  BY <1>2, <1>3, <1>5 DEF Linking

(* The link that is there stays: a copy is not renamed onto it, and a link *)
(* that is renamed onto it is the same link.                               *)
LEMMA RestoreLinks ==
    ASSUME LInv, Calm, NEW r \in Runs, Restore(r)
    PROVE  Linking'
<1> USE DEF LInv
<1>1. /\ pc[r] = "taken" /\ Leave(r, "error") /\ At(r) \in Destinations
      /\ backup[r] \in {"copy", "ours"}
  BY PositionInPlaces DEF Restore, CInv, IInv, AtAPlace, Linking, HoldsACopy
<1>2. place[At(r)] = "ours"
  BY <1>1 DEF Linking, OneHolds, Taken
<1>3. place' = place
  <2>1. place' = place \/ (backup[r] = "ours" /\ place' = [place EXCEPT ![At(r)] = backup[r]])
    BY <1>1, <1>2 DEF Restore
  <2>2. place \in [Destinations -> Contents]
    BY DEF CInv, IInv, Typed
  <2> QED
    BY <1>1, <1>2, <2>1, <2>2
<1> QED
  BY <1>1, <1>3, LeaveKeepsLinks

(* A run is content when it has passed every destination.                  *)
LEMMA FinishLinks ==
    ASSUME LInv, Calm, NEW r \in Runs, Finish(r)
    PROVE  Linking'
<1> USE DEF LInv
<1>1. /\ pc[r] = "apply" /\ pos[r] > Len(Places) /\ Leave(r, "installed") /\ place' = place
  BY DEF Finish, End
<1>2. \A d \in Destinations : Done(d)
  <2> SUFFICES ASSUME NEW n \in DOMAIN Places
               PROVE  Done(Places[n])
    BY DEF Destinations
  <2>1. n \in 1 .. Len(Places) /\ pos[r] \in Nat
    BY LengthIsNat, LenProperties DEF CInv, IInv, Typed
  <2>2. n < pos[r]
    BY <1>1, <2>1, LengthIsNat
  <2> QED
    BY <1>1, <2>2 DEF Linking, PassedIsDone
<1> QED
  BY <1>1, <1>2, LeaveKeepsLinks

(* The bounds' counters stay as they are in a step of a run, and count     *)
(* what ends the calm.                                                     *)
LEMMA ResultsTyped ==
    ASSUME result \in [Runs -> Results], edits \in Nat, kills \in Nat, [Next]_vars
    PROVE  /\ result' \in [Runs -> Results] /\ edits' \in Nat /\ kills' \in Nat
           /\ Calm' => Calm /\ (\/ UNCHANGED vars
                                \/ \E r \in Runs : Begin(r) \/ RunStep(r))
<1> DEFINE Goal == /\ result' \in [Runs -> Results] /\ edits' \in Nat /\ kills' \in Nat
                   /\ Calm' => Calm /\ (\/ UNCHANGED vars
                                        \/ \E r \in Runs : Begin(r) \/ RunStep(r))
<1>0. ASSUME NEW r \in Runs, NEW how \in Results, Leave(r, how)
      PROVE  result' \in [Runs -> Results]
  BY <1>0 DEF Leave
<1>1. ASSUME NEW r \in Runs, Begin(r) \/ RunStep(r)
      PROVE  Goal
  <2>1. UNCHANGED <<edits, kills>>
    BY <1>1 DEF Begin, RunStep, Counters, PlanNext, Planned, Skip, Recheck, RemoveRetired, CreateLink,
                MoveAside, LinkMoved, Discard, Restore, Finish
  <2>2. \/ result' = result
        \/ result' = [result EXCEPT ![r] = "none"]
        \/ \E how \in Results : Leave(r, how)
    BY <1>1 DEF Begin, RunStep, PlanNext, Planned, Skip, Recheck, RemoveRetired, CreateLink,
                MoveAside, LinkMoved, Discard, Restore, Finish, End, ToNext, Step, Results
  <2>3. result' \in [Runs -> Results]
    BY <1>0, <2>2 DEF Results
  <2> QED
    BY <1>1, <2>1, <2>3 DEF Calm
<1>2. ASSUME NEW r \in Runs, Kill(r)
      PROVE  Goal
  <2>1. kills' = kills + 1 /\ Leave(r, "killed") /\ edits' = edits
    BY <1>2 DEF Kill, End
  <2>2. result' \in [Runs -> Results]
    BY <1>0, <2>1 DEF Results
  <2> QED
    BY <2>1, <2>2 DEF Calm
<1>3. ASSUME NEW d \in Destinations, NEW c \in Contents, ByHand(d, c)
      PROVE  Goal
  BY <1>3 DEF ByHand, Calm, runVars
<1>4. CASE UNCHANGED vars
  BY <1>4 DEF vars, runVars, Calm
<1> QED
  BY <1>1, <1>2, <1>3, <1>4 DEF Next

(* The invariant is inductive for two runs.                                *)
LEMMA NextKeepsLinks ==
    ASSUME TwoRuns, LInv, [Next]_vars
    PROVE  LInv'
<1>1. CInv'
  BY NextKeepsRefusals DEF LInv
<1>2. /\ result' \in [Runs -> Results] /\ edits' \in Nat /\ kills' \in Nat
      /\ Calm' => Calm /\ (UNCHANGED vars \/ \E r \in Runs : Begin(r) \/ RunStep(r))
  BY ResultsTyped DEF LInv
<1>3. ASSUME Calm'
      PROVE  Linking'
  <2>1. Calm /\ (UNCHANGED vars \/ \E r \in Runs : Begin(r) \/ RunStep(r))
    BY <1>2, <1>3
  <2>2. ASSUME NEW r \in Runs, Begin(r) \/ RunStep(r)
        PROVE  Linking'
    BY <2>1, <2>2, BeginLinks, PlanNextLinks, PlannedLinks, SkipLinks, RecheckLinks, RemoveRetiredLinks,
       CreateLinkLinks, MoveAsideLinks, LinkMovedLinks, DiscardLinks, RestoreLinks, FinishLinks DEF RunStep
  <2>3. CASE UNCHANGED vars
    BY <2>1, <2>3 DEF LInv, Linking, PlansSuit, HoldsACopy, OneHolds, PassedIsDone, Done,
                      Replacing, Aside, Taken, At, vars, runVars
  <2> QED
    BY <2>1, <2>2, <2>3
<1> QED
  BY <1>1, <1>2, <1>3 DEF LInv

(* No run has ended or holds anything at first.                            *)
LEMMA InitLinks == Init => LInv
<1> SUFFICES ASSUME Init
             PROVE  LInv
  OBVIOUS
<1>1. PlanFits /\ StartsAtFirst /\ RefusalAhead
  BY DEF Init, PlanFits, StartsAtFirst, RefusalAhead
<1>2. NothingOld
  BY PlacesAssumption DEF Init, NothingOld
<1>3. CInv
  BY <1>1, <1>2, InitHolds DEF CInv
<1>4. Linking
  BY DEF Init, Linking, PlansSuit, HoldsACopy, OneHolds, PassedIsDone, Replacing, Aside, Taken
<1>5. result \in [Runs -> Results] /\ edits \in Nat /\ kills \in Nat
  BY DEF Init, Results
<1> QED
  BY <1>3, <1>4, <1>5 DEF LInv

(* Of at most two runs at once, with nobody changing the places by hand, a *)
(* run that reports success leaves every link in its place - or in the     *)
(* hands of the other run, which puts it back - and no retired link, for   *)
(* any destinations and whatever was there.                                *)
THEOREM InstalledIsLinked == TwoRuns => (Spec => []InstalledMeansLinked)
<1> SUFFICES ASSUME TwoRuns
             PROVE  Spec => []InstalledMeansLinked
  OBVIOUS
<1>1. LInv => InstalledMeansLinked
  <2> SUFFICES ASSUME LInv, NEW r \in Runs, result[r] = "installed", edits = 0, kills = 0
               PROVE  /\ \A d \in Managed : \/ place[d] = "ours"
                                            \/ \E q \in Runs : pc[q] = "moved" /\ At(q) = d
                      /\ \A d \in Retired \cap Destinations : place[d] # "old"
    BY DEF InstalledMeansLinked
  <2>1. \A d \in Destinations : Done(d)
    BY DEF LInv, Calm, Linking, PassedIsDone
  <2> QED
    BY <2>1 DEF Done, Aside, Managed
<1>2. TwoRuns /\ LInv /\ [Next]_vars => LInv'
  BY NextKeepsLinks
<1>3. LInv /\ [Next]_vars => LInv'
  BY <1>2
<1> QED
  BY InitLinks, <1>1, <1>3, PTL DEF Spec
=============================================================================
