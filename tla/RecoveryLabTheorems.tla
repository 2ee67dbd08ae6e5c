------------------------- MODULE RecoveryLabTheorems -------------------------
(***************************************************************************)
(* The recovery lab deletes no files beneath a server whose pid file it    *)
(* could have seen, for every lesson, every answer and every course of the *)
(* servers.  The argument follows a postmaster from pg_ctl start to the    *)
(* cleanup: while pg_ctl waits the lab is at a start; afterwards the       *)
(* server is named by its pid file or was left behind; the cleanup passes  *)
(* a cluster only when nothing runs there, or it fails, or nothing of the  *)
(* server could be seen.  A run that reports success leaves nothing at     *)
(* all: that needs the places in the scripts, of which only the first      *)
(* start of the copy in lesson 28 may fail and be passed over.             *)
(*                                                                         *)
(* What a run that passes has recovered follows from its place in the      *)
(* script: what has been written by then, where the copy stands in that    *)
(* history, and which answers can have come so far.  That the wanted       *)
(* answer passes follows from a second invariant along the same places:    *)
(* every server a step needs is up, every check finds what it wants, and   *)
(* what a poll waits for has come or is under way.                         *)
(***************************************************************************)
EXTENDS RecoveryLab, SequenceTheorems, TLAPS

(* While pg_ctl start waits, the lab is at the step that called it.        *)
LauncherIsStarting == \A w \in Clusters : launcher = w => Starting(w)

(* A server that has not written its pid file is one that pg_ctl waits for *)
(* or one that a cut-short or unlucky pg_ctl left behind.                  *)
ForkedIsWatched ==
    \A w \in Clusters : srv[w] = "forked" /\ launcher # w => cancelled \/ disturbed

(* Any other server is named by its pid file, and runs in a cluster.       *)
PidFileNames == \A w \in Clusters : srv[w] \in {"starting", "ready"} => w \in pidfile
ServersInDir == \A w \in Clusters : srv[w] # "none" => w \in dir

(* The tree goes last, the cleanup starts at the copy.                     *)
TreeGoesLast == /\ tree = "gone" => phase = "exited" /\ which = NoCluster /\ ~failed
                /\ phase = "work" => which = "copy" /\ hidden = {}

(* What the cleanup has passed.                                            *)
Passed == IF which = "copy" THEN {} ELSE IF which = "primary" THEN {"copy"} ELSE Clusters
PassedIsSafe == ~failed => \A w \in Passed : srv[w] = "none" \/ w \in hidden

(* A server the cleanup could not see was left behind.                     *)
HiddenWasLeft == hidden # {} => cancelled \/ disturbed

IInv == /\ TypeOK /\ LauncherIsStarting /\ ForkedIsWatched /\ PidFileNames /\ ServersInDir
        /\ TreeGoesLast /\ PassedIsSafe /\ HiddenWasLeft

----------------------------------------------------------------------------
(* Nothing runs at first.                                                  *)
LEMMA InitHolds == Init => IInv
<1> SUFFICES ASSUME Init PROVE IInv
  OBVIOUS
<1>1. TypeOK
  <2>1. FALSE \in BOOLEAN /\ 1 \in Nat \ {0}
    OBVIOUS
  <2>2. srv \in [Clusters -> {"none", "forked", "starting", "ready"}]
    BY DEF Init
  <2> QED
    BY <2>1, <2>2, Zenon DEF Init, TypeOK, Clusters, NoCluster
<1>2. LauncherIsStarting
  BY DEF Init, LauncherIsStarting, Clusters, NoCluster
<1>3. ForkedIsWatched /\ PidFileNames /\ ServersInDir
  BY DEF Init, ForkedIsWatched, PidFileNames, ServersInDir
<1>4. TreeGoesLast /\ PassedIsSafe /\ HiddenWasLeft
  BY DEF Init, TreeGoesLast, PassedIsSafe, Passed, HiddenWasLeft
<1> QED
  BY <1>1, <1>2, <1>3, <1>4 DEF IInv

(* The invariant is stronger than what it is there for.                    *)
LEMMA IInvIsEnough == IInv => NeverBeneathServer
  BY DEF IInv, TypeOK, NeverBeneathServer, TreeGoesLast, Passed, PassedIsSafe, HiddenWasLeft,
     Clusters, NoCluster

(* Outside a start and a learner's action no pg_ctl is waiting.            *)
LEMMA NobodyWaits ==
    ASSUME IInv, NEW op, Working(op), op \notin Starts \cup {"action"}
    PROVE  launcher = NoCluster
  BY DEF IInv, TypeOK, LauncherIsStarting, Starting, Working, Starts

(* A step of the script that starts no server.                             *)
LEMMA LabKeeps ==
    ASSUME IInv, phase = "work", launcher = NoCluster,
           UNCHANGED <<task, srv, launcher, cleanupVars>>,
           cancelled' = cancelled, disturbed' \in BOOLEAN, disturbed => disturbed',
           Proceed \/ Return(TRUE) \/ Return(FALSE) \/ UNCHANGED labVars,
           tree' \in {tree, "there"}, dir' \in SUBSET Clusters, dir \subseteq dir', signal' \in BOOLEAN,
           pidfile' \in SUBSET Clusters, pidfile \subseteq pidfile'
    PROVE  IInv'
<1>0. UNCHANGED <<which, look, failed, hidden>>
  BY DEF cleanupVars
<1>1. /\ phase' \in {"work", "cleanup", "exited"} /\ pc' \in Nat \ {0} /\ err' \in BOOLEAN
      /\ tree' \in {"absent", "there"}
  <2>1. tree \in {"absent", "there"} /\ pc \in Nat \ {0} /\ err \in BOOLEAN
    BY DEF IInv, TypeOK, TreeGoesLast
  <2>2. CASE Proceed
    BY <2>1, <2>2 DEF Proceed
  <2>3. CASE Return(TRUE) \/ Return(FALSE)
    BY <2>1, <2>3 DEF Return
  <2>4. CASE UNCHANGED labVars
    BY <2>1, <2>4 DEF labVars
  <2> QED
    BY <2>2, <2>3, <2>4
<1>2. TypeOK'
  BY <1>0, <1>1 DEF IInv, TypeOK
<1>3. LauncherIsStarting'
  BY DEF LauncherIsStarting, NoCluster, Clusters
<1>4. ForkedIsWatched' /\ PidFileNames' /\ ServersInDir'
  BY DEF IInv, ForkedIsWatched, PidFileNames, ServersInDir
<1>5. TreeGoesLast'
  BY <1>0, <1>1 DEF IInv, TreeGoesLast
<1>6. PassedIsSafe' /\ HiddenWasLeft'
  BY <1>0 DEF IInv, TreeGoesLast, PassedIsSafe, Passed, HiddenWasLeft
<1> QED
  BY <1>2, <1>3, <1>4, <1>5, <1>6 DEF IInv

(* The steps of the script that only touch files and the primary's data.   *)
LEMMA WorkSteps ==
    ASSUME IInv,
           \/ MakeTree \/ Configure \/ Inspect \/ InitCluster \/ Commit \/ Backup \/ SwitchWal
           \/ CopyArchive \/ Withhold \/ Clone \/ BackupForStandby \/ Ask \/ RequestPause
           \/ Found \/ NotFound \/ Seen
    PROVE  IInv'
<1> USE DEF Quietly, fileVars, serverVars
<1>0. /\ dir \in SUBSET Clusters /\ signal \in BOOLEAN /\ disturbed \in BOOLEAN /\ TRUE \in BOOLEAN
      /\ pidfile \in SUBSET Clusters
      /\ "primary" \in Clusters /\ "copy" \in Clusters
  BY DEF IInv, TypeOK, Clusters
<1>1. ASSUME NEW op, Working(op), op \notin Starts \cup {"action"}
      PROVE  phase = "work" /\ launcher = NoCluster
  BY <1>1, NobodyWaits DEF Working
<1>2. CASE MakeTree
  <2>1. phase = "work" /\ launcher = NoCluster
    BY <1>1, <1>2 DEF MakeTree, Run, Starts
  <2> QED
    BY <1>0, <1>2, <2>1, LabKeeps DEF MakeTree
<1>3. CASE Configure
  <2>1. phase = "work" /\ launcher = NoCluster
    BY <1>1, <1>3 DEF Configure, Run, Starts
  <2> QED
    BY <1>0, <1>3, <2>1, LabKeeps DEF Configure
<1>4. CASE Inspect
  <2>1. phase = "work" /\ launcher = NoCluster
    BY <1>1, <1>4 DEF Inspect, Run, Starts
  <2> QED
    BY <1>0, <1>4, <2>1, LabKeeps DEF Inspect
<1>5. CASE InitCluster
  <2>1. phase = "work" /\ launcher = NoCluster
    BY <1>1, <1>5 DEF InitCluster, Run, Starts
  <2> QED
    BY <1>0, <1>5, <2>1, LabKeeps DEF InitCluster
<1>6. CASE Commit
  <2>1. phase = "work" /\ launcher = NoCluster
    BY <1>1, <1>6 DEF Commit, Run, Starts, Records, RestorePoints
  <2> QED
    BY <1>0, <1>6, <2>1, LabKeeps DEF Commit
<1>7. CASE Backup
  <2>1. phase = "work" /\ launcher = NoCluster
    BY <1>1, <1>7 DEF Backup, Run, Starts
  <2> QED
    BY <1>0, <1>7, <2>1, LabKeeps DEF Backup
<1>8. CASE SwitchWal
  <2>1. phase = "work" /\ launcher = NoCluster
    BY <1>1, <1>8 DEF SwitchWal, Run, Starts
  <2> QED
    BY <1>0, <1>8, <2>1, LabKeeps DEF SwitchWal
<1>9. CASE CopyArchive
  <2>1. phase = "work" /\ launcher = NoCluster
    BY <1>1, <1>9 DEF CopyArchive, Run, Starts
  <2> QED
    BY <1>0, <1>9, <2>1, LabKeeps DEF CopyArchive
<1>10. CASE Withhold
  <2>1. phase = "work" /\ launcher = NoCluster
    BY <1>1, <1>10 DEF Withhold, Run, Starts
  <2> QED
    BY <1>0, <1>10, <2>1, LabKeeps DEF Withhold
<1>11. CASE Clone
  <2>1. phase = "work" /\ launcher = NoCluster
    BY <1>1, <1>11 DEF Clone, Run, Starts
  <2> QED
    BY <1>0, <1>11, <2>1, LabKeeps DEF Clone
<1>12. CASE BackupForStandby
  <2>1. phase = "work" /\ launcher = NoCluster
    BY <1>1, <1>12 DEF BackupForStandby, Run, Starts, BaseBackup
  <2> QED
    BY <1>0, <1>12, <2>1, LabKeeps DEF BackupForStandby, BaseBackup
<1>13. CASE Ask
  <2>1. phase = "work" /\ launcher = NoCluster
    BY <1>1, <1>13 DEF Ask, Run, Starts
  <2>2. Proceed /\ Quietly /\ UNCHANGED fileVars
    BY <1>13 DEF Ask
  <2> QED
    BY <1>0, <2>1, <2>2, LabKeeps
<1>14. CASE RequestPause
  <2>1. phase = "work" /\ launcher = NoCluster
    BY <1>1, <1>14 DEF RequestPause, Run, Starts
  <2> QED
    BY <1>0, <1>14, <2>1, LabKeeps DEF RequestPause
<1>15. CASE Found
  <2>1. phase = "work" /\ launcher = NoCluster
    BY <1>1, <1>15 DEF Found, Run, Starts, Checks
  <2> QED
    BY <1>0, <1>15, <2>1, LabKeeps DEF Found
<1>16. CASE NotFound
  <2>1. phase = "work" /\ launcher = NoCluster
    BY <1>1, <1>16 DEF NotFound, Run, Starts, Checks
  <2> QED
    BY <1>0, <1>16, <2>1, LabKeeps DEF NotFound
<1>17. CASE Seen
  <2>1. phase = "work" /\ launcher = NoCluster
    BY <1>1, <1>17 DEF Seen, Run, Starts, Polls
  <2> QED
    BY <1>0, <1>17, <2>1, LabKeeps DEF Seen
<1> QED
  BY <1>2, <1>3, <1>4, <1>5, <1>6, <1>7, <1>8, <1>9, <1>10, <1>11, <1>12, <1>13, <1>14, <1>15, <1>16, <1>17

(* The waits and failures of a script.                                     *)
LEMMA FailingSteps ==
    ASSUME IInv, Deadline \/ StepFails \/ Finish \/ (\E w \in Clusters : LaunchRefused(w))
    PROVE  IInv'
<1> USE DEF fileVars, serverVars
<1>0. /\ dir \in SUBSET Clusters /\ signal \in BOOLEAN /\ disturbed \in BOOLEAN
      /\ pidfile \in SUBSET Clusters
      /\ "primary" \in Clusters /\ "copy" \in Clusters
  BY DEF IInv, TypeOK, Clusters
<1>1. CASE Deadline
  <2>1. phase = "work" /\ launcher = NoCluster
    BY <1>1, NobodyWaits DEF Deadline, Polls, Starts, Working
  <2>2. Return(TRUE) /\ UNCHANGED <<task, cancelled, fileVars, serverVars, cleanupVars>>
    BY <1>1 DEF Deadline
  <2>3. disturbed' \in BOOLEAN /\ (disturbed => disturbed')
    BY <1>1 DEF Deadline
  <2> QED
    BY <1>0, <2>1, <2>2, <2>3, LabKeeps
<1>2. CASE StepFails
  <2>1. phase = "work" /\ launcher = NoCluster /\ (Proceed \/ Return(TRUE))
    BY <1>2 DEF StepFails, Working, OnError
  <2>2. UNCHANGED <<task, cancelled, tree, signal, srv, launcher, cleanupVars>>
    BY <1>2 DEF StepFails
  <2>3. disturbed' \in BOOLEAN /\ (disturbed => disturbed')
    BY <1>2 DEF StepFails
  <2>4. dir' \in SUBSET Clusters /\ dir \subseteq dir' /\ pidfile' \in SUBSET Clusters /\ pidfile \subseteq pidfile'
    BY <1>0, <1>2 DEF StepFails, Makes
  <2> QED
    BY <1>0, <2>1, <2>2, <2>3, <2>4, LabKeeps
<1>3. CASE Finish
  <2>1. launcher = NoCluster
    BY <1>3 DEF Finish, IInv, TypeOK, LauncherIsStarting, Starting, Working
  <2> QED
    BY <1>0, <1>3, <2>1, LabKeeps DEF Finish, Quietly
<1>4. ASSUME NEW w \in Clusters, LaunchRefused(w)
      PROVE  IInv'
  <2>1. phase = "work" /\ launcher = NoCluster /\ (Proceed \/ Return(TRUE))
    BY <1>4 DEF LaunchRefused, Starting, Working, OnError
  <2> QED
    BY <1>0, <1>4, <2>1, LabKeeps DEF LaunchRefused, Quietly
<1> QED
  BY <1>1, <1>2, <1>3, <1>4

(* The learner's command starts a server only after it has built a standby.*)
LEMMA ActionSteps ==
    ASSUME IInv, Action \/ ActionBuilds
    PROVE  IInv'
<1>0. /\ dir \in SUBSET Clusters /\ signal \in BOOLEAN /\ disturbed \in BOOLEAN /\ TRUE \in BOOLEAN
      /\ pidfile \in SUBSET Clusters /\ "copy" \in Clusters
  BY DEF IInv, TypeOK, Clusters
<1>1. Working("action") /\ phase = "work" /\ (Action => task.answer # "starts") /\ (ActionBuilds => ~signal)
  BY DEF Action, ActionBuilds, Run, Working
<1>2. launcher = NoCluster
  BY <1>1 DEF IInv, TypeOK, LauncherIsStarting, Starting, Working
<1>3. CASE Action
  <2>1. /\ tree' = tree /\ dir' \in {dir, dir \cup {"copy"}} /\ signal' \in {signal, TRUE}
    BY <1>3 DEF Action, BaseBackup, fileVars
  <2> QED
    BY <1>0, <1>1, <1>2, <1>3, <2>1, LabKeeps DEF Action, Quietly, serverVars
<1>4. CASE ActionBuilds
  BY <1>0, <1>1, <1>2, <1>4, LabKeeps DEF ActionBuilds, BaseBackup, Quietly, serverVars
<1> QED
  BY <1>3, <1>4

(* pg_ctl start.  What it starts is watched by it; what it leaves behind   *)
(* was disturbed or cancelled.                                             *)
LEMMA StartSteps ==
    ASSUME IInv, NEW w \in Clusters, Launch(w) \/ Started(w) \/ StartFailed(w)
    PROVE  IInv'
<1> USE DEF fileVars, cleanupVars
<1>0. launcher = w => phase = "work"
  BY DEF IInv, LauncherIsStarting, Starting, Working
<1>1. CASE Launch(w)
  <2>1. /\ phase = "work" /\ launcher = NoCluster /\ srv[w] = "none" /\ w \in dir /\ Starting(w)
        /\ srv' = [srv EXCEPT ![w] = "forked"] /\ launcher' = w
        /\ UNCHANGED <<task, phase, pc, err, cancelled, disturbed, tree, dir, signal, pidfile,
                       which, look, failed, hidden>>
    BY <1>1 DEF Launch, Starting, Working, labVars
  <2>2. TypeOK'
    BY <2>1 DEF IInv, TypeOK
  <2>3. LauncherIsStarting'
    BY <2>1 DEF LauncherIsStarting, Starting, Working, Script, Setup, Restore, History, Targeted, Standby, Replay
  <2>4. ForkedIsWatched' /\ PidFileNames' /\ ServersInDir'
    BY <2>1 DEF IInv, TypeOK, ForkedIsWatched, PidFileNames, ServersInDir, NoCluster, Clusters
  <2>5. TreeGoesLast' /\ PassedIsSafe' /\ HiddenWasLeft'
    BY <2>1 DEF IInv, TreeGoesLast, Passed, PassedIsSafe, HiddenWasLeft
  <2> QED
    BY <2>2, <2>3, <2>4, <2>5 DEF IInv
<1>2. CASE Started(w) \/ StartFailed(w)
  <2>1. /\ phase = "work" /\ launcher = w /\ launcher' = NoCluster
        /\ UNCHANGED <<task, cancelled, tree, dir, signal, pidfile, srv, which, look, failed, hidden>>
    BY <1>0, <1>2 DEF Started, StartFailed
  <2>2. Proceed \/ Return(TRUE)
    BY <1>2 DEF Started, StartFailed, OnError
  <2>3. /\ disturbed' \in BOOLEAN /\ (disturbed => disturbed')
        /\ srv[w] = "forked" => cancelled \/ disturbed'
    BY <1>2 DEF Started, StartFailed, Up, IInv, TypeOK
  <2>4. phase' \in {"work", "cleanup", "exited"} /\ pc' \in Nat \ {0} /\ err' \in BOOLEAN
    <3>1. phase \in {"work", "cleanup", "exited"} /\ pc \in Nat \ {0} /\ err \in BOOLEAN
      BY DEF IInv, TypeOK
    <3>2. CASE Proceed
      BY <3>1, <3>2 DEF Proceed
    <3>3. CASE Return(TRUE)
      BY <3>1, <3>3 DEF Return
    <3> QED
      BY <2>2, <3>2, <3>3
  <2>5. TypeOK'
    BY <2>1, <2>3, <2>4 DEF IInv, TypeOK
  <2>6. LauncherIsStarting'
    BY <2>1 DEF LauncherIsStarting, NoCluster, Clusters
  <2>7. ForkedIsWatched' /\ PidFileNames' /\ ServersInDir'
    BY <2>1, <2>3 DEF IInv, ForkedIsWatched, PidFileNames, ServersInDir
  <2>8. TreeGoesLast' /\ PassedIsSafe' /\ HiddenWasLeft'
    BY <2>1, <2>3 DEF IInv, TreeGoesLast, Passed, PassedIsSafe, HiddenWasLeft
  <2> QED
    BY <2>5, <2>6, <2>7, <2>8 DEF IInv
<1> QED
  BY <1>1, <1>2

(* The lab's step, which only its own actions change.                      *)
LEMMA StartingStays ==
    ASSUME NEW w, UNCHANGED <<task, phase, pc, signal>>, Starting(w)
    PROVE  Starting(w)'
  BY DEF Starting, Working, Script, Setup, Restore, ArchiveWork, History, Targeted, StartStandby, Standby, Replay

(* A signal touches no server and no file.                                 *)
LEMMA CancelStep ==
    ASSUME IInv, Cancel
    PROVE  IInv'
<1>1. /\ UNCHANGED <<task, phase, pc, err, disturbed, tree, dir, signal, pidfile, srv, launcher,
                     which, look, failed, hidden>>
      /\ cancelled' = TRUE
  BY DEF Cancel, labVars, fileVars, serverVars, cleanupVars
<1>2. TypeOK'
  BY <1>1 DEF IInv, TypeOK
<1>3. LauncherIsStarting'
  BY <1>1, StartingStays DEF IInv, LauncherIsStarting
<1> QED
  BY <1>1, <1>2, <1>3 DEF IInv, ForkedIsWatched, PidFileNames, ServersInDir, TreeGoesLast, Passed,
     PassedIsSafe, HiddenWasLeft

(* A server that changes by itself: it gets its pid file when it starts,   *)
(* keeps it while it runs, and none appears.                               *)
LEMMA ServersKeep ==
    ASSUME IInv, ServerStep, NEW w \in Clusters, NEW s \in {"none", "starting", "ready"},
           srv' = srv \/ (srv[w] # "none" /\ srv' = [srv EXCEPT ![w] = s]),
           pidfile' \in SUBSET Clusters, pidfile \ {w} \subseteq pidfile',
           srv'[w] \in {"starting", "ready"} => w \in pidfile',
           disturbed' \in BOOLEAN, disturbed => disturbed'
    PROVE  IInv'
<1>1. UNCHANGED <<task, phase, pc, err, cancelled, tree, dir, signal, launcher, which, look, failed, hidden>>
  BY DEF ServerStep, labVars, fileVars, cleanupVars
<1>2. TypeOK'
  <2>1. srv' \in [Clusters -> {"none", "forked", "starting", "ready"}]
    BY DEF IInv, TypeOK
  <2> QED
    BY <1>1, <2>1 DEF IInv, TypeOK
<1>3. LauncherIsStarting'
  BY <1>1, StartingStays DEF IInv, LauncherIsStarting
<1>4. \A v \in Clusters : \/ srv'[v] = srv[v]
                          \/ v = w /\ srv[v] # "none" /\ srv'[v] \in {"none", "starting", "ready"}
  BY DEF IInv, TypeOK
<1>5. ForkedIsWatched'
  <2> SUFFICES ASSUME NEW v \in Clusters, srv'[v] = "forked", launcher # v
               PROVE  cancelled \/ disturbed'
    BY <1>1 DEF ForkedIsWatched
  <2>1. srv[v] = "forked"
    BY <1>4
  <2>2. cancelled \/ disturbed
    BY <2>1 DEF IInv, ForkedIsWatched
  <2> QED
    BY <2>2
<1>6. PidFileNames'
  BY <1>4 DEF IInv, PidFileNames
<1>7. ServersInDir'
  BY <1>1, <1>4 DEF IInv, ServersInDir
<1>8. TreeGoesLast' /\ HiddenWasLeft'
  BY <1>1 DEF IInv, TreeGoesLast, HiddenWasLeft
<1>9. PassedIsSafe'
  BY <1>1, <1>4 DEF IInv, Passed, PassedIsSafe, Clusters
<1> QED
  BY <1>2, <1>3, <1>5, <1>6, <1>7, <1>8, <1>9 DEF IInv

(* What PostgreSQL does by itself keeps the cleanup's picture of it true.  *)
LEMMA ServerSteps ==
    ASSUME IInv, Servers
    PROVE  IInv'
<1>0. "copy" \in Clusters /\ pidfile \in SUBSET Clusters /\ PidFileNames /\ disturbed \in BOOLEAN
  BY DEF Clusters, IInv, TypeOK
<1>1. ASSUME NEW w \in Clusters, WritePidFile(w)
      PROVE  IInv'
  BY <1>0, <1>1, ServersKeep DEF WritePidFile, PidDue
<1>2. ASSUME NEW w \in Clusters, BecomeReady(w)
      PROVE  IInv'
  BY <1>0, <1>2, ServersKeep DEF BecomeReady, ReadyDue, PidFileNames
<1>3. ASSUME NEW w \in Clusters, ServerFails(w)
      PROVE  IInv'
  <2>1. srv[w] # "none" /\ srv' = [srv EXCEPT ![w] = "none"] /\ srv'[w] = "none"
    BY <1>3 DEF ServerFails, IInv, TypeOK
  <2>2. disturbed' \in BOOLEAN /\ (disturbed => disturbed')
    BY <1>3 DEF ServerFails
  <2> QED
    BY <1>0, <1>3, <2>1, <2>2, ServersKeep DEF ServerFails
<1>4. CASE RecoveryFails
  <2>1. srv["copy"] # "none" /\ srv' = [srv EXCEPT !["copy"] = "none"] /\ srv'["copy"] = "none"
    BY <1>0, <1>4 DEF RecoveryFails, NoStartDue, TornDue, IInv, TypeOK
  <2> QED
    BY <1>0, <1>4, <2>1, ServersKeep DEF RecoveryFails
<1>5. CASE ReplayRecord \/ Connect \/ Receive \/ PauseTakesHold \/ Archive
  <2>1. ServerStep /\ UNCHANGED <<disturbed, pidfile, srv>>
    BY <1>5 DEF ReplayRecord, Connect, Receive, PauseTakesHold, Archive
  <2> QED
    BY <1>0, <2>1, ServersKeep DEF PidFileNames
<1> QED
  BY <1>1, <1>2, <1>3, <1>4, <1>5 DEF Servers

----------------------------------------------------------------------------
(* The cleanup.                                                            *)
LEMMA CleanupSteps ==
    ASSUME IInv, Cleanup
    PROVE  IInv'
<1> USE DEF CleanupStep, labVars
<1>0. /\ phase = "cleanup" /\ launcher = NoCluster /\ tree # "gone"
      /\ \A w \in Clusters : srv[w] = "forked" => cancelled \/ disturbed
  <2>1. phase = "cleanup"
    BY DEF Cleanup, LookForPidFile, Stop, StopFails, Status, StatusFails, Retain, Remove, RemoveFails
  <2>2. launcher = NoCluster
    BY <2>1 DEF IInv, TypeOK, LauncherIsStarting, Starting, Working
  <2> QED
    BY <2>1, <2>2 DEF IInv, TreeGoesLast, ForkedIsWatched, Clusters, NoCluster
<1>t. /\ err \in BOOLEAN /\ disturbed \in BOOLEAN /\ failed \in BOOLEAN /\ TRUE \in BOOLEAN
      /\ tree \in {"absent", "there"} /\ pidfile \in SUBSET Clusters /\ hidden \in SUBSET Clusters
      /\ srv \in [Clusters -> {"none", "forked", "starting", "ready"}]
      /\ which \in Clusters \cup {NoCluster} /\ look \in {"pid", "stop", "status"}
      /\ phase \in {"cleanup", "exited"}
  BY <1>0 DEF IInv, TypeOK
<1>1. ASSUME UNCHANGED <<task, pc, cancelled, dir, signal, launcher>>,
             phase' \in {"cleanup", "exited"}, err' \in BOOLEAN, disturbed' \in BOOLEAN,
             tree' \in {"absent", "there", "gone"}, pidfile' \in SUBSET Clusters,
             srv' \in [Clusters -> {"none", "forked", "starting", "ready"}],
             which' \in Clusters \cup {NoCluster}, look' \in {"pid", "stop", "status"},
             failed' \in BOOLEAN, hidden' \in SUBSET Clusters
      PROVE  TypeOK' /\ LauncherIsStarting'
  BY <1>0, <1>1 DEF IInv, TypeOK, LauncherIsStarting, Clusters, NoCluster
<1>2. CASE LookForPidFile
  <2>1. UNCHANGED <<task, phase, pc, err, cancelled, disturbed, tree, dir, signal, launcher, pidfile, srv,
                    which, failed, hidden>> /\ look' \in {"stop", "status"}
    BY <1>2 DEF LookForPidFile
  <2>2. TypeOK' /\ LauncherIsStarting'
    BY <1>1, <1>t, <2>1
  <2> QED
    BY <1>0, <2>1, <2>2 DEF IInv, ForkedIsWatched, PidFileNames, ServersInDir, TreeGoesLast, Passed,
       PassedIsSafe, HiddenWasLeft
<1>3. CASE Stop
  <2>1. /\ UNCHANGED <<task, phase, pc, err, cancelled, disturbed, tree, dir, signal, launcher,
                       which, failed, hidden>>
        /\ look' = "status" /\ srv' = [srv EXCEPT ![which] = "none"] /\ pidfile' = pidfile \ {which}
    BY <1>3 DEF Stop
  <2>2. /\ srv' \in [Clusters -> {"none", "forked", "starting", "ready"}]
        /\ \A w \in Clusters : srv'[w] = "none" \/ (w # which /\ srv'[w] = srv[w])
    BY <2>1 DEF IInv, TypeOK
  <2>3. TypeOK' /\ LauncherIsStarting'
    BY <1>1, <1>t, <2>1, <2>2
  <2>4. ForkedIsWatched' /\ PidFileNames' /\ ServersInDir'
    BY <2>1, <2>2 DEF IInv, ForkedIsWatched, PidFileNames, ServersInDir
  <2>5. TreeGoesLast' /\ HiddenWasLeft'
    BY <2>1 DEF IInv, TreeGoesLast, HiddenWasLeft
  <2>6. PassedIsSafe'
    BY <2>1, <2>2 DEF IInv, Passed, PassedIsSafe, Clusters
  <2> QED
    BY <2>3, <2>4, <2>5, <2>6 DEF IInv
<1>4. CASE StopFails
  <2>1. /\ UNCHANGED <<task, phase, pc, err, cancelled, tree, dir, signal, launcher, pidfile, srv,
                       which, hidden>>
        /\ failed' = TRUE /\ look' = "status"
    BY <1>4 DEF StopFails
  <2>2. disturbed' \in BOOLEAN /\ (disturbed => disturbed')
    BY <1>4 DEF StopFails, IInv, TypeOK
  <2>3. TypeOK' /\ LauncherIsStarting'
    BY <1>1, <1>t, <2>1, <2>2
  <2> QED
    BY <1>0, <2>1, <2>2, <2>3 DEF IInv, ForkedIsWatched, PidFileNames, ServersInDir, TreeGoesLast,
       PassedIsSafe, HiddenWasLeft
<1>5. ASSUME NEW d \in BOOLEAN, NEW f \in BOOLEAN, NEW h \in SUBSET Clusters,
             phase = "cleanup", which # NoCluster,
             disturbed => d, failed => f, hidden \subseteq h,
             f \/ srv[which] = "none" \/ which \in h,
             h # {} => cancelled \/ d,
             UNCHANGED <<task, phase, pc, err, cancelled, tree, dir, signal, launcher, pidfile, srv>>,
             disturbed' = d, failed' = f, hidden' = h, which' = NextCluster, look' = "pid"
      PROVE  IInv'
  <2>1. which' \in Clusters \cup {NoCluster}
    BY <1>5 DEF NextCluster, Clusters
  <2>2. TypeOK' /\ LauncherIsStarting'
    BY <1>1, <1>t, <1>5, <2>1
  <2>3. ForkedIsWatched' /\ PidFileNames' /\ ServersInDir'
    BY <1>5 DEF IInv, ForkedIsWatched, PidFileNames, ServersInDir
  <2>4. TreeGoesLast' /\ HiddenWasLeft'
    BY <1>0, <1>5 DEF IInv, TreeGoesLast, HiddenWasLeft
  <2>5. PassedIsSafe'
    BY <1>5, <2>1 DEF IInv, TypeOK, Passed, PassedIsSafe, Clusters, NoCluster, NextCluster
  <2> QED
    BY <2>2, <2>3, <2>4, <2>5 DEF IInv
<1>6. CASE Status
  <2> DEFINE seen == which \in dir /\ which \in pidfile /\ srv[which] \in {"starting", "ready"}
             f == failed \/ seen
             h == IF srv[which] # "none" /\ ~seen THEN hidden \cup {which} ELSE hidden
  <2>1. /\ failed' = f /\ hidden' = h /\ which' = NextCluster /\ look' = "pid"
        /\ UNCHANGED <<task, phase, pc, err, cancelled, disturbed, tree, dir, signal, launcher, pidfile, srv>>
    BY <1>6 DEF Status
  <2>2. phase = "cleanup" /\ which \in Clusters
    BY <1>0, <1>t, <1>6 DEF Status, IInv, TypeOK
  <2>3. seen \/ srv[which] = "none" \/ srv[which] = "forked"
    BY <1>t, <2>2 DEF IInv, PidFileNames, ServersInDir
  <2>4. h \in SUBSET Clusters /\ hidden \subseteq h /\ f \in BOOLEAN /\ (failed => f)
    BY <1>t, <2>2
  <2>5. f \/ srv[which] = "none" \/ which \in h
    OBVIOUS
  <2>6. h # {} => cancelled \/ disturbed
    BY <1>0, <2>2, <2>3 DEF IInv, HiddenWasLeft
  <2> HIDE DEF seen, f, h
  <2> QED
    BY <1>t, <1>5, <2>1, <2>2, <2>4, <2>5, <2>6, NoCluster \notin Clusters DEF NoCluster, Clusters
<1>7. CASE StatusFails
  <2>1. /\ failed' = TRUE /\ disturbed' = TRUE /\ hidden' = hidden /\ which' = NextCluster /\ look' = "pid"
        /\ UNCHANGED <<task, phase, pc, err, cancelled, tree, dir, signal, launcher, pidfile, srv>>
        /\ which \in dir
    BY <1>7 DEF StatusFails
  <2>2. which # NoCluster
    BY <2>1 DEF IInv, TypeOK, NoCluster, Clusters
  <2> QED
    BY <1>0, <1>t, <1>5, <2>1, <2>2
<1>8. CASE Retain \/ Remove \/ RemoveFails
  <2>1. /\ UNCHANGED <<task, pc, cancelled, dir, signal, launcher, pidfile, srv, which, look, failed, hidden>>
        /\ phase' = "exited" /\ which = NoCluster
        /\ tree' = "gone" => ~failed
    BY <1>0, <1>8 DEF Retain, Remove, RemoveFails
  <2>2. err' \in BOOLEAN /\ tree' \in {"absent", "there", "gone"}
    BY <1>8 DEF Retain, Remove, RemoveFails, IInv, TypeOK
  <2>3. disturbed' \in BOOLEAN /\ (disturbed => disturbed')
    BY <1>8 DEF Retain, Remove, RemoveFails, IInv, TypeOK
  <2>4. TypeOK' /\ LauncherIsStarting'
    BY <1>1, <1>t, <2>1, <2>2, <2>3
  <2> QED
    BY <1>0, <2>1, <2>3, <2>4 DEF IInv, ForkedIsWatched, PidFileNames, ServersInDir, TreeGoesLast, Passed,
       PassedIsSafe, HiddenWasLeft
<1> QED
  BY <1>2, <1>3, <1>4, <1>6, <1>7, <1>8 DEF Cleanup

----------------------------------------------------------------------------
(* The invariant is inductive.                                             *)
LEMMA NextKeeps ==
    ASSUME IInv, [Next]_vars
    PROVE  IInv'
<1>1. CASE Lab
  BY <1>1, WorkSteps, FailingSteps, ActionSteps, StartSteps, CleanupSteps DEF Lab, Script1, Script2
<1>2. CASE Cancel \/ Servers
  BY <1>2, CancelStep, ServerSteps
<1>3. CASE UNCHANGED vars
  <2>1. UNCHANGED <<task, phase, pc, err, cancelled, disturbed, tree, dir, signal, pidfile, srv, launcher,
                    which, look, failed, hidden>>
    BY <1>3 DEF vars, labVars, fileVars, serverVars, cleanupVars
  <2>2. LauncherIsStarting'
    BY <2>1, StartingStays DEF IInv, LauncherIsStarting
  <2> QED
    BY <2>1, <2>2 DEF IInv, TypeOK, ForkedIsWatched, PidFileNames, ServersInDir, TreeGoesLast, Passed,
       PassedIsSafe, HiddenWasLeft
<1> QED
  BY <1>1, <1>2, <1>3 DEF Next, Exited

(* It holds in every state.                                                *)
LEMMA InvariantHolds == Spec => []IInv
  BY InitHolds, NextKeeps, PTL DEF Spec

(* The cleanup's own state and the servers have their types, for any set   *)
(* of tasks.                                                               *)
THEOREM RecoveryLabTypes == Spec => []TypeOK
<1>1. IInv => TypeOK
  BY DEF IInv
<1> QED
  BY InvariantHolds, <1>1, PTL

(* main.go:557: files go only when no server runs on them, but for one     *)
(* that a cut-short or disturbed pg_ctl left behind before it had a pid    *)
(* file.                                                                   *)
THEOREM CleanupSparesServers == Spec => []NeverBeneathServer
  BY InvariantHolds, IInvIsEnough, PTL

----------------------------------------------------------------------------
(* The places in the scripts that a clean exit depends on: a failure is    *)
(* expected of one step of lesson 28 only, which starts the copy for the   *)
(* first time, and the log is looked at right behind it.                   *)
Expecting == "start_copy_expecting_failure"
Looking == "look_in_log"
StartCopy == "start_copy"
ExpectAt == 20

(* The steps before it.                                                    *)
Preparing == {"preflight", "mkdtemp", "mkdirs", "initdb", "config", "start_primary", "identity", "baseline",
              "backup", "accepted", "before_bad", "bad", "after_bad", "switch", "await_archived",
              "cp_archive", "withhold", "clone"}

(* The names are different ones.                                           *)
LEMMA Apart == /\ Expecting \notin Preparing /\ "mkdtemp" # Expecting
               /\ {StartCopy, "action", Expecting} \cap Preparing = {}
  BY DEF Expecting, StartCopy, Preparing

(* The script of lesson 27 step by step, ...                               *)
LEMMA RestorePlaces ==
    ASSUME task.lesson = 27
    PROVE  /\ Len(Script) = 19 /\ DOMAIN Script = 1 .. 19
           /\ Script[1] = "preflight" /\ Script[2] = "mkdtemp" /\ Script[3] = "mkdirs"
           /\ Script[4] = "initdb" /\ Script[5] = "config"
           /\ Script[6] = "start_primary" /\ Script[7] = "identity"
           /\ Script[8] = "baseline" /\ Script[9] = "ask_primary"
           /\ Script[10] = "backup" /\ Script[11] = "verifybackup"
           /\ Script[12] = "later" /\ Script[13] = "clone" /\ Script[14] = "config"
           /\ Script[15] = "start_copy" /\ Script[16] = "ask_copy"
           /\ Script[17] = "ask_primary" /\ Script[18] = "check_copy"
           /\ Script[19] = "compare_answers"
  BY DEF Script, Setup, Restore

(* ... and where each of its steps can be.                                 *)
LEMMA RestoreAt ==
    ASSUME task.lesson = 27, NEW op, Working(op)
    PROVE  /\ pc \in 1 .. 19
           /\ op \in {"preflight", "mkdtemp", "mkdirs", "initdb", "config", "start_primary", "identity",
                      "baseline", "ask_primary", "backup", "verifybackup", "later", "clone", "start_copy",
                      "ask_copy", "check_copy", "compare_answers"}
           /\ (op = "preflight" => pc = 1) /\ (op = "mkdtemp" => pc = 2)
           /\ (op = "mkdirs" => pc = 3) /\ (op = "initdb" => pc = 4)
           /\ (op = "config" => pc \in {5, 14}) /\ (op = "start_primary" => pc = 6)
           /\ (op = "identity" => pc = 7) /\ (op = "baseline" => pc = 8)
           /\ (op = "ask_primary" => pc \in {9, 17}) /\ (op = "backup" => pc = 10)
           /\ (op = "verifybackup" => pc = 11) /\ (op = "later" => pc = 12)
           /\ (op = "clone" => pc = 13) /\ (op = "start_copy" => pc = 15)
           /\ (op = "ask_copy" => pc = 16) /\ (op = "check_copy" => pc = 18)
           /\ (op = "compare_answers" => pc = 19)
  BY RestorePlaces DEF Working

(* The script of lesson 28.                                                *)
LEMMA HistoryPlaces ==
    ASSUME task.lesson = 28
    PROVE  /\ Len(Script) = 27 /\ DOMAIN Script = 1 .. 27
           /\ Script[1] = "preflight" /\ Script[2] = "mkdtemp" /\ Script[3] = "mkdirs"
           /\ Script[4] = "initdb" /\ Script[5] = "config"
           /\ Script[6] = "start_primary" /\ Script[7] = "identity"
           /\ Script[8] = "baseline" /\ Script[9] = "backup" /\ Script[10] = "accepted"
           /\ Script[11] = "before_bad" /\ Script[12] = "bad"
           /\ Script[13] = "after_bad" /\ Script[14] = "switch"
           /\ Script[15] = "await_archived" /\ Script[16] = "cp_archive"
           /\ Script[17] = "withhold" /\ Script[18] = "clone" /\ Script[19] = "config"
           /\ Script[20] = "start_copy_expecting_failure" /\ Script[21] = "look_in_log"
           /\ Script[22] = "action" /\ Script[23] = "compare_segment"
           /\ Script[24] = "start_copy" /\ Script[25] = "await_paused"
           /\ Script[26] = "check_copy" /\ Script[27] = "compare_original"
  BY DEF Script, Setup, History, ArchiveWork

(* ... and where each of its steps can be.                                 *)
LEMMA HistoryAt ==
    ASSUME task.lesson = 28, NEW op, Working(op)
    PROVE  /\ pc \in 1 .. 27
           /\ op \in {"preflight", "mkdtemp", "mkdirs", "initdb", "config", "start_primary", "identity",
                      "baseline", "backup", "accepted", "before_bad", "bad", "after_bad", "switch",
                      "await_archived", "cp_archive", "withhold", "clone", "start_copy_expecting_failure",
                      "look_in_log", "action", "compare_segment", "start_copy", "await_paused", "check_copy",
                      "compare_original"}
           /\ (op = "preflight" => pc = 1) /\ (op = "mkdtemp" => pc = 2)
           /\ (op = "mkdirs" => pc = 3) /\ (op = "initdb" => pc = 4)
           /\ (op = "config" => pc \in {5, 19}) /\ (op = "start_primary" => pc = 6)
           /\ (op = "identity" => pc = 7) /\ (op = "baseline" => pc = 8)
           /\ (op = "backup" => pc = 9) /\ (op = "accepted" => pc = 10)
           /\ (op = "before_bad" => pc = 11) /\ (op = "bad" => pc = 12)
           /\ (op = "after_bad" => pc = 13) /\ (op = "switch" => pc = 14)
           /\ (op = "await_archived" => pc = 15) /\ (op = "cp_archive" => pc = 16)
           /\ (op = "withhold" => pc = 17) /\ (op = "clone" => pc = 18)
           /\ (op = "start_copy_expecting_failure" => pc = 20)
           /\ (op = "look_in_log" => pc = 21) /\ (op = "action" => pc = 22)
           /\ (op = "compare_segment" => pc = 23) /\ (op = "start_copy" => pc = 24)
           /\ (op = "await_paused" => pc = 25) /\ (op = "check_copy" => pc = 26)
           /\ (op = "compare_original" => pc = 27)
  BY HistoryPlaces DEF Working

(* The script of lesson 29.                                                *)
LEMMA TargetedPlaces ==
    ASSUME task.lesson = 29
    PROVE  /\ Len(Script) = 23 /\ DOMAIN Script = 1 .. 23
           /\ Script[1] = "preflight" /\ Script[2] = "mkdtemp" /\ Script[3] = "mkdirs"
           /\ Script[4] = "initdb" /\ Script[5] = "config"
           /\ Script[6] = "start_primary" /\ Script[7] = "identity"
           /\ Script[8] = "baseline" /\ Script[9] = "backup" /\ Script[10] = "accepted"
           /\ Script[11] = "before_bad" /\ Script[12] = "bad"
           /\ Script[13] = "after_bad" /\ Script[14] = "switch"
           /\ Script[15] = "await_archived" /\ Script[16] = "cp_archive"
           /\ Script[17] = "clone" /\ Script[18] = "config" /\ Script[19] = "start_copy"
           /\ Script[20] = "await_paused" /\ Script[21] = "check_primary"
           /\ Script[22] = "find_target" /\ Script[23] = "check_copy"
  BY DEF Script, Setup, Targeted, ArchiveWork

(* ... and where each of its steps can be.                                 *)
LEMMA TargetedAt ==
    ASSUME task.lesson = 29, NEW op, Working(op)
    PROVE  /\ pc \in 1 .. 23
           /\ op \in {"preflight", "mkdtemp", "mkdirs", "initdb", "config", "start_primary", "identity",
                      "baseline", "backup", "accepted", "before_bad", "bad", "after_bad", "switch",
                      "await_archived", "cp_archive", "clone", "start_copy", "await_paused", "check_primary",
                      "find_target", "check_copy"}
           /\ (op = "preflight" => pc = 1) /\ (op = "mkdtemp" => pc = 2)
           /\ (op = "mkdirs" => pc = 3) /\ (op = "initdb" => pc = 4)
           /\ (op = "config" => pc \in {5, 18}) /\ (op = "start_primary" => pc = 6)
           /\ (op = "identity" => pc = 7) /\ (op = "baseline" => pc = 8)
           /\ (op = "backup" => pc = 9) /\ (op = "accepted" => pc = 10)
           /\ (op = "before_bad" => pc = 11) /\ (op = "bad" => pc = 12)
           /\ (op = "after_bad" => pc = 13) /\ (op = "switch" => pc = 14)
           /\ (op = "await_archived" => pc = 15) /\ (op = "cp_archive" => pc = 16)
           /\ (op = "clone" => pc = 17) /\ (op = "start_copy" => pc = 19)
           /\ (op = "await_paused" => pc = 20) /\ (op = "check_primary" => pc = 21)
           /\ (op = "find_target" => pc = 22) /\ (op = "check_copy" => pc = 23)
  BY TargetedPlaces DEF Working

(* The script of lesson 30.                                                *)
LEMMA StandbyPlaces ==
    ASSUME task.lesson = 30
    PROVE  /\ Len(Script) = 17 /\ DOMAIN Script = 1 .. 17
           /\ Script[1] = "preflight" /\ Script[2] = "mkdtemp" /\ Script[3] = "mkdirs"
           /\ Script[4] = "initdb" /\ Script[5] = "config"
           /\ Script[6] = "start_primary" /\ Script[7] = "identity"
           /\ Script[8] = "baseline" /\ Script[9] = "action"
           /\ Script[10] = "find_signal" /\ Script[11] = "config"
           /\ Script[12] = "start_copy" /\ Script[13] = "check_recovery"
           /\ Script[14] = "await_streaming" /\ Script[15] = "marker"
           /\ Script[16] = "await_visible" /\ Script[17] = "check_copy"
  BY DEF Script, Setup, Standby, StartStandby

(* ... and where each of its steps can be.                                 *)
LEMMA StandbyAt ==
    ASSUME task.lesson = 30, NEW op, Working(op)
    PROVE  /\ pc \in 1 .. 17
           /\ op \in {"preflight", "mkdtemp", "mkdirs", "initdb", "config", "start_primary", "identity",
                      "baseline", "action", "find_signal", "start_copy", "check_recovery", "await_streaming",
                      "marker", "await_visible", "check_copy"}
           /\ (op = "preflight" => pc = 1) /\ (op = "mkdtemp" => pc = 2)
           /\ (op = "mkdirs" => pc = 3) /\ (op = "initdb" => pc = 4)
           /\ (op = "config" => pc \in {5, 11}) /\ (op = "start_primary" => pc = 6)
           /\ (op = "identity" => pc = 7) /\ (op = "baseline" => pc = 8)
           /\ (op = "action" => pc = 9) /\ (op = "find_signal" => pc = 10)
           /\ (op = "start_copy" => pc = 12) /\ (op = "check_recovery" => pc = 13)
           /\ (op = "await_streaming" => pc = 14) /\ (op = "marker" => pc = 15)
           /\ (op = "await_visible" => pc = 16) /\ (op = "check_copy" => pc = 17)
  BY StandbyPlaces DEF Working

(* The script of lesson 31.                                                *)
LEMMA ReplayPlaces ==
    ASSUME task.lesson = 31
    PROVE  /\ Len(Script) = 22 /\ DOMAIN Script = 1 .. 22
           /\ Script[1] = "preflight" /\ Script[2] = "mkdtemp" /\ Script[3] = "mkdirs"
           /\ Script[4] = "initdb" /\ Script[5] = "config"
           /\ Script[6] = "start_primary" /\ Script[7] = "identity"
           /\ Script[8] = "baseline" /\ Script[9] = "backup_R"
           /\ Script[10] = "find_signal" /\ Script[11] = "config"
           /\ Script[12] = "start_copy" /\ Script[13] = "check_recovery"
           /\ Script[14] = "await_streaming" /\ Script[15] = "pause"
           /\ Script[16] = "await_paused" /\ Script[17] = "marker"
           /\ Script[18] = "await_received" /\ Script[19] = "check_held"
           /\ Script[20] = "action" /\ Script[21] = "await_resumed"
           /\ Script[22] = "check_resumed"
  BY DEF Script, Setup, Replay, StartStandby

(* ... and where each of its steps can be.                                 *)
LEMMA ReplayAt ==
    ASSUME task.lesson = 31, NEW op, Working(op)
    PROVE  /\ pc \in 1 .. 22
           /\ op \in {"preflight", "mkdtemp", "mkdirs", "initdb", "config", "start_primary", "identity",
                      "baseline", "backup_R", "find_signal", "start_copy", "check_recovery",
                      "await_streaming", "pause", "await_paused", "marker", "await_received", "check_held",
                      "action", "await_resumed", "check_resumed"}
           /\ (op = "preflight" => pc = 1) /\ (op = "mkdtemp" => pc = 2)
           /\ (op = "mkdirs" => pc = 3) /\ (op = "initdb" => pc = 4)
           /\ (op = "config" => pc \in {5, 11}) /\ (op = "start_primary" => pc = 6)
           /\ (op = "identity" => pc = 7) /\ (op = "baseline" => pc = 8)
           /\ (op = "backup_R" => pc = 9) /\ (op = "find_signal" => pc = 10)
           /\ (op = "start_copy" => pc = 12) /\ (op = "check_recovery" => pc = 13)
           /\ (op = "await_streaming" => pc = 14) /\ (op = "pause" => pc = 15)
           /\ (op = "await_paused" => pc = 16) /\ (op = "marker" => pc = 17)
           /\ (op = "await_received" => pc = 18) /\ (op = "check_held" => pc = 19)
           /\ (op = "action" => pc = 20) /\ (op = "await_resumed" => pc = 21)
           /\ (op = "check_resumed" => pc = 22)
  BY ReplayPlaces DEF Working

(* A task is about one of the five lessons.                                *)
LEMMA FiveLessons ==
    ASSUME task \in Tasks
    PROVE  task.lesson \in {27, 28, 29, 30, 31}
  BY TasksAssumption

(* What the exit depends on, by the step the lab is at.                    *)
LEMMA ScriptPlaces ==
    ASSUME task \in Tasks, pc \in Nat \ {0}
    PROVE  /\ pc \notin DOMAIN Script => pc > 2
           /\ pc = 2 /\ phase = "work" => Working("mkdtemp")
           /\ Working(Expecting) => task.lesson = 28 /\ pc = ExpectAt
           /\ task.lesson = 28 /\ pc < ExpectAt /\ phase = "work" => \E op \in Preparing : Working(op)
           /\ task.lesson = 28 /\ pc = ExpectAt /\ phase = "work" => Working(Expecting)
           /\ task.lesson = 28 /\ pc = ExpectAt + 1 /\ phase = "work" => Working(Looking)
<1>1. CASE task.lesson = 28
  <2>1. Working(Expecting) => pc = ExpectAt
    BY <1>1, HistoryAt DEF Expecting, ExpectAt
  <2>2. \A k \in 1 .. 19 : Script[k] \in Preparing
    BY <1>1, HistoryPlaces DEF Preparing
  <2>3. pc < ExpectAt => pc \in 1 .. 19
    BY DEF ExpectAt
  <2> QED
    BY <1>1, <2>1, <2>2, <2>3, HistoryPlaces DEF Working, Expecting, Looking, ExpectAt
<1>2. CASE task.lesson # 28
  <2>1. task.lesson \in {27, 29, 30, 31}
    BY <1>2, FiveLessons
  <2>2. 1 .. 2 \subseteq DOMAIN Script /\ Script[2] = "mkdtemp"
    BY <2>1, RestorePlaces, TargetedPlaces, StandbyPlaces, ReplayPlaces
  <2>3. ~Working(Expecting)
    BY <2>1, RestoreAt, TargetedAt, StandbyAt, ReplayAt DEF Expecting
  <2> QED
    BY <1>2, <2>2, <2>3 DEF Working
<1> QED
  BY <1>1, <1>2

(* What a clean exit depends on: a server is left behind with no failure   *)
(* only where lesson 28 expects its first start of the copy to fail, and   *)
(* from there the script goes on only when the log shows that the server   *)
(* gave up by itself.                                                      *)
CopyFields == DOMAIN copy = {"received", "replayed", "pause", "refused"}
TreeExists ==
    /\ phase = "work" /\ pc > 2 => tree = "there"
    /\ phase = "cleanup" => tree = "there"
    /\ phase = "exited" /\ ~err => tree = "gone"
ForkedIsLookedFor ==
    phase = "work" => \A w \in Clusters : srv[w] = "forked" /\ launcher # w =>
        w = "copy" /\ task.lesson = 28 /\ pc = ExpectAt + 1 /\ ~copy.refused
RefusedOnceStarted ==
    task.lesson = 28 /\ phase = "work" /\ pc <= ExpectAt =>
        /\ srv["copy"] # "none" => ~copy.refused /\ launcher = "copy"
        /\ launcher # "copy" => srv["copy"] = "none" /\ ~copy.refused
NothingHidden ==
    phase # "work" /\ ~err => hidden = {} /\ \A w \in Clusters : srv[w] # "forked"

EInv == CopyFields /\ TreeExists /\ ForkedIsLookedFor /\ RefusedOnceStarted /\ NothingHidden

(* Nothing runs and nothing is hidden at first.                            *)
LEMMA InitExits == Init => EInv
<1> SUFFICES ASSUME Init PROVE EInv
  OBVIOUS
<1>1. CopyFields /\ ~copy.refused /\ pc = 1 /\ phase = "work" /\ \A w \in Clusters : srv[w] = "none"
  BY DEF Init, CopyFields
<1>2. "copy" \in Clusters
  BY DEF Clusters
<1> QED
  BY <1>1, <1>2 DEF EInv, TreeExists, ForkedIsLookedFor, RefusedOnceStarted, NothingHidden

(* At the exit the cleanup has passed both clusters and saw all there was. *)
LEMMA EInvIsEnough == IInv /\ EInv => CleanExit
  BY DEF IInv, EInv, CleanExit, TreeExists, TreeGoesLast, PassedIsSafe, Passed, NothingHidden, Clusters, NoCluster

(* The step the lab is at is one; where it cannot be a start.              *)
StartPrimary == "start_primary"

(* The step a waiting pg_ctl belongs to.                                   *)
LEMMA StartingAt ==
    ASSUME NEW w \in Clusters, Starting(w)
    PROVE  \/ w = "primary" /\ Working(StartPrimary)
           \/ w = "copy" /\ (Working(StartCopy) \/ Working(Expecting) \/ Working("action"))
  BY Zenon DEF Starting, StartPrimary, StartCopy, Expecting

(* Steps that start a server make no tree and look in no log.              *)
LEMMA StartsApart == /\ StartPrimary # Expecting /\ StartCopy # Expecting /\ "action" # Expecting
                     /\ {StartPrimary, StartCopy, Expecting, "action"} \cap {"mkdtemp", Looking} = {}
  BY DEF StartPrimary, StartCopy, Expecting, Looking

(* A step that makes no tree and looks in no log has another place.        *)
LEMMA Elsewhere ==
    ASSUME IInv, NEW op, Working(op), op # "mkdtemp", op # Looking
    PROVE  pc # 2 /\ (task.lesson = 28 => pc # ExpectAt + 1)
<1>1. task \in Tasks /\ pc \in Nat \ {0} /\ phase = "work"
  BY DEF IInv, TypeOK, Working
<1>2. \A other : Working(other) => other = op
  BY DEF Working
<1> QED
  BY <1>1, <1>2, ScriptPlaces

(* Where in the scripts a server is started.                               *)
LEMMA StartingPlaces ==
    ASSUME IInv, NEW w \in Clusters, Starting(w)
    PROVE  /\ phase = "work" /\ pc # 2 /\ (task.lesson = 28 => pc # ExpectAt + 1)
           /\ task.lesson = 28 /\ pc <= ExpectAt /\ w = "copy" => pc = ExpectAt
           /\ Working(Expecting) => w = "copy" /\ task.lesson = 28 /\ pc = ExpectAt
<1>1. task \in Tasks /\ pc \in Nat \ {0}
  BY DEF IInv, TypeOK
<1>2. PICK op \in {StartPrimary, StartCopy, Expecting, "action"} :
          Working(op) /\ (w = "primary" => op = StartPrimary) /\ (w = "copy" => op # StartPrimary)
  <2>1. StartPrimary \notin {StartCopy, Expecting, "action"} /\ "primary" # "copy"
    BY DEF StartPrimary, StartCopy, Expecting
  <2> QED
    BY <2>1, StartingAt, Zenon
<1>3. phase = "work" /\ \A other : Working(other) => other = op
  BY <1>2 DEF Working
<1>4. pc # 2 /\ (task.lesson = 28 => pc # ExpectAt + 1)
  BY <1>2, Elsewhere, StartsApart
<1>5. w = "primary" \/ w = "copy"
  BY DEF Clusters
<1>6. task.lesson = 28 /\ pc <= ExpectAt /\ w = "copy" => pc = ExpectAt
  <2> SUFFICES ASSUME task.lesson = 28, pc < ExpectAt, w = "copy" PROVE FALSE
    BY <1>1 DEF ExpectAt
  <2>1. op \in Preparing
    BY <1>1, <1>3, ScriptPlaces
  <2>2. op \in {StartCopy, Expecting, "action"}
    BY <1>2
  <2> QED
    BY <2>1, <2>2, Apart
<1>7. Working(Expecting) => w = "copy" /\ task.lesson = 28 /\ pc = ExpectAt
  BY <1>1, <1>2, <1>3, <1>5, ScriptPlaces, StartsApart
<1> QED
  BY <1>3, <1>4, <1>6, <1>7

(* A step of the script while no pg_ctl waits.                             *)
LEMMA LabExits ==
    ASSUME IInv, EInv, phase = "work", launcher = NoCluster,
           UNCHANGED <<task, srv, launcher, hidden>>,
           DOMAIN copy' = DOMAIN copy, copy'.refused = copy.refused,
           tree' \in {tree, "there"},
           Proceed \/ Return(TRUE) \/ UNCHANGED labVars,
           Proceed /\ pc = 2 => tree' = "there",
           Proceed /\ task.lesson = 28 /\ pc = ExpectAt + 1 => copy.refused
    PROVE  EInv'
<1>1. /\ pc \in Nat \ {0} /\ tree \in {"absent", "there"} /\ NoCluster \notin Clusters
      /\ launcher # "copy"
  BY DEF IInv, TypeOK, TreeGoesLast, Clusters, NoCluster
<1>2. CopyFields'
  BY DEF EInv, CopyFields
<1>3. CASE Proceed
  <2>1. phase' = "work" /\ pc' = pc + 1
    BY <1>3 DEF Proceed
  <2>2. TreeExists'
    BY <1>1, <1>3, <2>1 DEF EInv, TreeExists
  <2>3. ForkedIsLookedFor'
    BY <1>1, <1>3 DEF EInv, ForkedIsLookedFor
  <2>4. RefusedOnceStarted'
    BY <1>1, <2>1 DEF EInv, RefusedOnceStarted, ExpectAt
  <2>5. NothingHidden'
    BY <2>1 DEF NothingHidden
  <2> QED
    BY <1>2, <2>2, <2>3, <2>4, <2>5 DEF EInv
<1>4. CASE Return(TRUE)
  <2>1. phase' = (IF tree = "absent" THEN "exited" ELSE "cleanup") /\ err' = TRUE /\ phase' # "work"
    BY <1>4 DEF Return
  <2> QED
    BY <1>1, <1>2, <2>1 DEF EInv, TreeExists, ForkedIsLookedFor, RefusedOnceStarted, NothingHidden
<1>5. CASE UNCHANGED labVars
  BY <1>1, <1>2, <1>5 DEF labVars, EInv, TreeExists, ForkedIsLookedFor, RefusedOnceStarted, NothingHidden
<1> QED
  BY <1>3, <1>4, <1>5


(* The steps of the script that succeed.                                   *)
LEMMA WorkExits ==
    ASSUME IInv, EInv, Script1 \/ Seen
    PROVE  EInv'
<1> USE DEF Quietly, fileVars, serverVars, cleanupVars, dataVars
<1>0. tree \in {tree, "there"}
  OBVIOUS
<1>1. ASSUME NEW op, Working(op), op \notin Starts \cup {"action", "mkdtemp", "look_in_log"}
      PROVE  phase = "work" /\ launcher = NoCluster /\ pc # 2 /\ (task.lesson = 28 => pc # ExpectAt + 1)
  <2>1. launcher = NoCluster /\ phase = "work"
    BY <1>1, NobodyWaits DEF Working
  <2>2. op # "mkdtemp" /\ op # Looking
    BY <1>1, Zenon DEF Looking
  <2> QED
    BY <1>1, <2>1, <2>2, Elsewhere
<1>2. ASSUME phase = "work" /\ launcher = NoCluster /\ pc # 2 /\ (task.lesson = 28 => pc # ExpectAt + 1),
             UNCHANGED <<task, tree, srv, launcher, hidden>>,
             DOMAIN copy' = DOMAIN copy, copy'.refused = copy.refused,
             Proceed \/ Return(TRUE) \/ UNCHANGED labVars
      PROVE  EInv'
  BY <1>0, <1>2, LabExits
<1>3. CASE MakeTree
  <2>1. Working("mkdtemp") /\ "mkdtemp" \notin Starts \cup {"action"}
    BY <1>3, Zenon DEF MakeTree, Run, Starts
  <2>2. phase = "work" /\ launcher = NoCluster
    BY <2>1, NobodyWaits DEF Working
  <2>3. task.lesson = 28 => pc # ExpectAt + 1
    <3>1. task \in Tasks /\ pc \in Nat \ {0}
      BY DEF IInv, TypeOK
    <3>2. ~Working(Looking)
      BY <2>1, StartsApart DEF Working, Looking
    <3> QED
      BY <2>2, <3>1, <3>2, ScriptPlaces
  <2>4. UNCHANGED <<task, srv, launcher, hidden, copy>> /\ tree' = "there" /\ Proceed
    BY <1>3 DEF MakeTree
  <2> QED
    BY <2>2, <2>3, <2>4, LabExits
<1>4. CASE Configure \/ Inspect
  <2>1. \E op \in {"mkdirs", "config", "preflight", "identity", "verifybackup"} : Working(op)
    BY <1>4 DEF Configure, Inspect, Run
  <2>2. phase = "work" /\ launcher = NoCluster /\ pc # 2 /\ (task.lesson = 28 => pc # ExpectAt + 1)
    BY <1>1, <2>1 DEF Starts
  <2>3. UNCHANGED <<task, tree, srv, launcher, hidden, copy>> /\ Proceed
    BY <1>4 DEF Configure, Inspect
  <2> QED
    BY <1>2, <2>2, <2>3
<1>5. CASE InitCluster \/ Clone \/ BackupForStandby
  <2>1. \E op \in {"initdb", "clone", "backup_R"} : Working(op)
    BY <1>5 DEF InitCluster, Clone, BackupForStandby, Run
  <2>2. phase = "work" /\ launcher = NoCluster /\ pc # 2 /\ (task.lesson = 28 => pc # ExpectAt + 1)
    BY <1>1, <2>1, Zenon DEF Starts
  <2>3. UNCHANGED <<task, tree, srv, launcher, hidden, copy>> /\ Proceed
    BY <1>5 DEF InitCluster, Clone, BackupForStandby
  <2> QED
    BY <1>2, <2>2, <2>3
<1>6. CASE Commit
  <2>1. PICK op \in Records : Working(op)
    BY <1>6 DEF Commit, Run
  <2>2. op \notin Starts \cup {"action", "mkdtemp", "look_in_log"}
    BY <2>1, Zenon DEF Records, RestorePoints, Starts
  <2>3. UNCHANGED <<task, tree, srv, launcher, hidden, copy>> /\ Proceed
    BY <1>6 DEF Commit
  <2> QED
    BY <1>1, <1>2, <2>1, <2>2, <2>3
<1>7. CASE Backup \/ SwitchWal \/ CopyArchive \/ Withhold
  <2>1. \E op \in {"backup", "switch", "cp_archive", "withhold"} : Working(op)
    BY <1>7 DEF Backup, SwitchWal, CopyArchive, Withhold, Run
  <2>2. phase = "work" /\ launcher = NoCluster /\ pc # 2 /\ (task.lesson = 28 => pc # ExpectAt + 1)
    BY <1>1, <2>1, Zenon DEF Starts
  <2>3. UNCHANGED <<task, tree, srv, launcher, hidden, copy>> /\ Proceed
    BY <1>7 DEF Backup, SwitchWal, CopyArchive, Withhold
  <2> QED
    BY <1>2, <2>2, <2>3
<1>8. CASE Ask
  <2>1. \E op \in {"ask_primary", "ask_copy"} : Working(op)
    BY <1>8 DEF Ask, Run
  <2>2. phase = "work" /\ launcher = NoCluster /\ pc # 2 /\ (task.lesson = 28 => pc # ExpectAt + 1)
    BY <1>1, <2>1, Zenon DEF Starts
  <2>3. UNCHANGED <<task, tree, srv, launcher, hidden, copy>> /\ Proceed
    BY <1>8 DEF Ask
  <2> QED
    BY <1>2, <2>2, <2>3
<1>9. CASE RequestPause
  <2>1. Working("pause")
    BY <1>9 DEF RequestPause, Run
  <2>2. phase = "work" /\ launcher = NoCluster /\ pc # 2 /\ (task.lesson = 28 => pc # ExpectAt + 1)
    BY <1>1, <2>1, Zenon DEF Starts
  <2>3. UNCHANGED <<task, tree, srv, launcher, hidden>> /\ Proceed
        /\ DOMAIN copy' = DOMAIN copy /\ copy'.refused = copy.refused
    BY <1>9 DEF RequestPause
  <2> QED
    BY <1>2, <2>2, <2>3
<1>10. CASE Found
  <2>1. PICK op \in Checks : Working(op) /\ Holds(op)
    BY <1>10 DEF Found, Run
  <2>2. op \notin Starts \cup {"action", "mkdtemp"}
    BY <2>1, Zenon DEF Checks, Starts
  <2>3. phase = "work" /\ launcher = NoCluster
    BY <2>1, <2>2, NobodyWaits DEF Working
  <2>4. UNCHANGED <<task, tree, srv, launcher, hidden, copy>> /\ Proceed
    BY <1>10 DEF Found
  <2>5. CASE op = Looking
    <3>1. Holds(Looking) => copy.refused
      BY DEF Holds, Looking
    <3>2. pc # 2
      <4>1. task \in Tasks /\ pc \in Nat \ {0} /\ ~Working("mkdtemp")
        BY <2>1, <2>2, Zenon DEF IInv, TypeOK, Working
      <4> QED
        BY <2>3, <4>1, ScriptPlaces
    <3> QED
      BY <1>0, <2>1, <2>3, <2>4, <2>5, <3>1, <3>2, LabExits
  <2>6. CASE op # Looking
    <3>1. pc # 2 /\ (task.lesson = 28 => pc # ExpectAt + 1)
      BY <2>1, <2>2, <2>6, Elsewhere
    <3> QED
      BY <1>2, <2>3, <2>4, <3>1
  <2> QED
    BY <2>5, <2>6
<1>11. CASE NotFound
  <2>1. PICK op \in Checks : Working(op)
    BY <1>11 DEF NotFound, Run
  <2>2. op \notin Starts \cup {"action", "mkdtemp"}
    BY <2>1, Zenon DEF Checks, Starts
  <2>3. phase = "work" /\ launcher = NoCluster
    BY <2>1, <2>2, NobodyWaits DEF Working
  <2>4. UNCHANGED <<task, tree, srv, launcher, hidden, copy>> /\ Return(TRUE)
    BY <1>11 DEF NotFound
  <2>5. ~Proceed
    <3>1. pc \in Nat
      BY DEF IInv, TypeOK
    <3>2. pc' = pc
      BY <2>4 DEF Return
    <3> QED
      BY <3>1, <3>2 DEF Proceed
  <2> QED
    BY <1>0, <2>3, <2>4, <2>5, LabExits
<1>12. CASE Action \/ ActionBuilds
  <2>1. Working("action")
    BY <1>12 DEF Action, ActionBuilds, Run
  <2>2. phase = "work" /\ launcher = NoCluster
    <3>1. (Action => task.answer # "starts") /\ (ActionBuilds => ~signal)
      BY DEF Action, ActionBuilds
    <3> QED
      BY <1>12, <2>1, <3>1 DEF IInv, TypeOK, LauncherIsStarting, Starting, Working
  <2>3. pc # 2 /\ (task.lesson = 28 => pc # ExpectAt + 1)
    BY <2>1, Elsewhere, StartsApart
  <2>4. UNCHANGED <<task, tree, srv, launcher, hidden>> /\ (Proceed \/ UNCHANGED labVars)
    BY <1>12 DEF Action, ActionBuilds, BaseBackup
  <2>5. DOMAIN copy' = DOMAIN copy /\ copy'.refused = copy.refused
    <3>1. copy' = copy \/ copy' = [copy EXCEPT !.pause = "no"]
      BY <1>12 DEF Action, ActionBuilds
    <3>2. CASE copy' = copy
      BY <3>2
    <3>3. CASE copy' = [copy EXCEPT !.pause = "no"]
      BY <3>3
    <3> QED
      BY <3>1, <3>2, <3>3
  <2> QED
    BY <1>2, <2>2, <2>3, <2>4, <2>5
<1>13. CASE Seen
  <2>1. PICK op \in Polls : Working(op)
    BY <1>13 DEF Seen, Run
  <2>2. op \notin Starts \cup {"action", "mkdtemp", "look_in_log"}
    BY <2>1, Zenon DEF Polls, Starts
  <2>3. UNCHANGED <<task, tree, srv, launcher, hidden, copy>> /\ Proceed
    BY <1>13 DEF Seen
  <2> QED
    BY <1>1, <1>2, <2>1, <2>2, <2>3
<1> QED
  BY <1>3, <1>4, <1>5, <1>6, <1>7, <1>8, <1>9, <1>10, <1>11, <1>12, <1>13 DEF Script1

(* The waits and failures of a script.                                     *)
LEMMA FailureExits ==
    ASSUME IInv, EInv, Deadline \/ StepFails \/ (\E w \in Clusters : LaunchRefused(w))
    PROVE  EInv'
<1>0. tree \in {tree, "there"} /\ pc \in Nat \ {0} /\ task \in Tasks
  BY DEF IInv, TypeOK
<1>1. ASSUME phase = "work", launcher = NoCluster, OnError,
             UNCHANGED <<task, tree, srv, launcher, hidden, copy>>
      PROVE  EInv'
  <2>1. CASE Working(Expecting)
    <3>1. Proceed /\ pc = ExpectAt
      BY <1>0, <1>1, <2>1, ScriptPlaces DEF OnError, Expecting
    <3>2. pc # 2 /\ pc # ExpectAt + 1
      BY <3>1 DEF ExpectAt
    <3> QED
      BY <1>0, <1>1, <3>1, <3>2, LabExits
  <2>2. CASE ~Working(Expecting)
    <3>1. Return(TRUE)
      BY <1>1, <2>2 DEF OnError, Expecting
    <3>2. ~Proceed
      <4>1. pc' = pc
        BY <3>1 DEF Return
      <4> QED
        BY <1>0, <4>1 DEF Proceed
    <3> QED
      BY <1>0, <1>1, <3>1, <3>2, LabExits
  <2> QED
    BY <2>1, <2>2
<1>2. CASE Deadline
  <2>1. PICK op \in Polls : Working(op)
    BY <1>2 DEF Deadline
  <2>2. op \notin Starts \cup {"action"}
    BY <2>1, Zenon DEF Polls, Starts
  <2>3. phase = "work" /\ launcher = NoCluster
    BY <2>1, <2>2, NobodyWaits DEF Working
  <2>4. UNCHANGED <<task, tree, srv, launcher, hidden, copy>> /\ Return(TRUE)
    BY <1>2 DEF Deadline, fileVars, serverVars, dataVars, cleanupVars
  <2>5. ~Proceed
    <3>1. pc' = pc
      BY <2>4 DEF Return
    <3> QED
      BY <1>0, <3>1 DEF Proceed
  <2> QED
    BY <1>0, <2>3, <2>4, <2>5, LabExits
<1>3. CASE StepFails
  <2>1. phase = "work" /\ launcher = NoCluster /\ OnError
    BY <1>3 DEF StepFails, Working
  <2>2. UNCHANGED <<task, tree, srv, launcher, hidden, copy>>
    BY <1>3 DEF StepFails, dataVars, cleanupVars
  <2> QED
    BY <1>1, <2>1, <2>2
<1>4. ASSUME NEW w \in Clusters, LaunchRefused(w)
      PROVE  EInv'
  <2>1. phase = "work" /\ launcher = NoCluster /\ OnError
    BY <1>4 DEF LaunchRefused, Starting, Working
  <2>2. UNCHANGED <<task, tree, srv, launcher, hidden, copy>>
    BY <1>4 DEF LaunchRefused, Quietly, fileVars, serverVars, dataVars, cleanupVars
  <2> QED
    BY <1>1, <2>1, <2>2
<1> QED
  BY <1>2, <1>3, <1>4

(* A script that has come to its end leaves no server behind unseen.       *)
LEMMA FinishExits ==
    ASSUME IInv, EInv, Finish
    PROVE  EInv'
<1>1. /\ phase = "work" /\ pc \notin DOMAIN Script /\ Return(FALSE) /\ ~Working(Looking)
      /\ UNCHANGED <<task, tree, srv, launcher, hidden, copy>>
  BY DEF Finish, Quietly, Working, fileVars, serverVars, dataVars, cleanupVars
<1>2. launcher = NoCluster
  BY DEF Finish, IInv, TypeOK, LauncherIsStarting, Starting, Working
<1>3. tree = "there" /\ (task.lesson = 28 => pc # ExpectAt + 1)
  <2>1. task \in Tasks /\ pc \in Nat \ {0}
    BY DEF IInv, TypeOK
  <2>2. pc > 2 /\ (task.lesson = 28 => pc # ExpectAt + 1)
    BY <1>1, <2>1, ScriptPlaces
  <2> QED
    BY <1>1, <2>2 DEF EInv, TreeExists
<1>4. hidden = {} /\ \A w \in Clusters : srv[w] # "forked"
  BY <1>1, <1>2, <1>3 DEF EInv, ForkedIsLookedFor, IInv, TreeGoesLast, Clusters, NoCluster
<1>5. phase' = "cleanup"
  BY <1>1, <1>3 DEF Return
<1> QED
  BY <1>1, <1>3, <1>4, <1>5 DEF EInv, CopyFields, TreeExists, ForkedIsLookedFor, RefusedOnceStarted, NothingHidden

(* pg_ctl start is called: its server is the one it waits for.             *)
LEMMA LaunchExits ==
    ASSUME IInv, EInv, NEW w \in Clusters, Launch(w)
    PROVE  EInv'
<1>1. /\ UNCHANGED <<task, phase, pc, err, tree, hidden>> /\ launcher = NoCluster /\ launcher' = w
      /\ srv' = [srv EXCEPT ![w] = "forked"] /\ Starting(w)
      /\ w = "primary" => copy' = copy
  BY DEF Launch, labVars, fileVars, cleanupVars
<1>2. DOMAIN copy' = DOMAIN copy /\ copy'.refused = copy.refused
  BY DEF Launch
<1>3. /\ phase = "work" /\ NoCluster \notin Clusters /\ (w = "primary" \/ w = "copy")
      /\ task.lesson = 28 /\ pc <= ExpectAt /\ w = "copy" => pc = ExpectAt
      /\ srv \in [Clusters -> {"none", "forked", "starting", "ready"}]
      /\ "copy" \in Clusters /\ "primary" # "copy"
  BY <1>1, StartingPlaces DEF IInv, TypeOK, Clusters, NoCluster
<1>4. \A v \in Clusters : srv'[v] = IF v = w THEN "forked" ELSE srv[v]
  BY <1>1, <1>3
<1>5. CopyFields' /\ TreeExists' /\ NothingHidden'
  BY <1>1, <1>2, <1>3 DEF EInv, CopyFields, TreeExists, NothingHidden
<1>6. ForkedIsLookedFor'
  BY <1>1, <1>2, <1>3, <1>4 DEF EInv, ForkedIsLookedFor
<1>7. RefusedOnceStarted'
  <2> SUFFICES ASSUME task.lesson = 28, pc <= ExpectAt
               PROVE  /\ srv'["copy"] # "none" => ~copy'.refused /\ launcher' = "copy"
                      /\ launcher' # "copy" => srv'["copy"] = "none" /\ ~copy'.refused
    BY <1>1 DEF RefusedOnceStarted
  <2>1. ~copy.refused /\ srv["copy"] = "none"
    BY <1>1, <1>3 DEF EInv, RefusedOnceStarted
  <2> QED
    BY <1>1, <1>2, <1>3, <1>4, <2>1
<1> QED
  BY <1>5, <1>6, <1>7 DEF EInv

(* pg_ctl start comes back.                                                *)
LEMMA ReturnExits ==
    ASSUME IInv, EInv, NEW w \in Clusters, Started(w) \/ StartFailed(w)
    PROVE  EInv'
<1>1. /\ UNCHANGED <<task, tree, srv, hidden, copy>> /\ launcher = w /\ launcher' = NoCluster
      /\ Starting(w) /\ tree \in {"absent", "there"} /\ pc \in Nat \ {0}
      /\ NoCluster \notin Clusters /\ "copy" \in Clusters /\ (w = "primary" \/ w = "copy")
  <2>1. UNCHANGED <<task, tree, srv, hidden, copy>> /\ launcher = w /\ launcher' = NoCluster
    BY DEF Started, StartFailed, fileVars, dataVars, cleanupVars
  <2>2. Starting(w)
    BY <2>1 DEF IInv, LauncherIsStarting
  <2>3. phase = "work"
    BY <2>2, StartingPlaces
  <2> QED
    BY <2>1, <2>2, <2>3 DEF IInv, TypeOK, TreeGoesLast, Clusters, NoCluster
<1>2. /\ phase = "work" /\ pc # 2 /\ (task.lesson = 28 => pc # ExpectAt + 1)
      /\ task.lesson = 28 /\ pc <= ExpectAt /\ w = "copy" => pc = ExpectAt
      /\ Working(Expecting) => w = "copy" /\ task.lesson = 28 /\ pc = ExpectAt
  BY <1>1, StartingPlaces
<1>3. CopyFields'
  BY <1>1 DEF EInv, CopyFields
<1>4. CASE Return(TRUE)
  <2>1. phase' = (IF tree = "absent" THEN "exited" ELSE "cleanup") /\ err' = TRUE /\ phase' # "work"
    BY <1>4 DEF Return
  <2> QED
    BY <1>1, <1>3, <2>1 DEF EInv, TreeExists, ForkedIsLookedFor, RefusedOnceStarted, NothingHidden
<1>5. CASE Proceed
  <2>1. phase' = "work" /\ pc' = pc + 1
    BY <1>2, <1>5 DEF Proceed
  <2>2. \/ Started(w) /\ ~Working(Expecting) /\ srv[w] = "ready"
        \/ StartFailed(w) /\ Working(Expecting)
    <3>1. ~Return(TRUE)
      <4>1. pc' # pc
        BY <1>1, <2>1
      <4> QED
        BY <4>1 DEF Return
    <3> QED
      BY <3>1 DEF Started, StartFailed, OnError, Up, Expecting
  <2>3. TreeExists'
    BY <1>1, <1>2, <2>1 DEF EInv, TreeExists
  <2>4. NothingHidden'
    BY <2>1 DEF NothingHidden
  <2>5. ForkedIsLookedFor'
    <3> SUFFICES ASSUME NEW v \in Clusters, srv[v] = "forked"
                 PROVE  v = "copy" /\ task.lesson = 28 /\ pc' = ExpectAt + 1 /\ ~copy.refused
      BY <1>1 DEF ForkedIsLookedFor
    <3>1. v = w
      BY <1>1, <1>2 DEF EInv, ForkedIsLookedFor
    <3>2. Working(Expecting)
      BY <2>2, <3>1
    <3>3. w = "copy" /\ task.lesson = 28 /\ pc = ExpectAt
      BY <1>2, <3>2
    <3>4. ~copy.refused
      BY <1>2, <3>1, <3>3 DEF EInv, RefusedOnceStarted, ExpectAt
    <3> QED
      BY <2>1, <3>1, <3>3, <3>4
  <2>6. RefusedOnceStarted'
    <3> SUFFICES ASSUME task.lesson = 28, pc + 1 <= ExpectAt
                 PROVE  srv["copy"] = "none" /\ ~copy.refused
      BY <1>1, <2>1 DEF RefusedOnceStarted
    <3>1. pc <= ExpectAt /\ pc # ExpectAt
      BY <1>1 DEF ExpectAt
    <3>2. w # "copy"
      BY <1>2, <3>1
    <3> QED
      BY <1>1, <1>2, <3>1, <3>2 DEF EInv, RefusedOnceStarted
  <2> QED
    BY <1>3, <2>3, <2>4, <2>5, <2>6 DEF EInv
<1> QED
  BY <1>4, <1>5 DEF Started, StartFailed, OnError

(* A server that changes by itself; only a copy that ends may have found   *)
(* that the history it needs is missing.                                   *)
LEMMA ServersExit ==
    ASSUME IInv, EInv, ServerStep, NEW w \in Clusters, NEW s \in {"none", "starting", "ready"},
           srv' = srv \/ (srv[w] # "none" /\ srv' = [srv EXCEPT ![w] = s]),
           DOMAIN copy' = DOMAIN copy,
           copy'.refused = copy.refused \/ (srv["copy"] # "none" /\ srv'["copy"] = "none")
    PROVE  EInv'
<1>1. UNCHANGED <<task, phase, pc, err, tree, launcher, hidden>> /\ "copy" \in Clusters
  BY DEF ServerStep, labVars, fileVars, cleanupVars, Clusters
<1>2. ASSUME NEW v \in Clusters
      PROVE  (srv'[v] = "forked" => srv[v] = "forked") /\ (srv[v] = "none" => srv'[v] = "none")
  BY DEF IInv, TypeOK
<1>3. CopyFields' /\ TreeExists' /\ NothingHidden'
  BY <1>1, <1>2 DEF EInv, CopyFields, TreeExists, NothingHidden
<1>4. ForkedIsLookedFor'
  <2> SUFFICES ASSUME phase = "work", NEW v \in Clusters, srv'[v] = "forked", launcher # v
               PROVE  v = "copy" /\ task.lesson = 28 /\ pc = ExpectAt + 1 /\ ~copy'.refused
    BY <1>1 DEF ForkedIsLookedFor
  <2>1. v = "copy" /\ task.lesson = 28 /\ pc = ExpectAt + 1 /\ ~copy.refused
    BY <1>2 DEF EInv, ForkedIsLookedFor
  <2> QED
    BY <2>1
<1>5. RefusedOnceStarted'
  BY <1>1, <1>2 DEF EInv, RefusedOnceStarted
<1> QED
  BY <1>3, <1>4, <1>5 DEF EInv

(* What PostgreSQL does by itself hides nothing.                           *)
LEMMA ServersExits ==
    ASSUME IInv, EInv, Servers
    PROVE  EInv'
<1>0. "copy" \in Clusters /\ DOMAIN copy = {"received", "replayed", "pause", "refused"}
  BY DEF Clusters, EInv, CopyFields
<1>1. ASSUME NEW w \in Clusters, WritePidFile(w) \/ BecomeReady(w) \/ ServerFails(w)
      PROVE  EInv'
  <2>1. PICK s \in {"none", "starting", "ready"} : srv[w] # "none" /\ srv' = [srv EXCEPT ![w] = s]
    BY <1>1 DEF WritePidFile, BecomeReady, ServerFails, PidDue, ReadyDue
  <2>2. ServerStep /\ copy' = copy
    BY <1>1 DEF WritePidFile, BecomeReady, ServerFails
  <2> QED
    BY <2>1, <2>2, ServersExit
<1>2. CASE RecoveryFails
  <2>1. srv["copy"] # "none" /\ srv' = [srv EXCEPT !["copy"] = "none"] /\ ServerStep
    BY <1>2 DEF RecoveryFails, NoStartDue, TornDue
  <2>2. DOMAIN copy' = DOMAIN copy
    BY <1>2 DEF RecoveryFails
  <2>3. srv'["copy"] = "none"
    BY <1>0, <2>1 DEF IInv, TypeOK
  <2> QED
    BY <1>0, <2>1, <2>2, <2>3, ServersExit
<1>3. CASE ReplayRecord \/ Connect \/ Receive \/ PauseTakesHold \/ Archive
  <2>1. ServerStep /\ srv' = srv
    BY <1>3 DEF ReplayRecord, Connect, Receive, PauseTakesHold, Archive
  <2>2. DOMAIN copy' = DOMAIN copy /\ copy'.refused = copy.refused
    <3>1. CASE ReplayRecord
      <4>1. PICK p : copy' = [copy EXCEPT !.replayed = @ + 1, !.pause = p]
        BY <3>1 DEF ReplayRecord
      <4> QED
        BY <4>1
    <3>2. CASE Connect
      BY <3>2 DEF Connect
    <3>3. CASE Receive
      BY <3>3 DEF Receive
    <3>4. CASE PauseTakesHold
      BY <3>4 DEF PauseTakesHold
    <3>5. CASE Archive
      BY <3>5 DEF Archive
    <3> QED
      BY <1>3, <3>1, <3>2, <3>3, <3>4, <3>5
  <2> QED
    BY <1>0, <2>1, <2>2, ServersExit
<1> QED
  BY <1>1, <1>2, <1>3 DEF Servers

(* The cleanup of a run without an error sees every server there is.       *)
LEMMA CleanupExits ==
    ASSUME IInv, EInv, Cleanup
    PROVE  EInv'
<1> USE DEF CleanupStep, labVars, dataVars
<1>1. phase = "cleanup" /\ tree = "there" /\ UNCHANGED <<task, launcher, copy>> /\ phase' # "work"
  BY DEF Cleanup, LookForPidFile, Stop, StopFails, Status, StatusFails, Retain, Remove, RemoveFails,
     EInv, TreeExists
<1>2. CopyFields' /\ ForkedIsLookedFor' /\ RefusedOnceStarted'
  BY <1>1 DEF EInv, CopyFields, ForkedIsLookedFor, RefusedOnceStarted
<1>3. CASE LookForPidFile \/ StopFails \/ StatusFails
  <2>1. UNCHANGED <<phase, err, tree, srv, hidden>>
    BY <1>3 DEF LookForPidFile, StopFails, StatusFails
  <2> QED
    BY <1>1, <1>2, <2>1 DEF EInv, TreeExists, NothingHidden
<1>4. CASE Stop
  <2>1. UNCHANGED <<phase, err, tree, hidden>> /\ srv' = [srv EXCEPT ![which] = "none"]
    BY <1>4 DEF Stop
  <2>2. \A w \in Clusters : srv'[w] = "forked" => srv[w] = "forked"
    BY <2>1 DEF IInv, TypeOK
  <2> QED
    BY <1>1, <1>2, <2>1, <2>2 DEF EInv, TreeExists, NothingHidden
<1>5. CASE Status
  <2>1. UNCHANGED <<phase, err, tree, srv>> /\ which \in Clusters
    BY <1>5 DEF Status, IInv, TypeOK
  <2>2. srv[which] \in {"starting", "ready"} => hidden' = hidden
    BY <1>5, <2>1 DEF Status, IInv, PidFileNames, ServersInDir
  <2>3. srv[which] = "none" => hidden' = hidden
    BY <1>5 DEF Status
  <2>4. srv[which] # "forked" => hidden' = hidden
    BY <2>1, <2>2, <2>3 DEF IInv, TypeOK
  <2> QED
    BY <1>1, <1>2, <2>1, <2>4 DEF EInv, TreeExists, NothingHidden
<1>6. CASE Retain \/ Remove \/ RemoveFails
  <2>1. UNCHANGED <<srv, hidden>> /\ phase' = "exited" /\ (err' \/ (err' = err /\ tree' = "gone"))
    BY <1>6 DEF Retain, Remove, RemoveFails
  <2> QED
    BY <1>1, <1>2, <2>1 DEF EInv, TreeExists, NothingHidden
<1> QED
  BY <1>3, <1>4, <1>5, <1>6 DEF Cleanup

----------------------------------------------------------------------------
(* The two invariants together are inductive.                              *)
LEMMA NextExits ==
    ASSUME IInv, EInv, [Next]_vars
    PROVE  EInv'
<1>1. CASE Lab
  BY <1>1, WorkExits, FailureExits, FinishExits, LaunchExits, ReturnExits, CleanupExits DEF Lab, Script2
<1>2. CASE Servers
  BY <1>2, ServersExits
<1>3. CASE Cancel \/ UNCHANGED vars
  <2>1. UNCHANGED <<task, phase, pc, err, tree, srv, launcher, hidden, copy>>
    BY <1>3 DEF Cancel, vars, labVars, fileVars, serverVars, dataVars, cleanupVars
  <2> QED
    BY <2>1 DEF EInv, CopyFields, TreeExists, ForkedIsLookedFor, RefusedOnceStarted, NothingHidden
<1> QED
  BY <1>1, <1>2, <1>3 DEF Next, Exited

(* A run that reports success has stopped every server it started and      *)
(* removed its tree, whatever the servers and the learner did: a start     *)
(* whose failure the lab goes on from is looked for in the log.            *)
THEOREM CleanExits == Spec => []CleanExit
<1>1. Init => IInv /\ EInv
  BY InitHolds, InitExits
<1>2. IInv /\ EInv /\ [Next]_vars => (IInv /\ EInv)'
  BY NextKeeps, NextExits
<1> QED
  BY <1>1, <1>2, EInvIsEnough, PTL DEF Spec

----------------------------------------------------------------------------
(* What a passed lesson proves.  As long as nothing has failed, the place  *)
(* in the script says what has been written and recovered.                 *)

(* The data has the types of what PostgreSQL and the lab keep.             *)
DataTypes ==
    /\ wal \in [history : Seq(Records), base : Nat, archived : {"open", "full", "partial", "whole"},
                first : {"none", "same", "missing", "other"},
                last : {"none", "open", "full", "partial", "whole"}, original : {"same", "other"}]
    /\ copy \in [received : Nat, replayed : Nat, pause : {"no", "requested", "paused"}, refused : BOOLEAN]

(* A run without an error has come to the end of its script.               *)
NoErrorYet == /\ phase = "work" => ~err
              /\ ~err => pc \in 1 .. Len(Script) + 1
              /\ ~err /\ phase # "work" => pc = Len(Script) + 1

(* What the primary writes in a lesson, ...                                *)
Writes == CASE task.lesson = 27        -> <<"baseline", "later">>
            [] task.lesson \in {28, 29} -> <<"baseline", "accepted", "before_bad", "bad", "after_bad">>
            [] task.lesson \in {30, 31} -> <<"baseline", "marker">>
(* ... the number of its records before step k, ...                        *)
WrittenBefore(k) ==
    IF k <= 8 THEN 0
    ELSE IF task.lesson = 27 THEN IF k <= 12 THEN 1 ELSE 2
    ELSE IF task.lesson = 30 THEN IF k <= 15 THEN 1 ELSE 2
    ELSE IF task.lesson = 31 THEN IF k <= 17 THEN 1 ELSE 2
    ELSE IF k = 9 THEN 1 ELSE IF k <= 13 THEN k - 9 ELSE 5
(* ... and the history has just those.                                     *)
HistoryWritten ==
    ~err => /\ Len(wal.history) = WrittenBefore(pc)
            /\ \A i \in 1 .. Len(wal.history) : wal.history[i] = Writes[i]

(* The original segment is changed by one answer only.                     *)
HarmIsAnAnswer == wal.original # "same" => task.answer = "harm"

(* Lesson 27 restores the backup and nothing behind it.                    *)
Restored ==
    task.lesson = 27 /\ ~err =>
        /\ ~signal
        /\ pc > 10 => wal.base = 1
        /\ srv["copy"] # "none" => pc >= 15 /\ copy.replayed = wal.base
        /\ pc > 15 => copy.replayed = 1
        /\ pc > 9 => task.answer \in {"full", "coarse"}
        /\ pc > 19 => task.answer = "full"

(* ... so that only a query which tells quantities apart gets different    *)
(* answers before and after.                                               *)
Told(rows) == IF task.answer = "full" THEN rows ELSE {}
(* The three answers the lesson compares.                                  *)
AskedAndTold ==
    task.lesson = 27 /\ ~err =>
        /\ asked \in Seq(SUBSET Records)
        /\ Len(asked) = IF pc <= 9 THEN 0 ELSE IF pc <= 16 THEN 1 ELSE IF pc = 17 THEN 2 ELSE 3
        /\ \A i \in 1 .. Len(asked) : asked[i] = Told(IF i <= 2 THEN {"baseline"} ELSE {"baseline", "later"})

(* Lesson 28 goes on only when the withheld segment is back, and stays     *)
(* paused where the copy was looked at.                                    *)
Repaired ==
    task.lesson = 28 /\ ~err =>
        /\ pc \in 18..22 => wal.first = "missing"
        /\ pc > 22 /\ wal.first = "same" =>
              task.answer = "restore" \/ (task.answer = "harm" /\ wal.original = "other")
        /\ pc > 23 => wal.first = "same"
        /\ pc > 25 => copy.pause = "paused"
        /\ pc > 26 => Rows("copy") = {"baseline", "accepted"}
        /\ pc > 27 => wal.original = "same"

(* The copy of lesson 29 stops at the restore point of the answer.         *)
StoppedAtTarget ==
    task.lesson = 29 /\ ~err =>
        /\ srv["copy"] # "none" => pc >= 19
        /\ copy.pause # "requested"
        /\ copy.pause = "paused" =>
              /\ pc >= 19 /\ copy.replayed \in 1..5
              /\ Writes[copy.replayed] \in RestorePoints
              /\ Writes[copy.replayed] = task.answer
        /\ pc > 20 => copy.pause = "paused"
        /\ pc > 23 => Rows("copy") = {"baseline", "accepted"}

(* The standbys of lessons 30 and 31 hold a prefix of the primary's        *)
(* history: the whole of it when the lesson has seen its last row there.   *)
Streamed ==
    task.lesson \in {30, 31} /\ ~err =>
        /\ wal.base <= Len(wal.history)
        /\ copy.received <= Len(wal.history)
        /\ copy.replayed <= Len(wal.history)
(* Lesson 30 goes on behind its action only with a standby, and ends with  *)
(* both rows in it.                                                        *)
MadeStandby ==
    task.lesson = 30 /\ ~err =>
        /\ signal => task.answer \in {"replica", "starts"}
        /\ pc > 10 => signal
        /\ pc > 17 => copy.replayed = 2
(* Lesson 31 leaves the pause to the learner.                              *)
Resumed ==
    task.lesson = 31 /\ ~err =>
        /\ pc > 19 /\ task.answer \notin {"resume", "starts"} => copy.pause = "paused"
        /\ pc > 22 => task.answer \in {"resume", "starts"} /\ copy.replayed = 2

(* What a step knows of the data.                                          *)
RInv == /\ DataTypes /\ NoErrorYet /\ HistoryWritten /\ HarmIsAnAnswer
        /\ Restored /\ AskedAndTold /\ Repaired /\ StoppedAtTarget /\ Streamed /\ MadeStandby /\ Resumed

(* A run is one task.                                                      *)
LEMMA OneTask == ASSUME [Next]_vars PROVE task' = task
<1>1. Script1 => task' = task
  BY DEF Script1, MakeTree, Configure, Inspect, InitCluster, Commit, Backup, SwitchWal, CopyArchive, Withhold,
     Clone, BackupForStandby, Ask, RequestPause, Found, NotFound, Action, ActionBuilds, Quietly
<1>2. Script2 \/ Cleanup => task' = task
  BY DEF Script2, Launch, LaunchRefused, Started, StartFailed, Seen, Deadline, StepFails, Finish, Quietly,
     Cleanup, LookForPidFile, Stop, StopFails, Status, StatusFails, Retain, Remove, RemoveFails, CleanupStep
<1>3. Servers => task' = task
  BY DEF Servers, WritePidFile, BecomeReady, ServerFails, RecoveryFails, ReplayRecord, Connect, Receive,
     PauseTakesHold, Archive, ServerStep
<1> QED
  BY <1>1, <1>2, <1>3 DEF Next, Lab, Cancel, Exited, vars

(* Nothing has been written at first.                                      *)
LEMMA InitRecovers == Init => RInv
<1> SUFFICES ASSUME Init PROVE RInv
  OBVIOUS
<1>1. DataTypes
  BY DEF Init, DataTypes
<1>2. NoErrorYet
  <2>1. Len(Script) \in Nat
    BY FiveLessons, RestorePlaces, HistoryPlaces, TargetedPlaces, StandbyPlaces, ReplayPlaces DEF Init
  <2> QED
    BY <2>1 DEF Init, NoErrorYet
<1>3. HistoryWritten /\ HarmIsAnAnswer
  BY DEF Init, HistoryWritten, WrittenBefore, HarmIsAnAnswer
<1>4. Restored /\ AskedAndTold
  BY DEF Init, Restored, AskedAndTold, Clusters
<1>5. Repaired /\ StoppedAtTarget /\ Streamed /\ MadeStandby /\ Resumed
  BY DEF Init, Repaired, StoppedAtTarget, Streamed, MadeStandby, Resumed, Clusters
<1> QED
  BY <1>1, <1>2, <1>3, <1>4, <1>5 DEF RInv

(* What a step of the lab or of the servers does to its data.              *)
LEMMA DataTypesKept ==
    ASSUME IInv, DataTypes, [Next]_vars
    PROVE  DataTypes'
<1> USE DEF DataTypes
<1> DEFINE same == UNCHANGED <<wal, copy>>
<1>0. Len(wal.history) \in Nat
  BY LenProperties
<1>1. CASE Commit
  <2>1. PICK r \in Records : wal' = [wal EXCEPT !.history = Append(@, r)] /\ copy' = copy
    BY <1>1 DEF Commit
  <2>2. Append(wal.history, r) \in Seq(Records)
    OBVIOUS
  <2> QED
    BY <2>1, <2>2
<1>2. CASE Backup \/ BackupForStandby
  <2>1. wal' = [wal EXCEPT !.base = Len(wal.history)] /\ copy' = copy
    BY <1>2 DEF Backup, BackupForStandby, BaseBackup
  <2> QED
    BY <1>0, <2>1
<1>3. CASE Action \/ ActionBuilds
  <2>1. /\ \/ wal' \in {wal, [wal EXCEPT !.first = "same"], [wal EXCEPT !.first = "other"],
                         [wal EXCEPT !.first = "same", !.original = "other"]}
           \/ wal' = [wal EXCEPT !.base = Len(wal.history)]
        /\ copy' \in {copy, [copy EXCEPT !.pause = "no"]}
    BY <1>3 DEF Action, ActionBuilds, BaseBackup
  <2> QED
    BY <1>0, <2>1
<1>13. CASE SwitchWal \/ CopyArchive \/ Withhold \/ RequestPause
  <2>1. \/ wal' \in {[wal EXCEPT !.archived = "full"], [wal EXCEPT !.first = "missing"],
                     [wal EXCEPT !.first = "same", !.last = wal.archived]} /\ copy' = copy
        \/ wal' = wal /\ copy' = [copy EXCEPT !.pause = "requested"]
    BY <1>13 DEF SwitchWal, CopyArchive, Withhold, RequestPause
  <2> QED
    BY <2>1
<1>4. CASE MakeTree \/ Configure \/ Inspect \/ InitCluster \/ Clone \/ Ask \/ Found \/ NotFound
  BY <1>4 DEF MakeTree, Configure, Inspect, InitCluster, Clone, Ask, Found, NotFound, dataVars
<1>5. ASSUME NEW w \in Clusters, Launch(w)
      PROVE  DataTypes'
  BY <1>5 DEF Launch
<1>6. ASSUME NEW w \in Clusters, LaunchRefused(w) \/ Started(w) \/ StartFailed(w)
      PROVE  DataTypes'
  BY <1>6 DEF LaunchRefused, Started, StartFailed, dataVars
<1>7. CASE Seen \/ Deadline \/ StepFails \/ Finish \/ Cancel
  BY <1>7 DEF Seen, Deadline, StepFails, Finish, Cancel, dataVars
<1>8. ASSUME NEW w \in Clusters, WritePidFile(w) \/ BecomeReady(w) \/ ServerFails(w)
      PROVE  DataTypes'
  BY <1>8 DEF WritePidFile, BecomeReady, ServerFails
<1>9. CASE RecoveryFails
  BY <1>9 DEF RecoveryFails
<1>10. CASE ReplayRecord
  <2>1. PICK b \in {copy.pause, "paused"} : copy' = [copy EXCEPT !.replayed = @ + 1, !.pause = b]
    BY <1>10, Zenon DEF ReplayRecord
  <2>2. wal' = wal
    BY <1>10 DEF ReplayRecord
  <2>3. copy.replayed + 1 \in Nat /\ b \in {"no", "requested", "paused"}
    BY <2>1
  <2> QED
    BY <2>1, <2>2, <2>3
<1>11. CASE Connect \/ Receive \/ PauseTakesHold
  BY <1>11 DEF Connect, Receive, PauseTakesHold
<1>14. CASE Archive
  <2>1. wal' \in {[wal EXCEPT !.archived = "partial"], [wal EXCEPT !.archived = "whole"]} /\ copy' = copy
    BY <1>14 DEF Archive
  <2> QED
    BY <2>1
<1>12. CASE Cleanup \/ Exited \/ UNCHANGED vars
  BY <1>12 DEF Cleanup, LookForPidFile, Stop, StopFails, Status, StatusFails, Retain, Remove, RemoveFails,
     CleanupStep, Exited, vars, dataVars
<1> QED
  BY <1>1, <1>2, <1>3, <1>4, <1>5, <1>6, <1>7, <1>8, <1>9, <1>10, <1>11, <1>12, <1>13, <1>14
     DEF Next, Lab, Script1, Script2, Servers

(* A run without an error stays in its script and ends behind it.          *)
LEMMA NoErrorKept ==
    ASSUME IInv, NoErrorYet, [Next]_vars
    PROVE  NoErrorYet'
<1>1. /\ task \in Tasks /\ pc \in Nat \ {0} /\ err \in BOOLEAN
      /\ phase \in {"work", "cleanup", "exited"}
  BY DEF IInv, TypeOK
<1>2. /\ Len(Script) \in Nat /\ DOMAIN Script = 1 .. Len(Script)
  BY <1>1, FiveLessons, RestorePlaces, HistoryPlaces, TargetedPlaces, StandbyPlaces, ReplayPlaces
<1>3. task' = task => Script' = Script
  BY DEF Script, Restore, Setup, History, ArchiveWork, Targeted, Standby, StartStandby, Replay
<1>4. ASSUME NEW op, Working(op), Proceed, task' = task
      PROVE  NoErrorYet'
  BY <1>1, <1>2, <1>3, <1>4 DEF NoErrorYet, Working, Proceed
<1>5. ASSUME Return(TRUE), task' = task
      PROVE  NoErrorYet'
  BY <1>5 DEF NoErrorYet, Return
<1>6. ASSUME UNCHANGED <<task, phase, pc, err>>
      PROVE  NoErrorYet'
  BY <1>3, <1>6 DEF NoErrorYet
<1> HIDE DEF NoErrorYet
<1>7. CASE Script1 \/ Seen
  BY <1>4, <1>5, <1>6, <1>7 DEF Script1, MakeTree, Configure, Inspect, InitCluster, Commit, Backup, SwitchWal,
     CopyArchive, Withhold, Clone, BackupForStandby, Ask, RequestPause, Found, NotFound, Action,
     ActionBuilds, Seen, Run, Quietly, labVars
<1>8. ASSUME OnError, task' = task, NEW op, Working(op)
      PROVE  NoErrorYet'
  BY <1>4, <1>5, <1>8 DEF OnError
<1>9. ASSUME NEW w \in Clusters, Launch(w) \/ LaunchRefused(w) \/ Started(w) \/ StartFailed(w)
      PROVE  NoErrorYet'
  <2>1. Starting(w)
    BY <1>9 DEF Launch, LaunchRefused, Started, StartFailed, IInv, LauncherIsStarting
  <2>2. PICK op : Working(op)
    BY <2>1 DEF Starting
  <2>3. CASE Launch(w)
    BY <1>6, <2>3 DEF Launch, labVars
  <2>4. CASE LaunchRefused(w) \/ StartFailed(w)
    BY <1>8, <2>2, <2>4 DEF LaunchRefused, StartFailed, Quietly
  <2>5. CASE Started(w)
    BY <1>4, <1>5, <2>2, <2>5 DEF Started
  <2> QED
    BY <1>9, <2>3, <2>4, <2>5
<1>10. CASE StepFails
  BY <1>8, <1>10 DEF StepFails
<1>11. CASE Deadline
  BY <1>5, <1>11 DEF Deadline
<1>12. CASE Finish
  <2>1. phase' # "work" /\ err' = FALSE /\ pc' = pc /\ task' = task /\ pc \notin DOMAIN Script
        /\ phase = "work"
    BY <1>12 DEF Finish, Return, Quietly
  <2> QED
    BY <1>1, <1>2, <1>3, <2>1 DEF NoErrorYet
<1>13. CASE Cancel \/ Servers \/ Exited \/ UNCHANGED vars
  BY <1>6, <1>13 DEF Cancel, Servers, WritePidFile, BecomeReady, ServerFails, RecoveryFails, ReplayRecord,
     Connect, Receive, PauseTakesHold, Archive, ServerStep, Exited, vars, labVars
<1>14. CASE Cleanup
  <2>1. phase = "cleanup" /\ phase' \in {"cleanup", "exited"} /\ pc' = pc /\ task' = task
        /\ (err' = err \/ err' = TRUE)
    BY <1>14 DEF Cleanup, LookForPidFile, Stop, StopFails, Status, StatusFails, Retain, Remove, RemoveFails,
       CleanupStep, labVars
  <2> QED
    BY <1>3, <2>1 DEF NoErrorYet
<1> QED
  BY <1>7, <1>9, <1>10, <1>11, <1>12, <1>13, <1>14 DEF Next, Lab, Script2

----------------------------------------------------------------------------
(* What a step without an error is: a step of the script that only looks,  *)
(* one of the actions that change the data, or something aside.            *)
Changing == Records \cup {"backup", "switch", "cp_archive", "withhold", "backup_R", "ask_primary",
                          "ask_copy", "pause"}
(* A step of the script that is passed and leaves the data alone.          *)
Advance(op) == /\ Working(op) /\ ~err
               /\ pc' = pc + 1 /\ UNCHANGED <<phase, err, task, wal, copy, asked, signal, srv, pidfile>>
               /\ UNCHANGED <<cancelled, which, look, failed>> /\ launcher' = NoCluster
               /\ op \notin Changing
               /\ op \in Checks => Holds(op)
               /\ op \in Polls => Awaited(op)
               /\ op = "action" => task.answer = "starts" /\ signal
               /\ op = "start_primary" => Up("primary")
               /\ op \in {"start_copy", "action"} => Up("copy")
               /\ op = "start_copy_expecting_failure" =>
                     LaunchRefused("copy") \/ StartFailed("copy") \/ StepFails
(* The actions that change the data.                                       *)
Change == \/ Commit \/ Backup \/ SwitchWal \/ CopyArchive \/ Withhold \/ BackupForStandby \/ Ask
          \/ RequestPause \/ Action \/ ActionBuilds \/ Launch("copy")
          \/ RecoveryFails \/ ReplayRecord \/ Connect \/ Receive \/ PauseTakesHold \/ Archive
(* The others.                                                             *)
Aside == \/ Launch("primary") \/ Finish \/ Cleanup \/ Cancel \/ Exited \/ UNCHANGED vars
         \/ \E w \in Clusters : WritePidFile(w) \/ BecomeReady(w) \/ ServerFails(w)

(* Every step without an error is one of these.                            *)
LEMMA Kinds ==
    ASSUME IInv, NoErrorYet, [Next]_vars, ~err'
    PROVE  (\E op : Advance(op)) \/ Change \/ Aside
<1>1. phase = "work" => ~err
  BY DEF NoErrorYet
<1>2. /\ err \in BOOLEAN /\ "copy" # "primary" /\ "copy" \in Clusters /\ Clusters = {"copy", "primary"}
      /\ srv \in [Clusters -> {"none", "forked", "starting", "ready"}]
  BY DEF IInv, TypeOK, Clusters
<1>3. ASSUME NEW op, Working(op), Proceed, Quietly, op \notin Starts \cup {"action"}
      PROVE  UNCHANGED <<phase, err, task, srv, pidfile, cancelled, which, look, failed>> /\ launcher' = NoCluster
             /\ pc' = pc + 1 /\ ~err /\ op \notin Starts \cup {"action"}
  BY <1>1, <1>3, NobodyWaits DEF Proceed, Quietly, serverVars, cleanupVars, Working
<1>4. CASE MakeTree \/ Configure \/ Inspect \/ InitCluster \/ Clone
  <2>1. PICK op \in {"mkdtemp", "mkdirs", "config", "preflight", "identity", "verifybackup", "initdb", "clone"} :
           Working(op)
    BY <1>4 DEF MakeTree, Configure, Inspect, InitCluster, Clone, Run
  <2>2. Proceed /\ Quietly
    BY <1>4 DEF MakeTree, Configure, Inspect, InitCluster, Clone
  <2>3. UNCHANGED <<wal, copy, asked, signal>>
    BY <1>4 DEF MakeTree, Configure, Inspect, InitCluster, Clone, fileVars, dataVars
  <2>4. op \notin Changing /\ op \notin Checks /\ op \notin Polls /\ op \notin Starts \cup {"action"}
    BY <2>1 DEF Changing, Records, RestorePoints, Checks, Polls, Starts
  <2>5. UNCHANGED <<phase, err, task, srv, pidfile, cancelled, which, look, failed>> /\ launcher' = NoCluster
        /\ pc' = pc + 1 /\ ~err
    BY <1>3, <2>1, <2>2, <2>4
  <2> QED
    BY <2>1, <2>3, <2>4, <2>5 DEF Advance, Starts
<1>5. CASE Found
  <2>1. PICK op \in Checks : Working(op) /\ Holds(op)
    BY <1>5 DEF Found, Run
  <2>2. Proceed /\ Quietly /\ UNCHANGED <<wal, copy, asked, signal>>
    BY <1>5 DEF Found, fileVars, dataVars
  <2>3. op \notin Changing /\ op \notin Polls /\ op \notin Starts \cup {"action"}
    BY <2>1 DEF Changing, Records, RestorePoints, Checks, Polls, Starts
  <2>4. UNCHANGED <<phase, err, task, srv, pidfile, cancelled, which, look, failed>> /\ launcher' = NoCluster
        /\ pc' = pc + 1 /\ ~err
    BY <1>3, <2>1, <2>2, <2>3
  <2> QED
    BY <2>1, <2>2, <2>3, <2>4 DEF Advance, Starts
<1>6. CASE Seen
  <2>1. PICK op \in Polls : Working(op) /\ Awaited(op)
    BY <1>6 DEF Seen, Run
  <2>2. Proceed /\ Quietly /\ UNCHANGED <<wal, copy, asked, signal>>
    BY <1>6 DEF Seen, fileVars, dataVars
  <2>3. op \notin Changing /\ op \notin Checks /\ op \notin Starts \cup {"action"}
    BY <2>1 DEF Changing, Records, RestorePoints, Checks, Polls, Starts
  <2>4. UNCHANGED <<phase, err, task, srv, pidfile, cancelled, which, look, failed>> /\ launcher' = NoCluster
        /\ pc' = pc + 1 /\ ~err
    BY <1>3, <2>1, <2>2, <2>3
  <2> QED
    BY <2>1, <2>2, <2>3, <2>4 DEF Advance, Starts
<1>7. ASSUME OnError, UNCHANGED <<task, wal, copy, asked, signal, srv, pidfile>>,
             UNCHANGED <<cancelled, cleanupVars>>, launcher' = NoCluster,
             LaunchRefused("copy") \/ StartFailed("copy") \/ StepFails
      PROVE  Advance("start_copy_expecting_failure")
  <2>1. Working("start_copy_expecting_failure") /\ pc' = pc + 1 /\ UNCHANGED <<phase, err>>
    BY <1>7 DEF OnError, Return, Proceed
  <2>2. UNCHANGED <<which, look, failed>>
    BY <1>7 DEF cleanupVars
  <2> QED
    BY <1>1, <1>7, <2>1, <2>2 DEF Advance, Working, Changing, Records, RestorePoints, Checks, Polls
<1>8. ASSUME NEW w \in Clusters, Started(w)
      PROVE  \E op : Advance(op)
  <2>1. Starting(w) /\ Proceed
    BY <1>8 DEF Started, Return, IInv, LauncherIsStarting
  <2>2. PICK op \in {"start_primary", "start_copy", "start_copy_expecting_failure", "action"} :
           Working(op) /\ (op = "action" => task.answer = "starts" /\ signal)
           /\ (op \in {"start_copy", "action"} => w = "copy")
           /\ (op = "start_primary" => w = "primary")
    BY <2>1 DEF Starting
  <2>3. op \notin Changing /\ op \notin Checks /\ op \notin Polls
    BY DEF Changing, Records, RestorePoints, Checks, Polls
  <2>4. ~Working("start_copy_expecting_failure")
    BY <1>8 DEF Started, Return
  <2>5. pc' = pc + 1 /\ UNCHANGED <<phase, err, task, wal, copy, asked, signal, srv, pidfile>> /\ Up(w)
    BY <1>8, <2>1 DEF Started, fileVars, dataVars, Proceed
  <2>6. UNCHANGED <<cancelled, which, look, failed>> /\ launcher' = NoCluster
    BY <1>8 DEF Started, cleanupVars
  <2> QED
    BY <1>1, <2>2, <2>3, <2>4, <2>5, <2>6 DEF Advance, Working
<1>9. ASSUME NEW w \in Clusters, LaunchRefused(w) \/ StartFailed(w)
      PROVE  Advance("start_copy_expecting_failure")
  <2>1. /\ UNCHANGED <<task, wal, copy, asked, signal, srv, pidfile>> /\ launcher' = NoCluster
        /\ UNCHANGED <<cancelled, cleanupVars>>
    BY <1>9 DEF LaunchRefused, StartFailed, Quietly, fileVars, serverVars, dataVars
  <2>2. OnError /\ Starting(w)
    BY <1>9 DEF LaunchRefused, StartFailed, IInv, LauncherIsStarting
  <2>3. Working("start_copy_expecting_failure")
    BY <2>2 DEF OnError, Return
  <2>4. w = "copy"
    BY <2>2, <2>3 DEF Starting, Working
  <2> QED
    BY <1>7, <1>9, <2>1, <2>2, <2>4
<1>10. CASE StepFails
  <2>1. /\ OnError /\ UNCHANGED <<task, wal, copy, asked, signal, srv, cancelled, cleanupVars>>
        /\ launcher' = NoCluster
    BY <1>10 DEF StepFails, dataVars
  <2>2. Working("start_copy_expecting_failure")
    BY <2>1 DEF OnError, Return
  <2>3. pidfile' = pidfile
    BY <1>10, <2>2 DEF StepFails, Working
  <2>4. Advance("start_copy_expecting_failure")
    BY <1>7, <1>10, <2>1, <2>3
  <2> QED
    BY <2>4
<1>11. CASE NotFound \/ Deadline
  BY <1>11 DEF NotFound, Deadline, Return
<1>12. CASE \E w \in Clusters : Launch(w) \/ LaunchRefused(w) \/ Started(w) \/ StartFailed(w)
  <2>1. CASE \E w \in Clusters : LaunchRefused(w) \/ StartFailed(w)
    BY <1>9, <2>1
  <2>2. CASE \E w \in Clusters : Started(w)
    BY <1>8, <2>2
  <2>3. CASE \E w \in Clusters : Launch(w)
    BY <1>2, <2>3 DEF Change, Aside
  <2> QED
    BY <1>12, <2>1, <2>2, <2>3
<1>13. CASE Commit \/ Backup \/ SwitchWal \/ CopyArchive \/ Withhold \/ BackupForStandby \/ Ask
            \/ RequestPause \/ Action \/ ActionBuilds
  BY <1>13 DEF Change
<1>14. CASE Lab
  BY <1>4, <1>5, <1>6, <1>10, <1>11, <1>12, <1>13, <1>14 DEF Lab, Script1, Script2, Aside
<1>15. CASE Servers
  BY <1>15 DEF Servers, Change, Aside
<1> QED
  BY <1>14, <1>15 DEF Next, Aside

(* What happens aside changes no data, and starts no copy.                 *)
Idle == /\ UNCHANGED <<task, pc, wal, copy, asked, signal>>
        /\ srv'["copy"] # "none" => srv["copy"] # "none"

(* So it is.                                                               *)
LEMMA AsideIsIdle == ASSUME IInv, Aside PROVE Idle
<1>1. /\ "copy" # "primary" /\ Clusters = {"copy", "primary"}
      /\ srv \in [Clusters -> {"none", "forked", "starting", "ready"}]
  BY DEF IInv, TypeOK, Clusters
<1>2. CASE Launch("primary")
  BY <1>1, <1>2 DEF Launch, labVars, fileVars, Idle
<1>3. CASE Finish
  <2>1. UNCHANGED <<task, pc, wal, copy, asked, signal, srv>>
    BY <1>3 DEF Finish, Return, Quietly, fileVars, serverVars, dataVars
  <2> QED
    BY <2>1 DEF Idle
<1>4. CASE Cancel \/ UNCHANGED vars \/ Exited
  <2>1. UNCHANGED <<task, pc, wal, copy, asked, signal, srv>>
    BY <1>4 DEF Cancel, vars, labVars, fileVars, serverVars, dataVars, Exited
  <2> QED
    BY <2>1 DEF Idle
<1>5. ASSUME NEW w \in Clusters, WritePidFile(w) \/ BecomeReady(w) \/ ServerFails(w)
      PROVE  Idle
  BY <1>1, <1>5 DEF WritePidFile, BecomeReady, ServerFails, ServerStep, labVars, fileVars, Idle, PidDue, ReadyDue
<1>6. CASE Cleanup
  <2>1. UNCHANGED <<task, pc, wal, copy, asked, signal>>
    BY <1>6 DEF Cleanup, LookForPidFile, Stop, StopFails, Status, StatusFails, Retain, Remove, RemoveFails,
       CleanupStep, labVars, dataVars
  <2>2. srv' = srv \/ srv' = [srv EXCEPT ![which] = "none"]
    BY <1>6 DEF Cleanup, LookForPidFile, Stop, StopFails, Status, StatusFails, Retain, Remove, RemoveFails
  <2> QED
    BY <1>1, <2>1, <2>2 DEF Idle
<1> QED
  BY <1>2, <1>3, <1>4, <1>5, <1>6 DEF Aside

(* ... so to the data every step is one of these.                          *)
LEMMA Effects ==
    ASSUME IInv, NoErrorYet, [Next]_vars, ~err'
    PROVE  ~err /\ (Idle \/ (\E op : Advance(op)) \/ Change)
<1>1. (\E op : Advance(op)) \/ Change \/ Aside
  BY Kinds
<1>2. err => phase # "work"
  BY DEF NoErrorYet
<1>3. ~err
  <2>1. CASE \E op : Advance(op)
    BY <2>1 DEF Advance
  <2>2. CASE RecoveryFails \/ ReplayRecord \/ Connect \/ Receive \/ PauseTakesHold \/ Archive
             \/ \E w \in Clusters : WritePidFile(w) \/ BecomeReady(w) \/ ServerFails(w)
    BY <2>2 DEF RecoveryFails, ReplayRecord, Connect, Receive, PauseTakesHold, Archive, WritePidFile, BecomeReady,
       ServerFails, ServerStep, labVars
  <2>3. CASE Commit \/ Backup \/ SwitchWal \/ CopyArchive \/ Withhold \/ BackupForStandby \/ Ask
             \/ RequestPause \/ Action \/ ActionBuilds
    BY <1>2, <2>3 DEF Commit, Backup, SwitchWal, CopyArchive, Withhold, BackupForStandby, Ask, RequestPause, Action,
       ActionBuilds, Run, Working
  <2>4. CASE \E w \in Clusters : Launch(w)
    BY <1>2, <2>4 DEF Launch, Starting, Working
  <2>5. CASE Finish \/ Cancel \/ Exited \/ UNCHANGED vars
    BY <1>2, <2>5 DEF Finish, Cancel, Exited, vars, labVars
  <2>6. CASE Cleanup
    BY <2>6 DEF Cleanup, LookForPidFile, Stop, StopFails, Status, StatusFails, Retain, Remove,
       RemoveFails, CleanupStep, labVars, IInv, TypeOK
  <2> QED
    BY <1>1, <2>1, <2>2, <2>3, <2>4, <2>5, <2>6 DEF Change, Aside, Clusters
<1> QED
  BY <1>1, <1>3, AsideIsIdle

----------------------------------------------------------------------------
(* The rows a lesson writes are written in its steps of that name.         *)
LEMMA NextWritten ==
    ASSUME IInv, NEW op, Working(op)
    PROVE  IF op \in Records THEN /\ WrittenBefore(pc + 1) = WrittenBefore(pc) + 1
                                  /\ op = Writes[WrittenBefore(pc) + 1]
                             ELSE WrittenBefore(pc + 1) = WrittenBefore(pc)
<1> USE DEF WrittenBefore, Writes, Records, RestorePoints
<1>1. CASE task.lesson = 27
  BY <1>1, RestoreAt
<1>2. CASE task.lesson = 28
  BY <1>2, HistoryAt
<1>3. CASE task.lesson = 29
  BY <1>3, TargetedAt
<1>4. CASE task.lesson = 30
  BY <1>4, StandbyAt
<1>5. CASE task.lesson = 31
  BY <1>5, ReplayAt
<1> QED
  BY <1>1, <1>2, <1>3, <1>4, <1>5, FiveLessons DEF IInv, TypeOK

(* The primary's history is what the steps so far have written.            *)
LEMMA HistoryKept ==
    ASSUME IInv, DataTypes, NoErrorYet, HistoryWritten, [Next]_vars
    PROVE  HistoryWritten'
<1> SUFFICES ASSUME ~err' PROVE HistoryWritten'
  BY DEF HistoryWritten
<1>1. ~err /\ (Idle \/ (\E op : Advance(op)) \/ Change)
  BY Effects
<1>2. ASSUME UNCHANGED <<task, pc>>, wal'.history = wal.history
      PROVE  HistoryWritten'
  BY <1>1, <1>2 DEF HistoryWritten, WrittenBefore, Writes
<1>3. ASSUME NEW op, Working(op), op \notin Records, task' = task, wal'.history = wal.history,
             pc' = pc + 1
      PROVE  HistoryWritten'
  <2>1. WrittenBefore(pc') = WrittenBefore(pc)
    BY <1>3, NextWritten
  <2>2. WrittenBefore(pc)' = WrittenBefore(pc') /\ Writes' = Writes
    BY <1>3 DEF WrittenBefore, Writes
  <2> QED
    BY <1>1, <1>3, <2>1, <2>2 DEF HistoryWritten
<1>4. CASE Commit
  <2>1. PICK r \in Records : /\ Working(r) /\ Proceed /\ task' = task
                             /\ wal' = [wal EXCEPT !.history = Append(@, r)]
    BY <1>4 DEF Commit, Run, Quietly
  <2>2. wal'.history = Append(wal.history, r)
    BY <2>1 DEF DataTypes
  <2>3. /\ WrittenBefore(pc') = WrittenBefore(pc) + 1
        /\ r = Writes[WrittenBefore(pc) + 1]
    BY <2>1, NextWritten DEF Proceed
  <2>4. WrittenBefore(pc)' = WrittenBefore(pc') /\ Writes' = Writes
    BY <2>1 DEF WrittenBefore, Writes
  <2>5. wal.history \in Seq(Records) /\ Len(wal.history) \in Nat
    BY LenProperties DEF DataTypes
  <2>6. Len(wal'.history) = Len(wal.history) + 1
    BY <2>2, <2>5
  <2>7. ASSUME NEW i \in 1 .. Len(wal'.history)
        PROVE  wal'.history[i] = Writes[i]
    <3>1. CASE i = Len(wal.history) + 1
      BY <1>1, <2>2, <2>3, <2>5, <3>1 DEF HistoryWritten
    <3>2. CASE i \in 1 .. Len(wal.history)
      BY <1>1, <2>2, <2>5, <3>2 DEF HistoryWritten
    <3> QED
      BY <2>5, <2>6, <3>1, <3>2
  <2> QED
    BY <1>1, <2>3, <2>4, <2>6, <2>7 DEF HistoryWritten
<1>5. CASE Backup \/ SwitchWal \/ CopyArchive \/ Withhold \/ BackupForStandby \/ Ask \/ RequestPause \/ Action
  <2>1. PICK op \in {"backup", "switch", "cp_archive", "withhold", "backup_R", "ask_primary", "ask_copy",
                     "pause", "action"} : Working(op)
    BY <1>5 DEF Backup, SwitchWal, CopyArchive, Withhold, BackupForStandby, Ask, RequestPause, Action, Run
  <2>2. task' = task /\ pc' = pc + 1
    BY <1>5 DEF Backup, SwitchWal, CopyArchive, Withhold, BackupForStandby, Ask, RequestPause, Action, Quietly,
       Proceed
  <2>3. wal'.history = wal.history
    BY <1>5 DEF Backup, SwitchWal, CopyArchive, Withhold, BackupForStandby, Ask, RequestPause, Action,
       BaseBackup, DataTypes
  <2>4. op \notin Records
    BY DEF Records, RestorePoints
  <2> QED
    BY <1>3, <2>1, <2>2, <2>3, <2>4
<1>6. CASE ActionBuilds \/ Launch("copy")
  <2>1. UNCHANGED <<task, pc>> /\ wal'.history = wal.history
    BY <1>6 DEF ActionBuilds, BaseBackup, Launch, Quietly, labVars, DataTypes
  <2> QED
    BY <1>2, <2>1
<1>7. CASE RecoveryFails \/ ReplayRecord \/ Connect \/ Receive \/ PauseTakesHold \/ Archive
  <2>1. UNCHANGED <<task, pc>> /\ wal'.history = wal.history
    BY <1>7 DEF RecoveryFails, ReplayRecord, Connect, Receive, PauseTakesHold, Archive, ServerStep, labVars, DataTypes
  <2> QED
    BY <1>2, <2>1
<1>8. CASE Idle
  BY <1>2, <1>8 DEF Idle
<1>9. CASE \E op : Advance(op)
  BY <1>3, <1>9 DEF Advance, Changing
<1> QED
  BY <1>1, <1>4, <1>5, <1>6, <1>7, <1>8, <1>9 DEF Change

(* The data changes in the actions that are about it.                      *)
LEMMA SegmentsKept ==
    ASSUME DataTypes, [Next]_vars
    PROVE  /\ ~CopyArchive => wal'.last = wal.last
           /\ ~Action => wal'.original = wal.original
<1>1. CASE Script1 /\ ~Action
  BY <1>1 DEF Script1, MakeTree, Configure, Inspect, InitCluster, Commit, Backup, SwitchWal,
     CopyArchive, Withhold, Clone, BackupForStandby, BaseBackup, Ask, RequestPause, Found, NotFound, ActionBuilds,
     Quietly, dataVars, DataTypes
<1>2. CASE Script2 \/ Cleanup
  BY <1>2 DEF Script2, Launch, LaunchRefused, Started, StartFailed, Seen, Deadline, StepFails, Finish,
     Cleanup, LookForPidFile, Stop, StopFails, Status, StatusFails, Retain, Remove, RemoveFails,
     CleanupStep, Quietly, dataVars
<1>3. CASE Servers
  BY <1>3 DEF Servers, WritePidFile, BecomeReady, ServerFails, RecoveryFails, ReplayRecord, Connect, Receive,
     PauseTakesHold, Archive, ServerStep, DataTypes
<1>4. CASE Cancel \/ Exited \/ UNCHANGED vars
  BY <1>4 DEF Cancel, Exited, vars, dataVars
<1>5. CASE Action
  <2>1. wal' \in {wal, [wal EXCEPT !.first = "same"], [wal EXCEPT !.first = "other"],
                  [wal EXCEPT !.first = "same", !.original = "other"],
                  [wal EXCEPT !.base = Len(wal.history)]}
    BY <1>5 DEF Action, BaseBackup
  <2> QED
    BY <1>5, <2>1 DEF DataTypes
<1> QED
  BY <1>1, <1>2, <1>3, <1>4, <1>5 DEF Next, Lab

(* Only the learner changes the original segment.                          *)
LEMMA HarmKept ==
    ASSUME DataTypes, HarmIsAnAnswer, [Next]_vars
    PROVE  HarmIsAnAnswer'
<1>1. task' = task
  BY OneTask
<1>2. CASE Action
  <2>1. task.answer = "harm" \/ wal'.original = wal.original
    BY <1>2 DEF Action, BaseBackup, DataTypes
  <2> QED
    BY <1>1, <2>1 DEF HarmIsAnAnswer
<1>3. CASE ~Action
  BY <1>1, <1>3, SegmentsKept DEF HarmIsAnAnswer
<1> QED
  BY <1>2, <1>3

----------------------------------------------------------------------------
(* The rows of a history that has been written as far as it goes.          *)
LEMMA RowsOfPlain ==
    ASSUME HistoryWritten, ~err, task.lesson \in {27, 30, 31}
    PROVE  /\ RowsAt(0) = {}
           /\ Len(wal.history) >= 1 => RowsAt(1) = {"baseline"}
           /\ Len(wal.history) = 2 => RowsAt(2) = {"baseline", Writes[2]} /\ Writes[2] \in {"later", "marker"}
<1>1. /\ Len(wal.history) >= 1 => wal.history[1] = "baseline"
      /\ Len(wal.history) = 2 => wal.history[2] = Writes[2]
      /\ Writes[2] \in {"later", "marker"}
  BY DEF HistoryWritten, Writes, WrittenBefore
<1>2. 1..0 = {} /\ 1..1 = {1} /\ 1..2 = {1, 2}
  OBVIOUS
<1> QED
  BY <1>1, <1>2 DEF RowsAt, RestorePoints

(* The rows of lessons 28 and 29 when everything is written.               *)
LEMMA RowsOfArchive ==
    ASSUME HistoryWritten, ~err, task.lesson \in {28, 29}, Len(wal.history) = 5
    PROVE  /\ RowsAt(1) = {"baseline"} /\ RowsAt(2) = {"baseline", "accepted"}
           /\ RowsAt(3) = {"baseline", "accepted"} /\ RowsAt(4) = {"baseline", "accepted", "bad"}
           /\ RowsAt(5) = {"baseline", "accepted", "bad"}
           /\ wal.history[3] = "before_bad" /\ wal.history[5] = "after_bad"
           /\ \A i \in {1, 2, 4} : wal.history[i] \notin RestorePoints
<1>1. /\ wal.history[1] = "baseline" /\ wal.history[2] = "accepted" /\ wal.history[3] = "before_bad"
      /\ wal.history[4] = "bad" /\ wal.history[5] = "after_bad"
  BY DEF HistoryWritten, Writes
<1>2. /\ 1..1 = {1} /\ 1..2 = {1, 2} /\ 1..3 = {1, 2, 3} /\ 1..4 = {1, 2, 3, 4}
      /\ 1..5 = {1, 2, 3, 4, 5}
  OBVIOUS
<1> QED
  BY <1>1, <1>2 DEF RowsAt, RestorePoints

(* How much has been written at the places that matter.                    *)
LEMMA RestoreLength ==
    ASSUME HistoryWritten, ~err, task.lesson = 27, pc \in Nat
    PROVE  /\ pc \in 9..12 => Len(wal.history) = 1
           /\ pc > 12 => Len(wal.history) = 2
<1>1. Len(wal.history) = WrittenBefore(pc)
  BY DEF HistoryWritten
<1>2. /\ pc \in 9..12 => WrittenBefore(pc) = 1
      /\ pc > 12 => WrittenBefore(pc) = 2
  BY DEF WrittenBefore
<1> QED
  BY <1>1, <1>2

(* Lesson 27 restores the backup and nothing behind it.                    *)
LEMMA RestoredKept ==
    ASSUME IInv, RInv, [Next]_vars
    PROVE  Restored' /\ AskedAndTold'
<1> SUFFICES ASSUME ~err', task'.lesson = 27 PROVE Restored' /\ AskedAndTold'
  BY DEF Restored, AskedAndTold
<1>1. ~err /\ (Idle \/ (\E op : Advance(op)) \/ Change)
  BY Effects DEF RInv
<1>2. /\ DataTypes /\ HistoryWritten /\ pc \in Nat
      /\ srv \in [Clusters -> {"none", "forked", "starting", "ready"}]
      /\ "copy" \in Clusters
      /\ wal.base \in Nat
  BY DEF RInv, IInv, TypeOK, DataTypes, Clusters
<1>3. task' = task /\ task.lesson = 27
  BY OneTask
<1>4. /\ ~signal
      /\ pc > 10 => wal.base = 1
      /\ srv["copy"] # "none" => pc >= 15 /\ copy.replayed = wal.base
      /\ pc > 15 => copy.replayed = 1
      /\ pc > 9 => task.answer \in {"full", "coarse"}
      /\ pc > 19 => task.answer = "full"
  BY <1>1, <1>3 DEF RInv, Restored
<1>5. /\ asked \in Seq(SUBSET Records)
      /\ Len(asked) = IF pc <= 9 THEN 0 ELSE IF pc <= 16 THEN 1 ELSE IF pc = 17 THEN 2 ELSE 3
      /\ \A i \in 1 .. Len(asked) : asked[i] = Told(IF i <= 2 THEN {"baseline"} ELSE {"baseline", "later"})
  BY <1>1, <1>3 DEF RInv, AskedAndTold
<1>6. ASSUME asked' = asked, pc' = pc \/ (pc' = pc + 1 /\ pc \notin {9, 16, 17})
      PROVE  AskedAndTold'
  BY <1>2, <1>3, <1>5, <1>6 DEF AskedAndTold, Told
<1>7. CASE Idle
  BY <1>3, <1>4, <1>6, <1>7 DEF Idle, Restored
<1>8. CASE \E op : Advance(op)
  <2>1. PICK op : Advance(op)
    BY <1>8
  <2>2. Working(op)
    BY <2>1 DEF Advance
  <2>3. /\ pc \in {1, 2, 3, 4, 5, 6, 7, 11, 13, 14, 15, 18, 19}
        /\ pc = 15 => op = "start_copy"
        /\ pc = 19 => op = "compare_answers"
    BY <1>3, <2>1, <2>2, RestoreAt DEF Advance, Changing, Records
  <2>4. pc = 15 => Up("copy")
    BY <2>1, <2>3 DEF Advance
  <2>5. pc = 19 => asked[1] = asked[2] /\ asked[1] # asked[3]
    BY <2>1, <2>3 DEF Advance, Checks, Holds
  <2>6. pc = 19 => task.answer = "full"
    <3>1. pc = 19 => asked[1] = Told({"baseline"}) /\ asked[3] = Told({"baseline", "later"})
      BY <1>5
    <3> QED
      BY <2>5, <3>1 DEF Told
  <2>7. /\ pc' = pc + 1 /\ UNCHANGED <<task, wal, copy, signal, srv, asked>>
    BY <2>1 DEF Advance
  <2> QED
    BY <1>3, <1>4, <1>6, <2>3, <2>4, <2>6, <2>7 DEF Restored, Up
<1>9. CASE Commit
  <2>1. pc \in {8, 12}
    BY <1>3, <1>9, RestoreAt DEF Commit, Run, Records, RestorePoints
  <2>2. UNCHANGED <<srv, signal, copy, asked>> /\ pc' = pc + 1 /\ wal'.base = wal.base
    BY <1>2, <1>9 DEF Commit, Quietly, serverVars, fileVars, Proceed, DataTypes
  <2> QED
    BY <1>3, <1>4, <1>6, <2>1, <2>2 DEF Restored
<1>10. CASE Backup
  <2>1. pc = 10
    BY <1>3, <1>10, RestoreAt DEF Backup, Run
  <2>2. UNCHANGED <<srv, signal, copy, asked>> /\ pc' = pc + 1 /\ wal'.base = Len(wal.history)
    BY <1>2, <1>10 DEF Backup, Quietly, serverVars, fileVars, Proceed, DataTypes
  <2>3. Len(wal.history) = 1
    BY <1>1, <1>2, <1>3, <2>1, RestoreLength
  <2> QED
    BY <1>3, <1>4, <1>6, <2>1, <2>2, <2>3 DEF Restored
<1>11. CASE Ask
  <2>1. PICK w \in Clusters : /\ Run(IF w = "primary" THEN "ask_primary" ELSE "ask_copy")
                              /\ task.answer \in {"full", "coarse"}
                              /\ asked' = Append(asked, Told(Rows(w)))
    BY <1>11 DEF Ask, Told
  <2>2. pc \in {9, 16, 17} /\ (pc \in {9, 17} => w = "primary") /\ (pc = 16 => w = "copy")
    BY <1>3, <2>1, RestoreAt DEF Run, Clusters
  <2>3. UNCHANGED <<srv, signal, copy, wal>> /\ pc' = pc + 1
    BY <1>11 DEF Ask, Quietly, serverVars, fileVars, Proceed
  <2>4. Rows(w) = IF pc = 17 THEN {"baseline", "later"} ELSE {"baseline"}
    <3>1. CASE pc = 9
      <4>1. Len(wal.history) = 1
        BY <1>1, <1>2, <1>3, <3>1, RestoreLength
      <4>2. Rows(w) = RowsAt(1)
        BY <2>2, <3>1, <4>1 DEF Rows
      <4> QED
        BY <1>1, <1>2, <1>3, <3>1, <4>1, <4>2, RowsOfPlain
    <3>2. CASE pc = 16
      <4>1. Len(wal.history) = 2
        BY <1>1, <1>2, <1>3, <3>2, RestoreLength
      <4>2. Rows(w) = RowsAt(1)
        BY <1>4, <2>2, <3>2 DEF Rows
      <4> QED
        BY <1>1, <1>2, <1>3, <3>2, <4>1, <4>2, RowsOfPlain
    <3>3. CASE pc = 17
      <4>1. Writes[2] = "later"
        BY <1>3 DEF Writes
      <4>2. Len(wal.history) = 2
        BY <1>1, <1>2, <1>3, <3>3, RestoreLength
      <4>3. Rows(w) = RowsAt(2)
        BY <2>2, <3>3, <4>2 DEF Rows
      <4> QED
        BY <1>1, <1>2, <1>3, <3>3, <4>1, <4>2, <4>3, RowsOfPlain
    <3> QED
      BY <2>2, <3>1, <3>2, <3>3
  <2>5. Told(Rows(w)) \in SUBSET Records
    BY <2>4 DEF Told, Records
  <2>6. /\ asked' \in Seq(SUBSET Records) /\ Len(asked') = Len(asked) + 1
        /\ \A i \in 1 .. Len(asked) : asked'[i] = asked[i]
        /\ asked'[Len(asked) + 1] = Told(Rows(w))
    BY <1>5, <2>1, <2>5
  <2>7. \A i \in 1 .. Len(asked') :
           asked'[i] = Told(IF i <= 2 THEN {"baseline"} ELSE {"baseline", "later"})
    <3>1. Len(asked) = IF pc = 9 THEN 0 ELSE IF pc = 16 THEN 1 ELSE 2
      BY <1>5, <2>2
    <3> QED
      BY <1>5, <2>2, <2>4, <2>6, <3>1
  <2>8. Len(asked') = IF pc' <= 9 THEN 0 ELSE IF pc' <= 16 THEN 1 ELSE IF pc' = 17 THEN 2 ELSE 3
    BY <1>5, <2>2, <2>3, <2>6
  <2>9. Restored'
    BY <1>3, <1>4, <2>1, <2>2, <2>3 DEF Restored
  <2>10. \A rows : Told(rows)' = Told(rows)
    BY <1>3 DEF Told
  <2>11. AskedAndTold'
    BY <1>3, <2>6, <2>7, <2>8, <2>10 DEF AskedAndTold
  <2> QED
    BY <2>9, <2>11
<1>12. CASE Launch("copy")
  <2>1. pc = 15
    BY <1>3, <1>12, RestoreAt DEF Launch, Starting
  <2>2. /\ UNCHANGED <<pc, signal, wal, asked>> /\ copy'.replayed = wal.base
    BY <1>2, <1>12 DEF Launch, labVars, fileVars, DataTypes
  <2> QED
    BY <1>3, <1>4, <1>6, <2>1, <2>2 DEF Restored
<1>13. CASE RecoveryFails \/ ReplayRecord \/ Connect \/ Receive \/ PauseTakesHold \/ Archive
  <2>1. ~FromArchive /\ ReplayLimit = wal.base
    BY <1>3, <1>4 DEF FromArchive, ReplayLimit
  <2>2. ~RecoveryFails /\ ~Connect
    BY <1>4, <2>1 DEF RecoveryFails, NoStartDue, TornDue, Connect, ConnectDue
  <2>3. ~ReplayRecord
    BY <1>2, <1>4, <2>1 DEF ReplayRecord, ReplayDue
  <2>4. /\ UNCHANGED <<pc, signal, asked, srv>> /\ wal'.base = wal.base /\ copy'.replayed = copy.replayed
    BY <1>2, <1>13, <2>2, <2>3 DEF Receive, PauseTakesHold, Archive, ServerStep, labVars, fileVars, DataTypes
  <2> QED
    BY <1>3, <1>4, <1>6, <2>4 DEF Restored
<1>14. ~ (SwitchWal \/ CopyArchive \/ Withhold \/ BackupForStandby \/ RequestPause \/ Action \/ ActionBuilds)
  <2>1. ASSUME NEW op \in {"switch", "cp_archive", "withhold", "backup_R", "pause", "action"}
        PROVE  ~Working(op)
    BY <1>3, RestoreAt
  <2> QED
    BY <2>1 DEF SwitchWal, CopyArchive, Withhold, BackupForStandby, RequestPause, Action, ActionBuilds, Run
<1> QED
  BY <1>1, <1>7, <1>8, <1>9, <1>10, <1>11, <1>12, <1>13, <1>14 DEF Change

(* Lesson 28 goes on only when the withheld segment is back.               *)
LEMMA RepairedKept ==
    ASSUME IInv, RInv, [Next]_vars
    PROVE  Repaired'
<1> SUFFICES ASSUME ~err', task'.lesson = 28 PROVE Repaired'
  BY DEF Repaired
<1>1. ~err /\ (Idle \/ (\E op : Advance(op)) \/ Change)
  BY Effects DEF RInv
<1>2. /\ DataTypes /\ pc \in Nat
  BY DEF RInv, IInv, TypeOK
<1>3. task' = task /\ task.lesson = 28
  BY OneTask
<1>4. /\ pc \in 18..22 => wal.first = "missing"
      /\ pc > 22 /\ wal.first = "same" =>
            task.answer = "restore" \/ (task.answer = "harm" /\ wal.original = "other")
      /\ pc > 23 => wal.first = "same"
      /\ pc > 25 => copy.pause = "paused"
      /\ pc > 26 => Rows("copy") = {"baseline", "accepted"}
      /\ pc > 27 => wal.original = "same"
  BY <1>1, <1>3 DEF RInv, Repaired
<1>5. ASSUME UNCHANGED <<wal, copy>>
      PROVE  Rows("copy")' = Rows("copy")
  BY <1>5 DEF Rows, RowsAt
<1>6. CASE Idle
  BY <1>3, <1>4, <1>5, <1>6 DEF Idle, Repaired
<1>7. CASE \E op : Advance(op)
  <2>1. PICK op : Advance(op)
    BY <1>7
  <2>2. Working(op)
    BY <2>1 DEF Advance
  <2>3. /\ pc \in 1..27 /\ pc # 17
        /\ pc = 23 => op = "compare_segment"
        /\ pc = 25 => op = "await_paused"
        /\ pc = 26 => op = "check_copy"
        /\ pc = 27 => op = "compare_original"
    BY <1>3, <2>1, <2>2, HistoryAt DEF Advance, Changing
  <2>4. /\ pc = 23 => wal.first = "same"
        /\ pc = 27 => wal.original = "same"
    BY <2>1, <2>3 DEF Advance, Checks, Holds
  <2>5. pc = 26 => Rows("copy") = {"baseline", "accepted"}
    BY <1>3, <2>1, <2>3 DEF Advance, Checks, Holds, Wanted
  <2>6. pc = 25 => copy.pause = "paused"
    BY <2>1, <2>3 DEF Advance, Polls, Awaited
  <2>7. /\ pc' = pc + 1 /\ UNCHANGED <<wal, copy>>
    BY <2>1 DEF Advance
  <2> QED
    BY <1>3, <1>4, <1>5, <2>3, <2>4, <2>5, <2>6, <2>7 DEF Repaired
<1>8. CASE Commit \/ Backup \/ SwitchWal \/ CopyArchive \/ Withhold
  <2>1. PICK op \in Records \cup {"backup", "switch", "cp_archive", "withhold"} :
           Working(op) /\ (op = "withhold" => Withhold)
    BY <1>8 DEF Commit, Backup, SwitchWal, CopyArchive, Withhold, Run, Records, RestorePoints
  <2>2. pc \in 1..17 /\ (pc = 17 => op = "withhold")
    BY <1>3, <2>1, HistoryAt DEF Records, RestorePoints
  <2>3. pc' = pc + 1
    BY <1>8 DEF Commit, Backup, SwitchWal, CopyArchive, Withhold, Proceed
  <2>4. pc = 17 => wal'.first = "missing"
    BY <1>2, <2>1, <2>2 DEF Withhold, DataTypes
  <2> QED
    BY <1>3, <2>2, <2>3, <2>4 DEF Repaired
<1>9. CASE Action
  <2>1. pc = 22 /\ pc' = 23
    BY <1>3, <1>9, HistoryAt DEF Action, Run, Proceed
  <2>2. \/ wal' \in {wal, [wal EXCEPT !.base = Len(wal.history)], [wal EXCEPT !.first = "other"]}
        \/ task.answer = "restore"
        \/ task.answer = "harm" /\ wal' = [wal EXCEPT !.first = "same", !.original = "other"]
    BY <1>9 DEF Action, BaseBackup
  <2>3. \/ wal'.first \in {"missing", "other"}
        \/ task.answer = "restore"
        \/ task.answer = "harm" /\ wal'.original = "other"
    <3>1. wal.first = "missing"
      BY <1>4, <2>1
    <3>2. CASE wal' \in {wal, [wal EXCEPT !.base = Len(wal.history)], [wal EXCEPT !.first = "other"]}
      <4>1. wal'.first \in {"missing", "other"}
        BY <1>2, <3>1, <3>2 DEF DataTypes
      <4> QED
        BY <4>1
    <3>3. CASE task.answer = "harm" /\ wal' = [wal EXCEPT !.first = "same", !.original = "other"]
      <4>1. wal'.original = "other"
        BY <1>2, <3>3 DEF DataTypes
      <4> QED
        BY <3>3, <4>1
    <3> QED
      BY <2>2, <3>2, <3>3
  <2> QED
    BY <1>3, <2>1, <2>3 DEF Repaired
<1>10. CASE ActionBuilds
  <2>1. pc = 22 /\ pc' = 22
    BY <1>3, <1>10, HistoryAt DEF ActionBuilds, Run, labVars
  <2>2. wal'.first = wal.first
    BY <1>2, <1>10 DEF ActionBuilds, BaseBackup, DataTypes
  <2> QED
    BY <1>3, <1>4, <2>1, <2>2 DEF Repaired
<1>11. CASE Launch("copy")
  <2>1. pc \in {20, 22, 24} /\ UNCHANGED <<pc, wal>>
    BY <1>3, <1>11, HistoryAt DEF Launch, Starting, labVars
  <2> QED
    BY <1>3, <1>4, <2>1 DEF Repaired
<1>12. CASE RecoveryFails \/ ReplayRecord \/ Connect \/ Receive \/ PauseTakesHold \/ Archive
  <2>1. UNCHANGED pc /\ wal'.first = wal.first /\ wal'.original = wal.original /\ wal'.history = wal.history
    BY <1>2, <1>12 DEF RecoveryFails, ReplayRecord, Connect, Receive, PauseTakesHold, Archive,
       ServerStep, labVars, DataTypes
  <2>2. copy.pause = "paused" => copy'.pause = "paused" /\ copy'.replayed = copy.replayed
    BY <1>2, <1>12 DEF RecoveryFails, ReplayRecord, ReplayDue, Connect, Receive, PauseTakesHold, Archive,
       DataTypes
  <2>3. copy.pause = "paused" => Rows("copy")' = Rows("copy")
    BY <2>1, <2>2 DEF Rows, RowsAt
  <2> QED
    BY <1>2, <1>3, <1>4, <2>1, <2>2, <2>3 DEF Repaired
<1>13. ~ (BackupForStandby \/ Ask \/ RequestPause)
  <2>1. ASSUME NEW op \in {"backup_R", "ask_primary", "ask_copy", "pause"}
        PROVE  ~Working(op)
    BY <1>3, HistoryAt
  <2> QED
    BY <2>1 DEF BackupForStandby, Ask, RequestPause, Run
<1> QED
  BY <1>1, <1>6, <1>7, <1>8, <1>9, <1>10, <1>11, <1>12, <1>13 DEF Change

(* Lessons 28 and 29 recover from five records.                            *)
LEMMA ArchiveLength ==
    ASSUME HistoryWritten, ~err, task.lesson \in {28, 29}, pc \in Nat, pc > 13
    PROVE  Len(wal.history) = 5
<1>1. Len(wal.history) = WrittenBefore(pc)
  BY DEF HistoryWritten
<1>2. WrittenBefore(pc) = 5
  BY DEF WrittenBefore
<1> QED
  BY <1>1, <1>2

(* The copy of lesson 29 stops at the restore point of the answer.         *)
LEMMA StoppedKept ==
    ASSUME IInv, RInv, [Next]_vars
    PROVE  StoppedAtTarget'
<1> SUFFICES ASSUME ~err', task'.lesson = 29 PROVE StoppedAtTarget'
  BY DEF StoppedAtTarget
<1>1. ~err /\ (Idle \/ (\E op : Advance(op)) \/ Change)
  BY Effects DEF RInv
<1>2. /\ DataTypes /\ HistoryWritten /\ pc \in Nat
      /\ srv \in [Clusters -> {"none", "forked", "starting", "ready"}]
      /\ "copy" \in Clusters
  BY DEF RInv, IInv, TypeOK, Clusters
<1>3. task' = task /\ task.lesson = 29
  BY OneTask
<1>4. /\ srv["copy"] # "none" => pc >= 19
      /\ copy.pause # "requested"
      /\ copy.pause = "paused" =>
            /\ pc >= 19 /\ copy.replayed \in 1..5
            /\ Writes[copy.replayed] \in RestorePoints
            /\ Writes[copy.replayed] = task.answer
      /\ pc > 20 => copy.pause = "paused"
      /\ pc > 23 => Rows("copy") = {"baseline", "accepted"}
  BY <1>1, <1>3 DEF RInv, StoppedAtTarget
<1>5. Writes' = Writes
  BY <1>3 DEF Writes
<1>6. ASSUME UNCHANGED <<wal, copy>>
      PROVE  Rows("copy")' = Rows("copy")
  BY <1>6 DEF Rows, RowsAt
<1>7. CASE Idle
  BY <1>3, <1>4, <1>5, <1>6, <1>7 DEF Idle, StoppedAtTarget
<1>8. CASE \E op : Advance(op)
  <2>1. PICK op : Advance(op)
    BY <1>8
  <2>2. Working(op)
    BY <2>1 DEF Advance
  <2>3. /\ pc \in 1..23
        /\ pc = 20 => op = "await_paused"
        /\ pc = 23 => op = "check_copy"
    BY <1>3, <2>2, TargetedAt
  <2>4. pc = 23 => Rows("copy") = {"baseline", "accepted"}
    BY <1>3, <2>1, <2>3 DEF Advance, Checks, Holds, Wanted
  <2>5. pc = 20 => copy.pause = "paused"
    BY <2>1, <2>3 DEF Advance, Polls, Awaited
  <2>6. /\ pc' = pc + 1 /\ UNCHANGED <<wal, copy, srv>>
    BY <2>1 DEF Advance
  <2> QED
    BY <1>3, <1>4, <1>5, <1>6, <2>3, <2>4, <2>5, <2>6 DEF StoppedAtTarget
<1>9. CASE Commit \/ Backup \/ SwitchWal \/ CopyArchive
  <2>1. PICK op \in Records \cup {"backup", "switch", "cp_archive"} : Working(op)
    BY <1>9 DEF Commit, Backup, SwitchWal, CopyArchive, Run
  <2>2. pc \in 1..17
    BY <1>3, <2>1, TargetedAt DEF Records, RestorePoints
  <2>3. pc' = pc + 1 /\ UNCHANGED <<srv, copy>>
    BY <1>9 DEF Commit, Backup, SwitchWal, CopyArchive, Proceed, Quietly, serverVars
  <2> QED
    BY <1>3, <1>4, <2>2, <2>3 DEF StoppedAtTarget
<1>10. CASE Launch("copy")
  <2>1. pc = 19
    BY <1>3, <1>10, TargetedAt DEF Launch, Starting
  <2>2. pc' = pc /\ copy'.pause = "no"
    BY <1>2, <1>10 DEF Launch, labVars, DataTypes
  <2> QED
    BY <1>3, <2>1, <2>2 DEF StoppedAtTarget
<1>11. CASE ReplayRecord
  <2>1. pc >= 19 /\ pc' = pc /\ UNCHANGED <<srv, wal>> /\ copy.pause = "no" /\ FromArchive
    BY <1>2, <1>3, <1>4, <1>11 DEF ReplayRecord, ReplayDue, ServerStep, labVars, FromArchive, DataTypes
  <2>2. Len(wal.history) = 5
    BY <1>1, <1>2, <1>3, <2>1, ArchiveLength
  <2>3. copy.replayed + 1 \in 1..5
    <3>1. ReplayLimit = 5
      BY <2>1, <2>2 DEF ReplayLimit
    <3> QED
      BY <1>2, <1>11, <3>1 DEF ReplayRecord, ReplayDue, DataTypes
  <2>4. wal.history[copy.replayed + 1] = Writes[copy.replayed + 1]
    BY <1>1, <1>2, <2>2, <2>3 DEF HistoryWritten
  <2>5. copy'.replayed = copy.replayed + 1
    BY <1>2, <1>11 DEF ReplayRecord, DataTypes
  <2>8. pc' \in 19..20
    BY <1>2, <1>4, <2>1
  <2>6. CASE Writes[copy.replayed + 1] \in RestorePoints /\ Writes[copy.replayed + 1] = task.answer
    <3>1. copy'.pause \in {"no", "paused"}
      BY <1>2, <1>11, <2>1 DEF ReplayRecord, DataTypes
    <3>2. Writes'[copy'.replayed] = Writes[copy.replayed + 1] /\ copy'.replayed \in 1..5
      BY <1>5, <2>3, <2>5
    <3> QED
      BY <1>3, <2>6, <2>8, <3>1, <3>2 DEF StoppedAtTarget
  <2>7. CASE ~(Writes[copy.replayed + 1] \in RestorePoints /\ Writes[copy.replayed + 1] = task.answer)
    <3>1. copy'.pause = "no"
      BY <1>2, <1>3, <1>11, <2>1, <2>4, <2>7 DEF ReplayRecord, DataTypes, Target
    <3> QED
      BY <1>3, <2>8, <3>1 DEF StoppedAtTarget
  <2> QED
    BY <2>6, <2>7
<1>12. CASE RecoveryFails \/ Connect \/ Receive \/ PauseTakesHold \/ Archive
  <2>1. /\ UNCHANGED pc /\ wal'.history = wal.history
        /\ copy'.replayed = copy.replayed
    BY <1>2, <1>12 DEF RecoveryFails, Connect, Receive, PauseTakesHold, Archive,
       ServerStep, labVars, DataTypes
  <2>2. copy'.pause = copy.pause
    BY <1>2, <1>4, <1>12 DEF RecoveryFails, Connect, Receive, PauseTakesHold, PauseDue, Archive, DataTypes
  <2>3. srv'["copy"] # "none" => srv["copy"] # "none"
    BY <1>2, <1>12 DEF RecoveryFails, Connect, Receive, PauseTakesHold, Archive, ServerStep
  <2>4. Rows("copy")' = Rows("copy")
    BY <2>1 DEF Rows, RowsAt
  <2> QED
    BY <1>3, <1>4, <1>5, <2>1, <2>2, <2>3, <2>4 DEF StoppedAtTarget
<1>13. ~ (Withhold \/ Action \/ ActionBuilds \/ BackupForStandby \/ Ask \/ RequestPause)
  <2>1. ASSUME NEW op \in {"withhold", "action", "backup_R", "ask_primary", "ask_copy", "pause"}
        PROVE  ~Working(op)
    BY <1>3, TargetedAt
  <2> QED
    BY <2>1 DEF Withhold, Action, ActionBuilds, BackupForStandby, Ask, RequestPause, Run
<1> QED
  BY <1>1, <1>7, <1>8, <1>9, <1>10, <1>11, <1>12, <1>13 DEF Change

(* What has been written at the places of lessons 30 and 31 that matter.   *)
LEMMA StandbyLength ==
    ASSUME HistoryWritten, ~err, pc \in Nat
    PROVE  /\ task.lesson = 30 /\ pc > 15 => Len(wal.history) = 2
           /\ task.lesson = 31 /\ pc > 17 => Len(wal.history) = 2
<1>1. Len(wal.history) = WrittenBefore(pc)
  BY DEF HistoryWritten
<1>2. /\ task.lesson = 30 /\ pc > 15 => WrittenBefore(pc) = 2
      /\ task.lesson = 31 /\ pc > 17 => WrittenBefore(pc) = 2
  BY DEF WrittenBefore
<1> QED
  BY <1>1, <1>2

(* A standby receives and replays what the primary has written.            *)
LEMMA StreamedKept ==
    ASSUME IInv, RInv, [Next]_vars
    PROVE  Streamed'
<1> SUFFICES ASSUME ~err', task'.lesson \in {30, 31} PROVE Streamed'
  BY DEF Streamed
<1>1. ~err /\ (Idle \/ (\E op : Advance(op)) \/ Change)
  BY Effects DEF RInv
<1>2. DataTypes /\ Len(wal.history) \in Nat
  BY LenProperties DEF RInv, DataTypes
<1>3. task' = task /\ task.lesson \in {30, 31}
  BY OneTask
<1>4. /\ wal.base <= Len(wal.history)
      /\ copy.received <= Len(wal.history)
      /\ copy.replayed <= Len(wal.history)
  BY <1>1, <1>3 DEF RInv, Streamed
<1>5. CASE Idle \/ \E op : Advance(op)
  BY <1>4, <1>5 DEF Idle, Advance, Streamed
<1>6. CASE Commit
  <2>1. PICK r \in Records : wal' = [wal EXCEPT !.history = Append(@, r)] /\ copy' = copy
    BY <1>6 DEF Commit
  <2>2. Len(wal'.history) = Len(wal.history) + 1 /\ wal'.base = wal.base
    BY <1>2, <2>1 DEF DataTypes
  <2> QED
    BY <1>2, <1>4, <2>1, <2>2 DEF Streamed, DataTypes
<1>7. CASE Backup \/ SwitchWal \/ CopyArchive \/ Withhold \/ BackupForStandby \/ Ask \/ RequestPause
  <2>1. /\ copy'.received = copy.received /\ copy'.replayed = copy.replayed
        /\ wal'.history = wal.history /\ wal'.base \in {wal.base, Len(wal.history)}
    BY <1>2, <1>7 DEF Backup, SwitchWal, CopyArchive, Withhold, BackupForStandby, BaseBackup, Ask, RequestPause, DataTypes
  <2> QED
    BY <1>2, <1>4, <2>1 DEF Streamed
<1>8. CASE Action \/ ActionBuilds
  <2>1. /\ wal' \in {wal, [wal EXCEPT !.first = "same"], [wal EXCEPT !.first = "other"],
                     [wal EXCEPT !.first = "same", !.original = "other"],
                     [wal EXCEPT !.base = Len(wal.history)]}
        /\ copy' \in {copy, [copy EXCEPT !.pause = "no"]}
    BY <1>8 DEF Action, ActionBuilds, BaseBackup
  <2>2. /\ copy'.received = copy.received /\ copy'.replayed = copy.replayed
    BY <1>2, <2>1 DEF DataTypes
  <2>3. wal'.history = wal.history /\ wal'.base \in {wal.base, Len(wal.history)}
    BY <1>2, <2>1 DEF DataTypes
  <2> QED
    BY <1>2, <1>4, <2>2, <2>3 DEF Streamed
<1>9. CASE Launch("copy")
  <2>1. wal' = wal /\ copy'.received = 0 /\ copy'.replayed = wal.base
    BY <1>2, <1>9 DEF Launch, DataTypes
  <2> QED
    BY <1>2, <1>4, <2>1 DEF Streamed
<1>10. CASE RecoveryFails \/ PauseTakesHold \/ Archive
  <2>1. /\ wal'.history = wal.history /\ wal'.base = wal.base
        /\ copy'.received = copy.received /\ copy'.replayed = copy.replayed
    BY <1>2, <1>10 DEF RecoveryFails, PauseTakesHold, Archive, DataTypes
  <2> QED
    BY <1>4, <2>1 DEF Streamed
<1>11. CASE ReplayRecord
  <2>1. wal' = wal /\ copy'.received = copy.received /\ copy'.replayed = copy.replayed + 1
    BY <1>2, <1>11 DEF ReplayRecord, DataTypes
  <2>2. ReplayLimit \in {copy.received, wal.base}
    BY <1>3 DEF ReplayLimit, FromArchive
  <2>3. copy.replayed < ReplayLimit
    BY <1>11 DEF ReplayRecord, ReplayDue
  <2>4. copy.replayed + 1 <= Len(wal.history)
    BY <1>2, <1>4, <2>2, <2>3 DEF DataTypes
  <2> QED
    BY <1>4, <2>1, <2>4 DEF Streamed
<1>12. CASE Connect
  BY <1>2, <1>4, <1>12 DEF Connect, Streamed, DataTypes
<1>13. CASE Receive
  <2>1. wal' = wal /\ copy'.received = copy.received + 1 /\ copy'.replayed = copy.replayed
    BY <1>2, <1>13 DEF Receive, DataTypes
  <2>2. copy.received + 1 <= Len(wal.history)
    BY <1>2, <1>13 DEF Receive, ReceiveDue, DataTypes
  <2> QED
    BY <1>4, <2>1, <2>2 DEF Streamed
<1> QED
  BY <1>1, <1>5, <1>6, <1>7, <1>8, <1>9, <1>10, <1>11, <1>12, <1>13 DEF Change

(* Lesson 30 goes on with a standby.                                       *)
LEMMA MadeStandbyKept ==
    ASSUME IInv, RInv, [Next]_vars
    PROVE  MadeStandby'
<1> SUFFICES ASSUME ~err', task'.lesson = 30 PROVE MadeStandby'
  BY DEF MadeStandby
<1>1. ~err /\ (Idle \/ (\E op : Advance(op)) \/ Change)
  BY Effects DEF RInv
<1>2. DataTypes /\ HistoryWritten /\ pc \in Nat /\ signal \in BOOLEAN
  BY DEF RInv, IInv, TypeOK
<1>3. task' = task /\ task.lesson = 30
  BY OneTask
<1>4. /\ signal => task.answer \in {"replica", "starts"}
      /\ pc > 10 => signal
      /\ pc > 17 => copy.replayed = 2
  BY <1>1, <1>3 DEF RInv, MadeStandby
<1>5. CASE Idle
  BY <1>3, <1>4, <1>5 DEF Idle, MadeStandby
<1>6. CASE \E op : Advance(op)
  <2>1. PICK op : Advance(op)
    BY <1>6
  <2>2. Working(op)
    BY <2>1 DEF Advance
  <2>3. pc \in 1..17 /\ (pc = 10 => op = "find_signal") /\ (pc = 17 => op = "check_copy")
    BY <1>3, <2>2, StandbyAt
  <2>4. pc = 10 => signal
    BY <2>1, <2>3 DEF Advance, Checks, Holds
  <2>5. pc = 17 => copy.replayed = 2
    <3>1. SUFFICES ASSUME pc = 17 PROVE copy.replayed = 2
      OBVIOUS
    <3>2. RowsAt(copy.replayed) = {"baseline", "marker"}
      BY <1>3, <2>1, <2>3, <3>1 DEF Advance, Checks, Holds, Wanted, Rows
    <3>3. Len(wal.history) = 2
      BY <1>1, <1>2, <1>3, <3>1, StandbyLength
    <3>4. copy.replayed \in 0..2
      BY <1>1, <1>2, <1>3, <3>3 DEF RInv, Streamed, DataTypes
    <3>5. RowsAt(0) = {} /\ RowsAt(1) = {"baseline"}
      BY <1>1, <1>2, <1>3, <3>3, RowsOfPlain
    <3> QED
      BY <3>2, <3>4, <3>5
  <2>6. /\ pc' = pc + 1 /\ UNCHANGED <<wal, copy, signal>>
    BY <2>1 DEF Advance
  <2> QED
    BY <1>3, <1>4, <2>3, <2>4, <2>5, <2>6 DEF MadeStandby
<1>7. CASE Commit
  <2>1. pc \in {8, 15}
    BY <1>3, <1>7, StandbyAt DEF Commit, Run, Records, RestorePoints
  <2>2. pc' = pc + 1 /\ UNCHANGED <<copy, signal>>
    BY <1>7 DEF Commit, Proceed, Quietly, fileVars
  <2> QED
    BY <1>3, <1>4, <2>1, <2>2 DEF MadeStandby
<1>8. CASE Action \/ ActionBuilds
  <2>1. pc = 9 /\ pc' \in {9, 10}
    BY <1>3, <1>8, StandbyAt DEF Action, ActionBuilds, Run, Proceed, labVars
  <2>2. signal' = signal \/ task.answer \in {"replica", "starts"}
    BY <1>8 DEF Action, ActionBuilds, fileVars
  <2> QED
    BY <1>3, <1>4, <2>1, <2>2 DEF MadeStandby
<1>9. CASE Launch("copy")
  <2>1. pc \in {9, 12} /\ UNCHANGED <<pc, signal>>
    BY <1>3, <1>9, StandbyAt DEF Launch, Starting, labVars, fileVars
  <2> QED
    BY <1>3, <1>4, <2>1 DEF MadeStandby
<1>10. CASE RecoveryFails \/ ReplayRecord \/ Connect \/ Receive \/ PauseTakesHold \/ Archive
  <2>1. UNCHANGED <<pc, signal>>
    BY <1>10 DEF RecoveryFails, ReplayRecord, Connect, Receive, PauseTakesHold, Archive, ServerStep, labVars, fileVars
  <2>2. pc > 17 => ~ReplayRecord
    <3>1. SUFFICES ASSUME pc > 17, ReplayRecord PROVE FALSE
      OBVIOUS
    <3>2. signal
      BY <1>2, <1>4, <3>1
    <3>3. copy.replayed < copy.received
      BY <1>3, <3>1, <3>2 DEF ReplayRecord, ReplayDue, ReplayLimit, FromArchive
    <3>4. Len(wal.history) = 2
      BY <1>1, <1>2, <1>3, <3>1, StandbyLength
    <3>5. copy.replayed = 2 /\ copy.received <= 2
      BY <1>1, <1>3, <1>4, <3>1, <3>4 DEF RInv, Streamed
    <3>6. copy.received \in Nat
      BY <1>2 DEF DataTypes
    <3> QED
      BY <3>3, <3>5, <3>6
  <2>3. ~ReplayRecord => copy'.replayed = copy.replayed
    BY <1>2, <1>10 DEF RecoveryFails, Connect, Receive, PauseTakesHold, Archive, DataTypes
  <2> QED
    BY <1>3, <1>4, <2>1, <2>2, <2>3 DEF MadeStandby
<1>11. ~ (Backup \/ SwitchWal \/ CopyArchive \/ Withhold \/ BackupForStandby \/ Ask \/ RequestPause)
  <2>1. ASSUME NEW op \in {"backup", "switch", "cp_archive", "withhold", "backup_R", "ask_primary", "ask_copy", "pause"}
        PROVE  ~Working(op)
    BY <1>3, StandbyAt
  <2> QED
    BY <2>1 DEF Backup, SwitchWal, CopyArchive, Withhold, BackupForStandby, Ask, RequestPause, Run
<1> QED
  BY <1>1, <1>5, <1>6, <1>7, <1>8, <1>9, <1>10, <1>11 DEF Change

(* The standby of lesson 31 stays paused until the learner resumes it.     *)
LEMMA ResumedKept ==
    ASSUME IInv, RInv, [Next]_vars
    PROVE  Resumed'
<1> SUFFICES ASSUME ~err', task'.lesson = 31 PROVE Resumed'
  BY DEF Resumed
<1>1. ~err /\ (Idle \/ (\E op : Advance(op)) \/ Change)
  BY Effects DEF RInv
<1>2. DataTypes /\ HistoryWritten /\ pc \in Nat /\ signal \in BOOLEAN
  BY DEF RInv, IInv, TypeOK
<1>3. task' = task /\ task.lesson = 31
  BY OneTask
<1>4. /\ pc > 19 /\ task.answer \notin {"resume", "starts"} => copy.pause = "paused"
      /\ pc > 22 => task.answer \in {"resume", "starts"} /\ copy.replayed = 2
  BY <1>1, <1>3 DEF RInv, Resumed
<1>5. pc > 17 => Len(wal.history) = 2
  BY <1>1, <1>2, <1>3, StandbyLength
<1>6. CASE Idle
  BY <1>3, <1>4, <1>6 DEF Idle, Resumed
<1>7. CASE \E op : Advance(op)
  <2>1. PICK op : Advance(op)
    BY <1>7
  <2>2. Working(op)
    BY <2>1 DEF Advance
  <2>3. /\ pc \in 1..22
        /\ pc = 19 => op = "check_held"
        /\ pc = 20 => op = "action"
        /\ pc = 22 => op = "check_resumed"
    BY <1>3, <2>2, ReplayAt
  <2>4. pc = 19 => copy.pause = "paused"
    BY <2>1, <2>3 DEF Advance, Checks, Holds
  <2>5. pc = 22 => copy.pause = "no" /\ copy.replayed = Len(wal.history)
    BY <2>1, <2>3 DEF Advance, Checks, Holds, CaughtUp
  <2>6. /\ pc' = pc + 1 /\ UNCHANGED <<wal, copy, signal>>
    BY <2>1 DEF Advance
  <2>7. pc = 20 => task.answer = "starts"
    BY <2>1, <2>3 DEF Advance
  <2>8. pc = 22 => copy.replayed = 2 /\ task.answer \in {"resume", "starts"}
    <3>1. pc = 22 => pc > 19 /\ copy.pause # "paused" /\ Len(wal.history) = 2
      BY <1>2, <1>5, <2>5
    <3> QED
      BY <1>4, <2>5, <3>1
  <2> QED
    BY <1>3, <1>4, <2>3, <2>4, <2>6, <2>7, <2>8 DEF Resumed
<1>8. CASE Commit \/ BackupForStandby \/ RequestPause
  <2>1. PICK op \in Records \cup {"backup_R", "pause"} : Working(op)
    BY <1>8 DEF Commit, BackupForStandby, RequestPause, Run
  <2>2. pc \in {8, 9, 15, 17}
    BY <1>3, <2>1, ReplayAt DEF Records, RestorePoints
  <2>3. pc' = pc + 1
    BY <1>8 DEF Commit, BackupForStandby, RequestPause, Proceed
  <2> QED
    BY <1>3, <2>2, <2>3 DEF Resumed
<1>9. CASE Action
  <2>1. pc = 20 /\ pc' = 21
    BY <1>3, <1>9, ReplayAt DEF Action, Run, Proceed
  <2>2. copy' = copy \/ task.answer = "resume"
    BY <1>9 DEF Action
  <2> QED
    BY <1>3, <1>4, <2>1, <2>2 DEF Resumed
<1>10. CASE ActionBuilds
  <2>1. pc = 20 /\ pc' = 20 /\ copy' = copy
    BY <1>3, <1>10, ReplayAt DEF ActionBuilds, Run, labVars
  <2> QED
    BY <1>3, <1>4, <2>1 DEF Resumed
<1>11. CASE Launch("copy")
  <2>1. pc \in {12, 20} /\ pc' = pc /\ (pc = 20 => task.answer = "starts")
    BY <1>3, <1>11, ReplayAt DEF Launch, Starting, labVars
  <2> QED
    BY <1>3, <2>1 DEF Resumed
<1>12. CASE RecoveryFails \/ ReplayRecord \/ Connect \/ Receive \/ PauseTakesHold \/ Archive
  <2>1. UNCHANGED pc
    BY <1>12 DEF RecoveryFails, ReplayRecord, Connect, Receive, PauseTakesHold, Archive, ServerStep, labVars
  <2>2. copy.pause = "paused" => copy'.pause = "paused"
    BY <1>2, <1>12 DEF RecoveryFails, ReplayRecord, ReplayDue, Connect, Receive, PauseTakesHold, Archive, DataTypes
  <2>3. pc > 22 => ~ReplayRecord
    <3>1. SUFFICES ASSUME pc > 22, ReplayRecord PROVE FALSE
      OBVIOUS
    <3>2. copy.replayed < ReplayLimit /\ ReplayLimit \in {copy.received, wal.base}
      BY <1>3, <3>1 DEF ReplayRecord, ReplayDue, ReplayLimit, FromArchive
    <3>3. copy.replayed = 2 /\ Len(wal.history) = 2
      BY <1>2, <1>4, <1>5, <3>1
    <3>4. copy.received <= 2 /\ wal.base <= 2
      BY <1>1, <1>3, <3>3 DEF RInv, Streamed
    <3>5. copy.received \in Nat /\ wal.base \in Nat
      BY <1>2 DEF DataTypes
    <3> QED
      BY <3>2, <3>3, <3>4, <3>5
  <2>4. ~ReplayRecord => copy'.replayed = copy.replayed
    BY <1>2, <1>12 DEF RecoveryFails, Connect, Receive, PauseTakesHold, Archive, DataTypes
  <2> QED
    BY <1>3, <1>4, <2>1, <2>2, <2>3, <2>4 DEF Resumed
<1>13. ~ (Backup \/ SwitchWal \/ CopyArchive \/ Withhold \/ Ask)
  <2>1. ASSUME NEW op \in {"backup", "switch", "cp_archive", "withhold", "ask_primary", "ask_copy"}
        PROVE  ~Working(op)
    BY <1>3, ReplayAt
  <2> QED
    BY <2>1 DEF Backup, SwitchWal, CopyArchive, Withhold, Ask, Run
<1> QED
  BY <1>1, <1>6, <1>7, <1>8, <1>9, <1>10, <1>11, <1>12, <1>13 DEF Change

(* The invariant is one.                                                   *)
LEMMA RInvKept == IInv /\ RInv /\ [Next]_vars => RInv'
<1> SUFFICES ASSUME IInv, RInv, [Next]_vars PROVE RInv'
  OBVIOUS
<1>1. DataTypes' /\ NoErrorYet' /\ HistoryWritten' /\ HarmIsAnAnswer'
  BY DataTypesKept, NoErrorKept, HistoryKept, HarmKept DEF RInv
<1>2. Restored' /\ AskedAndTold' /\ Repaired' /\ StoppedAtTarget'
  BY RestoredKept, RepairedKept, StoppedKept
<1>3. Streamed' /\ MadeStandby' /\ Resumed'
  BY StreamedKept, MadeStandbyKept, ResumedKept
<1> QED
  BY <1>1, <1>2, <1>3 DEF RInv

(* At the end of its script a lesson has what it set out for.              *)
LEMMA RInvIsEnough == IInv /\ RInv => PassMeansRecovered
<1> SUFFICES ASSUME IInv, RInv, phase = "exited", ~err
             PROVE  /\ task.answer \in {Right(task.lesson), "starts"}
                    /\ Rows("copy") = Wanted(task.lesson)
                    /\ wal.original = "same"
  BY DEF PassMeansRecovered
<1>1. /\ task \in Tasks /\ pc \in Nat /\ pc = Len(Script) + 1
      /\ HistoryWritten /\ DataTypes
  BY DEF IInv, TypeOK, RInv, NoErrorYet
<1>2. wal.original # "same" => task.answer = "harm"
  BY DEF RInv, HarmIsAnAnswer
<1>3. Rows("copy") = RowsAt(copy.replayed)
  BY DEF Rows
<1>4. CASE task.lesson = 27
  <2>0. Len(Script) = 19
    BY <1>4, RestorePlaces
  <2>1. pc = 20
    BY <1>1, <2>0
  <2>2. task.answer = "full" /\ copy.replayed = 1
    BY <1>4, <2>1 DEF RInv, Restored
  <2>3. Len(wal.history) = 2
    BY <1>1, <1>4, <2>1, RestoreLength
  <2>4. Rows("copy") = {"baseline"}
    BY <1>1, <1>3, <1>4, <2>2, <2>3, RowsOfPlain
  <2> QED
    BY <1>2, <1>4, <2>2, <2>4 DEF Right, Wanted
<1>5. CASE task.lesson = 28
  <2>0. Len(Script) = 27
    BY <1>5, HistoryPlaces
  <2>1. pc = 28
    BY <1>1, <2>0
  <2> QED
    BY <1>5, <2>1 DEF RInv, Repaired, Right, Wanted
<1>6. CASE task.lesson = 29
  <2>0. Len(Script) = 23
    BY <1>6, TargetedPlaces
  <2>1. pc = 24
    BY <1>1, <2>0
  <2>2. /\ Rows("copy") = {"baseline", "accepted"} /\ copy.replayed \in 1..5
        /\ Writes[copy.replayed] \in RestorePoints /\ Writes[copy.replayed] = task.answer
    BY <1>6, <2>1 DEF RInv, StoppedAtTarget
  <2>3. Len(wal.history) = 5
    BY <1>1, <1>6, <2>1, ArchiveLength
  <2>4. copy.replayed \notin {1, 2, 4}
    BY <2>2, <1>6 DEF Writes, RestorePoints
  <2>5. copy.replayed # 5
    BY <1>1, <1>3, <1>6, <2>2, <2>3, RowsOfArchive
  <2>6. task.answer = "before_bad"
    BY <1>6, <2>2, <2>4, <2>5 DEF Writes
  <2> QED
    BY <1>2, <1>6, <2>2, <2>6 DEF Right, Wanted
<1>7. ASSUME task.lesson \in {30, 31}, Len(wal.history) = 2, copy.replayed = 2, task.answer # "harm",
             task.answer \in {Right(task.lesson), "starts"}
      PROVE  /\ task.answer \in {Right(task.lesson), "starts"}
             /\ Rows("copy") = Wanted(task.lesson)
             /\ wal.original = "same"
  <2>1. Writes[2] = "marker"
    BY <1>7 DEF Writes
  <2>2. RowsAt(2) = {"baseline", "marker"}
    BY <1>1, <1>7, <2>1, RowsOfPlain
  <2> QED
    BY <1>2, <1>3, <1>7, <2>2 DEF Wanted
<1>8. CASE task.lesson = 30
  <2>0. Len(Script) = 17
    BY <1>8, StandbyPlaces
  <2>1. pc = 18
    BY <1>1, <2>0
  <2>2. task.answer \in {"replica", "starts"} /\ copy.replayed = 2
    BY <1>8, <2>1 DEF RInv, MadeStandby
  <2>3. Len(wal.history) = 2
    BY <1>1, <1>8, <2>1, StandbyLength
  <2>4. task.answer \in {Right(task.lesson), "starts"} /\ task.answer # "harm"
    BY <1>8, <2>2 DEF Right
  <2> QED
    BY <1>7, <1>8, <2>2, <2>3, <2>4
<1>9. CASE task.lesson = 31
  <2>0. Len(Script) = 22
    BY <1>9, ReplayPlaces
  <2>1. pc = 23
    BY <1>1, <2>0
  <2>2. task.answer \in {"resume", "starts"} /\ copy.replayed = 2
    BY <1>9, <2>1 DEF RInv, Resumed
  <2>3. Len(wal.history) = 2
    BY <1>1, <1>9, <2>1, StandbyLength
  <2>4. task.answer \in {Right(task.lesson), "starts"} /\ task.answer # "harm"
    BY <1>9, <2>2 DEF Right
  <2> QED
    BY <1>7, <1>9, <2>2, <2>3, <2>4
<1> QED
  BY <1>1, <1>4, <1>5, <1>6, <1>8, <1>9, FiveLessons

(* Only the wanted answer passes, and only when the copy then shows the    *)
(* wanted rows and the preserved archive is as it was; for every set of    *)
(* tasks and every course of the servers (restore, history, targeted,      *)
(* standby and replay, lab/recovery/main.go:281 to 553).                   *)
THEOREM PassesRecovered == Spec => []PassMeansRecovered
<1>1. Init => RInv
  BY InitRecovers
<1>2. IInv /\ RInv /\ [Next]_vars => RInv'
  BY RInvKept
<1>3. Spec => []IInv
  BY InvariantHolds
<1>4. Spec => []RInv
  BY <1>1, <1>2, <1>3, PTL DEF Spec
<1>5. IInv /\ RInv => PassMeansRecovered
  BY RInvIsEnough
<1> QED
  BY <1>3, <1>4, <1>5, PTL

----------------------------------------------------------------------------
(* Why the wanted answer does not fail.  As long as nothing speaks for a   *)
(* failure, every server a step needs is up, every check finds what it     *)
(* wants, and what a poll waits for has come or is still under way.        *)
NoExcuse == /\ task.answer = Right(task.lesson)
            /\ ~cancelled /\ ~disturbed /\ wal.last # "partial"
(* ... and nothing has failed.                                             *)
Smooth == NoExcuse /\ ~err
(* The claim itself.                                                       *)
ErrorHasExcuse == err => ~NoExcuse

(* The archive is copied once.                                             *)
CopiedLate == ~err /\ wal.last # "none" => pc > 16

(* Every pid file is that of a server.                                     *)
PidFilesAreServers == Smooth => \A w \in pidfile : srv[w] \in {"starting", "ready"}

(* The primary is up from its start to the cleanup, the copy from its      *)
(* start to the end of the script; the start of lesson 28 that is to fail  *)
(* leaves a copy that found no checkpoint record.                          *)
PrimaryUp ==
    Smooth /\ phase = "work" =>
        IF pc <= 6 THEN srv["primary"] # "none" <=> launcher = "primary" ELSE Up("primary")

(* The step that starts the copy, and the one of lesson 28 that is to      *)
(* fail.                                                                   *)
CopyStart == IF task.lesson = 27 THEN 15 ELSE IF task.lesson = 28 THEN 24
             ELSE IF task.lesson = 29 THEN 19 ELSE 12
ToFail == task.lesson = 28 /\ pc = 20
(* The copy.                                                               *)
CopyUp ==
    Smooth /\ phase = "work" =>
        /\ pc > CopyStart => Up("copy")
        /\ pc <= CopyStart /\ ~ToFail => (srv["copy"] # "none" <=> launcher = "copy")
        /\ ToFail => /\ launcher # "copy" => srv["copy"] = "none"
                     /\ srv["copy"] # "ready"
                     /\ launcher = "copy" /\ srv["copy"] = "none" => copy.refused

(* Nothing stops a cleanup.                                                *)
CleanupGoesWell ==
    Smooth =>
        /\ phase \in {"work", "cleanup"} => ~failed
        /\ phase = "work" => look = "pid"
        /\ phase = "cleanup" /\ look = "stop" => which \in pidfile
        /\ phase = "cleanup" /\ look = "status" => which \notin pidfile

(* The archive of lessons 28 and 29, and the copy recovered from it.       *)
ArchiveWorks ==
    Smooth /\ task.lesson \in {28, 29} =>
        /\ pc > 9 => wal.base = 1
        /\ pc > 14 => wal.archived # "open"
        /\ pc > 15 => wal.archived # "full"
        /\ pc > 16 => wal.last = "whole"
        /\ task.lesson = 29 /\ pc > 16 => wal.first = "same"
        /\ task.lesson = 28 /\ pc > 22 => wal.first = "same"
        /\ task.lesson = 28 /\ pc = 21 => copy.refused
        /\ srv["copy"] # "none" =>
              \/ copy.pause = "paused" /\ copy.replayed = 3
              \/ copy.pause = "no" /\ copy.replayed \in 1..2

(* The standbys of lessons 30 and 31.                                      *)
StandbyWorks ==
    Smooth /\ task.lesson \in {30, 31} =>
        /\ pc > 9 => signal /\ wal.base = 1
        /\ srv["copy"] # "none" => pc >= 12 /\ copy.replayed >= 1
        /\ pc > 14 => copy.received >= 1
        /\ IF copy.received = 0 THEN copy.replayed <= 1 ELSE copy.replayed <= copy.received
(* The standby of lesson 30 is never paused.                               *)
StandbySees ==
    Smooth /\ task.lesson = 30 =>
        /\ copy.pause = "no"
        /\ pc > 16 => copy.replayed = 2
(* The standby of lesson 31 is paused before the second row, until the     *)
(* learner resumes it.                                                     *)
ReplayPauses ==
    Smooth /\ task.lesson = 31 =>
        /\ pc <= 15 => copy.pause = "no"
        /\ pc = 16 => copy.pause # "no"
        /\ pc \in 17..20 => copy.pause = "paused" /\ copy.replayed = 1
        /\ pc > 18 => copy.received = 2
        /\ pc > 20 => copy.pause = "no"
        /\ pc > 21 => copy.replayed = 2

(* What a step knows of the servers when nothing speaks for a failure.     *)
FInv == /\ ErrorHasExcuse /\ CopiedLate /\ PidFilesAreServers /\ PrimaryUp /\ CopyUp /\ CleanupGoesWell
        /\ ArchiveWorks /\ StandbyWorks /\ StandbySees /\ ReplayPauses

(* Nothing runs and nothing has failed at first.                           *)
LEMMA InitSmooth == Init => FInv
<1> SUFFICES ASSUME Init PROVE FInv
  OBVIOUS
<1>1. ErrorHasExcuse /\ CopiedLate /\ PidFilesAreServers
  BY DEF Init, ErrorHasExcuse, CopiedLate, PidFilesAreServers
<1>2. PrimaryUp /\ CopyUp
  BY FiveLessons DEF Init, PrimaryUp, CopyUp, ToFail, CopyStart, Clusters, NoCluster
<1>3. CleanupGoesWell /\ ArchiveWorks
  BY DEF Init, CleanupGoesWell, ArchiveWorks, Clusters
<1>4. StandbyWorks /\ StandbySees /\ ReplayPauses
  BY DEF Init, StandbyWorks, StandbySees, ReplayPauses, Clusters
<1> QED
  BY <1>1, <1>2, <1>3, <1>4 DEF FInv

(* The archive is copied in one step of lessons 28 and 29.                 *)
LEMMA CopiedLateKept ==
    ASSUME IInv, RInv, CopiedLate, [Next]_vars
    PROVE  CopiedLate'
<1> SUFFICES ASSUME ~err' PROVE CopiedLate'
  BY DEF CopiedLate
<1>1. ~err /\ (Idle \/ (\E op : Advance(op)) \/ Change)
  BY Effects DEF RInv
<1>2. DataTypes /\ pc \in Nat
  BY DEF RInv, IInv, TypeOK
<1>3. CASE Idle \/ \E op : Advance(op)
  <2>1. wal' = wal /\ pc' \in {pc, pc + 1}
    BY <1>3 DEF Idle, Advance
  <2> QED
    BY <1>1, <1>2, <2>1 DEF CopiedLate
<1>4. CASE CopyArchive
  <2>1. Working("cp_archive") /\ pc' = pc + 1
    BY <1>4 DEF CopyArchive, Run, Proceed
  <2>2. pc = 16
    BY <2>1, FiveLessons, RestoreAt, HistoryAt, TargetedAt, StandbyAt, ReplayAt DEF IInv, TypeOK
  <2> QED
    BY <2>1, <2>2 DEF CopiedLate
<1>5. CASE Commit \/ Backup \/ SwitchWal \/ Withhold \/ BackupForStandby \/ Ask \/ RequestPause
  <2>1. wal'.last = wal.last /\ pc' = pc + 1
    BY <1>2, <1>5 DEF Commit, Backup, SwitchWal, Withhold, BackupForStandby, BaseBackup, Ask, RequestPause, Proceed,
       DataTypes
  <2> QED
    BY <1>1, <1>2, <2>1 DEF CopiedLate
<1>6. CASE Action \/ ActionBuilds
  <2>1. wal' \in {wal, [wal EXCEPT !.first = "same"], [wal EXCEPT !.first = "other"],
                  [wal EXCEPT !.first = "same", !.original = "other"],
                  [wal EXCEPT !.base = Len(wal.history)]}
    BY <1>6 DEF Action, ActionBuilds, BaseBackup
  <2>2. wal'.last = wal.last
    BY <1>2, <2>1 DEF DataTypes
  <2>3. pc' \in {pc, pc + 1}
    BY <1>6 DEF Action, ActionBuilds, Proceed, labVars
  <2> QED
    BY <1>1, <1>2, <2>2, <2>3 DEF CopiedLate
<1>7. CASE Launch("copy") \/ RecoveryFails \/ ReplayRecord \/ Connect \/ Receive \/ PauseTakesHold \/ Archive
  <2>1. wal'.last = wal.last /\ pc' = pc
    BY <1>2, <1>7 DEF Launch, RecoveryFails, ReplayRecord, Connect, Receive, PauseTakesHold, Archive, ServerStep,
       labVars, DataTypes
  <2> QED
    BY <1>1, <2>1 DEF CopiedLate
<1> QED
  BY <1>1, <1>3, <1>4, <1>5, <1>6, <1>7 DEF Change

(* An excuse stays: a signal, something outside, a segment copied too      *)
(* early.                                                                  *)
LEMMA ExcusesStay ==
    ASSUME IInv, RInv, FInv, [Next]_vars, NoExcuse'
    PROVE  /\ Smooth
           /\ ~cancelled' /\ ~disturbed'
<1>1. task' = task /\ ~cancelled' /\ ~disturbed' /\ wal'.last # "partial" /\ task.answer = Right(task.lesson)
  BY OneTask DEF NoExcuse, Right
<1>2. /\ cancelled \in BOOLEAN /\ disturbed \in BOOLEAN /\ DataTypes
      /\ phase = "work" => ~err
  BY DEF IInv, TypeOK, RInv, NoErrorYet
<1>3. ~cancelled /\ ~disturbed
  <2>1. ASSUME UNCHANGED <<cancelled, disturbed>>
        PROVE  ~cancelled /\ ~disturbed
    BY <1>1, <2>1, Zenon
  <2>2. CASE Script1
    BY <2>1, <2>2 DEF Script1, MakeTree, Configure, Inspect, InitCluster, Commit, Backup, SwitchWal, CopyArchive, Withhold,
       Clone, BackupForStandby, Ask, RequestPause, Found, NotFound, Action, ActionBuilds, Quietly
  <2>3. CASE StepFails \/ Deadline \/ \E w \in Clusters : StartFailed(w)
    <3>1. UNCHANGED cancelled
      BY <2>3 DEF StepFails, Deadline, StartFailed
    <3>2. disturbed => disturbed'
      BY <2>3, Zenon DEF StepFails, Deadline, StartFailed
    <3> QED
      BY <1>1, <3>1, <3>2, Zenon
  <2>4. CASE Seen \/ Finish \/ \E w \in Clusters : Launch(w) \/ LaunchRefused(w) \/ Started(w)
    BY <2>1, <2>4 DEF Launch, LaunchRefused, Started, Seen, Finish, Quietly
  <2>5. CASE StopFails
    BY <1>1, <2>5, Zenon DEF StopFails, CleanupStep
  <2>6. CASE LookForPidFile \/ Stop \/ Status \/ StatusFails \/ Retain \/ Remove \/ RemoveFails
    BY <1>1, <2>1, <2>6 DEF LookForPidFile, Stop, Status, StatusFails, Retain, Remove, RemoveFails, CleanupStep
  <2>7. CASE \E w \in Clusters : WritePidFile(w) \/ BecomeReady(w) \/ ServerFails(w)
    BY <1>1, <2>1, <2>7 DEF WritePidFile, BecomeReady, ServerFails, ServerStep
  <2>8. CASE RecoveryFails \/ ReplayRecord \/ Connect \/ Receive \/ PauseTakesHold \/ Archive
    BY <2>1, <2>8 DEF RecoveryFails, ReplayRecord, Connect, Receive, PauseTakesHold, Archive, ServerStep
  <2>9. CASE Cancel \/ Exited \/ UNCHANGED vars
    BY <1>1, <2>1, <2>9 DEF Cancel, Exited, vars
  <2> QED
    BY <2>2, <2>3, <2>4, <2>5, <2>6, <2>7, <2>8, <2>9 DEF Next, Lab, Script2, Cleanup, Servers
<1>4. wal.last # "partial"
  <2>1. CASE CopyArchive
    <3>1. Working("cp_archive") /\ ~err
      BY <1>2, <2>1 DEF CopyArchive, Run, Working
    <3>2. pc = 16
      BY <3>1, FiveLessons, RestoreAt, HistoryAt, TargetedAt, StandbyAt, ReplayAt DEF IInv, TypeOK
    <3> QED
      BY <3>1, <3>2 DEF FInv, CopiedLate
  <2>2. CASE ~CopyArchive
    <3>1. wal'.last = wal.last
      BY <1>2, <2>2, SegmentsKept
    <3> QED
      BY <1>1, <3>1
  <2> QED
    BY <2>1, <2>2
<1>5. NoExcuse
  BY <1>1, <1>3, <1>4 DEF NoExcuse
<1> QED
  BY <1>1, <1>5 DEF Smooth, FInv, ErrorHasExcuse

----------------------------------------------------------------------------
(* No step fails without an excuse.                                        *)

(* A server that a step asks is up.                                        *)
LEMMA NeedsUp ==
    ASSUME IInv, FInv, Smooth, NEW op, Working(op)
    PROVE  \A w \in Needs(op) : Up(w)
<1>1. phase = "work" /\ pc \in Nat /\ task.lesson \in 27..31
  BY FiveLessons DEF Working, IInv, TypeOK
<1>2. Needs(op) = {"primary"} => pc > 6
  <2> USE DEF Needs, Records, RestorePoints
  <2>1. CASE task.lesson = 27
    BY <2>1, RestoreAt
  <2>2. CASE task.lesson = 28
    BY <2>2, HistoryAt
  <2>3. CASE task.lesson = 29
    BY <2>3, TargetedAt
  <2>4. CASE task.lesson = 30
    BY <2>4, StandbyAt
  <2>5. CASE task.lesson = 31
    BY <2>5, ReplayAt
  <2> QED
    BY <1>1, <2>1, <2>2, <2>3, <2>4, <2>5
<1>3. Needs(op) = {"copy"} => pc > CopyStart
  <2> USE DEF Needs, Records, RestorePoints, CopyStart
  <2>1. CASE task.lesson = 27
    BY <2>1, RestoreAt
  <2>2. CASE task.lesson = 28
    BY <2>2, HistoryAt
  <2>3. CASE task.lesson = 29
    BY <2>3, TargetedAt
  <2>4. CASE task.lesson = 30
    BY <2>4, StandbyAt
  <2>5. CASE task.lesson = 31
    BY <2>5, ReplayAt
  <2> QED
    BY <1>1, <2>1, <2>2, <2>3, <2>4, <2>5
<1>4. pc > 6 => Up("primary")
  BY <1>1 DEF FInv, PrimaryUp
<1>5. pc > CopyStart => Up("copy")
  BY <1>1 DEF FInv, CopyUp
<1>6. Needs(op) \in {{"primary"}, {"copy"}, {}}
  BY DEF Needs
<1> QED
  BY <1>2, <1>3, <1>4, <1>5, <1>6

(* The copy of lessons 28 and 29 has the rows before the bad one.          *)
LEMMA ArchiveRows ==
    ASSUME IInv, RInv, FInv, Smooth, task.lesson \in {28, 29}, pc \in Nat, pc > 13
    PROVE  /\ Len(wal.history) = 5
           /\ Rows("primary") = {"baseline", "accepted", "bad"}
           /\ Up("copy") /\ copy.pause = "paused" => Rows("copy") = {"baseline", "accepted"}
<1>1. Len(wal.history) = 5 /\ HistoryWritten /\ ~err
  BY ArchiveLength DEF RInv, Smooth
<1>2. RowsAt(3) = {"baseline", "accepted"} /\ RowsAt(5) = {"baseline", "accepted", "bad"}
  BY <1>1, RowsOfArchive
<1>3. Up("copy") /\ copy.pause = "paused" => copy.replayed = 3
  BY DEF FInv, ArchiveWorks, Up
<1> QED
  BY <1>1, <1>2, <1>3 DEF Rows

(* A standby with both records has both rows.                              *)
LEMMA StandbyRows ==
    ASSUME RInv, ~err, task.lesson \in {30, 31}, Len(wal.history) = 2
    PROVE  /\ copy.replayed = 2 => Rows("copy") = {"baseline", "marker"}
           /\ copy.replayed = 1 => Rows("copy") = {"baseline"}
           /\ copy.replayed = 0 => Rows("copy") = {}
           /\ copy.replayed \in 0..2 /\ copy.received \in 0..2
<1>1. Writes[2] = "marker"
  BY DEF Writes
<1>2. HistoryWritten
  BY DEF RInv
<1>3. RowsAt(0) = {} /\ RowsAt(1) = {"baseline"} /\ RowsAt(2) = {"baseline", "marker"}
  BY <1>1, <1>2, RowsOfPlain
<1>4. copy.replayed \in Nat /\ copy.received \in Nat /\ copy.replayed <= 2 /\ copy.received <= 2
  BY DEF RInv, DataTypes, Streamed
<1> QED
  BY <1>3, <1>4 DEF Rows

(* Every check finds what it wants.                                        *)
LEMMA ChecksHold ==
    ASSUME IInv, RInv, FInv, Smooth, NEW op \in Checks, Working(op)
    PROVE  Holds(op)
<1>1. /\ phase = "work" /\ pc \in Nat /\ ~err /\ task.answer = Right(task.lesson)
      /\ task.lesson \in 27..31 /\ HistoryWritten
  BY FiveLessons DEF Working, IInv, TypeOK, Smooth, NoExcuse, RInv
<1>2. pc > CopyStart => Up("copy")
  BY <1>1 DEF FInv, CopyUp
<1>3. CASE task.lesson = 27
  <2>1. \/ op = "check_copy" /\ pc = 18
        \/ op = "compare_answers" /\ pc = 19
    BY <1>3, RestoreAt DEF Checks
  <2>2. Len(wal.history) = 2 /\ copy.replayed = 1
    BY <1>1, <1>3, <2>1, RestoreLength DEF RInv, Restored
  <2>3. Rows("copy") = {"baseline"}
    BY <1>1, <1>3, <2>2, RowsOfPlain DEF Rows
  <2>4. /\ Len(asked) = 3 
        /\ \A i \in 1 .. Len(asked) : asked[i] = Told(IF i <= 2 THEN {"baseline"} ELSE {"baseline", "later"})
    BY <1>1, <1>3, <2>1 DEF RInv, AskedAndTold
  <2>5. task.answer = "full"
    BY <1>1, <1>3 DEF Right
  <2>6. asked[1] = {"baseline"} /\ asked[2] = {"baseline"} /\ asked[3] = {"baseline", "later"}
    BY <2>4, <2>5 DEF Told
  <2>7. asked[1] = asked[2] /\ asked[1] # asked[3]
    BY <2>6
  <2>8. Wanted(task.lesson) = {"baseline"}
    BY <1>3 DEF Wanted
  <2>9. CASE op = "check_copy"
    BY <2>3, <2>8, <2>9 DEF Holds
  <2>10. CASE op = "compare_answers"
    BY <2>7, <2>10 DEF Holds
  <2> QED
    BY <2>1, <2>9, <2>10
<1>4. CASE task.lesson = 28
  <2>1. \/ op = "look_in_log" /\ pc = 21
        \/ op = "compare_segment" /\ pc = 23
        \/ op = "check_copy" /\ pc = 26
        \/ op = "compare_original" /\ pc = 27
    BY <1>4, HistoryAt DEF Checks
  <2>2. /\ pc = 21 => copy.refused
        /\ pc = 23 => wal.first = "same"
    BY <1>4 DEF FInv, ArchiveWorks
  <2>3. wal.original = "same"
    BY <1>1, <1>4 DEF RInv, DataTypes, HarmIsAnAnswer, Right
  <2>4. pc = 26 => Rows("copy") = {"baseline", "accepted"}
    <3>1. pc = 26 => copy.pause = "paused" /\ Up("copy")
      BY <1>1, <1>2, <1>4 DEF RInv, Repaired, CopyStart
    <3> QED
      BY <1>1, <1>4, <3>1, ArchiveRows
  <2>5. Wanted(task.lesson) = {"baseline", "accepted"}
    BY <1>4 DEF Wanted
  <2>6. CASE op = "look_in_log"
    BY <2>1, <2>2, <2>6 DEF Holds
  <2>7. CASE op = "compare_segment"
    BY <2>1, <2>2, <2>7 DEF Holds
  <2>8. CASE op = "check_copy"
    BY <2>1, <2>4, <2>5, <2>8 DEF Holds
  <2>9. CASE op = "compare_original"
    BY <2>3, <2>9 DEF Holds
  <2> QED
    BY <2>1, <2>6, <2>7, <2>8, <2>9
<1>5. CASE task.lesson = 29
  <2>1. \/ op = "check_primary" /\ pc = 21
        \/ op = "find_target" /\ pc = 22
        \/ op = "check_copy" /\ pc = 23
    BY <1>5, TargetedAt DEF Checks
  <2>2. copy.pause = "paused" /\ Up("copy")
    BY <1>1, <1>2, <1>5, <2>1 DEF RInv, StoppedAtTarget, CopyStart
  <2>3. Rows("primary") = {"baseline", "accepted", "bad"} /\ Rows("copy") = {"baseline", "accepted"}
    BY <1>1, <1>5, <2>1, <2>2, ArchiveRows
  <2>4. Wanted(task.lesson) = {"baseline", "accepted"}
    BY <1>5 DEF Wanted
  <2>5. CASE op = "check_primary"
    BY <2>3, <2>5 DEF Holds
  <2>6. CASE op = "find_target"
    BY <2>2, <2>6 DEF Holds
  <2>7. CASE op = "check_copy"
    BY <2>3, <2>4, <2>7 DEF Holds
  <2> QED
    BY <2>1, <2>5, <2>6, <2>7
<1>6. CASE task.lesson = 30
  <2>1. \/ op = "find_signal" /\ pc = 10
        \/ op = "check_recovery" /\ pc = 13
        \/ op = "check_copy" /\ pc = 17
    BY <1>6, StandbyAt DEF Checks
  <2>2. signal
    BY <1>6, <2>1 DEF FInv, StandbyWorks
  <2>3. pc = 17 => Rows("copy") = {"baseline", "marker"}
    <3>1. pc = 17 => Len(wal.history) = 2
      BY <1>1, <1>6, StandbyLength
    <3>2. pc = 17 => copy.replayed = 2
      BY <1>6 DEF FInv, StandbySees
    <3> QED
      BY <1>1, <1>6, <3>1, <3>2, StandbyRows
  <2>4. Wanted(task.lesson) = {"baseline", "marker"}
    BY <1>6 DEF Wanted
  <2>5. CASE op \in {"find_signal", "check_recovery"}
    BY <2>2, <2>5 DEF Holds
  <2>6. CASE op = "check_copy"
    BY <2>1, <2>3, <2>4, <2>6 DEF Holds
  <2> QED
    BY <2>1, <2>5, <2>6
<1>7. CASE task.lesson = 31
  <2>1. \/ op = "find_signal" /\ pc = 10
        \/ op = "check_recovery" /\ pc = 13
        \/ op = "check_held" /\ pc = 19
        \/ op = "check_resumed" /\ pc = 22
    BY <1>7, ReplayAt DEF Checks
  <2>2. signal
    BY <1>7, <2>1 DEF FInv, StandbyWorks
  <2>3. CASE pc = 19
    <3>1. Len(wal.history) = 2
      BY <1>1, <1>7, <2>3, StandbyLength
    <3>2. copy.pause = "paused" /\ copy.replayed = 1 /\ copy.received = 2
      BY <1>7, <2>3 DEF FInv, ReplayPauses
    <3>3. Rows("copy") = {"baseline"}
      BY <1>1, <1>7, <3>1, <3>2, StandbyRows
    <3> QED
      BY <2>1, <2>3, <3>1, <3>2, <3>3 DEF Holds
  <2>4. CASE pc = 22
    <3>1. Len(wal.history) = 2
      BY <1>1, <1>7, <2>4, StandbyLength
    <3>2. copy.pause = "no" /\ copy.replayed = 2 /\ copy.received = 2
      BY <1>7, <2>4 DEF FInv, ReplayPauses
    <3>3. Rows("copy") = {"baseline", "marker"}
      BY <1>1, <1>7, <3>1, <3>2, StandbyRows
    <3> QED
      BY <2>1, <2>4, <3>1, <3>2, <3>3 DEF Holds, CaughtUp
  <2>5. CASE op \in {"find_signal", "check_recovery"}
    BY <2>2, <2>5 DEF Holds
  <2> QED
    BY <2>1, <2>3, <2>4, <2>5
<1> QED
  BY <1>1, <1>3, <1>4, <1>5, <1>6, <1>7

(* What a poll waits for has come or is under way.                         *)
LEMMA PollsGoOn ==
    ASSUME IInv, RInv, FInv, Smooth, NEW op \in Polls, Working(op), ~Awaited(op)
    PROVE  ~Quiet
<1>1. /\ phase = "work" /\ pc \in Nat /\ ~err /\ task.answer = Right(task.lesson)
      /\ task.lesson \in 27..31 /\ HistoryWritten
  BY FiveLessons DEF Working, IInv, TypeOK, Smooth, NoExcuse, RInv
<1>2. /\ pc > CopyStart => Up("copy")
      /\ pc > 6 => Up("primary")
  BY <1>1 DEF FInv, CopyUp, PrimaryUp
<1>3. /\ copy.pause \in {"no", "requested", "paused"} /\ copy.received \in Nat /\ copy.replayed \in Nat
      /\ wal.archived \in {"open", "full", "partial", "whole"}
  BY DEF RInv, DataTypes
<1>4. CASE task.lesson \in {28, 29} /\ op = "await_archived"
  <2>1. pc = 15
    BY <1>4, HistoryAt, TargetedAt
  <2>2. wal.archived # "open" /\ wal.archived \notin {"partial", "whole"}
    BY <1>4, <2>1 DEF Awaited, FInv, ArchiveWorks
  <2>3. ArchiveDue
    BY <1>2, <1>3, <2>1, <2>2 DEF ArchiveDue
  <2> QED
    BY <2>3 DEF Quiet
<1>5. CASE task.lesson \in {28, 29} /\ op = "await_paused"
  <2>1. pc = IF task.lesson = 28 THEN 25 ELSE 20
    BY <1>5, HistoryAt, TargetedAt
  <2>2. Up("copy") /\ copy.pause # "paused"
    BY <1>2, <1>5, <2>1 DEF Awaited, CopyStart
  <2>3. copy.replayed <= 2 /\ wal.first = "same" /\ wal.last = "whole"
    BY <1>5, <2>1, <2>2 DEF FInv, ArchiveWorks, Up
  <2>4. Len(wal.history) = 5
    BY <1>1, <1>5, <2>1, ArchiveRows
  <2>5. FromArchive /\ ReplayLimit = 5
    BY <1>5, <2>4 DEF FromArchive, ReplayLimit
  <2>6. ReplayDue
    BY <1>3, <2>2, <2>3, <2>5 DEF ReplayDue, Up
  <2> QED
    BY <2>6 DEF Quiet
<1>6. CASE task.lesson \in {30, 31} /\ op = "await_streaming"
  <2>1. pc = 14
    BY <1>6, StandbyAt, ReplayAt
  <2>2. Up("copy") /\ Up("primary") /\ signal
    BY <1>2, <1>6, <2>1 DEF FInv, StandbyWorks, CopyStart
  <2>3. copy.received = 0
    BY <1>3, <1>6, <2>2 DEF Awaited
  <2>4. ConnectDue
    BY <2>2, <2>3 DEF ConnectDue
  <2> QED
    BY <2>4 DEF Quiet
<1>7. ASSUME task.lesson \in {30, 31}, pc > 15, copy.received < 2, Len(wal.history) = 2
      PROVE  ~Quiet
  <2>1. Up("copy") /\ Up("primary")
    BY <1>1, <1>2, <1>7 DEF CopyStart
  <2>2. copy.received = 1
    BY <1>1, <1>3, <1>7 DEF FInv, StandbyWorks
  <2>3. ReceiveDue
    BY <1>7, <2>1, <2>2 DEF ReceiveDue
  <2> QED
    BY <2>3 DEF Quiet
<1>8. ASSUME task.lesson \in {30, 31}, pc > 15, copy.received = 2, copy.replayed < 2, copy.pause = "no"
      PROVE  ~Quiet
  <2>1. Up("copy") /\ signal
    BY <1>1, <1>2, <1>8 DEF CopyStart, FInv, StandbyWorks
  <2>2. ~FromArchive /\ ReplayLimit = 2
    BY <1>8, <2>1 DEF FromArchive, ReplayLimit
  <2>3. ReplayDue
    BY <1>8, <2>1, <2>2 DEF ReplayDue, Up
  <2> QED
    BY <2>3 DEF Quiet
<1>9. CASE task.lesson = 30 /\ op = "await_visible"
  <2>1. pc = 16
    BY <1>9, StandbyAt
  <2>2. Len(wal.history) = 2
    BY <1>1, <1>9, <2>1, StandbyLength
  <2>3. "marker" \notin Rows("copy")
    BY <1>2, <1>9, <2>1 DEF Awaited, CopyStart
  <2>4. copy.replayed # 2 /\ copy.replayed \in 0..2 /\ copy.received \in 0..2
    BY <1>1, <1>9, <2>2, <2>3, StandbyRows
  <2>5. copy.pause = "no"
    BY <1>9 DEF FInv, StandbySees
  <2> QED
    BY <1>7, <1>8, <1>9, <2>1, <2>2, <2>4, <2>5
<1>10. CASE task.lesson = 31 /\ op = "await_paused"
  <2>1. pc = 16
    BY <1>10, ReplayAt
  <2>2. Up("copy") /\ copy.pause = "requested"
    BY <1>2, <1>3, <1>10, <2>1 DEF Awaited, CopyStart, FInv, ReplayPauses
  <2>3. PauseDue
    BY <2>2 DEF PauseDue, Up
  <2> QED
    BY <2>3 DEF Quiet
<1>11. CASE task.lesson = 31 /\ op = "await_received"
  <2>1. pc = 18
    BY <1>11, ReplayAt
  <2>2. Len(wal.history) = 2
    BY <1>1, <1>11, <2>1, StandbyLength
  <2>3. copy.received # 2 /\ copy.received \in 0..2
    BY <1>1, <1>2, <1>11, <2>1, <2>2, StandbyRows DEF Awaited, CopyStart
  <2> QED
    BY <1>7, <1>11, <2>1, <2>2, <2>3
<1>12. CASE task.lesson = 31 /\ op = "await_resumed"
  <2>1. pc = 21
    BY <1>12, ReplayAt
  <2>2. Len(wal.history) = 2
    BY <1>1, <1>12, <2>1, StandbyLength
  <2>3. copy.pause = "no" /\ copy.received = 2
    BY <1>12, <2>1 DEF FInv, ReplayPauses
  <2>4. ~CaughtUp
    BY <1>2, <1>12, <2>1, <2>3 DEF Awaited, CopyStart
  <2>5. copy.replayed # 2 /\ copy.replayed \in 0..2
    BY <1>1, <1>12, <2>2, <2>3, <2>4, StandbyRows DEF CaughtUp
  <2> QED
    BY <1>8, <1>12, <2>1, <2>3, <2>5
<1> QED
  <2>1. CASE task.lesson = 27
    BY <2>1, RestoreAt DEF Polls
  <2>2. CASE task.lesson = 28
    BY <1>4, <1>5, <2>2, HistoryAt DEF Polls
  <2>3. CASE task.lesson = 29
    BY <1>4, <1>5, <2>3, TargetedAt DEF Polls
  <2>4. CASE task.lesson = 30
    BY <1>6, <1>9, <2>4, StandbyAt DEF Polls
  <2>5. CASE task.lesson = 31
    BY <1>6, <1>10, <1>11, <1>12, <2>5, ReplayAt DEF Polls
  <2> QED
    BY <1>1, <2>1, <2>2, <2>3, <2>4, <2>5

(* A step of a start finds no server in its way and, except where it is    *)
(* meant to fail, a server that has not ended.                             *)
LEMMA StartsAreFree ==
    ASSUME IInv, FInv, Smooth, NEW w \in Clusters, Starting(w)
    PROVE  /\ launcher # w => srv[w] = "none"
           /\ launcher = w /\ srv[w] = "none" => Working("start_copy_expecting_failure") /\ copy.refused
           /\ Working("start_copy_expecting_failure") => ~Up(w) /\ w = "copy"
<1>1. phase = "work" /\ pc \in Nat /\ task.lesson \in 27..31 /\ task.answer # "starts"
  BY FiveLessons DEF Starting, Working, IInv, TypeOK, Smooth, NoExcuse, Right
<1>2. CASE w = "primary"
  <2>1. pc = 6
    BY <1>1, <1>2, RestoreAt, HistoryAt, TargetedAt, StandbyAt, ReplayAt DEF Starting
  <2>2. srv["primary"] # "none" <=> launcher = "primary"
    BY <1>1, <2>1 DEF FInv, PrimaryUp
  <2>3. ~Working("start_copy_expecting_failure")
    BY <1>1, <1>2 DEF Starting, Working
  <2> QED
    BY <1>2, <2>2, <2>3
<1>3. CASE w = "copy" /\ Working("start_copy")
  <2>1. pc = CopyStart
    BY <1>1, <1>3, RestoreAt, HistoryAt, TargetedAt, StandbyAt, ReplayAt DEF CopyStart
  <2>2. ~Working("start_copy_expecting_failure")
    BY <1>3 DEF Working
  <2>3. ~ToFail /\ pc <= CopyStart
    BY <1>1, <2>1 DEF CopyStart, ToFail
  <2>4. srv["copy"] # "none" <=> launcher = "copy"
    BY <1>1, <2>3 DEF FInv, CopyUp
  <2> QED
    BY <1>3, <2>2, <2>4
<1>4. CASE w = "copy" /\ Working("start_copy_expecting_failure")
  <2>1. ToFail
    BY <1>1, <1>4, RestoreAt, HistoryAt, TargetedAt, StandbyAt, ReplayAt DEF ToFail
  <2> QED
    BY <1>1, <1>4, <2>1 DEF FInv, CopyUp, Up
<1> QED
  BY <1>1, <1>2, <1>3, <1>4 DEF Starting

(* No step fails without an excuse.                                        *)
LEMMA NothingFails ==
    ASSUME IInv, RInv, FInv, [Next]_vars, NoExcuse'
    PROVE  /\ ~err'
           /\ ~StepFails
           /\ \A w \in Clusters : ~LaunchRefused(w) /\ (StartFailed(w) => srv[w] = "none")
<1>1. Smooth /\ ~err /\ ~cancelled /\ ~disturbed /\ ~cancelled' /\ ~disturbed' /\ task.answer = Right(task.lesson)
  BY ExcusesStay DEF Smooth, NoExcuse
<1>2. launcher \in Clusters \cup {NoCluster} /\ srv \in [Clusters -> {"none", "forked", "starting", "ready"}]
      /\ which \in Clusters \cup {NoCluster} /\ NoCluster \notin Clusters
  BY DEF IInv, TypeOK, NoCluster, Clusters
<1>3. ~NotFound
  BY <1>1, ChecksHold DEF NotFound, Run
<1>4. ~Deadline
  <2>1. SUFFICES ASSUME NEW op \in Polls, Working(op), ~Awaited(op), disturbed' = (disturbed \/ ~(cancelled \/ Quiet))
                 PROVE  FALSE
    BY <1>1, Zenon DEF Deadline
  <2>2. ~Quiet
    BY <1>1, <2>1, PollsGoOn
  <2> QED
    BY <1>1, <2>1, <2>2, Zenon
<1>5. ~StepFails
  <2>1. SUFFICES ASSUME NEW op, Working(op), disturbed' = (disturbed \/ ~Foreseen(op))
                 PROVE  FALSE
    BY Zenon DEF StepFails
  <2>2. ~Foreseen(op)
    <3>1. task.answer # "hang"
      <4>1. task.lesson \in 27..31
        BY FiveLessons DEF IInv, TypeOK
      <4> QED
        BY <1>1, <4>1 DEF Right
    <3>2. \A w \in Needs(op) : Up(w)
      BY <1>1, <2>1, NeedsUp
    <3> QED
      BY <1>1, <3>1, <3>2 DEF Foreseen
  <2> QED
    BY <1>1, <2>1, <2>2, Zenon
<1>6. ASSUME NEW w \in Clusters
      PROVE  ~LaunchRefused(w)
  BY <1>1, <1>2, StartsAreFree DEF LaunchRefused
<1>7. ASSUME NEW w \in Clusters, StartFailed(w)
      PROVE  srv[w] = "none" /\ ~err'
  <2>1. launcher = w /\ Starting(w)
    BY <1>7 DEF StartFailed, IInv, LauncherIsStarting
  <2>2. srv[w] = "none"
    <3>1. disturbed' = (disturbed \/ (srv[w] # "none" /\ ~cancelled))
      BY <1>7 DEF StartFailed
    <3> QED
      BY <1>1, <3>1, Zenon
  <2>3. Working("start_copy_expecting_failure")
    BY <1>1, <2>1, <2>2, StartsAreFree
  <2>4. OnError
    BY <1>7 DEF StartFailed
  <2> QED
    BY <1>1, <2>2, <2>3, <2>4 DEF OnError, Proceed
<1>8. ASSUME NEW w \in Clusters, Started(w)
      PROVE  ~err'
  <2>1. Starting(w) /\ Up(w)
    BY <1>8 DEF Started, IInv, LauncherIsStarting
  <2>2. ~Working("start_copy_expecting_failure")
    BY <1>1, <2>1, StartsAreFree
  <2> QED
    BY <1>1, <1>8, <2>2 DEF Started, Proceed
<1>9. ~Retain /\ ~RemoveFails
  <2>1. phase = "cleanup" => ~failed
    BY <1>1 DEF FInv, CleanupGoesWell
  <2> QED
    BY <1>1, <2>1, Zenon DEF Retain, RemoveFails
<1>10. ~err'
  <2>1. CASE Script1
    BY <1>1, <1>3, <2>1 DEF Script1, MakeTree, Configure, Inspect, InitCluster, Commit, Backup, SwitchWal, CopyArchive,
       Withhold, Clone, BackupForStandby, Ask, RequestPause, Found, Action, ActionBuilds, Proceed, labVars
  <2>2. CASE Seen \/ Finish \/ \E w \in Clusters : Launch(w)
    BY <1>1, <2>2 DEF Seen, Finish, Launch, Proceed, Return, labVars
  <2>3. CASE Script2
    BY <1>4, <1>5, <1>6, <1>7, <1>8, <2>2, <2>3 DEF Script2
  <2>4. CASE Cleanup
    BY <1>1, <1>9, <2>4 DEF Cleanup, LookForPidFile, Stop, StopFails, Status, StatusFails, Remove, CleanupStep, labVars
  <2>5. CASE Servers
    BY <1>1, <2>5 DEF Servers, WritePidFile, BecomeReady, ServerFails, RecoveryFails, ReplayRecord, Connect, Receive,
       PauseTakesHold, Archive, ServerStep, labVars
  <2>6. CASE Cancel \/ Exited \/ UNCHANGED vars
    BY <1>1, <2>6 DEF Cancel, Exited, vars, labVars
  <2> QED
    BY <2>1, <2>3, <2>4, <2>5, <2>6 DEF Next, Lab
<1> QED
  BY <1>5, <1>6, <1>7, <1>10

(* What an advance and a change do, when nothing has an excuse: no server  *)
(* fails, and the start that is to fail did.                               *)
LEMMA SmoothAdvance ==
    ASSUME IInv, RInv, FInv, [Next]_vars, NoExcuse', NEW op, Advance(op)
    PROVE  op = "start_copy_expecting_failure" => srv["copy"] = "none" /\ copy.refused
<1>1. Smooth
  BY ExcusesStay
<1>2. SUFFICES ASSUME op = "start_copy_expecting_failure"
               PROVE  srv["copy"] = "none" /\ copy.refused
  OBVIOUS
<1>3. StartFailed("copy") /\ "copy" \in Clusters
  BY <1>2, NothingFails DEF Advance, Clusters
<1>4. srv["copy"] = "none" /\ launcher = "copy"
  BY <1>3, NothingFails DEF StartFailed
<1>5. Starting("copy")
  BY <1>3, <1>4 DEF IInv, LauncherIsStarting
<1> QED
  BY <1>1, <1>3, <1>4, <1>5, StartsAreFree

(* A step into a state without an excuse.                                  *)
LEMMA Smoothly ==
    ASSUME IInv, RInv, FInv, [Next]_vars, NoExcuse'
    PROVE  /\ Smooth /\ ~err /\ ~err' /\ task' = task /\ pc \in Nat
           /\ task.lesson \in 27..31 /\ task.answer = Right(task.lesson) /\ task.answer # "starts"
           /\ DataTypes /\ HistoryWritten /\ wal.last # "partial" /\ wal'.last # "partial"
           /\ Idle \/ (\E op : Advance(op)) \/ Change
           /\ ~ActionBuilds /\ \A w \in Clusters : ~ServerFails(w)
<1>1. Smooth /\ ~err /\ ~err' /\ ~disturbed' /\ task' = task
  BY ExcusesStay, NothingFails, OneTask DEF Smooth
<1>2. pc \in Nat /\ task.lesson \in 27..31 /\ DataTypes /\ HistoryWritten
  BY FiveLessons DEF IInv, TypeOK, RInv
<1>3. task.answer = Right(task.lesson) /\ wal.last # "partial" /\ wal'.last # "partial"
  BY <1>1 DEF Smooth, NoExcuse
<1>4. task.answer # "starts"
  BY <1>2, <1>3 DEF Right
<1>5. Idle \/ (\E op : Advance(op)) \/ Change
  BY <1>1, Effects DEF RInv
<1>6. ~ActionBuilds /\ \A w \in Clusters : ~ServerFails(w)
  BY <1>1, <1>4, Zenon DEF ActionBuilds, ServerFails
<1> QED
  BY <1>1, <1>2, <1>3, <1>4, <1>5, <1>6

(* The copy is started at two places.                                      *)
LEMMA CopyIsStarted ==
    ASSUME IInv, task.answer # "starts", Starting("copy")
    PROVE  pc = CopyStart \/ ToFail
<1>1. task.lesson \in 27..31
  BY FiveLessons DEF IInv, TypeOK
<1>2. Working("start_copy") \/ Working("start_copy_expecting_failure")
  BY DEF Starting
<1> QED
  BY <1>1, <1>2, RestoreAt, HistoryAt, TargetedAt, StandbyAt, ReplayAt DEF CopyStart, ToFail

(* ... and the primary at one.                                             *)
LEMMA PrimaryIsStarted ==
    ASSUME IInv, Starting("primary")
    PROVE  pc = 6
<1>1. task.lesson \in 27..31
  BY FiveLessons DEF IInv, TypeOK
<1>2. Working("start_primary")
  BY DEF Starting
<1> QED
  BY <1>1, <1>2, RestoreAt, HistoryAt, TargetedAt, StandbyAt, ReplayAt

(* What a step that goes on does to the servers.                           *)
Writing == /\ pc' = pc + 1 /\ UNCHANGED <<srv, launcher, pidfile>> /\ launcher = NoCluster
           /\ copy'.refused = copy.refused
           /\ \E op \in Changing \cup {"action"} : Working(op)
(* A step that leaves the servers alone.                                   *)
Alone == UNCHANGED <<pc, srv, launcher, pidfile>> /\ copy'.refused = copy.refused

(* A lesson that goes on without an excuse takes one of these steps.       *)
LEMMA ServerCourse ==
    ASSUME IInv, RInv, FInv, [Next]_vars, NoExcuse', phase' = "work"
    PROVE  /\ phase = "work" /\ UNCHANGED <<which, look, failed>>
           /\ \/ \E op : Advance(op)
              \/ Writing \/ Alone \/ RecoveryFails
              \/ \E w \in Clusters : Launch(w) \/ WritePidFile(w) \/ BecomeReady(w)
<1>1. Smooth /\ ~err /\ ~err' /\ DataTypes /\ task.answer # "starts" /\ ~ActionBuilds
      /\ \A w \in Clusters : ~ServerFails(w)
  BY Smoothly
<1>2. ~cancelled'
  BY ExcusesStay
<1>3. (\E op : Advance(op)) \/ Change \/ Aside
  BY <1>1, Kinds DEF RInv
<1>4. CASE \E op : Advance(op)
  BY <1>4 DEF Advance, Working
<1>5. CASE Commit \/ Backup \/ SwitchWal \/ CopyArchive \/ Withhold \/ BackupForStandby \/ Ask
           \/ RequestPause \/ Action
  <2>1. PICK op \in Changing \cup {"action"} : Working(op)
    BY <1>5 DEF Commit, Backup, SwitchWal, CopyArchive, Withhold, BackupForStandby, Ask, RequestPause, Action, Run,
       Changing
  <2>2. Proceed /\ Quietly
    BY <1>5 DEF Commit, Backup, SwitchWal, CopyArchive, Withhold, BackupForStandby, Ask, RequestPause, Action
  <2>3. copy' \in {copy, [copy EXCEPT !.pause = "requested"], [copy EXCEPT !.pause = "no"]}
    BY <1>5 DEF Commit, Backup, SwitchWal, CopyArchive, Withhold, BackupForStandby, Ask, RequestPause, Action
  <2>4. copy'.refused = copy.refused
    BY <1>1, <2>3 DEF DataTypes
  <2>5. op \notin Starts
    BY DEF Changing, Records, RestorePoints, Starts
  <2>6. launcher = NoCluster
    <3>1. ASSUME NEW w \in Clusters, launcher = w
          PROVE  FALSE
      <4>1. Starting(w)
        BY <3>1 DEF IInv, LauncherIsStarting
      <4> QED
        BY <1>1, <2>1, <2>5, <4>1 DEF Starting, Working, Starts
    <3> QED
      BY <3>1 DEF IInv, TypeOK
  <2> QED
    BY <2>1, <2>2, <2>4, <2>6 DEF Writing, Proceed, Quietly, serverVars, cleanupVars, Working
<1>6. CASE ReplayRecord \/ Connect \/ Receive \/ PauseTakesHold \/ Archive
  <2>1. ServerStep /\ UNCHANGED <<pidfile, srv>>
    BY <1>6 DEF ReplayRecord, Connect, Receive, PauseTakesHold, Archive
  <2>2. copy'.refused = copy.refused
    BY <1>1, <1>6 DEF ReplayRecord, Connect, Receive, PauseTakesHold, Archive, DataTypes
  <2> QED
    BY <2>1, <2>2 DEF Alone, ServerStep, labVars, cleanupVars
<1>7. CASE RecoveryFails \/ \E w \in Clusters : Launch(w) \/ WritePidFile(w) \/ BecomeReady(w)
  BY <1>7 DEF RecoveryFails, Launch, WritePidFile, BecomeReady, ServerStep, labVars, cleanupVars
<1>8. CASE UNCHANGED vars \/ Exited
  BY <1>8 DEF Exited, vars, labVars, serverVars, dataVars, cleanupVars, Alone
<1>9. ~Cancel
  BY <1>2 DEF Cancel
<1>10. ~Finish
  BY DEF Finish, Return
<1>11. ~Cleanup
  BY DEF Cleanup, LookForPidFile, Stop, StopFails, Status, StatusFails, Retain, Remove, RemoveFails, labVars
<1> QED
  BY <1>1, <1>3, <1>4, <1>5, <1>6, <1>7, <1>8, <1>9, <1>10, <1>11 DEF Change, Aside, Clusters

(* A pid file is written by a server and goes with it.                     *)
LEMMA PidFilesKept ==
    ASSUME IInv, RInv, FInv, [Next]_vars
    PROVE  PidFilesAreServers'
<1> SUFFICES ASSUME Smooth' PROVE \A w \in pidfile' : srv'[w] \in {"starting", "ready"}
  BY DEF PidFilesAreServers
<1>1. NoExcuse' /\ ~err'
  BY DEF Smooth
<1>2. Smooth /\ \A w \in Clusters : ~ServerFails(w)
  BY <1>1, Smoothly
<1>3. (\E op : Advance(op)) \/ Change \/ Aside
  BY <1>1, Kinds DEF RInv
<1>4. \A w \in pidfile : srv[w] \in {"starting", "ready"}
  BY <1>2 DEF FInv, PidFilesAreServers
<1>5. /\ srv \in [Clusters -> {"none", "forked", "starting", "ready"}] /\ pidfile \subseteq Clusters
      /\ which \in Clusters \cup {NoCluster}
  BY DEF IInv, TypeOK
<1>6. ASSUME UNCHANGED <<srv, pidfile>>
      PROVE  \A w \in pidfile' : srv'[w] \in {"starting", "ready"}
  BY <1>4, <1>6
<1>7. CASE \E op : Advance(op)
  BY <1>6, <1>7 DEF Advance
<1>8. CASE Commit \/ Backup \/ SwitchWal \/ CopyArchive \/ Withhold \/ BackupForStandby \/ Ask
           \/ RequestPause \/ Action \/ ActionBuilds
  BY <1>6, <1>8 DEF Commit, Backup, SwitchWal, CopyArchive, Withhold, BackupForStandby, Ask, RequestPause, Action,
     ActionBuilds, Quietly, serverVars
<1>9. CASE ReplayRecord \/ Connect \/ Receive \/ PauseTakesHold \/ Archive
  BY <1>6, <1>9 DEF ReplayRecord, Connect, Receive, PauseTakesHold, Archive
<1>10. CASE \E w \in Clusters : Launch(w)
  BY <1>4, <1>5, <1>10 DEF Launch
<1>11. CASE RecoveryFails
  BY <1>4, <1>5, <1>11 DEF RecoveryFails
<1>12. CASE \E w \in Clusters : WritePidFile(w) \/ BecomeReady(w)
  BY <1>4, <1>5, <1>12 DEF WritePidFile, BecomeReady
<1>13. CASE Finish \/ Cancel \/ Exited \/ UNCHANGED vars
  BY <1>6, <1>13 DEF Finish, Quietly, Cancel, Exited, vars, serverVars
<1>14. CASE Cleanup
  <2>1. \/ UNCHANGED <<srv, pidfile>>
        \/ srv' = [srv EXCEPT ![which] = "none"] /\ pidfile' = pidfile \ {which}
    BY <1>14 DEF Cleanup, LookForPidFile, Stop, StopFails, Status, StatusFails, Retain, Remove, RemoveFails
  <2> QED
    BY <1>4, <1>5, <2>1
<1> QED
  BY <1>2, <1>3, <1>7, <1>8, <1>9, <1>10, <1>11, <1>12, <1>13, <1>14 DEF Change, Aside, Clusters

(* The primary is started once and stays.                                  *)
LEMMA PrimaryUpKept ==
    ASSUME IInv, RInv, FInv, [Next]_vars
    PROVE  PrimaryUp'
<1> SUFFICES ASSUME Smooth', phase' = "work" PROVE PrimaryUp'
  BY DEF PrimaryUp
<1>1. NoExcuse'
  BY DEF Smooth
<1>2. /\ Smooth /\ task.lesson \in 27..31 /\ pc \in Nat /\ phase = "work" /\ task.answer # "starts"
      /\ srv \in [Clusters -> {"none", "forked", "starting", "ready"}]
      /\ Clusters = {"copy", "primary"} /\ "copy" # "primary" /\ NoCluster \notin Clusters
  BY <1>1, Smoothly, ServerCourse DEF IInv, TypeOK, Clusters, NoCluster
<1>3. IF pc <= 6 THEN srv["primary"] # "none" <=> launcher = "primary" ELSE Up("primary")
  BY <1>2 DEF FInv, PrimaryUp
<1>4. CASE \E op : Advance(op)
  <2>1. PICK op : Advance(op)
    BY <1>4
  <2>2. /\ Working(op) /\ pc' = pc + 1 /\ srv' = srv /\ launcher' = NoCluster /\ op \notin Changing
        /\ op = "start_primary" => Up("primary")
    BY <2>1 DEF Advance
  <2>3. pc = 6 => op = "start_primary"
    <3>1. SUFFICES ASSUME pc = 6 PROVE op = "start_primary"
      OBVIOUS
    <3>2. Script[6] = "start_primary"
      BY <1>2, RestorePlaces, HistoryPlaces, TargetedPlaces, StandbyPlaces, ReplayPlaces
    <3> QED
      BY <2>2, <3>1, <3>2 DEF Working
  <2>4. launcher = "primary" => pc = 6
    BY <1>2, PrimaryIsStarted DEF IInv, LauncherIsStarting
  <2> QED
    BY <1>2, <1>3, <2>2, <2>3, <2>4 DEF PrimaryUp, Up
<1>5. CASE Writing
  <2>1. PICK op \in Changing \cup {"action"} : Working(op)
    BY <1>5 DEF Writing
  <2>2. pc > 6
    <3> USE DEF Changing, Records, RestorePoints
    <3>1. CASE task.lesson = 27
      BY <2>1, <3>1, RestoreAt
    <3>2. CASE task.lesson = 28
      BY <2>1, <3>2, HistoryAt
    <3>3. CASE task.lesson = 29
      BY <2>1, <3>3, TargetedAt
    <3>4. CASE task.lesson = 30
      BY <2>1, <3>4, StandbyAt
    <3>5. CASE task.lesson = 31
      BY <2>1, <3>5, ReplayAt
    <3> QED
      BY <1>2, <3>1, <3>2, <3>3, <3>4, <3>5
  <2> QED
    BY <1>2, <1>3, <1>5, <2>2 DEF Writing, PrimaryUp, Up
<1>6. CASE Alone
  BY <1>3, <1>6 DEF Alone, PrimaryUp, Up
<1>7. CASE RecoveryFails
  <2>1. srv' = [srv EXCEPT !["copy"] = "none"] /\ pc' = pc /\ launcher' = launcher
    BY <1>7 DEF RecoveryFails, ServerStep, labVars
  <2> QED
    BY <1>2, <1>3, <2>1 DEF PrimaryUp, Up
<1>8. CASE Launch("copy")
  <2>1. pc > 6
    <3>1. pc = CopyStart \/ ToFail
      BY <1>2, <1>8, CopyIsStarted DEF Launch
    <3> QED
      BY <1>2, <3>1 DEF CopyStart, ToFail
  <2>2. srv' = [srv EXCEPT !["copy"] = "forked"] /\ pc' = pc
    BY <1>8 DEF Launch, labVars
  <2> QED
    BY <1>2, <1>3, <2>1, <2>2 DEF PrimaryUp, Up
<1>9. CASE Launch("primary")
  <2>1. pc = 6
    BY <1>9, PrimaryIsStarted DEF Launch
  <2>2. srv' = [srv EXCEPT !["primary"] = "forked"] /\ pc' = pc /\ launcher' = "primary"
    BY <1>9 DEF Launch, labVars
  <2> QED
    BY <1>2, <2>1, <2>2 DEF PrimaryUp
<1>10. CASE \E w \in Clusters : WritePidFile(w) \/ BecomeReady(w)
  <2>1. PICK w \in Clusters : WritePidFile(w) \/ BecomeReady(w)
    BY <1>10
  <2>2. /\ srv' \in {[srv EXCEPT ![w] = "starting"], [srv EXCEPT ![w] = "ready"]}
        /\ srv[w] \in {"forked", "starting"} /\ pc' = pc /\ launcher' = launcher
    BY <2>1 DEF WritePidFile, BecomeReady, PidDue, ReadyDue, ServerStep, labVars
  <2> QED
    BY <1>2, <1>3, <2>2 DEF PrimaryUp, Up
<1> QED
  <2>1. \/ \E op : Advance(op)
        \/ Writing \/ Alone \/ RecoveryFails
        \/ \E w \in Clusters : Launch(w) \/ WritePidFile(w) \/ BecomeReady(w)
    BY <1>1, ServerCourse
  <2> QED
    BY <1>2, <1>4, <1>5, <1>6, <1>7, <1>8, <1>9, <1>10, <2>1

(* The copy is started once and stays, but for the start that is to fail.  *)
LEMMA CopyUpKept ==
    ASSUME IInv, RInv, FInv, [Next]_vars
    PROVE  CopyUp'
<1> SUFFICES ASSUME Smooth', phase' = "work" PROVE CopyUp'
  BY DEF CopyUp
<1>1. NoExcuse'
  BY DEF Smooth
<1>2. /\ Smooth /\ task.lesson \in 27..31 /\ pc \in Nat /\ phase = "work" /\ task.answer # "starts" /\ task' = task
      /\ srv \in [Clusters -> {"none", "forked", "starting", "ready"}] /\ wal.last # "partial" /\ ~err
      /\ Clusters = {"copy", "primary"} /\ "copy" # "primary" /\ NoCluster \notin Clusters
  BY <1>1, Smoothly, ServerCourse DEF IInv, TypeOK, Clusters, NoCluster
<1>3. CopyStart' = CopyStart /\ CopyStart \in {12, 15, 19, 24} /\ (ToFail => pc < CopyStart)
      /\ (ToFail' => pc' < CopyStart)
  BY <1>2 DEF CopyStart, ToFail
<1>4. /\ pc > CopyStart => Up("copy")
      /\ pc <= CopyStart /\ ~ToFail => (srv["copy"] # "none" <=> launcher = "copy")
      /\ ToFail => /\ launcher # "copy" => srv["copy"] = "none"
                   /\ srv["copy"] # "ready"
                   /\ launcher = "copy" /\ srv["copy"] = "none" => copy.refused
  BY <1>2 DEF FInv, CopyUp
<1>5. launcher = "copy" => pc = CopyStart \/ ToFail
  BY <1>2, CopyIsStarted DEF IInv, LauncherIsStarting
<1>6. ASSUME pc' = pc + 1, srv' = srv, launcher' = NoCluster,
             ToFail => srv["copy"] = "none", pc = CopyStart => Up("copy")
      PROVE  CopyUp'
  <2>1. CASE pc >= CopyStart
    <3>1. Up("copy")' /\ ~ (pc' <= CopyStart) /\ ~ToFail'
      BY <1>2, <1>3, <1>4, <1>6, <2>1 DEF Up
    <3> QED
      BY <1>3, <3>1 DEF CopyUp
  <2>2. CASE pc < CopyStart
    <3>1. srv["copy"] = "none"
      BY <1>2, <1>3, <1>4, <1>5, <1>6, <2>2
    <3>2. pc' <= CopyStart
      BY <1>2, <1>3, <1>6, <2>2
    <3> QED
      BY <1>2, <1>3, <1>6, <3>1, <3>2 DEF CopyUp
  <2> QED
    BY <1>2, <1>3, <2>1, <2>2
<1>7. CASE \E op : Advance(op)
  <2>1. PICK op : Advance(op)
    BY <1>7
  <2>2. /\ Working(op) /\ pc' = pc + 1 /\ srv' = srv /\ launcher' = NoCluster
        /\ op = "start_copy" => Up("copy")
    BY <2>1 DEF Advance
  <2>3. pc = CopyStart => op = "start_copy"
    <3>1. SUFFICES ASSUME pc = CopyStart PROVE op = "start_copy"
      OBVIOUS
    <3>2. Script[CopyStart] = "start_copy"
      BY <1>2, RestorePlaces, HistoryPlaces, TargetedPlaces, StandbyPlaces, ReplayPlaces DEF CopyStart
    <3> QED
      BY <2>2, <3>1, <3>2 DEF Working
  <2>4. ToFail => srv["copy"] = "none"
    <3>1. ToFail => op = "start_copy_expecting_failure"
      BY <2>2, HistoryPlaces DEF ToFail, Working
    <3> QED
      BY <1>1, <2>1, <3>1, SmoothAdvance
  <2> QED
    BY <1>6, <2>2, <2>3, <2>4
<1>8. CASE Writing
  <2>1. PICK op \in Changing \cup {"action"} : Working(op)
    BY <1>8 DEF Writing
  <2>2. op # "start_copy" /\ op # "start_copy_expecting_failure"
    BY DEF Changing, Records, RestorePoints
  <2>3. pc # CopyStart /\ ~ToFail
    <3>1. Script[CopyStart] = "start_copy"
      BY <1>2, RestorePlaces, HistoryPlaces, TargetedPlaces, StandbyPlaces, ReplayPlaces DEF CopyStart
    <3>2. ToFail => Script[pc] = "start_copy_expecting_failure"
      BY HistoryPlaces DEF ToFail
    <3> QED
      BY <2>1, <2>2, <3>1, <3>2 DEF Working
  <2> QED
    BY <1>6, <1>8, <2>3 DEF Writing
<1>9. CASE Alone
  <2>1. ToFail' = ToFail
    BY <1>2, <1>9 DEF Alone, ToFail
  <2> QED
    BY <1>3, <1>4, <1>9, <2>1 DEF Alone, CopyUp, Up
<1>10. CASE RecoveryFails
  <2>1. /\ srv' = [srv EXCEPT !["copy"] = "none"] /\ pc' = pc /\ launcher' = launcher
        /\ copy' = [copy EXCEPT !.refused = (wal.first = "missing")]
        /\ srv["copy"] \in {"starting", "ready"} /\ FromArchive
        /\ NoStartDue
    BY <1>2, <1>10 DEF RecoveryFails, NoStartDue, TornDue, ServerStep, labVars
  <2>2. task.lesson \in {28, 29} /\ wal.first # "same"
    BY <2>1 DEF NoStartDue, FromArchive
  <2>3. task.lesson # 29
    <3>1. task.lesson = 29 => pc >= 19
      BY <1>2, <2>1 DEF RInv, StoppedAtTarget
    <3> QED
      BY <1>2, <2>2, <3>1 DEF FInv, ArchiveWorks
  <2>4. pc <= 22
    BY <1>2, <2>2, <2>3 DEF FInv, ArchiveWorks
  <2>5. ToFail
    BY <1>2, <1>4, <1>5, <2>1, <2>2, <2>3, <2>4 DEF CopyStart
  <2>6. wal.first = "missing"
    BY <1>2, <2>5 DEF RInv, Repaired, ToFail
  <2>7. copy'.refused
    BY <2>1, <2>6 DEF RInv, DataTypes
  <2>8. ToFail' /\ srv'["copy"] = "none" /\ pc' <= CopyStart
    BY <1>2, <1>3, <2>1, <2>5 DEF ToFail
  <2>9. ~ (pc' > CopyStart) /\ srv'["copy"] # "ready"
    BY <1>2, <1>3, <2>1, <2>8
  <2> QED
    BY <1>3, <2>7, <2>8, <2>9 DEF CopyUp
<1>11. CASE Launch("copy")
  <2>1. pc = CopyStart \/ ToFail
    BY <1>2, <1>11, CopyIsStarted DEF Launch
  <2>2. srv'["copy"] = "forked" /\ pc' = pc /\ launcher' = "copy"
    BY <1>2, <1>11 DEF Launch, labVars
  <2> QED
    BY <1>2, <1>3, <2>1, <2>2 DEF CopyUp, ToFail
<1>12. CASE Launch("primary")
  <2>1. pc = 6
    BY <1>12, PrimaryIsStarted DEF Launch
  <2>2. srv'["copy"] = srv["copy"] /\ pc' = pc /\ launcher' = "primary" /\ launcher = NoCluster
    BY <1>2, <1>12 DEF Launch, labVars
  <2>3. pc <= CopyStart /\ ~ToFail /\ ~ToFail'
    BY <1>2, <1>3, <2>1, <2>2 DEF ToFail
  <2> QED
    BY <1>2, <1>3, <1>4, <2>1, <2>2, <2>3 DEF CopyUp
<1>13. CASE \E w \in Clusters : WritePidFile(w) \/ BecomeReady(w)
  <2>1. PICK w \in Clusters : WritePidFile(w) \/ BecomeReady(w)
    BY <1>13
  <2>2. /\ srv' = [srv EXCEPT ![w] = IF WritePidFile(w) THEN "starting" ELSE "ready"]
        /\ srv[w] \in {"forked", "starting"} /\ pc' = pc /\ launcher' = launcher /\ copy' = copy
    BY <1>2, <2>1 DEF WritePidFile, BecomeReady, PidDue, ReadyDue, ServerStep, labVars
  <2>3. ToFail /\ w = "copy" => WritePidFile(w)
    <3>1. SUFFICES ASSUME ToFail, w = "copy", BecomeReady(w) PROVE FALSE
      BY <2>1
    <3>2. wal.first = "same"
      BY <3>1 DEF BecomeReady, ReadyDue, FromArchive, ToFail
    <3> QED
      BY <1>2, <3>1, <3>2 DEF RInv, Repaired, ToFail
  <2>4. ToFail' = ToFail
    BY <1>2, <2>2 DEF ToFail
  <2>5. CASE w = "primary"
    <3>1. srv'["copy"] = srv["copy"]
      BY <1>2, <2>2, <2>5
    <3> QED
      BY <1>3, <1>4, <2>2, <2>4, <3>1 DEF CopyUp, Up
  <2>6. CASE w = "copy"
    <3>1. srv["copy"] \in {"forked", "starting"} /\ srv'["copy"] \in {"starting", "ready"}
      BY <1>2, <2>2, <2>6
    <3>2. pc <= CopyStart /\ launcher = "copy"
      BY <1>2, <1>3, <1>4, <3>1 DEF Up
    <3>3. ToFail => srv'["copy"] = "starting"
      BY <1>2, <2>2, <2>3, <2>6
    <3> QED
      BY <1>2, <1>3, <2>2, <2>4, <3>1, <3>2, <3>3 DEF CopyUp
  <2> QED
    BY <1>2, <2>1, <2>5, <2>6
<1> QED
  <2>1. \/ \E op : Advance(op)
        \/ Writing \/ Alone \/ RecoveryFails
        \/ \E w \in Clusters : Launch(w) \/ WritePidFile(w) \/ BecomeReady(w)
    BY <1>1, ServerCourse
  <2> QED
    BY <1>2, <1>7, <1>8, <1>9, <1>10, <1>11, <1>12, <1>13, <2>1

(* At the end of a script no recovery is due to fail.                      *)
LEMMA NoLateRefusal ==
    ASSUME IInv, RInv, FInv, Smooth, phase # "work"
    PROVE  ~RecoveryFails
<1> SUFFICES ASSUME RecoveryFails PROVE FALSE
  OBVIOUS
<1>1. wal.last # "partial" /\ ~err
  BY DEF Smooth, NoExcuse
<1>2. FromArchive /\ wal.first # "same"
  BY <1>1 DEF RecoveryFails, NoStartDue, TornDue
<1>3. pc = Len(Script) + 1
  BY <1>1 DEF RInv, NoErrorYet
<1>4. CASE task.lesson = 28
  <2>1. pc = 28
    <3>1. Len(Script) = 27
      BY <1>4, HistoryPlaces
    <3> QED
      BY <1>3, <3>1
  <2> QED
    BY <1>2, <1>4, <2>1 DEF FInv, ArchiveWorks
<1>5. CASE task.lesson = 29
  <2>1. pc = 24
    <3>1. Len(Script) = 23
      BY <1>5, TargetedPlaces
    <3> QED
      BY <1>3, <3>1
  <2> QED
    BY <1>2, <1>5, <2>1 DEF FInv, ArchiveWorks
<1> QED
  BY <1>2, <1>4, <1>5 DEF FromArchive

(* Outside its script a lesson takes no step of it.                        *)
LEMMA Idling ==
    ASSUME IInv, phase # "work"
    PROVE  ~Script1 /\ ~Script2
<1>1. ASSUME NEW op PROVE ~Working(op)
  BY DEF Working
<1>2. \A w \in Clusters : ~Starting(w) /\ launcher # w
  BY <1>1 DEF Starting, IInv, LauncherIsStarting
<1>3. ~Script1
  BY <1>1 DEF Script1, MakeTree, Configure, Inspect, InitCluster, Commit, Backup, SwitchWal, CopyArchive, Withhold,
     Clone, BackupForStandby, Ask, RequestPause, Found, NotFound, Action, ActionBuilds, Run
<1>4. ~Script2
  BY <1>1, <1>2 DEF Script2, Launch, LaunchRefused, Started, StartFailed, Seen, Deadline, StepFails, Finish, Run
<1> QED
  BY <1>3, <1>4

(* The cleanup stops every server its pid file names, and sees none after. *)
LEMMA CleanupKept ==
    ASSUME IInv, RInv, FInv, [Next]_vars
    PROVE  CleanupGoesWell'
<1> SUFFICES ASSUME Smooth' PROVE CleanupGoesWell'
  BY DEF CleanupGoesWell
<1>1. NoExcuse' /\ ~err'
  BY DEF Smooth
<1>2. /\ Smooth /\ ~cancelled /\ ~disturbed /\ ~cancelled' /\ ~disturbed' /\ ~err
      /\ \A w \in Clusters : ~ServerFails(w)
  BY <1>1, Smoothly, ExcusesStay DEF Smooth, NoExcuse
<1>3. /\ phase \in {"work", "cleanup"} => ~failed
      /\ phase = "work" => look = "pid"
      /\ phase = "cleanup" /\ look = "stop" => which \in pidfile
      /\ phase = "cleanup" /\ look = "status" => which \notin pidfile
  BY <1>2 DEF FInv, CleanupGoesWell
<1>4. CASE phase' = "work"
  BY <1>1, <1>3, <1>4, ServerCourse DEF CleanupGoesWell
<1>5. CASE phase' = "exited"
  BY <1>5 DEF CleanupGoesWell
<1>6. CASE phase' = "cleanup"
  <2>1. phase # "work" \/ Finish
    <3>1. SUFFICES ASSUME phase = "work", ~Finish PROVE phase' = phase
      BY <1>6
    <3>2. (\E op : Advance(op)) \/ Change \/ Aside
      BY <1>1, Kinds DEF RInv
    <3>3. CASE \E op : Advance(op)
      BY <3>3 DEF Advance
    <3>4. CASE Change
      BY <3>4 DEF Change, Commit, Backup, SwitchWal, CopyArchive, Withhold, BackupForStandby, Ask, RequestPause, Action,
         ActionBuilds, Launch, RecoveryFails, ReplayRecord, Connect, Receive, PauseTakesHold, Archive, ServerStep,
         labVars, Proceed
    <3>5. ~Cleanup
      BY <3>1 DEF Cleanup, LookForPidFile, Stop, StopFails, Status, StatusFails, Retain, Remove, RemoveFails
    <3>6. CASE Aside
      BY <3>1, <3>5, <3>6 DEF Aside, Launch, Cancel, Exited, vars, labVars, WritePidFile, BecomeReady, ServerFails,
         ServerStep
    <3> QED
      BY <3>2, <3>3, <3>4, <3>6
  <2>2. CASE Finish
    <3>1. phase = "work" /\ UNCHANGED <<look, failed>>
      BY <2>2 DEF Finish, Quietly, cleanupVars
    <3>2. ~failed' /\ look' = "pid"
      BY <1>3, <3>1
    <3> QED
      BY <1>6, <3>2 DEF CleanupGoesWell
  <2>3. CASE phase = "exited"
    <3>1. Exited \/ Servers \/ UNCHANGED vars
      <4>1. ~Lab
        BY <2>3, Idling DEF Lab, Cleanup, LookForPidFile, Stop, StopFails, Status, StatusFails, Retain, Remove,
           RemoveFails
      <4> QED
        BY <2>3, <4>1, Zenon DEF Next, Cancel
    <3>2. phase' = phase
      BY <3>1 DEF Exited, vars, labVars, Servers, WritePidFile, BecomeReady, ServerFails, RecoveryFails, ReplayRecord,
         Connect, Receive, PauseTakesHold, Archive, ServerStep
    <3> QED
      BY <1>6, <2>3, <3>2
  <2>4. CASE phase = "cleanup"
    <3>1. Cleanup \/ Servers \/ UNCHANGED vars
      BY <2>4, Idling, Zenon DEF Next, Lab, Cancel, Exited
    <3>2. CASE LookForPidFile
      <4>1. ~failed' /\ look' = IF which \in pidfile THEN "stop" ELSE "status"
        BY <1>3, <2>4, <3>2 DEF LookForPidFile
      <4>2. UNCHANGED <<which, pidfile>>
        BY <3>2 DEF LookForPidFile
      <4> QED
        BY <1>6, <4>1, <4>2 DEF CleanupGoesWell
    <3>3. CASE Stop
      <4>1. ~failed' /\ look' = "status"
        BY <1>3, <2>4, <3>3 DEF Stop
      <4>2. which' = which /\ pidfile' = pidfile \ {which}
        BY <3>3 DEF Stop
      <4> QED
        BY <1>6, <4>1, <4>2 DEF CleanupGoesWell
    <3>4. ~StopFails
      <4>1. SUFFICES ASSUME StopFails PROVE FALSE
        OBVIOUS
      <4>2. which \in pidfile /\ look = "stop"
        BY <1>3, <2>4, <4>1 DEF StopFails
      <4>3. srv[which] \in {"starting", "ready"}
        BY <1>2, <4>2 DEF FInv, PidFilesAreServers
      <4>4. disturbed' = (disturbed \/ srv[which] \in {"starting", "ready"})
        BY <4>1 DEF StopFails
      <4> QED
        BY <1>2, <4>3, <4>4, Zenon
    <3>5. CASE Status
      <4>1. which \notin pidfile
        BY <1>3, <2>4, <3>5 DEF Status
      <4>2. failed' = failed /\ look' = "pid"
        BY <4>1, <3>5 DEF Status, IInv, TypeOK
      <4> QED
        BY <1>3, <1>6, <2>4, <4>2 DEF CleanupGoesWell
    <3>6. ~StatusFails
      BY <1>2, Zenon DEF StatusFails
    <3>7. ~ (Retain \/ Remove \/ RemoveFails)
      BY <1>6 DEF Retain, Remove, RemoveFails
    <3>8. CASE Servers
      <4>1. ~RecoveryFails
        BY <1>2, <2>4, NoLateRefusal
      <4>2. \A w \in Clusters : ~WritePidFile(w)
        <5>1. SUFFICES ASSUME NEW w \in Clusters, srv[w] = "forked" PROVE FALSE
          BY DEF WritePidFile, PidDue
        <5>2. launcher = w
          BY <1>2, <5>1 DEF IInv, ForkedIsWatched
        <5> QED
          BY <2>4, <5>2 DEF IInv, LauncherIsStarting, Starting, Working
      <4>3. ServerStep /\ UNCHANGED pidfile
        BY <1>2, <3>8, <4>1, <4>2 DEF Servers, BecomeReady, ReplayRecord, Connect, Receive, PauseTakesHold, Archive
      <4> QED
        <5>1. UNCHANGED <<which, look, pidfile>> /\ ~failed'
          BY <1>3, <2>4, <4>3 DEF ServerStep, cleanupVars
        <5> QED
          BY <1>3, <1>6, <2>4, <5>1 DEF CleanupGoesWell
    <3>9. CASE UNCHANGED vars
      <4>1. UNCHANGED <<which, look, pidfile>> /\ ~failed'
        BY <1>3, <2>4, <3>9 DEF vars, serverVars, cleanupVars
      <4> QED
        BY <1>3, <1>6, <2>4, <4>1 DEF CleanupGoesWell
    <3> QED
      BY <3>1, <3>2, <3>3, <3>4, <3>5, <3>6, <3>7, <3>8, <3>9 DEF Cleanup
  <2> QED
    BY <2>1, <2>2, <2>3, <2>4 DEF IInv, TypeOK
<1> QED
  <2>1. phase' \in {"work", "cleanup", "exited"}
    BY NextKeeps DEF IInv, TypeOK
  <2> QED
    BY <1>4, <1>5, <1>6, <2>1

(* The archive gets its last segment whole and its first one back, and the *)
(* copy stops at the third record of the primary.                          *)
LEMMA ArchiveWorksKept ==
    ASSUME IInv, RInv, FInv, [Next]_vars
    PROVE  ArchiveWorks'
<1> SUFFICES ASSUME Smooth', task'.lesson \in {28, 29} PROVE ArchiveWorks'
  BY DEF ArchiveWorks
<1>1. NoExcuse'
  BY DEF Smooth
<1>2. /\ Smooth /\ ~err /\ task' = task /\ pc \in Nat /\ task.lesson \in {28, 29}
      /\ task.answer = IF task.lesson = 28 THEN "restore" ELSE "before_bad"
      /\ DataTypes /\ HistoryWritten /\ wal.last # "partial" /\ wal'.last # "partial"
      /\ Idle \/ (\E op : Advance(op)) \/ Change
      /\ ~ActionBuilds
  BY <1>1, Smoothly DEF Right
<1>3. /\ pc > 9 => wal.base = 1
      /\ pc > 14 => wal.archived # "open"
      /\ pc > 15 => wal.archived # "full"
      /\ pc > 16 => wal.last = "whole"
      /\ task.lesson = 29 /\ pc > 16 => wal.first = "same"
      /\ task.lesson = 28 /\ pc > 22 => wal.first = "same"
      /\ task.lesson = 28 /\ pc = 21 => copy.refused
  BY <1>2 DEF FInv, ArchiveWorks
<1>4. srv["copy"] # "none" =>
              \/ copy.pause = "paused" /\ copy.replayed = 3
              \/ copy.pause = "no" /\ copy.replayed \in 1..2
  BY <1>2 DEF FInv, ArchiveWorks
<1>5. /\ task.lesson = 28 /\ pc \in 18..22 => wal.first = "missing"
      /\ wal.last # "none" => pc > 16
  BY <1>2 DEF RInv, Repaired, FInv, CopiedLate
<1>6. wal.archived \in {"open", "full", "partial", "whole"}
  BY <1>2 DEF DataTypes
<1>7. CASE Idle
  BY <1>2, <1>3, <1>4, <1>7 DEF Idle, ArchiveWorks
<1>8. CASE \E op : Advance(op)
  <2>1. PICK op : Advance(op)
    BY <1>8
  <2>2. /\ Working(op) /\ pc' = pc + 1 /\ UNCHANGED <<wal, copy, srv>> /\ op \notin Changing
        /\ op = "await_archived" => wal.archived \in {"partial", "whole"}
        /\ op # "action"
        /\ op = "start_copy_expecting_failure" => copy.refused
    BY <1>1, <1>2, <2>1, SmoothAdvance DEF Advance, Polls, Awaited
  <2>3. op \notin {"backup", "switch", "cp_archive"}
    BY <2>2 DEF Changing
  <2>4. /\ pc \notin {9, 14, 16}
        /\ pc = 15 => op = "await_archived"
        /\ task.lesson = 28 => pc # 22 /\ (pc = 20 => op = "start_copy_expecting_failure")
    <3>1. CASE task.lesson = 28
      BY <2>2, <2>3, <3>1, HistoryPlaces DEF Working
    <3>2. CASE task.lesson = 29
      BY <2>2, <2>3, <3>2, TargetedPlaces DEF Working
    <3> QED
      BY <1>2, <3>1, <3>2
  <2>5. /\ pc' > 9 => wal'.base = 1
        /\ pc' > 14 => wal'.archived # "open"
        /\ pc' > 15 => wal'.archived # "full"
        /\ pc' > 16 => wal'.last = "whole"
    BY <1>2, <1>3, <2>2, <2>4
  <2>6. /\ task.lesson = 29 /\ pc' > 16 => wal'.first = "same"
        /\ task.lesson = 28 /\ pc' > 22 => wal'.first = "same"
        /\ task.lesson = 28 /\ pc' = 21 => copy'.refused
    BY <1>2, <1>3, <2>2, <2>4
  <2> QED
    BY <1>2, <1>4, <2>2, <2>5, <2>6 DEF ArchiveWorks
<1>9. ASSUME NEW op, Working(op), pc' = pc + 1, UNCHANGED <<copy, srv>>,
             wal'.base = wal.base \/ (op = "backup" /\ wal'.base = 1),
             wal'.archived = wal.archived \/ (op = "switch" /\ wal'.archived = "full"),
             wal'.last = wal.last \/ (op = "cp_archive" /\ wal'.last = wal.archived),
             \/ wal'.first = wal.first
             \/ op \in {"cp_archive", "action"} /\ wal'.first = "same"
             \/ op = "withhold" /\ wal'.first = "missing",
             op \in {"backup", "switch", "cp_archive", "action", "withhold"} \cup Records,
             op = "backup" => wal'.base = 1,
             op = "switch" => wal'.archived # "open",
             op = "cp_archive" => wal'.last = wal.archived /\ wal'.first = "same",
             op = "action" => wal'.first = "same"
      PROVE  ArchiveWorks'
  <2>1. /\ pc = 9 <=> op = "backup"
        /\ pc = 14 <=> op = "switch"
        /\ pc # 15
        /\ pc = 16 <=> op = "cp_archive"
        /\ op = "withhold" => task.lesson = 28 /\ pc = 17
        /\ op = "action" => task.lesson = 28 /\ pc = 22
        /\ task.lesson = 28 => pc # 20 /\ (pc = 22 => op = "action")
        /\ task.lesson = 29 => op \notin {"action", "withhold"}
    <3> USE DEF Records, RestorePoints
    <3>1. CASE task.lesson = 28
      <4>1. /\ pc = 9 => op = "backup"
            /\ pc = 14 => op = "switch"
            /\ pc # 15
            /\ pc = 16 => op = "cp_archive"
            /\ pc # 20 /\ (pc = 22 => op = "action")
        BY <1>9, <3>1, HistoryPlaces DEF Working
      <4> QED
        BY <1>9, <3>1, <4>1, HistoryAt
    <3>2. CASE task.lesson = 29
      <4>1. /\ pc = 9 => op = "backup"
            /\ pc = 14 => op = "switch"
            /\ pc # 15
            /\ pc = 16 => op = "cp_archive"
        BY <1>9, <3>2, TargetedPlaces DEF Working
      <4> QED
        BY <1>9, <3>2, <4>1, TargetedAt
    <3> QED
      BY <1>2, <3>1, <3>2
  <2>2. pc' > 9 => wal'.base = 1
    BY <1>2, <1>3, <1>9, <2>1
  <2>3. pc' > 14 => wal'.archived # "open"
    BY <1>2, <1>3, <1>9, <2>1
  <2>4. pc' > 15 => wal'.archived # "full"
    BY <1>2, <1>3, <1>9, <2>1
  <2>5. pc' > 16 => wal'.last = "whole"
    BY <1>2, <1>3, <1>6, <1>9, <2>1
  <2>6. /\ task.lesson = 29 /\ pc' > 16 => wal'.first = "same"
        /\ task.lesson = 28 /\ pc' > 22 => wal'.first = "same"
    BY <1>2, <1>3, <1>9, <2>1
  <2>7. task.lesson = 28 => pc' # 21
    BY <1>2, <1>9, <2>1
  <2> QED
    BY <1>2, <1>4, <1>9, <2>2, <2>3, <2>4, <2>5, <2>6, <2>7 DEF ArchiveWorks
<1>10. CASE Commit
  <2>1. PICK r \in Records : Run(r) /\ wal' = [wal EXCEPT !.history = Append(@, r)] /\ Proceed /\ Quietly /\ copy' = copy
    BY <1>10 DEF Commit
  <2>2. wal'.base = wal.base /\ wal'.archived = wal.archived /\ wal'.last = wal.last /\ wal'.first = wal.first
    BY <1>2, <2>1 DEF DataTypes
  <2>3. Working(r) /\ pc' = pc + 1 /\ srv' = srv
    BY <2>1 DEF Run, Proceed, Quietly, serverVars
  <2>4. r \notin {"backup", "switch", "cp_archive", "action", "withhold"}
    BY DEF Records, RestorePoints
  <2> QED
    BY <1>9, <2>1, <2>2, <2>3, <2>4
<1>11. CASE Backup \/ SwitchWal \/ CopyArchive \/ Withhold
  <2>1. PICK op \in {"backup", "switch", "cp_archive", "withhold"} :
           /\ Working(op)
           /\ wal' = CASE op = "backup"     -> [wal EXCEPT !.base = Len(wal.history)]
                       [] op = "switch"     -> [wal EXCEPT !.archived = "full"]
                       [] op = "cp_archive" -> [wal EXCEPT !.first = "same", !.last = wal.archived]
                       [] op = "withhold"   -> [wal EXCEPT !.first = "missing"]
    BY <1>11 DEF Backup, SwitchWal, CopyArchive, Withhold, Run
  <2>2. pc' = pc + 1 /\ UNCHANGED <<copy, srv>>
    BY <1>11 DEF Backup, SwitchWal, CopyArchive, Withhold, Proceed, Quietly, serverVars
  <2>3. op = "backup" => Len(wal.history) = 1
    <3>1. SUFFICES ASSUME op = "backup" PROVE Len(wal.history) = 1
      OBVIOUS
    <3>2. pc = 9
      BY <1>2, <2>1, <3>1, HistoryAt, TargetedAt
    <3>3. Len(wal.history) = WrittenBefore(9)
      BY <1>2, <3>2 DEF HistoryWritten
    <3>4. WrittenBefore(9) = 1
      BY <1>2 DEF WrittenBefore
    <3> QED
      BY <3>3, <3>4
  <2>4. /\ wal'.base = IF op = "backup" THEN 1 ELSE wal.base
        /\ wal'.archived = IF op = "switch" THEN "full" ELSE wal.archived
        /\ wal'.last = IF op = "cp_archive" THEN wal.archived ELSE wal.last
        /\ wal'.first = IF op = "cp_archive" THEN "same" ELSE IF op = "withhold" THEN "missing" ELSE wal.first
    <3>1. CASE op = "backup"
      BY <1>2, <2>1, <2>3, <3>1 DEF DataTypes
    <3>2. CASE op = "switch"
      BY <1>2, <2>1, <3>2 DEF DataTypes
    <3>3. CASE op = "cp_archive"
      BY <1>2, <2>1, <3>3 DEF DataTypes
    <3>4. CASE op = "withhold"
      BY <1>2, <2>1, <3>4 DEF DataTypes
    <3> QED
      BY <3>1, <3>2, <3>3, <3>4
  <2>5. CASE op = "backup"
    BY <1>9, <2>1, <2>2, <2>4, <2>5
  <2>6. CASE op = "switch"
    BY <1>9, <2>1, <2>2, <2>4, <2>6
  <2>7. CASE op = "cp_archive"
    BY <1>9, <2>1, <2>2, <2>4, <2>7
  <2>8. CASE op = "withhold"
    BY <1>9, <2>1, <2>2, <2>4, <2>8
  <2> QED
    BY <2>1, <2>5, <2>6, <2>7, <2>8
<1>12. CASE Action
  <2>1. Working("action") /\ pc' = pc + 1 /\ srv' = srv
    BY <1>12 DEF Action, Run, Proceed, Quietly, serverVars
  <2>2. task.lesson = 28
    BY <1>2, <2>1, TargetedAt
  <2>3. wal' = [wal EXCEPT !.first = "same"] /\ copy' = copy
    BY <1>2, <1>12, <2>2 DEF Action
  <2>4. wal'.base = wal.base /\ wal'.archived = wal.archived /\ wal'.last = wal.last /\ wal'.first = "same"
    BY <1>2, <2>3 DEF DataTypes
  <2> QED
    BY <1>9, <2>1, <2>3, <2>4
<1>13. ~ (BackupForStandby \/ Ask \/ RequestPause)
  <2>1. ASSUME NEW op \in {"backup_R", "ask_primary", "ask_copy", "pause"}
        PROVE  ~Working(op)
    BY <1>2, HistoryAt, TargetedAt
  <2> QED
    BY <2>1 DEF BackupForStandby, Ask, RequestPause, Run
<1>14. ASSUME UNCHANGED <<pc, wal>>, copy'.refused = copy.refused \/ pc # 21,
              srv'["copy"] # "none" =>
                 \/ copy'.pause = "paused" /\ copy'.replayed = 3
                 \/ copy'.pause = "no" /\ copy'.replayed \in 1..2
       PROVE  ArchiveWorks'
  BY <1>2, <1>3, <1>14 DEF ArchiveWorks
<1>15. CASE Launch("copy")
  <2>1. pc \in {19, 20, 24} /\ pc' = pc /\ wal' = wal
    BY <1>2, <1>15, HistoryAt, TargetedAt DEF Launch, Starting, labVars
  <2>2. copy'.replayed = 1 /\ copy'.pause = "no"
    BY <1>2, <1>3, <1>15, <2>1 DEF Launch, DataTypes
  <2> QED
    BY <1>14, <2>1, <2>2
<1>16. CASE RecoveryFails
  <2>1. pc' = pc /\ wal' = wal /\ srv'["copy"] = "none"
    BY <1>2, <1>16 DEF RecoveryFails, ServerStep, labVars, IInv, TypeOK, Clusters
  <2>2. task.lesson = 28 /\ pc = 21 => copy'.refused
    <3>1. SUFFICES ASSUME wal.first = "missing" PROVE copy'.refused
      BY <1>5
    <3>2. copy' = [copy EXCEPT !.refused = TRUE]
      BY <1>16, <3>1 DEF RecoveryFails
    <3> QED
      BY <1>2, <3>2 DEF DataTypes
  <2> QED
    BY <1>2, <1>3, <2>1, <2>2 DEF ArchiveWorks
<1>17. CASE ReplayRecord
  <2>1. pc' = pc /\ wal' = wal /\ srv' = srv /\ copy'.refused = copy.refused
    BY <1>2, <1>17 DEF ReplayRecord, ServerStep, labVars, DataTypes
  <2>2. /\ srv["copy"] # "none" /\ copy.pause # "paused" /\ wal.last = "whole"
        /\ FromArchive
    BY <1>2, <1>17 DEF ReplayRecord, ReplayDue, FromArchive
  <2>3. copy.pause = "no" /\ copy.replayed \in 1..2 /\ pc > 16
    BY <1>4, <1>5, <2>2
  <2>4. Len(wal.history) = 5
    BY <1>2, <2>3, ArchiveLength
  <2>5. wal.history[2] = "accepted" /\ wal.history[3] = "before_bad"
    BY <1>2, <2>4 DEF HistoryWritten, Writes
  <2>6. Target = "before_bad"
    BY <1>2 DEF Target
  <2>7. copy' = [copy EXCEPT !.replayed = @ + 1,
                             !.pause = IF FromArchive /\ wal.history[copy.replayed + 1] \in RestorePoints
                                          /\ wal.history[copy.replayed + 1] = Target THEN "paused" ELSE @]
    BY <1>17 DEF ReplayRecord
  <2>8. CASE copy.replayed = 1
    <3>1. copy'.replayed = 2 /\ copy'.pause = "no"
      BY <1>2, <2>2, <2>3, <2>5, <2>7, <2>8 DEF DataTypes, RestorePoints
    <3> QED
      BY <1>14, <2>1, <3>1
  <2>9. CASE copy.replayed = 2
    <3>1. copy'.replayed = 3 /\ copy'.pause = "paused"
      BY <1>2, <2>2, <2>3, <2>5, <2>6, <2>7, <2>9 DEF DataTypes, RestorePoints
    <3> QED
      BY <1>14, <2>1, <3>1
  <2> QED
    BY <2>3, <2>8, <2>9
<1>18. CASE Connect \/ Receive
  <2>1. pc' = pc /\ wal' = wal /\ srv' = srv
    BY <1>18 DEF Connect, Receive, ServerStep, labVars
  <2>2. copy'.refused = copy.refused /\ copy'.pause = copy.pause /\ copy'.replayed = copy.replayed
    BY <1>2, <1>18 DEF Connect, Receive, DataTypes
  <2> QED
    BY <1>4, <1>14, <2>1, <2>2
<1>19. ~PauseTakesHold
  BY <1>4 DEF PauseTakesHold, PauseDue
<1>20. CASE Archive
  <2>1. /\ pc' = pc /\ UNCHANGED <<copy, srv>>
        /\ wal' = [wal EXCEPT !.archived = IF @ = "full" THEN "partial" ELSE "whole"]
    BY <1>20 DEF Archive, ServerStep, labVars
  <2>2. /\ wal'.base = wal.base /\ wal'.last = wal.last /\ wal'.first = wal.first
        /\ wal'.archived \in {"partial", "whole"}
    BY <1>2, <2>1 DEF DataTypes
  <2> QED
    BY <1>2, <1>3, <1>4, <2>1, <2>2 DEF ArchiveWorks
<1> QED
  BY <1>2, <1>7, <1>8, <1>10, <1>11, <1>12, <1>13, <1>15, <1>16, <1>17, <1>18, <1>19, <1>20 DEF Change

(* A standby is made of a backup with the first record and streams the     *)
(* rest.                                                                   *)
LEMMA StandbyWorksKept ==
    ASSUME IInv, RInv, FInv, [Next]_vars
    PROVE  StandbyWorks'
<1> SUFFICES ASSUME Smooth', task'.lesson \in {30, 31} PROVE StandbyWorks'
  BY DEF StandbyWorks
<1>1. NoExcuse'
  BY DEF Smooth
<1>2. /\ Smooth /\ ~err /\ task' = task /\ pc \in Nat /\ task.lesson \in {30, 31}
      /\ task.answer = IF task.lesson = 30 THEN "replica" ELSE "resume"
      /\ DataTypes /\ HistoryWritten
      /\ Idle \/ (\E op : Advance(op)) \/ Change
      /\ ~ActionBuilds
  BY <1>1, Smoothly DEF Right
<1>3. /\ pc > 9 => signal /\ wal.base = 1
      /\ srv["copy"] # "none" => pc >= 12 /\ copy.replayed >= 1
      /\ pc > 14 => copy.received >= 1
      /\ IF copy.received = 0 THEN copy.replayed <= 1 ELSE copy.replayed <= copy.received
  BY <1>2 DEF FInv, StandbyWorks
<1>4. copy.received \in Nat /\ copy.replayed \in Nat /\ signal \in BOOLEAN /\ signal' \in BOOLEAN
  BY <1>2, NextKeeps DEF DataTypes, IInv, TypeOK
<1>5. CASE Idle
  BY <1>2, <1>3, <1>5 DEF Idle, StandbyWorks
<1>6. ASSUME pc' = pc + 1, srv' = srv, copy'.received = copy.received, copy'.replayed = copy.replayed,
             \/ pc # 9 /\ signal' = signal /\ wal'.base = wal.base
             \/ signal' /\ wal'.base = 1,
             pc = 14 => copy.received >= 1
      PROVE  StandbyWorks'
  <2>1. pc' > 9 => signal' /\ wal'.base = 1
    BY <1>2, <1>3, <1>4, <1>6
  <2> QED
    BY <1>2, <1>3, <1>6, <2>1 DEF StandbyWorks
<1>7. CASE \E op : Advance(op)
  <2>1. PICK op : Advance(op)
    BY <1>7
  <2>2. /\ Working(op) /\ pc' = pc + 1 /\ UNCHANGED <<wal, copy, srv, signal>>
        /\ op \notin {"action", "backup_R"}
    BY <1>2, <2>1 DEF Advance, Changing
  <2>3. pc # 9 /\ (pc = 14 => op = "await_streaming")
    <3>1. CASE task.lesson = 30
      BY <2>2, <3>1, StandbyPlaces DEF Working
    <3>2. CASE task.lesson = 31
      BY <2>2, <3>2, ReplayPlaces DEF Working
    <3> QED
      BY <1>2, <3>1, <3>2
  <2>4. pc = 14 => copy.received >= 1
    <3>1. op = "await_streaming" => copy.received > 0
      BY <2>1 DEF Advance, Polls, Awaited
    <3> QED
      BY <1>4, <2>3, <3>1
  <2> QED
    BY <1>6, <2>2, <2>3, <2>4
<1>8. ASSUME NEW op \in Records \cup {"pause", "action"}, Working(op)
      PROVE  /\ pc # 14 /\ (pc = 9 => task.lesson = 30 /\ op = "action")
             /\ (op = "action" /\ task.lesson = 30 => pc = 9) /\ (op = "action" /\ task.lesson = 31 => pc = 20)
  <2> USE DEF Records, RestorePoints
  <2>1. CASE task.lesson = 30
    BY <1>8, <2>1, StandbyAt
  <2>2. CASE task.lesson = 31
    BY <1>8, <2>2, ReplayAt
  <2> QED
    BY <1>2, <2>1, <2>2
<1>9. CASE Commit
  <2>1. PICK r \in Records : Run(r) /\ wal' = [wal EXCEPT !.history = Append(@, r)] /\ Proceed /\ Quietly
                            /\ UNCHANGED <<copy, signal>>
    BY <1>9 DEF Commit, fileVars
  <2>2. wal'.base = wal.base
    BY <1>2, <2>1 DEF DataTypes
  <2>3. pc # 14 /\ pc # 9
    BY <1>8, <2>1 DEF Run, Records, RestorePoints
  <2> QED
    BY <1>6, <2>1, <2>2, <2>3 DEF Proceed, Quietly, serverVars
<1>10. CASE RequestPause
  <2>1. copy'.received = copy.received /\ copy'.replayed = copy.replayed
    BY <1>2, <1>10 DEF RequestPause, DataTypes
  <2>2. pc' = pc + 1 /\ UNCHANGED <<srv, signal, wal>> /\ Working("pause")
    BY <1>10 DEF RequestPause, Run, Proceed, Quietly, serverVars, fileVars
  <2>3. pc # 14 /\ pc # 9
    BY <1>8, <2>2
  <2> QED
    BY <1>6, <2>1, <2>2, <2>3
<1>11. pc = 9 => Len(wal.history) = 1
  <2>1. SUFFICES ASSUME pc = 9 PROVE Len(wal.history) = 1
    OBVIOUS
  <2>2. Len(wal.history) = WrittenBefore(9)
    BY <1>2, <2>1 DEF HistoryWritten
  <2>3. WrittenBefore(9) = 1
    BY <1>2 DEF WrittenBefore
  <2> QED
    BY <2>2, <2>3
<1>12. CASE BackupForStandby
  <2>1. Working("backup_R")
    BY <1>12 DEF BackupForStandby, Run
  <2>2. pc = 9
    BY <1>2, <2>1, StandbyAt, ReplayAt
  <2>3. signal' /\ wal'.base = 1
    BY <1>2, <1>11, <1>12, <2>2 DEF BackupForStandby, BaseBackup, DataTypes
  <2>4. pc' = pc + 1 /\ UNCHANGED <<srv, copy>>
    BY <1>12 DEF BackupForStandby, Proceed, Quietly, serverVars
  <2> QED
    BY <1>6, <2>2, <2>3, <2>4
<1>13. CASE Action
  <2>1. Working("action") /\ pc' = pc + 1 /\ srv' = srv
    BY <1>13 DEF Action, Run, Proceed, Quietly, serverVars
  <2>2. CASE task.lesson = 30
    <3>1. pc = 9
      BY <1>8, <2>1, <2>2
    <3>2. BaseBackup /\ copy' = copy
      BY <1>2, <1>13, <2>2 DEF Action
    <3>3. signal' /\ wal'.base = 1
      BY <1>2, <1>11, <3>1, <3>2 DEF BaseBackup, DataTypes
    <3> QED
      BY <1>6, <2>1, <3>1, <3>2, <3>3
  <2>3. CASE task.lesson = 31
    <3>1. pc = 20
      BY <1>8, <2>1, <2>3
    <3>2. copy' = [copy EXCEPT !.pause = "no"] /\ UNCHANGED <<signal, wal>>
      BY <1>2, <1>13, <2>3 DEF Action, fileVars
    <3>3. copy'.received = copy.received /\ copy'.replayed = copy.replayed
      BY <1>2, <3>2 DEF DataTypes
    <3> QED
      BY <1>6, <2>1, <3>1, <3>2, <3>3
  <2> QED
    BY <1>2, <2>2, <2>3
<1>14. ~ (Backup \/ SwitchWal \/ CopyArchive \/ Withhold \/ Ask)
  <2>1. ASSUME NEW op \in {"backup", "switch", "cp_archive", "withhold", "ask_primary", "ask_copy"}
        PROVE  ~Working(op)
    BY <1>2, StandbyAt, ReplayAt
  <2> QED
    BY <2>1 DEF Backup, SwitchWal, CopyArchive, Withhold, Ask, Run
<1>15. CASE Launch("copy")
  <2>1. pc = 12 /\ UNCHANGED <<pc, wal, signal>>
    <3>1. Working("start_copy") \/ Working("start_copy_expecting_failure")
      BY <1>2, <1>15 DEF Launch, Starting
    <3> QED
      BY <1>2, <1>15, <3>1, StandbyAt, ReplayAt DEF Launch, labVars, fileVars
  <2>2. copy'.replayed = 1 /\ copy'.received = 0
    BY <1>2, <1>3, <1>15, <2>1 DEF Launch, DataTypes
  <2> QED
    BY <1>2, <1>3, <2>1, <2>2 DEF StandbyWorks
<1>16. ~RecoveryFails
  BY <1>2 DEF RecoveryFails, NoStartDue, TornDue, FromArchive
<1>17. ASSUME ServerStep, srv' = srv, wal'.base = wal.base,
              copy'.replayed >= copy.replayed, copy'.received >= copy.received,
              copy'.received \in Nat, copy'.replayed \in Nat,
              IF copy'.received = 0 THEN copy'.replayed <= 1 ELSE copy'.replayed <= copy'.received
       PROVE  StandbyWorks'
  <2>1. UNCHANGED <<pc, signal>>
    BY <1>17 DEF ServerStep, labVars, fileVars
  <2> QED
    BY <1>2, <1>3, <1>4, <1>17, <2>1 DEF StandbyWorks
<1>18. CASE ReplayRecord
  <2>1. /\ ServerStep /\ srv' = srv /\ wal' = wal
        /\ copy'.replayed = copy.replayed + 1 /\ copy'.received = copy.received
    BY <1>2, <1>18 DEF ReplayRecord, DataTypes
  <2>2. signal
    BY <1>2, <1>3, <1>18 DEF ReplayRecord, ReplayDue
  <2>3. copy.replayed < copy.received
    BY <1>2, <1>18, <2>2 DEF ReplayRecord, ReplayDue, ReplayLimit, FromArchive
  <2> QED
    BY <1>4, <1>17, <2>1, <2>3
<1>19. CASE Connect
  <2>1. ServerStep /\ srv' = srv /\ wal' = wal /\ copy.received = 0 /\ srv["copy"] = "ready"
    BY <1>19 DEF Connect, ConnectDue, Up
  <2>2. wal.base = 1
    BY <1>2, <1>3, <2>1
  <2>3. copy'.replayed = copy.replayed /\ copy'.received = 1
    BY <1>2, <1>19, <2>2 DEF Connect, DataTypes
  <2> QED
    BY <1>3, <1>4, <1>17, <2>1, <2>3
<1>20. CASE Receive
  <2>1. /\ ServerStep /\ srv' = srv /\ wal' = wal /\ copy.received >= 1
        /\ copy'.replayed = copy.replayed /\ copy'.received = copy.received + 1
    BY <1>2, <1>20 DEF Receive, ReceiveDue, DataTypes
  <2> QED
    BY <1>3, <1>4, <1>17, <2>1
<1>21. CASE PauseTakesHold \/ Archive
  <2>1. ServerStep /\ srv' = srv /\ wal'.base = wal.base
    BY <1>2, <1>21 DEF PauseTakesHold, Archive, DataTypes
  <2>2. copy'.replayed = copy.replayed /\ copy'.received = copy.received
    BY <1>2, <1>21 DEF PauseTakesHold, Archive, DataTypes
  <2> QED
    BY <1>3, <1>4, <1>17, <2>1, <2>2
<1> QED
  BY <1>2, <1>5, <1>7, <1>9, <1>10, <1>12, <1>13, <1>14, <1>15, <1>16, <1>18, <1>19, <1>20, <1>21 DEF Change

(* The standby of lesson 30 replays without a pause until the row is seen. *)
LEMMA StandbySeesKept ==
    ASSUME IInv, RInv, FInv, [Next]_vars
    PROVE  StandbySees'
<1> SUFFICES ASSUME Smooth', task'.lesson = 30 PROVE StandbySees'
  BY DEF StandbySees
<1>1. NoExcuse'
  BY DEF Smooth
<1>2. /\ Smooth /\ ~err /\ task' = task /\ pc \in Nat /\ task.lesson = 30 /\ task.answer = "replica"
      /\ DataTypes /\ HistoryWritten
      /\ Idle \/ (\E op : Advance(op)) \/ Change
      /\ ~ActionBuilds
  BY <1>1, Smoothly DEF Right
<1>3. copy.pause = "no" /\ (pc > 16 => copy.replayed = 2)
  BY <1>2 DEF FInv, StandbySees
<1>4. CASE Idle
  BY <1>2, <1>3, <1>4 DEF Idle, StandbySees
<1>5. CASE \E op : Advance(op)
  <2>1. PICK op : Advance(op)
    BY <1>5
  <2>2. Working(op) /\ pc' = pc + 1 /\ copy' = copy
    BY <2>1 DEF Advance
  <2>3. pc = 16 => copy.replayed = 2
    <3>1. SUFFICES ASSUME pc = 16 PROVE copy.replayed = 2
      OBVIOUS
    <3>2. op = "await_visible"
      BY <1>2, <2>2, <3>1, StandbyPlaces DEF Working
    <3>3. "marker" \in Rows("copy")
      BY <2>1, <3>2 DEF Advance, Polls, Awaited
    <3>4. Len(wal.history) = 2
      BY <1>2, <3>1, StandbyLength
    <3> QED
      BY <1>2, <3>3, <3>4, StandbyRows
  <2> QED
    BY <1>2, <1>3, <2>2, <2>3 DEF StandbySees
<1>6. CASE Commit
  <2>1. pc \in {8, 15}
    BY <1>2, <1>6, StandbyAt DEF Commit, Run, Records, RestorePoints
  <2> QED
    BY <1>2, <1>3, <1>6, <2>1 DEF Commit, Proceed, StandbySees
<1>7. CASE Action
  <2>1. pc = 9 /\ pc' = 10 /\ copy' = copy
    BY <1>2, <1>7, StandbyAt DEF Action, Run, Proceed
  <2> QED
    BY <1>2, <1>3, <2>1 DEF StandbySees
<1>8. ~ (Backup \/ SwitchWal \/ CopyArchive \/ Withhold \/ BackupForStandby \/ Ask \/ RequestPause)
  <2>1. ASSUME NEW op \in {"backup", "switch", "cp_archive", "withhold", "backup_R", "ask_primary", "ask_copy", "pause"}
        PROVE  ~Working(op)
    BY <1>2, StandbyAt
  <2> QED
    BY <2>1 DEF Backup, SwitchWal, CopyArchive, Withhold, BackupForStandby, Ask, RequestPause, Run
<1>9. CASE Launch("copy")
  <2>1. pc = 12 /\ pc' = pc
    <3>1. Working("start_copy") \/ Working("start_copy_expecting_failure")
      BY <1>2, <1>9 DEF Launch, Starting
    <3> QED
      BY <1>2, <1>9, <3>1, StandbyAt DEF Launch, labVars
  <2>2. copy'.pause = "no"
    BY <1>2, <1>9 DEF Launch, DataTypes
  <2> QED
    BY <2>1, <2>2 DEF StandbySees
<1>10. ~RecoveryFails /\ ~PauseTakesHold
  BY <1>2, <1>3 DEF RecoveryFails, NoStartDue, TornDue, FromArchive, PauseTakesHold, PauseDue
<1>11. CASE ReplayRecord
  <2>1. pc' = pc /\ copy'.pause = copy.pause
    BY <1>2, <1>11 DEF ReplayRecord, ServerStep, labVars, DataTypes, FromArchive
  <2>2. pc <= 16
    <3>1. SUFFICES ASSUME pc > 16 PROVE FALSE
      BY <1>2
    <3>2. signal
      BY <1>2, <3>1 DEF FInv, StandbyWorks
    <3>3. copy.replayed < copy.received
      BY <1>2, <1>11, <3>2 DEF ReplayRecord, ReplayDue, ReplayLimit, FromArchive
    <3>4. Len(wal.history) = 2
      BY <1>2, <3>1, StandbyLength
    <3>5. copy.received \in 0..2
      BY <1>2, <3>4, StandbyRows
    <3> QED
      BY <1>3, <3>1, <3>3, <3>5
  <2> QED
    BY <1>2, <1>3, <2>1, <2>2 DEF StandbySees
<1>12. CASE Connect \/ Receive \/ Archive
  <2>1. pc' = pc /\ copy'.pause = copy.pause /\ copy'.replayed = copy.replayed
    BY <1>2, <1>12 DEF Connect, Receive, Archive, ServerStep, labVars, DataTypes
  <2> QED
    BY <1>3, <2>1 DEF StandbySees
<1> QED
  BY <1>2, <1>4, <1>5, <1>6, <1>7, <1>8, <1>9, <1>10, <1>11, <1>12 DEF Change

(* The standby of lesson 31 pauses before the second row, receives it, and *)
(* replays it when it is resumed.                                          *)
LEMMA ReplayPausesKept ==
    ASSUME IInv, RInv, FInv, [Next]_vars
    PROVE  ReplayPauses'
<1> SUFFICES ASSUME Smooth', task'.lesson = 31 PROVE ReplayPauses'
  BY DEF ReplayPauses
<1>1. NoExcuse'
  BY DEF Smooth
<1>2. /\ Smooth /\ ~err /\ task' = task /\ pc \in Nat /\ task.lesson = 31 /\ task.answer = "resume"
      /\ DataTypes /\ HistoryWritten
      /\ Idle \/ (\E op : Advance(op)) \/ Change
      /\ ~ActionBuilds
  BY <1>1, Smoothly DEF Right
<1>3. /\ pc <= 15 => copy.pause = "no"
      /\ pc = 16 => copy.pause # "no"
      /\ pc \in 17..20 => copy.pause = "paused" /\ copy.replayed = 1
      /\ pc > 18 => copy.received = 2
      /\ pc > 20 => copy.pause = "no"
      /\ pc > 21 => copy.replayed = 2
  BY <1>2 DEF FInv, ReplayPauses
<1>4. /\ pc > 17 => Len(wal.history) = 2
      /\ pc > 9 => signal
      /\ copy.received \in Nat /\ copy.replayed \in Nat
  BY <1>2, StandbyLength DEF FInv, StandbyWorks, DataTypes
<1>5. CASE Idle
  BY <1>2, <1>3, <1>5 DEF Idle, ReplayPauses
<1>6. CASE \E op : Advance(op)
  <2>1. PICK op : Advance(op)
    BY <1>6
  <2>2. /\ Working(op) /\ pc' = pc + 1 /\ copy' = copy /\ op \notin {"pause", "action"}
    BY <1>2, <2>1 DEF Advance, Changing
  <2>3. /\ pc # 15 /\ pc # 20
        /\ pc = 16 => op = "await_paused"
        /\ pc = 18 => op = "await_received"
        /\ pc = 21 => op = "await_resumed"
    BY <1>2, <2>2, ReplayPlaces DEF Working
  <2>4. pc = 16 => copy.pause = "paused" /\ copy.replayed = 1
    <3>1. SUFFICES ASSUME pc = 16 PROVE copy.pause = "paused" /\ copy.replayed = 1
      OBVIOUS
    <3>2. Up("copy") /\ copy.pause = "paused"
      BY <2>1, <2>3, <3>1 DEF Advance, Polls, Awaited
    <3>3. copy.replayed >= 1
      BY <1>2, <3>2 DEF FInv, StandbyWorks, Up
    <3>4. Len(wal.history) = 1
      <4>1. Len(wal.history) = WrittenBefore(16)
        BY <1>2, <3>1 DEF HistoryWritten
      <4>2. WrittenBefore(16) = 1
        BY <1>2 DEF WrittenBefore
      <4> QED
        BY <4>1, <4>2
    <3>5. copy.replayed <= 1
      BY <1>2, <3>4 DEF RInv, Streamed
    <3> QED
      BY <1>4, <3>2, <3>3, <3>5
  <2>5. pc = 18 => copy.received = 2
    <3>1. SUFFICES ASSUME pc = 18 PROVE copy.received = 2
      OBVIOUS
    <3>2. copy.received = Len(wal.history)
      BY <2>1, <2>3, <3>1 DEF Advance, Polls, Awaited
    <3> QED
      BY <1>4, <3>1, <3>2
  <2>6. pc = 21 => copy.replayed = 2
    <3>1. SUFFICES ASSUME pc = 21 PROVE copy.replayed = 2
      OBVIOUS
    <3>2. copy.replayed = Len(wal.history)
      BY <2>1, <2>3, <3>1 DEF Advance, Polls, Awaited, CaughtUp
    <3> QED
      BY <1>4, <3>1, <3>2
  <2>7. /\ pc' <= 15 => copy'.pause = "no"
        /\ pc' = 16 => copy'.pause # "no"
        /\ pc' \in 17..20 => copy'.pause = "paused" /\ copy'.replayed = 1
    BY <1>2, <1>3, <2>2, <2>3, <2>4
  <2>8. /\ pc' > 18 => copy'.received = 2
        /\ pc' > 20 => copy'.pause = "no"
        /\ pc' > 21 => copy'.replayed = 2
    BY <1>2, <1>3, <2>2, <2>3, <2>5, <2>6
  <2> QED
    BY <2>7, <2>8 DEF ReplayPauses
<1>7. CASE Commit \/ BackupForStandby
  <2>1. PICK op \in Records \cup {"backup_R"} : Working(op)
    BY <1>7 DEF Commit, BackupForStandby, Run
  <2>2. pc \in {8, 9, 17}
    BY <1>2, <2>1, ReplayAt DEF Records, RestorePoints
  <2>3. pc' = pc + 1 /\ copy' = copy
    BY <1>7 DEF Commit, BackupForStandby, Proceed
  <2> QED
    BY <1>3, <2>2, <2>3 DEF ReplayPauses
<1>8. CASE RequestPause
  <2>1. pc = 15 /\ pc' = 16 /\ copy'.pause = "requested"
    BY <1>2, <1>8, ReplayAt DEF RequestPause, Run, Proceed, DataTypes
  <2> QED
    BY <2>1 DEF ReplayPauses
<1>9. CASE Action
  <2>1. pc = 20 /\ pc' = 21
    BY <1>2, <1>9, ReplayAt DEF Action, Run, Proceed
  <2>2. copy' = [copy EXCEPT !.pause = "no"]
    BY <1>2, <1>9 DEF Action
  <2>3. copy'.pause = "no" /\ copy'.received = copy.received
    BY <1>2, <2>2 DEF DataTypes
  <2> QED
    BY <1>3, <2>1, <2>3 DEF ReplayPauses
<1>10. ~ (Backup \/ SwitchWal \/ CopyArchive \/ Withhold \/ Ask)
  <2>1. ASSUME NEW op \in {"backup", "switch", "cp_archive", "withhold", "ask_primary", "ask_copy"}
        PROVE  ~Working(op)
    BY <1>2, ReplayAt
  <2> QED
    BY <2>1 DEF Backup, SwitchWal, CopyArchive, Withhold, Ask, Run
<1>11. CASE Launch("copy")
  <2>1. pc = 12 /\ pc' = pc
    <3>1. Working("start_copy") \/ Working("start_copy_expecting_failure")
      BY <1>2, <1>11 DEF Launch, Starting
    <3> QED
      BY <1>2, <1>11, <3>1, ReplayAt DEF Launch, labVars
  <2>2. copy'.pause = "no"
    BY <1>2, <1>11 DEF Launch, DataTypes
  <2> QED
    BY <2>1, <2>2 DEF ReplayPauses
<1>12. ~RecoveryFails
  BY <1>2 DEF RecoveryFails, NoStartDue, TornDue, FromArchive
<1>13. CASE ReplayRecord
  <2>1. /\ pc' = pc /\ copy'.pause = copy.pause /\ copy'.received = copy.received /\ copy.pause # "paused"
    BY <1>2, <1>13 DEF ReplayRecord, ReplayDue, ServerStep, labVars, DataTypes, FromArchive
  <2>2. pc <= 21
    <3>1. SUFFICES ASSUME pc > 21 PROVE FALSE
      BY <1>2
    <3>2. copy.replayed < copy.received
      BY <1>2, <1>4, <1>13, <3>1 DEF ReplayRecord, ReplayDue, ReplayLimit, FromArchive
    <3> QED
      BY <1>2, <1>3, <3>1, <3>2
  <2>3. pc \notin 17..20
    BY <1>3, <2>1
  <2> QED
    BY <1>2, <1>3, <2>1, <2>2, <2>3 DEF ReplayPauses
<1>14. CASE Connect \/ Receive
  <2>1. pc' = pc /\ copy'.pause = copy.pause /\ copy'.replayed = copy.replayed
    BY <1>2, <1>14 DEF Connect, Receive, ServerStep, labVars, DataTypes
  <2>2. pc <= 18
    <3>1. SUFFICES ASSUME pc > 18 PROVE FALSE
      BY <1>2
    <3>2. copy.received = 2 /\ Len(wal.history) = 2
      BY <1>2, <1>3, <1>4, <3>1
    <3> QED
      BY <1>14, <3>2 DEF Connect, ConnectDue, Receive, ReceiveDue
  <2> QED
    BY <1>2, <1>3, <2>1, <2>2 DEF ReplayPauses
<1>15. CASE PauseTakesHold
  <2>1. copy.pause = "requested" /\ pc' = pc
    BY <1>15 DEF PauseTakesHold, PauseDue, ServerStep, labVars
  <2>2. pc = 16
    BY <1>2, <1>3, <2>1
  <2>3. copy'.pause = "paused"
    BY <1>2, <1>15 DEF PauseTakesHold, DataTypes
  <2> QED
    BY <2>1, <2>2, <2>3 DEF ReplayPauses
<1>16. CASE Archive
  BY <1>3, <1>16 DEF Archive, ServerStep, labVars, ReplayPauses
<1> QED
  BY <1>2, <1>5, <1>6, <1>7, <1>8, <1>9, <1>10, <1>11, <1>12, <1>13, <1>14, <1>15, <1>16 DEF Change

(* The invariant is one, ...                                               *)
LEMMA FInvKept == IInv /\ RInv /\ FInv /\ [Next]_vars => FInv'
<1> SUFFICES ASSUME IInv, RInv, FInv, [Next]_vars PROVE FInv'
  OBVIOUS
<1>1. ErrorHasExcuse'
  BY NothingFails DEF ErrorHasExcuse
<1>2. CopiedLate' /\ PidFilesAreServers' /\ PrimaryUp' /\ CopyUp' /\ CleanupGoesWell'
  BY CopiedLateKept, PidFilesKept, PrimaryUpKept, CopyUpKept, CleanupKept DEF FInv
<1>3. ArchiveWorks' /\ StandbyWorks' /\ StandbySees' /\ ReplayPauses'
  BY ArchiveWorksKept, StandbyWorksKept, StandbySeesKept, ReplayPausesKept
<1> QED
  BY <1>1, <1>2, <1>3 DEF FInv

(* ... and no error is without a reason.                                   *)
LEMMA FInvIsEnough == FInv => FailureHasCause
  BY DEF FInv, ErrorHasExcuse, NoExcuse, FailureHasCause

(* The wanted answer fails only for a signal, for something outside, or    *)
(* because the archive was copied while its last segment was being         *)
(* written: no order of the lab's own steps, of the servers' recovery and  *)
(* of the archiver makes a start, a check, a deadline or the cleanup fail  *)
(* by itself (lab/recovery/main.go:214 start, :247 poll, :555 cleanup and  *)
(* the lessons' functions).                                                *)
THEOREM FailuresHaveCause == Spec => []FailureHasCause
<1>1. Init => IInv /\ RInv /\ FInv
  BY InitHolds, InitRecovers, InitSmooth
<1>2. IInv /\ RInv /\ FInv /\ [Next]_vars => (IInv /\ RInv /\ FInv)'
  BY NextKeeps, RInvKept, FInvKept
<1>3. FInv => FailureHasCause
  BY FInvIsEnough
<1> QED
  BY <1>1, <1>2, <1>3, PTL DEF Spec
=============================================================================
