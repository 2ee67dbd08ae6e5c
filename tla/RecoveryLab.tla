----------------------------- MODULE RecoveryLab -----------------------------
(***************************************************************************)
(* The recovery lab of the Postgres Essentials course: one run of one of   *)
(* the lessons 27 to 31, the servers it starts below a temporary directory *)
(* of its own, the learner's answer, an interruption, and the cleanup.     *)
(* PostgreSQL (pg_ctl, the archiver, recovery, streaming replication) and  *)
(* the learner's command are external.                                     *)
(***************************************************************************)
EXTENDS Integers, Sequences

CONSTANT Tasks   \* the [lesson, answer] pairs a run may be given

(* run refuses any other lesson.                                           *)
ASSUME TasksAssumption == \A t \in Tasks : t.lesson \in 27..31

VARIABLES
    task, phase, pc, err,      \* run(): the lesson's script and its error
    cancelled, disturbed,      \* SIGINT or SIGTERM; something outside was slow or failed
    tree, dir, signal, pidfile,\* the owned tree, its clusters, standby.signal, postmaster.pid
    srv, launcher,             \* the postmasters; the cluster pg_ctl start is waiting for
    wal, copy, asked,          \* the primary's history; the copy's recovery; answers of lesson 27
    which, look, failed,       \* cleanup(): the cluster and the step it is at
    hidden                     \* servers without a pid file when their status was asked

labVars     == <<phase, pc, err>>
fileVars    == <<tree, dir, signal>>
serverVars  == <<pidfile, srv, launcher>>
dataVars    == <<wal, copy, asked>>
cleanupVars == <<which, look, failed, hidden>>
vars == <<task, labVars, cancelled, disturbed, fileVars, serverVars, dataVars, cleanupVars>>

Clusters == {"copy", "primary"}
NoCluster == "none"

----------------------------------------------------------------------------
(* The scripts: what run and each lesson's function call, in order.        *)

Setup == <<"preflight", "mkdtemp", "mkdirs", "initdb", "config", "start_primary", "identity", "baseline">>

Restore ==
    <<"ask_primary", "backup", "verifybackup", "later", "clone", "config", "start_copy",
      "ask_copy", "ask_primary", "check_copy", "compare_answers">>

(* Mutant: one multi-statement call, whose rows commit after its restore   *)
(* points.                                                                 *)
OneCall == <<"backup", "before_bad", "after_bad", "accepted", "bad", "switch", "await_archived", "cp_archive">>

(* Two inserts and two named restore points, each a transaction of its own *)
ArchiveWork ==
    <<"backup", "accepted", "before_bad", "bad", "after_bad", "switch", "await_archived",
      "cp_archive">>

(* Mutant: the preserved archive is not looked at again.                   *)
HistoryAtFaceValue ==
    ArchiveWork \o
    <<"withhold", "clone", "config", "start_copy_expecting_failure", "look_in_log", "action",
      "compare_segment", "start_copy", "await_paused", "check_copy">>

History ==
    ArchiveWork \o
    <<"withhold", "clone", "config", "start_copy_expecting_failure", "look_in_log", "action",
      "compare_segment", "start_copy", "await_paused", "check_copy", "compare_original">>

Targeted ==
    ArchiveWork \o
    <<"clone", "config", "start_copy", "await_paused", "check_primary", "find_target",
      "check_copy">>

StartStandby == <<"find_signal", "config", "start_copy", "check_recovery", "await_streaming">>

Standby == <<"action">> \o StartStandby \o <<"marker", "await_visible", "check_copy">>

Replay ==
    <<"backup_R">> \o StartStandby \o
    <<"pause", "await_paused", "marker", "await_received", "check_held", "action",
      "await_resumed", "check_resumed">>

Script ==
    Setup \o CASE task.lesson = 27 -> Restore
               [] task.lesson = 28 -> History
               [] task.lesson = 29 -> Targeted
               [] task.lesson = 30 -> Standby
               [] task.lesson = 31 -> Replay

Working(op) == /\ phase = "work"
               /\ pc \in DOMAIN Script
               /\ Script[pc] = op

Polls  == {"await_archived", "await_paused", "await_streaming", "await_visible",
           "await_received", "await_resumed"}
Starts == {"start_primary", "start_copy", "start_copy_expecting_failure"}
(* Steps of the lab's own code; all others are commands, polls or queries  *)
(* and fail at once when the context is cancelled.                         *)
FileSteps == {"mkdtemp", "mkdirs", "config", "look_in_log", "compare_segment", "compare_original",
              "compare_answers", "find_signal", "find_target"}

----------------------------------------------------------------------------
(* What the servers hold.  A row is named after the operation that wrote   *)
(* it; restore points leave no row.                                        *)

RestorePoints == {"before_bad", "after_bad"}
Records == {"baseline", "later", "accepted", "bad", "marker"} \cup RestorePoints

RowsAt(n) == {wal.history[i] : i \in 1..n} \ RestorePoints
Rows(w) == IF w = "primary" THEN RowsAt(Len(wal.history)) ELSE RowsAt(copy.replayed)

(* Lessons 28 and 29 recover from archive-copy, 30 and 31 stream, lesson   *)
(* 27 replays what came with its backup.                                   *)
FromArchive == task.lesson \in {28, 29}
Target == IF task.lesson = 28 THEN "before_bad" ELSE task.answer
ReplayLimit == CASE FromArchive            -> Len(wal.history)
                 [] ~FromArchive /\ signal -> copy.received
                 [] OTHER                  -> wal.base

(* The wanted answer of each lesson and the rows its copy must then show.  *)
Right(n) == CASE n = 27 -> "full" [] n = 28 -> "restore" [] n = 29 -> "before_bad"
              [] n = 30 -> "replica" [] n = 31 -> "resume"
Wanted(n) == CASE n = 27 -> {"baseline"}
               [] n \in {28, 29} -> {"baseline", "accepted"}
               [] n \in {30, 31} -> {"baseline", "marker"}

Up(w) == srv[w] = "ready"

CaughtUp == /\ copy.received = Len(wal.history)
            /\ copy.replayed = Len(wal.history)
            /\ "marker" \in Rows("copy")

(* What a poll waits for.                                                  *)
Awaited(op) ==
    CASE op = "await_archived"  -> wal.archived \in {"partial", "whole"}
      [] op = "await_paused"    -> Up("copy") /\ copy.pause = "paused"
      [] op = "await_streaming" -> Up("copy") /\ copy.received > 0
      [] op = "await_visible"   -> Up("copy") /\ "marker" \in Rows("copy")
      [] op = "await_received"  -> Up("copy") /\ copy.received = Len(wal.history)
      [] op = "await_resumed"   -> Up("copy") /\ copy.pause = "no" /\ CaughtUp

(* What a single look must find; anything else ends the lesson.            *)
Checks == {"check_copy", "check_primary", "check_recovery", "check_held", "check_resumed",
           "look_in_log", "compare_segment", "compare_original", "compare_answers",
           "find_signal", "find_target"}
Holds(op) ==
    CASE op = "check_copy"       -> Rows("copy") = Wanted(task.lesson)
      [] op = "check_primary"    -> Rows("primary") = {"baseline", "accepted", "bad"}
      [] op = "check_recovery"   -> signal
      [] op = "check_held"       -> /\ copy.pause = "paused"
                                    /\ copy.received = Len(wal.history)
                                    /\ copy.replayed < Len(wal.history)
                                    /\ "marker" \notin Rows("copy")
      [] op = "check_resumed"    -> copy.pause = "no" /\ CaughtUp
      [] op = "look_in_log"      -> copy.refused
      [] op = "compare_segment"  -> wal.first = "same"
      [] op = "compare_original" -> wal.original = "same"
      [] op = "compare_answers"  -> asked[1] = asked[2] /\ asked[1] # asked[3]
      [] op = "find_signal"      -> signal
      [] op = "find_target"      -> copy.pause = "paused"

----------------------------------------------------------------------------
Init ==
    /\ task \in Tasks
    /\ phase = "work" /\ pc = 1 /\ err = FALSE
    /\ cancelled = FALSE /\ disturbed = FALSE
    /\ tree = "absent" /\ dir = {} /\ signal = FALSE /\ pidfile = {}
    /\ srv = [w \in Clusters |-> "none"]
    /\ launcher = NoCluster
    /\ wal = [history |-> <<>>, base |-> 0, archived |-> "open",
              first |-> "none", last |-> "none", original |-> "same"]
    /\ copy = [received |-> 0, replayed |-> 0, pause |-> "no", refused |-> FALSE]
    /\ asked = <<>>
    /\ which = "copy" /\ look = "pid" /\ failed = FALSE /\ hidden = {}

Proceed == pc' = pc + 1 /\ UNCHANGED <<phase, err>>

(* return err: the deferred cleanup runs if the tree has been made.        *)
Return(e) == /\ phase' = IF tree = "absent" THEN "exited" ELSE "cleanup"
             /\ err' = e
             /\ UNCHANGED pc

----------------------------------------------------------------------------
(* The steps of a script that succeed.                                     *)

Needs(op) ==
    IF op \in Records \cup {"identity", "backup", "backup_R", "switch", "ask_primary",
                           "check_primary"} THEN {"primary"}
    ELSE IF op \in {"ask_copy", "pause", "check_copy", "check_recovery", "check_held",
                    "check_resumed"} THEN {"copy"}
    ELSE {}

(* The step can be done: the context lives and the server answers.         *)
Run(op) == /\ Working(op)
           /\ cancelled => op \in FileSteps
           /\ \A w \in Needs(op) : Up(w)

Quietly == UNCHANGED <<task, cancelled, disturbed, serverVars, cleanupVars>>

MakeTree == /\ Run("mkdtemp")
            /\ tree' = "there"
            /\ Proceed
            /\ Quietly /\ UNCHANGED <<dir, signal, dataVars>>

(* postgresql.conf, recovery.signal and postgresql.auto.conf: what they    *)
(* make a server do is in Target, ReplayLimit and Archive.                 *)
Configure == /\ \E op \in {"mkdirs", "config"} : Run(op)
             /\ Proceed
             /\ Quietly /\ UNCHANGED <<fileVars, dataVars>>

(* Commands whose result is only looked at.                                *)
Inspect == /\ \E op \in {"preflight", "identity", "verifybackup"} : Run(op)
           /\ Proceed
           /\ Quietly /\ UNCHANGED <<fileVars, dataVars>>

InitCluster == /\ Run("initdb")
               /\ dir' = dir \cup {"primary"}
               /\ Proceed
               /\ Quietly /\ UNCHANGED <<tree, signal, dataVars>>

(* One psql call on the primary, one committed transaction.                *)
Commit == \E r \in Records :
    /\ Run(r)
    /\ wal' = [wal EXCEPT !.history = Append(@, r)]
    /\ Proceed
    /\ Quietly /\ UNCHANGED <<fileVars, copy, asked>>

(* pg_basebackup to backup: what is restored from it starts here.          *)
Backup == /\ Run("backup")
          /\ wal' = [wal EXCEPT !.base = Len(wal.history)]
          /\ Proceed
          /\ Quietly /\ UNCHANGED <<fileVars, copy, asked>>

SwitchWal == /\ Run("switch")
             /\ wal' = [wal EXCEPT !.archived = "full"]
             /\ Proceed
             /\ Quietly /\ UNCHANGED <<fileVars, copy, asked>>

(* cp -a archive archive-copy: the segment with the backup's start is      *)
(* whole, the one with the work is as far as the archiver's cp has come.   *)
CopyArchive == /\ Run("cp_archive")
               /\ wal' = [wal EXCEPT !.first = "same", !.last = wal.archived]
               /\ Proceed
               /\ Quietly /\ UNCHANGED <<fileVars, copy, asked>>

Withhold == /\ Run("withhold")
            /\ wal' = [wal EXCEPT !.first = "missing"]
            /\ Proceed
            /\ Quietly /\ UNCHANGED <<fileVars, copy, asked>>

Clone == /\ Run("clone")
         /\ dir' = dir \cup {"copy"}
         /\ Proceed
         /\ Quietly /\ UNCHANGED <<tree, signal, dataVars>>

(* pg_basebackup -R into copy.                                             *)
BaseBackup == /\ dir' = dir \cup {"copy"}
              /\ signal' = TRUE
              /\ wal' = [wal EXCEPT !.base = Len(wal.history)]

BackupForStandby == /\ Run("backup_R")
                    /\ BaseBackup
                    /\ Proceed
                    /\ Quietly /\ UNCHANGED <<tree, copy, asked>>

(* The learner's query: "coarse" cannot tell one quantity from another.    *)
Ask == \E w \in Clusters :
    /\ Run(IF w = "primary" THEN "ask_primary" ELSE "ask_copy")
    /\ task.answer \in {"full", "coarse"}
    /\ asked' = Append(asked, IF task.answer = "full" THEN Rows(w) ELSE {})
    /\ Proceed
    /\ Quietly /\ UNCHANGED <<fileVars, wal, copy>>

RequestPause == /\ Run("pause")
                /\ copy' = [copy EXCEPT !.pause = "requested"]
                /\ Proceed
                /\ Quietly /\ UNCHANGED <<fileVars, wal, asked>>

Found == \E op \in Checks :
    /\ Run(op)
    /\ Holds(op)
    /\ Proceed
    /\ Quietly /\ UNCHANGED <<fileVars, dataVars>>

NotFound == \E op \in Checks :
    /\ Run(op)
    /\ ~Holds(op)
    /\ Return(TRUE)
    /\ Quietly /\ UNCHANGED <<fileVars, dataVars>>

(* The learner's command, as far as the lab can tell one from another.     *)
Action ==
    /\ Run("action")
    /\ \/ /\ task.answer = "nothing"
          /\ UNCHANGED <<fileVars, wal, copy>>
       \/ /\ task.answer = "restore"                       \* cp "$SAFE/$MISSING" "$ARCHIVE/$MISSING"
          /\ wal' = [wal EXCEPT !.first = "same"]
          /\ UNCHANGED <<fileVars, copy>>
       \/ /\ task.answer = "corrupt"                       \* another file under that name
          /\ wal' = [wal EXCEPT !.first = "other"]
          /\ UNCHANGED <<fileVars, copy>>
       \/ /\ task.answer = "harm"                          \* the repair, and the original changed
          /\ wal' = [wal EXCEPT !.first = "same", !.original = "other"]
          /\ UNCHANGED <<fileVars, copy>>
       \/ /\ task.answer = "replica" /\ Up("primary")
          /\ BaseBackup
          /\ UNCHANGED <<tree, copy>>
       \/ /\ task.answer = "plain" /\ Up("primary")        \* pg_basebackup without -R
          /\ dir' = dir \cup {"copy"}
          /\ UNCHANGED <<tree, signal, wal, copy>>
       \/ /\ task.answer = "resume" /\ Up("copy")
          /\ copy' = [copy EXCEPT !.pause = "no"]
          /\ UNCHANGED <<fileVars, wal>>
    /\ Proceed
    /\ Quietly /\ UNCHANGED asked

(* ... which in lesson 30 may start the standby itself.                    *)
ActionBuilds ==
    /\ Run("action")
    /\ task.answer = "starts" /\ ~signal
    /\ BaseBackup
    /\ Quietly /\ UNCHANGED <<labVars, tree, copy, asked>>

----------------------------------------------------------------------------
(* start: pg_ctl start -w -t 15.  The postmaster is a session of its own,  *)
(* which the signal that ends pg_ctl's process group does not reach.       *)

Starting(w) == \/ w = "primary" /\ Working("start_primary")
               \/ w = "copy" /\ Working("start_copy")
               \/ w = "copy" /\ Working("start_copy_expecting_failure")
               \/ w = "copy" /\ Working("action") /\ task.answer = "starts" /\ signal

(* What a failed command means for the lesson.                             *)
OnError == IF Working("start_copy_expecting_failure") THEN Proceed ELSE Return(TRUE)

Launch(w) ==
    /\ Starting(w) /\ ~cancelled
    /\ launcher = NoCluster /\ srv[w] = "none" /\ w \in dir
    /\ srv' = [srv EXCEPT ![w] = "forked"]
    /\ launcher' = w
    /\ copy' = IF w = "copy" THEN [copy EXCEPT !.received = 0, !.replayed = wal.base, !.pause = "no"]
                ELSE copy
    /\ UNCHANGED <<task, labVars, cancelled, disturbed, fileVars, pidfile, wal, asked, cleanupVars>>

(* Another server runs on that directory.                                  *)
LaunchRefused(w) ==
    /\ Starting(w) /\ ~cancelled
    /\ launcher = NoCluster /\ srv[w] # "none"
    /\ OnError
    /\ Quietly /\ UNCHANGED <<fileVars, dataVars>>

Started(w) ==
    /\ launcher = w /\ Up(w)
    /\ launcher' = NoCluster
    /\ IF Working("start_copy_expecting_failure") THEN Return(TRUE) ELSE Proceed
    /\ UNCHANGED <<task, cancelled, disturbed, fileVars, pidfile, srv, dataVars, cleanupVars>>

(* The server ended, 15 seconds passed, or pg_ctl was killed; in the last  *)
(* two cases the server goes on.                                           *)
StartFailed(w) ==
    /\ launcher = w
    /\ launcher' = NoCluster
    /\ disturbed' = (disturbed \/ (srv[w] # "none" /\ ~cancelled))
    /\ OnError
    /\ UNCHANGED <<task, cancelled, fileVars, pidfile, srv, dataVars, cleanupVars>>

----------------------------------------------------------------------------
(* The steps of a script that wait or fail.                                *)

(* What is under way in the servers and the archiver.                      *)
PidDue(w)   == srv[w] = "forked" /\ tree = "there"
ReadyDue(w) == /\ srv[w] = "starting"
               /\ w = "copy" /\ FromArchive => wal.first = "same"
NoStartDue  == srv["copy"] = "starting" /\ FromArchive /\ wal.first # "same"
TornDue     == /\ srv["copy"] \in {"starting", "ready"} /\ FromArchive
               /\ wal.first = "same" /\ wal.last = "partial"
ReplayDue   == /\ srv["copy"] \in {"starting", "ready"}
               /\ copy.pause # "paused" /\ copy.replayed < ReplayLimit
               /\ FromArchive => wal.first = "same" /\ wal.last = "whole"
ConnectDue  == signal /\ Up("copy") /\ Up("primary") /\ copy.received = 0
ReceiveDue  == Up("copy") /\ Up("primary") /\ copy.received \in 1..(Len(wal.history) - 1)
PauseDue    == srv["copy"] # "none" /\ copy.pause = "requested"
ArchiveDue  == Up("primary") /\ wal.archived \in {"full", "partial"}

Quiet == ~ (\/ \E w \in Clusters : PidDue(w) \/ ReadyDue(w)
            \/ NoStartDue \/ TornDue \/ ReplayDue
            \/ ConnectDue \/ ReceiveDue \/ PauseDue \/ ArchiveDue)

Seen == \E op \in Polls :
    /\ Run(op)
    /\ Awaited(op)
    /\ Proceed
    /\ Quietly /\ UNCHANGED <<fileVars, dataVars>>

(* Mutant: a poll ends with the context only.                              *)
NoDeadline == \E op \in Polls :
    /\ Working(op)
    /\ cancelled
    /\ Return(TRUE)
    /\ UNCHANGED <<task, cancelled, disturbed, fileVars, serverVars, dataVars, cleanupVars>>

(* Eight seconds, or the context's end.  It is the outside that was slow   *)
(* only if it still had something to do.                                   *)
Deadline == \E op \in Polls :
    /\ Working(op)
    /\ cancelled \/ ~Awaited(op)
    /\ disturbed' = (disturbed \/ ~(cancelled \/ Quiet))
    /\ Return(TRUE)
    /\ UNCHANGED <<task, cancelled, fileVars, serverVars, dataVars, cleanupVars>>

(* What a command that is cut short may have made.                         *)
Makes(op) == IF op = "initdb" THEN {"primary"}
             ELSE IF op \in {"clone", "backup_R", "action"} THEN {"copy"}
             ELSE {}

(* Failures that need no bad luck.                                         *)
Foreseen(op) == \/ cancelled /\ op \notin FileSteps
                \/ task.answer = "hang" /\ op \in {"action", "ask_primary"}
                \/ \E w \in Needs(op) : ~Up(w)

(* A command fails, is killed with its group after 25 seconds or by the    *)
(* cancelled context, or finds no server; a file cannot be read or written.*)
StepFails ==
    /\ launcher = NoCluster
    /\ \E i \in DOMAIN Script : LET op == Script[i] IN
          /\ i = pc /\ Working(op) /\ op \notin Polls
          /\ \/ dir' = dir
             \/ dir' = dir \cup Makes(op)
          /\ \/ pidfile' = pidfile
             \/ op = "initdb" /\ pidfile' = pidfile \cup {"primary"}
          /\ disturbed' = (disturbed \/ ~Foreseen(op))
    /\ OnError
    /\ UNCHANGED <<task, cancelled, tree, signal, srv, launcher, dataVars, cleanupVars>>

Finish == /\ phase = "work" /\ pc \notin DOMAIN Script
          /\ Return(FALSE)
          /\ Quietly /\ UNCHANGED <<fileVars, dataVars>>

(* SIGINT or SIGTERM.  cleanup puts a context of its own in the place of   *)
(* the cancelled one, so a later signal changes nothing.                   *)
Cancel == /\ phase = "work" /\ ~cancelled
          /\ cancelled' = TRUE
          /\ UNCHANGED <<task, labVars, disturbed, fileVars, serverVars, dataVars, cleanupVars>>

----------------------------------------------------------------------------
(* PostgreSQL.                                                             *)

ServerStep == UNCHANGED <<task, labVars, cancelled, fileVars, launcher, asked, cleanupVars>>

WritePidFile(w) == /\ PidDue(w)
                   /\ srv' = [srv EXCEPT ![w] = "starting"]
                   /\ pidfile' = pidfile \cup {w}
                   /\ ServerStep /\ UNCHANGED <<disturbed, wal, copy>>

BecomeReady(w) == /\ ReadyDue(w)
                  /\ srv' = [srv EXCEPT ![w] = "ready"]
                  /\ ServerStep /\ UNCHANGED <<disturbed, pidfile, wal, copy>>

(* Recovery finds no checkpoint record, or a segment of the wrong size.    *)
RecoveryFails == /\ NoStartDue \/ TornDue
                 /\ srv' = [srv EXCEPT !["copy"] = "none"]
                 /\ pidfile' = pidfile \ {"copy"}
                 /\ copy' = [copy EXCEPT !.refused = (wal.first = "missing")]
                 /\ ServerStep /\ UNCHANGED <<disturbed, wal>>

(* A server fails by itself; a crash leaves its pid file.                  *)
ServerFails(w) == /\ srv[w] # "none"
                  /\ srv' = [srv EXCEPT ![w] = "none"]
                  /\ pidfile' \in {pidfile, pidfile \ {w}}
                  /\ disturbed' = TRUE
                  /\ ServerStep /\ UNCHANGED <<wal, copy>>

(* A server that is asked to pause stops before its next record; a restore *)
(* point with recovery_target_action=pause stops it behind that record.    *)
ReplayRecord == /\ ReplayDue
                /\ LET record  == wal.history[copy.replayed + 1]
                       reached == FromArchive /\ record \in RestorePoints /\ record = Target
                   IN copy' = [copy EXCEPT !.replayed = @ + 1,
                                           !.pause = IF reached THEN "paused" ELSE @]
                /\ ServerStep /\ UNCHANGED <<disturbed, pidfile, srv, wal>>

Connect == /\ ConnectDue
           /\ copy' = [copy EXCEPT !.received = wal.base]
           /\ ServerStep /\ UNCHANGED <<disturbed, pidfile, srv, wal>>

Receive == /\ ReceiveDue
           /\ copy' = [copy EXCEPT !.received = @ + 1]
           /\ ServerStep /\ UNCHANGED <<disturbed, pidfile, srv, wal>>

PauseTakesHold == /\ PauseDue
                  /\ copy' = [copy EXCEPT !.pause = "paused"]
                  /\ ServerStep /\ UNCHANGED <<disturbed, pidfile, srv, wal>>

(* test ! -f X && cp %p X: the name is there before the bytes are.         *)
Archive == /\ ArchiveDue
           /\ wal' = [wal EXCEPT !.archived = IF @ = "full" THEN "partial" ELSE "whole"]
           /\ ServerStep /\ UNCHANGED <<disturbed, pidfile, srv, copy>>

----------------------------------------------------------------------------
(* cleanup(): first the copy, then the primary, then the tree.             *)

CleanupStep == UNCHANGED <<task, cancelled, dir, signal, launcher, dataVars>>

NextCluster == IF which = "copy" THEN "primary" ELSE NoCluster

LookForPidFile == /\ phase = "cleanup" /\ which # NoCluster /\ look = "pid"
                  /\ look' = IF which \in pidfile THEN "stop" ELSE "status"
                  /\ CleanupStep
                  /\ UNCHANGED <<labVars, disturbed, tree, pidfile, srv, which, failed, hidden>>

(* pg_ctl stop -m fast -w -t 15 ends a server the pid file names.          *)
Stop == /\ phase = "cleanup" /\ look = "stop"
        /\ srv[which] \in {"starting", "ready"}
        /\ srv' = [srv EXCEPT ![which] = "none"]
        /\ pidfile' = pidfile \ {which}
        /\ look' = "status"
        /\ CleanupStep /\ UNCHANGED <<labVars, disturbed, tree, which, failed, hidden>>

(* ... and fails when the file is stale or the server does not end in time.*)
StopFails == /\ phase = "cleanup" /\ look = "stop"
             /\ failed' = TRUE
             /\ disturbed' = (disturbed \/ srv[which] \in {"starting", "ready"})
             /\ look' = "status"
             /\ CleanupStep /\ UNCHANGED <<labVars, tree, pidfile, srv, which, hidden>>

(* pg_ctl status, if there is a PG_VERSION: anything but "no server        *)
(* running" is a failure.  A server without a pid file is not seen.        *)
Status == /\ phase = "cleanup" /\ which # NoCluster /\ look = "status"
          /\ LET seen == which \in dir /\ which \in pidfile /\ srv[which] \in {"starting", "ready"}
             IN /\ failed' = (failed \/ seen)
                /\ hidden' = IF srv[which] # "none" /\ ~seen THEN hidden \cup {which} ELSE hidden
          /\ which' = NextCluster /\ look' = "pid"
          /\ CleanupStep /\ UNCHANGED <<labVars, disturbed, tree, pidfile, srv>>

StatusFails == /\ phase = "cleanup" /\ look = "status" /\ which \in dir
               /\ failed' = TRUE
               /\ disturbed' = TRUE
               /\ which' = NextCluster /\ look' = "pid"
               /\ CleanupStep /\ UNCHANGED <<labVars, tree, pidfile, srv, hidden>>

(* Mutants: the failures are only printed; the tree goes all the same.     *)
RetainSilently == /\ phase = "cleanup" /\ which = NoCluster /\ failed
                  /\ phase' = "exited"
                  /\ CleanupStep
                  /\ UNCHANGED <<pc, err, disturbed, tree, pidfile, srv, which, look, failed, hidden>>
RemoveAnyway == /\ phase = "cleanup" /\ which = NoCluster
                /\ tree' = "gone"
                /\ phase' = "exited"
                /\ CleanupStep
                /\ UNCHANGED <<pc, err, disturbed, pidfile, srv, which, look, failed, hidden>>

Retain == /\ phase = "cleanup" /\ which = NoCluster /\ failed
          /\ phase' = "exited" /\ err' = TRUE
          /\ CleanupStep
          /\ UNCHANGED <<pc, disturbed, tree, pidfile, srv, which, look, failed, hidden>>

Remove == /\ phase = "cleanup" /\ which = NoCluster /\ ~failed
          /\ tree' = "gone"
          /\ phase' = "exited"
          /\ CleanupStep
          /\ UNCHANGED <<pc, err, disturbed, pidfile, srv, which, look, failed, hidden>>

(* WalkDir meets a file that vanishes, or RemoveAll one that comes anew.   *)
RemoveFails == /\ phase = "cleanup" /\ which = NoCluster /\ ~failed
               /\ tree' \in {"there", "gone"}
               /\ phase' = "exited" /\ err' = TRUE
               /\ disturbed' = TRUE
               /\ CleanupStep /\ UNCHANGED <<pc, pidfile, srv, which, look, failed, hidden>>

Exited == phase = "exited" /\ UNCHANGED vars

----------------------------------------------------------------------------
Script1 == MakeTree \/ Configure \/ Inspect \/ InitCluster \/ Commit \/ Backup \/ SwitchWal
             \/ CopyArchive \/ Withhold \/ Clone \/ BackupForStandby \/ Ask \/ RequestPause
             \/ Found \/ NotFound \/ Action \/ ActionBuilds
Script2 == \/ \E w \in Clusters : Launch(w) \/ LaunchRefused(w) \/ Started(w) \/ StartFailed(w)
           \/ Seen \/ Deadline \/ StepFails \/ Finish
Cleanup == LookForPidFile \/ Stop \/ StopFails \/ Status \/ StatusFails
             \/ Retain \/ Remove \/ RemoveFails
Lab == Script1 \/ Script2 \/ Cleanup

Servers == \/ \E w \in Clusters : WritePidFile(w) \/ BecomeReady(w) \/ ServerFails(w)
           \/ RecoveryFails \/ ReplayRecord \/ Connect \/ Receive \/ PauseTakesHold \/ Archive

Next == Lab \/ Cancel \/ Servers \/ Exited

Spec == Init /\ [][Next]_vars

(* The lab goes on by itself; nothing is asked of the servers.             *)
FairSpec == Spec /\ WF_vars(Lab)

----------------------------------------------------------------------------
TypeOK ==
    /\ task \in Tasks
    /\ phase \in {"work", "cleanup", "exited"} /\ pc \in Nat \ {0} /\ err \in BOOLEAN
    /\ cancelled \in BOOLEAN /\ disturbed \in BOOLEAN
    /\ tree \in {"absent", "there", "gone"} /\ dir \subseteq Clusters /\ signal \in BOOLEAN
    /\ pidfile \subseteq Clusters
    /\ srv \in [Clusters -> {"none", "forked", "starting", "ready"}]
    /\ launcher \in Clusters \cup {NoCluster}
    /\ which \in Clusters \cup {NoCluster} /\ look \in {"pid", "stop", "status"}
    /\ failed \in BOOLEAN /\ hidden \subseteq Clusters

(* main.go:557 "never delete files beneath a live server".  The one server *)
(* that can lose its tree had not yet written its pid file when the status *)
(* was asked, and was left behind by a pg_ctl that was cut short.          *)
NeverBeneathServer ==
    tree = "gone" =>
        \A w \in Clusters : srv[w] # "none" => w \in hidden /\ (cancelled \/ disturbed)

(* A run that reports success has left nothing behind, and one that keeps  *)
(* the tree says so.                                                       *)
CleanExit ==
    phase = "exited" /\ ~err => tree = "gone" /\ \A w \in Clusters : srv[w] = "none"

(* Only the wanted answer passes, and only when the copy then shows the    *)
(* wanted rows and the preserved archive is as it was.  A standby that the *)
(* learner also started passes if it had ended by the time the lab starts  *)
(* it.                                                                     *)
PassMeansRecovered ==
    phase = "exited" /\ ~err =>
        /\ task.answer \in {Right(task.lesson), "starts"}
        /\ Rows("copy") = Wanted(task.lesson)
        /\ wal.original = "same"

(* The wanted answer fails only for a signal, for something outside, or    *)
(* because the archive was copied while its last segment was being         *)
(* written: the order of the lab's own steps never fails it.               *)
FailureHasCause ==
    phase = "exited" /\ err =>
        \/ task.answer # Right(task.lesson)
        \/ cancelled \/ disturbed
        \/ wal.last = "partial"

(* Every wait of the lab has an end, whatever servers and learner do.      *)
Ends == <>(phase = "exited")
============================================================================
