# skills-tools, modelled in TLA+

This directory models the parts of the repository that keep state and can get it
wrong: the shared learner database, the roadmap database, the object-store
replication of the Cursor Git project, the recovery lab with its PostgreSQL
servers, the links of `tutor install`, and the validation harness. Every
definition is a reading of the Go, shell or Python source; `PROJECT.json` maps
it to the lines it stands for.

## 1. The system

`tutor` is a Go command-line program without a server. Several invocations may
run at once (a learner's shell, an agent recording a lesson, a `git` hook), and
they meet in files: one SQLite database, a JSON snapshot, symlinks and course
directories. The `cursor` lab program meets other copies of itself in an object
store and in bare Git repositories; the recovery lab starts database servers and
must be rid of them again. Everything hard in the repository happens between such
processes, or between two steps of one that dies.

| component | state it keeps | operations | what is hard | what makes it correct |
|---|---|---|---|---|
| learner store (`internal/progress`, course verbs of `internal/cli`) | `tutor.sqlite`: lessons, prerequisites, progress, attempts | done, skip, undone, note; next, list, status; `init` (refresh); `progress consolidate` | a verb resolves its lesson outside the transaction that writes; a refresh renumbers lessons under UNIQUE constraints; ids are shared by all courses | history and credit stay with the slug they were earned for; no constraint fails half way; the read verbs agree |
| progress verification (`cli/progress_verify.go`) | a byte copy of the database | `progress verify` | reads the file without a lock while others write | the copy is one committed state |
| roadmap store (`internal/roadmap`) | tables in the same `tutor.sqlite`; `roadmap.json` | import, export, set, edit, add, move, remove, follow-up add/choose/remove | dense unique positions while they are resequenced; export and freshness note are separate steps | numbering dense; a command changes only what it names; a stale snapshot reported, a fresh one not |
| Cursor Git (`archive/systemscoach/projects/cursor-git/lab`) | `index.json` with an ETag, immutable records and packs; per replica a bare repository, an applied marker, a lock file | publish, replay, wake, read | competing publishers, lost replies, crashes between a ref update and the marker | one history, each operation once; replicas are prefixes of it; reads are fresh |
| lesson-validation harness (`internal/harness`) | a process per session, two pipes, the buffer and waiters of the current step | Send, Close, Validate | output, exit markers, time limits and dying processes race | a pass means every step ran; a failure has a cause; validation ends unless a left-over process holds the pipes |
| skill links (`internal/links`, `cli/top.go`) | symlinks in the agent directories | `tutor install [--check]`: Plan, Apply | the plan is stale when it is applied; a run dies between a rename and its link | nothing a person made is lost unseen; the links are in place in the end |
| file publication (`internal/fsutil`), scaffolding (`internal/scaffold`) | files and course directories | PublishOnce, CopySQLite; Course | crash between two file operations, two publishers | all or nothing |
| course loading (`internal/course`), routes (`internal/route`) | none; read only | LoadLessons, Validate; ReadPlan, LoadRoute | several sources merged into one view | pure functions |
| recovery lab (`courses/postgres-essentials/lab/recovery`) | two PostgreSQL clusters, a WAL archive | restore, history, targeted, standby, cleanup | process ownership, polls with a deadline, a signal at any step | cleanup deletes nothing beneath a live server; only a real recovery passes; every run ends |
| retry and crash labs (`courses/postgres-essentials/lab/*.py`) | one table each | retry after a serialization failure, a deliberate repeat after an unknown outcome | a commit whose answer was lost | only a serialization failure is tried again, as a whole |
| rendering, command tree, test support, setup scripts | none | | nothing concurrent | |
| course content, archived guides, validation transcripts | none | read by people | not a program's state | |

The commands of the learner store and of the roadmap store use the same database
file (`progress.DefaultPath`) but disjoint tables. They share only the
`schema_migrations` table, SQLite's write lock and the file itself, so they are
modelled apart; `DatabaseFiles` models the file for both. `PROJECT.json` lists
every component with its status and every hazard at the line where it bites.

## 2. Learner store

### Modules

* `LessonRows` - a table is a function from the ids in use to rows, a catalog a
  sequence of authored lessons. `Seeded` and `SeededPrereqs` say what one
  committed `progress.Seed` makes of the tables; `Adopt` what the copy loop of
  `consolidateOne` does.
* `CourseViews` - `next`, `list --todo`, `list --done` and `status`, each from
  its own SQL.
* `LearnerStore` - the processes. `Resolve` is `Get` (`ops.go`): it reads the
  active lesson at an ordinal, outside any transaction. `RecordStatus`, `Undo`
  and `SaveNote` are the transactions of `setStatus`, `Undone` and `Note`.
  `Refresh` is `tutor <course> init`, `ConsolidateCourse` the transaction of
  `consolidateOne`, `GiveUp` a crash, a busy timeout or a refused foreign key.
  What runs inside one `BEGIN IMMEDIATE` transaction is one step.
* `CourseRefresh` - the promise of a refresh: the two tables change in one step.
* `SeedTransaction` - `Seed` statement by statement, with a crash or an error
  after any of them; it implements `CourseRefresh`.
* `LessonRowsTheorems`, `LearnerStoreTheorems`, `SeedTransactionTheorems` - proofs.

`earned` is a history variable: the course, slug and revision each completion
was resolved for. A slug is the identity of a lesson, so a completion may sit
only on a row that carries the slug it was earned for.

### Runs

* `learner_race` (206,000 states): two processes between `Get` and their writes,
  two courses, notes. The catalogs take a lesson out and back in, move and revise
  another and insert a third, which is the least with which a resolved row can
  be renumbered, retired and revised before it is written.
* `learner_replace` (41,000 states): one verb beside refreshes among three
  catalogs and consolidations, with and without `--replace`. The one legacy
  database has a retired lesson and ids that do not follow its ordinals, so its
  ids collide with the shared ones in every way two ids can.
* `seed_transaction` (18,000 states): every interleaving point of a refresh of
  four lessons. The parking order is left open, as SQLite's `UPDATE` leaves it.

`MaxAttempts` stops verbs once that many attempts are recorded and
`MaxReplacements` bounds `--replace`; both counters grow without end otherwise.
One attempt suffices for the race: the hazard is one write by a stale id. The
learner store assumes no fairness: every verb ends or dies, and nothing has to
happen for the store to be right.

### Proofs

`TablesSound`, the conjunction of `TypeOK` and `ConstraintsHold`, is inductive
for all courses, catalogs, legacy databases and numbers of processes. Uniqueness
of ids after a refresh is arithmetic on `Rank`, the number of members of a
finite set up to an element: it grows strictly along the set, so new ids and
parked ordinals are distinct and lie past the ones in use (`RankGrows`,
`RankInjective`, `IdAtInjective`, `SeededUnique`). The copy of a consolidation
rests on the same lemmas (`NewIdInjective`, `AdoptTable`).

`IdentityStable`, `HeldRowsAlwaysKeepIdentity` and `CreditStays` assume
`~AllowReplace`: an id then never names another slug, so the row a process holds
in memory still is the lesson it resolved, and credit stays where it was earned.
With `--replace` the last two do not hold, see Findings.

* `DoneAlwaysHasAttempt` is inductive beside `TablesSound`: a completion and its
  attempt are written together, `undone` and the cascades take them together, and
  a consolidation copies both under the same new id.
* `CoursesStayWellFormed` rests on `SeededDense`: the upserted lessons have the
  ordinals of the catalog, the i-th retired one, in the order of ids, follows at
  `Len(catalog) + i`, so a refreshed course is numbered `1 .. n`. A refresh writes
  all prerequisites of its course anew, from a catalog in which they come earlier.
* `ViewsAlwaysAgree` needs `TablesSound` only: `next` is the one lesson of least
  ordinal among those `list --todo` shows, because ordinals are unique.
* `NotesAreNeverErased` (`~AllowReplace`) needs to know that the `note` a process
  holds is not empty (`HeldNotesGiven`): that is looked at before `Get`.
* `HistoryStaysWithSlug` (`~AllowReplace`): only a refresh or a consolidation
  changes the lessons; the first leaves progress and attempts alone and keeps the
  id of a slug, the second adds rows of a course that had none.

`SeedTransactionTheorems` is about the statements of a refresh. The invariant says
what the open transaction sees in terms of the committed tables, which nobody
else can change meanwhile: the ids given out are those of `Seeded` (`IdsOK`), each
loop has done a first part of its work (`TodoOK`), and every row is what it was,
parked, upserted or settled accordingly (`RowsOK`, `EdgesOK`). `StatementsAlwaysAccepted`
follows because the rows lie in ranges of ordinals that do not meet: the catalog's
in `1 .. Len(catalog)`, the parked ones past `offset`, which is past everything in
use; and a row the last loop settles, at `Len(catalog) + Rank(i)`, lies before every
row still waiting, since `Rank(i) <= i`. `SeedImplementsRefresh`: when the last loop is
done the view is exactly `Seeded`, so the commit is the one step of `CourseRefresh`,
and every other statement, a crash included, is a stutter.

The assumption behind all of them is `LearnerAssumption` (`SeedAssumption` for a
refresh alone): what an author releases is a catalog as `Validate` accepts it, and
a legacy database, written by the same verbs, satisfies the constraints of its
schema, is numbered like any refreshed course and has an attempt for each
completion.

## 3. The files under it

`DatabaseFiles` models the shared database as a main file of pages and a `-wal`
file, and a course's legacy database as two files that are in the courses or in
the backup directory. A transaction puts its frames into the `-wal` first
(`WriteFrames`) and the mark that commits them last (`Commit`); one that is rolled
back or killed before leaves them there, so a `-wal` that is not empty may hold
nothing committed. A checkpoint writes what is committed to the main file one page
at a time, the last to close finishes the checkpoint and deletes the `-wal`. A page
is the number of the commit that wrote it, which is all the properties ask of its
bytes. SQLite and the program that
still writes the legacy database are external. The file's modification time
comes from a coarse clock: a write may leave it as it was.

`BeginVerify`, `Stat`, `ReadPage`, `EndRound` and `BeginRound` are
`runProgressVerify`: round 0 is the first reading of `readStableVerifySource`,
rounds 1 to 3 are the three calls of `verifySourceUnchanged`. `Look` to `MoveWal`
are `Consolidate`, with the transaction (`ReadSource`, `CommitCopy`) that
`LearnerStore` has as one step and the moves of `moveTrio`; `ConsolidateFails` is
any error return and being killed.

One thing is assumed and not enforced by the code: nobody opens the legacy
database between the consolidation's look for holders in `/proc` and the end of
its move (`WriterOpens`). The program asks the learner to close the writer.

`database_files` (1.9 million states): a process that runs verbs, a
consolidation and a verification; two pages, so that a checkpoint can be cut in
half; two transactions that write (`MaxWrites`), so that a third image can replace
the one being read, or an uncommitted one can follow a commit; two recorded attempts, so that a `-wal` can hold what the main file lacks.

`DatabaseFilesTheorems` proves the three properties for every number of pages,
processes, transactions and attempts.

* `CopyAlwaysCommitted`: `CopyIsCommitted` alone is not inductive, because
  nothing relates a half-read copy to an image. `CopySound` does. A page's
  commit number only grows; when `verifySourceUnchanged` finds no sidecar file
  the main file is some committed image; what was read before that moment is not
  newer, what is read afterwards not older; readings that agree agree with the
  image in between (`Between`).
* `RefusalAlwaysMeansWrite` needs `Undisturbed`: while nobody writes into the `-wal`
  it does not become non-empty, and every later reading finds the stamp and the
  pages of the first. It speaks of writes, not of commits: `rejectVerifySidecars`
  looks at the size of the `-wal` only.
* `HistoryAlwaysKept` needs `MoveSound`: nobody writes during the consolidation,
  the main file leaves the courses only when all of it has been copied.

## 4. Cursor Git

* `RefHistory` - records, ref maps and what a history of records means for the
  refs (`advanceRefs`, the preconditions of a record).
* `PublishedLog` - the promise: one history that grows record by record, each
  operation once and on the refs it was prepared for; a replica's refs are those
  of a prefix, unless Git was interrupted inside one ref transaction (`Tear`).
* `CursorGit` - the client. `FetchIndex`, `Put` and `PutRefused` are a round of
  `publish`; `heard` is whether its answer arrives (`--lose-reply`). `AcquireLock`
  is `withLock`, `EnsureRepo` and `GitInit` are `ensureRepo`, `Observe` and
  `UseCached` `fetchIndex` and `read`'s 304 path, `CheckState` the look at the
  marker and the refs, `ImportPack`, `UpdateRefs` and `SaveMarker` the loop,
  `FinishReplay` and `Serve` the end. `Reject` are the error returns for a state
  the client will not touch, `Fail` the others, `Kill` the process killed with
  its lock file left behind, `Evict` the learner removing a replica.

The store's ETag is the content of the index, which never occurs twice because
entries are only appended. Object bytes, checksums and HTTP bodies are
abstracted to the success or failure of the step that checks them.

* `cursor_publish` (14,000 states): two publishers and five records. One record
  reuses another's operation id, one depends on another, one conflicts; with
  two attempts per publish every way of losing a race occurs.
* `cursor_replica` (73,000 states): two workers replay and read one replica while
  a publisher adds a record. Two faults, so that the second can hit the recovery
  from the first.

Fairness (`FairSpec`): a started replay or read runs on (weak fairness of
`Proceed`), and replays and reads of each replica keep being started (strong
fairness of `Start`, because a worker that is busy cannot start). Lessons and
`wake` run them again and again; nothing is assumed of publishers, of faults or
of the give-up on a held lock. Under it every replica converges to the published
refs, but for four states no replay leaves: a directory that `git init` never
reached (`ensureRepo` takes any directory for a repository), the refs of a torn
transaction, the `.lock` file of a ref that a killed `git update-ref` left behind
(`refLocks`; `CommandContext` kills it at its deadline, before or after it has moved
refs), and the lock file of a killed process. `Wedged` names them.

### Proofs

`CursorGitTheorems` proves the six safety properties and the refinement for any
records, refs, publishers, workers, replicas and any number of attempts and
faults. Its invariant has one part per piece of state.

* `LogOK`: the index replays from nothing, has each operation once and lists only
  what was uploaded. A put keeps it because the ETag makes sure that the index
  the record was checked against is the index it is appended to.
* `PublisherOK`: a publisher between its fetch and its put holds an index that was
  published, against which its record was checked, and every attempt it lost was
  won by an entry of someone else: the history is at least `from + tries` long.
  `PublicationIsFinal`, `RetriesAreIdempotent` and `LosersLostToOthers` follow, because
  the history only grows (`Past`).
* `ReplicaOK`: the marker is a prefix of the history with its refs, and the refs in
  Git are those of the marker, or each is where the marker or the next record
  puts it. This holds whoever was killed where, and after an eviction.
* `WorkerOK`, `HolderOK`: a command works towards an index no older than itself; the
  one that holds the lock knows how marker and refs relate at each step of its
  loop. Nobody else writes to the replica meanwhile: a command past its lock is
  the one whose name the lock bears.

`Refinement` maps the index to the history of `PublishedLog` and each replica to its
refs: a put that succeeds is an append, `UpdateRefs` installs the next
record, `TornUpdate` tears, `Evict` evicts, and everything else is a stutter.

The assumptions are `RecordAssumption` (a record moves refs between object ids, none
of them the zero id) and `CursorAssumption` (the first record fits an empty
repository, there is at least one attempt, `NoIndex` is no index, and the two states
of a lock without an owner are no workers).

## 5. Roadmap

* `Outline` - what a tutor sees: per track an ordered list of topics with ordered
  follow-ups, without ids or numbers; what each command does to the one entry it
  names.
* `RoadmapTables` - the two tables and one operator per command, since each command
  is one immediate transaction. `AfterUpdates` is the table after the first `k`
  UPDATEs of `resequence`.
* `RoadmapCommands` - a session of commands on the tables. `command` remembers the
  command line of the last step, so that the refinement compares each step with
  the outline's command of that name and with the same arguments.
* `RoadmapExport` - processes around `roadmap.json`. A mutation takes the write
  lock and stamps `changed_at` (`MarkChanged`), commits later (`Change`) and ends
  with the two queries of `StaleExportNote` and the look at the file; an export
  lists the topics, reads follow-ups topic by topic, takes its stamp, renames the
  file, sets its time and records `exported_at`; each may be killed in between.

One text field stands for a topic's texts and status. The schema exists. The
clock advances at every reading, so no two stamps are equal; the mtime a rename
gives is that of the last reading or lags a tick behind it.

* `roadmap_tables` (42,000 states up to renaming slugs, texts and titles): all
  tables that commands can make of three topics in two tracks with two texts and
  two follow-ups of two titles; three is the least with which a renumbering meets
  a row on either side, and with two texts and titles an edit of the wrong entry
  shows. `MaxTopicId`, `MaxFollowupId` and `MaxFollowups` bound ids and lists; ids
  of removed rows are taken again. The files to import list three topics whose
  tracks interleave. States that differ in `command` alone are explored once
  (`VIEW`), but every command that leads to them is compared.
* `roadmap_export` (1.8 million states): three processes whose commands, imports and
  exports of one topic interleave at every step and may be killed, `MaxTime` 4, so
  three stamps: two exports around a change, with a third command to look on.
* `roadmap_note` has no kills; it finds a disagreement with a comment, see Findings.

The note of a mutating command is right wherever processes interleave, but for two
cases that `crossed` remembers: a change committed after an export began to read and
stamped before the export was (while it reads, or between the change's own stamp and
its commit), and two exports at a time (then the file may be one export's and
`exported_at` the other's). `NoteUnlessCrossed` says that these are all. The content
of an export that a commit meets may be a mixture of two states; nothing checks it
(see Findings). `FreshIsQuiet` is the reason `Export` gives for `Chtimes`: after an
export that nothing met, nobody is told that the file is out of date before the next
commit, although later exports may have been killed at any step. A later export
to another file (`--file`) ends it: it moves `exported_at` past the time of
`roadmap.json`, which then looks stale (see Findings).

No fairness: nothing has to happen.

## 6. Lesson-validation harness

`Harness` models `Validate` for one lesson: the main goroutine (`Main`), two pump
goroutines per session (`Pump`, with `consume` in `Deliver`), and the processes
themselves, of which nothing is assumed (`Process`). A pipe holds pieces: a
step's marker, the digits of its status, noise; a read may end between any two.
The buffer and the waiters change under the session's mutex, so `Deliver` is one
step; `Register` precedes `WriteStep` as in `Send`.

`Init` chooses the lesson's `run-in`, the mode of the course's REPL and whether there
is a fallback (`ReplFor`). A shell lesson in another course without one is skipped:
it is over before it begins, and `Summary` counts it with the completed lessons
(`TestToolModeCoursesSkipShellLessonsUnlessAFallbackIsGiven`). `PassMeansRan` speaks of
lessons that are run.

`harness` (252,000 states): three steps in two sessions, one of them blocking,
in shell and in tool mode or skipped, statuses `0` and the two-digit `12`, one line
of noise per session, a process that a step left in the background.

Fairness is weak fairness of `Main` (the goroutine is scheduled and its timers
fire) and of each pump. Nothing is assumed of REPLs, steps and what they leave
behind: all may hang for ever. `Kill` ends the REPL alone, and the command it was
running may live on (`Gone`). `Close` then waits until the pipes are closed, without
a limit; that wait is the one exception in `Terminates` (`Outlived`).

A two-digit status cut by a read is taken for its first digit. That never turns a
failure into a pass, since no non-zero status starts with a zero, so the run
does not tell it apart. Setting up a session, environments, splitting lessons
into steps, a write of a step that blocks because the pipe is full, and log lines are
left out.

`HarnessTheorems` proves `PassesRan`, `FailuresHaveCauses` and the types for any
lessons, sessions, noise and statuses that `printf %s "$?"` can print
(`StatusesAssumption`: decimal, without leading zeros). A skipped lesson has no next
step (`Skipped`); of the others the invariant says:

* `StreamOK` is about the session's buffer followed by what is still in the pipe,
  so that a read moves the border and changes nothing: a marker there is one of a
  step that has run, and the digits right behind it begin that step's status.
  A read or noise can only cut digits off. The first digit settles whether a
  status is zero, so what `consume` takes agrees with the real one (`DoneOK`).
* `QueueOK`: what a process has been sent and not run are later steps of its session
  in the order they were sent, so a step runs at most once.
* `PassOK`: as long as nothing has failed, a step that the main goroutine has left
  behind (`Settled`) has run well, or its session is still to be closed and either
  waits for it or is marked as failed (`Owed`). At the end no session is left.
* `CauseOK`: whatever sets a failure has recorded a cause.

## 7. Recovery lab

`RecoveryLab` models one run of `main.go`: `run`, the function of each of the
lessons 27 to 31, `poll`, `start`, the learner's action, and `cleanup`.

* A lesson is a `Script`, the sequence of the calls its function makes; `pc` is the
  place in it, `err` what `run` will return. Each kind of call is an action
  (`Commit`, `Backup`, `CopyArchive`, `Withhold`, `Clone`, `Launch`, `Started`, ...),
  a look at a result is `Found` or `NotFound`, a poll is `Seen` or `Deadline`.
* `cancelled` is the context that SIGINT or SIGTERM cancels. From then on every
  command, query and poll fails; steps that only touch files do not look
  (`FileSteps`).
* `LookForPidFile`, `Stop`, `StopFails`, `Status`, `StatusFails`, `Retain` and `Remove`
  are `cleanup`, which has a context of its own and goes through the copy and the
  primary.
* PostgreSQL is external: `WritePidFile`, `BecomeReady`, `ServerFails`, `Archive`,
  `ReplayRecord`, `RecoveryFails`, `Connect`, `Receive`, `PauseTakesHold`. A
  postmaster is forked, then writes `postmaster.pid`, then is ready; `pg_ctl start`
  waits meanwhile. A failure or slowness that comes from outside sets `disturbed`,
  so that a property can tell the lab's own failures from the others.

A WAL history is the sequence of rows and restore points; the copy is how far it
has replayed it. A signal's number, wording of transcripts and timing are left out.

`recovery` (72,000 states): every lesson with every answer that the lab can tell
from another: the wanted one, a weaker one, none, one that corrupts the segment,
starts the server itself, harms the preserved archive, or hangs. No counter needs
a bound: a script has an end and each server starts at most once or twice.

The only fairness is weak fairness of `Lab`: the program runs on, its polls and
commands have deadlines or are killed. Servers and the learner may do nothing.

* `NeverBeneathServer`: a tree that is gone had no server, but for one that could
  not be seen: `pg_ctl start` was cut short or gave up before the postmaster had
  written its pid file, and neither the pid file nor the status names it.
* `FailureHasCause`: the wanted answer fails only for a signal, something outside,
  or one more cause the run found: the poll for the archived segment looks at its
  name only (`main.go:349`), so `cp` may copy a segment that the archiver has
  not finished writing.
* `PassMeansRecovered`, `CleanExit`, `Ends` as their comments say.

`RecoveryLabTheorems` proves `CleanupSparesServers`, `CleanExits` and `RecoveryLabTypes`
for any set of tasks about the lessons 27 to 31, which is all `run` accepts
(`TasksAssumption`). `NeverBeneathServer` speaks of the moment the tree is gone; the invariant
follows a postmaster from its start: while `pg_ctl` waits the lab is at that step
(`LauncherIsStarting`); a server that is not watched and has no pid file was left
behind (`ForkedIsWatched`); any other has its pid file (`PidFileNames`); a cluster
that the cleanup has passed runs nothing, or the cleanup has failed, or nothing of
the server could be seen (`PassedIsSafe`).

`CleanExits` needs to know why a run without an error hides no server. The invariant
`EInv` follows it through the scripts: the lab goes on after a failed start only in
lesson 28, where the first start of the copy is expected to fail
(`ForkedIsLookedFor`), and the next call of that script looks in the log, which it
passes only if the server has given up by itself. So a script that ends well leaves no
postmaster without a pid file, the cleanup asks no status of one (`NothingHidden`),
and by `PassedIsSafe` both clusters run nothing when the tree is removed. Where in
a script a call can stand is written out lesson by lesson (`RestorePlaces`,
`RestoreAt` and their like); all proofs below rest on these tables.

`PassesRecovered` (`PassMeansRecovered`) needs what a script has established by the
time it ends. The invariant `RInv` says it for every place: how much the primary has
written (`HistoryWritten`), which answers can have come this far (`Restored`,
`HarmIsAnAnswer`), where the copy stands in that history (`Repaired`,
`StoppedAtTarget`, `Streamed`, `MadeStandby`, `Resumed`), what the learner's query told
(`AskedAndTold`). A step without an error either leaves the data alone, or passes a
call of the script (`Advance`, with what that call looked at), or is one of the
actions that change the data (`Change`); the lemma `Effects` says so once, and every
conjunct is kept by going through the three.

`FailuresHaveCause` (`FailureHasCause`) is the other direction: a lesson that is given
the wanted answer and meets no signal, nothing slow or failing outside and no segment
copied too early (`NoExcuse`) does not fail. The second invariant `FInv` speaks of
such runs only. The servers a step needs are up (`PrimaryUp`, `CopyUp`, `NeedsUp`); the
checks find what they want (`ArchiveWorks`, `StandbyWorks`, `StandbySees`,
`ReplayPauses`, `ChecksHold`); what a poll waits for has come or something is still
due (`PollsGoOn`), so that a deadline is the outside's; the start that is to fail
does (`StartsAreFree`); the cleanup stops what a pid file names and then sees nothing
(`CleanupGoesWell`). Two things the model says were met in writing this: a recovery
target stops replay only at a restore point of that name (`ReplayRecord`), and the
sources a server replays from exclude one another (`ReplayLimit`).

## 8. Skill links

`SkillLinks` models `tutor install`. `Begin` is the start of a run, `PlanNext` one turn
of `Plan`'s loop (`planRetired` for retired names, `planLink` for the others),
`Planned` the end of the plan, where `--check` stops. `Recheck` is the second look of
`Apply`; `RemoveRetired`, `CreateLink`, and for an identical copy `MoveAside`,
`LinkMoved`, `Discard` or `Restore` are `applyOne` system call by system call.
`ByHand` is a person who changes a destination, `Kill` a killed run, which leaves
what it had moved aside in its backup directory. What is at a destination is told
apart as far as `planLink` and `planRetired` do. `touched`, `conflict` and `lost` are history
variables: somebody's own came to a place that a run had looked at again; a run
started while there was something to refuse; what was deleted.

`skill_links` (530,000 states): a retired name, the command and one skill, in every
state they are found in; two runs, one change by hand and one kill. Its safety
properties also hold with two changes by hand (1.5 million states).

Fairness: a run that has begun goes on (weak fairness of `RunStep`), and `tutor
install` is run again and again (strong fairness of `Begin` without `--check`).
Under it the links are in place in the end, or something is refused, provided that
runs stop overlapping (`Converges`): two runs that overlap for ever can rename each
other's backups back for ever. `InstalledMeansLinked` is about two runs; beside two
others a run can report success and then lose a link to a backup renamed back.

`SkillLinksTheorems` proves `InstallKeepsOwn` for any destinations, numbers of runs
and changes: a run deletes somebody's own only if it came between the run's second
look and its rename or removal. `OnlyTouchedIsLost` speaks of what was deleted; the
invariant adds that a destination that was looked at again (`SeenIsNotOwn`) and
what was moved aside from it (`BackupIsNotOwn`) are nobody's own unless touched.

`RefusalsTouchNothing` is an action property: a run that began while a managed
destination held something to be refused renames, links and removes nothing. Its
invariant says that such a run is planning and has not passed that destination
(`RefusalAhead`). Other runs refuse it too and leave it there; if it goes all the same,
by hand or in the window between a run's second look and its rename, the run is no
longer held to it (`conflict`). The proof needs two facts about what runs may do
elsewhere: a plan fits its destination (`PlanFits`), and links of earlier releases,
which a run removes without asking, are found under retired names only (`NothingOld`).
The second is a conjunct of `PlacesAssumption`: no managed name was ever a retired one.

`InstalledIsLinked` proves `InstalledMeansLinked` for any destinations, in any state,
and at most two runs at once (`TwoRuns`). That a run has passed only destinations that
are done, and that they stay so (`PassedIsDone`), is what it is about; it is not
inductive alone, because a run may move the other's new link aside. What keeps that
harmless is `OneHolds`: only one run has a destination moved aside, what then appears
there can only be the other's link, and nobody is about to move that one aside. A
third run would be: it is the step of `CreateLink` that needs `TwoRuns`.
`HoldsACopy` says what can be renamed back, a copy or the link itself, and
`PlansSuit` that a destination passed without a change needed none.

## 9. Findings

* `roadmap_note` (`store.go:101`): `Export` takes its stamp after `Load` and outside any
  transaction, a change takes its own before it commits (`store.go:478`). A change
  committed after `Load` and stamped before the export is not in the file and is
  older than the export, so no note reports the snapshot as stale (the comment at
  `store.go:571-573` promises one). Two exports at a time can have the same effect.

Read in the code or met in a model, without a run of their own:

* `Load` queries outside a transaction (`store.go:97`), so an export that overlaps a
  change can publish the topics of one moment with the follow-ups of another.
* `export --file` to another file records `exported_at` too (`store.go:108`), so that
  `roadmap.json`, with an older time, is reported as out of date although it may not be.
* `consolidate --replace` (`consolidate.go:270`) deletes a course's rows and numbers
  the copies from `max(id)+1` of what is left; a `done` that resolved its lesson
  before and writes after it credits whatever lesson now has the id, though
  `docs/knowledge/lesson-identity-refresh.md` says that a retired slug must not
  donate its completion.
* `roadmap import` accepts a topic with two chosen follow-ups: `snapshot.go:27-28`
  says at most one may be chosen, `Validate` (118-143) does not look. The runs
  import files that respect it.
* `next --topic` takes two queries (`ops.go:218`); an ordinal typed by the learner
  may name another lesson after a refresh (`cli/course.go:437`).
* `done --note` with blanks only passes for a note (`ops.go:255` does not trim it) and
  replaces the one that was there.
* The harness cleans up labs only at the very end (`harness.go:383`), writes a
  step without a time limit (`:260`), and a line on stderr may split a marker
  (`:216`); the last one ends in a time-out, which `FailMeansCause` allows.
* `Close` kills a REPL that does not leave (`harness.go:316`), not what it was running:
  a foreground command that hangs, or a server left in the background, holds the
  pipes open and the validation waits for ever (`:317`), in spite of its time limits.
* `Summary` (`harness.go:459`) reports lessons "completed without timeout", among them
  shell lessons that were skipped (`:364-368`); a test expects it.
* `git.go:80` kills `git update-ref` at its deadline. The `.lock` files it may leave under
  `refs/heads` make every later replay of that replica fail, as a torn transaction,
  a half-made repository and the lock of a killed process do (`Wedged`).
* `links.go:9-12` says that rechecking means "a concurrent change is never
  silently clobbered"; between the recheck and the rename or removal
  (`links.go:252`, `:276`) there is a window, the exception in `OnlyTouchedIsLost`.
* The recovery lab can copy an archived segment that is still being written
  (`main.go:349`), which then fails the learner's correct answer.
* Its cleanup can delete the tree beneath a server: one that a `pg_ctl start`, cut short
  by a signal or its time limit, left behind before it wrote its pid file. The
  comment at `main.go:556-557` says "never delete files beneath a live server".

## 10. Plan

The project keeps itself to a dozen runs and forty properties, so that all of it
can be rerun in half an hour; what is added replaces something shallower. For that
reason most modules state a `TypeOK` that no run checks; `learner_replace` checks
that of `LearnerStore`. The types that the proofs rest on are proved: `TypeOK` of
`LearnerStore`, `CursorGit`, `Harness` and `RecoveryLab` as theorems, the others as parts
of the invariants.

Next modules, in this order:

1. `RetryLab`: the whole-transaction retry of `retry.py` under serializable
   isolation, with a connection that breaks at any statement: one doctor stays on
   call, and only a serialization failure is tried again.
2. Scaffolding (`scaffold.Course`): two runs and a crash between two files.
3. `RouteMerge`, only as an operator checked against a reference definition.

Theorems worth proving next: the two
overlapping exports of `RoadmapExport`; the lemma that parked and numbered positions
never collide (`RoadmapTables`, by the argument of `StatementsAlwaysAccepted`).

## 11. What is only model-checked

* Liveness: `Converges` of replicas and of links, `Terminates`, `Ends`. The prover has
  no rules for fairness and ENABLED.
* That `InstalledMeansLinked` of the skill links needs its hypothesis: it is proved for
  at most two runs at once and is false for three.
* The properties of `RoadmapTables`, `RoadmapCommands` and `RoadmapExport`. The first writes rows with the
  operators `@@` and `:>`, which the prover does not know, and that an import is
  numbered densely needs an induction over the fold that numbers it, which it cannot
  do. `PositionsDense` and the refinement of `Outline` depend on that.

What is proved of `Seeded` and `Adopt` needs no induction over data, because both are
defined without recursion. Everything not listed under `theorems` in `PROJECT.json`
rests on the runs.

## 12. What is not modelled

Besides the components of the plan: course loading and validation (pure; what the
learner store relies on is `IsCatalog`), routes, rendering, argument scanning and
the command tree (no state), test support, the gRPC and DuckDB labs and the
validation programs (one process, scripted), machine setup and container tests
(external tools in sequence), content and archived guides. Inside the modelled
components: `topics`, `modules` and `search`, the roadmap preamble and
`updated_at`, the creation of schemas by the first command; the bounds of
`validateIndex` (`model.go:115`), which the two operations of the Cursor Git command line
cannot reach; and archive entries of the recovery lab that are not files: the run
would wait for ever on a FIFO the learner puts there (`main.go:411`).
