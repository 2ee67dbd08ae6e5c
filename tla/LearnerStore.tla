---------------------------- MODULE LearnerStore ----------------------------
(***************************************************************************)
(* The shared learner database (curriculum-tools/internal/progress): the   *)
(* course verbs done, skip, undone and note run by any number of tutor     *)
(* processes, `tutor <course> init`, and the consolidation of a legacy     *)
(* per-course database.                                                    *)
(*                                                                         *)
(* A verb is two steps.  It first resolves the ordinal on the command line *)
(* to a row (Get), outside any transaction, and keeps the row's id and     *)
(* revision in memory; only then it writes under BEGIN IMMEDIATE.  Another *)
(* process may commit anything in between.  What runs inside one           *)
(* transaction is one step here; SeedTransaction.tla opens up the longest  *)
(* of them.                                                                *)
(***************************************************************************)
EXTENDS CourseViews

CONSTANTS Clients,         \* processes running a verb
          Notes,           \* non-empty note texts
          CatalogsOf,      \* course -> the catalogs its author may release
          LegacyOf,        \* course -> the per-course databases there may be
          AllowReplace,    \* whether consolidation runs with --replace
          MaxAttempts,     \* bound: attempts rows before verbs stop
          MaxReplacements  \* bound: consolidations of a course already there

Idle == [verb |-> "none"]

ProgressRow == [status : {"todo", "done", "skipped"},
                completed : Nat, notes : Notes \cup {""}]
AttemptRow == [lesson : Nat \ {0}, revision : Nat \ {0}]

(* What a verb holds between Get and its write.                            *)
Resolved == [verb : {"done", "skip", "undone", "note"}, course : Courses,
             id : Nat \ {0}, slug : Slugs, revision : Nat \ {0},
             note : Notes \cup {""}]

(* The foreign keys ON lessons(id), and what the verbs of either engine    *)
(* keep true of a database: a completion has its attempt.                  *)
ReferencesHold(rows, edges, prog, att) ==
    /\ \A e \in edges : {e[1], e[2]} \subseteq DOMAIN rows
    /\ DOMAIN prog \subseteq DOMAIN rows
    /\ \A a \in DOMAIN att : att[a].lesson \in DOMAIN rows

CompletionsAttempted(prog, att) ==
    \A i \in DOMAIN prog :
        prog[i].status = "done" =>
            \E a \in DOMAIN att : /\ att[a].lesson = i
                                  /\ att[a].revision = prog[i].completed

(* What every refresh leaves of a course: the active lessons numbered from *)
(* 1, the retired ones behind them, prerequisites among active lessons,    *)
(* earlier in the course.                                                  *)
OrdinalsDense(rows, c) ==
    /\ {rows[i].ordinal : i \in IdsOf(rows, c)} = 1 .. Cardinality(IdsOf(rows, c))
    /\ \A i \in ActiveIds(rows, c) :
          rows[i].ordinal <= Cardinality(ActiveIds(rows, c))

PrereqsEarlier(rows, edges) ==
    \A e \in edges :
        /\ rows[e[1]].active /\ rows[e[2]].active
        /\ rows[e[1]].course = rows[e[2]].course
        /\ rows[e[2]].ordinal < rows[e[1]].ordinal

(* A legacy per-course database, kept by the archived engine with the same *)
(* schema, the same seed algorithm and the same verbs.                     *)
IsLegacyStore(c, old) ==
    /\ IsLessonTable(old.lessons)
    /\ \A i \in DOMAIN old.lessons : old.lessons[i].course = c
    /\ DOMAIN old.attempts \subseteq Nat \ {0} /\ IsFiniteSet(DOMAIN old.attempts)
    /\ \A i \in DOMAIN old.progress : old.progress[i] \in ProgressRow
    /\ \A a \in DOMAIN old.attempts : old.attempts[a] \in AttemptRow
    /\ UniqueRows(old.lessons)
    /\ ReferencesHold(old.lessons, old.prereqs, old.progress, old.attempts)
    /\ CompletionsAttempted(old.progress, old.attempts)
    /\ OrdinalsDense(old.lessons, c)
    /\ PrereqsEarlier(old.lessons, old.prereqs)

ASSUME LearnerAssumption ==
    /\ "" \notin Notes
    /\ \A c \in Courses : \A cat \in CatalogsOf[c] : IsCatalog(cat)
    /\ \A c \in Courses : \A old \in LegacyOf[c] : IsLegacyStore(c, old)
    /\ AllowReplace \in BOOLEAN
    /\ MaxAttempts \in Nat /\ MaxReplacements \in Nat

VARIABLES
    lessons,       \* id -> LessonRow
    prereqs,       \* set of <<lesson_id, prerequisite_id>>
    progress,      \* lesson_id -> ProgressRow
    attempts,      \* id -> AttemptRow
    client,        \* process -> Idle or the verb it has resolved
    replacements,  \* consolidations that replaced a course so far
    earned         \* history: <<course, slug, revision>> learners completed

tables == <<lessons, prereqs, progress, attempts>>
vars == <<tables, client, replacements, earned>>

NoRows == [i \in {} |-> i]

Init ==
    /\ lessons = NoRows /\ prereqs = {} /\ progress = NoRows
    /\ attempts = NoRows
    /\ client = [p \in Clients |-> Idle]
    /\ replacements = 0
    /\ earned = {}

-----------------------------------------------------------------------------
(* Get: the course's active lesson at ordinal n.  A course without rows    *)
(* (EnsureReady) or without such a lesson ends the verb with no step.      *)
Resolve(p, verb, c, n, text) ==
    /\ client[p] = Idle
    /\ verb = "note" => text # ""
    /\ verb = "undone" => text = ""
    /\ TopId(attempts) < MaxAttempts
    /\ \E i \in ActiveIds(lessons, c) :
         /\ lessons[i].ordinal = n
         /\ client' = [client EXCEPT ![p] =
              [verb |-> verb, course |-> c, id |-> i, slug |-> lessons[i].slug,
               revision |-> lessons[i].revision, note |-> text]]
    /\ UNCHANGED <<tables, replacements, earned>>

NotesOf(i) == IF i \in DOMAIN progress THEN progress[i].notes ELSE ""

(* Mutants: the two statuses swapped, and the revision read at the write   *)
(* and not at Get.                                                         *)
CompletedBySkip(v) == IF v.verb = "skip" THEN v.revision ELSE NoRevision
CompletedNow(v) == IF v.verb = "done" THEN lessons[v.id].revision ELSE NoRevision
CompletedBy(v) == IF v.verb = "done" THEN v.revision ELSE NoRevision

(* Mutant: the upsert always takes the new note.                           *)
NoteGiven(v) == v.note
NoteAfter(v) == IF v.note = "" THEN NotesOf(v.id) ELSE v.note

(* setStatus's transaction: upsert progress, keeping the old note when the *)
(* new one is empty, and insert the attempt.  Its foreign keys demand that *)
(* the id still names a lesson.                                            *)
RecordStatus(p) ==
    LET v == client[p] IN
    /\ v.verb \in {"done", "skip"}
    /\ v.id \in DOMAIN lessons
    /\ progress' = Put(progress, v.id,
         [status    |-> IF v.verb = "done" THEN "done" ELSE "skipped",
          completed |-> CompletedBy(v),
          notes     |-> NoteAfter(v)])
    /\ attempts' = Put(attempts, TopId(attempts) + 1,
         [lesson |-> v.id, revision |-> v.revision])
    /\ earned' = IF v.verb = "done"
                 THEN earned \cup {<<v.course, v.slug, v.revision>>}
                 ELSE earned
    /\ client' = [client EXCEPT ![p] = Idle]
    /\ UNCHANGED <<lessons, prereqs, replacements>>

(* Undone's single UPDATE: nothing to update is not an error.              *)
Undo(p) ==
    LET v == client[p] IN
    /\ v.verb = "undone"
    /\ progress' = IF v.id \in DOMAIN progress
                   THEN [progress EXCEPT ![v.id] =
                           [status |-> "todo", completed |-> NoRevision,
                            notes |-> @.notes]]
                   ELSE progress
    /\ client' = [client EXCEPT ![p] = Idle]
    /\ UNCHANGED <<lessons, prereqs, attempts, replacements, earned>>

(* Note's single upsert: a new row starts as todo, an old one keeps its    *)
(* status.                                                                 *)
SaveNote(p) ==
    LET v == client[p] IN
    /\ v.verb = "note"
    /\ v.id \in DOMAIN lessons
    /\ progress' = Put(progress, v.id,
         IF v.id \in DOMAIN progress
         THEN [progress[v.id] EXCEPT !.notes = v.note]
         ELSE [status |-> "todo", completed |-> NoRevision, notes |-> v.note])
    /\ client' = [client EXCEPT ![p] = Idle]
    /\ UNCHANGED <<lessons, prereqs, attempts, replacements, earned>>

(* The process dies, the five-second busy timeout expires or a foreign key *)
(* fails: the transaction rolls back.                                      *)
GiveUp(p) ==
    /\ client[p] # Idle
    /\ client' = [client EXCEPT ![p] = Idle]
    /\ UNCHANGED <<tables, replacements, earned>>

-----------------------------------------------------------------------------
(* `tutor <course> init` on a validated catalog.                           *)
Refresh(c, cat) ==
    /\ lessons' = Seeded(lessons, c, cat)
    /\ prereqs' = SeededPrereqs(lessons, prereqs, c, cat)
    /\ UNCHANGED <<progress, attempts, client, replacements, earned>>

(* Mutant: --replace removes the active rows only.                         *)
ActiveOnly(c) == ActiveIds(lessons, c)
Gone(c) == IdsOf(lessons, c)

CopyBase(c) == TopId(Without(lessons, Gone(c)))

(* ON DELETE CASCADE of the prerequisites.  Mutant: foreign keys are off.  *)
PrereqsNotCascaded(c) == prereqs
KeptPrereqs(c) == {e \in prereqs : {e[1], e[2]} \cap Gone(c) = {}}

(* The legacy attempts with their lessons' new ids.  Mutant: not remapped. *)
AttemptsAsTheyWere(c, old) == old.attempts
RemappedAttempts(c, old) ==
    [a \in DOMAIN old.attempts |->
       [old.attempts[a] EXCEPT !.lesson = NewId(DOMAIN old.lessons, CopyBase(c), @)]]

(* consolidateOne's transaction: drop the course's rows (progress,         *)
(* attempts and prerequisites cascade), then copy the legacy tables under  *)
(* fresh ids that follow the highest id LEFT in the table.                 *)
ConsolidateCourse(c, old) ==
    LET ids == DOMAIN old.lessons
        base == CopyBase(c)
        keptAttempts == Without(attempts,
                          {a \in DOMAIN attempts : attempts[a].lesson \in Gone(c)})
    IN
    /\ Gone(c) = {} \/ (AllowReplace /\ replacements < MaxReplacements)
    /\ replacements' = IF Gone(c) = {} THEN replacements ELSE replacements + 1
    /\ lessons' = Adopt(Without(lessons, Gone(c)), old.lessons, ids, base)
    /\ prereqs' = KeptPrereqs(c)
         \cup {<<NewId(ids, base, e[1]), NewId(ids, base, e[2])>> : e \in old.prereqs}
    /\ progress' = Adopt(Without(progress, Gone(c)), old.progress, ids, base)
    /\ attempts' = Adopt(keptAttempts, RemappedAttempts(c, old),
                         DOMAIN old.attempts, TopId(keptAttempts))
    /\ earned' = earned \cup
         {<<c, old.lessons[i].slug, old.progress[i].completed>> :
             i \in {j \in DOMAIN old.progress : old.progress[j].status = "done"}}
    /\ UNCHANGED client

-----------------------------------------------------------------------------
Verb(p) ==
    \/ \E verb \in {"done", "skip", "undone", "note"}, c \in Courses,
          n \in 1 .. Cardinality(Slugs), text \in Notes \cup {""} :
          Resolve(p, verb, c, n, text)
    \/ RecordStatus(p)
    \/ Undo(p)
    \/ SaveNote(p)
    \/ GiveUp(p)

Next ==
    \/ \E p \in Clients : Verb(p)
    \/ \E c \in Courses : \E cat \in CatalogsOf[c] : Refresh(c, cat)
    \/ \E c \in Courses : \E old \in LegacyOf[c] : ConsolidateCourse(c, old)

Spec == Init /\ [][Next]_vars

-----------------------------------------------------------------------------
(* Every table keeps its columns' types and CHECKs, and a process is idle  *)
(* or holds one resolved verb.                                             *)
TypeOK ==
    /\ IsLessonTable(lessons)
    /\ prereqs \subseteq (Nat \ {0}) \X (Nat \ {0})
    /\ DOMAIN progress \subseteq Nat \ {0}
    /\ \A i \in DOMAIN progress :
          /\ progress[i] \in ProgressRow
          /\ progress[i].status = "done" => progress[i].completed # NoRevision
    /\ DOMAIN attempts \subseteq Nat \ {0} /\ IsFiniteSet(DOMAIN attempts)
    /\ \A a \in DOMAIN attempts : attempts[a] \in AttemptRow
    /\ client \in [Clients -> Resolved \cup {Idle}]
    /\ replacements \in Nat
    /\ earned \subseteq Courses \X Slugs \X Nat

(* No commit leaves the database in breach of its UNIQUE and REFERENCES    *)
(* constraints: the statements of Seed and consolidateOne never need the   *)
(* database to refuse them.                                                *)
ConstraintsHold ==
    /\ UniqueRows(lessons)
    /\ ReferencesHold(lessons, prereqs, progress, attempts)

(* After any mix of refreshes, retirements and consolidations the active   *)
(* lessons of a course are numbered 1..n and its prerequisites point from  *)
(* active lessons to earlier active lessons of the same course.            *)
CoursesWellFormed ==
    /\ \A c \in Courses : OrdinalsDense(lessons, c)
    /\ PrereqsEarlier(lessons, prereqs)

(* A lesson counts as done at a revision only if an attempt at that very   *)
(* revision is on record: progress and attempts are written together and   *)
(* removed together (setStatus, the cascades).                             *)
DoneHasAttempt == CompletionsAttempted(progress, attempts)

(* Credit is never transferred: whatever the order of renames, reorders,   *)
(* retirements, reintroductions and half-finished verbs, a completion on   *)
(* record is one a learner earned for that course, slug and revision.      *)
NoCreditTransfer ==
    \A i \in DOMAIN progress :
        progress[i].status = "done" =>
            <<lessons[i].course, lessons[i].slug, progress[i].completed>> \in earned

(* What a process holds in memory between Get and its write still names    *)
(* the lesson it resolved, whatever other processes commit in between.     *)
HeldRowsKeepIdentity ==
    \A p \in Clients :
        client[p] # Idle =>
            /\ client[p].id \in DOMAIN lessons
            /\ lessons[client[p].id].course = client[p].course
            /\ lessons[client[p].id].slug = client[p].slug

(* The read verbs tell one story: `next` has nothing left exactly when     *)
(* `status` counts no lesson to do, that count is the length of `list      *)
(* --todo`, it includes every stale lesson, and `next` serves one lesson.  *)
ViewsAgree ==
    \A c \in Courses :
        LET s == StatusOf(lessons, progress, c)
            next == NextLesson(lessons, progress, c)
        IN  /\ s.todo = Cardinality(ListTodo(lessons, progress, c))
            /\ s.done = Cardinality(ListDone(lessons, progress, c))
            /\ s.stale <= s.todo
            /\ Cardinality(next) = IF s.todo = 0 THEN 0 ELSE 1

(* An id names the same course and slug for as long as the row exists,     *)
(* which is what lets a verb hold on to an id between Get and its write.   *)
IdentityIsStable ==
    [][\A i \in DOMAIN lessons \cap DOMAIN lessons' :
          /\ lessons'[i].course = lessons[i].course
          /\ lessons'[i].slug = lessons[i].slug]_vars

(* The learner's own words are only ever replaced by other words: done and *)
(* skip without --note, undone and a refresh keep the note.                *)
NotesNeverErased ==
    [][\A i \in DOMAIN progress :
          progress[i].notes # "" =>
              i \in DOMAIN progress' /\ progress'[i].notes # ""]_vars

(* The history of a lesson, found by its slug.                             *)
HistoryOf(c, s) ==
    LET ids == {i \in IdsOf(lessons, c) : lessons[i].slug = s}
    IN  [progress |-> {progress[i] : i \in ids \cap DOMAIN progress},
         attempts |-> {a \in DOMAIN attempts : attempts[a].lesson \in ids}]

(* A step that changes the lessons table keeps the progress row and the    *)
(* attempts of every lesson already there, under the same slug.            *)
RefreshKeepsHistory ==
    [][lessons' # lessons =>
          \A c \in Courses, s \in Slugs :
              Known(lessons, c, s) => HistoryOf(c, s)' = HistoryOf(c, s)]_vars
=============================================================================
