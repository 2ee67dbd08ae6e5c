---------------------------- MODULE CourseViews ----------------------------
(***************************************************************************)
(* The read verbs of a course (internal/progress/ops.go) as operators on   *)
(* the lessons and progress tables: which lessons are unfinished, what     *)
(* `next` serves, what `list` selects and what `status` counts.  Each verb *)
(* has its own SQL text for the same ideas, so they can disagree.          *)
(***************************************************************************)
EXTENDS LessonRows

NoRevision == 0            \* SQL NULL in completed_revision

Has(prog, i, status) == i \in DOMAIN prog /\ prog[i].status = status

(* p.status='done' AND p.completed_revision=l.revision, and the same with  *)
(* <>: neither holds of a NULL revision.                                   *)
Finished(rows, prog, i) ==
    Has(prog, i, "done") /\ prog[i].completed = rows[i].revision
Stale(rows, prog, i) ==
    /\ Has(prog, i, "done")
    /\ prog[i].completed \notin {NoRevision, rows[i].revision}

(* Mutant: a revised lesson stays finished.                                *)
NeverRecorded(rows, prog, i) == i \notin DOMAIN prog \/ Has(prog, i, "todo")

Unfinished(rows, prog, i) ==
    \/ i \notin DOMAIN prog
    \/ Has(prog, i, "todo")
    \/ Stale(rows, prog, i)

(* List with --todo, --done and neither.                                   *)
ListTodo(rows, prog, c) == {i \in ActiveIds(rows, c) : Unfinished(rows, prog, i)}
ListDone(rows, prog, c) == {i \in ActiveIds(rows, c) : Finished(rows, prog, i)}

(* Next: the unfinished lesson with the lowest ordinal; {} stands for "All *)
(* active lessons are complete."                                           *)
NextLesson(rows, prog, c) ==
    {i \in ListTodo(rows, prog, c) :
        \A j \in ListTodo(rows, prog, c) : rows[i].ordinal <= rows[j].ordinal}

(* GetStatus: three filtered counts, and todo as what they leave over.     *)
StatusOf(rows, prog, c) ==
    LET active == ActiveIds(rows, c)
        total == Cardinality(active)
        done == Cardinality({i \in active : Finished(rows, prog, i)})
        skipped == Cardinality({i \in active : Has(prog, i, "skipped")})
    IN  [total |-> total, done |-> done, skipped |-> skipped,
         stale |-> Cardinality({i \in active : Stale(rows, prog, i)}),
         todo  |-> total - done - skipped]
=============================================================================
