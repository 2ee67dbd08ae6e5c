-------------------------- MODULE SeedTransaction --------------------------
(***************************************************************************)
(* progress.Seed statement by statement, inside its BEGIN IMMEDIATE        *)
(* transaction: read the course's rows, park each of them inactive at      *)
(* offset+id, upsert the catalog, rebuild the prerequisites, park the      *)
(* retired rows behind the catalog, commit.  SQLite checks UNIQUE and      *)
(* REFERENCES row by row, so every intermediate table has to satisfy them. *)
(* The process may die, or a statement fail, between any two of them.      *)
(***************************************************************************)
EXTENDS LessonRows

CONSTANT CatalogsOf        \* course -> the catalogs its author may release

ASSUME SeedAssumption ==
    \A c \in Courses : \A cat \in CatalogsOf[c] : IsCatalog(cat)

VARIABLES
    lessons, prereqs,   \* the committed tables
    phase,              \* where the one open transaction is, or "idle"
    course, catalog,    \* its arguments
    idBySlug, offset,   \* what it read of the course at its start
    nextID,             \* the highest id given out
    rows, edges,        \* its view of the two tables
    todo,               \* ids its current statement or loop has yet to visit
    idByOrdinal         \* the ids of the catalog's lessons upserted so far

committed == <<lessons, prereqs>>
args == <<course, catalog, idBySlug, offset>>
vars == <<committed, phase, args, nextID, rows, edges, todo, idByOrdinal>>

NoRows == [i \in {} |-> i]

Closed ==
    /\ phase' = "idle" /\ course' = "none" /\ catalog' = <<>>
    /\ idBySlug' = NoRows /\ offset' = 0 /\ nextID' = 0
    /\ rows' = NoRows /\ edges' = {} /\ todo' = {} /\ idByOrdinal' = <<>>

Init ==
    /\ lessons = NoRows /\ prereqs = {}
    /\ phase = "idle" /\ course = "none" /\ catalog = <<>>
    /\ idBySlug = NoRows /\ offset = 0 /\ nextID = 0
    /\ rows = NoRows /\ edges = {} /\ todo = {} /\ idByOrdinal = <<>>

-----------------------------------------------------------------------------
(* One past every ordinal the course has or will have.                     *)
(* Mutant: one past those it will have.                                    *)
OffsetOfCatalog(c, cat) == Len(cat) + 1
Offset(c, cat) ==
    Max({Len(cat)} \cup {lessons[i].ordinal : i \in IdsOf(lessons, c)}) + 1

Begin(c, cat) ==
    /\ phase = "idle"
    /\ phase' = "park" /\ course' = c /\ catalog' = cat
    /\ idBySlug' = [s \in {lessons[i].slug : i \in IdsOf(lessons, c)} |->
                      CHOOSE i \in IdsOf(lessons, c) : lessons[i].slug = s]
    /\ offset' = Offset(c, cat)
    /\ nextID' = TopId(lessons)
    /\ rows' = lessons /\ edges' = prereqs
    /\ todo' = IdsOf(lessons, c)
    /\ idByOrdinal' = <<>>
    /\ UNCHANGED committed

(* UPDATE lessons SET active=0, ordinal=offset+id: one row, in any order.  *)
ParkOne(i) ==
    /\ phase = "park" /\ i \in todo
    /\ rows' = [rows EXCEPT ![i].active = FALSE, ![i].ordinal = offset + i]
    /\ todo' = todo \ {i}
    /\ UNCHANGED <<committed, phase, args, nextID, edges, idByOrdinal>>

Parked ==
    /\ phase = "park" /\ todo = {}
    /\ phase' = "upsert"
    /\ UNCHANGED <<committed, args, nextID, rows, edges, todo, idByOrdinal>>

(* Mutant: an upsert that forgets active=1.                                *)
RowLeftInactive(k) ==
    [RowFrom(course, catalog, k) EXCEPT !.active = catalog[k].slug \notin DOMAIN idBySlug]
UpsertedRow(k) == RowFrom(course, catalog, k)

(* The next lesson of the catalog, under its old id or the next free one.  *)
Upsert ==
    LET k == Len(idByOrdinal) + 1
        known == catalog[k].slug \in DOMAIN idBySlug
        id == IF known THEN idBySlug[catalog[k].slug] ELSE nextID + 1
    IN
    /\ phase = "upsert" /\ k <= Len(catalog)
    /\ nextID' = IF known THEN nextID ELSE nextID + 1
    /\ rows' = Put(rows, id, UpsertedRow(k))
    /\ idByOrdinal' = Append(idByOrdinal, id)
    /\ UNCHANGED <<committed, phase, args, edges, todo>>

DeletePrereqs ==
    /\ phase = "upsert" /\ Len(idByOrdinal) = Len(catalog)
    /\ phase' = "link"
    /\ edges' = {e \in edges : e[1] \notin IdsOf(rows, course)}
    /\ todo' = DOMAIN catalog
    /\ UNCHANGED <<committed, args, nextID, rows, idByOrdinal>>

(* One lesson's prerequisites; `todo` counts the lessons left.             *)
InsertPrereqs(k) ==
    /\ phase = "link" /\ k \in todo /\ \A j \in todo : k <= j
    /\ edges' = edges \cup {<<idByOrdinal[k], idByOrdinal[n]>> : n \in catalog[k].needs}
    /\ todo' = todo \ {k}
    /\ UNCHANGED <<committed, phase, args, nextID, rows, idByOrdinal>>

SelectRetired ==
    /\ phase = "link" /\ todo = {}
    /\ phase' = "retire"
    /\ todo' = IdsOf(rows, course) \ ActiveIds(rows, course)
    /\ UNCHANGED <<committed, args, nextID, rows, edges, idByOrdinal>>

(* The retired rows in id order, at len(lessons)+1, +2, ...                *)
ParkRetired(i) ==
    LET retired == IdsOf(rows, course) \ ActiveIds(rows, course)
    IN
    /\ phase = "retire" /\ i \in todo /\ \A j \in todo : i <= j
    /\ rows' = [rows EXCEPT ![i].ordinal =
                  Len(catalog) + Cardinality(retired) - Cardinality(todo) + 1]
    /\ todo' = todo \ {i}
    /\ UNCHANGED <<committed, phase, args, nextID, edges, idByOrdinal>>

Commit ==
    /\ phase = "retire" /\ todo = {}
    /\ lessons' = rows /\ prereqs' = edges
    /\ Closed

(* A crash, or the deferred tx.Rollback() after a failed statement.        *)
Rollback ==
    /\ phase # "idle"
    /\ Closed
    /\ UNCHANGED committed

Next ==
    \/ \E c \in Courses : \E cat \in CatalogsOf[c] : Begin(c, cat)
    \/ \E i \in todo : ParkOne(i) \/ InsertPrereqs(i) \/ ParkRetired(i)
    \/ Parked
    \/ Upsert
    \/ DeletePrereqs
    \/ SelectRetired
    \/ Commit
    \/ Rollback

Spec == Init /\ [][Next]_vars

-----------------------------------------------------------------------------
(* Every row Seed writes fits the columns and their CHECKs.                *)
TypeOK ==
    /\ \A t \in {lessons, rows} : /\ DOMAIN t \subseteq Nat \ {0}
                                  /\ \A i \in DOMAIN t : t[i] \in LessonRow
    /\ \A e \in prereqs \cup edges : e \in (Nat \ {0}) \X (Nat \ {0})
    /\ phase \in {"idle", "park", "upsert", "link", "retire"}
    /\ course \in Courses \cup {"none"}
    /\ {nextID, offset} \subseteq Nat
    /\ DOMAIN idBySlug \subseteq Slugs
    /\ \A k \in DOMAIN idByOrdinal : idByOrdinal[k] \in Nat \ {0}

(* SQLite accepts every statement of Seed: at no point of the transaction  *)
(* do two rows of a course share an ordinal or a slug, or does a           *)
(* prerequisite name a missing lesson or the lesson itself.  This is what  *)
(* parking at offset+id is for.                                            *)
StatementsAccepted ==
    /\ UniqueRows(rows)
    /\ \A e \in edges : e[1] # e[2] /\ {e[1], e[2]} \subseteq DOMAIN rows

(* The statements implement the atomic refresh: a commit takes the tables  *)
(* to exactly the content CourseRefresh gives, and nothing else, a crash   *)
(* included, changes them.                                                 *)
Atomic == INSTANCE CourseRefresh
ImplementsRefresh == Atomic!Spec
=============================================================================
