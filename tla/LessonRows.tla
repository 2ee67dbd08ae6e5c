----------------------------- MODULE LessonRows -----------------------------
(***************************************************************************)
(* The tables of tutor.sqlite as values, and what one committed refresh of *)
(* a course's catalog (progress.Seed) makes of the lessons table.          *)
(*                                                                         *)
(* A table with an INTEGER PRIMARY KEY is a function from the ids in use   *)
(* to rows.  A catalog is the sequence of a course's authored lessons; the *)
(* position is the ordinal, since LoadLessons demands ordinals 1, 2, ...   *)
(***************************************************************************)
EXTENDS Integers, Sequences, FiniteSets, FiniteSetsExt

CONSTANTS Courses,    \* course ids
          Slugs       \* lesson slugs; two courses may use the same slug

(* A row keeps what the store's statements compare.  The display columns   *)
(* (title, tags, overview, ...) are only carried along.                    *)
LessonRow == [course : Courses, slug : Slugs, ordinal : Nat \ {0},
              revision : Nat \ {0}, active : BOOLEAN]

IsLessonTable(rows) ==
    /\ DOMAIN rows \subseteq Nat \ {0} /\ IsFiniteSet(DOMAIN rows)
    /\ \A i \in DOMAIN rows : rows[i] \in LessonRow

(* One authored lesson; `needs` holds the ordinals of its prerequisites.   *)
CatalogEntry == [slug : Slugs, revision : Nat \ {0}, needs : SUBSET Nat]

(* What LoadLessons and Validate let through: at least one lesson, distinct *)
(* slugs, prerequisites that name earlier lessons.                         *)
IsCatalog(cat) ==
    /\ cat \in Seq(CatalogEntry) /\ cat # <<>>
    /\ \A j, k \in DOMAIN cat : cat[j].slug = cat[k].slug => j = k
    /\ \A k \in DOMAIN cat : cat[k].needs \subseteq 1 .. k - 1

-----------------------------------------------------------------------------
(* SELECT coalesce(max(id),0) FROM table                                   *)
TopId(table) == Max({0} \cup DOMAIN table)

(* INSERT ... ON CONFLICT(id) DO UPDATE of a whole row, and DELETE.        *)
Put(table, i, row) ==
    [j \in DOMAIN table \cup {i} |-> IF j = i THEN row ELSE table[j]]
Without(table, ids) == [i \in DOMAIN table \ ids |-> table[i]]

(* How many members of S come no later than i: the number a counter that   *)
(* runs over S in ascending order has reached at i.                        *)
Rank(S, i) == Cardinality({j \in S : j <= i})

(* Copying the rows of one table into another, renumbered in the order of  *)
(* `ids` from base + 1 on.                                                 *)
NewId(ids, base, i) == base + Rank(ids, i)
Adopt(kept, table, ids, base) ==
    LET new == {NewId(ids, base, i) : i \in DOMAIN table}
    IN  [k \in DOMAIN kept \cup new |->
           IF k \in new
           THEN table[CHOOSE i \in DOMAIN table : NewId(ids, base, i) = k]
           ELSE kept[k]]

IdsOf(rows, c) == {i \in DOMAIN rows : rows[i].course = c}
ActiveIds(rows, c) == {i \in IdsOf(rows, c) : rows[i].active}

-----------------------------------------------------------------------------
(* The id a refresh gives the k-th lesson of the catalog: a slug the course *)
(* ever had keeps its id, a new one takes the next id of the whole table.  *)
Known(rows, c, s) == \E i \in IdsOf(rows, c) : rows[i].slug = s

NewPositions(rows, c, cat) == {k \in DOMAIN cat : ~Known(rows, c, cat[k].slug)}

(* Mutant: a new lesson takes the next id of its own course.               *)
CourseTopId(rows, c) == Max({0} \cup IdsOf(rows, c))
LastId(rows, c) == TopId(rows)

(* Mutant: the ordinal is the identity, as before the slug was.            *)
IdByOrdinal(rows, c, cat, k) ==
    IF \E i \in IdsOf(rows, c) : rows[i].ordinal = k
    THEN CHOOSE i \in IdsOf(rows, c) : rows[i].ordinal = k
    ELSE LastId(rows, c) + k

IdAt(rows, c, cat, k) ==
    IF Known(rows, c, cat[k].slug)
    THEN CHOOSE i \in IdsOf(rows, c) : rows[i].slug = cat[k].slug
    ELSE LastId(rows, c) + Rank(NewPositions(rows, c, cat), k)

(* Lessons the catalog dropped stay in the table, inactive, with the       *)
(* ordinals that follow the catalog's, in id order.                        *)
Retired(rows, c, cat) ==
    {i \in IdsOf(rows, c) : \A k \in DOMAIN cat : cat[k].slug # rows[i].slug}

Live(rows, c, cat) == {IdAt(rows, c, cat, k) : k \in DOMAIN cat}

RowFrom(c, cat, k) ==
    [course |-> c, slug |-> cat[k].slug, ordinal |-> k,
     revision |-> cat[k].revision, active |-> TRUE]

ParkedOrdinal(rows, c, cat, i) == Len(cat) + Rank(Retired(rows, c, cat), i)

SeededRow(rows, c, cat, i) ==
    IF i \in Live(rows, c, cat)
    THEN RowFrom(c, cat, CHOOSE k \in DOMAIN cat : IdAt(rows, c, cat, k) = i)
    ELSE IF i \in Retired(rows, c, cat)
    THEN [rows[i] EXCEPT !.active  = FALSE,
                         !.ordinal = ParkedOrdinal(rows, c, cat, i)]
    ELSE rows[i]

Seeded(rows, c, cat) ==
    [i \in DOMAIN rows \cup Live(rows, c, cat) |-> SeededRow(rows, c, cat, i)]

(* lesson_prerequisites after the refresh: the course's edges are rebuilt. *)
OtherEdges(rows, edges, c) == {e \in edges : e[1] \notin IdsOf(rows, c)}

SeededPrereqs(rows, edges, c, cat) ==
    OtherEdges(rows, edges, c)
      \cup UNION {{<<IdAt(rows, c, cat, k), IdAt(rows, c, cat, n)>> :
                       n \in cat[k].needs} : k \in DOMAIN cat}

-----------------------------------------------------------------------------
(* The two UNIQUE constraints of the lessons table.                        *)
UniqueRows(rows) ==
    \A i, j \in DOMAIN rows :
        /\ rows[i].course = rows[j].course
        /\ \/ rows[i].slug = rows[j].slug
           \/ rows[i].ordinal = rows[j].ordinal
        => i = j
=============================================================================
