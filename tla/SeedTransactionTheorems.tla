---------------------- MODULE SeedTransactionTheorems ----------------------
(***************************************************************************)
(* What SeedTransaction guarantees for every set of courses and catalogs:  *)
(* SQLite has no reason to refuse a statement of Seed, and the statements  *)
(* together are the refresh LessonRows describes.                          *)
(***************************************************************************)
EXTENDS SeedTransaction, LessonRowsTheorems

(* The transaction in terms of the committed tables, which nothing else    *)
(* changes while it is open.  The ids it gives are the ones Seeded gives.  *)
IdOf(k) == IdAt(lessons, course, catalog, k)
Upserted == {IdOf(k) : k \in DOMAIN idByOrdinal}
Old == IdsOf(lessons, course)
Dropped == Retired(lessons, course, catalog)
Links(k) == {<<IdOf(k), IdOf(n)>> : n \in catalog[k].needs}

(* A row of the course before and after it is numbered behind the catalog. *)
ParkedRow(i) == [lessons[i] EXCEPT !.active = FALSE, !.ordinal = offset + i]
SettledRow(i) ==
    [lessons[i] EXCEPT !.active  = FALSE,
                       !.ordinal = ParkedOrdinal(lessons, course, catalog, i)]

PositionIn(table, c, cat, S, i) == CHOOSE k \in S : IdAt(table, c, cat, k) = i

RowNow(i) ==
    IF i \in Upserted
    THEN RowFrom(course, catalog,
                 PositionIn(lessons, course, catalog, DOMAIN idByOrdinal, i))
    ELSE IF i \notin Old \/ (phase = "park" /\ i \in todo)
    THEN lessons[i]
    ELSE IF phase = "retire" /\ i \notin todo
    THEN SettledRow(i)
    ELSE ParkedRow(i)

(* What is committed breaks no constraint ...                              *)
CommittedOK ==
    /\ IsLessonTable(lessons) /\ UniqueRows(lessons)
    /\ lessons = [i \in DOMAIN lessons |-> lessons[i]]
    /\ \A e \in prereqs : /\ e \in (Nat \ {0}) \X (Nat \ {0})
                          /\ e[1] # e[2]
                          /\ e[1] \in DOMAIN lessons /\ e[2] \in DOMAIN lessons

(* ... what the transaction read is still so, and the offset lies past     *)
(* every ordinal in use or to come ...                                     *)
ArgsOK ==
    /\ course \in Courses /\ catalog \in CatalogsOf[course]
    /\ idBySlug = [s \in {lessons[i].slug : i \in Old} |->
                     CHOOSE i \in Old : lessons[i].slug = s]
    /\ offset \in Nat /\ Len(catalog) < offset
    /\ \A i \in Old : lessons[i].ordinal < offset

(* ... the ids given out are those of Seeded ...                           *)
IdsOK ==
    /\ idByOrdinal \in Seq(Nat \ {0}) /\ Len(idByOrdinal) <= Len(catalog)
    /\ \A k \in DOMAIN idByOrdinal : idByOrdinal[k] = IdOf(k)
    /\ nextID = LastId(lessons, course)
                  + Rank(NewPositions(lessons, course, catalog), Len(idByOrdinal))
    /\ phase = "park" => idByOrdinal = <<>>
    /\ phase \in {"link", "retire"} => Len(idByOrdinal) = Len(catalog)

(* ... each loop has done a first part of its work ...                     *)
TodoOK ==
    /\ phase = "park" => todo \subseteq Old
    /\ phase = "upsert" => todo = {}
    /\ phase = "link" => todo \subseteq DOMAIN catalog
    /\ phase = "retire" => /\ todo \subseteq Dropped
                           /\ \A i \in Dropped \ todo, j \in todo : i < j

(* ... and the transaction's view of the tables is what that part makes of *)
(* the committed ones.                                                     *)
RowsOK == rows = [i \in DOMAIN lessons \cup Upserted |-> RowNow(i)]

LinkedSoFar == IF phase = "link" THEN DOMAIN catalog \ todo ELSE DOMAIN catalog
EdgesOK ==
    edges = IF phase \in {"park", "upsert"}
            THEN prereqs
            ELSE OtherEdges(lessons, prereqs, course)
                   \cup UNION {Links(k) : k \in LinkedSoFar}

Nothing ==
    /\ course = "none" /\ nextID = 0 /\ offset = 0 /\ idBySlug = NoRows
    /\ rows = NoRows /\ edges = {} /\ todo = {} /\ idByOrdinal = <<>>

Inv ==
    /\ CommittedOK
    /\ phase \in {"idle", "park", "upsert", "link", "retire"}
    /\ phase = "idle" => Nothing
    /\ phase # "idle" => ArgsOK /\ IdsOK /\ TodoOK /\ RowsOK /\ EdgesOK

-----------------------------------------------------------------------------
(* Facts about a state of the open transaction.                            *)

(* The catalog is one LoadLessons accepts, the committed table is sound.   *)
LEMMA OpenFacts ==
    ASSUME Inv, phase # "idle"
    PROVE  /\ IsLessonTable(lessons) /\ UniqueRows(lessons)
           /\ course \in Courses /\ IsCatalog(catalog)
           /\ DOMAIN catalog = 1 .. Len(catalog) /\ Len(catalog) \in Nat
           /\ DOMAIN idByOrdinal = 1 .. Len(idByOrdinal) /\ Len(idByOrdinal) \in Nat
           /\ DOMAIN idByOrdinal \subseteq DOMAIN catalog
           /\ offset \in Nat /\ Len(catalog) < offset
<1>1. ArgsOK /\ IdsOK /\ CommittedOK
  BY DEF Inv
<1>2. IsCatalog(catalog)
  BY <1>1, SeedAssumption DEF ArgsOK, SeedAssumption
<1>3. catalog \in Seq(CatalogEntry) /\ idByOrdinal \in Seq(Nat \ {0})
  BY <1>1, <1>2 DEF IsCatalog, IdsOK
<1>4. /\ DOMAIN catalog = 1 .. Len(catalog) /\ Len(catalog) \in Nat
      /\ DOMAIN idByOrdinal = 1 .. Len(idByOrdinal) /\ Len(idByOrdinal) \in Nat
  BY <1>3
<1>5. DOMAIN idByOrdinal \subseteq DOMAIN catalog
  <2> DEFINE m == Len(idByOrdinal)
             n == Len(catalog)
  <2>1. /\ DOMAIN catalog = 1 .. n /\ DOMAIN idByOrdinal = 1 .. m
        /\ n \in Nat /\ m \in Nat /\ m <= n
    BY <1>1, <1>4 DEF IdsOK
  <2> HIDE DEF m, n
  <2> QED
    BY <2>1
<1> QED
  BY <1>1, <1>2, <1>4, <1>5 DEF ArgsOK, CommittedOK

(* The rows of the view: the catalog's, as far as they are upserted, and   *)
(* the committed ones, parked or settled.                                  *)
LEMMA ViewRows ==
    ASSUME Inv, phase # "idle"
    PROVE  /\ DOMAIN rows = DOMAIN lessons \cup Upserted
           /\ \A k \in DOMAIN idByOrdinal :
                 /\ IdOf(k) \in DOMAIN rows /\ IdOf(k) \in Nat \ {0}
                 /\ rows[IdOf(k)] = RowFrom(course, catalog, k)
           /\ \A i \in DOMAIN rows \ Upserted : i \in DOMAIN lessons /\ rows[i] = RowNow(i)
<1>1. rows = [i \in DOMAIN lessons \cup Upserted |-> RowNow(i)]
  BY DEF Inv, RowsOK
<1>2. ASSUME NEW k \in DOMAIN idByOrdinal
      PROVE  /\ IdOf(k) \in Upserted /\ IdOf(k) \in Nat \ {0}
             /\ RowNow(IdOf(k)) = RowFrom(course, catalog, k)
  <2> DEFINE n == PositionIn(lessons, course, catalog, DOMAIN idByOrdinal, IdOf(k))
  <2>1. n \in DOMAIN idByOrdinal /\ IdOf(n) = IdOf(k)
    BY DEF PositionIn, IdOf
  <2>2. n = k
    BY <2>1, OpenFacts, IdAtInjective DEF IdOf
  <2>3. IdOf(k) \in Nat \ {0}
    BY OpenFacts, IdAtType DEF IdOf
  <2>4. IdOf(k) \in Upserted
    BY DEF Upserted
  <2> QED
    BY <2>2, <2>3, <2>4 DEF RowNow
<1> QED
  BY <1>1, <1>2

(* A row of the course whose slug the catalog has is one it will upsert.   *)
LEMMA SlugIsUpserted ==
    ASSUME Inv, phase # "idle", NEW i \in Old, NEW k \in DOMAIN catalog,
           catalog[k].slug = lessons[i].slug
    PROVE  IdOf(k) = i
<1>1. Known(lessons, course, catalog[k].slug)
  BY DEF Known, Old
<1>2. IdOf(k) \in IdsOf(lessons, course) /\ lessons[IdOf(k)].slug = catalog[k].slug
  BY <1>1, IdAtKnown DEF IdOf
<1> QED
  BY <1>2, OpenFacts DEF IdsOf, UniqueRows, Old

(* Once the whole catalog is upserted, the rest of the course is what the  *)
(* catalog dropped.                                                        *)
LEMMA RestIsDropped ==
    ASSUME Inv, phase \in {"link", "retire"}
    PROVE  /\ Upserted = Live(lessons, course, catalog)
           /\ \A i \in Old : i \notin Upserted <=> i \in Dropped
           /\ Dropped \subseteq Old
<1>1. DOMAIN idByOrdinal = DOMAIN catalog
  BY OpenFacts DEF Inv, IdsOK
<1>2. Upserted = Live(lessons, course, catalog)
  BY <1>1 DEF Upserted, Live, IdOf
<1>3. Dropped \subseteq Old
  BY DEF Dropped, Retired, Old
<1>4. Upserted \cap Dropped = {}
  BY <1>2, OpenFacts, SeededIds DEF Dropped
<1>5. ASSUME NEW i \in Old, i \notin Upserted PROVE i \in Dropped
  <2>1. \A k \in DOMAIN catalog : IdOf(k) \in Upserted
    BY <1>1 DEF Upserted
  <2>2. \A k \in DOMAIN catalog : catalog[k].slug # lessons[i].slug
    BY <1>5, <2>1, SlugIsUpserted
  <2> QED
    BY <2>2 DEF Dropped, Retired, Old
<1> QED
  BY <1>2, <1>3, <1>4, <1>5

(* A row of the course that is not upserted keeps its slug; it is at its   *)
(* old ordinal, parked beyond the offset, or settled behind the catalog.   *)
LEMMA OldRow ==
    ASSUME Inv, phase # "idle", NEW i \in Old, i \notin Upserted
    PROVE  /\ i \in DOMAIN rows /\ i \in Nat \ {0}
           /\ rows[i].course = course /\ rows[i].slug = lessons[i].slug
           /\ \/ /\ phase = "park" /\ i \in todo /\ rows[i] = lessons[i]
                 /\ rows[i].ordinal \in Nat /\ rows[i].ordinal < offset
              \/ /\ phase = "retire" /\ i \in Dropped \ todo
                 /\ rows[i].ordinal = Len(catalog) + Rank(Dropped, i)
                 /\ rows[i].active = FALSE
              \/ /\ ~(phase = "park" /\ i \in todo)
                 /\ ~(phase = "retire" /\ i \notin todo)
                 /\ rows[i].ordinal = offset + i /\ rows[i].active = FALSE
<1>1. i \in DOMAIN lessons /\ lessons[i].course = course
  BY DEF Old, IdsOf
<1>2. lessons[i] \in LessonRow /\ i \in Nat \ {0}
  BY <1>1, OpenFacts DEF IsLessonTable
<1>3. i \in DOMAIN rows /\ rows[i] = RowNow(i)
  BY <1>1, ViewRows
<1>4. CASE phase = "park" /\ i \in todo
  <2>1. rows[i] = lessons[i]
    BY <1>3, <1>4 DEF RowNow
  <2>2. lessons[i].ordinal < offset
    BY DEF Inv, ArgsOK
  <2> QED
    BY <1>1, <1>2, <1>3, <1>4, <2>1, <2>2 DEF LessonRow
<1>5. CASE phase = "retire" /\ i \notin todo
  <2>1. rows[i] = SettledRow(i)
    BY <1>3, <1>5 DEF RowNow
  <2>2. i \in Dropped
    BY <1>5, RestIsDropped
  <2> QED
    BY <1>1, <1>2, <1>3, <1>5, <2>1, <2>2
       DEF SettledRow, ParkedOrdinal, LessonRow, Dropped
<1>6. CASE ~(phase = "park" /\ i \in todo) /\ ~(phase = "retire" /\ i \notin todo)
  <2>1. rows[i] = ParkedRow(i)
    BY <1>3, <1>6 DEF RowNow
  <2> QED
    BY <1>1, <1>2, <1>3, <1>6, <2>1 DEF ParkedRow, LessonRow
<1> QED
  BY <1>4, <1>5, <1>6

(* No two ordinals of the course meet: catalog, settled and parked rows    *)
(* have ranges of their own, and a row that waits to be parked is below    *)
(* the offset.                                                             *)
LEMMA CatalogBelowRest ==
    ASSUME Inv, phase # "idle", NEW k \in DOMAIN idByOrdinal,
           NEW i \in Old, i \notin Upserted
    PROVE  /\ rows[i].ordinal # rows[IdOf(k)].ordinal
           /\ rows[i].slug # rows[IdOf(k)].slug
<1>1. rows[IdOf(k)].ordinal = k /\ rows[IdOf(k)].slug = catalog[k].slug
  <2>1. rows[IdOf(k)] = RowFrom(course, catalog, k)
    BY ViewRows
  <2> QED
    BY <2>1 DEF RowFrom
<1>2. rows[i].slug = lessons[i].slug
  BY OldRow
<1>3. k \in DOMAIN catalog /\ IdOf(k) \in Upserted
  BY OpenFacts DEF Upserted
<1>4. catalog[k].slug # lessons[i].slug
  BY <1>3, SlugIsUpserted
<1>5. k \in Nat /\ k <= Len(catalog) /\ phase # "park"
  <2>1. k \in Nat /\ k <= Len(catalog)
    BY <1>3, OpenFacts
  <2>2. idByOrdinal # <<>>
    OBVIOUS
  <2> QED
    BY <2>1, <2>2 DEF Inv, IdsOK
<1>6. rows[i].ordinal > Len(catalog)
  <2>1. CASE phase = "retire" /\ i \in Dropped /\
             rows[i].ordinal = Len(catalog) + Rank(Dropped, i)
    <3>1. Rank(Dropped, i) \in Nat /\ Rank(Dropped, i) >= 1
      BY <2>1, OpenFacts, RetiredFinite, RankBounds DEF Dropped
    <3> QED
      BY <2>1, <3>1, OpenFacts
  <2>2. CASE rows[i].ordinal = offset + i
    <3>1. /\ i \in Nat /\ offset \in Nat
          /\ Len(catalog) \in Nat /\ Len(catalog) < offset
      BY OldRow, OpenFacts
    <3> QED
      BY <2>2, <3>1
  <2> QED
    BY <1>5, <2>1, <2>2, OldRow
<1> QED
  BY <1>1, <1>2, <1>4, <1>5, <1>6, OpenFacts

(* Nor do two rows that are not upserted, settled or not.                  *)
LEMMA OldRowsApart ==
    ASSUME Inv, phase # "idle", NEW i \in Old, i \notin Upserted,
           NEW j \in Old, j \notin Upserted, rows[i].ordinal = rows[j].ordinal
    PROVE  i = j
<1> DEFINE Untouched(m) == phase = "park" /\ m \in todo
           Settled(m) == phase = "retire" /\ m \notin todo
<1>1. /\ offset \in Nat /\ Len(catalog) \in Nat /\ Len(catalog) < offset
      /\ i \in Nat \ {0} /\ j \in Nat \ {0}
  BY OpenFacts, OldRow
<1>2. ASSUME NEW m \in Old, m \notin Upserted, Settled(m)
      PROVE  /\ m \in Dropped /\ rows[m].ordinal = Len(catalog) + Rank(Dropped, m)
             /\ Rank(Dropped, m) \in Nat /\ Rank(Dropped, m) <= m
  <2>1. m \in Dropped /\ rows[m].ordinal = Len(catalog) + Rank(Dropped, m)
    BY <1>2, OldRow
  <2>2. Dropped \in SUBSET (Nat \ {0})
    BY OpenFacts DEF Dropped, Retired, IdsOf, IsLessonTable
  <2>3. m \in Nat
    BY <2>1, <2>2
  <2> QED
    BY <2>1, <2>2, <2>3, RankAtMost
<1>3. ASSUME NEW m \in Old, m \notin Upserted, ~Untouched(m), ~Settled(m)
      PROVE  rows[m].ordinal = offset + m
  BY <1>3, OldRow
<1>4. ASSUME NEW m \in Old, m \notin Upserted, Untouched(m)
      PROVE  rows[m] = lessons[m] /\ rows[m].ordinal \in Nat /\ rows[m].ordinal < offset
  BY <1>4, OldRow
<1>5. ASSUME NEW m \in Old, m \notin Upserted, Settled(m),
             NEW n \in Old, n \notin Upserted, ~Settled(n)
      PROVE  rows[m].ordinal # rows[n].ordinal
  <2>1. n \in todo /\ m \in Dropped \ todo /\ m < n
    BY <1>2, <1>5 DEF Inv, TodoOK
  <2>2. rows[n].ordinal = offset + n
    BY <1>3, <1>5
  <2>3. /\ m \in Nat /\ n \in Nat
        /\ rows[m].ordinal = Len(catalog) + Rank(Dropped, m)
        /\ Rank(Dropped, m) \in Nat /\ Rank(Dropped, m) <= m
    BY <1>2, <1>5, OldRow
  <2> QED
    BY <1>1, <2>1, <2>2, <2>3
<1>6. CASE Settled(i) /\ Settled(j)
  <2>1. Rank(Dropped, i) = Rank(Dropped, j)
    BY <1>1, <1>2, <1>6
  <2>2. IsFiniteSet(Dropped) /\ Dropped \in SUBSET Int
    BY OpenFacts, RetiredFinite DEF Dropped
  <2> QED
    BY <1>2, <1>6, <2>1, <2>2, RankInjective
<1>7. CASE Untouched(i) /\ Untouched(j)
  <2>1. lessons[i].ordinal = lessons[j].ordinal
    BY <1>4, <1>7
  <2>2. /\ i \in DOMAIN lessons /\ j \in DOMAIN lessons
        /\ lessons[i].course = lessons[j].course
    BY DEF Old, IdsOf
  <2> QED
    BY <2>1, <2>2, OpenFacts DEF UniqueRows
<1>8. CASE ~Settled(i) /\ ~Settled(j) /\ ~(Untouched(i) /\ Untouched(j))
  BY <1>1, <1>3, <1>4, <1>8
<1> QED
  BY <1>5, <1>6, <1>7, <1>8

(* A row keeps its course through the transaction, and a row the           *)
(* transaction adds is one of the course.                                  *)
LEMMA ViewCourses ==
    ASSUME Inv, phase # "idle"
    PROVE  /\ \A i \in DOMAIN lessons : i \in DOMAIN rows /\ rows[i].course = lessons[i].course
           /\ \A i \in Upserted : i \in DOMAIN rows /\ rows[i].course = course /\ rows[i].active
           /\ \A i \in DOMAIN rows : rows[i].course = course <=> i \in Upserted \cup Old
           /\ \A i \in DOMAIN rows \ (Upserted \cup Old) : i \in DOMAIN lessons /\ rows[i] = lessons[i]
<1>1. \A i \in Upserted : i \in DOMAIN rows /\ rows[i].course = course /\ rows[i].active
  <2> SUFFICES ASSUME NEW k \in DOMAIN idByOrdinal
               PROVE  /\ IdOf(k) \in DOMAIN rows
                      /\ rows[IdOf(k)].course = course /\ rows[IdOf(k)].active
    BY DEF Upserted
  <2>1. IdOf(k) \in DOMAIN rows /\ rows[IdOf(k)] = RowFrom(course, catalog, k)
    BY ViewRows
  <2> QED
    BY <2>1 DEF RowFrom
<1>2. ASSUME NEW i \in DOMAIN lessons, i \in Upserted PROVE lessons[i].course = course
  <2>1. PICK k \in DOMAIN idByOrdinal : i = IdOf(k)
    BY <1>2 DEF Upserted
  <2>2. k \in DOMAIN catalog /\ IdAt(lessons, course, catalog, k) \in DOMAIN lessons
    BY <1>2, <2>1, OpenFacts DEF IdOf
  <2>3. Known(lessons, course, catalog[k].slug)
    BY <2>2, OpenFacts, IdAtTaken
  <2> QED
    BY <2>1, <2>3, IdAtKnown DEF IdOf, IdsOf
<1>3. ASSUME NEW i \in DOMAIN rows, i \notin Upserted, i \notin Old
      PROVE  i \in DOMAIN lessons /\ rows[i] = lessons[i] /\ lessons[i].course # course
  BY <1>3, ViewRows DEF RowNow, Old, IdsOf
<1>4. \A i \in Old : i \notin Upserted => rows[i].course = course
  BY OldRow
<1>5. DOMAIN lessons \subseteq DOMAIN rows
  BY ViewRows
<1>6. \A i \in Old : i \in DOMAIN lessons /\ lessons[i].course = course
  BY DEF Old, IdsOf
<1> QED
  BY <1>1, <1>2, <1>3, <1>4, <1>5, <1>6

(* UNIQUE(course_id, slug) and UNIQUE(course_id, ordinal) hold between any *)
(* two statements, and between any two rows of one.                        *)
LEMMA ViewUnique ==
    ASSUME Inv, phase # "idle"
    PROVE  UniqueRows(rows)
<1> SUFFICES ASSUME NEW i \in DOMAIN rows, NEW j \in DOMAIN rows,
                    rows[i].course = rows[j].course,
                    rows[i].slug = rows[j].slug \/ rows[i].ordinal = rows[j].ordinal
             PROVE  i = j
  BY DEF UniqueRows
<1>1. CASE i \notin Upserted \cup Old
  <2>1. j \notin Upserted \cup Old
    BY <1>1, ViewCourses
  <2>2. /\ rows[i] = lessons[i] /\ rows[j] = lessons[j]
        /\ i \in DOMAIN lessons /\ j \in DOMAIN lessons
    BY <1>1, <2>1, ViewCourses
  <2> QED
    BY <2>2, OpenFacts DEF UniqueRows
<1>2. CASE i \in Upserted \cup Old
  <2>0. j \in Upserted \cup Old
    BY <1>2, ViewCourses
  <2>1. CASE i \in Upserted /\ j \in Upserted
    <3>1. PICK k \in DOMAIN idByOrdinal : i = IdOf(k)
      BY <2>1 DEF Upserted
    <3>2. PICK n \in DOMAIN idByOrdinal : j = IdOf(n)
      BY <2>1 DEF Upserted
    <3>3. rows[i] = RowFrom(course, catalog, k) /\ rows[j] = RowFrom(course, catalog, n)
      BY <3>1, <3>2, ViewRows
    <3>4. catalog[k].slug = catalog[n].slug \/ k = n
      BY <3>3 DEF RowFrom
    <3>5. k = n
      BY <3>4, OpenFacts DEF IsCatalog
    <3> QED
      BY <3>1, <3>2, <3>5
  <2>2. CASE i \in Upserted /\ j \notin Upserted
    <3>1. PICK k \in DOMAIN idByOrdinal : i = IdOf(k)
      BY <2>2 DEF Upserted
    <3> QED
      BY <2>0, <2>2, <3>1, CatalogBelowRest
  <2>3. CASE i \notin Upserted /\ j \in Upserted
    <3>1. PICK k \in DOMAIN idByOrdinal : j = IdOf(k)
      BY <2>3 DEF Upserted
    <3> QED
      BY <1>2, <2>3, <3>1, CatalogBelowRest
  <2>4. CASE i \notin Upserted /\ j \notin Upserted
    <3>1. CASE rows[i].slug = rows[j].slug
      <4>1. lessons[i].slug = lessons[j].slug
        BY <1>2, <2>0, <2>4, <3>1, OldRow
      <4>2. /\ i \in DOMAIN lessons /\ j \in DOMAIN lessons
            /\ lessons[i].course = lessons[j].course
        BY <1>2, <2>0, <2>4 DEF Old, IdsOf
      <4> QED
        BY <4>1, <4>2, OpenFacts DEF UniqueRows
    <3>2. CASE rows[i].ordinal = rows[j].ordinal
      BY <1>2, <2>0, <2>4, <3>2, OldRowsApart
    <3> QED
      BY <3>1, <3>2
  <2> QED
    BY <2>1, <2>2, <2>3, <2>4
<1> QED
  BY <1>1, <1>2

(* A lesson of a catalog needs earlier lessons of it.                      *)
LEMMA NeedsEarlier ==
    ASSUME NEW cat, IsCatalog(cat), NEW k \in DOMAIN cat, NEW n \in cat[k].needs
    PROVE  n \in DOMAIN cat /\ n < k
<1>1. cat \in Seq(CatalogEntry) /\ cat[k].needs \subseteq 1 .. k - 1
  BY DEF IsCatalog
<1>2. DOMAIN cat = 1 .. Len(cat) /\ Len(cat) \in Nat
  BY <1>1
<1> QED
  BY <1>1, <1>2

(* The CHECK and the REFERENCES of lesson_prerequisites hold throughout.   *)
LEMMA ViewEdges ==
    ASSUME Inv, phase # "idle", NEW e \in edges
    PROVE  /\ e \in (Nat \ {0}) \X (Nat \ {0}) /\ e[1] # e[2]
           /\ e[1] \in DOMAIN rows /\ e[2] \in DOMAIN rows
<1>1. EdgesOK /\ CommittedOK
  BY DEF Inv
<1>2. CASE e \in prereqs
  BY <1>1, <1>2, ViewRows DEF CommittedOK
<1>3. CASE e \notin prereqs
  <2>1. e \in UNION {Links(k) : k \in LinkedSoFar} /\ phase \notin {"park", "upsert"}
    BY <1>1, <1>3 DEF EdgesOK, OtherEdges
  <2>2. phase \in {"link", "retire"}
    BY <2>1 DEF Inv
  <2>3. DOMAIN idByOrdinal = DOMAIN catalog
    BY <2>2, OpenFacts DEF Inv, IdsOK
  <2>4. PICK k \in DOMAIN catalog : e \in Links(k)
    BY <2>1 DEF LinkedSoFar
  <2>5. PICK n \in catalog[k].needs : e = <<IdOf(k), IdOf(n)>>
    BY <2>4 DEF Links
  <2>6. n \in DOMAIN catalog /\ n # k
    BY <2>5, OpenFacts, NeedsEarlier
  <2>7. IdOf(k) # IdOf(n)
    BY <2>6, OpenFacts, IdAtInjective DEF IdOf
  <2>8. /\ IdOf(k) \in DOMAIN rows /\ IdOf(k) \in Nat \ {0}
        /\ IdOf(n) \in DOMAIN rows /\ IdOf(n) \in Nat \ {0}
    BY <2>3, <2>6, ViewRows
  <2> QED
    BY <2>5, <2>7, <2>8
<1> QED
  BY <1>2, <1>3

(* So the invariant is what SQLite checks, and more.                       *)
LEMMA InvAccepted == Inv => StatementsAccepted
<1> SUFFICES ASSUME Inv PROVE StatementsAccepted
  OBVIOUS
<1>1. CASE phase = "idle"
  BY <1>1 DEF Inv, Nothing, NoRows, StatementsAccepted, UniqueRows
<1>2. CASE phase # "idle"
  BY <1>2, ViewUnique, ViewEdges DEF StatementsAccepted
<1> QED
  BY <1>1, <1>2

-----------------------------------------------------------------------------
(* The steps.  An empty database and no transaction.                       *)
LEMMA InitInv == Init => Inv
<1> SUFFICES ASSUME Init PROVE Inv
  OBVIOUS
<1>1. /\ DOMAIN NoRows = {} /\ IsFiniteSet({})
      /\ NoRows = [i \in DOMAIN NoRows |-> NoRows[i]]
  BY FS_EmptySet DEF NoRows
<1> QED
  BY <1>1 DEF Init, Inv, CommittedOK, Nothing, IsLessonTable, UniqueRows

(* While the transaction is open its arguments and the committed tables,   *)
(* and what is computed from them, stay.                                   *)
LEMMA SameArgs ==
    ASSUME Inv, phase # "idle", UNCHANGED <<committed, args>>
    PROVE  /\ CommittedOK' /\ ArgsOK'
           /\ UNCHANGED <<lessons, prereqs, course, catalog, idBySlug, offset, Old, Dropped>>
           /\ \A k : IdOf(k)' = IdOf(k)
           /\ \A k : Links(k)' = Links(k)
           /\ \A i : ParkedRow(i)' = ParkedRow(i)
           /\ \A i : SettledRow(i)' = SettledRow(i)
<1>1. UNCHANGED <<lessons, prereqs, course, catalog, idBySlug, offset>>
  BY DEF committed, args
<1>2. UNCHANGED <<Old, Dropped>> /\ \A k : IdOf(k)' = IdOf(k)
  BY <1>1 DEF Old, Dropped, IdOf
<1>3. \A k : Links(k)' = Links(k)
  BY <1>1, <1>2 DEF Links
<1>4. (\A i : ParkedRow(i)' = ParkedRow(i)) /\ (\A i : SettledRow(i)' = SettledRow(i))
  BY <1>1 DEF ParkedRow, SettledRow
<1>5. CommittedOK' /\ ArgsOK'
  BY <1>1, <1>2 DEF Inv, CommittedOK, ArgsOK
<1> QED
  BY <1>1, <1>2, <1>3, <1>4, <1>5

(* What the transaction reads at its start; the offset is one past all.    *)
LEMMA BeginInv ==
    ASSUME Inv, NEW c \in Courses, NEW cat \in CatalogsOf[c], Begin(c, cat)
    PROVE  Inv'
<1>1. /\ phase' = "park" /\ course' = c /\ catalog' = cat
      /\ rows' = lessons /\ edges' = prereqs /\ idByOrdinal' = <<>>
      /\ nextID' = TopId(lessons) /\ offset' = Offset(c, cat)
      /\ todo' = IdsOf(lessons, c)
      /\ idBySlug' = [s \in {lessons[i].slug : i \in IdsOf(lessons, c)} |->
                        CHOOSE i \in IdsOf(lessons, c) : lessons[i].slug = s]
      /\ UNCHANGED <<lessons, prereqs>>
  BY DEF Begin, committed
<1>2. IsLessonTable(lessons) /\ CommittedOK'
  BY <1>1 DEF Inv, CommittedOK
<1>3. IsCatalog(cat) /\ Len(cat) \in Nat /\ DOMAIN cat = 1 .. Len(cat)
  BY SeedAssumption DEF SeedAssumption, IsCatalog
<1>4. /\ Offset(c, cat) \in Nat /\ Len(cat) < Offset(c, cat)
      /\ \A i \in IdsOf(lessons, c) : lessons[i].ordinal < Offset(c, cat)
  <2> DEFINE ids == IdsOf(lessons, c)
             ordinals == {lessons[i].ordinal : i \in ids}
             S == {Len(cat)} \cup ordinals
             f == [i \in ids |-> lessons[i].ordinal]
  <2>1. ids \in SUBSET DOMAIN lessons
    BY DEF IdsOf
  <2>2. \A i \in ids : lessons[i].ordinal \in Nat
    BY <1>2, <2>1 DEF IsLessonTable, LessonRow
  <2>3. IsFiniteSet(ids)
    BY <1>2, <2>1, FS_Subset DEF IsLessonTable
  <2>4. f \in Surjection(ids, ordinals)
    BY DEF Surjection
  <2>5. IsFiniteSet(ordinals)
    BY <2>3, <2>4, FS_Surjection
  <2>6. IsFiniteSet(S) /\ S \in SUBSET Nat /\ S # {}
    BY <1>3, <2>2, <2>5, FS_Union, FS_Singleton
  <2>7. \E m \in S : \A x \in S : m >= x
    <3> HIDE DEF S
    <3>1. PICK m \in S : \A x \in S : x <= m
      BY <2>6, FiniteSetHasGreatest
    <3>2. \A x \in S : m >= x
      BY <2>6, <3>1
    <3> QED
      BY <3>2
  <2>8. Max(S) \in S /\ \A x \in S : Max(S) >= x
    BY <2>7 DEF Max
  <2>9. Offset(c, cat) = Max(S) + 1
    BY DEF Offset
  <2>10. Max(S) \in Nat /\ Len(cat) \in S /\ \A i \in ids : lessons[i].ordinal \in S
    BY <2>6, <2>8
  <2> HIDE DEF S
  <2> QED
    BY <1>3, <2>2, <2>8, <2>9, <2>10
<1>5. ArgsOK'
  BY <1>1, <1>4 DEF ArgsOK, Old
<1>6. IdsOK'
  <2> DEFINE P == NewPositions(lessons, c, cat)
  <2>1. Rank(P, 0) = 0
    <3>1. P \in SUBSET (Nat \ {0})
      BY <1>3 DEF NewPositions
    <3>2. Rank(P, 0) \in Nat /\ Rank(P, 0) <= 0
      BY <3>1, RankAtMost
    <3> QED
      BY <3>2
  <2>2. Len(idByOrdinal') = 0 /\ idByOrdinal' \in Seq(Nat \ {0}) /\ DOMAIN idByOrdinal' = {}
    BY <1>1
  <2>3. nextID' = LastId(lessons, c) + Rank(P, 0)
    <3>1. TopId(lessons) \in Nat
      BY <1>2, TopIdBounds DEF IsLessonTable
    <3> QED
      BY <1>1, <2>1, <3>1 DEF LastId
  <2> QED
    BY <1>1, <1>3, <2>2, <2>3 DEF IdsOK
<1>7. TodoOK'
  BY <1>1 DEF TodoOK, Old
<1>8. RowsOK'
  <2>1. Upserted' = {}
    BY <1>1 DEF Upserted
  <2>2. \A i \in DOMAIN lessons : RowNow(i)' = lessons[i]
    BY <1>1, <2>1 DEF RowNow, Old
  <2>3. lessons = [i \in DOMAIN lessons |-> lessons[i]]
    BY DEF Inv, CommittedOK
  <2> QED
    BY <1>1, <2>1, <2>2, <2>3 DEF RowsOK
<1>9. EdgesOK'
  BY <1>1 DEF EdgesOK
<1> QED
  BY <1>1, <1>2, <1>5, <1>6, <1>7, <1>8, <1>9 DEF Inv

(* One row parked: the rows still to visit stay as committed.              *)
LEMMA ParkOneInv ==
    ASSUME Inv, NEW i \in todo, ParkOne(i)
    PROVE  Inv'
<1>1. /\ phase = "park" /\ phase' = "park" /\ todo' = todo \ {i}
      /\ rows' = [rows EXCEPT ![i].active = FALSE, ![i].ordinal = offset + i]
      /\ UNCHANGED <<committed, args>> /\ UNCHANGED <<nextID, edges, idByOrdinal>>
  BY DEF ParkOne
<1>2. /\ CommittedOK' /\ ArgsOK'
      /\ UNCHANGED <<lessons, prereqs, course, catalog, idBySlug, offset, Old, Dropped>>
      /\ \A k : IdOf(k)' = IdOf(k)
      /\ \A j : ParkedRow(j)' = ParkedRow(j)
  BY <1>1, SameArgs
<1>3. Upserted = {} /\ Upserted' = {} /\ todo \subseteq Old
  BY <1>1 DEF Inv, IdsOK, TodoOK, Upserted
<1>4. IdsOK'
  BY <1>1, <1>2 DEF Inv, IdsOK
<1>5. TodoOK'
  BY <1>1, <1>2, <1>3 DEF TodoOK
<1>6. RowsOK'
  <2>1. /\ DOMAIN rows = DOMAIN lessons
        /\ \A j \in DOMAIN rows : rows[j] = RowNow(j)
    BY <1>3, ViewRows, <1>1
  <2>2. i \in DOMAIN lessons /\ rows[i] = lessons[i]
    BY <1>1, <1>3, <2>1 DEF RowNow, Old, IdsOf
  <2>3. rows' = [j \in DOMAIN lessons |->
                   IF j = i THEN [rows[i] EXCEPT !.active = FALSE, !.ordinal = offset + i]
                   ELSE rows[j]]
    BY <1>1, <2>1, <2>2
  <2>4. [rows[i] EXCEPT !.active = FALSE, !.ordinal = offset + i] = ParkedRow(i)
    BY <2>2 DEF ParkedRow
  <2>5. RowNow(i)' = ParkedRow(i)
    BY <1>1, <1>2, <1>3 DEF RowNow
  <2>6. \A j \in DOMAIN lessons : j # i => RowNow(j)' = RowNow(j)
    BY <1>1, <1>2, <1>3 DEF RowNow
  <2> QED
    BY <1>2, <1>3, <2>1, <2>3, <2>4, <2>5, <2>6 DEF RowsOK
<1>7. EdgesOK'
  BY <1>1, <1>2 DEF Inv, EdgesOK
<1> QED
  BY <1>1, <1>2, <1>4, <1>5, <1>6, <1>7 DEF Inv

(* All rows parked.                                                        *)
LEMMA ParkedInv ==
    ASSUME Inv, Parked
    PROVE  Inv'
<1>1. /\ phase = "park" /\ phase' = "upsert" /\ todo = {}
      /\ UNCHANGED <<committed, args>> /\ UNCHANGED <<nextID, rows, edges, todo, idByOrdinal>>
  BY DEF Parked
<1>2. /\ CommittedOK' /\ ArgsOK'
      /\ UNCHANGED <<lessons, prereqs, course, catalog, Old>>
      /\ \A k : IdOf(k)' = IdOf(k)
      /\ \A j : ParkedRow(j)' = ParkedRow(j)
  BY <1>1, SameArgs
<1>3. Upserted = {} /\ Upserted' = {}
  BY <1>1 DEF Inv, IdsOK, Upserted
<1>4. IdsOK' /\ TodoOK'
  BY <1>1, <1>2 DEF Inv, IdsOK, TodoOK
<1>5. RowsOK'
  <2>1. \A j : RowNow(j)' = RowNow(j)
    BY <1>1, <1>2, <1>3 DEF RowNow
  <2> QED
    BY <1>1, <1>2, <1>3, <2>1 DEF Inv, RowsOK
<1>6. EdgesOK'
  BY <1>1, <1>2 DEF Inv, EdgesOK
<1> QED
  BY <1>1, <1>2, <1>4, <1>5, <1>6 DEF Inv

(* The next lesson gets the id Seeded gives it: the map read at the start  *)
(* holds the course's slugs, the counter has passed the new ones.          *)
LEMMA NextId ==
    ASSUME Inv, phase = "upsert", NEW k \in DOMAIN catalog, k = Len(idByOrdinal) + 1
    PROVE  LET known == catalog[k].slug \in DOMAIN idBySlug
           IN  /\ known => idBySlug[catalog[k].slug] = IdOf(k)
               /\ ~known => nextID + 1 = IdOf(k)
               /\ (IF known THEN nextID ELSE nextID + 1)
                    = LastId(lessons, course) + Rank(NewPositions(lessons, course, catalog), k)
<1> DEFINE P == NewPositions(lessons, course, catalog)
           s == catalog[k].slug
           m == Len(idByOrdinal)
<1>1. ArgsOK /\ nextID = LastId(lessons, course) + Rank(P, m)
  BY DEF Inv, IdsOK
<1>2. s \in DOMAIN idBySlug <=> Known(lessons, course, s)
  BY <1>1 DEF ArgsOK, Known, Old
<1>3. P \in SUBSET Int /\ IsFiniteSet(P)
  <2> DEFINE n == Len(catalog)
  <2>1. n \in Nat /\ DOMAIN catalog = 1 .. n
    BY OpenFacts
  <2> HIDE DEF n
  <2>2. IsFiniteSet(1 .. n)
    BY <2>1, FS_Interval
  <2>3. P \in SUBSET (1 .. n)
    BY <2>1 DEF NewPositions
  <2>4. P \in SUBSET Int
    BY <2>1, <2>3
  <2>5. IsFiniteSet(P)
    BY <2>2, <2>3, FS_Subset
  <2> QED
    BY <2>4, <2>5
<1>4. m \in Nat /\ Rank(P, m) \in Nat /\ LastId(lessons, course) \in Nat
  <2>1. m \in Nat /\ IsLessonTable(lessons)
    BY OpenFacts
  <2>2. TopId(lessons) \in Nat
    BY <2>1, TopIdBounds DEF IsLessonTable
  <2>3. Rank(P, m) \in Nat
    BY <1>3, <2>1, RankBounds
  <2> QED
    BY <2>1, <2>2, <2>3 DEF LastId
<1>5. Rank(P, k) = IF k \in P THEN Rank(P, m) + 1 ELSE Rank(P, m)
  <2>1. m \in Int /\ k = m + 1
    BY <1>4
  <2> HIDE DEF P, m
  <2>2. Rank(P, m + 1) = IF m + 1 \in P THEN Rank(P, m) + 1 ELSE Rank(P, m)
    BY <1>3, <2>1, RankNext
  <2> QED
    BY <2>1, <2>2
<1>6. k \in P <=> ~Known(lessons, course, s)
  BY DEF NewPositions
<1>7. CASE Known(lessons, course, s)
  <2>1. IdOf(k) = CHOOSE i \in Old : lessons[i].slug = s
    BY <1>7 DEF IdOf, IdAt, Old
  <2>2. idBySlug[s] = CHOOSE i \in Old : lessons[i].slug = s
    BY <1>1, <1>2, <1>7 DEF ArgsOK
  <2> QED
    BY <1>1, <1>2, <1>5, <1>6, <1>7, <2>1, <2>2
<1>8. CASE ~Known(lessons, course, s)
  <2>1. IdOf(k) = LastId(lessons, course) + Rank(P, k)
    BY <1>8 DEF IdOf, IdAt
  <2> HIDE DEF P, m
  <2> QED
    BY <1>1, <1>2, <1>4, <1>5, <1>6, <1>8, <2>1 DEF P
<1> QED
  BY <1>7, <1>8

(* One lesson upserted, under the id Seeded gives it.                      *)
LEMMA UpsertInv ==
    ASSUME Inv, Upsert
    PROVE  Inv'
<1>0. PICK k \in Nat : k = Len(idByOrdinal) + 1
  BY OpenFacts DEF Upsert
<1>1. /\ phase = "upsert" /\ phase' = "upsert" /\ k <= Len(catalog)
      /\ UNCHANGED <<committed, args>> /\ UNCHANGED <<edges, todo>>
  BY <1>0 DEF Upsert
<1>2. /\ CommittedOK' /\ ArgsOK'
      /\ UNCHANGED <<lessons, prereqs, course, catalog, Old>>
      /\ \A n : IdOf(n)' = IdOf(n)
      /\ \A j : ParkedRow(j)' = ParkedRow(j)
  BY <1>1, SameArgs
<1>3. k \in DOMAIN catalog
  <2> DEFINE m == Len(idByOrdinal)
             n == Len(catalog)
  <2>1. m \in Nat /\ n \in Nat /\ DOMAIN catalog = 1 .. n /\ k <= n /\ k = m + 1
    BY <1>0, <1>1, OpenFacts
  <2> HIDE DEF m, n
  <2> QED
    BY <2>1
<1>4. /\ idByOrdinal' = Append(idByOrdinal, IdOf(k))
      /\ rows' = Put(rows, IdOf(k), RowFrom(course, catalog, k))
      /\ nextID' = LastId(lessons, course)
                     + Rank(NewPositions(lessons, course, catalog), k)
  BY <1>0, <1>1, <1>3, NextId DEF Upsert, UpsertedRow
<1>5. IdOf(k) \in Nat \ {0}
  BY <1>1, <1>3, OpenFacts, IdAtType DEF IdOf
<1>6. /\ idByOrdinal' \in Seq(Nat \ {0}) /\ Len(idByOrdinal') = k
      /\ DOMAIN idByOrdinal' = DOMAIN idByOrdinal \cup {k}
      /\ idByOrdinal'[k] = IdOf(k)
      /\ \A n \in DOMAIN idByOrdinal : idByOrdinal'[n] = idByOrdinal[n]
  <2> DEFINE id == IdOf(k)
  <2>1. idByOrdinal \in Seq(Nat \ {0}) /\ id \in Nat \ {0}
    BY <1>1, <1>5 DEF Inv, IdsOK
  <2>2. idByOrdinal' = Append(idByOrdinal, id)
    BY <1>4
  <2> HIDE DEF id
  <2>3. /\ idByOrdinal' \in Seq(Nat \ {0}) /\ Len(idByOrdinal') = Len(idByOrdinal) + 1
        /\ idByOrdinal'[Len(idByOrdinal) + 1] = id
        /\ \A n \in DOMAIN idByOrdinal : idByOrdinal'[n] = idByOrdinal[n]
    BY <2>1, <2>2
  <2>4. DOMAIN idByOrdinal' = DOMAIN idByOrdinal \cup {Len(idByOrdinal) + 1}
    BY <2>1, <2>3
  <2> QED
    BY <1>0, <2>3, <2>4 DEF id
<1>7. IdsOK'
  BY <1>1, <1>2, <1>4, <1>6 DEF Inv, IdsOK
<1>8. TodoOK'
  BY <1>1 DEF Inv, TodoOK
<1>9. RowsOK'
  <2>1. Upserted' = Upserted \cup {IdOf(k)}
    <3>1. Upserted' = {IdOf(n) : n \in DOMAIN idByOrdinal'}
      BY <1>2 DEF Upserted
    <3> QED
      BY <1>6, <3>1 DEF Upserted
  <2>2. DOMAIN idByOrdinal' \subseteq DOMAIN catalog
    BY <1>1, <1>3, <1>6, OpenFacts
  <2>3. ASSUME NEW n \in DOMAIN idByOrdinal', NEW i, i = IdOf(n)
        PROVE  RowNow(i)' = RowFrom(course, catalog, n)
    <3> DEFINE x == PositionIn(lessons, course, catalog, DOMAIN idByOrdinal', i)
    <3>1. x \in DOMAIN idByOrdinal' /\ IdOf(x) = i
      BY <2>3 DEF PositionIn, IdOf
    <3>2. x = n
      BY <1>1, <2>2, <2>3, <3>1, OpenFacts, IdAtInjective DEF IdOf
    <3>3. i \in Upserted'
      BY <1>2, <2>3 DEF Upserted
    <3>4. RowNow(i)' = RowFrom(course, catalog, x)
      BY <1>2, <3>3 DEF RowNow
    <3> QED
      BY <3>2, <3>4
  <2>4. \A j : j \notin Upserted' => RowNow(j)' = RowNow(j)
    BY <1>1, <1>2, <2>1 DEF RowNow
  <2>5. /\ DOMAIN rows = DOMAIN lessons \cup Upserted
        /\ \A n \in DOMAIN idByOrdinal : rows[IdOf(n)] = RowFrom(course, catalog, n)
        /\ \A i \in DOMAIN rows \ Upserted : rows[i] = RowNow(i)
    BY <1>1, ViewRows
  <2>6. rows' = [i \in DOMAIN lessons \cup Upserted' |->
                   IF i = IdOf(k) THEN RowFrom(course, catalog, k) ELSE rows[i]]
    BY <1>4, <2>1, <2>5 DEF Put
  <2>7. ASSUME NEW i \in DOMAIN lessons \cup Upserted'
        PROVE  RowNow(i)' = IF i = IdOf(k) THEN RowFrom(course, catalog, k) ELSE rows[i]
    <3>1. CASE i = IdOf(k)
      BY <1>6, <2>3, <3>1
    <3>2. CASE i # IdOf(k) /\ i \in Upserted
      <4>1. PICK n \in DOMAIN idByOrdinal : i = IdOf(n)
        BY <3>2 DEF Upserted
      <4>2. RowNow(i)' = RowFrom(course, catalog, n)
        BY <1>6, <2>3, <4>1
      <4> QED
        BY <2>5, <3>2, <4>1, <4>2
    <3>3. CASE i # IdOf(k) /\ i \notin Upserted
      <4>1. i \notin Upserted' /\ i \in DOMAIN rows \ Upserted
        BY <2>1, <2>5, <3>3
      <4> QED
        BY <2>4, <2>5, <3>3, <4>1
    <3> QED
      BY <3>1, <3>2, <3>3
  <2> QED
    BY <1>2, <2>6, <2>7 DEF RowsOK
<1>10. EdgesOK'
  BY <1>1, <1>2 DEF Inv, EdgesOK
<1> QED
  BY <1>1, <1>2, <1>7, <1>8, <1>9, <1>10 DEF Inv

(* The course's edges deleted: those of its rows before the refresh, since *)
(* a lesson the refresh adds has none yet.                                 *)
LEMMA DeletePrereqsInv ==
    ASSUME Inv, DeletePrereqs
    PROVE  Inv'
<1>1. /\ phase = "upsert" /\ phase' = "link" /\ Len(idByOrdinal) = Len(catalog)
      /\ edges' = {e \in edges : e[1] \notin IdsOf(rows, course)}
      /\ todo' = DOMAIN catalog
      /\ UNCHANGED <<committed, args>> /\ UNCHANGED <<nextID, rows, idByOrdinal>>
  BY DEF DeletePrereqs
<1>2. /\ CommittedOK' /\ ArgsOK'
      /\ UNCHANGED <<lessons, prereqs, course, catalog, Old>>
      /\ \A k : IdOf(k)' = IdOf(k)
      /\ \A j : ParkedRow(j)' = ParkedRow(j)
  BY <1>1, SameArgs
<1>3. Upserted' = Upserted
  BY <1>1, <1>2 DEF Upserted
<1>4. IdsOK' /\ TodoOK'
  BY <1>1, <1>2 DEF Inv, IdsOK, TodoOK
<1>5. RowsOK'
  <2>1. \A j : RowNow(j)' = RowNow(j)
    BY <1>1, <1>2, <1>3 DEF RowNow
  <2> QED
    BY <1>1, <1>2, <1>3, <2>1 DEF Inv, RowsOK
<1>6. EdgesOK'
  <2>1. edges = prereqs
    BY <1>1 DEF Inv, EdgesOK
  <2>2. \A i \in DOMAIN lessons : i \in IdsOf(rows, course) <=> i \in IdsOf(lessons, course)
    BY <1>1, ViewCourses DEF IdsOf
  <2>3. \A e \in prereqs : e[1] \in DOMAIN lessons
    BY DEF Inv, CommittedOK
  <2>4. edges' = OtherEdges(lessons, prereqs, course)
    BY <1>1, <2>1, <2>2, <2>3 DEF OtherEdges
  <2>5. LinkedSoFar' = {}
    BY <1>1, <1>2 DEF LinkedSoFar
  <2> QED
    BY <1>1, <1>2, <2>4, <2>5 DEF EdgesOK
<1> QED
  BY <1>1, <1>2, <1>4, <1>5, <1>6 DEF Inv

(* The edges of one lesson inserted.                                       *)
LEMMA InsertPrereqsInv ==
    ASSUME Inv, NEW k \in todo, InsertPrereqs(k)
    PROVE  Inv'
<1>1. /\ phase = "link" /\ phase' = "link" /\ todo' = todo \ {k}
      /\ edges' = edges \cup {<<idByOrdinal[k], idByOrdinal[n]>> : n \in catalog[k].needs}
      /\ UNCHANGED <<committed, args>> /\ UNCHANGED <<nextID, rows, idByOrdinal>>
  BY DEF InsertPrereqs
<1>2. /\ CommittedOK' /\ ArgsOK'
      /\ UNCHANGED <<lessons, prereqs, course, catalog, Old>>
      /\ \A n : IdOf(n)' = IdOf(n)
      /\ \A n : Links(n)' = Links(n)
      /\ \A j : ParkedRow(j)' = ParkedRow(j)
  BY <1>1, SameArgs
<1>3. Upserted' = Upserted
  BY <1>1, <1>2 DEF Upserted
<1>4. IdsOK' /\ TodoOK'
  BY <1>1, <1>2 DEF Inv, IdsOK, TodoOK
<1>5. RowsOK'
  <2>1. \A j : RowNow(j)' = RowNow(j)
    BY <1>1, <1>2, <1>3 DEF RowNow
  <2> QED
    BY <1>1, <1>2, <1>3, <2>1 DEF Inv, RowsOK
<1>6. EdgesOK'
  <2>1. k \in DOMAIN catalog
    BY <1>1 DEF Inv, TodoOK
  <2>2. \A n \in DOMAIN catalog : idByOrdinal[n] = IdOf(n)
    BY <1>1, OpenFacts DEF Inv, IdsOK
  <2>3. \A n \in catalog[k].needs : n \in DOMAIN catalog
    BY <1>1, <2>1, OpenFacts, NeedsEarlier
  <2>4. edges' = edges \cup Links(k)
    BY <1>1, <2>1, <2>2, <2>3 DEF Links
  <2>5. LinkedSoFar' = LinkedSoFar \cup {k}
    BY <1>1, <1>2, <2>1 DEF LinkedSoFar
  <2>6. UNION {Links(n) : n \in LinkedSoFar \cup {k}}
           = Links(k) \cup UNION {Links(n) : n \in LinkedSoFar}
    OBVIOUS
  <2>7. edges' = OtherEdges(lessons, prereqs, course)
                    \cup UNION {Links(n) : n \in LinkedSoFar \cup {k}}
    BY <1>1, <2>4, <2>6 DEF Inv, EdgesOK
  <2> QED
    BY <1>1, <1>2, <2>5, <2>7 DEF EdgesOK
<1> QED
  BY <1>1, <1>2, <1>4, <1>5, <1>6 DEF Inv

(* The inactive rows of the course are then those the catalog dropped.     *)
LEMMA InactiveAreDropped ==
    ASSUME Inv, phase \in {"link", "retire"}
    PROVE  IdsOf(rows, course) \ ActiveIds(rows, course) = Dropped
<1>1. /\ \A i \in Upserted : i \in DOMAIN rows /\ rows[i].active
      /\ \A i \in DOMAIN rows : rows[i].course = course <=> i \in Upserted \cup Old
  BY ViewCourses
<1>2. /\ \A i \in Old : i \notin Upserted <=> i \in Dropped
      /\ Dropped \subseteq Old
  BY RestIsDropped
<1>3. \A i \in Old : i \notin Upserted => i \in DOMAIN rows /\ ~rows[i].active
  BY OldRow
<1> QED
  BY <1>1, <1>2, <1>3 DEF IdsOf, ActiveIds

(* The dropped lessons selected.                                           *)
LEMMA SelectRetiredInv ==
    ASSUME Inv, SelectRetired
    PROVE  Inv'
<1>1. /\ phase = "link" /\ todo = {} /\ phase' = "retire" /\ todo' = Dropped
      /\ UNCHANGED <<committed, args>> /\ UNCHANGED <<nextID, rows, edges, idByOrdinal>>
  BY InactiveAreDropped DEF SelectRetired
<1>2. /\ CommittedOK' /\ ArgsOK'
      /\ UNCHANGED <<lessons, prereqs, course, catalog, Old, Dropped>>
      /\ \A k : IdOf(k)' = IdOf(k)
      /\ \A k : Links(k)' = Links(k)
      /\ \A j : ParkedRow(j)' = ParkedRow(j)
  BY <1>1, SameArgs
<1>3. Upserted' = Upserted
  BY <1>1, <1>2 DEF Upserted
<1>4. IdsOK' /\ TodoOK'
  BY <1>1, <1>2 DEF Inv, IdsOK, TodoOK
<1>5. RowsOK'
  <2>1. \A j : RowNow(j)' = RowNow(j)
    BY <1>1, <1>2, <1>3, RestIsDropped DEF RowNow
  <2> QED
    BY <1>1, <1>2, <1>3, <2>1 DEF Inv, RowsOK
<1>6. EdgesOK'
  <2>1. LinkedSoFar' = LinkedSoFar
    BY <1>1, <1>2 DEF LinkedSoFar
  <2> QED
    BY <1>1, <1>2, <2>1 DEF Inv, EdgesOK
<1> QED
  BY <1>1, <1>2, <1>4, <1>5, <1>6 DEF Inv

(* One dropped lesson settled: the loop's i+1 is its rank.                 *)
LEMMA ParkRetiredInv ==
    ASSUME Inv, NEW i \in todo, ParkRetired(i)
    PROVE  Inv'
<1>1. /\ phase = "retire" /\ phase' = "retire" /\ todo' = todo \ {i}
      /\ \A j \in todo : i <= j
      /\ rows' = [rows EXCEPT ![i].ordinal =
                    Len(catalog) + Cardinality(Dropped) - Cardinality(todo) + 1]
      /\ UNCHANGED <<committed, args>> /\ UNCHANGED <<nextID, edges, idByOrdinal>>
  BY InactiveAreDropped DEF ParkRetired
<1>2. /\ CommittedOK' /\ ArgsOK'
      /\ UNCHANGED <<lessons, prereqs, course, catalog, Old, Dropped>>
      /\ \A k : IdOf(k)' = IdOf(k)
      /\ \A k : Links(k)' = Links(k)
      /\ \A j : ParkedRow(j)' = ParkedRow(j)
      /\ \A j : SettledRow(j)' = SettledRow(j)
  BY <1>1, SameArgs
<1>3. Upserted' = Upserted
  BY <1>1, <1>2 DEF Upserted
<1>4. /\ todo \subseteq Dropped /\ i \in Old /\ i \notin Upserted
      /\ \A m \in Dropped \ todo, j \in todo : m < j
  BY <1>1, RestIsDropped DEF Inv, TodoOK
<1>5. IsFiniteSet(Dropped) /\ Dropped \in SUBSET Int
  BY <1>1, OpenFacts, RetiredFinite DEF Dropped
<1>6. IdsOK'
  BY <1>1, <1>2 DEF Inv, IdsOK
<1>7. TodoOK'
  <2>1. ASSUME NEW m \in Dropped \ (todo \ {i}), NEW j \in todo \ {i}
        PROVE  m < j
    <3>1. i <= j /\ i # j /\ i \in Int /\ j \in Int
      BY <1>1, <1>4, <1>5
    <3> QED
      BY <1>4, <3>1
  <2> QED
    BY <1>1, <1>2, <1>4, <2>1 DEF TodoOK
<1>8. RowsOK'
  <2>1. Len(catalog) + Cardinality(Dropped) - Cardinality(todo) + 1
           = ParkedOrdinal(lessons, course, catalog, i)
    <3> DEFINE n == Cardinality(Dropped)
               m == Cardinality(todo)
               r == Rank(Dropped, i)
    <3>1. r = n - m + 1
      BY <1>1, <1>4, <1>5, RankOfLeast
    <3>2. IsFiniteSet(todo)
      BY <1>4, <1>5, FS_Subset
    <3>3. n \in Nat /\ m \in Nat /\ Len(catalog) \in Nat
      BY <1>1, <1>5, <3>2, OpenFacts, FS_CardinalityType
    <3>4. ParkedOrdinal(lessons, course, catalog, i) = Len(catalog) + r
      BY DEF ParkedOrdinal, Dropped
    <3> HIDE DEF n, m, r
    <3>5. Len(catalog) + n - m + 1 = Len(catalog) + r
      BY <3>1, <3>3
    <3> QED
      BY <3>4, <3>5 DEF n, m
  <2>2. /\ DOMAIN rows = DOMAIN lessons \cup Upserted
        /\ \A j \in DOMAIN rows : rows[j] = RowNow(j)
    BY <1>1 DEF Inv, RowsOK
  <2>3. i \in DOMAIN lessons /\ rows[i] = ParkedRow(i)
    BY <1>1, <1>4, <2>2 DEF RowNow, Old, IdsOf
  <2>4. rows' = [j \in DOMAIN lessons \cup Upserted |->
                   IF j = i THEN [rows[i] EXCEPT !.ordinal =
                                    ParkedOrdinal(lessons, course, catalog, i)]
                   ELSE rows[j]]
    BY <1>1, <2>1, <2>2
  <2>5. [rows[i] EXCEPT !.ordinal = ParkedOrdinal(lessons, course, catalog, i)]
           = SettledRow(i)
    <3>1. lessons[i] \in LessonRow
      BY <1>1, <2>3, OpenFacts DEF IsLessonTable
    <3> QED
      BY <2>3, <3>1 DEF ParkedRow, SettledRow, LessonRow
  <2>6. RowNow(i)' = SettledRow(i)
    BY <1>1, <1>2, <1>3, <1>4 DEF RowNow
  <2>7. \A j : j # i => RowNow(j)' = RowNow(j)
    BY <1>1, <1>2, <1>3 DEF RowNow
  <2> QED
    BY <1>2, <1>3, <2>2, <2>4, <2>5, <2>6, <2>7 DEF RowsOK
<1>9. EdgesOK'
  <2>1. LinkedSoFar' = LinkedSoFar
    BY <1>1, <1>2 DEF LinkedSoFar
  <2> QED
    BY <1>1, <1>2, <2>1 DEF Inv, EdgesOK
<1> QED
  BY <1>1, <1>2, <1>6, <1>7, <1>8, <1>9 DEF Inv

(* What a commit publishes is what LessonRows says a refresh makes.        *)
LEMMA CommitIsRefresh ==
    ASSUME Inv, Commit
    PROVE  /\ course \in Courses /\ catalog \in CatalogsOf[course]
           /\ lessons' = Seeded(lessons, course, catalog)
           /\ prereqs' = SeededPrereqs(lessons, prereqs, course, catalog)
<1>1. phase = "retire" /\ todo = {} /\ lessons' = rows /\ prereqs' = edges
  BY DEF Commit
<1>2. course \in Courses /\ catalog \in CatalogsOf[course]
  BY <1>1 DEF Inv, ArgsOK
<1>3. Upserted = Live(lessons, course, catalog) /\ DOMAIN idByOrdinal = DOMAIN catalog
  BY <1>1, RestIsDropped, OpenFacts DEF Inv, IdsOK
<1>4. rows = [i \in DOMAIN lessons \cup Upserted |-> RowNow(i)]
  BY <1>1 DEF Inv, RowsOK
<1>5. ASSUME NEW i \in DOMAIN lessons \cup Upserted
      PROVE  RowNow(i) = SeededRow(lessons, course, catalog, i)
  <2>1. CASE i \in Upserted
    BY <1>3, <2>1 DEF RowNow, SeededRow, PositionIn
  <2>2. CASE i \notin Upserted /\ i \in Old
    <3>1. i \in Dropped
      BY <1>1, <2>2, RestIsDropped
    <3> QED
      BY <1>1, <1>3, <2>2, <3>1 DEF RowNow, SeededRow, SettledRow, Dropped
  <2>3. CASE i \notin Upserted /\ i \notin Old
    <3>1. i \notin Dropped
      BY <1>1, <2>3, RestIsDropped
    <3> QED
      BY <1>3, <2>3, <3>1 DEF RowNow, SeededRow, Dropped
  <2> QED
    BY <2>1, <2>2, <2>3
<1>6. rows = Seeded(lessons, course, catalog)
  BY <1>3, <1>4, <1>5 DEF Seeded
<1>7. edges = SeededPrereqs(lessons, prereqs, course, catalog)
  <2>1. edges = OtherEdges(lessons, prereqs, course)
                  \cup UNION {Links(k) : k \in DOMAIN catalog}
    BY <1>1 DEF Inv, EdgesOK, LinkedSoFar
  <2> QED
    BY <2>1 DEF SeededPrereqs, Links, IdOf
<1> QED
  BY <1>1, <1>2, <1>6, <1>7

(* A commit closes the transaction on sound tables.                        *)
LEMMA CommitInv ==
    ASSUME Inv, Commit
    PROVE  Inv'
<1>1. phase = "retire" /\ lessons' = rows /\ prereqs' = edges /\ Closed
  BY DEF Commit
<1>2. lessons' = Seeded(lessons, course, catalog)
  BY CommitIsRefresh
<1>3. IsLessonTable(lessons') /\ UniqueRows(lessons')
  BY <1>1, <1>2, OpenFacts, SeededTable, SeededUnique
<1>4. lessons' = [i \in DOMAIN lessons' |-> lessons'[i]]
  BY <1>2 DEF Seeded
<1>5. CommittedOK'
  BY <1>1, <1>3, <1>4, ViewEdges DEF CommittedOK
<1> QED
  BY <1>1, <1>5 DEF Inv, Closed, Nothing

(* A crash or a rollback drops the view.                                   *)
LEMMA RollbackInv ==
    ASSUME Inv, Rollback
    PROVE  Inv'
<1>1. CommittedOK'
  BY DEF Rollback, committed, Inv, CommittedOK
<1>2. Closed
  BY DEF Rollback
<1>3. phase' = "idle" /\ Nothing'
  BY <1>2 DEF Closed, Nothing
<1> QED
  BY <1>1, <1>3 DEF Inv

(* The invariant is inductive.                                             *)
LEMMA StepInv == Inv /\ [Next]_vars => Inv'
<1> SUFFICES ASSUME Inv, [Next]_vars PROVE Inv'
  OBVIOUS
<1>1. CASE \E c \in Courses : \E cat \in CatalogsOf[c] : Begin(c, cat)
  BY <1>1, BeginInv
<1>2. CASE \E i \in todo : ParkOne(i) \/ InsertPrereqs(i) \/ ParkRetired(i)
  BY <1>2, ParkOneInv, InsertPrereqsInv, ParkRetiredInv
<1>3. CASE Parked \/ Upsert \/ DeletePrereqs \/ SelectRetired \/ Commit \/ Rollback
  BY <1>3, ParkedInv, UpsertInv, DeletePrereqsInv, SelectRetiredInv, CommitInv, RollbackInv
<1>4. CASE UNCHANGED vars
  <2>1. /\ UNCHANGED <<lessons, prereqs, phase, course, catalog, idBySlug, offset>>
        /\ UNCHANGED <<nextID, rows, edges, todo, idByOrdinal>>
    BY <1>4 DEF vars, committed, args
  <2>2. CommittedOK'
    BY <2>1 DEF Inv, CommittedOK
  <2>3. CASE phase = "idle"
    BY <2>1, <2>2, <2>3 DEF Inv, Nothing
  <2>4. CASE phase # "idle"
    <3>1. ArgsOK'
      BY <2>1, <2>4 DEF Inv, ArgsOK, Old
    <3>2. IdsOK'
      BY <2>1, <2>4 DEF Inv, IdsOK, IdOf
    <3>3. TodoOK'
      BY <2>1, <2>4 DEF Inv, TodoOK, Dropped, Old
    <3>4. RowsOK'
      <4>1. Upserted' = Upserted
        BY <2>1 DEF Upserted, IdOf
      <4>2. ASSUME NEW i PROVE RowNow(i)' = RowNow(i)
        BY <2>1, <4>1 DEF RowNow, Old, ParkedRow, SettledRow
      <4>3. RowsOK
        BY <2>4 DEF Inv
      <4> QED
        BY <2>1, <4>1, <4>2, <4>3 DEF RowsOK
    <3>5. EdgesOK'
      BY <2>1, <2>4 DEF Inv, EdgesOK, IdOf, Links, LinkedSoFar
    <3> QED
      BY <2>1, <2>2, <2>4, <3>1, <3>2, <3>3, <3>4, <3>5 DEF Inv
  <2> QED
    BY <2>3, <2>4
<1> QED
  BY <1>1, <1>2, <1>3, <1>4 DEF Next

(* The invariant holds in every state.                                     *)
LEMMA Invariance == Spec => []Inv
  BY InitInv, StepInv, PTL DEF Spec

-----------------------------------------------------------------------------
(* For every course and every series of releases, whatever the committed   *)
(* tables came to hold, SQLite accepts each statement of Seed, although it *)
(* checks UNIQUE(course_id, ordinal) row by row.                           *)
THEOREM StatementsAlwaysAccepted == Spec => []StatementsAccepted
  BY Invariance, InvAccepted, PTL

(* CourseRefresh instantiates the same operators on tables.                *)
LEMMA AtomicOperators ==
    /\ \A t, c, cat : Atomic!Seeded(t, c, cat) = Seeded(t, c, cat)
    /\ \A t, e, c, cat : Atomic!SeededPrereqs(t, e, c, cat) = SeededPrereqs(t, e, c, cat)
<1>1. \A t, c : Atomic!IdsOf(t, c) = IdsOf(t, c)
  BY DEF Atomic!IdsOf, IdsOf
<1>2. \A t, c : Atomic!LastId(t, c) = LastId(t, c)
  BY DEF Atomic!LastId, LastId, Atomic!TopId, TopId, Atomic!Max, Max
<1>3. \A S, i : Atomic!Rank(S, i) = Rank(S, i)
  BY Zenon DEF Atomic!Rank, Rank, Atomic!Cardinality, Cardinality
<1>4. \A c, cat, k : Atomic!RowFrom(c, cat, k) = RowFrom(c, cat, k)
  BY DEF Atomic!RowFrom, RowFrom
<1>5. \A t, c, s : Atomic!Known(t, c, s) = Known(t, c, s)
  BY <1>1 DEF Atomic!Known, Known
<1>6. \A t, c, cat : Atomic!NewPositions(t, c, cat) = NewPositions(t, c, cat)
  BY <1>5 DEF Atomic!NewPositions, NewPositions
<1>7. \A t, c, cat : Atomic!Retired(t, c, cat) = Retired(t, c, cat)
  BY <1>1 DEF Atomic!Retired, Retired
<1>8. ASSUME NEW t, NEW c, NEW cat, NEW k
      PROVE  Atomic!IdAt(t, c, cat, k) = IdAt(t, c, cat, k)
  BY SMT DEF Atomic!IdAt, IdAt, Atomic!Known, Known, Atomic!IdsOf, IdsOf,
             Atomic!NewPositions, NewPositions, Atomic!LastId, LastId, Atomic!TopId, TopId,
             Atomic!Max, Max, Atomic!Rank, Rank, Atomic!Cardinality, Cardinality
<1>9. \A t, c, cat : Atomic!Live(t, c, cat) = Live(t, c, cat)
  BY <1>8 DEF Atomic!Live, Live
<1>10. \A t, c, cat, i : Atomic!ParkedOrdinal(t, c, cat, i) = ParkedOrdinal(t, c, cat, i)
  BY <1>3, <1>7 DEF Atomic!ParkedOrdinal, ParkedOrdinal
<1>11. \A t, e, c : Atomic!OtherEdges(t, e, c) = OtherEdges(t, e, c)
  BY <1>1 DEF Atomic!OtherEdges, OtherEdges
<1>12. ASSUME NEW t, NEW c, NEW cat, NEW i
       PROVE  Atomic!SeededRow(t, c, cat, i) = SeededRow(t, c, cat, i)
  BY SMT DEF Atomic!SeededRow, SeededRow, Atomic!RowFrom, RowFrom, Atomic!Live, Live,
             Atomic!Retired, Retired, Atomic!ParkedOrdinal, ParkedOrdinal,
             Atomic!IdAt, IdAt, Atomic!Known, Known, Atomic!IdsOf, IdsOf,
             Atomic!NewPositions, NewPositions, Atomic!LastId, LastId, Atomic!TopId, TopId,
             Atomic!Max, Max, Atomic!Rank, Rank, Atomic!Cardinality, Cardinality
<1>13. \A t, c, cat : Atomic!Seeded(t, c, cat) = Seeded(t, c, cat)
  BY <1>9, <1>12 DEF Atomic!Seeded, Seeded
<1>14. \A t, e, c, cat : Atomic!SeededPrereqs(t, e, c, cat) = SeededPrereqs(t, e, c, cat)
  BY <1>8, <1>11 DEF Atomic!SeededPrereqs, SeededPrereqs
<1> QED
  BY <1>13, <1>14

(* Seed is atomic: only its commit changes what others see, and then to    *)
(* exactly the refresh of LessonRows; a crash anywhere changes nothing.    *)
THEOREM SeedImplementsRefresh == Spec => ImplementsRefresh
<1>1. Init => Atomic!Init
  BY DEF Init, Atomic!Init, NoRows
<1>2. Inv /\ [Next]_vars => [Atomic!Next]_<<lessons, prereqs>>
  <2> SUFFICES ASSUME Inv, [Next]_vars PROVE [Atomic!Next]_<<lessons, prereqs>>
    OBVIOUS
  <2>1. CASE Commit
    <3>1. Atomic!Refresh(course, catalog)
      BY <2>1, CommitIsRefresh, AtomicOperators DEF Atomic!Refresh
    <3> QED
      BY <2>1, <3>1, CommitIsRefresh DEF Atomic!Next
  <2>2. CASE ~Commit
    BY <2>2 DEF Next, Begin, ParkOne, InsertPrereqs, ParkRetired, Parked, Upsert,
                DeletePrereqs, SelectRetired, Rollback, committed, vars
  <2> QED
    BY <2>1, <2>2
<1> QED
  BY <1>1, <1>2, Invariance, PTL DEF Spec, ImplementsRefresh, Atomic!Spec
=============================================================================
