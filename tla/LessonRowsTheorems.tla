------------------------- MODULE LessonRowsTheorems -------------------------
(***************************************************************************)
(* What the operators of LessonRows return, for tables and catalogs of any *)
(* size.                                                                   *)
(***************************************************************************)
EXTENDS LessonRows, FiniteSetTheorems, WellFoundedInduction, TLAPS

(* A finite nonempty set of naturals has a greatest member, so SQL's       *)
(* max(id) is defined on every table.                                      *)
LEMMA FiniteSetHasGreatest ==
    ASSUME NEW S \in SUBSET Nat, IsFiniteSet(S), S # {}
    PROVE  \E m \in S : \A x \in S : x <= m
<1> DEFINE Topless == {T \in FiniteSubsetsOf(S) :
                          T # {} /\ ~ \E m \in T : \A x \in T : x <= m}
<1>1. Topless = {}
  <2> SUFFICES ASSUME Topless # {} PROVE FALSE
    OBVIOUS
  <2>1. PICK T \in Topless :
           \A U \in Topless : <<U, T>> \notin StrictSubsetOrdering(S)
    BY FS_StrictSubsetOrderingWellFounded, WFMin
  <2>2. PICK t \in T : TRUE
    OBVIOUS
  <2>3. T \subseteq Nat /\ IsFiniteSet(T) /\ T \in SUBSET S
    BY DEF FiniteSubsetsOf
  <2>4. T \ {t} \in FiniteSubsetsOf(S)
    BY <2>3, FS_RemoveElement DEF FiniteSubsetsOf
  <2>5. T \ {t} \notin Topless
    BY <2>1, <2>2, <2>3, <2>4 DEF StrictSubsetOrdering
  <2>6. CASE T \ {t} = {}
    BY <2>2, <2>3, <2>6
  <2>7. CASE \E m \in T \ {t} : \A x \in T \ {t} : x <= m
    BY <2>2, <2>3, <2>7
  <2> QED
    BY <2>4, <2>5, <2>6, <2>7
<1>2. S \in FiniteSubsetsOf(S)
  BY DEF FiniteSubsetsOf
<1> QED
  BY <1>1, <1>2

(* One of finitely many numbered things has the lowest number, so ORDER BY *)
(* ordinal LIMIT 1 finds a lesson when there is one.                       *)
LEMMA FiniteSetHasLeast ==
    ASSUME NEW S, IsFiniteSet(S), S # {}, NEW f, \A i \in S : f[i] \in Nat
    PROVE  \E m \in S : \A x \in S : f[m] <= f[x]
<1> DEFINE Bottomless == {T \in FiniteSubsetsOf(S) :
                             T # {} /\ ~ \E m \in T : \A x \in T : f[m] <= f[x]}
<1>1. Bottomless = {}
  <2> SUFFICES ASSUME Bottomless # {} PROVE FALSE
    OBVIOUS
  <2>1. PICK T \in Bottomless :
           \A U \in Bottomless : <<U, T>> \notin StrictSubsetOrdering(S)
    BY FS_StrictSubsetOrderingWellFounded, WFMin
  <2>2. PICK t \in T : TRUE
    OBVIOUS
  <2>3. IsFiniteSet(T) /\ T \in SUBSET S /\ \A x \in T : f[x] \in Nat
    BY DEF FiniteSubsetsOf
  <2>4. T \ {t} \in FiniteSubsetsOf(S)
    BY <2>3, FS_RemoveElement DEF FiniteSubsetsOf
  <2>5. T \ {t} \notin Bottomless
    BY <2>1, <2>2, <2>3, <2>4 DEF StrictSubsetOrdering
  <2>6. CASE T \ {t} = {}
    BY <2>2, <2>3, <2>6
  <2>7. CASE \E m \in T \ {t} : \A x \in T \ {t} : f[m] <= f[x]
    BY <2>2, <2>3, <2>7
  <2> QED
    BY <2>4, <2>5, <2>6, <2>7
<1>2. S \in FiniteSubsetsOf(S)
  BY DEF FiniteSubsetsOf
<1> QED
  BY <1>1, <1>2

(* TopId bounds every id of the table: TopId + 1 is a free one.            *)
LEMMA TopIdBounds ==
    ASSUME NEW table, DOMAIN table \subseteq Nat, IsFiniteSet(DOMAIN table)
    PROVE  /\ TopId(table) \in Nat
           /\ \A i \in DOMAIN table : i <= TopId(table)
<1> DEFINE S == {0} \cup DOMAIN table
<1>1. S \in SUBSET Nat /\ S # {}
  OBVIOUS
<1>2. IsFiniteSet(S)
  BY FS_Union, FS_Singleton
<1>3. \E m \in S : \A x \in S : m >= x
  BY <1>1, <1>2, FiniteSetHasGreatest
<1>4. Max(S) \in S /\ \A x \in S : Max(S) >= x
  BY <1>3 DEF Max
<1> QED
  BY <1>1, <1>4 DEF TopId

(* Ranks of a finite set count from 1 ...                                  *)
LEMMA RankBounds ==
    ASSUME NEW S \in SUBSET Int, IsFiniteSet(S), NEW i \in Int
    PROVE  /\ Rank(S, i) \in Nat
           /\ Rank(S, i) <= Cardinality(S)
           /\ i \in S => Rank(S, i) >= 1
<1> DEFINE upTo == {j \in S : j <= i}
<1>1. IsFiniteSet(upTo) /\ Cardinality(upTo) <= Cardinality(S)
  BY FS_Subset, upTo \in SUBSET S
<1>2. Cardinality(upTo) \in Nat
  BY <1>1, FS_CardinalityType
<1>3. ASSUME i \in S PROVE Cardinality(upTo) # 0
  BY <1>1, <1>3, FS_EmptySet, i \in upTo
<1> QED
  BY <1>1, <1>2, <1>3 DEF Rank

(* ... and grow with the members, so that no two members share one.        *)
LEMMA RankGrows ==
    ASSUME NEW S \in SUBSET Int, IsFiniteSet(S),
           NEW i \in Int, NEW j \in S, i < j
    PROVE  Rank(S, i) < Rank(S, j)
<1> DEFINE low == {x \in S : x <= i}
           high == {x \in S : x <= j}
<1>0. j \in Int
  OBVIOUS
<1>1. low \subseteq high
  <2> SUFFICES ASSUME NEW x \in low PROVE x \in S /\ x <= j
    OBVIOUS
  <2>1. x \in S /\ x \in Int /\ x <= i
    OBVIOUS
  <2> QED
    BY <1>0, <2>1
<1>2. j \in high /\ j \notin low
  BY <1>0
<1>3. IsFiniteSet(low) /\ IsFiniteSet(high)
  BY FS_Subset, low \in SUBSET S, high \in SUBSET S
<1>4. /\ Cardinality(low) <= Cardinality(high)
      /\ Cardinality(low) # Cardinality(high)
  BY <1>1, <1>2, <1>3, FS_Subset
<1>5. Cardinality(low) \in Nat /\ Cardinality(high) \in Nat
  BY <1>3, FS_CardinalityType
<1> QED
  BY <1>4, <1>5 DEF Rank

(* Two members of a finite set of numbers never have the same rank.        *)
LEMMA RankInjective ==
    ASSUME NEW S \in SUBSET Int, IsFiniteSet(S),
           NEW i \in S, NEW j \in S, Rank(S, i) = Rank(S, j)
    PROVE  i = j
<1>1. Rank(S, i) \in Nat /\ Rank(S, j) \in Nat
  BY RankBounds
<1>2. i < j \/ j < i \/ i = j
  OBVIOUS
<1> QED
  BY <1>1, <1>2, RankGrows

(* No rank exceeds the member, when members are positive.                  *)
LEMMA RankAtMost ==
    ASSUME NEW S \in SUBSET (Nat \ {0}), NEW i \in Nat
    PROVE  Rank(S, i) \in Nat /\ Rank(S, i) <= i
<1> DEFINE upTo == {j \in S : j <= i}
<1>1. IsFiniteSet(1 .. i) /\ Cardinality(1 .. i) = i
  <2>1. 0 <= i
    OBVIOUS
  <2> QED
    BY <2>1, FS_Interval
<1>2. upTo \in SUBSET (1 .. i)
  <2> SUFFICES ASSUME NEW j \in S, j <= i PROVE j \in 1 .. i
    OBVIOUS
  <2>1. j \in Nat /\ j # 0
    OBVIOUS
  <2> QED
    BY <2>1
<1>3. IsFiniteSet(upTo) /\ Cardinality(upTo) <= Cardinality(1 .. i)
  BY <1>1, <1>2, FS_Subset
<1>4. Cardinality(upTo) \in Nat
  BY <1>3, FS_CardinalityType
<1> QED
  BY <1>1, <1>3, <1>4 DEF Rank

(* A counter that meets the numbers one by one goes up at members only.    *)
LEMMA RankNext ==
    ASSUME NEW S \in SUBSET Int, IsFiniteSet(S), NEW i \in Int
    PROVE  Rank(S, i + 1) = IF i + 1 \in S THEN Rank(S, i) + 1 ELSE Rank(S, i)
<1> DEFINE upTo == {j \in S : j <= i}
           further == {j \in S : j <= i + 1}
<1>1. IsFiniteSet(upTo)
  BY FS_Subset, upTo \in SUBSET S
<1>2. \A j \in Int : j <= i + 1 <=> j <= i \/ j = i + 1
  OBVIOUS
<1>3. CASE i + 1 \in S
  <2>1. further = upTo \cup {i + 1}
    BY <1>2, <1>3
  <2>2. i + 1 \notin upTo
    OBVIOUS
  <2>3. Cardinality(further) = Cardinality(upTo) + 1
    BY <1>1, <2>1, <2>2, FS_AddElement
  <2> QED
    BY <1>3, <2>3 DEF Rank
<1>4. CASE i + 1 \notin S
  <2>1. further = upTo
    BY <1>2, <1>4
  <2> QED
    BY <1>4, <2>1 DEF Rank
<1> QED
  BY <1>3, <1>4

(* A loop that visits S in ascending order: the rank of its next member is *)
(* one more than the number of members it has visited.                     *)
LEMMA RankOfLeast ==
    ASSUME NEW S \in SUBSET Int, IsFiniteSet(S), NEW T \in SUBSET S,
           \A i \in S \ T, j \in T : i < j,
           NEW i \in T, \A j \in T : i <= j
    PROVE  Rank(S, i) = Cardinality(S) - Cardinality(T) + 1
<1> DEFINE upTo == {j \in S : j <= i}
           rest == T \ {i}
<1>1. upTo = S \ rest
  <2>1. ASSUME NEW j \in S, j <= i, j \in rest PROVE FALSE
    <3>1. j \in T /\ j # i /\ j \in Int /\ i \in Int
      BY <2>1
    <3>2. i <= j
      BY <3>1
    <3> QED
      BY <2>1, <3>1, <3>2
  <2>2. ASSUME NEW j \in S, j \notin rest PROVE j <= i
    <3>0. i \in Int /\ j \in Int
      OBVIOUS
    <3>1. CASE j = i
      BY <3>0, <3>1
    <3>2. CASE j \notin T
      <4>1. j < i
        BY <3>2
      <4> QED
        BY <3>0, <4>1
    <3> QED
      BY <2>2, <3>1, <3>2
  <2> QED
    BY <2>1, <2>2
<1>2. /\ IsFiniteSet(T) /\ IsFiniteSet(rest) /\ Cardinality(rest) = Cardinality(T) - 1
  BY FS_Subset, FS_RemoveElement
<1>3. Cardinality(S \ rest) = Cardinality(S) - Cardinality(S \cap rest)
  BY FS_Difference, <1>2
<1>4. S \cap rest = rest
  OBVIOUS
<1>5. Cardinality(S) \in Nat /\ Cardinality(T) \in Nat
  BY <1>2, FS_CardinalityType
<1>6. Cardinality(upTo) = Cardinality(S) - (Cardinality(T) - 1)
  BY <1>1, <1>2, <1>3, <1>4
<1> HIDE DEF upTo
<1> QED
  BY <1>5, <1>6 DEF Rank, upTo

-----------------------------------------------------------------------------
(* A refresh.  The id of a lesson the course already has is the id of the  *)
(* row with its slug; any other id is above every id in the table.         *)
LEMMA IdAtKnown ==
    ASSUME NEW rows, NEW c, NEW cat, NEW k, Known(rows, c, cat[k].slug)
    PROVE  /\ IdAt(rows, c, cat, k) \in IdsOf(rows, c)
           /\ rows[IdAt(rows, c, cat, k)].slug = cat[k].slug
  BY DEF IdAt, Known

(* A slug the course has not seen (seed.go: next := max(id) + 1 and        *)
(* counting) gets an id past every id in use, whichever course uses it.    *)
LEMMA IdAtNew ==
    ASSUME NEW rows, IsLessonTable(rows), NEW c, NEW cat, IsCatalog(cat),
           NEW k \in DOMAIN cat, ~Known(rows, c, cat[k].slug)
    PROVE  /\ IdAt(rows, c, cat, k) \in Nat \ {0}
           /\ \A i \in DOMAIN rows : i < IdAt(rows, c, cat, k)
<1> DEFINE P == NewPositions(rows, c, cat)
<1>1. DOMAIN cat = 1 .. Len(cat) /\ Len(cat) \in Nat
  BY DEF IsCatalog
<1>2. P \in SUBSET Int /\ IsFiniteSet(P) /\ k \in P /\ k \in Int
  <2>1. k \in P /\ k \in Int /\ P \in SUBSET (1 .. Len(cat))
    BY <1>1 DEF NewPositions
  <2>2. IsFiniteSet(1 .. Len(cat))
    BY <1>1, FS_Interval
  <2>3. IsFiniteSet(P)
    BY <2>1, <2>2, FS_Subset
  <2> QED
    BY <2>1, <2>3
<1>3. Rank(P, k) \in Nat /\ Rank(P, k) >= 1
  BY <1>2, RankBounds
<1>4. LastId(rows, c) \in Nat /\ \A i \in DOMAIN rows : i <= LastId(rows, c)
  BY TopIdBounds DEF LastId, IsLessonTable
<1>5. IdAt(rows, c, cat, k) = LastId(rows, c) + Rank(P, k)
  BY DEF IdAt
<1>6. \A i \in DOMAIN rows : i \in Nat
  BY DEF IsLessonTable
<1> QED
  BY <1>3, <1>4, <1>5, <1>6

(* Every lesson of a catalog, known or new, gets a positive id from a      *)
(* refresh.                                                                *)
LEMMA IdAtType ==
    ASSUME NEW rows, IsLessonTable(rows), NEW c, NEW cat, IsCatalog(cat),
           NEW k \in DOMAIN cat
    PROVE  IdAt(rows, c, cat, k) \in Nat \ {0}
<1>1. CASE Known(rows, c, cat[k].slug)
  BY <1>1, IdAtKnown DEF IdsOf, IsLessonTable
<1>2. CASE ~Known(rows, c, cat[k].slug)
  BY <1>2, IdAtNew
<1> QED
  BY <1>1, <1>2

(* The id a refresh gives a lesson is in use before exactly if its slug is *)
(* one the course knows.                                                   *)
LEMMA IdAtTaken ==
    ASSUME NEW rows, IsLessonTable(rows), NEW c, NEW cat, IsCatalog(cat),
           NEW k \in DOMAIN cat
    PROVE  IdAt(rows, c, cat, k) \in DOMAIN rows
              <=> Known(rows, c, cat[k].slug)
<1>1. ASSUME ~Known(rows, c, cat[k].slug), IdAt(rows, c, cat, k) \in DOMAIN rows
      PROVE  FALSE
  <2>1. IdAt(rows, c, cat, k) < IdAt(rows, c, cat, k)
    BY <1>1, IdAtNew
  <2> QED
    BY <2>1, <1>1, IdAtNew
<1> QED
  BY <1>1, IdAtKnown DEF IdsOf

(* No row leaves the table, and each keeps its course and its slug.        *)
LEMMA SeededKeepsIdentity ==
    ASSUME NEW rows, IsLessonTable(rows), NEW c, NEW cat, IsCatalog(cat),
           NEW i \in DOMAIN rows
    PROVE  /\ i \in DOMAIN Seeded(rows, c, cat)
           /\ Seeded(rows, c, cat)[i].course = rows[i].course
           /\ Seeded(rows, c, cat)[i].slug = rows[i].slug
<1> DEFINE k == CHOOSE n \in DOMAIN cat : IdAt(rows, c, cat, n) = i
<1>1. CASE i \in Live(rows, c, cat)
  <2>1. k \in DOMAIN cat /\ IdAt(rows, c, cat, k) = i
    BY <1>1 DEF Live
  <2>2. Known(rows, c, cat[k].slug)
    BY <2>1, IdAtTaken
  <2>3. rows[i].course = c /\ rows[i].slug = cat[k].slug
    BY <2>1, <2>2, IdAtKnown DEF IdsOf
  <2>4. Seeded(rows, c, cat)[i] = RowFrom(c, cat, k)
    BY <1>1 DEF Seeded, SeededRow
  <2> QED
    BY <2>3, <2>4 DEF Seeded, RowFrom
<1>2. CASE i \notin Live(rows, c, cat) /\ i \in Retired(rows, c, cat)
  <2>1. Seeded(rows, c, cat)[i] =
           [rows[i] EXCEPT !.active = FALSE,
                           !.ordinal = ParkedOrdinal(rows, c, cat, i)]
    BY <1>2 DEF Seeded, SeededRow
  <2>2. rows[i] \in LessonRow
    BY DEF IsLessonTable
  <2> QED
    BY <2>1, <2>2 DEF Seeded, LessonRow
<1>3. CASE i \notin Live(rows, c, cat) /\ i \notin Retired(rows, c, cat)
  BY <1>3 DEF Seeded, SeededRow
<1> QED
  BY <1>1, <1>2, <1>3

(* Two lessons of a catalog never get one id.                              *)
LEMMA IdAtInjective ==
    ASSUME NEW rows, IsLessonTable(rows), NEW c, NEW cat, IsCatalog(cat),
           NEW j \in DOMAIN cat, NEW k \in DOMAIN cat,
           IdAt(rows, c, cat, j) = IdAt(rows, c, cat, k)
    PROVE  j = k
<1> DEFINE P == NewPositions(rows, c, cat)
<1>1. CASE Known(rows, c, cat[j].slug) /\ Known(rows, c, cat[k].slug)
  BY <1>1, IdAtKnown DEF IsCatalog
<1>2. Known(rows, c, cat[j].slug) <=> Known(rows, c, cat[k].slug)
  BY IdAtTaken
<1>3. CASE ~Known(rows, c, cat[j].slug) /\ ~Known(rows, c, cat[k].slug)
  <2>1. j \in P /\ k \in P /\ P \in SUBSET Int /\ IsFiniteSet(P)
    <3>1. DOMAIN cat = 1 .. Len(cat) /\ Len(cat) \in Nat
      BY DEF IsCatalog
    <3>2. j \in P /\ k \in P /\ P \in SUBSET (1 .. Len(cat))
      BY <1>3, <3>1 DEF NewPositions
    <3>3. IsFiniteSet(1 .. Len(cat))
      BY <3>1, FS_Interval
    <3> QED
      BY <3>2, <3>3, FS_Subset
  <2>2. Rank(P, j) \in Nat /\ Rank(P, k) \in Nat
    BY <2>1, RankBounds
  <2>3. LastId(rows, c) + Rank(P, j) = LastId(rows, c) + Rank(P, k)
    BY <1>3 DEF IdAt
  <2>4. LastId(rows, c) \in Nat
    BY TopIdBounds DEF LastId, IsLessonTable
  <2> QED
    BY <2>1, <2>2, <2>3, <2>4, RankInjective
<1> QED
  BY <1>1, <1>2, <1>3

(* The row of a lesson of the catalog after the refresh.                   *)
LEMMA SeededLive ==
    ASSUME NEW rows, IsLessonTable(rows), NEW c, NEW cat, IsCatalog(cat),
           NEW k \in DOMAIN cat
    PROVE  /\ IdAt(rows, c, cat, k) \in DOMAIN Seeded(rows, c, cat)
           /\ Seeded(rows, c, cat)[IdAt(rows, c, cat, k)] = RowFrom(c, cat, k)
<1> DEFINE i == IdAt(rows, c, cat, k)
           n == CHOOSE m \in DOMAIN cat : IdAt(rows, c, cat, m) = i
<1>1. n \in DOMAIN cat /\ IdAt(rows, c, cat, n) = i
  OBVIOUS
<1>2. n = k
  BY <1>1, IdAtInjective
<1>3. i \in Live(rows, c, cat)
  BY DEF Live
<1> QED
  BY <1>2, <1>3 DEF Seeded, SeededRow

(* The row of a retired lesson: behind the catalog, its slug not in it.    *)
LEMMA RetiredFinite ==
    ASSUME NEW rows, IsLessonTable(rows), NEW c, NEW cat
    PROVE  /\ IsFiniteSet(Retired(rows, c, cat))
           /\ Retired(rows, c, cat) \in SUBSET Int
<1>1. Retired(rows, c, cat) \in SUBSET (DOMAIN rows)
  BY DEF Retired, IdsOf
<1> QED
  BY <1>1, FS_Subset DEF IsLessonTable

(* A retired row keeps its id, course and slug through a refresh and is    *)
(* parked past the catalog, in rank order.                                 *)
LEMMA SeededRetired ==
    ASSUME NEW rows, IsLessonTable(rows), NEW c, NEW cat, IsCatalog(cat),
           NEW i \in Retired(rows, c, cat)
    PROVE  /\ i \in DOMAIN rows
           /\ Seeded(rows, c, cat)[i].course = c
           /\ Seeded(rows, c, cat)[i].slug = rows[i].slug
           /\ Seeded(rows, c, cat)[i].ordinal
                 = Len(cat) + Rank(Retired(rows, c, cat), i)
           /\ Rank(Retired(rows, c, cat), i) \in Nat \ {0}
<1>1. i \in DOMAIN rows /\ rows[i].course = c /\ rows[i] \in LessonRow
  BY DEF Retired, IdsOf, IsLessonTable
<1>2. i \notin Live(rows, c, cat)
  <2> SUFFICES ASSUME NEW k \in DOMAIN cat, IdAt(rows, c, cat, k) = i
               PROVE  FALSE
    BY DEF Live
  <2>1. Known(rows, c, cat[k].slug)
    BY <1>1, IdAtTaken
  <2> QED
    BY <2>1, IdAtKnown DEF Retired
<1>3. Seeded(rows, c, cat)[i] =
         [rows[i] EXCEPT !.active = FALSE,
                         !.ordinal = ParkedOrdinal(rows, c, cat, i)]
  BY <1>1, <1>2 DEF Seeded, SeededRow
<1>4. Rank(Retired(rows, c, cat), i) \in Nat \ {0}
  BY RetiredFinite, RankBounds
<1> QED
  BY <1>1, <1>3, <1>4 DEF ParkedOrdinal, LessonRow

(* Every other row is another course's, and is left alone.                 *)
LEMMA SeededOther ==
    ASSUME NEW rows, IsLessonTable(rows), UniqueRows(rows),
           NEW c, NEW cat, IsCatalog(cat),
           NEW i \in DOMAIN Seeded(rows, c, cat),
           i \notin Live(rows, c, cat), i \notin Retired(rows, c, cat)
    PROVE  /\ i \in DOMAIN rows
           /\ Seeded(rows, c, cat)[i] = rows[i]
           /\ rows[i].course # c
<1>1. i \in DOMAIN rows /\ Seeded(rows, c, cat)[i] = rows[i]
  BY DEF Seeded, SeededRow
<1>2. ASSUME rows[i].course = c PROVE FALSE
  <2>1. PICK k \in DOMAIN cat : cat[k].slug = rows[i].slug
    BY <1>1, <1>2 DEF Retired, IdsOf
  <2>2. Known(rows, c, cat[k].slug)
    BY <1>1, <1>2, <2>1 DEF Known, IdsOf
  <2>3. IdAt(rows, c, cat, k) = i
    BY <1>1, <1>2, <2>1, <2>2, IdAtKnown DEF IdsOf, UniqueRows
  <2> QED
    BY <2>3 DEF Live
<1> QED
  BY <1>1, <1>2

(* A refreshed table is a table of well-typed rows.                        *)
THEOREM SeededTable ==
    ASSUME NEW rows, IsLessonTable(rows), UniqueRows(rows),
           NEW c \in Courses, NEW cat, IsCatalog(cat)
    PROVE  IsLessonTable(Seeded(rows, c, cat))
<1> DEFINE new == Seeded(rows, c, cat)
           live == Live(rows, c, cat)
<1>1. DOMAIN new = DOMAIN rows \cup live
  BY DEF Seeded
<1>2. DOMAIN cat = 1 .. Len(cat) /\ Len(cat) \in Nat /\ cat \in Seq(CatalogEntry)
  BY DEF IsCatalog
<1>3. IsFiniteSet(live)
  <2>1. IsFiniteSet(DOMAIN cat)
    BY <1>2, FS_Interval
  <2> DEFINE f == [k \in DOMAIN cat |-> IdAt(rows, c, cat, k)]
  <2>2. f \in Surjection(DOMAIN cat, live)
    BY DEF Live, Surjection
  <2> QED
    BY <2>1, <2>2, FS_Surjection
<1>4. IsFiniteSet(DOMAIN new)
  BY <1>1, <1>3, FS_Union DEF IsLessonTable
<1>5. DOMAIN new \subseteq Nat \ {0}
  BY <1>1, IdAtType DEF Live, IsLessonTable
<1>6. ASSUME NEW i \in DOMAIN new PROVE new[i] \in LessonRow
  <2>1. CASE i \in live
    <3>1. PICK k \in DOMAIN cat : i = IdAt(rows, c, cat, k)
      BY <2>1 DEF Live
    <3>2. new[i] = RowFrom(c, cat, k) /\ cat[k] \in CatalogEntry /\ k \in Nat \ {0}
      BY <1>2, <3>1, SeededLive
    <3> QED
      BY <3>2 DEF RowFrom, LessonRow, CatalogEntry
  <2>2. CASE i \in Retired(rows, c, cat)
    <3>1. i \in DOMAIN rows /\ rows[i] \in LessonRow
      BY <2>2, SeededRetired DEF IsLessonTable
    <3>2. ParkedOrdinal(rows, c, cat, i) \in Nat \ {0}
      BY <1>2, <2>2, SeededRetired DEF ParkedOrdinal
    <3>3. \/ new[i] = [rows[i] EXCEPT !.active = FALSE,
                                      !.ordinal = ParkedOrdinal(rows, c, cat, i)]
          \/ i \in live
      BY <2>2, <3>1 DEF Seeded, SeededRow
    <3> QED
      BY <2>1, <3>1, <3>2, <3>3 DEF LessonRow
  <2>3. CASE i \notin live /\ i \notin Retired(rows, c, cat)
    BY <2>3, SeededOther DEF IsLessonTable
  <2> QED
    BY <2>1, <2>2, <2>3
<1> QED
  BY <1>4, <1>5, <1>6 DEF IsLessonTable

(* No refresh makes two rows of a course share a slug or an ordinal.       *)
THEOREM SeededUnique ==
    ASSUME NEW rows, IsLessonTable(rows), UniqueRows(rows),
           NEW c, NEW cat, IsCatalog(cat)
    PROVE  UniqueRows(Seeded(rows, c, cat))
<1> DEFINE new == Seeded(rows, c, cat)
           R == Retired(rows, c, cat)
           live == Live(rows, c, cat)
<1> SUFFICES ASSUME NEW i \in DOMAIN new, NEW j \in DOMAIN new,
                    new[i].course = new[j].course,
                    new[i].slug = new[j].slug \/ new[i].ordinal = new[j].ordinal
             PROVE  i = j
  BY DEF UniqueRows
<1>1. Len(cat) \in Nat /\ DOMAIN cat = 1 .. Len(cat)
  BY DEF IsCatalog
<1>2. ASSUME NEW x \in live
      PROVE  \E k \in DOMAIN cat : x = IdAt(rows, c, cat, k) /\ new[x] = RowFrom(c, cat, k)
  BY SeededLive DEF Live
<1>3. ASSUME NEW x \in live, NEW y \in R
      PROVE  new[x].slug # new[y].slug /\ new[x].ordinal # new[y].ordinal
  <2>1. PICK k \in DOMAIN cat : new[x] = RowFrom(c, cat, k)
    BY <1>2
  <2>2. /\ new[y].slug = rows[y].slug
        /\ new[y].ordinal = Len(cat) + Rank(R, y)
        /\ Rank(R, y) \in Nat \ {0}
    BY SeededRetired
  <2>3. new[x].slug = cat[k].slug /\ new[x].ordinal = k /\ k <= Len(cat) /\ k \in Nat
    BY <1>1, <2>1 DEF RowFrom
  <2>4. rows[y].slug # cat[k].slug
    BY DEF Retired
  <2> QED
    BY <1>1, <2>2, <2>3, <2>4
<1>4. \A x \in live \cup R : new[x].course = c
  <2>1. ASSUME NEW x \in live PROVE new[x].course = c
    <3>1. PICK k \in DOMAIN cat : new[x] = RowFrom(c, cat, k)
      BY <1>2
    <3> QED
      BY <3>1 DEF RowFrom
  <2>2. \A x \in R : new[x].course = c
    BY SeededRetired
  <2> QED
    BY <2>1, <2>2
<1>5. \A x \in DOMAIN new \ (live \cup R) :
         x \in DOMAIN rows /\ new[x] = rows[x] /\ new[x].course # c
  BY SeededOther
<1>6. CASE i \in live /\ j \in live
  <2>1. PICK k \in DOMAIN cat : i = IdAt(rows, c, cat, k) /\ new[i] = RowFrom(c, cat, k)
    BY <1>2, <1>6
  <2>2. PICK n \in DOMAIN cat : j = IdAt(rows, c, cat, n) /\ new[j] = RowFrom(c, cat, n)
    BY <1>2, <1>6
  <2>3. k = n
    BY <2>1, <2>2 DEF RowFrom, IsCatalog
  <2> QED
    BY <2>1, <2>2, <2>3
<1>7. CASE i \in R /\ j \in R
  <2>1. /\ i \in DOMAIN rows /\ j \in DOMAIN rows
        /\ new[i].slug = rows[i].slug /\ new[j].slug = rows[j].slug
        /\ new[i].ordinal = Len(cat) + Rank(R, i)
        /\ new[j].ordinal = Len(cat) + Rank(R, j)
        /\ Rank(R, i) \in Nat /\ Rank(R, j) \in Nat
    BY <1>7, SeededRetired
  <2>2. CASE new[i].slug = new[j].slug
    <3>1. rows[i].course = c /\ rows[j].course = c
      BY <1>7 DEF Retired, IdsOf
    <3> QED
      BY <2>1, <2>2, <3>1 DEF UniqueRows
  <2>3. CASE new[i].ordinal = new[j].ordinal
    <3>1. Rank(R, i) = Rank(R, j)
      BY <1>1, <2>1, <2>3
    <3> QED
      BY <1>7, <3>1, RetiredFinite, RankInjective
  <2> QED
    BY <2>2, <2>3
<1>8. CASE i \notin live \cup R /\ j \notin live \cup R
  BY <1>5, <1>8 DEF UniqueRows
<1> QED
  BY <1>3, <1>4, <1>5, <1>6, <1>7, <1>8

-----------------------------------------------------------------------------
(* Numbering.  As many different numbers from 1 .. n as there are members  *)
(* leave no gap.                                                           *)
LEMMA NumberedWithoutGap ==
    ASSUME NEW S, IsFiniteSet(S), NEW f, NEW n \in Nat, n = Cardinality(S),
           \A i \in S : f[i] \in 1 .. n,
           \A i, j \in S : f[i] = f[j] => i = j
    PROVE  {f[i] : i \in S} = 1 .. n
<1> DEFINE g == [i \in S |-> f[i]]
<1>1. g \in Injection(S, 1 .. n)
  BY DEF Injection, IsInjective
<1>2. IsFiniteSet(1 .. n) /\ Cardinality(1 .. n) = n
  BY FS_Interval
<1>3. g \in Surjection(S, 1 .. n)
  BY <1>1, <1>2, FS_Injection
<1>4. \A k \in 1 .. n : \E i \in S : g[i] = k
  BY <1>3 DEF Surjection
<1>5. \A k \in 1 .. n : k \in {f[i] : i \in S}
  BY <1>4
<1> QED
  BY <1>5

(* A catalog of n lessons occupies n ids.                                  *)
LEMMA LiveCount ==
    ASSUME NEW rows, IsLessonTable(rows), NEW c, NEW cat, IsCatalog(cat)
    PROVE  /\ IsFiniteSet(Live(rows, c, cat))
           /\ Cardinality(Live(rows, c, cat)) = Len(cat)
<1> DEFINE f == [k \in DOMAIN cat |-> IdAt(rows, c, cat, k)]
<1>1. DOMAIN cat = 1 .. Len(cat) /\ Len(cat) \in Nat
  BY DEF IsCatalog
<1>2. IsFiniteSet(DOMAIN cat) /\ Cardinality(DOMAIN cat) = Len(cat)
  <2> DEFINE n == Len(cat)
  <2>1. n \in Nat /\ DOMAIN cat = 1 .. n
    BY <1>1
  <2> HIDE DEF n
  <2>2. IsFiniteSet(1 .. n) /\ Cardinality(1 .. n) = n
    BY <2>1, FS_Interval
  <2> QED
    BY <2>1, <2>2 DEF n
<1>3. f \in Surjection(DOMAIN cat, Live(rows, c, cat))
  BY DEF Live, Surjection
<1>4. f \in Injection(DOMAIN cat, Live(rows, c, cat))
  BY IdAtInjective DEF Live, Injection, IsInjective
<1> QED
  BY <1>2, <1>3, <1>4, FS_Surjection

(* After a refresh the course's rows are the catalog's, which are active,  *)
(* and the retired ones, which are not.                                    *)
LEMMA SeededIds ==
    ASSUME NEW rows, IsLessonTable(rows), UniqueRows(rows),
           NEW c, NEW cat, IsCatalog(cat)
    PROVE  LET new == Seeded(rows, c, cat)
               live == Live(rows, c, cat)
               R == Retired(rows, c, cat)
           IN  /\ live \cap R = {}
               /\ IdsOf(new, c) = live \cup R
               /\ ActiveIds(new, c) = live
               /\ \A i \in live : new[i].ordinal \in 1 .. Len(cat)
<1> DEFINE new == Seeded(rows, c, cat)
           live == Live(rows, c, cat)
           R == Retired(rows, c, cat)
<1>0. DOMAIN cat = 1 .. Len(cat)
  BY DEF IsCatalog
<1>1. ASSUME NEW i \in live
      PROVE  /\ i \in DOMAIN new /\ i \notin R /\ new[i].course = c
             /\ new[i].active = TRUE /\ new[i].ordinal \in 1 .. Len(cat)
  <2>1. PICK k \in DOMAIN cat : i = IdAt(rows, c, cat, k)
    BY DEF Live
  <2>2. i \in DOMAIN new /\ new[i] = RowFrom(c, cat, k)
    BY <2>1, SeededLive
  <2>3. i \notin R
    <3> SUFFICES ASSUME i \in R PROVE FALSE
      OBVIOUS
    <3>1. new[i].slug = rows[i].slug
      BY SeededRetired
    <3>2. rows[i].slug = cat[k].slug
      BY <2>2, <3>1 DEF RowFrom
    <3> QED
      BY <3>2 DEF Retired
  <2> QED
    BY <1>0, <2>2, <2>3 DEF RowFrom
<1>2. ASSUME NEW i \in R
      PROVE  i \in DOMAIN new /\ new[i].course = c /\ new[i].active = FALSE
  <2>1. i \in DOMAIN rows /\ new[i].course = c
    BY SeededRetired
  <2>2. i \notin live
    BY <1>1
  <2>3. new[i] = [rows[i] EXCEPT !.active = FALSE,
                                 !.ordinal = ParkedOrdinal(rows, c, cat, i)]
    BY <2>1, <2>2 DEF Seeded, SeededRow
  <2>4. rows[i] \in LessonRow
    BY <2>1 DEF IsLessonTable
  <2>5. new[i].active = FALSE
    BY <2>3, <2>4 DEF LessonRow
  <2>6. i \in DOMAIN new
    BY <2>1 DEF Seeded
  <2> QED
    BY <2>1, <2>5, <2>6
<1>3. ASSUME NEW i \in DOMAIN new, new[i].course = c
      PROVE  i \in live \cup R
  BY <1>3, SeededOther
<1> HIDE DEF new, live, R
<1>4. live \cap R = {} /\ IdsOf(new, c) = live \cup R
  BY <1>1, <1>2, <1>3 DEF IdsOf
<1>5. ActiveIds(new, c) = live
  BY <1>1, <1>2, <1>4 DEF ActiveIds
<1> QED
  BY <1>1, <1>4, <1>5 DEF new, live, R

(* The rows of other courses are left alone.                               *)
LEMMA SeededElsewhere ==
    ASSUME NEW rows, IsLessonTable(rows), UniqueRows(rows),
           NEW c, NEW cat, IsCatalog(cat), NEW d, d # c
    PROVE  /\ IdsOf(Seeded(rows, c, cat), d) = IdsOf(rows, d)
           /\ \A i \in IdsOf(rows, d) : Seeded(rows, c, cat)[i] = rows[i]
<1> DEFINE new == Seeded(rows, c, cat)
<1>1. ASSUME NEW i \in Live(rows, c, cat) \cup Retired(rows, c, cat)
      PROVE  new[i].course = c
  BY SeededIds DEF IdsOf
<1>2. ASSUME NEW i \in DOMAIN new, new[i].course = d
      PROVE  i \in DOMAIN rows /\ new[i] = rows[i]
  BY <1>1, <1>2, SeededOther
<1>3. ASSUME NEW i \in DOMAIN rows, rows[i].course = d
      PROVE  i \in DOMAIN new /\ new[i] = rows[i]
  <2>1. i \in DOMAIN new /\ new[i].course = d
    BY <1>3, SeededKeepsIdentity
  <2> QED
    BY <1>2, <2>1
<1> HIDE DEF new
<1>4. IdsOf(new, d) = IdsOf(rows, d)
  BY <1>2, <1>3 DEF IdsOf
<1> QED
  BY <1>3, <1>4 DEF IdsOf, new

(* A refresh numbers a course without a gap: the catalog first, whatever   *)
(* it retired behind it.                                                   *)
THEOREM SeededDense ==
    ASSUME NEW rows, IsLessonTable(rows), UniqueRows(rows),
           NEW c \in Courses, NEW cat, IsCatalog(cat)
    PROVE  LET new == Seeded(rows, c, cat)
           IN  /\ {new[i].ordinal : i \in IdsOf(new, c)}
                    = 1 .. Cardinality(IdsOf(new, c))
               /\ \A i \in ActiveIds(new, c) :
                     new[i].ordinal <= Cardinality(ActiveIds(new, c))
<1> DEFINE new == Seeded(rows, c, cat)
           live == Live(rows, c, cat)
           R == Retired(rows, c, cat)
           ids == IdsOf(new, c)
           n == Cardinality(ids)
<1>1. Len(cat) \in Nat
  BY DEF IsCatalog
<1>2. /\ IsFiniteSet(live) /\ Cardinality(live) = Len(cat)
      /\ IsFiniteSet(R) /\ R \in SUBSET Int
  BY LiveCount, RetiredFinite
<1>3. /\ live \cap R = {} /\ ids = live \cup R /\ ActiveIds(new, c) = live
      /\ \A i \in live : new[i].ordinal \in 1 .. Len(cat)
  BY SeededIds
<1>4. Cardinality(R) \in Nat
  BY <1>2, FS_CardinalityType
<1>5. IsFiniteSet(ids) /\ n = Len(cat) + Cardinality(R)
  <2>1. Cardinality(live \cap R) = 0
    BY <1>3, FS_EmptySet
  <2>2. /\ IsFiniteSet(live \cup R)
        /\ Cardinality(live \cup R) = Cardinality(live) + Cardinality(R) - 0
    BY <1>2, <2>1, FS_Union
  <2> QED
    BY <1>1, <1>2, <1>3, <1>4, <2>2
<1>6. \A i \in R : new[i].ordinal \in 1 .. Len(cat) + Cardinality(R)
  <2> SUFFICES ASSUME NEW i \in R PROVE new[i].ordinal \in 1 .. Len(cat) + Cardinality(R)
    OBVIOUS
  <2>1. new[i].ordinal = Len(cat) + Rank(R, i) /\ Rank(R, i) \in Nat \ {0}
    BY SeededRetired
  <2>2. Rank(R, i) <= Cardinality(R)
    BY <1>2, RankBounds
  <2> HIDE DEF new, R
  <2> QED
    BY <1>1, <1>4, <2>1, <2>2
<1>7. UniqueRows(new)
  BY SeededUnique
<1> HIDE DEF new, live, R
<1>8. \A i, j \in ids : new[i].ordinal = new[j].ordinal => i = j
  BY <1>7 DEF IdsOf, UniqueRows
<1> DEFINE f == [i \in ids |-> new[i].ordinal]
<1>9. /\ \A i \in ids : f[i] \in 1 .. n
      /\ \A i, j \in ids : f[i] = f[j] => i = j
  <2>1. \A i \in live : new[i].ordinal \in 1 .. Len(cat) + Cardinality(R)
    BY <1>1, <1>3, <1>4
  <2>2. \A i \in ids : new[i].ordinal \in 1 .. n
    BY <1>3, <1>5, <1>6, <2>1
  <2> HIDE DEF ids, n
  <2> QED
    BY <1>8, <2>2
<1>10. n \in Nat
  BY <1>1, <1>4, <1>5
<1>11. {f[i] : i \in ids} = 1 .. n
  <2> HIDE DEF ids, f
  <2> QED
    BY <1>5, <1>9, <1>10, NumberedWithoutGap
<1>12. {new[i].ordinal : i \in ids} = 1 .. n
  BY <1>11
<1>13. \A i \in ActiveIds(new, c) : new[i].ordinal <= Cardinality(ActiveIds(new, c))
  <2>1. \A i \in live : new[i].ordinal <= Len(cat)
    BY <1>1, <1>3
  <2> QED
    BY <1>2, <1>3, <2>1
<1> QED
  BY <1>12, <1>13 DEF new

-----------------------------------------------------------------------------
(* Copying a table under fresh ids.  When the kept ids go no further than  *)
(* the base, the kept rows stay and every copied row gets an id of its own *)
(* beyond them.                                                            *)
LEMMA NewIdBeyondBase ==
    ASSUME NEW ids \in SUBSET Nat, IsFiniteSet(ids), NEW base \in Nat,
           NEW i \in ids
    PROVE  NewId(ids, base, i) \in Nat \ {0} /\ NewId(ids, base, i) > base
<1>1. ids \in SUBSET Int /\ i \in Int
  OBVIOUS
<1>2. Rank(ids, i) \in Nat /\ Rank(ids, i) >= 1
  BY <1>1, RankBounds
<1> QED
  BY <1>2 DEF NewId

(* The copy loop of consolidateOne numbers no two legacy rows alike.       *)
LEMMA NewIdInjective ==
    ASSUME NEW ids \in SUBSET Nat, IsFiniteSet(ids), NEW base \in Nat,
           NEW i \in ids, NEW j \in ids, NewId(ids, base, i) = NewId(ids, base, j)
    PROVE  i = j
<1>1. ids \in SUBSET Int /\ i \in Int /\ j \in Int
  OBVIOUS
<1>2. Rank(ids, i) \in Nat /\ Rank(ids, j) \in Nat
  BY <1>1, RankBounds
<1>3. Rank(ids, i) = Rank(ids, j)
  BY <1>2 DEF NewId
<1> QED
  BY <1>1, <1>3, RankInjective

(* A consolidated table holds what was kept and one row under each new id, *)
(* and nothing else: new ids lie past the kept ones.                       *)
LEMMA AdoptRows ==
    ASSUME NEW kept, NEW table, NEW ids \in SUBSET Nat, IsFiniteSet(ids),
           NEW base \in Nat, DOMAIN table \subseteq ids,
           DOMAIN kept \subseteq Nat, \A k \in DOMAIN kept : k <= base
    PROVE  /\ \A k : k \in DOMAIN Adopt(kept, table, ids, base) <=>
                 \/ k \in DOMAIN kept
                 \/ \E i \in DOMAIN table : k = NewId(ids, base, i)
           /\ \A k \in DOMAIN kept : Adopt(kept, table, ids, base)[k] = kept[k]
           /\ \A i \in DOMAIN table :
                 Adopt(kept, table, ids, base)[NewId(ids, base, i)] = table[i]
<1> DEFINE new == {NewId(ids, base, i) : i \in DOMAIN table}
           both == Adopt(kept, table, ids, base)
<1>1. DOMAIN both = DOMAIN kept \cup new
  BY DEF Adopt
<1>2. ASSUME NEW k \in DOMAIN kept PROVE both[k] = kept[k]
  <2>1. ASSUME NEW i \in DOMAIN table, k = NewId(ids, base, i) PROVE FALSE
    <3>1. k > base /\ k \in Nat
      BY <2>1, NewIdBeyondBase
    <3>2. k <= base
      OBVIOUS
    <3> QED
      BY <3>1, <3>2
  <2> QED
    BY <2>1 DEF Adopt
<1>3. ASSUME NEW i \in DOMAIN table PROVE both[NewId(ids, base, i)] = table[i]
  <2> DEFINE n == CHOOSE m \in DOMAIN table : NewId(ids, base, m) = NewId(ids, base, i)
  <2>1. n \in DOMAIN table /\ NewId(ids, base, n) = NewId(ids, base, i)
    OBVIOUS
  <2>2. n = i
    BY <2>1, NewIdInjective
  <2>3. both[NewId(ids, base, i)] = table[n]
    BY DEF Adopt
  <2> QED
    BY <2>2, <2>3
<1> QED
  BY <1>1, <1>2, <1>3

(* The ids of a consolidated table are positive and finitely many.         *)
LEMMA AdoptDomain ==
    ASSUME NEW kept, NEW table, NEW ids \in SUBSET Nat, IsFiniteSet(ids),
           NEW base \in Nat, DOMAIN table \subseteq ids,
           DOMAIN kept \subseteq Nat \ {0}, IsFiniteSet(DOMAIN kept),
           \A k \in DOMAIN kept : k <= base
    PROVE  /\ DOMAIN Adopt(kept, table, ids, base) \subseteq Nat \ {0}
           /\ IsFiniteSet(DOMAIN Adopt(kept, table, ids, base))
<1> DEFINE new == {NewId(ids, base, i) : i \in DOMAIN table}
           both == Adopt(kept, table, ids, base)
<1>1. \A k : k \in DOMAIN both <=> \/ k \in DOMAIN kept
                                 \/ \E i \in DOMAIN table : k = NewId(ids, base, i)
  BY AdoptRows, DOMAIN kept \subseteq Nat
<1>2. \A i \in DOMAIN table : NewId(ids, base, i) \in Nat \ {0}
  BY NewIdBeyondBase
<1>3. IsFiniteSet(new)
  <2> DEFINE f == [i \in DOMAIN table |-> NewId(ids, base, i)]
  <2>1. f \in Surjection(DOMAIN table, new)
    BY DEF Surjection
  <2>2. IsFiniteSet(DOMAIN table)
    BY FS_Subset
  <2> QED
    BY <2>1, <2>2, FS_Surjection
<1>4. DOMAIN both = DOMAIN kept \cup new
  BY <1>1
<1>5. DOMAIN both \subseteq Nat \ {0}
  BY <1>1, <1>2
<1> HIDE DEF new, both
<1>6. IsFiniteSet(DOMAIN both)
  BY <1>3, <1>4, FS_Union
<1> QED
  BY <1>5, <1>6 DEF both

(* A copy of one course's table beside the rows of other courses is again  *)
(* a well-typed table that breaks no UNIQUE constraint.                    *)
THEOREM AdoptTable ==
    ASSUME NEW kept, IsLessonTable(kept), UniqueRows(kept), NEW c, NEW base \in Nat,
           \A k \in DOMAIN kept : k <= base /\ kept[k].course # c,
           NEW table, IsLessonTable(table), UniqueRows(table),
           \A i \in DOMAIN table : table[i].course = c
    PROVE  /\ IsLessonTable(Adopt(kept, table, DOMAIN table, base))
           /\ UniqueRows(Adopt(kept, table, DOMAIN table, base))
<1> DEFINE ids == DOMAIN table
           new == {NewId(ids, base, i) : i \in ids}
           both == Adopt(kept, table, ids, base)
<1>1. /\ ids \in SUBSET Nat /\ IsFiniteSet(ids) /\ DOMAIN table \subseteq ids
      /\ DOMAIN kept \subseteq Nat /\ IsFiniteSet(DOMAIN kept)
      /\ \A k \in DOMAIN kept : k <= base
  BY DEF IsLessonTable
<1>2. /\ \A k : k \in DOMAIN both <=> \/ k \in DOMAIN kept
                                       \/ \E i \in ids : k = NewId(ids, base, i)
      /\ \A k \in DOMAIN kept : both[k] = kept[k]
      /\ \A i \in ids : both[NewId(ids, base, i)] = table[i]
  BY <1>1, AdoptRows
<1>3. IsLessonTable(both)
  <2>1. DOMAIN both \subseteq Nat \ {0} /\ IsFiniteSet(DOMAIN both)
    BY <1>1, AdoptDomain DEF IsLessonTable
  <2>2. \A k \in DOMAIN both : both[k] \in LessonRow
    BY <1>2 DEF IsLessonTable
  <2> QED
    BY <2>1, <2>2 DEF IsLessonTable
<1>4. UniqueRows(both)
  <2> SUFFICES ASSUME NEW k \in DOMAIN both, NEW n \in DOMAIN both,
                      both[k].course = both[n].course,
                      both[k].slug = both[n].slug \/ both[k].ordinal = both[n].ordinal
               PROVE  k = n
    BY DEF UniqueRows
  <2>1. CASE k \in DOMAIN kept /\ n \in DOMAIN kept
    BY <1>2, <2>1 DEF UniqueRows
  <2>2. CASE k \in new /\ n \in new
    <3>1. PICK i \in ids : k = NewId(ids, base, i) /\ both[k] = table[i]
      BY <1>2, <2>2
    <3>2. PICK j \in ids : n = NewId(ids, base, j) /\ both[n] = table[j]
      BY <1>2, <2>2
    <3> QED
      BY <3>1, <3>2 DEF UniqueRows
  <2>3. \A x \in new : both[x].course = c
    BY <1>2
  <2> QED
    BY <1>2, <2>1, <2>2, <2>3
<1> QED
  BY <1>3, <1>4
=============================================================================
