------------------------ MODULE LearnerStoreTheorems ------------------------
(***************************************************************************)
(* What LearnerStore guarantees for every set of courses, catalogs, legacy *)
(* databases and processes.                                                *)
(***************************************************************************)
EXTENDS LearnerStore, LessonRowsTheorems

(* The two facts every other one rests on.  Constraints come first: only   *)
(* when slugs are unique does a slug name one id to refresh.               *)
TablesSound == TypeOK /\ ConstraintsHold

(* An empty database, as EnsureSchema leaves it, is sound.                 *)
LEMMA InitSound == Init => TablesSound
<1> SUFFICES ASSUME Init PROVE TablesSound
  OBVIOUS
<1>1. DOMAIN NoRows = {} /\ IsFiniteSet({})
  BY FS_EmptySet DEF NoRows
<1> QED
  BY <1>1 DEF Init, TablesSound, TypeOK, ConstraintsHold, IsLessonTable,
              UniqueRows, ReferencesHold

(* The five steps of a verb leave the lessons and prerequisites alone and  *)
(* write only rows of lessons that exist.                                  *)
LEMMA VerbSound ==
    ASSUME TablesSound, NEW p \in Clients, Verb(p)
    PROVE  TablesSound'
<1> USE DEF TablesSound
<1>1. ASSUME NEW verb \in {"done", "skip", "undone", "note"}, NEW c \in Courses,
             NEW n \in 1 .. Cardinality(Slugs), NEW text \in Notes \cup {""},
             Resolve(p, verb, c, n, text)
      PROVE  TablesSound'
  <2>1. PICK i \in ActiveIds(lessons, c) :
          client' = [client EXCEPT ![p] =
              [verb |-> verb, course |-> c, id |-> i, slug |-> lessons[i].slug,
               revision |-> lessons[i].revision, note |-> text]]
    BY <1>1 DEF Resolve
  <2>2. i \in Nat \ {0} /\ lessons[i] \in LessonRow
    BY DEF ActiveIds, IdsOf, TypeOK, IsLessonTable
  <2>3. client' \in [Clients -> Resolved \cup {Idle}]
    BY <1>1, <2>1, <2>2 DEF TypeOK, Resolved, LessonRow
  <2> QED
    BY <1>1, <2>3 DEF Resolve, tables, TypeOK, ConstraintsHold
<1>2. CASE RecordStatus(p)
  <2> DEFINE v == client[p]
             row == [status    |-> IF v.verb = "done" THEN "done" ELSE "skipped",
                     completed |-> CompletedBy(v), notes |-> NoteAfter(v)]
             attempt == [lesson |-> v.id, revision |-> v.revision]
             a == TopId(attempts) + 1
  <2>1. v \in Resolved /\ v.id \in DOMAIN lessons
    BY <1>2 DEF RecordStatus, TypeOK, Idle
  <2>2. row \in ProgressRow /\ (row.status = "done" => row.completed # NoRevision)
    BY <2>1 DEF ProgressRow, Resolved, CompletedBy, NoteAfter, NotesOf, TypeOK,
                NoRevision
  <2>3. attempt \in AttemptRow /\ a \in Nat \ {0}
    <3>1. DOMAIN attempts \subseteq Nat /\ IsFiniteSet(DOMAIN attempts)
      BY DEF TypeOK
    <3>2. TopId(attempts) \in Nat
      BY <3>1, TopIdBounds
    <3>3. a \in Nat \ {0}
      BY <3>2
    <3>4. attempt \in AttemptRow
      BY <2>1 DEF AttemptRow, Resolved
    <3> QED
      BY <3>3, <3>4
  <2>4. /\ DOMAIN progress' = DOMAIN progress \cup {v.id}
        /\ \A i \in DOMAIN progress' :
              progress'[i] = IF i = v.id THEN row ELSE progress[i]
    BY <1>2 DEF RecordStatus, Put
  <2>5. /\ DOMAIN attempts' = DOMAIN attempts \cup {a}
        /\ \A i \in DOMAIN attempts' :
              attempts'[i] = IF i = a THEN attempt ELSE attempts[i]
    BY <1>2 DEF RecordStatus, Put
  <2>6. IsFiniteSet(DOMAIN attempts')
    BY <2>5, FS_AddElement DEF TypeOK
  <2>7. earned' \subseteq Courses \X Slugs \X Nat
    <3>1. <<v.course, v.slug, v.revision>> \in Courses \X Slugs \X Nat
      BY <2>1 DEF Resolved
    <3>2. earned \subseteq Courses \X Slugs \X Nat
      BY DEF TypeOK
    <3>3. earned' \subseteq earned \cup {<<v.course, v.slug, v.revision>>}
      BY <1>2 DEF RecordStatus
    <3> HIDE DEF v
    <3> QED
      BY <3>1, <3>2, <3>3
  <2>8. client' \in [Clients -> Resolved \cup {Idle}]
    BY <1>2 DEF RecordStatus, TypeOK
  <2>9. UNCHANGED <<lessons, prereqs, replacements>>
    BY <1>2 DEF RecordStatus
  <2>10. TypeOK'
    BY <2>1, <2>2, <2>3, <2>4, <2>5, <2>6, <2>7, <2>8, <2>9 DEF TypeOK, Resolved
  <2>11. ConstraintsHold'
    BY <2>1, <2>3, <2>4, <2>5, <2>9 DEF ConstraintsHold, ReferencesHold
  <2> QED
    BY <2>10, <2>11
<1>3. CASE Undo(p)
  <2>1. client' \in [Clients -> Resolved \cup {Idle}]
    BY <1>3 DEF Undo, TypeOK
  <2>2. /\ DOMAIN progress' = DOMAIN progress
        /\ \A i \in DOMAIN progress' :
              /\ progress'[i] \in ProgressRow
              /\ progress'[i].status = "done" => progress'[i].completed # NoRevision
    <3> DEFINE id == client[p].id
    <3>1. CASE id \in DOMAIN progress
      <4> DEFINE row == [status |-> "todo", completed |-> NoRevision,
                         notes |-> progress[id].notes]
      <4>1. progress' = [progress EXCEPT ![id] = row]
        BY <1>3, <3>1 DEF Undo
      <4>2. progress[id] \in ProgressRow
        BY <3>1 DEF TypeOK
      <4>3. row \in ProgressRow /\ row.status # "done"
        BY <4>2 DEF ProgressRow, NoRevision
      <4> HIDE DEF row
      <4> QED
        BY <4>1, <4>3 DEF TypeOK
    <3>2. CASE id \notin DOMAIN progress
      BY <1>3, <3>2 DEF Undo, TypeOK
    <3> QED
      BY <3>1, <3>2
  <2> QED
    BY <1>3, <2>1, <2>2 DEF Undo, TypeOK, ConstraintsHold, ReferencesHold
<1>4. CASE SaveNote(p)
  <2> DEFINE v == client[p]
             row == IF v.id \in DOMAIN progress
                    THEN [progress[v.id] EXCEPT !.notes = v.note]
                    ELSE [status |-> "todo", completed |-> NoRevision, notes |-> v.note]
  <2>1. v \in Resolved /\ v.id \in DOMAIN lessons
    BY <1>4 DEF SaveNote, TypeOK, Idle
  <2>2. row \in ProgressRow /\ (row.status = "done" => row.completed # NoRevision)
    <3>1. v.note \in Notes \cup {""}
      BY <2>1 DEF Resolved
    <3>2. CASE v.id \in DOMAIN progress
      <4>1. /\ progress[v.id] \in ProgressRow
            /\ progress[v.id].status = "done" => progress[v.id].completed # NoRevision
        BY <3>2 DEF TypeOK
      <4>2. row = [progress[v.id] EXCEPT !.notes = v.note]
        BY <3>2
      <4> HIDE DEF row, v
      <4> QED
        BY <3>1, <4>1, <4>2 DEF ProgressRow
    <3>3. CASE v.id \notin DOMAIN progress
      BY <3>1, <3>3 DEF ProgressRow, NoRevision
    <3> QED
      BY <3>2, <3>3
  <2>3. /\ DOMAIN progress' = DOMAIN progress \cup {v.id}
        /\ \A i \in DOMAIN progress' :
              progress'[i] = IF i = v.id THEN row ELSE progress[i]
    BY <1>4 DEF SaveNote, Put
  <2>4. client' \in [Clients -> Resolved \cup {Idle}]
    BY <1>4 DEF SaveNote, TypeOK
  <2>5. UNCHANGED <<lessons, prereqs, attempts, replacements, earned>>
    BY <1>4 DEF SaveNote
  <2>6. TypeOK'
    BY <2>1, <2>2, <2>3, <2>4, <2>5 DEF TypeOK, Resolved
  <2>7. ConstraintsHold'
    BY <2>1, <2>3, <2>5 DEF ConstraintsHold, ReferencesHold
  <2> QED
    BY <2>6, <2>7
<1>5. CASE GiveUp(p)
  BY <1>5 DEF GiveUp, tables, TypeOK, ConstraintsHold
<1> QED
  BY <1>1, <1>2, <1>3, <1>4, <1>5 DEF Verb

(* A refresh of one course, by any catalog, leaves sound tables: no row    *)
(* goes away, and prerequisites name rows the refresh has written.         *)
LEMMA RefreshSound ==
    ASSUME TablesSound, NEW c \in Courses, NEW cat \in CatalogsOf[c],
           Refresh(c, cat)
    PROVE  TablesSound'
<1>1. IsCatalog(cat)
  BY LearnerAssumption DEF LearnerAssumption
<1>2. IsLessonTable(lessons) /\ UniqueRows(lessons)
  BY DEF TablesSound, TypeOK, ConstraintsHold
<1>3. /\ lessons' = Seeded(lessons, c, cat)
      /\ prereqs' = SeededPrereqs(lessons, prereqs, c, cat)
      /\ UNCHANGED <<progress, attempts, client, replacements, earned>>
  BY DEF Refresh
<1>4. IsLessonTable(lessons')
  BY <1>1, <1>2, <1>3, SeededTable
<1>5. UniqueRows(lessons')
  BY <1>1, <1>2, <1>3, SeededUnique
<1>6. DOMAIN lessons \subseteq DOMAIN lessons'
  BY <1>1, <1>2, <1>3, SeededKeepsIdentity
<1>7. ASSUME NEW e \in prereqs'
      PROVE  /\ e \in (Nat \ {0}) \X (Nat \ {0})
             /\ e[1] \in DOMAIN lessons' /\ e[2] \in DOMAIN lessons'
  <2>1. CASE e \in prereqs
    BY <1>6, <2>1 DEF TablesSound, TypeOK, ConstraintsHold, ReferencesHold
  <2>2. CASE e \notin prereqs
    <3>0. PICK k \in DOMAIN cat : \E n \in cat[k].needs :
             e = <<IdAt(lessons, c, cat, k), IdAt(lessons, c, cat, n)>>
      BY <1>3, <2>2 DEF SeededPrereqs, OtherEdges
    <3>1. PICK n \in cat[k].needs :
             e = <<IdAt(lessons, c, cat, k), IdAt(lessons, c, cat, n)>>
      BY <3>0
    <3>2. n \in DOMAIN cat
      <4>1. cat \in Seq(CatalogEntry) /\ cat[k].needs \subseteq 1 .. k - 1
        BY <1>1 DEF IsCatalog
      <4>2. DOMAIN cat = 1 .. Len(cat) /\ Len(cat) \in Nat
        BY <4>1
      <4> QED
        BY <4>1, <4>2
    <3>3. /\ IdAt(lessons, c, cat, k) \in Nat \ {0}
          /\ IdAt(lessons, c, cat, n) \in Nat \ {0}
      BY <1>1, <1>2, <3>2, IdAtType
    <3>4. /\ IdAt(lessons, c, cat, k) \in DOMAIN lessons'
          /\ IdAt(lessons, c, cat, n) \in DOMAIN lessons'
      BY <1>1, <1>2, <1>3, <3>2, SeededLive
    <3> QED
      BY <3>1, <3>3, <3>4
  <2> QED
    BY <2>1, <2>2
<1>8. TypeOK'
  BY <1>3, <1>4, <1>7 DEF TablesSound, TypeOK
<1>9. ConstraintsHold'
  BY <1>3, <1>5, <1>6, <1>7
     DEF TablesSound, ConstraintsHold, ReferencesHold
<1> QED
  BY <1>8, <1>9 DEF TablesSound

(* The id a consolidation gives row i of a legacy database.                *)
CopiedAt(c, old, i) == NewId(DOMAIN old.lessons, CopyBase(c), i)

(* What a consolidation writes, row by row.                                *)
LEMMA ConsolidateRows ==
    ASSUME TablesSound, NEW c \in Courses, NEW old, IsLegacyStore(c, old),
           ConsolidateCourse(c, old)
    PROVE  /\ \A k : k \in DOMAIN lessons' <=>
                 \/ k \in DOMAIN lessons \ Gone(c)
                 \/ \E i \in DOMAIN old.lessons : k = CopiedAt(c, old, i)
           /\ \A k \in DOMAIN lessons \ Gone(c) : lessons'[k] = lessons[k]
           /\ \A i \in DOMAIN old.lessons : lessons'[CopiedAt(c, old, i)] = old.lessons[i]
           /\ \A k : k \in DOMAIN progress' <=>
                 \/ k \in DOMAIN progress \ Gone(c)
                 \/ \E i \in DOMAIN old.progress : k = CopiedAt(c, old, i)
           /\ \A k \in DOMAIN progress \ Gone(c) : progress'[k] = progress[k]
           /\ \A i \in DOMAIN old.progress : progress'[CopiedAt(c, old, i)] = old.progress[i]
           /\ IsLessonTable(lessons') /\ UniqueRows(lessons')
           /\ \A i \in DOMAIN old.lessons : CopiedAt(c, old, i) \in Nat \ {0}
<1> DEFINE ids == DOMAIN old.lessons
           base == CopyBase(c)
           kept == Without(lessons, Gone(c))
           keptProgress == Without(progress, Gone(c))
<1>1. IsLessonTable(lessons) /\ UniqueRows(lessons)
  BY DEF TablesSound, TypeOK, ConstraintsHold
<1>2. /\ DOMAIN kept = DOMAIN lessons \ Gone(c)
      /\ \A k \in DOMAIN kept : kept[k] = lessons[k] /\ kept[k].course # c
  BY DEF Without, Gone, IdsOf
<1>3. IsLessonTable(kept)
  BY <1>1, <1>2, FS_Subset, DOMAIN kept \in SUBSET (DOMAIN lessons) DEF IsLessonTable
<1>4. UniqueRows(kept)
  BY <1>1, <1>2 DEF UniqueRows
<1>5. base \in Nat /\ \A k \in DOMAIN kept : k <= base
  <2>1. DOMAIN kept \subseteq Nat /\ IsFiniteSet(DOMAIN kept)
    BY <1>3 DEF IsLessonTable
  <2> QED
    BY <2>1, TopIdBounds DEF CopyBase
<1>6. /\ IsLessonTable(old.lessons) /\ UniqueRows(old.lessons)
      /\ \A i \in ids : old.lessons[i].course = c
      /\ DOMAIN old.progress \subseteq ids
  BY DEF IsLegacyStore, ReferencesHold
<1>7. ids \in SUBSET Nat /\ IsFiniteSet(ids) /\ DOMAIN old.lessons \subseteq ids
  BY <1>6 DEF IsLessonTable
<1>8. /\ lessons' = Adopt(kept, old.lessons, ids, base)
      /\ progress' = Adopt(keptProgress, old.progress, ids, base)
  BY DEF ConsolidateCourse
<1>9. /\ DOMAIN keptProgress = DOMAIN progress \ Gone(c)
      /\ \A k \in DOMAIN keptProgress : keptProgress[k] = progress[k]
  BY DEF Without
<1>10. DOMAIN keptProgress \subseteq DOMAIN kept
  BY <1>2, <1>9 DEF TablesSound, ConstraintsHold, ReferencesHold
<1>11. DOMAIN kept \subseteq Nat
  BY <1>3 DEF IsLessonTable
<1> HIDE DEF kept, keptProgress, base, ids
<1>12. /\ \A k : k \in DOMAIN lessons' <=>
             \/ k \in DOMAIN kept
             \/ \E i \in DOMAIN old.lessons : k = NewId(ids, base, i)
       /\ \A k \in DOMAIN kept : lessons'[k] = kept[k]
       /\ \A i \in DOMAIN old.lessons : lessons'[NewId(ids, base, i)] = old.lessons[i]
  BY <1>5, <1>7, <1>8, <1>11, AdoptRows
<1>13. /\ \A k : k \in DOMAIN progress' <=>
             \/ k \in DOMAIN keptProgress
             \/ \E i \in DOMAIN old.progress : k = NewId(ids, base, i)
       /\ \A k \in DOMAIN keptProgress : progress'[k] = keptProgress[k]
       /\ \A i \in DOMAIN old.progress : progress'[NewId(ids, base, i)] = old.progress[i]
  <2>1. /\ DOMAIN keptProgress \subseteq Nat
        /\ \A k \in DOMAIN keptProgress : k <= base
    BY <1>5, <1>10, <1>11
  <2> QED
    BY <1>5, <1>6, <1>7, <1>8, <2>1, AdoptRows
<1>14. IsLessonTable(lessons') /\ UniqueRows(lessons')
  <2>1. \A k \in DOMAIN kept : k <= base /\ kept[k].course # c
    BY <1>2, <1>5
  <2>2. ids = DOMAIN old.lessons
    BY DEF ids
  <2> QED
    BY <1>3, <1>4, <1>5, <1>6, <1>8, <2>1, <2>2, AdoptTable
<1>15. \A i \in ids : NewId(ids, base, i) \in Nat \ {0}
  BY <1>5, <1>7, NewIdBeyondBase
<1> QED
  BY <1>2, <1>9, <1>12, <1>13, <1>14, <1>15 DEF ids, base, CopiedAt

(* The copy of a legacy attempt; it belongs to the copy of its lesson.     *)
CopiedAttempt(c, old, a) ==
    [old.attempts[a] EXCEPT !.lesson = CopiedAt(c, old, old.attempts[a].lesson)]

(* The attempts a consolidation leaves: those of other courses' lessons    *)
(* under their ids, and a copy of every legacy one.                        *)
LEMMA ConsolidateAttempts ==
    ASSUME TablesSound, NEW c \in Courses, NEW old, IsLegacyStore(c, old),
           ConsolidateCourse(c, old)
    PROVE  /\ DOMAIN attempts' \subseteq Nat \ {0} /\ IsFiniteSet(DOMAIN attempts')
           /\ \A a \in DOMAIN attempts :
                 attempts[a].lesson \notin Gone(c) =>
                    a \in DOMAIN attempts' /\ attempts'[a] = attempts[a]
           /\ \A a \in DOMAIN old.attempts :
                 \E k \in DOMAIN attempts' : attempts'[k] = CopiedAttempt(c, old, a)
           /\ \A k \in DOMAIN attempts' :
                 \/ /\ k \in DOMAIN attempts /\ attempts[k].lesson \notin Gone(c)
                    /\ attempts'[k] = attempts[k]
                 \/ \E a \in DOMAIN old.attempts : attempts'[k] = CopiedAttempt(c, old, a)
<1> DEFINE kept == Without(attempts, {a \in DOMAIN attempts : attempts[a].lesson \in Gone(c)})
           copied == RemappedAttempts(c, old)
           base == TopId(kept)
           aids == DOMAIN old.attempts
<1>1. TypeOK
  BY DEF TablesSound
<1>2. /\ DOMAIN kept \subseteq Nat \ {0} /\ IsFiniteSet(DOMAIN kept)
      /\ \A a : a \in DOMAIN kept <=> a \in DOMAIN attempts /\ attempts[a].lesson \notin Gone(c)
      /\ \A a \in DOMAIN kept : kept[a] = attempts[a]
  BY <1>1, FS_Subset, DOMAIN kept \in SUBSET (DOMAIN attempts) DEF Without, TypeOK
<1>3. base \in Nat /\ \A a \in DOMAIN kept : a <= base
  BY <1>2, TopIdBounds, DOMAIN kept \subseteq Nat
<1>4. /\ DOMAIN copied = aids /\ aids \in SUBSET Nat /\ IsFiniteSet(aids)
      /\ \A a \in aids : copied[a] = CopiedAttempt(c, old, a)
  BY DEF RemappedAttempts, IsLegacyStore, CopiedAttempt, CopiedAt
<1>5. attempts' = Adopt(kept, copied, aids, base)
  BY DEF ConsolidateCourse
<1> HIDE DEF kept, copied, base, aids
<1>6. DOMAIN attempts' \subseteq Nat \ {0} /\ IsFiniteSet(DOMAIN attempts')
  BY <1>2, <1>3, <1>4, <1>5, AdoptDomain
<1>7. /\ \A k : k \in DOMAIN attempts' <=>
            \/ k \in DOMAIN kept
            \/ \E a \in DOMAIN copied : k = NewId(aids, base, a)
      /\ \A k \in DOMAIN kept : attempts'[k] = kept[k]
      /\ \A a \in DOMAIN copied : attempts'[NewId(aids, base, a)] = copied[a]
  <2>1. DOMAIN kept \subseteq Nat
    BY <1>2
  <2> QED
    BY <1>3, <1>4, <1>5, <2>1, AdoptRows
<1>8. \A a \in aids :
         \E k \in DOMAIN attempts' : attempts'[k] = CopiedAttempt(c, old, a)
  BY <1>4, <1>7
<1>9. \A k \in DOMAIN attempts' :
         \/ k \in DOMAIN kept
         \/ \E a \in aids : attempts'[k] = CopiedAttempt(c, old, a)
  <2> SUFFICES ASSUME NEW k \in DOMAIN attempts', k \notin DOMAIN kept
               PROVE  \E a \in aids : attempts'[k] = CopiedAttempt(c, old, a)
    OBVIOUS
  <2>1. PICK a \in DOMAIN copied : k = NewId(aids, base, a)
    BY <1>7
  <2>2. a \in aids /\ attempts'[k] = copied[a]
    BY <1>4, <1>7, <2>1
  <2> QED
    BY <1>4, <2>2
<1> QED
  BY <1>2, <1>6, <1>7, <1>8, <1>9 DEF aids

(* A consolidation, with or without --replace, leaves sound tables: the    *)
(* rows that stay keep their references and the copied ones refer to each  *)
(* other through the id map.                                               *)
LEMMA ConsolidateSound ==
    ASSUME TablesSound, NEW c \in Courses, NEW old \in LegacyOf[c],
           ConsolidateCourse(c, old)
    PROVE  TablesSound'
<1>1. IsLegacyStore(c, old)
  BY LearnerAssumption DEF LearnerAssumption
<1>2. TypeOK /\ ConstraintsHold
  BY DEF TablesSound
<1>3. /\ \A k : k \in DOMAIN lessons' <=>
            \/ k \in DOMAIN lessons \ Gone(c)
            \/ \E i \in DOMAIN old.lessons : k = CopiedAt(c, old, i)
      /\ IsLessonTable(lessons') /\ UniqueRows(lessons')
      /\ \A i \in DOMAIN old.lessons : CopiedAt(c, old, i) \in Nat \ {0}
  BY <1>1, ConsolidateRows
<1>4. /\ \A k : k \in DOMAIN progress' <=>
            \/ k \in DOMAIN progress \ Gone(c)
            \/ \E i \in DOMAIN old.progress : k = CopiedAt(c, old, i)
      /\ \A k \in DOMAIN progress \ Gone(c) : progress'[k] = progress[k]
      /\ \A i \in DOMAIN old.progress : progress'[CopiedAt(c, old, i)] = old.progress[i]
  BY <1>1, ConsolidateRows
<1>5. ReferencesHold(old.lessons, old.prereqs, old.progress, old.attempts)
  BY <1>1 DEF IsLegacyStore
<1>6. \A i \in DOMAIN old.progress :
         /\ old.progress[i] \in ProgressRow
         /\ old.progress[i].status = "done" => old.progress[i].completed # NoRevision
  BY <1>1 DEF IsLegacyStore, CompletionsAttempted, AttemptRow, NoRevision
<1>7. ASSUME NEW e \in prereqs'
      PROVE  /\ e \in (Nat \ {0}) \X (Nat \ {0})
             /\ e[1] \in DOMAIN lessons' /\ e[2] \in DOMAIN lessons'
  <2>1. CASE e \in KeptPrereqs(c)
    BY <1>2, <1>3, <2>1 DEF KeptPrereqs, TypeOK, ConstraintsHold, ReferencesHold
  <2>2. CASE e \notin KeptPrereqs(c)
    <3>1. PICK q \in old.prereqs : e = <<CopiedAt(c, old, q[1]), CopiedAt(c, old, q[2])>>
      BY <2>2 DEF ConsolidateCourse, CopiedAt
    <3>2. q[1] \in DOMAIN old.lessons /\ q[2] \in DOMAIN old.lessons
      BY <1>5 DEF ReferencesHold
    <3> QED
      BY <1>3, <3>1, <3>2
  <2> QED
    BY <2>1, <2>2
<1>8. DOMAIN progress' \subseteq DOMAIN lessons'
  BY <1>2, <1>3, <1>4, <1>5 DEF ConstraintsHold, ReferencesHold
<1>9. \A i \in DOMAIN progress' :
         /\ progress'[i] \in ProgressRow
         /\ progress'[i].status = "done" => progress'[i].completed # NoRevision
  BY <1>2, <1>4, <1>6 DEF TypeOK
<1>10. /\ DOMAIN attempts' \subseteq Nat \ {0} /\ IsFiniteSet(DOMAIN attempts')
       /\ \A k \in DOMAIN attempts' :
             \/ /\ k \in DOMAIN attempts /\ attempts[k].lesson \notin Gone(c)
                /\ attempts'[k] = attempts[k]
             \/ \E a \in DOMAIN old.attempts : attempts'[k] = CopiedAttempt(c, old, a)
  BY <1>1, ConsolidateAttempts
<1>11. ASSUME NEW a \in DOMAIN old.attempts
       PROVE  /\ CopiedAttempt(c, old, a) \in AttemptRow
              /\ CopiedAttempt(c, old, a).lesson \in DOMAIN lessons'
  <2>1. old.attempts[a] \in AttemptRow /\ old.attempts[a].lesson \in DOMAIN old.lessons
    BY <1>1, <1>5 DEF IsLegacyStore, ReferencesHold
  <2> QED
    BY <1>3, <2>1 DEF AttemptRow, CopiedAttempt
<1>12. \A a \in DOMAIN attempts' :
          attempts'[a] \in AttemptRow /\ attempts'[a].lesson \in DOMAIN lessons'
  BY <1>2, <1>3, <1>10, <1>11 DEF TypeOK, ConstraintsHold, ReferencesHold
<1>13. earned' \subseteq Courses \X Slugs \X Nat
  <2>1. ASSUME NEW x \in earned', x \notin earned
        PROVE  x \in Courses \X Slugs \X Nat
    <3>1. PICK i \in DOMAIN old.progress :
             x = <<c, old.lessons[i].slug, old.progress[i].completed>>
      BY <2>1 DEF ConsolidateCourse
    <3>2. old.lessons[i] \in LessonRow /\ old.progress[i] \in ProgressRow
      BY <1>1, <1>5 DEF IsLegacyStore, ReferencesHold, IsLessonTable
    <3> QED
      BY <3>1, <3>2 DEF LessonRow, ProgressRow
  <2> QED
    BY <1>2, <2>1 DEF TypeOK
<1>14. UNCHANGED client /\ replacements' \in Nat
  BY <1>2 DEF ConsolidateCourse, TypeOK
<1>15. TypeOK'
  BY <1>2, <1>3, <1>7, <1>8, <1>9, <1>10, <1>12, <1>13, <1>14 DEF TypeOK, IsLessonTable
<1>16. ConstraintsHold'
  BY <1>3, <1>7, <1>8, <1>12 DEF ConstraintsHold, ReferencesHold
<1> QED
  BY <1>15, <1>16 DEF TablesSound

(* Whatever a process does, a step from sound tables leads to sound        *)
(* tables.                                                                 *)
LEMMA StepSound == TablesSound /\ [Next]_vars => TablesSound'
<1> SUFFICES ASSUME TablesSound, [Next]_vars PROVE TablesSound'
  OBVIOUS
<1>1. CASE \E p \in Clients : Verb(p)
  BY <1>1, VerbSound
<1>2. CASE \E c \in Courses : \E cat \in CatalogsOf[c] : Refresh(c, cat)
  BY <1>2, RefreshSound
<1>3. CASE \E c \in Courses : \E old \in LegacyOf[c] : ConsolidateCourse(c, old)
  BY <1>3, ConsolidateSound
<1>4. CASE UNCHANGED vars
  BY <1>4 DEF vars, tables, TablesSound, TypeOK, ConstraintsHold
<1> QED
  BY <1>1, <1>2, <1>3, <1>4 DEF Next

(* The tables are sound in every state of every behaviour.                 *)
LEMMA AlwaysSound == Spec => []TablesSound
  BY InitSound, StepSound, PTL DEF Spec

(* Every table keeps its columns' types, and a process holds one verb: for *)
(* every catalog LoadLessons accepts and every legacy database.            *)
THEOREM TypeCorrect == Spec => []TypeOK
<1>1. TablesSound => TypeOK
  BY DEF TablesSound
<1> QED
  BY <1>1, AlwaysSound, PTL

(* Seed and consolidateOne never commit two rows of a course with one slug *)
(* or one ordinal, nor a reference to a missing lesson, with or without    *)
(* --replace.                                                              *)
THEOREM ConstraintsAlwaysHold == Spec => []ConstraintsHold
<1>1. TablesSound => ConstraintsHold
  BY DEF TablesSound
<1> QED
  BY <1>1, AlwaysSound, PTL

-----------------------------------------------------------------------------
(* Without --replace a row never goes away nor changes its course or slug: *)
(* refreshes find it by its slug, copies land above it.                    *)
LEMMA RowsKeepIdentity ==
    ASSUME ~AllowReplace, TablesSound, [Next]_vars, NEW i \in DOMAIN lessons
    PROVE  /\ i \in DOMAIN lessons'
           /\ lessons'[i].course = lessons[i].course
           /\ lessons'[i].slug = lessons[i].slug
<1>1. CASE \E p \in Clients : Verb(p)
  BY <1>1 DEF Verb, Resolve, RecordStatus, Undo, SaveNote, GiveUp, tables
<1>2. CASE \E c \in Courses : \E cat \in CatalogsOf[c] : Refresh(c, cat)
  <2>1. PICK c \in Courses : \E cat \in CatalogsOf[c] : Refresh(c, cat)
    BY <1>2
  <2>2. PICK cat \in CatalogsOf[c] : Refresh(c, cat)
    BY <2>1
  <2>3. IsCatalog(cat) /\ IsLessonTable(lessons)
    BY LearnerAssumption DEF LearnerAssumption, TablesSound, TypeOK
  <2> QED
    BY <2>2, <2>3, SeededKeepsIdentity DEF Refresh
<1>3. CASE \E c \in Courses : \E old \in LegacyOf[c] : ConsolidateCourse(c, old)
  <2>1. PICK c \in Courses : \E old \in LegacyOf[c] : ConsolidateCourse(c, old)
    BY <1>3
  <2>2. PICK old \in LegacyOf[c] : ConsolidateCourse(c, old)
    BY <2>1
  <2>3. IsLegacyStore(c, old)
    BY LearnerAssumption DEF LearnerAssumption
  <2>4. Gone(c) = {}
    BY <2>2 DEF ConsolidateCourse
  <2> QED
    BY <2>2, <2>3, <2>4, ConsolidateRows
<1>4. CASE UNCHANGED vars
  BY <1>4 DEF vars, tables
<1> QED
  BY <1>1, <1>2, <1>3, <1>4 DEF Next

(* An id names the same course and slug for ever.                          *)
THEOREM IdentityStable ==
    ASSUME ~AllowReplace
    PROVE  Spec => IdentityIsStable
<1>1. TablesSound /\ [Next]_vars =>
         [\A i \in DOMAIN lessons \cap DOMAIN lessons' :
             /\ lessons'[i].course = lessons[i].course
             /\ lessons'[i].slug = lessons[i].slug]_vars
  BY RowsKeepIdentity
<1> QED
  BY <1>1, AlwaysSound, PTL DEF Spec, IdentityIsStable

(* So what a process resolved keeps its meaning until it writes ...        *)
LEMMA HeldRowsStep ==
    ASSUME ~AllowReplace, TablesSound, HeldRowsKeepIdentity, [Next]_vars
    PROVE  HeldRowsKeepIdentity'
<1> SUFFICES ASSUME NEW p \in Clients, client'[p] # Idle
             PROVE  /\ client'[p].id \in DOMAIN lessons'
                    /\ lessons'[client'[p].id].course = client'[p].course
                    /\ lessons'[client'[p].id].slug = client'[p].slug
  BY DEF HeldRowsKeepIdentity
<1>1. client \in [Clients -> Resolved \cup {Idle}]
  BY DEF TablesSound, TypeOK
<1>2. CASE client'[p] = client[p]
  BY <1>2, RowsKeepIdentity DEF HeldRowsKeepIdentity
<1>3. CASE client'[p] # client[p]
  <2>1. PICK q \in Clients : Verb(q)
    BY <1>3 DEF Next, Refresh, ConsolidateCourse, vars
  <2>2. ~(RecordStatus(q) \/ Undo(q) \/ SaveNote(q) \/ GiveUp(q))
    BY <1>1, <1>3 DEF RecordStatus, Undo, SaveNote, GiveUp
  <2>3. PICK verb \in {"done", "skip", "undone", "note"}, c \in Courses,
             n \in 1 .. Cardinality(Slugs), text \in Notes \cup {""} :
             Resolve(q, verb, c, n, text)
    BY <2>1, <2>2 DEF Verb
  <2>4. PICK i \in ActiveIds(lessons, c) :
          client' = [client EXCEPT ![q] =
              [verb |-> verb, course |-> c, id |-> i, slug |-> lessons[i].slug,
               revision |-> lessons[i].revision, note |-> text]]
    BY <2>3 DEF Resolve
  <2>5. lessons' = lessons /\ i \in DOMAIN lessons /\ lessons[i].course = c
    BY <2>3 DEF Resolve, tables, ActiveIds, IdsOf
  <2>6. q = p
    BY <1>1, <1>3, <2>4
  <2> QED
    BY <1>1, <2>4, <2>5, <2>6
<1> QED
  BY <1>2, <1>3

(* ... and a completion it writes is credited to the lesson it resolved.   *)
LEMMA CreditStep ==
    ASSUME ~AllowReplace, TablesSound, HeldRowsKeepIdentity, NoCreditTransfer,
           [Next]_vars
    PROVE  NoCreditTransfer'
<1> DEFINE Credit(i) == <<lessons'[i].course, lessons'[i].slug, progress'[i].completed>>
<1> SUFFICES ASSUME NEW i \in DOMAIN progress', progress'[i].status = "done"
             PROVE  Credit(i) \in earned'
  BY DEF NoCreditTransfer
<1>1. TypeOK /\ ConstraintsHold
  BY DEF TablesSound
<1>2. ASSUME i \in DOMAIN progress, progress'[i] = progress[i]
             \/ (progress[i].status = "done" /\ progress'[i].completed = progress[i].completed),
             earned \subseteq earned'
      PROVE  Credit(i) \in earned'
  <2>1. i \in DOMAIN lessons
    BY <1>1, <1>2 DEF ConstraintsHold, ReferencesHold
  <2>2. <<lessons[i].course, lessons[i].slug, progress[i].completed>> \in earned
    BY <1>2 DEF NoCreditTransfer
  <2>3. lessons'[i].course = lessons[i].course /\ lessons'[i].slug = lessons[i].slug
    BY <2>1, RowsKeepIdentity
  <2> QED
    BY <1>2, <2>2, <2>3
<1>3. ASSUME NEW p \in Clients, Verb(p) PROVE Credit(i) \in earned'
  <2> DEFINE v == client[p]
  <2>1. CASE RecordStatus(p)
    <3>1. v # Idle /\ v.id \in DOMAIN lessons /\ lessons' = lessons
      BY <2>1 DEF RecordStatus, Idle
    <3>2. CASE i = v.id
      <4>1. /\ progress'[i].status = IF v.verb = "done" THEN "done" ELSE "skipped"
            /\ progress'[i].completed = CompletedBy(v)
        BY <2>1, <3>2 DEF RecordStatus, Put
      <4>2. v.verb = "done" /\ progress'[i].completed = v.revision
        BY <4>1 DEF CompletedBy
      <4>3. earned' = earned \cup {<<v.course, v.slug, v.revision>>}
        BY <2>1, <4>2 DEF RecordStatus
      <4>4. lessons'[i].course = v.course /\ lessons'[i].slug = v.slug
        BY <3>1, <3>2 DEF HeldRowsKeepIdentity
      <4> QED
        BY <4>2, <4>3, <4>4
    <3>3. CASE i # v.id
      BY <1>2, <2>1, <3>3 DEF RecordStatus, Put
    <3> QED
      BY <3>2, <3>3
  <2>2. CASE Undo(p)
    <3>1. i \in DOMAIN progress /\ progress'[i] = progress[i]
      BY <2>2 DEF Undo
    <3> QED
      BY <1>2, <2>2, <3>1 DEF Undo
  <2>3. CASE SaveNote(p)
    <3>1. i \in DOMAIN progress
      BY <2>3 DEF SaveNote, Put
    <3>2. CASE i # v.id
      BY <1>2, <2>3, <3>1, <3>2 DEF SaveNote, Put
    <3>3. CASE i = v.id
      <4>1. progress[i] \in ProgressRow
        BY <1>1, <3>1 DEF TypeOK
      <4>2. progress'[i] = [progress[i] EXCEPT !.notes = v.note]
        BY <2>3, <3>1, <3>3 DEF SaveNote, Put
      <4>3. /\ progress[i].status = "done"
            /\ progress'[i].completed = progress[i].completed
        BY <4>1, <4>2 DEF ProgressRow
      <4> QED
        BY <1>2, <2>3, <3>1, <4>3 DEF SaveNote
    <3> QED
      BY <3>2, <3>3
  <2>4. CASE ~(RecordStatus(p) \/ Undo(p) \/ SaveNote(p))
    BY <1>2, <1>3, <2>4 DEF Verb, Resolve, GiveUp, tables
  <2> QED
    BY <2>1, <2>2, <2>3, <2>4
<1>4. CASE \E c \in Courses : \E cat \in CatalogsOf[c] : Refresh(c, cat)
  BY <1>2, <1>4 DEF Refresh
<1>5. ASSUME NEW c \in Courses, NEW old \in LegacyOf[c], ConsolidateCourse(c, old)
      PROVE  Credit(i) \in earned'
  <2>1. IsLegacyStore(c, old)
    BY LearnerAssumption DEF LearnerAssumption
  <2>2. /\ \A k : k \in DOMAIN progress' <=>
              \/ k \in DOMAIN progress \ Gone(c)
              \/ \E j \in DOMAIN old.progress : k = CopiedAt(c, old, j)
        /\ \A k \in DOMAIN progress \ Gone(c) : progress'[k] = progress[k]
        /\ \A j \in DOMAIN old.progress : progress'[CopiedAt(c, old, j)] = old.progress[j]
        /\ \A j \in DOMAIN old.lessons : lessons'[CopiedAt(c, old, j)] = old.lessons[j]
    BY <1>5, <2>1, ConsolidateRows
  <2>3. earned \subseteq earned'
    BY <1>5 DEF ConsolidateCourse
  <2>4. CASE i \in DOMAIN progress \ Gone(c)
    BY <1>2, <2>2, <2>3, <2>4
  <2>5. CASE i \notin DOMAIN progress \ Gone(c)
    <3>1. PICK j \in DOMAIN old.progress : i = CopiedAt(c, old, j)
      BY <2>2, <2>5
    <3>2. j \in DOMAIN old.lessons /\ old.lessons[j].course = c
      BY <2>1 DEF IsLegacyStore, ReferencesHold
    <3>3. progress'[i] = old.progress[j] /\ lessons'[i] = old.lessons[j]
      BY <2>2, <3>1, <3>2
    <3>4. <<c, old.lessons[j].slug, old.progress[j].completed>> \in earned'
      BY <1>5, <3>3 DEF ConsolidateCourse
    <3> QED
      BY <3>2, <3>3, <3>4
  <2> QED
    BY <2>4, <2>5
<1>6. CASE UNCHANGED vars
  BY <1>2, <1>6 DEF vars, tables
<1> QED
  BY <1>3, <1>4, <1>5, <1>6 DEF Next

(* Without --replace the rows held by verbs and the credits given stay     *)
(* right together; each needs the other to be inductive.                   *)
LEMMA AlwaysHeldAndCredited ==
    ASSUME ~AllowReplace
    PROVE  Spec => [](TablesSound /\ HeldRowsKeepIdentity /\ NoCreditTransfer)
<1>1. Init => TablesSound /\ HeldRowsKeepIdentity /\ NoCreditTransfer
  BY InitSound DEF Init, NoRows, HeldRowsKeepIdentity, NoCreditTransfer
<1>2. /\ TablesSound /\ HeldRowsKeepIdentity /\ NoCreditTransfer
      /\ [Next]_vars
      => (TablesSound /\ HeldRowsKeepIdentity /\ NoCreditTransfer)'
  BY StepSound, HeldRowsStep, CreditStep
<1> QED
  BY <1>1, <1>2, PTL DEF Spec

(* A verb writes to the lesson it resolved, and no completion is ever one  *)
(* the learner did not earn for that course, slug and revision - as long   *)
(* as nobody consolidates with --replace.                                  *)
THEOREM HeldRowsAlwaysKeepIdentity ==
    ASSUME ~AllowReplace
    PROVE  Spec => []HeldRowsKeepIdentity
  BY AlwaysHeldAndCredited, PTL

(* Without --replace every completion on record sits on the row that       *)
(* carries the course and slug it was earned for (lesson-identity-         *)
(* refresh.md: a retired slug must not donate its completion).             *)
THEOREM CreditStays ==
    ASSUME ~AllowReplace
    PROVE  Spec => []NoCreditTransfer
  BY AlwaysHeldAndCredited, PTL

-----------------------------------------------------------------------------
(* A completion keeps its attempt through every step: setStatus writes     *)
(* both, nothing else completes a lesson, and a consolidation removes or   *)
(* copies them together.                                                   *)
LEMMA AttemptedStep ==
    ASSUME TablesSound, DoneHasAttempt, [Next]_vars
    PROVE  DoneHasAttempt'
<1> DEFINE Attempted(i) == \E a \in DOMAIN attempts' :
                              /\ attempts'[a].lesson = i
                              /\ attempts'[a].revision = progress'[i].completed
<1> SUFFICES ASSUME NEW i \in DOMAIN progress', progress'[i].status = "done"
             PROVE  Attempted(i)
  BY DEF DoneHasAttempt, CompletionsAttempted
<1>1. TypeOK
  BY DEF TablesSound
<1>2. ASSUME i \in DOMAIN progress, progress[i].status = "done",
             progress'[i].completed = progress[i].completed,
             \A a \in DOMAIN attempts : attempts[a].lesson = i =>
                a \in DOMAIN attempts' /\ attempts'[a] = attempts[a]
      PROVE  Attempted(i)
  <2>1. PICK a \in DOMAIN attempts :
           attempts[a].lesson = i /\ attempts[a].revision = progress[i].completed
    BY <1>2 DEF DoneHasAttempt, CompletionsAttempted
  <2> QED
    BY <1>2, <2>1
<1>3. CASE \E p \in Clients : Verb(p)
  <2> PICK p \in Clients : Verb(p)
    BY <1>3
  <2> DEFINE v == client[p]
  <2>1. CASE RecordStatus(p)
    <3> DEFINE new == TopId(attempts) + 1
    <3>1. new \notin DOMAIN attempts
      <4>1. /\ DOMAIN attempts \subseteq Nat /\ IsFiniteSet(DOMAIN attempts)
        BY <1>1 DEF TypeOK
      <4>2. /\ TopId(attempts) \in Nat
            /\ \A a \in DOMAIN attempts : a <= TopId(attempts)
        BY <4>1, TopIdBounds
      <4> QED
        BY <4>2
    <3>2. /\ DOMAIN attempts' = DOMAIN attempts \cup {new}
          /\ attempts'[new] = [lesson |-> v.id, revision |-> v.revision]
          /\ \A a \in DOMAIN attempts : a # new => attempts'[a] = attempts[a]
      BY <2>1 DEF RecordStatus, Put
    <3> HIDE DEF new
    <3>3. CASE i = v.id
      <4>1. /\ progress'[i].status = IF v.verb = "done" THEN "done" ELSE "skipped"
            /\ progress'[i].completed = CompletedBy(v)
        BY <2>1, <3>3 DEF RecordStatus, Put
      <4>2. progress'[i].completed = v.revision
        BY <4>1 DEF CompletedBy
      <4> QED
        BY <3>2, <3>3, <4>2
    <3>4. CASE i # v.id
      <4>1. i \in DOMAIN progress /\ progress'[i] = progress[i]
        BY <2>1, <3>4 DEF RecordStatus, Put
      <4> QED
        BY <1>2, <3>1, <3>2, <4>1
    <3> QED
      BY <3>3, <3>4
  <2>2. CASE Undo(p)
    <3>1. i \in DOMAIN progress /\ progress'[i] = progress[i] /\ attempts' = attempts
      BY <2>2 DEF Undo
    <3> QED
      BY <1>2, <3>1
  <2>3. CASE SaveNote(p)
    <3>1. i \in DOMAIN progress /\ attempts' = attempts
      BY <2>3 DEF SaveNote, Put
    <3>2. CASE i = v.id
      <4>1. progress'[i] = [progress[i] EXCEPT !.notes = v.note]
        BY <2>3, <3>1, <3>2 DEF SaveNote, Put
      <4>2. progress[i] \in ProgressRow
        BY <1>1, <3>1 DEF TypeOK
      <4>3. /\ progress[i].status = "done"
            /\ progress'[i].completed = progress[i].completed
        BY <4>1, <4>2 DEF ProgressRow
      <4> QED
        BY <1>2, <3>1, <4>3
    <3>3. CASE i # v.id
      BY <1>2, <2>3, <3>1, <3>3 DEF SaveNote, Put
    <3> QED
      BY <3>2, <3>3
  <2>4. CASE ~(RecordStatus(p) \/ Undo(p) \/ SaveNote(p))
    BY <1>2, <2>4 DEF Verb, Resolve, GiveUp, tables
  <2> QED
    BY <2>1, <2>2, <2>3, <2>4
<1>4. CASE \E c \in Courses : \E cat \in CatalogsOf[c] : Refresh(c, cat)
  BY <1>2, <1>4 DEF Refresh
<1>5. ASSUME NEW c \in Courses, NEW old \in LegacyOf[c], ConsolidateCourse(c, old)
      PROVE  Attempted(i)
  <2>1. IsLegacyStore(c, old)
    BY LearnerAssumption DEF LearnerAssumption
  <2>2. /\ \A k : k \in DOMAIN progress' <=>
              \/ k \in DOMAIN progress \ Gone(c)
              \/ \E j \in DOMAIN old.progress : k = CopiedAt(c, old, j)
        /\ \A k \in DOMAIN progress \ Gone(c) : progress'[k] = progress[k]
        /\ \A j \in DOMAIN old.progress : progress'[CopiedAt(c, old, j)] = old.progress[j]
    BY <1>5, <2>1, ConsolidateRows
  <2>3. /\ \A a \in DOMAIN attempts :
              attempts[a].lesson \notin Gone(c) =>
                 a \in DOMAIN attempts' /\ attempts'[a] = attempts[a]
        /\ \A a \in DOMAIN old.attempts :
              \E k \in DOMAIN attempts' : attempts'[k] = CopiedAttempt(c, old, a)
    BY <1>5, <2>1, ConsolidateAttempts
  <2>4. CASE i \in DOMAIN progress \ Gone(c)
    BY <1>2, <2>2, <2>3, <2>4
  <2>5. CASE i \notin DOMAIN progress \ Gone(c)
    <3>1. PICK j \in DOMAIN old.progress : i = CopiedAt(c, old, j)
      BY <2>2, <2>5
    <3>2. progress'[i] = old.progress[j]
      BY <2>2, <3>1
    <3>3. PICK a \in DOMAIN old.attempts :
             /\ old.attempts[a].lesson = j
             /\ old.attempts[a].revision = old.progress[j].completed
      BY <2>1, <3>2 DEF IsLegacyStore, CompletionsAttempted
    <3>4. old.attempts[a] \in AttemptRow
      BY <2>1, <3>3 DEF IsLegacyStore
    <3>5. /\ CopiedAttempt(c, old, a).lesson = i
          /\ CopiedAttempt(c, old, a).revision = progress'[i].completed
      BY <3>1, <3>2, <3>3, <3>4 DEF CopiedAttempt, AttemptRow
    <3>6. PICK k \in DOMAIN attempts' : attempts'[k] = CopiedAttempt(c, old, a)
      BY <2>3, <3>3
    <3> QED
      BY <3>5, <3>6
  <2> QED
    BY <2>4, <2>5
<1>6. CASE UNCHANGED vars
  BY <1>2, <1>6 DEF vars, tables
<1> QED
  BY <1>3, <1>4, <1>5, <1>6 DEF Next

(* No lesson is ever done at a revision no attempt was made at, with or    *)
(* without --replace.                                                      *)
THEOREM DoneAlwaysHasAttempt == Spec => []DoneHasAttempt
<1>1. Init => DoneHasAttempt
  BY DEF Init, NoRows, DoneHasAttempt, CompletionsAttempted
<1>2. TablesSound /\ TablesSound' /\ DoneHasAttempt /\ [Next]_vars => DoneHasAttempt'
  BY AttemptedStep
<1> QED
  BY <1>1, <1>2, AlwaysSound, PTL DEF Spec

-----------------------------------------------------------------------------
(* A course whose rows a step leaves alone stays densely numbered.         *)
LEMMA DenseElsewhere ==
    ASSUME NEW rows, NEW new, NEW d, OrdinalsDense(rows, d),
           IdsOf(new, d) = IdsOf(rows, d),
           \A i \in IdsOf(rows, d) : new[i] = rows[i]
    PROVE  OrdinalsDense(new, d)
<1> DEFINE ids == IdsOf(rows, d)
<1>1. {new[i].ordinal : i \in ids} = {rows[i].ordinal : i \in ids}
  OBVIOUS
<1>2. ActiveIds(new, d) = ActiveIds(rows, d)
  BY DEF ActiveIds
<1>3. \A i \in ActiveIds(rows, d) : new[i] = rows[i]
  BY DEF ActiveIds
<1> QED
  BY <1>1, <1>2, <1>3 DEF OrdinalsDense

(* After a refresh the course is numbered without a gap, its edges go from *)
(* each lesson to earlier ones of the catalog, and other courses keep      *)
(* their rows and edges.                                                   *)
LEMMA RefreshWellFormed ==
    ASSUME TablesSound, CoursesWellFormed,
           NEW c \in Courses, NEW cat \in CatalogsOf[c], Refresh(c, cat)
    PROVE  CoursesWellFormed'
<1>1. IsCatalog(cat)
  BY LearnerAssumption DEF LearnerAssumption
<1>2. /\ IsLessonTable(lessons) /\ UniqueRows(lessons)
      /\ \A e \in prereqs : e[1] \in DOMAIN lessons /\ e[2] \in DOMAIN lessons
  BY DEF TablesSound, TypeOK, ConstraintsHold, ReferencesHold
<1>3. /\ lessons' = Seeded(lessons, c, cat)
      /\ prereqs' = SeededPrereqs(lessons, prereqs, c, cat)
  BY DEF Refresh
<1>4. ASSUME NEW d \in Courses PROVE OrdinalsDense(lessons', d)
  <2>1. CASE d = c
    BY <1>1, <1>2, <1>3, <2>1, SeededDense DEF OrdinalsDense
  <2>2. CASE d # c
    <3>1. /\ IdsOf(lessons', d) = IdsOf(lessons, d)
          /\ \A i \in IdsOf(lessons, d) : lessons'[i] = lessons[i]
      BY <1>1, <1>2, <1>3, <2>2, SeededElsewhere
    <3>2. OrdinalsDense(lessons, d)
      BY DEF CoursesWellFormed
    <3> QED
      BY <3>1, <3>2, DenseElsewhere
  <2> QED
    BY <2>1, <2>2
<1>5. ASSUME NEW e \in prereqs'
      PROVE  /\ lessons'[e[1]].active /\ lessons'[e[2]].active
             /\ lessons'[e[1]].course = lessons'[e[2]].course
             /\ lessons'[e[2]].ordinal < lessons'[e[1]].ordinal
  <2>1. CASE e \in OtherEdges(lessons, prereqs, c)
    <3> DEFINE d == lessons[e[1]].course
    <3>1. e \in prereqs /\ e[1] \in DOMAIN lessons /\ e[2] \in DOMAIN lessons
      BY <1>2, <2>1 DEF OtherEdges
    <3>2. d # c
      BY <2>1, <3>1 DEF OtherEdges, IdsOf
    <3>3. /\ lessons[e[1]].active /\ lessons[e[2]].active
          /\ lessons[e[2]].course = d
          /\ lessons[e[2]].ordinal < lessons[e[1]].ordinal
      BY <3>1 DEF CoursesWellFormed, PrereqsEarlier
    <3>4. e[1] \in IdsOf(lessons, d) /\ e[2] \in IdsOf(lessons, d)
      BY <3>1, <3>3 DEF IdsOf
    <3> HIDE DEF d
    <3>5. lessons'[e[1]] = lessons[e[1]] /\ lessons'[e[2]] = lessons[e[2]]
      BY <1>1, <1>2, <1>3, <3>2, <3>4, SeededElsewhere
    <3> QED
      BY <3>3, <3>5 DEF d
  <2>2. CASE e \notin OtherEdges(lessons, prereqs, c)
    <3>1. PICK k \in DOMAIN cat : \E n \in cat[k].needs :
             e = <<IdAt(lessons, c, cat, k), IdAt(lessons, c, cat, n)>>
      BY <1>3, <2>2 DEF SeededPrereqs
    <3>2. PICK n \in cat[k].needs :
             e = <<IdAt(lessons, c, cat, k), IdAt(lessons, c, cat, n)>>
      BY <3>1
    <3>3. n \in DOMAIN cat /\ n < k
      <4>1. cat \in Seq(CatalogEntry) /\ cat[k].needs \subseteq 1 .. k - 1
        BY <1>1 DEF IsCatalog
      <4>2. DOMAIN cat = 1 .. Len(cat) /\ Len(cat) \in Nat
        BY <4>1
      <4> QED
        BY <4>1, <4>2
    <3>4. /\ lessons'[e[1]] = RowFrom(c, cat, k)
          /\ lessons'[e[2]] = RowFrom(c, cat, n)
      BY <1>1, <1>2, <1>3, <3>2, <3>3, SeededLive
    <3> QED
      BY <3>3, <3>4 DEF RowFrom
  <2> QED
    BY <2>1, <2>2
<1> QED
  BY <1>4, <1>5 DEF CoursesWellFormed, PrereqsEarlier

(* The ids of copied rows are as many as the rows.                         *)
LEMMA CopiesCount ==
    ASSUME TypeOK, NEW c, NEW old, IsLessonTable(old.lessons),
           NEW S \in SUBSET DOMAIN old.lessons
    PROVE  Cardinality({CopiedAt(c, old, i) : i \in S}) = Cardinality(S)
<1> DEFINE ids == DOMAIN old.lessons
           base == CopyBase(c)
           image == {CopiedAt(c, old, i) : i \in S}
           f == [i \in S |-> CopiedAt(c, old, i)]
<1>1. ids \in SUBSET Nat /\ IsFiniteSet(ids)
  BY DEF IsLessonTable
<1>2. base \in Nat
  <2> DEFINE kept == Without(lessons, Gone(c))
  <2>1. DOMAIN kept \in SUBSET (DOMAIN lessons)
    BY DEF Without
  <2>2. DOMAIN kept \subseteq Nat /\ IsFiniteSet(DOMAIN kept)
    BY <2>1, FS_Subset DEF TypeOK, IsLessonTable
  <2> QED
    BY <2>2, TopIdBounds DEF CopyBase
<1>3. \A i, j \in ids : CopiedAt(c, old, i) = CopiedAt(c, old, j) => i = j
  BY <1>1, <1>2, NewIdInjective DEF CopiedAt
<1>4. IsFiniteSet(S)
  BY <1>1, FS_Subset
<1>5. f \in Surjection(S, image)
  BY DEF Surjection
<1>6. f \in Injection(S, image)
  BY <1>3 DEF Injection, IsInjective
<1> QED
  BY <1>4, <1>5, <1>6, FS_Surjection

(* A consolidated course is numbered as the legacy database numbered it,   *)
(* and its edges are the legacy ones; other courses keep theirs.           *)
LEMMA ConsolidateWellFormed ==
    ASSUME TablesSound, CoursesWellFormed,
           NEW c \in Courses, NEW old \in LegacyOf[c], ConsolidateCourse(c, old)
    PROVE  CoursesWellFormed'
<1> DEFINE ids == DOMAIN old.lessons
<1>1. IsLegacyStore(c, old)
  BY LearnerAssumption DEF LearnerAssumption
<1>2. /\ TypeOK
      /\ \A e \in prereqs : e[1] \in DOMAIN lessons /\ e[2] \in DOMAIN lessons
      /\ \A e \in old.prereqs : e[1] \in ids /\ e[2] \in ids
      /\ IsLessonTable(old.lessons) /\ \A i \in ids : old.lessons[i].course = c
      /\ OrdinalsDense(old.lessons, c) /\ PrereqsEarlier(old.lessons, old.prereqs)
  BY <1>1 DEF TablesSound, ConstraintsHold, ReferencesHold, IsLegacyStore
<1>3. /\ \A k : k \in DOMAIN lessons' <=>
            \/ k \in DOMAIN lessons \ Gone(c)
            \/ \E i \in ids : k = CopiedAt(c, old, i)
      /\ \A k \in DOMAIN lessons \ Gone(c) : lessons'[k] = lessons[k]
      /\ \A i \in ids : lessons'[CopiedAt(c, old, i)] = old.lessons[i]
  BY <1>1, ConsolidateRows
<1>4. OrdinalsDense(lessons', c)
  <2> DEFINE active == ActiveIds(old.lessons, c)
  <2>1. IdsOf(old.lessons, c) = ids
    BY <1>2 DEF IdsOf
  <2>2. IdsOf(lessons', c) = {CopiedAt(c, old, i) : i \in ids}
    <3>1. \A k \in DOMAIN lessons' :
             lessons'[k].course = c <=> \E i \in ids : k = CopiedAt(c, old, i)
      BY <1>2, <1>3 DEF Gone, IdsOf
    <3>2. \A i \in ids : CopiedAt(c, old, i) \in DOMAIN lessons'
      BY <1>3
    <3> QED
      BY <3>1, <3>2 DEF IdsOf
  <2>3. ActiveIds(lessons', c) = {CopiedAt(c, old, i) : i \in active}
    BY <1>3, <2>1, <2>2 DEF ActiveIds
  <2>4. active \in SUBSET ids
    BY <2>1 DEF ActiveIds
  <2>5. /\ Cardinality(IdsOf(lessons', c)) = Cardinality(ids)
        /\ Cardinality(ActiveIds(lessons', c)) = Cardinality(active)
    BY <1>2, <2>2, <2>3, <2>4, CopiesCount, ids \in SUBSET ids
  <2>6. {lessons'[k].ordinal : k \in IdsOf(lessons', c)}
           = {old.lessons[i].ordinal : i \in ids}
    <3>1. \A k \in IdsOf(lessons', c) : \E i \in ids :
             lessons'[k].ordinal = old.lessons[i].ordinal
      BY <1>3, <2>2
    <3>2. \A i \in ids : \E k \in IdsOf(lessons', c) :
             lessons'[k].ordinal = old.lessons[i].ordinal
      BY <1>3, <2>2
    <3> QED
      BY <3>1, <3>2
  <2>7. ASSUME NEW k \in ActiveIds(lessons', c)
        PROVE  lessons'[k].ordinal <= Cardinality(active)
    <3>1. PICK i \in active : k = CopiedAt(c, old, i)
      BY <2>3
    <3>2. lessons'[k].ordinal = old.lessons[i].ordinal
      BY <1>3, <2>4, <3>1
    <3> QED
      BY <1>2, <3>2 DEF OrdinalsDense
  <2> QED
    BY <1>2, <2>1, <2>5, <2>6, <2>7 DEF OrdinalsDense
<1>5. ASSUME NEW d \in Courses, d # c PROVE OrdinalsDense(lessons', d)
  <2>1. \A k \in DOMAIN lessons : lessons[k].course = d =>
           k \in DOMAIN lessons' /\ lessons'[k] = lessons[k]
    BY <1>3, <1>5 DEF Gone, IdsOf
  <2>2. \A k \in DOMAIN lessons' : lessons'[k].course = d =>
           k \in DOMAIN lessons /\ lessons'[k] = lessons[k]
    BY <1>2, <1>3, <1>5
  <2>3. /\ IdsOf(lessons', d) = IdsOf(lessons, d)
        /\ \A i \in IdsOf(lessons, d) : lessons'[i] = lessons[i]
    BY <2>1, <2>2 DEF IdsOf
  <2> QED
    BY <2>3, DenseElsewhere DEF CoursesWellFormed
<1>6. ASSUME NEW e \in prereqs'
      PROVE  /\ lessons'[e[1]].active /\ lessons'[e[2]].active
             /\ lessons'[e[1]].course = lessons'[e[2]].course
             /\ lessons'[e[2]].ordinal < lessons'[e[1]].ordinal
  <2>1. CASE e \in KeptPrereqs(c)
    <3>1. e \in prereqs /\ {e[1], e[2]} \subseteq DOMAIN lessons \ Gone(c)
      BY <1>2, <2>1 DEF KeptPrereqs
    <3>2. lessons'[e[1]] = lessons[e[1]] /\ lessons'[e[2]] = lessons[e[2]]
      BY <1>3, <3>1
    <3> QED
      BY <3>1, <3>2 DEF CoursesWellFormed, PrereqsEarlier
  <2>2. CASE e \notin KeptPrereqs(c)
    <3>1. PICK q \in old.prereqs : e = <<CopiedAt(c, old, q[1]), CopiedAt(c, old, q[2])>>
      BY <2>2 DEF ConsolidateCourse, CopiedAt
    <3>2. /\ lessons'[e[1]] = old.lessons[q[1]]
          /\ lessons'[e[2]] = old.lessons[q[2]]
      BY <1>2, <1>3, <3>1
    <3> QED
      BY <1>2, <3>1, <3>2 DEF PrereqsEarlier
  <2> QED
    BY <2>1, <2>2
<1> QED
  BY <1>4, <1>5, <1>6 DEF CoursesWellFormed, PrereqsEarlier

(* A verb touches neither lessons nor prerequisites.                       *)
LEMMA WellFormedStep ==
    ASSUME TablesSound, CoursesWellFormed, [Next]_vars
    PROVE  CoursesWellFormed'
<1>1. CASE \E p \in Clients : Verb(p)
  <2>1. UNCHANGED <<lessons, prereqs>>
    BY <1>1 DEF Verb, Resolve, RecordStatus, Undo, SaveNote, GiveUp, tables
  <2> QED
    BY <2>1 DEF CoursesWellFormed, PrereqsEarlier, OrdinalsDense, IdsOf, ActiveIds
<1>2. CASE \E c \in Courses : \E cat \in CatalogsOf[c] : Refresh(c, cat)
  BY <1>2, RefreshWellFormed
<1>3. CASE \E c \in Courses : \E old \in LegacyOf[c] : ConsolidateCourse(c, old)
  BY <1>3, ConsolidateWellFormed
<1>4. CASE UNCHANGED vars
  <2>1. UNCHANGED <<lessons, prereqs>>
    BY <1>4 DEF vars, tables
  <2> QED
    BY <2>1 DEF CoursesWellFormed, PrereqsEarlier, OrdinalsDense, IdsOf, ActiveIds
<1> QED
  BY <1>1, <1>2, <1>3, <1>4 DEF Next

(* However often lessons are retired, reintroduced and consolidated, every *)
(* course stays numbered 1 .. n with its active lessons first, and its     *)
(* prerequisites earlier.                                                  *)
THEOREM CoursesStayWellFormed == Spec => []CoursesWellFormed
<1>1. Init => CoursesWellFormed
  <2> SUFFICES ASSUME Init PROVE CoursesWellFormed
    OBVIOUS
  <2>1. DOMAIN lessons = {} /\ prereqs = {}
    BY DEF Init, NoRows
  <2>2. \A c \in Courses : IdsOf(lessons, c) = {} /\ ActiveIds(lessons, c) = {}
    BY <2>1 DEF IdsOf, ActiveIds
  <2>3. Cardinality({}) = 0 /\ 1 .. 0 = {}
    BY FS_EmptySet
  <2> QED
    BY <2>1, <2>2, <2>3 DEF CoursesWellFormed, OrdinalsDense, PrereqsEarlier
<1>2. TablesSound /\ CoursesWellFormed /\ [Next]_vars => CoursesWellFormed'
  BY WellFormedStep
<1> QED
  BY <1>1, <1>2, AlwaysSound, PTL DEF Spec

-----------------------------------------------------------------------------
(* The read verbs.  Whatever sound tables hold, an active lesson is        *)
(* finished, skipped or unfinished and only one of these, and one lesson   *)
(* has the lowest ordinal.                                                 *)
LEMMA SoundViewsAgree == TablesSound => ViewsAgree
<1> SUFFICES ASSUME TablesSound, NEW c \in Courses
             PROVE  LET s == StatusOf(lessons, progress, c)
                        next == NextLesson(lessons, progress, c)
                    IN  /\ s.todo = Cardinality(ListTodo(lessons, progress, c))
                        /\ s.done = Cardinality(ListDone(lessons, progress, c))
                        /\ s.stale <= s.todo
                        /\ Cardinality(next) = IF s.todo = 0 THEN 0 ELSE 1
  BY DEF ViewsAgree
<1> DEFINE active == ActiveIds(lessons, c)
           D == {i \in active : Finished(lessons, progress, i)}
           K == {i \in active : Has(progress, i, "skipped")}
           T == {i \in active : Unfinished(lessons, progress, i)}
           St == {i \in active : Stale(lessons, progress, i)}
           next == NextLesson(lessons, progress, c)
<1>1. TypeOK /\ UniqueRows(lessons)
  BY DEF TablesSound, ConstraintsHold
<1>2. /\ active \in SUBSET DOMAIN lessons /\ IsFiniteSet(active)
      /\ \A i \in active : lessons[i].course = c /\ lessons[i].ordinal \in Nat
  <2>1. active \in SUBSET DOMAIN lessons
    BY DEF ActiveIds, IdsOf
  <2>2. IsFiniteSet(DOMAIN lessons) /\ \A i \in active : lessons[i] \in LessonRow
    BY <1>1, <2>1 DEF TypeOK, IsLessonTable
  <2>3. IsFiniteSet(active)
    BY <2>1, <2>2, FS_Subset
  <2>4. \A i \in active : lessons[i].course = c /\ lessons[i].ordinal \in Nat
    BY <2>2 DEF ActiveIds, IdsOf, LessonRow
  <2> QED
    BY <2>1, <2>3, <2>4
<1>3. active = D \cup K \cup T /\ D \cap K = {} /\ (D \cup K) \cap T = {} /\ St \subseteq T
  <2> SUFFICES ASSUME NEW i \in active
               PROVE  /\ i \in D \/ i \in K \/ i \in T
                      /\ ~(i \in D /\ i \in K)
                      /\ ~((i \in D \/ i \in K) /\ i \in T)
                      /\ i \in St => i \in T
    OBVIOUS
  <2>1. CASE i \notin DOMAIN progress
    BY <2>1 DEF Finished, Stale, Unfinished, Has
  <2>2. CASE i \in DOMAIN progress
    <3>1. /\ progress[i].status \in {"todo", "done", "skipped"}
          /\ progress[i].status = "done" => progress[i].completed # NoRevision
      BY <1>1, <2>2 DEF TypeOK, ProgressRow
    <3> QED
      BY <2>2, <3>1 DEF Finished, Stale, Unfinished, Has
  <2> QED
    BY <2>1, <2>2
<1>4. /\ StatusOf(lessons, progress, c).todo
            = Cardinality(active) - Cardinality(D) - Cardinality(K)
      /\ StatusOf(lessons, progress, c).done = Cardinality(D)
      /\ StatusOf(lessons, progress, c).stale = Cardinality(St)
      /\ ListTodo(lessons, progress, c) = T /\ ListDone(lessons, progress, c) = D
  BY DEF StatusOf, ListTodo, ListDone
<1>5. D \in SUBSET active /\ K \in SUBSET active /\ T \in SUBSET active
  OBVIOUS
<1>6. Cardinality(next) = IF Cardinality(T) = 0 THEN 0 ELSE 1
  <2>1. next = {i \in T : \A j \in T : lessons[i].ordinal <= lessons[j].ordinal}
    BY <1>4 DEF NextLesson
  <2>2. IsFiniteSet(T)
    BY <1>2, <1>5, FS_Subset
  <2> HIDE DEF T, next
  <2>3. CASE T = {}
    <3>1. next = {}
      BY <2>1, <2>3
    <3> QED
      BY <2>3, <3>1, FS_EmptySet
  <2>4. CASE T # {}
    <3> DEFINE f == [i \in T |-> lessons[i].ordinal]
    <3>1. \A i \in T : f[i] \in Nat
      BY <1>2, <1>5
    <3>2. PICK m \in T : \A x \in T : f[m] <= f[x]
      <4> HIDE DEF f
      <4> QED
        BY <2>2, <2>4, <3>1, FiniteSetHasLeast
    <3>3. m \in next
      BY <2>1, <3>2
    <3>4. \A i \in next : i = m
      <4> SUFFICES ASSUME NEW i \in next PROVE i = m
        OBVIOUS
      <4>1. i \in T /\ lessons[i].ordinal <= lessons[m].ordinal
        BY <2>1
      <4>2. lessons[m].ordinal <= lessons[i].ordinal
        BY <3>2, <4>1
      <4>3. lessons[i].ordinal = lessons[m].ordinal
        BY <1>2, <1>5, <4>1, <4>2
      <4>4. /\ i \in DOMAIN lessons /\ m \in DOMAIN lessons
            /\ lessons[i].course = lessons[m].course
        BY <1>2, <1>5, <4>1
      <4> QED
        BY <1>1, <4>3, <4>4 DEF UniqueRows
    <3>5. next = {m}
      BY <3>3, <3>4
    <3>6. Cardinality(next) = 1
      BY <3>5, FS_Singleton
    <3>7. Cardinality(T) # 0
      BY <2>2, <2>4, FS_EmptySet
    <3> QED
      BY <3>6, <3>7
  <2> QED
    BY <2>3, <2>4
<1> HIDE DEF active, D, K, T, St, next
<1>7. IsFiniteSet(D) /\ IsFiniteSet(K) /\ IsFiniteSet(T)
  BY <1>2, <1>5, FS_Subset
<1>8. Cardinality(D) \in Nat /\ Cardinality(K) \in Nat /\ Cardinality(T) \in Nat
  BY <1>7, FS_CardinalityType
<1>9. Cardinality(active) = Cardinality(D) + Cardinality(K) + Cardinality(T)
  <2>1. Cardinality({}) = 0
    BY FS_EmptySet
  <2>2. /\ IsFiniteSet(D \cup K)
        /\ Cardinality(D \cup K) = Cardinality(D) + Cardinality(K) - 0
    BY <1>3, <1>7, <2>1, FS_Union
  <2>3. Cardinality((D \cup K) \cup T) = Cardinality(D \cup K) + Cardinality(T) - 0
    BY <1>3, <1>7, <2>1, <2>2, FS_Union
  <2> QED
    BY <1>3, <1>8, <2>2, <2>3
<1>10. Cardinality(active) - Cardinality(D) - Cardinality(K) = Cardinality(T)
  BY <1>8, <1>9
<1>11. Cardinality(St) <= Cardinality(T)
  BY <1>3, <1>7, FS_Subset
<1> QED
  BY <1>4, <1>6, <1>10, <1>11 DEF next

(* `next`, `list` and `status` tell one story in every reachable state.    *)
THEOREM ViewsAlwaysAgree == Spec => []ViewsAgree
  BY SoundViewsAgree, AlwaysSound, PTL

-----------------------------------------------------------------------------
(* Notes.  A note verb has its text from the command line; that it is not  *)
(* empty was looked at before Get.                                         *)
HeldNotesGiven ==
    \A p \in Clients : client[p].verb = "note" => client[p].note # ""

(* Only Resolve changes what a process holds, after that look.             *)
LEMMA HeldNotesStep ==
    ASSUME TypeOK, HeldNotesGiven, [Next]_vars
    PROVE  HeldNotesGiven'
<1> SUFFICES ASSUME NEW p \in Clients, client'[p].verb = "note"
             PROVE  client'[p].note # ""
  BY DEF HeldNotesGiven
<1>1. client \in [Clients -> Resolved \cup {Idle}]
  BY DEF TypeOK
<1>2. CASE client'[p] = client[p]
  BY <1>2 DEF HeldNotesGiven
<1>3. CASE client'[p] # client[p]
  <2>1. PICK q \in Clients : Verb(q)
    BY <1>3 DEF Next, Refresh, ConsolidateCourse, vars
  <2>2. ~(RecordStatus(q) \/ Undo(q) \/ SaveNote(q) \/ GiveUp(q))
    BY <1>1, <1>3 DEF RecordStatus, Undo, SaveNote, GiveUp, Idle
  <2>3. PICK verb \in {"done", "skip", "undone", "note"}, c \in Courses,
             n \in 1 .. Cardinality(Slugs), text \in Notes \cup {""} :
             Resolve(q, verb, c, n, text)
    BY <2>1, <2>2 DEF Verb
  <2>4. PICK i \in ActiveIds(lessons, c) :
          client' = [client EXCEPT ![q] =
              [verb |-> verb, course |-> c, id |-> i, slug |-> lessons[i].slug,
               revision |-> lessons[i].revision, note |-> text]]
    BY <2>3 DEF Resolve
  <2>5. q = p
    BY <1>1, <1>3, <2>4
  <2>6. client'[p].verb = verb /\ client'[p].note = text
    BY <1>1, <2>4, <2>5
  <2> QED
    BY <1>3, <2>3, <2>6 DEF Resolve
<1> QED
  BY <1>2, <1>3

(* The three writing verbs and a consolidation of a course not yet there   *)
(* keep a note or put another in its place.                                *)
LEMMA NoteKept ==
    ASSUME ~AllowReplace, TablesSound, HeldNotesGiven, [Next]_vars,
           NEW i \in DOMAIN progress, progress[i].notes # ""
    PROVE  i \in DOMAIN progress' /\ progress'[i].notes # ""
<1>0. TypeOK
  BY DEF TablesSound
<1>1. ASSUME NEW p \in Clients, Verb(p)
      PROVE  i \in DOMAIN progress' /\ progress'[i].notes # ""
  <2> DEFINE v == client[p]
  <2>1. CASE RecordStatus(p)
    <3>1. i \in DOMAIN progress' /\ (i # v.id => progress'[i] = progress[i])
      BY <2>1 DEF RecordStatus, Put
    <3>2. CASE i = v.id
      <4>1. progress'[i].notes = NoteAfter(v)
        BY <2>1, <3>2 DEF RecordStatus, Put
      <4>2. NoteAfter(v) = IF v.note = "" THEN progress[i].notes ELSE v.note
        BY <3>2 DEF NoteAfter, NotesOf
      <4> QED
        BY <3>1, <4>1, <4>2
    <3> QED
      BY <3>1, <3>2
  <2>2. CASE Undo(p)
    <3>1. CASE v.id \in DOMAIN progress
      <4> DEFINE row == [status |-> "todo", completed |-> NoRevision,
                         notes |-> progress[v.id].notes]
      <4>1. progress' = [progress EXCEPT ![v.id] = row]
        BY <2>2, <3>1 DEF Undo
      <4>2. i = v.id => row.notes = progress[i].notes
        OBVIOUS
      <4> HIDE DEF row, v
      <4> QED
        BY <4>1, <4>2
    <3>2. CASE v.id \notin DOMAIN progress
      BY <2>2, <3>2 DEF Undo
    <3> QED
      BY <3>1, <3>2
  <2>3. CASE SaveNote(p)
    <3>1. i \in DOMAIN progress' /\ (i # v.id => progress'[i] = progress[i])
      BY <2>3 DEF SaveNote, Put
    <3>2. CASE i = v.id
      <4>1. progress'[i] = [progress[i] EXCEPT !.notes = v.note]
        BY <2>3, <3>2 DEF SaveNote, Put
      <4>2. progress[i] \in ProgressRow /\ v.note # ""
        BY <1>0, <2>3 DEF TypeOK, HeldNotesGiven, SaveNote
      <4> HIDE DEF v
      <4>3. progress'[i].notes = v.note
        BY <4>1, <4>2 DEF ProgressRow
      <4> QED
        BY <3>1, <4>2, <4>3
    <3> QED
      BY <3>1, <3>2
  <2>4. CASE ~(RecordStatus(p) \/ Undo(p) \/ SaveNote(p))
    BY <1>1, <2>4 DEF Verb, Resolve, GiveUp, tables
  <2> QED
    BY <2>1, <2>2, <2>3, <2>4
<1>2. CASE \E c \in Courses : \E cat \in CatalogsOf[c] : Refresh(c, cat)
  BY <1>2 DEF Refresh
<1>3. ASSUME NEW c \in Courses, NEW old \in LegacyOf[c], ConsolidateCourse(c, old)
      PROVE  i \in DOMAIN progress' /\ progress'[i].notes # ""
  <2>1. IsLegacyStore(c, old) /\ Gone(c) = {}
    BY <1>3, LearnerAssumption DEF LearnerAssumption, ConsolidateCourse
  <2>2. i \in DOMAIN progress' /\ progress'[i] = progress[i]
    BY <1>3, <2>1, ConsolidateRows
  <2> QED
    BY <2>2
<1>4. CASE UNCHANGED vars
  BY <1>4 DEF vars, tables
<1> QED
  BY <1>1, <1>2, <1>3, <1>4 DEF Next

(* Without --replace no command takes away what a learner wrote, whichever *)
(* processes interleave.                                                   *)
THEOREM NotesAreNeverErased ==
    ASSUME ~AllowReplace
    PROVE  Spec => NotesNeverErased
<1>1. Init => HeldNotesGiven
  <2> SUFFICES ASSUME Init, NEW p \in Clients PROVE client[p].verb # "note"
    BY DEF HeldNotesGiven
  <2>1. client[p] = [verb |-> "none"]
    BY DEF Init, Idle
  <2> QED
    BY <2>1
<1>2. TablesSound /\ HeldNotesGiven /\ [Next]_vars => HeldNotesGiven'
  BY HeldNotesStep DEF TablesSound
<1>3. TablesSound /\ HeldNotesGiven /\ [Next]_vars =>
         [\A i \in DOMAIN progress :
             progress[i].notes # "" =>
                 i \in DOMAIN progress' /\ progress'[i].notes # ""]_vars
  BY NoteKept
<1> QED
  BY <1>1, <1>2, <1>3, AlwaysSound, PTL DEF Spec, NotesNeverErased

-----------------------------------------------------------------------------
(* A lesson is found by its slug: for a slug the course knows there is one *)
(* row, and a step that keeps that row's course and slug keeps it the one. *)
LEMMA RowOfSlug ==
    ASSUME NEW rows, NEW new, UniqueRows(rows), UniqueRows(new), NEW c, NEW s,
           NEW i \in DOMAIN rows, rows[i].course = c, rows[i].slug = s,
           i \in DOMAIN new, new[i].course = c, new[i].slug = s
    PROVE  /\ {j \in IdsOf(rows, c) : rows[j].slug = s} = {i}
           /\ {j \in IdsOf(new, c) : new[j].slug = s} = {i}
  BY DEF IdsOf, UniqueRows

(* What HistoryOf shows of the lesson with id i.                           *)
HistoryAt(prog, att, i) ==
    [progress |-> {prog[j] : j \in {i} \cap DOMAIN prog},
     attempts |-> {a \in DOMAIN att : att[a].lesson \in {i}}]

(* A refresh touches neither table; a consolidation of a course not yet    *)
(* there adds the rows of that course's copies only.                       *)
LEMMA HistoryKeptStep ==
    ASSUME ~AllowReplace, TablesSound, [Next]_vars, lessons' # lessons,
           NEW i \in DOMAIN lessons
    PROVE  HistoryAt(progress', attempts', i) = HistoryAt(progress, attempts, i)
<1>1. ~ \E p \in Clients : Verb(p)
  BY DEF Verb, Resolve, RecordStatus, Undo, SaveNote, GiveUp, tables
<1>2. CASE \E c \in Courses : \E cat \in CatalogsOf[c] : Refresh(c, cat)
  <2>1. UNCHANGED <<progress, attempts>>
    BY <1>2 DEF Refresh
  <2> QED
    BY <2>1
<1>3. ASSUME NEW c \in Courses, NEW old \in LegacyOf[c], ConsolidateCourse(c, old)
      PROVE  HistoryAt(progress', attempts', i) = HistoryAt(progress, attempts, i)
  <2>1. IsLegacyStore(c, old) /\ Gone(c) = {}
    BY <1>3, LearnerAssumption DEF LearnerAssumption, ConsolidateCourse
  <2>2. /\ \A j \in DOMAIN old.lessons : old.lessons[j].course = c
        /\ DOMAIN old.progress \subseteq DOMAIN old.lessons
        /\ \A a \in DOMAIN old.attempts :
              /\ old.attempts[a] \in AttemptRow
              /\ old.attempts[a].lesson \in DOMAIN old.lessons
    BY <2>1 DEF IsLegacyStore, ReferencesHold
  <2>3. \A j \in DOMAIN old.lessons : i # CopiedAt(c, old, j)
    <3>1. lessons[i].course # c
      BY <2>1 DEF Gone, IdsOf
    <3>2. lessons'[i] = lessons[i]
      BY <1>3, <2>1, ConsolidateRows
    <3>3. \A j \in DOMAIN old.lessons : lessons'[CopiedAt(c, old, j)] = old.lessons[j]
      BY <1>3, <2>1, ConsolidateRows
    <3> QED
      BY <2>2, <3>1, <3>2, <3>3
  <2>4. /\ i \in DOMAIN progress' <=> i \in DOMAIN progress
        /\ i \in DOMAIN progress => progress'[i] = progress[i]
    <3>1. /\ \A k : k \in DOMAIN progress' <=>
                \/ k \in DOMAIN progress \ Gone(c)
                \/ \E j \in DOMAIN old.progress : k = CopiedAt(c, old, j)
          /\ \A k \in DOMAIN progress \ Gone(c) : progress'[k] = progress[k]
      BY <1>3, <2>1, ConsolidateRows
    <3> QED
      BY <2>1, <2>2, <2>3, <3>1
  <2>5. {a \in DOMAIN attempts' : attempts'[a].lesson \in {i}}
           = {a \in DOMAIN attempts : attempts[a].lesson \in {i}}
    <3>1. \A a \in DOMAIN attempts : a \in DOMAIN attempts' /\ attempts'[a] = attempts[a]
      BY <1>3, <2>1, ConsolidateAttempts
    <3>2. ASSUME NEW k \in DOMAIN attempts', attempts'[k].lesson = i
          PROVE  k \in DOMAIN attempts /\ attempts'[k] = attempts[k]
      <4>1. \A a \in DOMAIN old.attempts :
               CopiedAttempt(c, old, a).lesson = CopiedAt(c, old, old.attempts[a].lesson)
        BY <2>2 DEF CopiedAttempt, AttemptRow
      <4>2. \A a \in DOMAIN old.attempts : attempts'[k] # CopiedAttempt(c, old, a)
        BY <2>2, <2>3, <3>2, <4>1
      <4> QED
        BY <1>3, <2>1, <4>2, ConsolidateAttempts
    <3> QED
      BY <3>1, <3>2
  <2>6. {progress'[j] : j \in {i} \cap DOMAIN progress'}
           = {progress[j] : j \in {i} \cap DOMAIN progress}
    BY <2>4
  <2> QED
    BY <2>5, <2>6 DEF HistoryAt
<1>4. ~ UNCHANGED vars
  BY DEF vars, tables
<1> QED
  BY <1>1, <1>2, <1>3, <1>4 DEF Next

(* Without --replace a lesson's progress and attempts stay with its slug   *)
(* through every refresh and consolidation.                                *)
THEOREM HistoryStaysWithSlug ==
    ASSUME ~AllowReplace
    PROVE  Spec => RefreshKeepsHistory
<1>1. ASSUME TablesSound, TablesSound', [Next]_vars, lessons' # lessons,
             NEW c \in Courses, NEW s \in Slugs, Known(lessons, c, s)
      PROVE  HistoryOf(c, s)' = HistoryOf(c, s)
  <2>1. PICK i \in IdsOf(lessons, c) : lessons[i].slug = s
    BY <1>1 DEF Known
  <2>2. i \in DOMAIN lessons /\ lessons[i].course = c
    BY DEF IdsOf
  <2>3. i \in DOMAIN lessons' /\ lessons'[i].course = c /\ lessons'[i].slug = s
    BY <1>1, <2>1, <2>2, RowsKeepIdentity
  <2>4. UniqueRows(lessons) /\ UniqueRows(lessons')
    BY <1>1 DEF TablesSound, ConstraintsHold
  <2>5. /\ {j \in IdsOf(lessons, c) : lessons[j].slug = s} = {i}
        /\ {j \in IdsOf(lessons', c) : lessons'[j].slug = s} = {i}
    BY <2>1, <2>2, <2>3, <2>4, RowOfSlug
  <2>6. /\ HistoryOf(c, s) = HistoryAt(progress, attempts, i)
        /\ HistoryOf(c, s)' = HistoryAt(progress', attempts', i)
    BY <2>5 DEF HistoryOf, HistoryAt, IdsOf
  <2> QED
    BY <1>1, <2>2, <2>6, HistoryKeptStep
<1>2. TablesSound /\ TablesSound' /\ [Next]_vars =>
         [lessons' # lessons =>
             \A c \in Courses, s \in Slugs :
                 Known(lessons, c, s) => HistoryOf(c, s)' = HistoryOf(c, s)]_vars
  BY <1>1
<1> QED
  BY <1>2, AlwaysSound, PTL DEF Spec, RefreshKeepsHistory
=============================================================================
