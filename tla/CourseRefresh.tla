--------------------------- MODULE CourseRefresh ---------------------------
(***************************************************************************)
(* What progress.Seed promises: the lessons and prerequisites tables go    *)
(* from one committed content to the next in one step, the one LessonRows  *)
(* describes.  LearnerStore's Refresh is this step;                        *)
(* SeedTransaction shows that the statements of Seed implement it.         *)
(***************************************************************************)
EXTENDS LessonRows

CONSTANT CatalogsOf        \* course -> the catalogs its author may release

VARIABLES lessons, prereqs

Init == lessons = [i \in {} |-> i] /\ prereqs = {}

Refresh(c, cat) ==
    /\ lessons' = Seeded(lessons, c, cat)
    /\ prereqs' = SeededPrereqs(lessons, prereqs, c, cat)

Next == \E c \in Courses : \E cat \in CatalogsOf[c] : Refresh(c, cat)

Spec == Init /\ [][Next]_<<lessons, prereqs>>
=============================================================================
