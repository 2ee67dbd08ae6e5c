--------------------------- MODULE MCRoadmapTables ---------------------------
(***************************************************************************)
(* Small instances of RoadmapTables: two tracks and three topics, the row  *)
(* ids of removed ones taken again.                                        *)
(***************************************************************************)
EXTENDS RoadmapCommands

CONSTANTS s1, s2, s3, t1, t2, f1, f2

F(name, chosen) == [name |-> name, chosen |-> chosen]
T(slug, tr, text, fs) == [slug |-> slug, track |-> tr, text |-> text, followups |-> fs]

MCTracks == <<"main", "branch">>

(* A file whose array interleaves the tracks; one follow-up is chosen.     *)
File(s, t, f) ==
    <<T(s[2], "main", t[1], << >>), T(s[1], "branch", t[2], <<F(f[1], FALSE), F(f[2], TRUE)>>),
      T(s[3], "main", t[1], << >>)>>

MCSnapshots ==
    {File(s, t, f) : s \in SetToSeqs(Slugs), t \in SetToSeqs(Texts), f \in SetToSeqs(Names)}

Symmetry == Permutations(Slugs) \cup Permutations(Texts) \cup Permutations(Names)
==============================================================================
