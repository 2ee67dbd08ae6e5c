--------------------------- MODULE MCRoadmapExport ---------------------------
(***************************************************************************)
(* Small instances of RoadmapExport: topics of one track.                  *)
(***************************************************************************)
EXTENDS RoadmapExport

CONSTANTS s1, s2, t1, t2, f1, p1, p2, p3

T(slug, text, names) ==
    [slug |-> slug, track |-> "main", text |-> text,
     followups |-> [k \in DOMAIN names |-> [name |-> names[k], chosen |-> FALSE]]]

MCTracks == <<"main">>
MCSnapshots == {<<T(s1, t1, <<f1>>)>>}

Symmetry == Permutations(Procs)
==============================================================================
