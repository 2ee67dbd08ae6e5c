------------------------------- MODULE Outline -------------------------------
(***************************************************************************)
(* What a tutor sees of the roadmap: per track an ordered list of topics,  *)
(* each with its ordered list of follow-up projects.  No ids, no position  *)
(* numbers: a command moves, adds, rewrites or removes the one entry it    *)
(* names and everything else stays where it is.  RoadmapTables implements  *)
(* it command by command.                                                  *)
(***************************************************************************)
EXTENDS Naturals, FiniteSets, SequencesExt

CONSTANT TrackOrder      \* the tracks, in display order

VARIABLE outline         \* track -> its topics in order

Tracks == ToSet(TrackOrder)

Sections(snapshot) ==
    [tr \in Tracks |->
        LET mine == SelectSeq(snapshot, LAMBDA t : t.track = tr)
        IN  [k \in DOMAIN mine |-> [slug |-> mine[k].slug, text |-> mine[k].text,
                                    followups |-> mine[k].followups]]]

(* Where the outline o has a topic.                                        *)
Listed(o, slug) == \E tr \in Tracks : \E k \in DOMAIN o[tr] : o[tr][k].slug = slug

TrackOf(o, slug) == CHOOSE tr \in Tracks : \E k \in DOMAIN o[tr] : o[tr][k].slug = slug
PlaceIn(section, slug) == CHOOSE k \in DOMAIN section : section[k].slug = slug
Place(o, slug) == PlaceIn(o[TrackOf(o, slug)], slug)
Topic(o, slug) == o[TrackOf(o, slug)][Place(o, slug)]

Behind(section, after, t) == InsertAt(section, PlaceIn(section, after) + 1, t)

(* One topic becomes t, where it stands.                                   *)
Becomes(o, slug, t) == outline' = [o EXCEPT ![TrackOf(o, slug)][Place(o, slug)] = t]

-----------------------------------------------------------------------------
(* The commands on the outline o.                                          *)

Init == outline = [tr \in Tracks |-> << >>]

Load(snapshot) == outline' = Sections(snapshot)

Set(o, slug, text) ==
    /\ Listed(o, slug)
    /\ Becomes(o, slug, [Topic(o, slug) EXCEPT !.text = text])

(* after is a topic of the same track or "": the new topic is the last,    *)
(* the moved one the first.                                                *)
Beside(o, after, tr) == after = "" \/ (Listed(o, after) /\ TrackOf(o, after) = tr)

Add(o, slug, tr, text, after) ==
    LET new == [slug |-> slug, text |-> text, followups |-> << >>] IN
    /\ ~Listed(o, slug) /\ Beside(o, after, tr)
    /\ outline' = [o EXCEPT ![tr] = IF after = "" THEN Append(@, new) ELSE Behind(@, after, new)]

Move(o, slug, after) ==
    LET tr == TrackOf(o, slug)
        rest == RemoveAt(o[tr], Place(o, slug))
    IN  /\ Listed(o, slug) /\ after # slug /\ Beside(o, after, tr)
        /\ outline' = [o EXCEPT ![tr] = IF after = "" THEN <<Topic(o, slug)>> \o rest
                                        ELSE Behind(rest, after, Topic(o, slug))]

RemoveTopic(o, slug) ==
    /\ Listed(o, slug)
    /\ outline' = [o EXCEPT ![TrackOf(o, slug)] = RemoveAt(@, Place(o, slug))]

FollowupAdd(o, slug, name) ==
    /\ Listed(o, slug)
    /\ Becomes(o, slug, [Topic(o, slug) EXCEPT
         !.followups = Append(@, [name |-> name, chosen |-> FALSE])])

FollowupChoose(o, slug, n) ==
    /\ Listed(o, slug) /\ n \in DOMAIN Topic(o, slug).followups
    /\ Becomes(o, slug, [Topic(o, slug) EXCEPT
         !.followups = [f \in DOMAIN @ |-> [name |-> @[f].name, chosen |-> f = n]]])

FollowupRemove(o, slug, n) ==
    /\ Listed(o, slug) /\ n \in DOMAIN Topic(o, slug).followups
    /\ Becomes(o, slug, [Topic(o, slug) EXCEPT !.followups = RemoveAt(@, n)])

-----------------------------------------------------------------------------
(* One command, told apart by its name and arguments.                      *)
Perform(c) ==
    \E o \in {outline} :
    \/ c.name = "import" /\ Load(c.file)
    \/ c.name = "set" /\ Set(o, c.slug, c.text)
    \/ c.name = "add" /\ Add(o, c.slug, c.track, c.text, c.after)
    \/ c.name = "move" /\ Move(o, c.slug, c.after)
    \/ c.name = "remove" /\ RemoveTopic(o, c.slug)
    \/ c.name = "followup add" /\ FollowupAdd(o, c.slug, c.title)
    \/ c.name = "followup choose" /\ FollowupChoose(o, c.slug, c.n)
    \/ c.name = "followup remove" /\ FollowupRemove(o, c.slug, c.n)
==============================================================================
