---------------------------- MODULE RoadmapTables ----------------------------
(***************************************************************************)
(* The roadmap tables (curriculum-tools/internal/roadmap): roadmap_topics  *)
(* and roadmap_followups as functions from row id to row, and the commands *)
(* that change them.  Each command is one immediate transaction; what a    *)
(* command refuses rolls back and is no step.                              *)
(***************************************************************************)
EXTENDS Integers, FiniteSets, SequencesExt, TLC

CONSTANTS TrackOrder,    \* the tracks, in the order of trackOrder
          Slugs,
          Texts,         \* values of the text fields, status and notes
          Names,         \* follow-up titles
          Snapshots,     \* roadmap files on disk
          MaxTopicId,    \* bound: topic ids Add hands out
          MaxFollowupId, \* bound: follow-up ids FollowupAdd hands out
          MaxFollowups   \* bound: follow-ups of a topic

VARIABLES topics,        \* id -> [slug, track, position, text]
          followups      \* id -> [topic, position, name, chosen]

tables == <<topics, followups>>

Tracks == ToSet(TrackOrder)

(* A snapshot file: the topics in array order.                             *)
ValidSnapshot(s) ==
    /\ \A i \in DOMAIN s : s[i].slug \in Slugs /\ s[i].track \in Tracks /\ s[i].text \in Texts
    /\ \A i, j \in DOMAIN s : s[i].slug = s[j].slug => i = j

-----------------------------------------------------------------------------
(* Rows and their order.                                                   *)

(* INTEGER PRIMARY KEY: the largest id in the table, plus one.             *)
NewId(rows) == IF rows = << >> THEN 1 ELSE Max(DOMAIN rows) + 1

Before(i, ids, rows) == {j \in ids : rows[j].position < rows[i].position}

(* The row with k - 1 of the others before it, as a set.                   *)
Kth(k, ids, rows) == {i \in ids : Cardinality(Before(i, ids, rows)) = k - 1}

InOrder(ids, rows) == [k \in 1 .. Cardinality(ids) |-> CHOOSE i \in Kth(k, ids, rows) : TRUE]

TrackIDs(rows, tr) == InOrder({i \in DOMAIN rows : rows[i].track = tr}, rows)
FollowupIDs(id) == InOrder({f \in DOMAIN followups : followups[f].topic = id}, followups)

TopicID(slug) == CHOOSE i \in DOMAIN topics : topics[i].slug = slug
Known(slug) == \E i \in DOMAIN topics : topics[i].slug = slug

(* Mutant: the rows are numbered straight away.                            *)
Unparked(rows, order, k) ==
    [i \in DOMAIN rows |->
        IF i \in ToSet(order) /\ (CHOOSE a \in DOMAIN order : order[a] = i) <= k
        THEN [rows[i] EXCEPT !.position = CHOOSE a \in DOMAIN order : order[a] = i]
        ELSE rows[i]]

(* The table after the first k of the 2n UPDATEs that renumber the rows of *)
(* order: first every row is parked at -id, then row by row numbered.      *)
AfterUpdates(rows, order, k) ==
    LET n == Len(order)
        Nth(i) == CHOOSE a \in DOMAIN order : order[a] = i
    IN  [i \in DOMAIN rows |->
           IF i \notin ToSet(order) \/ Nth(i) > k THEN rows[i]
           ELSE [rows[i] EXCEPT !.position = IF Nth(i) + n <= k THEN Nth(i) ELSE -i]]

Resequence(rows, order) == AfterUpdates(rows, order, 2 * Len(order))

(* Mutant: the row changes places with the first one.                      *)
SwapWithFirst(order, id, anchor) ==
    [order EXCEPT ![1] = id, ![CHOOSE a \in DOMAIN order : order[a] = id] = order[1]]

(* placeAfter: id directly behind anchor, or in front (anchor 0).          *)
PlaceAfter(order, id, anchor) ==
    LET rest == Remove(order, id)
    IN  IF anchor = 0 THEN <<id>> \o rest
        ELSE InsertAt(rest, 1 + CHOOSE a \in DOMAIN rest : rest[a] = anchor, id)

InsertTopic(db, t, position) ==
    LET id   == NewId(db.topics)
        base == NewId(db.followups) - 1
    IN  [topics |-> db.topics @@
           (id :> [slug |-> t.slug, track |-> t.track, position |-> position, text |-> t.text]),
         followups |-> db.followups @@
           [f \in base + 1 .. base + Len(t.followups) |->
              [topic |-> id, position |-> f - base, name |-> t.followups[f - base].name,
               chosen |-> t.followups[f - base].chosen]]]

(* Mutant: one count for all tracks.                                       *)
OneCount(s) ==
    FoldLeftDomain(LAMBDA db, i : InsertTopic(db, s[i], i), [topics |-> << >>, followups |-> << >>], s)

(* The tables Import builds: positions dense per track, in array order.    *)
Imported(s) ==
    LET positionOf(i) == Cardinality({j \in 1 .. i : s[j].track = s[i].track})
    IN  FoldLeftDomain(LAMBDA db, i : InsertTopic(db, s[i], positionOf(i)),
                       [topics |-> << >>, followups |-> << >>], s)

(* Load: topics by track and position, each with its follow-ups.           *)
FollowupsOf(id) ==
    LET ids == {f \in DOMAIN followups : followups[f].topic = id}
    IN  [k \in 1 .. Cardinality(ids) |->
            CHOOSE e \in {[name |-> followups[f].name, chosen |-> followups[f].chosen] :
                            f \in Kth(k, ids, followups)} : TRUE]

ReadTopics ==
    LET ids == FlattenSeq([k \in DOMAIN TrackOrder |-> TrackIDs(topics, TrackOrder[k])])
    IN  [k \in DOMAIN ids |-> [id |-> ids[k], slug |-> topics[ids[k]].slug,
                               track |-> topics[ids[k]].track, text |-> topics[ids[k]].text]]

WithFollowups(t, fs) == [slug |-> t.slug, track |-> t.track, text |-> t.text, followups |-> fs]

Loaded == [k \in DOMAIN ReadTopics |-> WithFollowups(ReadTopics[k], FollowupsOf(ReadTopics[k].id))]

-----------------------------------------------------------------------------
(* The commands.                                                           *)

Init == topics = << >> /\ followups = << >>

Import(s, replace) ==
    /\ ValidSnapshot(s)
    /\ topics = << >> \/ replace
    /\ \E new \in {Imported(s)} : topics' = new.topics /\ followups' = new.followups

Set(slug, text) ==
    /\ Known(slug)
    /\ topics' = [topics EXCEPT ![TopicID(slug)].text = text]
    /\ UNCHANGED followups

(* Add appends, then places behind a topic of the same track if asked.     *)
Add(slug, tr, text, after) ==
    LET id == NewId(topics)
        new == InsertTopic([topics |-> topics, followups |-> followups],
                           [slug |-> slug, track |-> tr, text |-> text, followups |-> << >>],
                           Len(TrackIDs(topics, tr)) + 1).topics
    IN  /\ ~Known(slug) /\ id <= MaxTopicId
        /\ \/ after = "" /\ topics' = new
           \/ /\ Known(after) /\ topics[TopicID(after)].track = tr
              /\ topics' = Resequence(new, PlaceAfter(TrackIDs(new, tr), id, TopicID(after)))
        /\ UNCHANGED followups

Move(slug, after) ==
    LET tr == topics[TopicID(slug)].track
        Place(anchor) ==
            topics' = Resequence(topics, PlaceAfter(TrackIDs(topics, tr), TopicID(slug), anchor))
    IN  /\ Known(slug)
        /\ \/ after = "" /\ Place(0)
           \/ /\ after # slug /\ Known(after) /\ topics[TopicID(after)].track = tr
              /\ Place(TopicID(after))
        /\ UNCHANGED followups

(* ON DELETE CASCADE takes the follow-ups along.                           *)
Cascade(id) ==
    followups' = [f \in {f \in DOMAIN followups : followups[f].topic # id} |-> followups[f]]

RemoveTopic(slug) ==
    LET id == TopicID(slug)
        rest == [i \in DOMAIN topics \ {id} |-> topics[i]]
    IN  /\ Known(slug)
        /\ topics' = Resequence(rest, TrackIDs(rest, topics[id].track))
        /\ Cascade(id)

FollowupAdd(slug, name) ==
    LET id == TopicID(slug)
        last == Max({0} \cup {followups[f].position : f \in ToSet(FollowupIDs(id))})
    IN  /\ Known(slug)
        /\ Len(FollowupIDs(id)) < MaxFollowups /\ NewId(followups) <= MaxFollowupId
        /\ followups' = followups @@
             (NewId(followups) :> [topic |-> id, position |-> last + 1, name |-> name, chosen |-> FALSE])
        /\ UNCHANGED topics

FollowupChoose(slug, n) ==
    LET id == TopicID(slug) IN
    /\ Known(slug) /\ n \in DOMAIN FollowupIDs(id)
    /\ followups' = [f \in DOMAIN followups |->
                       IF followups[f].topic # id THEN followups[f]
                       ELSE [followups[f] EXCEPT !.chosen = f = FollowupIDs(id)[n]]]
    /\ UNCHANGED topics

FollowupRemove(slug, n) ==
    LET id == TopicID(slug)
        gone == FollowupIDs(id)[n]
    IN  /\ Known(slug) /\ n \in DOMAIN FollowupIDs(id)
        /\ followups' = Resequence([f \in DOMAIN followups \ {gone} |-> followups[f]],
                                   Remove(FollowupIDs(id), gone))
        /\ UNCHANGED topics

(* Command lines.  The mutating ones end by printing the topic.            *)
Mutations ==
    [name : {"set"}, slug : Slugs, text : Texts]
      \cup [name : {"add"}, slug : Slugs, track : Tracks, text : Texts, after : Slugs \cup {""}]
      \cup [name : {"move"}, slug : Slugs, after : Slugs \cup {""}]
      \cup [name : {"remove"}, slug : Slugs]
      \cup [name : {"followup add"}, slug : Slugs, title : Names]
      \cup [name : {"followup choose", "followup remove"}, slug : Slugs, n : 1 .. MaxFollowups]

Imports == [name : {"import"}, file : Snapshots, replace : BOOLEAN]

Perform(c) ==
    \/ c.name = "import" /\ Import(c.file, c.replace)
    \/ c.name = "set" /\ Set(c.slug, c.text)
    \/ c.name = "add" /\ Add(c.slug, c.track, c.text, c.after)
    \/ c.name = "move" /\ Move(c.slug, c.after)
    \/ c.name = "remove" /\ RemoveTopic(c.slug)
    \/ c.name = "followup add" /\ FollowupAdd(c.slug, c.title)
    \/ c.name = "followup choose" /\ FollowupChoose(c.slug, c.n)
    \/ c.name = "followup remove" /\ FollowupRemove(c.slug, c.n)

-----------------------------------------------------------------------------
(* Properties.                                                             *)

(* Rows have their types, slugs are unique, and no follow-up outlives its  *)
(* topic: an orphan would join whichever topic next gets the freed row id. *)
TypeOK ==
    /\ DOMAIN topics \subseteq Nat \ {0} /\ DOMAIN followups \subseteq Nat \ {0}
    /\ \A i \in DOMAIN topics :
          topics[i] \in [slug : Slugs, track : Tracks, position : Nat \ {0}, text : Texts]
    /\ \A i, j \in DOMAIN topics : topics[i].slug = topics[j].slug => i = j
    /\ \A f \in DOMAIN followups :
          followups[f] \in [topic : DOMAIN topics, position : Nat \ {0}, name : Names, chosen : BOOLEAN]

(* The positions of a track, and of a topic's follow-ups, are 1..n with no *)
(* gap and no duplicate after every command (store.go: "Positions stay     *)
(* dense").                                                                *)
Dense(ids, rows) ==
    {rows[i].position : i \in ids} = 1 .. Cardinality(ids)

PositionsDense ==
    /\ \A tr \in Tracks : Dense({i \in DOMAIN topics : topics[i].track = tr}, topics)
    /\ \A i \in DOMAIN topics : Dense({f \in DOMAIN followups : followups[f].topic = i}, followups)

(* Renumbering a track, or a topic's follow-ups, into any order never      *)
(* breaks UNIQUE (track, position) or UNIQUE (topic_id, position) between  *)
(* two of its UPDATEs, so Move, Add, Remove and FollowupRemove never fail  *)
(* half way.                                                               *)
NeverCollides(ids, rows) ==
    \A order \in SetToSeqs(ids) : \A k \in 0 .. 2 * Len(order) :
        \E now \in {AfterUpdates(rows, order, k)} :
            \A i, j \in ids : now[i].position = now[j].position => i = j

RenumberingAccepted ==
    /\ \A tr \in Tracks : NeverCollides({i \in DOMAIN topics : topics[i].track = tr}, topics)
    /\ \A i \in DOMAIN topics :
          NeverCollides({f \in DOMAIN followups : followups[f].topic = i}, followups)

(* What the tables say to a reader.                                        *)
Outlined ==
    LET ids(tr) == {i \in DOMAIN topics : topics[i].track = tr}
    IN  [tr \in Tracks |-> [k \in 1 .. Cardinality(ids(tr)) |->
            CHOOSE t \in {[slug |-> topics[i].slug, text |-> topics[i].text, followups |-> FollowupsOf(i)] :
                            i \in Kth(k, ids(tr), topics)} : TRUE]]
==============================================================================
