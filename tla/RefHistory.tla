----------------------------- MODULE RefHistory -----------------------------
(***************************************************************************)
(* Records, ref maps and histories of the Cursor Git project.  A record    *)
(* (an immutable object records/<name>.json with its pack) moves one or    *)
(* more refs, each from an expected old object id to a new one.  A ref map *)
(* gives Zero, the all-zero id, to a ref that does not exist.              *)
(***************************************************************************)
EXTENDS Naturals, Sequences, FiniteSetsExt

CONSTANTS Records,      \* the records that may be prepared and uploaded
          RefNames,     \* refs/heads/...
          Oids,         \* commit ids
          Zero,         \* the id a missing ref is compared as
          OperationOf,  \* record -> its stable operation id
          UpdatesOf     \* record -> [ref -> [old, new]]

RefMap == [RefNames -> Oids \cup {Zero}]

(* What validateRecord and candidate.sh let through: at least one update,  *)
(* each ref once, never to the zero id.                                    *)
IsRecord(rec) ==
    /\ DOMAIN UpdatesOf[rec] \subseteq RefNames
    /\ DOMAIN UpdatesOf[rec] # {}
    /\ \A ref \in DOMAIN UpdatesOf[rec] :
          UpdatesOf[rec][ref] \in [old : Oids \cup {Zero}, new : Oids]

ASSUME RecordAssumption == Zero \notin Oids /\ \A rec \in Records : IsRecord(rec)

(* advanceRefs: the precondition of every update, and the refs after it.   *)
Fits(refs, rec) ==
    \A ref \in DOMAIN UpdatesOf[rec] : refs[ref] = UpdatesOf[rec][ref].old

Advance(refs, rec) ==
    [ref \in RefNames |-> IF ref \in DOMAIN UpdatesOf[rec]
                          THEN UpdatesOf[rec][ref].new ELSE refs[ref]]

(* history: a ref points where the last entry that moves it put it.        *)
MovedBy(entries, ref) ==
    {k \in DOMAIN entries : ref \in DOMAIN UpdatesOf[entries[k]]}

Tip(entries, ref) ==
    IF MovedBy(entries, ref) = {} THEN Zero
    ELSE UpdatesOf[entries[Max(MovedBy(entries, ref))]][ref].new

RefsAfter(entries) == [ref \in RefNames |-> Tip(entries, ref)]

Before(entries, k) == SubSeq(entries, 1, k - 1)

(* Every entry's preconditions hold when its turn comes.                   *)
Replays(entries) ==
    \A k \in DOMAIN entries : Fits(RefsAfter(Before(entries, k)), entries[k])

(* No operation is accepted twice.                                         *)
Accepted(entries, rec) ==
    \E k \in DOMAIN entries : OperationOf[entries[k]] = OperationOf[rec]
OncePerOperation(entries) ==
    \A j, k \in DOMAIN entries :
        OperationOf[entries[j]] = OperationOf[entries[k]] => j = k
=============================================================================
