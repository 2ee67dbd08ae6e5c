---------------------------- MODULE PublishedLog ----------------------------
(***************************************************************************)
(* What the Cursor Git protocol promises.  There is one history of         *)
(* published records; it only grows, each operation enters it once and on  *)
(* top of the refs it was prepared for.  A replica's Git refs are always   *)
(* those of some prefix of the history and move one record at a time,      *)
(* unless Git is interrupted inside a ref transaction and leaves part of   *)
(* it; a replica may be evicted and starts again from nothing.             *)
(***************************************************************************)
EXTENDS RefHistory

CONSTANTS Replicas, FirstRecord,
          AllowTorn      \* whether a ref transaction may be interrupted

VARIABLES log,     \* the published records
          local    \* replica -> ref map of its repository

Init ==
    /\ log = <<FirstRecord>>
    /\ local = [r \in Replicas |-> RefsAfter(<<>>)]

Publish(rec) ==
    /\ ~Accepted(log, rec)
    /\ Fits(RefsAfter(log), rec)
    /\ log' = Append(log, rec)
    /\ UNCHANGED local

Install(r) ==
    /\ \E k \in DOMAIN log :
          /\ local[r] = RefsAfter(Before(log, k))
          /\ local' = [local EXCEPT ![r] = RefsAfter(Before(log, k + 1))]
    /\ UNCHANGED log

Tear(r) ==
    /\ AllowTorn
    /\ \E k \in DOMAIN log :
          /\ local[r] = RefsAfter(Before(log, k))
          /\ \E some \in SUBSET RefNames :
                local' = [local EXCEPT ![r] = [ref \in RefNames |->
                            RefsAfter(Before(log, IF ref \in some THEN k + 1 ELSE k))[ref]]]
    /\ UNCHANGED log

Evict(r) ==
    /\ local' = [local EXCEPT ![r] = RefsAfter(<<>>)]
    /\ UNCHANGED log

Next ==
    \/ \E rec \in Records : Publish(rec)
    \/ \E r \in Replicas : Install(r) \/ Tear(r) \/ Evict(r)

Spec == Init /\ [][Next]_<<log, local>>
=============================================================================
