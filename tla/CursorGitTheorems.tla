------------------------- MODULE CursorGitTheorems -------------------------
(***************************************************************************)
(* Theorems about CursorGit for any records, refs, publishers, workers,    *)
(* replicas, number of attempts and number of faults.                      *)
(***************************************************************************)
EXTENDS CursorGit, SequenceTheorems, WellFoundedInduction, TLAPS

-----------------------------------------------------------------------------
(* Prefixes of a history.                                                  *)

(* Before(s, k) holds the k - 1 entries in front of the k-th one.          *)
LEMMA BeforeElements ==
    ASSUME NEW s \in Seq(Records), NEW k \in 1 .. Len(s) + 1
    PROVE  /\ Before(s, k) \in Seq(Records)
           /\ Len(Before(s, k)) = k - 1
           /\ \A i \in 1 .. k - 1 : Before(s, k)[i] = s[i]
<1>1. \A i \in 1 .. k - 1 : s[i] \in Records
  BY ElementOfSeq
<1> QED
  BY <1>1, SubSeqProperties DEF Before

(* All entries are in front of the one after the last.                     *)
LEMMA BeforeEnd ==
    ASSUME NEW s \in Seq(Records)
    PROVE  Before(s, Len(s) + 1) = s
<1>1. /\ Len(s) \in Nat /\ Len(s) + 1 \in 1 .. Len(s) + 1
      /\ (Len(s) + 1) - 1 = Len(s)
  BY LenProperties
<1> HIDE DEF Before
<1>2. /\ Before(s, Len(s) + 1) \in Seq(Records)
      /\ Len(Before(s, Len(s) + 1)) = Len(s)
      /\ \A i \in 1 .. Len(s) : Before(s, Len(s) + 1)[i] = s[i]
  BY <1>1, BeforeElements
<1> QED
  BY <1>2, SeqEqual

(* What was in front of an entry stays there when another is appended.     *)
LEMMA BeforeAppend ==
    ASSUME NEW s \in Seq(Records), NEW e \in Records, NEW k \in 1 .. Len(s) + 1
    PROVE  Before(Append(s, e), k) = Before(s, k)
<1>1. Append(s, e) \in Seq(Records) /\ Len(Append(s, e)) = Len(s) + 1
  BY AppendProperties
<1>2. k \in 1 .. Len(Append(s, e)) + 1 /\ k \in Nat \ {0} /\ k - 1 <= Len(s)
  BY <1>1, LenProperties
<1>3. \A i \in 1 .. k - 1 : Append(s, e)[i] = s[i]
  BY <1>2, AppendProperties, LenProperties
<1>4. /\ Before(Append(s, e), k) \in Seq(Records)
      /\ Len(Before(Append(s, e), k)) = k - 1
      /\ \A i \in 1 .. k - 1 : Before(Append(s, e), k)[i] = s[i]
  BY <1>1, <1>2, <1>3, BeforeElements
<1> QED
  BY <1>4, BeforeElements, SeqEqual

(* A prefix one entry longer.                                              *)
LEMMA BeforeNext ==
    ASSUME NEW s \in Seq(Records), NEW k \in 1 .. Len(s)
    PROVE  Before(s, k + 1) = Append(Before(s, k), s[k])
<1>1. k \in 1 .. Len(s) + 1 /\ k + 1 \in 1 .. Len(s) + 1 /\ s[k] \in Records
  BY LenProperties, ElementOfSeq
<1>2. /\ Before(s, k) \in Seq(Records) /\ Len(Before(s, k)) = k - 1
      /\ \A i \in 1 .. k - 1 : Before(s, k)[i] = s[i]
  BY <1>1, BeforeElements
<1>3. /\ Before(s, k + 1) \in Seq(Records) /\ Len(Before(s, k + 1)) = k
      /\ \A i \in 1 .. k : Before(s, k + 1)[i] = s[i]
  BY <1>1, BeforeElements
<1> DEFINE t == Append(Before(s, k), s[k])
<1>4. /\ t \in Seq(Records) /\ Len(t) = k
      /\ \A i \in 1 .. k - 1 : t[i] = s[i]
      /\ t[k] = s[k]
  BY <1>1, <1>2, AppendProperties
<1>5. \A i \in 1 .. k : Before(s, k + 1)[i] = t[i]
  BY <1>3, <1>4
<1> HIDE DEF t
<1>6. Before(s, k + 1) = t
  BY <1>3, <1>4, <1>5, SeqEqual
<1> QED
  BY <1>6 DEF t

(* A prefix of a prefix.                                                   *)
LEMMA BeforeBefore ==
    ASSUME NEW s \in Seq(Records), NEW k \in 1 .. Len(s) + 1, NEW j \in 1 .. k
    PROVE  Before(Before(s, k), j) = Before(s, j)
<1>1. j \in 1 .. Len(s) + 1 /\ j - 1 <= k - 1
  BY LenProperties
<1>2. /\ Before(s, k) \in Seq(Records) /\ Len(Before(s, k)) = k - 1
      /\ \A i \in 1 .. k - 1 : Before(s, k)[i] = s[i]
  BY BeforeElements
<1>3. j \in 1 .. Len(Before(s, k)) + 1
  BY <1>2
<1>4. /\ Before(Before(s, k), j) \in Seq(Records)
      /\ Len(Before(Before(s, k), j)) = j - 1
      /\ \A i \in 1 .. j - 1 : Before(Before(s, k), j)[i] = s[i]
  BY <1>1, <1>2, <1>3, BeforeElements
<1> QED
  BY <1>1, <1>4, BeforeElements, SeqEqual

(* One history is a prefix of another: a reader of the first is late, and  *)
(* not on a different branch.                                              *)
PrefixOf(s, t) == Len(s) <= Len(t) /\ s = Before(t, Len(s) + 1)

(* A prefix has the same entries and the same prefixes.                    *)
LEMMA PrefixElements ==
    ASSUME NEW s \in Seq(Records), NEW t \in Seq(Records), PrefixOf(s, t)
    PROVE  /\ \A i \in DOMAIN s : i \in DOMAIN t /\ t[i] = s[i]
           /\ \A k \in 1 .. Len(s) + 1 : Before(s, k) = Before(t, k)
<1>1. Len(s) + 1 \in 1 .. Len(t) + 1
  BY LenProperties DEF PrefixOf
<1>2. \A i \in 1 .. Len(s) : s[i] = t[i]
  BY <1>1, BeforeElements DEF PrefixOf
<1>3. \A k \in 1 .. Len(s) + 1 : Before(s, k) = Before(t, k)
  BY <1>1, BeforeBefore DEF PrefixOf
<1> QED
  BY <1>2, <1>3, LenProperties DEF PrefixOf

(* A history is a prefix of itself.                                        *)
LEMMA PrefixRefl ==
    ASSUME NEW s \in Seq(Records)
    PROVE  PrefixOf(s, s)
BY BeforeEnd, LenProperties DEF PrefixOf

(* A prefix of a prefix is a prefix.                                       *)
LEMMA PrefixTrans ==
    ASSUME NEW s \in Seq(Records), NEW t \in Seq(Records), NEW u \in Seq(Records),
           PrefixOf(s, t), PrefixOf(t, u)
    PROVE  PrefixOf(s, u)
<1>1. Len(s) + 1 \in 1 .. Len(t) + 1
  BY LenProperties DEF PrefixOf
<1>2. Before(t, Len(s) + 1) = Before(u, Len(s) + 1)
  BY <1>1, PrefixElements
<1> QED
  BY <1>2, LenProperties DEF PrefixOf

(* What grows by an entry has what it was as a prefix.                     *)
LEMMA PrefixAppend ==
    ASSUME NEW s \in Seq(Records), NEW e \in Records
    PROVE  PrefixOf(s, Append(s, e))
<1>1. Len(s) + 1 \in 1 .. Len(s) + 1
  BY LenProperties
<1>2. s = Before(Append(s, e), Len(s) + 1)
  BY <1>1, BeforeAppend, BeforeEnd
<1> QED
  BY <1>2, AppendProperties, LenProperties DEF PrefixOf

(* A proper prefix and the entry that comes next.                          *)
LEMMA PrefixNext ==
    ASSUME NEW s \in Seq(Records), NEW t \in Seq(Records), PrefixOf(s, t),
           Len(s) < Len(t)
    PROVE  /\ t[Len(s) + 1] \in Records
           /\ Append(s, t[Len(s) + 1]) \in Seq(Records)
           /\ Len(Append(s, t[Len(s) + 1])) = Len(s) + 1
           /\ Append(s, t[Len(s) + 1]) = Before(t, Len(s) + 2)
           /\ PrefixOf(Append(s, t[Len(s) + 1]), t)
<1>1. Len(s) + 1 \in 1 .. Len(t) /\ Len(s) \in Nat /\ Len(t) \in Nat
  BY LenProperties
<1>2. t[Len(s) + 1] \in Records
  BY <1>1, ElementOfSeq
<1>3. Before(t, Len(s) + 1 + 1) = Append(Before(t, Len(s) + 1), t[Len(s) + 1])
  BY <1>1, BeforeNext
<1>4. Before(t, Len(s) + 2) = Append(s, t[Len(s) + 1])
  BY <1>1, <1>3 DEF PrefixOf
<1>5. Append(s, t[Len(s) + 1]) \in Seq(Records)
        /\ Len(Append(s, t[Len(s) + 1])) = Len(s) + 1
  BY <1>2, AppendProperties
<1> QED
  BY <1>1, <1>2, <1>4, <1>5 DEF PrefixOf

(* Two prefixes of equal length are equal, the longest is everything.      *)
LEMMA PrefixSameLength ==
    ASSUME NEW s \in Seq(Records), NEW t \in Seq(Records), PrefixOf(s, t),
           Len(s) = Len(t)
    PROVE  s = t
BY BeforeEnd DEF PrefixOf

-----------------------------------------------------------------------------
(* Refs after a history.                                                   *)

(* A nonempty set of naturals with a bound has a greatest member.          *)
LEMMA BoundedHasGreatest ==
    ASSUME NEW S \in SUBSET Nat, S # {}, NEW n \in Nat, \A x \in S : x <= n
    PROVE  Max(S) \in S /\ \A x \in S : Max(S) >= x
<1> DEFINE Bounds == {m \in Nat : \A x \in S : x <= m}
<1>1. PICK m \in Bounds : \A k \in Bounds : <<k, m>> \notin OpToRel(<, Nat)
  <2>1. n \in Bounds /\ Bounds \subseteq Nat
    OBVIOUS
  <2> HIDE DEF Bounds
  <2> QED
    BY <2>1, NatLessThanWellFounded, WFMin
<1>2. \A k \in Bounds : ~(k < m)
  BY <1>1 DEF OpToRel
<1>3. m \in S
  <2>1. SUFFICES ASSUME m \notin S PROVE FALSE
    OBVIOUS
  <2>2. \A x \in S : x \in Nat /\ x < m
    BY <2>1
  <2>3. m - 1 \in Nat /\ m - 1 < m
    <3>1. PICK x \in S : TRUE
      OBVIOUS
    <3>2. x \in Nat /\ x < m /\ m \in Nat
      BY <2>2
    <3> QED
      BY <3>2
  <2>4. m - 1 \in Bounds
    BY <2>2, <2>3
  <2> QED
    BY <1>2, <2>3, <2>4
<1>4. \E x \in S : \A y \in S : x >= y
  BY <1>3
<1> QED
  BY <1>4 DEF Max

(* The last entry that moves a ref is one of the history.                  *)
LEMMA LastMove ==
    ASSUME NEW s \in Seq(Records), NEW ref, MovedBy(s, ref) # {}
    PROVE  /\ Max(MovedBy(s, ref)) \in MovedBy(s, ref)
           /\ \A k \in MovedBy(s, ref) : Max(MovedBy(s, ref)) >= k
<1>1. DOMAIN s = 1 .. Len(s) /\ Len(s) \in Nat
  BY LenProperties
<1>2. MovedBy(s, ref) \in SUBSET Nat /\ \A k \in MovedBy(s, ref) : k <= Len(s)
  BY <1>1 DEF MovedBy
<1> QED
  BY <1>1, <1>2, BoundedHasGreatest

(* A history leaves a ref map.                                             *)
LEMMA RefsAfterType ==
    ASSUME NEW s \in Seq(Records)
    PROVE  RefsAfter(s) \in RefMap
<1> SUFFICES ASSUME NEW ref \in RefNames PROVE Tip(s, ref) \in Oids \cup {Zero}
  BY DEF RefsAfter, RefMap
<1>1. CASE MovedBy(s, ref) = {}
  BY <1>1 DEF Tip
<1>2. CASE MovedBy(s, ref) # {}
  <2> DEFINE k == Max(MovedBy(s, ref))
  <2>1. k \in DOMAIN s /\ ref \in DOMAIN UpdatesOf[s[k]]
    BY <1>2, LastMove DEF MovedBy
  <2>2. s[k] \in Records
    BY <2>1, LenProperties, ElementOfSeq
  <2>3. UpdatesOf[s[k]][ref] \in [old : Oids \cup {Zero}, new : Oids]
    BY <2>1, <2>2, RecordAssumption DEF IsRecord
  <2> QED
    BY <1>2, <2>3 DEF Tip
<1> QED
  BY <1>1, <1>2

(* advanceRefs leaves a ref map.                                           *)
LEMMA AdvanceType ==
    ASSUME NEW map \in RefMap, NEW e \in Records
    PROVE  Advance(map, e) \in RefMap
<1> SUFFICES ASSUME NEW ref \in RefNames
             PROVE  Advance(map, e)[ref] \in Oids \cup {Zero}
  BY DEF Advance, RefMap
<1>1. ref \in DOMAIN UpdatesOf[e] =>
         UpdatesOf[e][ref] \in [old : Oids \cup {Zero}, new : Oids]
  BY RecordAssumption DEF IsRecord
<1>2. map[ref] \in Oids \cup {Zero}
  BY DEF RefMap
<1> QED
  BY <1>1, <1>2 DEF Advance

(* advanceRefs computes what a replay from nothing would: the refs after   *)
(* one more entry are the refs before it with that entry's updates.        *)
LEMMA RefsAfterAppend ==
    ASSUME NEW s \in Seq(Records), NEW e \in Records
    PROVE  RefsAfter(Append(s, e)) = Advance(RefsAfter(s), e)
<1> DEFINE t == Append(s, e)
           n == Len(s)
<1>1. /\ t \in Seq(Records) /\ n \in Nat
      /\ DOMAIN s = 1 .. n /\ DOMAIN t = 1 .. n + 1
      /\ t[n + 1] = e /\ \A k \in 1 .. n : t[k] = s[k]
  BY AppendProperties, LenProperties
<1> HIDE DEF t, n
<1> SUFFICES ASSUME NEW ref \in RefNames
             PROVE  Tip(t, ref) = Advance(RefsAfter(s), e)[ref]
  BY DEF RefsAfter, Advance, t
<1>2. CASE ref \in DOMAIN UpdatesOf[e]
  <2>1. n + 1 \in MovedBy(t, ref)
    BY <1>1, <1>2 DEF MovedBy
  <2>2. \A k \in MovedBy(t, ref) : k <= n + 1 /\ k \in Nat
    BY <1>1 DEF MovedBy
  <2>3. Max(MovedBy(t, ref)) = n + 1
    BY <1>1, <2>1, <2>2, LastMove
  <2> QED
    BY <1>1, <1>2, <2>1, <2>3 DEF Tip, Advance
<1>3. CASE ref \notin DOMAIN UpdatesOf[e]
  <2>1. MovedBy(t, ref) = MovedBy(s, ref)
    BY <1>1, <1>3 DEF MovedBy
  <2>2. MovedBy(s, ref) # {} => Max(MovedBy(s, ref)) \in DOMAIN s
    BY LastMove DEF MovedBy
  <2>3. Tip(t, ref) = Tip(s, ref)
    BY <1>1, <2>1, <2>2 DEF Tip
  <2> QED
    BY <1>3, <2>3 DEF Advance, RefsAfter
<1> QED
  BY <1>2, <1>3

(* A history with one more entry replays if that entry fits on top.        *)
LEMMA ReplaysAppend ==
    ASSUME NEW s \in Seq(Records), NEW e \in Records,
           Replays(s), Fits(RefsAfter(s), e)
    PROVE  Replays(Append(s, e))
<1> DEFINE t == Append(s, e)
<1>1. /\ Len(s) \in Nat /\ DOMAIN s = 1 .. Len(s)
      /\ DOMAIN t = 1 .. Len(s) + 1
      /\ t[Len(s) + 1] = e /\ \A k \in 1 .. Len(s) : t[k] = s[k]
  BY AppendProperties, LenProperties
<1>2. \A k \in 1 .. Len(s) + 1 : Before(t, k) = Before(s, k)
  BY BeforeAppend
<1> HIDE DEF t
<1>3. \A k \in 1 .. Len(s) : Fits(RefsAfter(Before(t, k)), t[k])
  BY <1>1, <1>2 DEF Replays
<1>4. Fits(RefsAfter(Before(t, Len(s) + 1)), t[Len(s) + 1])
  BY <1>1, <1>2, BeforeEnd
<1>5. \A k \in DOMAIN t : k \in 1 .. Len(s) \/ k = Len(s) + 1
  BY <1>1
<1>6. Replays(t)
  BY <1>3, <1>4, <1>5 DEF Replays
<1> QED
  BY <1>6 DEF t

(* ... and has each operation once if that entry's is new.                 *)
LEMMA OnceAppend ==
    ASSUME NEW s \in Seq(Records), NEW e \in Records,
           OncePerOperation(s), ~Accepted(s, e)
    PROVE  OncePerOperation(Append(s, e))
<1>1. /\ Len(s) \in Nat /\ DOMAIN s = 1 .. Len(s)
      /\ DOMAIN Append(s, e) = 1 .. Len(s) + 1
      /\ Append(s, e)[Len(s) + 1] = e
      /\ \A k \in 1 .. Len(s) : Append(s, e)[k] = s[k]
  BY AppendProperties, LenProperties
<1> QED
  BY <1>1 DEF OncePerOperation, Accepted

-----------------------------------------------------------------------------
(* The inductive invariant.                                                *)

IndexSet == [generation : Nat, entries : Seq(Records), refs : RefMap]
MaybeIndex == IndexSet \cup {NoIndex}
MarkerSet == [entries : Seq(Records), refs : RefMap, index : MaybeIndex]
Outcomes == {"none", "already", "reused", "conflict", "published", "unknown", "exhausted"}
PublisherSet ==
    [phase : {"idle", "fetch", "put"}, rec : Records, seen : MaybeIndex,
     tries : 0 .. CasRetries - 1, from : Nat, outcome : Outcomes]
WorkerSet ==
    [phase : {"idle", "lock", "repo", "init", "observe", "cached", "check",
              "apply", "refs", "mark", "verify"},
     kind : {"replay", "read"}, at : Replicas \cup {NotWorking.at},
     target : MaybeIndex, floor : Nat, served : MaybeIndex]

Types ==
    /\ index \in IndexSet /\ uploaded \in SUBSET Records
    /\ publisher \in [Publishers -> PublisherSet]
    /\ repo \in [Replicas -> {"none", "dir", "bare"}]
    /\ refs \in [Replicas -> RefMap]
    /\ marker \in [Replicas -> MarkerSet]
    /\ lock \in [Replicas -> Workers \cup {Free, Stale}]
    /\ worker \in [Workers -> WorkerSet]
    /\ faults \in 0 .. MaxFaults

(* An index that is or was the published one.                              *)
Past(entries, x) ==
    /\ x \in IndexSet /\ x.entries # <<>>
    /\ PrefixOf(x.entries, entries) /\ x = IndexOf(x.entries)

LogOK(x, up) ==
    /\ x.entries # <<>> /\ x = IndexOf(x.entries)
    /\ Replays(x.entries) /\ OncePerOperation(x.entries)
    /\ \A k \in DOMAIN x.entries : x.entries[k] \in up

(* A publish holds an index it has checked its record against; each        *)
(* attempt it lost was won by another entry.  The last three conjuncts are *)
(* the properties of one publisher.                                        *)
PublisherOK(c, entries, up) ==
    /\ c.from <= Len(entries)
    /\ c.phase # "idle" =>
         c.rec \in up /\ c.outcome = "none" /\ c.from + c.tries <= Len(entries)
    /\ c.phase = "put" =>
         /\ Past(entries, c.seen) /\ c.from + c.tries <= Len(c.seen.entries)
         /\ ~Accepted(c.seen.entries, c.rec) /\ Fits(c.seen.refs, c.rec)
    /\ c.phase # "put" => c.seen = NoIndex
    /\ c.outcome \in {"published", "already"} => Among(c.rec, entries)
    /\ Among(c.rec, Before(entries, c.from + 1)) => c.outcome \in {"none", "already"}
    /\ c.outcome = "exhausted" => Len(entries) >= c.from + CasRetries

(* A command past its look at the index works towards published history    *)
(* that is no older than the command.                                      *)
HasTarget(c) ==
    \/ c.phase \in {"cached", "check", "apply", "refs", "mark", "verify"}
    \/ c.phase \in {"repo", "init"} /\ c.kind = "read"

WorkerOK(c, entries) ==
    /\ c.phase # "idle" => c.at \in Replicas
    /\ c.floor <= Len(entries)
    /\ HasTarget(c) => Past(entries, c.target) /\ c.floor <= Len(c.target.entries)
    /\ c.served # NoIndex =>
         Past(entries, c.served) /\ c.floor <= Len(c.served.entries)

(* What a marker and the refs beside it may be, whoever died last ...      *)
ReplicaOK(mk, rf, entries) ==
    /\ PrefixOf(mk.entries, entries) /\ mk.refs = RefsAfter(mk.entries)
    /\ \/ rf = mk.refs
       \/ /\ Len(mk.entries) < Len(entries)
          /\ \A ref \in RefNames :
                rf[ref] \in {mk.refs[ref],
                             RefsAfter(Before(entries, Len(mk.entries) + 2))[ref]}

(* ... and what the holder of the lock knows of them in each step of its   *)
(* loop.                                                                   *)
HolderOK(c, mk, rf) ==
    /\ c.phase \in {"apply", "refs", "mark"} => PrefixOf(mk.entries, c.target.entries)
    /\ c.phase \in {"refs", "mark"} => Len(mk.entries) < Len(c.target.entries)
    /\ c.phase \in {"apply", "refs"} => rf = mk.refs
    /\ c.phase = "mark" => rf = Advance(mk.refs, c.target.entries[Len(mk.entries) + 1])

Inv ==
    /\ Types
    /\ LogOK(index, uploaded)
    /\ \A p \in Publishers : PublisherOK(publisher[p], index.entries, uploaded)
    /\ \A r \in Replicas : ReplicaOK(marker[r], refs[r], index.entries)
    /\ \A w \in Workers : WorkerOK(worker[w], index.entries)
    /\ \A w \in Workers : Holds(w) =>
         lock[At(w)] = w /\ HolderOK(worker[w], marker[At(w)], refs[At(w)])

-----------------------------------------------------------------------------
(* The authority only grows, and what is known of it stays true.           *)

(* A published index stays a published index.                              *)
LEMMA PastStable ==
    ASSUME NEW s \in Seq(Records), NEW t \in Seq(Records), PrefixOf(s, t),
           NEW x, Past(s, x)
    PROVE  Past(t, x)
BY PrefixTrans DEF Past, IndexSet

(* A listed record stays listed.                                           *)
LEMMA AmongStable ==
    ASSUME NEW s \in Seq(Records), NEW t \in Seq(Records), PrefixOf(s, t),
           NEW rec, Among(rec, s)
    PROVE  Among(rec, t)
BY PrefixElements DEF Among

(* What is known of a publish survives the entries and uploads of others.  *)
LEMMA PublisherStable ==
    ASSUME NEW s \in Seq(Records), NEW t \in Seq(Records), PrefixOf(s, t),
           NEW up, NEW more, up \subseteq more,
           NEW c \in PublisherSet, PublisherOK(c, s, up)
    PROVE  PublisherOK(c, t, more)
<1>1. Len(s) \in Nat /\ Len(t) \in Nat /\ Len(s) <= Len(t)
  BY LenProperties DEF PrefixOf
<1>2. c.from \in Nat /\ c.tries \in Nat /\ c.from <= Len(s)
  BY DEF PublisherSet, PublisherOK
<1>3. Before(t, c.from + 1) = Before(s, c.from + 1)
  BY <1>1, <1>2, PrefixElements
<1>4. c.phase = "put" => Past(t, c.seen)
  BY PastStable DEF PublisherOK
<1>5. c.outcome \in {"published", "already"} => Among(c.rec, t)
  BY AmongStable DEF PublisherOK
<1> QED
  BY <1>1, <1>2, <1>3, <1>4, <1>5, CursorAssumption DEF PublisherOK

(* What is known of a replica survives new entries.                        *)
LEMMA ReplicaStable ==
    ASSUME NEW s \in Seq(Records), NEW t \in Seq(Records), PrefixOf(s, t),
           NEW mk \in MarkerSet, NEW rf \in RefMap, ReplicaOK(mk, rf, s)
    PROVE  ReplicaOK(mk, rf, t)
<1>1. /\ Len(s) \in Nat /\ Len(t) \in Nat /\ Len(s) <= Len(t)
      /\ mk.entries \in Seq(Records) /\ Len(mk.entries) \in Nat
  BY LenProperties DEF PrefixOf, MarkerSet
<1>2. PrefixOf(mk.entries, t)
  BY <1>1, PrefixTrans DEF ReplicaOK
<1>3. Len(mk.entries) < Len(s) =>
         Before(t, Len(mk.entries) + 2) = Before(s, Len(mk.entries) + 2)
  <2> SUFFICES ASSUME Len(mk.entries) < Len(s)
               PROVE  Before(t, Len(mk.entries) + 2) = Before(s, Len(mk.entries) + 2)
    OBVIOUS
  <2>1. Len(mk.entries) + 2 \in 1 .. Len(s) + 1
    BY <1>1
  <2> QED
    BY <2>1, PrefixElements
<1> QED
  BY <1>1, <1>2, <1>3 DEF ReplicaOK

(* What is known of a replay or read survives new entries.                 *)
LEMMA WorkerStable ==
    ASSUME NEW s \in Seq(Records), NEW t \in Seq(Records), PrefixOf(s, t),
           NEW c \in WorkerSet, WorkerOK(c, s)
    PROVE  WorkerOK(c, t)
<1>1. Len(s) \in Nat /\ Len(t) \in Nat /\ Len(s) <= Len(t) /\ c.floor \in Nat
  BY LenProperties DEF PrefixOf, WorkerSet
<1>2. HasTarget(c) => Past(t, c.target)
  BY PastStable DEF WorkerOK
<1>3. c.served # NoIndex => Past(t, c.served)
  BY PastStable DEF WorkerOK
<1> QED
  BY <1>1, <1>2, <1>3 DEF WorkerOK

(* NextIndex keeps the index that of its entries.                          *)
LEMMA NextIndexSound ==
    ASSUME NEW x \in IndexSet, x = IndexOf(x.entries), NEW rec \in Records
    PROVE  /\ NextIndex(x, rec) = IndexOf(Append(x.entries, rec))
           /\ NextIndex(x, rec) \in IndexSet
           /\ NextIndex(x, rec).entries = Append(x.entries, rec)
<1>1. /\ x.entries \in Seq(Records) /\ Len(x.entries) \in Nat
      /\ Append(x.entries, rec) \in Seq(Records)
      /\ Len(Append(x.entries, rec)) = Len(x.entries) + 1
      /\ x.refs \in RefMap /\ x.generation \in Nat
  BY AppendProperties, LenProperties DEF IndexSet
<1>2. x.refs = RefsAfter(x.entries) /\ x.generation = Len(x.entries) - 1
  BY DEF IndexOf
<1>3. Advance(x.refs, rec) = RefsAfter(Append(x.entries, rec))
  BY <1>1, <1>2, RefsAfterAppend
<1>4. Advance(x.refs, rec) \in RefMap
  BY <1>1, AdvanceType
<1>5. x.generation + 1 = Len(Append(x.entries, rec)) - 1
  BY <1>1, <1>2
<1> DEFINE t == Append(x.entries, rec)
<1>6. NextIndex(x, rec) = [generation |-> Len(t) - 1, entries |-> t, refs |-> RefsAfter(t)]
  BY <1>3, <1>5 DEF NextIndex
<1>7. Len(t) - 1 \in Nat /\ t \in Seq(Records) /\ RefsAfter(t) \in RefMap
  BY <1>1, <1>3, <1>4
<1> HIDE DEF t
<1>8. NextIndex(x, rec) \in IndexSet /\ NextIndex(x, rec).entries = t
  BY <1>6, <1>7 DEF IndexSet
<1> QED
  BY <1>6, <1>8 DEF IndexOf, t

-----------------------------------------------------------------------------
(* The invariant holds initially.                                          *)

(* No entries: the refs of an empty repository, a prefix of every history. *)
LEMMA EmptyHistory ==
    /\ <<>> \in Seq(Records) /\ Len(<<>>) = 0
    /\ RefsAfter(<<>>) \in RefMap
    /\ \A s \in Seq(Records) : Before(s, 1) = <<>> /\ PrefixOf(<<>>, s)
<1>1. <<>> \in Seq(Records) /\ Len(<<>>) = 0
  BY EmptySeq
<1>2. ASSUME NEW s \in Seq(Records) PROVE Before(s, 1) = <<>> /\ PrefixOf(<<>>, s)
  <2>1. 1 \in 1 .. Len(s) + 1 /\ Len(s) \in Nat
    BY LenProperties
  <2>2. Before(s, 1) \in Seq(Records) /\ Len(Before(s, 1)) = 0
    BY <2>1, BeforeElements
  <2>3. Before(s, 1) = <<>>
    BY <1>1, <2>2, SeqEqual
  <2> QED
    BY <1>1, <2>1, <2>3 DEF PrefixOf
<1> QED
  BY <1>1, <1>2, RefsAfterType

(* The index seed.sh publishes lists one record, on top of nothing.        *)
LEMMA SeedIndex ==
    /\ IndexOf(<<FirstRecord>>) \in IndexSet
    /\ IndexOf(<<FirstRecord>>).entries = <<FirstRecord>>
    /\ LogOK(IndexOf(<<FirstRecord>>), {FirstRecord})
<1> DEFINE s == <<FirstRecord>>
<1>1. FirstRecord \in Records /\ Fits(RefsAfter(<<>>), FirstRecord)
  BY CursorAssumption
<1>2. /\ s \in Seq(Records) /\ Len(s) = 1 /\ DOMAIN s = {1} /\ s[1] = FirstRecord
      /\ s # <<>>
  BY <1>1
<1>3. Before(s, 1) = <<>> /\ RefsAfter(s) \in RefMap
  BY <1>2, EmptyHistory, RefsAfterType
<1> HIDE DEF s
<1>4. Len(s) - 1 \in Nat
  BY <1>2
<1>5. IndexOf(s) \in IndexSet /\ IndexOf(s).entries = s
  BY <1>2, <1>3, <1>4 DEF IndexOf, IndexSet
<1>6. Replays(s) /\ OncePerOperation(s)
  BY <1>1, <1>2, <1>3 DEF Replays, OncePerOperation
<1>7. \A k \in DOMAIN s : s[k] \in {FirstRecord}
  BY <1>2
<1>8. LogOK(IndexOf(s), {FirstRecord})
  BY <1>2, <1>5, <1>6, <1>7 DEF LogOK
<1> QED
  BY <1>5, <1>8 DEF s

(* A process that runs no command knows nothing.                           *)
LEMMA IdlePublisher ==
    ASSUME NEW s \in Seq(Records), NEW up
    PROVE  NotPublishing \in PublisherSet /\ PublisherOK(NotPublishing, s, up)
<1>1. NotPublishing \in PublisherSet
  BY CursorAssumption DEF NotPublishing, PublisherSet, MaybeIndex, Outcomes
<1>2. 0 <= Len(s) /\ 0 + 1 = 1 /\ Before(s, 1) = <<>>
  BY EmptyHistory, LenProperties
<1>3. Before(s, 0 + 1) = <<>>
  BY <1>2
<1> QED
  BY <1>1, <1>2, <1>3 DEF NotPublishing, PublisherOK, Among

(* A worker without a command.                                             *)
LEMMA IdleWorker ==
    ASSUME NEW s \in Seq(Records)
    PROVE  /\ NotWorking \in WorkerSet /\ WorkerOK(NotWorking, s)
           /\ NotWorking.phase = "idle" /\ NotWorking.at \in Replicas \cup {NotWorking.at}
<1>1. Len(s) \in Nat
  BY LenProperties
<1> QED
  BY <1>1 DEF NotWorking, WorkerSet, MaybeIndex, WorkerOK, HasTarget

(* A replica without a directory.                                          *)
LEMMA EmptyReplica ==
    ASSUME NEW s \in Seq(Records)
    PROVE  NoMarker \in MarkerSet /\ ReplicaOK(NoMarker, RefsAfter(<<>>), s)
BY EmptyHistory DEF NoMarker, MarkerSet, MaybeIndex, ReplicaOK

(* What seed.sh leaves.                                                    *)
LEMMA InitInv == Init => Inv
<1> SUFFICES ASSUME Init PROVE Inv
  OBVIOUS
<1>1. index \in IndexSet /\ LogOK(index, uploaded) /\ uploaded \in SUBSET Records
  BY SeedIndex, CursorAssumption DEF Init
<1>2. index.entries \in Seq(Records)
  BY <1>1 DEF IndexSet
<1>3. Types
  <2>1. publisher \in [Publishers -> PublisherSet]
    BY <1>2, IdlePublisher DEF Init
  <2>2. /\ refs \in [Replicas -> RefMap] /\ marker \in [Replicas -> MarkerSet]
        /\ repo \in [Replicas -> {"none", "dir", "bare"}]
        /\ lock \in [Replicas -> Workers \cup {Free, Stale}]
    BY <1>2, EmptyReplica, EmptyHistory DEF Init
  <2>3. worker \in [Workers -> WorkerSet]
    BY <1>2, IdleWorker DEF Init
  <2>4. faults \in 0 .. MaxFaults
    BY CursorAssumption DEF Init
  <2> QED
    BY <1>1, <2>1, <2>2, <2>3, <2>4 DEF Types
<1>4. \A p \in Publishers : PublisherOK(publisher[p], index.entries, uploaded)
  BY <1>2, IdlePublisher DEF Init
<1>5. \A r \in Replicas : ReplicaOK(marker[r], refs[r], index.entries)
  BY <1>2, EmptyReplica DEF Init
<1>6. \A w \in Workers : WorkerOK(worker[w], index.entries) /\ ~Holds(w)
  BY <1>2, IdleWorker DEF Init, Holds
<1> QED
  BY <1>1, <1>3, <1>4, <1>5, <1>6 DEF Inv

-----------------------------------------------------------------------------
(* Steps of publishers.                                                    *)

(* A step of one publisher disturbs no one else.                           *)
LEMMA PublisherStep ==
    ASSUME Inv, NEW p \in Publishers, NEW c \in PublisherSet,
           publisher' = [publisher EXCEPT ![p] = c],
           PublisherOK(c, index.entries, uploaded),
           UNCHANGED <<authority, replica, lock, worker, faults>>
    PROVE  Inv'
<1>1. UNCHANGED <<index, uploaded, repo, refs, marker, lock, worker, faults>>
  BY DEF authority, replica
<1>2. Types'
  BY <1>1 DEF Inv, Types
<1>3. \A q \in Publishers : PublisherOK(publisher'[q], index.entries, uploaded)
  BY DEF Inv, Types
<1> QED
  BY <1>1, <1>2, <1>3 DEF Inv, Holds, At

(* A new record is not listed yet.                                         *)
LEMMA UploadInv ==
    ASSUME Inv, NEW rec \in Records, Upload(rec)
    PROVE  Inv'
<1>1. /\ UNCHANGED <<index, publisher, repo, refs, marker, lock, worker, faults>>
      /\ uploaded' = uploaded \cup {rec}
  BY DEF Upload, replica
<1>2. Types'
  BY <1>1 DEF Inv, Types
<1>3. index.entries \in Seq(Records)
  BY DEF Inv, Types, IndexSet
<1>4. \A p \in Publishers : PublisherOK(publisher[p], index.entries, uploaded')
  BY <1>1, <1>3, PrefixRefl, PublisherStable DEF Inv, Types
<1>5. LogOK(index, uploaded')
  BY <1>1 DEF Inv, LogOK
<1> QED
  BY <1>1, <1>2, <1>4, <1>5 DEF Inv, Holds, At

(* A publish begins with a record that is uploaded.                        *)
LEMMA StartPublishInv ==
    ASSUME Inv, NEW p \in Publishers, NEW rec \in Records, StartPublish(p, rec)
    PROVE  Inv'
<1> DEFINE c == [NotPublishing EXCEPT !.phase = "fetch", !.rec = rec,
                                      !.from = Len(index.entries)]
<1>1. index.entries \in Seq(Records) /\ Len(index.entries) \in Nat
  BY LenProperties DEF Inv, Types, IndexSet
<1>2. c \in PublisherSet
  BY <1>1, IdlePublisher DEF NotPublishing, PublisherSet
<1>3. PublisherOK(c, index.entries, uploaded)
  BY <1>1 DEF NotPublishing, PublisherOK, StartPublish
<1> QED
  BY <1>2, <1>3, PublisherStep DEF StartPublish

(* An error of the store ends a publish.                                   *)
LEMMA AbortPublishInv ==
    ASSUME Inv, NEW p \in Publishers, AbortPublish(p),
           UNCHANGED <<authority, replica, lock, worker, faults>>
    PROVE  Inv'
<1>1. index.entries \in Seq(Records)
  BY DEF Inv, Types, IndexSet
<1> QED
  BY <1>1, IdlePublisher, PublisherStep DEF AbortPublish

(* A publish that ends without a PUT: what it says of the record must be   *)
(* true of the history it saw.                                             *)
LEMMA EndPublishInv ==
    ASSUME Inv, NEW p \in Publishers, NEW outcome \in Outcomes,
           EndPublish(p, outcome),
           outcome \in {"published", "already"} => Among(publisher[p].rec, index.entries),
           Among(publisher[p].rec, Before(index.entries, publisher[p].from + 1))
             => outcome \in {"none", "already"},
           outcome = "exhausted" =>
             Len(index.entries) >= publisher[p].from + CasRetries,
           UNCHANGED <<authority, replica, lock, worker, faults>>
    PROVE  Inv'
<1> DEFINE c == [NotPublishing EXCEPT !.rec = publisher[p].rec,
                                      !.from = publisher[p].from, !.outcome = outcome]
<1>1. publisher[p] \in PublisherSet /\ PublisherOK(publisher[p], index.entries, uploaded)
  BY DEF Inv, Types
<1>2. NotPublishing \in PublisherSet
  BY IdlePublisher, EmptyHistory
<1>3. c \in PublisherSet
  BY <1>1, <1>2 DEF PublisherSet
<1>4. PublisherOK(c, index.entries, uploaded)
  BY <1>1 DEF NotPublishing, PublisherOK
<1> QED
  BY <1>3, <1>4, PublisherStep DEF EndPublish

(* An entry that is listed has its operation listed, also in any prefix.   *)
LEMMA AmongIsAccepted ==
    ASSUME NEW s \in Seq(Records), NEW t \in Seq(Records), PrefixOf(s, t),
           NEW k \in 1 .. Len(s) + 1, NEW rec, Among(rec, Before(t, k))
    PROVE  Accepted(s, rec)
<1>1. Before(s, k) = Before(t, k)
  BY PrefixElements
<1>2. PICK i \in DOMAIN Before(s, k) : Before(s, k)[i] = rec
  BY <1>1 DEF Among
<1>3. i \in 1 .. k - 1 /\ rec = s[i] /\ i \in DOMAIN s
  BY <1>2, BeforeElements, LenProperties
<1> QED
  BY <1>3 DEF Accepted

(* One GET of the index, and the checks of the record against it.          *)
LEMMA FetchIndexInv ==
    ASSUME Inv, NEW p \in Publishers, FetchIndex(p)
    PROVE  Inv'
<1> DEFINE c == publisher[p]
<1>1. /\ c \in PublisherSet /\ PublisherOK(c, index.entries, uploaded)
      /\ c.phase = "fetch" /\ c.from \in Nat /\ c.from <= Len(index.entries)
  BY DEF Inv, Types, FetchIndex, PublisherSet, PublisherOK
<1>2. /\ index \in IndexSet /\ index.entries \in Seq(Records)
      /\ Len(index.entries) \in Nat /\ Past(index.entries, index)
  BY PrefixRefl, LenProperties DEF Inv, Types, IndexSet, Past, LogOK
<1>3. UNCHANGED <<authority, replica, lock, worker, faults>>
  BY DEF FetchIndex
<1>4. Among(c.rec, Before(index.entries, c.from + 1)) => Accepted(index.entries, c.rec)
  <2>1. c.from + 1 \in 1 .. Len(index.entries) + 1
    BY <1>1, <1>2
  <2> QED
    BY <1>2, <2>1, PrefixRefl, AmongIsAccepted
<1>5. CASE ~SoundIndex(index)
  BY <1>3, <1>5, AbortPublishInv DEF FetchIndex
<1>6. CASE SoundIndex(index) /\ Listed(index, c.rec)
  <2> DEFINE outcome == IF \E k \in DOMAIN index.entries : index.entries[k] = c.rec
                        THEN "already" ELSE "reused"
  <2>1. EndPublish(p, outcome) /\ outcome \in Outcomes
    BY <1>6 DEF FetchIndex, Outcomes
  <2>2. outcome = "already" <=> Among(c.rec, index.entries)
    BY DEF Among
  <2>3. Among(c.rec, Before(index.entries, c.from + 1)) => Among(c.rec, index.entries)
    <3>1. c.from + 1 \in 1 .. Len(index.entries) + 1
      BY <1>1, <1>2
    <3> DEFINE start == Before(index.entries, c.from + 1)
    <3>2. /\ start \in Seq(Records) /\ Len(start) = (c.from + 1) - 1
          /\ \A k \in 1 .. (c.from + 1) - 1 : start[k] = index.entries[k]
      BY <1>2, <3>1, BeforeElements
    <3> HIDE DEF start
    <3>3. /\ DOMAIN start = 1 .. c.from /\ DOMAIN index.entries = 1 .. Len(index.entries)
          /\ \A k \in 1 .. c.from : start[k] = index.entries[k]
      BY <1>1, <1>2, <3>2, LenProperties
    <3>4. Among(c.rec, start) => Among(c.rec, index.entries)
      BY <1>1, <1>2, <3>3 DEF Among
    <3> QED
      BY <3>4 DEF start
  <2>4. outcome \in {"already", "reused"}
    OBVIOUS
  <2> HIDE DEF outcome
  <2> QED
    BY <1>3, <2>1, <2>2, <2>3, <2>4, EndPublishInv
<1>7. CASE SoundIndex(index) /\ ~Listed(index, c.rec) /\ ~Fits(index.refs, c.rec)
  <2>1. EndPublish(p, "conflict") /\ "conflict" \in Outcomes
    BY <1>7 DEF FetchIndex, Outcomes
  <2>2. ~Among(c.rec, Before(index.entries, c.from + 1))
    BY <1>4, <1>7 DEF Listed
  <2> QED
    BY <1>3, <2>1, <2>2, EndPublishInv
<1>8. CASE SoundIndex(index) /\ ~Listed(index, c.rec) /\ Fits(index.refs, c.rec)
  <2> DEFINE n == [c EXCEPT !.phase = "put", !.seen = index]
  <2>1. publisher' = [publisher EXCEPT ![p] = n]
    BY <1>8 DEF FetchIndex, Inv, Types
  <2>2. n \in PublisherSet
    BY <1>1, <1>2 DEF PublisherSet, MaybeIndex
  <2>3. /\ n.phase = "put" /\ n.seen = index /\ n.rec = c.rec /\ n.from = c.from
        /\ n.tries = c.tries /\ n.outcome = c.outcome
    BY <1>1 DEF PublisherSet
  <2>4. PublisherOK(n, index.entries, uploaded)
    BY <1>1, <1>2, <1>8, <2>3 DEF PublisherOK, Listed
  <2> QED
    BY <1>3, <2>1, <2>2, <2>4, PublisherStep
<1> QED
  BY <1>5, <1>6, <1>7, <1>8

(* A lost race means that the history has grown since it was read.         *)
LEMMA PastIsShorter ==
    ASSUME NEW x \in IndexSet, NEW s \in Seq(Records), x = IndexOf(s),
           NEW y, Past(s, y), y # x
    PROVE  Len(y.entries) < Len(s)
<1>1. /\ y.entries \in Seq(Records) /\ Len(y.entries) \in Nat /\ Len(s) \in Nat
      /\ Len(y.entries) <= Len(s)
  BY LenProperties DEF Past, IndexSet, PrefixOf
<1>2. Len(y.entries) = Len(s) => y.entries = s
  BY <1>1, PrefixSameLength DEF Past
<1> QED
  BY <1>1, <1>2 DEF Past

(* Another entry came first: the next attempt, or the last one lost.       *)
LEMMA PutRefusedInv ==
    ASSUME Inv, NEW p \in Publishers, PutRefused(p)
    PROVE  Inv'
<1> DEFINE c == publisher[p]
<1>1. /\ c \in PublisherSet /\ PublisherOK(c, index.entries, uploaded)
      /\ c.phase = "put"
  BY DEF Inv, Types, PutRefused
<1>2. /\ index \in IndexSet /\ index.entries \in Seq(Records)
      /\ Len(index.entries) \in Nat /\ index = IndexOf(index.entries)
  BY LenProperties DEF Inv, Types, IndexSet, LogOK
<1>3. /\ Past(index.entries, c.seen) /\ index # c.seen
      /\ c.from + c.tries <= Len(c.seen.entries)
      /\ c.from \in Nat /\ c.tries \in Nat /\ c.tries <= CasRetries - 1
      /\ Len(c.seen.entries) \in Nat
  BY <1>1, LenProperties, CursorAssumption
     DEF PublisherOK, PutRefused, IfMatch, PublisherSet, Past, IndexSet
<1>4. c.from + c.tries + 1 <= Len(index.entries)
  BY <1>2, <1>3, PastIsShorter
<1>5. ~Among(c.rec, Before(index.entries, c.from + 1))
  <2>1. c.from + 1 \in 1 .. Len(c.seen.entries) + 1
    <3> DEFINE from == c.from
               tries == c.tries
               l == Len(c.seen.entries)
    <3>1. from \in Nat /\ tries \in Nat /\ l \in Nat /\ from + tries <= l
      BY <1>3
    <3> HIDE DEF from, tries, l
    <3>2. from + 1 \in 1 .. l + 1
      BY <3>1
    <3> QED
      BY <3>2 DEF from, tries, l
  <2>2. PrefixOf(c.seen.entries, index.entries) /\ c.seen.entries \in Seq(Records)
    BY <1>3 DEF Past, IndexSet
  <2> QED
    BY <1>1, <1>2, <2>1, <2>2, AmongIsAccepted DEF PublisherOK
<1>6. UNCHANGED <<authority, replica, lock, worker, faults>>
  BY DEF PutRefused
<1>7. CASE LastTry(c.tries)
  <2>1. EndPublish(p, "exhausted") /\ "exhausted" \in Outcomes
    BY <1>7 DEF PutRefused, Outcomes
  <2>2. Len(index.entries) >= c.from + CasRetries
    BY <1>3, <1>4, <1>7, CursorAssumption DEF LastTry
  <2> QED
    BY <1>5, <1>6, <2>1, <2>2, EndPublishInv
<1>8. CASE ~LastTry(c.tries)
  <2> DEFINE n == [c EXCEPT !.phase = "fetch", !.seen = NoIndex, !.tries = @ + 1]
  <2>1. publisher' = [publisher EXCEPT ![p] = n]
    BY <1>8 DEF PutRefused, Inv, Types
  <2>2. c.tries + 1 \in 0 .. CasRetries - 1
    BY <1>3, <1>8, CursorAssumption DEF LastTry
  <2>3. n \in PublisherSet
    BY <1>1, <2>2 DEF PublisherSet, MaybeIndex
  <2>4. /\ n.phase = "fetch" /\ n.seen = NoIndex /\ n.rec = c.rec /\ n.from = c.from
        /\ n.tries = c.tries + 1 /\ n.outcome = c.outcome
    BY <1>1 DEF PublisherSet
  <2>5. PublisherOK(n, index.entries, uploaded)
    BY <1>1, <1>2, <1>3, <1>4, <2>4 DEF PublisherOK
  <2> QED
    BY <1>6, <2>1, <2>3, <2>5, PublisherStep
<1> QED
  BY <1>7, <1>8

(* The conditional PUT appends one entry to the published history.         *)
LEMMA PutAppends ==
    ASSUME Inv, NEW p \in Publishers, NEW heard \in BOOLEAN, Put(p, heard)
    PROVE  /\ publisher[p].rec \in Records /\ publisher[p].rec \in uploaded
           /\ index' = IndexOf(Append(index.entries, publisher[p].rec))
           /\ index' \in IndexSet
           /\ index'.entries = Append(index.entries, publisher[p].rec)
           /\ ~Accepted(index.entries, publisher[p].rec)
           /\ Fits(RefsAfter(index.entries), publisher[p].rec)
<1> DEFINE c == publisher[p]
<1>1. /\ c \in PublisherSet /\ PublisherOK(c, index.entries, uploaded)
      /\ c.phase = "put" /\ c.seen = index /\ index' = NextIndex(index, c.rec)
  BY DEF Inv, Types, Put, IfMatch
<1>2. index \in IndexSet /\ index = IndexOf(index.entries)
  BY DEF Inv, Types, LogOK
<1>3. index.refs = RefsAfter(index.entries)
  BY <1>2 DEF IndexOf
<1>4. c.rec \in Records /\ c.rec \in uploaded
  BY <1>1 DEF PublisherSet, PublisherOK
<1>5. ~Accepted(index.entries, c.rec) /\ Fits(index.refs, c.rec)
  BY <1>1 DEF PublisherOK
<1> QED
  BY <1>1, <1>2, <1>3, <1>4, <1>5, NextIndexSound

(* The conditional PUT goes through, whether or not its answer arrives.    *)
LEMMA PutInv ==
    ASSUME Inv, NEW p \in Publishers, NEW heard \in BOOLEAN, Put(p, heard)
    PROVE  Inv'
<1> DEFINE c == publisher[p]
           s == index.entries
           t == Append(s, c.rec)
           outcome == IF heard THEN "published" ELSE "unknown"
           n == [NotPublishing EXCEPT !.rec = c.rec, !.from = c.from, !.outcome = outcome]
<1>1. /\ c.rec \in Records /\ c.rec \in uploaded
      /\ index' = IndexOf(t) /\ index' \in IndexSet /\ index'.entries = t
      /\ ~Accepted(s, c.rec) /\ Fits(RefsAfter(s), c.rec)
  BY PutAppends
<1>2. /\ s \in Seq(Records) /\ Len(s) \in Nat /\ DOMAIN s = 1 .. Len(s)
      /\ t \in Seq(Records) /\ PrefixOf(s, t) /\ t # <<>>
      /\ DOMAIN t = 1 .. Len(s) + 1 /\ t[Len(s) + 1] = c.rec
      /\ \A k \in 1 .. Len(s) : t[k] = s[k]
  BY <1>1, PrefixAppend, AppendProperties, LenProperties DEF Inv, Types, IndexSet
<1>3. UNCHANGED <<uploaded, repo, refs, marker, lock, worker, faults>>
  BY DEF Put, replica
<1>4. publisher' = [publisher EXCEPT ![p] = n]
  BY DEF Put, EndPublish
<1>5. n \in PublisherSet
  <2>1. NotPublishing \in PublisherSet /\ c \in PublisherSet
    BY IdlePublisher, EmptyHistory DEF Inv, Types
  <2> QED
    BY <2>1 DEF PublisherSet, Outcomes
<1> HIDE DEF t
<1>6. LogOK(index', uploaded')
  <2>1. Replays(t) /\ OncePerOperation(t)
    BY <1>1, <1>2, ReplaysAppend, OnceAppend DEF Inv, LogOK, t
  <2>2. \A k \in 1 .. Len(s) + 1 : t[k] \in uploaded
    BY <1>1, <1>2 DEF Inv, LogOK
  <2> QED
    BY <1>1, <1>2, <1>3, <2>1, <2>2 DEF LogOK
<1>7. PublisherOK(n, t, uploaded)
  <2>1. /\ c \in PublisherSet /\ PublisherOK(c, s, uploaded)
        /\ c.phase = "put" /\ c.seen = index
    BY DEF Inv, Types, Put, IfMatch
  <2>2. /\ c.from \in Nat /\ c.from <= Len(s) /\ Len(s) <= Len(t) /\ Len(t) \in Nat
        /\ c.from + 1 \in 1 .. Len(s) + 1
    BY <1>2, <2>1, LenProperties DEF PublisherSet, PublisherOK, PrefixOf
  <2>3. Among(c.rec, t)
    BY <1>2 DEF Among
  <2>4. ~Among(c.rec, Before(t, c.from + 1))
    BY <1>1, <1>2, <2>2, AmongIsAccepted
  <2>5. /\ n.phase = "idle" /\ n.seen = NoIndex /\ n.rec = c.rec /\ n.from = c.from
        /\ n.outcome \in {"published", "unknown"}
    BY DEF NotPublishing
  <2> QED
    BY <2>2, <2>3, <2>4, <2>5 DEF PublisherOK
<1>8. \A q \in Publishers : PublisherOK(publisher[q], t, uploaded)
  BY <1>2, PublisherStable DEF Inv, Types
<1>9. \A q \in Publishers : PublisherOK(publisher'[q], t, uploaded)
  BY <1>4, <1>7, <1>8 DEF Inv, Types
<1>10. \A r \in Replicas : ReplicaOK(marker[r], refs[r], t)
  BY <1>2, ReplicaStable DEF Inv, Types
<1>11. \A w \in Workers : WorkerOK(worker[w], t)
  BY <1>2, WorkerStable DEF Inv, Types
<1>12. Types'
  BY <1>1, <1>3, <1>4, <1>5 DEF Inv, Types
<1> QED
  BY <1>1, <1>3, <1>6, <1>9, <1>10, <1>11, <1>12 DEF Inv, Holds, At

(* All steps of a publisher.                                               *)
LEMMA PublicationInv ==
    ASSUME Inv, NEW p \in Publishers, Publication(p)
    PROVE  Inv'
<1>1. ASSUME FailPublish(p) PROVE Inv'
  BY <1>1, AbortPublishInv DEF FailPublish
<1> QED
  BY <1>1, StartPublishInv, FetchIndexInv, PutInv, PutRefusedInv DEF Publication

-----------------------------------------------------------------------------
(* Steps of workers.                                                       *)

(* The lock: what its holder does to the replica concerns no other worker, *)
(* so a step is judged by what it leaves to the next one.                  *)
LEMMA HolderStep ==
    ASSUME Inv, NEW w \in Workers, Holds(w),
           NEW c \in WorkerSet, NEW mk \in MarkerSet, NEW rf \in RefMap,
           NEW lk \in Workers \cup {Free, Stale},
           worker' = [worker EXCEPT ![w] = c],
           marker' = [marker EXCEPT ![At(w)] = mk],
           refs' = [refs EXCEPT ![At(w)] = rf],
           lock' = [lock EXCEPT ![At(w)] = lk],
           repo' \in [Replicas -> {"none", "dir", "bare"}],
           faults' \in 0 .. MaxFaults,
           UNCHANGED <<authority, publisher>>,
           WorkerOK(c, index.entries),
           ReplicaOK(mk, rf, index.entries),
           c.phase \notin {"idle", "lock"} =>
             c.at = At(w) /\ lk = w /\ HolderOK(c, mk, rf)
    PROVE  Inv'
<1> DEFINE r == At(w)
<1>1. UNCHANGED <<index, uploaded, publisher>>
  BY DEF authority
<1>2. r \in Replicas /\ lock[r] = w
  BY DEF Inv, WorkerOK, Holds, At
<1>3. Types'
  BY <1>1 DEF Inv, Types
<1>4. \A q \in Replicas : ReplicaOK(marker'[q], refs'[q], index.entries)
  BY <1>2 DEF Inv, Types
<1>5. \A v \in Workers : WorkerOK(worker'[v], index.entries)
  BY DEF Inv, Types
<1>6. ASSUME NEW v \in Workers, Holds(v)'
      PROVE  lock'[At(v)'] = v /\ HolderOK(worker'[v], marker'[At(v)'], refs'[At(v)'])
  <2>1. CASE v = w
    <3>1. worker'[v] = c /\ At(v)' = c.at
      BY <2>1 DEF Inv, Types, At
    <3>2. c.at = r /\ lk = w /\ HolderOK(c, mk, rf)
      BY <1>6, <3>1 DEF Holds
    <3>3. lock'[r] = lk /\ marker'[r] = mk /\ refs'[r] = rf
      BY <1>2 DEF Inv, Types
    <3> QED
      BY <2>1, <3>1, <3>2, <3>3
  <2>2. CASE v # w
    <3>1. worker'[v] = worker[v] /\ Holds(v)
      BY <1>6, <2>2 DEF Inv, Types, Holds
    <3>2. /\ At(v)' = At(v) /\ At(v) \in Replicas /\ lock[At(v)] = v
          /\ HolderOK(worker[v], marker[At(v)], refs[At(v)])
      BY <3>1 DEF Inv, WorkerOK, Holds, At
    <3>3. At(v) # r
      BY <1>2, <2>2, <3>2
    <3>4. /\ lock'[At(v)] = lock[At(v)] /\ marker'[At(v)] = marker[At(v)]
          /\ refs'[At(v)] = refs[At(v)]
      BY <3>2, <3>3 DEF Inv, Types
    <3> QED
      BY <3>1, <3>2, <3>4
  <2> QED
    BY <2>1, <2>2
<1> QED
  BY <1>1, <1>3, <1>4, <1>5, <1>6 DEF Inv

(* The parts of the invariant about a holder and its replica.              *)
LEMMA HolderKnows ==
    ASSUME Inv, NEW w \in Workers, Holds(w)
    PROVE  /\ worker[w] \in WorkerSet /\ WorkerOK(worker[w], index.entries)
           /\ At(w) \in Replicas /\ lock[At(w)] = w
           /\ marker[At(w)] \in MarkerSet /\ refs[At(w)] \in RefMap
           /\ ReplicaOK(marker[At(w)], refs[At(w)], index.entries)
           /\ HolderOK(worker[w], marker[At(w)], refs[At(w)])
<1>1. At(w) \in Replicas /\ lock[At(w)] = w
  BY DEF Inv, WorkerOK, Holds, At
<1> QED
  BY <1>1 DEF Inv, Types

(* A step that only moves the holder on.                                   *)
LEMMA GotoInv ==
    ASSUME Inv, NEW w \in Workers, Holds(w), NEW phase,
           phase \in {"repo", "init", "observe", "cached", "check", "apply",
                     "refs", "mark", "verify"},
           Goto(w, phase),
           UNCHANGED <<authority, publisher, refs, marker, lock, faults>>,
           repo' \in [Replicas -> {"none", "dir", "bare"}],
           HasTarget([worker[w] EXCEPT !.phase = phase]) => HasTarget(worker[w]),
           HolderOK([worker[w] EXCEPT !.phase = phase], marker[At(w)], refs[At(w)])
    PROVE  Inv'
<1> DEFINE c == [worker[w] EXCEPT !.phase = phase]
<1>1. /\ worker[w] \in WorkerSet /\ WorkerOK(worker[w], index.entries)
      /\ At(w) \in Replicas /\ lock[At(w)] = w
      /\ marker[At(w)] \in MarkerSet /\ refs[At(w)] \in RefMap
      /\ ReplicaOK(marker[At(w)], refs[At(w)], index.entries)
  BY HolderKnows
<1>2. /\ c \in WorkerSet /\ c.at = At(w) /\ c.target = worker[w].target
      /\ c.floor = worker[w].floor /\ c.served = worker[w].served
  BY <1>1 DEF WorkerSet, At
<1>3. WorkerOK(c, index.entries)
  BY <1>1, <1>2 DEF WorkerOK, Holds, At
<1>4. worker' = [worker EXCEPT ![w] = c]
  BY DEF Goto, Inv, Types
<1>5. /\ marker' = [marker EXCEPT ![At(w)] = marker[At(w)]]
      /\ refs' = [refs EXCEPT ![At(w)] = refs[At(w)]]
      /\ lock' = [lock EXCEPT ![At(w)] = w]
      /\ faults' \in 0 .. MaxFaults
  BY <1>1 DEF Inv, Types
<1>6. HolderOK(c, marker[At(w)], refs[At(w)]) /\ w \in Workers \cup {Free, Stale}
  OBVIOUS
<1>7. UNCHANGED <<authority, publisher>>
  OBVIOUS
<1> HIDE DEF c
<1> QED
  BY <1>1, <1>2, <1>3, <1>4, <1>5, <1>6, <1>7, HolderStep

(* A step that ends the command, with the refs it leaves behind.           *)
LEMMA LeaveInv ==
    ASSUME Inv, NEW w \in Workers, Holds(w), Leave(w),
           NEW lk \in {Free, Stale}, lock' = [lock EXCEPT ![At(w)] = lk],
           NEW rf \in RefMap, refs' = [refs EXCEPT ![At(w)] = rf],
           ReplicaOK(marker[At(w)], rf, index.entries),
           UNCHANGED <<authority, publisher, repo, marker>>,
           faults' \in 0 .. MaxFaults
    PROVE  Inv'
<1>1. At(w) \in Replicas /\ marker[At(w)] \in MarkerSet /\ index.entries \in Seq(Records)
  BY HolderKnows DEF Inv, Types, IndexSet
<1>2. marker' = [marker EXCEPT ![At(w)] = marker[At(w)]]
  BY <1>1 DEF Inv, Types
<1>3. NotWorking \in WorkerSet /\ WorkerOK(NotWorking, index.entries)
        /\ NotWorking.phase = "idle"
  BY <1>1, IdleWorker
<1>4. repo' \in [Replicas -> {"none", "dir", "bare"}]
  BY DEF Inv, Types
<1> HIDE DEF NotWorking
<1> QED
  BY <1>1, <1>2, <1>3, <1>4, HolderStep DEF Leave

(* A step of a worker that has no lock and gets none.                      *)
LEMMA OutsideStep ==
    ASSUME Inv, NEW w \in Workers, NEW c \in WorkerSet, c.phase \in {"idle", "lock"},
           worker' = [worker EXCEPT ![w] = c], WorkerOK(c, index.entries),
           UNCHANGED <<authority, publisher, replica, lock, faults>>
    PROVE  Inv'
<1>1. UNCHANGED <<index, uploaded, publisher, repo, refs, marker, lock, faults>>
  BY DEF authority, replica
<1>2. Types'
  BY <1>1 DEF Inv, Types
<1>3. \A v \in Workers : worker'[v] = IF v = w THEN c ELSE worker[v]
  BY DEF Inv, Types
<1>4. \A v \in Workers : WorkerOK(worker'[v], index.entries)
  BY <1>3 DEF Inv
<1>5. \A v \in Workers : Holds(v)' => Holds(v) /\ worker'[v] = worker[v]
  BY <1>3 DEF Holds
<1> QED
  BY <1>1, <1>2, <1>4, <1>5 DEF Inv, At

(* A command begins outside the lock.                                      *)
LEMMA StartInv ==
    ASSUME Inv, NEW w \in Workers, NEW kind \in {"replay", "read"}, NEW r \in Replicas,
           Start(w, kind, r)
    PROVE  Inv'
<1> DEFINE c == [NotWorking EXCEPT !.phase = "lock", !.kind = kind, !.at = r,
                     !.floor = IF kind = "read" THEN Len(index.entries) ELSE 0]
<1>1. index.entries \in Seq(Records) /\ Len(index.entries) \in Nat
  BY LenProperties DEF Inv, Types, IndexSet
<1>2. c \in WorkerSet
  BY <1>1 DEF NotWorking, WorkerSet, MaybeIndex
<1>3. /\ c.phase = "lock" /\ c.at = r /\ c.served = NoIndex
      /\ c.floor <= Len(index.entries)
  BY <1>1 DEF NotWorking
<1>4. WorkerOK(c, index.entries)
  BY <1>3 DEF WorkerOK, HasTarget
<1>5. worker' = [worker EXCEPT ![w] = c]
  BY DEF Start
<1>6. UNCHANGED <<authority, publisher, replica, lock, faults>>
  BY DEF Start
<1> HIDE DEF c
<1> QED
  BY <1>2, <1>3, <1>4, <1>5, <1>6, OutsideStep

(* A command gives up on a held lock.                                      *)
LEMMA LockTimeoutInv ==
    ASSUME Inv, NEW w \in Workers, LockTimeout(w)
    PROVE  Inv'
<1>1. index.entries \in Seq(Records)
  BY DEF Inv, Types, IndexSet
<1>2. UNCHANGED <<authority, publisher, replica, lock, faults>>
  BY DEF LockTimeout
<1> HIDE DEF NotWorking
<1> QED
  BY <1>1, <1>2, IdleWorker, OutsideStep DEF LockTimeout, Leave

(* A free lock has no holder, and becomes its maker's.                     *)
LEMMA AcquireLockInv ==
    ASSUME Inv, NEW w \in Workers, AcquireLock(w)
    PROVE  Inv'
<1> DEFINE r == At(w)
           phase == IF worker[w].kind = "replay" THEN "repo" ELSE "observe"
           c == [worker[w] EXCEPT !.phase = phase]
<1>1. UNCHANGED <<index, uploaded, publisher, repo, refs, marker, faults>>
  BY DEF AcquireLock, authority, replica
<1>2. /\ worker[w] \in WorkerSet /\ WorkerOK(worker[w], index.entries)
      /\ worker[w].phase = "lock" /\ r \in Replicas /\ lock[r] = Free
  BY DEF Inv, Types, AcquireLock, CanLock, WorkerOK, At
<1>3. worker' = [worker EXCEPT ![w] = c] /\ lock' = [lock EXCEPT ![r] = w]
  BY DEF AcquireLock, Goto, Inv, Types
<1>4. /\ c \in WorkerSet /\ c.at = r /\ c.floor = worker[w].floor
      /\ c.served = worker[w].served /\ c.phase = phase /\ c.kind = worker[w].kind
  BY <1>2 DEF WorkerSet, At
<1>5. WorkerOK(c, index.entries)
  BY <1>2, <1>4 DEF WorkerOK, HasTarget
<1>6. HolderOK(c, marker[r], refs[r])
  BY <1>4 DEF HolderOK
<1>7. Types'
  BY <1>1, <1>3, <1>4 DEF Inv, Types
<1>8. \A v \in Workers : worker'[v] = IF v = w THEN c ELSE worker[v]
  BY <1>3 DEF Inv, Types
<1>9. \A v \in Workers : WorkerOK(worker'[v], index.entries)
  BY <1>5, <1>8 DEF Inv
<1>10. ASSUME NEW v \in Workers, Holds(v)'
       PROVE  lock'[At(v)'] = v /\ HolderOK(worker'[v], marker[At(v)'], refs[At(v)'])
  <2>1. CASE v = w
    <3>1. worker'[v] = c /\ At(v)' = r /\ lock'[r] = w
      BY <1>2, <1>3, <1>4, <1>8, <2>1 DEF At, Inv, Types
    <3> QED
      BY <1>6, <2>1, <3>1
  <2>2. CASE v # w
    <3>1. worker'[v] = worker[v] /\ Holds(v) /\ At(v)' = At(v)
      BY <1>8, <1>10, <2>2 DEF Holds, At
    <3>2. /\ At(v) \in Replicas /\ lock[At(v)] = v
          /\ HolderOK(worker[v], marker[At(v)], refs[At(v)])
      BY <3>1, HolderKnows
    <3>3. At(v) # r
      BY <1>2, <3>2, CursorAssumption
    <3> QED
      BY <1>3, <3>1, <3>2, <3>3 DEF Inv, Types
  <2> QED
    BY <2>1, <2>2
<1> QED
  BY <1>1, <1>7, <1>9, <1>10 DEF Inv

(* The learner removes a replica nobody holds.                             *)
LEMMA EvictInv ==
    ASSUME Inv, NEW r \in Replicas, Evict(r)
    PROVE  Inv'
<1>1. /\ UNCHANGED <<index, uploaded, publisher, lock, worker>>
      /\ repo' = [repo EXCEPT ![r] = "none"]
      /\ refs' = [refs EXCEPT ![r] = RefsAfter(<<>>)]
      /\ marker' = [marker EXCEPT ![r] = NoMarker]
      /\ lock[r] = Free /\ faults' \in 0 .. MaxFaults
  BY CursorAssumption DEF Evict, Fault, authority, Inv, Types
<1>2. index.entries \in Seq(Records)
  BY DEF Inv, Types, IndexSet
<1>3. /\ NoMarker \in MarkerSet /\ RefsAfter(<<>>) \in RefMap
      /\ ReplicaOK(NoMarker, RefsAfter(<<>>), index.entries)
  BY <1>2, EmptyReplica, EmptyHistory
<1>4. Types'
  BY <1>1, <1>3 DEF Inv, Types
<1>5. \A q \in Replicas : ReplicaOK(marker'[q], refs'[q], index.entries)
  BY <1>1, <1>3 DEF Inv, Types
<1>6. ASSUME NEW v \in Workers, Holds(v)
      PROVE  lock[At(v)] = v /\ HolderOK(worker[v], marker'[At(v)], refs'[At(v)])
  <2>1. /\ At(v) \in Replicas /\ lock[At(v)] = v
        /\ HolderOK(worker[v], marker[At(v)], refs[At(v)])
    BY <1>6, HolderKnows
  <2>2. At(v) # r
    BY <1>1, <2>1, CursorAssumption
  <2> QED
    BY <1>1, <2>1, <2>2 DEF Inv, Types
<1>7. \A v \in Workers : Holds(v)' <=> Holds(v)
  BY <1>1 DEF Holds
<1>8. \A v \in Workers : At(v)' = At(v)
  BY <1>1 DEF At
<1> QED
  BY <1>1, <1>4, <1>5, <1>6, <1>7, <1>8 DEF Inv

-----------------------------------------------------------------------------
(* Steps of the holder of a lock.                                          *)

(* ensureRepo up to git init.                                              *)
LEMMA EnsureRepoInv ==
    ASSUME Inv, NEW w \in Workers, EnsureRepo(w)
    PROVE  Inv'
<1>1. Holds(w) /\ worker[w].phase = "repo"
  BY DEF EnsureRepo, Holds
<1>2. worker[w] \in WorkerSet /\ At(w) \in Replicas
  BY <1>1, HolderKnows
<1>3. UNCHANGED <<authority, publisher, refs, marker, lock, faults>>
  BY DEF EnsureRepo
<1>4. repo' \in [Replicas -> {"none", "dir", "bare"}]
  BY DEF EnsureRepo, Inv, Types
<1>5. PICK phase \in {"init", "observe", "check"} :
         Goto(w, phase) /\ (phase = "check" => worker[w].kind = "read")
  BY <1>2 DEF EnsureRepo, WorkerSet
<1>6. HasTarget([worker[w] EXCEPT !.phase = phase]) => HasTarget(worker[w])
  BY <1>1, <1>2, <1>5 DEF HasTarget, WorkerSet
<1>7. HolderOK([worker[w] EXCEPT !.phase = phase], marker[At(w)], refs[At(w)])
  BY <1>2 DEF HolderOK, WorkerSet
<1> QED
  BY <1>1, <1>3, <1>4, <1>5, <1>6, <1>7, GotoInv

(* git init; a replay then asks for the index, a read has one already.     *)
LEMMA GitInitInv ==
    ASSUME Inv, NEW w \in Workers, GitInit(w)
    PROVE  Inv'
<1>1. Holds(w) /\ worker[w].phase = "init"
  BY DEF GitInit, Holds
<1>2. worker[w] \in WorkerSet /\ At(w) \in Replicas
  BY <1>1, HolderKnows
<1>3. UNCHANGED <<authority, publisher, refs, marker, lock, faults>>
  BY DEF GitInit
<1>4. repo' \in [Replicas -> {"none", "dir", "bare"}]
  BY DEF GitInit, Inv, Types
<1>5. PICK phase \in {"observe", "check"} :
         Goto(w, phase) /\ (phase = "check" => worker[w].kind = "read")
  BY <1>2 DEF GitInit, WorkerSet
<1>6. HasTarget([worker[w] EXCEPT !.phase = phase]) => HasTarget(worker[w])
  BY <1>1, <1>2, <1>5 DEF HasTarget, WorkerSet
<1>7. HolderOK([worker[w] EXCEPT !.phase = phase], marker[At(w)], refs[At(w)])
  BY <1>2 DEF HolderOK, WorkerSet
<1> QED
  BY <1>1, <1>3, <1>4, <1>5, <1>6, <1>7, GotoInv

(* The look at the index, under the lock: whether the answer is 200 or     *)
(* 304, the target is the index of this moment.                            *)
LEMMA ObserveInv ==
    ASSUME Inv, NEW w \in Workers, Observe(w)
    PROVE  Inv'
<1> DEFINE phase == IF worker[w].kind = "replay" THEN "check"
                    ELSE IF NotModified(At(w)) THEN "cached" ELSE "repo"
           c == [worker[w] EXCEPT !.target = index, !.phase = phase]
<1>1. Holds(w) /\ worker[w].phase = "observe"
  BY DEF Observe, Holds
<1>2. /\ worker[w] \in WorkerSet /\ WorkerOK(worker[w], index.entries)
      /\ At(w) \in Replicas /\ lock[At(w)] = w
      /\ marker[At(w)] \in MarkerSet /\ refs[At(w)] \in RefMap
      /\ ReplicaOK(marker[At(w)], refs[At(w)], index.entries)
  BY <1>1, HolderKnows
<1>3. index \in IndexSet /\ Past(index.entries, index)
  BY PrefixRefl DEF Inv, Types, IndexSet, Past, LogOK
<1>4. worker' = [worker EXCEPT ![w] = c]
  BY DEF Observe, NotModified, Inv, Types
<1>5. UNCHANGED <<authority, publisher, repo, refs, marker, lock, faults>>
  BY DEF Observe, replica
<1>6. /\ c \in WorkerSet /\ c.phase = phase /\ c.at = At(w) /\ c.target = index
      /\ c.floor = worker[w].floor /\ c.served = worker[w].served
  BY <1>2, <1>3 DEF WorkerSet, MaybeIndex, At
<1>7. WorkerOK(c, index.entries)
  BY <1>2, <1>3, <1>6 DEF WorkerOK
<1>8. HolderOK(c, marker[At(w)], refs[At(w)])
  BY <1>6 DEF HolderOK
<1>9. /\ marker' = [marker EXCEPT ![At(w)] = marker[At(w)]]
      /\ refs' = [refs EXCEPT ![At(w)] = refs[At(w)]]
      /\ lock' = [lock EXCEPT ![At(w)] = w]
      /\ faults' \in 0 .. MaxFaults
      /\ repo' \in [Replicas -> {"none", "dir", "bare"}]
  BY <1>2, <1>5 DEF Inv, Types
<1>10. UNCHANGED <<authority, publisher>> /\ w \in Workers \cup {Free, Stale}
  BY <1>5
<1> HIDE DEF c
<1> QED
  BY <1>1, <1>2, <1>4, <1>6, <1>7, <1>8, <1>9, <1>10, HolderStep

(* The index request came back 304: the cached index is still the          *)
(* published one.                                                          *)
LEMMA UseCachedInv ==
    ASSUME Inv, NEW w \in Workers, UseCached(w)
    PROVE  Inv'
<1>1. Holds(w) /\ worker[w].phase = "cached"
  BY DEF UseCached, Holds
<1>2. worker[w] \in WorkerSet /\ At(w) \in Replicas
  BY <1>1, HolderKnows
<1>3. /\ UNCHANGED <<authority, publisher, repo, refs, marker, lock, faults>>
      /\ Goto(w, "verify")
  BY DEF UseCached, replica
<1>4. repo' \in [Replicas -> {"none", "dir", "bare"}]
  BY <1>3 DEF Inv, Types
<1>5. HasTarget(worker[w])
  BY <1>1 DEF HasTarget
<1>6. HolderOK([worker[w] EXCEPT !.phase = "verify"], marker[At(w)], refs[At(w)])
  BY <1>2 DEF HolderOK, WorkerSet
<1> QED
  BY <1>1, <1>3, <1>4, <1>5, <1>6, GotoInv

(* The next entry of a target is the next entry of the history, and the    *)
(* refs it leads to are the history's.                                     *)
NextOf(mk, x) == x.entries[Len(mk.entries) + 1]
Marked(mk, e) == [mk EXCEPT !.entries = Append(@, e), !.refs = Advance(@, e)]

(* The next entry of a target that lies behind a marker extends the marker.*)
LEMMA NextEntry ==
    ASSUME NEW s \in Seq(Records), NEW x, Past(s, x),
           NEW mk \in MarkerSet, PrefixOf(mk.entries, x.entries),
           mk.refs = RefsAfter(mk.entries), Len(mk.entries) < Len(x.entries)
    PROVE  /\ NextOf(mk, x) \in Records /\ NextOf(mk, x) = s[Len(mk.entries) + 1]
           /\ Len(mk.entries) < Len(s)
           /\ Advance(mk.refs, NextOf(mk, x)) \in RefMap
           /\ Advance(mk.refs, NextOf(mk, x)) = RefsAfter(Before(s, Len(mk.entries) + 2))
           /\ PrefixOf(Append(mk.entries, NextOf(mk, x)), x.entries)
           /\ Marked(mk, NextOf(mk, x)) \in MarkerSet
           /\ Marked(mk, NextOf(mk, x)).refs = Advance(mk.refs, NextOf(mk, x))
           /\ Marked(mk, NextOf(mk, x)).entries = Append(mk.entries, NextOf(mk, x))
           /\ ReplicaOK(Marked(mk, NextOf(mk, x)), Advance(mk.refs, NextOf(mk, x)), s)
<1> DEFINE n == Len(mk.entries)
           e == NextOf(mk, x)
           next == Marked(mk, e)
<1>1. /\ x.entries \in Seq(Records) /\ mk.entries \in Seq(Records) /\ n \in Nat
      /\ Len(x.entries) \in Nat /\ Len(s) \in Nat /\ PrefixOf(x.entries, s)
      /\ mk.refs \in RefMap
  BY LenProperties DEF Past, IndexSet, MarkerSet
<1>2. Len(x.entries) <= Len(s) /\ n < Len(s)
  BY <1>1 DEF PrefixOf
<1>3. PrefixOf(mk.entries, s)
  BY <1>1, PrefixTrans
<1>4. /\ e \in Records /\ Append(mk.entries, e) \in Seq(Records)
      /\ PrefixOf(Append(mk.entries, e), x.entries)
  BY <1>1, PrefixNext DEF NextOf
<1>5. e = s[n + 1]
  <2>1. n + 1 \in DOMAIN x.entries
    BY <1>1, LenProperties
  <2> QED
    BY <1>1, <2>1, PrefixElements DEF NextOf
<1>6. Append(mk.entries, e) = Before(s, n + 2) /\ PrefixOf(Append(mk.entries, e), s)
  BY <1>1, <1>2, <1>3, <1>5, PrefixNext
<1>7. /\ Advance(mk.refs, e) = RefsAfter(Append(mk.entries, e))
      /\ Advance(mk.refs, e) \in RefMap
  BY <1>1, <1>4, RefsAfterAppend, AdvanceType
<1>8. /\ next \in MarkerSet /\ next.refs = Advance(mk.refs, e)
      /\ next.entries = Append(mk.entries, e)
  BY <1>4, <1>7 DEF MarkerSet, Marked
<1>9. ReplicaOK(next, Advance(mk.refs, e), s)
  BY <1>6, <1>7, <1>8 DEF ReplicaOK
<1> QED
  BY <1>2, <1>4, <1>5, <1>6, <1>7, <1>8, <1>9

(* Saving the marker for the next entry, with the refs already there.      *)
LEMMA MarkInv ==
    ASSUME Inv, NEW w \in Workers, worker[w].phase \in {"check", "mark"},
           PrefixKept(w), Applied(At(w)) < Len(Target(w).entries),
           refs[At(w)] = Advance(marker[At(w)].refs, Pending(w)),
           Mark(At(w), Pending(w)), Goto(w, "apply"),
           UNCHANGED <<authority, publisher, repo, refs, lock, faults>>
    PROVE  Inv'
<1> DEFINE r == At(w)
           mk == marker[r]
           x == worker[w].target
           next == Marked(mk, NextOf(mk, x))
           c == [worker[w] EXCEPT !.phase = "apply"]
<1>1. /\ worker[w] \in WorkerSet /\ WorkerOK(worker[w], index.entries)
      /\ r \in Replicas /\ lock[r] = w /\ mk \in MarkerSet /\ refs[r] \in RefMap
      /\ ReplicaOK(mk, refs[r], index.entries)
  BY HolderKnows DEF Holds
<1>2. /\ Past(index.entries, x) /\ index.entries \in Seq(Records)
      /\ mk.refs = RefsAfter(mk.entries) /\ Len(mk.entries) < Len(x.entries)
  BY <1>1 DEF WorkerOK, HasTarget, ReplicaOK, Applied, Target, Inv, Types, IndexSet
<1>3. PrefixOf(mk.entries, x.entries)
  BY DEF PrefixKept, PrefixOf, Applied, Target
<1>4. /\ PrefixOf(next.entries, x.entries) /\ next \in MarkerSet
      /\ next.refs = Advance(mk.refs, NextOf(mk, x))
      /\ ReplicaOK(next, next.refs, index.entries)
  BY <1>1, <1>2, <1>3, NextEntry
<1>5. refs[r] = next.refs
  BY <1>4 DEF Pending, NextOf, Target, Applied
<1>6. /\ c \in WorkerSet /\ c.phase = "apply" /\ c.at = r /\ c.target = x
      /\ c.floor = worker[w].floor /\ c.served = worker[w].served
  BY <1>1 DEF WorkerSet, At
<1>7. WorkerOK(c, index.entries)
  BY <1>1, <1>6 DEF WorkerOK, HasTarget
<1>8. HolderOK(c, next, refs[r])
  BY <1>4, <1>5, <1>6 DEF HolderOK
<1>9. worker' = [worker EXCEPT ![w] = c]
  BY DEF Goto, Inv, Types
<1>10. marker' = [marker EXCEPT ![r] = next]
  BY <1>1 DEF Mark, Marked, NextOf, Pending, Target, Applied, Inv, Types
<1>11. /\ refs' = [refs EXCEPT ![r] = refs[r]] /\ lock' = [lock EXCEPT ![r] = w]
       /\ faults' \in 0 .. MaxFaults /\ repo' \in [Replicas -> {"none", "dir", "bare"}]
  BY <1>1 DEF Inv, Types
<1>12. UNCHANGED <<authority, publisher>> /\ w \in Workers \cup {Free, Stale} /\ Holds(w)
  BY DEF Holds
<1> HIDE DEF c, next
<1> QED
  BY <1>1, <1>4, <1>5, <1>6, <1>7, <1>8, <1>9, <1>10, <1>11, <1>12, HolderStep

(* replay's look at the marker and the refs.                               *)
LEMMA CheckStateInv ==
    ASSUME Inv, NEW w \in Workers, CheckState(w)
    PROVE  Inv'
<1>1. /\ worker[w].phase = "check" /\ PrefixKept(w) /\ Goto(w, "apply") /\ Holds(w)
      /\ UNCHANGED <<authority, publisher, repo, refs, lock, faults>>
  BY DEF CheckState, Holds
<1>2. worker[w] \in WorkerSet /\ HasTarget(worker[w])
  BY <1>1, HolderKnows DEF HasTarget
<1>3. CASE refs[At(w)] = marker[At(w)].refs /\ UNCHANGED marker
  <2>1. PrefixOf(marker[At(w)].entries, worker[w].target.entries)
    BY <1>1 DEF PrefixKept, PrefixOf, Applied, Target
  <2>2. HolderOK([worker[w] EXCEPT !.phase = "apply"], marker[At(w)], refs[At(w)])
    BY <1>2, <1>3, <2>1 DEF HolderOK, WorkerSet
  <2>3. repo' \in [Replicas -> {"none", "dir", "bare"}]
    BY <1>1 DEF Inv, Types
  <2>4. UNCHANGED <<authority, publisher, refs, marker, lock, faults>>
    BY <1>1, <1>3
  <2> QED
    BY <1>1, <1>2, <2>2, <2>3, <2>4, GotoInv
<1>4. CASE refs[At(w)] # marker[At(w)].refs /\ IsPending(w) /\ Mark(At(w), Pending(w))
  BY <1>1, <1>4, MarkInv DEF IsPending
<1> QED
  BY <1>3, <1>4 DEF CheckState

(* The next record's pack is imported.                                     *)
LEMMA ImportPackInv ==
    ASSUME Inv, NEW w \in Workers, ImportPack(w)
    PROVE  Inv'
<1>1. /\ Holds(w) /\ worker[w].phase = "apply" /\ Goto(w, "refs")
      /\ Len(marker[At(w)].entries) < Len(worker[w].target.entries)
      /\ UNCHANGED <<authority, publisher, repo, refs, marker, lock, faults>>
  BY DEF ImportPack, Holds, replica, Applied, Target
<1>2. /\ worker[w] \in WorkerSet /\ HasTarget(worker[w])
      /\ HolderOK(worker[w], marker[At(w)], refs[At(w)])
  BY <1>1, HolderKnows DEF HasTarget
<1>3. repo' \in [Replicas -> {"none", "dir", "bare"}]
  BY <1>1 DEF Inv, Types
<1>4. HolderOK([worker[w] EXCEPT !.phase = "refs"], marker[At(w)], refs[At(w)])
  BY <1>1, <1>2 DEF HolderOK, WorkerSet
<1> QED
  BY <1>1, <1>2, <1>3, <1>4, GotoInv

(* What the holder has in its hands when it moves the refs.                *)
LEMMA AtRefs ==
    ASSUME Inv, NEW w \in Workers, worker[w].phase \in {"refs", "mark"}
    PROVE  LET mk == marker[At(w)]
               n == Len(mk.entries)
           IN  /\ index.entries \in Seq(Records) /\ n \in Nat
               /\ n < Len(index.entries) /\ n < Len(Target(w).entries)
               /\ PrefixOf(mk.entries, Target(w).entries)
               /\ mk.entries = Before(index.entries, n + 1)
               /\ mk.refs = RefsAfter(mk.entries) /\ mk.refs \in RefMap
               /\ Pending(w) \in Records /\ Pending(w) = index.entries[n + 1]
               /\ Advance(mk.refs, Pending(w)) \in RefMap
               /\ Advance(mk.refs, Pending(w)) = RefsAfter(Before(index.entries, n + 2))
               /\ worker[w].phase = "refs" => refs[At(w)] = mk.refs
               /\ worker[w].phase = "mark" => refs[At(w)] = Advance(mk.refs, Pending(w))
<1> DEFINE mk == marker[At(w)]
           rf == refs[At(w)]
           x == Target(w)
           s == index.entries
<1>1. /\ WorkerOK(worker[w], s) /\ mk \in MarkerSet /\ ReplicaOK(mk, rf, s)
      /\ HolderOK(worker[w], mk, rf)
  BY HolderKnows DEF Holds
<1>2. /\ s \in Seq(Records) /\ Past(s, x) /\ PrefixOf(mk.entries, x.entries)
      /\ Len(mk.entries) < Len(x.entries)
  BY <1>1 DEF WorkerOK, HolderOK, HasTarget, Target, Inv, Types, IndexSet
<1>3. /\ mk.refs = RefsAfter(mk.entries) /\ mk.refs \in RefMap
      /\ Len(mk.entries) \in Nat /\ mk.entries = Before(s, Len(mk.entries) + 1)
  BY <1>1, LenProperties DEF ReplicaOK, PrefixOf, MarkerSet
<1>4. /\ worker[w].phase = "refs" => rf = mk.refs
      /\ worker[w].phase = "mark" => rf = Advance(mk.refs, NextOf(mk, x))
  BY <1>1 DEF HolderOK, NextOf, Target
<1>5. Pending(w) = NextOf(mk, x)
  BY DEF Pending, NextOf, Applied
<1>6. /\ NextOf(mk, x) \in Records /\ NextOf(mk, x) = s[Len(mk.entries) + 1]
      /\ Len(mk.entries) < Len(s)
      /\ Advance(mk.refs, NextOf(mk, x)) \in RefMap
      /\ Advance(mk.refs, NextOf(mk, x)) = RefsAfter(Before(s, Len(mk.entries) + 2))
  <2> HIDE DEF mk, x, s
  <2> QED
    BY <1>1, <1>2, <1>3, NextEntry
<1> QED
  BY <1>2, <1>3, <1>4, <1>5, <1>6

(* One ref transaction.                                                    *)
LEMMA UpdateRefsInv ==
    ASSUME Inv, NEW w \in Workers, UpdateRefs(w)
    PROVE  Inv'
<1> DEFINE r == At(w)
           mk == marker[r]
           rf == Advance(mk.refs, Pending(w))
           c == [worker[w] EXCEPT !.phase = "mark"]
<1>1. /\ Holds(w) /\ worker[w].phase = "refs" /\ Goto(w, "mark")
      /\ UNCHANGED <<authority, publisher, repo, marker, lock, faults>>
  BY DEF UpdateRefs, Holds
<1>2. /\ worker[w] \in WorkerSet /\ WorkerOK(worker[w], index.entries)
      /\ r \in Replicas /\ lock[r] = w /\ mk \in MarkerSet
      /\ ReplicaOK(mk, refs[r], index.entries) /\ HolderOK(worker[w], mk, refs[r])
  BY <1>1, HolderKnows
<1>3. /\ Len(mk.entries) < Len(index.entries) /\ rf \in RefMap /\ refs[r] = mk.refs
      /\ rf = RefsAfter(Before(index.entries, Len(mk.entries) + 2))
  BY <1>1, AtRefs
<1>4. ReplicaOK(mk, rf, index.entries)
  BY <1>2, <1>3 DEF ReplicaOK
<1>5. /\ c \in WorkerSet /\ c.phase = "mark" /\ c.at = r /\ c.target = worker[w].target
      /\ c.floor = worker[w].floor /\ c.served = worker[w].served
  BY <1>2 DEF WorkerSet, At
<1>6. WorkerOK(c, index.entries)
  BY <1>1, <1>2, <1>5 DEF WorkerOK, HasTarget
<1>7. HolderOK(c, mk, rf)
  BY <1>1, <1>2, <1>5 DEF HolderOK, Pending, Target, Applied
<1>8. worker' = [worker EXCEPT ![w] = c]
  BY <1>1 DEF Goto, Inv, Types
<1>9. refs' = [refs EXCEPT ![r] = rf]
  BY <1>2, <1>3 DEF UpdateRefs, Inv, Types
<1>10. /\ marker' = [marker EXCEPT ![r] = mk] /\ lock' = [lock EXCEPT ![r] = w]
       /\ faults' \in 0 .. MaxFaults /\ repo' \in [Replicas -> {"none", "dir", "bare"}]
       /\ w \in Workers \cup {Free, Stale} /\ UNCHANGED <<authority, publisher>>
  BY <1>1, <1>2 DEF Inv, Types
<1> HIDE DEF c, rf
<1> QED
  BY <1>1, <1>2, <1>3, <1>4, <1>5, <1>6, <1>7, <1>8, <1>9, <1>10, HolderStep

(* The marker follows the refs.                                            *)
LEMMA SaveMarkerInv ==
    ASSUME Inv, NEW w \in Workers, SaveMarker(w)
    PROVE  Inv'
<1>1. worker[w].phase = "mark"
  BY DEF SaveMarker
<1>2. /\ PrefixKept(w) /\ Applied(At(w)) < Len(Target(w).entries)
      /\ refs[At(w)] = Advance(marker[At(w)].refs, Pending(w))
  BY <1>1, AtRefs DEF PrefixKept, Applied, PrefixOf
<1> QED
  BY <1>1, <1>2, MarkInv DEF SaveMarker

(* Caught up: the marker's refs are the target's.                          *)
LEMMA FinishReplayInv ==
    ASSUME Inv, NEW w \in Workers, FinishReplay(w)
    PROVE  Inv'
<1> DEFINE r == At(w)
           mk == marker[r]
           x == worker[w].target
           next == [mk EXCEPT !.refs = x.refs, !.index = x]
           c == [worker[w] EXCEPT !.phase = "verify"]
<1>1. /\ Holds(w) /\ worker[w].phase = "apply" /\ Len(mk.entries) = Len(x.entries)
      /\ UNCHANGED <<authority, publisher, repo, refs, faults>>
  BY DEF FinishReplay, Holds, CaughtUp, Applied, Target
<1>2. /\ worker[w] \in WorkerSet /\ WorkerOK(worker[w], index.entries)
      /\ r \in Replicas /\ lock[r] = w /\ mk \in MarkerSet /\ refs[r] \in RefMap
      /\ ReplicaOK(mk, refs[r], index.entries) /\ HolderOK(worker[w], mk, refs[r])
  BY <1>1, HolderKnows
<1>3. /\ Past(index.entries, x) /\ PrefixOf(mk.entries, x.entries) /\ refs[r] = mk.refs
      /\ mk.entries \in Seq(Records) /\ x.entries \in Seq(Records) /\ x \in IndexSet
      /\ index.entries \in Seq(Records)
  BY <1>1, <1>2 DEF WorkerOK, HasTarget, HolderOK, MarkerSet, Past, IndexSet, Inv, Types
<1>4. mk.entries = x.entries
  BY <1>1, <1>3, PrefixSameLength
<1>5. x.refs = RefsAfter(x.entries)
  BY <1>3 DEF Past, IndexOf
<1>6. x.refs = mk.refs
  BY <1>2, <1>4, <1>5 DEF ReplicaOK
<1>7. /\ next \in MarkerSet /\ next.refs = mk.refs /\ next.entries = mk.entries
  BY <1>2, <1>3, <1>6 DEF MarkerSet, MaybeIndex
<1>8. ReplicaOK(next, refs[r], index.entries)
  BY <1>2, <1>3, <1>7 DEF ReplicaOK
<1>9. marker' = [marker EXCEPT ![r] = next]
  BY <1>2 DEF FinishReplay, Target, Inv, Types
<1>10. /\ refs' = [refs EXCEPT ![r] = refs[r]]
       /\ faults' \in 0 .. MaxFaults /\ repo' \in [Replicas -> {"none", "dir", "bare"}]
       /\ UNCHANGED <<authority, publisher>>
  BY <1>1, <1>2 DEF Inv, Types
<1>11. CASE worker[w].kind = "replay"
  <2>1. worker' = [worker EXCEPT ![w] = NotWorking] /\ lock' = [lock EXCEPT ![r] = Free]
    BY <1>11 DEF FinishReplay, Leave, Release
  <2>2. NotWorking \in WorkerSet /\ WorkerOK(NotWorking, index.entries)
          /\ NotWorking.phase = "idle"
    BY <1>3, IdleWorker
  <2>3. Free \in Workers \cup {Free, Stale}
    OBVIOUS
  <2> HIDE DEF NotWorking, next
  <2> QED
    BY <1>1, <1>2, <1>7, <1>8, <1>9, <1>10, <2>1, <2>2, <2>3, HolderStep
<1>12. CASE worker[w].kind # "replay"
  <2>1. worker' = [worker EXCEPT ![w] = c] /\ lock' = [lock EXCEPT ![r] = w]
    BY <1>2, <1>12 DEF FinishReplay, Goto, Inv, Types
  <2>2. /\ c \in WorkerSet /\ c.phase = "verify" /\ c.at = r /\ c.target = x
        /\ c.floor = worker[w].floor /\ c.served = worker[w].served
    BY <1>2 DEF WorkerSet, At
  <2>3. WorkerOK(c, index.entries)
    BY <1>1, <1>2, <2>2 DEF WorkerOK, HasTarget
  <2>4. HolderOK(c, next, refs[r])
    BY <2>2 DEF HolderOK
  <2>5. w \in Workers \cup {Free, Stale}
    OBVIOUS
  <2> HIDE DEF c, next
  <2> QED
    BY <1>1, <1>2, <1>7, <1>8, <1>9, <1>10, <2>1, <2>2, <2>3, <2>4, <2>5, HolderStep
<1> QED
  BY <1>11, <1>12

(* What a read serves is the target it has worked towards.                 *)
LEMMA ServeInv ==
    ASSUME Inv, NEW w \in Workers, Serve(w)
    PROVE  Inv'
<1> DEFINE r == At(w)
           x == worker[w].target
           c == [NotWorking EXCEPT !.served = x, !.floor = worker[w].floor]
<1>1. /\ Holds(w) /\ worker[w].phase = "verify"
      /\ worker' = [worker EXCEPT ![w] = c] /\ lock' = [lock EXCEPT ![r] = Free]
      /\ UNCHANGED <<authority, publisher, repo, refs, marker, faults>>
  BY DEF Serve, Holds, Target, Release, replica
<1>2. /\ worker[w] \in WorkerSet /\ WorkerOK(worker[w], index.entries)
      /\ r \in Replicas /\ marker[r] \in MarkerSet /\ refs[r] \in RefMap
      /\ ReplicaOK(marker[r], refs[r], index.entries)
  BY <1>1, HolderKnows
<1>3. /\ Past(index.entries, x) /\ worker[w].floor <= Len(x.entries)
      /\ worker[w].floor <= Len(index.entries) /\ x \in IndexSet
  BY <1>1, <1>2 DEF WorkerOK, HasTarget, Past
<1>4. /\ c \in WorkerSet /\ c.phase = "idle" /\ c.served = x
      /\ c.floor = worker[w].floor
  BY <1>2, <1>3 DEF NotWorking, WorkerSet, MaybeIndex
<1>5. WorkerOK(c, index.entries)
  BY <1>3, <1>4 DEF WorkerOK, HasTarget
<1>6. /\ refs' = [refs EXCEPT ![r] = refs[r]] /\ marker' = [marker EXCEPT ![r] = marker[r]]
      /\ faults' \in 0 .. MaxFaults /\ repo' \in [Replicas -> {"none", "dir", "bare"}]
      /\ UNCHANGED <<authority, publisher>> /\ Free \in Workers \cup {Free, Stale}
  BY <1>1, <1>2 DEF Inv, Types
<1> HIDE DEF c
<1> QED
  BY <1>1, <1>2, <1>4, <1>5, <1>6, HolderStep

(* A command that ends early leaves the replica as it is.                  *)
LEMMA GiveUpInv ==
    ASSUME Inv, NEW w \in Workers, Holds(w), Leave(w),
           NEW lk \in {Free, Stale}, lock' = [lock EXCEPT ![At(w)] = lk],
           UNCHANGED <<authority, publisher, replica>>, faults' \in 0 .. MaxFaults
    PROVE  Inv'
<1>1. /\ At(w) \in Replicas /\ refs[At(w)] \in RefMap
      /\ ReplicaOK(marker[At(w)], refs[At(w)], index.entries)
  BY HolderKnows
<1>2. /\ UNCHANGED <<authority, publisher, repo, marker>>
      /\ refs' = [refs EXCEPT ![At(w)] = refs[At(w)]]
  BY <1>1 DEF replica, Inv, Types
<1> QED
  BY <1>1, <1>2, LeaveInv

(* An error return for a state the client will not touch.                  *)
LEMMA RejectInv ==
    ASSUME Inv, NEW w \in Workers, Reject(w)
    PROVE  Inv'
<1>1. Holds(w)
  BY DEF Reject, Holds
<1>2. /\ Leave(w) /\ lock' = [lock EXCEPT ![At(w)] = Free] /\ Free \in {Free, Stale}
      /\ UNCHANGED <<authority, publisher, replica>> /\ faults' \in 0 .. MaxFaults
  BY DEF Reject, Release, Inv, Types
<1> QED
  BY <1>1, <1>2, GiveUpInv

(* Faults are bounded.                                                     *)
LEMMA FaultType ==
    ASSUME Inv, Fault
    PROVE  faults' \in 0 .. MaxFaults
BY CursorAssumption DEF Fault, Inv, Types

(* A failed step releases the lock.                                        *)
LEMMA FailInv ==
    ASSUME Inv, NEW w \in Workers, Fail(w)
    PROVE  Inv'
<1>1. /\ Holds(w) /\ Leave(w) /\ lock' = [lock EXCEPT ![At(w)] = Free]
      /\ Free \in {Free, Stale} /\ UNCHANGED <<authority, publisher, replica>>
      /\ faults' \in 0 .. MaxFaults
  BY FaultType DEF Fail, Release
<1> QED
  BY <1>1, GiveUpInv

(* A killed process leaves its lock file.                                  *)
LEMMA KillInv ==
    ASSUME Inv, NEW w \in Workers, Kill(w)
    PROVE  Inv'
<1>1. /\ Holds(w) /\ Leave(w) /\ lock' = [lock EXCEPT ![At(w)] = Stale]
      /\ Stale \in {Free, Stale} /\ UNCHANGED <<authority, publisher, replica>>
      /\ faults' \in 0 .. MaxFaults
  BY FaultType DEF Kill
<1> QED
  BY <1>1, GiveUpInv

(* A torn transaction leaves each ref at the marker or at the next record. *)
LEMMA TornRefs ==
    ASSUME Inv, NEW w \in Workers, worker[w].phase = "refs",
           NEW some \in SUBSET DOMAIN UpdatesOf[Pending(w)]
    PROVE  LET mk == marker[At(w)]
               rf == [ref \in RefNames |->
                        IF ref \in some THEN UpdatesOf[Pending(w)][ref].new
                        ELSE refs[At(w)][ref]]
           IN  /\ rf \in RefMap
               /\ some \subseteq RefNames
               /\ rf = [ref \in RefNames |->
                          IF ref \in some
                          THEN RefsAfter(Before(index.entries, Len(mk.entries) + 2))[ref]
                          ELSE mk.refs[ref]]
<1> DEFINE mk == marker[At(w)]
           e == Pending(w)
           after == RefsAfter(Before(index.entries, Len(mk.entries) + 2))
<1>1. /\ e \in Records /\ mk.refs \in RefMap /\ after = Advance(mk.refs, e)
      /\ after \in RefMap /\ refs[At(w)] = mk.refs
  BY AtRefs
<1>2. some \subseteq RefNames
  BY <1>1, RecordAssumption DEF IsRecord
<1>3. \A ref \in some : after[ref] = UpdatesOf[e][ref].new
  BY <1>1, <1>2 DEF Advance
<1> HIDE DEF mk, e, after
<1>4. [ref \in RefNames |-> IF ref \in some THEN UpdatesOf[e][ref].new
                             ELSE refs[At(w)][ref]]
        = [ref \in RefNames |-> IF ref \in some THEN after[ref] ELSE mk.refs[ref]]
  BY <1>1, <1>3
<1>5. [ref \in RefNames |-> IF ref \in some THEN after[ref] ELSE mk.refs[ref]] \in RefMap
  BY <1>1 DEF RefMap
<1> QED
  BY <1>2, <1>4, <1>5 DEF mk, e, after

(* Git dies inside a ref transaction: some refs have moved, the marker has *)
(* not.                                                                    *)
LEMMA TornUpdateInv ==
    ASSUME Inv, NEW w \in Workers, TornUpdate(w)
    PROVE  Inv'
<1> DEFINE mk == marker[At(w)]
<1>1. /\ Holds(w) /\ worker[w].phase = "refs" /\ Leave(w)
      /\ lock' = [lock EXCEPT ![At(w)] = Free] /\ Free \in {Free, Stale}
      /\ UNCHANGED <<authority, publisher, repo, marker>> /\ faults' \in 0 .. MaxFaults
  BY FaultType DEF TornUpdate, Holds, Release
<1>2. PICK some \in SUBSET DOMAIN UpdatesOf[Pending(w)] :
         refs' = [refs EXCEPT ![At(w)] =
           [ref \in RefNames |-> IF ref \in some THEN UpdatesOf[Pending(w)][ref].new
                                 ELSE refs[At(w)][ref]]]
  BY DEF TornUpdate
<1> DEFINE after == RefsAfter(Before(index.entries, Len(mk.entries) + 2))
           rf == [ref \in RefNames |-> IF ref \in some THEN after[ref] ELSE mk.refs[ref]]
<1>3. rf \in RefMap /\ refs' = [refs EXCEPT ![At(w)] = rf]
  BY <1>1, <1>2, TornRefs
<1>4. ReplicaOK(mk, rf, index.entries)
  <2>1. ReplicaOK(mk, refs[At(w)], index.entries)
    BY <1>1, HolderKnows
  <2>2. Len(mk.entries) < Len(index.entries)
    BY <1>1, AtRefs
  <2>3. \A ref \in RefNames : rf[ref] \in {mk.refs[ref], after[ref]}
    OBVIOUS
  <2> QED
    BY <2>1, <2>2, <2>3 DEF ReplicaOK
<1> HIDE DEF rf
<1> QED
  BY <1>1, <1>3, <1>4, LeaveInv

-----------------------------------------------------------------------------
(* Every step keeps the invariant.                                         *)
LEMMA NextInv == Inv /\ [Next]_vars => Inv'
<1> SUFFICES ASSUME Inv, [Next]_vars PROVE Inv'
  OBVIOUS
<1>1. CASE UNCHANGED vars
  <2>1. UNCHANGED <<index, uploaded, publisher, repo, refs, marker, lock, worker, faults>>
    BY <1>1 DEF vars, authority, replica
  <2> QED
    BY <2>1 DEF Inv, Types, Holds, At
<1>2. CASE \E rec \in Records : Upload(rec)
  BY <1>2, UploadInv
<1>3. CASE \E p \in Publishers : Publication(p)
  BY <1>3, PublicationInv
<1>4. CASE \E w \in Workers, kind \in {"replay", "read"}, r \in Replicas : Start(w, kind, r)
  BY <1>4, StartInv
<1>5. ASSUME NEW w \in Workers, Proceed(w) PROVE Inv'
  BY <1>5, AcquireLockInv, EnsureRepoInv, GitInitInv, ObserveInv, UseCachedInv,
     CheckStateInv, ImportPackInv, UpdateRefsInv, SaveMarkerInv, FinishReplayInv,
     ServeInv, RejectInv DEF Proceed
<1>6. ASSUME NEW w \in Workers, LockTimeout(w) \/ Fail(w) \/ TornUpdate(w) \/ Kill(w)
      PROVE  Inv'
  BY <1>6, LockTimeoutInv, FailInv, TornUpdateInv, KillInv
<1>7. CASE \E r \in Replicas : Evict(r)
  BY <1>7, EvictInv
<1> QED
  BY <1>1, <1>2, <1>3, <1>4, <1>5, <1>6, <1>7 DEF Next

(* The invariant of the client, under any interleaving of publishers,      *)
(* replays, reads, uploads, failures, kills and evictions.                 *)
THEOREM Invariance == Spec => []Inv
BY InitInv, NextInv, PTL DEF Spec

(* The .lock files a killed git leaves are those of refs of its record;    *)
(* only an eviction removes them.  Nothing else looks at their types.      *)
RefLocksTyped == refLocks \in [Replicas -> SUBSET RefNames]

LEMMA RefLocksStep ==
    ASSUME Inv, RefLocksTyped, [Next]_vars
    PROVE  RefLocksTyped'
<1>1. CASE \E w \in Workers : TornUpdate(w)
  <2>1. PICK w \in Workers : TornUpdate(w)
    BY <1>1
  <2>2. PICK left \in SUBSET DOMAIN UpdatesOf[Pending(w)] :
           refLocks' = [refLocks EXCEPT ![At(w)] = @ \cup left]
    BY <2>1 DEF TornUpdate
  <2>3. Holds(w) /\ worker[w].phase = "refs"
    BY <2>1 DEF TornUpdate, Holds
  <2>4. Pending(w) \in Records
    BY <2>3, AtRefs
  <2>5. DOMAIN UpdatesOf[Pending(w)] \subseteq RefNames
    BY <2>4, RecordAssumption DEF IsRecord
  <2>6. left \subseteq RefNames
    BY <2>5
  <2> HIDE DEF Pending
  <2>7. refLocks[At(w)] \cup left \subseteq RefNames \/ At(w) \notin Replicas
    BY <2>6 DEF RefLocksTyped
  <2> QED
    BY <2>2, <2>7 DEF RefLocksTyped
<1>2. CASE \E r \in Replicas : Evict(r)
  BY <1>2 DEF Evict, RefLocksTyped
<1>3. CASE UNCHANGED vars \/ \E rec \in Records : Upload(rec)
  BY <1>3 DEF vars, replica, Upload, RefLocksTyped
<1>4. ASSUME NEW p \in Publishers, Publication(p)
      PROVE  UNCHANGED refLocks
  BY <1>4 DEF Publication, StartPublish, FetchIndex, Put, PutRefused, FailPublish, replica
<1>5. ASSUME NEW w \in Workers, NEW kind, NEW r \in Replicas, Start(w, kind, r)
      PROVE  UNCHANGED refLocks
  BY <1>5 DEF Start, replica
<1>6. ASSUME NEW w \in Workers, Proceed(w) \/ LockTimeout(w) \/ Fail(w) \/ Kill(w)
      PROVE  UNCHANGED refLocks
  <2>1. CASE AcquireLock(w) \/ LockTimeout(w) \/ Fail(w) \/ Kill(w) \/ Reject(w)
    BY <2>1 DEF AcquireLock, LockTimeout, Fail, Kill, Reject, replica
  <2>2. CASE EnsureRepo(w) \/ GitInit(w) \/ Observe(w) \/ UseCached(w) \/ CheckState(w)
    BY <2>2 DEF EnsureRepo, GitInit, Observe, UseCached, CheckState, replica
  <2>3. CASE ImportPack(w) \/ UpdateRefs(w) \/ SaveMarker(w) \/ FinishReplay(w) \/ Serve(w)
    BY <2>3 DEF ImportPack, UpdateRefs, SaveMarker, FinishReplay, Serve, replica
  <2> QED
    BY <1>6, <2>1, <2>2, <2>3 DEF Proceed
<1>7. UNCHANGED refLocks => RefLocksTyped'
  BY DEF RefLocksTyped
<1> QED
  BY <1>1, <1>2, <1>3, <1>4, <1>5, <1>6, <1>7 DEF Next

LEMMA RefLocksAlwaysTyped == Spec => []RefLocksTyped
<1>1. Init => RefLocksTyped
  BY DEF Init, RefLocksTyped
<1> QED
  BY <1>1, RefLocksStep, Invariance, PTL DEF Spec

-----------------------------------------------------------------------------
(* What the runs check, for every value of the constants.                  *)

(* Types, and mutual exclusion: a command past its lock holds the lock of  *)
(* its replica.                                                            *)
THEOREM TypeCorrectness == Spec => []TypeOK
<1>1. Inv /\ RefLocksTyped => TypeOK
  <2> SUFFICES ASSUME Inv, RefLocksTyped PROVE TypeOK
    OBVIOUS
  <2>1. IsIndex(index) /\ uploaded \subseteq Records
    BY DEF Inv, Types, IndexSet, LogOK, IsIndex
  <2>2. ASSUME NEW p \in Publishers
        PROVE  /\ publisher[p].phase \in {"idle", "fetch", "put"}
               /\ publisher[p].rec \in Records
               /\ publisher[p].tries \in 0 .. CasRetries - 1
               /\ publisher[p].phase = "put" <=> publisher[p].seen # NoIndex
    <3>1. NoIndex \notin IndexSet
      BY CursorAssumption DEF IndexSet
    <3>2. publisher[p] \in PublisherSet /\ PublisherOK(publisher[p], index.entries, uploaded)
      BY DEF Inv, Types
    <3> QED
      BY <3>1, <3>2 DEF PublisherSet, PublisherOK, Past
  <2>3. ASSUME NEW r \in Replicas
        PROVE  /\ repo[r] \in {"none", "dir", "bare"} /\ refs[r] \in RefMap
               /\ marker[r].entries \in Seq(Records) /\ marker[r].refs \in RefMap
               /\ lock[r] \in Workers \cup {Free, Stale} /\ refLocks[r] \subseteq RefNames
    BY DEF Inv, Types, MarkerSet, RefLocksTyped
  <2>4. faults \in 0 .. MaxFaults /\ \A w \in Workers : Holds(w) => lock[At(w)] = w
    BY DEF Inv, Types
  <2> QED
    BY <2>1, <2>2, <2>3, <2>4 DEF TypeOK
<1> QED
  BY <1>1, Invariance, RefLocksAlwaysTyped, PTL

(* The published history can be replayed from nothing, has each operation  *)
(* once, lists only uploaded records, and carries its own refs, however    *)
(* publishers race.                                                        *)
THEOREM LogIsSound == Spec => []LogSound
<1>1. Inv => LogSound
  <2> SUFFICES ASSUME Inv PROVE LogSound
    OBVIOUS
  <2>1. index.refs = RefsAfter(index.entries) /\ index.generation = Len(index.entries) - 1
    BY DEF Inv, LogOK, IndexOf
  <2> QED
    BY <2>1 DEF Inv, LogOK, LogSound, SoundIndex
<1> QED
  BY <1>1, Invariance, PTL

(* A publisher's "published" or "already published" is never taken back.   *)
THEOREM PublicationIsFinal == Spec => []PublishedIsListed
<1>1. Inv => PublishedIsListed
  BY DEF Inv, PublisherOK, PublishedIsListed
<1> QED
  BY <1>1, Invariance, PTL

(* A publish of a record that was listed when it began reports just that.  *)
THEOREM RetriesAreIdempotent == Spec => []RetryAnswersAlready
<1>1. Inv => RetryAnswersAlready
  BY DEF Inv, PublisherOK, RetryAnswersAlready
<1> QED
  BY <1>1, Invariance, PTL

(* A publish gives up only after CasRetries entries of others.             *)
THEOREM LosersLostToOthers == Spec => []ExhaustedByOthers
<1>1. Inv => ExhaustedByOthers
  BY DEF Inv, PublisherOK, ExhaustedByOthers
<1> QED
  BY <1>1, Invariance, PTL

(* Marker and refs of a replica are at most one record apart, at the same  *)
(* place of the history, whoever was stopped where.                        *)
THEOREM MarkersFollowRefs == Spec => []MarkerFollowsRefs
<1>1. Inv => MarkerFollowsRefs
  BY DEF Inv, ReplicaOK, PrefixOf, MarkerFollowsRefs, Applied
<1> QED
  BY <1>1, Invariance, PTL

(* A read never serves anything older than what was published when it      *)
(* began.                                                                  *)
THEOREM ReadsServeFreshHistory == Spec => []ReadsAreFresh
<1>1. Inv => ReadsAreFresh
  <2> SUFFICES ASSUME Inv, NEW w \in Workers, worker[w].served # NoIndex
               PROVE  LET x == worker[w].served
                      IN  /\ worker[w].floor <= Len(x.entries)
                          /\ Len(x.entries) <= Len(index.entries)
                          /\ x.entries = Before(index.entries, Len(x.entries) + 1)
                          /\ x.refs = RefsAfter(x.entries)
    BY DEF ReadsAreFresh
  <2> DEFINE x == worker[w].served
  <2>1. Past(index.entries, x) /\ worker[w].floor <= Len(x.entries)
    BY DEF Inv, WorkerOK
  <2>2. x.refs = RefsAfter(x.entries)
    BY <2>1 DEF Past, IndexOf
  <2> QED
    BY <2>1, <2>2 DEF Past, PrefixOf
<1> QED
  BY <1>1, Invariance, PTL

-----------------------------------------------------------------------------
(* The refinement of PublishedLog.                                         *)

(* PublishedLog instantiates the same records and refs.                    *)
LEMMA PublishedOperators ==
    /\ \A entries : Published!RefsAfter(entries) = RefsAfter(entries)
    /\ \A map, rec : Published!Fits(map, rec) = Fits(map, rec)
    /\ \A entries, rec : Published!Accepted(entries, rec) = Accepted(entries, rec)
    /\ \A entries, k : Published!Before(entries, k) = Before(entries, k)
BY DEF Published!RefsAfter, RefsAfter, Published!Tip, Tip, Published!MovedBy, MovedBy,
       Published!Max, Max, Published!Fits, Fits, Published!Accepted, Accepted,
       Published!Before, Before

(* The seeded history is where the promise begins.                         *)
LEMMA PublishedInit == Init => Published!Init
<1> SUFFICES ASSUME Init PROVE Published!Init
  OBVIOUS
<1>1. index.entries = <<FirstRecord>> /\ refs = [r \in Replicas |-> RefsAfter(<<>>)]
  BY SeedIndex DEF Init
<1> QED
  BY <1>1, PublishedOperators DEF Published!Init

(* The conditional PUT publishes.                                          *)
LEMMA PutPublishes ==
    ASSUME Inv, NEW p \in Publishers, NEW heard \in BOOLEAN, Put(p, heard)
    PROVE  Published!Next
<1> DEFINE rec == publisher[p].rec
<1>1. /\ rec \in Records /\ index'.entries = Append(index.entries, rec)
      /\ ~Accepted(index.entries, rec) /\ Fits(RefsAfter(index.entries), rec)
  BY PutAppends
<1>2. UNCHANGED refs
  BY DEF Put, replica
<1>3. Published!Publish(rec)
  BY <1>1, <1>2, PublishedOperators DEF Published!Publish
<1> QED
  BY <1>1, <1>3 DEF Published!Next

(* git update-ref installs the next record ...                             *)
LEMMA UpdateInstalls ==
    ASSUME Inv, NEW w \in Workers, UpdateRefs(w)
    PROVE  Published!Next
<1> DEFINE r == At(w)
           mk == marker[r]
           k == Len(mk.entries) + 1
<1>1. worker[w].phase = "refs" /\ Holds(w) /\ UNCHANGED index
  BY DEF UpdateRefs, Holds, authority
<1>2. r \in Replicas
  BY <1>1, HolderKnows
<1>3. /\ index.entries \in Seq(Records) /\ Len(mk.entries) \in Nat
      /\ Len(mk.entries) < Len(index.entries)
      /\ refs[r] = RefsAfter(Before(index.entries, k))
      /\ Advance(refs[r], Pending(w)) = RefsAfter(Before(index.entries, Len(mk.entries) + 2))
  BY <1>1, AtRefs
<1>4. k \in DOMAIN index.entries /\ k + 1 = Len(mk.entries) + 2
  BY <1>3, LenProperties
<1>5. refs' = [refs EXCEPT ![r] = RefsAfter(Before(index.entries, k + 1))]
  BY <1>3, <1>4 DEF UpdateRefs
<1>6. Published!Install(r)
  <2> HIDE DEF k, r
  <2> QED
    BY <1>1, <1>3, <1>4, <1>5, PublishedOperators DEF Published!Install
<1> QED
  BY <1>2, <1>6 DEF Published!Next

(* ... and, interrupted, part of it.                                       *)
LEMMA TornUpdateTears ==
    ASSUME Inv, NEW w \in Workers, TornUpdate(w)
    PROVE  Published!Next
<1> DEFINE r == At(w)
           mk == marker[r]
           s == index.entries
           k == Len(mk.entries) + 1
<1>1. worker[w].phase = "refs" /\ Holds(w) /\ UNCHANGED index /\ AllowTorn
  BY DEF TornUpdate, Holds, authority
<1>2. r \in Replicas
  BY <1>1, HolderKnows
<1>3. /\ s \in Seq(Records) /\ Len(mk.entries) \in Nat /\ Len(mk.entries) < Len(s)
      /\ refs[r] = RefsAfter(Before(s, k)) /\ mk.refs = RefsAfter(Before(s, k))
  BY <1>1, AtRefs
<1>4. k \in DOMAIN s /\ k + 1 = Len(mk.entries) + 2
  BY <1>3, LenProperties
<1>5. PICK some \in SUBSET DOMAIN UpdatesOf[Pending(w)] :
         refs' = [refs EXCEPT ![r] =
           [ref \in RefNames |-> IF ref \in some THEN UpdatesOf[Pending(w)][ref].new
                                 ELSE refs[r][ref]]]
  BY DEF TornUpdate
<1>6. /\ some \subseteq RefNames
      /\ refs' = [refs EXCEPT ![r] =
           [ref \in RefNames |->
              IF ref \in some THEN RefsAfter(Before(s, Len(mk.entries) + 2))[ref]
              ELSE mk.refs[ref]]]
  BY <1>1, <1>5, TornRefs
<1>7. refs' = [refs EXCEPT ![r] = [ref \in RefNames |->
                 RefsAfter(Before(s, IF ref \in some THEN k + 1 ELSE k))[ref]]]
  <2>1. \A ref \in RefNames :
           RefsAfter(Before(s, IF ref \in some THEN k + 1 ELSE k))[ref]
             = IF ref \in some THEN RefsAfter(Before(s, Len(mk.entries) + 2))[ref]
               ELSE mk.refs[ref]
    BY <1>3, <1>4
  <2> QED
    BY <1>6, <2>1
<1>8. Published!Tear(r)
  <2> HIDE DEF k, r, s
  <2>1. some \in SUBSET RefNames
    BY <1>6
  <2> QED
    BY <1>1, <1>3, <1>4, <1>7, <2>1, PublishedOperators DEF Published!Tear, s
<1> QED
  BY <1>2, <1>8 DEF Published!Next

(* Removing a replica is the promise's eviction.                           *)
LEMMA EvictEvicts ==
    ASSUME NEW r \in Replicas, Evict(r)
    PROVE  Published!Next
<1>1. Published!Evict(r)
  BY PublishedOperators DEF Evict, authority, Published!Evict
<1> QED
  BY <1>1 DEF Published!Next

(* Everything else is invisible: no other step touches history or refs.    *)
LEMMA PublishedStep ==
    Inv /\ [Next]_vars => [Published!Next]_<<index.entries, refs>>
<1> DEFINE same == UNCHANGED <<index, refs>>
<1> SUFFICES ASSUME Inv, [Next]_vars PROVE Published!Next \/ same
  OBVIOUS
<1>1. CASE UNCHANGED vars
  BY <1>1 DEF vars, authority, replica
<1>2. CASE \E rec \in Records : Upload(rec)
  BY <1>2 DEF Upload, replica
<1>3. ASSUME NEW p \in Publishers, Publication(p) PROVE Published!Next \/ same
  <2>1. ASSUME NEW rec \in Records, StartPublish(p, rec) PROVE same
    BY <2>1 DEF StartPublish, authority, replica
  <2>2. CASE FetchIndex(p) \/ PutRefused(p) \/ FailPublish(p)
    BY <2>2 DEF FetchIndex, PutRefused, FailPublish, authority, replica
  <2> QED
    BY <1>3, <2>1, <2>2, PutPublishes DEF Publication
<1>4. CASE \E w \in Workers, kind \in {"replay", "read"}, r \in Replicas : Start(w, kind, r)
  BY <1>4 DEF Start, authority, replica
<1>5. ASSUME NEW w \in Workers, Proceed(w) PROVE Published!Next \/ same
  <2>1. CASE AcquireLock(w) \/ EnsureRepo(w) \/ GitInit(w) \/ Observe(w) \/ UseCached(w)
    BY <2>1 DEF AcquireLock, EnsureRepo, GitInit, Observe, UseCached, authority, replica
  <2>2. CASE CheckState(w) \/ ImportPack(w) \/ SaveMarker(w) \/ FinishReplay(w)
                \/ Serve(w) \/ Reject(w)
    BY <2>2 DEF CheckState, ImportPack, SaveMarker, FinishReplay, Serve, Reject,
                authority, replica
  <2> QED
    BY <1>5, <2>1, <2>2, UpdateInstalls DEF Proceed
<1>6. ASSUME NEW w \in Workers, LockTimeout(w) \/ Fail(w) \/ TornUpdate(w) \/ Kill(w)
      PROVE  Published!Next \/ same
  <2>1. CASE LockTimeout(w) \/ Fail(w) \/ Kill(w)
    BY <2>1 DEF LockTimeout, Fail, Kill, authority, replica
  <2> QED
    BY <1>6, <2>1, TornUpdateTears
<1>7. CASE \E r \in Replicas : Evict(r)
  BY <1>7, EvictEvicts
<1> QED
  BY <1>1, <1>2, <1>3, <1>4, <1>5, <1>6, <1>7 DEF Next

(* The client implements the promise of PublishedLog: readers of refs and  *)
(* history cannot tell its interleaved, interruptible steps from an        *)
(* append-only history whose prefixes are installed record by record.      *)
THEOREM Refinement == Spec => ImplementsLog
<1>1. Init => Published!Init
  BY PublishedInit
<1>2. Inv /\ [Next]_vars => [Published!Next]_<<index.entries, refs>>
  BY PublishedStep
<1> QED
  BY <1>1, <1>2, Invariance, PTL DEF Spec, ImplementsLog, Published!Spec

=============================================================================
