------------------------------ MODULE CursorGit ------------------------------
(***************************************************************************)
(* The cursor client of the Cursor Git project: processes that publish     *)
(* records by a conditional PUT of index.json, and processes that replay   *)
(* the published history into a bare Git repository or read from it behind *)
(* a freshness check.  The object store orders publishers; a lock file     *)
(* next to each repository orders its replays and reads.                   *)
(*                                                                         *)
(* The store's ETag is modelled by the content of the index: no content    *)
(* occurs twice, as entries are only appended.                             *)
(***************************************************************************)
EXTENDS RefHistory

CONSTANTS
    Replicas, FirstRecord,
    Publishers,     \* processes running `cursor publish`
    Workers,        \* processes running `cursor replay`, `wake` or `read`
    CasRetries,     \* attempts of one publish (4 in the code)
    AllowTorn,      \* whether git may die between two refs of one record
    AllowKill,      \* whether a worker may be killed outright
    MaxFaults,      \* bound: failed commands, kills and evictions
    Free, Stale, NoIndex

ASSUME CursorAssumption ==
    /\ FirstRecord \in Records /\ Fits(RefsAfter(<<>>), FirstRecord)
    /\ CasRetries \in Nat \ {0} /\ MaxFaults \in Nat
    /\ {AllowTorn, AllowKill} \subseteq BOOLEAN
    /\ Free # Stale /\ {Free, Stale} \cap Workers = {}
    /\ NoIndex \notin [generation : Nat, entries : Seq(Records), refs : RefMap]

VARIABLES
    index,      \* index.json: [generation, entries, refs]
    uploaded,   \* records whose record and pack objects are in the store
    publisher,  \* process -> its current or last publish command
    repo,       \* replica -> "none", "dir" (not yet a repository) or "bare"
    refs,       \* replica -> its Git refs
    refLocks,   \* replica -> refs whose .lock file a killed git left behind
    marker,     \* replica -> cursor-state.json: [entries, refs, index]
    lock,       \* replica -> Free, the worker that made the file, or Stale
    worker,     \* process -> its current or last replay or read
    faults

authority == <<index, uploaded>>
replica == <<repo, refs, refLocks, marker>>
vars == <<authority, publisher, replica, lock, worker, faults>>

IndexOf(entries) ==
    [generation |-> Len(entries) - 1, entries |-> entries, refs |-> RefsAfter(entries)]

NoMarker == [entries |-> <<>>, refs |-> RefsAfter(<<>>), index |-> NoIndex]

NotPublishing == [phase |-> "idle", rec |-> FirstRecord, seen |-> NoIndex,
                  tries |-> 0, from |-> 0, outcome |-> "none"]
NotWorking == [phase |-> "idle", kind |-> "replay", at |-> CHOOSE r \in Replicas : TRUE,
               target |-> NoIndex, floor |-> 0, served |-> NoIndex]

(* seed.sh has run: the first record and its index are in the store.       *)
Init ==
    /\ index = IndexOf(<<FirstRecord>>)
    /\ uploaded = {FirstRecord}
    /\ publisher = [p \in Publishers |-> NotPublishing]
    /\ repo = [r \in Replicas |-> "none"]
    /\ refs = [r \in Replicas |-> RefsAfter(<<>>)]
    /\ refLocks = [r \in Replicas |-> {}]
    /\ marker = [r \in Replicas |-> NoMarker]
    /\ lock = [r \in Replicas |-> Free]
    /\ worker = [w \in Workers |-> NotWorking]
    /\ faults = 0

-----------------------------------------------------------------------------
(* upload.sh: the pack and the record under names of their own, which no   *)
(* reader looks at until an index lists them.                              *)
Upload(rec) ==
    /\ rec \notin uploaded
    /\ uploaded' = uploaded \cup {rec}
    /\ UNCHANGED <<index, publisher, replica, lock, worker, faults>>

(* publish up to its loop: the stored objects equal the local intent.      *)
StartPublish(p, rec) ==
    /\ publisher[p].phase = "idle"
    /\ rec \in uploaded
    /\ publisher' = [publisher EXCEPT ![p] =
         [NotPublishing EXCEPT !.phase = "fetch", !.rec = rec,
                               !.from = Len(index.entries)]]
    /\ UNCHANGED <<authority, replica, lock, worker, faults>>

(* The command prints its outcome and ends; an error leaves nothing.       *)
EndPublish(p, outcome) ==
    publisher' = [publisher EXCEPT ![p] =
      [NotPublishing EXCEPT !.rec = publisher[p].rec, !.from = publisher[p].from,
                            !.outcome = outcome]]
AbortPublish(p) == publisher' = [publisher EXCEPT ![p] = NotPublishing]

(* Mutant: a retry trusts that its operation is new.                       *)
NeverListed(x, rec) == FALSE
Listed(x, rec) == Accepted(x.entries, rec)

(* One round: read the index, replay its history, look for the operation,  *)
(* and check the preconditions against the refs of that history.           *)
SoundIndex(x) == Replays(x.entries) /\ x.refs = RefsAfter(x.entries)

FetchIndex(p) ==
    LET rec == publisher[p].rec IN
    /\ publisher[p].phase = "fetch"
    /\ IF ~SoundIndex(index) THEN AbortPublish(p)
       ELSE IF Listed(index, rec)
       THEN EndPublish(p, IF \E k \in DOMAIN index.entries : index.entries[k] = rec
                          THEN "already" ELSE "reused")
       ELSE IF ~Fits(index.refs, rec) THEN EndPublish(p, "conflict")
       ELSE publisher' = [publisher EXCEPT ![p].phase = "put", ![p].seen = index]
    /\ UNCHANGED <<authority, replica, lock, worker, faults>>

(* Mutant: the refs are left as fetched.                                   *)
EntryOnly(x, rec) ==
    [generation |-> x.generation + 1, entries |-> Append(x.entries, rec), refs |-> x.refs]
NextIndex(x, rec) ==
    [generation |-> x.generation + 1,
     entries    |-> Append(x.entries, rec),
     refs       |-> Advance(x.refs, rec)]

(* Mutant: the PUT has no If-Match.                                        *)
AlwaysMatches(x) == TRUE
IfMatch(x) == index = x

(* The conditional PUT succeeds.  The reply may be lost, by --lose-reply   *)
(* or on the way; the client then knows nothing.                           *)
Put(p, heard) ==
    /\ publisher[p].phase = "put"
    /\ IfMatch(publisher[p].seen)
    /\ index' = NextIndex(publisher[p].seen, publisher[p].rec)
    /\ EndPublish(p, IF heard THEN "published" ELSE "unknown")
    /\ UNCHANGED <<uploaded, replica, lock, worker, faults>>

(* HTTP 412: the next round, or the end of the fourth.                     *)
(* Mutant: one attempt fewer.                                              *)
LastButOne(tries) == tries + 2 >= CasRetries
LastTry(tries) == tries + 1 = CasRetries

PutRefused(p) ==
    /\ publisher[p].phase = "put"
    /\ ~IfMatch(publisher[p].seen)
    /\ IF LastTry(publisher[p].tries)
       THEN EndPublish(p, "exhausted")
       ELSE publisher' = [publisher EXCEPT ![p].phase = "fetch", ![p].seen = NoIndex,
                                           ![p].tries = @ + 1]
    /\ UNCHANGED <<authority, replica, lock, worker, faults>>

(* Any other error before the PUT reached the store.                       *)
FailPublish(p) ==
    /\ publisher[p].phase # "idle"
    /\ AbortPublish(p)
    /\ UNCHANGED <<authority, replica, lock, worker, faults>>

-----------------------------------------------------------------------------
(* Workers.  `wake` runs replay or, dropped, nothing at all.               *)
At(w) == worker[w].at
Target(w) == worker[w].target
Goto(w, phase) == worker' = [worker EXCEPT ![w].phase = phase]
Leave(w) == worker' = [worker EXCEPT ![w] = NotWorking]

Start(w, kind, r) ==
    /\ worker[w].phase = "idle"
    /\ worker' = [worker EXCEPT ![w] =
         [NotWorking EXCEPT !.phase = "lock", !.kind = kind, !.at = r,
                            !.floor = IF kind = "read" THEN Len(index.entries) ELSE 0]]
    /\ UNCHANGED <<authority, publisher, replica, lock, faults>>

(* withLock: O_CREATE|O_EXCL, tried again every 25 ms until the deadline.  *)
CanLock(r) == lock[r] = Free

AcquireLock(w) ==
    /\ worker[w].phase = "lock" /\ CanLock(At(w))
    /\ lock' = [lock EXCEPT ![At(w)] = w]
    /\ Goto(w, IF worker[w].kind = "replay" THEN "repo" ELSE "observe")
    /\ UNCHANGED <<authority, publisher, replica, faults>>

LockTimeout(w) ==
    /\ worker[w].phase = "lock" /\ ~CanLock(At(w))
    /\ Leave(w)
    /\ UNCHANGED <<authority, publisher, replica, lock, faults>>

(* ensureRepo: a directory that exists is taken for a repository.          *)
EnsureRepo(w) ==
    /\ worker[w].phase = "repo"
    /\ IF repo[At(w)] = "none"
       THEN /\ repo' = [repo EXCEPT ![At(w)] = "dir"]
            /\ Goto(w, "init")
       ELSE /\ UNCHANGED repo
            /\ Goto(w, IF worker[w].kind = "replay" THEN "observe" ELSE "check")
    /\ UNCHANGED <<authority, publisher, refs, refLocks, marker, lock, faults>>

GitInit(w) ==
    /\ worker[w].phase = "init"
    /\ repo' = [repo EXCEPT ![At(w)] = "bare"]
    /\ Goto(w, IF worker[w].kind = "replay" THEN "observe" ELSE "check")
    /\ UNCHANGED <<authority, publisher, refs, refLocks, marker, lock, faults>>

(* fetchIndex: replay always takes the whole index; read offers the ETag   *)
(* of the index it last caught up with, and 304 lets it skip the replay.   *)
(* Mutant: a cached index is good enough.                                  *)
CachedWillDo(r) == marker[r].index # NoIndex
NotModified(r) == marker[r].index = index

Observe(w) ==
    /\ worker[w].phase = "observe"
    /\ worker' = [worker EXCEPT
         ![w].target = IF worker[w].kind = "read" /\ NotModified(At(w))
                       THEN marker[At(w)].index ELSE index,
         ![w].phase  = IF worker[w].kind = "replay" THEN "check"
                       ELSE IF NotModified(At(w)) THEN "cached" ELSE "repo"]
    /\ UNCHANGED <<authority, publisher, replica, lock, faults>>

(* The checks read makes on a 304.                                         *)
UseCached(w) ==
    /\ worker[w].phase = "cached"
    /\ marker[At(w)].entries = Target(w).entries
    /\ Goto(w, "verify")
    /\ UNCHANGED <<authority, publisher, replica, lock, faults>>

Applied(r) == Len(marker[r].entries)
PrefixKept(w) ==
    /\ Applied(At(w)) <= Len(Target(w).entries)
    /\ marker[At(w)].entries = Before(Target(w).entries, Applied(At(w)) + 1)

Pending(w) == Target(w).entries[Applied(At(w)) + 1]

Mark(r, entry) ==
    marker' = [marker EXCEPT ![r].entries = Append(@, entry),
                             ![r].refs = Advance(@, entry)]

(* The refs are the marker's, or those of the one entry that was applied   *)
(* and not yet marked.  Mutants: the second case is taken for divergence,  *)
(* any divergence is taken for the second case.                            *)
NothingPending(w) == FALSE
AnyDivergence(w) == Applied(At(w)) < Len(Target(w).entries)
IsPending(w) ==
    /\ Applied(At(w)) < Len(Target(w).entries)
    /\ Fits(marker[At(w)].refs, Pending(w))
    /\ refs[At(w)] = Advance(marker[At(w)].refs, Pending(w))

CheckState(w) ==
    /\ worker[w].phase = "check"
    /\ repo[At(w)] = "bare" /\ PrefixKept(w)
    /\ \/ refs[At(w)] = marker[At(w)].refs /\ UNCHANGED marker
       \/ /\ refs[At(w)] # marker[At(w)].refs /\ IsPending(w)
          /\ Mark(At(w), Pending(w))
    /\ Goto(w, "apply")
    /\ UNCHANGED <<authority, publisher, repo, refs, refLocks, lock, faults>>

-----------------------------------------------------------------------------
(* The loop: fetch and check the record and its pack, import its objects   *)
(* (nothing refers to them yet), move the refs, save the marker.           *)
ImportPack(w) ==
    /\ worker[w].phase = "apply" /\ Applied(At(w)) < Len(Target(w).entries)
    /\ Pending(w) \in uploaded
    /\ Fits(marker[At(w)].refs, Pending(w))
    /\ Goto(w, "refs")
    /\ UNCHANGED <<authority, publisher, replica, lock, faults>>

(* git update-ref --stdin locks each ref by a file and compares the old    *)
(* values itself.                                                          *)
Unlocked(w) == refLocks[At(w)] \cap DOMAIN UpdatesOf[Pending(w)] = {}
Updatable(w) == Unlocked(w) /\ Fits(refs[At(w)], Pending(w))

UpdateRefs(w) ==
    /\ worker[w].phase = "refs"
    /\ Updatable(w)
    /\ refs' = [refs EXCEPT ![At(w)] = Advance(@, Pending(w))]
    /\ Goto(w, "mark")
    /\ UNCHANGED <<authority, publisher, repo, refLocks, marker, lock, faults>>

(* saveState renames a complete file into place.                           *)
SaveMarker(w) ==
    /\ worker[w].phase = "mark"
    /\ Mark(At(w), Pending(w))
    /\ Goto(w, "apply")
    /\ UNCHANGED <<authority, publisher, repo, refs, refLocks, lock, faults>>

CaughtUp(w) == Applied(At(w)) = Len(Target(w).entries)

Release(w) == lock' = [lock EXCEPT ![At(w)] = Free]

(* Caught up: the marker now also names the index and its ETag.            *)
FinishReplay(w) ==
    /\ worker[w].phase = "apply" /\ CaughtUp(w)
    /\ refs[At(w)] = Target(w).refs
    /\ marker' = [marker EXCEPT ![At(w)].refs = Target(w).refs,
                                ![At(w)].index = Target(w)]
    /\ IF worker[w].kind = "replay"
       THEN Leave(w) /\ Release(w)
       ELSE Goto(w, "verify") /\ UNCHANGED lock
    /\ UNCHANGED <<authority, publisher, repo, refs, refLocks, faults>>

(* read: the last look at the refs, the answer, and the lock removed.      *)
Serve(w) ==
    /\ worker[w].phase = "verify"
    /\ refs[At(w)] = Target(w).refs
    /\ worker' = [worker EXCEPT ![w] =
         [NotWorking EXCEPT !.served = Target(w), !.floor = worker[w].floor]]
    /\ Release(w)
    /\ UNCHANGED <<authority, publisher, replica, faults>>

-----------------------------------------------------------------------------
Holds(w) == worker[w].phase \notin {"idle", "lock"}

(* A command's error return: the state it found is one it will not touch.  *)
Reject(w) ==
    /\ \/ worker[w].phase = "cached" /\ marker[At(w)].entries # Target(w).entries
       \/ worker[w].phase = "check" /\ (repo[At(w)] # "bare" \/ ~PrefixKept(w))
       \/ /\ worker[w].phase = "check" /\ repo[At(w)] = "bare" /\ PrefixKept(w)
          /\ refs[At(w)] # marker[At(w)].refs /\ ~IsPending(w)
       \/ /\ worker[w].phase = "apply" /\ Applied(At(w)) < Len(Target(w).entries)
          /\ ~Fits(marker[At(w)].refs, Pending(w))
       \/ worker[w].phase = "refs" /\ ~Updatable(w)
       \/ /\ worker[w].phase \in {"apply", "verify"} /\ CaughtUp(w)
          /\ refs[At(w)] # Target(w).refs
    /\ Leave(w) /\ Release(w)
    /\ UNCHANGED <<authority, publisher, replica, faults>>

Fault == faults < MaxFaults /\ faults' = faults + 1

(* An error between two steps: the store does not answer, the deadline     *)
(* passes, a pack is missing or corrupt, --stop-after-ref.                 *)
Fail(w) ==
    /\ Holds(w) /\ Fault
    /\ Leave(w) /\ Release(w)
    /\ UNCHANGED <<authority, publisher, replica>>

(* The deadline kills git in a transaction: it has moved some of the refs, *)
(* and the .lock files of those it had still to move stay, or of a part of *)
(* them if it had not locked all.                                          *)
TornUpdate(w) ==
    LET updates == UpdatesOf[Pending(w)] IN
    /\ AllowTorn /\ Fault
    /\ worker[w].phase = "refs" /\ Updatable(w)
    /\ \E some, left \in SUBSET DOMAIN updates :
         /\ some \cap left = {} /\ (some = {} \/ some \cup left = DOMAIN updates)
         /\ refs' = [refs EXCEPT ![At(w)] =
              [ref \in RefNames |-> IF ref \in some THEN updates[ref].new ELSE refs[At(w)][ref]]]
         /\ refLocks' = [refLocks EXCEPT ![At(w)] = @ \cup left]
    /\ Leave(w) /\ Release(w)
    /\ UNCHANGED <<authority, publisher, repo, marker>>

(* The process is killed: nobody removes the lock file.                    *)
Kill(w) ==
    /\ AllowKill /\ Holds(w) /\ Fault
    /\ Leave(w)
    /\ lock' = [lock EXCEPT ![At(w)] = Stale]
    /\ UNCHANGED <<authority, publisher, replica>>

(* The learner removes a replica, as the last lesson asks.                 *)
Evict(r) ==
    /\ Fault /\ lock[r] = Free
    /\ repo' = [repo EXCEPT ![r] = "none"]
    /\ refs' = [refs EXCEPT ![r] = RefsAfter(<<>>)]
    /\ refLocks' = [refLocks EXCEPT ![r] = {}]
    /\ marker' = [marker EXCEPT ![r] = NoMarker]
    /\ UNCHANGED <<authority, publisher, lock, worker>>

-----------------------------------------------------------------------------
Publication(p) ==
    \/ \E rec \in Records : StartPublish(p, rec)
    \/ FetchIndex(p)
    \/ \E heard \in BOOLEAN : Put(p, heard)
    \/ PutRefused(p)
    \/ FailPublish(p)

(* The steps a replay or read takes when nothing goes wrong.               *)
Proceed(w) ==
    \/ AcquireLock(w) \/ EnsureRepo(w) \/ GitInit(w) \/ Observe(w) \/ UseCached(w)
    \/ CheckState(w) \/ ImportPack(w) \/ UpdateRefs(w) \/ SaveMarker(w)
    \/ FinishReplay(w) \/ Serve(w) \/ Reject(w)

Next ==
    \/ \E rec \in Records : Upload(rec)
    \/ \E p \in Publishers : Publication(p)
    \/ \E w \in Workers, kind \in {"replay", "read"}, r \in Replicas : Start(w, kind, r)
    \/ \E w \in Workers :
         Proceed(w) \/ LockTimeout(w) \/ Fail(w) \/ TornUpdate(w) \/ Kill(w)
    \/ \E r \in Replicas : Evict(r)

Spec == Init /\ [][Next]_vars

(* Replays and reads keep being started for every replica, by a learner or *)
(* a wake, and a started one runs on.  Publishers, faults and the give-up  *)
(* on a held lock are not fair.                                            *)
FairSpec ==
    /\ Spec
    /\ \A w \in Workers : WF_vars(Proceed(w))
    /\ \A w \in Workers, r \in Replicas :
          SF_vars(\E kind \in {"replay", "read"} : Start(w, kind, r))

-----------------------------------------------------------------------------
IsIndex(x) ==
    /\ x.generation \in Nat
    /\ x.entries \in Seq(Records) /\ x.entries # <<>>
    /\ x.refs \in RefMap

(* Types; a worker past its lock holds the lock of its replica.            *)
TypeOK ==
    /\ IsIndex(index) /\ uploaded \subseteq Records
    /\ \A p \in Publishers :
          /\ publisher[p].phase \in {"idle", "fetch", "put"}
          /\ publisher[p].rec \in Records /\ publisher[p].tries \in 0 .. CasRetries - 1
          /\ publisher[p].phase = "put" <=> publisher[p].seen # NoIndex
    /\ \A r \in Replicas :
          /\ repo[r] \in {"none", "dir", "bare"} /\ refs[r] \in RefMap
          /\ refLocks[r] \subseteq RefNames
          /\ marker[r].entries \in Seq(Records) /\ marker[r].refs \in RefMap
          /\ lock[r] \in Workers \cup {Free, Stale}
    /\ \A w \in Workers : Holds(w) => lock[At(w)] = w
    /\ faults \in 0 .. MaxFaults

(* The authority is a history that anyone can replay: every entry is       *)
(* uploaded and meets its preconditions, no operation occurs twice, and    *)
(* the refs and the generation are those of the entries.                   *)
LogSound ==
    /\ SoundIndex(index) /\ OncePerOperation(index.entries)
    /\ index.generation = Len(index.entries) - 1
    /\ \A k \in DOMAIN index.entries : index.entries[k] \in uploaded

Among(rec, entries) == \E k \in DOMAIN entries : entries[k] = rec

(* A publisher that says its record is published is right, for good, even  *)
(* if others raced it: no conditional PUT overwrites another's entry.      *)
PublishedIsListed ==
    \A p \in Publishers :
        publisher[p].outcome \in {"published", "already"} =>
            Among(publisher[p].rec, index.entries)

(* Publishing again what is already listed, as one does after a lost       *)
(* reply, answers "already published", never a conflict or a new entry.    *)
RetryAnswersAlready ==
    \A p \in Publishers :
        Among(publisher[p].rec, Before(index.entries, publisher[p].from + 1)) =>
            publisher[p].outcome \in {"none", "already"}

(* The bounded retry gives up only if others got through at every attempt. *)
ExhaustedByOthers ==
    \A p \in Publishers :
        publisher[p].outcome = "exhausted" =>
            Len(index.entries) >= publisher[p].from + CasRetries

(* The marker never outruns the refs and lags them by at most one record,  *)
(* whatever dies between two steps: it names a prefix of the history, and  *)
(* each ref is where that prefix or the next record puts it.               *)
MarkerFollowsRefs ==
    \A r \in Replicas :
        LET n == Applied(r) IN
        /\ n <= Len(index.entries)
        /\ marker[r].entries = Before(index.entries, n + 1)
        /\ marker[r].refs = RefsAfter(marker[r].entries)
        /\ \/ refs[r] = marker[r].refs
           \/ /\ n < Len(index.entries)
              /\ \A ref \in RefNames :
                    refs[r][ref] \in {marker[r].refs[ref],
                                     RefsAfter(Before(index.entries, n + 2))[ref]}

(* A read serves published history no older than what was published when   *)
(* it started, however long it waited for the lock and whether or not its  *)
(* index request came back 304.                                            *)
ReadsAreFresh ==
    \A w \in Workers :
        LET x == worker[w].served IN
        x # NoIndex =>
            /\ worker[w].floor <= Len(x.entries)
            /\ Len(x.entries) <= Len(index.entries)
            /\ x.entries = Before(index.entries, Len(x.entries) + 1)
            /\ x.refs = RefsAfter(x.entries)

(* The client implements the promise.                                      *)
Published == INSTANCE PublishedLog WITH log <- index.entries, local <- refs
ImplementsLog == Published!Spec

(* What no replay recovers from: a directory git never initialised, refs   *)
(* of a torn transaction, the .lock file of a ref whose git was killed,    *)
(* and the lock file of a replica whose maker was killed.                  *)
Torn(r) ==
    /\ refs[r] # marker[r].refs
    /\ refs[r] # RefsAfter(Before(index.entries, Applied(r) + 2))
Wedged(r) == repo[r] = "dir" \/ Torn(r) \/ refLocks[r] # {} \/ lock[r] = Stale

(* Every replica ends up at the published refs or in one of those four     *)
(* states: an error or a crash between any two steps is recovered from by  *)
(* running a replay or a read again.                                       *)
Converges == \A r \in Replicas : <>[](Wedged(r) \/ refs[r] = index.refs)
=============================================================================
