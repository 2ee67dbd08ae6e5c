--------------------------- MODULE DatabaseFiles ---------------------------
(***************************************************************************)
(* The files under the learner store while commands run side by side.      *)
(*                                                                         *)
(*   tutor.sqlite, the shared database: a main file of Pages and a -wal    *)
(*   file.  One writer at a time puts a new image of some pages into the   *)
(*   -wal, header and frames first, the mark that commits them last; what  *)
(*   a killed or rolled back writer has put there stays.  A checkpoint     *)
(*   writes committed pages to the main file one by one; whoever closes    *)
(*   last finishes the checkpoint and deletes the -wal.                    *)
(*                                                                         *)
(*   progress.sqlite of one course, the legacy database: a main file and a *)
(*   -wal file, each in the courses or in the backup directory.            *)
(*                                                                         *)
(* `progress verify` copies the shared main file as bytes, without a lock; *)
(* `progress consolidate` copies the legacy database into the shared one   *)
(* and then moves its files.  SQLite itself and the program that still     *)
(* writes the legacy database are external; -shm files hold no data.       *)
(***************************************************************************)
EXTENDS Integers, Sequences

CONSTANTS Verbs,          \* processes that run done, skip, undone, note or init
          Consolidator,   \* the process that runs `progress consolidate`
          PageCount,      \* pages of the shared database
          MaxWrites,      \* bound: transactions that write into the shared -wal
          MaxRecorded     \* bound: what is recorded in the legacy database

ASSUME PageCountAssumption == PageCount \in Nat \ {0}

VARIABLES main,        \* page -> the commit that last wrote it, in the main file
          stamp,       \* size and modification time of the main file
          wal,         \* the -wal file: "none", "empty" or "written"
          writing,     \* who has put frames there that are not committed: {} or {p}
          frames,      \* what is committed there: <<>> or <<the image it holds>>
          images,      \* history: the image each commit made
          writes,      \* history: transactions that wrote frames
          open,        \* processes that have the shared database open
          legacy,      \* where the legacy files are and what is in them
          writer,      \* whether the legacy writer has it open
          recorded,    \* what the legacy writer has committed: lessons, then attempts
          copied,      \* how much of that is in the shared database
          con,         \* the consolidation
          ver          \* the verification
shared   == <<main, stamp, wal, writing, frames, images, writes, open>>
learning == <<legacy, writer, recorded, copied>>
vars     == <<shared, learning, con, ver>>

Pages == 1..PageCount
Processes == Verbs \cup {Consolidator}
Latest == IF frames = <<>> THEN main ELSE frames[1]

NotVerifying == [at |-> "idle", round |-> 0, page |-> 1, stamp |-> 0,
                 copy |-> [p \in Pages |-> 0], floor |-> 1, writes |-> 0]
NotConsolidating == [at |-> "idle", replace |-> FALSE, seen |-> 0]

Init ==
    /\ main = [p \in Pages |-> 1] /\ stamp = 1 /\ images = <<main>>
    /\ wal = "none" /\ writing = {} /\ frames = <<>> /\ writes = 0 /\ open = {}
    /\ legacy = [main |-> "courses", wal |-> "none", rows |-> 1]
    /\ writer = FALSE /\ recorded = 1 /\ copied = 0
    /\ con = NotConsolidating /\ ver = NotVerifying

-----------------------------------------------------------------------------
(* The shared database.                                                    *)
Open(p) ==
    /\ p \notin open
    /\ open' = open \cup {p} /\ wal' = IF wal = "none" THEN "empty" ELSE wal
    /\ UNCHANGED <<main, stamp, writing, frames, images, writes>>

(* A transaction that has changed something writes its header and frames,  *)
(* at its commit or before, when its cache overflows.  It has the write    *)
(* lock.                                                                   *)
WriteFrames(p) ==
    /\ p \in open /\ writing = {} /\ writes < MaxWrites
    /\ wal' = "written" /\ writing' = {p} /\ writes' = writes + 1
    /\ UNCHANGED <<main, stamp, frames, images, open>>

(* The mark behind its frames: the transaction changed the pages in some.  *)
Commit(p, some) ==
    LET image == [q \in Pages |-> IF q \in some THEN Len(images) + 1 ELSE Latest[q]] IN
    /\ p \in open /\ writing = {p}
    /\ frames' = <<image>> /\ images' = Append(images, image) /\ writing' = {}
    /\ UNCHANGED <<main, stamp, wal, writes, open>>

(* What was written without a mark does not count, and stays in the file.  *)
Rollback(p) ==
    /\ writing = {p}
    /\ writing' = {}
    /\ UNCHANGED <<main, stamp, wal, frames, images, writes, open>>

(* One page of a checkpoint.  The clock is coarse: the file's time may be  *)
(* the one it had.                                                         *)
WritePage(p, page) ==
    /\ p \in open /\ frames # <<>> /\ main[page] # Latest[page]
    /\ main' = [main EXCEPT ![page] = Latest[page]]
    /\ stamp' \in {stamp, Len(images)}
    /\ UNCHANGED <<wal, writing, frames, images, writes, open>>

(* Close rolls back what is not committed; the last one deletes the -wal.  *)
Close(p) ==
    /\ p \in open
    /\ open' = open \ {p} /\ writing' = writing \ {p}
    /\ IF open = {p}
       THEN main = Latest /\ frames' = <<>> /\ wal' = "none"
       ELSE UNCHANGED <<frames, wal>>
    /\ UNCHANGED <<main, stamp, images, writes>>

Die(p) ==
    /\ p \in open
    /\ open' = open \ {p} /\ writing' = writing \ {p}
    /\ UNCHANGED <<main, stamp, wal, frames, images, writes>>

(* A verb, an unfinished one included; the consolidation's transaction     *)
(* keeps others from writing.                                              *)
Verb(p) ==
    /\ \/ Open(p) \/ Rollback(p) \/ Close(p) \/ Die(p)
       \/ con.at # "commit" /\ WriteFrames(p)
       \/ \E some \in SUBSET Pages \ {{}} : Commit(p, some)
       \/ \E page \in Pages : WritePage(p, page)
    /\ UNCHANGED <<learning, con, ver>>

-----------------------------------------------------------------------------
(* The legacy writer.  Nobody opens the legacy database between the        *)
(* consolidation's look at its holders and the end of its move: that is    *)
(* asked of the learner and not enforced.                                  *)
WriterOpens ==
    /\ ~writer /\ legacy.main = "courses" /\ con.at = "idle"
    /\ writer' = TRUE
    /\ UNCHANGED <<shared, legacy, recorded, copied, con, ver>>

WriterRecords ==
    /\ writer /\ recorded < MaxRecorded
    /\ recorded' = recorded + 1
    /\ legacy' = [legacy EXCEPT !.wal = IF legacy.wal = "none" THEN legacy.main ELSE legacy.wal]
    /\ UNCHANGED <<shared, writer, copied, con, ver>>

WriterCloses ==
    /\ writer
    /\ writer' = FALSE
    /\ legacy' = [legacy EXCEPT !.wal = "none", !.rows = recorded]
    /\ UNCHANGED <<shared, recorded, copied, con, ver>>

WriterDies ==
    /\ writer
    /\ writer' = FALSE
    /\ UNCHANGED <<shared, legacy, recorded, copied, con, ver>>

(* What somebody who opens the legacy main file gets to see.               *)
Readable == IF legacy.wal = legacy.main THEN recorded ELSE legacy.rows

-----------------------------------------------------------------------------
(* Consolidate: the legacy database is there, the backup directory is      *)
(* empty and /proc shows nobody who has it open.                           *)
(* Mutant: the holders are not looked for.                                 *)
AnyHolders == TRUE
NoHolders == ~writer
BackupEmpty == "backup" \notin {legacy.main, legacy.wal}

Look ==
    /\ con.at = "idle" /\ legacy.main = "courses" /\ BackupEmpty /\ NoHolders
    /\ \E replace \in BOOLEAN : con' = [con EXCEPT !.at = "copy", !.replace = replace]
    /\ UNCHANGED <<shared, learning, ver>>

(* consolidateOne up to its verification: without --replace a course that  *)
(* is there already is refused.  Its transaction writes, so nobody else is *)
(* in the middle of one.                                                   *)
ReadSource ==
    /\ con.at = "copy" /\ Consolidator \in open /\ writing = {}
    /\ copied = 0 \/ con.replace
    /\ con' = [con EXCEPT !.at = "commit", !.seen = Readable]
    /\ UNCHANGED <<shared, learning, ver>>

(* The counts agree with the source's at that moment, and the transaction  *)
(* commits.  With --replace the course's rows were deleted first.          *)
CourseRows == con.seen

CommitCopy ==
    /\ con.at = "commit" /\ con.seen = Readable
    /\ Commit(Consolidator, Pages)
    /\ copied' = CourseRows
    /\ con' = [con EXCEPT !.at = "close"]
    /\ UNCHANGED <<legacy, writer, recorded, ver>>

(* Open and Close around the transaction, the frames it writes and its     *)
(* checkpoints included.                                                   *)
UseShared ==
    /\ \/ con.at = "copy" /\ Open(Consolidator) /\ UNCHANGED con
       \/ con.at = "commit" /\ WriteFrames(Consolidator) /\ UNCHANGED con
       \/ con.at = "close" /\ Close(Consolidator) /\ con' = [con EXCEPT !.at = "main"]
       \/ \E page \in Pages : WritePage(Consolidator, page) /\ UNCHANGED con
    /\ UNCHANGED <<learning, ver>>

(* moveTrio: the main file, then its companion if there is one.            *)
MoveMain ==
    /\ con.at = "main"
    /\ legacy' = [legacy EXCEPT !.main = "backup"]
    /\ con' = [con EXCEPT !.at = "wal"]
    /\ UNCHANGED <<shared, writer, recorded, copied, ver>>

MoveWal ==
    /\ con.at = "wal"
    /\ legacy' = [legacy EXCEPT !.wal = IF @ = "none" THEN @ ELSE "backup"]
    /\ con' = NotConsolidating
    /\ UNCHANGED <<shared, writer, recorded, copied, ver>>

(* Any error return, and being killed.                                     *)
ConsolidateFails ==
    /\ con.at # "idle"
    /\ con' = NotConsolidating
    /\ IF Consolidator \in open THEN Close(Consolidator) \/ Die(Consolidator)
                                ELSE UNCHANGED shared
    /\ UNCHANGED <<learning, ver>>

Consolidate == Look \/ ReadSource \/ CommitCopy \/ UseShared \/ MoveMain \/ MoveWal
               \/ ConsolidateFails

-----------------------------------------------------------------------------
(* runProgressVerify.  Round 0 is readStableVerifySource's first reading,  *)
(* rounds 1 to 3 are the three calls of verifySourceUnchanged: inside      *)
(* readStableVerifySource, after the copy is written, before the report.   *)
(* What counts as a sidecar is a -wal that is there and not empty.         *)
(* Mutants: sidecar files are ignored; an empty -wal counts as one.        *)
Ignored == TRUE
NoFile == wal = "none"
NoSidecars == wal # "written"

Unless(ok, next) == ver' = IF ok THEN next
                           ELSE [NotVerifying EXCEPT !.at = "refused", !.floor = ver.floor,
                                                     !.writes = ver.writes]

BeginVerify ==
    /\ ver.at \in {"idle", "refused", "reported"} /\ NoSidecars
    /\ ver' = [NotVerifying EXCEPT !.at = "stat", !.floor = Len(images), !.writes = writes]

(* Stat: taken in round 0, compared in the others.                         *)
Stat ==
    /\ ver.at = "stat"
    /\ Unless(ver.round = 0 \/ ver.stamp = stamp,
              [ver EXCEPT !.at = "read", !.page = 1, !.stamp = stamp])

(* os.ReadFile reads one page after the other.                             *)
SameBytes(page) == ver.round = 0 \/ ver.copy[page] = main[page]

ReadPage ==
    /\ ver.at = "read" /\ ver.page \in Pages
    /\ Unless(SameBytes(ver.page),
              [ver EXCEPT !.page = ver.page + 1,
                          !.copy[ver.page] = IF ver.round = 0 THEN main[ver.page] ELSE @])

(* The look for sidecars that ends a round, and the one that begins the    *)
(* next; round 0 has none at its end.                                      *)
EndRound ==
    /\ ver.at = "read" /\ ver.page \notin Pages
    /\ Unless(ver.round = 0 \/ NoSidecars,
              [ver EXCEPT !.at = IF ver.round = 3 THEN "reported" ELSE "sidecars"])

BeginRound ==
    /\ ver.at = "sidecars"
    /\ Unless(NoSidecars, [ver EXCEPT !.at = "stat", !.round = @ + 1])

Verify ==
    /\ BeginVerify \/ Stat \/ ReadPage \/ EndRound \/ BeginRound
    /\ UNCHANGED <<shared, learning, con>>

-----------------------------------------------------------------------------
Next == \/ \E p \in Verbs : Verb(p)
        \/ WriterOpens \/ WriterRecords \/ WriterCloses \/ WriterDies
        \/ Consolidate
        \/ Verify

Spec == Init /\ [][Next]_vars

-----------------------------------------------------------------------------
TypeOK ==
    /\ main \in [Pages -> 1..Len(images)] /\ stamp \in 1..Len(images)
    /\ wal \in {"none", "empty", "written"} /\ Len(frames) <= 1 /\ writes \in 0..MaxWrites
    /\ \A k \in DOMAIN images : images[k] \in [Pages -> 1..k]
    /\ Latest = images[Len(images)]
    /\ open \subseteq Processes /\ writing \in {{}} \cup {{p} : p \in open}
    /\ (frames # <<>> \/ writing # {} => wal = "written") /\ (open # {} => wal # "none")
    /\ legacy \in [main : {"courses", "backup"}, wal : {"none", "courses", "backup"}, rows : 1..recorded]
    /\ recorded \in 1..MaxRecorded /\ copied \in 0..recorded /\ writer \in BOOLEAN
    /\ con.at \in {"idle", "copy", "commit", "close", "main", "wal"}
    /\ ver.at \in {"idle", "stat", "read", "sidecars", "refused", "reported"}
    /\ ver.round \in 0..3 /\ ver.page \in 1..(PageCount + 1)

(* From the end of readStableVerifySource on, the bytes that progress      *)
(* verify works on are one committed state of the database, none older     *)
(* than the command, whatever was committed and checkpointed meanwhile.    *)
Accepted == ver.round >= 2 \/ ver.at = "reported" \/ (ver.round = 1 /\ ver.at = "sidecars")
CopyIsCommitted ==
    Accepted => \E k \in ver.floor..Len(images) : ver.copy = images[k]

(* A verify that saw no sidecar file and is refused afterwards ("source    *)
(* database changed", "close the learner's progress writer") was disturbed *)
(* by a transaction that wrote into the -wal since, committed or not:      *)
(* never by somebody who only opened, read, checkpointed or closed.        *)
RefusalMeansWrite == ver.at = "refused" => writes > ver.writes

(* Whatever a consolidation leaves behind when it fails or is killed, all  *)
(* that the learner has recorded is in the shared database, or one can     *)
(* still read it where the legacy main file is.                            *)
HistoryKept == recorded \in {copied, Readable}
=============================================================================
