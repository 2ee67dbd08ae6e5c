---------------------------- MODULE RoadmapExport ----------------------------
(***************************************************************************)
(* `tutor roadmap` around the committed snapshot roadmap.json: mutating    *)
(* commands and their closing note, import and export, run by processes    *)
(* whose steps interleave.  A mutation is one transaction: it stamps       *)
(* changed_at while it holds the write lock and commits later.  An export  *)
(* is not: it lists the topics, reads the follow-ups topic by topic, takes *)
(* its stamp, renames the file into place, sets its mtime and at last      *)
(* records exported_at.                                                    *)
(*                                                                         *)
(* clock is the wall clock; it advances whenever a process reads it, so no *)
(* two stamps are equal.                                                   *)
(***************************************************************************)
EXTENDS RoadmapTables

CONSTANTS Procs,        \* running `tutor roadmap` commands
          AllowKill,    \* whether a process may be killed
          MaxTime       \* bound: clock readings before no command starts

VARIABLES changed,    \* roadmap_meta changed_at, 0 before the first
          exported,   \* roadmap_meta exported_at, 0 before the first
          file,       \* roadmap.json: [content, mtime]
          clock,
          proc,       \* what each process is doing
          quiet,      \* history: no commit and no other export since p began to export
          fresh,      \* history: roadmap.json is that of a quiet export, and nothing was committed since
          crossed     \* history: a commit met an export, or two exports met

store == <<topics, followups, changed, exported>>
history == <<quiet, fresh, crossed>>
vars == <<topics, followups, changed, exported, file, clock, proc, quiet, fresh, crossed>>

Idle == [at |-> "idle"]
At(p, step) == proc[p].at = step

Stamped(p) == proc[p].at \in {"write", "chtimes", "record"}
Exporting(p) == At(p, "load") \/ Stamped(p)

(* Nobody holds the write lock.                                            *)
Unlocked == \A q \in Procs : proc[q].at \notin {"change", "load file"}

MayStart(p) == At(p, "idle") /\ clock < MaxTime

(* The commit of a transaction that stamped changed_at: it meets an export *)
(* that is reading, or that has a newer stamp.                             *)
CommitChanged(p) ==
    /\ changed' = proc[p].stamp
    /\ quiet' = [q \in Procs |-> FALSE] /\ fresh' = FALSE
    /\ crossed' = (crossed \/ \E q \in Procs :
                      At(q, "load") \/ (Stamped(q) /\ proc[q].stamp > proc[p].stamp))

Absent == -1
Missing == [content |-> << >>, mtime |-> Absent]

(* `tutor roadmap` has created the tables; roadmap.json may be checked out *)
(* or not.                                                                 *)
ExportInit ==
    /\ Init
    /\ changed = 0 /\ exported = 0 /\ clock = 1
    /\ file \in {Missing} \cup {[content |-> s, mtime |-> 0] : s \in Snapshots}
    /\ proc = [p \in Procs |-> Idle]
    /\ quiet = [p \in Procs |-> FALSE] /\ fresh = FALSE /\ crossed = FALSE

-----------------------------------------------------------------------------
(* A mutating command: its transaction, then StaleExportNote on a          *)
(* connection of its own, query by query.                                  *)

(* Nobody sees what a transaction does before it commits: the command is   *)
(* chosen there.                                                           *)
MarkChanged(p) ==
    /\ MayStart(p) /\ Unlocked
    /\ clock' = clock + 1
    /\ proc' = [proc EXCEPT ![p] = [at |-> "change", stamp |-> clock]]
    /\ UNCHANGED <<store, file, history>>

Change(p) ==
    /\ At(p, "change")
    /\ \E c \in Mutations : Perform(c)
    /\ CommitChanged(p)
    /\ proc' = [proc EXCEPT ![p] = [at |-> "note"]]
    /\ UNCHANGED <<exported, file, clock>>

ReadExportedAt(p) ==
    /\ At(p, "note")
    /\ proc' = [proc EXCEPT ![p] = [at |-> "noteExported", exported |-> exported]]
    /\ UNCHANGED <<store, file, clock, history>>

ReadChangedAt(p) ==
    /\ At(p, "noteExported")
    /\ proc' = [proc EXCEPT ![p] = [at |-> "noteChanged", exported |-> @.exported, changed |-> changed]]
    /\ UNCHANGED <<store, file, clock, history>>

(* Mutant: changed_at is not looked at.                                    *)
MtimeOnly(exp, chg, mtime) == mtime = Absent \/ exp = 0 \/ mtime < exp

Stale(exp, chg, mtime) == mtime = Absent \/ exp = 0 \/ mtime < exp \/ chg > exp

(* note: whether it is printed.                                            *)
EndChange(p, note) ==
    /\ At(p, "noteChanged")
    /\ note = Stale(proc[p].exported, proc[p].changed, file.mtime)
    /\ proc' = [proc EXCEPT ![p] = Idle]
    /\ UNCHANGED <<store, file, clock, history>>

-----------------------------------------------------------------------------
(* import: the file is read and validated, then loaded in one transaction. *)

StartImport(p) ==
    /\ MayStart(p)
    /\ \E s \in Snapshots \cup {file.content}, replace \in BOOLEAN :
          /\ ValidSnapshot(s) /\ (s \in Snapshots \/ file.mtime # Absent)
          /\ proc' = [proc EXCEPT ![p] = [at |-> "import", snapshot |-> s, replace |-> replace]]
    /\ UNCHANGED <<store, file, clock, history>>

RefuseImport(p) ==
    /\ At(p, "import") /\ Unlocked
    /\ topics # << >> /\ ~proc[p].replace
    /\ proc' = [proc EXCEPT ![p] = Idle]
    /\ UNCHANGED <<store, file, clock, history>>

MarkImported(p) ==
    /\ At(p, "import") /\ Unlocked
    /\ topics = << >> \/ proc[p].replace
    /\ clock' = clock + 1
    /\ proc' = [proc EXCEPT ![p] = [at |-> "load file", snapshot |-> @.snapshot,
                                   replace |-> @.replace, stamp |-> clock]]
    /\ UNCHANGED <<store, file, history>>

EndImport(p) ==
    /\ At(p, "load file")
    /\ Import(proc[p].snapshot, proc[p].replace)
    /\ CommitChanged(p)
    /\ proc' = [proc EXCEPT ![p] = Idle]
    /\ UNCHANGED <<exported, file, clock>>

-----------------------------------------------------------------------------
(* export, to roadmap.json or (--file) elsewhere.                          *)

StartExport(p) ==
    /\ MayStart(p)
    /\ \E committed \in BOOLEAN :
          proc' = [proc EXCEPT ![p] = [at |-> "load", committed |-> committed, listed |-> ReadTopics,
                                       read |-> << >>]]
    /\ LET alone == \A q \in Procs : ~Exporting(q)
       IN  /\ quiet' = [q \in Procs |-> q = p /\ alone]
           /\ crossed' = (crossed \/ ~alone)
    /\ UNCHANGED <<store, file, clock, fresh>>

ReadFollowups(p) ==
    /\ At(p, "load") /\ Len(proc[p].read) < Len(proc[p].listed)
    /\ proc' = [proc EXCEPT ![p].read = Append(@, FollowupsOf(proc[p].listed[Len(@) + 1].id))]
    /\ UNCHANGED <<store, file, clock, history>>

TakeStamp(p) ==
    /\ At(p, "load") /\ Len(proc[p].read) = Len(proc[p].listed)
    /\ clock' = clock + 1
    /\ proc' = [proc EXCEPT ![p] =
                  [at |-> "write", committed |-> @.committed, stamp |-> clock,
                   content |-> [k \in DOMAIN @.listed |-> WithFollowups(@.listed[k], @.read[k])]]]
    /\ UNCHANGED <<store, file, history>>

(* The rename; the new file's mtime is that of the last clock reading, or  *)
(* lags by a tick behind it.                                               *)
WriteSnapshot(p) ==
    /\ At(p, "write")
    /\ IF proc[p].committed
       THEN \E lag \in {0, 1} :
               file' = [content |-> proc[p].content, mtime |-> clock - 1 - lag]
       ELSE UNCHANGED file
    /\ proc' = [proc EXCEPT ![p].at = "chtimes"]
    /\ UNCHANGED <<store, clock, history>>

(* Mutant: the file keeps the time the rename gave it.                     *)
KeepTime(p) ==
    /\ At(p, "chtimes")
    /\ proc' = [proc EXCEPT ![p].at = "record"]
    /\ UNCHANGED <<store, file, clock, history>>

Chtimes(p) ==
    /\ At(p, "chtimes")
    /\ file' = IF proc[p].committed THEN [file EXCEPT !.mtime = proc[p].stamp] ELSE file
    /\ proc' = [proc EXCEPT ![p].at = "record"]
    /\ UNCHANGED <<store, clock, history>>

RecordExport(p) ==
    /\ At(p, "record") /\ Unlocked
    /\ exported' = proc[p].stamp
    /\ fresh' = (quiet[p] /\ proc[p].committed)
    /\ quiet' = [quiet EXCEPT ![p] = FALSE]
    /\ proc' = [proc EXCEPT ![p] = Idle]
    /\ UNCHANGED <<topics, followups, changed, file, clock, crossed>>

(* A killed transaction rolls back.                                        *)
Kill(p) ==
    /\ AllowKill /\ ~At(p, "idle")
    /\ proc' = [proc EXCEPT ![p] = Idle]
    /\ quiet' = [quiet EXCEPT ![p] = FALSE]
    /\ UNCHANGED <<store, file, clock, fresh, crossed>>

(* When the bound on the clock is reached every process ends idle.         *)
OutOfTime ==
    /\ clock >= MaxTime /\ \A p \in Procs : At(p, "idle")
    /\ UNCHANGED vars

-----------------------------------------------------------------------------

Step(p) ==
    \/ MarkChanged(p) \/ Change(p) \/ ReadExportedAt(p) \/ ReadChangedAt(p)
    \/ \E note \in BOOLEAN : EndChange(p, note)
    \/ StartImport(p) \/ RefuseImport(p) \/ MarkImported(p) \/ EndImport(p)
    \/ StartExport(p) \/ ReadFollowups(p) \/ TakeStamp(p)
    \/ WriteSnapshot(p) \/ Chtimes(p) \/ RecordExport(p)
    \/ Kill(p)

ExportNext == OutOfTime \/ \E p \in Procs : Step(p)

ExportSpec == ExportInit /\ [][ExportNext]_vars

-----------------------------------------------------------------------------
(* Properties.                                                             *)

(* A mutating command that ends while no other runs, and whose reading of  *)
(* changed_at is still the latest, prints the note if roadmap.json is not  *)
(* what the database holds (StaleExportNote: "the note a mutating command  *)
(* appends when the committed snapshot no longer matches the database").   *)
Unnoted(p) ==
    /\ EndChange(p, FALSE)
    /\ proc[p].changed = changed /\ \A q \in Procs \ {p} : At(q, "idle")
    /\ file.content # Loaded

NoteWhenStale == [][\A p \in Procs : ~Unnoted(p)]_vars

(* It does so wherever exports, imports, changes and kills interleave,     *)
(* unless two exports met, or a change was committed after an export began *)
(* to read and stamped before the export was.                              *)
NoteUnlessCrossed == [][\A p \in Procs : Unnoted(p) => crossed]_vars

(* Once an export that met no commit and no other export has recorded      *)
(* itself, no command finds the file out of date until the next commit     *)
(* (Export: the coarse clock "would otherwise make a freshly exported      *)
(* snapshot look stale"), though later exports to roadmap.json begin and   *)
(* die at any step; a finished one to another file makes it look stale.    *)
FreshIsQuiet == fresh => ~Stale(exported, changed, file.mtime)
==============================================================================
