----------------------- MODULE DatabaseFilesTheorems -----------------------
(***************************************************************************)
(* Theorems about DatabaseFiles, for every number of pages, processes,     *)
(* commits and recorded attempts.                                          *)
(*                                                                         *)
(* Why the bytes of `progress verify` are a committed state although no    *)
(* lock is held: a page's commit number only grows (FilesSound).  When     *)
(* verifySourceUnchanged finds no sidecar file the main file is an image   *)
(* that was committed.  What was read before that moment is not newer, and *)
(* what is read after it not older; if both readings agree they agree with *)
(* the image (CopySound).                                                  *)
(***************************************************************************)
EXTENDS DatabaseFiles, TLAPS

(* The main file lags behind the last commit page by page, and without     *)
(* committed frames in the -wal it does not lag.  Frames, committed or     *)
(* not, are in a -wal that is not empty, and whoever writes has it open.   *)
FilesSound ==
    /\ main \in [Pages -> Nat] /\ stamp \in Nat
    /\ images \in Seq([Pages -> Nat]) /\ Len(images) >= 1
    /\ frames \in {<<>>, <<images[Len(images)]>>}
    /\ frames = <<>> => main = images[Len(images)]
    /\ writes \in Nat /\ (frames # <<>> \/ writing # {} => wal = "written") /\ writing \subseteq open
    /\ \A q \in Pages : main[q] <= images[Len(images)][q] /\ images[Len(images)][q] <= Len(images)

VerifierTyped ==
    ver \in [at : {"idle", "stat", "read", "sidecars", "refused", "reported"},
             round : 0..3, page : 1..(PageCount + 1), stamp : Nat,
             copy : [Pages -> Nat], floor : 1..Len(images), writes : Nat]

(* The copy is not newer than the main file; from the first look for       *)
(* sidecar files of the second reading on, an image lies between the two;  *)
(* the pages that were read again are that image's.                        *)
Between(k) == \A q \in Pages :
    /\ ver.copy[q] <= images[k][q] /\ images[k][q] <= main[q]
    /\ ver.at = "read" /\ q < ver.page => ver.copy[q] = images[k][q]
CopySound ==
    /\ ver.round = 0 => \A q \in Pages : ver.copy[q] <= main[q]
    /\ ver.round = 1 /\ ver.at \in {"stat", "read"} =>
          \E k \in ver.floor..Len(images) : Between(k)
    /\ CopyIsCommitted
    /\ ver.at \in {"idle", "refused"} => ver.round = 0
    /\ ver.at = "reported" => ver.round = 3
    /\ ver.at = "sidecars" => ver.round \in 0..2

(* While nothing is written into the -wal, every reading finds what the    *)
(* first one did.                                                          *)
Undisturbed ==
    /\ wal # "written"
    /\ ver.round >= 1 \/ ver.at # "stat" => ver.stamp = stamp
    /\ \A q \in Pages : ver.round >= 1 \/ ver.at = "sidecars" \/ (ver.at = "read" /\ q < ver.page)
                           => ver.copy[q] = main[q]
QuietSound ==
    /\ ver.writes <= writes
    /\ writes = ver.writes /\ ver.at \in {"stat", "read", "sidecars"} => Undisturbed
    /\ RefusalMeansWrite

FileInv == FilesSound /\ VerifierTyped /\ CopySound /\ QuietSound

-----------------------------------------------------------------------------
(* Opening, writing, committing, checkpointing, closing and dying.         *)
FileStep ==
    \/ UNCHANGED shared
    \/ \E p \in Processes :
          \/ Open(p) \/ WriteFrames(p) \/ Rollback(p) \/ Close(p) \/ Die(p)
          \/ \E some \in SUBSET Pages : Commit(p, some)
          \/ \E page \in Pages : WritePage(p, page)

(* Whatever happens to the files, they stay sound, pages only get newer,   *)
(* commits are only added, and with an empty -wal nothing changes before   *)
(* somebody has written into it.                                           *)
LEMMA FilesStep ==
    ASSUME FilesSound, FileStep
    PROVE  /\ FilesSound'
           /\ \A q \in Pages : main[q] <= main'[q]
           /\ Len(images) <= Len(images')
           /\ \A k \in 1..Len(images) : images'[k] = images[k]
           /\ writes <= writes'
           /\ writes = writes' /\ wal # "written" => UNCHANGED <<main, stamp>> /\ wal' # "written"
<1>0. PageCount \in Nat /\ Pages = 1..PageCount
  BY PageCountAssumption DEF Pages
<1>1. CASE UNCHANGED shared
  BY <1>1 DEF shared, FilesSound
<1>2. CASE \E p \in Processes : Open(p) \/ Rollback(p) \/ Die(p)
  <2>1. PICK p \in Processes : Open(p) \/ Rollback(p) \/ Die(p)
    BY <1>2
  <2>2. /\ UNCHANGED <<main, stamp, frames, images, writes>>
        /\ (wal' = wal \/ (wal = "none" /\ wal' = "empty"))
        /\ (writing' # {} => writing # {})
    BY <2>1 DEF Open, Rollback, Die
  <2>3. writing \subseteq open => writing' \subseteq open'
    BY <2>1 DEF Open, Rollback, Die
  <2> QED
    BY <2>2, <2>3 DEF FilesSound
<1>3. CASE \E p \in Processes : WriteFrames(p)
  <2>1. /\ UNCHANGED <<main, stamp, frames, images>>
        /\ wal' = "written" /\ writes' = writes + 1 /\ writing' \subseteq open'
    BY <1>3 DEF WriteFrames
  <2> QED
    BY <2>1 DEF FilesSound
<1>4. CASE \E p \in Processes : Close(p)
  <2>1. PICK p \in Processes : Close(p)
    BY <1>4
  <2>2. UNCHANGED <<main, stamp, images, writes>> /\ (writing' # {} => writing # {})
    BY <2>1 DEF Close
  <2>5. writing' = writing \ {p} /\ open' = open \ {p} /\ writing \subseteq open
    BY <2>1 DEF Close, FilesSound
  <2>3. CASE UNCHANGED <<frames, wal>>
    BY <2>2, <2>3, <2>5 DEF FilesSound
  <2>4. CASE open = {p}
    <3>1. main = Latest /\ frames' = <<>> /\ wal' = "none"
      BY <2>1, <2>4 DEF Close
    <3>2. Latest = images[Len(images)]
      BY DEF FilesSound, Latest
    <3>3. writing' = {}
      BY <2>4, <2>5
    <3> QED
      BY <2>2, <3>1, <3>2, <3>3 DEF FilesSound
  <2> QED
    BY <2>1, <2>3, <2>4 DEF Close
<1>5. CASE \E p \in Processes : \E page \in Pages : WritePage(p, page)
  <2>1. PICK p \in Processes, page \in Pages : WritePage(p, page)
    BY <1>5
  <2>2. Latest = images[Len(images)] /\ frames # <<>>
    BY <2>1 DEF FilesSound, Latest, WritePage
  <2>3. /\ main' = [main EXCEPT ![page] = images[Len(images)][page]]
        /\ stamp' \in {stamp, Len(images)} /\ UNCHANGED <<frames, images, wal, writing, writes, open>>
    BY <2>1, <2>2 DEF WritePage
  <2>4. images[Len(images)] \in [Pages -> Nat]
    BY DEF FilesSound
  <2>5. \A q \in Pages : main'[q] = IF q = page THEN images[Len(images)][q] ELSE main[q]
    BY <2>3 DEF FilesSound
  <2>6. main' \in [Pages -> Nat] /\ stamp' \in Nat
    BY <2>3, <2>4 DEF FilesSound
  <2>7. ASSUME NEW q \in Pages
        PROVE  main[q] <= main'[q] /\ main'[q] <= images[Len(images)][q]
    <3>1. main[q] \in Nat /\ images[Len(images)][q] \in Nat /\ main[q] <= images[Len(images)][q]
      BY <2>4 DEF FilesSound
    <3> QED
      BY <2>5, <3>1
  <2> QED
    BY <2>2, <2>3, <2>6, <2>7 DEF FilesSound
<1>6. CASE \E p \in Processes : \E some \in SUBSET Pages : Commit(p, some)
  <2>1. PICK p \in Processes, some \in SUBSET Pages : Commit(p, some)
    BY <1>6
  <2> DEFINE image == [q \in Pages |-> IF q \in some THEN Len(images) + 1 ELSE Latest[q]]
  <2>2. /\ frames' = <<image>> /\ images' = Append(images, image) /\ writing' = {} /\ writing # {}
        /\ UNCHANGED <<main, stamp, wal, writes>>
    BY <2>1 DEF Commit
  <2>3. Latest = images[Len(images)] /\ Latest \in [Pages -> Nat]
    BY DEF FilesSound, Latest
  <2>4. image \in [Pages -> Nat]
    BY <2>3 DEF FilesSound
  <2>5. \A q \in Pages : Latest[q] <= image[q] /\ image[q] <= Len(images) + 1
    BY <2>3 DEF FilesSound
  <2>6. /\ images' \in Seq([Pages -> Nat]) /\ Len(images') = Len(images) + 1
        /\ images'[Len(images')] = image
        /\ \A k \in 1..Len(images) : images'[k] = images[k]
    <3> HIDE DEF image
    <3> QED
      BY <2>2, <2>4 DEF FilesSound
  <2>7. \A q \in Pages : main[q] <= image[q]
    BY <2>3, <2>4, <2>5 DEF FilesSound
  <2> HIDE DEF image
  <2>8. FilesSound'
    BY <2>2, <2>4, <2>5, <2>6, <2>7 DEF FilesSound
  <2> QED
    BY <2>2, <2>6, <2>8 DEF FilesSound
<1> QED
  BY <1>1, <1>2, <1>3, <1>4, <1>5, <1>6 DEF FileStep

-----------------------------------------------------------------------------
(* What happens to the files does not invalidate what a verification has   *)
(* found out so far.                                                       *)
LEMMA OthersKeepInv ==
    ASSUME FileInv, FileStep, UNCHANGED ver
    PROVE  FileInv'
<1>0. PageCount \in Nat /\ Pages = 1..PageCount
  BY PageCountAssumption DEF Pages
<1>1. /\ FilesSound'
      /\ \A q \in Pages : main[q] <= main'[q]
      /\ Len(images) <= Len(images')
      /\ \A k \in 1..Len(images) : images'[k] = images[k]
      /\ writes <= writes'
      /\ writes = writes' /\ wal # "written" => UNCHANGED <<main, stamp>> /\ wal' # "written"
  BY FilesStep DEF FileInv
<1>2. /\ Len(images) \in Nat /\ Len(images') \in Nat
      /\ \A q \in Pages : main[q] \in Nat /\ main'[q] \in Nat
      /\ \A k \in 1..Len(images) : \A q \in Pages : images[k][q] \in Nat
  <2>1. images \in Seq([Pages -> Nat]) /\ main \in [Pages -> Nat]
    BY DEF FileInv, FilesSound
  <2>2. images' \in Seq([Pages -> Nat]) /\ main' \in [Pages -> Nat]
    BY <1>1 DEF FilesSound
  <2>3. \A k \in 1..Len(images) : images[k] \in [Pages -> Nat]
    BY <2>1
  <2> QED
    BY <2>1, <2>2, <2>3
<1>3. ver.floor \in 1..Len(images) /\ \A q \in Pages : ver.copy[q] \in Nat
  BY DEF FileInv, VerifierTyped
<1>4. VerifierTyped'
  BY <1>1, <1>2 DEF FileInv, VerifierTyped
<1>5. CopyIsCommitted'
  BY <1>1, <1>2, <1>3 DEF FileInv, CopySound, CopyIsCommitted, Accepted
<1>6. ASSUME ver.round = 1, ver.at \in {"stat", "read"}
      PROVE  \E k \in ver.floor..Len(images') : Between(k)'
  <2>1. PICK k \in ver.floor..Len(images) : Between(k)
    BY <1>6 DEF FileInv, CopySound
  <2>2. k \in ver.floor..Len(images') /\ k \in 1..Len(images)
    BY <1>1, <1>2, <1>3
  <2>3. ASSUME NEW q \in Pages
        PROVE  /\ ver.copy[q] <= images'[k][q] /\ images'[k][q] <= main'[q]
               /\ ver.at = "read" /\ q < ver.page => ver.copy[q] = images'[k][q]
    BY <1>1, <1>2, <1>3, <2>1, <2>2 DEF Between
  <2>4. Between(k)'
    BY <2>3 DEF Between
  <2> QED
    BY <2>2, <2>4
<1>7. ver.round = 0 => \A q \in Pages : ver.copy[q] <= main'[q]
  BY <1>1, <1>2, <1>3 DEF FileInv, CopySound
<1>8. CopySound'
  BY <1>5, <1>6, <1>7 DEF FileInv, CopySound
<1>9. QuietSound'
  <2>1. /\ ver.writes \in Nat /\ writes \in Nat /\ writes' \in Nat
        /\ ver.writes <= writes /\ writes <= writes'
    BY <1>1 DEF FileInv, FilesSound, VerifierTyped, QuietSound
  <2>2. CASE writes' = ver.writes
    <3>1. writes = ver.writes /\ writes = writes'
      BY <2>1, <2>2
    <3>2. CASE ver.at \in {"stat", "read", "sidecars"}
      <4>1. Undisturbed
        BY <3>1, <3>2 DEF FileInv, QuietSound
      <4>2. Undisturbed'
        BY <1>1, <3>1, <4>1 DEF Undisturbed
      <4> QED
        BY <2>1, <2>2, <3>2, <4>2 DEF QuietSound, RefusalMeansWrite
    <3> QED
      BY <2>1, <3>1, <3>2 DEF FileInv, QuietSound, RefusalMeansWrite
  <2>3. CASE writes' # ver.writes
    <3>1. ver.writes <= writes' /\ writes' > ver.writes
      BY <2>1, <2>3
    <3> QED
      BY <2>3, <3>1 DEF QuietSound, RefusalMeansWrite
  <2> QED
    BY <2>2, <2>3
<1> QED
  BY <1>1, <1>4, <1>8, <1>9 DEF FileInv

-----------------------------------------------------------------------------
(* A refused look leaves nothing that was read, and was caused by somebody *)
(* who wrote into the -wal.                                                *)
LEMMA RefusalSound ==
    ASSUME FileInv, UNCHANGED shared, writes > ver.writes,
           ver' = [at |-> "refused", round |-> 0, page |-> 1, stamp |-> 0,
                   copy |-> [p \in Pages |-> 0], floor |-> ver.floor, writes |-> ver.writes]
    PROVE  FileInv'
<1>0. PageCount \in Nat \ {0} /\ Pages = 1..PageCount
  BY PageCountAssumption DEF Pages
<1>1. /\ ver'.at = "refused" /\ ver'.round = 0 /\ ver'.page = 1 /\ ver'.stamp = 0
      /\ ver'.floor = ver.floor /\ ver'.writes = ver.writes /\ ver'.copy = [p \in Pages |-> 0]
  OBVIOUS
<1>2. UNCHANGED <<main, stamp, wal, writing, frames, images, writes, open>>
  BY DEF shared
<1>3. FilesSound'
  BY <1>2 DEF FileInv, FilesSound
<1>4. VerifierTyped'
  <2>2. ver.floor \in 1..Len(images') /\ 1 \in 1..(PageCount + 1) /\ ver.writes \in Nat
    BY <1>0, <1>2 DEF FileInv, VerifierTyped
  <2>3. [p \in Pages |-> 0] \in [Pages -> Nat]
    OBVIOUS
  <2> QED
    BY <2>2, <2>3 DEF VerifierTyped
<1>5. \A q \in Pages : ver'.copy[q] <= main'[q]
  BY <1>1, <1>2 DEF FileInv, FilesSound
<1>6. CopySound'
  BY <1>1, <1>5 DEF CopySound, CopyIsCommitted, Accepted
<1>7. QuietSound'
  <2>1. ver.writes \in Nat /\ writes \in Nat
    BY DEF FileInv, VerifierTyped, FilesSound
  <2> QED
    BY <1>1, <1>2, <2>1 DEF QuietSound, RefusalMeansWrite
<1> QED
  BY <1>3, <1>4, <1>6, <1>7 DEF FileInv

-----------------------------------------------------------------------------
(* The five steps of the verification.  It begins when the main file is an *)
(* image, the last one.                                                    *)
LEMMA BeginVerifySound ==
    ASSUME FileInv, BeginVerify, UNCHANGED shared
    PROVE  FileInv'
<1>0. PageCount \in Nat \ {0} /\ Pages = 1..PageCount
  BY PageCountAssumption DEF Pages
<1>1. ver' = [at |-> "stat", round |-> 0, page |-> 1, stamp |-> 0,
              copy |-> [p \in Pages |-> 0], floor |-> Len(images), writes |-> writes]
  BY DEF BeginVerify, NotVerifying
<1>2. UNCHANGED <<main, stamp, wal, writing, frames, images, writes, open>> /\ wal # "written" /\ frames = <<>>
  BY DEF shared, BeginVerify, NoSidecars, FileInv, FilesSound
<1>3. FilesSound'
  BY <1>2 DEF FileInv, FilesSound
<1>4. Len(images) \in 1..Len(images') /\ 1 \in 1..(PageCount + 1) /\ writes \in Nat
  BY <1>0, <1>2 DEF FileInv, FilesSound
<1>5. [p \in Pages |-> 0] \in [Pages -> Nat]
  OBVIOUS
<1>6. VerifierTyped'
  BY <1>1, <1>4, <1>5 DEF VerifierTyped
<1>7. \A q \in Pages : ver'.copy[q] <= main'[q]
  BY <1>1, <1>2 DEF FileInv, FilesSound
<1>8. CopySound'
  BY <1>1, <1>7 DEF CopySound, CopyIsCommitted, Accepted
<1>9. QuietSound'
  <2>1. writes \in Nat /\ ver'.writes = writes /\ ver'.at = "stat" /\ ver'.round = 0
    BY <1>1 DEF FileInv, FilesSound
  <2> QED
    BY <1>1, <1>2, <2>1 DEF QuietSound, RefusalMeansWrite, Undisturbed
<1> QED
  BY <1>3, <1>6, <1>8, <1>9 DEF FileInv

(* What was read so far stays what it was; a stamp that differs means that *)
(* somebody committed.                                                     *)
LEMMA StatSound ==
    ASSUME FileInv, Stat, UNCHANGED shared
    PROVE  FileInv'
<1>0. PageCount \in Nat \ {0} /\ Pages = 1..PageCount
  BY PageCountAssumption DEF Pages
<1> DEFINE ok == ver.round = 0 \/ ver.stamp = stamp
<1>1. CASE ~ok
  <2>1. ver' = [at |-> "refused", round |-> 0, page |-> 1, stamp |-> 0,
                copy |-> [p \in Pages |-> 0], floor |-> ver.floor, writes |-> ver.writes]
    BY <1>1 DEF Stat, Unless, NotVerifying
  <2>2. ver.round >= 1 /\ ver.writes <= writes /\ ver.writes \in Nat /\ writes \in Nat
    BY <1>1 DEF FileInv, VerifierTyped, FilesSound, QuietSound
  <2>3. writes # ver.writes
    BY <1>1, <2>2 DEF FileInv, QuietSound, Undisturbed, Stat
  <2> QED
    BY <2>1, <2>2, <2>3, RefusalSound
<1>2. CASE ok
  <2>1. ver' = [ver EXCEPT !.at = "read", !.page = 1, !.stamp = stamp] /\ ver.at = "stat"
    BY <1>2 DEF Stat, Unless
  <2>2. UNCHANGED <<main, stamp, wal, writing, frames, images, writes, open>>
    BY DEF shared
  <2>3. FilesSound'
    BY <2>2 DEF FileInv, FilesSound
  <2>4. VerifierTyped'
    <3>1. ver' = [at |-> "read", round |-> ver.round, page |-> 1, stamp |-> stamp,
                  copy |-> ver.copy, floor |-> ver.floor, writes |-> ver.writes]
      BY <2>1 DEF FileInv, VerifierTyped
    <3>2. /\ ver.round \in 0..3 /\ 1 \in 1..(PageCount + 1) /\ stamp \in Nat
          /\ ver.copy \in [Pages -> Nat] /\ ver.floor \in 1..Len(images') /\ ver.writes \in Nat
      BY <1>0, <2>2 DEF FileInv, VerifierTyped, FilesSound
    <3> QED
      BY <3>1, <3>2 DEF VerifierTyped
  <2>5. /\ ver'.at = "read" /\ ver'.page = 1 /\ ver'.stamp = stamp
        /\ ver'.round = ver.round /\ ver'.copy = ver.copy /\ ver'.floor = ver.floor /\ ver'.writes = ver.writes
    BY <2>1 DEF FileInv, VerifierTyped
  <2>6. \A q \in Pages : ~(q < 1)
    BY <1>0
  <2>7. \A k : Between(k) => Between(k)'
    BY <2>2, <2>5, <2>6 DEF Between
  <2>8. CopyIsCommitted'
    BY <2>1, <2>2, <2>5 DEF FileInv, CopySound, CopyIsCommitted, Accepted
  <2>9. CopySound'
    BY <2>1, <2>2, <2>5, <2>7, <2>8 DEF FileInv, CopySound
  <2>10. QuietSound'
    BY <2>1, <2>2, <2>5, <2>6 DEF FileInv, QuietSound, Undisturbed, RefusalMeansWrite
  <2> QED
    BY <2>3, <2>4, <2>9, <2>10 DEF FileInv
<1> QED
  BY <1>1, <1>2

(* In the first reading the page joins the copy; in the later ones it is   *)
(* the copy's already, and so the page of the image in between.            *)
LEMMA ReadPageSound ==
    ASSUME FileInv, ReadPage, UNCHANGED shared
    PROVE  FileInv'
<1>0. PageCount \in Nat \ {0} /\ Pages = 1..PageCount
  BY PageCountAssumption DEF Pages
<1>1. CASE ~SameBytes(ver.page)
  <2>1. ver' = [at |-> "refused", round |-> 0, page |-> 1, stamp |-> 0,
                copy |-> [p \in Pages |-> 0], floor |-> ver.floor, writes |-> ver.writes]
    BY <1>1 DEF ReadPage, Unless, NotVerifying
  <2>2. ver.round >= 1 /\ ver.writes <= writes /\ ver.writes \in Nat /\ writes \in Nat
    BY <1>1 DEF FileInv, VerifierTyped, FilesSound, QuietSound, SameBytes
  <2>3. writes # ver.writes
    BY <1>1, <2>2 DEF FileInv, QuietSound, Undisturbed, ReadPage, SameBytes
  <2> QED
    BY <2>1, <2>2, <2>3, RefusalSound
<1>2. CASE SameBytes(ver.page)
  <2> DEFINE p == ver.page
             copy == IF ver.round = 0 THEN [ver.copy EXCEPT ![p] = main[p]] ELSE ver.copy
  <2>1. p \in Pages /\ p \in Nat /\ ver.at = "read"
    BY <1>0 DEF ReadPage
  <2>2. UNCHANGED <<main, stamp, wal, writing, frames, images, writes, open>>
    BY DEF shared
  <2>3. FilesSound'
    BY <2>2 DEF FileInv, FilesSound
  <2>4. ver.copy \in [Pages -> Nat] /\ main \in [Pages -> Nat]
    BY DEF FileInv, VerifierTyped, FilesSound
  <2>5. ver' = [ver EXCEPT !.page = p + 1, !.copy = copy]
    <3>1. ver' = [ver EXCEPT !.page = p + 1,
                             !.copy[p] = IF ver.round = 0 THEN main[p] ELSE @]
      BY <1>2 DEF ReadPage, Unless
    <3>2. ver.round # 0 => [ver.copy EXCEPT ![p] = ver.copy[p]] = ver.copy
      BY <2>4
    <3> QED
      BY <3>1, <3>2 DEF FileInv, VerifierTyped
  <2>6. copy \in [Pages -> Nat]
    BY <2>1, <2>4
  <2>7. \A q \in Pages : copy[q] = IF ver.round = 0 /\ q = p THEN main[q] ELSE ver.copy[q]
    BY <2>4
  <2>8. copy[p] = main[p]
    BY <1>2, <2>1, <2>7 DEF SameBytes
  <2> HIDE DEF copy
  <2>9. VerifierTyped'
    <3>1. ver' = [at |-> "read", round |-> ver.round, page |-> p + 1, stamp |-> ver.stamp,
                  copy |-> copy, floor |-> ver.floor, writes |-> ver.writes]
      BY <2>1, <2>5 DEF FileInv, VerifierTyped
    <3>2. /\ ver.round \in 0..3 /\ p + 1 \in 1..(PageCount + 1) /\ ver.stamp \in Nat
          /\ ver.floor \in 1..Len(images') /\ ver.writes \in Nat
      BY <1>0, <2>1, <2>2 DEF FileInv, VerifierTyped
    <3> QED
      BY <2>6, <3>1, <3>2 DEF VerifierTyped
  <2>10. /\ ver'.at = "read" /\ ver'.page = p + 1 /\ ver'.stamp = ver.stamp
         /\ ver'.round = ver.round /\ ver'.copy = copy /\ ver'.floor = ver.floor /\ ver'.writes = ver.writes
    BY <2>1, <2>5 DEF FileInv, VerifierTyped
  <2>11. \A q \in Pages : q < p + 1 => q < p \/ q = p
    BY <1>0, <2>1
  <2>12. ver.round = 0 => \A q \in Pages : copy[q] <= main[q]
    BY <2>4, <2>7 DEF FileInv, CopySound
  <2>13. ASSUME ver.round = 1
         PROVE  \E k \in ver.floor..Len(images) : Between(k)'
    <3>1. PICK k \in ver.floor..Len(images) : Between(k)
      BY <2>1, <2>13 DEF FileInv, CopySound
    <3>2. images[k] \in [Pages -> Nat]
      BY DEF FileInv, FilesSound, VerifierTyped
    <3>3. ver.copy = copy
      BY <2>13 DEF copy
    <3>4. images[k][p] = copy[p]
      BY <2>1, <2>4, <2>8, <3>1, <3>2, <3>3 DEF Between
    <3>5. Between(k)'
      BY <2>1, <2>2, <2>10, <2>11, <3>1, <3>3, <3>4 DEF Between
    <3> QED
      BY <3>5
  <2>14. CopyIsCommitted'
    BY <2>1, <2>2, <2>10 DEF FileInv, CopySound, CopyIsCommitted, Accepted, copy
  <2>15. CopySound'
    BY <2>1, <2>2, <2>10, <2>12, <2>13, <2>14 DEF FileInv, CopySound
  <2>16. QuietSound'
    <3>1. Undisturbed => Undisturbed'
      BY <2>1, <2>2, <2>7, <2>8, <2>10, <2>11 DEF Undisturbed
    <3> QED
      BY <2>1, <2>2, <2>10, <3>1 DEF FileInv, QuietSound, RefusalMeansWrite
  <2> QED
    BY <2>3, <2>9, <2>15, <2>16 DEF FileInv
<1> QED
  BY <1>1, <1>2

(* At the end of the second reading every page is the image's.             *)
LEMMA EndRoundSound ==
    ASSUME FileInv, EndRound, UNCHANGED shared
    PROVE  FileInv'
<1>0. PageCount \in Nat \ {0} /\ Pages = 1..PageCount
  BY PageCountAssumption DEF Pages
<1> DEFINE ok == ver.round = 0 \/ NoSidecars
<1>1. CASE ~ok
  <2>1. ver' = [at |-> "refused", round |-> 0, page |-> 1, stamp |-> 0,
                copy |-> [p \in Pages |-> 0], floor |-> ver.floor, writes |-> ver.writes]
    BY <1>1 DEF EndRound, Unless, NotVerifying
  <2>2. ver.writes <= writes /\ ver.writes \in Nat /\ writes \in Nat
    BY DEF FileInv, VerifierTyped, FilesSound, QuietSound
  <2>3. writes # ver.writes
    BY <1>1, <2>2 DEF FileInv, QuietSound, Undisturbed, EndRound, NoSidecars
  <2> QED
    BY <2>1, <2>2, <2>3, RefusalSound
<1>2. CASE ok
  <2> DEFINE next == IF ver.round = 3 THEN "reported" ELSE "sidecars"
  <2>1. ver' = [ver EXCEPT !.at = next] /\ ver.at = "read" /\ ver.page \notin Pages
    BY <1>2 DEF EndRound, Unless
  <2>2. UNCHANGED <<main, stamp, wal, writing, frames, images, writes, open>>
    BY DEF shared
  <2>3. FilesSound'
    BY <2>2 DEF FileInv, FilesSound
  <2>4. /\ ver'.at = next /\ ver'.page = ver.page /\ ver'.stamp = ver.stamp
        /\ ver'.round = ver.round /\ ver'.copy = ver.copy /\ ver'.floor = ver.floor /\ ver'.writes = ver.writes
    BY <2>1 DEF FileInv, VerifierTyped
  <2>5. VerifierTyped'
    <3>1. ver' = [at |-> next, round |-> ver.round, page |-> ver.page, stamp |-> ver.stamp,
                  copy |-> ver.copy, floor |-> ver.floor, writes |-> ver.writes]
      BY <2>1 DEF FileInv, VerifierTyped
    <3>2. /\ ver.round \in 0..3 /\ ver.page \in 1..(PageCount + 1) /\ ver.stamp \in Nat
          /\ ver.copy \in [Pages -> Nat] /\ ver.floor \in 1..Len(images') /\ ver.writes \in Nat
      BY <2>2 DEF FileInv, VerifierTyped
    <3> QED
      BY <3>1, <3>2 DEF VerifierTyped
  <2>6. \A q \in Pages : q < ver.page
    BY <1>0, <2>1 DEF FileInv, VerifierTyped
  <2>7. ver.round \in {0, 1, 2, 3}
    BY DEF FileInv, VerifierTyped
  <2>8. ASSUME ver.round >= 1
        PROVE  \E k \in ver.floor..Len(images) : ver.copy = images[k]
    <3>1. CASE ver.round = 1
      <4>1. PICK k \in ver.floor..Len(images) : Between(k)
        BY <2>1, <3>1 DEF FileInv, CopySound
      <4>2. \A q \in Pages : ver.copy[q] = images[k][q]
        BY <2>1, <2>6, <4>1 DEF Between
      <4>3. images[k] \in [Pages -> Nat] /\ ver.copy \in [Pages -> Nat]
        BY DEF FileInv, FilesSound, VerifierTyped
      <4> QED
        BY <4>2, <4>3
    <3>2. CASE ver.round >= 2
      BY <3>2 DEF FileInv, CopySound, CopyIsCommitted, Accepted
    <3> QED
      BY <2>7, <2>8, <3>1, <3>2
  <2>9. CopyIsCommitted'
    BY <2>2, <2>4, <2>7, <2>8 DEF CopyIsCommitted, Accepted
  <2>10. CopySound'
    BY <2>2, <2>4, <2>7, <2>9 DEF FileInv, CopySound
  <2>11. QuietSound'
    <3>1. Undisturbed => Undisturbed'
      BY <2>1, <2>2, <2>4, <2>6 DEF Undisturbed
    <3> QED
      BY <2>1, <2>2, <2>4, <3>1 DEF FileInv, QuietSound, RefusalMeansWrite
  <2> QED
    BY <2>3, <2>5, <2>10, <2>11 DEF FileInv
<1> QED
  BY <1>1, <1>2

(* Without a sidecar file the main file is an image, between what was read *)
(* before and what will be read after.                                     *)
LEMMA BeginRoundSound ==
    ASSUME FileInv, BeginRound, UNCHANGED shared
    PROVE  FileInv'
<1>1. CASE ~NoSidecars
  <2>1. ver' = [at |-> "refused", round |-> 0, page |-> 1, stamp |-> 0,
                copy |-> [p \in Pages |-> 0], floor |-> ver.floor, writes |-> ver.writes]
    BY <1>1 DEF BeginRound, Unless, NotVerifying
  <2>2. ver.writes <= writes /\ ver.writes \in Nat /\ writes \in Nat
    BY DEF FileInv, VerifierTyped, FilesSound, QuietSound
  <2>3. writes # ver.writes
    BY <1>1 DEF FileInv, QuietSound, Undisturbed, BeginRound, NoSidecars
  <2> QED
    BY <2>1, <2>2, <2>3, RefusalSound
<1>2. CASE NoSidecars
  <2>1. ver' = [ver EXCEPT !.at = "stat", !.round = ver.round + 1] /\ ver.at = "sidecars"
    BY <1>2 DEF BeginRound, Unless
  <2>2. UNCHANGED <<main, stamp, wal, writing, frames, images, writes, open>> /\ main = images[Len(images)]
    BY <1>2 DEF shared, NoSidecars, FileInv, FilesSound
  <2>3. FilesSound'
    BY <2>2 DEF FileInv, FilesSound
  <2>4. /\ ver'.at = "stat" /\ ver'.page = ver.page /\ ver'.stamp = ver.stamp
        /\ ver'.round = ver.round + 1 /\ ver'.copy = ver.copy /\ ver'.floor = ver.floor /\ ver'.writes = ver.writes
    BY <2>1 DEF FileInv, VerifierTyped
  <2>5. ver.round \in {0, 1, 2}
    BY <2>1 DEF FileInv, CopySound, VerifierTyped
  <2>6. VerifierTyped'
    <3>1. ver' = [at |-> "stat", round |-> ver.round + 1, page |-> ver.page, stamp |-> ver.stamp,
                  copy |-> ver.copy, floor |-> ver.floor, writes |-> ver.writes]
      BY <2>1 DEF FileInv, VerifierTyped
    <3>2. /\ ver.round + 1 \in 0..3 /\ ver.page \in 1..(PageCount + 1) /\ ver.stamp \in Nat
          /\ ver.copy \in [Pages -> Nat] /\ ver.floor \in 1..Len(images') /\ ver.writes \in Nat
      BY <2>2, <2>5 DEF FileInv, VerifierTyped
    <3> QED
      BY <3>1, <3>2 DEF VerifierTyped
  <2>7. Len(images) \in ver.floor..Len(images)
    BY DEF FileInv, VerifierTyped, FilesSound
  <2>8. ver.round = 0 => Between(Len(images))'
    <3>1. ver.round = 0 => \A q \in Pages : ver.copy[q] <= main[q] /\ main[q] \in Nat
      BY DEF FileInv, CopySound, FilesSound
    <3> QED
      BY <2>2, <2>4, <3>1 DEF Between
  <2>9. CopyIsCommitted'
    BY <2>1, <2>2, <2>4, <2>5 DEF FileInv, CopySound, CopyIsCommitted, Accepted
  <2>10. CopySound'
    BY <2>2, <2>4, <2>5, <2>7, <2>8, <2>9 DEF CopySound
  <2>11. QuietSound'
    <3>1. Undisturbed => Undisturbed'
      BY <2>1, <2>2, <2>4, <2>5 DEF Undisturbed
    <3> QED
      BY <2>1, <2>2, <2>4, <3>1 DEF FileInv, QuietSound, RefusalMeansWrite
  <2> QED
    BY <2>3, <2>6, <2>10, <2>11 DEF FileInv
<1> QED
  BY <1>1, <1>2

-----------------------------------------------------------------------------
(* Every step of the system is one of the verification, which leaves the   *)
(* files alone, or one of the others, which leave the verification alone.  *)
LEMMA StepKinds ==
    ASSUME [Next]_vars
    PROVE  \/ (BeginVerify \/ Stat \/ ReadPage \/ EndRound \/ BeginRound) /\ UNCHANGED shared
           \/ FileStep /\ UNCHANGED ver
<1>1. ASSUME NEW p \in Verbs, Verb(p)
      PROVE  FileStep /\ UNCHANGED ver
  <2>1. p \in Processes
    BY DEF Processes
  <2> QED
    BY <1>1, <2>1 DEF Verb, FileStep
<1>2. CASE WriterOpens \/ WriterRecords \/ WriterCloses \/ WriterDies
  BY <1>2 DEF WriterOpens, WriterRecords, WriterCloses, WriterDies, FileStep
<1>3. CASE Look \/ ReadSource \/ MoveMain \/ MoveWal
  BY <1>3 DEF Look, ReadSource, MoveMain, MoveWal, FileStep
<1>4. Consolidator \in Processes
  BY DEF Processes
<1>5. CASE CommitCopy
  <2>1. Commit(Consolidator, Pages) /\ UNCHANGED ver
    BY <1>5 DEF CommitCopy
  <2>2. Pages \in SUBSET Pages
    OBVIOUS
  <2> QED
    BY <1>4, <2>1, <2>2 DEF FileStep
<1>6. CASE UseShared
  BY <1>4, <1>6 DEF UseShared, FileStep
<1>7. CASE ConsolidateFails
  BY <1>4, <1>7 DEF ConsolidateFails, FileStep
<1>8. CASE Verify
  BY <1>8 DEF Verify
<1>9. CASE UNCHANGED vars
  BY <1>9 DEF vars, FileStep
<1> QED
  BY <1>1, <1>2, <1>3, <1>5, <1>6, <1>7, <1>8, <1>9 DEF Next, Consolidate

(* The invariant of the files holds from the start.                        *)
LEMMA InitFileInv ==
    ASSUME Init
    PROVE  FileInv
<1>0. PageCount \in Nat \ {0} /\ Pages = 1..PageCount
  BY PageCountAssumption DEF Pages
<1> DEFINE first == [q \in Pages |-> 1]
<1>1. main = first /\ stamp = 1 /\ images = <<first>> /\ frames = <<>> /\ writing = {} /\ writes = 0
  BY DEF Init
<1>2. first \in [Pages -> Nat] /\ \A q \in Pages : first[q] = 1
  OBVIOUS
<1> HIDE DEF first
<1>3. images \in Seq([Pages -> Nat]) /\ Len(images) = 1 /\ images[1] = first
  BY <1>1, <1>2
<1>4. FilesSound
  BY <1>1, <1>2, <1>3 DEF FilesSound
<1>5. ver = [at |-> "idle", round |-> 0, page |-> 1, stamp |-> 0,
             copy |-> [p \in Pages |-> 0], floor |-> 1, writes |-> 0]
  BY DEF Init, NotVerifying
<1>6. [p \in Pages |-> 0] \in [Pages -> Nat] /\ 1 \in 1..(PageCount + 1) /\ 1 \in 1..Len(images)
  BY <1>0, <1>3
<1>7. VerifierTyped
  BY <1>5, <1>6 DEF VerifierTyped
<1>8. CopySound
  BY <1>1, <1>2, <1>5 DEF CopySound, CopyIsCommitted, Accepted
<1>9. QuietSound
  BY <1>1, <1>5 DEF QuietSound, RefusalMeansWrite
<1> QED
  BY <1>4, <1>7, <1>8, <1>9 DEF FileInv

(* FileInv is an invariant of the specification.                           *)
LEMMA FilesAlwaysSound == Spec => []FileInv
<1>1. FileInv /\ [Next]_vars => FileInv'
  BY StepKinds, OthersKeepInv, BeginVerifySound, StatSound, ReadPageSound, EndRoundSound,
     BeginRoundSound
<1> QED
  BY <1>1, InitFileInv, PTL DEF Spec

(* The bytes `progress verify` works on are one committed state of the     *)
(* database, none older than the command, although it takes no lock and    *)
(* others commit and checkpoint meanwhile.                                 *)
THEOREM CopyAlwaysCommitted == Spec => []CopyIsCommitted
<1>1. FileInv => CopyIsCommitted
  BY DEF FileInv, CopySound
<1> QED
  BY <1>1, FilesAlwaysSound, PTL

(* A verify that is refused after its first look was disturbed by a        *)
(* transaction that wrote into the -wal since, committed or not: opening,  *)
(* reading, checkpoints and closing alone never refuse it.                 *)
THEOREM RefusalAlwaysMeansWrite == Spec => []RefusalMeansWrite
<1>1. FileInv => RefusalMeansWrite
  BY DEF FileInv, QuietSound
<1> QED
  BY <1>1, FilesAlwaysSound, PTL

-----------------------------------------------------------------------------
(* The legacy database is read and moved while nobody writes it: where its *)
(* main file is, its content can be read, and it leaves the courses only   *)
(* when all of it is in the shared database.                               *)
MoveSound ==
    /\ legacy \in [main : {"courses", "backup"}, wal : {"none", "courses", "backup"}, rows : Nat]
    /\ recorded \in Nat /\ writer \in BOOLEAN
    /\ con \in [at : {"idle", "copy", "commit", "close", "main", "wal"}, replace : BOOLEAN, seen : Nat]
    /\ writer => con.at = "idle" /\ legacy.main = "courses"
    /\ con.at \in {"copy", "commit", "close", "main"} => legacy.main = "courses"
    /\ con.at = "wal" => legacy.main = "backup"
    /\ con.at \in {"close", "main", "wal"} => copied = recorded
    /\ legacy.main = "courses" => legacy.wal \in {"none", "courses"} /\ Readable = recorded
    /\ legacy.main = "backup" => copied = recorded

(* The steps that touch neither the legacy files nor the consolidation.    *)
LEMMA MoveSoundStutters ==
    ASSUME MoveSound, UNCHANGED <<learning, con>>
    PROVE  MoveSound'
  BY DEF MoveSound, learning, Readable

(* What the legacy writer does.                                            *)
LEMMA WriterKeepsMoveSound ==
    ASSUME MoveSound, WriterOpens \/ WriterRecords \/ WriterCloses \/ WriterDies
    PROVE  MoveSound'
<1>1. CASE WriterOpens
  BY <1>1 DEF WriterOpens, MoveSound, Readable
<1>2. CASE WriterRecords
  BY <1>2 DEF WriterRecords, MoveSound, Readable
<1>3. CASE WriterCloses
  BY <1>3 DEF WriterCloses, MoveSound, Readable
<1>4. CASE WriterDies
  BY <1>4 DEF WriterDies, MoveSound, Readable
<1> QED
  BY <1>1, <1>2, <1>3, <1>4

(* What the consolidation does, failing included.                          *)
LEMMA ConsolidationKeepsMoveSound ==
    ASSUME MoveSound, Consolidate
    PROVE  MoveSound'
<1>1. CASE Look
  BY <1>1 DEF Look, learning, MoveSound, Readable, NoHolders
<1>2. CASE ReadSource
  <2>1. Readable \in Nat
    BY DEF MoveSound, Readable
  <2> QED
    BY <1>2, <2>1 DEF ReadSource, learning, MoveSound, Readable
<1>3. CASE CommitCopy
  <2>1. copied' = recorded
    BY <1>3 DEF CommitCopy, CourseRows, MoveSound
  <2> QED
    BY <1>3, <2>1 DEF CommitCopy, MoveSound, Readable
<1>4. CASE UseShared
  BY <1>4 DEF UseShared, learning, MoveSound, Readable
<1>5. CASE MoveMain
  BY <1>5 DEF MoveMain, MoveSound, Readable
<1>6. CASE MoveWal
  <2>1. con' = [at |-> "idle", replace |-> FALSE, seen |-> 0]
    BY <1>6 DEF MoveWal, NotConsolidating
  <2>2. legacy.main = "backup" /\ legacy' = [legacy EXCEPT !.wal = IF legacy.wal = "none" THEN "none" ELSE "backup"]
    BY <1>6 DEF MoveWal, MoveSound
  <2>3. UNCHANGED <<writer, recorded, copied>>
    BY <1>6 DEF MoveWal
  <2> QED
    BY <1>6, <2>1, <2>2, <2>3 DEF MoveWal, MoveSound, Readable
<1>7. CASE ConsolidateFails
  <2>1. con' = [at |-> "idle", replace |-> FALSE, seen |-> 0] /\ UNCHANGED learning
    BY <1>7 DEF ConsolidateFails, NotConsolidating
  <2>2. con.at # "idle"
    BY <1>7 DEF ConsolidateFails
  <2> QED
    BY <2>1, <2>2 DEF learning, MoveSound, Readable
<1> QED
  BY <1>1, <1>2, <1>3, <1>4, <1>5, <1>6, <1>7 DEF Consolidate

(* Whatever a consolidation leaves behind when it fails or is killed, what *)
(* the learner recorded is in the shared database or still readable where  *)
(* the legacy main file is.                                                *)
THEOREM HistoryAlwaysKept == Spec => []HistoryKept
<1>1. Init => MoveSound
  <2>1. ASSUME Init
        PROVE  /\ con = [at |-> "idle", replace |-> FALSE, seen |-> 0]
               /\ legacy = [main |-> "courses", wal |-> "none", rows |-> 1]
               /\ writer = FALSE /\ recorded = 1 /\ copied = 0
    BY <2>1 DEF Init, NotConsolidating
  <2>2. ASSUME Init
        PROVE  MoveSound
    <3>1. ~writer /\ writer \in BOOLEAN
      BY <2>1, <2>2
    <3>2. Readable = 1
      BY <2>1, <2>2 DEF Readable
    <3>3. con \in [at : {"idle", "copy", "commit", "close", "main", "wal"}, replace : BOOLEAN, seen : Nat]
      <4>1. FALSE \in BOOLEAN /\ 0 \in Nat
        OBVIOUS
      <4>2. con = [at |-> "idle", replace |-> FALSE, seen |-> 0]
        BY <2>1, <2>2
      <4> QED
        BY <4>1, <4>2, Zenon
    <3>4. legacy \in [main : {"courses", "backup"}, wal : {"none", "courses", "backup"}, rows : Nat]
      BY <2>1, <2>2
    <3>5. con.at = "idle" /\ legacy.main = "courses" /\ legacy.wal = "none" /\ recorded = 1
      BY <2>1, <2>2
    <3> QED
      BY <3>1, <3>2, <3>3, <3>4, <3>5 DEF MoveSound
  <2> QED
    BY <2>2
<1>2. MoveSound /\ [Next]_vars => MoveSound'
  <2>1. ASSUME NEW p \in Verbs, Verb(p)
        PROVE  UNCHANGED <<learning, con>>
    BY <2>1 DEF Verb
  <2>2. Verify \/ UNCHANGED vars => UNCHANGED <<learning, con>>
    BY DEF Verify, vars
  <2> QED
    BY <2>1, <2>2, MoveSoundStutters, WriterKeepsMoveSound, ConsolidationKeepsMoveSound DEF Next
<1>3. MoveSound => HistoryKept
  BY DEF MoveSound, HistoryKept
<1> QED
  BY <1>1, <1>2, <1>3, PTL DEF Spec
=============================================================================
