---------------------------- MODULE FloppyDrive ----------------------------
(***************************************************************************)
(* The floppy drives (x68k/fdd.c) and the three kinds of image they hold   *)
(* (x68k/disk_xdf.c, disk_d88.c, disk_dim.c): a drive is given a file,     *)
(* becomes ready some frames later, reads and writes the image in memory,  *)
(* and writes it back to the file when the disk is taken out.              *)
(*                                                                         *)
(* A sector's place is its track and the id it was formatted with.  Files  *)
(* are well formed; a file may fail to open at any time.  The position of  *)
(* the head within a track, which ids and diagnoses are read from, the     *)
(* marks of deleted and of damaged sectors, and the lamps are left out.    *)
(***************************************************************************)
EXTENDS Integers

CONSTANTS
  Drive,                \* the drives: 0 .. 3
  File,                 \* the names of the images
  NoFile,               \* the name of none
  Format,               \* file |-> "XDF", "D88" or "DIM"
  Protected,            \* the files that say so, or lie in an archive
  Contents,             \* file |-> its sectors at first: place |-> data
  LastXDF, LastDIM,     \* the last track XDF_Seek and DIM_Seek reach: 153, 169
  Ready,                \* frames until an inserted disk is ready: 3
  Fill                  \* the data of a formatted sector

ASSUME DriveAssumption == Drive \subseteq 0 .. 3
ASSUME FileAssumption ==
  /\ NoFile \notin File /\ Protected \subseteq File
  /\ Format \in [File -> {"XDF", "D88", "DIM"}]
ASSUME ReadyAssumption == Ready \in Nat \ {0}
ASSUME TrackAssumption == LastXDF \in Nat /\ LastDIM \in Nat

VARIABLES
  fdd,                  \* drive |-> what is in it
  files                 \* file |-> its sectors: place |-> data

(* The track is kept while a command uses it.  At other times it is what   *)
(* an earlier command left: a number, or a pointer to sectors that may be  *)
(* gone.                                                                   *)
Unknown == -1

Empty(readonly, delay) ==
  [file |-> NoFile, ROnly |-> readonly, img |-> << >>, trk |-> Unknown, SetDelay |-> delay]

DriveInit ==
  /\ fdd = [d \in Drive |-> Empty(FALSE, 0)]
  /\ files = Contents

-----------------------------------------------------------------------------
(* What a command asks of a drive.                                         *)

FDD_IsReady(drive) == drive.file # NoFile /\ drive.SetDelay = 0

HasTrack(drive, trk) == \E place \in DOMAIN drive.img : place[1] = trk

(* XDF and DIM images have a limit, a D88 image the tracks it lists.       *)
CanSeek(drive, trk) ==
  /\ drive.file # NoFile
  /\ CASE Format[drive.file] = "XDF" -> trk \in 0 .. LastXDF
       [] Format[drive.file] = "DIM" -> trk \in 0 .. LastDIM
       [] Format[drive.file] = "D88" -> HasTrack(drive, trk)

FDD_Seek(drive, trk) == IF CanSeek(drive, trk) THEN [drive EXCEPT !.trk = trk] ELSE drive

CanRead(drive, id) == <<drive.trk, id>> \in DOMAIN drive.img

(* The places a write may go to: after a change of disk the track is the   *)
(* old disk's, whichever that is.                                          *)
WritePlaces(drive, id) ==
  {p \in DOMAIN drive.img : p[2] = id /\ drive.trk \in {p[1], Unknown}}

Put(drive, place, data) == [drive EXCEPT !.img[place] = data]

(* FDD_Write: what it returns and the drive it leaves.  D88_Write alone    *)
(* looks whether the disk is protected, and alone may write to the sectors *)
(* of a disk that is gone.                                                 *)
FDD_Write(drive, id, data) ==
  LET places == WritePlaces(drive, id)
      d88    == drive.file # NoFile /\ Format[drive.file] = "D88"
      done   == {[ok |-> TRUE, drive |-> Put(drive, place, data)] : place \in places}
      failed == [ok |-> FALSE, drive |-> drive]
      gone   == [ok |-> TRUE, drive |-> drive]
  IN  IF d88 /\ drive.ROnly THEN {failed}
      ELSE IF drive.file # NoFile /\ drive.trk = Unknown
      THEN done \union {failed} \union (IF d88 THEN {gone} ELSE {})
      ELSE IF places = {} THEN {failed} ELSE done

(* FDD_WriteID of one sector: a D88 image's track is made anew, the others *)
(* accept only the layout they have.                                       *)
Formatted(img, trk, id) ==
  [p \in {q \in DOMAIN img : q[1] # trk} \union {<<trk, id>>} |->
     IF p = <<trk, id>> THEN Fill ELSE img[p]]

CanFormat(drive) == drive.file # NoFile /\ Format[drive.file] = "D88"

FDD_WriteID(drive, trk, id) ==
  IF CanFormat(drive) THEN [drive EXCEPT !.img = Formatted(@, trk, id), !.trk = trk]
  ELSE drive

-----------------------------------------------------------------------------
(* The disk goes, and comes.                                               *)

(* Of two drives with the same file the higher one writes last.            *)
LastOf(drives) == CHOOSE d \in drives : \A e \in drives : e <= d

(* Mutant of WrittenBack: protected disks are written back, too.           *)
WrittenBack_Protected(out, opens) ==
  [f \in File |->
     LET from == {d \in out \intersect opens : fdd[d].file = f}
     IN  IF from = {} THEN files[f] ELSE fdd[LastOf(from)].img]

(* XDF_Eject, D88_Eject, DIM_Eject: the files once the disks are out, if   *)
(* they open for the drives in `opens'.                                    *)
WrittenBack(out, opens) ==
  [f \in File |->
     LET from == {d \in out \intersect opens : fdd[d].file = f /\ ~fdd[d].ROnly}
     IN  IF from = {} THEN files[f] ELSE fdd[LastOf(from)].img]

(* FDD_EjectFD, for each drive of a set.                                   *)
FDD_EjectFD(out, opens) ==
  /\ files' = WrittenBack(out, opens)
  /\ fdd' = [d \in Drive |-> IF d \in out THEN Empty(FALSE, fdd[d].SetDelay) ELSE fdd[d]]

(* The disk that was in is ejected first; a file that does not open leaves *)
(* the drive empty and protected.                                          *)
Inserted(f, contents) ==
  [file |-> f, ROnly |-> f \in Protected, img |-> contents,
   trk |-> Unknown, SetDelay |-> Ready]

FDD_SetFD(d, f, opens, loads) ==
  /\ files' = WrittenBack({d}, opens)
  /\ fdd' = [fdd EXCEPT ![d] =
       IF loads THEN Inserted(f, files'[f]) ELSE Empty(TRUE, @.SetDelay)]

Holding(drives) == {d \in drives : fdd[d].file # NoFile}

(* Once a frame.                                                           *)
Waiting == {d \in Drive : fdd[d].SetDelay # 0}
Arriving == {d \in Waiting : fdd[d].SetDelay = 1}

FDD_SetFDInt ==
  /\ Waiting # {}
  /\ fdd' = [d \in Drive |->
               IF d \in Waiting THEN [fdd[d] EXCEPT !.SetDelay = @ - 1] ELSE fdd[d]]
  /\ UNCHANGED files

=============================================================================
