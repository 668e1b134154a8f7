----------------------------- MODULE FDCProofs ------------------------------
(***************************************************************************)
(* Proofs about the floppy controller and its drives, for any drives,      *)
(* files, formats, contents, parameters and size of a sector.              *)
(*                                                                         *)
(* The argument: no handler changes what disk a drive holds, whether it is *)
(* protected, or when it is ready; only the insertion and the ejection of  *)
(* a disk do.  And a command that is in its execution phase either stays   *)
(* there, or leaves it by FDC_EPhaseEnd.                                   *)
(*                                                                         *)
(* A transfer that nothing has disturbed is at the sector its parameters   *)
(* name, without error, and the bytes moved of it are those before the     *)
(* pointer of its buffer (TransferInv).  FDC_NextTrack takes the first of  *)
(* the sectors that are left (RemainingIs), which makes the controller a   *)
(* device that moves whole blocks, and the bytes left to read fewer.       *)
(***************************************************************************)
EXTENDS FDC, SequenceTheorems, TLAPS

(* The commands that have an execution phase, and the bytes it waits for.  *)
Phased == Data \union {"WriteID"}
Waits(cmd) == IF cmd = "WriteID" THEN 1 ELSE SectorSize

(* What is known of a drive and of the controller's variables.  What is in *)
(* the image, the parameters and the buffer is of no matter here.          *)
DriveType(a) ==
  a \in [file : File \union {NoFile}, ROnly : BOOLEAN, img : {a.img}, trk : {a.trk},
         SetDelay : 0 .. Ready]

FdcType(f) ==
  f \in [cmd : Command, cyl : Cylinders \union {0}, drv : Drive \union {-1, 0},
         ctrl : SUBSET Drive, eject : BOOLEAN, wexec : BOOLEAN,
         rdnum : {0, 1}, wrnum : {0, 1}, bufnum : {0, 1, SectorSize},
         rdptr : Int, wrptr : Int, st0 : {"ok", "error"}, rsp : {"ok", "error"},
         prm : {f.prm}, buf : {f.buf}]

(* What the handlers work on.                                              *)
GoodState(s) ==
  /\ s = [fdc |-> s.fdc, drive |-> s.drive, asked |-> s.asked]
  /\ FdcType(s.fdc) /\ DriveType(s.drive)
  /\ s.asked \subseteq {"FDC", "FDD"}

SameDisk(a, b) == a.file = b.file /\ a.ROnly = b.ROnly /\ a.SetDelay = b.SetDelay

(* A handler's result t on the state s.                                    *)
Handles(s, t) ==
  /\ GoodState(t) /\ SameDisk(t.drive, s.drive) /\ s.asked \subseteq t.asked
  /\ t.fdc.cmd = s.fdc.cmd /\ t.fdc.drv = s.fdc.drv
  /\ t.fdc.rdnum = s.fdc.rdnum /\ t.fdc.wrnum = s.fdc.wrnum
  /\ t.fdc.rdptr \in {0, s.fdc.rdptr} /\ t.fdc.wrptr = s.fdc.wrptr

Ended(t) == t.fdc.bufnum = 0 /\ ~t.fdc.wexec /\ "FDC" \in t.asked

(* In its execution phase, or out of it by the way that there is.          *)
EndsOrWaits(t) == Ended(t) \/ t.fdc.bufnum = Waits(t.fdc.cmd)

-----------------------------------------------------------------------------
(* The drives.                                                             *)

LEMMA NoFileUnprotected == NoFile \notin Protected
  BY FileAssumption

LEMMA SeekKeeps ==
  ASSUME NEW a, DriveType(a), NEW trk
  PROVE  DriveType(FDD_Seek(a, trk)) /\ SameDisk(FDD_Seek(a, trk), a)
<1>1. DriveType([a EXCEPT !.trk = trk]) /\ SameDisk([a EXCEPT !.trk = trk], a)
  BY DEF DriveType, SameDisk
<1> QED
  BY <1>1 DEF FDD_Seek, SameDisk

LEMMA PutKeeps ==
  ASSUME NEW a, DriveType(a), NEW place, NEW data
  PROVE  DriveType(Put(a, place, data)) /\ SameDisk(Put(a, place, data), a)
  BY DEF DriveType, SameDisk, Put

LEMMA WriteKeeps ==
  ASSUME NEW a, DriveType(a), NEW id, NEW data, NEW w \in FDD_Write(a, id, data)
  PROVE  DriveType(w.drive) /\ SameDisk(w.drive, a) /\ w.ok \in BOOLEAN
<1>1. \/ \E place \in WritePlaces(a, id) : w = [ok |-> TRUE, drive |-> Put(a, place, data)]
      \/ w = [ok |-> FALSE, drive |-> a]
      \/ w = [ok |-> TRUE, drive |-> a]
  BY DEF FDD_Write
<1>2. CASE \E place \in WritePlaces(a, id) : w = [ok |-> TRUE, drive |-> Put(a, place, data)]
  <2>1. PICK place \in WritePlaces(a, id) : w = [ok |-> TRUE, drive |-> Put(a, place, data)]
    BY <1>2
  <2> QED
    BY <2>1, PutKeeps
<1>3. CASE w = [ok |-> FALSE, drive |-> a]
  BY <1>3 DEF SameDisk
<1>4. CASE w = [ok |-> TRUE, drive |-> a]
  BY <1>4 DEF SameDisk
<1> QED
  BY <1>1, <1>2, <1>3, <1>4

LEMMA WriteIDKeeps ==
  ASSUME NEW a, DriveType(a), NEW trk, NEW id
  PROVE  DriveType(FDD_WriteID(a, trk, id)) /\ SameDisk(FDD_WriteID(a, trk, id), a)
<1>1. \A img : DriveType([a EXCEPT !.img = img, !.trk = trk])
               /\ SameDisk([a EXCEPT !.img = img, !.trk = trk], a)
  BY DEF DriveType, SameDisk
<1> QED
  BY <1>1 DEF FDD_WriteID, SameDisk

-----------------------------------------------------------------------------
(* The steps the handlers are made of.                                     *)

LEMMA HandlesTwice ==
  ASSUME NEW s, NEW t, NEW u, Handles(s, t), Handles(t, u)
  PROVE  Handles(s, u)
  BY DEF Handles, SameDisk

LEMMA NothingDone ==
  ASSUME NEW s, GoodState(s)
  PROVE  Handles(s, s)
  BY DEF Handles, SameDisk

LEMMA SetIntKeeps ==
  ASSUME NEW s, GoodState(s)
  PROVE  Handles(s, FDC_SetInt(s)) /\ FDC_SetInt(s).fdc = s.fdc
  BY DEF GoodState, Handles, SameDisk, FDC_SetInt

LEMMA FailsKeeps ==
  ASSUME NEW s, GoodState(s)
  PROVE  /\ Handles(s, Fails(s)) /\ Fails(s).fdc.bufnum = s.fdc.bufnum
         /\ Fails(s).fdc.wexec = s.fdc.wexec
<1>1. Fails(s) = [fdc |-> [s.fdc EXCEPT !.st0 = "error"], drive |-> s.drive, asked |-> s.asked]
  BY DEF GoodState, Fails
<1>2. FdcType([s.fdc EXCEPT !.st0 = "error"])
  BY DEF GoodState, FdcType
<1> QED
  BY <1>1, <1>2 DEF GoodState, FdcType, Handles, SameDisk

LEMMA EPhaseEndKeeps ==
  ASSUME NEW s, GoodState(s)
  PROVE  Handles(s, FDC_EPhaseEnd(s)) /\ Ended(FDC_EPhaseEnd(s))
<1> DEFINE f == [s.fdc EXCEPT !.rsp = s.fdc.st0, !.bufnum = 0, !.rdptr = 0, !.wexec = FALSE]
<1>1. FDC_EPhaseEnd(s) = [fdc |-> f, drive |-> s.drive, asked |-> s.asked \union {"FDC"}]
  <2>1. FDC_EPhaseEnd(s) = FDC_SetInt([s EXCEPT !.fdc = f])
    BY DEF FDC_EPhaseEnd
  <2> HIDE DEF f
  <2> QED
    BY <2>1 DEF GoodState, FDC_SetInt
<1>2. FdcType(f)
  <2> DEFINE g == [s.fdc EXCEPT !.rsp = s.fdc.st0, !.bufnum = 0]
             h == [g EXCEPT !.rdptr = 0]
  <2>1. FdcType(g)
    BY DEF GoodState, FdcType
  <2> HIDE DEF g
  <2>2. FdcType(h)
    BY <2>1 DEF FdcType
  <2> HIDE DEF h
  <2>3. FdcType([h EXCEPT !.wexec = FALSE])
    BY <2>2 DEF FdcType
  <2> QED
    BY <2>3 DEF g, h
<1>3. /\ f.cmd = s.fdc.cmd /\ f.drv = s.fdc.drv /\ f.rdnum = s.fdc.rdnum
      /\ f.wrnum = s.fdc.wrnum /\ f.rdptr = 0 /\ f.wrptr = s.fdc.wrptr
      /\ f.bufnum = 0 /\ ~f.wexec
  BY DEF GoodState, FdcType
<1> HIDE DEF f
<1> QED
  BY <1>1, <1>2, <1>3 DEF GoodState, Handles, SameDisk, Ended

LEMMA StartsKeeps ==
  ASSUME NEW s, GoodState(s), NEW buf, NEW wexec \in BOOLEAN
  PROVE  Handles(s, Starts(s, buf, wexec)) /\ Starts(s, buf, wexec).fdc.bufnum = SectorSize
<1> DEFINE f == [s.fdc EXCEPT !.bufnum = SectorSize, !.buf = buf, !.wexec = wexec]
<1>1. Starts(s, buf, wexec) = [fdc |-> f, drive |-> s.drive, asked |-> s.asked]
  <2>1. Starts(s, buf, wexec) = [s EXCEPT !.fdc = f]
    BY DEF Starts
  <2> HIDE DEF f
  <2> QED
    BY <2>1 DEF GoodState
<1>2. FdcType(f)
  BY DEF GoodState, FdcType
<1>3. /\ f.cmd = s.fdc.cmd /\ f.drv = s.fdc.drv /\ f.rdnum = s.fdc.rdnum
      /\ f.wrnum = s.fdc.wrnum /\ f.rdptr = s.fdc.rdptr /\ f.wrptr = s.fdc.wrptr
      /\ f.bufnum = SectorSize
  BY DEF GoodState, FdcType
<1> HIDE DEF f
<1> QED
  BY <1>1, <1>2, <1>3 DEF GoodState, Handles, SameDisk

LEMMA SoughtKeeps ==
  ASSUME NEW s, GoodState(s)
  PROVE  Handles(s, Sought(s)) /\ Sought(s).fdc = s.fdc
  BY SeekKeeps DEF GoodState, Sought, Handles

LEMMA ParametersKeep ==
  ASSUME NEW s, GoodState(s), NEW prm
  PROVE  Handles(s, [s EXCEPT !.fdc.prm = prm])
<1>1. [s EXCEPT !.fdc.prm = prm] =
        [fdc |-> [s.fdc EXCEPT !.prm = prm], drive |-> s.drive, asked |-> s.asked]
  BY DEF GoodState
<1>2. FdcType([s.fdc EXCEPT !.prm = prm])
  BY DEF GoodState, FdcType
<1> QED
  BY <1>1, <1>2 DEF GoodState, FdcType, Handles, SameDisk

-----------------------------------------------------------------------------
(* The commands with an execution phase.                                   *)

LEMMA GivesUp ==
  ASSUME NEW s, GoodState(s)
  PROVE  Handles(s, FDC_EPhaseEnd(Fails(s))) /\ Ended(FDC_EPhaseEnd(Fails(s)))
  BY FailsKeeps, EPhaseEndKeeps, HandlesTwice DEF Handles

LEMMA ReadSectorKeeps ==
  ASSUME NEW s, GoodState(s), s.fdc.cmd \in Data
  PROVE  Handles(s, ReadSector(s)) /\ EndsOrWaits(ReadSector(s))
<1> DEFINE t == Sought(s)
<1>1. Handles(s, t) /\ GoodState(t) /\ t.fdc = s.fdc
  BY SoughtKeeps DEF Handles
<1>2. Waits(s.fdc.cmd) = SectorSize
  BY DEF Waits, Data
<1> HIDE DEF t
<1>3. ASSUME NEW buf, NEW wexec \in BOOLEAN
      PROVE  Handles(s, Starts(t, buf, wexec)) /\ EndsOrWaits(Starts(t, buf, wexec))
  BY <1>1, <1>2, StartsKeeps, HandlesTwice DEF EndsOrWaits, Handles
<1>4. Handles(s, FDC_EPhaseEnd(Fails(t))) /\ EndsOrWaits(FDC_EPhaseEnd(Fails(t)))
  BY <1>1, GivesUp, HandlesTwice DEF EndsOrWaits
<1>5. Handles(s, FDC_EPhaseEnd(Fails(s))) /\ EndsOrWaits(FDC_EPhaseEnd(Fails(s)))
  BY GivesUp DEF EndsOrWaits
<1>6. s.fdc.wexec \in BOOLEAN
  BY DEF GoodState, FdcType
<1> QED
  BY <1>3, <1>4, <1>5, <1>6 DEF ReadSector, t

LEMMA ReadAnySectorKeeps ==
  ASSUME NEW s, GoodState(s), s.fdc.cmd \in Data
  PROVE  Handles(s, ReadAnySector(s)) /\ EndsOrWaits(ReadAnySector(s))
<1> DEFINE t == Sought(s)
<1>1. Handles(s, t) /\ GoodState(t) /\ t.fdc = s.fdc
  BY SoughtKeeps DEF Handles
<1>2. Waits(s.fdc.cmd) = SectorSize
  BY DEF Waits, Data
<1> HIDE DEF t
<1> DEFINE u == Starts(t, Blank, s.fdc.wexec)
<1>3. Handles(s, u) /\ EndsOrWaits(u)
  <2>1. s.fdc.wexec \in BOOLEAN
    BY DEF GoodState, FdcType
  <2>2. Handles(t, u) /\ u.fdc.bufnum = SectorSize
    BY <1>1, <2>1, StartsKeeps
  <2> HIDE DEF u
  <2> QED
    BY <1>1, <1>2, <2>2, HandlesTwice DEF EndsOrWaits, Handles
<1>4. Handles(s, FDC_EPhaseEnd(Fails(t))) /\ EndsOrWaits(FDC_EPhaseEnd(Fails(t)))
  BY <1>1, GivesUp, HandlesTwice DEF EndsOrWaits
<1>5. Handles(s, FDC_EPhaseEnd(Fails(s))) /\ EndsOrWaits(FDC_EPhaseEnd(Fails(s)))
  BY GivesUp DEF EndsOrWaits
<1> QED
  BY <1>3, <1>4, <1>5 DEF ReadAnySector, t

LEMMA WriteSectorKeeps ==
  ASSUME NEW s, GoodState(s), s.fdc.cmd \in Data
  PROVE  Handles(s, WriteSector(s)) /\ EndsOrWaits(WriteSector(s))
<1> DEFINE t == Sought(s)
<1>1. Handles(s, t) /\ GoodState(t) /\ t.fdc = s.fdc
  BY SoughtKeeps DEF Handles
<1>2. Waits(s.fdc.cmd) = SectorSize
  BY DEF Waits, Data
<1> HIDE DEF t
<1> DEFINE u == Starts(t, s.fdc.buf, TRUE)
<1>3. Handles(s, u) /\ EndsOrWaits(u)
  <2>1. Handles(t, u) /\ u.fdc.bufnum = SectorSize
    BY <1>1, StartsKeeps
  <2> HIDE DEF u
  <2> QED
    BY <1>1, <1>2, <2>1, HandlesTwice DEF EndsOrWaits, Handles
<1>4. Handles(s, FDC_EPhaseEnd(Fails(s))) /\ EndsOrWaits(FDC_EPhaseEnd(Fails(s)))
  BY GivesUp DEF EndsOrWaits
<1> QED
  BY <1>3, <1>4 DEF WriteSector, t

LEMMA FormatTrackKeeps ==
  ASSUME NEW s, GoodState(s), s.fdc.cmd = "WriteID"
  PROVE  Handles(s, FormatTrack(s)) /\ EndsOrWaits(FormatTrack(s))
<1> DEFINE f == [s.fdc EXCEPT !.bufnum = 1, !.wexec = TRUE]
           u == [s EXCEPT !.fdc = [@ EXCEPT !.bufnum = 1, !.wexec = TRUE]]
<1>1. u = [fdc |-> f, drive |-> s.drive, asked |-> s.asked]
  BY DEF GoodState
<1>2. FdcType(f)
  BY DEF GoodState, FdcType
<1>3. /\ f.cmd = s.fdc.cmd /\ f.drv = s.fdc.drv /\ f.rdnum = s.fdc.rdnum
      /\ f.wrnum = s.fdc.wrnum /\ f.rdptr = s.fdc.rdptr /\ f.wrptr = s.fdc.wrptr
      /\ f.bufnum = 1
  BY DEF GoodState, FdcType
<1>4. Handles(s, u) /\ EndsOrWaits(u)
  <2> HIDE DEF f, u
  <2> QED
    BY <1>1, <1>2, <1>3 DEF GoodState, Handles, SameDisk, EndsOrWaits, Waits
<1>5. Handles(s, FDC_EPhaseEnd(Fails(s))) /\ EndsOrWaits(FDC_EPhaseEnd(Fails(s)))
  BY GivesUp DEF EndsOrWaits
<1> QED
  BY <1>4, <1>5 DEF FormatTrack

(* FDC_ExecCmd of such a command, which clears st0 first.                  *)
LEMMA ClearedKeeps ==
  ASSUME NEW s, GoodState(s)
  PROVE  /\ Handles(s, [s EXCEPT !.fdc.st0 = "ok"])
         /\ [s EXCEPT !.fdc.st0 = "ok"].fdc.bufnum = s.fdc.bufnum
         /\ [s EXCEPT !.fdc.st0 = "ok"].fdc.wexec = s.fdc.wexec
         /\ [s EXCEPT !.fdc.st0 = "ok"].fdc.prm = s.fdc.prm
<1>1. [s EXCEPT !.fdc.st0 = "ok"] =
        [fdc |-> [s.fdc EXCEPT !.st0 = "ok"], drive |-> s.drive, asked |-> s.asked]
  BY DEF GoodState
<1>2. FdcType([s.fdc EXCEPT !.st0 = "ok"])
  BY DEF GoodState, FdcType
<1> QED
  BY <1>1, <1>2 DEF GoodState, FdcType, Handles, SameDisk

LEMMA ExecPhasedKeeps ==
  ASSUME NEW u, GoodState(u), u.fdc.cmd \in Phased
  PROVE  Handles(u, FDC_ExecCmd(u)) /\ EndsOrWaits(FDC_ExecCmd(u))
<1> DEFINE s == [u EXCEPT !.fdc.st0 = "ok"]
<1>1. Handles(u, s) /\ GoodState(s) /\ s.fdc.cmd = u.fdc.cmd
  BY ClearedKeeps DEF Handles
<1>2. FDC_ExecCmd(u) =
        CASE s.fdc.cmd \in {"ReadData", "Scan"} -> ReadSector(s)
          [] s.fdc.cmd = "ReadDiagnostic" -> ReadAnySector(s)
          [] s.fdc.cmd = "WriteData" -> WriteSector(s)
          [] s.fdc.cmd = "WriteID" -> FormatTrack(s)
  <2> HIDE DEF s
  <2>1. s.fdc.cmd \in {"ReadData", "Scan", "ReadDiagnostic", "WriteData", "WriteID"}
    BY <1>1 DEF Phased, Data
  <2>2. u.fdc.cmd \notin {"Specify", "SenseIntStatus", "Version", "Invalid"}
    BY <1>1, <2>1
  <2> QED
    BY <2>1, <2>2 DEF FDC_ExecCmd, s
<1> HIDE DEF s
<1>3. CASE s.fdc.cmd \in {"ReadData", "Scan"}
  BY <1>1, <1>2, <1>3, ReadSectorKeeps, HandlesTwice DEF Data
<1>4. CASE s.fdc.cmd = "ReadDiagnostic"
  BY <1>1, <1>2, <1>4, ReadAnySectorKeeps, HandlesTwice DEF Data
<1>5. CASE s.fdc.cmd = "WriteData"
  BY <1>1, <1>2, <1>5, WriteSectorKeeps, HandlesTwice DEF Data
<1>6. CASE s.fdc.cmd = "WriteID"
  BY <1>1, <1>2, <1>6, FormatTrackKeeps, HandlesTwice
<1> QED
  BY <1>1, <1>3, <1>4, <1>5, <1>6 DEF Phased, Data
-----------------------------------------------------------------------------
(* The commands without one.                                               *)

Quietly(s, t) ==
  /\ Handles(s, t) /\ t.fdc.bufnum = s.fdc.bufnum /\ t.fdc.wexec = s.fdc.wexec
  /\ t.fdc.prm = s.fdc.prm

LEMMA QuietlyTwice ==
  ASSUME NEW s, NEW t, NEW u, Quietly(s, t), Quietly(t, u)
  PROVE  Quietly(s, u)
  BY HandlesTwice DEF Quietly

(* A handler that changes a variable of the controller and no counter.     *)
LEMMA VariableKeeps ==
  ASSUME NEW s, GoodState(s), NEW f, FdcType(f),
         f.cmd = s.fdc.cmd, f.drv = s.fdc.drv, f.rdnum = s.fdc.rdnum, f.wrnum = s.fdc.wrnum,
         f.rdptr = s.fdc.rdptr, f.wrptr = s.fdc.wrptr, f.bufnum = s.fdc.bufnum,
         f.wexec = s.fdc.wexec, f.prm = s.fdc.prm
  PROVE  Quietly(s, [s EXCEPT !.fdc = f])
<1>1. [s EXCEPT !.fdc = f] = [fdc |-> f, drive |-> s.drive, asked |-> s.asked]
  BY DEF GoodState
<1> QED
  BY <1>1 DEF GoodState, Quietly, Handles, SameDisk

LEMMA QuietSteps ==
  ASSUME NEW s, GoodState(s)
  PROVE  /\ Quietly(s, s) /\ Quietly(s, FDC_SetInt(s)) /\ Quietly(s, Fails(s))
         /\ Quietly(s, Sought(s))
         /\ \A st0, rsp \in {"ok", "error"} :
              Quietly(s, [s EXCEPT !.fdc = [@ EXCEPT !.rsp = rsp, !.st0 = st0]])
         /\ \A cyl \in Cylinders \union {0} : Quietly(s, [s EXCEPT !.fdc.cyl = cyl])
<1>1. Quietly(s, s)
  BY NothingDone DEF Quietly
<1>2. Quietly(s, FDC_SetInt(s))
  BY SetIntKeeps DEF Quietly
<1>3. ASSUME NEW st0 \in {"ok", "error"}, NEW rsp \in {"ok", "error"}
      PROVE  Quietly(s, [s EXCEPT !.fdc = [@ EXCEPT !.rsp = rsp, !.st0 = st0]])
  <2> DEFINE f == [s.fdc EXCEPT !.rsp = rsp, !.st0 = st0]
  <2>1. /\ FdcType(f)
        /\ f.cmd = s.fdc.cmd /\ f.drv = s.fdc.drv /\ f.rdnum = s.fdc.rdnum
        /\ f.wrnum = s.fdc.wrnum /\ f.rdptr = s.fdc.rdptr /\ f.wrptr = s.fdc.wrptr
        /\ f.bufnum = s.fdc.bufnum /\ f.wexec = s.fdc.wexec /\ f.prm = s.fdc.prm
    BY DEF GoodState, FdcType
  <2> HIDE DEF f
  <2>2. Quietly(s, [s EXCEPT !.fdc = f])
    BY <2>1, VariableKeeps
  <2> QED
    BY <2>2 DEF f
<1>4. ASSUME NEW cyl \in Cylinders \union {0}
      PROVE  Quietly(s, [s EXCEPT !.fdc.cyl = cyl])
  <2> DEFINE f == [s.fdc EXCEPT !.cyl = cyl]
  <2>1. /\ FdcType(f)
        /\ f.cmd = s.fdc.cmd /\ f.drv = s.fdc.drv /\ f.rdnum = s.fdc.rdnum
        /\ f.wrnum = s.fdc.wrnum /\ f.rdptr = s.fdc.rdptr /\ f.wrptr = s.fdc.wrptr
        /\ f.bufnum = s.fdc.bufnum /\ f.wexec = s.fdc.wexec /\ f.prm = s.fdc.prm
    BY DEF GoodState, FdcType
  <2> HIDE DEF f
  <2>2. Quietly(s, [s EXCEPT !.fdc = f])
    BY <2>1, VariableKeeps
  <2> QED
    BY <2>2 DEF f
<1>5. Quietly(s, Fails(s))
  <2>1. Fails(s).fdc.prm = s.fdc.prm
    BY DEF Fails, GoodState, FdcType
  <2> QED
    BY <2>1, FailsKeeps DEF Quietly
<1>6. Quietly(s, Sought(s))
  BY SoughtKeeps DEF Quietly
<1> QED
  BY <1>1, <1>2, <1>3, <1>4, <1>5, <1>6

LEMMA AnswerKeeps ==
  ASSUME NEW s, GoodState(s), NEW good
  PROVE  Quietly(s, Answer(s, good))
<1> DEFINE t == IF good THEN s ELSE Fails(s)
           f == [t.fdc EXCEPT !.rsp = t.fdc.st0]
<1>1. Quietly(s, t) /\ GoodState(t)
  BY QuietSteps DEF Quietly, Handles
<1> HIDE DEF t
<1>2. /\ FdcType(f)
      /\ f.cmd = t.fdc.cmd /\ f.drv = t.fdc.drv /\ f.rdnum = t.fdc.rdnum
      /\ f.wrnum = t.fdc.wrnum /\ f.rdptr = t.fdc.rdptr /\ f.wrptr = t.fdc.wrptr
      /\ f.bufnum = t.fdc.bufnum /\ f.wexec = t.fdc.wexec /\ f.prm = t.fdc.prm
  BY <1>1 DEF GoodState, FdcType
<1>3. Answer(s, good) = [t EXCEPT !.fdc = f]
  BY DEF Answer, t
<1> HIDE DEF f
<1>4. Quietly(t, [t EXCEPT !.fdc = f])
  BY <1>1, <1>2, VariableKeeps
<1> QED
  BY <1>1, <1>3, <1>4, QuietlyTwice

LEMMA ReadIDKeeps ==
  ASSUME NEW s, GoodState(s)
  PROVE  Quietly(s, ReadID(s))
<1> DEFINE t == IF Reaches(s) THEN Sought(s) ELSE s
           a == Answer(t, Reaches(s) /\ HasTrack(t.drive, Track(s)))
<1>1. Quietly(s, t) /\ GoodState(t)
  BY QuietSteps DEF Quietly, Handles
<1>2. ReadID(s) = FDC_SetInt(a)
  BY DEF ReadID
<1> HIDE DEF t
<1>3. Quietly(t, a) /\ GoodState(a)
  BY <1>1, AnswerKeeps DEF Quietly, Handles
<1> HIDE DEF a
<1>4. Quietly(a, FDC_SetInt(a))
  BY <1>3, QuietSteps
<1> QED
  BY <1>1, <1>2, <1>3, <1>4, QuietlyTwice

LEMMA RecalibrateKeeps ==
  ASSUME NEW s, GoodState(s), NEW good
  PROVE  Quietly(s, FDC_SetInt(IF good THEN [s EXCEPT !.fdc.cyl = 0]
                               ELSE Fails([s EXCEPT !.fdc.cyl = 0])))
<1> DEFINE t == [s EXCEPT !.fdc.cyl = 0]
           a == IF good THEN t ELSE Fails(t)
<1>1. Quietly(s, t) /\ GoodState(t)
  <2>1. Quietly(s, t)
    BY QuietSteps
  <2> QED
    BY <2>1 DEF Quietly, Handles
<1> HIDE DEF t
<1>2. Quietly(t, a) /\ GoodState(a)
  BY <1>1, QuietSteps DEF Quietly, Handles
<1> HIDE DEF a
<1>3. Quietly(a, FDC_SetInt(a))
  BY <1>2, QuietSteps
<1>4. Quietly(s, FDC_SetInt(a))
  BY <1>1, <1>2, <1>3, QuietlyTwice
<1> QED
  BY <1>4 DEF a, t

LEMMA SeekCommandKeeps ==
  ASSUME NEW s, GoodState(s), NEW cyl \in Cylinders, NEW good
  PROVE  Quietly(s, FDC_SetInt(IF good THEN [s EXCEPT !.fdc.cyl = cyl] ELSE Fails(s)))
<1> DEFINE a == IF good THEN [s EXCEPT !.fdc.cyl = cyl] ELSE Fails(s)
<1>1. Quietly(s, a) /\ GoodState(a)
  <2>1. Quietly(s, Fails(s)) /\ Quietly(s, [s EXCEPT !.fdc.cyl = cyl])
    BY QuietSteps
  <2>2. Quietly(s, a)
    BY <2>1
  <2> QED
    BY <2>2 DEF Quietly, Handles
<1> HIDE DEF a
<1>2. Quietly(a, FDC_SetInt(a))
  BY <1>1, QuietSteps
<1>3. Quietly(s, FDC_SetInt(a))
  BY <1>1, <1>2, QuietlyTwice
<1> QED
  BY <1>3 DEF a

LEMMA SensesKeep ==
  ASSUME NEW s, GoodState(s)
  PROVE  /\ Quietly(s, [s EXCEPT !.fdc.rsp = "ok"])
         /\ Quietly(s, [s EXCEPT !.fdc.rsp = s.fdc.st0, !.fdc.st0 = "ok"])
<1>1. Quietly(s, [s EXCEPT !.fdc.rsp = "ok"])
  <2> DEFINE f == [s.fdc EXCEPT !.rsp = "ok"]
  <2>1. /\ FdcType(f)
        /\ f.cmd = s.fdc.cmd /\ f.drv = s.fdc.drv /\ f.rdnum = s.fdc.rdnum
        /\ f.wrnum = s.fdc.wrnum /\ f.rdptr = s.fdc.rdptr /\ f.wrptr = s.fdc.wrptr
        /\ f.bufnum = s.fdc.bufnum /\ f.wexec = s.fdc.wexec /\ f.prm = s.fdc.prm
    BY DEF GoodState, FdcType
  <2> HIDE DEF f
  <2>2. Quietly(s, [s EXCEPT !.fdc = f])
    BY <2>1, VariableKeeps
  <2> QED
    BY <2>2 DEF f
<1>2. Quietly(s, [s EXCEPT !.fdc.rsp = s.fdc.st0, !.fdc.st0 = "ok"])
  <2> DEFINE f == [s.fdc EXCEPT !.rsp = s.fdc.st0, !.st0 = "ok"]
  <2>1. /\ FdcType(f)
        /\ f.cmd = s.fdc.cmd /\ f.drv = s.fdc.drv /\ f.rdnum = s.fdc.rdnum
        /\ f.wrnum = s.fdc.wrnum /\ f.rdptr = s.fdc.rdptr /\ f.wrptr = s.fdc.wrptr
        /\ f.bufnum = s.fdc.bufnum /\ f.wexec = s.fdc.wexec /\ f.prm = s.fdc.prm
    BY DEF GoodState, FdcType
  <2>3. [s EXCEPT !.fdc.rsp = s.fdc.st0, !.fdc.st0 = "ok"] = [s EXCEPT !.fdc = f]
    BY DEF GoodState, FdcType
  <2> HIDE DEF f
  <2>2. Quietly(s, [s EXCEPT !.fdc = f])
    BY <2>1, VariableKeeps
  <2> QED
    BY <2>2, <2>3
<1> QED
  BY <1>1, <1>2

LEMMA ExecOtherKeeps ==
  ASSUME NEW u, GoodState(u), u.fdc.cmd \notin Phased,
         u.fdc.cmd = "Seek" => u.fdc.prm.n \in Cylinders
  PROVE  Quietly(u, FDC_ExecCmd(u))
<1> DEFINE c == [u EXCEPT !.fdc.st0 = "ok"]
           s == IF u.fdc.cmd \in {"Specify", "SenseIntStatus", "Version", "Invalid"} THEN u
                ELSE c
<1>1. Quietly(u, s) /\ GoodState(s) /\ s.fdc.cmd = u.fdc.cmd /\ s.fdc.prm = u.fdc.prm
  <2>1. Quietly(u, u) /\ GoodState(u)
    BY QuietSteps
  <2>2. Quietly(u, c) /\ GoodState(c) /\ c.fdc.cmd = u.fdc.cmd /\ c.fdc.prm = u.fdc.prm
    BY ClearedKeeps DEF Quietly, Handles
  <2> HIDE DEF c
  <2> QED
    BY <2>1, <2>2
<1> HIDE DEF c
<1>2. FDC_ExecCmd(u) =
        CASE s.fdc.cmd = "ReadID" -> ReadID(s)
          [] s.fdc.cmd = "SenseDeviceStatus" -> [s EXCEPT !.fdc.rsp = "ok"]
          [] s.fdc.cmd = "SenseIntStatus" -> [s EXCEPT !.fdc.rsp = s.fdc.st0, !.fdc.st0 = "ok"]
          [] s.fdc.cmd = "Recalibrate" ->
               FDC_SetInt(IF FDD_IsReady(s.drive) /\ s.fdc.drv < 2
                          THEN [s EXCEPT !.fdc.cyl = 0] ELSE Fails([s EXCEPT !.fdc.cyl = 0]))
          [] s.fdc.cmd = "Seek" ->
               FDC_SetInt(IF FDD_IsReady(s.drive) THEN [s EXCEPT !.fdc.cyl = s.fdc.prm.n]
                          ELSE Fails(s))
          [] OTHER -> s
  <2>1. s.fdc.cmd \notin {"ReadData", "Scan", "ReadDiagnostic", "WriteData", "WriteID"}
    BY <1>1 DEF Phased, Data
  <2> HIDE DEF s
  <2> QED
    BY <2>1 DEF FDC_ExecCmd, s, c
<1> HIDE DEF s
<1> DEFINE e == FDC_ExecCmd(u)
<1>3. CASE s.fdc.cmd = "ReadID"
  <2>1. e = ReadID(s)
    BY <1>2, <1>3
  <2> QED
    BY <1>1, <2>1, ReadIDKeeps, QuietlyTwice
<1>4. CASE s.fdc.cmd = "SenseDeviceStatus"
  <2>1. e = [s EXCEPT !.fdc.rsp = "ok"]
    BY <1>2, <1>4
  <2> QED
    BY <1>1, <2>1, SensesKeep, QuietlyTwice
<1>5. CASE s.fdc.cmd = "SenseIntStatus"
  <2>1. e = [s EXCEPT !.fdc.rsp = s.fdc.st0, !.fdc.st0 = "ok"]
    BY <1>2, <1>5
  <2> QED
    BY <1>1, <2>1, SensesKeep, QuietlyTwice
<1>6. CASE s.fdc.cmd = "Recalibrate"
  <2> DEFINE good == FDD_IsReady(s.drive) /\ s.fdc.drv < 2
  <2>1. e = FDC_SetInt(IF good THEN [s EXCEPT !.fdc.cyl = 0]
                       ELSE Fails([s EXCEPT !.fdc.cyl = 0]))
    BY <1>2, <1>6
  <2> HIDE DEF good
  <2>2. Quietly(s, e)
    BY <1>1, <2>1, RecalibrateKeeps
  <2> QED
    BY <1>1, <2>2, QuietlyTwice
<1>7. CASE s.fdc.cmd = "Seek"
  <2> DEFINE good == FDD_IsReady(s.drive)
  <2>1. e = FDC_SetInt(IF good THEN [s EXCEPT !.fdc.cyl = s.fdc.prm.n] ELSE Fails(s))
    BY <1>2, <1>7
  <2>2. s.fdc.prm.n \in Cylinders
    BY <1>1, <1>7
  <2> HIDE DEF good
  <2>3. Quietly(s, e)
    BY <1>1, <2>1, <2>2, SeekCommandKeeps
  <2> QED
    BY <1>1, <2>3, QuietlyTwice
<1>8. CASE s.fdc.cmd \notin {"ReadID", "SenseDeviceStatus", "SenseIntStatus", "Recalibrate",
                            "Seek"}
  <2>1. e = s
    BY <1>2, <1>8
  <2> QED
    BY <1>1, <2>1
<1> QED
  BY <1>3, <1>4, <1>5, <1>6, <1>7, <1>8

-----------------------------------------------------------------------------
(* The end of a sector.                                                    *)

LEMMA NextTrackKeeps ==
  ASSUME NEW s, GoodState(s), s.fdc.cmd \in Phased
  PROVE  Handles(s, FDC_NextTrack(s)) /\ EndsOrWaits(FDC_NextTrack(s))
<1>1. ASSUME NEW prm
      PROVE  LET t == FDC_ExecCmd([s EXCEPT !.fdc.prm = prm])
             IN  Handles(s, t) /\ EndsOrWaits(t)
  <2> DEFINE u == [s EXCEPT !.fdc.prm = prm]
  <2>1. Handles(s, u) /\ GoodState(u) /\ u.fdc.cmd = s.fdc.cmd
    BY ParametersKeep DEF Handles
  <2> HIDE DEF u
  <2>2. Handles(u, FDC_ExecCmd(u)) /\ EndsOrWaits(FDC_ExecCmd(u))
    BY <2>1, ExecPhasedKeeps
  <2>3. Handles(s, FDC_ExecCmd(u)) /\ EndsOrWaits(FDC_ExecCmd(u))
    BY <2>1, <2>2, HandlesTwice
  <2> QED
    BY <2>3 DEF u
<1>2. Handles(s, FDC_EPhaseEnd(s)) /\ EndsOrWaits(FDC_EPhaseEnd(s))
  BY EPhaseEndKeeps DEF EndsOrWaits
<1>3. \/ \E prm : FDC_NextTrack(s) = FDC_ExecCmd([s EXCEPT !.fdc.prm = prm])
      \/ FDC_NextTrack(s) = FDC_EPhaseEnd(s)
  <2>1. CASE s.fdc.prm.r # s.fdc.prm.eot
    <3>1. FDC_NextTrack(s) =
            FDC_ExecCmd([s EXCEPT !.fdc.prm = [s.fdc.prm EXCEPT !.r = (@ + 1) % RMod]])
      BY <2>1 DEF FDC_NextTrack
    <3> QED
      BY <3>1
  <2>2. CASE ~(s.fdc.prm.r # s.fdc.prm.eot)
    <3>1. \/ FDC_NextTrack(s) =
               FDC_ExecCmd([s EXCEPT !.fdc.prm = [s.fdc.prm EXCEPT !.hd = 1, !.h = 1, !.r = 1]])
          \/ FDC_NextTrack(s) = FDC_EPhaseEnd(s)
      BY <2>2 DEF FDC_NextTrack
    <3> QED
      BY <3>1
  <2> QED
    BY <2>1, <2>2
<1> QED
  BY <1>1, <1>2, <1>3

LEMMA DriveKeeps ==
  ASSUME NEW s, GoodState(s), NEW drive, DriveType(drive), SameDisk(drive, s.drive)
  PROVE  /\ Handles(s, [s EXCEPT !.drive = drive])
         /\ [s EXCEPT !.drive = drive].fdc = s.fdc
<1>1. [s EXCEPT !.drive = drive] = [fdc |-> s.fdc, drive |-> drive, asked |-> s.asked]
  BY DEF GoodState
<1> QED
  BY <1>1 DEF GoodState, Handles, SameDisk

(* A buffer that is full: the phase goes on as it was, or ends.            *)
LEMMA WriteBufferKeeps ==
  ASSUME NEW s, GoodState(s), s.fdc.cmd \in Phased, s.fdc.bufnum = Waits(s.fdc.cmd),
         NEW t \in FDC_WriteBuffer(s)
  PROVE  Handles(s, t) /\ EndsOrWaits(t)
<1>1. CASE s.fdc.cmd = "WriteData"
  <2>1. PICK w \in FDD_Write(s.drive, Id(s), s.fdc.buf) :
          t = IF w.ok THEN FDC_NextTrack([s EXCEPT !.drive = w.drive])
              ELSE FDC_SetInt([Fails(s) EXCEPT !.drive = w.drive])
    BY <1>1 DEF FDC_WriteBuffer
  <2>2. DriveType(w.drive) /\ SameDisk(w.drive, s.drive) /\ w.ok \in BOOLEAN
    BY WriteKeeps DEF GoodState
  <2>3. CASE w.ok
    <3> DEFINE u == [s EXCEPT !.drive = w.drive]
    <3>1. Handles(s, u) /\ GoodState(u) /\ u.fdc.cmd = s.fdc.cmd
      BY <2>2, DriveKeeps DEF Handles
    <3>2. t = FDC_NextTrack(u)
      BY <2>1, <2>3
    <3> HIDE DEF u
    <3>3. Handles(u, t) /\ EndsOrWaits(t)
      BY <3>1, <3>2, NextTrackKeeps
    <3> QED
      BY <3>1, <3>3, HandlesTwice
  <2>4. CASE ~w.ok
    <3> DEFINE v == Fails(s)
               u == [v EXCEPT !.drive = w.drive]
    <3>1. Handles(s, v) /\ GoodState(v) /\ v.fdc.bufnum = s.fdc.bufnum /\ v.fdc.cmd = s.fdc.cmd
      BY FailsKeeps DEF Handles
    <3>2. SameDisk(w.drive, v.drive)
      BY <2>2, <3>1 DEF Handles, SameDisk
    <3>3. t = FDC_SetInt(u)
      BY <2>1, <2>4
    <3> HIDE DEF v
    <3>4. Handles(v, u) /\ GoodState(u) /\ u.fdc = v.fdc
      BY <2>2, <3>1, <3>2, DriveKeeps DEF Handles
    <3> HIDE DEF u
    <3>5. Handles(u, t) /\ t.fdc = u.fdc
      BY <3>3, <3>4, SetIntKeeps
    <3>6. Handles(s, t)
      BY <3>1, <3>4, <3>5, HandlesTwice
    <3> QED
      BY <3>1, <3>4, <3>5, <3>6 DEF EndsOrWaits
  <2> QED
    BY <2>2, <2>3, <2>4
<1>2. CASE s.fdc.cmd = "WriteID"
  <2> DEFINE v == IF CanFormat(s.drive) THEN s ELSE Fails(s)
             u == [v EXCEPT !.drive = FDD_WriteID(@, Track(s), s.fdc.prm.id)]
  <2>1. t = FDC_EPhaseEnd(u)
    BY <1>2 DEF FDC_WriteBuffer
  <2>2. Handles(s, v) /\ GoodState(v)
    BY NothingDone, FailsKeeps DEF Handles
  <2> HIDE DEF v
  <2>3. Handles(v, u) /\ GoodState(u)
    BY <2>2, WriteIDKeeps, DriveKeeps DEF Handles, GoodState
  <2> HIDE DEF u
  <2>4. Handles(u, t) /\ EndsOrWaits(t)
    BY <2>1, <2>3, EPhaseEndKeeps DEF EndsOrWaits
  <2> QED
    BY <2>2, <2>3, <2>4, HandlesTwice
<1>3. CASE s.fdc.cmd = "Scan"
  <2> DEFINE u == FDC_EPhaseEnd(Fails(s))
  <2>1. t = FDC_NextTrack(s) \/ t = FDC_NextTrack(u)
    BY <1>3 DEF FDC_WriteBuffer
  <2>2. Handles(s, u) /\ GoodState(u) /\ u.fdc.cmd = s.fdc.cmd
    BY GivesUp DEF Handles
  <2> HIDE DEF u
  <2>3. Handles(s, FDC_NextTrack(s)) /\ EndsOrWaits(FDC_NextTrack(s))
    BY NextTrackKeeps
  <2>4. Handles(u, FDC_NextTrack(u)) /\ EndsOrWaits(FDC_NextTrack(u))
    BY <2>2, NextTrackKeeps
  <2> QED
    BY <2>1, <2>2, <2>3, <2>4, HandlesTwice
<1>4. CASE s.fdc.cmd \notin {"WriteData", "WriteID", "Scan"}
  <2>1. t = s
    BY <1>4 DEF FDC_WriteBuffer
  <2> QED
    BY <2>1, NothingDone DEF EndsOrWaits
<1> QED
  BY <1>1, <1>2, <1>3, <1>4

-----------------------------------------------------------------------------
(* The inductive invariant.                                                *)

(* A command is under way while its bytes are waited for, and no pointer   *)
(* leaves the buffer; at other times nothing is left of the transfer.      *)
Phase(f) ==
  IF Executing(f)
  THEN /\ f.cmd \in Phased /\ f.bufnum = Waits(f.cmd)
       /\ f.rdptr \in 0 .. f.bufnum - 1 /\ f.wrptr \in 0 .. f.bufnum - 1
       /\ f.wrnum = 0 /\ f.rdnum = 1
  ELSE ~f.wexec

(* The pointers of a command to come start at zero.                        *)
Fresh(f) == ~Executing(f) /\ f.wrnum # 0 => f.rdptr = 0 /\ f.wrptr = 0

Drives ==
  /\ fdd = [d \in Drive |-> fdd[d]]
  /\ \A d \in Drive : DriveType(fdd[d])

ProtectedReadOnly == \A d \in Drive : fdd[d].file \in Protected => fdd[d].ROnly

IInv ==
  /\ Drives /\ FdcType(fdc) /\ asked \subseteq {"FDC", "FDD"}
  /\ Phase(fdc) /\ Fresh(fdc)
  /\ ProtectedReadOnly /\ ProtectedUnchanged

(* What is left of the variables after a handler.                          *)
LEMMA KeptKeeps ==
  ASSUME NEW f, FdcType(f), Phase(f)
  PROVE  /\ FdcType(Kept(f)) /\ Phase(Kept(f)) /\ Fresh(Kept(f))
         /\ Kept(f).bufnum = f.bufnum /\ Kept(f).wexec = f.wexec
         /\ Kept(f).rdnum = f.rdnum /\ Kept(f).drv = f.drv
<1> DEFINE prm == IF Executing(f) THEN f.prm ELSE NoParameters
           buf == IF Executing(f) THEN f.buf ELSE Blank
           rdptr == IF Executing(f) THEN f.rdptr ELSE 0
           wrptr == IF Executing(f) THEN f.wrptr ELSE 0
           cmd == IF Executing(f) \/ f.wrnum # 0 THEN f.cmd ELSE "Invalid"
           rsp == IF ~Executing(f) /\ f.rdnum # 0 THEN f.rsp ELSE "ok"
<1>1. Kept(f) = [f EXCEPT !.prm = prm, !.buf = buf, !.rdptr = rdptr, !.wrptr = wrptr,
                          !.cmd = cmd, !.rsp = rsp]
  BY DEF Kept
<1>2. rdptr \in Int /\ wrptr \in Int /\ cmd \in Command /\ rsp \in {"ok", "error"}
  BY DEF FdcType, Command
<1>3. /\ Executing(f) => rdptr = f.rdptr /\ wrptr = f.wrptr /\ cmd = f.cmd
      /\ ~Executing(f) => rdptr = 0 /\ wrptr = 0
  OBVIOUS
<1> HIDE DEF prm, buf, rdptr, wrptr, cmd, rsp
<1> DEFINE a == [f EXCEPT !.prm = prm, !.buf = buf]
           b == [a EXCEPT !.rdptr = rdptr, !.wrptr = wrptr]
           c == [b EXCEPT !.cmd = cmd, !.rsp = rsp]
<1>4. /\ FdcType(a)
      /\ a.bufnum = f.bufnum /\ a.wexec = f.wexec /\ a.rdnum = f.rdnum
      /\ a.wrnum = f.wrnum /\ a.drv = f.drv
  BY DEF FdcType
<1> HIDE DEF a
<1>5. /\ FdcType(b) /\ b.rdptr = rdptr /\ b.wrptr = wrptr
      /\ b.bufnum = f.bufnum /\ b.wexec = f.wexec /\ b.rdnum = f.rdnum
      /\ b.wrnum = f.wrnum /\ b.drv = f.drv
  BY <1>2, <1>4 DEF FdcType
<1> HIDE DEF b
<1>6. /\ FdcType(c) /\ c.rdptr = rdptr /\ c.wrptr = wrptr /\ c.cmd = cmd
      /\ c.bufnum = f.bufnum /\ c.wexec = f.wexec /\ c.rdnum = f.rdnum
      /\ c.wrnum = f.wrnum /\ c.drv = f.drv
  BY <1>2, <1>5 DEF FdcType
<1>7. Kept(f) = c
  BY <1>1 DEF a, b
<1> HIDE DEF c
<1>8. Executing(c) <=> Executing(f)
  BY <1>6 DEF Executing
<1> QED
  BY <1>3, <1>6, <1>7, <1>8 DEF Phase, Fresh

(* What every handler leaves, from the state s it works on.                *)
Left(t) ==
  /\ GoodState(t) /\ SameDisk(t.drive, Selected) /\ t.fdc.drv = fdc.drv
  /\ Phase(t.fdc)

SameDisks == \A d \in Drive : SameDisk(fdd'[d], fdd[d])

LEMMA SelectedType ==
  ASSUME IInv
  PROVE  DriveType(Selected)
<1>1. DriveType(NoDrive)
  BY ReadyAssumption DEF NoDrive, Empty, DriveType
<1> QED
  BY <1>1 DEF IInv, Drives, Selected

LEMMA LeaveKeeps ==
  ASSUME IInv, NEW t, Left(t), Leave(t)
  PROVE  /\ IInv' /\ SameDisks /\ asked' = t.asked
         /\ fdc'.bufnum = t.fdc.bufnum /\ fdc'.wexec = t.fdc.wexec /\ fdc'.rdnum = t.fdc.rdnum
<1>1. /\ FdcType(fdc') /\ Phase(fdc') /\ Fresh(fdc')
      /\ fdc'.bufnum = t.fdc.bufnum /\ fdc'.wexec = t.fdc.wexec /\ fdc'.rdnum = t.fdc.rdnum
  BY KeptKeeps DEF Left, GoodState, Leave
<1>2. \A d \in Drive : DriveType(fdd'[d]) /\ SameDisk(fdd'[d], fdd[d])
  <2> TAKE d \in Drive
  <2>1. CASE d # fdc.drv
    <3>1. fdd'[d] = fdd[d]
      BY <2>1 DEF Leave
    <3> QED
      BY <3>1 DEF IInv, Drives, SameDisk
  <2>2. CASE d = fdc.drv
    <3> DEFINE trk == IF Executing(t.fdc) THEN t.drive.trk ELSE Unknown
               a == [t.drive EXCEPT !.trk = trk]
    <3>1. fdd'[d] = a
      BY <2>2 DEF Leave
    <3> HIDE DEF trk
    <3>2. DriveType(a) /\ SameDisk(a, t.drive)
      BY DEF Left, GoodState, DriveType, SameDisk
    <3> HIDE DEF a
    <3>3. Selected = fdd[d]
      BY <2>2 DEF Selected
    <3> QED
      BY <3>1, <3>2, <3>3 DEF Left, SameDisk
  <2> QED
    BY <2>1, <2>2
<1>3. fdd' = [d \in Drive |-> fdd'[d]]
  BY DEF Leave
<1>4. files' = files /\ asked' = t.asked /\ asked' \subseteq {"FDC", "FDD"}
  BY DEF Leave, Left, GoodState
<1>5. ProtectedReadOnly'
  BY <1>2 DEF IInv, ProtectedReadOnly, SameDisk
<1>6. ProtectedUnchanged'
  BY <1>4 DEF IInv, ProtectedUnchanged
<1> QED
  BY <1>1, <1>2, <1>3, <1>4, <1>5, <1>6 DEF IInv, Drives, SameDisks

LEMMA StateLeft ==
  ASSUME IInv, NEW f, FdcType(f), f.drv = fdc.drv
  PROVE  /\ GoodState(State(f)) /\ State(f).fdc = f /\ State(f).asked = {}
         /\ Phase(f) => Left(State(f))
         /\ \A t : Handles(State(f), t) /\ Phase(t.fdc) => Left(t)
<1>1. GoodState(State(f)) /\ State(f).fdc = f /\ State(f).drive = Selected
  BY SelectedType DEF State, GoodState
<1>2. Phase(f) => Left(State(f))
  BY <1>1 DEF Left, SameDisk
<1> QED
  BY <1>1, <1>2 DEF State, Left, Handles

-----------------------------------------------------------------------------
(* The steps.                                                              *)

Reported ==
  Executing(fdc) /\ ~Executing(fdc') /\ fdc' # FDC_Init =>
    "FDC" \in asked' /\ fdc'.rdnum = 1 /\ ~fdc'.wexec

Announced ==
  \A d \in Drive : FDD_IsReady(fdd'[d]) # FDD_IsReady(fdd[d]) => "FDD" \in asked'

LEMMA SameDisksAnnounced ==
  ASSUME SameDisks
  PROVE  Announced
  BY DEF SameDisks, SameDisk, Announced, FDD_IsReady

LEMMA WaitsTyped ==
  /\ \A cmd : Waits(cmd) \in Nat \ {0}
  /\ Phased \subseteq Command
  BY SizeAssumption DEF Waits, Phased, Command

LEMMA TransferLeft ==
  ASSUME IInv, Executing(fdc), NEW f, FdcType(f), f.drv = fdc.drv, f.cmd = fdc.cmd,
         f.rdnum = fdc.rdnum, f.wrnum = fdc.wrnum, f.bufnum = fdc.bufnum,
         f.rdptr \in 0 .. f.bufnum - 1,
         NEW t, GoodState(t), SameDisk(t.drive, Selected), t.fdc.drv = f.drv,
         t.fdc.cmd = f.cmd, t.fdc.rdnum = f.rdnum, t.fdc.wrnum = f.wrnum,
         t.fdc.rdptr \in {0, f.rdptr}, t.fdc.wrptr \in 0 .. f.bufnum - 1,
         EndsOrWaits(t)
  PROVE  Left(t)
<1>1. /\ f.cmd \in Phased /\ f.bufnum = Waits(f.cmd) /\ f.wrnum = 0 /\ f.rdnum = 1
      /\ f.bufnum \in Nat \ {0}
  BY WaitsTyped DEF IInv, Phase
<1>2. Phase(t.fdc)
  BY <1>1 DEF EndsOrWaits, Ended, Phase, Executing
<1> QED
  BY <1>2 DEF Left

(* A step that ends a buffer, or a byte within it.                         *)
LEMMA TransferStep ==
  ASSUME IInv, NEW t, Left(t), EndsOrWaits(t), t.fdc.rdnum = 1, Leave(t)
  PROVE  IInv' /\ Reported /\ Announced
<1>1. /\ IInv' /\ SameDisks /\ asked' = t.asked
      /\ fdc'.bufnum = t.fdc.bufnum /\ fdc'.wexec = t.fdc.wexec /\ fdc'.rdnum = 1
  BY LeaveKeeps
<1>2. Reported
  BY <1>1, WaitsTyped DEF Reported, Executing, EndsOrWaits, Ended
<1> QED
  BY <1>1, <1>2, SameDisksAnnounced

(* The controller's variables but for the pointers and the buffer.         *)
SameBut(f, rdptr, wrptr, buf) ==
  /\ FdcType(f) /\ f.cmd = fdc.cmd /\ f.cyl = fdc.cyl /\ f.drv = fdc.drv /\ f.prm = fdc.prm
  /\ f.bufnum = fdc.bufnum /\ f.rdnum = fdc.rdnum /\ f.wrnum = fdc.wrnum
  /\ f.st0 = fdc.st0 /\ f.rdptr = rdptr /\ f.wrptr = wrptr /\ f.buf = buf

Partly(f) == Left(State(f)) /\ EndsOrWaits(State(f)) /\ Leave(State(f))
Wholly(f) ==
  LET t == FDC_NextTrack(State(f))
  IN  Handles(State(f), t) /\ Left(t) /\ EndsOrWaits(t) /\ Leave(t)

LEMMA ReadPortLeaves ==
  ASSUME IInv, ReadPort
  PROVE  /\ Executing(fdc) /\ fdc.cmd \in Data
         /\ \/ \E f : /\ fdc.rdptr + 1 < SectorSize
                      /\ SameBut(f, fdc.rdptr + 1, fdc.wrptr, fdc.buf) /\ Partly(f)
            \/ \E f : /\ fdc.rdptr + 1 = SectorSize
                      /\ SameBut(f, 0, fdc.wrptr, fdc.buf) /\ Wholly(f)
<1> DEFINE f == [fdc EXCEPT !.rdptr = @ + 1]
           g == [f EXCEPT !.rdptr = 0]
<1>1. /\ fdc.cmd \in Phased /\ fdc.cmd \in Data /\ fdc.bufnum = Waits(fdc.cmd)
      /\ fdc.bufnum = SectorSize /\ SectorSize \in Nat \ {0}
      /\ fdc.rdptr \in 0 .. fdc.bufnum - 1 /\ fdc.wrptr \in 0 .. fdc.bufnum - 1
  BY SizeAssumption DEF IInv, Phase, ReadPort, Phased, Waits, Data
<1>2. SameBut(f, fdc.rdptr + 1, fdc.wrptr, fdc.buf)
  BY DEF IInv, FdcType, SameBut
<1>3. Executing(fdc) /\ Leave(IF f.rdptr >= f.bufnum THEN FDC_NextTrack(State(g)) ELSE State(f))
  BY DEF ReadPort
<1> HIDE DEF f
<1>4. SameBut(g, 0, fdc.wrptr, fdc.buf)
  BY <1>2 DEF FdcType, SameBut
<1> HIDE DEF g
<1>5. CASE f.rdptr >= f.bufnum
  <2> DEFINE t == FDC_NextTrack(State(g))
  <2>1. GoodState(State(g)) /\ State(g).fdc = g
    BY <1>4, StateLeft DEF SameBut
  <2>2. Handles(State(g), t) /\ EndsOrWaits(t)
    BY <1>1, <1>4, <2>1, NextTrackKeeps DEF SameBut
  <2>3. Leave(t)
    BY <1>3, <1>5
  <2>4. State(g).drive = Selected
    BY DEF State
  <2> HIDE DEF t
  <2>5. Left(t)
    BY <1>1, <1>3, <1>4, <2>1, <2>2, <2>4, TransferLeft DEF Handles, SameBut
  <2>6. Wholly(g)
    BY <2>2, <2>3, <2>5 DEF Wholly, t
  <2>7. fdc.rdptr + 1 = SectorSize
    BY <1>1, <1>2, <1>5 DEF SameBut
  <2> QED
    BY <1>1, <1>3, <1>4, <2>6, <2>7
<1>6. CASE ~(f.rdptr >= f.bufnum)
  <2>1. GoodState(State(f)) /\ State(f).fdc = f
    BY <1>2, StateLeft DEF SameBut
  <2>2. Leave(State(f)) /\ SameDisk(State(f).drive, Selected)
    BY <1>3, <1>6 DEF State, SameDisk
  <2>3. f.rdptr \in 0 .. f.bufnum - 1
    BY <1>1, <1>2, <1>6 DEF SameBut
  <2>4. EndsOrWaits(State(f))
    BY <1>1, <1>2, <2>1 DEF EndsOrWaits, SameBut
  <2>5. Left(State(f))
    BY <1>1, <1>2, <1>3, <2>1, <2>2, <2>3, <2>4, TransferLeft DEF SameBut
  <2>6. fdc.rdptr + 1 < SectorSize
    BY <1>1, <1>2, <1>6 DEF SameBut
  <2> QED
    BY <1>1, <1>2, <1>3, <2>2, <2>4, <2>5, <2>6 DEF Partly
<1> QED
  BY <1>5, <1>6

LEMMA ReadPortStep ==
  ASSUME IInv, ReadPort
  PROVE  IInv' /\ Reported /\ Announced
<1>1. fdc.rdnum = 1
  BY DEF IInv, Phase, ReadPort
<1>2. ASSUME NEW f, SameBut(f, fdc.rdptr + 1, fdc.wrptr, fdc.buf), Partly(f)
      PROVE  IInv' /\ Reported /\ Announced
  BY <1>1, <1>2, TransferStep DEF Partly, SameBut, State
<1>3. ASSUME NEW f, SameBut(f, 0, fdc.wrptr, fdc.buf), Wholly(f)
      PROVE  IInv' /\ Reported /\ Announced
  <2>1. State(f).fdc = f
    BY DEF State
  <2> QED
    BY <1>1, <1>3, <2>1, TransferStep DEF Wholly, SameBut, Handles
<1> QED
  BY <1>2, <1>3, ReadPortLeaves

(* What the buffer holds with the byte.                                    *)
Filled(byte) ==
  IF Reads THEN Overwritten(byte)
  ELSE IF fdc.wrptr = 0 THEN <<byte>> ELSE Append(fdc.buf, byte)

(* The state s with its buffer started over.                               *)
Restarted(s, t) ==
  /\ t.drive = s.drive /\ t.fdc.wrptr = 0
  /\ t.fdc.cmd = s.fdc.cmd /\ t.fdc.cyl = s.fdc.cyl /\ t.fdc.prm = s.fdc.prm
  /\ t.fdc.bufnum = s.fdc.bufnum /\ t.fdc.rdnum = s.fdc.rdnum /\ t.fdc.rdptr = s.fdc.rdptr
  /\ t.fdc.st0 = s.fdc.st0 /\ t.fdc.rsp = s.fdc.rsp /\ t.fdc.buf = s.fdc.buf

LEMMA WritePortLeaves ==
  ASSUME IInv, NEW byte \in Byte, WritePort(byte)
  PROVE  /\ Executing(fdc) /\ fdc.cmd \in Phased
         /\ \/ \E f : /\ fdc.wrptr + 1 < fdc.bufnum
                      /\ SameBut(f, fdc.rdptr, fdc.wrptr + 1, Filled(byte)) /\ Partly(f)
            \/ \E f : /\ fdc.wrptr + 1 = fdc.bufnum
                      /\ SameBut(f, fdc.rdptr, fdc.wrptr + 1, Filled(byte))
                      /\ \E s \in FDC_WriteBuffer(State(f)) : \E t :
                           /\ Handles(State(f), s) /\ Restarted(s, t)
                           /\ Left(t) /\ EndsOrWaits(t) /\ Leave(t)
<1> DEFINE buf == Filled(byte)
           a == [fdc EXCEPT !.wrptr = @ + 1]
           f == [a EXCEPT !.buf = buf]
<1>1. /\ fdc.cmd \in Phased /\ fdc.bufnum = Waits(fdc.cmd) /\ fdc.bufnum \in Nat \ {0}
      /\ fdc.rdptr \in 0 .. fdc.bufnum - 1 /\ fdc.wrptr \in 0 .. fdc.bufnum - 1
  BY WaitsTyped DEF IInv, Phase, WritePort
<1>2. /\ Executing(fdc)
      /\ IF f.wrptr >= f.bufnum
         THEN \E s \in FDC_WriteBuffer(State(f)) : Leave(Store(f, s))
         ELSE Leave(State(f))
  BY DEF WritePort, Filled
<1> HIDE DEF buf
<1>3. SameBut(f, fdc.rdptr, fdc.wrptr + 1, buf)
  <2>1. SameBut(a, fdc.rdptr, fdc.wrptr + 1, fdc.buf)
    BY DEF IInv, FdcType, SameBut
  <2> HIDE DEF a
  <2> QED
    BY <2>1 DEF FdcType, SameBut
<1> HIDE DEF f
<1>4. GoodState(State(f)) /\ State(f).fdc = f /\ SameDisk(State(f).drive, Selected)
  BY <1>3, StateLeft DEF State, SameDisk, SameBut
<1>5. CASE f.wrptr >= f.bufnum
  <2>1. PICK s \in FDC_WriteBuffer(State(f)) : Leave(Store(f, s))
    BY <1>2, <1>5
  <2>2. Handles(State(f), s) /\ EndsOrWaits(s)
    BY <1>1, <1>3, <1>4, WriteBufferKeeps DEF SameBut
  <2> DEFINE g == [s.fdc EXCEPT !.wrptr = 0]
             t == [fdc |-> g, drive |-> s.drive, asked |-> s.asked]
  <2>3. Store(f, s) = t
    BY <2>2 DEF Store, Handles, GoodState
  <2>4. /\ FdcType(g) /\ g.drv = s.fdc.drv /\ g.cmd = s.fdc.cmd /\ g.rdnum = s.fdc.rdnum
        /\ g.wrnum = s.fdc.wrnum /\ g.bufnum = s.fdc.bufnum /\ g.rdptr = s.fdc.rdptr
        /\ g.wexec = s.fdc.wexec /\ g.wrptr = 0
        /\ g.cyl = s.fdc.cyl /\ g.prm = s.fdc.prm /\ g.st0 = s.fdc.st0 /\ g.rsp = s.fdc.rsp
        /\ g.buf = s.fdc.buf
    BY <2>2 DEF Handles, GoodState, FdcType
  <2> HIDE DEF g
  <2>5. GoodState(t) /\ EndsOrWaits(t) /\ Restarted(s, t)
    BY <2>2, <2>4 DEF Handles, GoodState, EndsOrWaits, Ended, Restarted
  <2>6. SameDisk(t.drive, Selected)
    BY <1>4, <2>2 DEF Handles, SameDisk
  <2>7. /\ t.fdc.drv = f.drv /\ t.fdc.cmd = f.cmd /\ t.fdc.rdnum = f.rdnum
        /\ t.fdc.wrnum = f.wrnum /\ t.fdc.rdptr \in {0, f.rdptr} /\ t.fdc.wrptr = 0
    BY <1>4, <2>2, <2>4 DEF Handles
  <2>8. Leave(t)
    BY <2>1, <2>3
  <2> HIDE DEF t
  <2>9. Left(t)
    BY <1>1, <1>2, <1>3, <2>5, <2>6, <2>7, TransferLeft DEF SameBut
  <2>10. fdc.wrptr + 1 = fdc.bufnum
    BY <1>1, <1>3, <1>5 DEF SameBut
  <2> QED
    BY <1>1, <1>2, <1>3, <2>2, <2>5, <2>8, <2>9, <2>10 DEF buf
<1>6. CASE ~(f.wrptr >= f.bufnum)
  <2>1. Leave(State(f))
    BY <1>2, <1>6
  <2>2. f.wrptr \in 0 .. f.bufnum - 1 /\ fdc.wrptr + 1 < fdc.bufnum
    BY <1>1, <1>3, <1>6 DEF SameBut
  <2>3. EndsOrWaits(State(f))
    BY <1>1, <1>3, <1>4 DEF EndsOrWaits, SameBut
  <2>4. Left(State(f))
    BY <1>1, <1>2, <1>3, <1>4, <2>1, <2>2, <2>3, TransferLeft DEF SameBut
  <2> QED
    BY <1>1, <1>2, <1>3, <2>1, <2>2, <2>3, <2>4 DEF Partly, buf
<1> QED
  BY <1>5, <1>6

LEMMA WritePortStep ==
  ASSUME IInv, NEW byte \in Byte, WritePort(byte)
  PROVE  IInv' /\ Reported /\ Announced
<1>1. fdc.rdnum = 1
  BY DEF IInv, Phase, WritePort
<1>2. ASSUME NEW f, SameBut(f, fdc.rdptr, fdc.wrptr + 1, Filled(byte)), Partly(f)
      PROVE  IInv' /\ Reported /\ Announced
  BY <1>1, <1>2, TransferStep DEF Partly, SameBut, State
<1>3. ASSUME NEW f, SameBut(f, fdc.rdptr, fdc.wrptr + 1, Filled(byte)),
             NEW s \in FDC_WriteBuffer(State(f)), NEW t, Handles(State(f), s),
             Restarted(s, t), Left(t), EndsOrWaits(t), Leave(t)
      PROVE  IInv' /\ Reported /\ Announced
  <2>1. State(f).fdc = f
    BY DEF State
  <2> QED
    BY <1>1, <1>3, <2>1, TransferStep DEF Restarted, SameBut, Handles
<1> QED
  BY <1>2, <1>3, WritePortLeaves

LEMMA IdleStep ==
  ASSUME IInv, ~Executing(fdc), NEW t, Left(t), Leave(t)
  PROVE  IInv' /\ Reported /\ Announced
  BY LeaveKeeps, SameDisksAnnounced DEF Reported

LEMMA ReadResultStep ==
  ASSUME IInv, ReadResult
  PROVE  IInv' /\ Reported /\ Announced
<1> DEFINE f == [fdc EXCEPT !.rdptr = @ + 1, !.rdnum = @ - 1]
<1>1. /\ FdcType(f) /\ f.drv = fdc.drv /\ f.bufnum = fdc.bufnum /\ f.wexec = fdc.wexec
  <2> DEFINE a == [fdc EXCEPT !.rdptr = @ + 1]
  <2>1. /\ FdcType(a) /\ a.drv = fdc.drv /\ a.bufnum = fdc.bufnum /\ a.wexec = fdc.wexec
        /\ a.rdnum = fdc.rdnum
    BY DEF IInv, FdcType
  <2> HIDE DEF a
  <2> DEFINE b == [a EXCEPT !.rdnum = @ - 1]
  <2>2. FdcType(b) /\ b.drv = fdc.drv /\ b.bufnum = fdc.bufnum /\ b.wexec = fdc.wexec
    BY <2>1 DEF FdcType, ReadResult
  <2>3. b = f
    BY DEF a
  <2> QED
    BY <2>2, <2>3
<1>2. ~Executing(fdc) /\ Leave(State(f))
  BY DEF ReadResult
<1> HIDE DEF f
<1>3. Phase(f)
  BY <1>1, <1>2 DEF IInv, Phase, Executing
<1> QED
  BY <1>1, <1>2, <1>3, StateLeft, IdleStep

(* The execution of a command, with the parameters it was given.           *)
LEMMA ExecutedStep ==
  ASSUME IInv, ~Executing(fdc), NEW f, FdcType(f), f.drv = fdc.drv, f.bufnum = 0, ~f.wexec,
         f.wrnum = 0, f.cmd \in Phased => f.rdptr = 0 /\ f.wrptr = 0,
         NEW prm, f.cmd = "Seek" => prm.n \in Cylinders, Leave(Executed(f, prm))
  PROVE  IInv' /\ Reported /\ Announced
<1> DEFINE a == [f EXCEPT !.prm = prm]
           g == [a EXCEPT !.rdnum = DAT_TABLE(f.cmd)]
           t == FDC_ExecCmd(State(g))
<1>1. Leave(t)
  BY DEF Executed
<1>2. /\ FdcType(a) /\ a.prm = prm /\ a.drv = f.drv /\ a.bufnum = f.bufnum
      /\ a.wexec = f.wexec /\ a.wrnum = f.wrnum /\ a.rdptr = f.rdptr /\ a.wrptr = f.wrptr
      /\ a.cmd = f.cmd
  BY DEF FdcType
<1> HIDE DEF a
<1>3. DAT_TABLE(f.cmd) \in {0, 1} /\ (f.cmd \in Phased => DAT_TABLE(f.cmd) = 1)
  BY DEF DAT_TABLE, Phased
<1>4. /\ FdcType(g) /\ g.prm = prm /\ g.drv = f.drv /\ g.bufnum = f.bufnum
      /\ g.wexec = f.wexec /\ g.wrnum = f.wrnum /\ g.rdptr = f.rdptr /\ g.wrptr = f.wrptr
      /\ g.cmd = f.cmd /\ g.rdnum = DAT_TABLE(f.cmd)
  BY <1>2, <1>3 DEF FdcType
<1> HIDE DEF g
<1>5. GoodState(State(g)) /\ State(g).fdc = g
  BY <1>4, StateLeft
<1>6. CASE f.cmd \in Phased
  <2>1. Handles(State(g), t) /\ EndsOrWaits(t)
    BY <1>4, <1>5, <1>6, ExecPhasedKeeps
  <2> HIDE DEF t
  <2>2. /\ t.fdc.cmd = f.cmd /\ t.fdc.rdnum = 1 /\ t.fdc.wrnum = 0
        /\ t.fdc.rdptr = 0 /\ t.fdc.wrptr = 0
    BY <1>3, <1>4, <1>5, <1>6, <2>1 DEF Handles
  <2>3. Phase(t.fdc)
    BY <1>6, <2>1, <2>2, WaitsTyped DEF EndsOrWaits, Ended, Phase, Executing
  <2>4. Left(t)
    BY <1>4, <2>1, <2>3, StateLeft
  <2> QED
    BY <1>1, <2>4, IdleStep
<1>7. CASE f.cmd \notin Phased
  <2>1. Quietly(State(g), t)
    BY <1>4, <1>5, <1>7, ExecOtherKeeps
  <2> HIDE DEF t
  <2>2. Handles(State(g), t) /\ Phase(t.fdc)
    BY <1>4, <1>5, <2>1 DEF Quietly, Phase, Executing
  <2>3. Left(t)
    BY <1>4, <2>2, StateLeft
  <2> QED
    BY <1>1, <2>3, IdleStep
<1> QED
  BY <1>6, <1>7

LEMMA StartCommandStep ==
  ASSUME IInv, NEW cmd \in Command, StartCommand(cmd)
  PROVE  IInv' /\ Reported /\ Announced
<1> DEFINE a == [fdc EXCEPT !.cmd = cmd, !.rdptr = 0]
           f == [a EXCEPT !.rdnum = 0, !.wrnum = CMD_TABLE(cmd)]
<1>1. /\ ~Executing(fdc)
      /\ Leave(IF f.wrnum = 0 THEN Executed(f, NoParameters) ELSE State(f))
  BY DEF StartCommand
<1>2. /\ FdcType(a) /\ a.drv = fdc.drv /\ a.bufnum = fdc.bufnum /\ a.wexec = fdc.wexec
      /\ a.cmd = cmd
  <2> DEFINE b == [fdc EXCEPT !.cmd = cmd]
  <2>1. /\ FdcType(b) /\ b.drv = fdc.drv /\ b.bufnum = fdc.bufnum /\ b.wexec = fdc.wexec
        /\ b.cmd = cmd
    BY DEF IInv, FdcType
  <2> HIDE DEF b
  <2> DEFINE c == [b EXCEPT !.rdptr = 0]
  <2>2. /\ FdcType(c) /\ c.drv = fdc.drv /\ c.bufnum = fdc.bufnum /\ c.wexec = fdc.wexec
        /\ c.cmd = cmd
    BY <2>1 DEF FdcType
  <2>3. c = a
    BY DEF b
  <2> QED
    BY <2>2, <2>3
<1> HIDE DEF a
<1>3. /\ CMD_TABLE(cmd) \in {0, 1}
      /\ CMD_TABLE(cmd) = 0 => cmd \notin Phased /\ cmd # "Seek"
  BY DEF CMD_TABLE, Phased, Data
<1>4. /\ FdcType(f) /\ f.drv = fdc.drv /\ f.bufnum = fdc.bufnum /\ f.wexec = fdc.wexec
      /\ f.cmd = cmd /\ f.wrnum = CMD_TABLE(cmd)
  BY <1>2, <1>3 DEF FdcType
<1> HIDE DEF f
<1>5. fdc.bufnum = 0 /\ ~fdc.wexec
  BY <1>1 DEF IInv, Phase, Executing
<1>6. CASE f.wrnum = 0
  BY <1>1, <1>3, <1>4, <1>5, <1>6, ExecutedStep
<1>7. CASE f.wrnum # 0
  <2>1. Phase(f)
    BY <1>4, <1>5 DEF Phase, Executing
  <2> QED
    BY <1>1, <1>4, <1>7, <2>1, StateLeft, IdleStep
<1> QED
  BY <1>6, <1>7

LEMMA WriteParametersStep ==
  ASSUME IInv, WriteParameters
  PROVE  IInv' /\ Reported /\ Announced
<1> DEFINE f == [fdc EXCEPT !.wrnum = 0]
<1>1. PICK prm \in Parameters(fdc.cmd) : Leave(Executed(f, prm))
  BY DEF WriteParameters
<1>2. /\ FdcType(f) /\ f.drv = fdc.drv /\ f.bufnum = fdc.bufnum /\ f.wexec = fdc.wexec
      /\ f.cmd = fdc.cmd /\ f.wrnum = 0 /\ f.rdptr = fdc.rdptr /\ f.wrptr = fdc.wrptr
  BY DEF IInv, FdcType
<1> HIDE DEF f
<1>3. ~Executing(fdc) /\ fdc.bufnum = 0 /\ ~fdc.wexec /\ fdc.rdptr = 0 /\ fdc.wrptr = 0
  BY DEF WriteParameters, IInv, Phase, Fresh, Executing
<1>4. fdc.cmd = "Seek" => prm.n \in Cylinders
  <2>1. fdc.cmd = "Seek" => prm \in [n : Cylinders]
    BY DEF Parameters, Data
  <2> QED
    BY <2>1
<1> QED
  BY <1>1, <1>2, <1>3, <1>4, ExecutedStep

-----------------------------------------------------------------------------
(* The disks come and go.                                                  *)

LEMMA EmptyType ==
  ASSUME NEW readonly \in BOOLEAN, NEW delay \in 0 .. Ready
  PROVE  /\ DriveType(Empty(readonly, delay)) /\ Empty(readonly, delay).file = NoFile
         /\ ~FDD_IsReady(Empty(readonly, delay))
  BY DEF Empty, DriveType, FDD_IsReady

LEMMA InsertedType ==
  ASSUME NEW f \in File, NEW contents
  PROVE  /\ DriveType(Inserted(f, contents)) /\ ~FDD_IsReady(Inserted(f, contents))
         /\ Inserted(f, contents).file \in Protected => Inserted(f, contents).ROnly
<1> DEFINE protected == f \in Protected
           a == [file |-> f, ROnly |-> protected, img |-> contents, trk |-> Unknown,
                 SetDelay |-> Ready]
<1>1. Inserted(f, contents) = a
  BY DEF Inserted
<1>2. protected \in BOOLEAN
  OBVIOUS
<1>3. a.file \in Protected => a.ROnly
  OBVIOUS
<1> HIDE DEF protected
<1>4. DriveType(a) /\ ~FDD_IsReady(a)
  BY <1>2, ReadyAssumption DEF DriveType, FDD_IsReady
<1> QED
  BY <1>1, <1>3, <1>4

(* No disk that is protected is written back.                              *)
LEMMA BackUnchanged ==
  ASSUME IInv, NEW out \in SUBSET Drive, NEW opens
  PROVE  \A f \in Protected : WrittenBack(out, opens)[f] = Contents[f]
<1> TAKE f \in Protected
<1>1. f \in File
  BY FileAssumption
<1>2. {d \in out \intersect opens : fdd[d].file = f /\ ~fdd[d].ROnly} = {}
  BY DEF IInv, ProtectedReadOnly
<1>3. WrittenBack(out, opens)[f] = files[f]
  BY <1>1, <1>2 DEF WrittenBack
<1> QED
  BY <1>3 DEF IInv, ProtectedUnchanged

LEMMA EjectStep ==
  ASSUME IInv, NEW out \in SUBSET Drive, NEW opens, FDD_EjectFD(out, opens),
         asked' = IF Holding(out) = {} THEN {} ELSE {"FDD"},
         FdcType(fdc'), Phase(fdc'), Fresh(fdc')
  PROVE  IInv' /\ Announced
<1>1. \A d \in Drive : d \notin out => fdd'[d] = fdd[d]
  BY DEF FDD_EjectFD
<1>2. \A d \in out : fdd'[d] = Empty(FALSE, fdd[d].SetDelay)
  BY DEF FDD_EjectFD
<1>3. \A d \in Drive : fdd[d].SetDelay \in 0 .. Ready
  BY DEF IInv, Drives, DriveType
<1>4. \A d \in out : DriveType(fdd'[d]) /\ fdd'[d].file = NoFile /\ ~FDD_IsReady(fdd'[d])
  BY <1>2, <1>3, EmptyType
<1>5. Drives'
  BY <1>1, <1>4 DEF IInv, Drives, FDD_EjectFD
<1>6. ProtectedReadOnly'
  BY <1>1, <1>4, NoFileUnprotected DEF IInv, ProtectedReadOnly
<1>7. ProtectedUnchanged'
  BY BackUnchanged DEF FDD_EjectFD, ProtectedUnchanged
<1>8. Announced
  <2> SUFFICES ASSUME NEW d \in Drive, FDD_IsReady(fdd'[d]) # FDD_IsReady(fdd[d])
               PROVE  "FDD" \in asked'
    BY DEF Announced
  <2>1. d \in out
    BY <1>1
  <2>2. FDD_IsReady(fdd[d])
    BY <1>4, <2>1 DEF FDD_IsReady
  <2>3. d \in Holding(out)
    BY <2>1, <2>2 DEF Holding, FDD_IsReady
  <2> QED
    BY <2>3
<1>9. asked' \subseteq {"FDC", "FDD"}
  OBVIOUS
<1> QED
  BY <1>5, <1>6, <1>7, <1>8, <1>9 DEF IInv

LEMMA DriveControlStep ==
  ASSUME IInv, NEW lines \in SUBSET Drive, NEW eject \in BOOLEAN, DriveControl(lines, eject)
  PROVE  IInv' /\ Reported /\ Announced
<1> DEFINE out == IF fdc.eject THEN fdc.ctrl \ lines ELSE {}
           bit == eject /\ lines # {}
           f == [fdc EXCEPT !.ctrl = lines, !.eject = bit]
<1>1. out \in SUBSET Drive
  BY DEF IInv, FdcType
<1>2. /\ fdc' = f
      /\ asked' = IF Holding(out) = {} THEN {} ELSE {"FDD"}
      /\ \E opens \in SUBSET Holding(out) : FDD_EjectFD(out, opens)
  BY DEF DriveControl
<1>3. bit \in BOOLEAN
  OBVIOUS
<1> HIDE DEF out, bit
<1>4. /\ FdcType(f) /\ f.bufnum = fdc.bufnum /\ f.wexec = fdc.wexec /\ f.cmd = fdc.cmd
      /\ f.rdptr = fdc.rdptr /\ f.wrptr = fdc.wrptr /\ f.wrnum = fdc.wrnum
      /\ f.rdnum = fdc.rdnum
  BY <1>3 DEF IInv, FdcType
<1> HIDE DEF f
<1>5. FdcType(fdc') /\ Phase(fdc') /\ Fresh(fdc')
  BY <1>2, <1>4 DEF IInv, Phase, Fresh, Executing
<1>6. Reported
  BY <1>2, <1>4 DEF Reported, Executing
<1> QED
  BY <1>1, <1>2, <1>5, <1>6, EjectStep

LEMMA EjectDiskStep ==
  ASSUME IInv, NEW d \in Drive, EjectDisk(d)
  PROVE  IInv' /\ Reported /\ Announced
<1>1. FdcType(fdc') /\ Phase(fdc') /\ Fresh(fdc') /\ Reported
  BY DEF EjectDisk, IInv, Reported
<1> QED
  BY <1>1, EjectStep DEF EjectDisk

LEMMA InsertDiskStep ==
  ASSUME IInv, NEW d \in Drive, NEW f \in File, InsertDisk(d, f)
  PROVE  IInv' /\ Reported /\ Announced
<1>1. FdcType(fdc') /\ Phase(fdc') /\ Fresh(fdc') /\ Reported
  BY DEF InsertDisk, IInv, Reported
<1>2. asked' = IF Holding({d}) = {} THEN {} ELSE {"FDD"}
  BY DEF InsertDisk
<1>3. PICK opens \in SUBSET Holding({d}), loads \in BOOLEAN : FDD_SetFD(d, f, opens, loads)
  BY DEF InsertDisk
<1> DEFINE a == IF loads THEN Inserted(f, files'[f]) ELSE Empty(TRUE, fdd[d].SetDelay)
<1>4. /\ fdd' = [fdd EXCEPT ![d] = a]
      /\ files' = WrittenBack({d}, opens)
  BY <1>3 DEF FDD_SetFD
<1>5. DriveType(a) /\ ~FDD_IsReady(a) /\ (a.file \in Protected => a.ROnly)
  <2>1. fdd[d].SetDelay \in 0 .. Ready
    BY DEF IInv, Drives, DriveType
  <2> QED
    BY <2>1, InsertedType, EmptyType, NoFileUnprotected
<1> HIDE DEF a
<1>6. fdd'[d] = a /\ (\A e \in Drive : e # d => fdd'[e] = fdd[e])
  BY <1>4 DEF IInv, Drives
<1>7. Drives'
  BY <1>4, <1>5, <1>6 DEF IInv, Drives
<1>8. ProtectedReadOnly'
  BY <1>5, <1>6 DEF IInv, ProtectedReadOnly
<1>9. ProtectedUnchanged'
  BY <1>4, BackUnchanged DEF ProtectedUnchanged
<1>10. Announced
  BY <1>2, <1>5, <1>6 DEF Announced, Holding, FDD_IsReady
<1>11. asked' \subseteq {"FDC", "FDD"}
  BY <1>2
<1> QED
  BY <1>1, <1>7, <1>8, <1>9, <1>10, <1>11 DEF IInv

LEMMA FrameStep ==
  ASSUME IInv, Frame
  PROVE  IInv' /\ Reported /\ Announced
<1>1. FdcType(fdc') /\ Phase(fdc') /\ Fresh(fdc') /\ Reported /\ files' = files
  BY DEF Frame, IInv, Reported, FDD_SetFDInt
<1>2. asked' = IF Arriving = {} THEN {} ELSE {"FDD"}
  BY DEF Frame
<1>3. \A d \in Drive :
        /\ DriveType(fdd'[d]) /\ fdd'[d].file = fdd[d].file /\ fdd'[d].ROnly = fdd[d].ROnly
        /\ d \notin Arriving => (FDD_IsReady(fdd'[d]) <=> FDD_IsReady(fdd[d]))
  <2> TAKE d \in Drive
  <2>1. DriveType(fdd[d])
    BY DEF IInv, Drives
  <2>2. CASE d \in Waiting
    <3> DEFINE a == [fdd[d] EXCEPT !.SetDelay = @ - 1]
    <3>1. fdd'[d] = a
      BY <2>2 DEF Frame, FDD_SetFDInt
    <3>2. /\ DriveType(a) /\ a.file = fdd[d].file /\ a.ROnly = fdd[d].ROnly
          /\ a.SetDelay = fdd[d].SetDelay - 1
      BY <2>1, <2>2, ReadyAssumption DEF DriveType, Waiting
    <3> HIDE DEF a
    <3>3. d \notin Arriving => a.SetDelay # 0 /\ fdd[d].SetDelay # 0
      BY <2>1, <2>2, <3>2, ReadyAssumption DEF DriveType, Waiting, Arriving
    <3> QED
      BY <3>1, <3>2, <3>3 DEF FDD_IsReady
  <2>3. CASE d \notin Waiting
    <3>1. fdd'[d] = fdd[d]
      BY <2>3 DEF Frame, FDD_SetFDInt
    <3> QED
      BY <2>1, <3>1
  <2> QED
    BY <2>2, <2>3
<1>4. Drives'
  <2> DEFINE g(d) == IF d \in Waiting THEN [fdd[d] EXCEPT !.SetDelay = @ - 1] ELSE fdd[d]
  <2>1. fdd' = [d \in Drive |-> g(d)]
    BY DEF Frame, FDD_SetFDInt
  <2> HIDE DEF g
  <2>2. fdd' = [d \in Drive |-> fdd'[d]]
    BY <2>1
  <2> QED
    BY <1>3, <2>2 DEF Drives
<1>5. ProtectedReadOnly' /\ ProtectedUnchanged'
  BY <1>1, <1>3 DEF IInv, ProtectedReadOnly, ProtectedUnchanged
<1>6. Announced
  BY <1>2, <1>3 DEF Announced, FDD_IsReady
<1> QED
  BY <1>1, <1>2, <1>4, <1>5, <1>6 DEF IInv

LEMMA InitialFdc ==
  FdcType(FDC_Init) /\ Phase(FDC_Init) /\ Fresh(FDC_Init)
  BY DEF FDC_Init, FdcType, Phase, Fresh, Executing, Command, NoParameters, Blank

LEMMA ResetStep ==
  ASSUME IInv, Reset
  PROVE  IInv' /\ Reported /\ Announced
<1>1. /\ fdc' = FDC_Init /\ files' = files /\ asked' = {}
      /\ fdd' = [d \in Drive |-> [fdd[d] EXCEPT !.trk = Unknown]]
  BY DEF Reset
<1>2. \A d \in Drive : DriveType(fdd'[d]) /\ SameDisk(fdd'[d], fdd[d])
  <2> TAKE d \in Drive
  <2>1. DriveType(fdd[d]) /\ fdd'[d] = [fdd[d] EXCEPT !.trk = Unknown]
    BY <1>1 DEF IInv, Drives
  <2> QED
    BY <2>1 DEF DriveType, SameDisk
<1>3. Drives'
  BY <1>1, <1>2 DEF Drives
<1>4. ProtectedReadOnly' /\ ProtectedUnchanged'
  BY <1>1, <1>2 DEF IInv, ProtectedReadOnly, ProtectedUnchanged, SameDisk
<1>5. Reported
  BY <1>1 DEF Reported
<1> QED
  BY <1>1, <1>2, <1>3, <1>4, <1>5, InitialFdc, SameDisksAnnounced DEF IInv, SameDisks

LEMMA SelectDriveStep ==
  ASSUME IInv, NEW d \in Drive \union {-1}, SelectDrive(d)
  PROVE  IInv' /\ Reported /\ Announced
<1> DEFINE f == [fdc EXCEPT !.drv = d]
<1>1. fdc' = f /\ asked' = {} /\ fdd' = fdd /\ files' = files
  BY DEF SelectDrive
<1>2. /\ FdcType(f) /\ f.bufnum = fdc.bufnum /\ f.wexec = fdc.wexec /\ f.cmd = fdc.cmd
      /\ f.rdptr = fdc.rdptr /\ f.wrptr = fdc.wrptr /\ f.wrnum = fdc.wrnum
      /\ f.rdnum = fdc.rdnum
  BY DEF IInv, FdcType
<1> HIDE DEF f
<1>3. FdcType(fdc') /\ Phase(fdc') /\ Fresh(fdc')
  BY <1>1, <1>2 DEF IInv, Phase, Fresh, Executing
<1>4. Reported /\ Announced
  BY <1>1, <1>2 DEF Reported, Executing, Announced
<1> QED
  BY <1>1, <1>3, <1>4 DEF IInv, Drives, ProtectedReadOnly, ProtectedUnchanged

LEMMA StepKeeps ==
  ASSUME IInv, Next
  PROVE  IInv' /\ Reported /\ Announced
<1>1. CASE ReadPort
  BY <1>1, ReadPortStep
<1>2. CASE ReadResult
  BY <1>2, ReadResultStep
<1>3. CASE \E byte \in Byte : WritePort(byte)
  BY <1>3, WritePortStep
<1>4. CASE \E cmd \in Command : StartCommand(cmd)
  BY <1>4, StartCommandStep
<1>5. CASE WriteParameters
  BY <1>5, WriteParametersStep
<1>6. CASE \E d \in Drive \union {-1} : SelectDrive(d)
  BY <1>6, SelectDriveStep
<1>7. CASE \E lines \in SUBSET Drive, eject \in BOOLEAN : DriveControl(lines, eject)
  BY <1>7, DriveControlStep
<1>8. CASE \E d \in Drive : EjectDisk(d)
  BY <1>8, EjectDiskStep
<1>9. CASE \E d \in Drive, f \in File : InsertDisk(d, f)
  BY <1>9, InsertDiskStep
<1>10. CASE Frame
  BY <1>10, FrameStep
<1>11. CASE Reset
  BY <1>11, ResetStep
<1> QED
  BY <1>1, <1>2, <1>3, <1>4, <1>5, <1>6, <1>7, <1>8, <1>9, <1>10, <1>11 DEF Next

LEMMA Stutters ==
  ASSUME IInv, UNCHANGED vars
  PROVE  IInv'
  BY DEF vars, IInv, Drives, ProtectedReadOnly, ProtectedUnchanged

LEMMA InitKeeps ==
  ASSUME Init
  PROVE  IInv
<1>1. \A d \in Drive : fdd[d] = Empty(FALSE, 0)
  BY DEF Init, DriveInit
<1>2. DriveType(Empty(FALSE, 0)) /\ Empty(FALSE, 0).file = NoFile
  <2>1. FALSE \in BOOLEAN /\ 0 \in 0 .. Ready
    BY ReadyAssumption
  <2> QED
    BY <2>1, EmptyType
<1>3. fdd = [d \in Drive |-> fdd[d]]
  BY DEF Init, DriveInit
<1>4. Drives
  BY <1>1, <1>2, <1>3 DEF Drives
<1>5. ProtectedReadOnly
  BY <1>1, <1>2, NoFileUnprotected DEF ProtectedReadOnly
<1> QED
  BY <1>4, <1>5, InitialFdc DEF Init, DriveInit, IInv, ProtectedUnchanged

LEMMA Inductive == Spec => []IInv
<1>1. IInv /\ [Next]_vars => IInv'
  BY StepKeeps, Stutters
<1> QED
  BY <1>1, InitKeeps, PTL DEF Spec

-----------------------------------------------------------------------------
(* What is moved.  The parameters of a transfer are those of the table,    *)
(* what is to be written is what the program wrote, and every sector of an *)
(* image is one.                                                           *)
TransferParameters ==
  [mt : BOOLEAN, hd : {0, 1}, c : Nat, h : Nat, r : 0 .. RMod - 1, eot : 0 .. RMod - 1]

Image(img) == \A p \in DOMAIN img : p = <<p[1], p[2]>> /\ Sector(img[p])

Images ==
  /\ \A d \in Drive : Image(fdd[d].img)
  /\ \A f \in File : Image(files[f])

Carried(f) ==
  /\ Executing(f) /\ f.cmd \in Data => f.prm \in TransferParameters
  /\ Executing(f) /\ f.cmd = "WriteData" /\ f.wrptr # 0 =>
       f.buf \in Seq(Byte) /\ Len(f.buf) = f.wrptr

(* A transfer that nothing has disturbed is at its sector, without error.  *)
AtSector(s) ==
  /\ s.fdc.st0 = "ok" /\ s.drive.file # NoFile /\ s.drive.trk = Track(s)
  /\ s.fdc.cmd = "ReadData" =>
       /\ <<Track(s), Id(s)>> \in DOMAIN s.drive.img
       /\ s.fdc.buf = s.drive.img[<<Track(s), Id(s)>>]

Here == <<2 * fdc.cyl + fdc.prm.hd, [c |-> fdc.prm.c, h |-> fdc.prm.h, r |-> fdc.prm.r]>>

InPlace ==
  /\ fdc.st0 = "ok" /\ Selected.file # NoFile /\ Selected.trk = 2 * fdc.cyl + fdc.prm.hd
  /\ fdc.cmd = "ReadData" => Here \in DOMAIN Selected.img /\ fdc.buf = Selected.img[Here]

(* The bytes moved of it are those before the pointer.                     *)
Moved ==
  IF fdc.cmd = "ReadData"
  THEN moved = [i \in 1 .. fdc.rdptr |-> fdc.buf[i]]
  ELSE moved = IF fdc.wrptr = 0 THEN << >> ELSE fdc.buf

TransferInv ==
  /\ Images /\ Carried(fdc)
  /\ ~Executing(fdc) => ~disturbed /\ moved = << >>
  /\ Transferring => InPlace /\ Moved

-----------------------------------------------------------------------------
(* The sectors a transfer has left.                                        *)
LEMMA TailOfConcat ==
  ASSUME NEW S, NEW s \in Seq(S), NEW t \in Seq(S), s # << >>
  PROVE  /\ s \o t \in Seq(S) /\ Len(s \o t) = Len(s) + Len(t)
         /\ Head(s \o t) = Head(s) /\ Tail(s \o t) = Tail(s) \o t
<1>1. /\ s \o t \in Seq(S) /\ Len(s \o t) = Len(s) + Len(t)
      /\ \A i \in 1 .. Len(s) + Len(t) : (s \o t)[i] = IF i <= Len(s) THEN s[i] ELSE t[i - Len(s)]
  BY ConcatProperties
<1>2. Len(s) \in Nat \ {0} /\ Len(t) \in Nat
  OBVIOUS
<1>3. s \o t # << >>
  BY <1>1, <1>2
<1>4. /\ Tail(s) \in Seq(S) /\ Len(Tail(s)) = Len(s) - 1
      /\ \A i \in 1 .. Len(s) - 1 : Tail(s)[i] = s[i + 1]
  BY HeadTailProperties
<1>5. /\ Tail(s) \o t \in Seq(S) /\ Len(Tail(s) \o t) = Len(s) - 1 + Len(t)
      /\ \A i \in 1 .. Len(s) - 1 + Len(t) :
           (Tail(s) \o t)[i] = IF i <= Len(s) - 1 THEN Tail(s)[i] ELSE t[i - (Len(s) - 1)]
  BY <1>4, ConcatProperties
<1>6. /\ Tail(s \o t) \in Seq(S) /\ Len(Tail(s \o t)) = Len(s) + Len(t) - 1
      /\ \A i \in 1 .. Len(s) + Len(t) - 1 : Tail(s \o t)[i] = (s \o t)[i + 1]
  BY <1>1, <1>3, HeadTailProperties
<1>7. \A i \in 1 .. Len(s) - 1 + Len(t) : Tail(s \o t)[i] = (Tail(s) \o t)[i]
  <2> TAKE i \in 1 .. Len(s) - 1 + Len(t)
  <2>1. Tail(s \o t)[i] = IF i + 1 <= Len(s) THEN s[i + 1] ELSE t[i + 1 - Len(s)]
    BY <1>1, <1>2, <1>6
  <2>2. i + 1 - Len(s) = i - (Len(s) - 1) /\ (i + 1 <= Len(s) <=> i <= Len(s) - 1)
    BY <1>2
  <2> QED
    BY <1>2, <1>4, <1>5, <2>1, <2>2
<1>8. Tail(s \o t) = Tail(s) \o t
  BY <1>2, <1>5, <1>6, <1>7, SeqEqual
<1>9. Head(s \o t) = Head(s)
  BY <1>1, <1>2
<1> QED
  BY <1>1, <1>8, <1>9

LEMMA AsSequence ==
  ASSUME NEW S, NEW n \in Nat, NEW f \in [1 .. n -> S]
  PROVE  f \in Seq(S) /\ Len(f) = n
  OBVIOUS

LEMMA Rest ==
  ASSUME NEW S, NEW s \in Seq(S), s # << >>
  PROVE  /\ Tail(s) \in Seq(S) /\ Len(Tail(s)) = Len(s) - 1 /\ Len(s) \in Nat \ {0}
         /\ Head(s) = s[1] /\ Head(s) \in S
         /\ \A i \in 1 .. Len(s) - 1 : Tail(s)[i] = s[i + 1]
<1>1. Tail(s) \in Seq(S) /\ Len(Tail(s)) = Len(s) - 1 /\ Head(s) \in S
      /\ \A i \in 1 .. Len(Tail(s)) : Tail(s)[i] = s[i + 1]
  BY HeadTailProperties
<1>2. Len(s) \in Nat \ {0} /\ Head(s) = s[1]
  OBVIOUS
<1> QED
  BY <1>1, <1>2

Number == 0 .. RMod - 1
Spot == Int \X [c : Nat, h : Nat, r : Number]

LEMMA PlacesAre ==
  ASSUME NEW cyl, NEW hd, NEW c, NEW h, NEW rs \in Seq(Number),
         \A r \in Number : Place(cyl, hd, c, h, r) \in Spot
  PROVE  /\ Places(cyl, hd, c, h, rs) \in Seq(Spot)
         /\ Len(Places(cyl, hd, c, h, rs)) = Len(rs)
<1> DEFINE at(r) == Place(cyl, hd, c, h, r)
           ps == Places(cyl, hd, c, h, rs)
<1>1. \A r \in Number : at(r) \in Spot
  OBVIOUS
<1>2. ps = [i \in 1 .. Len(rs) |-> at(rs[i])]
  BY DEF Places
<1> HIDE DEF at, ps
<1>3. \A i \in 1 .. Len(rs) : rs[i] \in Number
  BY ElementOfSeq
<1>4. ps \in [1 .. Len(rs) -> Spot]
  BY <1>1, <1>2, <1>3
<1>5. Len(rs) \in Nat
  OBVIOUS
<1> QED
  BY <1>4, <1>5, AsSequence DEF ps

LEMMA PlacesLeft ==
  ASSUME NEW cyl, NEW hd, NEW c, NEW h, NEW rs \in Seq(Number), rs # << >>,
         \A r \in Number : Place(cyl, hd, c, h, r) \in Spot,
         NEW ps, ps = Places(cyl, hd, c, h, rs)
  PROVE  /\ Head(ps) = Place(cyl, hd, c, h, Head(rs))
         /\ Tail(ps) = Places(cyl, hd, c, h, Tail(rs))
<1> DEFINE at(r) == Place(cyl, hd, c, h, r)
           qs == Places(cyl, hd, c, h, Tail(rs))
<1>1. ps \in Seq(Spot) /\ Len(ps) = Len(rs)
  BY PlacesAre
<1>2. ps = [i \in 1 .. Len(rs) |-> at(rs[i])] /\ qs = [i \in 1 .. Len(Tail(rs)) |-> at(Tail(rs)[i])]
  BY DEF Places
<1>3. /\ Tail(rs) \in Seq(Number) /\ Len(Tail(rs)) = Len(rs) - 1 /\ Head(rs) = rs[1]
      /\ \A i \in 1 .. Len(rs) - 1 : Tail(rs)[i] = rs[i + 1]
      /\ Len(rs) \in Nat \ {0}
  BY Rest
<1>4. qs \in Seq(Spot) /\ Len(qs) = Len(Tail(rs))
  <2>1. PICK ts \in Seq(Number) : ts = Tail(rs)
    BY <1>3
  <2>2. Places(cyl, hd, c, h, ts) \in Seq(Spot) /\ Len(Places(cyl, hd, c, h, ts)) = Len(ts)
    BY PlacesAre
  <2> QED
    BY <2>1, <2>2
<1> HIDE DEF at, qs
<1>5. ps # << >>
  BY <1>1, <1>3
<1>6. /\ Tail(ps) \in Seq(Spot) /\ Len(Tail(ps)) = Len(rs) - 1 /\ Head(ps) = ps[1]
      /\ \A i \in 1 .. Len(rs) - 1 : Tail(ps)[i] = ps[i + 1]
  BY <1>1, <1>5, Rest
<1>7. \A i \in 1 .. Len(rs) - 1 : Tail(ps)[i] = qs[i]
  <2> TAKE i \in 1 .. Len(rs) - 1
  <2>1. i + 1 \in 1 .. Len(rs)
    BY <1>3
  <2>2. Tail(ps)[i] = at(rs[i + 1])
    BY <1>2, <1>6, <2>1
  <2>3. qs[i] = at(Tail(rs)[i])
    BY <1>2, <1>3
  <2> QED
    BY <1>3, <2>2, <2>3
<1>8. Tail(ps) = qs
  BY <1>3, <1>4, <1>6, <1>7, SeqEqual
<1>9. Head(ps) = at(Head(rs))
  BY <1>2, <1>3, <1>6
<1> QED
  BY <1>8, <1>9 DEF qs, at

LEMMA Around ==
  ASSUME NEW x \in 0 .. RMod - 1, NEW n \in 0 .. RMod
  PROVE  /\ (x + n) % RMod = IF x + n < RMod THEN x + n ELSE x + n - RMod
         /\ (x + n) % RMod \in 0 .. RMod - 1
  BY TransferAssumption

LEMMA Apart ==
  ASSUME NEW x \in 0 .. RMod - 1, NEW y \in 0 .. RMod - 1
  PROVE  /\ (y - x) % RMod = IF x <= y THEN y - x ELSE y - x + RMod
         /\ (y - x) % RMod \in 0 .. RMod - 1
  BY TransferAssumption

LEMMA UpToIs ==
  ASSUME NEW r \in 0 .. RMod - 1, NEW e \in 0 .. RMod - 1
  PROVE  /\ UpTo(r, e) \in Seq(0 .. RMod - 1)
         /\ Len(UpTo(r, e)) = ((e - r) % RMod) + 1
         /\ Len(UpTo(r, e)) \in Nat \ {0} /\ (Len(UpTo(r, e)) = 1 <=> r = e)
         /\ Head(UpTo(r, e)) = r
<1> DEFINE n == ((e - r) % RMod) + 1
<1>1. n \in 1 .. RMod /\ (n = 1 <=> r = e)
  <2>1. (e - r) % RMod \in 0 .. RMod - 1
    BY Apart
  <2>2. (e - r) % RMod = IF r <= e THEN e - r ELSE e - r + RMod
    BY Apart
  <2>3. PICK m \in 0 .. RMod - 1 : m = (e - r) % RMod
    BY <2>1
  <2> QED
    BY <2>2, <2>3, TransferAssumption
<1>2. UpTo(r, e) = [i \in 1 .. n |-> (r + i - 1) % RMod]
  BY DEF UpTo
<1> HIDE DEF n
<1>3. \A i \in 1 .. n : (r + i - 1) % RMod \in 0 .. RMod - 1
  <2> TAKE i \in 1 .. n
  <2>1. i - 1 \in 0 .. RMod /\ r + i - 1 = r + (i - 1)
    BY <1>1, TransferAssumption
  <2>2. (r + (i - 1)) % RMod \in 0 .. RMod - 1
    BY <2>1, Around
  <2> QED
    BY <2>1, <2>2
<1>4. (r + 1 - 1) % RMod = r
  BY TransferAssumption
<1>5. UpTo(r, e) \in Seq(0 .. RMod - 1) /\ Len(UpTo(r, e)) = n /\ UpTo(r, e)[1] = r
  BY <1>1, <1>2, <1>3, <1>4, TransferAssumption
<1> QED
  BY <1>1, <1>5 DEF n

LEMMA UpToNext ==
  ASSUME NEW r \in 0 .. RMod - 1, NEW e \in 0 .. RMod - 1, r # e
  PROVE  /\ UpTo((r + 1) % RMod, e) = Tail(UpTo(r, e))
         /\ (r + 1) % RMod \in 0 .. RMod - 1
<1> DEFINE q == (r + 1) % RMod
<1>1. q \in 0 .. RMod - 1 /\ q = IF r + 1 < RMod THEN r + 1 ELSE 0
  <2>1. 1 \in 0 .. RMod
    BY TransferAssumption
  <2>2. q = (IF r + 1 < RMod THEN r + 1 ELSE r + 1 - RMod) /\ q \in 0 .. RMod - 1
    BY <2>1, Around
  <2> HIDE DEF q
  <2> QED
    BY <2>2, TransferAssumption
<1> HIDE DEF q
<1> DEFINE n == ((e - r) % RMod) + 1
           m == ((e - q) % RMod) + 1
<1>2. n = m + 1 /\ n \in 1 .. RMod /\ m \in 1 .. RMod
  <2>1. /\ (e - r) % RMod = IF r <= e THEN e - r ELSE e - r + RMod
        /\ (e - q) % RMod = IF q <= e THEN e - q ELSE e - q + RMod
        /\ (e - r) % RMod \in 0 .. RMod - 1 /\ (e - q) % RMod \in 0 .. RMod - 1
    BY <1>1, Apart
  <2>2. PICK a, b \in 0 .. RMod - 1 : a = (e - r) % RMod /\ b = (e - q) % RMod
    BY <2>1
  <2> QED
    BY <1>1, <2>1, <2>2, TransferAssumption
<1>3. UpTo(r, e) = [i \in 1 .. n |-> (r + i - 1) % RMod]
      /\ UpTo(q, e) = [i \in 1 .. m |-> (q + i - 1) % RMod]
  BY DEF UpTo
<1> HIDE DEF n, m
<1>4. \A i \in 1 .. m : (q + i - 1) % RMod = (r + (i + 1) - 1) % RMod
  <2> TAKE i \in 1 .. m
  <2>1. i - 1 \in 0 .. RMod /\ i \in 0 .. RMod
    BY <1>2, TransferAssumption
  <2>2. /\ (q + (i - 1)) % RMod = IF q + (i - 1) < RMod THEN q + (i - 1) ELSE q + (i - 1) - RMod
        /\ (r + i) % RMod = IF r + i < RMod THEN r + i ELSE r + i - RMod
    BY <1>1, <2>1, Around
  <2>3. q + i - 1 = q + (i - 1) /\ r + (i + 1) - 1 = r + i
    BY <1>1, <2>1, TransferAssumption
  <2>4. (q + (i - 1)) % RMod = (r + i) % RMod
    BY <1>1, <1>2, <2>1, <2>2, TransferAssumption
  <2> QED
    BY <2>3, <2>4
<1>5. UpTo(r, e) \in Seq(0 .. RMod - 1) /\ Len(UpTo(r, e)) = n
  <2>1. UpTo(r, e) \in Seq(0 .. RMod - 1) /\ Len(UpTo(r, e)) = ((e - r) % RMod) + 1
    BY UpToIs
  <2> QED
    BY <2>1 DEF n
<1>6. n - 1 = m /\ Len(UpTo(r, e)) # 0
  BY <1>2, <1>5, TransferAssumption
<1>7. /\ Tail(UpTo(r, e)) \in Seq(0 .. RMod - 1) /\ Len(Tail(UpTo(r, e))) = m
      /\ \A i \in 1 .. m : Tail(UpTo(r, e))[i] = UpTo(r, e)[i + 1]
  BY <1>5, <1>6, HeadTailProperties
<1>8. \A i \in 1 .. m : UpTo(r, e)[i + 1] = (r + (i + 1) - 1) % RMod
  <2> TAKE i \in 1 .. m
  <2>1. i + 1 \in 1 .. n
    BY <1>2, TransferAssumption
  <2> QED
    BY <1>3, <2>1
<1>9. UpTo(q, e) = Tail(UpTo(r, e))
  <2>1. UpTo(q, e) \in Seq(0 .. RMod - 1) /\ Len(UpTo(q, e)) = m
    <3>1. UpTo(q, e) \in Seq(0 .. RMod - 1) /\ Len(UpTo(q, e)) = ((e - q) % RMod) + 1
      BY <1>1, UpToIs
    <3> QED
      BY <3>1 DEF m
  <2>2. \A i \in 1 .. m : UpTo(q, e)[i] = Tail(UpTo(r, e))[i]
    <3> TAKE i \in 1 .. m
    <3>1. UpTo(q, e)[i] = (q + i - 1) % RMod
      BY <1>3
    <3> QED
      BY <1>4, <1>7, <1>8, <3>1
  <2> QED
    BY <1>7, <2>1, <2>2, SeqEqual
<1> QED
  BY <1>1, <1>9 DEF q

(* The next of the sectors left, the next parameters and what they leave.  *)
LEMMA RemainingIs ==
  ASSUME NEW cyl \in Nat, NEW p \in TransferParameters
  PROVE  /\ Remaining(cyl, p) \in Seq(Spot) /\ Len(Remaining(cyl, p)) \in Nat \ {0}
         /\ Head(Remaining(cyl, p)) =
              Place(cyl, p.hd, p.c, p.h, p.r)
         /\ p.r # p.eot =>
              LET q == [p EXCEPT !.r = (@ + 1) % RMod]
              IN  /\ q \in TransferParameters /\ Len(Remaining(cyl, p)) > 1
                  /\ Remaining(cyl, q) = Tail(Remaining(cyl, p))
         /\ p.r = p.eot /\ p.mt /\ p.hd = 0 /\ p.h = 0 =>
              LET q == [p EXCEPT !.hd = 1, !.h = 1, !.r = 1]
              IN  /\ q \in TransferParameters /\ Len(Remaining(cyl, p)) > 1
                  /\ Remaining(cyl, q) = Tail(Remaining(cyl, p))
         /\ p.r = p.eot /\ ~(p.mt /\ p.hd = 0 /\ p.h = 0) => Len(Remaining(cyl, p)) = 1
<1>1. /\ p.r \in 0 .. RMod - 1 /\ p.eot \in 0 .. RMod - 1 /\ p.c \in Nat /\ p.h \in Nat
      /\ p.hd \in {0, 1} /\ 1 \in 0 .. RMod - 1
  BY TransferAssumption DEF TransferParameters
<1> DEFINE first == Places(cyl, p.hd, p.c, p.h, UpTo(p.r, p.eot))
           side == Places(cyl, 1, p.c, 1, UpTo(1, p.eot))
           more == p.mt /\ p.hd = 0 /\ p.h = 0
           second == IF more THEN side ELSE << >>
<1>2. /\ UpTo(p.r, p.eot) \in Seq(0 .. RMod - 1) /\ UpTo(p.r, p.eot) # << >>
      /\ Head(UpTo(p.r, p.eot)) = p.r /\ (Len(UpTo(p.r, p.eot)) = 1 <=> p.r = p.eot)
      /\ UpTo(1, p.eot) \in Seq(0 .. RMod - 1) /\ UpTo(1, p.eot) # << >>
  <2>1. /\ UpTo(p.r, p.eot) \in Seq(0 .. RMod - 1) /\ Len(UpTo(p.r, p.eot)) \in Nat \ {0}
        /\ Head(UpTo(p.r, p.eot)) = p.r /\ (Len(UpTo(p.r, p.eot)) = 1 <=> p.r = p.eot)
    BY <1>1, UpToIs
  <2>2. UpTo(1, p.eot) \in Seq(0 .. RMod - 1) /\ Len(UpTo(1, p.eot)) \in Nat \ {0}
    BY <1>1, UpToIs
  <2> QED
    BY <2>1, <2>2
<1>3. /\ first \in Seq(Spot) /\ Len(first) = Len(UpTo(p.r, p.eot)) /\ Len(first) \in Nat \ {0}
      /\ Head(first) = Place(cyl, p.hd, p.c, p.h, p.r)
      /\ Tail(first) = Places(cyl, p.hd, p.c, p.h, Tail(UpTo(p.r, p.eot)))
  <2>1. \A r \in 0 .. RMod - 1 : Place(cyl, p.hd, p.c, p.h, r) \in Spot
    BY <1>1 DEF Place, Spot, Number
  <2> DEFINE rs == UpTo(p.r, p.eot)
             hd == p.hd
             c == p.c
             h == p.h
  <2>2. rs \in Seq(Number) /\ rs # << >>
    BY <1>2 DEF Number
  <2>3. \A r \in Number : Place(cyl, hd, c, h, r) \in Spot
    BY <2>1 DEF Number
  <2>4. Head(rs) = p.r /\ first = Places(cyl, hd, c, h, rs) /\ Len(rs) \in Nat \ {0}
    BY <1>2
  <2> HIDE DEF rs, hd, c, h, first
  <2>5. /\ Places(cyl, hd, c, h, rs) \in Seq(Spot)
        /\ Len(Places(cyl, hd, c, h, rs)) = Len(rs)
    BY <2>2, <2>3, PlacesAre
  <2>6. Head(first) = Place(cyl, hd, c, h, Head(rs)) /\ Tail(first) = Places(cyl, hd, c, h, Tail(rs))
    <3>1. first = Places(cyl, hd, c, h, rs)
      BY <2>4
    <3>2. Head(first) = Place(cyl, hd, c, h, Head(rs))
      BY <2>2, <2>3, <3>1, PlacesLeft
    <3>3. Tail(first) = Places(cyl, hd, c, h, Tail(rs))
      BY <2>2, <2>3, <3>1, PlacesLeft
    <3> QED
      BY <3>2, <3>3
  <2> QED
    BY <2>4, <2>5, <2>6 DEF rs, hd, c, h
<1>4. side \in Seq(Spot) /\ Len(side) \in Nat \ {0}
  <2>1. \A r \in 0 .. RMod - 1 : Place(cyl, 1, p.c, 1, r) \in Spot
    BY <1>1 DEF Place, Spot, Number
  <2> DEFINE rs == UpTo(1, p.eot)
  <2>2. rs \in Seq(Number) /\ rs # << >>
    BY <1>2 DEF Number
  <2>3. \A r \in Number : Place(cyl, 1, p.c, 1, r) \in Spot
    BY <2>1 DEF Number
  <2> HIDE DEF rs
  <2>4. /\ Places(cyl, 1, p.c, 1, rs) \in Seq(Spot)
        /\ Len(Places(cyl, 1, p.c, 1, rs)) = Len(rs)
    BY <2>2, <2>3, PlacesAre
  <2>5. Len(rs) \in Nat \ {0}
    BY <2>2
  <2> QED
    BY <2>4, <2>5 DEF rs
<1>5. second \in Seq(Spot) /\ Len(second) \in Nat
      /\ (more => second = side) /\ (~more => second = << >>)
  BY <1>4
<1>6. Remaining(cyl, p) = first \o second
  BY DEF Remaining
<1> HIDE DEF first, side, second
<1>7. /\ Remaining(cyl, p) \in Seq(Spot) /\ Len(Remaining(cyl, p)) = Len(first) + Len(second)
      /\ Head(Remaining(cyl, p)) = Head(first) /\ Tail(Remaining(cyl, p)) = Tail(first) \o second
  <2>1. first # << >>
    BY <1>3
  <2>2. first \in Seq(Spot) /\ second \in Seq(Spot)
    BY <1>3, <1>5
  <2>3. /\ first \o second \in Seq(Spot) /\ Len(first \o second) = Len(first) + Len(second)
        /\ Head(first \o second) = Head(first) /\ Tail(first \o second) = Tail(first) \o second
    BY <2>1, <2>2, TailOfConcat
  <2> QED
    BY <1>6, <2>3
<1>8. ASSUME p.r # p.eot
      PROVE  LET q == [p EXCEPT !.r = (@ + 1) % RMod]
             IN  /\ q \in TransferParameters /\ Len(Remaining(cyl, p)) > 1
                 /\ Remaining(cyl, q) = Tail(Remaining(cyl, p))
  <2> DEFINE r == (p.r + 1) % RMod
             q == [p EXCEPT !.r = r]
  <2>1. r \in 0 .. RMod - 1 /\ UpTo(r, p.eot) = Tail(UpTo(p.r, p.eot))
    BY <1>1, <1>8, UpToNext
  <2> HIDE DEF r
  <2>2. /\ q \in TransferParameters /\ q.r = r /\ q.mt = p.mt /\ q.hd = p.hd /\ q.c = p.c
        /\ q.h = p.h /\ q.eot = p.eot
    BY <2>1 DEF TransferParameters
  <2> HIDE DEF q
  <2>3. Remaining(cyl, q) = Tail(first) \o second
    <3>1. Remaining(cyl, q) = Places(cyl, q.hd, q.c, q.h, UpTo(q.r, q.eot)) \o second
      BY <2>2 DEF Remaining, second, side
    <3>2. Places(cyl, q.hd, q.c, q.h, UpTo(q.r, q.eot)) = Tail(first)
      BY <1>3, <2>1, <2>2
    <3> HIDE DEF first, second
    <3> QED
      BY <3>1, <3>2
  <2>4. Len(first) > 1
    <3>1. PICK n \in Nat \ {0} : n = Len(first)
      BY <1>3
    <3>2. n # 1
      BY <1>2, <1>3, <1>8, <3>1
    <3> QED
      BY <3>1, <3>2
  <2>5. Len(Remaining(cyl, p)) > 1
    BY <1>3, <1>5, <1>7, <2>4
  <2> QED
    BY <1>7, <2>2, <2>3, <2>5 DEF q, r
<1>9. ASSUME p.r = p.eot PROVE Len(first) = 1 /\ Tail(first) = << >>
  <2>1. Len(first) = 1
    BY <1>2, <1>3, <1>9
  <2>2. Tail(first) \in Seq(Spot) /\ Len(Tail(first)) = 0
    <3>1. first # << >>
      BY <2>1
    <3> QED
      BY <1>3, <2>1, <3>1, Rest
  <2>3. Tail(first) = << >>
    BY <2>2, EmptySeq
  <2> QED
    BY <2>1, <2>3
<1>10. ASSUME p.r = p.eot, more
       PROVE  LET q == [p EXCEPT !.hd = 1, !.h = 1, !.r = 1]
              IN  /\ q \in TransferParameters /\ Len(Remaining(cyl, p)) > 1
                  /\ Remaining(cyl, q) = Tail(Remaining(cyl, p))
  <2> DEFINE a == [p EXCEPT !.hd = 1, !.h = 1]
             q == [a EXCEPT !.r = 1]
  <2>1. /\ a \in TransferParameters /\ a.mt = p.mt /\ a.hd = 1 /\ a.c = p.c
        /\ a.h = 1 /\ a.eot = p.eot
    BY DEF TransferParameters
  <2> HIDE DEF a
  <2>2. /\ q \in TransferParameters /\ q.r = 1 /\ q.mt = p.mt /\ q.hd = 1 /\ q.c = p.c
        /\ q.h = 1 /\ q.eot = p.eot
    BY <1>1, <2>1 DEF TransferParameters
  <2>3. q = [p EXCEPT !.hd = 1, !.h = 1, !.r = 1]
    BY DEF a
  <2> HIDE DEF q
  <2>4. Remaining(cyl, q) = side \o << >>
    BY <2>2 DEF Remaining, side
  <2>5. side \o << >> = side /\ << >> \o side = side
    BY <1>4, ConcatEmptySeq
  <2>6. Tail(Remaining(cyl, p)) = side
    BY <1>5, <1>7, <1>9, <1>10, <2>5
  <2>7. Len(Remaining(cyl, p)) > 1
    BY <1>4, <1>5, <1>7, <1>9, <1>10
  <2> QED
    BY <2>2, <2>3, <2>4, <2>5, <2>6, <2>7
<1>11. ASSUME p.r = p.eot, ~more PROVE Len(Remaining(cyl, p)) = 1
  BY <1>5, <1>7, <1>9, <1>11
<1>12. Len(Remaining(cyl, p)) \in Nat \ {0}
  BY <1>3, <1>5, <1>7
<1> QED
  BY <1>3, <1>7, <1>8, <1>10, <1>11, <1>12

-----------------------------------------------------------------------------
(* What the handlers' steps do to the transfer.                            *)

(* The transfer of s is that of t: where it is, and what is on the disk.   *)
Alike(s, t) ==
  /\ t.fdc.cyl = s.fdc.cyl /\ t.fdc.prm = s.fdc.prm /\ t.fdc.buf = s.fdc.buf
  /\ t.drive.img = s.drive.img

LEMMA SetIntMeans ==
  ASSUME NEW s, GoodState(s)
  PROVE  FDC_SetInt(s).fdc = s.fdc /\ FDC_SetInt(s).drive = s.drive
  BY DEF GoodState, FDC_SetInt

LEMMA FailsMeans ==
  ASSUME NEW s, GoodState(s)
  PROVE  /\ Alike(s, Fails(s)) /\ Fails(s).fdc.st0 = "error" /\ Fails(s).drive = s.drive
         /\ Fails(s).fdc.rsp = s.fdc.rsp
<1>1. Fails(s) = [fdc |-> [s.fdc EXCEPT !.st0 = "error"], drive |-> s.drive, asked |-> s.asked]
  BY DEF GoodState, Fails
<1> QED
  BY <1>1 DEF GoodState, FdcType, Alike

LEMMA EPhaseEndMeans ==
  ASSUME NEW s, GoodState(s)
  PROVE  /\ Alike(s, FDC_EPhaseEnd(s)) /\ FDC_EPhaseEnd(s).fdc.rsp = s.fdc.st0
         /\ FDC_EPhaseEnd(s).fdc.st0 = s.fdc.st0 /\ FDC_EPhaseEnd(s).fdc.bufnum = 0
<1> DEFINE f == [s.fdc EXCEPT !.rsp = s.fdc.st0, !.bufnum = 0, !.rdptr = 0, !.wexec = FALSE]
<1>1. FDC_EPhaseEnd(s) = [fdc |-> f, drive |-> s.drive, asked |-> s.asked \union {"FDC"}]
  <2>1. FDC_EPhaseEnd(s) = FDC_SetInt([s EXCEPT !.fdc = f])
    BY DEF FDC_EPhaseEnd
  <2> HIDE DEF f
  <2> QED
    BY <2>1 DEF GoodState, FDC_SetInt
<1>2. /\ f.rsp = s.fdc.st0 /\ f.st0 = s.fdc.st0 /\ f.bufnum = 0
      /\ f.cyl = s.fdc.cyl /\ f.prm = s.fdc.prm /\ f.buf = s.fdc.buf
  BY DEF GoodState, FdcType
<1> HIDE DEF f
<1> QED
  BY <1>1, <1>2 DEF Alike

LEMMA GivesUpMeans ==
  ASSUME NEW s, GoodState(s)
  PROVE  LET t == FDC_EPhaseEnd(Fails(s))
         IN  Alike(s, t) /\ t.fdc.rsp = "error" /\ t.fdc.bufnum = 0
<1>1. GoodState(Fails(s))
  BY FailsKeeps DEF Handles
<1> QED
  BY <1>1, FailsMeans, EPhaseEndMeans DEF Alike

LEMMA StartsMeans ==
  ASSUME NEW s, GoodState(s), NEW buf, NEW wexec
  PROVE  LET t == Starts(s, buf, wexec)
         IN  /\ t.fdc.cyl = s.fdc.cyl /\ t.fdc.prm = s.fdc.prm /\ t.fdc.buf = buf
             /\ t.fdc.st0 = s.fdc.st0 /\ t.fdc.bufnum = SectorSize /\ t.drive = s.drive
<1> DEFINE f == [s.fdc EXCEPT !.bufnum = SectorSize, !.buf = buf, !.wexec = wexec]
<1>1. Starts(s, buf, wexec) = [fdc |-> f, drive |-> s.drive, asked |-> s.asked]
  <2>1. Starts(s, buf, wexec) = [s EXCEPT !.fdc = f]
    BY DEF Starts
  <2> HIDE DEF f
  <2> QED
    BY <2>1 DEF GoodState
<1>2. /\ f.cyl = s.fdc.cyl /\ f.prm = s.fdc.prm /\ f.buf = buf
      /\ f.st0 = s.fdc.st0 /\ f.bufnum = SectorSize
  BY DEF GoodState, FdcType
<1> HIDE DEF f
<1> QED
  BY <1>1, <1>2

LEMMA SoughtMeans ==
  ASSUME NEW s, GoodState(s)
  PROVE  /\ Alike(s, Sought(s)) /\ Sought(s).fdc = s.fdc
         /\ Sought(s).drive.file = s.drive.file
         /\ CanSeek(s.drive, Track(s)) => Sought(s).drive.trk = Track(s)
<1> DEFINE a == [s.drive EXCEPT !.trk = Track(s)]
           b == FDD_Seek(s.drive, Track(s))
<1>1. a.img = s.drive.img /\ a.file = s.drive.file /\ a.trk = Track(s)
  BY DEF GoodState, DriveType
<1>2. b = IF CanSeek(s.drive, Track(s)) THEN a ELSE s.drive
  BY DEF FDD_Seek
<1>3. Sought(s) = [s EXCEPT !.drive = b]
  BY DEF Sought
<1> HIDE DEF a, b
<1>4. Sought(s).fdc = s.fdc /\ Sought(s).drive = b
  BY <1>3 DEF GoodState
<1> QED
  BY <1>1, <1>2, <1>4 DEF Alike

(* A command of a transfer that is executed with its parameters finds its  *)
(* sector, or ends in error.                                               *)
Finds(s, t) ==
  /\ t.fdc.cyl = s.fdc.cyl /\ t.fdc.prm = s.fdc.prm /\ t.drive.img = s.drive.img
  /\ s.fdc.cmd = "WriteData" => t.fdc.buf = s.fdc.buf
  /\ t.fdc.bufnum = 0 => t.fdc.rsp = "error"
  /\ t.fdc.bufnum # 0 /\ t.fdc.cmd \in {"ReadData", "WriteData"} => AtSector(t)

LEMMA GivesUpFinds ==
  ASSUME NEW s, GoodState(s)
  PROVE  Finds(s, FDC_EPhaseEnd(Fails(s)))
  BY GivesUpMeans DEF Alike, Finds

LEMMA ReadSectorFinds ==
  ASSUME NEW s, GoodState(s), s.fdc.cmd \in {"ReadData", "Scan"}, s.fdc.st0 = "ok"
  PROVE  Finds(s, ReadSector(s))
<1> DEFINE t == Sought(s)
<1>1. /\ GoodState(t) /\ Alike(s, t) /\ t.fdc = s.fdc /\ t.drive.file = s.drive.file
      /\ CanSeek(s.drive, Track(s)) => t.drive.trk = Track(s)
  BY SoughtKeeps, SoughtMeans DEF Handles
<1> HIDE DEF t
<1>2. CASE ~Reaches(s)
  <2>1. ReadSector(s) = FDC_EPhaseEnd(Fails(s))
    BY <1>2 DEF ReadSector
  <2> QED
    BY <2>1, GivesUpFinds
<1>3. CASE Reaches(s) /\ ~CanRead(t.drive, Id(s))
  <2>1. Finds(t, FDC_EPhaseEnd(Fails(t)))
    BY <1>1, GivesUpFinds
  <2>2. ReadSector(s) = FDC_EPhaseEnd(Fails(t))
    BY <1>3, Zenon DEF ReadSector, t
  <2>3. Finds(s, FDC_EPhaseEnd(Fails(t)))
    BY <1>1, <2>1 DEF Finds, Alike
  <2> QED
    BY <2>2, <2>3
<1>4. CASE Reaches(s) /\ CanRead(t.drive, Id(s)) /\ s.fdc.cmd = "Scan"
  <2> DEFINE buf == s.fdc.buf
             w == TRUE
             u == Starts(t, buf, w)
  <2>1. ReadSector(s) = u
    BY <1>4, Zenon DEF ReadSector, t
  <2> HIDE DEF buf
  <2>4. w \in BOOLEAN
    OBVIOUS
  <2> HIDE DEF w
  <2>2. /\ u.fdc.cyl = t.fdc.cyl /\ u.fdc.prm = t.fdc.prm /\ u.fdc.bufnum = SectorSize
        /\ u.drive = t.drive
    BY <1>1, StartsMeans
  <2>3. u.fdc.cmd = "Scan"
    BY <1>1, <1>4, <2>4, StartsKeeps DEF Handles
  <2> HIDE DEF u
  <2> QED
    BY <1>1, <1>4, <2>1, <2>2, <2>3, SizeAssumption DEF Finds, Alike
<1>5. CASE Reaches(s) /\ CanRead(t.drive, Id(s)) /\ s.fdc.cmd = "ReadData"
  <2> DEFINE buf == t.drive.img[<<t.drive.trk, Id(s)>>]
             u == Starts(t, buf, s.fdc.wexec)
  <2>1. ReadSector(s) = u
    BY <1>5 DEF ReadSector, t
  <2>2. s.fdc.wexec \in BOOLEAN
    BY DEF GoodState, FdcType
  <2> HIDE DEF buf
  <2>3. /\ u.fdc.cyl = t.fdc.cyl /\ u.fdc.prm = t.fdc.prm /\ u.fdc.bufnum = SectorSize
        /\ u.drive = t.drive /\ u.fdc.buf = buf /\ u.fdc.st0 = t.fdc.st0
    BY <1>1, StartsMeans
  <2>4. u.fdc.cmd = "ReadData"
    BY <1>1, <1>5, <2>2, StartsKeeps DEF Handles
  <2> HIDE DEF u
  <2>5. s.drive.file # NoFile /\ CanSeek(s.drive, Track(s))
    BY <1>5 DEF Reaches, FDD_IsReady
  <2>6. Track(u) = Track(s) /\ Id(u) = Id(s)
    BY <1>1, <2>3 DEF Track, Id
  <2>7. <<Track(s), Id(s)>> \in DOMAIN t.drive.img /\ t.drive.trk = Track(s)
    BY <1>1, <1>5, <2>5 DEF CanRead
  <2>8. AtSector(u)
    BY <1>1, <2>3, <2>4, <2>5, <2>6, <2>7 DEF AtSector, buf
  <2> QED
    BY <1>1, <1>5, <2>1, <2>3, <2>8, SizeAssumption DEF Finds, Alike
<1> QED
  BY <1>2, <1>3, <1>4, <1>5

LEMMA ReadAnySectorFinds ==
  ASSUME NEW s, GoodState(s), s.fdc.cmd = "ReadDiagnostic"
  PROVE  Finds(s, ReadAnySector(s))
<1> DEFINE t == Sought(s)
<1>1. GoodState(t) /\ Alike(s, t) /\ t.fdc = s.fdc
  BY SoughtKeeps, SoughtMeans DEF Handles
<1> HIDE DEF t
<1>2. CASE ~Reaches(s)
  <2>1. ReadAnySector(s) = FDC_EPhaseEnd(Fails(s))
    BY <1>2 DEF ReadAnySector
  <2> QED
    BY <2>1, GivesUpFinds
<1>3. CASE Reaches(s) /\ ~HasTrack(t.drive, Track(s))
  <2>1. Finds(t, FDC_EPhaseEnd(Fails(t)))
    BY <1>1, GivesUpFinds
  <2>2. ReadAnySector(s) = FDC_EPhaseEnd(Fails(t))
    BY <1>3 DEF ReadAnySector, t
  <2>3. Finds(s, FDC_EPhaseEnd(Fails(t)))
    BY <1>1, <2>1 DEF Finds, Alike
  <2> QED
    BY <2>2, <2>3
<1>4. CASE Reaches(s) /\ HasTrack(t.drive, Track(s))
  <2> DEFINE u == Starts(t, Blank, s.fdc.wexec)
  <2>1. ReadAnySector(s) = u
    BY <1>4 DEF ReadAnySector, t
  <2>2. s.fdc.wexec \in BOOLEAN
    BY DEF GoodState, FdcType
  <2>3. /\ u.fdc.cyl = t.fdc.cyl /\ u.fdc.prm = t.fdc.prm /\ u.fdc.bufnum = SectorSize
        /\ u.drive = t.drive
    BY <1>1, StartsMeans
  <2>4. u.fdc.cmd = "ReadDiagnostic"
    BY <1>1, <2>2, StartsKeeps DEF Handles
  <2> HIDE DEF u
  <2> QED
    BY <1>1, <2>1, <2>3, <2>4, SizeAssumption DEF Finds, Alike
<1> QED
  BY <1>2, <1>3, <1>4

LEMMA WriteSectorFinds ==
  ASSUME NEW s, GoodState(s), s.fdc.cmd = "WriteData", s.fdc.st0 = "ok"
  PROVE  Finds(s, WriteSector(s))
<1> DEFINE t == Sought(s)
           buf == s.fdc.buf
           w == TRUE
           u == Starts(t, buf, w)
<1>1. /\ GoodState(t) /\ Alike(s, t) /\ t.fdc = s.fdc /\ t.drive.file = s.drive.file
      /\ CanSeek(s.drive, Track(s)) => t.drive.trk = Track(s)
  BY SoughtKeeps, SoughtMeans DEF Handles
<1> HIDE DEF t
<1>2. CASE ~(~s.drive.ROnly /\ Reaches(s))
  <2>1. WriteSector(s) = FDC_EPhaseEnd(Fails(s))
    BY <1>2 DEF WriteSector
  <2> QED
    BY <2>1, GivesUpFinds
<1>3. CASE ~s.drive.ROnly /\ Reaches(s)
  <2>1. WriteSector(s) = u
    BY <1>3, Zenon DEF WriteSector, t
  <2>7. w \in BOOLEAN
    OBVIOUS
  <2> HIDE DEF buf, w
  <2>2. /\ u.fdc.cyl = t.fdc.cyl /\ u.fdc.prm = t.fdc.prm /\ u.fdc.bufnum = SectorSize
        /\ u.drive = t.drive /\ u.fdc.buf = buf /\ u.fdc.st0 = t.fdc.st0
    BY <1>1, StartsMeans
  <2>3. u.fdc.cmd = "WriteData"
    BY <1>1, <2>7, StartsKeeps DEF Handles
  <2> HIDE DEF u
  <2>4. s.drive.file # NoFile /\ CanSeek(s.drive, Track(s))
    BY <1>3 DEF Reaches, FDD_IsReady
  <2>5. Track(u) = Track(s) /\ Id(u) = Id(s)
    BY <1>1, <2>2 DEF Track, Id
  <2>6. AtSector(u)
    BY <1>1, <2>2, <2>3, <2>4, <2>5 DEF AtSector
  <2> QED
    BY <1>1, <2>1, <2>2, <2>6, SizeAssumption DEF Finds, Alike, buf
<1> QED
  BY <1>2, <1>3

LEMMA ClearedMeans ==
  ASSUME NEW s, GoodState(s)
  PROVE  LET t == [s EXCEPT !.fdc.st0 = "ok"]
         IN  Alike(s, t) /\ t.fdc.st0 = "ok" /\ t.drive = s.drive
<1>1. [s EXCEPT !.fdc.st0 = "ok"] =
        [fdc |-> [s.fdc EXCEPT !.st0 = "ok"], drive |-> s.drive, asked |-> s.asked]
  BY DEF GoodState
<1> QED
  BY <1>1 DEF GoodState, FdcType, Alike

LEMMA ExecFinds ==
  ASSUME NEW u, GoodState(u), u.fdc.cmd \in Data
  PROVE  Finds(u, FDC_ExecCmd(u))
<1> DEFINE s == [u EXCEPT !.fdc.st0 = "ok"]
<1>1. GoodState(s) /\ s.fdc.cmd = u.fdc.cmd /\ Alike(u, s) /\ s.fdc.st0 = "ok"
  BY ClearedKeeps, ClearedMeans DEF Handles
<1>2. FDC_ExecCmd(u) =
        CASE s.fdc.cmd \in {"ReadData", "Scan"} -> ReadSector(s)
          [] s.fdc.cmd = "ReadDiagnostic" -> ReadAnySector(s)
          [] s.fdc.cmd = "WriteData" -> WriteSector(s)
  <2> HIDE DEF s
  <2>1. s.fdc.cmd \in {"ReadData", "Scan", "ReadDiagnostic", "WriteData"}
    BY <1>1 DEF Data
  <2>2. u.fdc.cmd \notin {"Specify", "SenseIntStatus", "Version", "Invalid"}
    BY <1>1, <2>1
  <2> QED
    BY <2>1, <2>2 DEF FDC_ExecCmd, s
<1> HIDE DEF s
<1>3. Finds(s, FDC_ExecCmd(u))
  <2>1. CASE s.fdc.cmd \in {"ReadData", "Scan"}
    BY <1>1, <1>2, <2>1, ReadSectorFinds
  <2>2. CASE s.fdc.cmd = "ReadDiagnostic"
    BY <1>1, <1>2, <2>2, ReadAnySectorFinds
  <2>3. CASE s.fdc.cmd = "WriteData"
    BY <1>1, <1>2, <2>3, WriteSectorFinds
  <2> QED
    BY <1>1, <2>1, <2>2, <2>3 DEF Data
<1> QED
  BY <1>1, <1>3 DEF Finds, Alike

(* At the end of a sector: the next one of those that are left, or the     *)
(* last has been done, or an error.                                        *)
Todo(s) == Remaining(s.fdc.cyl, s.fdc.prm)

Advances(s, t) ==
  /\ t.fdc.cyl = s.fdc.cyl /\ t.drive.img = s.drive.img /\ t.fdc.prm \in TransferParameters
  /\ s.fdc.cmd = "WriteData" => t.fdc.buf = s.fdc.buf
  /\ t.fdc.bufnum = 0 => t.fdc.rsp = "error" \/ (Len(Todo(s)) = 1 /\ t.fdc.rsp = s.fdc.st0)
  /\ t.fdc.bufnum # 0 => Len(Todo(s)) > 1 /\ Todo(t) = Tail(Todo(s))
  /\ t.fdc.bufnum # 0 /\ t.fdc.cmd \in {"ReadData", "WriteData"} => AtSector(t)

LEMMA NextTrackAdvances ==
  ASSUME NEW s, GoodState(s), s.fdc.cmd \in Data, s.fdc.cyl \in Nat,
         s.fdc.prm \in TransferParameters
  PROVE  Advances(s, FDC_NextTrack(s))
<1> DEFINE t == FDC_NextTrack(s)
           p == s.fdc.prm
<1>1. ASSUME NEW q \in TransferParameters, t = FDC_ExecCmd([s EXCEPT !.fdc.prm = q]),
             Len(Todo(s)) > 1, Remaining(s.fdc.cyl, q) = Tail(Todo(s))
      PROVE  Advances(s, t)
  <2> DEFINE u == [s EXCEPT !.fdc.prm = q]
  <2>1. GoodState(u) /\ u.fdc.cmd = s.fdc.cmd
    BY ParametersKeep DEF Handles
  <2>2. /\ u.fdc.cyl = s.fdc.cyl /\ u.fdc.prm = q /\ u.fdc.buf = s.fdc.buf
        /\ u.drive = s.drive
    BY DEF GoodState, FdcType
  <2> HIDE DEF u
  <2>3. Finds(u, t)
    BY <1>1, <2>1, ExecFinds DEF u
  <2>4. Todo(t) = Tail(Todo(s))
    BY <1>1, <2>2, <2>3 DEF Finds, Todo
  <2> HIDE DEF t
  <2> QED
    BY <1>1, <2>1, <2>2, <2>3, <2>4 DEF Finds, Advances
<1>2. CASE p.r # p.eot
  <2> DEFINE q == [p EXCEPT !.r = (@ + 1) % RMod]
  <2>1. /\ q \in TransferParameters /\ Len(Todo(s)) > 1
        /\ Remaining(s.fdc.cyl, q) = Tail(Todo(s))
    <3>1. /\ [p EXCEPT !.r = (@ + 1) % RMod] \in TransferParameters
          /\ Len(Remaining(s.fdc.cyl, p)) > 1
          /\ Remaining(s.fdc.cyl, [p EXCEPT !.r = (@ + 1) % RMod]) =
               Tail(Remaining(s.fdc.cyl, p))
      <4> DEFINE cyl == s.fdc.cyl
      <4>1. cyl \in Nat /\ p \in TransferParameters /\ p.r # p.eot
        BY <1>2
      <4> HIDE DEF p, cyl
      <4>2. /\ [p EXCEPT !.r = (@ + 1) % RMod] \in TransferParameters
            /\ Len(Remaining(cyl, p)) > 1
            /\ Remaining(cyl, [p EXCEPT !.r = (@ + 1) % RMod]) = Tail(Remaining(cyl, p))
        BY <4>1, RemainingIs
      <4> QED
        BY <4>2 DEF cyl
    <3> QED
      BY <3>1 DEF Todo
  <2>2. t = FDC_ExecCmd([s EXCEPT !.fdc.prm = q])
    BY <1>2 DEF FDC_NextTrack
  <2> QED
    BY <1>1, <2>1, <2>2
<1>3. CASE p.r = p.eot /\ p.mt /\ p.hd = 0 /\ p.h = 0
  <2> DEFINE q == [p EXCEPT !.hd = 1, !.h = 1, !.r = 1]
  <2>1. /\ q \in TransferParameters /\ Len(Todo(s)) > 1
        /\ Remaining(s.fdc.cyl, q) = Tail(Todo(s))
    BY <1>3, RemainingIs DEF Todo
  <2>2. t = FDC_ExecCmd([s EXCEPT !.fdc.prm = q])
    BY <1>3 DEF FDC_NextTrack
  <2> QED
    BY <1>1, <2>1, <2>2
<1>4. CASE p.r = p.eot /\ ~(p.mt /\ p.hd = 0 /\ p.h = 0)
  <2>1. Len(Todo(s)) = 1
    BY <1>4, RemainingIs DEF Todo
  <2>2. t = FDC_EPhaseEnd(s)
    BY <1>4 DEF FDC_NextTrack
  <2>3. Alike(s, t) /\ t.fdc.rsp = s.fdc.st0 /\ t.fdc.bufnum = 0
    BY <2>2, EPhaseEndMeans
  <2> QED
    BY <2>1, <2>3 DEF Alike, Advances
<1> QED
  BY <1>2, <1>3, <1>4

(* A write changes the sector at the head, or nothing.                     *)
LEMMA PutMeans ==
  ASSUME NEW a, DriveType(a), NEW place, NEW data
  PROVE  Put(a, place, data).img = [a.img EXCEPT ![place] = data]
  BY DEF DriveType, Put

LEMMA ImagePut ==
  ASSUME NEW img, Image(img), NEW place, NEW data, Sector(data)
  PROVE  Image([img EXCEPT ![place] = data])
  BY DEF Image

Stored(img, place, data, after) ==
  place \in DOMAIN img /\ after = [img EXCEPT ![place] = data]

LEMMA WriteMeans ==
  ASSUME NEW a, DriveType(a), Image(a.img), NEW id, NEW data, Sector(data),
         NEW w \in FDD_Write(a, id, data)
  PROVE  /\ Image(w.drive.img) /\ (~w.ok => w.drive = a)
         /\ a.trk # Unknown =>
              w.drive.img = a.img \/ Stored(a.img, <<a.trk, id>>, data, w.drive.img)
<1>1. \/ \E place \in WritePlaces(a, id) : w = [ok |-> TRUE, drive |-> Put(a, place, data)]
      \/ w = [ok |-> FALSE, drive |-> a]
      \/ w = [ok |-> TRUE, drive |-> a]
  BY DEF FDD_Write
<1>2. CASE \E place \in WritePlaces(a, id) : w = [ok |-> TRUE, drive |-> Put(a, place, data)]
  <2>1. PICK place \in WritePlaces(a, id) : w = [ok |-> TRUE, drive |-> Put(a, place, data)]
    BY <1>2
  <2>2. w.drive.img = [a.img EXCEPT ![place] = data] /\ w.ok
    BY <2>1, PutMeans
  <2>3. place \in DOMAIN a.img /\ place[2] = id /\ a.trk \in {place[1], Unknown}
    BY DEF WritePlaces
  <2>4. place = <<place[1], place[2]>>
    BY <2>3 DEF Image
  <2>5. a.trk # Unknown => place = <<a.trk, id>>
    BY <2>3, <2>4
  <2> QED
    BY <2>2, <2>3, <2>5, ImagePut DEF Stored
<1>3. CASE w = [ok |-> FALSE, drive |-> a]
  BY <1>3
<1>4. CASE w = [ok |-> TRUE, drive |-> a]
  BY <1>4
<1> QED
  BY <1>1, <1>2, <1>3, <1>4

LEMMA DriveMeans ==
  ASSUME NEW s, GoodState(s), NEW drive
  PROVE  [s EXCEPT !.drive = drive].fdc = s.fdc /\ [s EXCEPT !.drive = drive].drive = drive
  BY DEF GoodState

(* A buffer that is full: its sector is stored, or is not.                 *)
Fits(s) == s.fdc.cmd = "WriteData" => Sector(s.fdc.buf)

LEMMA WriteDataMeans ==
  ASSUME NEW s, GoodState(s), s.fdc.cmd = "WriteData", s.fdc.bufnum = SectorSize,
         s.fdc.cyl \in Nat, s.fdc.prm \in TransferParameters, Image(s.drive.img), Fits(s),
         NEW t \in FDC_WriteBuffer(s)
  PROVE  /\ Image(t.drive.img) /\ t.fdc.cyl = s.fdc.cyl /\ t.fdc.prm \in TransferParameters
         /\ s.drive.trk = Track(s) =>
              \/ t.drive.img = s.drive.img
              \/ Stored(s.drive.img, <<Track(s), Id(s)>>, s.fdc.buf, t.drive.img)
         /\ t.fdc.bufnum = 0 => t.fdc.rsp = "error" \/ (Len(Todo(s)) = 1 /\ t.fdc.rsp = s.fdc.st0)
         /\ \/ t.fdc.bufnum # 0 /\ t.fdc.st0 = "error"
            \/ t.fdc.bufnum # 0 => Len(Todo(s)) > 1 /\ Todo(t) = Tail(Todo(s)) /\ AtSector(t)
<1>1. PICK w \in FDD_Write(s.drive, Id(s), s.fdc.buf) :
        t = IF w.ok THEN FDC_NextTrack([s EXCEPT !.drive = w.drive])
            ELSE FDC_SetInt([Fails(s) EXCEPT !.drive = w.drive])
  BY DEF FDC_WriteBuffer
<1>2. DriveType(s.drive)
  BY DEF GoodState
<1>3. /\ Image(w.drive.img) /\ (~w.ok => w.drive = s.drive)
      /\ s.drive.trk # Unknown =>
           \/ w.drive.img = s.drive.img
           \/ Stored(s.drive.img, <<s.drive.trk, Id(s)>>, s.fdc.buf, w.drive.img)
  BY <1>2, WriteMeans DEF Fits
<1>4. DriveType(w.drive) /\ SameDisk(w.drive, s.drive) /\ w.ok \in BOOLEAN
  BY <1>2, WriteKeeps
<1>5. Track(s) # Unknown
  BY DEF Track, Unknown, TransferParameters
<1>6. CASE w.ok
  <2> DEFINE u == [s EXCEPT !.drive = w.drive]
  <2>1. GoodState(u) /\ u.fdc = s.fdc /\ u.drive = w.drive
    BY <1>4, DriveKeeps, DriveMeans DEF Handles
  <2>2. t = FDC_NextTrack(u)
    BY <1>1, <1>6
  <2> HIDE DEF u
  <2>3. Advances(u, t) /\ t.fdc.cmd = "WriteData"
    <3>1. u.fdc.cmd \in Data /\ u.fdc.cmd \in Phased
      BY <2>1 DEF Data, Phased
    <3>2. Advances(u, t)
      BY <2>1, <2>2, <3>1, NextTrackAdvances
    <3>3. Handles(u, t)
      BY <2>1, <2>2, <3>1, NextTrackKeeps
    <3> QED
      BY <2>1, <3>2, <3>3 DEF Handles
  <2>4. Todo(u) = Todo(s)
    BY <2>1 DEF Todo
  <2> QED
    BY <1>3, <1>5, <2>1, <2>3, <2>4 DEF Advances
<1>7. CASE ~w.ok
  <2> DEFINE v == Fails(s)
             u == [v EXCEPT !.drive = s.drive]
  <2>1. /\ GoodState(v) /\ v.fdc.st0 = "error" /\ v.fdc.bufnum = SectorSize
        /\ Alike(s, v) /\ v.drive = s.drive
    BY FailsKeeps, FailsMeans DEF Handles
  <2>2. t = FDC_SetInt(u)
    BY <1>1, <1>3, <1>7
  <2> HIDE DEF v
  <2>3. GoodState(u) /\ u.fdc = v.fdc /\ u.drive = s.drive
    <3>1. SameDisk(s.drive, v.drive)
      BY <2>1 DEF SameDisk
    <3> QED
      BY <1>2, <2>1, <3>1, DriveKeeps, DriveMeans DEF Handles
  <2> HIDE DEF u
  <2>4. t.fdc = v.fdc /\ t.drive = s.drive
    BY <2>2, <2>3, SetIntMeans
  <2> QED
    BY <2>1, <2>4, SizeAssumption DEF Alike
<1> QED
  BY <1>4, <1>6, <1>7

-----------------------------------------------------------------------------
(* What a handler leaves of a transfer.                                    *)

LEMMA CylinderNatural ==
  ASSUME NEW f, FdcType(f)
  PROVE  f.cyl \in Nat
  BY CylinderAssumption DEF FdcType

LEMMA KeptMeans ==
  ASSUME NEW f, FdcType(f)
  PROVE  /\ Kept(f).cyl = f.cyl /\ Kept(f).st0 = f.st0 /\ Kept(f).bufnum = f.bufnum
         /\ Kept(f).drv = f.drv
         /\ Executing(f) =>
              /\ Kept(f).cmd = f.cmd /\ Kept(f).prm = f.prm /\ Kept(f).buf = f.buf
              /\ Kept(f).rdptr = f.rdptr /\ Kept(f).wrptr = f.wrptr
         /\ ~Executing(f) /\ f.rdnum # 0 => Kept(f).rsp = f.rsp
<1> DEFINE prm == IF Executing(f) THEN f.prm ELSE NoParameters
           buf == IF Executing(f) THEN f.buf ELSE Blank
           rdptr == IF Executing(f) THEN f.rdptr ELSE 0
           wrptr == IF Executing(f) THEN f.wrptr ELSE 0
           cmd == IF Executing(f) \/ f.wrnum # 0 THEN f.cmd ELSE "Invalid"
           rsp == IF ~Executing(f) /\ f.rdnum # 0 THEN f.rsp ELSE "ok"
<1>1. Kept(f) = [f EXCEPT !.prm = prm, !.buf = buf, !.rdptr = rdptr, !.wrptr = wrptr,
                          !.cmd = cmd, !.rsp = rsp]
  BY DEF Kept
<1>2. /\ Executing(f) => /\ prm = f.prm /\ buf = f.buf /\ rdptr = f.rdptr /\ wrptr = f.wrptr
                         /\ cmd = f.cmd
      /\ ~Executing(f) /\ f.rdnum # 0 => rsp = f.rsp
  OBVIOUS
<1> HIDE DEF prm, buf, rdptr, wrptr, cmd, rsp
<1>3. /\ Kept(f).cyl = f.cyl /\ Kept(f).st0 = f.st0 /\ Kept(f).bufnum = f.bufnum
      /\ Kept(f).drv = f.drv /\ Kept(f).cmd = cmd /\ Kept(f).prm = prm /\ Kept(f).buf = buf
      /\ Kept(f).rdptr = rdptr /\ Kept(f).wrptr = wrptr /\ Kept(f).rsp = rsp
  BY <1>1 DEF FdcType
<1> QED
  BY <1>2, <1>3

LEMMA LeaveMeans ==
  ASSUME IInv, NEW t, Left(t), Leave(t)
  PROVE  /\ fdc'.cyl = t.fdc.cyl /\ fdc'.st0 = t.fdc.st0 /\ fdc'.bufnum = t.fdc.bufnum
         /\ Executing(t.fdc) =>
              /\ fdc'.cmd = t.fdc.cmd /\ fdc'.prm = t.fdc.prm /\ fdc'.buf = t.fdc.buf
              /\ fdc'.rdptr = t.fdc.rdptr /\ fdc'.wrptr = t.fdc.wrptr
         /\ ~Executing(t.fdc) /\ t.fdc.rdnum # 0 => fdc'.rsp = t.fdc.rsp
         /\ fdc'.drv = fdc.drv
  BY KeptMeans DEF Left, GoodState, Leave

LEMMA LeaveDrive ==
  ASSUME IInv, NEW t, Left(t), Leave(t)
  PROVE  /\ Images /\ Image(t.drive.img) => Images'
         /\ t.drive.img = Selected.img \/ Selected.file # NoFile => Selected'.img = t.drive.img
         /\ Executing(t.fdc) /\ t.drive.file # NoFile => Selected' = t.drive
<1>1. fdc'.drv = fdc.drv
  BY LeaveMeans
<1> DEFINE trk == IF Executing(t.fdc) THEN t.drive.trk ELSE Unknown
           a == [t.drive EXCEPT !.trk = trk]
<1>2. \A d \in Drive : fdd'[d] = IF d # fdc.drv THEN fdd[d] ELSE a
  BY DEF Leave
<1>3. a.img = t.drive.img /\ (Executing(t.fdc) => a = t.drive)
  BY DEF Left, GoodState, DriveType
<1> HIDE DEF a
<1>4. files' = files
  BY DEF Leave
<1>5. Images /\ Image(t.drive.img) => Images'
  BY <1>2, <1>3, <1>4 DEF Images
<1>6. CASE fdc.drv \in Drive
  <2>1. Selected' = a
    BY <1>1, <1>2, <1>6 DEF Selected
  <2> QED
    BY <1>3, <1>5, <2>1
<1>7. CASE fdc.drv \notin Drive
  <2>1. Selected' = NoDrive /\ Selected = NoDrive
    BY <1>1, <1>7 DEF Selected, NoDrive, Empty
  <2>2. NoDrive.file = NoFile
    BY DEF NoDrive, Empty
  <2>3. t.drive.file = NoFile
    BY <2>1, <2>2 DEF Left, SameDisk
  <2> QED
    BY <1>5, <2>1, <2>2, <2>3
<1> QED
  BY <1>6, <1>7

LEMMA LeaveInPlace ==
  ASSUME IInv, NEW t, Left(t), Leave(t), Executing(t.fdc), AtSector(t)
  PROVE  InPlace'
<1>1. Selected' = t.drive
  BY LeaveDrive DEF AtSector
<1>2. /\ fdc'.cyl = t.fdc.cyl /\ fdc'.st0 = t.fdc.st0 /\ fdc'.cmd = t.fdc.cmd
      /\ fdc'.prm = t.fdc.prm /\ fdc'.buf = t.fdc.buf
  BY LeaveMeans
<1>3. <<Track(t), Id(t)>> = Here' /\ Track(t) = 2 * fdc'.cyl + fdc'.prm.hd
  BY <1>2 DEF Track, Id, Here
<1> QED
  BY <1>1, <1>2, <1>3 DEF AtSector, InPlace

LEMMA InPlaceAtSector ==
  ASSUME NEW f, f.st0 = fdc.st0, f.cyl = fdc.cyl, f.prm = fdc.prm, f.cmd = fdc.cmd,
         f.cmd = "ReadData" => f.buf = fdc.buf
  PROVE  /\ InPlace <=> AtSector(State(f))
         /\ Track(State(f)) = 2 * fdc.cyl + fdc.prm.hd /\ <<Track(State(f)), Id(State(f))>> = Here
  BY DEF InPlace, AtSector, State, Track, Id, Here

-----------------------------------------------------------------------------
(* What the other handlers do to the image: only a format changes it.      *)

LEMMA SameImages ==
  ASSUME NEW s, GoodState(s)
  PROVE  /\ FDC_SetInt(s).drive.img = s.drive.img
         /\ Fails(s).drive.img = s.drive.img
         /\ Sought(s).drive.img = s.drive.img
         /\ \A f : [s EXCEPT !.fdc = f].drive.img = s.drive.img
<1>1. \A f : [s EXCEPT !.fdc = f].drive = s.drive
  BY DEF GoodState
<1> QED
  BY <1>1, SetIntMeans, FailsMeans, SoughtMeans DEF Alike

LEMMA AnswerImage ==
  ASSUME NEW s, GoodState(s), NEW good
  PROVE  Answer(s, good).drive.img = s.drive.img
<1> DEFINE t == IF good THEN s ELSE Fails(s)
           f == [t.fdc EXCEPT !.rsp = t.fdc.st0]
<1>1. GoodState(t) /\ t.drive.img = s.drive.img
  BY FailsKeeps, SameImages DEF Handles
<1>2. Answer(s, good) = [t EXCEPT !.fdc = f]
  BY DEF Answer
<1> HIDE DEF t
<1> HIDE DEF f
<1> QED
  BY <1>1, <1>2, SameImages

LEMMA ReadIDImage ==
  ASSUME NEW s, GoodState(s)
  PROVE  ReadID(s).drive.img = s.drive.img
<1> DEFINE t == IF Reaches(s) THEN Sought(s) ELSE s
           a == Answer(t, Reaches(s) /\ HasTrack(t.drive, Track(s)))
<1>1. GoodState(t) /\ t.drive.img = s.drive.img
  BY SoughtKeeps, SameImages DEF Handles
<1>2. ReadID(s) = FDC_SetInt(a)
  BY DEF ReadID
<1> HIDE DEF t
<1>3. GoodState(a) /\ a.drive.img = t.drive.img
  BY <1>1, AnswerKeeps, AnswerImage DEF Quietly, Handles
<1> HIDE DEF a
<1> QED
  BY <1>1, <1>2, <1>3, SameImages

LEMMA FormatTrackImage ==
  ASSUME NEW s, GoodState(s)
  PROVE  FormatTrack(s).drive.img = s.drive.img
<1> DEFINE f == [s.fdc EXCEPT !.bufnum = 1, !.wexec = TRUE]
           t == [s EXCEPT !.fdc = f]
<1>1. t.drive.img = s.drive.img
  <2> HIDE DEF f
  <2> QED
    BY SameImages
<1>2. FDC_EPhaseEnd(Fails(s)).drive.img = s.drive.img
  BY GivesUpMeans DEF Alike
<1>3. FormatTrack(s) = t \/ FormatTrack(s) = FDC_EPhaseEnd(Fails(s))
  BY DEF FormatTrack
<1> HIDE DEF t
<1> QED
  BY <1>1, <1>2, <1>3

LEMMA ExecImage ==
  ASSUME NEW u, GoodState(u), u.fdc.cmd \notin Data
  PROVE  FDC_ExecCmd(u).drive.img = u.drive.img
<1> DEFINE c == [u EXCEPT !.fdc.st0 = "ok"]
           s == IF u.fdc.cmd \in {"Specify", "SenseIntStatus", "Version", "Invalid"} THEN u
                ELSE c
           e == FDC_ExecCmd(u)
<1>1. GoodState(s) /\ s.fdc.cmd = u.fdc.cmd /\ s.drive.img = u.drive.img
  <2>1. GoodState(c) /\ c.fdc.cmd = u.fdc.cmd /\ c.drive.img = u.drive.img
    BY ClearedKeeps, ClearedMeans DEF Handles
  <2> HIDE DEF c
  <2> QED
    BY <2>1
<1>2. e = CASE s.fdc.cmd = "WriteID" -> FormatTrack(s)
            [] s.fdc.cmd = "ReadID" -> ReadID(s)
            [] s.fdc.cmd = "SenseDeviceStatus" -> [s EXCEPT !.fdc.rsp = "ok"]
            [] s.fdc.cmd = "SenseIntStatus" -> [s EXCEPT !.fdc.rsp = s.fdc.st0, !.fdc.st0 = "ok"]
            [] s.fdc.cmd = "Recalibrate" ->
                 FDC_SetInt(IF FDD_IsReady(s.drive) /\ s.fdc.drv < 2
                            THEN [s EXCEPT !.fdc.cyl = 0] ELSE Fails([s EXCEPT !.fdc.cyl = 0]))
            [] s.fdc.cmd = "Seek" ->
                 FDC_SetInt(IF FDD_IsReady(s.drive) THEN [s EXCEPT !.fdc.cyl = s.fdc.prm.n]
                            ELSE Fails(s))
            [] OTHER -> s
  <2>1. s.fdc.cmd \notin {"ReadData", "Scan", "ReadDiagnostic", "WriteData"}
    BY <1>1 DEF Data
  <2> HIDE DEF s
  <2> QED
    BY <2>1 DEF FDC_ExecCmd, s, c
<1> HIDE DEF s
<1>3. CASE s.fdc.cmd = "WriteID"
  BY <1>1, <1>2, <1>3, FormatTrackImage
<1>4. CASE s.fdc.cmd = "ReadID"
  BY <1>1, <1>2, <1>4, ReadIDImage
<1>5. CASE s.fdc.cmd = "SenseDeviceStatus"
  <2>1. e = [s EXCEPT !.fdc = [s.fdc EXCEPT !.rsp = "ok"]]
    BY <1>2, <1>5
  <2> QED
    BY <1>1, <2>1, SameImages
<1>6. CASE s.fdc.cmd = "SenseIntStatus"
  <2>1. e = [s EXCEPT !.fdc.rsp = s.fdc.st0, !.fdc.st0 = "ok"]
    BY <1>2, <1>6
  <2>2. e.drive = s.drive
    BY <1>1, <2>1 DEF GoodState
  <2> QED
    BY <1>1, <2>2
<1>7. CASE s.fdc.cmd = "Recalibrate"
  <2> DEFINE t == [s EXCEPT !.fdc.cyl = 0]
             good == FDD_IsReady(s.drive) /\ s.fdc.drv < 2
             a == IF good THEN t ELSE Fails(t)
  <2>1. e = FDC_SetInt(a)
    BY <1>2, <1>7
  <2>2. GoodState(t) /\ t.drive.img = s.drive.img
    <3>1. Quietly(s, t)
      BY <1>1, QuietSteps
    <3>2. t.drive = s.drive
      BY <1>1 DEF GoodState
    <3> QED
      BY <3>1, <3>2 DEF Quietly, Handles
  <2> HIDE DEF t, good
  <2>3. GoodState(a) /\ a.drive.img = t.drive.img
    BY <2>2, FailsKeeps, SameImages DEF Handles
  <2> HIDE DEF a
  <2> QED
    BY <1>1, <2>1, <2>2, <2>3, SameImages
<1>8. CASE s.fdc.cmd = "Seek"
  <2> DEFINE t == [s EXCEPT !.fdc.cyl = s.fdc.prm.n]
             a == IF FDD_IsReady(s.drive) THEN t ELSE Fails(s)
  <2>1. e = FDC_SetInt(a)
    BY <1>2, <1>8
  <2>2. /\ t = [fdc |-> t.fdc, drive |-> t.drive, asked |-> t.asked]
        /\ t.drive.img = s.drive.img
    BY <1>1 DEF GoodState
  <2>3. GoodState(Fails(s)) /\ Fails(s).drive.img = s.drive.img
    BY <1>1, FailsKeeps, SameImages DEF Handles
  <2> HIDE DEF t
  <2>4. /\ a = [fdc |-> a.fdc, drive |-> a.drive, asked |-> a.asked]
        /\ a.drive.img = s.drive.img
    BY <2>2, <2>3 DEF GoodState
  <2> HIDE DEF a
  <2>5. FDC_SetInt(a).drive = a.drive
    BY <2>4 DEF FDC_SetInt
  <2> QED
    BY <1>1, <2>1, <2>4, <2>5
<1>9. CASE s.fdc.cmd \notin {"WriteID", "ReadID", "SenseDeviceStatus", "SenseIntStatus",
                            "Recalibrate", "Seek"}
  BY <1>1, <1>2, <1>9
<1> QED
  BY <1>3, <1>4, <1>5, <1>6, <1>7, <1>8, <1>9

LEMMA ImageFormatted ==
  ASSUME NEW img, Image(img), NEW trk, NEW id
  PROVE  Image(Formatted(img, trk, id))
<1>1. Sector(Fill)
  BY DataAssumption
<1> QED
  BY <1>1 DEF Image, Formatted

LEMMA WriteIDImage ==
  ASSUME NEW a, DriveType(a), Image(a.img), NEW trk, NEW id
  PROVE  Image(FDD_WriteID(a, trk, id).img)
<1> DEFINE img == Formatted(a.img, trk, id)
           b == [a EXCEPT !.img = img, !.trk = trk]
<1>1. FDD_WriteID(a, trk, id) = IF CanFormat(a) THEN b ELSE a
  BY DEF FDD_WriteID
<1>2. Image(img)
  BY ImageFormatted
<1> HIDE DEF img
<1>3. b.img = img
  BY DEF DriveType
<1> HIDE DEF b
<1> QED
  BY <1>1, <1>2, <1>3

(* A full buffer that is not for a sector to be written.                   *)
LEMMA BufferMeans ==
  ASSUME NEW s, GoodState(s), s.fdc.cmd \in Phased, s.fdc.cmd # "WriteData",
         s.fdc.cyl \in Nat, s.fdc.cmd \in Data => s.fdc.prm \in TransferParameters,
         Image(s.drive.img), NEW t \in FDC_WriteBuffer(s)
  PROVE  /\ Image(t.drive.img)
         /\ s.fdc.cmd = "WriteID" => t.fdc.bufnum = 0
         /\ s.fdc.cmd \in Data => t.fdc.prm \in TransferParameters
         /\ s.fdc.cmd \in {"ReadData", "ReadDiagnostic"} => t = s
<1>1. CASE s.fdc.cmd = "WriteID"
  <2> DEFINE v == IF CanFormat(s.drive) THEN s ELSE Fails(s)
             a == FDD_WriteID(v.drive, Track(s), s.fdc.prm.id)
             u == [v EXCEPT !.drive = a]
  <2>1. t = FDC_EPhaseEnd(u)
    BY <1>1 DEF FDC_WriteBuffer
  <2>2. GoodState(v) /\ v.drive.img = s.drive.img
    BY FailsKeeps, SameImages DEF Handles
  <2> HIDE DEF v
  <2>3. /\ Image(a.img) /\ GoodState(u) /\ u.drive = a
    <3>1. DriveType(v.drive)
      BY <2>2 DEF GoodState
    <3>2. Image(a.img) /\ DriveType(a) /\ SameDisk(a, v.drive)
      BY <2>2, <3>1, WriteIDImage, WriteIDKeeps
    <3> HIDE DEF a
    <3> QED
      BY <2>2, <3>2, DriveKeeps, DriveMeans DEF Handles
  <2> HIDE DEF u
  <2>4. Alike(u, t) /\ t.fdc.bufnum = 0
    BY <2>1, <2>3, EPhaseEndMeans
  <2> QED
    BY <1>1, <2>3, <2>4 DEF Alike, Data
<1>2. CASE s.fdc.cmd = "Scan"
  <2> DEFINE u == FDC_EPhaseEnd(Fails(s))
  <2>1. t = FDC_NextTrack(s) \/ t = FDC_NextTrack(u)
    BY <1>2 DEF FDC_WriteBuffer
  <2>2. GoodState(u) /\ u.fdc.cmd = s.fdc.cmd /\ Alike(s, u)
    BY GivesUp, GivesUpMeans DEF Handles
  <2> HIDE DEF u
  <2>3. s.fdc.cmd \in Data
    BY <1>2 DEF Data
  <2>4. Advances(s, FDC_NextTrack(s))
    BY <2>3, NextTrackAdvances
  <2>5. Advances(u, FDC_NextTrack(u))
    BY <2>2, <2>3, NextTrackAdvances DEF Alike
  <2> QED
    BY <1>2, <2>1, <2>2, <2>4, <2>5 DEF Advances, Alike
<1>3. CASE s.fdc.cmd \in {"ReadData", "ReadDiagnostic"}
  <2>1. t = s
    BY <1>3 DEF FDC_WriteBuffer
  <2> QED
    BY <1>3, <2>1 DEF Data
<1> QED
  BY <1>1, <1>2, <1>3 DEF Phased, Data

-----------------------------------------------------------------------------
(* The steps of the device.                                                *)

(* What the device does next, and what its variables are.                  *)
Job ==
  IF Transferring
  THEN [kind |-> IF fdc.cmd = "ReadData" THEN "read" ELSE "write", todo |-> SectorsLeft]
  ELSE [kind |-> "idle", todo |-> << >>]
Error == "error" = IF Executing(fdc) THEN fdc.st0 ELSE fdc.rsp

(* What is shown of every step.                                            *)
Shrinks == Executing(fdc) /\ Reads /\ Progress' # Progress => BytesLeft' < BytesLeft
Moving == TransferInv' /\ Shrinks /\ Device!Next

LEMMA AbortStep ==
  ASSUME ~Transferring', last' = Blank
  PROVE  Device!Next
  BY DEF Device!Next, Device!Abort, Device!Idle

LEMMA OtherwiseStep ==
  ASSUME last' = Blank, Job' = Job, Selected'.img = Selected.img, Transferring => ~Error
  PROVE  Device!Next
<1>1. (Transferring' /\ Transferring) \/ ~Transferring'
  BY DEF Job
<1>2. CASE ~Transferring'
  BY <1>2, AbortStep
<1>3. CASE Transferring' /\ Transferring
  BY <1>3 DEF Device!Next, Device!Otherwise, Job, Error
<1> QED
  BY <1>1, <1>2, <1>3

LEMMA StartStep ==
  ASSUME ~Transferring, Transferring', last' = Blank, Selected'.img = Selected.img,
         SectorsLeft' # << >>
  PROVE  Device!Next
  BY DEF Device!Next, Device!Start, Device!Idle

(* After a sector: the next one, or the end.                               *)
After ==
  \/ Len(SectorsLeft) > 1 /\ Transferring' /\ SectorsLeft' = Tail(SectorsLeft)
     /\ fdc'.cmd = fdc.cmd /\ Error' = Error
  \/ ~Transferring' /\ (Error => Error') /\ (Len(SectorsLeft) = 1 \/ Error')

LEMMA DeliverStep ==
  ASSUME Transferring, fdc.cmd = "ReadData", last' = Selected.img[Head(SectorsLeft)], After,
         Selected'.img = Selected.img
  PROVE  Device!Next
  BY DEF Device!Next, Device!Deliver, Device!GoesOn, Device!Ends, Device!Idle, After, Error

LEMMA StoreStep ==
  ASSUME Transferring, fdc.cmd = "WriteData", last' \in Block, After,
         \/ Selected'.img = Selected.img
         \/ Stored(Selected.img, Head(SectorsLeft), last', Selected'.img)
  PROVE  Device!Next
<1>1. Device!Put(Head(SectorsLeft), last') \/ Selected'.img = Selected.img
  BY DEF Device!Put, Stored
<1> QED
  BY <1>1 DEF Device!Next, Device!Store, Device!GoesOn, Device!Ends, Device!Idle, After, Error

-----------------------------------------------------------------------------
(* The steps that move nothing.                                            *)

LEMMA SelectedImage ==
  ASSUME Images
  PROVE  Image(Selected.img)
<1>1. Image(NoDrive.img)
  BY DEF NoDrive, Empty, Image
<1> QED
  BY <1>1 DEF Images, Selected

LEMMA TimesAtLeast ==
  ASSUME NEW a \in Nat, NEW b \in Nat \ {0}
  PROVE  a * b \in Nat /\ a * b >= a /\ a * (b - 1) = a * b - a
  OBVIOUS

LEMMA TransfersExecuting ==
  ASSUME IInv, TransferInv, Executing(fdc), fdc.cmd \in Data
  PROVE  /\ fdc.cyl \in Nat /\ fdc.prm \in TransferParameters
         /\ SectorsLeft = Remaining(fdc.cyl, fdc.prm)
         /\ SectorsLeft \in Seq(Spot) /\ Len(SectorsLeft) \in Nat \ {0}
         /\ Head(SectorsLeft) = Here
         /\ fdc.bufnum = SectorSize /\ fdc.rdptr \in 0 .. SectorSize - 1
         /\ fdc.wrptr \in 0 .. SectorSize - 1
<1>1. fdc.cyl \in Nat /\ fdc.prm \in TransferParameters
  BY CylinderNatural DEF IInv, TransferInv, Carried
<1>2. SectorsLeft = Remaining(fdc.cyl, fdc.prm)
  BY DEF SectorsLeft
<1>3. /\ Remaining(fdc.cyl, fdc.prm) \in Seq(Spot)
      /\ Len(Remaining(fdc.cyl, fdc.prm)) \in Nat \ {0}
      /\ Head(Remaining(fdc.cyl, fdc.prm)) =
           Place(fdc.cyl, fdc.prm.hd, fdc.prm.c, fdc.prm.h, fdc.prm.r)
  BY <1>1, RemainingIs
<1>4. /\ fdc.bufnum = SectorSize /\ fdc.rdptr \in 0 .. SectorSize - 1
      /\ fdc.wrptr \in 0 .. SectorSize - 1
  BY DEF IInv, Phase, Waits, Data
<1> QED
  BY <1>1, <1>2, <1>3, <1>4 DEF Place, Here

LEMMA SomeBytesLeft ==
  ASSUME IInv, TransferInv, Executing(fdc), Reads
  PROVE  BytesLeft > 0 /\ BytesLeft \in Nat
<1>1. /\ Len(SectorsLeft) \in Nat \ {0} /\ fdc.rdptr \in 0 .. SectorSize - 1
      /\ SectorSize \in Nat \ {0}
  BY TransfersExecuting, SizeAssumption DEF Reads, Data
<1>2. BytesLeft = SectorSize * Len(SectorsLeft) - fdc.rdptr
  BY DEF BytesLeft
<1> DEFINE n == Len(SectorsLeft)
<1>3. SectorSize * n \in Nat /\ SectorSize * n >= SectorSize
  BY <1>1, TimesAtLeast
<1> QED
  BY <1>1, <1>2, <1>3

(* A step after which no command is under way.                             *)
LEMMA IdleAfter ==
  ASSUME IInv, TransferInv, fdc'.bufnum = 0, ~disturbed', moved' = << >>, last' = Blank, Images'
  PROVE  Moving
<1>1. ~Executing(fdc')
  BY DEF Executing
<1>2. TransferInv'
  BY <1>1 DEF TransferInv, Carried, Transferring
<1>3. Device!Next
  BY <1>1, AbortStep DEF Transferring
<1>4. BytesLeft' = 0
  BY <1>1 DEF BytesLeft
<1>5. Shrinks
  BY <1>4, SomeBytesLeft DEF Shrinks
<1> QED
  BY <1>2, <1>3, <1>5 DEF Moving

LEMMA Unmoved ==
  ASSUME NEW x \in BOOLEAN, Elsewhere(x), fdc'.bufnum = 0
  PROVE  ~disturbed' /\ moved' = << >> /\ last' = Blank
  BY DEF Elsewhere, Executing

(* A step that does not touch the controller's transfer.                   *)
LEMMA CalmStep ==
  ASSUME IInv, TransferInv, NEW x \in BOOLEAN, Elsewhere(x), Images',
         fdc'.cmd = fdc.cmd, fdc'.cyl = fdc.cyl, fdc'.bufnum = fdc.bufnum,
         fdc'.st0 = fdc.st0, fdc'.prm = fdc.prm, fdc'.buf = fdc.buf,
         fdc'.rdptr = fdc.rdptr, fdc'.wrptr = fdc.wrptr,
         ~x => Selected'.img = Selected.img /\ Selected'.file = Selected.file
               /\ Selected'.trk = Selected.trk
  PROVE  Moving
<1>1. Executing(fdc') <=> Executing(fdc)
  BY DEF Executing
<1>2. last' = Blank /\ disturbed' = (Executing(fdc) /\ (disturbed \/ x))
      /\ moved' = IF Executing(fdc) THEN moved ELSE << >>
  BY <1>1 DEF Elsewhere
<1>3. Transferring' => Transferring /\ ~x
  BY <1>1, <1>2 DEF Transferring
<1>4. Carried(fdc')
  BY <1>1 DEF TransferInv, Carried
<1>5. Transferring' => InPlace' /\ Moved'
  <2> SUFFICES ASSUME Transferring' PROVE InPlace' /\ Moved'
    OBVIOUS
  <2>1. Transferring /\ ~x /\ InPlace /\ Moved /\ moved' = moved /\ Here' = Here
    BY <1>2, <1>3 DEF TransferInv, Transferring, Here
  <2> QED
    BY <2>1 DEF InPlace, Moved
<1>6. ~Executing(fdc') => ~disturbed' /\ moved' = << >>
  BY <1>1, <1>2
<1>7. TransferInv'
  BY <1>4, <1>5, <1>6 DEF TransferInv
<1>8. Shrinks
  BY DEF Shrinks, Progress
<1>9. Device!Next
  <2>1. CASE ~Transferring'
    BY <1>2, <2>1, AbortStep
  <2>2. CASE Transferring'
    <3>1. Transferring /\ ~x
      BY <1>3, <2>2
    <3>2. SectorsLeft' = SectorsLeft
      BY DEF SectorsLeft
    <3>3. Job' = Job
      BY <2>2, <3>1, <3>2 DEF Job
    <3>4. ~Error
      BY <3>1 DEF TransferInv, InPlace, Error, Transferring
    <3> QED
      BY <1>2, <3>1, <3>3, <3>4, OtherwiseStep
  <2> QED
    BY <2>1, <2>2
<1> QED
  BY <1>7, <1>8, <1>9 DEF Moving

-----------------------------------------------------------------------------
(* The steps outside of the controller.                                    *)

LEMMA EmptyImage ==
  ASSUME NEW readonly, NEW delay
  PROVE  Image(Empty(readonly, delay).img)
  BY DEF Empty, Image

LEMMA LastOfIs ==
  ASSUME NEW S \in SUBSET Drive, S # {}
  PROVE  LastOf(S) \in S
<1>1. S \subseteq 0 .. 3
  BY DriveAssumption
<1>2. \E d \in S : \A e \in S : e <= d
  <2>1. CASE 3 \in S
    BY <1>1, <2>1
  <2>2. CASE 3 \notin S /\ 2 \in S
    BY <1>1, <2>2
  <2>3. CASE 3 \notin S /\ 2 \notin S /\ 1 \in S
    BY <1>1, <2>3
  <2>4. CASE 3 \notin S /\ 2 \notin S /\ 1 \notin S
    <3>1. \A e \in S : e = 0
      BY <1>1, <2>4
    <3>2. 0 \in S
      BY <3>1
    <3> QED
      BY <3>1, <3>2
  <2> QED
    BY <2>1, <2>2, <2>3, <2>4
<1> QED
  BY <1>2 DEF LastOf

LEMMA BackImages ==
  ASSUME Images, NEW out \in SUBSET Drive, NEW opens, NEW f \in File
  PROVE  Image(WrittenBack(out, opens)[f])
<1> DEFINE from == {d \in out \intersect opens : fdd[d].file = f /\ ~fdd[d].ROnly}
<1>1. WrittenBack(out, opens)[f] = IF from = {} THEN files[f] ELSE fdd[LastOf(from)].img
  BY DEF WrittenBack
<1>2. from \in SUBSET Drive
  OBVIOUS
<1> HIDE DEF from
<1>3. from # {} => LastOf(from) \in Drive
  BY <1>2, LastOfIs
<1> QED
  BY <1>1, <1>3 DEF Images

LEMMA EjectImages ==
  ASSUME Images, NEW out \in SUBSET Drive, NEW opens, FDD_EjectFD(out, opens)
  PROVE  Images' /\ \A d \in Drive : d \notin out => fdd'[d] = fdd[d]
<1>1. \A d \in Drive : fdd'[d] = IF d \in out THEN Empty(FALSE, fdd[d].SetDelay) ELSE fdd[d]
  BY DEF FDD_EjectFD
<1>2. \A d \in Drive : Image(fdd'[d].img)
  BY <1>1, EmptyImage DEF Images
<1>3. \A f \in File : Image(files'[f])
  BY BackImages DEF FDD_EjectFD
<1> QED
  BY <1>1, <1>2, <1>3 DEF Images

LEMMA SelectDriveMoves ==
  ASSUME IInv, TransferInv, NEW d \in Drive \union {-1}, SelectDrive(d)
  PROVE  Moving
<1> DEFINE f == [fdc EXCEPT !.drv = d]
           x == d # fdc.drv
<1>1. fdc' = f /\ fdd' = fdd /\ files' = files /\ Elsewhere(x)
  BY DEF SelectDrive
<1>2. /\ f.cmd = fdc.cmd /\ f.cyl = fdc.cyl /\ f.bufnum = fdc.bufnum /\ f.st0 = fdc.st0
      /\ f.prm = fdc.prm /\ f.buf = fdc.buf /\ f.rdptr = fdc.rdptr /\ f.wrptr = fdc.wrptr
      /\ f.drv = d
  BY DEF IInv, FdcType
<1> HIDE DEF f
<1>3. Images'
  BY <1>1 DEF TransferInv, Images
<1>4. x \in BOOLEAN /\ (~x => Selected' = Selected)
  BY <1>1, <1>2 DEF Selected
<1> HIDE DEF x
<1> QED
  BY <1>1, <1>2, <1>3, <1>4, CalmStep

LEMMA DriveControlMoves ==
  ASSUME IInv, TransferInv, NEW lines \in SUBSET Drive, NEW eject \in BOOLEAN,
         DriveControl(lines, eject)
  PROVE  Moving
<1> DEFINE out == IF fdc.eject THEN fdc.ctrl \ lines ELSE {}
           bit == eject /\ lines # {}
           f == [fdc EXCEPT !.ctrl = lines, !.eject = bit]
           x == fdc.drv \in out
<1>1. out \in SUBSET Drive
  BY DEF IInv, FdcType
<1>2. PICK opens \in SUBSET Holding(out) : FDD_EjectFD(out, opens)
  BY DEF DriveControl
<1>3. fdc' = f /\ Elsewhere(x)
  BY DEF DriveControl
<1> HIDE DEF out, bit
<1>4. /\ f.cmd = fdc.cmd /\ f.cyl = fdc.cyl /\ f.bufnum = fdc.bufnum /\ f.st0 = fdc.st0
      /\ f.prm = fdc.prm /\ f.buf = fdc.buf /\ f.rdptr = fdc.rdptr /\ f.wrptr = fdc.wrptr
      /\ f.drv = fdc.drv
  BY DEF IInv, FdcType
<1> HIDE DEF f
<1>5. Images' /\ \A d \in Drive : d \notin out => fdd'[d] = fdd[d]
  BY <1>1, <1>2, EjectImages DEF TransferInv
<1>6. x \in BOOLEAN /\ (~x => Selected' = Selected)
  BY <1>3, <1>4, <1>5 DEF Selected, NoDrive, Empty
<1> HIDE DEF x
<1> QED
  BY <1>3, <1>4, <1>5, <1>6, CalmStep

LEMMA EjectDiskMoves ==
  ASSUME IInv, TransferInv, NEW d \in Drive, EjectDisk(d)
  PROVE  Moving
<1> DEFINE x == fdc.drv = d
<1>1. PICK opens \in SUBSET Holding({d}) : FDD_EjectFD({d}, opens)
  BY DEF EjectDisk
<1>2. fdc' = fdc /\ Elsewhere(x)
  BY DEF EjectDisk
<1>3. Images' /\ \A e \in Drive : e \notin {d} => fdd'[e] = fdd[e]
  BY <1>1, EjectImages DEF TransferInv
<1>4. x \in BOOLEAN /\ (~x => Selected' = Selected)
  BY <1>2, <1>3 DEF Selected, NoDrive, Empty
<1> HIDE DEF x
<1> QED
  BY <1>2, <1>3, <1>4, CalmStep

LEMMA InsertDiskMoves ==
  ASSUME IInv, TransferInv, NEW d \in Drive, NEW f \in File, InsertDisk(d, f)
  PROVE  Moving
<1> DEFINE x == fdc.drv = d
<1>1. fdc' = fdc /\ Elsewhere(x)
  BY DEF InsertDisk
<1>2. PICK opens \in SUBSET Holding({d}), loads \in BOOLEAN : FDD_SetFD(d, f, opens, loads)
  BY DEF InsertDisk
<1> DEFINE a == IF loads THEN Inserted(f, files'[f]) ELSE Empty(TRUE, fdd[d].SetDelay)
<1>3. /\ fdd' = [fdd EXCEPT ![d] = a]
      /\ files' = WrittenBack({d}, opens)
  BY <1>2 DEF FDD_SetFD
<1>4. \A g \in File : Image(files'[g])
  BY <1>3, BackImages DEF TransferInv
<1>5. Image(a.img)
  <2>1. Inserted(f, files'[f]).img = files'[f]
    BY DEF Inserted
  <2> QED
    BY <1>4, <2>1, EmptyImage
<1> HIDE DEF a
<1>6. fdd'[d] = a /\ (\A e \in Drive : e # d => fdd'[e] = fdd[e])
  BY <1>3 DEF IInv, Drives
<1>7. Images'
  BY <1>4, <1>5, <1>6 DEF TransferInv, Images
<1>8. x \in BOOLEAN /\ (~x => Selected' = Selected)
  BY <1>1, <1>6 DEF Selected, NoDrive, Empty
<1> HIDE DEF x
<1> QED
  BY <1>1, <1>7, <1>8, CalmStep

LEMMA FrameMoves ==
  ASSUME IInv, TransferInv, Frame
  PROVE  Moving
<1> DEFINE x == FALSE
<1>1. fdc' = fdc /\ files' = files /\ Elsewhere(x)
  BY DEF Frame, FDD_SetFDInt
<1>2. \A d \in Drive :
        /\ fdd'[d].img = fdd[d].img /\ fdd'[d].file = fdd[d].file /\ fdd'[d].trk = fdd[d].trk
  <2> TAKE d \in Drive
  <2>1. fdd'[d] = IF d \in Waiting THEN [fdd[d] EXCEPT !.SetDelay = @ - 1] ELSE fdd[d]
    BY DEF Frame, FDD_SetFDInt
  <2>2. DriveType(fdd[d])
    BY DEF IInv, Drives
  <2> QED
    BY <2>1, <2>2 DEF DriveType
<1>3. Images'
  BY <1>1, <1>2 DEF TransferInv, Images
<1>4. /\ Selected'.img = Selected.img /\ Selected'.file = Selected.file
      /\ Selected'.trk = Selected.trk
  BY <1>1, <1>2 DEF Selected, NoDrive, Empty
<1>5. x \in BOOLEAN
  OBVIOUS
<1> HIDE DEF x
<1> QED
  BY <1>1, <1>3, <1>4, <1>5, CalmStep

LEMMA ResetMoves ==
  ASSUME IInv, TransferInv, Reset
  PROVE  Moving
<1> DEFINE x == FALSE
<1>1. /\ fdc' = FDC_Init /\ files' = files /\ Elsewhere(x)
      /\ fdd' = [d \in Drive |-> [fdd[d] EXCEPT !.trk = Unknown]]
  BY DEF Reset
<1>2. \A d \in Drive : fdd'[d].img = fdd[d].img
  <2> TAKE d \in Drive
  <2>1. DriveType(fdd[d]) /\ fdd'[d] = [fdd[d] EXCEPT !.trk = Unknown]
    BY <1>1 DEF IInv, Drives
  <2> QED
    BY <2>1 DEF DriveType
<1>3. Images'
  BY <1>1, <1>2 DEF TransferInv, Images
<1>4. fdc'.bufnum = 0
  BY <1>1 DEF FDC_Init
<1>5. x \in BOOLEAN
  OBVIOUS
<1> HIDE DEF x
<1> QED
  BY <1>1, <1>3, <1>4, <1>5, Unmoved, IdleAfter

-----------------------------------------------------------------------------
(* The steps of the controller without a byte of a transfer.               *)

(* What a handler leaves when no command is under way any more.            *)
LEMMA LeaveIdle ==
  ASSUME IInv, TransferInv, NEW t, Left(t), Leave(t), t.fdc.bufnum = 0, Image(t.drive.img),
         NEW x \in BOOLEAN, Elsewhere(x)
  PROVE  Moving
<1>1. fdc'.bufnum = 0
  BY LeaveMeans
<1>2. Images'
  BY LeaveDrive DEF TransferInv
<1> QED
  BY <1>1, <1>2, Unmoved, IdleAfter

LEMMA ReadResultMoves ==
  ASSUME IInv, TransferInv, ReadResult
  PROVE  Moving
<1> DEFINE f == [fdc EXCEPT !.rdptr = @ + 1, !.rdnum = @ - 1]
           x == FALSE
<1>1. ~Executing(fdc) /\ Leave(State(f)) /\ Elsewhere(x)
  BY DEF ReadResult
<1>2. /\ FdcType(f) /\ f.drv = fdc.drv /\ f.bufnum = fdc.bufnum /\ f.wexec = fdc.wexec
  <2> DEFINE a == [fdc EXCEPT !.rdptr = @ + 1]
  <2>1. /\ FdcType(a) /\ a.drv = fdc.drv /\ a.bufnum = fdc.bufnum /\ a.wexec = fdc.wexec
        /\ a.rdnum = fdc.rdnum
    BY DEF IInv, FdcType
  <2> HIDE DEF a
  <2> DEFINE b == [a EXCEPT !.rdnum = @ - 1]
  <2>2. FdcType(b) /\ b.drv = fdc.drv /\ b.bufnum = fdc.bufnum /\ b.wexec = fdc.wexec
    BY <2>1 DEF FdcType, ReadResult
  <2>3. b = f
    BY DEF a
  <2> QED
    BY <2>2, <2>3
<1> HIDE DEF f
<1>3. Phase(f) /\ f.bufnum = 0
  BY <1>1, <1>2 DEF IInv, Phase, Executing
<1>4. Left(State(f)) /\ State(f).fdc = f
  BY <1>2, <1>3, StateLeft
<1>5. Image(State(f).drive.img)
  BY SelectedImage DEF State, TransferInv
<1>6. x \in BOOLEAN
  OBVIOUS
<1> HIDE DEF x
<1> QED
  BY <1>1, <1>3, <1>4, <1>5, <1>6, LeaveIdle

(* A command that is executed with its parameters.                         *)
LEMMA ExecutedMoves ==
  ASSUME IInv, TransferInv, ~Executing(fdc), NEW f, FdcType(f), f.drv = fdc.drv, f.bufnum = 0,
         ~f.wexec, f.wrnum = 0, f.cmd \in Phased => f.rdptr = 0 /\ f.wrptr = 0,
         NEW prm, f.cmd = "Seek" => prm.n \in Cylinders,
         f.cmd \in Data => prm \in TransferParameters, Leave(Executed(f, prm)),
         Elsewhere(FALSE)
  PROVE  Moving
<1> DEFINE a == [f EXCEPT !.prm = prm]
           g == [a EXCEPT !.rdnum = DAT_TABLE(f.cmd)]
           t == FDC_ExecCmd(State(g))
           x == FALSE
<1>1. Leave(t) /\ Elsewhere(x)
  BY DEF Executed
<1>2. /\ FdcType(a) /\ a.prm = prm /\ a.drv = f.drv /\ a.bufnum = f.bufnum
      /\ a.wexec = f.wexec /\ a.wrnum = f.wrnum /\ a.rdptr = f.rdptr /\ a.wrptr = f.wrptr
      /\ a.cmd = f.cmd
  BY DEF FdcType
<1> HIDE DEF a
<1>3. DAT_TABLE(f.cmd) \in {0, 1} /\ (f.cmd \in Phased => DAT_TABLE(f.cmd) = 1)
  BY DEF DAT_TABLE, Phased
<1>4. /\ FdcType(g) /\ g.prm = prm /\ g.drv = f.drv /\ g.bufnum = f.bufnum
      /\ g.wexec = f.wexec /\ g.wrnum = f.wrnum /\ g.rdptr = f.rdptr /\ g.wrptr = f.wrptr
      /\ g.cmd = f.cmd /\ g.rdnum = DAT_TABLE(f.cmd)
  BY <1>2, <1>3 DEF FdcType
<1> HIDE DEF g
<1>5. GoodState(State(g)) /\ State(g).fdc = g /\ State(g).drive = Selected
  BY <1>4, StateLeft DEF State
<1>6. x \in BOOLEAN
  OBVIOUS
<1> HIDE DEF x
<1>7. Image(Selected.img)
  BY SelectedImage DEF TransferInv
<1>8. CASE f.cmd \in Phased
  <2>1. Handles(State(g), t) /\ EndsOrWaits(t)
    BY <1>4, <1>5, <1>8, ExecPhasedKeeps
  <2>2. f.cmd \in Data => Finds(State(g), t)
    BY <1>4, <1>5, ExecFinds
  <2>3. f.cmd \notin Data => t.drive.img = Selected.img
    BY <1>4, <1>5, ExecImage
  <2> HIDE DEF t
  <2>4. /\ t.fdc.cmd = f.cmd /\ t.fdc.rdnum = 1 /\ t.fdc.wrnum = 0
        /\ t.fdc.rdptr = 0 /\ t.fdc.wrptr = 0
    BY <1>3, <1>4, <1>5, <1>8, <2>1 DEF Handles
  <2>5. Phase(t.fdc)
    BY <1>8, <2>1, <2>4, WaitsTyped DEF EndsOrWaits, Ended, Phase, Executing
  <2>6. Left(t)
    BY <1>4, <2>1, <2>5, StateLeft
  <2>7. t.drive.img = Selected.img
    BY <1>5, <2>2, <2>3 DEF Finds
  <2>8. CASE t.fdc.bufnum = 0
    BY <1>1, <1>6, <1>7, <2>6, <2>7, <2>8, LeaveIdle
  <2>9. CASE t.fdc.bufnum # 0
    <3>1. /\ fdc'.cyl = t.fdc.cyl /\ fdc'.st0 = t.fdc.st0 /\ fdc'.bufnum = t.fdc.bufnum
          /\ fdc'.cmd = t.fdc.cmd /\ fdc'.prm = t.fdc.prm /\ fdc'.buf = t.fdc.buf
          /\ fdc'.rdptr = 0 /\ fdc'.wrptr = 0
      BY <1>1, <2>4, <2>6, <2>9, LeaveMeans DEF Executing
    <3>2. Images' /\ Selected'.img = Selected.img
      BY <1>1, <1>7, <2>6, <2>7, LeaveDrive DEF TransferInv
    <3>3. Executing(fdc') /\ ~disturbed' /\ moved' = << >> /\ last' = Blank
      BY <1>1, <2>9, <3>1 DEF TransferInv, Elsewhere, Executing
    <3>4. fdc'.cmd \in Data => fdc'.prm \in TransferParameters
      BY <1>4, <1>5, <2>2, <2>4, <3>1 DEF Finds
    <3>5. Carried(fdc')
      BY <3>1, <3>4 DEF Carried
    <3>6. Transferring' => InPlace' /\ Moved'
      <4> SUFFICES ASSUME Transferring' PROVE InPlace' /\ Moved'
        OBVIOUS
      <4>1. t.fdc.cmd \in {"ReadData", "WriteData"}
        BY <3>1 DEF Transferring
      <4>2. AtSector(t)
        BY <2>2, <2>4, <2>9, <4>1 DEF Finds, Data
      <4>3. InPlace'
        BY <1>1, <2>6, <2>9, <4>2, LeaveInPlace DEF Executing
      <4> QED
        BY <3>1, <3>3, <4>3 DEF Moved
    <3>7. TransferInv'
      BY <3>2, <3>3, <3>5, <3>6 DEF TransferInv
    <3>8. Device!Next
      <4>1. CASE ~Transferring'
        BY <3>3, <4>1, AbortStep
      <4>2. CASE Transferring'
        <5>1. fdc'.cyl \in Nat /\ fdc'.prm \in TransferParameters
          <6>1. fdc'.cmd \in Data
            BY <4>2 DEF Transferring, Data
          <6> QED
            BY <2>6, <3>1, <3>4, <6>1, CylinderNatural DEF Left, GoodState
        <5>2. SectorsLeft' = Remaining(fdc'.cyl, fdc'.prm)
          BY DEF SectorsLeft
        <5>3. SectorsLeft' # << >>
          BY <5>1, <5>2, RemainingIs
        <5>4. ~Transferring
          BY DEF Transferring
        <5> QED
          BY <3>2, <3>3, <4>2, <5>3, <5>4, StartStep
      <4> QED
        BY <4>1, <4>2
    <3>9. Shrinks
      BY DEF Shrinks
    <3> QED
      BY <3>7, <3>8, <3>9 DEF Moving
  <2> QED
    BY <2>8, <2>9
<1>9. CASE f.cmd \notin Phased
  <2>1. Quietly(State(g), t)
    BY <1>4, <1>5, <1>9, ExecOtherKeeps
  <2>2. t.drive.img = Selected.img
    BY <1>4, <1>5, <1>9, ExecImage DEF Phased
  <2> HIDE DEF t
  <2>3. Handles(State(g), t) /\ Phase(t.fdc) /\ t.fdc.bufnum = 0
    BY <1>4, <1>5, <2>1 DEF Quietly, Phase, Executing
  <2>4. Left(t)
    BY <1>4, <2>3, StateLeft
  <2> QED
    BY <1>1, <1>6, <1>7, <2>2, <2>3, <2>4, LeaveIdle
<1> QED
  BY <1>8, <1>9

LEMMA StartCommandMoves ==
  ASSUME IInv, TransferInv, NEW cmd \in Command, StartCommand(cmd)
  PROVE  Moving
<1> DEFINE a == [fdc EXCEPT !.cmd = cmd, !.rdptr = 0]
           f == [a EXCEPT !.rdnum = 0, !.wrnum = CMD_TABLE(cmd)]
           x == FALSE
<1>1. /\ ~Executing(fdc) /\ Elsewhere(x)
      /\ Leave(IF f.wrnum = 0 THEN Executed(f, NoParameters) ELSE State(f))
  BY DEF StartCommand
<1>2. /\ FdcType(a) /\ a.drv = fdc.drv /\ a.bufnum = fdc.bufnum /\ a.wexec = fdc.wexec
      /\ a.cmd = cmd
  <2> DEFINE b == [fdc EXCEPT !.cmd = cmd]
  <2>1. /\ FdcType(b) /\ b.drv = fdc.drv /\ b.bufnum = fdc.bufnum /\ b.wexec = fdc.wexec
        /\ b.cmd = cmd
    BY DEF IInv, FdcType
  <2> HIDE DEF b
  <2> DEFINE c == [b EXCEPT !.rdptr = 0]
  <2>2. /\ FdcType(c) /\ c.drv = fdc.drv /\ c.bufnum = fdc.bufnum /\ c.wexec = fdc.wexec
        /\ c.cmd = cmd
    BY <2>1 DEF FdcType
  <2>3. c = a
    BY DEF b
  <2> QED
    BY <2>2, <2>3
<1> HIDE DEF a
<1>3. /\ CMD_TABLE(cmd) \in {0, 1}
      /\ CMD_TABLE(cmd) = 0 => cmd \notin Phased /\ cmd \notin Data /\ cmd # "Seek"
  BY DEF CMD_TABLE, Phased, Data
<1>4. /\ FdcType(f) /\ f.drv = fdc.drv /\ f.bufnum = fdc.bufnum /\ f.wexec = fdc.wexec
      /\ f.cmd = cmd /\ f.wrnum = CMD_TABLE(cmd)
  BY <1>2, <1>3 DEF FdcType
<1> HIDE DEF f
<1>5. fdc.bufnum = 0 /\ ~fdc.wexec
  BY <1>1 DEF IInv, Phase, Executing
<1>6. CASE f.wrnum = 0
  BY <1>1, <1>3, <1>4, <1>5, <1>6, ExecutedMoves
<1>7. CASE f.wrnum # 0
  <2>1. Phase(f)
    BY <1>4, <1>5 DEF Phase, Executing
  <2>2. Left(State(f)) /\ State(f).fdc = f
    BY <1>4, <2>1, StateLeft
  <2>3. Image(State(f).drive.img)
    BY SelectedImage DEF State, TransferInv
  <2>4. x \in BOOLEAN
    OBVIOUS
  <2> HIDE DEF x
  <2> QED
    BY <1>1, <1>4, <1>5, <1>7, <2>2, <2>3, <2>4, LeaveIdle
<1> QED
  BY <1>6, <1>7

LEMMA WriteParametersMoves ==
  ASSUME IInv, TransferInv, WriteParameters
  PROVE  Moving
<1> DEFINE f == [fdc EXCEPT !.wrnum = 0]
<1>1. PICK prm \in Parameters(fdc.cmd) : Leave(Executed(f, prm))
  BY DEF WriteParameters
<1>2. /\ FdcType(f) /\ f.drv = fdc.drv /\ f.bufnum = fdc.bufnum /\ f.wexec = fdc.wexec
      /\ f.cmd = fdc.cmd /\ f.wrnum = 0 /\ f.rdptr = fdc.rdptr /\ f.wrptr = fdc.wrptr
  BY DEF IInv, FdcType
<1> HIDE DEF f
<1>3. ~Executing(fdc) /\ fdc.bufnum = 0 /\ ~fdc.wexec /\ fdc.rdptr = 0 /\ fdc.wrptr = 0
  BY DEF WriteParameters, IInv, Phase, Fresh, Executing
<1>4. fdc.cmd = "Seek" => prm.n \in Cylinders
  <2>1. fdc.cmd = "Seek" => prm \in [n : Cylinders]
    BY DEF Parameters, Data
  <2> QED
    BY <2>1
<1>5. fdc.cmd \in Data => prm \in TransferParameters
  <2>1. fdc.cmd \in Data => prm \in Transfers
    BY DEF Parameters, Data
  <2> QED
    BY <2>1, TransferAssumption DEF TransferParameters
<1>6. Elsewhere(FALSE)
  BY DEF WriteParameters
<1> QED
  BY <1>1, <1>2, <1>3, <1>4, <1>5, <1>6, ExecutedMoves

-----------------------------------------------------------------------------
(* A byte that is read.                                                    *)

(* A step that leaves no transfer, though a command may be under way.      *)
LEMMA LeaveAborted ==
  ASSUME IInv, TransferInv, NEW t, Left(t), Leave(t), Image(t.drive.img), Carried(t.fdc),
         last' = Blank, ~Transferring', Shrinks,
         ~Executing(fdc') => ~disturbed' /\ moved' = << >>
  PROVE  Moving
<1>1. Images'
  BY LeaveDrive DEF TransferInv
<1>2. Carried(fdc')
  <2>1. Executing(fdc') <=> Executing(t.fdc)
    BY LeaveMeans DEF Executing
  <2> QED
    BY <2>1, LeaveMeans DEF Carried
<1> QED
  BY <1>1, <1>2, AbortStep DEF TransferInv, Moving

(* The history of a byte.                                                  *)
LEMMA HistoryMeans ==
  ASSUME NEW byte, NEW x \in BOOLEAN, Moves(byte) \/ Elsewhere(x)
  PROVE  /\ ~Executing(fdc') => ~disturbed' /\ moved' = << >>
         /\ disturbed => last' = Blank /\ (Executing(fdc') => disturbed')
         /\ fdc.cmd \notin {"ReadData", "WriteData"} => last' = Blank
  BY DEF Moves, Elsewhere

LEMMA SectorIsNotBlank ==
  ASSUME NEW data, Sector(data)
  PROVE  data # Blank
<1>1. 1 \in DOMAIN data
  BY SizeAssumption DEF Sector, Bytes
<1>2. DOMAIN Blank = {}
  BY DEF Blank
<1> QED
  BY <1>1, <1>2

(* What is left of a read after a byte.                                    *)
LEMMA PartShrinks ==
  ASSUME IInv, TransferInv, Executing(fdc), fdc'.bufnum = fdc.bufnum, fdc'.cyl = fdc.cyl,
         fdc'.prm = fdc.prm, fdc'.rdptr = fdc.rdptr + 1
  PROVE  Shrinks
<1> SUFFICES ASSUME Reads PROVE BytesLeft' < BytesLeft
  BY DEF Shrinks
<1>1. BytesLeft > 0 /\ BytesLeft \in Nat /\ fdc.rdptr \in Int
  BY SomeBytesLeft DEF IInv, FdcType
<1>2. BytesLeft = SectorSize * Len(SectorsLeft) - fdc.rdptr
  BY DEF BytesLeft
<1>3. BytesLeft' = SectorSize * Len(SectorsLeft) - (fdc.rdptr + 1)
  BY DEF BytesLeft, SectorsLeft, Executing
<1> DEFINE n == SectorSize * Len(SectorsLeft)
<1>4. Len(SectorsLeft) \in Nat /\ SectorSize \in Nat
  BY TransfersExecuting, SizeAssumption DEF Reads, Data
<1>5. n \in Nat
  BY <1>4, TimesAtLeast, SizeAssumption
<1> HIDE DEF n
<1> QED
  BY <1>1, <1>2, <1>3, <1>5 DEF n

LEMMA WholeShrinks ==
  ASSUME IInv, TransferInv, Executing(fdc), fdc.rdptr + 1 = SectorSize,
         Executing(fdc') => /\ fdc'.rdptr = 0 /\ Len(SectorsLeft) > 1
                            /\ SectorsLeft' = Tail(SectorsLeft)
  PROVE  Shrinks
<1> SUFFICES ASSUME Reads PROVE BytesLeft' < BytesLeft
  BY DEF Shrinks
<1>1. BytesLeft > 0 /\ BytesLeft \in Nat /\ fdc.rdptr \in Int
  BY SomeBytesLeft DEF IInv, FdcType
<1>2. SectorsLeft \in Seq(Spot) /\ Len(SectorsLeft) \in Nat \ {0} /\ SectorSize \in Nat \ {0}
  BY TransfersExecuting, SizeAssumption DEF Reads, Data
<1>3. CASE ~Executing(fdc')
  BY <1>1, <1>3 DEF BytesLeft
<1>4. CASE Executing(fdc')
  <2> DEFINE n == Len(SectorsLeft)
             b == SectorSize * n
             c == SectorSize * (n - 1)
  <2>1. BytesLeft = b - fdc.rdptr
    BY DEF BytesLeft
  <2>2. SectorsLeft # << >>
    BY <1>2
  <2>3. Len(Tail(SectorsLeft)) = n - 1
    BY <1>2, <2>2, Rest
  <2>4. BytesLeft' = c - 0
    BY <1>4, <2>3 DEF BytesLeft
  <2>5. b \in Nat /\ c = b - SectorSize
    BY <1>2, TimesAtLeast
  <2> HIDE DEF b, c
  <2> QED
    BY <1>1, <1>2, <2>1, <2>4, <2>5
<1> QED
  BY <1>3, <1>4

(* A byte is read, and the sector is not at its end.                       *)
LEMMA ReadPartMoves ==
  ASSUME IInv, TransferInv, ReadPort, fdc.cmd \in Data, NEW f,
         fdc.rdptr + 1 < SectorSize, SameBut(f, fdc.rdptr + 1, fdc.wrptr, fdc.buf), Partly(f)
  PROVE  Moving
<1> DEFINE x == ~Reads
           byte == fdc.buf[fdc.rdptr + 1]
<1>1. /\ Executing(fdc) /\ x \in BOOLEAN
      /\ IF Reads /\ fdc.buf # Blank THEN Moves(byte) ELSE Elsewhere(x)
  BY DEF ReadPort
<1> HIDE DEF byte
<1>2. Executing(f)
  BY <1>1 DEF SameBut, Executing
<1>3. State(f).fdc = f /\ State(f).drive = Selected
  BY DEF State
<1>4. /\ fdc'.cyl = fdc.cyl /\ fdc'.st0 = fdc.st0 /\ fdc'.bufnum = fdc.bufnum
      /\ fdc'.cmd = fdc.cmd /\ fdc'.prm = fdc.prm /\ fdc'.buf = fdc.buf
      /\ fdc'.rdptr = fdc.rdptr + 1 /\ fdc'.wrptr = fdc.wrptr
  BY <1>2, <1>3, LeaveMeans DEF Partly, SameBut
<1>5. Executing(fdc')
  BY <1>1, <1>4 DEF Executing
<1>6. Image(State(f).drive.img) /\ Selected'.img = Selected.img
  BY <1>3, SelectedImage, LeaveDrive DEF Partly, TransferInv
<1>7. Carried(State(f).fdc)
  BY <1>1, <1>2, <1>3 DEF TransferInv, Carried, SameBut
<1>8. Shrinks
  BY <1>1, <1>4, PartShrinks
<1>9. CASE Transferring /\ fdc.cmd = "ReadData"
  <2>1. InPlace /\ moved = [i \in 1 .. fdc.rdptr |-> fdc.buf[i]]
    BY <1>9 DEF TransferInv, Moved
  <2>2. fdc.buf # Blank
    <3>1. Here \in DOMAIN Selected.img /\ fdc.buf = Selected.img[Here]
      BY <1>9, <2>1 DEF InPlace
    <3>2. Image(Selected.img)
      BY SelectedImage DEF TransferInv
    <3> QED
      BY <3>1, <3>2, SectorIsNotBlank DEF Image
  <2>3. Moves(byte)
    BY <1>1, <1>9, <2>2 DEF Reads
  <2>4. fdc.rdptr \in Nat /\ SectorSize \in Nat
    BY <1>1, TransfersExecuting, SizeAssumption
  <2>5. Len(moved) = fdc.rdptr
    BY <2>1, <2>4
  <2>6. /\ disturbed' = FALSE /\ moved' = Append(moved, byte) /\ last' = Blank
    <3>1. Len(moved) + 1 # SectorSize
      BY <2>4, <2>5
    <3> QED
      BY <1>5, <1>9, <2>3, <3>1 DEF Moves, Transferring
  <2>7. Transferring' /\ InPlace'
    <3>1. AtSector(State(f))
      BY <2>1, InPlaceAtSector DEF SameBut
    <3>2. InPlace'
      BY <1>2, <1>3, <3>1, LeaveInPlace DEF Partly
    <3> QED
      BY <1>4, <1>5, <1>9, <2>6, <3>2 DEF Transferring
  <2>8. Moved'
    <3>1. moved' = [i \in 1 .. fdc.rdptr + 1 |-> fdc.buf[i]]
      BY <2>1, <2>4, <2>6 DEF byte
    <3> QED
      BY <1>4, <1>9, <3>1 DEF Moved
  <2>9. TransferInv'
    <3>1. Images' /\ Carried(fdc')
      <4>1. Carried(fdc')
        BY <1>3, <1>4, <1>7 DEF Carried, SameBut, Executing
      <4> QED
        BY <1>3, <1>6, <4>1, LeaveDrive DEF Partly, TransferInv
    <3> QED
      BY <1>5, <2>7, <2>8, <3>1 DEF TransferInv
  <2>10. Device!Next
    <3>1. SectorsLeft' = SectorsLeft
      BY <1>4 DEF SectorsLeft
    <3>2. Job' = Job
      BY <1>4, <1>9, <2>7, <3>1 DEF Job
    <3>3. ~Error
      BY <1>1, <2>1 DEF InPlace, Error
    <3> QED
      BY <1>6, <2>6, <3>2, <3>3, OtherwiseStep
  <2> QED
    BY <1>8, <2>9, <2>10 DEF Moving
<1>10. CASE ~(Transferring /\ fdc.cmd = "ReadData")
  <2>1. Moves(byte) \/ Elsewhere(x)
    BY <1>1
  <2>2. last' = Blank /\ ~Transferring'
    <3>1. CASE disturbed \/ fdc.cmd \notin {"ReadData", "WriteData"}
      BY <1>1, <1>4, <1>5, <2>1, <3>1, HistoryMeans DEF Transferring
    <3>2. CASE fdc.cmd = "WriteData"
      <4>1. x /\ Elsewhere(x)
        BY <1>1, <3>2 DEF Reads
      <4> QED
        BY <1>1, <1>5, <4>1 DEF Elsewhere, Transferring
    <3>3. CASE ~disturbed /\ fdc.cmd = "ReadData"
      BY <1>1, <1>10, <3>3 DEF Transferring
    <3> QED
      BY <3>1, <3>2, <3>3
  <2> HIDE DEF x
  <2> QED
    BY <1>5, <1>6, <1>7, <1>8, <2>2, LeaveAborted DEF Partly
<1> QED
  BY <1>9, <1>10

(* What is carried on, and what becomes of the transfer, after a sector.   *)
LEMMA AdvancedLeaves ==
  ASSUME IInv, TransferInv, NEW s, NEW t, Advances(s, t), Left(t), Leave(t),
         s.fdc.cyl = fdc.cyl, s.fdc.prm = fdc.prm, s.fdc.st0 = fdc.st0, t.fdc.rdnum = 1,
         t.fdc.rdptr = 0
  PROVE  /\ Executing(fdc') <=> t.fdc.bufnum # 0
         /\ Executing(fdc') => /\ Len(SectorsLeft) > 1 /\ SectorsLeft' = Tail(SectorsLeft)
                               /\ fdc'.rdptr = 0 /\ fdc'.cmd = t.fdc.cmd
         /\ ~Executing(fdc') => Error' \/ (Len(SectorsLeft) = 1 /\ Error' = ("error" = fdc.st0))
<1>1. Executing(fdc') <=> t.fdc.bufnum # 0
  BY LeaveMeans DEF Executing
<1>2. Todo(s) = SectorsLeft
  BY DEF Todo, SectorsLeft
<1>3. Executing(fdc') => Todo(t) = SectorsLeft'
  BY <1>1, LeaveMeans DEF Todo, SectorsLeft, Executing
<1>4. ~Executing(fdc') => fdc'.rsp = t.fdc.rsp
  BY <1>1, LeaveMeans DEF Executing
<1>5. Executing(fdc') => fdc'.rdptr = 0 /\ fdc'.cmd = t.fdc.cmd
  BY <1>1, LeaveMeans DEF Executing
<1> QED
  BY <1>1, <1>2, <1>3, <1>4, <1>5 DEF Advances, Error

(* The last byte of a sector is read.                                      *)
LEMMA ReadWholeMoves ==
  ASSUME IInv, TransferInv, ReadPort, fdc.cmd \in Data, NEW f,
         fdc.rdptr + 1 = SectorSize, SameBut(f, 0, fdc.wrptr, fdc.buf), Wholly(f)
  PROVE  Moving
<1> DEFINE x == ~Reads
           byte == fdc.buf[fdc.rdptr + 1]
           s == State(f)
           t == FDC_NextTrack(s)
<1>1. /\ Executing(fdc) /\ x \in BOOLEAN
      /\ IF Reads /\ fdc.buf # Blank THEN Moves(byte) ELSE Elsewhere(x)
  BY DEF ReadPort
<1> HIDE DEF byte
<1>2. s.fdc = f /\ s.drive = Selected
  BY DEF State
<1>3. GoodState(s)
  BY StateLeft DEF SameBut
<1>4. Handles(s, t) /\ Left(t) /\ Leave(t)
  BY DEF Wholly
<1>5. Advances(s, t)
  BY <1>1, <1>2, <1>3, TransfersExecuting, NextTrackAdvances DEF SameBut
<1> HIDE DEF s, t
<1>6. /\ t.fdc.cmd = fdc.cmd /\ t.fdc.rdnum = 1 /\ t.fdc.rdptr = 0 /\ t.fdc.wrptr = fdc.wrptr
  BY <1>1, <1>2, <1>4 DEF Handles, SameBut, IInv, Phase
<1>7. /\ Executing(fdc') <=> t.fdc.bufnum # 0
      /\ Executing(fdc') => /\ Len(SectorsLeft) > 1 /\ SectorsLeft' = Tail(SectorsLeft)
                            /\ fdc'.rdptr = 0 /\ fdc'.cmd = fdc.cmd
      /\ ~Executing(fdc') => Error' \/ (Len(SectorsLeft) = 1 /\ Error' = ("error" = fdc.st0))
  BY <1>2, <1>4, <1>5, <1>6, AdvancedLeaves DEF SameBut
<1>8. t.drive.img = Selected.img /\ Selected'.img = Selected.img /\ Image(t.drive.img)
  <2>1. t.drive.img = Selected.img
    BY <1>2, <1>5 DEF Advances
  <2> QED
    BY <1>4, <2>1, SelectedImage, LeaveDrive DEF TransferInv
<1>9. Carried(t.fdc)
  <2>1. t.fdc.prm \in TransferParameters
    BY <1>5 DEF Advances
  <2>2. fdc.cmd = "WriteData" => t.fdc.buf = fdc.buf
    BY <1>2, <1>5 DEF Advances, SameBut
  <2> QED
    BY <1>1, <1>6, <2>1, <2>2 DEF Carried, TransferInv
<1>10. Shrinks
  BY <1>1, <1>7, WholeShrinks
<1>11. CASE Transferring /\ fdc.cmd = "ReadData"
  <2>1. InPlace /\ moved = [i \in 1 .. fdc.rdptr |-> fdc.buf[i]] /\ fdc.st0 = "ok"
    BY <1>11 DEF TransferInv, Moved, InPlace
  <2>2. Here \in DOMAIN Selected.img /\ fdc.buf = Selected.img[Here]
    BY <1>11, <2>1 DEF InPlace
  <2>3. Sector(fdc.buf)
    <3>1. Image(Selected.img)
      BY SelectedImage DEF TransferInv
    <3> QED
      BY <2>2, <3>1 DEF Image
  <2>4. Moves(byte)
    BY <1>1, <1>11, <2>3, SectorIsNotBlank DEF Reads
  <2>5. fdc.rdptr \in Nat /\ SectorSize \in Nat
    BY <1>1, TransfersExecuting, SizeAssumption
  <2>6. Len(moved) + 1 = SectorSize
    BY <2>1, <2>5
  <2>7. /\ disturbed' = (Executing(fdc') /\ fdc'.st0 = "error")
        /\ moved' = << >> /\ last' = Append(moved, byte)
    BY <1>11, <2>4, <2>6 DEF Moves, Transferring
  <2>8. last' = fdc.buf
    <3>1. Append(moved, byte) = [i \in 1 .. SectorSize |-> fdc.buf[i]]
      BY <2>1, <2>5 DEF byte
    <3> QED
      BY <2>3, <2>7, <3>1 DEF Sector, Bytes
  <2>9. Executing(fdc') => Transferring' /\ InPlace' /\ Moved'
    <3> SUFFICES ASSUME Executing(fdc') PROVE Transferring' /\ InPlace' /\ Moved'
      OBVIOUS
    <3>1. AtSector(t) /\ Executing(t.fdc)
      BY <1>5, <1>6, <1>7, <1>11 DEF Advances, Executing
    <3>2. InPlace'
      BY <1>4, <3>1, LeaveInPlace
    <3>3. Transferring'
      BY <1>7, <1>11, <2>7, <3>2 DEF InPlace, Transferring
    <3>4. moved' = [i \in 1 .. fdc'.rdptr |-> fdc'.buf[i]]
      BY <1>7, <2>7
    <3> QED
      BY <1>7, <1>11, <3>2, <3>3, <3>4 DEF Moved
  <2>10. TransferInv'
    <3>1. Images' /\ Carried(fdc')
      <4>1. Carried(fdc')
        BY <1>4, <1>7, <1>9, LeaveMeans DEF Carried, Executing
      <4> QED
        BY <1>4, <1>8, <4>1, LeaveDrive DEF TransferInv
    <3> QED
      BY <2>7, <2>9, <3>1 DEF TransferInv, Transferring
  <2>11. Device!Next
    <3>1. After
      <4>1. ~Error
        BY <1>1, <2>1 DEF Error
      <4>2. CASE Executing(fdc')
        <5>1. ~Error'
          BY <2>9, <4>2 DEF InPlace, Error
        <5> QED
          BY <1>7, <2>9, <4>1, <4>2, <5>1 DEF After, Error
      <4>3. CASE ~Executing(fdc')
        BY <1>7, <4>1, <4>3 DEF After, Transferring
      <4> QED
        BY <4>2, <4>3
    <3>2. Head(SectorsLeft) = Here
      BY <1>1, TransfersExecuting
    <3> QED
      BY <1>8, <1>11, <2>2, <2>8, <3>1, <3>2, DeliverStep
  <2> QED
    BY <1>10, <2>10, <2>11 DEF Moving
<1>12. CASE ~(Transferring /\ fdc.cmd = "ReadData")
  <2>1. Moves(byte) \/ Elsewhere(x)
    BY <1>1
  <2>2. ~Executing(fdc') => ~disturbed' /\ moved' = << >>
    BY <1>1, <2>1, HistoryMeans
  <2>3. last' = Blank /\ ~Transferring'
    <3>1. CASE disturbed \/ fdc.cmd \notin {"ReadData", "WriteData"}
      BY <1>1, <1>7, <2>1, <3>1, HistoryMeans DEF Transferring
    <3>2. CASE fdc.cmd = "WriteData"
      <4>1. x /\ Elsewhere(x)
        BY <1>1, <3>2 DEF Reads
      <4> QED
        BY <1>1, <4>1 DEF Elsewhere, Transferring
    <3>3. CASE ~disturbed /\ fdc.cmd = "ReadData"
      BY <1>1, <1>12, <3>3 DEF Transferring
    <3> QED
      BY <3>1, <3>2, <3>3
  <2> HIDE DEF x
  <2> QED
    BY <1>4, <1>8, <1>9, <1>10, <2>2, <2>3, LeaveAborted
<1> QED
  BY <1>11, <1>12

LEMMA ReadPortMoves ==
  ASSUME IInv, TransferInv, ReadPort
  PROVE  Moving
  BY ReadPortLeaves, ReadPartMoves, ReadWholeMoves

-----------------------------------------------------------------------------
(* A byte that is written.                                                 *)

(* The buffer of a write holds what was written of the sector.             *)
LEMMA FilledIs ==
  ASSUME IInv, TransferInv, Executing(fdc), fdc.cmd = "WriteData", NEW byte \in Byte
  PROVE  /\ Filled(byte) \in Seq(Byte) /\ Len(Filled(byte)) = fdc.wrptr + 1
         /\ fdc.wrptr + 1 = SectorSize => Sector(Filled(byte)) /\ Filled(byte) \in Block
         /\ Transferring => Append(moved, byte) = Filled(byte) /\ Len(moved) = fdc.wrptr
<1>1. fdc.wrptr \in 0 .. SectorSize - 1 /\ SectorSize \in Nat \ {0}
  BY TransfersExecuting, SizeAssumption DEF Data
<1>2. fdc.wrptr # 0 => fdc.buf \in Seq(Byte) /\ Len(fdc.buf) = fdc.wrptr
  BY DEF TransferInv, Carried
<1>3. Filled(byte) = IF fdc.wrptr = 0 THEN <<byte>> ELSE Append(fdc.buf, byte)
  BY DEF Filled, Reads
<1>4. Filled(byte) \in Seq(Byte) /\ Len(Filled(byte)) = fdc.wrptr + 1
  BY <1>1, <1>2, <1>3
<1>5. fdc.wrptr + 1 = SectorSize => Sector(Filled(byte)) /\ Filled(byte) \in Block
  BY <1>4 DEF Sector, Block, Bytes
<1>6. Transferring => moved = IF fdc.wrptr = 0 THEN << >> ELSE fdc.buf
  BY DEF TransferInv, Moved
<1>7. Append(<< >>, byte) = <<byte>>
  OBVIOUS
<1>8. Transferring => Append(moved, byte) = Filled(byte) /\ Len(moved) = fdc.wrptr
  <2> SUFFICES ASSUME Transferring
               PROVE  Append(moved, byte) = Filled(byte) /\ Len(moved) = fdc.wrptr
    OBVIOUS
  <2>1. CASE fdc.wrptr = 0
    <3>1. moved = << >> /\ Filled(byte) = <<byte>>
      BY <1>3, <1>6, <2>1
    <3>2. Len(moved) = 0
      BY <3>1
    <3> QED
      BY <1>7, <2>1, <3>1, <3>2, Zenon
  <2>2. CASE fdc.wrptr # 0
    BY <1>2, <1>3, <1>6, <2>2, Zenon
  <2> QED
    BY <2>1, <2>2
<1> QED
  BY <1>4, <1>5, <1>8

LEMMA WritePartMoves ==
  ASSUME IInv, TransferInv, NEW byte \in Byte, WritePort(byte), fdc.cmd \in Phased, NEW f,
         fdc.wrptr + 1 < fdc.bufnum, SameBut(f, fdc.rdptr, fdc.wrptr + 1, Filled(byte)),
         Partly(f)
  PROVE  Moving
<1> DEFINE x == Reads
<1>1. /\ Executing(fdc) /\ x \in BOOLEAN
      /\ IF fdc.cmd = "WriteData" THEN Moves(byte) ELSE Elsewhere(x)
  BY DEF WritePort, Reads
<1>2. Executing(f)
  BY <1>1 DEF SameBut, Executing
<1>3. State(f).fdc = f /\ State(f).drive = Selected
  BY DEF State
<1>4. /\ fdc'.cyl = fdc.cyl /\ fdc'.st0 = fdc.st0 /\ fdc'.bufnum = fdc.bufnum
      /\ fdc'.cmd = fdc.cmd /\ fdc'.prm = fdc.prm /\ fdc'.buf = Filled(byte)
      /\ fdc'.rdptr = fdc.rdptr /\ fdc'.wrptr = fdc.wrptr + 1
  BY <1>2, <1>3, LeaveMeans DEF Partly, SameBut
<1>5. Executing(fdc')
  BY <1>1, <1>4 DEF Executing
<1>6. Image(State(f).drive.img) /\ Selected'.img = Selected.img
  BY <1>3, SelectedImage, LeaveDrive DEF Partly, TransferInv
<1>7. Carried(State(f).fdc)
  BY <1>1, <1>2, <1>3, FilledIs DEF TransferInv, Carried, SameBut
<1>8. Shrinks
  BY <1>4 DEF Shrinks, Progress
<1>9. CASE Transferring /\ fdc.cmd = "WriteData"
  <2>1. InPlace /\ Append(moved, byte) = Filled(byte) /\ Len(moved) = fdc.wrptr
    BY <1>1, <1>9, FilledIs DEF TransferInv
  <2>2. fdc.bufnum = SectorSize /\ fdc.wrptr \in Nat
    BY <1>1, <1>9, TransfersExecuting DEF Data
  <2>3. /\ disturbed' = FALSE /\ moved' = Append(moved, byte) /\ last' = Blank
    <3>1. Len(moved) + 1 # SectorSize
      BY <2>1, <2>2
    <3>2. Moves(byte)
      BY <1>1, <1>9
    <3> QED
      BY <1>5, <1>9, <3>1, <3>2 DEF Moves, Transferring
  <2>4. Transferring' /\ InPlace'
    <3>1. AtSector(State(f))
      BY <1>9, <2>1, InPlaceAtSector DEF SameBut
    <3>2. InPlace'
      BY <1>2, <1>3, <3>1, LeaveInPlace DEF Partly
    <3> QED
      BY <1>4, <1>5, <1>9, <2>3, <3>2 DEF Transferring
  <2>5. Moved'
    <3>1. fdc'.wrptr # 0
      BY <1>4, <2>2
    <3> QED
      BY <1>4, <1>9, <2>1, <2>3, <3>1 DEF Moved
  <2>6. TransferInv'
    <3>1. Carried(fdc')
      BY <1>3, <1>4, <1>7 DEF Carried, SameBut, Executing
    <3>2. Images'
      BY <1>3, <1>6, LeaveDrive DEF Partly, TransferInv
    <3> QED
      BY <1>5, <2>4, <2>5, <3>1, <3>2 DEF TransferInv
  <2>7. Device!Next
    <3>1. SectorsLeft' = SectorsLeft
      BY <1>4 DEF SectorsLeft
    <3>2. Job' = Job
      BY <1>4, <1>9, <2>4, <3>1 DEF Job
    <3>3. ~Error
      BY <1>1, <2>1 DEF InPlace, Error
    <3> QED
      BY <1>6, <2>3, <3>2, <3>3, OtherwiseStep
  <2> QED
    BY <1>8, <2>6, <2>7 DEF Moving
<1>10. CASE ~(Transferring /\ fdc.cmd = "WriteData")
  <2>1. Moves(byte) \/ Elsewhere(x)
    BY <1>1
  <2>2. last' = Blank /\ ~Transferring'
    <3>1. CASE disturbed \/ fdc.cmd \notin {"ReadData", "WriteData"}
      BY <1>1, <1>4, <1>5, <2>1, <3>1, HistoryMeans DEF Transferring
    <3>2. CASE fdc.cmd = "ReadData"
      <4>1. x /\ Elsewhere(x)
        BY <1>1, <3>2 DEF Reads
      <4> QED
        BY <1>1, <1>5, <4>1 DEF Elsewhere, Transferring
    <3>3. CASE ~disturbed /\ fdc.cmd = "WriteData"
      BY <1>1, <1>10, <3>3 DEF Transferring
    <3> QED
      BY <3>1, <3>2, <3>3
  <2> HIDE DEF x
  <2> QED
    BY <1>5, <1>6, <1>7, <1>8, <2>2, LeaveAborted DEF Partly
<1> QED
  BY <1>9, <1>10

(* The last byte of a sector that is written: the sector is stored, or     *)
(* lost.                                                                   *)
LEMMA WriteSectorMoves ==
  ASSUME IInv, TransferInv, NEW byte \in Byte, WritePort(byte), fdc.cmd = "WriteData", NEW f,
         fdc.wrptr + 1 = fdc.bufnum, SameBut(f, fdc.rdptr, fdc.wrptr + 1, Filled(byte)),
         NEW s \in FDC_WriteBuffer(State(f)), NEW t,
         Handles(State(f), s), Restarted(s, t), Left(t), Leave(t)
  PROVE  Moving
<1> DEFINE u == State(f)
<1>1. Executing(fdc) /\ Moves(byte)
  BY DEF WritePort
<1>2. u.fdc = f /\ u.drive = Selected
  BY DEF State
<1>3. GoodState(u)
  BY StateLeft DEF SameBut
<1>4. /\ fdc.cyl \in Nat /\ fdc.prm \in TransferParameters /\ fdc.bufnum = SectorSize
      /\ Head(SectorsLeft) = Here
  BY <1>1, TransfersExecuting DEF Data
<1>5. /\ Sector(Filled(byte)) /\ Filled(byte) \in Block
      /\ Transferring => Append(moved, byte) = Filled(byte) /\ Len(moved) + 1 = SectorSize
  BY <1>1, <1>4, FilledIs
<1>6. Todo(u) = SectorsLeft
  BY <1>2 DEF Todo, SectorsLeft, SameBut
<1>7. /\ Image(s.drive.img) /\ s.fdc.prm \in TransferParameters
      /\ u.drive.trk = Track(u) =>
           \/ s.drive.img = u.drive.img
           \/ Stored(u.drive.img, <<Track(u), Id(u)>>, u.fdc.buf, s.drive.img)
      /\ s.fdc.bufnum = 0 =>
           s.fdc.rsp = "error" \/ (Len(Todo(u)) = 1 /\ s.fdc.rsp = u.fdc.st0)
      /\ \/ s.fdc.bufnum # 0 /\ s.fdc.st0 = "error"
         \/ s.fdc.bufnum # 0 =>
              Len(Todo(u)) > 1 /\ Todo(s) = Tail(Todo(u)) /\ AtSector(s)
  <2>1. Image(u.drive.img)
    BY <1>2, SelectedImage DEF TransferInv
  <2>2. /\ u.fdc.cmd = "WriteData" /\ u.fdc.bufnum = SectorSize /\ u.fdc.cyl \in Nat
        /\ u.fdc.prm \in TransferParameters /\ Fits(u)
    BY <1>2, <1>4, <1>5 DEF SameBut, Fits
  <2> HIDE DEF u
  <2>3. s \in FDC_WriteBuffer(u)
    BY DEF u
  <2> QED
    BY <1>3, <2>1, <2>2, <2>3, WriteDataMeans
<1>8. s.fdc.cmd = "WriteData" /\ s.fdc.rdnum = 1
  BY <1>1, <1>2 DEF Handles, SameBut, IInv, Phase
<1>9. Executing(fdc') <=> s.fdc.bufnum # 0
  BY LeaveMeans DEF Restarted, Executing
<1>10. Executing(fdc') =>
         /\ fdc'.cmd = "WriteData" /\ fdc'.cyl = s.fdc.cyl /\ fdc'.prm = s.fdc.prm
         /\ fdc'.st0 = s.fdc.st0 /\ fdc'.wrptr = 0
  BY <1>8, <1>9, LeaveMeans DEF Restarted, Executing
<1>11. ~Executing(fdc') => fdc'.rsp = s.fdc.rsp
  BY <1>8, <1>9, LeaveMeans DEF Restarted, Executing
<1>12. Image(t.drive.img) /\ Carried(t.fdc)
  BY <1>7 DEF Restarted, Carried
<1>13. Shrinks
  BY DEF Shrinks, Reads
<1>14. CASE ~Transferring
  <2>1. disturbed
    BY <1>1, <1>14 DEF Transferring
  <2>2. ~Executing(fdc') => ~disturbed' /\ moved' = << >>
    BY <1>1 DEF Moves
  <2>3. last' = Blank /\ ~Transferring'
    BY <1>1, <2>1 DEF Moves, Transferring
  <2> QED
    BY <1>12, <1>13, <2>2, <2>3, LeaveAborted
<1>15. CASE Transferring
  <2>1. InPlace
    BY <1>15 DEF TransferInv
  <2>2. /\ disturbed' = (Executing(fdc') /\ fdc'.st0 = "error")
        /\ moved' = << >> /\ last' = Filled(byte)
    BY <1>1, <1>5, <1>15 DEF Moves, Transferring
  <2>3. u.drive.trk = Track(u) /\ <<Track(u), Id(u)>> = Here
    BY <1>2, <2>1, InPlaceAtSector DEF SameBut, InPlace
  <2>4. Selected'.img = s.drive.img
    BY <2>1, LeaveDrive DEF Restarted, InPlace
  <2>5. \/ Selected'.img = Selected.img
        \/ Stored(Selected.img, Head(SectorsLeft), last', Selected'.img)
    BY <1>2, <1>4, <1>7, <2>2, <2>3, <2>4 DEF SameBut
  <2>6. CASE ~Transferring'
    <3>1. TransferInv'
      <4>1. Images'
        BY <1>12, LeaveDrive DEF TransferInv
      <4>2. Carried(fdc')
        BY <1>7, <1>10, <1>12 DEF Carried
      <4> QED
        BY <2>2, <2>6, <4>1, <4>2 DEF TransferInv
    <3>2. After
      <4>1. ~Error
        BY <1>1, <2>1 DEF InPlace, Error
      <4>2. CASE Executing(fdc')
        <5>1. fdc'.st0 = "error"
          BY <1>10, <2>2, <2>6, <4>2 DEF Transferring
        <5> QED
          BY <2>6, <4>1, <4>2, <5>1 DEF After, Error
      <4>3. CASE ~Executing(fdc')
        <5>1. Error' \/ Len(SectorsLeft) = 1
          BY <1>6, <1>7, <1>9, <1>11, <4>3 DEF Error
        <5> QED
          BY <2>6, <4>1, <5>1 DEF After
      <4> QED
        BY <4>2, <4>3
    <3> QED
      BY <1>5, <1>13, <1>15, <2>2, <2>5, <3>1, <3>2, StoreStep DEF Moving
  <2>7. CASE Transferring'
    <3>1. Executing(fdc') /\ s.fdc.bufnum # 0
      BY <1>9, <2>7 DEF Transferring
    <3>2. s.fdc.st0 # "error"
      BY <1>10, <2>2, <2>7, <3>1 DEF Transferring
    <3>3. Len(SectorsLeft) > 1 /\ Todo(s) = Tail(SectorsLeft) /\ AtSector(s)
      BY <1>6, <1>7, <3>1, <3>2
    <3>4. AtSector(t) /\ Executing(t.fdc)
      BY <3>1, <3>3 DEF AtSector, Restarted, Track, Id, Executing
    <3>5. InPlace'
      BY <3>4, LeaveInPlace
    <3>6. Moved'
      BY <1>10, <2>2, <3>1 DEF Moved
    <3>7. SectorsLeft' = Tail(SectorsLeft)
      BY <1>10, <3>1, <3>3 DEF Todo, SectorsLeft
    <3>8. TransferInv'
      <4>1. Images'
        BY <1>12, LeaveDrive DEF TransferInv
      <4>2. Carried(fdc')
        BY <1>7, <1>10, <3>1 DEF Carried
      <4> QED
        BY <3>1, <3>5, <3>6, <4>1, <4>2 DEF TransferInv
    <3>9. After
      <4>1. ~Error
        BY <1>1, <2>1 DEF InPlace, Error
      <4>2. ~Error'
        BY <3>1, <3>5 DEF InPlace, Error
      <4> QED
        BY <1>10, <2>7, <3>1, <3>3, <3>7, <4>1, <4>2 DEF After, Error
    <3> QED
      BY <1>5, <1>13, <1>15, <2>2, <2>5, <3>8, <3>9, StoreStep DEF Moving
  <2> QED
    BY <2>6, <2>7
<1> QED
  BY <1>14, <1>15

(* A buffer that is full of anything else.                                 *)
LEMMA WriteOtherMoves ==
  ASSUME IInv, TransferInv, NEW byte \in Byte, WritePort(byte), fdc.cmd \in Phased,
         fdc.cmd # "WriteData", NEW f,
         SameBut(f, fdc.rdptr, fdc.wrptr + 1, Filled(byte)),
         NEW s \in FDC_WriteBuffer(State(f)), NEW t,
         Handles(State(f), s), Restarted(s, t), Left(t), Leave(t)
  PROVE  Moving
<1> DEFINE u == State(f)
           x == Reads
<1>1. Executing(fdc) /\ Elsewhere(x) /\ x \in BOOLEAN
  BY DEF WritePort, Reads
<1>2. u.fdc = f /\ u.drive = Selected
  BY DEF State
<1>3. GoodState(u)
  BY StateLeft DEF SameBut
<1>4. /\ Image(s.drive.img) /\ (fdc.cmd \in Data => s.fdc.prm \in TransferParameters)
      /\ fdc.cmd = "WriteID" => s.fdc.bufnum = 0
      /\ fdc.cmd \in {"ReadData", "ReadDiagnostic"} => s = u
  <2>1. Image(u.drive.img)
    BY <1>2, SelectedImage DEF TransferInv
  <2>2. /\ u.fdc.cmd = fdc.cmd /\ u.fdc.cyl \in Nat
        /\ fdc.cmd \in Data => u.fdc.prm \in TransferParameters
    BY <1>1, <1>2, CylinderNatural DEF SameBut, TransferInv, Carried
  <2> HIDE DEF u
  <2>3. s \in FDC_WriteBuffer(u)
    BY DEF u
  <2> QED
    BY <1>3, <2>1, <2>2, <2>3, BufferMeans
<1>5. s.fdc.cmd = fdc.cmd
  BY <1>2 DEF Handles, SameBut
<1>6. /\ fdc'.bufnum = s.fdc.bufnum
      /\ Executing(fdc') => fdc'.cmd = fdc.cmd /\ fdc'.prm = s.fdc.prm /\ fdc'.rdptr = s.fdc.rdptr
  BY <1>5, LeaveMeans DEF Restarted, Executing
<1>7. Image(t.drive.img) /\ Carried(t.fdc)
  <2>1. Executing(t.fdc) /\ t.fdc.cmd \in Data => t.fdc.prm \in TransferParameters
    BY <1>4, <1>5 DEF Restarted
  <2> QED
    BY <1>4, <1>5, <2>1 DEF Restarted, Carried
<1>8. Shrinks
  <2> SUFFICES ASSUME Reads PROVE Progress' = Progress
    BY DEF Shrinks
  <2>1. s.fdc = f
    BY <1>2, <1>4 DEF Reads
  <2>2. fdc'.bufnum = fdc.bufnum /\ Executing(fdc')
    BY <1>1, <1>6, <2>1 DEF SameBut, Executing
  <2> QED
    BY <1>6, <2>1, <2>2 DEF SameBut, Progress
<1>9. last' = Blank /\ (~Executing(fdc') => ~disturbed' /\ moved' = << >>)
  BY <1>1 DEF Elsewhere
<1>10. ~Transferring'
  <2>1. CASE fdc.cmd = "ReadData"
    BY <1>1, <2>1 DEF Elsewhere, Reads, Transferring
  <2>2. CASE fdc.cmd # "ReadData"
    BY <1>6, <2>2 DEF Transferring
  <2> QED
    BY <2>1, <2>2
<1> QED
  BY <1>7, <1>8, <1>9, <1>10, LeaveAborted

LEMMA WritePortMoves ==
  ASSUME IInv, TransferInv, NEW byte \in Byte, WritePort(byte)
  PROVE  Moving
  BY WritePortLeaves, WritePartMoves, WriteSectorMoves, WriteOtherMoves

-----------------------------------------------------------------------------
(* Every step, and the first state.                                        *)

LEMMA StepMoves ==
  ASSUME IInv, TransferInv, Next
  PROVE  Moving
<1>1. CASE ReadPort
  BY <1>1, ReadPortMoves
<1>2. CASE ReadResult
  BY <1>2, ReadResultMoves
<1>3. CASE \E byte \in Byte : WritePort(byte)
  BY <1>3, WritePortMoves
<1>4. CASE \E cmd \in Command : StartCommand(cmd)
  BY <1>4, StartCommandMoves
<1>5. CASE WriteParameters
  BY <1>5, WriteParametersMoves
<1>6. CASE \E d \in Drive \union {-1} : SelectDrive(d)
  BY <1>6, SelectDriveMoves
<1>7. CASE \E lines \in SUBSET Drive, eject \in BOOLEAN : DriveControl(lines, eject)
  BY <1>7, DriveControlMoves
<1>8. CASE \E d \in Drive : EjectDisk(d)
  BY <1>8, EjectDiskMoves
<1>9. CASE \E d \in Drive, f \in File : InsertDisk(d, f)
  BY <1>9, InsertDiskMoves
<1>10. CASE Frame
  BY <1>10, FrameMoves
<1>11. CASE Reset
  BY <1>11, ResetMoves
<1> QED
  BY <1>1, <1>2, <1>3, <1>4, <1>5, <1>6, <1>7, <1>8, <1>9, <1>10, <1>11 DEF Next

LEMMA InitMoves ==
  ASSUME Init
  PROVE  TransferInv /\ Device!Init
<1>1. /\ ~Executing(fdc) /\ fdc.rsp = "ok" /\ fdc = FDC_Init
      /\ ~disturbed /\ moved = << >> /\ last = Blank
  BY DEF Init, FDC_Init, Executing
<1>2. \A d \in Drive : Image(fdd[d].img)
  BY EmptyImage DEF Init, DriveInit
<1>3. \A f \in File : Image(files[f])
  BY DataAssumption DEF Init, DriveInit, Image
<1> QED
  BY <1>1, <1>2, <1>3 DEF TransferInv, Images, Carried, Transferring, Device!Init, Device!Idle

LEMMA TransferInductive == Spec => [](IInv /\ TransferInv)
<1>1. IInv /\ TransferInv /\ [Next]_vars => TransferInv'
  <2>1. ASSUME TransferInv, UNCHANGED vars PROVE TransferInv'
    BY <2>1 DEF vars, historyVars, TransferInv, Images, Carried, Transferring, InPlace, Moved,
         Selected, Here
  <2> QED
    BY <2>1, StepMoves DEF Moving
<1>2. Init => TransferInv
  BY InitMoves
<1> QED
  BY <1>1, <1>2, Inductive, PTL DEF Spec

-----------------------------------------------------------------------------
(* The theorems.                                                           *)

(* No pointer of the controller leaves its buffer, whatever the program    *)
(* writes and reads and whenever a disk is changed.                        *)
THEOREM TypeCorrect == Spec => []TypeOK
<1>1. IInv => TypeOK
  <2> SUFFICES ASSUME IInv PROVE TypeOK
    OBVIOUS
  <2>1. \A d \in Drive : fdd[d].file \in File \union {NoFile} /\ fdd[d].SetDelay \in 0 .. Ready
    BY DEF IInv, Drives, DriveType
  <2> QED
    BY <2>1 DEF IInv, FdcType, Phase, TypeOK
<1> QED
  BY <1>1, Inductive, PTL

(* No sequence of writes, formats and changes of disk changes the file of  *)
(* a protected disk (the Eject functions of the three formats).            *)
THEOREM ProtectedNeverChanges == Spec => []ProtectedUnchanged
<1>1. IInv => ProtectedUnchanged
  BY DEF IInv
<1> QED
  BY <1>1, Inductive, PTL

(* FDC_EPhaseEnd is the only way out of an execution phase: the CPU is     *)
(* asked, the result waits and the direction is turned.                    *)
THEOREM EndsAreReported == Spec => EndIsReported
<1>1. IInv /\ [Next]_vars =>
        [Executing(fdc) /\ ~Executing(fdc') /\ fdc' # FDC_Init =>
           "FDC" \in asked' /\ fdc'.rdnum = 1 /\ ~fdc'.wexec]_vars
  BY StepKeeps DEF Reported
<1> QED
  BY <1>1, Inductive, PTL DEF Spec, EndIsReported

(* Every change of a drive's readiness comes with FDD_Int.                 *)
THEOREM ChangesAreAnnounced == Spec => ChangeIsAnnounced
<1>1. IInv /\ [Next]_vars =>
        [\A d \in Drive : FDD_IsReady(fdd'[d]) # FDD_IsReady(fdd[d]) => "FDD" \in asked']_vars
  BY StepKeeps DEF Announced
<1> QED
  BY <1>1, Inductive, PTL DEF Spec, ChangeIsAnnounced

(* Each byte that is read brings the end of the command nearer, whatever   *)
(* becomes of the disk: FDC_NextTrack reaches the last sector of the first *)
(* side, goes to the second at most once, and ends.                        *)
THEOREM ReadingShrinks == Spec => ReadsShrink
<1>1. IInv /\ TransferInv /\ [Next]_vars =>
        [Executing(fdc) /\ Reads /\ Progress' # Progress => BytesLeft' < BytesLeft]_vars
  BY StepMoves DEF Moving, Shrinks
<1> QED
  BY <1>1, TransferInductive, PTL DEF Spec, ReadsShrink

(* The controller with its drives is a device that moves whole blocks: a   *)
(* sector that was read is the one on the disk, a sector that was written  *)
(* is stored at its place and nowhere else, or the result says an error.   *)
THEOREM ImplementsDevice == Spec => MovesSectors
<1> DEFINE devVars == <<Selected.img, Job, last, FALSE, Error>>
<1>1. IInv /\ TransferInv /\ [Next]_vars => [Device!Next]_devVars
  <2>1. ASSUME UNCHANGED vars PROVE UNCHANGED devVars
    BY <2>1 DEF vars, historyVars, Selected, Job, Transferring, SectorsLeft, Error
  <2> QED
    BY <2>1, StepMoves DEF Moving
<1>2. IInv /\ TransferInv /\ [Next]_vars =>
        [Device!Next]_<<Selected.img,
          IF Transferring
          THEN [kind |-> IF fdc.cmd = "ReadData" THEN "read" ELSE "write",
                todo |-> SectorsLeft]
          ELSE [kind |-> "idle", todo |-> << >>],
          last, FALSE, "error" = IF Executing(fdc) THEN fdc.st0 ELSE fdc.rsp>>
  BY <1>1 DEF Job, Error
<1>3. Init => Device!Init
  BY InitMoves
<1> QED
  BY <1>2, <1>3, TransferInductive, PTL DEF Spec, MovesSectors, Device!Spec

=============================================================================
