-------------------------------- MODULE FDC --------------------------------
(***************************************************************************)
(* The floppy disk controller (x68k/fdc.c) with its drives: commands and   *)
(* their parameters, the execution phase byte by byte and sector by        *)
(* sector, the result, the interrupts, and the disks that are changed at   *)
(* any moment by the frontend, the menu or the program.                    *)
(*                                                                         *)
(* FDC_SetForceReady is called by nobody.  A sector has SectorSize bytes;  *)
(* a sector length of zero is left out.  A track is formatted with one     *)
(* sector, whose id counts as one byte; of more the code keeps the first.  *)
(* What the result says is kept as good or bad.  The interrupts are those  *)
(* the code asks for when the I/O controller lets them (module             *)
(* Interrupts).                                                            *)
(***************************************************************************)
EXTENDS FloppyDrive, Sequences

CONSTANTS
  Byte,                 \* what the program writes
  SectorSize,           \* bytes of a sector
  RMod,                 \* numbers of sectors: 256
  Transfers,            \* the parameters of reading, writing and scanning
  Cylinders,            \* the cylinders a seek names
  Formats               \* the parameters of formatting: a side and an id

ASSUME SizeAssumption == SectorSize \in Nat \ {0}
ASSUME TransferAssumption ==
  /\ RMod \in Nat \ {0, 1}
  /\ Transfers \subseteq [mt : BOOLEAN, hd : {0, 1}, c : Nat, h : Nat,
                           r : 0 .. RMod - 1, eot : 0 .. RMod - 1]
ASSUME CylinderAssumption == Cylinders \subseteq Nat

VARIABLES
  fdc,                  \* the controller's variables
  asked,                \* history: the handlers this step put up: "FDC", "FDD"
  disturbed,            \* history: the transfer lost its disk, its order or a sector
  moved,                \* history: the bytes moved of the sector under way
  last                  \* history: the sector this step moved, or Blank

historyVars == <<disturbed, moved, last>>
vars == <<fdd, files, fdc, asked, historyVars>>

Bytes == 1 .. SectorSize
Block == [Bytes -> Byte]
Blank == << >>

(* What an image may hold: SectorSize of anything.                         *)
Sector(data) == data = [i \in Bytes |-> data[i]]

ASSUME DataAssumption ==
  /\ Sector(Fill)
  /\ \A f \in File : \A p \in DOMAIN Contents[f] : p = <<p[1], p[2]>> /\ Sector(Contents[f][p])

(* The commands, by what they do; the names with and without Deleted, and  *)
(* the three scans, are one.                                               *)
Data == {"ReadData", "ReadDiagnostic", "WriteData", "Scan"}
Command ==
  Data \union {"WriteID", "ReadID", "Seek", "Recalibrate", "Specify",
               "SenseDeviceStatus", "SenseIntStatus", "Version", "Invalid"}

(* CMD_TABLE and DAT_TABLE: whether a command has parameters and a result. *)
(* The bytes of the parameters count as one, and so do those of a result.  *)
CMD_TABLE(cmd) == IF cmd \in {"SenseIntStatus", "Version", "Invalid"} THEN 0 ELSE 1
DAT_TABLE(cmd) ==
  IF cmd \in Data \union {"WriteID", "ReadID", "SenseDeviceStatus", "SenseIntStatus", "Version"}
  THEN 1 ELSE 0

NoParameters == << >>
Parameters(cmd) ==
  CASE cmd \in Data -> Transfers
    [] cmd = "WriteID" -> Formats
    [] cmd = "ReadID" -> [hd : {0, 1}]
    [] cmd = "Seek" -> [n : Cylinders]
    [] OTHER -> {NoParameters}

FDC_Init ==
  [cmd |-> "Invalid", cyl |-> 0, drv |-> 0, ctrl |-> {}, eject |-> FALSE, wexec |-> FALSE,
   rdnum |-> 0, wrnum |-> 0, bufnum |-> 0, rdptr |-> 0, wrptr |-> 0,
   st0 |-> "ok", rsp |-> "ok", prm |-> NoParameters, buf |-> Blank]

Init ==
  /\ DriveInit
  /\ fdc = FDC_Init
  /\ asked = {} /\ disturbed = FALSE /\ moved = << >> /\ last = Blank

-----------------------------------------------------------------------------
(* The handlers work on s: the controller's variables, the drive selected  *)
(* and what was asked for.                                                 *)

(* FDD's functions refuse a drive number that is none.                     *)
NoDrive == Empty(FALSE, 0)
Selected == IF fdc.drv \in Drive THEN fdd[fdc.drv] ELSE NoDrive

FDC_SetInt(s) == [s EXCEPT !.asked = @ \union {"FDC"}]

Fails(s) == [s EXCEPT !.fdc.st0 = "error"]

(* Mutant of FDC_EPhaseEnd: the controller goes on taking bytes.           *)
FDC_EPhaseEnd_Writing(s) ==
  FDC_SetInt([s EXCEPT !.fdc = [@ EXCEPT !.rsp = s.fdc.st0, !.bufnum = 0, !.rdptr = 0]])

FDC_EPhaseEnd(s) ==
  FDC_SetInt([s EXCEPT !.fdc = [@ EXCEPT !.rsp = s.fdc.st0, !.bufnum = 0, !.rdptr = 0,
                                         !.wexec = FALSE]])

Track(s) == 2 * s.fdc.cyl + s.fdc.prm.hd
Id(s) == [c |-> s.fdc.prm.c, h |-> s.fdc.prm.h, r |-> s.fdc.prm.r]

(* A command of Data finds its track, and the sector it reads.             *)
Reaches(s) == FDD_IsReady(s.drive) /\ CanSeek(s.drive, Track(s))
Sought(s) == [s EXCEPT !.drive = FDD_Seek(@, Track(s))]
Starts(s, buf, wexec) ==
  [s EXCEPT !.fdc = [@ EXCEPT !.bufnum = SectorSize, !.buf = buf, !.wexec = wexec]]

ReadSector(s) ==
  LET t == Sought(s)
  IN  IF ~Reaches(s) THEN FDC_EPhaseEnd(Fails(s))
      ELSE IF ~CanRead(t.drive, Id(s)) THEN FDC_EPhaseEnd(Fails(t))
      ELSE IF s.fdc.cmd = "Scan" THEN Starts(t, s.fdc.buf, TRUE)
      ELSE Starts(t, t.drive.img[<<t.drive.trk, Id(s)>>], s.fdc.wexec)

(* Whichever sector of the track comes next: what it holds is left out.    *)
ReadAnySector(s) ==
  LET t == Sought(s)
  IN  IF ~Reaches(s) THEN FDC_EPhaseEnd(Fails(s))
      ELSE IF ~HasTrack(t.drive, Track(s)) THEN FDC_EPhaseEnd(Fails(t))
      ELSE Starts(t, Blank, s.fdc.wexec)

WriteSector(s) ==
  IF ~s.drive.ROnly /\ Reaches(s) THEN Starts(Sought(s), s.fdc.buf, TRUE)
  ELSE FDC_EPhaseEnd(Fails(s))

FormatTrack(s) ==
  IF ~s.drive.ROnly /\ FDD_IsReady(s.drive)
  THEN [s EXCEPT !.fdc = [@ EXCEPT !.bufnum = 1, !.wexec = TRUE]]
  ELSE FDC_EPhaseEnd(Fails(s))

(* The result is there at once.                                            *)
Answer(s, good) ==
  LET t == IF good THEN s ELSE Fails(s)
  IN  [t EXCEPT !.fdc.rsp = t.fdc.st0]

ReadID(s) ==
  LET t == IF Reaches(s) THEN Sought(s) ELSE s
  IN  FDC_SetInt(Answer(t, Reaches(s) /\ HasTrack(t.drive, Track(s))))

(* FDC_ExecCmd begins by clearing st0 in every command but Specify,        *)
(* SenseIntStatus and those it does not know.                              *)
FDC_ExecCmd(u) ==
  LET s == IF u.fdc.cmd \in {"Specify", "SenseIntStatus", "Version", "Invalid"} THEN u
           ELSE [u EXCEPT !.fdc.st0 = "ok"]
  IN  CASE s.fdc.cmd \in {"ReadData", "Scan"} -> ReadSector(s)
        [] s.fdc.cmd = "ReadDiagnostic" -> ReadAnySector(s)
        [] s.fdc.cmd = "WriteData" -> WriteSector(s)
        [] s.fdc.cmd = "WriteID" -> FormatTrack(s)
        [] s.fdc.cmd = "ReadID" -> ReadID(s)
        [] s.fdc.cmd = "SenseDeviceStatus" -> [s EXCEPT !.fdc.rsp = "ok"]
        [] s.fdc.cmd = "SenseIntStatus" -> [s EXCEPT !.fdc.rsp = s.fdc.st0, !.fdc.st0 = "ok"]
        [] s.fdc.cmd = "Recalibrate" ->
             LET t == [s EXCEPT !.fdc.cyl = 0]
             IN  FDC_SetInt(IF FDD_IsReady(s.drive) /\ s.fdc.drv < 2 THEN t ELSE Fails(t))
        [] s.fdc.cmd = "Seek" ->
             FDC_SetInt(IF FDD_IsReady(s.drive) THEN [s EXCEPT !.fdc.cyl = s.fdc.prm.n]
                        ELSE Fails(s))
        [] OTHER -> s

(* Mutant of FDC_NextTrack: the last sector is not reached.                *)
FDC_NextTrack_Short(s) ==
  LET p == s.fdc.prm
      next == [p EXCEPT !.r = (@ + 1) % RMod]
      side == [p EXCEPT !.hd = 1, !.h = 1, !.r = 1]
  IN  CASE p.r + 1 < p.eot -> FDC_ExecCmd([s EXCEPT !.fdc.prm = next])
        [] p.r = p.eot /\ p.mt /\ p.hd = 0 /\ p.h = 0 -> FDC_ExecCmd([s EXCEPT !.fdc.prm = side])
        [] OTHER -> FDC_EPhaseEnd(s)

(* Mutant of FDC_NextTrack: the second side is read again and again.       *)
FDC_NextTrack_Again(s) ==
  LET p == s.fdc.prm
      next == [p EXCEPT !.r = (@ + 1) % RMod]
      side == [p EXCEPT !.hd = 1, !.h = 1, !.r = 1]
  IN  CASE p.r # p.eot -> FDC_ExecCmd([s EXCEPT !.fdc.prm = next])
        [] p.r = p.eot /\ p.mt -> FDC_ExecCmd([s EXCEPT !.fdc.prm = side])
        [] OTHER -> FDC_EPhaseEnd(s)

(* The next sector, the first one of the second side, or the end.          *)
FDC_NextTrack(s) ==
  LET p == s.fdc.prm
      next == [p EXCEPT !.r = (@ + 1) % RMod]
      side == [p EXCEPT !.hd = 1, !.h = 1, !.r = 1]
  IN  CASE p.r # p.eot -> FDC_ExecCmd([s EXCEPT !.fdc.prm = next])
        [] p.r = p.eot /\ p.mt /\ p.hd = 0 /\ p.h = 0 -> FDC_ExecCmd([s EXCEPT !.fdc.prm = side])
        [] OTHER -> FDC_EPhaseEnd(s)

(* FDC_WriteBuffer: what may come of a full buffer.  A write that fails    *)
(* asks for the CPU and leaves the execution phase as it is; a scan that   *)
(* finds a difference ends, and goes on.                                   *)
FDC_WriteBuffer(s) ==
  CASE s.fdc.cmd = "WriteData" ->
         {IF w.ok THEN FDC_NextTrack([s EXCEPT !.drive = w.drive])
          ELSE FDC_SetInt([Fails(s) EXCEPT !.drive = w.drive]) :
            w \in FDD_Write(s.drive, Id(s), s.fdc.buf)}
    [] s.fdc.cmd = "WriteID" ->
         {FDC_EPhaseEnd([(IF CanFormat(s.drive) THEN s ELSE Fails(s)) EXCEPT
            !.drive = FDD_WriteID(@, Track(s), s.fdc.prm.id)])}
    [] s.fdc.cmd = "Scan" ->
         {FDC_NextTrack(s), FDC_NextTrack(FDC_EPhaseEnd(Fails(s)))}
    [] OTHER -> {s}

-----------------------------------------------------------------------------
(* What a handler leaves.  The parameters, the buffer and the track of the *)
(* drive are kept while a transfer uses them, the command until it is      *)
(* done, the result until it is read: each is set again before it is used. *)
Executing(f) == f.bufnum # 0

Kept(f) ==
  [f EXCEPT !.prm = IF Executing(f) THEN @ ELSE NoParameters,
            !.buf = IF Executing(f) THEN @ ELSE Blank,
            !.rdptr = IF Executing(f) THEN @ ELSE 0,
            !.wrptr = IF Executing(f) THEN @ ELSE 0,
            !.cmd = IF Executing(f) \/ f.wrnum # 0 THEN @ ELSE "Invalid",
            !.rsp = IF ~Executing(f) /\ f.rdnum # 0 THEN @ ELSE "ok"]

Leave(s) ==
  /\ fdc' = Kept(s.fdc)
  /\ fdd' = [d \in Drive |->
               IF d # fdc.drv THEN fdd[d]
               ELSE [s.drive EXCEPT !.trk = IF Executing(s.fdc) THEN @ ELSE Unknown]]
  /\ asked' = s.asked
  /\ UNCHANGED files

State(f) == [fdc |-> f, drive |-> Selected, asked |-> {}]

(* The history of a step that moves no byte of a transfer.                 *)
Elsewhere(disturbs) ==
  /\ disturbed' = (Executing(fdc') /\ (disturbed \/ (Executing(fdc) /\ disturbs)))
  /\ moved' = (IF Executing(fdc') THEN moved ELSE << >>)
  /\ last' = Blank

(* The history of a byte of a transfer.  A write that fails spoils what    *)
(* follows: the controller still takes bytes.                              *)
Moves(byte) ==
  LET whole == Len(moved) + 1 = SectorSize
  IN  /\ disturbed' = (Executing(fdc') /\ (disturbed \/ (whole /\ fdc'.st0 = "error")))
      /\ moved' = (IF whole \/ ~Executing(fdc') THEN << >> ELSE Append(moved, byte))
      /\ last' = (IF whole /\ ~disturbed /\ fdc.cmd \in {"ReadData", "WriteData"}
                  THEN Append(moved, byte) ELSE Blank)

-----------------------------------------------------------------------------
(* The data port.                                                          *)

Reads == fdc.cmd \in {"ReadData", "ReadDiagnostic"}

(* FDC_Read while the buffer holds something.  The port does not know the  *)
(* direction: a program that reads during a write skips a sector.  Reading *)
(* while a track is formatted, which would take the parameters for those   *)
(* of a transfer, is left out.                                             *)
ReadPort ==
  /\ Executing(fdc) /\ fdc.cmd # "WriteID"
  /\ LET f == [fdc EXCEPT !.rdptr = @ + 1]
     IN  Leave(IF f.rdptr >= f.bufnum THEN FDC_NextTrack(State([f EXCEPT !.rdptr = 0]))
               ELSE State(f))
  /\ IF Reads /\ fdc.buf # Blank THEN Moves(fdc.buf[fdc.rdptr + 1]) ELSE Elsewhere(~Reads)

ReadResult ==
  /\ ~Executing(fdc) /\ fdc.rdnum # 0
  /\ Leave(State([fdc EXCEPT !.rdptr = @ + 1, !.rdnum = @ - 1]))
  /\ Elsewhere(FALSE)

(* Mutant of Store: the buffer is not started over.                        *)
Store_NoReset(f, s) == s

(* FDC_Write after FDC_WriteBuffer: the buffer starts over.                *)
Store(f, s) == [s EXCEPT !.fdc.wrptr = 0]

(* A program that writes during a read changes what it will be given.      *)
Overwritten(byte) ==
  IF fdc.buf = Blank THEN Blank ELSE [fdc.buf EXCEPT ![fdc.wrptr + 1] = byte]

(* FDC_Write of a byte of the execution phase.                             *)
WritePort(byte) ==
  /\ Executing(fdc)
  /\ LET f == [fdc EXCEPT !.wrptr = @ + 1,
                          !.buf = IF Reads THEN Overwritten(byte)
                                  ELSE IF fdc.wrptr = 0 THEN <<byte>> ELSE Append(@, byte)]
     IN  IF f.wrptr >= f.bufnum
         THEN \E s \in FDC_WriteBuffer(State(f)) : Leave(Store(f, s))
         ELSE Leave(State(f))
  /\ IF fdc.cmd = "WriteData" THEN Moves(byte) ELSE Elsewhere(Reads)

Executed(f, prm) ==
  FDC_ExecCmd(State([f EXCEPT !.prm = prm, !.rdnum = DAT_TABLE(f.cmd)]))

(* FDC_Write of a command's first byte, and of its parameters.             *)
StartCommand(cmd) ==
  /\ ~Executing(fdc) /\ fdc.wrnum = 0
  /\ LET f == [fdc EXCEPT !.cmd = cmd, !.rdptr = 0, !.rdnum = 0, !.wrnum = CMD_TABLE(cmd)]
     IN  Leave(IF f.wrnum = 0 THEN Executed(f, NoParameters) ELSE State(f))
  /\ Elsewhere(FALSE)

WriteParameters ==
  /\ ~Executing(fdc) /\ fdc.wrnum # 0
  /\ \E prm \in Parameters(fdc.cmd) : Leave(Executed([fdc EXCEPT !.wrnum = 0], prm))
  /\ Elsewhere(FALSE)

-----------------------------------------------------------------------------
(* The other ports, and the world outside.                                 *)

(* FDC_Write of the drive to use.                                          *)
SelectDrive(d) ==
  /\ fdc' = [fdc EXCEPT !.drv = d]
  /\ asked' = {}
  /\ Elsewhere(d # fdc.drv)
  /\ UNCHANGED <<fdd, files>>

(* FDC_Write of the drive control: the lines that fall take their disks    *)
(* out if the eject bit was set before.  The bit is kept while a line is   *)
(* up that may fall.                                                       *)
DriveControl(lines, eject) ==
  LET out == IF fdc.eject THEN fdc.ctrl \ lines ELSE {}
  IN  /\ \E opens \in SUBSET Holding(out) : FDD_EjectFD(out, opens)
      /\ fdc' = [fdc EXCEPT !.ctrl = lines, !.eject = eject /\ lines # {}]
      /\ asked' = (IF Holding(out) = {} THEN {} ELSE {"FDD"})
      /\ Elsewhere(fdc.drv \in out)

(* The frontend and the menu.                                              *)
EjectDisk(d) ==
  /\ \E opens \in SUBSET Holding({d}) : FDD_EjectFD({d}, opens)
  /\ asked' = (IF Holding({d}) = {} THEN {} ELSE {"FDD"})
  /\ UNCHANGED fdc
  /\ Elsewhere(fdc.drv = d)

InsertDisk(d, f) ==
  /\ \E opens \in SUBSET Holding({d}), loads \in BOOLEAN : FDD_SetFD(d, f, opens, loads)
  /\ asked' = (IF Holding({d}) = {} THEN {} ELSE {"FDD"})
  /\ UNCHANGED fdc
  /\ Elsewhere(fdc.drv = d)

(* Mutant of Frame: nobody is told of a disk that is ready.                *)
Frame_Silent ==
  /\ FDD_SetFDInt
  /\ asked' = {}
  /\ UNCHANGED fdc
  /\ Elsewhere(FALSE)

Frame ==
  /\ FDD_SetFDInt
  /\ asked' = (IF Arriving = {} THEN {} ELSE {"FDD"})
  /\ UNCHANGED fdc
  /\ Elsewhere(FALSE)

(* WinX68k_Reset: the disks stay.                                          *)
Reset ==
  /\ fdc' = FDC_Init
  /\ fdd' = [d \in Drive |-> [fdd[d] EXCEPT !.trk = Unknown]]
  /\ asked' = {}
  /\ Elsewhere(FALSE)
  /\ UNCHANGED files

Next ==
  \/ ReadPort
  \/ ReadResult
  \/ \E byte \in Byte : WritePort(byte)
  \/ \E cmd \in Command : StartCommand(cmd)
  \/ WriteParameters
  \/ \E d \in Drive \union {-1} : SelectDrive(d)
  \/ \E lines \in SUBSET Drive, eject \in BOOLEAN : DriveControl(lines, eject)
  \/ \E d \in Drive : EjectDisk(d)
  \/ \E d \in Drive, f \in File : InsertDisk(d, f)
  \/ Frame
  \/ Reset

Spec == Init /\ [][Next]_vars

-----------------------------------------------------------------------------
(* The variables stay in their ranges: no pointer leaves its buffer, the   *)
(* direction says write only while something is to be written.             *)
TypeOK ==
  /\ fdc.cmd \in Command /\ fdc.cyl \in Cylinders \union {0}
  /\ fdc.drv \in Drive \union {-1, 0} /\ fdc.ctrl \subseteq Drive
  /\ fdc.bufnum \in {0, 1, SectorSize} /\ fdc.rdnum \in {0, 1} /\ fdc.wrnum \in {0, 1}
  /\ Executing(fdc) =>
       /\ fdc.rdptr \in 0 .. fdc.bufnum - 1 /\ fdc.wrptr \in 0 .. fdc.bufnum - 1
       /\ fdc.wrnum = 0 /\ fdc.rdnum = 1
  /\ fdc.wexec => Executing(fdc)
  /\ fdc.st0 \in {"ok", "error"} /\ fdc.rsp \in {"ok", "error"}
  /\ \A d \in Drive : fdd[d].file \in File \union {NoFile} /\ fdd[d].SetDelay \in 0 .. Ready
  /\ asked \subseteq {"FDC", "FDD"}

(* Byte by byte a transfer moves the sectors it names, in their order, to  *)
(* the end of the track and on to the second side; it stops early only     *)
(* with an error in its result; a write touches no other sector.  Nothing  *)
(* is promised once the disk, the drive or the direction is changed.       *)
Transferring ==
  Executing(fdc) /\ fdc.cmd \in {"ReadData", "WriteData"} /\ ~disturbed

UpTo(first, final) ==
  [i \in 1 .. ((final - first) % RMod) + 1 |-> (first + i - 1) % RMod]

Place(cyl, hd, c, h, r) == <<2 * cyl + hd, [c |-> c, h |-> h, r |-> r]>>
Places(cyl, hd, c, h, rs) == [i \in 1 .. Len(rs) |-> Place(cyl, hd, c, h, rs[i])]

Remaining(cyl, p) ==
  Places(cyl, p.hd, p.c, p.h, UpTo(p.r, p.eot))
    \o IF p.mt /\ p.hd = 0 /\ p.h = 0 THEN Places(cyl, 1, p.c, 1, UpTo(1, p.eot)) ELSE << >>

SectorsLeft == Remaining(fdc.cyl, fdc.prm)

Device == INSTANCE BlockDevice WITH
  disk <- Selected.img,
  job <- IF Transferring
         THEN [kind |-> IF fdc.cmd = "ReadData" THEN "read" ELSE "write",
               todo |-> SectorsLeft]
         ELSE [kind |-> "idle", todo |-> << >>],
  missing <- FALSE,
  error <- "error" = IF Executing(fdc) THEN fdc.st0 ELSE fdc.rsp
MovesSectors == Device!Spec

(* The end of an execution phase is reported: the CPU is asked, the result *)
(* is there to be read, and the direction is turned.                       *)
EndIsReported ==
  [][Executing(fdc) /\ ~Executing(fdc') /\ fdc' # FDC_Init =>
       "FDC" \in asked' /\ fdc'.rdnum = 1 /\ ~fdc'.wexec]_vars

(* A drive that becomes ready, or no longer is, is announced.              *)
ChangeIsAnnounced ==
  [][\A d \in Drive : FDD_IsReady(fdd'[d]) # FDD_IsReady(fdd[d]) => "FDD" \in asked']_vars

(* No sequence of writes, formats and changes of disk changes the file of  *)
(* a protected disk.                                                       *)
ProtectedUnchanged == \A f \in Protected : files[f] = Contents[f]

(* Reading comes to an end, whatever is read and whatever happens to the   *)
(* disk: each byte brings the end nearer.                                  *)
BytesLeft == IF Executing(fdc) THEN SectorSize * Len(SectorsLeft) - fdc.rdptr ELSE 0
Progress == <<fdc.rdptr, fdc.prm, fdc.bufnum>>
ReadsShrink ==
  [][Executing(fdc) /\ Reads /\ Progress' # Progress => BytesLeft' < BytesLeft]_vars

=============================================================================
