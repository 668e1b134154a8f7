-------------------------------- MODULE SASI --------------------------------
(***************************************************************************)
(* The SASI controller (x68k/sasi.c): bus phases, commands, the transfer   *)
(* of blocks byte by byte between the program and an image file, the sense *)
(* data and the interrupt of the status phase.                             *)
(*                                                                         *)
(* A file may fail to open, to seek, to be read or to be written at any    *)
(* time; the menu may give a drive an image and take it away.  The bytes   *)
(* of a command are its operation, its unit, a block and a count; a count  *)
(* of blocks has CountMod values where the code has 2^32.                  *)
(***************************************************************************)
EXTENDS Integers, SequencesExt

CONSTANTS
  Target,               \* the devices selected by a bit
  Nowhere,              \* the device selected by none: 0x7f
  Drive,                \* the pairs of device and unit the menu gives images
  Byte,                 \* what a byte may hold, 0 among them
  BlockSize,            \* bytes of a block: 256
  CountMod,             \* counts of blocks
  MaxFirst,             \* bound: the block a command names
  MaxBlocks             \* bound: the blocks the file can grow to

ASSUME ByteAssumption == 0 \in Byte
ASSUME SizeAssumption == BlockSize \in Nat \ {0} /\ CountMod \in Nat \ {0, 1}
ASSUME BoundAssumption == MaxFirst \in Nat /\ MaxBlocks \in Nat \ {0}
ASSUME TargetAssumption == Nowhere \notin Target /\ Drive \subseteq Target \X {0, 1}

VARIABLES
  sasi,                 \* the controller's variables, without SASI_ in front
  HDImage,              \* the drives that have an image
  image,                \* the blocks of the file behind them
  IntEnable, IntStat,   \* SASI's two bits in IOC_IntStat
  asked,                \* history: this step asked for the CPU
  moved,                \* history: the bytes moved of the block under way
  last                  \* history: the block this step moved, or Blank

iocVars == <<IntEnable, IntStat>>
historyVars == <<moved, last, asked>>
vars == <<sasi, HDImage, image, iocVars, historyVars>>

Bytes == 1 .. BlockSize
Block == [Bytes -> Byte]
Blank == [i \in Bytes |-> 0]

Unmoved == moved' = moved /\ last' = Blank

(* A step of anything but the data port.                                   *)
Elsewhere == Unmoved /\ asked' = FALSE

(* The values of `found': what the last SASI_Seek returned; a history.     *)
SeekResult == {-1, 0, 1}

BusFree ==
  [Phase |-> 0, Sector |-> 0, Blocks |-> 0, CmdPtr |-> 0, Device |-> 0, Unit |-> 0,
   BufPtr |-> 0, RW |-> 0, Stat |-> 0, Error |-> 0, SenseStatPtr |-> 0,
   Buf |-> Blank, found |-> 1]

Init ==
  /\ sasi = BusFree
  /\ HDImage \in SUBSET Drive
  /\ image \in UNION {[1 .. n -> Block] : n \in 1 .. MaxBlocks}
  /\ IntEnable = FALSE /\ IntStat = FALSE
  /\ moved = << >> /\ last = Blank /\ asked = FALSE

(* The commands, by the meaning of their bytes.  What the sense data hold, *)
(* the error and the block, is left out.                                   *)
Command ==
  [op : {"ready", "recalibrate", "seek", "sense", "format", "unit", "unknown"},
   unit : {0, 1}]
  \union [op : {"read", "write"}, unit : {0, 1}, sector : 0 .. MaxFirst,
          blocks : 0 .. CountMod - 1]

-----------------------------------------------------------------------------
(* The image file.                                                         *)

(* Whether the drive selected has an image.  The place of the device 0x7f  *)
(* lies outside the table: anything may be there, but no file's name.      *)
HasImage(s) ==
  IF s.Device = Nowhere THEN BOOLEAN ELSE {(<<s.Device, s.Unit>> \in HDImage)}

(* What SASI_Seek may return, and the buffer it leaves.                    *)
Found(s) ==
  IF <<s.Device, s.Unit>> \notin HDImage THEN {-1}
  ELSE {-1, 0} \union (IF s.Sector < Len(image) THEN {1} ELSE {})

SASI_Seek(s, found) ==
  [s EXCEPT !.found = found, !.Buf = IF found = 1 THEN image[s.Sector + 1] ELSE Blank]

(* The file with a block written, longer if the block lies behind its end. *)
Written(n, block) ==
  [i \in 1 .. (IF n < Len(image) THEN Len(image) ELSE n + 1) |->
     IF i = n + 1 THEN block ELSE IF i <= Len(image) THEN image[i] ELSE Blank]

(* SASI_Flush, whose result nobody looks at.                               *)
SASI_Flush(s, stores) ==
  image' = IF stores /\ <<s.Device, s.Unit>> \in HDImage /\ s.Sector < MaxBlocks
           THEN Written(s.Sector, s.Buf) ELSE image

-----------------------------------------------------------------------------
(* The bus.                                                                *)

(* What a transfer, a command and the sense data leave in their variables  *)
(* is written again before anything but the sense data reads it: it is not *)
(* kept.                                                                   *)
Kept(s) ==
  LET t == IF s.Phase = 3 THEN s
           ELSE [s EXCEPT !.Sector = 0, !.Blocks = 0, !.BufPtr = 0, !.RW = 0,
                          !.Buf = Blank, !.found = 1]
      u == IF s.Phase \in {9, 10} THEN t ELSE [t EXCEPT !.SenseStatPtr = 0]
  IN  IF s.Phase = 3 THEN u ELSE [u EXCEPT !.Unit = 0]

(* The end of SASI_Read and SASI_Write at the data port.                   *)
Access(s) ==
  /\ sasi' = Kept(s)
  /\ IntStat' = (IntStat \/ s.Phase = 4)
  /\ asked' = (s.Phase = 4 /\ IntEnable)
  /\ UNCHANGED <<HDImage, IntEnable>>

(* Mutant of NextBlock: the block stays the same.                          *)
NextBlock_NoAdvance(s, found) ==
  LET counted == [s EXCEPT !.Blocks = (@ - 1) % CountMod]
      sought  == SASI_Seek([counted EXCEPT !.BufPtr = 0], found)
  IN  IF counted.Blocks = 0 THEN [counted EXCEPT !.Phase = 4]
      ELSE IF found = 0 THEN [sought EXCEPT !.Error = 15, !.Phase = 4]
      ELSE sought

(* Mutant of NextBlock: the pointer into the buffer is not reset.          *)
NextBlock_KeepsPointer(s, found) ==
  LET counted == [s EXCEPT !.Blocks = (@ - 1) % CountMod]
      sought  == SASI_Seek([counted EXCEPT !.Sector = @ + 1], found)
  IN  IF counted.Blocks = 0 THEN [counted EXCEPT !.Phase = 4]
      ELSE IF found = 0 THEN [sought EXCEPT !.Error = 15, !.Phase = 4]
      ELSE sought

(* A block is complete: the next one is fetched, or the status follows.    *)
NextBlock(s, found) ==
  LET counted == [s EXCEPT !.Blocks = (@ - 1) % CountMod]
      sought  == SASI_Seek([counted EXCEPT !.Sector = @ + 1, !.BufPtr = 0], found)
  IN  IF counted.Blocks = 0 THEN [counted EXCEPT !.Phase = 4]
      ELSE IF found = 0 THEN [sought EXCEPT !.Error = 15, !.Phase = 4]
      ELSE sought

(* The history of a byte that moves.                                       *)
Moves(byte) ==
  IF Len(moved) + 1 = BlockSize
  THEN last' = Append(moved, byte) /\ moved' = << >>
  ELSE moved' = Append(moved, byte) /\ last' = Blank

(* SASI_Read of the data port, by phase.                                   *)
ReadData ==
  /\ sasi.Phase = 3 /\ sasi.RW = 1
  /\ LET s == [sasi EXCEPT !.BufPtr = @ + 1]
     IN  IF s.BufPtr = BlockSize
         THEN \E found \in Found([s EXCEPT !.Sector = @ + 1]) : Access(NextBlock(s, found))
         ELSE Access(s)
  /\ Moves(sasi.Buf[sasi.BufPtr + 1])
  /\ UNCHANGED image

ReadStatus ==
  /\ sasi.Phase = 4
  /\ Access([sasi EXCEPT !.Phase = 5])
  /\ Unmoved /\ UNCHANGED image

ReadMessage ==
  /\ sasi.Phase = 5
  /\ Access([sasi EXCEPT !.Phase = 0])
  /\ Unmoved /\ UNCHANGED image

(* Mutant of ReadSense: the sense data begins anew.                        *)
ReadSense_StartsOver ==
  /\ sasi.Phase = 9
  /\ LET s == [sasi EXCEPT !.SenseStatPtr = (@ + 1) % 4]
     IN  Access(IF s.SenseStatPtr = 0 THEN [s EXCEPT !.Error = 0] ELSE s)
  /\ Unmoved /\ UNCHANGED image

ReadSense ==
  /\ sasi.Phase = 9
  /\ LET s == [sasi EXCEPT !.SenseStatPtr = @ + 1]
     IN  Access(IF s.SenseStatPtr = 4 THEN [s EXCEPT !.Error = 0, !.Phase = 4] ELSE s)
  /\ Unmoved /\ UNCHANGED image

-----------------------------------------------------------------------------
(* SASI_CheckCmd.                                                          *)

(* The commands that only look whether the drive has an image.             *)
Checked(s, present) ==
  IF present THEN [s EXCEPT !.Stat = 0] ELSE [s EXCEPT !.Stat = 2, !.Error = 127]

Transfer(s, command, found) ==
  LET begun == [s EXCEPT !.Sector = command.sector, !.Blocks = command.blocks,
                         !.Phase = 3, !.RW = IF command.op = "read" THEN 1 ELSE 0,
                         !.BufPtr = 0, !.Stat = 0]
  IN  [SASI_Seek(begun, found) EXCEPT !.Error = IF found = 1 THEN @ ELSE 15]

Sensed(s) ==
  [s EXCEPT !.Error = 0, !.Phase = 9, !.Stat = 0, !.SenseStatPtr = 0]

SASI_CheckCmd(s, command) ==
  CASE command.op \in {"ready", "recalibrate", "seek"} ->
         {[Checked(s, present) EXCEPT !.Phase = 4] : present \in HasImage(s)}
    [] command.op = "sense" -> {Sensed(s)}
    [] command.op = "format" -> {[s EXCEPT !.Phase = 4, !.Stat = 0]}
    [] command.op = "unit" ->
         {[Checked(s, present) EXCEPT !.Phase = 10, !.SenseStatPtr = 0] : present \in HasImage(s)}
    [] command.op = "unknown" -> {[s EXCEPT !.Phase = 4]}
    [] OTHER -> {Transfer(s, command, found) :
                   found \in Found([s EXCEPT !.Sector = command.sector])}

-----------------------------------------------------------------------------
(* SASI_Write.                                                             *)

(* A device answers if one of its units has an image.  No device at all is *)
(* number 0x7f, whose place lies outside the table of images.              *)
Select(device, any) ==
  /\ sasi.Phase = 0
  /\ sasi' = IF any THEN [sasi EXCEPT !.Device = device, !.Phase = 1, !.CmdPtr = 0]
             ELSE [sasi EXCEPT !.Device = device]
  /\ Elsewhere /\ UNCHANGED <<HDImage, image, iocVars>>

Answers(device) ==
  IF device = Nowhere THEN BOOLEAN
  ELSE {\E unit \in {0, 1} : <<device, unit>> \in HDImage}

EndSelection ==
  /\ sasi.Phase = 1
  /\ sasi' = [sasi EXCEPT !.Phase = 2]
  /\ Elsewhere /\ UNCHANGED <<HDImage, image, iocVars>>

(* The reset register, or SASI_Init when the machine is reset with the I/O *)
(* controller and the interrupt handler.                                   *)
Reset(machine) ==
  /\ sasi' = BusFree
  /\ moved' = << >> /\ last' = Blank /\ asked' = FALSE
  /\ IF machine THEN IntEnable' = FALSE /\ IntStat' = FALSE
     ELSE UNCHANGED iocVars
  /\ UNCHANGED <<HDImage, image>>

WriteCommand(command) ==
  /\ sasi.Phase = 2
  /\ LET s == [sasi EXCEPT !.CmdPtr = @ + 1]
     IN  IF s.CmdPtr = 6
         THEN \E t \in SASI_CheckCmd([s EXCEPT !.Unit = command.unit], command) : Access(t)
         ELSE Access(s)
  /\ Unmoved /\ UNCHANGED image

WriteData(byte) ==
  /\ sasi.Phase = 3 /\ sasi.RW = 0
  /\ LET s == [sasi EXCEPT !.Buf = [@ EXCEPT ![sasi.BufPtr + 1] = byte], !.BufPtr = @ + 1]
     IN  IF s.BufPtr = BlockSize
         THEN \E stores \in BOOLEAN, found \in {-1, 0, 1} :
                /\ SASI_Flush(s, stores)
                /\ found \in Found([s EXCEPT !.Sector = @ + 1])
                /\ Access(NextBlock(s, found))
         ELSE Access(s) /\ UNCHANGED image
  /\ Moves(byte)

(* Mutant of WriteUnit: the status phase is not announced.                 *)
WriteUnit_Silent ==
  /\ sasi.Phase = 10
  /\ sasi' = [sasi EXCEPT !.SenseStatPtr = @ + 1,
                          !.Phase = IF sasi.SenseStatPtr = 9 THEN 4 ELSE 10]
  /\ Elsewhere /\ UNCHANGED <<HDImage, image, iocVars>>

(* The ten bytes after command 0xc2.                                       *)
WriteUnit ==
  /\ sasi.Phase = 10
  /\ LET s == [sasi EXCEPT !.SenseStatPtr = @ + 1]
     IN  Access(IF s.SenseStatPtr = 10 THEN [s EXCEPT !.Phase = 4] ELSE s)
  /\ Unmoved /\ UNCHANGED image

(* A write to the data port in any other phase, as in the status phase.    *)
WriteElsewhere ==
  /\ sasi.Phase \in {0, 1, 4, 5, 9} \/ (sasi.Phase = 3 /\ sasi.RW = 1)
  /\ Access(sasi)
  /\ Unmoved /\ UNCHANGED image

-----------------------------------------------------------------------------
(* IOC_Write of the enable, and the menu.                                  *)
IOC_Write(enable) ==
  /\ IntEnable' = enable
  /\ Elsewhere /\ UNCHANGED <<sasi, HDImage, image, IntStat>>

ChooseImages(drives) ==
  /\ HDImage' = drives
  /\ Elsewhere /\ UNCHANGED <<sasi, image, iocVars>>

(* A program that does what the bus asks for.                              *)
FollowsBus ==
  \/ EndSelection
  \/ \E command \in Command : WriteCommand(command)
  \/ \E byte \in Byte : WriteData(byte)
  \/ WriteUnit
  \/ ReadData \/ ReadSense \/ ReadStatus \/ ReadMessage

Next ==
  \/ \E device \in Target \union {Nowhere} : \E any \in Answers(device) : Select(device, any)
  \/ FollowsBus
  \/ WriteElsewhere
  \/ \E machine \in BOOLEAN : Reset(machine)
  \/ \E enable \in BOOLEAN : IOC_Write(enable)
  \/ \E drives \in SUBSET Drive : ChooseImages(drives)

Spec == Init /\ [][Next]_vars /\ WF_vars(FollowsBus)

-----------------------------------------------------------------------------
(* The variables stay in their ranges: no pointer leaves its buffer.       *)
TypeOK ==
  /\ sasi.Phase \in {0, 1, 2, 3, 4, 5, 9, 10}
  /\ sasi.Sector \in Nat /\ sasi.Blocks \in 0 .. CountMod - 1
  /\ sasi.CmdPtr \in 0 .. 6 /\ (sasi.Phase = 2 => sasi.CmdPtr < 6)
  /\ sasi.Device \in Target \union {0, Nowhere} /\ sasi.Unit \in {0, 1}
  /\ sasi.BufPtr \in 0 .. BlockSize /\ (sasi.Phase = 3 => sasi.BufPtr < BlockSize)
  /\ sasi.RW \in {0, 1} /\ sasi.Stat \in {0, 2} /\ sasi.Error \in {0, 15, 127}
  /\ sasi.SenseStatPtr \in 0 .. 10
  /\ sasi.Phase = 9 => sasi.SenseStatPtr < 4
  /\ sasi.Phase = 10 => sasi.SenseStatPtr < 10
  /\ sasi.Buf \in Block /\ sasi.found \in SeekResult
  /\ HDImage \subseteq Drive /\ image \in Seq(Block)
  /\ IntEnable \in BOOLEAN /\ IntStat \in BOOLEAN /\ asked \in BOOLEAN
  /\ moved \in Seq(Byte) /\ last \in Block

(* Byte by byte the controller moves the blocks a command names, in order, *)
(* as many as it says; it stops early only when the status will say so,    *)
(* and a write changes no other block of the file.                         *)
Transferring == sasi.Phase = 3
BlocksLeft == IF sasi.Blocks = 0 THEN CountMod ELSE sasi.Blocks
Device == INSTANCE BlockDevice WITH
  disk <- [n \in 0 .. Len(image) - 1 |-> image[n + 1]],
  job <- IF Transferring
         THEN [kind |-> IF sasi.RW = 1 THEN "read" ELSE "write",
               todo |-> [i \in 1 .. BlocksLeft |-> sasi.Sector + i - 1]]
         ELSE [kind |-> "idle", todo |-> << >>],
  missing <- Transferring /\ sasi.RW = 1 /\ sasi.found # 1,
  error <- sasi.Error # 0 \/ sasi.Stat # 0
MovesBlocks == Device!Spec

(* Every status phase is announced: its bit is set in the I/O controller,  *)
(* and the CPU is asked if the program enabled it.                         *)
StatusIsAnnounced ==
  [][sasi'.Phase = 4 /\ sasi.Phase # 4 => IntStat' /\ (IntEnable => asked')]_vars

(* A program that does what the bus asks for is brought back to bus free.  *)
ReturnsToBusFree == sasi.Phase # 0 ~> sasi.Phase = 0

=============================================================================
