----------------------------- MODULE SASIProofs -----------------------------
(* The controller moves whole blocks, announces its status and keeps its  *)
(* pointers in range, for every block size, number of blocks and file.     *)
EXTENDS SASI, SequenceTheorems, TLAPS

(* The states of the controller.                                           *)
States == [Phase : {0, 1, 2, 3, 4, 5, 9, 10}, Sector : Nat, Blocks : 0 .. CountMod - 1,
           CmdPtr : 0 .. 6, Device : Target \union {0, Nowhere}, Unit : {0, 1},
           BufPtr : 0 .. BlockSize, RW : {0, 1}, Stat : {0, 2}, Error : {0, 15, 127},
           SenseStatPtr : 0 .. 10, Buf : Block, found : SeekResult]

(* The pointers that a phase counts are inside what they point into.       *)
Pointers(s) ==
  /\ s.Phase \in {1, 2} => s.CmdPtr < 6
  /\ s.Phase = 3 => s.BufPtr < BlockSize
  /\ s.Phase = 9 => s.SenseStatPtr < 4
  /\ s.Phase = 10 => s.SenseStatPtr < 10

(* A blank buffer is a block.                                              *)
LEMMA BlankTyped == Blank \in Block
  BY ByteAssumption DEF Blank, Block

(* The controller after a reset.                                           *)
LEMMA BusFreeTyped == BusFree \in States /\ Pointers(BusFree)
<1>1. 0 \in 0 .. CountMod - 1 /\ 0 \in 0 .. BlockSize /\ 1 \in SeekResult
  BY SizeAssumption DEF SeekResult
<1> QED
  BY <1>1, BlankTyped DEF BusFree, States, Pointers

(* What a SASI_Seek leaves: the block at the place, or a blank one.        *)
Sought(s) ==
  /\ s.found = 1 => s.Sector < Len(image)
  /\ s.Buf = IF s.found = 1 THEN image[s.Sector + 1] ELSE Blank

(* A seek that finds a block finds one of the file.                        *)
LEMMA FoundHere ==
  ASSUME image \in Seq(Block), NEW s \in States, NEW f \in Found(s)
  PROVE  /\ f \in SeekResult
         /\ f = 1 => s.Sector < Len(image) /\ image[s.Sector + 1] \in Block
<1>1. f \in SeekResult
  BY DEF Found, SeekResult
<1>2. ASSUME f = 1 PROVE s.Sector < Len(image)
  BY <1>2 DEF Found
<1>3. ASSUME s.Sector < Len(image) PROVE image[s.Sector + 1] \in Block
  <2>1. s.Sector + 1 \in 1 .. Len(image)
    BY <1>3 DEF States
  <2> QED
    BY <2>1
<1> QED
  BY <1>1, <1>2, <1>3

(* A seek changes its result and the buffer.                               *)
LEMMA SeekTyped ==
  ASSUME NEW s \in States, NEW f \in SeekResult, f = 1 => image[s.Sector + 1] \in Block
  PROVE  LET t == SASI_Seek(s, f)
         IN  /\ t \in States
             /\ t.found = f
             /\ t.Buf = IF f = 1 THEN image[s.Sector + 1] ELSE Blank
             /\ t.Phase = s.Phase /\ t.Stat = s.Stat /\ t.Error = s.Error /\ t.RW = s.RW
             /\ t.Sector = s.Sector /\ t.BufPtr = s.BufPtr /\ t.Blocks = s.Blocks
             /\ t.CmdPtr = s.CmdPtr
<1> DEFINE block == IF f = 1 THEN image[s.Sector + 1] ELSE Blank
<1>1. block \in Block
  BY BlankTyped
<1>2. SASI_Seek(s, f) = [s EXCEPT !.found = f, !.Buf = block]
  BY DEF SASI_Seek
<1> HIDE DEF block
<1>3. [s EXCEPT !.found = f, !.Buf = block] \in States
  BY <1>1 DEF States
<1> DEFINE t == [s EXCEPT !.found = f, !.Buf = block]
<1>4. /\ t.found = f /\ t.Buf = block
      /\ t.Phase = s.Phase /\ t.Stat = s.Stat /\ t.Error = s.Error /\ t.RW = s.RW
      /\ t.Sector = s.Sector /\ t.BufPtr = s.BufPtr /\ t.Blocks = s.Blocks
      /\ t.CmdPtr = s.CmdPtr
  BY DEF States
<1> HIDE DEF t
<1> QED
  BY <1>2, <1>3, <1>4 DEF t, block

(* One variable that takes another value of its own.                       *)
LEMMA PhaseTyped ==
  ASSUME NEW s \in States, NEW p \in {0, 1, 2, 3, 4, 5, 9, 10}
  PROVE  LET t == [s EXCEPT !.Phase = p]
         IN  t \in States /\ t.Phase = p
  BY DEF States

(* The error of the sense data.                                            *)
LEMMA ErrorTyped ==
  ASSUME NEW s \in States, NEW e \in {0, 15, 127}
  PROVE  LET t == [s EXCEPT !.Error = e]
         IN  t \in States /\ t.Phase = s.Phase /\ t.Error = e
  BY DEF States

(* The status byte.                                                        *)
LEMMA StatTyped ==
  ASSUME NEW s \in States, NEW e \in {0, 2}
  PROVE  LET t == [s EXCEPT !.Stat = e]
         IN  t \in States /\ t.Phase = s.Phase /\ t.Stat = e
  BY DEF States

(* The place in the sense data, or in the bytes behind command 0xc2.       *)
LEMMA SensePtrTyped ==
  ASSUME NEW s \in States, NEW n \in 0 .. 10
  PROVE  LET t == [s EXCEPT !.SenseStatPtr = n]
         IN  t \in States /\ t.Phase = s.Phase /\ t.SenseStatPtr = n
  BY DEF States

(* What an access keeps: all of a transfer, and of other phases what they  *)
(* read again.                                                             *)
LEMMA KeptTyped ==
  ASSUME NEW s \in States
  PROVE  LET t == Kept(s)
         IN  /\ t \in States
             /\ t.Phase = s.Phase /\ t.CmdPtr = s.CmdPtr /\ t.Device = s.Device
             /\ t.Stat = s.Stat /\ t.Error = s.Error
             /\ s.Phase = 3 => /\ t.Sector = s.Sector /\ t.Blocks = s.Blocks
                               /\ t.Unit = s.Unit /\ t.BufPtr = s.BufPtr /\ t.RW = s.RW
                               /\ t.Buf = s.Buf /\ t.found = s.found
             /\ s.Phase \in {9, 10} => t.SenseStatPtr = s.SenseStatPtr
<1> DEFINE x == [s EXCEPT !.Sector = 0, !.Blocks = 0, !.BufPtr = 0, !.RW = 0, !.Buf = Blank,
                          !.found = 1]
<1>1. /\ x \in States /\ x.Phase = s.Phase /\ x.CmdPtr = s.CmdPtr /\ x.Device = s.Device
      /\ x.Stat = s.Stat /\ x.Error = s.Error /\ x.SenseStatPtr = s.SenseStatPtr
  <2>1. 0 \in 0 .. CountMod - 1 /\ 0 \in 0 .. BlockSize /\ 1 \in SeekResult
    BY SizeAssumption DEF SeekResult
  <2> DEFINE a == [s EXCEPT !.Sector = 0, !.Blocks = 0]
             b == [a EXCEPT !.BufPtr = 0, !.RW = 0]
  <2>2. x = [b EXCEPT !.Buf = Blank, !.found = 1]
    OBVIOUS
  <2>3. a \in States
    BY <2>1 DEF States
  <2> HIDE DEF a
  <2>4. b \in States
    BY <2>1, <2>3 DEF States
  <2> HIDE DEF b
  <2>5. x \in States
    BY <2>1, <2>2, <2>4, BlankTyped DEF States
  <2>6. /\ x.Phase = s.Phase /\ x.CmdPtr = s.CmdPtr /\ x.Device = s.Device
        /\ x.Stat = s.Stat /\ x.Error = s.Error /\ x.SenseStatPtr = s.SenseStatPtr
    BY DEF States
  <2> QED
    BY <2>5, <2>6
<1> HIDE DEF x
<1>2. CASE s.Phase = 3
  <2>1. Kept(s) = [s EXCEPT !.SenseStatPtr = 0]
    BY <1>2 DEF Kept
  <2> QED
    BY <1>2, <2>1 DEF States
<1>3. CASE s.Phase \in {9, 10}
  <2>1. Kept(s) = [x EXCEPT !.Unit = 0]
    BY <1>3 DEF Kept, x
  <2> QED
    BY <1>1, <1>3, <2>1 DEF States
<1>4. CASE s.Phase \notin {3, 9, 10}
  <2> DEFINE y == [x EXCEPT !.SenseStatPtr = 0]
  <2>1. Kept(s) = [y EXCEPT !.Unit = 0]
    BY <1>4 DEF Kept, x
  <2>2. /\ y \in States /\ y.Phase = s.Phase /\ y.CmdPtr = s.CmdPtr /\ y.Device = s.Device
        /\ y.Stat = s.Stat /\ y.Error = s.Error
    BY <1>1 DEF States
  <2> HIDE DEF y
  <2> QED
    BY <1>4, <2>1, <2>2 DEF States
<1> QED
  BY <1>2, <1>3, <1>4

(* The block after one that is complete, or the status.                    *)
LEMMA NextBlockIs ==
  ASSUME image \in Seq(Block), NEW s \in States, s.Phase = 3,
         NEW f \in Found([s EXCEPT !.Sector = @ + 1])
  PROVE  LET t == NextBlock(s, f)
         IN  /\ t \in States /\ Pointers(t)
             /\ t.Stat = s.Stat
             /\ \/ t.Phase = 4 /\ s.Blocks = 1 /\ t.Error = s.Error
                \/ t.Phase = 4 /\ t.Error = 15
                \/ /\ t.Phase = 3 /\ t.Error = s.Error /\ t.RW = s.RW
                   /\ t.Sector = s.Sector + 1 /\ t.BufPtr = 0
                   /\ s.Blocks # 1
                   /\ t.Blocks = IF s.Blocks = 0 THEN CountMod - 1 ELSE s.Blocks - 1
                   /\ Sought(t)
<1> DEFINE counted == [s EXCEPT !.Blocks = (@ - 1) % CountMod]
           placed == [counted EXCEPT !.Sector = @ + 1, !.BufPtr = 0]
           sought == SASI_Seek(placed, f)
<1>1. /\ (s.Blocks - 1) % CountMod \in 0 .. CountMod - 1
      /\ (s.Blocks - 1) % CountMod = IF s.Blocks = 0 THEN CountMod - 1 ELSE s.Blocks - 1
  <2>1. CountMod \in Nat \ {0, 1} /\ s.Blocks \in 0 .. CountMod - 1
    BY SizeAssumption DEF States
  <2>2. CASE s.Blocks = 0
    <3>1. \A n \in Nat \ {0} : (0 - 1) % n = n - 1
      OBVIOUS
    <3> QED
      BY <2>1, <2>2, <3>1
  <2>3. CASE s.Blocks # 0
    <3>1. \A n \in Nat \ {0} : \A b \in 0 .. n - 1 : b # 0 => (b - 1) % n = b - 1
      OBVIOUS
    <3>2. (s.Blocks - 1) % CountMod = s.Blocks - 1
      BY <2>1, <2>3, <3>1
    <3> QED
      BY <2>1, <2>3, <3>2
  <2> QED
    BY <2>2, <2>3
<1>2. counted \in States
  BY <1>1 DEF States
<1>3. /\ counted.Phase = 3 /\ counted.Stat = s.Stat /\ counted.Error = s.Error
      /\ counted.RW = s.RW /\ counted.Sector = s.Sector
      /\ counted.Blocks = IF s.Blocks = 0 THEN CountMod - 1 ELSE s.Blocks - 1
  BY <1>1 DEF States
<1>4. 0 \in 0 .. BlockSize /\ 0 < BlockSize /\ CountMod \in Nat \ {0, 1}
      /\ s.Blocks \in 0 .. CountMod - 1
  BY SizeAssumption DEF States
<1>5. NextBlock(s, f) = IF counted.Blocks = 0 THEN [counted EXCEPT !.Phase = 4]
                        ELSE IF f = 0 THEN [sought EXCEPT !.Error = 15, !.Phase = 4]
                        ELSE sought
  BY DEF NextBlock
<1> HIDE DEF counted, sought
<1>6. /\ placed \in States /\ placed.Phase = 3 /\ placed.Stat = s.Stat
      /\ placed.Error = s.Error /\ placed.RW = s.RW /\ placed.Sector = s.Sector + 1
      /\ placed.BufPtr = 0 /\ placed.Blocks = counted.Blocks
  <2>1. counted.Sector + 1 \in Nat
    BY <1>2 DEF States
  <2>2. placed \in States
    BY <1>2, <1>4, <2>1 DEF States
  <2>3. /\ placed.Phase = counted.Phase /\ placed.Stat = counted.Stat
        /\ placed.Error = counted.Error /\ placed.RW = counted.RW
        /\ placed.Sector = counted.Sector + 1
        /\ placed.BufPtr = 0 /\ placed.Blocks = counted.Blocks
    BY <1>2 DEF States
  <2> HIDE DEF placed
  <2> QED
    BY <1>3, <2>2, <2>3
<1> HIDE DEF placed
<1>7. /\ f \in SeekResult
      /\ f = 1 => s.Sector + 1 < Len(image) /\ image[s.Sector + 1 + 1] \in Block
  <2> DEFINE ahead == [s EXCEPT !.Sector = @ + 1]
  <2>1. ahead \in States /\ ahead.Sector = s.Sector + 1
    BY DEF States
  <2> HIDE DEF ahead
  <2>2. f \in Found(ahead)
    BY DEF ahead
  <2> QED
    BY <2>1, <2>2, FoundHere
<1>8. /\ sought \in States /\ sought.Phase = 3 /\ sought.Stat = s.Stat
      /\ sought.Error = s.Error /\ sought.RW = s.RW /\ sought.Sector = s.Sector + 1
      /\ sought.BufPtr = 0 /\ sought.Blocks = counted.Blocks /\ Sought(sought)
  <2>1. /\ sought \in States /\ sought.found = f
        /\ sought.Buf = IF f = 1 THEN image[placed.Sector + 1] ELSE Blank
        /\ sought.Phase = placed.Phase /\ sought.Stat = placed.Stat
        /\ sought.Error = placed.Error /\ sought.RW = placed.RW
        /\ sought.Sector = placed.Sector
        /\ sought.BufPtr = placed.BufPtr /\ sought.Blocks = placed.Blocks
    BY <1>6, <1>7, SeekTyped DEF sought
  <2> QED
    BY <2>1, <1>6, <1>7 DEF Sought
<1>9. CASE counted.Blocks = 0
  <2> DEFINE t == [counted EXCEPT !.Phase = 4]
  <2>1. t \in States /\ t.Phase = 4 /\ t.Error = s.Error /\ t.Stat = s.Stat
    BY <1>2, <1>3 DEF States
  <2> HIDE DEF t
  <2>2. NextBlock(s, f) = t /\ s.Blocks = 1 /\ Pointers(t)
    BY <1>3, <1>4, <1>5, <1>9, <2>1 DEF t, Pointers
  <2> QED
    BY <2>1, <2>2
<1>10. CASE counted.Blocks # 0 /\ f = 0
  <2> DEFINE u == [sought EXCEPT !.Error = 15]
             t == [u EXCEPT !.Phase = 4]
  <2>1. sought \in States /\ sought.Stat = s.Stat
    BY <1>8
  <2>2. NextBlock(s, f) = t
    BY <1>5, <1>10, <2>1
  <2>3. u \in States /\ u.Error = 15 /\ u.Stat = s.Stat
    BY <2>1 DEF States
  <2> HIDE DEF u
  <2>4. t \in States /\ t.Phase = 4 /\ t.Error = 15 /\ t.Stat = s.Stat
    BY <2>3 DEF States
  <2> HIDE DEF t
  <2>5. Pointers(t)
    BY <2>4 DEF Pointers
  <2> QED
    BY <2>2, <2>4, <2>5
<1>11. CASE counted.Blocks # 0 /\ f # 0
  <2>1. NextBlock(s, f) = sought /\ s.Blocks # 1 /\ Pointers(sought)
    BY <1>3, <1>4, <1>5, <1>8, <1>11 DEF Pointers
  <2> QED
    BY <1>3, <1>8, <2>1
<1> QED
  BY <1>9, <1>10, <1>11

(* A command leads to the status, to its bytes, or into a transfer whose   *)
(* first block has been looked for.                                        *)
Begun(t) ==
  \/ t.Phase \in {4, 9, 10}
  \/ t.Phase = 3 /\ t.BufPtr = 0 /\ Sought(t) /\ (t.found # 1 => t.Error = 15)

(* A read or a write begins with the seek of its first block.              *)
LEMMA TransferIs ==
  ASSUME image \in Seq(Block), NEW s \in States,
         NEW command \in [op : {"read", "write"}, unit : {0, 1}, sector : 0 .. MaxFirst,
                          blocks : 0 .. CountMod - 1],
         NEW f \in Found([s EXCEPT !.Sector = command.sector])
  PROVE  LET t == Transfer(s, command, f)
         IN  t \in States /\ Pointers(t) /\ Begun(t)
<1> DEFINE w == IF command.op = "read" THEN 1 ELSE 0
           place == [s EXCEPT !.Sector = command.sector]
           a == [s EXCEPT !.Sector = command.sector, !.Blocks = command.blocks]
           b == [a EXCEPT !.Phase = 3, !.RW = w]
           begun == [b EXCEPT !.BufPtr = 0, !.Stat = 0]
           sought == SASI_Seek(begun, f)
           e == IF f = 1 THEN sought.Error ELSE 15
           t == [sought EXCEPT !.Error = e]
<1>1. command.sector \in Nat /\ command.blocks \in 0 .. CountMod - 1 /\ w \in {0, 1}
  BY BoundAssumption
<1>2. 0 \in 0 .. BlockSize /\ 0 < BlockSize
  BY SizeAssumption
<1>3. Transfer(s, command, f) = t
  BY DEF Transfer
<1>4. place \in States /\ place.Sector = command.sector /\ f \in Found(place)
  BY <1>1 DEF States
<1> HIDE DEF w, place
<1>5. /\ f \in SeekResult
      /\ f = 1 => command.sector < Len(image) /\ image[command.sector + 1] \in Block
  BY <1>4, FoundHere
<1>6. a \in States /\ a.Sector = command.sector
  BY <1>1 DEF States
<1> HIDE DEF a
<1>7. b \in States /\ b.Sector = command.sector /\ b.Phase = 3
  BY <1>1, <1>6 DEF States
<1> HIDE DEF b
<1>8. begun \in States /\ begun.Sector = command.sector /\ begun.Phase = 3 /\ begun.BufPtr = 0
  BY <1>2, <1>7 DEF States
<1> HIDE DEF begun
<1>9. /\ sought \in States /\ sought.found = f
      /\ sought.Buf = IF f = 1 THEN image[sought.Sector + 1] ELSE Blank
      /\ sought.Sector = command.sector /\ sought.Phase = 3 /\ sought.BufPtr = 0
  BY <1>5, <1>8, SeekTyped
<1> HIDE DEF sought
<1>10. e \in {0, 15, 127} /\ (f # 1 => e = 15)
  BY <1>9 DEF States
<1> HIDE DEF e
<1>11. t \in States
  BY <1>9, <1>10, ErrorTyped
<1>12. /\ t.found = f /\ t.Buf = sought.Buf /\ t.Sector = sought.Sector /\ t.Phase = 3
       /\ t.BufPtr = 0 /\ t.Error = e
  BY <1>9 DEF States
<1> HIDE DEF t
<1>13. Pointers(t) /\ Sought(t) /\ Begun(t)
  BY <1>2, <1>5, <1>9, <1>10, <1>12 DEF Pointers, Sought, Begun
<1> QED
  BY <1>3, <1>11, <1>13

(* The commands that only look for the image.                              *)
LEMMA CheckedTyped ==
  ASSUME NEW s \in States, NEW present
  PROVE  Checked(s, present) \in States
<1>1. [s EXCEPT !.Stat = 0] \in States
  BY DEF States
<1>2. [s EXCEPT !.Stat = 2, !.Error = 127] \in States
  BY DEF States
<1> QED
  BY <1>1, <1>2 DEF Checked

(* Every command leaves a state that it began.                             *)
LEMMA CheckCmdIs ==
  ASSUME image \in Seq(Block), NEW s \in States, NEW command \in Command,
         NEW t \in SASI_CheckCmd(s, command)
  PROVE  t \in States /\ Pointers(t) /\ Begun(t)
<1>1. CASE command.op \in {"ready", "recalibrate", "seek"}
  <2>1. PICK present : t = [Checked(s, present) EXCEPT !.Phase = 4]
    BY <1>1 DEF SASI_CheckCmd
  <2> DEFINE a == Checked(s, present)
  <2>2. a \in States
    BY CheckedTyped
  <2> HIDE DEF a
  <2>3. t \in States /\ t.Phase = 4
    BY <2>1, <2>2, PhaseTyped DEF a
  <2> QED
    BY <2>3 DEF Pointers, Begun
<1>2. CASE command.op = "sense"
  <2> DEFINE a == [s EXCEPT !.Error = 0]
             b == [a EXCEPT !.Phase = 9]
             c == [b EXCEPT !.Stat = 0]
  <2>1. t = [c EXCEPT !.SenseStatPtr = 0]
    BY <1>2 DEF SASI_CheckCmd, Sensed
  <2>2. a \in States
    BY ErrorTyped
  <2> HIDE DEF a
  <2>3. b \in States /\ b.Phase = 9
    BY <2>2, PhaseTyped
  <2> HIDE DEF b
  <2>4. c \in States /\ c.Phase = 9
    BY <2>3, StatTyped
  <2> HIDE DEF c
  <2>5. 0 \in 0 .. 10
    OBVIOUS
  <2>6. t \in States /\ t.Phase = 9 /\ t.SenseStatPtr = 0
    BY <2>1, <2>4, <2>5, SensePtrTyped
  <2> QED
    BY <2>6 DEF Pointers, Begun
<1>3. CASE command.op = "format"
  <2> DEFINE a == [s EXCEPT !.Phase = 4]
  <2>1. t = [a EXCEPT !.Stat = 0]
    BY <1>3 DEF SASI_CheckCmd
  <2>2. a \in States /\ a.Phase = 4
    BY PhaseTyped
  <2> HIDE DEF a
  <2>3. t \in States /\ t.Phase = 4
    BY <2>1, <2>2, StatTyped
  <2> QED
    BY <2>3 DEF Pointers, Begun
<1>4. CASE command.op = "unit"
  <2>1. PICK present : t = [Checked(s, present) EXCEPT !.Phase = 10, !.SenseStatPtr = 0]
    BY <1>4 DEF SASI_CheckCmd
  <2> DEFINE a == Checked(s, present)
             b == [a EXCEPT !.Phase = 10]
  <2>2. t = [b EXCEPT !.SenseStatPtr = 0]
    BY <2>1
  <2>3. a \in States
    BY CheckedTyped
  <2> HIDE DEF a
  <2>4. b \in States /\ b.Phase = 10
    BY <2>3, PhaseTyped
  <2> HIDE DEF b
  <2>5. 0 \in 0 .. 10
    OBVIOUS
  <2>6. t \in States /\ t.Phase = 10 /\ t.SenseStatPtr = 0
    BY <2>2, <2>4, <2>5, SensePtrTyped
  <2> QED
    BY <2>6 DEF Pointers, Begun
<1>5. CASE command.op = "unknown"
  <2>1. t = [s EXCEPT !.Phase = 4]
    BY <1>5 DEF SASI_CheckCmd
  <2>2. t \in States /\ t.Phase = 4
    BY <2>1, PhaseTyped
  <2> QED
    BY <2>2 DEF Pointers, Begun
<1>6. CASE command.op \in {"read", "write"}
  <2>1. command \in [op : {"read", "write"}, unit : {0, 1}, sector : 0 .. MaxFirst,
                     blocks : 0 .. CountMod - 1]
    BY <1>6 DEF Command
  <2>2. PICK f \in Found([s EXCEPT !.Sector = command.sector]) : t = Transfer(s, command, f)
    BY <1>6 DEF SASI_CheckCmd
  <2> QED
    BY <2>1, <2>2, TransferIs
<1> QED
  BY <1>1, <1>2, <1>3, <1>4, <1>5, <1>6 DEF Command

-----------------------------------------------------------------------------
(* The invariant.                                                          *)
(* Every variable has its type.                                            *)
Typed ==
  /\ sasi \in States /\ Pointers(sasi)
  /\ HDImage \in SUBSET Drive /\ image \in Seq(Block)
  /\ IntEnable \in BOOLEAN /\ IntStat \in BOOLEAN /\ asked \in BOOLEAN
  /\ moved \in Seq(Byte) /\ last \in Block

(* The bytes moved are those of the buffer up to its pointer, and a read   *)
(* has in its buffer what the last seek found.                             *)
TransferInv ==
  /\ sasi.Phase # 3 => moved = << >>
  /\ sasi.Phase = 3 =>
       /\ Len(moved) = sasi.BufPtr
       /\ \A i \in 1 .. sasi.BufPtr : moved[i] = sasi.Buf[i]
       /\ sasi.RW = 1 => Sought(sasi)

(* The inductive invariant.                                                *)
IInv == Typed /\ TransferInv

(* The invariant gives the type invariant that the run checks.             *)
LEMMA IsTypeOK == Typed => TypeOK
  BY DEF Typed, TypeOK, States, Pointers

(* The invariant holds at first.                                           *)
LEMMA InitEstablishes == Init => IInv
<1> SUFFICES ASSUME Init PROVE IInv
  OBVIOUS
<1>1. image \in Seq(Block)
  <2>1. PICK n \in 1 .. MaxBlocks : image \in [1 .. n -> Block]
    BY DEF Init
  <2> QED
    BY <2>1, BoundAssumption
<1>2. Typed
  <2>1. sasi \in States /\ Pointers(sasi)
    BY BusFreeTyped DEF Init
  <2>2. HDImage \in SUBSET Drive /\ moved \in Seq(Byte) /\ last \in Block
    BY BlankTyped DEF Init
  <2>3. IntEnable \in BOOLEAN /\ IntStat \in BOOLEAN /\ asked \in BOOLEAN
    BY DEF Init
  <2> QED
    BY <1>1, <2>1, <2>2, <2>3 DEF Typed
<1>3. BusFree.Phase = 0
  BY DEF BusFree
<1> QED
  BY <1>2, <1>3 DEF Init, TransferInv, IInv

(* The end of an access: what the variables of the controller become, and  *)
(* the status phase announced.                                             *)
LEMMA AccessIs ==
  ASSUME Typed, NEW t \in States, Pointers(t), Access(t)
  PROVE  /\ sasi' \in States /\ Pointers(sasi')
         /\ sasi'.Phase = t.Phase /\ sasi'.Stat = t.Stat /\ sasi'.Error = t.Error
         /\ t.Phase = 3 => /\ sasi'.Sector = t.Sector /\ sasi'.Blocks = t.Blocks
                           /\ sasi'.BufPtr = t.BufPtr /\ sasi'.RW = t.RW
                           /\ sasi'.Buf = t.Buf /\ sasi'.found = t.found
         /\ HDImage' \in SUBSET Drive
         /\ IntEnable' \in BOOLEAN /\ IntStat' \in BOOLEAN /\ asked' \in BOOLEAN
         /\ t.Phase = 4 => IntStat' /\ (IntEnable => asked')
<1>1. sasi' = Kept(t) /\ HDImage' = HDImage /\ IntEnable' = IntEnable
      /\ IntStat' = (IntStat \/ t.Phase = 4) /\ asked' = (t.Phase = 4 /\ IntEnable)
  BY DEF Access
<1>2. /\ Kept(t) \in States
      /\ Kept(t).Phase = t.Phase /\ Kept(t).CmdPtr = t.CmdPtr
      /\ Kept(t).Stat = t.Stat /\ Kept(t).Error = t.Error
      /\ t.Phase = 3 => /\ Kept(t).Sector = t.Sector /\ Kept(t).Blocks = t.Blocks
                        /\ Kept(t).BufPtr = t.BufPtr /\ Kept(t).RW = t.RW
                        /\ Kept(t).Buf = t.Buf /\ Kept(t).found = t.found
      /\ t.Phase \in {9, 10} => Kept(t).SenseStatPtr = t.SenseStatPtr
  BY KeptTyped
<1>3. Pointers(Kept(t))
  BY <1>2 DEF Pointers
<1>4. IntStat' \in BOOLEAN /\ asked' \in BOOLEAN /\ IntEnable' \in BOOLEAN
  BY <1>1 DEF Typed
<1> QED
  BY <1>1, <1>2, <1>3, <1>4 DEF Typed

(* A byte that moves fills the history of the block, or completes it.      *)
LEMMA MovesIs ==
  ASSUME moved \in Seq(Byte), Len(moved) < BlockSize, NEW byte \in Byte, Moves(byte)
  PROVE  /\ moved' \in Seq(Byte) /\ last' \in Block
         /\ Len(moved) + 1 = BlockSize => moved' = << >> /\ last' = Append(moved, byte)
         /\ Len(moved) + 1 # BlockSize => moved' = Append(moved, byte) /\ last' = Blank
<1>1. CASE Len(moved) + 1 = BlockSize
  <2>1. moved' = << >> /\ last' = Append(moved, byte)
    BY <1>1 DEF Moves
  <2>2. Append(moved, byte) \in [1 .. BlockSize -> Byte]
    <3>1. Append(moved, byte) \in Seq(Byte) /\ Len(Append(moved, byte)) = BlockSize
      BY <1>1
    <3> QED
      BY <3>1, LenProperties
  <2> QED
    BY <1>1, <2>1, <2>2 DEF Block, Bytes
<1>2. CASE Len(moved) + 1 # BlockSize
  BY <1>2, BlankTyped DEF Moves
<1> QED
  BY <1>1, <1>2

(* The file with a block written.                                          *)
LEMMA WrittenIs ==
  ASSUME image \in Seq(Block), NEW n \in Nat, NEW block \in Block
  PROVE  LET w == Written(n, block)
         IN  /\ w \in Seq(Block)
             /\ Len(w) = IF n < Len(image) THEN Len(image) ELSE n + 1
             /\ \A i \in 1 .. Len(w) :
                  w[i] = IF i = n + 1 THEN block ELSE IF i <= Len(image) THEN image[i] ELSE Blank
<1> DEFINE top == IF n < Len(image) THEN Len(image) ELSE n + 1
           at(i) == IF i = n + 1 THEN block ELSE IF i <= Len(image) THEN image[i] ELSE Blank
<1>1. top \in Nat /\ Len(image) \in Nat
  OBVIOUS
<1>2. \A i \in 1 .. top : at(i) \in Block
  BY <1>1, BlankTyped
<1>3. Written(n, block) = [i \in 1 .. top |-> at(i)]
  BY DEF Written
<1> HIDE DEF top, at
<1>4. [i \in 1 .. top |-> at(i)] \in Seq(Block) /\ Len([i \in 1 .. top |-> at(i)]) = top
  BY <1>1, <1>2
<1> QED
  BY <1>3, <1>4 DEF top, at

-----------------------------------------------------------------------------
(* The steps of the abstract device.                                       *)
(* The places left of the transfer under way.                              *)
Places == [i \in 1 .. BlocksLeft |-> sasi.Sector + i - 1]

(* The abstract device's transfer.                                         *)
Job ==
  IF Transferring
  THEN [kind |-> IF sasi.RW = 1 THEN "read" ELSE "write", todo |-> Places]
  ELSE [kind |-> "idle", todo |-> << >>]

(* At least one place is left, the first of them the sector.               *)
LEMMA PlacesAre ==
  ASSUME sasi \in States
  PROVE  /\ Places \in Seq(Nat) /\ Len(Places) = BlocksLeft /\ Len(Places) >= 1
         /\ Head(Places) = sasi.Sector
<1>1. BlocksLeft \in Nat /\ BlocksLeft >= 1 /\ sasi.Sector \in Nat
  BY SizeAssumption DEF BlocksLeft, States
<1>2. \A i \in 1 .. BlocksLeft : sasi.Sector + i - 1 \in Nat
  BY <1>1
<1>3. Places \in Seq(Nat) /\ Len(Places) = BlocksLeft
  BY <1>1, <1>2 DEF Places
<1>4. Head(Places) = Places[1]
  BY <1>1, <1>3
<1>5. Places[1] = sasi.Sector
  BY <1>1 DEF Places
<1> QED
  BY <1>1, <1>3, <1>4, <1>5

(* A step that ends outside a transfer and completes no block.             *)
LEMMA QuietOutside ==
  ASSUME sasi'.Phase # 3, last' = Blank
  PROVE  Device!Abort
  BY DEF Device!Abort, Device!Idle, Transferring

(* A step in a transfer that completes no block.                           *)
LEMMA QuietInside ==
  ASSUME sasi \in States, sasi.Phase = 3, sasi'.Phase = 3, last' = Blank, image' = image,
         sasi'.Sector = sasi.Sector, sasi'.Blocks = sasi.Blocks, sasi'.RW = sasi.RW,
         sasi'.found = sasi.found, sasi'.Error = sasi.Error, sasi'.Stat = sasi.Stat
  PROVE  Device!Otherwise
<1>1. Transferring /\ Transferring'
  BY DEF Transferring
<1>2. BlocksLeft' = BlocksLeft
  BY DEF BlocksLeft
<1>3. Places # << >>
  BY PlacesAre
<1>4. [kind |-> IF sasi.RW = 1 THEN "read" ELSE "write", todo |-> Places] # Device!Idle
  BY <1>3 DEF Device!Idle
<1> QED
  BY <1>1, <1>2, <1>4 DEF Device!Otherwise, Places

(* The controller after a block: at the next place, or at the status.      *)
After(s) ==
  /\ s.Stat = sasi.Stat
  /\ \/ s.Phase = 4 /\ sasi.Blocks = 1 /\ s.Error = sasi.Error
     \/ s.Phase = 4 /\ s.Error = 15
     \/ /\ s.Phase = 3 /\ s.Error = sasi.Error /\ s.RW = sasi.RW
        /\ s.Sector = sasi.Sector + 1 /\ s.BufPtr = 0
        /\ sasi.Blocks # 1
        /\ s.Blocks = IF sasi.Blocks = 0 THEN CountMod - 1 ELSE sasi.Blocks - 1

(* A transfer with other places left.                                      *)
LEMMA JobWith ==
  ASSUME NEW kind, NEW p, NEW q
  PROVE  [[kind |-> kind, todo |-> p] EXCEPT !.todo = q] = [kind |-> kind, todo |-> q]
  OBVIOUS

(* A block moved leads to the next place of the transfer, or ends it.      *)
LEMMA AfterBlock ==
  ASSUME sasi \in States, sasi' \in States, sasi.Phase = 3, After(sasi')
  PROVE  Device!GoesOn \/ Device!Ends
<1>1. CASE sasi'.Phase = 4
  <2>1. ~Transferring'
    BY <1>1 DEF Transferring
  <2>2. CASE sasi.Blocks = 1 /\ sasi'.Error = sasi.Error
    <3>1. Len(Places) = 1
      BY <2>2, PlacesAre DEF BlocksLeft
    <3> QED
      BY <1>1, <2>1, <2>2, <3>1 DEF Device!Ends, Device!Idle, Transferring, Places, After
  <2>3. CASE sasi'.Error = 15
    BY <1>1, <2>1, <2>3 DEF Device!Ends, Device!Idle, Transferring
  <2> QED
    BY <1>1, <2>2, <2>3 DEF After
<1>2. CASE sasi'.Phase = 3
  <2>1. /\ sasi'.Error = sasi.Error /\ sasi'.Stat = sasi.Stat /\ sasi'.RW = sasi.RW
        /\ sasi'.Sector = sasi.Sector + 1 /\ sasi.Blocks # 1
        /\ sasi'.Blocks = IF sasi.Blocks = 0 THEN CountMod - 1 ELSE sasi.Blocks - 1
    BY <1>2 DEF After
  <2>2. /\ BlocksLeft' = BlocksLeft - 1 /\ BlocksLeft > 1
        /\ BlocksLeft \in Nat /\ sasi.Sector \in Nat
    BY <2>1, SizeAssumption DEF BlocksLeft, States
  <2>3. Len(Places) = BlocksLeft /\ Places \in Seq(Nat)
    BY PlacesAre
  <2>4. Tail(Places) = [i \in 1 .. BlocksLeft - 1 |-> sasi.Sector + 1 + i - 1]
    <3>1. /\ Tail(Places) \in Seq(Nat) /\ Len(Tail(Places)) = BlocksLeft - 1
          /\ \A i \in 1 .. BlocksLeft - 1 : Tail(Places)[i] = Places[i + 1]
      BY <2>2, <2>3, HeadTailProperties
    <3>2. \A i \in 1 .. BlocksLeft - 1 : Places[i + 1] = sasi.Sector + 1 + i - 1
      BY <2>2 DEF Places
    <3>3. Tail(Places) = [i \in 1 .. BlocksLeft - 1 |-> Tail(Places)[i]]
      <4>1. Tail(Places) \in [1 .. BlocksLeft - 1 -> Nat]
        BY <3>1, LenProperties
      <4> QED
        BY <4>1
    <3> QED
      BY <3>1, <3>2, <3>3
  <2>5. Places' = Tail(Places)
    BY <2>1, <2>2, <2>4 DEF Places
  <2>6. Transferring /\ Transferring'
    BY <1>2 DEF Transferring
  <2> DEFINE kind == IF sasi.RW = 1 THEN "read" ELSE "write"
  <2>7. Job = [kind |-> kind, todo |-> Places] /\ Job' = [kind |-> kind, todo |-> Tail(Places)]
    BY <2>1, <2>5, <2>6 DEF Job
  <2> HIDE DEF kind
  <2>8. Job' = [Job EXCEPT !.todo = Tail(@)] /\ Len(Job.todo) > 1
    <3>1. Job.todo = Places
      BY <2>7
    <3>2. [[kind |-> kind, todo |-> Places] EXCEPT !.todo = Tail(Places)]
            = [kind |-> kind, todo |-> Tail(Places)]
      BY JobWith, Zenon
    <3>3. [Job EXCEPT !.todo = Tail(@)] = [Job EXCEPT !.todo = Tail(Places)]
      BY <3>1
    <3>4. Len(Job.todo) > 1
      BY <2>2, <2>3, <3>1
    <3>5. [Job EXCEPT !.todo = Tail(Places)] = Job'
      BY <2>7, <3>2, Zenon
    <3> QED
      BY <3>3, <3>4, <3>5, Zenon
  <2>9. (sasi.Error # 0 \/ sasi.Stat # 0)' = (sasi.Error # 0 \/ sasi.Stat # 0)
    BY <2>1
  <2> QED
    BY <2>8, <2>9 DEF Device!GoesOn, Job, Places
<1> QED
  BY <1>1, <1>2 DEF After

-----------------------------------------------------------------------------
(* Every action keeps the invariant, announces the status it reaches and   *)
(* is a step of the abstract device.                                       *)

(* A status phase that a step reaches is announced.                        *)
Announced == sasi'.Phase = 4 /\ sasi.Phase # 4 => IntStat' /\ (IntEnable => asked')

(* What every step does.                                                   *)
StepGood == IInv' /\ Announced /\ Device!Next

(* What follows a block, seen from the state before its last byte.         *)
LEMMA NextBlockAfter ==
  ASSUME image \in Seq(Block), sasi \in States, NEW s \in States, sasi.Phase = 3, s.Phase = 3,
         s.Sector = sasi.Sector, s.Blocks = sasi.Blocks, s.RW = sasi.RW,
         s.Stat = sasi.Stat, s.Error = sasi.Error,
         NEW f \in Found([s EXCEPT !.Sector = @ + 1])
  PROVE  LET t == NextBlock(s, f)
         IN  /\ t \in States /\ Pointers(t) /\ After(t)
             /\ t.Phase \in {3, 4}
             /\ t.Phase = 3 => Sought(t) /\ t.BufPtr = 0
<1> DEFINE t == NextBlock(s, f)
<1>1. /\ t \in States /\ Pointers(t)
      /\ t.Stat = s.Stat
      /\ \/ t.Phase = 4 /\ s.Blocks = 1 /\ t.Error = s.Error
         \/ t.Phase = 4 /\ t.Error = 15
         \/ /\ t.Phase = 3 /\ t.Error = s.Error /\ t.RW = s.RW
            /\ t.Sector = s.Sector + 1 /\ t.BufPtr = 0
            /\ s.Blocks # 1
            /\ t.Blocks = IF s.Blocks = 0 THEN CountMod - 1 ELSE s.Blocks - 1
            /\ Sought(t)
  BY NextBlockIs
<1> HIDE DEF t
<1>2. After(t) /\ t.Phase \in {3, 4} /\ (t.Phase = 3 => Sought(t) /\ t.BufPtr = 0)
  BY <1>1 DEF After
<1> QED
  BY <1>1, <1>2 DEF t

(* A byte read within a block.                                             *)
LEMMA ReadByteKeeps ==
  ASSUME IInv, ReadData, sasi.BufPtr + 1 # BlockSize
  PROVE  StepGood
<1> DEFINE s == [sasi EXCEPT !.BufPtr = @ + 1]
           byte == sasi.Buf[sasi.BufPtr + 1]
<1>1. /\ sasi \in States /\ sasi.Phase = 3 /\ sasi.RW = 1 /\ sasi.BufPtr < BlockSize
      /\ sasi.BufPtr \in Nat /\ BlockSize \in Nat /\ sasi.Buf \in Block
      /\ sasi.BufPtr + 1 \in 0 .. BlockSize
  BY SizeAssumption DEF IInv, Typed, Pointers, ReadData, States
<1>2. s \in States
  BY <1>1 DEF States
<1>3. /\ s.Phase = 3 /\ s.BufPtr = sasi.BufPtr + 1 /\ s.RW = 1 /\ s.Buf = sasi.Buf
      /\ s.Sector = sasi.Sector /\ s.Blocks = sasi.Blocks /\ s.found = sasi.found
      /\ s.Stat = sasi.Stat /\ s.Error = sasi.Error
  BY <1>1 DEF States
<1>4. Access(s)
  BY <1>1, <1>3 DEF ReadData
<1>5. Moves(byte) /\ image' = image
  BY DEF ReadData
<1> HIDE DEF s
<1>6. Pointers(s)
  BY <1>1, <1>3 DEF Pointers
<1>7. /\ sasi' \in States /\ Pointers(sasi')
      /\ sasi'.Phase = 3 /\ sasi'.Stat = sasi.Stat /\ sasi'.Error = sasi.Error
      /\ sasi'.Sector = sasi.Sector /\ sasi'.Blocks = sasi.Blocks
      /\ sasi'.BufPtr = sasi.BufPtr + 1 /\ sasi'.RW = 1
      /\ sasi'.Buf = sasi.Buf /\ sasi'.found = sasi.found
      /\ HDImage' \in SUBSET Drive
      /\ IntEnable' \in BOOLEAN /\ IntStat' \in BOOLEAN /\ asked' \in BOOLEAN
  BY <1>2, <1>3, <1>4, <1>6, AccessIs DEF IInv
<1>8. /\ moved \in Seq(Byte) /\ Len(moved) = sasi.BufPtr /\ image \in Seq(Block)
      /\ \A i \in 1 .. sasi.BufPtr : moved[i] = sasi.Buf[i]
      /\ Sought(sasi)
  BY <1>1 DEF IInv, Typed, TransferInv
<1>9. byte \in Byte
  BY <1>1 DEF Block, Bytes
<1> HIDE DEF byte
<1>10. moved' \in Seq(Byte) /\ last' = Blank /\ last' \in Block /\ moved' = Append(moved, byte)
  BY <1>1, <1>5, <1>8, <1>9, MovesIs
<1>11. Typed'
  BY <1>5, <1>7, <1>8, <1>10 DEF Typed
<1>12. TransferInv'
  <2>1. Len(moved') = sasi'.BufPtr
    BY <1>7, <1>8, <1>10
  <2>2. \A i \in 1 .. sasi'.BufPtr : moved'[i] = sasi'.Buf[i]
    <3> SUFFICES ASSUME NEW i \in 1 .. sasi'.BufPtr PROVE moved'[i] = sasi'.Buf[i]
      OBVIOUS
    <3>1. CASE i = sasi.BufPtr + 1
      BY <1>7, <1>8, <1>10, <3>1, <1>1, AppendProperties DEF byte
    <3>2. CASE i # sasi.BufPtr + 1
      <4>1. i \in 1 .. sasi.BufPtr
        BY <1>1, <1>7, <3>2
      <4> QED
        BY <1>7, <1>8, <1>10, <4>1, AppendProperties
    <3> QED
      BY <3>1, <3>2
  <2>3. Sought(sasi)'
    BY <1>5, <1>7, <1>8 DEF Sought
  <2> QED
    BY <1>7, <2>1, <2>2, <2>3 DEF TransferInv
<1>13. Device!Otherwise
  BY <1>1, <1>5, <1>7, <1>10, QuietInside
<1> QED
  BY <1>7, <1>11, <1>12, <1>13 DEF StepGood, IInv, Announced, Device!Next

(* The last byte of a block: what follows, with the file as it will be.    *)
LEMMA BlockKeeps ==
  ASSUME IInv, NEW s \in States, sasi.Phase = 3, s.Phase = 3,
         s.Sector = sasi.Sector, s.Blocks = sasi.Blocks, s.RW = sasi.RW,
         s.Stat = sasi.Stat, s.Error = sasi.Error,
         NEW f \in Found([s EXCEPT !.Sector = @ + 1]), Access(NextBlock(s, f)),
         image' \in Seq(Block), s.RW = 1 => image' = image,
         moved' = << >>, last' \in Block
  PROVE  IInv' /\ Announced /\ (Device!GoesOn \/ Device!Ends)
<1> DEFINE t == NextBlock(s, f)
<1>1. sasi \in States /\ image \in Seq(Block)
  BY DEF IInv, Typed
<1>2. /\ t \in States /\ Pointers(t) /\ After(t) /\ t.Phase \in {3, 4}
      /\ t.Phase = 3 => Sought(t) /\ t.BufPtr = 0
  BY <1>1, NextBlockAfter
<1>3. Access(t)
  OBVIOUS
<1> HIDE DEF t
<1>4. /\ sasi' \in States /\ Pointers(sasi')
      /\ sasi'.Phase = t.Phase /\ sasi'.Stat = t.Stat /\ sasi'.Error = t.Error
      /\ t.Phase = 3 => /\ sasi'.Sector = t.Sector /\ sasi'.Blocks = t.Blocks
                        /\ sasi'.BufPtr = t.BufPtr /\ sasi'.RW = t.RW
                        /\ sasi'.Buf = t.Buf /\ sasi'.found = t.found
      /\ HDImage' \in SUBSET Drive
      /\ IntEnable' \in BOOLEAN /\ IntStat' \in BOOLEAN /\ asked' \in BOOLEAN
      /\ t.Phase = 4 => IntStat' /\ (IntEnable => asked')
  BY <1>2, <1>3, AccessIs DEF IInv
<1>5. After(sasi')
  BY <1>2, <1>4 DEF After
<1>6. Device!GoesOn \/ Device!Ends
  BY <1>1, <1>4, <1>5, AfterBlock
<1>7. Typed'
  BY <1>4 DEF Typed
<1>8. TransferInv'
  <2>1. CASE sasi'.Phase # 3
    BY <2>1 DEF TransferInv
  <2>2. CASE sasi'.Phase = 3
    <3>1. sasi'.BufPtr = 0 /\ Len(moved') = 0
      BY <1>2, <1>4, <2>2
    <3>2. sasi'.RW = 1 => Sought(sasi)'
      BY <1>2, <1>4, <1>5, <2>2 DEF Sought, After
    <3> QED
      BY <2>2, <3>1, <3>2 DEF TransferInv
  <2> QED
    BY <2>1, <2>2
<1> QED
  BY <1>4, <1>6, <1>7, <1>8 DEF IInv, Announced

(* Two blocks of the same bytes are one.                                   *)
LEMMA SameBlock ==
  ASSUME NEW a \in Block, NEW b \in Block, \A i \in Bytes : a[i] = b[i]
  PROVE  a = b
  BY DEF Block

(* The last byte of a block read.                                          *)
LEMMA ReadBlockKeeps ==
  ASSUME IInv, ReadData, sasi.BufPtr + 1 = BlockSize
  PROVE  StepGood
<1> DEFINE s == [sasi EXCEPT !.BufPtr = @ + 1]
           byte == sasi.Buf[sasi.BufPtr + 1]
<1>1. /\ sasi \in States /\ sasi.Phase = 3 /\ sasi.RW = 1 /\ sasi.BufPtr < BlockSize
      /\ sasi.BufPtr \in Nat /\ BlockSize \in Nat /\ sasi.Buf \in Block
      /\ sasi.BufPtr + 1 \in 0 .. BlockSize
  BY SizeAssumption DEF IInv, Typed, Pointers, ReadData, States
<1>2. s \in States
  BY <1>1 DEF States
<1>3. /\ s.Phase = 3 /\ s.BufPtr = BlockSize /\ s.RW = sasi.RW
      /\ s.Sector = sasi.Sector /\ s.Blocks = sasi.Blocks
      /\ s.Stat = sasi.Stat /\ s.Error = sasi.Error
  BY <1>1 DEF States
<1>4. PICK f \in Found([s EXCEPT !.Sector = @ + 1]) : Access(NextBlock(s, f))
  BY <1>3 DEF ReadData
<1>5. Moves(byte) /\ image' = image
  BY DEF ReadData
<1>6. /\ moved \in Seq(Byte) /\ Len(moved) = sasi.BufPtr /\ image \in Seq(Block)
      /\ \A i \in 1 .. sasi.BufPtr : moved[i] = sasi.Buf[i]
      /\ Sought(sasi)
  BY <1>1 DEF IInv, Typed, TransferInv
<1>7. byte \in Byte
  BY <1>1 DEF Block, Bytes
<1> HIDE DEF s
<1>8. moved' = << >> /\ last' = Append(moved, byte) /\ last' \in Block
  BY <1>1, <1>5, <1>6, <1>7, MovesIs
<1>9. IInv' /\ Announced /\ (Device!GoesOn \/ Device!Ends)
  BY <1>1, <1>2, <1>3, <1>4, <1>5, <1>6, <1>8, BlockKeeps
<1>10. last' = sasi.Buf
  <2>1. \A i \in Bytes : last'[i] = sasi.Buf[i]
    BY <1>1, <1>6, <1>8, AppendProperties DEF Bytes
  <2> QED
    BY <1>1, <1>8, <2>1, SameBlock
<1>11. Device!Deliver
  <2>1. Transferring
    BY <1>1 DEF Transferring
  <2>2. Head(Places) = sasi.Sector
    BY <1>1, PlacesAre
  <2>3. CASE sasi.found = 1
    <3>1. sasi.Sector \in 0 .. Len(image) - 1 /\ sasi.Buf = image[sasi.Sector + 1]
      BY <1>1, <1>6, <2>3 DEF Sought, States
    <3>2. last' = [n \in 0 .. Len(image) - 1 |-> image[n + 1]][Head(Places)]
      BY <1>10, <2>2, <3>1
    <3> QED
      BY <1>1, <1>5, <1>9, <2>1, <2>3, <3>2 DEF Device!Deliver, Places
  <2>4. CASE sasi.found # 1
    <3>1. last' = Blank
      BY <1>6, <1>10, <2>4 DEF Sought
    <3> QED
      BY <1>1, <1>5, <1>9, <2>1, <2>4, <3>1 DEF Device!Deliver
  <2> QED
    BY <2>3, <2>4
<1> QED
  BY <1>9, <1>11 DEF StepGood, Device!Next

(* A byte written within a block.                                          *)
LEMMA WriteByteKeeps ==
  ASSUME IInv, NEW byte \in Byte, WriteData(byte), sasi.BufPtr + 1 # BlockSize
  PROVE  StepGood
<1> DEFINE buf == [sasi.Buf EXCEPT ![sasi.BufPtr + 1] = byte]
           s == [sasi EXCEPT !.Buf = buf, !.BufPtr = @ + 1]
<1>1. /\ sasi \in States /\ sasi.Phase = 3 /\ sasi.RW = 0 /\ sasi.BufPtr < BlockSize
      /\ sasi.BufPtr \in Nat /\ BlockSize \in Nat /\ sasi.Buf \in Block
      /\ sasi.BufPtr + 1 \in 0 .. BlockSize /\ sasi.BufPtr + 1 \in Bytes
  BY SizeAssumption DEF IInv, Typed, Pointers, WriteData, States, Bytes
<1>2. buf \in Block /\ (\A i \in Bytes : buf[i] = IF i = sasi.BufPtr + 1 THEN byte ELSE sasi.Buf[i])
  BY <1>1 DEF Block
<1>3. Access(s) /\ image' = image /\ Moves(byte)
  <2>1. s.BufPtr # BlockSize
    BY <1>1 DEF States
  <2> QED
    BY <2>1 DEF WriteData
<1> HIDE DEF buf
<1>4. s \in States
  <2>1. sasi \in States /\ buf \in Block /\ sasi.BufPtr + 1 \in 0 .. BlockSize
    BY <1>1, <1>2
  <2> QED
    BY <2>1 DEF States
<1>5. /\ s.Phase = 3 /\ s.BufPtr = sasi.BufPtr + 1 /\ s.RW = 0 /\ s.Buf = buf
      /\ s.Sector = sasi.Sector /\ s.Blocks = sasi.Blocks /\ s.found = sasi.found
      /\ s.Stat = sasi.Stat /\ s.Error = sasi.Error
  BY <1>1 DEF States
<1> HIDE DEF s
<1>6. Pointers(s)
  BY <1>1, <1>5 DEF Pointers
<1>7. /\ sasi' \in States /\ Pointers(sasi')
      /\ sasi'.Phase = 3 /\ sasi'.Stat = sasi.Stat /\ sasi'.Error = sasi.Error
      /\ sasi'.Sector = sasi.Sector /\ sasi'.Blocks = sasi.Blocks
      /\ sasi'.BufPtr = sasi.BufPtr + 1 /\ sasi'.RW = 0
      /\ sasi'.Buf = buf /\ sasi'.found = sasi.found
      /\ HDImage' \in SUBSET Drive
      /\ IntEnable' \in BOOLEAN /\ IntStat' \in BOOLEAN /\ asked' \in BOOLEAN
  BY <1>4, <1>5, <1>3, <1>6, AccessIs DEF IInv
<1>8. /\ moved \in Seq(Byte) /\ Len(moved) = sasi.BufPtr /\ image \in Seq(Block)
      /\ \A i \in 1 .. sasi.BufPtr : moved[i] = sasi.Buf[i]
  BY <1>1 DEF IInv, Typed, TransferInv
<1>9. moved' \in Seq(Byte) /\ last' = Blank /\ last' \in Block /\ moved' = Append(moved, byte)
  BY <1>1, <1>3, <1>8, MovesIs
<1>10. Typed'
  BY <1>3, <1>7, <1>8, <1>9 DEF Typed
<1>11. TransferInv'
  <2>1. Len(moved') = sasi'.BufPtr
    BY <1>7, <1>8, <1>9
  <2>2. \A i \in 1 .. sasi'.BufPtr : moved'[i] = sasi'.Buf[i]
    <3> SUFFICES ASSUME NEW i \in 1 .. sasi'.BufPtr PROVE moved'[i] = sasi'.Buf[i]
      OBVIOUS
    <3>1. i \in Bytes
      BY <1>1, <1>7 DEF Bytes
    <3>2. CASE i = sasi.BufPtr + 1
      BY <1>2, <1>7, <1>8, <1>9, <3>1, <3>2, AppendProperties
    <3>3. CASE i # sasi.BufPtr + 1
      <4>1. i \in 1 .. sasi.BufPtr
        BY <1>1, <1>7, <3>3
      <4> QED
        BY <1>2, <1>7, <1>8, <1>9, <3>1, <3>3, <4>1, AppendProperties
    <3> QED
      BY <3>2, <3>3
  <2> QED
    BY <1>7, <2>1, <2>2 DEF TransferInv
<1>12. Device!Otherwise
  BY <1>1, <1>3, <1>7, <1>9, QuietInside
<1> QED
  BY <1>7, <1>10, <1>11, <1>12 DEF StepGood, IInv, Announced, Device!Next

(* The last byte of a block written.                                       *)
LEMMA WriteBlockKeeps ==
  ASSUME IInv, NEW byte \in Byte, WriteData(byte), sasi.BufPtr + 1 = BlockSize
  PROVE  StepGood
<1> DEFINE buf == [sasi.Buf EXCEPT ![sasi.BufPtr + 1] = byte]
           s == [sasi EXCEPT !.Buf = buf, !.BufPtr = @ + 1]
<1>1. /\ sasi \in States /\ sasi.Phase = 3 /\ sasi.RW = 0 /\ sasi.BufPtr < BlockSize
      /\ sasi.BufPtr \in Nat /\ BlockSize \in Nat /\ sasi.Buf \in Block
      /\ sasi.BufPtr + 1 \in 0 .. BlockSize /\ sasi.BufPtr + 1 \in Bytes
  BY SizeAssumption DEF IInv, Typed, Pointers, WriteData, States, Bytes
<1>2. buf \in Block /\ (\A i \in Bytes : buf[i] = IF i = sasi.BufPtr + 1 THEN byte ELSE sasi.Buf[i])
  BY <1>1 DEF Block
<1>3. /\ Moves(byte)
      /\ \E stores \in BOOLEAN, f \in {-1, 0, 1} :
           /\ SASI_Flush(s, stores)
           /\ f \in Found([s EXCEPT !.Sector = @ + 1])
           /\ Access(NextBlock(s, f))
  <2>1. s.BufPtr = BlockSize
    BY <1>1 DEF States
  <2> QED
    BY <2>1 DEF WriteData
<1> HIDE DEF buf
<1>4. s \in States
  <2>1. sasi \in States /\ buf \in Block /\ sasi.BufPtr + 1 \in 0 .. BlockSize
    BY <1>1, <1>2
  <2> QED
    BY <2>1 DEF States
<1>5. /\ s.Phase = 3 /\ s.RW = sasi.RW /\ s.Buf = buf
      /\ s.Sector = sasi.Sector /\ s.Blocks = sasi.Blocks
      /\ s.Stat = sasi.Stat /\ s.Error = sasi.Error
  BY <1>1 DEF States
<1> HIDE DEF s
<1>6. PICK stores \in BOOLEAN, f \in Found([s EXCEPT !.Sector = @ + 1]) :
        SASI_Flush(s, stores) /\ Access(NextBlock(s, f))
  BY <1>3
<1>7. /\ moved \in Seq(Byte) /\ Len(moved) = sasi.BufPtr /\ image \in Seq(Block)
      /\ \A i \in 1 .. sasi.BufPtr : moved[i] = sasi.Buf[i] /\ sasi.Sector \in Nat
  BY <1>1 DEF IInv, Typed, TransferInv, States
<1>8. moved' = << >> /\ last' = Append(moved, byte) /\ last' \in Block
  BY <1>1, <1>3, <1>7, MovesIs
<1>9. last' = buf
  <2>1. \A i \in Bytes : last'[i] = buf[i]
    BY <1>1, <1>2, <1>7, <1>8, AppendProperties DEF Bytes
  <2> QED
    BY <1>2, <1>8, <2>1, SameBlock
<1>10. image' = image \/ image' = Written(sasi.Sector, last')
  BY <1>5, <1>6, <1>9 DEF SASI_Flush
<1>11. sasi.Sector \in Nat
  BY <1>1 DEF States
<1>12. /\ Written(sasi.Sector, last') \in Seq(Block)
       /\ Len(Written(sasi.Sector, last'))
            = IF sasi.Sector < Len(image) THEN Len(image) ELSE sasi.Sector + 1
       /\ \A i \in 1 .. Len(Written(sasi.Sector, last')) :
            Written(sasi.Sector, last')[i]
              = IF i = sasi.Sector + 1 THEN last' ELSE IF i <= Len(image) THEN image[i] ELSE Blank
  BY <1>7, <1>8, <1>11, WrittenIs
<1>13. image' \in Seq(Block)
  BY <1>7, <1>10, <1>12
<1>14. IInv' /\ Announced /\ (Device!GoesOn \/ Device!Ends)
  BY <1>1, <1>4, <1>5, <1>6, <1>8, <1>13, BlockKeeps
<1>15. Device!Store
  <2>1. Transferring /\ Head(Places) = sasi.Sector
    BY <1>1, PlacesAre DEF Transferring
  <2>2. Head(Job.todo) = sasi.Sector /\ Job.kind = "write"
    BY <1>1, <2>1 DEF Job
  <2>3. CASE image' = image
    BY <1>8, <1>14, <2>2, <2>3 DEF Device!Store, Job, Places
  <2>4. CASE image' = Written(sasi.Sector, last')
    <3> DEFINE disk == [n \in 0 .. Len(image) - 1 |-> image[n + 1]]
               new == [n \in 0 .. Len(image') - 1 |-> image'[n + 1]]
    <3>1. /\ Len(image) \in Nat /\ Len(image') \in Nat
          /\ Len(image') = IF sasi.Sector < Len(image) THEN Len(image) ELSE sasi.Sector + 1
          /\ \A i \in 1 .. Len(image') :
               image'[i] = IF i = sasi.Sector + 1 THEN last'
                           ELSE IF i <= Len(image) THEN image[i] ELSE Blank
      BY <1>7, <1>12, <1>13, <2>4
    <3>2. DOMAIN disk = 0 .. Len(image) - 1 /\ DOMAIN new = 0 .. Len(image') - 1
      OBVIOUS
    <3>3. sasi.Sector \in DOMAIN new /\ DOMAIN disk \subseteq DOMAIN new
      BY <1>11, <3>1, <3>2
    <3>4. new[sasi.Sector] = last'
      BY <1>11, <3>1, <3>2, <3>3
    <3>5. ASSUME NEW p \in DOMAIN new \ {sasi.Sector}
          PROVE  new[p] = IF p \in DOMAIN disk THEN disk[p] ELSE Blank
      <4>1. p \in Int /\ p >= 0 /\ p + 1 \in 1 .. Len(image') /\ p + 1 # sasi.Sector + 1
        BY <1>11, <3>1, <3>2
      <4>2. new[p] = image'[p + 1] /\ (p \in DOMAIN disk <=> p + 1 <= Len(image))
        BY <3>1, <3>2, <4>1
      <4>3. p \in DOMAIN disk => disk[p] = image[p + 1]
        BY <3>2
      <4> QED
        BY <3>1, <4>1, <4>2, <4>3
    <3> HIDE DEF disk, new
    <3>6. Device!Put(sasi.Sector, last')
      BY <3>3, <3>4, <3>5 DEF Device!Put, disk, new
    <3> QED
      BY <1>8, <1>14, <2>2, <3>6 DEF Device!Store, Job, Places
  <2> QED
    BY <1>10, <2>3, <2>4
<1> QED
  BY <1>14, <1>15 DEF StepGood, Device!Next

-----------------------------------------------------------------------------
(* The steps that complete no block.                                       *)

(* A step from outside a transfer to outside of one.                       *)
LEMMA OutsideKeeps ==
  ASSUME IInv, sasi' \in States, Pointers(sasi'), sasi'.Phase # 3, moved' = << >>,
         last' = Blank, image' = image, HDImage' \in SUBSET Drive,
         IntEnable' \in BOOLEAN, IntStat' \in BOOLEAN, asked' \in BOOLEAN, Announced
  PROVE  StepGood
<1>1. Typed'
  BY BlankTyped DEF IInv, Typed
<1>2. TransferInv'
  BY DEF TransferInv
<1>3. Device!Abort
  BY QuietOutside
<1> QED
  BY <1>1, <1>2, <1>3 DEF IInv, StepGood, Device!Next

(* A step inside a transfer that moves nothing.                            *)
LEMMA InsideKeeps ==
  ASSUME IInv, sasi.Phase = 3, sasi' \in States, Pointers(sasi'), sasi'.Phase = 3,
         sasi'.Sector = sasi.Sector, sasi'.Blocks = sasi.Blocks, sasi'.RW = sasi.RW,
         sasi'.found = sasi.found, sasi'.Error = sasi.Error, sasi'.Stat = sasi.Stat,
         sasi'.BufPtr = sasi.BufPtr, sasi'.Buf = sasi.Buf,
         moved' = moved, last' = Blank, image' = image, HDImage' \in SUBSET Drive,
         IntEnable' \in BOOLEAN, IntStat' \in BOOLEAN, asked' \in BOOLEAN
  PROVE  StepGood
<1>1. Typed'
  BY BlankTyped DEF IInv, Typed
<1>2. TransferInv'
  BY DEF IInv, TransferInv, Sought
<1>3. Device!Otherwise
  BY QuietInside DEF IInv, Typed
<1> QED
  BY <1>1, <1>2, <1>3 DEF IInv, StepGood, Announced, Device!Next

(* An access to the data port that begins and ends outside a transfer.     *)
LEMMA AccessKeeps ==
  ASSUME IInv, sasi.Phase # 3, NEW t \in States, Pointers(t), t.Phase # 3, Access(t),
         Unmoved, image' = image
  PROVE  StepGood
<1>1. /\ sasi' \in States /\ Pointers(sasi') /\ sasi'.Phase = t.Phase
      /\ HDImage' \in SUBSET Drive
      /\ IntEnable' \in BOOLEAN /\ IntStat' \in BOOLEAN /\ asked' \in BOOLEAN
      /\ t.Phase = 4 => IntStat' /\ (IntEnable => asked')
  BY AccessIs DEF IInv
<1>2. moved' = << >> /\ last' = Blank
  BY DEF IInv, TransferInv, Unmoved
<1>3. Announced
  BY <1>1 DEF Announced
<1> QED
  BY <1>1, <1>2, <1>3, OutsideKeeps

(* The bytes of a command, and what the last one begins.                   *)
LEMMA CommandKeeps ==
  ASSUME IInv, NEW command \in Command, WriteCommand(command)
  PROVE  StepGood
<1> DEFINE s == [sasi EXCEPT !.CmdPtr = @ + 1]
           u == [s EXCEPT !.Unit = command.unit]
<1>1. sasi \in States /\ sasi.Phase = 2 /\ sasi.CmdPtr < 6 /\ sasi.CmdPtr + 1 \in 0 .. 6
  BY DEF IInv, Typed, Pointers, WriteCommand, States
<1>2. s \in States /\ s.Phase = 2 /\ s.CmdPtr = sasi.CmdPtr + 1
  BY <1>1 DEF States
<1>3. Unmoved /\ image' = image /\ image \in Seq(Block)
  BY DEF WriteCommand, IInv, Typed
<1>4. CASE s.CmdPtr # 6
  <2>1. Access(s)
    BY <1>4 DEF WriteCommand
  <2> HIDE DEF s
  <2>2. Pointers(s)
    BY <1>1, <1>2, <1>4 DEF Pointers
  <2> QED
    BY <1>1, <1>2, <1>3, <2>1, <2>2, AccessKeeps
<1>5. CASE s.CmdPtr = 6
  <2>1. PICK t \in SASI_CheckCmd(u, command) : Access(t)
    BY <1>5 DEF WriteCommand
  <2> HIDE DEF s
  <2>2. command.unit \in {0, 1}
    BY DEF Command
  <2>3. u \in States
    BY <1>2, <2>2 DEF States
  <2> HIDE DEF u
  <2>4. t \in States /\ Pointers(t) /\ Begun(t)
    BY <1>3, <2>1, <2>3, CheckCmdIs
  <2>5. CASE t.Phase # 3
    BY <1>1, <1>3, <2>1, <2>4, <2>5, AccessKeeps
  <2>6. CASE t.Phase = 3
    <3>1. /\ sasi' \in States /\ Pointers(sasi') /\ sasi'.Phase = 3
          /\ sasi'.Stat = t.Stat /\ sasi'.Error = t.Error
          /\ sasi'.Sector = t.Sector /\ sasi'.Blocks = t.Blocks
          /\ sasi'.BufPtr = t.BufPtr /\ sasi'.RW = t.RW
          /\ sasi'.Buf = t.Buf /\ sasi'.found = t.found
          /\ HDImage' \in SUBSET Drive
          /\ IntEnable' \in BOOLEAN /\ IntStat' \in BOOLEAN /\ asked' \in BOOLEAN
      BY <2>1, <2>4, <2>6, AccessIs DEF IInv
    <3>2. t.BufPtr = 0 /\ Sought(t) /\ (t.found # 1 => t.Error = 15)
      BY <2>4, <2>6 DEF Begun
    <3>3. moved' = << >> /\ last' = Blank
      BY <1>1, <1>3 DEF IInv, TransferInv, Unmoved
    <3>4. Typed'
      BY <1>3, <3>1, <3>3, BlankTyped DEF Typed
    <3>5. TransferInv'
      <4>1. Sought(sasi)'
        BY <1>3, <3>1, <3>2 DEF Sought
      <4>2. Len(moved') = 0 /\ sasi'.BufPtr = 0
        BY <3>1, <3>2, <3>3
      <4> QED
        BY <3>1, <4>1, <4>2 DEF TransferInv
    <3>6. Device!Start
      <4>1. ~Transferring /\ Transferring'
        BY <1>1, <3>1 DEF Transferring
      <4>2. Places' # << >>
        <5>1. BlocksLeft' \in Nat /\ BlocksLeft' >= 1
          BY <3>1, SizeAssumption DEF BlocksLeft, States
        <5>2. Places' = [i \in 1 .. BlocksLeft' |-> sasi'.Sector + i - 1]
          BY DEF Places
        <5> QED
          BY <5>1, <5>2
      <4>3. Job'.kind \in {"read", "write"} /\ Job'.todo # << >>
        BY <4>1, <4>2 DEF Job
      <4>4. (Transferring /\ sasi.RW = 1 /\ sasi.found # 1)' => (sasi.Error # 0 \/ sasi.Stat # 0)'
        BY <3>1, <3>2
      <4> QED
        BY <1>3, <3>3, <4>1, <4>3, <4>4 DEF Device!Start, Device!Idle, Job, Places
    <3> QED
      BY <3>1, <3>4, <3>5, <3>6 DEF StepGood, IInv, Announced, Device!Next
  <2> QED
    BY <2>5, <2>6
<1> QED
  BY <1>4, <1>5

(* The status, the message and the sense data are read.                    *)
LEMMA StatusKeeps == ASSUME IInv, ReadStatus PROVE StepGood
<1> DEFINE t == [sasi EXCEPT !.Phase = 5]
<1>1. sasi \in States /\ sasi.Phase = 4 /\ Access(t) /\ Unmoved /\ image' = image
  BY DEF IInv, Typed, ReadStatus
<1>2. t \in States /\ t.Phase = 5
  BY <1>1, PhaseTyped
<1> HIDE DEF t
<1>3. Pointers(t)
  BY <1>2 DEF Pointers
<1> QED
  BY <1>1, <1>2, <1>3, AccessKeeps

(* The message ends the command.                                           *)
LEMMA MessageKeeps == ASSUME IInv, ReadMessage PROVE StepGood
<1> DEFINE t == [sasi EXCEPT !.Phase = 0]
<1>1. sasi \in States /\ sasi.Phase = 5 /\ Access(t) /\ Unmoved /\ image' = image
  BY DEF IInv, Typed, ReadMessage
<1>2. t \in States /\ t.Phase = 0
  BY <1>1, PhaseTyped
<1> HIDE DEF t
<1>3. Pointers(t)
  BY <1>2 DEF Pointers
<1> QED
  BY <1>1, <1>2, <1>3, AccessKeeps

(* A byte of the sense data, the last of which clears the error.           *)
LEMMA SenseKeeps == ASSUME IInv, ReadSense PROVE StepGood
<1> DEFINE s == [sasi EXCEPT !.SenseStatPtr = @ + 1]
           e == [s EXCEPT !.Error = 0]
           done == [e EXCEPT !.Phase = 4]
           t == IF s.SenseStatPtr = 4 THEN done ELSE s
<1>1. /\ sasi \in States /\ sasi.Phase = 9 /\ Access(t) /\ Unmoved /\ image' = image
      /\ sasi.SenseStatPtr < 4 /\ sasi.SenseStatPtr \in Nat
  BY DEF IInv, Typed, Pointers, ReadSense, States
<1>2. s \in States /\ s.Phase = 9 /\ s.SenseStatPtr = sasi.SenseStatPtr + 1
  <2>1. sasi.SenseStatPtr + 1 \in 0 .. 10
    BY <1>1
  <2> QED
    BY <1>1, <2>1 DEF States
<1> HIDE DEF s
<1>3. e \in States
  BY <1>2, ErrorTyped
<1> HIDE DEF e
<1>4. done \in States /\ done.Phase = 4
  BY <1>3, PhaseTyped
<1> HIDE DEF done
<1>5. t \in States /\ Pointers(t) /\ t.Phase # 3
  BY <1>1, <1>2, <1>4 DEF Pointers
<1> HIDE DEF t
<1> QED
  BY <1>1, <1>5, AccessKeeps

(* A byte after command 0xc2, the last of which leads to the status.       *)
LEMMA UnitKeeps == ASSUME IInv, WriteUnit PROVE StepGood
<1> DEFINE s == [sasi EXCEPT !.SenseStatPtr = @ + 1]
           done == [s EXCEPT !.Phase = 4]
           t == IF s.SenseStatPtr = 10 THEN done ELSE s
<1>1. /\ sasi \in States /\ sasi.Phase = 10 /\ Access(t) /\ Unmoved /\ image' = image
      /\ sasi.SenseStatPtr < 10 /\ sasi.SenseStatPtr \in Nat
  BY DEF IInv, Typed, Pointers, WriteUnit, States
<1>2. s \in States /\ s.Phase = 10 /\ s.SenseStatPtr = sasi.SenseStatPtr + 1
  <2>1. sasi.SenseStatPtr + 1 \in 0 .. 10
    BY <1>1
  <2> QED
    BY <1>1, <2>1 DEF States
<1> HIDE DEF s
<1>3. done \in States /\ done.Phase = 4
  BY <1>2, PhaseTyped
<1> HIDE DEF done
<1>4. t \in States /\ Pointers(t) /\ t.Phase # 3
  BY <1>1, <1>2, <1>3 DEF Pointers
<1> HIDE DEF t
<1> QED
  BY <1>1, <1>4, AccessKeeps

(* A write that no phase waits for.                                        *)
LEMMA ElsewhereKeeps == ASSUME IInv, WriteElsewhere PROVE StepGood
<1>1. sasi \in States /\ Pointers(sasi) /\ Access(sasi) /\ Unmoved /\ image' = image
  BY DEF IInv, Typed, WriteElsewhere
<1>2. CASE sasi.Phase # 3
  BY <1>1, <1>2, AccessKeeps
<1>3. CASE sasi.Phase = 3
  <2>1. /\ sasi' \in States /\ Pointers(sasi')
        /\ sasi'.Phase = sasi.Phase /\ sasi'.Stat = sasi.Stat /\ sasi'.Error = sasi.Error
        /\ sasi'.Sector = sasi.Sector /\ sasi'.Blocks = sasi.Blocks
        /\ sasi'.BufPtr = sasi.BufPtr /\ sasi'.RW = sasi.RW
        /\ sasi'.Buf = sasi.Buf /\ sasi'.found = sasi.found
        /\ HDImage' \in SUBSET Drive
        /\ IntEnable' \in BOOLEAN /\ IntStat' \in BOOLEAN /\ asked' \in BOOLEAN
    BY <1>1, <1>3, AccessIs DEF IInv
  <2> QED
    BY <1>1, <1>3, <2>1, InsideKeeps DEF Unmoved
<1> QED
  BY <1>2, <1>3

(* A device is selected, or none answers.                                  *)
LEMMA SelectKeeps ==
  ASSUME IInv, NEW device \in Target \union {Nowhere}, NEW any, Select(device, any)
  PROVE  StepGood
<1> DEFINE d == [sasi EXCEPT !.Device = device]
           p == [d EXCEPT !.Phase = 1]
           q == [p EXCEPT !.CmdPtr = 0]
<1>1. /\ sasi \in States /\ sasi.Phase = 0 /\ image' = image /\ last' = Blank
      /\ moved' = moved /\ moved = << >> /\ HDImage' \in SUBSET Drive
      /\ IntEnable' \in BOOLEAN /\ IntStat' \in BOOLEAN /\ asked' \in BOOLEAN
  <2>1. /\ sasi.Phase = 0 /\ image' = image /\ last' = Blank /\ moved' = moved
        /\ asked' = FALSE /\ HDImage' = HDImage
        /\ IntEnable' = IntEnable /\ IntStat' = IntStat
    BY DEF Select, Elsewhere, Unmoved, iocVars
  <2>2. sasi \in States /\ moved = << >>
    BY <2>1 DEF IInv, Typed, TransferInv, Pointers
  <2>3. HDImage' \in SUBSET Drive /\ IntEnable' \in BOOLEAN /\ IntStat' \in BOOLEAN
    BY <2>1 DEF IInv, Typed
  <2>4. asked' \in BOOLEAN
    BY <2>1
  <2> QED
    BY <2>1, <2>2, <2>3, <2>4
<1>2. sasi' = q \/ sasi' = d
  <2>1. sasi' = IF any THEN q ELSE d
    BY DEF Select
  <2> HIDE DEF q, p, d
  <2> QED
    BY <2>1
<1>3. d \in States /\ d.Phase = 0
  BY <1>1 DEF States
<1> HIDE DEF d
<1>4. p \in States /\ p.Phase = 1
  BY <1>3, PhaseTyped
<1> HIDE DEF p
<1>5. q \in States /\ q.Phase = 1 /\ q.CmdPtr = 0
  BY <1>4 DEF States
<1> HIDE DEF q
<1>6. sasi' \in States /\ (sasi'.Phase = 0 \/ (sasi'.Phase = 1 /\ sasi'.CmdPtr = 0))
  BY <1>2, <1>3, <1>5
<1>7. Pointers(sasi') /\ Announced
  BY <1>6 DEF Pointers, Announced
<1> QED
  BY <1>1, <1>6, <1>7, OutsideKeeps

(* The selection ends: the controller waits for a command.                 *)
LEMMA EndSelectionKeeps == ASSUME IInv, EndSelection PROVE StepGood
<1>1. /\ sasi \in States /\ sasi.Phase = 1 /\ image' = image /\ last' = Blank
      /\ moved' = moved /\ moved = << >> /\ HDImage' \in SUBSET Drive
      /\ IntEnable' \in BOOLEAN /\ IntStat' \in BOOLEAN /\ asked' \in BOOLEAN
      /\ sasi.CmdPtr < 6
  <2>1. /\ sasi.Phase = 1 /\ image' = image /\ last' = Blank /\ moved' = moved
        /\ asked' = FALSE /\ HDImage' = HDImage
        /\ IntEnable' = IntEnable /\ IntStat' = IntStat
    BY DEF EndSelection, Elsewhere, Unmoved, iocVars
  <2>2. sasi \in States /\ sasi.CmdPtr < 6 /\ moved = << >>
    BY <2>1 DEF IInv, Typed, TransferInv, Pointers
  <2>3. HDImage' \in SUBSET Drive /\ IntEnable' \in BOOLEAN /\ IntStat' \in BOOLEAN
    BY <2>1 DEF IInv, Typed
  <2>4. asked' \in BOOLEAN
    BY <2>1
  <2> QED
    BY <2>1, <2>2, <2>3, <2>4
<1>2. sasi' \in States /\ sasi'.Phase = 2 /\ sasi'.CmdPtr = sasi.CmdPtr
  BY <1>1 DEF EndSelection, States
<1>3. Pointers(sasi') /\ Announced
  BY <1>1, <1>2 DEF Pointers, Announced
<1> QED
  BY <1>1, <1>2, <1>3, OutsideKeeps

(* The bus is reset.                                                       *)
LEMMA ResetKeeps == ASSUME IInv, NEW machine, Reset(machine) PROVE StepGood
<1>1. sasi' = BusFree /\ image' = image /\ moved' = << >> /\ last' = Blank /\ asked' = FALSE
      /\ HDImage' \in SUBSET Drive /\ IntEnable' \in BOOLEAN /\ IntStat' \in BOOLEAN
  BY DEF IInv, Typed, Reset, iocVars
<1>2. sasi' \in States /\ Pointers(sasi') /\ sasi'.Phase = 0
  BY <1>1, BusFreeTyped DEF BusFree
<1>3. asked' \in BOOLEAN
  BY <1>1
<1>4. Announced
  BY <1>2 DEF Announced
<1>5. sasi'.Phase # 3
  BY <1>2
<1> QED
  BY <1>1, <1>2, <1>3, <1>4, <1>5, OutsideKeeps

(* The enable and the images change, the controller does not.              *)
LEMMA OthersKeep ==
  ASSUME IInv, sasi' = sasi, image' = image, Elsewhere, HDImage' \in SUBSET Drive,
         IntEnable' \in BOOLEAN, IntStat' \in BOOLEAN
  PROVE  StepGood
<1>1. sasi \in States /\ Pointers(sasi) /\ moved' = moved /\ last' = Blank /\ asked' = FALSE
  BY DEF IInv, Typed, Elsewhere, Unmoved
<1>2. CASE sasi.Phase = 3
  BY <1>1, <1>2, InsideKeeps
<1>3. CASE sasi.Phase # 3
  <2>1. moved = << >>
    BY <1>3 DEF IInv, TransferInv
  <2> QED
    BY <1>1, <1>3, <2>1, OutsideKeeps DEF Announced
<1> QED
  BY <1>2, <1>3

(* Every step.                                                             *)
LEMMA NextKeeps == ASSUME IInv, Next PROVE StepGood
<1>1. CASE \E device \in Target \union {Nowhere} : \E any \in Answers(device) : Select(device, any)
  BY <1>1, SelectKeeps
<1>2. CASE FollowsBus
  <2>1. ASSUME NEW byte \in Byte, WriteData(byte) PROVE StepGood
    BY <2>1, WriteByteKeeps, WriteBlockKeeps
  <2>2. ASSUME ReadData PROVE StepGood
    BY <2>2, ReadByteKeeps, ReadBlockKeeps
  <2> QED
    BY <1>2, <2>1, <2>2, EndSelectionKeeps, CommandKeeps, UnitKeeps, SenseKeeps, StatusKeeps,
       MessageKeeps DEF FollowsBus
<1>3. CASE WriteElsewhere
  BY <1>3, ElsewhereKeeps
<1>4. CASE \E machine \in BOOLEAN : Reset(machine)
  BY <1>4, ResetKeeps
<1>5. CASE \E enable \in BOOLEAN : IOC_Write(enable)
  <2>1. sasi' = sasi /\ image' = image /\ Elsewhere /\ HDImage' = HDImage
        /\ IntStat' = IntStat /\ IntEnable' \in BOOLEAN
    BY <1>5 DEF IOC_Write
  <2> QED
    BY <2>1, OthersKeep DEF IInv, Typed
<1>6. CASE \E drives \in SUBSET Drive : ChooseImages(drives)
  <2>1. sasi' = sasi /\ image' = image /\ Elsewhere /\ HDImage' \in SUBSET Drive
        /\ IntStat' = IntStat /\ IntEnable' = IntEnable
    BY <1>6 DEF ChooseImages, iocVars
  <2> QED
    BY <2>1, OthersKeep DEF IInv, Typed
<1> QED
  BY <1>1, <1>2, <1>3, <1>4, <1>5, <1>6 DEF Next

-----------------------------------------------------------------------------
(* What is on the bus, what the program has moved of a block and what the  *)
(* last seek found agree in every reachable state.                         *)
THEOREM InvariantHolds == Spec => []IInv
<1>1. IInv /\ [Next]_vars => IInv'
  <2>1. ASSUME IInv, UNCHANGED vars PROVE IInv'
    BY <2>1 DEF vars, iocVars, historyVars, IInv, Typed, TransferInv, Sought, Pointers
  <2> QED
    BY <2>1, NextKeeps DEF StepGood
<1> QED
  BY InitEstablishes, <1>1, PTL DEF Spec

(* No pointer leaves its buffer, and every variable of the controller      *)
(* stays in its range.                                                     *)
THEOREM TypeCorrect == Spec => []TypeOK
<1>1. IInv => TypeOK
  BY IsTypeOK DEF IInv
<1> QED
  BY <1>1, InvariantHolds, PTL

(* Every status phase is announced in the I/O controller, and to the CPU   *)
(* if the program enabled it.                                              *)
THEOREM StatusesAreAnnounced == Spec => StatusIsAnnounced
<1>1. IInv /\ [Next]_vars =>
        [sasi'.Phase = 4 /\ sasi.Phase # 4 => IntStat' /\ (IntEnable => asked')]_vars
  BY NextKeeps DEF StepGood, Announced
<1> QED
  BY <1>1, InvariantHolds, PTL DEF Spec, StatusIsAnnounced

(* The controller is a device that moves whole blocks: of a read each      *)
(* block is the one in the file, or blank when the status will say so; of  *)
(* a write each is stored at its place and at no other, or lost.           *)
THEOREM ImplementsDevice == Spec => MovesBlocks
<1> DEFINE devVars == <<[n \in 0 .. Len(image) - 1 |-> image[n + 1]], Job, last,
                        Transferring /\ sasi.RW = 1 /\ sasi.found # 1,
                        sasi.Error # 0 \/ sasi.Stat # 0>>
<1>1. Init => Device!Init
  <2> SUFFICES ASSUME Init PROVE Device!Init
    OBVIOUS
  <2>1. sasi.Phase = 0 /\ sasi.Error = 0 /\ sasi.Stat = 0 /\ last = Blank
    BY DEF Init, BusFree
  <2>2. ~Transferring
    BY <2>1 DEF Transferring
  <2> QED
    BY <2>1, <2>2 DEF Device!Init, Device!Idle
<1>2. IInv /\ [Next]_vars => [Device!Next]_devVars
  <2>1. ASSUME UNCHANGED vars PROVE UNCHANGED devVars
    <3>1. sasi' = sasi /\ image' = image /\ last' = last
      BY <2>1 DEF vars, historyVars
    <3> QED
      BY <3>1 DEF Job, Places, Transferring, BlocksLeft
  <2> QED
    BY <2>1, NextKeeps DEF StepGood
<1>3. IInv /\ [Next]_vars =>
        [Device!Next]_<<[n \in 0 .. Len(image) - 1 |-> image[n + 1]],
          IF Transferring
          THEN [kind |-> IF sasi.RW = 1 THEN "read" ELSE "write",
                todo |-> [i \in 1 .. BlocksLeft |-> sasi.Sector + i - 1]]
          ELSE [kind |-> "idle", todo |-> << >>],
          last, Transferring /\ sasi.RW = 1 /\ sasi.found # 1,
          sasi.Error # 0 \/ sasi.Stat # 0>>
  BY <1>2 DEF Job, Places
<1> QED
  BY <1>1, <1>3, InvariantHolds, PTL DEF Spec, MovesBlocks, Device!Spec

=============================================================================
