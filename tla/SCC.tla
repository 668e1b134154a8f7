-------------------------------- MODULE SCC ---------------------------------
(***************************************************************************)
(* The mouse (libretro/mouse.c) and the serial controller it talks through *)
(* (x68k/scc.c): the host's motion adds up, the program takes a sample of  *)
(* it by raising RTS, and reads the three bytes of the packet, for each of *)
(* which, or for the first, the controller asks for an interrupt.          *)
(*                                                                         *)
(* The mouse is captured from the first frame on and for good.  One axis   *)
(* stands for both, and the buttons are left out.  Motion is counted in    *)
(* fractions, Unit to a count, where the code has a float.  The vector is  *)
(* left out.                                                               *)
(***************************************************************************)
EXTENDS IRQH, Sequences

CONSTANTS
  Unit,                 \* the fractions of a count
  Limit,                \* the largest count of a packet: 127
  Motion,               \* what the host may move in a frame, in fractions
  Sums                  \* bound: the motion between two samples, in fractions

ASSUME CountAssumption == Unit \in Nat \ {0} /\ Limit \in Nat
ASSUME MotionAssumption == Motion \subseteq Int /\ Sums \subseteq Int /\ 0 \in Sums

VARIABLES
  MouseDX,              \* the motion since the last sample
  SCC_Dat,              \* the bytes of the packet that are to be read
  SCC_Regs,             \* what WR1, WR3, WR5 and WR9 hold of interest
  SCC_RegNum,           \* the register each port's next byte goes to
  flag_I,               \* the interrupt mask of the CPU's SR
  serving,              \* the program's routine for level 5: "no", or it
                        \* has "entered", or it has "read" a byte
  owed                  \* history: the motion of the host that the program is
                        \* still to be told of

vars == <<irqh, MouseDX, SCC_Dat, SCC_Regs, SCC_RegNum, flag_I, serving, owed>>
cpuVars == <<flag_I, serving>>

SccLevel == 5
NoReg == -1
Ports == {"A", "B"}

(* WR1 asks for an interrupt on no byte, on the first, or on all of them.  *)
Values(reg) == IF reg = 1 THEN {"none", "first", "all"} ELSE BOOLEAN

(* Port B has them all; through port A only WR9 is reached.                *)
Regs == {1, 3, 5, 9}

Counts == -(Limit + 1) .. Limit
Bytes == [is : {"St"}, over : BOOLEAN] \union [is : {"X"}, x : Counts] \union [is : {"Y"}]

Init ==
  /\ irqh = IRQH_Start
  /\ MouseDX = 0 /\ SCC_Dat = << >>
  /\ SCC_Regs = [r \in Regs |-> IF r = 1 THEN "none" ELSE FALSE]
  /\ SCC_RegNum = [p \in Ports |-> NoReg]
  /\ flag_I = 7 /\ serving = "no"
  /\ owed = 0

(* WinX68k_Reset, with SCC_Init: the registers keep their values, and the  *)
(* motion its sum.                                                         *)
Reset ==
  /\ irqh' = IRQH_Reset(irqh)
  /\ SCC_Dat' = << >> /\ SCC_RegNum' = [p \in Ports |-> NoReg]
  /\ flag_I' = 7 /\ serving' = "no"
  /\ owed' = MouseDX
  /\ UNCHANGED <<MouseDX, SCC_Regs>>

-----------------------------------------------------------------------------
(* The mouse.                                                              *)

Mouse_Event(dx) ==
  /\ MouseDX + dx \in Sums
  /\ MouseDX' = MouseDX + dx
  /\ owed' = owed + dx
  /\ UNCHANGED <<irqh, SCC_Dat, SCC_Regs, SCC_RegNum, cpuVars>>

(* The cast of a float to int: towards zero.                               *)
Whole(dx) == IF dx >= 0 THEN dx \div Unit ELSE -((-dx) \div Unit)

(* Mouse_SetData: the count, and whether it was too large for a byte.      *)
Mouse_SetData(dx) ==
  CASE Whole(dx) > Limit -> [x |-> Limit, over |-> TRUE]
    [] Whole(dx) < -(Limit + 1) -> [x |-> -(Limit + 1), over |-> TRUE]
    [] OTHER -> [x |-> Whole(dx), over |-> FALSE]

(* Status first, then X, then Y.                                           *)
Packet(data) ==
  <<[is |-> "St", over |-> data.over], [is |-> "X", x |-> data.x], [is |-> "Y"]>>

-----------------------------------------------------------------------------
(* The controller.                                                         *)

(* Mutant of InterruptWanted: the bytes after the first are not asked for. *)
InterruptWanted_FirstOnly ==
  Len(SCC_Dat) = 3 /\ SCC_Regs[9] /\ SCC_Regs[1] # "none"

InterruptWanted ==
  /\ SCC_Regs[9]
  /\ \/ SCC_Regs[1] = "all" /\ SCC_Dat # << >>
     \/ SCC_Regs[1] = "first" /\ Len(SCC_Dat) = 3

(* Several times a frame.                                                  *)
SCC_IntCheck ==
  /\ InterruptWanted
  /\ irqh' = IRQH_Int(irqh, SccLevel, "SCC")
  /\ UNCHANGED <<MouseDX, SCC_Dat, SCC_Regs, SCC_RegNum, cpuVars, owed>>

(* SCC_Write: the first byte names a register, the second is its value.    *)
Point(port, reg) ==
  /\ SCC_RegNum[port] = NoReg
  /\ port = "A" => reg = 9
  /\ SCC_RegNum' = [SCC_RegNum EXCEPT ![port] = reg]
  /\ UNCHANGED <<irqh, MouseDX, SCC_Dat, SCC_Regs, cpuVars, owed>>

(* Mutant of Samples: a packet that is being read is written over.         *)
Samples_Overwrites(port, value) ==
  port = "B" /\ SCC_RegNum[port] = 5 /\ ~SCC_Regs[5] /\ value /\ SCC_Regs[3]

(* RTS rises, the receiver is on and nothing of the last packet is left.   *)
Samples(port, value) ==
  port = "B" /\ SCC_RegNum[port] = 5 /\ ~SCC_Regs[5] /\ value /\ SCC_Regs[3] /\ SCC_Dat = << >>

(* The host's motion, less a fraction, is in the packet; one that says it  *)
(* is too large promises no more than it holds.                            *)
SCC_Write(port, value) ==
  /\ SCC_Regs' = [SCC_Regs EXCEPT ![SCC_RegNum[port]] = value]
  /\ SCC_RegNum' = [SCC_RegNum EXCEPT ![port] = NoReg]
  /\ IF Samples(port, value)
     THEN LET data == Mouse_SetData(MouseDX)
          IN  /\ SCC_Dat' = Packet(data)
              /\ MouseDX' = 0
              /\ owed' = IF data.over THEN Unit * data.x
                         ELSE owed - (MouseDX - Unit * Whole(MouseDX))
     ELSE UNCHANGED <<SCC_Dat, MouseDX, owed>>
  /\ UNCHANGED <<irqh, cpuVars>>

(* SCC_Read of a port's status drops the register named.                   *)
ReadStatus(port) ==
  /\ SCC_RegNum[port] # NoReg
  /\ SCC_RegNum' = [SCC_RegNum EXCEPT ![port] = NoReg]
  /\ UNCHANGED <<irqh, MouseDX, SCC_Dat, SCC_Regs, cpuVars, owed>>

(* SCC_Read of the data, by the routine or by anybody.                     *)
ReadData ==
  /\ SCC_Dat # << >> \/ serving = "entered"
  /\ serving' = IF serving = "entered" THEN "read" ELSE serving
  /\ IF SCC_Dat = << >> THEN UNCHANGED <<SCC_Dat, owed>>
     ELSE /\ SCC_Dat' = Tail(SCC_Dat)
          /\ owed' = IF Head(SCC_Dat).is = "X" THEN owed - Unit * Head(SCC_Dat).x ELSE owed
  /\ UNCHANGED <<irqh, MouseDX, SCC_Regs, SCC_RegNum, flag_I>>

-----------------------------------------------------------------------------
(* The CPU and the program.  Nothing but the acknowledge withdraws the     *)
(* request: the routine may find that there is nothing left to read.       *)

CpuAccept ==
  /\ CpuTakes(irqh, flag_I)
  /\ irqh' = my_irqh_callback_End(IRQH_IRQCallBack(CpuAcknowledges(irqh), SccLevel))
  /\ flag_I' = SccLevel
  /\ serving' = "entered"
  /\ UNCHANGED <<MouseDX, SCC_Dat, SCC_Regs, SCC_RegNum, owed>>

EndService ==
  /\ serving = "read"
  /\ serving' = "no" /\ flag_I' = 0
  /\ UNCHANGED <<irqh, MouseDX, SCC_Dat, SCC_Regs, SCC_RegNum, owed>>

SetMask(m) ==
  /\ serving = "no"
  /\ flag_I' = m
  /\ UNCHANGED <<irqh, MouseDX, SCC_Dat, SCC_Regs, SCC_RegNum, serving, owed>>

Next ==
  \/ Reset
  \/ \E dx \in Motion : Mouse_Event(dx)
  \/ SCC_IntCheck
  \/ \E port \in Ports, reg \in Regs : Point(port, reg)
  \/ \E port \in Ports :
       SCC_RegNum[port] # NoReg /\ \E value \in Values(SCC_RegNum[port]) : SCC_Write(port, value)
  \/ \E port \in Ports : ReadStatus(port)
  \/ ReadData
  \/ CpuAccept
  \/ EndService
  \/ \E m \in {0, 7} : SetMask(m)

(* retro_run checks for ever.  The program lets level 5 through now and    *)
(* then, and its routine reads a byte and returns.                         *)
Fairness ==
  /\ WF_vars(SCC_IntCheck)
  /\ []<>(serving # "no" \/ flag_I = 0) /\ SF_vars(CpuAccept)
  /\ WF_vars(serving = "entered" /\ ReadData) /\ WF_vars(EndService)

Spec == Init /\ [][Next]_vars /\ Fairness

-----------------------------------------------------------------------------
(* The variables stay in their ranges.                                     *)
TypeOK ==
  /\ irqh \in IrqhStates
  /\ MouseDX \in Sums
  /\ Len(SCC_Dat) <= 3 /\ \A i \in DOMAIN SCC_Dat : SCC_Dat[i] \in Bytes
  /\ \A r \in Regs : SCC_Regs[r] \in Values(r)
  /\ SCC_RegNum \in [Ports -> Regs \union {NoReg}]
  /\ flag_I \in 0 .. 7 /\ serving \in {"no", "entered", "read"}

(* The motion of the host that the program has not been told of is all     *)
(* there: in the sum and in the packet being read, in neither twice.  A    *)
(* sample gives up less than a count, unless its status says that the      *)
(* motion was too large for it.                                            *)
InPacket == IF Len(SCC_Dat) >= 2 THEN Unit * SCC_Dat[Len(SCC_Dat) - 1].x ELSE 0

MotionIsConserved == owed = MouseDX + InPacket

(* A byte that the program asked to be interrupted for is read: nothing is *)
(* lost between the check, the CPU's mask and the acknowledge, however the *)
(* program has the controller ask.                                         *)
Asked ==
  /\ SCC_Regs[9] /\ SCC_Dat # << >>
  /\ SCC_Regs[1] = "all" \/ (SCC_Regs[1] = "first" /\ Len(SCC_Dat) = 3)
BytesAreRead == Asked ~> ~Asked

=============================================================================
