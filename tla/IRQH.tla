-------------------------------- MODULE IRQH --------------------------------
(***************************************************************************)
(* The interrupt request handler of x68k/irqh.c and the CPU's interrupt    *)
(* input (the IRQLine latch that m68000_set_irq_line drives).              *)
(*                                                                         *)
(* Devices call IRQH_Int and IRQH_IRQCallBack from inside their own        *)
(* handlers, often several times, so the operations are written as         *)
(* functions from one handler state to the next and a component's action   *)
(* composes them in the order of the code.                                 *)
(*                                                                         *)
(* A handler state is a record:                                            *)
(*   IRQ       the levels whose flag IRQH_IRQ[level] is set                *)
(*   CallBack  the acknowledge routine registered for each level; there is *)
(*             one slot per level, however many devices share it           *)
(*   line      the level latched on the CPU's input, 0 when none is        *)
(***************************************************************************)
EXTENDS Integers, FiniteSetsExt

CONSTANT NoHandler      \* the NULL pointer a callback slot holds at start

VARIABLE irqh           \* the handler state

Levels == 1 .. 7

(* The acknowledge routines that exist, named for the device they serve.   *)
DefaultVector == "Default"
Handlers == {DefaultVector, "FDC", "FDD", "SASI", "DMA", "MIDI", "MERCURY",
             "SCC", "MFP"}

ASSUME NoHandlerAssumption == NoHandler \notin Handlers

IrqhStates == [IRQ : SUBSET Levels,
               CallBack : [Levels -> Handlers \union {NoHandler}],
               line : 0 .. 7]

(* The result of "for (i=7; i>0; i--) if (IRQH_IRQ[i])".                   *)
Highest(S) == IF S = {} THEN 0 ELSE Max(S)

IRQH_Start == [IRQ |-> {}, CallBack |-> [l \in Levels |-> NoHandler], line |-> 0]

(* IRQH_Init clears the flags; the CPU reset that precedes it in           *)
(* WinX68k_Reset clears the latch; the callbacks keep their values.        *)
IRQH_Reset(s) == [IRQ |-> {}, CallBack |-> s.CallBack, line |-> 0]

(* Mutants of IRQH_Int: it latches the level just raised instead of the    *)
(* highest; it fills an empty callback slot only.                          *)
IRQH_Int_TakesLevel(s, irq, handler) ==
  [s EXCEPT !.IRQ = @ \union {irq}, !.CallBack[irq] = handler, !.line = irq]

IRQH_Int_KeepsHandler(s, irq, handler) ==
  LET flagged == s.IRQ \union {irq}
  IN  [s EXCEPT !.IRQ = flagged, !.line = Highest(flagged),
                !.CallBack[irq] = IF @ = NoHandler THEN handler ELSE @]

(* A device raises a level and installs its acknowledge routine.           *)
IRQH_Int(s, irq, handler) ==
  LET flagged == s.IRQ \union {irq}
  IN  [s EXCEPT !.IRQ = flagged, !.CallBack[irq] = handler,
                !.line = Highest(flagged)]

(* A level is withdrawn: its flag is cleared and the line drops to the     *)
(* highest level still flagged.                                            *)
IRQH_IRQCallBack(s, irq) ==
  LET flagged == s.IRQ \ {irq}
  IN  [s EXCEPT !.IRQ = flagged, !.line = Highest(flagged)]

(* Mutant of CpuTakes: the mask is not consulted.                          *)
CpuTakes_AnyLevel(s, mask) == s.line # 0

(* The CPU takes the latched level when it exceeds the mask in SR, and     *)
(* level 7 always (CHECK_INT).                                             *)
CpuTakes(s, mask) == s.line = 7 \/ s.line > mask

(* CHECK_INT drops the latch before it calls my_irqh_callback ...          *)
CpuAcknowledges(s) == [s EXCEPT !.line = 0]

(* ... which, when the device's routine has returned, latches again the    *)
(* highest level left.                                                     *)
my_irqh_callback_End(s) ==
  IF s.IRQ = {} THEN s ELSE [s EXCEPT !.line = Highest(s.IRQ)]

=============================================================================
