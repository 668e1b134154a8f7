------------------------------ MODULE DmacInt -------------------------------
(***************************************************************************)
(* The interrupt side of the DMA controller (x68k/dmac.c): four channels   *)
(* share level 3, and the controller remembers which of them still want    *)
(* to be answered and which it answered last.                              *)
(***************************************************************************)
EXTENDS IRQH

VARIABLES
  DMA_IntCH,            \* channels waiting to be answered
  DMA_LastInt           \* where the next scan starts

dmacIntVars == <<DMA_IntCH, DMA_LastInt>>

DmaChannels == 0 .. 3
DMA_Level == 3

DmacInt_TypeOK ==
  /\ DMA_IntCH \subseteq DmaChannels
  /\ DMA_LastInt \in DmaChannels

DmacInt_Init == DMA_IntCH = {} /\ DMA_LastInt = 0

DmacInt_Reset == DMA_IntCH' = {} /\ DMA_LastInt' = 0

(* The macro DMAINT for a channel whose interrupt enable, CCR bit 3, is    *)
(* set.                                                                    *)
DMAINT(ch) ==
  /\ DMA_IntCH' = DMA_IntCH \union {ch}
  /\ irqh' = IRQH_Int(irqh, DMA_Level, "DMA")
  /\ UNCHANGED DMA_LastInt

(* The scan goes round from the channel answered last and comes back to it *)
(* when none is waiting.                                                   *)
ScanDistance(ch) == (ch - DMA_LastInt) % 4

DMA_Answered ==
  IF DMA_IntCH = {} THEN DMA_LastInt
  ELSE CHOOSE ch \in DMA_IntCH : \A o \in DMA_IntCH : ScanDistance(ch) <= ScanDistance(o)

(* Mutant of DMA_Int: the level is not raised for the channels left.       *)
DMA_Int_NoRaise(s) ==
  /\ DMA_IntCH' = DMA_IntCH \ {DMA_Answered}
  /\ DMA_LastInt' = DMA_Answered
  /\ irqh' = my_irqh_callback_End(IRQH_IRQCallBack(s, DMA_Level))

(* DMA_Int answers one channel and raises the level again for the others.  *)
DMA_Int(s) ==
  LET withdrawn == IRQH_IRQCallBack(s, DMA_Level)
  IN  /\ DMA_IntCH' = DMA_IntCH \ {DMA_Answered}
      /\ DMA_LastInt' = DMA_Answered
      /\ irqh' = my_irqh_callback_End(
                   IF DMA_IntCH' = {} THEN withdrawn
                   ELSE IRQH_Int(withdrawn, DMA_Level, "DMA"))

=============================================================================
