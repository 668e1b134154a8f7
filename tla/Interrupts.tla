----------------------------- MODULE Interrupts -----------------------------
(***************************************************************************)
(* The machine's interrupt system: the devices that raise levels, the MFP, *)
(* the DMA controller, the handler of irqh.c and the CPU that answers.     *)
(*                                                                         *)
(* The FDC, the floppy drives and the SASI controller share level 1, MIDI  *)
(* and Mercury share level 4; the SCC has level 5 and the NMI of the menu  *)
(* level 7.  These sources only call IRQH_Int with a routine of their own; *)
(* the first three do so only when the I/O controller enables them.        *)
(***************************************************************************)
EXTENDS MFP, DmacInt

CONSTANTS
  Source,               \* the sources present, out of the table below
  Mask,                 \* the values software gives the SR interrupt mask
  EnableChoice,         \* the sets of sources software enables in the IOC
  DmaUsed               \* the DMA channels in use

(* Source |-> level of its IRQH_Int call.                                  *)
SourceLevel == [FDC |-> 1, FDD |-> 1, SASI |-> 1, MIDI |-> 4, MERCURY |-> 4,
                SCC |-> 5, Default |-> 7]

ASSUME SourceAssumption == Source \subseteq DOMAIN SourceLevel
ASSUME MaskAssumption == Mask \subseteq 0 .. 7
ASSUME EnableAssumption == EnableChoice \subseteq SUBSET (Source \intersect {"FDC", "FDD", "SASI"})
ASSUME DmaUsedAssumption == DmaUsed \subseteq DmaChannels

VARIABLES
  flag_I,               \* the interrupt mask of the CPU's SR
  IOC_Enable,           \* the low nibble of IOC_IntStat
  IOC_Status,           \* its high nibble: who completed since the reset
  owed                  \* history: sources the CPU has yet to answer

iocVars == <<IOC_Enable, IOC_Status>>
vars == <<irqh, mfpVars, dmacIntVars, flag_I, iocVars, owed>>

IocGated == Source \intersect {"FDC", "FDD", "SASI"}
IocReported == Source \intersect {"FDC", "SASI"}
SourcesAt(l) == {s \in Source : SourceLevel[s] = l}
PlainLevels == {SourceLevel[s] : s \in Source}

Init ==
  /\ irqh = IRQH_Start
  /\ MFP_Init
  /\ DmacInt_Init
  /\ flag_I = 7
  /\ IOC_Enable = {} /\ IOC_Status = {}
  /\ owed = {}

(* WinX68k_Reset: the CPU, the devices, then IRQH_Init.                    *)
Reset ==
  /\ irqh' = IRQH_Reset(irqh)
  /\ MFP_ResetRegs
  /\ DmacInt_Reset
  /\ flag_I' = 7
  /\ IOC_Enable' = {} /\ IOC_Status' = {}
  /\ owed' = {}

(* FDC_SetInt, FDD_SetFDInt, the phase-4 call of SASI, MIDI_Timer,         *)
(* Mcry_Int, SCC_IntCheck and the menu's NMI.                              *)
Request(s) ==
  /\ IOC_Status' = IOC_Status \union ({s} \intersect IocReported)
  /\ IF s \in IocGated /\ s \notin IOC_Enable
     THEN UNCHANGED <<irqh, owed>>
     ELSE /\ irqh' = IRQH_Int(irqh, SourceLevel[s], s)
          /\ owed' = owed \union {s}
  /\ UNCHANGED <<mfpVars, dmacIntVars, flag_I, IOC_Enable>>

(* IOC_Write keeps the status nibble and takes the enables.                *)
IOC_Write(enable) ==
  /\ IOC_Enable' = enable
  /\ UNCHANGED <<irqh, mfpVars, dmacIntVars, flag_I, IOC_Status, owed>>

MfpEvent(chans) ==
  MFP_Int(chans) /\ UNCHANGED <<dmacIntVars, flag_I, iocVars, owed>>

MfpWrite ==
  MFP_Write /\ UNCHANGED <<dmacIntVars, flag_I, iocVars, owed>>

MfpWriteVR(seoi) ==
  WriteVR(seoi) /\ UNCHANGED <<dmacIntVars, flag_I, iocVars, owed>>

DmaEvent(ch) ==
  DMAINT(ch) /\ UNCHANGED <<mfpVars, flag_I, iocVars, owed>>

(* The program changes the mask: a move to SR, or the RTE of a routine.    *)
SetMask(m) ==
  /\ flag_I' = m
  /\ UNCHANGED <<irqh, mfpVars, dmacIntVars, iocVars, owed>>

(* CHECK_INT: the CPU takes the latched level and calls the routine in its *)
(* slot.                                                                   *)
AnswerMfp ==
  /\ irqh.CallBack[irqh.line] = "MFP"
  /\ MFP_IntCallback(CpuAcknowledges(irqh))
  /\ UNCHANGED <<dmacIntVars, owed>>

AnswerDma ==
  /\ irqh.CallBack[irqh.line] = "DMA"
  /\ DMA_Int(CpuAcknowledges(irqh))
  /\ UNCHANGED <<mfpVars, owed>>

(* FDC_Int, FDD_Int, SASI_Int, MIDI_Int, Mcry_IntCB, SCC_Int and           *)
(* IRQH_DefaultVector.  Whoever else asked for the level goes unanswered.  *)
AnswerPlain ==
  /\ irqh.CallBack[irqh.line] \in Source
  /\ irqh' = my_irqh_callback_End(IRQH_IRQCallBack(CpuAcknowledges(irqh), irqh.line))
  /\ owed' = owed \ SourcesAt(irqh.line)
  /\ UNCHANGED <<mfpVars, dmacIntVars>>

CpuAccept ==
  /\ CpuTakes(irqh, flag_I)
  /\ flag_I' = irqh.line
  /\ AnswerMfp \/ AnswerDma \/ AnswerPlain
  /\ UNCHANGED iocVars

Next ==
  \/ Reset
  \/ \E s \in Source : Request(s)
  \/ \E enable \in EnableChoice : IOC_Write(enable)
  \/ \E chans \in SUBSET Channel : MfpEvent(chans)
  \/ MfpWrite
  \/ \E seoi \in BOOLEAN : MfpWriteVR(seoi)
  \/ \E ch \in DmaUsed : DmaEvent(ch)
  \/ \E m \in Mask : SetMask(m)
  \/ CpuAccept

Spec == Init /\ [][Next]_vars

-----------------------------------------------------------------------------
(* The variables stay in their ranges.                                     *)
TypeOK ==
  /\ irqh \in IrqhStates
  /\ MFP_TypeOK
  /\ DmacInt_TypeOK
  /\ flag_I \in 0 .. 7
  /\ IOC_Enable \subseteq IocGated
  /\ IOC_Status \subseteq IocReported
  /\ owed \subseteq Source

(* Between two handlers the level on the CPU's input is the highest one    *)
(* flagged: no routine leaves the latch low while a device waits, or high  *)
(* when none does.                                                         *)
LineIsHighestPending == irqh.line = Highest(irqh.IRQ)

(* Level 6 is flagged exactly when some MFP channel is pending, unmasked   *)
(* and out of service: no write, event or answer loses a channel, and the  *)
(* "MFP Int w/o Request" error of MFP_IntCallback is never logged.         *)
MfpFlaggedIffDeliverable ==
  (MFP_Level \in irqh.IRQ) <=> (Deliverable(IPR, IMR, ISR) # {})

(* Level 3 is flagged exactly when DMA_IntCH holds a channel, so DMA_Int   *)
(* never answers the CPU with -1.                                          *)
DmaFlaggedIffWaiting == (DMA_Level \in irqh.IRQ) <=> (DMA_IntCH # {})

(* Each level the CPU may take has the routine of a device that asked for  *)
(* it.  A source that has its level to itself is therefore answered by its *)
(* own routine, and of the sources that share one, one that is owed an     *)
(* answer gets it.                                                         *)
AnsweredByRequester ==
  /\ \A l \in PlainLevels :
       IF l \in irqh.IRQ THEN irqh.CallBack[l] \in owed \intersect SourcesAt(l)
                         ELSE owed \intersect SourcesAt(l) = {}
  /\ MFP_Level \in irqh.IRQ => irqh.CallBack[MFP_Level] = "MFP"
  /\ DMA_Level \in irqh.IRQ => irqh.CallBack[DMA_Level] = "DMA"

(* The system implements the priority delivery of PriorityIrq.             *)
Abstract == INSTANCE PriorityIrq WITH pending <- irqh.IRQ, mask <- flag_I
DeliversByPriority == Abstract!Spec

=============================================================================
