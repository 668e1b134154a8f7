-------------------------------- MODULE MFP ---------------------------------
(***************************************************************************)
(* The interrupt half of the MC68901 multi-function peripheral             *)
(* (x68k/mfp.c).  Sixteen channels, 0 the highest: channels 0..7 are bits  *)
(* 7..0 of the A registers and channels 8..15 bits 7..0 of the B           *)
(* registers.  A register pair is the set of channels whose bit is 1.      *)
(*                                                                         *)
(* The MFP is the only device on level 6.                                  *)
(***************************************************************************)
EXTENDS IRQH

CONSTANT Channel        \* the channels in use

ASSUME ChannelAssumption == Channel \subseteq 0 .. 15

VARIABLES
  IER,                  \* enable: a disabled channel's event is dropped
  IPR,                  \* pending
  IMR,                  \* mask: a masked channel pends but does not interrupt
  ISR,                  \* in service
  VR_S                  \* bit 3 of VR: software end-of-interrupt mode

mfpVars == <<IER, IPR, IMR, ISR, VR_S>>

MFP_Level == 6
BankA == Channel \intersect (0 .. 7)
BankB == Channel \intersect (8 .. 15)

MFP_TypeOK ==
  /\ IER \subseteq Channel
  /\ IPR \subseteq Channel
  /\ IMR \subseteq Channel
  /\ ISR \subseteq Channel
  /\ VR_S \in BOOLEAN

(* initregs: IERA = IMRA = 0x18 and IERB = IMRB = 0x3e, VR = 0x40.         *)
MFP_InitEnabled == Channel \intersect {3, 4, 10, 11, 12, 13, 14}

MFP_Init ==
  /\ IER = MFP_InitEnabled
  /\ IPR = {}
  /\ IMR = MFP_InitEnabled
  /\ ISR = {}
  /\ VR_S = FALSE

MFP_ResetRegs ==
  /\ IER' = MFP_InitEnabled
  /\ IPR' = {}
  /\ IMR' = MFP_InitEnabled
  /\ ISR' = {}
  /\ VR_S' = FALSE

(* The test every routine of the file makes of a channel.                  *)
Deliverable(ipr, imr, isr) == (ipr \intersect imr) \ isr

RaiseIfDeliverable(s, ipr, imr, isr) ==
  IF Deliverable(ipr, imr, isr) = {} THEN s ELSE IRQH_Int(s, MFP_Level, "MFP")

MFP_RecheckInt(s, ipr, imr, isr) ==
  RaiseIfDeliverable(IRQH_IRQCallBack(s, MFP_Level), ipr, imr, isr)

(* MFP_Int for each channel of a set, in any order: the calls a handler    *)
(* such as MFP_Timer makes in a row.                                       *)
MFP_Int(chans) ==
  LET enabled == chans \intersect IER
      ready   == Deliverable(enabled, IMR, ISR)
  IN  /\ IPR' = IPR \union enabled
      /\ irqh' = IF ready = {} THEN irqh ELSE IRQH_Int(irqh, MFP_Level, "MFP")
      /\ UNCHANGED <<IER, IMR, ISR, VR_S>>

(* MFP_Write of a bank of a register, `data' the channels written as 1.    *)
WriteIER(bank, data) ==
  /\ IER' = (IER \ bank) \union data
  /\ IPR' = IPR \ (bank \ data)
  /\ irqh' = MFP_RecheckInt(irqh, IPR', IMR, ISR)
  /\ UNCHANGED <<IMR, ISR, VR_S>>

WriteIPR(bank, data) ==
  /\ IPR' = IPR \ (bank \ data)
  /\ irqh' = MFP_RecheckInt(irqh, IPR', IMR, ISR)
  /\ UNCHANGED <<IER, IMR, ISR, VR_S>>

(* Mutant of WriteISR: ending a service does not look for the channels     *)
(* that waited for it.                                                     *)
WriteISR_NoRecheck(bank, data) ==
  /\ ISR' = ISR \ (bank \ data)
  /\ UNCHANGED <<irqh, IER, IPR, IMR, VR_S>>

WriteISR(bank, data) ==
  /\ ISR' = ISR \ (bank \ data)
  /\ irqh' = MFP_RecheckInt(irqh, IPR, IMR, ISR')
  /\ UNCHANGED <<IER, IPR, IMR, VR_S>>

WriteIMR(bank, data) ==
  /\ IMR' = (IMR \ bank) \union data
  /\ irqh' = MFP_RecheckInt(irqh, IPR, IMR', ISR)
  /\ UNCHANGED <<IER, IPR, ISR, VR_S>>

(* VR is a plain register: turning software end-of-interrupt off leaves    *)
(* the in-service bits as they are.                                        *)
WriteVR(seoi) ==
  /\ VR_S' = seoi
  /\ UNCHANGED <<irqh, IER, IPR, IMR, ISR>>

MFP_Write ==
  \E bank \in {BankA, BankB} : \E data \in SUBSET bank :
    \/ WriteIER(bank, data)
    \/ WriteIPR(bank, data)
    \/ WriteISR(bank, data)
    \/ WriteIMR(bank, data)

(* The channel that answers: A before B, bit 7 before bit 0.               *)
MFP_IntChannel == Min(Deliverable(IPR, IMR, ISR))

(* Mutant of MFP_IntCallback: the vector number goes into service in the   *)
(* place of the channel's bit.                                             *)
MFP_IntCallback_WrongBit(s) ==
  LET n == MFP_IntChannel
  IN  /\ Deliverable(IPR, IMR, ISR) # {}
      /\ IPR' = IPR \ {n}
      /\ ISR' = IF VR_S THEN ISR \union {15 - n} ELSE ISR
      /\ irqh' = my_irqh_callback_End(
                   RaiseIfDeliverable(IRQH_IRQCallBack(s, MFP_Level), IPR', IMR, ISR'))
      /\ UNCHANGED <<IER, IMR, VR_S>>

(* The acknowledge routine: the highest deliverable channel answers, goes  *)
(* into service if VR asks for it, and the level is raised again when      *)
(* another channel is deliverable.  With nothing deliverable the routine   *)
(* logs an error and returns the vector -1.                                *)
MFP_IntCallback(s) ==
  LET withdrawn == IRQH_IRQCallBack(s, MFP_Level)
      n == MFP_IntChannel
  IN  IF Deliverable(IPR, IMR, ISR) = {}
      THEN /\ irqh' = my_irqh_callback_End(withdrawn)
           /\ UNCHANGED mfpVars
      ELSE /\ IPR' = IPR \ {n}
           /\ ISR' = IF VR_S THEN ISR \union {n} ELSE ISR
           /\ irqh' = my_irqh_callback_End(RaiseIfDeliverable(withdrawn, IPR', IMR, ISR'))
           /\ UNCHANGED <<IER, IMR, VR_S>>

=============================================================================
