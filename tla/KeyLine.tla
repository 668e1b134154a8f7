------------------------------ MODULE KeyLine -------------------------------
(***************************************************************************)
(* The keyboard's serial line into the MFP (Keyboard_Int of                *)
(* libretro/keyboard.c, the UDR register of x68k/mfp.c): Keyboard_Int      *)
(* moves key events one by one from the ring into the MFP's data register  *)
(* and requests channel 3, and the program reads the register.             *)
(***************************************************************************)
EXTENDS MFP, KeyRing

VARIABLES
  ring,                 \* KeyBuf, KeyBufWP, KeyBufRP
  LastKey, KeyIntFlag,  \* the data register, and whether it waits to be read
  flag_I,               \* the interrupt mask of the CPU's SR
  serving,              \* the program's routine for channel 3: "no", or it
                        \* has "entered", or it has "read" the register
  withdrawn,            \* history: the program gave up the event in LastKey
  last                  \* history: the event read last, or Lost when one sent
                        \* after it was lost

keyVars == <<ring, LastKey, KeyIntFlag>>
historyVars == <<withdrawn, last>>
vars == <<irqh, mfpVars, keyVars, flag_I, serving, historyVars>>

KeyChannel == 3
Lost == [code |-> NoKey, up |-> TRUE]

Init ==
  /\ irqh = IRQH_Start /\ MFP_Init
  /\ ring = EmptyRing
  /\ LastKey = NoEvent /\ KeyIntFlag = FALSE
  /\ flag_I = 7
  /\ serving = "no"
  /\ withdrawn = FALSE /\ last = NoEvent

(* WinX68k_Reset, with MFP_Init and Keyboard_Init: the data register keeps *)
(* its value.                                                              *)
Reset ==
  /\ irqh' = IRQH_Reset(irqh) /\ MFP_ResetRegs
  /\ ring' = EmptyRing
  /\ KeyIntFlag' = FALSE
  /\ flag_I' = 7
  /\ serving' = "no"
  /\ withdrawn' = FALSE
  /\ UNCHANGED <<LastKey, last>>

(* What send_keycode does with the ring, for a key of whichever source.    *)
send_keycode(event) ==
  /\ ring' = Queued(ring, event)
  /\ last' = IF ring' = ring THEN Lost ELSE last
  /\ UNCHANGED <<irqh, mfpVars, LastKey, KeyIntFlag, flag_I, serving, withdrawn>>

(* Mutant of Keyboard_Int: the register is filled before it has been read. *)
Keyboard_Int_Overruns ==
  /\ IF ~IsEmpty(ring)
     THEN /\ LastKey' = Oldest(ring)
          /\ ring' = WithoutOldest(ring)
          /\ KeyIntFlag' = TRUE
          /\ MFP_Int({KeyChannel})
          /\ withdrawn' = (KeyChannel \notin IER)
     ELSE /\ LastKey' = IF KeyIntFlag THEN LastKey ELSE NoEvent
          /\ UNCHANGED <<irqh, mfpVars, ring, KeyIntFlag, withdrawn>>
  /\ UNCHANGED <<flag_I, serving, last>>

(* Keyboard_Int, four times a frame: the next event goes into the data     *)
(* register once the last has been read.  With channel 3 disabled the      *)
(* interrupt is dropped, and the register waits all the same.              *)
Keyboard_Int ==
  /\ IF ~IsEmpty(ring) /\ ~KeyIntFlag
     THEN /\ LastKey' = Oldest(ring)
          /\ ring' = WithoutOldest(ring)
          /\ KeyIntFlag' = TRUE
          /\ MFP_Int({KeyChannel})
          /\ withdrawn' = (KeyChannel \notin IER)
     ELSE /\ LastKey' = IF IsEmpty(ring) /\ ~KeyIntFlag THEN NoEvent ELSE LastKey
          /\ UNCHANGED <<irqh, mfpVars, ring, KeyIntFlag, withdrawn>>
  /\ UNCHANGED <<flag_I, serving, last>>

-----------------------------------------------------------------------------
(* The emulated program.                                                   *)

(* Mutant of ReadUDR: the register still waits.                            *)
ReadUDR_KeepsFlag ==
  /\ last' = IF KeyIntFlag THEN LastKey ELSE last
  /\ withdrawn' = FALSE
  /\ serving' = IF serving = "entered" THEN "read" ELSE serving
  /\ UNCHANGED <<irqh, mfpVars, keyVars, flag_I>>

(* MFP_Read of UDR, from its interrupt routine or from anywhere else.      *)
ReadUDR ==
  /\ KeyIntFlag' = FALSE
  /\ last' = IF KeyIntFlag THEN LastKey ELSE last
  /\ withdrawn' = FALSE
  /\ serving' = IF serving = "entered" THEN "read" ELSE serving
  /\ UNCHANGED <<irqh, mfpVars, ring, LastKey, flag_I>>

(* It writes the MFP's registers.  An event whose request it clears itself *)
(* is its own affair.                                                      *)
ProgramWritesMfp ==
  /\ MFP_Write
  /\ withdrawn' = (withdrawn \/ KeyChannel \in IPR \ IPR')
  /\ UNCHANGED <<keyVars, flag_I, serving, last>>

ProgramWritesVR(seoi) ==
  WriteVR(seoi) /\ UNCHANGED <<keyVars, flag_I, serving, historyVars>>

SetMask(m) ==
  /\ serving = "no"
  /\ flag_I' = m
  /\ UNCHANGED <<irqh, mfpVars, keyVars, serving, historyVars>>

(* The CPU takes level 6, and the program's routine begins.                *)
CpuAccept ==
  /\ CpuTakes(irqh, flag_I)
  /\ MFP_IntCallback(CpuAcknowledges(irqh))
  /\ flag_I' = MFP_Level
  /\ serving' = "entered"
  /\ UNCHANGED <<keyVars, historyVars>>

(* The routine has read the register: it ends the channel's service and    *)
(* returns to a program that lets level 6 through.                         *)
EndService ==
  /\ serving = "read"
  /\ WriteISR(BankA, {})
  /\ serving' = "no"
  /\ flag_I' = 0
  /\ UNCHANGED <<keyVars, historyVars>>

Next ==
  \/ Reset
  \/ \E event \in Event : send_keycode(event)
  \/ Keyboard_Int
  \/ ReadUDR
  \/ ProgramWritesMfp
  \/ \E seoi \in BOOLEAN : ProgramWritesVR(seoi)
  \/ \E m \in {0, 7} : SetMask(m)
  \/ CpuAccept
  \/ EndService

(* retro_run goes on for ever.  The program is assumed to let the channel  *)
(* through now and then when it is not serving it, the CPU then takes the  *)
(* interrupt, and the routine reads the register and returns.              *)
LetsThrough == KeyChannel \in IMR /\ flag_I = 0

Fairness ==
  /\ []<>(serving # "no" \/ LetsThrough) /\ SF_vars(CpuAccept)
  /\ WF_vars(serving = "entered" /\ ReadUDR) /\ WF_vars(EndService)

Spec == Init /\ [][Next]_vars /\ Fairness

-----------------------------------------------------------------------------
(* The variables stay in their ranges.                                     *)
TypeOK ==
  /\ irqh \in IrqhStates /\ MFP_TypeOK
  /\ ring \in Rings
  /\ LastKey \in Event \union {NoEvent} /\ KeyIntFlag \in BOOLEAN
  /\ KeyIntFlag => LastKey # NoEvent
  /\ flag_I \in 0 .. 7
  /\ serving \in {"no", "entered", "read"}
  /\ withdrawn \in BOOLEAN /\ last \in Event \union {NoEvent, Lost}

(* The events sent and not read: the data register, then the ring.         *)
Waiting == (IF KeyIntFlag THEN <<LastKey>> ELSE << >>) \o Queue(ring)

(* The program reads what was sent, in order and once; an event is lost    *)
(* only when KeyBufSize - 1 others wait.                                   *)
Abstract == INSTANCE KeyQueue WITH waiting <- Waiting,
              Capacity <- KeyBufSize - 1
ReadInOrder == Abstract!Spec

(* An event that reaches the data register is read, unless the program     *)
(* clears its request or had the channel disabled.                         *)
EventsAreRead == KeyIntFlag /\ ~withdrawn ~> ~KeyIntFlag \/ withdrawn

=============================================================================
