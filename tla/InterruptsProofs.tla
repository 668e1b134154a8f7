-------------------------- MODULE InterruptsProofs --------------------------
(***************************************************************************)
(* Proofs about the interrupt system, for every set of MFP channels, DMA   *)
(* channels, sources, enables and masks.                                   *)
(***************************************************************************)
EXTENDS Interrupts, WellFoundedInduction, TLAPS

USE DEF Levels, MFP_Level, DMA_Level

-----------------------------------------------------------------------------
(* The operations of irqh.c, for every handler state: each leaves the      *)
(* latch at the highest level flagged and touches one level.               *)

(* What the scan of irqh.c returns.                                        *)
LEMMA HighestOf ==
  ASSUME NEW S \in SUBSET (1 .. 7)
  PROVE  /\ Highest(S) \in 0 .. 7
         /\ S # {} => Highest(S) \in S
         /\ \A l \in S : l <= Highest(S)
         /\ S = {} => Highest(S) = 0
<1>1. CASE S = {}
  BY <1>1 DEF Highest
<1>2. CASE S # {}
  <2>1. \E x \in S : \A y \in S : x >= y
    <3>1. CASE 7 \in S BY <3>1
    <3>2. CASE 7 \notin S /\ 6 \in S BY <3>2
    <3>3. CASE 7 \notin S /\ 6 \notin S /\ 5 \in S BY <3>3
    <3>4. CASE 7 \notin S /\ 6 \notin S /\ 5 \notin S /\ 4 \in S BY <3>4
    <3>5. CASE 7 \notin S /\ 6 \notin S /\ 5 \notin S /\ 4 \notin S /\ 3 \in S BY <3>5
    <3>6. CASE 7 \notin S /\ 6 \notin S /\ 5 \notin S /\ 4 \notin S /\ 3 \notin S /\ 2 \in S BY <3>6
    <3>7. CASE 7 \notin S /\ 6 \notin S /\ 5 \notin S /\ 4 \notin S /\ 3 \notin S /\ 2 \notin S /\ 1 \in S BY <3>7
    <3>8. 1 \in S \/ 2 \in S \/ 3 \in S \/ 4 \in S \/ 5 \in S \/ 6 \in S \/ 7 \in S
      <4>1. PICK x \in S : TRUE BY <1>2
      <4>2. x = 1 \/ x = 2 \/ x = 3 \/ x = 4 \/ x = 5 \/ x = 6 \/ x = 7 BY SMT
      <4> QED BY <4>1, <4>2
    <3> QED BY <3>8, <3>1, <3>2, <3>3, <3>4, <3>5, <3>6, <3>7
  <2>2. Max(S) \in S /\ \A y \in S : Max(S) >= y
    BY <2>1 DEF Max
  <2>3. Highest(S) = Max(S)
    BY <1>2 DEF Highest
  <2> DEFINE m == Max(S)
  <2>4. m \in S /\ \A y \in S : m >= y
    BY <2>2
  <2> HIDE DEF m
  <2>5. m \in 0 .. 7 /\ \A y \in S : y <= m
    BY <2>4
  <2> QED
    BY <1>2, <2>3, <2>4, <2>5 DEF m
<1> QED
  BY <1>1, <1>2

(* A handler state whose latch shows the highest flag.                     *)
Settled(s) == s \in IrqhStates /\ s.line = Highest(s.IRQ)

(* Raising a level with a routine settles the latch and touches no other   *)
(* level.                                                                  *)
LEMMA RaiseSettles ==
  ASSUME NEW s \in IrqhStates, NEW l \in Levels, NEW h \in Handlers
  PROVE  /\ Settled(IRQH_Int(s, l, h))
         /\ IRQH_Int(s, l, h).IRQ = s.IRQ \union {l}
         /\ IRQH_Int(s, l, h).CallBack = [s.CallBack EXCEPT ![l] = h]
  BY HighestOf DEF Settled, IRQH_Int, IrqhStates

(* Withdrawing a level settles the latch and touches no other level.       *)
LEMMA WithdrawSettles ==
  ASSUME NEW s \in IrqhStates, NEW l \in Levels
  PROVE  /\ Settled(IRQH_IRQCallBack(s, l))
         /\ IRQH_IRQCallBack(s, l).IRQ = s.IRQ \ {l}
         /\ IRQH_IRQCallBack(s, l).CallBack = s.CallBack
  BY HighestOf DEF Settled, IRQH_IRQCallBack, IrqhStates

(* After a routine that has settled the latch, the last scan of            *)
(* my_irqh_callback changes nothing.                                       *)
LEMMA EndSettles ==
  ASSUME NEW s, Settled(s)
  PROVE  /\ Settled(my_irqh_callback_End(s))
         /\ my_irqh_callback_End(s).IRQ = s.IRQ
         /\ my_irqh_callback_End(s).CallBack = s.CallBack
  BY HighestOf DEF Settled, my_irqh_callback_End, IrqhStates

(* The machine's reset clears the flags and the latch.                     *)
LEMMA ResetClears ==
  ASSUME NEW s \in IrqhStates
  PROVE  IRQH_Reset(s) \in IrqhStates /\ IRQH_Reset(s).IRQ = {} /\ IRQH_Reset(s).line = 0
<1>1. IRQH_Reset(s) = [IRQ |-> {}, CallBack |-> s.CallBack, line |-> 0]
  BY DEF IRQH_Reset
<1>2. s.CallBack \in [Levels -> Handlers \union {NoHandler}]
  BY DEF IrqhStates
<1>3. {} \in SUBSET Levels /\ 0 \in 0 .. 7
  OBVIOUS
<1> HIDE DEF Levels
<1> QED
  BY <1>1, <1>2, <1>3 DEF IrqhStates

(* The acknowledge cycle drops the latch only.                             *)
LEMMA Acknowledged ==
  ASSUME NEW s \in IrqhStates
  PROVE  /\ CpuAcknowledges(s) \in IrqhStates
         /\ CpuAcknowledges(s).IRQ = s.IRQ
         /\ CpuAcknowledges(s).CallBack = s.CallBack
<1>1. CpuAcknowledges(s) = [IRQ |-> s.IRQ, CallBack |-> s.CallBack, line |-> 0]
  BY DEF CpuAcknowledges, IrqhStates
<1>2. s.CallBack \in [Levels -> Handlers \union {NoHandler}] /\ s.IRQ \in SUBSET Levels
  BY DEF IrqhStates
<1>3. 0 \in 0 .. 7
  OBVIOUS
<1> HIDE DEF Levels
<1> QED
  BY <1>1, <1>2, <1>3 DEF IrqhStates

-----------------------------------------------------------------------------
(* Raising level 3 for the DMA controller.                                 *)
LEMMA RaiseDma ==
  ASSUME NEW s \in IrqhStates
  PROVE  /\ Settled(IRQH_Int(s, 3, "DMA"))
         /\ IRQH_Int(s, 3, "DMA").IRQ = s.IRQ \union {3}
         /\ IRQH_Int(s, 3, "DMA").CallBack = [s.CallBack EXCEPT ![3] = "DMA"]
<1>1. "DMA" \in Handlers /\ 3 \in Levels
  BY DEF Handlers
<1> QED
  BY <1>1, RaiseSettles

(* The scan of DMA_Int ends on one of the four channels.                   *)
LEMMA AnsweredInRange ==
  ASSUME DMA_IntCH \in SUBSET (0 .. 3), DMA_LastInt \in 0 .. 3
  PROVE  /\ DMA_Answered \in 0 .. 3
         /\ DMA_IntCH # {} => DMA_Answered \in DMA_IntCH
<1>1. CASE DMA_IntCH = {}
  BY <1>1 DEF DMA_Answered
<1>2. CASE DMA_IntCH # {}
  <2> DEFINE at(d) == (DMA_LastInt + d) % 4
             First(ch) == \A o \in DMA_IntCH : ScanDistance(ch) <= ScanDistance(o)
  <2>1. \A ch \in 0 .. 3 : ScanDistance(ch) \in 0 .. 3
    BY DEF ScanDistance
  <2>2. \E ch \in DMA_IntCH : First(ch)
    <3>1. CASE \E c \in DMA_IntCH : ScanDistance(c) = 0 BY <2>1, <3>1
    <3>2. CASE /\ \A c \in DMA_IntCH : ScanDistance(c) # 0
               /\ \E c \in DMA_IntCH : ScanDistance(c) = 1
      BY <2>1, <3>2
    <3>3. CASE /\ \A c \in DMA_IntCH : ScanDistance(c) # 0 /\ ScanDistance(c) # 1
               /\ \E c \in DMA_IntCH : ScanDistance(c) = 2
      BY <2>1, <3>3
    <3>4. CASE /\ \A c \in DMA_IntCH : /\ ScanDistance(c) # 0 /\ ScanDistance(c) # 1
                                       /\ ScanDistance(c) # 2
      <4>1. \A c \in DMA_IntCH : ScanDistance(c) = 3
        <5> SUFFICES ASSUME NEW c \in DMA_IntCH PROVE ScanDistance(c) = 3
          OBVIOUS
        <5>1. c \in 0 .. 3
          OBVIOUS
        <5>2. ScanDistance(c) \in 0 .. 3
          BY <2>1, <5>1
        <5>3. ScanDistance(c) # 0 /\ ScanDistance(c) # 1 /\ ScanDistance(c) # 2
          BY <3>4
        <5> QED
          BY <5>2, <5>3
      <4>2. ASSUME NEW ch \in DMA_IntCH, NEW o \in DMA_IntCH
            PROVE  ScanDistance(ch) <= ScanDistance(o)
        <5>1. ScanDistance(ch) = 3 /\ ScanDistance(o) = 3
          BY <4>1
        <5> QED
          BY <5>1
      <4> QED
        BY <1>2, <4>2
    <3> QED
      BY <3>1, <3>2, <3>3, <3>4
  <2> HIDE DEF First
  <2>3. DMA_Answered = CHOOSE ch \in DMA_IntCH : First(ch)
    BY <1>2 DEF DMA_Answered, First
  <2> QED
    BY <2>2, <2>3
<1> QED
  BY <1>1, <1>2

-----------------------------------------------------------------------------
-----------------------------------------------------------------------------
(* The channel that answers exists when one is deliverable.                *)
LEMMA MinOf ==
  ASSUME NEW S \in SUBSET Nat, S # {}
  PROVE  Min(S) \in S /\ \A n \in S : Min(S) <= n
<1> DEFINE R == {p \in Nat \X Nat : p[1] < p[2]}
<1>1. IsWellFoundedOn(R, Nat)
  BY NatLessThanWellFounded, Zenon DEF OpToRel
<1>2. \A x, y \in Nat : <<y, x>> \in R <=> y < x
  OBVIOUS
<1> HIDE DEF R
<1>3. PICK x \in S : \A y \in S : ~(<<y, x>> \in R)
  BY <1>1, WFMin
<1>4. ASSUME NEW y \in S PROVE x <= y
  <2>1. x \in Nat /\ y \in Nat
    OBVIOUS
  <2>2. ~(y < x)
    BY <1>2, <1>3, <2>1
  <2> QED
    BY <2>1, <2>2
<1> QED
  BY <1>4 DEF Min

(* MFP_RecheckInt leaves level 6 flagged exactly when a channel is         *)
(* deliverable, and the other levels as they were.                         *)
LEMMA RecheckSettles ==
  ASSUME NEW s \in IrqhStates, NEW ipr, NEW imr, NEW isr
  PROVE  /\ Settled(MFP_RecheckInt(s, ipr, imr, isr))
         /\ MFP_RecheckInt(s, ipr, imr, isr).IRQ =
              IF Deliverable(ipr, imr, isr) = {} THEN s.IRQ \ {6} ELSE s.IRQ \union {6}
         /\ MFP_RecheckInt(s, ipr, imr, isr).CallBack =
              IF Deliverable(ipr, imr, isr) = {} THEN s.CallBack
              ELSE [s.CallBack EXCEPT ![6] = "MFP"]
<1> DEFINE w == IRQH_IRQCallBack(s, 6)
<1>1. w \in IrqhStates /\ Settled(w) /\ w.IRQ = s.IRQ \ {6} /\ w.CallBack = s.CallBack
  BY WithdrawSettles DEF Settled
<1>2. MFP_RecheckInt(s, ipr, imr, isr) =
        IF Deliverable(ipr, imr, isr) = {} THEN w ELSE IRQH_Int(w, 6, "MFP")
  BY DEF MFP_RecheckInt, RaiseIfDeliverable
<1> HIDE DEF w
<1>3. /\ Settled(IRQH_Int(w, 6, "MFP"))
      /\ IRQH_Int(w, 6, "MFP").IRQ = w.IRQ \union {6}
      /\ IRQH_Int(w, 6, "MFP").CallBack = [w.CallBack EXCEPT ![6] = "MFP"]
  <2>1. "MFP" \in Handlers /\ 6 \in Levels /\ w \in IrqhStates
    BY <1>1 DEF Handlers
  <2> QED
    BY <2>1, RaiseSettles
<1> QED
  BY <1>1, <1>2, <1>3
-----------------------------------------------------------------------------
(* No level is flagged but those of the sources present, the MFP's and the *)
(* DMA controller's: the routine of a flagged level is then a known one.   *)
OnlyKnownLevels == irqh.IRQ \subseteq PlainLevels \union {MFP_Level, DMA_Level}

(* The inductive invariant.                                                *)
IInv ==
  /\ TypeOK
  /\ LineIsHighestPending
  /\ MfpFlaggedIffDeliverable
  /\ DmaFlaggedIffWaiting
  /\ AnsweredByRequester
  /\ OnlyKnownLevels

(* The sources' levels are neither the MFP's nor the DMA controller's.     *)
LEMMA SourceLevels ==
  ASSUME NEW s \in Source
  PROVE  /\ SourceLevel[s] \in {1, 4, 5, 7}
         /\ SourceLevel[s] \in PlainLevels
         /\ s \in Handlers
         /\ s # "MFP" /\ s # "DMA"
<1>1. s \in {"FDC", "FDD", "SASI", "MIDI", "MERCURY", "SCC", "Default"}
  BY SourceAssumption DEF SourceLevel
<1>2. SourceLevel[s] \in {1, 4, 5, 7}
  BY <1>1 DEF SourceLevel
<1> QED
  BY <1>1, <1>2 DEF PlainLevels, Handlers, DefaultVector

(* The levels of the plain sources, by number.                             *)
LEMMA PlainLevelsRange == PlainLevels \subseteq {1, 4, 5, 7}
  BY SourceLevels DEF PlainLevels

(* A step that settles the latch and changes the handler state only at     *)
(* level 6, with the MFP's side of it, keeps the invariant.                *)
LEMMA MfpStep ==
  ASSUME IInv, Settled(irqh'), MFP_TypeOK',
         \A l \in Levels : l # 6 => /\ l \in irqh'.IRQ <=> l \in irqh.IRQ
                                  /\ irqh'.CallBack[l] = irqh.CallBack[l],
         6 \in irqh'.IRQ <=> Deliverable(IPR', IMR', ISR') # {},
         6 \in irqh'.IRQ => irqh'.CallBack[6] = "MFP",
         UNCHANGED <<dmacIntVars, iocVars, owed>>, flag_I' \in 0 .. 7
  PROVE  IInv'
<1>1. TypeOK'
  BY DEF IInv, TypeOK, Settled, dmacIntVars, iocVars, DmacInt_TypeOK
<1>2. LineIsHighestPending'
  BY DEF LineIsHighestPending, Settled
<1>3. MfpFlaggedIffDeliverable'
  BY DEF MfpFlaggedIffDeliverable
<1>4. DmaFlaggedIffWaiting'
  BY DEF IInv, DmaFlaggedIffWaiting, dmacIntVars
<1>5. AnsweredByRequester'
  <2>1. \A l \in PlainLevels : /\ irqh'.CallBack[l] = irqh.CallBack[l]
                               /\ l \in irqh'.IRQ <=> l \in irqh.IRQ
    <3> SUFFICES ASSUME NEW l \in PlainLevels
                 PROVE  l \in Levels /\ l # 6 /\ l # 3
      OBVIOUS
    <3> QED
      BY PlainLevelsRange
  <2>2. owed' = owed
    OBVIOUS
  <2>3. \A l \in PlainLevels :
          IF l \in irqh'.IRQ THEN irqh'.CallBack[l] \in owed' \intersect SourcesAt(l)
                             ELSE owed' \intersect SourcesAt(l) = {}
    BY <2>1, <2>2 DEF IInv, AnsweredByRequester
  <2>4. irqh'.CallBack[3] = irqh.CallBack[3] /\ (3 \in irqh'.IRQ <=> 3 \in irqh.IRQ)
    OBVIOUS
  <2> QED
    BY <2>3, <2>4 DEF IInv, AnsweredByRequester, SourcesAt
<1>6. OnlyKnownLevels'
  <2> SUFFICES ASSUME NEW l \in irqh'.IRQ
               PROVE  l \in PlainLevels \union {6, 3}
    BY DEF OnlyKnownLevels
  <2>1. l \in Levels
    BY DEF Settled, IrqhStates
  <2> QED
    BY <2>1 DEF IInv, OnlyKnownLevels
<1> QED
  BY <1>1, <1>2, <1>3, <1>4, <1>5, <1>6 DEF IInv

(* The same for level 3 and the DMA controller.                            *)
LEMMA DmaStep ==
  ASSUME IInv, Settled(irqh'), DmacInt_TypeOK',
         \A l \in Levels : l # 3 => /\ l \in irqh'.IRQ <=> l \in irqh.IRQ
                                  /\ irqh'.CallBack[l] = irqh.CallBack[l],
         3 \in irqh'.IRQ <=> DMA_IntCH' # {},
         3 \in irqh'.IRQ => irqh'.CallBack[3] = "DMA",
         UNCHANGED <<mfpVars, iocVars, owed>>, flag_I' \in 0 .. 7
  PROVE  IInv'
<1>1. TypeOK'
  BY DEF IInv, TypeOK, Settled, mfpVars, iocVars, MFP_TypeOK
<1>2. LineIsHighestPending'
  BY DEF LineIsHighestPending, Settled
<1>3. MfpFlaggedIffDeliverable'
  BY DEF IInv, MfpFlaggedIffDeliverable, mfpVars
<1>4. DmaFlaggedIffWaiting'
  BY DEF DmaFlaggedIffWaiting
<1>5. AnsweredByRequester'
  <2>1. \A l \in PlainLevels : /\ irqh'.CallBack[l] = irqh.CallBack[l]
                               /\ l \in irqh'.IRQ <=> l \in irqh.IRQ
    <3> SUFFICES ASSUME NEW l \in PlainLevels
                 PROVE  l \in Levels /\ l # 6 /\ l # 3
      OBVIOUS
    <3> QED
      BY PlainLevelsRange
  <2>2. owed' = owed
    OBVIOUS
  <2>3. \A l \in PlainLevels :
          IF l \in irqh'.IRQ THEN irqh'.CallBack[l] \in owed' \intersect SourcesAt(l)
                             ELSE owed' \intersect SourcesAt(l) = {}
    BY <2>1, <2>2 DEF IInv, AnsweredByRequester
  <2>4. irqh'.CallBack[6] = irqh.CallBack[6] /\ (6 \in irqh'.IRQ <=> 6 \in irqh.IRQ)
    OBVIOUS
  <2> QED
    BY <2>3, <2>4 DEF IInv, AnsweredByRequester, SourcesAt
<1>6. OnlyKnownLevels'
  <2> SUFFICES ASSUME NEW l \in irqh'.IRQ
               PROVE  l \in PlainLevels \union {6, 3}
    BY DEF OnlyKnownLevels
  <2>1. l \in Levels
    BY DEF Settled, IrqhStates
  <2> QED
    BY <2>1 DEF IInv, OnlyKnownLevels
<1> QED
  BY <1>1, <1>2, <1>3, <1>4, <1>5, <1>6 DEF IInv

(* The same for a level of the plain sources.                              *)
LEMMA PlainStep ==
  ASSUME IInv, Settled(irqh'), NEW k \in PlainLevels,
         \A l \in Levels : l # k => /\ l \in irqh'.IRQ <=> l \in irqh.IRQ
                                  /\ irqh'.CallBack[l] = irqh.CallBack[l],
         owed' \subseteq Source,
         \A l \in PlainLevels \ {k} :
           owed' \intersect SourcesAt(l) = owed \intersect SourcesAt(l),
         IF k \in irqh'.IRQ THEN irqh'.CallBack[k] \in owed' \intersect SourcesAt(k)
                            ELSE owed' \intersect SourcesAt(k) = {},
         IOC_Enable' \subseteq IocGated, IOC_Status' \subseteq IocReported,
         UNCHANGED <<mfpVars, dmacIntVars>>, flag_I' \in 0 .. 7
  PROVE  IInv'
<1> k \in {1, 4, 5, 7}
  BY PlainLevelsRange
<1>1. TypeOK'
  BY DEF IInv, TypeOK, Settled, mfpVars, dmacIntVars, MFP_TypeOK, DmacInt_TypeOK
<1>2. LineIsHighestPending'
  BY DEF LineIsHighestPending, Settled
<1>3. MfpFlaggedIffDeliverable'
  BY DEF IInv, MfpFlaggedIffDeliverable, mfpVars
<1>4. DmaFlaggedIffWaiting'
  BY DEF IInv, DmaFlaggedIffWaiting, dmacIntVars
<1>5. AnsweredByRequester'
  <2>1. \A l \in PlainLevels : l # k => /\ irqh'.CallBack[l] = irqh.CallBack[l]
                                        /\ l \in irqh'.IRQ <=> l \in irqh.IRQ
    <3> SUFFICES ASSUME NEW l \in PlainLevels
                 PROVE  l \in Levels
      OBVIOUS
    <3> QED
      BY PlainLevelsRange
  <2>2. \A l \in PlainLevels :
          IF l \in irqh'.IRQ THEN irqh'.CallBack[l] \in owed' \intersect SourcesAt(l)
                             ELSE owed' \intersect SourcesAt(l) = {}
    BY <2>1 DEF IInv, AnsweredByRequester
  <2> QED
    BY <2>2 DEF IInv, AnsweredByRequester, SourcesAt
<1>6. OnlyKnownLevels'
  <2> SUFFICES ASSUME NEW l \in irqh'.IRQ
               PROVE  l \in PlainLevels \union {6, 3}
    BY DEF OnlyKnownLevels
  <2>1. l \in Levels
    BY DEF Settled, IrqhStates
  <2> QED
    BY <2>1 DEF IInv, OnlyKnownLevels
<1> QED
  BY <1>1, <1>2, <1>3, <1>4, <1>5, <1>6 DEF IInv
-----------------------------------------------------------------------------
(* Every action keeps the invariant.                                       *)
LEMMA SettledNow == ASSUME IInv PROVE Settled(irqh) /\ irqh \in IrqhStates
  BY DEF IInv, TypeOK, LineIsHighestPending, Settled

(* The machine starts with nothing flagged, pending or owed.               *)
LEMMA InitEstablishes == Init => IInv
<1> SUFFICES ASSUME Init PROVE IInv
  OBVIOUS
<1> USE DEF Init
<1>1. irqh \in IrqhStates /\ irqh.IRQ = {} /\ irqh.line = 0
  BY DEF IRQH_Start, IrqhStates
<1>2. TypeOK
  <2>1. MFP_TypeOK
    BY DEF MFP_Init, MFP_TypeOK, MFP_InitEnabled
  <2>2. DmacInt_TypeOK
    BY DEF DmacInt_Init, DmacInt_TypeOK, DmaChannels
  <2> QED
    BY <1>1, <2>1, <2>2 DEF TypeOK
<1>3. LineIsHighestPending
  BY <1>1 DEF LineIsHighestPending, Highest
<1>4. MfpFlaggedIffDeliverable /\ DmaFlaggedIffWaiting
  BY <1>1 DEF MfpFlaggedIffDeliverable, DmaFlaggedIffWaiting, MFP_Init, DmacInt_Init,
              Deliverable
<1>5. AnsweredByRequester /\ OnlyKnownLevels
  BY <1>1 DEF AnsweredByRequester, OnlyKnownLevels
<1> QED
  BY <1>2, <1>3, <1>4, <1>5 DEF IInv

(* WinX68k_Reset clears the devices' requests with the handler's flags.    *)
LEMMA ResetKeeps == ASSUME IInv, Reset PROVE IInv'
<1>1. irqh' \in IrqhStates /\ irqh'.IRQ = {} /\ irqh'.line = 0
  <2>1. irqh \in IrqhStates /\ irqh' = IRQH_Reset(irqh)
    BY SettledNow DEF Reset
  <2> QED
    BY <2>1, ResetClears
<1> USE DEF Reset
<1>2. TypeOK'
  <2>1. MFP_TypeOK'
    BY DEF MFP_ResetRegs, MFP_TypeOK, MFP_InitEnabled
  <2>2. DmacInt_TypeOK'
    BY DEF DmacInt_Reset, DmacInt_TypeOK, DmaChannels
  <2> QED
    BY <1>1, <2>1, <2>2 DEF TypeOK
<1>3. LineIsHighestPending'
  BY <1>1 DEF LineIsHighestPending, Highest
<1>4. MfpFlaggedIffDeliverable' /\ DmaFlaggedIffWaiting'
  BY <1>1 DEF MfpFlaggedIffDeliverable, DmaFlaggedIffWaiting, MFP_ResetRegs,
              DmacInt_Reset, Deliverable
<1>5. AnsweredByRequester' /\ OnlyKnownLevels'
  BY <1>1 DEF AnsweredByRequester, OnlyKnownLevels
<1> QED
  BY <1>2, <1>3, <1>4, <1>5 DEF IInv

(* A request of a plain source, gated by the I/O controller or not.        *)
LEMMA RequestKeeps ==
  ASSUME IInv, NEW src \in Source, Request(src)
  PROVE  IInv' /\ \E l \in Levels : irqh'.IRQ \in {irqh.IRQ, irqh.IRQ \union {l}}
<1> DEFINE k == SourceLevel[src]
<1>1. k \in PlainLevels /\ k \in Levels /\ src \in Handlers /\ k \in {1, 4, 5, 7}
  BY SourceLevels
<1>2. IOC_Enable' \subseteq IocGated /\ IOC_Status' \subseteq IocReported
  BY DEF Request, IInv, TypeOK, IocReported
<1>3. UNCHANGED <<mfpVars, dmacIntVars>> /\ flag_I' \in 0 .. 7
  BY DEF Request, IInv, TypeOK
<1>4. CASE UNCHANGED <<irqh, owed>>
  BY <1>1, <1>2, <1>3, <1>4, PlainStep, SettledNow DEF IInv, TypeOK, AnsweredByRequester
<1>5. CASE irqh' = IRQH_Int(irqh, k, src) /\ owed' = owed \union {src}
  <2>1. /\ Settled(irqh')
        /\ irqh'.IRQ = irqh.IRQ \union {k}
        /\ irqh'.CallBack = [irqh.CallBack EXCEPT ![k] = src]
    BY <1>1, <1>5, RaiseSettles, SettledNow
  <2>2. \A l \in Levels : l # k => /\ l \in irqh'.IRQ <=> l \in irqh.IRQ
                                   /\ irqh'.CallBack[l] = irqh.CallBack[l]
    BY <2>1, SettledNow DEF IrqhStates
  <2>3. \A l \in PlainLevels \ {k} :
          owed' \intersect SourcesAt(l) = owed \intersect SourcesAt(l)
    BY <1>5 DEF SourcesAt
  <2>4. k \in irqh'.IRQ /\ irqh'.CallBack[k] \in owed' \intersect SourcesAt(k)
    BY <1>1, <1>5, <2>1, SettledNow DEF SourcesAt, IrqhStates
  <2>5. owed' \subseteq Source
    BY <1>5 DEF IInv, TypeOK
  <2> HIDE DEF k
  <2> QED
    BY <1>1, <1>2, <1>3, <2>1, <2>2, <2>3, <2>4, <2>5, PlainStep
<1> QED
  BY <1>4, <1>5 DEF Request

(* A write to the I/O controller touches no request.                       *)
LEMMA IocWriteKeeps ==
  ASSUME IInv, NEW enable \in EnableChoice, IOC_Write(enable) PROVE IInv'
<1> enable \subseteq IocGated
  BY EnableAssumption DEF IocGated
<1> USE DEF IOC_Write, mfpVars, dmacIntVars, IInv
<1>1. TypeOK'
  BY DEF TypeOK, MFP_TypeOK, DmacInt_TypeOK
<1>2. LineIsHighestPending' /\ MfpFlaggedIffDeliverable' /\ DmaFlaggedIffWaiting'
  BY DEF LineIsHighestPending, MfpFlaggedIffDeliverable, DmaFlaggedIffWaiting
<1>3. AnsweredByRequester' /\ OnlyKnownLevels'
  BY DEF AnsweredByRequester, OnlyKnownLevels
<1> QED
  BY <1>1, <1>2, <1>3

(* A move to SR touches no request.                                        *)
LEMMA SetMaskKeeps == ASSUME IInv, NEW m \in Mask, SetMask(m) PROVE IInv'
<1> m \in 0 .. 7
  BY MaskAssumption
<1> USE DEF SetMask, mfpVars, dmacIntVars, iocVars, IInv
<1>1. TypeOK'
  BY DEF TypeOK, MFP_TypeOK, DmacInt_TypeOK
<1>2. LineIsHighestPending' /\ MfpFlaggedIffDeliverable' /\ DmaFlaggedIffWaiting'
  BY DEF LineIsHighestPending, MfpFlaggedIffDeliverable, DmaFlaggedIffWaiting
<1>3. AnsweredByRequester' /\ OnlyKnownLevels'
  BY DEF AnsweredByRequester, OnlyKnownLevels
<1> QED
  BY <1>1, <1>2, <1>3

(* A write to VR touches no request.                                       *)
LEMMA WriteVRKeeps == ASSUME IInv, NEW seoi \in BOOLEAN, MfpWriteVR(seoi) PROVE IInv'
<1> USE DEF MfpWriteVR, WriteVR, dmacIntVars, iocVars, IInv
<1>1. TypeOK'
  BY DEF TypeOK, MFP_TypeOK, DmacInt_TypeOK
<1>2. LineIsHighestPending' /\ MfpFlaggedIffDeliverable' /\ DmaFlaggedIffWaiting'
  BY DEF LineIsHighestPending, MfpFlaggedIffDeliverable, DmaFlaggedIffWaiting
<1>3. AnsweredByRequester' /\ OnlyKnownLevels'
  BY DEF AnsweredByRequester, OnlyKnownLevels
<1> QED
  BY <1>1, <1>2, <1>3

(* Raising level 6 for the MFP, whatever the registers become.             *)
LEMMA RaiseMfp ==
  ASSUME NEW s \in IrqhStates
  PROVE  /\ Settled(IRQH_Int(s, 6, "MFP"))
         /\ IRQH_Int(s, 6, "MFP").IRQ = s.IRQ \union {6}
         /\ IRQH_Int(s, 6, "MFP").CallBack = [s.CallBack EXCEPT ![6] = "MFP"]
<1>1. "MFP" \in Handlers /\ 6 \in Levels
  BY DEF Handlers
<1> QED
  BY <1>1, RaiseSettles

(* The MFP_Int calls of a timer or of the video.                           *)
LEMMA MfpEventKeeps ==
  ASSUME IInv, NEW chans \in SUBSET Channel, MfpEvent(chans)
  PROVE  IInv' /\ irqh'.IRQ \in {irqh.IRQ, irqh.IRQ \union {6}}
<1> DEFINE enabled == chans \intersect IER
           ready == Deliverable(enabled, IMR, ISR)
<1>1. /\ IPR' = IPR \union enabled
      /\ irqh' = IF ready = {} THEN irqh ELSE IRQH_Int(irqh, 6, "MFP")
      /\ UNCHANGED <<IER, IMR, ISR, VR_S, dmacIntVars, flag_I, iocVars, owed>>
  BY DEF MfpEvent, MFP_Int
<1>2. Deliverable(IPR', IMR', ISR') = Deliverable(IPR, IMR, ISR) \union ready
  BY <1>1 DEF Deliverable
<1>3. MFP_TypeOK'
  BY <1>1 DEF IInv, TypeOK, MFP_TypeOK
<1> HIDE DEF ready
<1>4. CASE ready = {}
  BY <1>1, <1>2, <1>3, <1>4, SettledNow, MfpStep
     DEF IInv, TypeOK, MfpFlaggedIffDeliverable, AnsweredByRequester
<1>5. CASE ready # {}
  <2>1. /\ Settled(irqh')
        /\ irqh'.IRQ = irqh.IRQ \union {6}
        /\ irqh'.CallBack = [irqh.CallBack EXCEPT ![6] = "MFP"]
    BY <1>1, <1>5, RaiseMfp, SettledNow
  <2>2. /\ \A l \in Levels : l # 6 => /\ l \in irqh'.IRQ <=> l \in irqh.IRQ
                                      /\ irqh'.CallBack[l] = irqh.CallBack[l]
        /\ 6 \in irqh'.IRQ /\ irqh'.CallBack[6] = "MFP"
    BY <2>1, SettledNow DEF IrqhStates
  <2> QED
    BY <1>1, <1>2, <1>3, <1>5, <2>1, <2>2, MfpStep DEF IInv, TypeOK
<1> QED
  BY <1>4, <1>5

(* A write to an enable, pending, service or mask register.                *)
LEMMA MfpWriteKeeps ==
  ASSUME IInv, MfpWrite
  PROVE  IInv' /\ irqh'.IRQ \in {irqh.IRQ \ {6}, irqh.IRQ \union {6}}
<1>1. UNCHANGED <<dmacIntVars, flag_I, iocVars, owed>>
  BY DEF MfpWrite
<1>2. irqh' = MFP_RecheckInt(irqh, IPR', IMR', ISR') /\ MFP_TypeOK'
  <2>1. PICK bank \in {BankA, BankB} : \E data \in SUBSET bank :
          \/ WriteIER(bank, data) \/ WriteIPR(bank, data)
          \/ WriteISR(bank, data) \/ WriteIMR(bank, data)
    BY DEF MfpWrite, MFP_Write
  <2>0. PICK data \in SUBSET bank :
          \/ WriteIER(bank, data) \/ WriteIPR(bank, data)
          \/ WriteISR(bank, data) \/ WriteIMR(bank, data)
    BY <2>1
  <2>2. data \subseteq Channel
    BY DEF BankA, BankB
  <2>3. MFP_TypeOK
    BY DEF IInv, TypeOK
  <2>4. CASE WriteIER(bank, data)
    BY <2>2, <2>3, <2>4 DEF WriteIER, MFP_TypeOK
  <2>5. CASE WriteIPR(bank, data)
    BY <2>3, <2>5 DEF WriteIPR, MFP_TypeOK
  <2>6. CASE WriteISR(bank, data)
    BY <2>3, <2>6 DEF WriteISR, MFP_TypeOK
  <2>7. CASE WriteIMR(bank, data)
    BY <2>2, <2>3, <2>7 DEF WriteIMR, MFP_TypeOK
  <2> QED
    BY <2>0, <2>4, <2>5, <2>6, <2>7
<1> DEFINE ready == Deliverable(IPR', IMR', ISR')
<1>3. /\ Settled(irqh')
      /\ irqh'.IRQ = IF ready = {} THEN irqh.IRQ \ {6} ELSE irqh.IRQ \union {6}
      /\ irqh'.CallBack = IF ready = {} THEN irqh.CallBack
                          ELSE [irqh.CallBack EXCEPT ![6] = "MFP"]
  <2>1. PICK s, ipr, imr, isr : s = irqh /\ ipr = IPR' /\ imr = IMR' /\ isr = ISR'
    OBVIOUS
  <2>2. s \in IrqhStates
    BY <2>1, SettledNow
  <2>3. irqh' = MFP_RecheckInt(s, ipr, imr, isr)
    BY <1>2, <2>1 DEF MFP_RecheckInt, RaiseIfDeliverable, Deliverable
  <2>4. ready = Deliverable(ipr, imr, isr)
    BY <2>1 DEF Deliverable
  <2> HIDE DEF ready
  <2> QED
    BY <2>1, <2>2, <2>3, <2>4, RecheckSettles DEF Settled
<1> HIDE DEF ready
<1>4. /\ \A l \in Levels : l # 6 => /\ l \in irqh'.IRQ <=> l \in irqh.IRQ
                                    /\ irqh'.CallBack[l] = irqh.CallBack[l]
      /\ 6 \in irqh'.IRQ <=> ready # {}
      /\ 6 \in irqh'.IRQ => irqh'.CallBack[6] = "MFP"
  BY <1>3, SettledNow DEF IrqhStates
<1>5. flag_I' \in 0 .. 7
  BY <1>1 DEF IInv, TypeOK
<1> QED
  BY <1>1, <1>2, <1>3, <1>4, <1>5, MfpStep DEF ready

(* DMAINT of one channel.                                                  *)
LEMMA DmaEventKeeps ==
  ASSUME IInv, NEW ch \in DmaUsed, DmaEvent(ch)
  PROVE  IInv' /\ irqh'.IRQ = irqh.IRQ \union {3}
<1>1. /\ DMA_IntCH' = DMA_IntCH \union {ch}
      /\ irqh' = IRQH_Int(irqh, 3, "DMA")
      /\ UNCHANGED <<DMA_LastInt, mfpVars, flag_I, iocVars, owed>>
  BY DEF DmaEvent, DMAINT
<1>2. DmacInt_TypeOK'
  BY <1>1, DmaUsedAssumption DEF IInv, TypeOK, DmacInt_TypeOK
<1>3. /\ Settled(irqh')
      /\ irqh'.IRQ = irqh.IRQ \union {3}
      /\ irqh'.CallBack = [irqh.CallBack EXCEPT ![3] = "DMA"]
  BY <1>1, RaiseDma, SettledNow
<1>4. /\ \A l \in Levels : l # 3 => /\ l \in irqh'.IRQ <=> l \in irqh.IRQ
                                    /\ irqh'.CallBack[l] = irqh.CallBack[l]
      /\ 3 \in irqh'.IRQ /\ irqh'.CallBack[3] = "DMA"
  BY <1>3, SettledNow DEF IrqhStates
<1>5. flag_I' \in 0 .. 7 /\ DMA_IntCH' # {}
  BY <1>1 DEF IInv, TypeOK
<1> QED
  BY <1>1, <1>2, <1>3, <1>4, <1>5, DmaStep

(* The CPU takes a level that is flagged, with the routine of its device.  *)
LEMMA TakenLevel ==
  ASSUME IInv, CpuTakes(irqh, flag_I)
  PROVE  /\ irqh.line \in irqh.IRQ
         /\ irqh.line \in Levels
         /\ \A o \in irqh.IRQ : o <= irqh.line
         /\ irqh.line \in PlainLevels \union {6, 3}
<1>1. irqh.line # 0
  BY DEF CpuTakes, IInv, TypeOK, IrqhStates
<1>2. irqh.IRQ \in SUBSET (1 .. 7) /\ irqh.line = Highest(irqh.IRQ)
  BY SettledNow DEF Settled, IrqhStates
<1>3. irqh.line \in irqh.IRQ /\ \A o \in irqh.IRQ : o <= irqh.line
  BY <1>1, <1>2, HighestOf
<1> QED
  BY <1>2, <1>3 DEF IInv, OnlyKnownLevels

(* The routine found in the slot of the taken level tells whose it is.     *)
LEMMA WhoAnswers ==
  ASSUME IInv, CpuTakes(irqh, flag_I)
  PROVE  /\ irqh.CallBack[irqh.line] = "MFP" => irqh.line = 6
         /\ irqh.CallBack[irqh.line] = "DMA" => irqh.line = 3
         /\ irqh.CallBack[irqh.line] \in Source => irqh.line \in PlainLevels
<1> DEFINE L == irqh.line
<1>1. L \in irqh.IRQ /\ L \in PlainLevels \union {6, 3}
  BY TakenLevel
<1>2. L \in PlainLevels => irqh.CallBack[L] \in Source
  BY <1>1 DEF IInv, AnsweredByRequester, TypeOK
<1>3. L = 6 => irqh.CallBack[L] = "MFP"
  BY <1>1 DEF IInv, AnsweredByRequester
<1>4. L = 3 => irqh.CallBack[L] = "DMA"
  BY <1>1 DEF IInv, AnsweredByRequester
<1>5. "MFP" \notin Source /\ "DMA" \notin Source
  BY SourceLevels
<1> HIDE DEF L
<1>6. /\ irqh.CallBack[L] = "MFP" => L = 6
      /\ irqh.CallBack[L] = "DMA" => L = 3
      /\ irqh.CallBack[L] \in Source => L \in PlainLevels
  BY <1>1, <1>2, <1>3, <1>4, <1>5
<1> QED
  BY <1>6 DEF L

(* The acknowledge routine of the MFP after the latch is dropped.          *)
LEMMA AnswerMfpKeeps ==
  ASSUME IInv, CpuTakes(irqh, flag_I), flag_I' = irqh.line, AnswerMfp,
         UNCHANGED iocVars
  PROVE  IInv' /\ irqh'.IRQ \in {irqh.IRQ, irqh.IRQ \ {irqh.line}}
<1>1. irqh.line = 6 /\ 6 \in irqh.IRQ
  BY WhoAnswers, TakenLevel DEF AnswerMfp
<1>2. Deliverable(IPR, IMR, ISR) # {}
  BY <1>1 DEF IInv, MfpFlaggedIffDeliverable
<1> DEFINE n == MFP_IntChannel
           w == IRQH_IRQCallBack(CpuAcknowledges(irqh), 6)
<1>3. n \in Channel
  <2>1. Deliverable(IPR, IMR, ISR) \in SUBSET Nat
    BY ChannelAssumption DEF IInv, TypeOK, MFP_TypeOK, Deliverable
  <2>2. n \in Deliverable(IPR, IMR, ISR)
    BY <1>2, <2>1, MinOf DEF MFP_IntChannel
  <2> QED
    BY <2>2 DEF IInv, TypeOK, MFP_TypeOK, Deliverable
<1> HIDE DEF n
<1>4. /\ IPR' = IPR \ {n}
      /\ ISR' = IF VR_S THEN ISR \union {n} ELSE ISR
      /\ irqh' = my_irqh_callback_End(RaiseIfDeliverable(w, IPR', IMR, ISR'))
      /\ UNCHANGED <<IER, IMR, VR_S, dmacIntVars, owed>>
  BY <1>2 DEF AnswerMfp, MFP_IntCallback, n
<1>5. MFP_TypeOK'
  BY <1>3, <1>4 DEF IInv, TypeOK, MFP_TypeOK
<1>6. w \in IrqhStates /\ Settled(w) /\ w.IRQ = irqh.IRQ \ {6} /\ w.CallBack = irqh.CallBack
  <2>1. PICK a : a = CpuAcknowledges(irqh)
    OBVIOUS
  <2>2. a \in IrqhStates /\ a.IRQ = irqh.IRQ /\ a.CallBack = irqh.CallBack
    BY <2>1, SettledNow, Acknowledged
  <2>3. w = IRQH_IRQCallBack(a, 6)
    BY <2>1
  <2> HIDE DEF w
  <2> QED
    BY <2>2, <2>3, WithdrawSettles DEF Settled
<1> HIDE DEF w
<1> DEFINE ready == Deliverable(IPR', IMR', ISR')
<1>7. irqh' = my_irqh_callback_End(IF ready = {} THEN w ELSE IRQH_Int(w, 6, "MFP"))
  BY <1>4 DEF RaiseIfDeliverable, Deliverable
<1>8. /\ Settled(irqh')
      /\ irqh'.IRQ = IF ready = {} THEN irqh.IRQ \ {6} ELSE irqh.IRQ \union {6}
      /\ irqh'.CallBack = IF ready = {} THEN irqh.CallBack
                          ELSE [irqh.CallBack EXCEPT ![6] = "MFP"]
  <2>1. CASE ready = {}
    <3>1. irqh' = my_irqh_callback_End(w)
      BY <1>7, <2>1
    <3> HIDE DEF ready
    <3> QED
      BY <1>6, <2>1, <3>1, EndSettles
  <2>2. CASE ready # {}
    <3>1. PICK x : x = IRQH_Int(w, 6, "MFP")
      OBVIOUS
    <3>2. /\ Settled(x) /\ x.IRQ = irqh.IRQ \union {6}
          /\ x.CallBack = [irqh.CallBack EXCEPT ![6] = "MFP"]
      BY <1>6, <3>1, RaiseMfp
    <3>3. irqh' = my_irqh_callback_End(x)
      BY <1>7, <2>2, <3>1
    <3> HIDE DEF ready
    <3> QED
      BY <2>2, <3>2, <3>3, EndSettles
  <2> QED
    BY <2>1, <2>2
<1> HIDE DEF ready
<1>9. /\ \A l \in Levels : l # 6 => /\ l \in irqh'.IRQ <=> l \in irqh.IRQ
                                    /\ irqh'.CallBack[l] = irqh.CallBack[l]
      /\ 6 \in irqh'.IRQ <=> ready # {}
      /\ 6 \in irqh'.IRQ => irqh'.CallBack[6] = "MFP"
  BY <1>8, SettledNow DEF IrqhStates
<1>10. irqh'.IRQ \in {irqh.IRQ, irqh.IRQ \ {6}}
  BY <1>1, <1>8
<1>11. flag_I' \in 0 .. 7 /\ UNCHANGED <<dmacIntVars, iocVars, owed>>
  BY <1>1, <1>4
<1>12. 6 \in irqh'.IRQ <=> Deliverable(IPR', IMR', ISR') # {}
  BY <1>9 DEF ready
<1>13. IInv'
  BY <1>5, <1>8, <1>9, <1>11, <1>12, MfpStep
<1> QED
  BY <1>1, <1>10, <1>13

(* The acknowledge routine of the DMA controller.                          *)
LEMMA AnswerDmaKeeps ==
  ASSUME IInv, CpuTakes(irqh, flag_I), flag_I' = irqh.line, AnswerDma,
         UNCHANGED iocVars
  PROVE  IInv' /\ irqh'.IRQ \in {irqh.IRQ, irqh.IRQ \ {irqh.line}}
<1>1. irqh.line = 3 /\ 3 \in irqh.IRQ
  BY WhoAnswers, TakenLevel DEF AnswerDma
<1> DEFINE w == IRQH_IRQCallBack(CpuAcknowledges(irqh), 3)
<1>2. /\ DMA_IntCH' = DMA_IntCH \ {DMA_Answered}
      /\ DMA_LastInt' = DMA_Answered
      /\ irqh' = my_irqh_callback_End(IF DMA_IntCH' = {} THEN w ELSE IRQH_Int(w, 3, "DMA"))
      /\ UNCHANGED <<mfpVars, owed>>
  BY DEF AnswerDma, DMA_Int
<1>3. DmacInt_TypeOK'
  <2>1. DMA_IntCH \in SUBSET (0 .. 3) /\ DMA_LastInt \in 0 .. 3
    BY DEF IInv, TypeOK, DmacInt_TypeOK, DmaChannels
  <2>2. DMA_Answered \in 0 .. 3
    BY <2>1, AnsweredInRange DEF DmaChannels
  <2> QED
    BY <1>2, <2>1, <2>2 DEF DmacInt_TypeOK, DmaChannels
<1>4. w \in IrqhStates /\ Settled(w) /\ w.IRQ = irqh.IRQ \ {3} /\ w.CallBack = irqh.CallBack
  <2>1. PICK a : a = CpuAcknowledges(irqh)
    OBVIOUS
  <2>2. a \in IrqhStates /\ a.IRQ = irqh.IRQ /\ a.CallBack = irqh.CallBack
    BY <2>1, SettledNow, Acknowledged
  <2>3. w = IRQH_IRQCallBack(a, 3)
    BY <2>1
  <2> HIDE DEF w
  <2> QED
    BY <2>2, <2>3, WithdrawSettles DEF Settled
<1> HIDE DEF w
<1>5. /\ Settled(irqh')
      /\ irqh'.IRQ = IF DMA_IntCH' = {} THEN irqh.IRQ \ {3} ELSE irqh.IRQ \union {3}
      /\ irqh'.CallBack = IF DMA_IntCH' = {} THEN irqh.CallBack
                          ELSE [irqh.CallBack EXCEPT ![3] = "DMA"]
  <2>1. CASE DMA_IntCH' = {}
    BY <1>2, <1>4, <2>1, EndSettles
  <2>2. CASE DMA_IntCH' # {}
    <3>1. PICK x : x = IRQH_Int(w, 3, "DMA")
      OBVIOUS
    <3>2. /\ Settled(x) /\ x.IRQ = irqh.IRQ \union {3}
          /\ x.CallBack = [irqh.CallBack EXCEPT ![3] = "DMA"]
      BY <1>4, <3>1, RaiseDma
    <3>3. irqh' = my_irqh_callback_End(x)
      BY <1>2, <2>2, <3>1
    <3> QED
      BY <2>2, <3>2, <3>3, EndSettles
  <2> QED
    BY <2>1, <2>2
<1>6. /\ \A l \in Levels : l # 3 => /\ l \in irqh'.IRQ <=> l \in irqh.IRQ
                                    /\ irqh'.CallBack[l] = irqh.CallBack[l]
      /\ 3 \in irqh'.IRQ <=> DMA_IntCH' # {}
      /\ 3 \in irqh'.IRQ => irqh'.CallBack[3] = "DMA"
  BY <1>5, SettledNow DEF IrqhStates
<1> QED
  BY <1>1, <1>2, <1>3, <1>5, <1>6, DmaStep

(* The acknowledge routine of a plain source.                              *)
LEMMA AnswerPlainKeeps ==
  ASSUME IInv, CpuTakes(irqh, flag_I), flag_I' = irqh.line, AnswerPlain,
         UNCHANGED iocVars
  PROVE  IInv' /\ irqh'.IRQ \in {irqh.IRQ, irqh.IRQ \ {irqh.line}}
<1> DEFINE k == irqh.line
           w == IRQH_IRQCallBack(CpuAcknowledges(irqh), k)
<1>1. k \in PlainLevels /\ k \in Levels /\ k \in {1, 4, 5, 7}
  <2>1. irqh.CallBack[k] \in Source
    BY DEF AnswerPlain
  <2>2. k \in PlainLevels
    BY <2>1, WhoAnswers
  <2> HIDE DEF k
  <2> QED
    BY <2>2, PlainLevelsRange
<1>2. /\ irqh' = my_irqh_callback_End(w)
      /\ owed' = owed \ SourcesAt(k)
      /\ UNCHANGED <<mfpVars, dmacIntVars>>
      /\ flag_I' = k
  BY DEF AnswerPlain
<1> HIDE DEF k
<1>3. Settled(w) /\ w.IRQ = irqh.IRQ \ {k} /\ w.CallBack = irqh.CallBack
  <2>1. PICK a : a = CpuAcknowledges(irqh)
    OBVIOUS
  <2>2. a \in IrqhStates /\ a.IRQ = irqh.IRQ /\ a.CallBack = irqh.CallBack
    BY <2>1, SettledNow, Acknowledged
  <2>3. w = IRQH_IRQCallBack(a, k)
    BY <2>1
  <2> HIDE DEF w
  <2> QED
    BY <1>1, <2>2, <2>3, WithdrawSettles DEF Settled
<1> HIDE DEF w
<1>4. Settled(irqh') /\ irqh'.IRQ = irqh.IRQ \ {k} /\ irqh'.CallBack = irqh.CallBack
  BY <1>2, <1>3, EndSettles
<1>5. \A l \in Levels : l # k => /\ l \in irqh'.IRQ <=> l \in irqh.IRQ
                                 /\ irqh'.CallBack[l] = irqh.CallBack[l]
  BY <1>4
<1>6. \A l \in PlainLevels \ {k} :
        owed' \intersect SourcesAt(l) = owed \intersect SourcesAt(l)
  BY <1>2 DEF SourcesAt
<1>7. k \notin irqh'.IRQ /\ owed' \intersect SourcesAt(k) = {}
  BY <1>2, <1>4
<1>8. owed' \subseteq Source /\ IOC_Enable' \subseteq IocGated /\ IOC_Status' \subseteq IocReported
  BY <1>2 DEF IInv, TypeOK, iocVars
<1>9. flag_I' \in 0 .. 7
  BY <1>1, <1>2
<1> QED
  BY <1>1, <1>2, <1>4, <1>5, <1>6, <1>7, <1>8, <1>9, PlainStep

-----------------------------------------------------------------------------
(* Every step keeps the invariant.                                         *)
LEMMA NextKeeps == ASSUME IInv, Next PROVE IInv'
<1>1. CASE Reset BY <1>1, ResetKeeps
<1>2. CASE \E s \in Source : Request(s) BY <1>2, RequestKeeps
<1>3. CASE \E enable \in EnableChoice : IOC_Write(enable) BY <1>3, IocWriteKeeps
<1>4. CASE \E chans \in SUBSET Channel : MfpEvent(chans) BY <1>4, MfpEventKeeps
<1>5. CASE MfpWrite BY <1>5, MfpWriteKeeps
<1>6. CASE \E seoi \in BOOLEAN : MfpWriteVR(seoi) BY <1>6, WriteVRKeeps
<1>7. CASE \E ch \in DmaUsed : DmaEvent(ch) BY <1>7, DmaEventKeeps
<1>8. CASE \E m \in Mask : SetMask(m) BY <1>8, SetMaskKeeps
<1>9. CASE CpuAccept
  <2>1. CpuTakes(irqh, flag_I) /\ flag_I' = irqh.line /\ UNCHANGED iocVars
    BY <1>9 DEF CpuAccept
  <2>2. CASE AnswerMfp BY <2>1, <2>2, AnswerMfpKeeps
  <2>3. CASE AnswerDma BY <2>1, <2>3, AnswerDmaKeeps
  <2>4. CASE AnswerPlain BY <2>1, <2>4, AnswerPlainKeeps
  <2> QED
    BY <1>9, <2>2, <2>3, <2>4 DEF CpuAccept
<1> QED
  BY <1>1, <1>2, <1>3, <1>4, <1>5, <1>6, <1>7, <1>8, <1>9 DEF Next

(* A stutter keeps the invariant.                                          *)
LEMMA StutterKeeps == ASSUME IInv, UNCHANGED vars PROVE IInv'
<1> USE DEF vars, mfpVars, dmacIntVars, iocVars, IInv
<1>1. TypeOK'
  BY DEF TypeOK, MFP_TypeOK, DmacInt_TypeOK
<1>2. LineIsHighestPending' /\ MfpFlaggedIffDeliverable' /\ DmaFlaggedIffWaiting'
  BY DEF LineIsHighestPending, MfpFlaggedIffDeliverable, DmaFlaggedIffWaiting
<1>3. AnsweredByRequester' /\ OnlyKnownLevels'
  BY DEF AnsweredByRequester, OnlyKnownLevels
<1> QED
  BY <1>1, <1>2, <1>3

(* The invariant holds in every reachable state.                           *)
THEOREM InvariantHolds == Spec => []IInv
<1>1. IInv /\ [Next]_vars => IInv'
  <2>1. CASE Next
    BY <2>1, NextKeeps
  <2>2. CASE UNCHANGED vars
    BY <2>2, StutterKeeps
  <2> QED
    BY <2>1, <2>2
<1> QED
  BY InitEstablishes, <1>1, PTL DEF Spec

(* The variables of the system, and of the devices in it, keep their       *)
(* types.                                                                  *)
THEOREM TypeCorrect == Spec => []TypeOK
  BY InvariantHolds, PTL DEF IInv

(* Whatever the devices and the program do, the CPU's input shows the      *)
(* highest level flagged.                                                  *)
THEOREM LatchShowsHighest == Spec => []LineIsHighestPending
  BY InvariantHolds, PTL DEF IInv

(* No MFP request is lost, and none is answered that is not there.         *)
THEOREM MfpLosesNoRequest == Spec => []MfpFlaggedIffDeliverable
  BY InvariantHolds, PTL DEF IInv

(* No DMA channel waits with level 3 down.                                 *)
THEOREM DmaLosesNoRequest == Spec => []DmaFlaggedIffWaiting
  BY InvariantHolds, PTL DEF IInv

(* The CPU is answered by a device that asked.                             *)
THEOREM RequesterAnswers == Spec => []AnsweredByRequester
  BY InvariantHolds, PTL DEF IInv

-----------------------------------------------------------------------------
(* Each action is a step, or a stutter, of the abstract delivery.          *)
LEMMA RaisesOrLowers ==
  ASSUME NEW l \in Levels, UNCHANGED flag_I,
         irqh'.IRQ \in {irqh.IRQ, irqh.IRQ \union {l}, irqh.IRQ \ {l}}
  PROVE  [Abstract!Next]_(Abstract!absVars)
  BY DEF Abstract!Next, Abstract!absVars, Abstract!Raise, Abstract!Withdraw, Abstract!Level

(* The acknowledge cycle of the CPU is the abstract Take.                  *)
LEMMA AcceptTakes ==
  ASSUME IInv, CpuAccept,
         irqh'.IRQ \in {irqh.IRQ, irqh.IRQ \ {irqh.line}}
  PROVE  [Abstract!Next]_(Abstract!absVars)
<1>1. /\ irqh.line \in irqh.IRQ /\ irqh.line \in Levels
      /\ \A o \in irqh.IRQ : o <= irqh.line
      /\ irqh.line = 7 \/ irqh.line > flag_I
      /\ flag_I' = irqh.line
  BY TakenLevel DEF CpuAccept, CpuTakes
<1>2. Abstract!Take(irqh.line)
  BY <1>1 DEF Abstract!Take
<1> QED
  BY <1>1, <1>2 DEF Abstract!Next, Abstract!Level

(* Every step is an abstract step or a stutter.                            *)
LEMMA StepRefines ==
  ASSUME IInv, Next
  PROVE  [Abstract!Next]_(Abstract!absVars)
<1>1. CASE Reset
  BY <1>1 DEF Reset, IRQH_Reset, Abstract!Next, Abstract!Reset
<1>2. CASE \E s \in Source : Request(s)
  <2>1. \E l \in Levels : irqh'.IRQ \in {irqh.IRQ, irqh.IRQ \union {l}}
    BY <1>2, RequestKeeps
  <2>2. UNCHANGED flag_I
    BY <1>2 DEF Request
  <2> QED
    BY <2>1, <2>2, RaisesOrLowers
<1>3. CASE \E enable \in EnableChoice : IOC_Write(enable)
  BY <1>3 DEF IOC_Write, Abstract!absVars
<1>4. CASE \E chans \in SUBSET Channel : MfpEvent(chans)
  BY <1>4, MfpEventKeeps, RaisesOrLowers DEF MfpEvent
<1>5. CASE MfpWrite
  BY <1>5, MfpWriteKeeps, RaisesOrLowers DEF MfpWrite
<1>6. CASE \E seoi \in BOOLEAN : MfpWriteVR(seoi)
  BY <1>6 DEF MfpWriteVR, WriteVR, Abstract!absVars
<1>7. CASE \E ch \in DmaUsed : DmaEvent(ch)
  BY <1>7, DmaEventKeeps, RaisesOrLowers DEF DmaEvent
<1>8. CASE \E m \in Mask : SetMask(m)
  BY <1>8, MaskAssumption DEF SetMask, Abstract!Next, Abstract!SetMask
<1>9. CASE CpuAccept
  <2>1. CpuTakes(irqh, flag_I) /\ flag_I' = irqh.line /\ UNCHANGED iocVars
    BY <1>9 DEF CpuAccept
  <2>2. irqh'.IRQ \in {irqh.IRQ, irqh.IRQ \ {irqh.line}}
    BY <1>9, <2>1, AnswerMfpKeeps, AnswerDmaKeeps, AnswerPlainKeeps DEF CpuAccept
  <2> QED
    BY <1>9, <2>2, AcceptTakes
<1> QED
  BY <1>1, <1>2, <1>3, <1>4, <1>5, <1>6, <1>7, <1>8, <1>9 DEF Next

(* The interrupt system, callbacks, registers and latch included, delivers *)
(* levels by priority as PriorityIrq says.                                 *)
THEOREM ImplementsPriority == Spec => DeliversByPriority
<1>1. Init => Abstract!Init
  BY DEF Init, IRQH_Start, Abstract!Init
<1>2. IInv /\ [Next]_vars => [Abstract!Next]_(Abstract!absVars)
  <2>1. CASE Next
    BY <2>1, StepRefines
  <2>2. CASE UNCHANGED vars
    BY <2>2 DEF vars, Abstract!absVars
  <2> QED
    BY <2>1, <2>2
<1> QED
  BY <1>1, <1>2, InvariantHolds, PTL DEF Spec, DeliversByPriority, Abstract!Spec
=============================================================================
