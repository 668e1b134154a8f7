------------------------------ MODULE DMACProofs ----------------------------
(***************************************************************************)
(* Proofs about the DMA controller, for every set of channels, every bound *)
(* on the counters and every choice of transfer modes.                     *)
(***************************************************************************)
EXTENDS DMAC, TLAPS

USE DEF Levels, DMA_Level

-----------------------------------------------------------------------------
(* The operations of irqh.c, for every handler state: each leaves the      *)
(* latch at the highest level flagged and touches one level.               *)

(* What the scan of irqh.c returns.                                        *)
LEMMA HighestOf ==
  ASSUME NEW S \in SUBSET (1 .. 7)
  PROVE  /\ Highest(S) \in 0 .. 7
         /\ S # {} => Highest(S) \in S
         /\ \A l \in S : l <= Highest(S)
         /\ S = {} => Highest(S) = 0
<1>1. CASE S = {}
  BY <1>1 DEF Highest
<1>2. CASE S # {}
  <2>1. \E x \in S : \A y \in S : x >= y
    <3>1. CASE 7 \in S BY <3>1
    <3>2. CASE 7 \notin S /\ 6 \in S BY <3>2
    <3>3. CASE 7 \notin S /\ 6 \notin S /\ 5 \in S BY <3>3
    <3>4. CASE 7 \notin S /\ 6 \notin S /\ 5 \notin S /\ 4 \in S BY <3>4
    <3>5. CASE 7 \notin S /\ 6 \notin S /\ 5 \notin S /\ 4 \notin S /\ 3 \in S BY <3>5
    <3>6. CASE 7 \notin S /\ 6 \notin S /\ 5 \notin S /\ 4 \notin S /\ 3 \notin S /\ 2 \in S BY <3>6
    <3>7. CASE 7 \notin S /\ 6 \notin S /\ 5 \notin S /\ 4 \notin S /\ 3 \notin S /\ 2 \notin S /\ 1 \in S BY <3>7
    <3>8. 1 \in S \/ 2 \in S \/ 3 \in S \/ 4 \in S \/ 5 \in S \/ 6 \in S \/ 7 \in S
      <4>1. PICK x \in S : TRUE BY <1>2
      <4>2. x = 1 \/ x = 2 \/ x = 3 \/ x = 4 \/ x = 5 \/ x = 6 \/ x = 7 BY SMT
      <4> QED BY <4>1, <4>2
    <3> QED BY <3>8, <3>1, <3>2, <3>3, <3>4, <3>5, <3>6, <3>7
  <2>2. Max(S) \in S /\ \A y \in S : Max(S) >= y
    BY <2>1 DEF Max
  <2>3. Highest(S) = Max(S)
    BY <1>2 DEF Highest
  <2> DEFINE m == Max(S)
  <2>4. m \in S /\ \A y \in S : m >= y
    BY <2>2
  <2> HIDE DEF m
  <2>5. m \in 0 .. 7 /\ \A y \in S : y <= m
    BY <2>4
  <2> QED
    BY <1>2, <2>3, <2>4, <2>5 DEF m
<1> QED
  BY <1>1, <1>2

(* A handler state whose latch shows the highest flag.                     *)
Settled(s) == s \in IrqhStates /\ s.line = Highest(s.IRQ)

(* Raising a level with a routine settles the latch and touches no other   *)
(* level.                                                                  *)
LEMMA RaiseSettles ==
  ASSUME NEW s \in IrqhStates, NEW l \in Levels, NEW h \in Handlers
  PROVE  /\ Settled(IRQH_Int(s, l, h))
         /\ IRQH_Int(s, l, h).IRQ = s.IRQ \union {l}
         /\ IRQH_Int(s, l, h).CallBack = [s.CallBack EXCEPT ![l] = h]
  BY HighestOf DEF Settled, IRQH_Int, IrqhStates

(* Withdrawing a level settles the latch and touches no other level.       *)
LEMMA WithdrawSettles ==
  ASSUME NEW s \in IrqhStates, NEW l \in Levels
  PROVE  /\ Settled(IRQH_IRQCallBack(s, l))
         /\ IRQH_IRQCallBack(s, l).IRQ = s.IRQ \ {l}
         /\ IRQH_IRQCallBack(s, l).CallBack = s.CallBack
  BY HighestOf DEF Settled, IRQH_IRQCallBack, IrqhStates

(* After a routine that has settled the latch, the last scan of            *)
(* my_irqh_callback changes nothing.                                       *)
LEMMA EndSettles ==
  ASSUME NEW s, Settled(s)
  PROVE  /\ Settled(my_irqh_callback_End(s))
         /\ my_irqh_callback_End(s).IRQ = s.IRQ
         /\ my_irqh_callback_End(s).CallBack = s.CallBack
  BY HighestOf DEF Settled, my_irqh_callback_End, IrqhStates

(* The machine's reset clears the flags and the latch.                     *)
LEMMA ResetClears ==
  ASSUME NEW s \in IrqhStates
  PROVE  IRQH_Reset(s) \in IrqhStates /\ IRQH_Reset(s).IRQ = {} /\ IRQH_Reset(s).line = 0
<1>1. IRQH_Reset(s) = [IRQ |-> {}, CallBack |-> s.CallBack, line |-> 0]
  BY DEF IRQH_Reset
<1>2. s.CallBack \in [Levels -> Handlers \union {NoHandler}]
  BY DEF IrqhStates
<1>3. {} \in SUBSET Levels /\ 0 \in 0 .. 7
  OBVIOUS
<1> HIDE DEF Levels
<1> QED
  BY <1>1, <1>2, <1>3 DEF IrqhStates

(* The acknowledge cycle drops the latch only.                             *)
LEMMA Acknowledged ==
  ASSUME NEW s \in IrqhStates
  PROVE  /\ CpuAcknowledges(s) \in IrqhStates
         /\ CpuAcknowledges(s).IRQ = s.IRQ
         /\ CpuAcknowledges(s).CallBack = s.CallBack
<1>1. CpuAcknowledges(s) = [IRQ |-> s.IRQ, CallBack |-> s.CallBack, line |-> 0]
  BY DEF CpuAcknowledges, IrqhStates
<1>2. s.CallBack \in [Levels -> Handlers \union {NoHandler}] /\ s.IRQ \in SUBSET Levels
  BY DEF IrqhStates
<1>3. 0 \in 0 .. 7
  OBVIOUS
<1> HIDE DEF Levels
<1> QED
  BY <1>1, <1>2, <1>3 DEF IrqhStates

-----------------------------------------------------------------------------
(* Raising level 3 for the DMA controller.                                 *)
LEMMA RaiseDma ==
  ASSUME NEW s \in IrqhStates
  PROVE  /\ Settled(IRQH_Int(s, 3, "DMA"))
         /\ IRQH_Int(s, 3, "DMA").IRQ = s.IRQ \union {3}
         /\ IRQH_Int(s, 3, "DMA").CallBack = [s.CallBack EXCEPT ![3] = "DMA"]
<1>1. "DMA" \in Handlers /\ 3 \in Levels
  BY DEF Handlers
<1> QED
  BY <1>1, RaiseSettles

(* The scan of DMA_Int ends on one of the four channels.                   *)
LEMMA AnsweredInRange ==
  ASSUME DMA_IntCH \in SUBSET (0 .. 3), DMA_LastInt \in 0 .. 3
  PROVE  /\ DMA_Answered \in 0 .. 3
         /\ DMA_IntCH # {} => DMA_Answered \in DMA_IntCH
<1>1. CASE DMA_IntCH = {}
  BY <1>1 DEF DMA_Answered
<1>2. CASE DMA_IntCH # {}
  <2> DEFINE at(d) == (DMA_LastInt + d) % 4
             First(ch) == \A o \in DMA_IntCH : ScanDistance(ch) <= ScanDistance(o)
  <2>1. \A ch \in 0 .. 3 : ScanDistance(ch) \in 0 .. 3
    BY DEF ScanDistance
  <2>2. \E ch \in DMA_IntCH : First(ch)
    <3>1. CASE \E c \in DMA_IntCH : ScanDistance(c) = 0 BY <2>1, <3>1
    <3>2. CASE /\ \A c \in DMA_IntCH : ScanDistance(c) # 0
               /\ \E c \in DMA_IntCH : ScanDistance(c) = 1
      BY <2>1, <3>2
    <3>3. CASE /\ \A c \in DMA_IntCH : ScanDistance(c) # 0 /\ ScanDistance(c) # 1
               /\ \E c \in DMA_IntCH : ScanDistance(c) = 2
      BY <2>1, <3>3
    <3>4. CASE /\ \A c \in DMA_IntCH : /\ ScanDistance(c) # 0 /\ ScanDistance(c) # 1
                                       /\ ScanDistance(c) # 2
      <4>1. \A c \in DMA_IntCH : ScanDistance(c) = 3
        <5> SUFFICES ASSUME NEW c \in DMA_IntCH PROVE ScanDistance(c) = 3
          OBVIOUS
        <5>1. c \in 0 .. 3
          OBVIOUS
        <5>2. ScanDistance(c) \in 0 .. 3
          BY <2>1, <5>1
        <5>3. ScanDistance(c) # 0 /\ ScanDistance(c) # 1 /\ ScanDistance(c) # 2
          BY <3>4
        <5> QED
          BY <5>2, <5>3
      <4>2. ASSUME NEW ch \in DMA_IntCH, NEW o \in DMA_IntCH
            PROVE  ScanDistance(ch) <= ScanDistance(o)
        <5>1. ScanDistance(ch) = 3 /\ ScanDistance(o) = 3
          BY <4>1
        <5> QED
          BY <5>1
      <4> QED
        BY <1>2, <4>2
    <3> QED
      BY <3>1, <3>2, <3>3, <3>4
  <2> HIDE DEF First
  <2>3. DMA_Answered = CHOOSE ch \in DMA_IntCH : First(ch)
    BY <1>2 DEF DMA_Answered, First
  <2> QED
    BY <2>2, <2>3
<1> QED
  BY <1>1, <1>2

-----------------------------------------------------------------------------
(* What a step may do to the registers: one channel takes a value that is  *)
(* well formed and, if active, started.                                    *)
Good(c) == c \in dmac_ch /\ ("ACT" \in c.CSR => "STR" \in c.CCR)

ChannelsGood == DMA \in [UsedCh -> dmac_ch] /\ \A ch \in UsedCh : Good(DMA[ch])

HandlerKnown == handler \in HandlerStates

(* Storing good registers, with or without DMAINT, keeps the invariant.    *)
LEMMA StoreKeeps ==
  ASSUME ChannelsGood, NEW ch \in UsedCh, NEW c, Good(c),
         Store(ch, c) \/ StoreAndNotify(ch, c)
  PROVE  ChannelsGood'
<1>1. DMA' = [DMA EXCEPT ![ch] = c]
  BY DEF Store, StoreAndNotify
<1> QED
  BY <1>1 DEF ChannelsGood, Good

(* A channel in error is good, whatever the code.                          *)
LEMMA FailedGood ==
  ASSUME NEW c \in dmac_ch, NEW err \in Codes
  PROVE  Good(Failed(c, err))
  BY DEF Failed, Good, dmac_ch, CsrBits, CcrBits

(* The two-way DMAERR leaves a good channel, whichever code it stores.     *)
LEMMA FailedEitherGood ==
  ASSUME NEW c \in dmac_ch, NEW first, NEW a \in Codes, NEW b \in Codes
  PROVE  Good(FailedEither(c, first, a, b))
<1>1. c.CER \in Codes
  BY DEF dmac_ch
<1>2. (IF "INT" \notin c.CCR THEN b ELSE IF first THEN a ELSE c.CER) \in Codes
  BY <1>1
<1> QED
  BY <1>2, FailedGood DEF FailedEither

(* A channel that completes is good.                                       *)
LEMMA CompletedGood ==
  ASSUME NEW c \in dmac_ch
  PROVE  Good(Completed(c))
<1>1. 0 \in Counters
  BY MaxCountAssumption DEF Counters
<1> QED
  BY <1>1 DEF Completed, Good, dmac_ch, CsrBits

(* Loading a counter with a value in range.                                *)
LEMMA LoadedGood ==
  ASSUME NEW c, Good(c), NEW count \in Counters
  PROVE  Good([c EXCEPT !.MTC = count])
  BY DEF Good, dmac_ch

-----------------------------------------------------------------------------
(* Reading the next chain entry keeps the invariant, faults included.      *)
LEMMA LoadEntryKeeps ==
  ASSUME ChannelsGood, NEW ch \in UsedCh, NEW c, Good(c), NEW fault,
         NEW count \in Counters, LoadEntry(ch, c, fault, count)
  PROVE  ChannelsGood'
<1> DEFINE loaded == [c EXCEPT !.MTC = count]
<1>1. Good(loaded) /\ loaded \in dmac_ch
  BY LoadedGood DEF Good
<1>2. Good(FailedEither(loaded, fault = 1, "bus", "address")) /\ Good(Failed(loaded, "count"))
  <2>1. "bus" \in Codes /\ "address" \in Codes /\ "count" \in Codes
    BY DEF Codes
  <2> HIDE DEF loaded
  <2> QED
    BY <1>1, <2>1, FailedGood, FailedEitherGood
<1>3. \/ StoreAndNotify(ch, FailedEither(loaded, fault = 1, "bus", "address"))
      \/ StoreAndNotify(ch, Failed(loaded, "count"))
      \/ Store(ch, loaded)
  BY DEF LoadEntry
<1> HIDE DEF loaded
<1> QED
  BY <1>1, <1>2, <1>3, StoreKeeps

(* Completing a channel keeps the invariant.                               *)
LEMMA FinishKeeps ==
  ASSUME ChannelsGood, NEW ch \in UsedCh, NEW c \in dmac_ch, Finish(ch, c)
  PROVE  ChannelsGood'
<1>1. Good(Completed(c)) /\ StoreAndNotify(ch, Completed(c))
  BY CompletedGood DEF Finish
<1> QED
  BY <1>1, StoreKeeps

(* The last operand of a block of a link chain.                            *)
LEMMA LinkKeeps ==
  ASSUME ChannelsGood, NEW ch \in UsedCh, EndOfLinkBlock(ch)
  PROVE  ChannelsGood'
<1> DEFINE c == DMA[ch]
<1>1. Good(c) /\ c \in dmac_ch
  BY DEF ChannelsGood, Good
<1>2. CASE Finish(ch, c)
  BY <1>1, <1>2, FinishKeeps
<1>3. CASE \E next \in 0 .. c.BAR - 1, count \in Counters, fault \in {0, 1, 3} :
             LoadEntry(ch, [c EXCEPT !.BAR = next], fault, count)
  <2>1. PICK next \in 0 .. c.BAR - 1, count \in Counters, fault \in {0, 1, 3} :
             LoadEntry(ch, [c EXCEPT !.BAR = next], fault, count)
    BY <1>3
  <2>2. next \in 0 .. MaxChain
    BY <1>1, MaxChainAssumption DEF dmac_ch
  <2> HIDE DEF c
  <2>3. Good([c EXCEPT !.BAR = next])
    BY <1>1, <2>2 DEF Good, dmac_ch
  <2> QED
    BY <2>1, <2>3, LoadEntryKeeps
<1> QED
  BY <1>2, <1>3 DEF EndOfLinkBlock

(* The address register of an array stays in range.                        *)
LEMMA NextInArrayRange ==
  ASSUME NEW bar \in 0 .. MaxChain
  PROVE  NextInArray(bar) \in 0 .. MaxChain
<1>1. CASE bar # 0
  BY <1>1 DEF NextInArray
<1>2. CASE bar = 0
  <2>1. \E x \in {1, MaxChain} : \A y \in {1, MaxChain} : x <= y
    BY MaxChainAssumption
  <2>2. /\ Min({1, MaxChain}) \in {1, MaxChain}
        /\ \A y \in {1, MaxChain} : Min({1, MaxChain}) <= y
    BY <2>1 DEF Min
  <2> QED
    BY <1>2, <2>2, MaxChainAssumption DEF NextInArray
<1> QED
  BY <1>1, <1>2

(* The last operand of a block of an array chain, with BTC wrapping at 0.  *)
LEMMA ArrayKeeps ==
  ASSUME ChannelsGood, NEW ch \in UsedCh, EndOfArrayBlock(ch)
  PROVE  ChannelsGood'
<1> DEFINE n == (DMA[ch].BTC - 1) % (MaxBlocks + 1)
           c == [DMA[ch] EXCEPT !.BTC = n]
<1>1. Good(c) /\ c \in dmac_ch
  <2>1. Good(DMA[ch]) /\ DMA[ch].BTC \in 0 .. MaxBlocks
    BY DEF ChannelsGood, Good, dmac_ch, BaseCounters
  <2>2. n \in BaseCounters
    BY <2>1, MaxBlocksAssumption, MaxCountAssumption DEF BaseCounters
  <2> HIDE DEF n
  <2> QED
    BY <2>1, <2>2 DEF Good, dmac_ch
<1>2. \/ Finish(ch, c)
      \/ \E count \in Counters, fault \in {0, 1, 3} :
           LoadEntry(ch, [c EXCEPT !.BAR = NextInArray(@)], fault, count)
  BY DEF EndOfArrayBlock
<1> HIDE DEF c
<1>3. Good([c EXCEPT !.BAR = NextInArray(@)])
  <2>1. NextInArray(c.BAR) \in 0 .. MaxChain
    BY <1>1, NextInArrayRange DEF dmac_ch
  <2> QED
    BY <1>1, <2>1 DEF Good, dmac_ch
<1> QED
  BY <1>1, <1>2, <1>3, FinishKeeps, LoadEntryKeeps

(* The last operand of a block without chaining.                           *)
LEMMA NormalKeeps ==
  ASSUME ChannelsGood, NEW ch \in UsedCh, "ACT" \in DMA[ch].CSR, EndOfNormalBlock(ch)
  PROVE  ChannelsGood'
<1> DEFINE c == DMA[ch]
           blockDone == [c EXCEPT !.CSR = @ \union {"BLK", "ACT"}, !.MTC = c.BTC,
                                  !.BAR = 0, !.BTC = 0]
<1>1. Good(c) /\ c \in dmac_ch /\ "STR" \in c.CCR
  BY DEF ChannelsGood, Good
<1>2. 0 \in 0 .. MaxChain /\ 0 \in BaseCounters /\ BaseCounters \subseteq Counters
  BY MaxChainAssumption, MaxBlocksAssumption, MaxCountAssumption DEF BaseCounters, Counters
<1>3. \/ Finish(ch, c)
      \/ Finish(ch, [c EXCEPT !.CSR = @ \union {"BLK"}])
      \/ StoreAndNotify(ch, Failed(blockDone, "count"))
      \/ StoreAndNotify(ch, [blockDone EXCEPT !.CCR = @ \ {"CNT"}])
  BY DEF EndOfNormalBlock
<1> HIDE DEF c
<1>4. [c EXCEPT !.CSR = @ \union {"BLK"}] \in dmac_ch
  BY <1>1 DEF dmac_ch, CsrBits
<1>5. Good(blockDone) /\ blockDone \in dmac_ch /\ "STR" \in blockDone.CCR
  BY <1>1, <1>2 DEF Good, dmac_ch, CsrBits
<1> HIDE DEF blockDone
<1>6. Good(Failed(blockDone, "count"))
  BY <1>5, FailedGood DEF Codes
<1>7. Good([blockDone EXCEPT !.CCR = @ \ {"CNT"}])
  BY <1>5 DEF Good, dmac_ch, CcrBits
<1> QED
  BY <1>1, <1>3, <1>4, <1>6, <1>7, FinishKeeps, StoreKeeps

(* An operand that faults.                                                 *)
LEMMA FaultKeeps ==
  ASSUME ChannelsGood, NEW ch \in UsedCh, NEW fault \in Faults, TransferFault(ch, fault)
  PROVE  ChannelsGood'
<1> DEFINE c == DMA[ch]
<1>1. Good(c) /\ c \in dmac_ch
  BY DEF ChannelsGood, Good
<1>2. CASE fault \in 1 .. 4
  <2>1. Good(AfterFault(c, fault))
    <3>1. (IF fault \in {1, 2} THEN "bus" ELSE "address") \in Codes
      BY DEF Codes
    <3> HIDE DEF c
    <3> QED
      BY <1>1, <3>1, FailedEitherGood DEF AfterFault
  <2>2. StoreAndNotify(ch, AfterFault(c, fault))
    BY <1>2 DEF TransferFault
  <2> QED
    BY <2>1, <2>2, StoreKeeps
<1>3. CASE fault \notin 1 .. 4
  BY <1>1, <1>3, StoreKeeps DEF TransferFault
<1> QED
  BY <1>2, <1>3

(* A turn of the loop of DMA_Exec.                                         *)
LEMMA ExecKeeps ==
  ASSUME ChannelsGood, HandlerKnown, DMA_Exec
  PROVE  ChannelsGood'
<1> DEFINE ch == handler.ch
<1>1. ch \in UsedCh
  BY DEF DMA_Exec, HandlerKnown, HandlerStates, Idle, Loop, AtCnt
<1>2. \/ LoopEnds(ch) \/ \E fault \in Faults : TransferFault(ch, fault)
      \/ TransferWithin(ch) \/ TransferLast(ch)
  BY DEF DMA_Exec
<1> HIDE DEF ch
<1>3. CASE LoopEnds(ch)
  BY <1>3 DEF LoopEnds, ChannelsGood
<1>4. CASE \E fault \in Faults : TransferFault(ch, fault)
  BY <1>1, <1>4, FaultKeeps
<1>5. CASE TransferWithin(ch)
  <2> DEFINE c == [DMA[ch] EXCEPT !.MTC = DMA[ch].MTC - 1]
  <2>1. Store(ch, c) /\ DMA[ch].MTC > 1
    BY <1>5 DEF TransferWithin
  <2>2. Good(DMA[ch]) /\ DMA[ch].MTC \in 0 .. MaxCount
    BY <1>1 DEF ChannelsGood, Good, dmac_ch, Counters
  <2>3. DMA[ch].MTC - 1 \in Counters
    BY <2>1, <2>2, MaxCountAssumption DEF Counters
  <2>4. Good(c)
    BY <2>2, <2>3, LoadedGood
  <2> QED
    BY <1>1, <2>1, <2>4, StoreKeeps
<1>6. CASE TransferLast(ch)
  BY <1>1, <1>6, LinkKeeps, ArrayKeeps, NormalKeeps DEF TransferLast, MayTransfer
<1> QED
  BY <1>2, <1>3, <1>4, <1>5, <1>6

-----------------------------------------------------------------------------
(* The CNT end of a write to CCR.                                          *)
LEMMA ContinueKeeps ==
  ASSUME ChannelsGood, NEW ch \in UsedCh, NEW c, Good(c), ContinueOperation(ch, c)
  PROVE  ChannelsGood'
<1> DEFINE next == [c EXCEPT !.CSR = @ \union {"ACT"}, !.MTC = c.BTC, !.BAR = 0, !.BTC = 0]
<1>1. c \in dmac_ch
  BY DEF Good
<1>2. Good(Failed(c, "timing")) /\ Good(Failed(c, "config"))
  <2>1. "timing" \in Codes /\ "config" \in Codes
    BY DEF Codes
  <2> QED
    BY <1>1, <2>1, FailedGood
<1>3. CASE "STR" \notin c.CCR
  BY <1>2, <1>3, StoreKeeps DEF ContinueOperation
<1>4. CASE "STR" \in c.CCR
  <2>1. 0 \in 0 .. MaxChain /\ 0 \in BaseCounters /\ BaseCounters \subseteq Counters
    BY MaxChainAssumption, MaxBlocksAssumption, MaxCountAssumption DEF BaseCounters, Counters
  <2>2. Good(next) /\ next \in dmac_ch /\ "STR" \in next.CCR
    BY <1>1, <1>4, <2>1 DEF Good, dmac_ch, CsrBits
  <2>3. \/ Store(ch, c) \/ StoreAndNotify(ch, Failed(c, "timing")) \/ StoreAndNotify(ch, Failed(c, "config"))
        \/ StoreAndNotify(ch, [next EXCEPT !.CSR = @ \union {"BLK"}])
        \/ StoreAndNotify(ch, Failed(next, "count")) \/ Store(ch, next)
    BY DEF ContinueOperation
  <2> HIDE DEF next
  <2>4. Good([next EXCEPT !.CSR = @ \union {"BLK"}])
    BY <2>2 DEF Good, dmac_ch, CsrBits
  <2>5. Good(Failed(next, "count"))
    BY <2>2, FailedGood DEF Codes
  <2> QED
    BY <1>2, <2>2, <2>3, <2>4, <2>5, StoreKeeps
<1> QED
  BY <1>3, <1>4

(* A write to CCR keeps STR, so an active channel stays started.           *)
LEMMA WrittenGood ==
  ASSUME NEW c, Good(c), NEW data \in SUBSET (CcrBits \union {"SAB"})
  PROVE  Good(Written(c, data)) /\ Written(c, data) \in dmac_ch
<1>1. (data \ {"SAB"}) \union (c.CCR \intersect {"STR"}) \in SUBSET CcrBits
  BY DEF CcrBits
<1> QED
  BY <1>1 DEF Good, dmac_ch, Written

(* START, with the first entry of a chain.                                 *)
LEMMA StartKeeps ==
  ASSUME ChannelsGood, NEW ch \in UsedCh, NEW data \in SUBSET (CcrBits \union {"SAB"}),
         WriteCCR_Start(ch, data)
  PROVE  ChannelsGood'
<1> DEFINE w == [Written(DMA[ch], data) EXCEPT !.CSR = {"ACT"}]
<1>1. w \in dmac_ch /\ "STR" \in w.CCR
  <2>1. Good(DMA[ch]) /\ DMA[ch] \in dmac_ch
    BY DEF ChannelsGood, Good
  <2>2. Written(DMA[ch], data) \in dmac_ch
    BY <2>1, WrittenGood
  <2>3. "STR" \in Written(DMA[ch], data).CCR
    BY <2>1 DEF Written, dmac_ch, WriteCCR_Start
  <2> QED
    BY <2>2, <2>3 DEF dmac_ch, CsrBits
<1>2. PICK count \in Counters, next \in 0 .. MaxChain :
        \/ StoreAndNotify(ch, Failed(FirstBlock(w, count, next), "count"))
        \/ Store(ch, [FirstBlock(w, count, next) EXCEPT !.CER = "none"])
  BY DEF WriteCCR_Start
<1> HIDE DEF w
<1> DEFINE c == FirstBlock(w, count, next)
<1>3. c \in dmac_ch /\ "STR" \in c.CCR
  <2>1. NextInArray(w.BAR) \in 0 .. MaxChain
    BY <1>1, NextInArrayRange DEF dmac_ch
  <2>2. (IF w.OCR.link THEN next ELSE NextInArray(w.BAR)) \in 0 .. MaxChain
    BY <2>1
  <2> QED
    BY <1>1, <2>2 DEF FirstBlock, dmac_ch
<1> HIDE DEF c
<1>4. Good(Failed(c, "count")) /\ "none" \in Codes
  <2>1. "count" \in Codes /\ "none" \in Codes
    BY DEF Codes
  <2> QED
    BY <1>3, <2>1, FailedGood
<1>5. Good([c EXCEPT !.CER = "none"])
  BY <1>3, <1>4 DEF Good, dmac_ch
<1> QED
  BY <1>2, <1>4, <1>5, StoreKeeps DEF c

(* A write to CCR.                                                         *)
LEMMA WriteCCRKeeps ==
  ASSUME ChannelsGood, NEW ch \in UsedCh, NEW data \in SUBSET (CcrBits \union {"SAB"}),
         WriteCCR(ch, data)
  PROVE  ChannelsGood'
<1> DEFINE w == Written(DMA[ch], data)
<1>1. Good(w) /\ w \in dmac_ch
  BY WrittenGood DEF ChannelsGood
<1>2. CASE WriteCCR_Abort(ch, data)
  <2>1. StoreAndNotify(ch, Failed(w, "abort"))
    BY <1>2 DEF WriteCCR_Abort
  <2>2. "abort" \in Codes
    BY DEF Codes
  <2> HIDE DEF w
  <2> QED
    BY <1>1, <2>1, <2>2, FailedGood, StoreKeeps
<1>3. CASE WriteCCR_Halt(ch, data)
  BY <1>1, <1>3, StoreKeeps DEF WriteCCR_Halt
<1>4. CASE WriteCCR_Release(ch, data)
  <2>1. Store(ch, [w EXCEPT !.CSR = @ \union {"ACT"}])
    BY <1>4 DEF WriteCCR_Release
  <2>2. "STR" \in w.CCR
    <3>1. DMA[ch] \in dmac_ch
      BY DEF ChannelsGood
    <3> QED
      BY <1>4, <3>1 DEF WriteCCR_Release, Written, dmac_ch
  <2> HIDE DEF w
  <2>3. Good([w EXCEPT !.CSR = @ \union {"ACT"}])
    BY <1>1, <2>2 DEF Good, dmac_ch, CsrBits
  <2> QED
    BY <2>1, <2>3, StoreKeeps
<1>5. CASE WriteCCR_Start(ch, data)
  BY <1>5, StartKeeps
<1>6. CASE WriteCCR_NoStart(ch, data)
  BY <1>1, <1>6, StoreKeeps, ContinueKeeps DEF WriteCCR_NoStart
<1> QED
  BY <1>2, <1>3, <1>4, <1>5, <1>6 DEF WriteCCR

(* A write to one of the other registers, or to CSR or CER.                *)
LEMMA WriteRegisterKeeps ==
  ASSUME ChannelsGood, NEW ch \in UsedCh, WriteRegister(ch)
  PROVE  ChannelsGood'
<1> DEFINE c == DMA[ch]
<1>1. Good(c) /\ c \in dmac_ch /\ "none" \in Codes
  BY DEF ChannelsGood, Good, Codes
<1>2. PICK d : /\ \/ \E bits \in SUBSET (CsrBits \ {"ACT"}) : d = [c EXCEPT !.CSR = @ \ bits]
                  \/ d = [c EXCEPT !.CER = "none"]
                  \/ \E mode \in Modes : d = [c EXCEPT !.OCR = mode]
                  \/ \E n \in Counters : d = [c EXCEPT !.MTC = n]
                  \/ \E n \in BaseCounters : d = [c EXCEPT !.BTC = n]
                  \/ \E n \in 0 .. MaxChain : d = [c EXCEPT !.BAR = n]
               /\ Store(ch, d)
  BY DEF WriteRegister
<1> HIDE DEF c
<1>3. Good(d)
  BY <1>1, <1>2, ModesAssumption DEF Good, dmac_ch
<1> QED
  BY <1>2, <1>3, StoreKeeps

(* The registers DMA_Init leaves.                                          *)
LEMMA ResetGood ==
  ResetChannel \in dmac_ch /\ Good(ResetChannel)
<1>1. "none" \in Codes /\ 0 \in Counters /\ 0 \in BaseCounters /\ 0 \in 0 .. MaxChain
  BY MaxCountAssumption, MaxBlocksAssumption, MaxChainAssumption
     DEF Codes, Counters, BaseCounters
<1>2. ResetChannel.OCR \in OcrModes
  BY DEF ResetChannel, OcrModes
<1> QED
  BY <1>1, <1>2 DEF ResetChannel, dmac_ch, Good

-----------------------------------------------------------------------------
(* Where the handler stands.                                               *)
LEMMA ReturnKnown ==
  ASSUME HandlerKnown, handler.at = "loop", Return
  PROVE  HandlerKnown'
<1>1. handler.ch \in UsedCh
  BY DEF HandlerKnown, HandlerStates, Idle
<1> QED
  BY <1>1 DEF Return, HandlerKnown, HandlerStates, AtCnt

(* A turn of the loop leaves the handler in a known place.                 *)
LEMMA ExecHandler == ASSUME HandlerKnown, DMA_Exec PROVE HandlerKnown'
<1>1. Return \/ UNCHANGED handler
  BY DEF DMA_Exec, LoopEnds, TransferFault, TransferWithin, TransferLast, EndOfLinkBlock,
         EndOfArrayBlock, EndOfNormalBlock, Finish, LoadEntry, NextTurn
<1>2. handler.at = "loop"
  BY DEF DMA_Exec
<1>3. CASE UNCHANGED handler
  BY <1>3 DEF HandlerKnown
<1> QED
  BY <1>1, <1>2, <1>3, ReturnKnown

(* The places a call may come to.                                          *)
LEMMA KnownPlaces ==
  ASSUME NEW ch \in UsedCh, NEW cnt \in BOOLEAN
  PROVE  {Idle, Loop(ch, cnt), AtCnt(ch)} \subseteq HandlerStates
  BY DEF HandlerStates, Loop, AtCnt

(* The end of a write with CNT returns or enters the loop.                 *)
LEMMA ContinueHandler ==
  ASSUME NEW ch \in UsedCh, NEW c, ContinueOperation(ch, c)
  PROVE  HandlerKnown'
<1>1. handler' = Idle \/ handler' = Loop(ch, FALSE)
  BY DEF ContinueOperation
<1> QED
  BY <1>1, KnownPlaces DEF HandlerKnown

(* A write to CCR returns or enters the loop.                              *)
LEMMA WriteHandler ==
  ASSUME NEW ch \in UsedCh, NEW data, WriteCCR(ch, data)
  PROVE  HandlerKnown'
<1>1. CASE WriteCCR_NoStart(ch, data)
  <2>1. \/ ContinueOperation(ch, Written(DMA[ch], data)) \/ handler' = Idle
    BY <1>1 DEF WriteCCR_NoStart
  <2> QED
    BY <2>1, ContinueHandler, KnownPlaces DEF HandlerKnown
<1>2. CASE handler' = Idle \/ handler' = Loop(ch, "CNT" \in data)
  <2>1. ("CNT" \in data) \in BOOLEAN
    OBVIOUS
  <2> QED
    BY <1>2, <2>1, KnownPlaces DEF HandlerKnown
<1> QED
  BY <1>1, <1>2 DEF WriteCCR, WriteCCR_Abort, WriteCCR_Halt, WriteCCR_Release, WriteCCR_Start

-----------------------------------------------------------------------------
(* The interrupt side: level 3 alone is flagged, when a channel waits.     *)
IntGood ==
  /\ Settled(irqh)
  /\ irqh.IRQ \subseteq {3}
  /\ DmacInt_TypeOK

(* DMAINT leaves the channel waiting and level 3 on the line.              *)
LEMMA DmaintKeeps ==
  ASSUME IntGood, NEW ch \in UsedCh, DMAINT(ch)
  PROVE  IntGood' /\ ch \in DMA_IntCH' /\ irqh'.line = 3
<1>1. irqh' = IRQH_Int(irqh, 3, "DMA") /\ DMA_IntCH' = DMA_IntCH \union {ch}
      /\ UNCHANGED DMA_LastInt
  BY DEF DMAINT
<1>2. irqh \in IrqhStates
  BY DEF IntGood, Settled
<1>3. Settled(irqh') /\ irqh'.IRQ = irqh.IRQ \union {3}
  BY <1>1, <1>2, RaiseDma
<1>4. irqh'.IRQ = {3}
  BY <1>3 DEF IntGood
<1>5. irqh'.line = 3
  <2>1. {3} \in SUBSET (1 .. 7)
    OBVIOUS
  <2>2. Highest({3}) = 3
    BY <2>1, HighestOf
  <2> QED
    BY <1>3, <1>4, <2>2 DEF Settled
<1>6. DmacInt_TypeOK'
  BY <1>1, UsedChAssumption DEF IntGood, DmacInt_TypeOK
<1> QED
  BY <1>1, <1>3, <1>4, <1>5, <1>6 DEF IntGood

(* Storing registers with DMAINT, seen from the interrupt side.            *)
LEMMA NotifyKeeps ==
  ASSUME IntGood, NEW ch \in UsedCh, NEW c, Store(ch, c) \/ StoreAndNotify(ch, c)
  PROVE  IntGood'
<1>1. CASE DMAINT(ch)
  BY <1>1, DmaintKeeps
<1>2. CASE UNCHANGED <<irqh, dmacIntVars>>
  BY <1>2 DEF IntGood, Settled, dmacIntVars, DmacInt_TypeOK
<1> QED
  BY <1>1, <1>2 DEF Store, StoreAndNotify

(* Every step of the loop and of the register writes stores one channel,   *)
(* and a channel that it stops is announced.                               *)
Keeps(ch, c) == Store(ch, c) /\ ("ACT" \in DMA[ch].CSR => "ACT" \in c.CSR)

Stores == \E ch \in UsedCh : \E c : Keeps(ch, c) \/ StoreAndNotify(ch, c)

(* A turn of the loop changes registers by Store or StoreAndNotify only.   *)
LEMMA ExecStores ==
  ASSUME ChannelsGood, HandlerKnown, DMA_Exec
  PROVE  Stores \/ UNCHANGED <<DMA, irqh, dmacIntVars>>
<1> DEFINE ch == handler.ch
           d == DMA[ch]
<1>1. ch \in UsedCh /\ d \in dmac_ch
  BY DEF DMA_Exec, HandlerKnown, HandlerStates, Idle, Loop, AtCnt, ChannelsGood
<1>2. \/ LoopEnds(ch) \/ \E fault \in Faults : TransferFault(ch, fault)
      \/ TransferWithin(ch) \/ TransferLast(ch)
  BY DEF DMA_Exec
<1> HIDE DEF ch, d
<1>3. ASSUME NEW c \in dmac_ch, c.CSR = d.CSR, NEW fault, NEW count,
             LoadEntry(ch, c, fault, count)
      PROVE  Stores
  <2>1. [c EXCEPT !.MTC = count].CSR = d.CSR
    BY <1>3 DEF dmac_ch
  <2> QED
    BY <1>1, <1>3, <2>1 DEF LoadEntry, Stores, Keeps, d
<1>4. ASSUME NEW c, Finish(ch, c)
      PROVE  Stores
  BY <1>1, <1>4 DEF Finish, Stores
<1>5. CASE TransferLast(ch)
  <2>1. CASE EndOfLinkBlock(ch)
    <3>1. \/ Finish(ch, d)
          \/ \E next \in 0 .. d.BAR - 1, count \in Counters, fault \in {0, 1, 3} :
               LoadEntry(ch, [d EXCEPT !.BAR = next], fault, count)
      BY <2>1 DEF EndOfLinkBlock, d
    <3>2. ASSUME NEW next \in 0 .. d.BAR - 1
          PROVE  [d EXCEPT !.BAR = next] \in dmac_ch /\ [d EXCEPT !.BAR = next].CSR = d.CSR
      <4>1. next \in 0 .. MaxChain
        BY <1>1, MaxChainAssumption DEF dmac_ch
      <4> QED
        BY <1>1, <4>1 DEF dmac_ch
    <3> QED
      BY <3>1, <3>2, <1>3, <1>4
  <2>2. CASE EndOfArrayBlock(ch)
    <3> DEFINE n == (d.BTC - 1) % (MaxBlocks + 1)
               c == [d EXCEPT !.BTC = n]
    <3>1. \/ Finish(ch, c)
          \/ \E count \in Counters, fault \in {0, 1, 3} :
               LoadEntry(ch, [c EXCEPT !.BAR = NextInArray(@)], fault, count)
      BY <2>2 DEF EndOfArrayBlock, d
    <3>2. n \in BaseCounters
      BY <1>1, MaxBlocksAssumption, MaxCountAssumption DEF BaseCounters, dmac_ch
    <3> HIDE DEF n
    <3>3. c \in dmac_ch /\ c.CSR = d.CSR
      BY <1>1, <3>2 DEF dmac_ch
    <3> HIDE DEF c
    <3>4. NextInArray(c.BAR) \in 0 .. MaxChain
      BY <3>3, NextInArrayRange DEF dmac_ch
    <3>5. /\ [c EXCEPT !.BAR = NextInArray(@)] \in dmac_ch
          /\ [c EXCEPT !.BAR = NextInArray(@)].CSR = d.CSR
      BY <3>3, <3>4 DEF dmac_ch
    <3> QED
      BY <3>1, <3>5, <1>3, <1>4
  <2>3. CASE EndOfNormalBlock(ch)
    BY <1>1, <2>3, <1>4 DEF EndOfNormalBlock, Stores
  <2> QED
    BY <1>5, <2>1, <2>2, <2>3 DEF TransferLast
<1>6. CASE TransferWithin(ch)
  <2>1. Store(ch, [d EXCEPT !.MTC = d.MTC - 1])
    BY <1>6 DEF TransferWithin, d
  <2>2. [d EXCEPT !.MTC = d.MTC - 1].CSR = d.CSR
    BY <1>1 DEF dmac_ch
  <2> QED
    BY <1>1, <2>1, <2>2 DEF Stores, Keeps, d
<1>7. CASE \E fault \in Faults : TransferFault(ch, fault)
  BY <1>1, <1>7 DEF TransferFault, Stores, Keeps
<1> QED
  BY <1>2, <1>5, <1>6, <1>7 DEF LoopEnds

(* So does the end of a write with CNT.                                    *)
LEMMA ContinueStores ==
  ASSUME NEW ch \in UsedCh, NEW c \in dmac_ch, c.CSR = DMA[ch].CSR, ContinueOperation(ch, c)
  PROVE  Stores
<1> DEFINE next == [c EXCEPT !.CSR = @ \union {"ACT"}, !.MTC = c.BTC, !.BAR = 0, !.BTC = 0]
<1>1. "ACT" \in next.CSR
  BY DEF dmac_ch
<1>2. \/ Store(ch, c) \/ \E x : StoreAndNotify(ch, x) \/ Store(ch, next)
  BY DEF ContinueOperation
<1> HIDE DEF next
<1> QED
  BY <1>1, <1>2 DEF Stores, Keeps

(* So does a write to CCR.                                                 *)
LEMMA WriteStores ==
  ASSUME ChannelsGood, NEW ch \in UsedCh, NEW data \in SUBSET (CcrBits \union {"SAB"}),
         WriteCCR(ch, data)
  PROVE  Stores
<1> DEFINE w == Written(DMA[ch], data)
<1>1. w \in dmac_ch /\ w.CSR = DMA[ch].CSR
  <2>1. Good(DMA[ch]) /\ DMA[ch] \in dmac_ch
    BY DEF ChannelsGood, Good
  <2>2. w \in dmac_ch
    BY <2>1, WrittenGood
  <2> QED
    BY <2>1, <2>2 DEF Written, dmac_ch
<1>2. CASE WriteCCR_NoStart(ch, data)
  <2>1. ContinueOperation(ch, w) \/ Store(ch, w)
    BY <1>2 DEF WriteCCR_NoStart
  <2> HIDE DEF w
  <2> QED
    BY <1>1, <2>1, ContinueStores DEF Stores, Keeps
<1>3. CASE WriteCCR_Start(ch, data)
  <2> DEFINE v == [w EXCEPT !.CSR = {"ACT"}]
  <2>1. PICK count \in Counters, next \in 0 .. MaxChain :
          \/ \E x : StoreAndNotify(ch, x)
          \/ Store(ch, [FirstBlock(v, count, next) EXCEPT !.CER = "none"])
    BY <1>3 DEF WriteCCR_Start
  <2> HIDE DEF w
  <2>2. v \in dmac_ch /\ v.CSR = {"ACT"}
    BY <1>1 DEF dmac_ch, CsrBits
  <2> HIDE DEF v
  <2>3. [FirstBlock(v, count, next) EXCEPT !.CER = "none"].CSR = {"ACT"}
    BY <2>2 DEF FirstBlock, dmac_ch
  <2> QED
    BY <2>1, <2>3 DEF Stores, Keeps
<1>4. CASE WriteCCR_Release(ch, data)
  <2>1. Store(ch, [w EXCEPT !.CSR = @ \union {"ACT"}])
    BY <1>4 DEF WriteCCR_Release
  <2> HIDE DEF w
  <2>2. "ACT" \in [w EXCEPT !.CSR = @ \union {"ACT"}].CSR
    BY <1>1 DEF dmac_ch
  <2> QED
    BY <2>1, <2>2 DEF Stores, Keeps
<1>5. CASE WriteCCR_Halt(ch, data)
  BY <1>1, <1>5 DEF WriteCCR_Halt, Stores, Keeps
<1>6. CASE WriteCCR_Abort(ch, data)
  BY <1>6 DEF WriteCCR_Abort, Stores
<1> QED
  BY <1>2, <1>3, <1>4, <1>5, <1>6 DEF WriteCCR

(* So does a write to another register.                                    *)
LEMMA RegisterStores ==
  ASSUME ChannelsGood, NEW ch \in UsedCh, WriteRegister(ch)
  PROVE  Stores
<1> DEFINE c == DMA[ch]
<1>1. c \in dmac_ch
  BY DEF ChannelsGood
<1>2. PICK x : /\ \/ \E bits \in SUBSET (CsrBits \ {"ACT"}) : x = [c EXCEPT !.CSR = @ \ bits]
                  \/ x = [c EXCEPT !.CER = "none"]
                  \/ \E mode \in Modes : x = [c EXCEPT !.OCR = mode]
                  \/ \E n \in Counters : x = [c EXCEPT !.MTC = n]
                  \/ \E n \in BaseCounters : x = [c EXCEPT !.BTC = n]
                  \/ \E n \in 0 .. MaxChain : x = [c EXCEPT !.BAR = n]
               /\ Store(ch, x)
  BY DEF WriteRegister
<1> HIDE DEF c
<1>3. "ACT" \in c.CSR => "ACT" \in x.CSR
  BY <1>1, <1>2 DEF dmac_ch
<1> QED
  BY <1>2, <1>3 DEF Stores, Keeps, c

(* Whatever stores registers keeps the interrupt side.                     *)
LEMMA StoresKeepInt == ASSUME IntGood, Stores PROVE IntGood'
  BY NotifyKeeps DEF Stores, Keeps

(* The channel that stops is the one stored, and it was announced.         *)
Reported ==
  \A ch \in UsedCh :
    /\ "ACT" \in DMA[ch].CSR /\ "ACT" \notin DMA'[ch].CSR
    /\ "INT" \in DMA'[ch].CCR
    => ch \in DMA_IntCH' /\ irqh'.line = DMA_Level

(* Whatever stores registers reports a channel that stops.                 *)
LEMMA StoresReport == ASSUME ChannelsGood, IntGood, Stores PROVE Reported
<1> SUFFICES ASSUME NEW ch \in UsedCh, "ACT" \in DMA[ch].CSR, "ACT" \notin DMA'[ch].CSR,
                    "INT" \in DMA'[ch].CCR
             PROVE  ch \in DMA_IntCH' /\ irqh'.line = 3
  BY DEF Reported
<1>1. PICK k, c : k \in UsedCh /\ (Keeps(k, c) \/ StoreAndNotify(k, c))
  BY DEF Stores
<1>2. DMA' = [DMA EXCEPT ![k] = c]
  BY <1>1 DEF Keeps, Store, StoreAndNotify
<1>3. k = ch /\ DMA'[ch] = c
  BY <1>2 DEF ChannelsGood
<1>4. StoreAndNotify(ch, c) /\ "INT" \in c.CCR
  BY <1>1, <1>3 DEF Keeps
<1>5. DMAINT(ch)
  BY <1>4 DEF StoreAndNotify
<1> QED
  BY <1>5, DmaintKeeps

(* Reset and acknowledge.                                                  *)
LEMMA ResetInt == ASSUME IntGood, DMA_Reset PROVE IntGood'
<1>1. irqh' \in IrqhStates /\ irqh'.IRQ = {} /\ irqh'.line = 0
  <2>1. irqh \in IrqhStates /\ irqh' = IRQH_Reset(irqh)
    BY DEF DMA_Reset, IntGood, Settled
  <2> QED
    BY <2>1, ResetClears
<1> QED
  BY <1>1 DEF DMA_Reset, IntGood, Settled, Highest, DmacInt_Reset, DmacInt_TypeOK, DmaChannels

(* DMA_Int leaves level 3 flagged for the channels still waiting.          *)
LEMMA AnswerInt == ASSUME IntGood, Answer PROVE IntGood'
<1>1. PICK a : a = CpuAcknowledges(irqh)
  OBVIOUS
<1>2. a \in IrqhStates /\ a.IRQ \subseteq {3}
  BY <1>1, Acknowledged DEF IntGood, Settled
<1>3. PICK w : w = IRQH_IRQCallBack(a, 3)
  OBVIOUS
<1>4. Settled(w) /\ w \in IrqhStates /\ w.IRQ \subseteq {3}
  BY <1>2, <1>3, WithdrawSettles DEF Settled
<1>5. PICK x : x = IRQH_Int(w, 3, "DMA")
  OBVIOUS
<1>6. Settled(x) /\ x.IRQ \subseteq {3}
  BY <1>4, <1>5, RaiseDma
<1>7. irqh' = my_irqh_callback_End(w) \/ irqh' = my_irqh_callback_End(x)
  BY <1>1, <1>3, <1>5 DEF Answer, DMA_Int
<1>8. Settled(irqh') /\ irqh'.IRQ \subseteq {3}
  BY <1>4, <1>6, <1>7, EndSettles
<1>9. DmacInt_TypeOK'
  <2>1. DMA_IntCH \in SUBSET (0 .. 3) /\ DMA_LastInt \in 0 .. 3
    BY DEF IntGood, DmacInt_TypeOK, DmaChannels
  <2>2. DMA_Answered \in 0 .. 3
    BY <2>1, AnsweredInRange
  <2> QED
    BY <2>1, <2>2 DEF Answer, DMA_Int, DmacInt_TypeOK, DmaChannels
<1> QED
  BY <1>8, <1>9 DEF IntGood

-----------------------------------------------------------------------------
(* The inductive invariant.                                                *)
IInv == ChannelsGood /\ HandlerKnown /\ IntGood

(* DMA_Init and an idle machine satisfy the invariant.                     *)
LEMMA InitEstablishes == DMA_Init => IInv
<1> SUFFICES ASSUME DMA_Init PROVE IInv
  OBVIOUS
<1> USE DEF DMA_Init
<1>1. ChannelsGood
  BY ResetGood DEF ChannelsGood
<1>2. HandlerKnown
  BY DEF HandlerKnown, HandlerStates
<1>3. IntGood
  <2>1. irqh \in IrqhStates /\ irqh.IRQ = {} /\ irqh.line = 0
    BY DEF IRQH_Start, IrqhStates
  <2> QED
    BY <2>1 DEF IntGood, Settled, Highest, DmacInt_Init, DmacInt_TypeOK, DmaChannels
<1> QED
  BY <1>1, <1>2, <1>3 DEF IInv

(* Every step keeps the invariant.                                         *)
LEMMA NextKeeps == ASSUME IInv, Next PROVE IInv'
<1> USE DEF IInv
<1>1. CASE DMA_Reset
  <2>1. ChannelsGood'
    BY <1>1, ResetGood DEF DMA_Reset, ChannelsGood
  <2>2. HandlerKnown'
    BY <1>1 DEF DMA_Reset, HandlerKnown
  <2> QED
    BY <1>1, <2>1, <2>2, ResetInt
<1>2. CASE DMA_Exec
  <2>1. IntGood'
    <3>1. CASE Stores BY <3>1, StoresKeepInt
    <3>2. CASE UNCHANGED <<DMA, irqh, dmacIntVars>>
      BY <3>2 DEF IntGood, Settled, dmacIntVars, DmacInt_TypeOK
    <3> QED
      BY <1>2, <3>1, <3>2, ExecStores
  <2> QED
    BY <1>2, <2>1, ExecKeeps, ExecHandler
<1>3. CASE ResumeWrite
  <2>1. handler.ch \in UsedCh /\ ContinueOperation(handler.ch, DMA[handler.ch])
    BY <1>3 DEF ResumeWrite, HandlerKnown, HandlerStates, Idle
  <2>2. Good(DMA[handler.ch]) /\ DMA[handler.ch] \in dmac_ch
    BY <2>1 DEF ChannelsGood
  <2>3. ChannelsGood'
    BY <2>1, <2>2, ContinueKeeps
  <2>4. HandlerKnown' /\ Stores
    BY <2>1, <2>2, ContinueHandler, ContinueStores
  <2> QED
    BY <2>3, <2>4, StoresKeepInt
<1>4. ASSUME NEW ch \in UsedCh, CallExec(ch)
      PROVE  IInv'
  <2>1. HandlerKnown'
    BY <1>4, KnownPlaces DEF CallExec, HandlerKnown
  <2> QED
    BY <1>4, <2>1 DEF CallExec, ChannelsGood, IntGood, Settled, dmacIntVars, DmacInt_TypeOK
<1>5. ASSUME NEW ch \in UsedCh, NEW data \in SUBSET (CcrBits \union {"SAB"}), WriteCCR(ch, data)
      PROVE  IInv'
  BY <1>5, WriteCCRKeeps, WriteHandler, WriteStores, StoresKeepInt
<1>6. ASSUME NEW ch \in UsedCh, WriteRegister(ch)
      PROVE  IInv'
  <2>1. HandlerKnown' /\ Stores
    BY <1>6, RegisterStores DEF WriteRegister, HandlerKnown
  <2> QED
    BY <1>6, <2>1, WriteRegisterKeeps, StoresKeepInt
<1>7. CASE Answer
  BY <1>7, AnswerInt DEF Answer, ChannelsGood, HandlerKnown
<1> QED
  BY <1>1, <1>2, <1>3, <1>4, <1>5, <1>6, <1>7 DEF Next

(* The invariant holds in every reachable state.                           *)
THEOREM InvariantHolds == Spec => []IInv
<1>1. IInv /\ [Next]_dmacVars => IInv'
  <2>1. ASSUME IInv, UNCHANGED dmacVars PROVE IInv'
    BY <2>1 DEF dmacVars, IInv, ChannelsGood, HandlerKnown, IntGood, Settled, dmacIntVars,
               DmacInt_TypeOK
  <2> QED
    BY <2>1, NextKeeps
<1> QED
  BY InitEstablishes, <1>1, PTL DEF Spec

(* The controller's registers keep their types.                            *)
THEOREM TypeCorrect == Spec => []TypeOK
<1>1. IInv => TypeOK
  BY DEF IInv, TypeOK, ChannelsGood, HandlerKnown, IntGood, Settled
<1> QED
  BY <1>1, InvariantHolds, PTL

(* No write, error or completion leaves a channel active that was not      *)
(* started.                                                                *)
THEOREM ActiveOnlyIfStarted == Spec => []ActiveIsStarted
<1>1. IInv => ActiveIsStarted
  BY DEF IInv, ActiveIsStarted, ChannelsGood, Good
<1> QED
  BY <1>1, InvariantHolds, PTL

(* Every step reports the channels it stops.                               *)
LEMMA NextReports == ASSUME IInv, Next PROVE Reported
<1> USE DEF IInv
<1>1. CASE DMA_Reset
  BY <1>1 DEF DMA_Reset, Reported, ResetChannel
<1>2. CASE DMA_Exec
  <2>1. CASE UNCHANGED <<DMA, irqh, dmacIntVars>>
    BY <2>1 DEF Reported
  <2> QED
    BY <1>2, <2>1, ExecStores, StoresReport
<1>3. CASE ResumeWrite
  <2>1. handler.ch \in UsedCh /\ ContinueOperation(handler.ch, DMA[handler.ch])
    BY <1>3 DEF ResumeWrite, HandlerKnown, HandlerStates, Idle
  <2>2. DMA[handler.ch] \in dmac_ch
    BY <2>1 DEF ChannelsGood
  <2> QED
    BY <2>1, <2>2, ContinueStores, StoresReport
<1>4. CASE \E ch \in UsedCh : CallExec(ch)
  BY <1>4 DEF CallExec, Reported
<1>5. CASE \E ch \in UsedCh : \E data \in SUBSET (CcrBits \union {"SAB"}) : WriteCCR(ch, data)
  BY <1>5, WriteStores, StoresReport
<1>6. CASE \E ch \in UsedCh : WriteRegister(ch)
  BY <1>6, RegisterStores, StoresReport
<1>7. CASE Answer
  BY <1>7 DEF Answer, Reported
<1> QED
  BY <1>1, <1>2, <1>3, <1>4, <1>5, <1>6, <1>7 DEF Next

(* Whatever stops a channel with its interrupt enabled, level 3 is on the  *)
(* CPU's input with the channel waiting.                                   *)
THEOREM StopsAreReported == Spec => StopIsReported
<1>1. IInv /\ [Next]_dmacVars => [Reported]_dmacVars
  BY NextReports
<1> QED
  BY <1>1, InvariantHolds, PTL DEF Spec, StopIsReported, Reported

-----------------------------------------------------------------------------
(* Completion is reported by Finish alone, and Finish is called when       *)
(* nothing of the transfer is left.                                        *)
Quiet(d, c) == "COC" \in c.CSR => "COC" \in d.CSR

WellEnded(d, c) ==
  "COC" \in c.CSR /\ "COC" \notin d.CSR
    => /\ c.MTC = 0
       /\ c.OCR.chained => IF c.OCR.link THEN c.BAR = 0 ELSE c.BTC = 0
       /\ "ERR" \in c.CSR => "ERR" \in d.CSR

Ends(ch, c) == DMA' = [DMA EXCEPT ![ch] = c] /\ WellEnded(DMA[ch], c)

Ended == \E ch \in UsedCh : \E c : Ends(ch, c)

(* Registers stored without a new completion.                              *)
LEMMA QuietEnds ==
  ASSUME NEW ch \in UsedCh, NEW c, Store(ch, c) \/ StoreAndNotify(ch, c), Quiet(DMA[ch], c)
  PROVE  Ended
  BY DEF Store, StoreAndNotify, Quiet, WellEnded, Ends, Ended

(* An error is not a completion.                                           *)
LEMMA FailedQuiet ==
  ASSUME NEW d, NEW c \in dmac_ch, Quiet(d, c), NEW err
  PROVE  Quiet(d, Failed(c, err))
  BY DEF Quiet, Failed, dmac_ch

LEMMA FailedEitherQuiet ==
  ASSUME NEW d, NEW c \in dmac_ch, Quiet(d, c), NEW first, NEW a, NEW b
  PROVE  Quiet(d, FailedEither(c, first, a, b))
  BY FailedQuiet DEF FailedEither

(* Reading the next chain entry completes nothing.                         *)
LEMMA LoadEntryEnds ==
  ASSUME NEW ch \in UsedCh, NEW c \in dmac_ch, Quiet(DMA[ch], c), NEW fault,
         NEW count \in Counters, LoadEntry(ch, c, fault, count)
  PROVE  Ended
<1> DEFINE loaded == [c EXCEPT !.MTC = count]
<1>1. loaded \in dmac_ch /\ Quiet(DMA[ch], loaded)
  BY DEF dmac_ch, Quiet
<1>2. \/ StoreAndNotify(ch, FailedEither(loaded, fault = 1, "bus", "address"))
      \/ StoreAndNotify(ch, Failed(loaded, "count"))
      \/ Store(ch, loaded)
  BY DEF LoadEntry
<1> HIDE DEF loaded
<1> QED
  BY <1>1, <1>2, FailedQuiet, FailedEitherQuiet, QuietEnds

(* Finish with no further entry due.                                       *)
LEMMA FinishEnds ==
  ASSUME NEW ch \in UsedCh, NEW c \in dmac_ch, Finish(ch, c),
         "ERR" \in c.CSR => "ERR" \in DMA[ch].CSR,
         c.OCR.chained => IF c.OCR.link THEN c.BAR = 0 ELSE c.BTC = 0
  PROVE  Ended
<1>1. /\ Completed(c).MTC = 0 /\ Completed(c).OCR = c.OCR
      /\ Completed(c).BAR = c.BAR /\ Completed(c).BTC = c.BTC
      /\ "ERR" \in Completed(c).CSR => "ERR" \in c.CSR
  BY DEF Completed, dmac_ch
<1>2. DMA' = [DMA EXCEPT ![ch] = Completed(c)]
  BY DEF Finish, StoreAndNotify
<1> QED
  BY <1>1, <1>2 DEF WellEnded, Ends, Ended

(* The last operand of a block, with and without chaining.                 *)
LEMMA LastEnds ==
  ASSUME ChannelsGood, NEW ch \in UsedCh,
         EndOfLinkBlock(ch) \/ EndOfArrayBlock(ch) \/ EndOfNormalBlock(ch)
  PROVE  Ended
<1> DEFINE d == DMA[ch]
<1>1. d \in dmac_ch
  BY DEF ChannelsGood
<1>2. Quiet(DMA[ch], d)
  BY DEF Quiet
<1>3. CASE EndOfLinkBlock(ch)
  <2>1. /\ d.OCR.chained /\ d.OCR.link
        /\ \/ d.BAR = 0 /\ Finish(ch, d)
           \/ \E next \in 0 .. d.BAR - 1, count \in Counters, fault \in {0, 1, 3} :
                LoadEntry(ch, [d EXCEPT !.BAR = next], fault, count)
    BY <1>3 DEF EndOfLinkBlock
  <2> HIDE DEF d
  <2>2. ASSUME NEW next \in 0 .. d.BAR - 1
        PROVE  [d EXCEPT !.BAR = next] \in dmac_ch /\ Quiet(DMA[ch], [d EXCEPT !.BAR = next])
    <3>1. next \in 0 .. MaxChain
      BY <1>1, MaxChainAssumption DEF dmac_ch
    <3> QED
      BY <1>1, <1>2, <3>1 DEF dmac_ch, Quiet
  <2>3. CASE d.BAR = 0 /\ Finish(ch, d)
    BY <1>1, <2>1, <2>3, FinishEnds DEF d
  <2> QED
    BY <2>1, <2>2, <2>3, LoadEntryEnds
<1>4. CASE EndOfArrayBlock(ch)
  <2> DEFINE n == (d.BTC - 1) % (MaxBlocks + 1)
             c == [d EXCEPT !.BTC = n]
  <2>1. /\ ~c.OCR.link
        /\ \/ c.BTC = 0 /\ Finish(ch, c)
           \/ \E count \in Counters, fault \in {0, 1, 3} :
                LoadEntry(ch, [c EXCEPT !.BAR = NextInArray(@)], fault, count)
    BY <1>1, <1>4 DEF EndOfArrayBlock, dmac_ch
  <2>2. n \in BaseCounters
    BY <1>1, MaxBlocksAssumption, MaxCountAssumption DEF BaseCounters, dmac_ch
  <2> HIDE DEF n, d
  <2>3. c \in dmac_ch /\ Quiet(DMA[ch], c) /\ c.CSR = DMA[ch].CSR
    BY <1>1, <1>2, <2>2 DEF dmac_ch, Quiet, d
  <2> HIDE DEF c
  <2>4. NextInArray(c.BAR) \in 0 .. MaxChain
    BY <2>3, NextInArrayRange DEF dmac_ch
  <2>5. /\ [c EXCEPT !.BAR = NextInArray(@)] \in dmac_ch
        /\ Quiet(DMA[ch], [c EXCEPT !.BAR = NextInArray(@)])
    BY <2>3, <2>4 DEF dmac_ch, Quiet
  <2>6. CASE c.BTC = 0 /\ Finish(ch, c)
    BY <2>1, <2>3, <2>6, FinishEnds
  <2> QED
    BY <2>1, <2>5, <2>6, LoadEntryEnds
<1>5. CASE EndOfNormalBlock(ch)
  <2> DEFINE marked == [d EXCEPT !.CSR = @ \union {"BLK"}]
             blockDone == [d EXCEPT !.CSR = @ \union {"BLK", "ACT"}, !.MTC = d.BTC,
                                    !.BAR = 0, !.BTC = 0]
  <2>1. /\ ~d.OCR.chained
        /\ \/ Finish(ch, d) \/ Finish(ch, marked)
           \/ StoreAndNotify(ch, Failed(blockDone, "count"))
           \/ StoreAndNotify(ch, [blockDone EXCEPT !.CCR = @ \ {"CNT"}])
    BY <1>5 DEF EndOfNormalBlock
  <2>2. 0 \in 0 .. MaxChain /\ 0 \in BaseCounters /\ BaseCounters \subseteq Counters
    BY MaxChainAssumption, MaxBlocksAssumption, MaxCountAssumption DEF BaseCounters, Counters
  <2> HIDE DEF d
  <2>3. marked \in dmac_ch /\ marked.OCR = d.OCR /\ ("ERR" \in marked.CSR => "ERR" \in d.CSR)
    BY <1>1 DEF dmac_ch, CsrBits
  <2>4. blockDone \in dmac_ch /\ Quiet(DMA[ch], blockDone)
    BY <1>1, <1>2, <2>2 DEF dmac_ch, CsrBits, Quiet
  <2> HIDE DEF marked, blockDone
  <2>5. CASE Finish(ch, d)
    BY <1>1, <2>1, <2>5, FinishEnds DEF d
  <2>6. CASE Finish(ch, marked)
    <3>1. ~marked.OCR.chained /\ ("ERR" \in marked.CSR => "ERR" \in DMA[ch].CSR)
      BY <2>1, <2>3 DEF d
    <3> QED
      BY <2>3, <2>6, <3>1, FinishEnds
  <2>7. CASE StoreAndNotify(ch, Failed(blockDone, "count"))
    BY <2>4, <2>7, FailedQuiet, QuietEnds
  <2>8. CASE StoreAndNotify(ch, [blockDone EXCEPT !.CCR = @ \ {"CNT"}])
    <3>1. Quiet(DMA[ch], [blockDone EXCEPT !.CCR = @ \ {"CNT"}])
      BY <2>4 DEF dmac_ch, Quiet
    <3> QED
      BY <2>8, <3>1, QuietEnds
  <2> QED
    BY <2>1, <2>5, <2>6, <2>7, <2>8
<1> QED
  BY <1>3, <1>4, <1>5

(* A turn of the loop.                                                     *)
LEMMA ExecEnds ==
  ASSUME ChannelsGood, HandlerKnown, DMA_Exec
  PROVE  Ended \/ UNCHANGED DMA
<1> DEFINE ch == handler.ch
           d == DMA[ch]
<1>1. ch \in UsedCh /\ d \in dmac_ch
  BY DEF DMA_Exec, HandlerKnown, HandlerStates, Idle, Loop, AtCnt, ChannelsGood
<1>2. \/ LoopEnds(ch) \/ \E fault \in Faults : TransferFault(ch, fault)
      \/ TransferWithin(ch) \/ TransferLast(ch)
  BY DEF DMA_Exec
<1> HIDE DEF ch
<1>3. Quiet(DMA[ch], d)
  BY DEF Quiet
<1>4. CASE \E fault \in Faults : TransferFault(ch, fault)
  <2>1. PICK fault \in Faults : StoreAndNotify(ch, AfterFault(d, fault)) \/ Store(ch, d)
    BY <1>4 DEF TransferFault
  <2> HIDE DEF d
  <2>2. Quiet(DMA[ch], AfterFault(d, fault))
    BY <1>1, <1>3, FailedEitherQuiet DEF AfterFault
  <2> QED
    BY <1>1, <1>3, <2>1, <2>2, QuietEnds
<1>5. CASE TransferWithin(ch)
  <2>1. Store(ch, [d EXCEPT !.MTC = d.MTC - 1])
    BY <1>5 DEF TransferWithin
  <2>2. Quiet(DMA[ch], [d EXCEPT !.MTC = d.MTC - 1])
    BY <1>1, <1>3 DEF dmac_ch, Quiet
  <2> QED
    BY <1>1, <2>1, <2>2, QuietEnds
<1>6. CASE TransferLast(ch)
  BY <1>1, <1>6, LastEnds DEF TransferLast
<1> QED
  BY <1>2, <1>4, <1>5, <1>6 DEF LoopEnds

(* The end of a write with CNT.                                            *)
LEMMA ContinueEnds ==
  ASSUME NEW ch \in UsedCh, NEW c \in dmac_ch, Quiet(DMA[ch], c), ContinueOperation(ch, c)
  PROVE  Ended
<1> DEFINE next == [c EXCEPT !.CSR = @ \union {"ACT"}, !.MTC = c.BTC, !.BAR = 0, !.BTC = 0]
<1>1. 0 \in 0 .. MaxChain /\ 0 \in BaseCounters /\ BaseCounters \subseteq Counters
  BY MaxChainAssumption, MaxBlocksAssumption, MaxCountAssumption DEF BaseCounters, Counters
<1>2. next \in dmac_ch /\ Quiet(DMA[ch], next)
  BY <1>1 DEF dmac_ch, CsrBits, Quiet
<1>3. \/ Store(ch, c) \/ \E err : StoreAndNotify(ch, Failed(c, err))
      \/ StoreAndNotify(ch, [next EXCEPT !.CSR = @ \union {"BLK"}])
      \/ StoreAndNotify(ch, Failed(next, "count")) \/ Store(ch, next)
  BY DEF ContinueOperation
<1> HIDE DEF next
<1>4. Quiet(DMA[ch], [next EXCEPT !.CSR = @ \union {"BLK"}])
  BY <1>2 DEF dmac_ch, Quiet
<1> QED
  BY <1>2, <1>3, <1>4, FailedQuiet, QuietEnds

(* A write to CCR.                                                         *)
LEMMA WriteEnds ==
  ASSUME ChannelsGood, NEW ch \in UsedCh, NEW data \in SUBSET (CcrBits \union {"SAB"}),
         WriteCCR(ch, data)
  PROVE  Ended
<1> DEFINE w == Written(DMA[ch], data)
<1>1. w \in dmac_ch /\ Quiet(DMA[ch], w)
  <2>1. Good(DMA[ch]) /\ DMA[ch] \in dmac_ch
    BY DEF ChannelsGood, Good
  <2>2. w \in dmac_ch
    BY <2>1, WrittenGood
  <2> QED
    BY <2>1, <2>2 DEF Written, dmac_ch, Quiet
<1>2. CASE WriteCCR_Abort(ch, data)
  <2>1. StoreAndNotify(ch, Failed(w, "abort"))
    BY <1>2 DEF WriteCCR_Abort
  <2> HIDE DEF w
  <2> QED
    BY <1>1, <2>1, FailedQuiet, QuietEnds
<1>3. CASE WriteCCR_Halt(ch, data)
  BY <1>1, <1>3, QuietEnds DEF WriteCCR_Halt
<1>4. CASE WriteCCR_Release(ch, data)
  <2>1. Store(ch, [w EXCEPT !.CSR = @ \union {"ACT"}])
    BY <1>4 DEF WriteCCR_Release
  <2> HIDE DEF w
  <2>2. Quiet(DMA[ch], [w EXCEPT !.CSR = @ \union {"ACT"}])
    BY <1>1 DEF dmac_ch, Quiet
  <2> QED
    BY <2>1, <2>2, QuietEnds
<1>5. CASE WriteCCR_Start(ch, data)
  <2> DEFINE v == [w EXCEPT !.CSR = {"ACT"}]
  <2>1. PICK count \in Counters, next \in 0 .. MaxChain :
          \/ StoreAndNotify(ch, Failed(FirstBlock(v, count, next), "count"))
          \/ Store(ch, [FirstBlock(v, count, next) EXCEPT !.CER = "none"])
    BY <1>5 DEF WriteCCR_Start
  <2> HIDE DEF w
  <2>2. v \in dmac_ch /\ v.CSR = {"ACT"}
    BY <1>1 DEF dmac_ch, CsrBits
  <2> HIDE DEF v
  <2> DEFINE c == FirstBlock(v, count, next)
  <2>3. c \in dmac_ch /\ c.CSR = {"ACT"}
    <3>1. NextInArray(v.BAR) \in 0 .. MaxChain
      BY <2>2, NextInArrayRange DEF dmac_ch
    <3>2. (IF v.OCR.link THEN next ELSE NextInArray(v.BAR)) \in 0 .. MaxChain
      BY <3>1
    <3> QED
      BY <2>2, <3>2 DEF FirstBlock, dmac_ch
  <2>4. Quiet(DMA[ch], c)
    BY <2>3 DEF Quiet
  <2> HIDE DEF c
  <2>5. Quiet(DMA[ch], [c EXCEPT !.CER = "none"])
    BY <2>3 DEF dmac_ch, Quiet
  <2>6. StoreAndNotify(ch, Failed(c, "count")) \/ Store(ch, [c EXCEPT !.CER = "none"])
    BY <2>1 DEF c
  <2> QED
    BY <2>3, <2>4, <2>5, <2>6, FailedQuiet, QuietEnds
<1>6. CASE WriteCCR_NoStart(ch, data)
  <2>1. ContinueOperation(ch, w) \/ Store(ch, w)
    BY <1>6 DEF WriteCCR_NoStart
  <2> HIDE DEF w
  <2> QED
    BY <1>1, <2>1, ContinueEnds, QuietEnds
<1> QED
  BY <1>2, <1>3, <1>4, <1>5, <1>6 DEF WriteCCR

(* A write to another register.                                            *)
LEMMA RegisterEnds ==
  ASSUME ChannelsGood, NEW ch \in UsedCh, WriteRegister(ch)
  PROVE  Ended
<1> DEFINE c == DMA[ch]
<1>1. c \in dmac_ch
  BY DEF ChannelsGood
<1>2. PICK x : /\ \/ \E bits \in SUBSET (CsrBits \ {"ACT"}) : x = [c EXCEPT !.CSR = @ \ bits]
                  \/ x = [c EXCEPT !.CER = "none"]
                  \/ \E mode \in Modes : x = [c EXCEPT !.OCR = mode]
                  \/ \E n \in Counters : x = [c EXCEPT !.MTC = n]
                  \/ \E n \in BaseCounters : x = [c EXCEPT !.BTC = n]
                  \/ \E n \in 0 .. MaxChain : x = [c EXCEPT !.BAR = n]
               /\ Store(ch, x)
  BY DEF WriteRegister
<1> HIDE DEF c
<1>3. Quiet(c, x)
  BY <1>1, <1>2 DEF dmac_ch, Quiet
<1> QED
  BY <1>2, <1>3, QuietEnds DEF c

(* What a channel newly completed is like, whichever step completed it.    *)
CompletedEmpty ==
  \A ch \in UsedCh :
    "COC" \in DMA'[ch].CSR /\ "COC" \notin DMA[ch].CSR
    => /\ DMA'[ch].MTC = 0
       /\ DMA'[ch].OCR.chained =>
            IF DMA'[ch].OCR.link THEN DMA'[ch].BAR = 0 ELSE DMA'[ch].BTC = 0
       /\ "ERR" \in DMA'[ch].CSR => "ERR" \in DMA[ch].CSR

LEMMA EndedMeans == ASSUME ChannelsGood, Ended PROVE CompletedEmpty
<1>0. PICK k \in UsedCh : \E c : Ends(k, c)
  BY DEF Ended
<1>1. PICK c : Ends(k, c)
  BY <1>0
<1>2. \A ch \in UsedCh : DMA'[ch] = IF ch = k THEN c ELSE DMA[ch]
  BY <1>1 DEF Ends, ChannelsGood
<1>3. WellEnded(DMA[k], c)
  BY <1>1 DEF Ends
<1> SUFFICES ASSUME NEW ch \in UsedCh, "COC" \in DMA'[ch].CSR, "COC" \notin DMA[ch].CSR
             PROVE  /\ DMA'[ch].MTC = 0
                    /\ DMA'[ch].OCR.chained =>
                         IF DMA'[ch].OCR.link THEN DMA'[ch].BAR = 0 ELSE DMA'[ch].BTC = 0
                    /\ "ERR" \in DMA'[ch].CSR => "ERR" \in DMA[ch].CSR
  BY DEF CompletedEmpty
<1>4. ch = k /\ DMA'[ch] = c
  BY <1>2
<1> QED
  BY <1>3, <1>4 DEF WellEnded

LEMMA NextEnds == IInv /\ [Next]_dmacVars => CompletedEmpty
<1> SUFFICES ASSUME IInv, [Next]_dmacVars PROVE CompletedEmpty
  OBVIOUS
<1>1. ChannelsGood /\ HandlerKnown
  BY DEF IInv
<1>2. ASSUME UNCHANGED DMA PROVE CompletedEmpty
  BY <1>2 DEF CompletedEmpty
<1>3. CASE DMA_Reset
  <2>1. \A ch \in UsedCh : "COC" \notin DMA'[ch].CSR
    BY <1>3 DEF DMA_Reset, ResetChannel
  <2> QED
    BY <2>1 DEF CompletedEmpty
<1>4. CASE DMA_Exec
  BY <1>1, <1>2, <1>4, ExecEnds, EndedMeans
<1>5. CASE ResumeWrite
  <2>1. handler.ch \in UsedCh /\ ContinueOperation(handler.ch, DMA[handler.ch])
    BY <1>1, <1>5 DEF ResumeWrite, HandlerKnown, HandlerStates, Idle
  <2>2. DMA[handler.ch] \in dmac_ch /\ Quiet(DMA[handler.ch], DMA[handler.ch])
    BY <1>1, <2>1 DEF ChannelsGood, Quiet
  <2> QED
    BY <1>1, <2>1, <2>2, ContinueEnds, EndedMeans
<1>6. ASSUME NEW ch \in UsedCh, CallExec(ch) PROVE CompletedEmpty
  BY <1>2, <1>6 DEF CallExec
<1>7. ASSUME NEW ch \in UsedCh, NEW data \in SUBSET (CcrBits \union {"SAB"}), WriteCCR(ch, data)
      PROVE  CompletedEmpty
  BY <1>1, <1>7, WriteEnds, EndedMeans
<1>8. ASSUME NEW ch \in UsedCh, WriteRegister(ch) PROVE CompletedEmpty
  BY <1>1, <1>8, RegisterEnds, EndedMeans
<1>9. CASE Answer
  BY <1>2, <1>9 DEF Answer
<1>10. CASE UNCHANGED dmacVars
  BY <1>2, <1>10 DEF dmacVars
<1> QED
  BY <1>3, <1>4, <1>5, <1>6, <1>7, <1>8, <1>9, <1>10 DEF Next

(* A channel reports completion only when nothing of its last block is     *)
(* left, no entry of a chain is due and the step is no error, for every    *)
(* counter, list and mode: the completions of DMA_Exec.                    *)
THEOREM CompletionsAreEmpty == Spec => CompletesEmpty
<1>1. IInv /\ [Next]_dmacVars => CompletedEmpty
  BY NextEnds
<1> QED
  BY <1>1, InvariantHolds, PTL DEF Spec, CompletesEmpty, CompletedEmpty
=============================================================================
