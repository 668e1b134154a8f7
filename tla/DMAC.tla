-------------------------------- MODULE DMAC --------------------------------
(***************************************************************************)
(* The HD63450 DMA controller of x68k/dmac.c: the four channels' registers *)
(* and the transfer loop DMA_Exec.                                         *)
(*                                                                         *)
(* DMA_Exec is called from DMA_Write and by the devices, never beside      *)
(* itself.  Its loop is modelled an operand at a time: while `handler'     *)
(* says that it runs, nothing else of the machine does.                    *)
(*                                                                         *)
(* Addresses are kept only where the code tests them: BAR is 0 for the     *)
(* null pointer and otherwise the number of entries left in the list it    *)
(* points to, so that lists are finite.                                    *)
(***************************************************************************)
EXTENDS DmacInt

CONSTANTS
  UsedCh,               \* the channels in use
  MaxCount,             \* bound: the largest value of the transfer counter MTC
  MaxBlocks,            \* bound: the largest value of the base counter BTC
  MaxChain,             \* bound: the longest list of link entries
  Modes                 \* the values software gives OCR

ASSUME UsedChAssumption == UsedCh \subseteq DmaChannels
ASSUME MaxCountAssumption == MaxCount \in Nat
ASSUME MaxBlocksAssumption == MaxBlocks \in 0 .. MaxCount   \* BTC is copied to MTC
ASSUME MaxChainAssumption == MaxChain \in Nat

(* OCR: the direction, chaining, link chaining and the request mode of its *)
(* low two bits (0 limited rate, 1 maximum rate, 2 and 3 by the device).   *)
OcrModes == [toMemory : BOOLEAN, chained : BOOLEAN, link : BOOLEAN, req : 0 .. 3]

ASSUME ModesAssumption == Modes \subseteq OcrModes

(* CSR bits: active, error, channel operation complete, block complete.    *)
CsrBits == {"ACT", "ERR", "COC", "BLK"}
(* CCR bits that stay in the register: start, continue, halt, interrupt.   *)
CcrBits == {"STR", "CNT", "HLT", "INT"}
Counters == 0 .. MaxCount
BaseCounters == 0 .. MaxBlocks
(* CER, by what it tells: 0; 1; 2; 5 to 7; 9 to 11; 13 and 15; 17.  The     *)
(* codes of one kind tell which address register the error is about.       *)
Codes == {"none", "config", "timing", "address", "bus", "count", "abort"}

dmac_ch == [CSR : SUBSET CsrBits, CER : Codes, OCR : OcrModes, CCR : SUBSET CcrBits,
            MTC : Counters, BTC : BaseCounters, BAR : 0 .. MaxChain]

VARIABLES
  DMA,                  \* the channels
  handler               \* where DMA_Write or DMA_Exec is, if it runs

dmacVars == <<DMA, handler, irqh, dmacIntVars>>

(* `at' is "idle" between calls, "loop" at the head of the loop and "cnt"  *)
(* when DMA_Write comes to the CNT bit; `cnt' says whether the loop was    *)
(* entered from DMA_Write with CNT among the bits written.                 *)
Idle == [at |-> "idle", ch |-> 0, cnt |-> FALSE]
Loop(ch, cnt) == [at |-> "loop", ch |-> ch, cnt |-> cnt]
AtCnt(ch) == [at |-> "cnt", ch |-> ch, cnt |-> TRUE]
HandlerStates == {Idle} \union [at : {"loop", "cnt"}, ch : UsedCh, cnt : BOOLEAN]

ResetChannel == [CSR |-> {}, CER |-> "none", CCR |-> {}, MTC |-> 0, BTC |-> 0, BAR |-> 0,
                 OCR |-> [toMemory |-> FALSE, chained |-> FALSE, link |-> FALSE, req |-> 0]]

DMA_Init ==
  /\ DMA = [ch \in UsedCh |-> ResetChannel]
  /\ handler = Idle
  /\ irqh = IRQH_Start
  /\ DmacInt_Init

(* The machine's reset: DMA_Init and IRQH_Init.                            *)
DMA_Reset ==
  /\ handler = Idle
  /\ DMA' = [ch \in UsedCh |-> ResetChannel]
  /\ irqh' = IRQH_Reset(irqh)
  /\ DmacInt_Reset
  /\ UNCHANGED handler

-----------------------------------------------------------------------------
(* The macro DMAERR, but for its DMAINT.                                   *)
Failed(c, err) == [c EXCEPT !.CER = err, !.CSR = (@ \union {"ERR"}) \ {"ACT"},
                            !.CCR = @ \ {"STR"}]

(* "if (first) DMAERR(ch, a) else DMAERR(ch, b)": the macro is several     *)
(* statements and ends in an `if' of its own, so that `first' governs only *)
(* the assignment of a, and the else belongs to the test of CCR's          *)
(* interrupt bit.                                                          *)
FailedEither(c, first, a, b) ==
  Failed(c, IF "INT" \notin c.CCR THEN b ELSE IF first THEN a ELSE c.CER)

(* Mutant of StoreAndNotify: the interrupt is forgotten.                   *)
StoreAndNotify_Silent(ch, c) ==
  /\ DMA' = [DMA EXCEPT ![ch] = c]
  /\ UNCHANGED <<irqh, dmacIntVars>>

(* A channel's registers change, and DMAINT tells the CPU.                 *)
StoreAndNotify(ch, c) ==
  /\ DMA' = [DMA EXCEPT ![ch] = c]
  /\ IF "INT" \in c.CCR THEN DMAINT(ch) ELSE UNCHANGED <<irqh, dmacIntVars>>

Store(ch, c) == DMA' = [DMA EXCEPT ![ch] = c] /\ UNCHANGED <<irqh, dmacIntVars>>

(* DMA_Exec returns to its caller.                                         *)
Return == handler' = IF handler.cnt THEN AtCnt(handler.ch) ELSE Idle

-----------------------------------------------------------------------------
(* One turn of the loop of DMA_Exec.                                       *)
MayTransfer(c, ready) ==
  /\ "ACT" \in c.CSR /\ "COC" \notin c.CSR
  /\ "HLT" \notin c.CCR
  /\ c.MTC # 0
  /\ c.OCR.req = 2 => ready

LoopEnds(ch) ==
  /\ \E ready \in BOOLEAN : ~MayTransfer(DMA[ch], ready)
  /\ Return
  /\ UNCHANGED <<DMA, irqh, dmacIntVars>>

(* BusErrFlag after an operand: 1 and 2 for a read and a write that no     *)
(* device answers, 3 for an odd address read, 4 for one written; the write *)
(* routines add 4 to what the read left.                                   *)
Faults == {1, 2, 3, 4, 5, 7}

(* The switch over BusErrFlag: 5 and 7 have no case.                       *)
AfterFault(c, fault) ==
  LET code == IF fault \in {1, 2} THEN "bus" ELSE "address"
      first == c.OCR.toMemory
  IN  FailedEither(c, first, code, code)

TransferFault(ch, fault) ==
  /\ \E ready \in BOOLEAN : MayTransfer(DMA[ch], ready)
  /\ IF fault \in 1 .. 4 THEN StoreAndNotify(ch, AfterFault(DMA[ch], fault))
                         ELSE Store(ch, DMA[ch])
  /\ Return

(* An operand was moved: the loop goes on at the maximum rate only.        *)
NextTurn(c) == IF c.OCR.req = 1 THEN UNCHANGED handler ELSE Return

(* A block is not finished: nothing but the count changes.                 *)
TransferWithin(ch) ==
  LET c == DMA[ch]
  IN  /\ \E ready \in BOOLEAN : MayTransfer(c, ready)
      /\ c.MTC > 1
      /\ Store(ch, [c EXCEPT !.MTC = @ - 1])
      /\ NextTurn(c)

Completed(c) == [c EXCEPT !.MTC = 0, !.CSR = (@ \union {"COC"}) \ {"ACT"}]

(* The chain entry at BAR is read: `fault' is BusErrFlag after the three   *)
(* reads, `count' the transfer count they gave.                            *)
LoadEntry(ch, c, fault, count) ==
  LET loaded == [c EXCEPT !.MTC = count]
  IN  IF fault # 0
      THEN StoreAndNotify(ch, FailedEither(loaded, fault = 1, "bus", "address")) /\ Return
      ELSE IF count = 0
      THEN StoreAndNotify(ch, Failed(loaded, "count")) /\ Return
      ELSE Store(ch, loaded) /\ NextTurn(c)

Finish(ch, c) == StoreAndNotify(ch, Completed(c)) /\ NextTurn(c)

(* The last operand of a block of a link chain.                            *)
EndOfLinkBlock(ch) ==
  LET c == DMA[ch]
  IN  /\ c.OCR.chained /\ c.OCR.link
      /\ IF c.BAR = 0 THEN Finish(ch, c)
         ELSE \E next \in 0 .. c.BAR - 1, count \in Counters, fault \in {0, 1, 3} :
                LoadEntry(ch, [c EXCEPT !.BAR = next], fault, count)

(* The address of the next entry of an array is never null.                *)
NextInArray(bar) == IF bar = 0 THEN Min({1, MaxChain}) ELSE bar

(* Mutants of EndOfArrayBlock: a signed counter; BTC is tested before it   *)
(* is decremented; it is not decremented.                                  *)
EndOfArrayBlock_Signed(ch) ==
  LET c == [DMA[ch] EXCEPT !.BTC = @ - 1]
  IN  /\ c.OCR.chained /\ ~c.OCR.link
      /\ IF c.BTC = 0 THEN Finish(ch, c)
         ELSE \E count \in Counters : LoadEntry(ch, c, 0, count)

EndOfArrayBlock_TestsFirst(ch) ==
  LET c == [DMA[ch] EXCEPT !.BTC = (@ - 1) % (MaxBlocks + 1)]
  IN  /\ c.OCR.chained /\ ~c.OCR.link
      /\ IF DMA[ch].BTC = 0 THEN Finish(ch, c)
         ELSE \E count \in Counters : LoadEntry(ch, c, 0, count)

EndOfArrayBlock_NeverCounts(ch) ==
  LET c == DMA[ch]
  IN  /\ c.OCR.chained /\ ~c.OCR.link
      /\ IF c.BTC = 0 THEN Finish(ch, c)
         ELSE \E count \in Counters : LoadEntry(ch, c, 0, count)

(* BTC is decremented as an unsigned counter: from 0 it wraps.             *)
EndOfArrayBlock(ch) ==
  LET c == [DMA[ch] EXCEPT !.BTC = (@ - 1) % (MaxBlocks + 1)]
  IN  /\ c.OCR.chained /\ ~c.OCR.link
      /\ IF c.BTC = 0 THEN Finish(ch, c)
         ELSE \E count \in Counters, fault \in {0, 1, 3} :
                LoadEntry(ch, [c EXCEPT !.BAR = NextInArray(@)], fault, count)

(* Without chaining the next block, if any, was left in BAR and BTC.       *)
EndOfNormalBlock(ch) ==
  LET c == DMA[ch]
      blockDone == [c EXCEPT !.CSR = @ \union {"BLK", "ACT"}, !.MTC = c.BTC,
                             !.BAR = 0, !.BTC = 0]
  IN  /\ ~c.OCR.chained
      /\ IF "CNT" \notin c.CCR THEN Finish(ch, c)
         ELSE IF c.BAR = 0 THEN Finish(ch, [c EXCEPT !.CSR = @ \union {"BLK"}])
         ELSE IF c.BTC = 0 THEN StoreAndNotify(ch, Failed(blockDone, "count")) /\ Return
         ELSE StoreAndNotify(ch, [blockDone EXCEPT !.CCR = @ \ {"CNT"}]) /\ NextTurn(c)

TransferLast(ch) ==
  /\ \E ready \in BOOLEAN : MayTransfer(DMA[ch], ready)
  /\ DMA[ch].MTC = 1
  /\ EndOfLinkBlock(ch) \/ EndOfArrayBlock(ch) \/ EndOfNormalBlock(ch)

DMA_Exec ==
  LET ch == handler.ch
  IN  /\ handler.at = "loop"
      /\ \/ LoopEnds(ch)
         \/ \E fault \in Faults : TransferFault(ch, fault)
         \/ TransferWithin(ch)
         \/ TransferLast(ch)

(* A device, or the frame loop, calls DMA_Exec.                            *)
CallExec(ch) ==
  /\ handler = Idle
  /\ handler' = Loop(ch, FALSE)
  /\ UNCHANGED <<DMA, irqh, dmacIntVars>>

-----------------------------------------------------------------------------
(* The end of a write to CCR that holds CNT: the bit is tested in the      *)
(* register just written, and only when no count is left.                  *)
ContinueOperation(ch, c) ==
  LET next == [c EXCEPT !.CSR = @ \union {"ACT"}, !.MTC = c.BTC, !.BAR = 0, !.BTC = 0]
  IN  IF c.MTC # 0 THEN Store(ch, c) /\ handler' = Idle
      ELSE IF "STR" \notin c.CCR \/ "CNT" \in c.CCR
      THEN StoreAndNotify(ch, Failed(c, "timing")) /\ handler' = Idle
      ELSE IF c.OCR.chained
      THEN StoreAndNotify(ch, Failed(c, "config")) /\ handler' = Idle
      ELSE IF c.BAR = 0
      THEN /\ StoreAndNotify(ch, [next EXCEPT !.CSR = @ \union {"BLK"}])
           /\ handler' = Idle
      ELSE IF c.BTC = 0
      THEN StoreAndNotify(ch, Failed(next, "count")) /\ handler' = Idle
      ELSE Store(ch, next) /\ handler' = Loop(ch, FALSE)

ResumeWrite ==
  /\ handler.at = "cnt"
  /\ ContinueOperation(handler.ch, DMA[handler.ch])

(* Mutant of Written: a write without STR drops it.                        *)
Written_DropsStart(c, data) == [c EXCEPT !.CCR = data \ {"SAB"}]

(* CCR takes the bits written, but for the abort, and keeps STR.           *)
Written(c, data) == [c EXCEPT !.CCR = (data \ {"SAB"}) \union (@ \intersect {"STR"})]

Aborts(c, data) == "SAB" \in data /\ "STR" \in Written(c, data).CCR

WriteCCR_Abort(ch, data) ==
  /\ Aborts(DMA[ch], data)
  /\ StoreAndNotify(ch, Failed(Written(DMA[ch], data), "abort"))
  /\ handler' = Idle

WriteCCR_Halt(ch, data) ==
  /\ ~Aborts(DMA[ch], data) /\ "HLT" \in data
  /\ Store(ch, Written(DMA[ch], data))
  /\ handler' = Idle

WriteCCR_Release(ch, data) ==
  /\ ~Aborts(DMA[ch], data) /\ "HLT" \notin data
  /\ "STR" \in data /\ "HLT" \in DMA[ch].CCR
  /\ Store(ch, [Written(DMA[ch], data) EXCEPT !.CSR = @ \union {"ACT"}])
  /\ handler' = Loop(ch, "CNT" \in data)

(* The first entry of a chain, read without a look at BusErrFlag: its      *)
(* transfer count and, in a list, the pointer to the next entry.           *)
FirstBlock(c, count, next) ==
  IF ~c.OCR.chained THEN c
  ELSE [c EXCEPT !.MTC = count, !.BAR = IF c.OCR.link THEN next ELSE NextInArray(@)]

WriteCCR_Start(ch, data) ==
  /\ ~Aborts(DMA[ch], data) /\ "HLT" \notin data
  /\ "STR" \in data /\ "HLT" \notin DMA[ch].CCR
  /\ \E count \in Counters, next \in 0 .. MaxChain :
       LET c == FirstBlock([Written(DMA[ch], data) EXCEPT !.CSR = {"ACT"}], count, next)
       IN  /\ next < DMA[ch].BAR \/ next = 0
           /\ c.OCR.chained \/ count = c.MTC
           /\ IF c.MTC = 0 \/ (c.OCR.chained /\ ~c.OCR.link /\ c.BTC = 0)
              THEN StoreAndNotify(ch, Failed(c, "count")) /\ handler' = Idle
              ELSE Store(ch, [c EXCEPT !.CER = "none"]) /\ handler' = Loop(ch, "CNT" \in data)

WriteCCR_NoStart(ch, data) ==
  /\ ~Aborts(DMA[ch], data) /\ data \intersect {"HLT", "STR"} = {}
  /\ LET c == Written(DMA[ch], data)
     IN  IF "CNT" \in data THEN ContinueOperation(ch, c)
                           ELSE Store(ch, c) /\ handler' = Idle

WriteCCR(ch, data) ==
  /\ handler = Idle
  /\ \/ WriteCCR_Abort(ch, data)
     \/ WriteCCR_Halt(ch, data)
     \/ WriteCCR_Release(ch, data)
     \/ WriteCCR_Start(ch, data)
     \/ WriteCCR_NoStart(ch, data)

(* The other registers.  A 1 written to CSR or CER clears the bit, but     *)
(* never ACT; a write that clears some of the bits of a code in CER is     *)
(* taken to leave the code.                                                *)
WriteRegister(ch) ==
  /\ handler = Idle
  /\ \E c \in {[DMA[ch] EXCEPT !.CSR = @ \ bits] : bits \in SUBSET (CsrBits \ {"ACT"})}
             \union {[DMA[ch] EXCEPT !.CER = "none"]}
             \union {[DMA[ch] EXCEPT !.OCR = mode] : mode \in Modes}
             \union {[DMA[ch] EXCEPT !.MTC = n] : n \in Counters}
             \union {[DMA[ch] EXCEPT !.BTC = n] : n \in BaseCounters}
             \union {[DMA[ch] EXCEPT !.BAR = n] : n \in 0 .. MaxChain} :
       Store(ch, c)
  /\ UNCHANGED handler

(* The CPU takes level 3 and DMA_Int answers.                              *)
Answer ==
  /\ handler = Idle
  /\ irqh.line = DMA_Level
  /\ DMA_Int(CpuAcknowledges(irqh))
  /\ UNCHANGED <<DMA, handler>>

Next ==
  \/ DMA_Reset
  \/ DMA_Exec
  \/ ResumeWrite
  \/ \E ch \in UsedCh :
       \/ CallExec(ch)
       \/ \E data \in SUBSET (CcrBits \union {"SAB"}) : WriteCCR(ch, data)
       \/ WriteRegister(ch)
  \/ Answer

(* A call that is entered runs on: the loop and the rest of the write are  *)
(* C code that nothing preempts.                                           *)
Spec == DMA_Init /\ [][Next]_dmacVars /\ WF_dmacVars(DMA_Exec) /\ WF_dmacVars(ResumeWrite)

-----------------------------------------------------------------------------
(* The registers stay in their ranges.                                     *)
TypeOK ==
  /\ DMA \in [UsedCh -> dmac_ch]
  /\ handler \in HandlerStates
  /\ irqh \in IrqhStates
  /\ DmacInt_TypeOK

(* A channel is active only after a START that nothing has undone: no      *)
(* abort, error or write leaves ACT in CSR without STR in CCR.             *)
ActiveIsStarted == \A ch \in UsedCh : "ACT" \in DMA[ch].CSR => "STR" \in DMA[ch].CCR

(* A channel that stops, for whatever reason, with its interrupt enabled   *)
(* is left waiting for the CPU, with level 3 raised: the program that      *)
(* sleeps on the transfer is woken.                                        *)
StopIsReported ==
  [][\A ch \in UsedCh :
       /\ "ACT" \in DMA[ch].CSR /\ "ACT" \notin DMA'[ch].CSR
       /\ "INT" \in DMA'[ch].CCR
       => ch \in DMA_IntCH' /\ irqh'.line = DMA_Level]_dmacVars

(* A channel reports completion only when nothing of its last block is     *)
(* left, no further entry of an array is due and the step is not an error. *)
CompletesEmpty ==
  [][\A ch \in UsedCh :
       "COC" \in DMA'[ch].CSR /\ "COC" \notin DMA[ch].CSR
       => /\ DMA'[ch].MTC = 0
          /\ DMA'[ch].OCR.chained =>
               IF DMA'[ch].OCR.link THEN DMA'[ch].BAR = 0 ELSE DMA'[ch].BTC = 0
          /\ "ERR" \in DMA'[ch].CSR => "ERR" \in DMA[ch].CSR]_dmacVars

(* DMA_Exec returns: whatever the registers hold, and finite lists of link *)
(* entries, the loop does not hold the machine up.                         *)
ExecReturns == (handler # Idle) ~> (handler = Idle)

(* An error that stops a channel leaves its code in CER, as the cases of   *)
(* the switch over BusErrFlag say.                                         *)
ErrorHasCode ==
  [][\A ch \in UsedCh :
       "ERR" \in DMA'[ch].CSR /\ "ERR" \notin DMA[ch].CSR => DMA'[ch].CER # "none"]_dmacVars

=============================================================================
