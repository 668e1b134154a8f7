---------------------------- MODULE LinesProofs -----------------------------
(***************************************************************************)
(* What the program is told over the two serial lines, for every size of   *)
(* the ring of key events, every set of keys and of the MFP's channels,    *)
(* whatever a count of the mouse is made of and however many a packet      *)
(* holds.                                                                  *)
(*                                                                         *)
(* The keyboard: the places of the ring from the read position up to the   *)
(* write position hold events, so that what Keyboard_Int puts into the     *)
(* data register is one; the register and those places are the queue that  *)
(* the keyboard promises, and each step of the line is one of it.          *)
(*                                                                         *)
(* The mouse: the sum and the packet are never full of the same motion     *)
(* because a sample is taken only when the last packet has been read to    *)
(* its end; and a packet is read from the status on, so that its count is  *)
(* the byte before the last for as long as it has not been read.           *)
(***************************************************************************)
EXTENDS MCLines, SequenceTheorems, WellFoundedInduction, TLAPS

-----------------------------------------------------------------------------
(* The interrupt handler and the channels.                                 *)
(* Sets of numbers have a first, and sets of levels a last.                *)
LEMMA Least ==
  ASSUME NEW S \in SUBSET Nat, S # {}
  PROVE  \E x \in S : \A y \in S : x <= y
<1>1. PICK x \in S : \A y \in S : <<y, x>> \notin OpToRel(<, Nat)
  BY NatLessThanWellFounded, WFMin
<1>2. \A y \in S : ~(y < x)
  BY <1>1 DEF OpToRel
<1> QED
  BY <1>2

LEMMA Greatest ==
  ASSUME NEW S \in SUBSET Levels, S # {}
  PROVE  \E x \in S : \A y \in S : x >= y
<1> DEFINE T == {7 - x : x \in S}
<1>1. T \in SUBSET Nat
  BY DEF Levels
<1>2. T # {}
  <2>1. PICK x \in S : TRUE
    OBVIOUS
  <2>2. 7 - x \in T
    OBVIOUS
  <2> QED
    BY <2>2
<1>3. \A y \in S : 7 - y \in T
  OBVIOUS
<1>4. \A m \in T : \E x \in S : m = 7 - x
  OBVIOUS
<1> HIDE DEF T
<1>5. PICK m \in T : \A n \in T : m <= n
  BY <1>1, <1>2, Least
<1>6. PICK x \in S : m = 7 - x
  BY <1>4
<1>7. \A y \in S : 7 - x <= 7 - y
  BY <1>3, <1>5, <1>6
<1> QED
  BY <1>7 DEF Levels

(* The scan of the flags ends on a level, or on none.                      *)
LEMMA HighestInRange ==
  ASSUME NEW S \in SUBSET Levels
  PROVE  Highest(S) \in 0 .. 7
<1>1. CASE S = {}
  BY <1>1 DEF Highest
<1>2. CASE S # {}
  <2>1. Max(S) \in S
    BY <1>2, Greatest DEF Max
  <2>2. Highest(S) = Max(S)
    BY <1>2 DEF Highest
  <2>3. \A x \in Levels : x \in 0 .. 7
    BY DEF Levels
  <2> QED
    BY <2>1, <2>2, <2>3
<1> QED
  BY <1>1, <1>2

(* KeyLine's copy of the handler is SCC's.                                 *)
LEMMA SameHandler ==
  /\ Keys!IrqhStates = IrqhStates /\ Keys!IRQH_Start = IRQH_Start
  /\ \A s : /\ Keys!IRQH_Reset(s) = IRQH_Reset(s)
            /\ Keys!CpuAcknowledges(s) = CpuAcknowledges(s)
            /\ Keys!my_irqh_callback_End(s) = my_irqh_callback_End(s)
  /\ \A s, l : Keys!IRQH_IRQCallBack(s, l) = IRQH_IRQCallBack(s, l)
  /\ \A s, l, h : Keys!IRQH_Int(s, l, h) = IRQH_Int(s, l, h)
<1>1. \A S : Keys!Max(S) = Max(S)
  BY DEF Keys!Max, Max
<1>2. \A S : Keys!Highest(S) = Highest(S)
  BY <1>1 DEF Keys!Highest, Highest
<1>3. Keys!IrqhStates = IrqhStates
  BY DEF Keys!IrqhStates, IrqhStates, Keys!Levels, Levels, Keys!Handlers, Handlers,
         Keys!DefaultVector, DefaultVector
<1>4. Keys!IRQH_Start = IRQH_Start
  BY DEF Keys!IRQH_Start, IRQH_Start, Keys!Levels, Levels
<1>5. \A s : /\ Keys!IRQH_Reset(s) = IRQH_Reset(s)
             /\ Keys!CpuAcknowledges(s) = CpuAcknowledges(s)
             /\ Keys!my_irqh_callback_End(s) = my_irqh_callback_End(s)
  BY <1>2 DEF Keys!IRQH_Reset, IRQH_Reset, Keys!CpuAcknowledges, CpuAcknowledges,
              Keys!my_irqh_callback_End, my_irqh_callback_End
<1>6. \A s, l : Keys!IRQH_IRQCallBack(s, l) = IRQH_IRQCallBack(s, l)
  BY <1>2 DEF Keys!IRQH_IRQCallBack, IRQH_IRQCallBack
<1>7. \A s, l, h : Keys!IRQH_Int(s, l, h) = IRQH_Int(s, l, h)
  BY <1>2 DEF Keys!IRQH_Int, IRQH_Int
<1> QED
  BY <1>3, <1>4, <1>5, <1>6, <1>7

(* Every operation of the handler leads from a state of it to one.         *)
LEMMA StateAgain ==
  ASSUME NEW s \in IrqhStates
  PROVE  /\ IRQH_Reset(s) \in IrqhStates
         /\ CpuAcknowledges(s) \in IrqhStates
         /\ my_irqh_callback_End(s) \in IrqhStates
         /\ \A l \in Levels : IRQH_IRQCallBack(s, l) \in IrqhStates
         /\ \A l \in Levels, h \in Handlers : IRQH_Int(s, l, h) \in IrqhStates
<1>1. /\ s.IRQ \in SUBSET Levels /\ s.CallBack \in [Levels -> Handlers \union {NoHandler}]
      /\ s = [IRQ |-> s.IRQ, CallBack |-> s.CallBack, line |-> s.line]
  BY DEF IrqhStates
<1>2. ASSUME NEW irq \in SUBSET Levels, NEW back \in [Levels -> Handlers \union {NoHandler}],
             NEW line \in 0 .. 7
      PROVE  [IRQ |-> irq, CallBack |-> back, line |-> line] \in IrqhStates
  <2> HIDE DEF Levels
  <2> QED
    BY DEF IrqhStates
<1>3. {} \in SUBSET Levels /\ 0 \in 0 .. 7
  OBVIOUS
<1>4. IRQH_Reset(s) \in IrqhStates
  BY <1>1, <1>2, <1>3 DEF IRQH_Reset
<1>5. CpuAcknowledges(s) \in IrqhStates
  <2>1. CpuAcknowledges(s) = [IRQ |-> s.IRQ, CallBack |-> s.CallBack, line |-> 0]
    BY <1>1 DEF CpuAcknowledges
  <2> QED
    BY <1>1, <1>2, <1>3, <2>1
<1>6. my_irqh_callback_End(s) \in IrqhStates
  <2>1. my_irqh_callback_End(s) = s
        \/ my_irqh_callback_End(s)
             = [IRQ |-> s.IRQ, CallBack |-> s.CallBack, line |-> Highest(s.IRQ)]
    BY <1>1 DEF my_irqh_callback_End
  <2>2. Highest(s.IRQ) \in 0 .. 7
    BY <1>1, HighestInRange
  <2> QED
    BY <1>1, <1>2, <2>1, <2>2
<1>7. ASSUME NEW l \in Levels PROVE IRQH_IRQCallBack(s, l) \in IrqhStates
  <2>1. s.IRQ \ {l} \in SUBSET Levels /\ Highest(s.IRQ \ {l}) \in 0 .. 7
    BY <1>1, HighestInRange
  <2> QED
    BY <2>1 DEF IRQH_IRQCallBack, IrqhStates
<1>8. ASSUME NEW l \in Levels, NEW h \in Handlers PROVE IRQH_Int(s, l, h) \in IrqhStates
  <2>1. s.IRQ \union {l} \in SUBSET Levels /\ Highest(s.IRQ \union {l}) \in 0 .. 7
    BY <1>1, HighestInRange
  <2> QED
    BY <2>1 DEF IRQH_Int, IrqhStates
<1> QED
  BY <1>4, <1>5, <1>6, <1>7, <1>8

-----------------------------------------------------------------------------
(* The MFP's half: what the handler and the registers are after each of    *)
(* its routines.                                                           *)
MfpOK == irqh \in IrqhStates /\ Keys!MFP_TypeOK

(* The MFP's calls of the handler.                                         *)
LEMMA RaisedAgain ==
  ASSUME NEW s \in IrqhStates
  PROVE  /\ Keys!IRQH_IRQCallBack(s, Keys!MFP_Level) \in IrqhStates
         /\ Keys!IRQH_Int(s, Keys!MFP_Level, "MFP") \in IrqhStates
         /\ \A ipr, imr, isr : /\ Keys!RaiseIfDeliverable(s, ipr, imr, isr) \in IrqhStates
                               /\ Keys!MFP_RecheckInt(s, ipr, imr, isr) \in IrqhStates
<1>1. Keys!MFP_Level \in Levels /\ "MFP" \in Handlers
  BY DEF Keys!MFP_Level, Levels, Handlers
<1>2. /\ \A t \in IrqhStates : Keys!IRQH_Int(t, Keys!MFP_Level, "MFP") \in IrqhStates
      /\ \A t \in IrqhStates : Keys!IRQH_IRQCallBack(t, Keys!MFP_Level) \in IrqhStates
  BY <1>1, StateAgain, SameHandler
<1>3. \A t \in IrqhStates : \A ipr, imr, isr :
        Keys!RaiseIfDeliverable(t, ipr, imr, isr) \in IrqhStates
  BY <1>2 DEF Keys!RaiseIfDeliverable
<1> QED
  BY <1>2, <1>3 DEF Keys!MFP_RecheckInt

LEMMA MfpRequests ==
  ASSUME MfpOK, NEW chans, Keys!MFP_Int(chans)
  PROVE  MfpOK'
<1>1. irqh' \in IrqhStates
  BY RaisedAgain DEF MfpOK, Keys!MFP_Int
<1>2. Keys!MFP_TypeOK'
  BY DEF MfpOK, Keys!MFP_TypeOK, Keys!MFP_Int
<1> QED
  BY <1>1, <1>2 DEF MfpOK

LEMMA MfpWritten ==
  ASSUME MfpOK, Keys!MFP_Write
  PROVE  MfpOK'
<1>1. PICK bank \in {Keys!BankA, Keys!BankB} : \E data \in SUBSET bank :
        \/ Keys!WriteIER(bank, data) \/ Keys!WriteIPR(bank, data)
        \/ Keys!WriteISR(bank, data) \/ Keys!WriteIMR(bank, data)
  BY DEF Keys!MFP_Write
<1>2. PICK data \in SUBSET bank :
        \/ Keys!WriteIER(bank, data) \/ Keys!WriteIPR(bank, data)
        \/ Keys!WriteISR(bank, data) \/ Keys!WriteIMR(bank, data)
  BY <1>1
<1>3. data \subseteq Channel
  BY DEF Keys!BankA, Keys!BankB
<1>4. irqh' \in IrqhStates
  <2>1. \E ipr, imr, isr : irqh' = Keys!MFP_RecheckInt(irqh, ipr, imr, isr)
    BY <1>2 DEF Keys!WriteIER, Keys!WriteIPR, Keys!WriteISR, Keys!WriteIMR
  <2>2. irqh \in IrqhStates
    BY DEF MfpOK
  <2> QED
    BY <2>1, <2>2, RaisedAgain
<1>5. Keys!MFP_TypeOK'
  BY <1>2, <1>3
  DEF MfpOK, Keys!MFP_TypeOK, Keys!WriteIER, Keys!WriteIPR, Keys!WriteISR, Keys!WriteIMR
<1> QED
  BY <1>4, <1>5 DEF MfpOK

LEMMA MfpEnds ==
  ASSUME MfpOK, Keys!WriteISR(Keys!BankA, {})
  PROVE  MfpOK'
  BY RaisedAgain DEF MfpOK, Keys!MFP_TypeOK, Keys!WriteISR

(* The channel that answers is one that pends.                             *)
LEMMA MfpAnswers ==
  ASSUME MfpOK, NEW s \in IrqhStates, Keys!MFP_IntCallback(s)
  PROVE  MfpOK'
<1> DEFINE n == Keys!MFP_IntChannel
           ready == Keys!Deliverable(IPR, IMR, ISR)
           withdrawnLine == Keys!IRQH_IRQCallBack(s, Keys!MFP_Level)
<1>1. withdrawnLine \in IrqhStates
  BY RaisedAgain
<1>2. \A t \in IrqhStates : Keys!my_irqh_callback_End(t) \in IrqhStates
  BY StateAgain, SameHandler
<1>3. CASE ready = {}
  BY <1>1, <1>2, <1>3 DEF Keys!MFP_IntCallback, Keys!mfpVars, MfpOK, Keys!MFP_TypeOK
<1>4. CASE ready # {}
  <2>1. ready \in SUBSET Nat /\ ready \subseteq Channel
    BY LinesAssumption DEF MfpOK, Keys!MFP_TypeOK, Keys!Deliverable
  <2> HIDE DEF ready
  <2>2. Keys!Min(ready) \in ready
    BY <1>4, <2>1, Least DEF Keys!Min
  <2>3. n \in Channel
    BY <2>1, <2>2 DEF Keys!MFP_IntChannel, ready
  <2>4. /\ IPR' = IPR \ {n}
        /\ ISR' = IF VR_S THEN ISR \union {n} ELSE ISR
        /\ irqh' = Keys!my_irqh_callback_End(
                     Keys!RaiseIfDeliverable(withdrawnLine, IPR', IMR, ISR'))
        /\ UNCHANGED <<IER, IMR, VR_S>>
    BY <1>4 DEF Keys!MFP_IntCallback, ready
  <2> HIDE DEF n, withdrawnLine
  <2>5. irqh' \in IrqhStates
    BY <1>1, <1>2, <2>4, RaisedAgain
  <2>6. Keys!MFP_TypeOK'
    BY <2>3, <2>4 DEF MfpOK, Keys!MFP_TypeOK
  <2> QED
    BY <2>5, <2>6 DEF MfpOK
<1> QED
  BY <1>3, <1>4

LEMMA MfpResets ==
  ASSUME MfpOK, irqh' = Keys!IRQH_Reset(irqh), Keys!MFP_ResetRegs
  PROVE  MfpOK'
<1>1. irqh' \in IrqhStates
  BY StateAgain, SameHandler DEF MfpOK
<1>2. Keys!MFP_TypeOK'
  BY DEF Keys!MFP_ResetRegs, Keys!MFP_InitEnabled, Keys!MFP_TypeOK
<1> QED
  BY <1>1, <1>2 DEF MfpOK

-----------------------------------------------------------------------------
(* The ring of key events.                                                 *)
(* KeyLine's copy of the ring is MCLines's.                                *)
LEMMA SameRing ==
  /\ Keys!Event = Event /\ Keys!NoEvent = NoEvent /\ Keys!Rings = Rings
  /\ Keys!EmptyRing = EmptyRing
  /\ \A k : /\ Keys!IsEmpty(k) = IsEmpty(k) /\ Keys!Oldest(k) = Oldest(k)
            /\ Keys!WithoutOldest(k) = WithoutOldest(k) /\ Keys!Queue(k) = Queue(k)
  /\ \A k, event : Keys!Queued(k, event) = Queued(k, event)
<1>1. Keys!Event = Event /\ Keys!NoEvent = NoEvent /\ Keys!Slots = Slots
  BY DEF Keys!Event, Event, Keys!NoEvent, NoEvent, Keys!Slots, Slots
<1>2. \A i : Keys!NextSlot(i) = NextSlot(i)
  BY DEF Keys!NextSlot, NextSlot
<1>3. Keys!Rings = Rings /\ Keys!EmptyRing = EmptyRing
  BY <1>1 DEF Keys!Rings, Rings, Keys!EmptyRing, EmptyRing
<1>4. \A k : /\ Keys!IsEmpty(k) = IsEmpty(k) /\ Keys!Oldest(k) = Oldest(k)
             /\ Keys!Queue(k) = Queue(k)
  BY DEF Keys!IsEmpty, IsEmpty, Keys!Oldest, Oldest, Keys!Queue, Queue
<1>5. \A k : Keys!WithoutOldest(k) = WithoutOldest(k)
  BY <1>2 DEF Keys!WithoutOldest, WithoutOldest
<1>6. \A k, event : Keys!Queued(k, event) = Queued(k, event)
  BY <1>2 DEF Keys!Queued, Queued
<1> QED
  BY <1>1, <1>3, <1>4, <1>5, <1>6

LEMMA SizeIs == KeyBufSize \in Nat /\ KeyBufSize >= 2
  BY RingAssumption

(* Going on round the ring.                                                *)
LEMMA Around ==
  ASSUME NEW x \in Slots, NEW n \in 0 .. KeyBufSize
  PROVE  /\ (x + n) % KeyBufSize = IF x + n < KeyBufSize THEN x + n ELSE x + n - KeyBufSize
         /\ (x + n) % KeyBufSize \in Slots
  BY SizeIs DEF Slots

(* How many places there are from one to another.                          *)
LEMMA Between ==
  ASSUME NEW w \in Slots, NEW r \in Slots
  PROVE  /\ (w - r) % KeyBufSize = IF r <= w THEN w - r ELSE w - r + KeyBufSize
         /\ (w - r) % KeyBufSize \in 0 .. KeyBufSize - 1
  BY SizeIs DEF Slots

Held(k) == (k.WP - k.RP) % KeyBufSize
RingOK(k) == k \in Rings /\ Queue(k) \in Seq(Event)

(* The queue a ring holds: the places from the read position on.           *)
LEMMA QueueIs ==
  ASSUME NEW k \in Rings
  PROVE  /\ Held(k) \in 0 .. KeyBufSize - 1
         /\ Queue(k) \in Seq(Event \union {NoEvent}) /\ Len(Queue(k)) = Held(k)
         /\ \A i \in 1 .. Held(k) :
              /\ (k.RP + (i - 1)) % KeyBufSize \in Slots
              /\ Queue(k)[i] = k.KeyBuf[(k.RP + (i - 1)) % KeyBufSize]
<1>1. /\ k.WP \in Slots /\ k.RP \in Slots /\ k.KeyBuf \in [Slots -> Event \union {NoEvent}]
  BY DEF Rings
<1>2. Held(k) \in 0 .. KeyBufSize - 1
  BY <1>1, Between DEF Held
<1>3. PICK c \in 0 .. KeyBufSize - 1 : c = Held(k)
  BY <1>2
<1>4. ASSUME NEW i \in 1 .. c
      PROVE  k.RP + i - 1 = k.RP + (i - 1) /\ (k.RP + (i - 1)) % KeyBufSize \in Slots
  <2>1. i - 1 \in 0 .. KeyBufSize /\ k.RP \in Nat /\ i \in Nat
    BY <1>1, SizeIs DEF Slots
  <2> QED
    BY <1>1, <2>1, Around
<1>5. Queue(k) = [i \in 1 .. c |-> k.KeyBuf[(k.RP + i - 1) % KeyBufSize]]
  BY <1>3 DEF Queue, Held
<1>6. \A i \in 1 .. c : k.KeyBuf[(k.RP + i - 1) % KeyBufSize] \in Event \union {NoEvent}
  BY <1>1, <1>4
<1>7. Queue(k) \in [1 .. c -> Event \union {NoEvent}]
  BY <1>5, <1>6
<1>8. c \in Nat
  BY SizeIs
<1>9. Queue(k) \in Seq(Event \union {NoEvent}) /\ Len(Queue(k)) = c
  BY <1>7, <1>8
<1> QED
  BY <1>2, <1>3, <1>4, <1>5, <1>9

LEMMA EmptyQueue ==
  /\ EmptyRing \in Rings /\ Queue(EmptyRing) = << >>
  /\ \A k \in Rings : IsEmpty(k) => Queue(k) = << >>
<1>1. \A k \in Rings : IsEmpty(k) => Queue(k) = << >>
  <2> SUFFICES ASSUME NEW k \in Rings, IsEmpty(k) PROVE Queue(k) = << >>
    OBVIOUS
  <2>1. k.WP = k.RP /\ k.RP \in Slots
    BY DEF IsEmpty, Rings
  <2>2. Held(k) = 0
    BY <2>1, Between, SizeIs DEF Held, Slots
  <2>3. Queue(k) \in Seq(Event \union {NoEvent}) /\ Len(Queue(k)) = 0
    BY <2>2, QueueIs
  <2> QED
    BY <2>3, EmptySeq
<1>2. EmptyRing \in Rings /\ IsEmpty(EmptyRing)
  <2>1. 0 \in Slots
    BY SizeIs DEF Slots
  <2> QED
    BY <2>1 DEF EmptyRing, Rings, IsEmpty
<1> QED
  BY <1>1, <1>2

(* A ring is full when all its places but one are taken.                   *)
LEMMA FullIs ==
  ASSUME NEW k \in Rings
  PROVE  NextSlot(k.WP) = k.RP <=> Held(k) = KeyBufSize - 1
<1>1. k.WP \in Slots /\ k.RP \in Slots
  BY DEF Rings
<1>2. NextSlot(k.WP) = IF k.WP + 1 < KeyBufSize THEN k.WP + 1 ELSE k.WP + 1 - KeyBufSize
  BY <1>1, Around, SizeIs DEF NextSlot
<1>3. Held(k) = IF k.RP <= k.WP THEN k.WP - k.RP ELSE k.WP - k.RP + KeyBufSize
  BY <1>1, Between DEF Held
<1> QED
  BY <1>1, <1>2, <1>3, SizeIs DEF Slots

(* An event that finds room goes to the queue's end.                       *)
LEMMA QueuedGrows ==
  ASSUME NEW k, RingOK(k), NEW event \in Event, NextSlot(k.WP) # k.RP
  PROVE  /\ RingOK(Queued(k, event)) /\ Queued(k, event) # k
         /\ Queue(Queued(k, event)) = Append(Queue(k), event)
<1> DEFINE n == Queued(k, event)
           b == k.KeyBuf
           w == k.WP
           r == k.RP
           c == Held(k)
           long == Queue(n)
           both == Append(Queue(k), event)
<1>1. k \in Rings /\ w \in Slots /\ r \in Slots /\ b \in [Slots -> Event \union {NoEvent}]
      /\ Queue(k) \in Seq(Event)
  BY DEF RingOK, Rings
<1>2. c \in 0 .. KeyBufSize - 2 /\ c \in Nat
  BY <1>1, QueueIs, FullIs, SizeIs
<1>3. /\ NextSlot(w) = IF w + 1 < KeyBufSize THEN w + 1 ELSE w + 1 - KeyBufSize
      /\ NextSlot(w) \in Slots /\ NextSlot(w) # w
  <2>1. /\ NextSlot(w) = IF w + 1 < KeyBufSize THEN w + 1 ELSE w + 1 - KeyBufSize
        /\ NextSlot(w) \in Slots
    BY <1>1, Around, SizeIs DEF NextSlot
  <2> QED
    BY <1>1, <2>1, SizeIs DEF Slots
<1>4. n \in Rings /\ n.RP = r /\ n.WP = NextSlot(w) /\ n.KeyBuf = [b EXCEPT ![w] = event]
  BY <1>1, <1>3 DEF Queued, Rings
<1>5. n # k
  BY <1>3, <1>4
<1>6. c = IF r <= w THEN w - r ELSE w - r + KeyBufSize
  BY <1>1, Between DEF Held
<1>7. Held(n) = c + 1
  <2>1. Held(n) = IF r <= n.WP THEN n.WP - r ELSE n.WP - r + KeyBufSize
    BY <1>1, <1>3, <1>4, Between DEF Held
  <2>2. n.WP = NextSlot(w) /\ w \in 0 .. KeyBufSize - 1 /\ r \in 0 .. KeyBufSize - 1
    BY <1>1, <1>4 DEF Slots
  <2> HIDE DEF n, c, w, r
  <2> QED
    BY <1>2, <1>3, <1>6, <2>1, <2>2, SizeIs
<1>8. /\ long \in Seq(Event \union {NoEvent}) /\ Len(long) = c + 1
      /\ \A i \in 1 .. c + 1 : long[i] = n.KeyBuf[(r + (i - 1)) % KeyBufSize]
  BY <1>4, <1>7, QueueIs
<1>9. /\ Len(Queue(k)) = c
      /\ \A i \in 1 .. c : Queue(k)[i] = b[(r + (i - 1)) % KeyBufSize]
  BY <1>1, QueueIs
<1>10. /\ both \in Seq(Event) /\ Len(both) = c + 1
       /\ \A i \in 1 .. c : both[i] = Queue(k)[i]
       /\ both[c + 1] = event
  <2> HIDE DEF c
  <2> QED
    BY <1>1, <1>2, <1>9, AppendProperties
<1> HIDE DEF n, b, w, r, c, long, both
<1>11. ASSUME NEW i \in 1 .. c + 1 PROVE long[i] = both[i]
  <2>1. i - 1 \in 0 .. KeyBufSize /\ i \in Nat /\ i >= 1 /\ i <= c + 1
    BY <1>2, SizeIs
  <2>2. PICK x \in Slots :
          /\ x = (r + (i - 1)) % KeyBufSize
          /\ x = IF r + (i - 1) < KeyBufSize THEN r + (i - 1) ELSE r + (i - 1) - KeyBufSize
    BY <1>1, <2>1, Around
  <2>3. long[i] = n.KeyBuf[x]
    BY <1>8, <2>2
  <2>4. CASE i <= c
    <3>1. x # w
      BY <1>1, <1>2, <1>6, <2>1, <2>2, <2>4, SizeIs DEF Slots
    <3>2. i \in 1 .. c
      BY <1>2, <2>1, <2>4
    <3>3. both[i] = b[x]
      BY <1>9, <1>10, <2>2, <3>2
    <3> QED
      BY <1>1, <1>4, <2>2, <2>3, <3>1, <3>3
  <2>5. CASE i = c + 1
    <3>1. x = w
      BY <1>1, <1>2, <1>6, <2>1, <2>2, <2>5, SizeIs DEF Slots
    <3>2. both[i] = event
      BY <1>10, <2>5
    <3> QED
      BY <1>1, <1>4, <2>2, <2>3, <3>1, <3>2
  <2> QED
    BY <1>2, <2>1, <2>4, <2>5
<1>12. both \in Seq(Event \union {NoEvent})
  BY <1>10
<1>13. long = both
  BY <1>8, <1>10, <1>11, <1>12, SeqEqual
<1> QED
  BY <1>4, <1>5, <1>10, <1>13 DEF RingOK, n, long, both

(* The oldest event is the queue's head.                                   *)
LEMMA TakenShrinks ==
  ASSUME NEW k, RingOK(k), ~IsEmpty(k)
  PROVE  /\ RingOK(WithoutOldest(k)) /\ Oldest(k) \in Event
         /\ Queue(k) = <<Oldest(k)>> \o Queue(WithoutOldest(k))
<1> DEFINE n == WithoutOldest(k)
           b == k.KeyBuf
           w == k.WP
           r == k.RP
           c == Held(k)
           q == Queue(k)
           rest == Queue(n)
           both == <<Oldest(k)>> \o rest
<1>1. k \in Rings /\ w \in Slots /\ r \in Slots /\ b \in [Slots -> Event \union {NoEvent}]
      /\ q \in Seq(Event) /\ w # r
  BY DEF RingOK, Rings, IsEmpty
<1>2. c = (IF r <= w THEN w - r ELSE w - r + KeyBufSize) /\ c \in 0 .. KeyBufSize - 1
  BY <1>1, Between DEF Held
<1>3. /\ c \in 1 .. KeyBufSize - 1 /\ c \in Nat
  <2> HIDE DEF c
  <2> QED
    BY <1>1, <1>2, SizeIs DEF Slots
<1>4. /\ NextSlot(r) = IF r + 1 < KeyBufSize THEN r + 1 ELSE r + 1 - KeyBufSize
      /\ NextSlot(r) \in Slots
  BY <1>1, Around, SizeIs DEF NextSlot
<1>5. n \in Rings /\ n.WP = w /\ n.RP = NextSlot(r) /\ n.KeyBuf = b
  BY <1>1, <1>4 DEF WithoutOldest, Rings
<1>6. Held(n) = c - 1
  <2>1. Held(n) = IF n.RP <= w THEN w - n.RP ELSE w - n.RP + KeyBufSize
    BY <1>1, <1>4, <1>5, Between DEF Held
  <2>2. /\ n.RP = NextSlot(r) /\ w # r
        /\ w \in 0 .. KeyBufSize - 1 /\ r \in 0 .. KeyBufSize - 1
    BY <1>1, <1>5 DEF Slots
  <2> HIDE DEF n, c, w, r
  <2> QED
    BY <1>2, <1>4, <2>1, <2>2, SizeIs
<1>7. /\ Len(q) = c
      /\ \A i \in 1 .. c : q[i] = b[(r + (i - 1)) % KeyBufSize]
  BY <1>1, QueueIs
<1>8. /\ rest \in Seq(Event \union {NoEvent}) /\ Len(rest) = c - 1
      /\ \A i \in 1 .. c - 1 : rest[i] = b[(NextSlot(r) + (i - 1)) % KeyBufSize]
  BY <1>5, <1>6, QueueIs
<1>9. \A i \in 1 .. c : q[i] \in Event
  <2> HIDE DEF q, c
  <2> QED
    BY <1>1, <1>7, ElementOfSeq
<1>10. Oldest(k) = b[r]
  BY DEF Oldest
<1> HIDE DEF n, b, w, r, c, q, rest
<1>11. q[1] = b[r]
  <2>1. r + (1 - 1) = r /\ r % KeyBufSize = r
    BY <1>1, SizeIs DEF Slots
  <2>2. 1 \in 1 .. c
    BY <1>3
  <2> QED
    BY <1>7, <2>1, <2>2
<1>12. b[r] \in Event
  BY <1>3, <1>9, <1>11
<1>13. ASSUME NEW i \in 1 .. c - 1 PROVE rest[i] = q[i + 1]
  <2>1. i - 1 \in 0 .. KeyBufSize /\ i \in 0 .. KeyBufSize /\ i \in Nat /\ i + 1 \in 1 .. c
        /\ (i + 1) - 1 = i
    BY <1>3, SizeIs
  <2>2. (r + i) % KeyBufSize = IF r + i < KeyBufSize THEN r + i ELSE r + i - KeyBufSize
    BY <1>1, <2>1, Around
  <2>3. PICK x \in Slots : x = NextSlot(r)
    BY <1>4
  <2>4. (x + (i - 1)) % KeyBufSize
          = IF x + (i - 1) < KeyBufSize THEN x + (i - 1) ELSE x + (i - 1) - KeyBufSize
    BY <2>1, Around
  <2>5. (x + (i - 1)) % KeyBufSize = (r + i) % KeyBufSize
    BY <1>1, <1>3, <1>4, <2>1, <2>2, <2>3, <2>4, SizeIs DEF Slots
  <2>6. rest[i] = b[(x + (i - 1)) % KeyBufSize]
    BY <1>8, <2>3
  <2>7. q[i + 1] = b[(r + ((i + 1) - 1)) % KeyBufSize]
    BY <1>7, <2>1
  <2> QED
    BY <2>1, <2>5, <2>6, <2>7
<1>14. rest \in Seq(Event)
  <2>1. \A i \in 1 .. c - 1 : rest[i] \in Event
    <3>1. \A i \in 1 .. c - 1 : i + 1 \in 1 .. c
      BY <1>3
    <3> QED
      BY <1>9, <1>13, <3>1
  <2>2. rest \in [1 .. c - 1 -> Event]
    BY <1>8, <2>1, LenProperties
  <2>3. c - 1 \in Nat
    BY <1>3
  <2> QED
    BY <2>2, <2>3
<1>15. /\ both \in Seq(Event) /\ Len(both) = c
       /\ \A i \in 1 .. c : both[i] = IF i <= 1 THEN b[r] ELSE rest[i - 1]
  <2> DEFINE one == <<b[r]>>
  <2>1. one \in Seq(Event) /\ Len(one) = 1 /\ one[1] = b[r]
    BY <1>12
  <2> HIDE DEF one
  <2>2. /\ one \o rest \in Seq(Event) /\ Len(one \o rest) = Len(one) + Len(rest)
        /\ \A i \in 1 .. Len(one) + Len(rest) :
             (one \o rest)[i] = IF i <= Len(one) THEN one[i] ELSE rest[i - Len(one)]
    BY <1>14, <2>1, ConcatProperties
  <2>3. Len(one) + Len(rest) = c
    BY <1>3, <1>8, <2>1
  <2>4. both = one \o rest
    BY <1>10 DEF one
  <2>5. \A i \in 1 .. c : i <= 1 => one[i] = b[r]
    BY <1>3, <2>1
  <2> QED
    BY <2>1, <2>2, <2>3, <2>4, <2>5
<1> HIDE DEF both
<1>16. ASSUME NEW i \in 1 .. c PROVE q[i] = both[i]
  <2>1. CASE i <= 1
    <3>1. i = 1
      BY <1>3, <2>1
    <3> QED
      BY <1>11, <1>15, <3>1
  <2>2. CASE ~(i <= 1)
    <3>1. i - 1 \in 1 .. c - 1 /\ (i - 1) + 1 = i
      BY <1>3, <2>2
    <3> QED
      BY <1>13, <1>15, <2>2, <3>1
  <2> QED
    BY <2>1, <2>2
<1>17. q = both
  BY <1>1, <1>7, <1>15, <1>16, SeqEqual
<1> QED
  BY <1>5, <1>10, <1>12, <1>14, <1>17 DEF RingOK, n, q, both, rest

-----------------------------------------------------------------------------
(* The mouse's motion.                                                     *)

(* What is left of a packet: it is read from its front.                    *)
PacketRest ==
  \/ SCC_Dat = << >>
  \/ SCC_Dat = <<[is |-> "Y"]>>
  \/ \E x \in Counts : SCC_Dat = <<[is |-> "X", x |-> x], [is |-> "Y"]>>
  \/ \E x \in Counts, over \in BOOLEAN :
       SCC_Dat = <<[is |-> "St", over |-> over], [is |-> "X", x |-> x], [is |-> "Y"]>>

SumIsInteger == MouseDX \in Int

MotionInv == SumIsInteger /\ PacketRest /\ MotionIsConserved

(* A count that has been cut to what a byte holds is one a byte holds, and *)
(* one that has not is the whole part of the sum.                          *)
LEMMA CountFits ==
  ASSUME NEW dx \in Int
  PROVE  /\ Mouse_SetData(dx).x \in Counts
         /\ Mouse_SetData(dx).over \in BOOLEAN
         /\ ~Mouse_SetData(dx).over => Mouse_SetData(dx).x = Whole(dx)
<1>1. Whole(dx) \in Int
  BY CountAssumption DEF Whole
<1>2. PICK w \in Int : w = Whole(dx)
  BY <1>1
<1>3. CASE w > Limit
  <2>1. Mouse_SetData(dx) = [x |-> Limit, over |-> TRUE]
    BY <1>2, <1>3, CountAssumption DEF Mouse_SetData
  <2> QED
    BY <2>1, CountAssumption DEF Counts
<1>4. CASE w < -(Limit + 1)
  <2>1. Mouse_SetData(dx) = [x |-> -(Limit + 1), over |-> TRUE]
    BY <1>2, <1>4, CountAssumption DEF Mouse_SetData
  <2> QED
    BY <2>1, CountAssumption DEF Counts
<1>5. CASE ~(w > Limit) /\ ~(w < -(Limit + 1))
  <2>1. Mouse_SetData(dx) = [x |-> w, over |-> FALSE]
    BY <1>2, <1>5, CountAssumption DEF Mouse_SetData
  <2> QED
    BY <1>2, <1>5, <2>1, CountAssumption DEF Counts
<1> QED
  BY <1>3, <1>4, <1>5

(* What a packet in which the count is still to be read holds.             *)
LEMMA InPacketOf ==
  /\ SCC_Dat = << >> => InPacket = 0
  /\ SCC_Dat = <<[is |-> "Y"]>> => InPacket = 0
  /\ \A x \in Counts :
       SCC_Dat = <<[is |-> "X", x |-> x], [is |-> "Y"]>> => InPacket = Unit * x
  /\ \A x \in Counts, over \in BOOLEAN :
       SCC_Dat = <<[is |-> "St", over |-> over], [is |-> "X", x |-> x], [is |-> "Y"]>>
         => InPacket = Unit * x
<1>1. ASSUME SCC_Dat = << >> \/ SCC_Dat = <<[is |-> "Y"]>> PROVE InPacket = 0
  BY <1>1 DEF InPacket
<1>2. ASSUME NEW x \in Counts, SCC_Dat = <<[is |-> "X", x |-> x], [is |-> "Y"]>>
      PROVE  InPacket = Unit * x
  <2>1. Len(SCC_Dat) = 2 /\ SCC_Dat[1].x = x
    BY <1>2
  <2> QED
    BY <2>1 DEF InPacket
<1>3. ASSUME NEW x \in Counts, NEW over \in BOOLEAN,
             SCC_Dat = <<[is |-> "St", over |-> over], [is |-> "X", x |-> x], [is |-> "Y"]>>
      PROVE  InPacket = Unit * x
  <2>1. Len(SCC_Dat) = 3 /\ SCC_Dat[2].x = x
    BY <1>3
  <2> QED
    BY <2>1 DEF InPacket
<1> QED
  BY <1>1, <1>2, <1>3

LEMMA InPacketNext ==
  /\ SCC_Dat' = << >> => InPacket' = 0
  /\ SCC_Dat' = <<[is |-> "Y"]>> => InPacket' = 0
  /\ \A x \in Counts :
       SCC_Dat' = <<[is |-> "X", x |-> x], [is |-> "Y"]>> => InPacket' = Unit * x
  /\ \A x \in Counts, over \in BOOLEAN :
       SCC_Dat' = <<[is |-> "St", over |-> over], [is |-> "X", x |-> x], [is |-> "Y"]>>
         => InPacket' = Unit * x
<1>1. ASSUME SCC_Dat' = << >> \/ SCC_Dat' = <<[is |-> "Y"]>> PROVE InPacket' = 0
  BY <1>1 DEF InPacket
<1>2. ASSUME NEW x \in Counts, SCC_Dat' = <<[is |-> "X", x |-> x], [is |-> "Y"]>>
      PROVE  InPacket' = Unit * x
  <2>1. Len(SCC_Dat') = 2 /\ SCC_Dat'[1].x = x
    BY <1>2
  <2> QED
    BY <2>1 DEF InPacket
<1>3. ASSUME NEW x \in Counts, NEW over \in BOOLEAN,
             SCC_Dat' = <<[is |-> "St", over |-> over], [is |-> "X", x |-> x], [is |-> "Y"]>>
      PROVE  InPacket' = Unit * x
  <2>1. Len(SCC_Dat') = 3 /\ SCC_Dat'[2].x = x
    BY <1>3
  <2> QED
    BY <2>1 DEF InPacket
<1> QED
  BY <1>1, <1>2, <1>3

(* A step that leaves the sum, the packet and the history alone.           *)
LEMMA Untouched ==
  ASSUME MotionInv, UNCHANGED <<MouseDX, SCC_Dat, owed>>
  PROVE  MotionInv'
  BY DEF MotionInv, SumIsInteger, PacketRest, MotionIsConserved, InPacket

(* A sample moves the whole counts of the sum into an empty packet.        *)
LEMMA SampleConserves ==
  ASSUME MotionInv, NEW port, NEW value, SCC_Write(port, value), Samples(port, value)
  PROVE  MotionInv'
<1> DEFINE data == Mouse_SetData(MouseDX)
<1>1. MouseDX \in Int /\ SCC_Dat = << >> /\ owed = MouseDX
  BY InPacketOf DEF MotionInv, SumIsInteger, MotionIsConserved, Samples
<1>2. /\ data.x \in Counts /\ data.over \in BOOLEAN
      /\ ~data.over => data.x = Whole(MouseDX)
  BY <1>1, CountFits
<1>3. /\ SCC_Dat' = Packet(data) /\ MouseDX' = 0
      /\ owed' = IF data.over THEN Unit * data.x
                 ELSE owed - (MouseDX - Unit * Whole(MouseDX))
  BY DEF SCC_Write
<1> HIDE DEF data
<1>4. SCC_Dat' = <<[is |-> "St", over |-> data.over], [is |-> "X", x |-> data.x], [is |-> "Y"]>>
  BY <1>3 DEF Packet
<1>5. InPacket' = Unit * data.x
  BY <1>2, <1>4, InPacketNext
<1>6. PacketRest'
  BY <1>2, <1>4 DEF PacketRest, Counts
<1>7. owed' = Unit * data.x
  <2>1. CASE data.over
    BY <1>3, <2>1
  <2>2. CASE ~data.over
    <3>1. PICK u \in Int : u = Unit * data.x
      BY <1>2, CountAssumption DEF Counts
    <3>2. owed' = owed - (MouseDX - u)
      BY <1>2, <1>3, <2>2, <3>1
    <3> QED
      BY <1>1, <3>1, <3>2
  <2> QED
    BY <2>1, <2>2
<1>8. Unit * data.x \in Int
  BY <1>2, CountAssumption DEF Counts
<1> QED
  BY <1>3, <1>5, <1>6, <1>7, <1>8 DEF MotionInv, SumIsInteger, MotionIsConserved

(* A byte read is the packet's first, and its count, if it is the count,   *)
(* is no longer owed.                                                      *)
LEMMA ReadConserves ==
  ASSUME MotionInv, ReadData
  PROVE  MotionInv'
<1> USE DEF MotionInv, SumIsInteger, MotionIsConserved
<1>1. CASE SCC_Dat = << >>
  BY <1>1, Untouched DEF ReadData
<1>2. CASE SCC_Dat # << >>
  <2>1. /\ SCC_Dat' = Tail(SCC_Dat) /\ MouseDX' = MouseDX
        /\ owed' = IF Head(SCC_Dat).is = "X" THEN owed - Unit * Head(SCC_Dat).x ELSE owed
    BY <1>2 DEF ReadData
  <2>2. CASE SCC_Dat = <<[is |-> "Y"]>>
    <3>1. SCC_Dat' = << >> /\ owed' = owed
      BY <2>1, <2>2
    <3> QED
      BY <2>1, <2>2, <3>1, InPacketOf, InPacketNext DEF PacketRest
  <2>3. ASSUME NEW x \in Counts, SCC_Dat = <<[is |-> "X", x |-> x], [is |-> "Y"]>>
        PROVE  MotionInv'
    <3>1. SCC_Dat' = <<[is |-> "Y"]>> /\ owed' = owed - Unit * x
      BY <2>1, <2>3
    <3>2. InPacket = Unit * x /\ InPacket' = 0
      BY <2>3, <3>1, InPacketOf, InPacketNext
    <3>3. Unit * x \in Int
      BY CountAssumption DEF Counts
    <3>4. PacketRest'
      BY <3>1 DEF PacketRest
    <3> QED
      BY <2>1, <3>1, <3>2, <3>3, <3>4
  <2>4. ASSUME NEW x \in Counts, NEW over \in BOOLEAN,
               SCC_Dat = <<[is |-> "St", over |-> over], [is |-> "X", x |-> x], [is |-> "Y"]>>
        PROVE  MotionInv'
    <3>1. SCC_Dat' = <<[is |-> "X", x |-> x], [is |-> "Y"]>> /\ owed' = owed
      BY <2>1, <2>4
    <3>2. InPacket = Unit * x /\ InPacket' = Unit * x
      BY <2>4, <3>1, InPacketOf, InPacketNext
    <3>3. PacketRest'
      BY <3>1 DEF PacketRest, Counts
    <3> QED
      BY <2>1, <3>1, <3>2, <3>3
  <2> QED
    BY <1>2, <2>2, <2>3, <2>4 DEF PacketRest
<1> QED
  BY <1>1, <1>2

LEMMA InitConserves == Init => MotionInv
<1> SUFFICES ASSUME Init PROVE MotionInv
  OBVIOUS
<1>1. MouseDX = 0 /\ SCC_Dat = << >> /\ owed = 0
  BY DEF Init
<1> QED
  BY <1>1, InPacketOf DEF MotionInv, SumIsInteger, PacketRest, MotionIsConserved

LEMMA NextConserves == MotionInv /\ [Next]_vars => MotionInv'
<1> SUFFICES ASSUME MotionInv, [Next]_vars PROVE MotionInv'
  OBVIOUS
<1>1. CASE Reset
  <2>1. MouseDX' = MouseDX /\ SCC_Dat' = << >> /\ owed' = MouseDX
    BY <1>1 DEF Reset
  <2> QED
    BY <2>1, InPacketNext DEF MotionInv, SumIsInteger, PacketRest, MotionIsConserved
<1>2. ASSUME NEW dx \in Motion, Mouse_Event(dx) PROVE MotionInv'
  <2>1. dx \in Int /\ MouseDX' = MouseDX + dx /\ owed' = owed + dx /\ SCC_Dat' = SCC_Dat
    BY <1>2, MotionAssumption DEF Mouse_Event
  <2>2. InPacket' = InPacket /\ (PacketRest => PacketRest')
    BY <2>1 DEF InPacket, PacketRest
  <2>3. InPacket \in Int
    BY InPacketOf, CountAssumption DEF MotionInv, PacketRest, Counts
  <2> QED
    BY <2>1, <2>2, <2>3 DEF MotionInv, SumIsInteger, MotionIsConserved
<1>3. CASE SCC_IntCheck
  BY <1>3, Untouched DEF SCC_IntCheck
<1>4. ASSUME NEW port \in Ports, NEW reg \in Regs, Point(port, reg) PROVE MotionInv'
  BY <1>4, Untouched DEF Point
<1>5. ASSUME NEW port \in Ports, NEW value, SCC_Write(port, value) PROVE MotionInv'
  <2>1. CASE Samples(port, value)
    BY <1>5, <2>1, SampleConserves
  <2>2. CASE ~Samples(port, value)
    BY <1>5, <2>2, Untouched DEF SCC_Write
  <2> QED
    BY <2>1, <2>2
<1>6. ASSUME NEW port \in Ports, ReadStatus(port) PROVE MotionInv'
  BY <1>6, Untouched DEF ReadStatus
<1>7. CASE ReadData
  BY <1>7, ReadConserves
<1>8. CASE CpuAccept
  BY <1>8, Untouched DEF CpuAccept
<1>9. CASE EndService
  BY <1>9, Untouched DEF EndService
<1>10. ASSUME NEW m \in {0, 7}, SetMask(m) PROVE MotionInv'
  BY <1>10, Untouched DEF SetMask
<1>11. CASE UNCHANGED vars
  BY <1>11, Untouched DEF vars
<1> QED
  BY <1>1, <1>2, <1>3, <1>4, <1>5, <1>6, <1>7, <1>8, <1>9, <1>10, <1>11 DEF Next

-----------------------------------------------------------------------------
(* The inductive invariant.                                                *)
CpuOK == irqh \in IrqhStates /\ flag_I \in 0 .. 7 /\ serving \in {"no", "entered", "read"}

RegsOK ==
  /\ SCC_Regs \in [Regs -> Values(1) \union BOOLEAN] /\ \A r \in Regs : SCC_Regs[r] \in Values(r)
  /\ SCC_RegNum \in [Ports -> Regs \union {NoReg}]

MouseInv == MotionInv /\ MouseDX \in Sums /\ RegsOK

KeysInv ==
  /\ Keys!MFP_TypeOK /\ RingOK(ring)
  /\ LastKey \in Event \union {NoEvent} /\ KeyIntFlag \in BOOLEAN
  /\ KeyIntFlag => LastKey \in Event
  /\ withdrawn \in BOOLEAN /\ last \in Event \union {NoEvent, Keys!Lost}

IInv == CpuOK /\ MouseInv /\ KeysInv

(* No event is no key event.                                               *)
LEMMA NoEventIsNone == NoEvent \notin Event \union {Keys!Lost}
  BY CodeAssumption DEF NoEvent, Event, Keys!Lost

LEMMA PacketTypes ==
  ASSUME PacketRest
  PROVE  Len(SCC_Dat) <= 3 /\ \A i \in DOMAIN SCC_Dat : SCC_Dat[i] \in Bytes
<1>1. /\ [is |-> "Y"] \in Bytes
      /\ \A x \in Counts : [is |-> "X", x |-> x] \in Bytes
      /\ \A over \in BOOLEAN : [is |-> "St", over |-> over] \in Bytes
  BY DEF Bytes
<1>2. CASE SCC_Dat = << >>
  BY <1>2
<1>3. CASE SCC_Dat = <<[is |-> "Y"]>>
  BY <1>1, <1>3
<1>4. ASSUME NEW x \in Counts, SCC_Dat = <<[is |-> "X", x |-> x], [is |-> "Y"]>>
      PROVE  Len(SCC_Dat) <= 3 /\ \A i \in DOMAIN SCC_Dat : SCC_Dat[i] \in Bytes
  BY <1>1, <1>4
<1>5. ASSUME NEW x \in Counts, NEW over \in BOOLEAN,
             SCC_Dat = <<[is |-> "St", over |-> over], [is |-> "X", x |-> x], [is |-> "Y"]>>
      PROVE  Len(SCC_Dat) <= 3 /\ \A i \in DOMAIN SCC_Dat : SCC_Dat[i] \in Bytes
  BY <1>1, <1>5
<1> QED
  BY <1>2, <1>3, <1>4, <1>5 DEF PacketRest

LEMMA InvImpliesTypes == IInv => TypesOK
<1> SUFFICES ASSUME IInv PROVE TypesOK
  OBVIOUS
<1>1. TypeOK
  BY PacketTypes DEF IInv, CpuOK, MouseInv, MotionInv, RegsOK, TypeOK
<1>2. Keys!TypeOK
  <2>1. irqh \in Keys!IrqhStates /\ Keys!MFP_TypeOK /\ ring \in Keys!Rings
    BY SameHandler, SameRing DEF IInv, CpuOK, KeysInv, RingOK
  <2>2. LastKey \in Keys!Event \union {Keys!NoEvent} /\ KeyIntFlag \in BOOLEAN
    BY SameRing DEF IInv, KeysInv
  <2>3. KeyIntFlag => LastKey # Keys!NoEvent
    BY SameRing, NoEventIsNone DEF IInv, KeysInv
  <2>4. withdrawn \in BOOLEAN /\ last \in Keys!Event \union {Keys!NoEvent, Keys!Lost}
    BY SameRing DEF IInv, KeysInv
  <2> QED
    BY <2>1, <2>2, <2>3, <2>4 DEF IInv, CpuOK, Keys!TypeOK
<1> QED
  BY <1>1, <1>2 DEF TypesOK

LEMMA InitHolds == LinesInit => IInv
<1> SUFFICES ASSUME LinesInit PROVE IInv
  OBVIOUS
<1>1. Init /\ Keys!Init
  BY DEF LinesInit
<1>2. CpuOK
  <2>1. IRQH_Start \in IrqhStates
    BY DEF IRQH_Start, IrqhStates
  <2> QED
    BY <1>1, <2>1 DEF Init, CpuOK
<1>3. RegsOK
  BY <1>1 DEF Init, RegsOK, Values, Regs, Ports
<1>4. MouseDX \in Sums
  BY <1>1, MotionAssumption DEF Init
<1>5. Keys!MFP_TypeOK
  BY <1>1 DEF Keys!Init, Keys!MFP_Init, Keys!MFP_InitEnabled, Keys!MFP_TypeOK
<1>6. RingOK(ring)
  <2>1. ring = EmptyRing /\ << >> \in Seq(Event)
    BY <1>1, SameRing DEF Keys!Init
  <2> QED
    BY <2>1, EmptyQueue DEF RingOK
<1>7. KeysInv
  BY <1>1, <1>5, <1>6, SameRing DEF Keys!Init, KeysInv
<1> QED
  BY <1>1, <1>2, <1>3, <1>4, <1>7, InitConserves DEF IInv, MouseInv

(* A step of the mouse's line.                                             *)
LEMMA MouseKeeps ==
  ASSUME CpuOK, MouseInv, Next
  PROVE  CpuOK' /\ MouseInv'
<1> USE DEF MouseInv
<1>1. MotionInv'
  BY NextConserves
<1>2. CASE Reset
  <2>1. CpuOK'
    BY <1>2, StateAgain DEF Reset, CpuOK
  <2>2. RegsOK' /\ MouseDX' \in Sums
    BY <1>2 DEF Reset, RegsOK
  <2> QED
    BY <1>1, <2>1, <2>2
<1>3. ASSUME NEW dx \in Motion, Mouse_Event(dx) PROVE CpuOK' /\ MouseInv'
  BY <1>1, <1>3 DEF Mouse_Event, cpuVars, CpuOK, RegsOK
<1>4. CASE SCC_IntCheck
  <2>1. SccLevel \in Levels /\ "SCC" \in Handlers
    BY DEF SccLevel, Levels, Handlers
  <2>2. irqh' \in IrqhStates
    BY <1>4, <2>1, StateAgain DEF SCC_IntCheck, CpuOK
  <2> QED
    BY <1>1, <1>4, <2>2 DEF SCC_IntCheck, cpuVars, CpuOK, RegsOK
<1>5. ASSUME NEW port \in Ports, NEW reg \in Regs, Point(port, reg) PROVE CpuOK' /\ MouseInv'
  BY <1>1, <1>5 DEF Point, cpuVars, CpuOK, RegsOK
<1>6. ASSUME NEW port \in Ports, SCC_RegNum[port] # NoReg,
             NEW value \in Values(SCC_RegNum[port]), SCC_Write(port, value)
      PROVE  CpuOK' /\ MouseInv'
  <2>1. CpuOK'
    BY <1>6 DEF SCC_Write, cpuVars, CpuOK
  <2>2. MouseDX' \in Sums
    BY <1>6, MotionAssumption DEF SCC_Write
  <2>3. RegsOK'
    <3>1. PICK reg \in Regs : reg = SCC_RegNum[port]
      BY <1>6 DEF RegsOK
    <3>2. SCC_Regs' = [SCC_Regs EXCEPT ![reg] = value] /\ value \in Values(reg)
      BY <1>6, <3>1 DEF SCC_Write
    <3>3. value \in Values(1) \union BOOLEAN
      BY <3>1, <3>2 DEF Values
    <3>4. SCC_Regs \in [Regs -> Values(1) \union BOOLEAN]
          /\ \A r \in Regs : SCC_Regs[r] \in Values(r)
      BY DEF RegsOK
    <3>5. SCC_Regs' \in [Regs -> Values(1) \union BOOLEAN]
          /\ \A r \in Regs : SCC_Regs'[r] \in Values(r)
      BY <3>1, <3>2, <3>3, <3>4
    <3>6. SCC_RegNum' \in [Ports -> Regs \union {NoReg}]
      BY <1>6 DEF SCC_Write, RegsOK
    <3> QED
      BY <3>5, <3>6 DEF RegsOK
  <2> QED
    BY <1>1, <2>1, <2>2, <2>3
<1>7. ASSUME NEW port \in Ports, ReadStatus(port) PROVE CpuOK' /\ MouseInv'
  BY <1>1, <1>7 DEF ReadStatus, cpuVars, CpuOK, RegsOK
<1>8. CASE ReadData
  BY <1>1, <1>8 DEF ReadData, CpuOK, RegsOK
<1>9. CASE CpuAccept
  <2>1. SccLevel \in Levels /\ SccLevel \in 0 .. 7
    BY DEF SccLevel, Levels
  <2>2. CpuAcknowledges(irqh) \in IrqhStates
    BY StateAgain DEF CpuOK
  <2>3. IRQH_IRQCallBack(CpuAcknowledges(irqh), SccLevel) \in IrqhStates
    BY <2>1, <2>2, StateAgain
  <2>4. irqh' \in IrqhStates
    BY <1>9, <2>3, StateAgain DEF CpuAccept
  <2> QED
    BY <1>1, <1>9, <2>1, <2>4 DEF CpuAccept, CpuOK, RegsOK
<1>10. CASE EndService
  BY <1>1, <1>10 DEF EndService, CpuOK, RegsOK
<1>11. ASSUME NEW m \in {0, 7}, SetMask(m) PROVE CpuOK' /\ MouseInv'
  BY <1>1, <1>11 DEF SetMask, CpuOK, RegsOK
<1> QED
  BY <1>2, <1>3, <1>4, <1>5, <1>6, <1>7, <1>8, <1>9, <1>10, <1>11 DEF Next

(* What each step of the keyboard's line does to the ring and the data      *)
(* register.                                                               *)
LineOK ==
  /\ RingOK(ring)
  /\ LastKey \in Event \union {NoEvent} /\ KeyIntFlag \in BOOLEAN
  /\ KeyIntFlag => LastKey \in Event
  /\ withdrawn \in BOOLEAN /\ last \in Event \union {NoEvent, Keys!Lost}

LEMMA KeysInvIs == KeysInv <=> Keys!MFP_TypeOK /\ LineOK
  BY DEF KeysInv, LineOK

LEMMA KeysInvNext == KeysInv' <=> Keys!MFP_TypeOK' /\ LineOK'
  BY DEF KeysInv, LineOK

(* An event is sent: it waits at the end, or is lost for want of room.     *)
LEMMA SendKeeps ==
  ASSUME LineOK, NEW event \in Event, Keys!send_keycode(event)
  PROVE  /\ LineOK'
         /\ \/ /\ Keys!Waiting' = Append(Keys!Waiting, event)
               /\ last' = last
            \/ /\ Len(Keys!Waiting) >= KeyBufSize - 1 /\ last' = Keys!Lost
               /\ Keys!Waiting' = Keys!Waiting
<1>1. /\ ring' = Queued(ring, event)
      /\ last' = IF ring' = ring THEN Keys!Lost ELSE last
      /\ UNCHANGED <<LastKey, KeyIntFlag, withdrawn>>
  BY SameRing DEF Keys!send_keycode
<1>2. PICK front \in Seq(Event) :
        /\ Keys!Waiting = front \o Queue(ring) /\ Keys!Waiting' = front \o Queue(ring')
        /\ Len(front) \in Nat
  <2> DEFINE f == IF KeyIntFlag THEN <<LastKey>> ELSE << >>
  <2>1. f \in Seq(Event)
    BY DEF LineOK
  <2>2. Keys!Waiting = f \o Queue(ring) /\ Keys!Waiting' = f \o Queue(ring')
    BY <1>1, SameRing DEF Keys!Waiting
  <2> HIDE DEF f
  <2>3. Len(f) \in Nat
    BY <2>1, LenProperties
  <2> QED
    BY <2>1, <2>2, <2>3
<1>3. Queue(ring) \in Seq(Event) /\ ring \in Rings /\ RingOK(ring)
  BY DEF LineOK, RingOK
<1>4. CASE NextSlot(ring.WP) = ring.RP
  <2>1. ring' = ring /\ last' = Keys!Lost
    BY <1>1, <1>4 DEF Queued
  <2>2. Len(Queue(ring)) = KeyBufSize - 1
    BY <1>3, <1>4, FullIs, QueueIs
  <2>3. Len(Keys!Waiting) = Len(front) + Len(Queue(ring))
    BY <1>2, <1>3, ConcatProperties
  <2>4. Len(Keys!Waiting) >= KeyBufSize - 1
    BY <1>2, <2>2, <2>3, SizeIs
  <2> QED
    BY <1>1, <1>2, <2>1, <2>4 DEF LineOK
<1>5. CASE NextSlot(ring.WP) # ring.RP
  <2>1. RingOK(ring') /\ ring' # ring /\ Queue(ring') = Append(Queue(ring), event)
    BY <1>1, <1>3, <1>5, QueuedGrows
  <2>2. front \o Append(Queue(ring), event) = Append(front \o Queue(ring), event)
    <3>1. Append(Queue(ring), event) = Queue(ring) \o <<event>>
      BY <1>3, AppendIsConcat
    <3>2. <<event>> \in Seq(Event) /\ front \o Queue(ring) \in Seq(Event)
      BY <1>3, ConcatProperties
    <3>3. front \o (Queue(ring) \o <<event>>) = (front \o Queue(ring)) \o <<event>>
      BY <1>3, <3>2, ConcatAssociative
    <3>4. (front \o Queue(ring)) \o <<event>> = Append(front \o Queue(ring), event)
      BY <3>2, AppendIsConcat
    <3> QED
      BY <3>1, <3>3, <3>4
  <2> QED
    BY <1>1, <1>2, <2>1, <2>2 DEF LineOK
<1> QED
  BY <1>4, <1>5

(* The oldest event goes from the ring into the data register; it waits    *)
(* there as it did before.                                                 *)
LEMMA KeyboardIntKeeps ==
  ASSUME LineOK, Keys!Keyboard_Int
  PROVE  LineOK' /\ Keys!Waiting' = Keys!Waiting /\ last' = last
<1>1. CASE ~IsEmpty(ring) /\ ~KeyIntFlag
  <2>1. /\ LastKey' = Oldest(ring) /\ ring' = WithoutOldest(ring) /\ KeyIntFlag' = TRUE
        /\ withdrawn' = (Keys!KeyChannel \notin IER) /\ last' = last
    BY <1>1, SameRing DEF Keys!Keyboard_Int
  <2>2. /\ RingOK(ring') /\ LastKey' \in Event
        /\ Queue(ring) = <<LastKey'>> \o Queue(ring')
    BY <1>1, <2>1, TakenShrinks DEF LineOK
  <2>3. Keys!Waiting' = <<LastKey'>> \o Queue(ring')
    BY <2>1, SameRing DEF Keys!Waiting
  <2>4. Keys!Waiting = Queue(ring)
    <3>1. Keys!Waiting = << >> \o Queue(ring)
      BY <1>1, SameRing DEF Keys!Waiting
    <3>2. Queue(ring) \in Seq(Event)
      BY DEF LineOK, RingOK
    <3> QED
      BY <3>1, <3>2, ConcatEmptySeq
  <2> QED
    BY <2>1, <2>2, <2>3, <2>4 DEF LineOK
<1>2. CASE ~(~IsEmpty(ring) /\ ~KeyIntFlag)
  <2>1. /\ LastKey' = IF IsEmpty(ring) /\ ~KeyIntFlag THEN NoEvent ELSE LastKey
        /\ UNCHANGED <<ring, KeyIntFlag, withdrawn, last>>
    BY <1>2, SameRing DEF Keys!Keyboard_Int
  <2>2. KeyIntFlag => LastKey' = LastKey
    BY <2>1
  <2> QED
    BY <2>1, <2>2 DEF LineOK, Keys!Waiting
<1> QED
  BY <1>1, <1>2

(* What follows the first event of a queue.                                *)
LEMMA HeadTailOfCons ==
  ASSUME NEW x \in Event, NEW q \in Seq(Event)
  PROVE  <<x>> \o q # << >> /\ Head(<<x>> \o q) = x /\ Tail(<<x>> \o q) = q
<1> DEFINE one == <<x>>
           both == one \o q
<1>1. one \in Seq(Event) /\ Len(one) = 1 /\ one[1] = x
  OBVIOUS
<1> HIDE DEF one
<1>2. /\ both \in Seq(Event) /\ Len(both) = 1 + Len(q) /\ Len(q) \in Nat
      /\ \A i \in 1 .. 1 + Len(q) : both[i] = IF i <= 1 THEN one[i] ELSE q[i - 1]
  <2>1. /\ one \o q \in Seq(Event) /\ Len(one \o q) = Len(one) + Len(q)
        /\ \A i \in 1 .. Len(one) + Len(q) :
             (one \o q)[i] = IF i <= Len(one) THEN one[i] ELSE q[i - Len(one)]
    BY <1>1, ConcatProperties
  <2>2. Len(q) \in Nat
    BY LenProperties
  <2> QED
    BY <1>1, <2>1, <2>2
<1> HIDE DEF both
<1>3. both # << >> /\ both[1] = x
  BY <1>1, <1>2
<1>4. Head(both) = x
  BY <1>2, <1>3, HeadTailProperties
<1>5. /\ Tail(both) \in Seq(Event) /\ Len(Tail(both)) = Len(q)
      /\ \A i \in 1 .. Len(q) : Tail(both)[i] = both[i + 1]
  BY <1>2, <1>3, HeadTailProperties
<1>6. \A i \in 1 .. Len(q) : Tail(both)[i] = q[i]
  <2> SUFFICES ASSUME NEW i \in 1 .. Len(q) PROVE both[i + 1] = q[i]
    BY <1>5
  <2>1. i + 1 \in 1 .. 1 + Len(q) /\ ~(i + 1 <= 1) /\ (i + 1) - 1 = i
    BY <1>2
  <2> QED
    BY <1>2, <2>1
<1>7. Tail(both) = q
  BY <1>5, <1>6, SeqEqual
<1> QED
  BY <1>3, <1>4, <1>7 DEF both, one

(* The event in the data register is read: the first that waits.           *)
LEMMA ReadKeeps ==
  ASSUME LineOK, Keys!ReadUDR
  PROVE  /\ LineOK'
         /\ \/ /\ Keys!Waiting # << >> /\ Keys!Waiting' = Tail(Keys!Waiting)
               /\ last' = Head(Keys!Waiting)
            \/ Keys!Waiting' = Keys!Waiting /\ last' = last
<1>1. /\ KeyIntFlag' = FALSE /\ last' = IF KeyIntFlag THEN LastKey ELSE last
      /\ withdrawn' = FALSE /\ UNCHANGED <<ring, LastKey>>
  BY DEF Keys!ReadUDR
<1>2. LineOK'
  BY <1>1 DEF LineOK
<1>3. Queue(ring) \in Seq(Event)
  BY DEF LineOK, RingOK
<1>4. Keys!Waiting' = Queue(ring)
  <2>1. Keys!Waiting' = << >> \o Queue(ring)
    BY <1>1, SameRing DEF Keys!Waiting
  <2> QED
    BY <1>3, <2>1, ConcatEmptySeq
<1>5. CASE KeyIntFlag
  <2>1. Keys!Waiting = <<LastKey>> \o Queue(ring) /\ LastKey \in Event /\ last' = LastKey
    BY <1>1, <1>5, SameRing DEF Keys!Waiting, LineOK
  <2>2. /\ <<LastKey>> \o Queue(ring) # << >>
        /\ Head(<<LastKey>> \o Queue(ring)) = LastKey
        /\ Tail(<<LastKey>> \o Queue(ring)) = Queue(ring)
    BY <1>3, <2>1, HeadTailOfCons
  <2> QED
    BY <1>2, <1>4, <2>1, <2>2
<1>6. CASE ~KeyIntFlag
  <2>1. Keys!Waiting = << >> \o Queue(ring)
    BY <1>6, SameRing DEF Keys!Waiting
  <2>2. Keys!Waiting = Queue(ring)
    BY <1>3, <2>1, ConcatEmptySeq
  <2> QED
    BY <1>1, <1>2, <1>4, <1>6, <2>2
<1> QED
  BY <1>5, <1>6

LEMMA ResetKeeps ==
  ASSUME LineOK, Keys!Reset
  PROVE  LineOK' /\ Keys!Waiting' = << >> /\ last' = last
<1>1. /\ ring' = EmptyRing /\ KeyIntFlag' = FALSE /\ withdrawn' = FALSE
      /\ UNCHANGED <<LastKey, last>>
  BY SameRing DEF Keys!Reset
<1>2. << >> \in Seq(Event) /\ << >> \o << >> = << >>
  OBVIOUS
<1>3. RingOK(ring') /\ Queue(ring') = << >>
  BY <1>1, <1>2, EmptyQueue DEF RingOK
<1>4. Keys!Waiting' = << >>
  BY <1>1, <1>2, <1>3, SameRing DEF Keys!Waiting
<1> QED
  BY <1>1, <1>3, <1>4 DEF LineOK

(* The steps of the CPU and of the MFP's registers leave the ring and the  *)
(* data register alone.                                                    *)
LEMMA OthersKeep ==
  ASSUME LineOK, UNCHANGED <<Keys!keyVars, last>>, withdrawn' \in BOOLEAN
  PROVE  LineOK' /\ Keys!Waiting' = Keys!Waiting /\ last' = last
  BY DEF LineOK, Keys!keyVars, Keys!Waiting

(* A step of the keyboard's line is one of the queue, or changes nothing   *)
(* that it shows.                                                          *)
KeyStep == [Keys!Abstract!Next]_<<Keys!Waiting, last>>

LEMMA KeysKeep ==
  ASSUME CpuOK, KeysInv, Keys!Next
  PROVE  CpuOK' /\ KeysInv' /\ KeyStep
<1>1. MfpOK /\ LineOK
  BY KeysInvIs DEF CpuOK, MfpOK
<1>2. (MfpOK' /\ LineOK' /\ flag_I' \in 0 .. 7 /\ serving' \in {"no", "entered", "read"})
      => CpuOK' /\ KeysInv'
  BY KeysInvNext DEF CpuOK, MfpOK
<1>3. flag_I \in 0 .. 7 /\ serving \in {"no", "entered", "read"}
  BY DEF CpuOK
<1>4. Keys!Waiting' = Keys!Waiting /\ last' = last => KeyStep
  BY DEF KeyStep
<1>5. CASE Keys!Reset
  <2>1. MfpOK'
    BY <1>1, <1>5, MfpResets DEF Keys!Reset
  <2>2. LineOK' /\ Keys!Waiting' = << >> /\ last' = last
    BY <1>1, <1>5, ResetKeeps
  <2>3. Keys!Abstract!Reset
    BY <2>2 DEF Keys!Abstract!Reset
  <2>4. KeyStep
    BY <2>3 DEF KeyStep, Keys!Abstract!Next
  <2> QED
    BY <1>2, <1>5, <2>1, <2>2, <2>4 DEF Keys!Reset
<1>6. ASSUME NEW event \in Event, Keys!send_keycode(event) PROVE CpuOK' /\ KeysInv' /\ KeyStep
  <2>1. MfpOK'
    BY <1>1, <1>6 DEF Keys!send_keycode, Keys!mfpVars, MfpOK, Keys!MFP_TypeOK
  <2>2. /\ LineOK'
        /\ \/ Keys!Abstract!Send(event)
           \/ Keys!Abstract!Lose
    BY <1>1, <1>6, SendKeeps DEF Keys!Abstract!Send, Keys!Abstract!Lose
  <2>3. KeyStep
    BY <2>2, SameRing DEF KeyStep, Keys!Abstract!Next
  <2> QED
    BY <1>2, <1>3, <1>6, <2>1, <2>2, <2>3 DEF Keys!send_keycode
<1>7. CASE Keys!Keyboard_Int
  <2>1. MfpOK'
    <3>1. CASE Keys!MFP_Int({Keys!KeyChannel})
      BY <1>1, <3>1, MfpRequests
    <3>2. CASE UNCHANGED <<irqh, Keys!mfpVars>>
      BY <1>1, <3>2 DEF Keys!mfpVars, MfpOK, Keys!MFP_TypeOK
    <3> QED
      BY <1>7, <3>1, <3>2 DEF Keys!Keyboard_Int
  <2>2. LineOK' /\ Keys!Waiting' = Keys!Waiting /\ last' = last
    BY <1>1, <1>7, KeyboardIntKeeps
  <2> QED
    BY <1>2, <1>3, <1>4, <1>7, <2>1, <2>2 DEF Keys!Keyboard_Int
<1>8. CASE Keys!ReadUDR
  <2>1. MfpOK'
    BY <1>1, <1>8 DEF Keys!ReadUDR, Keys!mfpVars, MfpOK, Keys!MFP_TypeOK
  <2>2. /\ LineOK'
        /\ \/ Keys!Abstract!Read
           \/ Keys!Waiting' = Keys!Waiting /\ last' = last
    BY <1>1, <1>8, ReadKeeps DEF Keys!Abstract!Read
  <2>3. KeyStep
    BY <2>2 DEF KeyStep, Keys!Abstract!Next
  <2>4. serving' \in {"no", "entered", "read"} /\ flag_I' = flag_I
    BY <1>3, <1>8 DEF Keys!ReadUDR
  <2> QED
    BY <1>2, <1>3, <2>1, <2>2, <2>3, <2>4
<1>9. CASE Keys!ProgramWritesMfp
  <2>1. MfpOK'
    BY <1>1, <1>9, MfpWritten DEF Keys!ProgramWritesMfp
  <2>2. withdrawn' \in BOOLEAN
    BY <1>1, <1>9 DEF Keys!ProgramWritesMfp, LineOK
  <2>3. LineOK' /\ Keys!Waiting' = Keys!Waiting /\ last' = last
    BY <1>1, <1>9, <2>2, OthersKeep DEF Keys!ProgramWritesMfp
  <2> QED
    BY <1>2, <1>3, <1>4, <1>9, <2>1, <2>3 DEF Keys!ProgramWritesMfp
<1>10. ASSUME NEW seoi \in BOOLEAN, Keys!ProgramWritesVR(seoi)
       PROVE  CpuOK' /\ KeysInv' /\ KeyStep
  <2>1. MfpOK'
    BY <1>1, <1>10 DEF Keys!ProgramWritesVR, Keys!WriteVR, MfpOK, Keys!MFP_TypeOK
  <2>2. LineOK' /\ Keys!Waiting' = Keys!Waiting /\ last' = last
    BY <1>1, <1>10, OthersKeep DEF Keys!ProgramWritesVR, Keys!historyVars, LineOK
  <2> QED
    BY <1>2, <1>3, <1>4, <1>10, <2>1, <2>2 DEF Keys!ProgramWritesVR
<1>11. ASSUME NEW m \in {0, 7}, Keys!SetMask(m) PROVE CpuOK' /\ KeysInv' /\ KeyStep
  <2>1. MfpOK'
    BY <1>1, <1>11 DEF Keys!SetMask, Keys!mfpVars, MfpOK, Keys!MFP_TypeOK
  <2>2. LineOK' /\ Keys!Waiting' = Keys!Waiting /\ last' = last
    BY <1>1, <1>11, OthersKeep DEF Keys!SetMask, Keys!historyVars, LineOK
  <2> QED
    BY <1>2, <1>3, <1>4, <1>11, <2>1, <2>2 DEF Keys!SetMask
<1>12. CASE Keys!CpuAccept
  <2>1. Keys!CpuAcknowledges(irqh) \in IrqhStates
    BY StateAgain, SameHandler DEF CpuOK
  <2>2. MfpOK'
    BY <1>1, <1>12, <2>1, MfpAnswers DEF Keys!CpuAccept
  <2>3. LineOK' /\ Keys!Waiting' = Keys!Waiting /\ last' = last
    BY <1>1, <1>12, OthersKeep DEF Keys!CpuAccept, Keys!historyVars, LineOK
  <2> QED
    BY <1>2, <1>4, <1>12, <2>2, <2>3 DEF Keys!CpuAccept, Keys!MFP_Level
<1>13. CASE Keys!EndService
  <2>1. MfpOK'
    BY <1>1, <1>13, MfpEnds DEF Keys!EndService
  <2>2. LineOK' /\ Keys!Waiting' = Keys!Waiting /\ last' = last
    BY <1>1, <1>13, OthersKeep DEF Keys!EndService, Keys!historyVars, LineOK
  <2> QED
    BY <1>2, <1>4, <1>13, <2>1, <2>2 DEF Keys!EndService
<1>14. Keys!Event = Event
  BY SameRing
<1> QED
  BY <1>5, <1>6, <1>7, <1>8, <1>9, <1>10, <1>11, <1>12, <1>13, <1>14 DEF Keys!Next

-----------------------------------------------------------------------------
(* The two lines together.                                                 *)
LEMMA LinesKeep ==
  ASSUME IInv, [LinesNext]_lineVars
  PROVE  IInv' /\ KeyStep
<1>1. CpuOK /\ MouseInv /\ KeysInv
  BY DEF IInv
<1>2. CASE works = "keys" /\ Keys!Next /\ UNCHANGED <<works, mouseVars>>
  <2>1. CpuOK' /\ KeysInv' /\ KeyStep
    BY <1>1, <1>2, KeysKeep
  <2>2. MotionInv'
    BY <1>1, <1>2, Untouched DEF mouseVars, MouseInv
  <2>3. MouseInv'
    BY <1>1, <1>2, <2>2 DEF mouseVars, MouseInv, RegsOK
  <2> QED
    BY <2>1, <2>3 DEF IInv
<1>3. ASSUME UNCHANGED keyLineVars PROVE KeysInv' /\ KeyStep
  <2>1. KeysInv'
    BY <1>1, <1>3 DEF keyLineVars, KeysInv, Keys!MFP_TypeOK
  <2>2. KeyStep
    BY <1>3 DEF keyLineVars, KeyStep, Keys!Waiting
  <2> QED
    BY <2>1, <2>2
<1>4. CASE works = "mouse" /\ Next /\ UNCHANGED <<works, keyLineVars>>
  <2>1. CpuOK' /\ MouseInv'
    BY <1>1, <1>4, MouseKeeps
  <2> QED
    BY <1>3, <1>4, <2>1 DEF IInv
<1>5. CASE UNCHANGED lineVars
  <2>1. UNCHANGED keyLineVars /\ UNCHANGED vars
    BY <1>5 DEF lineVars
  <2>2. CpuOK'
    BY <1>1, <2>1 DEF vars, CpuOK
  <2>3. MotionInv'
    BY <1>1, <2>1, Untouched DEF vars, MouseInv
  <2>4. MouseInv'
    BY <1>1, <2>1, <2>3 DEF vars, MouseInv, RegsOK
  <2> QED
    BY <1>3, <2>1, <2>2, <2>4 DEF IInv
<1> QED
  BY <1>2, <1>4, <1>5 DEF LinesNext

THEOREM InvariantHolds == LinesSpec => []IInv
<1>1. IInv /\ [LinesNext]_lineVars => IInv'
  BY LinesKeep
<1> QED
  BY <1>1, InitHolds, PTL DEF LinesSpec

(* The variables of both lines stay in their ranges, for every ring, every *)
(* set of keys and of channels, and whatever a count is made of            *)
(* (keyboard.c, mouse.c, scc.c, mfp.c and irqh.c).                         *)
THEOREM TypesStay == LinesSpec => []TypesOK
  BY InvariantHolds, InvImpliesTypes, PTL

(* The program is told of the host's motion once: what it has not been     *)
(* told of is in the sum and in the packet that is being read              *)
(* (Mouse_Event, Mouse_SetData, and the register 5 of SCC_Write).          *)
THEOREM MotionConserved == LinesSpec => []MotionIsConserved
<1>1. IInv => MotionIsConserved
  BY DEF IInv, MouseInv, MotionInv
<1> QED
  BY <1>1, InvariantHolds, PTL

LEMMA QueueInitially == LinesInit => Keys!Abstract!Init
<1> SUFFICES ASSUME LinesInit PROVE Keys!Abstract!Init
  OBVIOUS
<1>1. ring = EmptyRing /\ KeyIntFlag = FALSE /\ last = NoEvent
  BY SameRing DEF LinesInit, Keys!Init
<1>2. Keys!Waiting = << >> \o << >>
  BY <1>1, EmptyQueue, SameRing DEF Keys!Waiting
<1>3. Keys!Waiting = << >>
  BY <1>2
<1> QED
  BY <1>1, <1>3, NoEventIsNone, SameRing DEF Keys!Abstract!Init

(* The data register and the ring behind it are a queue, for every size of *)
(* the ring: the program reads the events that were sent, in order and     *)
(* once, and one is lost only when the ring is full (send_keycode,         *)
(* Keyboard_Int, and UDR in MFP_Read).                                     *)
THEOREM ImplementsQueue == LinesSpec => ReadInOrder
<1>1. IInv /\ [LinesNext]_lineVars => [Keys!Abstract!Next]_<<Keys!Waiting, last>>
  BY LinesKeep DEF KeyStep
<1> QED
  BY <1>1, QueueInitially, InvariantHolds, PTL
  DEF LinesSpec, ReadInOrder, Keys!ReadInOrder, Keys!Abstract!Spec
=====
