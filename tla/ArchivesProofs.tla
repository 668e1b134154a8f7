--------------------------- MODULE ArchivesProofs ---------------------------
(***************************************************************************)
(* What is flushed to the journal of an image comes back, and what is not  *)
(* marked in memory is what would come back, for every number of blocks,   *)
(* every set of values and a journal of any length, as long as no record   *)
(* follows a cut one.  A name that a drive or the disk table holds opens   *)
(* the archive it was made for, for every number of archives, slots and    *)
(* members.                                                                *)
(*                                                                         *)
(* The argument for the journal: as long as no record follows a cut one,   *)
(* the records that count are all but perhaps the last, and appending one  *)
(* changes what a replay gives of its own block only, or of none when it   *)
(* is cut itself.  The loop of zip_overlay_flush keeps this for the blocks *)
(* it has passed.                                                          *)
(*                                                                         *)
(* The argument for the slots: only registering an archive gives a slot    *)
(* another one, and it takes a slot that no drive names and that is not    *)
(* pinned; all names of the table are in the slot that is.                 *)
(***************************************************************************)
EXTENDS MCArchives, FiniteSetTheorems, WellFoundedInduction, TLAPS

AnyValue == Value \union {Garbled}

-----------------------------------------------------------------------------
(* A set of numbers has a least, and a bounded one a greatest.             *)
LEMMA LeastOf ==
  ASSUME NEW S \in SUBSET Nat, S # {}
  PROVE  Min(S) \in S /\ \A n \in S : Min(S) <= n
<1> DEFINE R == {p \in Nat \X Nat : p[1] < p[2]}
<1>1. IsWellFoundedOn(R, Nat)
  BY NatLessThanWellFounded, Zenon DEF OpToRel
<1>2. \A x, y \in Nat : <<y, x>> \in R <=> y < x
  OBVIOUS
<1> HIDE DEF R
<1>3. PICK x \in S : \A y \in S : ~(<<y, x>> \in R)
  BY <1>1, WFMin
<1>4. ASSUME NEW y \in S PROVE x <= y
  <2>1. x \in Nat /\ y \in Nat
    OBVIOUS
  <2>2. ~(y < x)
    BY <1>2, <1>3, <2>1
  <2> QED
    BY <2>1, <2>2
<1> QED
  BY <1>4 DEF Min

LEMMA GreatestOf ==
  ASSUME NEW n \in Nat, NEW S \in SUBSET (1 .. n), S # {}
  PROVE  Max(S) \in S /\ \A y \in S : Max(S) >= y
<1> DEFINE T == {n - x : x \in S}
<1>1. T \in SUBSET Nat /\ T # {}
  <2>1. \A x \in S : n - x \in Nat
    OBVIOUS
  <2>2. \E x \in S : n - x \in T
    OBVIOUS
  <2> QED
    BY <2>1, <2>2
<1>2. Min(T) \in T /\ \A y \in T : Min(T) <= y
  <2> HIDE DEF T
  <2> QED
    BY <1>1, LeastOf
<1>3. PICK x \in S : Min(T) = n - x
  BY <1>2
<1>4. ASSUME NEW y \in S PROVE x >= y
  <2>1. n - y \in T
    OBVIOUS
  <2>2. n - x <= n - y
    <3> HIDE DEF T
    <3> QED
      BY <1>2, <1>3, <2>1
  <2>3. x \in 1 .. n /\ y \in 1 .. n
    OBVIOUS
  <2> HIDE DEF T
  <2> QED
    BY <2>2, <2>3
<1> HIDE DEF T
<1> QED
  BY <1>4 DEF Max

-----------------------------------------------------------------------------
(* A journal's records: how many come before the first that is cut, and    *)
(* what the first n of them make of a block.                               *)
CutAt(j) == {i \in DOMAIN j : j[i].part # "whole"}
WholeCount(j) == IF CutAt(j) = {} THEN Len(j) ELSE Min(CutAt(j)) - 1

RecordsOf(j, n, b) == {i \in 1 .. n : j[i].block = b}
ValueIn(j, n, b) ==
  IF RecordsOf(j, n, b) = {} THEN Original ELSE j[Max(RecordsOf(j, n, b))].value

LEMMA WholeCountSplits ==
  ASSUME NEW j \in Seq(Records)
  PROVE  /\ WholeCount(j) \in 0 .. Len(j)
         /\ \A i \in 1 .. WholeCount(j) : j[i].part = "whole"
         /\ WholeCount(j) < Len(j) => j[WholeCount(j) + 1].part # "whole"
<1>1. CASE CutAt(j) = {}
  BY <1>1 DEF WholeCount, CutAt
<1>2. CASE CutAt(j) # {}
  <2>1. CutAt(j) \in SUBSET Nat
    BY DEF CutAt
  <2>2. PICK m \in CutAt(j) : m = Min(CutAt(j)) /\ \A n \in CutAt(j) : m <= n
    <3>1. Min(CutAt(j)) \in CutAt(j) /\ \A n \in CutAt(j) : Min(CutAt(j)) <= n
      BY <1>2, <2>1, LeastOf
    <3> QED
      BY <3>1, Zenon
  <2>3. WholeCount(j) = m - 1
    BY <1>2, <2>2 DEF WholeCount
  <2>4. m \in 1 .. Len(j) /\ j[m].part # "whole"
    BY <2>2 DEF CutAt
  <2>5. ASSUME NEW i \in 1 .. (m - 1) PROVE j[i].part = "whole"
    <3>1. ~(m <= i) /\ i \in DOMAIN j
      BY <2>4
    <3>2. i \notin CutAt(j)
      BY <2>2, <3>1
    <3> QED
      BY <3>1, <3>2 DEF CutAt
  <2> QED
    BY <2>3, <2>4, <2>5
<1> QED
  BY <1>1, <1>2

LEMMA WholeCountIs ==
  ASSUME NEW j \in Seq(Records), NEW m \in 0 .. Len(j),
         \A i \in 1 .. m : j[i].part = "whole",
         m < Len(j) => j[m + 1].part # "whole"
  PROVE  WholeCount(j) = m
<1>1. PICK n : n = WholeCount(j)
  OBVIOUS
<1>2. /\ n \in 0 .. Len(j)
      /\ \A i \in 1 .. n : j[i].part = "whole"
      /\ n < Len(j) => j[n + 1].part # "whole"
  BY <1>1, WholeCountSplits
<1>3. ~(n < m)
  <2> SUFFICES ASSUME n < m PROVE FALSE
    OBVIOUS
  <2>1. n < Len(j) /\ n + 1 \in 1 .. m
    BY <1>2
  <2> QED
    BY <1>2, <2>1
<1>4. ~(m < n)
  <2> SUFFICES ASSUME m < n PROVE FALSE
    OBVIOUS
  <2>1. m < Len(j) /\ m + 1 \in 1 .. n
    BY <1>2
  <2> QED
    BY <1>2, <2>1
<1> QED
  BY <1>1, <1>2, <1>3, <1>4

(* A record appended counts when it is whole and no record before is cut.  *)
LEMMA WholeCountAppended ==
  ASSUME NEW j \in Seq(Records), NEW r \in Records
  PROVE  WholeCount(Append(j, r)) =
           IF WholeCount(j) = Len(j) /\ r.part = "whole" THEN Len(j) + 1 ELSE WholeCount(j)
<1> DEFINE k == Append(j, r)
<1>1. /\ k \in Seq(Records) /\ Len(k) = Len(j) + 1
      /\ k[Len(j) + 1] = r /\ \A i \in 1 .. Len(j) : k[i] = j[i]
  OBVIOUS
<1>2. PICK n : n = WholeCount(j)
  OBVIOUS
<1>3. /\ n \in 0 .. Len(j)
      /\ \A i \in 1 .. n : j[i].part = "whole"
      /\ n < Len(j) => j[n + 1].part # "whole"
  BY <1>2, WholeCountSplits
<1> HIDE DEF k
<1>4. CASE n = Len(j) /\ r.part = "whole"
  <2>1. \A i \in 1 .. Len(k) : k[i].part = "whole"
    BY <1>1, <1>3, <1>4
  <2>2. Len(k) \in 0 .. Len(k)
    BY <1>1
  <2>3. WholeCount(k) = Len(k)
    BY <1>1, <2>1, <2>2, WholeCountIs
  <2> QED
    BY <1>1, <1>2, <1>4, <2>3 DEF k
<1>5. CASE ~(n = Len(j) /\ r.part = "whole")
  <2>1. n \in 0 .. Len(k) /\ \A i \in 1 .. n : k[i].part = "whole"
    BY <1>1, <1>3
  <2>2. k[n + 1].part # "whole"
    BY <1>1, <1>3, <1>5
  <2>3. WholeCount(k) = n
    BY <1>1, <2>1, <2>2, WholeCountIs
  <2> QED
    BY <1>2, <1>5, <2>3 DEF k
<1> QED
  BY <1>4, <1>5

(* A record counts for its own block and for no other.                     *)
LEMMA ValueAppended ==
  ASSUME NEW j \in Seq(Records), NEW r \in Records, NEW b
  PROVE  /\ ValueIn(Append(j, r), Len(j) + 1, b) =
              IF r.block = b THEN r.value ELSE ValueIn(j, Len(j), b)
         /\ ValueIn(Append(j, r), Len(j), b) = ValueIn(j, Len(j), b)
<1> DEFINE k == Append(j, r)
           n == Len(j)
<1>1. n \in Nat /\ k[n + 1] = r /\ \A i \in 1 .. n : k[i] = j[i]
  OBVIOUS
<1> HIDE DEF k, n
<1>2. RecordsOf(k, n, b) = RecordsOf(j, n, b)
  BY <1>1 DEF RecordsOf
<1>3. RecordsOf(j, n, b) # {} => Max(RecordsOf(j, n, b)) \in 1 .. n
  <2>1. RecordsOf(j, n, b) \in SUBSET (1 .. n)
    BY DEF RecordsOf
  <2> QED
    BY <1>1, <2>1, GreatestOf
<1>4. ValueIn(k, n, b) = ValueIn(j, n, b)
  BY <1>1, <1>2, <1>3 DEF ValueIn
<1>5. CASE r.block = b
  <2>1. n + 1 \in RecordsOf(k, n + 1, b) /\ RecordsOf(k, n + 1, b) \in SUBSET (1 .. n + 1)
    BY <1>1, <1>5 DEF RecordsOf
  <2>2. PICK m \in RecordsOf(k, n + 1, b) :
          m = Max(RecordsOf(k, n + 1, b)) /\ \A y \in RecordsOf(k, n + 1, b) : m >= y
    <3>1. RecordsOf(k, n + 1, b) # {} /\ n + 1 \in Nat
      BY <1>1, <2>1
    <3>2. /\ Max(RecordsOf(k, n + 1, b)) \in RecordsOf(k, n + 1, b)
          /\ \A y \in RecordsOf(k, n + 1, b) : Max(RecordsOf(k, n + 1, b)) >= y
      BY <2>1, <3>1, GreatestOf
    <3> QED
      BY <3>2, Zenon
  <2>3. m = n + 1
    BY <1>1, <2>1, <2>2
  <2> QED
    BY <1>1, <1>4, <1>5, <2>1, <2>2, <2>3 DEF ValueIn, k, n
<1>6. CASE r.block # b
  <2>1. RecordsOf(k, n + 1, b) = RecordsOf(k, n, b)
    BY <1>1, <1>6 DEF RecordsOf
  <2>2. ValueIn(k, n + 1, b) = ValueIn(k, n, b)
    BY <2>1 DEF ValueIn
  <2> QED
    BY <1>4, <1>6, <2>2 DEF k, n
<1> QED
  BY <1>5, <1>6
-----------------------------------------------------------------------------
(* The same of the journal as it is, and as it is after a step.            *)
ReplayLemma ==
  journal \in Seq(Records) =>
    /\ CutInside <=> WholeCount(journal) + 1 < Len(journal)
    /\ \A b : Replayed(b) = IF file # "good" THEN Original
                            ELSE ValueIn(journal, WholeCount(journal), b)

LEMMA ReplayIs == ReplayLemma
<1> SUFFICES ASSUME journal \in Seq(Records)
             PROVE  /\ CutInside <=> WholeCount(journal) + 1 < Len(journal)
                    /\ \A b : Replayed(b) = IF file # "good" THEN Original
                                            ELSE ValueIn(journal, WholeCount(journal), b)
  BY DEF ReplayLemma
<1>1. PICK n : n = WholeCount(journal)
  OBVIOUS
<1>2. n \in 0 .. Len(journal)
  BY <1>1, WholeCountSplits
<1>3. WholePrefix = SubSeq(journal, 1, n)
  BY <1>1 DEF WholePrefix, WholeCount, CutAt
<1>4. Len(WholePrefix) = n /\ \A i \in 1 .. n : WholePrefix[i] = journal[i]
  BY <1>2, <1>3
<1>5. CutInside <=> n + 1 < Len(journal)
  BY <1>4 DEF CutInside
<1>6. ASSUME NEW b
      PROVE  Replayed(b) = IF file # "good" THEN Original ELSE ValueIn(journal, n, b)
  <2>1. DOMAIN WholePrefix = 1 .. n
    BY <1>2, <1>3
  <2>2. {i \in DOMAIN WholePrefix : WholePrefix[i].block = b} = RecordsOf(journal, n, b)
    BY <1>4, <2>1 DEF RecordsOf
  <2>3. CASE RecordsOf(journal, n, b) = {}
    BY <2>2, <2>3 DEF Replayed, ValueIn
  <2>4. CASE RecordsOf(journal, n, b) # {}
    <3>1. RecordsOf(journal, n, b) \in SUBSET (1 .. n) /\ n \in Nat
      BY <1>2 DEF RecordsOf
    <3>2. Max(RecordsOf(journal, n, b)) \in 1 .. n
      BY <2>4, <3>1, GreatestOf
    <3> QED
      BY <1>4, <2>2, <2>4, <3>2 DEF Replayed, ValueIn
  <2> QED
    BY <2>3, <2>4
<1> QED
  BY <1>1, <1>5, <1>6

LEMMA ReplayIsNext == ReplayLemma'
  BY ReplayIs, PTL

(* The file is left alone.                                                 *)
LEMMA FileKept ==
  ASSUME UNCHANGED fileVars
  PROVE  (CutInside' <=> CutInside) /\ \A b : Replayed(b)' = Replayed(b)
  BY DEF fileVars, CutInside, WholePrefix, Replayed

(* Nothing has been written to it.                                         *)
LEMMA EmptyReplays ==
  ASSUME journal = << >>
  PROVE  ~CutInside /\ \A b : Replayed(b) = Original
<1>1. journal \in Seq(Records) /\ Len(journal) = 0
  OBVIOUS
<1>2. WholeCount(journal) = 0
  <2>1. WholeCount(journal) \in 0 .. Len(journal)
    BY <1>1, WholeCountSplits, Zenon
  <2>2. \A n \in 0 .. 0 : n = 0
    OBVIOUS
  <2> QED
    BY <1>1, <2>1, <2>2, Zenon
<1>3. \A b : RecordsOf(journal, 0, b) = {}
  BY DEF RecordsOf
<1> QED
  BY <1>1, <1>2, <1>3, ReplayIs DEF ReplayLemma, ValueIn

LEMMA EmptyReplaysNext ==
  (journal = << >> => ~CutInside /\ \A b : Replayed(b) = Original)'
<1>1. journal = << >> => ~CutInside /\ \A b : Replayed(b) = Original
  BY EmptyReplays
<1> QED
  BY <1>1, PTL

(* A record has been appended, and no cut one lies behind it.              *)
LEMMA RecordAppended ==
  ASSUME journal \in Seq(Records), NEW r \in Records,
         journal' = Append(journal, r), file = "good", file' = file, ~CutInside'
  PROVE  /\ ~CutInside
         /\ \A b : Replayed(b)' =
              IF r.part = "whole" /\ r.block = b THEN r.value ELSE Replayed(b)
<1>1. journal' \in Seq(Records) /\ Len(journal') = Len(journal) + 1
  OBVIOUS
<1>2. ~(WholeCount(journal') + 1 < Len(journal'))
  BY <1>1, ReplayIsNext DEF ReplayLemma
<1>3. PICK n : n = WholeCount(journal)
  OBVIOUS
<1>4. n \in 0 .. Len(journal)
  BY <1>3, WholeCountSplits
<1>5. WholeCount(journal') = IF n = Len(journal) /\ r.part = "whole" THEN Len(journal) + 1 ELSE n
  BY <1>3, WholeCountAppended
<1>6. n = Len(journal)
  BY <1>1, <1>2, <1>4, <1>5
<1>7. ~CutInside
  BY <1>3, <1>6, ReplayIs DEF ReplayLemma
<1>8. ASSUME NEW b
      PROVE  Replayed(b)' = IF r.part = "whole" /\ r.block = b THEN r.value ELSE Replayed(b)
  <2>1. Replayed(b) = ValueIn(journal, Len(journal), b)
    BY <1>3, <1>6, ReplayIs DEF ReplayLemma
  <2>2. Replayed(b)' = ValueIn(journal', WholeCount(journal'), b)
    BY <1>1, ReplayIsNext DEF ReplayLemma
  <2> QED
    BY <1>5, <1>6, <2>1, <2>2, ValueAppended
<1> QED
  BY <1>7, <1>8

-----------------------------------------------------------------------------
(* The inductive invariant.                                                *)
FlushStates == [at : {"off", "call", "header", "records"}, next : Nat,
                again : BOOLEAN, drop : BOOLEAN]

Types ==
  /\ cached \in BOOLEAN /\ dirty \in SUBSET Blocks
  /\ data \in [Blocks -> AnyValue] /\ journal \in Seq(Records)
  /\ flush \in FlushStates
  /\ stored \in [Blocks -> AnyValue] /\ attempted \in [Blocks -> SUBSET AnyValue]

(* Where a flush is says what the file's header is, and that the loop has  *)
(* not begun; an image that is being flushed is in memory.                 *)
FlushAgrees ==
  /\ file \in {"absent", "good", "bad"}
  /\ file # "good" => journal = << >>
  /\ flush.at = "off" => flush = Off
  /\ flush.at # "off" => cached
  /\ flush.at \in {"call", "header"} => flush.next = 0
  /\ flush.at = "header" => file = "bad"
  /\ flush.at = "records" => file = "good"

(* A block without a mark, and one that the loop has passed, is as a       *)
(* replay would give it.                                                   *)
Settled(b) == b \notin dirty \/ (flush.at = "records" /\ b < flush.next)

SettledAgree ==
  cached /\ ~CutInside => \A b \in Blocks : Settled(b) => data[b] = Replayed(b)

(* What the loop is about to write is what the flush set out to write.     *)
MeansToWrite ==
  flush.at \in {"header", "records"} => \A b \in dirty : data[b] \in attempted[b]

JournalInv == Types /\ FlushAgrees /\ SettledAgree /\ MeansToWrite /\ ReplayGivesFlushed

LEMMA InvGivesClean == JournalInv => CleanBlocksAgree
  BY DEF JournalInv, SettledAgree, Settled, CleanBlocksAgree, Off

LEMMA InitAgrees == Init => JournalInv
<1> SUFFICES ASSUME Init PROVE JournalInv
  OBVIOUS
<1>1. Original \in AnyValue /\ [b \in Blocks |-> Original] \in [Blocks -> AnyValue]
  BY ValueAssumption DEF AnyValue
<1>2. Off \in FlushStates
  BY DEF Off, FlushStates
<1>3. << >> \in Seq(Records) /\ [b \in Blocks |-> {}] \in [Blocks -> SUBSET AnyValue]
  OBVIOUS
<1>4. Types
  BY <1>1, <1>2, <1>3 DEF Init, Types
<1>5. ~CutInside /\ \A b : Replayed(b) = Original
  BY EmptyReplays DEF Init
<1> QED
  BY <1>4, <1>5 DEF JournalInv, Init, FlushAgrees, SettledAgree, Settled, MeansToWrite,
                    ReplayGivesFlushed, Off

(* What the return of a flush leaves of the image and of the caller.       *)
LEMMA AfterReturn ==
  ASSUME Types, FlushAgrees, flush.at # "off", NEW left \in SUBSET Blocks, Return(left)
  PROVE  /\ flush' \in FlushStates /\ flush'.at \in {"off", "call"} /\ flush'.next = 0
         /\ flush'.at = "off" => flush' = Off
         /\ flush'.at # "off" => cached'
         /\ cached' \in BOOLEAN /\ dirty' \in SUBSET Blocks /\ data' \in [Blocks -> AnyValue]
         /\ cached' => dirty' = left /\ data' = data
<1>1. CASE flush.again
  <2>1. /\ flush' = [flush EXCEPT !.at = "call", !.next = 0, !.again = FALSE]
        /\ dirty' = left /\ cached' = cached /\ data' = data
    BY <1>1 DEF Return
  <2>2. flush' \in FlushStates /\ flush'.at = "call" /\ flush'.next = 0
    BY <2>1 DEF Types, FlushStates
  <2> QED
    BY <2>1, <2>2 DEF Types, FlushAgrees
<1>2. CASE ~flush.again
  <2>1. /\ flush' = Off /\ cached' = ~flush.drop
        /\ dirty' = IF flush.drop THEN {} ELSE left
        /\ data' = IF flush.drop THEN [b \in Blocks |-> Original] ELSE data
    BY <1>2 DEF Return
  <2>2. Off \in FlushStates /\ Off.at = "off" /\ Off.next = 0
    BY DEF Off, FlushStates
  <2>3. [b \in Blocks |-> Original] \in [Blocks -> AnyValue]
    BY ValueAssumption DEF AnyValue
  <2>4. flush.drop \in BOOLEAN
    BY DEF Types, FlushStates
  <2> QED
    BY <2>1, <2>2, <2>3, <2>4 DEF Types
<1> QED
  BY <1>1, <1>2

(* A write that stops changes nothing of what a replay gives, as long as   *)
(* no cut record lay behind it.                                            *)
LEMMA CutRecordKeeps ==
  ASSUME Types, FlushAgrees, CutRecord, file' = file
  PROVE  /\ journal' \in Seq(Records)
         /\ file' # "good" => journal' = << >>
         /\ ~CutInside' => ~CutInside /\ \A b : Replayed(b)' = Replayed(b)
<1>1. CASE journal' = journal
  BY <1>1, FileKept DEF Types, FlushAgrees, fileVars
<1>2. CASE journal' # journal
  <2>1. flush.at = "records" /\ Left # {}
    BY <1>2 DEF CutRecord
  <2>2. PICK part \in {"head", "body"} : journal' = Append(journal, RecordOf(Min(Left), part))
    BY <1>2, <2>1 DEF CutRecord
  <2>3. Min(Left) \in Left /\ Left \in SUBSET Blocks
    <3>1. Left \in SUBSET Blocks /\ Left \in SUBSET Nat
      BY BlocksAssumption DEF Left, Types, Blocks
    <3> QED
      BY <2>1, <3>1, LeastOf
  <2>4. RecordOf(Min(Left), part) \in Records /\ RecordOf(Min(Left), part).part = part
    BY <2>3 DEF RecordOf, Records, Types, AnyValue
  <2>5. file = "good"
    BY <2>1 DEF FlushAgrees
  <2> HIDE DEF RecordOf, Records
  <2> QED
    BY <2>2, <2>4, <2>5, RecordAppended DEF Types
<1> QED
  BY <1>1, <1>2

-----------------------------------------------------------------------------
(* The steps, one by one.                                                  *)
LEMMA GetAgrees == ASSUME JournalInv, zip_member_get PROVE JournalInv'
<1> USE DEF JournalInv
<1>1. /\ ~cached /\ cached' = TRUE /\ dirty' = {}
      /\ UNCHANGED <<fileVars, flush, stored, attempted>>
  BY DEF zip_member_get
<1>2. PICK read \in [Blocks -> AnyValue] :
        /\ \A b \in Blocks :
             \/ read[b] = Replayed(b) /\ ~MustBeGarbled(b)
             \/ read[b] = Garbled /\ MayBeGarbled
        /\ data' = read
  BY DEF zip_member_get, AnyValue
<1>3. flush.at = "off"
  BY <1>1 DEF FlushAgrees, Types, FlushStates
<1>4. (CutInside' <=> CutInside) /\ \A b : Replayed(b)' = Replayed(b)
  BY <1>1, FileKept
<1>5. Types'
  BY <1>1, <1>2 DEF Types, fileVars
<1>6. FlushAgrees'
  BY <1>1 DEF FlushAgrees, fileVars
<1>7. SettledAgree'
  BY <1>2, <1>4 DEF SettledAgree, MayBeGarbled
<1>8. MeansToWrite' /\ ReplayGivesFlushed'
  BY <1>1, <1>4 DEF MeansToWrite, ReplayGivesFlushed
<1> QED
  BY <1>5, <1>6, <1>7, <1>8

LEMMA WriteAgrees ==
  ASSUME JournalInv, NEW b \in Blocks, NEW value \in Value, px68k_zip_write(b, value)
  PROVE  JournalInv'
<1> USE DEF JournalInv
<1>1. /\ flush = Off /\ data' = [data EXCEPT ![b] = value] /\ dirty' = dirty \union {b}
      /\ UNCHANGED <<cached, fileVars, flush, stored, attempted>>
  BY DEF px68k_zip_write
<1>2. (CutInside' <=> CutInside) /\ \A c : Replayed(c)' = Replayed(c)
  BY <1>1, FileKept
<1>3. Types'
  BY <1>1 DEF Types, fileVars, AnyValue
<1>4. FlushAgrees'
  BY <1>1 DEF FlushAgrees, fileVars
<1>5. SettledAgree'
  <2>1. ASSUME NEW c \in Blocks, Settled(c)' PROVE Settled(c) /\ data'[c] = data[c]
    BY <1>1, <2>1 DEF Settled, Off, Types
  <2> QED
    BY <1>1, <1>2, <2>1 DEF SettledAgree
<1>6. MeansToWrite' /\ ReplayGivesFlushed'
  BY <1>1, <1>2 DEF MeansToWrite, ReplayGivesFlushed, Off
<1> QED
  BY <1>3, <1>4, <1>5, <1>6

LEMMA CloseAgrees ==
  ASSUME JournalInv, NEW caller \in Callers, Close(caller)
  PROVE  JournalInv'
<1> USE DEF JournalInv
<1>1. /\ cached /\ flush = Off
      /\ flush' = [at |-> "call", next |-> 0, again |-> caller.again, drop |-> caller.drop]
      /\ UNCHANGED <<memberVars, fileVars, stored, attempted>>
  BY DEF Close
<1>2. (CutInside' <=> CutInside) /\ \A c : Replayed(c)' = Replayed(c)
  BY <1>1, FileKept
<1>3. flush' \in FlushStates
  <2>1. caller.again \in BOOLEAN /\ caller.drop \in BOOLEAN
    <3>1. CASE caller = [again |-> FALSE, drop |-> FALSE]
      BY <3>1
    <3>2. CASE caller = [again |-> TRUE, drop |-> TRUE]
      BY <3>2
    <3>3. CASE caller = [again |-> FALSE, drop |-> TRUE]
      BY <3>3
    <3> QED
      BY <3>1, <3>2, <3>3, Zenon DEF Callers
  <2> QED
    BY <1>1, <2>1 DEF FlushStates
<1>4. Types'
  BY <1>1, <1>3 DEF Types, memberVars, fileVars
<1>5. FlushAgrees' /\ MeansToWrite'
  BY <1>1 DEF FlushAgrees, MeansToWrite, memberVars, fileVars
<1>6. SettledAgree'
  BY <1>1, <1>2 DEF SettledAgree, Settled, memberVars
<1>7. ReplayGivesFlushed'
  BY <1>1, <1>2 DEF ReplayGivesFlushed
<1> QED
  BY <1>4, <1>5, <1>6, <1>7

LEMMA NothingAgrees == ASSUME JournalInv, FlushDoesNothing PROVE JournalInv'
<1> USE DEF JournalInv
<1>1. /\ flush.at = "call" /\ Return(dirty) /\ dirty \in SUBSET Blocks
      /\ UNCHANGED <<fileVars, stored, attempted>>
  BY DEF FlushDoesNothing, Types
<1>2. (CutInside' <=> CutInside) /\ \A c : Replayed(c)' = Replayed(c)
  BY <1>1, FileKept
<1>3. /\ flush' \in FlushStates /\ flush'.at \in {"off", "call"} /\ flush'.next = 0
      /\ flush'.at = "off" => flush' = Off
      /\ flush'.at # "off" => cached'
      /\ cached' \in BOOLEAN /\ dirty' \in SUBSET Blocks /\ data' \in [Blocks -> AnyValue]
      /\ cached' => dirty' = dirty /\ data' = data
  BY <1>1, AfterReturn
<1>4. Types'
  BY <1>1, <1>3 DEF Types, fileVars
<1>5. FlushAgrees' /\ MeansToWrite'
  BY <1>1, <1>3 DEF FlushAgrees, MeansToWrite, fileVars
<1>6. SettledAgree'
  BY <1>1, <1>2, <1>3 DEF SettledAgree, Settled, FlushAgrees
<1>7. ReplayGivesFlushed'
  BY <1>1, <1>2 DEF ReplayGivesFlushed
<1> QED
  BY <1>4, <1>5, <1>6, <1>7

LEMMA OpensAgrees == ASSUME JournalInv, FlushOpens PROVE JournalInv'
<1> USE DEF JournalInv
<1> DEFINE meant == [b \in Blocks |-> attempted[b] \union (IF b \in dirty THEN {data[b]} ELSE {})]
<1>1. /\ flush.at = "call" /\ file # "bad" /\ flush.next = 0 /\ cached
      /\ flush' = [flush EXCEPT !.at = IF file = "absent" THEN "header" ELSE "records"]
      /\ file' = IF file = "absent" THEN "bad" ELSE file
      /\ attempted' = meant
      /\ UNCHANGED <<memberVars, journal, stored>>
  BY DEF FlushOpens, FlushAgrees
<1>2. meant \in [Blocks -> SUBSET AnyValue] /\ \A b \in Blocks : attempted[b] \subseteq meant[b]
  BY DEF Types
<1>3. \A b \in dirty : data[b] \in meant[b]
  BY DEF Types
<1> HIDE DEF meant
<1>4. (CutInside' <=> CutInside) /\ \A b : Replayed(b)' = Replayed(b)
  <2>1. CASE file = "absent"
    BY <1>1, <2>1, EmptyReplays, EmptyReplaysNext DEF FlushAgrees
  <2>2. CASE file # "absent"
    BY <1>1, <2>2, FileKept DEF fileVars
  <2> QED
    BY <2>1, <2>2
<1>5. /\ flush' \in FlushStates /\ flush'.next = 0
      /\ flush'.at = IF file = "absent" THEN "header" ELSE "records"
  BY <1>1 DEF Types, FlushStates
<1>6. Types'
  BY <1>1, <1>2, <1>5 DEF Types, memberVars
<1>7. FlushAgrees'
  BY <1>1, <1>5 DEF FlushAgrees, memberVars
<1>8. SettledAgree'
  <2>1. ASSUME NEW b \in Blocks, Settled(b)' PROVE Settled(b)
    BY <1>1, <1>5, <2>1, BlocksAssumption DEF Settled, memberVars, Blocks
  <2> QED
    BY <1>1, <1>4, <2>1 DEF SettledAgree, memberVars
<1>9. MeansToWrite' /\ ReplayGivesFlushed'
  BY <1>1, <1>2, <1>3, <1>4 DEF MeansToWrite, ReplayGivesFlushed, memberVars
<1> QED
  BY <1>6, <1>7, <1>8, <1>9

LEMMA HeaderAgrees == ASSUME JournalInv, WriteHeader PROVE JournalInv'
<1> USE DEF JournalInv
<1>1. /\ flush.at = "header" /\ file = "bad" /\ journal = << >> /\ flush.next = 0 /\ cached
      /\ file' = "good" /\ flush' = [flush EXCEPT !.at = "records"]
      /\ UNCHANGED <<memberVars, journal, stored, attempted>>
  BY DEF WriteHeader, FlushAgrees
<1>2. (CutInside' <=> CutInside) /\ \A b : Replayed(b)' = Replayed(b)
  BY <1>1, EmptyReplays, EmptyReplaysNext
<1>3. flush' \in FlushStates /\ flush'.next = 0 /\ flush'.at = "records"
  BY <1>1 DEF Types, FlushStates
<1>4. Types' /\ FlushAgrees'
  BY <1>1, <1>3 DEF Types, FlushAgrees, memberVars
<1>5. SettledAgree'
  <2>1. ASSUME NEW b \in Blocks, Settled(b)' PROVE Settled(b)
    BY <1>1, <1>3, <2>1, BlocksAssumption DEF Settled, memberVars, Blocks
  <2> QED
    BY <1>1, <1>2, <2>1 DEF SettledAgree, memberVars
<1>6. MeansToWrite' /\ ReplayGivesFlushed'
  BY <1>1, <1>2 DEF MeansToWrite, ReplayGivesFlushed, memberVars
<1> QED
  BY <1>4, <1>5, <1>6

LEMMA RecordAgrees == ASSUME JournalInv, FlushRecord PROVE JournalInv'
<1> USE DEF JournalInv
<1>1. /\ flush.at = "records" /\ Left # {} /\ file = "good" /\ cached
      /\ UNCHANGED <<memberVars, file, stored, attempted>>
  BY DEF FlushRecord, FlushAgrees
<1>2. Left \in SUBSET Nat /\ Left \in SUBSET dirty
  BY BlocksAssumption DEF Left, Types, Blocks
<1>3. PICK m \in Left : m = Min(Left) /\ \A b \in Left : m <= b
  <2>1. Min(Left) \in Left /\ \A b \in Left : Min(Left) <= b
    BY <1>1, <1>2, LeastOf
  <2> QED
    BY <2>1, Zenon
<1> DEFINE r == RecordOf(m, "whole")
<1>4. journal' = Append(journal, r) /\ flush' = [flush EXCEPT !.next = m + 1]
  BY <1>3 DEF FlushRecord
<1>5. m \in Blocks /\ m \in Nat /\ m \in dirty
  BY <1>2, <1>3 DEF Types
<1>6. r \in Records /\ r.part = "whole" /\ r.block = m /\ r.value = data[m]
  BY <1>5 DEF RecordOf, Records, Types, AnyValue
<1> HIDE DEF r
<1>7. flush' \in FlushStates /\ flush'.at = "records" /\ flush'.next = m + 1
  BY <1>1, <1>4, <1>5 DEF Types, FlushStates
<1>8. ~CutInside' => ~CutInside /\ \A b : Replayed(b)' = IF b = m THEN data[m] ELSE Replayed(b)
  BY <1>1, <1>4, <1>6, RecordAppended DEF Types
<1>9. journal' \in Seq(Records)
  BY <1>4, <1>6 DEF Types
<1>10. Types' /\ FlushAgrees'
  BY <1>1, <1>7, <1>9 DEF Types, FlushAgrees, memberVars
<1>11. SettledAgree'
  <2> SUFFICES ASSUME ~CutInside', NEW b \in Blocks, Settled(b)'
               PROVE  data[b] = Replayed(b)'
    BY <1>1 DEF SettledAgree, memberVars
  <2>1. CASE b = m
    BY <1>8, <2>1
  <2>2. CASE b # m
    <3>1. b \in Nat /\ flush.next \in Nat
      BY BlocksAssumption DEF Blocks, Types, FlushStates
    <3>2. b \notin dirty \/ b < m + 1
      BY <1>1, <1>7 DEF Settled, memberVars
    <3>3. b \notin Left
      BY <1>3, <1>5, <2>2, <3>1, <3>2 DEF Left
    <3>4. Settled(b)
      BY <1>1, <3>1, <3>3 DEF Settled, Left
    <3> QED
      BY <1>1, <1>8, <2>2, <3>4 DEF SettledAgree
  <2> QED
    BY <2>1, <2>2
<1>12. MeansToWrite'
  BY <1>1 DEF MeansToWrite, memberVars
<1>13. ReplayGivesFlushed'
  <2>1. data[m] \in attempted[m]
    BY <1>1, <1>5 DEF MeansToWrite
  <2> QED
    BY <1>1, <1>8, <2>1 DEF ReplayGivesFlushed
<1> QED
  BY <1>10, <1>11, <1>12, <1>13

LEMMA SucceedsAgrees == ASSUME JournalInv, FlushSucceeds PROVE JournalInv'
<1> USE DEF JournalInv
<1> DEFINE rest == [b \in Blocks |-> IF b \in dirty THEN {} ELSE attempted[b]]
<1>1. /\ flush.at = "records" /\ Left = {} /\ Return({}) /\ cached
      /\ stored' = data /\ attempted' = rest /\ UNCHANGED fileVars
  BY DEF FlushSucceeds, FlushAgrees
<1>2. rest \in [Blocks -> SUBSET AnyValue]
  BY DEF Types
<1> HIDE DEF rest
<1>3. (CutInside' <=> CutInside) /\ \A c : Replayed(c)' = Replayed(c)
  BY <1>1, FileKept
<1>4. \A b \in Blocks : Settled(b)
  BY <1>1, BlocksAssumption DEF Settled, Left, Blocks, Types, FlushStates
<1>5. ~CutInside => \A b \in Blocks : data[b] = Replayed(b)
  BY <1>1, <1>4 DEF SettledAgree
<1>6. /\ flush' \in FlushStates /\ flush'.at \in {"off", "call"} /\ flush'.next = 0
      /\ flush'.at = "off" => flush' = Off
      /\ flush'.at # "off" => cached'
      /\ cached' \in BOOLEAN /\ dirty' \in SUBSET Blocks /\ data' \in [Blocks -> AnyValue]
      /\ cached' => dirty' = {} /\ data' = data
  BY <1>1, AfterReturn
<1>7. Types'
  BY <1>1, <1>2, <1>6 DEF Types, fileVars
<1>8. FlushAgrees' /\ MeansToWrite'
  BY <1>1, <1>6 DEF FlushAgrees, MeansToWrite, fileVars
<1>9. SettledAgree' /\ ReplayGivesFlushed'
  BY <1>1, <1>3, <1>5, <1>6 DEF SettledAgree, ReplayGivesFlushed
<1> QED
  BY <1>7, <1>8, <1>9

LEMMA FailsAgrees == ASSUME JournalInv, FlushFails PROVE JournalInv'
<1> USE DEF JournalInv
<1>1. /\ flush.at # "off" /\ CutRecord /\ Return(dirty) /\ dirty \in SUBSET Blocks
      /\ UNCHANGED <<file, stored, attempted>>
  BY DEF FlushFails, Types
<1>2. /\ journal' \in Seq(Records)
      /\ file' # "good" => journal' = << >>
      /\ ~CutInside' => ~CutInside /\ \A b : Replayed(b)' = Replayed(b)
  BY <1>1, CutRecordKeeps
<1>3. /\ flush' \in FlushStates /\ flush'.at \in {"off", "call"} /\ flush'.next = 0
      /\ flush'.at = "off" => flush' = Off
      /\ flush'.at # "off" => cached'
      /\ cached' \in BOOLEAN /\ dirty' \in SUBSET Blocks /\ data' \in [Blocks -> AnyValue]
      /\ cached' => dirty' = dirty /\ data' = data
  BY <1>1, AfterReturn
<1>4. Types'
  BY <1>1, <1>2, <1>3 DEF Types
<1>5. FlushAgrees' /\ MeansToWrite'
  BY <1>1, <1>2, <1>3 DEF FlushAgrees, MeansToWrite
<1>6. SettledAgree'
  BY <1>1, <1>2, <1>3 DEF SettledAgree, Settled, FlushAgrees
<1>7. ReplayGivesFlushed'
  BY <1>1, <1>2 DEF ReplayGivesFlushed
<1> QED
  BY <1>4, <1>5, <1>6, <1>7

LEMMA CrashAgrees == ASSUME JournalInv, Crash PROVE JournalInv'
<1> USE DEF JournalInv
<1>1. /\ CutRecord /\ cached' = FALSE /\ dirty' = {}
      /\ data' = [b \in Blocks |-> Original] /\ flush' = Off
      /\ UNCHANGED <<file, stored, attempted>>
  BY DEF Crash
<1>2. /\ journal' \in Seq(Records)
      /\ file' # "good" => journal' = << >>
      /\ ~CutInside' => ~CutInside /\ \A b : Replayed(b)' = Replayed(b)
  BY <1>1, CutRecordKeeps
<1>3. [b \in Blocks |-> Original] \in [Blocks -> AnyValue] /\ Off \in FlushStates
  BY ValueAssumption DEF AnyValue, Off, FlushStates
<1>4. Types'
  BY <1>1, <1>2, <1>3 DEF Types
<1>5. FlushAgrees' /\ MeansToWrite' /\ SettledAgree'
  BY <1>1, <1>2 DEF FlushAgrees, MeansToWrite, SettledAgree, Off
<1>6. ReplayGivesFlushed'
  BY <1>1, <1>2 DEF ReplayGivesFlushed
<1> QED
  BY <1>4, <1>5, <1>6

LEMMA NextAgrees == JournalInv /\ [Next]_vars => JournalInv'
<1> SUFFICES ASSUME JournalInv, [Next]_vars PROVE JournalInv'
  OBVIOUS
<1>1. CASE UNCHANGED vars
  <2>1. (CutInside' <=> CutInside) /\ \A b : Replayed(b)' = Replayed(b)
    BY <1>1, FileKept DEF vars, fileVars
  <2>2. UNCHANGED <<cached, data, dirty, file, journal, flush, stored, attempted>>
    BY <1>1 DEF vars, memberVars, fileVars
  <2> QED
    BY <2>1, <2>2 DEF JournalInv, Types, FlushAgrees, SettledAgree, Settled, MeansToWrite,
                      ReplayGivesFlushed
<1> QED
  BY <1>1, GetAgrees, WriteAgrees, CloseAgrees, NothingAgrees, OpensAgrees, HeaderAgrees,
     RecordAgrees, SucceedsAgrees, FailsAgrees, CrashAgrees DEF Next

-----------------------------------------------------------------------------
(* The journal's bound is kept: the flushes that a close has begun have    *)
(* room for a record of each block that each of them still means to write. *)
Needed ==
  CASE flush.at = "off" -> 0
    [] flush.at \in {"call", "header"} ->
         Cardinality(dirty) + (IF flush.again THEN Cardinality(dirty) ELSE 0)
    [] flush.at = "records" ->
         Cardinality(Left) + (IF flush.again THEN Cardinality(dirty) ELSE 0)

FitsInv ==
  /\ flush.next \in 0 .. NBlocks
  /\ ~cached => dirty = {} /\ flush = Off
  /\ Len(journal) + Needed <= MaxJournal

LEMMA CountsAre ==
  ASSUME NEW D \in SUBSET Blocks
  PROVE  /\ IsFiniteSet(D) /\ Cardinality(D) \in Nat
         /\ \A E \in SUBSET D : Cardinality(E) \in Nat /\ Cardinality(E) <= Cardinality(D)
         /\ \A x \in D : Cardinality(D \ {x}) = Cardinality(D) - 1
<1>1. IsFiniteSet(Blocks)
  BY BlocksAssumption, FS_Interval DEF Blocks
<1>2. IsFiniteSet(D)
  BY <1>1, FS_Subset
<1> QED
  BY <1>2, FS_Subset, FS_CardinalityType, FS_RemoveElement

LEMMA NeededIs ==
  ASSUME Types
  PROVE  /\ dirty \in SUBSET Blocks /\ Left \in SUBSET dirty /\ Len(journal) \in Nat
         /\ Cardinality(dirty) \in Nat /\ Cardinality(Left) \in Nat
         /\ Cardinality(Left) <= Cardinality(dirty) /\ Needed \in Nat
         /\ flush.at = "off" => Needed = 0
<1>1. dirty \in SUBSET Blocks /\ Left \in SUBSET dirty /\ Len(journal) \in Nat
  BY DEF Types, Left
<1>2. /\ Cardinality(dirty) \in Nat /\ Cardinality(Left) \in Nat
      /\ Cardinality(Left) <= Cardinality(dirty)
  BY <1>1, CountsAre
<1>3. flush.at \in {"off", "call", "header", "records"}
  BY DEF Types, FlushStates
<1> QED
  BY <1>1, <1>2, <1>3 DEF Needed

(* A call of zip_overlay_flush returns: the second, if there is one, has   *)
(* its own records to write.                                               *)
LEMMA ReturnFits ==
  ASSUME Types, FitsInv, NEW left \in SUBSET dirty, Return(left), flush.at # "off", cached,
         Types', Len(journal') <= Len(journal) + Needed
                                 - (IF flush.again THEN Cardinality(dirty) ELSE 0)
  PROVE  FitsInv'
<1>1. /\ Cardinality(dirty) \in Nat /\ Needed \in Nat /\ Len(journal) \in Nat
      /\ dirty \in SUBSET Blocks
  BY NeededIs
<1>2. Len(journal') \in Nat
  BY DEF Types
<1>3. Len(journal) + Needed <= MaxJournal /\ MaxJournal \in Nat
  BY JournalAssumption DEF FitsInv
<1>4. CASE flush.again
  <2>1. /\ flush' = [flush EXCEPT !.at = "call", !.next = 0, !.again = FALSE]
        /\ dirty' = left /\ UNCHANGED <<cached, data>>
    BY <1>4 DEF Return
  <2>2. flush'.at = "call" /\ flush'.next = 0 /\ flush'.again = FALSE
    BY <2>1 DEF Types, FlushStates
  <2>3. Needed' = Cardinality(left)
    <3>1. Cardinality(left) \in Nat
      BY <1>1, CountsAre
    <3> QED
      BY <2>1, <2>2, <3>1 DEF Needed
  <2>4. Cardinality(left) <= Cardinality(dirty) /\ Cardinality(left) \in Nat
    BY <1>1, CountsAre
  <2> QED
    BY <1>1, <1>2, <1>3, <1>4, <2>1, <2>2, <2>3, <2>4, BlocksAssumption DEF FitsInv
<1>5. CASE ~flush.again
  <2>1. /\ flush' = Off /\ cached' = ~flush.drop /\ dirty' = IF flush.drop THEN {} ELSE left
    BY <1>5 DEF Return
  <2>2. Needed' = 0
    BY <2>1 DEF Needed, Off
  <2>3. flush'.next \in 0 .. NBlocks
    BY <2>1, BlocksAssumption DEF Off
  <2>4. ~cached' => dirty' = {} /\ flush' = Off
    BY <2>1 DEF Types, FlushStates
  <2> QED
    BY <1>1, <1>2, <1>3, <1>5, <2>2, <2>3, <2>4 DEF FitsInv
<1> QED
  BY <1>4, <1>5 DEF Types, FlushStates

(* A write that stops leaves a record at most, of a block still to come.   *)
LEMMA CutRecordFits ==
  ASSUME Types, Types', CutRecord
  PROVE  /\ Len(journal') \in Nat
         /\ flush.at = "records" => Len(journal') <= Len(journal) + Cardinality(Left)
         /\ flush.at # "records" => Len(journal') = Len(journal)
<1>1. /\ Left \in SUBSET dirty /\ dirty \in SUBSET Blocks /\ Cardinality(Left) \in Nat
      /\ Len(journal) \in Nat /\ Len(journal') \in Nat /\ journal \in Seq(Records)
  BY NeededIs DEF Types
<1>2. CASE flush.at = "records" /\ Left # {}
  <2>1. Cardinality(Left) >= 1
    BY <1>1, <1>2, CountsAre, FS_EmptySet
  <2>2. journal' = journal \/ \E r \in Records : journal' = Append(journal, r)
    <3>1. PICK part \in {"head", "body"} :
            journal' = journal \/ journal' = Append(journal, RecordOf(Min(Left), part))
      BY <1>2 DEF CutRecord
    <3>2. Min(Left) \in Blocks
      <4>1. Left \in SUBSET Nat
        BY <1>1 DEF Blocks
      <4> QED
        BY <1>1, <1>2, <4>1, LeastOf
    <3>3. RecordOf(Min(Left), part) \in Records
      BY <3>2 DEF RecordOf, Records, Types, AnyValue
    <3> QED
      BY <3>1, <3>3
  <2>3. Len(journal') <= Len(journal) + 1
    BY <1>1, <2>2
  <2> QED
    BY <1>1, <1>2, <2>1, <2>3
<1>3. CASE ~(flush.at = "records" /\ Left # {})
  <2>1. journal' = journal
    BY <1>3 DEF CutRecord
  <2> QED
    BY <1>1, <2>1
<1> QED
  BY <1>2, <1>3

LEMMA NextFits ==
  ASSUME JournalInv, FitsInv, [Next]_vars, JournalInv'
  PROVE  FitsInv'
<1>1. Types /\ Types' /\ FlushAgrees
  BY DEF JournalInv
<1>2. /\ dirty \in SUBSET Blocks /\ Left \in SUBSET dirty /\ Len(journal) \in Nat
      /\ Cardinality(dirty) \in Nat /\ Cardinality(Left) \in Nat
      /\ Cardinality(Left) <= Cardinality(dirty) /\ Needed \in Nat
      /\ flush.at = "off" => Needed = 0
  BY <1>1, NeededIs
<1>3. Len(journal') \in Nat
  BY <1>1 DEF Types
<1>4. /\ Len(journal) + Needed <= MaxJournal /\ MaxJournal \in Nat
      /\ flush.next \in 0 .. NBlocks /\ (~cached => dirty = {} /\ flush = Off)
  BY JournalAssumption DEF FitsInv
<1>5. /\ flush.at \in {"off", "call", "header", "records"} /\ flush.again \in BOOLEAN
      /\ flush.at # "off" => cached
  BY <1>1 DEF Types, FlushStates, FlushAgrees
<1>6. CASE UNCHANGED vars
  <2>1. UNCHANGED <<cached, dirty, flush, journal>>
    BY <1>6 DEF vars, memberVars, fileVars
  <2> QED
    BY <2>1 DEF FitsInv, Needed, Left
<1>7. CASE zip_member_get
  <2>1. cached' = TRUE /\ UNCHANGED <<journal, flush>> /\ ~cached
    BY <1>7 DEF zip_member_get, fileVars
  <2>2. flush = Off
    BY <1>4, <2>1
  <2> QED
    BY <1>2, <1>4, <2>1, <2>2 DEF FitsInv, Needed, Off
<1>8. ASSUME NEW b \in Blocks, NEW value \in Value, px68k_zip_write(b, value)
      PROVE  FitsInv'
  <2>1. flush = Off /\ cached /\ UNCHANGED <<cached, journal, flush>>
    BY <1>8 DEF px68k_zip_write, fileVars
  <2> QED
    BY <1>2, <1>4, <2>1 DEF FitsInv, Needed, Off
<1>9. ASSUME NEW caller \in Callers, Close(caller) PROVE FitsInv'
  <2>1. /\ Len(journal) + 2 * Cardinality(dirty) + 1 <= MaxJournal
        /\ flush' = [at |-> "call", next |-> 0, again |-> caller.again, drop |-> caller.drop]
        /\ cached /\ UNCHANGED <<cached, dirty, journal>>
    BY <1>9 DEF Close, memberVars, fileVars
  <2>2. flush'.at = "call" /\ flush'.next = 0 /\ flush'.again = caller.again
    BY <2>1
  <2>3. Needed' <= 2 * Cardinality(dirty) /\ Needed' \in Nat
    <3>1. caller.again = FALSE \/ caller.again = TRUE
      <4>1. \A c \in Callers : c.again = FALSE \/ c.again = TRUE
        BY DEF Callers
      <4> QED
        BY <4>1
    <3>2. Needed' = Cardinality(dirty) + (IF caller.again THEN Cardinality(dirty) ELSE 0)
      BY <2>1, <2>2 DEF Needed
    <3> QED
      BY <1>2, <3>1, <3>2
  <2>4. Len(journal') + Needed' <= MaxJournal
    BY <1>2, <1>4, <2>1, <2>3
  <2> QED
    BY <2>1, <2>2, <2>4, BlocksAssumption DEF FitsInv
<1>10. CASE FlushDoesNothing
  <2>1. flush.at = "call" /\ Return(dirty) /\ journal' = journal
    BY <1>10 DEF FlushDoesNothing, fileVars
  <2>2. Needed = Cardinality(dirty) + (IF flush.again THEN Cardinality(dirty) ELSE 0)
    BY <2>1 DEF Needed
  <2>3. Len(journal') <= Len(journal) + Needed - (IF flush.again THEN Cardinality(dirty) ELSE 0)
    BY <1>2, <1>5, <2>1, <2>2
  <2> QED
    BY <1>1, <1>5, <2>1, <2>3, ReturnFits
<1>11. CASE FlushOpens
  <2>1. /\ flush.at = "call" /\ cached /\ UNCHANGED <<cached, dirty, journal>>
        /\ flush' = [flush EXCEPT !.at = IF file = "absent" THEN "header" ELSE "records"]
    BY <1>5, <1>11 DEF FlushOpens, memberVars
  <2>2. /\ flush'.at \in {"header", "records"} /\ flush'.again = flush.again
        /\ flush'.next = 0 /\ flush.next = 0
    BY <1>1, <2>1 DEF Types, FlushStates, FlushAgrees
  <2>3. Left' = dirty
    <3>1. \A b \in dirty : b >= 0
      BY <1>2 DEF Blocks
    <3> QED
      BY <2>1, <2>2, <3>1 DEF Left
  <2>4. Needed = Cardinality(dirty) + (IF flush.again THEN Cardinality(dirty) ELSE 0)
    BY <2>1 DEF Needed
  <2>5. Needed' = Cardinality(dirty) + (IF flush.again THEN Cardinality(dirty) ELSE 0)
    BY <2>1, <2>2, <2>3 DEF Needed
  <2> QED
    BY <1>4, <2>1, <2>2, <2>4, <2>5, BlocksAssumption DEF FitsInv
<1>12. CASE WriteHeader
  <2>1. /\ flush.at = "header" /\ cached /\ UNCHANGED <<cached, dirty, journal>>
        /\ flush' = [flush EXCEPT !.at = "records"]
    BY <1>5, <1>12 DEF WriteHeader, memberVars
  <2>2. /\ flush'.at = "records" /\ flush'.again = flush.again /\ flush'.next = 0
    BY <1>1, <2>1 DEF Types, FlushStates, FlushAgrees
  <2>3. Left' = dirty
    <3>1. \A b \in dirty : b >= 0
      BY <1>2 DEF Blocks
    <3> QED
      BY <2>1, <2>2, <3>1 DEF Left
  <2>4. Needed' = Needed
    BY <2>1, <2>2, <2>3 DEF Needed
  <2> QED
    BY <1>4, <2>1, <2>2, <2>4, BlocksAssumption DEF FitsInv
<1>13. CASE FlushRecord
  <2> DEFINE m == Min(Left)
             r == RecordOf(m, "whole")
  <2>1. /\ flush.at = "records" /\ Left # {} /\ cached /\ UNCHANGED <<cached, dirty>>
        /\ journal' = Append(journal, r)
        /\ flush' = [flush EXCEPT !.next = m + 1]
    BY <1>5, <1>13 DEF FlushRecord, memberVars
  <2>2. m \in Left /\ \A b \in Left : m <= b
    <3>1. Left \in SUBSET Nat
      BY <1>2 DEF Blocks
    <3> QED
      BY <2>1, <3>1, LeastOf
  <2>3. m \in Blocks /\ m >= flush.next
    BY <1>2, <2>2 DEF Left
  <2>4. Len(journal') = Len(journal) + 1
    BY <1>1, <2>1 DEF Types
  <2> HIDE DEF m, r
  <2>5. flush'.at = "records" /\ flush'.again = flush.again /\ flush'.next = m + 1
    BY <1>1, <2>1 DEF Types, FlushStates
  <2>6. Left' = Left \ {m}
    <3>1. flush.next \in Nat /\ m \in Nat /\ \A b \in dirty : b \in Nat
      BY <1>2, <1>4, <2>3 DEF Blocks
    <3>2. \A b \in dirty : b >= m + 1 <=> (b >= flush.next /\ b # m)
      <4> SUFFICES ASSUME NEW b \in dirty PROVE b >= m + 1 <=> (b >= flush.next /\ b # m)
        OBVIOUS
      <4>1. b >= flush.next => b \in Left
        BY DEF Left
      <4>2. b >= flush.next => m <= b
        BY <2>2, <4>1
      <4> QED
        BY <2>3, <3>1, <4>2
    <3> QED
      BY <2>1, <2>5, <3>2 DEF Left
  <2>7. Left \in SUBSET Blocks
    BY <1>2
  <2>8. Cardinality(Left') = Cardinality(Left) - 1
    BY <2>2, <2>6, <2>7, CountsAre
  <2>9. Needed = Cardinality(Left) + (IF flush.again THEN Cardinality(dirty) ELSE 0)
    BY <2>1 DEF Needed
  <2>10. Needed' = Cardinality(Left') + (IF flush.again THEN Cardinality(dirty) ELSE 0)
    BY <2>1, <2>5 DEF Needed
  <2>11. Len(journal') + Needed' <= MaxJournal
    BY <1>2, <1>4, <1>5, <2>4, <2>8, <2>9, <2>10
  <2>12. flush'.next \in 0 .. NBlocks
    BY <2>3, <2>5, BlocksAssumption DEF Blocks
  <2> QED
    BY <2>1, <2>11, <2>12 DEF FitsInv
<1>14. CASE FlushSucceeds
  <2>1. flush.at = "records" /\ Return({}) /\ journal' = journal
    BY <1>14 DEF FlushSucceeds, fileVars
  <2>2. Needed = Cardinality(Left) + (IF flush.again THEN Cardinality(dirty) ELSE 0)
    BY <2>1 DEF Needed
  <2>3. Len(journal') <= Len(journal) + Needed - (IF flush.again THEN Cardinality(dirty) ELSE 0)
    BY <1>2, <1>5, <2>1, <2>2
  <2> QED
    BY <1>1, <1>5, <2>1, <2>3, ReturnFits
<1>15. CASE FlushFails
  <2>1. flush.at \in {"header", "records"} /\ Return(dirty) /\ CutRecord
    BY <1>15 DEF FlushFails
  <2>2. Len(journal') <= Len(journal) + Needed - (IF flush.again THEN Cardinality(dirty) ELSE 0)
    <3>1. CASE flush.at = "header"
      <4>1. Needed = Cardinality(dirty) + (IF flush.again THEN Cardinality(dirty) ELSE 0)
        BY <3>1 DEF Needed
      <4>2. Len(journal') = Len(journal)
        BY <1>1, <2>1, <3>1, CutRecordFits
      <4> QED
        BY <1>2, <1>5, <4>1, <4>2
    <3>2. CASE flush.at = "records"
      <4>1. Needed = Cardinality(Left) + (IF flush.again THEN Cardinality(dirty) ELSE 0)
        BY <3>2 DEF Needed
      <4>2. Len(journal') <= Len(journal) + Cardinality(Left)
        BY <1>1, <2>1, <3>2, CutRecordFits
      <4> QED
        BY <1>2, <1>3, <1>5, <4>1, <4>2
    <3> QED
      BY <2>1, <3>1, <3>2
  <2> QED
    BY <1>1, <1>5, <2>1, <2>2, ReturnFits
<1>16. CASE Crash
  <2>1. CutRecord /\ cached' = FALSE /\ dirty' = {} /\ flush' = Off
    BY <1>16 DEF Crash
  <2>2. Needed' = 0 /\ flush'.next \in 0 .. NBlocks
    BY <2>1, BlocksAssumption DEF Needed, Off
  <2>3. Len(journal') <= MaxJournal
    <3>1. CASE flush.at = "records"
      <4>1. Needed >= Cardinality(Left)
        BY <1>2, <1>5, <3>1 DEF Needed
      <4> QED
        BY <1>1, <1>2, <1>3, <1>4, <2>1, <3>1, <4>1, CutRecordFits
    <3>2. CASE flush.at # "records"
      BY <1>1, <1>2, <1>3, <1>4, <2>1, <3>2, CutRecordFits
    <3> QED
      BY <3>1, <3>2
  <2> QED
    BY <1>3, <2>1, <2>2, <2>3 DEF FitsInv
<1> QED
  BY <1>6, <1>7, <1>8, <1>9, <1>10, <1>11, <1>12, <1>13, <1>14, <1>15, <1>16 DEF Next

LEMMA InitFits ==
  Init => FitsInv
BY BlocksAssumption, JournalAssumption DEF Init, FitsInv, Needed, Off

LEMMA InvGivesTypes ==
  JournalInv /\ FitsInv => TypeOK
<1> SUFFICES ASSUME JournalInv, FitsInv PROVE TypeOK
  OBVIOUS
<1>1. Types /\ FlushAgrees
  BY DEF JournalInv
<1>2. Needed \in Nat /\ Len(journal) \in Nat
  BY <1>1, NeededIs
<1>3. Len(journal) <= MaxJournal
  BY <1>2, JournalAssumption DEF FitsInv
<1> QED
  BY <1>1, <1>3 DEF FitsInv, Types, FlushAgrees, FlushStates, TypeOK, AnyValue

-----------------------------------------------------------------------------
(* Slots and paths.                                                        *)
LEMMA SlotsAre ==
  /\ 0 \in Slots!Slot /\ Slots!Slot \subseteq Nat /\ Slots!NoSlot \notin Slots!Slot
  /\ \A s \in Slots!Slot : s # Slots!NoSlot
<1>1. ZIP_SLOTS \in Nat \ {0}
  BY TablesAssumption
<1> QED
  BY <1>1 DEF Slots!Slot, Slots!NoSlot

LEMMA PathsAre ==
  /\ \A p \in Slots!Virtual : p.slot \in Slots!Slot /\ p.of \in Archive /\ p # Slots!Other
  /\ \A p \in Slots!Path : p \in Slots!Virtual \/ p = Slots!Other
  /\ Slots!Other \in Slots!Path /\ Slots!Virtual \subseteq Slots!Path
  /\ Slots!Other \notin Slots!Virtual
<1>1. \A p \in Slots!Virtual : p.slot \in Slots!Slot /\ p.of \in Archive
  BY DEF Slots!Virtual
<1>2. Slots!Other.slot = Slots!NoSlot
  BY DEF Slots!Other
<1>3. \A p \in Slots!Virtual : p # Slots!Other
  BY <1>1, <1>2, SlotsAre
<1> QED
  BY <1>1, <1>3 DEF Slots!Path

(* The statics of zipdisk.c.                                               *)
OpenTypes == [slot : Slots!Slot \union {Slots!NoSlot}, from : Archive \union {NoArchive}]
MemberTypes == [path : Slots!Virtual, from : Archive]

ZipTypes ==
  [archive : [Slots!Slot -> Archive \union {NoArchive}], age : [Slots!Slot -> 0 .. ZIP_SLOTS],
   pinned : Slots!Slot \union {Slots!NoSlot}, open : OpenTypes,
   members : SUBSET MemberTypes]

(* What is open or in memory comes from the archive in its slot, and one   *)
(* member is in memory at most: a hard disk.                               *)
Honest(z) ==
  /\ z.open.slot # Slots!NoSlot => /\ z.open.from \in Archive
                                   /\ z.open.from = z.archive[z.open.slot]
  /\ \A m \in z.members : m.from = z.archive[m.path.slot]
  /\ \A m, n \in z.members : m.path = n.path

(* The archive in a slot is opened.                                        *)
LEMMA OpenIs ==
  ASSUME NEW z \in ZipTypes, Honest(z), NEW s \in Slots!Slot
  PROVE  LET o == Slots!OpenSlot(z, s)
         IN  /\ o \in ZipTypes /\ Honest(o)
             /\ o.archive = z.archive /\ o.pinned = z.pinned /\ o.members = z.members
             /\ z.archive[s] # NoArchive => o.open.from = z.archive[s]
<1>1. CASE z.archive[s] = NoArchive \/ z.open.slot = s
  <2>1. Slots!OpenSlot(z, s) = z
    BY <1>1 DEF Slots!OpenSlot
  <2>2. z.open.slot = s => z.open.from = z.archive[s]
    BY SlotsAre DEF Honest
  <2> QED
    BY <1>1, <2>1, <2>2
<1>2. CASE z.archive[s] # NoArchive /\ z.open.slot # s
  <2> DEFINE open == [slot |-> s, from |-> z.archive[s]]
             o == [z EXCEPT !.open = open]
  <2>1. Slots!OpenSlot(z, s) = o
    BY <1>2 DEF Slots!OpenSlot
  <2>2. z.archive[s] \in Archive
    BY <1>2 DEF ZipTypes
  <2>3. open \in OpenTypes /\ open.slot = s /\ open.from = z.archive[s]
    BY <2>2 DEF OpenTypes
  <2> HIDE DEF open
  <2>4. o \in ZipTypes
    BY <2>3 DEF ZipTypes
  <2>5. o.archive = z.archive /\ o.pinned = z.pinned /\ o.members = z.members /\ o.open = open
    BY DEF ZipTypes
  <2> HIDE DEF o
  <2>6. Honest(o)
    BY <2>2, <2>3, <2>5 DEF Honest
  <2> QED
    BY <2>1, <2>3, <2>4, <2>5, <2>6
<1> QED
  BY <1>1, <1>2

(* ... for a table that names its members, whose slot is pinned.           *)
LEMMA PinnedIs ==
  ASSUME NEW z \in ZipTypes, Honest(z), NEW s \in Slots!Slot
  PROVE  LET o == Slots!Pinned(z, s)
         IN  /\ o \in ZipTypes /\ Honest(o)
             /\ o.archive = z.archive /\ o.pinned = s /\ o.members = z.members
             /\ z.archive[s] # NoArchive => o.open.from = z.archive[s]
<1> DEFINE o == Slots!OpenSlot(z, s)
           q == [o EXCEPT !.pinned = s]
<1>1. /\ o \in ZipTypes /\ Honest(o)
      /\ o.archive = z.archive /\ o.members = z.members
      /\ z.archive[s] # NoArchive => o.open.from = z.archive[s]
  BY OpenIs
<1>2. Slots!Pinned(z, s) = q
  BY DEF Slots!Pinned
<1> HIDE DEF o
<1>3. q \in ZipTypes
  BY <1>1 DEF ZipTypes
<1>4. q.pinned = s /\ q.archive = o.archive /\ q.members = o.members /\ q.open = o.open
  BY <1>1 DEF ZipTypes
<1> HIDE DEF q
<1>5. Honest(q)
  BY <1>1, <1>4 DEF Honest
<1> QED
  BY <1>1, <1>2, <1>3, <1>4, <1>5

(* ... to read a member that is not in memory.                             *)
LEMMA AfterOpeningIs ==
  ASSUME NEW z \in ZipTypes, Honest(z), NEW p
  PROVE  LET o == Slots!AfterOpening(z, p)
         IN  /\ o \in ZipTypes /\ Honest(o)
             /\ o.archive = z.archive /\ o.pinned = z.pinned /\ o.members = z.members
<1>1. CASE Slots!VirtualSlot(z, p) = Slots!NoSlot
  BY <1>1 DEF Slots!AfterOpening
<1>2. CASE Slots!VirtualSlot(z, p) # Slots!NoSlot
  <2>1. p \in Slots!Virtual
    BY <1>2 DEF Slots!VirtualSlot
  <2>2. p.slot \in Slots!Slot
    BY <2>1, PathsAre
  <2> QED
    BY <2>2, OpenIs DEF Slots!AfterOpening
<1> QED
  BY <1>1, <1>2

(* The ages of the slots after one is used.                                *)
LEMMA UsedTyped ==
  ASSUME NEW age \in [Slots!Slot -> 0 .. ZIP_SLOTS], NEW s \in Slots!Slot
  PROVE  Slots!Used(age, s) \in [Slots!Slot -> 0 .. ZIP_SLOTS]
<1>1. ZIP_SLOTS \in Nat
  BY TablesAssumption
<1>2. \A t \in Slots!Slot :
        (IF t = s THEN ZIP_SLOTS ELSE IF age[t] > age[s] THEN age[t] - 1 ELSE age[t])
          \in 0 .. ZIP_SLOTS
  BY <1>1
<1> QED
  BY <1>2 DEF Slots!Used

(* An archive is given a slot: nothing stays open of the one before, and   *)
(* nothing in memory.                                                      *)
LEMMA RegisterIs ==
  ASSUME NEW z \in ZipTypes, Honest(z), NEW a \in Archive, NEW s \in Slots!Slot
  PROVE  LET r == Slots!Register(z, a, s)
         IN  /\ r \in ZipTypes /\ Honest(r) /\ r.pinned = z.pinned
             /\ \A t \in Slots!Slot : r.archive[t] = IF t = s THEN a ELSE z.archive[t]
<1> DEFINE age == Slots!Used(z.age, s)
<1>1. age \in [Slots!Slot -> 0 .. ZIP_SLOTS]
  <2>1. z.age \in [Slots!Slot -> 0 .. ZIP_SLOTS]
    BY DEF ZipTypes
  <2> QED
    BY <2>1, UsedTyped
<1>2. CASE z.archive[s] = a
  <2> DEFINE r == [z EXCEPT !.age = age]
  <2>1. Slots!Register(z, a, s) = r
    BY <1>2 DEF Slots!Register
  <2> HIDE DEF age
  <2>2. r \in ZipTypes
    BY <1>1 DEF ZipTypes
  <2>3. /\ r.archive = z.archive /\ r.pinned = z.pinned /\ r.open = z.open
        /\ r.members = z.members
    BY DEF ZipTypes
  <2> HIDE DEF r
  <2>4. Honest(r)
    BY <2>3 DEF Honest
  <2> QED
    BY <1>2, <2>1, <2>2, <2>3, <2>4
<1>3. CASE z.archive[s] # a
  <2> DEFINE archive == [z.archive EXCEPT ![s] = a]
             open == IF z.open.slot = s THEN Slots!Closed ELSE z.open
             members == {m \in z.members : Slots!VirtualSlot(z, m.path) # s}
             x == [z EXCEPT !.archive = archive, !.age = age]
             r == [x EXCEPT !.open = open, !.members = members]
  <2>1. Slots!Register(z, a, s) = r
    BY <1>3 DEF Slots!Register
  <2>2. /\ z.archive \in [Slots!Slot -> Archive \union {NoArchive}] /\ z.open \in OpenTypes
        /\ z.members \in SUBSET MemberTypes
    BY DEF ZipTypes
  <2>3. /\ archive \in [Slots!Slot -> Archive \union {NoArchive}]
        /\ \A t \in Slots!Slot : archive[t] = IF t = s THEN a ELSE z.archive[t]
    BY <2>2
  <2>4. open \in OpenTypes
    BY <2>2 DEF OpenTypes, Slots!Closed
  <2>5. open.slot # Slots!NoSlot => open = z.open /\ open.slot # s
    BY DEF Slots!Closed
  <2>6. members \in SUBSET MemberTypes /\ members \subseteq z.members
    BY <2>2
  <2>7. \A m \in members : m \in z.members /\ m.path.slot # s
    <3> SUFFICES ASSUME NEW m \in members PROVE m.path.slot # s
      BY <2>6
    <3>1. m \in MemberTypes /\ m \in z.members
      BY <2>2
    <3>2. m.path \in Slots!Virtual /\ m.from \in Archive
      BY <3>1 DEF MemberTypes
    <3>3. z.archive[m.path.slot] # NoArchive
      BY <3>1, <3>2, ArchiveAssumption DEF Honest
    <3>4. Slots!VirtualSlot(z, m.path) = m.path.slot
      BY <3>2, <3>3 DEF Slots!VirtualSlot
    <3> QED
      BY <3>4
  <2> HIDE DEF archive, open, members, age
  <2>8. x \in ZipTypes /\ x.archive = archive /\ x.pinned = z.pinned
    BY <1>1, <2>3 DEF ZipTypes
  <2> HIDE DEF x
  <2>9. r \in ZipTypes
    BY <2>4, <2>6, <2>8 DEF ZipTypes
  <2>10. r.archive = archive /\ r.pinned = z.pinned /\ r.open = open /\ r.members = members
    BY <2>8 DEF ZipTypes
  <2> HIDE DEF r
  <2>11. Honest(r)
    <3>1. ASSUME open.slot # Slots!NoSlot
          PROVE  open.from \in Archive /\ open.from = archive[open.slot]
      <4>1. open = z.open /\ open.slot # s /\ open.slot \in Slots!Slot
        BY <2>4, <2>5, <3>1 DEF OpenTypes
      <4> QED
        BY <2>3, <3>1, <4>1 DEF Honest
    <3>2. \A m \in members : m.from = archive[m.path.slot]
      <4> SUFFICES ASSUME NEW m \in members PROVE m.from = archive[m.path.slot]
        OBVIOUS
      <4>1. m.path.slot \in Slots!Slot /\ m.path.slot # s /\ m \in z.members
        BY <2>6, <2>7, PathsAre DEF MemberTypes
      <4> QED
        BY <2>3, <4>1 DEF Honest
    <3>3. \A m, n \in members : m.path = n.path
      BY <2>6 DEF Honest
    <3> QED
      BY <2>10, <3>1, <3>2, <3>3 DEF Honest
  <2> QED
    BY <2>1, <2>3, <2>9, <2>10, <2>11
<1> QED
  BY <1>2, <1>3

(* The slot an archive is given has it already, is free, or is one that    *)
(* nobody uses.                                                            *)
LEMMA SlotForIs ==
  ASSUME NEW z \in ZipTypes, NEW a \in Archive, NEW s, s = Slots!SlotFor(z, a)
  PROVE  \/ s = Slots!NoSlot
         \/ /\ s \in Slots!Slot
            /\ z.archive[s] = a \/ z.archive[s] = NoArchive \/ ~Slots!SlotInUse(z, s)
<1> DEFINE own == {t \in Slots!Slot : z.archive[t] = a}
           free == {t \in Slots!Slot : z.archive[t] = NoArchive}
           idle == {t \in Slots!Slot : ~Slots!SlotInUse(z, t)}
           Lowest(t) == \A u \in free : t <= u
           Oldest(t) == \A u \in idle : z.age[t] <= z.age[u]
<1>1. CASE own # {}
  <2>1. s = CHOOSE t \in own : TRUE
    BY <1>1 DEF Slots!SlotFor
  <2>2. s \in own
    BY <1>1, <2>1
  <2> QED
    BY <2>2
<1>2. CASE own = {} /\ free # {}
  <2>1. s = CHOOSE t \in free : Lowest(t)
    BY <1>2 DEF Slots!SlotFor
  <2>2. free \in SUBSET Nat
    BY SlotsAre
  <2>3. \E t \in free : Lowest(t)
    <3> HIDE DEF free
    <3> QED
      BY <1>2, <2>2, LeastOf
  <2> HIDE DEF Lowest
  <2>4. s \in free
    BY <2>1, <2>3
  <2> QED
    BY <2>4
<1>3. CASE own = {} /\ free = {} /\ idle # {}
  <2>1. s = CHOOSE t \in idle : Oldest(t)
    BY <1>3 DEF Slots!SlotFor
  <2> DEFINE ages == {z.age[t] : t \in idle}
  <2>2. ages \in SUBSET Nat
    <3>1. z.age \in [Slots!Slot -> 0 .. ZIP_SLOTS]
      BY DEF ZipTypes
    <3> QED
      BY <3>1
  <2>3. ages # {} /\ \A t \in idle : z.age[t] \in ages
    BY <1>3
  <2>4. Min(ages) \in ages /\ \A n \in ages : Min(ages) <= n
    <3> HIDE DEF ages
    <3> QED
      BY <2>2, <2>3, LeastOf
  <2>5. PICK t \in idle : Min(ages) = z.age[t]
    BY <2>4
  <2>6. Oldest(t)
    <3> HIDE DEF ages
    <3> QED
      BY <2>3, <2>4, <2>5
  <2> HIDE DEF Oldest
  <2>7. s \in idle
    BY <2>1, <2>6
  <2> QED
    BY <2>7
<1>4. CASE own = {} /\ free = {} /\ idle = {}
  <2>1. s = Slots!NoSlot
    BY <1>4 DEF Slots!SlotFor
  <2> QED
    BY <2>1
<1> QED
  BY <1>1, <1>2, <1>3, <1>4

(* A path whose slot has the archive it was made for, which has the name.  *)
Images(a) == Range(Floppies[a]) \union Range(Hdfs[a])

Kept(z, p) ==
  p \in Slots!Virtual => z.archive[p.slot] = p.of /\ p.name \in Images(p.of)

(* ZipSlots has its own copies of the library's operators.                 *)
LEMMA SameRange ==
  ASSUME NEW f PROVE Slots!Range(f) = Range(f)
BY DEF Slots!Range, Range

LEMMA SameCardinality ==
  ASSUME NEW S PROVE Slots!Cardinality(S) = Cardinality(S)
BY DEF Slots!Cardinality, Cardinality

(* The images of an archive, in the two lists.                             *)
LEMMA RangeOfBoth ==
  ASSUME NEW S, NEW f \in Seq(S), NEW h \in Seq(S)
  PROVE  Range(f \o h) = Range(f) \union Range(h)
<1>1. /\ Len(f) \in Nat /\ Len(h) \in Nat /\ DOMAIN f = 1 .. Len(f) /\ DOMAIN h = 1 .. Len(h)
      /\ DOMAIN (f \o h) = 1 .. Len(f) + Len(h)
      /\ \A i \in 1 .. Len(f) : (f \o h)[i] = f[i]
      /\ \A i \in 1 .. Len(f) + Len(h) : i > Len(f) => (f \o h)[i] = h[i - Len(f)]
  OBVIOUS
<1> DEFINE c == f \o h
<1> HIDE DEF c
<1>2. \A i \in DOMAIN c : c[i] \in Range(f) \union Range(h)
  <2> SUFFICES ASSUME NEW i \in DOMAIN c PROVE c[i] \in Range(f) \union Range(h)
    OBVIOUS
  <2>1. i \in 1 .. Len(f) + Len(h)
    BY <1>1 DEF c
  <2>2. CASE i <= Len(f)
    <3>1. i \in DOMAIN f /\ c[i] = f[i]
      BY <1>1, <2>1, <2>2 DEF c
    <3> QED
      BY <3>1 DEF Range
  <2>3. CASE i > Len(f)
    <3>1. i - Len(f) \in DOMAIN h /\ c[i] = h[i - Len(f)]
      BY <1>1, <2>1, <2>3 DEF c
    <3> QED
      BY <3>1 DEF Range
  <2> QED
    BY <1>1, <2>1, <2>2, <2>3
<1>3. \A i \in DOMAIN f : f[i] \in Range(c)
  <2> SUFFICES ASSUME NEW i \in DOMAIN f PROVE f[i] \in Range(c)
    OBVIOUS
  <2>1. i \in DOMAIN c /\ c[i] = f[i]
    BY <1>1 DEF c
  <2> QED
    BY <2>1 DEF Range
<1>4. \A i \in DOMAIN h : h[i] \in Range(c)
  <2> SUFFICES ASSUME NEW i \in DOMAIN h PROVE h[i] \in Range(c)
    OBVIOUS
  <2>1. /\ i \in 1 .. Len(h) /\ Len(f) + i \in 1 .. Len(f) + Len(h) /\ Len(f) + i > Len(f)
        /\ (Len(f) + i) - Len(f) = i
    BY <1>1
  <2>2. Len(f) + i \in DOMAIN c /\ c[Len(f) + i] = h[i]
    BY <1>1, <2>1 DEF c
  <2> QED
    BY <2>2 DEF Range
<1>5. Range(c) = Range(f) \union Range(h)
  BY <1>2, <1>3, <1>4 DEF Range
<1> QED
  BY <1>5 DEF c

LEMMA ImagesAre ==
  ASSUME NEW a \in Archive
  PROVE  Range(Floppies[a] \o Hdfs[a]) = Images(a)
<1>1. Floppies[a] \in Seq(STRING) /\ Hdfs[a] \in Seq(STRING)
  BY ArchiveAssumption
<1> QED
  BY <1>1, RangeOfBoth DEF Images

(* Opening such a path reads the archive it was made for.                  *)
LEMMA SourceIs ==
  ASSUME NEW z \in ZipTypes, Honest(z), NEW p \in Slots!Virtual, Kept(z, p)
  PROVE  Slots!Source(z, p) = p.of
<1> DEFINE held == Slots!Cached(z, p)
<1>1. /\ p.slot \in Slots!Slot /\ p.of \in Archive /\ p.slot # Slots!NoSlot
      /\ z.archive[p.slot] = p.of /\ p.name \in Images(p.of) /\ p.of # NoArchive
  BY PathsAre, SlotsAre, ArchiveAssumption DEF Kept
<1>2. CASE held # {}
  <2>1. Slots!Source(z, p) = (CHOOSE m \in held : TRUE).from
    BY <1>2 DEF Slots!Source
  <2>2. PICK m \in held : m = CHOOSE n \in held : TRUE
    BY <1>2
  <2>3. m \in z.members /\ m.path.slot = p.slot
    BY DEF Slots!Cached
  <2> QED
    BY <1>1, <2>1, <2>2, <2>3 DEF Honest
<1>3. CASE held = {}
  <2> DEFINE a == Slots!OpenSlot(z, p.slot).open.from
             there == p.name \in Slots!Range(Floppies[a] \o Hdfs[a])
             room == Slots!Cardinality(z.members) < ZIP_MEMBERS
             opened == IF there /\ room THEN a ELSE NoArchive
             slot == Slots!VirtualSlot(z, p)
  <2>1. slot # Slots!NoSlot
    BY <1>1 DEF Slots!VirtualSlot
  <2>2. Slots!Source(z, p) = opened
    <3>1. Slots!Source(z, p) = IF held # {} THEN (CHOOSE m \in held : TRUE).from
                               ELSE IF slot = Slots!NoSlot THEN NoArchive ELSE opened
      BY DEF Slots!Source
    <3> HIDE DEF held, slot, opened
    <3> QED
      BY <1>3, <2>1, <3>1
  <2>3. a = p.of
    BY <1>1, OpenIs
  <2> HIDE DEF a
  <2>4. there
    <3>1. p.name \in Range(Floppies[p.of] \o Hdfs[p.of])
      BY <1>1, ImagesAre
    <3> QED
      BY <2>3, <3>1, SameRange, Zenon
  <2>5. room
    <3>1. z.members \in SUBSET MemberTypes
      BY DEF ZipTypes
    <3>2. ASSUME NEW m \in z.members, NEW n \in z.members PROVE m = n
      BY <3>1 DEF Honest, MemberTypes
    <3>4. z.members = {} \/ \E m : z.members = {m}
      BY <3>2
    <3>5. Cardinality(z.members) \in {0, 1}
      BY <3>4, FS_EmptySet, FS_Singleton
    <3> QED
      BY <3>5, SameCardinality, TablesAssumption
  <2> QED
    BY <2>2, <2>3, <2>4, <2>5
<1> QED
  BY <1>2, <1>3

-----------------------------------------------------------------------------
(* The Disk Control table.                                                 *)
TableTypes ==
  [path : [Slots!Entry -> Slots!Path], total : 0 .. MAX_DISKS, index : 0 .. MAX_DISKS]

(* Its entries in use name members of the pinned slot, or nothing there.   *)
TableKept(z, t) ==
  /\ t.index <= t.total
  /\ \A i \in Slots!Entry : i < t.total =>
       /\ Kept(z, t.path[i])
       /\ t.path[i] \in Slots!Virtual => t.path[i].slot = z.pinned

LEMMA EntriesAre ==
  /\ MAX_DISKS \in Nat /\ MAX_DISKS >= 2
  /\ \A i \in Slots!Entry : i \in Nat /\ i < MAX_DISKS
  /\ \A i \in Nat : i < MAX_DISKS => i \in Slots!Entry
<1>1. MAX_DISKS \in Nat \ {0, 1}
  BY TablesAssumption
<1> QED
  BY <1>1 DEF Slots!Entry

LEMMA KeptSame ==
  ASSUME NEW z, NEW y, y.archive = z.archive, NEW p, Kept(z, p)
  PROVE  Kept(y, p)
BY DEF Kept

(* A member of an archive in a slot.                                       *)
LEMMA MemberIs ==
  ASSUME NEW s \in Slots!Slot, NEW a \in Archive, NEW name \in Images(a)
  PROVE  [slot |-> s, name |-> name, of |-> a] \in Slots!Virtual
<1>1. name \in Slots!Name
  <2>1. name \in Slots!Range(Floppies[a]) \union Slots!Range(Hdfs[a])
    BY SameRange DEF Images
  <2> QED
    BY <2>1 DEF Slots!Name
<1> QED
  BY <1>1 DEF Slots!Virtual

(* The names of the floppies in a slot.                                    *)
LEMMA FloppiesAre ==
  ASSUME NEW z \in ZipTypes, Honest(z), NEW s \in Slots!Slot
  PROVE  /\ Slots!FloppiesIn(z, s) \in Seq(STRING)
         /\ z.archive[s] = NoArchive => Slots!FloppiesIn(z, s) = << >>
         /\ z.archive[s] # NoArchive => /\ z.archive[s] \in Archive
                                        /\ Slots!FloppiesIn(z, s) = Floppies[z.archive[s]]
<1>1. CASE z.archive[s] = NoArchive
  BY <1>1 DEF Slots!FloppiesIn
<1>2. CASE z.archive[s] # NoArchive
  <2> DEFINE a == Slots!OpenSlot(z, s).open.from
  <2>1. a = z.archive[s]
    BY <1>2, OpenIs
  <2>2. z.archive[s] \in Archive
    BY <1>2 DEF ZipTypes
  <2>3. Slots!FloppiesIn(z, s) = Floppies[a]
    BY <1>2 DEF Slots!FloppiesIn
  <2> HIDE DEF a
  <2>4. Floppies[z.archive[s]] \in Seq(STRING)
    BY <2>2, ArchiveAssumption
  <2> QED
    BY <1>2, <2>1, <2>2, <2>3, <2>4
<1> QED
  BY <1>1, <1>2

(* The table is filled from a slot.                                        *)
LEMMA FilledIs ==
  ASSUME NEW t \in TableTypes, NEW z \in ZipTypes, Honest(z), NEW s \in Slots!Slot,
         z.archive[s] \in Archive,
         NEW first \in Nat, first <= Len(Floppies[z.archive[s]])
  PROVE  LET f == Slots!Filled(t, z, s, first)
             n == Len(Floppies[z.archive[s]])
         IN  /\ f \in TableTypes /\ f.index = t.index
             /\ f.total <= n - first /\ (f.total = n - first \/ f.total = MAX_DISKS)
             /\ \A i \in Slots!Entry : i < f.total =>
                  /\ f.path[i] \in Slots!Virtual /\ f.path[i].slot = s
                  /\ f.path[i].of = z.archive[s] /\ f.path[i].name \in Images(z.archive[s])
<1> DEFINE a == z.archive[s]
           names == Slots!FloppiesIn(z, s)
           len == Len(names)
           room == {len - first, MAX_DISKS}
           Least(k) == \A l \in room : k <= l
           n == CHOOSE k \in room : Least(k)
           entry(i) == [slot |-> s, name |-> names[first + i + 1], of |-> a]
           path == [i \in Slots!Entry |->
                      IF i < n THEN entry(i) ELSE IF i < t.total THEN Slots!Other ELSE t.path[i]]
           f == [t EXCEPT !.total = n, !.path = path]
<1>1. Slots!Filled(t, z, s, first) = f
  BY DEF Slots!Filled
<1>2. a \in Archive /\ a # NoArchive /\ names = Floppies[a] /\ names \in Seq(STRING)
  BY FloppiesAre, ArchiveAssumption
<1>3. /\ len \in Nat /\ first <= len /\ DOMAIN names = 1 .. len
      /\ len = Len(Floppies[z.archive[s]])
  BY <1>2
<1> HIDE DEF names, len
<1>4. n \in room /\ Least(n)
  <2>1. \E k \in room : Least(k)
    BY <1>3, EntriesAre
  <2> HIDE DEF Least, room
  <2> QED
    BY <2>1
<1>5. n \in 0 .. MAX_DISKS /\ n <= len - first /\ (n = len - first \/ n = MAX_DISKS)
  <2> HIDE DEF n
  <2>1. len - first \in Nat
    BY <1>3
  <2> QED
    BY <1>3, <1>4, <2>1, EntriesAre
<1> HIDE DEF n, room, Least
<1>6. \A i \in Slots!Entry : i < n =>
        /\ entry(i) \in Slots!Virtual /\ entry(i).slot = s /\ entry(i).of = a
        /\ entry(i).name \in Images(a)
  <2> SUFFICES ASSUME NEW i \in Slots!Entry, i < n
               PROVE  /\ entry(i) \in Slots!Virtual /\ entry(i).slot = s /\ entry(i).of = a
                      /\ entry(i).name \in Images(a)
    OBVIOUS
  <2>1. first + i + 1 \in DOMAIN names
    <3>1. i \in Nat
      BY EntriesAre
    <3>2. first + i + 1 \in 1 .. len
      BY <1>3, <1>5, <3>1
    <3> QED
      BY <1>3, <3>2
  <2>2. names[first + i + 1] \in Images(a)
    BY <1>2, <2>1 DEF Images, Range
  <2> QED
    BY <1>2, <2>2, MemberIs
<1> HIDE DEF entry
<1>7. /\ path \in [Slots!Entry -> Slots!Path]
      /\ \A i \in Slots!Entry : i < n => path[i] = entry(i)
  BY <1>6, PathsAre DEF TableTypes
<1> HIDE DEF path
<1>8. f \in TableTypes
  BY <1>5, <1>7 DEF TableTypes
<1>9. f.index = t.index /\ f.total = n /\ f.path = path
  BY DEF TableTypes
<1> HIDE DEF f
<1> QED
  BY <1>1, <1>2, <1>3, <1>5, <1>6, <1>7, <1>8, <1>9

(* The window of the table holds the chosen disk.                          *)
LEMMA FirstShownIs ==
  ASSUME NEW n \in Nat, NEW k \in 0 .. n - 1
  PROVE  LET first == Slots!FirstShown(k, n)
         IN  first \in Nat /\ first <= k /\ k - first < MAX_DISKS
BY EntriesAre DEF Slots!FirstShown

-----------------------------------------------------------------------------
(* The inductive invariants of the slots.                                  *)
CommandTypes == [h : BOOLEAN, images : Seq(Slots!Virtual)]

(* The variables are in their ranges, what is open or in memory is of the  *)
(* archive in its slot, and a command line for a hard disk names one.      *)
SlotsTyped ==
  /\ zip \in ZipTypes /\ Honest(zip)
  /\ disk \in TableTypes
  /\ FDDImage \in [Slots!Drive -> Slots!Path] /\ HDImage \in Slots!Path
  /\ browse \in [Slots!Drive -> Slots!Slot \union {Slots!NoSlot}]
  /\ menu \in Slots!Drive \union {Slots!NoDrive} /\ shown \in Archive \union {NoArchive}
  /\ phase \in {"fresh", "loaded", "running", "ended"}
  /\ argv \in CommandTypes /\ (argv.h => Len(argv.images) > 0)

(* Outside a session nothing is in a drive, a fresh core has an empty      *)
(* table, and the command line is used up when the session starts.         *)
NothingIn ==
  /\ phase # "running" => HDImage = Slots!Other /\ \A d \in Slots!Drive : FDDImage[d] = Slots!Other
  /\ phase = "fresh" => disk.total = 0 /\ disk.index = 0
  /\ phase # "loaded" => Len(argv.images) = 0

(* In one, each name is of a slot that has the archive it was made for.    *)
DrivesKept(z) == Kept(z, HDImage) /\ \A d \in Slots!Drive : Kept(z, FDDImage[d])
CommandKept(z) == \A k \in 1 .. Len(argv.images) : Kept(z, argv.images[k])

NamesKept ==
  phase \in {"loaded", "running"} =>
    TableKept(zip, disk) /\ DrivesKept(zip) /\ CommandKept(zip)

(* The menu shows what is in the slot of its browser.                      *)
MenuAgrees ==
  phase = "running" /\ menu \in Slots!Drive /\ browse[menu] # Slots!NoSlot =>
    shown = zip.archive[browse[menu]]

SlotsAgree == NothingIn /\ NamesKept /\ MenuAgrees

SlotsInv == SlotsTyped /\ (Reinits => SlotsAgree)

LEMMA OtherKept ==
  ASSUME NEW z PROVE Kept(z, Slots!Other)
BY PathsAre DEF Kept

(* px68k_zip_reset.                                                        *)
LEMMA ResetIs ==
  /\ Slots!ZipReset \in ZipTypes /\ Honest(Slots!ZipReset)
  /\ \A s \in Slots!Slot : Slots!ZipReset.archive[s] = NoArchive
<1> DEFINE archive == [s \in Slots!Slot |-> NoArchive]
           age == [s \in Slots!Slot |-> 0]
           z == [archive |-> archive, age |-> age, pinned |-> Slots!NoSlot,
                 open |-> Slots!Closed, members |-> {}]
<1>1. Slots!ZipReset = z
  BY DEF Slots!ZipReset
<1>2. /\ archive \in [Slots!Slot -> Archive \union {NoArchive}]
      /\ \A s \in Slots!Slot : archive[s] = NoArchive
  OBVIOUS
<1>3. age \in [Slots!Slot -> 0 .. ZIP_SLOTS]
  BY TablesAssumption
<1>4. Slots!Closed \in OpenTypes /\ Slots!Closed.slot = Slots!NoSlot
  BY DEF OpenTypes, Slots!Closed
<1> HIDE DEF archive, age
<1>5. z \in ZipTypes
  BY <1>2, <1>3, <1>4 DEF ZipTypes
<1>6. z.archive = archive /\ z.open = Slots!Closed /\ z.members = {}
  OBVIOUS
<1> HIDE DEF z
<1>7. Honest(z)
  BY <1>4, <1>6 DEF Honest
<1> QED
  BY <1>1, <1>2, <1>5, <1>6, <1>7

-----------------------------------------------------------------------------
(* Each operation keeps them.  First the frontend's, on the table.         *)
LEMMA SetEjectStateKeeps ==
  ASSUME SlotsInv, NEW d \in Slots!Drive, NEW ejected \in BOOLEAN, Slots!SetEjectState(d, ejected)
  PROVE  SlotsInv'
<1>1. /\ phase = "running" /\ UNCHANGED <<disk, HDImage, browse, menu, shown, phase, argv>>
  BY DEF Slots!SetEjectState, Slots!menuVars, Slots!sessionVars
<1>2. SlotsTyped
  BY DEF SlotsInv
<1> DEFINE p == IF ejected THEN Slots!Other ELSE Slots!Selected(disk)
<1>3. CASE disk.index = disk.total
  <2>1. UNCHANGED <<zip, FDDImage>>
    BY <1>3 DEF Slots!SetEjectState
  <2> QED
    BY <1>1, <2>1 DEF SlotsInv, SlotsTyped, SlotsAgree, NothingIn, NamesKept, MenuAgrees,
                      DrivesKept, CommandKept
<1>4. CASE disk.index # disk.total
  <2>1. FDDImage' = [FDDImage EXCEPT ![d] = p] /\ zip' = Slots!AfterOpening(zip, p)
    BY <1>4 DEF Slots!SetEjectState
  <2>2. /\ zip' \in ZipTypes /\ Honest(zip)'
        /\ zip'.archive = zip.archive /\ zip'.pinned = zip.pinned
    <3> HIDE DEF p
    <3>1. zip \in ZipTypes /\ Honest(zip)
      BY <1>2 DEF SlotsTyped
    <3>2. Honest(Slots!AfterOpening(zip, p))
      BY <3>1, AfterOpeningIs
    <3>3. Honest(zip)'
      BY <2>1, <3>2 DEF Honest
    <3> QED
      BY <2>1, <3>1, <3>3, AfterOpeningIs
  <2>3. p \in Slots!Path
    BY <1>2, PathsAre DEF SlotsTyped, TableTypes, Slots!Selected
  <2>4. ASSUME SlotsAgree PROVE Kept(zip, p)
    <3>1. TableKept(zip, disk)
      BY <1>1, <2>4 DEF SlotsAgree, NamesKept
    <3>2. disk.index \in Slots!Entry => disk.index < disk.total
      BY <1>2, <1>4, <3>1, EntriesAre DEF TableKept, SlotsTyped, TableTypes
    <3> QED
      BY <3>1, <3>2, OtherKept DEF TableKept, Slots!Selected
  <2> HIDE DEF p
  <2>5. FDDImage' \in [Slots!Drive -> Slots!Path]
    BY <1>2, <2>1, <2>3 DEF SlotsTyped
  <2>6. SlotsTyped'
    BY <1>1, <1>2, <2>2, <2>5 DEF SlotsTyped
  <2>7. ASSUME SlotsAgree PROVE SlotsAgree'
    <3>1. NothingIn'
      BY <1>1, <2>7 DEF SlotsAgree, NothingIn
    <3>2. \A e \in Slots!Drive : FDDImage'[e] = FDDImage[e] \/ FDDImage'[e] = p
      BY <1>2, <2>1 DEF SlotsTyped
    <3>3. NamesKept'
      BY <1>1, <2>2, <2>4, <2>7, <3>2
      DEF SlotsAgree, NamesKept, TableKept, DrivesKept, CommandKept, Kept
    <3>4. MenuAgrees'
      BY <1>1, <2>2, <2>7 DEF SlotsAgree, MenuAgrees
    <3> QED
      BY <3>1, <3>3, <3>4 DEF SlotsAgree
  <2> QED
    BY <2>6, <2>7 DEF SlotsInv
<1> QED
  BY <1>3, <1>4

LEMMA SetImageIndexKeeps ==
  ASSUME SlotsInv, NEW i \in 0 .. MAX_DISKS, Slots!SetImageIndex(i)
  PROVE  SlotsInv'
<1>1. /\ phase = "running" /\ i \in 0 .. disk.total /\ disk' = [disk EXCEPT !.index = i]
      /\ UNCHANGED <<zip, FDDImage, HDImage, browse, menu, shown, phase, argv>>
  BY DEF Slots!SetImageIndex, Slots!menuVars, Slots!sessionVars
<1>2. disk \in TableTypes
  BY DEF SlotsInv, SlotsTyped
<1>3. /\ disk' \in TableTypes
      /\ disk'.total = disk.total /\ disk'.index = i /\ disk'.path = disk.path
  BY <1>1, <1>2 DEF TableTypes
<1>4. SlotsTyped'
  BY <1>1, <1>3 DEF SlotsInv, SlotsTyped, Honest
<1>5. ASSUME SlotsAgree PROVE SlotsAgree'
  <2>1. TableKept(zip, disk)'
    <3>1. TableKept(zip, disk)
      BY <1>1, <1>5 DEF SlotsAgree, NamesKept
    <3>2. disk'.index <= disk'.total
      BY <1>1, <1>2, <1>3 DEF TableTypes
    <3> QED
      BY <1>1, <1>3, <3>1, <3>2 DEF TableKept, Kept
  <2> QED
    BY <1>1, <1>5, <2>1
    DEF SlotsAgree, NothingIn, NamesKept, MenuAgrees, DrivesKept, CommandKept, Kept
<1> QED
  BY <1>4, <1>5 DEF SlotsInv

LEMMA AppendImageKeeps ==
  ASSUME SlotsInv, Slots!AppendImage
  PROVE  SlotsInv'
<1> DEFINE last == disk.total
           path == [disk.path EXCEPT ![last] = Slots!Other]
<1>1. /\ phase = "running" /\ last < MAX_DISKS
      /\ disk' = [disk EXCEPT !.total = last + 1, !.path = path]
      /\ UNCHANGED <<zip, FDDImage, HDImage, browse, menu, shown, phase, argv>>
  BY DEF Slots!AppendImage, Slots!menuVars, Slots!sessionVars
<1>2. disk \in TableTypes
  BY DEF SlotsInv, SlotsTyped
<1>3. last \in 0 .. MAX_DISKS /\ last \in Slots!Entry /\ last + 1 \in 0 .. MAX_DISKS
  BY <1>1, <1>2, EntriesAre DEF TableTypes
<1>4. /\ path \in [Slots!Entry -> Slots!Path]
      /\ \A i \in Slots!Entry : path[i] = IF i = last THEN Slots!Other ELSE disk.path[i]
  BY <1>2, <1>3, PathsAre DEF TableTypes
<1> HIDE DEF last, path
<1>5. /\ disk' \in TableTypes
      /\ disk'.total = last + 1 /\ disk'.index = disk.index /\ disk'.path = path
  BY <1>1, <1>2, <1>3, <1>4 DEF TableTypes
<1>6. SlotsTyped'
  BY <1>1, <1>5 DEF SlotsInv, SlotsTyped, Honest
<1>7. ASSUME SlotsAgree PROVE SlotsAgree'
  <2>1. TableKept(zip, disk)
    BY <1>1, <1>7 DEF SlotsAgree, NamesKept
  <2>2. disk'.index <= disk'.total
    BY <1>2, <1>3, <1>5, <2>1 DEF TableKept, TableTypes, last
  <2>3. ASSUME NEW i \in Slots!Entry, i < disk'.total
        PROVE  /\ Kept(zip, disk'.path[i])
               /\ disk'.path[i] \in Slots!Virtual => disk'.path[i].slot = zip.pinned
    <3>1. CASE i = last
      BY <1>4, <1>5, <3>1, OtherKept, PathsAre
    <3>2. CASE i # last
      <4>1. i < disk.total
        BY <1>3, <1>5, <2>3, <3>2, EntriesAre DEF last
      <4> QED
        BY <1>4, <1>5, <2>1, <3>2, <4>1 DEF TableKept
    <3> QED
      BY <3>1, <3>2
  <2>4. TableKept(zip, disk)'
    BY <1>1, <2>2, <2>3 DEF TableKept, Kept
  <2> QED
    BY <1>1, <1>7, <2>4
    DEF SlotsAgree, NothingIn, NamesKept, MenuAgrees, DrivesKept, CommandKept, Kept
<1> QED
  BY <1>6, <1>7 DEF SlotsInv

(* The menu: what it lists is what is in the slot.                         *)
LEMMA ListsKeeps ==
  ASSUME NEW z \in ZipTypes, Honest(z), NEW s \in Slots!Slot \union {Slots!NoSlot},
         Slots!Lists(z, s)
  PROVE  /\ zip' \in ZipTypes /\ Honest(zip)'
         /\ zip'.archive = z.archive /\ zip'.pinned = z.pinned
         /\ shown' \in Archive \union {NoArchive}
         /\ s # Slots!NoSlot => shown' = zip'.archive[s]
<1> DEFINE o == Slots!OpenSlot(z, s)
           listed == o.open.from
<1>1. /\ zip' = IF s = Slots!NoSlot THEN z ELSE o
      /\ shown' = IF s = Slots!NoSlot \/ z.archive[s] = NoArchive THEN NoArchive ELSE listed
  BY DEF Slots!Lists
<1>2. CASE s = Slots!NoSlot
  BY <1>1, <1>2 DEF Honest
<1>3. CASE s # Slots!NoSlot
  <2>1. s \in Slots!Slot
    BY <1>3
  <2>2. /\ o \in ZipTypes /\ Honest(o) /\ o.archive = z.archive /\ o.pinned = z.pinned
        /\ z.archive[s] # NoArchive => listed = z.archive[s]
    BY <2>1, OpenIs
  <2>3. z.archive[s] \in Archive \union {NoArchive}
    BY <2>1 DEF ZipTypes
  <2> HIDE DEF o, listed
  <2>4. zip' = o /\ shown' = IF z.archive[s] = NoArchive THEN NoArchive ELSE listed
    BY <1>1, <1>3
  <2>5. Honest(zip)'
    BY <2>2, <2>4 DEF Honest
  <2> QED
    BY <2>2, <2>3, <2>4, <2>5
<1> QED
  BY <1>2, <1>3

LEMMA MenuFilesKeeps ==
  ASSUME SlotsInv, NEW d \in Slots!Drive, Slots!MenuFiles(d)
  PROVE  SlotsInv'
<1> DEFINE s == Slots!VirtualSlot(zip, FDDImage[d])
           at == IF s = Slots!NoSlot THEN browse[d] ELSE s
<1>1. /\ phase = "running" /\ menu' = d
      /\ UNCHANGED <<disk, FDDImage, HDImage, phase, argv>>
      /\ browse' = [browse EXCEPT ![d] = at] /\ Slots!Lists(zip, at)
  BY DEF Slots!MenuFiles, Slots!sessionVars
<1>2. SlotsTyped
  BY DEF SlotsInv
<1>3. at \in Slots!Slot \union {Slots!NoSlot}
  <2>1. s \in Slots!Slot \union {Slots!NoSlot}
    BY PathsAre DEF Slots!VirtualSlot
  <2> HIDE DEF s
  <2> QED
    BY <1>2, <2>1 DEF SlotsTyped
<1> HIDE DEF s, at
<1>4. /\ zip' \in ZipTypes /\ Honest(zip)'
      /\ zip'.archive = zip.archive /\ zip'.pinned = zip.pinned
      /\ shown' \in Archive \union {NoArchive}
      /\ at # Slots!NoSlot => shown' = zip'.archive[at]
  BY <1>1, <1>2, <1>3, ListsKeeps DEF SlotsTyped
<1>5. browse' \in [Slots!Drive -> Slots!Slot \union {Slots!NoSlot}] /\ browse'[d] = at
  BY <1>1, <1>2, <1>3 DEF SlotsTyped
<1>6. SlotsTyped'
  BY <1>1, <1>2, <1>4, <1>5 DEF SlotsTyped
<1>7. ASSUME SlotsAgree PROVE SlotsAgree'
  <2>1. NothingIn'
    BY <1>1, <1>7 DEF SlotsAgree, NothingIn
  <2>2. NamesKept'
    BY <1>1, <1>4, <1>7 DEF SlotsAgree, NamesKept, TableKept, DrivesKept, CommandKept, Kept
  <2>3. MenuAgrees'
    BY <1>1, <1>4, <1>5 DEF MenuAgrees
  <2> QED
    BY <2>1, <2>2, <2>3 DEF SlotsAgree
<1> QED
  BY <1>6, <1>7 DEF SlotsInv

(* A slot that somebody names is given to no other archive.                *)
LEMMA RegisterKeepsNames ==
  ASSUME SlotsTyped, NamesKept, phase = "running", NEW a \in Archive, NEW s \in Slots!Slot,
         s = Slots!SlotFor(zip, a)
  PROVE  LET r == Slots!Register(zip, a, s)
         IN  TableKept(r, disk) /\ DrivesKept(r)
<1> DEFINE r == Slots!Register(zip, a, s)
<1>1. zip \in ZipTypes /\ Honest(zip) /\ disk \in TableTypes
  BY DEF SlotsTyped
<1>2. /\ r.pinned = zip.pinned
      /\ \A t \in Slots!Slot : r.archive[t] = IF t = s THEN a ELSE zip.archive[t]
  BY <1>1, RegisterIs
<1>3. zip.archive[s] = a \/ zip.archive[s] = NoArchive \/ ~Slots!SlotInUse(zip, s)
  BY <1>1, SlotsAre, SlotForIs
<1>4. TableKept(zip, disk) /\ DrivesKept(zip)
  BY DEF NamesKept
<1> HIDE DEF r
<1>5. ASSUME NEW p, Kept(zip, p),
             p \in Slots!Virtual /\ p.slot = s => Slots!SlotInUse(zip, s)
      PROVE  Kept(r, p)
  <2> SUFFICES ASSUME p \in Slots!Virtual
               PROVE  r.archive[p.slot] = p.of /\ p.name \in Images(p.of)
    BY DEF Kept
  <2>1. /\ p.slot \in Slots!Slot /\ p.of # NoArchive
        /\ zip.archive[p.slot] = p.of /\ p.name \in Images(p.of)
    BY <1>5, PathsAre, ArchiveAssumption DEF Kept
  <2> QED
    BY <1>2, <1>3, <1>5, <2>1
<1>6. ASSUME NEW p, Kept(zip, p), p \in Slots!Virtual
      PROVE  Slots!VirtualSlot(zip, p) = p.slot
  BY <1>6, PathsAre, ArchiveAssumption DEF Kept, Slots!VirtualSlot
<1>7. DrivesKept(r)
  <2>1. Kept(r, HDImage)
    BY <1>4, <1>5, <1>6 DEF DrivesKept, Slots!SlotInUse
  <2>2. ASSUME NEW d \in Slots!Drive PROVE Kept(r, FDDImage[d])
    BY <1>4, <1>5, <1>6 DEF DrivesKept, Slots!SlotInUse
  <2> QED
    BY <2>1, <2>2 DEF DrivesKept
<1>8. TableKept(r, disk)
  <2>1. ASSUME NEW i \in Slots!Entry, i < disk.total PROVE Kept(r, disk.path[i])
    BY <1>4, <1>5, <2>1 DEF TableKept, Slots!SlotInUse
  <2> QED
    BY <1>2, <1>4, <2>1 DEF TableKept
<1> QED
  BY <1>7, <1>8 DEF r

LEMMA MenuEntersKeeps ==
  ASSUME SlotsInv, NEW a \in Archive, Slots!MenuEnters(a)
  PROVE  SlotsInv'
<1> DEFINE s == Slots!SlotFor(zip, a)
           r == Slots!Register(zip, a, s)
<1>1. /\ phase = "running" /\ menu \in Slots!Drive
      /\ UNCHANGED <<disk, FDDImage, HDImage, menu, phase, argv>>
  BY DEF Slots!MenuEnters, Slots!sessionVars
<1>2. SlotsTyped
  BY DEF SlotsInv
<1>3. CASE s = Slots!NoSlot
  <2>1. UNCHANGED <<zip, browse, shown>>
    BY <1>3 DEF Slots!MenuEnters
  <2> QED
    BY <1>1, <2>1 DEF SlotsInv, SlotsTyped, SlotsAgree, NothingIn, NamesKept, MenuAgrees,
                      TableKept, DrivesKept, CommandKept, Honest, Kept
<1>4. CASE s # Slots!NoSlot
  <2>1. browse' = [browse EXCEPT ![menu] = s] /\ Slots!Lists(r, s)
    BY <1>4 DEF Slots!MenuEnters
  <2>2. s \in Slots!Slot
    BY <1>2, <1>4, SlotForIs DEF SlotsTyped
  <2>3. r \in ZipTypes /\ Honest(r)
    <3> HIDE DEF s
    <3> QED
      BY <1>2, <2>2, RegisterIs DEF SlotsTyped
  <2>4. ASSUME SlotsAgree PROVE TableKept(r, disk) /\ DrivesKept(r)
    BY <1>1, <1>2, <2>2, <2>4, RegisterKeepsNames DEF SlotsAgree
  <2> HIDE DEF s, r
  <2>5. /\ zip' \in ZipTypes /\ Honest(zip)'
        /\ zip'.archive = r.archive /\ zip'.pinned = r.pinned
        /\ shown' \in Archive \union {NoArchive} /\ shown' = zip'.archive[s]
    BY <1>4, <2>1, <2>2, <2>3, ListsKeeps
  <2>6. browse' \in [Slots!Drive -> Slots!Slot \union {Slots!NoSlot}] /\ browse'[menu] = s
    BY <1>1, <1>2, <2>1, <2>2 DEF SlotsTyped
  <2>7. SlotsTyped'
    BY <1>1, <1>2, <2>5, <2>6 DEF SlotsTyped
  <2>8. ASSUME SlotsAgree PROVE SlotsAgree'
    <3>1. NothingIn'
      BY <1>1, <2>8 DEF SlotsAgree, NothingIn
    <3>2. TableKept(zip, disk)' /\ DrivesKept(zip)'
      BY <1>1, <2>4, <2>5, <2>8 DEF TableKept, DrivesKept, Kept
    <3>3. CommandKept(zip)'
      BY <1>1, <2>8 DEF SlotsAgree, NothingIn, CommandKept
    <3>4. MenuAgrees'
      BY <1>1, <2>5, <2>6 DEF MenuAgrees
    <3> QED
      BY <3>1, <3>2, <3>3, <3>4 DEF SlotsAgree, NamesKept
  <2> QED
    BY <2>7, <2>8 DEF SlotsInv
<1> QED
  BY <1>3, <1>4

LEMMA MenuLeavesKeeps ==
  ASSUME SlotsInv, Slots!MenuLeaves
  PROVE  SlotsInv'
<1>1. /\ phase = "running" /\ menu \in Slots!Drive
      /\ browse' = [browse EXCEPT ![menu] = Slots!NoSlot] /\ Slots!Lists(zip, Slots!NoSlot)
      /\ UNCHANGED <<disk, FDDImage, HDImage, menu, phase, argv>>
  BY DEF Slots!MenuLeaves, Slots!sessionVars
<1>2. SlotsTyped
  BY DEF SlotsInv
<1>3. zip' = zip /\ shown' = NoArchive
  BY <1>1 DEF Slots!Lists
<1>4. browse' \in [Slots!Drive -> Slots!Slot \union {Slots!NoSlot}] /\ browse'[menu] = Slots!NoSlot
  BY <1>1, <1>2 DEF SlotsTyped
<1>5. SlotsTyped'
  BY <1>1, <1>2, <1>3, <1>4 DEF SlotsTyped, Honest
<1>6. ASSUME SlotsAgree PROVE SlotsAgree'
  BY <1>1, <1>3, <1>4, <1>6
  DEF SlotsAgree, NothingIn, NamesKept, MenuAgrees, TableKept, DrivesKept, CommandKept, Kept
<1> QED
  BY <1>5, <1>6 DEF SlotsInv

LEMMA MenuClosesKeeps ==
  ASSUME SlotsInv, Slots!MenuCloses
  PROVE  SlotsInv'
<1>1. /\ menu' = Slots!NoDrive /\ shown' = NoArchive
      /\ UNCHANGED <<zip, disk, FDDImage, HDImage, browse, phase, argv>>
  BY DEF Slots!MenuCloses, Slots!sessionVars
<1>2. SlotsTyped'
  BY <1>1 DEF SlotsInv, SlotsTyped, Honest
<1>3. ASSUME SlotsAgree PROVE SlotsAgree'
  BY <1>1, <1>3
  DEF SlotsAgree, NothingIn, NamesKept, MenuAgrees, TableKept, DrivesKept, CommandKept, Kept,
      Slots!Drive, Slots!NoDrive
<1> QED
  BY <1>2, <1>3 DEF SlotsInv

(* A drive, or the hard disk, is given a file outside the archives.        *)
LEMMA GivenOther ==
  ASSUME SlotsInv, phase = "running", NEW d \in Slots!Drive,
         \/ FDDImage' = [FDDImage EXCEPT ![d] = Slots!Other] /\ HDImage' = HDImage
         \/ FDDImage' = FDDImage /\ HDImage' = Slots!Other,
         \/ UNCHANGED <<menu, shown>>
         \/ menu' = Slots!NoDrive /\ shown' = NoArchive,
         UNCHANGED <<zip, disk, browse, phase, argv>>
  PROVE  SlotsInv'
<1>1. FDDImage \in [Slots!Drive -> Slots!Path] /\ HDImage \in Slots!Path
  BY DEF SlotsInv, SlotsTyped
<1>2. /\ FDDImage' \in [Slots!Drive -> Slots!Path] /\ HDImage' \in Slots!Path
      /\ \A e \in Slots!Drive : FDDImage'[e] \in {FDDImage[e], Slots!Other}
      /\ HDImage' \in {HDImage, Slots!Other}
  BY <1>1, PathsAre
<1>3. SlotsTyped'
  BY <1>2 DEF SlotsInv, SlotsTyped, Honest
<1>4. ASSUME SlotsAgree PROVE SlotsAgree'
  <2>1. DrivesKept(zip)
    BY <1>4 DEF SlotsAgree, NamesKept
  <2>2. DrivesKept(zip)'
    <3>1. Kept(zip, Slots!Other)
      BY OtherKept
    <3>2. \A p : Kept(zip, p) => Kept(zip', p)
      BY DEF Kept
    <3> QED
      BY <1>2, <2>1, <3>1, <3>2 DEF DrivesKept, Kept
  <2>3. MenuAgrees'
    BY <1>4 DEF SlotsAgree, MenuAgrees, Slots!Drive, Slots!NoDrive
  <2>4. NamesKept'
    BY <1>4, <2>2 DEF SlotsAgree, NamesKept, TableKept, CommandKept, Kept
  <2>5. NothingIn'
    BY <1>4 DEF SlotsAgree, NothingIn
  <2> QED
    BY <2>3, <2>4, <2>5 DEF SlotsAgree
<1> QED
  BY <1>3, <1>4 DEF SlotsInv

LEMMA MenuChoosesFileKeeps ==
  ASSUME SlotsInv, Slots!MenuChoosesFile
  PROVE  SlotsInv'
BY GivenOther DEF Slots!MenuChoosesFile, Slots!sessionVars

LEMMA MenuEjectsKeeps ==
  ASSUME SlotsInv, NEW d \in Slots!Drive, Slots!MenuEjects(d)
  PROVE  SlotsInv'
BY GivenOther DEF Slots!MenuEjects, Slots!sessionVars, Slots!menuVars

LEMMA MenuChangesHdKeeps ==
  ASSUME SlotsInv, Slots!MenuChangesHd
  PROVE  SlotsInv'
<1>1. 0 \in Slots!Drive
  BY DEF Slots!Drive
<1> QED
  BY <1>1, GivenOther DEF Slots!MenuChangesHd, Slots!sessionVars, Slots!menuVars

(* A member is chosen: the table is filled from its slot, which is pinned. *)
LEMMA MenuChoosesKeeps ==
  ASSUME SlotsInv, NEW name, NEW pair \in BOOLEAN, Slots!MenuChooses(name, pair)
  PROVE  SlotsInv'
<1> DEFINE s == browse[menu]
           names == Slots!FloppiesIn(zip, s)
           found == {i \in DOMAIN names : names[i] = name}
           Lowest(i) == \A j \in found : i <= j
           at0 == CHOOSE i \in found : Lowest(i)
           selected == at0 - 1
           len == Len(names)
           first == Slots!FirstShown(selected, len)
           t == Slots!Filled(disk, zip, s, first)
           at == selected - first
           z == Slots!Pinned(zip, s)
           second == IF at + 1 < t.total THEN t.path[at + 1] ELSE Slots!Other
           to(d) == IF d = menu THEN t.path[at] ELSE second
           changed == {menu} \union (IF menu = 0 /\ pair THEN {1} ELSE {})
<1>1. /\ phase = "running" /\ menu \in Slots!Drive /\ s # Slots!NoSlot
      /\ menu' = Slots!NoDrive /\ shown' = NoArchive
      /\ UNCHANGED <<HDImage, browse, phase, argv>>
  BY DEF Slots!MenuChooses, Slots!sessionVars
<1>2. /\ SlotsTyped /\ zip \in ZipTypes /\ Honest(zip) /\ disk \in TableTypes
      /\ s \in Slots!Slot
  BY <1>1 DEF SlotsInv, SlotsTyped
<1>3. menu' \notin Slots!Drive /\ menu' \in Slots!Drive \union {Slots!NoDrive}
  BY <1>1 DEF Slots!Drive, Slots!NoDrive
<1>4. CASE found = {}
  <2>1. UNCHANGED <<zip, disk, FDDImage>>
    BY <1>4 DEF Slots!MenuChooses
  <2>2. SlotsTyped'
    BY <1>1, <1>2, <1>3, <2>1 DEF SlotsTyped, Honest
  <2>3. ASSUME SlotsAgree PROVE SlotsAgree'
    BY <1>1, <1>3, <2>1, <2>3
    DEF SlotsAgree, NothingIn, NamesKept, MenuAgrees, TableKept, DrivesKept, CommandKept, Kept
  <2> QED
    BY <2>2, <2>3 DEF SlotsInv
<1>5. CASE found # {}
  <2>1. /\ disk' = [t EXCEPT !.index = at] /\ zip' = z
        /\ FDDImage' = [d \in Slots!Drive |-> IF d \in changed THEN to(d) ELSE FDDImage[d]]
    BY <1>5 DEF Slots!MenuChooses
  <2>2. /\ names \in Seq(STRING)
        /\ zip.archive[s] \in Archive /\ names = Floppies[zip.archive[s]]
    <3>1. names # << >>
      BY <1>5
    <3> QED
      BY <1>2, <3>1, FloppiesAre
  <2>3. len \in Nat /\ DOMAIN names = 1 .. len /\ len = Len(Floppies[zip.archive[s]])
    BY <2>2
  <2>4. at0 \in found
    <3>1. found \in SUBSET Nat
      BY <2>3
    <3>2. \E i \in found : Lowest(i)
      <4> HIDE DEF found
      <4> QED
        BY <1>5, <3>1, LeastOf
    <3> HIDE DEF found, Lowest
    <3> QED
      BY <3>2
  <2>5. at0 \in 1 .. len
    BY <2>3, <2>4
  <2> HIDE DEF at0, found, len, names
  <2>6. selected \in 0 .. len - 1
    BY <2>3, <2>5
  <2> HIDE DEF selected
  <2>7. first \in Nat /\ first <= selected /\ selected - first < MAX_DISKS
    BY <2>3, <2>6, FirstShownIs
  <2> HIDE DEF first
  <2>8. /\ t \in TableTypes
        /\ t.total <= len - first /\ (t.total = len - first \/ t.total = MAX_DISKS)
        /\ \A i \in Slots!Entry : i < t.total =>
             /\ t.path[i] \in Slots!Virtual /\ t.path[i].slot = s
             /\ t.path[i].of = zip.archive[s] /\ t.path[i].name \in Images(zip.archive[s])
    <3> HIDE DEF s
    <3>1. first <= Len(Floppies[zip.archive[s]])
      BY <2>3, <2>6, <2>7
    <3>2. disk \in TableTypes /\ zip \in ZipTypes /\ Honest(zip) /\ s \in Slots!Slot
      BY <1>2
    <3>3. zip.archive[s] \in Archive /\ first \in Nat /\ len = Len(Floppies[zip.archive[s]])
      BY <2>2, <2>3, <2>7
    <3> QED
      BY <3>1, <3>2, <3>3, FilledIs
  <2>9. /\ z \in ZipTypes /\ Honest(z) /\ z.archive = zip.archive /\ z.pinned = s
    BY <1>2, PinnedIs
  <2> HIDE DEF t, z, s
  <2>10. /\ at \in 0 .. MAX_DISKS /\ at \in Slots!Entry /\ at < t.total
         /\ at + 1 < t.total => at + 1 \in Slots!Entry
    <3>1. at \in Nat /\ at < MAX_DISKS /\ at < len - first
      BY <2>3, <2>6, <2>7, EntriesAre
    <3>2. t.total \in 0 .. MAX_DISKS
      BY <2>8 DEF TableTypes
    <3>3. at < t.total
      BY <2>3, <2>7, <2>8, <3>1, <3>2
    <3> HIDE DEF at
    <3> QED
      BY <3>1, <3>2, <3>3, EntriesAre
  <2>11. \A i \in Slots!Entry : i < t.total =>
           /\ Kept(z, t.path[i]) /\ t.path[i] \in Slots!Path
           /\ t.path[i] \in Slots!Virtual => t.path[i].slot = z.pinned
    BY <2>8, <2>9, PathsAre DEF Kept
  <2> HIDE DEF at
  <2>12. \A d \in Slots!Drive : to(d) \in Slots!Path /\ Kept(z, to(d))
    BY <2>10, <2>11, PathsAre, OtherKept
  <2> HIDE DEF to, changed
  <2>13. disk' \in TableTypes /\ disk'.index = at /\ disk'.total = t.total /\ disk'.path = t.path
    BY <2>1, <2>8, <2>10 DEF TableTypes
  <2>14. /\ FDDImage' \in [Slots!Drive -> Slots!Path]
         /\ \A d \in Slots!Drive : FDDImage'[d] = to(d) \/ FDDImage'[d] = FDDImage[d]
    BY <1>2, <2>1, <2>12 DEF SlotsTyped
  <2>15. zip' \in ZipTypes /\ Honest(zip)' /\ zip'.archive = zip.archive
    BY <2>1, <2>9 DEF Honest
  <2>16. SlotsTyped'
    BY <1>1, <1>2, <1>3, <2>13, <2>14, <2>15 DEF SlotsTyped
  <2>17. ASSUME SlotsAgree PROVE SlotsAgree'
    <3>1. TableKept(zip, disk)'
      <4>1. disk'.index <= disk'.total
        BY <2>8, <2>10, <2>13 DEF TableTypes
      <4> QED
        BY <2>1, <2>11, <2>13, <4>1 DEF TableKept, Kept
    <3>2. DrivesKept(zip)'
      <4>1. \A p : Kept(zip, p) => Kept(zip', p)
        BY <2>15 DEF Kept
      <4>2. DrivesKept(zip)
        BY <1>1, <2>17 DEF SlotsAgree, NamesKept
      <4>3. Kept(zip', HDImage')
        BY <1>1, <4>1, <4>2 DEF DrivesKept
      <4>4. \A d \in Slots!Drive : Kept(zip', FDDImage'[d])
        BY <2>1, <2>12, <2>14, <4>1, <4>2 DEF DrivesKept
      <4> QED
        BY <4>3, <4>4 DEF DrivesKept, Kept
    <3>3. NothingIn' /\ CommandKept(zip)'
      BY <1>1, <2>17 DEF SlotsAgree, NothingIn, CommandKept
    <3>4. MenuAgrees'
      BY <1>3 DEF MenuAgrees
    <3> QED
      BY <3>1, <3>2, <3>3, <3>4 DEF SlotsAgree, NamesKept
  <2> QED
    BY <2>16, <2>17 DEF SlotsInv
<1> QED
  BY <1>4, <1>5

(* Sessions.  After the reset every slot is free.                          *)
LEMMA FirstSlot ==
  ASSUME NEW a \in Archive
  PROVE  Slots!SlotFor(Slots!ZipReset, a) \in Slots!Slot
<1> DEFINE z == Slots!ZipReset
           own == {s \in Slots!Slot : z.archive[s] = a}
           free == {s \in Slots!Slot : z.archive[s] = NoArchive}
           Lowest(s) == \A t \in free : s <= t
<1>1. own = {} /\ free = Slots!Slot
  BY ResetIs, ArchiveAssumption
<1>2. free # {} /\ free \in SUBSET Nat
  BY <1>1, SlotsAre
<1>3. Slots!SlotFor(z, a) = CHOOSE s \in free : Lowest(s)
  BY <1>1, <1>2 DEF Slots!SlotFor
<1>4. \E s \in free : Lowest(s)
  <2> HIDE DEF free
  <2> QED
    BY <1>2, LeastOf
<1>5. (CHOOSE s \in free : Lowest(s)) \in free
  <2> HIDE DEF free, Lowest
  <2> QED
    BY <1>4
<1> QED
  BY <1>3, <1>5

LEMMA LoadZipKeeps ==
  ASSUME SlotsInv, NEW a \in Archive, NEW pair \in BOOLEAN, Slots!LoadZip(a, pair)
  PROVE  SlotsInv'
<1> DEFINE s == Slots!SlotFor(Slots!ZipReset, a)
           r == Slots!Register(Slots!ZipReset, a, s)
           z == Slots!Pinned(r, s)
           t == Slots!Filled(disk, z, s, 0)
           n == t.total
           h == [slot |-> s, name |-> Head(Hdfs[a]), of |-> a]
           member == [path |-> h, from |-> z.open.from]
           both == n > 1 /\ pair
           images == IF both THEN <<t.path[0], t.path[1]>> ELSE <<t.path[0]>>
<1>1. /\ phase \in {"fresh", "ended"} /\ (Reinits => phase = "fresh")
      /\ UNCHANGED <<FDDImage, HDImage, browse, menu, shown>>
  BY DEF Slots!LoadZip, Slots!menuVars, Slots!BetweenSessions
<1>2. SlotsTyped /\ disk \in TableTypes
  BY DEF SlotsInv, SlotsTyped
<1>3. s \in Slots!Slot
  BY FirstSlot
<1>4. r \in ZipTypes /\ Honest(r) /\ r.archive[s] = a
  <2> HIDE DEF s
  <2> QED
    BY <1>3, ResetIs, RegisterIs
<1>5. /\ z \in ZipTypes /\ Honest(z) /\ z.archive[s] = a /\ z.pinned = s
      /\ z.open.from = a
  <2> HIDE DEF s, r
  <2> QED
    BY <1>3, <1>4, PinnedIs, ArchiveAssumption
<1>6. /\ t \in TableTypes /\ t.index = disk.index /\ n <= Len(Floppies[a])
      /\ \A i \in Slots!Entry : i < n =>
           /\ t.path[i] \in Slots!Virtual /\ t.path[i].slot = s
           /\ t.path[i].of = a /\ t.path[i].name \in Images(a)
  <2> HIDE DEF s, r, z
  <2>1. Len(Floppies[a]) \in Nat
    BY ArchiveAssumption
  <2> QED
    BY <1>2, <1>3, <1>5, <2>1, FilledIs
<1>7. n \in 0 .. MAX_DISKS
  BY <1>6 DEF TableTypes
<1>8. \A i \in Slots!Entry : i < n =>
        /\ Kept(z, t.path[i])
        /\ t.path[i] \in Slots!Virtual => t.path[i].slot = z.pinned
  BY <1>5, <1>6 DEF Kept
<1>9. \/ n > 0 /\ disk' = [t EXCEPT !.index = 0] /\ zip' = z /\ phase' = "loaded"
               /\ argv' = [h |-> FALSE, images |-> images]
      \/ n = 0 /\ Hdfs[a] # << >> /\ disk' = t /\ zip' = [z EXCEPT !.members = {member}]
               /\ argv' = [h |-> TRUE, images |-> <<h>>] /\ phase' = "loaded"
      \/ n = 0 /\ disk' = t /\ zip' = z /\ UNCHANGED <<argv, phase>>
  <2>1. IF n > 0
        THEN /\ disk' = [t EXCEPT !.index = 0] /\ zip' = z
             /\ argv' = [h |-> FALSE, images |-> images] /\ phase' = "loaded"
        ELSE IF Hdfs[a] # << >>
        THEN /\ disk' = t /\ zip' = [z EXCEPT !.members = {member}]
             /\ argv' = [h |-> TRUE, images |-> <<h>>] /\ phase' = "loaded"
        ELSE disk' = t /\ zip' = z /\ UNCHANGED <<argv, phase>>
    BY DEF Slots!LoadZip
  <2> HIDE DEF n, images, member, h, t, z
  <2> QED
    BY <1>7, <2>1
<1>10. CASE n > 0 /\ disk' = [t EXCEPT !.index = 0] /\ zip' = z /\ phase' = "loaded"
                  /\ argv' = [h |-> FALSE, images |-> images]
  <2>1. /\ images \in Seq(Slots!Virtual) /\ Len(images) > 0
        /\ \A k \in 1 .. Len(images) : Kept(z, images[k])
    <3>1. 0 \in Slots!Entry /\ (both => 1 \in Slots!Entry /\ 1 < n)
      BY <1>7, EntriesAre
    <3>2. t.path[0] \in Slots!Virtual /\ Kept(z, t.path[0])
      BY <1>6, <1>8, <1>10, <3>1
    <3>3. both => t.path[1] \in Slots!Virtual /\ Kept(z, t.path[1])
      BY <1>6, <1>8, <3>1
    <3> HIDE DEF t, z, both
    <3>4. CASE both
      <4>1. images = <<t.path[0], t.path[1]>>
        BY <3>4
      <4> HIDE DEF images
      <4> QED
        BY <3>2, <3>3, <3>4, <4>1
    <3>5. CASE ~both
      <4>1. images = <<t.path[0]>>
        BY <3>5
      <4> HIDE DEF images
      <4> QED
        BY <3>2, <4>1
    <3> QED
      BY <3>4, <3>5
  <2> HIDE DEF s, z, t, images
  <2>2. disk' \in TableTypes /\ disk'.index = 0 /\ disk'.total = n /\ disk'.path = t.path
    BY <1>6, <1>10, EntriesAre DEF TableTypes
  <2>3. argv' \in CommandTypes /\ argv'.h = FALSE /\ argv'.images = images
    BY <1>10, <2>1 DEF CommandTypes
  <2>4. SlotsTyped'
    BY <1>1, <1>2, <1>5, <1>10, <2>2, <2>3 DEF SlotsTyped, Honest
  <2>5. ASSUME Reinits, SlotsAgree PROVE SlotsAgree'
    <3>1. /\ \A d \in Slots!Drive : FDDImage[d] = Slots!Other
          /\ HDImage = Slots!Other
      BY <1>1, <2>5 DEF SlotsAgree, NothingIn
    <3>2. NothingIn'
      BY <1>1, <1>10, <3>1 DEF NothingIn
    <3>3. TableKept(zip, disk)'
      BY <1>7, <1>8, <1>10, <2>2 DEF TableKept, Kept
    <3>4. DrivesKept(zip)'
      BY <1>1, <3>1, OtherKept DEF DrivesKept, Kept
    <3>5. CommandKept(zip)'
      BY <1>10, <2>1, <2>3 DEF CommandKept, Kept
    <3>6. MenuAgrees'
      BY <1>10 DEF MenuAgrees
    <3> QED
      BY <3>2, <3>3, <3>4, <3>5, <3>6 DEF SlotsAgree, NamesKept
  <2> QED
    BY <2>4, <2>5 DEF SlotsInv
<1>11. CASE n = 0 /\ Hdfs[a] # << >> /\ disk' = t /\ zip' = [z EXCEPT !.members = {member}]
                  /\ argv' = [h |-> TRUE, images |-> <<h>>] /\ phase' = "loaded"
  <2>1. h \in Slots!Virtual /\ h.of = a /\ h.slot = s /\ h.name \in Images(a)
    <3>1. Hdfs[a] \in Seq(STRING) /\ Hdfs[a] # << >>
      BY <1>11, ArchiveAssumption
    <3>2. 1 \in DOMAIN Hdfs[a] /\ Head(Hdfs[a]) = Hdfs[a][1]
      BY <3>1
    <3>3. Head(Hdfs[a]) \in Images(a)
      BY <3>2 DEF Images, Range
    <3> QED
      BY <1>3, <3>3, MemberIs
  <2>2. member \in MemberTypes /\ member.path = h /\ member.from = a
    BY <1>5, <2>1 DEF MemberTypes
  <2> HIDE DEF s, z, t, h, member
  <2>3. /\ zip' \in ZipTypes /\ zip'.members = {member}
        /\ zip'.archive = z.archive /\ zip'.open = z.open
    <3> DEFINE members == {member}
    <3>1. members \in SUBSET MemberTypes
      BY <2>2
    <3>2. zip' = [z EXCEPT !.members = members]
      BY <1>11
    <3> HIDE DEF members
    <3>3. zip' \in ZipTypes /\ zip'.members = members
          /\ zip'.archive = z.archive /\ zip'.open = z.open
      BY <1>5, <3>1, <3>2 DEF ZipTypes
    <3> QED
      BY <3>3 DEF members
  <2>4. Honest(zip)'
    <3>1. Honest(zip')
      BY <1>5, <2>1, <2>2, <2>3 DEF Honest
    <3> QED
      BY <3>1 DEF Honest
  <2>5. argv' \in CommandTypes /\ Len(argv'.images) > 0
        /\ \A k \in 1 .. Len(argv'.images) : argv'.images[k] = h
    BY <1>11, <2>1 DEF CommandTypes
  <2>6. SlotsTyped'
    BY <1>1, <1>2, <1>6, <1>11, <2>3, <2>4, <2>5 DEF SlotsTyped
  <2>7. ASSUME Reinits, SlotsAgree PROVE SlotsAgree'
    <3>1. /\ \A d \in Slots!Drive : FDDImage[d] = Slots!Other
          /\ HDImage = Slots!Other /\ disk.index = 0
      BY <1>1, <2>7 DEF SlotsAgree, NothingIn
    <3>2. NothingIn'
      BY <1>1, <1>11, <3>1 DEF NothingIn
    <3>3. TableKept(zip, disk)'
      <4>1. \A i \in Slots!Entry : ~(i < n)
        BY <1>11, EntriesAre
      <4> QED
        BY <1>6, <1>11, <3>1, <4>1 DEF TableKept
    <3>4. DrivesKept(zip)'
      BY <1>1, <3>1, OtherKept DEF DrivesKept, Kept
    <3>5. CommandKept(zip)'
      BY <1>5, <2>1, <2>3, <2>5 DEF CommandKept, Kept
    <3>6. MenuAgrees'
      BY <1>11 DEF MenuAgrees
    <3> QED
      BY <3>2, <3>3, <3>4, <3>5, <3>6 DEF SlotsAgree, NamesKept
  <2> QED
    BY <2>6, <2>7 DEF SlotsInv
<1>12. CASE n = 0 /\ disk' = t /\ zip' = z /\ UNCHANGED <<argv, phase>>
  <2> HIDE DEF s, z, t
  <2>1. SlotsTyped'
    BY <1>1, <1>2, <1>5, <1>6, <1>12 DEF SlotsTyped, Honest
  <2>2. ASSUME Reinits, SlotsAgree PROVE SlotsAgree'
    <3>1. phase' = "fresh" /\ phase = "fresh"
      BY <1>1, <1>12, <2>2
    <3> QED
      BY <1>1, <1>6, <1>12, <2>2, <3>1 DEF SlotsAgree, NothingIn, NamesKept, MenuAgrees
  <2> QED
    BY <2>1, <2>2 DEF SlotsInv
<1> QED
  BY <1>9, <1>10, <1>11, <1>12

LEMMA LoadListKeeps ==
  ASSUME SlotsInv, NEW n \in 1 .. MAX_DISKS, Slots!LoadList(n)
  PROVE  SlotsInv'
<1> DEFINE path == [i \in Slots!Entry |-> IF i < n THEN Slots!Other ELSE disk.path[i]]
<1>1. /\ phase \in {"fresh", "ended"} /\ (Reinits => phase = "fresh")
      /\ zip' = Slots!ZipReset /\ argv' = Slots!NoArguments /\ phase' = "loaded"
      /\ disk' = [disk EXCEPT !.total = n, !.path = path]
      /\ UNCHANGED <<FDDImage, HDImage, browse, menu, shown>>
  BY DEF Slots!LoadList, Slots!menuVars, Slots!BetweenSessions
<1>2. SlotsTyped /\ disk \in TableTypes
  BY DEF SlotsInv, SlotsTyped
<1>3. /\ path \in [Slots!Entry -> Slots!Path]
      /\ \A i \in Slots!Entry : i < n => path[i] = Slots!Other
  BY <1>2, PathsAre DEF TableTypes
<1> HIDE DEF path
<1>4. n \in 0 .. MAX_DISKS
  BY EntriesAre
<1>5. disk' \in TableTypes /\ disk'.index = disk.index /\ disk'.total = n /\ disk'.path = path
  BY <1>1, <1>2, <1>3, <1>4 DEF TableTypes
<1>6. argv' \in CommandTypes /\ argv'.h = FALSE /\ Len(argv'.images) = 0
  BY <1>1 DEF Slots!NoArguments, CommandTypes
<1>7. zip' \in ZipTypes /\ Honest(zip)'
  BY <1>1, ResetIs DEF Honest
<1>8. SlotsTyped'
  BY <1>1, <1>2, <1>5, <1>6, <1>7 DEF SlotsTyped
<1>9. ASSUME Reinits, SlotsAgree PROVE SlotsAgree'
  <2>1. /\ \A d \in Slots!Drive : FDDImage[d] = Slots!Other
        /\ HDImage = Slots!Other /\ disk.index = 0
    BY <1>1, <1>9 DEF SlotsAgree, NothingIn
  <2>2. TableKept(zip, disk)'
    BY <1>3, <1>4, <1>5, <2>1, PathsAre DEF TableKept, Kept
  <2>3. DrivesKept(zip)' /\ CommandKept(zip)'
    BY <1>1, <1>6, <2>1, PathsAre DEF DrivesKept, CommandKept, Kept
  <2> QED
    BY <1>1, <2>1, <2>2, <2>3 DEF SlotsAgree, NothingIn, NamesKept, MenuAgrees
<1> QED
  BY <1>8, <1>9 DEF SlotsInv

LEMMA LoadOtherKeeps ==
  ASSUME SlotsInv, Slots!LoadOther
  PROVE  SlotsInv'
<1>1. /\ phase \in {"fresh", "ended"} /\ (Reinits => phase = "fresh")
      /\ zip' = Slots!ZipReset /\ argv' = Slots!NoArguments /\ phase' = "loaded"
      /\ UNCHANGED <<disk, FDDImage, HDImage, browse, menu, shown>>
  BY DEF Slots!LoadOther, Slots!menuVars, Slots!BetweenSessions
<1>2. argv' \in CommandTypes /\ argv'.h = FALSE /\ Len(argv'.images) = 0
  BY <1>1 DEF Slots!NoArguments, CommandTypes
<1>3. zip' \in ZipTypes /\ Honest(zip)'
  BY <1>1, ResetIs DEF Honest
<1>4. SlotsTyped'
  BY <1>1, <1>2, <1>3 DEF SlotsInv, SlotsTyped
<1>5. ASSUME Reinits, SlotsAgree PROVE SlotsAgree'
  <2>1. /\ \A d \in Slots!Drive : FDDImage[d] = Slots!Other
        /\ HDImage = Slots!Other /\ disk.index = 0 /\ disk.total = 0
    BY <1>1, <1>5 DEF SlotsAgree, NothingIn
  <2>2. TableKept(zip, disk)'
    BY <1>1, <2>1, EntriesAre DEF TableKept
  <2>3. DrivesKept(zip)' /\ CommandKept(zip)'
    BY <1>1, <1>2, <2>1, PathsAre DEF DrivesKept, CommandKept, Kept
  <2> QED
    BY <1>1, <2>1, <2>2, <2>3 DEF SlotsAgree, NothingIn, NamesKept, MenuAgrees
<1> QED
  BY <1>4, <1>5 DEF SlotsInv

(* The drives are given what the command line names.                       *)
LEMMA BootKeeps ==
  ASSUME SlotsInv, Slots!Boot
  PROVE  SlotsInv'
<1> DEFINE given(d) == IF ~argv.h /\ d < Len(argv.images) THEN argv.images[d + 1]
                       ELSE Slots!Other
           hd == IF argv.h THEN argv.images[1] ELSE Slots!Other
           y == Slots!AfterOpening(zip, FDDImage'[0])
           z == Slots!AfterOpening(y, FDDImage'[1])
<1>1. /\ phase = "loaded" /\ phase' = "running" /\ argv' = Slots!NoArguments
      /\ browse' = [d \in Slots!Drive |-> Slots!NoSlot]
      /\ FDDImage' = [d \in Slots!Drive |-> given(d)] /\ HDImage' = hd
      /\ zip' = z
      /\ UNCHANGED <<disk, menu, shown>>
  BY DEF Slots!Boot
<1>2. SlotsTyped
  BY DEF SlotsInv
<1>3. /\ argv.images \in Seq(Slots!Virtual) /\ Len(argv.images) \in Nat
      /\ \A k \in 1 .. Len(argv.images) : argv.images[k] \in Slots!Virtual
      /\ argv.h => Len(argv.images) > 0
  <2>1. argv.images \in Seq(Slots!Virtual) /\ (argv.h => Len(argv.images) > 0)
    BY <1>2 DEF SlotsTyped, CommandTypes
  <2> QED
    BY <2>1
<1>4. \A d \in Slots!Drive : given(d) \in Slots!Path
  BY <1>3, PathsAre DEF Slots!Drive
<1>5. hd \in Slots!Path
  BY <1>3, PathsAre
<1>6. ASSUME NEW q, q.archive = zip.archive, CommandKept(zip)
      PROVE  (\A d \in Slots!Drive : Kept(q, given(d))) /\ Kept(q, hd)
  <2>1. \A k \in 1 .. Len(argv.images) : Kept(q, argv.images[k])
    BY <1>6 DEF CommandKept, Kept
  <2>2. Kept(q, Slots!Other)
    BY OtherKept
  <2> QED
    BY <1>3, <2>1, <2>2 DEF Slots!Drive
<1>7. /\ z \in ZipTypes /\ Honest(z) /\ z.archive = zip.archive /\ z.pinned = zip.pinned
  <2>1. /\ y \in ZipTypes /\ Honest(y) /\ y.archive = zip.archive /\ y.pinned = zip.pinned
    BY <1>2, AfterOpeningIs DEF SlotsTyped
  <2> HIDE DEF y
  <2> QED
    BY <2>1, AfterOpeningIs
<1> HIDE DEF given, hd, z
<1>8. argv' \in CommandTypes /\ argv'.h = FALSE /\ Len(argv'.images) = 0
  BY <1>1 DEF Slots!NoArguments, CommandTypes
<1>9. zip' \in ZipTypes /\ Honest(zip)'
  BY <1>1, <1>7 DEF Honest
<1>10. SlotsTyped'
  BY <1>1, <1>2, <1>4, <1>5, <1>8, <1>9 DEF SlotsTyped
<1>11. ASSUME SlotsAgree PROVE SlotsAgree'
  <2>1. TableKept(zip, disk) /\ CommandKept(zip)
    BY <1>1, <1>11 DEF SlotsAgree, NamesKept
  <2>2. TableKept(zip, disk)'
    BY <1>1, <1>7, <2>1 DEF TableKept, Kept
  <2>3. DrivesKept(zip)'
    <3>1. Kept(zip', HDImage') /\ \A d \in Slots!Drive : Kept(zip', FDDImage'[d])
      BY <1>1, <1>6, <1>7, <2>1
    <3> QED
      BY <3>1 DEF DrivesKept, Kept
  <2>4. NothingIn' /\ CommandKept(zip)'
    BY <1>1, <1>8 DEF NothingIn, CommandKept
  <2>5. MenuAgrees'
    BY <1>1 DEF MenuAgrees
  <2> QED
    BY <2>2, <2>3, <2>4, <2>5 DEF SlotsAgree, NamesKept
<1> QED
  BY <1>10, <1>11 DEF SlotsInv

LEMMA UnloadKeeps ==
  ASSUME SlotsInv, Slots!Unload
  PROVE  SlotsInv'
<1>1. /\ zip' = Slots!ZipReset /\ argv' = Slots!NoArguments /\ phase' = "ended"
      /\ FDDImage' = [d \in Slots!Drive |-> Slots!Other] /\ HDImage' = Slots!Other
      /\ UNCHANGED <<disk, browse, menu, shown>>
  BY DEF Slots!Unload, Slots!menuVars
<1>2. argv' \in CommandTypes /\ argv'.h = FALSE /\ Len(argv'.images) = 0
  BY <1>1 DEF Slots!NoArguments, CommandTypes
<1>3. zip' \in ZipTypes /\ Honest(zip)'
  BY <1>1, ResetIs DEF Honest
<1>4. SlotsTyped'
  BY <1>1, <1>2, <1>3, PathsAre DEF SlotsInv, SlotsTyped
<1>5. SlotsAgree'
  BY <1>1, <1>2 DEF SlotsAgree, NothingIn, NamesKept, MenuAgrees
<1> QED
  BY <1>4, <1>5 DEF SlotsInv

LEMMA EmptyTableIs ==
  /\ Slots!EmptyTable \in TableTypes
  /\ Slots!EmptyTable.total = 0 /\ Slots!EmptyTable.index = 0
BY EntriesAre, PathsAre DEF Slots!EmptyTable, TableTypes

LEMMA ReinitKeeps ==
  ASSUME SlotsInv, Slots!Reinit
  PROVE  SlotsInv'
<1>1. /\ phase = "ended" /\ phase' = "fresh"
      /\ zip' = Slots!ZipReset /\ disk' = Slots!EmptyTable
      /\ UNCHANGED <<FDDImage, HDImage, browse, menu, shown, argv>>
  BY DEF Slots!Reinit, Slots!menuVars
<1>2. zip' \in ZipTypes /\ Honest(zip)'
  BY <1>1, ResetIs DEF Honest
<1>3. SlotsTyped'
  BY <1>1, <1>2, EmptyTableIs DEF SlotsInv, SlotsTyped
<1>4. ASSUME SlotsAgree PROVE SlotsAgree'
  BY <1>1, <1>4, EmptyTableIs DEF SlotsAgree, NothingIn, NamesKept, MenuAgrees
<1> QED
  BY <1>3, <1>4 DEF SlotsInv

-----------------------------------------------------------------------------
(* The invariants hold throughout, of both halves at once.                 *)
LEMMA SlotsInitAgrees ==
  ASSUME Slots!Init PROVE SlotsInv
<1>1. /\ zip = Slots!ZipReset /\ disk = Slots!EmptyTable /\ argv = Slots!NoArguments
      /\ FDDImage = [d \in Slots!Drive |-> Slots!Other] /\ HDImage = Slots!Other
      /\ browse = [d \in Slots!Drive |-> Slots!NoSlot]
      /\ menu = Slots!NoDrive /\ shown = NoArchive /\ phase = "fresh"
  BY DEF Slots!Init
<1>2. argv \in CommandTypes /\ argv.h = FALSE /\ Len(argv.images) = 0
  BY <1>1 DEF Slots!NoArguments, CommandTypes
<1>3. SlotsTyped
  BY <1>1, <1>2, ResetIs, EmptyTableIs, PathsAre DEF SlotsTyped
<1>4. SlotsAgree
  BY <1>1, <1>2, EmptyTableIs DEF SlotsAgree, NothingIn, NamesKept, MenuAgrees
<1> QED
  BY <1>3, <1>4 DEF SlotsInv

LEMMA SlotsStay ==
  ASSUME SlotsInv, UNCHANGED slotVars PROVE SlotsInv'
<1>1. UNCHANGED <<zip, disk, FDDImage, HDImage, browse, menu, shown, phase, argv>>
  BY DEF slotVars
<1>2. SlotsTyped'
  BY <1>1 DEF SlotsInv, SlotsTyped, Honest
<1>3. ASSUME SlotsAgree PROVE SlotsAgree'
  BY <1>1, <1>3 DEF SlotsAgree, NothingIn, NamesKept, MenuAgrees, TableKept, DrivesKept,
                    CommandKept, Kept
<1> QED
  BY <1>2, <1>3 DEF SlotsInv

LEMMA SlotsNextAgrees ==
  ASSUME SlotsInv, Slots!Next PROVE SlotsInv'
<1>1. ASSUME NEW a \in Archive, NEW pair \in BOOLEAN, Slots!LoadZip(a, pair) PROVE SlotsInv'
  BY <1>1, LoadZipKeeps
<1>2. ASSUME NEW n \in 1 .. MAX_DISKS, Slots!LoadList(n) PROVE SlotsInv'
  BY <1>2, LoadListKeeps
<1>3. ASSUME NEW d \in Slots!Drive, NEW ejected \in BOOLEAN, Slots!SetEjectState(d, ejected)
      PROVE  SlotsInv'
  BY <1>3, SetEjectStateKeeps
<1>4. ASSUME NEW i \in 0 .. MAX_DISKS, Slots!SetImageIndex(i) PROVE SlotsInv'
  BY <1>4, SetImageIndexKeeps
<1>5. ASSUME NEW d \in Slots!Drive, Slots!MenuFiles(d) \/ Slots!MenuEjects(d) PROVE SlotsInv'
  BY <1>5, MenuFilesKeeps, MenuEjectsKeeps
<1>6. ASSUME NEW a \in Archive, Slots!MenuEnters(a) PROVE SlotsInv'
  BY <1>6, MenuEntersKeeps
<1>7. ASSUME NEW name \in Slots!Name, NEW pair \in BOOLEAN, Slots!MenuChooses(name, pair)
      PROVE  SlotsInv'
  BY <1>7, MenuChoosesKeeps
<1> QED
  BY <1>1, <1>2, <1>3, <1>4, <1>5, <1>6, <1>7, LoadOtherKeeps, BootKeeps, UnloadKeeps,
     ReinitKeeps, AppendImageKeeps, MenuLeavesKeeps, MenuClosesKeeps, MenuChoosesFileKeeps,
     MenuChangesHdKeeps DEF Slots!Next

(* The invariant of the two halves.                                        *)
ArchivesInv == JournalInv /\ FitsInv /\ SlotsInv

LEMMA InvariantHolds ==
  ArchivesSpec => []ArchivesInv
<1>1. ArchivesInit => ArchivesInv
  BY InitAgrees, InitFits, SlotsInitAgrees DEF ArchivesInit, ArchivesInv
<1>2. ArchivesInv /\ [ArchivesNext]_<<works, vars, slotVars>> => ArchivesInv'
  <2> SUFFICES ASSUME ArchivesInv, [ArchivesNext]_<<works, vars, slotVars>>
               PROVE  ArchivesInv'
    OBVIOUS
  <2>1. JournalInv /\ FitsInv /\ SlotsInv
    BY DEF ArchivesInv
  <2>2. [Next]_vars /\ (Slots!Next \/ UNCHANGED slotVars)
    BY DEF ArchivesNext
  <2>3. JournalInv'
    BY <2>1, <2>2, NextAgrees
  <2>4. FitsInv'
    BY <2>1, <2>2, <2>3, NextFits
  <2>5. SlotsInv'
    BY <2>1, <2>2, SlotsNextAgrees, SlotsStay
  <2> QED
    BY <2>3, <2>4, <2>5 DEF ArchivesInv
<1> QED
  BY <1>1, <1>2, PTL DEF ArchivesSpec

LEMMA SlotsTypedGives ==
  SlotsTyped => Slots!TypeOK
BY DEF SlotsTyped, ZipTypes, OpenTypes, MemberTypes, TableTypes, Slots!TypeOK

(* A path that somebody may still open by name is one of those that keep   *)
(* the archive they were made for.                                         *)
LEMMA NamedAreKept ==
  ASSUME SlotsTyped, SlotsAgree, phase = "running", NEW p \in Slots!Named
  PROVE  p \in Slots!Virtual /\ Kept(zip, p)
<1>1. TableKept(zip, disk) /\ DrivesKept(zip)
  BY DEF SlotsAgree, NamesKept
<1>2. /\ p \in Slots!Virtual
      /\ \/ \E d \in Slots!Drive : p = FDDImage[d]
         \/ p = HDImage
         \/ \E i \in Slots!Entry : i < disk.total /\ p = disk.path[i]
  BY DEF Slots!Named
<1> QED
  BY <1>1, <1>2 DEF TableKept, DrivesKept

-----------------------------------------------------------------------------
(* The variables of both halves stay in their ranges, whether or not the   *)
(* core is initialised between two sessions.                               *)
THEOREM TypesStay == ArchivesSpec => []TypesOK
<1>1. ArchivesInv => TypesOK
  BY InvGivesTypes, SlotsTypedGives DEF ArchivesInv, SlotsInv, TypesOK
<1> QED
  BY <1>1, InvariantHolds, PTL

(* When the core is initialised between two sessions, a slot that a drive, *)
(* the hard disk or the Disk Control table names keeps the archive it was  *)
(* named for, and the menu shows the files that a choice would open        *)
(* (zip_alloc_slot gives no slot away that is in use).                     *)
THEOREM SlotsAreKept == Reinits => (ArchivesSpec => []SlotsKeepTheirArchive)
<1> SUFFICES ASSUME Reinits PROVE ArchivesSpec => []SlotsKeepTheirArchive
  OBVIOUS
<1>1. ArchivesInv => SlotsKeepTheirArchive
  <2> SUFFICES ASSUME ArchivesInv PROVE Slots!SlotsKeepTheirArchive
    BY DEF SlotsKeepTheirArchive
  <2>1. SlotsTyped /\ SlotsAgree
    BY DEF ArchivesInv, SlotsInv
  <2>2. ASSUME phase = "running", NEW p \in Slots!Named PROVE zip.archive[p.slot] = p.of
    BY <2>1, <2>2, NamedAreKept DEF Kept
  <2> QED
    BY <2>1, <2>2 DEF Slots!SlotsKeepTheirArchive, SlotsAgree, MenuAgrees
<1> QED
  BY <1>1, InvariantHolds, PTL

(* Opening any of those names reads the archive it was made for, whichever *)
(* archive is open and whatever is in memory, and there is room for it     *)
(* (zip_member_get).                                                       *)
THEOREM NamesOpenTheirOwn == Reinits => (ArchivesSpec => []OpensItsOwn)
<1> SUFFICES ASSUME Reinits PROVE ArchivesSpec => []OpensItsOwn
  OBVIOUS
<1>1. ArchivesInv => OpensItsOwn
  <2> SUFFICES ASSUME ArchivesInv PROVE Slots!OpensItsOwn
    BY DEF OpensItsOwn
  <2>1. SlotsTyped /\ SlotsAgree /\ zip \in ZipTypes /\ Honest(zip)
    BY DEF ArchivesInv, SlotsInv, SlotsTyped
  <2>2. ASSUME phase = "running", NEW p \in Slots!Named PROVE Slots!Source(zip, p) = p.of
    BY <2>1, <2>2, NamedAreKept, SourceIs
  <2> QED
    BY <2>2 DEF Slots!OpensItsOwn
<1> QED
  BY <1>1, InvariantHolds, PTL

(* Between flushes, a block in memory that is not marked is the one that   *)
(* zip_overlay_load would give: a failed flush leaves its marks, and one   *)
(* that succeeded has written all it unmarks.                              *)
THEOREM CleanBlocksAlwaysAgree == ArchivesSpec => []CleanBlocksAgree
<1>1. ArchivesInv => CleanBlocksAgree
  BY InvGivesClean DEF ArchivesInv
<1> QED
  BY <1>1, InvariantHolds, PTL

(* Whenever the program dies, zip_overlay_load gives back each block as    *)
(* the last successful flush left it or as a later one meant it to be.     *)
THEOREM ReplayAlwaysGivesFlushed == ArchivesSpec => []ReplayGivesFlushed
<1>1. ArchivesInv => ReplayGivesFlushed
  BY DEF ArchivesInv, JournalInv
<1> QED
  BY <1>1, InvariantHolds, PTL

=============================================================================
