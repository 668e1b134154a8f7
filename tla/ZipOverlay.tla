----------------------------- MODULE ZipOverlay -----------------------------
(***************************************************************************)
(* How writes to a disk image inside a ZIP archive are kept                *)
(* (libretro/zipdisk.c): the image is held in memory, changed blocks are   *)
(* marked, and zip_overlay_flush appends them to a journal that            *)
(* zip_overlay_load replays when the image is opened again.                *)
(*                                                                         *)
(* The journal is written record by record through stdio; the disk may     *)
(* fill up and the program may die between any two records or inside one.  *)
(* What reaches the file is then a prefix of what was written: bytes that  *)
(* stdio still held are those of a failure at an earlier record.           *)
(***************************************************************************)
EXTENDS Integers, Sequences, FiniteSetsExt

CONSTANTS
  NBlocks,              \* blocks of the image
  Value,                \* what a block may hold
  Original,             \* the value of the blocks in the archive
  Garbled,              \* a block replayed out of step
  MaxJournal            \* bound: records in the journal

ASSUME BlocksAssumption == NBlocks \in Nat \ {0}
ASSUME ValueAssumption == Original \in Value /\ Garbled \notin Value
ASSUME JournalAssumption == MaxJournal \in Nat

Blocks == 0 .. NBlocks - 1

(* A record, whole, cut inside its eight bytes of header, or cut inside    *)
(* the block's bytes.                                                      *)
Records == [block : Blocks, value : Value \union {Garbled}, part : {"whole", "head", "body"}]

VARIABLES
  cached,               \* the image is in zip_members
  data, dirty,          \* its blocks, and those changed since the last flush
  file,                 \* "absent", "good" or "bad": the journal's own header
  journal,              \* the records after it
  flush,                \* where px68k_zip_close or zip_member_release is
  stored,               \* history: the blocks when a flush last succeeded
  attempted             \* history: values given to flushes that did not

memberVars == <<cached, data, dirty>>
fileVars == <<file, journal>>
vars == <<memberVars, fileVars, flush, stored, attempted>>

(* `next' is the index of the loop over the blocks.  `again':              *)
(* zip_member_release, with a flush of its own, follows; `drop': the image *)
(* leaves memory in the end.                                               *)
Off == [at |-> "off", next |-> 0, again |-> FALSE, drop |-> FALSE]

Init ==
  /\ cached = FALSE
  /\ data = [b \in Blocks |-> Original] /\ dirty = {}
  /\ file = "absent" /\ journal = << >>
  /\ flush = Off
  /\ stored = [b \in Blocks |-> Original]
  /\ attempted = [b \in Blocks |-> {}]

-----------------------------------------------------------------------------
(* zip_overlay_load.                                                       *)

(* The records before the first that is cut.                               *)
WholePrefix ==
  LET cut == {i \in DOMAIN journal : journal[i].part # "whole"}
  IN  SubSeq(journal, 1, IF cut = {} THEN Len(journal) ELSE Min(cut) - 1)

(* The last record of a block wins.                                        *)
Replayed(b) ==
  LET at == {i \in DOMAIN WholePrefix : WholePrefix[i].block = b}
  IN  IF file # "good" \/ at = {} THEN Original ELSE WholePrefix[Max(at)].value

(* A cut record at the end of the file is ignored.  One that others follow *)
(* is completed with their bytes: a block cut in its data is garbled, and  *)
(* the bytes read as headers from there on may name any block, or none.    *)
CutInside == Len(WholePrefix) + 1 < Len(journal)

MayBeGarbled == file = "good" /\ CutInside

MustBeGarbled(b) ==
  /\ MayBeGarbled
  /\ LET cut == journal[Len(WholePrefix) + 1]
     IN  cut.part = "body" /\ cut.block = b

zip_member_get ==
  /\ ~cached
  /\ cached' = TRUE /\ dirty' = {}
  /\ \E read \in [Blocks -> Value \union {Garbled}] :
       /\ \A b \in Blocks :
            \/ read[b] = Replayed(b) /\ ~MustBeGarbled(b)
            \/ read[b] = Garbled /\ MayBeGarbled
       /\ data' = read
  /\ UNCHANGED <<fileVars, flush, stored, attempted>>

(* px68k_zip_write.                                                        *)
px68k_zip_write(b, value) ==
  /\ cached /\ flush = Off
  /\ data' = [data EXCEPT ![b] = value]
  /\ dirty' = dirty \union {b}
  /\ UNCHANGED <<cached, fileVars, flush, stored, attempted>>

-----------------------------------------------------------------------------
(* zip_overlay_flush.                                                      *)

(* px68k_zip_close of a hard disk image, which stays in memory; of a       *)
(* floppy's last handle; the slot's recycling, or px68k_zip_reset.         *)
Callers == {[again |-> FALSE, drop |-> FALSE], [again |-> TRUE, drop |-> TRUE],
            [again |-> FALSE, drop |-> TRUE]}

Close(caller) ==
  /\ cached /\ flush = Off
  /\ Len(journal) + 2 * Cardinality(dirty) + 1 <= MaxJournal
  /\ flush' = [at |-> "call", next |-> 0, again |-> caller.again, drop |-> caller.drop]
  /\ UNCHANGED <<memberVars, fileVars, stored, attempted>>

(* Mutant of Return: the image is dropped with its marks in place.         *)
Return_KeepsMarks(left) ==
  IF flush.again
  THEN /\ flush' = [flush EXCEPT !.at = "call", !.next = 0, !.again = FALSE]
       /\ dirty' = left
       /\ UNCHANGED <<cached, data>>
  ELSE /\ flush' = Off
       /\ cached' = ~flush.drop
       /\ dirty' = left
       /\ data' = IF flush.drop THEN [b \in Blocks |-> Original] ELSE data

(* The call returns, and its caller ignores what it returns.               *)
Return(left) ==
  IF flush.again
  THEN /\ flush' = [flush EXCEPT !.at = "call", !.next = 0, !.again = FALSE]
       /\ dirty' = left
       /\ UNCHANGED <<cached, data>>
  ELSE /\ flush' = Off
       /\ cached' = ~flush.drop
       /\ dirty' = IF flush.drop THEN {} ELSE left
       /\ data' = IF flush.drop THEN [b \in Blocks |-> Original] ELSE data

(* Nothing is dirty, the file has no good header, or it does not open.     *)
FlushDoesNothing ==
  /\ flush.at = "call"
  /\ Return(dirty)
  /\ UNCHANGED <<fileVars, stored, attempted>>

(* The file is created empty, which makes its header bad until the twelve  *)
(* bytes are written.                                                      *)
FlushOpens ==
  /\ flush.at = "call" /\ dirty # {} /\ file # "bad"
  /\ flush' = [flush EXCEPT !.at = IF file = "absent" THEN "header" ELSE "records"]
  /\ file' = IF file = "absent" THEN "bad" ELSE file
  /\ attempted' = [b \in Blocks |-> attempted[b] \union (IF b \in dirty THEN {data[b]} ELSE {})]
  /\ UNCHANGED <<memberVars, journal, stored>>

WriteHeader ==
  /\ flush.at = "header"
  /\ file' = "good"
  /\ flush' = [flush EXCEPT !.at = "records"]
  /\ UNCHANGED <<memberVars, journal, stored, attempted>>

(* The next record of the loop.                                            *)
Left == {b \in dirty : b >= flush.next}

RecordOf(b, part) == [block |-> b, value |-> data[b], part |-> part]

(* Mutant of FlushRecord: the last block, which may be shorter than the    *)
(* others, is left out.                                                    *)
FlushRecord_NotTheLast ==
  /\ flush.at = "records" /\ Left # {}
  /\ journal' = IF Min(Left) = NBlocks - 1 THEN journal
                ELSE Append(journal, RecordOf(Min(Left), "whole"))
  /\ flush' = [flush EXCEPT !.next = Min(Left) + 1]
  /\ UNCHANGED <<memberVars, file, stored, attempted>>

FlushRecord ==
  /\ flush.at = "records" /\ Left # {}
  /\ journal' = Append(journal, RecordOf(Min(Left), "whole"))
  /\ flush' = [flush EXCEPT !.next = Min(Left) + 1]
  /\ UNCHANGED <<memberVars, file, stored, attempted>>

FlushSucceeds ==
  /\ flush.at = "records" /\ Left = {}
  /\ Return({})
  /\ stored' = data
  /\ attempted' = [b \in Blocks |-> IF b \in dirty THEN {} ELSE attempted[b]]
  /\ UNCHANGED fileVars

(* What a write that stops leaves of the record it was at.                 *)
CutRecord ==
  IF flush.at = "records" /\ Left # {}
  THEN \E part \in {"head", "body"} :
         journal' = journal \/ journal' = Append(journal, RecordOf(Min(Left), part))
  ELSE UNCHANGED journal

(* Mutant of FlushFails: the blocks are taken to be clean all the same.    *)
FlushFails_Cleans ==
  /\ flush.at \in {"header", "records"}
  /\ CutRecord
  /\ Return({})
  /\ UNCHANGED <<file, stored, attempted>>

(* fwrite or fclose fails: the blocks stay dirty.                          *)
FlushFails ==
  /\ flush.at \in {"header", "records"}
  /\ CutRecord
  /\ Return(dirty)
  /\ UNCHANGED <<file, stored, attempted>>

(* The program dies: memory is lost, the file stays as far as it got.      *)
Crash ==
  /\ CutRecord
  /\ cached' = FALSE /\ dirty' = {} /\ data' = [b \in Blocks |-> Original]
  /\ flush' = Off
  /\ UNCHANGED <<file, stored, attempted>>

Next ==
  \/ zip_member_get
  \/ \E b \in Blocks, value \in Value : px68k_zip_write(b, value)
  \/ \E caller \in Callers : Close(caller)
  \/ FlushDoesNothing
  \/ FlushOpens
  \/ WriteHeader
  \/ FlushRecord
  \/ FlushSucceeds
  \/ FlushFails
  \/ Crash

Spec == Init /\ [][Next]_vars

-----------------------------------------------------------------------------
(* The variables stay in their ranges, and an image that is not in memory  *)
(* holds nothing back.                                                     *)
TypeOK ==
  /\ cached \in BOOLEAN
  /\ data \in [Blocks -> Value \union {Garbled}]
  /\ dirty \subseteq Blocks
  /\ file \in {"absent", "good", "bad"}
  /\ journal \in Seq(Records) /\ Len(journal) <= MaxJournal
  /\ flush.at \in {"off", "call", "header", "records"} /\ flush.next \in 0 .. NBlocks
  /\ stored \in [Blocks -> Value \union {Garbled}]
  /\ attempted \in [Blocks -> SUBSET (Value \union {Garbled})]
  /\ ~cached => dirty = {} /\ flush = Off

(* Between flushes a block in memory that is not marked is the block a     *)
(* replay of the journal gives, failed flushes and crashes included, as    *)
(* long as nothing follows a cut record.                                   *)
CleanBlocksAgree ==
  cached /\ flush = Off /\ ~CutInside =>
    \A b \in Blocks \ dirty : data[b] = Replayed(b)

(* Whatever the program was doing when it died, a replay gives each block  *)
(* as the last successful flush left it or as a later flush meant it to    *)
(* be, again as long as nothing follows a cut record.                      *)
ReplayGivesFlushed ==
  ~CutInside => \A b \in Blocks : Replayed(b) \in {stored[b]} \union attempted[b]

(* "Truncated tail records are ignored, preserving previous valid writes": *)
(* what was flushed successfully is what a replay gives.                   *)
FlushedIsKept ==
  \A b \in Blocks :
    attempted[b] = {} => Replayed(b) = stored[b] /\ ~MustBeGarbled(b)

=============================================================================
