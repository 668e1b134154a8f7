----------------------------- MODULE MCArchives ------------------------------
(***************************************************************************)
(* The two halves of zipdisk.c: what becomes of the writes to one image    *)
(* (ZipOverlay), and which archive a name opens (ZipSlots).  The first     *)
(* does not depend on the names and the second does not look at the        *)
(* blocks, so one of them, chosen at first, works and the other rests.     *)
(*                                                                         *)
(* Two blocks, and room in the journal for two flushes of both and one     *)
(* more, each of which may be cut.  Three archives for two slots: one of   *)
(* more floppies than the Disk Control table holds, one of a single        *)
(* floppy, one of a hard disk.                                             *)
(***************************************************************************)
EXTENDS ZipOverlay

CONSTANTS
  Archive, NoArchive, Floppies, Hdfs, ZIP_SLOTS, ZIP_MEMBERS, MAX_DISKS, Reinits

ASSUME TablesAssumption ==
  ZIP_SLOTS \in Nat \ {0} /\ ZIP_MEMBERS \in Nat \ {0, 1} /\ MAX_DISKS \in Nat \ {0, 1}
ASSUME ArchiveAssumption ==
  /\ NoArchive \notin Archive
  /\ Floppies \in [Archive -> Seq(STRING)] /\ Hdfs \in [Archive -> Seq(STRING)]

MCValue == {"archive", "a"}
MCArchive == {"A", "B", "C"}
MCFloppies == [A |-> <<"d1", "d2", "d3">>, B |-> <<"d1">>, C |-> << >>]
MCHdfs == [A |-> << >>, B |-> << >>, C |-> <<"h1">>]

VARIABLES
  works,                \* the half that does: "overlay" or "slots"
  zip, disk, FDDImage, HDImage, browse, menu, shown, phase, argv

slotVars == <<zip, disk, FDDImage, HDImage, browse, menu, shown, phase, argv>>

Slots == INSTANCE ZipSlots

ArchivesInit ==
  /\ works \in {"overlay", "slots"}
  /\ Init /\ Slots!Init

ArchivesNext ==
  \/ works = "overlay" /\ Next /\ UNCHANGED <<works, slotVars>>
  \/ works = "slots" /\ Slots!Next /\ UNCHANGED <<works, vars>>

ArchivesSpec == ArchivesInit /\ [][ArchivesNext]_<<works, vars, slotVars>>

-----------------------------------------------------------------------------
(* The variables of both halves stay in their ranges, and an image that is *)
(* not in memory holds nothing back (ZipOverlay.TypeOK, ZipSlots.TypeOK).  *)
TypesOK == TypeOK /\ Slots!TypeOK

(* While a session runs, a slot that a drive, the hard disk or the table   *)
(* names keeps the archive it was named for, and the menu shows the files  *)
(* a choice would open (ZipSlots.SlotsKeepTheirArchive).                   *)
SlotsKeepTheirArchive == Slots!SlotsKeepTheirArchive

(* Opening any of those names reads the archive it was made for            *)
(* (ZipSlots.OpensItsOwn).                                                 *)
OpensItsOwn == Slots!OpensItsOwn

=============================================================================
