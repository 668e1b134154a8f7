------------------------------ MODULE ZipSlots -------------------------------
(***************************************************************************)
(* The archives a session reads disks from (libretro/zipdisk.c) and those  *)
(* who name them: the drives and the frontend's Disk Control table         *)
(* (libretro.c) and the file browser of the menu (libretro/winui.c).       *)
(*                                                                         *)
(* A member is named "zip://@slot/name".  The slot of an archive that is   *)
(* no longer named may be given to another, so the same name may come to   *)
(* mean something else.  Every file is opened, used and closed within one  *)
(* call, so a member that is not a hard disk leaves the cache at once.     *)
(* The archives on the host are there and readable.                        *)
(***************************************************************************)
EXTENDS Integers, Sequences, SequencesExt

CONSTANTS
  Archive, NoArchive,
  Floppies, Hdfs,       \* the images in each archive, sorted
  ZIP_SLOTS, ZIP_MEMBERS, MAX_DISKS,
  Reinits               \* the frontend calls retro_deinit and retro_init
                        \* between two sessions, as it may or may not

Slot == 0 .. ZIP_SLOTS - 1
NoSlot == -1
Drive == {0, 1}
NoDrive == 2
Entry == 0 .. MAX_DISKS - 1
Name == UNION {Range(Floppies[a]) \union Range(Hdfs[a]) : a \in Archive}

VARIABLES
  zip,                  \* the statics of zipdisk.c
  disk,                 \* the Disk Control table
  FDDImage, HDImage,    \* the paths of Config; the disk in a drive is the one
                        \* named there, or none
  browse,               \* the archive's slot each drive's browser is in
  menu, shown,          \* the drive whose files the menu shows, and the
                        \* archive whose names they are
  phase,                \* of the session
  argv                  \* the images on the command line made by the load, and
                        \* whether they are a hard disk (-h)

vars == <<zip, disk, FDDImage, HDImage, browse, menu, shown, phase, argv>>
sessionVars == <<phase, argv>>
menuVars == <<browse, menu, shown>>

(* A path is that of a member, or some other: of another file, or empty.   *)
(* `of', which the string does not show, is the archive it was made for.   *)
Virtual == [slot : Slot, name : Name, of : Archive]
Other == [slot |-> NoSlot, name |-> "", of |-> NoArchive]
Path == Virtual \union {Other}

NoArguments == [h |-> FALSE, images |-> << >>]
Closed == [slot |-> NoSlot, from |-> NoArchive]
EmptyTable == [path |-> [i \in Entry |-> Other], total |-> 0, index |-> 0]

(* px68k_zip_reset.                                                        *)
ZipReset == [archive |-> [s \in Slot |-> NoArchive], age |-> [s \in Slot |-> 0],
             pinned |-> NoSlot, open |-> Closed, members |-> {}]

Init ==
  /\ zip = ZipReset
  /\ disk = EmptyTable
  /\ FDDImage = [d \in Drive |-> Other] /\ HDImage = Other
  /\ browse = [d \in Drive |-> NoSlot]
  /\ menu = NoDrive /\ shown = NoArchive
  /\ phase = "fresh" /\ argv = NoArguments

-----------------------------------------------------------------------------
(* Slots and members.                                                      *)

(* px68k_zip_virtual_slot: nothing when the slot is free.                  *)
VirtualSlot(z, p) ==
  IF p \in Virtual /\ z.archive[p.slot] # NoArchive THEN p.slot ELSE NoSlot

(* Mutant of SlotInUse: the Disk Control table is forgotten.               *)
SlotInUse_NotPinned(z, s) ==
  s \in {VirtualSlot(z, FDDImage[d]) : d \in Drive} \union {VirtualSlot(z, HDImage)}

SlotInUse(z, s) ==
  \/ s = z.pinned
  \/ \E d \in Drive : VirtualSlot(z, FDDImage[d]) = s
  \/ VirtualSlot(z, HDImage) = s

(* The slot an archive is given: its own, a free one, or of those in which *)
(* nobody names anything the one used least recently.                      *)
SlotFor(z, a) ==
  LET own  == {s \in Slot : z.archive[s] = a}
      free == {s \in Slot : z.archive[s] = NoArchive}
      idle == {s \in Slot : ~SlotInUse(z, s)}
  IN  CASE own # {} -> CHOOSE s \in own : TRUE
        [] own = {} /\ free # {} -> CHOOSE s \in free : \A t \in free : s <= t
        [] own = {} /\ free = {} /\ idle # {} ->
               CHOOSE s \in idle : \A t \in idle : z.age[s] <= z.age[t]
        [] OTHER -> NoSlot

(* The slot as most recently used.  Of the ages that zip_clock counts only *)
(* the order is kept: the youngest is ZIP_SLOTS.                           *)
Used(age, s) ==
  [t \in Slot |-> IF t = s THEN ZIP_SLOTS ELSE IF age[t] > age[s] THEN age[t] - 1 ELSE age[t]]

(* Mutant of Register: the archive kept open stays that of the old slot.   *)
Register_LeavesOpen(z, a, s) ==
  IF z.archive[s] = a THEN [z EXCEPT !.age = Used(@, s)]
  ELSE [z EXCEPT !.archive = [@ EXCEPT ![s] = a], !.age = Used(@, s),
                 !.members = {m \in @ : VirtualSlot(z, m.path) # s}]

(* px68k_zip_register_archive, for the slot s that SlotFor gives.          *)
Register(z, a, s) ==
  IF z.archive[s] = a THEN [z EXCEPT !.age = Used(@, s)]
  ELSE [z EXCEPT !.archive = [@ EXCEPT ![s] = a], !.age = Used(@, s),
                 !.open = IF @.slot = s THEN Closed ELSE @,
                 !.members = {m \in @ : VirtualSlot(z, m.path) # s}]

(* zip_open_slot: one archive is open at a time.                           *)
OpenSlot(z, s) ==
  IF z.archive[s] = NoArchive \/ z.open.slot = s THEN z
  ELSE [z EXCEPT !.open = [slot |-> s, from |-> z.archive[s]]]

FloppiesIn(z, s) ==
  IF z.archive[s] = NoArchive THEN << >> ELSE Floppies[OpenSlot(z, s).open.from]

Cached(z, p) == {m \in z.members : m.path.slot = p.slot /\ m.path.name = p.name}

(* zip_member_get: the archive that opening a path reads, if it succeeds,  *)
(* and the state after it has been closed again.                           *)
Source(z, p) ==
  IF Cached(z, p) # {} THEN (CHOOSE m \in Cached(z, p) : TRUE).from
  ELSE IF VirtualSlot(z, p) = NoSlot THEN NoArchive
  ELSE LET a == OpenSlot(z, p.slot).open.from
           there == p.name \in Range(Floppies[a] \o Hdfs[a])
       IN  IF there /\ Cardinality(z.members) < ZIP_MEMBERS THEN a ELSE NoArchive

AfterOpening(z, p) ==
  IF Cached(z, p) # {} \/ VirtualSlot(z, p) = NoSlot THEN z ELSE OpenSlot(z, p.slot)

-----------------------------------------------------------------------------
(* The Disk Control table.                                                 *)

(* What zip_fill_disk_table does to the archives ...                       *)
Pinned(z, s) == [OpenSlot(z, s) EXCEPT !.pinned = s]

(* ... and to the table: the members from `first' on, as many as fit; the  *)
(* entries that were in use beyond them are cleared.                       *)
Filled(t, z, s, first) ==
  LET names == FloppiesIn(z, s)
      room  == {Len(names) - first, MAX_DISKS}
      n     == CHOOSE k \in room : \A l \in room : k <= l
  IN  [t EXCEPT
        !.total = n,
        !.path = [i \in Entry |->
          IF i < n THEN [slot |-> s, name |-> names[first + i + 1], of |-> z.archive[s]]
          ELSE IF i < t.total THEN Other
          ELSE @[i]]]

(* The entry at the index; behind the paths of the table come its labels.  *)
Selected(t) == IF t.index \in Entry THEN t.path[t.index] ELSE Other

(* The window of the table that holds the chosen disk and the one after.   *)
FirstShown(selected, total) ==
  LET first == IF selected > MAX_DISKS - 2 THEN selected - (MAX_DISKS - 2) ELSE 0
  IN  IF total > MAX_DISKS /\ first > total - MAX_DISKS THEN total - MAX_DISKS
      ELSE first

(* set_eject_state, for the drive that the option px68k_disk_drive names.  *)
(* An index behind the last means "no disk" and changes nothing.           *)
SetEjectState(d, ejected) ==
  /\ phase = "running"
  /\ IF disk.index = disk.total THEN UNCHANGED <<zip, FDDImage>>
     ELSE LET p == IF ejected THEN Other ELSE Selected(disk)
          IN  /\ FDDImage' = [FDDImage EXCEPT ![d] = p]
              /\ zip' = AfterOpening(zip, p)
  /\ UNCHANGED <<disk, HDImage, menuVars, sessionVars>>

SetImageIndex(i) ==
  /\ phase = "running"
  /\ i \in 0 .. disk.total /\ i # disk.index
  /\ disk' = [disk EXCEPT !.index = i]
  /\ UNCHANGED <<zip, FDDImage, HDImage, menuVars, sessionVars>>

(* The frontend appends an image: add_image_index, replace_image_index.    *)
AppendImage ==
  /\ phase = "running"
  /\ disk.total < MAX_DISKS
  /\ disk' = [disk EXCEPT !.total = @ + 1, !.path = [@ EXCEPT ![disk.total] = Other]]
  /\ UNCHANGED <<zip, FDDImage, HDImage, menuVars, sessionVars>>

-----------------------------------------------------------------------------
(* The menu.                                                               *)

(* menu_create_flist: the names the browser of a drive shows.              *)
Lists(z, s) ==
  /\ zip' = IF s = NoSlot THEN z ELSE OpenSlot(z, s)
  /\ shown' = IF s = NoSlot \/ z.archive[s] = NoArchive THEN NoArchive
              ELSE OpenSlot(z, s).open.from

(* The files of a drive are asked for: the browser starts in the archive   *)
(* of the disk in it.                                                      *)
MenuFiles(d) ==
  /\ phase = "running" /\ menu = NoDrive
  /\ LET s == VirtualSlot(zip, FDDImage[d])
         at == IF s = NoSlot THEN browse[d] ELSE s
     IN  browse' = [browse EXCEPT ![d] = at] /\ Lists(zip, at)
  /\ menu' = d
  /\ UNCHANGED <<disk, FDDImage, HDImage, sessionVars>>

(* An archive is entered ...                                               *)
MenuEnters(a) ==
  /\ phase = "running" /\ menu \in Drive /\ browse[menu] = NoSlot
  /\ LET s == SlotFor(zip, a)
     IN  IF s = NoSlot THEN UNCHANGED <<zip, browse, shown>>
         ELSE browse' = [browse EXCEPT ![menu] = s] /\ Lists(Register(zip, a, s), s)
  /\ UNCHANGED <<disk, FDDImage, HDImage, menu, sessionVars>>

(* ... and left by "..".                                                   *)
MenuLeaves ==
  /\ phase = "running" /\ menu \in Drive /\ browse[menu] # NoSlot
  /\ browse' = [browse EXCEPT ![menu] = NoSlot]
  /\ Lists(zip, NoSlot)
  /\ UNCHANGED <<disk, FDDImage, HDImage, menu, sessionVars>>

(* A member is chosen: px68k_disk_menu_sync_zip makes it the disk of the   *)
(* drive and of the table and, when asked to, puts its successor into the  *)
(* second drive.                                                           *)
MenuChooses(name, pair) ==
  /\ phase = "running" /\ menu \in Drive
  /\ name \in Range(IF shown = NoArchive THEN << >> ELSE Floppies[shown])
  /\ LET s == browse[menu] IN
     /\ s # NoSlot
     /\ LET names == FloppiesIn(zip, s)
            found == {i \in DOMAIN names : names[i] = name}
        IN  IF found = {} THEN UNCHANGED <<zip, disk, FDDImage>>
            ELSE
            LET selected == (CHOOSE i \in found : \A j \in found : i <= j) - 1
                first    == FirstShown(selected, Len(names))
                t        == Filled(disk, zip, s, first)
                at       == selected - first
                z        == Pinned(zip, s)
                second   == IF at + 1 < t.total THEN t.path[at + 1] ELSE Other
                to(d)    == IF d = menu THEN t.path[at] ELSE second
                changed  == {menu} \union (IF menu = 0 /\ pair THEN {1} ELSE {})
            IN  /\ disk' = [t EXCEPT !.index = at]
                /\ zip' = z
                /\ FDDImage' = [d \in Drive |-> IF d \in changed THEN to(d) ELSE FDDImage[d]]
  /\ menu' = NoDrive /\ shown' = NoArchive
  /\ UNCHANGED <<HDImage, browse, sessionVars>>

(* A file outside any archive is chosen for the drive, the drive is        *)
(* emptied, or the list is closed without a choice.                        *)
MenuChoosesFile ==
  /\ phase = "running" /\ menu \in Drive /\ browse[menu] = NoSlot
  /\ FDDImage' = [FDDImage EXCEPT ![menu] = Other]
  /\ menu' = NoDrive /\ shown' = NoArchive
  /\ UNCHANGED <<zip, disk, HDImage, browse, sessionVars>>

MenuEjects(d) ==
  /\ phase = "running" /\ menu = NoDrive
  /\ FDDImage' = [FDDImage EXCEPT ![d] = Other]
  /\ UNCHANGED <<zip, disk, HDImage, menuVars, sessionVars>>

MenuCloses ==
  /\ phase = "running" /\ menu \in Drive
  /\ menu' = NoDrive /\ shown' = NoArchive
  /\ UNCHANGED <<zip, disk, FDDImage, HDImage, browse, sessionVars>>

(* The hard disk is ejected, or another is chosen, never a member.         *)
MenuChangesHd ==
  /\ phase = "running" /\ menu = NoDrive
  /\ HDImage' = Other
  /\ UNCHANGED <<zip, disk, FDDImage, menuVars, sessionVars>>

-----------------------------------------------------------------------------
(* Sessions.                                                               *)

BetweenSessions == phase = "fresh" \/ (phase = "ended" /\ ~Reinits)

(* retro_load_game of an archive: its floppies, the second only when asked *)
(* to pair, or else its first hard disk, which is read at once.            *)
LoadZip(a, pair) ==
  /\ BetweenSessions
  /\ LET s == SlotFor(ZipReset, a)
         z == Pinned(Register(ZipReset, a, s), s)
         t == Filled(disk, z, s, 0)
         n == t.total
         h == [slot |-> s, name |-> Head(Hdfs[a]), of |-> a]
     IN  IF n > 0
         THEN /\ disk' = [t EXCEPT !.index = 0]
              /\ zip' = z
              /\ argv' = [h |-> FALSE, images |-> IF n > 1 /\ pair
                           THEN <<t.path[0], t.path[1]>> ELSE <<t.path[0]>>]
              /\ phase' = "loaded"
         ELSE IF Hdfs[a] # << >>
         THEN /\ disk' = t
              /\ zip' = [z EXCEPT !.members = {[path |-> h, from |-> z.open.from]}]
              /\ argv' = [h |-> TRUE, images |-> <<h>>]
              /\ phase' = "loaded"
         ELSE /\ disk' = t
              /\ zip' = z
              /\ UNCHANGED <<argv, phase>>
  /\ UNCHANGED <<FDDImage, HDImage, menuVars>>

(* ... of a list of disks, of one disk or hard disk, or of nothing.        *)
LoadList(n) ==
  /\ BetweenSessions
  /\ zip' = ZipReset
  /\ disk' = [disk EXCEPT !.total = n,
                          !.path = [i \in Entry |-> IF i < n THEN Other ELSE @[i]]]
  /\ argv' = NoArguments
  /\ phase' = "loaded"
  /\ UNCHANGED <<FDDImage, HDImage, menuVars>>

LoadOther ==
  /\ BetweenSessions
  /\ zip' = ZipReset
  /\ argv' = NoArguments
  /\ phase' = "loaded"
  /\ UNCHANGED <<disk, FDDImage, HDImage, menuVars>>

(* The first retro_run of a session: pmain, with WinUI_Init.  It uses the  *)
(* command line up.                                                        *)
Boot ==
  /\ phase = "loaded"
  /\ browse' = [d \in Drive |-> NoSlot]
  /\ FDDImage' = [d \in Drive |->
       IF ~argv.h /\ d < Len(argv.images) THEN argv.images[d + 1] ELSE Other]
  /\ HDImage' = IF argv.h THEN argv.images[1] ELSE Other
  /\ zip' = AfterOpening(AfterOpening(zip, FDDImage'[0]), FDDImage'[1])
  /\ phase' = "running" /\ argv' = NoArguments
  /\ UNCHANGED <<disk, menu, shown>>

(* retro_unload_game: the table stays as it is.                            *)
Unload ==
  /\ phase \in {"loaded", "running"}
  /\ FDDImage' = [d \in Drive |-> Other] /\ HDImage' = Other
  /\ zip' = ZipReset
  /\ phase' = "ended" /\ argv' = NoArguments
  /\ UNCHANGED <<disk, menuVars>>

(* retro_deinit and retro_init: disk_swap_interface_init.                  *)
Reinit ==
  /\ phase = "ended"
  /\ disk' = EmptyTable
  /\ zip' = ZipReset
  /\ phase' = "fresh"
  /\ UNCHANGED <<FDDImage, HDImage, menuVars, argv>>

Next ==
  \/ \E a \in Archive : \E pair \in BOOLEAN : LoadZip(a, pair)
  \/ \E n \in 1 .. MAX_DISKS : LoadList(n)
  \/ LoadOther \/ Boot \/ Unload \/ Reinit
  \/ \E d \in Drive : \E ejected \in BOOLEAN : SetEjectState(d, ejected)
  \/ \E i \in 0 .. MAX_DISKS : SetImageIndex(i)
  \/ AppendImage
  \/ \E d \in Drive : MenuFiles(d) \/ MenuEjects(d)
  \/ \E a \in Archive : MenuEnters(a)
  \/ MenuLeaves \/ MenuCloses \/ MenuChoosesFile \/ MenuChangesHd
  \/ \E name \in Name : \E pair \in BOOLEAN : MenuChooses(name, pair)

Spec == Init /\ [][Next]_vars

-----------------------------------------------------------------------------
(* The variables stay in their ranges.                                     *)
TypeOK ==
  /\ zip.archive \in [Slot -> Archive \union {NoArchive}]
  /\ zip.pinned \in Slot \union {NoSlot} /\ zip.open.slot \in Slot \union {NoSlot}
  /\ zip.age \in [Slot -> 0 .. ZIP_SLOTS]
  /\ zip.members \subseteq [path : Virtual, from : Archive]
  /\ disk.path \in [Entry -> Path]
  /\ disk.total \in 0 .. MAX_DISKS /\ disk.index \in 0 .. MAX_DISKS
  /\ FDDImage \in [Drive -> Path] /\ HDImage \in Path
  /\ browse \in [Drive -> Slot \union {NoSlot}]
  /\ menu \in Drive \union {NoDrive} /\ shown \in Archive \union {NoArchive}
  /\ phase \in {"fresh", "loaded", "running", "ended"}

(* The members that somebody may still open by name.                       *)
Named ==
  ({FDDImage[d] : d \in Drive} \union {HDImage} \union
   {disk.path[i] : i \in {j \in Entry : j < disk.total}}) \intersect Virtual

(* While a session runs, a slot that a drive, the hard disk or the table   *)
(* names keeps the archive it was named for, and the files the menu shows  *)
(* are those of the archive a choice would open.                           *)
SlotsKeepTheirArchive ==
  phase = "running" =>
    /\ \A p \in Named : zip.archive[p.slot] = p.of
    /\ menu \in Drive /\ browse[menu] # NoSlot => shown = zip.archive[browse[menu]]

(* Opening any of those names reads the archive it was made for, whichever *)
(* archive is open and whatever is cached, and there is room for it.       *)
OpensItsOwn ==
  phase = "running" => \A p \in Named : Source(zip, p) = p.of

(* "nothing is re-mounted from a stale slot" (retro_unload_game): the path *)
(* a drive is given opens the archive it was made for, if anything.        *)
NothingStale ==
  [][\A d \in Drive :
       LET p == FDDImage'[d]
       IN  p \in Virtual /\ p # FDDImage[d] => Source(zip', p) \in {p.of, NoArchive}]_vars

=============================================================================
