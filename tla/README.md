# px68k: specifications of the emulated machine's devices

TLA+ modules that model parts of px68k-libretro, TLC configurations that check
them on small instances, and theorems about them that TLAPS proves for every
value of their constants. `PROJECT.json` is the index: it names every run, every
theorem, and for every definition that models code the lines it stands for.

    tlc -workers 2 -config MCFDC.cfg MCFDC      # one run
    tlapm DMACProofs.tla                        # one proof module

1. [The system](#1-the-system)
2. [The modules and the code](#2-the-modules-and-the-code)
3. [The runs](#3-the-runs)
4. [Fairness](#4-fairness)
5. [What is proved](#5-what-is-proved)
6. [Where the code and its comments disagree](#6-where-the-code-and-its-comments-disagree)
7. [What is not modelled](#7-what-is-not-modelled)
8. [Plan](#8-plan)

## 1. The system

px68k emulates a Sharp X68000 as a libretro core. It is one thread: the frontend
calls `retro_run` for every frame of video, which reads the host's input, runs
the 68000 for a frame's worth of clocks line by line, lets the devices do what
is due, and hands over picture and sound. There are no locks; what makes the
code hard is that three parties take turns in an order nobody fixed:

* the **emulated program**, which reads and writes device registers through
  `mem_wrap.c` at any moment, in any order, sensible or not;
* the **machine's own time**, which raises interrupts, moves DMA operands and
  makes sound between any two of the program's instructions;
* the **host**: keys, pads, pointers, the menu, disks exchanged, states saved
  and loaded, files that do not open, the process that dies.

| Part | Source | State it keeps | Operations | Talks to |
|---|---|---|---|---|
| Interrupt handler | `x68k/irqh.c` | a flag and one callback slot per level; the CPU's input latch | raise, acknowledge, take back | every device; the CPU |
| MFP | `x68k/mfp.c` | enable, pending, in service, mask, vector; timers; the keyboard's data register | raise a channel, register writes, acknowledge | level 6; keyboard, CRTC, sound |
| DMA controller | `x68k/dmac.c` | four channels' registers, who waits for an answer | register writes, `DMA_Exec`, acknowledge | level 3; FDC, SASI, ADPCM; memory |
| I/O controller | `x68k/ioc.c` | enables and status of four sources on level 1 | register write | FDC, FDD, SASI, printer |
| Floppy controller | `x68k/fdc.c` | command, parameters, execution phase, buffer, result | ports at 0xe94001/3/5/7 | drives, DMA, I/O controller |
| Floppy drives, images | `x68k/fdd.c`, `disk_*.c` | file, image in memory, head, ready delay | insert, eject, seek, read, write, format | FDC; files, ZIP archives |
| SASI | `x68k/sasi.c` | bus phase, command, block buffer, sense | four registers | files, DMA, I/O controller |
| Sound ring | `libretro/dswin.c` | a ring of frames, two positions, a count, a clock | make frames, hand them over, reset, save | synthesis; frontend |
| Keyboard | `libretro/keyboard.c`, `joystick.c` | a ring of codes, who holds which key, the keyboard on screen, repeat | host keys, pads, pointers, tick, reset | MFP |
| ZIP archives | `libretro/zipdisk.c`, `dosio.c` | slots of archives, the one kept open, images in memory, dirty blocks, journals on disk | register, pin, open, write, flush, close, release | drives, disk control, menu; files |
| Mouse, serial controller | `libretro/mouse.c`, `x68k/scc.c` | the motion not yet sampled; registers, the packet being read | host's motion, ports, interrupt check, acknowledge | level 5 |
| MIDI | `x68k/midi.c` | a ring of bytes, their count, the message put together, timers | ports, timer, reset | level 4; synthesizer |
| Save states | `libretro/state.c` | the chunks of a state | save, load | every device |
| Frontend, disk control | `libretro.c` | the table of disks, its index, the paths of the drives, frame loop | libretro's callbacks | everything |
| Menu | `libretro/winui.c` | where each drive's browser is, the names it shows | choose, enter, leave, eject | drives, disk control, archives |
| ADPCM, Mercury, RTC, CRTC, video | `x68k/`, `libretro/` | | | |

What makes each of them correct, and what is hard about it:

* **Interrupts.** Several devices share one level, and `irqh.c` has one callback
  slot per level. A request must not be lost when another device, the program or
  an acknowledge interferes; the level shown to the CPU must be the highest one
  pending; whoever answers must be a device that asked.
* **DMA.** One byte written to CCR may start, continue, halt and abort at once,
  `DMA_Exec` loops over operands, blocks, arrays and chains, and a fault may
  come in the middle. A channel that stops must say so, completion must mean
  that nothing is left, and the loop must end.
* **Floppy.** Commands span many port accesses and sectors, and disks change
  between any two of them. A transfer must move the sectors its parameters name
  and stop at the end of track; a protected file must never change; the program
  must be told when a command ends and when a disk comes or goes.
* **SASI.** The same for blocks of a file that may fail, and the bus must come
  back to free whatever happened.
* **Sound.** Producer and consumer run at different rates over one ring: frames
  in order, never twice, the oldest lost first, and both loops must end.
* **Keyboard.** Three sources hold keys at once; presses and releases must pair;
  the ring's events must reach the program in order and each once, through a
  data register refilled four times a frame.
* **ZIP journal.** A crash or a full disk may cut any record; what was stored
  before must be found again.
* **ZIP slots.** A path names a slot, and slots are recycled; drives, the disk
  table and the menu keep paths and lists for as long as they like. A name must
  open the archive it was made for.
* **Mouse.** The program samples a sum that the host goes on adding to, and reads
  the packet byte by byte by interrupt or by polling: no motion may be lost or
  told twice, and no byte asked for may wait for ever.
* **MIDI.** Messages may lean on an earlier status, be broken off, or run too
  long: the synthesizer must be given what the bytes say; the queue's count and
  its bytes go separate ways when it is full or reset.

`hazards` in `PROJECT.json` lists such points at their lines, with the
properties that cover them or the reason why none does yet.

## 2. The modules and the code

    IRQH ── MFP ──────┬── Interrupts ──► PriorityIrq         FloppyDrive ── FDC ──► BlockDevice
     ││ └── DmacInt ───┤                                      SASI ────────────────► BlockDevice
     │└── SCC   └─ DMAC │                                    PcmRing ─────────────► DropOldestFifo
    KeyRing ── KeyLine┴ (MFP)  ──► KeyQueue ◄── Keyboard      ZipOverlay   ZipSlots   Midi

`──` is EXTENDS or INSTANCE, `──►` refines. `Keyboard` uses the queue that
`KeyLine` is shown to implement, and `DMAC`, `FDC` and `SASI` stop at the point
where they put up a request, which `Interrupts` takes from there.

Conventions. Variables and operators have the source's names where there is one.
Devices call each other from inside their handlers, so a routine that several
handlers share is an operator from a state to a state (`IRQH_Int(s, level, who)`,
`FDC_ExecCmd(u)`), and an action composes them in the code's order. Variables
marked *history* in the declarations carry what a property needs to remember and
never guard what the model may do. Names with an underscore and a word after it
(`FDC_NextTrack_Short`, `Store_NoReset`) are wrong variants of the definition
below them, each the bug that a property must notice; no specification uses them.

**IRQH** — `IRQH_Int`, `IRQH_IRQCallBack`, `my_irqh_callback_End` and the latch
that `m68000_set_irq_line` drives, as functions on a handler state.

**MFP** — sixteen channels as sets (enabled, pending, in service, masked), VR
with its S bit, `MFP_Int`, every write to the interrupt registers, and the
acknowledge. Each module that has an MFP composes these with its own CPU.

**DmacInt** — which channels wait for level 3 and the round of `DMA_IntCH` and
`DMA_LastInt` that answers them.

**Interrupts** — the whole system: MFP, DMA, sources on levels 1, 4, 5 and 7, the
I/O controller that gates three of them, the CPU's mask and its accept.

**PriorityIrq** — the promise: the CPU takes the highest pending level above its
mask, and taking it disturbs no other.

**DMAC** — CSR and CCR bit by bit, the modes of OCR and DCR, BTC, MTC, and for
lists the number of entries left. `DMA_Exec` is one action per operand: while
`handler` says that it runs, nothing else does, as in the C loop. `WriteCCR`
covers all 32 combinations of the byte's bits, in the code's order of tests.

**PcmRing** — `sound_send` and `raudio_callback` one contiguous span at a time,
as their loops work; `DSound_Send0` with its clock remainder; reset; the state
action. Frames are values, so that an order can be seen. **DropOldestFifo** is
the same without indices.

**ZipOverlay** — the image in memory, its dirty blocks, the journal as a sequence
of records, each whole or cut. A flush is one step per record, and any step may
be the one at which the disk is full or the process dies.

**ZipSlots** — the slots of `zipdisk.c` with their recycling, the pin, the archive
kept open and the members in memory; the Disk Control table and its callbacks;
the browser of the menu; and sessions: load, boot, unload, and the `retro_init`
that the frontend may or may not put between them. A path carries, as history,
the archive it was made for: the string the code keeps does not show it.

**SCC** — the mouse's sum in fractions, the cut to a byte and its overflow bits,
the registers that matter (WR1, 3, 5, 9) with both ports' pointers, the packet,
the check for an interrupt, the acknowledge, and a program that polls or serves.

**Midi** — the queue with its count, `MIDI_Message` over classes of bytes (a
status of two and of three bytes, each message of the system, data, real-time
bytes and those that are no status), and `MIDI_Init`. Beside it stands what a
receiver of the same bytes understands, written from the outside.

**KeyRing, KeyLine** — the ring of codes; `send_keycode`, `Keyboard_Int`, the
register's read, the MFP channel it requests and a program that serves it.
**KeyQueue** is the promise: in order, each once, lost only when full.

**Keyboard** — who holds each key: the host (`handle_retrok` and both key
tables), pads through Joy2Key, pads and pointers on the keyboard on screen,
sticky modifiers and repeat, all in the order of `retro_run`'s calls. A loop of
the code over buttons, keys or events is `Each`, which does its body once for
each element of a sequence: `Each` is a function of the number of iterations, so
that what a loop keeps and counts can be proved.

**FloppyDrive** — files, images, heads, the ready delay, protection, and for each
of the three formats how it seeks, finds a sector, formats and writes back.

**FDC** — every command with its parameters, the execution phase byte by byte,
`FDC_NextTrack` with MT and EOT, results, drive control, insertion by the
frontend, ejection by the program, frames and reset. A parameter block and a
result block each count as one access.

**SASI** — bus phases, all commands with their sense codes, the block buffer byte
by byte, seeks, reads and writes that may fail at each call, the status phase.

**BlockDevice** — what both disks promise: the blocks named, in order, each as
stored or blank; a write touches its own block only; an early end is an error.

## 3. The runs

Sizes are distinct states; every run ends within some three minutes with two
workers. **archives**, **sound** and **serial_lines** hold two models each that
have no state of interest in common: a variable `works`, chosen at first, says
which of the two takes steps, and a property of one is checked while it works.
A violation run shows one disagreement of section 6. Deadlock is checked in
every run, and no run turns it off.

**interrupts** (`MCInterrupts`, 299 000). Two MFP channels, one in each bank,
two DMA channels, FDC and FDD on their shared level, masks 0 and 7, and enables
none and both. Each kind of sharing is there twice and the CPU is open or
closed: a third sharer meets no new case of one slot or of a priority scan.
`LineIsHighestPending`: the latch always shows the highest level flagged.
`MfpFlaggedIffDeliverable`, `DmaFlaggedIffWaiting`: level 6 or 3 is flagged
exactly while a channel can be answered. `AnsweredByRequester`: the routine in a
slot belongs to a device that asked and is owed an answer. `DeliversByPriority`:
the system refines `PriorityIrq`.

**dmac** (`MCDMAC`, 334 000). One channel (they share only `DMA_IntCH`, which
`interrupts` has twice), continued, array and link transfers, both directions,
maximum rate and device's rate. Counts to 2, continued blocks and chain entries
to 1: enough for a block that ends in a burst, one that does not, and a list
that continues and ends. `ActiveIsStarted`, `StopIsReported`: a step that stops
a channel with its interrupt enabled leaves it waiting and level 3 on the line.
`CompletesEmpty`: completion without error means nothing is left to move.
`ExecReturns`: `DMA_Exec` always comes back.

**sound** (`MCSound`, 118 000). The ring: three frames, a cushion of one, up to
five made by one call and up to four asked: more than the ring holds either way,
with both wraps. `PositionsAgree`: write is read plus count, modulo the ring,
inside the loops too. `HeardInOrder`: refines `DropOldestFifo`. `CallsReturn`.
The MIDI board: a byte of each class, a ring of two bytes, exclusives of up to
four: a message of every kind, each broken off by each other, and an overflow.
`SendsWhatIsReceived`: what the synthesizer is given at each step is what a
receiver would have understood. `BytesAreSent`: bytes in the ring keep leaving
it although drops and resets let the count and the ring go apart.

**archives** (`MCArchives`, 1 467 000). The journal: two blocks, five records: two
flushes of both and one more, each of which may be cut. `CleanBlocksAgree`:
between flushes a block in memory that is not marked dirty is the block a replay
would give. `ReplayGivesFlushed`: at any moment a replay gives each block what
the last successful flush stored or a value given to a flush that failed since.
Both set apart the journals in which something follows a cut record
(`CutInside`); **zip_overlay_tail** (`MCZipOverlay`) shows what happens to them.
The slots: three archives for two slots, so that one must be recycled, with more
floppies than the table holds, just one, and a hard disk instead; two members in
memory. `SlotsKeepTheirArchive`: while a session runs, a slot that a drive, the
hard disk or the table names holds the archive it was named for, and the menu
shows the files that a choice would open. `OpensItsOwn`: opening such a name
reads that archive, whichever is open and whatever is cached, and there is room
for it. Both take a frontend that calls `retro_init` between sessions;
**zip_slots_stale** (`MCZipSlots`) is one that does not.

**serial_lines** (`MCLines`, 286 000). The keyboard's line: one key, press and
release, a ring of four (three events), the keyboard's MFP channel.
`ReadInOrder`: refines `KeyQueue`. `EventsAreRead`: an event in the register is
read, unless the program itself cleared or disabled its request. The mouse's:
half counts, so that a fraction is given up, and packets of -1 and 0 with sums
just beyond them on both sides. `MotionIsConserved`: what the program is still
to be told of is the sum plus the packet being read. `BytesAreRead`: a byte that
the program has asked to be interrupted for is read, or no longer asked for.

**keyboard** (`MCKeyboard`, 22 000). One key and SHIFT, reachable by host, one
pad and one pointer, so that all holders compete for one key; a queue of one, so
that it is often full. `RefsCountHolders`: each count is the number of holders
of its kind. `DownOnlyIfHeld`: a key that `send_keycode` has marked down is held by the host, a
button or the keyboard on screen (a latch included), and only such a key
repeats, even when the ring was full and lost its events. **keyboard_navigation**
is section 6.

**sasi** (`MCSASI`, 83 000). One device, a drive with a file of one or two blocks
of two bytes, counts modulo 3 (so that 0 wraps to more than the file has).
`MovesBlocks`: refines `BlockDevice`, reads and writes. `StatusIsAnnounced`:
every way into the status phase sets the bit and asks for the CPU if enabled.
`ReturnsToBusFree`.

**floppy** (`MCFDC`, 204 000). One drive; a writable D88 file with a sector on
each side and a protected XDF file with two on one side; sectors of two bytes;
transfers over both sides with MT, and over two sectors of one side. That makes
a next byte, a next sector, a next side, an end of track and a missing sector.
Disks come, go and change at any state. `MovesSectors`: refines `BlockDevice`.
`ProtectedUnchanged`: no protected file changes, whatever is written,
formatted, exchanged or fails to open. `ReadsShrink`: every byte read leaves
fewer to read. `EndIsReported`: an execution phase ends with a result and a
request for the CPU. `ChangeIsAnnounced`: a disk that arrives or leaves is
reported.

Three refinements map a history variable: `last` (SASI, FDC, KeyLine) is the
block or event that the step just moved. A transfer that the program abandons or
a disk change disturbs is `Abort` or `disturbed`; from then until the next
command the FDC's transfer promises nothing about order, only that protected
files stay and that places hold whole blocks.

## 4. Fairness

Fairness is asserted only where the code or its caller supplies it.

* **Midi**: weak fairness of `MIDI_Timer`; the machine's clock does not stop.
* **SCC**: weak fairness of the check, which `retro_run` makes several times a
  frame, and for the program what KeyLine assumes: it lets level 5 through again
  and again, and its routine reads a byte and returns.
* **DMAC**, **PcmRing**: weak fairness of the steps of a C loop. Nothing preempts
  it, so each call is carried on once begun.
* **KeyLine**: an assumption on the emulated program, without which no event would
  be read. Its routine reads the register and returns (weak fairness), it lets
  the channel through again and again, and the CPU then takes the interrupt
  (strong fairness, since masks and flags come and go). `Keyboard_Int` needs no
  fairness: the property is about an event that has reached the register.
* **SASI**: weak fairness of `FollowsBus`, a program that does what the phase on
  the bus asks for. Resets, failures and other writes are not fair and may
  interfere at any time.
* **FDC**, **Interrupts**, **Keyboard**, **ZipOverlay**, **ZipSlots**: none. For the FDC the claim
  that transfers end is the measure `ReadsShrink`, an action property: it needs
  no fairness, and says that only the program can keep a transfer from ending.

`MCSound` and `MCLines` state the same fairness for whichever half works.

## 5. What is proved

With no assumption on the constants other than the ASSUMEs, which stand in the
module that declares the constants, or, where only the proofs need them of two
models checked together, in the MC module that composes these. `KeyBufSize` is
assumed to be one of the powers of two up to 128 (the code masks positions with
`KeyBufSize-1`), the archives to be distinct from none and to list names, the
MIDI buffer to hold more than three bytes. Beyond these, three theorems state a
hypothesis of their own: `SlotsAreKept` and `NamesOpenTheirOwn` a frontend that
calls `retro_init` between sessions, `NoKeyStaysDown` a host without COMPOSE.

**Interrupts** (`InterruptsProofs`), for
every set of MFP and DMA channels, sources, masks and enables. The inductive
invariant `IInv` is the type invariant, the four properties of the run, and
`OnlyKnownLevels` (no level is flagged that no device has). None of the four is
inductive alone: `IRQH_Int` keeps the latch only if the latch was right, whether
level 6 must be flagged depends on what an acknowledge leaves, and the refinement
needs the routine of a flagged level to be that of its device. The module's lemmas
say what each routine of `irqh.c` does to flags, slots and latch; each action then
cites them (`DMACProofs` has those of the DMA round too). `ImplementsPriority` shows that every step is one
of `PriorityIrq` or a stutter under the mapping pending = flags.

**DMAC** (`DMACProofs`), for every set of channels and every bound. `IInv` is
`ChannelsGood` (each channel is well formed, and if active then started),
`HandlerKnown` (a call in progress is one of a channel in use) and `IntGood`
(the latch shows the highest level flagged, no level but 3 is flagged, and
`DMA_IntCH` and `DMA_LastInt` are in range). A step inside `DMA_Exec` or in the
rest of a write to CCR works on the channel that `handler` names, so the first
part needs the second. `StopsAreReported` needs all three: the line shows level
3 after a request only if the latch was right and nothing higher is flagged.
`CompletionsAreEmpty` follows a channel through each action: every step but the
end of a block leaves the completion bit as it was (`Quiet`), an error raised on
the way is no completion, and the end of a block sets it only when the counter
is used up and the list, if there is one, too (`WellEnded`).

**SASI** (`SASIProofs`), for every size and number of blocks, width of the count,
set of drives and every byte a program writes. `IInv` is the types, the pointers
of each phase inside what they point into, and `TransferInv`: in the data phase
the part of the block already moved is that of the block at the current place,
or blank if the seek failed, and outside it nothing is half moved. The command
pointer stays below six in phases 1 and 2, where it is an index, and is six in
the others. `ImplementsDevice` maps each step to one of `BlockDevice` or a
stutter: the last byte of a block is its `Deliver` or `Store`, which goes on or
ends (early only with an error), and a reset is its `Abort`.

**Sound** (`SoundProofs`). The ring, for every capacity, cushion, clock and
demand: `RingInv` = `TypeOK /\ PositionsAgree`. The spans are minima of three
numbers and the positions are taken modulo the capacity; the lemmas bound both.
`ImplementsFifo` maps the ring to the `pcm_count` frames from the read position
on: a turn of `sound_send` drops from the front of that queue and appends to its
end, a turn of `raudio_callback` takes its front, neither depending on where
either wraps. The MIDI board, for every length of its buffers and whatever bytes
are written: `MessagesAgree` says that `MIDI_Message` and a receiver which splits
the bytes into messages hold the same bytes after each, and that the board's
state is the kind of message the first of them begins; `SendsWhatIsReceived` is
not inductive without it, since what the next byte ends depends on that kind.
`BytesCounted`, which the run does not state, says that the bytes waiting are
never more than the count that keeps the timer taking them.

**Archives** (`ArchivesProofs`). The journal, for every number of blocks, values
and length. The inductive invariant `JournalInv` is the types, `FlushAgrees`
(where a flush is says what the header is and how far the loop has come),
`SettledAgree` (an unmarked block, and one that the loop has passed, is as a
replay gives it), `MeansToWrite` (a block that is still to be written holds a
value the flush set out to write) and `ReplayGivesFlushed`. Neither property is
inductive without the others: what a replay gives after a record depends on
which blocks the loop has passed, and marks are taken off only at its end. The
lemmas say what a replay makes of a journal with a whole or a cut record at its
end (`WholeCountAppended`, `ValueAppended`, `RecordAppended`, `CutRecordKeeps`).
`FitsInv` adds that what a flush has still to write fits the bound on the
journal, which the types need: the dirty blocks are counted as marks are made.

The slots, for every number of slots, members and disks and every content of the
archives. `SlotsInv` is the types (`SlotsTyped`, with what the cache holds being
of the archive its path was made for) and, for a frontend that calls
`retro_init` between sessions (`Reinits`, the constant that the run sets to TRUE
and `zip_slots_stale` to FALSE), `SlotsAgree`: outside a session nothing is in a drive,
every name in use is kept (its slot still holds the archive it was made for and
that archive lists it), the table's archive names are all of the pinned slot, and
the menu shows the slot it opened. Why a slot in use is not recycled depends on
who uses it: a drive's is looked up in the search, the table's is pinned, and
while the menu is open nothing but the menu registers an archive, and lists it
anew when it does. `SlotsAreKept` and `NamesOpenTheirOwn` state the two
properties under that hypothesis; without it the run shows them false.
`TypesStay` needs no hypothesis. The order of use is kept as ranks (`age`), so
that the oldest slot is the least of a finite set of numbers.

**Lines** (`LinesProofs`). The mouse, for every unit, limit, motion and bound: the
inductive invariant adds to `MotionIsConserved` that the sum is an integer and
that what is left of a packet is one of its four tails, since which byte the
count is depends on how many have been read. A sample is the one hard step: it
is taken only when nothing is left, and the cut of the count is made up for by
its bit. The keyboard, for every size of the ring, set of keys and of MFP
channels: `KeysInv` says that the places of the ring from the read position up
to the write position hold events. The type invariant alone, under which any
place may hold none, is not enough: `Keyboard_Int` could put no event into the
register, and the ring would be no queue of events. `ImplementsQueue` maps
the register, while its interrupt is due, and those places to `KeyQueue`'s
queue. The highest level flagged and the highest channel pending exist because
the order on the numbers is well founded.

**FDC** (`FDCProofs`), for any of the four drives, every file whose contents are
well-formed sectors, every parameter block within the ranges of its bytes and
every length of a sector (`TransferAssumption`, `CylinderAssumption`,
`DataAssumption`, `DriveAssumption`; the sector number counts modulo `RMod`, any
number above 1). Every handler is shown to return what it was given of
the disk (file, protection, ready delay), of the command and of its counters
(`Handles`), and a command with an execution phase to leave it by
`FDC_EPhaseEnd` or to wait for exactly its own buffer (`EndsOrWaits`);
`FDC_NextTrack` and `FDC_WriteBuffer` are put together from these. `IInv` is the
types, `Phase` (in the execution phase the command has one, its buffer has the
length of that command and both pointers lie in it; outside nothing is written),
`Fresh` (the pointers of a command to come are zero: without it a command's
first pointer could lie outside), `ProtectedReadOnly` (a drive that holds a
protected file knows it: without it an ejection could write it back) and
`ProtectedUnchanged`. `EndIsReported` needs `Phase` as well.

`ImplementsDevice` rests on a second invariant, `TransferInv`: the images in
memory hold sectors; the buffer carries what was read or collected; a transfer
that nothing disturbed stands at the sector it is due, without an error; and the
bytes moved are those before the pointer. `RemainingIs` is the one fact about
parameters that is needed: `FDC_NextTrack` goes to the first of the sectors left
and leaves the others. The last byte of a sector then maps to the abstract
device's `Deliver` or `Store`, a change of disk or of direction during a transfer
to its `Abort`, and every other step to a stutter or to a start or an end.
`ReadsShrink` follows from the same fact: the measure is the sector's size times
the sectors left, less the pointer.

**Keyboard** (`KeyboardProofs`), for every set of keys, buttons, pads and touches
(each finite: `SizeAssumption`), every capacity of the ring and every map from
buttons to keys in which the confirming button does not open the keyboard
(`MapAssumption`). `IInv` is the types and `OsdCounted` and `JoyCounted`, the two
halves of `RefsCountHolders`, strengthened by `PadKeeps`: a pad holds a key of the
keyboard on screen only with a button that it has seen pressed, and holds none
while that keyboard is closed. Without it a press could overwrite a code already
held, whose count would then never fall. The counts are cardinalities of the
sets of holders, so each press or release is one lemma: it adds to or takes from
one of these sets a single element. A loop (`Joystick_Update` over the buttons,
`Keyboard_OSDReleaseAll` over the keys, the latches and the host's keys) is
proved by an invariant of its iterations, by induction over the states the
loop goes through.

`DownOnlyIfHeld` is the third part. A key is marked down only by a press that
finds its count at zero, and the last holder's release clears the mark; but the
host's keys have no count, so that `HeldByHost` must be carried through
`handle_retrok` one key at a time. The theorem `NoKeyStaysDown` is for a host that
never sends COMPOSE: a key let go while COMPOSE selects the other table is never
released in the code (it is listed as a hazard), and the property is false there.

Only model-checked: every liveness property (`ExecReturns`, `EventsAreRead`,
`BytesAreRead`, `CallsReturn`, `BytesAreSent`, `ReturnsToBusFree`), which is out of
the prover's reach together with the fairness it needs. Of `BytesAreSent` the
safety half is proved (`BytesStayCounted`). The four runs that show a violation
state nothing to prove. All other invariants and action properties of the passing
runs, and all six refinements, are stated by a theorem.

## 6. Where the code and its comments disagree

* `dmac_error_code`: the macro `DMAERR` is used between `if` and `else` without
  braces; the else binds inside it, and faults store no code or the wrong one.
* `zip_overlay_tail`: "Truncated tail records are ignored, preserving previous
  valid writes", but a flush after a failed one appends behind the cut, and the
  load reads across it.
* `zip_slots_stale`: paths are cleared "so nothing is re-mounted from a stale
  slot", but the Disk Control table keeps the last session's paths until
  `retro_init`, and closing the tray mounts them.
* `keyboard_navigation`: navigation presses "never reach the game afterwards",
  but Joy2Key is updated before the block is set when the other port closed the
  keyboard.

Seen while reading and kept in the models as the code has it, without a run,
because no comment or test says otherwise:

* A completed DMA channel keeps STR; MTC is tested for zero after CCR is stored;
  address faults 5 and 7 have no case, so the transfer is retried silently; the
  round of `DMA_LastInt` lets one busy channel starve the others.
* A SASI command for no blocks runs through 2^32; the result of `SASI_Flush` is
  overwritten by the seek behind it; device 0x7f indexes past the table.
* A floppy write to a missing sector asks for the CPU but stays in the execution
  phase; a scan that finds a difference goes on to the next sector; a disk
  exchanged in mid-write receives the rest; a D88 track formatted with several
  sectors keeps the first; a D88 file that fails half way leaves its tracks.
* Closing the keyboard on screen releases what it holds, and a full ring drops
  the releases.
* `disk.inserted` is not told of a disk that the program or the menu ejects.
* The SCC's request outlives the bytes: a program that polled them all is still
  interrupted. Mouse buttons are shared by the mouse and Joy2Key without counts.
* A status that is none (0xf4) in the middle of a MIDI message leaves what it was
  to become, so that the next data is sent as its head; an exclusive longer than
  1024 bytes is dropped and its rest played as running status; the timers and the
  transmitter overwrite each other's vector.
* A journal whose twelve-byte header was cut is never written again;
  `zip_member_release` frees dirty blocks although their flush failed.

## 7. What is not modelled

`components` in `PROJECT.json` gives the reason for each part. In short: pixels,
synthesis and the CPU's instructions are computation with hardly any control;
fmgen, c68k, Musashi, the SC-55 and libretro-common are third-party, and make up
nine tenths of the lines; the SCSI source is a stub. Left out
inside modelled parts: MFP timers and GPIP, DMA addresses (lists keep their
length), the printer, positions within a floppy track, malformed image files,
sector lengths of zero, the OSD's cursor, lamps, mouse buttons, tone maps, the
MIDI timers, archives that cannot be read.

Save states are modelled for the sound ring only. Seen while reading them:
`libretro/state.c` looks for each section from the start, and a fast state has
no names, so that it depends on the order; a load that fails at one of the 23
devices goes on with the others and leaves a mixture. Left out of the sections
are the callbacks of `irqh.c`, `KeyIntFlag` and the key ring, the CRTC's fast
clear line, and the last entries of MIDI's `DelayBuf`, whose size is computed
for entries of five bytes where they have eight.

Bounds are constants, named in the modules and set in the `.cfg` files: `MaxCount`,
`MaxBlocks`, `MaxChain` (DMAC), `MaxWant` (PcmRing), `MaxJournal` (ZipOverlay),
`MaxBuffered` (Midi), `Sums` (SCC), `ZIP_SLOTS`, `ZIP_MEMBERS`, `MAX_DISKS` (ZipSlots),
`Capacity` (Keyboard), `CountMod`, `MaxBlocks`, `MaxFirst` (SASI), `RMod`,
`Transfers`, `Formats`, `Cylinders` (FDC). `CountMod` and `RMod` stand for the
width of an integer, so that wrapping happens in the model as it does in C.

## 8. Plan

The order was: what every device depends on (interrupts), the engine the disks
and the sound use (DMA), then the parts with the hardest orderings.

Done: 1 IRQH, MFP, DmacInt, Interrupts; 2 DMAC; 3 PcmRing; 4 ZipOverlay;
5 KeyRing, KeyLine, Keyboard; 6 SASI; 7 FloppyDrive, FDC; 8 ZipSlots with the
disk control and the menu; 9 SCC; 10 Midi. All have proofs of their
types and safety, and all six refinements are proved.

Next, models:

1. The MIDI board's timers and vector, and the program's wait for a free place.
2. `SaveState`: a load that fails half way, and for each modelled device what its
   state action leaves out. Property: after a load no flag points at a routine
   the loaded session did not set.
3. Floppy images in detail: D88 lists of sectors in file order, DIM's aliases,
   files that fail to parse.
4. The ADPCM step as a pure function against a reference; sound pacing.

Next, proofs: those of the models above as they come; and that `Keyboard`, with its
queue, is the composition of its sources with `KeyQueue`, which is so far by
reading. The modules meant for proof declare no RECURSIVE operators.
