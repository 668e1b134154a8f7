------------------------------ MODULE KeyRing -------------------------------
(***************************************************************************)
(* The ring of make and break codes of libretro/keyboard.c (KeyBuf,        *)
(* KeyBufWP and KeyBufRP).  The mask KeyBufSize - 1 of the code is a       *)
(* remainder, since the size is a power of two.                            *)
(***************************************************************************)
EXTENDS Integers, SequencesExt

CONSTANTS
  Code,                 \* the scancodes in use
  KeyBufSize,           \* slots of the ring
  NoKey                 \* no scancode: KBD_REPEAT_NONE, a code of -1 or 0

ASSUME RingAssumption == KeyBufSize \in {2, 4, 8, 16, 32, 64, 128}
ASSUME CodeAssumption == NoKey \notin Code

Slots == 0 .. KeyBufSize - 1
Event == [code : Code, up : BOOLEAN]
NoEvent == [code |-> NoKey, up |-> FALSE]

Rings == [KeyBuf : [Slots -> Event \union {NoEvent}], WP : Slots, RP : Slots]

EmptyRing == [KeyBuf |-> [i \in Slots |-> NoEvent], WP |-> 0, RP |-> 0]

(* Mutant of NextSlot: the mask is KeyBufSize.                             *)
NextSlot_WideMask(i) == (i + 1) % (2 * KeyBufSize)

NextSlot(i) == (i + 1) % KeyBufSize

(* The end of send_keycode: a full ring drops the event.                   *)
Queued(r, event) ==
  IF NextSlot(r.WP) = r.RP THEN r
  ELSE [r EXCEPT !.KeyBuf[r.WP] = event, !.WP = NextSlot(@)]

IsEmpty(r) == r.RP = r.WP
Oldest(r) == r.KeyBuf[r.RP]
WithoutOldest(r) == [r EXCEPT !.RP = NextSlot(@)]

(* The events in the ring, oldest first.                                   *)
Queue(r) ==
  [i \in 1 .. (r.WP - r.RP) % KeyBufSize |-> r.KeyBuf[(r.RP + i - 1) % KeyBufSize]]

=============================================================================
