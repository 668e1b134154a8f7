------------------------------ MODULE PcmRing -------------------------------
(***************************************************************************)
(* The sound buffer of libretro/dswin.c: a ring of stereo frames, written  *)
(* as emulated time passes and read once for every frame of video.         *)
(*                                                                         *)
(* Both sides work in turns over contiguous spans of the ring.  Producer   *)
(* and consumer are calls of one thread: while one runs nothing else does. *)
(***************************************************************************)
EXTENDS Integers, Sequences, FiniteSetsExt

CONSTANTS
  Capacity,             \* PCM_CAPACITY
  Cushion,              \* AUDIO_CUSHION_FRAMES
  Rate, Tick,           \* frames made in Tick units of the emulated clock
  Clocks,               \* the clock counts DSound_Send0 is called with
  MaxWant,              \* the most frames the frontend is given at once
  Sound,                \* what the synthesizers can make a frame of
  Silence               \* a frame of zeros

ASSUME CapacityAssumption == Capacity \in Nat \ {0} /\ Cushion \in 0 .. Capacity - 1
ASSUME ClockAssumption == Rate \in Nat /\ Tick \in Nat \ {0} /\ Clocks \subseteq Nat
ASSUME WantAssumption == MaxWant \in Nat

Frame == Sound \union {Silence}
Index == 0 .. Capacity - 1

VARIABLES
  pcmbuffer, pcm_read, pcm_write, pcm_count,
  snd_precounter,       \* clock not yet turned into frames
  length,               \* frames sound_send has yet to make
  frames,               \* frames raudio_callback has yet to fill
  out                   \* what it has filled

ringVars == <<pcmbuffer, pcm_read, pcm_write, pcm_count>>
vars == <<ringVars, snd_precounter, length, frames, out>>

Idle == length = 0 /\ frames = 0

Init ==
  /\ pcmbuffer = [i \in Index |-> Silence]
  /\ pcm_read = 0 /\ pcm_write = Cushion /\ pcm_count = Cushion
  /\ snd_precounter = 0
  /\ length = 0 /\ frames = 0 /\ out = << >>

(* Mutant of ResetRing: the write position is left where it was.           *)
ResetRing_KeepsWrite ==
  /\ pcmbuffer' = [i \in Index |-> Silence]
  /\ pcm_read' = 0
  /\ pcm_count' = Cushion
  /\ UNCHANGED pcm_write

ResetRing ==
  /\ pcmbuffer' = [i \in Index |-> Silence]
  /\ pcm_read' = 0
  /\ pcm_write' = Cushion /\ pcm_count' = Cushion

(* A game is loaded or unloaded, the machine is reset, the menu opens or   *)
(* closes.                                                                 *)
audio_buffer_reset ==
  /\ Idle
  /\ ResetRing
  /\ UNCHANGED <<snd_precounter, length, frames, out>>

(* A state is loaded.  One that cannot be read may still have replaced the *)
(* counter.                                                                *)
dswin_StateAction ==
  /\ Idle
  /\ snd_precounter' \in 0 .. Tick - 1
  /\ ResetRing \/ UNCHANGED ringVars
  /\ UNCHANGED <<length, frames, out>>

(* A line of video has passed.                                             *)
DSound_Send0(clock) ==
  LET elapsed == snd_precounter + Rate * clock
  IN  /\ Idle
      /\ snd_precounter' = elapsed % Tick
      /\ length' = elapsed \div Tick
      /\ UNCHANGED <<ringVars, frames, out>>

-----------------------------------------------------------------------------
(* The turns of sound_send.                                                *)

(* Mutant of Writable: it looks at the end of the buffer only.             *)
Writable_IgnoresCount == Min({length, Capacity - pcm_write})

(* The contiguous span that may be written.                                *)
Writable == Min({length, Capacity - pcm_write, Capacity - pcm_count})

(* Mutants of DropOldest: the newest frames are given up; none are.        *)
DropOldest_Newest ==
  LET drop == Min({length, pcm_count})
  IN  /\ Writable = 0
      /\ pcm_write' = (pcm_write - drop) % Capacity
      /\ pcm_count' = pcm_count - drop
      /\ UNCHANGED <<pcmbuffer, pcm_read, length>>

DropOldest_FreeOnly ==
  LET drop == Min({length, Capacity - pcm_count})
  IN  /\ Writable = 0
      /\ pcm_read' = (pcm_read + drop) % Capacity
      /\ pcm_count' = pcm_count - drop
      /\ UNCHANGED <<pcmbuffer, pcm_write, length>>

DropOldest ==
  LET drop == Min({length, pcm_count})
  IN  /\ Writable = 0
      /\ pcm_read' = (pcm_read + drop) % Capacity
      /\ pcm_count' = pcm_count - drop
      /\ UNCHANGED <<pcmbuffer, pcm_write, length>>

(* ADPCM_Update and OPM_Update fill the span.                              *)
Synthesize ==
  /\ Writable > 0
  /\ \E pcm \in [pcm_write .. pcm_write + Writable - 1 -> Sound] :
       pcmbuffer' = [i \in Index |-> IF i \in DOMAIN pcm THEN pcm[i] ELSE pcmbuffer[i]]
  /\ pcm_write' = (pcm_write + Writable) % Capacity
  /\ pcm_count' = pcm_count + Writable
  /\ length' = length - Writable
  /\ UNCHANGED pcm_read

sound_send ==
  /\ length > 0
  /\ DropOldest \/ Synthesize
  /\ UNCHANGED <<snd_precounter, frames, out>>

-----------------------------------------------------------------------------
(* retro_run asks for the frames of one video frame.                       *)
CallBack(want) ==
  /\ Idle
  /\ frames' = want /\ out' = << >>
  /\ UNCHANGED <<ringVars, snd_precounter, length>>

(* The contiguous span that may be read.                                   *)
Readable == Min({frames, Capacity - pcm_read, pcm_count})

audio_samples_discard(n) ==
  /\ pcm_read' = (pcm_read + n) % Capacity
  /\ pcm_count' = pcm_count - n
  /\ UNCHANGED <<pcmbuffer, pcm_write>>

Copy ==
  /\ pcm_count > 0
  /\ out' = out \o [i \in 1 .. Readable |-> pcmbuffer[pcm_read + i - 1]]
  /\ audio_samples_discard(Readable)
  /\ frames' = frames - Readable

FillWithSilence ==
  /\ pcm_count = 0
  /\ out' = out \o [i \in 1 .. frames |-> Silence]
  /\ frames' = 0
  /\ UNCHANGED ringVars

raudio_callback ==
  /\ frames > 0
  /\ Copy \/ FillWithSilence
  /\ UNCHANGED <<snd_precounter, length>>

Next ==
  \/ audio_buffer_reset
  \/ dswin_StateAction
  \/ \E clock \in Clocks : DSound_Send0(clock)
  \/ sound_send
  \/ \E want \in 0 .. MaxWant : CallBack(want)
  \/ raudio_callback

(* The loops run on: they are C code that nothing preempts.                *)
Spec == Init /\ [][Next]_vars /\ WF_vars(sound_send) /\ WF_vars(raudio_callback)

-----------------------------------------------------------------------------
(* The variables stay in their ranges: no index leaves the buffer, and at  *)
(* most Capacity frames are counted.                                       *)
TypeOK ==
  /\ pcmbuffer \in [Index -> Frame]
  /\ pcm_read \in Index
  /\ pcm_write \in Index
  /\ pcm_count \in 0 .. Capacity
  /\ snd_precounter \in 0 .. Tick - 1
  /\ length \in Nat
  /\ frames \in 0 .. MaxWant
  /\ out \in Seq(Frame)

(* The three positions agree, in the middle of the loops too: after the    *)
(* resets, the drops and the wraps, pcm_count is how far pcm_write is      *)
(* ahead of pcm_read.                                                      *)
PositionsAgree == pcm_write = (pcm_read + pcm_count) % Capacity

(* The ring implements the queue: every frame is heard once and in order,  *)
(* the oldest are lost and only when the ring is full, and silence is      *)
(* heard only when nothing was left.                                       *)
Unread == [i \in 1 .. pcm_count |-> pcmbuffer[(pcm_read + i - 1) % Capacity]]
Abstract == INSTANCE DropOldestFifo WITH queue <- Unread
HeardInOrder == Abstract!Spec

(* Neither loop holds the machine up, however far behind the consumer is.  *)
CallsReturn == (length > 0 \/ frames > 0) ~> Idle

=============================================================================
