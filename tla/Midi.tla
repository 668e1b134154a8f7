-------------------------------- MODULE Midi --------------------------------
(***************************************************************************)
(* What the MIDI board (x68k/midi.c) sends: the program writes bytes, a    *)
(* byte's time later each leaves the queue, and MIDI_Message puts them     *)
(* together to the messages the synthesizer or the frontend is given.      *)
(*                                                                         *)
(* An output is open, and no tone map is loaded.  The board's requests on  *)
(* level 4 are those of module Interrupts; its two timers, its vector and  *)
(* the program's waiting for a free place are left out, so that the        *)
(* program may write at any time.                                          *)
(***************************************************************************)
EXTENDS Integers, SequencesExt

CONSTANTS
  Byte,                 \* the bytes the program writes, by their meaning
  MIDIDELAYBUF,         \* places of the queue's ring: 4096
  MIDIBUFFERS,          \* bytes an exclusive message may have: 1024
  MaxBuffered           \* bound: bytes that count as buffered

VARIABLES
  MIDI_Buffered,        \* the bytes written whose time has not passed
  DelayBuf,             \* the bytes in the ring, oldest first
  midi,                 \* the message being put together: MIDI_CTRL, MIDI_BUF
                        \* up to MIDI_POS, MIDI_LAST, MIDI_SYSCOUNT
  sent,                 \* history: the message this step gave away, or None
  stream                \* history: the bytes as a receiver takes them

vars == <<MIDI_Buffered, DelayBuf, midi, sent, stream>>

(* 0x80 and 0xc0 stand for the messages of three and of two bytes; 0x7f    *)
(* for itself and 0x7e; 0xf4 for what is no status, 0xf8 for the bytes     *)
(* that may come anywhere.                                                 *)
Channel == {"80", "c0"}
Status == Channel \union {"f0", "f1", "f2", "f3", "f6"}
Data == {"00", "01", "7f"}
None == << >>
Idle == [CTRL |-> "READY", BUF |-> << >>, LAST |-> "80"]

Init ==
  /\ MIDI_Buffered = 0 /\ DelayBuf = << >>
  /\ midi = Idle
  /\ sent = None
  /\ stream = [message |-> << >>, running |-> "80", due |-> None]

-----------------------------------------------------------------------------
(* MIDI_Message.  MIDI_CTRL is the name of its state, and the length that  *)
(* MIDI_SYSCOUNT gives a message of the system.                            *)

Ctrl(status) ==
  CASE status = "80" -> "3BYTES"
    [] status = "c0" -> "2BYTES"
    [] status = "f0" -> "EXCLUSIVE"
    [] status = "f1" -> "TIMECODE"
    [] status = "f2" -> "SYSTEM3"
    [] status = "f3" -> "SYSTEM2"
    [] status = "f6" -> "SYSTEM1"

(* Mutant of Remembered: a status that cuts a message short is not kept.   *)
Remembered_WhenReady(m, byte) ==
  IF byte \in Channel /\ m.CTRL = "READY" THEN byte ELSE m.LAST

(* The channel status that data alone repeats.                             *)
Remembered(m, byte) == IF byte \in Channel THEN byte ELSE m.LAST

(* A status begins a message wherever it comes; data begins one that       *)
(* repeats the last status; all else goes on with the message.             *)
WithByte(m, byte) ==
  CASE byte \in Status -> [CTRL |-> Ctrl(byte), BUF |-> <<byte>>, LAST |-> Remembered(m, byte)]
    [] byte \notin Status /\ m.CTRL = "READY" ->
         [m EXCEPT !.CTRL = Ctrl(m.LAST), !.BUF = <<m.LAST, byte>>]
    [] OTHER -> [m EXCEPT !.BUF = Append(@, byte)]

Ends(m) ==
  LET n == Len(m.BUF) IN
  CASE m.CTRL \in {"2BYTES", "SYSTEM2"} -> n >= 2
    [] m.CTRL \in {"3BYTES", "SYSTEM3"} -> n >= 3
    [] m.CTRL = "SYSTEM1" -> TRUE
    [] m.CTRL = "EXCLUSIVE" -> Last(m.BUF) = "f7" \/ n >= MIDIBUFFERS
    [] m.CTRL = "TIMECODE" -> n >= 2 /\ Last(m.BUF) # "7f"

(* A message that ends is sent, but for those of the system and for an     *)
(* exclusive one that is too long.                                         *)
Sends(m) ==
  \/ m.CTRL \in {"2BYTES", "3BYTES"}
  \/ m.CTRL = "EXCLUSIVE" /\ Last(m.BUF) = "f7"

(* No status, and the end of an exclusive message outside of one: what was *)
(* put together is dropped, and what it was to become is not.              *)
Stray(m, byte) == byte = "f4" \/ (byte = "f7" /\ m.CTRL # "EXCLUSIVE")

MIDI_Message(byte) ==
  CASE byte = "f8" -> UNCHANGED midi /\ sent' = None
    [] Stray(midi, byte) -> midi' = [midi EXCEPT !.BUF = << >>] /\ sent' = None
    [] OTHER ->
         LET m == WithByte(midi, byte)
         IN  /\ midi' = IF Ends(m) THEN [m EXCEPT !.CTRL = "READY", !.BUF = << >>]
                        ELSE IF m.CTRL = "TIMECODE" /\ Len(m.BUF) >= 2
                        THEN [m EXCEPT !.CTRL = "EXCLUSIVE"]
                        ELSE m
             /\ sent' = IF Ends(m) /\ Sends(m) THEN m.BUF ELSE None

-----------------------------------------------------------------------------
(* What a receiver takes the same bytes for: a status and its data, or     *)
(* data that repeats the last channel status.  A byte that belongs nowhere *)
(* cuts the message short, and so does one too many for the buffer; what   *)
(* comes before the next status is then anybody's guess.                   *)

Cut == <<"cut">>

Exclusive(message) ==
  message # << >> /\ (message[1] = "f0" \/ (message[1] = "f1" /\ Len(message) > 1))

Whole(message) ==
  CASE message[1] = "80" -> Len(message) = 3
    [] message[1] = "c0" -> Len(message) = 2
    [] message[1] = "f0" -> Last(message) = "f7"
    [] message[1] = "f1" -> Last(message) = "f7" \/ (Len(message) = 2 /\ message[2] # "7f")
    [] message[1] = "f2" -> Len(message) = 3
    [] message[1] = "f3" -> Len(message) = 2
    [] message[1] = "f6" -> TRUE
    [] OTHER -> FALSE

Sounds(message) == message[1] \in Channel \/ Last(message) = "f7"

(* The message with the byte ...                                           *)
Message(s, byte) ==
  CASE byte \in Status -> <<byte>>
    [] byte \in Data /\ s.message = << >> -> <<s.running, byte>>
    [] byte \in Data /\ s.message # << >> -> Append(s.message, byte)
    [] byte = "f7" /\ Exclusive(s.message) -> Append(s.message, byte)
    [] byte = "f7" /\ s.message # << >> /\ ~Exclusive(s.message) -> Cut
    [] byte = "f4" /\ s.message # << >> -> Cut
    [] OTHER -> s.message

(* ... and what is due for it.                                             *)
Received(s, byte) ==
  LET message == Message(s, byte)
      due == message # << >> /\ Whole(message)
  IN  IF byte \notin Status /\ (byte = "f8" \/ s.message = Cut \/ message = << >>)
      THEN [s EXCEPT !.due = None]
      ELSE [message |-> IF due THEN << >>
                        ELSE IF Len(message) >= MIDIBUFFERS THEN Cut ELSE message,
            running |-> IF byte \in Channel THEN byte ELSE s.running,
            due |-> IF due /\ Sounds(message) THEN message ELSE None]

-----------------------------------------------------------------------------
(* The board.                                                              *)

(* The program writes a byte; a full ring drops it, and counts it.         *)
MIDI_Write(byte) ==
  /\ MIDI_Buffered < MaxBuffered
  /\ MIDI_Buffered' = MIDI_Buffered + 1
  /\ DelayBuf' = IF Len(DelayBuf) < MIDIDELAYBUF - 1 THEN Append(DelayBuf, byte) ELSE DelayBuf
  /\ sent' = None /\ stream' = [stream EXCEPT !.due = None]
  /\ UNCHANGED midi

Transmits(byte) ==
  /\ MIDI_Message(byte)
  /\ stream' = Received(stream, byte)

(* A byte's time has passed.                                               *)
MIDI_Timer ==
  /\ MIDI_Buffered > 0
  /\ MIDI_Buffered' = MIDI_Buffered - 1
  /\ IF DelayBuf # << >>
     THEN DelayBuf' = Tail(DelayBuf) /\ Transmits(Head(DelayBuf))
     ELSE sent' = None /\ stream' = [stream EXCEPT !.due = None] /\ UNCHANGED <<DelayBuf, midi>>

(* Mutant of MIDI_Init: the count is cleared and the bytes are kept.       *)
MIDI_Init_KeepsBytes ==
  /\ MIDI_Buffered' = 0
  /\ midi' = Idle
  /\ sent' = None
  /\ stream' = [message |-> << >>, running |-> "80", due |-> None]
  /\ UNCHANGED DelayBuf

(* The program resets the board, or the machine is reset: the bytes are    *)
(* gone, and count on.                                                     *)
MIDI_Init ==
  /\ DelayBuf' = << >>
  /\ midi' = Idle
  /\ sent' = None
  /\ stream' = [message |-> << >>, running |-> "80", due |-> None]
  /\ UNCHANGED MIDI_Buffered

Next == (\E byte \in Byte : MIDI_Write(byte)) \/ MIDI_Timer \/ MIDI_Init

(* The machine's clock does not stop.                                      *)
Spec == Init /\ [][Next]_vars /\ WF_vars(MIDI_Timer)

-----------------------------------------------------------------------------
(* The variables stay in their ranges: no message outgrows its buffer.     *)
TypeOK ==
  /\ MIDI_Buffered \in 0 .. MaxBuffered
  /\ DelayBuf \in Seq(Byte) /\ Len(DelayBuf) < MIDIDELAYBUF
  /\ Len(midi.BUF) < MIDIBUFFERS
  /\ midi.LAST \in Channel

(* The synthesizer is given each message that the bytes written make up,   *)
(* whole and once, and nothing else: running status, messages broken off   *)
(* by another's status and bytes in between included.                      *)
SendsWhatIsReceived == stream.message # Cut => sent = stream.due

(* As long as there are bytes in the ring, one leaves it again and again:  *)
(* the count that keeps the clock taking them does not run out before they *)
(* do, whatever was dropped or reset in between.                           *)
BytesAreSent == []<>(DelayBuf = << >>) \/ []<><<MIDI_Timer>>_DelayBuf

=============================================================================
