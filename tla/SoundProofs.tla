---------------------------- MODULE SoundProofs ----------------------------
(***************************************************************************)
(* What is heard, for every capacity, cushion, clock and demand of the     *)
(* ring of frames, every length of the MIDI board's buffers, and whatever  *)
(* bytes are written.                                                      *)
(*                                                                         *)
(* The ring: positions and count agree and stay in range, and a turn of    *)
(* either loop is a step of the queue whose frames are those from the read *)
(* position on.  The board: MIDI_Message and a receiver that splits the    *)
(* bytes into messages hold the same bytes after each of them, and the     *)
(* board's state is the kind of message that the first of them begins.     *)
(***************************************************************************)
EXTENDS MCSound, SequenceTheorems, TLAPS

-----------------------------------------------------------------------------
(* The MIDI board.                                                         *)
Known == MIDI!Status \union MIDI!Data \union {"f4", "f7", "f8"}

Controls == {"READY", "2BYTES", "3BYTES", "SYSTEM2", "SYSTEM3", "TIMECODE", "EXCLUSIVE"}
MessageTypes == [CTRL : Controls, BUF : Seq(Known), LAST : MIDI!Channel]

(* What is put together stops short of the length its kind ends at.        *)
Limit(c) ==
  CASE c = "READY" -> 0
    [] c \in {"2BYTES", "SYSTEM2", "TIMECODE"} -> 1
    [] c \in {"3BYTES", "SYSTEM3"} -> 2
    [] c = "EXCLUSIVE" -> MIDIBUFFERS - 1

(* The kinds of byte, listed.                                              *)
LEMMA BytesAre ==
  /\ MIDI!Status = {"80", "c0", "f0", "f1", "f2", "f3", "f6"}
  /\ MIDI!Channel = {"80", "c0"} /\ MIDI!Data = {"00", "01", "7f"}
  /\ Byte \subseteq Known
BY ByteAssumption DEF MIDI!Status, MIDI!Channel, MIDI!Data, Known

(* What ends a message, by its kind, its length and its last byte.         *)
LEMMA EndsIs ==
  ASSUME NEW m, NEW byte, NEW n, n = Len(m.BUF), MIDI!Last(m.BUF) = byte,
         m.CTRL \in Controls \ {"READY"}
  PROVE  MIDI!Ends(m) <=> \/ m.CTRL \in {"2BYTES", "SYSTEM2"} /\ n >= 2
                          \/ m.CTRL \in {"3BYTES", "SYSTEM3"} /\ n >= 3
                          \/ m.CTRL = "EXCLUSIVE" /\ (byte = "f7" \/ n >= MIDIBUFFERS)
                          \/ m.CTRL = "TIMECODE" /\ n >= 2 /\ byte # "7f"
BY DEF MIDI!Ends, Controls

(* MIDI_Message, for the kinds of byte there are.                          *)
LEMMA StatusTaken ==
  ASSUME NEW byte \in MIDI!Status, midi \in MessageTypes, MIDI!MIDI_Message(byte)
  PROVE  LET last == IF byte \in MIDI!Channel THEN byte ELSE midi.LAST
         IN  /\ sent' = MIDI!None
             /\ midi' \in MessageTypes /\ midi'.LAST = last
             /\ byte = "f6" => midi'.CTRL = "READY" /\ midi'.BUF = << >>
             /\ byte # "f6" => midi'.CTRL = MIDI!Ctrl(byte) /\ midi'.BUF = <<byte>>
<1> DEFINE last == IF byte \in MIDI!Channel THEN byte ELSE midi.LAST
           c == MIDI!Ctrl(byte)
           m == [CTRL |-> c, BUF |-> <<byte>>, LAST |-> last]
           ends == MIDI!Ends(m)
           sends == MIDI!Sends(m)
<1>1. byte \notin {"f4", "f7", "f8"}
  BY BytesAre
<1>2. MIDI!WithByte(midi, byte) = m
  BY DEF MIDI!WithByte, MIDI!Remembered
<1>3. /\ midi' = IF ends THEN [m EXCEPT !.CTRL = "READY", !.BUF = << >>]
                 ELSE IF m.CTRL = "TIMECODE" /\ Len(m.BUF) >= 2
                 THEN [m EXCEPT !.CTRL = "EXCLUSIVE"]
                 ELSE m
      /\ sent' = IF ends /\ sends THEN m.BUF ELSE MIDI!None
  BY <1>1, <1>2 DEF MIDI!MIDI_Message, MIDI!Stray
<1>4. m.CTRL = c /\ m.BUF = <<byte>> /\ Len(m.BUF) = 1 /\ MIDI!Last(m.BUF) = byte
  BY DEF MIDI!Last
<1>5. byte # "f6" => c \in {"2BYTES", "3BYTES", "EXCLUSIVE", "TIMECODE", "SYSTEM3", "SYSTEM2"}
  BY BytesAre DEF MIDI!Ctrl
<1>6. byte = "f6" => c = "SYSTEM1"
  BY DEF MIDI!Ctrl
<1> HIDE DEF c, last
<1>7. byte # "f6" => ~ends
  <2> HIDE DEF m
  <2>1. ASSUME byte # "f6" PROVE m.CTRL \in Controls \ {"READY"}
    BY <1>4, <1>5, <2>1 DEF Controls
  <2>2. ASSUME byte # "f6"
        PROVE  ends <=> \/ m.CTRL \in {"2BYTES", "SYSTEM2"} /\ 1 >= 2
                        \/ m.CTRL \in {"3BYTES", "SYSTEM3"} /\ 1 >= 3
                        \/ m.CTRL = "EXCLUSIVE" /\ (byte = "f7" \/ 1 >= MIDIBUFFERS)
                        \/ m.CTRL = "TIMECODE" /\ 1 >= 2 /\ byte # "7f"
    BY <1>4, <2>1, <2>2, EndsIs
  <2> HIDE DEF ends
  <2> QED
    BY <1>1, <2>2, BufferAssumption
<1>8. byte = "f6" => ends /\ ~sends
  <2> HIDE DEF m
  <2> QED
    BY <1>4, <1>6 DEF MIDI!Ends, MIDI!Sends
<1> HIDE DEF ends, sends
<1>9. CASE byte = "f6"
  <2>1. midi' = [m EXCEPT !.CTRL = "READY", !.BUF = << >>] /\ sent' = MIDI!None
    BY <1>3, <1>8, <1>9
  <2>2. << >> \in Seq(Known) /\ "READY" \in Controls
    BY DEF Controls
  <2>3. m.LAST = last /\ last \in MIDI!Channel
    BY DEF last, MessageTypes
  <2>4. m = [CTRL |-> c, BUF |-> <<byte>>, LAST |-> last]
    OBVIOUS
  <2> HIDE DEF m
  <2>5. midi' = [CTRL |-> "READY", BUF |-> << >>, LAST |-> last]
    BY <2>1, <2>4
  <2>6. midi' \in MessageTypes /\ midi'.CTRL = "READY" /\ midi'.BUF = << >> /\ midi'.LAST = last
    BY <2>2, <2>3, <2>5 DEF MessageTypes
  <2> QED
    BY <1>9, <2>1, <2>6 DEF last
<1>10. CASE byte # "f6"
  <2>1. midi' = m /\ sent' = MIDI!None
    BY <1>3, <1>4, <1>7, <1>10
  <2>2. byte \in Known /\ <<byte>> \in Seq(Known) /\ c \in Controls
    BY <1>5, <1>10 DEF Known, Controls
  <2>3. last \in MIDI!Channel
    BY DEF last, MessageTypes
  <2>4. midi' \in MessageTypes /\ midi'.CTRL = c /\ midi'.BUF = <<byte>> /\ midi'.LAST = last
    BY <2>1, <2>2, <2>3 DEF MessageTypes
  <2> QED
    BY <1>10, <2>1, <2>4 DEF last, c
<1> QED
  BY <1>9, <1>10

(* A stray byte drops what was put together.                               *)
LEMMA StrayTaken ==
  ASSUME NEW byte, MIDI!Stray(midi, byte), midi \in MessageTypes, MIDI!MIDI_Message(byte)
  PROVE  /\ sent' = MIDI!None /\ midi' \in MessageTypes
         /\ midi'.CTRL = midi.CTRL /\ midi'.LAST = midi.LAST /\ midi'.BUF = << >>
<1>1. midi' = [midi EXCEPT !.BUF = << >>] /\ sent' = MIDI!None
  BY DEF MIDI!MIDI_Message, MIDI!Stray
<1>2. << >> \in Seq(Known)
  OBVIOUS
<1>3. /\ [midi EXCEPT !.BUF = << >>] \in MessageTypes
      /\ [midi EXCEPT !.BUF = << >>].CTRL = midi.CTRL
      /\ [midi EXCEPT !.BUF = << >>].LAST = midi.LAST
      /\ [midi EXCEPT !.BUF = << >>].BUF = << >>
  BY <1>2 DEF MessageTypes
<1> QED
  BY <1>1, <1>3

(* The message a byte that is no status goes on with, and what comes of it.*)
Longer(byte) ==
  IF midi.CTRL = "READY" THEN [midi EXCEPT !.CTRL = MIDI!Ctrl(midi.LAST), !.BUF = <<midi.LAST, byte>>]
  ELSE [midi EXCEPT !.BUF = Append(midi.BUF, byte)]

(* Data, and the end of an exclusive message.                              *)
LEMMA DataTaken ==
  ASSUME NEW byte \in MIDI!Data \union {"f7"}, ~MIDI!Stray(midi, byte), midi \in MessageTypes,
         Len(midi.BUF) <= Limit(midi.CTRL), MIDI!MIDI_Message(byte)
  PROVE  LET m == Longer(byte)
             n == Len(m.BUF)
             ends == \/ m.CTRL \in {"2BYTES", "SYSTEM2"} /\ n >= 2
                     \/ m.CTRL \in {"3BYTES", "SYSTEM3"} /\ n >= 3
                     \/ m.CTRL = "EXCLUSIVE" /\ (byte = "f7" \/ n >= MIDIBUFFERS)
                     \/ m.CTRL = "TIMECODE" /\ n >= 2 /\ byte # "7f"
         IN  /\ m \in MessageTypes /\ m.LAST = midi.LAST /\ m.CTRL # "READY"
             /\ n \in Nat /\ n <= Limit(m.CTRL) + 1
             /\ ends => midi' = [m EXCEPT !.CTRL = "READY", !.BUF = << >>]
             /\ ~ends => midi' = IF m.CTRL = "TIMECODE" /\ n >= 2
                                 THEN [m EXCEPT !.CTRL = "EXCLUSIVE"] ELSE m
             /\ sent' = IF /\ ends
                           /\ \/ m.CTRL \in {"2BYTES", "3BYTES"}
                              \/ m.CTRL = "EXCLUSIVE" /\ byte = "f7"
                        THEN m.BUF ELSE MIDI!None
<1> DEFINE m == Longer(byte)
           n == Len(m.BUF)
           ends == \/ m.CTRL \in {"2BYTES", "SYSTEM2"} /\ n >= 2
                   \/ m.CTRL \in {"3BYTES", "SYSTEM3"} /\ n >= 3
                   \/ m.CTRL = "EXCLUSIVE" /\ (byte = "f7" \/ n >= MIDIBUFFERS)
                   \/ m.CTRL = "TIMECODE" /\ n >= 2 /\ byte # "7f"
           Ends == MIDI!Ends(m)
           Sends == MIDI!Sends(m)
<1>1. byte \notin MIDI!Status /\ byte # "f8" /\ byte \in Known
  BY BytesAre DEF Known
<1>2. /\ midi.CTRL \in Controls /\ midi.BUF \in Seq(Known) /\ midi.LAST \in MIDI!Channel
      /\ midi.LAST \in Known
  BY BytesAre DEF MessageTypes, Known
<1>3. MIDI!WithByte(midi, byte) = m
  BY <1>1 DEF MIDI!WithByte, Longer
<1>4. /\ m \in MessageTypes /\ m.LAST = midi.LAST /\ m.CTRL # "READY"
      /\ n \in Nat /\ n <= Limit(m.CTRL) + 1 /\ n > 0 /\ m.BUF[n] = byte
  <2>1. CASE midi.CTRL = "READY"
    <3> DEFINE c == MIDI!Ctrl(midi.LAST)
               b == <<midi.LAST, byte>>
    <3>1. c \in {"2BYTES", "3BYTES"}
      BY <1>2, BytesAre DEF MIDI!Ctrl
    <3>2. b \in Seq(Known) /\ Len(b) = 2 /\ b[2] = byte
      BY <1>1, <1>2
    <3>3. m = [midi EXCEPT !.CTRL = c, !.BUF = b]
      BY <2>1 DEF Longer
    <3> HIDE DEF c, b, m
    <3>4. m \in MessageTypes /\ m.CTRL = c /\ m.BUF = b /\ m.LAST = midi.LAST
      BY <3>1, <3>2, <3>3 DEF MessageTypes, Controls
    <3>5. Limit(c) >= 1 /\ Limit(c) \in Nat
      BY <3>1 DEF Limit
    <3>6. n = 2 /\ m.BUF[n] = byte
      BY <3>2, <3>4
    <3>7. n <= Limit(m.CTRL) + 1 /\ n \in Nat /\ n > 0
      <4> HIDE DEF n
      <4> QED
        BY <3>4, <3>5, <3>6
    <3> HIDE DEF n
    <3> QED
      BY <3>1, <3>4, <3>6, <3>7
  <2>2. CASE midi.CTRL # "READY"
    <3> DEFINE b == Append(midi.BUF, byte)
    <3>1. /\ b \in Seq(Known) /\ Len(b) = Len(midi.BUF) + 1 /\ b[Len(b)] = byte
          /\ Len(midi.BUF) \in Nat
      BY <1>1, <1>2
    <3>2. m = [midi EXCEPT !.BUF = b]
      BY <2>2 DEF Longer
    <3> HIDE DEF b, m
    <3>3. m \in MessageTypes /\ m.CTRL = midi.CTRL /\ m.BUF = b /\ m.LAST = midi.LAST
      BY <3>1, <3>2 DEF MessageTypes
    <3>4. Limit(midi.CTRL) \in Nat
      BY <1>2, BufferAssumption DEF Limit, Controls
    <3> QED
      BY <2>2, <3>1, <3>3, <3>4
  <2> QED
    BY <2>1, <2>2
<1>5. /\ midi' = IF Ends THEN [m EXCEPT !.CTRL = "READY", !.BUF = << >>]
                 ELSE IF m.CTRL = "TIMECODE" /\ n >= 2 THEN [m EXCEPT !.CTRL = "EXCLUSIVE"]
                 ELSE m
      /\ sent' = IF Ends /\ Sends THEN m.BUF ELSE MIDI!None
  BY <1>1, <1>3 DEF MIDI!MIDI_Message
<1> HIDE DEF m
<1>6. m.CTRL \in {"2BYTES", "3BYTES", "SYSTEM2", "SYSTEM3", "TIMECODE", "EXCLUSIVE"}
  BY <1>4 DEF MessageTypes, Controls
<1>7. MIDI!Last(m.BUF) = byte
  BY <1>4 DEF MIDI!Last
<1>8. Ends <=> ends
  BY <1>6, <1>7, EndsIs DEF Controls
<1>9. Sends <=> \/ m.CTRL \in {"2BYTES", "3BYTES"}
                \/ m.CTRL = "EXCLUSIVE" /\ byte = "f7"
  BY <1>7 DEF MIDI!Sends
<1> HIDE DEF Ends, Sends, ends
<1>10. (ends => midi' = [m EXCEPT !.CTRL = "READY", !.BUF = << >>])
       /\ (~ends => midi' = IF m.CTRL = "TIMECODE" /\ n >= 2
                            THEN [m EXCEPT !.CTRL = "EXCLUSIVE"] ELSE m)
  BY <1>5, <1>8
<1> QED
  BY <1>4, <1>5, <1>8, <1>9, <1>10 DEF ends, m

(* What a receiver takes a byte for.                                       *)
Heard == Known \union {"cut"}
StreamTypes == [message : Seq(Heard), running : MIDI!Channel, due : Seq(Heard)]

(* A status begins a message, but for the one that is whole alone.         *)
LEMMA StatusReceived ==
  ASSUME NEW byte \in MIDI!Status, stream \in StreamTypes
  PROVE  LET r == MIDI!Received(stream, byte)
         IN  /\ r \in StreamTypes /\ r.due = MIDI!None
             /\ r.message = IF byte = "f6" THEN << >> ELSE <<byte>>
             /\ r.running = IF byte \in MIDI!Channel THEN byte ELSE stream.running
<1> DEFINE message == <<byte>>
           due == message # << >> /\ MIDI!Whole(message)
           next == IF due THEN << >> ELSE IF Len(message) >= MIDIBUFFERS THEN MIDI!Cut ELSE message
           given == IF due /\ MIDI!Sounds(message) THEN message ELSE MIDI!None
           running == IF byte \in MIDI!Channel THEN byte ELSE stream.running
           r == [message |-> next, running |-> running, due |-> given]
<1> HIDE DEF r
<1>1. MIDI!Received(stream, byte) = r
  <2>1. MIDI!Message(stream, byte) = message
    BY BytesAre DEF MIDI!Message
  <2> HIDE DEF message
  <2> QED
    BY <2>1 DEF MIDI!Received, r
<1> USE DEF r
<1>2. message[1] = byte /\ Len(message) = 1 /\ MIDI!Last(message) = byte /\ message # << >>
  BY DEF MIDI!Last
<1>3. message \in Seq(Heard)
  BY DEF Known, Heard
<1> HIDE DEF message
<1>4. MIDI!Whole(message) <=> byte = "f6"
  BY <1>2, BytesAre DEF MIDI!Whole
<1>5. ~MIDI!Sounds(message) \/ byte # "f6"
  BY <1>2, BytesAre DEF MIDI!Sounds
<1>6. given = MIDI!None
  BY <1>4, <1>5
<1>7. next = IF byte = "f6" THEN << >> ELSE message
  BY <1>2, <1>4, BufferAssumption
<1>8. running \in MIDI!Channel
  BY DEF StreamTypes
<1> HIDE DEF due, next, given, running
<1>9. next \in Seq(Heard) /\ given \in Seq(Heard)
  BY <1>3, <1>6, <1>7 DEF MIDI!None
<1>10. /\ r \in StreamTypes /\ r.due = given /\ r.message = next /\ r.running = running
  BY <1>8, <1>9 DEF StreamTypes
<1> QED
  BY <1>1, <1>6, <1>7, <1>10 DEF message, running

(* Bytes that the receiver does not take.                                  *)
LEMMA NothingReceived ==
  ASSUME NEW byte, byte \notin MIDI!Status, stream \in StreamTypes,
         \/ byte = "f8" \/ stream.message = MIDI!Cut
         \/ byte \in {"f4", "f7"} /\ stream.message = << >>
  PROVE  LET r == MIDI!Received(stream, byte)
         IN  /\ r \in StreamTypes /\ r.due = MIDI!None
             /\ r.message = stream.message /\ r.running = stream.running
<1> DEFINE r == [stream EXCEPT !.due = MIDI!None]
<1>1. MIDI!Received(stream, byte) = r
  <2>1. CASE byte = "f8" \/ stream.message = MIDI!Cut
    BY <2>1 DEF MIDI!Received
  <2>2. CASE byte \in {"f4", "f7"} /\ stream.message = << >>
    <3>1. byte \notin MIDI!Data /\ ~MIDI!Exclusive(stream.message)
      BY <2>2, BytesAre DEF MIDI!Exclusive
    <3>2. MIDI!Message(stream, byte) = << >>
      BY <2>2, <3>1 DEF MIDI!Message
    <3> QED
      BY <2>2, <3>2 DEF MIDI!Received
  <2> QED
    BY <2>1, <2>2
<1>2. MIDI!None \in Seq(Heard)
  BY DEF MIDI!None
<1>3. r \in StreamTypes /\ r.due = MIDI!None /\ r.message = stream.message
      /\ r.running = stream.running
  BY <1>2 DEF StreamTypes
<1> QED
  BY <1>1, <1>3

(* A byte that belongs nowhere cuts the message short.                     *)
LEMMA StrayReceived ==
  ASSUME NEW byte \in {"f4", "f7"}, stream \in StreamTypes, stream.message # << >>,
         byte = "f7" => ~MIDI!Exclusive(stream.message)
  PROVE  LET r == MIDI!Received(stream, byte)
         IN  /\ r \in StreamTypes /\ r.message = MIDI!Cut /\ r.running = stream.running
<1>1. byte \notin MIDI!Status /\ byte \notin MIDI!Data /\ byte # "f8"
      /\ byte \notin MIDI!Channel
  BY BytesAre
<1>2. MIDI!Cut \in Seq(Heard) /\ MIDI!Cut[1] = "cut" /\ MIDI!Cut # << >> /\ Len(MIDI!Cut) = 1
  BY DEF MIDI!Cut, Heard
<1>3. ~MIDI!Whole(MIDI!Cut)
  BY <1>2 DEF MIDI!Whole
<1>4. CASE stream.message = MIDI!Cut
  BY <1>1, <1>4, NothingReceived
<1>5. CASE stream.message # MIDI!Cut
  <2> DEFINE next == IF Len(MIDI!Cut) >= MIDIBUFFERS THEN MIDI!Cut ELSE MIDI!Cut
             r == [message |-> next, running |-> stream.running, due |-> MIDI!None]
  <2>1. MIDI!Received(stream, byte) = r
    <3>1. MIDI!Message(stream, byte) = MIDI!Cut
      BY <1>1 DEF MIDI!Message
    <3> QED
      BY <1>1, <1>2, <1>3, <1>5, <3>1 DEF MIDI!Received
  <2>2. next = MIDI!Cut
    OBVIOUS
  <2>3. MIDI!None \in Seq(Heard) /\ stream.running \in MIDI!Channel
    BY DEF MIDI!None, StreamTypes
  <2> HIDE DEF next
  <2>4. r \in StreamTypes /\ r.message = next /\ r.running = stream.running
    BY <1>2, <2>2, <2>3 DEF StreamTypes
  <2> QED
    BY <2>1, <2>2, <2>4
<1> QED
  BY <1>4, <1>5

(* Data goes on with a message, or begins one by the running status.       *)
LEMMA DataReceived ==
  ASSUME NEW byte \in MIDI!Data \union {"f7"}, stream \in StreamTypes,
         stream.message # MIDI!Cut, byte = "f7" => MIDI!Exclusive(stream.message)
  PROVE  LET message == IF stream.message = << >> THEN <<stream.running, byte>>
                        ELSE Append(stream.message, byte)
             whole == MIDI!Whole(message)
             r == MIDI!Received(stream, byte)
         IN  /\ r \in StreamTypes /\ r.running = stream.running
             /\ r.message = IF whole THEN << >>
                            ELSE IF Len(message) >= MIDIBUFFERS THEN MIDI!Cut ELSE message
             /\ r.due = IF whole /\ MIDI!Sounds(message) THEN message ELSE MIDI!None
<1> DEFINE message == IF stream.message = << >> THEN <<stream.running, byte>>
                      ELSE Append(stream.message, byte)
           whole == MIDI!Whole(message)
           due == message # << >> /\ whole
           next == IF due THEN << >>
                   ELSE IF Len(message) >= MIDIBUFFERS THEN MIDI!Cut ELSE message
           given == IF due /\ MIDI!Sounds(message) THEN message ELSE MIDI!None
           r == [message |-> next, running |-> stream.running, due |-> given]
<1>1. byte \notin MIDI!Status /\ byte # "f8" /\ byte \notin MIDI!Channel
      /\ byte \in Heard /\ (byte = "f7" => byte \notin MIDI!Data)
  BY BytesAre DEF Known, Heard
<1>2. stream.message \in Seq(Heard) /\ stream.running \in MIDI!Channel /\ stream.running \in Heard
  BY BytesAre DEF StreamTypes, Known, Heard
<1>3. byte = "f7" => stream.message # << >>
  BY DEF MIDI!Exclusive
<1>4. message \in Seq(Heard) /\ message # << >>
  <2>1. <<stream.running, byte>> \in Seq(Heard) /\ <<stream.running, byte>> # << >>
    BY <1>1, <1>2
  <2>2. Append(stream.message, byte) \in Seq(Heard) /\ Append(stream.message, byte) # << >>
    BY <1>1, <1>2
  <2> QED
    BY <2>1, <2>2
<1>5. MIDI!Received(stream, byte) = r
  <2>1. MIDI!Message(stream, byte) = message
    <3>1. CASE byte \in MIDI!Data
      <4>1. byte \notin MIDI!Status /\ byte # "f7" /\ byte # "f4"
        BY <3>1, BytesAre
      <4> QED
        BY <3>1, <4>1 DEF MIDI!Message
    <3>2. CASE byte = "f7"
      <4>1. byte \notin MIDI!Status /\ byte \notin MIDI!Data /\ MIDI!Exclusive(stream.message)
        BY <1>1, <3>2
      <4> QED
        BY <1>3, <3>2, <4>1 DEF MIDI!Message
    <3> QED
      BY <3>1, <3>2
  <2> HIDE DEF message
  <2> QED
    BY <1>1, <1>4, <2>1 DEF MIDI!Received
<1>6. MIDI!Cut \in Seq(Heard) /\ MIDI!None \in Seq(Heard) /\ << >> \in Seq(Heard)
  BY DEF MIDI!Cut, MIDI!None, Heard
<1> HIDE DEF message, whole
<1>7. due <=> whole
  BY <1>4 DEF whole, MIDI!Whole
<1>8. next \in Seq(Heard) /\ given \in Seq(Heard)
  BY <1>4, <1>6
<1>9. /\ next = IF whole THEN << >> ELSE IF Len(message) >= MIDIBUFFERS THEN MIDI!Cut ELSE message
      /\ given = IF whole /\ MIDI!Sounds(message) THEN message ELSE MIDI!None
  BY <1>7
<1> HIDE DEF due, next, given
<1>10. r \in StreamTypes /\ r.message = next /\ r.running = stream.running /\ r.due = given
  BY <1>2, <1>8 DEF StreamTypes
<1> QED
  BY <1>5, <1>9, <1>10 DEF message, whole

-----------------------------------------------------------------------------
(* The two agree: the board keeps the bytes that the receiver keeps, under *)
(* the kind that their first is of.                                        *)
Goes(m) ==
  /\ m.CTRL = "READY" <=> m.BUF = << >>
  /\ m.CTRL = "3BYTES" => m.BUF[1] = "80"
  /\ m.CTRL = "2BYTES" => m.BUF[1] = "c0"
  /\ m.CTRL = "EXCLUSIVE" =>
       \/ m.BUF[1] = "f0"
       \/ m.BUF[1] = "f1" /\ Len(m.BUF) >= 2 /\ m.BUF[2] = "7f"
  /\ m.CTRL = "TIMECODE" => m.BUF[1] = "f1"
  /\ m.CTRL = "SYSTEM3" => m.BUF[1] = "f2"
  /\ m.CTRL = "SYSTEM2" => m.BUF[1] = "f3"

MessagesAgree ==
  /\ midi \in MessageTypes /\ Len(midi.BUF) <= Limit(midi.CTRL)
  /\ stream \in StreamTypes /\ stream.running = midi.LAST
  /\ stream.message # MIDI!Cut =>
       midi.BUF = stream.message /\ Goes(midi) /\ sent = stream.due

(* What the board holds is never the mark of a cut message.                *)
LEMMA NotCut ==
  ASSUME NEW b \in Seq(Known) PROVE b # MIDI!Cut
<1>1. "cut" \notin Known
  BY BytesAre DEF Known
<1>2. MIDI!Cut = <<"cut">>
  BY DEF MIDI!Cut
<1> QED
  BY <1>1, <1>2

(* The two agree after a status ...                                        *)
LEMMA StatusKeeps ==
  ASSUME MessagesAgree, NEW byte \in MIDI!Status, MIDI!Transmits(byte)
  PROVE  MessagesAgree'
<1> DEFINE last == IF byte \in MIDI!Channel THEN byte ELSE midi.LAST
<1>1. MIDI!MIDI_Message(byte) /\ stream' = MIDI!Received(stream, byte)
      /\ midi \in MessageTypes /\ stream \in StreamTypes /\ stream.running = midi.LAST
  BY DEF MIDI!Transmits, MessagesAgree
<1>2. /\ sent' = MIDI!None
      /\ midi' \in MessageTypes /\ midi'.LAST = last
      /\ byte = "f6" => midi'.CTRL = "READY" /\ midi'.BUF = << >>
      /\ byte # "f6" => midi'.CTRL = MIDI!Ctrl(byte) /\ midi'.BUF = <<byte>>
  BY <1>1, StatusTaken
<1>3. /\ stream' \in StreamTypes /\ stream'.due = MIDI!None
      /\ stream'.message = IF byte = "f6" THEN << >> ELSE <<byte>>
      /\ stream'.running = last
  BY <1>1, StatusReceived
<1>4. Len(midi'.BUF) <= Limit(midi'.CTRL) /\ Goes(midi')
  <2>1. CASE byte = "f6"
    <3>1. midi'.CTRL = "READY" /\ midi'.BUF = << >>
      BY <1>2, <2>1
    <3>2. Limit("READY") = 0 /\ Len(<< >>) = 0
      BY DEF Limit
    <3>3. Goes(midi')
      BY <3>1 DEF Goes
    <3> QED
      BY <3>1, <3>2, <3>3
  <2>2. CASE byte # "f6"
    <3>1. midi'.CTRL = MIDI!Ctrl(byte) /\ midi'.BUF # << >>
          /\ midi'.BUF[1] = byte /\ Len(midi'.BUF) = 1
      <4> DEFINE b == <<byte>>
      <4>1. b # << >> /\ b[1] = byte /\ Len(b) = 1
        OBVIOUS
      <4>2. midi'.CTRL = MIDI!Ctrl(byte) /\ midi'.BUF = b
        BY <1>2, <2>2
      <4> HIDE DEF b
      <4> QED
        BY <4>1, <4>2
    <3>2. byte \in {"80", "c0", "f0", "f1", "f2", "f3"}
      BY <2>2, BytesAre
    <3>3. Goes(midi')
      BY <3>1, <3>2 DEF Goes, MIDI!Ctrl
    <3>4. MIDI!Ctrl(byte) \in {"2BYTES", "3BYTES", "EXCLUSIVE", "TIMECODE", "SYSTEM3", "SYSTEM2"}
      BY <3>2 DEF MIDI!Ctrl
    <3>5. 1 <= Limit(MIDI!Ctrl(byte))
      BY <3>4, BufferAssumption DEF Limit
    <3> QED
      BY <3>1, <3>3, <3>5
  <2> QED
    BY <2>1, <2>2
<1>5. stream'.running = midi'.LAST /\ midi'.BUF = stream'.message /\ sent' = stream'.due
  BY <1>2, <1>3
<1> QED
  BY <1>2, <1>3, <1>4, <1>5 DEF MessagesAgree, Goes

(* ... after a stray byte ...                                              *)
LEMMA StrayKeeps ==
  ASSUME MessagesAgree, NEW byte, MIDI!Stray(midi, byte), MIDI!Transmits(byte)
  PROVE  MessagesAgree'
<1>1. MIDI!MIDI_Message(byte) /\ stream' = MIDI!Received(stream, byte)
      /\ midi \in MessageTypes /\ stream \in StreamTypes /\ stream.running = midi.LAST
      /\ Len(midi.BUF) <= Limit(midi.CTRL)
  BY DEF MIDI!Transmits, MessagesAgree
<1>2. /\ sent' = MIDI!None /\ midi' \in MessageTypes
      /\ midi'.CTRL = midi.CTRL /\ midi'.LAST = midi.LAST /\ midi'.BUF = << >>
  BY <1>1, StrayTaken
<1>3. Len(midi'.BUF) <= Limit(midi'.CTRL)
  <2>1. midi.CTRL \in Controls
    BY <1>1 DEF MessageTypes
  <2>2. Limit(midi.CTRL) >= 0
    BY <2>1, BufferAssumption DEF Limit, Controls
  <2> QED
    BY <1>2, <2>2
<1>4. byte \in {"f4", "f7"} /\ byte \notin MIDI!Status
      /\ (byte = "f7" => midi.CTRL # "EXCLUSIVE")
  BY BytesAre DEF MIDI!Stray
<1>5. CASE stream.message = MIDI!Cut
  <2>1. /\ stream' \in StreamTypes /\ stream'.message = MIDI!Cut
        /\ stream'.running = stream.running
    BY <1>1, <1>4, <1>5, NothingReceived
  <2> QED
    BY <1>1, <1>2, <1>3, <2>1 DEF MessagesAgree, MIDI!Cut
<1>6. CASE stream.message = << >>
  <2>1. << >> # MIDI!Cut
    BY DEF MIDI!Cut
  <2>2. midi.BUF = << >> /\ Goes(midi)
    BY <1>6, <2>1 DEF MessagesAgree
  <2>3. /\ stream' \in StreamTypes /\ stream'.message = << >> /\ stream'.due = MIDI!None
        /\ stream'.running = stream.running
    BY <1>1, <1>4, <1>6, NothingReceived
  <2>4. Goes(midi')
    BY <1>2, <2>2 DEF Goes
  <2> QED
    BY <1>1, <1>2, <1>3, <2>3, <2>4 DEF MessagesAgree, Goes
<1>7. CASE stream.message # MIDI!Cut /\ stream.message # << >>
  <2>1. midi.BUF = stream.message /\ Goes(midi)
    BY <1>7 DEF MessagesAgree
  <2>2. byte = "f7" => ~MIDI!Exclusive(stream.message)
    <3> SUFFICES ASSUME byte = "f7" PROVE ~MIDI!Exclusive(midi.BUF)
      BY <2>1
    <3>1. midi.CTRL \in Controls \ {"READY", "EXCLUSIVE"}
      BY <1>1, <1>4, <1>7, <2>1 DEF MessageTypes, Goes
    <3>2. CASE midi.CTRL = "TIMECODE"
      <4>1. Len(midi.BUF) <= 1 /\ Len(midi.BUF) \in Nat
        BY <1>1, <3>2 DEF Limit, MessageTypes
      <4>2. midi.BUF[1] = "f1"
        BY <2>1, <3>2 DEF Goes
      <4> QED
        BY <4>1, <4>2 DEF MIDI!Exclusive
    <3>3. CASE midi.CTRL # "TIMECODE"
      <4>1. midi.BUF[1] \in {"80", "c0", "f2", "f3"}
        BY <2>1, <3>1, <3>3 DEF Goes, Controls
      <4> QED
        BY <4>1 DEF MIDI!Exclusive
    <3> QED
      BY <3>2, <3>3
  <2>3. /\ stream' \in StreamTypes /\ stream'.message = MIDI!Cut
        /\ stream'.running = stream.running
    BY <1>1, <1>4, <1>7, <2>2, StrayReceived
  <2> QED
    BY <1>1, <1>2, <1>3, <2>3 DEF MessagesAgree, MIDI!Cut
<1> QED
  BY <1>5, <1>6, <1>7

(* What is to be shown of the board's half: it holds no more than it may.  *)
LEMMA TakenFits ==
  ASSUME NEW byte \in MIDI!Data \union {"f7"}, ~MIDI!Stray(midi, byte), midi \in MessageTypes,
         Len(midi.BUF) <= Limit(midi.CTRL), MIDI!MIDI_Message(byte)
  PROVE  /\ midi' \in MessageTypes /\ midi'.LAST = midi.LAST
         /\ Len(midi'.BUF) <= Limit(midi'.CTRL)
<1> DEFINE m == Longer(byte)
           n == Len(m.BUF)
           ends == \/ m.CTRL \in {"2BYTES", "SYSTEM2"} /\ n >= 2
                   \/ m.CTRL \in {"3BYTES", "SYSTEM3"} /\ n >= 3
                   \/ m.CTRL = "EXCLUSIVE" /\ (byte = "f7" \/ n >= MIDIBUFFERS)
                   \/ m.CTRL = "TIMECODE" /\ n >= 2 /\ byte # "7f"
<1>1. /\ m \in MessageTypes /\ m.LAST = midi.LAST /\ m.CTRL # "READY"
      /\ n \in Nat /\ n <= Limit(m.CTRL) + 1
      /\ ends => midi' = [m EXCEPT !.CTRL = "READY", !.BUF = << >>]
      /\ ~ends => midi' = IF m.CTRL = "TIMECODE" /\ n >= 2
                          THEN [m EXCEPT !.CTRL = "EXCLUSIVE"] ELSE m
  BY DataTaken
<1> HIDE DEF m
<1>2. CASE ends
  <2> DEFINE x == [m EXCEPT !.CTRL = "READY", !.BUF = << >>]
  <2>1. << >> \in Seq(Known) /\ "READY" \in Controls
    BY DEF Controls
  <2>2. x \in MessageTypes /\ x.LAST = m.LAST /\ x.CTRL = "READY" /\ x.BUF = << >>
    BY <1>1, <2>1 DEF MessageTypes
  <2>3. midi' = x
    BY <1>1, <1>2
  <2>4. Limit("READY") = 0 /\ Len(<< >>) = 0
    BY DEF Limit
  <2> HIDE DEF x
  <2> QED
    BY <1>1, <2>2, <2>3, <2>4
<1>3. CASE ~ends
  <2>1. m.CTRL \in Controls \ {"READY"}
    BY <1>1 DEF MessageTypes
  <2>2. CASE m.CTRL = "TIMECODE" /\ n >= 2
    <3> DEFINE x == [m EXCEPT !.CTRL = "EXCLUSIVE"]
    <3>1. x \in MessageTypes /\ x.LAST = m.LAST /\ x.CTRL = "EXCLUSIVE" /\ x.BUF = m.BUF
      BY <1>1 DEF MessageTypes, Controls
    <3>2. midi' = x
      BY <1>1, <1>3, <2>2
    <3>3. n <= 2
      BY <1>1, <2>2 DEF Limit
    <3> HIDE DEF x
    <3> QED
      BY <1>1, <3>1, <3>2, <3>3, BufferAssumption DEF Limit
  <2>3. CASE ~(m.CTRL = "TIMECODE" /\ n >= 2)
    <3>1. midi' = m
      BY <1>1, <1>3, <2>3
    <3>2. n <= Limit(m.CTRL)
      BY <1>1, <1>3, <2>1, <2>3, BufferAssumption DEF Limit, Controls
    <3> QED
      BY <1>1, <3>1, <3>2
  <2> QED
    BY <2>2, <2>3
<1> QED
  BY <1>2, <1>3

(* The message a data byte goes on with, and what comes of it.             *)
Heads(m) ==
  /\ m.CTRL # "READY" /\ Len(m.BUF) >= 2
  /\ m.CTRL = "3BYTES" => m.BUF[1] = "80"
  /\ m.CTRL = "2BYTES" => m.BUF[1] = "c0"
  /\ m.CTRL = "EXCLUSIVE" =>
       \/ m.BUF[1] = "f0"
       \/ m.BUF[1] = "f1" /\ Len(m.BUF) >= 3 /\ m.BUF[2] = "7f"
  /\ m.CTRL = "TIMECODE" => m.BUF[1] = "f1"
  /\ m.CTRL = "SYSTEM3" => m.BUF[1] = "f2"
  /\ m.CTRL = "SYSTEM2" => m.BUF[1] = "f3"

(* What the bytes to come go on with begins as its kind does.              *)
LEMMA LongerHeads ==
  ASSUME NEW byte \in MIDI!Data \union {"f7"}, midi \in MessageTypes, Goes(midi)
  PROVE  Heads(Longer(byte))
<1> DEFINE m == Longer(byte)
<1>1. byte \in Known /\ midi.BUF \in Seq(Known) /\ midi.LAST \in {"80", "c0"}
  BY BytesAre DEF MessageTypes, Known
<1>2. CASE midi.CTRL = "READY"
  <2>1. m = [midi EXCEPT !.CTRL = MIDI!Ctrl(midi.LAST), !.BUF = <<midi.LAST, byte>>]
    BY <1>2 DEF Longer
  <2>2. m.CTRL = MIDI!Ctrl(midi.LAST) /\ m.BUF = <<midi.LAST, byte>>
    BY <2>1 DEF MessageTypes
  <2> HIDE DEF m
  <2>3. Len(m.BUF) = 2 /\ m.BUF[1] = midi.LAST
    BY <2>2
  <2>4. \/ m.CTRL = "3BYTES" /\ m.BUF[1] = "80"
        \/ m.CTRL = "2BYTES" /\ m.BUF[1] = "c0"
    BY <1>1, <2>2, <2>3 DEF MIDI!Ctrl
  <2>5. Heads(m)
    BY <2>3, <2>4 DEF Heads
  <2> QED
    BY <2>5 DEF m
<1>3. CASE midi.CTRL # "READY"
  <2> DEFINE b == Append(midi.BUF, byte)
  <2>1. m = [midi EXCEPT !.BUF = b]
    BY <1>3 DEF Longer
  <2>2. m.CTRL = midi.CTRL /\ m.BUF = b
    BY <2>1 DEF MessageTypes
  <2>3. midi.BUF # << >> /\ Len(midi.BUF) \in Nat /\ Len(midi.BUF) >= 1
    BY <1>1, <1>3, EmptySeq DEF Goes
  <2>4. /\ Len(b) = Len(midi.BUF) + 1 /\ b[1] = midi.BUF[1]
        /\ Len(midi.BUF) >= 2 => b[2] = midi.BUF[2]
    BY <1>1, <2>3
  <2> HIDE DEF m, b
  <2>5. Heads(m)
    BY <1>3, <2>2, <2>3, <2>4 DEF Heads, Goes
  <2> QED
    BY <2>5 DEF m
<1> QED
  BY <1>2, <1>3

(* A message the receiver takes for whole ends and is given away or not    *)
(* alike; one that ends otherwise is too long; and one that goes on is not.*)
LEMMA WholeEnds ==
  ASSUME NEW byte \in MIDI!Data \union {"f7"}, NEW m \in MessageTypes, Heads(m),
         byte = "f7" => m.CTRL = "EXCLUSIVE",
         Len(m.BUF) <= Limit(m.CTRL) + 1, m.BUF[Len(m.BUF)] = byte
  PROVE  LET n == Len(m.BUF)
             ends == \/ m.CTRL \in {"2BYTES", "SYSTEM2"} /\ n >= 2
                     \/ m.CTRL \in {"3BYTES", "SYSTEM3"} /\ n >= 3
                     \/ m.CTRL = "EXCLUSIVE" /\ (byte = "f7" \/ n >= MIDIBUFFERS)
                     \/ m.CTRL = "TIMECODE" /\ n >= 2 /\ byte # "7f"
             sends == \/ m.CTRL \in {"2BYTES", "3BYTES"}
                      \/ m.CTRL = "EXCLUSIVE" /\ byte = "f7"
         IN  /\ MIDI!Whole(m.BUF) => ends /\ (MIDI!Sounds(m.BUF) <=> sends)
             /\ ends /\ ~MIDI!Whole(m.BUF) => n >= MIDIBUFFERS
             /\ ~ends => n < MIDIBUFFERS
<1> DEFINE b == m.BUF
           n == Len(b)
<1>1. n \in Nat /\ n >= 2 /\ MIDI!Last(b) = byte
  BY DEF MIDI!Last, Heads, MessageTypes
<1>2. m.CTRL \in {"2BYTES", "3BYTES", "SYSTEM2", "SYSTEM3", "TIMECODE", "EXCLUSIVE"}
  BY DEF Heads, MessageTypes, Controls
<1>3. byte # "f7" \/ m.CTRL = "EXCLUSIVE"
  OBVIOUS
<1>4. n <= Limit(m.CTRL) + 1 /\ b[n] = byte
  OBVIOUS
<1> HIDE DEF b, n
<1>5. CASE m.CTRL \in {"2BYTES", "SYSTEM2"}
  <2>1. n = 2
    <3>1. Limit(m.CTRL) = 1
      BY <1>5 DEF Limit
    <3> QED
      BY <1>1, <1>4, <3>1
  <2>2. b[1] = IF m.CTRL = "2BYTES" THEN "c0" ELSE "f3"
    BY <1>5 DEF Heads, b, n
  <2>3. MIDI!Whole(b) /\ (MIDI!Sounds(b) <=> m.CTRL = "2BYTES")
    BY <1>1, <1>3, <1>5, <2>1, <2>2, BytesAre DEF MIDI!Whole, MIDI!Sounds, n
  <2> QED
    BY <1>5, <2>1, <2>3 DEF b, n
<1>6. CASE m.CTRL \in {"3BYTES", "SYSTEM3"}
  <2>1. n \in 2 .. 3
    <3>1. Limit(m.CTRL) = 2
      BY <1>6 DEF Limit
    <3> QED
      BY <1>1, <1>4, <3>1
  <2>2. b[1] = IF m.CTRL = "3BYTES" THEN "80" ELSE "f2"
    BY <1>6 DEF Heads, b, n
  <2>3. (MIDI!Whole(b) <=> n = 3) /\ (MIDI!Sounds(b) <=> m.CTRL = "3BYTES")
    BY <1>1, <1>3, <1>6, <2>1, <2>2, BytesAre DEF MIDI!Whole, MIDI!Sounds, n
  <2> QED
    BY <1>6, <2>1, <2>3, BufferAssumption DEF b, n
<1>7. CASE m.CTRL = "TIMECODE"
  <2>1. n = 2 /\ b[2] = byte
    <3>1. Limit(m.CTRL) = 1
      BY <1>7 DEF Limit
    <3> QED
      BY <1>1, <1>4, <3>1
  <2>2. b[1] = "f1"
    BY <1>7 DEF Heads, b, n
  <2>3. (MIDI!Whole(b) <=> byte # "7f") /\ ~MIDI!Sounds(b)
    BY <1>1, <1>3, <1>7, <2>1, <2>2, BytesAre DEF MIDI!Whole, MIDI!Sounds, n
  <2> QED
    BY <1>7, <2>1, <2>3, BufferAssumption DEF b, n
<1>8. CASE m.CTRL = "EXCLUSIVE"
  <2>1. b[1] = "f0" \/ (b[1] = "f1" /\ n >= 3)
    BY <1>8 DEF Heads, b, n
  <2>2. MIDI!Whole(b) <=> byte = "f7"
    <3>1. CASE b[1] = "f0"
      BY <1>1, <3>1 DEF MIDI!Whole, n
    <3>2. CASE b[1] = "f1" /\ n >= 3
      BY <1>1, <3>2 DEF MIDI!Whole, n
    <3> QED
      BY <2>1, <3>1, <3>2
  <2>3. byte = "f7" => MIDI!Sounds(b)
    BY <1>1 DEF MIDI!Sounds
  <2> QED
    BY <1>1, <1>8, <2>2, <2>3, BufferAssumption DEF b, n
<1> QED
  BY <1>2, <1>5, <1>6, <1>7, <1>8

(* ... and after data.                                                     *)
LEMMA DataKeeps ==
  ASSUME MessagesAgree, NEW byte \in MIDI!Data \union {"f7"}, ~MIDI!Stray(midi, byte),
         MIDI!Transmits(byte)
  PROVE  MessagesAgree'
<1>1. MIDI!MIDI_Message(byte) /\ stream' = MIDI!Received(stream, byte)
      /\ midi \in MessageTypes /\ stream \in StreamTypes /\ stream.running = midi.LAST
      /\ Len(midi.BUF) <= Limit(midi.CTRL)
  BY DEF MIDI!Transmits, MessagesAgree
<1>2. /\ midi' \in MessageTypes /\ midi'.LAST = midi.LAST
      /\ Len(midi'.BUF) <= Limit(midi'.CTRL)
  BY <1>1, TakenFits
<1>3. byte \notin MIDI!Status /\ (byte = "f7" => midi.CTRL = "EXCLUSIVE")
  BY BytesAre DEF MIDI!Stray
<1>4. CASE stream.message = MIDI!Cut
  <2>1. /\ stream' \in StreamTypes /\ stream'.message = MIDI!Cut
        /\ stream'.running = stream.running
    BY <1>1, <1>3, <1>4, NothingReceived
  <2> QED
    BY <1>1, <1>2, <2>1 DEF MessagesAgree, MIDI!Cut
<1>5. CASE stream.message # MIDI!Cut
  <2> DEFINE m == Longer(byte)
             n == Len(m.BUF)
             ends == \/ m.CTRL \in {"2BYTES", "SYSTEM2"} /\ n >= 2
                     \/ m.CTRL \in {"3BYTES", "SYSTEM3"} /\ n >= 3
                     \/ m.CTRL = "EXCLUSIVE" /\ (byte = "f7" \/ n >= MIDIBUFFERS)
                     \/ m.CTRL = "TIMECODE" /\ n >= 2 /\ byte # "7f"
             sends == \/ m.CTRL \in {"2BYTES", "3BYTES"}
                      \/ m.CTRL = "EXCLUSIVE" /\ byte = "f7"
             whole == MIDI!Whole(m.BUF)
             sounds == MIDI!Sounds(m.BUF)
  <2>1. midi.BUF = stream.message /\ Goes(midi)
    BY <1>5 DEF MessagesAgree
  <2>2. byte = "f7" => MIDI!Exclusive(stream.message)
    BY <1>3, <2>1 DEF Goes, MIDI!Exclusive
  <2>3. /\ m.BUF = IF stream.message = << >> THEN <<stream.running, byte>>
                   ELSE Append(stream.message, byte)
        /\ m.CTRL = IF midi.CTRL = "READY" THEN MIDI!Ctrl(midi.LAST) ELSE midi.CTRL
        /\ m.BUF[n] = byte
    <3>1. midi.CTRL = "READY" <=> stream.message = << >>
      BY <2>1 DEF Goes
    <3>2. /\ m.BUF = IF midi.CTRL = "READY" THEN <<midi.LAST, byte>> ELSE Append(midi.BUF, byte)
          /\ m.CTRL = IF midi.CTRL = "READY" THEN MIDI!Ctrl(midi.LAST) ELSE midi.CTRL
      BY <1>1 DEF Longer, MessageTypes
    <3> HIDE DEF m
    <3>3. CASE midi.CTRL = "READY"
      BY <1>1, <3>1, <3>2, <3>3
    <3>4. CASE midi.CTRL # "READY"
      <4>1. midi.BUF \in Seq(Known) /\ byte \in Known
        BY <1>1, BytesAre DEF MessageTypes, Known
      <4>2. LET b == Append(midi.BUF, byte) IN b[Len(b)] = byte
        BY <4>1
      <4> QED
        BY <1>1, <2>1, <3>1, <3>2, <3>4, <4>2
    <3> QED
      BY <3>3, <3>4
  <2>4. /\ m \in MessageTypes /\ m.LAST = midi.LAST /\ m.CTRL # "READY"
        /\ n \in Nat /\ n <= Limit(m.CTRL) + 1
        /\ ends => midi' = [m EXCEPT !.CTRL = "READY", !.BUF = << >>]
        /\ ~ends => midi' = IF m.CTRL = "TIMECODE" /\ n >= 2
                            THEN [m EXCEPT !.CTRL = "EXCLUSIVE"] ELSE m
        /\ sent' = IF ends /\ sends THEN m.BUF ELSE MIDI!None
    BY <1>1, DataTaken
  <2>5. Heads(m)
    BY <1>1, <2>1, LongerHeads
  <2>6. byte = "f7" => m.CTRL = "EXCLUSIVE"
    BY <1>3, <2>3
  <2>7. /\ whole => ends /\ (sounds <=> sends)
        /\ ends /\ ~whole => n >= MIDIBUFFERS
        /\ ~ends => n < MIDIBUFFERS
    <3> HIDE DEF m
    <3> QED
      BY <2>3, <2>4, <2>5, <2>6, WholeEnds
  <2>8. /\ stream' \in StreamTypes /\ stream'.running = midi.LAST
        /\ stream'.message = IF whole THEN << >>
                             ELSE IF n >= MIDIBUFFERS THEN MIDI!Cut ELSE m.BUF
        /\ stream'.due = IF whole /\ sounds THEN m.BUF ELSE MIDI!None
    <3> DEFINE message == IF stream.message = << >> THEN <<stream.running, byte>>
                          ELSE Append(stream.message, byte)
               r == MIDI!Received(stream, byte)
    <3>1. /\ r \in StreamTypes /\ r.running = stream.running
          /\ r.message = IF MIDI!Whole(message) THEN << >>
                         ELSE IF Len(message) >= MIDIBUFFERS THEN MIDI!Cut ELSE message
          /\ r.due = IF MIDI!Whole(message) /\ MIDI!Sounds(message) THEN message ELSE MIDI!None
      BY <1>1, <1>5, <2>2, DataReceived
    <3>2. message = m.BUF
      BY <2>3
    <3> HIDE DEF message, r, m
    <3>3. r = stream'
      BY <1>1 DEF r
    <3> QED
      BY <1>1, <3>1, <3>2, <3>3
  <2> HIDE DEF m
  <2>9. CASE whole
    <3>1. midi' = [m EXCEPT !.CTRL = "READY", !.BUF = << >>]
      BY <2>4, <2>7, <2>9
    <3>2. midi'.CTRL = "READY" /\ midi'.BUF = << >>
      BY <2>4, <3>1 DEF MessageTypes
    <3>3. Goes(midi')
      BY <3>2 DEF Goes
    <3>4. stream'.message = << >> /\ sent' = stream'.due
      BY <2>4, <2>7, <2>8, <2>9
    <3> QED
      BY <1>2, <2>8, <3>2, <3>3, <3>4 DEF MessagesAgree, Goes, MIDI!Cut
  <2>10. CASE ~whole /\ n >= MIDIBUFFERS
    <3>1. stream'.message = MIDI!Cut
      BY <2>8, <2>10
    <3> QED
      BY <1>2, <2>8, <3>1 DEF MessagesAgree, MIDI!Cut
  <2>11. CASE ~whole /\ ~(n >= MIDIBUFFERS)
    <3>1. ~ends
      BY <2>7, <2>11
    <3>2. stream'.message = m.BUF /\ stream'.due = MIDI!None /\ sent' = MIDI!None
      BY <2>4, <2>8, <2>11, <3>1
    <3>3. midi'.BUF = m.BUF /\ Goes(midi')
      <4>1. m.BUF # << >>
        BY <2>5 DEF Heads
      <4>2. CASE m.CTRL = "TIMECODE" /\ n >= 2
        <5>1. byte = "7f" /\ n = 2
          <6>1. Limit("TIMECODE") = 1
            BY DEF Limit
          <6> HIDE DEF n
          <6> QED
            BY <2>4, <3>1, <4>2, <6>1
        <5>2. m.BUF[1] = "f1" /\ m.BUF[2] = "7f"
          BY <2>3, <2>5, <4>2, <5>1 DEF Heads
        <5>3. midi' = [m EXCEPT !.CTRL = "EXCLUSIVE"]
          BY <2>4, <3>1, <4>2
        <5>4. midi'.CTRL = "EXCLUSIVE" /\ midi'.BUF = m.BUF
          BY <2>4, <5>3 DEF MessageTypes
        <5> QED
          BY <4>1, <5>1, <5>2, <5>4 DEF Goes
      <4>3. CASE ~(m.CTRL = "TIMECODE" /\ n >= 2)
        <5>1. midi' = m
          BY <2>4, <3>1, <4>3
        <5> QED
          BY <2>4, <2>5, <4>1, <5>1 DEF Goes, Heads
      <4> QED
        BY <4>2, <4>3
    <3> QED
      BY <1>2, <2>8, <3>2, <3>3 DEF MessagesAgree, Goes, MIDI!Cut
  <2> QED
    BY <2>9, <2>10, <2>11
<1> QED
  BY <1>4, <1>5

-----------------------------------------------------------------------------
(* The board: its queue holds no more bytes than are counted, and what is  *)
(* put together agrees with the receiver.                                  *)
BytesCounted == Len(DelayBuf) <= MIDI_Buffered

MidiInv ==
  /\ MIDI_Buffered \in 0 .. MaxBuffered
  /\ DelayBuf \in Seq(Byte) /\ Len(DelayBuf) < MIDIDELAYBUF
  /\ BytesCounted
  /\ MessagesAgree

(* What the run checks follows.                                            *)
LEMMA MidiMeans ==
  ASSUME MidiInv PROVE MIDI!TypeOK /\ MIDI!SendsWhatIsReceived
<1>1. midi \in MessageTypes /\ Len(midi.BUF) <= Limit(midi.CTRL)
  BY DEF MidiInv, MessagesAgree
<1>2. midi.CTRL \in Controls /\ midi.LAST \in MIDI!Channel /\ Len(midi.BUF) \in Nat
  BY <1>1 DEF MessageTypes
<1>3. Limit(midi.CTRL) \in Nat /\ Limit(midi.CTRL) < MIDIBUFFERS
  BY <1>2, BufferAssumption DEF Limit, Controls
<1>4. Len(midi.BUF) < MIDIBUFFERS
  BY <1>1, <1>2, <1>3, BufferAssumption
<1> QED
  BY <1>2, <1>4 DEF MidiInv, MessagesAgree, MIDI!TypeOK, MIDI!SendsWhatIsReceived

(* The board as MIDI_Init leaves it, at first and later.                   *)
LEMMA FreshAgrees ==
  ASSUME NEW m, m = MIDI!Idle, NEW s, s = [message |-> << >>, running |-> "80", due |-> MIDI!None]
  PROVE  /\ m \in MessageTypes /\ Len(m.BUF) <= Limit(m.CTRL) /\ m.BUF = << >> /\ m.LAST = "80"
         /\ s \in StreamTypes /\ s.message = << >> /\ s.running = "80" /\ s.due = MIDI!None
         /\ Goes(m)
<1>1. << >> \in Seq(Known) /\ << >> \in Seq(Heard) /\ MIDI!None = << >> /\ Len(<< >>) = 0
  BY DEF MIDI!None
<1>2. "80" \in MIDI!Channel /\ "READY" \in Controls /\ Limit("READY") = 0
  BY DEF MIDI!Channel, Controls, Limit
<1>3. m.CTRL = "READY" /\ m.BUF = << >> /\ m.LAST = "80" /\ m \in MessageTypes
  BY <1>1, <1>2 DEF MIDI!Idle, MessageTypes
<1>4. s.message = << >> /\ s.running = "80" /\ s.due = MIDI!None /\ s \in StreamTypes
  BY <1>1, <1>2 DEF StreamTypes
<1> QED
  BY <1>1, <1>2, <1>3, <1>4 DEF Goes

(* A board that was never written to.                                      *)
LEMMA MidiInitially == MIDI!Init => MidiInv
<1> SUFFICES ASSUME MIDI!Init PROVE MidiInv
  OBVIOUS
<1>1. midi = MIDI!Idle /\ stream = [message |-> << >>, running |-> "80", due |-> MIDI!None]
      /\ sent = MIDI!None /\ MIDI_Buffered = 0 /\ DelayBuf = << >>
  BY DEF MIDI!Init
<1>2. MessagesAgree
  BY <1>1, FreshAgrees DEF MessagesAgree
<1>3. << >> \in Seq(Byte) /\ Len(<< >>) = 0
  OBVIOUS
<1> QED
  BY <1>1, <1>2, <1>3, BufferAssumption DEF MidiInv, BytesCounted

(* What is heard when nothing is sent.                                     *)
LEMMA QuietKeeps ==
  ASSUME MessagesAgree, UNCHANGED midi, sent' = MIDI!None,
         stream' = [stream EXCEPT !.due = MIDI!None]
  PROVE  MessagesAgree'
<1>1. MIDI!None \in Seq(Heard)
  BY DEF MIDI!None
<1>2. /\ stream' \in StreamTypes /\ stream'.due = MIDI!None
      /\ stream'.message = stream.message /\ stream'.running = stream.running
  BY <1>1 DEF MessagesAgree, StreamTypes
<1> QED
  BY <1>2 DEF MessagesAgree, Goes, MIDI!Cut

(* Any byte that leaves the queue.                                         *)
LEMMA TransmitsKeeps ==
  ASSUME MessagesAgree, NEW byte \in Byte, MIDI!Transmits(byte)
  PROVE  MessagesAgree'
<1>1. byte \in MIDI!Status \/ byte \in MIDI!Data \union {"f7"} \/ byte \in {"f4", "f8"}
  BY BytesAre DEF Known
<1>2. CASE byte \in MIDI!Status
  BY <1>2, StatusKeeps
<1>3. CASE MIDI!Stray(midi, byte)
  BY <1>3, StrayKeeps
<1>4. CASE byte \in MIDI!Data \union {"f7"} /\ ~MIDI!Stray(midi, byte)
  BY <1>4, DataKeeps
<1>5. CASE byte = "f8"
  <2>1. UNCHANGED midi /\ sent' = MIDI!None /\ stream' = MIDI!Received(stream, byte)
    BY <1>5 DEF MIDI!Transmits, MIDI!MIDI_Message, MIDI!Stray
  <2>2. byte \notin MIDI!Status /\ stream \in StreamTypes
    BY <1>5, BytesAre DEF MessagesAgree
  <2>3. MIDI!Received(stream, byte) = [stream EXCEPT !.due = MIDI!None]
    BY <1>5, <2>2 DEF MIDI!Received
  <2> QED
    BY <2>1, <2>3, QuietKeeps
<1>6. byte = "f4" => MIDI!Stray(midi, byte)
  BY DEF MIDI!Stray
<1> QED
  BY <1>1, <1>2, <1>3, <1>4, <1>5, <1>6

(* The actions of the board.                                               *)
LEMMA WriteKeeps ==
  ASSUME MidiInv, NEW byte \in Byte, MIDI!MIDI_Write(byte)
  PROVE  MidiInv'
<1>1. MessagesAgree'
  BY QuietKeeps DEF MidiInv, MIDI!MIDI_Write
<1>2. /\ MIDI_Buffered' = MIDI_Buffered + 1 /\ MIDI_Buffered' \in 0 .. MaxBuffered
      /\ MIDI_Buffered \in Nat
  BY BufferAssumption DEF MidiInv, MIDI!MIDI_Write
<1>3. /\ DelayBuf' = IF Len(DelayBuf) < MIDIDELAYBUF - 1 THEN Append(DelayBuf, byte) ELSE DelayBuf
      /\ DelayBuf \in Seq(Byte) /\ Len(DelayBuf) < MIDIDELAYBUF /\ Len(DelayBuf) \in Nat
      /\ Len(DelayBuf) <= MIDI_Buffered
  BY DEF MidiInv, MIDI!MIDI_Write, BytesCounted
<1>4. /\ DelayBuf' \in Seq(Byte) /\ Len(DelayBuf') < MIDIDELAYBUF
      /\ Len(DelayBuf') <= Len(DelayBuf) + 1
  BY <1>3, BufferAssumption
<1>5. BytesCounted'
  BY <1>2, <1>3, <1>4 DEF BytesCounted
<1> QED
  BY <1>1, <1>2, <1>4, <1>5 DEF MidiInv

(* A byte leaves the queue, or only its time passes.                       *)
LEMMA TimerKeeps == ASSUME MidiInv, MIDI!MIDI_Timer PROVE MidiInv'
<1>1. /\ MIDI_Buffered' = MIDI_Buffered - 1 /\ MIDI_Buffered' \in 0 .. MaxBuffered
      /\ MIDI_Buffered \in Nat /\ MIDI_Buffered > 0
  BY BufferAssumption DEF MidiInv, MIDI!MIDI_Timer
<1>2. DelayBuf \in Seq(Byte) /\ Len(DelayBuf) < MIDIDELAYBUF /\ Len(DelayBuf) \in Nat
      /\ Len(DelayBuf) <= MIDI_Buffered
  BY DEF MidiInv, BytesCounted
<1>3. CASE DelayBuf # << >>
  <2>1. DelayBuf' = Tail(DelayBuf) /\ MIDI!Transmits(Head(DelayBuf))
    BY <1>3 DEF MIDI!MIDI_Timer
  <2>2. /\ Head(DelayBuf) \in Byte /\ Tail(DelayBuf) \in Seq(Byte)
        /\ Len(Tail(DelayBuf)) = Len(DelayBuf) - 1
    BY <1>2, <1>3
  <2>3. MessagesAgree'
    BY <2>1, <2>2, TransmitsKeeps DEF MidiInv
  <2>4. BytesCounted' /\ Len(DelayBuf') < MIDIDELAYBUF
    BY <1>1, <1>2, <2>1, <2>2, BufferAssumption DEF BytesCounted
  <2> QED
    BY <1>1, <2>1, <2>2, <2>3, <2>4 DEF MidiInv
<1>4. CASE DelayBuf = << >>
  <2>1. MessagesAgree' /\ DelayBuf' = DelayBuf
    BY <1>4, QuietKeeps DEF MidiInv, MIDI!MIDI_Timer
  <2>2. Len(DelayBuf) = 0
    BY <1>4
  <2>3. BytesCounted'
    BY <1>1, <2>1, <2>2 DEF BytesCounted
  <2> QED
    BY <1>1, <1>2, <2>1, <2>3 DEF MidiInv
<1> QED
  BY <1>3, <1>4

(* A reset empties the ring and not the count.                             *)
LEMMA BoardResetKeeps == ASSUME MidiInv, MIDI!MIDI_Init PROVE MidiInv'
<1>1. /\ midi' = MIDI!Idle /\ stream' = [message |-> << >>, running |-> "80", due |-> MIDI!None]
      /\ sent' = MIDI!None /\ MIDI_Buffered' = MIDI_Buffered /\ DelayBuf' = << >>
  BY DEF MIDI!MIDI_Init
<1>2. /\ midi' \in MessageTypes /\ Len(midi'.BUF) <= Limit(midi'.CTRL)
      /\ midi'.BUF = << >> /\ midi'.LAST = "80"
      /\ stream' \in StreamTypes /\ stream'.message = << >> /\ stream'.running = "80"
      /\ stream'.due = MIDI!None /\ Goes(midi')
  BY <1>1, FreshAgrees
<1>3. MessagesAgree'
  BY <1>1, <1>2 DEF MessagesAgree, Goes, MIDI!Cut
<1>4. << >> \in Seq(Byte) /\ Len(<< >>) = 0 /\ MIDI_Buffered \in Nat
  BY BufferAssumption DEF MidiInv
<1> QED
  BY <1>1, <1>3, <1>4, BufferAssumption DEF MidiInv, BytesCounted

(* Every step of the board.                                                *)
LEMMA MidiKeeps == ASSUME MidiInv, MIDI!Next PROVE MidiInv'
  BY WriteKeeps, TimerKeeps, BoardResetKeeps DEF MIDI!Next

-----------------------------------------------------------------------------
(* The ring of frames.                                                     *)
(* The lesser of two numbers.                                               *)
LEMMA MinOfTwo ==
  ASSUME NEW a \in Int, NEW b \in Int
  PROVE  Min({a, b}) = IF a <= b THEN a ELSE b
  BY DEF Min

(* The least of three numbers is one of them.                              *)
LEMMA MinOfThree ==
  ASSUME NEW a \in Int, NEW b \in Int, NEW c \in Int
  PROVE  LET m == Min({a, b, c})
         IN  m \in {a, b, c} /\ m <= a /\ m <= b /\ m <= c
<1>1. \E m \in {a, b, c} : \A y \in {a, b, c} : m <= y
  <2>1. CASE a <= b /\ a <= c
    BY <2>1
  <2>2. CASE b <= a /\ b <= c
    BY <2>2
  <2>3. CASE c <= a /\ c <= b
    BY <2>3
  <2> QED
    BY <2>1, <2>2, <2>3
<1> QED
  BY <1>1 DEF Min

(* Going on round the ring: a step of at most one turn.                    *)
LEMMA Wrapped ==
  ASSUME NEW x \in Index, NEW n \in 0 .. Capacity
  PROVE  /\ (x + n) % Capacity = IF x + n < Capacity THEN x + n ELSE x + n - Capacity
         /\ (x + n) % Capacity \in Index
  BY CapacityAssumption DEF Index

(* Moving the write position with the count, and the read position against *)
(* it, keeps the positions in agreement.                                   *)
LEMMA WriteAdvances ==
  ASSUME NEW r \in Index, NEW c \in 0 .. Capacity, NEW n \in 0 .. Capacity - c
  PROVE  (((r + c) % Capacity) + n) % Capacity = (r + (c + n)) % Capacity
<1>1. c + n \in 0 .. Capacity /\ n \in 0 .. Capacity
  BY CapacityAssumption
<1>2. PICK w \in Index : /\ w = (r + c) % Capacity
                        /\ w = IF r + c < Capacity THEN r + c ELSE r + c - Capacity
  BY Wrapped
<1>3. (w + n) % Capacity = IF w + n < Capacity THEN w + n ELSE w + n - Capacity
  BY <1>1, Wrapped
<1>4. (r + (c + n)) % Capacity
        = IF r + (c + n) < Capacity THEN r + (c + n) ELSE r + (c + n) - Capacity
  BY <1>1, Wrapped
<1>5. (w + n) % Capacity = (r + (c + n)) % Capacity
  BY <1>1, <1>2, <1>3, <1>4, CapacityAssumption DEF Index
<1> QED
  BY <1>2, <1>5

(* Reading moves the read position against the count.                      *)
LEMMA ReadAdvances ==
  ASSUME NEW r \in Index, NEW c \in 0 .. Capacity, NEW n \in 0 .. c
  PROVE  (r + c) % Capacity = (((r + n) % Capacity) + (c - n)) % Capacity
<1>1. c - n \in 0 .. Capacity /\ n \in 0 .. Capacity
  BY CapacityAssumption
<1>2. PICK w \in Index : /\ w = (r + n) % Capacity
                        /\ w = IF r + n < Capacity THEN r + n ELSE r + n - Capacity
  BY <1>1, Wrapped
<1>3. (w + (c - n)) % Capacity
        = IF w + (c - n) < Capacity THEN w + (c - n) ELSE w + (c - n) - Capacity
  BY <1>1, Wrapped
<1>4. (r + c) % Capacity = IF r + c < Capacity THEN r + c ELSE r + c - Capacity
  BY Wrapped
<1>5. (r + c) % Capacity = (w + (c - n)) % Capacity
  BY <1>1, <1>2, <1>3, <1>4, CapacityAssumption DEF Index
<1> QED
  BY <1>2, <1>5

RingInv == TypeOK /\ PositionsAgree

-----------------------------------------------------------------------------
(* The spans of a turn.                                                    *)
LEMMA WritableSpan ==
  ASSUME TypeOK, length > 0
  PROVE  /\ Writable \in 0 .. Capacity - pcm_count
         /\ Writable <= length
         /\ pcm_write + Writable <= Capacity
         /\ Writable = 0 <=> pcm_count = Capacity
<1>1. /\ length \in Int /\ Capacity - pcm_write \in Int /\ Capacity - pcm_count \in Int
      /\ Capacity - pcm_write > 0 /\ Capacity - pcm_count >= 0 /\ pcm_write \in Nat
      /\ pcm_count \in Nat /\ Capacity \in Nat /\ length > 0
  BY CapacityAssumption DEF TypeOK, Index
<1>2. /\ Writable \in {length, Capacity - pcm_write, Capacity - pcm_count}
      /\ Writable <= length /\ Writable <= Capacity - pcm_write
      /\ Writable <= Capacity - pcm_count
  BY <1>1, MinOfThree DEF Writable
<1> QED
  BY <1>1, <1>2

(* The span the consumer may read.                                         *)
LEMMA ReadableSpan ==
  ASSUME TypeOK, frames > 0, pcm_count > 0
  PROVE  /\ Readable \in 1 .. pcm_count
         /\ Readable <= frames
         /\ pcm_read + Readable <= Capacity
<1>1. /\ frames \in Int /\ Capacity - pcm_read \in Int /\ pcm_count \in Int
      /\ Capacity - pcm_read > 0 /\ pcm_read \in Nat /\ Capacity \in Nat
  BY CapacityAssumption, WantAssumption DEF TypeOK, Index
<1>2. /\ Readable \in {frames, Capacity - pcm_read, pcm_count}
      /\ Readable <= frames /\ Readable <= Capacity - pcm_read /\ Readable <= pcm_count
  BY <1>1, MinOfThree DEF Readable
<1> QED
  BY <1>1, <1>2

-----------------------------------------------------------------------------
(* Every action keeps the invariant.                                       *)

(* The ring that audio_buffer_reset leaves.                                *)
LEMMA ResetAgrees ==
  ASSUME ResetRing
  PROVE  /\ pcmbuffer' \in [Index -> Frame] /\ pcm_read' \in Index /\ pcm_write' \in Index
         /\ pcm_count' \in 0 .. Capacity /\ PositionsAgree'
<1>1. 0 \in Index /\ Cushion \in Index /\ Cushion \in 0 .. Capacity
  BY CapacityAssumption DEF Index
<1>2. (0 + Cushion) % Capacity = Cushion
  BY <1>1, CapacityAssumption DEF Index
<1> QED
  BY <1>1, <1>2 DEF ResetRing, PositionsAgree, Frame

(* The silent cushion the program starts with.                             *)
LEMMA RingInitially == Init => RingInv
<1>1. 0 \in Index /\ Cushion \in Index /\ Cushion \in 0 .. Capacity
  BY CapacityAssumption DEF Index
<1>2. (0 + Cushion) % Capacity = Cushion
  BY <1>1, CapacityAssumption DEF Index
<1>3. 0 \in 0 .. Tick - 1 /\ 0 \in 0 .. MaxWant
  BY ClockAssumption, WantAssumption
<1> QED
  BY <1>1, <1>2, <1>3 DEF Init, RingInv, TypeOK, PositionsAgree, Frame

(* A reset leaves a good ring.                                             *)
LEMMA ResetKeeps == ASSUME RingInv, audio_buffer_reset PROVE RingInv'
  BY ResetAgrees DEF audio_buffer_reset, RingInv, TypeOK

(* A state that is loaded, or fails to load.                               *)
LEMMA LoadKeeps == ASSUME RingInv, dswin_StateAction PROVE RingInv'
<1>1. CASE ResetRing
  BY <1>1, ResetAgrees DEF dswin_StateAction, RingInv, TypeOK
<1>2. CASE UNCHANGED ringVars
  BY <1>2 DEF dswin_StateAction, RingInv, TypeOK, PositionsAgree, ringVars
<1> QED
  BY <1>1, <1>2 DEF dswin_StateAction

(* Emulated time is turned into frames.                                    *)
LEMMA ClockKeeps ==
  ASSUME RingInv, NEW clock \in Clocks, DSound_Send0(clock)
  PROVE  RingInv'
<1>1. clock \in Nat /\ Rate \in Nat /\ Tick \in Nat \ {0} /\ snd_precounter \in Nat
  BY ClockAssumption DEF RingInv, TypeOK
<1>2. PICK e \in Nat : e = snd_precounter + Rate * clock
  <2>1. Rate * clock \in Nat
    BY <1>1
  <2> QED
    BY <1>1, <2>1
<1>3. e % Tick \in 0 .. Tick - 1 /\ e \div Tick \in Nat
  BY <1>1
<1>4. snd_precounter' \in 0 .. Tick - 1 /\ length' \in Nat
  BY <1>2, <1>3 DEF DSound_Send0
<1> QED
  BY <1>4 DEF DSound_Send0, RingInv, TypeOK, PositionsAgree, ringVars

(* A turn of sound_send, dropping or writing.                              *)
LEMMA SendKeeps == ASSUME RingInv, sound_send PROVE RingInv'
<1>1. CASE DropOldest
  <2>1. pcm_count \in 0 .. Capacity /\ pcm_read \in Index /\ length \in Nat
    BY DEF RingInv, TypeOK
  <2>2. PICK d \in 0 .. pcm_count : d = Min({length, pcm_count})
    <3>1. length \in Int /\ pcm_count \in Int
      BY <2>1, CapacityAssumption
    <3>2. Min({length, pcm_count}) = IF length <= pcm_count THEN length ELSE pcm_count
      BY <3>1, MinOfTwo
    <3> QED
      BY <2>1, <3>2
  <2>3. pcm_read' = (pcm_read + d) % Capacity /\ pcm_count' = pcm_count - d
    BY <1>1, <2>2 DEF DropOldest
  <2>4. pcm_read' \in Index /\ pcm_count' \in 0 .. Capacity
    <3>1. d \in 0 .. Capacity /\ pcm_count - d \in 0 .. Capacity
      BY <2>1, CapacityAssumption
    <3>2. (pcm_read + d) % Capacity \in Index
      BY <2>1, <3>1, Wrapped
    <3> QED
      BY <2>3, <3>1, <3>2
  <2>5. PositionsAgree'
    BY <1>1, <2>1, <2>2, <2>3, ReadAdvances DEF PositionsAgree, RingInv, DropOldest
  <2> QED
    BY <1>1, <2>4, <2>5 DEF RingInv, TypeOK, DropOldest, sound_send
<1>2. CASE Synthesize
  <2>1. pcm_count \in 0 .. Capacity /\ pcm_read \in Index /\ pcm_write \in Index /\ length \in Nat
    BY DEF RingInv, TypeOK
  <2>2. PICK n \in 0 .. Capacity - pcm_count :
          n = Writable /\ n <= length /\ pcm_write + n <= Capacity
    BY WritableSpan DEF RingInv, sound_send
  <2>3. pcm_write' = (pcm_write + n) % Capacity /\ pcm_count' = pcm_count + n
        /\ length' = length - n /\ pcm_read' = pcm_read
    BY <1>2, <2>2 DEF Synthesize
  <2>4. pcm_write' \in Index /\ pcm_count' \in 0 .. Capacity /\ length' \in Nat
    BY <2>1, <2>2, <2>3, Wrapped, CapacityAssumption
  <2>5. PositionsAgree'
    BY <2>1, <2>2, <2>3, WriteAdvances DEF PositionsAgree, RingInv
  <2>6. pcmbuffer' \in [Index -> Frame]
    BY <1>2, <2>2 DEF Synthesize, RingInv, TypeOK, Frame
  <2> QED
    BY <2>3, <2>4, <2>5, <2>6 DEF RingInv, TypeOK, sound_send
<1> QED
  BY <1>1, <1>2 DEF sound_send

(* The frontend asks.                                                      *)
LEMMA AskKeeps == ASSUME RingInv, NEW want \in 0 .. MaxWant, CallBack(want) PROVE RingInv'
  BY DEF CallBack, RingInv, TypeOK, PositionsAgree, ringVars

(* A turn of raudio_callback, copying or filling.                          *)
LEMMA AnswerKeeps == ASSUME RingInv, raudio_callback PROVE RingInv'
<1>1. CASE Copy
  <2>1. /\ pcm_count \in 0 .. Capacity /\ pcm_read \in Index /\ frames \in 0 .. MaxWant
        /\ pcmbuffer \in [Index -> Frame] /\ out \in Seq(Frame)
    BY DEF RingInv, TypeOK
  <2>2. PICK n \in 1 .. pcm_count :
          n = Readable /\ n <= frames /\ pcm_read + n <= Capacity
    BY <1>1, ReadableSpan DEF RingInv, raudio_callback, Copy
  <2>3. pcm_read' = (pcm_read + n) % Capacity /\ pcm_count' = pcm_count - n
        /\ frames' = frames - n
    BY <1>1, <2>2 DEF Copy, audio_samples_discard
  <2>4. pcm_read' \in Index /\ pcm_count' \in 0 .. Capacity /\ frames' \in 0 .. MaxWant
    BY <2>1, <2>2, <2>3, Wrapped, CapacityAssumption, WantAssumption
  <2>5. PositionsAgree'
    <3>1. n \in 0 .. pcm_count
      BY <2>2
    <3> QED
      BY <1>1, <2>1, <2>3, <3>1, ReadAdvances
         DEF PositionsAgree, RingInv, Copy, audio_samples_discard
  <2>6. out' \in Seq(Frame)
    <3>1. [i \in 1 .. n |-> pcmbuffer[pcm_read + i - 1]] \in Seq(Frame)
      <4>1. \A i \in 1 .. n : pcmbuffer[pcm_read + i - 1] \in Frame
        BY <2>1, <2>2, CapacityAssumption DEF Index
      <4> QED
        BY <2>1, <2>2, <4>1, CapacityAssumption
    <3> QED
      BY <1>1, <2>1, <2>2, <3>1 DEF Copy
  <2> QED
    BY <1>1, <2>4, <2>5, <2>6 DEF RingInv, TypeOK, Copy, audio_samples_discard, raudio_callback
<1>2. CASE FillWithSilence
  <2>1. [i \in 1 .. frames |-> Silence] \in Seq(Frame)
    BY WantAssumption DEF RingInv, TypeOK, Frame
  <2>2. out' \in Seq(Frame) /\ frames' \in 0 .. MaxWant
    BY <1>2, <2>1, WantAssumption DEF FillWithSilence, RingInv, TypeOK
  <2> QED
    BY <1>2, <2>2 DEF FillWithSilence, raudio_callback, RingInv, TypeOK, PositionsAgree, ringVars
<1> QED
  BY <1>1, <1>2 DEF raudio_callback

(* Every step keeps the invariant.                                         *)
LEMMA RingKeeps == ASSUME RingInv, Next PROVE RingInv'
  BY ResetKeeps, LoadKeeps, ClockKeeps, SendKeeps, AskKeeps, AnswerKeeps DEF Next

-----------------------------------------------------------------------------
(* The two halves together.                                                *)
IInv == RingInv /\ MidiInv

(* The invariant holds in every reachable state.                           *)
THEOREM InvariantHolds == SoundSpec => []IInv
<1>1. SoundInit => IInv
  BY RingInitially, MidiInitially DEF SoundInit, IInv
<1>2. IInv /\ [SoundNext]_soundVars => IInv'
  <2> SUFFICES ASSUME IInv, [SoundNext]_soundVars PROVE IInv'
    OBVIOUS
  <2>1. UNCHANGED vars => RingInv'
    BY DEF IInv, RingInv, TypeOK, PositionsAgree, vars, ringVars
  <2>2. UNCHANGED midiVars => MidiInv'
    BY DEF IInv, MidiInv, BytesCounted, MessagesAgree, midiVars, Goes, MIDI!Cut
  <2>3. Next => RingInv'
    BY RingKeeps DEF IInv
  <2>4. MIDI!Next => MidiInv'
    BY MidiKeeps DEF IInv
  <2> QED
    BY <2>1, <2>2, <2>3, <2>4 DEF SoundNext, soundVars, IInv
<1> QED
  BY <1>1, <1>2, PTL DEF SoundSpec

(* No index of the ring of frames leaves the buffer and no more frames are *)
(* counted than it has; no message of the MIDI board outgrows its buffer.  *)
THEOREM TypeCorrect == SoundSpec => []TypesOK
<1>1. IInv => TypesOK
  BY MidiMeans DEF IInv, RingInv, TypesOK
<1> QED
  BY <1>1, InvariantHolds, PTL

(* The read and write positions and the count agree at every capacity, in  *)
(* the middle of the loops too.                                            *)
THEOREM PositionsStayInAgreement == SoundSpec => []PositionsAgree
<1>1. IInv => PositionsAgree
  BY DEF IInv, RingInv
<1> QED
  BY <1>1, InvariantHolds, PTL

(* Every message that the bytes sent make up is given away, whole and      *)
(* once, and nothing else, for every length of the buffer.                 *)
THEOREM MessagesAreSent == SoundSpec => []SendsWhatIsReceived
<1>1. IInv => SendsWhatIsReceived
  BY MidiMeans DEF IInv, SendsWhatIsReceived
<1> QED
  BY <1>1, InvariantHolds, PTL

(* The count that keeps the clock running does not run out before the      *)
(* bytes in the ring do, whatever was dropped or reset in between.         *)
THEOREM BytesStayCounted == SoundSpec => []BytesCounted
<1>1. IInv => BytesCounted
  BY DEF IInv, MidiInv
<1> QED
  BY <1>1, InvariantHolds, PTL

-----------------------------------------------------------------------------
(* The ring implements the queue.                                          *)
Queue(b, r, c) == [i \in 1 .. c |-> b[(r + i - 1) % Capacity]]

(* The queue the refinement maps the ring to.                              *)
LEMMA UnreadIs == Unread = Queue(pcmbuffer, pcm_read, pcm_count)
  BY DEF Unread, Queue

(* The queue a ring holds: the places from the read position on.           *)
LEMMA QueueIs ==
  ASSUME NEW b \in [Index -> Frame], NEW r \in Index, NEW c \in 0 .. Capacity
  PROVE  /\ Queue(b, r, c) \in Seq(Frame) /\ Len(Queue(b, r, c)) = c
         /\ \A i \in 1 .. c : Queue(b, r, c)[i] = b[(r + (i - 1)) % Capacity]
<1>1. \A i \in 1 .. c : /\ r + i - 1 = r + (i - 1)
                        /\ (r + (i - 1)) % Capacity \in Index
  <2> SUFFICES ASSUME NEW i \in 1 .. c
               PROVE  r + i - 1 = r + (i - 1) /\ (r + (i - 1)) % Capacity \in Index
    OBVIOUS
  <2>1. i - 1 \in 0 .. Capacity /\ r \in Nat /\ i \in Nat
    BY CapacityAssumption DEF Index
  <2>2. (r + (i - 1)) % Capacity \in Index
    BY <2>1, Wrapped
  <2> QED
    BY <2>1, <2>2
<1>2. \A i \in 1 .. c : b[(r + i - 1) % Capacity] = b[(r + (i - 1)) % Capacity]
  BY <1>1
<1>3. \A i \in 1 .. c : b[(r + i - 1) % Capacity] \in Frame
  BY <1>1, <1>2
<1>4. c \in Nat
  BY CapacityAssumption
<1>5. Queue(b, r, c) \in [1 .. c -> Frame]
  BY <1>3 DEF Queue
<1>6. Queue(b, r, c) \in Seq(Frame) /\ Len(Queue(b, r, c)) = c
  BY <1>4, <1>5
<1> QED
  BY <1>2, <1>6 DEF Queue

(* Moving the read position takes the head off.                            *)
LEMMA QueueAdvances ==
  ASSUME NEW b \in [Index -> Frame], NEW r \in Index, NEW c \in 0 .. Capacity, NEW n \in 0 .. c
  PROVE  Queue(b, (r + n) % Capacity, c - n) = SubSeq(Queue(b, r, c), n + 1, c)
<1> DEFINE q == Queue(b, r, c)
           x == (r + n) % Capacity
           rest == Queue(b, x, c - n)
           tail == SubSeq(q, n + 1, c)
<1>1. n \in Nat /\ c \in Nat /\ n <= c /\ c <= Capacity /\ n \in 0 .. Capacity
      /\ c - n \in 0 .. Capacity
  BY CapacityAssumption
<1>2. x \in Index
  BY <1>1, Wrapped
<1>3. q \in Seq(Frame) /\ Len(q) = c /\ \A i \in 1 .. c : q[i] = b[(r + (i - 1)) % Capacity]
  BY QueueIs
<1>4. /\ rest \in Seq(Frame) /\ Len(rest) = c - n
      /\ \A i \in 1 .. c - n : rest[i] = b[(x + (i - 1)) % Capacity]
  <2> HIDE DEF x
  <2> QED
    BY <1>1, <1>2, QueueIs
<1>5. \A i \in n + 1 .. c : q[i] \in Frame
  <2> HIDE DEF q
  <2>1. \A i \in 1 .. Len(q) : q[i] \in Frame
    BY <1>3, ElementOfSeq
  <2> QED
    BY <1>1, <1>3, <2>1
<1>6. /\ tail \in Seq(Frame) /\ Len(tail) = c - n
      /\ \A i \in 1 .. c - n : tail[i] = q[n + i]
  <2> HIDE DEF q
  <2>1. /\ SubSeq(q, n + 1, c) \in Seq(Frame)
        /\ Len(SubSeq(q, n + 1, c)) = IF n + 1 <= c THEN c - (n + 1) + 1 ELSE 0
        /\ \A i \in 1 .. c - (n + 1) + 1 : SubSeq(q, n + 1, c)[i] = q[n + 1 + i - 1]
    BY <1>1, <1>5, SubSeqProperties
  <2>2. c - (n + 1) + 1 = c - n /\ (~(n + 1 <= c) => c - n = 0)
    BY <1>1
  <2>3. \A i \in 1 .. c - n : n + 1 + i - 1 = n + i
    BY <1>1
  <2> QED
    BY <2>1, <2>2, <2>3
<1>7. ASSUME NEW i \in 1 .. c - n PROVE rest[i] = tail[i]
  <2>1. i - 1 \in 0 .. Capacity - n /\ n + i \in 1 .. c /\ n + i - 1 = n + (i - 1) /\ i \in Int
    BY <1>1, CapacityAssumption
  <2>2. (x + (i - 1)) % Capacity = (r + (n + (i - 1))) % Capacity
    BY <1>1, <2>1, WriteAdvances
  <2> HIDE DEF x, rest, tail, q
  <2>3. rest[i] = b[(r + (n + (i - 1))) % Capacity]
    BY <1>4, <2>2
  <2>4. tail[i] = q[n + i] /\ q[n + i] = b[(r + (n + i - 1)) % Capacity]
    BY <1>3, <1>6, <2>1
  <2> QED
    BY <2>1, <2>3, <2>4
<1> HIDE DEF rest, tail
<1>8. rest = tail
  BY <1>4, <1>6, <1>7, SeqEqual
<1> QED
  BY <1>8 DEF rest, tail

(* Frames stored behind the write position go to its end: the places of    *)
(* those not read yet are spared.                                          *)
Stored(b2, b, r, c, w, n, pcm) ==
  /\ b \in [Index -> Frame] /\ b2 \in [Index -> Frame] /\ r \in Index
  /\ c \in 0 .. Capacity /\ n \in 0 .. Capacity - c /\ w \in Index
  /\ w = (r + c) % Capacity /\ w + n <= Capacity
  /\ pcm \in [w .. w + n - 1 -> Sound]
  /\ \A i \in Index : b2[i] = IF i \in w .. w + n - 1 THEN pcm[i] ELSE b[i]

Span(pcm, w, n) == [i \in 1 .. n |-> pcm[w + i - 1]]

(* The queue grows by the span.                                            *)
LEMMA QueueGrows ==
  ASSUME NEW b, NEW b2, NEW r, NEW c, NEW w, NEW n, NEW pcm, Stored(b2, b, r, c, w, n, pcm)
  PROVE  Queue(b2, r, c + n) = Queue(b, r, c) \o Span(pcm, w, n)
<1> DEFINE q == Queue(b, r, c)
           s == Span(pcm, w, n)
           long == Queue(b2, r, c + n)
           both == q \o s
<1>0. /\ b \in [Index -> Frame] /\ b2 \in [Index -> Frame] /\ r \in Index
      /\ c \in 0 .. Capacity /\ n \in 0 .. Capacity - c /\ w \in Index
      /\ w = (r + c) % Capacity /\ w + n <= Capacity
      /\ pcm \in [w .. w + n - 1 -> Sound]
  BY DEF Stored
<1>1. /\ n \in Nat /\ c \in Nat /\ c + n \in 0 .. Capacity /\ r \in 0 .. Capacity - 1
      /\ Capacity \in Nat
  <2>1. Capacity \in Nat /\ r \in 0 .. Capacity - 1
    BY <1>0, CapacityAssumption DEF Index
  <2>2. c \in Nat /\ c <= Capacity
    BY <1>0, <2>1
  <2>3. n \in Nat /\ n <= Capacity - c
    BY <1>0, <2>1, <2>2
  <2> QED
    BY <2>1, <2>2, <2>3
<1>2. w \in Index /\ w = (IF r + c < Capacity THEN r + c ELSE r + c - Capacity) /\ w \in Nat
  <2>1. /\ (r + c) % Capacity = IF r + c < Capacity THEN r + c ELSE r + c - Capacity
        /\ (r + c) % Capacity \in Index
    BY <1>0, Wrapped
  <2>2. w = IF r + c < Capacity THEN r + c ELSE r + c - Capacity
    BY <1>0, <2>1
  <2>3. w \in Nat
    BY <1>0, CapacityAssumption DEF Index
  <2> QED
    BY <1>0, <2>2, <2>3
<1>3. q \in Seq(Frame) /\ Len(q) = c /\ \A i \in 1 .. c : q[i] = b[(r + (i - 1)) % Capacity]
  BY <1>0, QueueIs
<1>4. /\ long \in Seq(Frame) /\ Len(long) = c + n
      /\ \A i \in 1 .. c + n : long[i] = b2[(r + (i - 1)) % Capacity]
  BY <1>0, <1>1, QueueIs
<1>5. s \in Seq(Frame) /\ Len(s) = n /\ \A i \in 1 .. n : s[i] = pcm[w + i - 1]
  <2>1. \A i \in 1 .. n : w + i - 1 \in w .. w + n - 1
    BY <1>1, <1>2
  <2>2. \A i \in 1 .. n : pcm[w + i - 1] \in Frame
    BY <1>0, <2>1 DEF Frame
  <2>3. s \in [1 .. n -> Frame]
    BY <2>2 DEF Span
  <2> QED
    BY <1>1, <2>3 DEF Span
<1> HIDE DEF q, s, long
<1>6. /\ both \in Seq(Frame) /\ Len(both) = c + n
      /\ \A i \in 1 .. c + n : both[i] = IF i <= c THEN q[i] ELSE s[i - c]
  <2>1. /\ q \o s \in Seq(Frame) /\ Len(q \o s) = Len(q) + Len(s)
        /\ \A i \in 1 .. Len(q) + Len(s) : (q \o s)[i] = IF i <= Len(q) THEN q[i] ELSE s[i - Len(q)]
    BY <1>3, <1>5, ConcatProperties
  <2>2. Len(q) = c /\ Len(s) = n
    BY <1>3, <1>5
  <2> QED
    BY <2>1, <2>2
<1> HIDE DEF both
<1>7. ASSUME NEW i \in 1 .. c + n PROVE long[i] = both[i]
  <2> DEFINE x == (r + (i - 1)) % Capacity
  <2>1. i - 1 \in 0 .. Capacity /\ i \in Int
    BY <1>1
  <2>2. x \in Index /\ x = IF r + (i - 1) < Capacity THEN r + (i - 1) ELSE r + (i - 1) - Capacity
    BY <1>0, <2>1, Wrapped
  <2>3. long[i] = b2[x]
    BY <1>4
  <2> HIDE DEF x
  <2>4. CASE i <= c
    <3>1. x \notin w .. w + n - 1
      BY <1>1, <1>2, <2>1, <2>2, <2>4
    <3>2. both[i] = q[i] /\ q[i] = b[x]
      BY <1>1, <1>3, <1>6, <2>1, <2>4 DEF x
    <3> QED
      BY <2>2, <2>3, <3>1, <3>2 DEF Stored
  <2>5. CASE ~(i <= c)
    <3>1. x = w + (i - c) - 1 /\ x \in w .. w + n - 1 /\ i - c \in 1 .. n
      <4>1. i - c \in 1 .. n /\ i - c \in Int
        BY <1>1, <2>1, <2>5
      <4>2. i <= c + n /\ i > c /\ w + n <= Capacity
        BY <1>0, <1>1, <2>1, <2>5
      <4>3. CASE r + c < Capacity
        <5>1. w = r + c
          BY <1>2, <4>3
        <5>2. r + (i - 1) < Capacity
          BY <1>1, <2>1, <4>2, <5>1
        <5>3. x = r + (i - 1)
          BY <2>2, <5>2
        <5> QED
          BY <1>1, <1>2, <2>1, <4>1, <4>2, <5>1, <5>3
      <4>4. CASE ~(r + c < Capacity)
        <5>1. w = r + c - Capacity
          BY <1>2, <4>4
        <5>2. ~(r + (i - 1) < Capacity)
          BY <1>1, <2>1, <4>2, <4>4
        <5>3. x = r + (i - 1) - Capacity
          BY <2>2, <5>2
        <5> QED
          BY <1>1, <1>2, <2>1, <4>1, <4>2, <5>1, <5>3
      <4> QED
        BY <4>3, <4>4
    <3>2. both[i] = s[i - c]
      BY <1>6, <2>5
    <3>3. s[i - c] = pcm[x]
      BY <1>5, <3>1
    <3> QED
      BY <2>2, <2>3, <3>1, <3>2, <3>3 DEF Stored
  <2> QED
    BY <2>4, <2>5
<1>8. long = both
  BY <1>4, <1>6, <1>7, SeqEqual
<1> QED
  BY <1>8 DEF long, both, q, s

(* The operators of the abstract queue.                                    *)
LEMMA SilentIs == \A n : Abstract!Silent(n) = [i \in 1 .. n |-> Silence]
  BY DEF Abstract!Silent

(* A reset leaves the silent cushion.                                      *)
LEMMA ResetQueue == ASSUME ResetRing PROVE Unread' = Abstract!Silent(Cushion)
<1>1. \A i \in 1 .. Cushion : (0 + i - 1) % Capacity \in Index
  <2> SUFFICES ASSUME NEW i \in 1 .. Cushion PROVE (0 + i - 1) % Capacity \in Index
    OBVIOUS
  <2>1. 0 \in Index /\ i - 1 \in 0 .. Capacity /\ 0 + i - 1 = 0 + (i - 1)
    BY CapacityAssumption DEF Index
  <2>2. (0 + (i - 1)) % Capacity \in Index
    BY <2>1, Wrapped
  <2> QED
    BY <2>1, <2>2
<1>2. Unread' = [i \in 1 .. Cushion |-> pcmbuffer'[(0 + i - 1) % Capacity]]
  BY DEF Unread, ResetRing
<1>3. \A i \in 1 .. Cushion : pcmbuffer'[(0 + i - 1) % Capacity] = Silence
  BY <1>1 DEF ResetRing
<1> QED
  BY <1>2, <1>3, SilentIs

(* And so does the start.                                                  *)
LEMMA InitialQueue == ASSUME Init PROVE Abstract!Init
<1>1. \A i \in 1 .. Cushion : (0 + i - 1) % Capacity \in Index
  <2> SUFFICES ASSUME NEW i \in 1 .. Cushion PROVE (0 + i - 1) % Capacity \in Index
    OBVIOUS
  <2>1. 0 \in Index /\ i - 1 \in 0 .. Capacity /\ 0 + i - 1 = 0 + (i - 1)
    BY CapacityAssumption DEF Index
  <2>2. (0 + (i - 1)) % Capacity \in Index
    BY <2>1, Wrapped
  <2> QED
    BY <2>1, <2>2
<1>2. Unread = [i \in 1 .. Cushion |-> pcmbuffer[(0 + i - 1) % Capacity]]
  BY DEF Unread, Init
<1>3. \A i \in 1 .. Cushion : pcmbuffer[(0 + i - 1) % Capacity] = Silence
  BY <1>1 DEF Init
<1>4. Unread = Abstract!Silent(Cushion)
  BY <1>2, <1>3, SilentIs
<1> QED
  BY <1>4 DEF Abstract!Init, Init

(* The frames not read, as a sequence.                                     *)
LEMMA UnreadTyped ==
  ASSUME RingInv
  PROVE  /\ Unread = Queue(pcmbuffer, pcm_read, pcm_count)
         /\ Unread \in Seq(Frame) /\ Len(Unread) = pcm_count
         /\ \A i \in 1 .. pcm_count : Unread[i] = pcmbuffer[(pcm_read + (i - 1)) % Capacity]
<1> DEFINE q == Queue(pcmbuffer, pcm_read, pcm_count)
<1>1. pcmbuffer \in [Index -> Frame] /\ pcm_read \in Index /\ pcm_count \in 0 .. Capacity
  BY DEF RingInv, TypeOK
<1>2. /\ q \in Seq(Frame) /\ Len(q) = pcm_count
      /\ \A i \in 1 .. pcm_count : q[i] = pcmbuffer[(pcm_read + (i - 1)) % Capacity]
  BY <1>1, QueueIs
<1>3. Unread = q
  BY UnreadIs
<1> HIDE DEF q
<1>4. Unread \in Seq(Frame) /\ Len(Unread) = pcm_count
  BY <1>2, <1>3
<1>5. \A i \in 1 .. pcm_count : Unread[i] = pcmbuffer[(pcm_read + (i - 1)) % Capacity]
  BY <1>2, <1>3
<1> QED
  BY <1>3, <1>4, <1>5 DEF q

(* The queue depends on the ring alone.                                    *)
LEMMA SameQueue == ASSUME UNCHANGED ringVars PROVE Unread' = Unread
  BY DEF ringVars, Unread

(* A turn of sound_send makes frames, or gives the oldest up.              *)
LEMMA SendImplements == ASSUME RingInv, sound_send PROVE Abstract!Next
<1>1. /\ pcmbuffer \in [Index -> Frame] /\ pcm_read \in Index /\ pcm_count \in 0 .. Capacity
      /\ pcm_write = (pcm_read + pcm_count) % Capacity /\ length \in Nat /\ length > 0
      /\ pcm_write \in Index
  BY DEF RingInv, TypeOK, PositionsAgree, sound_send
<1>2. Unread = Queue(pcmbuffer, pcm_read, pcm_count) /\ Len(Unread) = pcm_count
  BY UnreadTyped
<1>3. Unread' = Queue(pcmbuffer', pcm_read', pcm_count')
  BY DEF Unread, Queue
<1>4. out' = out
  BY DEF sound_send
<1>5. Capacity \in Nat \ {0}
  BY CapacityAssumption
<1>6. CASE DropOldest
  <2>1. pcm_count = Capacity
    BY <1>6, WritableSpan DEF RingInv, DropOldest, sound_send
  <2>2. PICK n \in 1 .. Capacity : n = Min({length, pcm_count})
    <3>1. length \in Int /\ pcm_count \in Int
      BY <1>1, <1>5, <2>1
    <3>2. Min({length, pcm_count}) = IF length <= pcm_count THEN length ELSE pcm_count
      BY <3>1, MinOfTwo
    <3> QED
      BY <1>1, <1>5, <2>1, <3>2
  <2>3. /\ pcm_read' = (pcm_read + n) % Capacity /\ pcm_count' = pcm_count - n
        /\ pcmbuffer' = pcmbuffer
    BY <1>6, <2>2 DEF DropOldest
  <2>4. n \in 0 .. pcm_count
    BY <2>1
  <2>5. Unread' = SubSeq(Unread, n + 1, Capacity)
    BY <1>1, <1>2, <1>3, <2>1, <2>3, <2>4, QueueAdvances
  <2>6. Abstract!GiveUp
    BY <1>2, <1>4, <2>1, <2>5 DEF Abstract!GiveUp
  <2> QED
    BY <2>6 DEF Abstract!Next
<1>7. CASE Synthesize
  <2>1. PICK n \in 0 .. Capacity - pcm_count :
          n = Writable /\ n <= length /\ pcm_write + n <= Capacity
    BY WritableSpan DEF RingInv, sound_send
  <2>2. n > 0 /\ pcm_count' = pcm_count + n /\ pcm_read' = pcm_read
    BY <1>7, <2>1 DEF Synthesize
  <2>3. PICK pcm \in [pcm_write .. pcm_write + n - 1 -> Sound] :
          pcmbuffer' = [i \in Index |-> IF i \in DOMAIN pcm THEN pcm[i] ELSE pcmbuffer[i]]
    BY <1>7, <2>1 DEF Synthesize
  <2>4. /\ pcmbuffer' \in [Index -> Frame]
        /\ pcm \in [pcm_write .. pcm_write + n - 1 -> Sound]
        /\ Stored(pcmbuffer', pcmbuffer, pcm_read, pcm_count, pcm_write, n, pcm)
    BY <1>1, <2>1, <2>3 DEF Frame, Stored
  <2> DEFINE s == Span(pcm, pcm_write, n)
  <2>5. Unread' = Unread \o s
    <3>1. Queue(pcmbuffer', pcm_read, pcm_count + n) = Queue(pcmbuffer, pcm_read, pcm_count) \o s
      BY <2>4, QueueGrows
    <3> QED
      BY <1>2, <1>3, <2>2, <3>1
  <2>6. s \in Abstract!Upto(Capacity - Len(Unread))
    <3>1. n \in 1 .. Capacity - pcm_count /\ pcm_write \in Nat /\ n \in Nat
      BY <1>1, <1>5, <2>2 DEF Index
    <3>2. \A i \in 1 .. n : pcm_write + i - 1 \in pcm_write .. pcm_write + n - 1
      BY <3>1
    <3>3. s \in [1 .. n -> Sound]
      BY <2>4, <3>2 DEF Span
    <3> HIDE DEF s
    <3> QED
      BY <1>2, <3>1, <3>3 DEF Abstract!Upto
  <2> HIDE DEF s
  <2>7. Abstract!Make
    BY <1>4, <2>5, <2>6 DEF Abstract!Make
  <2> QED
    BY <2>7 DEF Abstract!Next
<1> QED
  BY <1>6, <1>7 DEF sound_send

(* A turn of raudio_callback is heard, or finds nothing.                   *)
LEMMA AnswerImplements == ASSUME RingInv, raudio_callback PROVE Abstract!Next
<1>1. /\ pcmbuffer \in [Index -> Frame] /\ pcm_read \in Index /\ pcm_count \in 0 .. Capacity
      /\ frames \in Nat /\ frames > 0 /\ out \in Seq(Frame)
  BY WantAssumption DEF RingInv, TypeOK, raudio_callback
<1>2. /\ Unread = Queue(pcmbuffer, pcm_read, pcm_count) /\ Unread \in Seq(Frame)
      /\ Len(Unread) = pcm_count
      /\ \A i \in 1 .. pcm_count : Unread[i] = pcmbuffer[(pcm_read + (i - 1)) % Capacity]
  BY UnreadTyped
<1>3. Unread' = Queue(pcmbuffer', pcm_read', pcm_count')
  BY DEF Unread, Queue
<1>4. Capacity \in Nat \ {0}
  BY CapacityAssumption
<1>5. CASE Copy
  <2>1. PICK n \in 1 .. pcm_count : n = Readable /\ n <= frames /\ pcm_read + n <= Capacity
    BY <1>5, ReadableSpan DEF RingInv, raudio_callback, Copy
  <2> DEFINE s == [i \in 1 .. n |-> pcmbuffer[pcm_read + i - 1]]
             head == SubSeq(Unread, 1, n)
  <2>2. /\ pcm_read' = (pcm_read + n) % Capacity /\ pcm_count' = pcm_count - n
        /\ pcmbuffer' = pcmbuffer /\ out' = out \o s
    BY <1>5, <2>1 DEF Copy, audio_samples_discard
  <2>3. n \in 0 .. pcm_count /\ n \in Nat /\ pcm_read \in Nat /\ pcm_count \in Nat
    BY <1>1, <1>4, <2>1 DEF Index
  <2>4. Unread' = SubSeq(Unread, n + 1, Len(Unread))
    BY <1>1, <1>2, <1>3, <2>2, <2>3, QueueAdvances
  <2>5. ASSUME NEW i \in 1 .. n
        PROVE  /\ pcm_read + i - 1 \in Index /\ Unread[i] = pcmbuffer[pcm_read + i - 1]
               /\ Unread[i] \in Frame
    <3>1. i \in 1 .. pcm_count /\ i - 1 \in 0 .. Capacity /\ pcm_read + (i - 1) < Capacity
          /\ pcm_read + (i - 1) = pcm_read + i - 1 /\ pcm_read + i - 1 \in Index
      BY <1>1, <1>4, <2>1, <2>3 DEF Index
    <3>2. (pcm_read + (i - 1)) % Capacity = pcm_read + (i - 1)
      BY <1>1, <3>1, Wrapped
    <3>3. Unread[i] = pcmbuffer[pcm_read + i - 1]
      BY <1>2, <3>1, <3>2
    <3> QED
      BY <1>1, <3>1, <3>3
  <2>6. s \in Seq(Frame) /\ Len(s) = n /\ \A i \in 1 .. n : s[i] = Unread[i]
    <3>1. s \in [1 .. n -> Frame]
      BY <2>5
    <3> QED
      BY <2>3, <2>5, <3>1
  <2>7. /\ head \in Seq(Frame) /\ Len(head) = n
        /\ \A i \in 1 .. n : head[i] = Unread[i]
    <3>1. /\ SubSeq(Unread, 1, n) \in Seq(Frame)
          /\ Len(SubSeq(Unread, 1, n)) = IF 1 <= n THEN n - 1 + 1 ELSE 0
          /\ \A i \in 1 .. n - 1 + 1 : SubSeq(Unread, 1, n)[i] = Unread[1 + i - 1]
      BY <2>3, <2>5, SubSeqProperties
    <3>2. n - 1 + 1 = n /\ 1 <= n /\ \A i \in 1 .. n : 1 + i - 1 = i
      BY <2>1, <2>3
    <3> QED
      BY <3>1, <3>2
  <2> HIDE DEF s, head
  <2>8. s = head
    BY <2>6, <2>7, SeqEqual
  <2>9. Abstract!Hear
    <3>1. n \in 1 .. Len(Unread) /\ out' = out \o SubSeq(Unread, 1, n)
      BY <1>2, <2>1, <2>2, <2>8 DEF head
    <3> QED
      BY <2>4, <3>1 DEF Abstract!Hear
  <2> QED
    BY <2>9 DEF Abstract!Next
<1>6. CASE FillWithSilence
  <2> DEFINE s == [i \in 1 .. frames |-> Silence]
  <2>1. UNCHANGED ringVars /\ out' = out \o s /\ pcm_count = 0
    BY <1>6 DEF FillWithSilence
  <2>2. Unread' = Unread /\ Unread = << >>
    BY <1>2, <2>1, SameQueue, EmptySeq
  <2>3. s \in Seq(Frame) /\ Len(s) = frames
    BY <1>1 DEF Frame
  <2>4. s = Abstract!Silent(frames)
    BY SilentIs
  <2> HIDE DEF s
  <2>5. Len(out') = Len(out) + frames /\ Len(out) \in Nat
    <3>1. Len(out \o s) = Len(out) + Len(s)
      BY <1>1, <2>3, ConcatProperties
    <3>2. Len(out) \in Nat
      BY <1>1, LenProperties
    <3> QED
      BY <2>1, <2>3, <3>1, <3>2
  <2>6. Len(out') - Len(out) = frames
    BY <1>1, <2>5
  <2>7. Abstract!Underrun
    BY <2>1, <2>2, <2>4, <2>6 DEF Abstract!Underrun
  <2> QED
    BY <2>7 DEF Abstract!Next
<1> QED
  BY <1>5, <1>6 DEF raudio_callback

(* Every step of the ring is one of the queue or a stutter.                *)
LEMMA RingImplements == ASSUME RingInv, Next PROVE [Abstract!Next]_(Abstract!absVars)
<1>1. CASE audio_buffer_reset
  <2>1. Abstract!Reset
    BY <1>1, ResetQueue DEF audio_buffer_reset, Abstract!Reset
  <2> QED
    BY <2>1 DEF Abstract!Next
<1>2. CASE dswin_StateAction
  <2>1. CASE ResetRing
    <3>1. Abstract!Reset
      BY <1>2, <2>1, ResetQueue DEF dswin_StateAction, Abstract!Reset
    <3> QED
      BY <3>1 DEF Abstract!Next
  <2>2. CASE UNCHANGED ringVars
    BY <1>2, <2>2, SameQueue DEF dswin_StateAction, Abstract!absVars
  <2> QED
    BY <1>2, <2>1, <2>2 DEF dswin_StateAction
<1>3. ASSUME NEW clock \in Clocks, DSound_Send0(clock)
      PROVE  [Abstract!Next]_(Abstract!absVars)
  <2>1. UNCHANGED ringVars /\ out' = out
    BY <1>3, Zenon DEF DSound_Send0
  <2> QED
    BY <2>1, SameQueue DEF Abstract!absVars
<1>4. ASSUME NEW want \in 0 .. MaxWant, CallBack(want) PROVE Abstract!Next
  <2>1. Abstract!Ask
    BY <1>4, SameQueue DEF CallBack, Abstract!Ask
  <2> QED
    BY <2>1 DEF Abstract!Next
<1> QED
  BY <1>1, <1>2, <1>3, <1>4, SendImplements, AnswerImplements DEF Next

(* Every frame is heard once and in order, the oldest are lost and only    *)
(* when the ring is full, and silence is heard only when nothing was left, *)
(* for every capacity and demand.                                          *)
THEOREM ImplementsFifo == SoundSpec => HeardInOrder
<1>1. SoundInit => Abstract!Init
  BY InitialQueue DEF SoundInit
<1>2. IInv /\ [SoundNext]_soundVars => [Abstract!Next]_(Abstract!absVars)
  <2> SUFFICES ASSUME IInv, [SoundNext]_soundVars PROVE [Abstract!Next]_(Abstract!absVars)
    OBVIOUS
  <2>1. UNCHANGED vars => UNCHANGED Abstract!absVars
    BY SameQueue DEF vars, Abstract!absVars
  <2>2. Next => [Abstract!Next]_(Abstract!absVars)
    BY RingImplements DEF IInv
  <2> QED
    BY <2>1, <2>2 DEF SoundNext, soundVars
<1> QED
  BY <1>1, <1>2, InvariantHolds, PTL DEF SoundSpec, HeardInOrder, Abstract!Spec

=============================================================================
