------------------------------- MODULE MCSound -------------------------------
(***************************************************************************)
(* What is heard: the ring of frames that the frontend plays (PcmRing) and *)
(* the bytes that the synthesizer is sent (Midi).  They have no state in   *)
(* common; one of the two, chosen at first, works and the other rests.     *)
(*                                                                         *)
(* A ring of three frames: a line of video makes up to five of them, more  *)
(* than fit, and the frontend asks for up to four.  A queue of two bytes,  *)
(* which three may be written to before one's time has passed, and         *)
(* exclusive messages of up to four; a byte for each way MIDI_Message goes.*)
(***************************************************************************)
EXTENDS PcmRing

CONSTANTS Byte, MIDIDELAYBUF, MIDIBUFFERS, MaxBuffered

ASSUME ByteAssumption ==
  Byte \subseteq {"80", "c0", "f0", "f1", "f2", "f3", "f6", "00", "01", "7f", "f4", "f7", "f8"}
ASSUME BufferAssumption ==
  /\ MIDIDELAYBUF \in Nat \ {0} /\ MaxBuffered \in Nat
  /\ MIDIBUFFERS \in Nat /\ MIDIBUFFERS > 3

MCClocks == {0, 1, 7}
MCSounds == {"a", "b"}

VARIABLES
  works,                \* the half that does: "frames" or "midi"
  MIDI_Buffered, DelayBuf, midi, sent, stream

midiVars == <<MIDI_Buffered, DelayBuf, midi, sent, stream>>
soundVars == <<works, vars, midiVars>>

MIDI == INSTANCE Midi

SoundInit == works \in {"frames", "midi"} /\ Init /\ MIDI!Init

SoundNext ==
  \/ works = "frames" /\ Next /\ UNCHANGED <<works, midiVars>>
  \/ works = "midi" /\ MIDI!Next /\ UNCHANGED <<works, vars>>

(* The fairness of PcmRing and of Midi, each for the half that works.      *)
SoundSpec ==
  /\ SoundInit /\ [][SoundNext]_soundVars
  /\ WF_soundVars(works = "frames" /\ sound_send /\ UNCHANGED <<works, midiVars>>)
  /\ WF_soundVars(works = "frames" /\ raudio_callback /\ UNCHANGED <<works, midiVars>>)
  /\ WF_soundVars(works = "midi" /\ MIDI!MIDI_Timer /\ UNCHANGED <<works, vars>>)

-----------------------------------------------------------------------------
(* The variables of both halves stay in their ranges (PcmRing.TypeOK,      *)
(* Midi.TypeOK): no message outgrows its buffer.                           *)
TypesOK == TypeOK /\ MIDI!TypeOK

(* The synthesizer is given each message that the bytes sent make up,      *)
(* whole and once (Midi.SendsWhatIsReceived).                              *)
SendsWhatIsReceived == MIDI!SendsWhatIsReceived

(* Bytes in the ring keep leaving it (Midi.BytesAreSent).                  *)
BytesAreSent == MIDI!BytesAreSent

=============================================================================
