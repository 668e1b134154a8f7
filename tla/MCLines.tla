------------------------------ MODULE MCLines -------------------------------
(***************************************************************************)
(* The two serial lines to the program: the keyboard's (KeyLine) and the   *)
(* mouse's (SCC).  They share the interrupt handler and the CPU; what      *)
(* devices do to each other there is module Interrupts' subject, so one of *)
(* the two, chosen at first, works and the other rests.                    *)
(*                                                                         *)
(* One key, a ring of four slots and the keyboard's channel of the MFP; a  *)
(* mouse of half counts, and packets that hold counts of -1 and 0.         *)
(***************************************************************************)
EXTENDS SCC, KeyRing

CONSTANT Channel

(* KeyLine's own assumption on its constant.                               *)
ASSUME LinesAssumption == Channel \subseteq 0 .. 15

MCChannel == {3}
MCCode == {"a"}
MCMotion == {-1, 1}

(* Just more than a packet can hold, either way.                           *)
MCSums == -4 .. 2

VARIABLES
  works,                \* the line that does: "keys" or "mouse"
  IER, IPR, IMR, ISR, VR_S, ring, LastKey, KeyIntFlag, withdrawn, last

keyLineVars == <<IER, IPR, IMR, ISR, VR_S, ring, LastKey, KeyIntFlag, withdrawn, last>>
mouseVars == <<MouseDX, SCC_Dat, SCC_Regs, SCC_RegNum, owed>>
lineVars == <<works, vars, keyLineVars>>

Keys == INSTANCE KeyLine

LinesInit ==
  /\ works \in {"keys", "mouse"}
  /\ Init /\ Keys!Init

LinesNext ==
  \/ works = "keys" /\ Keys!Next /\ UNCHANGED <<works, mouseVars>>
  \/ works = "mouse" /\ Next /\ UNCHANGED <<works, keyLineVars>>

(* The fairness of KeyLine and of SCC, each for the line that works.       *)
Accepts ==
  \/ works = "keys" /\ Keys!CpuAccept /\ UNCHANGED <<works, mouseVars>>
  \/ works = "mouse" /\ CpuAccept /\ UNCHANGED <<works, keyLineVars>>

ServiceReads ==
  /\ serving = "entered"
  /\ \/ works = "keys" /\ Keys!ReadUDR /\ UNCHANGED <<works, mouseVars>>
     \/ works = "mouse" /\ ReadData /\ UNCHANGED <<works, keyLineVars>>

ServiceEnds ==
  \/ works = "keys" /\ Keys!EndService /\ UNCHANGED <<works, mouseVars>>
  \/ works = "mouse" /\ EndService /\ UNCHANGED <<works, keyLineVars>>

Checks == works = "mouse" /\ SCC_IntCheck /\ UNCHANGED <<works, keyLineVars>>

LinesSpec ==
  /\ LinesInit /\ [][LinesNext]_lineVars
  /\ []<>(serving # "no" \/ (flag_I = 0 /\ (works = "keys" => Keys!LetsThrough)))
  /\ SF_lineVars(Accepts)
  /\ WF_lineVars(ServiceReads) /\ WF_lineVars(ServiceEnds) /\ WF_lineVars(Checks)

-----------------------------------------------------------------------------
(* The variables of both lines stay in their ranges, and a data register   *)
(* that waits holds an event (SCC.TypeOK, KeyLine.TypeOK).                 *)
TypesOK == TypeOK /\ Keys!TypeOK

(* The program reads the keys that were sent, in order and once            *)
(* (KeyLine.ReadInOrder).                                                  *)
ReadInOrder == Keys!ReadInOrder

(* A key event that reaches the data register is read, unless the program  *)
(* gave it up (KeyLine.EventsAreRead).                                     *)
EventsAreRead == Keys!EventsAreRead

=============================================================================
