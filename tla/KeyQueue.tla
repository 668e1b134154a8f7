------------------------------ MODULE KeyQueue ------------------------------
(***************************************************************************)
(* What the keyboard promises the emulated program: key events arrive in   *)
(* the order in which they were sent, each once, and only an event that    *)
(* finds Capacity others waiting is lost.                                  *)
(***************************************************************************)
EXTENDS Integers, Sequences

CONSTANTS
  Event,                \* a make or break code
  Lost,                 \* what shows in place of an event that is lost
  Capacity              \* events that can always wait

VARIABLES
  waiting,              \* events sent and not read
  last                  \* the event read last, or Lost when one sent after it
                        \* was lost

Init == waiting = << >> /\ last \notin Event \union {Lost}

Send(event) ==
  /\ waiting' = Append(waiting, event)
  /\ UNCHANGED last

Lose ==
  /\ Len(waiting) >= Capacity
  /\ last' = Lost
  /\ UNCHANGED waiting

Read ==
  /\ waiting # << >>
  /\ waiting' = Tail(waiting)
  /\ last' = Head(waiting)

Reset == waiting' = << >> /\ UNCHANGED last

Next == (\E event \in Event : Send(event)) \/ Lose \/ Read \/ Reset

Spec == Init /\ [][Next]_<<waiting, last>>

=============================================================================
