--------------------------- MODULE DropOldestFifo ---------------------------
(***************************************************************************)
(* What the sound buffer promises, without indices: a queue of at most     *)
(* Capacity frames.  A frame is heard once, in the order it was made; the  *)
(* oldest frames are given up when the queue is full, and at no other      *)
(* time; silence is made up when the queue is empty, and at no other time. *)
(***************************************************************************)
EXTENDS Integers, Sequences

CONSTANTS Capacity, Cushion, Sound, Silence

VARIABLES
  queue,                \* the frames made and not heard
  out                   \* what the frontend was given in its last call

absVars == <<queue, out>>

Silent(n) == [i \in 1 .. n |-> Silence]
Upto(n) == UNION {[1 .. k -> Sound] : k \in 1 .. n}

Init == queue = Silent(Cushion) /\ out = << >>

Reset == queue' = Silent(Cushion) /\ UNCHANGED out

Make ==
  /\ \E s \in Upto(Capacity - Len(queue)) : queue' = queue \o s
  /\ UNCHANGED out

GiveUp ==
  /\ Len(queue) = Capacity
  /\ \E n \in 1 .. Capacity : queue' = SubSeq(queue, n + 1, Capacity)
  /\ UNCHANGED out

Ask == out' = << >> /\ UNCHANGED queue

Hear ==
  \E n \in 1 .. Len(queue) :
    /\ out' = out \o SubSeq(queue, 1, n)
    /\ queue' = SubSeq(queue, n + 1, Len(queue))

Underrun ==
  /\ queue = << >>
  /\ out' = out \o Silent(Len(out') - Len(out))
  /\ UNCHANGED queue

Next == Reset \/ Make \/ GiveUp \/ Ask \/ Hear \/ Underrun

Spec == Init /\ [][Next]_absVars

=============================================================================
