------------------------------- MODULE MCFDC -------------------------------
(* One drive; a D88 image that may be written, with a sector on each side, *)
(* and a protected XDF image with two sectors on the first side; sectors   *)
(* of two bytes.                                                           *)
EXTENDS FDC, TLC

At(h, r) == <<h, [c |-> 0, h |-> h, r |-> r]>>

MCDrive == {0}
MCFile == {"A", "B"}
MCFormat == [A |-> "D88", B |-> "XDF"]
MCProtected == {"B"}
MCContents ==
  [A |-> (At(0, 1) :> <<0, 1>>) @@ (At(1, 1) :> <<1, 1>>),
   B |-> (At(0, 1) :> <<2, 1>>) @@ (At(0, 2) :> <<2, 2>>)]
MCFill == <<3, 3>>
MCByte == {3}
MCCylinders == {0, 1}

(* Both sides, and the sectors of the first, of which the D88 image lacks  *)
(* the second.                                                             *)
MCTransfers ==
  {[mt |-> TRUE, hd |-> 0, c |-> 0, h |-> 0, r |-> 1, eot |-> 1],
   [mt |-> FALSE, hd |-> 0, c |-> 0, h |-> 0, r |-> 1, eot |-> 2]}
MCFormats == {[hd |-> 1, id |-> [c |-> 0, h |-> 1, r |-> 1]]}
=============================================================================
