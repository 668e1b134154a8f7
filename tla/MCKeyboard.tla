----------------------------- MODULE MCKeyboard -----------------------------
(* One ordinary key and SHIFT, reached from everywhere; one event waiting. *)
EXTENDS Keyboard

MCCode == {"a", "SHIFT"}
MCModifier == {"SHIFT"}
MCRepeating == {"a"}
MCKeyTable == [a |-> "a"]
MCKeyTable1 == << >>
MCJoy2KeyMap == [B |-> "a", A |-> "none", L2 |-> "osd"]
MCAuxCode == [A |-> "a"]

(* Two pads without that button.                                           *)
MCJoy2KeyMap2 == [B |-> "a", L2 |-> "osd"]
MCAuxCode2 == << >>
=============================================================================
