----------------------------- MODULE PriorityIrq ----------------------------
(***************************************************************************)
(* What interrupt delivery promises, without callbacks, latches or device  *)
(* registers: levels pend, and the CPU only ever takes the highest one     *)
(* that pends, when it exceeds the mask or is level 7.  Taking a level     *)
(* raises the mask to it.  The level may pend again at once, because the   *)
(* device that answers has more to report; no other level is touched.      *)
(***************************************************************************)
EXTENDS Integers

VARIABLES pending, mask

absVars == <<pending, mask>>

Level == 1 .. 7

Init == pending = {} /\ mask = 7

Raise(l) == pending' = pending \union {l} /\ UNCHANGED mask

Withdraw(l) == pending' = pending \ {l} /\ UNCHANGED mask

Take(l) ==
  /\ l \in pending
  /\ \A o \in pending : o <= l
  /\ l = 7 \/ l > mask
  /\ \/ pending' = pending \ {l}
     \/ pending' = pending
  /\ mask' = l

SetMask(m) == mask' = m /\ UNCHANGED pending

Reset == pending' = {} /\ mask' = 7

Next ==
  \/ \E l \in Level : Raise(l) \/ Withdraw(l) \/ Take(l)
  \/ \E m \in 0 .. 7 : SetMask(m)
  \/ Reset

Spec == Init /\ [][Next]_absVars

=============================================================================
