------------------------------- MODULE MCSASI -------------------------------
(* One device whose second unit may have an image, blocks of two bytes, a  *)
(* file of one or two blocks that may grow to two.                         *)
EXTENDS SASI

MCTarget == {0}
MCDrive == {<<0, 1>>}
MCByte == {0, 1}
=============================================================================
