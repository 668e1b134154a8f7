---------------------------- MODULE MCZipOverlay ----------------------------
(* Two blocks, and room in the journal for two flushes of both and one     *)
(* more, each of which may be cut.                                         *)
EXTENDS ZipOverlay

MCValue == {"archive", "a"}
=============================================================================
