--------------------------- MODULE MCInterrupts -----------------------------
(* Two MFP channels of different banks, two DMA channels, and the two      *)
(* floppy sources that share level 1.                                      *)
EXTENDS Interrupts

MCChannel == {3, 11}
MCSource == {"FDC", "FDD"}
MCMask == {0, 7}
MCEnableChoice == {{}, {"FDC", "FDD"}}
MCDmaUsed == {0, 2}
=============================================================================
