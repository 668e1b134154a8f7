------------------------------- MODULE MCDMAC -------------------------------
(* One channel: the four share nothing but DMA_IntCH, which Interrupts     *)
(* models with several.  Every kind of transfer, both directions, at the   *)
(* maximum rate and at the device's.                                       *)
EXTENDS DMAC

MCUsedCh == {0}
MCModes == {[toMemory |-> FALSE, chained |-> FALSE, link |-> FALSE, req |-> 1],
            [toMemory |-> TRUE, chained |-> TRUE, link |-> FALSE, req |-> 1],
            [toMemory |-> FALSE, chained |-> TRUE, link |-> TRUE, req |-> 2]}
=============================================================================
