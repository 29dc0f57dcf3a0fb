------------------------ MODULE MCExtractionAttempts ------------------------
(***************************************************************************)
(* Instances of ExtractionAttempts for TLC.                                *)
(***************************************************************************)
EXTENDS ExtractionAttempts

CONSTANTS w1, w2, u1, j1
=============================================================================
