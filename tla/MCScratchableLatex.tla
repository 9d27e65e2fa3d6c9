------------------------- MODULE MCScratchableLatex -------------------------
(* Instances of ScratchableLatex for TLC.                                   *)
EXTENDS ScratchableLatex
=============================================================================
