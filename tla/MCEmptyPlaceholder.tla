------------------------- MODULE MCEmptyPlaceholder -------------------------
(* Instances of EmptyPlaceholder for TLC.                                   *)
EXTENDS EmptyPlaceholder
=============================================================================
