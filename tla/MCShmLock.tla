----------------------------- MODULE MCShmLock -----------------------------
(* Two connections of one process and one of another. *)
EXTENDS ShmLock, TLC
CONSTANTS c1, c2, c3, a, b
Home == (c1 :> a) @@ (c2 :> a) @@ (c3 :> b)
=============================================================================
