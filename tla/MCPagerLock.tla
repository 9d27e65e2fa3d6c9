----------------------------- MODULE MCPagerLock -----------------------------
(* Connections of one process, one of them the main thread's. *)
EXTENDS PagerLock
CONSTANTS f1, f2, a
Home == [f \in File |-> a]
=============================================================================
