----------------------------- MODULE MCFileLock -----------------------------
(* Three connections of one process, one of them the main thread's, and one  *)
(* of another process; three of the four have the file open at once, and two *)
(* once a wait has timed out.                                                *)
EXTENDS FileLock, TLC
CONSTANTS f1, f2, f3, f4, a, b
Home == (f1 :> a) @@ (f2 :> a) @@ (f3 :> a) @@ (f4 :> b)
Alike == Permutations({f1, f3})
FewOpen == /\ Cardinality(open) <= 3
           /\ timeouts > 0 => Cardinality(open) <= 2
=============================================================================
