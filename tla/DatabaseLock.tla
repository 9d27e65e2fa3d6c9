---------------------------- MODULE DatabaseLock ----------------------------
(***************************************************************************)
(* What the five lock levels of a database file promise to the connections *)
(* that use it, whatever process each of them belongs to: many readers, at *)
(* most one RESERVED lock, at most one PENDING lock, and an EXCLUSIVE lock *)
(* that is alone.  FileLock.tla implements it.                             *)
(***************************************************************************)
EXTENDS Naturals

CONSTANT File
VARIABLE mode              \* [File -> 0..4], the level each connection holds

NO_LOCK == 0
SHARED == 1
RESERVED == 2
PENDING == 3
EXCLUSIVE == 4

Init == mode = [f \in File |-> NO_LOCK]

OthersAtMost(f, level) == \A g \in File \ {f} : mode[g] <= level

Shared(f) == /\ mode[f] = NO_LOCK
             /\ OthersAtMost(f, PENDING)
             /\ mode' = [mode EXCEPT ![f] = SHARED]

Reserved(f) == /\ mode[f] = SHARED
               /\ \A g \in File \ {f} : mode[g] \notin {RESERVED, EXCLUSIVE}
               /\ mode' = [mode EXCEPT ![f] = RESERVED]

\* PENDING may be taken from SHARED, without RESERVED, and even beside the
\* RESERVED lock of another process.
Pending(f) == /\ mode[f] \in {SHARED, RESERVED}
              /\ OthersAtMost(f, RESERVED)
              /\ mode' = [mode EXCEPT ![f] = PENDING]

Exclusive(f) == /\ mode[f] \in {SHARED, RESERVED, PENDING}
                /\ OthersAtMost(f, NO_LOCK)
                /\ mode' = [mode EXCEPT ![f] = EXCLUSIVE]

Lower(f) == \E level \in {NO_LOCK, SHARED} :
               /\ level < mode[f]
               /\ mode' = [mode EXCEPT ![f] = level]

Next == \E f \in File :
           Shared(f) \/ Reserved(f) \/ Pending(f) \/ Exclusive(f) \/ Lower(f)

Spec == Init /\ [][Next]_mode
=============================================================================
