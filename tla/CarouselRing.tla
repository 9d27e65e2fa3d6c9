---------------------------- MODULE CarouselRing -----------------------------
(***************************************************************************)
(* What a carousel promises: its pictures form a ring.  One picture shows;  *)
(* it changes only to a neighbour on the ring, or to the first one when the *)
(* carousel is given pictures or laid out anew.                             *)
(***************************************************************************)
EXTENDS Integers

CONSTANTS
    MaxPictures  \* number of pictures at most

VARIABLES
    count,    \* number of pictures
    picture,  \* the one that shows
    resets    \* how often the carousel was reset

Init == count = 0 /\ picture = 0 /\ resets = 0

Reset ==
    /\ count' \in {count} \cup 1..MaxPictures
    /\ picture' = 0
    /\ resets' = resets + 1

Turn ==
    /\ count > 0
    /\ picture' \in {(picture + 1) % count, (picture + count - 1) % count}
    /\ UNCHANGED <<count, resets>>

Next == Reset \/ Turn

Spec == Init /\ [][Next]_<<count, picture, resets>>

=============================================================================
