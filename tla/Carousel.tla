------------------------------ MODULE Carousel -------------------------------
(***************************************************************************)
(* ZCycleView: an endless carousel made of a collection view that is not    *)
(* endless.  It holds every picture Laps times and is moved back to the     *)
(* middle, unnoticed, when it gets to either end.  A timer scrolls it on;   *)
(* the user drags it; layout and new pictures reset it; and it may enter    *)
(* and leave its window at any moment.                                      *)
(*                                                                          *)
(* The app leaves isInfinite and isAutomatic at their defaults, true.       *)
(***************************************************************************)
EXTENDS Integers

CONSTANTS
    MaxPictures,  \* number of pictures at most
    Laps,         \* 200 in the code
    MaxResets     \* layouts and new pictures in a run at most

ASSUME LapsAssumption == Laps \in Nat \ {0} /\ Laps % 2 = 0

ASSUME BoundAssumption == MaxPictures \in Nat /\ MaxResets \in Nat

VARIABLES
    realDataCount,  \* number of pictures
    itemsCount,     \* number of items of the collection view
    index,          \* currentIndex(): the content offset in items, rounded
    target,         \* item an animated or decelerating scroll goes to, or NoTarget
    currentPage,    \* pageControl.currentPage
    timers,         \* timers scheduled; the last one is in timer
    dragging,       \* a finger holds the collection view
    inWindow,       \* the view is in a window
    resets          \* layouts and new pictures so far

vars == <<realDataCount, itemsCount, index, target, currentPage, timers,
          dragging, inWindow, resets>>

NoTarget == -1

TypeOK ==
    /\ realDataCount \in 0..MaxPictures
    /\ itemsCount \in Nat
    /\ index \in Nat
    /\ target \in Nat \cup {NoTarget}
    /\ currentPage \in Nat
    /\ timers \in Nat
    /\ dragging \in BOOLEAN
    /\ inWindow \in BOOLEAN
    /\ resets \in 0..MaxResets

-----------------------------------------------------------------------------
Items(n) == IF n <= 1 THEN n ELSE n * Laps

(* scrollToItem(animated: false) back to the middle, from the first item ... *)
DealFirstPage_Next(i, items) ==  \* mutant: the item after the middle
    IF i = 0 /\ items > 1 THEN items \div 2 + 1 ELSE i

DealFirstPage(i, items) ==
    IF i = 0 /\ items > 1 THEN items \div 2 ELSE i

(* ... and from the last.                                                   *)
DealLastPage(i, items) ==
    IF i = items - 1 /\ items > 1 THEN items \div 2 - 1 ELSE i

(* scrollViewDidScroll.                                                     *)

ScrollTo(i, n) ==
    /\ index' = i
    /\ currentPage' = IF n = 0 THEN 0 ELSE i % n

StartedTimer_Added(old, items) ==  \* mutant: the old timer is not cancelled
    IF items <= 1 THEN old ELSE old + 1

CancelledTimer(old) == IF old > 0 THEN old - 1 ELSE old

(* startTimer: nothing for a single item; else cancelTimer and a new timer. *)
StartedTimer(old, items) ==
    IF items <= 1 THEN old ELSE CancelledTimer(old) + 1

-----------------------------------------------------------------------------
Init ==
    /\ realDataCount = 0
    /\ itemsCount = 0
    /\ index = 0
    /\ target = NoTarget
    /\ currentPage = 0
    /\ timers = 0
    /\ dragging = FALSE
    /\ inWindow = FALSE
    /\ resets = 0

(* The cell around the carousel is given its pictures; none are ignored.    *)
SetUrlsGroup(n) ==
    /\ resets < MaxResets
    /\ n > 0
    /\ realDataCount' = n
    /\ itemsCount' = Items(n)
    /\ ScrollTo(DealFirstPage(0, itemsCount'), n)
    /\ target' = NoTarget
    /\ timers' = StartedTimer(timers, itemsCount')
    /\ resets' = resets + 1
    /\ UNCHANGED <<dragging, inWindow>>

LayoutSubviews ==
    /\ resets < MaxResets
    /\ ScrollTo(DealFirstPage(0, itemsCount), realDataCount)
    /\ target' = NoTarget
    /\ resets' = resets + 1
    /\ UNCHANGED <<realDataCount, itemsCount, timers, dragging, inWindow>>

WillMoveToWindow ==
    /\ inWindow' = ~inWindow
    /\ timers' = IF inWindow' THEN StartedTimer(timers, itemsCount)
                              ELSE CancelledTimer(timers)
    /\ UNCHANGED <<realDataCount, itemsCount, index, target, currentPage,
                   dragging, resets>>

(* A touch ends an animated scroll where it is.                             *)
WillBeginDragging ==
    /\ inWindow
    /\ ~dragging
    /\ itemsCount > 1
    /\ dragging' = TRUE
    /\ timers' = CancelledTimer(timers)
    /\ ScrollTo(DealFirstPage(DealLastPage(index, itemsCount), itemsCount),
                realDataCount)
    /\ target' = NoTarget
    /\ UNCHANGED <<realDataCount, itemsCount, inWindow, resets>>

(* The finger moves the carousel by an item; it does not bounce.            *)
Drag ==
    /\ dragging
    /\ \E i \in {index - 1, index + 1} \cap 0..(itemsCount - 1) :
          ScrollTo(i, realDataCount)
    /\ target' = NoTarget
    /\ UNCHANGED <<realDataCount, itemsCount, timers, dragging, inWindow, resets>>

(* Where the carousel may come to rest after a drag: the layout snaps it to *)
(* the item nearest to where it would have stopped.                         *)
Rest == {NoTarget} \cup ({index - 1, index + 1} \cap 0..(itemsCount - 1))

(* Mutant: the timer stays off after a drag.                                *)
DidEndDragging_TimerOff ==
    /\ dragging
    /\ dragging' = FALSE
    /\ target' \in Rest
    /\ UNCHANGED <<realDataCount, itemsCount, index, currentPage, timers,
                   inWindow, resets>>

DidEndDragging ==
    /\ dragging
    /\ dragging' = FALSE
    /\ target' \in Rest
    /\ timers' = StartedTimer(timers, itemsCount)
    /\ UNCHANGED <<realDataCount, itemsCount, index, currentPage, inWindow,
                   resets>>

(* Mutant: the last item is left like any other.                            *)
TimeRepeat_NoWrap ==
    /\ timers > 0
    /\ target' = index + 1
    /\ UNCHANGED <<realDataCount, itemsCount, index, currentPage, timers,
                   dragging, inWindow, resets>>

(* A timer fires: an animated scroll to the next item starts.               *)
TimeRepeat ==
    /\ timers > 0
    /\ IF index = itemsCount - 1
       THEN /\ ScrollTo(DealLastPage(index, itemsCount), realDataCount)
            /\ target' = itemsCount \div 2
       ELSE /\ target' = index + 1
            /\ UNCHANGED <<index, currentPage>>
    /\ UNCHANGED <<realDataCount, itemsCount, timers, dragging, inWindow, resets>>

(* The animated scroll, or the deceleration after a drag, gets there.       *)
DidEndScrollingAnimation ==
    /\ target # NoTarget
    /\ ScrollTo(target, realDataCount)
    /\ target' = NoTarget
    /\ UNCHANGED <<realDataCount, itemsCount, timers, dragging, inWindow, resets>>

Next == \/ \E n \in 0..MaxPictures : SetUrlsGroup(n)
        \/ LayoutSubviews
        \/ WillMoveToWindow
        \/ WillBeginDragging
        \/ Drag
        \/ DidEndDragging
        \/ TimeRepeat
        \/ DidEndScrollingAnimation

Spec == Init /\ [][Next]_vars

(* The run loop fires the timer in its common modes, and UIKit ends         *)
(* animations.  The user owes nothing.                                      *)
Fairness == WF_vars(TimeRepeat) /\ WF_vars(DidEndScrollingAnimation)

FairSpec == Spec /\ Fairness

-----------------------------------------------------------------------------
(***************************************************************************)
(*                               Properties                                 *)
(***************************************************************************)

picture == IF realDataCount = 0 THEN 0 ELSE index % realDataCount

(* The collection view is never scrolled to an item it does not have, by    *)
(* whatever order of timer, drags, layouts and shrinking picture lists;     *)
(* UICollectionView throws for such an item.  timeRepeat, dealLastPage.     *)
ScrollsWithinItems ==
    /\ itemsCount > 0 => index < itemsCount
    /\ target < itemsCount

(* There is at most one timer, however often the carousel enters its        *)
(* window, is dragged and gets pictures; two would scroll twice as fast and *)
(* one of them could never be cancelled.  startTimer.                       *)
AtMostOneTimer == timers <= 1

(* The dot that is lit is that of the picture that shows, across the jumps  *)
(* to the middle and changes of the number of pictures.                     *)
(* scrollViewDidScroll, setResource.                                        *)
LitDotIsPicture == currentPage = picture

(* The jumps to the middle are not to be seen: what shows is a ring.        *)
(* dealFirstPage, dealLastPage.                                             *)
Ring == INSTANCE CarouselRing WITH count <- realDataCount

ImplementsRing == Ring!Spec

(* Left alone, a carousel shows each of its pictures again and again.       *)
(* startTimer after drags, window changes and new pictures, timeRepeat.     *)
LeftAlone == inWindow /\ ~dragging

EveryPictureShows ==
    \A p \in 0..(MaxPictures - 1) :
        <>[]LeftAlone => []<>(p < realDataCount => picture = p)

=============================================================================
