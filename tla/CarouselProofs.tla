--------------------------- MODULE CarouselProofs ----------------------------
(***************************************************************************)
(* Proofs about Carousel for any number of pictures, any even number of     *)
(* laps and any number of resets.                                           *)
(***************************************************************************)
EXTENDS Carousel, TLAPS

-----------------------------------------------------------------------------
(* Arithmetic: the remainder of a division is unique.                       *)

LEMMA MultPos ==
    ASSUME NEW n \in Nat \ {0}, NEW k \in Int, k >= 1
    PROVE  n * k >= n
OBVIOUS

LEMMA MultNeg ==
    ASSUME NEW n \in Nat \ {0}, NEW k \in Int, k <= -1
    PROVE  n * k <= -n
OBVIOUS

LEMMA MultInt ==
    ASSUME NEW n \in Int, NEW a \in Int, NEW b \in Int
    PROVE  /\ n * a \in Int
           /\ n * a - n * b = n * (a - b)
           /\ n * a + n = n * (a + 1)
           /\ n * a - n = n * (a - 1)
           /\ n * 0 = 0 /\ n * 1 = n
OBVIOUS

LEMMA DivMod ==
    ASSUME NEW n \in Nat \ {0}, NEW x \in Int
    PROVE  /\ x % n \in 0..(n - 1)
           /\ x \div n \in Int
           /\ x = n * (x \div n) + (x % n)
OBVIOUS

LEMMA ModUnique ==
    ASSUME NEW n \in Nat \ {0}, NEW q \in Int, NEW r \in 0..(n - 1),
           NEW x \in Int, x = n * q + r
    PROVE  x % n = r
<1> DEFINE p == x \div n
           s == x % n
<1>1. s \in 0..(n - 1) /\ p \in Int /\ x = n * p + s
  BY DivMod
<1> HIDE DEF p, s
<1>2. n * (q - p) = s - r
  <2>1. n * q - n * p = n * (q - p) /\ n * q \in Int /\ n * p \in Int
    BY <1>1, MultInt
  <2> QED
    BY <1>1, <2>1
<1>3. ~(q - p >= 1)
  BY <1>1, <1>2, MultPos
<1>4. ~(q - p <= -1)
  BY <1>1, <1>2, MultNeg
<1>5. q - p = 0
  BY <1>1, <1>3, <1>4
<1>6. s = r
  BY <1>1, <1>2, <1>5, MultInt
<1> QED
  BY <1>6 DEF s

(* The item after one shows the next picture on the ring, and the item      *)
(* before one the previous.                                                 *)
LEMMA NextPicture ==
    ASSUME NEW n \in Nat \ {0}, NEW i \in Nat
    PROVE  (i + 1) % n = ((i % n) + 1) % n
<1> DEFINE q == i \div n
           r == i % n
<1>1. r \in 0..(n - 1) /\ q \in Int /\ i = n * q + r
  BY DivMod
<1> HIDE DEF q, r
<1>2. n * q \in Int /\ n * q + n = n * (q + 1) /\ n * 0 = 0 /\ n * 1 = n
  BY <1>1, MultInt
<1>3. CASE r + 1 < n
  <2>1. r + 1 \in 0..(n - 1) /\ i + 1 = n * q + (r + 1) /\ r + 1 = n * 0 + (r + 1)
    BY <1>1, <1>2, <1>3
  <2>2. (i + 1) % n = r + 1
    BY <1>1, <2>1, ModUnique
  <2>3. (r + 1) % n = r + 1
    BY <1>1, <2>1, ModUnique
  <2> QED
    BY <2>2, <2>3 DEF r
<1>4. CASE r + 1 = n
  <2>1. i + 1 = n * (q + 1) + 0 /\ r + 1 = n * 1 + 0 /\ 0 \in 0..(n - 1)
    BY <1>1, <1>2, <1>4
  <2>2. (i + 1) % n = 0
    BY <1>1, <2>1, ModUnique
  <2>3. (r + 1) % n = 0
    BY <1>1, <2>1, ModUnique
  <2> QED
    BY <2>2, <2>3 DEF r
<1> QED
  BY <1>1, <1>3, <1>4

LEMMA PreviousPicture ==
    ASSUME NEW n \in Nat \ {0}, NEW i \in Nat \ {0}
    PROVE  (i - 1) % n = ((i % n) + n - 1) % n
<1> DEFINE q == i \div n
           r == i % n
<1>1. r \in 0..(n - 1) /\ q \in Int /\ i = n * q + r
  BY DivMod
<1> HIDE DEF q, r
<1>2. n * q \in Int /\ n * q - n = n * (q - 1) /\ n * 0 = 0 /\ n * 1 = n
  BY <1>1, MultInt
<1>3. CASE r > 0
  <2>1. /\ r - 1 \in 0..(n - 1)
        /\ i - 1 = n * q + (r - 1)
        /\ r + n - 1 = n * 1 + (r - 1)
    BY <1>1, <1>2, <1>3
  <2>2. (i - 1) % n = r - 1
    BY <1>1, <2>1, ModUnique
  <2>3. (r + n - 1) % n = r - 1
    BY <1>1, <2>1, ModUnique
  <2> QED
    BY <2>2, <2>3 DEF r
<1>4. CASE r = 0
  <2>1. /\ n - 1 \in 0..(n - 1)
        /\ i - 1 = n * (q - 1) + (n - 1)
        /\ r + n - 1 = n * 0 + (n - 1)
    BY <1>1, <1>2, <1>4
  <2>2. (i - 1) % n = n - 1
    BY <1>1, <2>1, ModUnique
  <2>3. (r + n - 1) % n = n - 1
    BY <1>1, <2>1, ModUnique
  <2> QED
    BY <2>2, <2>3 DEF r
<1> QED
  BY <1>1, <1>3, <1>4

-----------------------------------------------------------------------------
(* The items of n pictures: the middle shows the first picture, the item    *)
(* before it and the last item show the last one.                           *)
LEMMA ItemsOfPictures ==
    ASSUME NEW n \in Nat \ {0}
    PROVE  LET m == Items(n)
           IN  /\ m \in Nat \ {0}
               /\ (m - 1) % n = n - 1
               /\ 0 % n = 0
               /\ m > 1 => /\ m \div 2 \in 1..(m - 1)
                           /\ (m \div 2) % n = 0
                           /\ (m \div 2 - 1) % n = n - 1
<1> DEFINE m == Items(n)
           h == Laps \div 2
<1>1. h \in Nat \ {0} /\ Laps = 2 * h
  BY LapsAssumption
<1>2. CASE n = 1
  <2>1. m = 1
    BY <1>2 DEF Items
  <2> QED
    BY <1>2, <2>1
<1>3. CASE n > 1
  <2>1. m = n * (2 * h)
    BY <1>1, <1>3 DEF Items
  <2> HIDE DEF h, m
  <2>2. n * (2 * h) = 2 * (n * h) /\ n * h \in Nat /\ n * h >= n
    BY <1>1
  <2>3. m \div 2 = n * h /\ m \in Nat \ {0} /\ n * h \in 1..(m - 1)
    BY <1>3, <2>1, <2>2
  <2>4. /\ n * (2 * h) - n = n * (2 * h - 1)
        /\ n * h - n = n * (h - 1)
        /\ n * 0 = 0
    BY <1>1, MultInt
  <2>5. /\ m - 1 = n * (2 * h - 1) + (n - 1)
        /\ n * h - 1 = n * (h - 1) + (n - 1)
        /\ n * h = n * h + 0
        /\ 0 = n * 0 + 0
        /\ n - 1 \in 0..(n - 1) /\ 0 \in 0..(n - 1)
    BY <1>3, <2>1, <2>2, <2>3, <2>4
  <2>6. (m - 1) % n = n - 1
    <3> DEFINE q == 2 * h - 1
               x == m - 1
    <3>1. q \in Int /\ x \in Int /\ n - 1 \in 0..(n - 1) /\ x = n * q + (n - 1)
      BY <1>1, <2>3, <2>5
    <3> HIDE DEF q, x
    <3>2. x % n = n - 1
      BY <3>1, ModUnique
    <3> QED
      BY <3>2 DEF x
  <2>7. (n * h - 1) % n = n - 1
    BY <1>1, <2>2, <2>5, ModUnique
  <2>8. (n * h) % n = 0
    BY <1>1, <2>2, <2>5, ModUnique
  <2>9. 0 % n = 0
    BY <2>5, ModUnique
  <2> QED
    BY <2>3, <2>6, <2>7, <2>8, <2>9 DEF m
<1> QED
  BY <1>2, <1>3

(* The jumps to the middle stay within the items and show the same picture. *)
LEMMA DealPages ==
    ASSUME NEW n \in Nat \ {0}, NEW i \in 0..(Items(n) - 1)
    PROVE  /\ DealFirstPage(i, Items(n)) \in 0..(Items(n) - 1)
           /\ DealFirstPage(i, Items(n)) % n = i % n
           /\ DealLastPage(i, Items(n)) \in 0..(Items(n) - 1)
           /\ DealLastPage(i, Items(n)) % n = i % n
<1> DEFINE m == Items(n)
<1>1. /\ m \in Nat \ {0}
      /\ (m - 1) % n = n - 1
      /\ 0 % n = 0
      /\ m > 1 => /\ m \div 2 \in 1..(m - 1)
                  /\ (m \div 2) % n = 0
                  /\ (m \div 2 - 1) % n = n - 1
  BY ItemsOfPictures
<1> HIDE DEF m
<1>2. DealFirstPage(i, m) \in 0..(m - 1) /\ DealFirstPage(i, m) % n = i % n
  BY <1>1 DEF DealFirstPage, m
<1>3. DealLastPage(i, m) \in 0..(m - 1) /\ DealLastPage(i, m) % n = i % n
  BY <1>1 DEF DealLastPage, m
<1> QED
  BY <1>2, <1>3 DEF m

-----------------------------------------------------------------------------
(* The inductive invariant.  That scrolls stay within the items needs that  *)
(* there are Items(n) of them, and that a timer has items to scroll; that   *)
(* an animated scroll turns the ring by one picture needs that its target   *)
(* stays next to the item it started from.                                  *)
Consistent ==
    /\ TypeOK
    /\ itemsCount = Items(realDataCount)
    /\ itemsCount = 0 => index = 0
    /\ ScrollsWithinItems
    /\ target \in {NoTarget, index - 1, index, index + 1}
    /\ AtMostOneTimer
    /\ timers > 0 => itemsCount > 0
    /\ LitDotIsPicture

ringVars == <<realDataCount, picture, resets>>

(* The first item, or the middle, shows the first picture.                  *)
LEMMA FirstItem ==
    ASSUME NEW n \in Nat
    PROVE  LET i == DealFirstPage(0, Items(n))
           IN  /\ i \in Nat
               /\ n = 0 => Items(n) = 0 /\ i = 0
               /\ n > 0 => Items(n) \in Nat \ {0} /\ i < Items(n) /\ i % n = 0
<1>1. CASE n = 0
  BY <1>1 DEF Items, DealFirstPage
<1>2. CASE n > 0
  <2>1. /\ Items(n) \in Nat \ {0}
        /\ 0 % n = 0
    BY <1>2, ItemsOfPictures
  <2>2. /\ DealFirstPage(0, Items(n)) \in 0..(Items(n) - 1)
        /\ DealFirstPage(0, Items(n)) % n = 0 % n
    BY <1>2, <2>1, DealPages
  <2> QED
    BY <1>2, <2>1, <2>2
<1> QED
  BY <1>1, <1>2

(* New pictures and layouts reset the ring.                                 *)
LEMMA SetUrlsGroupStep ==
    ASSUME Consistent, NEW n \in 0..MaxPictures, SetUrlsGroup(n)
    PROVE  Consistent' /\ Ring!Reset
<1> DEFINE i == DealFirstPage(0, Items(n))
<1>1. /\ i \in Nat /\ n \in Nat \ {0} /\ n \in 1..MaxPictures
      /\ Items(n) \in Nat \ {0} /\ i < Items(n) /\ i % n = 0
  BY FirstItem, BoundAssumption DEF SetUrlsGroup
<1>2. /\ realDataCount' = n /\ itemsCount' = Items(n) /\ index' = i /\ currentPage' = i % n
      /\ target' = NoTarget /\ timers' = StartedTimer(timers, Items(n))
      /\ resets' = resets + 1 /\ resets < MaxResets /\ UNCHANGED <<dragging, inWindow>>
  BY <1>1 DEF SetUrlsGroup, ScrollTo
<1> HIDE DEF i
<1>3. timers' \in Nat /\ timers' <= 1
  BY <1>2 DEF Consistent, TypeOK, AtMostOneTimer, StartedTimer, CancelledTimer
<1>4. picture' = 0
  BY <1>1, <1>2 DEF picture
<1>5. TypeOK'
  BY <1>1, <1>2, <1>3, BoundAssumption DEF Consistent, TypeOK
<1>6. ScrollsWithinItems' /\ AtMostOneTimer' /\ LitDotIsPicture'
  BY <1>1, <1>2, <1>3, <1>4 DEF ScrollsWithinItems, AtMostOneTimer, LitDotIsPicture, NoTarget
<1> QED
  BY <1>1, <1>2, <1>4, <1>5, <1>6 DEF Consistent, Ring!Reset

LEMMA LayoutStep ==
    ASSUME Consistent, LayoutSubviews
    PROVE  Consistent' /\ Ring!Reset
<1> DEFINE n == realDataCount
           i == DealFirstPage(0, Items(n))
<1>1. /\ i \in Nat /\ n \in Nat
      /\ n = 0 => Items(n) = 0 /\ i = 0
      /\ n > 0 => Items(n) \in Nat \ {0} /\ i < Items(n) /\ i % n = 0
  BY FirstItem, BoundAssumption DEF Consistent, TypeOK
<1>2. /\ index' = i /\ currentPage' = IF n = 0 THEN 0 ELSE i % n
      /\ target' = NoTarget /\ resets' = resets + 1 /\ resets < MaxResets
      /\ UNCHANGED <<realDataCount, itemsCount, timers, dragging, inWindow>>
      /\ itemsCount = Items(n)
  BY DEF LayoutSubviews, ScrollTo, Consistent
<1> HIDE DEF i
<1>3. picture' = 0 /\ currentPage' = 0
  BY <1>1, <1>2 DEF picture
<1>4. TypeOK'
  BY <1>1, <1>2, <1>3, BoundAssumption DEF Consistent, TypeOK
<1>5. ScrollsWithinItems' /\ AtMostOneTimer' /\ LitDotIsPicture'
  BY <1>1, <1>2, <1>3
  DEF Consistent, TypeOK, ScrollsWithinItems, AtMostOneTimer, LitDotIsPicture, NoTarget
<1> QED
  BY <1>1, <1>2, <1>3, <1>4, <1>5 DEF Consistent, Ring!Reset

(* The window and the end of a drag change the timer and where it rests.    *)
LEMMA TimerStep ==
    ASSUME Consistent, WillMoveToWindow \/ DidEndDragging
    PROVE  Consistent' /\ UNCHANGED ringVars
<1>1. /\ UNCHANGED <<realDataCount, itemsCount, index, currentPage, resets>>
      /\ dragging' \in BOOLEAN /\ inWindow' \in BOOLEAN
      /\ timers' \in {StartedTimer(timers, itemsCount), CancelledTimer(timers)}
      /\ target' \in {target} \cup Rest
  BY DEF WillMoveToWindow, DidEndDragging, Consistent, TypeOK
<1>5. /\ target' \in Nat \cup {NoTarget}
      /\ target' < itemsCount
      /\ target' \in {NoTarget, index - 1, index, index + 1}
  BY <1>1 DEF Consistent, TypeOK, ScrollsWithinItems, Rest, NoTarget
<1>2. timers' \in Nat /\ timers' <= 1 /\ (timers' > 0 => itemsCount > 0)
  BY <1>1 DEF Consistent, TypeOK, AtMostOneTimer, StartedTimer, CancelledTimer
<1>3. UNCHANGED ringVars /\ picture' = picture
  BY <1>1 DEF ringVars, picture
<1>4. TypeOK'
  BY <1>1, <1>2, <1>5 DEF Consistent, TypeOK
<1> QED
  BY <1>1, <1>2, <1>3, <1>4, <1>5
  DEF Consistent, ScrollsWithinItems, AtMostOneTimer, LitDotIsPicture

(* A scroll to an item that exists, without new pictures.                   *)
LEMMA ScrollStep ==
    ASSUME Consistent, NEW i \in 0..(itemsCount - 1), ScrollTo(i, realDataCount),
           target' \in {NoTarget, i, i + 1}, target' < itemsCount,
           UNCHANGED <<realDataCount, itemsCount, inWindow, resets>>,
           dragging' \in BOOLEAN, timers' \in {timers, CancelledTimer(timers)}
    PROVE  /\ Consistent'
           /\ realDataCount \in Nat \ {0}
           /\ picture' = i % realDataCount
<1>1. itemsCount \in Nat \ {0} /\ i \in Nat
  BY DEF Consistent, TypeOK
<1>2. realDataCount \in Nat \ {0}
  BY <1>1, BoundAssumption DEF Consistent, TypeOK, Items
<1>3. i % realDataCount \in Nat
  BY <1>1, <1>2, DivMod
<1>4. index' = i /\ currentPage' = i % realDataCount /\ picture' = i % realDataCount
  BY <1>2 DEF ScrollTo, picture
<1>5. timers' \in Nat /\ timers' <= 1
  BY DEF Consistent, TypeOK, AtMostOneTimer, CancelledTimer
<1>6. target' \in Nat \cup {NoTarget}
  BY <1>1 DEF NoTarget
<1>7. TypeOK'
  BY <1>1, <1>3, <1>4, <1>5, <1>6 DEF Consistent, TypeOK
<1>8. ScrollsWithinItems' /\ AtMostOneTimer' /\ LitDotIsPicture'
  BY <1>1, <1>4, <1>5 DEF ScrollsWithinItems, AtMostOneTimer, LitDotIsPicture
<1> QED
  BY <1>1, <1>2, <1>4, <1>7, <1>8 DEF Consistent

(* The start of a drag jumps to the middle, unseen.                         *)
LEMMA BeginDragStep ==
    ASSUME Consistent, WillBeginDragging
    PROVE  Consistent' /\ UNCHANGED ringVars
<1> DEFINE n == realDataCount
           j == DealLastPage(index, itemsCount)
           i == DealFirstPage(j, itemsCount)
<1>1. n \in Nat \ {0} /\ itemsCount = Items(n) /\ index \in 0..(Items(n) - 1)
  BY BoundAssumption
  DEF WillBeginDragging, Consistent, TypeOK, Items, ScrollsWithinItems
<1>2. j \in 0..(Items(n) - 1) /\ j % n = index % n
  BY <1>1, DealPages
<1> HIDE DEF j
<1>3. i \in 0..(Items(n) - 1) /\ i % n = j % n
  BY <1>1, <1>2, DealPages
<1>4. /\ ScrollTo(i, n) /\ target' = NoTarget /\ dragging' = TRUE
      /\ timers' = CancelledTimer(timers)
      /\ UNCHANGED <<realDataCount, itemsCount, inWindow, resets>>
  BY DEF WillBeginDragging, j
<1>5. NoTarget < itemsCount
  BY DEF Consistent, TypeOK, NoTarget
<1> HIDE DEF i
<1>6. Consistent' /\ picture' = i % n
  BY <1>1, <1>3, <1>4, <1>5, ScrollStep
<1> QED
  BY <1>1, <1>2, <1>3, <1>4, <1>6 DEF ringVars, picture

(* A finger turns the ring by one picture, either way.                      *)
LEMMA DragStep ==
    ASSUME Consistent, Drag
    PROVE  Consistent' /\ Ring!Turn
<1>1. PICK i \in {index - 1, index + 1} \cap 0..(itemsCount - 1) : ScrollTo(i, realDataCount)
  BY DEF Drag
<1>2. /\ target' = NoTarget
      /\ UNCHANGED <<realDataCount, itemsCount, timers, dragging, inWindow, resets>>
  BY DEF Drag
<1>3. NoTarget < itemsCount /\ index \in Nat /\ dragging' \in BOOLEAN
  BY <1>2 DEF Consistent, TypeOK, NoTarget
<1>4. /\ Consistent' /\ realDataCount \in Nat \ {0}
      /\ picture' = i % realDataCount
  BY <1>1, <1>2, <1>3, ScrollStep
<1>5. picture = index % realDataCount
  BY <1>4 DEF picture
<1>6. CASE i = index + 1
  <2>1. (index + 1) % realDataCount = (picture + 1) % realDataCount
    BY <1>3, <1>4, <1>5, NextPicture
  <2>2. picture' = (picture + 1) % realDataCount
    BY <1>4, <1>6, <2>1
  <2> QED
    BY <1>2, <1>4, <2>2 DEF Ring!Turn
<1>7. CASE i = index - 1
  <2>1. index \in Nat \ {0}
    BY <1>1, <1>3, <1>7
  <2>2. (index - 1) % realDataCount = (picture + realDataCount - 1) % realDataCount
    BY <1>4, <1>5, <2>1, PreviousPicture
  <2>3. picture' = (picture + realDataCount - 1) % realDataCount
    BY <1>4, <1>7, <2>2
  <2> QED
    BY <1>2, <1>4, <2>3 DEF Ring!Turn
<1> QED
  BY <1>1, <1>4, <1>6, <1>7

(* A timer aims at the next item, after an unseen jump from the last one.   *)
LEMMA TimeRepeatStep ==
    ASSUME Consistent, TimeRepeat
    PROVE  Consistent' /\ UNCHANGED ringVars
<1> DEFINE n == realDataCount
           i == IF index = itemsCount - 1 THEN DealLastPage(index, itemsCount) ELSE index
<1>1. n \in Nat \ {0} /\ itemsCount = Items(n) /\ index \in 0..(Items(n) - 1)
  BY BoundAssumption
  DEF TimeRepeat, Consistent, TypeOK, Items, ScrollsWithinItems
<1>2. i \in 0..(Items(n) - 1) /\ i % n = index % n
  BY <1>1, DealPages
<1>3. ScrollTo(i, n)
  BY <1>1 DEF TimeRepeat, ScrollTo, Consistent, LitDotIsPicture, picture
<1>4. /\ UNCHANGED <<realDataCount, itemsCount, timers, inWindow, resets>>
      /\ dragging' \in BOOLEAN
  BY DEF TimeRepeat, Consistent, TypeOK
<1>5. target' \in {NoTarget, i, i + 1} /\ target' < itemsCount
  <2>1. itemsCount \in Nat \ {0}
    BY <1>1 DEF Consistent, TypeOK
  <2>2. CASE index = itemsCount - 1
    <3>1. target' = itemsCount \div 2
      BY <2>2 DEF TimeRepeat
    <3> QED
      BY <2>1, <2>2, <3>1 DEF DealLastPage
  <2>3. CASE index # itemsCount - 1
    <3>1. target' = index + 1 /\ i = index
      BY <2>3 DEF TimeRepeat
    <3> QED
      BY <1>1, <2>1, <2>3, <3>1
  <2> QED
    BY <2>2, <2>3
<1> HIDE DEF i
<1>6. Consistent' /\ picture' = i % n
  BY <1>1, <1>2, <1>3, <1>4, <1>5, ScrollStep
<1> QED
  BY <1>1, <1>2, <1>4, <1>6 DEF ringVars, picture

(* The end of a scroll turns the ring by one picture, or not at all.        *)
LEMMA EndAnimationStep ==
    ASSUME Consistent, DidEndScrollingAnimation
    PROVE  Consistent' /\ (Ring!Turn \/ UNCHANGED ringVars)
<1>1. /\ target \in {index - 1, index, index + 1}
      /\ target \in 0..(itemsCount - 1) /\ index \in Nat
  BY DEF DidEndScrollingAnimation, Consistent, TypeOK, ScrollsWithinItems
<1>2. /\ ScrollTo(target, realDataCount) /\ target' = NoTarget
      /\ UNCHANGED <<realDataCount, itemsCount, timers, dragging, inWindow, resets>>
  BY DEF DidEndScrollingAnimation
<1>3. NoTarget < itemsCount /\ dragging' \in BOOLEAN
  BY <1>2 DEF Consistent, TypeOK, NoTarget
<1>4. /\ Consistent' /\ realDataCount \in Nat \ {0}
      /\ picture' = target % realDataCount
  BY <1>1, <1>2, <1>3, ScrollStep
<1>5. picture = index % realDataCount
  BY <1>4 DEF picture
<1>6. CASE target = index + 1
  BY <1>1, <1>2, <1>4, <1>5, <1>6, NextPicture DEF Ring!Turn
<1>7. CASE target = index
  BY <1>2, <1>4, <1>5, <1>7 DEF ringVars
<1>8. CASE target = index - 1
  <2>1. index \in Nat \ {0}
    BY <1>1, <1>8
  <2>2. (index - 1) % realDataCount = (picture + realDataCount - 1) % realDataCount
    BY <1>4, <1>5, <2>1, PreviousPicture
  <2>3. picture' = (picture + realDataCount - 1) % realDataCount
    BY <1>4, <1>8, <2>2
  <2> QED
    BY <1>2, <1>4, <2>3 DEF Ring!Turn
<1> QED
  BY <1>1, <1>4, <1>6, <1>7, <1>8

LEMMA ConsistentInit == Init => Consistent /\ Ring!Init
<1> SUFFICES ASSUME Init PROVE Consistent /\ Ring!Init
  OBVIOUS
<1>1. picture = 0 /\ Ring!Init /\ LitDotIsPicture
  BY DEF Init, picture, LitDotIsPicture, Ring!Init
<1>2. TypeOK
  <2>1. 0 \in 0..MaxPictures /\ 0 \in 0..MaxResets /\ 0 \in Nat
    BY BoundAssumption
  <2> QED
    BY <2>1 DEF Init, TypeOK
<1>3. ScrollsWithinItems /\ AtMostOneTimer
  BY DEF Init, ScrollsWithinItems, AtMostOneTimer, NoTarget
<1>4. itemsCount = Items(realDataCount)
  BY DEF Init, Items
<1> QED
  BY <1>1, <1>2, <1>3, <1>4 DEF Init, Consistent

LEMMA ConsistentStep ==
    ASSUME Consistent, [Next]_vars
    PROVE  Consistent' /\ [Ring!Next]_ringVars
<1>1. CASE Next
  BY <1>1, SetUrlsGroupStep, LayoutStep, TimerStep, BeginDragStep, DragStep, TimeRepeatStep,
     EndAnimationStep DEF Next, Ring!Next
<1>2. CASE UNCHANGED vars
  BY <1>2 DEF vars, ringVars, Consistent, TypeOK, ScrollsWithinItems, AtMostOneTimer,
     LitDotIsPicture, picture
<1> QED
  BY <1>1, <1>2

THEOREM ConsistentAlways == Spec => []Consistent
BY ConsistentInit, ConsistentStep, PTL DEF Spec

-----------------------------------------------------------------------------
(* The carousel never scrolls to an item it does not have.                  *)
THEOREM ScrollsCorrect == Spec => []ScrollsWithinItems
<1>1. Consistent => ScrollsWithinItems
  BY DEF Consistent
<1> QED
  BY <1>1, ConsistentAlways, PTL

(* It never has two timers.                                                 *)
THEOREM TimerCorrect == Spec => []AtMostOneTimer
<1>1. Consistent => AtMostOneTimer
  BY DEF Consistent
<1> QED
  BY <1>1, ConsistentAlways, PTL

(* The lit dot is always that of the picture that shows.                    *)
THEOREM LitDotCorrect == Spec => []LitDotIsPicture
<1>1. Consistent => LitDotIsPicture
  BY DEF Consistent
<1> QED
  BY <1>1, ConsistentAlways, PTL

(* For any number of pictures and any even number of laps the carousel is a *)
(* ring: the jumps to the middle are never seen.                            *)
THEOREM RingCorrect == Spec => ImplementsRing
<1>1. Init => Ring!Init
  BY ConsistentInit
<1>2. Consistent /\ [Next]_vars => [Ring!Next]_ringVars
  BY ConsistentStep
<1> QED
  BY <1>1, <1>2, ConsistentAlways, PTL DEF Spec, ImplementsRing, Ring!Spec, ringVars

=============================================================================
