----------------------------- MODULE ViewProofs -----------------------------
(***************************************************************************)
(* Proofs about PopGestures and ScratchableLatex for every value of their   *)
(* constants.  Of the stack: its types, the guard of the onboard recognizer *)
(* and the bar; the guard rests on the delegate, the bar on the blocks      *)
(* injected into the screens.  Of the grid, for any data and any number of  *)
(* them: what a tap reports and which views may be missing.                 *)
(***************************************************************************)
EXTENDS PopGestures, ScratchableLatex, SequenceTheorems, FiniteSetTheorems, TLAPS

-----------------------------------------------------------------------------
(***************************************************************************)
(*                       The stack and its recognizers                      *)
(***************************************************************************)

(* A screen that is popped is off the stack until the transition ends.      *)
PoppedIsOff ==
    transition.kind \in {"pop", "swipe"} =>
        /\ transition.from \in Screens
        /\ transition.from \notin ToSet(viewControllers)

(* The stack is its own delegate from its first appearance on.              *)
StackReports ==
    /\ onScreen \/ restoring > 0 => loaded
    /\ ~Idle => onScreen
    /\ loaded => naviDelegate = Itself
    /\ ~loaded => naviDelegate = Nobody /\ tzNaviDelegate = Nobody

(* While a swipe may still be cancelled the guard is off.                   *)
SwipeIsUnguarded ==
    transition.kind = "swipe" /\ onboard.enabled => ~onboard.guarded

(* Every screen that can appear again looks after the bar.                  *)
AllInjected ==
    /\ ToSet(viewControllers) \subseteq injected
    /\ ~Idle => transition.from \in injected

StackInv == TypeOK /\ PoppedIsOff

GuardInv == StackInv /\ StackReports /\ SwipeIsUnguarded /\ GuardFollowsDepth

BarInv == StackInv /\ AllInjected /\ BarFollowsTop

-----------------------------------------------------------------------------
(* What a push and a cancelled swipe make of the stack.                     *)
LEMMA Pushed ==
  ASSUME StackOK, NEW c \in Controllers, c \notin ToSet(viewControllers),
         viewControllers' = Append(viewControllers, c)
  PROVE  /\ StackOK'
         /\ Len(viewControllers') > 1
         /\ Top' = c
         /\ ToSet(viewControllers') = ToSet(viewControllers) \cup {c}
<1>1. viewControllers \in Seq(Controllers) /\ Len(viewControllers) \in Nat \ {0}
  BY DEF StackOK
<1>2. /\ viewControllers' \in Seq(Controllers)
      /\ Len(viewControllers') = Len(viewControllers) + 1
      /\ viewControllers'[Len(viewControllers')] = c
      /\ \A i \in 1..Len(viewControllers) : viewControllers'[i] = viewControllers[i]
  BY <1>1
<1>3. viewControllers' # <<>> /\ viewControllers'[1] = Root
  BY <1>1, <1>2 DEF StackOK
<1>4. \A i \in 1..Len(viewControllers) : viewControllers[i] # c
  BY <1>1 DEF ToSet
<1>5. ASSUME NEW i \in 1..Len(viewControllers'), NEW j \in 1..Len(viewControllers'),
             viewControllers'[i] = viewControllers'[j]
      PROVE  i = j
  <2>1. CASE i \in 1..Len(viewControllers) /\ j \in 1..Len(viewControllers)
    BY <1>2, <1>5, <2>1 DEF StackOK
  <2>2. CASE i = Len(viewControllers') \/ j = Len(viewControllers')
    BY <1>1, <1>2, <1>4, <1>5, <2>2
  <2> QED
    BY <1>1, <1>2, <2>1, <2>2
<1>6. ToSet(viewControllers') = ToSet(viewControllers) \cup {c}
  BY <1>1, <1>2 DEF ToSet
<1>7. StackOK'
  BY <1>2, <1>3, <1>5 DEF StackOK
<1> QED
  BY <1>1, <1>2, <1>6, <1>7 DEF Top, Last

(* The top screen is on the stack.                                          *)
LEMMA TopIsOn ==
  ASSUME StackOK
  PROVE  /\ Top \in ToSet(viewControllers)
         /\ ToSet(viewControllers) \subseteq Controllers
         /\ Top = Root <=> Len(viewControllers) = 1
<1>1. viewControllers \in Seq(Controllers) /\ Len(viewControllers) \in Nat \ {0}
  BY DEF StackOK
<1>2. Len(viewControllers) \in 1..Len(viewControllers) /\ 1 \in 1..Len(viewControllers)
  BY <1>1
<1>3. DOMAIN viewControllers = 1..Len(viewControllers)
  BY <1>1
<1>4. Top \in ToSet(viewControllers)
  BY <1>2, <1>3 DEF Top, Last, ToSet
<1>5. ToSet(viewControllers) \subseteq Controllers
  BY <1>1, <1>3 DEF ToSet
<1>6. Top = Root <=> Len(viewControllers) = 1
  BY <1>2 DEF StackOK, Top, Last
<1> QED
  BY <1>4, <1>5, <1>6

(* What a pop leaves of the stack.                                          *)
LEMMA Popped ==
  ASSUME StackOK, Len(viewControllers) > 1,
         viewControllers' = Front(viewControllers)
  PROVE  /\ StackOK'
         /\ Top \in Screens
         /\ Top \notin ToSet(viewControllers')
         /\ Top' = Last(Front(viewControllers))
         /\ Top' \in ToSet(viewControllers')
         /\ ToSet(viewControllers') \subseteq ToSet(viewControllers)
<1>1. viewControllers \in Seq(Controllers) /\ Len(viewControllers) \in Nat \ {0}
  BY DEF StackOK
<1>2. /\ viewControllers' \in Seq(Controllers)
      /\ Len(viewControllers') = Len(viewControllers) - 1
      /\ \A i \in 1..Len(viewControllers') : viewControllers'[i] = viewControllers[i]
  BY <1>1, SubSeqProperties DEF Front
<1>3. viewControllers' # <<>> /\ viewControllers'[1] = Root
  BY <1>1, <1>2 DEF StackOK
<1>4. \A i, j \in 1..Len(viewControllers') :
          viewControllers'[i] = viewControllers'[j] => i = j
  <2>1. 1..Len(viewControllers') \subseteq 1..Len(viewControllers)
    BY <1>1, <1>2
  <2> QED
    BY <1>2, <2>1 DEF StackOK
<1>5. StackOK'
  BY <1>2, <1>3, <1>4 DEF StackOK
<1>6. /\ DOMAIN viewControllers' = 1..Len(viewControllers')
      /\ DOMAIN viewControllers = 1..Len(viewControllers)
  BY <1>1, <1>2
<1>7. ToSet(viewControllers') \subseteq ToSet(viewControllers)
  BY <1>1, <1>2, <1>6 DEF ToSet
<1>8. Top \notin ToSet(viewControllers')
  <2> SUFFICES ASSUME NEW i \in 1..Len(viewControllers'),
                      viewControllers'[i] = Top
               PROVE  FALSE
    BY <1>6 DEF ToSet
  <2>1. /\ i \in 1..Len(viewControllers)
        /\ Len(viewControllers) \in 1..Len(viewControllers)
        /\ i # Len(viewControllers)
    BY <1>1, <1>2
  <2>2. viewControllers[i] = viewControllers[Len(viewControllers)]
    BY <1>2 DEF Top, Last
  <2> QED
    BY <2>1, <2>2 DEF StackOK
<1>9. Top \in Screens
  <2>1. Top \in Controllers
    BY TopIsOn
  <2>2. Len(viewControllers) # 1
    <3>1. \A n \in Nat : n > 1 => n # 1
      OBVIOUS
    <3> QED
      BY <1>1, <3>1
  <2>3. Top # Root
    BY <2>2, TopIsOn
  <2> QED
    BY <2>1, <2>3 DEF Controllers
<1>10. Top' \in ToSet(viewControllers')
  <2>1. Len(viewControllers') \in 1..Len(viewControllers')
    BY <1>1, <1>2
  <2> QED
    BY <1>6, <2>1 DEF Top, Last, ToSet
<1>11. Top' = Last(Front(viewControllers))
  BY DEF Top
<1> QED
  BY <1>5, <1>7, <1>8, <1>9, <1>10, <1>11

LEMMA StackKept ==
  ASSUME StackOK, PoppedIsOff, UNCHANGED <<viewControllers, transition>>
  PROVE  StackOK' /\ PoppedIsOff'
BY DEF StackOK, PoppedIsOff

(* The block counts stay in their bounds.                                   *)
LEMMA DisappearsTyped ==
  ASSUME TypeOK, NEW c \in Controllers, Disappears(c)
  PROVE  barBlocks' \in [Controllers -> 0..MaxBlocks]
BY ScreensAssumption DEF TypeOK, Disappears

LEMMA BarForTyped ==
  ASSUME TypeOK, NEW c
  PROVE  BarFor(c) \in BOOLEAN
<1>1. barHidden \in BOOLEAN
  BY DEF TypeOK
<1>2. CASE c \in injected
  BY <1>2 DEF BarFor
<1>3. CASE c \notin injected
  BY <1>1, <1>3 DEF BarFor
<1> QED
  BY <1>2, <1>3

LEMMA DidShowTyped ==
  ASSUME TypeOK, NEW c
  PROVE  DidShow(c) \in [enabled : BOOLEAN, guarded : BOOLEAN]
BY DEF TypeOK, DidShow

-----------------------------------------------------------------------------
LEMMA StackInit == Init => StackInv
<1> SUFFICES ASSUME Init PROVE StackInv
  OBVIOUS
<1>1. StackOK
  BY DEF Init, StackOK, Controllers
<1>2. fdAttached \in BOOLEAN
  BY ScreensAssumption DEF Init
<1>3. barBlocks \in [Controllers -> 0..MaxBlocks]
  BY ScreensAssumption DEF Init
<1>4. TypeOK
  BY <1>1, <1>2, <1>3, ScreensAssumption
  DEF Init, TypeOK, NoTransition, Controllers, Nobody
<1>5. PoppedIsOff
  BY DEF Init, PoppedIsOff, NoTransition
<1> QED
  BY <1>4, <1>5 DEF StackInv

LEMMA StackStep == StackInv /\ [Next]_vars => StackInv'
<1> SUFFICES ASSUME TypeOK, PoppedIsOff, [Next]_vars
             PROVE  TypeOK' /\ PoppedIsOff'
  BY DEF StackInv
<1>0. StackOK
  BY DEF TypeOK
<1> USE ScreensAssumption
<1>1. CASE Appear
  <2>1. StackOK' /\ PoppedIsOff'
    BY <1>0, <1>1, StackKept DEF Appear
  <2>2. /\ barHidden' \in BOOLEAN
        /\ tzNaviDelegate' \in {Nobody, Itself}
        /\ restoring' \in 0..MaxBlocks
    BY <1>1, BarForTyped DEF Appear, TypeOK, TzNaviDelegate
  <2>3. onboard' \in [enabled : BOOLEAN, guarded : BOOLEAN]
    BY <1>1 DEF Appear, TypeOK, ViewDidLoad, AddPopGesture
  <2> QED
    BY <1>1, <2>1, <2>2, <2>3 DEF Appear, TypeOK
<1>2. CASE Reported
  BY <1>0, <1>2, DidShowTyped, StackKept DEF Reported, TypeOK, tzVars
<1>3. CASE Disappear
  BY <1>0, <1>3, TopIsOn, DisappearsTyped, StackKept DEF Disappear, TypeOK, tzVars
<1>4. CASE PushViewController
  <2>1. PICK c \in NewScreens :
            /\ Attach
            /\ injected' = injected \cup {c, Top}
            /\ viewControllers' = Append(viewControllers, c)
            /\ transition' = [kind |-> "push", from |-> Top]
            /\ Disappears(Top)
            /\ barHidden' = (c \in PrefersHidden)
    BY <1>4 DEF PushViewController
  <2>2. c \in Controllers /\ c \notin ToSet(viewControllers)
    BY DEF NewScreens, InNavigation, Controllers
  <2>3. StackOK' /\ Top \in Controllers
    BY <1>0, <2>1, <2>2, Pushed, TopIsOn
  <2>4. barBlocks' \in [Controllers -> 0..MaxBlocks]
    BY <2>1, <2>3, DisappearsTyped
  <2>5. onboard' \in [enabled : BOOLEAN, guarded : BOOLEAN] /\ fdAttached' \in BOOLEAN
    BY <2>1 DEF Attach, TypeOK
  <2>6. TypeOK'
    BY <1>4, <2>1, <2>2, <2>3, <2>4, <2>5 DEF PushViewController, TypeOK, tzVars
  <2>7. PoppedIsOff'
    BY <2>1 DEF PoppedIsOff
  <2> QED
    BY <2>6, <2>7
<1>5. ASSUME NEW kind \in {"pop", "swipe"}, BeginPop(kind)
      PROVE  TypeOK' /\ PoppedIsOff'
  <2>1. /\ StackOK'
        /\ Top \in Screens /\ Top \notin ToSet(viewControllers')
    BY <1>0, <1>5, Popped DEF BeginPop
  <2>2. barBlocks' \in [Controllers -> 0..MaxBlocks]
    BY <1>5, <2>1, DisappearsTyped DEF BeginPop, Controllers
  <2>3. barHidden' \in BOOLEAN
    BY <1>5, BarForTyped DEF BeginPop
  <2>4. transition' = [kind |-> kind, from |-> Top]
    BY <1>5 DEF BeginPop
  <2>5. TypeOK'
    BY <1>5, <2>1, <2>2, <2>3, <2>4 DEF BeginPop, TypeOK, Controllers, tzVars
  <2>6. PoppedIsOff'
    BY <2>1, <2>4 DEF PoppedIsOff
  <2> QED
    BY <2>5, <2>6
<1>6. CASE Finish
  <2>1. StackOK'
    BY <1>0, <1>6 DEF Finish, StackOK
  <2>2. PoppedIsOff'
    BY <1>6 DEF Finish, PoppedIsOff, NoTransition
  <2> QED
    BY <1>6, <2>1, <2>2, DidShowTyped DEF Finish, TypeOK, NoTransition,
       Controllers, tzVars
<1>7. CASE CancelSwipe
  <2>1. transition.from \in Controllers /\ transition.from \notin ToSet(viewControllers)
    BY <1>7 DEF CancelSwipe, PoppedIsOff, Controllers
  <2>2. StackOK'
    BY <1>0, <1>7, <2>1, Pushed DEF CancelSwipe
  <2>3. barBlocks' \in [Controllers -> 0..MaxBlocks]
    BY <1>0, <1>7, TopIsOn, DisappearsTyped DEF CancelSwipe
  <2>4. barHidden' \in BOOLEAN
    BY <1>7, BarForTyped DEF CancelSwipe
  <2>5. TypeOK'
    BY <1>7, <2>2, <2>3, <2>4
    DEF CancelSwipe, TypeOK, NoTransition, Controllers, tzVars
  <2>6. PoppedIsOff'
    BY <1>7 DEF CancelSwipe, PoppedIsOff, NoTransition
  <2> QED
    BY <2>5, <2>6
<1>8. CASE RestoreDelegate
  BY <1>0, <1>8, StackKept DEF RestoreDelegate, TypeOK, TzNaviDelegate
<1>9. ASSUME NEW c \in Controllers, BarBlock(c)
      PROVE  TypeOK' /\ PoppedIsOff'
  <2>1. barBlocks' \in [Controllers -> 0..MaxBlocks] /\ barHidden' \in BOOLEAN
    BY <1>9 DEF BarBlock, TypeOK
  <2> QED
    BY <1>0, <1>9, <2>1, StackKept DEF BarBlock, TypeOK, tzVars
<1>10. CASE UNCHANGED vars
  BY <1>0, <1>10, StackKept DEF vars, tzVars, TypeOK
<1> QED
  BY <1>1, <1>2, <1>3, <1>4, <1>5, <1>6, <1>7, <1>8, <1>9, <1>10
  DEF Next, BackBtnDidClick, Swipe

-----------------------------------------------------------------------------
LEMMA GuardInit == Init => GuardInv
BY StackInit, ScreensAssumption
DEF Init, GuardInv, StackReports, SwipeIsUnguarded, GuardFollowsDepth,
    NoTransition, Idle, Nobody, Itself

LEMMA GuardStep == GuardInv /\ [Next]_vars => GuardInv'
<1> SUFFICES ASSUME GuardInv, [Next]_vars
             PROVE  GuardInv'
  OBVIOUS
<1>1. /\ TypeOK /\ StackOK /\ PoppedIsOff
      /\ StackInv' /\ TypeOK' /\ StackOK'
  BY StackStep DEF GuardInv, StackInv, TypeOK
<1>2. StackReports'
  BY <1>1, ScreensAssumption
  DEF GuardInv, StackReports, TypeOK, Next, Appear, Reported, Disappear,
      PushViewController, BackBtnDidClick, Swipe, BeginPop, Finish, CancelSwipe,
      RestoreDelegate, BarBlock, TzNaviDelegate, Idle, NoTransition, tzVars, vars,
      Nobody, Itself
<1>3. SwipeIsUnguarded' /\ GuardFollowsDepth'
  <2> USE DEF GuardInv
  <2>1. CASE Appear
    BY <1>1, <2>1 DEF Appear, ViewDidLoad, AddPopGesture, SwipeIsUnguarded,
       GuardFollowsDepth, Idle, TypeOK, StackReports, NoTransition
  <2>2. CASE Reported
    BY <1>1, <2>2, TopIsOn
    DEF Reported, DidShow, StackReports, SwipeIsUnguarded, GuardFollowsDepth,
        Idle, NoTransition, TypeOK
  <2>3. CASE Disappear
    BY <2>3 DEF Disappear, SwipeIsUnguarded, GuardFollowsDepth, Idle
  <2>4. CASE PushViewController
    BY <1>1, <2>4 DEF PushViewController, SwipeIsUnguarded, GuardFollowsDepth,
       Idle, NoTransition
  <2>5. ASSUME NEW kind \in {"pop", "swipe"}, BeginPop(kind)
        PROVE  SwipeIsUnguarded' /\ GuardFollowsDepth'
    <3>1. Len(viewControllers) # 1 /\ Idle /\ onboard' = onboard
      BY <1>1, <2>5 DEF BeginPop, StackOK
    <3>2. ~Idle'
      BY <2>5 DEF BeginPop, Idle
    <3> QED
      BY <3>1, <3>2 DEF SwipeIsUnguarded, GuardFollowsDepth
  <2>6. CASE Finish
    BY <1>1, <2>6, TopIsOn
    DEF Finish, DidShow, StackReports, SwipeIsUnguarded, GuardFollowsDepth,
        Idle, NoTransition, TypeOK
  <2>7. CASE CancelSwipe
    <3>1. Len(viewControllers') > 1
      BY <1>1, <2>7, Pushed, TopIsOn
      DEF CancelSwipe, PoppedIsOff, Controllers
    <3>2. onboard.enabled => ~onboard.guarded
      BY <2>7 DEF CancelSwipe, SwipeIsUnguarded
    <3> QED
      BY <1>1, <2>7, <3>1, <3>2 DEF CancelSwipe, SwipeIsUnguarded,
         GuardFollowsDepth, NoTransition, TypeOK
  <2>8. CASE RestoreDelegate
    BY <2>8 DEF RestoreDelegate, SwipeIsUnguarded, GuardFollowsDepth, Idle
  <2>9. ASSUME NEW c \in Controllers, BarBlock(c)
        PROVE  SwipeIsUnguarded' /\ GuardFollowsDepth'
    BY <2>9 DEF BarBlock, SwipeIsUnguarded, GuardFollowsDepth, Idle
  <2>10. CASE UNCHANGED vars
    BY <2>10 DEF vars, SwipeIsUnguarded, GuardFollowsDepth, Idle
  <2> QED
    BY <2>1, <2>2, <2>3, <2>4, <2>5, <2>6, <2>7, <2>8, <2>9, <2>10
    DEF Next, BackBtnDidClick, Swipe
<1> QED
  BY <1>1, <1>2, <1>3 DEF GuardInv

-----------------------------------------------------------------------------
LEMMA BarInit == Init => BarInv
BY StackInit
DEF Init, BarInv, AllInjected, BarFollowsTop, Idle, NoTransition, ToSet

LEMMA BarStep == BarInv /\ [Next]_vars => BarInv'
<1> SUFFICES ASSUME BarInv, [Next]_vars
             PROVE  BarInv'
  OBVIOUS
<1>1. /\ TypeOK /\ StackOK /\ PoppedIsOff
      /\ StackInv' /\ TypeOK' /\ StackOK'
  BY StackStep DEF BarInv, StackInv, TypeOK
<1> USE DEF BarInv
<1>2. CASE Appear
  BY <1>1, <1>2, TopIsOn
  DEF Appear, AllInjected, BarFollowsTop, BarFor, Idle, Top
<1>3. CASE Reported \/ Disappear \/ RestoreDelegate \/ UNCHANGED vars
  BY <1>1, <1>3
  DEF Reported, Disappear, RestoreDelegate, vars, AllInjected, BarFollowsTop,
      Idle, Top
<1>4. CASE PushViewController
  <2>1. PICK c \in NewScreens :
            /\ injected' = injected \cup {c, Top}
            /\ viewControllers' = Append(viewControllers, c)
            /\ transition' = [kind |-> "push", from |-> Top]
            /\ barHidden' = (c \in PrefersHidden)
    BY <1>4 DEF PushViewController
  <2>2. c \in Controllers /\ c \notin ToSet(viewControllers)
    BY DEF NewScreens, InNavigation, Controllers
  <2>3. Top' = c /\ ToSet(viewControllers') = ToSet(viewControllers) \cup {c}
    BY <1>1, <2>1, <2>2, Pushed
  <2> QED
    BY <1>1, <2>1, <2>3 DEF AllInjected, BarFollowsTop
<1>5. ASSUME NEW kind \in {"pop", "swipe"}, BeginPop(kind)
      PROVE  BarInv'
  <2>1. /\ Top' \in ToSet(viewControllers)
        /\ ToSet(viewControllers') \subseteq ToSet(viewControllers)
    BY <1>1, <1>5, Popped DEF BeginPop
  <2>2. barHidden' = (Top' \in PrefersHidden)
    BY <1>5, <2>1 DEF BeginPop, BarFor, AllInjected, Top
  <2> QED
    BY <1>1, <1>5, <2>1, <2>2, TopIsOn DEF BeginPop, AllInjected, BarFollowsTop
<1>6. CASE Finish
  <2>1. \/ injected' = injected
        \/ /\ injected' = injected \ {transition.from}
           /\ transition.from \notin ToSet(viewControllers)
    <3>1. transition.kind \in {"push", "pop", "swipe"}
      BY <1>1, <1>6 DEF Finish, TypeOK, Idle
    <3> QED
      BY <1>1, <1>6, <3>1 DEF Finish, PoppedIsOff
  <2> QED
    BY <1>1, <1>6, <2>1 DEF Finish, AllInjected, BarFollowsTop, Idle,
       NoTransition, Top
<1>7. CASE CancelSwipe
  <2>1. transition.from \in Controllers /\ transition.from \notin ToSet(viewControllers)
    BY <1>1, <1>7 DEF CancelSwipe, PoppedIsOff, Controllers
  <2>2. /\ Top' = transition.from
        /\ ToSet(viewControllers') = ToSet(viewControllers) \cup {transition.from}
    BY <1>1, <1>7, <2>1, Pushed DEF CancelSwipe
  <2>3. transition.from \in injected
    BY <1>7 DEF CancelSwipe, AllInjected, Idle, NoTransition
  <2> QED
    BY <1>1, <1>7, <2>2, <2>3 DEF CancelSwipe, AllInjected, BarFollowsTop, BarFor,
       Idle, NoTransition
<1>8. ASSUME NEW c \in Controllers, BarBlock(c)
      PROVE  BarInv'
  BY <1>1, <1>8
  DEF BarBlock, ShowsBar, AllInjected, BarFollowsTop, Idle, Top, TypeOK
<1> QED
  BY <1>2, <1>3, <1>4, <1>5, <1>6, <1>7, <1>8 DEF Next, BackBtnDidClick, Swipe

-----------------------------------------------------------------------------
(* The variables keep their types, and no screen is twice on the stack.     *)
(* pushViewController.                                                      *)
THEOREM StackTyped == Spec => []TypeOK
<1>1. StackInv => TypeOK
  BY DEF StackInv
<1> QED
  BY <1>1, StackInit, StackStep, PTL DEF Spec

(* The onboard recognizer is guarded on the root and only there, however    *)
(* deep the stack is, whatever is pushed, popped or half swiped, and         *)
(* whenever the blocks of viewWillAppear run.  didShowViewController.       *)
THEOREM GuardCorrect == Spec => []GuardFollowsDepth
<1>1. GuardInv => GuardFollowsDepth
  BY DEF GuardInv
<1> QED
  BY <1>1, GuardInit, GuardStep, PTL DEF Spec

(* The bar is the top screen's, whatever the screens prefer.  The blocks of *)
(* fd_viewWillAppear and fd_viewWillDisappear.                              *)
THEOREM BarCorrect == Spec => []BarFollowsTop
<1>1. BarInv => BarFollowsTop
  BY DEF BarInv
<1> QED
  BY <1>1, BarInit, BarStep, PTL DEF Spec

-----------------------------------------------------------------------------
(***************************************************************************)
(*                           The grid of item views                         *)
(***************************************************************************)

(* The views are views, and the data are data.                              *)
Typed ==
    /\ dataArr \in Seq(ItemModel) \cup {NoData}
    /\ subviews \in Seq(View)

(* An item view stands where its tag says and shows the datum of that place:*)
(* what makes filling by position and tapping by tag agree.                 *)
InPlace(views, data) ==
    \A i \in 1..Len(views) : IsItem(views[i]) =>
        /\ data # NoData
        /\ i <= Len(data)
        /\ views[i].tag = i - 1
        /\ views[i].shows = data[i]

ItemsInPlace == Typed /\ InPlace(subviews, dataArr)

-----------------------------------------------------------------------------
(* What the grid is given is nil or a sequence of data.                     *)
LEMMA DataArrType == DataArr \subseteq Seq(ItemModel) \cup {NoData}
<1>1. \A n \in 0..MaxCount : [1..n -> ItemModel] \subseteq Seq(ItemModel)
  <2> SUFFICES ASSUME NEW n \in 0..MaxCount, NEW f \in [1..n -> ItemModel]
               PROVE  f \in Seq(ItemModel)
    OBVIOUS
  <2>1. n \in Nat
    BY DataAssumption
  <2> QED
    BY <2>1, SMT
<1> QED
  BY <1>1 DEF DataArr

(* Views made anew are in place.                                            *)
LEMMA AllItemsInPlace ==
    ASSUME NEW data \in Seq(ItemModel) \cup {NoData}
    PROVE  AllItems(data) \in Seq(View) /\ InPlace(AllItems(data), data)
<1>1. CASE data = NoData
  <2>1. AllItems(data) = <<>>
    BY <1>1 DEF AllItems
  <2> QED
    BY <2>1 DEF InPlace
<1>2. CASE data # NoData
  <2>1. data \in Seq(ItemModel)
    BY <1>2
  <2>2. AllItems(data) = [i \in 1..Len(data) |-> [tag |-> i - 1, shows |-> data[i]]]
    BY <1>2 DEF AllItems
  <2>3. \A i \in 1..Len(data) : [tag |-> i - 1, shows |-> data[i]] \in View
    <3> SUFFICES ASSUME NEW i \in 1..Len(data)
                 PROVE  [tag |-> i - 1, shows |-> data[i]] \in View
      OBVIOUS
    <3>1. i - 1 \in Nat
      BY <2>1
    <3>2. data[i] \in ItemModel
      BY <2>1
    <3> QED
      BY <3>1, <3>2 DEF View
  <2>4. AllItems(data) \in Seq(View) /\ Len(AllItems(data)) = Len(data)
    BY <2>1, <2>2, <2>3
  <2> QED
    BY <1>2, <2>1, <2>2, <2>4 DEF InPlace
<1> QED
  BY <1>1, <1>2

(* Views in place are in place after an update with as many data.           *)
LEMMA UpdatedInPlace ==
    ASSUME NEW views \in Seq(View), NEW old, InPlace(views, old),
           NEW data \in Seq(ItemModel), data # NoData, Len(data) = Len(views)
    PROVE  Updated(views, data) \in Seq(View) /\ InPlace(Updated(views, data), data)
<1> DEFINE new == Updated(views, data)
<1>1. \A i \in 1..Len(views) :
          /\ views[i] \in View
          /\ new[i] = IF IsItem(views[i]) THEN [tag |-> views[i].tag, shows |-> data[i]]
                                          ELSE views[i]
  BY DEF Updated
<1>2. \A i \in 1..Len(views) :
          /\ new[i] \in View
          /\ new[i].tag = views[i].tag
          /\ IsItem(views[i]) => new[i].shows = data[i]
  <2> SUFFICES ASSUME NEW i \in 1..Len(views)
               PROVE  /\ new[i] \in View
                      /\ new[i].tag = views[i].tag
                      /\ IsItem(views[i]) => new[i].shows = data[i]
    OBVIOUS
  <2>1. data[i] \in ItemModel
    OBVIOUS
  <2>2. CASE IsItem(views[i])
    <3>1. new[i] = [tag |-> views[i].tag, shows |-> data[i]]
      BY <1>1, <2>2
    <3> HIDE DEF new
    <3> QED
      BY <1>1, <2>1, <2>2, <3>1 DEF View
  <2>3. CASE ~IsItem(views[i])
    BY <1>1, <2>3
  <2> QED
    BY <2>2, <2>3
<1>3. new \in Seq(View) /\ Len(new) = Len(views)
  BY <1>2 DEF Updated
<1>4. \A i \in 1..Len(new) : IsItem(new[i]) <=> IsItem(views[i])
  BY <1>2, <1>3 DEF IsItem
<1>5. InPlace(new, data)
  <2> HIDE DEF new
  <2> QED
    BY <1>2, <1>3, <1>4 DEF InPlace
<1> QED
  BY <1>3, <1>5

(* Lines above the item views move none of them.                            *)
LEMMA LinesInPlace ==
    ASSUME NEW views \in Seq(View), NEW data, InPlace(views, data)
    PROVE  WithLines(views) \in Seq(View) /\ InPlace(WithLines(views), data)
<1> DEFINE line == [tag |-> Line, shows |-> NoData]
           new == views \o <<line, line>>
<1>1. line \in View /\ ~IsItem(line)
  BY DEF View, IsItem
<1>2. /\ new \in Seq(View)
      /\ \A i \in 1..Len(new) : IsItem(new[i]) => i <= Len(views) /\ new[i] = views[i]
  <2> HIDE DEF line
  <2>1. <<line, line>> \in Seq(View)
    BY <1>1
  <2>2. new \in Seq(View) /\ Len(new) = Len(views) + 2
    BY <2>1
  <2>3. \A i \in 1..Len(views) : new[i] = views[i]
    BY <2>1
  <2>4. \A i \in 1..Len(new) : i > Len(views) => new[i] = line
    BY <2>1, <2>2
  <2>5. \A i \in 1..Len(new) : i <= Len(views) => i \in 1..Len(views)
    BY <2>2
  <2>6. \A i \in 1..Len(new) : i <= Len(views) \/ i > Len(views)
    BY <2>2
  <2> QED
    BY <1>1, <2>2, <2>3, <2>4, <2>5, <2>6
<1>3. InPlace(new, data)
  <2> HIDE DEF new
  <2>1. \A i \in 1..Len(new) : IsItem(new[i]) => i \in 1..Len(views)
    BY <1>2
  <2> QED
    BY <1>2, <2>1 DEF InPlace
<1> QED
  BY <1>2, <1>3 DEF WithLines

-----------------------------------------------------------------------------
LEMMA ItemsStep == ItemsInPlace /\ [GridNext]_gridVars => ItemsInPlace'
<1> SUFFICES ASSUME ItemsInPlace, [GridNext]_gridVars
             PROVE  ItemsInPlace'
  OBVIOUS
<1>1. subviews \in Seq(View) /\ InPlace(subviews, dataArr)
  BY DEF ItemsInPlace, Typed
<1>2. CASE SetDataArr
  <2>1. dataArr' \in Seq(ItemModel) \cup {NoData}
    BY <1>2, DataArrType DEF SetDataArr
  <2>2. CASE dataArr' # NoData /\ Len(dataArr') = Len(subviews)
    <3>1. subviews' = Updated(subviews, dataArr')
      BY <1>2, <2>2 DEF SetDataArr, ReloadData
    <3>2. dataArr' \in Seq(ItemModel)
      BY <2>1, <2>2
    <3> QED
      BY <1>1, <2>1, <2>2, <3>1, <3>2, UpdatedInPlace DEF ItemsInPlace, Typed
  <2>3. CASE ~(dataArr' # NoData /\ Len(dataArr') = Len(subviews))
    <3>1. subviews' = AllItems(dataArr')
      BY <1>2, <2>3 DEF SetDataArr, ReloadData
    <3> QED
      BY <2>1, <3>1, AllItemsInPlace DEF ItemsInPlace, Typed
  <2> QED
    BY <2>2, <2>3
<1>3. CASE ReLayoutSubViews
  BY <1>3, AllItemsInPlace DEF ReLayoutSubViews, ItemsInPlace, Typed
<1>4. CASE LayoutSubviews
  BY <1>1, <1>4, LinesInPlace DEF LayoutSubviews, ItemsInPlace, Typed
<1>5. CASE UNCHANGED gridVars
  BY <1>5 DEF gridVars, ItemsInPlace, Typed, InPlace
<1> QED
  BY <1>2, <1>3, <1>4, <1>5 DEF GridNext

(* A tap on an item view always reports the datum the view shows, for any   *)
(* order of new data, layouts and new items.                                *)
THEOREM TapCorrect == GridSpec => []TapReportsWhatShows
<1>1. GridInit => ItemsInPlace
  BY DEF GridInit, ItemsInPlace, Typed, InPlace
<1>2. ItemsInPlace => TapReportsWhatShows
  <2> SUFFICES ASSUME ItemsInPlace, NEW i \in ItemsOf(subviews)
               PROVE  /\ dataArr # NoData
                      /\ subviews[i].tag < Len(dataArr)
                      /\ subviews[i].shows = dataArr[subviews[i].tag + 1]
    BY DEF TapReportsWhatShows
  <2>1. i \in 1..Len(subviews) /\ IsItem(subviews[i])
    BY DEF ItemsOf
  <2>2. /\ dataArr # NoData
        /\ i <= Len(dataArr)
        /\ subviews[i].tag = i - 1
        /\ subviews[i].shows = dataArr[i]
    BY <2>1 DEF ItemsInPlace, InPlace
  <2>3. Len(dataArr) \in Nat /\ i \in Nat
    BY <2>1, <2>2 DEF ItemsInPlace, Typed
  <2>4. i - 1 < Len(dataArr) /\ (i - 1) + 1 = i
    BY <2>2, <2>3
  <2> QED
    BY <2>2, <2>4
<1> QED
  BY <1>1, <1>2, ItemsStep, PTL DEF GridSpec

-----------------------------------------------------------------------------
(* The grid is count item views, with nothing or with two lines above them. *)
Layers(views, count) ==
    /\ count \in Nat
    /\ Len(views) \in {count, count + 2}
    /\ \A i \in 1..Len(views) : IsItem(views[i]) <=> i <= count

(* The data are as many as the item views, or as many as the subviews: what *)
(* the comparison with the number of subviews keeps.                        *)
Fits(views, data) ==
    \E count \in Nat :
        /\ Layers(views, count)
        /\ data # NoData => Len(data) \in {count, Len(views)}

GridInv == ItemsInPlace /\ Fits(subviews, dataArr)

(* How many there are of each, without lines and with them.                 *)
LEMMA LayersCount ==
    ASSUME NEW views \in Seq(View), NEW count, Layers(views, count)
    PROVE  /\ Cardinality(ItemsOf(views)) = count
           /\ Len(views) = count + 2 => Cardinality(LinesOf(views)) = 2
           /\ LinesOf(views) = {} => Len(views) = count
<1>1. count \in Nat /\ (Len(views) = count \/ Len(views) = count + 2)
  BY DEF Layers
<1>2. ItemsOf(views) = 1..count
  BY <1>1 DEF Layers, ItemsOf
<1>3. LinesOf(views) = {i \in 1..Len(views) : i > count}
  BY <1>1 DEF Layers, LinesOf
<1>4. Cardinality(1..count) = count
  BY <1>1, FS_Interval
<1>5. ASSUME Len(views) = count + 2
      PROVE  Cardinality(LinesOf(views)) = 2 /\ LinesOf(views) # {}
  <2>1. LinesOf(views) = (count + 1)..(count + 2)
    BY <1>1, <1>3, <1>5
  <2>2. Cardinality((count + 1)..(count + 2)) = 2
    BY <1>1, FS_Interval
  <2>3. count + 1 \in (count + 1)..(count + 2)
    BY <1>1
  <2> QED
    BY <2>1, <2>2, <2>3
<1> QED
  BY <1>1, <1>2, <1>4, <1>5

(* New views fit, whatever was there.                                       *)
LEMMA AllItemsFit ==
    ASSUME NEW data \in Seq(ItemModel) \cup {NoData}
    PROVE  Fits(AllItems(data), data)
<1>1. CASE data = NoData
  <2>1. AllItems(data) = <<>> /\ Len(<<>>) = 0
    BY <1>1 DEF AllItems
  <2>2. Layers(AllItems(data), 0)
    BY <2>1 DEF Layers
  <2> QED
    BY <1>1, <2>2 DEF Fits
<1>2. CASE data # NoData
  <2>1. Len(data) \in Nat
    BY <1>2
  <2>2. /\ Len(AllItems(data)) = Len(data)
        /\ \A i \in 1..Len(data) : AllItems(data)[i].tag = i - 1
    BY <1>2, <2>1 DEF AllItems
  <2>3. \A i \in 1..Len(data) : IsItem(AllItems(data)[i]) /\ i <= Len(data)
    BY <2>1, <2>2 DEF IsItem, Line
  <2>4. Layers(AllItems(data), Len(data))
    BY <2>1, <2>2, <2>3 DEF Layers
  <2> QED
    BY <2>1, <2>4 DEF Fits
<1> QED
  BY <1>1, <1>2

(* An update leaves lines lines and items items.                            *)
LEMMA UpdatedFit ==
    ASSUME NEW views \in Seq(View), NEW old, Fits(views, old),
           NEW data \in Seq(ItemModel), Len(data) = Len(views)
    PROVE  Fits(Updated(views, data), data)
<1>1. PICK count \in Nat : Layers(views, count)
  BY DEF Fits
<1>2. Len(Updated(views, data)) = Len(views)
  BY DEF Updated
<1>3. \A i \in 1..Len(views) : IsItem(Updated(views, data)[i]) <=> IsItem(views[i])
  BY DEF Updated, IsItem
<1>4. Layers(Updated(views, data), count)
  BY <1>1, <1>2, <1>3 DEF Layers
<1> QED
  BY <1>2, <1>4 DEF Fits

(* The lines come above, and only where there are none.                     *)
LEMMA WithLinesFit ==
    ASSUME NEW views \in Seq(View), NEW data, Fits(views, data)
    PROVE  Fits(WithLines(views), data)
<1> DEFINE line == [tag |-> Line, shows |-> NoData]
<1>1. CASE LinesOf(views) # {}
  BY <1>1 DEF WithLines
<1>2. CASE LinesOf(views) = {}
  <2>1. PICK count \in Nat :
            /\ Layers(views, count)
            /\ data # NoData => Len(data) \in {count, Len(views)}
    BY DEF Fits
  <2>2. Len(views) = count
    BY <1>2, <2>1, LayersCount
  <2>3. line \in View /\ ~IsItem(line)
    BY DEF View, IsItem
  <2> HIDE DEF line
  <2>4. <<line, line>> \in Seq(View)
    BY <2>3
  <2>5. WithLines(views) = views \o <<line, line>>
    BY <1>2 DEF WithLines, line
  <2>6. Len(WithLines(views)) = count + 2
    BY <2>2, <2>4, <2>5
  <2>7. \A i \in 1..count : WithLines(views)[i] = views[i]
    BY <2>2, <2>4, <2>5
  <2>8. \A i \in 1..(count + 2) : i > count => WithLines(views)[i] = line
    BY <2>2, <2>4, <2>5
  <2>9. \A i \in 1..(count + 2) : IsItem(WithLines(views)[i]) <=> i <= count
    <3> SUFFICES ASSUME NEW i \in 1..(count + 2)
                 PROVE  IsItem(WithLines(views)[i]) <=> i <= count
      OBVIOUS
    <3>1. CASE i <= count
      <4>1. i \in 1..count /\ IsItem(views[i])
        BY <2>1, <2>2, <3>1 DEF Layers
      <4> QED
        BY <2>7, <3>1, <4>1
    <3>2. CASE ~(i <= count)
      BY <2>3, <2>8, <3>2
    <3> QED
      BY <3>1, <3>2
  <2>10. Layers(WithLines(views), count)
    BY <2>6, <2>9 DEF Layers
  <2> QED
    BY <2>1, <2>2, <2>10 DEF Fits
<1> QED
  BY <1>1, <1>2

LEMMA GridStep == GridInv /\ [GridNext]_gridVars => GridInv'
<1> SUFFICES ASSUME GridInv, [GridNext]_gridVars
             PROVE  GridInv'
  OBVIOUS
<1>1. ItemsInPlace /\ ItemsInPlace'
  BY ItemsStep DEF GridInv
<1>2. /\ dataArr \in Seq(ItemModel) \cup {NoData}
      /\ dataArr' \in Seq(ItemModel) \cup {NoData}
      /\ subviews \in Seq(View)
      /\ Fits(subviews, dataArr)
  BY <1>1 DEF ItemsInPlace, Typed, GridInv
<1>3. CASE SetDataArr
  <2>1. CASE dataArr' # NoData /\ Len(dataArr') = Len(subviews)
    <3>1. subviews' = Updated(subviews, dataArr') /\ dataArr' \in Seq(ItemModel)
      BY <1>2, <1>3, <2>1 DEF SetDataArr, ReloadData
    <3> QED
      BY <1>1, <1>2, <2>1, <3>1, UpdatedFit DEF GridInv
  <2>2. CASE ~(dataArr' # NoData /\ Len(dataArr') = Len(subviews))
    <3>1. subviews' = AllItems(dataArr')
      BY <1>3, <2>2 DEF SetDataArr, ReloadData
    <3> QED
      BY <1>1, <1>2, <3>1, AllItemsFit DEF GridInv
  <2> QED
    BY <2>1, <2>2
<1>4. CASE ReLayoutSubViews
  BY <1>1, <1>2, <1>4, AllItemsFit DEF ReLayoutSubViews, GridInv
<1>5. CASE LayoutSubviews
  BY <1>1, <1>2, <1>5, WithLinesFit DEF LayoutSubviews, GridInv
<1>6. CASE UNCHANGED gridVars
  BY <1>1, <1>2, <1>6 DEF gridVars, GridInv
<1> QED
  BY <1>3, <1>4, <1>5, <1>6 DEF GridNext

(* The grid never has a view too many, and lacks views for at most two data *)
(* and only where the lines stand in for them, for any order of new data,   *)
(* layouts and new items.                                                   *)
THEOREM OnlyLinesHideData == GridSpec => []MissingOnlyForLines
<1>1. GridInit => GridInv
  <2> SUFFICES ASSUME GridInit PROVE GridInv
    OBVIOUS
  <2>1. ItemsInPlace
    BY DEF GridInit, ItemsInPlace, Typed, InPlace
  <2>2. Layers(subviews, 0) /\ dataArr = NoData
    BY DEF GridInit, Layers
  <2> QED
    BY <2>1, <2>2 DEF GridInv, Fits
<1>2. GridInv => MissingOnlyForLines
  <2> SUFFICES ASSUME GridInv, dataArr # NoData
               PROVE  \/ Cardinality(ItemsOf(subviews)) = Len(dataArr)
                      \/ /\ Cardinality(LinesOf(subviews)) = 2
                         /\ Cardinality(ItemsOf(subviews)) + 2 = Len(dataArr)
    BY DEF MissingOnlyForLines
  <2>1. PICK count \in Nat :
            Layers(subviews, count) /\ Len(dataArr) \in {count, Len(subviews)}
    BY DEF GridInv, Fits
  <2>2. subviews \in Seq(View)
    BY DEF GridInv, ItemsInPlace, Typed
  <2>3. Len(subviews) \in {count, count + 2}
    BY <2>1 DEF Layers
  <2> QED
    BY <2>1, <2>2, <2>3, LayersCount
<1> QED
  BY <1>1, <1>2, GridStep, PTL DEF GridSpec

=============================================================================
