---------------------------- MODULE PopGestures ----------------------------
(***************************************************************************)
(* One navigation stack of the app, the two libraries swizzled into it and  *)
(* UIKit's pop recognizer that both of them take over:                      *)
(*                                                                          *)
(*  - FDFullscreenPopGesture adds a recognizer of its own at a push and      *)
(*    disables the onboard one; it shows or hides the bar as each screen     *)
(*    appears, and once more from a block after a screen disappears;         *)
(*  - TZPopGesture makes the stack its own delegate for 0.2 s after it       *)
(*    appears, and as a delegate enables the onboard recognizer, with or     *)
(*    without the delegate that guards the root.                             *)
(*                                                                          *)
(* External, as UIKit does it: transitions and their appearance calls, the   *)
(* didShow at the end of a transition (one is also allowed, not required,    *)
(* when the stack appears or a swipe is cancelled), and that taps wait for   *)
(* a transition to end.  The tab bar is hidden above the root.               *)
(***************************************************************************)
EXTENDS Integers, Sequences, FiniteSets, SequencesExt

CONSTANTS
    Root,           \* the first screen of the stack
    Screens,        \* the screens that are pushed, each a new object
    PrefersHidden,  \* the screens with fd_prefersNavigationBarHidden
    RootIsPage,     \* the root is a PageViewController
    EarlyAttach,    \* whether the push of the root attaches: the cases
    MaxBlocks       \* bound on the waiting blocks of one kind

ASSUME ScreensAssumption ==
    /\ Root \notin Screens
    /\ PrefersHidden \subseteq Screens \cup {Root}
    /\ RootIsPage \in BOOLEAN
    /\ EarlyAttach \subseteq BOOLEAN
    /\ MaxBlocks \in Nat

VARIABLES
    viewControllers,  \* of the stack, the top one last
    transition,       \* what is animated, and the screen that leaves
    onScreen,         \* the tab of this stack is selected
    loaded,           \* viewDidLoad of the root has run
    naviDelegate,     \* delegate of the stack
    tzNaviDelegate,   \* the delegate TZPopGesture has associated
    restoring,        \* waiting blocks that give the delegate back
    fdAttached,       \* the fullscreen recognizer is attached
    onboard,          \* UIKit's recognizer: enabled, guarded by its delegate
    injected,         \* screens with fd_willAppearInjectBlock
    barHidden,        \* navigationBarHidden
    barBlocks         \* waiting blocks of each screen that has disappeared

tzVars == <<naviDelegate, tzNaviDelegate, restoring>>
vars == <<viewControllers, transition, onScreen, loaded, tzVars, fdAttached,
          onboard, injected, barHidden, barBlocks>>

Controllers == Screens \cup {Root}

Nobody == "nobody"
Itself == "itself"

NoTransition == [kind |-> "none", from |-> Root]

Idle == transition.kind = "none"

Top == Last(viewControllers)

StackOK ==
    /\ viewControllers \in Seq(Controllers) \ {<<>>}
    /\ viewControllers[1] = Root
    /\ \A i, j \in 1..Len(viewControllers) :
           viewControllers[i] = viewControllers[j] => i = j

TypeOK ==
    /\ StackOK
    /\ transition \in [kind : {"none", "push", "pop", "swipe"}, from : Controllers]
    /\ onScreen \in BOOLEAN /\ loaded \in BOOLEAN
    /\ naviDelegate \in {Nobody, Itself} /\ tzNaviDelegate \in {Nobody, Itself}
    /\ restoring \in 0..MaxBlocks
    /\ fdAttached \in BOOLEAN
    /\ onboard \in [enabled : BOOLEAN, guarded : BOOLEAN]
    /\ injected \subseteq Controllers
    /\ barHidden \in BOOLEAN
    /\ barBlocks \in [Controllers -> 0..MaxBlocks]

-----------------------------------------------------------------------------
(* initWithRootViewController pushes the root, before the stack has a view: *)
(* whether the onboard recognizer is there yet is UIKit's affair.           *)
Init ==
    /\ viewControllers = <<Root>>
    /\ transition = NoTransition
    /\ onScreen = FALSE /\ loaded = FALSE
    /\ naviDelegate = Nobody /\ tzNaviDelegate = Nobody
    /\ restoring = 0
    /\ fdAttached \in EarlyAttach
    /\ onboard = [enabled |-> ~fdAttached, guarded |-> TRUE]
    /\ injected = {Root}
    /\ barHidden = FALSE
    /\ barBlocks = [c \in Controllers |-> 0]

-----------------------------------------------------------------------------
(*                        FDFullscreenPopGesture                            *)

(* Mutant: only a screen that is pushed looks after the bar.                *)
BarFor_Pushed(c) == IF c \in injected /\ c # Root THEN c \in PrefersHidden
                                                  ELSE barHidden

(* The bar, once viewWillAppear of the screen has run its block.            *)
BarFor(c) == IF c \in injected THEN c \in PrefersHidden ELSE barHidden

(* viewWillDisappear leaves a block on the main queue.                      *)
Disappears(c) ==
    /\ barBlocks[c] < MaxBlocks
    /\ barBlocks' = [barBlocks EXCEPT ![c] = @ + 1]

(* The screen still has a navigation controller.                            *)
InNavigation(c) ==
    \/ c \in ToSet(viewControllers)
    \/ ~Idle /\ transition.from = c

(* Mutant: the block asks the screen that has gone.                         *)
ShowsBar_Gone(c) == InNavigation(c) /\ c \notin PrefersHidden

ShowsBar(c) == InNavigation(c) /\ Top \notin PrefersHidden

BarBlock(c) ==
    /\ barBlocks[c] > 0
    /\ barBlocks' = [barBlocks EXCEPT ![c] = @ - 1]
    /\ barHidden' = (barHidden /\ ~ShowsBar(c))
    /\ UNCHANGED <<viewControllers, transition, onScreen, loaded, tzVars,
                   fdAttached, onboard, injected>>

(* The first push attaches the new recognizer and disables the old one.     *)
Attach ==
    /\ fdAttached' = TRUE
    /\ onboard' = [onboard EXCEPT !.enabled = @ /\ fdAttached]

FdShouldBegin == Len(viewControllers) > 1 /\ Idle

-----------------------------------------------------------------------------
(*                             TZPopGesture                                 *)

(* Mutant: the delegate is associated at the first look, nil or not.        *)
TzNaviDelegate_First == tzNaviDelegate

(* The associated delegate, or else the present one, which is associated.   *)
TzNaviDelegate == IF tzNaviDelegate # Nobody THEN tzNaviDelegate
                                             ELSE naviDelegate

(* Mutant: the guard that is once gone does not come back on the root.      *)
DidShow_Deep(c) ==
    IF naviDelegate = Itself
    THEN [enabled |-> TRUE, guarded |-> onboard.guarded /\ c = Root]
    ELSE onboard

(* didShowViewController, if the stack is its own delegate at that time.    *)
DidShow(c) ==
    IF naviDelegate = Itself THEN [enabled |-> TRUE, guarded |-> c = Root]
                             ELSE onboard

(* tz_addPopGestureToView: the pan it makes never begins, as the page is    *)
(* the root; making it disables the onboard recognizer.                     *)
AddPopGesture == [onboard EXCEPT !.enabled = FALSE]

(* The block of viewWillAppear, 0.2 s later.                                *)
RestoreDelegate ==
    /\ restoring > 0
    /\ restoring' = restoring - 1
    /\ tzNaviDelegate' = TzNaviDelegate
    /\ naviDelegate' = TzNaviDelegate
    /\ UNCHANGED <<viewControllers, transition, onScreen, loaded, fdAttached,
                   onboard, injected, barHidden, barBlocks>>

-----------------------------------------------------------------------------
(*                              The stack                                   *)

(* The root's view loads once; a page then adds its pop gesture.            *)
ViewDidLoad == IF RootIsPage /\ ~loaded THEN AddPopGesture ELSE onboard

(* The tab is selected: the root's view loads, the root and the stack run   *)
(* their viewWillAppear.                                                    *)
Appear ==
    /\ ~onScreen
    /\ restoring < MaxBlocks
    /\ onScreen' = TRUE /\ loaded' = TRUE
    /\ onboard' = ViewDidLoad
    /\ barHidden' = BarFor(Top)
    /\ tzNaviDelegate' = TzNaviDelegate
    /\ naviDelegate' = Itself
    /\ restoring' = restoring + 1
    /\ UNCHANGED <<viewControllers, transition, fdAttached, injected, barBlocks>>

(* UIKit may report the screen that an appearing stack, or a cancelled swipe *)
(* leaves, shows.                                                            *)
Reported ==
    /\ onScreen /\ Idle
    /\ onboard' = DidShow(Top)
    /\ UNCHANGED <<viewControllers, transition, onScreen, loaded, tzVars,
                   fdAttached, injected, barHidden, barBlocks>>

(* Another tab is selected, which takes the tab bar of the root.            *)
Disappear ==
    /\ onScreen /\ Idle /\ Len(viewControllers) = 1
    /\ onScreen' = FALSE
    /\ Disappears(Top)
    /\ UNCHANGED <<viewControllers, transition, loaded, tzVars, fdAttached,
                   onboard, injected, barHidden>>

(* A push makes a new screen, which has no blocks yet.                      *)
NewScreens ==
    {c \in Screens : ~InNavigation(c) /\ barBlocks[c] = 0}

(* A tap on a cell or a header.                                             *)
PushViewController ==
    /\ onScreen /\ Idle
    /\ \E c \in NewScreens :
        /\ Attach
        /\ injected' = injected \cup {c, Top}
        /\ viewControllers' = Append(viewControllers, c)
        /\ transition' = [kind |-> "push", from |-> Top]
        /\ Disappears(Top)
        /\ barHidden' = (c \in PrefersHidden)
    /\ UNCHANGED <<onScreen, loaded, tzVars>>

(* What a pop does first, by the back button or by a swipe.                 *)
BeginPop(kind) ==
    /\ onScreen /\ Idle /\ Len(viewControllers) > 1
    /\ viewControllers' = Front(viewControllers)
    /\ transition' = [kind |-> kind, from |-> Top]
    /\ Disappears(Top)
    /\ barHidden' = BarFor(Last(Front(viewControllers)))
    /\ UNCHANGED <<onScreen, loaded, tzVars, fdAttached, onboard, injected>>

BackBtnDidClick == BeginPop("pop")

OnboardShouldBegin == onboard.enabled /\ (onboard.guarded => FdShouldBegin)

Swipe ==
    /\ \/ fdAttached /\ FdShouldBegin
       \/ OnboardShouldBegin
    /\ BeginPop("swipe")

(* The animation is over; a popped screen is gone.                          *)
Finish ==
    /\ ~Idle
    /\ transition' = NoTransition
    /\ onboard' = DidShow(Top)
    /\ injected' = IF transition.kind = "push" THEN injected
                                               ELSE injected \ {transition.from}
    /\ UNCHANGED <<viewControllers, onScreen, loaded, tzVars, fdAttached,
                   barHidden, barBlocks>>

(* The swipe is given up, and its screen appears again.                     *)
CancelSwipe ==
    /\ transition.kind = "swipe"
    /\ transition' = NoTransition
    /\ viewControllers' = Append(viewControllers, transition.from)
    /\ Disappears(Top)
    /\ barHidden' = BarFor(transition.from)
    /\ UNCHANGED <<onScreen, loaded, tzVars, fdAttached, onboard, injected>>

Next ==
    \/ Appear \/ Reported \/ Disappear
    \/ PushViewController \/ BackBtnDidClick \/ Swipe
    \/ Finish \/ CancelSwipe
    \/ RestoreDelegate
    \/ \E c \in Controllers : BarBlock(c)

Spec == Init /\ [][Next]_vars

-----------------------------------------------------------------------------
(***************************************************************************)
(*                               Properties                                 *)
(***************************************************************************)

(* When nothing moves, the onboard recognizer, if it is enabled, keeps its  *)
(* guard on the root and has none above it: a swipe never begins where      *)
(* there is nothing to pop, and always where there is.  It rests on the     *)
(* delegate that reports the end of each transition, and so on the block    *)
(* that takes it for the one to give back.  didShowViewController,          *)
(* tzPop_viewWillAppear.                                                    *)
GuardFollowsDepth ==
    Idle /\ onboard.enabled => (onboard.guarded <=> Len(viewControllers) = 1)

(* Once the stack has appeared the bar is hidden exactly when the top       *)
(* screen prefers so, in transitions too, through cancelled swipes, and     *)
(* whenever the block of a screen that is gone runs.  fd_viewWillAppear,    *)
(* fd_viewWillDisappear.                                                    *)
BarFollowsTop == loaded => (barHidden <=> Top \in PrefersHidden)

(* "Disable the onboard gesture recognizer": above the root only the        *)
(* fullscreen recognizer pops.  The code breaks it: the end of the push     *)
(* enables the onboard one again.  fd_pushViewController.                   *)
OnlyFullscreenPops ==
    fdAttached /\ Len(viewControllers) > 1 => ~onboard.enabled

=============================================================================
