---------------------------- MODULE RefreshScreen ----------------------------
(***************************************************************************)
(* One list screen of the app: the pull-to-refresh header and the          *)
(* load-more footer (MJRefresh), the main queue both of them defer their    *)
(* work to, the gestures of the user, and the bindings that carry the       *)
(* answers of a view model back to the two controls                         *)
(* (Base/Controller/CollectionViewController.swift and its twin             *)
(* TableViewController.swift).                                              *)
(*                                                                          *)
(* All of it runs on the main thread.  The code is nevertheless             *)
(* concurrent: a control that changes state posts a block to the main       *)
(* queue and returns, so a gesture, a network answer or another block can   *)
(* run before that block does.  A block is a step of this model, and what   *)
(* a block calls synchronously is part of its step.                         *)
(*                                                                          *)
(* The module leaves open what a refresh or a load-more requests; a view    *)
(* model module extends it and defines the blocks "hdrCallback",            *)
(* "ftrCallback" and the answers of its requests.                           *)
(***************************************************************************)
EXTENDS Integers, Sequences

CONSTANTS
    MaxBacklog  \* a gesture is made only while fewer blocks than this wait

ASSUME MaxBacklogAssumption == MaxBacklog \in Nat

VARIABLES
    header,        \* state of the MJRefreshHeader
    footer,        \* state of the MJRefreshAutoFooter
    footerHidden,  \* footer.isHidden
    inWindow,      \* the screen is in a window
    animating,     \* number of header inset animations under way
    mainQueue      \* blocks posted to the main queue, in order

screenVars == <<header, footer, footerHidden, inWindow, animating, mainQueue>>

HeaderState == {"Idle", "Pulling", "Refreshing", "WillRefresh"}
FooterState == {"Idle", "Refreshing", "NoMoreData"}

(* What a view model tells the footer (RxMJRefreshFooterState).             *)
RxMJRefreshFooterState == {"default", "noMoreData", "hidden"}

(* The blocks the two controls post.                                        *)
ScreenBlock == {"hdrAnimate",   \* start the inset animation of the header
                "hdrCallback",  \* run the refreshing block of the header
                "hdrIdle",      \* header.state = Idle
                "ftrCallback",  \* run the refreshing block of the footer
                "ftrIdle",      \* footer.state = Idle
                "ftrNoMore"}    \* footer.state = NoMoreData

ScreenTypeOK ==
    /\ header \in HeaderState
    /\ footer \in FooterState
    /\ footerHidden \in BOOLEAN
    /\ inWindow \in BOOLEAN
    /\ animating \in Nat

-----------------------------------------------------------------------------
(* The main queue.                                                          *)

Has(q, b) == \E i \in 1..Len(q) : q[i] = b

Queued(b) == Has(mainQueue, b)

(* The main run loop takes the block b; what b posts goes behind the rest.  *)
RunBlock(b) == mainQueue # <<>> /\ Head(mainQueue) = b

Post(blocks) == mainQueue' = mainQueue \o blocks

RunAndPost(blocks) == mainQueue' = Tail(mainQueue) \o blocks

(* A person makes a gesture only every few frames, so few blocks wait then. *)
UserMayAct == inWindow /\ Len(mainQueue) + animating < MaxBacklog

-----------------------------------------------------------------------------
(* viewDidLoad has run: setupUI called beginHeaderRefresh outside a window, *)
(* and transform drove .hidden (startWith) into the footer.                 *)

ScreenInit ==
    /\ header = "WillRefresh"
    /\ footer = "Idle"
    /\ footerHidden = TRUE
    /\ inWindow = FALSE
    /\ animating = 0
    /\ mainQueue = <<"ftrIdle">>

-----------------------------------------------------------------------------
(* The header.                                                              *)

(* beginRefreshing of a header that has a window: setState(Refreshing).     *)
BeginHeader ==
    /\ header' = "Refreshing"
    /\ Post(IF header = "Refreshing" THEN <<>> ELSE <<"hdrAnimate">>)

(* The user drags the list down past the height of the header ...           *)
PullHeader ==
    /\ UserMayAct
    /\ header = "Idle"
    /\ header' = "Pulling"
    /\ UNCHANGED <<footer, footerHidden, inWindow, animating, mainQueue>>

(* ... drags it back up without letting go ...                              *)
UnpullHeader ==
    /\ inWindow
    /\ header = "Pulling"
    /\ header' = "Idle"
    /\ UNCHANGED <<footer, footerHidden, inWindow, animating, mainQueue>>

(* ... or lets go of it.                                                    *)
ReleaseHeader ==
    /\ inWindow
    /\ header = "Pulling"
    /\ BeginHeader
    /\ UNCHANGED <<footer, footerHidden, inWindow, animating>>

(* drawRect turns a refresh asked for before the screen was shown into one. *)
DrawHeader ==
    /\ inWindow
    /\ header = "WillRefresh"
    /\ BeginHeader
    /\ UNCHANGED <<footer, footerHidden, inWindow, animating>>

AnimateHeader ==
    /\ RunBlock("hdrAnimate")
    /\ RunAndPost(<<>>)
    /\ animating' = animating + 1
    /\ UNCHANGED <<header, footer, footerHidden, inWindow>>

(* The completion of the animation calls executeRefreshingCallback, whatever *)
(* the state of the header is by then.                                      *)
AnimationDone ==
    /\ animating > 0
    /\ animating' = animating - 1
    /\ Post(<<"hdrCallback">>)
    /\ UNCHANGED <<header, footer, footerHidden, inWindow>>

IdleHeader ==
    /\ RunBlock("hdrIdle")
    /\ RunAndPost(<<>>)
    /\ header' = "Idle"
    /\ UNCHANGED <<footer, footerHidden, inWindow, animating>>

-----------------------------------------------------------------------------
(* The footer.                                                              *)

(* The user scrolls, drags or taps the idle footer at the end of the list.  *)
ReachFooter ==
    /\ UserMayAct
    /\ footer = "Idle"
    /\ ~footerHidden
    /\ footer' = "Refreshing"
    /\ Post(<<"ftrCallback">>)
    /\ UNCHANGED <<header, footerHidden, inWindow, animating>>

IdleFooter ==
    /\ RunBlock("ftrIdle")
    /\ RunAndPost(<<>>)
    /\ footer' = "Idle"
    /\ UNCHANGED <<header, footerHidden, inWindow, animating>>

NoMoreFooter ==
    /\ RunBlock("ftrNoMore")
    /\ RunAndPost(<<>>)
    /\ footer' = "NoMoreData"
    /\ UNCHANGED <<header, footerHidden, inWindow, animating>>

(* The Binder refreshFooterState ignores everything once the footer says    *)
(* NoMoreData; hiding a shown footer makes it Idle at once.                 *)
BindFooterState(s) ==
    IF footer = "NoMoreData"
    THEN UNCHANGED <<footer, footerHidden>>
    ELSE /\ footerHidden' = (s = "hidden")
         /\ footer' = IF s = "hidden" /\ ~footerHidden THEN "Idle" ELSE footer

(* Mutant: the footer is shown or hidden but never made Idle.               *)
FooterStateBlocks_NeverIdle(s) ==
    IF footer = "NoMoreData" THEN <<>>
    ELSE IF s = "noMoreData" THEN <<"ftrNoMore">> ELSE <<>>

(* Mutant: an empty page leaves the footer as it is.                        *)
FooterStateBlocks_NeverNoMore(s) ==
    IF footer = "NoMoreData" \/ s = "noMoreData" THEN <<>> ELSE <<"ftrIdle">>

FooterStateBlocks(s) ==
    IF footer = "NoMoreData" THEN <<>>
    ELSE IF s = "noMoreData" THEN <<"ftrNoMore">> ELSE <<"ftrIdle">>

-----------------------------------------------------------------------------
(* The screen enters and leaves its window: tab switch, push, pop.          *)

Appear ==
    /\ ~inWindow
    /\ inWindow' = TRUE
    /\ UNCHANGED <<header, footer, footerHidden, animating, mainQueue>>

(* A header that leaves the window while it refreshes is made Idle.         *)
Disappear ==
    /\ UserMayAct
    /\ inWindow' = FALSE
    /\ Post(IF header \in {"Refreshing", "WillRefresh"} THEN <<"hdrIdle">>
                                                         ELSE <<>>)
    /\ UNCHANGED <<header, footer, footerHidden, animating>>

-----------------------------------------------------------------------------
(* What the bindings of the controller do with the answers of a view model. *)

(* headerRefreshState delivers false: resetNoMoreData, then endRefreshing.  *)
HeaderSuccessBlocks_FooterOnly == <<"ftrIdle">>  \* mutant: header not driven

HeaderSuccessBlocks == <<"ftrIdle", "hdrIdle">>

(* refreshError delivers: endRefreshing on the header, whoever failed ...   *)
HeaderErrorBlocks_Unbound == <<>>  \* mutant: only success is bound

HeaderErrorBlocks == <<"hdrIdle">>

(* ... and the footer is hidden when the list shows nothing.                *)

FooterErrorState(isTotalDataEmpty) ==
    IF isTotalDataEmpty THEN "hidden" ELSE "default"

-----------------------------------------------------------------------------
(* The steps of the screen that no request answers.                         *)

UserStep == \/ PullHeader
            \/ UnpullHeader
            \/ ReleaseHeader
            \/ ReachFooter
            \/ Appear
            \/ Disappear

MainQueueStep == \/ AnimateHeader
                 \/ IdleHeader
                 \/ IdleFooter
                 \/ NoMoreFooter

ScreenStep == \/ UserStep
              \/ DrawHeader
              \/ AnimationDone
              \/ MainQueueStep

=============================================================================
