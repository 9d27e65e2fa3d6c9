------------------------------ MODULE PagedList ------------------------------
(***************************************************************************)
(* A paged list on a RefreshScreen: the view models LDRecommendMoreVM,      *)
(* LDTeacherVM, LDTeacherCourseVM and LDMaterialListVM, which share one     *)
(* transform.  A header refresh asks for page 0 and replaces the list; a    *)
(* footer load asks for the next page and appends it.  Each kind of request *)
(* goes through a flatMapLatest, so a new request of a kind disposes of the *)
(* one under way, but the two kinds know nothing of each other.             *)
(*                                                                          *)
(* The server has NumPages pages with items; every later page is empty.     *)
(* The list is kept as the sequence of the pages it was put together from.  *)
(***************************************************************************)
EXTENDS RefreshScreen

CONSTANTS
    NumPages,  \* pages of the server that hold items
    MaxPage,   \* the user loads more only while page is below this
    MaxShown   \* ... and while the list has fewer pages than this

ASSUME PagesAssumption ==
    NumPages \in Nat /\ MaxPage \in Nat /\ MaxShown \in Nat

VARIABLES
    page,      \* the captured variable page of transform
    itemList,  \* the pages of itemList, in order
    listReq,   \* page the header's request asks for, or NoRequest
    moreReq,   \* page the footer's request asks for, or NoRequest
    listWire,  \* the network still owes the answer to listReq
    moreWire,  \* the network still owes the answer to moreReq
    loading    \* counter of the ActivityIndicator

modelVars == <<page, itemList, listReq, moreReq, listWire, moreWire, loading>>

vars == <<screenVars, modelVars>>

NoRequest == -1

ListReply == {"listOk", "listFail"}
MoreReply == {"moreOk", "moreFail"}

(* An answer whose subscription was disposed of still runs, to no effect.   *)
Block == ScreenBlock \cup ListReply \cup MoreReply \cup {"disposed"}

TypeOK ==
    /\ ScreenTypeOK
    /\ mainQueue \in Seq(Block)
    /\ page \in Nat
    /\ itemList \in Seq(Nat)
    /\ listReq \in {0, NoRequest}
    /\ moreReq \in (Nat \ {0}) \cup {NoRequest}
    /\ listWire \in BOOLEAN
    /\ moreWire \in BOOLEAN
    /\ loading \in Int

-----------------------------------------------------------------------------
(* mapObject of the answer for page p.                                      *)
Items(p) == IF p < NumPages THEN <<p>> ELSE <<>>

(* The queue after the subscription to a request is disposed of.            *)
DisposedQueue_Kept(q, replies) == q  \* mutant: flatMap, not flatMapLatest

DisposedQueue(q, replies) ==
    [i \in 1..Len(q) |-> IF q[i] \in replies THEN "disposed" ELSE q[i]]

(* trackActivity: one up for the new request, one down for a disposed one.  *)
LoadingAfterStart_Leak(old) == loading + 1  \* mutant: disposal keeps the token

LoadingAfterStart(old) ==
    IF old = NoRequest THEN loading + 1 ELSE loading

-----------------------------------------------------------------------------
Init ==
    /\ ScreenInit
    /\ page = 0
    /\ itemList = <<>>
    /\ listReq = NoRequest
    /\ moreReq = NoRequest
    /\ listWire = FALSE
    /\ moreWire = FALSE
    /\ loading = 0

(* Mutant: no then(page = 0), as in LDRecommendVM.                          *)
LoadList_KeepPage ==
    /\ RunBlock("hdrCallback")
    /\ mainQueue' = DisposedQueue(Tail(mainQueue), ListReply)
    /\ listReq' = page
    /\ listWire' = TRUE
    /\ loading' = LoadingAfterStart(listReq)
    /\ UNCHANGED <<header, footer, footerHidden, inWindow, animating>>
    /\ UNCHANGED <<page, itemList, moreReq, moreWire>>

(* The header's refreshing block: then(page = 0), flatMapLatest request.    *)
LoadList ==
    /\ RunBlock("hdrCallback")
    /\ mainQueue' = DisposedQueue(Tail(mainQueue), ListReply)
    /\ page' = 0
    /\ listReq' = page'
    /\ listWire' = TRUE
    /\ loading' = LoadingAfterStart(listReq)
    /\ UNCHANGED <<header, footer, footerHidden, inWindow, animating>>
    /\ UNCHANGED <<itemList, moreReq, moreWire>>

(* The footer's refreshing block: then(page += 1), flatMapLatest request.   *)
LoadMore ==
    /\ RunBlock("ftrCallback")
    /\ mainQueue' = DisposedQueue(Tail(mainQueue), MoreReply)
    /\ page' = page + 1
    /\ moreReq' = page'
    /\ moreWire' = TRUE
    /\ loading' = LoadingAfterStart(moreReq)
    /\ UNCHANGED <<header, footer, footerHidden, inWindow, animating>>
    /\ UNCHANGED <<itemList, listReq, listWire>>

(* The network answers, with items or an error (20 s timeout included), by  *)
(* posting the completion of the request to the main queue.                 *)
AnswerList(reply) ==
    /\ listWire
    /\ listWire' = FALSE
    /\ Post(<<reply>>)
    /\ UNCHANGED <<header, footer, footerHidden, inWindow, animating>>
    /\ UNCHANGED <<page, itemList, listReq, moreReq, moreWire, loading>>

AnswerMore(reply) ==
    /\ moreWire
    /\ moreWire' = FALSE
    /\ Post(<<reply>>)
    /\ UNCHANGED <<header, footer, footerHidden, inWindow, animating>>
    /\ UNCHANGED <<page, itemList, listReq, moreReq, listWire, loading>>

(* loadList delivers: the list is replaced, then the header state and the   *)
(* footer state are driven; the completion ends the activity.               *)
ListLoaded ==
    /\ RunBlock("listOk")
    /\ itemList' = Items(listReq)
    /\ BindFooterState("default")
    /\ RunAndPost(HeaderSuccessBlocks \o FooterStateBlocks("default"))
    /\ listReq' = NoRequest
    /\ loading' = loading - 1
    /\ UNCHANGED <<header, inWindow, animating, page, moreReq, listWire, moreWire>>

(* loadMore delivers: the page is appended and the footer state is driven.  *)
MoreLoaded ==
    LET list  == Items(moreReq)
        state == IF Len(list) > 0 THEN "default" ELSE "noMoreData"
    IN  /\ RunBlock("moreOk")
        /\ itemList' = itemList \o list
        /\ BindFooterState(state)
        /\ RunAndPost(FooterStateBlocks(state))
        /\ moreReq' = NoRequest
        /\ loading' = loading - 1
        /\ UNCHANGED <<header, inWindow, animating, page, listReq, listWire, moreWire>>

(* trackError: both bindings to refreshError run, for either request.       *)
RefreshError ==
    LET state == FooterErrorState(itemList = <<>>)
    IN  /\ BindFooterState(state)
        /\ RunAndPost(HeaderErrorBlocks \o FooterStateBlocks(state))
        /\ loading' = loading - 1

ListFailed ==
    /\ RunBlock("listFail")
    /\ RefreshError
    /\ listReq' = NoRequest
    /\ UNCHANGED <<header, inWindow, animating>>
    /\ UNCHANGED <<page, itemList, moreReq, listWire, moreWire>>

MoreFailed ==
    /\ RunBlock("moreFail")
    /\ RefreshError
    /\ moreReq' = NoRequest
    /\ UNCHANGED <<header, inWindow, animating>>
    /\ UNCHANGED <<page, itemList, listReq, listWire, moreWire>>

DisposedReply ==
    /\ RunBlock("disposed")
    /\ RunAndPost(<<>>)
    /\ UNCHANGED <<header, footer, footerHidden, inWindow, animating>>
    /\ UNCHANGED modelVars

-----------------------------------------------------------------------------
(* The user loads more only within the bounds of the instance.              *)
ScrollToFooter ==
    /\ page < MaxPage
    /\ Len(itemList) < MaxShown
    /\ ReachFooter
    /\ UNCHANGED modelVars

Gesture ==
    /\ PullHeader \/ UnpullHeader \/ ReleaseHeader \/ Appear \/ Disappear
    /\ UNCHANGED modelVars

ControlBlock == MainQueueStep /\ UNCHANGED modelVars

ReplyBlock == ListLoaded \/ ListFailed \/ MoreLoaded \/ MoreFailed
              \/ DisposedReply

(* One turn of the main queue.                                              *)
RunMainQueue == ControlBlock \/ LoadList \/ LoadMore \/ ReplyBlock

Draw == DrawHeader /\ UNCHANGED modelVars

EndAnimation == AnimationDone /\ UNCHANGED modelVars

ListAnswered == \E reply \in ListReply : AnswerList(reply)

MoreAnswered == \E reply \in MoreReply : AnswerMore(reply)

Next == \/ ScrollToFooter
        \/ Gesture
        \/ Draw
        \/ EndAnimation
        \/ RunMainQueue
        \/ ListAnswered
        \/ MoreAnswered

Spec == Init /\ [][Next]_vars

(* The run loop serves the main queue, UIKit draws and ends animations, and *)
(* every request ends: the session configuration gives up after 20 s.  The  *)
(* user owes nothing.                                                       *)
Fairness ==
    /\ WF_vars(RunMainQueue)
    /\ WF_vars(Draw)
    /\ WF_vars(EndAnimation)
    /\ WF_vars(ListAnswered)
    /\ WF_vars(MoreAnswered)

FairSpec == Spec /\ Fairness

-----------------------------------------------------------------------------
(***************************************************************************)
(*                               Properties                                 *)
(***************************************************************************)

(* A refreshing header has something under way that will make it idle: the  *)
(* animation and the callback that start the request, the request itself,   *)
(* or the block that ends the refresh.  Otherwise it would spin for ever.   *)
(* CollectionViewController.bindHeader, MJRefreshHeader.setState.           *)
HeaderSpinnerIsBacked ==
    header = "Refreshing" =>
        \/ Queued("hdrAnimate")
        \/ animating > 0
        \/ Queued("hdrCallback")
        \/ listReq # NoRequest
        \/ Queued("hdrIdle")

(* The same for a footer that shows its load-more spinner, although the     *)
(* Binder ignores states, refreshes reset the footer and errors of the      *)
(* other request hide it.  CollectionViewController.bindFooter.             *)
FooterSpinnerIsBacked ==
    footer = "Refreshing" =>
        \/ Queued("ftrCallback")
        \/ moreReq # NoRequest
        \/ Queued("ftrIdle")
        \/ Queued("ftrNoMore")

(* Neither spinner is left with nothing that will stop it.                  *)
SpinnersAreBacked == HeaderSpinnerIsBacked /\ FooterSpinnerIsBacked

(* The activity counter behind isLoading is the number of requests under    *)
(* way: a request that is disposed of, fails or completes gives its token   *)
(* back exactly once.  ViewModel.loading, the trackActivity of request.     *)
LoadingCountsRequests ==
    loading = (IF listReq = NoRequest THEN 0 ELSE 1)
            + (IF moreReq = NoRequest THEN 0 ELSE 1)

(* A request under way is owed exactly one answer, which is either still on *)
(* the wire or waits in the queue, once; and without a request no answer is *)
(* delivered.  So an answer queued before its request is replaced is never  *)
(* taken for the answer to the new one, and no request is forgotten.        *)
(* The two flatMapLatest of transform.                                      *)
Single(q, replies) ==
    \A i, j \in 1..Len(q) : q[i] \in replies /\ q[j] \in replies => i = j

HasNone(q, replies) == \A b \in replies : ~Has(q, b)

OwedOnce(q, replies, req, wire) ==
    /\ Single(q, replies)
    /\ wire => HasNone(q, replies)
    /\ req # NoRequest <=> wire \/ ~HasNone(q, replies)

AnswersHaveRequests ==
    /\ OwedOnce(mainQueue, ListReply, listReq, listWire)
    /\ OwedOnce(mainQueue, MoreReply, moreReq, moreWire)

(* Each request is counted once and answered once.                          *)
RequestsAreAccounted == LoadingCountsRequests /\ AnswersHaveRequests

(* More is loaded, and no more is announced, only below a list that shows    *)
(* something: the footer stays hidden until a first page has arrived, and   *)
(* nothing empties the list again.  startWith(.hidden) of the view models,  *)
(* the .hidden of a failed first refresh in bindFooter.                     *)
NothingBelowAnEmptyList ==
    (NumPages > 0 /\ itemList = <<>>) =>
        /\ footerHidden
        /\ footer = "Idle"
        /\ moreReq = NoRequest
        /\ ~Queued("ftrCallback")
        /\ ~Queued("ftrNoMore")

(* The first n pages of the server.                                         *)
FirstPages(n) == [i \in 1..(IF n < NumPages THEN n ELSE NumPages) |-> i - 1]

(* The list shows the pages 0 .. page, and what is requested continues it.  *)
InStep ==
    \/ /\ listReq = NoRequest /\ moreReq = NoRequest
       /\ itemList = FirstPages(page + 1) \/ (itemList = <<>> /\ page = 0)
    \/ /\ listReq = 0 /\ moreReq = NoRequest
       /\ page = 0
    \/ /\ listReq = NoRequest /\ moreReq = page
       /\ itemList = FirstPages(page)

RequestFails == RunBlock("listFail") \/ RunBlock("moreFail")

RequestsOverlap == \/ RunBlock("hdrCallback") /\ moreReq # NoRequest
                   \/ RunBlock("ftrCallback") /\ listReq # NoRequest
                   \/ RunBlock("ftrCallback") /\ moreReq # NoRequest

(* The list stops being the prefix of the server's pages that page says it  *)
(* is, with a page twice or skipped, only when a request fails or the two   *)
(* kinds of request overlap; no order of blocks, gestures and answers       *)
(* without those does it.  transform of the paged view models.              *)
OutOfStepOnlyByFailureOrOverlap ==
    [][InStep /\ ~InStep' => RequestFails \/ RequestsOverlap]_vars

(* The header never refreshes for ever ...                                  *)
HeaderSettles == header = "Refreshing" ~> header # "Refreshing"

(* ... nor does the footer.                                                 *)
FooterSettles == footer = "Refreshing" ~> footer # "Refreshing"

(* No spinner spins for ever.                                               *)
SpinnersStop == HeaderSettles /\ FooterSettles

(* "没有更多数据": a footer at rest that says there is no more data stands   *)
(* below a list that shows every page of the server.  The code breaks it.   *)
AtRest == mainQueue = <<>> /\ listReq = NoRequest /\ moreReq = NoRequest

NoMoreDataMeansAllShown ==
    (AtRest /\ footer = "NoMoreData") =>
        \A p \in 0..(NumPages - 1) :
            \E i \in 1..Len(itemList) : itemList[i] = p

=============================================================================
