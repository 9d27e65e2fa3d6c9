-------------------------- MODULE EmptyPlaceholder --------------------------
(***************************************************************************)
(* The placeholder of a paged list: PagedList with EmptyDataSet and the     *)
(* bindings of ViewController and CollectionViewController between them.    *)
(* The placeholder is decided when the list is reloaded with new items and  *)
(* when isLoading changes, which counts both kinds of request.              *)
(***************************************************************************)
EXTENDS PagedList, EmptyDataSet

allVars == <<vars, emptyVars>>

PlaceholderTypeOK == TypeOK /\ EmptyTypeOK

-----------------------------------------------------------------------------
(* The delegate answers from isLoading, which is bound before the reload.   *)
EmptyDataSetShouldDisplay_Before == loading = 0  \* mutant: bound after it

EmptyDataSetShouldDisplay == loading' = 0

(* A reload at the end of a step that may change the list and isLoading.    *)
Reload == ReloadEmptyDataSet(EmptyDataSetShouldDisplay, itemList' # <<>>)

(* Mutant: the placeholder is reloaded only when loading ends.              *)
BindReloadEmpty_AtEnd ==
    IF loading > 0 /\ loading' = 0
    THEN Reload
    ELSE UNCHANGED <<placeholder, isScrollEnabled>>

(* The reload at each change of isLoading.  When a request replaces another *)
(* of its kind isLoading falls and rises again in one step; what shows      *)
(* after it is what showed before.                                          *)
BindReloadEmpty ==
    IF (loading > 0) # (loading' > 0)
    THEN Reload
    ELSE UNCHANGED <<placeholder, isScrollEnabled>>

-----------------------------------------------------------------------------
ListInit == Init /\ EmptyInit

(* beginRefreshingCompletionBlock runs after the refreshing block, at every *)
(* refresh: setUpEmptyDataSet.                                              *)
LoadListAndSetUp ==
    /\ LoadList
    /\ BindReloadEmpty
    /\ emptyDataSetSource' = TRUE

LoadMoreAndReload ==
    /\ LoadMore
    /\ BindReloadEmpty
    /\ UNCHANGED emptyDataSetSource

(* The list is reloaded with the items while the request still counts as    *)
(* loading, and isLoading changes when it completes; the last word is with  *)
(* the list and isLoading after the step.                                   *)
Deliver ==
    /\ ListLoaded \/ MoreLoaded
    /\ Reload
    /\ UNCHANGED emptyDataSetSource

Fail ==
    /\ ListFailed \/ MoreFailed
    /\ BindReloadEmpty
    /\ UNCHANGED emptyDataSetSource

(* A drag past the header takes a list that can be scrolled; one under way  *)
(* when scrolling is disabled still ends, in a release or not.              *)
PullList ==
    /\ isScrollEnabled
    /\ PullHeader
    /\ UNCHANGED <<modelVars, emptyVars>>

OtherGesture ==
    /\ UnpullHeader \/ ReleaseHeader \/ Appear \/ Disappear
    /\ UNCHANGED <<modelVars, emptyVars>>

(* The footer can also be tapped, so it needs no scrolling.                 *)
TapFooter == ScrollToFooter /\ UNCHANGED emptyVars

OtherBlock == (ControlBlock \/ DisposedReply) /\ UNCHANGED emptyVars

RunMain == LoadListAndSetUp \/ LoadMoreAndReload \/ Deliver \/ Fail \/ OtherBlock

DrawList == Draw /\ UNCHANGED emptyVars

EndPull == EndAnimation /\ UNCHANGED emptyVars

AnswersList == ListAnswered /\ UNCHANGED emptyVars

AnswersMore == MoreAnswered /\ UNCHANGED emptyVars

EmptyNext == \/ PullList
             \/ OtherGesture
             \/ TapFooter
             \/ DrawList
             \/ EndPull
             \/ RunMain
             \/ AnswersList
             \/ AnswersMore

EmptySpec == ListInit /\ [][EmptyNext]_allVars

(* As in PagedList: the run loop, UIKit and the network do their part.      *)
EmptyFairness ==
    /\ WF_allVars(RunMain)
    /\ WF_allVars(DrawList)
    /\ WF_allVars(EndPull)
    /\ WF_allVars(AnswersList)
    /\ WF_allVars(AnswersMore)

EmptyFairSpec == EmptySpec /\ EmptyFairness

-----------------------------------------------------------------------------
(***************************************************************************)
(*                               Properties                                 *)
(***************************************************************************)

(* The placeholder is not stale: while it shows, the list has nothing and   *)
(* nothing is asked for, although it is decided at some steps only and the  *)
(* list, both requests and the source change at others.                     *)
(* ViewController.emptyDataSetShouldDisplay, bindReloadEmpty.               *)
PlaceholderIsHonest ==
    placeholder => /\ itemList = <<>>
                   /\ listReq = NoRequest
                   /\ moreReq = NoRequest

(* And it is not missed: a list that has been refreshed once, has nothing   *)
(* and waits for nothing shows it.                                          *)
EmptyListSaysSo ==
    (/\ emptyDataSetSource
     /\ itemList = <<>>
     /\ listReq = NoRequest
     /\ moreReq = NoRequest) => placeholder

(* Scrolling comes back with the items: a list without the placeholder can  *)
(* always be scrolled, and so pulled.  EmptyDataSet invalidate.             *)
ScrollsUnlessPlaceholder == ~placeholder => isScrollEnabled

(* A refresh leads to something to see, items or the placeholder, unless    *)
(* the user leaves the screen; who leaves, comes back and pulls again       *)
(* before the answer can go on so for ever.                                 *)
RefreshShowsSomething ==
    header = "Refreshing" ~> (itemList # <<>> \/ placeholder \/ ~inWindow)

(* "数据源 nil 时是否可以滚动，默认 true": when the server has just answered   *)
(* that it has nothing the device is connected, and the placeholder lets    *)
(* the list be scrolled, and so pulled again.  The code breaks it.          *)
EmptyAnswerCanScroll ==
    [][RunBlock("listOk") /\ placeholder' => isScrollEnabled']_allVars

=============================================================================
