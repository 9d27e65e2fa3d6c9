---------------------------- MODULE RecommendFeed ----------------------------
(***************************************************************************)
(* The portal of the community tab on a RefreshScreen: LDRecommendVM.       *)
(*                                                                          *)
(* A header refresh sends three requests, for the banners, the hot sections *)
(* and the sections of the current page, and zips their answers; a request  *)
(* that fails answers with nothing.  Unlike the paged lists, a refresh asks *)
(* for the page the feed is at, appends what it gets and is not counted in  *)
(* loading.  A footer load asks for the next page and appends it.           *)
(*                                                                          *)
(* The server has NumPages pages with sections; later pages are empty.  The *)
(* feed is kept as the sequence of the pages and hot sections appended.     *)
(***************************************************************************)
EXTENDS RefreshScreen, FiniteSets

CONSTANTS
    NumPages,  \* pages of the server that hold sections
    NumHot,    \* optional hot sections the server sends: limited, latest
    MaxPage,   \* the user loads more only while page is below this
    MaxShown   \* the user refreshes or loads more only while fewer are shown

ASSUME FeedAssumption ==
    /\ NumPages \in Nat /\ NumHot \in 0..2
    /\ MaxPage \in Nat /\ MaxShown \in Nat

VARIABLES
    page,        \* the captured variable page of transform
    itemList,    \* what itemList was put together from, in order
    listPage,    \* page the refresh under way asks for, or NoRequest
    listWire,    \* parts of that refresh the network still owes
    zipped,      \* answered parts the zip holds back, with their outcome
    moreReq,     \* page the footer's request asks for, or NoRequest
    moreWire,    \* the network still owes the answer to moreReq
    loading      \* counter of the ActivityIndicator

feedVars == <<page, itemList, listPage, listWire, zipped, moreReq, moreWire,
              loading>>

vars == <<screenVars, feedVars>>

NoRequest == -1

HotSection == -1

Part == {"banner", "hot", "category"}

(* The completion of a part, and of a load of more, on the main queue.      *)
PartReply(part) ==
    CASE part = "banner"   -> {"banner"}
      [] part = "hot"      -> {"hotOk", "hotFail"}
      [] part = "category" -> {"categoryOk", "categoryFail"}

ListReply == UNION {PartReply(part) : part \in Part}
MoreReply == {"moreOk", "moreFail"}

Succeeded == {"banner", "hotOk", "categoryOk"}

Block == ScreenBlock \cup ListReply \cup MoreReply \cup {"disposed"}

Waiting == DOMAIN zipped

TypeOK ==
    /\ ScreenTypeOK
    /\ mainQueue \in Seq(Block)
    /\ page \in Nat
    /\ itemList \in Seq(Nat \cup {HotSection})
    /\ listPage \in Nat \cup {NoRequest}
    /\ listWire \subseteq Part
    /\ Waiting \subseteq Part /\ \A part \in Waiting : zipped[part] \in BOOLEAN
    /\ moreReq \in Nat \cup {NoRequest}
    /\ moreWire \in BOOLEAN
    /\ loading \in Nat

-----------------------------------------------------------------------------
(* mapObject of the answer for page p.                                      *)
Items(p) == IF p < NumPages THEN <<p>> ELSE <<>>

HotSections == [i \in 1..NumHot |-> HotSection]

(* flatMapLatest disposes of the answers of the request it replaces.        *)
DisposedQueue_Kept(q, replies) == q  \* mutant: flatMap, not flatMapLatest

DisposedQueue(q, replies) ==
    [i \in 1..Len(q) |-> IF q[i] \in replies THEN "disposed" ELSE q[i]]

Init ==
    /\ ScreenInit
    /\ page = 0
    /\ itemList = <<>>
    /\ listPage = NoRequest
    /\ listWire = {}
    /\ zipped = <<>>
    /\ moreReq = NoRequest
    /\ moreWire = FALSE
    /\ loading = 0

(* The header's refreshing block: three requests, the last for page.        *)
LoadList ==
    /\ RunBlock("hdrCallback")
    /\ mainQueue' = DisposedQueue(Tail(mainQueue), ListReply)
    /\ listPage' = page
    /\ listWire' = Part
    /\ zipped' = <<>>
    /\ UNCHANGED <<header, footer, footerHidden, inWindow, animating>>
    /\ UNCHANGED <<page, itemList, moreReq, moreWire, loading>>

(* Mutant: the request is made before the page is counted.                  *)
LoadMore_AskFirst ==
    /\ RunBlock("ftrCallback")
    /\ mainQueue' = DisposedQueue(Tail(mainQueue), MoreReply)
    /\ moreReq' = page
    /\ page' = page + 1
    /\ moreWire' = TRUE
    /\ loading' = IF moreReq = NoRequest THEN loading + 1 ELSE loading
    /\ UNCHANGED <<header, footer, footerHidden, inWindow, animating>>
    /\ UNCHANGED <<itemList, listPage, listWire, zipped>>

(* The footer's refreshing block: then(page += 1), flatMapLatest request.   *)
LoadMore ==
    /\ RunBlock("ftrCallback")
    /\ mainQueue' = DisposedQueue(Tail(mainQueue), MoreReply)
    /\ page' = page + 1
    /\ moreReq' = page'
    /\ moreWire' = TRUE
    /\ loading' = IF moreReq = NoRequest THEN loading + 1 ELSE loading
    /\ UNCHANGED <<header, footer, footerHidden, inWindow, animating>>
    /\ UNCHANGED <<itemList, listPage, listWire, zipped>>

(* The network answers one of the three requests, in any order.             *)
AnswerPart(part, reply) ==
    /\ part \in listWire
    /\ reply \in PartReply(part)
    /\ listWire' = listWire \ {part}
    /\ Post(<<reply>>)
    /\ UNCHANGED <<header, footer, footerHidden, inWindow, animating>>
    /\ UNCHANGED <<page, itemList, listPage, zipped,
                   moreReq, moreWire, loading>>

AnswerMore(reply) ==
    /\ moreWire
    /\ moreWire' = FALSE
    /\ Post(<<reply>>)
    /\ UNCHANGED <<header, footer, footerHidden, inWindow, animating>>
    /\ UNCHANGED <<page, itemList, listPage, listWire, zipped,
                   moreReq, loading>>

-----------------------------------------------------------------------------
(* The answer to one part reaches the zip ...                               *)
PartArrives(part, reply) ==
    /\ RunBlock(reply)
    /\ reply \in PartReply(part)
    /\ Waiting \cup {part} # Part
    /\ RunAndPost(<<>>)
    /\ zipped' = [p \in Waiting \cup {part} |->
                    IF p = part THEN reply \in Succeeded ELSE zipped[p]]
    /\ UNCHANGED <<header, footer, footerHidden, inWindow, animating>>
    /\ UNCHANGED <<page, itemList, listPage, listWire,
                   moreReq, moreWire, loading>>

(* ... and the last part makes it deliver: the sections are appended and    *)
(* the states of the controls driven.  (The banners are left out: they are  *)
(* replaced in the same step, by nothing if their request failed.)          *)
ListDelivered(part, reply) ==
    LET ok(p)    == IF p = part THEN reply \in Succeeded ELSE zipped[p]
        hot      == IF ok("hot") THEN HotSections ELSE <<>>
        category == IF ok("category") THEN Items(listPage) ELSE <<>>
    IN  /\ RunBlock(reply)
        /\ reply \in PartReply(part)
        /\ Waiting \cup {part} = Part
        /\ itemList' = itemList \o hot \o category
        /\ BindFooterState("default")
        /\ RunAndPost(HeaderSuccessBlocks \o FooterStateBlocks("default"))
        /\ listPage' = NoRequest
        /\ zipped' = <<>>
        /\ UNCHANGED <<header, inWindow, animating>>
        /\ UNCHANGED <<page, listWire, moreReq, moreWire, loading>>

(* loadMore delivers: the page is appended and the footer state is driven.  *)
MoreLoaded ==
    LET list  == Items(moreReq)
        state == IF Len(list) > 0 THEN "default" ELSE "noMoreData"
    IN  /\ RunBlock("moreOk")
        /\ itemList' = itemList \o list
        /\ BindFooterState(state)
        /\ RunAndPost(FooterStateBlocks(state))
        /\ moreReq' = NoRequest
        /\ loading' = loading - 1
        /\ UNCHANGED <<header, inWindow, animating, page>>
        /\ UNCHANGED <<listPage, listWire, zipped, moreWire>>

(* trackError of a load of more: both bindings to refreshError run.         *)
MoreFailed ==
    LET state == FooterErrorState(itemList = <<>>)
    IN  /\ RunBlock("moreFail")
        /\ BindFooterState(state)
        /\ RunAndPost(HeaderErrorBlocks \o FooterStateBlocks(state))
        /\ moreReq' = NoRequest
        /\ loading' = loading - 1
        /\ UNCHANGED <<header, inWindow, animating, page, itemList>>
        /\ UNCHANGED <<listPage, listWire, zipped, moreWire>>

-----------------------------------------------------------------------------
(* An answer whose subscription was disposed of still has its turn, to no   *)
(* effect.                                                                  *)
DisposedReply ==
    /\ RunBlock("disposed")
    /\ RunAndPost(<<>>)
    /\ UNCHANGED <<header, footer, footerHidden, inWindow, animating>>
    /\ UNCHANGED feedVars

-----------------------------------------------------------------------------
ScrollToFooter ==
    /\ page < MaxPage
    /\ Len(itemList) < MaxShown
    /\ ReachFooter
    /\ UNCHANGED feedVars

PullDown == Len(itemList) < MaxShown /\ PullHeader /\ UNCHANGED feedVars

Gesture ==
    /\ UnpullHeader \/ ReleaseHeader \/ Appear \/ Disappear
    /\ UNCHANGED feedVars

ControlBlock == MainQueueStep /\ UNCHANGED feedVars

PartBlock == \E part \in Part, reply \in ListReply :
                PartArrives(part, reply) \/ ListDelivered(part, reply)

RunMainQueue == ControlBlock \/ LoadList \/ LoadMore \/ PartBlock
                \/ MoreLoaded \/ MoreFailed \/ DisposedReply

Draw == DrawHeader /\ UNCHANGED feedVars

EndAnimation == AnimationDone /\ UNCHANGED feedVars

PartAnswered(part) == \E reply \in PartReply(part) : AnswerPart(part, reply)

MoreAnswered == \E reply \in MoreReply : AnswerMore(reply)

Next == \/ ScrollToFooter
        \/ PullDown
        \/ Gesture
        \/ Draw
        \/ EndAnimation
        \/ RunMainQueue
        \/ \E part \in Part : PartAnswered(part)
        \/ MoreAnswered

Spec == Init /\ [][Next]_vars

(* As for the paged lists; each of the three requests ends by itself.       *)
Fairness ==
    /\ WF_vars(RunMainQueue)
    /\ WF_vars(Draw)
    /\ WF_vars(EndAnimation)
    /\ \A part \in Part : WF_vars(PartAnswered(part))
    /\ WF_vars(MoreAnswered)

FairSpec == Spec /\ Fairness

-----------------------------------------------------------------------------
(***************************************************************************)
(*                               Properties                                 *)
(***************************************************************************)

(* A refreshing header has something under way that will make it idle.      *)
(* The refresh never ends by an error; the zip alone ends it.               *)
(* LDRecommendVM.transform, CollectionViewController.bindHeader.            *)
HeaderSpinnerIsBacked ==
    header = "Refreshing" =>
        \/ Queued("hdrAnimate")
        \/ animating > 0
        \/ Queued("hdrCallback")
        \/ listPage # NoRequest
        \/ Queued("hdrIdle")

(* The zip puts together the three answers of one refresh: while a refresh  *)
(* is under way each of its parts is on the wire, in the queue or in the    *)
(* zip, exactly once, and otherwise nowhere.  An answer of a replaced       *)
(* refresh in the zip would pair the banners of one with the sections of    *)
(* another for ever after.  The flatMapLatest and Driver.zip of loadList.   *)
QueuedParts(part) ==
    Cardinality({i \in 1..Len(mainQueue) : mainQueue[i] \in PartReply(part)})

ZipOfOneRefresh ==
    \A part \in Part :
        QueuedParts(part) + (IF part \in listWire THEN 1 ELSE 0)
                          + (IF part \in Waiting THEN 1 ELSE 0)
            = IF listPage = NoRequest THEN 0 ELSE 1

(* What holds between any two steps of the feed: the types, a refreshing    *)
(* header is backed, and the zip is of one refresh.                         *)
FeedInvariant == TypeOK /\ HeaderSpinnerIsBacked /\ ZipOfOneRefresh

(* Every page of the server up to page is shown or asked for.               *)
Asked == {listPage, moreReq}

Shown == {itemList[i] : i \in 1..Len(itemList)}

NoPageMissing == \A p \in 0..page : p < NumPages => p \in Shown \cup Asked

(* The page of the refresh is not among what the zip delivers.              *)
CategoryFails ==
    \/ RunBlock("categoryFail")
    \/ "category" \in Waiting /\ ~zipped["category"]

(* A page goes missing only when the request for it fails or is replaced.   *)
(* The footer stays hidden until the first refresh was delivered, a refresh *)
(* asks for the page the feed is at and never takes page back, so no other  *)
(* order of gestures and answers loses a page.  LDRecommendVM.transform.    *)
PageLostOnlyByFailureOrReplacement ==
    [][NoPageMissing /\ ~NoPageMissing' =>
           \/ RunBlock("moreFail")
           \/ CategoryFails
           \/ RunBlock("hdrCallback") /\ listPage # NoRequest
           \/ RunBlock("ftrCallback") /\ moreReq # NoRequest]_vars

(* "是否正在加载": loading is positive while a request is under way.  The     *)
(* code breaks it: the requests of a refresh are not tracked.               *)
LoadingMeansRequests ==
    (listPage # NoRequest \/ moreReq # NoRequest) => loading > 0

(* The header never refreshes for ever, whatever fails.                     *)
HeaderSettles == header = "Refreshing" ~> header # "Refreshing"

=============================================================================
