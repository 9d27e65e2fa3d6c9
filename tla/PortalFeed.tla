----------------------------- MODULE PortalFeed -----------------------------
(***************************************************************************)
(* The portals of the college tab and of today's recommendations on a       *)
(* RefreshScreen without a footer: LDCollegeVM and LDTodayRecommendVM.  A    *)
(* refresh sends two requests, zips their answers and replaces banners and  *)
(* sections by them; a request that fails answers with nothing.  No request *)
(* is tracked, so isLoading is always false and the placeholder is decided  *)
(* only when the two lists are reloaded.                                    *)
(*                                                                          *)
(* Refreshes are numbered in the order in which they start, and what is     *)
(* shown is known by the number of the refresh it comes from.               *)
(***************************************************************************)
EXTENDS RefreshScreen, EmptyDataSet

CONSTANTS
    MaxRefreshes  \* the user pulls only while fewer refreshes have started

ASSUME RefreshesAssumption == MaxRefreshes \in Nat

VARIABLES
    refreshes,   \* refreshes started
    listReq,     \* number of the refresh under way, or NoRequest
    listWire,    \* parts of it the network still owes
    zipped,      \* answered parts the zip holds back, with what they brought
    shown,       \* number of the refresh delivered last
    bannerList,  \* refresh the banners come from, or Nothing
    itemList     \* refresh the sections come from, or Nothing

requestVars == <<refreshes, listReq, listWire, zipped>>

pageVars == <<shown, bannerList, itemList>>

vars == <<screenVars, emptyVars, requestVars, pageVars>>

NoRequest == 0

Nothing == 0

Part == {"banner", "category"}

(* The completion of a part on the main queue, with items or without: an    *)
(* error, or an answer that is empty.                                       *)
PartReply(part) == IF part = "banner" THEN {"bannerItems", "bannerNone"}
                                      ELSE {"categoryItems", "categoryNone"}

ListReply == UNION {PartReply(part) : part \in Part}

WithItems == {"bannerItems", "categoryItems"}

Block == ScreenBlock \cup ListReply \cup {"disposed"}

Waiting == DOMAIN zipped

TypeOK ==
    /\ ScreenTypeOK
    /\ EmptyTypeOK
    /\ mainQueue \in Seq(Block)
    /\ refreshes \in Nat
    /\ listReq \in 0..refreshes
    /\ listWire \subseteq Part
    /\ Waiting \subseteq Part /\ Waiting # Part
    /\ \A part \in Waiting : zipped[part] \in 0..refreshes
    /\ shown \in 0..refreshes
    /\ bannerList \in 0..refreshes
    /\ itemList \in 0..refreshes

-----------------------------------------------------------------------------
(* flatMapLatest disposes of the answers of the request it replaces.        *)
DisposedQueue(q, replies) ==
    [i \in 1..Len(q) |-> IF q[i] \in replies THEN "disposed" ELSE q[i]]

(* The screen has no footer, so no state of one is posted.                  *)
Init ==
    /\ header = "WillRefresh"
    /\ footer = "Idle" /\ footerHidden = TRUE
    /\ inWindow = FALSE
    /\ animating = 0
    /\ mainQueue = <<>>
    /\ EmptyInit
    /\ refreshes = 0
    /\ listReq = NoRequest
    /\ listWire = {}
    /\ zipped = <<>>
    /\ shown = 0
    /\ bannerList = Nothing
    /\ itemList = Nothing

(* Mutant: each request in a flatMapLatest of its own, zipped outside.      *)
LoadList_ZipOutside ==
    /\ RunBlock("hdrCallback")
    /\ mainQueue' = DisposedQueue(Tail(mainQueue), ListReply)
    /\ refreshes' = refreshes + 1
    /\ listReq' = refreshes'
    /\ listWire' = Part
    /\ emptyDataSetSource' = TRUE
    /\ UNCHANGED <<header, footer, footerHidden, inWindow, animating>>
    /\ UNCHANGED <<zipped, pageVars, placeholder, isScrollEnabled>>

(* The header's refreshing block: two requests in a new zip; then           *)
(* setUpEmptyDataSet, the completion block of the refresh.                  *)
LoadList ==
    /\ RunBlock("hdrCallback")
    /\ mainQueue' = DisposedQueue(Tail(mainQueue), ListReply)
    /\ refreshes' = refreshes + 1
    /\ listReq' = refreshes'
    /\ listWire' = Part
    /\ zipped' = <<>>
    /\ emptyDataSetSource' = TRUE
    /\ UNCHANGED <<header, footer, footerHidden, inWindow, animating>>
    /\ UNCHANGED <<pageVars, placeholder, isScrollEnabled>>

(* The network answers one of the two requests, in any order.               *)
AnswerPart(part, reply) ==
    /\ part \in listWire
    /\ reply \in PartReply(part)
    /\ listWire' = listWire \ {part}
    /\ Post(<<reply>>)
    /\ UNCHANGED <<header, footer, footerHidden, inWindow, animating>>
    /\ UNCHANGED <<emptyVars, refreshes, listReq, zipped, pageVars>>

-----------------------------------------------------------------------------
(* What the answer to a part brings.                                        *)
Brought(reply) == IF reply \in WithItems THEN listReq ELSE Nothing

(* The answer to one part reaches the zip ...                               *)
PartArrives(part, reply) ==
    /\ RunBlock(reply)
    /\ reply \in PartReply(part)
    /\ Waiting \cup {part} # Part
    /\ RunAndPost(<<>>)
    /\ zipped' = [p \in Waiting \cup {part} |->
                    IF p = part THEN Brought(reply) ELSE zipped[p]]
    /\ UNCHANGED <<header, footer, footerHidden, inWindow, animating>>
    /\ UNCHANGED <<emptyVars, refreshes, listReq, listWire, pageVars>>

DeliveredBlocks_Forgotten == <<>>  \* mutant: loadList does not drive the state

DeliveredBlocks == <<"hdrIdle">>

(* Mutant: the list is reloaded with the banners, before it has the items.  *)
ReloadPage_WithBanners == ReloadEmptyDataSet(TRUE, itemList # Nothing)

(* The list is reloaded with the banners and once more with the sections,   *)
(* which alone are counted; isLoading is false.                             *)
ReloadPage == ReloadEmptyDataSet(TRUE, itemList' # Nothing)

(* ... and the last part makes it deliver.                                  *)
ListDelivered(part, reply) ==
    LET brought(p) == IF p = part THEN Brought(reply) ELSE zipped[p]
    IN  /\ RunBlock(reply)
        /\ reply \in PartReply(part)
        /\ Waiting \cup {part} = Part
        /\ shown' = listReq
        /\ bannerList' = brought("banner")
        /\ itemList' = brought("category")
        /\ ReloadPage
        /\ RunAndPost(DeliveredBlocks)
        /\ listReq' = NoRequest
        /\ zipped' = <<>>
        /\ UNCHANGED <<header, footer, footerHidden, inWindow, animating>>
        /\ UNCHANGED <<emptyDataSetSource, refreshes, listWire>>

-----------------------------------------------------------------------------
(* An answer whose subscription was disposed of still has its turn, to no   *)
(* effect.                                                                  *)
DisposedReply ==
    /\ RunBlock("disposed")
    /\ RunAndPost(<<>>)
    /\ UNCHANGED <<header, footer, footerHidden, inWindow, animating>>
    /\ UNCHANGED <<emptyVars, requestVars, pageVars>>

-----------------------------------------------------------------------------
(* The user pulls a list that can be scrolled.                              *)
PullPage ==
    /\ isScrollEnabled
    /\ refreshes < MaxRefreshes
    /\ PullHeader
    /\ UNCHANGED <<emptyVars, requestVars, pageVars>>

Gesture ==
    /\ UnpullHeader \/ ReleaseHeader \/ Appear \/ Disappear
    /\ UNCHANGED <<emptyVars, requestVars, pageVars>>

ControlBlock ==
    /\ AnimateHeader \/ IdleHeader
    /\ UNCHANGED <<emptyVars, requestVars, pageVars>>

PartBlock == \E part \in Part, reply \in ListReply :
                PartArrives(part, reply) \/ ListDelivered(part, reply)

RunMainQueue == ControlBlock \/ LoadList \/ PartBlock \/ DisposedReply

Draw == DrawHeader /\ UNCHANGED <<emptyVars, requestVars, pageVars>>

EndAnimation == AnimationDone /\ UNCHANGED <<emptyVars, requestVars, pageVars>>

PartAnswered(part) == \E reply \in PartReply(part) : AnswerPart(part, reply)

Next == \/ PullPage
        \/ Gesture
        \/ Draw
        \/ EndAnimation
        \/ RunMainQueue
        \/ \E part \in Part : PartAnswered(part)

Spec == Init /\ [][Next]_vars

(* The run loop, UIKit and the network do their part, as for other lists.   *)
Fairness ==
    /\ WF_vars(RunMainQueue)
    /\ WF_vars(Draw)
    /\ WF_vars(EndAnimation)
    /\ \A part \in Part : WF_vars(PartAnswered(part))

FairSpec == Spec /\ Fairness

-----------------------------------------------------------------------------
(***************************************************************************)
(*                               Properties                                 *)
(***************************************************************************)

(* The page never mixes the banners of one refresh with the sections of     *)
(* another, nor goes back to an older refresh, although refreshes replace   *)
(* one another and their four answers come in any order: it implements      *)
(* PortalPage.  The flatMapLatest and Driver.zip of loadList.               *)
Page == INSTANCE PortalPage

ImplementsPage == Page!Spec

(* Once a refresh has been delivered the placeholder shows exactly when the *)
(* page has no sections, although each delivery reloads the list twice and  *)
(* the first time with the sections of before.                              *)
EmptyPageSaysSo == shown > 0 => (placeholder <=> itemList = Nothing)

(* What holds between any two steps: the types and what the page tells.     *)
PageInvariant == TypeOK /\ EmptyPageSaysSo

(* The header never refreshes for ever, whatever fails.                     *)
HeaderSettles == header = "Refreshing" ~> header # "Refreshing"

=============================================================================
