-------------------------- MODULE ScratchableLatex --------------------------
(***************************************************************************)
(* The grid of item views ScratchableLatexView.  New data updates the item  *)
(* views in place when there are as many data as subviews, and else makes   *)
(* all item views anew; the two divider lines are subviews too, and come    *)
(* with the next layout after that.  The type of the items is a class of    *)
(* its own, so that a line is not taken for an item.                        *)
(***************************************************************************)
EXTENDS Integers, Sequences, FiniteSets

CONSTANTS
    ItemModel,  \* the data
    NoData,     \* dataArr is nil
    MaxCount    \* the grid is never given more data than this

ASSUME DataAssumption == MaxCount \in Nat /\ NoData \notin Seq(ItemModel)

VARIABLES
    dataArr,  \* the data last set
    subviews  \* of the grid, in order: item views, and perhaps the lines

gridVars == <<dataArr, subviews>>

Line == -1  \* the tag that stands for a divider line

View == [tag : Nat \cup {Line}, shows : ItemModel \cup {NoData}]

IsItem(view) == view.tag # Line

ItemsOf(views) == {i \in 1..Len(views) : IsItem(views[i])}

LinesOf(views) == {i \in 1..Len(views) : ~IsItem(views[i])}

GridTypeOK ==
    /\ dataArr \in Seq(ItemModel) \cup {NoData}
    /\ subviews \in Seq(View)
    /\ Cardinality(LinesOf(subviews)) <= 2

(* What the grid can be given.                                              *)
DataArr == (UNION {[1..n -> ItemModel] : n \in 0..MaxCount}) \cup {NoData}

-----------------------------------------------------------------------------
(* creatAllItems: all subviews go, lines too, and each datum gets a view.   *)
AllItems(data) ==
    IF data = NoData THEN <<>>
    ELSE [i \in 1..Len(data) |-> [tag |-> i - 1, shows |-> data[i]]]

(* The update of the item views among the subviews, each by its position.   *)
Updated(views, data) ==
    [i \in 1..Len(views) |->
        IF IsItem(views[i]) THEN [tag |-> views[i].tag, shows |-> data[i]]
                            ELSE views[i]]

(* Mutant: spare item views are kept.                                       *)
ReloadData_Spare(views, data) ==
    IF data # NoData /\ Len(data) <= Len(views) /\ data # <<>>
    THEN [i \in 1..Len(views) |->
            IF IsItem(views[i]) /\ i <= Len(data)
            THEN [tag |-> views[i].tag, shows |-> data[i]] ELSE views[i]]
    ELSE AllItems(data)

ReloadData(views, data) ==
    IF data # NoData /\ Len(data) = Len(views) THEN Updated(views, data)
                                               ELSE AllItems(data)

(* Mutant: the lines are added below the items.                             *)
WithLines_Below(views) ==
    IF LinesOf(views) # {} THEN views
    ELSE <<[tag |-> Line, shows |-> NoData],
           [tag |-> Line, shows |-> NoData]>> \o views

(* A line that has no superview is added above the other subviews.  Both    *)
(* lines come and go together.                                              *)
WithLines(views) ==
    IF LinesOf(views) # {} THEN views
    ELSE views \o <<[tag |-> Line, shows |-> NoData],
                    [tag |-> Line, shows |-> NoData]>>

-----------------------------------------------------------------------------
GridInit ==
    /\ dataArr = NoData
    /\ subviews = <<>>

(* didSet of dataArr.                                                       *)
SetDataArr ==
    /\ dataArr' \in DataArr
    /\ subviews' = ReloadData(subviews, dataArr')

(* reLayoutSubViews, called from outside.                                   *)
ReLayoutSubViews ==
    /\ subviews' = AllItems(dataArr)
    /\ UNCHANGED dataArr

(* The layout pass, some time after the grid or its subviews have changed.  *)
LayoutSubviews ==
    /\ subviews' = WithLines(subviews)
    /\ UNCHANGED dataArr

GridNext == SetDataArr \/ ReLayoutSubViews \/ LayoutSubviews

GridSpec == GridInit /\ [][GridNext]_gridVars

-----------------------------------------------------------------------------
(***************************************************************************)
(*                               Properties                                 *)
(***************************************************************************)

(* A tap on an item view reports the datum of its tag: the one it shows,    *)
(* and one that exists, although a view is filled by its position among all *)
(* subviews and tapped by its tag.  didClicked, reloadData.                 *)
TapReportsWhatShows ==
    \A i \in ItemsOf(subviews) :
        /\ dataArr # NoData
        /\ subviews[i].tag < Len(dataArr)
        /\ subviews[i].shows = dataArr[subviews[i].tag + 1]

(* There is an item view for each datum, or the lines were taken for the    *)
(* views of the last two; there is never a view too many.  reloadData.      *)
MissingOnlyForLines ==
    dataArr # NoData =>
        \/ Cardinality(ItemsOf(subviews)) = Len(dataArr)
        \/ /\ Cardinality(LinesOf(subviews)) = 2
           /\ Cardinality(ItemsOf(subviews)) + 2 = Len(dataArr)

(* "刷新列表数据": after new data the grid shows all of them.  The code       *)
(* breaks it: the lines are counted as item views.                          *)
AllDataShown ==
    dataArr # NoData => Cardinality(ItemsOf(subviews)) = Len(dataArr)

=============================================================================
