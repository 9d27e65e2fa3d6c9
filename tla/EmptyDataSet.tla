---------------------------- MODULE EmptyDataSet ----------------------------
(***************************************************************************)
(* The library EmptyDataSet as the list screens use it: the placeholder     *)
(* behind an empty list, and ViewController as its source and delegate.     *)
(*                                                                          *)
(* The library never looks at the list by itself.  It decides whether the   *)
(* placeholder shows when the list is reloaded and when the controller asks *)
(* it to, and only once the first refresh has made the controller its       *)
(* source.  It also decides then whether the list can be scrolled, that is, *)
(* pulled.                                                                  *)
(***************************************************************************)

VARIABLES
    emptyDataSetSource,  \* the controller has run setUpEmptyDataSet
    placeholder,         \* the placeholder shows (isEmptyDataSetVisible)
    isScrollEnabled      \* of the list

emptyVars == <<emptyDataSetSource, placeholder, isScrollEnabled>>

EmptyTypeOK ==
    /\ emptyDataSetSource \in BOOLEAN
    /\ placeholder \in BOOLEAN
    /\ isScrollEnabled \in BOOLEAN

(* viewDidLoad has run, no refresh has.                                     *)
EmptyInit ==
    /\ emptyDataSetSource = FALSE
    /\ placeholder = FALSE
    /\ isScrollEnabled = TRUE

-----------------------------------------------------------------------------
(* A Reachability.Connection: the relay of the controller, never set again. *)
reachabilityConnection == "none"

(* noConnectionShouldAllowScroll and emptyDataSetShouldAllowScroll.         *)
EmptyDataSetShouldAllowScroll == reachabilityConnection # "none"

(* invalidate: the placeholder goes and the list can be scrolled again.     *)
Invalidate_KeepScroll ==  \* mutant
    /\ placeholder' = FALSE
    /\ UNCHANGED isScrollEnabled

Invalidate ==
    /\ placeholder' = FALSE
    /\ isScrollEnabled' = TRUE

(* reloadEmptyDataSet, for what the delegate answers and what there is.     *)
ReloadEmptyDataSet(shouldDisplay, hasItems) ==
    \/ /\ ~emptyDataSetSource
       /\ UNCHANGED <<placeholder, isScrollEnabled>>
    \/ /\ emptyDataSetSource
       /\ shouldDisplay /\ ~hasItems
       /\ placeholder' = TRUE
       /\ isScrollEnabled' = EmptyDataSetShouldAllowScroll
    \/ /\ emptyDataSetSource
       /\ hasItems \/ ~shouldDisplay
       /\ IF placeholder THEN Invalidate
                         ELSE UNCHANGED <<placeholder, isScrollEnabled>>

=============================================================================
