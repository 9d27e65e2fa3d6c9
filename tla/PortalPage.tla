----------------------------- MODULE PortalPage -----------------------------
(***************************************************************************)
(* What a portal page promises: it shows the banners and the sections of    *)
(* one refresh, and only ever replaces both at once by those of a later     *)
(* one.  A part for which that refresh found nothing is empty; nothing of   *)
(* an older refresh stays in its place.                                     *)
(***************************************************************************)
EXTENDS Naturals

VARIABLES
    shown,       \* number of the refresh the page shows, 0 before the first
    bannerList,  \* number of the refresh its banners are from, or Nothing
    itemList     \* the same for its sections

pageVars == <<shown, bannerList, itemList>>

Nothing == 0

Init ==
    /\ shown = 0
    /\ bannerList = Nothing
    /\ itemList = Nothing

Replace ==
    /\ shown' \in Nat /\ shown' > shown
    /\ bannerList' \in {Nothing, shown'}
    /\ itemList' \in {Nothing, shown'}

Spec == Init /\ [][Replace]_pageVars

=============================================================================
