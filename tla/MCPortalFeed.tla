---------------------------- MODULE MCPortalFeed ----------------------------
(* Instances of PortalFeed for TLC.                                         *)
EXTENDS PortalFeed
=============================================================================
