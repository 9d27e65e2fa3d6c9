-------------------------- MODULE MCRecommendFeed ---------------------------
(* Instances of RecommendFeed for TLC.                                      *)
EXTENDS RecommendFeed
=============================================================================
