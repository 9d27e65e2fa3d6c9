----------------------------- MODULE MCCarousel ------------------------------
(* Instances of Carousel for TLC.                                           *)
EXTENDS Carousel
=============================================================================
