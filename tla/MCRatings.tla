------------------------------ MODULE MCRatings ------------------------------
(***************************************************************************)
(* Instances of RatingTrigger.  Two ratings are enough to change a review  *)
(* and to tell the average of two reviews from that of one.                *)
(***************************************************************************)
EXTENDS RatingTrigger

LowAndHigh == {1, 5}
=============================================================================
