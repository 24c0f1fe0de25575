------------------------- MODULE MCRecommendations -------------------------
(***************************************************************************)
(* Instances of Recommendations.  One viewer is a mentor, so that he could *)
(* see himself; the other one is blocked by a mentor.                      *)
(***************************************************************************)
EXTENDS Recommendations

CONSTANTS ann, bob, cy, dan

OneBlock == {<<cy, dan>>}
=============================================================================
