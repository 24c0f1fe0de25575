------------------------------ MODULE MCPaging ------------------------------
(***************************************************************************)
(* Instances of MessagePaging.  Two ids for each of three times make ties  *)
(* at the end of a page and messages that appear on both sides of it.      *)
(***************************************************************************)
EXTENDS MessagePaging

ThreeTimes == 1 .. 3
TwoIds == 1 .. 2
=============================================================================
