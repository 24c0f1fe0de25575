---------------------------- MODULE MCModeration ----------------------------
(***************************************************************************)
(* Instances of Moderation: two admins, who can ban each other, and a      *)
(* mentor, who is one of them where that is enough.                        *)
(***************************************************************************)
EXTENDS Moderation
=============================================================================
