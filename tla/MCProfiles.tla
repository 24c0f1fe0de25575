----------------------------- MODULE MCProfiles -----------------------------
(***************************************************************************)
(* Instances of MentorProfiles.  Two topics and two texts are enough for   *)
(* replacements that overlap, conflict, or leave the union of both.        *)
(***************************************************************************)
EXTENDS MentorProfiles
=============================================================================
