----------------------------- MODULE MCMeetings -----------------------------
(***************************************************************************)
(* An instance of MeetingOverlap: a mentor, a mentee and an outsider; a    *)
(* clock that goes through before, at and after a scheduled time and an    *)
(* edit window.                                                            *)
(***************************************************************************)
EXTENDS MeetingOverlap

\* Two ratings, so that an edit can change one.
LowAndHigh == {1, 5}
=============================================================================
