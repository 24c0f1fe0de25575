---------------------------- MODULE MCMentorship ----------------------------
(***************************************************************************)
(* Instances of Mentorship: a mentor, a mentee and an outsider, who may    *)
(* call every endpoint.                                                    *)
(***************************************************************************)
EXTENDS Mentorship

CONSTANTS mentor, mentee, outsider, h1, h2

\* One mentorship, as many handlers as a race needs.
OnePair == {<<mentor, mentee>>}

\* The same, the mentor who asks himself, and a user without a profile who
\* is asked: a second handler is busy with these while the first works.
ManyPairs == OnePair \cup {<<mentor, mentor>>, <<outsider, mentee>>}
=============================================================================
