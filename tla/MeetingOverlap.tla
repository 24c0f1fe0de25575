--------------------------- MODULE MeetingOverlap ---------------------------
(***************************************************************************)
(* Meetings with a history variable that remembers whether two requests    *)
(* about one meeting were ever in flight together.  It restricts nothing,  *)
(* so that one specification holds the behaviours of ExclusiveSpec and     *)
(* all others, and says how far the documented lifecycle reaches into      *)
(* them.                                                                   *)
(***************************************************************************)
EXTENDS Meetings

VARIABLE overlapped

Watch == overlapped' = (overlapped \/ ~Exclusive')

WatchedInit == Init /\ overlapped = FALSE

\* Next, with the observer beside every action.
WatchedNext ==
    \/ \E h \in Handlers, op \in Operations, u \in Users, m \in Meetings :
           Authenticate(h, op, u, m) /\ Watch
    \/ \E h \in Handlers :
           \/ LoadMentorship(h) /\ Watch
           \/ InsertMeeting(h) /\ Watch
           \/ LoadSchedule(h) /\ Watch
           \/ CommitSchedule(h) /\ Watch
           \/ LoadCancel(h) /\ Watch
           \/ CommitCancel(h) /\ Watch
           \/ LoadComplete(h) /\ Watch
           \/ CommitComplete(h) /\ Watch
           \/ LoadMeeting(h) /\ Watch
           \/ FindReview(h) /\ Watch
           \/ InsertReview(h) /\ Watch
           \/ LoadReview(h) /\ Watch
           \/ CommitEdit(h) /\ Watch
    \/ Tick /\ Watch
    \/ MentorshipChanges /\ Watch

watched == <<vars, overlapped>>

WatchedSpec == WatchedInit /\ [][WatchedNext]_watched

FairWatchedSpec == WatchedSpec /\ Fairness

\* Until requests about one meeting overlap, the handlers take the steps of
\* the documented lifecycle and no others (ImplementsLifecycle of Meetings):
\* no meeting is completed early, reviewed before it is completed or changed
\* after it is completed or cancelled, although the clock and the mentorship
\* move between the steps of a handler.
LifecycleUntilOverlap ==
    /\ Lifecycle!Init
    /\ [][~overlapped' => [Lifecycle!Next]_(Lifecycle!vars)]_watched
=============================================================================
