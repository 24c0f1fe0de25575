-------------------------- MODULE MeetingLifecycle --------------------------
(***************************************************************************)
(* What the meeting and review components promise, one indivisible step    *)
(* per operation: the states of app/db/models/meeting.py, lines 1-10,      *)
(* 29-35 (REQUESTED -> SCHEDULED -> COMPLETED, or CANCELLED), and the one  *)
(* review that follows a completed meeting (app/db/models/review.py).      *)
(***************************************************************************)
EXTENDS Integers

CONSTANTS Meetings,  \* ids of the meetings of one mentorship
          Mentee,    \* its mentee, who reviews
          Ratings,   \* what a review may award
          Times,     \* points in time a meeting can be set to
          EditWindow \* how long the mentee can edit a review

VARIABLES now,     \* the clock
          status,  \* status[m]: "none" before the meeting is requested
          time,    \* time[m]: scheduled_time, -1 if there is none
          reviews  \* the reviews of all meetings

vars == <<now, status, time, reviews>>

Init ==
    /\ now = 0
    /\ status = [m \in Meetings |-> "none"]
    /\ time = [m \in Meetings |-> -1]
    /\ reviews = {}

Move(m, from, to) ==
    /\ status[m] \in from
    /\ status' = [status EXCEPT ![m] = to]

Create(m) == Move(m, {"none"}, "requested") /\ UNCHANGED <<now, time, reviews>>

\* The mentor names the time (and the link).
Schedule(m) ==
    /\ Move(m, {"requested"}, "scheduled")
    /\ \E t \in Times : time' = [time EXCEPT ![m] = t]
    /\ UNCHANGED <<now, reviews>>

Cancel(m) ==
    /\ Move(m, {"requested", "scheduled"}, "cancelled")
    /\ UNCHANGED <<now, time, reviews>>

\* A meeting is completed once its time has come.
Complete(m) ==
    /\ time[m] <= now
    /\ Move(m, {"scheduled"}, "completed")
    /\ UNCHANGED <<now, time, reviews>>

\* The first and only review of a completed meeting.
Review(m) ==
    /\ status[m] = "completed"
    /\ \A r \in reviews : r.meeting # m
    /\ \E v \in Ratings, u \in EditWindow .. now + EditWindow :
           reviews' = reviews \cup
               {[meeting |-> m, by |-> Mentee, rating |-> v, until |-> u]}
    /\ UNCHANGED <<now, status, time>>

\* Only the rating of a review can change.
Edit(m) ==
    /\ status[m] = "completed"
    /\ \E r \in reviews, v \in Ratings :
           /\ r.meeting = m
           /\ reviews' = (reviews \ {r}) \cup {[r EXCEPT !.rating = v]}
    /\ UNCHANGED <<now, status, time>>

Tick == now' = now + 1 /\ UNCHANGED <<status, time, reviews>>

Next ==
    \/ \E m \in Meetings :
           Create(m) \/ Schedule(m) \/ Cancel(m) \/ Complete(m)
           \/ Review(m) \/ Edit(m)
    \/ Tick

Spec == Init /\ [][Next]_vars
=============================================================================
