------------------------------ MODULE Meetings ------------------------------
(***************************************************************************)
(* The meetings of one mentorship and their reviews: request, schedule,    *)
(* cancel and complete a meeting, create and edit its review.              *)
(*                                                                         *)
(* As in module Mentorship a handler reads its row at one step and writes  *)
(* it, by primary key and without a lock or a version, at a later one.     *)
(* What the body of a request carries (time, rating) does not influence    *)
(* the checks and is chosen when it is written.  The clock of the process  *)
(* only moves forward; scheduled times may lie in the past, as the schema  *)
(* MeetingSchedule does not compare them with the clock.                   *)
(***************************************************************************)
EXTENDS Integers

CONSTANTS
    Users,       \* users who call the API
    Mentor,      \* the mentor of the mentorship
    Mentee,      \* its mentee
    Meetings,    \* ids that meetings can get
    Handlers,    \* slots for requests that are processed at the same time
    Ratings,     \* 1 .. 5 in the code
    EditWindow,  \* EDIT_WINDOW_DAYS, in units of the clock
    MaxTime      \* bound on the clock

ASSUME PeopleAssumption == {Mentor, Mentee} \subseteq Users /\ Mentor # Mentee
ASSUME RatingsAssumption == Ratings \subseteq Nat \ {0}
ASSUME TimeAssumption == EditWindow \in Nat /\ MaxTime \in Nat

VARIABLES
    now,      \* datetime.now(UTC)
    active,   \* is the mentorship ACTIVE
    status,   \* status[m]: status of the meeting row, "none" if absent
    time,     \* time[m]: scheduled_time, NoTime if NULL
    reviews,  \* the rows of table review
    handler,  \* handler[h]: the request slot h works on, and what it read
    held      \* history: meetings that were completed at least once

vars == <<now, active, status, time, reviews, handler, held>>

rows == <<status, time, reviews, held>>
world == <<now, active>>

MeetingStatus == {"requested", "scheduled", "completed", "cancelled"}
Status == MeetingStatus \cup {"none"}

Times == 0 .. MaxTime

\* scheduled_time IS NULL: no later than any time, and so never in the way
\* of complete_meeting, which tests "if meeting.scheduled_time and ...".
NoTime == -1

Reviews == [meeting : Meetings, by : Users, rating : Ratings,
            until : 0 .. MaxTime + EditWindow]

Operations == {"create", "schedule", "cancel", "complete", "review", "edit"}

\* What a handler has behind it: it knows its user, it has read a completed
\* meeting (review only), it has read its row and every check has passed.
Progress == {"authenticated", "meeting_read", "loaded"}

Request == [op : Operations, caller : Users, meeting : Meetings,
            pc : Progress, seen : Status,
            due : (0 .. MaxTime + EditWindow) \cup {NoTime},
            rating : Ratings \cup {0}]

Idle == [op |-> "idle"]

Parties == {Mentor, Mentee}

ReviewsOf(m) == {r \in reviews : r.meeting = m}

TypeOK ==
    /\ now \in Times
    /\ active \in BOOLEAN
    /\ status \in [Meetings -> Status]
    /\ time \in [Meetings -> Times \cup {NoTime}]
    /\ reviews \subseteq Reviews
    /\ handler \in [Handlers -> Request \cup {Idle}]
    /\ held \subseteq Meetings

Init ==
    /\ now = 0
    /\ active \in BOOLEAN
    /\ status = [m \in Meetings |-> "none"]
    /\ time = [m \in Meetings |-> NoTime]
    /\ reviews = {}
    /\ handler = [h \in Handlers |-> Idle]
    /\ held = {}

-----------------------------------------------------------------------------
(* The steps every handler is made of.                                     *)

At(h, op, pc) ==
    /\ handler[h] # Idle
    /\ handler[h].op = op
    /\ handler[h].pc = pc

\* The response is sent, a success or an error: slot h is free again.
Answer(h) == handler' = [handler EXCEPT ![h] = Idle]

\* The meeting row is in the session of h, with its status and its time.
Remember(h) ==
    handler' = [handler EXCEPT ![h].pc = "loaded",
                               ![h].seen = status[handler[h].meeting],
                               ![h].due = time[handler[h].meeting]]

\* The id a create will give to its meeting is new.
Fresh(m) ==
    /\ status[m] = "none"
    /\ \A g \in Handlers :
           handler[g] # Idle /\ handler[g].op = "create"
           => handler[g].meeting # m

\* A request arrives and its user is known.
Authenticate(h, op, u, m) ==
    /\ handler[h] = Idle
    /\ op = "create" => Fresh(m)
    /\ handler' = [handler EXCEPT ![h] =
           [op |-> op, caller |-> u, meeting |-> m, pc |-> "authenticated",
            seen |-> "none", due |-> NoTime, rating |-> 0]]
    /\ UNCHANGED <<rows, world>>

\* h reads its row and goes on if the checks hold, otherwise it answers with
\* an error; nothing is written.
Load(h, op, checks) ==
    /\ At(h, op, "authenticated")
    /\ \/ checks /\ Remember(h)
       \/ ~checks /\ Answer(h)
    /\ UNCHANGED <<rows, world>>

\* h writes the status of its row, whatever the row holds by now.
SetStatus(h, s) == status' = [status EXCEPT ![handler[h].meeting] = s]

-----------------------------------------------------------------------------
(* POST /mentorships/{id}/meetings                                         *)

\* Only the mentee of an active mentorship asks for a meeting.
LoadMentorship(h) ==
    Load(h, "create", handler[h].caller = Mentee /\ active)

InsertMeeting(h) ==
    /\ At(h, "create", "loaded")
    /\ SetStatus(h, "requested")
    /\ Answer(h)
    /\ UNCHANGED <<time, reviews, held, world>>

-----------------------------------------------------------------------------
(* POST /meetings/{id}/schedule, cancel and complete                       *)

\* The mentor of the mentorship, whether it is still active or not, names a
\* time and a link, which validate_meeting_url accepts or refuses.
LoadSchedule(h) ==
    LET r == handler[h]
    IN  \E valid \in BOOLEAN :
            Load(h, "schedule", /\ r.caller = Mentor
                                /\ status[r.meeting] = "requested"
                                /\ valid)

\* Mutant of CommitSchedule: the time is forgotten.
CommitScheduleNoTime(h) ==
    /\ At(h, "schedule", "loaded")
    /\ SetStatus(h, "scheduled")
    /\ Answer(h)
    /\ UNCHANGED <<time, reviews, held, world>>

CommitSchedule(h) ==
    /\ At(h, "schedule", "loaded")
    /\ SetStatus(h, "scheduled")
    /\ \E t \in Times : time' = [time EXCEPT ![handler[h].meeting] = t]
    /\ Answer(h)
    /\ UNCHANGED <<reviews, held, world>>

\* Mutant of LoadCancel: a completed meeting can be cancelled.
LoadCancelAny(h) ==
    LET r == handler[h]
    IN  Load(h, "cancel", /\ r.caller \in Parties
                          /\ status[r.meeting] # "none")

LoadCancel(h) ==
    LET r == handler[h]
    IN  Load(h, "cancel", /\ r.caller \in Parties
                          /\ status[r.meeting] \in {"requested", "scheduled"})

\* Mutant of CommitCancel: a status the enumeration does not have.
CommitCancelUnknown(h) ==
    /\ At(h, "cancel", "loaded")
    /\ SetStatus(h, "deleted")
    /\ Answer(h)
    /\ UNCHANGED <<time, reviews, held, world>>

CommitCancel(h) ==
    /\ At(h, "cancel", "loaded")
    /\ SetStatus(h, "cancelled")
    /\ Answer(h)
    /\ UNCHANGED <<time, reviews, held, world>>

LoadComplete(h) ==
    LET r == handler[h]
    IN  Load(h, "complete", /\ r.caller \in Parties
                            /\ status[r.meeting] = "scheduled")

\* The time that was read must have come when the handler looks at its
\* clock, which is as late as its commit.
CommitComplete(h) ==
    LET m == handler[h].meeting
    IN  /\ At(h, "complete", "loaded")
        /\ \/ /\ handler[h].due <= now
              /\ SetStatus(h, "completed")
              /\ held' = held \cup {m}
           \/ /\ handler[h].due > now
              /\ UNCHANGED <<status, held>>
        /\ Answer(h)
        /\ UNCHANGED <<time, reviews, world>>

-----------------------------------------------------------------------------
(* POST and PATCH /meetings/{id}/review                                    *)

\* Mutant of LoadMeeting: any meeting can be reviewed.
LoadMeetingAny(h) ==
    LET r == handler[h]
        reviewable == status[r.meeting] # "none" /\ r.caller = Mentee
    IN  /\ At(h, "review", "authenticated")
        /\ \/ reviewable /\ handler' = [handler EXCEPT ![h].pc = "meeting_read"]
           \/ ~reviewable /\ Answer(h)
        /\ UNCHANGED <<rows, world>>

\* The meeting that was read is completed and the caller is its mentee.
LoadMeeting(h) ==
    LET r == handler[h]
        reviewable == status[r.meeting] = "completed" /\ r.caller = Mentee
    IN  /\ At(h, "review", "authenticated")
        /\ \/ reviewable /\ handler' = [handler EXCEPT ![h].pc = "meeting_read"]
           \/ ~reviewable /\ Answer(h)
        /\ UNCHANGED <<rows, world>>

\* Bound: reviews are written early enough for their edit window to close
\* before the clock stops.
WindowCloses == now + EditWindow < MaxTime

\* A separate statement looks for a review of the meeting.  If there is
\* none the edit window of the new review begins at once.
FindReview(h) ==
    LET exists == ReviewsOf(handler[h].meeting) # {}
    IN  /\ At(h, "review", "meeting_read")
        /\ \/ exists /\ Answer(h)
           \/ /\ ~exists
              /\ WindowCloses
              /\ handler' = [handler EXCEPT ![h].pc = "loaded",
                                            ![h].due = now + EditWindow]
        /\ UNCHANGED <<rows, world>>

\* Mutant of InsertReview: the unique constraint on meeting_id is gone.
InsertReviewTwice(h) ==
    /\ At(h, "review", "loaded")
    /\ \E v \in Ratings :
           reviews' = reviews \cup
               {[meeting |-> handler[h].meeting, by |-> handler[h].caller,
                 rating |-> v, until |-> handler[h].due]}
    /\ Answer(h)
    /\ UNCHANGED <<status, time, held, world>>

\* No review was found: one is inserted, unless another handler has done so
\* meanwhile and the unique constraint on meeting_id refuses it.
InsertReview(h) ==
    LET m == handler[h].meeting
    IN  /\ At(h, "review", "loaded")
        /\ \/ /\ ReviewsOf(m) = {}
              /\ \E v \in Ratings :
                     reviews' = reviews \cup
                         {[meeting |-> m, by |-> handler[h].caller,
                           rating |-> v, until |-> handler[h].due]}
           \/ /\ ReviewsOf(m) # {}
              /\ UNCHANGED reviews
        /\ Answer(h)
        /\ UNCHANGED <<status, time, held, world>>

\* Mutant of LoadReview: reviews can be edited forever.
LoadReviewAnytime(h) ==
    /\ At(h, "edit", "authenticated")
    /\ \/ \E r \in ReviewsOf(handler[h].meeting) :
              /\ handler[h].caller = r.by
              /\ handler' = [handler EXCEPT ![h].pc = "loaded",
                                            ![h].rating = r.rating]
       \/ /\ \A r \in ReviewsOf(handler[h].meeting) : handler[h].caller # r.by
          /\ Answer(h)
    /\ UNCHANGED <<rows, world>>

\* The reviewer edits the review that was read, while its window is open.
LoadReview(h) ==
    LET editable == {r \in ReviewsOf(handler[h].meeting) :
                        handler[h].caller = r.by /\ now <= r.until}
    IN  /\ At(h, "edit", "authenticated")
        /\ \/ \E r \in editable :
                  handler' = [handler EXCEPT ![h].pc = "loaded",
                                             ![h].rating = r.rating]
           \/ editable = {} /\ Answer(h)
        /\ UNCHANGED <<rows, world>>

\* Mutant of CommitEdit: the edit window starts anew.
CommitEditRenewed(h) ==
    LET m == handler[h].meeting
    IN  /\ At(h, "edit", "loaded")
        /\ \E v \in Ratings :
               reviews' = (reviews \ ReviewsOf(m)) \cup
                   {[r EXCEPT !.rating = v, !.until = now + EditWindow] :
                        r \in ReviewsOf(m)}
        /\ Answer(h)
        /\ UNCHANGED <<status, time, held, world>>

\* The new rating is written if it differs from the one that was read, else
\* the session has nothing to flush.
CommitEdit(h) ==
    LET m == handler[h].meeting
    IN  /\ At(h, "edit", "loaded")
        /\ \/ \E v \in Ratings \ {handler[h].rating} :
                  reviews' = (reviews \ ReviewsOf(m)) \cup
                      {[r EXCEPT !.rating = v] : r \in ReviewsOf(m)}
           \/ UNCHANGED reviews
        /\ Answer(h)
        /\ UNCHANGED <<status, time, held, world>>

-----------------------------------------------------------------------------
(* What goes on around the handlers.                                       *)

Tick ==
    /\ now < MaxTime
    /\ now' = now + 1
    /\ UNCHANGED <<rows, active, handler>>

\* The mentorship is accepted, ended, renewed (module Mentorship).
MentorshipChanges ==
    /\ active' = ~active
    /\ UNCHANGED <<rows, now, handler>>

-----------------------------------------------------------------------------
Handle(h) ==
    \/ LoadMentorship(h) \/ InsertMeeting(h)
    \/ LoadSchedule(h) \/ CommitSchedule(h)
    \/ LoadCancel(h) \/ CommitCancel(h)
    \/ LoadComplete(h) \/ CommitComplete(h)
    \/ LoadMeeting(h) \/ FindReview(h) \/ InsertReview(h)
    \/ LoadReview(h) \/ CommitEdit(h)

Next ==
    \/ \E h \in Handlers, op \in Operations, u \in Users, m \in Meetings :
           Authenticate(h, op, u, m)
    \/ \E h \in Handlers : Handle(h)
    \/ Tick
    \/ MentorshipChanges

Spec == Init /\ [][Next]_vars

\* Time passes, and a handler that has started is carried on by the event
\* loop and answered by the database: it neither waits for a lock that is
\* kept nor for another handler.
Fairness == WF_vars(Tick) /\ \A h \in Handlers : WF_vars(Handle(h))

FairSpec == Spec /\ Fairness

\* The same system as long as no two requests about one meeting are in
\* flight together.
Exclusive ==
    \A g, h \in Handlers :
        /\ g # h
        /\ handler[g] # Idle
        /\ handler[h] # Idle
        => handler[g].meeting # handler[h].meeting

ExclusiveSpec == Init /\ [][Next /\ Exclusive']_vars

-----------------------------------------------------------------------------
(* Properties of every interleaving of any number of handlers.             *)

\* A meeting that is scheduled or completed has a time, in whatever order
\* stale handlers write its status (the CHECK of models/meeting.py, lines
\* 88-94, never fails, and complete_meeting always has a time to compare).
ScheduledHasTime ==
    \A m \in Meetings :
        status[m] \in {"scheduled", "completed"} => time[m] # NoTime

\* However many review handlers race, a meeting has at most one review, it
\* is by the mentee, and the meeting had been completed before.
ReviewsAreEarned ==
    \A r \in reviews :
        /\ ReviewsOf(r.meeting) = {r}
        /\ r.by = Mentee
        /\ r.meeting \in held

\* A review is never withdrawn, changes hands or gets a longer edit window.
ReviewsPersist ==
    [][\A r \in reviews : \E s \in reviews' :
           /\ s.meeting = r.meeting
           /\ s.by = r.by
           /\ s.until = r.until]_vars

\* Every review becomes final: from some moment on nobody edits it.  This
\* needs that time passes and that handlers which read the review before
\* its window closed are not delayed for ever.
ReviewsBecomeFinal == <>[][reviews' = reviews]_vars

\* What request r has checked and no other handler can undo.
Checked(r) ==
    /\ r.pc = "meeting_read" => r.op = "review"
    /\ r.op = "review" /\ r.pc # "authenticated"
       => r.caller = Mentee /\ r.meeting \in held
    /\ r.op = "review" /\ r.pc = "loaded" => r.due # NoTime
    /\ r.op = "complete" /\ r.pc = "loaded" => time[r.meeting] # NoTime

\* What makes those properties inductive: a completed meeting is remembered
\* as such and a time that was set is never unset, so these facts stay true
\* while a handler waits, whatever becomes of the status.
HandlersHaveChecked ==
    /\ \A m \in Meetings : status[m] = "completed" => m \in held
    /\ \A h \in Handlers : handler[h] # Idle => Checked(handler[h])

-----------------------------------------------------------------------------
(* Properties that need Exclusive.                                         *)

\* What a handler read about its meeting is still so when it commits.
SeenIsCurrent ==
    \A h \in Handlers :
        /\ handler[h] # Idle
        /\ handler[h].pc = "loaded"
        /\ handler[h].op \in {"create", "schedule", "cancel", "complete"}
        => /\ handler[h].seen = status[handler[h].meeting]
           /\ handler[h].due = time[handler[h].meeting]

\* The abstract machine sees the rows and the clock, and not the handlers.
Lifecycle == INSTANCE MeetingLifecycle WITH
    Meetings <- Meetings,
    Mentee <- Mentee,
    Ratings <- Ratings,
    Times <- Times,
    EditWindow <- EditWindow,
    now <- now,
    status <- status,
    time <- time,
    reviews <- reviews

\* The handlers take the steps of the documented lifecycle and no others: no
\* meeting is completed early, reviewed before it is completed or changed
\* after it is completed or cancelled.
ImplementsLifecycle == Lifecycle!Spec

-----------------------------------------------------------------------------
(* What the documentation says, without such a restriction.                *)

\* models/meeting.py line 4: "REQUESTED -> SCHEDULED -> COMPLETED (or
\* CANCELLED)": nothing follows COMPLETED.
CompletedIsFinal ==
    [][\A m \in Meetings :
           status[m] = "completed" => status'[m] = "completed"]_vars

\* complete_meeting, services/meeting_service.py lines 192-194: "Cannot
\* complete meeting before its scheduled time".
CompletedInTime ==
    [][\A m \in Meetings :
           status'[m] = "completed" /\ status[m] # "completed"
           => time[m] <= now]_vars
=============================================================================
