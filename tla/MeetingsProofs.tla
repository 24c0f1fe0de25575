--------------------------- MODULE MeetingsProofs ---------------------------
(***************************************************************************)
(* Proofs about Meetings and MeetingOverlap, for any users, meetings,      *)
(* handlers and clocks.                                                    *)
(***************************************************************************)
EXTENDS MeetingOverlap, TLAPS

Inv ==
    /\ TypeOK
    /\ HandlersHaveChecked
    /\ ScheduledHasTime
    /\ ReviewsAreEarned

\* A handler that is at some point works on a request it has checked.
LEMMA Working ==
    ASSUME Inv, NEW h \in Handlers, handler[h] # Idle
    PROVE  /\ handler[h] \in Request
           /\ Checked(handler[h])
           /\ handler[h].meeting \in Meetings
  BY DEF Inv, HandlersHaveChecked, TypeOK, Request

\* The requests of the other handlers are not affected by what h does, as
\* long as times stay set and completed meetings remembered.
LEMMA OthersKept ==
    ASSUME Inv, NEW h \in Handlers, NEW r,
           handler' = [handler EXCEPT ![h] = r],
           r = Idle \/ (r \in Request /\ Checked(r)'),
           held \subseteq held',
           \A m \in Meetings : time[m] # NoTime => time'[m] # NoTime
    PROVE  /\ handler' \in [Handlers -> Request \cup {Idle}]
           /\ \A g \in Handlers : handler'[g] # Idle => Checked(handler[g])'
<1>1. handler \in [Handlers -> Request \cup {Idle}]
  BY DEF Inv, TypeOK
<1>2. ASSUME NEW g \in Handlers, handler'[g] # Idle PROVE Checked(handler[g])'
  <2>1. CASE g = h
    BY <1>1, <1>2, <2>1
  <2>2. CASE g # h
    <3>1. handler'[g] = handler[g] /\ Checked(handler[g])
      BY <1>1, <1>2, <2>2 DEF Inv, HandlersHaveChecked
    <3>2. handler[g].meeting \in Meetings
      BY <1>1, <1>2, <3>1 DEF Request
    <3> QED
      BY <3>1, <3>2 DEF Checked
  <2> QED
    BY <2>1, <2>2
<1> QED
  BY <1>1, <1>2

-----------------------------------------------------------------------------
(* Steps that write nothing but the slot of the handler.                   *)

\* A step that only moves the slot of one handler keeps Inv.
LEMMA SlotOnly ==
    ASSUME Inv, NEW h \in Handlers, NEW r,
           handler' = [handler EXCEPT ![h] = r],
           r = Idle \/ (r \in Request /\ Checked(r)),
           UNCHANGED <<rows, world>>
    PROVE  Inv'
<1>1. Checked(r) => Checked(r)'
  BY DEF Checked, rows
<1>2. /\ handler' \in [Handlers -> Request \cup {Idle}]
      /\ \A g \in Handlers : handler'[g] # Idle => Checked(handler[g])'
  BY <1>1, OthersKept DEF rows
<1> QED
  BY <1>2 DEF Inv, TypeOK, HandlersHaveChecked, ScheduledHasTime,
     ReviewsAreEarned, ReviewsOf, rows, world

Deadlines == 0 .. MaxTime + EditWindow

\* How the record of a handler changes when it goes on.
LEMMA Updates ==
    ASSUME NEW r \in Request
    PROVE  /\ \A pc \in Progress :
                  /\ [r EXCEPT !.pc = pc] \in Request
                  /\ \A d \in Deadlines \cup {NoTime} :
                         /\ [r EXCEPT !.pc = pc, !.due = d] \in Request
                         /\ \A s \in Status :
                                [r EXCEPT !.pc = pc, !.seen = s, !.due = d]
                                \in Request
                  /\ \A v \in Ratings :
                         [r EXCEPT !.pc = pc, !.rating = v] \in Request
  BY DEF Request, Deadlines

\* A handler that has read its meeting row.
LEMMA Loading ==
    ASSUME Inv, NEW h \in Handlers, NEW op \in Operations \ {"review"},
           NEW checks, Load(h, op, checks),
           op = "complete" /\ checks
           => status[handler[h].meeting] = "scheduled"
    PROVE  Inv'
<1> DEFINE m == handler[h].meeting
           r == [handler[h] EXCEPT !.pc = "loaded", !.seen = status[m],
                                   !.due = time[m]]
<1>1. handler[h] \in Request /\ m \in Meetings /\ handler[h].op = op
  BY Working DEF Load, At
<1>2. CASE Answer(h)
  BY <1>2, SlotOnly DEF Answer, Load
<1>3. CASE checks /\ Remember(h)
  <2>1. status[m] \in Status /\ time[m] \in Deadlines \cup {NoTime}
    BY <1>1, TimeAssumption DEF Inv, TypeOK, Times, Deadlines
  <2>2. r \in Request /\ r.op = op /\ r.meeting = m /\ r.pc = "loaded"
    <3>1. r \in Request
      BY <1>1, <2>1, Updates DEF Progress
    <3> QED
      BY <1>1, <3>1 DEF Request
  <2>3. op = "complete" => time[m] # NoTime
    BY <1>1, <1>3 DEF Inv, ScheduledHasTime
  <2>4. Checked(r)
    BY <2>2, <2>3 DEF Checked
  <2>5. handler' = [handler EXCEPT ![h] = r]
    BY <1>3 DEF Remember, Inv, TypeOK
  <2> QED
    BY <2>2, <2>4, <2>5, SlotOnly DEF Load
<1> QED
  BY <1>2, <1>3 DEF Load

\* The steps that read a row and check it keep Inv.
LEMMA Reading ==
    ASSUME Inv, NEW h \in Handlers,
           \/ LoadMentorship(h) \/ LoadSchedule(h) \/ LoadCancel(h)
           \/ LoadComplete(h)
    PROVE  Inv'
  BY Loading DEF LoadMentorship, LoadSchedule, LoadCancel, LoadComplete,
     Operations

\* The reads of review and edit requests keep Inv.
LEMMA Reviewing ==
    ASSUME Inv, NEW h \in Handlers,
           LoadMeeting(h) \/ FindReview(h) \/ LoadReview(h)
    PROVE  Inv'
<1> DEFINE m == handler[h].meeting
<1>1. /\ handler[h] \in Request
      /\ m \in Meetings
      /\ Checked(handler[h])
      /\ UNCHANGED <<rows, world>>
  BY Working DEF LoadMeeting, FindReview, LoadReview, At
<1>2. ASSUME Answer(h) PROVE Inv'
  BY <1>1, <1>2, SlotOnly DEF Answer
<1>3. CASE LoadMeeting(h) /\ ~Answer(h)
  <2> DEFINE r == [handler[h] EXCEPT !.pc = "meeting_read"]
  <2>1. /\ handler' = [handler EXCEPT ![h] = r]
        /\ r \in Request
        /\ r.op = "review" /\ r.meeting = m /\ r.pc = "meeting_read"
        /\ r.caller = handler[h].caller
    BY <1>1, <1>3, Updates DEF LoadMeeting, At, Inv, TypeOK, Progress, Request
  <2>2. handler[h].caller = Mentee /\ m \in held
    BY <1>1, <1>3 DEF LoadMeeting, Inv, HandlersHaveChecked
  <2>3. Checked(r)
    BY <2>1, <2>2 DEF Checked
  <2> QED
    BY <1>1, <2>1, <2>3, SlotOnly
<1>4. CASE FindReview(h) /\ ~Answer(h)
  <2> DEFINE r == [handler[h] EXCEPT !.pc = "loaded", !.due = now + EditWindow]
  <2>1. /\ now + EditWindow \in Deadlines
        /\ now + EditWindow # NoTime
    BY TimeAssumption DEF Inv, TypeOK, Times, Deadlines, NoTime
  <2>2. /\ r \in Request
        /\ r.op = "review" /\ r.meeting = m /\ r.pc = "loaded"
        /\ r.caller = handler[h].caller
        /\ r.due = now + EditWindow
    <3>1. r \in Request
      BY <1>1, <2>1, Updates DEF Progress
    <3>2. handler[h].op = "review"
      BY <1>4 DEF FindReview, At
    <3> QED
      BY <1>1, <3>1, <3>2 DEF Request
  <2>3. handler' = [handler EXCEPT ![h] = r]
    BY <1>4 DEF FindReview, Inv, TypeOK
  <2>4. Checked(r)
    BY <1>1, <1>4, <2>1, <2>2 DEF Checked, FindReview, At
  <2> QED
    BY <1>1, <2>2, <2>3, <2>4, SlotOnly
<1>5. CASE LoadReview(h) /\ ~Answer(h)
  <2>1. PICK q \in reviews :
            handler' = [handler EXCEPT ![h].pc = "loaded",
                                       ![h].rating = q.rating]
    BY <1>5 DEF LoadReview, ReviewsOf
  <2> DEFINE r == [handler[h] EXCEPT !.pc = "loaded", !.rating = q.rating]
  <2>2. q.rating \in Ratings
    BY DEF Inv, TypeOK, Reviews
  <2>3. r \in Request /\ r.op = "edit" /\ r.pc = "loaded"
    BY <1>1, <1>5, <2>2, Updates DEF LoadReview, At, Progress, Request
  <2>4. handler' = [handler EXCEPT ![h] = r]
    BY <2>1 DEF Inv, TypeOK
  <2>5. Checked(r)
    BY <2>3 DEF Checked
  <2> QED
    BY <1>1, <2>3, <2>4, <2>5, SlotOnly
<1> QED
  BY <1>2, <1>3, <1>4, <1>5

-----------------------------------------------------------------------------
(* Steps that commit.                                                      *)

\* A commit that gives meeting m another status keeps the invariant if m has
\* what that status requires.
LEMMA StatusWritten ==
    ASSUME Inv, NEW h \in Handlers, Answer(h), NEW m \in Meetings,
           NEW s \in Status, status' = [status EXCEPT ![m] = s],
           time' \in [Meetings -> Times \cup {NoTime}],
           \A n \in Meetings : time[n] # NoTime => time'[n] # NoTime,
           s \in {"scheduled", "completed"} => time'[m] # NoTime,
           held' \subseteq Meetings, held \subseteq held',
           s = "completed" => m \in held',
           UNCHANGED <<reviews, world>>
    PROVE  Inv'
<1>1. /\ handler' \in [Handlers -> Request \cup {Idle}]
      /\ \A g \in Handlers : handler'[g] # Idle => Checked(handler[g])'
  BY OthersKept DEF Answer
<1>2. TypeOK'
  BY <1>1 DEF Inv, TypeOK, world
<1>3. HandlersHaveChecked'
  BY <1>1 DEF Inv, TypeOK, HandlersHaveChecked
<1>4. ScheduledHasTime'
  BY DEF Inv, TypeOK, ScheduledHasTime
<1>5. ReviewsAreEarned'
  BY DEF Inv, ReviewsAreEarned, ReviewsOf
<1> QED
  BY <1>2, <1>3, <1>4, <1>5 DEF Inv

\* The steps that write the status of a meeting keep Inv.
LEMMA Moving ==
    ASSUME Inv, NEW h \in Handlers,
           \/ InsertMeeting(h) \/ CommitSchedule(h) \/ CommitCancel(h)
           \/ CommitComplete(h)
    PROVE  Inv'
<1> DEFINE m == handler[h].meeting
<1>1. /\ m \in Meetings
      /\ Checked(handler[h])
      /\ handler[h].due \in Int
  BY Working, TimeAssumption DEF InsertMeeting, CommitSchedule, CommitCancel,
     CommitComplete, At, Request, NoTime
<1>2. \A s \in {"requested", "scheduled", "cancelled", "completed"} : s \in Status
  BY DEF Status, MeetingStatus
<1>3. CASE InsertMeeting(h)
  BY <1>1, <1>2, <1>3, StatusWritten DEF InsertMeeting, SetStatus, Inv, TypeOK
<1>4. CASE CommitSchedule(h)
  <2>1. /\ time' \in [Meetings -> Times \cup {NoTime}]
        /\ time'[m] # NoTime
        /\ \A n \in Meetings : time[n] # NoTime => time'[n] # NoTime
    BY <1>1, <1>4, TimeAssumption DEF CommitSchedule, Inv, TypeOK, Times, NoTime
  <2> QED
    BY <1>1, <1>2, <1>4, <2>1, StatusWritten DEF CommitSchedule, SetStatus,
       Inv, TypeOK
<1>5. CASE CommitCancel(h)
  BY <1>1, <1>2, <1>5, StatusWritten DEF CommitCancel, SetStatus, Inv, TypeOK
<1>6. CASE CommitComplete(h) /\ handler[h].due <= now
  <2>1. /\ status' = [status EXCEPT ![m] = "completed"]
        /\ held' = held \cup {m}
        /\ UNCHANGED <<time, reviews, world>>
        /\ Answer(h)
    BY <1>1, <1>6, TimeAssumption DEF CommitComplete, SetStatus, Inv, TypeOK,
       Times
  <2>2. time[m] # NoTime
    BY <1>1, <1>6 DEF CommitComplete, At, Checked
  <2>3. /\ time' \in [Meetings -> Times \cup {NoTime}]
        /\ held' \subseteq Meetings
    BY <1>1, <2>1 DEF Inv, TypeOK
  <2> QED
    BY <1>1, <1>2, <2>1, <2>2, <2>3, StatusWritten
<1>7. CASE CommitComplete(h) /\ ~(handler[h].due <= now)
  <2>1. /\ UNCHANGED <<rows, world>>
        /\ handler' = [handler EXCEPT ![h] = Idle]
    BY <1>7 DEF CommitComplete, rows, Answer
  <2> QED
    BY <2>1, SlotOnly
<1> QED
  BY <1>3, <1>4, <1>5, <1>6, <1>7

\* A commit that writes reviews keeps the invariant if the reviews are
\* well-formed and still at most one to a meeting.
LEMMA ReviewsWritten ==
    ASSUME Inv, NEW h \in Handlers, Answer(h),
           reviews' \subseteq Reviews,
           ReviewsAreEarned',
           UNCHANGED <<status, time, held, world>>
    PROVE  Inv'
<1>1. /\ handler' \in [Handlers -> Request \cup {Idle}]
      /\ \A g \in Handlers : handler'[g] # Idle => Checked(handler[g])'
  BY OthersKept DEF Answer
<1> QED
  BY <1>1 DEF Inv, TypeOK, HandlersHaveChecked, ScheduledHasTime, world

\* Inserting a review keeps Inv, also when the unique constraint refuses it.
LEMMA Inserting ==
    ASSUME Inv, NEW h \in Handlers, InsertReview(h)
    PROVE  Inv'
<1>0. PICK m \in Meetings, d \in Deadlines :
          /\ handler[h].meeting = m
          /\ handler[h].due = d
          /\ handler[h].caller = Mentee
          /\ m \in held
  BY Working DEF InsertReview, At, Checked, Request, Deadlines
<1>1. CASE UNCHANGED reviews
  BY <1>1, ReviewsWritten DEF InsertReview, Inv, TypeOK, ReviewsAreEarned,
     ReviewsOf
<1>2. ASSUME NEW v \in Ratings, ReviewsOf(m) = {},
             reviews' = reviews \cup
                 {[meeting |-> m, by |-> Mentee, rating |-> v, until |-> d]}
      PROVE  Inv'
  <2> DEFINE new == [meeting |-> m, by |-> Mentee, rating |-> v, until |-> d]
  <2>1. new \in Reviews
    BY PeopleAssumption DEF Reviews, Deadlines
  <2>2. reviews' \subseteq Reviews
    BY <1>2, <2>1 DEF Inv, TypeOK
  <2>3. ReviewsOf(m)' = {new}
    BY <1>2 DEF ReviewsOf
  <2>4. \A q \in reviews :
            q.meeting # m /\ ReviewsOf(q.meeting)' = ReviewsOf(q.meeting)
    BY <1>2 DEF ReviewsOf
  <2>5. ReviewsAreEarned'
    BY <1>0, <1>2, <2>3, <2>4 DEF Inv, ReviewsAreEarned, InsertReview
  <2> QED
    BY <2>2, <2>5, ReviewsWritten DEF InsertReview
<1> QED
  BY <1>0, <1>1, <1>2 DEF InsertReview

\* The one review of a meeting is replaced by one that differs in its rating.
LEMMA EditedReview ==
    ASSUME Inv, NEW h \in Handlers, CommitEdit(h), reviews' # reviews
    PROVE  \E r \in reviews, v \in Ratings :
               /\ r.meeting = handler[h].meeting
               /\ ReviewsOf(handler[h].meeting) = {r}
               /\ reviews' = (reviews \ {r}) \cup {[r EXCEPT !.rating = v]}
<1> DEFINE m == handler[h].meeting
<1>1. PICK v \in Ratings :
          reviews' = (reviews \ ReviewsOf(m)) \cup
                         {[r EXCEPT !.rating = v] : r \in ReviewsOf(m)}
  BY DEF CommitEdit
<1>2. ReviewsOf(m) # {}
  BY <1>1
<1>3. PICK r \in reviews : r.meeting = m /\ ReviewsOf(m) = {r}
  BY <1>2 DEF ReviewsOf, Inv, ReviewsAreEarned
<1> QED
  BY <1>1, <1>3

\* Editing a review keeps Inv.
LEMMA Editing ==
    ASSUME Inv, NEW h \in Handlers, CommitEdit(h)
    PROVE  Inv'
<1>1. CASE UNCHANGED reviews
  BY <1>1, ReviewsWritten DEF CommitEdit, Inv, TypeOK, ReviewsAreEarned,
     ReviewsOf
<1>2. CASE reviews' # reviews
  <2>1. PICK r \in reviews, v \in Ratings :
            /\ ReviewsOf(r.meeting) = {r}
            /\ reviews' = (reviews \ {r}) \cup {[r EXCEPT !.rating = v]}
    BY <1>2, EditedReview
  <2> DEFINE new == [r EXCEPT !.rating = v]
  <2>2. /\ new \in Reviews
        /\ new.meeting = r.meeting
        /\ new.by = r.by
    BY DEF Inv, TypeOK, Reviews
  <2>3. reviews' \subseteq Reviews
    BY <2>1, <2>2 DEF Inv, TypeOK
  <2>4. ASSUME NEW q \in reviews'
        PROVE  /\ ReviewsOf(q.meeting)' = {q}
               /\ q.by = Mentee
               /\ q.meeting \in held
    <3>1. CASE q = new
      BY <2>1, <2>2, <3>1 DEF ReviewsOf, Inv, ReviewsAreEarned
    <3>2. CASE q # new
      <4>1. q \in reviews /\ q.meeting # r.meeting
        BY <2>1, <2>4, <3>2 DEF ReviewsOf
      <4> QED
        BY <2>1, <2>2, <4>1 DEF ReviewsOf, Inv, ReviewsAreEarned
    <3> QED
      BY <3>1, <3>2
  <2>5. ReviewsAreEarned'
    BY <2>4 DEF ReviewsAreEarned, CommitEdit
  <2> QED
    BY <2>3, <2>5, ReviewsWritten DEF CommitEdit
<1> QED
  BY <1>1, <1>2

-----------------------------------------------------------------------------
\* One step of the system keeps the invariant.
LEMMA StepKeeps ==
    ASSUME Inv, [Next]_vars
    PROVE  Inv'
<1>1. ASSUME NEW h \in Handlers, NEW op \in Operations, NEW u \in Users,
             NEW m \in Meetings, Authenticate(h, op, u, m)
      PROVE  Inv'
  <2> DEFINE r == [op |-> op, caller |-> u, meeting |-> m,
                   pc |-> "authenticated", seen |-> "none", due |-> NoTime,
                   rating |-> 0]
  <2>1. r \in Request /\ Checked(r)
    BY DEF Request, Checked, Progress, Status
  <2> QED
    BY <1>1, <2>1, SlotOnly DEF Authenticate
<1>2. ASSUME NEW h \in Handlers, Handle(h) PROVE Inv'
  BY <1>2, Reading, Reviewing, Moving, Inserting, Editing DEF Handle
<1>3. CASE Tick \/ MentorshipChanges \/ UNCHANGED vars
  <2>1. /\ UNCHANGED <<rows, handler>>
        /\ now' \in Times
        /\ active' \in BOOLEAN
    <3>1. now \in Times /\ active \in BOOLEAN
      BY DEF Inv, TypeOK
    <3>2. CASE Tick
      BY <3>1, <3>2, TimeAssumption DEF Tick, rows, Times
    <3>3. CASE MentorshipChanges
      BY <3>1, <3>3 DEF MentorshipChanges, rows
    <3>4. CASE UNCHANGED vars
      BY <3>1, <3>4 DEF vars, rows
    <3> QED
      BY <1>3, <3>2, <3>3, <3>4
  <2> QED
    BY <2>1 DEF Inv, TypeOK, HandlersHaveChecked, Checked, ScheduledHasTime,
       ReviewsAreEarned, ReviewsOf, rows
<1> QED
  BY <1>1, <1>2, <1>3 DEF Next

\* Inv holds when the system starts.
LEMMA InitKeeps == Init => Inv
  BY TimeAssumption DEF Init, Inv, TypeOK, HandlersHaveChecked,
     ScheduledHasTime, ReviewsAreEarned, Status, Times

\* Inv holds in every interleaving of any number of handlers.
THEOREM Invariance == Spec => []Inv
  BY InitKeeps, StepKeeps, PTL DEF Spec

\* Rows and requests in flight keep the shape of the schema; a review always
\* gets a deadline.
THEOREM TypeCorrect == Spec => []TypeOK
<1>1. Inv => TypeOK
  BY DEF Inv
<1> QED
  BY <1>1, Invariance, PTL

\* What a handler checked and nobody can undo still holds when it commits, and
\* the completion of a meeting is remembered.
THEOREM ChecksHold == Spec => []HandlersHaveChecked
<1>1. Inv => HandlersHaveChecked
  BY DEF Inv
<1> QED
  BY <1>1, Invariance, PTL

\* No interleaving of stale writes schedules or completes a meeting that has
\* no time.
THEOREM TimesAreSet == Spec => []ScheduledHasTime
<1>1. Inv => ScheduledHasTime
  BY DEF Inv
<1> QED
  BY <1>1, Invariance, PTL

\* However many handlers race, a review is the only one of its meeting, is
\* by the mentee, and follows a completed meeting.
THEOREM ReviewsEarned == Spec => []ReviewsAreEarned
<1>1. Inv => ReviewsAreEarned
  BY DEF Inv
<1> QED
  BY <1>1, Invariance, PTL

\* Reviews stay, with their author and their deadline.
THEOREM ReviewsStay == Spec => ReviewsPersist
<1>1. ASSUME Inv, [Next]_vars, NEW r \in reviews
      PROVE  \E s \in reviews' :
                 s.meeting = r.meeting /\ s.by = r.by /\ s.until = r.until
  <2>1. CASE reviews \subseteq reviews'
    BY <2>1
  <2>2. ASSUME ~(reviews \subseteq reviews')
        PROVE  \E h \in Handlers : CommitEdit(h) /\ reviews' # reviews
    BY <1>1, <2>2 DEF Next, Authenticate, Handle, LoadMentorship,
       InsertMeeting, LoadSchedule, CommitSchedule, LoadCancel, CommitCancel,
       LoadComplete, CommitComplete, LoadMeeting, FindReview, InsertReview,
       LoadReview, Tick, MentorshipChanges, Load, rows, vars
  <2>3. ASSUME NEW h \in Handlers, CommitEdit(h), reviews' # reviews
        PROVE  \E s \in reviews' :
                   s.meeting = r.meeting /\ s.by = r.by /\ s.until = r.until
    <3>1. PICK q \in reviews, v \in Ratings :
              reviews' = (reviews \ {q}) \cup {[q EXCEPT !.rating = v]}
      BY <1>1, <2>3, EditedReview
    <3>2. /\ [q EXCEPT !.rating = v].meeting = q.meeting
          /\ [q EXCEPT !.rating = v].by = q.by
          /\ [q EXCEPT !.rating = v].until = q.until
      BY <1>1 DEF Inv, TypeOK, Reviews
    <3> QED
      BY <3>1, <3>2
  <2> QED
    BY <2>1, <2>2, <2>3
<1>2. Inv /\ [Next]_vars => [\A r \in reviews : \E s \in reviews' :
           /\ s.meeting = r.meeting
           /\ s.by = r.by
           /\ s.until = r.until]_vars
  BY <1>1
<1> QED
  BY <1>2, Invariance, PTL DEF Spec, ReviewsPersist

-----------------------------------------------------------------------------
(* When a review becomes final.                                            *)

\* h has read the review of m and is about to write it.
Edits(h, m) == At(h, "edit", "loaded") /\ handler[h].meeting = m

\* The window of r has closed, and nobody has read it before that and is yet
\* to write it.
Final(r) ==
    /\ r \in reviews
    /\ now > r.until
    /\ \A h \in Handlers : ~Edits(h, r.meeting)

\* A step of one handler that leaves the reviews and does not read a review
\* to edit it.
LEMMA FinalByOther ==
    ASSUME Inv, NEW r, Final(r), NEW h \in Handlers, NEW next,
           handler' = [handler EXCEPT ![h] = next],
           next = Idle \/ next.op # "edit" \/ next.pc # "loaded",
           r \in reviews', now' = now
    PROVE  Final(r)'
<1>1. ASSUME NEW g \in Handlers PROVE ~Edits(g, r.meeting)'
  BY DEF Inv, TypeOK, Final, Edits, At
<1> QED
  BY <1>1 DEF Final

\* A handler that reads and checks goes on with the operation it is in.
LEMMA FinalByLoad ==
    ASSUME Inv, NEW r, Final(r), NEW h \in Handlers,
           NEW op \in Operations \ {"edit"}, NEW checks, Load(h, op, checks)
    PROVE  Final(r)'
<1>1. /\ handler[h] \in Request
      /\ handler[h].op = op
      /\ r \in reviews' /\ now' = now
  BY Working DEF Load, At, Final, rows, world
<1>2. CASE Answer(h)
  BY <1>1, <1>2, FinalByOther DEF Answer
<1>3. CASE Remember(h)
  <2> DEFINE next == [handler[h] EXCEPT !.pc = "loaded",
                         !.seen = status[handler[h].meeting],
                         !.due = time[handler[h].meeting]]
  <2>1. handler' = [handler EXCEPT ![h] = next]
    BY <1>3 DEF Remember, Inv, TypeOK
  <2>2. next.op # "edit"
    BY <1>1 DEF Request
  <2> HIDE DEF next
  <2> QED
    BY <1>1, <2>1, <2>2, FinalByOther
<1> QED
  BY <1>2, <1>3 DEF Load

\* No step changes a final review or lets somebody begin to edit it.
LEMMA FinalStep ==
    ASSUME Inv, [Next]_vars, NEW r, Final(r)
    PROVE  Final(r)'
<1>0. /\ r \in Reviews /\ r.meeting \in Meetings /\ r.until \in Int
      /\ now \in Int
      /\ ReviewsOf(r.meeting) = {r}
  BY TimeAssumption DEF Inv, TypeOK, Final, Reviews, ReviewsAreEarned, Times
<1>1. ASSUME NEW h \in Handlers, NEW op \in Operations, NEW u \in Users,
             NEW m \in Meetings, Authenticate(h, op, u, m)
      PROVE  Final(r)'
  BY <1>1, FinalByOther DEF Authenticate, Final, rows, world
<1>2. ASSUME NEW h \in Handlers,
             LoadMentorship(h) \/ LoadSchedule(h) \/ LoadCancel(h)
             \/ LoadComplete(h)
      PROVE  Final(r)'
  BY <1>2, FinalByLoad DEF LoadMentorship, LoadSchedule, LoadCancel,
     LoadComplete, Operations
<1>3. ASSUME NEW h \in Handlers, Answer(h), r \in reviews', UNCHANGED now
      PROVE  Final(r)'
  BY <1>3, FinalByOther DEF Answer
<1>4. ASSUME NEW h \in Handlers, LoadMeeting(h) \/ FindReview(h)
      PROVE  Final(r)'
  <2>1. /\ handler[h] \in Request /\ handler[h].op = "review"
        /\ r \in reviews' /\ now' = now
    BY <1>4, Working DEF LoadMeeting, FindReview, At, Final, rows, world
  <2>2. CASE Answer(h)
    BY <1>3, <2>1, <2>2
  <2>3. CASE handler' = [handler EXCEPT ![h].pc = "meeting_read"]
    <3> DEFINE next == [handler[h] EXCEPT !.pc = "meeting_read"]
    <3>1. handler' = [handler EXCEPT ![h] = next] /\ next.op # "edit"
      BY <2>1, <2>3 DEF Inv, TypeOK, Request
    <3> HIDE DEF next
    <3> QED
      BY <2>1, <3>1, FinalByOther
  <2>4. CASE handler' = [handler EXCEPT ![h].pc = "loaded",
                                        ![h].due = now + EditWindow]
    <3> DEFINE next == [handler[h] EXCEPT !.pc = "loaded",
                                          !.due = now + EditWindow]
    <3>1. handler' = [handler EXCEPT ![h] = next] /\ next.op # "edit"
      BY <2>1, <2>4 DEF Inv, TypeOK, Request
    <3> HIDE DEF next
    <3> QED
      BY <2>1, <3>1, FinalByOther
  <2> QED
    BY <1>4, <2>2, <2>3, <2>4 DEF LoadMeeting, FindReview
<1>5. ASSUME NEW h \in Handlers, LoadReview(h) PROVE Final(r)'
  <2>1. handler[h] \in Request /\ r \in reviews' /\ now' = now
    BY <1>5, Working DEF LoadReview, At, Final, rows, world
  <2>2. CASE Answer(h)
    BY <1>3, <2>1, <2>2
  <2>3. ASSUME NEW q \in ReviewsOf(handler[h].meeting), now <= q.until,
               handler' = [handler EXCEPT ![h].pc = "loaded",
                                          ![h].rating = q.rating]
        PROVE  Final(r)'
    <3>1. handler[h].meeting # r.meeting
      BY <1>0, <2>3 DEF Final
    <3>2. handler'[h].meeting = handler[h].meeting
      BY <2>1, <2>3 DEF Inv, TypeOK, Request
    <3>3. ASSUME NEW g \in Handlers PROVE ~Edits(g, r.meeting)'
      BY <2>3, <3>1, <3>2 DEF Inv, TypeOK, Final, Edits, At
    <3> QED
      BY <2>1, <3>3 DEF Final
  <2> QED
    BY <1>5, <2>2, <2>3 DEF LoadReview
<1>6. ASSUME NEW h \in Handlers, InsertReview(h) PROVE Final(r)'
  <2>1. r \in reviews'
    BY <1>6 DEF InsertReview, Final
  <2> QED
    BY <1>3, <1>6, <2>1 DEF InsertReview, world
<1>7. ASSUME NEW h \in Handlers, CommitEdit(h) PROVE Final(r)'
  <2>1. r \notin ReviewsOf(handler[h].meeting)
    BY <1>7 DEF CommitEdit, Final, Edits, ReviewsOf
  <2>2. r \in reviews'
    BY <1>7, <2>1 DEF CommitEdit, Final
  <2> QED
    BY <1>3, <1>7, <2>2 DEF CommitEdit, world
<1>8. ASSUME NEW h \in Handlers,
             InsertMeeting(h) \/ CommitSchedule(h) \/ CommitCancel(h)
             \/ CommitComplete(h)
      PROVE  Final(r)'
  BY <1>3, <1>8 DEF InsertMeeting, CommitSchedule, CommitCancel,
     CommitComplete, world, Final
<1>9. CASE Tick
  <2>1. r \in reviews' /\ handler' = handler /\ now' > r.until
    BY <1>0, <1>9 DEF Tick, Final, rows
  <2> QED
    BY <2>1 DEF Final, Edits, At
<1>10. CASE MentorshipChanges \/ UNCHANGED vars
  BY <1>10 DEF MentorshipChanges, vars, rows, Final, Edits, At
<1> QED
  BY <1>1, <1>2, <1>4, <1>5, <1>6, <1>7, <1>8, <1>9, <1>10 DEF Next, Handle

\* The safety core of ReviewsBecomeFinal: a review whose window has closed,
\* and that no delayed edit is under way for, stays as it is for good.
THEOREM ReviewsAreFinal ==
    ASSUME NEW r \in Reviews
    PROVE  Spec => [](Final(r) => [](r \in reviews))
<1>1. Inv /\ [Next]_vars => (Final(r) => Final(r)')
  BY FinalStep
<1>2. Final(r) => r \in reviews
  BY DEF Final
<1> QED
  BY <1>1, <1>2, Invariance, PTL DEF Spec

-----------------------------------------------------------------------------
(* One request about a meeting at a time.                                  *)

\* Request r remembers what its row still holds.
Current(r) ==
    /\ r.pc = "loaded"
    /\ r.op \in {"create", "schedule", "cancel", "complete"}
    => r.seen = status[r.meeting] /\ r.due = time[r.meeting]

\* What the checks of request r said of its meeting, and still holds.
Ready(r) ==
    /\ r.op = "create" => status[r.meeting] = "none"
    /\ r.op = "schedule" /\ r.pc = "loaded" => r.seen = "requested"
    /\ r.op = "cancel" /\ r.pc = "loaded"
       => r.seen \in {"requested", "scheduled"}
    /\ r.op = "complete" /\ r.pc = "loaded" => r.seen = "scheduled"
    /\ r.op = "review" /\ r.pc # "authenticated"
       => status[r.meeting] = "completed"
    /\ r.op = "review" /\ r.pc = "loaded"
       => r.due \in EditWindow .. now + EditWindow
    /\ r.op = "edit" /\ r.pc = "loaded" => ReviewsOf(r.meeting) # {}

HandlersAreCurrent ==
    \A h \in Handlers :
        handler[h] # Idle => Current(handler[h]) /\ Ready(handler[h])

ReviewedAreCompleted == \A r \in reviews : status[r.meeting] = "completed"

ExclusiveInv ==
    Inv /\ Exclusive /\ HandlersAreCurrent /\ ReviewedAreCompleted

\* Nothing about meeting m is written.
Kept(m) ==
    /\ status'[m] = status[m]
    /\ time'[m] = time[m]
    /\ ReviewsOf(m)' = ReviewsOf(m)

\* Handlers that work on other meetings than h are still current.
LEMMA OthersCurrent ==
    ASSUME ExclusiveInv, NEW h \in Handlers, NEW r,
           handler' = [handler EXCEPT ![h] = r],
           r = Idle \/ (Current(r)' /\ Ready(r)'),
           \A g \in Handlers \ {h} :
               handler[g] # Idle => Kept(handler[g].meeting),
           now' = now
    PROVE  HandlersAreCurrent'
<1> SUFFICES ASSUME NEW g \in Handlers, handler'[g] # Idle
             PROVE  Current(handler[g])' /\ Ready(handler[g])'
  BY DEF HandlersAreCurrent
<1>1. CASE g = h
  BY <1>1 DEF ExclusiveInv, Inv, TypeOK
<1>2. CASE g # h
  <2>1. handler'[g] = handler[g] /\ handler[g] # Idle
    BY <1>2 DEF ExclusiveInv, Inv, TypeOK
  <2>2. /\ Kept(handler[g].meeting)
        /\ Current(handler[g])
        /\ Ready(handler[g])
    BY <1>2, <2>1 DEF ExclusiveInv, HandlersAreCurrent
  <2> QED
    BY <2>1, <2>2 DEF Kept, Current, Ready, ReviewsOf
<1> QED
  BY <1>1, <1>2

\* A step that only reads.
LEMMA ReadsCurrent ==
    ASSUME ExclusiveInv, NEW h \in Handlers, NEW r,
           handler' = [handler EXCEPT ![h] = r],
           r = Idle \/ (Current(r) /\ Ready(r)),
           UNCHANGED <<rows, world>>
    PROVE  HandlersAreCurrent' /\ ReviewedAreCompleted'
<1>1. Current(r) /\ Ready(r) => Current(r)' /\ Ready(r)'
  BY DEF Current, Ready, ReviewsOf, rows, world
<1>2. \A m : Kept(m)
  BY DEF Kept, ReviewsOf, rows
<1>3. HandlersAreCurrent'
  BY <1>1, <1>2, OthersCurrent DEF world
<1> QED
  BY <1>3 DEF ExclusiveInv, ReviewedAreCompleted, rows

\* A handler of another meeting has nothing to do with what h commits.
LEMMA CommitsCurrent ==
    ASSUME ExclusiveInv, NEW h \in Handlers, handler[h] # Idle, Answer(h),
           \A n \in Meetings \ {handler[h].meeting} : Kept(n),
           now' = now
    PROVE  HandlersAreCurrent'
<1>1. \A g \in Handlers \ {h} :
          handler[g] # Idle =>
              handler[g].meeting \in Meetings \ {handler[h].meeting}
  BY Working DEF ExclusiveInv, Exclusive
<1> QED
  BY <1>1, OthersCurrent DEF Answer

\* The steps that read a meeting leave every handler current.
LEMMA LoadsCurrent ==
    ASSUME ExclusiveInv, NEW h \in Handlers,
           \/ LoadMentorship(h) \/ LoadSchedule(h) \/ LoadCancel(h)
           \/ LoadComplete(h)
    PROVE  HandlersAreCurrent' /\ ReviewedAreCompleted'
<1> DEFINE m == handler[h].meeting
           r == [handler[h] EXCEPT !.pc = "loaded", !.seen = status[m],
                                   !.due = time[m]]
<1>1. /\ handler[h] # Idle
      /\ UNCHANGED <<rows, world>>
      /\ Answer(h) \/ Remember(h)
  BY DEF LoadMentorship, LoadSchedule, LoadCancel, LoadComplete, Load, At
<1>2. handler[h] \in Request /\ Ready(handler[h])
  BY <1>1, Working DEF ExclusiveInv, HandlersAreCurrent
<1>3. CASE Answer(h)
  BY <1>1, <1>3, ReadsCurrent DEF Answer
<1>4. CASE Remember(h) /\ ~Answer(h)
  <2>1. handler' = [handler EXCEPT ![h] = r]
    BY <1>4 DEF Remember, ExclusiveInv, Inv, TypeOK
  <2>2. /\ r.op = handler[h].op /\ r.meeting = m /\ r.pc = "loaded"
        /\ r.seen = status[m] /\ r.due = time[m]
    BY <1>2 DEF Request
  <2>3. /\ r.op \in {"create", "schedule", "cancel", "complete"}
        /\ r.op = "schedule" => status[m] = "requested"
        /\ r.op = "cancel" => status[m] \in {"requested", "scheduled"}
        /\ r.op = "complete" => status[m] = "scheduled"
    BY <1>4, <2>2 DEF LoadMentorship, LoadSchedule, LoadCancel, LoadComplete,
       Load, At
  <2>4. Current(r) /\ Ready(r)
    BY <1>2, <2>2, <2>3 DEF Current, Ready
  <2> QED
    BY <1>1, <2>1, <2>4, ReadsCurrent
<1> QED
  BY <1>1, <1>3, <1>4

\* The steps that read for a review leave every handler current.
LEMMA ReviewReadsCurrent ==
    ASSUME ExclusiveInv, NEW h \in Handlers,
           LoadMeeting(h) \/ FindReview(h) \/ LoadReview(h)
    PROVE  HandlersAreCurrent' /\ ReviewedAreCompleted'
<1> DEFINE m == handler[h].meeting
<1>1. /\ handler[h] # Idle
      /\ UNCHANGED <<rows, world>>
  BY DEF LoadMeeting, FindReview, LoadReview, At
<1>2. /\ handler[h] \in Request
      /\ Ready(handler[h])
      /\ handler \in [Handlers -> Request \cup {Idle}]
  BY <1>1, Working DEF ExclusiveInv, HandlersAreCurrent, Inv, TypeOK
<1>3. CASE Answer(h)
  BY <1>1, <1>3, ReadsCurrent DEF Answer
<1>4. CASE LoadMeeting(h) /\ ~Answer(h)
  <2> DEFINE r == [handler[h] EXCEPT !.pc = "meeting_read"]
  <2>1. /\ handler' = [handler EXCEPT ![h] = r]
        /\ status[m] = "completed"
        /\ handler[h].op = "review"
    BY <1>2, <1>4 DEF LoadMeeting, At
  <2>2. /\ r.op = "review" /\ r.meeting = m /\ r.pc = "meeting_read"
    BY <1>2, <2>1 DEF Request
  <2>3. Current(r) /\ Ready(r)
    BY <2>1, <2>2 DEF Current, Ready
  <2> QED
    BY <1>1, <2>1, <2>3, ReadsCurrent
<1>5. CASE FindReview(h) /\ ~Answer(h)
  <2> DEFINE r == [handler[h] EXCEPT !.pc = "loaded", !.due = now + EditWindow]
  <2>1. /\ handler' = [handler EXCEPT ![h] = r]
        /\ handler[h].op = "review"
        /\ handler[h].pc = "meeting_read"
    BY <1>2, <1>5 DEF FindReview, At
  <2>2. /\ r.op = "review" /\ r.meeting = m /\ r.pc = "loaded"
        /\ r.due = now + EditWindow
    BY <1>2, <2>1 DEF Request
  <2>3. now + EditWindow \in EditWindow .. now + EditWindow
    BY TimeAssumption DEF ExclusiveInv, Inv, TypeOK, Times
  <2>4. status[m] = "completed"
    BY <1>2, <2>1 DEF Ready
  <2>5. Current(r) /\ Ready(r)
    BY <2>2, <2>3, <2>4 DEF Current, Ready
  <2> QED
    BY <1>1, <2>1, <2>5, ReadsCurrent
<1>6. CASE LoadReview(h) /\ ~Answer(h)
  <2>1. PICK q \in ReviewsOf(m) :
            handler' = [handler EXCEPT ![h].pc = "loaded",
                                       ![h].rating = q.rating]
    BY <1>6 DEF LoadReview
  <2> DEFINE r == [handler[h] EXCEPT !.pc = "loaded", !.rating = q.rating]
  <2>2. handler' = [handler EXCEPT ![h] = r] /\ handler[h].op = "edit"
    BY <1>2, <1>6, <2>1 DEF LoadReview, At
  <2>3. r.op = "edit" /\ r.meeting = m /\ r.pc = "loaded"
    BY <1>2, <2>2 DEF Request
  <2>4. Current(r) /\ Ready(r)
    BY <2>1, <2>3 DEF Current, Ready
  <2> QED
    BY <1>1, <2>2, <2>4, ReadsCurrent
<1> QED
  BY <1>3, <1>4, <1>5, <1>6

\* The move of a meeting: what was read is what the row holds.
LEMMA MovesCurrent ==
    ASSUME ExclusiveInv, NEW h \in Handlers,
           \/ InsertMeeting(h) \/ CommitSchedule(h) \/ CommitCancel(h)
           \/ CommitComplete(h)
    PROVE  HandlersAreCurrent' /\ ReviewedAreCompleted'
<1> DEFINE m == handler[h].meeting
<1>1. /\ handler[h] # Idle
      /\ Answer(h)
      /\ now' = now
      /\ reviews' = reviews
  BY DEF InsertMeeting, CommitSchedule, CommitCancel, CommitComplete, At, world
<1>2. \A n \in Meetings \ {m} : status'[n] = status[n] /\ time'[n] = time[n]
  BY DEF InsertMeeting, CommitSchedule, CommitCancel, CommitComplete, SetStatus,
     ExclusiveInv, Inv, TypeOK
<1>3. \A n \in Meetings \ {m} : Kept(n)
  BY <1>1, <1>2 DEF Kept, ReviewsOf
<1>4. HandlersAreCurrent'
  BY <1>1, <1>3, CommitsCurrent
<1>5. status[m] # "completed"
  <2>1. Current(handler[h]) /\ Ready(handler[h])
    BY <1>1 DEF ExclusiveInv, HandlersAreCurrent
  <2> QED
    BY <2>1 DEF Current, Ready, InsertMeeting, CommitSchedule, CommitCancel,
       CommitComplete, At
<1>6. ASSUME NEW r \in reviews PROVE status'[r.meeting] = "completed"
  <2>1. r.meeting \in Meetings /\ status[r.meeting] = "completed"
    BY <1>6 DEF ExclusiveInv, ReviewedAreCompleted, Inv, TypeOK, Reviews
  <2> QED
    BY <1>2, <1>5, <2>1
<1> QED
  BY <1>1, <1>4, <1>6 DEF ReviewedAreCompleted

\* Inserting a review leaves every handler current.
LEMMA InsertsCurrent ==
    ASSUME ExclusiveInv, NEW h \in Handlers, InsertReview(h)
    PROVE  HandlersAreCurrent' /\ ReviewedAreCompleted'
<1>1. PICK m : m = handler[h].meeting
  OBVIOUS
<1>2. /\ handler[h] # Idle
      /\ Answer(h)
      /\ UNCHANGED <<status, time, now>>
      /\ status[m] = "completed"
  BY <1>1 DEF InsertReview, At, world, ExclusiveInv, HandlersAreCurrent, Ready
<1>3. \A r \in reviews' : r \in reviews \/ r.meeting = m
  BY <1>1 DEF InsertReview
<1>4. reviews \subseteq reviews'
  BY DEF InsertReview
<1>5. \A n \in Meetings \ {m} : Kept(n)
  BY <1>2, <1>3, <1>4 DEF Kept, ReviewsOf
<1>6. HandlersAreCurrent'
  BY <1>1, <1>2, <1>5, CommitsCurrent
<1> QED
  BY <1>2, <1>3, <1>6 DEF ExclusiveInv, ReviewedAreCompleted

\* Editing a review leaves every handler current.
LEMMA EditsCurrent ==
    ASSUME ExclusiveInv, NEW h \in Handlers, CommitEdit(h)
    PROVE  HandlersAreCurrent' /\ ReviewedAreCompleted'
<1>1. /\ handler[h] # Idle
      /\ handler' = [handler EXCEPT ![h] = Idle]
      /\ UNCHANGED <<status, time, held, world>>
  BY DEF CommitEdit, At, Answer
<1>2. CASE UNCHANGED reviews
  BY <1>1, <1>2, ReadsCurrent DEF rows
<1>3. CASE reviews' # reviews
  <2>1. PICK r \in reviews, v \in Ratings :
            /\ r.meeting = handler[h].meeting
            /\ reviews' = (reviews \ {r}) \cup {[r EXCEPT !.rating = v]}
    BY <1>3, EditedReview DEF ExclusiveInv
  <2>2. [r EXCEPT !.rating = v].meeting = r.meeting
    BY DEF ExclusiveInv, Inv, TypeOK, Reviews
  <2>3. \A n \in Meetings \ {handler[h].meeting} : Kept(n)
    BY <1>1, <2>1, <2>2 DEF Kept, ReviewsOf
  <2>4. HandlersAreCurrent'
    BY <1>1, <2>3, CommitsCurrent DEF Answer, world
  <2> QED
    BY <1>1, <2>1, <2>2, <2>4 DEF ExclusiveInv, ReviewedAreCompleted
<1> QED
  BY <1>2, <1>3

\* Later deadlines stay possible when the clock moves on.
LEMMA WindowGrows ==
    ASSUME NEW a \in Int, NEW b \in Int, NEW w \in Int, a <= b
    PROVE  \A d \in w .. a + w : d \in w .. b + w
  OBVIOUS

\* Every step of the exclusive system keeps its invariant.
LEMMA ExclusiveStep ==
    ASSUME ExclusiveInv, [Next /\ Exclusive']_vars
    PROVE  ExclusiveInv'
<1>1. Inv' /\ Exclusive'
  BY StepKeeps DEF ExclusiveInv, Exclusive, vars
<1>2. ASSUME NEW h \in Handlers, NEW op \in Operations, NEW u \in Users,
             NEW m \in Meetings, Authenticate(h, op, u, m)
      PROVE  HandlersAreCurrent' /\ ReviewedAreCompleted'
  <2> DEFINE r == [op |-> op, caller |-> u, meeting |-> m,
                   pc |-> "authenticated", seen |-> "none", due |-> NoTime,
                   rating |-> 0]
  <2>1. Current(r) /\ Ready(r)
    BY <1>2 DEF Authenticate, Fresh, Current, Ready
  <2> QED
    BY <1>2, <2>1, ReadsCurrent DEF Authenticate
<1>3. ASSUME NEW h \in Handlers, Handle(h)
      PROVE  HandlersAreCurrent' /\ ReviewedAreCompleted'
  BY <1>3, LoadsCurrent, ReviewReadsCurrent, MovesCurrent, InsertsCurrent,
     EditsCurrent DEF Handle
<1>4. CASE Tick \/ MentorshipChanges \/ UNCHANGED vars
  <2>1. UNCHANGED <<rows, handler>> /\ now \in Nat /\ now' \in Nat /\ now <= now'
    BY <1>4, TimeAssumption DEF Tick, MentorshipChanges, vars, rows,
       ExclusiveInv, Inv, TypeOK, Times
  <2>2. ASSUME NEW h \in Handlers, handler[h] # Idle
        PROVE  Current(handler[h])' /\ Ready(handler[h])'
    <3>1. Current(handler[h]) /\ Ready(handler[h])
      BY <2>2 DEF ExclusiveInv, HandlersAreCurrent
    <3>2. now \in Int /\ now' \in Int /\ now <= now' /\ EditWindow \in Int
      BY <2>1, TimeAssumption
    <3>3. \A d \in EditWindow .. now + EditWindow :
              d \in EditWindow .. now' + EditWindow
      BY <3>2, WindowGrows
    <3> QED
      BY <2>1, <3>1, <3>3 DEF Current, Ready, ReviewsOf, rows
  <2>3. HandlersAreCurrent'
    BY <2>1, <2>2 DEF HandlersAreCurrent
  <2>4. ReviewedAreCompleted'
    BY <2>1 DEF ReviewedAreCompleted, rows, ExclusiveInv
  <2> QED
    BY <1>1, <2>3, <2>4 DEF ExclusiveInv
<1> QED
  BY <1>1, <1>2, <1>3, <1>4 DEF Next, ExclusiveInv

\* The exclusive system starts in its invariant.
LEMMA ExclusiveInit == Init => ExclusiveInv
  BY InitKeeps DEF Init, ExclusiveInv, Exclusive, HandlersAreCurrent,
     ReviewedAreCompleted

\* With one request about a meeting at a time, no handler works with a stale
\* meeting.
THEOREM SeenCurrent == ExclusiveSpec => []SeenIsCurrent
<1>1. ExclusiveInv => SeenIsCurrent
  BY DEF ExclusiveInv, HandlersAreCurrent, Current, SeenIsCurrent
<1> QED
  BY <1>1, ExclusiveInit, ExclusiveStep, PTL DEF ExclusiveSpec

\* Every step of the exclusive system is a step of the lifecycle or changes
\* nothing that can be seen.
LEMMA LifecycleStep ==
    ASSUME ExclusiveInv, [Next /\ Exclusive']_vars
    PROVE  [Lifecycle!Next]_(Lifecycle!vars)
<1>1. ASSUME NEW h \in Handlers, handler[h] # Idle
      PROVE  /\ handler[h].meeting \in Meetings
             /\ handler[h] \in Request
             /\ Checked(handler[h])
             /\ Current(handler[h])
             /\ Ready(handler[h])
  BY <1>1, Working DEF ExclusiveInv, HandlersAreCurrent
<1>2. ASSUME NEW h \in Handlers,
             \/ InsertMeeting(h) \/ CommitSchedule(h) \/ CommitCancel(h)
             \/ CommitComplete(h)
      PROVE  [Lifecycle!Next]_(Lifecycle!vars)
  <2> DEFINE m == handler[h].meeting
  <2>1. handler[h] # Idle
    BY <1>2 DEF InsertMeeting, CommitSchedule, CommitCancel, CommitComplete, At
  <2>2. CASE InsertMeeting(h)
    <3>1. Lifecycle!Create(m)
      BY <1>1, <2>1, <2>2 DEF InsertMeeting, At, Ready, SetStatus, world,
         Lifecycle!Create, Lifecycle!Move
    <3> QED
      BY <1>1, <2>1, <3>1 DEF Lifecycle!Next
  <2>3. CASE CommitSchedule(h)
    <3>1. Lifecycle!Schedule(m)
      BY <1>1, <2>1, <2>3 DEF CommitSchedule, At, Ready, Current, SetStatus,
         world, Lifecycle!Schedule, Lifecycle!Move
    <3> QED
      BY <1>1, <2>1, <3>1 DEF Lifecycle!Next
  <2>4. CASE CommitCancel(h)
    <3>1. Lifecycle!Cancel(m)
      BY <1>1, <2>1, <2>4 DEF CommitCancel, At, Ready, Current, SetStatus,
         world, Lifecycle!Cancel, Lifecycle!Move
    <3> QED
      BY <1>1, <2>1, <3>1 DEF Lifecycle!Next
  <2>5. CASE CommitComplete(h)
    <3>1. \/ Lifecycle!Complete(m)
          \/ UNCHANGED <<now, status, time, reviews>>
      BY <1>1, <2>1, <2>5 DEF CommitComplete, At, Ready, Current, SetStatus,
         world, Lifecycle!Complete, Lifecycle!Move
    <3> QED
      BY <1>1, <2>1, <3>1 DEF Lifecycle!Next, Lifecycle!vars
  <2> QED
    BY <1>2, <2>2, <2>3, <2>4, <2>5
<1>3. ASSUME NEW h \in Handlers, InsertReview(h)
      PROVE  [Lifecycle!Next]_(Lifecycle!vars)
  <2> DEFINE m == handler[h].meeting
  <2>1. /\ handler[h] # Idle
        /\ handler[h].op = "review"
        /\ handler[h].pc = "loaded"
    BY <1>3 DEF InsertReview, At
  <2>2. /\ m \in Meetings
        /\ status[m] = "completed"
        /\ handler[h].caller = Mentee
        /\ handler[h].due \in EditWindow .. now + EditWindow
    BY <1>1, <2>1 DEF Checked, Ready
  <2>3. CASE UNCHANGED reviews
    BY <1>3, <2>3 DEF InsertReview, world, Lifecycle!vars
  <2>4. CASE reviews' # reviews
    <3>1. PICK v \in Ratings :
              /\ ReviewsOf(m) = {}
              /\ reviews' = reviews \cup
                     {[meeting |-> m, by |-> Mentee, rating |-> v,
                       until |-> handler[h].due]}
      BY <1>3, <2>2, <2>4 DEF InsertReview
    <3>2. \A r \in reviews : r.meeting # m
      BY <3>1 DEF ReviewsOf
    <3>3. UNCHANGED <<now, status, time>>
      BY <1>3 DEF InsertReview, world
    <3>4. Lifecycle!Review(m)
      BY <2>2, <3>1, <3>2, <3>3 DEF Lifecycle!Review
    <3> QED
      BY <2>2, <3>4 DEF Lifecycle!Next
  <2> QED
    BY <2>3, <2>4
<1>4. ASSUME NEW h \in Handlers, CommitEdit(h)
      PROVE  [Lifecycle!Next]_(Lifecycle!vars)
  <2>1. CASE UNCHANGED reviews
    BY <1>4, <2>1 DEF CommitEdit, world, Lifecycle!vars
  <2>2. CASE reviews' # reviews
    <3>1. PICK r \in reviews, v \in Ratings :
              reviews' = (reviews \ {r}) \cup {[r EXCEPT !.rating = v]}
      BY <1>4, <2>2, EditedReview DEF ExclusiveInv
    <3>2. r.meeting \in Meetings /\ status[r.meeting] = "completed"
      BY DEF ExclusiveInv, ReviewedAreCompleted, Inv, TypeOK, Reviews
    <3>3. Lifecycle!Edit(r.meeting)
      BY <1>4, <3>1, <3>2 DEF CommitEdit, world, Lifecycle!Edit
    <3> QED
      BY <3>2, <3>3 DEF Lifecycle!Next
  <2> QED
    BY <2>1, <2>2
<1>5. ASSUME NEW h \in Handlers,
             \/ LoadMentorship(h) \/ LoadSchedule(h) \/ LoadCancel(h)
             \/ LoadComplete(h) \/ LoadMeeting(h) \/ FindReview(h)
             \/ LoadReview(h)
      PROVE  UNCHANGED Lifecycle!vars
  BY <1>5 DEF LoadMentorship, LoadSchedule, LoadCancel, LoadComplete,
     LoadMeeting, FindReview, LoadReview, Load, rows, world, Lifecycle!vars
<1>6. CASE Tick
  BY <1>6 DEF Tick, rows, Lifecycle!Next, Lifecycle!Tick
<1>7. ASSUME NEW h \in Handlers, Handle(h)
      PROVE  [Lifecycle!Next]_(Lifecycle!vars)
  BY <1>2, <1>3, <1>4, <1>5, <1>7 DEF Handle
<1>8. CASE MentorshipChanges \/ UNCHANGED vars
  BY <1>8 DEF MentorshipChanges, vars, rows, Lifecycle!vars
<1>9. ASSUME NEW h \in Handlers, NEW op \in Operations, NEW u \in Users,
             NEW m \in Meetings, Authenticate(h, op, u, m)
      PROVE  UNCHANGED Lifecycle!vars
  BY <1>9 DEF Authenticate, rows, world, Lifecycle!vars
<1> QED
  BY <1>6, <1>7, <1>8, <1>9 DEF Next

\* The handlers then implement the documented lifecycle.
THEOREM Refinement == ExclusiveSpec => ImplementsLifecycle
<1>1. Init => Lifecycle!Init
  BY DEF Init, Lifecycle!Init, NoTime
<1>2. ExclusiveInv /\ [Next /\ Exclusive']_vars
      => [Lifecycle!Next]_(Lifecycle!vars)
  BY LifecycleStep
<1> QED
  BY <1>1, <1>2, ExclusiveInit, ExclusiveStep, PTL
     DEF ExclusiveSpec, ImplementsLifecycle, Lifecycle!Spec

\* An observed step is a step, and if it leaves no overlap to remember there
\* was none and is none.
LEMMA WatchedStep ==
    ASSUME overlapped \in BOOLEAN, [WatchedNext]_watched
    PROVE  /\ overlapped' \in BOOLEAN
           /\ ~overlapped' => ~overlapped /\ [Next /\ Exclusive']_vars
<1>1. CASE WatchedNext
  <2>1. Watch
    BY <1>1, Zenon DEF WatchedNext
  <2>2. Next
    BY <1>1, Zenon DEF WatchedNext, Next, Handle
  <2> QED
    BY <2>1, <2>2 DEF Watch
<1>2. CASE UNCHANGED watched
  BY <1>2 DEF watched
<1> QED
  BY <1>1, <1>2

\* Without the restriction to ExclusiveSpec: whatever happens after requests
\* about one meeting have overlapped, the steps before were the lifecycle's.
THEOREM UntilOverlap == WatchedSpec => LifecycleUntilOverlap
<1> DEFINE Until ==
        overlapped \in BOOLEAN /\ (~overlapped => ExclusiveInv)
<1>1. WatchedInit => Until /\ Lifecycle!Init
  BY ExclusiveInit DEF WatchedInit, Init, Lifecycle!Init, NoTime
<1>2. ASSUME Until, [WatchedNext]_watched
      PROVE  /\ Until'
             /\ ~overlapped' => [Lifecycle!Next]_(Lifecycle!vars)
  <2>1. overlapped' \in BOOLEAN
    BY <1>2, WatchedStep
  <2>2. ASSUME ~overlapped'
        PROVE  ExclusiveInv /\ [Next /\ Exclusive']_vars
    BY <1>2, <2>2, WatchedStep
  <2>3. ~overlapped' => ExclusiveInv' /\ [Lifecycle!Next]_(Lifecycle!vars)
    BY <2>2, ExclusiveStep, LifecycleStep
  <2> QED
    BY <2>1, <2>3
<1>3. Until /\ [WatchedNext]_watched
      => Until' /\ (~overlapped' => [Lifecycle!Next]_(Lifecycle!vars))
  BY <1>2
<1> HIDE DEF Until
<1> QED
  BY <1>1, <1>3, PTL DEF WatchedSpec, LifecycleUntilOverlap

\* What the lifecycle says of the status of one meeting.
LEMMA LifecycleMoves ==
    ASSUME TypeOK, [Lifecycle!Next]_(Lifecycle!vars), NEW m \in Meetings,
           status'[m] # status[m]
    PROVE  /\ status[m] # "completed"
           /\ status'[m] = "completed" => time[m] <= now
<1>1. PICK n \in Meetings :
          \/ Lifecycle!Create(n) \/ Lifecycle!Schedule(n)
          \/ Lifecycle!Cancel(n) \/ Lifecycle!Complete(n)
  BY DEF Lifecycle!Next, Lifecycle!vars, Lifecycle!Review, Lifecycle!Edit,
     Lifecycle!Tick
<1> QED
  BY <1>1 DEF TypeOK, Lifecycle!Create, Lifecycle!Schedule, Lifecycle!Cancel,
     Lifecycle!Complete, Lifecycle!Move

\* What the documentation says of the status is true of handlers that do not
\* overlap on one meeting: a completed meeting stays completed.
THEOREM CompletedStays == ExclusiveSpec => CompletedIsFinal
<1>1. ExclusiveInv /\ [Next /\ Exclusive']_vars
      => \A m \in Meetings :
             status[m] = "completed" => status'[m] = "completed"
  BY LifecycleStep, LifecycleMoves DEF ExclusiveInv, Inv
<1> QED
  BY <1>1, ExclusiveInit, ExclusiveStep, PTL DEF ExclusiveSpec, CompletedIsFinal

\* And no meeting is completed before its scheduled time.
THEOREM CompletedOnTime == ExclusiveSpec => CompletedInTime
<1>1. ExclusiveInv /\ [Next /\ Exclusive']_vars
      => \A m \in Meetings :
             status'[m] = "completed" /\ status[m] # "completed"
             => time[m] <= now
  BY LifecycleStep, LifecycleMoves DEF ExclusiveInv, Inv
<1> QED
  BY <1>1, ExclusiveInit, ExclusiveStep, PTL DEF ExclusiveSpec, CompletedInTime
=============================================================================
