----------------------------- MODULE Mentorship -----------------------------
(***************************************************************************)
(* Mentorships and their message threads: POST /mentorships, accept,       *)
(* decline, end, and POST /mentorships/{id}/messages.                      *)
(*                                                                         *)
(* Every endpoint is an async handler with a database session of its own.  *)
(* It reads rows at one time, checks them in memory, and writes and        *)
(* commits at a later time; PostgreSQL runs at READ COMMITTED, no row is   *)
(* locked or versioned, and an UPDATE addresses its row by primary key     *)
(* only.  A handler in flight is therefore a record that remembers what it *)
(* read, and the steps of several handlers interleave at every await       *)
(* between two statements that read or commit.  Flush and commit of one    *)
(* handler are one step: uncommitted rows are invisible to the others, and *)
(* the row lock an UPDATE takes only delays a second UPDATE of that row.   *)
(***************************************************************************)
EXTENDS Naturals, Sequences

CONSTANTS
    Users,       \* users who may call the API
    Profiles,    \* users who have a mentor profile
    Pairs,       \* pairs <<mentor, mentee>> that requests are about
    Handlers,    \* slots for requests that are processed at the same time
    MaxMessages  \* bound: no handler that posts starts on a longer thread

\* The texts of the two system messages, whose sender is NULL.
Notices == {"created", "renewed"}

ASSUME UsersAssumption == Users \cap Notices = {}
ASSUME ProfilesAssumption == Profiles \subseteq Users
ASSUME PairsAssumption == Pairs \subseteq Users \X Users
ASSUME BoundAssumption == MaxMessages \in Nat

VARIABLES
    status,   \* status[p]: the mentorship row of pair p, "none" if absent
    threads,  \* pairs whose mentorship has a message thread
    messages, \* messages[p]: the thread's messages in the order of commit
    enabled,  \* users whose mentor profile is enabled
    deleted,  \* users with deleted_at set
    handler,  \* handler[h]: the request slot h works on, and what it read
    accepted  \* history: pairs whose mentor has accepted at least once

vars == <<status, threads, messages, enabled, deleted, handler, accepted>>

rows == <<status, threads, messages, accepted>>
people == <<enabled, deleted>>

RowStatus == {"requested", "active", "ended", "declined"}
Status == RowStatus \cup {"none"}

Operations == {"request", "accept", "decline", "end", "send"}

\* What a handler has behind it: it knows its user, it found the mentor
\* (request only), it has read the mentorship and every check has passed.
Progress == {"authenticated", "mentor_found", "loaded"}

Request == [op : Operations, caller : Users, pair : Pairs,
            pc : Progress, seen : Status]

Idle == [op |-> "idle"]

Mentor(p) == p[1]
Mentee(p) == p[2]
Parties(p) == {Mentor(p), Mentee(p)}

TypeOK ==
    /\ status \in [Pairs -> Status]
    /\ threads \subseteq Pairs
    /\ messages \in [Pairs -> Seq(Users \cup Notices)]
    /\ enabled \subseteq Profiles
    /\ deleted \subseteq Users
    /\ handler \in [Handlers -> Request \cup {Idle}]
    /\ accepted \subseteq Pairs

Init ==
    /\ status = [p \in Pairs |-> "none"]
    /\ threads = {}
    /\ messages = [p \in Pairs |-> << >>]
    /\ enabled \in SUBSET Profiles
    /\ deleted = {}
    /\ handler = [h \in Handlers |-> Idle]
    /\ accepted = {}

-----------------------------------------------------------------------------
(* The steps every handler is made of.                                     *)

\* Handler h works on operation op and has come to point pc.
At(h, op, pc) ==
    /\ handler[h] # Idle
    /\ handler[h].op = op
    /\ handler[h].pc = pc

\* The response is sent, a success or an error: slot h is free again.
Answer(h) == handler' = [handler EXCEPT ![h] = Idle]

\* The row is in the session: h remembers the status it carried.
Remember(h) ==
    handler' = [handler EXCEPT ![h].pc = "loaded",
                               ![h].seen = status[handler[h].pair]]

\* A request arrives and get_or_create_user finds the caller.  A deleted
\* user is not found, and inserting the row again violates the unique
\* cognito_sub: such a request fails before it reads anything else.
Authenticate(h, op, u, p) ==
    /\ handler[h] = Idle
    /\ u \notin deleted
    /\ op = "request" => u = Mentee(p)
    /\ op \in {"request", "send"} => Len(messages[p]) < MaxMessages
    /\ handler' = [handler EXCEPT ![h] =
           [op |-> op, caller |-> u, pair |-> p,
            pc |-> "authenticated", seen |-> "none"]]
    /\ UNCHANGED <<rows, people>>

\* h reads the mentorship of its pair and goes on if the checks hold,
\* otherwise it answers with an error; nothing is written.
Load(h, op, checks) ==
    /\ At(h, op, "authenticated")
    /\ \/ checks /\ Remember(h)
       \/ ~checks /\ Answer(h)
    /\ UNCHANGED <<rows, people>>

\* h writes the status of its row, whatever the row holds by now.
SetStatus(h, s) == status' = [status EXCEPT ![handler[h].pair] = s]

Post(h, m) == messages' = [messages EXCEPT ![handler[h].pair] = Append(@, m)]

-----------------------------------------------------------------------------
(* POST /mentorships                                                       *)

\* Mutant of FindMentor: the self-mentorship check is gone.
FindMentorSelf(h) ==
    /\ At(h, "request", "authenticated")
    /\ \/ /\ Mentor(handler[h].pair) \in enabled \ deleted
          /\ handler' = [handler EXCEPT ![h].pc = "mentor_found"]
       \/ /\ Mentor(handler[h].pair) \notin enabled \ deleted
          /\ Answer(h)
    /\ UNCHANGED <<rows, people>>

\* Nobody mentors himself, and the mentor must be enabled and not deleted.
FindMentor(h) ==
    LET p == handler[h].pair
        found == Mentor(p) # Mentee(p) /\ Mentor(p) \in enabled \ deleted
    IN  /\ At(h, "request", "authenticated")
        /\ \/ found /\ handler' = [handler EXCEPT ![h].pc = "mentor_found"]
           \/ ~found /\ Answer(h)
        /\ UNCHANGED <<rows, people>>

\* A separate statement reads the existing mentorship; REQUESTED and ACTIVE
\* ones are duplicates.
FindExisting(h) ==
    LET duplicate == status[handler[h].pair] \in {"requested", "active"}
    IN  /\ At(h, "request", "mentor_found")
        /\ \/ duplicate /\ Answer(h)
           \/ ~duplicate /\ Remember(h)
        /\ UNCHANGED <<rows, people>>

\* Mutant of Renew: the thread is started afresh.
RenewAfresh(h) ==
    /\ At(h, "request", "loaded")
    /\ handler[h].seen \in {"ended", "declined"}
    /\ SetStatus(h, "requested")
    /\ messages' = [messages EXCEPT ![handler[h].pair] = <<"renewed">>]
    /\ Answer(h)
    /\ UNCHANGED <<threads, accepted, people>>

\* The row that was read as ended or declined is requested again, and the
\* thread, if there is one, says so.
Renew(h) ==
    /\ At(h, "request", "loaded")
    /\ handler[h].seen \in {"ended", "declined"}
    /\ SetStatus(h, "requested")
    /\ IF handler[h].pair \in threads
       THEN Post(h, "renewed") ELSE UNCHANGED messages
    /\ Answer(h)
    /\ UNCHANGED <<threads, accepted, people>>

\* Mutant of Insert: the unique constraint on (mentor_id, mentee_id) is
\* gone, so that a second mentorship of the pair opens a second thread.
InsertTwice(h) ==
    /\ At(h, "request", "loaded")
    /\ handler[h].seen = "none"
    /\ SetStatus(h, "requested")
    /\ threads' = threads \cup {handler[h].pair}
    /\ Post(h, "created")
    /\ Answer(h)
    /\ UNCHANGED <<accepted, people>>

\* No row was read: mentorship, thread and system message are inserted in
\* one transaction.  If another handler has inserted the row meanwhile, the
\* unique constraint fails the transaction and nothing is left of it.
Insert(h) ==
    /\ At(h, "request", "loaded")
    /\ handler[h].seen = "none"
    /\ \/ /\ status[handler[h].pair] = "none"
          /\ SetStatus(h, "requested")
          /\ threads' = threads \cup {handler[h].pair}
          /\ Post(h, "created")
       \/ /\ status[handler[h].pair] # "none"
          /\ UNCHANGED <<status, threads, messages>>
    /\ Answer(h)
    /\ UNCHANGED <<accepted, people>>

-----------------------------------------------------------------------------
(* POST /mentorships/{id}/accept, decline and end                          *)

\* Mutant of LoadAccept: either party may accept.
LoadAcceptAnyone(h) ==
    LET r == handler[h]
    IN  Load(h, "accept", /\ r.caller \in Parties(r.pair)
                          /\ status[r.pair] = "requested")

LoadAccept(h) ==
    LET r == handler[h]
    IN  Load(h, "accept", /\ r.caller = Mentor(r.pair)
                          /\ status[r.pair] = "requested")

CommitAccept(h) ==
    /\ At(h, "accept", "loaded")
    /\ SetStatus(h, "active")
    /\ accepted' = IF handler[h].caller = Mentor(handler[h].pair)
                   THEN accepted \cup {handler[h].pair} ELSE accepted
    /\ Answer(h)
    /\ UNCHANGED <<threads, messages, people>>

LoadDecline(h) ==
    LET r == handler[h]
    IN  Load(h, "decline", /\ r.caller = Mentor(r.pair)
                           /\ status[r.pair] = "requested")

CommitDecline(h) ==
    /\ At(h, "decline", "loaded")
    /\ SetStatus(h, "declined")
    /\ Answer(h)
    /\ UNCHANGED <<threads, messages, accepted, people>>

\* Mutant of LoadEnd: a pending request can be ended too.
LoadEndPending(h) ==
    LET r == handler[h]
    IN  Load(h, "end", /\ r.caller \in Parties(r.pair)
                       /\ status[r.pair] \in {"requested", "active"})

LoadEnd(h) ==
    LET r == handler[h]
    IN  Load(h, "end", /\ r.caller \in Parties(r.pair)
                       /\ status[r.pair] = "active")

\* Mutant of CommitEnd: a status the enumeration does not have.
CommitEndUnknown(h) ==
    /\ At(h, "end", "loaded")
    /\ SetStatus(h, "closed")
    /\ Answer(h)
    /\ UNCHANGED <<threads, messages, accepted, people>>

CommitEnd(h) ==
    /\ At(h, "end", "loaded")
    /\ SetStatus(h, "ended")
    /\ Answer(h)
    /\ UNCHANGED <<threads, messages, accepted, people>>

-----------------------------------------------------------------------------
(* POST /mentorships/{id}/messages                                         *)

\* Mutant of LoadSend: the sender need not be a party.
LoadSendAnyone(h) ==
    LET r == handler[h]
    IN  Load(h, "send", /\ status[r.pair] = "active"
                        /\ r.pair \in threads)

LoadSend(h) ==
    LET r == handler[h]
    IN  Load(h, "send", /\ status[r.pair] = "active"
                        /\ r.caller \in Parties(r.pair)
                        /\ r.pair \in threads)

CommitSend(h) ==
    /\ At(h, "send", "loaded")
    /\ Post(h, handler[h].caller)
    /\ Answer(h)
    /\ UNCHANGED <<status, threads, accepted, people>>

-----------------------------------------------------------------------------
(* What other components do to the rows the handlers read.                 *)

\* An admin enables or disables a mentor profile.
ToggleMentor(u) ==
    /\ enabled' = IF u \in enabled THEN enabled \ {u} ELSE enabled \cup {u}
    /\ UNCHANGED <<rows, deleted, handler>>

\* Mutant of DeleteUser: the mentorships of the user are ended with it.
DeleteUserCascade(u) ==
    /\ u \notin deleted
    /\ deleted' = deleted \cup {u}
    /\ enabled' = enabled \ {u}
    /\ status' = [p \in Pairs |->
                     IF u \in Parties(p) /\ status[p] # "none"
                     THEN "ended" ELSE status[p]]
    /\ UNCHANGED <<threads, messages, accepted, handler>>

\* A user deletes the account (or is banned): the profile is disabled with
\* it, unless an admin enables it meanwhile (module Moderation), and the
\* mentorships stay as they are.
DeleteUser(u) ==
    /\ u \notin deleted
    /\ deleted' = deleted \cup {u}
    /\ enabled' \in {enabled, enabled \ {u}}
    /\ UNCHANGED <<rows, handler>>

-----------------------------------------------------------------------------
Handle(h) ==
    \/ FindMentor(h) \/ FindExisting(h) \/ Renew(h) \/ Insert(h)
    \/ LoadAccept(h) \/ CommitAccept(h)
    \/ LoadDecline(h) \/ CommitDecline(h)
    \/ LoadEnd(h) \/ CommitEnd(h)
    \/ LoadSend(h) \/ CommitSend(h)

Next ==
    \/ \E h \in Handlers, op \in Operations, u \in Users, p \in Pairs :
           Authenticate(h, op, u, p)
    \/ \E h \in Handlers : Handle(h)
    \/ \E u \in Profiles : ToggleMentor(u)
    \/ \E u \in Users : DeleteUser(u)

Spec == Init /\ [][Next]_vars

(***************************************************************************)
(* The same system as long as no two requests about one mentorship are in  *)
(* flight together, whatever happens to other mentorships and users.       *)
(***************************************************************************)
Exclusive ==
    \A g, h \in Handlers :
        /\ g # h
        /\ handler[g] # Idle
        /\ handler[h] # Idle
        => handler[g].pair # handler[h].pair

ExclusiveSpec == Init /\ [][Next /\ Exclusive']_vars

-----------------------------------------------------------------------------
(* Properties of every interleaving of any number of handlers.             *)

\* Every mentorship has one thread, opened by the notice of its creation,
\* and no second creation is ever announced in it, although two first
\* requests may both find no row (create_mentorship, lines 105-157).
OneThreadPerMentorship ==
    \A p \in Pairs :
        /\ status[p] # "none" <=> p \in threads
        /\ p \in threads <=> messages[p] # << >>
        /\ \A i \in 1 .. Len(messages[p]) :
               messages[p][i] = "created" <=> i = 1

\* A mentorship is active or has ended, and a party has written in its
\* thread, only after the mentor himself accepted it at least once, however
\* late the handlers that end it or write in it commit.
ConsentBeforeActivity ==
    \A p \in Pairs :
        \/ status[p] \in {"active", "ended"}
        \/ \E i \in 1 .. Len(messages[p]) : messages[p][i] \in Users
        => p \in accepted

\* Whoever calls the endpoint, only the two parties write in a thread.
OnlyPartiesWrite ==
    \A p \in Pairs : \A i \in 1 .. Len(messages[p]) :
        messages[p][i] \in Parties(p) \cup Notices

\* Nobody is his own mentor and every mentor has a profile (lines 90-103).
MentorshipsAreLegal ==
    \A p \in Pairs :
        status[p] # "none" => Mentor(p) # Mentee(p) /\ Mentor(p) \in Profiles

\* A mentorship never disappears, a renewed one keeps its old conversation,
\* and a thread grows by one message at a time.
HistoryIsKept ==
    [][\A p \in Pairs :
           /\ status[p] # "none" => status'[p] # "none"
           /\ \/ messages'[p] = messages[p]
              \/ \E m \in Users \cup Notices :
                     messages'[p] = Append(messages[p], m)]_vars

\* What request r has checked and no other handler can undo.
Checked(r) ==
    /\ r.op = "request" /\ r.pc # "authenticated"
       => Mentor(r.pair) # Mentee(r.pair) /\ Mentor(r.pair) \in Profiles
    /\ r.op # "request" => r.pc # "mentor_found"
    /\ r.pc = "loaded" /\ r.seen # "none" => status[r.pair] # "none"
    /\ r.pc = "loaded" /\ r.op = "request"
       => r.seen \in {"none", "ended", "declined"}
    /\ r.pc = "loaded" /\ r.op \in {"accept", "decline"}
       => r.seen = "requested" /\ r.caller = Mentor(r.pair)
    /\ r.pc = "loaded" /\ r.op \in {"end", "send"}
       => /\ r.seen = "active"
          /\ r.caller \in Parties(r.pair)
          /\ r.pair \in accepted

\* What makes those properties inductive.  Rows are never deleted, parties
\* never change and an acceptance is never taken back, so these facts stay
\* true while a handler waits; the status it saw is not among them.
HandlersHaveChecked ==
    \A h \in Handlers : handler[h] # Idle => Checked(handler[h])

-----------------------------------------------------------------------------
(* Properties that need Exclusive.                                         *)

\* What a handler read about its mentorship is still so when it commits.
SeenIsCurrent ==
    \A h \in Handlers :
        handler[h] # Idle /\ handler[h].pc = "loaded"
        => handler[h].seen = status[handler[h].pair]

\* The abstract machine sees the rows, and not the handlers.
Lifecycle == INSTANCE MentorshipLifecycle WITH
    Pairs <- Pairs,
    status <- status,
    messages <- messages

\* The handlers take the steps of the documented lifecycle and no others.
ImplementsLifecycle == Lifecycle!Spec

-----------------------------------------------------------------------------
(* What the documentation says, without such a restriction.                *)

\* accept_mentorship_request, api/mentorships.py line 199: "Transitions
\* mentorship from REQUESTED to ACTIVE."
AcceptFromRequested ==
    [][\A p \in Pairs :
           status'[p] = "active" /\ status[p] # "active"
           => status[p] = "requested"]_vars
=============================================================================
