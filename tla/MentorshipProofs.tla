-------------------------- MODULE MentorshipProofs --------------------------
(***************************************************************************)
(* Proofs about module Mentorship, for any users, pairs and handlers, and  *)
(* about a reader of one of its threads (module MessagePaging).            *)
(***************************************************************************)
EXTENDS Mentorship, MessagePaging, FiniteSetTheorems, WellFoundedInduction, TLAPS

\* Type correctness: rows, threads and requests in flight keep the shape of
\* the database schema and of the handlers' local variables.
THEOREM TypeCorrect == Spec => []TypeOK
<1>1. Init => TypeOK
  BY DEF Init, TypeOK, Status
<1>2. TypeOK /\ [Next]_vars => TypeOK'
  <2> SUFFICES ASSUME TypeOK, [Next]_vars PROVE TypeOK'
    OBVIOUS
  <2>1. ASSUME NEW h \in Handlers, NEW op \in Operations, NEW u \in Users,
               NEW p \in Pairs, Authenticate(h, op, u, p)
        PROVE TypeOK'
    BY <2>1 DEF Authenticate, TypeOK, rows, people, Request, Progress, Status
  <2>2. ASSUME NEW h \in Handlers, Handle(h) PROVE TypeOK'
    <3>1. handler[h] # Idle
      BY <2>2 DEF Handle, FindMentor, FindExisting, Renew, Insert, LoadAccept,
         CommitAccept, LoadDecline, CommitDecline, LoadEnd, CommitEnd,
         LoadSend, CommitSend, Load, At
    <3>2. handler[h] \in Request /\ handler[h].pair \in Pairs
      BY <3>1 DEF TypeOK, Request
    <3>a. ASSUME UNCHANGED <<rows, people>>,
                 \/ Answer(h)
                 \/ Remember(h)
                 \/ handler' = [handler EXCEPT ![h].pc = "mentor_found"]
          PROVE TypeOK'
      <4>1. status[handler[h].pair] \in Status
        BY <3>2 DEF TypeOK
      <4>2. \A r \in Request, s \in Status, pc \in Progress :
                /\ [r EXCEPT !.pc = pc] \in Request
                /\ [r EXCEPT !.pc = pc, !.seen = s] \in Request
        BY DEF Request
      <4>3. \E r \in Request \cup {Idle} : handler' = [handler EXCEPT ![h] = r]
        <5>1. CASE Answer(h)
          BY <5>1 DEF Answer
        <5>2. CASE Remember(h)
          BY <5>2, <3>2, <4>1, <4>2 DEF Remember, Progress
        <5>3. CASE handler' = [handler EXCEPT ![h].pc = "mentor_found"]
          BY <5>3, <3>2, <4>1, <4>2 DEF Progress
        <5> QED
          BY <3>a, <5>1, <5>2, <5>3
      <4> QED
        BY <3>a, <4>3 DEF TypeOK, rows, people
    <3>3. CASE FindMentor(h)
      BY <3>3, <3>a DEF FindMentor
    <3>4. CASE FindExisting(h)
      BY <3>4, <3>a DEF FindExisting
    <3>5. ASSUME NEW op, NEW checks, Load(h, op, checks) PROVE TypeOK'
      BY <3>5, <3>a DEF Load
    <3>b. "created" \in Notices /\ "renewed" \in Notices
          /\ "requested" \in Status
      BY DEF Notices, Status, RowStatus
    <3>6. CASE Renew(h)
      <4>1. messages' \in [Pairs -> Seq(Users \cup Notices)]
        <5>1. CASE Post(h, "renewed")
          BY <5>1, <3>2, <3>b DEF Post, TypeOK
        <5> QED
          BY <5>1, <3>6 DEF Renew, TypeOK
      <4>2. status' \in [Pairs -> Status]
        BY <3>6, <3>b DEF Renew, SetStatus, TypeOK
      <4> QED
        BY <3>6, <4>1, <4>2 DEF Renew, Answer, TypeOK, people
    <3>7. CASE Insert(h)
      <4>1. messages' \in [Pairs -> Seq(Users \cup Notices)]
        <5>1. CASE Post(h, "created")
          BY <5>1, <3>2, <3>b DEF Post, TypeOK
        <5> QED
          BY <5>1, <3>7 DEF Insert, TypeOK
      <4>2. status' \in [Pairs -> Status]
        BY <3>7, <3>b DEF Insert, SetStatus, TypeOK
      <4>3. threads' \subseteq Pairs
        BY <3>2, <3>7 DEF Insert, TypeOK
      <4> QED
        BY <3>7, <4>1, <4>2, <4>3 DEF Insert, Answer, TypeOK, people
    <3>8. CASE CommitAccept(h) \/ CommitDecline(h) \/ CommitEnd(h)
      BY <3>2, <3>8 DEF CommitAccept, CommitDecline, CommitEnd, SetStatus,
         Answer, TypeOK, people, Status, RowStatus
    <3>9. CASE CommitSend(h)
      <4>1. handler[h].caller \in Users
        BY <3>2 DEF Request
      <4> QED
        BY <3>2, <3>9, <4>1 DEF CommitSend, Post, Answer, TypeOK, people
    <3> QED
      BY <2>2, <3>3, <3>4, <3>5, <3>6, <3>7, <3>8, <3>9 DEF Handle,
         LoadAccept, LoadDecline, LoadEnd, LoadSend
  <2>3. ASSUME NEW u \in Profiles, ToggleMentor(u) PROVE TypeOK'
    BY <2>3 DEF ToggleMentor, rows, TypeOK
  <2>4. ASSUME NEW u \in Users, DeleteUser(u) PROVE TypeOK'
    BY <2>4 DEF DeleteUser, rows, TypeOK
  <2>5. CASE UNCHANGED vars
    BY <2>5 DEF vars, TypeOK
  <2> QED
    BY <2>1, <2>2, <2>3, <2>4, <2>5 DEF Next
<1> QED
  BY <1>1, <1>2, PTL DEF Spec

-----------------------------------------------------------------------------
(* The inductive invariant.                                                *)

Inv ==
    /\ TypeOK
    /\ HandlersHaveChecked
    /\ OneThreadPerMentorship
    /\ ConsentBeforeActivity
    /\ OnlyPartiesWrite
    /\ MentorshipsAreLegal

\* Only a handler that commits changes a row.
LEMMA Writers ==
    ASSUME [Next]_vars
    PROVE  \/ UNCHANGED rows
           \/ \E h \in Handlers :
                  \/ Insert(h) \/ Renew(h) \/ CommitAccept(h)
                  \/ CommitDecline(h) \/ CommitEnd(h) \/ CommitSend(h)
<1>1. ASSUME NEW h \in Handlers, Handle(h)
      PROVE  \/ UNCHANGED rows
             \/ Insert(h) \/ Renew(h) \/ CommitAccept(h)
             \/ CommitDecline(h) \/ CommitEnd(h) \/ CommitSend(h)
  BY <1>1 DEF Handle, FindMentor, FindExisting, LoadAccept, LoadDecline,
     LoadEnd, LoadSend, Load
<1>2. UNCHANGED vars => UNCHANGED rows
  BY DEF vars, rows
<1> QED
  BY <1>1, <1>2 DEF Next, Authenticate, ToggleMentor, DeleteUser

\* What a commit leaves of the rows: the mentorships stay, those of other
\* pairs as they are, and acceptances are never taken back.
LEMMA RowsRemain ==
    ASSUME TypeOK, [Next]_vars
    PROVE  /\ \A p \in Pairs : status[p] # "none" => status'[p] # "none"
           /\ accepted \subseteq accepted'
<1>1. CASE UNCHANGED rows
  BY <1>1 DEF rows
<1>2. ASSUME NEW h \in Handlers,
             \/ Insert(h) \/ Renew(h) \/ CommitAccept(h)
             \/ CommitDecline(h) \/ CommitEnd(h) \/ CommitSend(h)
      PROVE  /\ \A p \in Pairs : status[p] # "none" => status'[p] # "none"
             /\ accepted \subseteq accepted'
  BY <1>2 DEF TypeOK, Insert, Renew, CommitAccept, CommitDecline, CommitEnd,
     CommitSend, SetStatus
<1> QED
  BY <1>1, <1>2, Writers

\* A step leaves a request in flight alone, answers it, takes a new one, or
\* moves it past checks that hold in the present state.
LEMMA CheckedStep ==
    ASSUME TypeOK, HandlersHaveChecked, ConsentBeforeActivity, [Next]_vars
    PROVE  HandlersHaveChecked'
<1> SUFFICES ASSUME NEW g \in Handlers, handler'[g] # Idle
             PROVE  Checked(handler[g])'
  BY DEF HandlersHaveChecked
<1>1. CASE handler'[g] = handler[g]
  <2>1. handler[g] \in Request /\ Checked(handler[g])
    BY <1>1 DEF HandlersHaveChecked, TypeOK
  <2>2. handler[g].pair \in Pairs
    BY <2>1 DEF Request
  <2> QED
    BY <1>1, <2>1, <2>2, RowsRemain DEF Checked
<1>2. ASSUME NEW op \in Operations, NEW u \in Users, NEW p \in Pairs,
             Authenticate(g, op, u, p)
      PROVE  Checked(handler[g])'
  <2>1. handler'[g] = [op |-> op, caller |-> u, pair |-> p,
                       pc |-> "authenticated", seen |-> "none"]
    BY <1>2 DEF Authenticate, TypeOK
  <2> QED
    BY <2>1 DEF Checked
<1>3. ASSUME Handle(g) PROVE Checked(handler[g])'
  <2>1. handler[g] \in Request /\ Checked(handler[g])
    BY <1>3 DEF Handle, FindMentor, FindExisting, Renew, Insert, LoadAccept,
       CommitAccept, LoadDecline, CommitDecline, LoadEnd, CommitEnd,
       LoadSend, CommitSend, Load, At, TypeOK, HandlersHaveChecked
  <2>2. ~Answer(g)
    BY DEF Answer, TypeOK
  <2>3. CASE FindMentor(g)
    <3>1. handler' = [handler EXCEPT ![g].pc = "mentor_found"]
          /\ handler[g].op = "request"
          /\ Mentor(handler[g].pair) # Mentee(handler[g].pair)
          /\ Mentor(handler[g].pair) \in Profiles
      BY <2>2, <2>3 DEF FindMentor, At, TypeOK
    <3>2. handler'[g] = [handler[g] EXCEPT !.pc = "mentor_found"]
      BY <3>1 DEF TypeOK
    <3> QED
      BY <2>1, <3>1, <3>2 DEF Checked, Request
  <2>4. ASSUME Remember(g)
        PROVE  /\ handler'[g].op = handler[g].op
               /\ handler'[g].caller = handler[g].caller
               /\ handler'[g].pair = handler[g].pair
               /\ handler'[g].pc = "loaded"
               /\ handler'[g].seen = status[handler[g].pair]
    BY <2>1, <2>4 DEF Remember, TypeOK, Request
  <2>5. CASE FindExisting(g)
    <3>1. /\ Remember(g) /\ At(g, "request", "mentor_found") /\ UNCHANGED rows
          /\ status[handler[g].pair] \in {"none", "ended", "declined"}
      BY <2>1, <2>2, <2>5 DEF FindExisting, TypeOK, Request, Status, RowStatus
    <3> QED
      BY <2>1, <2>4, <3>1 DEF Checked, At, rows
  <2>6. ASSUME LoadAccept(g) \/ LoadDecline(g)
        PROVE  Checked(handler[g])'
    <3>1. /\ Remember(g) /\ UNCHANGED rows
          /\ handler[g].op \in {"accept", "decline"}
          /\ handler[g].caller = Mentor(handler[g].pair)
          /\ status[handler[g].pair] = "requested"
      BY <2>2, <2>6 DEF LoadAccept, LoadDecline, Load, At
    <3> QED
      BY <2>4, <3>1 DEF Checked, rows
  <2>7. ASSUME LoadEnd(g) \/ LoadSend(g)
        PROVE  Checked(handler[g])'
    <3>1. /\ Remember(g) /\ UNCHANGED rows
          /\ handler[g].op \in {"end", "send"}
          /\ handler[g].caller \in Parties(handler[g].pair)
          /\ status[handler[g].pair] = "active"
      BY <2>2, <2>7 DEF LoadEnd, LoadSend, Load, At
    <3>2. handler[g].pair \in accepted
      BY <2>1, <2>7, <3>1 DEF ConsentBeforeActivity, Request
    <3> QED
      BY <2>4, <3>1, <3>2 DEF Checked, rows
  <2> QED
    BY <1>3, <2>2, <2>3, <2>5, <2>6, <2>7 DEF Handle, Renew, Insert,
       CommitAccept, CommitDecline, CommitEnd, CommitSend
<1>4. \/ handler'[g] = handler[g]
      \/ Handle(g)
      \/ \E op \in Operations, u \in Users, p \in Pairs :
             Authenticate(g, op, u, p)
  <2>1. ASSUME NEW h \in Handlers, h # g, Handle(h)
        PROVE  handler'[g] = handler[g]
    BY <2>1 DEF TypeOK, Handle, FindMentor, FindExisting, Renew, Insert,
       LoadAccept, CommitAccept, LoadDecline, CommitDecline, LoadEnd,
       CommitEnd, LoadSend, CommitSend, Load, Remember, Answer
  <2>2. ASSUME NEW h \in Handlers, h # g, NEW op, NEW u, NEW p,
               Authenticate(h, op, u, p)
        PROVE  handler'[g] = handler[g]
    BY <2>2 DEF Authenticate, TypeOK
  <2> QED
    BY <2>1, <2>2 DEF Next, ToggleMentor, DeleteUser, vars
<1> QED
  BY <1>1, <1>2, <1>3, <1>4

\* A committing handler works on a typed request that has passed its checks.
LEMMA Committer ==
    ASSUME TypeOK, HandlersHaveChecked, NEW h \in Handlers,
           NEW op, At(h, op, "loaded")
    PROVE  /\ handler[h] \in Request
           /\ handler[h].pair \in Pairs
           /\ handler[h].caller \in Users
           /\ handler[h].op = op
           /\ handler[h].pc = "loaded"
           /\ Checked(handler[h])
<1>1. handler[h] # Idle /\ handler[h].op = op /\ handler[h].pc = "loaded"
  BY DEF At
<1>2. handler[h] \in Request
  BY <1>1 DEF TypeOK
<1> QED
  BY <1>1, <1>2 DEF HandlersHaveChecked, Request

\* Every step keeps one thread for each mentorship.
LEMMA ThreadStep ==
    ASSUME TypeOK, HandlersHaveChecked, OneThreadPerMentorship, [Next]_vars
    PROVE  OneThreadPerMentorship'
<1>1. CASE UNCHANGED rows
  BY <1>1 DEF OneThreadPerMentorship, rows
<1> SUFFICES ASSUME NEW h \in Handlers,
                    \/ Insert(h) \/ Renew(h) \/ CommitAccept(h)
                    \/ CommitDecline(h) \/ CommitEnd(h) \/ CommitSend(h),
                    NEW p \in Pairs
             PROVE  /\ status'[p] # "none" <=> p \in threads'
                    /\ p \in threads' <=> messages'[p] # << >>
                    /\ \A i \in 1 .. Len(messages'[p]) :
                           messages'[p][i] = "created" <=> i = 1
  BY <1>1, Writers DEF OneThreadPerMentorship
<1>2. /\ status[p] # "none" <=> p \in threads
      /\ p \in threads <=> messages[p] # << >>
      /\ messages[p] \in Seq(Users \cup Notices)
      /\ \A i \in 1 .. Len(messages[p]) :
             messages[p][i] = "created" <=> i = 1
  BY DEF OneThreadPerMentorship, TypeOK
<1>3. CASE Insert(h)
  <2>1. CASE status[handler[h].pair] # "none" \/ handler[h].pair # p
    BY <1>2, <1>3, <2>1, Committer DEF Insert, SetStatus, Post, TypeOK
  <2>2. CASE status[handler[h].pair] = "none" /\ handler[h].pair = p
    <3>1. messages'[p] = <<"created">> /\ status'[p] = "requested"
      BY <1>2, <1>3, <2>2, Committer DEF Insert, SetStatus, Post, TypeOK
    <3> QED
      BY <1>3, <2>2, <3>1 DEF Insert
  <2> QED
    BY <2>1, <2>2
<1>4. CASE Renew(h)
  <2>1. handler[h].pair \in Pairs /\ status[handler[h].pair] # "none"
    BY <1>4, Committer DEF Renew, At, Checked
  <2>2. CASE handler[h].pair # p
    BY <1>2, <1>4, <2>1, <2>2 DEF Renew, SetStatus, Post, TypeOK
  <2>3. CASE handler[h].pair = p
    <3>1. /\ messages'[p] = Append(messages[p], "renewed")
          /\ status'[p] = "requested"
          /\ threads' = threads
      BY <1>2, <1>4, <2>1, <2>3 DEF Renew, SetStatus, Post, TypeOK
    <3>2. "renewed" \in Users \cup Notices
      BY DEF Notices
    <3> QED
      BY <1>2, <2>1, <2>3, <3>1, <3>2
  <2> QED
    BY <2>2, <2>3
<1>5. CASE CommitAccept(h) \/ CommitDecline(h) \/ CommitEnd(h)
  <2>1. handler[h].pair \in Pairs /\ status[handler[h].pair] # "none"
    BY <1>5, Committer DEF CommitAccept, CommitDecline, CommitEnd, Checked
  <2> QED
    BY <1>2, <1>5, <2>1 DEF CommitAccept, CommitDecline, CommitEnd, SetStatus,
       TypeOK
<1>6. CASE CommitSend(h)
  <2>1. /\ handler[h].pair \in Pairs
        /\ status[handler[h].pair] # "none"
        /\ handler[h].caller \in Users
    BY <1>6, Committer DEF CommitSend, Checked
  <2>2. handler[h].caller # "created"
    BY <2>1, UsersAssumption DEF Notices
  <2>3. CASE handler[h].pair # p
    BY <1>2, <1>6, <2>1, <2>3 DEF CommitSend, Post, TypeOK
  <2>4. CASE handler[h].pair = p
    <3>1. /\ messages'[p] = Append(messages[p], handler[h].caller)
          /\ status' = status
          /\ threads' = threads
      BY <1>6, <2>1, <2>4 DEF CommitSend, Post, TypeOK
    <3> QED
      BY <1>2, <2>1, <2>2, <2>4, <3>1
  <2> QED
    BY <2>3, <2>4
<1> QED
  BY <1>3, <1>4, <1>5, <1>6

\* The only status a stale handler can write without the mentor's consent
\* is one that needs none.
LEMMA ConsentStep ==
    ASSUME TypeOK, HandlersHaveChecked, ConsentBeforeActivity, [Next]_vars
    PROVE  ConsentBeforeActivity'
<1>1. CASE UNCHANGED rows
  BY <1>1 DEF ConsentBeforeActivity, rows
<1> SUFFICES ASSUME NEW h \in Handlers,
                    \/ Insert(h) \/ Renew(h) \/ CommitAccept(h)
                    \/ CommitDecline(h) \/ CommitEnd(h) \/ CommitSend(h),
                    NEW p \in Pairs,
                    \/ status'[p] \in {"active", "ended"}
                    \/ \E i \in 1 .. Len(messages'[p]) :
                           messages'[p][i] \in Users
             PROVE  p \in accepted'
  BY <1>1, Writers DEF ConsentBeforeActivity
<1>2. /\ messages[p] \in Seq(Users \cup Notices)
      /\ \/ status[p] \in {"active", "ended"}
         \/ \E i \in 1 .. Len(messages[p]) : messages[p][i] \in Users
         => p \in accepted'
  BY RowsRemain DEF ConsentBeforeActivity, TypeOK
<1>3. CASE Insert(h) \/ Renew(h)
  <2>1. handler[h].pair \in Pairs
    BY <1>3, Committer DEF Insert, Renew
  <2>2. status'[p] \in {"active", "ended"} => status[p] \in {"active", "ended"}
    BY <1>3, <2>1 DEF Insert, Renew, SetStatus, TypeOK
  <2>3. ASSUME NEW m \in Notices, messages'[p] = Append(messages[p], m),
               NEW i \in 1 .. Len(messages'[p]), messages'[p][i] \in Users
        PROVE  \E j \in 1 .. Len(messages[p]) : messages[p][j] \in Users
    <3>1. m \in Users \cup Notices /\ m \notin Users
      BY <2>3, UsersAssumption
    <3>2. i \in 1 .. Len(messages[p]) /\ messages[p][i] \in Users
      BY <1>2, <2>3, <3>1
    <3> QED
      BY <3>2
  <2>4. \/ messages'[p] = messages[p]
        \/ \E m \in Notices : messages'[p] = Append(messages[p], m)
    BY <1>3, <2>1 DEF Insert, Renew, Post, TypeOK, Notices
  <2> QED
    BY <1>2, <2>2, <2>3, <2>4
<1>4. CASE CommitAccept(h) \/ CommitDecline(h) \/ CommitEnd(h)
  <2>1. /\ handler[h].pair \in Pairs
        /\ CommitAccept(h) => handler[h].caller = Mentor(handler[h].pair)
        /\ CommitEnd(h) => handler[h].pair \in accepted
    BY <1>4, Committer DEF CommitAccept, CommitDecline, CommitEnd, Checked
  <2> QED
    BY <1>2, <1>4, <2>1, RowsRemain DEF CommitAccept, CommitDecline,
       CommitEnd, SetStatus, TypeOK
<1>5. CASE CommitSend(h)
  <2>1. handler[h].pair \in Pairs /\ handler[h].pair \in accepted
    BY <1>5, Committer DEF CommitSend, Checked
  <2> QED
    BY <1>2, <1>5, <2>1, RowsRemain DEF CommitSend, Post, TypeOK
<1> QED
  BY <1>3, <1>4, <1>5

\* Every step either leaves the thread of p alone or appends one message,
\* a notice or a text of a party.
LEMMA ThreadGrows ==
    ASSUME TypeOK, HandlersHaveChecked, [Next]_vars, NEW p \in Pairs
    PROVE  \/ messages'[p] = messages[p]
           \/ \E m \in (Parties(p) \cap Users) \cup Notices :
                  messages'[p] = Append(messages[p], m)
<1>1. CASE UNCHANGED rows
  BY <1>1 DEF rows
<1> SUFFICES ASSUME NEW h \in Handlers,
                    \/ Insert(h) \/ Renew(h) \/ CommitAccept(h)
                    \/ CommitDecline(h) \/ CommitEnd(h) \/ CommitSend(h)
             PROVE  \/ messages'[p] = messages[p]
                    \/ \E m \in (Parties(p) \cap Users) \cup Notices :
                           messages'[p] = Append(messages[p], m)
  BY <1>1, Writers
<1>2. CASE Insert(h) \/ Renew(h)
  BY <1>2 DEF Insert, Renew, Post, TypeOK, Notices
<1>3. CASE CommitAccept(h) \/ CommitDecline(h) \/ CommitEnd(h)
  BY <1>3 DEF CommitAccept, CommitDecline, CommitEnd
<1>4. CASE CommitSend(h)
  <2>1. /\ handler[h].caller \in Parties(handler[h].pair)
        /\ handler[h].caller \in Users
    BY <1>4, Committer DEF CommitSend, Checked
  <2> QED
    BY <1>4, <2>1 DEF CommitSend, Post, TypeOK
<1> QED
  BY <1>2, <1>3, <1>4

\* Every step keeps the threads to the parties.
LEMMA PartiesStep ==
    ASSUME TypeOK, HandlersHaveChecked, OnlyPartiesWrite, [Next]_vars
    PROVE  OnlyPartiesWrite'
<1> SUFFICES ASSUME NEW p \in Pairs, NEW i \in 1 .. Len(messages'[p])
             PROVE  messages'[p][i] \in Parties(p) \cup Notices
  BY DEF OnlyPartiesWrite
<1>1. /\ messages[p] \in Seq(Users \cup Notices)
      /\ \A j \in 1 .. Len(messages[p]) :
             messages[p][j] \in Parties(p) \cup Notices
  BY DEF OnlyPartiesWrite, TypeOK
<1>2. ASSUME NEW m \in (Parties(p) \cap Users) \cup Notices,
             messages'[p] = Append(messages[p], m)
      PROVE  messages'[p][i] \in Parties(p) \cup Notices
  <2>1. m \in Users \cup Notices /\ m \in Parties(p) \cup Notices
    OBVIOUS
  <2>2. CASE i \in 1 .. Len(messages[p])
    <3>1. messages'[p][i] = messages[p][i]
      BY <1>1, <1>2, <2>1, <2>2
    <3> QED
      BY <1>1, <2>2, <3>1
  <2>3. CASE i = Len(messages[p]) + 1
    <3>1. messages'[p][i] = m
      BY <1>1, <1>2, <2>1, <2>3
    <3> QED
      BY <2>1, <3>1
  <2> QED
    BY <1>1, <1>2, <2>1, <2>2, <2>3
<1> QED
  BY <1>1, <1>2, ThreadGrows

\* Every step keeps the mentorships legal.
LEMMA LegalStep ==
    ASSUME TypeOK, HandlersHaveChecked, MentorshipsAreLegal, [Next]_vars
    PROVE  MentorshipsAreLegal'
<1>1. CASE UNCHANGED rows
  BY <1>1 DEF MentorshipsAreLegal, rows
<1> SUFFICES ASSUME NEW h \in Handlers,
                    \/ Insert(h) \/ Renew(h) \/ CommitAccept(h)
                    \/ CommitDecline(h) \/ CommitEnd(h) \/ CommitSend(h),
                    NEW p \in Pairs, status'[p] # "none"
             PROVE  Mentor(p) # Mentee(p) /\ Mentor(p) \in Profiles
  BY <1>1, Writers DEF MentorshipsAreLegal
<1>2. CASE status[p] # "none"
  BY <1>2 DEF MentorshipsAreLegal
<1>3. CASE status[p] = "none"
  <2>1. ASSUME Renew(h) \/ CommitAccept(h) \/ CommitDecline(h) \/ CommitEnd(h)
        PROVE  status'[p] = status[p]
    <3>1. handler[h].pair # p
      BY <1>3, <2>1, Committer DEF Renew, CommitAccept, CommitDecline,
         CommitEnd, Checked
    <3> QED
      BY <2>1, <3>1 DEF Renew, CommitAccept, CommitDecline, CommitEnd,
         SetStatus, TypeOK
  <2>2. CASE Insert(h)
    <3>1. handler[h].pair = p
      BY <1>3, <2>2 DEF Insert, SetStatus, TypeOK
    <3> QED
      BY <2>2, <3>1, Committer DEF Insert, Checked
  <2> QED
    BY <1>3, <2>1, <2>2 DEF CommitSend
<1> QED
  BY <1>2, <1>3

\* The invariant behind the safety theorems: each of its parts needs that
\* the handlers in flight have made their checks, and that in turn needs the
\* consent that an active mentorship proves.
THEOREM Invariance == Spec => []Inv
<1>1. Init => Inv
  <2> SUFFICES ASSUME Init PROVE Inv
    OBVIOUS
  <2>1. TypeOK
    BY DEF Init, TypeOK, Status
  <2>2. HandlersHaveChecked
    BY DEF Init, HandlersHaveChecked
  <2>3. OneThreadPerMentorship /\ ConsentBeforeActivity /\ OnlyPartiesWrite
        /\ MentorshipsAreLegal
    BY DEF Init, OneThreadPerMentorship, ConsentBeforeActivity,
       OnlyPartiesWrite, MentorshipsAreLegal
  <2> QED
    BY <2>1, <2>2, <2>3 DEF Inv
<1>2. TypeOK /\ TypeOK' /\ Inv /\ [Next]_vars => Inv'
  BY CheckedStep, ThreadStep, ConsentStep, PartiesStep, LegalStep DEF Inv
<1> QED
  BY <1>1, <1>2, TypeCorrect, PTL DEF Spec

\* One thread per mentorship under any number of racing first requests.
THEOREM OneThread == Spec => []OneThreadPerMentorship
BY Invariance, PTL DEF Inv

\* No interleaving activates a mentorship the mentor never accepted.
THEOREM Consent == Spec => []ConsentBeforeActivity
BY Invariance, PTL DEF Inv

\* No interleaving lets a third user write in a thread.
THEOREM PartiesOnly == Spec => []OnlyPartiesWrite
BY Invariance, PTL DEF Inv

\* Mentorships only ever exist with a user who has a mentor profile and is
\* not the mentee himself.
THEOREM Legality == Spec => []MentorshipsAreLegal
BY Invariance, PTL DEF Inv

\* What a handler checked and nobody can undo still holds when it commits.
THEOREM ChecksHold == Spec => []HandlersHaveChecked
BY Invariance, PTL DEF Inv

\* Mentorships and conversations are never lost.
THEOREM HistoryKept == Spec => HistoryIsKept
<1>1. Inv /\ [Next]_vars =>
      [\A p \in Pairs :
           /\ status[p] # "none" => status'[p] # "none"
           /\ \/ messages'[p] = messages[p]
              \/ \E m \in Users \cup Notices :
                     messages'[p] = Append(messages[p], m)]_vars
  BY RowsRemain, ThreadGrows DEF Inv
<1> QED
  BY <1>1, Invariance, PTL DEF Spec, HistoryIsKept

-----------------------------------------------------------------------------
(* While no two requests are about one mentorship, the handlers implement  *)
(* the documented lifecycle.                                               *)

\* A handler that commits changes the mentorship of its own pair only, and
\* leaves its slot.
LEMMA CommitIsLocal ==
    ASSUME TypeOK, HandlersHaveChecked, NEW h \in Handlers,
           \/ Insert(h) \/ Renew(h) \/ CommitAccept(h)
           \/ CommitDecline(h) \/ CommitEnd(h) \/ CommitSend(h)
    PROVE  /\ handler[h] # Idle
           /\ handler' = [handler EXCEPT ![h] = Idle]
           /\ \A p \in Pairs : p # handler[h].pair => status'[p] = status[p]
BY DEF Insert, Renew, CommitAccept, CommitDecline, CommitEnd, CommitSend,
   SetStatus, Answer, At, TypeOK

\* A handler whose slot changes hands reads the present status or nothing.
LEMMA SlotSteps ==
    ASSUME TypeOK, [Next]_vars, NEW g \in Handlers, handler'[g] # Idle,
           handler'[g].pc = "loaded"
    PROVE  \/ handler'[g] = handler[g]
           \/ /\ UNCHANGED rows
              /\ handler'[g].seen = status[handler'[g].pair]
<1>1. ASSUME NEW h \in Handlers, h # g, Handle(h)
      PROVE  handler'[g] = handler[g]
  BY <1>1 DEF TypeOK, Handle, FindMentor, FindExisting, Renew, Insert,
     LoadAccept, CommitAccept, LoadDecline, CommitDecline, LoadEnd,
     CommitEnd, LoadSend, CommitSend, Load, Remember, Answer
<1>2. ASSUME NEW h \in Handlers, NEW op \in Operations, NEW u \in Users,
             NEW p \in Pairs, Authenticate(h, op, u, p)
      PROVE  handler'[g] = handler[g]
  BY <1>2 DEF Authenticate, TypeOK
<1>3. CASE Handle(g)
  <2>1. handler[g] \in Request
    BY <1>3 DEF Handle, FindMentor, FindExisting, Renew, Insert, LoadAccept,
       CommitAccept, LoadDecline, CommitDecline, LoadEnd, CommitEnd,
       LoadSend, CommitSend, Load, At, TypeOK
  <2>2. ~Answer(g)
    BY DEF Answer, TypeOK
  <2>3. ~FindMentor(g)
    BY <2>1, <2>2 DEF FindMentor, TypeOK, Request
  <2>4. Remember(g) /\ UNCHANGED rows
    BY <1>3, <2>2, <2>3 DEF Handle, FindExisting, Renew, Insert, LoadAccept,
       CommitAccept, LoadDecline, CommitDecline, LoadEnd, CommitEnd,
       LoadSend, CommitSend, Load
  <2> QED
    BY <2>1, <2>4 DEF Remember, TypeOK, Request
<1> QED
  BY <1>1, <1>2, <1>3 DEF Next, ToggleMentor, DeleteUser, vars

\* Every step of the exclusive system keeps what was read current.
LEMMA SeenStep ==
    ASSUME TypeOK, HandlersHaveChecked, Exclusive, SeenIsCurrent, [Next]_vars
    PROVE  SeenIsCurrent'
<1> SUFFICES ASSUME NEW g \in Handlers, handler'[g] # Idle,
                    handler'[g].pc = "loaded"
             PROVE  handler'[g].seen = status'[handler'[g].pair]
  BY DEF SeenIsCurrent
<1>1. CASE UNCHANGED rows
  BY <1>1, SlotSteps DEF SeenIsCurrent, rows
<1>2. ASSUME NEW h \in Handlers,
             \/ Insert(h) \/ Renew(h) \/ CommitAccept(h)
             \/ CommitDecline(h) \/ CommitEnd(h) \/ CommitSend(h)
      PROVE  handler'[g].seen = status'[handler'[g].pair]
  <2>1. g # h /\ handler'[g] = handler[g]
    BY <1>2, CommitIsLocal DEF TypeOK
  <2>2. handler[g].pair \in Pairs /\ handler[g].pair # handler[h].pair
    BY <1>2, <2>1, CommitIsLocal DEF Exclusive, TypeOK, Request
  <2> QED
    BY <1>2, <2>1, <2>2, CommitIsLocal DEF SeenIsCurrent
<1> QED
  BY <1>1, <1>2, Writers

\* Every step of a handler is a step of the lifecycle, or changes nothing
\* the lifecycle speaks of.
LEMMA LifecycleStep ==
    ASSUME Inv, SeenIsCurrent, [Next]_vars
    PROVE  [Lifecycle!Next]_<<status, messages>>
<1>1. CASE UNCHANGED rows
  BY <1>1 DEF rows
<1>2. ASSUME NEW h \in Handlers,
             \/ Insert(h) \/ Renew(h) \/ CommitAccept(h)
             \/ CommitDecline(h) \/ CommitEnd(h) \/ CommitSend(h)
      PROVE  [Lifecycle!Next]_<<status, messages>>
  <2> DEFINE p == handler[h].pair
  <2>1. /\ p \in Pairs
        /\ handler[h].seen = status[p]
        /\ Checked(handler[h])
    BY <1>2, Committer DEF Insert, Renew, CommitAccept, CommitDecline,
       CommitEnd, CommitSend, Inv, SeenIsCurrent, At
  <2>2. CASE Insert(h)
    <3>1. Lifecycle!Request(p)
      BY <2>1, <2>2 DEF Insert, At, Checked, SetStatus, Post, Mentor, Mentee,
         Lifecycle!Request, Lifecycle!Move, Lifecycle!Post,
         Lifecycle!Mentor, Lifecycle!Mentee
    <3> QED
      BY <2>1, <3>1 DEF Lifecycle!Next
  <2>3. CASE Renew(h)
    <3>1. p \in threads
      BY <2>1, <2>3 DEF Renew, Inv, OneThreadPerMentorship
    <3>2. Lifecycle!Renew(p)
      BY <2>1, <2>3, <3>1 DEF Renew, SetStatus, Post, Lifecycle!Renew,
         Lifecycle!Move, Lifecycle!Post
    <3> QED
      BY <2>1, <3>2 DEF Lifecycle!Next
  <2>4. CASE CommitAccept(h)
    <3>1. Lifecycle!Accept(p)
      BY <2>1, <2>4 DEF CommitAccept, At, Checked, SetStatus,
         Lifecycle!Accept, Lifecycle!Move
    <3> QED
      BY <2>1, <3>1 DEF Lifecycle!Next
  <2>5. CASE CommitDecline(h)
    <3>1. Lifecycle!Decline(p)
      BY <2>1, <2>5 DEF CommitDecline, At, Checked, SetStatus,
         Lifecycle!Decline, Lifecycle!Move
    <3> QED
      BY <2>1, <3>1 DEF Lifecycle!Next
  <2>6. CASE CommitEnd(h)
    <3>1. Lifecycle!End(p)
      BY <2>1, <2>6 DEF CommitEnd, At, Checked, SetStatus,
         Lifecycle!End, Lifecycle!Move
    <3> QED
      BY <2>1, <3>1 DEF Lifecycle!Next
  <2>7. CASE CommitSend(h)
    <3>1. handler[h].caller \in Lifecycle!Parties(p)
      BY <2>1, <2>7 DEF CommitSend, At, Checked, Parties, Mentor, Mentee,
         Lifecycle!Parties, Lifecycle!Mentor, Lifecycle!Mentee
    <3>2. Lifecycle!Write(p, handler[h].caller)
      BY <2>1, <2>7, <3>1 DEF CommitSend, At, Checked, Post,
         Lifecycle!Write, Lifecycle!Post
    <3> QED
      BY <2>1, <3>1, <3>2 DEF Lifecycle!Next
  <2> QED
    BY <1>2, <2>2, <2>3, <2>4, <2>5, <2>6, <2>7
<1> QED
  BY <1>1, <1>2, Writers

\* What a handler read is still so when it commits.
THEOREM ExclusiveInvariance ==
    ExclusiveSpec => [](Inv /\ Exclusive /\ SeenIsCurrent)
<1>1. ExclusiveSpec => []Inv
  <2>1. [Next /\ Exclusive']_vars => [Next]_vars
    OBVIOUS
  <2> QED
    BY <2>1, Invariance, PTL DEF ExclusiveSpec, Spec
<1>2. Init => Exclusive /\ SeenIsCurrent
  BY DEF Init, Exclusive, SeenIsCurrent
<1>3. Inv /\ Exclusive /\ SeenIsCurrent /\ [Next /\ Exclusive']_vars
      => Exclusive' /\ SeenIsCurrent'
  <2>1. Inv /\ Exclusive /\ SeenIsCurrent /\ [Next /\ Exclusive']_vars
        => SeenIsCurrent'
    BY SeenStep DEF Inv
  <2>2. Exclusive /\ [Next /\ Exclusive']_vars => Exclusive'
    BY DEF Exclusive, vars
  <2> QED
    BY <2>1, <2>2
<1> QED
  BY <1>1, <1>2, <1>3, PTL DEF ExclusiveSpec

\* Of two requests about different mentorships neither makes the other stale.
THEOREM SeenCurrent == ExclusiveSpec => []SeenIsCurrent
BY ExclusiveInvariance, PTL

\* Refinement: while no two requests about one mentorship overlap, every
\* behaviour of the handlers is one of the documented lifecycle.
THEOREM Refinement == ExclusiveSpec => ImplementsLifecycle
<1>1. Init => Lifecycle!Init
  BY DEF Init, Lifecycle!Init
<1>2. Inv /\ SeenIsCurrent /\ [Next /\ Exclusive']_vars
      => [Lifecycle!Next]_<<status, messages>>
  BY LifecycleStep
<1> QED
  BY <1>1, <1>2, ExclusiveInvariance, PTL
  DEF ExclusiveSpec, ImplementsLifecycle, Lifecycle!Spec, Lifecycle!vars

\* What the documentation says of accept is true of the lifecycle, and so of
\* handlers that do not overlap on one mentorship: ACTIVE is only ever
\* reached from REQUESTED.
THEOREM AcceptsRequested == ExclusiveSpec => AcceptFromRequested
<1>1. ASSUME TypeOK, [Lifecycle!Next]_<<status, messages>>,
             NEW p \in Pairs, status'[p] = "active", status[p] # "active"
      PROVE  status[p] = "requested"
  <2>1. PICK q \in Pairs :
            \/ Lifecycle!Request(q) \/ Lifecycle!Renew(q)
            \/ Lifecycle!Accept(q) \/ Lifecycle!Decline(q)
            \/ Lifecycle!End(q)
    BY <1>1 DEF Lifecycle!Next, Lifecycle!Write
  <2> QED
    BY <1>1, <2>1 DEF TypeOK, Lifecycle!Request, Lifecycle!Renew,
       Lifecycle!Accept, Lifecycle!Decline, Lifecycle!End, Lifecycle!Move
<1>2. Inv /\ SeenIsCurrent /\ [Next /\ Exclusive']_vars
      => \A p \in Pairs : status'[p] = "active" /\ status[p] # "active"
                         => status[p] = "requested"
  BY <1>1, LifecycleStep DEF Inv
<1> QED
  BY <1>2, ExclusiveInvariance, PTL DEF ExclusiveSpec, AcceptFromRequested
-----------------------------------------------------------------------------
(* A reader of one thread.  MessagePaging models the thread as a set of    *)
(* messages, which are told apart by their times and ids.                  *)

\* When a message was sent, and its place among those of one time.
Moment == Nat \X Nat

\* A set of numbers has a least one.
LEMMA Least ==
    ASSUME NEW S \in SUBSET Nat, S # {}
    PROVE  \E m \in S : \A k \in S : m <= k
<1> DEFINE R == OpToRel(<, Nat)
<1>1. IsWellFoundedOn(R, Nat)
  BY NatLessThanWellFounded
<1>2. \A k, n \in Nat : k < n => <<k, n>> \in R
  BY DEF OpToRel
<1> HIDE DEF R
<1>3. PICK m \in S : \A k \in S : <<k, m>> \notin R
  BY <1>1, WFMin
<1>4. ASSUME NEW k \in S PROVE m <= k
  <2>1. k \in Nat /\ m \in Nat /\ ~(k < m)
    BY <1>2, <1>3
  <2> QED
    BY <2>1
<1> QED
  BY <1>4

\* Times and ids order the messages of a thread.
LEMMA Order ==
    ASSUME NEW a \in Moment, NEW b \in Moment, NEW c \in Moment
    PROVE  /\ ~Newer(a, a)
           /\ a = b \/ Newer(a, b) \/ Newer(b, a)
           /\ ~(Newer(a, b) /\ Newer(b, a))
           /\ Newer(a, b) /\ Newer(b, c) => Newer(a, c)
<1>1. /\ a = <<a[1], a[2]>> /\ a[1] \in Nat /\ a[2] \in Nat
      /\ b = <<b[1], b[2]>> /\ b[1] \in Nat /\ b[2] \in Nat
      /\ c[1] \in Nat /\ c[2] \in Nat
  BY DEF Moment
<1> QED
  BY <1>1 DEF Newer

\* The cursor of a page: its last message.
LEMMA OldestOfPage ==
    ASSUME NEW P \in SUBSET Moment, P # {}
    PROVE  /\ Oldest(P) \in P
           /\ \A a \in P : a = Oldest(P) \/ Newer(a, Oldest(P))
<1>1. PICK t \in {m[1] : m \in P} : \A k \in {m[1] : m \in P} : t <= k
  <2>1. {m[1] : m \in P} \in SUBSET Nat /\ {m[1] : m \in P} # {}
    BY DEF Moment
  <2> QED
    BY <2>1, Least
<1> DEFINE Q == {m \in P : m[1] = t}
<1>2. PICK i \in {m[2] : m \in Q} : \A k \in {m[2] : m \in Q} : i <= k
  <2>1. {m[2] : m \in Q} \in SUBSET Nat /\ {m[2] : m \in Q} # {}
    BY <1>1 DEF Moment
  <2> QED
    BY <2>1, Least
<1>3. PICK m \in Q : m[2] = i
  BY <1>2
<1>4. ASSUME NEW a \in P \ {m} PROVE Newer(a, m)
  <2>1. /\ a \in Moment /\ m \in Moment
        /\ m[1] <= a[1] /\ (a[1] = m[1] => m[2] <= a[2])
    BY <1>1, <1>2, <1>3
  <2>2. ~Newer(m, a)
    BY <2>1 DEF Newer, Moment
  <2> QED
    BY <2>1, <2>2, Order
<1>5. \E m_1 \in P : \A a \in P \ {m_1} : Newer(a, m_1)
  BY <1>3, <1>4
<1> QED
  BY <1>5 DEF Oldest

-----------------------------------------------------------------------------
\* What a reader remembers.
Walk == [pc : {"idle", "reading", "done"}, got : SUBSET Message,
         cursor : Message \cup {Top}]

\* What a reader has got is not older than its cursor, and what was there
\* when it began and is not older, it has got: a message that is sent later,
\* before or behind the cursor, disturbs neither.
Halfway ==
    \/ /\ walk.cursor = Top
       /\ walk.got = {}
    \/ /\ walk.cursor # Top
       /\ \A m \in walk.got : m = walk.cursor \/ Newer(m, walk.cursor)
       /\ \A m \in began \ walk.got : Newer(walk.cursor, m)

ReaderInv ==
    /\ thread \subseteq Message
    /\ IsFiniteSet(thread)
    /\ walk \in Walk
    /\ began \subseteq thread
    /\ ~twice
    /\ walk.pc = "idle" => walk.got = {} /\ walk.cursor = Top
    /\ walk.pc = "reading" => Halfway
    /\ walk.pc = "done" => began \subseteq walk.got

\* A page of a finite thread: all there is left, or limit messages of it.
LEMMA PageOfThread ==
    ASSUME NEW S, IsFiniteSet(S), NEW limit \in Nat \ {0},
           NEW P, IsPage(P, S, limit)
    PROVE  /\ P \subseteq S
           /\ \A a \in P, b \in S \ P : Newer(a, b)
           /\ IF HasMore(S, limit) THEN P # {} ELSE P = S
<1>1. P \subseteq S /\ \A a \in P, b \in S \ P : Newer(a, b)
  BY DEF IsPage
<1>2. Cardinality(S) \in Nat /\ (P # S => Cardinality(P) < Cardinality(S))
  BY <1>1, FS_CardinalityType, FS_Subset
<1>3. P = {} => Cardinality(P) = 0
  BY FS_EmptySet
<1> QED
  BY <1>1, <1>2, <1>3 DEF IsPage, HasMore

\* The next page of a reader.
LEMMA ReadKeeps ==
    ASSUME NEW limit \in Nat \ {0}, ReaderInv, Read(limit)
    PROVE  ReaderInv'
<1> DEFINE S == Older(walk.cursor)
<1>1. PICK P \in SUBSET S :
          /\ IsPage(P, S, limit)
          /\ walk' = IF HasMore(S, limit)
                     THEN [pc |-> "reading", got |-> walk.got \cup P,
                           cursor |-> Oldest(P)]
                     ELSE [pc |-> "done", got |-> walk.got \cup P,
                           cursor |-> Top]
          /\ twice' = (twice \/ P \cap walk.got # {})
  BY DEF Read
<1>2. /\ walk.pc = "reading" /\ Halfway
      /\ thread' = thread /\ began' = began
  BY DEF Read, ReaderInv
<1>3. /\ S \subseteq thread
      /\ IsFiniteSet(S)
      /\ S \subseteq Moment /\ walk.got \subseteq Moment
      /\ \A m \in S : walk.cursor # Top => Newer(walk.cursor, m)
      /\ \A m \in thread :
             walk.cursor = Top \/ Newer(walk.cursor, m) => m \in S
  <2>1. S \subseteq thread
    BY DEF Older
  <2>2. Message \subseteq Moment
    BY OrderAssumption DEF Message, Moment
  <2>3. walk.got \subseteq Message
    BY DEF ReaderInv, Walk
  <2>4. IsFiniteSet(S)
    BY <2>1, FS_Subset DEF ReaderInv
  <2> QED
    BY <2>1, <2>2, <2>3, <2>4 DEF ReaderInv, Older
<1>4. walk.cursor \in Moment
  <2>1. walk.cursor \in Message \cup {Top}
    BY DEF ReaderInv, Walk
  <2>2. Message \subseteq Moment /\ Top \in Moment
    BY OrderAssumption DEF Message, Top, Moment
  <2> QED
    BY <2>1, <2>2
<1> HIDE DEF S
<1>5. /\ P \subseteq S
      /\ \A a \in P, b \in S \ P : Newer(a, b)
      /\ IF HasMore(S, limit) THEN P # {} ELSE P = S
  BY <1>1, <1>3, PageOfThread
<1>6. P \cap walk.got = {}
  <2> SUFFICES ASSUME NEW m \in P, m \in walk.got PROVE FALSE
    OBVIOUS
  <2>1. m \in S /\ m \in Moment /\ walk.cursor # Top
    BY <1>2, <1>3, <1>5 DEF Halfway
  <2>2. Newer(walk.cursor, m)
    BY <1>3, <2>1
  <2>3. m = walk.cursor \/ Newer(m, walk.cursor)
    BY <1>2, <2>1 DEF Halfway
  <2> QED
    BY <1>4, <2>1, <2>2, <2>3, Order
<1>7. \A m \in began \ walk.got : m \in S
  BY <1>2, <1>3 DEF ReaderInv, Halfway
<1>8. CASE ~HasMore(S, limit)
  <2>1. walk' \in Walk /\ walk'.pc = "done" /\ began \subseteq walk'.got
    BY <1>1, <1>3, <1>5, <1>7, <1>8 DEF ReaderInv, Walk
  <2> QED
    BY <1>1, <1>2, <1>6, <2>1 DEF ReaderInv
<1>9. CASE HasMore(S, limit)
  <2> DEFINE c == Oldest(P)
  <2>1. c \in P /\ \A a \in P : a = c \/ Newer(a, c)
    BY <1>3, <1>5, <1>9, OldestOfPage
  <2>2. walk' = [pc |-> "reading", got |-> walk.got \cup P, cursor |-> c]
    BY <1>1, <1>9
  <2> HIDE DEF c
  <2>3. c \in thread /\ c \in Message /\ c \in Moment /\ c \in S
    BY <1>3, <1>5, <2>1 DEF ReaderInv
  <2>4. walk' \in Walk /\ walk'.pc = "reading"
    BY <1>3, <1>5, <2>2, <2>3 DEF ReaderInv, Walk
  <2>5. ASSUME NEW m \in walk'.got PROVE m = c \/ Newer(m, c)
    <3>1. CASE m \in P
      BY <2>1, <3>1
    <3>2. CASE m \in walk.got
      <4>1. /\ walk.cursor # Top
            /\ m = walk.cursor \/ Newer(m, walk.cursor)
        BY <1>2, <3>2 DEF Halfway
      <4>2. Newer(walk.cursor, c)
        BY <1>3, <2>3, <4>1
      <4> QED
        BY <1>3, <1>4, <2>3, <3>2, <4>1, <4>2, Order
    <3> QED
      BY <2>2, <2>5, <3>1, <3>2
  <2>6. ASSUME NEW m \in began \ walk'.got PROVE Newer(c, m)
    BY <1>5, <1>7, <2>1, <2>2, <2>6
  <2>7. Halfway'
    BY <1>2, <2>2, <2>3, <2>5, <2>6, TopAssumption DEF Halfway, Top
  <2>8. ~twice'
    BY <1>1, <1>6 DEF ReaderInv
  <2> QED
    BY <1>2, <2>4, <2>7, <2>8 DEF ReaderInv
<1> QED
  BY <1>8, <1>9

\* A reader that follows the cursors to the end gets every message that was
\* there when it began, and none twice, for any thread, whatever is sent
\* meanwhile and however many messages have one time.
THEOREM ReaderGetsAll == PagingSpec => []EveryMessageOnce
<1>1. PagingInit => ReaderInv
  BY FS_EmptySet DEF PagingInit, ReaderInv, Walk
<1>2. ReaderInv /\ [PagingNext]_pagingVars => ReaderInv'
  <2> SUFFICES ASSUME ReaderInv, [PagingNext]_pagingVars PROVE ReaderInv'
    OBVIOUS
  <2>1. ASSUME NEW m \in Message, Send(m) PROVE ReaderInv'
    BY <2>1, FS_AddElement DEF Send, ReaderInv, Halfway, Top
  <2>2. CASE Begin
    BY <2>2 DEF Begin, ReaderInv, Walk, Halfway, Top
  <2>3. CASE Close
    BY <2>3 DEF Close, ReaderInv, Walk, Top
  <2>4. ASSUME NEW limit \in Limits, Read(limit) PROVE ReaderInv'
    BY <2>4, LimitsAssumption, ReadKeeps
  <2>5. ASSUME \/ \E limit \in Limits : GetNewest(limit)
               \/ GetNext \/ GetBefore
        PROVE  ReaderInv'
    <3>1. UNCHANGED <<thread, walk, began, twice>>
      BY <2>5 DEF GetNewest, GetNext, GetBefore
    <3> QED
      BY <3>1 DEF ReaderInv, Halfway, Top
  <2>6. CASE UNCHANGED pagingVars
    BY <2>6 DEF pagingVars, ReaderInv, Halfway, Top
  <2> QED
    BY <2>1, <2>2, <2>3, <2>4, <2>5, <2>6 DEF PagingNext
<1>3. ReaderInv => EveryMessageOnce
  BY DEF ReaderInv, EveryMessageOnce
<1> QED
  BY <1>1, <1>2, <1>3, PTL DEF PagingSpec
=============================================================================
