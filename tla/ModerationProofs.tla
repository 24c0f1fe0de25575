-------------------------- MODULE ModerationProofs --------------------------
(***************************************************************************)
(* Proofs about module Moderation, for any users, reports and handlers.    *)
(***************************************************************************)
EXTENDS Moderation, TLAPS

\* What request r carries and has checked; nothing another handler does, and
\* no crash, takes it back.
Checked(r) ==
    /\ r \in Request
    /\ r.op = "ban" => r.caller \in Admins /\ r.target \in Users \ {r.caller}
    /\ r.op = "delete" => r.target \in Users
    /\ r.op = "toggle" =>
           /\ r.caller \in Admins
           /\ r.target \in Users
           /\ r.pc = "loaded" => r.target \in Profiles
    /\ r.op \in Closing =>
           /\ r.caller \in Admins
           /\ r.target \in Reports
           /\ r.pc = "resolved" => report[r.target].status \in Closed

HandlersHaveChecked ==
    \A h \in Handlers : handler[h] # Idle => Checked(handler[h])

Inv ==
    /\ TypeOK
    /\ HandlersHaveChecked
    /\ BansAreRecorded
    /\ LoggedReportsAreClosed

\* A handler that is at some point works on a request it has checked.
LEMMA Working ==
    ASSUME Inv, NEW h \in Handlers, handler[h] # Idle
    PROVE  Checked(handler[h])
  BY DEF Inv, HandlersHaveChecked

\* The requests of the other handlers are not affected by what h does, as
\* long as closed reports stay closed.
LEMMA OthersKept ==
    ASSUME Inv, NEW h \in Handlers, NEW r,
           handler' = [handler EXCEPT ![h] = r],
           r = Idle \/ Checked(r)',
           \A x \in Reports :
               report[x].status \in Closed => report'[x].status \in Closed
    PROVE  HandlersHaveChecked' /\ handler' \in [Handlers -> Request \cup {Idle}]
<1>1. handler \in [Handlers -> Request \cup {Idle}]
  BY DEF Inv, TypeOK
<1>2. ASSUME NEW g \in Handlers, handler'[g] # Idle PROVE Checked(handler[g])'
  <2>1. CASE g = h
    BY <1>1, <1>2, <2>1
  <2>2. CASE g # h
    <3>1. handler'[g] = handler[g] /\ Checked(handler[g])
      BY <1>1, <1>2, <2>2 DEF Inv, HandlersHaveChecked
    <3> QED
      BY <3>1 DEF Checked
  <2> QED
    BY <2>1, <2>2
<1>3. r \in Request \cup {Idle}
  BY DEF Checked
<1> QED
  BY <1>1, <1>2, <1>3 DEF HandlersHaveChecked

\* A request changes its progress and what it has seen, not what it is about.
LEMMA Progresses ==
    ASSUME NEW r \in Request, NEW pc \in Progress, NEW b \in BOOLEAN
    PROVE  /\ [r EXCEPT !.pc = pc] \in Request
           /\ [r EXCEPT !.pc = pc, !.seen = b] \in Request
  BY DEF Request

-----------------------------------------------------------------------------
(* Steps that write nothing but the slot of the handler.                   *)

\* What Inv says of rows that do not change goes on to hold.
LEMMA RowsKept ==
    ASSUME Inv, UNCHANGED <<accounts, report, audit>>,
           HandlersHaveChecked',
           handler' \in [Handlers -> Request \cup {Idle}]
    PROVE  Inv'
  BY DEF Inv, TypeOK, BansAreRecorded, LoggedReportsAreClosed,
     accounts

\* A step that only moves the slot of one handler keeps Inv.
LEMMA SlotOnly ==
    ASSUME Inv, NEW h \in Handlers, NEW r,
           handler' = [handler EXCEPT ![h] = r],
           r = Idle \/ Checked(r),
           UNCHANGED <<accounts, report, audit>>
    PROVE  Inv'
<1>1. Checked(r) => Checked(r)'
  BY DEF Checked
<1> QED
  BY <1>1, OthersKept, RowsKept

\* The steps that read and check keep Inv.
LEMMA Reading ==
    ASSUME Inv, NEW h \in Handlers,
           \/ LoadUser(h) \/ TakeUser(h) \/ LoadProfile(h)
           \/ \E op \in Closing : LoadReport(h, op) \/ LookupAdmin(h, op)
    PROVE  Inv'
<1> DEFINE To(pc, b) == [handler[h] EXCEPT !.pc = pc, !.seen = b]
<1>0. handler[h] # Idle
  BY DEF LoadUser, TakeUser, LoadProfile, LoadReport, LookupAdmin, At
<1>1. Checked(handler[h])
  BY <1>0, Working
<1>2. handler[h] \in Request /\ handler[h].seen \in BOOLEAN
  BY <1>1 DEF Checked, Request
<1>3. ASSUME Answer(h), UNCHANGED <<accounts, report, audit>> PROVE Inv'
  BY <1>3, SlotOnly DEF Answer
<1>4. ASSUME NEW pc \in Progress, NEW b \in BOOLEAN, pc # "resolved",
             handler[h].op = "toggle" => handler[h].target \in Profiles,
             \/ handler' = [handler EXCEPT ![h].pc = pc, ![h].seen = b]
             \/ handler' = [handler EXCEPT ![h].pc = pc],
             UNCHANGED <<accounts, report, audit>>
      PROVE  Inv'
  <2>1. PICK r : /\ handler' = [handler EXCEPT ![h] = r]
                 /\ \/ r = [handler[h] EXCEPT !.pc = pc, !.seen = b]
                    \/ r = [handler[h] EXCEPT !.pc = pc]
    <3>1. handler \in [Handlers -> Request \cup {Idle}]
      BY DEF Inv, TypeOK
    <3> QED
      BY <1>4, <3>1
  <2>2. /\ r \in Request
        /\ r.op = handler[h].op
        /\ r.caller = handler[h].caller
        /\ r.target = handler[h].target
        /\ r.pc = pc
    BY <1>2, <2>1 DEF Request
  <2>3. Checked(r)
    BY <1>1, <1>4, <2>2 DEF Checked
  <2> QED
    BY <1>4, <2>1, <2>3, SlotOnly
<1>5. CASE LoadUser(h)
  BY <1>2, <1>3, <1>4, <1>5 DEF LoadUser, Check, Advance, Progress, At
<1>6. CASE TakeUser(h)
  <2>1. \E b \in BOOLEAN :
            handler' = [handler EXCEPT ![h].pc = "loaded", ![h].seen = b]
    <3>1. (handler[h].target \in enabled) \in BOOLEAN
      OBVIOUS
    <3>2. handler' = [handler EXCEPT ![h].pc = "loaded",
                                     ![h].seen = handler[h].target \in enabled]
      BY <1>6 DEF TakeUser
    <3> QED
      BY <3>1, <3>2, Zenon
  <2>2. /\ handler[h].op # "toggle"
        /\ UNCHANGED <<accounts, report, audit>>
    BY <1>6 DEF TakeUser, At
  <2> QED
    BY <1>4, <2>1, <2>2 DEF Progress
<1>7. CASE LoadProfile(h)
  <2>1. CASE handler[h].target \in Profiles
    <3>1. \E b \in BOOLEAN :
              handler' = [handler EXCEPT ![h].pc = "loaded", ![h].seen = b]
      <4>1. (handler[h].target \in enabled) \in BOOLEAN
        OBVIOUS
      <4>2. handler' = [handler EXCEPT
                ![h].pc = "loaded", ![h].seen = handler[h].target \in enabled]
        BY <1>7, <2>1 DEF LoadProfile
      <4> QED
        BY <4>1, <4>2, Zenon
    <3>2. UNCHANGED <<accounts, report, audit>>
      BY <1>7 DEF LoadProfile
    <3> QED
      BY <1>4, <2>1, <3>1, <3>2 DEF Progress
  <2>2. CASE handler[h].target \notin Profiles
    BY <1>3, <1>7, <2>2 DEF LoadProfile
  <2> QED
    BY <2>1, <2>2
<1>8. ASSUME NEW op \in Closing, LoadReport(h, op) PROVE Inv'
  BY <1>3, <1>4, <1>8 DEF LoadReport, Progress, At, Closing
<1>9. ASSUME NEW op \in Closing, LookupAdmin(h, op) PROVE Inv'
  BY <1>2, <1>3, <1>4, <1>9 DEF LookupAdmin, Check, Advance, Progress, At,
     Closing
<1> QED
  BY <1>5, <1>6, <1>7, <1>8, <1>9

-----------------------------------------------------------------------------
(* Steps that commit.                                                      *)

\* A log entry is added behind all others.
LEMMA LogGrows ==
    ASSUME TypeOK, NEW e \in Entry, audit' = Append(audit, e)
    PROVE  /\ audit' \in Seq(Entry)
           /\ Len(audit) \in Nat
           /\ Len(audit') = Len(audit) + 1
           /\ audit'[Len(audit')] = e
           /\ \A i \in 1 .. Len(audit) : audit'[i] = audit[i]
  BY DEF TypeOK

\* A ban and its log entry, committed together, keep Inv.
LEMMA Banning ==
    ASSUME Inv, NEW h \in Handlers, CommitBan(h)
    PROVE  Inv'
<1> DEFINE u == handler[h].target
           e == [action |-> "BAN_USER", admin |-> handler[h].caller,
                 target |-> u, created_at |-> handler[h].began]
<1>1. /\ Checked(handler[h])
      /\ handler[h].op = "ban"
  BY Working DEF CommitBan, At
<1>2. u \in Users /\ u # handler[h].caller /\ e \in Entry
  BY <1>1 DEF Checked, Request, Entry, AuditAction
<1>3. audit' = Append(audit, e)
  BY DEF CommitBan, Log, LogAt
<1>4. /\ audit' \in Seq(Entry)
      /\ Len(audit) \in Nat
      /\ Len(audit') = Len(audit) + 1
      /\ audit'[Len(audit')] = e
      /\ \A i \in 1 .. Len(audit) : audit'[i] = audit[i]
  BY <1>2, <1>3, LogGrows DEF Inv
<1>5. /\ banned' = banned \cup {u}
      /\ deleted' = deleted \cup {u}
      /\ enabled' = enabled \/ enabled' = enabled \ {u}
      /\ report' = report
  BY DEF CommitBan, Disable
<1>6. HandlersHaveChecked' /\ handler' \in [Handlers -> Request \cup {Idle}]
  BY <1>5, OthersKept DEF CommitBan, Answer
<1>7. TypeOK'
  BY <1>2, <1>4, <1>5, <1>6 DEF Inv, TypeOK
<1>8. BansAreRecorded'
  BY <1>2, <1>4, <1>5 DEF Inv, BansAreRecorded
<1>9. LoggedReportsAreClosed'
  BY <1>2, <1>4, <1>5, ReportsAssumption DEF Inv, LoggedReportsAreClosed
<1> QED
  BY <1>6, <1>7, <1>8, <1>9 DEF Inv

\* Deleting an account keeps Inv.
LEMMA Deleting ==
    ASSUME Inv, NEW h \in Handlers, CommitDelete(h)
    PROVE  Inv'
<1> DEFINE u == handler[h].target
<1>1. Checked(handler[h]) /\ handler[h].op = "delete"
  BY Working DEF CommitDelete, At
<1>2. /\ u \in Users
      /\ deleted' = deleted \cup {u}
      /\ enabled' = enabled \/ enabled' = enabled \ {u}
      /\ UNCHANGED <<banned, report, audit>>
  BY <1>1 DEF CommitDelete, Disable, Checked
<1>3. HandlersHaveChecked' /\ handler' \in [Handlers -> Request \cup {Idle}]
  BY <1>2, OthersKept DEF CommitDelete, Answer
<1>4. TypeOK' /\ BansAreRecorded' /\ LoggedReportsAreClosed'
  BY <1>2, <1>3 DEF Inv, TypeOK, BansAreRecorded, LoggedReportsAreClosed
<1> QED
  BY <1>3, <1>4 DEF Inv

\* A toggle and its log entry, committed together, keep Inv.
LEMMA Toggling ==
    ASSUME Inv, NEW h \in Handlers, CommitToggle(h)
    PROVE  Inv'
<1> DEFINE u == handler[h].target
           e == [action |-> ToggleAction(h), admin |-> handler[h].caller,
                 target |-> u, created_at |-> handler[h].began]
<1>1. /\ Checked(handler[h])
      /\ handler[h].op = "toggle"
      /\ handler[h].pc = "loaded"
  BY Working DEF CommitToggle, At
<1>2. u \in Profiles /\ u \in Users /\ e \in Entry
  BY <1>1 DEF Checked, Request, Entry, AuditAction, ToggleAction
<1>3. audit' = Append(audit, e)
  BY DEF CommitToggle, Log, LogAt
<1>4. /\ audit' \in Seq(Entry)
      /\ Len(audit) \in Nat
      /\ Len(audit') = Len(audit) + 1
      /\ audit'[Len(audit')] = e
      /\ \A i \in 1 .. Len(audit) : audit'[i] = audit[i]
  BY <1>2, <1>3, LogGrows DEF Inv
<1>5. /\ UNCHANGED <<banned, deleted, report>>
      /\ enabled' \subseteq enabled \cup {u}
      /\ enabled \ {u} \subseteq enabled'
      /\ u \in enabled' <=> ToggleAction(h) = "ENABLE_MENTOR"
  BY DEF CommitToggle, ToggleAction
<1>6. HandlersHaveChecked' /\ handler' \in [Handlers -> Request \cup {Idle}]
  BY <1>5, OthersKept DEF CommitToggle, Answer
<1>7. TypeOK'
  BY <1>2, <1>4, <1>5, <1>6 DEF Inv, TypeOK
<1>8. BansAreRecorded'
  <2>1. e.action # "BAN_USER"
    BY DEF ToggleAction
  <2> QED
    BY <1>4, <1>5, <2>1 DEF Inv, BansAreRecorded
<1>9. LoggedReportsAreClosed'
  BY <1>2, <1>4, <1>5, ReportsAssumption DEF Inv, LoggedReportsAreClosed
<1> QED
  BY <1>6, <1>7, <1>8, <1>9 DEF Inv

\* Resolving a report keeps Inv.
LEMMA Resolving ==
    ASSUME Inv, NEW h \in Handlers, NEW op \in Closing, CommitResolve(h, op)
    PROVE  Inv'
<1> DEFINE x == handler[h].target
<1>1. /\ Checked(handler[h])
      /\ handler[h].op = op
      /\ handler[h] \in Request
  BY Working DEF CommitResolve, At, Checked
<1>2. x \in Reports /\ handler[h].caller \in Admins
  BY <1>1 DEF Checked
<1>3. /\ report' \in [Reports -> Report]
      /\ report'[x].status \in Closed
      /\ \A y \in Reports \ {x} : report'[y] = report[y]
  BY <1>2 DEF CommitResolve, Inv, TypeOK, Report, ReportStatus, Closed
<1>4. PICK r : /\ handler' = [handler EXCEPT ![h] = r]
               /\ r \in Request
               /\ r.op = op
               /\ r.caller = handler[h].caller
               /\ r.target = x
  <2>1. /\ handler'[h] \in Request
        /\ handler'[h].op = op
        /\ handler'[h].caller = handler[h].caller
        /\ handler'[h].target = x
    <3>1. /\ handler \in [Handlers -> Request \cup {Idle}]
          /\ Len(audit) \in Nat
      BY DEF Inv, TypeOK
    <3>2. handler' = [handler EXCEPT ![h].pc = "resolved",
                                     ![h].began = Len(audit)]
      BY DEF CommitResolve
    <3> QED
      BY <1>1, <3>1, <3>2 DEF Request, Progress
  <2>2. handler' = [handler EXCEPT ![h] = handler'[h]]
    BY <1>1 DEF CommitResolve, Inv, TypeOK
  <2> QED
    BY <2>1, <2>2
<1>5. Checked(r)'
  BY <1>2, <1>3, <1>4 DEF Checked, Closing
<1>6. HandlersHaveChecked' /\ handler' \in [Handlers -> Request \cup {Idle}]
  BY <1>3, <1>4, <1>5, OthersKept
<1>7. UNCHANGED <<deleted, banned, enabled, audit>>
  BY DEF CommitResolve, accounts
<1>8. LoggedReportsAreClosed'
  BY <1>2, <1>3, <1>7 DEF Inv, LoggedReportsAreClosed
<1> QED
  BY <1>3, <1>6, <1>7, <1>8 DEF Inv, TypeOK, BansAreRecorded

\* Logging a resolution keeps Inv.
LEMMA Logging ==
    ASSUME Inv, NEW h \in Handlers, NEW op \in Closing, LogResolve(h, op)
    PROVE  Inv'
<1> DEFINE x == handler[h].target
<1>1. /\ Checked(handler[h])
      /\ handler[h].op = op
      /\ handler[h].pc = "resolved"
  BY Working DEF LogResolve, At
<1>2. PICK time \in handler[h].began .. Len(audit) :
          audit' = Append(audit, [action |-> CloseAction(op),
                                  admin |-> handler[h].caller, target |-> x,
                                  created_at |-> time])
  BY DEF LogResolve, LogAt
<1> DEFINE e == [action |-> CloseAction(op), admin |-> handler[h].caller,
                 target |-> x, created_at |-> time]
<1>3. x \in Reports /\ x \notin Users /\ e \in Entry
  <2>1. time \in Nat
    BY <1>1 DEF Checked, Request, Inv, TypeOK
  <2> QED
    BY <1>1, <2>1, ReportsAssumption DEF Checked, Entry, AuditAction,
       CloseAction
<1>4. /\ audit' \in Seq(Entry)
      /\ Len(audit) \in Nat
      /\ Len(audit') = Len(audit) + 1
      /\ audit'[Len(audit')] = e
      /\ \A i \in 1 .. Len(audit) : audit'[i] = audit[i]
  BY <1>2, <1>3, LogGrows DEF Inv
<1>5. UNCHANGED <<deleted, banned, enabled, report>>
  BY DEF LogResolve, accounts
<1>6. HandlersHaveChecked' /\ handler' \in [Handlers -> Request \cup {Idle}]
  BY <1>5, OthersKept DEF LogResolve, Answer
<1>7. TypeOK'
  BY <1>4, <1>5, <1>6 DEF Inv, TypeOK
<1>8. BansAreRecorded'
  BY <1>4, <1>5 DEF Inv, BansAreRecorded, CloseAction
<1>9. LoggedReportsAreClosed'
  BY <1>1, <1>3, <1>4, <1>5 DEF Inv, LoggedReportsAreClosed, Checked
<1> QED
  BY <1>6, <1>7, <1>8, <1>9 DEF Inv

-----------------------------------------------------------------------------
\* Inv holds in every interleaving and after every crash.
THEOREM Invariance == Spec => []Inv
<1>1. Init => Inv
  BY DEF Init, Inv, TypeOK, HandlersHaveChecked, BansAreRecorded,
     LoggedReportsAreClosed, Report
<1>2. Inv /\ [Next]_vars => Inv'
  <2> SUFFICES ASSUME Inv, [Next]_vars PROVE Inv'
    OBVIOUS
  <2>1. ASSUME NEW h \in Handlers, NEW op \in Operations, NEW u \in Users,
               NEW x \in Users \cup Reports, Authenticate(h, op, u, x)
        PROVE  Inv'
    <3> DEFINE r == [op |-> op, caller |-> u, target |-> x,
                     pc |-> "authenticated", seen |-> FALSE,
                     began |-> IF op \in {"ban", "toggle"} THEN Len(audit)
                               ELSE 0]
    <3>1. Checked(r)
      BY <2>1 DEF Authenticate, Checked, Request, Progress, Targets, Closing,
         Operations
    <3> QED
      BY <2>1, <3>1, SlotOnly DEF Authenticate
  <2>2. ASSUME NEW h \in Handlers, Handle(h) PROVE Inv'
    BY <2>2, Reading, Banning, Deleting, Toggling, Resolving, Logging DEF Handle
  <2>3. ASSUME NEW r \in Reports, CreateReport(r) PROVE Inv'
    <3>1. /\ report' \in [Reports -> Report]
          /\ \A y \in Reports : report[y].status \in Closed
                                => report'[y] = report[y]
      BY <2>3 DEF CreateReport, Inv, TypeOK, Report, ReportStatus, Closed
    <3>2. HandlersHaveChecked'
      BY <2>3, <3>1 DEF CreateReport, Inv, HandlersHaveChecked, Checked
    <3>3. LoggedReportsAreClosed'
      BY <2>3, <3>1 DEF CreateReport, Inv, LoggedReportsAreClosed
    <3> QED
      BY <2>3, <3>1, <3>2, <3>3 DEF CreateReport, accounts, Inv, TypeOK,
         BansAreRecorded
  <2>4. CASE Crash
    BY <2>4, RowsKept DEF Crash, HandlersHaveChecked
  <2>5. CASE UNCHANGED vars
    BY <2>5, RowsKept DEF vars, accounts, Inv, TypeOK, HandlersHaveChecked,
       Checked
  <2> QED
    BY <2>1, <2>2, <2>3, <2>4, <2>5 DEF Next
<1> QED
  BY <1>1, <1>2, PTL DEF Spec

\* Accounts, reports, log and requests in flight keep their shape.
THEOREM TypeCorrect == Spec => []TypeOK
<1>1. Inv => TypeOK
  BY DEF Inv
<1> QED
  BY <1>1, Invariance, PTL

\* The three writes of a ban are kept or lost together.
THEOREM BansRecorded == Spec => []BansAreRecorded
<1>1. Inv => BansAreRecorded
  BY DEF Inv
<1> QED
  BY <1>1, Invariance, PTL

\* Nothing is logged about a report that is still open.
THEOREM LoggedClosed == Spec => []LoggedReportsAreClosed
<1>1. Inv => LoggedReportsAreClosed
  BY DEF Inv
<1> QED
  BY <1>1, Invariance, PTL

-----------------------------------------------------------------------------
(* The log and the profiles.                                               *)

\* A toggle that began after the last switch of the profile was committed
\* works with its position.
TogglesInTime(r) ==
    /\ r.op = "toggle" /\ r.pc = "loaded" /\ r.target \notin deleted
    /\ \A k \in Records(r.target) : k <= r.began
    => r.seen = (r.target \in enabled)

\* A ban that found the profile disabled, and leaves it enabled, was overtaken
\* by an admin who enabled it.
BansInTime(r) ==
    /\ r.op = "ban" /\ r.pc = "loaded" /\ ~r.seen /\ r.target \in enabled
    => EnabledSince(r.began, r.target)

InTime(r) ==
    /\ r.began \in Nat /\ r.began <= Len(audit)
    /\ TogglesInTime(r)
    /\ BansInTime(r)

\* A transaction begins before it is committed.
Stamped ==
    \A i \in 1 .. Len(audit) :
        audit[i].created_at \in Nat /\ audit[i].created_at < i

\* The record committed last names the position of the profile.
LastNames(u) ==
    \E i \in Records(u) :
        /\ \A j \in Records(u) : j <= i
        /\ u \in enabled <=> Says(i)

\* A toggle that only began after the one before it reverses that one.
Alternates(u) ==
    \A i, j \in Records(u) :
        After(j, i) /\ (\A k \in Records(u) : k <= i \/ j <= k)
        => (Says(j) <=> ~Says(i))

AllInTime == \A h \in Handlers : handler[h] # Idle => InTime(handler[h])

LogInv ==
    /\ Stamped
    /\ BannedStayDisabled
    /\ \A u \in Profiles \ deleted : LastNames(u) /\ Alternates(u)
    /\ AllInTime

\* The log grows, and not by a toggle of u.
Extended(u) ==
    /\ Len(audit) <= Len(audit')
    /\ \A i \in 1 .. Len(audit) : audit'[i] = audit[i]
    /\ \A i \in 1 .. Len(audit') : i > Len(audit) => ~Toggles(audit'[i], u)

\* What is recorded of the profile of u stays when other entries are added.
LEMMA RecordsStay ==
    ASSUME Inv, Inv', NEW u, Extended(u)
    PROVE  /\ Records(u)' = Records(u)
           /\ \A i \in Records(u) : Says(i)' <=> Says(i)
           /\ \A i \in Records(u) : \A k : After(i, k)' <=> After(i, k)
<1>1. Len(audit) \in Nat /\ Len(audit') \in Nat
  BY DEF Inv, TypeOK
<1>2. Records(u)' = Records(u)
  BY <1>1 DEF Extended, Records, Toggles
<1>3. ASSUME NEW i \in Records(u), i # 0 PROVE audit'[i] = audit[i]
  BY <1>3 DEF Extended, Records
<1>4. \A i \in Records(u) : Says(i)' <=> Says(i)
  BY <1>3 DEF Says
<1>5. \A i \in Records(u) : \A k : After(i, k)' <=> After(i, k)
  BY <1>3 DEF After
<1> QED
  BY <1>2, <1>4, <1>5

LEMMA RecordsKeep ==
    ASSUME Inv, Inv', NEW u, Extended(u),
           u \in enabled' <=> u \in enabled,
           LastNames(u) /\ Alternates(u)
    PROVE  (LastNames(u) /\ Alternates(u))'
<1>1. /\ Records(u)' = Records(u)
      /\ \A i \in Records(u) : Says(i)' <=> Says(i)
      /\ \A i \in Records(u) : \A k : After(i, k)' <=> After(i, k)
  BY RecordsStay
<1>2. LastNames(u)'
  BY <1>1 DEF LastNames
<1>3. Alternates(u)'
  <2> SUFFICES ASSUME NEW i \in Records(u), NEW j \in Records(u),
                      After(j, i), \A k \in Records(u) : k <= i \/ j <= k
               PROVE  Says(j)' <=> ~Says(i)'
    BY <1>1 DEF Alternates
  <2>1. Says(j) <=> ~Says(i)
    BY DEF Alternates
  <2> QED
    BY <1>1, <2>1
<1> QED
  BY <1>2, <1>3

\* An entry that says a profile is enabled is kept.
LEMMA EnabledStays ==
    ASSUME Inv, Inv', NEW time, NEW u, NEW v, Extended(v),
           EnabledSince(time, u)
    PROVE  \E j \in 1 .. Len(audit') :
               /\ j > time
               /\ audit'[j].action = "ENABLE_MENTOR"
               /\ audit'[j].target = u
  BY DEF Inv, TypeOK, Extended, EnabledSince

\* No profile is switched: users are deleted, their profiles disabled, and
\* entries about something else are logged.
NothingSwitched ==
    /\ deleted \subseteq deleted'
    /\ enabled' \subseteq enabled
    /\ \A u \in Profiles \ deleted' : u \in enabled => u \in enabled'
    /\ \A u : Extended(u)

\* Then a request in flight stays in time,
LEMMA StaysInTime ==
    ASSUME Inv, Inv', NothingSwitched, NEW h \in Handlers,
           handler'[h] = handler[h], handler[h] # Idle, InTime(handler[h])
    PROVE  InTime(handler[h])'
<1> DEFINE u == handler[h].target
<1>1. Extended(u) /\ Len(audit) \in Nat /\ Len(audit') \in Nat
  BY DEF NothingSwitched, Inv, TypeOK
<1>2. TogglesInTime(handler[h])'
  <2>1. Records(u)' = Records(u)
    BY <1>1, RecordsStay
  <2>2. u \notin deleted' => u \notin deleted /\ (u \in enabled' <=> u \in enabled)
    BY DEF NothingSwitched, Inv, TypeOK
  <2> QED
    BY <2>1, <2>2 DEF TogglesInTime, InTime
<1>3. BansInTime(handler[h])'
  <2>1. EnabledSince(handler[h].began, u)
        => \E j \in 1 .. Len(audit') :
               /\ j > handler[h].began
               /\ audit'[j].action = "ENABLE_MENTOR"
               /\ audit'[j].target = u
    BY <1>1, EnabledStays
  <2> QED
    BY <2>1 DEF BansInTime, InTime, NothingSwitched, EnabledSince
<1>4. handler[h].began <= Len(audit')
  BY <1>1 DEF Extended, InTime
<1> QED
  BY <1>2, <1>3, <1>4 DEF InTime

\* and the log goes on to explain the profiles, if the handler that made the
\* step is in time and what it logged is stamped.
LEMMA LogKept ==
    ASSUME Inv, Inv', LogInv, NothingSwitched, Stamped', BannedStayDisabled',
           \A h \in Handlers :
               \/ handler'[h] = handler[h]
               \/ handler'[h] = Idle
               \/ InTime(handler[h])'
    PROVE  LogInv'
<1>1. ASSUME NEW u \in Profiles \ deleted'
      PROVE  (LastNames(u) /\ Alternates(u))'
  BY RecordsKeep DEF LogInv, NothingSwitched
<1>2. AllInTime'
  BY StaysInTime DEF LogInv, AllInTime
<1> QED
  BY <1>1, <1>2 DEF LogInv

\* The steps that read and check leave the log as it is.
LEMMA ReadingLog ==
    ASSUME Inv, Inv', LogInv, UNCHANGED <<deleted, enabled, audit>>,
           \A h \in Handlers :
               \/ handler'[h] = handler[h]
               \/ handler'[h] = Idle
               \/ InTime(handler[h])'
    PROVE  LogInv'
<1>1. NothingSwitched
  BY DEF NothingSwitched, Extended, Inv, TypeOK
<1>2. Stamped' /\ BannedStayDisabled'
  BY DEF LogInv, Stamped, BannedStayDisabled, EnabledSince
<1> QED
  BY <1>1, <1>2, LogKept

\* A request is in time when it has read nothing of a profile,
LEMMA StartsInTime ==
    ASSUME NEW h, handler'[h].began \in Nat, handler'[h].began <= Len(audit'),
           \/ handler'[h].pc # "loaded"
           \/ handler'[h].op \notin {"ban", "toggle"}
    PROVE  InTime(handler[h])'
  BY DEF InTime, TogglesInTime, BansInTime

\* and when it has just read it.
LEMMA ReadsInTime ==
    ASSUME NEW h, handler'[h].began \in Nat, handler'[h].began <= Len(audit'),
           handler'[h].seen = (handler'[h].target \in enabled')
    PROVE  InTime(handler[h])'
  BY DEF InTime, TogglesInTime, BansInTime

LEMMA HandlersInTime ==
    ASSUME Inv, LogInv, UNCHANGED <<deleted, enabled, audit>>,
           NEW h \in Handlers,
           \/ LoadUser(h) \/ TakeUser(h) \/ LoadProfile(h)
           \/ \E op \in Closing : \/ LoadReport(h, op) \/ LookupAdmin(h, op)
                                  \/ CommitResolve(h, op)
    PROVE  handler'[h] = Idle \/ InTime(handler[h])'
<1>0. /\ handler \in [Handlers -> Request \cup {Idle}]
      /\ handler[h] # Idle
      /\ Len(audit) \in Nat
  <2>1. handler[h] # Idle
    BY DEF LoadUser, TakeUser, LoadProfile, LoadReport, LookupAdmin,
       CommitResolve, At
  <2> QED
    BY <2>1 DEF Inv, TypeOK
<1>1. /\ handler[h] \in Request
      /\ handler[h].began \in Nat
      /\ handler[h].began <= Len(audit)
  BY <1>0 DEF LogInv, AllInTime, InTime
<1>2. ASSUME NEW pc, Advance(h, pc)
      PROVE  /\ handler'[h].began = handler[h].began
             /\ handler'[h].op = handler[h].op
             /\ handler'[h].pc = pc
  BY <1>0, <1>1, <1>2 DEF Advance, Request
<1>3. CASE Answer(h)
  BY <1>0, <1>3 DEF Answer
<1>4. CASE LoadUser(h)
  BY <1>1, <1>2, <1>3, <1>4, StartsInTime DEF LoadUser, Check
<1>5. CASE TakeUser(h)
  <2>1. /\ handler'[h].began = handler[h].began
        /\ handler'[h].seen = (handler'[h].target \in enabled')
    BY <1>0, <1>1, <1>5 DEF TakeUser, Request
  <2> QED
    BY <1>1, <2>1, ReadsInTime
<1>6. CASE LoadProfile(h) /\ ~Answer(h)
  <2>1. /\ handler'[h].began = handler[h].began
        /\ handler'[h].seen = (handler'[h].target \in enabled')
    BY <1>0, <1>1, <1>6 DEF LoadProfile, Request
  <2> QED
    BY <1>1, <2>1, ReadsInTime
<1>7. ASSUME NEW op \in Closing, LoadReport(h, op), ~Answer(h)
      PROVE  InTime(handler[h])'
  <2>1. /\ handler'[h].began = handler[h].began
        /\ handler'[h].pc = "report_read"
    BY <1>0, <1>1, <1>7 DEF LoadReport, Request
  <2> QED
    BY <1>1, <2>1, StartsInTime
<1>8. ASSUME NEW op \in Closing, LookupAdmin(h, op), ~Answer(h)
      PROVE  InTime(handler[h])'
  <2>1. Advance(h, "loaded") /\ handler[h].op = op
    BY <1>8 DEF LookupAdmin, Check, At
  <2>2. /\ handler'[h].began = handler[h].began
        /\ handler'[h].op \notin {"ban", "toggle"}
    BY <1>2, <2>1 DEF Closing
  <2> QED
    BY <1>1, <2>2, StartsInTime
<1>9. ASSUME NEW op \in Closing, CommitResolve(h, op)
      PROVE  InTime(handler[h])'
  <2>1. /\ handler'[h].began = Len(audit)
        /\ handler'[h].pc = "resolved"
    BY <1>0, <1>1, <1>9 DEF CommitResolve, Request
  <2> QED
    BY <1>0, <2>1, StartsInTime
<1> QED
  BY <1>3, <1>4, <1>5, <1>6, <1>7, <1>8, <1>9

\* A ban and a deletion switch no profile, and a ban that leaves one enabled
\* was overtaken by the admin who enabled it.
LEMMA BanningLog ==
    ASSUME Inv, Inv', LogInv, NEW h \in Handlers,
           CommitBan(h) \/ CommitDelete(h)
    PROVE  LogInv'
<1> DEFINE u == handler[h].target
           n == Len(audit) + 1
<1>0. /\ handler \in [Handlers -> Request \cup {Idle}]
      /\ audit \in Seq(Entry)
      /\ Len(audit) \in Nat
      /\ handler[h] \in Request
      /\ InTime(handler[h])
  <2>1. handler[h] # Idle
    BY DEF CommitBan, CommitDelete, At
  <2> QED
    BY <2>1 DEF Inv, TypeOK, LogInv, AllInTime
<1>1. \A g \in Handlers : handler'[g] = handler[g] \/ handler'[g] = Idle
  BY <1>0 DEF CommitBan, CommitDelete, Answer
<1>2. /\ deleted' = deleted \cup {u}
      /\ enabled' = IF handler[h].seen THEN enabled \ {u} ELSE enabled
  BY DEF CommitBan, CommitDelete, Disable
<1>3. CASE CommitDelete(h)
  <2>1. audit' = audit
    BY <1>3 DEF CommitDelete
  <2>2. NothingSwitched
    BY <1>0, <1>2, <2>1 DEF NothingSwitched, Extended
  <2>3. Stamped' /\ BannedStayDisabled'
    BY <1>2, <2>1 DEF LogInv, Stamped, BannedStayDisabled, EnabledSince
  <2> QED
    BY <1>1, <2>2, <2>3, LogKept
<1>4. CASE CommitBan(h)
  <2>1. /\ Len(audit') = n
        /\ \A i \in 1 .. Len(audit) : audit'[i] = audit[i]
        /\ audit'[n].action = "BAN_USER"
        /\ audit'[n].target = u
        /\ audit'[n].created_at = handler[h].began
    BY <1>0, <1>4 DEF CommitBan, Log, LogAt
  <2>2. NothingSwitched
    BY <1>0, <1>2, <2>1 DEF NothingSwitched, Extended, Toggles
  <2>3. Stamped'
    BY <1>0, <2>1 DEF LogInv, Stamped, InTime
  <2>4. ASSUME NEW i \in 1 .. n, audit'[i].action = "BAN_USER",
               audit'[i].target \in enabled'
        PROVE  \E j \in 1 .. Len(audit') :
                   /\ j > audit'[i].created_at
                   /\ audit'[j].action = "ENABLE_MENTOR"
                   /\ audit'[j].target = audit'[i].target
    <3>1. ASSUME NEW t, NEW v, EnabledSince(t, v)
          PROVE  \E j \in 1 .. Len(audit') :
                     /\ j > t
                     /\ audit'[j].action = "ENABLE_MENTOR"
                     /\ audit'[j].target = v
      BY <2>2, <3>1, EnabledStays DEF NothingSwitched
    <3>2. CASE i = n
      <4>1. ~handler[h].seen /\ u \in enabled
        BY <1>2, <2>1, <2>4, <3>2
      <4>2. EnabledSince(handler[h].began, u)
        BY <1>0, <1>4, <4>1 DEF CommitBan, At, InTime, BansInTime
      <4> QED
        BY <2>1, <3>1, <3>2, <4>2
    <3>3. CASE i # n
      <4>1. i \in 1 .. Len(audit) /\ audit'[i] = audit[i]
        BY <1>0, <2>1, <3>3
      <4>2. EnabledSince(audit[i].created_at, audit[i].target)
        BY <1>2, <2>4, <4>1 DEF LogInv, BannedStayDisabled
      <4> QED
        BY <3>1, <4>1, <4>2
    <3> QED
      BY <3>2, <3>3
  <2>5. BannedStayDisabled'
    BY <2>1, <2>4 DEF BannedStayDisabled, EnabledSince
  <2> QED
    BY <1>1, <2>2, <2>3, <2>5, LogKept
<1> QED
  BY <1>3, <1>4

\* The resolution of a report is about no profile.
LEMMA LoggingLog ==
    ASSUME Inv, Inv', LogInv, NEW h \in Handlers, NEW op \in Closing,
           LogResolve(h, op)
    PROVE  LogInv'
<1> DEFINE n == Len(audit) + 1
<1>0. /\ handler \in [Handlers -> Request \cup {Idle}]
      /\ audit \in Seq(Entry)
      /\ Len(audit) \in Nat
      /\ handler[h] \in Request
      /\ InTime(handler[h])
  <2>1. handler[h] # Idle
    BY DEF LogResolve, At
  <2> QED
    BY <2>1 DEF Inv, TypeOK, LogInv, AllInTime
<1>1. \A g \in Handlers : handler'[g] = handler[g] \/ handler'[g] = Idle
  BY <1>0 DEF LogResolve, Answer
<1>2. UNCHANGED <<deleted, enabled>>
  BY DEF LogResolve, accounts
<1>3. /\ Len(audit') = n
      /\ \A i \in 1 .. Len(audit) : audit'[i] = audit[i]
      /\ audit'[n].action \in {"RESOLVE_REPORT", "DISMISS_REPORT"}
      /\ audit'[n].created_at \in handler[h].began .. Len(audit)
  BY <1>0 DEF LogResolve, LogAt, CloseAction
<1>4. NothingSwitched
  BY <1>0, <1>2, <1>3 DEF NothingSwitched, Extended, Toggles
<1>5. Stamped'
  BY <1>0, <1>3 DEF LogInv, Stamped, InTime
<1>6. ASSUME NEW i \in 1 .. n, audit'[i].action = "BAN_USER",
             audit'[i].target \in enabled'
      PROVE  \E j \in 1 .. Len(audit') :
                 /\ j > audit'[i].created_at
                 /\ audit'[j].action = "ENABLE_MENTOR"
                 /\ audit'[j].target = audit'[i].target
  <2>1. i \in 1 .. Len(audit) /\ audit'[i] = audit[i]
    BY <1>0, <1>3, <1>6
  <2>2. EnabledSince(audit[i].created_at, audit[i].target)
    BY <1>2, <1>6, <2>1 DEF LogInv, BannedStayDisabled
  <2> QED
    BY <1>4, <2>1, <2>2, EnabledStays DEF NothingSwitched
<1>7. BannedStayDisabled'
  BY <1>3, <1>6 DEF BannedStayDisabled, EnabledSince
<1> QED
  BY <1>1, <1>4, <1>5, <1>7, LogKept

\* A toggle reverses the record that was the last when it began, or was
\* overtaken.
LEMMA TogglingLog ==
    ASSUME Inv, Inv', LogInv, NEW h \in Handlers, CommitToggle(h)
    PROVE  LogInv'
<1>a. PICK u, n : u = handler[h].target /\ n = Len(audit) + 1
  OBVIOUS
<1>0. /\ u = handler[h].target /\ n = Len(audit) + 1
      /\ handler \in [Handlers -> Request \cup {Idle}]
      /\ audit \in Seq(Entry)
      /\ Len(audit) \in Nat
      /\ handler[h] \in Request
      /\ handler[h].op = "toggle"
      /\ handler[h].pc = "loaded"
      /\ InTime(handler[h])
      /\ u \in Profiles
  <2>1. handler[h] # Idle
    BY DEF CommitToggle, At
  <2>2. handler[h].op = "toggle" /\ handler[h].pc = "loaded"
    BY DEF CommitToggle, At
  <2> QED
    BY <1>a, <2>1, <2>2, Working DEF Inv, TypeOK, LogInv, AllInTime, Checked
<1>1. /\ deleted' = deleted
      /\ enabled' = IF handler[h].seen THEN enabled \ {u}
                    ELSE enabled \cup {u}
  BY <1>0 DEF CommitToggle
<1>2. /\ Len(audit') = n
      /\ \A i \in 1 .. Len(audit) : audit'[i] = audit[i]
      /\ audit'[n].action = ToggleAction(h)
      /\ audit'[n].target = u
      /\ audit'[n].created_at = handler[h].began
  BY <1>0 DEF CommitToggle, Log, LogAt
<1>3. /\ handler[h].began \in Nat
      /\ handler[h].began < n
      /\ ToggleAction(h) = "ENABLE_MENTOR" <=> ~handler[h].seen
      /\ Toggles(audit'[n], u)
  BY <1>0, <1>2 DEF InTime, ToggleAction, Toggles
<1>4. \A v : v # u => Extended(v)
  BY <1>0, <1>2 DEF Extended, Toggles
<1>5. /\ Records(u)' = Records(u) \cup {n}
      /\ Records(u) \subseteq 0 .. Len(audit)
      /\ Says(n)' <=> ~handler[h].seen
      /\ \A i \in Records(u) :
             /\ Says(i)' <=> Says(i)
             /\ \A k : After(i, k)' <=> After(i, k)
      /\ \A k : After(n, k)' <=> handler[h].began >= k
  <2>1. Records(u)' = Records(u) \cup {n}
    BY <1>0, <1>2, <1>3 DEF Records, Toggles
  <2>2. Records(u) \subseteq 0 .. Len(audit)
    BY <1>0 DEF Records
  <2>3. \A i \in Records(u) : i # 0 => audit'[i] = audit[i]
    BY <1>0, <1>2, <2>2
  <2>4. Says(n)' <=> ~handler[h].seen
    BY <1>0, <1>2, <1>3 DEF Says
  <2>5. \A k : After(n, k)' <=> handler[h].began >= k
    BY <1>0, <1>2 DEF After
  <2>6. \A i \in Records(u) : Says(i)' <=> Says(i)
    BY <2>3 DEF Says
  <2>7. \A i \in Records(u) : \A k : After(i, k)' <=> After(i, k)
    BY <2>3 DEF After
  <2> QED
    BY <2>1, <2>2, <2>4, <2>5, <2>6, <2>7
<1>6. Stamped'
  BY <1>0, <1>2, <1>3 DEF LogInv, Stamped
<1>7. LastNames(u)'
  BY <1>0, <1>1, <1>5 DEF LastNames
<1>8. ASSUME u \notin deleted PROVE Alternates(u)'
  <2> SUFFICES ASSUME NEW i \in Records(u)', NEW j \in Records(u)',
                      After(j, i)',
                      \A k \in Records(u)' : k <= i \/ j <= k
               PROVE  Says(j)' <=> ~Says(i)'
    BY DEF Alternates
  <2>1. CASE j = n
    <3>1. i <= handler[h].began /\ i \in Records(u)
      BY <1>0, <1>3, <1>5, <2>1
    <3>2. \A k \in Records(u) : k <= i
      BY <1>0, <1>5, <2>1
    <3>3. handler[h].seen = (u \in enabled)
      <4>1. \A k \in Records(u) : k <= handler[h].began
        BY <1>0, <1>3, <1>5, <3>1, <3>2
      <4> QED
        BY <1>0, <1>8, <4>1 DEF InTime, TogglesInTime
    <3>4. u \in enabled <=> Says(i)
      <4>1. PICK l \in Records(u) : /\ \A k \in Records(u) : k <= l
                                    /\ u \in enabled <=> Says(l)
        BY <1>0, <1>8 DEF LogInv, LastNames
      <4>2. l = i
        BY <1>0, <1>5, <3>1, <3>2, <4>1
      <4> QED
        BY <4>1, <4>2
    <3> QED
      BY <1>5, <2>1, <3>1, <3>3, <3>4
  <2>2. CASE j # n
    <3>1. j \in Records(u) /\ After(j, i)
      BY <1>5, <2>2
    <3>2. j \in 1 .. Len(audit) /\ i <= audit[j].created_at
      BY <1>0, <1>5, <3>1 DEF After
    <3>3. i \in Records(u)
      BY <1>0, <1>5, <3>2 DEF LogInv, Stamped
    <3>4. \A k \in Records(u) : k <= i \/ j <= k
      BY <1>5
    <3>5. Says(j) <=> ~Says(i)
      BY <1>0, <1>8, <3>1, <3>3, <3>4 DEF LogInv, Alternates
    <3> QED
      BY <1>5, <3>1, <3>3, <3>5
  <2> QED
    BY <2>1, <2>2
<1>9. ASSUME NEW v \in Profiles \ deleted, v # u
      PROVE  (LastNames(v) /\ Alternates(v))'
  BY <1>1, <1>4, <1>9, RecordsKeep DEF LogInv
\* Whoever is enabled now was so, or the new entry says it.
<1>10. ASSUME NEW t \in Nat, t < n, NEW v \in enabled',
              v \in enabled => EnabledSince(t, v)
       PROVE  \E j \in 1 .. Len(audit') :
                  /\ j > t
                  /\ audit'[j].action = "ENABLE_MENTOR"
                  /\ audit'[j].target = v
  <2>1. CASE v = u
    BY <1>0, <1>1, <1>2, <1>3, <1>10, <2>1
  <2>2. CASE v # u
    <3>1. EnabledSince(t, v)
      BY <1>1, <1>10, <2>2
    <3> QED
      BY <1>4, <2>2, <3>1, EnabledStays
  <2> QED
    BY <2>1, <2>2
<1>11. BannedStayDisabled'
  <2> SUFFICES ASSUME NEW i \in 1 .. n, audit'[i].action = "BAN_USER",
                      audit'[i].target \in enabled'
               PROVE  \E j \in 1 .. Len(audit') :
                          /\ j > audit'[i].created_at
                          /\ audit'[j].action = "ENABLE_MENTOR"
                          /\ audit'[j].target = audit'[i].target
    BY <1>2 DEF BannedStayDisabled, EnabledSince
  <2>1. i \in 1 .. Len(audit) /\ audit'[i] = audit[i]
    BY <1>0, <1>2 DEF ToggleAction
  <2>2. audit[i].created_at \in Nat /\ audit[i].created_at < n
    BY <1>0, <2>1 DEF LogInv, Stamped
  <2>3. audit[i].target \in enabled
        => EnabledSince(audit[i].created_at, audit[i].target)
    BY <2>1 DEF LogInv, BannedStayDisabled
  <2> QED
    BY <1>10, <2>1, <2>2, <2>3
<1>12. AllInTime'
  <2> SUFFICES ASSUME NEW g \in Handlers, handler'[g] # Idle
               PROVE  InTime(handler[g])'
    BY DEF AllInTime
  <2>1. /\ handler'[g] = handler[g]
        /\ handler[g] # Idle
        /\ InTime(handler[g])
    BY <1>0 DEF CommitToggle, Answer, LogInv, AllInTime
  <2>2. handler[g].began \in Nat /\ handler[g].began < n
    BY <1>0, <2>1 DEF InTime
  <2>3. TogglesInTime(handler[g])'
    <3>1. CASE handler[g].target = u
      <4>1. ~(n <= handler[g].began) /\ n \in Records(u)'
        BY <1>0, <1>5, <2>2
      <4> QED
        BY <2>1, <3>1, <4>1 DEF TogglesInTime
    <3>2. CASE handler[g].target # u
      <4>1. PICK v : v = handler[g].target /\ v = handler'[g].target
        BY <2>1
      <4>2. Records(v)' = Records(v)
        BY <1>4, <3>2, <4>1, RecordsStay
      <4> QED
        BY <1>1, <2>1, <3>2, <4>1, <4>2 DEF TogglesInTime, InTime
    <3> QED
      BY <3>1, <3>2
  <2>4. BansInTime(handler[g])'
    BY <1>10, <2>1, <2>2 DEF BansInTime, InTime, EnabledSince
  <2> QED
    BY <1>0, <1>2, <2>1, <2>2, <2>3, <2>4 DEF InTime
<1> QED
  BY <1>1, <1>6, <1>7, <1>8, <1>9, <1>11, <1>12 DEF LogInv

\* The log explains the profiles in every interleaving and after every crash.
THEOREM LogInvariance == Spec => []LogInv
<1>1. Init => LogInv
  <2> SUFFICES ASSUME Init PROVE LogInv
    OBVIOUS
  <2>1. Len(audit) = 0
    BY DEF Init
  <2>2. \A u : Records(u) = {0}
    BY <2>1 DEF Records
  <2>3. \A u \in Profiles : LastNames(u) /\ Alternates(u)
    BY <2>2 DEF Init, LastNames, Alternates, Says, After
  <2> QED
    BY <2>1, <2>3 DEF Init, LogInv, Stamped, BannedStayDisabled, AllInTime
<1>2. Inv /\ Inv' /\ LogInv /\ [Next]_vars => LogInv'
  <2> SUFFICES ASSUME Inv, Inv', LogInv, [Next]_vars PROVE LogInv'
    OBVIOUS
  <2>0. handler \in [Handlers -> Request \cup {Idle}] /\ Len(audit) \in Nat
    BY DEF Inv, TypeOK
  <2>1. ASSUME NEW h \in Handlers, NEW op \in Operations, NEW u \in Users,
               NEW x \in Users \cup Reports, Authenticate(h, op, u, x)
        PROVE  LogInv'
    <3>1. /\ \A g \in Handlers \ {h} : handler'[g] = handler[g]
          /\ handler'[h].pc = "authenticated"
          /\ handler'[h].began \in {0, Len(audit)}
      BY <2>0, <2>1 DEF Authenticate
    <3>2. UNCHANGED <<deleted, enabled, audit>>
      BY <2>1 DEF Authenticate, accounts
    <3>3. InTime(handler[h])'
      BY <2>0, <3>1, <3>2, StartsInTime
    <3> QED
      BY <3>1, <3>2, <3>3, ReadingLog
  <2>2. ASSUME NEW h \in Handlers,
               \/ LoadUser(h) \/ TakeUser(h) \/ LoadProfile(h)
               \/ \E op \in Closing : \/ LoadReport(h, op) \/ LookupAdmin(h, op)
                                      \/ CommitResolve(h, op)
        PROVE  LogInv'
    <3>1. UNCHANGED <<deleted, enabled, audit>>
      BY <2>2 DEF LoadUser, TakeUser, LoadProfile, LoadReport, LookupAdmin,
         CommitResolve, accounts
    <3>2. \A g \in Handlers \ {h} : handler'[g] = handler[g]
      BY <2>0, <2>2 DEF LoadUser, TakeUser, LoadProfile, LoadReport,
         LookupAdmin, CommitResolve, Check, Advance, Answer
    <3>3. handler'[h] = Idle \/ InTime(handler[h])'
      BY <2>2, <3>1, HandlersInTime
    <3> QED
      BY <3>1, <3>2, <3>3, ReadingLog
  <2>3. ASSUME NEW h \in Handlers, Handle(h) PROVE LogInv'
    BY <2>2, <2>3, BanningLog, TogglingLog, LoggingLog DEF Handle
  <2>4. ASSUME NEW r \in Reports, CreateReport(r) PROVE LogInv'
    BY <2>4, ReadingLog DEF CreateReport, accounts
  <2>5. CASE Crash
    BY <2>5, ReadingLog DEF Crash, accounts
  <2>6. CASE UNCHANGED vars
    BY <2>6, ReadingLog DEF vars
  <2> QED
    BY <2>1, <2>3, <2>4, <2>5, <2>6 DEF Next
<1> QED
  BY <1>1, <1>2, Invariance, PTL DEF Spec

\* No entry is after the one that was committed last.
LEMMA LastIsLatest ==
    ASSUME Stamped, NEW u, NEW i \in Records(u), NEW j \in Records(u),
           Len(audit) \in Nat, j <= i
    PROVE  ~After(j, i)
  BY DEF Stamped, Records, After

\* However admins race on the switch of a profile, the log explains its
\* position, although it does not keep the order of commits.
THEOREM AuditExplains == Spec => []AuditExplainsProfile
<1>1. Inv /\ LogInv => AuditExplainsProfile
  <2> SUFFICES ASSUME Inv, LogInv, NEW u \in Profiles \ deleted
               PROVE  /\ \E i \in Records(u) :
                             /\ \A j \in Records(u) : ~After(j, i)
                             /\ u \in enabled <=> Says(i)
                      /\ Alternates(u)
    BY DEF AuditExplainsProfile, Alternates
  <2>1. PICK i \in Records(u) : /\ \A j \in Records(u) : j <= i
                                /\ u \in enabled <=> Says(i)
    BY DEF LogInv, LastNames
  <2>2. \A j \in Records(u) : ~After(j, i)
    BY <2>1, LastIsLatest DEF Inv, TypeOK, LogInv
  <2> QED
    BY <2>1, <2>2 DEF LogInv
<1> QED
  BY <1>1, Invariance, LogInvariance, PTL

\* What the documentation says of created_at, where it is true: an entry
\* whose transaction began after all the others about the profile were
\* committed names the position of the profile.
SeparateEntryExplains ==
    \A u \in Profiles \ deleted : \A i \in Records(u) :
        (\A j \in Records(u) \ {i} : After(i, j)) => (u \in enabled <=> Says(i))

THEOREM SeparateExplains == Spec => []SeparateEntryExplains
<1>1. Inv /\ LogInv => SeparateEntryExplains
  <2> SUFFICES ASSUME Inv, LogInv, NEW u \in Profiles \ deleted,
                      NEW i \in Records(u),
                      \A j \in Records(u) \ {i} : After(i, j)
               PROVE  u \in enabled <=> Says(i)
    BY DEF SeparateEntryExplains
  <2>1. PICK l \in Records(u) : /\ \A j \in Records(u) : j <= l
                                /\ u \in enabled <=> Says(l)
    BY DEF LogInv, LastNames
  <2>2. l = i
    BY <2>1, LastIsLatest DEF Inv, TypeOK, LogInv
  <2> QED
    BY <2>1, <2>2
<1> QED
  BY <1>1, Invariance, LogInvariance, PTL

\* A profile of a banned user that is enabled was enabled by an admin after
\* the ban began.
THEOREM BannedDisabled == Spec => []BannedStayDisabled
<1>1. LogInv => BannedStayDisabled
  BY DEF LogInv
<1> QED
  BY <1>1, LogInvariance, PTL

-----------------------------------------------------------------------------
(* Row locks.                                                              *)

\* h has written the row of u and not committed.
Holds(h, u) ==
    /\ At(h, "ban", "loaded") \/ At(h, "delete", "loaded")
    /\ handler[h].target = u

\* A user row has one writer at a time, bans and deletions of the same user
\* included.
OneHolder ==
    \A g, h \in Handlers, u \in Users : Holds(g, u) /\ Holds(h, u) => g = h

\* A step of one handler that does not take a row leaves it at most the row
\* it holds.
LEMMA HolderByOther ==
    ASSUME Inv, OneHolder, NEW h \in Handlers,
           \A g \in Handlers \ {h} : handler'[g] = handler[g],
           \A u \in Users : Holds(h, u)' =>
               \/ Holds(h, u)
               \/ \A g \in Handlers : ~Holds(g, u)
    PROVE  OneHolder'
<1>1. \A g \in Handlers \ {h} : \A u : Holds(g, u)' <=> Holds(g, u)
  BY DEF Holds, At
<1> QED
  BY <1>1 DEF OneHolder

\* At most one handler holds a user row, in every interleaving and after
\* every crash: what RequestsAreAnswered rests on.
THEOREM LocksExclude == Spec => []OneHolder
<1>1. Init => OneHolder
  BY DEF Init, OneHolder, Holds, At
<1>2. Inv /\ OneHolder /\ [Next]_vars => OneHolder'
  <2> SUFFICES ASSUME Inv, OneHolder, [Next]_vars PROVE OneHolder'
    OBVIOUS
  <2>0. handler \in [Handlers -> Request \cup {Idle}]
    BY DEF Inv, TypeOK
  <2>1. ASSUME NEW h \in Handlers, TakeUser(h) PROVE OneHolder'
    <3>1. handler[h] \in Request
      BY <2>0, <2>1 DEF TakeUser, At
    <3>2. /\ \A g \in Handlers \ {h} : handler'[g] = handler[g]
          /\ handler'[h].target = handler[h].target
      BY <2>0, <2>1, <3>1 DEF TakeUser, Request
    <3>3. \A g \in Handlers : ~Holds(g, handler[h].target)
      BY <2>1 DEF TakeUser, Locked, Holds
    <3> QED
      BY <3>2, <3>3, HolderByOther DEF Holds
  <2>2. ASSUME NEW h \in Handlers,
               \A g \in Handlers \ {h} : handler'[g] = handler[g],
               handler'[h] = Idle \/ handler'[h].pc # "loaded"
               \/ handler'[h].op \notin {"ban", "delete"}
        PROVE  OneHolder'
    BY <2>2, HolderByOther DEF Holds, At
  <2>3. ASSUME NEW h \in Handlers, Answer(h) PROVE OneHolder'
    BY <2>0, <2>2, <2>3 DEF Answer
  <2>4. ASSUME NEW h \in Handlers, NEW pc, handler[h] # Idle, Advance(h, pc),
               pc # "loaded" \/ handler[h].op \notin {"ban", "delete"}
        PROVE  OneHolder'
    <3>1. handler[h] \in Request
      BY <2>0, <2>4
    <3>2. /\ \A g \in Handlers \ {h} : handler'[g] = handler[g]
          /\ handler'[h].pc = pc /\ handler'[h].op = handler[h].op
      BY <2>0, <2>4, <3>1 DEF Advance, Request
    <3> QED
      BY <2>2, <2>4, <3>2
  <2>5. ASSUME NEW h \in Handlers, NEW op \in Operations, NEW u \in Users,
               NEW x \in Users \cup Reports, Authenticate(h, op, u, x)
        PROVE  OneHolder'
    BY <2>0, <2>2, <2>5 DEF Authenticate
  <2>6. ASSUME NEW h \in Handlers,
               LoadUser(h) \/ CommitBan(h) \/ CommitDelete(h)
               \/ CommitToggle(h)
        PROVE  OneHolder'
    BY <2>3, <2>4, <2>6 DEF LoadUser, CommitBan, CommitDelete, CommitToggle,
       Check, At
  <2>7. ASSUME NEW h \in Handlers, LoadProfile(h) PROVE OneHolder'
    <3>1. handler[h] \in Request /\ handler[h].op = "toggle"
      BY <2>0, <2>7 DEF LoadProfile, At
    <3>2. CASE Answer(h)
      BY <2>3, <3>2
    <3>3. CASE ~Answer(h)
      <4>1. /\ \A g \in Handlers \ {h} : handler'[g] = handler[g]
            /\ handler'[h].op = "toggle"
        BY <2>0, <2>7, <3>1, <3>3 DEF LoadProfile, Request
      <4> QED
        BY <2>2, <4>1
    <3> QED
      BY <3>2, <3>3
  <2>8. ASSUME NEW h \in Handlers, NEW op \in Closing,
               LoadReport(h, op)
        PROVE  OneHolder'
    <3>1. handler[h] \in Request /\ handler[h].op = op
      BY <2>0, <2>8 DEF LoadReport, At
    <3>2. CASE Answer(h)
      BY <2>3, <3>2
    <3>3. CASE ~Answer(h)
      <4>1. /\ \A g \in Handlers \ {h} : handler'[g] = handler[g]
            /\ handler'[h].op = op
        BY <2>0, <2>8, <3>1, <3>3 DEF LoadReport, Request
      <4> QED
        BY <2>2, <4>1 DEF Closing
    <3> QED
      BY <3>2, <3>3
  <2>9. ASSUME NEW h \in Handlers, NEW op \in Closing,
               LookupAdmin(h, op) \/ LogResolve(h, op)
        PROVE  OneHolder'
    BY <2>3, <2>4, <2>9 DEF LookupAdmin, LogResolve, Check, At, Closing
  <2>10. ASSUME NEW h \in Handlers, NEW op \in Closing, CommitResolve(h, op)
        PROVE  OneHolder'
    <3>1. handler[h] \in Request
      BY <2>0, <2>10 DEF CommitResolve, At
    <3>2. /\ \A g \in Handlers \ {h} : handler'[g] = handler[g]
          /\ handler'[h].pc = "resolved"
      BY <2>0, <2>10, <3>1 DEF CommitResolve, Request
    <3> QED
      BY <2>2, <3>2
  <2>11. CASE Crash
    BY <2>11 DEF Crash, OneHolder, Holds, At
  <2>12. CASE UNCHANGED handler
    BY <2>12 DEF OneHolder, Holds, At
  <2> QED
    BY <2>1, <2>5, <2>6, <2>7, <2>8, <2>9, <2>10, <2>11, <2>12
    DEF Next, Handle, CreateReport, vars
<1> QED
  BY <1>1, <1>2, Invariance, PTL DEF Spec

-----------------------------------------------------------------------------
(* What the documentation says of a ban, where it is true.                 *)

\* No admin switches the profile of a user whom another one is banning.
Separate ==
    \A g, h \in Handlers :
        /\ handler[g] # Idle /\ handler[g].op = "toggle"
        /\ handler[h] # Idle /\ handler[h].op = "ban"
        => handler[g].target # handler[h].target

SeparateSpec == Init /\ [][Next /\ Separate']_vars

\* What a ban has read of the profile is still so.
BanSeesProfile ==
    \A h \in Handlers :
        At(h, "ban", "loaded")
        => handler[h].seen = (handler[h].target \in enabled)

\* A ban reads the profile while it holds the user row.
LEMMA BanReads ==
    ASSUME Inv, [Next]_vars, NEW h \in Handlers,
           At(h, "ban", "loaded")', handler'[h] # handler[h]
    PROVE  TakeUser(h)
<1>0. handler \in [Handlers -> Request \cup {Idle}]
  BY DEF Inv, TypeOK
<1>1. ~Answer(h) /\ handler'[h] # Idle
  BY <1>0 DEF Answer, At
<1>2. ASSUME NEW g \in Handlers \ {h},
             Handle(g) \/ (\E op \in Operations, u \in Users,
                              x \in Users \cup Reports : Authenticate(g, op, u, x))
      PROVE  FALSE
  BY <1>0, <1>2 DEF Handle, Authenticate, LoadUser, TakeUser, CommitBan,
     CommitDelete, LoadProfile, CommitToggle, LoadReport, LookupAdmin,
     CommitResolve, LogResolve, Check, Advance, Answer
<1>3. ASSUME NEW op \in Operations, NEW u \in Users,
             NEW x \in Users \cup Reports, Authenticate(h, op, u, x)
      PROVE  FALSE
  BY <1>0, <1>3 DEF Authenticate, At
<1>4. CASE Handle(h)
  <2>1. handler[h] \in Request
    BY <1>0, <1>4 DEF Handle, LoadUser, TakeUser, CommitBan, CommitDelete,
       LoadProfile, CommitToggle, LoadReport, LookupAdmin, CommitResolve,
       LogResolve, At
  <2>2. handler'[h].op = handler[h].op
    BY <1>0, <1>1, <1>4, <2>1 DEF Handle, LoadUser, TakeUser, CommitBan,
       CommitDelete, LoadProfile, CommitToggle, LoadReport, LookupAdmin,
       CommitResolve, LogResolve, Check, Advance, Request
  <2>3. ~LoadUser(h)
    BY <1>0, <1>1, <2>1 DEF LoadUser, Check, Advance, At, Request
  <2> QED
    BY <1>1, <1>4, <2>2, <2>3 DEF Handle, CommitBan, CommitDelete,
       LoadProfile, CommitToggle, LoadReport, LookupAdmin, CommitResolve,
       LogResolve, At, Closing
<1> QED
  BY <1>1, <1>2, <1>3, <1>4 DEF Next, CreateReport, Crash, vars

\* Whoever changes the profile of u commits a request about u.
LEMMA ProfileWriters ==
    ASSUME Inv, [Next]_vars, NEW u, (u \in enabled') # (u \in enabled)
    PROVE  \E g \in Handlers :
               /\ CommitBan(g) \/ CommitDelete(g) \/ CommitToggle(g)
               /\ handler[g].target = u
<1>1. PICK g \in Handlers : CommitBan(g) \/ CommitDelete(g) \/ CommitToggle(g)
  BY DEF Next, Handle, Authenticate, LoadUser, TakeUser, LoadProfile,
     LoadReport, LookupAdmin, CommitResolve, LogResolve, CreateReport, Crash,
     vars, accounts
<1>2. enabled' \in {enabled, enabled \ {handler[g].target},
                    enabled \cup {handler[g].target}}
  BY <1>1 DEF CommitBan, CommitDelete, CommitToggle, Disable
<1> QED
  BY <1>1, <1>2

\* While nobody switches that profile a ban works with what is so: other bans
\* and the deletion of the user wait for the row it holds.
LEMMA BanSees ==
    ASSUME Inv, OneHolder, Separate, BanSeesProfile, [Next]_vars
    PROVE  BanSeesProfile'
<1> SUFFICES ASSUME NEW h \in Handlers, At(h, "ban", "loaded")'
             PROVE  handler'[h].seen = (handler'[h].target \in enabled')
  BY DEF BanSeesProfile, At
<1>0. handler \in [Handlers -> Request \cup {Idle}]
  BY DEF Inv, TypeOK
<1>1. CASE handler'[h] # handler[h]
  <2>1. TakeUser(h)
    BY <1>1, BanReads
  <2>2. handler[h] \in Request
    BY <1>0, <2>1 DEF TakeUser, At
  <2> QED
    BY <1>0, <2>1, <2>2 DEF TakeUser, accounts, Request
<1>2. CASE handler'[h] = handler[h]
  <2>1. At(h, "ban", "loaded")
    BY <1>2 DEF At
  <2>2. ASSUME NEW g \in Handlers,
               CommitBan(g) \/ CommitDelete(g) \/ CommitToggle(g)
        PROVE  handler[g].target # handler[h].target
    <3>1. g # h
      BY <1>0, <2>2 DEF CommitBan, CommitDelete, CommitToggle, Answer, At
    <3>2. CASE CommitToggle(g)
      BY <2>1, <3>2 DEF Separate, CommitToggle, At
    <3>3. CASE CommitBan(g) \/ CommitDelete(g)
      <4>1. handler[h].target \in Users
        BY <2>1, Working DEF At, Checked
      <4> QED
        BY <2>1, <3>1, <3>3, <4>1 DEF OneHolder, Holds, CommitBan,
           CommitDelete, At
    <3> QED
      BY <2>2, <3>2, <3>3
  <2>3. (handler[h].target \in enabled') = (handler[h].target \in enabled)
    BY <2>2, ProfileWriters
  <2> QED
    BY <1>2, <2>1, <2>3 DEF BanSeesProfile
<1> QED
  BY <1>1, <1>2

\* "Sets user.banned_at and user.deleted_at, disables mentor profile" is true
\* of every ban that no switch of the profile overlaps with, whatever other
\* bans, deletions and crashes do meanwhile.
THEOREM BansDisable == SeparateSpec => BanDisablesMentor
<1>1. [Next /\ Separate']_vars => [Next]_vars
  OBVIOUS
<1>2. SeparateSpec => []Inv /\ []OneHolder
  BY <1>1, Invariance, LocksExclude, PTL DEF SeparateSpec, Spec
<1>3. Init => Separate /\ BanSeesProfile
  BY DEF Init, Separate, BanSeesProfile, At
<1>4. Separate /\ [Next /\ Separate']_vars => Separate'
  BY DEF Separate, vars
<1>5. Inv /\ OneHolder /\ Separate /\ BanSeesProfile /\ [Next]_vars
      => BanSeesProfile'
  BY BanSees
<1>6. Inv /\ BanSeesProfile /\ [Next]_vars
      => \A u \in banned' \ banned : u \notin enabled'
  <2> SUFFICES ASSUME Inv, BanSeesProfile, [Next]_vars,
                      NEW u \in banned' \ banned
               PROVE  u \notin enabled'
    OBVIOUS
  <2>1. PICK h \in Handlers : CommitBan(h)
    BY DEF Next, Handle, Authenticate, LoadUser, TakeUser, CommitDelete,
       LoadProfile, CommitToggle, LoadReport, LookupAdmin, CommitResolve,
       LogResolve, CreateReport, Crash, vars, accounts
  <2>2. u = handler[h].target /\ handler[h].seen = (u \in enabled)
    BY <2>1 DEF CommitBan, BanSeesProfile
  <2> QED
    BY <2>1, <2>2 DEF CommitBan, Disable
<1>7. SeparateSpec => [](Separate /\ BanSeesProfile)
  BY <1>1, <1>2, <1>3, <1>4, <1>5, PTL DEF SeparateSpec
<1> QED
  BY <1>1, <1>2, <1>6, <1>7, PTL DEF SeparateSpec, BanDisablesMentor

-----------------------------------------------------------------------------
(* What other modules take from this one: their own steps that enable and  *)
(* disable profiles and delete users are all that happens here.            *)

\* Mentorship without pairs and handlers: its users and profiles alone.
ForMentorships == INSTANCE Mentorship WITH
    Pairs <- {}, Handlers <- {}, MaxMessages <- 0,
    status <- << >>, threads <- {}, messages <- << >>,
    handler <- << >>, accepted <- {}

\* Recommendations without viewers and requests: its mentors alone.
ForRecommendations == INSTANCE Recommendations WITH
    Viewers <- {}, Mentors <- Profiles, Blocks <- {}, Handlers <- {},
    Limits <- {}, MaxCandidates <- 0, CacheTTL <- 1,
    gone <- deleted \cap Profiles, cache <- << >>, handler <- << >>

\* The profile of u is switched.
Switched(u) == IF u \in enabled THEN enabled \ {u} ELSE enabled \cup {u}

\* A step deletes one user, and may disable the profile, or it switches one
\* profile, or it leaves the accounts alone.
LEMMA AccountSteps ==
    ASSUME Inv, [Next]_vars
    PROVE  \/ UNCHANGED <<deleted, enabled>>
           \/ \E u \in Users \ deleted :
                  /\ deleted' = deleted \cup {u}
                  /\ enabled' \in {enabled, enabled \ {u}}
           \/ \E u \in Profiles :
                  deleted' = deleted /\ enabled' = Switched(u)
<1> DEFINE Deletes(u) == /\ u \in Users \ deleted
                         /\ deleted' = deleted \cup {u}
                         /\ enabled' \in {enabled, enabled \ {u}}
           Switches(u) == /\ u \in Profiles
                          /\ deleted' = deleted
                          /\ enabled' = Switched(u)
<1>0. enabled \subseteq Profiles
  BY DEF Inv, TypeOK
<1>1. ASSUME NEW h \in Handlers, CommitBan(h) \/ CommitDelete(h)
      PROVE  \/ UNCHANGED <<deleted, enabled>>
             \/ \E u : Deletes(u) \/ Switches(u)
  <2> DEFINE u == handler[h].target
  <2>1. u \in Users
    BY <1>1, Working DEF CommitBan, CommitDelete, At, Checked
  <2>2. /\ deleted' = deleted \cup {u}
        /\ enabled' \in {enabled, enabled \ {u}}
    BY <1>1 DEF CommitBan, CommitDelete, Disable
  <2> HIDE DEF u
  <2>3. CASE u \notin deleted
    BY <2>1, <2>2, <2>3
  <2>4. CASE u \in deleted
    <3>1. deleted' = deleted
      BY <2>2, <2>4
    <3>2. CASE u \in enabled /\ enabled' = enabled \ {u}
      BY <1>0, <3>1, <3>2 DEF Switched
    <3>3. CASE enabled' = enabled
      BY <3>1, <3>3
    <3> QED
      BY <2>2, <3>2, <3>3
  <2> QED
    BY <2>3, <2>4
<1>2. ASSUME NEW h \in Handlers, CommitToggle(h)
      PROVE  \/ UNCHANGED <<deleted, enabled>>
             \/ \E u : Switches(u)
  <2> DEFINE u == handler[h].target
  <2>1. u \in Profiles
    BY <1>2, Working DEF CommitToggle, At, Checked
  <2>2. /\ deleted' = deleted
        /\ enabled' \in {enabled \ {u}, enabled \cup {u}}
    BY <1>2 DEF CommitToggle
  <2> HIDE DEF u
  <2>3. enabled' = enabled \/ enabled' = Switched(u)
    BY <2>2 DEF Switched
  <2> QED
    BY <2>1, <2>2, <2>3
<1>3. ASSUME UNCHANGED accounts PROVE UNCHANGED <<deleted, enabled>>
  BY <1>3 DEF accounts
<1> HIDE DEF Deletes, Switches
<1>4. \/ UNCHANGED <<deleted, enabled>>
      \/ \E u : Deletes(u) \/ Switches(u)
  BY <1>1, <1>2, <1>3 DEF Next, Handle, vars, accounts, Authenticate,
     LoadUser, TakeUser, LoadProfile, LoadReport, LookupAdmin, CommitResolve,
     LogResolve, CreateReport, Crash
<1> QED
  BY <1>4 DEF Deletes, Switches

\* Users are deleted, and profiles switched, as Mentorship takes for granted:
\* for good, one at a time, and with or without their profile.
THEOREM MentorshipsAreServed == Spec => ForMentorships!Spec
<1>1. Init => ForMentorships!Init
  BY PeopleAssumption DEF Init, ForMentorships!Init
<1>2. Inv /\ [Next]_vars => [ForMentorships!Next]_(ForMentorships!vars)
  <2> SUFFICES ASSUME Inv, [Next]_vars
               PROVE  [ForMentorships!Next]_(ForMentorships!vars)
    OBVIOUS
  <2>1. CASE UNCHANGED <<deleted, enabled>>
    BY <2>1 DEF ForMentorships!vars
  <2>2. ASSUME NEW u \in Users \ deleted,
               deleted' = deleted \cup {u},
               enabled' \in {enabled, enabled \ {u}}
        PROVE  ForMentorships!Next
    BY <2>2 DEF ForMentorships!Next, ForMentorships!DeleteUser,
       ForMentorships!rows
  <2>3. ASSUME NEW u \in Profiles,
               deleted' = deleted /\ enabled' = Switched(u)
        PROVE  ForMentorships!Next
    BY <2>3 DEF ForMentorships!Next, ForMentorships!ToggleMentor,
       ForMentorships!rows, Switched
  <2> QED
    BY <2>1, <2>2, <2>3, AccountSteps
<1> QED
  BY <1>1, <1>2, Invariance, PTL DEF Spec, ForMentorships!Spec

\* Mentors are enabled, disabled, banned and deleted as Recommendations takes
\* for granted: who is gone stays so, also when bans, deletions and toggles
\* race.
THEOREM RecommendationsAreServed == Spec => ForRecommendations!Spec
<1>1. Init => ForRecommendations!Init
  BY DEF Init, ForRecommendations!Init
<1>2. Inv /\ [Next]_vars
      => [ForRecommendations!Next]_(ForRecommendations!vars)
  <2> SUFFICES ASSUME Inv, [Next]_vars
               PROVE  [ForRecommendations!Next]_(ForRecommendations!vars)
    OBVIOUS
  <2>1. CASE UNCHANGED <<deleted, enabled>>
    BY <2>1 DEF ForRecommendations!vars
  <2>2. ASSUME NEW u \in Users \ deleted,
               deleted' = deleted \cup {u},
               enabled' \in {enabled, enabled \ {u}}
        PROVE  [ForRecommendations!Next]_(ForRecommendations!vars)
    <3>1. CASE u \in Profiles
      <4>1. ForRecommendations!Leave(u)
        BY <2>2, <3>1 DEF ForRecommendations!Leave
      <4> QED
        BY <3>1, <4>1 DEF ForRecommendations!Next
    <3>2. CASE u \notin Profiles
      <4>1. enabled' = enabled /\ deleted' \cap Profiles = deleted \cap Profiles
        BY <2>2, <3>2 DEF Inv, TypeOK
      <4> QED
        BY <4>1 DEF ForRecommendations!vars
    <3> QED
      BY <3>1, <3>2
  <2>3. ASSUME NEW u \in Profiles,
               deleted' = deleted /\ enabled' = Switched(u)
        PROVE  ForRecommendations!Next
    <3>1. ForRecommendations!Toggle(u)
      BY <2>3 DEF ForRecommendations!Toggle, Switched
    <3> QED
      BY <3>1 DEF ForRecommendations!Next
  <2> QED
    BY <2>1, <2>2, <2>3, AccountSteps
<1> QED
  BY <1>1, <1>2, Invariance, PTL DEF Spec, ForRecommendations!Spec
=============================================================================
