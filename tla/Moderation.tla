----------------------------- MODULE Moderation -----------------------------
(***************************************************************************)
(* Moderation: admins ban users, enable and disable mentor profiles and    *)
(* resolve reports, all of it recorded in an append-only audit log; users  *)
(* file reports and delete their own accounts.                             *)
(*                                                                         *)
(* Handlers interleave as in module Mentorship.  Two details matter here.  *)
(* ban_user and soft_delete_user change the user object and then query its *)
(* mentor profile: the session flushes the UPDATE of the user row first    *)
(* (autoflush), so that the row stays locked until the handler commits and *)
(* a second such handler waits before it reads the profile.  And           *)
(* is_enabled = False is written only if the profile that was read was     *)
(* enabled.  The process may stop at any time: transactions that have not  *)
(* committed are rolled back, those that have are kept.                    *)
(*                                                                         *)
(* created_at of a log entry is now() of PostgreSQL: the time at which the *)
(* transaction began, not the time at which it was committed.  A time is   *)
(* modelled by the number of entries that are committed at that time, and  *)
(* two entries with the same created_at count as unordered.  Nothing in    *)
(* the table tells in which order entries were committed (ids are random). *)
(***************************************************************************)
EXTENDS Naturals, Sequences, FiniteSets

CONSTANTS
    Users,     \* registered users
    Admins,    \* those in ADMIN_USER_IDS
    Profiles,  \* those with a mentor profile
    Reports,   \* ids that reports can get
    Handlers,  \* slots for requests that are processed at the same time
    MaxAudit   \* bound: no admin request starts on a longer audit log

ASSUME PeopleAssumption == Admins \subseteq Users /\ Profiles \subseteq Users
ASSUME ReportsAssumption == Reports \cap Users = {}
ASSUME BoundAssumption == MaxAudit \in Nat

VARIABLES
    deleted,  \* users with deleted_at set
    banned,   \* users with banned_at set
    enabled,  \* users whose mentor profile is enabled
    report,   \* report[r]: status and resolved_by_id of the report row
    audit,    \* the audit log; its index, the order of commit, is history
    handler   \* handler[h]: the request slot h works on, and what it read

vars == <<deleted, banned, enabled, report, audit, handler>>

accounts == <<deleted, banned, enabled>>

Operations == {"ban", "toggle", "resolve", "dismiss", "delete"}
Closing == {"resolve", "dismiss"}

ReportStatus == {"pending", "resolved", "dismissed"}
Closed == {"resolved", "dismissed"}

Report == [status : ReportStatus \cup {"none"}, by : Admins \cup {"nobody"}]

AuditAction == {"BAN_USER", "DISABLE_MENTOR", "ENABLE_MENTOR",
                "RESOLVE_REPORT", "DISMISS_REPORT"}

Entry == [action : AuditAction, admin : Admins, target : Users \cup Reports,
          created_at : Nat]

\* The admin is known; the report is read; the user to be banned is read;
\* the user row is written and its profile read (or, for a toggle, only
\* that); the resolution is committed and has yet to be logged.
Progress == {"authenticated", "report_read", "user_read", "loaded", "resolved"}

\* began: when the transaction began that will log the request, 0 if none.
Request == [op : Operations, caller : Users, target : Users \cup Reports,
            pc : Progress, seen : BOOLEAN, began : Nat]

Idle == [op |-> "idle"]

TypeOK ==
    /\ deleted \subseteq Users
    /\ banned \subseteq Users
    /\ enabled \subseteq Profiles
    /\ report \in [Reports -> Report]
    /\ audit \in Seq(Entry)
    /\ handler \in [Handlers -> Request \cup {Idle}]

\* Profiles are created enabled.
Init ==
    /\ deleted = {}
    /\ banned = {}
    /\ enabled = Profiles
    /\ report = [r \in Reports |-> [status |-> "none", by |-> "nobody"]]
    /\ audit = << >>
    /\ handler = [h \in Handlers |-> Idle]

-----------------------------------------------------------------------------
(* The steps every handler is made of.                                     *)

At(h, op, pc) ==
    /\ handler[h] # Idle
    /\ handler[h].op = op
    /\ handler[h].pc = pc

Answer(h) == handler' = [handler EXCEPT ![h] = Idle]

Advance(h, pc) == handler' = [handler EXCEPT ![h].pc = pc]

\* h goes on to pc if the checks hold, otherwise it answers with an error.
Check(h, checks, pc) == IF checks THEN Advance(h, pc) ELSE Answer(h)

\* log_admin_action
LogAt(h, action, time) ==
    audit' = Append(audit, [action |-> action, admin |-> handler[h].caller,
                            target |-> handler[h].target, created_at |-> time])

Log(h, action) == LogAt(h, action, handler[h].began)

\* The row of user u is written by a transaction that has not committed.
Locked(u) ==
    \E h \in Handlers :
        /\ At(h, "ban", "loaded") \/ At(h, "delete", "loaded")
        /\ handler[h].target = u

\* What a request can be about.
Targets(op) == IF op \in Closing THEN Reports ELSE Users

\* A request arrives.  The user a token belongs to is found unless deleted;
\* admin requests other than resolutions look for it before anything else,
\* and nobody bans himself.  This look-up begins their transaction.
Authenticate(h, op, u, x) ==
    /\ handler[h] = Idle
    /\ x \in Targets(op)
    /\ op = "delete" => x = u
    /\ op # "delete" => u \in Admins /\ Len(audit) < MaxAudit
    /\ op \notin Closing => u \notin deleted
    /\ op = "ban" => x # u
    /\ handler' = [handler EXCEPT ![h] =
           [op |-> op, caller |-> u, target |-> x,
            pc |-> "authenticated", seen |-> FALSE,
            began |-> IF op \in {"ban", "toggle"} THEN Len(audit) ELSE 0]]
    /\ UNCHANGED <<accounts, report, audit>>

-----------------------------------------------------------------------------
(* POST /admin/users/{id}/ban and DELETE /users/me                         *)

\* The user to be banned exists and is neither banned nor deleted.
LoadUser(h) ==
    /\ At(h, "ban", "authenticated")
    /\ Check(h, handler[h].target \notin banned \cup deleted, "user_read")
    /\ UNCHANGED <<accounts, report, audit>>

\* The UPDATE of the user row, which may have to wait, and the SELECT of
\* the profile.
TakeUser(h) ==
    LET u == handler[h].target
    IN  /\ At(h, "ban", "user_read") \/ At(h, "delete", "authenticated")
        /\ ~Locked(u)
        /\ handler' = [handler EXCEPT ![h].pc = "loaded",
                                      ![h].seen = u \in enabled]
        /\ UNCHANGED <<accounts, report, audit>>

\* Mutant of Disable: the profile is switched, as toggle_mentor does.
DisableToggles(h) ==
    enabled' = IF handler[h].seen \/ handler[h].target \notin Profiles
               THEN enabled \ {handler[h].target}
               ELSE enabled \cup {handler[h].target}

\* is_enabled = False, if that differs from what was read.
Disable(h) ==
    enabled' = IF handler[h].seen THEN enabled \ {handler[h].target}
               ELSE enabled

\* Mutant of CommitBan: only bans of mentors are logged.
CommitBanMentorLogged(h) ==
    LET u == handler[h].target
    IN  /\ At(h, "ban", "loaded")
        /\ banned' = banned \cup {u}
        /\ deleted' = deleted \cup {u}
        /\ Disable(h)
        /\ IF u \in Profiles THEN Log(h, "BAN_USER") ELSE UNCHANGED audit
        /\ Answer(h)
        /\ UNCHANGED report

\* Mutant of CommitBan: the row of the admin is locked as well.
CommitBanLocksAdmin(h) ==
    LET u == handler[h].target
    IN  /\ At(h, "ban", "loaded")
        /\ ~Locked(handler[h].caller)
        /\ banned' = banned \cup {u}
        /\ deleted' = deleted \cup {u}
        /\ Disable(h)
        /\ Log(h, "BAN_USER")
        /\ Answer(h)
        /\ UNCHANGED report

CommitBan(h) ==
    LET u == handler[h].target
    IN  /\ At(h, "ban", "loaded")
        /\ banned' = banned \cup {u}
        /\ deleted' = deleted \cup {u}
        /\ Disable(h)
        /\ Log(h, "BAN_USER")
        /\ Answer(h)
        /\ UNCHANGED report

CommitDelete(h) ==
    /\ At(h, "delete", "loaded")
    /\ deleted' = deleted \cup {handler[h].target}
    /\ Disable(h)
    /\ Answer(h)
    /\ UNCHANGED <<banned, report, audit>>

-----------------------------------------------------------------------------
(* POST /admin/mentors/{id}/disable                                        *)

LoadProfile(h) ==
    LET u == handler[h].target
    IN  /\ At(h, "toggle", "authenticated")
        /\ IF u \in Profiles
           THEN handler' = [handler EXCEPT ![h].pc = "loaded",
                                           ![h].seen = u \in enabled]
           ELSE Answer(h)
        /\ UNCHANGED <<accounts, report, audit>>

ToggleAction(h) == IF handler[h].seen THEN "DISABLE_MENTOR" ELSE "ENABLE_MENTOR"

\* Mutant of CommitToggle: UPDATE ... SET is_enabled = NOT is_enabled.
CommitToggleInPlace(h) ==
    LET u == handler[h].target
    IN  /\ At(h, "toggle", "loaded")
        /\ enabled' = IF u \in enabled THEN enabled \ {u} ELSE enabled \cup {u}
        /\ Log(h, ToggleAction(h))
        /\ Answer(h)
        /\ UNCHANGED <<deleted, banned, report>>

\* The opposite of what was read is written, for a banned or deleted user
\* too.
CommitToggle(h) ==
    LET u == handler[h].target
    IN  /\ At(h, "toggle", "loaded")
        /\ enabled' = IF handler[h].seen THEN enabled \ {u}
                      ELSE enabled \cup {u}
        /\ Log(h, ToggleAction(h))
        /\ Answer(h)
        /\ UNCHANGED <<deleted, banned, report>>

-----------------------------------------------------------------------------
(* POST /reports and POST /admin/reports/{id}/resolve                      *)

\* A user files a report: a row is inserted that nobody else knows of yet.
CreateReport(r) ==
    /\ report[r].status = "none"
    /\ report' = [report EXCEPT ![r].status = "pending"]
    /\ UNCHANGED <<accounts, audit, handler>>

\* The report is read: seen says whether it is still open.
LoadReport(h, op) ==
    LET s == report[handler[h].target].status
    IN  /\ At(h, op, "authenticated")
        /\ IF s # "none"
           THEN handler' = [handler EXCEPT ![h].pc = "report_read",
                                           ![h].seen = s \notin Closed]
           ELSE Answer(h)
        /\ UNCHANGED <<accounts, report, audit>>

\* What the log calls the two ways to close a report.
CloseAction(op) == IF op = "resolve" THEN "RESOLVE_REPORT" ELSE "DISMISS_REPORT"

\* Mutant of LookupAdmin: the resolution is logged before it is made.
LookupAdminLogs(h, op) ==
    LET open == handler[h].caller \notin deleted /\ handler[h].seen
    IN  /\ At(h, op, "report_read")
        /\ Check(h, open, "loaded")
        /\ IF open THEN Log(h, CloseAction(op)) ELSE UNCHANGED audit
        /\ UNCHANGED <<accounts, report>>

\* The admin is looked up only now, and the status that was read is checked.
LookupAdmin(h, op) ==
    /\ At(h, op, "report_read")
    /\ Check(h, handler[h].caller \notin deleted /\ handler[h].seen, "loaded")
    /\ UNCHANGED <<accounts, report, audit>>

\* resolve_report commits by itself; a second transaction begins later, when
\* it refreshes the report.
CommitResolve(h, op) ==
    LET r == handler[h].target
    IN  /\ At(h, op, "loaded")
        /\ report' = [report EXCEPT ![r] =
               [status |-> IF op = "resolve" THEN "resolved" ELSE "dismissed",
                by |-> handler[h].caller]]
        /\ handler' = [handler EXCEPT ![h].pc = "resolved",
                                      ![h].began = Len(audit)]
        /\ UNCHANGED <<accounts, audit>>

\* The endpoint logs the resolution in that second transaction.
LogResolve(h, op) ==
    /\ At(h, op, "resolved")
    /\ \E time \in handler[h].began .. Len(audit) :
           LogAt(h, CloseAction(op), time)
    /\ Answer(h)
    /\ UNCHANGED <<accounts, report>>

-----------------------------------------------------------------------------
\* The process stops and is started again: no request survives.
Crash ==
    /\ handler' = [h \in Handlers |-> Idle]
    /\ UNCHANGED <<accounts, report, audit>>

Handle(h) ==
    \/ LoadUser(h) \/ TakeUser(h) \/ CommitBan(h) \/ CommitDelete(h)
    \/ LoadProfile(h) \/ CommitToggle(h)
    \/ \E op \in Closing : \/ LoadReport(h, op) \/ LookupAdmin(h, op)
                           \/ CommitResolve(h, op) \/ LogResolve(h, op)

Next ==
    \/ \E h \in Handlers, op \in Operations, u \in Users,
          x \in Users \cup Reports : Authenticate(h, op, u, x)
    \/ \E h \in Handlers : Handle(h)
    \/ \E r \in Reports : CreateReport(r)
    \/ Crash

Spec == Init /\ [][Next]_vars

\* A handler is carried on by the event loop; a row lock is granted in the
\* order in which it was asked for, so a handler that can go on again and
\* again does go on.
FairSpec == Spec /\ \A h \in Handlers : SF_vars(Handle(h))

-----------------------------------------------------------------------------
(* Properties of every interleaving and of every crash.                    *)

\* A user is banned if and only if the log says so, by an admin other than
\* that user, and a banned user is deleted as well: the three writes of
\* ban_user are kept or lost together.
BansAreRecorded ==
    /\ banned \subseteq deleted
    /\ \A u \in Users :
           u \in banned <=> \E i \in 1 .. Len(audit) :
               /\ audit[i].action = "BAN_USER"
               /\ audit[i].target = u
               /\ audit[i].admin # u

\* An entry committed after that time says that the profile of u is enabled.
EnabledSince(time, u) ==
    \E j \in 1 .. Len(audit) :
        /\ j > time
        /\ audit[j].action = "ENABLE_MENTOR"
        /\ audit[j].target = u

\* A banned user has an enabled profile only if an admin has enabled it since
\* the ban began: a ban takes no profile back that a toggle disabled.
BannedStayDisabled ==
    \A i \in 1 .. Len(audit) :
        /\ audit[i].action = "BAN_USER"
        /\ audit[i].target \in enabled
        => EnabledSince(audit[i].created_at, audit[i].target)

Toggles(e, u) ==
    e.action \in {"DISABLE_MENTOR", "ENABLE_MENTOR"} /\ e.target = u

\* What is recorded of the profile of u: its creation (0), and the entries
\* about its switch.
Records(u) == {0} \cup {i \in 1 .. Len(audit) : Toggles(audit[i], u)}

\* The position a record names; profiles are created enabled.
Says(i) == i = 0 \/ audit[i].action = "ENABLE_MENTOR"

\* The transaction of record j began when record i was committed.
After(j, i) == j > 0 /\ audit[j].created_at >= i

\* The log explains the profile of every user who is not deleted, as far as
\* it can: its position is one that a record names which no other record is
\* after, and a toggle says the opposite of the record that was the last when
\* its transaction began, unless another was committed while it ran.
AuditExplainsProfile ==
    \A u \in Profiles \ deleted :
        /\ \E i \in Records(u) :
               /\ \A j \in Records(u) : ~After(j, i)
               /\ u \in enabled <=> Says(i)
        /\ \A i, j \in Records(u) :
               After(j, i) /\ (\A k \in Records(u) : k <= i \/ j <= k)
               => (Says(j) <=> ~Says(i))

\* A resolution that is logged has happened, and a closed report stays
\* closed although the second of two admins overwrites the first.
LoggedReportsAreClosed ==
    \A i \in 1 .. Len(audit) :
        audit[i].target \in Reports => report[audit[i].target].status \in Closed

\* Every request is answered: handlers that wait for the row of a user, two
\* admins who ban each other among them, never wait in a circle.
RequestsAreAnswered ==
    \A h \in Handlers : handler[h] # Idle ~> handler[h] = Idle

-----------------------------------------------------------------------------
(* What documentation and tests say.                                       *)

\* ban_user_endpoint, api/admin.py line 153: "Sets user.banned_at and
\* user.deleted_at, disables mentor profile."
BanDisablesMentor ==
    [][\A u \in banned' \ banned : u \notin enabled']_vars

\* models/audit_log.py line 3: "Every admin action (bans, mentor disables,
\* report resolutions, account deletions) must be logged here."
ResolutionsAreLogged ==
    \A r \in Reports :
        /\ report[r].status \in Closed
        /\ \A h \in Handlers : handler[h] # Idle => handler[h].target # r
        => \E i \in 1 .. Len(audit) : audit[i].target = r

\* models/audit_log.py, line 46: "created_at: When the action was performed".
\* The latest entry about a profile, if there is only one, names its position.
LatestEntryExplains ==
    \A u \in Profiles \ deleted : \A i \in Records(u) \ {0} :
        (\A j \in Records(u) \ {0, i} :
             audit[j].created_at < audit[i].created_at)
        => (u \in enabled <=> Says(i))
=============================================================================
