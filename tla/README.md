# SkillSwap: a formal model of the backend

SkillSwap matches mentees with mentors: a mentee asks a mentor for a
mentorship, the two exchange messages, arrange meetings, and the mentee reviews
them; admins moderate.  The backend (`src/backend/app`) is a FastAPI
application over PostgreSQL with Redis beside it.  This directory holds TLA+
modules of its core, TLC configurations that check them on small instances, and
TLAPS proofs about them for instances of any size.  Paths below without a
prefix are relative to `src/backend/app/`.

## 1. How the program runs, and what that means for a model

* **Handlers interleave.**  Every endpoint is an `async` function with a
  database session of its own (`core/dependencies.py`, `db/session.py`).  It
  reads rows with one statement, checks them in Python, and writes and commits
  with later statements; at every `await` another handler may run.
* **Nothing is locked or versioned.**  PostgreSQL runs at READ COMMITTED.  No
  query uses `FOR UPDATE`, no table has a version column, and the ORM updates a
  row by primary key only, so what was checked may be stale when it is used.
* **Only changed attributes are written.**  The ORM issues an UPDATE for an
  attribute that differs from *what was read*, which matters where the code
  assigns a constant (`is_enabled = False`, an unchanged rating).
* **A transaction is atomic.**  Uncommitted rows are invisible to the others;
  a transaction that fails or whose process stops leaves nothing behind.
* **Autoflush.**  A query flushes earlier changes of the same session, so a
  row lock can be held over several statements (`ban_user`,
  `soft_delete_user`).
* **Redis has no transactions here.**  Each command is atomic, and between two
  of them there is an `await`.  The key cache of the token check is an object
  in the memory of the process, shared by all requests without a lock.
* **The process restarts.**  `docker-compose.prod.yml:53` says `restart:
  unless-stopped`; requests in flight are lost, committed rows are not.

So a handler in flight is a record: the operation, who calls, what it is about,
how far it has come (`pc`) and what it has read (`seen`, `due`, `rating`).
Reading and checking is one action (`Load...`, `Find...`), writing and
committing another (`Commit...`, `Insert...`).  Actions of several slots of
`Handlers` interleave freely.  Authentication is an action too, because the
user row is read by a statement of its own before everything else.

## 2. Inventory

| Component | State | Operations | What is hard | What makes it correct |
|---|---|---|---|---|
| Mentorships (`services/mentorship_service.py`, `api/mentorships.py`) | row per (mentor, mentee) with a status; unique constraint on the pair | request, renew, accept, decline, end | handlers that overlap on a row; two first requests; a mentor disabled or deleted meanwhile | documented lifecycle; consent of the mentor; one row and one thread per pair |
| Message threads (`services/message_service.py`) | thread per mentorship, messages, notices of the system | send, list | a message that overlaps with the end; paging cursor | only parties write; history is kept |
| Meetings (`services/meeting_service.py`, `api/meetings.py`) | status, scheduled time, link | request, schedule, cancel, complete | overlapping schedule, cancel, complete; the clock | lifecycle; a scheduled meeting has a time; not completed early |
| Reviews (`services/review_service.py`) | one review per meeting with an edit window | create, edit | two creates; an edit late in its window | earned, unique, final in the end |
| Rating statistics (trigger of migration `0004`) | `rating_avg`, `rating_count` of the profile | recomputed by every insert or update of a review | transactions that aggregate without seeing each other | never count what is not there; exact when undisturbed; no deadlock |
| Moderation (`services/moderation_service.py`, `api/admin.py`) | `banned_at`, `deleted_at`, `is_enabled` | ban, enable/disable, delete account | two admins; autoflush locks; stale `is_enabled` | log and state agree; everything is answered |
| Reports (`services/report_service.py`, `api/reports.py`) | status, resolving admin | file, resolve, dismiss | resolve and log are two transactions | logged resolutions have happened |
| Audit log (`services/audit_log_service.py`, `db/models/audit_log.py`) | append-only rows, ordered by nothing but the time at which a transaction began | append | written with or after what it records; entries of overlapping transactions | explains the state as far as its order goes |
| Users (`services/user_service.py`) | user rows, unique `cognito_sub`, address unique among active users | provisioning on first use, profile update, soft delete | two first requests; a changed e-mail; a deleted user who returns | one row per identity, which stays; the address of the token is stored |
| Mentor profiles and embeddings (`services/mentor_service.py`, `embedding_service.py`) | profile, topics, vector | create, update, replace topics | profile and vector are separate transactions; a vector is made of what four statements read | a vector is current unless its writer was overtaken; every profile gets one |
| Recommendations (`services/recommendation_service.py`, `recommender/search.py`) | Redis entry per query | look up, search, filter, rank, store | entries older than a ban or a change; lists stored after one | nobody is shown himself or a blocked user; who is gone disappears |
| Rate limiter (`core/rate_limit.py`) | Redis counter with expiry | INCR, EXPIRE, TTL | three commands, no transaction; expiry between them | limit per window; a refused user is let in again |
| JWKS cache (`core/security.py`) | key set and its time | get, refresh | concurrent refreshes; late answers; key rotation | a published key is never refused; a withdrawn one is not kept |
| Link validation (`core/validators.py`) | none | check a URL | boundary cases of the rules | only meeting links pass |
| Message paging (`services/message_service.py:93-155`, `api/mentorships.py`) | none; a cursor the client sends back | list a page | equal and late times; two formats of the cursor | a reader gets everything once |
| Blocks (`db/models/block.py`) | rows nobody writes yet | read by the recommender | documented, but not enforced elsewhere | |
| Configuration, health, debug, start-up | none that changes | | | |
| Frontend (`src/frontend`) | query cache | poll, invalidate | | |
| Infrastructure, seed scripts | | | restart policy | |

Interactions: every endpoint authenticates through Users; deleting or banning a
user disables the profile but leaves mentorships, threads, meetings and reviews
as they are; a meeting needs an active mentorship when it is requested and at no
later time; a review fires the rating trigger in its own transaction; a
request for a mentorship reads profile and user of the mentor; the recommender
reads profiles, vectors, ratings, users and blocks, and its endpoint asks the rate
limiter first.

`PROJECT.json` lists the hazards of these components, each at the line
where it bites and with the property that would catch it.

## 3. Modules

| Module | Models | Abstract specification | Proofs |
|---|---|---|---|
| `Mentorship` | mentorship and message handlers | `MentorshipLifecycle` | `MentorshipProofs` |
| `Meetings`, `MeetingOverlap` | meeting and review handlers, clock; the same with an observer of overlaps | `MeetingLifecycle` | `MeetingsProofs` |
| `RatingTrigger` | transactions that write reviews, and the trigger | | `RatingProofs` |
| `Moderation` | bans, the mentor switch, account deletion, reports, audit log, crashes | | `ModerationProofs` |
| `RateLimit` | the three Redis commands of the limiter, the clock, lost requests | `Quota` | `RateLimitProofs` |
| `MentorProfiles` | profile, topics and vector, and the handlers that write them | | `MentorProfilesProofs` |
| `Recommendations` | cache, search, and mentors who come and go | | `RecommendationsProofs` |
| `Authentication` | key cache, rotation, provisioning of users | | `AuthenticationProofs` |
| `MessagePaging` | pages and cursors while messages are sent | | `MentorshipProofs` |
| `MCMentorship`, `MCMeetings`, `MCRatings`, `MCModeration`, `MCRateLimit`, `MCProfiles`, `MCRecommendations`, `MCAuthentication`, `MCPaging` | instances for TLC | | |

Operators called `Mutant of ...` in the comments are wrong variants of the
definition that follows them, each the form a plausible bug would take.  No
specification uses them; they show that a property can fail when the code is
wrong.

### Mentorship

| TLA+ | Code |
|---|---|
| `status[p]`, "none" without a row | `Mentorship.status` of the row with the unique pair |
| `threads`, `messages[p]` | `MessageThread`, `Message` in order of commit; notices have no sender |
| `enabled`, `deleted` | `MentorProfile.is_enabled`, `User.deleted_at` |
| `accepted` | history: the mentor accepted at least once |
| `Authenticate` | `get_or_create_user` for a known user |
| `FindMentor`, `FindExisting`, `Renew`, `Insert` | the statements of `create_mentorship` |
| `LoadX` / `CommitX` | endpoint and service of accept, decline, end, send |
| `ToggleMentor`, `DeleteUser` | effects of Moderation and Users on the rows read here; a deletion may leave the profile enabled, as a toggle that overlaps with it can undo the disabling |

`Insert` contains the unique constraint: a second first request fails and is
rolled back.  `ExclusiveSpec` is the same system under the condition that no two
requests about *one* pair are in flight together; other pairs, profiles and
users still interleave.

`MentorshipLifecycle` is the documented state machine with one indivisible step
per operation.

### Meetings

One mentorship, reduced to whether it is active, any number of meetings, and
a clock.  `reviews` is the set of review rows, so that two rows for one meeting
could exist if the constraint did not prevent it; `held` is a history variable,
the meetings completed at least once.  Scheduled times may lie in the past, since
`MeetingSchedule` does not compare them with the clock.  `CommitEdit` writes
a rating only if it differs from the one that was read.  `WindowCloses` is a
bound of the model, see below.

`ExclusiveSpec` is the system in which no two requests about one meeting are in
flight together.  `MeetingOverlap` restricts nothing: its history variable
`overlapped` remembers whether that ever happened, so that one run checks
both what holds before the first overlap (`LifecycleUntilOverlap`) and what
holds after it.

### RatingTrigger

One mentor.  A transaction writes a review row (`Write`), runs the SELECT
of the trigger (`Count`), its UPDATE (`Update`, which waits for the
profile row), and commits.  `Rollback` is possible at every point.
`Write` waits for another transaction on the same review, as the row lock
or the unique index makes it do.  `rating_avg` is NUMERIC(3,2), an integer
number of hundredths here, rounded half up; the sum of the ratings is counted
rating by rating (`Given`), there are only five of them.  `missed` and `exact` are history
variables: whose SELECT another commit has overtaken, and whether the last
commit was free of that.

### Moderation

`ban_user` and `soft_delete_user` flush the user row before they read the
profile (autoflush) and hold it until they commit: `TakeUser` waits for
`Locked`, and the ban has not looked at the user again when it gets the lock.
`Disable` writes `is_enabled` only if the profile was read as enabled.
`resolve_report` commits by itself (`CommitResolve`) and the endpoint logs
in a second transaction (`LogResolve`).  `Crash` ends every request in flight.
Order of the checks in the resolve endpoint is that of the code: the report
first, the admin second.

| TLA+ | Code |
|---|---|
| `audit[i]` | a row of `audit_log`; the index `i` is the order of commit, which is history: nothing in the table tells it |
| `created_at` of an entry | `server_default=func.now()` (`db/models/audit_log.py:84-89`): the time at which the transaction began |
| `began` of a request | when the transaction began that will log it: at the look-up of the admin for bans and toggles, after the commit of the resolution for reports |

A time is represented by the number of entries committed at that time, which
keeps all that can be said of the order of a beginning and a commit; the order
of two beginnings between the same two commits is left open, so `created_at`
of their entries counts as equal.  `After(j, i)` is what a reader of the
table can conclude: `j` began when `i` was there.

### RateLimit

One key of Redis, so one user.  `count` is its value and `ttl` its time to live
in ticks, 0 if it has none.  `Incr`, `Expire` and `Refuse` (TTL and the answer
429) are the three commands of `check_rate_limit`; `Lose` and `Fail` lose a
request after INCR or later.  Values above the limit are one value, since the
code compares the counter with 1 and the limit only.  `orphaned`, `age` and
`granted` are history variables: the EXPIRE of this key was lost; how old the
key is; how many requests were let through since INCR made it.  `Proceed`
counts where the code lets a request through, that is where `check_rate_limit`
returns.

`Quota` says what a limit promises: windows in which at most `Limit` requests
are let through, none shorter than `Window`.  `used` is mapped to `granted`, so
the counter of Redis does not occur in the mapping: that the counter keeps the
promise is what the refinement shows.  It allows two windows to follow each
other at once, so the code may let twice the limit through within a short time;
that is what a fixed window is.

### MentorProfiles

| TLA+ | Code |
|---|---|
| `profile`, `topics`, `vector` | the `mentor_profile`, `mentor_topic` and `mentor_embedding` rows of one mentor |
| `Create`, `LoadUpdate`, `CommitUpdate` | `create_mentor_profile`, `update_mentor_profile` up to the first commit |
| `LoadReplace`, `ReadRows`, `DeleteRows`, `CommitTopics`, `CommitClear` | `replace_mentor_topics` with its autoflush and its case of no ids |
| `Refresh`, `ReadTopics`, `FindVector`, `CommitVector` | `db.refresh`, `generate_mentor_embedding` and the second commit |
| `Backfill` | `scripts/backfill_embeddings.py` for this profile |
| `Conflict` | an insertion that a unique constraint refuses |

A vector is represented by the text and the topics it was computed from.
Replacing topics deletes the rows that were *read*: `rows` shrinks when
somebody else commits a deletion of them, and `Unlocked` is the row lock.
`replace_mentor_topics` and the script make the vector of the text they loaded
at the beginning, since objects keep their attributes after a commit
(`expire_on_commit=False`, `db/session.py`).  `stale`, `current` and `halfDone`
are history variables.

### Recommendations

One topic.  The cache has an entry per viewer (`Key`); a list is a set of
mentors.  `Search`, `Filter`, `Rank` and the profiles that are shown are
statements of their own in `recommend_mentors`, and only `Filter` looks at who
is enabled, gone or blocked.  Scores are floating point: the candidates and the
best of them are free choices of the right size.  `Toggle` and `Leave` stand for
`Moderation`; a ban may leave the profile enabled (section 4).

### Authentication

`Arrive`, `Fetch` and `Deliver` are `get_key` and `refresh` of the key cache.
A refresh has two steps, the answer of the provider and its arrival, because
answers of overlapping refreshes may arrive in any order and each replaces
the whole cache.  `Rotate` publishes and withdraws keys; a withdrawn key does
not return.  `LookupUser` and `CreateUser` are `get_or_create_user`: the
SELECT of an active row, and the INSERT, which both unique indexes can refuse.
A request whose row was found or made is `returned` with the address of its
token; a row that was found is never written, whatever that address is.
`Restart` empties the cache.

### MessagePaging

A message is its time and its id.  `Send` puts a message anywhere in the thread,
as `created_at` is the start of a transaction and not its commit.  `Read`
is `list_messages` of the service, called by a reader who follows its cursors;
the endpoint is asked for the newest page (`GetNewest`), for the page behind a
cursor that the service has issued (`GetNext`, the cursor of the reader), or for
what is before a plain time (`GetBefore`), the format it was written for.  The
specification is called `PagingSpec`, and its other definitions likewise, so that
`MentorshipProofs` can extend this module and `Mentorship` together.

## 4. Runs

Runs that pass:

| Run | Instance | Question |
|---|---|---|
| `mentorship_races` | one pair, two handlers, an outsider who calls everything, profile toggles and deletions | What survives every interleaving: one thread with one notice of creation, consent before activity, only parties write, nothing is lost |
| `mentorship_exclusive` | three pairs, two handlers never on one pair | Are the documented lifecycle and the legality of mentorships implemented if requests about one mentorship do not overlap? |
| `meetings_races` | one meeting, two handlers, an outsider, the clock | Is the lifecycle of meetings and reviews implemented until requests overlap?  In all behaviours: scheduled meetings have a time, reviews are earned, unique, never extended and (under fairness) final |
| `ratings` | two reviews, three transactions | How far statistics can be off, when they are exact again, that no transaction waits for ever |
| `moderation` | two admins who may ban each other, one with a profile, one report, two handlers, crashes | Are exactly the logged bans in force, does a ban leave a disabled profile alone, does the log explain the profiles although it has only times of beginning, and is every request answered? |
| `rate_limit` | three requests of one user, limit 2, window 4 | Are at most two requests let through per window (`Quota`), whatever happens between INCR, EXPIRE and TTL? Does a key always get an expiry, and does a lockout end although the user keeps trying? |
| `profiles` | one profile, two texts, two topics, two handlers | When is the vector current, and does every profile get one? |
| `recommendations` | two viewers, two mentors, one block, two requests | Who is never shown, does a mentor who is gone disappear from every answer, and can he come back? |
| `authentication` | two keys, two identities that share an address, two requests | Is a published key ever refused? Does a withdrawn key disappear, and can it come back? Do rows stay? |
| `paging` | six messages at three times, pages of one or two | Does a reader get every message once? |

Runs in which TLC refutes what the documentation says:

| Run | Says | Trace |
|---|---|---|
| `paging_endpoint` | "Use the next_cursor from the response to fetch older messages" (`api/mentorships.py:471`) | two messages are sent, the newest page with one message is asked for, and the answer is a server error: the service returns the cursor as a string `time\|id`, and the endpoint calls `isoformat` on it (line 520).  So no cursor ever reaches a client |
| `stored_email` | "Also updates email if it changed" (`services/user_service.py:50`) | the row of ann has the address x; she comes with a token with y and is returned to the endpoint with x: the branch of line 56 commits nothing and reads the row again |

What `paging_endpoint` checks is confined to the newest page and to cursors
that the service has issued.  If a client had one, the endpoint would refuse it
with `fromisoformat` (line 496, `GetNext`); a plain time passes there and is a
server error in the service, which splits a string (`message_service.py:132`,
`GetBefore`).

### Other disagreements of code and documentation

The modules state seven more properties that the documentation promises of single
operations and that TLC refutes.  No configuration lists them; each can be
checked by adding it to the one named here.  Six of them are proved under the
condition that is missing (section 5): they are wrong because requests overlap,
and for no other reason.

| Property, configuration | Says | Happens | True if |
|---|---|---|---|
| `Mentorship!AcceptFromRequested`, `mentorship_races` | accept leads from REQUESTED to ACTIVE (`api/mentorships.py:199`) | an accept that overlaps with a decline makes a DECLINED mentorship ACTIVE | requests about one mentorship do not overlap: `AcceptsRequested` |
| `Meetings!CompletedIsFinal`, `meetings_races` | nothing follows COMPLETED (`db/models/meeting.py:4`) | an overlapping cancel makes a completed meeting CANCELLED | requests about one meeting do not overlap: `CompletedStays` |
| `Meetings!CompletedInTime`, `meetings_races` | no meeting is completed before its time (`services/meeting_service.py:192`) | an overlapping second schedule moves the time after it was compared | the same: `CompletedOnTime` |
| `RatingTrigger!StatsAreCurrent`, `ratings` | statistics are the aggregates of the reviews (`db/models/mentor_profile.py:39`) | two overlapping reviews leave statistics that miss one | transactions about one mentor do not overlap: `CurrentIfAlone` |
| `Moderation!BanDisablesMentor`, `moderation` | a ban disables the mentor profile (`api/admin.py:153`) | a toggle between read and commit leaves it enabled | no admin switches the profile during the ban: `BansDisable` |
| `Moderation!LatestEntryExplains`, `moderation` | `created_at` is when the action was performed (`db/models/audit_log.py:46`), so the latest entry about a profile names its position | a toggle begins, two others are committed, DISABLE and then ENABLE, and the first then disables the profile: the entry that says so has an earlier time than ENABLE | the transaction of the entry began after the others were committed: `SeparateExplains` |
| `Moderation!ResolutionsAreLogged`, `moderation` | every resolution is logged (`db/models/audit_log.py:3`) | the process stops between the two commits | (no overlap is needed: a crash is enough) |

The same mechanism explains other overlaps that the model shows: two renewals
that are both announced, a message posted just after the end, two bans or two
resolutions that both succeed and are both logged, two toggles with the effect
of one, two replacements of topics that leave the union of both lists.

Reading the code for the models also showed, without any overlap:

* An empty list of topics deletes the topics and leaves the old vector
  (`services/mentor_service.py:110`).
* `limit` is not part of the cache key of recommendations: an entry made for
  one limit answers requests with another.
* Candidates are cut to 100 before the filter, so a viewer may be shown none
  although there are mentors further away.
* Retry-After is 1 if the key has no expiry.  After a lost EXPIRE a user stays
  locked out: this is the exception `orphaned` in the properties of `RateLimit`.

### Bounds

* Two handlers are what a race of read and write needs; the safety properties of
  the passing runs are proved for any number (section 5).
* Mentors, mentees and an outsider cover the roles the checks tell apart.
  In `mentorship_exclusive` the mentor also asks himself, and a user
  without a profile is asked.
* `MaxMessages = 3` is enough for creation, a message and a renewal notice, with
  one more from a second handler; `MaxMessages = 2` in the exclusive run, where
  no second handler adds to a thread.
* `MaxTime = 3` and `EditWindow = 1`: before, at and after a scheduled time,
  and an edit window that is open, at its end and closed.  `WindowCloses` lets
  reviews begin only when their window closes within the clock's range;
  otherwise the clock would stop with the window open, which no real clock does.
* Ratings 1 and 5: an edit can change one, and the average of two differs from
  that of one.  Three transactions compete for two reviews, so both locks are
  contended at once.
* `MaxAudit = 2`: two admin actions, each of which may overlap with the other;
  a handler that started may add one entry more, which is what a second toggle
  that began before both needs.
* `meetings_races` has one meeting, so `overlapped` becomes true with the second
  request in flight; with other requests about other meetings beside it the
  lifecycle is proved (`UntilOverlap`), not checked.
* `rate_limit`: one request makes the key, one uses up the limit of two, one is
  refused; four ticks leave room for a late EXPIRE within the window.
* `profiles`: two handlers can overtake each other, and two topics can conflict
  or unite.  A third handler would only add more of the same pairs.
* `recommendations`: ann is viewer and mentor; the mentor cy has blocked the
  viewer dan.  Limits 1 and 2 cut a list or do not; entries live for two ticks, so
  that one is read before it expires and one is replaced while it lives.
* `authentication`: two keys rotate once; three tokens move one address from
  ann to bob; `Refresh = 1` lets requests find the cache fresh, old and stale.
* `paging`: two ids at each of three times make ties at the end of a page, and a
  page of one puts the end between any two messages.

CHECK_DEADLOCK stays on in all runs: the system can always go on.

### Fairness

* `Meetings!Fairness`, in `FairWatchedSpec` of `MeetingOverlap`: the clock advances, and a handler that started is carried
  on.  No handler of this component waits for a lock that is kept, so weak
  fairness is what the event loop and the database give.  No request has to
  arrive.
* `RatingTrigger!FairSpec`: weak fairness for the statements of a transaction,
  strong fairness for the UPDATE that waits for a row lock, since PostgreSQL
  grants a lock in the order of the queue.  Neither new transactions nor
  rollbacks are fair.
* `Moderation!FairSpec`: strong fairness for each handler, for the same reason.
  Requests and crashes are not fair.
* `RateLimit!FairSpec`, `Recommendations!FairSpec`, `Authentication!FairSpec`:
  time passes, and a request that waits for Redis, the database or the provider
  goes on or fails.  Nothing makes users send requests, or stop: `RefusalsEnd`
  holds for a user who keeps trying.
* `MentorProfiles!FairSpec`: weak fairness for each handler.  The only lock is
  that of `DeleteRows` and `CommitClear`, and the handler that holds it does not wait.

## 5. Theorems

TLAPS proves all of the following for arbitrary sets of users, pairs, meetings,
reviews, keys, topics, requests and handlers, and for any limit, window and
time to live.  The only assumptions are the `ASSUME`s of the modules
(profiles and admins are users, mentor and mentee differ, ratings lie in 1..5,
the set of reviews of a mentor is finite, bounds, times and ids are natural
numbers).  Every safety property of a passing run is stated by a theorem.  For
liveness properties, which need fairness and are out of the prover's reach, the
theorems give the part that is safety: what, once reached, lasts.

**MentorshipProofs.**  The safety properties of `mentorship_races` are not
inductive: whether `CommitEnd` may write depends on what `LoadEnd` saw.
`HandlersHaveChecked` closes the gap with exactly those checks whose outcome
nobody can undo (who is party, that a row exists, that the mentor accepted once,
that the mentor has a profile).  The status that was seen is *not* among them,
which is why the violations above are possible.  From `Invariance` follow
`OneThread`, `Consent`, `PartiesOnly`, `Legality` (here even without the
restriction of the run) and `HistoryKept`.  `ExclusiveInvariance` adds that
what was seen is still current; with it every step of a handler is a step or a
stutter of the abstract machine: `Refinement`.  What the documentation says of
accept follows from the lifecycle, not from the handlers: `AcceptsRequested`.

The same module proves `MessagePaging!EveryMessageOnce` (`ReaderGetsAll`), for a
thread and pages of any size.  The invariant (`Halfway`) is that the reader has,
of the messages that were there when he began, those that are not older than
his cursor, and none of them twice.  Two lemmas carry it: messages are ordered
by time and then by id (`Order`), and a page contains every message older than
the old cursor and not older than the new one (`PageOfThread`).  That a page has
an oldest message needs induction, which the library has done: it says that the
natural numbers are well-founded, `Least` restates that, and `OldestOfPage` takes
the least time and among the messages with that time the least id.

**MeetingsProofs.**  The same pattern: `Invariance` for `TypeCorrect`,
`TimesAreSet`, `ReviewsEarned`, `ReviewsStay`.  The inductive part is that a time
once set is never unset and that a meeting once completed is remembered in
`held` even if a stale cancel overwrites its status.  `SeenCurrent` and
`Refinement` hold for `ExclusiveSpec`; their invariant adds that reviewed
meetings are completed and that the data each handler holds are current.
`UntilOverlap` says the same of all behaviours (`MeetingOverlap!WatchedSpec`): up
to the first overlap the steps of the handlers are steps of the lifecycle.  From
the lifecycle follow `CompletedStays` and `CompletedOnTime`, which the
documentation says without that restriction.  `ReviewsAreFinal` is the
safety part of `ReviewsBecomeFinal`: a review whose window is closed and that no
handler is about to edit stays as it is.

**RatingProofs.**  `TypeCorrect`: the average is on the scale from 1 to 5.
That needs no induction over the reviews because the sum counts them rating by
rating: `CountedByRating` says that the five counts add up to all reviews,
`AverageInBetween` that rounding stays between two bounds that are
integers.  `RatingIsFair` says more: if all reviews lie between two ratings,
the average does too.
`StatsBounded`: the statistics a transaction has computed are honest,
that is, they count a nonempty set of reviews that it can see, and reviews are
never withdrawn, so they stay honest while others commit.  `StatsWithReview`:
statistics change only in a commit whose review they account for.
`Undisturbed`: unless somebody committed after its SELECT, what a transaction
computed is the aggregate of what it would see now, hence a commit that was not
overtaken restores exact statistics.  `CurrentIfAlone` draws the conclusion:
without overlap nobody is overtaken, and the statistics are what the
documentation says.  `LocksExclude`: no row is written by two transactions, and
nobody who holds the profile row waits, the safety part of `TransactionsEnd`.

**ModerationProofs.**  `Invariance` for `TypeCorrect`, `BansRecorded`,
`LoggedClosed`.  The strengthening says what a handler has checked and keeps: a
ban is by an admin and of another user, a toggle that has loaded concerns a user
with a profile, a resolution about to be logged is committed.

`LogInvariance` is about the log and the profiles.  Its core (`InTime`) is
what can have become of the read of a handler: a toggle that began after the
last switch was committed has read the present position, and a ban that has
read "disabled" of a profile that is now enabled was overtaken by an entry which
says so.  From it follow `AuditExplains` (the position is named by an entry that
no other is after, and entries that do not overlap alternate), `BannedDisabled`,
and `SeparateExplains`, what the documentation says of `created_at` where it is
true.

`LocksExclude`: one handler at a time holds a user row, the
safety part of `RequestsAreAnswered`.  `BansDisable` rests on it: other bans and
deletions wait for the row while a ban holds what it read of the profile, so that
only a toggle can make it stale.

`MentorshipsAreServed` and `RecommendationsAreServed` join the modules.
`Mentorship` and `Recommendations` contain steps of others that delete
users and switch profiles; here these modules are instantiated without handlers of
their own, over the users and profiles of `Moderation`, and every behaviour of
`Moderation` is shown to be one of theirs.  What is proved of the two modules
thus does not depend on an environment that the code does not provide.  For this
`Mentorship!DeleteUser` has to allow a deletion that leaves the profile enabled:
a variant that always disables it is not what `Moderation` guarantees.

**RateLimitProofs.**  `Refinement` to `Quota`.  The invariant ties the history
to the key: a key with an expiry is at least as old as its time to live leaves, so it
cannot expire before it is `Window` old; at most one request is about to send EXPIRE, and
only for a key that has none.  `KeysDoExpire` is the second half of it.  Requests
let through are counted by the key (`GrantsAreCounted`): those that were granted,
and the one that still has to send EXPIRE, are no more than the counter shows and
no more than the limit.
`LockoutsNeverGrow`, the safety part of `RefusalsEnd`: an expiry is never moved.

**MentorProfilesProofs.**  `VectorIsCurrent` needs that a handler that is not
stale holds the current text and, once it has read them, the current topics; it
rests on every commit marking whoever holds a text.  `VectorsCome`: the
request that created a profile cannot be made to end without a vector or
`halfDone`, since a conflict of its insertion means that there is a vector.

**RecommendationsProofs.**  `OthersOnly`: every list from the filter on, in a
request or in the cache, was filtered for the viewer whose key it is stored
under.  The filter looks at enabled and gone mentors too, but that is not
invariant, which is why `GoneMentorsVanish` is a liveness property.  Its
safety part is `GoneAreHidden`, and with it `GoneForGood`: whoever is gone and in
none of the lists of a viewer, in requests from the filter on or in the cache,
stays out of them, since a list only shrinks after the filter and the filter
lets nobody pass who is gone.

**AuthenticationProofs.**  `NoFalseRefusal`: a request is refused on the answer
to its own last question, not on what others put in the cache; keys are never
published again, so a key missing from an answer that was once published is withdrawn.
`RowsRemain`: rows and deletions are never undone, however many insertions race.
`WithdrawnAreForgotten` and `ForgottenForGood` are the safety part of
`WithdrawnKeysExpire`: a withdrawn key can return only through an answer that was
given before, so it is gone when the cache and these answers have lost it.

**Only model-checked:** the liveness properties (`ReviewsBecomeFinal`,
`TransactionsEnd`, `RequestsAreAnswered`, `RefusalsEnd`, `ProfilesAreFound`,
`GoneMentorsVanish`, `WithdrawnKeysExpire`), which rest on fairness and are beyond
the prover.  The theorems above say of each what it rests on; that the state in
question is reached is what TLC shows on the instances of section 4.  What is
refuted there is refuted by TLC.

`Moderation!TypeOK`, `Authentication!TypeOK` and those of the other modules
without it in their configuration are not checked by TLC, since they are proved.

## 6. Not modelled, and why

* Listings, searches, formatting, logging: they change nothing.
* Free text, links, time zones and HTTP details: no property depends on them.
  Whether a link is accepted is a free choice.
* The display name and the avatar of a user: nothing else depends on them.
* Vectors of topics: `topic_service` can create and update topics, but no
  endpoint calls it; scripts make topics and their vectors.
* Writing blocks: no code does.
* Cosine similarity and the language models behind it: floating point and
  external.
* Loss of the database or of committed data: PostgreSQL is trusted.
* The rules for link hosts and schemes (`core/validators.py`): a pure function
  that its unit tests enumerate.
* Frontend: it keeps copies of what the backend returned, and every write is
  checked again there.  Deployment: only the restart policy matters.

## 7. Plan

Done in this order, most important first: `MentorshipLifecycle`, `Mentorship`,
`MentorshipProofs`; `MeetingLifecycle`, `Meetings`, `MeetingsProofs`;
`RatingTrigger`, `RatingProofs`; `Moderation`, `ModerationProofs`; `Quota`,
`RateLimit`, `RateLimitProofs`; `MentorProfiles`, `MentorProfilesProofs`;
`Recommendations`, `RecommendationsProofs`; `Authentication`,
`AuthenticationProofs`; `MessagePaging`, with its proof in `MentorshipProofs`; then
the theorems that join modules and those that say when the documentation is right.

Next:

1. The link rules of `core/validators.py` as operators.
2. A composition of `Mentorship` and `Meetings` (a meeting is requested only in
   an active mentorship), and of `Meetings` with `RatingTrigger`
   (only reviews of completed meetings are counted).
3. The query cache of the frontend.

Theorems worth proving next: that a list that is shown was filtered no longer
ago than the time to live of an entry and one request; that two handlers which
agree on the topics of a profile leave these topics; the safety part of
`ProfilesAreFound` beyond `VectorsCome`.
