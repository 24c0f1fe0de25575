--------------------------- MODULE RatingTrigger ---------------------------
(***************************************************************************)
(* The rating of a mentor, which the database trigger                      *)
(* update_mentor_rating_stats recomputes whenever a review of one of his   *)
(* meetings is inserted or updated (migration 0004).                       *)
(*                                                                         *)
(* A transaction writes one review.  The trigger then runs two statements  *)
(* inside that transaction: a SELECT over all reviews of the mentor and an *)
(* UPDATE of his profile with the result.  At READ COMMITTED the SELECT    *)
(* sees what is committed when it starts, and the review of its own        *)
(* transaction; it takes no lock.  The UPDATE waits for the row lock of a  *)
(* transaction that has already written the profile.  Two transactions     *)
(* that write one review wait for each other in the same way, an insert    *)
(* at the unique index on meeting_id.                                      *)
(***************************************************************************)
EXTENDS Integers, FiniteSets

CONSTANTS
    Reviews,      \* the reviews of one mentor, at most one for each meeting
    Ratings,      \* 1 .. 5 in the code
    Transactions  \* database sessions that write reviews

ASSUME ReviewsAssumption == IsFiniteSet(Reviews)
ASSUME RatingsAssumption == Ratings \subseteq 1 .. 5

VARIABLES
    rating,   \* rating[r]: the committed review r, 0 if there is no row
    profile,  \* committed rating_avg and rating_count of the mentor profile
    txn,      \* txn[t]: what transaction t has done so far
    missed,   \* history: transactions whose SELECT came before the commit
              \* of another one
    exact     \* history: the last commit was not of such a transaction

vars == <<rating, profile, txn, missed, exact>>
history == <<missed, exact>>

\* The review row is written, the SELECT of the trigger has run, and the
\* profile row is written; the next step is the commit.
Progress == {"written", "counted", "updated"}

\* A mentor without reviews; rating_avg is NULL then.
NoStats == [avg |-> 0, count |-> 0]

\* rating_avg is a NUMERIC(3,2), counted in hundredths here.
Stats == [avg : 100 .. 500, count : 1 .. Cardinality(Reviews)] \cup {NoStats}

Transaction == [review : Reviews, rating : Ratings,
                pc : Progress, stats : Stats]

Idle == [pc |-> "idle"]

Written(f) == {r \in Reviews : f[r] # 0}

\* SUM(rating) of the reviews that f contains: how many there are of each
\* rating, times that rating.
Given(f, v) == Cardinality({r \in Reviews : f[r] = v})

Sum(f) == Given(f, 1) + 2 * Given(f, 2) + 3 * Given(f, 3)
          + 4 * Given(f, 4) + 5 * Given(f, 5)

\* AVG(rating)::NUMERIC(3,2), rounded half up.
Average(sum, count) == (200 * sum + count) \div (2 * count)

\* Mutant of Aggregate: the sum of the ratings instead of their average.
AggregateSum(f) ==
    LET count == Cardinality(Written(f)) IN
    IF count = 0 THEN NoStats
    ELSE [avg |-> 100 * Sum(f), count |-> count]

\* The two aggregates of the SELECT over the reviews that f contains.
Aggregate(f) ==
    LET count == Cardinality(Written(f)) IN
    IF count = 0 THEN NoStats
    ELSE [avg |-> Average(Sum(f), count), count |-> count]

TypeOK ==
    /\ rating \in [Reviews -> Ratings \cup {0}]
    /\ profile \in Stats
    /\ txn \in [Transactions -> Transaction \cup {Idle}]
    /\ missed \subseteq Transactions
    /\ exact \in BOOLEAN

Init ==
    /\ rating = [r \in Reviews |-> 0]
    /\ profile = NoStats
    /\ txn = [t \in Transactions |-> Idle]
    /\ missed = {}
    /\ exact = TRUE

-----------------------------------------------------------------------------
At(t, pc) == txn[t].pc = pc

\* What the statements of t see of the reviews.
Visible(t) == [rating EXCEPT ![txn[t].review] = txn[t].rating]

\* t inserts review r, or updates it if it exists.
Write(t, r, v) ==
    /\ At(t, "idle")
    /\ \A s \in Transactions : ~At(s, "idle") => txn[s].review # r
    /\ txn' = [txn EXCEPT ![t] = [review |-> r, rating |-> v,
                                  pc |-> "written", stats |-> NoStats]]
    /\ UNCHANGED <<rating, profile, history>>

\* Mutant of Count: the trigger runs before the row is there.
CountBefore(t) ==
    /\ At(t, "written")
    /\ txn' = [txn EXCEPT ![t].pc = "counted", ![t].stats = Aggregate(rating)]
    /\ UNCHANGED <<rating, profile, history>>

\* Mutant of Count: the trigger adds the new review to the statistics.
CountIncrement(t) ==
    /\ At(t, "written")
    /\ txn' = [txn EXCEPT ![t].pc = "counted",
           ![t].stats = [avg |-> Aggregate(Visible(t)).avg,
                         count |-> profile.count + 1]]
    /\ UNCHANGED <<rating, profile, history>>

\* SELECT AVG, COUNT ... INTO
Count(t) ==
    /\ At(t, "written")
    /\ txn' = [txn EXCEPT ![t].pc = "counted",
                          ![t].stats = Aggregate(Visible(t))]
    /\ UNCHANGED <<rating, profile, history>>

\* Mutant of Update: the new statistics are committed by themselves.
UpdateAtOnce(t) ==
    /\ At(t, "counted")
    /\ \A s \in Transactions : ~At(s, "updated")
    /\ profile' = txn[t].stats
    /\ txn' = [txn EXCEPT ![t].pc = "updated"]
    /\ UNCHANGED <<rating, history>>

\* Mutant of Update: table review is locked against all other writers first.
UpdateTableLock(t) ==
    /\ At(t, "counted")
    /\ \A s \in Transactions \ {t} : At(s, "idle")
    /\ txn' = [txn EXCEPT ![t].pc = "updated"]
    /\ UNCHANGED <<rating, profile, history>>

\* UPDATE mentor_profile, which nobody else has written and not committed.
Update(t) ==
    /\ At(t, "counted")
    /\ \A s \in Transactions : ~At(s, "updated")
    /\ txn' = [txn EXCEPT ![t].pc = "updated"]
    /\ UNCHANGED <<rating, profile, history>>

\* The SELECT of t has run.
Counted(t) == At(t, "counted") \/ At(t, "updated")

Commit(t) ==
    /\ At(t, "updated")
    /\ rating' = Visible(t)
    /\ profile' = txn[t].stats
    /\ txn' = [txn EXCEPT ![t] = Idle]
    /\ missed' = {s \in Transactions \ {t} : s \in missed \/ Counted(s)}
    /\ exact' = (t \notin missed)

\* The process stops or the connection is lost: the transaction is rolled
\* back and leaves neither a review nor statistics behind.
Rollback(t) ==
    /\ ~At(t, "idle")
    /\ txn' = [txn EXCEPT ![t] = Idle]
    /\ missed' = missed \ {t}
    /\ UNCHANGED <<rating, profile, exact>>

Begin(t) == \E r \in Reviews, v \in Ratings : Write(t, r, v)

Next == \E t \in Transactions :
            Begin(t) \/ Count(t) \/ Update(t) \/ Commit(t) \/ Rollback(t)

Spec == Init /\ [][Next]_vars

\* PostgreSQL carries out the statements of a transaction, and grants a row
\* lock to those who wait for it in the order in which they came, so that an
\* UPDATE which can go on again and again does go on.
Fairness == \A t \in Transactions :
                /\ WF_vars(Count(t))
                /\ SF_vars(Update(t))
                /\ WF_vars(Commit(t))

FairSpec == Spec /\ Fairness

-----------------------------------------------------------------------------
(* Properties of every interleaving.                                       *)

\* Transactions that overlap may leave statistics that miss reviews, but
\* never some that count a review nobody has committed, and never a mentor
\* with reviews who is shown as unrated (rating_count = 0).
StatsAreBounded ==
    /\ profile.count <= Cardinality(Written(rating))
    /\ profile.count = 0 <=> Written(rating) = {}

\* The statistics and the review that caused them are committed together:
\* the committed statistics never change without a committed review that
\* they account for.
StatsComeWithReview ==
    [][profile' # profile =>
           \E t \in Transactions :
               /\ ~At(t, "idle")
               /\ rating'[txn[t].review] = txn[t].rating
               /\ profile'.count >= 1]_vars

\* No transaction waits for ever: review rows are locked before the profile
\* row, so that no two transactions wait for each other.
TransactionsEnd ==
    \A t \in Transactions : ~At(t, "idle") ~> At(t, "idle")

\* A loss is not for ever: as soon as one review is written and nobody else
\* commits between its SELECT and its commit, the statistics are exact again,
\* whatever was lost before.
UndisturbedIsExact == exact => profile = Aggregate(rating)

-----------------------------------------------------------------------------
(* What the documentation says.                                            *)

\* models/mentor_profile.py lines 9 and 39-40: rating_avg and rating_count
\* are "computed by trigger"; migration 0004: the trigger "recalculates
\* rating_avg and rating_count for a mentor whenever a review is inserted or
\* updated".
StatsAreCurrent == profile = Aggregate(rating)
=============================================================================
