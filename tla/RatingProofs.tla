---------------------------- MODULE RatingProofs ----------------------------
(***************************************************************************)
(* Proofs about module RatingTrigger, for any number of reviews and        *)
(* transactions.                                                           *)
(***************************************************************************)
EXTENDS RatingTrigger, FiniteSetTheorems, TLAPS

Row == [Reviews -> Ratings \cup {0}]

\* Which row every transaction writes; its statistics are left open.
Shape ==
    /\ rating \in Row
    /\ DOMAIN txn = Transactions
    /\ \A t \in Transactions :
           \/ txn[t] = Idle
           \/ txn[t] \in [review : Reviews, rating : Ratings,
                          pc : Progress, stats : {txn[t].stats}]

\* The statistics of t count some of the reviews t can see, and at least one.
Honest(t) ==
    \E S \in SUBSET Written(Visible(t)) :
        S # {} /\ txn[t].stats.count = Cardinality(S)

Inv ==
    /\ Shape
    /\ \A t \in Transactions : Counted(t) => Honest(t)
    /\ StatsAreBounded

\* COUNT(r.id) counts the reviews there are.
LEMMA CountIsCardinality ==
    ASSUME NEW f PROVE Aggregate(f).count = Cardinality(Written(f))
  BY DEF Aggregate, NoStats

\* Sets of reviews are finite.
LEMMA Finite ==
    ASSUME NEW S \in SUBSET Reviews
    PROVE  /\ IsFiniteSet(S)
           /\ Cardinality(S) \in Nat
           /\ Cardinality(S) = 0 <=> S = {}
           /\ \A T \in SUBSET S : Cardinality(T) <= Cardinality(S)
  BY FS_Subset, FS_CardinalityType, FS_EmptySet, ReviewsAssumption

\* The own review of t is among those t can see.
LEMMA OwnReview ==
    ASSUME Shape, NEW t \in Transactions, ~At(t, "idle")
    PROVE  /\ Visible(t) \in Row
           /\ Visible(t)[txn[t].review] = txn[t].rating
           /\ txn[t].review \in Written(Visible(t))
           /\ Written(rating) \subseteq Written(Visible(t))
           /\ Written(Visible(t)) \subseteq Reviews
  BY RatingsAssumption DEF Shape, Visible, Row, Written, At, Idle

-----------------------------------------------------------------------------
(* The aggregates.                                                         *)

\* Disjoint sets of reviews are counted one after the other.
LEMMA CountTogether ==
    ASSUME NEW S \in SUBSET Reviews, NEW T \in SUBSET Reviews, S \cap T = {}
    PROVE  Cardinality(S \cup T) = Cardinality(S) + Cardinality(T)
  BY Finite, FS_Union, FS_EmptySet

\* A review has one of five ratings: counting reviews by their rating counts
\* every review once.
LEMMA CountedByRating ==
    ASSUME NEW f \in Row
    PROVE  /\ \A v \in 1 .. 5 : Given(f, v) \in Nat
           /\ Cardinality(Written(f)) =
                  Given(f, 1) + Given(f, 2) + Given(f, 3) + Given(f, 4)
                  + Given(f, 5)
<1>1. \A v \in 1 .. 5 : Given(f, v) \in Nat
  BY Finite DEF Given
<1> DEFINE A == {r \in Reviews : f[r] = 1}
           B == {r \in Reviews : f[r] = 2}
           C == {r \in Reviews : f[r] = 3}
           D == {r \in Reviews : f[r] = 4}
           E == {r \in Reviews : f[r] = 5}
<1>2. /\ Given(f, 1) = Cardinality(A) /\ Given(f, 2) = Cardinality(B)
      /\ Given(f, 3) = Cardinality(C) /\ Given(f, 4) = Cardinality(D)
      /\ Given(f, 5) = Cardinality(E)
  BY DEF Given
<1>3. Written(f) = (((A \cup B) \cup C) \cup D) \cup E
  <2>1. ASSUME NEW r \in Reviews PROVE f[r] \in {0, 1, 2, 3, 4, 5}
    <3>1. f[r] \in (1 .. 5) \cup {0}
      BY RatingsAssumption DEF Row
    <3> QED
      BY <3>1
  <2> QED
    BY <2>1 DEF Written
<1>4. /\ A \cap B = {} /\ (A \cup B) \cap C = {}
      /\ ((A \cup B) \cup C) \cap D = {}
      /\ (((A \cup B) \cup C) \cup D) \cap E = {}
  OBVIOUS
<1>5. /\ A \in SUBSET Reviews /\ B \in SUBSET Reviews /\ C \in SUBSET Reviews
      /\ D \in SUBSET Reviews /\ E \in SUBSET Reviews
  OBVIOUS
<1> HIDE DEF A, B, C, D, E
<1>6. Cardinality(A \cup B) = Cardinality(A) + Cardinality(B)
  BY <1>4, <1>5, CountTogether
<1>7. Cardinality((A \cup B) \cup C) = Cardinality(A \cup B) + Cardinality(C)
  BY <1>4, <1>5, CountTogether
<1>8. Cardinality(((A \cup B) \cup C) \cup D) =
          Cardinality((A \cup B) \cup C) + Cardinality(D)
  BY <1>4, <1>5, CountTogether
<1>9. Cardinality((((A \cup B) \cup C) \cup D) \cup E) =
          Cardinality(((A \cup B) \cup C) \cup D) + Cardinality(E)
  BY <1>4, <1>5, CountTogether
<1> QED
  BY <1>1, <1>2, <1>3, <1>6, <1>7, <1>8, <1>9

\* Rounded half up, an average of n numbers from lo to hi lies between them.
LEMMA AverageInBetween ==
    ASSUME NEW n \in Nat \ {0}, NEW sum \in Nat,
           NEW lo \in 1 .. 5, NEW hi \in 1 .. 5,
           lo * n <= sum, sum <= hi * n
    PROVE  Average(sum, n) \in (100 * lo) .. (100 * hi)
<1> DEFINE q == (200 * sum + n) \div (2 * n)
<1>1. /\ q \in Int
      /\ (2 * n) * q <= 200 * sum + n
      /\ 200 * sum + n < (2 * n) * q + 2 * n
  OBVIOUS
<1> HIDE DEF q
<1>2. q <= 100 * hi
  <2> SUFFICES ASSUME q >= 100 * hi + 1 PROVE FALSE
    BY <1>1
  <2>1. (2 * n) * q >= (2 * n) * (100 * hi + 1)
    BY <1>1
  <2>2. (2 * n) * (100 * hi + 1) = 200 * (hi * n) + 2 * n
    OBVIOUS
  <2> QED
    BY <1>1, <2>1, <2>2
<1>3. q >= 100 * lo
  <2> SUFFICES ASSUME q + 1 <= 100 * lo PROVE FALSE
    BY <1>1
  <2>1. (2 * n) * (q + 1) <= (2 * n) * (100 * lo)
    BY <1>1
  <2>2. /\ (2 * n) * (100 * lo) = 200 * (lo * n)
        /\ (2 * n) * (q + 1) = (2 * n) * q + 2 * n
    BY <1>1
  <2> QED
    BY <1>1, <2>1, <2>2
<1> QED
  BY <1>1, <1>2, <1>3 DEF Average, q

\* The average of some reviews is not lower than the lowest of them and not
\* higher than the highest.
LEMMA AggregateInBetween ==
    ASSUME NEW f \in Row, Written(f) # {},
           NEW lo \in 1 .. 5, NEW hi \in 1 .. 5,
           \A r \in Written(f) : lo <= f[r] /\ f[r] <= hi
    PROVE  /\ Aggregate(f).avg \in (100 * lo) .. (100 * hi)
           /\ Aggregate(f).count \in 1 .. Cardinality(Reviews)
           /\ Aggregate(f) = [avg |-> Aggregate(f).avg,
                              count |-> Aggregate(f).count]
<1> DEFINE n == Cardinality(Written(f))
<1>1. n \in Nat \ {0} /\ n <= Cardinality(Reviews)
  <2>1. Written(f) \in SUBSET Reviews /\ Reviews \in SUBSET Reviews
    BY DEF Written
  <2> QED
    BY <2>1, Finite
<1>2. \A v \in 1 .. 5 : v < lo \/ hi < v => Given(f, v) = 0
  <2> SUFFICES ASSUME NEW v \in 1 .. 5, v < lo \/ hi < v
               PROVE  Given(f, v) = 0
    OBVIOUS
  <2>1. {r \in Reviews : f[r] = v} = {}
    BY DEF Written
  <2> QED
    BY <2>1, FS_EmptySet DEF Given
<1>3. lo * n <= Sum(f) /\ Sum(f) <= hi * n /\ Sum(f) \in Nat
  <2>1. /\ Given(f, 1) \in Nat /\ Given(f, 2) \in Nat /\ Given(f, 3) \in Nat
        /\ Given(f, 4) \in Nat /\ Given(f, 5) \in Nat
        /\ n = Given(f, 1) + Given(f, 2) + Given(f, 3) + Given(f, 4)
               + Given(f, 5)
    BY CountedByRating
  <2> HIDE DEF n
  <2>2. lo * n <= Sum(f)
    <3>1. CASE lo = 1
      BY <2>1, <3>1 DEF Sum
    <3>2. CASE lo = 2
      <4>1. Given(f, 1) = 0
        BY <1>2, <3>2
      <4> QED
        BY <2>1, <3>2, <4>1 DEF Sum
    <3>3. CASE lo = 3
      <4>1. Given(f, 1) = 0 /\ Given(f, 2) = 0
        BY <1>2, <3>3
      <4> QED
        BY <2>1, <3>3, <4>1 DEF Sum
    <3>4. CASE lo = 4
      <4>1. Given(f, 1) = 0 /\ Given(f, 2) = 0 /\ Given(f, 3) = 0
        BY <1>2, <3>4
      <4> QED
        BY <2>1, <3>4, <4>1 DEF Sum
    <3>5. CASE lo = 5
      <4>1. /\ Given(f, 1) = 0 /\ Given(f, 2) = 0 /\ Given(f, 3) = 0
            /\ Given(f, 4) = 0
        BY <1>2, <3>5
      <4> QED
        BY <2>1, <3>5, <4>1 DEF Sum
    <3> QED
      BY <3>1, <3>2, <3>3, <3>4, <3>5
  <2>3. Sum(f) <= hi * n
    <3>1. CASE hi = 1
      <4>1. /\ Given(f, 2) = 0 /\ Given(f, 3) = 0 /\ Given(f, 4) = 0
            /\ Given(f, 5) = 0
        BY <1>2, <3>1
      <4> QED
        BY <2>1, <3>1, <4>1 DEF Sum
    <3>2. CASE hi = 2
      <4>1. Given(f, 3) = 0 /\ Given(f, 4) = 0 /\ Given(f, 5) = 0
        BY <1>2, <3>2
      <4> QED
        BY <2>1, <3>2, <4>1 DEF Sum
    <3>3. CASE hi = 3
      <4>1. Given(f, 4) = 0 /\ Given(f, 5) = 0
        BY <1>2, <3>3
      <4> QED
        BY <2>1, <3>3, <4>1 DEF Sum
    <3>4. CASE hi = 4
      <4>1. Given(f, 5) = 0
        BY <1>2, <3>4
      <4> QED
        BY <2>1, <3>4, <4>1 DEF Sum
    <3>5. CASE hi = 5
      BY <2>1, <3>5 DEF Sum
    <3> QED
      BY <3>1, <3>2, <3>3, <3>4, <3>5
  <2> QED
    BY <2>1, <2>2, <2>3 DEF Sum
<1>4. Aggregate(f) = [avg |-> Average(Sum(f), n), count |-> n]
  BY <1>1 DEF Aggregate
<1> HIDE DEF n
<1>5. Average(Sum(f), n) \in (100 * lo) .. (100 * hi)
  BY <1>1, <1>3, AverageInBetween
<1> QED
  BY <1>1, <1>4, <1>5, Finite

\* Transactions touch nothing but themselves before they commit.
LEMMA ShapeKept ==
    ASSUME Shape, [Next]_vars
    PROVE  /\ Shape'
           /\ Written(rating) \subseteq Written(rating')
<1>1. ASSUME NEW t \in Transactions, NEW r \in Reviews, NEW v \in Ratings,
             Write(t, r, v)
      PROVE  Shape' /\ rating' = rating
  BY <1>1 DEF Write, Shape, At, Progress
<1>2. ASSUME NEW t \in Transactions, Count(t) \/ Update(t)
      PROVE  Shape' /\ rating' = rating
  <2>1. CASE Count(t)
    <3>1. txn[t] \in [review : Reviews, rating : Ratings,
                      pc : Progress, stats : {txn[t].stats}]
      BY <2>1 DEF Count, Shape, At, Idle
    <3>2. PICK new : txn' = [txn EXCEPT ![t].pc = "counted", ![t].stats = new]
      BY <2>1 DEF Count
    <3>3. txn'[t] \in [review : Reviews, rating : Ratings,
                       pc : Progress, stats : {txn'[t].stats}]
      BY <3>1, <3>2 DEF Shape, Progress
    <3> QED
      BY <2>1, <3>2, <3>3 DEF Count, Shape
  <2>2. CASE Update(t)
    BY <2>2 DEF Update, Shape, At, Progress, Idle
  <2> QED
    BY <1>2, <2>1, <2>2
<1>3. ASSUME NEW t \in Transactions, Commit(t)
      PROVE  /\ Shape'
             /\ Written(rating) \subseteq Written(rating')
  <2>1. ~At(t, "idle") /\ rating' = Visible(t)
    BY <1>3 DEF Commit, At
  <2> QED
    BY <1>3, <2>1, OwnReview DEF Commit, Shape, At, Idle
<1>4. ASSUME NEW t \in Transactions, Rollback(t)
      PROVE  Shape' /\ rating' = rating
  BY <1>4 DEF Rollback, Shape, At, Idle
<1>5. UNCHANGED vars => Shape' /\ rating' = rating
  BY DEF vars, Shape, At
<1> QED
  BY <1>1, <1>2, <1>3, <1>4, <1>5 DEF Next, Begin

\* Statistics stay honest while other transactions commit: reviews are only
\* added to those that a transaction can see.
LEMMA HonestKept ==
    ASSUME Shape, Shape', Written(rating) \subseteq Written(rating'),
           NEW t \in Transactions, txn'[t] = txn[t],
           ~At(t, "idle"), Honest(t)
    PROVE  Honest(t)'
<1>1. Written(Visible(t)) \subseteq Written(Visible(t)')
  BY RatingsAssumption DEF Shape, Visible, Written, Row
<1> QED
  BY <1>1 DEF Honest

\* Inv holds in every interleaving of any number of transactions.
THEOREM Bounded == Spec => []Inv
<1>1. Init => Inv
  <2> SUFFICES ASSUME Init PROVE Inv
    OBVIOUS
  <2>1. Written(rating) = {}
    BY DEF Init, Written
  <2>2. StatsAreBounded
    BY <2>1, FS_EmptySet DEF Init, StatsAreBounded, NoStats
  <2> QED
    BY <2>2 DEF Init, Inv, Shape, Row, At, Idle, Counted
<1>2. Inv /\ [Next]_vars => Inv'
  <2> SUFFICES ASSUME Inv, [Next]_vars PROVE Inv'
    OBVIOUS
  <2>1. Shape' /\ Written(rating) \subseteq Written(rating')
    BY ShapeKept DEF Inv
  <2>2. ASSUME NEW t \in Transactions, Counted(t)' PROVE Honest(t)'
    <3>1. CASE txn'[t] = txn[t]
      <4>1. ~At(t, "idle") /\ Counted(t)
        BY <2>2, <3>1 DEF Counted, At
      <4> QED
        BY <3>1, <4>1, <2>1, HonestKept DEF Inv
    <3>2. CASE Count(t)
      <4>1. ~At(t, "idle")
        BY <3>2 DEF Count, At
      <4>2. /\ rating' = rating
            /\ Visible(t)' = Visible(t)
            /\ txn'[t].stats = Aggregate(Visible(t))
        BY <3>2 DEF Inv, Shape, Count, Visible
      <4>3. Written(Visible(t)) # {}
        BY <4>1, OwnReview DEF Inv
      <4> QED
        BY <4>2, <4>3, CountIsCardinality DEF Honest
    <3>3. CASE Update(t)
      <4>1. Counted(t) /\ ~At(t, "idle")
        BY <3>3 DEF Update, Counted, At
      <4>2. Visible(t)' = Visible(t) /\ txn'[t].stats = txn[t].stats
        BY <3>3 DEF Inv, Shape, Update, Visible
      <4> QED
        BY <4>1, <4>2 DEF Inv, Honest
    <3>4. ASSUME txn'[t] # txn[t] PROVE Count(t) \/ Update(t)
      <4>1. PICK s \in Transactions :
                \/ Begin(s) \/ Count(s) \/ Update(s) \/ Commit(s)
                \/ Rollback(s)
        BY <3>4 DEF Next, vars
      <4>2. s = t
        BY <3>4, <4>1 DEF Begin, Write, Count, Update, Commit, Rollback, Inv,
           Shape
      <4> QED
        BY <4>1, <4>2, <2>2 DEF Begin, Write, Commit, Rollback, Counted, At,
           Idle, Inv, Shape
    <3> QED
      BY <3>1, <3>2, <3>3, <3>4
  <2>3. StatsAreBounded'
    <3>1. CASE UNCHANGED <<rating, profile>>
      BY <3>1 DEF Inv, StatsAreBounded, Written
    <3>2. ASSUME NEW t \in Transactions, Commit(t) PROVE StatsAreBounded'
      <4>1. ~At(t, "idle") /\ Counted(t)
        BY <3>2 DEF Commit, Counted, At
      <4>2. rating' = Visible(t) /\ profile' = txn[t].stats
        BY <3>2 DEF Commit
      <4>3. PICK S \in SUBSET Written(Visible(t)) :
                S # {} /\ txn[t].stats.count = Cardinality(S)
        BY <4>1 DEF Inv, Honest
      <4>4. Written(Visible(t)) \in SUBSET Reviews
        BY DEF Written
      <4>5. /\ Cardinality(S) <= Cardinality(Written(Visible(t)))
            /\ Cardinality(S) # 0
        BY <4>3, <4>4, Finite
      <4> QED
        BY <4>2, <4>3, <4>5 DEF StatsAreBounded
    <3> QED
      BY <3>1, <3>2 DEF Next, Begin, Write, Count, Update, Rollback, vars
  <2> QED
    BY <2>1, <2>2, <2>3 DEF Inv
<1> QED
  BY <1>1, <1>2, PTL DEF Spec

\* However many transactions overlap, a rating counts only reviews that are
\* committed, and every mentor with a review has a rating.
THEOREM StatsBounded == Spec => []StatsAreBounded
<1>1. Inv => StatsAreBounded
  BY DEF Inv
<1> QED
  BY <1>1, Bounded, PTL

\* Committed statistics change only together with a review they count.
THEOREM StatsWithReview == Spec => StatsComeWithReview
<1>1. ASSUME Inv, [Next]_vars, profile' # profile
      PROVE  \E t \in Transactions :
                 /\ ~At(t, "idle")
                 /\ rating'[txn[t].review] = txn[t].rating
                 /\ profile'.count >= 1
  <2>1. PICK t \in Transactions : Commit(t)
    BY <1>1 DEF Next, Begin, Write, Count, Update, Rollback, vars
  <2>2. ~At(t, "idle") /\ Counted(t)
    BY <2>1 DEF Commit, Counted, At
  <2>3. PICK S \in SUBSET Written(Visible(t)) :
            S # {} /\ txn[t].stats.count = Cardinality(S)
    BY <1>1, <2>2 DEF Inv, Honest
  <2>4. S \in SUBSET Reviews
    BY <2>3 DEF Written
  <2>5. profile'.count >= 1
    BY <2>1, <2>3, <2>4, Finite DEF Commit
  <2> QED
    BY <1>1, <2>1, <2>2, <2>5, OwnReview DEF Commit, Inv
<1> QED
  BY <1>1, Bounded, PTL DEF Spec, StatsComeWithReview

-----------------------------------------------------------------------------
(* Statistics that no other commit has disturbed.                          *)

\* Unless somebody committed after its SELECT, what a transaction has
\* computed is still the aggregate of the reviews it would see now.
Fresh ==
    \A t \in Transactions : Counted(t) =>
        t \in missed \/ txn[t].stats = Aggregate(Visible(t))

ExactInv == Shape /\ Fresh /\ UndisturbedIsExact

\* The documented meaning of the rating is restored by every transaction
\* during which no other one commits, whatever happened before.
THEOREM Undisturbed == Spec => []UndisturbedIsExact
<1>1. Init => ExactInv
  <2> SUFFICES ASSUME Init PROVE ExactInv
    OBVIOUS
  <2>1. Written(rating) = {}
    BY DEF Init, Written
  <2>2. UndisturbedIsExact
    BY <2>1, FS_EmptySet DEF Init, UndisturbedIsExact, Aggregate, NoStats
  <2> QED
    BY <2>2 DEF Init, ExactInv, Shape, Row, At, Idle, Counted, Fresh
<1>2. ExactInv /\ [Next]_vars => ExactInv'
  <2> SUFFICES ASSUME ExactInv, [Next]_vars PROVE ExactInv'
    OBVIOUS
  <2>1. Shape'
    BY ShapeKept DEF ExactInv
  <2>2. CASE UNCHANGED vars
    BY <2>1, <2>2 DEF ExactInv, Fresh, UndisturbedIsExact, Counted, At, Visible,
       vars
  <2>3. ASSUME NEW t \in Transactions,
               Begin(t) \/ Count(t) \/ Update(t) \/ Rollback(t)
        PROVE  Fresh' /\ UndisturbedIsExact'
    <3>1. /\ rating' = rating /\ profile' = profile /\ exact' = exact
          /\ missed \ {t} \subseteq missed'
      BY <2>3 DEF Begin, Write, Count, Update, Rollback, history
    <3>2. \A s \in Transactions : s # t => txn'[s] = txn[s]
      BY <2>3 DEF Begin, Write, Count, Update, Rollback, ExactInv, Shape
    <3>3. ASSUME Counted(t)'
          PROVE  t \in missed' \/ txn'[t].stats = Aggregate(Visible(t)')
      <4>1. CASE Begin(t) \/ Rollback(t)
        BY <3>3, <4>1 DEF Begin, Write, Rollback, Counted, At, Idle,
           ExactInv, Shape
      <4>2. CASE Count(t)
        <5>1. txn[t] \in [review : Reviews, rating : Ratings,
                          pc : Progress, stats : {txn[t].stats}]
          BY <4>2 DEF Count, ExactInv, Shape, At, Idle
        <5>2. Visible(t)' = Visible(t)
          BY <3>1, <4>2, <5>1 DEF Count, Visible, ExactInv, Shape
        <5> QED
          BY <4>2, <5>1, <5>2 DEF Count, ExactInv, Shape
      <4>3. CASE Update(t)
        <5>1. txn[t] \in [review : Reviews, rating : Ratings,
                          pc : Progress, stats : {txn[t].stats}]
          BY <4>3 DEF Update, ExactInv, Shape, At, Idle
        <5>2. Visible(t)' = Visible(t) /\ txn'[t].stats = txn[t].stats
          BY <3>1, <4>3, <5>1 DEF Update, Visible, ExactInv, Shape
        <5>3. Counted(t) /\ missed' = missed
          BY <4>3 DEF Update, Counted, history
        <5> QED
          BY <5>2, <5>3 DEF ExactInv, Fresh
      <4> QED
        BY <2>3, <4>1, <4>2, <4>3
    <3>4. Fresh'
      BY <3>1, <3>2, <3>3 DEF ExactInv, Fresh, Counted, At, Visible
    <3> QED
      BY <3>1, <3>4 DEF ExactInv, UndisturbedIsExact
  <2>4. ASSUME NEW t \in Transactions, Commit(t)
        PROVE  Fresh' /\ UndisturbedIsExact'
    <3>1. ~At(t, "idle") /\ Counted(t)
      BY <2>4 DEF Commit, Counted, At
    <3>2. UndisturbedIsExact'
      BY <2>4, <3>1 DEF Commit, ExactInv, Fresh, UndisturbedIsExact
    <3>3. ASSUME NEW s \in Transactions, Counted(s)' PROVE s \in missed'
      <4>1. s # t
        BY <2>4, <3>3 DEF Commit, Counted, At, Idle, ExactInv, Shape
      <4>2. Counted(s)
        BY <2>4, <3>3, <4>1 DEF Commit, Counted, At, ExactInv, Shape
      <4> QED
        BY <2>4, <4>1, <4>2 DEF Commit
    <3> QED
      BY <3>2, <3>3 DEF Fresh
  <2> QED
    BY <2>1, <2>2, <2>3, <2>4 DEF Next, ExactInv
<1>3. ExactInv => UndisturbedIsExact
  BY DEF ExactInv
<1> QED
  BY <1>1, <1>2, <1>3, PTL DEF Spec
-----------------------------------------------------------------------------
(* Ratings stay on the scale, and what they say is fair.                   *)

\* The trigger computes statistics that fit their columns.
LEMMA AggregateType == ASSUME NEW f \in Row PROVE Aggregate(f) \in Stats
<1>1. CASE Written(f) = {}
  BY <1>1, FS_EmptySet DEF Aggregate, Stats
<1>2. CASE Written(f) # {}
  <2>1. ASSUME NEW r \in Written(f) PROVE 1 <= f[r] /\ f[r] <= 5
    <3>1. f[r] # 0 /\ f[r] \in (1 .. 5) \cup {0}
      BY RatingsAssumption DEF Row, Written
    <3> HIDE DEF Written
    <3> QED
      BY <3>1
  <2>2. /\ Aggregate(f).avg \in (100 * 1) .. (100 * 5)
        /\ Aggregate(f).count \in 1 .. Cardinality(Reviews)
        /\ Aggregate(f) = [avg |-> Aggregate(f).avg,
                           count |-> Aggregate(f).count]
    BY <1>2, <2>1, AggregateInBetween
  <2> DEFINE a == Aggregate(f).avg
             c == Aggregate(f).count
  <2>3. a \in 100 .. 500 /\ c \in 1 .. Cardinality(Reviews)
    BY <2>2
  <2>4. Aggregate(f) = [avg |-> a, count |-> c]
    BY <2>2
  <2> HIDE DEF a, c
  <2> QED
    BY <2>3, <2>4 DEF Stats
<1> QED
  BY <1>1, <1>2

\* Rows, statistics and transactions keep their types; the average of a mentor
\* who has one is never below 1 or above 5, however reviews overlap.
THEOREM TypeCorrect == Spec => []TypeOK
<1>1. Init => TypeOK
  BY DEF Init, TypeOK, Stats
<1>2. TypeOK /\ [Next]_vars => TypeOK'
  <2> SUFFICES ASSUME TypeOK, [Next]_vars PROVE TypeOK'
    OBVIOUS
  <2>1. ASSUME NEW t \in Transactions, ~At(t, "idle")
        PROVE  /\ txn[t] \in Transaction
               /\ Visible(t) \in Row
    BY <2>1, RatingsAssumption DEF TypeOK, At, Idle, Transaction, Visible, Row
  <2>2. ASSUME NEW t \in Transactions, NEW r \in Reviews, NEW v \in Ratings,
               Write(t, r, v)
        PROVE  TypeOK'
    <3>1. [review |-> r, rating |-> v, pc |-> "written", stats |-> NoStats]
              \in Transaction
      BY DEF Transaction, Progress, Stats
    <3> QED
      BY <2>2, <3>1 DEF Write, TypeOK, history
  <2>3. ASSUME NEW t \in Transactions, Count(t) PROVE TypeOK'
    <3>1. txn[t] \in Transaction /\ Aggregate(Visible(t)) \in Stats
      BY <2>1, <2>3, AggregateType DEF Count, At
    <3> DEFINE new == [txn[t] EXCEPT !.pc = "counted",
                                     !.stats = Aggregate(Visible(t))]
    <3>2. new \in Transaction
      BY <3>1 DEF Transaction, Progress
    <3>3. txn' = [txn EXCEPT ![t] = new]
      BY <2>3 DEF Count, TypeOK
    <3> HIDE DEF new
    <3> QED
      BY <2>3, <3>2, <3>3 DEF Count, TypeOK, history
  <2>4. ASSUME NEW t \in Transactions, Update(t) PROVE TypeOK'
    <3>1. txn[t] \in Transaction
      BY <2>1, <2>4 DEF Update, At
    <3>2. [txn[t] EXCEPT !.pc = "updated"] \in Transaction
      BY <3>1 DEF Transaction, Progress
    <3> QED
      BY <2>4, <3>2 DEF Update, TypeOK, history
  <2>5. ASSUME NEW t \in Transactions, Commit(t) PROVE TypeOK'
    <3>1. /\ txn[t] \in Transaction
          /\ Visible(t) \in Row
      BY <2>1, <2>5 DEF Commit, At
    <3>2. txn[t].stats \in Stats
      BY <3>1 DEF Transaction
    <3> QED
      BY <2>5, <3>1, <3>2 DEF Commit, TypeOK, Row
  <2>6. ASSUME NEW t \in Transactions, Rollback(t) PROVE TypeOK'
    BY <2>6 DEF Rollback, TypeOK
  <2>7. CASE UNCHANGED vars
    BY <2>7 DEF vars, TypeOK
  <2> QED
    BY <2>2, <2>3, <2>4, <2>5, <2>6, <2>7 DEF Next, Begin
<1> QED
  BY <1>1, <1>2, PTL DEF Spec

\* A mentor none of whose reviews is below lo or above hi has an average that
\* is neither, whenever the last commit was not overtaken.
THEOREM RatingIsFair ==
    ASSUME NEW lo \in 1 .. 5, NEW hi \in 1 .. 5
    PROVE  Spec =>
             [](/\ exact
                /\ Written(rating) # {}
                /\ \A r \in Written(rating) : lo <= rating[r] /\ rating[r] <= hi
                => profile.avg \in (100 * lo) .. (100 * hi))
<1>1. TypeOK /\ UndisturbedIsExact =>
        (/\ exact
         /\ Written(rating) # {}
         /\ \A r \in Written(rating) : lo <= rating[r] /\ rating[r] <= hi
         => profile.avg \in (100 * lo) .. (100 * hi))
  BY AggregateInBetween DEF TypeOK, Row, UndisturbedIsExact
<1> QED
  BY <1>1, TypeCorrect, Undisturbed, PTL

-----------------------------------------------------------------------------
(* Locks.                                                                  *)

\* t waits for the profile row, which s has written and not committed.
Waits(t, s) == At(t, "counted") /\ At(s, "updated")

\* Every review row, and the profile row, is written by one transaction at
\* a time; who holds the profile row waits for nobody, so that nobody waits
\* in a circle.
LocksAreExclusive ==
    /\ \A s, t \in Transactions :
           /\ ~At(s, "idle") /\ ~At(t, "idle")
           /\ txn[s].review = txn[t].review
           => s = t
    /\ \A s, t \in Transactions :
           At(s, "updated") /\ At(t, "updated") => s = t
    /\ \A q, s, t \in Transactions : ~(Waits(q, s) /\ Waits(s, t))

\* Neither a review nor the profile is ever written by two transactions, and
\* the locks are taken in one order: this is what TransactionsEnd rests on.
THEOREM LocksExclude == Spec => []LocksAreExclusive
<1>1. Init => LocksAreExclusive
  BY DEF Init, LocksAreExclusive, At, Idle, Waits
<1>2. TypeOK /\ LocksAreExclusive /\ [Next]_vars => LocksAreExclusive'
  <2> SUFFICES ASSUME TypeOK, LocksAreExclusive, [Next]_vars
               PROVE  LocksAreExclusive'
    OBVIOUS
  <2>1. ASSUME NEW t \in Transactions, NEW r \in Reviews, NEW v \in Ratings,
               Write(t, r, v)
        PROVE  LocksAreExclusive'
    BY <2>1 DEF Write, TypeOK, LocksAreExclusive, At, Waits
  <2>2. ASSUME NEW t \in Transactions, Count(t) \/ Update(t)
        PROVE  LocksAreExclusive'
    <3>1. ~At(t, "idle") /\ txn[t] \in Transaction
      BY <2>2 DEF Count, Update, At, TypeOK, Idle
    <3>2. /\ \A s \in Transactions \ {t} : txn'[s] = txn[s]
          /\ txn'[t].review = txn[t].review
          /\ txn'[t].pc = "counted"
             \/ (/\ txn'[t].pc = "updated"
                 /\ \A s \in Transactions : ~At(s, "updated"))
      BY <2>2, <3>1 DEF Count, Update, TypeOK, Transaction
    <3> QED
      BY <3>1, <3>2 DEF LocksAreExclusive, At, Waits
  <2>3. ASSUME NEW t \in Transactions, Commit(t) \/ Rollback(t)
        PROVE  LocksAreExclusive'
    BY <2>3 DEF Commit, Rollback, TypeOK, LocksAreExclusive, At, Idle, Waits
  <2>4. CASE UNCHANGED vars
    BY <2>4 DEF vars, LocksAreExclusive, At, Waits
  <2> QED
    BY <2>1, <2>2, <2>3, <2>4 DEF Next, Begin
<1> QED
  BY <1>1, <1>2, TypeCorrect, PTL DEF Spec

-----------------------------------------------------------------------------
(* What the documentation says, where it is true.                          *)

\* No two transactions that write reviews of one mentor overlap.
Alone == \A s, t \in Transactions :
             ~At(s, "idle") /\ ~At(t, "idle") => s = t

AloneSpec == Init /\ [][Next /\ Alone']_vars

\* "rating_avg and rating_count ... computed by trigger" is true of a mentor
\* whose reviews are written one after the other: then the statistics are at
\* all times the aggregates of the committed reviews.  The overlap that
\* UndisturbedIsExact speaks of is the only way to lose a review.
THEOREM CurrentIfAlone == AloneSpec => []StatsAreCurrent
<1> DEFINE None == TypeOK /\ Alone /\ missed = {} /\ exact
<1>1. Init => None
  BY DEF Init, TypeOK, Stats, Alone, At, Idle
<1>2. None /\ TypeOK' /\ [Next /\ Alone']_vars => None'
  <2> SUFFICES ASSUME None, TypeOK', [Next /\ Alone']_vars PROVE None'
    OBVIOUS
  <2>1. CASE UNCHANGED vars
    BY <2>1 DEF vars, Alone, At
  <2>2. ASSUME NEW t \in Transactions, Commit(t), Alone' PROVE None'
    <3>1. ASSUME NEW s \in Transactions \ {t} PROVE ~Counted(s)
      BY <2>2 DEF Commit, Alone, At, Counted
    <3> QED
      BY <2>2, <3>1 DEF Commit
  <2>3. ASSUME NEW t \in Transactions, Alone',
               Begin(t) \/ Count(t) \/ Update(t) \/ Rollback(t)
        PROVE  None'
    BY <2>3 DEF Begin, Write, Count, Update, Rollback, history
  <2> QED
    BY <2>1, <2>2, <2>3 DEF Next
<1>3. None /\ UndisturbedIsExact => StatsAreCurrent
  BY DEF UndisturbedIsExact, StatsAreCurrent
<1>4. [Next /\ Alone']_vars => [Next]_vars
  OBVIOUS
<1>5. AloneSpec => Spec
  BY <1>4, PTL DEF AloneSpec, Spec
<1>6. AloneSpec => []TypeOK /\ []UndisturbedIsExact
  BY <1>5, TypeCorrect, Undisturbed, PTL
<1>7. AloneSpec => []None
  BY <1>1, <1>2, <1>6, PTL DEF AloneSpec
<1> QED
  BY <1>3, <1>6, <1>7, PTL
=============================================================================
