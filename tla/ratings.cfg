\* Three sessions write two reviews of one mentor and compete for the locks.
SPECIFICATION FairSpec
CONSTANTS
    Reviews = {r1, r2}
    Ratings <- LowAndHigh
    Transactions = {t1, t2, t3}
INVARIANTS
    TypeOK
    StatsAreBounded
    UndisturbedIsExact
PROPERTIES
    StatsComeWithReview
    TransactionsEnd
