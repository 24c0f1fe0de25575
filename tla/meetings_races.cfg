\* Two handlers race on one meeting; an outsider calls the endpoints too.
SPECIFICATION FairWatchedSpec
CONSTANTS
    Mentor = mentor
    Mentee = mentee
    Users = {mentor, mentee, outsider}
    Meetings = {m1}
    Handlers = {h1, h2}
    Ratings <- LowAndHigh
    EditWindow = 1
    MaxTime = 3
INVARIANTS
    TypeOK
    ScheduledHasTime
    ReviewsAreEarned
    HandlersHaveChecked
PROPERTIES
    LifecycleUntilOverlap
    ReviewsPersist
    ReviewsBecomeFinal
