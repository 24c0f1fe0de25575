\* Two handlers race on one mentorship; an outsider calls the endpoints too.
SPECIFICATION Spec
CONSTANTS
    mentor = mentor
    mentee = mentee
    outsider = outsider
    h1 = h1
    h2 = h2
    Users = {mentor, mentee, outsider}
    Profiles = {mentor}
    Pairs <- OnePair
    Handlers = {h1, h2}
    MaxMessages = 3
INVARIANTS
    TypeOK
    OneThreadPerMentorship
    ConsentBeforeActivity
    OnlyPartiesWrite
    HandlersHaveChecked
PROPERTIES
    HistoryIsKept
