\* Two handlers that never work on one mentorship together.
SPECIFICATION ExclusiveSpec
CONSTANTS
    mentor = mentor
    mentee = mentee
    outsider = outsider
    h1 = h1
    h2 = h2
    Users = {mentor, mentee, outsider}
    Profiles = {mentor}
    Pairs <- ManyPairs
    Handlers = {h1, h2}
    MaxMessages = 2
INVARIANTS
    MentorshipsAreLegal
    SeenIsCurrent
PROPERTIES
    ImplementsLifecycle
