\* Two handlers work on one profile, with failures between the commits.
SPECIFICATION FairSpec
CONSTANTS
    Texts = {"old", "new"}
    Topics = {a, b}
    Handlers = {h1, h2}
INVARIANTS
    VectorIsComing
    CurrentUnlessOvertaken
PROPERTIES
    ProfilesAreFound
