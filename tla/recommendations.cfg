\* Two requests of two viewers, two mentors, two candidates at most.
SPECIFICATION FairSpec
CONSTANTS
    ann = ann
    bob = bob
    cy = cy
    dan = dan
    Viewers = {ann, dan}
    Mentors = {ann, cy}
    Blocks <- OneBlock
    Handlers = {h1, h2}
    Limits = {1, 2}
    MaxCandidates = 2
    CacheTTL = 2
INVARIANTS
    OnlyOthersAreShown
PROPERTIES
    GoneMentorsVanish
    GoneStayHidden
