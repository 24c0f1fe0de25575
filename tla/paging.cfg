\* Six messages are sent while a reader fetches pages of one or two.
SPECIFICATION PagingSpec
CONSTANTS
    Times <- ThreeTimes
    Ids <- TwoIds
    Limits = {1, 2}
INVARIANTS
    EveryMessageOnce
