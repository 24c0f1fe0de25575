\* The endpoint with a thread that is longer than a page.
SPECIFICATION PagingSpec
CONSTANTS
    Times <- ThreeTimes
    Ids <- TwoIds
    Limits = {1, 2}
INVARIANTS
    OlderMessagesAreFetched
