\* Two threads or handlers that may call stop again and again.
SPECIFICATION FairSpec
CONSTANTS
    Stoppers = {s1, s2}
    MaxRetries = 2
INVARIANTS OnePollAfterStop NoIdlingAfterStop StartedIsTrue
PROPERTIES StopEndsLoop KeepsPolling GivesUp
