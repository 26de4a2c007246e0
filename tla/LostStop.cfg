\* One call of stop, at any moment.
SPECIFICATION FairSpec
CONSTANTS
    Stoppers = {s1}
    MaxRetries = 0
PROPERTY StopAtAnyTime
