\* The default error listener, or one of the user.
SPECIFICATION Spec
CONSTANTS
    Stoppers = {s1}
    MaxRetries = 0
INVARIANT StartedMeansRunning
