\* One event beside the error event, two listeners, two registrations of each
\* event and an emission inside another.
SPECIFICATION Spec
CONSTANTS
    Events = {"pay"}
    Handlers = {h1, h2}
    Default = default
    MaxListeners = 2
    MaxDepth = 2
SYMMETRY HandlerSymmetry
INVARIANTS TypeOK OneTimeIsRegistered EmitsInOrder 
