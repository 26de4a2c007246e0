\* Listeners of one event that leave the list while an emission runs over it.
SPECIFICATION Spec
CONSTANTS
    Events = {"pay"}
    Handlers = {h1, h2}
    Default = default
    MaxListeners = 2
    MaxDepth = 1
INVARIANT EmitsToAll
