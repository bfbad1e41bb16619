\* The LED driver on five device trees, with and without use-workqueue:
\* probe with every failure, one LED core context, enable/disable, remove.
CONSTANTS
    Boards <- LedBoards
    Offsets = {0, 1}
    Ctxs = {c1}
    c1 = c1
    c2 = c2
    Values = {0, 127}
    WorkIds = {1, 2}
    MaxCalls = 3
    CoreActive = {"active"}
    Fallible = TRUE
SPECIFICATION Spec
\* A device may stay unbound, and a use-workqueue remove stops in the
\* NULL dereference NoNullDereference describes.
CHECK_DEADLOCK FALSE
INVARIANTS
    LedsShowLastRequest
PROPERTIES
    QueuedWorkFreed
