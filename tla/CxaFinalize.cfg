CONSTANTS
    Chunk = 2
    MaxHandlers = 5
SPECIFICATION Spec
INVARIANTS InBounds RunOnce ReverseOrder AllRun
PROPERTY ExitFinishes
CHECK_DEADLOCK FALSE
