CONSTANTS
    Callers = {"contains"}
    LARGE_TABLE = 2
    MAX_ENTITY_INDEX = 4
    Requests = {0, 1, 2, 3}
    Parents = {0}
    Ports = {FALSE}
    MaxLogical = 0
    MaxIndex = 3
    AliasSlots = 0
SPECIFICATION Spec
INVARIANTS ListsWellLinked TableIntegrity ContainedInExact NoContainmentCycle
