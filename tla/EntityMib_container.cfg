CONSTANTS
    Callers = {"contains"}
    LARGE_TABLE = 2
    MAX_ENTITY_INDEX = 4
    Requests={0,4}
    Parents = {0,1,2,3,4}
    Ports = {FALSE}
    MaxLogical = 0
    MaxIndex = 4
    AliasSlots = 0
SPECIFICATION Spec
INVARIANT ContainerIsLive
