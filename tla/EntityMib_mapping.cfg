CONSTANTS
    Callers = {"mapping"}
    LARGE_TABLE = 2
    MAX_ENTITY_INDEX = 3
    Requests = {0, 2}
    Parents = {0}
    Ports = {TRUE}
    MaxIndex = 2
    MaxLogical = 1
    AliasSlots = 2
SPECIFICATION Spec
INVARIANTS TableIntegrity PairsOnce
PROPERTIES StaleKeepsIndex ChangeIsStamped
