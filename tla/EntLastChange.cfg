CONSTANTS
    Period = 4
    MaxLate = 3
SPECIFICATION Spec
INVARIANT SuppressedIsCovered
PROPERTIES EveryChangeReported TrapsCease
