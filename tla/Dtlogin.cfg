CONSTANTS
    Records <- MCRecords
    Gdm = 1
    BUFLEN = 4
    NGROUPS_UMAX = 6
    OwnGroups <- MCOwnGroups
    Screens = {s1, s2}
SPECIFICATION Spec
INVARIANTS RootRegainable LoginApplied CloseRestores
CHECK_DEADLOCK FALSE
