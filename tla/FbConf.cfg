SPECIFICATION Spec
CHECK_DEADLOCK FALSE
CONSTANTS
    Runs = {1, 2, 3}
    SunModes <- MCSunModes
    Commands <- MCCommands
    Files <- MCFiles
    Short = {2}
INVARIANTS ConfigValid ModesDefined UpdateKept
PROPERTY ForeignKept
