CONSTANTS
    QUEUE_LENGTH = 3
    Half = 6
    Fill = 10
    FirstNums = {7}
    Horizon = 14
SPECIFICATION HalfRangeSpec
INVARIANTS RepInv NeverFails
PROPERTIES NoReplay ImplementsWindow
