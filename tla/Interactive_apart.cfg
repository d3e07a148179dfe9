CONSTANTS
    a = a
    b = b
    p1 = p1
    p2 = p2
    q = q
    Clients = {a, b}
    Server = Server
    ServerPid = ServerPid
    None = None
    Dangling = Dangling
    PidLists <- Apart
SPECIFICATION Spec
INVARIANTS FocusRecordLive FocusIsBoosted
PROPERTY KeepsBoost
