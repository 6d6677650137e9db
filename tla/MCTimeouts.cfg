SPECIFICATION TimeoutsSpec
CONSTANTS
    Parts = {"websocket", "http"}
    ChunkSize = 3
    FrameLens = {2}
    OutputIdle = 3
    ClosingTime = 2
    PingIdle = 2
    Pong = 2
    MaxSeconds = 11
    MaxBytes = 4
    Conns = {c1, c2}
    Silent = {c2}
    HeaderTime = 3
    KeepAlive = 3
    ReceiveIdle = 3
    SendIdle = 3
    SweepMax = 1
    MaxBlock = 2
    MaxTime = 8
INVARIANTS PingOutExact SilentIsClosed NoneOverdue
PROPERTIES ClosedForReason SweptForReason
