SPECIFICATION IpFairSpec
CONSTANTS
    a = a
    b = b
    d = d
    Nodes = {a, b}
    MAX_DEVICE_COUNT = 1
    Threads = 2
    Senders = {a}
    MaxRetries = 1
    MaxConnections = 3
    MaxMessages = 2
    MaxFailures = 1
    MayFail = {b}
    MayCrash = {b}
    MaxLives = 2
    NoConnection = NoConnection
    NoMessage = NoMessage
    UdpNodes = {a, b, d}
    UdpDeviceCount = 1
    UdpMessages = 1
    UdpMayFail = {a}
INVARIANTS
    OneSessionPerPeer
    FramesIntact
    DeviceIndexAgrees
PROPERTIES
    InOrder
    SessionsSettle
    Known
CHECK_DEADLOCK FALSE
