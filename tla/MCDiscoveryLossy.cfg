SPECIFICATION Spec
CONSTANTS
    a = a
    b = b
    s1 = s1
    PCIE = PCIE
    UDP = UDP
    Nodes = {a, b}
    Services = {s1}
    Types = {UDP}
    TypeOrder <- OnlyUDP
    Lossy = {UDP}
    EnabledTypes <- AllEnabled
    PreferredType <- PreferUDP
    MayLose = FALSE
    Failable <- UDPFailsOnA
    InitialPorts <- AllOpen
    PortStates <- PublisherAndSubscriber
    MAX_DEVICE_COUNT = 1
    MAX_TOPICS = 1
    MaxEpoch = 2
    MaxChanges = 0
    MayStop = {}
    MayCrash = {a}
    MayLackChunks = {}
    NoType = NoType
    DiscoveryThread = DiscoveryThread
INVARIANTS
    TypeOK
    CacheExact
CHECK_DEADLOCK FALSE
