SPECIFICATION Spec
CONSTANTS
    a = a
    b = b
    s1 = s1
    PCIE = PCIE
    UDP = UDP
    Nodes = {a, b}
    Services = {s1}
    Types = {PCIE}
    TypeOrder <- OnlyPCIE
    Lossy = {}
    EnabledTypes <- AllEnabled
    PreferredType <- NoPreference
    MayLose = FALSE
    Failable = {}
    InitialPorts <- NoneOpen
    PortStates <- PublisherAndSubscriber
    MAX_DEVICE_COUNT = 3
    MAX_TOPICS = 1
    MaxEpoch = 2
    MaxChanges = 2
    MayStop = {b}
    MayCrash = {}
    MayLackChunks = {}
    NoType = NoType
    DiscoveryThread = DiscoveryThread
INVARIANTS
    TerminatedForgotten
    CacheComplete
CHECK_DEADLOCK FALSE
