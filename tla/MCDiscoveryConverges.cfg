SPECIFICATION FairSpec
CONSTANTS
    a = a
    b = b
    s1 = s1
    PCIE = PCIE
    UDP = UDP
    Nodes = {a, b}
    Services = {s1}
    Types = {UDP}
    TypeOrder <- OnlyUDP
    Lossy = {UDP}
    EnabledTypes <- AllEnabled
    PreferredType <- NoPreference
    MayLose = TRUE
    Failable = {}
    InitialPorts <- NoneOpen
    PortStates <- PublisherAndSubscriber
    MAX_DEVICE_COUNT = 3
    MAX_TOPICS = 1
    MaxEpoch = 1
    MaxChanges = 2
    MayStop = {}
    MayCrash = {}
    MayLackChunks = {a}
    NoType = NoType
    DiscoveryThread = DiscoveryThread
PROPERTIES
    Converges
    RegistrationCatchesUp
