SPECIFICATION FairSpec
CONSTANTS
    udp1 = udp1
    udp2 = udp2
    pcie = pcie
    s1 = s1
    s2 = s2
    c1 = c1
    c2 = c2
    Devices = {udp1, udp2, pcie}
    Transports <- TransportsOf
    Wants <- WantsAll
    DmaDevices = {pcie}
    Services = {s1, s2}
    forwardedServices = {s1}
    Chunks = {c1, c2}
    MAX_FORWARDED_SERVICES = 2
    QueueCapacity = 1
    MaxHeld = 1
    MaxMessages = 2
    MaxChanges = 2
    NoDevice = NoDevice
    Local = Local
INVARIANTS
    EchoNeedsStale
    EntriesHaveMessages
PROPERTIES
    ForwardedToAll
    ChunksReturned
CHECK_DEADLOCK FALSE
