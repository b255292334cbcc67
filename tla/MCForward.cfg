SPECIFICATION FairSpec
CONSTANTS
    s1 = s1
    s2 = s2
    m1 = m1
    m2 = m2
    m3 = m3
    pcie = pcie
    udp = udp
    Services = {s1, s2}
    Messages = {m1, m2, m3}
    ServiceOf <- FirstService
    Devices = {pcie, udp}
    DmaDevices = {pcie}
    DeviceLists <- NoneOrOne
    FailingDevices = {pcie}
    NeededSets = {{s1}, {s1, s2}, {s2}}
    MAX_TOPICS = 1
    MaxPending = 1
    MaxHeld = 2
    MaxUpdates = 3
    NoMessage = NoMessage
    NoSubscriber = NoSubscriber
INVARIANTS
    PayloadHeld
    ReleasedOnce
    AttachedLive
PROPERTIES
    ChunksReturned
    UpdateEnds
CHECK_DEADLOCK FALSE
