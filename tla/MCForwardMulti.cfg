SPECIFICATION Spec
CONSTANTS
    s1 = s1
    s2 = s2
    m1 = m1
    m2 = m2
    m3 = m3
    pcie = pcie
    udp = udp
    Services = {s1, s2}
    Messages = {m1, m2}
    ServiceOf <- FirstService
    Devices = {pcie, udp}
    DmaDevices = {pcie}
    DeviceLists <- OneOfEach
    FailingDevices = {pcie}
    NeededSets = {{s1}, {s1, s2}}
    MAX_TOPICS = 2
    MaxPending = 1
    MaxHeld = 1
    MaxUpdates = 1
    NoMessage = NoMessage
    NoSubscriber = NoSubscriber
INVARIANTS
    PayloadHeld
CHECK_DEADLOCK FALSE
