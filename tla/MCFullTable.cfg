SPECIFICATION Spec
CONSTANTS
    s1 = s1
    s2 = s2
    s3 = s3
    m1 = m1
    m2 = m2
    m3 = m3
    Services = {s1, s2}
    Messages = {m1, m2, m3}
    ServiceOf <- MCServiceOf
    SegmentsOf <- MCSegmentsOf
    BufferSegments <- PayloadSegments
    Repeated = {}
    Threads = {t1, t2}
    Publishers = {p1, p2}
    Chunks = {c1, c2}
    Updates = {{s1, s2}}
    ForwardedServices = {s1}
    MAX_SEGMENTED_MESSAGE_COUNT = 1
    MAX_FORWARDED_SERVICES = 1
    MAX_TOPICS = 2
    DeadlineCoversDma = TRUE
    Nobody = Nobody
    Updater = Updater
    NoPublisher = NoPublisher
    NoChunk = NoChunk
    NoSegment = NoSegment
    NoMessage = NoMessage
PROPERTY
    LoanedBufferValid
