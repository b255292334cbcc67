SPECIFICATION FairSpec
CONSTANTS
    c1 = c1
    publisher = publisher
    service = service
    Clients = {c1}
    Items = {publisher, service}
    Timeouts = {0, 1, 3, 4, 7}
    Width = 3
    MaxReads = 3
    MaxStarts = 2
    NoSample = NoSample
    NoItem = NoItem
INVARIANTS
    AnswerJustified
PROPERTIES
    Answered
    Returns
\* A call that subscribes while no gateway runs, and none is started any more,
\* never returns.
CHECK_DEADLOCK FALSE
