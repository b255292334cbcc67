SPECIFICATION Spec
CONSTANTS
    HeaderSizes = {0, 1, 2, 3}
    PayloadSizes = {0, 1, 2, 3, 4, 5}
    TransportSizes = {1, 2, 3}
    Width = 3
    MayTruncate = TRUE
INVARIANTS
    TypeOK
    PublishedIntact
PROPERTIES
    Arrives
CHECK_DEADLOCK FALSE
