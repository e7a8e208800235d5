SPECIFICATION Spec
CONSTANTS
    Sizes = {0, 1, 3}
    Rooms = {1, 2}
    MaxItems = 4
    MaxWrites = 2
INVARIANTS
    TypeOK
PROPERTIES
    RefinesByteStream
    NothingAfterShutdown
