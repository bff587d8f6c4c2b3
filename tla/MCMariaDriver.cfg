\* Up to two rows; an operation suspends at most twice before its timeout.
CONSTANTS
    MaxRows = 2
    MaxWaits = 2
SPECIFICATION Spec
INVARIANTS
    LibraryProtocol
    ResultComplete
    ResultReleased
PROPERTIES
    ImplementsQuery
CHECK_DEADLOCK FALSE
