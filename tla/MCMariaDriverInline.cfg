\* Where the callback is called from.
CONSTANTS
    MaxRows = 1
    MaxWaits = 1
SPECIFICATION Spec
INVARIANT CallbackOnLoop
CHECK_DEADLOCK FALSE
