SPECIFICATION Spec
CONSTANTS
 Start = 8
 MAX_HEAP = 152
 CHUNKSIZE = 48
 Ids = {1, 2, 3, 4}
 Requests = {0, 1, 13, 44}
 Reallocs = TRUE
 Garbage = {25}
 MaxOps = 5
 Traces = 2
INVARIANTS CheckerSilent TagsMatch ListsExact PayloadIntact RangesAreLive DriverAccepts
PROPERTIES FailsOnlyWhenFull ImplementsHeap
CHECK_DEADLOCK FALSE
