SPECIFICATION PSpec
CONSTANTS
 Start = 8
 MAX_HEAP = 184
 CHUNKSIZE = 64
 Ids = {1, 2, 3}
 Requests = {12, 50}
 Reallocs = FALSE
 Garbage = {0}
 MaxOps = 7
 Traces = 1
INVARIANTS NeverExits
PROPERTY SamePlaces
CHECK_DEADLOCK FALSE
