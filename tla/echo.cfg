SPECIFICATION FairSpec
CONSTANTS
 Conns = {1}
 Ends <- MCEnds
 Letters = {"a"}
 Bytes <- MCBytes
 MaxInput = 5
 MAXLINE = 4
 BufSize = 3
 Faults = TRUE
INVARIANTS StreamInOrder EchoesInOrder EchoIsOwnLine
PROPERTY EchoComes
CHECK_DEADLOCK FALSE
