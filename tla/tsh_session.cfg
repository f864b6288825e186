SPECIFICATION Spec
CONSTANTS
 p1 = p1
 p2 = p2
 p3 = p3
 p4 = p4
 Pids = {p1, p2}
 MaxJobs = 2
 Launch = {"FG","BG"}
 Builtins = {"FG","BG"}
 Keyboard = {"INT","TSTP"}
 MaxKeys = 1
 ChildSignals = {"INT","TSTP"}
INVARIANTS NoReapBeforeAdd ReapPromised
PROPERTY ImplementsReaper
CHECK_DEADLOCK FALSE
