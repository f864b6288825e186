SPECIFICATION Spec
CONSTANTS
 p1 = p1
 p2 = p2
 p3 = p3
 p4 = p4
 Pids = {p1, p2, p3, p4}
 MaxJobs = 3
 Launch = {"BG"}
 Builtins = {"FG"}
 Keyboard = {}
 MaxKeys = 0
 ChildSignals = {}
INVARIANT AtMostOneFG
SYMMETRY Interchangeable
CHECK_DEADLOCK FALSE
