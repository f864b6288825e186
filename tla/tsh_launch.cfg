SPECIFICATION Spec
CONSTANTS
 p1 = p1
 p2 = p2
 p3 = p3
 p4 = p4
 Pids = {p1, p2, p3}
 MaxJobs = 2
 Launch = {"FG","BG"}
 Builtins = {}
 Keyboard = {"INT","TSTP"}
 MaxKeys = 1
 ChildSignals = {"TSTP"}
INVARIANTS SlotIsJid ForegroundMeansWaiting NeverWaitsForReaped
PROPERTY KeysReachTheWaitedJob
CHECK_DEADLOCK FALSE
