SPECIFICATION Spec
CONSTANTS
 p1 = p1
 p2 = p2
 p3 = p3
 p4 = p4
 Pids = {p1, p2}
 MaxJobs = 2
 Launch = {"FG","BG"}
 Builtins = {}
 Keyboard = {}
 MaxKeys = 0
 ChildSignals = {}
PROPERTY WaitEndsWithTheJob
CHECK_DEADLOCK FALSE
