SPECIFICATION JSpec
CONSTANTS
 HeapLo = 8
 HeapHi = 39
 Lengths = {8, 24}
 Payloads = {0, 8, 24}
 Options = {"f", "a", "l", "h"}
 MaxOptions = 1
 TeamNamed = TRUE
 Files = 2
 Ids = {0, 128}
 MaxOps = 3
 Results = {0, 4, 8, 16, 24, 32}
 Breaks = {32, 40}
 Methods = {"FCYC", "ITIMER", "GETTOD"}
 Platforms = {"i386", "alpha", "other"}
 Half = 4
 K = 2
 MAXSAMPLES = 3
 EPSILON = 20
 Costs = {2, 6}
 TickCost = 4
 MaxTicks = 2
 NEVENT = 2
 THRESHOLD = 3
 RECORDTHRESH = 5
 Runs = 3
 Second = 4
 MAX_ETIME = 4
INVARIANTS OnlyEnclosedMissed VerdictIsJust UtilizationInRange TimesAreMeasured CompensationBound
CHECK_DEADLOCK FALSE
