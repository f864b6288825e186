SPECIFICATION Spec
CONSTANTS
 Libraries = {"part1", "part2", "part3","bonus"}
 Addrs = {1, 2, 3}
 Sizes = {0, 1, 2}
 MaxAllocs = 4
 MaxDeficit = 1
INVARIANTS LeaksExact BalanceExact
PROPERTIES WrongFreesIgnored CorrectProgramsSurvive
CHECK_DEADLOCK FALSE
