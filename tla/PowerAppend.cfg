SPECIFICATION PowerSpec
CONSTANTS
    MaxTpRuns = 2
    MaxRestarts = 0
CHECK_DEADLOCK FALSE
INVARIANT AppendKeepsBoth
