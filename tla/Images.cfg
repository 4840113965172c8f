SPECIFICATION ImagesSpec
CONSTANTS
    Apps <- Programs
    PingCount = 3
    ReplyFloor = 2
    MaxFlaps = 2
    Flows = 2
    Arms <- AllArms
    Pings = 2
    MaxMoves = 3
    RawLen = 2
    MaxTlvs = 2
    Windows = 2
    MaxArms = 2
    Peers <- ThreePeers
    Mine <- OurOctets
    Slots = 2
    MaxJoins = 4
    Need = 2
    MaxSleeps = 2
    MaxMoves6 = 1
    MaxOrders = 1
    MaxTpRuns = 1
    MaxRestarts = 1
    n1 = n1
    n2 = n2
    Name = {n1, n2}
    Outcome <- TwoOutcomes
    MaxRuns = 3
    Pids <- ThreePids
    NoPid = 0
    MaxRailRuns = 2
CHECK_DEADLOCK FALSE
INVARIANTS
    ImagesTypeOK
    PassIsThrough
    WindowJudged
    RestartShown
    RawShownIsTold
    EachPingedOnce
    SleepVerdictFair
    TriggerRestored
    PowerPassEarned
    PowerLeftQuiet
    RailKept
    NothingLost
PROPERTIES
    VerdictsCome
    RestartFailFair
