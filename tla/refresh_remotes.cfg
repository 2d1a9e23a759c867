SPECIFICATION Spec
CONSTANTS
    Origin = Origin
    Peer = Peer
    Main = Main
    Feature = Feature
    NoRun = NoRun
    Remotes <- TwoRemotes
    Branches <- OneBranch
    Starts = {"jj", "git", "absent"}
    Options <- EitherRemote
    MaxChange = 4
    MaxRuns = 2
    MaxFaults = 1
CHECK_DEADLOCK FALSE
INVARIANTS Converges Idempotent HonestReport
PROPERTIES ManualResolution EditsKept
