SPECIFICATION Spec
CONSTANTS
    Origin = Origin
    Peer = Peer
    Main = Main
    Feature = Feature
    NoRun = NoRun
    Remotes <- OneRemote
    Branches <- OneBranch
    Starts = {"jj"}
    Options <- Explicit
    MaxChange = 4
    MaxRuns = 2
    MaxFaults = 1
CHECK_DEADLOCK FALSE
PROPERTY RepeatKeepsWork
