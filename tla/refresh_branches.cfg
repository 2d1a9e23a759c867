SPECIFICATION Spec
CONSTANTS
    Origin = Origin
    Peer = Peer
    Main = Main
    Feature = Feature
    NoRun = NoRun
    Remotes <- OneRemote
    Branches <- TwoBranches
    Starts = {"jj"}
    Options <- Overrides
    MaxChange = 4
    MaxRuns = 2
    MaxFaults = 1
CHECK_DEADLOCK FALSE
INVARIANT TypeOK
PROPERTIES TipsKept Merges NothingDisplaced
