SPECIFICATION LiveSpec
CONSTANTS
  Faults = {"source", "target", "backpressure", "crash", "stop", "reset", "hang"}
  MaxFaults = 4
  MaxInFlight = 2
INVARIANTS TypeOK BeliefIsOutcome StoppedIsReleased
PROPERTIES StopEnds ReleasedWhenOff ReleasedWhenSilent HeldWhenOn
