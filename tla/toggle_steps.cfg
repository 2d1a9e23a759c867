SPECIFICATION Spec
CONSTANTS
  Receivers = {"niri", "umbriel"}
INVARIANTS TypeOK KeyHasBindings FailureIsSafe DoneMeansIt
