CONSTANTS
    Provider = "keys"
    Receivers = {"niri", "umbriel"}
    Order <- MCOrder
    Prospective = {"niri"}
    Invocations = {p1, p2}
    Commands <- MCCommands
    Options <- MCOptions
    MaxChanges = 1
    Established <- MCEstablished
SPECIFICATION Spec
SYMMETRY MCSymmetry
CHECK_DEADLOCK FALSE
INVARIANTS TypeOK AgreeOnPublication
PROPERTIES PublishKeeps VetoHolds ToggleKept
