SPECIFICATION Spec
CONSTANTS
  p1 = p1  p2 = p2
  r1 = r1  r2 = r2  r3 = r3
  clean = clean  dirty = dirty
  branch = branch  snap = snap
  a = a  b = b  w = w
  rvDirty = rvDirty
  Applies = {p1, p2}
  Generations = {"g0", "g1"}
  Lanes <- MCLanes
  Versions <- MCVersions
  Objects = {a, b, w}
  Reviews = {rvDirty}
  Others = {"main", "squat", "harvest"}
  Worktrees = {"t0"}
  Runs = {r1, r2}
  Absent = Absent  Foreign = Foreign  Lost = Lost
  Tip <- MCTip
  Dirty = {dirty}
  NeedsReview = {dirty}
  Binds <- MCBinds
  Obstructs <- MCObstructs
  Clashes <- MCClashes
  Faults = {"source", "destination", "crash"}
  MaxFaults = 2
INVARIANTS TypeOK ReceiptBacked SuccessMeansCustody SensitiveReviewed
PROPERTY CustodySurvives
SYMMETRY Symmetry
