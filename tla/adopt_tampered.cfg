SPECIFICATION Spec
CONSTANTS
  p1 = p1  p2 = p2
  r1 = r1  r2 = r2  r3 = r3
  clean = clean  dirty = dirty
  branch = branch  snap = snap
  a = a  b = b  w = w
  rvDirty = rvDirty
  Applies = {p1, p2}
  Generations = {"g0"}
  Lanes <- MCLanes
  Versions <- MCVersions
  Objects = {a, b, w}
  Reviews = {}
  Others = {"main"}
  Worktrees = {"t0", "t1"}
  Runs = {r1, r2}
  Absent = Absent  Foreign = Foreign  Lost = Lost
  Tip <- MCTip
  Dirty = {dirty}
  NeedsReview = {}
  Binds <- MCBinds
  Obstructs <- MCObstructs
  Clashes <- MCClashes
  Faults = {"destination", "pin", "receipt", "intrude", "gc", "vault"}
  MaxFaults = 2
PROPERTIES ImmutableRefs AtomicInstall KeepsPromise
SYMMETRY Symmetry
