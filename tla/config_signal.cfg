SPECIFICATION Spec
CONSTANTS
  Names = {"theme", "keys"}
  Recipes = {"zimrc", "tmux"}
  RecipeOf <- MCRecipeOf
  Order <- MCOrder
  RecipeOrder <- MCRecipeOrder
  Missing = Missing
  r1 = r1  r2 = r2
  Runs = {r1, r2}
  Faults = {"signal", "producer"}
  MaxFaults = 2
  Commands = {"assemble", "install"}
  Overlapping = {}
  Strategy <- MCStrategy
  Starts <- MCStarts
CHECK_DEADLOCK FALSE
INVARIANT AtomicCommit
SYMMETRY Symmetry
