SPECIFICATION Spec
CONSTANTS
  Names = {"theme", "keys"}
  Recipes = {"zimrc", "tmux"}
  RecipeOf <- MCRecipeOf
  Order <- MCOrder
  RecipeOrder <- MCRecipeOrder
  Missing = Missing
  r1 = r1  r2 = r2
  Runs = {r1, r2}
  Faults = {"tool", "move", "signal", "kill", "producer"}
  MaxFaults = 2
  Commands = {"assemble", "check", "install", "sync", "register", "put", "putDisabled", "enable", "disable", "remove"}
  Overlapping = {"install", "disable"}
  Strategy <- MCStrategy
  Starts <- MCStarts
CHECK_DEADLOCK FALSE
INVARIANTS TypeOK AllOrNothing Published ChoicesKept
PROPERTIES KilledKeeps
SYMMETRY Symmetry
