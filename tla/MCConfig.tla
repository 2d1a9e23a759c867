------------------------------ MODULE MCConfig ------------------------------
(* Two recipes with one input each.                                        *)
EXTENDS ConfigProperties, TLC

CONSTANTS r1, r2

MCRecipeOf == [n \in Names |-> IF n = "theme" THEN "zimrc" ELSE "tmux"]
MCOrder == <<"theme", "keys">>
MCRecipeOrder == <<"zimrc", "tmux">>
MCStrategy == [c \in Deliveries |-> IF c = "install" THEN "link" ELSE "copy"]

(* One input and output of the operator's are there; or the input under    *)
(* both its names, as an install that raced a disable leaves it.           *)
Start(disabled) ==
    [entry |-> [n \in Names |-> [active |-> IF n = "theme" THEN "own" ELSE "missing",
                                 disabled |-> IF n = "theme" THEN disabled ELSE "missing"]],
     output |-> [c \in Recipes |-> IF c = "zimrc" THEN {<<"theme", "old">>}
                                   ELSE Missing]]
MCStarts == {Start("missing"), Start("toEnabled")}
Symmetry == Permutations(Runs)
=============================================================================
