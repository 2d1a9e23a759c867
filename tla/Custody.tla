------------------------------ MODULE Custody -------------------------------
(***************************************************************************)
(* What custody promises a reader who sees only generations, with no       *)
(* planner, vault, transaction or retry.  A generation is captured in one  *)
(* step with every pin of one version in place; after that only somebody   *)
(* outside the tool can damage it, and the tool can only put the very same *)
(* pins back, all at once.                                                 *)
(***************************************************************************)
CONSTANTS Generations, Lanes, Versions, Runs, Absent, Tip

VARIABLE held   \* held[g]: what generation g holds, or Absent

PinsOf(v) == {l \in Lanes : Tip[v][l] # Absent}

Whole(v, r) == [src |-> v, run |-> r, kept |-> PinsOf(v)]

Init == held = [g \in Generations |-> Absent]

(* Capture a version under a generation that holds nothing, with a vault   *)
(* run no other generation uses.                                           *)
Capture(g) ==
    /\ held[g] = Absent
    /\ \E v \in Versions, r \in Runs :
          /\ \A h \in Generations : held[h] # Absent => held[h].run # r
          /\ held' = [held EXCEPT ![g] = Whole(v, r)]

(* Put back the pins of the version the generation already holds.          *)
Restore(g) ==
    /\ held[g] # Absent
    /\ held' = [held EXCEPT ![g] = Whole(@.src, @.run)]

(* Somebody deletes a pin, or the receipt.                                 *)
Damage(g) ==
    /\ held[g] # Absent
    /\ \/ \E l \in held[g].kept : held' = [held EXCEPT ![g].kept = @ \ {l}]
       \/ held' = [held EXCEPT ![g] = Absent]

Next == \E g \in Generations : Capture(g) \/ Restore(g) \/ Damage(g)

Spec == Init /\ [][Next]_held
=============================================================================
