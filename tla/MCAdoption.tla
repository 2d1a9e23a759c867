------------------------------ MODULE MCAdoption ----------------------------
(* Small instances of Adoption.  The legacy checkout is clean, or it has a *)
(* later commit and a dirty worktree, whose snapshot takes a second lane.  *)
EXTENDS AdoptionProperties, TLC

CONSTANTS p1, p2, r1, r2, r3, clean, dirty, branch, snap, a, b, w,
          rvDirty

MCVersions == {clean, dirty}
MCLanes == {branch, snap}
MCTip == (clean :> (branch :> a @@ snap :> Absent))
         @@ (dirty :> (branch :> b @@ snap :> w))
MCBinds == [rv \in Reviews |-> dirty]

(* A ref that is a prefix of the custody refs, or an old harvest ref.      *)
MCClashes == [o \in Others |-> IF o = "squat" THEN Generations ELSE {}]
MCObstructs == [o \in Others |-> IF o = "main" THEN {} ELSE Generations]

Symmetry == Permutations(Applies) \cup Permutations(Runs)
=============================================================================
