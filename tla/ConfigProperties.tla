-------------------------- MODULE ConfigProperties --------------------------
(***************************************************************************)
(* What the commands on compiled configs promise.  The code claims no      *)
(* isolation from concurrent writers, so the promises are about commands   *)
(* on whose recipes nobody else worked meanwhile; what others left behind  *)
(* before, and what they do to other recipes at the same time, is free.    *)
(***************************************************************************)
EXTENDS ConfigInputs

Runnings == Running \cup {"catalog", "look", "act", "register", "revert",
                           "ended", "return"}

Previous == [name : Names, slot : Slots, file : Files]

(* What an invocation holds, and how the positions of its loops stay in    *)
(* range.                                                                  *)
Invocations ==
    [step : Runnings \cup {"idle", "done"}, cmd : CommandKinds \cup {"none"},
     recipes : Seq(Recipes), todo : Seq(Names),
     catalog : [Names -> {"enabled", "disabled", "missing"}],
     failed : BOOLEAN, previous : Seq(Previous), at : Nat,
     listed : SUBSET Names, candidate : Outputs, pending : Seq(Recipes),
     reserved : SUBSET Recipes, code : {0, 1, 2, 128}, cut : BOOLEAN,
     clear : BOOLEAN, before : [entry : Entries, output : Outputs]]

Positions(r) ==
    /\ run[r].step = "catalog" => run[r].at \in DOMAIN Order
    /\ run[r].step \in {"look", "act"} => run[r].todo # <<>>
    /\ run[r].step \in {"register", "revert"} => run[r].at \in DOMAIN run[r].previous
    /\ run[r].step \in {"list", "build", "compare"}
          => run[r].at \in DOMAIN run[r].recipes
    /\ run[r].step \in {"reserve", "away", "in", "undo", "restore"}
          => run[r].at \in DOMAIN run[r].pending
    /\ run[r].reserved \subseteq Elements(run[r].pending)
    /\ Elements(run[r].pending) \subseteq Elements(run[r].recipes)

TypeOK ==
    /\ donor \in [Names -> [state : {"enabled", "disabled", "missing"},
                            text : {"v1", "v2"}]]
    /\ entry \in Entries /\ output \in Outputs
    /\ staged \in [Runs -> Outputs] /\ backup \in [Runs -> Outputs]
    /\ run \in [Runs -> Invocations] /\ \A r \in Runs : Positions(r)
    /\ saw \in [Runs -> [Slots -> Files \cup {"unseen"}]]
    /\ faults \in 0 .. MaxFaults

RecipesOf(r) == Elements(run[r].recipes)

(* "A later commit move failure rolls back outputs already moved in the    *)
(* same transaction" (doc/config/consumer-toolkit.md:447): a runner that   *)
(* ends with a failure leaves every output as it found it, unless it       *)
(* warned that it could not, or was told to stop.                          *)
AllOrNothing ==
    \A r \in Runs :
        /\ run[r].step = "ended" /\ run[r].clear
        /\ run[r].code # 0 /\ ~run[r].cut
        => \A c \in RecipesOf(r) : output[c] = run[r].before.output[c]

(* "Atomically commit compiled configs" (files/config-run.sh:2): whatever  *)
(* ended the runner, short of a kill, the outputs are all as before or all *)
(* as built.  A signal between two moves leaves neither.                   *)
AtomicCommit ==
    \A r \in Runs :
        run[r].step = "ended" /\ run[r].clear =>
            \/ \A c \in RecipesOf(r) : output[c] = run[r].before.output[c]
            \/ \A c \in RecipesOf(r) : output[c] = run[r].candidate[c]

(* A command that reports success leaves the outputs of its recipes equal  *)
(* to what their inputs come to, whatever earlier commands left behind     *)
(* when they failed, were killed or raced each other; a check that reports *)
(* none has found no drift.                                                *)
Published ==
    \A r \in Runs :
        run[r].step = "ended" /\ run[r].clear /\ run[r].code = 0 =>
            \A c \in RecipesOf(r) : output[c] = Text(Active(c))

(* "Seed preserves existing copies, links, edits, disabled names and       *)
(* extras": what a command may do to the local inputs.  An install leaves  *)
(* every entry there is alone; a refresh and a registration leave it       *)
(* enabled or disabled as it was; a registration that fails leaves all of  *)
(* them as they were; and none makes a second name of an input.            *)
Occupied(pair) == {s \in Slots : pair[s] # "missing"}

ChoicesKept ==
    \A r \in Runs : run[r].step = "return" /\ run[r].clear =>
        \A n \in Names : RecipeOf[n] \in RecipesOf(r) =>
            LET before == run[r].before.entry[n] IN
            /\ run[r].cmd \in {"install", "assemble", "check"}
                  /\ Occupied(before) # {} => entry[n] = before
            /\ run[r].cmd \in Deliveries /\ Occupied(before) # {}
                  => Occupied(entry[n]) = Occupied(before)
            /\ run[r].cmd = "register" /\ run[r].code # 0 /\ ~run[r].cut
                  => entry[n] = before
            /\ Occupied(entry[n]) = Slots => Occupied(before) = Slots

(* A kill loses no output: what was there is still there, or lies beside   *)
(* it as a backup, or has been replaced by the candidate.                  *)
KilledKeeps ==
    [][\A r \in Runs :
        /\ run[r].step # "return" /\ Busy(r) /\ ~Busy(r)'
        /\ run[r].clear /\ ~run[r].cut
        => \A c \in RecipesOf(r) :
              LET old == run[r].before.output[c] IN
              old # Missing =>
                  \/ old \in {output'[c], backup'[r][c]}
                  \/ output'[c] = run[r].candidate[c]]_vars
=============================================================================
