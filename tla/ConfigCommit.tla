---------------------------- MODULE ConfigCommit ----------------------------
(***************************************************************************)
(* The transaction runner of compiled configs (files/config-run.sh): it    *)
(* builds a private candidate for every selected recipe from the recipe's  *)
(* active inputs, stages the candidates that differ beside their outputs,  *)
(* reserves a backup for every output it replaces and moves the files into *)
(* place, undoing the moves when one of them fails.  Runs share the files  *)
(* and take no lock.                                                       *)
(***************************************************************************)
EXTENDS Integers, Sequences, FiniteSets

CONSTANTS
    Names,      \* inputs with one name
    Recipes,    \* compiled configs; RecipeOf says whose input a name is
    RecipeOf,
    Missing,    \* no such file
    Runs,       \* invocations, each used once
    Faults,     \* a subset of FaultKinds
    MaxFaults   \* bound on the faults and producers' changes of a behaviour

FaultKinds == {"tool", "move", "signal", "kill", "producer"}

ASSUME CommitAssumption ==
    /\ RecipeOf \in [Names -> Recipes]
    /\ Faults \subseteq FaultKinds
    /\ MaxFaults \in Nat

VARIABLES
    donor,      \* the producers' inputs: [state, text], by name
    entry,      \* the local inputs: a file under each of its two names
    output,     \* the outputs
    staged,     \* candidates staged beside the outputs, of each run
    backup,     \* backups of replaced outputs, of each run
    run,        \* what each invocation holds
    faults

files == <<output, staged, backup>>

(* A local input is missing, a link to the producer's enabled or disabled  *)
(* file, or a file with a text of its own.                                 *)
Links == {"toEnabled", "toDisabled"}
Files == {"missing", "own", "v1", "v2"} \cup Links

(* An output is missing or what some inputs came to.                       *)
Contents == {Missing} \cup SUBSET (Names \X (Files \cup {"old"}))

Elements(seq) == {seq[i] : i \in DOMAIN seq}
LinkTo(state) == IF state = "enabled" THEN "toEnabled" ELSE "toDisabled"

Read(n, file) ==
    IF file \in Links
    THEN IF LinkTo(donor[n].state) = file /\ donor[n].state # "missing"
         THEN donor[n].text ELSE "missing"
    ELSE file

(* What the listed inputs of a recipe come to, and an empty file.          *)
Text(names) == {<<n, Read(n, entry[n].active)>> : n \in names}
Active(c) == {n \in Names : RecipeOf[n] = c /\ entry[n].active # "missing"}
Empty == {}

At(r) == run[r].recipes[run[r].at]
PendingAt(r) == run[r].pending[run[r].at]

(* The runner leaves with a code; its EXIT trap runs next.                 *)
Exit(r, code) == [run EXCEPT ![r].step = "exit", ![r].code = code]

Go(r, step, at) == [run EXCEPT ![r].step = step, ![r].at = at]

Fault(kind) == kind \in Faults /\ faults < MaxFaults /\ faults' = faults + 1

-----------------------------------------------------------------------------
(* Private work.                                                           *)

(* find lists the active inputs; each must be a regular file, through      *)
(* links too.                                                              *)
List(r) ==
    /\ run[r].step = "list"
    /\ LET names == Active(At(r)) IN
       run' = IF \E n \in names : Read(n, entry[n].active) = "missing"
              THEN Exit(r, 1)
              ELSE [run EXCEPT ![r].step = "build", ![r].listed = names]
    /\ UNCHANGED <<donor, entry, files, faults>>

(* The leaf reads the listed files; one that went away fails it.           *)
Build(r) ==
    /\ run[r].step = "build"
    /\ LET text == Text(run[r].listed)
           last == run[r].at = Len(run[r].recipes)
       IN  run' = IF \E n \in run[r].listed : <<n, "missing">> \in text
                  THEN Exit(r, 1)
                  ELSE [run EXCEPT
                           ![r].candidate[At(r)] = text,
                           ![r].listed = {},
                           ![r].step = IF last THEN "compare" ELSE "list",
                           ![r].at = IF last THEN 1 ELSE @ + 1]
    /\ UNCHANGED <<donor, entry, files, faults>>

(* A mutant: any output there is will do.                                  *)
DiffersIfMissing(r, c) == output[c] = Missing

Differs(r, c) == output[c] # run[r].candidate[c]

(* Equal outputs are left alone; --check reports drift and ends here.      *)
Compare(r) ==
    /\ run[r].step = "compare"
    /\ LET pending == IF Differs(r, At(r)) THEN Append(run[r].pending, At(r))
                      ELSE run[r].pending
           last == run[r].at = Len(run[r].recipes)
       IN  run' = IF last /\ run[r].cmd = "check"
                  THEN Exit(r, IF pending = <<>> THEN 0 ELSE 1)
                  ELSE [run EXCEPT ![r].pending = pending,
                                   ![r].step = IF last THEN "stage" ELSE "compare",
                                   ![r].at = IF last THEN 1 ELSE @ + 1]
    /\ UNCHANGED <<donor, entry, files, faults>>

Stage(r) ==
    /\ run[r].step = "stage"
    /\ staged' = [staged EXCEPT ![r] =
           [c \in Recipes |-> IF c \in Elements(run[r].pending)
                              THEN run[r].candidate[c] ELSE Missing]]
    /\ run' = IF run[r].pending = <<>> THEN Exit(r, 0) ELSE Go(r, "reserve", 1)
    /\ UNCHANGED <<donor, entry, output, backup, faults>>

(* A placeholder is made for the backup of every output there is, before   *)
(* any output changes.                                                     *)
Reserve(r) ==
    /\ run[r].step = "reserve"
    /\ LET c == PendingAt(r)
           there == output[c] # Missing
           last == run[r].at = Len(run[r].pending)
       IN  /\ backup' = IF there THEN [backup EXCEPT ![r][c] = Empty]
                        ELSE backup
           /\ run' = [run EXCEPT
                  ![r].reserved = IF there THEN @ \cup {c} ELSE @,
                  ![r].step = IF last THEN "away" ELSE "reserve",
                  ![r].at = IF last THEN 1 ELSE @ + 1]
    /\ UNCHANGED <<donor, entry, output, staged, faults>>

-----------------------------------------------------------------------------
(* The commit.                                                             *)

(* Mutants: one more than the first; only the failed move is undone.       *)
BackPastFirst(r) ==
    IF run[r].at = 0 THEN Exit(r, 1) ELSE Go(r, "undo", run[r].at - 1)
BackNowhere(r) == Exit(r, 1)

(* rollback_prior goes from the move before the one that failed down to    *)
(* the first.                                                              *)
Back(r) ==
    IF run[r].at = 1 THEN Exit(r, 1) ELSE Go(r, "undo", run[r].at - 1)

(* A mutant: rm -f output.                                                 *)
MoveAwayRemoving(r) ==
    /\ run[r].step = "away"
    /\ output' = [output EXCEPT ![PendingAt(r)] = Missing]
    /\ run' = Go(r, "in", run[r].at)
    /\ UNCHANGED <<donor, entry, staged, backup, faults>>

(* mv output backup, which fails when the output has gone.                 *)
MoveAway(r) ==
    /\ run[r].step = "away"
    /\ LET c == PendingAt(r) IN
       \/ /\ c \notin run[r].reserved
          /\ run' = Go(r, "in", run[r].at)
          /\ UNCHANGED <<files, faults>>
       \/ /\ c \in run[r].reserved /\ output[c] # Missing
          /\ backup' = [backup EXCEPT ![r][c] = output[c]]
          /\ output' = [output EXCEPT ![c] = Missing]
          /\ run' = Go(r, "in", run[r].at)
          /\ UNCHANGED <<staged, faults>>
       \/ /\ c \in run[r].reserved
          /\ IF output[c] = Missing THEN UNCHANGED faults ELSE Fault("move")
          /\ run' = Back(r)
          /\ UNCHANGED files
    /\ UNCHANGED <<donor, entry>>

(* mv staged output.                                                       *)
MoveIn(r) ==
    /\ run[r].step = "in"
    /\ LET c == PendingAt(r) IN
       \/ /\ output' = [output EXCEPT ![c] = staged[r][c]]
          /\ staged' = [staged EXCEPT ![r][c] = Missing]
          /\ run' = IF run[r].at = Len(run[r].pending)
                    THEN Go(r, "drop", 1) ELSE Go(r, "away", run[r].at + 1)
          /\ UNCHANGED <<backup, faults>>
       \/ /\ Fault("move")
          /\ run' = Go(r, "restore", run[r].at)
          /\ UNCHANGED files
    /\ UNCHANGED <<donor, entry>>

(* rm -f output, before its backup is moved back.                          *)
Undo(r) ==
    /\ run[r].step = "undo"
    /\ output' = [output EXCEPT ![PendingAt(r)] = Missing]
    /\ run' = Go(r, "restore", run[r].at)
    /\ UNCHANGED <<donor, entry, staged, backup, faults>>

(* mv backup output; a failure is only warned about, and the backup goes   *)
(* with the trap.                                                          *)
Restore(r) ==
    /\ run[r].step = "restore"
    /\ LET c == PendingAt(r) IN
       \/ /\ c \notin run[r].reserved
          /\ run' = Back(r)
          /\ UNCHANGED <<files, faults>>
       \/ /\ c \in run[r].reserved
          /\ output' = [output EXCEPT ![c] = backup[r][c]]
          /\ backup' = [backup EXCEPT ![r][c] = Missing]
          /\ run' = Back(r)
          /\ UNCHANGED <<staged, faults>>
       \/ /\ c \in run[r].reserved
          /\ Fault("move")
          /\ run' = [Back(r) EXCEPT ![r].cut = TRUE]
          /\ UNCHANGED files
    /\ UNCHANGED <<donor, entry>>

DropBackups(r) ==
    /\ run[r].step = "drop"
    /\ backup' = [backup EXCEPT ![r] = [c \in Recipes |-> Missing]]
    /\ run' = Exit(r, 0)
    /\ UNCHANGED <<donor, entry, output, staged, faults>>

(* The EXIT trap removes every file in temps: candidates and backups.      *)
Cleanup(r) ==
    /\ run[r].step = "exit"
    /\ staged' = [staged EXCEPT ![r] = [c \in Recipes |-> Missing]]
    /\ backup' = [backup EXCEPT ![r] = [c \in Recipes |-> Missing]]
    /\ run' = [run EXCEPT ![r].step = "ended"]
    /\ UNCHANGED <<donor, entry, output, faults>>

Building == {"list", "build", "compare", "stage", "reserve"}
Committing == {"away", "in", "undo", "restore", "drop"}
Running == Building \cup Committing \cup {"exit"}

(* A processor, a validator or a staging command fails.                    *)
ToolFails(r) ==
    /\ run[r].step \in Building
    /\ Fault("tool")
    /\ run' = Exit(r, 1)
    /\ UNCHANGED <<donor, entry, files>>

(* INT, HUP or TERM, which assembly.ts forwards to the runner's group: the *)
(* trap runs between any two commands.                                     *)
Signal(r) ==
    /\ run[r].step \in Building \cup Committing
    /\ Fault("signal")
    /\ run' = [Exit(r, 128) EXCEPT ![r].cut = run[r].step \in Committing]
    /\ UNCHANGED <<donor, entry, files>>

Runner(r) ==
    \/ List(r) \/ Build(r) \/ Compare(r) \/ Stage(r) \/ Reserve(r)
    \/ MoveAway(r) \/ MoveIn(r) \/ Undo(r) \/ Restore(r) \/ DropBackups(r)
    \/ Cleanup(r) \/ ToolFails(r) \/ Signal(r)
=============================================================================
