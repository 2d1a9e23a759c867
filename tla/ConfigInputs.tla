---------------------------- MODULE ConfigInputs ----------------------------
(***************************************************************************)
(* The commands on the inputs of compiled configs (files/config/           *)
(* input-state.ts, inputs.ts, install.ts, registration.ts,                 *)
(* links/delivery.ts): inputs are delivered from the producers, put,       *)
(* enabled, disabled and removed, and the runner of ConfigCommit is        *)
(* started on the recipes concerned.  Commands overlap freely.             *)
(***************************************************************************)
EXTENDS ConfigCommit

CONSTANTS
    Order,          \* every name, in the order of the catalog
    RecipeOrder,    \* every recipe, in the order of the spec
    Commands,       \* a subset of CommandKinds
    Overlapping,    \* the commands that run at the same time; others wait
    Strategy,       \* how each delivery delivers: "link" or "copy"
    Starts          \* the first entries and outputs

Deliveries == {"install", "sync", "register"}
Mutations == {"put", "putDisabled", "enable", "disable", "remove"}
CommandKinds == {"assemble", "check"} \cup Deliveries \cup Mutations

Slots == {"active", "disabled"}
Entries == [Names -> [Slots -> Files]]
Outputs == [Recipes -> Contents]

(* A directory lists a name once, and a spec a recipe.                     *)
Lists(seq, S) ==
    /\ seq \in Seq(S) /\ Elements(seq) = S
    /\ \A i, j \in DOMAIN seq : seq[i] = seq[j] => i = j

ASSUME InputsAssumption ==
    /\ Lists(Order, Names) /\ Lists(RecipeOrder, Recipes)
    /\ Commands \subseteq CommandKinds /\ Overlapping \subseteq Commands
    /\ Strategy \in [Deliveries -> {"link", "copy"}]
    /\ Starts \subseteq [entry : Entries, output : Outputs]

VARIABLE saw        \* the two lookups of an entry, of each run

vars == <<donor, entry, output, staged, backup, run, faults, saw>>
shared == <<donor, files>>

Unseen == [s \in Slots |-> "unseen"]

(* An invocation before it starts, and after it has returned or was killed. *)
NoFiles ==
    [entry |-> [n \in Names |-> [s \in Slots |-> "missing"]],
     output |-> [c \in Recipes |-> Missing]]

Resting(step) ==
    [step |-> step, cmd |-> "none", recipes |-> <<>>,
     todo |-> <<>>, catalog |-> [n \in Names |-> "missing"],
     failed |-> FALSE, previous |-> <<>>,
     at |-> 1, listed |-> {}, candidate |-> [c \in Recipes |-> Missing],
     pending |-> <<>>, reserved |-> {}, code |-> 0, cut |-> FALSE,
     clear |-> TRUE, before |-> NoFiles]

Init ==
    /\ donor = [n \in Names |-> [state |-> "enabled", text |-> "v1"]]
    /\ \E s \in Starts : entry = s.entry /\ output = s.output
    /\ staged = [r \in Runs |-> [c \in Recipes |-> Missing]]
    /\ backup = [r \in Runs |-> [c \in Recipes |-> Missing]]
    /\ run = [r \in Runs |-> Resting("idle")]
    /\ saw = [r \in Runs |-> Unseen]
    /\ faults = 0

Busy(r) == run[r].step \notin {"idle", "done"}

(* Bookkeeping for the properties: nobody else works on r's recipes.       *)
Disturb(f, recipes) ==
    [r \in Runs |-> IF Busy(r) /\ Elements(run[r].recipes) \cap recipes # {}
                    THEN [f[r] EXCEPT !.clear = FALSE] ELSE f[r]]

Begin(r) ==
    /\ run[r].step = "idle"
    /\ \E cmd \in Commands, n \in Names :
          LET recipes == IF cmd \in Mutations THEN <<RecipeOf[n]>>
                         ELSE RecipeOrder
              todo == IF cmd \in Mutations THEN <<n>>
                      ELSE IF cmd = "register" THEN Order ELSE <<>>
              step == IF todo # <<>> THEN "look"
                      ELSE IF cmd \in Deliveries THEN "catalog" ELSE "list"
              clear == \A s \in Runs : Busy(s) =>
                          Elements(run[s].recipes) \cap Elements(recipes) = {}
          IN  /\ \A s \in Runs : Busy(s) => {cmd, run[s].cmd} \subseteq Overlapping
              /\ cmd \notin Mutations => n = Order[1]
              /\ run' = [Disturb(run, Elements(recipes)) EXCEPT ![r] =
                    [Resting(step) EXCEPT
                            !.cmd = cmd, !.recipes = recipes,
                            !.todo = todo, !.clear = clear,
                            !.before = [entry |-> entry, output |-> output]]]
    /\ UNCHANGED <<shared, entry, faults, saw>>

(* What the producers have is read name by name.                           *)
Catalog(r) ==
    /\ run[r].step = "catalog"
    /\ LET n == Order[run[r].at]
           state == donor[n].state
           todo == IF state = "missing" THEN run[r].todo
                   ELSE Append(run[r].todo, n)
           last == run[r].at = Len(Order)
       IN  run' = [run EXCEPT
                      ![r].catalog[n] = state,
                      ![r].todo = todo,
                      ![r].step = IF ~last THEN "catalog"
                                  ELSE IF todo # <<>> THEN "look"
                                  ELSE IF run[r].cmd = "sync" THEN "return"
                                  ELSE "list",
                      ![r].at = IF last THEN 1 ELSE @ + 1]
    /\ UNCHANGED <<shared, entry, faults, saw>>

Name(r) == Head(run[r].todo)
Finish(r, code) == [run EXCEPT ![r].step = "return", ![r].code = code]

(* On to the next name of a delivery, and then to the assembly.            *)
Advance(r, failed) ==
    LET bad == failed \/ run[r].failed
        step == IF Len(run[r].todo) > 1 THEN "look"
                ELSE IF run[r].cmd = "install" /\ ~bad THEN "list" ELSE "return"
    IN  [run EXCEPT ![r].todo = Tail(@), ![r].failed = bad, ![r].step = step,
                    ![r].code = IF bad THEN 2 ELSE 0]

Seen(r) == {s \in Slots : saw[r][s] # "missing"}
Conflict(r) == Seen(r) = Slots

(* Both names of an entry are looked up at once, in any order; a delivery  *)
(* looks at its source first.                                              *)
SourceThere(r) ==
    LET n == Name(r) IN
    CASE run[r].cmd = "register" -> donor[n].state = "enabled"
      [] run[r].cmd \in {"install", "sync"} -> donor[n].state = run[r].catalog[n]
      [] OTHER -> TRUE

Look(r) ==
    /\ run[r].step = "look"
    /\ saw[r] = Unseen => SourceThere(r)
    /\ \E s \in Slots :
          /\ saw[r][s] = "unseen"
          /\ saw' = [saw EXCEPT ![r][s] = entry[Name(r)][s]]
          /\ run' = IF saw[r] = Unseen THEN run
                    ELSE [run EXCEPT ![r].step = "act"]
    /\ UNCHANGED <<shared, entry, faults>>

SourceMissing(r) ==
    /\ run[r].step = "look" /\ saw[r] = Unseen /\ ~SourceThere(r)
    /\ run' = IF run[r].cmd = "register" THEN Finish(r, 1)
              ELSE Advance(r, TRUE)
    /\ UNCHANGED <<shared, entry, faults, saw>>

(* replaceWithLink, replaceWithCopy: a temporary file is renamed over the  *)
(* entry.  A copy needs its source.                                        *)
Delivered(r, n, state) ==
    IF Strategy[run[r].cmd] = "link" THEN LinkTo(state) ELSE donor[n].text
CanDeliver(r, n, state) ==
    Strategy[run[r].cmd] = "link" \/ donor[n].state = state

Acts(r, cmds) ==
    /\ run[r].step = "act" /\ run[r].cmd \in cmds
    /\ saw' = [saw EXCEPT ![r] = Unseen]
    /\ UNCHANGED <<shared, faults>>

(* A mutant: the state asked for decides, not the name there is.           *)
SlotForState(r, state) == IF state = "disabled" THEN "disabled" ELSE "active"

(* What is there keeps its name.                                           *)
SlotFor(r, state) ==
    IF "active" \in Seen(r) THEN "active"
    ELSE IF "disabled" \in Seen(r) \/ state = "disabled" THEN "disabled"
    ELSE "active"

(* applyRelation: seed preserves what there is, refresh replaces it where  *)
(* it is.                                                                  *)
Deliver(r) ==
    /\ Acts(r, {"install", "sync"})
    /\ LET n == Name(r)
           state == run[r].catalog[n]
           preserve == run[r].cmd = "install" /\ Seen(r) # {}
           fails == Conflict(r) \/ (~preserve /\ ~CanDeliver(r, n, state))
       IN  /\ run' = Advance(r, fails)
           /\ entry' = IF fails \/ preserve THEN entry
                       ELSE [entry EXCEPT ![n][SlotFor(r, state)] =
                                Delivered(r, n, state)]

(* putInput: the text put goes to the name the entry has.                  *)
Put(r) ==
    /\ Acts(r, {"put", "putDisabled"})
    /\ LET state == IF run[r].cmd = "put" THEN "enabled" ELSE "disabled" IN
       IF Conflict(r)
       THEN run' = Finish(r, 1) /\ entry' = entry
       ELSE /\ run' = Go(r, "list", 1)
            /\ entry' = [entry EXCEPT ![Name(r)][SlotFor(r, state)] = "own"]

(* inputMutation: what was looked up decides; rename and rm then fail on a *)
(* file that has gone, and rename replaces one that has come.              *)
Toggle(r) ==
    /\ Acts(r, {"enable", "disable"})
    /\ LET n == Name(r)
           to == IF run[r].cmd = "enable" THEN "active" ELSE "disabled"
           from == IF to = "active" THEN "disabled" ELSE "active"
       IN  IF Conflict(r) \/ (Seen(r) = {}) \/ (to \in Seen(r))
                \/ entry[n][from] = "missing"
           THEN /\ run' = Finish(r, IF Seen(r) = {to} THEN 0 ELSE 1)
                /\ entry' = entry
           ELSE /\ run' = Go(r, "list", 1)
                /\ entry' = [entry EXCEPT ![n][to] = entry[n][from],
                                          ![n][from] = "missing"]

Remove(r) ==
    /\ Acts(r, {"remove"})
    /\ LET n == Name(r)
           slot == SlotFor(r, "enabled")
       IN  IF Conflict(r) \/ Seen(r) = {} \/ entry[n][slot] = "missing"
           THEN /\ run' = Finish(r, IF Seen(r) = {} THEN 0 ELSE 1)
                /\ entry' = entry
           ELSE /\ run' = Go(r, "list", 1)
                /\ entry' = [entry EXCEPT ![n][slot] = "missing"]

-----------------------------------------------------------------------------
(* withInputBatch: every registration is checked before the first is       *)
(* delivered, the runner works once after the last, and what was there     *)
(* before is put back when it fails.                                       *)

Preflight(r) ==
    /\ Acts(r, {"register"})
    /\ LET n == Name(r)
           slot == SlotFor(r, "enabled")
       IN  run' = IF Conflict(r) THEN Finish(r, 1)
                  ELSE [run EXCEPT
                           ![r].previous = Append(@,
                               [name |-> n, slot |-> slot,
                                file |-> saw[r][slot]]),
                           ![r].todo = Tail(@),
                           ![r].step = IF Len(run[r].todo) > 1 THEN "look"
                                       ELSE "register"]
    /\ entry' = entry

Entry(r) == run[r].previous[run[r].at]

Register(r) ==
    /\ run[r].step = "register"
    /\ LET e == Entry(r)
           fails == ~CanDeliver(r, e.name, "enabled")
           last == run[r].at = Len(run[r].previous)
       IN  \/ /\ ~fails
              /\ entry' = [entry EXCEPT ![e.name][e.slot] =
                               Delivered(r, e.name, "enabled")]
              /\ run' = IF last THEN Go(r, "list", 1)
                        ELSE Go(r, "register", run[r].at + 1)
              /\ UNCHANGED faults
           \/ /\ IF fails THEN UNCHANGED faults ELSE Fault("tool")
              /\ run' = IF run[r].at = 1 THEN Finish(r, 1)
                        ELSE Go(r, "revert", run[r].at - 1)
              /\ entry' = entry
    /\ UNCHANGED <<shared, saw>>

(* From the last entry delivered to the first.  After a failed result the  *)
(* code tries once more, from the last, when a restore fails; it writes    *)
(* the same again, so what fails here is the try that is the last.         *)
Revert(r) ==
    /\ run[r].step = "revert"
    /\ LET e == Entry(r) IN
       \/ /\ entry' = [entry EXCEPT ![e.name][e.slot] = e.file]
          /\ run' = IF run[r].at = 1 THEN Finish(r, 1)
                    ELSE Go(r, "revert", run[r].at - 1)
          /\ UNCHANGED faults
       \/ /\ Fault("move")
          /\ run' = [Finish(r, 1) EXCEPT ![r].cut = TRUE]
          /\ entry' = entry
    /\ UNCHANGED <<shared, saw>>

(* The runner has ended.                                                   *)
Ended(r) ==
    /\ run[r].step = "ended"
    /\ run' = IF run[r].cmd = "register" /\ run[r].code # 0
              THEN Go(r, "revert", Len(run[r].previous))
              ELSE Finish(r, run[r].code)
    /\ UNCHANGED <<shared, entry, faults, saw>>

Return(r) ==
    /\ run[r].step = "return"
    /\ run' = [run EXCEPT ![r] = Resting("done")]
    /\ UNCHANGED <<shared, entry, faults, saw>>

(* The command and its runner are killed; what they renamed stays renamed. *)
Kill(r) ==
    /\ Busy(r)
    /\ Fault("kill")
    /\ run' = [run EXCEPT ![r] = Resting("done")]
    /\ saw' = [saw EXCEPT ![r] = Unseen]
    /\ UNCHANGED <<shared, entry>>

(* A producer changes, disables, enables or withdraws an input.            *)
Produce ==
    /\ Fault("producer")
    /\ \E n \in Names :
          /\ \/ donor' = [donor EXCEPT ![n].text = "v2"]
             \/ \E state \in {"enabled", "disabled", "missing"} :
                   donor' = [donor EXCEPT ![n].state = state]
          /\ donor' # donor
          /\ run' = Disturb(run, {RecipeOf[n]})
    /\ UNCHANGED <<files, entry, saw>>

Command(r) ==
    \/ Begin(r) \/ Catalog(r) \/ Look(r) \/ SourceMissing(r)
    \/ Deliver(r) \/ Put(r) \/ Toggle(r) \/ Remove(r)
    \/ Preflight(r) \/ Register(r) \/ Revert(r)
    \/ (Runner(r) /\ UNCHANGED saw) \/ Ended(r) \/ Return(r)

Next == Produce \/ \E r \in Runs : Command(r) \/ Kill(r)

Spec == Init /\ [][Next]_vars
=============================================================================
