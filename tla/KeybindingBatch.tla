--------------------------- MODULE KeybindingBatch --------------------------
(***************************************************************************)
(* Registrations and the key bindings installed under them                 *)
(* (runtime/registry/register.ts, runtime/keybindings/invocation.ts,       *)
(* files/config/keybindings/runtime.ts and membership.ts).  A batch admits *)
(* a producer and its receivers, publishes the producer's reference and    *)
(* installs the producer's group at one receiver after another; a host     *)
(* publishes a receiver, and a group can be toggled at a receiver.  Nobody *)
(* takes a lock: what was admitted is looked at again before each effect.  *)
(* Every look at a directory is a step of its own, and the operator and    *)
(* the owners change the registry between any two.                         *)
(***************************************************************************)
EXTENDS Registry, Integers, Sequences

CONSTANTS
    Provider,       \* the producer's registration
    Receivers,      \* consumers' registrations
    Order,          \* in which order a batch visits some receivers
    Prospective,    \* receivers a batch may name before they are registered
    Invocations,    \* each used once
    Commands,       \* the commands used, each with the identity it is about
    Options,        \* option sets of a batch or a host
    Established,    \* the registries there may be at the start
    MaxChanges      \* bound on what operator, owners and native tools do

Ids == {Provider} \cup Receivers
CommandKinds == {"batch", "host", "register", "toggle"}
AllCommands ==
    ({"batch", "register"} \X {Provider})
        \cup ({"host", "register", "toggle"} \X Receivers)
AllOptions == [force : BOOLEAN, explicit : BOOLEAN]

ASSUME BatchAssumption ==
    /\ Provider \notin Receivers
    /\ \A S \in SUBSET Receivers : Order[S] \in Seq(S)
    /\ Prospective \subseteq Receivers
    /\ Commands \subseteq AllCommands /\ Options \subseteq AllOptions
    /\ Established \subseteq [Ids -> [Places -> Entries]]
    /\ MaxChanges \in Nat

VARIABLES
    places,         \* the entries of each identity
    enabled,        \* `enabled` in the owners' descriptors
    membership,     \* the producer's group at each receiver
    run,            \* what each invocation holds
    changes

vars == <<places, enabled, membership, run, changes>>
shared == <<places, enabled, membership>>

NoPlan == Observed(Nowhere, TRUE)

(* The last six fields are bookkeeping for the properties: registrations   *)
(* changed by others since the pass of checks under way began, the same    *)
(* for the membership and its guard, whether the looks of a batch's        *)
(* admission agreed, whether anybody but a publisher of the same reference *)
(* was in the way, whether such a publisher came between two looks of one  *)
(* check, and why it failed.                                               *)
Fresh ==
    [cmd |-> "none", id |-> Provider, force |-> FALSE, explicit |-> FALSE,
     step |-> "idle", plan |-> [i \in Ids |-> NoPlan], members |-> <<>>,
     todo |-> <<>>, next |-> "none", saw |-> Nowhere, phase |-> "none",
     group |-> "none",
     moved |-> {}, stale |-> FALSE, steady |-> FALSE, touched |-> FALSE,
     torn |-> FALSE, cause |-> "none"]

(* At the start the group is installed wherever a receiver is registered.  *)
Init ==
    /\ places \in Established
    /\ enabled = [i \in Ids |-> TRUE]
    /\ membership = [m \in Receivers |->
                        IF places[m] = Nowhere THEN "none" ELSE "enabled"]
    /\ run = [p \in Invocations |-> Fresh]
    /\ changes = 0

Change == changes < MaxChanges /\ changes' = changes + 1

Set(p, r) == run' = [run EXCEPT ![p] = r]
Ends(p, cause) ==
    Set(p, [Fresh EXCEPT !.step = IF cause = "none" THEN "done" ELSE "failed",
                         !.cause = cause,
                         !.touched = run[p].touched, !.torn = run[p].torn])

(* A pass over the guards of some identities, and then the next step.      *)
Pass(r, ids, next) ==
    [r EXCEPT !.todo = ids, !.next = next, !.moved = {}, !.phase = "none",
              !.step = IF ids = <<>> THEN next ELSE "verify"]

-----------------------------------------------------------------------------
(* Admission.                                                              *)

Begin(p) ==
    /\ run[p].step = "idle"
    /\ \E cmd \in CommandKinds, i \in Ids, o \in Options :
          /\ <<cmd, i>> \in Commands
          /\ LET r == [Fresh EXCEPT !.cmd = cmd, !.id = i,
                        !.force = o.force /\ cmd # "register",
                        !.explicit = o.explicit /\ cmd = "batch"]
             IN  Set(p, IF cmd = "toggle"
                        THEN [r EXCEPT !.step = "read", !.members = <<i>>]
                        ELSE [r EXCEPT !.step = "plan",
                                       !.plan[i] = Observed(places[i], enabled[i])])
    /\ UNCHANGED <<shared, changes>>

(* The slots are looked at after the registry was observed.                *)
PlanRegistration(p) ==
    /\ run[p].step = "plan"
    /\ LET r == run[p]
           seen == r.plan[r.id]
           slots == SlotsOf(places[r.id])
           plan == Plan(seen.view, slots, seen.on)
           state == Effective(seen.view, seen.on)
       IN  IF \/ Conflicting(seen.view, slots) \/ Blocked(plan)
              \/ /\ r.cmd = "batch"
                 /\ \/ state \in {"masked", "conflict"}
                    \/ state = "disabled" /\ ~r.force
           THEN Ends(p, "refused")
           ELSE LET q == [r EXCEPT !.plan[r.id] = plan] IN
                Set(p, IF r.cmd = "register" THEN [q EXCEPT !.step = "apply"]
                       ELSE [q EXCEPT !.step = "admit"])
    /\ UNCHANGED <<shared, changes>>

(* A second look at the own registration, whatever it is by now.           *)
Admissible(r) ==
    LET view == places[r.id]
        state == Effective(view, enabled[r.id])
    IN  /\ (r.cmd = "batch" \/ view = Nowhere) => r.plan[r.id].on \/ r.force
        /\ view = Nowhere \/ state = "active" \/ (state = "disabled" /\ r.force)
        /\ ~Redirects(view)

(* Whether the two looks of the admission saw the same.                    *)
Steady(r) ==
    LET plan == r.plan[r.id]
    IN  plan = Plan(places[r.id], SlotsOf(places[r.id]), enabled[r.id])

(* The receivers as they are registered, and those named beforehand.       *)
Registered(m) == Effective(places[m], enabled[m]) # "missing"
Candidate(m) == Registered(m) \/ m \in Prospective
StateOf(m) ==
    IF Registered(m) THEN Effective(places[m], enabled[m])
    ELSE IF enabled[m] THEN "active" ELSE "disabled"
Selectable(r, m) ==
    Candidate(m) /\ StateOf(m) \in {"active"} \cup (IF r.force THEN {"disabled"} ELSE {})

Admit(p) ==
    /\ run[p].step = "admit"
    /\ LET r == run[p]
           refused == \/ ~Admissible(r)
                      \/ /\ r.cmd = "batch"
                         /\ \E m \in Receivers :
                               \/ Candidate(m) /\ StateOf(m) = "conflict"
                               \/ r.explicit /\ ~Selectable(r, m)
           members == Order[{m \in Receivers : Selectable(r, m)}]
           plans == [i \in Ids |->
                        IF i = r.id THEN r.plan[i]
                        ELSE [Observed(places[i], enabled[i])
                                 EXCEPT !.exact = i \in Receivers /\ ~Registered(i)]]
       IN  IF refused THEN Ends(p, "refused")
           ELSE Set(p, IF r.cmd = "host" THEN Pass(r, <<r.id>>, "build")
                       ELSE Pass([r EXCEPT !.members = members, !.plan = plans,
                                           !.steady = Steady(r)],
                                 members, "apply"))
    /\ UNCHANGED <<shared, changes>>

-----------------------------------------------------------------------------
(* verifyRegistryGuard: the descriptor, the registry, then the slots.  The *)
(* text of the entry that decides is a file guard of a receiver's own      *)
(* command, so not looked at before the publication.                       *)

(* Mutant: one guard settles the pass.                                     *)
PassedFirst(r) == [r EXCEPT !.todo = Tail(@), !.saw = Nowhere, !.step = r.next]

Passed(r) ==
    [r EXCEPT !.todo = Tail(@), !.saw = Nowhere,
              !.step = IF Len(r.todo) = 1 THEN r.next ELSE "verify"]

Observe(p) ==
    /\ run[p].step = "verify"
    /\ LET r == run[p]
           i == Head(r.todo)
           plan == r.plan[i]
           guarded == \/ plan.exact \/ i \in Prospective
                      \/ r.next # "apply" /\ Winner(plan.view) = "link"
       IN  IF guarded /\ enabled[i] # plan.on THEN Ends(p, "descriptor")
           ELSE IF plan.exact
           THEN Set(p, [r EXCEPT !.saw = places[i], !.step = "inspect"])
           ELSE IF /\ Topology(places[i]) = Topology(plan.view)
                   /\ r.next # "apply" => Winner(places[i]) = Winner(plan.view)
           THEN Set(p, Passed(r))
           ELSE Ends(p, "changed")
    /\ UNCHANGED <<shared, changes>>

Inspect(p) ==
    /\ run[p].step = "inspect"
    /\ LET r == run[p]
           plan == r.plan[Head(r.todo)]
           slots == SlotsOf(places[Head(r.todo)])
       IN  IF Before(plan, r.saw, slots)
           THEN Set(p, Passed([r EXCEPT !.phase = "before"]))
           ELSE IF Published(plan, r.saw, slots)
           THEN Set(p, Passed([r EXCEPT !.phase = "published"]))
           ELSE Ends(p, "exact")
    /\ UNCHANGED <<shared, changes>>

-----------------------------------------------------------------------------
(* applyRegistration.                                                      *)

(* Mutant: the plan is trusted.                                            *)
ApplyPlan(p) ==
    /\ run[p].step = "apply"
    /\ Set(p, [Pass(run[p], <<>>, "publish") EXCEPT !.phase = "before"])
    /\ UNCHANGED <<shared, changes>>

Apply(p) ==
    /\ run[p].step = "apply"
    /\ Set(p, Pass(run[p], <<run[p].id>>, "publish"))
    /\ UNCHANGED <<shared, changes>>

(* To the others it is their own publication, or a change like any other   *)
(* if they planned the other slot or something was overwritten.            *)
Witnessed(r, i, dest) ==
    IF r.step \in {"idle", "done", "failed"} THEN r
    ELSE IF r.plan[i].dest # dest \/ places[i][dest] \notin {"missing", "link"}
    THEN [r EXCEPT !.moved = @ \cup {i}, !.touched = TRUE]
    ELSE [r EXCEPT !.torn = @ \/ (r.step = "inspect" /\ Head(r.todo) = i)]

(* replaceWithLink: a rename over whatever is there by now.                *)
Publish(p) ==
    /\ run[p].step = "publish"
    /\ LET r == run[p]
           i == r.id
           plan == r.plan[i]
           writes == r.phase = "before" /\ Creates(plan)
           after == IF r.cmd = "batch" THEN <<i, i>> ELSE <<i>>
       IN  /\ places' = IF writes THEN [places EXCEPT ![i][plan.dest] = "link"]
                        ELSE places
           /\ run' = [q \in Invocations |->
                 IF q = p THEN Pass(r, after, "receive")
                 ELSE IF writes THEN Witnessed(run[q], i, plan.dest) ELSE run[q]]
    /\ UNCHANGED <<enabled, membership, changes>>

-----------------------------------------------------------------------------
(* The native side.  A host's own root is not modelled.                    *)

NativeFails(p) ==
    /\ run[p].step \in {"build", "guard"}
    /\ Change
    /\ Ends(p, "native")
    /\ UNCHANGED shared

Build(p) ==
    /\ run[p].step = "build"
    /\ Set(p, Pass(run[p], <<run[p].id>>, "apply"))
    /\ UNCHANGED <<shared, changes>>

(* The next receiver of a batch, or the end.                               *)
Receive(p) ==
    /\ run[p].step = "receive"
    /\ LET r == run[p] IN
       IF r.members = <<>> THEN Ends(p, "none")
       ELSE Set(p, Pass(r, <<Head(r.members), r.id>>, "read"))
    /\ UNCHANGED <<shared, changes>>

Receiver(p) == Head(run[p].members)

(* readState; an unknown group cannot be toggled.                          *)
ReadState(p) ==
    /\ run[p].step = "read"
    /\ LET group == membership[Receiver(p)] IN
       IF run[p].cmd = "toggle" /\ group = "none" THEN Ends(p, "refused")
       ELSE Set(p, [run[p] EXCEPT !.group = group, !.step = "guard"])
    /\ UNCHANGED <<shared, changes>>

(* Mutants: the registrations, or the membership, are not looked at again. *)
GuardFiles(p) ==
    /\ run[p].step = "guard"
    /\ IF membership[Receiver(p)] # run[p].group THEN Ends(p, "state")
       ELSE Set(p, Pass([run[p] EXCEPT !.stale = FALSE], <<>>, "commit"))
    /\ UNCHANGED <<shared, changes>>

GuardRegistrations(p) ==
    /\ run[p].step = "guard"
    /\ LET r == run[p]
           ids == IF r.cmd = "toggle" THEN <<>> ELSE <<Receiver(p), r.id>>
       IN  Set(p, Pass([r EXCEPT !.stale = FALSE], ids, "commit"))
    /\ UNCHANGED <<shared, changes>>

(* The last checks before the commit, inside its transaction: files first. *)
Guard(p) ==
    /\ run[p].step = "guard"
    /\ LET r == run[p]
           ids == IF r.cmd = "toggle" THEN <<>> ELSE <<Receiver(p), r.id>>
       IN  IF membership[Receiver(p)] # r.group THEN Ends(p, "state")
           ELSE Set(p, Pass([r EXCEPT !.stale = FALSE], ids, "commit"))
    /\ UNCHANGED <<shared, changes>>

(* The membership is an output of the same commit.  `force` is a toggle's  *)
(* flag; an install keeps the one there is.                                *)
Group(r) ==
    IF r.cmd = "toggle" THEN IF r.force THEN "enabled" ELSE "disabled"
    ELSE IF r.group = "none" THEN "enabled" ELSE r.group

Commit(p) ==
    /\ run[p].step = "commit"
    /\ LET r == run[p]
           m == Receiver(p)
       IN  /\ membership' = [membership EXCEPT ![m] = Group(r)]
           /\ run' = [q \in Invocations |->
                 IF q = p THEN [r EXCEPT !.members = Tail(@), !.step = "receive"]
                 ELSE IF membership'[m] # membership[m] /\ run[q].members # <<>>
                         /\ Receiver(q) = m
                 THEN [run[q] EXCEPT !.stale = TRUE] ELSE run[q]]
    /\ UNCHANGED <<places, enabled, changes>>

-----------------------------------------------------------------------------
(* External: the operator puts, moves and removes entries, and an owner    *)
(* enables or disables its descriptor.                                     *)

Touched(i) ==
    run' = [p \in Invocations |->
        IF run[p].step \in {"idle", "done", "failed"} THEN run[p]
        ELSE [run[p] EXCEPT !.moved = @ \cup {i}, !.touched = TRUE]]

Operate(i) ==
    /\ Change
    /\ \/ \E s \in Places, e \in Entries :
             /\ e \notin {places[i][s], "link"}
             /\ places' = [places EXCEPT ![i][s] = e]
       \/ /\ SlotsOf(places[i]) # SlotsOf(Nowhere)
          /\ places' = [places EXCEPT ![i].active = places[i].disabled,
                                      ![i].disabled = places[i].active]
    /\ Touched(i)
    /\ UNCHANGED <<enabled, membership>>

Edit(i) ==
    /\ Change
    /\ enabled' = [enabled EXCEPT ![i] = ~@]
    /\ Touched(i)
    /\ UNCHANGED <<places, membership>>

Invocation(p) ==
    \/ Begin(p) \/ PlanRegistration(p) \/ Admit(p) \/ Observe(p) \/ Inspect(p)
    \/ Apply(p) \/ Publish(p) \/ NativeFails(p) \/ Build(p) \/ Receive(p)
    \/ ReadState(p) \/ Guard(p) \/ Commit(p)

Next ==
    \/ \E p \in Invocations : Invocation(p)
    \/ \E i \in Ids : Operate(i) \/ Edit(i)

Spec == Init /\ [][Next]_vars
=============================================================================
