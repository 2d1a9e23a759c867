------------------------------ MODULE Registry ------------------------------
(***************************************************************************)
(* Registrations of runtime/registry: what an identity's entries amount    *)
(* to, what an owner plans before it publishes its reference, and what a   *)
(* guard accepts when it looks again (register.ts, guard.ts).  The         *)
(* registry has the root owners write to and one of higher precedence.     *)
(***************************************************************************)

Slots == {"active", "disabled"}         \* <id>.json, <id>.json.disabled
Places == {"over"} \cup Slots           \* and the higher root's <id>.json

(* The owner's reference, the operator's own declaration, the operator's   *)
(* copy of the owner's with `enabled: false`, or a link to /dev/null.      *)
Entries == {"missing", "link", "other", "off", "mask"}

Nowhere == [s \in Places |-> "missing"]
SlotsOf(view) == [s \in Slots |-> view[s]]
Occupied(view) == {s \in Slots : view[s] # "missing"}

(* External: figments.  The highest root decides, a mask hides what is     *)
(* below it, and two entries of one root are a conflict.  `on` is the      *)
(* `enabled` of the owner's descriptor.                                    *)
Winner(view) ==
    IF view.over # "missing" THEN view.over
    ELSE IF view.active # "missing" THEN view.active ELSE view.disabled

Declares(e, on) ==
    CASE e = "missing" -> "missing"
      [] e = "mask" -> "masked"
      [] e = "off" \/ (e = "link" /\ ~on) -> "disabled"
      [] OTHER -> "active"

Effective(view, on) ==
    IF view.over = "missing" /\ Occupied(view) = Slots THEN "conflict"
    ELSE IF /\ view.over = "missing" /\ Occupied(view) = {"disabled"}
            /\ view.disabled # "mask"
    THEN "disabled"
    ELSE Declares(Winner(view), on)

(* The operator's declaration, not the owner's, is the effective one.      *)
Redirects(view) == Winner(view) = "other"

(* planRegistration: the entry there is keeps its name; a first one is     *)
(* disabled if the owner's descriptor is.                                  *)
Destination(view, slots, on) ==
    IF Occupied(view) # {}
    THEN IF "disabled" \in Occupied(view) THEN "disabled" ELSE "active"
    ELSE IF slots.disabled # "missing" \/ (slots.active = "missing" /\ ~on)
    THEN "disabled" ELSE "active"

Plan(view, slots, on) ==
    [view |-> view, slots |-> slots, on |-> on, exact |-> TRUE,
     dest |-> Destination(view, slots, on)]

Conflicting(view, slots) == Slots \in {Occupied(view), Occupied(slots)}
Creates(plan) == plan.slots[plan.dest] = "missing"
Blocked(plan) == plan.slots[plan.dest] \notin {"missing", "link"}

(* registryGuard: what was observed, without a publication to come.        *)
Observed(view, on) == [Plan(view, SlotsOf(view), on) EXCEPT !.exact = FALSE]

(* It compares which entries there are, not what a file among them says.   *)
Topology(view) ==
    [s \in Places |-> IF view[s] = "off" THEN "other" ELSE view[s]]

(* verifyRegistryGuard: nothing has changed, or this publication alone.    *)
Before(plan, view, slots) == view = plan.view /\ slots = plan.slots

(* Mutant: the own publication is a change like any other.                 *)
PublishedNever(plan, view, slots) == FALSE

Published(plan, view, slots) ==
    /\ view[plan.dest] = "link" /\ slots[plan.dest] = "link"
    /\ \A s \in Places \ {plan.dest} : view[s] = plan.view[s]
    /\ \A s \in Slots \ {plan.dest} : slots[s] = plan.slots[s]
=============================================================================
