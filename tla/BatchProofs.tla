---------------------------- MODULE BatchProofs -----------------------------
(***************************************************************************)
(* Publishers of one reference do not fail one another; an install keeps   *)
(* the flag of a group; and a veto holds to the commit.                    *)
(***************************************************************************)
EXTENDS KeybindingProofs

-----------------------------------------------------------------------------
(* The flag of a group.                                                    *)

(* A commit lies ahead, and its group is known.                            *)
Ahead(r) == r.step = "commit" \/ (r.todo # <<>> /\ r.next = "commit")
GroupKept(r) == Ahead(r) /\ ~r.stale => membership[Head(r.members)] = r.group
ToggleInv == TypeInv /\ \A p \in Invocations : GroupKept(run[p])

LEMMA ToggleForeign ==
    ASSUME ToggleInv, NEW p \in Invocations, Foreign(p)
    PROVE  GroupKept(run[p])'
<1> DEFINE r == run[p]
           s == run'[p]
<1>1. /\ Noted(r, s) /\ RunOK(r) /\ GroupKept(r)
      /\ r.members # <<>> =>
            membership'[Receiver(p)] = membership[Receiver(p)] \/ s.stale
  BY ForeignAbides DEF ToggleInv, TypeInv, Abides
<1>2. Ahead(r) => r.members # <<>>
  BY <1>1 DEF Ahead, RunOK
<1>3. QED
  BY <1>1, <1>2 DEF Noted, GroupKept, Ahead, Receiver

(* Only the last look has a commit ahead.                                  *)
LEMMA EndAhead ==
    ASSUME TypeInv, NEW p \in Invocations, NEW cause \in Causes, Ends(p, cause)
    PROVE  ~Ahead(run'[p])
BY EndTyped DEF Ahead

LEMMA OtherAhead ==
    ASSUME TypeInv, NEW p \in Invocations,
           \/ Begin(p) \/ PlanRegistration(p) \/ Admit(p) \/ Apply(p) \/ Publish(p)
           \/ NativeFails(p) \/ Build(p) \/ Receive(p) \/ ReadState(p) \/ Commit(p)
    PROVE  ~Ahead(run'[p])
<1> DEFINE r == run[p]
<1>1. r \in Runs /\ RunOK(r)
  BY DEF TypeInv, TypeOK
<1>2. TypeInv'
  BY TypeStep DEF Next, Invocation
<1>3. RunOK(run'[p])
  BY <1>2 DEF TypeInv
<1>4. CASE \E c \in Causes : Ends(p, c)
  BY <1>4, EndAhead
<1>5. ASSUME run'[p].step \notin {"verify", "inspect", "commit"} PROVE ~Ahead(run'[p])
  BY <1>3, <1>5 DEF RunOK, Ahead
<1>6. ASSUME NEW s \in Runs, NEW ids, NEW next \in {"apply", "build", "publish", "receive", "read"},
             run'[p] = Pass(s, ids, next)
      PROVE  ~Ahead(run'[p])
  <2>1. run'[p].step \in {"verify", next} /\ run'[p].next = next
    BY <1>6, PassFields
  <2>2. QED
    BY <2>1 DEF Ahead
<1>7. CASE Begin(p)
  BY <1>5, <1>7, BeginFields
<1>8. CASE PlanRegistration(p)
  BY <1>4, <1>5, <1>8, PlanFields DEF Causes
<1>9. CASE Admit(p)
  <2>1. \/ Ends(p, "refused")
        \/ run'[p].next = "apply" /\ run'[p].step \in {"apply", "verify"}
        \/ run'[p] = Pass(r, <<r.id>>, "build")
    BY <1>9, AdmitFields
  <2>2. QED
    BY <1>1, <1>4, <1>6, <2>1 DEF Causes, Ahead
<1>10. CASE Apply(p) \/ Build(p)
  <2>1. \E next \in {"apply", "publish"} : run'[p] = Pass(r, <<r.id>>, next)
    BY <1>10, SetIs DEF Apply, Build
  <2>2. QED
    BY <1>1, <1>6, <2>1
<1>11. CASE Publish(p)
  <2>1. \E ids : run'[p] = Pass(r, ids, "receive")
    BY <1>11 DEF Publish
  <2>2. QED
    BY <1>1, <1>6, <2>1
<1>12. CASE NativeFails(p)
  BY <1>4, <1>12 DEF NativeFails, Causes
<1>13. CASE Receive(p)
  <2>1. Ends(p, "none") \/ run'[p] = Pass(r, <<Head(r.members), r.id>>, "read")
    BY <1>13, SetIs DEF Receive
  <2>2. QED
    BY <1>1, <1>4, <1>6, <2>1 DEF Causes
<1>14. CASE ReadState(p)
  <2>1. Ends(p, "refused")
           \/ run'[p] = [r EXCEPT !.group = membership[Receiver(p)], !.step = "guard"]
    BY <1>14, SetIs DEF ReadState
  <2>2. [r EXCEPT !.group = membership[Receiver(p)], !.step = "guard"].step = "guard"
    BY <1>1 DEF Runs
  <2>3. QED
    BY <1>4, <1>5, <2>1, <2>2 DEF Causes
<1>15. CASE Commit(p)
  <2>1. run'[p] = [r EXCEPT !.members = Tail(@), !.step = "receive"]
    BY <1>15 DEF Commit
  <2>2. run'[p].step = "receive"
    BY <1>1, <2>1 DEF Runs
  <2>3. QED
    BY <1>5, <2>2
<1>16. QED
  BY <1>7, <1>8, <1>9, <1>10, <1>11, <1>12, <1>13, <1>14, <1>15

LEMMA LookAhead ==
    ASSUME ToggleInv, NEW p \in Invocations, Observe(p) \/ Inspect(p)
    PROVE  GroupKept(run[p])'
<1> DEFINE r == run[p]
           s == run'[p]
<1>1. /\ RunOK(r) /\ r \in Runs /\ r.todo # <<>> /\ GroupKept(r)
      /\ membership' = membership
  BY DEF Observe, Inspect, shared, ToggleInv, TypeInv, RunOK
<1>2. \/ \E c \in Causes : Ends(p, c)
      \/ s = [r EXCEPT !.saw = places[Head(r.todo)], !.step = "inspect"]
      \/ \E phase \in {"none", "before", "published"} : PassedAs(r, s, phase)
  <2>1. r.phase \in {"none", "before", "published"}
    BY <1>1 DEF Runs
  <2>2. CASE Observe(p)
    <3>1. \/ \E c \in Causes : Ends(p, c)
          \/ s = [r EXCEPT !.saw = places[Head(r.todo)], !.step = "inspect"]
          \/ s = Passed(r)
      BY <2>2, SetIs DEF Observe, Causes, ToggleInv
    <3>2. QED
      BY <1>1, <2>1, <3>1, PassedFields
  <2>3. CASE Inspect(p)
    <3>1. \/ \E c \in Causes : Ends(p, c)
          \/ \E phase \in {"before", "published"} :
                s = Passed([r EXCEPT !.phase = phase])
      BY <2>3, SetIs DEF Inspect, Causes, ToggleInv
    <3>2. QED
      BY <1>1, <3>1, PassedFields
  <2>4. QED
    BY <2>2, <2>3
<1>3. CASE \E c \in Causes : Ends(p, c)
  BY <1>3, EndAhead DEF ToggleInv, GroupKept
<1>4. ASSUME s.next = r.next, s.members = r.members, s.group = r.group,
             s.stale = r.stale, s.step \in {"inspect", "verify", r.next}
      PROVE  GroupKept(r)'
  <2>1. Ahead(s) => Ahead(r)
    BY <1>1, <1>4 DEF Ahead
  <2>2. QED
    BY <1>1, <1>4, <2>1 DEF GroupKept, Ahead
<1>5. CASE s = [r EXCEPT !.saw = places[Head(r.todo)], !.step = "inspect"]
  <2>1. /\ s.next = r.next /\ s.members = r.members /\ s.group = r.group
        /\ s.stale = r.stale /\ s.step = "inspect"
    BY <1>1, <1>5 DEF Runs
  <2>2. QED
    BY <1>4, <2>1
<1>6. CASE \E phase \in {"none", "before", "published"} : PassedAs(r, s, phase)
  BY <1>4, <1>6 DEF PassedAs
<1>7. QED
  BY <1>2, <1>3, <1>5, <1>6

LEMMA GuardAhead ==
    ASSUME ToggleInv, NEW p \in Invocations, Guard(p)
    PROVE  GroupKept(run[p])'
<1> DEFINE r == run[p]
           s == [r EXCEPT !.stale = FALSE]
           ids == IF r.cmd = "toggle" THEN <<>> ELSE <<Receiver(p), r.id>>
<1>1. r \in Runs /\ membership' = membership
  BY DEF Guard, shared, ToggleInv, TypeInv, TypeOK
<1>2. \/ Ends(p, "state")
      \/ membership[Receiver(p)] = r.group /\ run'[p] = Pass(s, ids, "commit")
  BY SetIs DEF Guard, ToggleInv
<1>3. CASE Ends(p, "state")
  BY <1>3, EndAhead DEF ToggleInv, GroupKept, Causes
<1>4. CASE membership[Receiver(p)] = r.group /\ run'[p] = Pass(s, ids, "commit")
  <2>1. s \in Runs /\ s.members = r.members /\ s.group = r.group
    BY <1>1 DEF Runs
  <2>2. run'[p].members = r.members /\ run'[p].group = r.group
    <3> HIDE DEF s, ids
    <3>1. QED
      BY <1>4, <2>1, PassFields
  <2>3. QED
    BY <1>1, <1>4, <2>2 DEF GroupKept, Receiver
<1>5. QED
  BY <1>2, <1>3, <1>4

LEMMA ToggleInit == ASSUME Init PROVE ToggleInv
<1>1. TypeInv
  BY TypeInit
<1>2. ASSUME NEW p \in Invocations PROVE ~Ahead(run[p])
  BY FreshTyped DEF Init, Ahead
<1>3. QED
  BY <1>1, <1>2 DEF ToggleInv, GroupKept

LEMMA ToggleStep == ASSUME ToggleInv, [Next]_vars PROVE ToggleInv'
<1>1. TypeInv /\ TypeInv'
  BY TypeStep DEF ToggleInv
<1>2. ASSUME NEW p \in Invocations PROVE GroupKept(run[p])'
  <2>1. Invocation(p) \/ Foreign(p)
    BY DEF Next, Foreign
  <2>2. CASE Invocation(p)
    <3>1. CASE Observe(p) \/ Inspect(p)
      BY <3>1, LookAhead
    <3>2. CASE Guard(p)
      BY <3>2, GuardAhead
    <3>3. CASE ~(Observe(p) \/ Inspect(p) \/ Guard(p))
      <4>1. ~Ahead(run'[p])
        BY <1>1, <2>2, <3>3, OtherAhead DEF Invocation
      <4>2. QED
        BY <4>1 DEF GroupKept, Ahead
    <3>4. QED
      BY <3>1, <3>2, <3>3
  <2>3. QED
    BY <2>1, <2>2, ToggleForeign
<1>3. QED
  BY <1>1, <1>2 DEF ToggleInv

LEMMA CommitKeeps ==
    ASSUME ToggleInv, NEW p \in Invocations,
           Commit(p), run[p].cmd = "batch", ~run[p].stale
    PROVE  membership'[Receiver(p)] \in
             {membership[Receiver(p)]} \cup
                (IF membership[Receiver(p)] = "none" THEN {"enabled"} ELSE {})
<1> DEFINE r == run[p]
<1>1. r \in Runs /\ RunOK(r) /\ r.step = "commit" /\ r.members # <<>>
  BY DEF Commit, ToggleInv, TypeInv, TypeOK, RunOK
<1>2. membership[Receiver(p)] = r.group
  BY <1>1 DEF ToggleInv, GroupKept, Ahead, Receiver
<1>3. Receiver(p) \in Receivers
  BY <1>1, HeadTail DEF Receiver, Runs
<1>4. membership' = [membership EXCEPT ![Receiver(p)] = Group(r)]
  BY DEF Commit
<1>5. membership'[Receiver(p)] = Group(r)
  BY <1>3, <1>4 DEF ToggleInv, TypeInv, TypeOK
<1>6. QED
  BY <1>2, <1>5 DEF Group

(* An install keeps the flag the operator set (ToggleKept), however many   *)
(* batches and toggles write one membership.                               *)
THEOREM TogglesKept == Spec => ToggleKept
<1>1. ASSUME ToggleInv, [Next]_vars
      PROVE  [\A p \in Invocations :
                (Commit(p) /\ run[p].cmd = "batch" /\ ~run[p].stale) =>
                membership'[Receiver(p)] \in
                   {membership[Receiver(p)]} \cup
                      (IF membership[Receiver(p)] = "none" THEN {"enabled"}
                       ELSE {})]_vars
  BY <1>1, CommitKeeps
<1>2. QED
  BY <1>1, ToggleInit, ToggleStep, PTL DEF Spec, ToggleKept

-----------------------------------------------------------------------------
(* Publishers of one reference.                                            *)

(* Nobody but a publisher of the planned reference came in between.        *)
Near(r, i) ==
    /\ Within(places[i], r.plan[i].view, r.plan[i].dest)
    /\ WithinSlots(places[i], r.plan[i].slots, r.plan[i].dest)

Agreeing(r) ==
    /\ r.step = "plan" =>
          LET plan == r.plan[r.id] IN
          /\ \A i \in Ids : ~r.plan[i].exact
          /\ plan.dest = Destination(plan.view, SlotsOf(plan.view), plan.on)
          /\ ~r.touched => Within(places[r.id], plan.view, plan.dest)
    /\ Active(r) /\ ~r.touched => \A i \in Ids : r.plan[i].exact => Near(r, i)
    /\ r.step = "inspect" /\ ~r.touched /\ ~r.torn => r.saw = places[Head(r.todo)]
    /\ r.cause = "exact" => r.touched \/ r.torn

AgreeInv == PublishInv /\ \A p \in Invocations : Agreeing(run[p])

(* A publication between the two looks of a plan leaves its destination.   *)
LEMMA SameDestination ==
    ASSUME NEW now \in Views, NEW view \in Views, NEW on \in BOOLEAN,
           Within(now, view, Destination(view, SlotsOf(view), on))
    PROVE  Destination(view, SlotsOf(now), on) = Destination(view, SlotsOf(view), on)
<1> DEFINE d == Destination(view, SlotsOf(view), on)
<1>1. CASE Occupied(view) # {}
  BY <1>1 DEF Destination
<1>2. CASE Occupied(view) = {}
  <2>1. view.active = "missing" /\ view.disabled = "missing"
    BY <1>2 DEF Occupied, Slots
  <2>2. d = IF on THEN "active" ELSE "disabled"
    BY <1>2, <2>1 DEF Destination, SlotsOf, Slots
  <2>3. /\ now.active = "missing" \/ (d = "active" /\ now.active = "link")
        /\ now.disabled = "missing" \/ (d = "disabled" /\ now.disabled = "link")
    BY <2>1 DEF Within, Places, Slots
  <2>4. SlotsOf(now).active = now.active /\ SlotsOf(now).disabled = now.disabled
    BY DEF SlotsOf, Slots
  <2>5. QED
    BY <1>2, <2>2, <2>3, <2>4 DEF Destination
<1>3. QED
  BY <1>1, <1>2

(* What is near passes the guard.                                          *)
LEMMA NearPasses ==
    ASSUME NEW plan \in Plans, NEW now \in Views,
           Within(now, plan.view, plan.dest), WithinSlots(now, plan.slots, plan.dest)
    PROVE  Before(plan, now, SlotsOf(now)) \/ Published(plan, now, SlotsOf(now))
<1>1. /\ plan.dest \in Slots /\ plan.view \in [Places -> Entries]
      /\ plan.slots \in [Slots -> Entries] /\ now \in [Places -> Entries]
      /\ SlotsOf(now) \in [Slots -> Entries]
  BY DEF Plans, Views, SlotsOf, Places
<1>2. \A s \in Slots : SlotsOf(now)[s] = now[s]
  BY DEF SlotsOf
<1>3. CASE now[plan.dest] = "link"
  BY <1>1, <1>2, <1>3 DEF Published, Within, WithinSlots
<1>4. CASE now[plan.dest] # "link"
  <2>1. \A s \in Places : now[s] = plan.view[s]
    BY <1>4 DEF Within
  <2>2. \A s \in Slots : SlotsOf(now)[s] = plan.slots[s]
    BY <1>2, <1>4 DEF WithinSlots
  <2>3. now = plan.view
    BY <1>1, <2>1
  <2>4. SlotsOf(now) = plan.slots
    BY <1>1, <2>2
  <2>5. QED
    BY <2>3, <2>4 DEF Before
<1>5. QED
  BY <1>3, <1>4

LEMMA AgreeForeign ==
    ASSUME AgreeInv, NEW p \in Invocations, Foreign(p)
    PROVE  Agreeing(run[p])'
<1> DEFINE r == run[p]
           s == run'[p]
<1>1. Noted(r, s) /\ (Active(r) => \A i \in Ids : Drifted(r, s, i))
  BY ForeignAbides DEF AgreeInv, PublishInv, Abides
<1>2. /\ r \in Runs /\ RunOK(r) /\ Agreeing(r) /\ r.plan \in [Ids -> Plans]
      /\ places \in [Ids -> Views]
  BY DEF AgreeInv, PublishInv, TypeInv, TypeOK, Runs
<1>3. /\ s.step = r.step /\ s.plan = r.plan /\ s.id = r.id /\ s.todo = r.todo
      /\ s.saw = r.saw /\ s.cause = r.cause
      /\ ~s.touched => ~r.touched
      /\ ~s.torn => ~r.torn
  BY <1>1 DEF Noted
<1>4. ASSUME Active(r), ~s.touched, NEW i \in Ids, NEW seen \in Views,
             Within(places[i], seen, r.plan[i].dest)
      PROVE  Within(places'[i], seen, r.plan[i].dest)
  BY <1>1, <1>2, <1>4, WithinDrift DEF Plans
<1>5. ASSUME Active(r), ~s.touched, NEW i \in Ids, Near(r, i)
      PROVE  /\ Within(places'[i], r.plan[i].view, r.plan[i].dest)
             /\ WithinSlots(places'[i], r.plan[i].slots, r.plan[i].dest)
  <2>1. r.plan[i].view \in Views /\ r.plan[i].slots \in [Slots -> Entries]
        /\ r.plan[i].dest \in Slots
    BY <1>2 DEF Plans
  <2>2. QED
    BY <1>1, <1>2, <1>5, <2>1, WithinDrift DEF Near
<1>6. ASSUME s.step = "plan", ~s.touched
      PROVE  Within(places'[r.id], r.plan[r.id].view, r.plan[r.id].dest)
  <2>1. r.id \in Ids /\ Active(r) /\ r.plan[r.id].view \in Views
    BY <1>2, <1>3, <1>6 DEF Runs, Plans, Active
  <2>2. QED
    BY <1>2, <1>3, <1>4, <1>6, <2>1 DEF Agreeing
<1>7. ASSUME s.step = "inspect", ~s.touched, ~s.torn
      PROVE  s.saw = places'[Head(s.todo)]
  <2>1. r.saw = places[Head(r.todo)] /\ Active(r)
    BY <1>2, <1>3, <1>7 DEF Agreeing, Active
  <2>2. Head(r.todo) \in Ids
    BY <1>2, <1>3, <1>7, HeadTail DEF RunOK, Runs
  <2>3. QED
    BY <1>1, <1>3, <1>7, <2>1, <2>2 DEF Drifted
<1>8. ASSUME Active(s), ~s.touched, NEW i \in Ids, s.plan[i].exact
      PROVE  /\ Within(places'[i], s.plan[i].view, s.plan[i].dest)
             /\ WithinSlots(places'[i], s.plan[i].slots, s.plan[i].dest)
  BY <1>2, <1>3, <1>5, <1>8 DEF Agreeing, Active
<1>9. s.cause = "exact" => s.touched \/ s.torn
  BY <1>2, <1>3 DEF Agreeing
<1>10. s.step = "plan" =>
          /\ \A i \in Ids : ~s.plan[i].exact
          /\ s.plan[s.id].dest =
                Destination(s.plan[s.id].view, SlotsOf(s.plan[s.id].view), s.plan[s.id].on)
  BY <1>2, <1>3 DEF Agreeing
<1>11. QED
  BY <1>3, <1>6, <1>7, <1>8, <1>9, <1>10 DEF Agreeing, Near, Active

LEMMA EndAgrees ==
    ASSUME TypeInv, NEW p \in Invocations, NEW cause \in Causes, Ends(p, cause),
           cause = "exact" => run[p].touched \/ run[p].torn
    PROVE  Agreeing(run[p])'
<1>1. /\ run'[p].step \in {"done", "failed"} /\ run'[p].cause = cause
      /\ run'[p].touched = run[p].touched /\ run'[p].torn = run[p].torn
  BY EndTyped
<1>2. QED
  BY <1>1 DEF Agreeing, Active

(* A step that neither plans nor looks carries what agreed.                *)
LEMMA Carried ==
    ASSUME AgreeInv, NEW p \in Invocations, Active(run[p]),
           run'[p].plan = run[p].plan, run'[p].touched = run[p].touched,
           run'[p].torn = run[p].torn, run'[p].cause = run[p].cause,
           run'[p].step \notin {"plan", "inspect"},
           \A i \in Ids :
              run[p].plan[i].exact /\ ~run[p].touched /\ Near(run[p], i) =>
                 /\ Within(places'[i], run[p].plan[i].view, run[p].plan[i].dest)
                 /\ WithinSlots(places'[i], run[p].plan[i].slots, run[p].plan[i].dest)
    PROVE  Agreeing(run[p])'
BY DEF AgreeInv, Agreeing, Near

LEMMA BeginAgrees ==
    ASSUME AgreeInv, NEW p \in Invocations, Begin(p)
    PROVE  Agreeing(run[p])'
<1> DEFINE s == run'[p]
           none == [j \in Ids |-> NoPlan]
<1>1. PICK cmd \in CommandKinds, i \in Ids :
         /\ s.id = i /\ s.step = IF cmd = "toggle" THEN "read" ELSE "plan"
         /\ s.plan = IF cmd = "toggle" THEN none
                     ELSE [none EXCEPT ![i] = Observed(places[i], enabled[i])]
         /\ s.cause = "none"
  <2>1. TypeInv
    BY DEF AgreeInv, PublishInv
  <2>2. QED
    BY <2>1, BeginFields, ZenonT(60)
<1>2. places' = places
  BY DEF Begin, shared
<1>3. /\ ~NoPlan.exact /\ ~Observed(places[i], enabled[i]).exact
      /\ Observed(places[i], enabled[i]).view = places[i]
      /\ Observed(places[i], enabled[i]).on = enabled[i]
      /\ Observed(places[i], enabled[i]).dest
            = Destination(places[i], SlotsOf(places[i]), enabled[i])
  BY DEF NoPlan, Observed, Plan
<1>4. \A j \in Ids : ~s.plan[j].exact
  BY <1>1, <1>3
<1>5. s.step = "plan" => s.plan[i] = Observed(places[i], enabled[i])
  BY <1>1
<1>6. s.step \in {"read", "plan"}
  BY <1>1
<1>7. Within(places[i], places[i], s.plan[i].dest)
  BY DEF Within
<1>8. QED
  BY <1>1, <1>2, <1>3, <1>4, <1>5, <1>6, <1>7 DEF Agreeing

LEMMA PlanAgrees ==
    ASSUME AgreeInv, NEW p \in Invocations, PlanRegistration(p)
    PROVE  Agreeing(run[p])'
<1> DEFINE r == run[p]
           s == run'[p]
           seen == r.plan[r.id]
           plan == Plan(seen.view, SlotsOf(places[r.id]), seen.on)
<1>1. /\ TypeInv /\ r \in Runs /\ Agreeing(r) /\ r.step = "plan" /\ r.id \in Ids
      /\ r.plan \in [Ids -> Plans] /\ places[r.id] \in Views
  BY DEF AgreeInv, PublishInv, TypeInv, TypeOK, Runs, PlanRegistration
<1>2. places' = places
  BY DEF PlanRegistration, shared
<1>3. CASE Ends(p, "refused")
  BY <1>1, <1>3, EndAgrees DEF Causes
<1>4. CASE /\ s.step \in {"apply", "admit"} /\ s.plan = [r.plan EXCEPT ![r.id] = plan]
           /\ s.id = r.id /\ s.cause = r.cause
           /\ s.touched = r.touched /\ s.torn = r.torn
  <2>1. ASSUME ~r.touched PROVE Within(places[r.id], seen.view, plan.dest)
    <3>1. /\ seen.view \in Views /\ seen.on \in BOOLEAN
          /\ seen.dest = Destination(seen.view, SlotsOf(seen.view), seen.on)
          /\ Within(places[r.id], seen.view, seen.dest)
      BY <1>1, <2>1 DEF Agreeing, Plans
    <3>2. plan.dest = seen.dest
      BY <1>1, <3>1, SameDestination DEF Plan
    <3>3. QED
      BY <3>1, <3>2
  <2>2. WithinSlots(places[r.id], plan.slots, plan.dest) /\ plan.view = seen.view
    BY DEF WithinSlots, SlotsOf, Plan
  <2>3. \A i \in Ids : s.plan[i].exact => i = r.id
    BY <1>1, <1>4 DEF Agreeing
  <2>4. s.plan[r.id] = plan
    BY <1>1, <1>4
  <2> HIDE DEF plan
  <2>5. QED
    BY <1>1, <1>2, <1>4, <2>1, <2>2, <2>3, <2>4 DEF Agreeing, Near
<1>5. QED
  BY <1>1, <1>3, <1>4, PlanFields

LEMMA AdmitAgrees ==
    ASSUME AgreeInv, NEW p \in Invocations, Admit(p)
    PROVE  Agreeing(run[p])'
<1> DEFINE r == run[p]
           s == run'[p]
           members == Order[{m \in Receivers : Selectable(r, m)}]
<1>1. /\ TypeInv /\ r \in Runs /\ Agreeing(r) /\ Active(r) /\ r.id \in Ids
      /\ places' = places
  BY DEF AgreeInv, PublishInv, TypeInv, TypeOK, Runs, Admit, Active, shared
<1>2. CASE Ends(p, "refused")
  BY <1>1, <1>2, EndAgrees DEF Causes
<1>3. CASE /\ s.step \in {"apply", "verify"} /\ s.plan = AdmittedPlans(r)
           /\ s.cause = r.cause /\ s.touched = r.touched /\ s.torn = r.torn
  <2>1. ASSUME NEW i \in Ids, s.plan[i].exact, ~r.touched
        PROVE  /\ Within(places[i], s.plan[i].view, s.plan[i].dest)
               /\ WithinSlots(places[i], s.plan[i].slots, s.plan[i].dest)
    <3>1. CASE i = r.id
      <4>1. s.plan[i] = r.plan[i]
        BY <1>3, <3>1 DEF AdmittedPlans
      <4>2. QED
        BY <1>1, <2>1, <4>1 DEF Agreeing, Near
    <3>2. CASE i # r.id
      <4>1. s.plan[i] = [Observed(places[i], enabled[i])
                            EXCEPT !.exact = i \in Receivers /\ ~Registered(i)]
        BY <1>3, <3>2 DEF AdmittedPlans
      <4>2. s.plan[i].view = places[i] /\ s.plan[i].slots = SlotsOf(places[i])
        BY <4>1 DEF Observed, Plan
      <4>3. QED
        BY <4>2 DEF Within, WithinSlots, SlotsOf
    <3>3. QED
      BY <3>1, <3>2
  <2>2. QED
    BY <1>1, <1>3, <2>1 DEF Agreeing, Near
<1>4. CASE s = Pass(r, <<r.id>>, "build")
  <2>1. /\ s.step = "verify" /\ s.plan = r.plan /\ s.touched = r.touched
        /\ s.torn = r.torn /\ s.cause = r.cause
    BY <1>1, <1>4, PassFields
  <2>2. QED
    BY <1>1, <2>1, Carried DEF Near
<1>5. QED
  BY <1>1, <1>2, <1>3, <1>4, AdmitFields

LEMMA PassedAgrees ==
    ASSUME AgreeInv, NEW p \in Invocations, Active(run[p]), run[p].todo # <<>>,
           NEW phase, PassedAs(run[p], run'[p], phase), places' = places
    PROVE  Agreeing(run[p])'
<1> DEFINE r == run[p]
<1>1. RunOK(r)
  BY DEF AgreeInv, PublishInv, TypeInv
<1>2. run'[p].step \notin {"plan", "inspect"}
  BY <1>1 DEF PassedAs, RunOK, Targets
<1>3. QED
  BY <1>2, Carried DEF PassedAs, Near

LEMMA ObserveAgrees ==
    ASSUME AgreeInv, NEW p \in Invocations, Observe(p)
    PROVE  Agreeing(run[p])'
<1> DEFINE r == run[p]
           s == [r EXCEPT !.saw = places[Head(r.todo)], !.step = "inspect"]
<1>1. /\ TypeInv /\ r \in Runs /\ RunOK(r) /\ Agreeing(r) /\ Active(r)
      /\ r.todo # <<>> /\ r.phase \in {"none", "before", "published"}
      /\ places' = places
  BY DEF AgreeInv, PublishInv, TypeInv, TypeOK, Runs, RunOK, Observe, Active, shared
<1>2. \/ Ends(p, "descriptor") \/ Ends(p, "changed")
      \/ run'[p] = s \/ run'[p] = Passed(r)
  BY <1>1, SetIs DEF Observe
<1>3. CASE Ends(p, "descriptor") \/ Ends(p, "changed")
  BY <1>1, <1>3, EndAgrees DEF Causes
<1>4. CASE run'[p] = s
  <2>1. /\ s.step = "inspect" /\ s.plan = r.plan /\ s.todo = r.todo
        /\ s.saw = places[Head(r.todo)] /\ s.cause = r.cause
        /\ s.touched = r.touched /\ s.torn = r.torn
    BY <1>1 DEF Runs
  <2> HIDE DEF s
  <2>2. QED
    BY <1>1, <1>4, <2>1 DEF Agreeing, Near, Active
<1>5. CASE run'[p] = Passed(r)
  <2>1. PassedAs(r, run'[p], r.phase)
    BY <1>1, <1>5, PassedFields
  <2>2. QED
    BY <1>1, <2>1, PassedAgrees
<1>6. QED
  BY <1>2, <1>3, <1>4, <1>5

LEMMA InspectAgrees ==
    ASSUME AgreeInv, NEW p \in Invocations, Inspect(p)
    PROVE  Agreeing(run[p])'
<1> DEFINE r == run[p]
           i == Head(r.todo)
           plan == r.plan[i]
           slots == SlotsOf(places[i])
<1>1. /\ TypeInv /\ r \in Runs /\ RunOK(r) /\ Agreeing(r) /\ Looking(r)
      /\ Active(r) /\ r.step = "inspect" /\ r.todo # <<>> /\ places' = places
  BY DEF AgreeInv, PublishInv, TypeInv, TypeOK, RunOK, Inspect, Active, shared
<1>2. i \in Ids /\ plan \in Plans /\ places[i] \in Views /\ plan.exact
  BY <1>1, HeadTail DEF Runs, TypeInv, TypeOK, Looking
<1>3. \/ \E phase \in {"before", "published"} : PassedAs(r, run'[p], phase)
      \/ Ends(p, "exact") /\ ~Before(plan, r.saw, slots) /\ ~Published(plan, r.saw, slots)
  <2>1. \/ Ends(p, "exact") /\ ~Before(plan, r.saw, slots)
                            /\ ~Published(plan, r.saw, slots)
        \/ \E phase \in {"before", "published"} :
              run'[p] = Passed([r EXCEPT !.phase = phase])
    BY <1>1, SetIs DEF Inspect
  <2>2. QED
    BY <1>1, <2>1, PassedFields
<1>4. CASE \E phase \in {"before", "published"} : PassedAs(r, run'[p], phase)
  BY <1>1, <1>4, PassedAgrees
<1>5. CASE Ends(p, "exact") /\ ~Before(plan, r.saw, slots)
           /\ ~Published(plan, r.saw, slots)
  <2>1. ASSUME ~r.touched, ~r.torn PROVE FALSE
    <3>1. r.saw = places[i] /\ Near(r, i)
      BY <1>1, <1>2, <2>1 DEF Agreeing
    <3>2. Before(plan, r.saw, slots) \/ Published(plan, r.saw, slots)
      BY <1>2, <3>1, NearPasses DEF Near
    <3>3. QED
      BY <1>5, <3>2
  <2>2. QED
    BY <1>1, <1>5, <2>1, EndAgrees DEF Causes
<1>6. QED
  BY <1>3, <1>4, <1>5

(* The own publication is a publication of the planned reference.          *)
LEMMA PublishAgrees ==
    ASSUME AgreeInv, NEW p \in Invocations, Publish(p)
    PROVE  Agreeing(run[p])'
<1> DEFINE r == run[p]
           i == r.id
           plan == r.plan[i]
           after == IF r.cmd = "batch" THEN <<i, i>> ELSE <<i>>
           writes == r.phase = "before" /\ Creates(plan)
<1>1. /\ r \in Runs /\ Active(r) /\ i \in Ids /\ plan \in Plans
      /\ places \in [Ids -> Views]
  BY DEF AgreeInv, PublishInv, TypeInv, TypeOK, Runs, Publish, Active
<1>2. /\ run'[p] = Pass(r, after, "receive") /\ after # <<>>
      /\ places' = IF writes THEN [places EXCEPT ![i][plan.dest] = "link"] ELSE places
  BY DEF Publish
<1>3. /\ run'[p].step = "verify" /\ run'[p].plan = r.plan
      /\ run'[p].touched = r.touched /\ run'[p].torn = r.torn
      /\ run'[p].cause = r.cause
  <2> HIDE DEF after
  <2>1. QED
    BY <1>1, <1>2, PassFields
<1>4. ASSUME NEW j \in Ids, Near(r, j)
      PROVE  /\ Within(places'[j], r.plan[j].view, r.plan[j].dest)
             /\ WithinSlots(places'[j], r.plan[j].slots, r.plan[j].dest)
  <2>1. CASE j # i \/ ~writes
    <3>1. places'[j] = places[j]
      BY <1>1, <1>2, <2>1
    <3>2. QED
      BY <1>4, <3>1 DEF Near
  <2>2. CASE j = i /\ writes
    <3>1. places'[i] = [places[i] EXCEPT ![plan.dest] = "link"]
      BY <1>1, <1>2, <2>2
    <3>2. /\ places[i] \in [Places -> Entries] /\ Slots \subseteq Places
          /\ plan.dest \in Slots /\ plan.slots[plan.dest] = "missing"
      BY <1>1, <2>2 DEF Views, Plans, Places, Creates
    <3>3. /\ Within(places[i], plan.view, plan.dest)
          /\ WithinSlots(places[i], plan.slots, plan.dest)
      BY <1>4, <2>2 DEF Near
    <3>4. WithinSlots(places'[i], plan.slots, plan.dest)
      BY <3>1, <3>2, <3>3 DEF WithinSlots
    <3>5. plan.view[plan.dest] \in {"missing", "link"}
      BY <3>2, <3>3 DEF Within, WithinSlots
    <3>6. Within(places'[i], plan.view, plan.dest)
      BY <3>1, <3>2, <3>3, <3>5 DEF Within
    <3>7. QED
      BY <2>2, <3>4, <3>6
  <2>3. QED
    BY <2>1, <2>2
<1>5. QED
  BY <1>1, <1>3, <1>4, Carried

LEMMA RestAgrees ==
    ASSUME AgreeInv, NEW p \in Invocations,
           \/ Apply(p) \/ Build(p) \/ NativeFails(p) \/ Receive(p)
           \/ ReadState(p) \/ Guard(p) \/ Commit(p)
    PROVE  Agreeing(run[p])'
<1> DEFINE r == run[p]
           s == run'[p]
<1>1. /\ TypeInv /\ r \in Runs /\ Active(r) /\ places' = places
  BY DEF AgreeInv, PublishInv, TypeInv, TypeOK, Active, shared, Apply, Build,
         NativeFails, Receive, ReadState, Guard, Commit
<1>2. CASE \E c \in Causes \ {"exact"} : Ends(p, c)
  BY <1>1, <1>2, EndAgrees
<1>3. ASSUME s.step \notin {"plan", "inspect"}, s.plan = r.plan,
             s.touched = r.touched, s.torn = r.torn, s.cause = r.cause
      PROVE  Agreeing(r)'
  BY <1>1, <1>3, Carried DEF Near
<1>4. ASSUME NEW q \in Runs, NEW ids, NEW next \in Targets, s = Pass(q, ids, next),
             q.plan = r.plan, q.touched = r.touched, q.torn = r.torn, q.cause = r.cause
      PROVE  Agreeing(r)'
  <2>1. /\ s.step \in {"verify", next} /\ s.plan = r.plan
        /\ s.touched = r.touched /\ s.torn = r.torn /\ s.cause = r.cause
    BY <1>4, PassFields
  <2>2. QED
    BY <1>3, <2>1 DEF Targets
<1>5. CASE Apply(p) \/ Build(p)
  <2>1. \E next \in {"apply", "publish"} : s = Pass(r, <<r.id>>, next)
    BY <1>1, <1>5, SetIs DEF Apply, Build
  <2>2. QED
    BY <1>1, <1>4, <2>1 DEF Targets
<1>6. CASE NativeFails(p)
  BY <1>2, <1>6 DEF NativeFails, Causes
<1>7. CASE Receive(p)
  <2>1. Ends(p, "none") \/ s = Pass(r, <<Head(r.members), r.id>>, "read")
    BY <1>1, <1>7, SetIs DEF Receive
  <2>2. QED
    BY <1>1, <1>2, <1>4, <2>1 DEF Targets, Causes
<1>8. CASE ReadState(p)
  <2> DEFINE q == [r EXCEPT !.group = membership[Receiver(p)], !.step = "guard"]
  <2>1. Ends(p, "refused") \/ s = q
    BY <1>1, <1>8, SetIs DEF ReadState
  <2>2. /\ q.step = "guard" /\ q.plan = r.plan /\ q.touched = r.touched
        /\ q.torn = r.torn /\ q.cause = r.cause
    BY <1>1 DEF Runs
  <2> HIDE DEF q
  <2>3. QED
    BY <1>2, <1>3, <2>1, <2>2 DEF Causes
<1>9. CASE Guard(p)
  <2> DEFINE q == [r EXCEPT !.stale = FALSE]
             ids == IF r.cmd = "toggle" THEN <<>> ELSE <<Receiver(p), r.id>>
  <2>1. Ends(p, "state") \/ s = Pass(q, ids, "commit")
    BY <1>1, <1>9, SetIs DEF Guard
  <2>2. /\ q \in Runs /\ q.plan = r.plan /\ q.touched = r.touched
        /\ q.torn = r.torn /\ q.cause = r.cause
    BY <1>1 DEF Runs
  <2> HIDE DEF q, ids
  <2>3. QED
    BY <1>2, <1>4, <2>1, <2>2 DEF Targets, Causes
<1>10. CASE Commit(p)
  <2> DEFINE q == [r EXCEPT !.members = Tail(@), !.step = "receive"]
  <2>1. s = q
    BY <1>10 DEF Commit
  <2>2. /\ q.step = "receive" /\ q.plan = r.plan /\ q.touched = r.touched
        /\ q.torn = r.torn /\ q.cause = r.cause
    BY <1>1 DEF Runs
  <2> HIDE DEF q
  <2>3. QED
    BY <1>3, <2>1, <2>2
<1>11. QED
  BY <1>5, <1>6, <1>7, <1>8, <1>9, <1>10

LEMMA AgreeInit == ASSUME Init PROVE AgreeInv
<1>1. PublishInv
  BY PublishInit
<1>2. ASSUME NEW p \in Invocations PROVE Agreeing(run[p])
  <2>1. run[p].step = "idle" /\ run[p].cause = "none"
    BY FreshTyped DEF Init, Fresh
  <2>2. QED
    BY <2>1 DEF Agreeing, Active
<1>3. QED
  BY <1>1, <1>2 DEF AgreeInv

LEMMA AgreeStep == ASSUME AgreeInv, [Next]_vars PROVE AgreeInv'
<1>1. PublishInv'
  BY PublishStep DEF AgreeInv
<1>2. ASSUME NEW p \in Invocations PROVE Agreeing(run[p])'
  <2>1. Invocation(p) \/ Foreign(p)
    BY DEF Next, Foreign
  <2>2. CASE Invocation(p)
    BY <2>2, BeginAgrees, PlanAgrees, AdmitAgrees, ObserveAgrees, InspectAgrees,
       PublishAgrees, RestAgrees DEF Invocation
  <2>3. QED
    BY <2>1, <2>2, AgreeForeign
<1>3. QED
  BY <1>1, <1>2 DEF AgreeInv

(* Publishers of one reference do not fail one another                     *)
(* (AgreeOnPublication), however many there are.                           *)
THEOREM PublishersAgree == Spec => []AgreeOnPublication
<1>1. AgreeInv => AgreeOnPublication
  BY DEF AgreeInv, Agreeing, AgreeOnPublication
<1>2. QED
  BY <1>1, AgreeInit, AgreeStep, PTL DEF Spec

-----------------------------------------------------------------------------
(* Vetoes.                                                                 *)

(* What a batch was admitted with.                                         *)
Fit(r, i) ==
    LET plan == r.plan[i]
        state == Effective(plan.view, plan.on)
    IN  /\ plan.dest = Destination(plan.view, SlotsOf(plan.view), plan.on)
        /\ IF plan.view = Nowhere THEN plan.exact /\ (plan.on \/ r.force)
           ELSE state = "active" \/ (state = "disabled" /\ r.force)
        /\ plan.exact =>
              /\ plan.slots = SlotsOf(plan.view)
              /\ plan.view[plan.dest] \in {"missing", "link"}
        /\ i = Provider => ~Redirects(plan.view)

(* As it was, but for a publication and what files say that do not decide. *)
Alike(now, view, d) ==
    \E was \in Views : /\ Topology(was) = Topology(view)
                       /\ Winner(was) = Winner(view)
                       /\ Within(now, was, d)

(* What a guard that passed has shown.                                     *)
Kept(r, i) ==
    LET plan == r.plan[i]
    IN  /\ Alike(places[i], plan.view, plan.dest)
        /\ plan.exact \/ Winner(plan.view) = "link" => enabled[i] = plan.on

Chosen(r) ==
    /\ r.cmd = "batch" => r.id = Provider
    /\ r.step = "plan" => ~r.steady
    /\ r.cmd = "batch" /\ r.steady =>
          Fit(r, Provider) /\ r.members \in Seq({m \in Receivers : Fit(r, m)})

Checked(r) ==
    r.cmd = "batch" /\ r.steady =>
       /\ r.todo # <<>> /\ r.next = "commit" =>
             \/ r.todo = <<Head(r.members), r.id>>
             \/ /\ r.todo = <<r.id>>
                /\ Head(r.members) \notin r.moved => Kept(r, Head(r.members))
       /\ r.step = "commit" =>
             \A i \in {Head(r.members), r.id} \ r.moved : Kept(r, i)

VetoInv == PublishInv /\ \A p \in Invocations : Chosen(run[p]) /\ Checked(run[p])

(* An identity without an effective declaration has no entry at all.       *)
LEMMA MissingNowhere ==
    ASSUME NEW view \in Views, NEW on \in BOOLEAN
    PROVE  Effective(view, on) = "missing" <=> view = Nowhere
<1>1. view \in [Places -> Entries] /\ Nowhere \in [Places -> Entries]
  BY DEF Views, Nowhere, Entries
<1>2. view = Nowhere <=> Winner(view) = "missing"
  <2>1. view = Nowhere <=> \A s \in Places : view[s] = "missing"
    BY <1>1 DEF Nowhere
  <2>2. QED
    BY <2>1 DEF Winner, Places, Slots
<1>3. Declares(Winner(view), on) = "missing" <=> Winner(view) = "missing"
  BY DEF Declares
<1>4. Winner(view) = "missing" => Occupied(view) = {}
  BY <1>2 DEF Occupied, Nowhere, Slots, Places
<1>5. QED
  BY <1>2, <1>3, <1>4 DEF Effective, Slots

(* The owner's `enabled` matters only where its reference decides.         *)
LEMMA EnabledMatters ==
    ASSUME NEW view \in Views, NEW on \in BOOLEAN, NEW now \in BOOLEAN,
           Winner(view) = "link" => now = on
    PROVE  Effective(view, now) = Effective(view, on)
BY DEF Effective, Declares

(* What entries amount to depends on which there are and the one deciding. *)
LEMMA AlikeEffective ==
    ASSUME NEW was \in Views, NEW view \in Views, NEW on \in BOOLEAN,
           Topology(was) = Topology(view), Winner(was) = Winner(view)
    PROVE  /\ Occupied(was) = Occupied(view)
           /\ Effective(was, on) = Effective(view, on)
           /\ was = Nowhere <=> view = Nowhere
           /\ Destination(was, SlotsOf(was), on) = Destination(view, SlotsOf(view), on)
<1>1. /\ was \in [Places -> Entries] /\ view \in [Places -> Entries]
      /\ Slots = {"active", "disabled"} /\ Places = {"over", "active", "disabled"}
  BY DEF Views, Places, Slots
<1>2. ASSUME NEW s \in Places
      PROVE  /\ was[s] = "missing" <=> view[s] = "missing"
             /\ was[s] = "mask" <=> view[s] = "mask"
  <2>1. Topology(was)[s] = Topology(view)[s]
    OBVIOUS
  <2>2. QED
    BY <1>1, <2>1 DEF Topology
<1>3. Occupied(was) = Occupied(view)
  BY <1>1, <1>2 DEF Occupied
<1>4. was = Nowhere <=> view = Nowhere
  BY <1>1, <1>2 DEF Nowhere
<1>5. Effective(was, on) = Effective(view, on)
  BY <1>1, <1>2, <1>3 DEF Effective
<1>6. /\ SlotsOf(was).active = "missing" <=> SlotsOf(view).active = "missing"
      /\ SlotsOf(was).disabled = "missing" <=> SlotsOf(view).disabled = "missing"
  BY <1>1, <1>2 DEF SlotsOf
<1>7. QED
  BY <1>3, <1>4, <1>5, <1>6 DEF Destination

LEMMA FitAllows ==
    ASSUME NEW r \in Runs, NEW i \in Ids, Fit(r, i), Kept(r, i),
           places[i] \in Views, enabled[i] \in BOOLEAN
    PROVE  Allowed(r, i)
<1> DEFINE plan == r.plan[i]
           d == plan.dest
           now == places[i]
<1>a. plan.view \in Views /\ plan.on \in BOOLEAN /\ d \in Slots
  BY DEF Runs, Plans
<1>b. PICK view \in Views :
         /\ Topology(view) = Topology(plan.view) /\ Winner(view) = Winner(plan.view)
         /\ Within(now, view, d)
  BY DEF Kept, Alike
<1>c. /\ Effective(view, plan.on) = Effective(plan.view, plan.on)
      /\ view = Nowhere <=> plan.view = Nowhere
      /\ Destination(view, SlotsOf(view), plan.on)
            = Destination(plan.view, SlotsOf(plan.view), plan.on)
  BY <1>a, <1>b, AlikeEffective
<1>d. /\ IF view = Nowhere THEN plan.exact /\ (plan.on \/ r.force)
         ELSE \/ Effective(view, plan.on) = "active"
              \/ Effective(view, plan.on) = "disabled" /\ r.force
      /\ i = Provider => ~Redirects(view)
  BY <1>b, <1>c DEF Fit, Redirects
<1>1. /\ view \in Views /\ plan.on \in BOOLEAN /\ d \in Slots
      /\ view \in [Places -> Entries] /\ now \in [Places -> Entries]
  BY <1>a DEF Views
<1>2. Within(now, view, d) /\ (plan.exact \/ Winner(view) = "link" => enabled[i] = plan.on)
  BY <1>b DEF Kept
<1>3. d = Destination(view, SlotsOf(view), plan.on)
  BY <1>c DEF Fit
<1>4. Effective(view, enabled[i]) = Effective(view, plan.on)
  BY <1>1, <1>2, EnabledMatters
<1>5. CASE now = view
  <2>1. CASE view = Nowhere
    BY <1>1, <1>2, <1>5, <1>c, <1>d, <2>1, MissingNowhere DEF Allowed, Effect
  <2>2. CASE view # Nowhere
    BY <1>4, <1>5, <1>d, <2>2 DEF Allowed, Effect
  <2>3. QED
    BY <2>1, <2>2
<1>6. CASE now # view
  <2>1. view[d] = "missing" /\ now[d] = "link" /\ \A s \in Places \ {d} : now[s] = view[s]
    BY <1>1, <1>2, <1>6 DEF Within
  <2>2. Occupied(view) = {}
    BY <1>1, <1>3, <2>1 DEF Occupied, Destination, Slots
  <2>3. view.active = "missing" /\ view.disabled = "missing"
    BY <2>2 DEF Occupied, Slots
  <2>4. /\ now.over = view.over
        /\ now.active = IF d = "active" THEN "link" ELSE "missing"
        /\ now.disabled = IF d = "disabled" THEN "link" ELSE "missing"
    BY <1>1, <2>1, <2>3 DEF Places, Slots
  <2>5. CASE view.over # "missing"
    <3>1. Winner(now) = view.over /\ Winner(view) = view.over
      BY <2>4, <2>5 DEF Winner
    <3>2. Effective(now, enabled[i]) = Effective(view, enabled[i])
      BY <2>4, <2>5, <3>1 DEF Effective
    <3>3. view # Nowhere
      BY <2>5 DEF Nowhere, Places
    <3>4. QED
      BY <1>4, <1>d, <3>1, <3>2, <3>3 DEF Allowed, Effect, Redirects
  <2>6. CASE view.over = "missing"
    <3>1. view = Nowhere
      BY <1>1, <2>3, <2>6 DEF Nowhere, Places, Slots
    <3>2. plan.exact /\ (plan.on \/ r.force) /\ enabled[i] = plan.on
      BY <1>2, <1>d, <3>1
    <3>3. d = IF plan.on THEN "active" ELSE "disabled"
      BY <1>3, <2>2, <2>3 DEF Destination, SlotsOf, Slots
    <3>4. Winner(now) = "link"
      BY <1>1, <2>4, <2>6 DEF Winner, Slots
    <3>5. Occupied(now) = {d}
      BY <1>1, <2>4 DEF Occupied, Slots
    <3>6. Effective(now, enabled[i]) = IF plan.on THEN "active" ELSE "disabled"
      BY <2>4, <2>6, <3>2, <3>3, <3>4, <3>5 DEF Effective, Declares, Slots
    <3>7. QED
      BY <3>2, <3>4, <3>6 DEF Allowed, Effect, Redirects
  <2>7. QED
    BY <2>5, <2>6
<1>7. QED
  BY <1>5, <1>6

LEMMA ChosenSame ==
    ASSUME NEW r, NEW s, Chosen(r), s.cmd = r.cmd, s.id = r.id, s.force = r.force,
           s.steady = r.steady, s.plan = r.plan, s.members = r.members,
           s.step = "plan" => r.step = "plan"
    PROVE  Chosen(s)
<1>1. \A i : Fit(s, i) <=> Fit(r, i)
  BY DEF Fit
<1>2. {m \in Receivers : Fit(s, m)} = {m \in Receivers : Fit(r, m)}
  BY <1>1
<1>3. QED
  BY <1>1, <1>2 DEF Chosen

LEMMA VetoForeign ==
    ASSUME VetoInv, NEW p \in Invocations, Foreign(p)
    PROVE  Chosen(run[p])' /\ Checked(run[p])'
<1> DEFINE r == run[p]
           s == run'[p]
<1>1. Noted(r, s) /\ (Active(r) => \A i \in Ids : Drifted(r, s, i))
  BY ForeignAbides DEF VetoInv, PublishInv, Abides
<1>2. /\ r \in Runs /\ RunOK(r) /\ Chosen(r) /\ Checked(r)
      /\ r.plan \in [Ids -> Plans] /\ places \in [Ids -> Views]
  BY DEF VetoInv, PublishInv, TypeInv, TypeOK, Runs
<1>3. /\ s.cmd = r.cmd /\ s.id = r.id /\ s.force = r.force /\ s.step = r.step
      /\ s.steady = r.steady /\ s.plan = r.plan /\ s.members = r.members
      /\ s.todo = r.todo /\ s.next = r.next /\ r.moved \subseteq s.moved
  BY <1>1 DEF Noted
<1>4. Chosen(r)'
  <2>1. Chosen(s)
    BY <1>2, <1>3, ChosenSame
  <2>2. QED
    BY <2>1
<1>5. ASSUME Active(r), NEW i \in Ids, i \notin s.moved, Kept(r, i)
      PROVE  /\ Alike(places'[i], r.plan[i].view, r.plan[i].dest)
             /\ r.plan[i].exact \/ Winner(r.plan[i].view) = "link" =>
                   enabled'[i] = r.plan[i].on
  <2>1. r.plan[i].dest \in Slots /\ places[i] \in Views /\ Drifted(r, s, i)
    BY <1>1, <1>2, <1>5 DEF Plans
  <2>2. enabled'[i] = enabled[i]
    BY <1>5, <2>1 DEF Drifted
  <2>3. ASSUME NEW was \in Views, Within(places[i], was, r.plan[i].dest)
        PROVE  Within(places'[i], was, r.plan[i].dest)
    BY <1>5, <2>1, <2>3, WithinDrift
  <2>4. QED
    BY <1>5, <2>2, <2>3 DEF Kept, Alike
<1>6. ASSUME Ahead(r) PROVE Active(r) /\ Head(r.members) \in Ids /\ r.id \in Ids
  <2>1. r.members # <<>> /\ Active(r)
    BY <1>2, <1>6 DEF Ahead, RunOK, Active
  <2>2. QED
    BY <1>2, <2>1, HeadTail DEF Runs, Ids
<1>7. Checked(r)'
  <2>1. CASE ~Ahead(r)
    BY <1>3, <2>1 DEF Checked, Ahead
  <2>2. CASE Ahead(r)
    BY <1>2, <1>3, <1>5, <1>6, <2>2, SMTT(60) DEF Checked, Kept, Ahead
  <2>3. QED
    BY <2>1, <2>2
<1>8. QED
  BY <1>4, <1>7

LEMMA EndVetoes ==
    ASSUME TypeInv, NEW p \in Invocations, NEW cause \in Causes, Ends(p, cause)
    PROVE  Chosen(run[p])' /\ Checked(run[p])'
<1> DEFINE r == [Fresh EXCEPT !.step = IF cause = "none" THEN "done" ELSE "failed",
                              !.cause = cause,
                              !.touched = run[p].touched, !.torn = run[p].torn]
<1>1. run'[p] = r
  BY SetIs DEF Ends
<1>2. r.cmd = "none" /\ r.step \in {"done", "failed"}
  BY FreshTyped DEF Runs, Fresh
<1> HIDE DEF r
<1>3. QED
  BY <1>1, <1>2 DEF Chosen, Checked

(* Most steps have no commit ahead, and keep what was chosen.              *)
LEMMA NotAhead ==
    ASSUME VetoInv, NEW p \in Invocations, ~Ahead(run'[p]), Chosen(run'[p])
    PROVE  Chosen(run[p])' /\ Checked(run[p])'
<1>1. Checked(run[p])'
  BY DEF Checked, Ahead
<1>2. QED
  BY <1>1

LEMMA AdmitChooses ==
    ASSUME VetoInv, NEW p \in Invocations, Admit(p), ~Ends(p, "refused"),
           run[p].cmd = "batch"
    PROVE  Chosen(run'[p])
<1> DEFINE r == run[p]
           s == run'[p]
           S == {m \in Receivers : Selectable(r, m)}
<1>1. /\ TypeInv /\ r \in Runs /\ r.id = Provider /\ r.id \in Ids
      /\ Planned(r.plan[r.id])
      /\ places \in [Ids -> Views] /\ enabled \in [Ids -> BOOLEAN]
  BY DEF VetoInv, PublishInv, TypeInv, TypeOK, Runs, Chosen, Publishing, Admit
<1>2. r.cmd # "host"
  OBVIOUS
<1>3. /\ Admissible(r) /\ s.members = Order[S] /\ s.step \in {"apply", "verify"}
      /\ s.plan = AdmittedPlans(r) /\ s.steady = Steady(r)
      /\ s.cmd = r.cmd /\ s.id = r.id /\ s.force = r.force
  BY <1>1, <1>2, AdmitFields
<1>4. ASSUME s.steady PROVE Fit(s, Provider)
  <2> DEFINE plan == r.plan[r.id]
             view == places[r.id]
             on == enabled[r.id]
  <2>1. s.plan[Provider] = plan
    BY <1>1, <1>3 DEF AdmittedPlans
  <2>2. plan = Plan(view, SlotsOf(view), on)
    BY <1>3, <1>4 DEF Steady
  <2>3. /\ plan.view = view /\ plan.on = on /\ plan.slots = SlotsOf(view) /\ plan.exact
        /\ plan.dest = Destination(view, SlotsOf(view), on) /\ plan.dest \in Slots
    <3>1. plan \in Plans
      BY <1>1 DEF Runs
    <3>2. QED
      BY <2>2, <3>1 DEF Plan, Plans
  <2>4. view[plan.dest] \in {"missing", "link"}
    BY <1>1, <2>3 DEF Planned, Blocked, SlotsOf
  <2> HIDE DEF plan
  <2>5. (plan.on \/ r.force) /\ ~Redirects(view)
        /\ (view = Nowhere \/ Effective(view, on) = "active"
               \/ (Effective(view, on) = "disabled" /\ r.force))
    BY <1>3 DEF Admissible, plan
  <2>6. QED
    BY <1>3, <2>1, <2>3, <2>4, <2>5 DEF Fit
<1>5. ASSUME NEW m \in S PROVE Fit(s, m)
  <2> DEFINE plan == s.plan[m]
             view == places[m]
             on == enabled[m]
  <2>1. m \in Ids /\ m # Provider /\ m \in Receivers
    BY BatchAssumption DEF Ids
  <2>2. plan = [Observed(view, on) EXCEPT !.exact = ~Registered(m)]
    BY <1>1, <1>3, <2>1 DEF AdmittedPlans
  <2>3. /\ plan.view = view /\ plan.on = on /\ plan.slots = SlotsOf(view)
        /\ plan.exact = ~Registered(m)
        /\ plan.dest = Destination(view, SlotsOf(view), on)
    BY <2>2 DEF Observed, Plan
  <2>4. view \in Views /\ on \in BOOLEAN
    BY <1>1, <2>1
  <2>5. Registered(m) <=> view # Nowhere
    BY <2>4, MissingNowhere DEF Registered
  <2>6. plan.dest \in Slots
    BY <2>3 DEF Destination, Slots
  <2>7. view = Nowhere => view[plan.dest] = "missing"
    BY <2>6 DEF Nowhere, Places
  <2> HIDE DEF plan
  <2>8. StateOf(m) = "active" \/ (StateOf(m) = "disabled" /\ r.force)
    BY DEF Selectable
  <2>9. CASE view = Nowhere
    <3>1. on \/ r.force
      BY <2>5, <2>8, <2>9 DEF StateOf
    <3>2. QED
      BY <1>3, <2>1, <2>3, <2>5, <2>7, <2>9, <3>1 DEF Fit, plan
  <2>10. CASE view # Nowhere
    <3>1. StateOf(m) = Effective(view, on)
      BY <2>5, <2>10 DEF StateOf
    <3>2. QED
      BY <1>3, <2>1, <2>3, <2>5, <2>8, <2>10, <3>1 DEF Fit, plan
  <2>11. QED
    BY <2>9, <2>10
<1>6. s.members \in Seq({m \in Receivers : Fit(s, m)})
  <2>1. S \in SUBSET Receivers /\ s.members = Order[S]
    BY <1>3
  <2>2. S \subseteq {m \in Receivers : Fit(s, m)}
    BY <1>5
  <2> HIDE DEF S, s
  <2>3. s.members \in Seq(S)
    BY <2>1, BatchAssumption
  <2>4. QED
    BY <2>2, <2>3
<1>7. QED
  BY <1>1, <1>3, <1>4, <1>6 DEF Chosen

LEMMA OtherChooses ==
    ASSUME VetoInv, NEW p \in Invocations,
           \/ Begin(p) \/ PlanRegistration(p) \/ Admit(p) \/ Apply(p) \/ Publish(p)
           \/ NativeFails(p) \/ Build(p) \/ Receive(p) \/ ReadState(p) \/ Commit(p)
    PROVE  Chosen(run[p])' /\ Checked(run[p])'
<1> DEFINE r == run[p]
           s == run'[p]
<1>1. /\ TypeInv /\ r \in Runs /\ RunOK(r) /\ Chosen(r) /\ ~Ahead(s)
  BY OtherAhead DEF VetoInv, PublishInv, TypeInv, TypeOK
<1>2. CASE \E c \in Causes : Ends(p, c)
  BY <1>1, <1>2, EndVetoes
<1>3. ASSUME Chosen(s) PROVE Chosen(r)' /\ Checked(r)'
  BY <1>1, <1>3, NotAhead
<1>4. ASSUME NEW ids, NEW next \in Targets, s = Pass(r, ids, next) PROVE Chosen(s)
  <2>1. /\ s.cmd = r.cmd /\ s.id = r.id /\ s.force = r.force /\ s.steady = r.steady
        /\ s.plan = r.plan /\ s.members = r.members /\ s.step # "plan"
    BY <1>1, <1>4, PassFields DEF Targets
  <2>2. QED
    BY <1>1, <2>1, ChosenSame
<1>5. CASE Begin(p)
  <2>1. PICK cmd \in CommandKinds, i \in Ids :
          <<cmd, i>> \in Commands /\ s.cmd = cmd /\ s.id = i /\ s.steady = FALSE
    BY <1>1, <1>5, BeginFields
  <2>2. cmd = "batch" => i = Provider
    BY <2>1, BatchAssumption DEF AllCommands
  <2>3. QED
    BY <1>3, <2>1, <2>2 DEF Chosen
<1>6. CASE PlanRegistration(p)
  <2>1. \/ Ends(p, "refused")
        \/ /\ s.step \in {"apply", "admit"} /\ s.cmd = r.cmd /\ s.id = r.id
           /\ s.steady = r.steady
    BY <1>1, <1>6, PlanFields
  <2>2. r.step = "plan"
    BY <1>6 DEF PlanRegistration
  <2>3. QED
    BY <1>1, <1>2, <1>3, <2>1, <2>2 DEF Chosen, Causes
<1>7. CASE Admit(p)
  <2>1. CASE Ends(p, "refused")
    BY <1>2, <2>1 DEF Causes
  <2>2. CASE ~Ends(p, "refused") /\ r.cmd = "batch"
    BY <1>3, <1>7, <2>2, AdmitChooses
  <2>3. CASE ~Ends(p, "refused") /\ r.cmd # "batch"
    <3>1. \/ s.cmd = r.cmd /\ s.step \in {"apply", "verify"}
          \/ s = Pass(r, <<r.id>>, "build")
      BY <1>1, <1>7, <2>3, AdmitFields
    <3>2. s.cmd # "batch" /\ s.step # "plan"
      BY <1>1, <2>3, <3>1, PassFields
    <3>3. QED
      BY <1>3, <3>2 DEF Chosen
  <2>4. QED
    BY <2>1, <2>2, <2>3
<1>8. CASE Apply(p) \/ Build(p)
  <2>1. \E next \in {"apply", "publish"} : s = Pass(r, <<r.id>>, next)
    BY <1>1, <1>8, SetIs DEF Apply, Build
  <2>2. QED
    BY <1>3, <1>4, <2>1 DEF Targets
<1>9. CASE Publish(p)
  <2>1. \E ids : s = Pass(r, ids, "receive")
    BY <1>9 DEF Publish
  <2>2. QED
    BY <1>3, <1>4, <2>1 DEF Targets
<1>10. CASE NativeFails(p)
  BY <1>2, <1>10 DEF NativeFails, Causes
<1>11. CASE Receive(p)
  <2>1. Ends(p, "none") \/ s = Pass(r, <<Head(r.members), r.id>>, "read")
    BY <1>1, <1>11, SetIs DEF Receive
  <2>2. QED
    BY <1>2, <1>3, <1>4, <2>1 DEF Targets, Causes
<1>12. CASE ReadState(p)
  <2> DEFINE q == [r EXCEPT !.group = membership[Receiver(p)], !.step = "guard"]
  <2>1. Ends(p, "refused") \/ s = q
    BY <1>1, <1>12, SetIs DEF ReadState
  <2>2. /\ q.cmd = r.cmd /\ q.id = r.id /\ q.force = r.force /\ q.steady = r.steady
        /\ q.plan = r.plan /\ q.members = r.members /\ q.step = "guard"
    BY <1>1 DEF Runs
  <2> HIDE DEF q
  <2>3. QED
    BY <1>1, <1>2, <1>3, <2>1, <2>2, ChosenSame DEF Causes
<1>13. CASE Commit(p)
  <2> DEFINE q == [r EXCEPT !.members = Tail(@), !.step = "receive"]
  <2>1. s = q /\ r.members # <<>>
    BY <1>1, <1>13 DEF Commit, RunOK
  <2>2. /\ q.cmd = r.cmd /\ q.id = r.id /\ q.force = r.force /\ q.steady = r.steady
        /\ q.plan = r.plan /\ q.members = Tail(r.members) /\ q.step = "receive"
    BY <1>1 DEF Runs
  <2> HIDE DEF q
  <2>3. \A i : Fit(q, i) <=> Fit(r, i)
    BY <2>2 DEF Fit
  <2>4. {m \in Receivers : Fit(q, m)} = {m \in Receivers : Fit(r, m)}
    BY <2>3
  <2> DEFINE F == {m \in Receivers : Fit(r, m)}
  <2>5. r.members \in Seq(F) => Tail(r.members) \in Seq(F)
    <3> HIDE DEF F
    <3>1. QED
      BY <2>1, HeadTail
  <2>6. Chosen(q)
    BY <1>1, <2>2, <2>3, <2>4, <2>5 DEF Chosen
  <2>7. QED
    BY <1>3, <2>1, <2>6
<1>14. QED
  BY <1>5, <1>6, <1>7, <1>8, <1>9, <1>10, <1>11, <1>12, <1>13

LEMMA GuardVetoes ==
    ASSUME VetoInv, NEW p \in Invocations, Guard(p)
    PROVE  Chosen(run[p])' /\ Checked(run[p])'
<1> DEFINE r == run[p]
           s == run'[p]
           q == [r EXCEPT !.stale = FALSE]
           ids == IF r.cmd = "toggle" THEN <<>> ELSE <<Receiver(p), r.id>>
<1>1. TypeInv /\ r \in Runs /\ Chosen(r)
  BY DEF VetoInv, PublishInv, TypeInv, TypeOK
<1>2. Ends(p, "state") \/ s = Pass(q, ids, "commit")
  BY <1>1, SetIs DEF Guard
<1>3. CASE Ends(p, "state")
  BY <1>1, <1>3, EndVetoes DEF Causes
<1>4. CASE s = Pass(q, ids, "commit")
  <2>1. /\ q \in Runs /\ q.cmd = r.cmd /\ q.id = r.id /\ q.force = r.force
        /\ q.steady = r.steady /\ q.plan = r.plan /\ q.members = r.members
    BY <1>1 DEF Runs
  <2>2. /\ s.cmd = r.cmd /\ s.id = r.id /\ s.force = r.force /\ s.steady = r.steady
        /\ s.plan = r.plan /\ s.members = r.members /\ s.todo = ids
        /\ s.step = IF ids = <<>> THEN "commit" ELSE "verify"
    <3> HIDE DEF q, ids
    <3>1. QED
      BY <1>4, <2>1, PassFields
  <2>3. s.step # "plan"
    BY <2>2
  <2>4. Chosen(s)
    BY <1>1, <2>2, <2>3, ChosenSame
  <2>5. ASSUME s.cmd = "batch"
        PROVE  s.todo = <<Head(s.members), s.id>> /\ s.step = "verify"
    <3>1. ids = <<Head(r.members), r.id>> /\ ids # <<>>
      BY <2>2, <2>5 DEF Receiver
    <3>2. QED
      BY <2>2, <3>1
  <2>6. Checked(r)'
    BY <2>5 DEF Checked
  <2>7. QED
    BY <2>4, <2>6
<1>5. QED
  BY <1>2, <1>3, <1>4

(* A look that finds what was planned keeps it; then the pass goes on.     *)
LEMMA PassedVetoes ==
    ASSUME VetoInv, NEW p \in Invocations, run[p].todo # <<>>,
           run[p].step \in {"verify", "inspect"},
           NEW phase, PassedAs(run[p], run'[p], phase),
           UNCHANGED <<places, enabled>>,
           (run[p].cmd = "batch" /\ run[p].steady /\ run[p].next = "commit"
              /\ Head(run[p].todo) \notin run[p].moved) =>
                 Kept(run[p], Head(run[p].todo))
    PROVE  Chosen(run[p])' /\ Checked(run[p])'
<1> DEFINE r == run[p]
           s == run'[p]
<1>1. /\ RunOK(r) /\ r \in Runs /\ Chosen(r) /\ Checked(r)
  BY DEF VetoInv, PublishInv, TypeInv, TypeOK
<1>2. /\ s.cmd = r.cmd /\ s.id = r.id /\ s.force = r.force /\ s.steady = r.steady
      /\ s.plan = r.plan /\ s.members = r.members /\ s.moved = r.moved
      /\ s.next = r.next /\ s.todo = Tail(r.todo)
      /\ s.step = IF Tail(r.todo) = <<>> THEN r.next ELSE "verify"
  BY DEF PassedAs
<1>3. s.step # "plan"
  BY <1>1, <1>2 DEF RunOK, Targets
<1>4. Chosen(s)
  BY <1>1, <1>2, <1>3, ChosenSame
<1>5. \A i : Kept(r, i) =>
         /\ Alike(places'[i], s.plan[i].view, s.plan[i].dest)
         /\ s.plan[i].exact \/ Winner(s.plan[i].view) = "link" => enabled'[i] = s.plan[i].on
  BY <1>2 DEF Kept
<1>6. ASSUME r.cmd = "batch", r.steady, r.next = "commit"
      PROVE  /\ s.todo # <<>> =>
                   /\ s.todo = <<s.id>>
                   /\ Head(s.members) \notin s.moved => Kept(r, Head(s.members))
             /\ s.step = "commit" =>
                   \A i \in {Head(s.members), s.id} \ s.moved : Kept(r, i)
  <2>1. CASE r.todo = <<Head(r.members), r.id>>
    <3>1. Head(r.todo) = Head(r.members) /\ Tail(r.todo) = <<r.id>> /\ <<r.id>> # <<>>
      BY <2>1
    <3>2. s.step = "verify"
      BY <1>2, <3>1
    <3>3. QED
      BY <1>2, <1>6, <3>1, <3>2
  <2>2. CASE /\ r.todo = <<r.id>>
             /\ Head(r.members) \notin r.moved => Kept(r, Head(r.members))
    <3>1. Head(r.todo) = r.id /\ Tail(r.todo) = <<>>
      BY <2>2
    <3>2. QED
      BY <1>2, <1>6, <2>2, <3>1
  <2>3. QED
    BY <1>1, <1>6, <2>1, <2>2 DEF Checked
<1>7. s.step = "commit" => r.next = "commit"
  BY <1>2
<1>8. Checked(r)'
  BY <1>2, <1>5, <1>6, <1>7 DEF Checked, Kept
<1>9. QED
  BY <1>4, <1>8

LEMMA ObserveVetoes ==
    ASSUME VetoInv, NEW p \in Invocations, Observe(p)
    PROVE  Chosen(run[p])' /\ Checked(run[p])'
<1> DEFINE r == run[p]
           s == [r EXCEPT !.saw = places[Head(r.todo)], !.step = "inspect"]
           i == Head(r.todo)
           plan == r.plan[i]
<1>1. /\ TypeInv /\ r \in Runs /\ RunOK(r) /\ Chosen(r) /\ Checked(r)
      /\ r.todo # <<>> /\ r.step = "verify"
      /\ r.phase \in {"none", "before", "published"} /\ UNCHANGED <<places, enabled>>
  BY DEF VetoInv, PublishInv, TypeInv, TypeOK, Runs, RunOK, Observe, shared
<1>2. \/ Ends(p, "descriptor") \/ Ends(p, "changed")
      \/ run'[p] = s
      \/ /\ run'[p] = Passed(r) /\ Topology(places[i]) = Topology(plan.view)
         /\ ~plan.exact /\ (r.next # "apply" => Winner(places[i]) = Winner(plan.view))
         /\ r.next # "apply" /\ Winner(plan.view) = "link" => enabled[i] = plan.on
  BY <1>1, SetIs DEF Observe
<1>3. CASE Ends(p, "descriptor") \/ Ends(p, "changed")
  BY <1>1, <1>3, EndVetoes DEF Causes
<1>4. CASE run'[p] = s
  <2>1. /\ s.step = "inspect" /\ s.plan = r.plan /\ s.todo = r.todo /\ s.cmd = r.cmd
        /\ s.id = r.id /\ s.force = r.force /\ s.steady = r.steady
        /\ s.members = r.members /\ s.next = r.next /\ s.moved = r.moved
    BY <1>1 DEF Runs
  <2> HIDE DEF s
  <2>2. Chosen(s)
    BY <1>1, <2>1, ChosenSame
  <2>3. Chosen(r)'
    BY <1>4, <2>2
  <2>4. Checked(r)'
    BY <1>1, <1>4, <2>1 DEF Checked, Kept
  <2>5. QED
    BY <2>3, <2>4
<1>5. CASE /\ run'[p] = Passed(r) /\ Topology(places[i]) = Topology(plan.view)
           /\ ~plan.exact /\ (r.next # "apply" => Winner(places[i]) = Winner(plan.view))
           /\ r.next # "apply" /\ Winner(plan.view) = "link" => enabled[i] = plan.on
  <2>1. PassedAs(r, run'[p], r.phase)
    BY <1>1, <1>5, PassedFields
  <2>2. r.next = "commit" => Kept(r, i)
    <3>1. i \in Ids /\ places[i] \in Views
      BY <1>1, HeadTail DEF Runs, TypeInv, TypeOK
    <3>2. Within(places[i], places[i], plan.dest)
      BY DEF Within
    <3>3. QED
      BY <1>5, <3>1, <3>2 DEF Kept, Alike
  <2>3. QED
    BY <1>1, <2>1, <2>2, PassedVetoes
<1>6. QED
  BY <1>2, <1>3, <1>4, <1>5

LEMMA InspectVetoes ==
    ASSUME VetoInv, NEW p \in Invocations, Inspect(p)
    PROVE  Chosen(run[p])' /\ Checked(run[p])'
<1> DEFINE r == run[p]
           i == Head(r.todo)
           plan == r.plan[i]
           slots == SlotsOf(places[i])
<1>1. /\ TypeInv /\ r \in Runs /\ RunOK(r) /\ Chosen(r) /\ Checked(r) /\ Looking(r)
      /\ r.step = "inspect" /\ r.todo # <<>> /\ UNCHANGED <<places, enabled>>
  BY DEF VetoInv, PublishInv, TypeInv, TypeOK, RunOK, Inspect, shared
<1>2. i \in Ids /\ plan \in Plans /\ plan.exact /\ places[i] \in Views
  BY <1>1, HeadTail DEF Runs, TypeInv, TypeOK, Looking
<1>3. \/ Ends(p, "exact")
      \/ /\ \E phase \in {"before", "published"} : PassedAs(r, run'[p], phase)
         /\ Before(plan, r.saw, slots) \/ Published(plan, r.saw, slots)
  <2>1. \/ Ends(p, "exact")
        \/ /\ \E phase \in {"before", "published"} :
                 run'[p] = Passed([r EXCEPT !.phase = phase])
           /\ Before(plan, r.saw, slots) \/ Published(plan, r.saw, slots)
    BY <1>1, SetIs DEF Inspect
  <2>2. QED
    BY <1>1, <2>1, PassedFields
<1>4. CASE Ends(p, "exact")
  BY <1>1, <1>4, EndVetoes DEF Causes
<1>5. CASE /\ \E phase \in {"before", "published"} : PassedAs(r, run'[p], phase)
           /\ Before(plan, r.saw, slots) \/ Published(plan, r.saw, slots)
  <2>1. ASSUME r.cmd = "batch", r.steady, r.next = "commit", i \notin r.moved
        PROVE  Kept(r, i)
    <3>1. Fit(r, i)
      <4>1. i = Provider \/ i = Head(r.members)
        BY <1>1, <2>1 DEF Checked, Chosen
      <4>2. r.members # <<>>
        BY <1>1, <2>1 DEF RunOK
      <4> DEFINE F == {m \in Receivers : Fit(r, m)}
      <4>3. r.members \in Seq(F) /\ Fit(r, Provider)
        BY <1>1, <2>1 DEF Chosen
      <4>4. Head(r.members) \in F
        <5> HIDE DEF F
        <5>1. QED
          BY <4>2, <4>3, HeadTail
      <4>5. QED
        BY <4>1, <4>3, <4>4
    <3>2. enabled[i] = plan.on /\ Within(places[i], r.saw, plan.dest)
      BY <1>1, <2>1 DEF Looking
    <3>3. /\ plan.view[plan.dest] \in {"missing", "link"} /\ plan.dest \in Slots
          /\ Slots \subseteq Places
      BY <1>2, <3>1 DEF Fit, Plans, Places
    <3>4. Within(places[i], plan.view, plan.dest)
      <4>1. CASE Before(plan, r.saw, slots)
        BY <3>2, <4>1 DEF Before
      <4>2. CASE Published(plan, r.saw, slots)
        BY <3>2, <3>3, <4>2 DEF Published, Within
      <4>3. QED
        BY <1>5, <4>1, <4>2
    <3>5. plan.view \in Views
      BY <1>2 DEF Plans
    <3>6. QED
      BY <3>2, <3>4, <3>5 DEF Kept, Alike
  <2>2. QED
    BY <1>1, <1>5, <2>1, PassedVetoes
<1>6. QED
  BY <1>3, <1>4, <1>5

LEMMA VetoInit == ASSUME Init PROVE VetoInv
<1>1. PublishInv
  BY PublishInit
<1>2. ASSUME NEW p \in Invocations PROVE Chosen(run[p]) /\ Checked(run[p])
  <2>1. run[p].cmd = "none" /\ run[p].step = "idle"
    BY FreshTyped DEF Init, Fresh
  <2>2. QED
    BY <2>1 DEF Chosen, Checked
<1>3. QED
  BY <1>1, <1>2 DEF VetoInv

LEMMA VetoStep == ASSUME VetoInv, [Next]_vars PROVE VetoInv'
<1>1. PublishInv'
  BY PublishStep DEF VetoInv
<1>2. ASSUME NEW p \in Invocations PROVE Chosen(run[p])' /\ Checked(run[p])'
  <2>1. Invocation(p) \/ Foreign(p)
    BY DEF Next, Foreign
  <2>2. CASE Invocation(p)
    BY <2>2, OtherChooses, ObserveVetoes, InspectVetoes, GuardVetoes DEF Invocation
  <2>3. QED
    BY <2>1, <2>2, VetoForeign
<1>3. QED
  BY <1>1, <1>2 DEF VetoInv

LEMMA CommitAllowed ==
    ASSUME VetoInv, NEW p \in Invocations,
           Commit(p), run[p].cmd = "batch", run[p].steady,
           NEW i \in {Provider, Receiver(p)} \ run[p].moved
    PROVE  Allowed(run[p], i)
<1> DEFINE r == run[p]
           F == {m \in Receivers : Fit(r, m)}
<1>1. /\ r \in Runs /\ r.members # <<>> /\ r.step = "commit" /\ Chosen(r) /\ Checked(r)
      /\ places \in [Ids -> Views] /\ enabled \in [Ids -> BOOLEAN]
  BY DEF VetoInv, PublishInv, TypeInv, TypeOK, RunOK, Commit
<1>2. r.members \in Seq(F) /\ Fit(r, Provider) /\ r.id = Provider
  BY <1>1 DEF Chosen
<1>3. Receiver(p) \in F
  <2> HIDE DEF F
  <2>1. QED
    BY <1>1, <1>2, HeadTail DEF Receiver
<1>4. Fit(r, i) /\ i \in Ids
  BY <1>2, <1>3 DEF Ids
<1>5. Kept(r, i)
  BY <1>1, <1>2 DEF Checked, Receiver
<1>6. QED
  BY <1>1, <1>4, <1>5, FitAllows

(* A veto holds to the commit (VetoHolds), for any receivers and whatever  *)
(* operator and owners do.                                                 *)
THEOREM VetoesHold == Spec => VetoHolds
<1>1. ASSUME VetoInv, [Next]_vars
      PROVE  [\A p \in Invocations :
                (Commit(p) /\ run[p].cmd = "batch" /\ run[p].steady) =>
                \A i \in {Provider, Receiver(p)} \ run[p].moved :
                   Allowed(run[p], i)]_vars
  BY <1>1, CommitAllowed
<1>2. QED
  BY <1>1, VetoInit, VetoStep, PTL DEF Spec, VetoHolds
=============================================================================
