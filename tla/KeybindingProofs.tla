-------------------------- MODULE KeybindingProofs --------------------------
(***************************************************************************)
(* The promises of publication and of a batch for any receivers,           *)
(* invocations, starting registries and number of changes.                 *)
(***************************************************************************)
EXTENDS KeybindingProperties, SequenceTheorems, TLAPS

-----------------------------------------------------------------------------
(* Types.                                                                  *)

(* Where a pass over guards may lead.                                      *)
Targets == {"apply", "build", "publish", "receive", "read", "commit"}

RunOK(r) ==
    /\ r \in Runs
    /\ r.step \in {"verify", "inspect"} <=> r.todo # <<>>
    /\ r.step \in {"read", "guard", "commit"} => r.members # <<>>
    /\ r.todo # <<>> =>
          r.next \in Targets /\ (r.next \in {"read", "commit"} => r.members # <<>>)

TypeInv == TypeOK /\ \A p \in Invocations : RunOK(run[p])

LEMMA PlansTyped ==
    ASSUME NEW view \in Views, NEW slots \in [Slots -> Entries], NEW on \in BOOLEAN
    PROVE  Plan(view, slots, on) \in Plans
BY DEF Plan, Plans, Destination, Slots

LEMMA ObservedTyped ==
    ASSUME NEW view \in Views, NEW on \in BOOLEAN
    PROVE  /\ Observed(view, on) \in Plans
           /\ \A e \in BOOLEAN : [Observed(view, on) EXCEPT !.exact = e] \in Plans
           /\ SlotsOf(view) \in [Slots -> Entries]
<1>1. SlotsOf(view) \in [Slots -> Entries]
  BY DEF SlotsOf, Views, Places
<1>2. Plan(view, SlotsOf(view), on) \in Plans
  BY <1>1, PlansTyped
<1>3. QED
  BY <1>1, <1>2 DEF Observed, Plans

LEMMA FreshTyped == Fresh \in Runs /\ Fresh.step = "idle" /\ Fresh.todo = <<>>
<1>1. Nowhere \in Views
  BY DEF Nowhere, Views, Entries
<1>2. NoPlan \in Plans
  BY <1>1, ObservedTyped DEF NoPlan
<1>3. <<>> \in Seq(Receivers) /\ <<>> \in Seq(Ids)
  BY EmptySeq
<1>4. QED
  BY <1>1, <1>2, <1>3 DEF Fresh, Runs, Steps, Causes, Groups, Ids, CommandKinds

LEMMA HeadTail ==
    ASSUME NEW S, NEW s \in Seq(S), s # <<>>
    PROVE  /\ Head(s) \in S /\ Tail(s) \in Seq(S)
           /\ Len(s) = 1 <=> Tail(s) = <<>>
<1>1. Head(s) \in S /\ Tail(s) \in Seq(S) /\ Len(Tail(s)) = Len(s) - 1
  BY HeadTailProperties
<1>2. Len(s) \in Nat /\ Len(Tail(s)) \in Nat
  BY <1>1, LenProperties
<1>3. Tail(s) = <<>> <=> Len(Tail(s)) = 0
  BY <1>1, EmptySeq
<1>4. QED
  BY <1>1, <1>2, <1>3

LEMMA PassTyped ==
    ASSUME NEW r \in Runs, NEW ids \in Seq(Ids), NEW next \in Targets,
           next \in {"read", "commit"} => r.members # <<>>
    PROVE  RunOK(Pass(r, ids, next))
<1> DEFINE s == Pass(r, ids, next)
<1> DEFINE step == IF ids = <<>> THEN next ELSE "verify"
<1>a. step \in Steps /\ next \in Steps \cup {"none"}
  BY DEF Targets, Steps
<1>b. s = [r EXCEPT !.todo = ids, !.next = next, !.moved = {}, !.phase = "none",
                    !.step = step]
  BY DEF Pass
<1> HIDE DEF step
<1>1. s \in Runs
  BY <1>a, <1>b, ZenonT(60) DEF Runs
<1> USE DEF step
<1>2. /\ s.todo = ids /\ s.next = next /\ s.members = r.members
      /\ s.step = IF ids = <<>> THEN next ELSE "verify"
  BY DEF Pass, Runs
<1> HIDE DEF s
<1>3. RunOK(s)
  BY <1>1, <1>2 DEF RunOK, Targets
<1>4. QED
  BY <1>3 DEF s

LEMMA PassedTyped ==
    ASSUME NEW r, RunOK(r), r.todo # <<>>,
           NEW phase \in {"none", "before", "published"}
    PROVE  RunOK(Passed([r EXCEPT !.phase = phase])) /\ RunOK(Passed(r))
<1>1. RunOK([r EXCEPT !.phase = phase]) /\ [r EXCEPT !.phase = phase].todo # <<>>
  BY DEF RunOK, Runs
<1>2. ASSUME NEW q, RunOK(q), q.todo # <<>>
      PROVE  RunOK(Passed(q))
  <2> DEFINE rest == Tail(q.todo)
             step == IF rest = <<>> THEN q.next ELSE "verify"
             s == [q EXCEPT !.todo = rest, !.saw = Nowhere, !.step = step]
  <2>1. /\ rest \in Seq(Ids)
        /\ Len(q.todo) = 1 <=> rest = <<>>
    BY <1>2, HeadTail DEF RunOK, Runs
  <2>2. Passed(q) = s
    BY <2>1 DEF Passed
  <2>3. Nowhere \in Views
    BY DEF Nowhere, Views, Entries
  <2>4. q \in Runs /\ q.next \in Targets
    BY <1>2 DEF RunOK
  <2>5. step \in Steps
    BY <2>4 DEF Targets, Steps
  <2> HIDE DEF rest
  <2>6. /\ s.todo = rest /\ s.step = step
        /\ s.members = q.members /\ s.next = q.next
    BY <2>4 DEF Runs
  <2> HIDE DEF step
  <2>7. s \in Runs
    BY <2>1, <2>3, <2>4, <2>5 DEF Runs
  <2> HIDE DEF s
  <2> USE DEF step
  <2>8. RunOK(s)
    BY <1>2, <2>6, <2>7 DEF RunOK, Targets
  <2>9. QED
    BY <2>2, <2>8
<1>3. QED
  BY <1>1, <1>2

LEMMA EndTyped ==
    ASSUME TypeInv, NEW p \in Invocations, NEW cause \in Causes, Ends(p, cause)
    PROVE  /\ run' \in [Invocations -> Runs] /\ \A q \in Invocations : RunOK(run[q])'
           /\ \A q \in Invocations \ {p} : run'[q] = run[q]
           /\ run'[p].step \in {"done", "failed"} /\ run'[p].todo = <<>>
           /\ run'[p].cause = cause /\ run'[p].touched = run[p].touched
           /\ run'[p].torn = run[p].torn
<1> DEFINE r == [Fresh EXCEPT !.step = IF cause = "none" THEN "done" ELSE "failed",
                              !.cause = cause,
                              !.touched = run[p].touched, !.torn = run[p].torn]
<1>1. run' = [run EXCEPT ![p] = r]
  BY DEF Ends, Set
<1>2. run[p] \in Runs /\ run \in [Invocations -> Runs]
  BY DEF TypeInv, TypeOK
<1>3. run[p].touched \in BOOLEAN /\ run[p].torn \in BOOLEAN
  BY <1>2 DEF Runs
<1>4. r \in Runs /\ r.step \in {"done", "failed"} /\ r.todo = <<>>
  BY <1>3, FreshTyped, ZenonT(60) DEF Runs, Steps
<1>5. r.cause = cause /\ r.touched = run[p].touched /\ r.torn = run[p].torn
  BY FreshTyped DEF Runs
<1>6. RunOK(r)
  BY <1>4 DEF RunOK
<1> HIDE DEF r
<1>7. QED
  BY <1>1, <1>2, <1>4, <1>5, <1>6 DEF TypeInv

LEMMA SetTyped ==
    ASSUME TypeInv, NEW p \in Invocations, NEW r, RunOK(r), Set(p, r)
    PROVE  /\ run' \in [Invocations -> Runs] /\ \A q \in Invocations : RunOK(run[q])'
           /\ run'[p] = r /\ \A q \in Invocations \ {p} : run'[q] = run[q]
BY DEF Set, RunOK, TypeInv, TypeOK

(* What is left of the type invariant once the commands are typed.         *)
LEMMA RestTyped ==
    ASSUME TypeInv, run' \in [Invocations -> Runs],
           \A q \in Invocations : RunOK(run[q])',
           UNCHANGED <<shared, changes>>
    PROVE  TypeInv'
BY DEF TypeInv, TypeOK, RunOK, shared

LEMMA BeginTyped ==
    ASSUME TypeInv, NEW p \in Invocations, Begin(p)
    PROVE  TypeInv'
<1>1. PICK cmd \in CommandKinds, i \in Ids, o \in Options :
         /\ <<cmd, i>> \in Commands
         /\ LET r == [Fresh EXCEPT !.cmd = cmd, !.id = i,
                        !.force = o.force /\ cmd # "register",
                        !.explicit = o.explicit /\ cmd = "batch"]
            IN  Set(p, IF cmd = "toggle"
                       THEN [r EXCEPT !.step = "read", !.members = <<i>>]
                       ELSE [r EXCEPT !.step = "plan",
                                      !.plan[i] = Observed(places[i], enabled[i])])
  BY DEF Begin
<1> DEFINE f == o.force /\ cmd # "register"
           e == o.explicit /\ cmd = "batch"
           r == [Fresh EXCEPT !.cmd = cmd, !.id = i, !.force = f, !.explicit = e]
           t == [r EXCEPT !.step = "read", !.members = <<i>>]
           n == [r EXCEPT !.step = "plan",
                          !.plan[i] = Observed(places[i], enabled[i])]
<1>2. f \in BOOLEAN /\ e \in BOOLEAN
  OBVIOUS
<1> HIDE DEF f, e
<1>3. r \in Runs /\ r.todo = <<>>
  BY <1>2, FreshTyped DEF Runs
<1>4. cmd = "toggle" => i \in Receivers
  BY <1>1, BatchAssumption DEF AllCommands
<1>5. Observed(places[i], enabled[i]) \in Plans
  BY ObservedTyped DEF TypeInv, TypeOK
<1> HIDE DEF r
<1>6. ASSUME cmd = "toggle" PROVE RunOK(t)
  <2>1. <<i>> \in Seq(Receivers) /\ <<i>> # <<>>
    BY <1>4, <1>6
  <2>2. QED
    BY <1>3, <2>1 DEF RunOK, Runs, Steps
<1>7. RunOK(n)
  BY <1>3, <1>5 DEF RunOK, Runs, Steps
<1>8. run' \in [Invocations -> Runs] /\ \A q \in Invocations : RunOK(run[q])'
  <2> HIDE DEF t, n
  <2>1. Set(p, IF cmd = "toggle" THEN t ELSE n)
    BY <1>1 DEF r, t, n, f, e
  <2>2. QED
    BY <1>6, <1>7, <2>1, SetTyped
<1>9. QED
  BY <1>8, RestTyped DEF Begin

LEMMA PlanTyped ==
    ASSUME TypeInv, NEW p \in Invocations, PlanRegistration(p)
    PROVE  TypeInv'
<1> DEFINE r == run[p]
           seen == r.plan[r.id]
           slots == SlotsOf(places[r.id])
           plan == Plan(seen.view, slots, seen.on)
           q == [r EXCEPT !.plan[r.id] = plan]
           n == IF r.cmd = "register" THEN [q EXCEPT !.step = "apply"]
                ELSE [q EXCEPT !.step = "admit"]
<1>1. r \in Runs /\ RunOK(r) /\ r.step = "plan" /\ r.todo = <<>>
  BY DEF PlanRegistration, TypeInv, TypeOK, RunOK
<1>2. seen \in Plans /\ places[r.id] \in Views
  BY <1>1 DEF Runs, TypeInv, TypeOK
<1>3. plan \in Plans
  BY <1>2, PlansTyped, ObservedTyped DEF Plans
<1>4. RunOK(n)
  <2> HIDE DEF plan
  <2>1. QED
    BY <1>1, <1>3, ZenonT(60) DEF RunOK, Runs, Steps
<1>5. Ends(p, "refused") \/ Set(p, n)
  BY DEF PlanRegistration
<1>6. run' \in [Invocations -> Runs] /\ \A i \in Invocations : RunOK(run[i])'
  <2> HIDE DEF n
  <2>1. QED
    BY <1>4, <1>5, SetTyped, EndTyped DEF Causes
<1>7. QED
  BY <1>6, RestTyped DEF PlanRegistration

LEMMA AdmitTyped ==
    ASSUME TypeInv, NEW p \in Invocations, Admit(p)
    PROVE  TypeInv'
<1> DEFINE r == run[p]
           members == Order[{m \in Receivers : Selectable(r, m)}]
           plans == [i \in Ids |->
                        IF i = r.id THEN r.plan[i]
                        ELSE [Observed(places[i], enabled[i])
                                 EXCEPT !.exact = i \in Receivers /\ ~Registered(i)]]
           s == Steady(r)
           b == [r EXCEPT !.members = members, !.plan = plans, !.steady = s]
<1>1. r \in Runs /\ RunOK(r) /\ r.id \in Ids
  BY DEF TypeInv, TypeOK, Runs
<1>2. plans \in [Ids -> Plans]
  <2>1. ASSUME NEW i \in Ids
        PROVE  [Observed(places[i], enabled[i])
                   EXCEPT !.exact = i \in Receivers /\ ~Registered(i)] \in Plans
    BY ObservedTyped DEF TypeInv, TypeOK
  <2>2. QED
    BY <1>1, <2>1 DEF Runs
<1>3. members \in Seq(Receivers) /\ members \in Seq(Ids)
  <2> DEFINE S == {m \in Receivers : Selectable(r, m)}
  <2>1. members \in Seq(Receivers)
    <3>1. S \in SUBSET Receivers /\ members = Order[S]
      OBVIOUS
    <3> HIDE DEF S, members
    <3>2. members \in Seq(S)
      BY <3>1, BatchAssumption
    <3>3. QED
      BY <3>1, <3>2
  <2>2. QED
    BY <2>1 DEF Ids
<1>4. s \in BOOLEAN
  BY DEF Steady
<1>5. b \in Runs
  <2> HIDE DEF members, plans, s
  <2>1. QED
    BY <1>1, <1>2, <1>3, <1>4 DEF Runs
<1>6. RunOK(Pass(b, members, "apply")) /\ RunOK(Pass(r, <<r.id>>, "build"))
  <2>1. <<r.id>> \in Seq(Ids)
    BY <1>1
  <2> HIDE DEF members, b
  <2>2. QED
    BY <1>1, <1>3, <1>5, <2>1, PassTyped DEF Targets
<1>7. \/ Ends(p, "refused") \/ Set(p, Pass(b, members, "apply"))
      \/ Set(p, Pass(r, <<r.id>>, "build"))
  BY DEF Admit
<1>8. run' \in [Invocations -> Runs] /\ \A i \in Invocations : RunOK(run[i])'
  <2> HIDE DEF members, b
  <2>1. QED
    BY <1>6, <1>7, SetTyped, EndTyped DEF Causes
<1>9. QED
  BY <1>8, RestTyped DEF Admit

LEMMA ObserveTyped ==
    ASSUME TypeInv, NEW p \in Invocations, Observe(p)
    PROVE  TypeInv'
<1> DEFINE r == run[p]
           s == [r EXCEPT !.saw = places[Head(r.todo)], !.step = "inspect"]
<1>1. r \in Runs /\ RunOK(r) /\ r.todo # <<>>
  BY DEF Observe, TypeInv, TypeOK, RunOK
<1>2. Head(r.todo) \in Ids
  BY <1>1, HeadTail DEF Runs
<1>3. places[Head(r.todo)] \in Views
  BY <1>2 DEF TypeInv, TypeOK
<1>4. RunOK(s)
  <2> DEFINE v == places[Head(r.todo)]
  <2>1. v \in Views
    BY <1>3
  <2> HIDE DEF v
  <2>2. [r EXCEPT !.saw = v, !.step = "inspect"] \in Runs
    BY <1>1, <2>1 DEF Runs, Steps
  <2>3. RunOK([r EXCEPT !.saw = v, !.step = "inspect"])
    BY <1>1, <2>2 DEF RunOK, Runs
  <2>4. QED
    BY <2>3 DEF v
<1>5. RunOK(Passed(r))
  BY <1>1, PassedTyped
<1>6. \/ Ends(p, "descriptor") \/ Ends(p, "changed")
      \/ Set(p, s) \/ Set(p, Passed(r))
  BY DEF Observe
<1>7. run' \in [Invocations -> Runs] /\ \A i \in Invocations : RunOK(run[i])'
  <2> HIDE DEF s
  <2>1. QED
    BY <1>4, <1>5, <1>6, SetTyped, EndTyped DEF Causes
<1>8. QED
  BY <1>7, RestTyped DEF Observe

LEMMA InspectTyped ==
    ASSUME TypeInv, NEW p \in Invocations, Inspect(p)
    PROVE  TypeInv'
<1> DEFINE r == run[p]
           b == Passed([r EXCEPT !.phase = "before"])
           a == Passed([r EXCEPT !.phase = "published"])
<1>1. RunOK(r) /\ r.todo # <<>>
  BY DEF Inspect, TypeInv, RunOK
<1>2. RunOK(a) /\ RunOK(b)
  BY <1>1, PassedTyped
<1>3. Ends(p, "exact") \/ Set(p, a) \/ Set(p, b)
  BY DEF Inspect
<1>4. run' \in [Invocations -> Runs] /\ \A i \in Invocations : RunOK(run[i])'
  <2> HIDE DEF a, b
  <2>1. QED
    BY <1>2, <1>3, SetTyped, EndTyped DEF Causes
<1>5. QED
  BY <1>4, RestTyped DEF Inspect

LEMMA ApplyBuildTyped ==
    ASSUME TypeInv, NEW p \in Invocations, Apply(p) \/ Build(p)
    PROVE  TypeInv'
<1> DEFINE r == run[p]
<1>1. r \in Runs /\ <<r.id>> \in Seq(Ids)
  BY DEF TypeInv, TypeOK, Runs
<1>2. RunOK(Pass(r, <<r.id>>, "publish")) /\ RunOK(Pass(r, <<r.id>>, "apply"))
  BY <1>1, PassTyped DEF Targets
<1>3. \/ Set(p, Pass(r, <<r.id>>, "publish"))
      \/ Set(p, Pass(r, <<r.id>>, "apply"))
  BY DEF Apply, Build
<1>4. run' \in [Invocations -> Runs] /\ \A i \in Invocations : RunOK(run[i])'
  BY <1>2, <1>3, SetTyped
<1>5. QED
  BY <1>4, RestTyped DEF Apply, Build

LEMMA WitnessedTyped ==
    ASSUME NEW r, RunOK(r), NEW i \in Ids, NEW dest
    PROVE  RunOK(Witnessed(r, i, dest))
<1>1. r \in Runs /\ r.moved \cup {i} \in SUBSET Ids
  BY DEF RunOK, Runs
<1>2. [r EXCEPT !.moved = @ \cup {i}, !.touched = TRUE] \in Runs
  BY <1>1 DEF Runs
<1> DEFINE t == r.torn \/ (r.step = "inspect" /\ Head(r.todo) = i)
<1>3. [r EXCEPT !.torn = t] \in Runs
  <2>1. t \in BOOLEAN
    BY <1>1 DEF Runs
  <2> HIDE DEF t
  <2>2. QED
    BY <1>1, <2>1 DEF Runs
<1>4. RunOK([r EXCEPT !.moved = @ \cup {i}, !.touched = TRUE])
  BY <1>1, <1>2 DEF RunOK, Runs
<1>5. RunOK([r EXCEPT !.torn = t])
  <2> HIDE DEF t
  <2>1. QED
    BY <1>1, <1>3 DEF RunOK, Runs
<1>6. QED
  BY <1>4, <1>5 DEF Witnessed

LEMMA PublishTyped ==
    ASSUME TypeInv, NEW p \in Invocations, Publish(p)
    PROVE  TypeInv'
<1> DEFINE r == run[p]
           i == r.id
           plan == r.plan[i]
           writes == r.phase = "before" /\ Creates(plan)
           after == IF r.cmd = "batch" THEN <<i, i>> ELSE <<i>>
<1>1. r \in Runs /\ i \in Ids /\ plan \in Plans
  BY DEF TypeInv, TypeOK, Runs
<1>2. RunOK(Pass(r, after, "receive"))
  <2>1. after \in Seq(Ids)
    BY <1>1
  <2> HIDE DEF after
  <2>2. QED
    BY <1>1, <2>1, PassTyped DEF Targets
<1>3. ASSUME NEW q \in Invocations PROVE RunOK(Witnessed(run[q], i, plan.dest))
  BY <1>1, WitnessedTyped DEF TypeInv
<1>4. run' = [q \in Invocations |->
                 IF q = p THEN Pass(r, after, "receive")
                 ELSE IF writes THEN Witnessed(run[q], i, plan.dest) ELSE run[q]]
  BY DEF Publish
<1>5. \A q \in Invocations : RunOK(run'[q])
  <2> HIDE DEF after, writes
  <2>1. QED
    BY <1>2, <1>3, <1>4 DEF TypeInv
<1>6. run' \in [Invocations -> Runs]
  <2>1. \A q \in Invocations : run'[q] \in Runs
    BY <1>5 DEF RunOK
  <2> HIDE DEF after, writes
  <2>2. QED
    BY <1>4, <2>1
<1>7. places' \in [Ids -> Views]
  <2>1. plan.dest \in Places /\ "link" \in Entries
    BY <1>1 DEF Plans, Places, Entries
  <2>2. places' = places \/ places' = [places EXCEPT ![i][plan.dest] = "link"]
    BY DEF Publish
  <2>3. [places EXCEPT ![i][plan.dest] = "link"] \in [Ids -> Views]
    BY <1>1, <2>1 DEF TypeInv, TypeOK, Views
  <2>4. QED
    BY <2>2, <2>3 DEF TypeInv, TypeOK
<1>8. UNCHANGED <<enabled, membership, changes>>
  BY DEF Publish
<1>9. QED
  BY <1>5, <1>6, <1>7, <1>8 DEF TypeInv, TypeOK, RunOK

LEMMA NativeTyped ==
    ASSUME TypeInv, NEW p \in Invocations, NativeFails(p)
    PROVE  TypeInv'
<1>1. run' \in [Invocations -> Runs] /\ \A i \in Invocations : RunOK(run[i])'
  BY EndTyped DEF NativeFails, Causes
<1>2. changes' \in 0..MaxChanges
  BY BatchAssumption DEF NativeFails, Change, TypeInv, TypeOK
<1>3. QED
  BY <1>1, <1>2 DEF NativeFails, TypeInv, TypeOK, RunOK, shared

LEMMA ReceiveTyped ==
    ASSUME TypeInv, NEW p \in Invocations, Receive(p)
    PROVE  TypeInv'
<1> DEFINE r == run[p]
           ids == <<Head(r.members), r.id>>
<1>1. r \in Runs
  BY DEF TypeInv, TypeOK
<1>2. ASSUME r.members # <<>> PROVE RunOK(Pass(r, ids, "read"))
  <2>1. Head(r.members) \in Receivers
    BY <1>1, <1>2, HeadTail DEF Runs
  <2>2. ids \in Seq(Ids)
    BY <1>1, <2>1 DEF Runs, Ids
  <2> HIDE DEF ids
  <2>3. QED
    BY <1>1, <1>2, <2>2, PassTyped DEF Targets
<1>3. Ends(p, "none") \/ (r.members # <<>> /\ Set(p, Pass(r, ids, "read")))
  BY DEF Receive
<1>4. run' \in [Invocations -> Runs] /\ \A i \in Invocations : RunOK(run[i])'
  <2> HIDE DEF ids
  <2>1. QED
    BY <1>2, <1>3, SetTyped, EndTyped DEF Causes
<1>5. QED
  BY <1>4, RestTyped DEF Receive

LEMMA ReadTyped ==
    ASSUME TypeInv, NEW p \in Invocations, ReadState(p)
    PROVE  TypeInv'
<1> DEFINE r == run[p]
           g == membership[Receiver(p)]
           s == [r EXCEPT !.group = g, !.step = "guard"]
<1>1. r \in Runs /\ RunOK(r) /\ r.members # <<>> /\ r.todo = <<>>
  BY DEF ReadState, TypeInv, TypeOK, RunOK
<1>2. g \in Groups
  BY <1>1, HeadTail DEF Receiver, TypeInv, TypeOK, Runs
<1>3. RunOK(s)
  <2> HIDE DEF g
  <2>1. s \in Runs
    BY <1>1, <1>2 DEF Runs, Steps
  <2>2. QED
    BY <1>1, <2>1 DEF RunOK, Runs
<1>4. Ends(p, "refused") \/ Set(p, s)
  BY DEF ReadState
<1>5. run' \in [Invocations -> Runs] /\ \A i \in Invocations : RunOK(run[i])'
  <2> HIDE DEF s
  <2>1. QED
    BY <1>3, <1>4, SetTyped, EndTyped DEF Causes
<1>6. QED
  BY <1>5, RestTyped DEF ReadState

LEMMA GuardTyped ==
    ASSUME TypeInv, NEW p \in Invocations, Guard(p)
    PROVE  TypeInv'
<1> DEFINE r == run[p]
           ids == IF r.cmd = "toggle" THEN <<>> ELSE <<Receiver(p), r.id>>
           s == [r EXCEPT !.stale = FALSE]
<1>1. r \in Runs /\ RunOK(r) /\ r.members # <<>>
  BY DEF Guard, TypeInv, TypeOK, RunOK
<1>2. s \in Runs /\ s.members # <<>>
  BY <1>1 DEF Runs
<1>3. ids \in Seq(Ids)
  <2>1. Receiver(p) \in Ids /\ r.id \in Ids
    BY <1>1, HeadTail DEF Receiver, Runs, Ids
  <2>2. QED
    BY <2>1
<1>4. RunOK(Pass(s, ids, "commit"))
  <2> HIDE DEF ids, s
  <2>1. QED
    BY <1>2, <1>3, PassTyped DEF Targets
<1>5. Ends(p, "state") \/ Set(p, Pass(s, ids, "commit"))
  BY DEF Guard
<1>6. run' \in [Invocations -> Runs] /\ \A i \in Invocations : RunOK(run[i])'
  <2> HIDE DEF ids, s
  <2>1. QED
    BY <1>4, <1>5, SetTyped, EndTyped DEF Causes
<1>7. QED
  BY <1>6, RestTyped DEF Guard

LEMMA CommitTyped ==
    ASSUME TypeInv, NEW p \in Invocations, Commit(p)
    PROVE  TypeInv'
<1> DEFINE r == run[p]
           m == Receiver(p)
           n == [r EXCEPT !.members = Tail(@), !.step = "receive"]
<1>1. r \in Runs /\ RunOK(r) /\ r.members # <<>> /\ r.todo = <<>>
  BY DEF Commit, TypeInv, TypeOK, RunOK
<1>2. m \in Receivers /\ Tail(r.members) \in Seq(Receivers)
  BY <1>1, HeadTail DEF Receiver, Runs
<1>3. RunOK(n)
  <2>1. n \in Runs
    BY <1>1, <1>2 DEF Runs, Steps
  <2>2. QED
    BY <1>1, <2>1 DEF RunOK, Runs
<1>4. \A q \in Invocations : RunOK([run[q] EXCEPT !.stale = TRUE])
  <2> TAKE q \in Invocations
  <2>1. run[q] \in Runs /\ RunOK(run[q])
    BY DEF TypeInv, TypeOK
  <2>2. [run[q] EXCEPT !.stale = TRUE] \in Runs
    BY <2>1 DEF Runs
  <2>3. QED
    BY <2>1, <2>2 DEF RunOK, Runs
<1>5. run' = [q \in Invocations |->
                 IF q = p THEN n
                 ELSE IF membership'[m] # membership[m] /\ run[q].members # <<>>
                         /\ Receiver(q) = m
                 THEN [run[q] EXCEPT !.stale = TRUE] ELSE run[q]]
  BY DEF Commit
<1>6. \A q \in Invocations : RunOK(run'[q])
  <2> HIDE DEF n, m
  <2>1. QED
    BY <1>3, <1>4, <1>5 DEF TypeInv
<1>7. run' \in [Invocations -> Runs]
  <2>1. \A q \in Invocations : run'[q] \in Runs
    BY <1>6 DEF RunOK
  <2> HIDE DEF n, m
  <2>2. QED
    BY <1>5, <2>1
<1>8. membership' \in [Receivers -> Groups]
  <2>1. Group(r) \in Groups
    BY <1>1 DEF Group, Groups, Runs
  <2>2. membership' = [membership EXCEPT ![m] = Group(r)]
    BY DEF Commit
  <2>3. QED
    BY <1>2, <2>1, <2>2 DEF TypeInv, TypeOK
<1>9. QED
  BY <1>6, <1>7, <1>8 DEF Commit, TypeInv, TypeOK, RunOK

LEMMA TouchedTyped ==
    ASSUME TypeInv, NEW i \in Ids, Touched(i)
    PROVE  run' \in [Invocations -> Runs] /\ \A q \in Invocations : RunOK(run[q])'
<1>1. ASSUME NEW q \in Invocations
      PROVE  RunOK([run[q] EXCEPT !.moved = @ \cup {i}, !.touched = TRUE])
  <2>1. run[q] \in Runs /\ RunOK(run[q]) /\ run[q].moved \cup {i} \in SUBSET Ids
    BY DEF TypeInv, TypeOK, Runs
  <2>2. [run[q] EXCEPT !.moved = @ \cup {i}, !.touched = TRUE] \in Runs
    BY <2>1 DEF Runs
  <2>3. QED
    BY <2>1, <2>2 DEF RunOK, Runs
<1>2. \A q \in Invocations : RunOK(run'[q])
  BY <1>1 DEF Touched, TypeInv
<1>3. \A q \in Invocations : run'[q] \in Runs
  BY <1>2 DEF RunOK
<1>4. QED
  BY <1>2, <1>3 DEF Touched

LEMMA OperateTyped ==
    ASSUME TypeInv, NEW i \in Ids, Operate(i) \/ Edit(i)
    PROVE  TypeInv'
<1>1. run' \in [Invocations -> Runs] /\ \A q \in Invocations : RunOK(run[q])'
  BY TouchedTyped DEF Operate, Edit
<1>2. changes' \in 0..MaxChanges
  BY BatchAssumption DEF Operate, Edit, Change, TypeInv, TypeOK
<1>3. places' \in [Ids -> Views] /\ enabled' \in [Ids -> BOOLEAN]
  <2>1. CASE Edit(i)
    BY <2>1 DEF Edit, TypeInv, TypeOK
  <2>2. CASE Operate(i)
    <3>1. CASE \E s \in Places, e \in Entries : places' = [places EXCEPT ![i][s] = e]
      BY <2>2, <3>1 DEF Operate, TypeInv, TypeOK, Views
    <3>2. CASE places' = [places EXCEPT ![i].active = places[i].disabled,
                                        ![i].disabled = places[i].active]
      BY <2>2, <3>2 DEF Operate, TypeInv, TypeOK, Views, Places, Slots
    <3>3. QED
      BY <2>2, <3>1, <3>2 DEF Operate
  <2>3. QED
    BY <2>1, <2>2
<1>4. membership' = membership
  BY DEF Operate, Edit
<1>5. QED
  BY <1>1, <1>2, <1>3, <1>4 DEF TypeInv, TypeOK, RunOK

LEMMA TypeInit == ASSUME Init PROVE TypeInv
<1>1. run \in [Invocations -> Runs] /\ \A p \in Invocations : RunOK(run[p])
  BY FreshTyped DEF Init, RunOK
<1>2. places \in [Ids -> Views] /\ changes \in 0..MaxChanges
  BY BatchAssumption DEF Init, Views
<1>3. enabled \in [Ids -> BOOLEAN] /\ membership \in [Receivers -> Groups]
  BY DEF Init, Groups
<1>4. QED
  BY <1>1, <1>2, <1>3 DEF TypeInv, TypeOK, RunOK

LEMMA TypeStep == ASSUME TypeInv, [Next]_vars PROVE TypeInv'
<1>1. CASE UNCHANGED vars
  BY <1>1 DEF vars, TypeInv, TypeOK, RunOK
<1>2. ASSUME NEW p \in Invocations, Invocation(p) PROVE TypeInv'
  BY <1>2, BeginTyped, PlanTyped, AdmitTyped, ObserveTyped, InspectTyped,
     ApplyBuildTyped, PublishTyped, NativeTyped, ReceiveTyped, ReadTyped,
     GuardTyped, CommitTyped DEF Invocation
<1>3. ASSUME NEW i \in Ids, Operate(i) \/ Edit(i) PROVE TypeInv'
  BY <1>3, OperateTyped
<1>4. QED
  BY <1>1, <1>2, <1>3 DEF Next

(* The variables keep their shape for every instance (TypeOK).             *)
THEOREM Typing == Spec => []TypeOK
<1>1. TypeInv => TypeOK
  BY DEF TypeInv
<1>2. QED
  BY <1>1, TypeInit, TypeStep, PTL DEF Spec

-----------------------------------------------------------------------------
(* What one invocation may rely on while the others go on, and what follows *)
(* for the publication of a reference.                                      *)


Active(r) == r.step \notin {"idle", "done", "failed"}

(* s is r but for what others wrote down in it.                            *)
Noted(r, s) ==
    /\ s.cmd = r.cmd /\ s.id = r.id /\ s.force = r.force
    /\ s.step = r.step /\ s.plan = r.plan /\ s.members = r.members
    /\ s.todo = r.todo /\ s.next = r.next /\ s.saw = r.saw
    /\ s.phase = r.phase /\ s.group = r.group /\ s.steady = r.steady
    /\ s.cause = r.cause
    /\ r.moved \subseteq s.moved
    /\ r.touched => s.touched
    /\ r.torn => s.torn
    /\ r.stale => s.stale

(* What became of a registration: nothing, something that is noted, or the *)
(* publication this invocation would make itself.                          *)
Drifted(r, s, i) ==
    \/ places'[i] = places[i] /\ enabled'[i] = enabled[i]
    \/ i \in s.moved /\ s.touched
    \/ /\ enabled'[i] = enabled[i]
       /\ places[i][r.plan[i].dest] \in {"missing", "link"}
       /\ places'[i] = [places[i] EXCEPT ![r.plan[i].dest] = "link"]
       /\ r.step = "inspect" /\ Head(r.todo) = i => s.torn

Abides(p) ==
    /\ Noted(run[p], run'[p])
    /\ Active(run[p]) => \A i \in Ids : Drifted(run[p], run'[p], i)
    /\ run[p].members # <<>> =>
          membership'[Receiver(p)] = membership[Receiver(p)] \/ run'[p].stale

(* The steps that are not its own.                                         *)
Foreign(p) ==
    \/ \E q \in Invocations \ {p} : Invocation(q)
    \/ \E i \in Ids : Operate(i) \/ Edit(i)
    \/ UNCHANGED vars

LEMMA SetOther ==
    ASSUME TypeInv, NEW p \in Invocations, NEW q \in Invocations \ {p}, NEW r,
           Set(q, r) \/ \E c \in Causes : Ends(q, c)
    PROVE  run'[p] = run[p]
BY DEF Set, Ends, TypeInv, TypeOK

LEMMA QuietAbides ==
    ASSUME TypeInv, NEW p \in Invocations, NEW q \in Invocations \ {p},
           \/ Begin(q) \/ PlanRegistration(q) \/ Admit(q) \/ Observe(q)
           \/ Inspect(q) \/ Apply(q) \/ NativeFails(q) \/ Build(q)
           \/ Receive(q) \/ ReadState(q) \/ Guard(q)
    PROVE  Abides(p)
<1>1. UNCHANGED shared
  BY DEF Begin, PlanRegistration, Admit, Observe, Inspect, Apply, NativeFails,
         Build, Receive, ReadState, Guard, shared
<1>2. (\E r : Set(q, r)) \/ (\E c \in Causes : Ends(q, c))
  <2>1. CASE Begin(q)
    BY <2>1, ZenonT(60) DEF Begin
  <2>2. CASE PlanRegistration(q)
    BY <2>2 DEF PlanRegistration, Causes
  <2>3. CASE Admit(q)
    BY <2>3 DEF Admit, Causes
  <2>4. CASE Observe(q)
    BY <2>4 DEF Observe, Causes
  <2>5. CASE Inspect(q)
    BY <2>5 DEF Inspect, Causes
  <2>6. CASE Apply(q) \/ NativeFails(q) \/ Build(q)
    BY <2>6 DEF Apply, NativeFails, Build, Causes
  <2>7. CASE Receive(q)
    BY <2>7 DEF Receive, Causes
  <2>8. CASE ReadState(q)
    BY <2>8 DEF ReadState, Causes
  <2>9. CASE Guard(q)
    BY <2>9 DEF Guard, Causes
  <2>10. QED
    BY <2>1, <2>2, <2>3, <2>4, <2>5, <2>6, <2>7, <2>8, <2>9
<1>3. run'[p] = run[p]
  BY <1>2, SetOther
<1>4. QED
  BY <1>1, <1>3 DEF Abides, Noted, Drifted, shared

LEMMA PublishAbides ==
    ASSUME TypeInv, NEW p \in Invocations, NEW q \in Invocations \ {p}, Publish(q)
    PROVE  Abides(p)
<1> DEFINE i == run[q].id
           dest == run[q].plan[i].dest
           writes == run[q].phase = "before" /\ Creates(run[q].plan[i])
           r == run[p]
<1>1. enabled' = enabled /\ membership' = membership
  BY DEF Publish
<1>2. /\ places' = IF writes THEN [places EXCEPT ![i][dest] = "link"] ELSE places
      /\ run'[p] = IF writes THEN Witnessed(r, i, dest) ELSE r
  BY DEF Publish
<1>3. r \in Runs /\ places \in [Ids -> Views] /\ i \in Ids
  BY DEF TypeInv, TypeOK, Runs
<1>4. CASE ~writes \/ ~Active(r)
  <2>1. run'[p] = r
    BY <1>2, <1>4 DEF Witnessed, Active
  <2>2. Noted(r, run'[p])
    BY <2>1 DEF Noted
  <2>3. ASSUME Active(r), NEW j \in Ids PROVE Drifted(r, run'[p], j)
    BY <1>1, <1>2, <1>4, <2>3 DEF Drifted
  <2>4. QED
    BY <1>1, <2>2, <2>3 DEF Abides
<1>5. CASE writes /\ Active(r) /\ (r.plan[i].dest # dest
                                     \/ places[i][dest] \notin {"missing", "link"})
  <2>1. run'[p] = [r EXCEPT !.moved = @ \cup {i}, !.touched = TRUE]
    BY <1>2, <1>5 DEF Witnessed, Active
  <2>2. Noted(r, run'[p]) /\ i \in run'[p].moved /\ run'[p].touched
    BY <1>3, <2>1 DEF Noted, Runs
  <2>3. ASSUME NEW j \in Ids PROVE Drifted(r, run'[p], j)
    BY <1>1, <1>2, <1>3, <2>2 DEF Drifted
  <2>4. QED
    BY <1>1, <2>2, <2>3 DEF Abides
<1>6. CASE writes /\ Active(r) /\ r.plan[i].dest = dest
           /\ places[i][dest] \in {"missing", "link"}
  <2> DEFINE t == r.torn \/ (r.step = "inspect" /\ Head(r.todo) = i)
  <2>1. run'[p] = [r EXCEPT !.torn = t]
    BY <1>2, <1>6 DEF Witnessed, Active
  <2> HIDE DEF t
  <2>2. Noted(r, run'[p]) /\ run'[p].torn = t
    <3>1. r.torn => t
      BY DEF t
    <3>2. QED
      BY <1>3, <2>1, <3>1 DEF Noted, Runs
  <2>3. ASSUME NEW j \in Ids PROVE Drifted(r, run'[p], j)
    <3>1. CASE j # i
      BY <1>1, <1>2, <1>3, <3>1 DEF Drifted
    <3>2. CASE j = i
      <4>1. places'[i] = [places[i] EXCEPT ![dest] = "link"]
        BY <1>2, <1>3, <1>6
      <4>2. QED
        BY <1>1, <1>6, <2>2, <3>2, <4>1 DEF Drifted, t
    <3>3. QED
      BY <3>1, <3>2
  <2>4. QED
    BY <1>1, <2>2, <2>3 DEF Abides
<1>7. QED
  BY <1>4, <1>5, <1>6

LEMMA CommitAbides ==
    ASSUME TypeInv, NEW p \in Invocations, NEW q \in Invocations \ {p}, Commit(q)
    PROVE  Abides(p)
<1> DEFINE m == Receiver(q)
           r == run[p]
           hit == membership'[m] # membership[m] /\ r.members # <<>> /\ Receiver(p) = m
<1>1. /\ run'[p] = IF hit THEN [r EXCEPT !.stale = TRUE] ELSE r
      /\ membership' = [membership EXCEPT ![m] = Group(run[q])]
      /\ places' = places /\ enabled' = enabled
  BY DEF Commit
<1>2. r \in Runs /\ RunOK(run[q]) /\ run[q].members # <<>>
  BY DEF TypeInv, TypeOK, Runs, Commit, RunOK
<1>3. m \in Receivers
  BY <1>2, HeadTail DEF Receiver, RunOK, Runs
<1>4. Noted(r, run'[p])
  BY <1>1, <1>2 DEF Noted, Runs
<1>5. Active(r) => \A i \in Ids : Drifted(r, run'[p], i)
  BY <1>1 DEF Drifted
<1>6. ASSUME r.members # <<>>
      PROVE  membership'[Receiver(p)] = membership[Receiver(p)] \/ run'[p].stale
  <2>1. CASE hit
    BY <1>1, <1>2, <2>1 DEF Runs
  <2>2. CASE ~hit
    BY <1>1, <1>3, <1>6, <2>2 DEF TypeInv, TypeOK
  <2>3. QED
    BY <2>1, <2>2
<1>7. QED
  BY <1>4, <1>5, <1>6 DEF Abides

LEMMA TouchAbides ==
    ASSUME TypeInv, NEW p \in Invocations, NEW i \in Ids, Operate(i) \/ Edit(i)
    PROVE  Abides(p)
<1> DEFINE r == run[p]
<1>1. r \in Runs /\ places \in [Ids -> Views] /\ enabled \in [Ids -> BOOLEAN]
  BY DEF TypeInv, TypeOK
<1>2. run'[p] = IF ~Active(r) THEN r
                ELSE [r EXCEPT !.moved = @ \cup {i}, !.touched = TRUE]
  BY DEF Operate, Edit, Touched, Active
<1>3. Noted(r, run'[p]) /\ (Active(r) => i \in run'[p].moved /\ run'[p].touched)
  BY <1>1, <1>2 DEF Noted, Runs
<1>4. membership' = membership
  BY DEF Operate, Edit
<1>5. ASSUME Active(r), NEW j \in Ids PROVE Drifted(r, run'[p], j)
  <2>1. CASE j = i
    BY <1>3, <1>5, <2>1 DEF Drifted
  <2>2. CASE j # i
    <3>1. places'[j] = places[j] /\ enabled'[j] = enabled[j]
      BY <1>1, <2>2 DEF Operate, Edit
    <3>2. QED
      BY <3>1 DEF Drifted
  <2>3. QED
    BY <2>1, <2>2
<1>6. QED
  BY <1>3, <1>4, <1>5 DEF Abides

LEMMA ForeignAbides ==
    ASSUME TypeInv, NEW p \in Invocations, Foreign(p)
    PROVE  Abides(p)
<1>1. CASE UNCHANGED vars
  BY <1>1 DEF vars, Abides, Noted, Drifted, Receiver
<1>2. ASSUME NEW q \in Invocations \ {p}, Invocation(q) PROVE Abides(p)
  BY <1>2, QuietAbides, PublishAbides, CommitAbides DEF Invocation
<1>3. QED
  BY <1>1, <1>2, TouchAbides DEF Foreign

-----------------------------------------------------------------------------
(* What was seen and what is there.                                        *)

(* There is what was seen, but perhaps for a publication at d.             *)
Within(now, seen, d) ==
    \A s \in Places :
        now[s] = seen[s] \/ (s = d /\ seen[s] = "missing" /\ now[s] = "link")
WithinSlots(now, slots, d) ==
    \A s \in Slots :
        now[s] = slots[s] \/ (s = d /\ slots[s] = "missing" /\ now[s] = "link")

(* A plan this registration was admitted with.                             *)
Planned(plan) ==
    /\ plan.exact
    /\ plan.dest = Destination(plan.view, plan.slots, plan.on)
    /\ ~Conflicting(plan.view, plan.slots) /\ ~Blocked(plan)

(* Between the two looks of a check.                                       *)
Looking(r) ==
    r.step = "inspect" =>
       LET i == Head(r.todo) IN
       /\ r.plan[i].exact
       /\ i \notin r.moved =>
             enabled[i] = r.plan[i].on /\ Within(places[i], r.saw, r.plan[i].dest)

(* On the way to a publication.                                            *)
Publishing(r) ==
    LET plan == r.plan[r.id] IN
    /\ \/ r.step \in {"admit", "build", "apply", "publish"}
       \/ r.todo # <<>> /\ r.next \in {"build", "apply", "publish"}
       => Planned(plan)
    /\ r.todo # <<>> /\ r.next = "publish" => r.todo = <<r.id>>
    /\ r.step = "publish" /\ r.phase = "before" /\ r.id \notin r.moved =>
          Within(places[r.id], plan.view, plan.dest)
             /\ WithinSlots(places[r.id], plan.slots, plan.dest)

PublishInv == TypeInv /\ \A p \in Invocations : Looking(run[p]) /\ Publishing(run[p])

(* A plan nobody disturbed finds both slots as empty as it needs them.     *)
LEMMA EmptySlots ==
    ASSUME NEW plan \in Plans, Planned(plan), Creates(plan), NEW now \in Views,
           Within(now, plan.view, plan.dest), WithinSlots(now, plan.slots, plan.dest)
    PROVE  /\ now[plan.dest] \in {"missing", "link"}
           /\ now[plan.dest] = "missing" => \A s \in Slots : now[s] = "missing"
<1> DEFINE d == plan.dest
<1>1. d \in Slots /\ Slots \subseteq Places /\ plan.view \in Views
  BY DEF Plans, Places
<1>2. plan.slots[d] = "missing"
  BY DEF Creates
<1>3. now[d] \in {"missing", "link"}
  BY <1>1, <1>2 DEF WithinSlots
<1>4. ASSUME now[d] = "missing", NEW s \in Slots PROVE now[s] = "missing"
  <2>1. plan.view[d] = "missing"
    BY <1>1, <1>4 DEF Within
  <2>2. CASE s = d
    BY <1>4, <2>2
  <2>3. CASE s # d
    <3>1. now[s] = plan.view[s]
      BY <1>1, <2>3 DEF Within
    <3>2. ASSUME plan.view[s] # "missing" PROVE FALSE
      <4>1. Occupied(plan.view) = {s}
        BY <1>1, <2>1, <2>3, <3>2 DEF Occupied, Slots
      <4>2. d = s
        BY <1>1, <4>1 DEF Planned, Destination, Slots
      <4>3. QED
        BY <2>3, <4>2
    <3>3. QED
      BY <3>1, <3>2
  <2>4. QED
    BY <2>2, <2>3
<1>5. QED
  BY <1>3, <1>4

(* A reference in an empty pair of slots changes only a missing state.     *)
LEMMA LinkEffect ==
    ASSUME NEW now \in Views, NEW on \in BOOLEAN, NEW d \in Slots,
           \A s \in Slots : now[s] = "missing"
    PROVE  LET after == [now EXCEPT ![d] = "link"] IN
           /\ Effective(now, on) \in {"missing", Effective(after, on)}
           /\ Effective(after, on) # "conflict"
<1> DEFINE after == [now EXCEPT ![d] = "link"]
<1>1. /\ after.over = now.over
      /\ after.active = IF d = "active" THEN "link" ELSE "missing"
      /\ after.disabled = IF d = "disabled" THEN "link" ELSE "missing"
      /\ now.active = "missing" /\ now.disabled = "missing"
      /\ now.over \in Entries
  BY DEF Views, Places, Slots
<1>2. Occupied(after) # Slots /\ Occupied(now) = {}
  <2> HIDE DEF after
  <2>1. after.active = "missing" \/ after.disabled = "missing"
    BY <1>1
  <2>2. QED
    BY <1>1, <2>1 DEF Occupied, Slots
<1>3. Winner(now) = now.over
  BY <1>1 DEF Winner
<1>4. now.over # "missing" => Winner(after) = now.over
  BY <1>1 DEF Winner
<1>5. CASE now.over = "missing"
  <2>1. Effective(now, on) = "missing"
    BY <1>2, <1>3, <1>5 DEF Effective, Declares, Slots
  <2>2. \A e \in Entries : Declares(e, on) # "conflict"
    BY DEF Declares, Entries
  <2>3. Winner(after) \in Entries
    BY <1>1 DEF Winner, Entries
  <2>4. Effective(after, on) # "conflict"
    <3> HIDE DEF after
    <3>1. QED
      BY <1>2, <2>2, <2>3 DEF Effective
  <2>5. QED
    BY <2>1, <2>4
<1>6. CASE now.over # "missing"
  <2>1. Effective(now, on) = Declares(now.over, on)
    BY <1>3, <1>6 DEF Effective
  <2>2. Effective(after, on) = Declares(now.over, on)
    BY <1>1, <1>4, <1>6 DEF Effective
  <2>3. Declares(now.over, on) # "conflict"
    BY DEF Declares
  <2>4. QED
    BY <2>1, <2>2, <2>3
<1>7. QED
  BY <1>5, <1>6

LEMMA PublishKeepsStep ==
    ASSUME PublishInv, NEW p \in Invocations, NEW i \in Ids,
           Publish(p), run[p].id = i, i \notin run[p].moved, places'[i] # places[i]
    PROVE  /\ \A s \in Places :
                 places'[i][s] # places[i][s] => places[i][s] \in {"missing", "link"}
           /\ Effect(i) \in {"missing", Effect(i)'} /\ Effect(i)' # "conflict"
<1> DEFINE plan == run[p].plan[i]
           d == plan.dest
<1>1. /\ run[p].step = "publish" /\ run[p].phase = "before" /\ Creates(plan)
      /\ places' = [places EXCEPT ![i][d] = "link"] /\ enabled' = enabled
  BY DEF Publish
<1>2. /\ plan \in Plans /\ places \in [Ids -> Views] /\ places[i] \in Views
      /\ enabled[i] \in BOOLEAN
  BY DEF PublishInv, TypeInv, TypeOK, Runs
<1>3. /\ Planned(plan) /\ Within(places[i], plan.view, d)
      /\ WithinSlots(places[i], plan.slots, d)
  BY <1>1 DEF PublishInv, Publishing
<1>4. places'[i] = [places[i] EXCEPT ![d] = "link"] /\ d \in Slots
  BY <1>1, <1>2 DEF Plans
<1>5. places[i][d] \in {"missing", "link"}
  BY <1>1, <1>2, <1>3, EmptySlots
<1>6. places[i][d] # "link"
  BY <1>2, <1>4 DEF Views
<1>7. \A s \in Slots : places[i][s] = "missing"
  BY <1>1, <1>2, <1>3, <1>5, <1>6, EmptySlots
<1>8. \A s \in Places :
         places'[i][s] # places[i][s] => places[i][s] \in {"missing", "link"}
  BY <1>2, <1>4, <1>5 DEF Views
<1>9. /\ Effect(i) = Effective(places[i], enabled[i])
      /\ Effect(i)' = Effective([places[i] EXCEPT ![d] = "link"], enabled[i])
  BY <1>1, <1>4 DEF Effect
<1>10. LET after == [places[i] EXCEPT ![d] = "link"] IN
       /\ Effective(places[i], enabled[i])
             \in {"missing", Effective(after, enabled[i])}
       /\ Effective(after, enabled[i]) # "conflict"
  BY <1>2, <1>4, <1>7, LinkEffect
<1>11. QED
  BY <1>8, <1>9, <1>10

-----------------------------------------------------------------------------
(* The invariant is kept by the others ...                                 *)

LEMMA WithinDrift ==
    ASSUME NEW r, NEW s, NEW i, NEW seen, Drifted(r, s, i),
           ~(i \in s.moved /\ s.touched),
           places[i] \in Views, seen \in Views, r.plan[i].dest \in Slots
    PROVE  /\ enabled'[i] = enabled[i]
           /\ Within(places[i], seen, r.plan[i].dest) =>
                 Within(places'[i], seen, r.plan[i].dest)
           /\ \A slots \in [Slots -> Entries] :
                 WithinSlots(places[i], slots, r.plan[i].dest) =>
                    WithinSlots(places'[i], slots, r.plan[i].dest)
BY DEF Drifted, Within, WithinSlots, Views, Places

LEMMA PublishForeign ==
    ASSUME PublishInv, NEW p \in Invocations, Foreign(p)
    PROVE  Looking(run[p])' /\ Publishing(run[p])'
<1> DEFINE r == run[p]
           s == run'[p]
<1>1. Noted(r, s) /\ (Active(r) => \A i \in Ids : Drifted(r, s, i))
  BY ForeignAbides DEF PublishInv, Abides
<1>2. r \in Runs /\ RunOK(r) /\ places \in [Ids -> Views] /\ Looking(r) /\ Publishing(r)
  BY DEF PublishInv, TypeInv, TypeOK
<1>3. Looking(r)'
  <2>1. SUFFICES ASSUME s.step = "inspect" PROVE Looking(r)'
    BY DEF Looking
  <2> DEFINE i == Head(r.todo)
  <2>2. r.step = "inspect" /\ s.todo = r.todo /\ s.plan = r.plan /\ s.saw = r.saw
    BY <1>1, <2>1 DEF Noted
  <2>3. i \in Ids /\ Active(r)
    BY <1>2, <2>2, HeadTail DEF RunOK, Runs, Active
  <2>4. r.plan[i].exact /\ r.plan[i].dest \in Slots /\ r.saw \in Views
    BY <1>2, <2>2, <2>3 DEF Looking, Runs, Plans
  <2>5. ASSUME i \notin s.moved
        PROVE  enabled'[i] = r.plan[i].on /\ Within(places'[i], r.saw, r.plan[i].dest)
    <3>1. i \notin r.moved
      BY <1>1, <2>5 DEF Noted
    <3>2. enabled[i] = r.plan[i].on /\ Within(places[i], r.saw, r.plan[i].dest)
      BY <1>2, <2>2, <3>1 DEF Looking
    <3>3. QED
      BY <1>1, <1>2, <2>3, <2>4, <2>5, <3>2, WithinDrift
  <2>6. QED
    BY <2>2, <2>4, <2>5 DEF Looking
<1>4. Publishing(r)'
  <2> DEFINE i == r.id
             plan == r.plan[i]
  <2>1. /\ s.step = r.step /\ s.todo = r.todo /\ s.next = r.next /\ s.id = r.id
        /\ s.plan = r.plan /\ s.phase = r.phase /\ r.moved \subseteq s.moved
    BY <1>1 DEF Noted
  <2>2. i \in Ids /\ plan \in Plans
    BY <1>2 DEF Runs
  <2>3. ASSUME s.step = "publish", s.phase = "before", i \notin s.moved
        PROVE  Within(places'[i], plan.view, plan.dest)
                  /\ WithinSlots(places'[i], plan.slots, plan.dest)
    <3>1. /\ Within(places[i], plan.view, plan.dest)
          /\ WithinSlots(places[i], plan.slots, plan.dest)
      BY <1>2, <2>1, <2>3 DEF Publishing
    <3>2. Drifted(r, s, i)
      BY <1>1, <2>1, <2>2, <2>3 DEF Active
    <3>3. QED
      BY <1>2, <2>2, <2>3, <3>1, <3>2, WithinDrift DEF Plans
  <2>4. QED
    BY <1>2, <2>1, <2>3 DEF Publishing
<1>5. QED
  BY <1>3, <1>4

(* ... and by its own steps.                                               *)

LEMMA EndPublishes ==
    ASSUME TypeInv, NEW p \in Invocations, NEW cause \in Causes, Ends(p, cause)
    PROVE  Looking(run[p])' /\ Publishing(run[p])'
BY EndTyped DEF Looking, Publishing

LEMMA PassFields ==
    ASSUME NEW r \in Runs, NEW ids, NEW next
    PROVE  LET s == Pass(r, ids, next) IN
           /\ s.todo = ids /\ s.next = next /\ s.plan = r.plan /\ s.id = r.id
           /\ s.step = (IF ids = <<>> THEN next ELSE "verify")
           /\ s.members = r.members /\ s.phase = "none" /\ s.moved = {}
           /\ s.cmd = r.cmd /\ s.force = r.force /\ s.steady = r.steady
           /\ s.stale = r.stale /\ s.group = r.group
           /\ s.touched = r.touched /\ s.torn = r.torn /\ s.cause = r.cause
BY DEF Pass, Runs

PassedAs(r, s, phase) ==
    /\ s.todo = Tail(r.todo) /\ s.next = r.next /\ s.plan = r.plan
    /\ s.id = r.id /\ s.members = r.members /\ s.moved = r.moved
    /\ s.cmd = r.cmd /\ s.force = r.force /\ s.steady = r.steady
    /\ s.stale = r.stale /\ s.group = r.group
    /\ s.touched = r.touched /\ s.torn = r.torn /\ s.cause = r.cause
    /\ s.step = IF Tail(r.todo) = <<>> THEN r.next ELSE "verify"
    /\ s.phase = phase

LEMMA PassedFields ==
    ASSUME NEW r, RunOK(r), r.todo # <<>>, NEW phase \in {"none", "before", "published"}
    PROVE  /\ PassedAs(r, Passed(r), r.phase)
           /\ PassedAs(r, Passed([r EXCEPT !.phase = phase]), phase)
<1>1. Len(r.todo) = 1 <=> Tail(r.todo) = <<>>
  BY HeadTail DEF RunOK, Runs
<1>2. r \in Runs /\ [r EXCEPT !.phase = phase] \in Runs
  BY DEF RunOK, Runs
<1> DEFINE step == IF Tail(r.todo) = <<>> THEN r.next ELSE "verify"
           s == Passed(r)
           t == Passed([r EXCEPT !.phase = phase])
<1>3. /\ s = [r EXCEPT !.todo = Tail(r.todo), !.saw = Nowhere, !.step = step]
      /\ t = [r EXCEPT !.phase = phase, !.todo = Tail(r.todo), !.saw = Nowhere,
                       !.step = step]
  BY <1>1, <1>2 DEF Passed, Runs
<1> HIDE DEF s, t, step
<1>4. PassedAs(r, s, r.phase)
  BY <1>2, <1>3 DEF Runs, PassedAs, step
<1>5. PassedAs(r, t, phase)
  BY <1>2, <1>3 DEF Runs, PassedAs, step
<1>6. QED
  BY <1>4, <1>5 DEF s, t

LEMMA SetIs ==
    ASSUME TypeInv, NEW p \in Invocations, NEW r, Set(p, r)
    PROVE  run'[p] = r
BY DEF Set, TypeInv, TypeOK

(* What the steps of an admission leave.                                   *)
LEMMA BeginFields ==
    ASSUME TypeInv, NEW p \in Invocations, Begin(p)
    PROVE  \E cmd \in CommandKinds, i \in Ids :
              LET s == run'[p]
                  none == [j \in Ids |-> NoPlan]
              IN  /\ <<cmd, i>> \in Commands /\ s.cmd = cmd /\ s.id = i
                  /\ s.todo = <<>> /\ s.step = IF cmd = "toggle" THEN "read" ELSE "plan"
                  /\ s.plan = IF cmd = "toggle" THEN none
                              ELSE [none EXCEPT ![i] = Observed(places[i], enabled[i])]
                  /\ s.members = IF cmd = "toggle" THEN <<i>> ELSE <<>>
                  /\ s.cause = "none" /\ s.steady = FALSE /\ s.next = "none"
<1>1. PICK cmd \in CommandKinds, i \in Ids, o \in Options :
         /\ <<cmd, i>> \in Commands
         /\ LET r == [Fresh EXCEPT !.cmd = cmd, !.id = i,
                      !.force = o.force /\ cmd # "register",
                      !.explicit = o.explicit /\ cmd = "batch"]
            IN  Set(p, IF cmd = "toggle"
                       THEN [r EXCEPT !.step = "read", !.members = <<i>>]
                       ELSE [r EXCEPT !.step = "plan",
                                      !.plan[i] = Observed(places[i], enabled[i])])
  BY DEF Begin
<1> DEFINE f == o.force /\ cmd # "register"
           e == o.explicit /\ cmd = "batch"
           g == Observed(places[i], enabled[i])
           r == [Fresh EXCEPT !.cmd = cmd, !.id = i, !.force = f, !.explicit = e]
           t == [r EXCEPT !.step = "read", !.members = <<i>>]
           n == [r EXCEPT !.step = "plan", !.plan[i] = g]
           none == [j \in Ids |-> NoPlan]
<1>2. /\ r.cmd = cmd /\ r.id = i /\ r.todo = <<>> /\ r.plan = none
      /\ r.members = <<>> /\ r.cause = "none" /\ r.steady = FALSE /\ r.next = "none"
      /\ r \in Runs
  <2>1. f \in BOOLEAN /\ e \in BOOLEAN
    OBVIOUS
  <2> HIDE DEF f, e
  <2>2. Fresh \in Runs
    BY FreshTyped
  <2>3. r \in Runs
    BY <2>1, <2>2 DEF Runs
  <2>4. QED
    BY <2>3 DEF Fresh
<1> HIDE DEF r, g
<1>3. /\ t.step = "read" /\ t.members = <<i>> /\ t.cmd = cmd /\ t.id = i
      /\ t.todo = <<>> /\ t.plan = none /\ t.cause = "none" /\ t.steady = FALSE
      /\ t.next = "none"
  <2> HIDE DEF none
  <2>1. QED
    BY <1>2 DEF Runs
<1>4. /\ n.step = "plan" /\ n.members = <<>> /\ n.cmd = cmd /\ n.id = i
      /\ n.todo = <<>> /\ n.plan = [none EXCEPT ![i] = g] /\ n.cause = "none"
      /\ n.steady = FALSE /\ n.next = "none"
  <2> HIDE DEF none
  <2>1. QED
    BY <1>2 DEF Runs
<1>5. run'[p] = IF cmd = "toggle" THEN t ELSE n
  <2>1. Set(p, IF cmd = "toggle" THEN t ELSE n)
    BY <1>1 DEF r, f, e, g
  <2> HIDE DEF t, n
  <2>2. QED
    BY <2>1, SetIs
<1> HIDE DEF t, n
<1>6. QED
  BY <1>1, <1>3, <1>4, <1>5 DEF g

LEMMA PlanFields ==
    ASSUME TypeInv, NEW p \in Invocations, PlanRegistration(p)
    PROVE  LET r == run[p]
               s == run'[p]
               seen == r.plan[r.id]
               plan == Plan(seen.view, SlotsOf(places[r.id]), seen.on)
           IN  \/ Ends(p, "refused")
               \/ /\ ~Conflicting(seen.view, SlotsOf(places[r.id])) /\ ~Blocked(plan)
                  /\ s.step \in {"apply", "admit"} /\ s.todo = <<>>
                  /\ s.plan = [r.plan EXCEPT ![r.id] = plan]
                  /\ s.cmd = r.cmd /\ s.id = r.id /\ s.members = r.members
                  /\ s.cause = r.cause /\ s.steady = r.steady
                  /\ s.touched = r.touched /\ s.torn = r.torn
<1> DEFINE r == run[p]
           seen == r.plan[r.id]
           slots == SlotsOf(places[r.id])
           plan == Plan(seen.view, slots, seen.on)
           q == [r EXCEPT !.plan[r.id] = plan]
           n == IF r.cmd = "register" THEN [q EXCEPT !.step = "apply"]
                ELSE [q EXCEPT !.step = "admit"]
<1>1. r \in Runs /\ r.todo = <<>>
  BY DEF PlanRegistration, TypeInv, TypeOK, RunOK
<1>2. \/ Ends(p, "refused")
      \/ Set(p, n) /\ ~Conflicting(seen.view, slots) /\ ~Blocked(plan)
  BY DEF PlanRegistration
<1>3. /\ n.step \in {"apply", "admit"} /\ n.todo = <<>>
      /\ n.plan = [r.plan EXCEPT ![r.id] = plan]
      /\ n.cmd = r.cmd /\ n.id = r.id /\ n.members = r.members
      /\ n.cause = r.cause /\ n.steady = r.steady
      /\ n.touched = r.touched /\ n.torn = r.torn
  <2> HIDE DEF plan
  <2>1. QED
    BY <1>1 DEF Runs
<1> HIDE DEF n
<1>4. QED
  BY <1>2, <1>3, SetIs

AdmittedPlans(r) ==
    [i \in Ids |->
        IF i = r.id THEN r.plan[i]
        ELSE [Observed(places[i], enabled[i])
                 EXCEPT !.exact = i \in Receivers /\ ~Registered(i)]]

LEMMA AdmitFields ==
    ASSUME TypeInv, NEW p \in Invocations, Admit(p)
    PROVE  LET r == run[p]
               s == run'[p]
               members == Order[{m \in Receivers : Selectable(r, m)}]
           IN  \/ Ends(p, "refused")
               \/ /\ Admissible(r) /\ r.cmd # "host"
                  /\ s.step = (IF members = <<>> THEN "apply" ELSE "verify")
                  /\ s.next = "apply" /\ s.todo = members /\ s.members = members
                  /\ s.plan = AdmittedPlans(r) /\ s.steady = Steady(r)
                  /\ s.cmd = r.cmd /\ s.id = r.id /\ s.cause = r.cause
                  /\ s.force = r.force
                  /\ s.touched = r.touched /\ s.torn = r.torn
               \/ r.cmd = "host" /\ s = Pass(r, <<r.id>>, "build")
<1> DEFINE r == run[p]
           members == Order[{m \in Receivers : Selectable(r, m)}]
           ps == AdmittedPlans(r)
           st == Steady(r)
           b == [r EXCEPT !.members = members, !.plan = ps, !.steady = st]
<1>1. r \in Runs
  BY DEF TypeInv, TypeOK
<1>2. \/ Ends(p, "refused")
      \/ Admissible(r) /\ r.cmd # "host" /\ Set(p, Pass(b, members, "apply"))
      \/ r.cmd = "host" /\ Set(p, Pass(r, <<r.id>>, "build"))
  BY DEF Admit, AdmittedPlans
<1>3. LET s == Pass(b, members, "apply") IN
      /\ s.step = (IF members = <<>> THEN "apply" ELSE "verify")
      /\ s.next = "apply" /\ s.todo = members /\ s.members = members
      /\ s.plan = ps /\ s.steady = st
      /\ s.cmd = r.cmd /\ s.id = r.id /\ s.cause = r.cause /\ s.force = r.force
      /\ s.touched = r.touched /\ s.torn = r.torn
  <2> HIDE DEF members, ps, st
  <2>1. QED
    BY <1>1 DEF Pass, Runs
<1> HIDE DEF members, ps, st, b
<1>4. QED
  BY <1>2, <1>3, SetIs DEF members, ps, st

LEMMA NotPublishing ==
    ASSUME NEW p \in Invocations,
           run'[p].step \notin {"inspect", "admit", "build", "apply", "publish"},
           run'[p].todo = <<>> \/ run'[p].next \notin {"build", "apply", "publish"}
    PROVE  Looking(run[p])' /\ Publishing(run[p])'
BY DEF Looking, Publishing

LEMMA BeginPublishes ==
    ASSUME PublishInv, NEW p \in Invocations, Begin(p)
    PROVE  Looking(run[p])' /\ Publishing(run[p])'
<1>1. run'[p].step \in {"read", "plan"} /\ run'[p].todo = <<>>
  BY BeginFields DEF PublishInv
<1>2. QED
  BY <1>1, NotPublishing

LEMMA PlanPublishes ==
    ASSUME PublishInv, NEW p \in Invocations, PlanRegistration(p)
    PROVE  Looking(run[p])' /\ Publishing(run[p])'
<1> DEFINE r == run[p]
           plan == Plan(r.plan[r.id].view, SlotsOf(places[r.id]), r.plan[r.id].on)
<1>1. r.id \in Ids /\ r.plan \in [Ids -> Plans]
  BY DEF PublishInv, TypeInv, TypeOK, Runs
<1>2. CASE Ends(p, "refused")
  BY <1>2, EndPublishes DEF PublishInv, Causes
<1>3. CASE /\ ~Conflicting(r.plan[r.id].view, SlotsOf(places[r.id])) /\ ~Blocked(plan)
           /\ run'[p].step \in {"apply", "admit"} /\ run'[p].todo = <<>>
           /\ run'[p].plan = [r.plan EXCEPT ![r.id] = plan] /\ run'[p].id = r.id
  <2>1. Planned(plan)
    BY <1>3 DEF Planned, Plan
  <2> HIDE DEF plan
  <2>2. QED
    BY <1>1, <1>3, <2>1 DEF Looking, Publishing
<1>4. QED
  BY <1>2, <1>3, PlanFields DEF PublishInv

LEMMA AdmitPublishes ==
    ASSUME PublishInv, NEW p \in Invocations, Admit(p)
    PROVE  Looking(run[p])' /\ Publishing(run[p])'
<1> DEFINE r == run[p]
           s == run'[p]
<1>1. r \in Runs /\ r.id \in Ids /\ Planned(r.plan[r.id])
  BY DEF Admit, PublishInv, TypeInv, TypeOK, Runs, Publishing
<1>2. CASE Ends(p, "refused")
  BY <1>2, EndPublishes DEF PublishInv, Causes
<1>3. CASE /\ s.step \in {"apply", "verify"} /\ s.next = "apply"
           /\ s.plan = AdmittedPlans(r) /\ s.id = r.id
  <2>1. s.plan[s.id] = r.plan[r.id]
    BY <1>1, <1>3 DEF AdmittedPlans
  <2>2. QED
    BY <1>1, <1>3, <2>1 DEF Looking, Publishing
<1>4. CASE s = Pass(r, <<r.id>>, "build")
  <2>1. s.step = "verify" /\ s.next = "build" /\ s.id = r.id /\ s.plan = r.plan
    BY <1>1, <1>4, PassFields
  <2>2. QED
    BY <1>1, <2>1 DEF Looking, Publishing
<1>5. QED
  BY <1>2, <1>3, <1>4, AdmitFields DEF PublishInv

LEMMA ObservePublishes ==
    ASSUME PublishInv, NEW p \in Invocations, Observe(p)
    PROVE  Looking(run[p])' /\ Publishing(run[p])'
<1> DEFINE r == run[p]
           i == Head(r.todo)
           plan == r.plan[i]
           s == [r EXCEPT !.saw = places[i], !.step = "inspect"]
<1>1. r \in Runs /\ RunOK(r) /\ r.todo # <<>> /\ r.step = "verify" /\ Publishing(r)
  BY DEF Observe, PublishInv, TypeInv, TypeOK, RunOK
<1>2. i \in Ids /\ places[i] \in Views
  BY <1>1, HeadTail DEF Runs, PublishInv, TypeInv, TypeOK
<1>3. UNCHANGED <<places, enabled>>
  BY DEF Observe, shared
<1>4. CASE Ends(p, "descriptor") \/ Ends(p, "changed")
  BY <1>4, EndPublishes DEF PublishInv, Causes
<1>5. CASE Set(p, s) /\ plan.exact /\ enabled[i] = plan.on
  <2>1. run'[p] = s
    BY <1>5, SetIs DEF PublishInv
  <2>2. /\ s.step = "inspect" /\ s.todo = r.todo /\ s.next = r.next /\ s.id = r.id
        /\ s.plan = r.plan /\ s.saw = places[i]
    BY <1>1 DEF Runs
  <2> HIDE DEF s
  <2>3. Looking(r)'
    BY <1>3, <1>5, <2>1, <2>2 DEF Looking, Within
  <2>4. Publishing(r)'
    BY <1>1, <2>1, <2>2 DEF Publishing
  <2>5. QED
    BY <2>3, <2>4
<1>6. CASE Set(p, Passed(r)) /\ ~plan.exact
  <2>1. run'[p] = Passed(r)
    BY <1>6, SetIs DEF PublishInv
  <2>2. PassedAs(r, run'[p], r.phase)
    BY <1>1, <2>1, PassedFields
  <2>3. run'[p].step # "inspect"
    BY <1>1, <2>2 DEF PassedAs, RunOK, Targets
  <2>4. r.next # "publish"
    BY <1>1, <1>6 DEF Publishing, Planned
  <2>5. run'[p].step # "publish" /\ run'[p].step # "admit"
    BY <1>1, <2>2, <2>4 DEF PassedAs, RunOK, Targets
  <2>6. QED
    BY <1>1, <2>2, <2>3, <2>4, <2>5 DEF Looking, Publishing, PassedAs
<1>7. QED
  BY <1>4, <1>5, <1>6 DEF Observe

LEMMA InspectPublishes ==
    ASSUME PublishInv, NEW p \in Invocations, Inspect(p)
    PROVE  Looking(run[p])' /\ Publishing(run[p])'
<1> DEFINE r == run[p]
           i == Head(r.todo)
           plan == r.plan[i]
           a == Passed([r EXCEPT !.phase = "published"])
           b == Passed([r EXCEPT !.phase = "before"])
<1>1. /\ r \in Runs /\ RunOK(r) /\ r.todo # <<>> /\ r.step = "inspect"
      /\ Publishing(r) /\ Looking(r)
  BY DEF Inspect, PublishInv, TypeInv, TypeOK, RunOK
<1>2. UNCHANGED <<places, enabled>>
  BY DEF Inspect, shared
<1>3. CASE Ends(p, "exact")
  BY <1>3, EndPublishes DEF PublishInv, Causes
<1>4. ASSUME NEW phase \in {"before", "published"},
             PassedAs(r, run'[p], phase),
             phase = "before" => Before(plan, r.saw, SlotsOf(places[i]))
      PROVE  Looking(r)' /\ Publishing(r)'
  <2>1. Looking(r)'
    BY <1>1, <1>4 DEF PassedAs, RunOK, Targets, Looking
  <2>2. r.next = "publish" => i = r.id
    BY <1>1 DEF Publishing
  <2>3. ASSUME run'[p].step = "publish", run'[p].phase = "before", r.id \notin run'[p].moved
        PROVE  Within(places[r.id], r.plan[r.id].view, r.plan[r.id].dest)
                  /\ WithinSlots(places[r.id], r.plan[r.id].slots, r.plan[r.id].dest)
    <3>1. r.next = "publish" /\ i = r.id /\ i \notin r.moved
      BY <1>1, <1>4, <2>2, <2>3 DEF PassedAs
    <3>2. r.saw = plan.view /\ SlotsOf(places[i]) = plan.slots
      BY <1>4, <2>3 DEF Before, PassedAs
    <3>3. Within(places[i], plan.view, plan.dest)
      BY <1>1, <3>1, <3>2 DEF Looking
    <3>4. WithinSlots(places[i], plan.slots, plan.dest)
      BY <3>2 DEF WithinSlots, SlotsOf
    <3>5. QED
      BY <3>1, <3>3, <3>4
  <2>4. run'[p].step # "admit"
    BY <1>1, <1>4 DEF PassedAs, RunOK, Targets
  <2>5. ASSUME r.next = "publish" PROVE Tail(r.todo) = <<>>
    <3>1. r.todo = <<r.id>>
      BY <1>1, <2>5 DEF Publishing
    <3>2. QED
      BY <3>1
  <2>6. Publishing(r)'
    BY <1>1, <1>2, <1>4, <2>3, <2>4, <2>5 DEF Publishing, PassedAs
  <2>7. QED
    BY <2>1, <2>6
<1>5. CASE Set(p, a)
  <2>1. PassedAs(r, run'[p], "published")
    BY <1>1, <1>5, SetIs, PassedFields DEF PublishInv
  <2>2. QED
    BY <1>4, <2>1
<1>6. CASE Set(p, b) /\ Before(plan, r.saw, SlotsOf(places[i]))
  <2>1. PassedAs(r, run'[p], "before")
    BY <1>1, <1>6, SetIs, PassedFields DEF PublishInv
  <2>2. QED
    BY <1>4, <1>6, <2>1
<1>7. QED
  BY <1>3, <1>5, <1>6 DEF Inspect

LEMMA ApplyPublishes ==
    ASSUME PublishInv, NEW p \in Invocations, Apply(p) \/ Build(p)
    PROVE  Looking(run[p])' /\ Publishing(run[p])'
<1> DEFINE r == run[p]
<1>1. r \in Runs /\ Planned(r.plan[r.id])
  BY DEF Apply, Build, PublishInv, TypeInv, TypeOK, Publishing
<1>2. PICK next \in {"apply", "publish"} : run'[p] = Pass(r, <<r.id>>, next)
  BY SetIs DEF Apply, Build, PublishInv
<1>3. /\ run'[p].step = "verify" /\ run'[p].todo = <<r.id>> /\ run'[p].next = next
      /\ run'[p].id = r.id /\ run'[p].plan = r.plan
  BY <1>1, <1>2, PassFields
<1>4. QED
  BY <1>1, <1>3 DEF Looking, Publishing

LEMMA RestPublishes ==
    ASSUME PublishInv, NEW p \in Invocations,
           Publish(p) \/ NativeFails(p) \/ Receive(p) \/ ReadState(p)
              \/ Guard(p) \/ Commit(p)
    PROVE  Looking(run[p])' /\ Publishing(run[p])'
<1> DEFINE r == run[p]
<1>1. r \in Runs /\ RunOK(r)
  BY DEF PublishInv, TypeInv, TypeOK
<1>2. TypeInv'
  BY TypeStep DEF PublishInv, Next, Invocation
<1>3. RunOK(run'[p])
  BY <1>2 DEF TypeInv
<1>4. CASE \E c \in Causes : Ends(p, c)
  BY <1>4, EndPublishes DEF PublishInv
<1>5. ASSUME NEW s, s \in Runs, NEW ids, NEW next \in {"receive", "read", "commit"},
             run'[p] = Pass(s, ids, next)
      PROVE  Looking(r)' /\ Publishing(r)'
  <2>1. run'[p].step \in {"verify", next} /\ run'[p].next = next
    BY <1>5, PassFields
  <2>2. QED
    BY <2>1, NotPublishing
<1>6. CASE Publish(p)
  <2> DEFINE after == IF r.cmd = "batch" THEN <<r.id, r.id>> ELSE <<r.id>>
  <2>1. run'[p] = Pass(r, after, "receive")
    BY <1>6 DEF Publish
  <2> HIDE DEF after
  <2>2. QED
    BY <1>1, <1>5, <2>1
<1>7. CASE NativeFails(p)
  BY <1>4, <1>7 DEF NativeFails, Causes
<1>8. CASE Receive(p)
  <2>1. \/ Ends(p, "none")
        \/ run'[p] = Pass(r, <<Head(r.members), r.id>>, "read")
    BY <1>8, SetIs DEF Receive, PublishInv
  <2>2. QED
    BY <1>1, <1>4, <1>5, <2>1 DEF Causes
<1>9. CASE ReadState(p)
  <2>1. Ends(p, "refused") \/ run'[p].step = "guard"
    <3>1. Ends(p, "refused")
             \/ run'[p] = [r EXCEPT !.group = membership[Receiver(p)], !.step = "guard"]
      BY <1>9, SetIs DEF ReadState, PublishInv
    <3>2. QED
      BY <1>1, <3>1 DEF Runs
  <2>2. run'[p].step = "guard" => run'[p].todo = <<>>
    BY <1>3 DEF RunOK
  <2>3. QED
    BY <1>4, <2>1, <2>2, NotPublishing DEF Causes
<1>10. CASE Guard(p)
  <2> DEFINE s == [r EXCEPT !.stale = FALSE]
             ids == IF r.cmd = "toggle" THEN <<>> ELSE <<Receiver(p), r.id>>
  <2>1. s \in Runs
    BY <1>1 DEF Runs
  <2>2. Ends(p, "state") \/ run'[p] = Pass(s, ids, "commit")
    BY <1>10, SetIs DEF Guard, PublishInv
  <2> HIDE DEF s, ids
  <2>3. QED
    BY <1>4, <1>5, <2>1, <2>2 DEF Causes
<1>11. CASE Commit(p)
  <2>1. run'[p] = [r EXCEPT !.members = Tail(@), !.step = "receive"]
    BY <1>11 DEF Commit
  <2>2. run'[p].step = "receive"
    BY <1>1, <2>1 DEF Runs
  <2>3. run'[p].todo = <<>>
    BY <1>3, <2>2 DEF RunOK
  <2>4. QED
    BY <2>2, <2>3, NotPublishing
<1>12. QED
  BY <1>6, <1>7, <1>8, <1>9, <1>10, <1>11

LEMMA PublishInit == ASSUME Init PROVE PublishInv
<1>1. TypeInv
  BY TypeInit
<1>2. ASSUME NEW p \in Invocations PROVE Looking(run[p]) /\ Publishing(run[p])
  BY FreshTyped DEF Init, Looking, Publishing
<1>3. QED
  BY <1>1, <1>2 DEF PublishInv

LEMMA PublishStep == ASSUME PublishInv, [Next]_vars PROVE PublishInv'
<1>1. TypeInv'
  BY TypeStep DEF PublishInv
<1>2. ASSUME NEW p \in Invocations
      PROVE  Looking(run[p])' /\ Publishing(run[p])'
  <2>1. Invocation(p) \/ Foreign(p)
    BY DEF Next, Foreign
  <2>2. CASE Invocation(p)
    BY <2>2, BeginPublishes, PlanPublishes, AdmitPublishes, ObservePublishes,
       InspectPublishes, ApplyPublishes, RestPublishes DEF Invocation
  <2>3. QED
    BY <2>1, <2>2, PublishForeign
<1>3. QED
  BY <1>1, <1>2 DEF PublishInv

(* Publication does not disturb the operator (PublishKeeps): what is       *)
(* written replaces nothing but the owner's reference and changes only a   *)
(* missing state, unless somebody changed the registration between the     *)
(* last look and the rename.                                               *)
THEOREM PublicationKeeps == Spec => PublishKeeps
<1>1. ASSUME PublishInv, [Next]_vars
      PROVE  [\A p \in Invocations, i \in Ids :
                (Publish(p) /\ run[p].id = i /\ i \notin run[p].moved
                   /\ places'[i] # places[i]) =>
                /\ \A s \in Places :
                      places'[i][s] # places[i][s] => places[i][s] \in {"missing", "link"}
                /\ Effect(i) \in {"missing", Effect(i)'} /\ Effect(i)' # "conflict"]_vars
  BY <1>1, PublishKeepsStep
<1>2. QED
  BY <1>1, PublishInit, PublishStep, PTL DEF Spec, PublishKeeps
=============================================================================
