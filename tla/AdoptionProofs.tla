--------------------------- MODULE AdoptionProofs ---------------------------
(***************************************************************************)
(* Proofs about Adoption for every number of invocations, generations,     *)
(* lanes, runs and outside events.                                         *)
(*                                                                         *)
(* The argument: an invocation owns its vault run from the moment it       *)
(* creates it until the receipt commit of that run exists, so the run      *)
(* holds exactly what the invocation sealed; afterwards the receipt's      *)
(* contents never change, and only Commit writes a receipt ref.  From the  *)
(* same invariant follow the action properties, the refinement of Custody, *)
(* and what a success means.                                               *)
(***************************************************************************)
EXTENDS AdoptionProperties, TLAPS

(* A writer knows what its own run holds.  a is an invocation's state.     *)
WriterOK(a) ==
    /\ a.step \in {"proven", "create", "intent", "seal"} =>
          a.bundle = a.plan.src
    /\ a.step \in Filling => a.run \in Runs /\ vault[a.run].made
    /\ a.step \in {"intent", "seal", "unbundle"} => ledger[a.run] = Absent
    /\ a.step = "intent" => /\ vault[a.run].intent = Absent
                            /\ vault[a.run].bundle = Absent
    /\ a.step = "seal" => /\ vault[a.run].intent = a.plan
                          /\ vault[a.run].bundle = Absent
    /\ a.step = "unbundle" => /\ vault[a.run].intent = a.plan
                              /\ vault[a.run].bundle \in {a.plan.src, Lost}
    /\ a.step \in {"import", "imported", "relist"} => ledger[a.run] = a.plan

(* An invocation that installs holds a receipt of the generation asked for.*)
InstallerOK(a) ==
    /\ a.step \in {"prove", "replan", "relistRetry", "decide", "commit"} =>
          /\ a.run \in Runs
          /\ ledger[a.run] # Absent
          /\ ledger[a.run].gen = a.plan.gen
    /\ a.step = "commit" /\ a.missing.receipt =>
          a.missing.lanes = Pins(ledger[a.run].src)

LocalOK(a) ==
    /\ a.step # "idle" => a.plan \in Facts
    /\ WriterOK(a)
    /\ InstallerOK(a)

(* A run nobody created is empty.                                          *)
NewRunsEmpty ==
    \A r \in Runs : ~vault[r].made =>
        /\ vault[r].intent = Absent
        /\ vault[r].bundle = Absent
        /\ ledger[r] = Absent

(* A receipt commit records the intent sealed in its run.                  *)
LedgerSealed ==
    \A r \in Runs : ledger[r] # Absent =>
        /\ vault[r].intent = ledger[r]
        /\ vault[r].bundle \in {ledger[r].src, Lost}

(* A receipt ref of the tool names a receipt of its own generation.        *)
ReceiptNamesGeneration ==
    \A g \in Generations : receipts[g] \in Runs =>
        /\ ledger[receipts[g]] # Absent
        /\ ledger[receipts[g]].gen = g

(* The inductive invariant.                                                *)
SharedOK ==
    /\ NewRunsEmpty
    /\ NoUnexplainedBundle
    /\ LedgerSealed
    /\ ReceiptNamesGeneration

IInv ==
    /\ TypeOK
    /\ \A p \in Applies : LocalOK(apply[p])
    /\ RunsExclusive
    /\ SharedOK

-----------------------------------------------------------------------------
(* Records of the model, for the provers.                                  *)

LEMMA IdleOK == Idle \in Invocations /\ LocalOK(Idle)
BY SentinelAssumption
   DEF Idle, Invocations, Steps, NothingMissing, LocalOK, WriterOK,
       InstallerOK, Filling

(* The private state a step leaves behind has its type.                    *)
LEMMA StepType ==
    ASSUME NEW a \in Invocations, NEW s \in Steps
    PROVE  /\ [a EXCEPT !.step = s] \in Invocations
           /\ [a EXCEPT !.step = s].step = s
           /\ [a EXCEPT !.step = s].plan = a.plan
           /\ [a EXCEPT !.step = s].bundle = a.bundle
           /\ [a EXCEPT !.step = s].run = a.run
           /\ [a EXCEPT !.step = s].missing = a.missing
BY DEF Invocations

(* A plan made in a well-typed state records facts.                        *)
LEMMA PlanType ==
    ASSUME TypeOK, NEW g \in Generations, NEW rv \in Reviews \cup {Absent}
    PROVE  PlanOf(g, rv) \in Facts /\ PlanOf(g, rv).gen = g
BY DEF TypeOK, PlanOf, Facts

(* Only one invocation moves, and nothing outside it changes: it is enough *)
(* to look at the invocation.                                              *)
LEMMA Move ==
    ASSUME IInv, NEW p \in Applies, NEW a \in Invocations, LocalOK(a),
           a.step \in Filling =>
              apply[p].step \in Filling /\ a.run = apply[p].run,
           apply' = [apply EXCEPT ![p] = a],
           UNCHANGED <<source, worktree, receipts, pins, others, objects,
                       doomed, vault, ledger, faults>>
    PROVE  IInv'
<1>1. TypeOK'
  BY DEF IInv, TypeOK, Listing
<1>2. ASSUME NEW q \in Applies PROVE LocalOK(apply[q])'
  <2>1. LocalOK(apply'[q])
    BY DEF IInv, TypeOK
  <2> QED BY <2>1 DEF LocalOK, WriterOK, InstallerOK
<1>3. RunsExclusive'
  BY DEF IInv, TypeOK, RunsExclusive
<1>4. SharedOK'
  BY DEF IInv, SharedOK, NewRunsEmpty, NoUnexplainedBundle, LedgerSealed,
         ReceiptNamesGeneration
<1> QED BY <1>1, <1>2, <1>3, <1>4 DEF IInv

(* An invocation that stops.                                               *)
LEMMA StopKeeps ==
    ASSUME IInv, NEW p \in Applies, Stop(p), UNCHANGED outside
    PROVE  IInv'
BY IdleOK, Move DEF Stop, outside, Idle, Filling

(* Private progress to a step whose obligations already hold.              *)
LEMMA GotoKeeps ==
    ASSUME IInv, NEW p \in Applies, NEW s \in Steps, Goto(p, s),
           UNCHANGED outside, LocalOK([apply[p] EXCEPT !.step = s]),
           s \in Filling => apply[p].step \in Filling
    PROVE  IInv'
<1> DEFINE a == [apply[p] EXCEPT !.step = s]
<1>1. apply[p] \in Invocations
  BY DEF IInv, TypeOK
<1>2. a \in Invocations /\ a.step = s /\ a.run = apply[p].run
  BY <1>1, StepType
<1>3. apply' = [apply EXCEPT ![p] = a]
  BY DEF Goto
<1> QED BY <1>2, <1>3, Move DEF Goto, outside

LEMMA CheckKeeps ==
    ASSUME IInv, NEW p \in Applies, NEW s \in Steps, NEW ok, Check(p, ok, s),
           UNCHANGED outside, LocalOK([apply[p] EXCEPT !.step = s]),
           s \in Filling => apply[p].step \in Filling
    PROVE  IInv'
BY StopKeeps, GotoKeeps DEF Check

(* The facts about one invocation that the proofs of its steps start from. *)
LEMMA Local ==
    ASSUME IInv, NEW p \in Applies
    PROVE  /\ apply[p] \in Invocations
           /\ LocalOK(apply[p])
           /\ DOMAIN apply = Applies
           /\ apply[p].step # "idle" => apply[p].plan \in Facts
BY DEF IInv, TypeOK, LocalOK

-----------------------------------------------------------------------------
(* Steps that only the invocation itself can see.                          *)

LEMMA PlanKeeps ==
    ASSUME IInv, NEW p \in Applies, NEW g \in Generations,
           NEW rv \in Reviews \cup {Absent}, Plan(p, g, rv)
    PROVE  IInv'
<1>1. CASE Ready(source, rv)
  <2> DEFINE a == [Idle EXCEPT !.step = "observe", !.plan = PlanOf(g, rv)]
  <2>1. PlanOf(g, rv) \in Facts
    BY PlanType DEF IInv
  <2>2. a \in Invocations /\ a.step = "observe" /\ a.plan = PlanOf(g, rv)
    BY <2>1, IdleOK DEF Idle, Invocations, Steps
  <2>3. LocalOK(a)
    BY <2>1, <2>2 DEF LocalOK, WriterOK, InstallerOK, Filling
  <2>4. apply' = [apply EXCEPT ![p] = a]
    BY <1>1 DEF Plan
  <2> HIDE DEF a
  <2> QED BY <2>2, <2>3, <2>4, Move DEF Plan, outside, Filling
<1>2. CASE ~Ready(source, rv)
  <2>1. apply' = [apply EXCEPT ![p] = Idle]
    BY <1>2 DEF Plan
  <2>2. Idle.step \notin Filling
    BY DEF Idle, Filling
  <2> QED BY <2>1, <2>2, IdleOK, Move DEF Plan, outside
<1> QED BY <1>1, <1>2

(* Steps at which nothing is required of an invocation but its plan.       *)
Harmless == {"read", "stage", "staged", "bundle", "driftSource",
             "driftDestination", "done"}

LEMMA HarmlessOK ==
    ASSUME IInv, NEW p \in Applies, apply[p].step # "idle", NEW s \in Harmless
    PROVE  /\ s \in Steps
           /\ s \notin Filling
           /\ LocalOK([apply[p] EXCEPT !.step = s])
<1>1. s \in Steps /\ s \notin Filling
  BY DEF Harmless, Steps, Filling
<1>2. /\ [apply[p] EXCEPT !.step = s].step = s
      /\ [apply[p] EXCEPT !.step = s].plan = apply[p].plan
  BY <1>1, Local, StepType
<1> QED BY <1>1, <1>2, Local DEF LocalOK, WriterOK, InstallerOK, Harmless

LEMMA ObserveKeeps ==
    ASSUME IInv, NEW p \in Applies, Observe(p)
    PROVE  IInv'
<1>1. apply[p].step # "idle" /\ {"read", "stage"} \subseteq Harmless
  BY DEF Observe, At, Harmless
<1> QED BY <1>1, HarmlessOK, StopKeeps, GotoKeeps, CheckKeeps DEF Observe, At

LEMMA StageKeeps ==
    ASSUME IInv, NEW p \in Applies, Stage(p)
    PROVE  IInv'
<1>1. apply[p].step # "idle" /\ "staged" \in Harmless
  BY DEF Stage, At, Harmless
<1> QED BY <1>1, HarmlessOK, CheckKeeps DEF Stage, At

LEMMA RecheckKeeps ==
    ASSUME IInv, NEW p \in Applies,
           \/ Recheck(p, "staged", "bundle")
           \/ Recheck(p, "proven", "create")
           \/ Recheck(p, "imported", "relist")
    PROVE  IInv'
<1>1. CASE Recheck(p, "staged", "bundle")
  <2>1. apply[p].step # "idle" /\ "bundle" \in Harmless
    BY <1>1 DEF Recheck, At, Harmless
  <2> QED BY <1>1, <2>1, HarmlessOK, CheckKeeps DEF Recheck, At
<1>2. CASE Recheck(p, "proven", "create")
  <2>1. LocalOK([apply[p] EXCEPT !.step = "create"])
    BY <1>2, Local, StepType
       DEF Recheck, At, LocalOK, WriterOK, InstallerOK, Filling, Steps
  <2> QED BY <1>2, <2>1, CheckKeeps DEF Recheck, At, Steps, Filling
<1>3. CASE Recheck(p, "imported", "relist")
  <2>1. LocalOK([apply[p] EXCEPT !.step = "relist"])
    BY <1>3, Local, StepType
       DEF Recheck, At, LocalOK, WriterOK, InstallerOK, Filling, Steps
  <2> QED BY <1>3, <2>1, CheckKeeps DEF Recheck, At, Steps, Filling
<1> QED BY <1>1, <1>2, <1>3

LEMMA ProveBundleKeeps ==
    ASSUME IInv, NEW p \in Applies, ProveBundle(p)
    PROVE  IInv'
<1> DEFINE a == [apply[p] EXCEPT !.bundle = apply[p].plan.src,
                                 !.step = "proven"]
<1>1. apply[p].plan \in Facts /\ apply[p].plan.src \in Versions
  BY Local DEF ProveBundle, At, Facts
<1>2. /\ a \in Invocations
      /\ a.step = "proven"
      /\ a.plan = apply[p].plan
      /\ a.bundle = apply[p].plan.src
  BY <1>1, Local, ZenonT(60) DEF Invocations, Steps
<1>3. LocalOK(a)
  BY <1>1, <1>2 DEF LocalOK, WriterOK, InstallerOK, Filling
<1>4. apply' = [apply EXCEPT ![p] = a]
  BY DEF ProveBundle
<1> HIDE DEF a
<1> QED BY <1>2, <1>3, <1>4, Move DEF ProveBundle, At, outside, Filling

(* Relisting succeeds only with the plan's own receipt to install.         *)
LEMMA RelistKeeps ==
    ASSUME IInv, NEW p \in Applies, Relist(p)
    PROVE  IInv'
<1>1. apply[p].plan \in Facts /\ apply[p].plan # Absent
  BY Local, AbsentAssumption DEF Relist, At
<1>2. LocalOK([apply[p] EXCEPT !.step = "decide"])
  BY <1>1, Local, StepType
     DEF Relist, At, LocalOK, WriterOK, InstallerOK, Filling, Steps
<1> QED BY <1>2, CheckKeeps DEF Relist, At, Steps, Filling

LEMMA ReadReceiptKeeps ==
    ASSUME IInv, NEW p \in Applies, ReadReceipt(p)
    PROVE  IInv'
<1> DEFINE r == receipts[apply[p].plan.gen]
           a == [apply[p] EXCEPT !.run = r, !.step = "prove"]
<1>1. apply[p].plan \in Facts /\ apply[p].plan.gen \in Generations
  BY Local DEF ReadReceipt, At, Facts
<1>2. CASE apply' = [apply EXCEPT ![p] = a] /\ r \in Runs
  <2>1. a \in Invocations /\ a.step = "prove" /\ a.plan = apply[p].plan
           /\ a.run = r
    BY <1>2, Local, ZenonT(60) DEF Invocations, Steps
  <2>2. ledger[r] # Absent /\ ledger[r].gen = apply[p].plan.gen
    BY <1>1, <1>2 DEF IInv, SharedOK, ReceiptNamesGeneration
  <2>3. LocalOK(a)
    BY <1>1, <1>2, <2>1, <2>2 DEF LocalOK, WriterOK, InstallerOK, Filling
  <2>4. UNCHANGED <<receipts, pins, objects, doomed, vault, ledger>>
    BY DEF ReadReceipt, Stop
  <2> HIDE DEF a, r
  <2> QED BY <1>2, <2>1, <2>3, <2>4, Move DEF ReadReceipt, At, outside, Filling
<1>3. CASE Stop(p)
  BY <1>3, StopKeeps DEF ReadReceipt, At
<1> QED BY <1>2, <1>3 DEF ReadReceipt

LEMMA ProveExistingBundleKeeps ==
    ASSUME IInv, NEW p \in Applies, ProveExistingBundle(p)
    PROVE  IInv'
<1>1. LocalOK([apply[p] EXCEPT !.step = "replan"])
  BY Local, StepType, SMTT(60)
     DEF ProveExistingBundle, At, LocalOK, WriterOK, InstallerOK, Filling, Steps
<1> QED BY <1>1, CheckKeeps DEF ProveExistingBundle, At, Steps, Filling

LEMMA ReplanKeeps ==
    ASSUME IInv, NEW p \in Applies, Replan(p)
    PROVE  IInv'
<1> DEFINE plan == PlanOf(apply[p].plan.gen, apply[p].plan.review)
           a == [apply[p] EXCEPT !.plan = plan, !.step = "relistRetry"]
<1>1. /\ apply[p].plan.gen \in Generations
      /\ apply[p].plan.review \in Reviews \cup {Absent}
  BY Local DEF Replan, At, Facts
<1>2. plan \in Facts /\ plan.gen = apply[p].plan.gen
  BY <1>1, PlanType DEF IInv
<1>3. CASE apply' = [apply EXCEPT ![p] = a]
  <2>1. a \in Invocations /\ a.step = "relistRetry" /\ a.plan = plan
           /\ a.run = apply[p].run
    BY <1>2, Local, ZenonT(60) DEF Invocations, Steps
  <2>2. LocalOK(a)
    BY <1>2, <2>1, Local
       DEF Replan, At, LocalOK, WriterOK, InstallerOK, Filling
  <2>3. UNCHANGED <<receipts, pins, objects, doomed, vault, ledger>>
    BY DEF Replan, Stop
  <2> HIDE DEF a, plan
  <2> QED BY <1>3, <2>1, <2>2, <2>3, Move DEF Replan, At, outside, Filling
<1>4. CASE Stop(p)
  BY <1>4, StopKeeps DEF Replan, At
<1> QED BY <1>3, <1>4 DEF Replan

LEMMA RelistRetryKeeps ==
    ASSUME IInv, NEW p \in Applies, RelistRetry(p)
    PROVE  IInv'
<1> DEFINE a == [apply[p] EXCEPT !.approved = TRUE, !.step = "decide"]
<1>1. CASE apply' = [apply EXCEPT ![p] = a]
  <2>1. a \in Invocations /\ a.step = "decide" /\ a.plan = apply[p].plan
           /\ a.run = apply[p].run
    BY Local, ZenonT(60) DEF Invocations, Steps
  <2>2. LocalOK(a)
    BY <2>1, Local DEF RelistRetry, At, LocalOK, WriterOK, InstallerOK, Filling
  <2>3. UNCHANGED <<receipts, pins, objects, doomed, vault, ledger>>
    BY DEF RelistRetry, Stop
  <2> HIDE DEF a
  <2> QED BY <1>1, <2>1, <2>2, <2>3, Move DEF RelistRetry, At, outside, Filling
<1>2. CASE Stop(p)
  BY <1>2, StopKeeps DEF RelistRetry, At
<1> QED BY <1>1, <1>2 DEF RelistRetry

(* A receipt ref is missing only when every pin is missing with it.        *)
LEMMA DecideKeeps ==
    ASSUME IInv, NEW p \in Applies, Decide(p)
    PROVE  IInv'
<1> DEFINE r == apply[p].run
           missing == MissingOf(Listing, r)
           next == IF missing = NothingMissing THEN "verifyRefs" ELSE "commit"
           a == [apply[p] EXCEPT !.missing = missing, !.step = next]
<1>1. CASE Installable(Listing, r, apply[p].approved)
           /\ apply' = [apply EXCEPT ![p] = a]
  <2>1. r \in Runs /\ ledger[r] # Absent
    BY Local DEF Decide, At, LocalOK, InstallerOK
  <2>2. missing \in [receipt : BOOLEAN, lanes : SUBSET Lanes]
    BY DEF MissingOf, Pins
  <2>3. a \in Invocations /\ a.step = next /\ a.plan = apply[p].plan
           /\ a.run = r /\ a.missing = missing
    BY <2>2, Local, ZenonT(60) DEF Invocations, Steps
  <2>4. missing.receipt => missing.lanes = Pins(ledger[r].src)
    BY <1>1, <2>1, SentinelAssumption
       DEF Installable, Free, MissingOf, Listing, Pins
  <2>5. LocalOK(a)
    BY <2>3, <2>4, Local
       DEF Decide, At, LocalOK, WriterOK, InstallerOK, Filling
  <2>6. UNCHANGED <<receipts, pins, objects, doomed, vault, ledger>>
    BY DEF Decide, Stop
  <2>7. next \notin Filling
    BY DEF Filling
  <2> HIDE DEF a, next, r
  <2> QED BY <1>1, <2>3, <2>5, <2>6, <2>7, Move DEF Decide, At, outside
<1>2. CASE Stop(p)
  BY <1>2, StopKeeps DEF Decide, At
<1> QED BY <1>1, <1>2 DEF Decide

LEMMA VerifyKeeps ==
    ASSUME IInv, NEW p \in Applies,
           \/ VerifyVault(p) \/ DriftSource(p) \/ DriftDestination(p)
    PROVE  IInv'
<1>1. /\ apply[p].step # "idle"
      /\ {"driftSource", "driftDestination", "done"} \subseteq Harmless
  BY DEF VerifyVault, DriftSource, DriftDestination, At, Harmless
<1>2. ASSUME NEW s \in Harmless, NEW ok, Check(p, ok, s), UNCHANGED outside
      PROVE  IInv'
  BY <1>1, <1>2, HarmlessOK, CheckKeeps
<1> QED BY <1>1, <1>2 DEF VerifyVault, DriftSource, DriftDestination, At

LEMMA VerifyRefsKeeps ==
    ASSUME IInv, NEW p \in Applies, VerifyRefs(p)
    PROVE  IInv'
<1> DEFINE r == receipts[apply[p].plan.gen]
           a == [apply[p] EXCEPT !.checked = r, !.step = "verifyVault"]
<1>1. CASE apply' = [apply EXCEPT ![p] = a] /\ r \in Runs
  <2>1. a \in Invocations /\ a.step = "verifyVault" /\ a.plan = apply[p].plan
    BY <1>1, Local, ZenonT(60) DEF Invocations, Steps
  <2>2. LocalOK(a)
    BY <2>1, Local DEF VerifyRefs, At, LocalOK, WriterOK, InstallerOK, Filling
  <2>3. UNCHANGED <<receipts, pins, objects, doomed, vault, ledger>>
    BY DEF VerifyRefs, Stop
  <2> HIDE DEF a, r
  <2> QED BY <1>1, <2>1, <2>2, <2>3, Move DEF VerifyRefs, At, outside, Filling
<1>2. CASE Stop(p)
  BY <1>2, StopKeeps DEF VerifyRefs, At
<1> QED BY <1>1, <1>2 DEF VerifyRefs

-----------------------------------------------------------------------------
(* Steps that write the vault, the ledger, the object store or the refs.   *)

(* The other invocations of such a step keep what they know.               *)
LEMMA OthersKeep ==
    ASSUME IInv, NEW p \in Applies, NEW q \in Applies \ {p}, NEW r \in Runs,
           apply'[q] = apply[q],
           apply[q].step \in Filling => apply[q].run # r,
           \A s \in Runs \ {r} : vault'[s] = vault[s] /\ ledger'[s] = ledger[s],
           ledger[r] # Absent => ledger'[r] = ledger[r]
    PROVE  LocalOK(apply[q])'
<1>1. LocalOK(apply[q])
  BY Local
<1>2. WriterOK(apply[q])'
  BY <1>1 DEF LocalOK, WriterOK, Filling
<1>3. InstallerOK(apply[q])'
  BY <1>1 DEF LocalOK, InstallerOK
<1> QED BY <1>1, <1>2, <1>3 DEF LocalOK

LEMMA CreateRunKeeps ==
    ASSUME IInv, NEW p \in Applies, NEW r \in Runs, CreateRun(p, r)
    PROVE  IInv'
<1>1. CASE vault[r].made
  BY <1>1, StopKeeps DEF CreateRun, At
<1>2. CASE ~vault[r].made
  <2> DEFINE a == [apply[p] EXCEPT !.run = r, !.step = "intent"]
  <2>1. /\ apply' = [apply EXCEPT ![p] = a]
        /\ vault' = [vault EXCEPT ![r].made = TRUE]
        /\ UNCHANGED <<outside, receipts, pins, objects, doomed, ledger>>
    BY <1>2 DEF CreateRun, At
  <2>2. /\ a \in Invocations
        /\ a.step = "intent"
        /\ a.run = r
        /\ a.plan = apply[p].plan
        /\ a.bundle = apply[p].bundle
    BY Local, ZenonT(60) DEF Invocations, Steps
  <2> HIDE DEF a
  <2>3. TypeOK'
    BY <2>1, <2>2, ZenonT(60) DEF IInv, TypeOK, Listing, outside
  <2>4. /\ vault'[r].made
        /\ vault'[r].intent = Absent
        /\ vault'[r].bundle = Absent
        /\ ledger'[r] = Absent
    BY <1>2, <2>1 DEF IInv, TypeOK, SharedOK, NewRunsEmpty
  <2>5. \A q \in Applies : apply[q].step \in Filling => apply[q].run # r
    BY <1>2, Local DEF LocalOK, WriterOK
  <2>6. LocalOK(apply[p])'
    <3>1. apply'[p] = a
      BY <2>1, Local
    <3>2. apply[p].plan \in Facts /\ apply[p].bundle = apply[p].plan.src
      BY Local DEF CreateRun, At, LocalOK, WriterOK
    <3> QED BY <2>2, <2>4, <3>1, <3>2
            DEF LocalOK, WriterOK, InstallerOK, Filling
  <2>7. ASSUME NEW q \in Applies \ {p} PROVE LocalOK(apply[q])'
    BY <2>1, <2>5, Local, OthersKeep DEF IInv, TypeOK
  <2>8. RunsExclusive'
    BY <2>1, <2>2, <2>5, Local DEF IInv, RunsExclusive
  <2>9. SharedOK'
    BY <2>1, <2>4
       DEF IInv, TypeOK, SharedOK, NewRunsEmpty, NoUnexplainedBundle,
           LedgerSealed, ReceiptNamesGeneration
  <2> QED BY <2>3, <2>6, <2>7, <2>8, <2>9 DEF IInv
<1> QED BY <1>1, <1>2

LEMMA SealIntentKeeps ==
    ASSUME IInv, NEW p \in Applies, SealIntent(p)
    PROVE  IInv'
<1> DEFINE r == apply[p].run
           a == [apply[p] EXCEPT !.step = "seal"]
<1>1. /\ apply[p].step = "intent"
      /\ apply[p].plan \in Facts
      /\ r \in Runs
      /\ vault[r] = [made |-> TRUE, intent |-> Absent, bundle |-> Absent]
      /\ ledger[r] = Absent
      /\ apply[p].bundle = apply[p].plan.src
  BY Local DEF SealIntent, At, LocalOK, WriterOK, Filling, IInv, TypeOK
<1>2. /\ apply' = [apply EXCEPT ![p] = a]
      /\ vault' = [vault EXCEPT ![r].intent = apply[p].plan]
      /\ UNCHANGED <<outside, receipts, pins, objects, doomed, ledger>>
  BY <1>1 DEF SealIntent, At
<1>3. /\ a \in Invocations
      /\ a.step = "seal"
      /\ a.run = r
      /\ a.plan = apply[p].plan
      /\ a.bundle = apply[p].bundle
  BY Local DEF Invocations, Steps
<1> HIDE DEF a, r
<1>4. TypeOK'
  BY <1>1, <1>2, <1>3, ZenonT(60) DEF IInv, TypeOK, Listing, outside
<1>5. /\ vault'[r].made
      /\ vault'[r].intent = apply[p].plan
      /\ vault'[r].bundle = Absent
  BY <1>1, <1>2 DEF IInv, TypeOK
<1>6. \A q \in Applies \ {p} : apply[q].step \in Filling => apply[q].run # r
  BY <1>1, Local DEF IInv, RunsExclusive, Filling, r
<1>7. LocalOK(apply[p])'
  <2>1. apply'[p] = a
    BY <1>2, Local
  <2> QED BY <1>1, <1>2, <1>3, <1>5, <2>1
          DEF LocalOK, WriterOK, InstallerOK, Filling
<1>8. ASSUME NEW q \in Applies \ {p} PROVE LocalOK(apply[q])'
  BY <1>1, <1>2, <1>6, Local, OthersKeep DEF IInv, TypeOK
<1>9. RunsExclusive'
  BY <1>1, <1>2, <1>3, <1>6, Local DEF IInv, RunsExclusive
<1>10. SharedOK'
  BY <1>1, <1>2, <1>5, SentinelAssumption
     DEF IInv, TypeOK, SharedOK, NewRunsEmpty, NoUnexplainedBundle,
         LedgerSealed, ReceiptNamesGeneration
<1> QED BY <1>4, <1>7, <1>8, <1>9, <1>10 DEF IInv

LEMMA SealBundleKeeps ==
    ASSUME IInv, NEW p \in Applies, SealBundle(p)
    PROVE  IInv'
<1> DEFINE r == apply[p].run
           a == [apply[p] EXCEPT !.step = "unbundle"]
<1>1. /\ apply[p].step = "seal"
      /\ apply[p].plan \in Facts
      /\ apply[p].plan.src \in Versions
      /\ r \in Runs
      /\ vault[r] = [made |-> TRUE, intent |-> apply[p].plan, bundle |-> Absent]
      /\ ledger[r] = Absent
      /\ apply[p].bundle = apply[p].plan.src
  BY Local DEF SealBundle, At, LocalOK, WriterOK, Filling, IInv, TypeOK, Facts
<1>2. /\ apply' = [apply EXCEPT ![p] = a]
      /\ vault' = [vault EXCEPT ![r].bundle = apply[p].plan.src]
      /\ UNCHANGED <<outside, receipts, pins, objects, doomed, ledger>>
  BY <1>1 DEF SealBundle, At
<1>3. /\ a \in Invocations
      /\ a.step = "unbundle"
      /\ a.run = r
      /\ a.plan = apply[p].plan
  BY Local DEF Invocations, Steps
<1> HIDE DEF a, r
<1>4. TypeOK'
  BY <1>1, <1>2, <1>3 DEF IInv, TypeOK, Listing, outside
<1>5. /\ vault'[r].made
      /\ vault'[r].intent = apply[p].plan
      /\ vault'[r].bundle = apply[p].plan.src
  BY <1>1, <1>2 DEF IInv, TypeOK
<1>6. \A q \in Applies \ {p} : apply[q].step \in Filling => apply[q].run # r
  BY <1>1, Local DEF IInv, RunsExclusive, Filling, r
<1>7. LocalOK(apply[p])'
  <2>1. apply'[p] = a
    BY <1>2, Local
  <2> QED BY <1>1, <1>2, <1>3, <1>5, <2>1
          DEF LocalOK, WriterOK, InstallerOK, Filling
<1>8. ASSUME NEW q \in Applies \ {p} PROVE LocalOK(apply[q])'
  BY <1>1, <1>2, <1>6, Local, OthersKeep DEF IInv, TypeOK
<1>9. RunsExclusive'
  BY <1>1, <1>2, <1>3, <1>6, Local DEF IInv, RunsExclusive
<1>10. SharedOK'
  BY <1>1, <1>2, <1>5, AbsentAssumption
     DEF IInv, TypeOK, SharedOK, NewRunsEmpty, NoUnexplainedBundle,
         LedgerSealed, ReceiptNamesGeneration
<1> QED BY <1>4, <1>7, <1>8, <1>9, <1>10 DEF IInv

LEMMA TipsAreObjects == ASSUME NEW v \in Versions PROVE Tips(v) \subseteq Objects
BY DataAssumption DEF Tips, Pins

(* The receipt commit comes to exist; whether or not its bundle could be   *)
(* imported, it records the intent of its run.                             *)
LEMMA ImportBundleKeeps ==
    ASSUME IInv, NEW p \in Applies, ImportBundle(p)
    PROVE  IInv'
<1> DEFINE r == apply[p].run
           a == IF vault[r].bundle = Lost
                THEN Idle ELSE [apply[p] EXCEPT !.step = "import"]
<1>1. /\ apply[p].step = "unbundle"
      /\ apply[p].plan \in Facts
      /\ apply[p].plan.src \in Versions
      /\ r \in Runs
      /\ vault[r].made
      /\ vault[r].intent = apply[p].plan
      /\ vault[r].bundle \in {apply[p].plan.src, Lost}
      /\ ledger[r] = Absent
  BY Local DEF ImportBundle, At, LocalOK, WriterOK, Filling, Facts
<1>2. /\ apply' = [apply EXCEPT ![p] = a]
      /\ ledger' = [ledger EXCEPT ![r] = apply[p].plan]
      /\ UNCHANGED <<outside, receipts, pins, vault>>
  BY DEF ImportBundle, At
<1>3. /\ objects' \subseteq Objects \cup Runs
      /\ doomed' \subseteq objects'
  <2>1. CASE vault[r].bundle = Lost
    BY <2>1 DEF ImportBundle, storeVars, IInv, TypeOK
  <2>2. CASE vault[r].bundle # Lost
    <3>1. Tips(vault[r].bundle) \subseteq Objects
      BY <1>1, <2>2, TipsAreObjects
    <3> QED BY <2>2, <3>1 DEF ImportBundle, IInv, TypeOK
  <2> QED BY <2>1, <2>2
<1>4. /\ a \in Invocations
      /\ a.step \in {"idle", "import"}
      /\ a.step = "import" => a.run = r /\ a.plan = apply[p].plan
  BY Local, IdleOK DEF Invocations, Steps, Idle
<1> HIDE DEF a, r
<1>5. TypeOK'
  BY <1>1, <1>2, <1>3, <1>4 DEF IInv, TypeOK, Listing, outside
<1>6. ledger'[r] = apply[p].plan
  BY <1>1, <1>2 DEF IInv, TypeOK
<1>7. \A q \in Applies \ {p} : apply[q].step \in Filling => apply[q].run # r
  BY <1>1, Local DEF IInv, RunsExclusive, Filling, r
<1>8. LocalOK(apply[p])'
  <2>1. apply'[p] = a
    BY <1>2, Local
  <2> QED BY <1>1, <1>2, <1>4, <1>6, <2>1
          DEF LocalOK, WriterOK, InstallerOK, Filling
<1>9. ASSUME NEW q \in Applies \ {p} PROVE LocalOK(apply[q])'
  BY <1>1, <1>2, <1>7, Local, OthersKeep DEF IInv, TypeOK
<1>10. RunsExclusive'
  BY <1>1, <1>2, <1>4, <1>7, Local DEF IInv, RunsExclusive, Filling
<1>11. SharedOK'
  BY <1>1, <1>2, <1>6
     DEF IInv, TypeOK, SharedOK, NewRunsEmpty, NoUnexplainedBundle,
         LedgerSealed, ReceiptNamesGeneration
<1> QED BY <1>5, <1>8, <1>9, <1>10, <1>11 DEF IInv

LEMMA ImportReceiptKeeps ==
    ASSUME IInv, NEW p \in Applies, ImportReceipt(p)
    PROVE  IInv'
<1> DEFINE r == apply[p].run
           a == [apply[p] EXCEPT !.step = "imported"]
<1>1. r \in Runs /\ vault[r].made /\ ledger[r] = apply[p].plan
  BY Local DEF ImportReceipt, At, LocalOK, WriterOK, Filling
<1>2. /\ a \in Invocations
      /\ a.step = "imported"
      /\ a.run = r
      /\ a.plan = apply[p].plan
  BY Local DEF Invocations, Steps
<1>3. /\ apply' = [apply EXCEPT ![p] = a]
      /\ objects' = objects \cup {r}
      /\ doomed' = doomed \ {r}
      /\ UNCHANGED <<outside, receipts, pins, vault, ledger>>
  BY DEF ImportReceipt, At
<1> HIDE DEF a, r
<1>4. TypeOK'
  BY <1>1, <1>2, <1>3 DEF IInv, TypeOK, Listing, outside
<1>5. LocalOK(apply[p])'
  <2>1. apply'[p] = a
    BY <1>3, Local
  <2>2. apply[p].plan \in Facts
    BY Local DEF ImportReceipt, At
  <2> QED BY <1>1, <1>2, <1>3, <2>1, <2>2
          DEF LocalOK, WriterOK, InstallerOK, Filling
<1>6. ASSUME NEW q \in Applies \ {p} PROVE LocalOK(apply[q])'
  <2>1. apply'[q] = apply[q]
    BY <1>3, Local
  <2> QED BY <1>3, <2>1, Local DEF LocalOK, WriterOK, InstallerOK
<1>7. RunsExclusive'
  BY <1>2, <1>3, Local
     DEF IInv, RunsExclusive, Filling, ImportReceipt, At, r
<1>8. SharedOK'
  BY <1>3 DEF IInv, SharedOK, NewRunsEmpty, NoUnexplainedBundle, LedgerSealed,
              ReceiptNamesGeneration
<1> QED BY <1>4, <1>5, <1>6, <1>7, <1>8 DEF IInv

(* What a committed transaction leaves: every ref it found or created has  *)
(* the one value the receipt gives it, and no other ref moves.             *)
LEMMA CommitWrites ==
    ASSUME IInv, NEW p \in Applies, Commit(p), Transacts(p)
    PROVE  LET r == apply[p].run
               g == ledger[r].gen
               v == ledger[r].src
           IN  /\ r \in Runs /\ g \in Generations /\ v \in Versions
               /\ ledger[r] # Absent
               /\ receipts' = [receipts EXCEPT ![g] = r]
               /\ pins' = [pins EXCEPT ![g] =
                             [l \in Lanes |-> IF l \in Pins(v) THEN Tip[v][l]
                                              ELSE pins[g][l]]]
               /\ apply' = [apply EXCEPT ![p].step = "verifyRefs"]
               /\ UNCHANGED <<outside, objects, doomed, vault, ledger>>
<1>1. apply[p].run \in Runs /\ ledger[apply[p].run] # Absent
  BY Local DEF Commit, At, LocalOK, InstallerOK
<1>2. ledger[apply[p].run] \in Facts
  BY <1>1 DEF IInv, TypeOK
<1>3. DOMAIN pins = Generations
  BY DEF IInv, TypeOK, Listing, Listings
<1> QED BY <1>1, <1>2, <1>3 DEF Commit, At, With, Listing, Facts

LEMMA CommitKeeps ==
    ASSUME IInv, NEW p \in Applies, Commit(p)
    PROVE  IInv'
<1>1. CASE ~Transacts(p)
  BY <1>1, StopKeeps DEF Commit, At
<1>2. CASE Transacts(p)
  <2> DEFINE a == [apply[p] EXCEPT !.step = "verifyRefs"]
             r == apply[p].run
             g == ledger[r].gen
             v == ledger[r].src
             row == [l \in Lanes |-> IF l \in Pins(v) THEN Tip[v][l]
                                     ELSE pins[g][l]]
  <2>1. /\ r \in Runs /\ g \in Generations /\ v \in Versions
        /\ ledger[r] # Absent
        /\ receipts' = [receipts EXCEPT ![g] = r]
        /\ pins' = [pins EXCEPT ![g] = row]
        /\ apply' = [apply EXCEPT ![p] = a]
        /\ UNCHANGED <<outside, objects, doomed, vault, ledger>>
    BY <1>2, CommitWrites
  <2>2. row \in [Lanes -> Objects \cup {Absent, Foreign}]
    BY <2>1, DataAssumption, SMTT(60) DEF IInv, TypeOK, Listing, Listings, Pins
  <2>3. /\ a \in Invocations
        /\ a.step = "verifyRefs"
        /\ a.plan = apply[p].plan
        /\ apply[p].plan \in Facts
    BY Local DEF Invocations, Steps, Commit, At
  <2> HIDE DEF a, row
  <2>4. TypeOK'
    <3>1. receipts' \in [Generations -> Runs \cup {Absent, Foreign}]
      BY <2>1 DEF IInv, TypeOK, Listing, Listings
    <3>2. pins' \in [Generations -> [Lanes -> Objects \cup {Absent, Foreign}]]
      BY <2>1, <2>2 DEF IInv, TypeOK, Listing, Listings
    <3>3. Listing' \in Listings
      BY <2>1, <3>1, <3>2 DEF IInv, TypeOK, Listing, Listings, outside
    <3> QED BY <2>1, <2>3, <3>3 DEF IInv, TypeOK, outside
  <2>5. ASSUME NEW q \in Applies PROVE LocalOK(apply[q])'
    <3>1. CASE q = p
      BY <2>1, <2>3, <3>1, Local DEF LocalOK, WriterOK, InstallerOK, Filling
    <3>2. CASE q # p
      <4>1. apply'[q] = apply[q]
        BY <2>1, <3>2, Local
      <4> QED BY <2>1, <4>1, Local DEF LocalOK, WriterOK, InstallerOK
    <3> QED BY <3>1, <3>2
  <2>6. RunsExclusive'
    BY <2>1, <2>3, Local DEF IInv, RunsExclusive, Filling
  <2>7. ReceiptNamesGeneration'
    BY <2>1 DEF IInv, TypeOK, Listing, Listings, SharedOK,
                ReceiptNamesGeneration
  <2>8. NewRunsEmpty' /\ NoUnexplainedBundle' /\ LedgerSealed'
    BY <2>1 DEF IInv, SharedOK, NewRunsEmpty, NoUnexplainedBundle, LedgerSealed
  <2> QED BY <2>4, <2>5, <2>6, <2>7, <2>8 DEF IInv, SharedOK
<1> QED BY <1>1, <1>2

-----------------------------------------------------------------------------
(* Outside events.                                                         *)

LEMMA WorldKeeps ==
    ASSUME IInv, World
    PROVE  IInv'
<1>1. CASE Crash
  <2>1. PICK p \in Applies : apply' = [apply EXCEPT ![p] = Idle]
    BY <1>1 DEF Crash
  <2>2. faults' \in 0..MaxFaults
    BY <1>1, DataAssumption DEF Crash, Outside, IInv, TypeOK
  <2>3. TypeOK'
    BY <1>1, <2>1, <2>2, IdleOK
       DEF Crash, refVars, storeVars, IInv, TypeOK, Listing
  <2>4. ASSUME NEW q \in Applies PROVE LocalOK(apply[q])'
    <3>1. LocalOK(apply'[q])
      BY <2>1, IdleOK, Local
    <3> QED BY <1>1, <3>1
            DEF Crash, LocalOK, WriterOK, InstallerOK
  <2>5. RunsExclusive'
    BY <2>1, Local DEF IInv, RunsExclusive, Idle, Filling
  <2>6. SharedOK'
    BY <1>1 DEF Crash, refVars, IInv, SharedOK, NewRunsEmpty,
                NoUnexplainedBundle, LedgerSealed, ReceiptNamesGeneration
  <2> QED BY <2>3, <2>4, <2>5, <2>6 DEF IInv
<1>2. CASE EditSource \/ EditDestination \/ GcMark \/ GcSweep
           \/ DropPin \/ DropReceipt \/ Intrude
  <2>1. UNCHANGED <<vault, ledger, apply>>
    BY <1>2 DEF EditSource, EditDestination, GcMark, GcSweep, DropPin,
                DropReceipt, Intrude
  <2>2. /\ \A g \in Generations :
              receipts'[g] \in {receipts[g], Absent, Foreign}
        /\ receipts' \in [Generations -> Runs \cup {Absent, Foreign}]
        /\ pins' \in [Generations -> [Lanes -> Objects \cup {Absent, Foreign}]]
    <3>1. CASE UNCHANGED <<receipts, pins>>
      BY <3>1 DEF IInv, TypeOK, Listing, Listings
    <3>2. CASE DropPin
      BY <3>2 DEF DropPin, IInv, TypeOK, Listing, Listings
    <3>3. CASE DropReceipt
      BY <3>3 DEF DropReceipt, IInv, TypeOK, Listing, Listings
    <3>4. CASE Intrude
      <4>1. /\ receipts \in [Generations -> Runs \cup {Absent, Foreign}]
            /\ pins \in [Generations -> [Lanes -> Objects \cup {Absent, Foreign}]]
        BY DEF IInv, TypeOK, Listing, Listings
      <4>2. PICK g \in Generations :
               \/ /\ receipts' = [receipts EXCEPT ![g] = Foreign]
                  /\ UNCHANGED pins
               \/ /\ \E l \in Lanes : pins' = [pins EXCEPT ![g][l] = Foreign]
                  /\ UNCHANGED receipts
        BY <3>4 DEF Intrude
      <4>3. CASE UNCHANGED pins
        BY <4>1, <4>2, <4>3
      <4>4. CASE UNCHANGED receipts
        BY <4>1, <4>2, <4>4
      <4> QED BY <4>2, <4>3, <4>4
    <3> QED BY <1>2, <3>1, <3>2, <3>3, <3>4
            DEF EditSource, EditDestination, GcMark, GcSweep, refVars
  <2>3. /\ source' \in Versions
        /\ worktree' \in Worktrees
        /\ others' \in Others
        /\ objects' \subseteq Objects \cup Runs
        /\ doomed' \subseteq objects'
    BY <1>2 DEF EditSource, EditDestination, GcMark, GcSweep, DropPin,
                DropReceipt, Intrude, refVars, storeVars, IInv, TypeOK,
                Listing, Listings
  <2>4. faults' \in 0..MaxFaults
    BY <1>2, DataAssumption
       DEF EditSource, EditDestination, GcMark, GcSweep, DropPin, DropReceipt,
           Intrude, Outside, IInv, TypeOK
  <2>5. TypeOK'
    <3>1. Listing' \in Listings
      BY <2>2, <2>3 DEF Listing, Listings
    <3> QED BY <2>1, <2>3, <2>4, <3>1 DEF IInv, TypeOK
  <2>6. ASSUME NEW q \in Applies PROVE LocalOK(apply[q])'
    BY <2>1, Local DEF LocalOK, WriterOK, InstallerOK
  <2>7. RunsExclusive'
    BY <2>1 DEF IInv, RunsExclusive
  <2>8. ReceiptNamesGeneration'
    BY <2>1, <2>2, SentinelAssumption DEF IInv, SharedOK, ReceiptNamesGeneration
  <2>9. NewRunsEmpty' /\ NoUnexplainedBundle' /\ LedgerSealed'
    BY <2>1 DEF IInv, SharedOK, NewRunsEmpty, NoUnexplainedBundle, LedgerSealed
  <2> QED BY <2>5, <2>6, <2>7, <2>8, <2>9 DEF IInv, SharedOK
<1>3. CASE LoseBundle
  <2>1. PICK r \in Runs : /\ vault[r].bundle \in Versions
                          /\ vault' = [vault EXCEPT ![r].bundle = Lost]
    BY <1>3 DEF LoseBundle
  <2>2. UNCHANGED <<source, worktree, refVars, storeVars, ledger, apply>>
    BY <1>3 DEF LoseBundle
  <2>3. \A s \in Runs : /\ vault'[s].made = vault[s].made
                        /\ vault'[s].intent = vault[s].intent
                        /\ \/ vault'[s].bundle = vault[s].bundle
                           \/ /\ vault[s].bundle # Absent
                              /\ vault'[s].bundle = Lost
    <3>1. ASSUME NEW s \in Runs, s # r PROVE vault'[s] = vault[s]
      BY <2>1, <3>1 DEF IInv, TypeOK
    <3>2. vault[r] \in [made : BOOLEAN, intent : Facts \cup {Absent},
                        bundle : Versions \cup {Absent, Lost}]
      BY DEF IInv, TypeOK
    <3>3. vault'[r] = [vault[r] EXCEPT !.bundle = Lost]
      BY <2>1 DEF IInv, TypeOK
    <3>4. /\ vault'[r].made = vault[r].made
          /\ vault'[r].intent = vault[r].intent
          /\ vault'[r].bundle = Lost
      BY <3>2, <3>3
    <3>5. vault[r].bundle # Absent
      BY <2>1, SentinelAssumption
    <3> QED BY <3>1, <3>4, <3>5
  <2>4. TypeOK'
    <3>1. faults' \in 0..MaxFaults
      BY <1>3, DataAssumption DEF LoseBundle, Outside, IInv, TypeOK
    <3> QED BY <2>1, <2>2, <3>1
            DEF refVars, storeVars, IInv, TypeOK, Listing
  <2>5. ASSUME NEW q \in Applies PROVE LocalOK(apply[q])'
    <3>1. LocalOK(apply[q]) /\ apply' = apply /\ ledger' = ledger
      BY <2>2, Local
    <3>2. WriterOK(apply[q])'
      BY <2>3, <3>1 DEF LocalOK, WriterOK, Filling
    <3> QED BY <3>1, <3>2 DEF LocalOK, InstallerOK
  <2>6. RunsExclusive'
    BY <2>2 DEF IInv, RunsExclusive
  <2>7. SharedOK'
    BY <2>2, <2>3, SentinelAssumption
       DEF refVars, IInv, SharedOK, NewRunsEmpty, NoUnexplainedBundle,
           LedgerSealed, ReceiptNamesGeneration
  <2> QED BY <2>4, <2>5, <2>6, <2>7 DEF IInv
<1> QED BY <1>1, <1>2, <1>3 DEF World

-----------------------------------------------------------------------------

LEMMA InitOK == Init => IInv
<1> SUFFICES ASSUME Init PROVE IInv
  OBVIOUS
<1>1. TypeOK
  BY IdleOK, DataAssumption DEF Init, TypeOK, Listing, Listings, NoRun
<1>2. ASSUME NEW p \in Applies PROVE LocalOK(apply[p])
  BY IdleOK DEF Init
<1>3. RunsExclusive
  BY DEF Init, RunsExclusive, Idle, Filling
<1>4. SharedOK
  BY SentinelAssumption
     DEF Init, SharedOK, NewRunsEmpty, NoUnexplainedBundle, LedgerSealed,
         ReceiptNamesGeneration, NoRun
<1> QED BY <1>1, <1>2, <1>3, <1>4 DEF IInv

LEMMA StutterKeeps == IInv /\ UNCHANGED vars => IInv'
<1> SUFFICES ASSUME IInv, UNCHANGED vars PROVE IInv'
  OBVIOUS
<1>1. UNCHANGED <<source, worktree, receipts, pins, others, objects, doomed,
                  vault, ledger, apply, faults>>
  BY DEF vars
<1>2. TypeOK'
  BY <1>1 DEF IInv, TypeOK, Listing
<1>3. ASSUME NEW p \in Applies PROVE LocalOK(apply[p])'
  BY <1>1, Local DEF LocalOK, WriterOK, InstallerOK
<1>4. RunsExclusive' /\ SharedOK'
  BY <1>1 DEF IInv, RunsExclusive, SharedOK, NewRunsEmpty,
              NoUnexplainedBundle, LedgerSealed, ReceiptNamesGeneration
<1> QED BY <1>2, <1>3, <1>4 DEF IInv

LEMMA ProgressKeeps ==
    ASSUME IInv, NEW p \in Applies, Progress(p)
    PROVE  IInv'
BY ObserveKeeps, StageKeeps, RecheckKeeps, ProveBundleKeeps, CreateRunKeeps,
   SealIntentKeeps, SealBundleKeeps, ImportBundleKeeps, ImportReceiptKeeps,
   RelistKeeps, ReadReceiptKeeps, ProveExistingBundleKeeps, ReplanKeeps,
   RelistRetryKeeps, DecideKeeps, CommitKeeps, VerifyRefsKeeps, VerifyKeeps
   DEF Progress

(* IInv is inductive.                                                      *)
THEOREM Inductive == Spec => []IInv
<1>1. IInv /\ [Next]_vars => IInv'
  BY WorldKeeps, ProgressKeeps, PlanKeeps, StutterKeeps DEF Next, Invoke
<1> QED BY InitOK, <1>1, PTL DEF Spec

(* Every variable keeps its type, with any number of everything.           *)
THEOREM TypeCorrect == Spec => []TypeOK
<1>1. IInv => TypeOK
  BY DEF IInv
<1> QED BY Inductive, <1>1, PTL

(* Refs never get ahead of the vault: a receipt ref of the tool names a    *)
(* receipt of its generation whose intent and bundle its run was given.    *)
THEOREM ReceiptsBacked == Spec => []ReceiptBacked
<1>1. IInv => ReceiptBacked
  BY DEF IInv, SharedOK, ReceiptNamesGeneration, LedgerSealed, ReceiptBacked
<1> QED BY Inductive, <1>1, PTL

(* A crash leaves an intent without a bundle, never the reverse.           *)
THEOREM BundlesExplained == Spec => []NoUnexplainedBundle
<1>1. IInv => NoUnexplainedBundle
  BY DEF IInv, SharedOK
<1> QED BY Inductive, <1>1, PTL

(* No two invocations ever fill one vault run.                             *)
THEOREM RunsNeverShared == Spec => []RunsExclusive
<1>1. IInv => RunsExclusive
  BY DEF IInv
<1> QED BY Inductive, <1>1, PTL

-----------------------------------------------------------------------------
(* What adoption never does: to a ref or to the vault; to an observation   *)
(* flagged sensitive; to a generation that was complete.  Every step is a  *)
(* step of Custody or invisible to a reader of generations, and where the  *)
(* operator removes nothing a command that succeeds leaves a generation in *)
(* custody.                                                                *)

(* An invocation moves refs only by a committed transaction.               *)
LEMMA ProgressMovesRefs ==
    ASSUME NEW p \in Applies, Progress(p), ~(Commit(p) /\ Transacts(p))
    PROVE  UNCHANGED refVars
<1>1. CASE Commit(p)
  <2>1. Stop(p) /\ UNCHANGED outside
    BY <1>1 DEF Commit, At
  <2> QED BY <2>1 DEF Stop, outside, refVars
<1>2. CASE \/ Observe(p) \/ Stage(p) \/ Relist(p) \/ VerifyVault(p)
           \/ DriftSource(p) \/ DriftDestination(p) \/ ProveExistingBundle(p)
           \/ Recheck(p, "staged", "bundle")
           \/ Recheck(p, "proven", "create")
           \/ Recheck(p, "imported", "relist")
  <2>1. UNCHANGED outside
    BY <1>2 DEF Observe, Stage, Recheck, Relist, VerifyVault, DriftSource,
                DriftDestination, ProveExistingBundle, At
  <2>2. PICK ok, s : Check(p, ok, s) \/ Stop(p) \/ Goto(p, s)
    BY <1>2 DEF Observe, Stage, Recheck, Relist, VerifyVault, DriftSource,
                DriftDestination, ProveExistingBundle
  <2> QED BY <2>1, <2>2 DEF Check, Goto, Stop, outside, refVars
<1>3. CASE \/ ProveBundle(p) \/ SealIntent(p) \/ SealBundle(p)
           \/ ImportBundle(p) \/ ImportReceipt(p)
           \/ \E r \in Runs : CreateRun(p, r)
  BY <1>3 DEF ProveBundle, CreateRun, SealIntent, SealBundle, ImportBundle,
              ImportReceipt, At, Stop, outside, refVars
<1>4. CASE \/ ReadReceipt(p) \/ Replan(p) \/ RelistRetry(p) \/ Decide(p)
           \/ VerifyRefs(p)
  BY <1>4 DEF ReadReceipt, Replan, RelistRetry, Decide, VerifyRefs, At,
              Stop, outside, refVars
<1> QED BY <1>1, <1>2, <1>3, <1>4 DEF Progress

LEMMA OnlyCommitsMoveRefs ==
    ASSUME Next, ToolStep
    PROVE  \/ UNCHANGED refVars
           \/ \E p \in Applies : Commit(p) /\ Transacts(p)
<1>1. CASE World
  <2>1. CASE Crash
    BY <2>1 DEF Crash, refVars
  <2>2. CASE ~Crash
    BY <1>1, <2>2
       DEF World, EditSource, EditDestination, DropPin, DropReceipt, Intrude,
           GcMark, GcSweep, LoseBundle, ToolStep
  <2> QED BY <2>1, <2>2
<1>2. ASSUME NEW p \in Applies, Invoke(p) PROVE UNCHANGED refVars
  BY <1>2 DEF Invoke, Plan, outside, refVars
<1> QED BY <1>1, <1>2, ProgressMovesRefs DEF Next

(* The value of every ref after a committed transaction.                   *)
LEMMA CommitValues ==
    ASSUME IInv, NEW p \in Applies, Commit(p), Transacts(p),
           NEW r, r = apply[p].run,
           NEW h, h = ledger[r].gen,
           NEW v, v = ledger[r].src
    PROVE  /\ r \in Runs /\ h \in Generations /\ v \in Versions
           /\ others' = others
           /\ \A g \in Generations :
                 receipts'[g] = IF g = h THEN r ELSE receipts[g]
           /\ \A g \in Generations : g # h => pins'[g] = pins[g]
           /\ \A l \in Lanes :
                 pins'[h][l] = IF l \in Pins(v) THEN Tip[v][l] ELSE pins[h][l]
<1>1. /\ r \in Runs /\ h \in Generations /\ v \in Versions
      /\ receipts' = [receipts EXCEPT ![h] = r]
      /\ pins' = [pins EXCEPT ![h] =
                    [l \in Lanes |-> IF l \in Pins(v) THEN Tip[v][l]
                                     ELSE pins[h][l]]]
      /\ UNCHANGED outside
  BY CommitWrites, SMTT(60)
<1>2. DOMAIN receipts = Generations /\ DOMAIN pins = Generations
  BY DEF IInv, TypeOK, Listing, Listings
<1> QED BY <1>1, <1>2 DEF outside

(* What the transaction found there, it expected.                          *)
LEMMA CommitFinds ==
    ASSUME IInv, NEW p \in Applies, Commit(p), Transacts(p),
           NEW r, r = apply[p].run,
           NEW h, h = ledger[r].gen,
           NEW v, v = ledger[r].src
    PROVE  /\ receipts[h] \in {Absent, r}
           /\ receipts[h] = Absent => /\ r \in objects
                                      /\ apply[p].missing.lanes = Pins(v)
           /\ \A l \in Pins(v) :
                 /\ pins[h][l] \in {Absent, Tip[v][l]}
                 /\ l \in apply[p].missing.lanes =>
                       pins[h][l] = Absent /\ Tip[v][l] \in objects
                 /\ l \notin apply[p].missing.lanes => pins[h][l] = Tip[v][l]
<1>1. apply[p].run \in Runs /\ apply[p].run # Absent
  BY CommitWrites, SentinelAssumption
<1>2. apply[p].missing.receipt =>
         apply[p].missing.lanes = Pins(ledger[apply[p].run].src)
  BY Local DEF Commit, At, LocalOK, InstallerOK
<1>3. apply[p].missing.receipt \in BOOLEAN
  BY Local DEF Invocations
<1> QED BY <1>1, <1>2, <1>3 DEF Transacts

LEMMA CommitInstallsWhole ==
    ASSUME IInv, NEW p \in Applies, Commit(p), Transacts(p),
           NEW r, r = apply[p].run,
           NEW h, h = ledger[r].gen
    PROVE  InstallsWhole(h)
<1>1. PICK v : v = ledger[r].src
  OBVIOUS
<1>2. /\ r \in Runs /\ h \in Generations
      /\ receipts'[h] = r
      /\ \A l \in Lanes :
            pins'[h][l] = IF l \in Pins(v) THEN Tip[v][l] ELSE pins[h][l]
  BY <1>1, CommitValues
<1>3. /\ receipts[h] = Absent => /\ r \in objects
                                 /\ apply[p].missing.lanes = Pins(v)
      /\ \A l \in Pins(v) :
            /\ l \in apply[p].missing.lanes =>
                  pins[h][l] = Absent /\ Tip[v][l] \in objects
            /\ l \notin apply[p].missing.lanes => pins[h][l] = Tip[v][l]
  BY <1>1, CommitFinds
<1>4. \A l \in Pins(v) : l \in Lanes /\ Tip[v][l] # Absent
  BY DEF Pins
<1>5. \A l \in Lanes : pins'[h][l] # pins[h][l] <=>
                       l \in Pins(v) /\ l \in apply[p].missing.lanes
  BY <1>2, <1>3, <1>4
<1> DEFINE Created == {l \in Lanes : pins'[h][l] # pins[h][l]}
<1>6. Created \subseteq Pins(v)
  BY <1>5
<1>7. \A l \in Pins(v) : pins'[h][l] = Tip[v][l]
  BY <1>2, <1>4
<1>8. {Tip[v][l] : l \in Created} \subseteq objects
  BY <1>3, <1>5
<1>9. receipts[h] = Absent => r \in objects /\ Created = Pins(v)
  BY <1>3, <1>4, <1>5
<1>10. /\ r \in Runs
       /\ ledger[r].gen = h
       /\ Created \subseteq Pins(v)
       /\ \A l \in Pins(v) : pins'[h][l] = Tip[v][l]
       /\ {Tip[v][l] : l \in Created} \subseteq objects
       /\ receipts[h] = Absent => r \in objects /\ Created = Pins(v)
  BY <1>2, <1>6, <1>7, <1>8, <1>9
<1>11. r = receipts'[h] /\ v = ledger[receipts'[h]].src
  BY <1>1, <1>2
<1> QED BY <1>10, <1>11, Zenon DEF InstallsWhole

(* A custody ref that is there stays what it is.                           *)
RefsKept ==
    \A g \in Generations :
        /\ receipts[g] # Absent => receipts'[g] = receipts[g]
        /\ \A l \in Lanes : pins[g][l] # Absent => pins'[g][l] = pins[g][l]

LEMMA CommitKeepsRefs ==
    ASSUME IInv, NEW p \in Applies, Commit(p), Transacts(p)
    PROVE  others' = others /\ RefsKept
<1> DEFINE r == apply[p].run
           h == ledger[r].gen
           v == ledger[r].src
<1>1. /\ others' = others
      /\ \A g \in Generations :
            receipts'[g] = IF g = h THEN r ELSE receipts[g]
      /\ \A g \in Generations : g # h => pins'[g] = pins[g]
      /\ \A l \in Lanes :
            pins'[h][l] = IF l \in Pins(v) THEN Tip[v][l] ELSE pins[h][l]
  BY CommitValues
<1>2. /\ receipts[h] \in {Absent, r}
      /\ \A l \in Pins(v) : pins[h][l] \in {Absent, Tip[v][l]}
  BY CommitFinds
<1> QED BY <1>1, <1>2 DEF RefsKept

LEMMA ToolKeepsRefs ==
    ASSUME IInv, Next, ToolStep
    PROVE  others' = others /\ RefsKept
<1>1. CASE UNCHANGED refVars
  BY <1>1 DEF refVars, RefsKept
<1> QED BY <1>1, CommitKeepsRefs, OnlyCommitsMoveRefs

(* No step of the tool moves or deletes a ref that exists.                 *)
THEOREM RefsNeverMove == Spec => ImmutableRefs
<1>1. IInv /\ [Next]_vars => [ToolStep => others' = others /\ RefsKept]_vars
  BY ToolKeepsRefs DEF vars
<1>2. [ToolStep => others' = others /\ RefsKept]_vars
        => [ToolStep =>
              /\ others' = others
              /\ \A g \in Generations :
                    /\ receipts[g] # Absent => receipts'[g] = receipts[g]
                    /\ \A l \in Lanes : pins[g][l] # Absent =>
                          pins'[g][l] = pins[g][l]]_vars
  BY DEF RefsKept
<1> QED BY <1>1, <1>2, Inductive, PTL DEF Spec, ImmutableRefs

(* Custody refs appear all together, under their receipt, to objects that  *)
(* are there, and pins found without a receipt never become custody.       *)
THEOREM InstallIsAtomic == Spec => AtomicInstall
<1> DEFINE Whole == \A g \in Generations :
              ToolStep /\ <<receipts[g], pins[g]>>' # <<receipts[g], pins[g]>>
                => InstallsWhole(g)
<1>1. IInv /\ [Next]_vars => [Whole]_vars
  <2> SUFFICES ASSUME IInv, Next, ToolStep, NEW g \in Generations,
                      <<receipts[g], pins[g]>>' # <<receipts[g], pins[g]>>
               PROVE  InstallsWhole(g)
    BY DEF vars
  <2>1. CASE UNCHANGED refVars
    BY <2>1 DEF refVars
  <2>2. ASSUME NEW p \in Applies, Commit(p), Transacts(p)
        PROVE  InstallsWhole(g)
    <3>1. g = ledger[apply[p].run].gen
      BY <2>2, CommitValues
    <3> QED BY <2>2, <3>1, CommitInstallsWhole
  <2> QED BY <2>1, <2>2, OnlyCommitsMoveRefs
<1> QED BY <1>1, Inductive, PTL DEF Spec, AtomicInstall

(* What the vault holds stays.                                             *)
VaultKept ==
    \A r \in Runs :
        /\ vault[r].made => vault'[r].made
        /\ vault[r].intent # Absent => vault'[r].intent = vault[r].intent
        /\ vault[r].bundle # Absent => vault'[r].bundle = vault[r].bundle

LEMMA NextKeepsVault ==
    ASSUME IInv, Next, ~LoseBundle
    PROVE  VaultKept
<1>1. CASE UNCHANGED vault
  BY <1>1 DEF VaultKept
<1>2. CASE World
  BY <1>1, <1>2
     DEF World, EditSource, EditDestination, DropPin, DropReceipt, Intrude,
         GcMark, GcSweep, Crash
<1>3. ASSUME NEW p \in Applies, NEW s \in Runs, CreateRun(p, s)
      PROVE  VaultKept
  BY <1>1, <1>3 DEF CreateRun, Stop, IInv, TypeOK, VaultKept
<1>4. ASSUME NEW p \in Applies, SealIntent(p) PROVE VaultKept
  BY <1>1, <1>4 DEF SealIntent, Stop, IInv, TypeOK, VaultKept
<1>5. ASSUME NEW p \in Applies, SealBundle(p) PROVE VaultKept
  BY <1>1, <1>5 DEF SealBundle, Stop, IInv, TypeOK, VaultKept
<1>6. ASSUME NEW p \in Applies, Invoke(p) PROVE UNCHANGED vault
  BY <1>6 DEF Invoke, Plan
<1>7. ASSUME NEW p \in Applies, Progress(p),
             ~\E s \in Runs : CreateRun(p, s),
             ~SealIntent(p), ~SealBundle(p)
      PROVE  UNCHANGED vault
  BY <1>7 DEF Progress, Observe, Stage, Recheck, ProveBundle, ImportBundle,
              ImportReceipt, Relist, ReadReceipt, ProveExistingBundle,
              Replan, RelistRetry, Decide, Commit, VerifyRefs, VerifyVault,
              DriftSource, DriftDestination, Check, Goto, Stop
<1> QED BY <1>1, <1>2, <1>3, <1>4, <1>5, <1>6, <1>7 DEF Next

(* Nothing the tool sealed in the vault is removed or rewritten by it.     *)
THEOREM VaultOnlyGrows == Spec => VaultAppendOnly
<1>1. IInv /\ [Next]_vars => [ToolStep => VaultKept]_vars
  <2>1. LoseBundle => ~ToolStep
    BY DEF LoseBundle, ToolStep
  <2> QED BY <2>1, NextKeepsVault DEF vars
<1>2. [ToolStep => VaultKept]_vars
        => [ToolStep => \A r \in Runs :
              /\ vault[r].made => vault'[r].made
              /\ vault[r].intent # Absent => vault'[r].intent = vault[r].intent
              /\ vault[r].bundle # Absent => vault'[r].bundle = vault[r].bundle]_vars
  BY DEF VaultKept
<1> QED BY <1>1, <1>2, Inductive, PTL DEF Spec, VaultAppendOnly

-----------------------------------------------------------------------------
(* Adoption implements Custody.                                            *)

held == [g \in Generations |-> HeldBy(g)]

(* Who may move a custody ref.                                             *)
LEMMA WhoMovesRefs ==
    ASSUME Next
    PROVE  \/ UNCHANGED <<receipts, pins>>
           \/ \E p \in Applies : Commit(p) /\ Transacts(p)
           \/ DropPin \/ DropReceipt \/ Intrude
<1>1. CASE World
  BY <1>1 DEF World, EditSource, EditDestination, GcMark, GcSweep, LoseBundle,
              Crash, refVars
<1>2. ASSUME NEW p \in Applies, Invoke(p) PROVE UNCHANGED <<receipts, pins>>
  BY <1>2 DEF Invoke, Plan
<1>3. ASSUME NEW p \in Applies, Progress(p), ~(Commit(p) /\ Transacts(p))
      PROVE  UNCHANGED <<receipts, pins>>
  BY <1>3, ProgressMovesRefs DEF refVars
<1> QED BY <1>1, <1>2, <1>3 DEF Next

(* Only a bundle's import writes a receipt, and never over another.        *)
LEMMA OnlyImportsMint ==
    ASSUME Next
    PROVE  UNCHANGED ledger \/ \E p \in Applies : ImportBundle(p)
<1>1. CASE World
  BY <1>1 DEF World, EditSource, EditDestination, DropPin, DropReceipt,
              Intrude, GcMark, GcSweep, LoseBundle, Crash
<1>2. ASSUME NEW p \in Applies, Invoke(p) PROVE UNCHANGED ledger
  BY <1>2 DEF Invoke, Plan
<1>3. ASSUME NEW p \in Applies, Progress(p), ~ImportBundle(p)
      PROVE  UNCHANGED ledger
  <2>1. CASE \/ Observe(p) \/ Stage(p) \/ Relist(p) \/ VerifyVault(p)
             \/ DriftSource(p) \/ DriftDestination(p) \/ ProveExistingBundle(p)
             \/ Recheck(p, "staged", "bundle")
             \/ Recheck(p, "proven", "create")
             \/ Recheck(p, "imported", "relist")
    <3>1. PICK ok, s : Check(p, ok, s) \/ Stop(p) \/ Goto(p, s)
      BY <2>1 DEF Observe, Stage, Recheck, Relist, VerifyVault, DriftSource,
                  DriftDestination, ProveExistingBundle
    <3> QED BY <3>1 DEF Check, Goto, Stop
  <2>2. CASE \/ ProveBundle(p) \/ SealIntent(p) \/ SealBundle(p)
             \/ ImportReceipt(p) \/ \E s \in Runs : CreateRun(p, s)
             \/ ReadReceipt(p) \/ Replan(p) \/ RelistRetry(p) \/ Decide(p)
             \/ Commit(p) \/ VerifyRefs(p)
    BY <2>2 DEF ProveBundle, CreateRun, SealIntent, SealBundle, ImportReceipt,
                ReadReceipt, Replan, RelistRetry, Decide, Commit, VerifyRefs,
                Stop
  <2> QED BY <1>3, <2>1, <2>2 DEF Progress
<1> QED BY <1>1, <1>2, <1>3 DEF Next

LEMMA LedgerStays ==
    ASSUME IInv, Next, NEW r \in Runs, ledger[r] # Absent
    PROVE  ledger'[r] = ledger[r]
<1>1. CASE UNCHANGED ledger
  BY <1>1
<1>2. ASSUME NEW p \in Applies, ImportBundle(p) PROVE ledger'[r] = ledger[r]
  <2>1. ledger' = [ledger EXCEPT ![apply[p].run] = apply[p].plan]
    BY <1>2 DEF ImportBundle
  <2>2. ledger[apply[p].run] = Absent
    BY <1>2, Local DEF ImportBundle, At, LocalOK, WriterOK
  <2> QED BY <2>1, <2>2 DEF IInv, TypeOK
<1> QED BY <1>1, <1>2, OnlyImportsMint

(* A generation whose own refs stay is seen as it was.                     *)
LEMMA HeldStays ==
    ASSUME IInv, Next, NEW g \in Generations, receipts'[g] = receipts[g],
           receipts[g] \in Runs =>
              \A l \in Pins(ledger[receipts[g]].src) :
                 pins'[g][l] = Tip[ledger[receipts[g]].src][l]
                    <=> pins[g][l] = Tip[ledger[receipts[g]].src][l]
    PROVE  HeldBy(g)' = HeldBy(g)
<1>1. CASE receipts[g] \in Runs
  <2> DEFINE r == receipts[g]
             v == ledger[r].src
  <2>1. ledger[r] # Absent
    BY <1>1 DEF IInv, SharedOK, ReceiptNamesGeneration
  <2>2. ledger'[r] = ledger[r]
    BY <1>1, <2>1, LedgerStays
  <2>3. {l \in Pins(v) : pins'[g][l] = Tip[v][l]}
           = {l \in Pins(v) : pins[g][l] = Tip[v][l]}
    BY <1>1
  <2>4. HeldBy(g)' = [src |-> v, run |-> r,
                      kept |-> {l \in Pins(v) : pins'[g][l] = Tip[v][l]}]
    <3>1. receipts'[g] = r /\ ledger'[receipts'[g]].src = v
      BY <2>2
    <3> QED BY <1>1, <3>1, Zenon DEF HeldBy
  <2>5. HeldBy(g) = [src |-> v, run |-> r,
                     kept |-> {l \in Pins(v) : pins[g][l] = Tip[v][l]}]
    BY <1>1, Zenon DEF HeldBy
  <2> QED BY <2>3, <2>4, <2>5
<1>2. CASE receipts[g] \notin Runs
  BY <1>2 DEF HeldBy
<1> QED BY <1>1, <1>2

(* What is held is no sentinel.                                            *)
LEMMA HeldRecord ==
    ASSUME IInv, NEW g \in Generations
    PROVE  /\ HeldBy(g) # Absent <=> receipts[g] \in Runs
           /\ receipts[g] \in Runs => HeldBy(g).run = receipts[g]
<1>1. CASE receipts[g] \in Runs
  <2> DEFINE r == receipts[g]
             v == ledger[r].src
             K == {l \in Pins(v) : pins[g][l] = Tip[v][l]}
  <2>1. ledger[r] \in Facts
    BY <1>1 DEF IInv, TypeOK, SharedOK, ReceiptNamesGeneration
  <2>2. v \in Versions
    BY <2>1 DEF Facts
  <2>3. K \in SUBSET Lanes
    BY DEF Pins
  <2>4. HeldBy(g) = [src |-> v, run |-> r, kept |-> K]
    BY <1>1 DEF HeldBy
  <2> HIDE DEF K, v
  <2>5. HeldBy(g) \in [src : Versions, run : Runs, kept : SUBSET Lanes]
    BY <1>1, <2>2, <2>3, <2>4
  <2> QED BY <1>1, <2>4, <2>5, HeldAssumption
<1>2. CASE receipts[g] \notin Runs
  BY <1>2 DEF HeldBy
<1> QED BY <1>1, <1>2

(* A committed transaction captures a generation or makes it whole again.  *)
LEMMA CommitRefines ==
    ASSUME IInv, Next, NEW p \in Applies, Commit(p), Transacts(p)
    PROVE  \E h \in Generations : Promise!Capture(h) \/ Promise!Restore(h)
<1>1. PICK r, h, v : r = apply[p].run /\ h = ledger[r].gen /\ v = ledger[r].src
  OBVIOUS
<1>2. /\ r \in Runs /\ h \in Generations /\ v \in Versions
      /\ \A g \in Generations :
            receipts'[g] = IF g = h THEN r ELSE receipts[g]
      /\ \A g \in Generations : g # h => pins'[g] = pins[g]
      /\ \A l \in Lanes :
            pins'[h][l] = IF l \in Pins(v) THEN Tip[v][l] ELSE pins[h][l]
  BY <1>1, CommitValues
<1>3. receipts[h] \in {Absent, r}
  BY <1>1, CommitFinds
<1>4. ledger[r] # Absent /\ ledger'[r] = ledger[r]
  BY <1>1, CommitWrites
<1>5. HeldBy(h)' = Promise!Whole(v, r)
  <2>1. {l \in Pins(v) : pins'[h][l] = Tip[v][l]} = Promise!PinsOf(v)
    BY <1>2 DEF Pins, Promise!PinsOf
  <2>2. receipts'[h] = r /\ ledger'[r].src = v
    BY <1>1, <1>2, <1>4
  <2> QED BY <1>2, <2>1, <2>2 DEF HeldBy, Promise!Whole
<1>6. \A g \in Generations : g # h => HeldBy(g)' = HeldBy(g)
  BY <1>2, HeldStays
<1>7. held' = [held EXCEPT ![h] = Promise!Whole(v, r)]
  BY <1>2, <1>5, <1>6 DEF held
<1>8. CASE receipts[h] = Absent
  <2>1. HeldBy(h) = Absent
    BY <1>2, <1>8, HeldRecord, SentinelAssumption
  <2>2. ASSUME NEW k \in Generations, HeldBy(k) # Absent
        PROVE  HeldBy(k).run # r
    <3>1. receipts[k] \in Runs /\ HeldBy(k).run = receipts[k]
      BY <2>2, HeldRecord
    <3>2. ledger[receipts[k]].gen = k
      BY <3>1 DEF IInv, SharedOK, ReceiptNamesGeneration
    <3>3. k # h
      BY <1>8, <3>1, SentinelAssumption
    <3> QED BY <1>1, <3>1, <3>2, <3>3
  <2>3. Promise!Capture(h)
    BY <1>2, <1>7, <2>1, <2>2 DEF Promise!Capture, held
  <2> QED BY <1>2, <2>3
<1>9. CASE receipts[h] = r
  <2>1. HeldBy(h) # Absent /\ HeldBy(h).src = v /\ HeldBy(h).run = r
    BY <1>1, <1>2, <1>9, HeldRecord DEF HeldBy
  <2>2. Promise!Restore(h)
    BY <1>2, <1>7, <2>1 DEF Promise!Restore, held
  <2> QED BY <1>2, <2>2
<1> QED BY <1>3, <1>8, <1>9

(* Somebody deletes a pin: the generation keeps one pin less, or it never  *)
(* held that pin.                                                          *)
LEMMA DropPinRefines ==
    ASSUME IInv, Next, DropPin
    PROVE  held' = held \/ \E g \in Generations : Promise!Damage(g)
<1>1. PICK g \in Generations, l \in Lanes :
         pins[g][l] # Absent /\ pins' = [pins EXCEPT ![g][l] = Absent]
  BY DEF DropPin
<1>2. UNCHANGED <<receipts, ledger>>
  BY DEF DropPin
<1>3. /\ \A h \in Generations : h # g => pins'[h] = pins[h]
      /\ \A k \in Lanes : pins'[g][k] = IF k = l THEN Absent ELSE pins[g][k]
  BY <1>1 DEF IInv, TypeOK, Listing, Listings
<1>4. \A h \in Generations : h # g => HeldBy(h)' = HeldBy(h)
  BY <1>2, <1>3, HeldStays
<1>5. CASE receipts[g] \in Runs
  <2>1. PICK r, v : r = receipts[g] /\ v = ledger[r].src
    OBVIOUS
  <2> DEFINE K == {k \in Pins(v) : pins[g][k] = Tip[v][k]}
  <2>2. HeldBy(g) = [src |-> v, run |-> r, kept |-> K]
    BY <1>5, <2>1 DEF HeldBy
  <2>3. \A k \in Pins(v) : k \in Lanes /\ Tip[v][k] # Absent
    BY DEF Pins
  <2>4. {k \in Pins(v) : pins'[g][k] = Tip[v][k]} = K \ {l}
    BY <1>3, <2>3
  <2>5. HeldBy(g)' = [src |-> v, run |-> r, kept |-> K \ {l}]
    BY <1>2, <1>5, <2>1, <2>4 DEF HeldBy
  <2> HIDE DEF K
  <2>6. HeldBy(g) # Absent
    BY <1>5, HeldRecord
  <2>7. HeldBy(g)' = [HeldBy(g) EXCEPT !.kept = @ \ {l}]
    BY <2>2, <2>5
  <2>8. CASE l \in K
    <3>1. held' = [held EXCEPT ![g].kept = @ \ {l}]
      BY <1>4, <2>7 DEF held
    <3>2. held[g] # Absent /\ l \in held[g].kept
      BY <2>2, <2>6, <2>8 DEF held
    <3> QED BY <3>1, <3>2 DEF Promise!Damage, held
  <2>9. CASE l \notin K
    <3>1. K \ {l} = K
      BY <2>9
    <3> QED BY <1>4, <2>2, <2>5, <3>1 DEF held
  <2> QED BY <2>8, <2>9
<1>6. CASE receipts[g] \notin Runs
  <2>1. HeldBy(g)' = HeldBy(g)
    BY <1>2, <1>6 DEF HeldBy
  <2> QED BY <1>4, <2>1 DEF held
<1> QED BY <1>5, <1>6

LEMMA DropReceiptRefines ==
    ASSUME IInv, Next, DropReceipt
    PROVE  held' = held \/ \E g \in Generations : Promise!Damage(g)
<1>1. PICK g \in Generations : receipts' = [receipts EXCEPT ![g] = Absent]
  BY DEF DropReceipt
<1>2. UNCHANGED <<pins, ledger>>
  BY DEF DropReceipt
<1>3. /\ receipts'[g] = Absent
      /\ \A h \in Generations : h # g => receipts'[h] = receipts[h]
  BY <1>1 DEF IInv, TypeOK, Listing, Listings
<1>4. \A h \in Generations : h # g => HeldBy(h)' = HeldBy(h)
  BY <1>2, <1>3, HeldStays
<1>5. HeldBy(g)' = Absent
  BY <1>3, SentinelAssumption DEF HeldBy
<1>6. CASE HeldBy(g) = Absent
  BY <1>4, <1>5, <1>6 DEF held
<1>7. CASE HeldBy(g) # Absent
  <2>1. held[g] # Absent /\ held' = [held EXCEPT ![g] = Absent]
    BY <1>4, <1>5, <1>7 DEF held
  <2> QED BY <2>1 DEF Promise!Damage, held
<1> QED BY <1>6, <1>7

(* A ref somebody else creates is no custody of the tool.                  *)
LEMMA IntrudeRefines ==
    ASSUME IInv, Next, Intrude
    PROVE  held' = held
<1>1. PICK g \in Generations :
         \/ /\ receipts[g] = Absent
            /\ receipts' = [receipts EXCEPT ![g] = Foreign]
            /\ UNCHANGED pins
         \/ /\ \E l \in Lanes : /\ pins[g][l] = Absent
                                /\ pins' = [pins EXCEPT ![g][l] = Foreign]
            /\ UNCHANGED receipts
  BY DEF Intrude
<1>2. CASE UNCHANGED pins /\ receipts' # receipts
  <2>1. /\ receipts[g] \notin Runs
        /\ receipts'[g] \notin Runs
        /\ \A h \in Generations : h # g => receipts'[h] = receipts[h]
    BY <1>1, <1>2, SentinelAssumption DEF IInv, TypeOK, Listing, Listings
  <2>2. HeldBy(g)' = HeldBy(g)
    BY <2>1 DEF HeldBy
  <2>3. \A h \in Generations : h # g => HeldBy(h)' = HeldBy(h)
    BY <1>2, <2>1, HeldStays
  <2> QED BY <2>2, <2>3 DEF held
<1>3. CASE UNCHANGED receipts /\ pins' # pins
  <2>1. PICK l \in Lanes : /\ pins[g][l] = Absent
                           /\ pins' = [pins EXCEPT ![g][l] = Foreign]
    BY <1>1, <1>3
  <2>2. /\ \A h \in Generations : h # g => pins'[h] = pins[h]
        /\ \A k \in Lanes : pins'[g][k] = IF k = l THEN Foreign ELSE pins[g][k]
    BY <2>1 DEF IInv, TypeOK, Listing, Listings
  <2>3. \A h \in Generations : h # g => HeldBy(h)' = HeldBy(h)
    BY <1>3, <2>2, HeldStays
  <2>4. ASSUME receipts[g] \in Runs, NEW v, v = ledger[receipts[g]].src,
               NEW k \in Pins(v)
        PROVE  pins'[g][k] = Tip[v][k] <=> pins[g][k] = Tip[v][k]
    <3>1. v \in Versions
      BY <2>4 DEF IInv, TypeOK, SharedOK, ReceiptNamesGeneration, Facts
    <3>2. k \in Lanes /\ Tip[v][k] # Absent /\ Tip[v][k] # Foreign
      BY <3>1, DataAssumption, SentinelAssumption DEF Pins
    <3> QED BY <2>1, <2>2, <3>2
  <2>5. HeldBy(g)' = HeldBy(g)
    BY <1>3, <2>4, HeldStays
  <2> QED BY <2>3, <2>5 DEF held
<1>4. CASE UNCHANGED <<receipts, pins>>
  BY <1>4, HeldStays DEF held
<1> QED BY <1>1, <1>2, <1>3, <1>4

(* Adoption implements Custody.                                            *)
THEOREM Refines == Spec => KeepsPromise
<1>1. Init => Promise!Init
  <2> SUFFICES ASSUME Init PROVE Promise!Init
    OBVIOUS
  <2>1. \A g \in Generations : HeldBy(g) = Absent
    BY SentinelAssumption DEF Init, HeldBy
  <2> QED BY <2>1 DEF Promise!Init
<1>2. IInv /\ [Next]_vars => [Promise!Next]_held
  <2> SUFFICES ASSUME IInv, [Next]_vars PROVE Promise!Next \/ held' = held
    OBVIOUS
  <2>1. CASE UNCHANGED vars
    BY <2>1 DEF vars, held, HeldBy
  <2>2. CASE Next /\ UNCHANGED <<receipts, pins>>
    BY <2>2, HeldStays DEF held
  <2>3. ASSUME Next, NEW p \in Applies, Commit(p), Transacts(p)
        PROVE  Promise!Next
    BY <2>3, CommitRefines DEF Promise!Next
  <2>4. CASE Next /\ (DropPin \/ DropReceipt \/ Intrude)
    BY <2>4, DropPinRefines, DropReceiptRefines, IntrudeRefines
       DEF Promise!Next
  <2> QED BY <2>1, <2>2, <2>3, <2>4, WhoMovesRefs
<1> QED BY <1>1, <1>2, Inductive, PTL DEF Spec, KeepsPromise, Promise!Spec, held

-----------------------------------------------------------------------------
(* Reviews.  What an invocation plans has passed the review gate, a replan *)
(* keeps the version and the review, and a receipt is minted from a plan.  *)

Reviewed(facts) ==
    facts.src \in NeedsReview =>
        facts.review \in Reviews /\ Binds[facts.review] = facts.src

ReviewInv ==
    /\ \A r \in Runs : ledger[r] # Absent => Reviewed(ledger[r])
    /\ \A p \in Applies : apply[p].step # "idle" => Reviewed(apply[p].plan)

(* Everybody else's invocation.                                            *)
LEMMA OthersStay ==
    ASSUME IInv, NEW p \in Applies, Progress(p) \/ Invoke(p),
           NEW q \in Applies, q # p
    PROVE  apply'[q] = apply[q]
<1>1. DOMAIN apply = Applies
  BY Local
<1>2. CASE \/ Observe(p) \/ Stage(p) \/ Relist(p) \/ VerifyVault(p)
           \/ DriftSource(p) \/ DriftDestination(p) \/ ProveExistingBundle(p)
           \/ Recheck(p, "staged", "bundle")
           \/ Recheck(p, "proven", "create")
           \/ Recheck(p, "imported", "relist")
  <2>1. PICK ok, s : Check(p, ok, s) \/ Stop(p) \/ Goto(p, s)
    BY <1>2 DEF Observe, Stage, Recheck, Relist, VerifyVault, DriftSource,
                DriftDestination, ProveExistingBundle
  <2> QED BY <1>1, <2>1 DEF Check, Goto, Stop
<1>3. CASE \/ ProveBundle(p) \/ SealIntent(p) \/ SealBundle(p)
           \/ ImportBundle(p) \/ ImportReceipt(p)
           \/ \E r \in Runs : CreateRun(p, r)
  BY <1>1, <1>3 DEF ProveBundle, SealIntent, SealBundle, ImportBundle,
                    ImportReceipt, CreateRun, Stop
<1>4. CASE \/ ReadReceipt(p) \/ Replan(p) \/ RelistRetry(p) \/ Decide(p)
           \/ Commit(p) \/ VerifyRefs(p)
  BY <1>1, <1>4 DEF ReadReceipt, Replan, RelistRetry, Decide, Commit,
                    VerifyRefs, Stop
<1>5. CASE Invoke(p)
  BY <1>1, <1>5 DEF Invoke, Plan
<1> QED BY <1>2, <1>3, <1>4, <1>5 DEF Progress

(* What a step makes of the plan of the invocation that takes it.          *)
LEMMA PlanMoves ==
    ASSUME IInv, NEW p \in Applies, Progress(p)
    PROVE  /\ apply[p].step # "idle"
           /\ \/ apply'[p].step = "idle"
              \/ apply'[p].plan = apply[p].plan
              \/ /\ Replan(p)
                 /\ source = apply[p].plan.src
                 /\ apply'[p].plan = PlanOf(apply[p].plan.gen,
                                            apply[p].plan.review)
<1>1. DOMAIN apply = Applies /\ apply[p] \in Invocations
  BY Local
<1>2. Stop(p) => apply'[p].step = "idle"
  BY <1>1 DEF Stop, Idle
<1>3. CASE \/ Observe(p) \/ Stage(p) \/ Relist(p) \/ VerifyVault(p)
           \/ DriftSource(p) \/ DriftDestination(p) \/ ProveExistingBundle(p)
           \/ Recheck(p, "staged", "bundle")
           \/ Recheck(p, "proven", "create")
           \/ Recheck(p, "imported", "relist")
  <2>1. PICK ok, s : Check(p, ok, s) \/ Stop(p) \/ Goto(p, s)
    BY <1>3 DEF Observe, Stage, Recheck, Relist, VerifyVault, DriftSource,
                DriftDestination, ProveExistingBundle
  <2>2. apply[p].step # "idle"
    BY <1>3 DEF Observe, Stage, Recheck, Relist, VerifyVault, DriftSource,
                DriftDestination, ProveExistingBundle, At
  <2>3. Goto(p, s) => apply'[p].plan = apply[p].plan
    BY <1>1 DEF Goto, Invocations
  <2> QED BY <1>2, <2>1, <2>2, <2>3 DEF Check
<1>4. CASE \/ ProveBundle(p) \/ SealIntent(p) \/ SealBundle(p)
           \/ ImportReceipt(p) \/ \E r \in Runs : CreateRun(p, r)
  <2>1. CASE ProveBundle(p)
    BY <1>1, <2>1 DEF ProveBundle, At
  <2>2. ASSUME NEW r \in Runs, CreateRun(p, r)
        PROVE  /\ apply[p].step # "idle"
               /\ \/ apply'[p].step = "idle"
                  \/ apply'[p].plan = apply[p].plan
    <3>1. apply[p].step # "idle"
      BY <2>2 DEF CreateRun, At
    <3>2. Stop(p) \/ apply' = [apply EXCEPT ![p].run = r, ![p].step = "intent"]
      BY <2>2 DEF CreateRun
    <3>3. CASE apply' = [apply EXCEPT ![p].run = r, ![p].step = "intent"]
      <4>1. apply'[p] = [apply[p] EXCEPT !.run = r, !.step = "intent"]
        BY <1>1, <3>3
      <4>2. [apply[p] EXCEPT !.run = r, !.step = "intent"].plan = apply[p].plan
        BY <1>1 DEF Invocations
      <4> QED BY <3>1, <4>1, <4>2
    <3> QED BY <1>2, <3>1, <3>2, <3>3
  <2>3. CASE SealIntent(p) \/ SealBundle(p) \/ ImportReceipt(p)
    BY <1>1, <1>2, <2>3 DEF SealIntent, SealBundle, ImportReceipt, At,
                            Invocations
  <2> QED BY <1>4, <2>1, <2>2, <2>3
<1>5. CASE ImportBundle(p)
  <2>1. CASE apply' = [apply EXCEPT ![p] = Idle]
    BY <1>1, <1>5, <2>1 DEF ImportBundle, At, Idle
  <2>2. CASE apply' = [apply EXCEPT ![p].step = "import"]
    BY <1>1, <1>5, <2>2 DEF ImportBundle, At, Invocations
  <2> QED BY <1>5, <2>1, <2>2 DEF ImportBundle
<1>6. CASE \/ ReadReceipt(p) \/ RelistRetry(p) \/ Decide(p)
           \/ Commit(p) \/ VerifyRefs(p)
  BY <1>1, <1>2, <1>6 DEF ReadReceipt, RelistRetry, Decide, Commit,
                          VerifyRefs, At, Invocations
<1>7. CASE Replan(p)
  BY <1>1, <1>2, <1>7 DEF Replan, At, Invocations
<1> QED BY <1>3, <1>4, <1>5, <1>6, <1>7 DEF Progress

LEMMA ReviewsKept ==
    ASSUME IInv, ReviewInv, Next
    PROVE  ReviewInv'
<1>1. ASSUME NEW r \in Runs, ledger'[r] # Absent PROVE Reviewed(ledger'[r])
  <2>1. CASE ledger[r] # Absent
    BY <2>1, LedgerStays DEF ReviewInv
  <2>2. ASSUME NEW p \in Applies, ImportBundle(p), ledger[r] = Absent
        PROVE  Reviewed(ledger'[r])
    <3>1. ledger' = [ledger EXCEPT ![apply[p].run] = apply[p].plan]
      BY <2>2 DEF ImportBundle
    <3>2. ledger'[r] = apply[p].plan
      BY <1>1, <2>2, <3>1 DEF IInv, TypeOK
    <3> QED BY <2>2, <3>2 DEF ReviewInv, ImportBundle, At
  <2> QED BY <1>1, <2>1, <2>2, OnlyImportsMint
<1>2. ASSUME NEW p \in Applies, apply'[p].step # "idle"
      PROVE  Reviewed(apply'[p].plan)
  <2>1. CASE apply'[p] = apply[p]
    BY <1>2, <2>1 DEF ReviewInv
  <2>2. CASE World
    <3>1. CASE Crash
      BY <1>2, <2>1, <3>1, Local DEF Crash, Idle
    <3>2. CASE ~Crash
      BY <2>1, <2>2, <3>2
         DEF World, EditSource, EditDestination, DropPin, DropReceipt,
             Intrude, GcMark, GcSweep, LoseBundle
    <3> QED BY <3>1, <3>2
  <2>3. CASE Progress(p)
    <3>1. Reviewed(apply[p].plan)
      BY <2>3, PlanMoves DEF ReviewInv
    <3>2. CASE apply'[p].plan = apply[p].plan
      BY <3>1, <3>2
    <3>3. CASE /\ source = apply[p].plan.src
               /\ apply'[p].plan = PlanOf(apply[p].plan.gen,
                                          apply[p].plan.review)
      <4>1. /\ apply'[p].plan.src = apply[p].plan.src
            /\ apply'[p].plan.review = apply[p].plan.review
        BY <3>3 DEF PlanOf
      <4> QED BY <3>1, <4>1 DEF Reviewed
    <3> QED BY <1>2, <2>3, <3>2, <3>3, PlanMoves
  <2>4. CASE Invoke(p)
    <3>1. PICK g \in Generations, rv \in Reviews \cup {Absent} : Plan(p, g, rv)
      BY <2>4 DEF Invoke
    <3>2. Ready(source, rv)
      BY <1>2, <3>1, Local DEF Plan, Idle
    <3>3. apply'[p].plan = PlanOf(g, rv)
      BY <3>1, <3>2, Local DEF Plan, Idle
    <3>4. apply'[p].plan.src = source /\ apply'[p].plan.review = rv
      BY <3>3 DEF PlanOf
    <3> QED BY <3>2, <3>4, SentinelAssumption DEF Ready, Reviewed
  <2>5. ASSUME NEW q \in Applies, Progress(q) \/ Invoke(q), q # p
        PROVE  apply'[p] = apply[p]
    BY <2>5, OthersStay
  <2> QED BY <2>1, <2>2, <2>3, <2>4, <2>5 DEF Next
<1>3. \A r \in Runs : ledger'[r] # Absent => Reviewed(ledger'[r])
  BY <1>1
<1>4. \A p \in Applies : apply'[p].step # "idle" => Reviewed(apply'[p].plan)
  BY <1>2
<1> QED BY <1>3, <1>4 DEF ReviewInv, Reviewed

(* Custody of sensitive content has a review of that very content.         *)
THEOREM SensitiveReviews == Spec => []SensitiveReviewed
<1>1. Init => ReviewInv
  BY DEF Init, ReviewInv, Idle
<1>2. IInv /\ ReviewInv /\ [Next]_vars => ReviewInv'
  <2>1. ASSUME ReviewInv, UNCHANGED vars PROVE ReviewInv'
    BY <2>1 DEF vars, ReviewInv, Reviewed
  <2> QED BY <2>1, ReviewsKept
<1>3. IInv /\ ReviewInv => SensitiveReviewed
  BY DEF IInv, SharedOK, ReceiptNamesGeneration, ReviewInv, Reviewed,
         SensitiveReviewed
<1> QED BY <1>1, <1>2, <1>3, Inductive, PTL DEF Spec

-----------------------------------------------------------------------------
(* Custody survives the tool, and success means custody.                   *)

(* Only git's own garbage collection takes objects away.                   *)
LEMMA OnlyGcSweeps ==
    ASSUME Next, ~GcSweep
    PROVE  objects \subseteq objects'
<1>1. CASE World
  BY <1>1 DEF World, EditSource, EditDestination, DropPin, DropReceipt,
              Intrude, GcMark, LoseBundle, Crash, storeVars
<1>2. ASSUME NEW p \in Applies, Invoke(p) PROVE UNCHANGED objects
  BY <1>2 DEF Invoke, Plan
<1>3. ASSUME NEW p \in Applies, Progress(p)
      PROVE  objects \subseteq objects'
  <2>1. CASE \/ Observe(p) \/ Stage(p) \/ Relist(p) \/ VerifyVault(p)
             \/ DriftSource(p) \/ DriftDestination(p) \/ ProveExistingBundle(p)
             \/ Recheck(p, "staged", "bundle")
             \/ Recheck(p, "proven", "create")
             \/ Recheck(p, "imported", "relist")
    <3>1. PICK ok, s : Check(p, ok, s) \/ Stop(p) \/ Goto(p, s)
      BY <2>1 DEF Observe, Stage, Recheck, Relist, VerifyVault, DriftSource,
                  DriftDestination, ProveExistingBundle
    <3> QED BY <3>1 DEF Check, Goto, Stop
  <2>2. CASE ImportBundle(p) \/ ImportReceipt(p)
    BY <2>2 DEF ImportBundle, ImportReceipt, storeVars
  <2>3. CASE \/ ProveBundle(p) \/ SealIntent(p) \/ SealBundle(p)
             \/ \E s \in Runs : CreateRun(p, s)
             \/ ReadReceipt(p) \/ Replan(p) \/ RelistRetry(p) \/ Decide(p)
             \/ Commit(p) \/ VerifyRefs(p)
    BY <2>3 DEF ProveBundle, CreateRun, SealIntent, SealBundle, ReadReceipt,
                Replan, RelistRetry, Decide, Commit, VerifyRefs, Stop
  <2> QED BY <1>3, <2>1, <2>2, <2>3 DEF Progress
<1> QED BY <1>1, <1>2, <1>3 DEF Next

(* A step that keeps refs, bundles and objects keeps the custody they make.*)
LEMMA PinsStay ==
    ASSUME IInv, Next, RefsKept, objects \subseteq objects',
           NEW g \in Generations, NEW r \in Runs, ledger[r] # Absent,
           PinsHold(g, r)
    PROVE  PinsHold(g, r)'
<1>1. ledger'[r] = ledger[r]
  BY LedgerStays
<1>2. ASSUME NEW l \in Pins(ledger[r].src)
      PROVE  pins'[g][l] = Tip[ledger[r].src][l] /\ pins'[g][l] \in objects'
  <2>1. l \in Lanes /\ Tip[ledger[r].src][l] # Absent
    BY DEF Pins
  <2> QED BY <2>1 DEF RefsKept, PinsHold
<1> QED BY <1>1, <1>2 DEF PinsHold

LEMMA BundleStays ==
    ASSUME IInv, VaultKept, NEW r \in Runs, ledger[r] # Absent,
           vault[r].bundle = ledger[r].src
    PROVE  vault'[r].bundle = ledger[r].src
<1>1. ledger[r] \in Facts
  BY DEF IInv, TypeOK
<1>2. ledger[r].src # Absent
  BY <1>1, SentinelAssumption DEF Facts
<1> QED BY <1>2 DEF VaultKept

(* Custody once complete survives everything the tool does.                *)
THEOREM ToolKeepsCustody == Spec => CustodySurvives
<1> DEFINE Survives == \A g \in Generations :
              ToolStep /\ CustodyHolds(g) => CustodyHolds(g)'
<1>1. IInv /\ [Next]_vars => [Survives]_vars
  <2> SUFFICES ASSUME IInv, Next, ToolStep, NEW g \in Generations,
                      CustodyHolds(g)
               PROVE  CustodyHolds(g)'
    BY DEF vars
  <2> DEFINE r == receipts[g]
  <2>1. r \in Runs \cap objects /\ ledger[r].gen = g /\ PinsHold(g, r)
           /\ vault[r].bundle = ledger[r].src
    BY DEF CustodyHolds
  <2>2. ledger[r] # Absent /\ r # Absent
    BY <2>1, SentinelAssumption DEF IInv, SharedOK, ReceiptNamesGeneration
  <2>3. ~GcSweep /\ ~LoseBundle
    BY DEF GcSweep, LoseBundle, ToolStep
  <2>4. RefsKept /\ VaultKept /\ objects \subseteq objects'
    BY <2>3, ToolKeepsRefs, NextKeepsVault, OnlyGcSweeps
  <2>5. receipts'[g] = r /\ ledger'[r] = ledger[r]
    BY <2>1, <2>2, <2>4, LedgerStays DEF RefsKept
  <2>6. PinsHold(g, r)'
    <3>1. PICK s \in Runs : s = r
      BY <2>1
    <3>2. PinsHold(g, s)'
      BY <2>1, <2>2, <2>4, <3>1, PinsStay
    <3> QED BY <2>5, <3>1, <3>2 DEF PinsHold
  <2>7. vault'[r].bundle = ledger[r].src
    BY <2>1, <2>2, <2>4, BundleStays
  <2> QED BY <2>1, <2>4, <2>5, <2>6, <2>7 DEF CustodyHolds
<1> QED BY <1>1, Inductive, PTL DEF Spec, CustodySurvives

(* Nobody takes refs, objects or bundles away from the tool.               *)
NothingRemoved == Faults \cap {"pin", "receipt", "gc", "vault"} = {}

Admitted == {"decide", "commit"}
Installed == {"verifyRefs", "verifyVault", "driftSource", "driftDestination",
              "done"}
PinsChecked == Installed \ {"verifyRefs"}
VaultChecked == PinsChecked \ {"verifyVault"}

(* What an invocation that comes close to success knows, and what it has   *)
(* checked; a is an invocation's state.                                    *)
SuccessOK(a) ==
    /\ a.step \in Admitted \cup Installed =>
          /\ a.plan \in Facts
          /\ a.run \in Runs
          /\ ledger[a.run] # Absent
          /\ ledger[a.run].gen = a.plan.gen
          /\ ledger[a.run].src = a.plan.src
    /\ a.step \in Installed => receipts[a.plan.gen] = a.run
    /\ a.step \in PinsChecked => /\ a.checked = a.run
                                 /\ a.run \in objects
                                 /\ PinsHold(a.plan.gen, a.run)
    /\ a.step \in VaultChecked => vault[a.run].bundle = ledger[a.run].src

SuccessInv == doomed = {} /\ \A p \in Applies : SuccessOK(apply[p])

(* Without deletions no step takes anything away.                          *)
LEMMA NothingLost ==
    ASSUME NothingRemoved, IInv, Next, doomed = {}
    PROVE  RefsKept /\ VaultKept /\ objects \subseteq objects' /\ doomed' = {}
<1>1. ~DropPin /\ ~DropReceipt /\ ~GcMark /\ ~GcSweep /\ ~LoseBundle
  BY DEF NothingRemoved, DropPin, DropReceipt, GcMark, GcSweep, LoseBundle,
         Outside
<1>2. VaultKept /\ objects \subseteq objects'
  BY <1>1, NextKeepsVault, OnlyGcSweeps
<1>3. RefsKept
  <2>1. CASE UNCHANGED refVars
    BY <2>1 DEF refVars, RefsKept
  <2>2. CASE Intrude
    <3>1. /\ DOMAIN receipts = Generations
          /\ pins \in [Generations -> [Lanes -> Objects \cup {Absent, Foreign}]]
      BY DEF IInv, TypeOK, Listing, Listings
    <3>2. PICK g \in Generations :
             \/ /\ receipts[g] = Absent
                /\ receipts' = [receipts EXCEPT ![g] = Foreign]
                /\ UNCHANGED pins
             \/ /\ \E l \in Lanes : /\ pins[g][l] = Absent
                                    /\ pins' = [pins EXCEPT ![g][l] = Foreign]
                /\ UNCHANGED receipts
      BY <2>2 DEF Intrude
    <3>3. CASE UNCHANGED pins
      BY <3>1, <3>2, <3>3 DEF RefsKept
    <3>4. CASE UNCHANGED receipts
      BY <3>1, <3>2, <3>4 DEF RefsKept
    <3> QED BY <3>2, <3>3, <3>4
  <2>3. CASE EditSource \/ LoseBundle
    BY <2>3 DEF EditSource, LoseBundle, refVars, RefsKept
  <2>4. CASE EditDestination
    BY <2>4 DEF EditDestination, RefsKept
  <2>5. ASSUME NEW p \in Applies, Progress(p) \/ Invoke(p) PROVE RefsKept
    <3>1. CASE Commit(p) /\ Transacts(p)
      BY <3>1, CommitKeepsRefs
    <3>2. CASE Invoke(p)
      BY <3>2 DEF Invoke, Plan, outside, RefsKept
    <3> QED BY <2>5, <2>1, <3>1, <3>2, ProgressMovesRefs
  <2>6. CASE Crash
    BY <2>1, <2>6 DEF Crash
  <2> QED BY <1>1, <2>2, <2>3, <2>4, <2>5, <2>6 DEF Next, World
<1>4. doomed' = {}
  <2>1. CASE World
    BY <1>1, <2>1 DEF World, EditSource, EditDestination, Intrude, Crash,
                      storeVars
  <2>2. ASSUME NEW p \in Applies, Invoke(p) PROVE UNCHANGED doomed
    BY <2>2 DEF Invoke, Plan
  <2>3. ASSUME NEW p \in Applies, Progress(p) PROVE doomed' = {}
    <3>1. CASE \/ Observe(p) \/ Stage(p) \/ Relist(p) \/ VerifyVault(p)
               \/ DriftSource(p) \/ DriftDestination(p)
               \/ ProveExistingBundle(p)
               \/ Recheck(p, "staged", "bundle")
               \/ Recheck(p, "proven", "create")
               \/ Recheck(p, "imported", "relist")
      <4>1. PICK ok, s : Check(p, ok, s) \/ Stop(p) \/ Goto(p, s)
        BY <3>1 DEF Observe, Stage, Recheck, Relist, VerifyVault, DriftSource,
                    DriftDestination, ProveExistingBundle
      <4> QED BY <4>1 DEF Check, Goto, Stop
    <3>2. CASE ImportBundle(p) \/ ImportReceipt(p)
      BY <3>2 DEF ImportBundle, ImportReceipt, storeVars
    <3>3. CASE \/ ProveBundle(p) \/ SealIntent(p) \/ SealBundle(p)
               \/ \E s \in Runs : CreateRun(p, s)
               \/ ReadReceipt(p) \/ Replan(p) \/ RelistRetry(p) \/ Decide(p)
               \/ Commit(p) \/ VerifyRefs(p)
      BY <3>3 DEF ProveBundle, CreateRun, SealIntent, SealBundle, ReadReceipt,
                  Replan, RelistRetry, Decide, Commit, VerifyRefs, Stop
    <3> QED BY <2>3, <3>1, <3>2, <3>3 DEF Progress
  <2> QED BY <2>1, <2>2, <2>3 DEF Next
<1> QED BY <1>2, <1>3, <1>4

(* What an invocation knows stays true while others work.                  *)
LEMMA KnowledgeStays ==
    ASSUME IInv, Next, RefsKept, VaultKept, objects \subseteq objects',
           NEW a, SuccessOK(a)
    PROVE  SuccessOK(a)'
<1>1. CASE a.step \notin Admitted \cup Installed
  BY <1>1 DEF SuccessOK, PinsChecked, VaultChecked
<1>2. CASE a.step \in Admitted \cup Installed
  <2>1. /\ a.plan \in Facts
        /\ a.run \in Runs
        /\ ledger[a.run] # Absent
        /\ ledger[a.run].gen = a.plan.gen
        /\ ledger[a.run].src = a.plan.src
    BY <1>2 DEF SuccessOK
  <2>2. ledger'[a.run] = ledger[a.run]
    BY <2>1, LedgerStays
  <2>3. a.plan.gen \in Generations /\ a.run # Absent
    BY <2>1, SentinelAssumption DEF Facts
  <2>4. ASSUME a.step \in Installed PROVE receipts'[a.plan.gen] = a.run
    BY <2>3, <2>4 DEF SuccessOK, RefsKept
  <2>5. ASSUME a.step \in PinsChecked
        PROVE  /\ a.checked = a.run
               /\ a.run \in objects'
               /\ PinsHold(a.plan.gen, a.run)'
    BY <2>1, <2>3, <2>5, PinsStay DEF SuccessOK
  <2>6. ASSUME a.step \in VaultChecked
        PROVE  vault'[a.run].bundle = ledger[a.run].src
    BY <2>1, <2>6, BundleStays DEF SuccessOK
  <2> QED BY <2>1, <2>2, <2>4, <2>5, <2>6 DEF SuccessOK
<1> QED BY <1>1, <1>2

(* Steps that do not come close to success yet.                            *)
LEMMA EarlySteps ==
    ASSUME IInv, NEW p \in Applies,
           \/ Observe(p) \/ Stage(p) \/ ProveBundle(p) \/ SealIntent(p)
           \/ SealBundle(p) \/ ImportBundle(p) \/ ImportReceipt(p)
           \/ ReadReceipt(p) \/ ProveExistingBundle(p) \/ Replan(p)
           \/ \E r \in Runs : CreateRun(p, r)
           \/ Recheck(p, "staged", "bundle")
           \/ Recheck(p, "proven", "create")
           \/ Recheck(p, "imported", "relist")
    PROVE  SuccessOK(apply'[p])
<1>1. DOMAIN apply = Applies /\ apply[p] \in Invocations
  BY Local
<1>2. ASSUME Stop(p) PROVE apply'[p].step = "idle"
  BY <1>1, <1>2 DEF Stop, Idle
<1>3. ASSUME NEW s \in Steps, Goto(p, s) PROVE apply'[p].step = s
  BY <1>1, <1>3 DEF Goto, Invocations
<1> DEFINE Early == {"idle", "read", "stage", "staged", "bundle", "create",
                     "relist", "replan", "proven", "intent", "seal",
                     "unbundle", "import", "imported", "prove", "relistRetry"}
<1>4. ASSUME NEW s \in Early, NEW ok, Check(p, ok, s)
      PROVE  apply'[p].step \in Early
  <2>1. s \in Steps
    BY DEF Steps
  <2> QED BY <1>2, <1>3, <1>4, <2>1 DEF Check
<1>5. CASE \/ Observe(p) \/ Stage(p) \/ ProveExistingBundle(p)
           \/ Recheck(p, "staged", "bundle")
           \/ Recheck(p, "proven", "create")
           \/ Recheck(p, "imported", "relist")
  <2>1. \E s \in Early : \E ok : Check(p, ok, s) \/ Stop(p) \/ Goto(p, s)
    BY <1>5 DEF Observe, Stage, ProveExistingBundle, Recheck
  <2>2. Early \subseteq Steps
    BY DEF Steps
  <2>3. apply'[p].step \in Early
    BY <1>2, <1>3, <1>4, <2>1, <2>2
  <2> QED BY <2>3 DEF SuccessOK, Admitted, Installed, PinsChecked, VaultChecked
<1>6. CASE \/ ProveBundle(p) \/ SealIntent(p) \/ SealBundle(p)
           \/ ImportReceipt(p) \/ ImportBundle(p) \/ ReadReceipt(p)
           \/ Replan(p) \/ \E r \in Runs : CreateRun(p, r)
  <2>1. \/ Stop(p)
        \/ apply' = [apply EXCEPT ![p] = Idle]
        \/ \E a \in Invocations : /\ apply' = [apply EXCEPT ![p] = a]
                                  /\ a.step \in Early
    <3>1. CASE SealIntent(p) \/ SealBundle(p) \/ ImportReceipt(p) \/ ImportBundle(p)
      <4>1. \/ Stop(p)
            \/ apply' = [apply EXCEPT ![p] = Idle]
            \/ \E s \in Early \cap Steps : apply' = [apply EXCEPT ![p].step = s]
        BY <3>1 DEF SealIntent, SealBundle, ImportReceipt, ImportBundle, Steps
      <4>2. ASSUME NEW s \in Early \cap Steps,
                   apply' = [apply EXCEPT ![p].step = s]
            PROVE  \E a \in Invocations : /\ apply' = [apply EXCEPT ![p] = a]
                                          /\ a.step \in Early
        <5> DEFINE b == [apply[p] EXCEPT !.step = s]
        <5>1. b \in Invocations /\ b.step = s
          BY <1>1, StepType
        <5>2. apply' = [apply EXCEPT ![p] = b]
          BY <4>2
        <5> HIDE DEF b
        <5> QED BY <5>1, <5>2
      <4> QED BY <4>1, <4>2, Zenon
    <3>2. CASE ProveBundle(p)
      <4> DEFINE a == [apply[p] EXCEPT !.bundle = apply[p].plan.src,
                                       !.step = "proven"]
      <4>1. apply[p].plan.src \in Versions
        BY <3>2, Local DEF ProveBundle, At, Facts
      <4>2. a \in Invocations /\ a.step = "proven"
        BY <1>1, <4>1, ZenonT(60) DEF Invocations, Steps
      <4> QED BY <3>2, <4>2, Zenon DEF ProveBundle
    <3>3. CASE ReadReceipt(p)
      <4> DEFINE a == [apply[p] EXCEPT !.run = receipts[apply[p].plan.gen],
                                       !.step = "prove"]
      <4>1. CASE Stop(p)
        BY <4>1
      <4>2. CASE /\ receipts[apply[p].plan.gen] \in Runs
                 /\ apply' = [apply EXCEPT ![p] = a]
        <5>1. a \in Invocations /\ a.step = "prove"
          BY <1>1, <4>2, ZenonT(60) DEF Invocations, Steps
        <5> QED BY <4>2, <5>1, Zenon
      <4> QED BY <3>3, <4>1, <4>2 DEF ReadReceipt
    <3>4. CASE Replan(p)
      <4> DEFINE plan == PlanOf(apply[p].plan.gen, apply[p].plan.review)
                 a == [apply[p] EXCEPT !.plan = plan, !.step = "relistRetry"]
      <4>1. /\ apply[p].plan.gen \in Generations
            /\ apply[p].plan.review \in Reviews \cup {Absent}
        BY <3>4, Local DEF Replan, At, Facts
      <4>2. plan \in Facts
        BY <4>1, PlanType DEF IInv
      <4>3. a \in Invocations /\ a.step = "relistRetry"
        BY <1>1, <4>2, ZenonT(60) DEF Invocations, Steps
      <4>4. Stop(p) \/ apply' = [apply EXCEPT ![p] = a]
        BY <3>4 DEF Replan
      <4> QED BY <4>3, <4>4, Zenon
    <3>5. ASSUME NEW r \in Runs, CreateRun(p, r)
          PROVE  \/ Stop(p)
                 \/ \E a \in Invocations : /\ apply' = [apply EXCEPT ![p] = a]
                                           /\ a.step \in Early
      <4> DEFINE a == [apply[p] EXCEPT !.run = r, !.step = "intent"]
      <4>1. a \in Invocations /\ a.step = "intent"
        BY <1>1, ZenonT(60) DEF Invocations, Steps
      <4>2. Stop(p) \/ apply' = [apply EXCEPT ![p] = a]
        BY <3>5 DEF CreateRun
      <4> QED BY <4>1, <4>2, Zenon
    <3> QED BY <1>6, <3>1, <3>2, <3>3, <3>4, <3>5
  <2>2. apply'[p].step \in Early
    BY <1>1, <1>2, <2>1 DEF Idle
  <2> QED BY <2>2 DEF SuccessOK, Admitted, Installed, PinsChecked, VaultChecked
<1> QED BY <1>5, <1>6

(* Checks an invocation passes on its way to success.                      *)
LEMMA CheckedSteps ==
    ASSUME IInv, NEW p \in Applies, SuccessOK(apply[p]),
           \/ Relist(p) \/ RelistRetry(p) \/ VerifyVault(p)
           \/ DriftSource(p) \/ DriftDestination(p)
    PROVE  SuccessOK(apply'[p])
<1>1. DOMAIN apply = Applies /\ apply[p] \in Invocations
  BY Local
<1>2. CASE Stop(p)
  BY <1>1, <1>2 DEF Stop, Idle, SuccessOK, Admitted, Installed, PinsChecked,
                    VaultChecked
<1> DEFINE Same(s) == /\ apply'[p].step = s
                      /\ apply'[p].plan = apply[p].plan
                      /\ apply'[p].run = apply[p].run
                      /\ apply'[p].checked = apply[p].checked
<1>3. ASSUME NEW s \in Steps, Goto(p, s) PROVE Same(s)
  BY <1>1, <1>3 DEF Goto, Invocations
<1>4. CASE Relist(p)
  <2>1. Stop(p) \/ Same("decide")
    BY <1>3, <1>4 DEF Relist, Check, Steps
  <2>2. /\ apply[p].plan \in Facts
        /\ apply[p].run \in Runs
        /\ ledger[apply[p].run] = apply[p].plan
    BY <1>4, Local DEF Relist, At, LocalOK, WriterOK, Filling
  <2> QED BY <1>2, <2>1, <2>2, AbsentAssumption
          DEF SuccessOK, Admitted, Installed, PinsChecked, VaultChecked
<1>5. CASE RelistRetry(p)
  <2> DEFINE a == [apply[p] EXCEPT !.approved = TRUE, !.step = "decide"]
  <2>1. a.step = "decide" /\ a.plan = apply[p].plan /\ a.run = apply[p].run
    BY <1>1, ZenonT(60) DEF Invocations
  <2>2. Stop(p) \/ (/\ apply'[p] = a
                    /\ ledger[apply[p].run].src = apply[p].plan.src)
    BY <1>1, <1>5 DEF RelistRetry, SameInput
  <2>3. /\ apply[p].plan \in Facts
        /\ apply[p].run \in Runs
        /\ ledger[apply[p].run] # Absent
        /\ ledger[apply[p].run].gen = apply[p].plan.gen
    BY <1>5, Local DEF RelistRetry, At, LocalOK, InstallerOK
  <2> HIDE DEF a
  <2> QED BY <1>2, <2>1, <2>2, <2>3
          DEF SuccessOK, Admitted, Installed, PinsChecked, VaultChecked
<1>6. CASE VerifyVault(p)
  <2>1. \/ Stop(p)
        \/ /\ Same("driftSource")
           /\ vault[apply[p].checked].bundle = ledger[apply[p].checked].src
    BY <1>3, <1>6 DEF VerifyVault, Check, Steps
  <2>2. apply[p].step = "verifyVault"
    BY <1>6 DEF VerifyVault, At
  <2> QED BY <1>2, <2>1, <2>2
          DEF SuccessOK, Admitted, Installed, PinsChecked, VaultChecked
<1>7. CASE DriftSource(p) \/ DriftDestination(p)
  <2>1. \/ Stop(p)
        \/ Same("driftDestination")
        \/ Same("done")
    BY <1>3, <1>7 DEF DriftSource, DriftDestination, Check, Steps
  <2>2. apply[p].step \in {"driftSource", "driftDestination"}
    BY <1>7 DEF DriftSource, DriftDestination, At
  <2> QED BY <1>2, <2>1, <2>2
          DEF SuccessOK, Admitted, Installed, PinsChecked, VaultChecked
<1> QED BY <1>4, <1>5, <1>6, <1>7

(* Deciding finds the receipt in place or still to be created, and the     *)
(* verifier looks at the receipt behind the ref, which is the one installed.*)
LEMMA DecidedSteps ==
    ASSUME IInv, NEW p \in Applies, SuccessOK(apply[p]),
           Decide(p) \/ VerifyRefs(p)
    PROVE  SuccessOK(apply'[p])
<1>1. DOMAIN apply = Applies /\ apply[p] \in Invocations
  BY Local
<1>2. CASE Stop(p)
  BY <1>1, <1>2 DEF Stop, Idle, SuccessOK, Admitted, Installed, PinsChecked,
                    VaultChecked
<1> DEFINE r == apply[p].run
           g == apply[p].plan.gen
<1>3. CASE Decide(p)
  <2> DEFINE missing == MissingOf(Listing, r)
             next == IF missing = NothingMissing THEN "verifyRefs" ELSE "commit"
             a == [apply[p] EXCEPT !.missing = missing, !.step = next]
  <2>1. \/ Stop(p)
        \/ apply'[p] = a /\ Installable(Listing, r, apply[p].approved)
    BY <1>1, <1>3 DEF Decide
  <2>2. a.step = next /\ a.plan = apply[p].plan /\ a.run = r
    BY <1>1, ZenonT(60) DEF Invocations
  <2>3. /\ apply[p].plan \in Facts
        /\ r \in Runs
        /\ ledger[r] # Absent
        /\ ledger[r].gen = g
        /\ ledger[r].src = apply[p].plan.src
    BY <1>3 DEF Decide, At, SuccessOK, Admitted
  <2>4. ASSUME Installable(Listing, r, apply[p].approved), next = "verifyRefs"
        PROVE  receipts[g] = r
    <3>1. receipts[g] # Absent
      BY <2>3, <2>4 DEF MissingOf, NothingMissing, Listing
    <3> QED BY <2>3, <2>4, <3>1 DEF Installable, Free, Listing
  <2>5. next \in {"verifyRefs", "commit"}
    OBVIOUS
  <2> HIDE DEF a, next
  <2> QED BY <1>2, <2>1, <2>2, <2>3, <2>4, <2>5
          DEF SuccessOK, Admitted, Installed, PinsChecked, VaultChecked
<1>4. CASE VerifyRefs(p)
  <2> DEFINE a == [apply[p] EXCEPT !.checked = receipts[g],
                                   !.step = "verifyVault"]
  <2>1. a.step = "verifyVault" /\ a.plan = apply[p].plan
           /\ a.run = r /\ a.checked = receipts[g]
    BY <1>1, ZenonT(60) DEF Invocations
  <2>2. \/ Stop(p)
        \/ /\ apply'[p] = a
           /\ receipts[g] \in objects
           /\ PinsHold(g, receipts[g])
    BY <1>1, <1>4 DEF VerifyRefs
  <2>3. /\ apply[p].plan \in Facts
        /\ r \in Runs
        /\ ledger[r] # Absent
        /\ ledger[r].gen = g
        /\ ledger[r].src = apply[p].plan.src
        /\ receipts[g] = r
    BY <1>4 DEF VerifyRefs, At, SuccessOK, Installed
  <2> HIDE DEF a
  <2> QED BY <1>2, <2>1, <2>2, <2>3
          DEF SuccessOK, Admitted, Installed, PinsChecked, VaultChecked
<1> QED BY <1>3, <1>4

(* A committed transaction puts the receipt where the invocation wants it. *)
LEMMA CommittedSteps ==
    ASSUME IInv, NEW p \in Applies, SuccessOK(apply[p]), Commit(p)
    PROVE  SuccessOK(apply[p])'
<1>1. DOMAIN apply = Applies /\ apply[p] \in Invocations
  BY Local
<1>2. CASE ~Transacts(p)
  <2>1. apply'[p] = Idle
    BY <1>1, <1>2 DEF Commit, Stop
  <2>2. apply'[p].step = "idle"
    BY <2>1 DEF Idle
  <2> QED BY <2>2 DEF SuccessOK, Admitted, Installed, PinsChecked, VaultChecked
<1>3. CASE Transacts(p)
  <2> DEFINE r == apply[p].run
             g == apply[p].plan.gen
  <2>1. /\ apply[p].plan \in Facts
        /\ r \in Runs
        /\ ledger[r] # Absent
        /\ ledger[r].gen = g
        /\ ledger[r].src = apply[p].plan.src
    BY DEF Commit, At, SuccessOK, Admitted
  <2>2. ledger' = ledger /\ receipts'[g] = r
           /\ apply' = [apply EXCEPT ![p].step = "verifyRefs"]
    <3>1. receipts'[g] = r
      BY <1>3, <2>1, CommitValues DEF Facts
    <3> QED BY <1>3, <3>1 DEF Commit
  <2>3. /\ apply'[p].step = "verifyRefs"
        /\ apply'[p].plan = apply[p].plan
        /\ apply'[p].run = r
    BY <1>1, <2>2 DEF Invocations
  <2> HIDE DEF r, g
  <2> QED BY <2>1, <2>2, <2>3
          DEF SuccessOK, Admitted, Installed, PinsChecked, VaultChecked, r, g
<1> QED BY <1>2, <1>3

LEMMA SuccessKept ==
    ASSUME NothingRemoved, IInv, SuccessInv, Next
    PROVE  SuccessInv'
<1>1. RefsKept /\ VaultKept /\ objects \subseteq objects' /\ doomed' = {}
  BY NothingLost DEF SuccessInv
<1>2. ASSUME NEW p \in Applies, SuccessOK(apply'[p])
      PROVE  SuccessOK(apply[p])'
  <2>1. PICK b : b = apply'[p]
    OBVIOUS
  <2>2. SuccessOK(b)'
    BY <1>1, <1>2, <2>1, KnowledgeStays
  <2> QED BY <2>1, <2>2 DEF SuccessOK, PinsHold
<1>3. ASSUME NEW p \in Applies PROVE SuccessOK(apply[p])'
  <2>1. SuccessOK(apply[p])
    BY DEF SuccessInv
  <2>2. CASE apply'[p] = apply[p]
    BY <1>2, <2>1, <2>2
  <2>3. CASE World
    <3>1. CASE Crash
      <4>1. apply'[p] = apply[p] \/ apply'[p] = Idle
        BY <3>1, Local DEF Crash
      <4>2. SuccessOK(Idle)
        BY DEF Idle, SuccessOK, Admitted, Installed, PinsChecked, VaultChecked
      <4> QED BY <1>2, <2>2, <4>1, <4>2
    <3>2. CASE ~Crash
      BY <2>2, <2>3, <3>2
         DEF World, EditSource, EditDestination, DropPin, DropReceipt,
             Intrude, GcMark, GcSweep, LoseBundle
    <3> QED BY <3>1, <3>2
  <2>4. CASE Invoke(p)
    <3>1. apply'[p].step \in {"idle", "observe"}
      BY <2>4, Local DEF Invoke, Plan, Idle
    <3> QED BY <3>1 DEF SuccessOK, Admitted, Installed, PinsChecked,
                        VaultChecked
  <2>5. CASE Progress(p)
    <3>1. CASE Commit(p)
      BY <2>1, <3>1, CommittedSteps
    <3>2. CASE ~Commit(p)
      <4>1. SuccessOK(apply'[p])
        BY <2>1, <2>5, <3>2, EarlySteps, CheckedSteps, DecidedSteps
           DEF Progress
      <4> QED BY <1>2, <4>1
    <3> QED BY <3>1, <3>2
  <2>6. ASSUME NEW q \in Applies, Progress(q) \/ Invoke(q), q # p
        PROVE  apply'[p] = apply[p]
    BY <2>6, OthersStay
  <2> QED BY <2>2, <2>3, <2>4, <2>5, <2>6 DEF Next
<1> QED BY <1>1, <1>3 DEF SuccessInv

(* An invocation that reported success left complete custody of exactly    *)
(* the version it planned under its own receipt, whatever raced it, as     *)
(* long as nobody deletes refs, objects or bundles.                        *)
THEOREM SuccessIsCustody ==
    ASSUME NothingRemoved
    PROVE  Spec => []SuccessMeansCustody
<1>1. Init => SuccessInv
  BY DEF Init, SuccessInv, Idle, SuccessOK, Admitted, Installed, PinsChecked,
         VaultChecked
<1>2. IInv /\ SuccessInv /\ [Next]_vars => SuccessInv'
  <2>1. ASSUME SuccessInv, UNCHANGED vars PROVE SuccessInv'
    BY <2>1 DEF vars, SuccessInv, SuccessOK, PinsHold
  <2> QED BY <2>1, SuccessKept
<1>3. IInv /\ SuccessInv => SuccessMeansCustody
  <2> SUFFICES ASSUME SuccessInv, NEW p \in Applies, apply[p].step = "done"
               PROVE  LET g == apply[p].plan.gen IN
                          /\ CustodyHolds(g)
                          /\ receipts[g] = apply[p].run
                          /\ ledger[apply[p].run].src = apply[p].plan.src
    BY DEF SuccessMeansCustody
  <2> QED BY DEF SuccessInv, SuccessOK, Admitted, Installed, PinsChecked,
                 VaultChecked, CustodyHolds
<1> QED BY <1>1, <1>2, <1>3, Inductive, PTL DEF Spec
=============================================================================
