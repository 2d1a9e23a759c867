------------------------------ MODULE Adoption ------------------------------
(***************************************************************************)
(* Git custody adoption: `applyAdoption` of archive/src/custody/apply.ts   *)
(* with the planner, the vault writer, the ref transaction, the retry      *)
(* admission and the verifier it calls.  Several invocations may run at    *)
(* once against one destination, an invocation may stop anywhere, and      *)
(* people keep using both checkouts meanwhile.                             *)
(*                                                                         *)
(* Data are abstracted to identities.  A state of the legacy checkout is a *)
(* member of Versions; Tip[v][l] is the object version v has on custody    *)
(* lane l (one lane per head, branch, tag, reflog candidate or worktree    *)
(* snapshot).  A receipt's commit is content-addressed and names its       *)
(* exclusive vault run, so the run id stands for the commit's OID and      *)
(* ledger maps it to the receipt's contents.                               *)
(***************************************************************************)
EXTENDS Naturals

CONSTANTS
    Applies,        \* concurrent invocations of `adopt --apply`
    Generations,    \* label/generation pairs an invocation may ask for
    Lanes,          \* custody lanes below one label/generation
    Versions,       \* states of the legacy checkout
    Objects,        \* Git objects at the tips of the lanes
    Reviews,        \* path-review files an operator may pass
    Others,         \* states of the destination's refs outside custody
    Worktrees,      \* worktree and index fingerprints of the destination
    Runs,           \* vault run ids
    Absent,         \* no such ref, file, tip or review
    Foreign,        \* an object somebody else put behind a custody ref
    Lost,           \* a sealed bundle that was damaged or removed
    Tip,            \* Tip[v][l]: the object of lane l in version v, or Absent
    Dirty,          \* versions whose worktree differs from HEAD
    NeedsReview,    \* versions with sensitive paths: a review is required
    Binds,          \* Binds[rv]: the version whose manifest review rv names
    Obstructs,      \* Obstructs[o]: generations the tool refuses beside o
    Clashes,        \* Clashes[o]: those Git refuses, the names being prefixes
    Faults,         \* kinds of outside events that may happen
    MaxFaults       \* bound on the number of outside events

ASSUME SentinelAssumption ==
    /\ Absent \notin Objects \cup Runs \cup Versions \cup Reviews
    /\ Foreign \notin Objects \cup Runs \cup {Absent}
    /\ Lost \notin Versions \cup {Absent}
    /\ Objects \cap Runs = {}

ASSUME DataAssumption ==
    /\ Tip \in [Versions -> [Lanes -> Objects \cup {Absent}]]
    /\ Dirty \subseteq Versions
    /\ NeedsReview \subseteq Versions
    /\ Binds \in [Reviews -> Versions]
    /\ Obstructs \in [Others -> SUBSET Generations]
    /\ \A o \in Others : Clashes[o] \subseteq Obstructs[o]
    /\ MaxFaults \in Nat

VARIABLES
    source,     \* the legacy checkout
    worktree,   \* the destination's worktree and index
    receipts,   \* destination refs refs/adopt/receipts/<generation>
    pins,       \* destination custody refs, one per generation and lane
    others,     \* every other destination ref
    objects,    \* objects and receipt commits in the destination's store
    doomed,     \* objects a running `git gc` has found unreachable
    vault,      \* vault runs beside the destination
    ledger,     \* contents of the receipt commit of each run
    apply,      \* private state of each invocation
    faults      \* outside events so far

refVars == <<receipts, pins, others>>
storeVars == <<objects, doomed>>
outside == <<source, worktree, others, faults>>
vars == <<source, worktree, receipts, pins, others, objects, doomed,
          vault, ledger, apply, faults>>

-----------------------------------------------------------------------------
(* What the data look like.                                                *)

Pins(v) == {l \in Lanes : Tip[v][l] # Absent}

Tips(v) == {Tip[v][l] : l \in Pins(v)}

Listings == [receipts : [Generations -> Runs \cup {Absent, Foreign}],
             pins : [Generations -> [Lanes -> Objects \cup {Absent, Foreign}]],
             others : Others]

(* Every ref of the destination: GitRefStore.list.                         *)
Listing == [receipts |-> receipts, pins |-> pins, others |-> others]

(* What a plan, a sealed intent and a receipt record alike.                *)
Facts == [gen : Generations, src : Versions, review : Reviews \cup {Absent},
          base : Listings, worktree : Worktrees]

(* A sentinel is no record of facts.                                       *)
ASSUME AbsentAssumption == Absent \notin Facts

Steps == {"idle", "observe", "stage", "staged", "bundle", "proven", "create",
          "intent", "seal", "unbundle", "import", "imported", "relist",
          "read", "prove", "replan", "relistRetry", "decide", "commit",
          "verifyRefs", "verifyVault", "driftSource", "driftDestination",
          "done"}

NothingMissing == [receipt |-> FALSE, lanes |-> {}]

Invocations == [step : Steps,
                plan : Facts \cup {Absent},
                bundle : Versions \cup {Absent},
                run : Runs \cup {Absent},
                approved : BOOLEAN,
                missing : [receipt : BOOLEAN, lanes : SUBSET Lanes],
                checked : Runs \cup {Absent}]

Idle == [step |-> "idle", plan |-> Absent, bundle |-> Absent, run |-> Absent,
         approved |-> FALSE, missing |-> NothingMissing, checked |-> Absent]

NoRun == [made |-> FALSE, intent |-> Absent, bundle |-> Absent]

Init ==
    /\ source \in Versions
    /\ worktree \in Worktrees
    /\ others \in Others
    /\ receipts = [g \in Generations |-> Absent]
    /\ pins = [g \in Generations |-> [l \in Lanes |-> Absent]]
    /\ objects = {}
    /\ doomed = {}
    /\ vault = [r \in Runs |-> NoRun]
    /\ ledger = [r \in Runs |-> Absent]
    /\ apply = [p \in Applies |-> Idle]
    /\ faults = 0

-----------------------------------------------------------------------------
(* Conditions the code evaluates.                                          *)

(* Mutant of Ready: no review is asked of sensitive content.               *)
ReadyUnreviewed(v, rv) == rv = Absent \/ Binds[rv] = v

(* The review gates of planAdoption: a review must name the manifest it is *)
(* given with, and sensitive content needs one.                            *)
Ready(v, rv) ==
    IF rv = Absent THEN v \notin NeedsReview ELSE Binds[rv] = v

(* precheck, and decideInstallation without a receipt: every custody ref   *)
(* of the capture is free, nothing clashes with its name, and the label    *)
(* has no refs of the old harvest namespace.                               *)
Free(listing, g, v) ==
    /\ listing.receipts[g] = Absent
    /\ \A l \in Pins(v) : listing.pins[g][l] = Absent
    /\ g \notin Obstructs[listing.others]

(* The listing without the refs of one receipt.                            *)
Without(listing, g, v) ==
    [receipts |-> [listing.receipts EXCEPT ![g] = Absent],
     pins |-> [listing.pins EXCEPT ![g] =
                 [l \in Lanes |-> IF l \in Pins(v) THEN Absent ELSE @[l]]],
     others |-> listing.others]

(* The listing with every ref of one receipt in place.                     *)
With(listing, g, v, r) ==
    [receipts |-> [listing.receipts EXCEPT ![g] = r],
     pins |-> [listing.pins EXCEPT ![g] =
                 [l \in Lanes |-> IF l \in Pins(v) THEN Tip[v][l] ELSE @[l]]],
     others |-> listing.others]

(* retryRefsUnchanged: only the receipt's own refs may differ from its     *)
(* recorded baseline, and the plan must have seen what is there now.       *)
RetryRefsUnchanged(plan, receipt, now) ==
    /\ Without(now, receipt.gen, receipt.src) = receipt.base
    /\ plan.base = now

(* Mutant of SameInput: the source inventory is not compared.              *)
SameInputAnySource(plan, receipt, r, now) ==
    /\ receipt.gen = plan.gen
    /\ plan.worktree = receipt.worktree
    /\ now.receipts[plan.gen] = r
    /\ RetryRefsUnchanged(plan, receipt, now)

(* approveSameInputRetry.  A review of a dirty worktree is part of the     *)
(* snapshot and is compared; one of a clean HEAD is not.                   *)
SameInput(plan, receipt, r, now) ==
    /\ receipt.gen = plan.gen
    /\ receipt.src = plan.src
    /\ plan.src \in Dirty => plan.review = receipt.review
    /\ plan.worktree = receipt.worktree
    /\ now.receipts[plan.gen] = r
    /\ \A l \in Pins(receipt.src) :
          now.pins[plan.gen][l] \in {Absent, Tip[receipt.src][l]}
    /\ RetryRefsUnchanged(plan, receipt, now)

(* Mutant of Installable: pins found without a receipt are accepted.       *)
InstallableOverOrphans(now, r, approved) ==
    LET g == ledger[r].gen
        v == ledger[r].src
    IN  /\ now.receipts[g] # Absent => now.receipts[g] = r /\ approved
        /\ g \notin Obstructs[now.others]
        /\ \A l \in Pins(v) : now.pins[g][l] \in {Absent, Tip[v][l]}

(* decideInstallation does not throw for the receipt commit r.             *)
Installable(now, r, approved) ==
    LET g == ledger[r].gen
        v == ledger[r].src
    IN  /\ \/ now.receipts[g] = r /\ approved
           \/ Free(now, g, v)
        /\ g \notin Obstructs[now.others]
        /\ \A l \in Pins(v) : now.pins[g][l] \in {Absent, Tip[v][l]}

(* Mutant of MissingOf: an approved receipt counts as complete.            *)
MissingReceiptOnly(now, r) ==
    LET g == ledger[r].gen
    IN  [receipt |-> now.receipts[g] = Absent,
         lanes |-> IF now.receipts[g] = Absent THEN Pins(ledger[r].src) ELSE {}]

MissingOf(now, r) ==
    LET g == ledger[r].gen
        v == ledger[r].src
    IN  [receipt |-> now.receipts[g] = Absent,
         lanes |-> {l \in Pins(v) : now.pins[g][l] = Absent}]

-----------------------------------------------------------------------------
(* The steps of one invocation.                                            *)

(* Mutant of Stop: a failure takes its receipt ref back.                   *)
StopAndUndo(p) ==
    /\ apply' = [apply EXCEPT ![p] = Idle]
    /\ receipts' = [g \in Generations |->
                      IF receipts[g] # Absent /\ receipts[g] = apply[p].run
                      THEN Absent ELSE receipts[g]]
    /\ UNCHANGED <<pins, objects, doomed, vault, ledger>>

(* Any error ends the invocation; nothing is rolled back, so a failure     *)
(* leaves exactly what a kill at the same place would leave.               *)
Stop(p) ==
    /\ apply' = [apply EXCEPT ![p] = Idle]
    /\ UNCHANGED <<receipts, pins, objects, doomed, vault, ledger>>

(* Private progress: nothing the destination or the vault can see.         *)
Goto(p, step) ==
    /\ apply' = [apply EXCEPT ![p].step = step]
    /\ UNCHANGED <<receipts, pins, objects, doomed, vault, ledger>>

(* A check that ends the invocation when it fails.                         *)
Check(p, ok, step) == IF ok THEN Goto(p, step) ELSE Stop(p)

At(p, step) == apply[p].step = step /\ UNCHANGED outside

PlanOf(g, rv) == [gen |-> g, src |-> source, review |-> rv,
                  base |-> Listing, worktree |-> worktree]

(* A new invocation reads both repositories and admits the capture.        *)
Plan(p, g, rv) ==
    /\ apply[p].step \in {"idle", "done"}
    /\ apply' = [apply EXCEPT ![p] =
                   IF Ready(source, rv)
                   THEN [Idle EXCEPT !.step = "observe", !.plan = PlanOf(g, rv)]
                   ELSE Idle]
    /\ UNCHANGED <<receipts, pins, objects, doomed, vault, ledger>>
    /\ UNCHANGED outside

(* Mutant of Observe: an existing receipt is always an error.              *)
ObserveNoRetry(p) ==
    LET plan == apply[p].plan
    IN  /\ At(p, "observe")
        /\ Check(p, plan.base = Listing /\ Free(Listing, plan.gen, plan.src),
                 "stage")

(* assertObservedRefs, then the receipt decides between retry and fresh.   *)
Observe(p) ==
    LET plan == apply[p].plan
    IN  /\ At(p, "observe")
        /\ IF plan.base # Listing THEN Stop(p)
           ELSE IF receipts[plan.gen] # Absent THEN Goto(p, "read")
           ELSE Check(p, Free(Listing, plan.gen, plan.src), "stage")

(* prepareSnapshot reads the checkout again into a private repository.     *)
Stage(p) ==
    /\ At(p, "stage")
    /\ Check(p, source = apply[p].plan.src, "staged")

(* planAdoption again, compared by recheck with the first plan.            *)
Unmoved(plan) ==
    /\ source = plan.src
    /\ worktree = plan.worktree
    /\ Listing = plan.base

Recheck(p, from, to) ==
    /\ At(p, from)
    /\ Check(p, Unmoved(apply[p].plan), to)

(* proveBundle: a private bundle of exactly the plan's pins.               *)
ProveBundle(p) ==
    /\ At(p, "bundle")
    /\ apply' = [apply EXCEPT ![p].bundle = apply[p].plan.src,
                               ![p].step = "proven"]
    /\ UNCHANGED <<receipts, pins, objects, doomed, vault, ledger>>

(* createVaultRun: an exclusive directory named by fresh random bits; a    *)
(* name that is already taken is refused, never reused.                    *)
CreateRun(p, r) ==
    /\ At(p, "create")
    /\ IF vault[r].made THEN Stop(p)
       ELSE /\ vault' = [vault EXCEPT ![r].made = TRUE]
            /\ apply' = [apply EXCEPT ![p].run = r, ![p].step = "intent"]
            /\ UNCHANGED <<receipts, pins, objects, doomed, ledger>>

(* sealVaultFile: links the finished file under a name nothing has yet.    *)
SealIntent(p) ==
    LET r == apply[p].run
    IN  /\ At(p, "intent")
        /\ IF vault[r].intent # Absent THEN Stop(p)
           ELSE /\ vault' = [vault EXCEPT ![r].intent = apply[p].plan]
                /\ apply' = [apply EXCEPT ![p].step = "seal"]
                /\ UNCHANGED <<receipts, pins, objects, doomed, ledger>>

(* Mutant of SealBundle: the intent's bytes land in the bundle.            *)
SealIntentTwice(p) ==
    /\ At(p, "seal")
    /\ vault' = [vault EXCEPT ![apply[p].run].bundle = apply[p].plan]
    /\ apply' = [apply EXCEPT ![p].step = "unbundle"]
    /\ UNCHANGED <<receipts, pins, objects, doomed, ledger>>

SealBundle(p) ==
    LET r == apply[p].run
    IN  /\ At(p, "seal")
        /\ IF vault[r].bundle # Absent THEN Stop(p)
           ELSE /\ vault' = [vault EXCEPT ![r].bundle = apply[p].bundle]
                /\ apply' = [apply EXCEPT ![p].step = "unbundle"]
                /\ UNCHANGED <<receipts, pins, objects, doomed, ledger>>

(* Mutant of ImportBundle: the receipt records what is there at minting.   *)
ImportBundleMintingAnew(p) ==
    LET r == apply[p].run
    IN  /\ At(p, "unbundle")
        /\ ledger' = [ledger EXCEPT ![r] =
                        PlanOf(apply[p].plan.gen, apply[p].plan.review)]
        /\ objects' = objects \cup Tips(apply[p].plan.src)
        /\ doomed' = doomed \ Tips(apply[p].plan.src)
        /\ apply' = [apply EXCEPT ![p].step = "import"]
        /\ UNCHANGED <<receipts, pins, vault>>

(* mintReceipt in the private stage, then importBundle from the vault:     *)
(* objects only, no ref moves.                                             *)
ImportBundle(p) ==
    LET r == apply[p].run
    IN  /\ At(p, "unbundle")
        /\ ledger' = [ledger EXCEPT ![r] = apply[p].plan]
        /\ IF vault[r].bundle = Lost
           THEN /\ apply' = [apply EXCEPT ![p] = Idle]
                /\ UNCHANGED storeVars
           ELSE /\ objects' = objects \cup Tips(vault[r].bundle)
                /\ doomed' = doomed \ Tips(vault[r].bundle)
                /\ apply' = [apply EXCEPT ![p].step = "import"]
        /\ UNCHANGED <<receipts, pins, vault>>

ImportReceipt(p) ==
    /\ At(p, "import")
    /\ objects' = objects \cup {apply[p].run}
    /\ doomed' = doomed \ {apply[p].run}
    /\ apply' = [apply EXCEPT ![p].step = "imported"]
    /\ UNCHANGED <<receipts, pins, vault, ledger>>

(* listRefs and assertObservedRefs immediately before installing.          *)
Relist(p) ==
    /\ At(p, "relist")
    /\ Check(p, Listing = apply[p].plan.base, "decide")

(* The retry branch: readReceipt, retryRefsUnchanged and the first         *)
(* approveSameInputRetry, on the listing the plan was checked against.     *)
ReadReceipt(p) ==
    LET plan == apply[p].plan
        r == receipts[plan.gen]
    IN  /\ At(p, "read")
        /\ IF /\ r \in Runs \cap objects
              /\ r = plan.base.receipts[plan.gen]
              /\ SameInput(plan, ledger[r], r, plan.base)
           THEN /\ apply' = [apply EXCEPT ![p].run = r, ![p].step = "prove"]
                /\ UNCHANGED <<receipts, pins, objects, doomed, vault, ledger>>
           ELSE Stop(p)

(* proveExistingBundle: the original intent and bundle, never new ones.    *)
ProveExistingBundle(p) ==
    LET r == apply[p].run
    IN  /\ At(p, "prove")
        /\ Check(p, /\ vault[r].intent = ledger[r]
                    /\ vault[r].bundle = ledger[r].src, "replan")

(* planAdoption again and recheck(retry): refs are left to the next step.  *)
Replan(p) ==
    LET plan == apply[p].plan
    IN  /\ At(p, "replan")
        /\ IF source = plan.src /\ worktree = plan.worktree
           THEN /\ apply' = [apply EXCEPT
                               ![p].plan = PlanOf(plan.gen, plan.review),
                               ![p].step = "relistRetry"]
                /\ UNCHANGED <<receipts, pins, objects, doomed, vault, ledger>>
           ELSE Stop(p)

RelistRetry(p) ==
    LET r == apply[p].run
    IN  /\ At(p, "relistRetry")
        /\ IF SameInput(apply[p].plan, ledger[r], r, Listing)
           THEN /\ apply' = [apply EXCEPT ![p].approved = TRUE,
                                          ![p].step = "decide"]
                /\ UNCHANGED <<receipts, pins, objects, doomed, vault, ledger>>
           ELSE Stop(p)

(* installImmutableRefs lists the refs once more and decides.              *)
Decide(p) ==
    LET r == apply[p].run
        missing == MissingOf(Listing, r)
    IN  /\ At(p, "decide")
        /\ IF Installable(Listing, r, apply[p].approved)
           THEN /\ apply' = [apply EXCEPT
                     ![p].missing = missing,
                     ![p].step = IF missing = NothingMissing
                                 THEN "verifyRefs" ELSE "commit"]
                /\ UNCHANGED <<receipts, pins, objects, doomed, vault, ledger>>
           ELSE Stop(p)

(* Mutant of Transacts: refs are written without their expected old value. *)
TransactsByForce(p) ==
    LET r == apply[p].run
    IN  /\ {r} \cup Tips(ledger[r].src) \subseteq objects
        /\ ledger[r].gen \notin Clashes[others]

(* One `git update-ref --stdin` transaction: verify what was present,      *)
(* create what was missing, all or nothing.  Git refuses a ref to an       *)
(* object it does not have and a name that clashes with another ref.       *)
Transacts(p) ==
    LET r == apply[p].run
        g == ledger[r].gen
        v == ledger[r].src
        missing == apply[p].missing
        Expected(isMissing, oid) == IF isMissing THEN Absent ELSE oid
    IN  /\ receipts[g] = Expected(missing.receipt, r)
        /\ missing.receipt => r \in objects
        /\ \A l \in Pins(v) :
              /\ pins[g][l] = Expected(l \in missing.lanes, Tip[v][l])
              /\ l \in missing.lanes => Tip[v][l] \in objects
        /\ g \notin Clashes[others]

(* Mutant of Commit: one update-ref for each ref, in some order.           *)
CommitOneByOne(p) ==
    LET r == apply[p].run
        g == ledger[r].gen
        v == ledger[r].src
        missing == apply[p].missing
    IN  /\ At(p, "commit")
        /\ Transacts(p)
        /\ \E l \in missing.lanes :
              /\ receipts' = [receipts EXCEPT ![g] = r]
              /\ pins' = [pins EXCEPT ![g][l] = Tip[v][l]]
              /\ apply' = [apply EXCEPT
                   ![p].missing.receipt = FALSE,
                   ![p].missing.lanes = @ \ {l},
                   ![p].step = IF missing.lanes = {l} THEN "verifyRefs" ELSE @]
        /\ UNCHANGED <<objects, doomed, vault, ledger>>

Commit(p) ==
    LET r == apply[p].run
        after == With(Listing, ledger[r].gen, ledger[r].src, r)
    IN  /\ At(p, "commit")
        /\ IF Transacts(p)
           THEN /\ receipts' = after.receipts
                /\ pins' = after.pins
                /\ apply' = [apply EXCEPT ![p].step = "verifyRefs"]
                /\ UNCHANGED <<objects, doomed, vault, ledger>>
           ELSE Stop(p)

(* verifyAdoption, phases 1 to 3: the receipt behind the ref, every pin    *)
(* and every object.                                                       *)
PinsHold(g, r) ==
    \A l \in Pins(ledger[r].src) :
        /\ pins[g][l] = Tip[ledger[r].src][l]
        /\ pins[g][l] \in objects

VerifyRefs(p) ==
    LET g == apply[p].plan.gen
        r == receipts[g]
    IN  /\ At(p, "verifyRefs")
        /\ IF r \in Runs \cap objects /\ ledger[r].gen = g /\ PinsHold(g, r)
           THEN /\ apply' = [apply EXCEPT ![p].checked = r,
                                          ![p].step = "verifyVault"]
                /\ UNCHANGED <<receipts, pins, objects, doomed, vault, ledger>>
           ELSE Stop(p)

(* Phase 4: the sealed bundle restores every pin in an empty repository.   *)
VerifyVault(p) ==
    LET r == apply[p].checked
    IN  /\ At(p, "verifyVault")
        /\ Check(p, vault[r].bundle = ledger[r].src, "driftSource")

(* sourceDriftOf and destinationDriftOf, both required by `verified`.      *)
DriftSource(p) ==
    /\ At(p, "driftSource")
    /\ Check(p, source = ledger[apply[p].checked].src, "driftDestination")

DriftDestination(p) ==
    LET r == apply[p].checked
        receipt == ledger[r]
    IN  /\ At(p, "driftDestination")
        /\ Check(p, /\ Listing = With(receipt.base, receipt.gen, receipt.src, r)
                    /\ worktree = receipt.worktree, "done")

-----------------------------------------------------------------------------
(* Outside events, bounded by MaxFaults.                                   *)

Outside(kind) ==
    /\ kind \in Faults
    /\ faults < MaxFaults
    /\ faults' = faults + 1

(* Somebody works in the legacy checkout.                                  *)
EditSource ==
    /\ Outside("source")
    /\ \E v \in Versions \ {source} : source' = v
    /\ UNCHANGED <<worktree, refVars, storeVars, vault, ledger, apply>>

(* Somebody works in the destination checkout.                             *)
EditDestination ==
    /\ Outside("destination")
    /\ \/ /\ \E o \in Others \ {others} : others' = o
          /\ UNCHANGED worktree
       \/ /\ \E w \in Worktrees \ {worktree} : worktree' = w
          /\ UNCHANGED others
    /\ UNCHANGED <<source, receipts, pins, storeVars, vault, ledger, apply>>

(* Somebody deletes a custody ref.                                         *)
DropPin ==
    /\ Outside("pin")
    /\ \E g \in Generations, l \in Lanes :
          /\ pins[g][l] # Absent
          /\ pins' = [pins EXCEPT ![g][l] = Absent]
    /\ UNCHANGED <<source, worktree, receipts, others, storeVars, vault,
                   ledger, apply>>

DropReceipt ==
    /\ Outside("receipt")
    /\ \E g \in Generations :
          /\ receipts[g] # Absent
          /\ receipts' = [receipts EXCEPT ![g] = Absent]
    /\ UNCHANGED <<source, worktree, pins, others, storeVars, vault, ledger,
                   apply>>

(* Somebody creates a ref under a custody name.                            *)
Intrude ==
    /\ Outside("intrude")
    /\ \E g \in Generations :
          \/ /\ receipts[g] = Absent
             /\ receipts' = [receipts EXCEPT ![g] = Foreign]
             /\ UNCHANGED pins
          \/ /\ \E l \in Lanes :
                   /\ pins[g][l] = Absent
                   /\ pins' = [pins EXCEPT ![g][l] = Foreign]
             /\ UNCHANGED receipts
    /\ UNCHANGED <<source, worktree, others, storeVars, vault, ledger, apply>>

(* `git gc --prune=now` first finds what no ref reaches, then deletes it.  *)
Reachable == {receipts[g] : g \in Generations}
                \cup {pins[g][l] : g \in Generations, l \in Lanes}

GcMark ==
    /\ Outside("gc")
    /\ doomed' = objects \ Reachable
    /\ UNCHANGED <<source, worktree, refVars, objects, vault, ledger, apply>>

GcSweep ==
    /\ doomed # {}
    /\ objects' = objects \ doomed
    /\ doomed' = {}
    /\ UNCHANGED <<source, worktree, refVars, vault, ledger, apply, faults>>

(* A sealed bundle is damaged, removed or left behind when moving.         *)
LoseBundle ==
    /\ Outside("vault")
    /\ \E r \in Runs :
          /\ vault[r].bundle \in Versions
          /\ vault' = [vault EXCEPT ![r].bundle = Lost]
    /\ UNCHANGED <<source, worktree, refVars, storeVars, ledger, apply>>

(* An invocation is killed or aborted between any two of its steps.        *)
Crash ==
    /\ Outside("crash")
    /\ \E p \in Applies :
          /\ apply[p].step \notin {"idle", "done"}
          /\ apply' = [apply EXCEPT ![p] = Idle]
    /\ UNCHANGED <<source, worktree, refVars, storeVars, vault, ledger>>

World ==
    \/ EditSource \/ EditDestination \/ DropPin \/ DropReceipt \/ Intrude
    \/ GcMark \/ GcSweep \/ LoseBundle \/ Crash

-----------------------------------------------------------------------------

(* What an invocation does on its own once it has planned.                 *)
Progress(p) ==
    \/ Observe(p)
    \/ Stage(p)
    \/ Recheck(p, "staged", "bundle")
    \/ ProveBundle(p)
    \/ Recheck(p, "proven", "create")
    \/ \E r \in Runs : CreateRun(p, r)
    \/ SealIntent(p)
    \/ SealBundle(p)
    \/ ImportBundle(p)
    \/ ImportReceipt(p)
    \/ Recheck(p, "imported", "relist")
    \/ Relist(p)
    \/ ReadReceipt(p)
    \/ ProveExistingBundle(p)
    \/ Replan(p)
    \/ RelistRetry(p)
    \/ Decide(p)
    \/ Commit(p)
    \/ VerifyRefs(p)
    \/ VerifyVault(p)
    \/ DriftSource(p)
    \/ DriftDestination(p)

Invoke(p) == \E g \in Generations, rv \in Reviews \cup {Absent} : Plan(p, g, rv)

Next == World \/ \E p \in Applies : Invoke(p) \/ Progress(p)

Spec == Init /\ [][Next]_vars

(* Incomplete: a pin of an installed receipt is missing.                   *)
Incomplete(g) ==
    /\ receipts[g] \in Runs
    /\ \E l \in Pins(ledger[receipts[g]].src) : pins[g][l] = Absent

(* An invocation that is not killed takes its next step, its operator      *)
(* repeats it while it has failed or its generation is incomplete, and 128 *)
(* random bits are sooner or later new.                                    *)
Fresh(p) == \E r \in Runs : ~vault[r].made /\ CreateRun(p, r)

Repeat(p) ==
    /\ apply[p].step = "idle" \/ \E g \in Generations : Incomplete(g)
    /\ Invoke(p)

Fairness ==
    \A p \in Applies :
        /\ WF_vars(Progress(p))
        /\ WF_vars(Repeat(p))
        /\ SF_vars(Fresh(p))

LiveSpec == Spec /\ Fairness
=============================================================================
