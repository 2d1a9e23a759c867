------------------------- MODULE AdoptionProperties -------------------------
(***************************************************************************)
(* What Adoption must satisfy.  ToolStep separates the steps invocations   *)
(* take (and a kill, which changes nothing but the invocation) from what   *)
(* other people do to the two repositories and the vault.                  *)
(***************************************************************************)
EXTENDS Adoption

ToolStep == apply' # apply

(* Every variable has its type.                                            *)
TypeOK ==
    /\ source \in Versions
    /\ worktree \in Worktrees
    /\ Listing \in Listings
    /\ objects \subseteq Objects \cup Runs
    /\ doomed \subseteq objects
    /\ vault \in [Runs -> [made : BOOLEAN,
                           intent : Facts \cup {Absent},
                           bundle : Versions \cup {Absent, Lost}]]
    /\ ledger \in [Runs -> Facts \cup {Absent}]
    /\ apply \in [Applies -> Invocations]
    /\ faults \in 0..MaxFaults

(* A receipt ref of the tool names a receipt of its own generation whose   *)
(* intent and bundle were sealed in the receipt's run, whatever was killed *)
(* and whoever raced: refs never get ahead of the vault (sealBundle's      *)
(* ordering contract).  A bundle lost since is another's doing.            *)
ReceiptBacked ==
    \A g \in Generations : receipts[g] \in Runs =>
        LET r == receipts[g] IN
            /\ ledger[r] # Absent
            /\ ledger[r].gen = g
            /\ vault[r].intent = ledger[r]
            /\ vault[r].bundle \in {ledger[r].src, Lost}

(* "A crash between the two writes leaves a diagnosable intent, not an     *)
(* unexplained bundle": every bundle lies beside the intent it carries out.*)
NoUnexplainedBundle ==
    \A r \in Runs : vault[r].bundle # Absent =>
        /\ vault[r].intent # Absent
        /\ vault[r].bundle \in {vault[r].intent.src, Lost}

(* The evidence verifyAdoption demands, all of it at one moment.           *)
CustodyHolds(g) ==
    LET r == receipts[g] IN
        /\ r \in Runs \cap objects
        /\ ledger[r].gen = g
        /\ PinsHold(g, r)
        /\ vault[r].bundle = ledger[r].src

(* An invocation that reported success left complete custody of exactly    *)
(* the version it planned, under the receipt it reported, however the      *)
(* checkouts moved and whichever invocation installed the refs.  Nobody    *)
(* deletes refs, objects or bundles in the runs that check this.           *)
SuccessMeansCustody ==
    \A p \in Applies : apply[p].step = "done" =>
        LET g == apply[p].plan.gen IN
            /\ CustodyHolds(g)
            /\ receipts[g] = apply[p].run
            /\ ledger[apply[p].run].src = apply[p].plan.src

(* No step of the tool moves or deletes a ref that exists, custody or not. *)
ImmutableRefs ==
    [][ToolStep =>
        /\ others' = others
        /\ \A g \in Generations :
              /\ receipts[g] # Absent => receipts'[g] = receipts[g]
              /\ \A l \in Lanes :
                    pins[g][l] # Absent => pins'[g][l] = pins[g][l]]_vars

(* The step that changes a generation's custody refs leaves the receipt    *)
(* and every pin of its capture in place together, touches no other lane,  *)
(* refers to no object the destination lacks, and never turns pins found   *)
(* without a receipt into custody.                                         *)
InstallsWhole(g) ==
    LET r == receipts'[g]
        v == ledger[r].src
        Created == {l \in Lanes : pins'[g][l] # pins[g][l]}
    IN  /\ r \in Runs
        /\ ledger[r].gen = g
        /\ Created \subseteq Pins(v)
        /\ \A l \in Pins(v) : pins'[g][l] = Tip[v][l]
        /\ {Tip[v][l] : l \in Created} \subseteq objects
        /\ receipts[g] = Absent => r \in objects /\ Created = Pins(v)

AtomicInstall ==
    [][\A g \in Generations :
         ToolStep /\ <<receipts[g], pins[g]>>' # <<receipts[g], pins[g]>>
           => InstallsWhole(g)]_vars

(* The vault is append-only: runs, intents and bundles of failed and       *)
(* killed invocations stay for diagnosis, and none is ever rewritten.      *)
VaultAppendOnly ==
    [][ToolStep => \A r \in Runs :
         /\ vault[r].made => vault'[r].made
         /\ vault[r].intent # Absent => vault'[r].intent = vault[r].intent
         /\ vault[r].bundle # Absent => vault'[r].bundle = vault[r].bundle]_vars

(* "Runs are exclusive and never reused": no two invocations fill one run. *)
Filling == {"intent", "seal", "unbundle", "import", "imported", "relist"}

RunsExclusive ==
    \A p, q \in Applies :
        /\ p # q
        /\ apply[p].step \in Filling
        /\ apply[q].step \in Filling
        => apply[p].run # apply[q].run

(* Custody of sensitive content has an operator's review of that very      *)
(* content behind it, through source edits, retries and other generations. *)
SensitiveReviewed ==
    \A g \in Generations : receipts[g] \in Runs =>
        LET receipt == ledger[receipts[g]] IN
            receipt.src \in NeedsReview =>
                receipt.review \in Reviews /\ Binds[receipt.review] = receipt.src

(* Custody once complete survives everything the tool does: failing,       *)
(* killed and racing invocations and the adoption of other generations.    *)
CustodySurvives ==
    [][\A g \in Generations :
         ToolStep /\ CustodyHolds(g) => CustodyHolds(g)']_vars

(* Each invocation repeated after failures succeeds in the end when both   *)
(* checkouts stay as they are, whatever was killed before.                 *)
EventuallyAdopted == \A p \in Applies : <>(apply[p].step = "done")

(* "A matching incomplete installation can complete missing refs under the *)
(* same immutable contract": repeated invocations put deleted pins back.   *)
MissingPinsRestored == \A g \in Generations : Incomplete(g) ~> ~Incomplete(g)

(* A sentinel is no record of what a generation holds.                     *)
ASSUME HeldAssumption ==
    Absent \notin [src : Versions, run : Runs, kept : SUBSET Lanes]

(* What a reader of generations sees of the detailed state.                *)
HeldBy(g) ==
    LET r == receipts[g]
        v == ledger[r].src
    IN  IF r \in Runs
        THEN [src |-> v, run |-> r,
              kept |-> {l \in Pins(v) : pins[g][l] = Tip[v][l]}]
        ELSE Absent

Promise == INSTANCE Custody WITH held <- [g \in Generations |-> HeldBy(g)]

(* Adoption with all its races, crashes and damage implements Custody.     *)
KeepsPromise == Promise!Spec
=============================================================================
