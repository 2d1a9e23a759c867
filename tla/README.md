# Compfuzor: verification of its stateful cores

Compfuzor is mostly declarative configuration (Ansible playbooks, templates, data), with
a growing set of TypeScript programs that change things nobody wants changed wrongly: Git
repositories, shared registries, key state of an input device. This directory holds TLA+
models of those programs, the TLC instances that check them and the theorems TLAPS proves
about them.

Five programs are modelled. **Git custody adoption** (`archive/src/custody`,
`archive/src/recovery`) moves everything a legacy checkout holds into a destination
repository under refs that never change, across races, kills, retries and damage. **Archive
refresh** (`archive/src/repository/refresh.ts`, `archive/src/recovery/harvest.ts`) brings a
jj-managed checkout up to date with its remotes and must not lose the work in it. The **dial
relay and its toggle** (`files/kanata-dial`) hold a virtual key on one input daemon while
another is on a certain layer, across dying connections and processes. **Compiled configs**
(`files/config`, `files/config-run.sh`) deliver inputs from producers beside the operator's
own and commit the outputs made of them as one transaction. **Key binding batches over the
registry** (`runtime/registry`, `runtime/keybindings`, `files/config/keybindings`) publish
an owner's reference and install a producer's group at its receivers, without a lock, while
operator and owners change the same directories.

Run a check with `tlc -config adopt_race.cfg MCAdoption.tla` (the modules of the others are
in section 5), the proofs with `tlapm M.tla` for `AdoptionProofs`, `RefreshProofs`,
`KanataRelayProofs`, `KanataToggleProofs`, `ConfigCommitProofs`, `ConfigProofs`,
`KeybindingProofs` and `BatchProofs`.

## 1. Inventory

| Component | State it keeps | Operations | Talks to | Hard behaviour | What makes it correct |
|---|---|---|---|---|---|
| Custody adoption (`custody/apply.ts`, `recovery/transaction.ts`, `git-ref-store.ts`, `retry.ts`) | nothing of its own; custody refs and a receipt ref per label/generation in the destination | `applyAdoption`: plan, stage, recheck, bundle, seal, import, install, verify; same-generation retry | planner, stage, vault, Git of both checkouts, verifier | concurrent invocations, edits meanwhile, kills, `git gc`, stale listings | refs only behind sealed evidence, all or nothing, never moved; success means complete custody; retries complete and never recapture |
| Planner (`custody/inventory.ts`) | none | `planAdoption`: read-only facts, blockers, baselines | Git and jj | what it read is stale at once | sensitive content is admitted only with a review that binds it |
| Private stage (`custody/stage.ts`) | temporary repository | `prepareSnapshot`, `proveBundle` | source checkout | source moves while staged | objects are those the plan named |
| Vault (`custody/vault.ts`) | run directories beside the destination: `intent.json`, `refs.bundle` | `createVaultRun`, `sealVaultFile`, `sealBundle` | file system | kill or power loss between writes; two writers | runs exclusive, append-only, intent before bundle, durable before any ref |
| Verifier (`custody/verify.ts`) | none | `verifyAdoption`, drift of both checkouts | Git, vault | reads over several commands | reports success only on complete evidence |
| Receipt model (`model.ts`), codec, probes (`codec.ts`, `inventory/*`) | none | receipts and names of refs; encoding; reading Git and jj | all of the above | canonical form | one receipt, one identity |
| Refresh (`repository/refresh.ts`, `snapshot.ts`) | nothing of its own; jj bookmarks, remote bookmarks, tracking and working copy of an archive | `refreshArchive`: clone or adopt, harvest, untrack, fetch, save displaced tips, set the base, track, advance | jj, Git remotes, people in the checkout between runs | ten jj commands, each may fail or be the last; fetch moves bookmarks; a rerun starts where the last run was killed | local tips keep a bookmark, edits stay, a success is at upstream, a report of no change is honest |
| Harvest and heal (`recovery/harvest.ts`, `heal.ts`) | recovery bookmarks `harvest/*`, `compfuzor/save/*` | `harvest`, `saveDisplacedTip`, `healRevert` | jj | copying the same edit again, or not copying a newer one | a copy for every edit, minted once |
| Fetch, deploy, remotes, health, self (`archive/src/repository`) | workspaces and the alias link of a deployment | `fetchRemote`, `deployArchive`, `deploySelf`, probes | jj, file system | alias replaced between check and link | a deployment is never half switched |
| Kanata relay (`files/kanata-dial/relay.ts`, `cli.ts`, its unit in `kanata-dial.etc.pb`) | `sourceHeld`, `sentHeld`, current target socket | two reconnecting sessions, `apply`, `stop`; `--reset` in ExecStopPost | two Kanata daemons over TCP; systemd | disconnects, deadlines, late answers, crash with the key held, a stop that fails or is killed | the virtual key never stays held without its layer |
| Kanata toggle (`files/kanata-dial/toggle.ts`) | systemd units, key-binding membership | ON, OFF, safe stop | systemd, key-binding tool | any step fails | no relay left running after a partial ON; F bindings retained until the key is known released |
| Action sessions (`files/actions`) | session and its processes | plan, run, cancel | child processes | cancellation and failure | outputs belong to the inputs that were admitted |
| Registry (`runtime/registry`) | links in per-scope registry directories | `planRegistration`, `applyRegistration`, `verifyRegistryGuard`, read | other registrants and the operator, unlocked | verify, replace, verify without a lock | nothing of the operator's is overwritten or masked; publishers of one reference agree |
| Key binding batches (`runtime/keybindings/invocation.ts`) | what it admitted | admit a producer and its receivers; publish; install at one after the other | registry, config key bindings | everything admitted may change before its effect | a veto of the operator holds to the commit |
| Config key bindings (`files/config/keybindings`) | membership of groups, per receiver | host, install, enable and disable of a group | registry guards, config runner | the membership is rewritten as a whole | the flag the operator set survives |
| Links (`files/links`) | delivered links and copies | deliver, remove, status | file system | replaced targets | a delivered entry belongs to the manifest |
| Config inputs (`files/config/input-state.ts`, `inputs.ts`, `install.ts`, `registration.ts`) | local inputs under two names, enabled and disabled | install, sync, put, enable, disable, remove, registration batches | producers' inputs, links, the runner | lookup then write; a batch that fails halfway | local choices survive; a failed batch leaves no trace |
| Config runner (`files/config-run.sh`, `assembly.ts`) | outputs, staged candidates, backups | build, compare, stage, reserve, commit, rollback, trap | processors, signals | moves of several files, any of which fails; signals; kills | all outputs or none; success means outputs of the inputs there are |
| Zim activation (`files/zim`) | activated generation | build, activate | file system | failed activation | a whole generation or the previous one |
| Catalog, flow, fuzings; host tools; playbooks; generated bundles | - | reading, reporting, command orchestration, templating | host | - | out of scope (see 8) |

How they interact: adoption calls the planner three times (at the start, around the
private bundle, before the installation), writes the vault, imports objects, runs one
`git update-ref --stdin` transaction, and verifies. Nothing locks the two checkouts; the
only atomic step on shared state is the transaction. Refresh and deploy work on the same
destination through jj. Every config command changes local inputs first and then starts the
runner on the recipes concerned. A key binding batch publishes its producer through the
registry, and at each receiver registers inputs and commits native configuration and
membership with the same runner, whose last validation looks at the registry guards again.
Zim and catalog publish through links. The toggle starts and stops the relay as a systemd
unit and changes memberships through the key binding tool.

## 2. Plan

| Order | Module | Of | Status |
|---|---|---|---|
| 1 | `Adoption`, `AdoptionProperties`, `MCAdoption` | adoption with planner, stage, vault, transaction, retry, verifier | done |
| 2 | `Custody` | what adoption promises, abstractly | done |
| 3 | `AdoptionProofs` | every safety property of adoption, and the refinement | done |
| 4 | `Refresh`, `RefreshProperties`, `MCRefresh` | refresh with harvest: bookmarks, fetch, displaced tips, kill and rerun | done |
| 5 | `KanataRelay`, `KanataRelayProperties`, `KanataToggle`, `KanataToggleProofs` | sessions, key state, reset barrier; toggle over the units | done |
| 6 | `ConfigCommit`, `ConfigInputs`, `ConfigProperties`, `MCConfig` | the runner's transaction, and the commands that change inputs composed with it | done |
| 7 | `Registry`, `KeybindingBatch`, `KeybindingProperties`, `MCKeybinding` | publication of references, composed with batches, hosts and toggles | done |
| 8 | `KeybindingProofs`, `BatchProofs` | all five properties of the registry run | done |
| 9 | `RefreshProofs` | all nine properties of the refresh runs | done |
| 10 | `ConfigCommitProofs`, `ConfigProofs` | all five properties of the publish run | done |
| 11 | `KanataRelayProofs` | the three invariants of the relay run | done |
| 12 | `Deploy`, `ActionSession`, zim activation | as in the inventory | open |

Every safety property of a passing run is now a theorem. Worth stating and proving next: that
the relay's part in `KanataToggle` (a process that presses and releases at will) is an abstraction
of `KanataRelay`, and abstract specifications of a config commit and of a refresh with their
refinements, as `Custody` is for adoption.

## 3. `Adoption`: how it corresponds to the code

**State.** `source` and `worktree` are the states of the legacy checkout and of the
destination's worktree and index. `receipts`, `pins`, `others` are the destination's refs,
`objects` what its object store holds, `doomed` what a running gc will delete. `vault` holds
the run directories. `ledger[r]` is the content of the receipt commit of run `r`. `apply[p]`
is what invocation `p` holds in variables of `applyAdoption`: its plan, proven bundle, run,
retry approval, the transaction's decision and the receipt the verifier read.

**Data.** A state of the legacy checkout is one of `Versions`, and `Tip[v][l]` is the object
it has on lane `l` (a head, branch, tag, reflog candidate or worktree snapshot each get a
lane, that is one custody ref). A plan, an intent and a receipt record the same facts
(`Facts`): generation, source version, review, destination refs and worktree. A receipt
commit is content-addressed and contains its random run id, so the run id stands for its
object id. A review is the manifest it binds (`Binds`).

**Steps.** Each action is the code from one read or write of shared state to the next:

| Actions | Code |
|---|---|
| `Plan` | `planAdoption`: review gates, facts, baselines |
| `Observe` | first ref listing, `assertObservedRefs`, choice between fresh and retry, `precheck` |
| `Stage`, `Recheck`, `ProveBundle`, `Recheck` | `prepareSnapshot`, recheck, `proveBundle`, recheck |
| `CreateRun`, `SealIntent`, `SealBundle` | `sealBundle` with `createVaultRun` and `sealVaultFile` |
| `ImportBundle`, `ImportReceipt` | `mintReceipt`, `importBundle`, `importReceipt` |
| `Recheck`, `Relist` | last plan and listing before installing |
| `ReadReceipt`, `ProveExistingBundle`, `Replan`, `RelistRetry` | the retry branch, with `approveSameInputRetry` twice |
| `Decide`, `Commit` | `installImmutableRefs`: listing and `decideInstallation`, then the transaction |
| `VerifyRefs`, `VerifyVault`, `DriftSource`, `DriftDestination` | `verifyAdoption` |
| `Stop` | any error: `applyAdoption` rolls nothing back |

**World.** `EditSource`, `EditDestination` (people working), `DropPin`, `DropReceipt`,
`Intrude` (somebody's `update-ref`), `GcMark`/`GcSweep` (`git gc --prune=now`), `LoseBundle`
(vault damage), `Crash` (kill or abort). `Faults` selects the kinds, `MaxFaults` bounds
their number.

**Abstractions to know.**
- A planner's or verifier's read of one checkout is one step. Source and destination edits
  commute with reads of the other, and a read torn by an edit gives facts no later recheck
  matches, which is the `Stop` a changed version gives.
- The drift check reads the recorded manifest; an untracked file added later is no change to
  it. Versions in the model differ in something the check reads.
- A failed command and a kill leave the same state, so both are "the invocation ends here".
  An `update-ref` whose outcome the invocation never learns is `Commit` followed by `Crash`.
- Names the destination has beside custody: `Obstructs` says for which generations the tool
  refuses them (a prefix of a custody ref, or the old `harvest/<label>` branches), `Clashes` for
  which Git refuses the transaction too (prefixes only).
- Writing below the vault's existing parent directories succeeds or fails the invocation, and
  what was written stays: `sealVaultFile` writes, syncs, links and syncs the directory before
  it returns, so a seal that was acknowledged survives a loss of power too.
- jj health, remote-tracking facts and report texts have no part in the decisions modelled.

## 4. `Custody`: the promise

A reader sees for each generation what it holds: nothing, or a version, its run and the pins
that are in place. The tool may capture a whole version under an empty generation with a run
no other uses, and may put missing pins of the held version back, all at once. Only somebody
else can remove a pin or a receipt. `KeepsPromise` states that `Adoption` implements this
under `held[g] = HeldBy(g)`.

## 4a. `KanataRelay` and `KanataToggle`

**Relay.** `source` and `session` are the two connections of `PrecisionRelay`, each `down`
(waiting to retry), in a phase of its protocol, or `closing` (destroyed, its close event not yet
delivered). `sourceHeld`, `sentHeld` and `target` are the fields of that name; `target` says
that the target session is `this.target`. `life` is the process: up, stopping, stopped with
success, `failed` (asked to stop, and its own reset failed or it was killed) or `dead` (nobody
asked). `reset` is the progress of `resetTarget`, which `stop()` runs and, once the process is
over, ExecStopPost (`StopPost`, `cli.ts --reset`). Actions are the event handlers: `SourceData`,
`SourceClose`, `TargetNames`, `TargetWaits`, `TargetReady`, `TargetClose`, `Stop` and so on; every
handler that calls `apply()` contains it (`Apply`). A kill may take a relay at any time, also the
one systemd sends when `stop()` takes longer than `TimeoutStopSec`. `Start` needs ExecStopPost to
have ended; `SuppressRestart` is somebody stopping the unit of a dead relay before it is
restarted. The daemons are external: `updates` are layer messages under
way, `wire` commands under way, `pending` key actions taken and not processed, `key` the state of
the virtual key, which no disconnect changes. When a connection dies some first commands of it
still arrive (`Remains`); those that do not are marked in place (`Lost`), or dropped where nothing
follows them, and the daemon passes over them.

Assumed of the target daemon: it takes commands in the order they arrive, also across
connections. Kanata serves each connection with a thread of its own, so a press of a dead
connection could in principle be taken after the next connection's reset, two round trips later;
the relay would not notice. Not modelled: clocks (a session may be given up at any time, and a
silent source must be), framing, and a target that does not define the key.

**Toggle.** `pc` walks the commands of `toggle`; `after` is what `safeStop` returns to. Every
command succeeds, or fails with or without its effect, as a nonzero exit, a signal or the 30 s
timeout may mean either. The toggle may be killed between commands and invoked again with any
nonempty set of receivers. The relay here is any process that presses and releases at will.
Two toggles at once are excluded by its documentation, and so are memberships changed by hand.

## 4b. `Refresh`

**State.** `remote` is what the remotes hold. `local`, `seen` (remote bookmarks as last
fetched), `tracked`, `saves` and `harvest` are jj's bookmarks, `at` its working copy commit.
`pc`, `opt`, `before`, `left`, `todo`, `saving`, `selectedSaved` and `changed` are what
`refreshArchive` holds in variables between two jj commands; `before` is the state it read
before its first command. `quiet` remembers that the last run succeeded, with which options,
and that nothing happened since.

**Commits.** A commit is the set of changes in its history. Then "x is an ancestor of y" (every
revset the code asks for) is `x \subseteq y`, a merge is a union, and rewriting gives a commit
that neither contains nor is contained in the old one. A local bookmark is the set of its
targets: `{}` if there is none, several if it is conflicted.

**Steps.** One action per jj command that changes the repository; the queries before it belong
to it.

| Actions | Code in `refreshArchive` |
|---|---|
| `Begin` | clone or adopt (72-117), snapshot and bookmarks read (118-127) |
| `HarvestWork`, `SkipUpdate` | `harvest` with `recoveryCovered`; `--update false` |
| `Untrack`, `Untracked` | untracking (150-168), scope of the fetch |
| `Fetch` | one `jj git fetch` (172-191) |
| `ReadAfter` | bookmarks read again, upstream, which tips diverged (192-260) |
| `Save`, `SetDisplaced` | `saveDisplacedTip` and `bookmark set -B` per diverged tip (261-272) |
| `SetBase`, `Track` | selected base set, unless conflicted or refused; tracked (273-312) |
| `Advance`, `Return` | the checkout (313-359) and the result |
| `Throw`, `Abort` | its own errors; a kill, or a failing jj command, anywhere |

**World.** `Push` moves a remote branch forward or sideways at any time a run reads it or none
runs. `Edit`, `New` and `SetLocal` are the operator with `jj`; the code asks that nobody works
in the checkout during a run (refresh.ts:5), so they happen between runs, also after a killed
one. How an import treats a tracked bookmark (`Imported`) is jj's.

**Abstractions to know.** Remotes are declared and reachable, with their URLs already
reconciled; a branch is never deleted on a remote; other people do not touch the bookmarks the
tool makes. Names of saved bookmarks are unique (they carry a random suffix). Files with
conflicts, symlinks and `snapshot.ts`'s size limits are data.

## 4c. `ConfigCommit` and `ConfigInputs`

**State.** `donor` is what the producers offer under each name, `entry` the local inputs (each
name has an enabled and a disabled file: missing, a link to one of the donor's two files, or a
text), `output` the outputs, `staged` and `backup` the temporary files beside them.
`run[r]` is what invocation `r` and its runner hold, `saw` what it has found at the
two names of an entry. A text is `"v1"`, `"v2"` (a producer's) or `"own"`; an output is the
set of its inputs' names and texts.

| Actions | Code |
|---|---|
| `List`, `Build`, `Compare`, `Stage`, `Reserve` | `config-run.sh`: private work, 88-243 |
| `MoveAway`, `MoveIn`, `DropBackups` | the commit, 255-275 |
| `Undo`, `Restore`, `Back` | `rollback_prior`, and the restore of the move that failed, 245-266 |
| `Cleanup`, `Signal`, `ToolFails` | the EXIT trap, forwarded signals, `set -e` |
| `Begin`, `Look`, `SourceMissing`, `Deliver` | `inputCatalog`, `localSelection`, `applyRelation`, `syncInputs` |
| `Put`, `Toggle`, `Remove` | `putInput`, `inputMutation` |
| `Preflight`, `Register`, `Revert` | `withInputBatch` around the runner |
| `Ended`, `Return` | `rebuild`, `installContext`: the runner's result becomes the command's |

**World.** `Produce`: a producer changes, disables, enables or withdraws an input at any time.
`Kill`: command and runner die together (the processes, not the power: the script syncs nothing).
A detached runner that outlives its command (assembly.ts:69) ends as it would have, which is a
kill of the command at its step `ended`; that a next command meets it still running is not
modelled. `ToolFails`, and the failing branches of the moves: any command may fail.

**Abstractions to know.** Two recipes with one directory input each. Direct file inputs, link
outputs, outputs that are directories, modes, `--stdout`, the fuzings manifest and the alias and
path checks are left out. Which commands overlap is a
bound (`Overlapping`); the code claims no isolation, and the properties are about commands on
whose recipes nobody else worked (`clear`), with whatever earlier commands left behind.

## 4d. `Registry` and `KeybindingBatch`

**State.** `places[i]` are the entries of registration `i`: the `<id>.json` of a root of higher
precedence and the enabled and disabled slot of the root owners write to. An entry is missing,
the owner's `link`, a declaration of somebody else (`other`), the operator's copy with
`enabled: false` (`off`) or a link to `/dev/null` (`mask`). `enabled` is the flag in the owners'
descriptors, `membership` the producer's group at each receiver. `run[p]` is what an invocation
holds: its plans (the guards of the code), the receivers still to do, the pass of checks
under way with what its registry look saw, the membership read, and bookkeeping.

| Actions | Code |
|---|---|
| `Begin`, `PlanRegistration` | `planRegistration`: descriptor and registry, then the slots |
| `Admit` | the second look of `admitBatch` and of host admission; receivers |
| `Observe`, `Inspect` | `verifyRegistryGuard`: files and registry, then the slots |
| `Apply`, `Publish` | `applyRegistration`: last check, then `replaceWithLink`, then the check of what came of it |
| `Receive`, `ReadState`, `Guard`, `Commit` | per receiver: guards, `readState`, guards inside the CONFIG transaction (`closure.ts`), the outputs with the membership |
| `Build` | a host: native outputs first, then its publication |
| `NativeFails`, `Operate`, `Edit` | failing tools; the operator in the registry; owners editing descriptors |

Every look at a directory is a step of its own, so that a change can come between any two. A
guard compares which entries there are (`Topology`); what the deciding file says is a file guard of
each receiver's own command, so it is compared from there on, not before the publication.

**Abstractions to know.** The second look at the slots of an existing entry (register.ts:87) and
the capture of the descriptor with the first look are merged with their neighbours; so are passes
of guards that directly repeat one another. The root of higher precedence has one slot. What a
receiver's native configuration looks like, and a host's own root, are not modelled. `figments`
(which entry of an identity wins) is external and modelled as its documentation and the
registry code use it.

## 5. Runs

The adoption runs use `MCAdoption`: two versions (`clean` has one lane, `dirty` a moved branch and a
snapshot lane), so an installation with one and with two pins occurs.

| Run | Instance | Shows |
|---|---|---|
| `adopt_race` | 2 invocations, 2 generations, a sensitive version with its review, 2 run names, 2 faults among source edits, destination edits, kills | `TypeOK`, `ReceiptBacked`, `SuccessMeansCustody`, `SensitiveReviewed`, `CustodySurvives` |
| `adopt_tampered` | 2 invocations, 1 generation, 2 faults among deleted pins and receipts, squatted names, destination edits, gc, lost bundles | `ImmutableRefs`, `AtomicInstall`, `KeepsPromise` |
| `adopt_live` | 2 invocations, 3 runs, 1 kill or deleted pin | `EventuallyAdopted`, `MissingPinsRestored` |
| `relay` | 4 faults of any kind, the keyboard rests while 2 messages are under way | `TypeOK`, `BeliefIsOutcome`, `StoppedIsReleased`, `StopEnds`, `ReleasedWhenOff`, `ReleasedWhenSilent`, `HeldWhenOn` |
| `toggle_steps` | 2 receivers, no bound on failures or kills | `TypeOK`, `KeyHasBindings`, `FailureIsSafe`, `DoneMeansIt` |
| `refresh_branches` | 1 remote, 2 branches, 4 option sets, 2 runs, 1 kill or failed command, 3 authored changes | `TypeOK`, `TipsKept`, `Merges`, `NothingDisplaced` |
| `refresh_remotes` | 2 remotes, 1 branch, absent, Git or jj checkout, default, `branch@remote` and `--update false`, 2 runs, 1 kill or failed command, 3 authored changes | `Converges`, `Idempotent`, `HonestReport`, `ManualResolution`, `EditsKept` |
| `config_publish` | 2 commands of 10 kinds on 2 recipes, install and disable at once, 2 faults among failing tools and moves, signals, kills, producers | `TypeOK`, `AllOrNothing`, `Published`, `ChoicesKept`, `KilledKeeps` |
| `registry_batch` | 2 of batch, registration, host and toggle at once, 2 receivers, first and established registrations, 1 change by operator, owners or failing tools | `TypeOK`, `AgreeOnPublication`, `PublishKeeps`, `VetoHolds`, `ToggleKept` |
| `config_signal` | 2 commands one after the other, signals | `AtomicCommit` is violated (section 7) |
| `refresh_tips` | 1 remote, 1 branch, default options | `SavedTips` is violated (section 7) |
| `refresh_explicit` | 1 remote, 1 branch, `branch@remote` | `RepeatKeepsWork` is violated (section 7) |

The adoption runs are of `MCAdoption`, the refresh runs of `MCRefresh`, the config runs of
`MCConfig`, the registry's of `MCKeybinding`, the relay's of `KanataRelayProperties`, the
toggle's of `KanataToggle`.

**Bounds of refresh.** Three authored changes are the least for a divergence (one local, one
upstream) with one more on either side, such as an uncommitted edit on top of the diverged tip.
A second run sees everything the first one, or its killed half, left behind; the code keeps
nothing else between runs. One remote decides for each branch on its own, so two branches show
whether one disturbs the other, and two remotes whether one branch's remotes do.

**Bounds of the relay.** One fault leaves uncertain state behind (a press that may arrive), a
second hits the session that cleans it up, a third the one after; a relay is abandoned (below) by
three: a stop, its failed reset, its failed ExecStopPost; a fourth, such as a lost connection,
goes with that. The keyboard changes as long as fewer than two messages are under way, so a session
can die with a press and a release outstanding. `KanataToggle` needs no bound: its state is finite.

**Bounds of adoption.** Two invocations are the least that race; every check an invocation makes compares
what it holds with shared state, so a third adds no new kind of difference. Where a run may be killed and
started again and must still succeed (`adopt_live`) there are three run names; in the others an
invocation that finds every name taken stops.
Two faults are enough for an edit and its reversal, for an edit and a kill, for a mark of gc
together with a deletion. The proofs lift all these bounds for the theorems of section 6.
Symmetry is used in the safety runs only, over invocations and runs, which no definition
distinguishes.

**Bounds of config.** A commit over two outputs, one there before and one not, has a first and a
last move with a prior one to roll back; a longer list repeats the middle. One fault fails a move
and the second the restore, or a fault leaves files behind and the second command meets a
producer's change. The one entry the operator has at the start may have both names, which
is what the only race over an entry leaves. Install and disable are the pair that races
over one entry while the others wait; that every pair may leave stale outputs behind for the next
command is in the run because kills and failures do.

**Bounds of the registry.** Two invocations are a publisher and another of the same reference, or
a batch and the toggle or host at its receiver; a third adds no check that compares with
anything but the shared directories. One change by operator or owner lands at every step of
both. Two receivers are the least for a batch that works on one while another is changed;
one of them may be named before it is registered (`Prospective`). The theorems of section 6 hold
without these bounds.

**Deadlock** is checked in the adoption, relay and toggle runs: an operator can always invoke
again, and a relay that ended runs ExecStopPost and can then be started. The refresh, config and registry
runs end when every command they may start is done, so there it is not checked; that a run never hangs is visible in
the model, whose every `pc` or `step` has an enabled action.

**Fairness** (`LiveSpec`). `WF(Progress(p))`: an invocation that is not killed executes its
next step. `WF(Repeat(p))`: the operator invokes again while the invocation has failed or its
generation is incomplete; the README of the archive tool tells him to. `SF(Fresh(p))`: the run
id is 128 random bits, so an attempt sooner or later gets a name not yet taken. Nothing is
assumed of people, gc or kills. For the relay, every handler whose event is due runs, the daemon
takes and processes what arrived, a silent source meets its poll deadline, and systemd does two
things: it runs ExecStopPost however the process ended, and it restarts a relay that died without
being asked to stop (`Restart=on-failure`, a second later; four faults do not reach systemd's
start limit). A stop suppresses the restart (toggle.ts:88), whether `stop()` then succeeds, fails or is
killed, so nothing is assumed to start such a relay again. Nothing is assumed of the keyboard, and a
source daemon may hang for ever.

**An abandoned relay.** A relay whose `stop()` failed or was killed and whose ExecStopPost failed
as well does nothing any more, and the key may stay held. `ReleasedWhenOff` and
`ReleasedWhenSilent` exclude exactly a relay that stays in this state (`Abandoned`), and
`HeldWhenOn` a relay somebody asked to stop. The toggle covers it when it is the one that stops the
relay: it resets once more and, when that fails, stops the dial (`KanataToggle`); a `systemctl
stop` by hand has no such cover.

## 6. Proofs

Every safety property of a passing run is a theorem, for every value of the constants the
assumptions of the modules admit. The assumptions are types, that sentinels are distinct from
what they stand in for, and that bounds are natural numbers; TLC evaluates each of them in a
run. One theorem has a hypothesis of its own (`SuccessIsCustody`, below). Each proof has one
lemma per action or group of actions, and TLC finds each inductive invariant true on the
instances of section 5.

### Adoption

`AdoptionProofs`, for any sets of invocations, generations, lanes, versions and runs and any
number of outside events:

| Theorem | Statement |
|---|---|
| `Inductive` | `Spec => []IInv` |
| `TypeCorrect`, `ReceiptsBacked`, `BundlesExplained`, `RunsNeverShared` | the invariants `TypeOK`, `ReceiptBacked`, `NoUnexplainedBundle`, `RunsExclusive` |
| `RefsNeverMove`, `InstallIsAtomic`, `VaultOnlyGrows` | the action properties `ImmutableRefs`, `AtomicInstall`, `VaultAppendOnly` |
| `Refines` | `Adoption` implements `Custody` (`KeepsPromise`) |
| `SensitiveReviews` | the invariant `SensitiveReviewed` |
| `ToolKeepsCustody` | the action property `CustodySurvives` |
| `SuccessIsCustody` | `NothingRemoved` implies the invariant `SuccessMeansCustody` |

**The argument.** None of the properties is inductive: that a receipt is backed by its vault
run depends on what the invocation that installs it knows. `IInv` records who owns a run. From
`CreateRun` until its receipt commit is imported a run belongs to one invocation
(`RunsExclusive`), and `IInv` ties the invocation's step to what the run holds by then: created,
intent sealed, bundle sealed, receipt minted. A minted receipt equals the sealed intent and
never changes; an unused run has no receipt. An invocation that reaches the installation,
whether as the writer of its run or as a retry, holds a receipt commit whose run is complete,
and only `Commit` writes a receipt ref, to that commit and under that receipt's generation.
For the transaction the invariant adds that a missing receipt means every pin is missing, so
what appears, appears whole. The refinement follows: `Commit` is `Capture`, `Restore` or a
stutter, outside deletions are `Damage`, everything else leaves `HeldBy` alone.

Reviews need a second invariant, because a receipt may outlive the invocation that was
admitted: every plan held and every receipt minted is `Reviewed` (`ReviewInv`). Only admission
makes plans, and only a plan becomes a receipt.

That a success means custody is not true of any world: somebody may delete a pin the verifier
has just seen. `NothingRemoved` excludes the faults `pin`, `receipt`, `gc` and `vault`, as
`adopt_race` does, which leaves edits of both checkouts, squatted refs and kills, of any number. Under it
`SuccessInv` says of every invocation near its end what it has established so far (its receipt
installed, its pins in place, its bundle in the vault), and `NothingLost` that no step of anybody
takes that away.

### Relay

`KanataRelayProofs`, for any set of fault kinds and any number of faults and of commands under
way: `Invariance` (`Spec => []IInv`), `TypeCorrect` (`TypeOK`, with at most one open query on a
connection), `BeliefsHold` (`BeliefIsOutcome`) and `StopReleases` (`StoppedIsReleased`).

**The argument.** The relay cannot see the key; it knows what it wrote before. `Will(h)`
says that the last key command under way, or else the last one taken, is for `h`: taking and
processing commands keep it, and a command written makes it so. `Believed` says that from the
reset on the key will be released, and on a ready session what `sentHeld` says. The step from
one to the other is an answer "fallback", which proves nothing about the key by itself, as it may be
older than the release. What carries the proof is `Open`: a connection has one query open at
most, and none where no answer is awaited, so nothing else of that session is under way and no
answer is taken for that of another question. `Barred` does the same for the reset of `stop()` and of
ExecStopPost: until its barrier answers, its release is under way with the query behind it and no
press after the release (`Releasing`), or everything is released; hence an answer means
everything is. That a process which ended has no session left makes ExecStopPost, and the next
start, find nothing of the old connections but key commands, which the reset follows.

### Toggle

`KanataToggleProofs` proves the toggle's four invariants (`ToggleTypeCorrect`,
`BindingsRetained`, `FailuresAreSafe`, `SuccessIsComplete`) for every set of receivers. Its
invariant says what an invocation knows at each command: after `safeStop` there is neither a relay
nor a held key, and the memberships already changed stay changed.

### Refresh

`RefreshProofs`, for any remotes, branches, starts and options, any number of runs, kills and
authored changes, from `RefreshAssumption`:

| Theorem | Statement |
|---|---|
| `Invariance` | `Spec => []IInv` |
| `TypeCorrect`, `SuccessConverges`, `RepeatsAreIdle`, `ReportsAreHonest` | the invariants `TypeOK`, `Converges`, `Idempotent`, `HonestReport` |
| `TipsAreKept`, `NoneDisplaced`, `ConflictsAreLeft`, `EditsAreKept`, `RunsMerge` | the action properties `TipsKept`, `NothingDisplaced`, `ManualResolution`, `EditsKept`, `Merges` |

**The argument.** `refreshArchive` decides with what it read some commands ago. `IInv` says how
far that is still the truth at each command. `Authored`: a change nobody published is in no
remote bookmark, fetched or not, so an edit is never mistaken for upstream. `Remembered`: what no
command has changed yet is as first read, and an edit has its copy before the fetch.
`TipsFrom`: a local tip was there before the run or was brought by a remote this run has
fetched. `Displacing`: a displaced tip that is no longer to be saved is saved. `Based`: from
`SetBase` to the checkout the selected branch is one tip with upstream in it. For `Idempotent`
the invariant has to span two runs: `Finished` is what a success leaves, `Settled` keeps it with
the remotes unmoved while the run is `quiet`, and `Repeating` follows a second run with the same
options, which finds nothing to do at any command.

### Config

`ConfigCommitProofs` holds the invariant and what the runner's steps do to it, `ConfigProofs` the
commands' own steps and the theorems, for any names, recipes, runs, first files, commands and
choice of those that overlap, from `CommitAssumption` and `InputsAssumption`:

| Theorem | Statement |
|---|---|
| `Invariance` | `Spec => []IInv` |
| `TypeCorrect`, `FailuresRollBack`, `SuccessIsPublished` | the invariants `TypeOK`, `AllOrNothing`, `Published` |
| `ChoicesAreKept`, `KillsLoseNothing` | the invariant `ChoicesKept`, the action property `KilledKeeps` |

**The argument.** `IInv` has a part for every run (`Shape`: which lists it holds at which step)
and parts only for a run that is `clear`, whose recipes nobody else works on (`Alone`). For
those, `Moves` says where the output, its candidate and its backup are at each of the two moves of
each output, forwards and backwards: placed outputs are candidates with the prior one in the
backup, the one in the hole is missing with the prior one in the backup, all others are
untouched. With `Reserved`, `Staged` and `Equal` (what was left out of the commit was equal) the
rollback gives back what was there, and a commit that ends gives the candidates. `Texts` ties
candidates to the inputs that are active, which no other command changes meanwhile. For the
inputs, `Choices` and `Looked` say that what a command found at the two names of an entry is
there when it acts, and `Registered` which registrations of a batch are delivered and not yet put
back.

### Registry and batches

`KeybindingProofs` and `BatchProofs` prove all five properties of
`registry_batch`, for any sets of invocations and receivers, any registry at the start, any
number of changes and any option sets, from `BatchAssumption` alone:

| Theorem | Statement |
|---|---|
| `Typing` | `Spec => []TypeOK` |
| `PublicationKeeps` | the action property `PublishKeeps` |
| `TogglesKept` | the action property `ToggleKept` |
| `PublishersAgree` | `Spec => []AgreeOnPublication` |
| `VetoesHold` | the action property `VetoHolds` |

**The argument.** Nobody holds a lock, so what an invocation knows must survive every step of
everybody else. Each proof states what one invocation knows relative to its bookkeeping
(`moved`, `stale`, `touched`, `torn`), shows that its own steps establish it, and that any
step of another either keeps it or marks the bookkeeping (a rely condition, `Drift` and
`Abides` in `KeybindingProofs`). For publication: from the look that passed to the
rename, an identity that is not in `moved` is as the plan saw it, or has the own link in the
destination slot; and a slot planned as missing in a view that shows no second local entry can
only turn the effective declaration from missing to the owner's. For the toggle: a membership
read and looked at again under the guard is still the one there unless `stale` is set. For
agreement: as long as nobody but a publisher of the same slot interfered, the identity is within
one publication of the plan (`Near`), and such a place passes `Before` or `Published` unless the
publication falls between the two looks of one check (`NearPasses`); two undisturbed
publishers plan the same slot (`SameDestination`). For the veto: each guard a batch holds fits what
admission allowed (`Fit`), a pass over receiver and producer establishes that
both are as guarded or as published (`Kept`), and both are allowed (`FitAllows`).

### Model-checked only

The liveness properties (`EventuallyAdopted`, `MissingPinsRestored`, `StopEnds`,
`ReleasedWhenOff`, `ReleasedWhenSilent`, `HeldWhenOn`) need fairness and `ENABLED`, which are out
of the prover's reach. So is induction over data: what depends on a recursive function for every
input would stay with TLC, but no property here does.

### What the proofs changed in the models

The proofs showed where a definition was ambiguous or coarser than the code. In `Refresh` the cases of `Imported` overlapped, so its value was not determined; they
are now tried in order, as jj does. `MaxChange` must be positive, since commit 1 exists at the start.
`ConfigCommit` compares one output per step and `ConfigInputs` reads the catalog name by
name, as the loops of the code do, and the lists of names and recipes are stated to have no
repetitions. In `KanataRelay` commands that never arrive are marked in place instead of
filtered out, which lets the proof speak of positions.

## 7. Findings

`config_signal`: `config-run.sh:2` calls the commit of compiled configs atomic, and the toolkit's
documentation (`doc/config/consumer-toolkit.md:445`) describes how failures roll back; only
crash atomicity is disclaimed. The EXIT trap removes everything in `temps` (line 73), and from
line 240 on that includes the backups. INT, HUP or TERM, forwarded by `assembly.ts:81`,
between the two moves of an output (lines 258 and 264) leaves neither the old output nor the new
one, nor a backup: a reader of that configuration finds nothing. A kill is gentler, since no
trap runs and the backup stays (`KilledKeeps`). A restore that fails is only warned about and loses
its backup the same way; `AllOrNothing` therefore excludes it.

`refresh_tips`: `archive/README.md:100` promises that a local tip that diverges from upstream is
saved before its bookmark is set to upstream. The loop that saves looks at bookmarks that were
tracked and whose remote bookmark this fetch moved; the base that is set afterwards
(refresh.ts:300) may be neither. In the run a Git checkout with a local commit on `main` is
adopted while upstream has another one: `main` is not tracked yet, so the local commit loses its
last bookmark. `TipsKept` is the promise with exactly this case taken out (`UnwatchedBase`), and
holds.

`refresh_explicit`: with `branch@remote` an empty `@` that is not on upstream itself is replaced
by one that is (refresh.ts:317-321). The run before it merged local work into the checkout and
left exactly such an `@`; a second run, with nothing new, takes the work out of the worktree
again (it stays in its bookmarks, if it had any). The design (`draft0.gpt6sol.md:14`) wants local
work available in the worktree, and the integration test of this option looks after the first run
only. `Idempotent` therefore excludes this option.

Limits of the code met while modelling, stated so that nobody assumes more:
- `approveSameInputRetry` compares a dirty worktree's path review as part of the snapshot,
  but not `cleanHeadPathReview`: a retry of a clean HEAD with another review is approved. It
  installs the recorded receipt, so custody is unharmed (`SensitiveReviewed` holds).
- `verifyRegistryGuard` observes the registry first and the slots afterwards (guard.ts:29-41). A
  publication of the same reference that falls between the two is neither "before" nor
  "published", and a benign race fails (`torn`).
- After its own publication was withdrawn, a guard takes the empty slot for the state before it
  and passes; `VetoHolds` allows this for a registration first made by the batch.
- Admission refuses what its second look shows, but guards what its first look showed
  (invocation.ts:197-209, runtime.ts:138-158). An entry changed between the two and back again
  can thus be admitted in a state that was refused, or the reverse; `VetoHolds` is about
  admissions whose looks agreed (`steady`).
- `replaceWithLink` renames over whatever is there by then; `PublishKeeps` is about publications
  whose slot nobody touched since the last look began.
- A retry never imports the bundle again. After the objects behind a deleted pin were pruned,
  every retry fails. `MissingPinsRestored` is therefore claimed without gc.
- Two generations adopted at the same time may make the first report destination drift, and
  retries of it keep doing so, since its recorded baseline lacks the other's refs. Both
  custodies are complete. `EventuallyAdopted` is therefore claimed for one generation.
- After a displaced tip was saved, the checkout moves to upstream from wherever it was
  (refresh.ts:335). Commits the operator made above that tip, with the bookmark not moved along,
  then have no bookmark; they stay visible heads of jj. `Merges` names this case, `EditsKept`
  (uncommitted edits) holds in it.

## 8. Not modelled

- Encodings of receipts, intents and plans; tree building; discovery of lanes: data.
- Deploy, action sessions, zim activation and link manifests: open (section 2).
- Direct file inputs, fuzings, published and linked outputs of config; selection documents,
  profiles, audiences and native rendering of key bindings.
- Reconciling remote URLs, `healRevert`, health probes: single commands or reads.
- Command lines, catalog and flow reports: no state.
- Host tools, Ansible playbooks: sequential commands over the host.
- `archive/repo-jj-archive.ts` and `build`: generated from the sources above.
