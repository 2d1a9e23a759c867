------------------------------ MODULE Refresh ------------------------------
(***************************************************************************)
(* `refreshArchive` of archive/src/repository/refresh.ts with the recovery *)
(* bookmarks of archive/src/recovery/harvest.ts: a checkout managed by jj  *)
(* is brought up to date with its remotes while local work is kept.  One   *)
(* action per jj command that changes the repository; the queries between  *)
(* two commands belong to the next one.  The command may be killed, or a   *)
(* jj command fail, between any two; the operator works in the checkout    *)
(* between runs, never during one (refresh.ts:5), and remotes move at any  *)
(* time.                                                                   *)
(*                                                                         *)
(* A commit is the set of changes its history contains, so that "is an     *)
(* ancestor of" is set inclusion, a child adds one change, a merge is a    *)
(* union and a rewrite replaces changes.  A local bookmark is the set of   *)
(* its targets: none, one, or several when it is conflicted.               *)
(***************************************************************************)
EXTENDS Integers, FiniteSets

CONSTANTS
    Remotes,        \* the declared remotes
    Origin,         \* the one every checkout starts with
    Branches,       \* the branches of the remotes
    Main,           \* the selected one
    Starts,         \* what may be at `dest` at first: "absent", "git", "jj"
    Options,        \* the option sets a run may be started with
    NoRun,          \* no run
    MaxChange,      \* bound on the changes authored
    MaxRuns,        \* bound on the runs
    MaxFaults       \* bound on the kills and failing commands

Absent == {}                            \* a branch a remote does not have
Root == {1}                             \* the commit everyone starts from

(* followSelectedRemote is set for any remote but origin, and for          *)
(* `branch@remote` (refresh.ts:82-90).                                     *)
AllOptions ==
    {o \in [selected: Remotes, follow: BOOLEAN, scope: {"all", "selected"},
            untrack: {"none", "selected", "all"}, save: BOOLEAN,
            update: BOOLEAN] : o.selected # Origin => o.follow}

ASSUME RefreshAssumption ==
    /\ Origin \in Remotes /\ Main \in Branches
    /\ Starts \subseteq {"absent", "git", "jj"}
    /\ Options \subseteq AllOptions /\ NoRun \notin AllOptions
    /\ MaxChange \in Nat \ {0} /\ MaxRuns \in Nat /\ MaxFaults \in Nat

VARIABLES
    remote,     \* the branches of each remote
    kind,       \* what is at `dest`
    local,      \* local bookmarks
    seen,       \* remote bookmarks, as last fetched
    tracked,    \* whether the local bookmark tracks the remote one
    at,         \* the working copy commit @: its parents and its own changes
    saves,      \* compfuzor/save/* bookmarks
    harvest,    \* harvest/<label>/working-copy-* bookmarks: copies of @
    next,       \* the next change to be authored
    pc,         \* the command this run issues next
    opt,        \* its options
    before,     \* the bookmarks and @ it read before its first command
    left,       \* remotes still to be fetched
    todo,       \* diverged bookmarks still to be saved and set
    saving,     \* the one just saved, to be set next
    selectedSaved,
    changed,    \* what it is going to report
    quiet,      \* options of the last success, if nothing happened since
    runs, faults

marks == <<local, seen, tracked, saves, harvest>>
repo == <<kind, marks, at>>
memory == <<opt, before, left, todo, saving, selectedSaved>>
bounds == <<runs, faults>>
vars == <<remote, repo, next, pc, memory, changed, quiet, bounds>>

----------------------------------------------------------------------------
(* External: how jj behaves, as far as refresh.ts relies on it.            *)

CommitOf(w) == (UNION w.parents) \cup w.own

(* A bookmark on the working copy commit itself moves when @ is rewritten. *)
IsAt(c) == at.own # {} /\ c = CommitOf(at)

Fresh(c) == [parents |-> {c}, own |-> {}]

(* A tracked local bookmark after its remote bookmark went from old to new:*)
(* it follows, stays ahead, or is conflicted.                              *)
Imported(targets, old, new) ==
    LET l == CHOOSE t \in targets : TRUE IN
    IF old = new THEN targets
    ELSE IF targets = {} THEN {new}
    ELSE IF Cardinality(targets) > 1 THEN (targets \ {old}) \cup {new}
    ELSE IF l = old \/ (old \subseteq l /\ l \subseteq new) THEN {new}
    ELSE IF old \subseteq new /\ new \subseteq l THEN {l}
    ELSE {l, new}

----------------------------------------------------------------------------
Snapshot == [local |-> local, seen |-> seen, tracked |-> tracked,
             saves |-> saves, harvest |-> harvest, at |-> at]

Idle == /\ pc' = "idle" /\ opt' = NoRun /\ before' = NoRun
        /\ left' = {} /\ todo' = {} /\ saving' = {}
        /\ selectedSaved' = FALSE /\ changed' = FALSE

Init ==
    /\ remote = [r \in Remotes |-> [b \in Branches |->
                    IF r # Origin /\ b # Main THEN Absent ELSE Root]]
    /\ kind \in Starts
    /\ local = [b \in Branches |-> IF kind = "absent" THEN {} ELSE {Root}]
    /\ seen = [r \in Remotes |-> [b \in Branches |->
                    IF kind = "absent" \/ r # Origin THEN Absent ELSE Root]]
    /\ tracked = [r \in Remotes |-> [b \in Branches |->
                    kind = "jj" /\ r = Origin]]
    /\ at = Fresh(Root) /\ saves = {} /\ harvest = {} /\ next = 2
    /\ pc = "idle" /\ opt = NoRun /\ before = NoRun /\ left = {} /\ todo = {}
    /\ saving = {} /\ selectedSaved = FALSE /\ changed = FALSE /\ quiet = NoRun
    /\ runs = 0 /\ faults = 0

----------------------------------------------------------------------------
(* External: the remotes and the operator.                                 *)

(* A run reads a remote only when it clones or fetches.                    *)
Push(r, b) ==
    /\ pc \in {"idle", "fetch"}
    /\ \/ /\ next <= MaxChange /\ next' = next + 1
          /\ \E c \in {remote[r][b], Root} \ {Absent} :
                remote' = [remote EXCEPT ![r][b] = c \cup {next}]
       \/ /\ \E q \in Remotes : /\ remote[r][b] # remote[q][b]
                                /\ remote[r][b] \subseteq remote[q][b]
                                /\ remote' = [remote EXCEPT ![r][b] = remote[q][b]]
          /\ UNCHANGED next
    /\ quiet' = NoRun
    /\ UNCHANGED <<repo, pc, memory, changed, bounds>>

(* Until the next snapshot jj rewrites @, and what points at it moves too. *)
Edit ==
    /\ pc = "idle" /\ kind # "absent" /\ next <= MaxChange
    /\ next' = next + 1
    /\ at' = [at EXCEPT !.own = @ \cup {next}]
    /\ LET Moved(cs) == {IF IsAt(c) THEN c \cup {next} ELSE c : c \in cs} IN
          /\ local' = [b \in Branches |-> Moved(local[b])]
          /\ saves' = Moved(saves)
    /\ quiet' = NoRun
    /\ UNCHANGED <<remote, kind, seen, tracked, harvest, pc, memory, changed,
                   bounds>>

(* `jj new`: on top of the work, or of another commit once it is committed.*)
New ==
    /\ pc = "idle" /\ kind # "absent"
    /\ \E c \in {CommitOf(at)} \cup
                (IF at.own # {} THEN {}
                 ELSE (UNION {local[b] : b \in Branches})
                      \cup ({seen[r][b] : r \in Remotes, b \in Branches}
                            \ {Absent})) :
          at # Fresh(c) /\ at' = Fresh(c)
    /\ quiet' = NoRun
    /\ UNCHANGED <<remote, kind, marks, next, pc, memory, changed, bounds>>

(* `jj bookmark set`, on @ or on its parent; in plain Git, on HEAD.        *)
SetLocal(b) ==
    /\ pc = "idle" /\ kind # "absent"
    /\ kind = "git" => at.own = {}
    /\ at.own # {} \/ Cardinality(at.parents) = 1
    /\ local[b] # {CommitOf(at)}
    /\ local' = [local EXCEPT ![b] = {CommitOf(at)}]
    /\ quiet' = NoRun
    /\ UNCHANGED <<remote, kind, seen, tracked, at, saves, harvest, next, pc,
                   memory, changed, bounds>>

----------------------------------------------------------------------------
(* The run.                                                                *)

(* An absent archive is cloned, a Git checkout adopted: then the snapshot. *)
Begin ==
    /\ pc = "idle" /\ runs < MaxRuns /\ runs' = runs + 1
    /\ opt' \in Options
    /\ kind' = "jj" /\ changed' = (kind # "jj")
    /\ IF kind = "absent"
       THEN LET r == opt'.selected IN
            /\ remote[r][Main] # Absent
            /\ local' = [local EXCEPT ![Main] = {remote[r][Main]}]
            /\ seen' = [seen EXCEPT ![r] = remote[r]]
            /\ tracked' = [tracked EXCEPT ![r][Main] = TRUE]
            /\ at' = Fresh(remote[r][Main])
       ELSE UNCHANGED <<local, seen, tracked, at>>
    /\ UNCHANGED <<remote, saves, harvest, next, left, todo, saving,
                   selectedSaved, quiet, faults>>
    /\ before' = Snapshot' /\ pc' = "harvest"

SkipUpdate ==
    /\ pc = "harvest" /\ ~opt.update
    /\ pc' = "done"
    /\ UNCHANGED <<remote, repo, next, memory, changed, quiet, bounds>>

(* Mutant of Covered: a bookmark near @ is taken for a copy of it.         *)
CoveredByTip ==
    at \in harvest \/ at.parents \subseteq UNION {local[b] : b \in Branches}

(* Mutant of Covered: a copy is never recognised.                          *)
CoveredNever == FALSE

(* recoveryCovered: a recovery bookmark of the same parents and content.   *)
Covered == at \in harvest

(* Mutant of HarvestWork: an empty @ is copied too.                        *)
HarvestEmpty ==
    /\ pc = "harvest" /\ opt.update
    /\ IF Covered
       THEN UNCHANGED <<harvest, changed>>
       ELSE harvest' = harvest \cup {at} /\ changed' = TRUE
    /\ pc' = "untrack"
    /\ UNCHANGED <<remote, kind, local, seen, tracked, at, saves, next,
                   memory, quiet, bounds>>

HarvestWork ==
    /\ pc = "harvest" /\ opt.update
    /\ IF at.own = {} \/ Covered
       THEN UNCHANGED <<harvest, changed>>
       ELSE harvest' = harvest \cup {at} /\ changed' = TRUE
    /\ pc' = "untrack"
    /\ UNCHANGED <<remote, kind, local, seen, tracked, at, saves, next,
                   memory, quiet, bounds>>

Untracks(r, b) ==
    /\ before.tracked[r][b]
    /\ \/ opt.untrack = "all"
       \/ opt.untrack = "selected" /\ r = opt.selected /\ b = Main

Untrack(r, b) ==
    /\ pc = "untrack" /\ Untracks(r, b) /\ tracked[r][b]
    /\ tracked' = [tracked EXCEPT ![r][b] = FALSE] /\ changed' = TRUE
    /\ UNCHANGED <<remote, kind, local, seen, at, saves, harvest, next, pc,
                   memory, quiet, bounds>>

Untracked ==
    /\ pc = "untrack"
    /\ \A r \in Remotes, b \in Branches : Untracks(r, b) => ~tracked[r][b]
    /\ left' = IF opt.scope = "all" THEN Remotes ELSE {opt.selected}
    /\ pc' = "fetch"
    /\ UNCHANGED <<remote, repo, next, opt, before, todo, saving,
                   selectedSaved, changed, quiet, bounds>>

(* One `jj git fetch`: every branch, or the selected one.                  *)
Fetch(r) ==
    /\ pc = "fetch" /\ r \in left /\ left' = left \ {r}
    /\ LET Fetched == IF opt.scope = "all" THEN Branches ELSE {Main} IN
          /\ seen' = [seen EXCEPT ![r] = [b \in Branches |->
                        IF b \in Fetched THEN remote[r][b] ELSE @[b]]]
          /\ local' = [b \in Branches |->
                        IF b \in Fetched /\ tracked[r][b]
                        THEN Imported(local[b], seen[r][b], remote[r][b])
                        ELSE local[b]]
    /\ UNCHANGED <<remote, kind, tracked, at, saves, harvest, next, pc, opt,
                   before, todo, saving, selectedSaved, changed, quiet, bounds>>

----------------------------------------------------------------------------
Upstream == seen[opt.selected][Main]

(* The bookmark tracked r before this fetch and its tip diverged from what *)
(* the fetch brought (refresh.ts:225-249).                                 *)
Diverged(r, b) ==
    /\ before.tracked[r][b]
    /\ opt.scope = "selected" => r = opt.selected /\ b = Main
    /\ Cardinality(before.local[b]) = 1 /\ seen[r][b] # Absent
    /\ seen[r][b] # before.seen[r][b]
    /\ \A l \in before.local[b] : /\ l # before.seen[r][b]
                                  /\ ~(l \subseteq seen[r][b])
                                  /\ ~(seen[r][b] \subseteq l)

(* Mutant of OnlyTracked: other remotes are not looked at.                 *)
OnlyTrackedHere(b) == \E r \in Remotes : before.tracked[r][b]

OnlyTracked(b) == Cardinality({r \in Remotes : before.tracked[r][b]}) = 1

(* A branch tracked on several remotes, or --no-save-displaced, is left.   *)
Displaced ==
    {rb \in Remotes \X Branches :
        Diverged(rb[1], rb[2]) /\ OnlyTracked(rb[2]) /\ opt.save}

ReadAfter ==
    /\ pc = "fetch" /\ left = {} /\ Upstream # Absent
    /\ changed' = (changed \/ <<seen, tracked>> # <<before.seen, before.tracked>>)
    /\ todo' = Displaced /\ pc' = "save"
    /\ UNCHANGED <<remote, repo, next, opt, before, left, saving,
                   selectedSaved, quiet, bounds>>

(* saveDisplacedTip, then `bookmark set -B`: two commands.                 *)

(* Mutant of Save: the bookmark is created where the branch is going.      *)
SaveUpstream(r, b) ==
    /\ pc = "save" /\ <<r, b>> \in todo
    /\ saves' = saves \cup {seen[r][b]}
    /\ saving' = {<<r, b>>} /\ todo' = todo \ saving' /\ pc' = "set"
    /\ UNCHANGED <<remote, kind, local, seen, tracked, at, harvest, next, opt,
                   before, left, selectedSaved, changed, quiet, bounds>>

Save(r, b) ==
    /\ pc = "save" /\ <<r, b>> \in todo
    /\ saves' = saves \cup before.local[b]
    /\ saving' = {<<r, b>>} /\ todo' = todo \ saving' /\ pc' = "set"
    /\ UNCHANGED <<remote, kind, local, seen, tracked, at, harvest, next, opt,
                   before, left, selectedSaved, changed, quiet, bounds>>

SetDisplaced(r, b) ==
    /\ pc = "set" /\ saving = {<<r, b>>}
    /\ local' = [local EXCEPT ![b] = {seen[r][b]}]
    /\ selectedSaved' = (selectedSaved \/ (b = Main /\ r = opt.selected))
    /\ saving' = {} /\ pc' = "save" /\ changed' = TRUE
    /\ UNCHANGED <<remote, kind, seen, tracked, at, saves, harvest, next, opt,
                   before, left, todo, quiet, bounds>>

----------------------------------------------------------------------------
OldBase == before.local[Main]

Conflicted == Cardinality(OldBase) > 1 \/ Cardinality(local[Main]) > 1

(* Mutant of Behind: only a missing base is set.                           *)
BehindIfMissing == local[Main] = {}

(* The selected base is set unless it is there, or ahead.                  *)
Behind == \A l \in local[Main] : ~(Upstream \subseteq l)

(* Mutant of Refused: the base is always moved.                            *)
RefusedNever == FALSE

(* --no-save-displaced refuses to move a base with work of its own.        *)
Refused ==
    /\ Behind /\ OldBase # {} /\ ~opt.save
    /\ \E l \in local[Main] : ~(l \subseteq Upstream)

SetBase ==
    /\ pc = "save" /\ todo = {} /\ ~Conflicted /\ ~Refused
    /\ IF Behind
       THEN local' = [local EXCEPT ![Main] = {Upstream}] /\ changed' = TRUE
       ELSE UNCHANGED <<local, changed>>
    /\ pc' = "track"
    /\ UNCHANGED <<remote, kind, seen, tracked, at, saves, harvest, next,
                   memory, quiet, bounds>>

Track ==
    /\ pc = "track"
    /\ IF opt.untrack = "none" /\ ~tracked[opt.selected][Main]
       THEN /\ tracked' = [tracked EXCEPT ![opt.selected][Main] = TRUE]
            /\ local' = [local EXCEPT ![Main] = Imported(@, Absent, Upstream)]
       ELSE UNCHANGED <<tracked, local>>
    /\ pc' = "advance"
    /\ UNCHANGED <<remote, kind, seen, at, saves, harvest, next, memory,
                   changed, quiet, bounds>>

(* Mutant of FastForwards: whatever @ stands on.                           *)
FastForwardsAlways == at.own = {} /\ \A l \in OldBase : l \subseteq Upstream

(* `rebase -r @`: an empty @ on the old base, which upstream contains.     *)
FastForwards == /\ at.own = {} /\ at.parents = OldBase
                /\ \A l \in OldBase : l \subseteq Upstream

(* The working copy: what refresh.ts:316-359 decides, first case first.    *)
Advanced ==
    LET FollowsRemote == /\ opt.follow /\ at.own = {}
                         /\ at.parents # {Upstream}
        AheadBaseIsAt == /\ \E l \in OldBase : IsAt(l) /\ l # Upstream
                         /\ Upstream \subseteq CommitOf(at)
        UpToDate == Upstream \subseteq CommitOf(at)
    IN  CASE FollowsRemote -> Fresh(Upstream)
          [] ~FollowsRemote /\ AheadBaseIsAt -> Fresh(CommitOf(at))
          [] ~FollowsRemote /\ ~AheadBaseIsAt /\ UpToDate -> at
          [] OTHER ->
                IF selectedSaved THEN Fresh(Upstream)
                ELSE [parents |-> local[Main] \cup
                                  (IF FastForwards THEN {} ELSE {CommitOf(at)}),
                      own |-> {}]

(* Mutant of Advance: only upstream's movement is reported.                *)
AdvanceSilently ==
    /\ pc = "advance"
    /\ at' = Advanced
    /\ changed' = (changed \/ before.seen[opt.selected][Main] # Upstream)
    /\ pc' = "done"
    /\ UNCHANGED <<remote, kind, marks, next, memory, quiet, bounds>>

Advance ==
    /\ pc = "advance"
    /\ at' = Advanced
    /\ changed' = (changed \/ at' # at
                   \/ before.seen[opt.selected][Main] # Upstream)
    /\ pc' = "done"
    /\ UNCHANGED <<remote, kind, marks, next, memory, quiet, bounds>>

(* Whether the remotes still are what this run fetched.                    *)
Current == \A r \in Remotes, b \in Branches :
              opt.scope = "all" \/ (r = opt.selected /\ b = Main)
                => seen[r][b] = remote[r][b]

Return ==
    /\ pc = "done" /\ Idle
    /\ quiet' = IF Current THEN opt ELSE NoRun
    /\ UNCHANGED <<remote, repo, next, bounds>>

(* The errors refreshArchive throws itself.                                *)
Throw ==
    /\ \/ pc = "fetch" /\ left = {} /\ Upstream = Absent
       \/ pc = "save" /\ todo = {} /\ (Conflicted \/ Refused)
    /\ quiet' = NoRun /\ Idle
    /\ UNCHANGED <<remote, repo, next, bounds>>

(* A jj command fails before its effect, or the process is killed.         *)
Abort ==
    /\ pc \notin {"idle", "done"} /\ faults < MaxFaults /\ faults' = faults + 1
    /\ quiet' = NoRun /\ Idle
    /\ UNCHANGED <<remote, repo, next, runs>>

----------------------------------------------------------------------------
Operator == Edit \/ New \/ \E b \in Branches : SetLocal(b)

Outside == Operator \/ \E r \in Remotes, b \in Branches : Push(r, b)

Run ==
    \/ SkipUpdate \/ HarvestWork \/ Untracked \/ ReadAfter
    \/ SetBase \/ Track \/ Advance \/ Return \/ Throw
    \/ \E r \in Remotes : Fetch(r)
    \/ \E r \in Remotes, b \in Branches :
          Untrack(r, b) \/ Save(r, b) \/ SetDisplaced(r, b)

Next == Outside \/ Begin \/ Run \/ Abort

Spec == Init /\ [][Next]_vars
=============================================================================
