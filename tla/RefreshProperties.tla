------------------------- MODULE RefreshProperties -------------------------
(***************************************************************************)
(* What `refresh` promises about local work (archive/README.md,            *)
(* design/repo-jj-archive/draft0.gpt6sol.md), about the state it leaves    *)
(* and about what it reports.                                              *)
(***************************************************************************)
EXTENDS Refresh

Change == 1 .. MaxChange
Commits == SUBSET Change
Copies == [parents : SUBSET Commits, own : Commits]

Bookmarks == [Branches -> SUBSET Commits]
RemoteBookmarks == [Remotes -> [Branches -> Commits]]
Tracking == [Remotes -> [Branches -> BOOLEAN]]

Snapshots == [local : Bookmarks, seen : RemoteBookmarks, tracked : Tracking,
              saves : SUBSET Commits, harvest : SUBSET Copies, at : Copies]

(* Every variable has its type; a run has its options and what it read     *)
(* first, and a copy of @ is never of an empty one.                        *)
TypeOK ==
    /\ remote \in RemoteBookmarks /\ kind \in {"absent", "git", "jj"}
    /\ local \in Bookmarks /\ seen \in RemoteBookmarks /\ tracked \in Tracking
    /\ at \in Copies /\ at.parents # {}
    /\ saves \subseteq Commits
    /\ harvest \subseteq Copies /\ \A w \in harvest : w.own # {}
    /\ next \in 2 .. MaxChange + 1
    /\ pc \in {"idle", "harvest", "untrack", "fetch", "save", "set", "track",
               "advance", "done"}
    /\ IF pc = "idle" THEN opt = NoRun /\ before = NoRun
                      ELSE opt \in Options /\ before \in Snapshots
    /\ todo \subseteq Remotes \X Branches /\ left \subseteq Remotes
    /\ saving \subseteq Remotes \X Branches
    /\ selectedSaved \in BOOLEAN /\ changed \in BOOLEAN
    /\ quiet \in Options \cup {NoRun}
    /\ runs \in 0 .. MaxRuns /\ faults \in 0 .. MaxFaults

----------------------------------------------------------------------------
(* Local work.                                                             *)

Pins == (UNION {local[b] : b \in Branches}) \cup saves
        \cup {CommitOf(w) : w \in harvest}
        \cup {seen[r][b] : r \in Remotes, b \in Branches}

Kept(c) == \E d \in Pins : c \subseteq d

LocalOnly(c) == \A r \in Remotes, b \in Branches : ~(c \subseteq seen[r][b])

LocalTips == UNION {local[b] : b \in Branches}

(* "If a locally moved bookmark diverges from upstream, the old local tip  *)
(* is saved before the local bookmark is set to upstream"                  *)
(* (archive/README.md:100): a run never takes the last bookmark from a     *)
(* tip with commits no remote has.  The code does (refresh.ts:300).        *)
SavedTips ==
    [][pc # "idle" => \A c \in LocalTips : LocalOnly(c) => Kept(c)']_vars

(* The same with what the code leaves out named: the selected base, set to *)
(* upstream although its tip was not one to be saved: it was not tracked,  *)
(* upstream has not moved, or several remotes were tracked.  Every other   *)
(* tip survives every step, kills and failures between any two commands    *)
(* included.                                                               *)
UnwatchedBase(c) ==
    /\ pc = "save" /\ pc' = "track" /\ c \in local[Main]
    /\ ~\E r \in Remotes : Diverged(r, Main) /\ OnlyTracked(Main)

TipsKept ==
    [][pc # "idle" => \A c \in LocalTips :
                        LocalOnly(c) => Kept(c)' \/ UnwatchedBase(c)]_vars

(* What was not committed yet stays in the checkout or in a bookmark,      *)
(* whatever the run does to @ (harvest before anything else).              *)
EditsKept ==
    [][pc # "idle" => at.own \subseteq UNION (Pins' \cup {CommitOf(at')})]_vars

(* A run that neither displaced the selected tip nor was told to follow a  *)
(* remote only adds to the checkout: it fast-forwards or merges.           *)
Merges ==
    [][(pc = "advance" /\ ~selectedSaved /\ ~opt.follow)
        => CommitOf(at) \subseteq CommitOf(at')]_vars

(* "A branch already conflicted before this fetch, or one tracking         *)
(* multiple remotes, requires manual resolution" (archive/README.md:102):  *)
(* only jj's own import touches such a branch while it is conflicted.      *)
Conflict(b) == Cardinality(local[b]) > 1

LeftToOperator(b) ==
    \/ Cardinality(before.local[b]) > 1
    \/ Cardinality({r \in Remotes : before.tracked[r][b]}) > 1

ManualResolution ==
    [][pc \notin {"idle", "fetch"} =>
        \A b \in Branches : Conflict(b) /\ LeftToOperator(b)
                                => local'[b] = local[b]]_vars

(* --no-save-displaced: no run takes a tip away from its own branch, not   *)
(* even to a saved name; it fails first.                                   *)
NothingDisplaced ==
    [][(pc # "idle" /\ ~opt.save) =>
        \A b \in Branches : \A c \in local[b] :
            LocalOnly(c) => \E d \in local'[b] : c \subseteq d]_vars

----------------------------------------------------------------------------
(* The state it leaves and what it reports.                                *)

(* A run that succeeds has brought upstream into the checkout and into the *)
(* selected branch, whatever state an earlier run was killed in.           *)
Converges ==
    pc = "done" /\ opt.update =>
        /\ Upstream \subseteq CommitOf(at)
        /\ ~Conflict(Main) /\ \A l \in local[Main] : Upstream \subseteq l

(* A run repeated with nothing new reports no change                       *)
(* (tests/integration/repo_jj_archive.test.py:113), unless it was told to  *)
(* follow a remote, which RepeatKeepsWork is about.                        *)
Idempotent == pc = "done" /\ quiet = opt /\ ~opt.follow => ~changed

(* A repeated run takes nothing out of the checkout that the run before it *)
(* left there ("Keep local work available in the worktree",                *)
(* draft0.gpt6sol.md:14).  With branch@remote the code does                *)
(* (refresh.ts:321): the run before left @ empty on top of the work, and   *)
(* an empty @ not on upstream itself is replaced.                          *)
RepeatKeepsWork ==
    [][(pc = "advance" /\ quiet = opt)
        => CommitOf(at) \subseteq CommitOf(at')]_vars

(* A run that reports no change has changed no bookmark's target and not   *)
(* the checkout.                                                           *)
HonestReport ==
    pc = "done" /\ ~changed =>
        [Snapshot EXCEPT !.tracked = before.tracked] = before
=============================================================================
