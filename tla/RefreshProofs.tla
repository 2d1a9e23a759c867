---------------------------- MODULE RefreshProofs ---------------------------
(***************************************************************************)
(* The properties of Refresh for every set of remotes, branches and        *)
(* options and any number of changes, runs and failures.  What refresh.ts  *)
(* relies on without saying so is IInv: by each command, how the bookmarks *)
(* and @ it reads then relate to those it read before its first command,   *)
(* and what a success leaves behind for the run after it.                  *)
(***************************************************************************)
EXTENDS RefreshProperties, FiniteSetTheorems, TLAPS

Fetching == {"fetch", "save", "set", "track", "advance"}
Fetched == Fetching \ {"fetch"}

(* Where a change comes from: none of those in @ itself is in a remote.    *)
Authored ==
    /\ \A r \in Remotes, b \in Branches :
          /\ remote[r][b] \subseteq 1 .. next - 1
          /\ seen[r][b] \subseteq 1 .. next - 1
          /\ at.own \cap (remote[r][b] \cup seen[r][b]) = {}
    /\ at.own \subseteq 2 .. next - 1

(* What was read first is what is there until a command changes it.        *)
Remembered ==
    /\ pc # "idle" => kind = "jj"
    /\ pc \notin {"idle", "done"} => at = before.at
    /\ pc \in {"harvest", "untrack"} => /\ local = before.local
                                        /\ seen = before.seen
    /\ pc \in {"harvest", "untrack", "fetch"} => saves = before.saves
    /\ pc \in {"untrack"} \cup Fetching =>
          /\ opt.update
          /\ at.own = {} \/ at \in harvest

(* A local tip was there before, or a fetch of this run brought it.        *)
TipsFrom ==
    /\ pc = "fetch" =>
          /\ opt.scope # "all" => left \subseteq {opt.selected}
          /\ \A r \in left : seen[r] = before.seen[r]
          /\ \A b \in Branches : local[b] # before.local[b] =>
                \E r \in Remotes : seen[r][b] # before.seen[r][b]
    /\ pc \in Fetched => left = {}
    /\ pc \in Fetching =>
          \A b \in Branches : \A c \in local[b] :
             \/ c \in before.local[b]
             \/ \E r \in Remotes \ left : c = seen[r][b]

(* A displaced tip not to be saved any more is saved.                      *)
Displacing ==
    /\ pc \in {"save", "set"} =>
          /\ Upstream # Absent /\ todo \cup saving \subseteq Displaced
          /\ todo \cap saving = {}
          /\ \A rb \in Displaced \ todo : before.local[rb[2]] \subseteq saves
    /\ pc # "set" => saving = {}

(* The selected branch is one tip with upstream in it.                     *)
Based ==
    /\ Upstream # Absent
    /\ \E l \in local[Main] : local[Main] = {l} /\ Upstream \subseteq l

Unchanged ==
    /\ pc # "idle" /\ ~changed => harvest = before.harvest
    /\ pc \in Fetched /\ ~changed =>
          seen = before.seen /\ local = before.local /\ saves = before.saves

----------------------------------------------------------------------------
(* What a success with options o leaves: nothing a run with the same       *)
(* options would change.                                                   *)
UntracksFor(o, r, b) ==
    \/ o.untrack = "all"
    \/ o.untrack = "selected" /\ r = o.selected /\ b = Main

CurrentFor(o) == \A r \in Remotes, b \in Branches :
                    o.scope = "all" \/ (r = o.selected /\ b = Main)
                        => seen[r][b] = remote[r][b]

TrackedFor(o) ==
    /\ \A r \in Remotes, b \in Branches : UntracksFor(o, r, b) => ~tracked[r][b]
    /\ o.untrack = "none" => tracked[o.selected][Main]

Finished(o) ==
    /\ kind = "jj"
    /\ o.update =>
          LET up == seen[o.selected][Main] IN
          /\ up # Absent /\ up \subseteq CommitOf(at)
          /\ \E l \in local[Main] : local[Main] = {l} /\ up \subseteq l
          /\ \A l \in local[Main] : IsAt(l) => l = up
          /\ at.own = {} \/ at \in harvest
          /\ TrackedFor(o)

(* What a run tracks of what it was to untrack: nothing.                  *)
Untracking ==
    /\ pc \in {"harvest", "untrack"} =>
          \A r \in Remotes, b \in Branches : tracked[r][b] => before.tracked[r][b]
    /\ pc \in Fetching =>
          \A r \in Remotes, b \in Branches : UntracksFor(opt, r, b) => ~tracked[r][b]
    /\ pc = "advance" => TrackedFor(opt)

(* A run on what a run with the same options left.                         *)
Repeating ==
    /\ pc \notin {"idle", "done"} =>
          /\ CurrentFor(opt) /\ Finished(opt) /\ ~changed
          /\ local = before.local /\ seen = before.seen
          /\ tracked = before.tracked
    /\ pc = "done" /\ ~opt.follow => ~changed

Settled ==
    /\ pc = "idle" /\ quiet # NoRun => Finished(quiet) /\ CurrentFor(quiet)
    /\ pc # "idle" /\ quiet = opt => Repeating
    /\ pc = "done" => Finished(opt)

IInv ==
    /\ TypeOK /\ Authored /\ Remembered /\ TipsFrom /\ Displacing
    /\ pc \in {"track", "advance"} => Based
    /\ Unchanged /\ Untracking /\ Settled
    /\ Converges /\ HonestReport
----------------------------------------------------------------------------
(* Sets of commits.                                                        *)

LEMMA CommitsFinite ==
    ASSUME NEW T \in SUBSET Commits
    PROVE  IsFiniteSet(T) /\ Cardinality(T) \in Nat
<1>1. IsFiniteSet(Change)
  BY FS_Interval, RefreshAssumption DEF Change
<1>2. IsFiniteSet(Commits)
  BY <1>1, FS_SUBSET DEF Commits
<1> QED BY <1>2, FS_Subset, FS_CardinalityType

LEMMA Targets ==
    ASSUME NEW T \in SUBSET Commits
    PROVE  /\ Cardinality(T) = 1 <=> \E t \in Commits : T = {t}
           /\ ~(Cardinality(T) > 1) <=> T = {} \/ \E t \in Commits : T = {t}
<1>1. IsFiniteSet(T) /\ Cardinality(T) \in Nat
  BY CommitsFinite
<1>2. Cardinality(T) = 0 <=> T = {}
  BY <1>1, FS_EmptySet
<1>3. Cardinality(T) = 1 <=> \E t : T = {t}
  BY <1>1, FS_Singleton
<1>4. (\E t : T = {t}) <=> \E t \in Commits : T = {t}
  OBVIOUS
<1> QED BY <1>1, <1>2, <1>3, <1>4

(* jj's import brings in nothing but the new tip, and what it takes away   *)
(* was in the old one or is in the new one.                                *)
LEMMA ImportedFrom ==
    ASSUME NEW T \in SUBSET Commits, NEW old \in Commits, NEW new \in Commits
    PROVE  /\ Imported(T, old, new) \subseteq T \cup {new}
           /\ \A c \in T : ~(c \subseteq old) =>
                 \E d \in Imported(T, old, new) : c \subseteq d
           /\ old = new => Imported(T, old, new) = T
<1>1. CASE old = new
  <2>1. Imported(T, old, new) = T
    BY <1>1 DEF Imported
  <2> QED BY <2>1
<1>2. CASE old # new /\ Cardinality(T) > 1
  BY <1>2 DEF Imported
<1>3. CASE old # new /\ T = {}
  BY <1>3 DEF Imported
<1>4. CASE old # new /\ ~(Cardinality(T) > 1) /\ T # {}
  <2>1. PICK t \in Commits : T = {t}
    BY <1>4, Targets
  <2>2. (CHOOSE u \in T : TRUE) = t
    BY <2>1
  <2>3. Imported(T, old, new) =
          IF t = old \/ (old \subseteq t /\ t \subseteq new) THEN {new}
          ELSE IF old \subseteq new /\ new \subseteq t THEN {t}
          ELSE {t, new}
    BY <1>4, <2>2 DEF Imported
  <2> QED BY <1>4, <2>1, <2>3
<1> QED BY <1>1, <1>2, <1>3, <1>4

(* A branch with upstream in it does not notice that it is tracked.        *)
LEMMA ImportedAhead ==
    ASSUME NEW l \in Commits, NEW up \in Commits, up # {}, up \subseteq l
    PROVE  Imported({l}, Absent, up) = {l}
<1>1. ~(Cardinality({l}) > 1)
  BY Targets
<1>2. (CHOOSE u \in {l} : TRUE) = l
  OBVIOUS
<1> QED BY <1>1, <1>2 DEF Imported, Absent
----------------------------------------------------------------------------
(* The invariant, action by action: the remotes and the operator first.    *)

LEMMA OptionsTyped ==
    ASSUME NEW o \in Options
    PROVE  /\ o \in AllOptions /\ o # NoRun
           /\ o.selected \in Remotes
  BY RefreshAssumption DEF AllOptions

LEMMA InitIInv == Init => IInv
<1> SUFFICES ASSUME Init PROVE IInv
  OBVIOUS
<1> USE RefreshAssumption DEF Init
<1>0. 1 \in Change /\ Root \in Commits /\ Absent \in Commits
  BY DEF Change, Commits, Root, Absent
<1>1. TypeOK
  <2>1. local \in Bookmarks
    BY <1>0 DEF Bookmarks
  <2>2. remote \in RemoteBookmarks /\ seen \in RemoteBookmarks
    BY <1>0 DEF RemoteBookmarks
  <2>3. tracked \in Tracking
    BY DEF Tracking
  <2>4. at \in Copies /\ at.parents # {}
    BY <1>0 DEF Copies, Fresh, Commits
  <2>5. /\ kind \in {"absent", "git", "jj"} /\ next \in 2 .. MaxChange + 1
        /\ pc = "idle" /\ opt = NoRun /\ before = NoRun /\ quiet = NoRun
        /\ runs \in 0 .. MaxRuns /\ faults \in 0 .. MaxFaults
        /\ changed = FALSE /\ selectedSaved = FALSE
        /\ saves = {} /\ harvest = {} /\ todo = {} /\ saving = {} /\ left = {}
    OBVIOUS
  <2> HIDE DEF Init
  <2> QED
    BY <2>1, <2>2, <2>3, <2>4, <2>5 DEF TypeOK
<1>2. Authored
  BY DEF Authored, Fresh, Root, Absent
<1> QED
  BY <1>1, <1>2 DEF IInv, Remembered, TipsFrom, Displacing, Unchanged,
     Untracking, Settled, Converges, HonestReport, Fetching, Fetched

LEMMA PushKeeps ==
    ASSUME IInv, NEW r \in Remotes, NEW b \in Branches, Push(r, b)
    PROVE  IInv'
<1> USE DEF IInv, Push, repo, marks, memory, bounds
<1>1. remote' \in RemoteBookmarks /\ next' \in 2 .. MaxChange + 1
  <2>1. CASE \E c \in {remote[r][b], Root} \ {Absent} :
                /\ remote' = [remote EXCEPT ![r][b] = c \cup {next}]
                /\ next <= MaxChange /\ next' = next + 1
    <3>1. PICK c \in {remote[r][b], Root} :
             remote' = [remote EXCEPT ![r][b] = c \cup {next}]
      BY <2>1
    <3>2. c \in Commits /\ c \cup {next} \in Commits
      BY <2>1, RefreshAssumption
         DEF TypeOK, RemoteBookmarks, Commits, Change, Root
    <3>3. remote' \in RemoteBookmarks
      BY <3>1, <3>2 DEF TypeOK, RemoteBookmarks
    <3> QED BY <2>1, <3>3, RefreshAssumption DEF TypeOK
  <2>2. CASE /\ \E q \in Remotes : remote' = [remote EXCEPT ![r][b] = remote[q][b]]
             /\ next' = next
    BY <2>2 DEF TypeOK, RemoteBookmarks
  <2> QED BY <2>1, <2>2
<1>2. TypeOK'
  BY <1>1, RefreshAssumption DEF TypeOK
<1>3. Authored'
  <2> SUFFICES ASSUME NEW q \in Remotes, NEW d \in Branches
               PROVE  /\ remote'[q][d] \subseteq 1 .. next' - 1
                      /\ at.own \cap remote'[q][d] = {}
                      /\ next' \in Nat /\ next \in Nat /\ next <= next'
    BY <1>1 DEF Authored
  <2>1. CASE \E c \in {remote[r][b], Root} \ {Absent} :
                /\ remote' = [remote EXCEPT ![r][b] = c \cup {next}]
                /\ next' = next + 1
    BY <2>1 DEF Authored, TypeOK, RemoteBookmarks, Root
  <2>2. CASE /\ \E s \in Remotes : remote' = [remote EXCEPT ![r][b] = remote[s][b]]
             /\ next' = next
    BY <2>2 DEF Authored, TypeOK, RemoteBookmarks
  <2> QED BY <2>1, <2>2
<1>4. (Remembered /\ TipsFrom /\ Displacing /\ Unchanged /\ Untracking)'
  BY DEF Remembered, TipsFrom, Displacing, Unchanged, Untracking, Upstream,
         Displaced, Diverged, OnlyTracked, TrackedFor, UntracksFor
<1>5. (pc \in {"track", "advance"} => Based)' /\ Converges' /\ HonestReport'
  BY DEF Based, Converges, HonestReport, Upstream
<1>6. Settled'
  BY OptionsTyped DEF Settled, TypeOK
<1> QED BY <1>2, <1>3, <1>4, <1>5, <1>6

(* Between two runs only the last success matters.                         *)
LEMMA AtRest ==
    ASSUME TypeOK', Authored', pc' = "idle", saving' = {},
           quiet' = NoRun \/ (Finished(quiet) /\ CurrentFor(quiet))'
    PROVE  IInv'
<1>1. ~(pc' # "idle") /\ pc' \notin {"untrack", "harvest", "done"} \cup Fetching
  BY DEF Fetching
<1>2. (Remembered /\ TipsFrom /\ Displacing /\ Unchanged /\ Untracking)'
  BY <1>1 DEF Remembered, TipsFrom, Displacing, Unchanged, Untracking,
              Fetching, Fetched
<1>3. (pc \in {"track", "advance"} => Based)' /\ Converges' /\ HonestReport'
  BY <1>1 DEF Converges, HonestReport, Fetching
<1>4. Settled'
  BY <1>1 DEF Settled
<1> QED BY <1>2, <1>3, <1>4 DEF IInv

LEMMA CommitTyped ==
    ASSUME NEW w \in Copies
    PROVE  CommitOf(w) \in Commits
  BY DEF CommitOf, Copies, Commits

LEMMA TrackingTyped ==
    ASSUME NEW t \in Tracking, NEW r \in Remotes, NEW b \in Branches,
           NEW v \in BOOLEAN
    PROVE  [t EXCEPT ![r][b] = v] \in Tracking
<1>1. [t[r] EXCEPT ![b] = v] \in [Branches -> BOOLEAN]
  BY DEF Tracking
<1> QED BY <1>1 DEF Tracking

LEMMA FreshTyped ==
    ASSUME NEW c \in Commits
    PROVE  /\ Fresh(c) \in Copies /\ Fresh(c).parents # {}
           /\ Fresh(c).own = {} /\ CommitOf(Fresh(c)) = c
  BY DEF Fresh, Copies, Commits, CommitOf

LEMMA OperatorKeeps ==
    ASSUME IInv, Operator
    PROVE  IInv'
<1> USE DEF IInv, marks, memory, bounds
<1>1. CASE Edit
  <2> USE <1>1 DEF Edit
  <2>1. next \in Change /\ next' \in 2 .. MaxChange + 1
    BY RefreshAssumption DEF TypeOK, Change
  <2>2. at' \in Copies /\ at'.parents # {} /\ at'.own = at.own \cup {next}
    BY <2>1 DEF TypeOK, Copies, Commits
  <2>3. local' \in Bookmarks
    <3>1. \A c \in Commits : c \cup {next} \in Commits
      BY <2>1 DEF Commits
    <3> QED BY <3>1 DEF TypeOK, Bookmarks
  <2>4. saves' \subseteq Commits
    BY <2>1 DEF TypeOK, Commits
  <2>5. TypeOK'
    BY <2>1, <2>2, <2>3, <2>4 DEF TypeOK
  <2>6. Authored'
    BY <2>2 DEF Authored, TypeOK
  <2> QED BY <2>5, <2>6, AtRest DEF Displacing
<1>2. CASE New
  <2> USE <1>2 DEF New
  <2>1. PICK c \in {CommitOf(at)} \cup (UNION {local[b] : b \in Branches})
                   \cup {seen[r][b] : r \in Remotes, b \in Branches} :
           at' = Fresh(c)
    OBVIOUS
  <2>2. c \in Commits
    BY <2>1, CommitTyped DEF TypeOK, Bookmarks, RemoteBookmarks
  <2>3. at' \in Copies /\ at'.parents # {} /\ at'.own = {}
    BY <2>1, <2>2, FreshTyped
  <2>4. TypeOK' /\ Authored'
    BY <2>3 DEF TypeOK, Authored
  <2> QED BY <2>4, AtRest DEF Displacing
<1>3. ASSUME NEW b \in Branches, SetLocal(b) PROVE IInv'
  <2> USE <1>3 DEF SetLocal
  <2>1. local' \in Bookmarks
    BY CommitTyped DEF TypeOK, Bookmarks
  <2>2. TypeOK' /\ Authored'
    BY <2>1 DEF TypeOK, Authored
  <2> QED BY <2>2, AtRest DEF Displacing
<1> QED BY <1>1, <1>2, <1>3 DEF Operator

----------------------------------------------------------------------------
(* The start of a run, the copy of @ and the untracking.                   *)

LEMMA BeginKeeps == ASSUME IInv, Begin PROVE IInv'
<1> USE DEF IInv, Begin
<1>1. /\ opt' \in Options /\ opt'.selected \in Remotes /\ opt' # NoRun
      /\ Main \in Branches
  BY OptionsTyped, RefreshAssumption
<1>2. /\ local' \in Bookmarks /\ seen' \in RemoteBookmarks
      /\ tracked' \in Tracking /\ at' \in Copies /\ at'.parents # {}
  <2>1. CASE kind = "absent"
    <3>1. remote[opt'.selected][Main] \in Commits
      BY <1>1 DEF TypeOK, RemoteBookmarks
    <3>2. at' \in Copies /\ at'.parents # {}
      BY <2>1, <3>1, FreshTyped
    <3>3. local' \in Bookmarks
      BY <1>1, <2>1, <3>1 DEF TypeOK, Bookmarks
    <3>4. seen' \in RemoteBookmarks
      BY <1>1, <2>1 DEF TypeOK, RemoteBookmarks
    <3>5. tracked' \in Tracking
      <4>1. tracked' = [tracked EXCEPT ![opt'.selected][Main] = TRUE]
        BY <2>1
      <4>2. tracked \in Tracking
        BY DEF TypeOK
      <4> HIDE DEF IInv, Begin
      <4> QED BY <1>1, <4>1, <4>2, TrackingTyped
    <3> QED BY <3>2, <3>3, <3>4, <3>5
  <2>2. CASE kind # "absent"
    BY <2>2 DEF TypeOK
  <2> QED BY <2>1, <2>2
<1>3. /\ before' = [local |-> local', seen |-> seen', tracked |-> tracked',
                    saves |-> saves', harvest |-> harvest', at |-> at']
      /\ before' \in Snapshots
  BY <1>2 DEF Snapshot, Snapshots, TypeOK
<1>4. TypeOK'
  BY <1>1, <1>2, <1>3, RefreshAssumption DEF TypeOK
<1>5. Authored'
  <2>1. CASE kind = "absent"
    <3>1. at'.own = {} /\ at.own \subseteq 2 .. next - 1
      BY <1>1, <2>1 DEF Authored, Fresh
    <3> QED BY <1>1, <2>1, <3>1 DEF Authored, TypeOK, RemoteBookmarks
  <2>2. CASE kind # "absent"
    BY <2>2 DEF Authored
  <2> QED BY <2>1, <2>2
<1>6. (Remembered /\ TipsFrom /\ Displacing /\ Unchanged /\ Untracking)'
  BY <1>3 DEF Remembered, TipsFrom, Displacing, Unchanged, Untracking,
              Fetching, Fetched
<1>7. (pc \in {"track", "advance"} => Based)' /\ Converges' /\ HonestReport'
  BY DEF Converges, HonestReport
<1>8. Settled'
  <2>1. CASE quiet = opt'
    <3>1. Finished(quiet) /\ CurrentFor(quiet) /\ kind = "jj"
      BY <1>1, <2>1 DEF Settled, Finished
    <3>2. changed' = FALSE /\ UNCHANGED <<local, seen, tracked, at, kind>>
      BY <3>1
    <3>3. Finished(opt)' /\ CurrentFor(opt)'
      BY <2>1, <3>1, <3>2 DEF Finished, CurrentFor, TrackedFor, UntracksFor,
                              IsAt
    <3> QED BY <1>3, <3>2, <3>3 DEF Settled, Repeating
  <2>2. CASE quiet # opt'
    BY <2>2 DEF Settled
  <2> QED BY <2>1, <2>2
<1> QED BY <1>4, <1>5, <1>6, <1>7, <1>8

(* What Settled says is about these alone.                                 *)
LEMMA StaysSettled ==
    ASSUME Settled, pc' # "idle", pc \notin {"idle", "done"}, pc' # "done",
           UNCHANGED <<opt, quiet, kind, remote, at, before>>,
           quiet = opt =>
              UNCHANGED <<local, seen, tracked, harvest, changed>>
    PROVE  Settled'
<1>1. CASE quiet = opt
  <2>1. Repeating
    BY <1>1 DEF Settled
  <2> QED BY <1>1, <2>1 DEF Settled, Repeating, Finished, CurrentFor, TrackedFor,
             UntracksFor, IsAt
<1>2. CASE quiet # opt
  BY <1>2 DEF Settled
<1> QED BY <1>1, <1>2

LEMMA SkipKeeps == ASSUME IInv, SkipUpdate PROVE IInv'
<1> USE DEF IInv, SkipUpdate, repo, marks, memory, bounds
<1>1. TypeOK' /\ Authored'
  BY DEF TypeOK, Authored
<1>2. (Remembered /\ TipsFrom /\ Displacing /\ Unchanged /\ Untracking)'
  BY DEF Remembered, TipsFrom, Displacing, Unchanged, Untracking,
              Fetching, Fetched
<1>3. (pc \in {"track", "advance"} => Based)' /\ Converges'
  BY DEF Converges
<1>4. HonestReport'
  BY DEF HonestReport, Unchanged, Remembered, Snapshot, TypeOK, Snapshots
<1>5. Settled'
  <2>1. Finished(opt)'
    BY DEF Finished, Remembered
  <2> QED BY <2>1 DEF Settled, Repeating
<1> QED BY <1>1, <1>2, <1>3, <1>4, <1>5

LEMMA HarvestKeeps == ASSUME IInv, HarvestWork PROVE IInv'
<1> USE DEF IInv, HarvestWork, repo, marks, memory, bounds, Covered
<1>1. TypeOK' /\ Authored'
  BY DEF TypeOK, Authored
<1>2. (Remembered /\ TipsFrom /\ Displacing /\ Unchanged /\ Untracking)'
  BY DEF Remembered, TipsFrom, Displacing, Unchanged, Untracking,
              Fetching, Fetched
<1>3. (pc \in {"track", "advance"} => Based)' /\ Converges' /\ HonestReport'
  BY DEF Converges, HonestReport
<1>4. Settled'
  <2>1. quiet = opt => at.own = {} \/ at \in harvest
    BY DEF Settled, Repeating, Finished
  <2> QED BY <2>1, StaysSettled
<1> QED BY <1>1, <1>2, <1>3, <1>4

LEMMA UntrackKeeps ==
    ASSUME IInv, NEW r \in Remotes, NEW b \in Branches, Untrack(r, b)
    PROVE  IInv'
<1> USE DEF IInv, Untrack, repo, marks, memory, bounds, Untracks
<1>1. tracked' \in Tracking
  <2>1. tracked' = [tracked EXCEPT ![r][b] = FALSE] /\ tracked \in Tracking
    BY DEF TypeOK
  <2> HIDE DEF IInv, Untrack
  <2> QED BY <2>1, TrackingTyped
<1>2. TypeOK' /\ Authored'
  BY <1>1 DEF TypeOK, Authored
<1>3. (Remembered /\ TipsFrom /\ Displacing /\ Unchanged)'
  BY DEF Remembered, TipsFrom, Displacing, Unchanged, Fetching, Fetched
<1>4. Untracking'
  <2>1. \A q \in Remotes, d \in Branches : tracked'[q][d] => tracked[q][d]
    BY DEF TypeOK, Tracking
  <2> QED BY <2>1 DEF Untracking, Fetching
<1>5. (pc \in {"track", "advance"} => Based)' /\ Converges' /\ HonestReport'
  BY DEF Converges, HonestReport
<1>6. Settled'
  <2>1. opt.update /\ tracked[r][b] /\ UntracksFor(opt, r, b)
    BY DEF Remembered, UntracksFor
  <2>2. quiet = opt => TrackedFor(opt)
    BY <2>1 DEF Settled, Repeating, Finished
  <2>3. quiet # opt
    BY <2>1, <2>2 DEF TrackedFor
  <2> QED BY <2>3, StaysSettled
<1> QED BY <1>2, <1>3, <1>4, <1>5, <1>6

LEMMA UntrackedKeeps == ASSUME IInv, Untracked PROVE IInv'
<1> USE DEF IInv, Untracked, repo, marks, memory, bounds
<1>1. TypeOK' /\ Authored'
  BY OptionsTyped DEF TypeOK, Authored
<1>2. (Remembered /\ TipsFrom /\ Displacing /\ Unchanged)'
  BY DEF Remembered, TipsFrom, Displacing, Unchanged, Fetching, Fetched
<1>3. Untracking'
  BY DEF Untracking, Untracks, UntracksFor, Fetching
<1>4. (pc \in {"track", "advance"} => Based)' /\ Converges' /\ HonestReport'
  BY DEF Converges, HonestReport
<1>5. Settled'
  BY StaysSettled
<1> QED BY <1>1, <1>2, <1>3, <1>4, <1>5

----------------------------------------------------------------------------
(* The fetches and what is read after them.                                *)

(* A fetch of r as the bookmarks see it.                                   *)
LEMMA FetchMoves ==
    ASSUME IInv, NEW r \in Remotes, Fetch(r)
    PROVE  /\ seen' \in RemoteBookmarks /\ local' \in Bookmarks
           /\ \A q \in Remotes \ {r} : seen'[q] = seen[q]
           /\ \A b \in Branches :
                 /\ seen'[r][b] \in {seen[r][b], remote[r][b]}
                 /\ seen'[r][b] # seen[r][b] => opt.scope = "all" \/ b = Main
                 /\ local'[b] \subseteq local[b] \cup {seen'[r][b]}
                 /\ seen'[r][b] = seen[r][b] => local'[b] = local[b]
                 /\ \A c \in local[b] : ~(c \subseteq seen[r][b]) =>
                       \E d \in local'[b] : c \subseteq d
<1>1. /\ seen \in RemoteBookmarks /\ remote \in RemoteBookmarks
      /\ local \in Bookmarks
  BY DEF IInv, TypeOK
<1> DEFINE F == IF opt.scope = "all" THEN Branches ELSE {Main}
<1>2. /\ seen' = [seen EXCEPT ![r] = [b \in Branches |->
                    IF b \in F THEN remote[r][b] ELSE seen[r][b]]]
      /\ local' = [b \in Branches |->
                    IF b \in F /\ tracked[r][b]
                    THEN Imported(local[b], seen[r][b], remote[r][b])
                    ELSE local[b]]
  BY <1>1 DEF Fetch, RemoteBookmarks
<1>3. \A b \in Branches : b \in F => opt.scope = "all" \/ b = Main
  OBVIOUS
<1> HIDE DEF F
<1>4. seen' \in RemoteBookmarks /\ \A q \in Remotes \ {r} : seen'[q] = seen[q]
  BY <1>1, <1>2 DEF RemoteBookmarks
<1>5. ASSUME NEW b \in Branches
      PROVE  /\ local[b] \in SUBSET Commits /\ local'[b] \in SUBSET Commits
             /\ seen'[r][b] \in {seen[r][b], remote[r][b]}
             /\ seen'[r][b] # seen[r][b] => opt.scope = "all" \/ b = Main
             /\ local'[b] \subseteq local[b] \cup {seen'[r][b]}
             /\ seen'[r][b] = seen[r][b] => local'[b] = local[b]
             /\ \A c \in local[b] : ~(c \subseteq seen[r][b]) =>
                   \E d \in local'[b] : c \subseteq d
  <2>1. /\ local[b] \in SUBSET Commits
        /\ seen[r][b] \in Commits /\ remote[r][b] \in Commits
    BY <1>1 DEF RemoteBookmarks, Bookmarks
  <2>2. seen'[r][b] = IF b \in F THEN remote[r][b] ELSE seen[r][b]
    BY <1>1, <1>2 DEF RemoteBookmarks
  <2>3. CASE b \in F /\ tracked[r][b]
    <3>1. local'[b] = Imported(local[b], seen[r][b], remote[r][b])
      BY <1>2, <2>3
    <3> QED BY <1>3, <2>1, <2>2, <2>3, <3>1, ImportedFrom
  <2>4. CASE ~(b \in F /\ tracked[r][b])
    <3>1. local'[b] = local[b]
      BY <1>2, <2>4
    <3> QED BY <1>3, <2>1, <2>2, <3>1
  <2> QED BY <2>3, <2>4
<1>6. local' \in Bookmarks
  BY <1>2, <1>5 DEF Bookmarks
<1> QED BY <1>4, <1>5, <1>6

LEMMA FetchKeeps ==
    ASSUME IInv, NEW r \in Remotes, Fetch(r)
    PROVE  IInv'
<1>0. /\ pc = "fetch" /\ r \in left /\ left' = left \ {r} /\ TypeOK
      /\ UNCHANGED <<remote, kind, tracked, at, saves, harvest, next, pc, opt,
               before, todo, saving, selectedSaved, changed, quiet, bounds>>
  BY DEF Fetch, IInv
<1>1. TypeOK'
  BY <1>0, FetchMoves DEF TypeOK, bounds
<1>2. Authored'
  <2> SUFFICES ASSUME NEW q \in Remotes, NEW b \in Branches
               PROVE  seen'[q][b] \in {seen[q][b], remote[q][b]}
    BY <1>0 DEF IInv, Authored
  <2> QED BY FetchMoves
<1>3. (Remembered /\ Displacing /\ Unchanged /\ Untracking)'
  BY <1>0 DEF IInv, Remembered, Displacing, Unchanged, Untracking, Fetching,
              Fetched, UntracksFor
<1>4. TipsFrom'
  <2>1. \A q \in left' : seen'[q] = before.seen[q] /\ q # r /\ q \in left
    BY <1>0, FetchMoves DEF IInv, TipsFrom, TypeOK
  <2>2. ASSUME NEW b \in Branches, local'[b] # before.local[b]
        PROVE  \E q \in Remotes : seen'[q][b] # before.seen[q][b]
    <3>1. seen[r][b] = before.seen[r][b]
      BY <1>0 DEF IInv, TipsFrom
    <3>2. CASE seen'[r][b] = seen[r][b]
      <4>1. local[b] # before.local[b]
        BY <2>2, <3>2, FetchMoves
      <4>2. PICK q \in Remotes : seen[q][b] # before.seen[q][b]
        BY <1>0, <4>1 DEF IInv, TipsFrom
      <4> QED BY <3>1, <4>2, FetchMoves
    <3> QED BY <3>1, <3>2
  <2>3. ASSUME NEW b \in Branches, NEW c \in local'[b]
        PROVE  \/ c \in before.local[b]
               \/ \E q \in Remotes \ left' : c = seen'[q][b]
    <3>1. CASE c \in local[b]
      <4>1. \/ c \in before.local[b]
            \/ \E q \in Remotes \ left : c = seen[q][b]
        BY <1>0, <3>1 DEF IInv, TipsFrom, Fetching
      <4> QED BY <1>0, <4>1, FetchMoves
    <3>2. CASE c = seen'[r][b]
      BY <1>0, <3>2
    <3> QED BY <3>1, <3>2, FetchMoves
  <2>4. opt.scope # "all" => left' \subseteq {opt.selected}
    BY <1>0 DEF IInv, TipsFrom
  <2> QED BY <1>0, <2>1, <2>2, <2>3, <2>4 DEF TipsFrom, Fetched, Fetching
<1>5. (pc \in {"track", "advance"} => Based)' /\ Converges' /\ HonestReport'
  BY <1>0 DEF Converges, HonestReport
<1>6. Settled'
  <2>1. ASSUME quiet = opt
        PROVE  UNCHANGED <<local, seen>>
    <3>1. CurrentFor(opt)
      BY <1>0, <2>1 DEF IInv, Settled, Repeating
    <3>2. ASSUME NEW b \in Branches PROVE seen'[r][b] = seen[r][b]
      <4>1. opt.scope # "all" => r = opt.selected
        BY <1>0 DEF IInv, TipsFrom
      <4> QED BY <3>1, <4>1, FetchMoves DEF CurrentFor
    <3>3. \A q \in Remotes, b \in Branches : seen'[q][b] = seen[q][b]
      BY <3>2, FetchMoves
    <3>4. /\ seen \in RemoteBookmarks /\ seen' \in RemoteBookmarks
          /\ local \in Bookmarks /\ local' \in Bookmarks
      BY <1>0, FetchMoves DEF TypeOK
    <3>5. seen' = seen
      <4>1. \A q \in Remotes : seen'[q] = seen[q]
        BY <3>3, <3>4 DEF RemoteBookmarks
      <4> QED BY <3>4, <4>1 DEF RemoteBookmarks
    <3>6. local' = local
      BY <3>2, <3>4, FetchMoves DEF Bookmarks
    <3> QED BY <3>5, <3>6
  <2> QED BY <1>0, <2>1, StaysSettled DEF IInv
<1> QED BY <1>1, <1>2, <1>3, <1>4, <1>5, <1>6 DEF IInv

LEMMA UpstreamTyped ==
    ASSUME TypeOK, pc # "idle"
    PROVE  /\ Upstream \in Commits /\ opt.selected \in Remotes
           /\ Main \in Branches /\ local[Main] \in SUBSET Commits
           /\ before.local[Main] \in SUBSET Commits
           /\ opt \in AllOptions
  BY OptionsTyped, RefreshAssumption
     DEF TypeOK, Upstream, RemoteBookmarks, Bookmarks, Snapshots

LEMMA ReadAfterKeeps == ASSUME IInv, ReadAfter PROVE IInv'
<1> USE DEF IInv, ReadAfter, repo, marks, memory, bounds
<1>1. TypeOK' /\ Authored'
  BY DEF TypeOK, Authored, Displaced
<1>2. (Remembered /\ TipsFrom /\ Displacing)'
  BY DEF Remembered, TipsFrom, Displacing, Fetching, Fetched, Upstream,
         Displaced, Diverged, OnlyTracked
<1>3. Unchanged'
  <2> SUFFICES ASSUME ~changed' PROVE local = before.local /\ seen = before.seen
    BY DEF Unchanged, Remembered
  <2>1. seen = before.seen
    OBVIOUS
  <2>2. \A b \in Branches : local[b] = before.local[b]
    BY <2>1 DEF TipsFrom
  <2>3. local \in Bookmarks /\ before.local \in Bookmarks
    BY DEF TypeOK, Snapshots
  <2> QED BY <2>1, <2>2, <2>3 DEF Bookmarks
<1>4. Untracking'
  BY DEF Untracking, Fetching, UntracksFor
<1>5. (pc \in {"track", "advance"} => Based)' /\ Converges' /\ HonestReport'
  BY DEF Converges, HonestReport
<1>6. Settled'
  <2>1. quiet = opt => ~changed /\ <<seen, tracked>> = <<before.seen, before.tracked>>
    BY DEF Settled, Repeating
  <2>2. changed \in BOOLEAN
    BY DEF TypeOK
  <2>3. quiet = opt => changed' = changed
    BY <2>1, <2>2
  <2> QED BY <2>3, StaysSettled
<1> QED BY <1>1, <1>2, <1>3, <1>4, <1>5, <1>6

----------------------------------------------------------------------------
(* The displaced tips.                                                     *)

(* Which tips are displaced is settled by the fetches.                     *)
LEMMA DisplacedStays ==
    ASSUME UNCHANGED <<opt, before, seen>>
    PROVE  Displaced' = Displaced /\ Upstream' = Upstream
<1>1. \A r \in Remotes, b \in Branches :
         Diverged(r, b)' = Diverged(r, b) /\ OnlyTracked(b)' = OnlyTracked(b)
  BY DEF Diverged, OnlyTracked
<1> QED BY <1>1 DEF Displaced, Upstream

(* A displaced branch was one tip, and upstream moved.                     *)
LEMMA DisplacedFacts ==
    ASSUME NEW r, NEW b, <<r, b>> \in Displaced
    PROVE  /\ r \in Remotes /\ b \in Branches /\ opt.save
           /\ Diverged(r, b) /\ OnlyTracked(b)
           /\ seen[r][b] # before.seen[r][b] /\ seen # before.seen
           /\ Cardinality(before.local[b]) = 1
  BY DEF Displaced, Diverged

LEMMA SaveKeeps ==
    ASSUME IInv, NEW r \in Remotes, NEW b \in Branches, Save(r, b)
    PROVE  IInv'
<1> USE DEF IInv, Save, bounds
<1>1. <<r, b>> \in Displaced /\ Displaced' = Displaced /\ Upstream' = Upstream
  BY DisplacedStays DEF Displacing
<1>2. TypeOK' /\ Authored'
  <2>1. before.local[b] \subseteq Commits
    BY DEF TypeOK, Snapshots, Bookmarks
  <2> QED BY <2>1 DEF TypeOK, Authored
<1>3. (Remembered /\ TipsFrom /\ Untracking)'
  BY DEF Remembered, TipsFrom, Untracking, Fetching, Fetched, UntracksFor
<1>4. Displacing'
  BY <1>1 DEF Displacing
<1>5. Unchanged'
  BY <1>1, DisplacedFacts DEF Unchanged, Fetched, Fetching
<1>6. (pc \in {"track", "advance"} => Based)' /\ Converges' /\ HonestReport'
  BY DEF Converges, HonestReport
<1>7. Settled'
  BY StaysSettled
<1> QED BY <1>2, <1>3, <1>4, <1>5, <1>6, <1>7

LEMMA SetDisplacedKeeps ==
    ASSUME IInv, NEW r \in Remotes, NEW b \in Branches, SetDisplaced(r, b)
    PROVE  IInv'
<1> USE DEF IInv, SetDisplaced, bounds
<1>1. <<r, b>> \in Displaced /\ Displaced' = Displaced /\ Upstream' = Upstream
  <2>1. <<r, b>> \in Displaced
    BY DEF Displacing
  <2> QED BY <2>1, DisplacedStays
<1>2. seen[r][b] \in Commits /\ local' = [local EXCEPT ![b] = {seen[r][b]}]
  BY DEF TypeOK, RemoteBookmarks
<1>3. TypeOK' /\ Authored'
  <2>1. local' \in Bookmarks
    BY <1>2 DEF TypeOK, Bookmarks
  <2> QED BY <2>1 DEF TypeOK, Authored
<1>4. (Remembered /\ Untracking /\ Unchanged)'
  BY DEF Remembered, Unchanged, Untracking, Fetching, Fetched, UntracksFor
<1>5. TipsFrom'
  <2>1. left = {} /\ left' = {}
    BY DEF TipsFrom, Fetched, Fetching
  <2>2. \A d \in Branches : \A c \in local'[d] : c \in local[d] \/ c = seen[r][d]
    BY <1>2 DEF TypeOK, Bookmarks
  <2> QED BY <2>1, <2>2 DEF TipsFrom, Fetching, Fetched
<1>6. Displacing'
  BY <1>1 DEF Displacing
<1>7. (pc \in {"track", "advance"} => Based)' /\ Converges' /\ HonestReport'
  BY DEF Converges, HonestReport
<1>8. Settled'
  <2>1. quiet # opt
    BY <1>1, DisplacedFacts DEF Settled, Repeating
  <2> QED BY <2>1, StaysSettled
<1> QED BY <1>3, <1>4, <1>5, <1>6, <1>7, <1>8

----------------------------------------------------------------------------
(* The selected base.                                                      *)

(* What SetBase leaves of the selected branch.                             *)
LEMMA SetBaseMoves ==
    ASSUME IInv, SetBase
    PROVE  /\ local' \in Bookmarks
           /\ Upstream # Absent
           /\ \E l \in Commits : local'[Main] = {l} /\ Upstream \subseteq l
           /\ Behind => local' = [local EXCEPT ![Main] = {Upstream}] /\ changed'
           /\ ~Behind => UNCHANGED <<local, changed>>
<1> USE DEF IInv, SetBase
<1>1. TypeOK /\ pc # "idle" /\ local \in Bookmarks
  BY DEF TypeOK
<1>2. Upstream # Absent
  BY DEF Displacing
<1>3. CASE Behind
  <2>1. local' = [local EXCEPT ![Main] = {Upstream}] /\ changed'
    BY <1>3
  <2>2. local' \in Bookmarks /\ local'[Main] = {Upstream}
    BY <1>1, <2>1, UpstreamTyped DEF Bookmarks
  <2> QED BY <1>1, <1>2, <1>3, <2>1, <2>2, UpstreamTyped
<1>4. CASE ~Behind
  <2>1. PICK l \in local[Main] : Upstream \subseteq l
    BY <1>4 DEF Behind
  <2>2. ~(Cardinality(local[Main]) > 1)
    BY DEF Conflicted
  <2>3. local[Main] = {l} /\ l \in Commits
    BY <1>1, <2>1, <2>2, Targets, UpstreamTyped
  <2> QED BY <1>1, <1>2, <1>4, <2>1, <2>3
<1> QED BY <1>3, <1>4

LEMMA SetBaseKeeps == ASSUME IInv, SetBase PROVE IInv'
<1>0. /\ pc = "save" /\ todo = {} /\ pc' = "track" /\ TypeOK /\ pc # "idle"
      /\ UNCHANGED <<remote, kind, seen, tracked, at, saves, harvest, next,
                     opt, before, left, todo, saving, selectedSaved, quiet, bounds>>
  BY DEF IInv, SetBase, memory
<1>1. TypeOK' /\ Authored'
  BY <1>0, SetBaseMoves DEF IInv, TypeOK, Authored, bounds, SetBase
<1>2. (Remembered /\ Untracking /\ Displacing)'
  BY <1>0 DEF IInv, Remembered, Untracking, Displacing, Fetching, Fetched,
              UntracksFor
<1>3. TipsFrom'
  <2>1. left = {} /\ left' = {}
    BY <1>0 DEF IInv, TipsFrom, Fetched, Fetching
  <2>2. \A b \in Branches : \A c \in local'[b] :
           c \in local[b] \/ c = seen[opt.selected][b]
    BY <1>0, SetBaseMoves, UpstreamTyped DEF TypeOK, Bookmarks, Upstream
  <2> QED BY <1>0, <2>1, <2>2, UpstreamTyped DEF IInv, TipsFrom, Fetching, Fetched
<1>4. Unchanged'
  BY <1>0, SetBaseMoves DEF IInv, Unchanged, Fetched, Fetching
<1>5. (pc \in {"track", "advance"} => Based)' /\ Converges' /\ HonestReport'
  BY <1>0, SetBaseMoves DEF Converges, HonestReport, Based, Upstream
<1>6. Settled'
  <2>1. ASSUME quiet = opt PROVE ~Behind
    <3>1. Finished(opt) /\ opt.update
      BY <1>0, <2>1 DEF IInv, Settled, Repeating, Remembered, Fetching
    <3> QED BY <3>1 DEF Finished, Behind, Upstream
  <2> QED BY <1>0, <2>1, SetBaseMoves, StaysSettled DEF IInv
<1> QED BY <1>1, <1>2, <1>3, <1>4, <1>5, <1>6 DEF IInv

(* The branch contains upstream by now, so that tracking it moves nothing. *)
LEMMA TrackMoves ==
    ASSUME IInv, Track
    PROVE  /\ local' = local
           /\ tracked' = IF opt.untrack = "none"
                         THEN [tracked EXCEPT ![opt.selected][Main] = TRUE]
                         ELSE tracked
<1>1. TypeOK /\ pc # "idle" /\ Based
  BY DEF IInv, Track
<1>2. local \in Bookmarks /\ tracked \in Tracking
  BY <1>1 DEF TypeOK
<1>3. PICK l \in local[Main] : local[Main] = {l} /\ Upstream \subseteq l
  BY <1>1 DEF Based
<1>4. Imported(local[Main], Absent, Upstream) = local[Main]
  BY <1>1, <1>3, UpstreamTyped, ImportedAhead DEF Based, Absent
<1>5. CASE opt.untrack = "none" /\ ~tracked[opt.selected][Main]
  <2>1. local' = [local EXCEPT ![Main] = local[Main]]
    BY <1>4, <1>5 DEF Track
  <2>2. local' = local
    BY <1>1, <1>2, <2>1, UpstreamTyped DEF Bookmarks
  <2> QED BY <1>5, <2>2 DEF Track
<1>6. CASE opt.untrack = "none" /\ tracked[opt.selected][Main]
  <2>1. tracked[opt.selected][Main] = TRUE
    BY <1>1, <1>2, <1>6, UpstreamTyped DEF Tracking
  <2>2. tracked = [tracked EXCEPT ![opt.selected][Main] = TRUE]
    BY <1>1, <1>2, <2>1, UpstreamTyped DEF Tracking
  <2> QED BY <1>6, <2>2 DEF Track
<1>7. CASE opt.untrack # "none"
  BY <1>7 DEF Track
<1> QED BY <1>5, <1>6, <1>7

LEMMA TrackKeeps == ASSUME IInv, Track PROVE IInv'
<1>0. /\ pc = "track" /\ pc' = "advance" /\ TypeOK /\ pc # "idle"
      /\ UNCHANGED <<remote, kind, seen, at, saves, harvest, next, opt, before,
                     left, todo, saving, selectedSaved, changed, quiet, bounds>>
  BY DEF IInv, Track, memory
<1>1. tracked' \in Tracking
  <2>1. tracked \in Tracking
    BY <1>0 DEF TypeOK
  <2>2. opt.selected \in Remotes /\ Main \in Branches
    BY <1>0, UpstreamTyped
  <2>3. [tracked EXCEPT ![opt.selected][Main] = TRUE] \in Tracking
    BY <2>1, <2>2, TrackingTyped
  <2> QED BY <2>1, <2>3, TrackMoves
<1>2. TypeOK' /\ Authored'
  BY <1>0, <1>1, TrackMoves DEF IInv, TypeOK, Authored, bounds
<1>3. (Remembered /\ TipsFrom /\ Displacing /\ Unchanged)'
  BY <1>0, TrackMoves DEF IInv, Remembered, TipsFrom, Displacing, Unchanged,
                          Fetching, Fetched
<1>4. Untracking'
  <2>1. \A r \in Remotes, b \in Branches :
           UntracksFor(opt, r, b) => ~tracked[r][b] /\ opt.untrack # "none"
    BY <1>0 DEF IInv, Untracking, Fetching, UntracksFor
  <2>2. \A r \in Remotes, b \in Branches : UntracksFor(opt, r, b) => ~tracked'[r][b]
    BY <2>1, TrackMoves
  <2>3. opt.untrack = "none" => tracked'[opt.selected][Main]
    BY <1>0, TrackMoves, UpstreamTyped DEF TypeOK, Tracking
  <2> QED BY <1>0, <2>2, <2>3 DEF Untracking, TrackedFor, UntracksFor
<1>5. (pc \in {"track", "advance"} => Based)' /\ Converges' /\ HonestReport'
  BY <1>0, TrackMoves DEF IInv, Converges, HonestReport, Based, Upstream
<1>6. Settled'
  <2>1. ASSUME quiet = opt PROVE tracked' = tracked
    <3>1. Finished(opt) /\ opt.update
      BY <1>0, <2>1 DEF IInv, Settled, Repeating, Remembered, Fetching
    <3>2. opt.untrack = "none" => tracked[opt.selected][Main]
      BY <3>1 DEF Finished, TrackedFor
    <3> QED BY <3>2 DEF Track
  <2> QED BY <1>0, <2>1, TrackMoves, StaysSettled DEF IInv
<1> QED BY <1>2, <1>3, <1>4, <1>5, <1>6 DEF IInv

----------------------------------------------------------------------------
(* The working copy.                                                       *)

(* Whatever case of Advanced it is, upstream is in the checkout.           *)
LEMMA AdvanceMoves ==
    ASSUME IInv, Advance
    PROVE  /\ at' \in Copies /\ at'.parents # {} /\ Upstream \subseteq CommitOf(at')
           /\ \/ at'.own = {}
              \/ at' = at /\ \A l \in OldBase : IsAt(l) => l = Upstream
           /\ ~selectedSaved /\ ~opt.follow => CommitOf(at) \subseteq CommitOf(at')
           /\ \/ opt.follow \/ at' = at \/ ~(Upstream \subseteq CommitOf(at))
              \/ \E l \in OldBase : IsAt(l) /\ l # Upstream
<1> DEFINE Follows == opt.follow /\ at.own = {} /\ at.parents # {Upstream}
           Ahead == /\ \E l \in OldBase : IsAt(l) /\ l # Upstream
                    /\ Upstream \subseteq CommitOf(at)
           Inside == Upstream \subseteq CommitOf(at)
<1>1. TypeOK /\ pc = "advance" /\ pc # "idle" /\ Based /\ at' = Advanced
  BY DEF IInv, Advance
<1>2. /\ Upstream \in Commits /\ at \in Copies /\ at.parents # {}
      /\ CommitOf(at) \in Commits /\ local[Main] \in SUBSET Commits
  BY <1>1, UpstreamTyped, CommitTyped DEF TypeOK
<1>3. PICK l \in local[Main] : local[Main] = {l} /\ Upstream \subseteq l
  BY <1>1 DEF Based
<1>4. CASE Follows
  <2>1. at' = Fresh(Upstream)
    BY <1>1, <1>4 DEF Advanced
  <2> QED BY <1>2, <1>4, <2>1, FreshTyped
<1>5. CASE ~Follows /\ Ahead
  <2>1. at' = Fresh(CommitOf(at))
    BY <1>1, <1>5 DEF Advanced
  <2> QED BY <1>2, <1>5, <2>1, FreshTyped
<1>6. CASE ~Follows /\ ~Ahead /\ Inside
  <2>1. at' = at
    BY <1>1, <1>6 DEF Advanced
  <2> QED BY <1>2, <1>6, <2>1
<1>7. CASE ~Follows /\ ~Ahead /\ ~Inside /\ selectedSaved
  <2>1. at' = Fresh(Upstream)
    BY <1>1, <1>7 DEF Advanced
  <2> QED BY <1>2, <1>7, <2>1, FreshTyped
<1>8. CASE ~Follows /\ ~Ahead /\ ~Inside /\ ~selectedSaved
  <2> DEFINE ps == local[Main] \cup (IF FastForwards THEN {} ELSE {CommitOf(at)})
  <2>1. at' = [parents |-> ps, own |-> {}]
    BY <1>1, <1>8 DEF Advanced
  <2>2. ps \in SUBSET Commits /\ l \in ps
    BY <1>2, <1>3
  <2>3. ~FastForwards => CommitOf(at) \in ps
    OBVIOUS
  <2> HIDE DEF ps
  <2>4. at' \in Copies /\ at'.parents # {} /\ at'.own = {} /\ at'.parents = ps
    BY <2>1, <2>2 DEF Copies, Commits
  <2>5. CommitOf(at') = UNION ps
    BY <2>1 DEF CommitOf
  <2>6. l \subseteq UNION ps
    BY <2>2
  <2>7. CommitOf(at) \subseteq UNION ps
    <3>1. CASE FastForwards
      <4>1. CommitOf(at) \subseteq Upstream
        BY <3>1 DEF FastForwards, CommitOf
      <4> QED BY <1>3, <2>6, <4>1
    <3>2. CASE ~FastForwards
      BY <2>3, <3>2
    <3> QED BY <3>1, <3>2
  <2> QED BY <1>3, <1>8, <2>4, <2>5, <2>6, <2>7
<1> QED BY <1>4, <1>5, <1>6, <1>7, <1>8

LEMMA AdvanceKeeps == ASSUME IInv, Advance PROVE IInv'
<1>0. /\ pc = "advance" /\ pc' = "done" /\ TypeOK /\ pc # "idle" /\ Based
      /\ UNCHANGED <<remote, kind, local, seen, tracked, saves, harvest, next,
                     opt, before, left, todo, saving, selectedSaved, quiet, bounds>>
      /\ changed' = (changed \/ at' # at
                     \/ before.seen[opt.selected][Main] # Upstream)
      /\ Upstream' = Upstream /\ opt.update
      /\ at.own = {} \/ at \in harvest
  BY DEF IInv, Advance, marks, memory, Upstream, Remembered, Fetching
<1>1. TypeOK'
  BY <1>0, AdvanceMoves DEF TypeOK, bounds
<1>2. at'.own \in {at.own, {}}
  BY AdvanceMoves
<1>3. Authored'
  BY <1>0, <1>2 DEF IInv, Authored, TypeOK
<1>4. (Remembered /\ TipsFrom /\ Displacing /\ Unchanged /\ Untracking)'
  BY <1>0 DEF IInv, Remembered, TipsFrom, Displacing, Unchanged, Untracking,
              Fetching, Fetched
<1>5. (pc \in {"track", "advance"} => Based)'
  BY <1>0
<1>6. Converges'
  <2>1. PICK l \in local[Main] : local[Main] = {l} /\ Upstream \subseteq l
    BY <1>0 DEF Based
  <2>2. l \in Commits /\ ~(Cardinality(local[Main]) > 1)
    BY <1>0, <2>1, Targets, UpstreamTyped
  <2> QED BY <1>0, <2>1, <2>2, AdvanceMoves DEF Converges, Conflict
<1>7. HonestReport'
  <2>1. ASSUME ~changed'
        PROVE  /\ at' = before.at /\ seen' = before.seen /\ local' = before.local
               /\ saves' = before.saves /\ harvest' = before.harvest
    BY <1>0, <2>1 DEF IInv, Unchanged, Remembered, Fetched, Fetching
  <2>2. before \in Snapshots
    BY <1>0 DEF TypeOK
  <2>3. Snapshot' = [local |-> local', seen |-> seen', tracked |-> tracked',
                     saves |-> saves', harvest |-> harvest', at |-> at']
    BY DEF Snapshot
  <2>4. before' = before
    BY <1>0
  <2> HIDE <1>0
  <2> QED BY <2>1, <2>2, <2>3, <2>4 DEF HonestReport, Snapshots
<1>8. Settled'
  <2>1. Finished(opt)'
    <3>1. \A l \in local[Main] : IsAt(l)' => l = Upstream
      <4> SUFFICES ASSUME NEW l \in local[Main], IsAt(l)' PROVE l = Upstream
        OBVIOUS
      <4>1. at' = at /\ at.own # {} /\ l = CommitOf(at)
        BY AdvanceMoves DEF IsAt
      <4>2. CASE l \in OldBase
        BY <4>1, <4>2, AdvanceMoves DEF IsAt
      <4>3. CASE l \notin OldBase
        <5>1. PICK r \in Remotes : l = seen[r][Main]
          BY <1>0, <4>3, UpstreamTyped DEF IInv, TipsFrom, Fetching, OldBase
        <5>2. at.own \cap l = {} /\ at.own \subseteq l
          BY <1>0, <4>1, <5>1, UpstreamTyped DEF IInv, Authored, CommitOf
        <5> QED BY <4>1, <5>2
      <4> QED BY <4>2, <4>3
    <3>2. TrackedFor(opt) /\ kind = "jj"
      BY <1>0 DEF IInv, Untracking, Remembered
    <3>3. at'.own = {} \/ at' \in harvest
      BY <1>0, AdvanceMoves
    <3>4. Upstream # Absent
      BY <1>0 DEF Based
    <3>5. \E l \in local[Main] : local[Main] = {l} /\ Upstream \subseteq l
      BY <1>0 DEF Based
    <3> QED BY <1>0, <3>1, <3>2, <3>3, <3>4, <3>5, AdvanceMoves
            DEF Finished, TrackedFor, UntracksFor, Upstream
  <2>2. ASSUME quiet = opt, ~opt.follow PROVE ~changed'
    <3>1. /\ Finished(opt) /\ ~changed /\ local = before.local
          /\ seen = before.seen
      BY <1>0, <2>2 DEF IInv, Settled, Repeating
    <3>2. /\ Upstream \subseteq CommitOf(at)
          /\ ~\E l \in OldBase : IsAt(l) /\ l # Upstream
      BY <1>0, <3>1 DEF Finished, Upstream, OldBase
    <3>3. at' = at
      BY <2>2, <3>2, AdvanceMoves
    <3> QED BY <1>0, <3>1, <3>3 DEF Upstream
  <2> QED BY <1>0, <2>1, <2>2 DEF Settled, Repeating
<1> QED BY <1>1, <1>3, <1>4, <1>5, <1>6, <1>7, <1>8 DEF IInv

----------------------------------------------------------------------------
(* The ways a run ends, and all of it.                                     *)

LEMMA EndKeeps ==
    ASSUME IInv, Return \/ Throw \/ Abort
    PROVE  IInv'
<1>1. /\ UNCHANGED <<remote, repo, next, runs>> /\ pc # "idle"
      /\ pc' = "idle" /\ opt' = NoRun /\ before' = NoRun /\ left' = {}
      /\ todo' = {} /\ saving' = {} /\ selectedSaved' = FALSE
      /\ changed' = FALSE
  BY DEF Return, Throw, Abort, Idle, bounds
<1>2. /\ quiet' \in {opt, NoRun} /\ faults' \in 0 .. MaxFaults
      /\ quiet' = opt => quiet' = NoRun \/ (pc = "done" /\ Current)
  BY RefreshAssumption DEF IInv, TypeOK, Return, Throw, Abort, bounds
<1>3. TypeOK'
  BY <1>1, <1>2 DEF IInv, TypeOK, repo, marks
<1>4. Authored'
  BY <1>1 DEF IInv, Authored, repo, marks
<1>5. ASSUME quiet' # NoRun
      PROVE  (Finished(quiet) /\ CurrentFor(quiet))'
  <2>1. quiet' = opt /\ Finished(opt) /\ CurrentFor(opt)
    BY <1>2, <1>5 DEF IInv, Settled, Current, CurrentFor
  <2>2. UNCHANGED <<remote, kind, local, seen, tracked, at, harvest>>
    BY <1>1 DEF repo, marks
  <2> QED BY <2>1, <2>2
          DEF Finished, CurrentFor, TrackedFor, UntracksFor, IsAt
<1> QED BY <1>1, <1>3, <1>4, <1>5, AtRest

LEMMA NextKeepsIInv == ASSUME IInv, [Next]_vars PROVE IInv'
<1>1. CASE Outside
  BY <1>1, OperatorKeeps, PushKeeps DEF Outside
<1>2. CASE Begin
  BY <1>2, BeginKeeps
<1>3. CASE Run
  BY <1>3, SkipKeeps, HarvestKeeps, UntrackKeeps, UntrackedKeeps, FetchKeeps,
     ReadAfterKeeps, SaveKeeps, SetDisplacedKeeps, SetBaseKeeps, TrackKeeps,
     AdvanceKeeps, EndKeeps DEF Run
<1>4. CASE Abort
  BY <1>4, EndKeeps
<1>5. CASE UNCHANGED vars
  <2>1. UNCHANGED <<remote, kind, local, seen, tracked, at, saves, harvest,
                    next, pc, opt, before, left, todo, saving, selectedSaved,
                    changed, quiet, runs, faults>>
    BY <1>5 DEF vars, repo, marks, memory, bounds
  <2>2. (TypeOK /\ Authored /\ Remembered /\ TipsFrom)'
    BY <2>1 DEF IInv, TypeOK, Authored, Remembered, TipsFrom
  <2>3. (Displacing /\ Unchanged /\ Untracking)'
    <3>1. Displacing'
      BY <2>1, DisplacedStays DEF IInv, Displacing
    <3> QED BY <2>1, <3>1
            DEF IInv, Unchanged, Untracking, TrackedFor, UntracksFor
  <2>4. (pc \in {"track", "advance"} => Based)' /\ Converges' /\ HonestReport'
    BY <2>1 DEF IInv, Based, Upstream, Converges, Conflict, HonestReport, Snapshot
  <2>5. Settled'
    BY <2>1 DEF IInv, Settled, Repeating, Finished, CurrentFor, TrackedFor,
            UntracksFor, IsAt
  <2> QED BY <2>2, <2>3, <2>4, <2>5 DEF IInv
<1> QED BY <1>1, <1>2, <1>3, <1>4, <1>5 DEF Next

(* The inductive invariant.                                                *)
THEOREM Invariance == Spec => []IInv
<1>1. IInv /\ [Next]_vars => IInv'
  BY NextKeepsIInv
<1> QED BY InitIInv, <1>1, PTL DEF Spec

(* Every variable has its type.                                            *)
THEOREM TypeCorrect == Spec => []TypeOK
<1>1. IInv => TypeOK
  BY DEF IInv
<1> QED BY Invariance, <1>1, PTL

(* A success has upstream in the checkout and in the selected branch,      *)
(* whatever an earlier run was killed in.                                  *)
THEOREM SuccessConverges == Spec => []Converges
<1>1. IInv => Converges
  BY DEF IInv
<1> QED BY Invariance, <1>1, PTL

(* A run that reports no change has left the bookmarks, the saved tips and *)
(* the checkout as they were.                                              *)
THEOREM ReportsAreHonest == Spec => []HonestReport
<1>1. IInv => HonestReport
  BY DEF IInv
<1> QED BY Invariance, <1>1, PTL

(* A run repeated on the state a success left reports no change.           *)
THEOREM RepeatsAreIdle == Spec => []Idempotent
<1>1. IInv => Idempotent
  BY DEF IInv, Idempotent, Settled, Repeating
<1> QED BY Invariance, <1>1, PTL

----------------------------------------------------------------------------
(* What a step may not do to local work.                                   *)

(* The steps of a run that move local bookmarks.                           *)
LEMMA WhoMovesBookmarks ==
    ASSUME IInv, [Next]_vars, pc # "idle"
    PROVE  \/ local' = local
           \/ \E r \in Remotes : Fetch(r)
           \/ \E r \in Remotes, b \in Branches : SetDisplaced(r, b)
           \/ SetBase
<1>1. CASE Outside
  BY <1>1 DEF Outside, Operator, Edit, New, SetLocal, Push, repo, marks
<1>2. CASE Begin
  BY <1>2 DEF Begin
<1>3. CASE Run
  BY <1>3, TrackMoves DEF Run, SkipUpdate, HarvestWork, Untrack, Untracked,
     ReadAfter, Save, Advance, Return, Throw, repo, marks
<1>4. CASE Abort \/ UNCHANGED vars
  BY <1>4 DEF Abort, vars, repo, marks
<1> QED BY <1>1, <1>2, <1>3, <1>4 DEF Next

(* A run takes nothing else out of the pins: copies and saved tips stay.   *)
LEMMA PinsStay ==
    ASSUME IInv, [Next]_vars, pc # "idle"
    PROVE  saves \subseteq saves' /\ harvest \subseteq harvest'
<1>1. CASE Outside
  BY <1>1 DEF Outside, Operator, Edit, New, SetLocal, Push, repo, marks
<1>2. CASE Begin
  BY <1>2 DEF Begin
<1>3. CASE Run
  BY <1>3 DEF Run, SkipUpdate, HarvestWork, Untrack, Untracked, Fetch, SetBase,
     Track, SetDisplaced, ReadAfter, Save, Advance, Return, Throw, repo, marks
<1>4. CASE Abort \/ UNCHANGED vars
  BY <1>4 DEF Abort, vars, repo, marks
<1> QED BY <1>1, <1>2, <1>3, <1>4 DEF Next

LEMMA TipTyped ==
    ASSUME TypeOK, NEW b \in Branches, NEW c \in local[b], LocalOnly(c)
    PROVE  c \in Commits /\ \A r \in Remotes : ~(c \subseteq seen[r][b])
  BY DEF TypeOK, Bookmarks, LocalOnly

(* A displaced branch that has been dealt with has its tip saved.          *)
LEMMA SetTipIsSaved ==
    ASSUME IInv, pc \in {"save", "set"}, NEW r, NEW b,
           <<r, b>> \in Displaced \ todo,
           NEW c \in local[b], LocalOnly(c)
    PROVE  c \in saves
<1>1. b \in Branches /\ before.local[b] \subseteq saves
  BY DisplacedFacts DEF IInv, Displacing
<1>2. c \in before.local[b]
  BY <1>1 DEF IInv, TipsFrom, Fetching, LocalOnly
<1> QED BY <1>1, <1>2

(* No step takes the last bookmark from a local tip, but SetBase from the  *)
(* selected one when nobody saw it diverge.                                *)
THEOREM TipsAreKept == Spec => TipsKept
<1>1. ASSUME IInv, [Next]_vars, pc # "idle", NEW c \in LocalTips, LocalOnly(c)
      PROVE  Kept(c)' \/ UnwatchedBase(c)
  <2>1. PICK b \in Branches : c \in local[b]
    BY <1>1 DEF LocalTips
  <2>2. TypeOK /\ TypeOK'
    BY <1>1, NextKeepsIInv DEF IInv
  <2>3. \/ \E d \in local'[b] : c \subseteq d
        \/ c \in saves
        \/ UnwatchedBase(c)
    <3>1. CASE local' = local
      BY <2>1, <3>1
    <3>2. ASSUME NEW r \in Remotes, Fetch(r)
          PROVE  \E d \in local'[b] : c \subseteq d
      BY <1>1, <2>1, <2>2, <3>2, FetchMoves, TipTyped
    <3>3. ASSUME NEW r \in Remotes, NEW d \in Branches, SetDisplaced(r, d)
          PROVE  c \in local'[b] \/ c \in saves
      <4>1. CASE b # d
        BY <2>1, <2>2, <3>3, <4>1 DEF SetDisplaced, TypeOK, Bookmarks
      <4>2. CASE b = d
        <5>1. <<r, b>> \in Displaced \ todo /\ pc = "set"
          BY <1>1, <3>3, <4>2 DEF SetDisplaced, IInv, Displacing
        <5> QED BY <1>1, <2>1, <5>1, SetTipIsSaved
      <4> QED BY <4>1, <4>2
    <3>4. CASE SetBase
      <4>1. pc = "save" /\ pc' = "track" /\ todo = {} /\ ~Refused /\ ~Conflicted
        BY <3>4 DEF SetBase
      <4>2. CASE b # Main \/ ~Behind
        <5>1. local'[b] = local[b]
          BY <2>2, <3>4, <4>2 DEF SetBase, TypeOK, Bookmarks
        <5> QED BY <2>1, <5>1
      <4>3. CASE b = Main /\ Behind /\ ~UnwatchedBase(c)
        <5>1. PICK r \in Remotes : Diverged(r, Main) /\ OnlyTracked(Main)
          BY <2>1, <4>1, <4>3 DEF UnwatchedBase
        <5>2. CASE opt.save
          <6>1. <<r, Main>> \in Displaced \ todo
            BY <4>1, <4>3, <5>1, <5>2 DEF Displaced
          <6> QED BY <1>1, <2>1, <4>1, <4>3, <6>1, SetTipIsSaved
        <5>3. CASE ~opt.save
          <6>1. OldBase # {}
            BY <2>2, <4>1, <5>1, Targets, UpstreamTyped DEF Diverged, OldBase
          <6>2. c \subseteq Upstream
            BY <2>1, <4>1, <4>3, <5>3, <6>1 DEF Refused
          <6>3. Upstream = seen[opt.selected][Main] /\ opt.selected \in Remotes
            BY <2>2, <4>1, UpstreamTyped DEF Upstream
          <6> QED BY <1>1, <2>1, <2>2, <4>3, <6>2, <6>3, TipTyped
        <5> QED BY <5>2, <5>3
      <4> QED BY <4>2, <4>3
    <3> QED BY <1>1, <3>1, <3>2, <3>3, <3>4, WhoMovesBookmarks
  <2>4. CASE \E d \in local'[b] : c \subseteq d
    BY <2>1, <2>4 DEF Kept, Pins
  <2>5. CASE c \in saves
    BY <1>1, <2>5, PinsStay DEF Kept, Pins
  <2> QED BY <2>3, <2>4, <2>5
<1>2. ASSUME IInv, [Next]_vars
      PROVE  [pc # "idle" => \A c \in LocalTips :
                LocalOnly(c) => Kept(c)' \/ UnwatchedBase(c)]_vars
  BY <1>1, <1>2
<1> QED BY Invariance, <1>2, PTL DEF Spec, TipsKept

(* With --no-save-displaced no run takes a local-only tip from its own     *)
(* branch.                                                                 *)
THEOREM NoneDisplaced == Spec => NothingDisplaced
<1>1. ASSUME IInv, [Next]_vars, pc # "idle", ~opt.save,
             NEW b \in Branches, NEW c \in local[b], LocalOnly(c)
      PROVE  \E d \in local'[b] : c \subseteq d
  <2>1. TypeOK /\ TypeOK'
    BY <1>1, NextKeepsIInv DEF IInv
  <2>2. CASE local' = local
    BY <2>2
  <2>3. ASSUME NEW r \in Remotes, Fetch(r)
        PROVE  \E d \in local'[b] : c \subseteq d
    BY <1>1, <2>1, <2>3, FetchMoves, TipTyped
  <2>4. ASSUME NEW r \in Remotes, NEW d \in Branches, SetDisplaced(r, d)
        PROVE  FALSE
    <3>1. <<r, d>> \in Displaced
      BY <1>1, <2>4 DEF SetDisplaced, IInv, Displacing
    <3> QED BY <1>1, <3>1, DisplacedFacts
  <2>5. CASE SetBase
    <3>1. pc = "save" /\ ~Refused
      BY <2>5 DEF SetBase
    <3>2. CASE b # Main \/ ~Behind
      <4>1. local'[b] = local[b]
        BY <2>1, <2>5, <3>2 DEF SetBase, TypeOK, Bookmarks
      <4> QED BY <4>1
    <3>3. CASE b = Main /\ Behind
      <4>1. Upstream = seen[opt.selected][Main] /\ opt.selected \in Remotes
        BY <2>1, <3>1, UpstreamTyped DEF Upstream
      <4>2. ~(c \subseteq Upstream)
        BY <1>1, <2>1, <3>3, <4>1, TipTyped
      <4>3. OldBase = {}
        BY <1>1, <3>1, <3>3, <4>2 DEF Refused
      <4>4. PICK r \in Remotes : c = seen[r][Main]
        BY <1>1, <3>1, <3>3, <4>3 DEF IInv, TipsFrom, Fetching, OldBase
      <4> QED BY <1>1, <3>3, <4>4 DEF LocalOnly
    <3> QED BY <3>2, <3>3
  <2> QED BY <1>1, <2>2, <2>3, <2>4, <2>5, WhoMovesBookmarks
<1>2. ASSUME IInv, [Next]_vars
      PROVE  [(pc # "idle" /\ ~opt.save) =>
                \A b \in Branches : \A c \in local[b] :
                   LocalOnly(c) => \E d \in local'[b] : c \subseteq d]_vars
  BY <1>1, <1>2
<1> QED BY Invariance, <1>2, PTL DEF Spec, NothingDisplaced

(* No step takes a bookmark out of a conflict that is the operator's.      *)
THEOREM ConflictsAreLeft == Spec => ManualResolution
<1>1. ASSUME IInv, [Next]_vars, pc \notin {"idle", "fetch"},
             NEW b \in Branches, Conflict(b), LeftToOperator(b)
      PROVE  local'[b] = local[b]
  <2>1. TypeOK
    BY <1>1 DEF IInv
  <2>2. CASE local' = local
    BY <2>2
  <2>3. ASSUME NEW r \in Remotes, Fetch(r)
        PROVE  FALSE
    BY <1>1, <2>3 DEF Fetch
  <2>4. ASSUME NEW r \in Remotes, NEW d \in Branches, SetDisplaced(r, d)
        PROVE  local'[b] = local[b]
    <3>1. <<r, d>> \in Displaced
      BY <1>1, <2>4 DEF SetDisplaced, IInv, Displacing
    <3>2. b # d
      BY <1>1, <3>1, DisplacedFacts DEF LeftToOperator, OnlyTracked
    <3> QED BY <2>1, <2>4, <3>2 DEF SetDisplaced, TypeOK, Bookmarks
  <2>5. CASE SetBase
    <3>1. b # Main
      BY <1>1, <2>5 DEF SetBase, Conflicted, Conflict
    <3> QED BY <2>1, <2>5, <3>1 DEF SetBase, TypeOK, Bookmarks
  <2> QED BY <1>1, <2>2, <2>3, <2>4, <2>5, WhoMovesBookmarks
<1>2. ASSUME IInv, [Next]_vars
      PROVE  [pc \notin {"idle", "fetch"} =>
                \A b \in Branches : Conflict(b) /\ LeftToOperator(b)
                                       => local'[b] = local[b]]_vars
  BY <1>1, <1>2
<1> QED BY Invariance, <1>2, PTL DEF Spec, ManualResolution

(* Only Begin, on an absent archive, and Advance move @ during a run.      *)
LEMMA WhoMovesAt ==
    ASSUME IInv, [Next]_vars, pc # "idle"
    PROVE  at' = at \/ Advance
<1>1. CASE Outside
  BY <1>1 DEF Outside, Operator, Edit, New, SetLocal, Push, repo, marks
<1>2. CASE Begin
  BY <1>2 DEF Begin
<1>3. CASE Run
  BY <1>3 DEF Run, SkipUpdate, HarvestWork, Untrack, Untracked, Fetch, SetBase,
     Track, SetDisplaced, ReadAfter, Save, Return, Throw, repo, marks
<1>4. CASE Abort \/ UNCHANGED vars
  BY <1>4 DEF Abort, vars, repo, marks
<1> QED BY <1>1, <1>2, <1>3, <1>4 DEF Next

(* Uncommitted edits stay in the checkout or in a bookmark.                *)
THEOREM EditsAreKept == Spec => EditsKept
<1>1. ASSUME IInv, [Next]_vars, pc # "idle"
      PROVE  at.own \subseteq UNION (Pins' \cup {CommitOf(at')})
  <2>1. CASE at' = at
    BY <2>1 DEF CommitOf
  <2>2. CASE Advance
    <3>1. at.own = {} \/ at \in harvest'
      BY <1>1, <2>2, PinsStay DEF IInv, Remembered, Fetching, Advance
    <3>2. at \in harvest' => CommitOf(at) \in Pins'
      BY DEF Pins, CommitOf
    <3> QED BY <3>1, <3>2 DEF CommitOf
  <2> QED BY <1>1, <2>1, <2>2, WhoMovesAt
<1>2. ASSUME IInv, [Next]_vars
      PROVE  [pc # "idle" =>
                at.own \subseteq UNION (Pins' \cup {CommitOf(at')})]_vars
  BY <1>1, <1>2
<1> QED BY Invariance, <1>2, PTL DEF Spec, EditsKept

(* A run that is not told to go elsewhere only adds to the checkout.       *)
THEOREM RunsMerge == Spec => Merges
<1>1. ASSUME IInv, [Next]_vars, pc = "advance", ~selectedSaved, ~opt.follow
      PROVE  CommitOf(at) \subseteq CommitOf(at')
  <2>1. CASE at' = at
    BY <2>1
  <2>2. CASE Advance
    BY <1>1, <2>2, AdvanceMoves
  <2> QED BY <1>1, <2>1, <2>2, WhoMovesAt
<1>2. ASSUME IInv, [Next]_vars
      PROVE  [(pc = "advance" /\ ~selectedSaved /\ ~opt.follow)
                => CommitOf(at) \subseteq CommitOf(at')]_vars
  BY <1>1, <1>2
<1> QED BY Invariance, <1>2, PTL DEF Spec, Merges
=============================================================================
