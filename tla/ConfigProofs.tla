---------------------------- MODULE ConfigProofs ----------------------------
(***************************************************************************)
(* The promises of the commands on compiled configs, for any names,        *)
(* recipes, runs, catalogs, first files and choice of commands: how the    *)
(* commands' own steps keep the invariant of ConfigCommitProofs, and what  *)
(* follows from it.                                                        *)
(***************************************************************************)
EXTENDS ConfigCommitProofs

-----------------------------------------------------------------------------
(* How the commands' own steps change the record of a run.                 *)

LEMMA TailFacts ==
    ASSUME NEW S, NEW seq \in Seq(S), seq # <<>>
    PROVE  /\ Head(seq) = seq[1] /\ Head(seq) \in S /\ Tail(seq) \in Seq(S)
           /\ 1 \in DOMAIN seq /\ Len(Tail(seq)) = Len(seq) - 1 /\ Len(seq) \in Nat
           /\ Len(seq) >= 1
           /\ DOMAIN Tail(seq) = 1 .. Len(seq) - 1
           /\ \A i \in DOMAIN Tail(seq) : i + 1 \in DOMAIN seq /\ Tail(seq)[i] = seq[i + 1]
           /\ Len(seq) > 1 <=> Tail(seq) # <<>>
  <1>1. Len(seq) \in Nat /\ DOMAIN seq = 1 .. Len(seq) /\ Len(seq) >= 1
    OBVIOUS
  <1>2. /\ Head(seq) = seq[1] /\ Tail(seq) \in Seq(S) /\ Len(Tail(seq)) = Len(seq) - 1
        /\ DOMAIN Tail(seq) = 1 .. Len(seq) - 1
        /\ \A i \in DOMAIN Tail(seq) : Tail(seq)[i] = seq[i + 1]
    BY <1>1
  <1>3. Head(seq) \in S
    BY <1>1, <1>2
  <1>4. Len(seq) > 1 <=> Tail(seq) # <<>>
    <2> DEFINE tail == Tail(seq)
    <2>1. tail \in Seq(S) /\ Len(tail) = Len(seq) - 1
      BY <1>2
    <2> HIDE DEF tail
    <2>2. tail # <<>> <=> Len(tail) # 0
      BY <2>1, SMTT(40)
    <2>. QED
      BY <1>1, <2>1, <2>2 DEF tail
  <1>. QED
    BY <1>1, <1>2, <1>3, <1>4

(* What a command's own step keeps of the runner's work.                   *)
Kept(r) ==
    /\ run' \in [Runs -> Invocations] /\ Others(r) /\ Fixed(r) /\ Work(r)

Advances(r) == \E failed \in BOOLEAN : run' = Advance(r, failed)

LEMMA AdvanceFields ==
    ASSUME TypeOK, NEW r \in Runs, Advances(r), run[r].todo # <<>>
    PROVE  /\ Kept(r)
           /\ run'[r].todo = Tail(run[r].todo)
           /\ run'[r].previous = run[r].previous
           /\ run'[r].at = run[r].at /\ run'[r].cut = run[r].cut
           /\ \/ run'[r].step = "look" /\ Len(run[r].todo) > 1
              \/ run'[r].step = "list" /\ run[r].cmd = "install"
              \/ run'[r].step = "return"
  <1>1. run \in [Runs -> Invocations] /\ run[r] \in Invocations
    BY RunTyping
  <1>2. PICK failed \in BOOLEAN : run' = Advance(r, failed)
    BY DEF Advances
  <1> DEFINE bad == failed \/ run[r].failed
             step == IF Len(run[r].todo) > 1 THEN "look"
                     ELSE IF run[r].cmd = "install" /\ ~bad THEN "list" ELSE "return"
             code == IF bad THEN 2 ELSE 0
             tail == Tail(run[r].todo)
             q == [run[r] EXCEPT !.todo = tail, !.failed = bad, !.step = step,
                                 !.code = code]
  <1>3. run[r].todo \in Seq(Names)
    BY Held
  <1>4. tail \in Seq(Names)
    BY <1>3, TailFacts
  <1>5. bad \in BOOLEAN /\ step \in {"look", "list", "return"} /\ code \in {0, 2}
    BY Zenon
  <1>6. step \in Runnings
    BY <1>5 DEF Runnings, Running, Building
  <1>7. run' = [run EXCEPT ![r] = q]
    BY <1>1, <1>2, ZenonT(60) DEF Advance, Invocations
  <1>8. /\ step = "look" => Len(run[r].todo) > 1
        /\ step = "list" => run[r].cmd = "install"
    BY Zenon
  <1> HIDE DEF bad, step, code, tail
  <1>9. q \in Invocations
    BY <1>1, <1>4, <1>5, <1>6 DEF Invocations
  <1>10. run' \in [Runs -> Invocations]
    BY <1>7, <1>9, Retyped
  <1>11. run'[r] = q /\ Others(r)
    BY <1>1, <1>7 DEF Others
  <1>12. /\ Fixed(r) /\ Work(r) /\ run'[r].todo = tail /\ run'[r].step = step
         /\ run'[r].previous = run[r].previous
         /\ run'[r].at = run[r].at /\ run'[r].cut = run[r].cut
    BY <1>1, <1>11 DEF Invocations, Fixed, Work
  <1>. QED
    BY <1>5, <1>8, <1>10, <1>11, <1>12 DEF Kept, tail

LEMMA OrderFacts ==
    /\ Order \in Seq(Names) /\ Elements(Order) = Names /\ Distinct(Order)
    /\ DOMAIN Order = 1 .. Len(Order) /\ Len(Order) \in Nat
    /\ \A i \in DOMAIN Order : Order[i] \in Names
  <1>1. Order \in Seq(Names) /\ Elements(Order) = Names /\ Distinct(Order)
    BY InputsAssumption DEF Lists, Distinct
  <1>. QED
    BY <1>1

LEMMA CatalogFields ==
    ASSUME TypeOK, NEW r \in Runs, Catalog(r)
    PROVE  /\ Kept(r)
           /\ run'[r].previous = run[r].previous /\ run'[r].cut = run[r].cut
           /\ run[r].at \in DOMAIN Order
           /\ \/ run'[r].todo = run[r].todo
              \/ run'[r].todo = Append(run[r].todo, Order[run[r].at])
           /\ \/ /\ run[r].at # Len(Order)
                 /\ run'[r].step = "catalog" /\ run'[r].at = run[r].at + 1
              \/ run'[r].step = "look" /\ run'[r].todo # <<>> /\ run'[r].at = 1
              \/ run'[r].step = "return" /\ run'[r].at = 1
              \/ run'[r].step = "list" /\ run'[r].at = 1
  <1> DEFINE n == Order[run[r].at]
             state == donor[n].state
             todo == IF state = "missing" THEN run[r].todo
                     ELSE Append(run[r].todo, n)
             last == run[r].at = Len(Order)
             step == IF ~last THEN "catalog"
                     ELSE IF todo # <<>> THEN "look"
                     ELSE IF run[r].cmd = "sync" THEN "return" ELSE "list"
             at == IF last THEN 1 ELSE run[r].at + 1
             cat == [run[r].catalog EXCEPT ![n] = state]
             q == [run[r] EXCEPT !.catalog[n] = state, !.todo = todo,
                                 !.step = step, !.at = at]
  <1>1. run \in [Runs -> Invocations] /\ run[r] \in Invocations
    BY RunTyping
  <1>2. run[r].at \in DOMAIN Order /\ run[r].at \in Nat
    BY Held, Zenon DEF Catalog, TypeOK, Positions
  <1>3. n \in Names
    BY <1>2, OrderFacts
  <1>4. state \in {"enabled", "disabled", "missing"}
    BY <1>3 DEF TypeOK
  <1>5. run[r].todo \in Seq(Names)
      /\ run[r].catalog \in [Names -> {"enabled", "disabled", "missing"}]
    BY Held
  <1>6. todo \in Seq(Names) /\ (todo = run[r].todo \/ todo = Append(run[r].todo, n))
    BY <1>3, <1>5, SMTT(40)
  <1>7. run' = [run EXCEPT ![r].catalog[n] = state, ![r].todo = todo,
                           ![r].step = step, ![r].at = IF last THEN 1 ELSE @ + 1]
    BY Zenon DEF Catalog
  <1>9. /\ \/ ~last /\ step = "catalog" /\ at = run[r].at + 1
           \/ step = "look" /\ todo # <<>> /\ at = 1
           \/ step = "return" /\ at = 1
           \/ step = "list" /\ at = 1
        /\ at \in Nat
    BY <1>2
  <1>10. step \in Runnings
    BY <1>9 DEF Runnings, Running, Building
  <1> HIDE DEF n, state, todo, step
  <1>8. run' = [run EXCEPT ![r] = q]
    BY <1>1, <1>7, ZenonT(60) DEF Invocations
  <1> HIDE DEF at
  <1>11. cat \in [Names -> {"enabled", "disabled", "missing"}]
    BY <1>3, <1>4, <1>5
  <1>12. q = [run[r] EXCEPT !.catalog = cat, !.todo = todo, !.step = step, !.at = at]
    BY <1>1 DEF Invocations
  <1> HIDE DEF cat
  <1>13. q \in Invocations
    BY <1>1, <1>6, <1>9, <1>10, <1>11, <1>12, ZenonT(60) DEF Invocations
  <1>14. run' \in [Runs -> Invocations]
    BY <1>8, <1>13, Retyped
  <1>15. run'[r] = q /\ Others(r)
    BY <1>1, <1>8 DEF Others
  <1>16. /\ Fixed(r) /\ Work(r) /\ run'[r].todo = todo /\ run'[r].step = step
         /\ run'[r].previous = run[r].previous
         /\ run'[r].at = at /\ run'[r].cut = run[r].cut
    BY <1>1, <1>12, <1>15 DEF Invocations, Fixed, Work
  <1>. QED
    BY <1>2, <1>6, <1>9, <1>14, <1>15, <1>16, SMTT(40) DEF Kept, n

LEMMA LookFields ==
    ASSUME TypeOK, NEW r \in Runs, Look(r)
    PROVE  /\ Kept(r) /\ run[r].step = "look"
           /\ run'[r].todo = run[r].todo /\ run'[r].previous = run[r].previous
           /\ run'[r].cut = run[r].cut /\ run'[r].at = run[r].at
           /\ \/ run'[r].step = "look" /\ saw[r] = Unseen
              \/ run'[r].step = "act" /\ saw[r] # Unseen
  <1>1. run \in [Runs -> Invocations] /\ run[r] \in Invocations /\ run[r].step = "look"
    BY RunTyping DEF Look
  <1>2. CASE run' = run /\ saw[r] = Unseen
    BY <1>1, <1>2 DEF Kept, Others, Fixed, Work
  <1>3. CASE run' = [run EXCEPT ![r].step = "act"] /\ saw[r] # Unseen
    <2> DEFINE q == [run[r] EXCEPT !.step = "act"]
    <2>1. q \in Invocations
      BY <1>1 DEF Invocations, Runnings
    <2>2. run' = [run EXCEPT ![r] = q]
      BY <1>1, <1>3 DEF Invocations
    <2>3. run' \in [Runs -> Invocations]
      BY <2>1, <2>2, Retyped
    <2>4. run'[r] = q /\ Others(r)
      BY <1>1, <2>2 DEF Others
    <2>5. /\ Fixed(r) /\ Work(r)
          /\ run'[r].todo = run[r].todo /\ run'[r].previous = run[r].previous
          /\ run'[r].cut = run[r].cut /\ run'[r].at = run[r].at
          /\ run'[r].step = "act"
      BY <1>1, <2>4, SMTT(40) DEF Invocations, Fixed, Work
    <2>. QED
      BY <1>1, <1>3, <2>3, <2>4, <2>5 DEF Kept
  <1>. QED
    BY <1>2, <1>3 DEF Look

(* A registration is noted, with what was there.                           *)
Noted(r) == [name |-> Name(r), slot |-> SlotFor(r, "enabled"),
             file |-> saw[r][SlotFor(r, "enabled")]]

LEMMA PreflightFields ==
    ASSUME TypeOK, NEW r \in Runs, Preflight(r), Noted(r) \in Previous
    PROVE  /\ Kept(r)
           /\ run'[r].cut = run[r].cut /\ run'[r].at = run[r].at
           /\ \/ /\ Conflict(r) /\ run'[r].step = "return" /\ run'[r].code = 1
                 /\ run'[r].todo = run[r].todo /\ run'[r].previous = run[r].previous
              \/ /\ ~Conflict(r) /\ run'[r].todo = Tail(run[r].todo)
                 /\ run'[r].previous = Append(run[r].previous, Noted(r))
                 /\ \/ run'[r].step = "look" /\ Len(run[r].todo) > 1
                    \/ run'[r].step = "register" /\ ~(Len(run[r].todo) > 1)
  <1>1. run \in [Runs -> Invocations] /\ run[r] \in Invocations
    BY RunTyping
  <1>2. run[r].todo \in Seq(Names) /\ run[r].todo # <<>> /\ run[r].previous \in Seq(Previous)
    BY Held DEF TypeOK, Positions, Preflight, Acts
  <1>3. CASE run' = Finish(r, 1) /\ Conflict(r)
    BY <1>3, FinishFields DEF Kept, Goes, Inquiry
  <1> DEFINE tail == Tail(run[r].todo)
             prev == Append(run[r].previous, Noted(r))
             step == IF Len(run[r].todo) > 1 THEN "look" ELSE "register"
             q == [run[r] EXCEPT !.previous = prev, !.todo = tail, !.step = step]
  <1>4. CASE run' = [run EXCEPT ![r].previous = Append(@, Noted(r)),
                                ![r].todo = Tail(@), ![r].step = step] /\ ~Conflict(r)
    <2>1. tail \in Seq(Names) /\ prev \in Seq(Previous)
      BY <1>2, TailFacts, AppendFacts
    <2>2. run' = [run EXCEPT ![r] = q]
      BY <1>1, <1>4, ZenonT(60) DEF Invocations
    <2>3. \/ step = "look" /\ Len(run[r].todo) > 1
          \/ step = "register" /\ ~(Len(run[r].todo) > 1)
      OBVIOUS
    <2>4. step \in Runnings
      BY <2>3 DEF Runnings
    <2> HIDE DEF tail, prev, step
    <2>5. q \in Invocations
      BY <1>1, <2>1, <2>4 DEF Invocations
    <2>6. run' \in [Runs -> Invocations]
      BY <2>2, <2>5, Retyped
    <2>7. run'[r] = q /\ Others(r)
      BY <1>1, <2>2 DEF Others
    <2>8. /\ Fixed(r) /\ Work(r) /\ run'[r].todo = tail /\ run'[r].step = step
          /\ run'[r].previous = prev
          /\ run'[r].at = run[r].at /\ run'[r].cut = run[r].cut
      BY <1>1, <2>7 DEF Invocations, Fixed, Work
    <2>. QED
      BY <1>4, <2>3, <2>6, <2>7, <2>8 DEF Kept, tail, prev
  <1>. QED
    BY <1>3, <1>4 DEF Preflight, Noted

FinishCut(r) == run' = [Finish(r, 1) EXCEPT ![r].cut = TRUE]

LEMMA FinishCutFields ==
    ASSUME TypeOK, NEW r \in Runs, FinishCut(r)
    PROVE  /\ Kept(r) /\ Inquiry(r) /\ run'[r].step = "return" /\ run'[r].cut
  <1>1. run \in [Runs -> Invocations] /\ run[r] \in Invocations
    BY RunTyping
  <1>2. run' = [run EXCEPT ![r] = [run[r] EXCEPT !.step = "return", !.code = 1, !.cut = TRUE]]
    BY <1>1 DEF FinishCut, Finish
  <1>3. /\ run'[r] = [run[r] EXCEPT !.step = "return", !.code = 1, !.cut = TRUE]
        /\ Others(r)
    BY <1>1, <1>2 DEF Others
  <1>4. "return" \in Runnings
    BY DEF Runnings
  <1>5. [run[r] EXCEPT !.step = "return", !.code = 1, !.cut = TRUE] \in Invocations
    BY <1>1, <1>4 DEF Invocations
  <1>6. run' \in [Runs -> Invocations]
    BY <1>1, <1>2, <1>5
  <1>7. run'[r].cut
    BY <1>1, <1>3 DEF Invocations
  <1>8. /\ Fixed(r) /\ Inquiry(r) /\ Work(r) /\ run'[r].step = "return"
    BY <1>1, <1>3 DEF Invocations, Fixed, Inquiry, Work
  <1>. QED
    BY <1>3, <1>6, <1>7, <1>8 DEF Kept

(* An invocation is over.                                                  *)
LEMMA RestingTyping ==
    ASSUME NEW step \in Runnings \cup {"idle", "done"}
    PROVE  Resting(step) \in Invocations
  <1>1. /\ <<>> \in Seq(Recipes) /\ <<>> \in Seq(Names) /\ <<>> \in Seq(Previous)
        /\ [n \in Names |-> "missing"] \in [Names -> {"enabled", "disabled", "missing"}]
    OBVIOUS
  <1>2. [c \in Recipes |-> Missing] \in Outputs
    BY DEF Outputs, Contents
  <1>3. [n \in Names |-> [s \in Slots |-> "missing"]] \in Entries
    BY DEF Entries, Files
  <1>4. NoFiles \in [entry : Entries, output : Outputs]
    BY <1>2, <1>3 DEF NoFiles
  <1>. QED
    BY <1>1, <1>2, <1>4 DEF Resting, Invocations

LEMMA DoneFields ==
    ASSUME TypeOK, NEW r \in Runs, run' = [run EXCEPT ![r] = Resting("done")]
    PROVE  /\ run' \in [Runs -> Invocations] /\ Others(r)
           /\ run'[r].step = "done" /\ run'[r].at = 1
           /\ run'[r].recipes = <<>> /\ run'[r].pending = <<>> /\ run'[r].reserved = {}
  <1>1. run \in [Runs -> Invocations]
    BY RunTyping
  <1>2. Resting("done") \in Invocations
    BY RestingTyping
  <1>3. run'[r] = Resting("done") /\ Others(r)
    BY <1>1 DEF Others
  <1>4. run' \in [Runs -> Invocations]
    BY <1>2, Retyped
  <1>. QED
    BY <1>3, <1>4 DEF Resting

-----------------------------------------------------------------------------
(* What the commands' own steps keep of the invariant.                     *)

Around == Early \cup {"list", "revert", "return"}

LEMMA CommandShape ==
    ASSUME TypeOK, NEW r \in Runs, Queues(r), Kept(r),
           run'[r].step \in Around,
           run'[r].step \in Early \cup {"list"} => run[r].step \in Early,
           \A i \in DOMAIN run'[r].todo : run'[r].todo[i] \in Own(r),
           \A i \in DOMAIN run'[r].previous : run'[r].previous[i].name \in Own(r),
           run'[r].step \in {"look", "act"} => run'[r].at = 1 /\ run'[r].todo # <<>>,
           run'[r].step = "list" => run'[r].at = 1,
           run'[r].step = "catalog" => run'[r].at \in DOMAIN Order,
           run'[r].step \in {"register", "revert"}
               => run'[r].at \in DOMAIN run'[r].previous,
           run'[r].cut => run'[r].step \in {"revert", "return"}
    PROVE  Queues(r)' /\ Positions(r)' /\ Cutting(r)'
  <1>1. RecipesOf(r)' = RecipesOf(r) /\ Own(r)' = Own(r)
    BY Unfixed DEF Kept
  <1>2. run'[r].step \notin {"compare", "stage", "reserve", "build", "exit", "ended"}
                                \cup Committing
    BY DEF Around, Early, Committing
  <1>3. Queues(r)'
    BY <1>1, <1>2 DEF Queues, Kept, Fixed, Work, Distinct
  <1>4. Positions(r) /\ run[r].recipes \in Seq(Recipes) /\ run[r].recipes # <<>>
    BY Held DEF TypeOK, Queues
  <1>5. 1 \in DOMAIN run[r].recipes
    BY <1>4, TailFacts
  <1>6. Positions(r)'
    BY <1>1, <1>2, <1>4, <1>5 DEF Positions, Kept, Fixed, Work, Committing
  <1>7. Cutting(r)'
    BY <1>2 DEF Cutting
  <1>. QED
    BY <1>3, <1>6, <1>7

LEMMA CommandCommits ==
    ASSUME NEW r \in Runs, Commits(r), Fixed(r), output' = output,
           run'[r].step \in Around, run'[r].step = "list" => run'[r].at = 1,
           run'[r].step # "return" /\ ~run'[r].cut =>
               /\ ~run[r].cut
               /\ \/ run[r].step \in Quiet
                  \/ run[r].step = "ended" /\ run[r].code # 0
    PROVE  Commits(r)' /\ Texts(r)'
  <1>1. RecipesOf(r)' = RecipesOf(r) /\ \A c : Old(r, c)' = Old(r, c)
    BY Unfixed
  <1>2. run'[r].step \notin {"compare", "stage", "reserve", "build", "exit", "ended"}
                                \cup Committing
    BY DEF Around, Early, Committing
  <1>3. Reserved(r)' /\ Staged(r)' /\ Equal(r)'
    BY <1>2 DEF Reserved, Staged, Equal, Committing
  <1>4. "return" \notin Quiet
    BY DEF Quiet, Early, Building
  <1>5. ~run[r].cut /\ run[r].step \in Quiet => \A c \in RecipesOf(r) : output[c] = Old(r, c)
    BY DEF Commits, Outcome
  <1>6. ~run[r].cut /\ run[r].step = "ended" /\ run[r].code # 0
            => \A c \in RecipesOf(r) : output[c] = Old(r, c)
    BY DEF Commits, Outcome
  <1>7. Outcome(r)'
    BY <1>1, <1>2, <1>4, <1>5, <1>6 DEF Outcome
  <1>8. run'[r].step = "list" => \A i \in 1 .. run'[r].at - 1 : FALSE
    OBVIOUS
  <1>9. Texts(r)'
    BY <1>2, <1>8 DEF Texts
  <1>. QED
    BY <1>3, <1>7, <1>9 DEF Commits

(* What a step of a run leaves alone outside of its own inputs and outputs. *)
Aside(r) ==
    /\ Frame(r) /\ donor' = donor /\ entry' \in Entries
    /\ saw' \in [Runs -> [Slots -> Files \cup {"unseen"}]]
    /\ \A s \in Runs : s # r => saw'[s] = saw[s]
    /\ \A n \in Names \ Own(r) : entry'[n] = entry[n]

LEMMA AsideKept ==
    ASSUME TypeOK, NEW r \in Runs, run' \in [Runs -> Invocations], Others(r),
           UNCHANGED shared,
           faults' \in 0 .. MaxFaults, entry' \in Entries,
           \A n \in Names \ Own(r) : entry'[n] = entry[n],
           saw' = saw \/ saw' = [saw EXCEPT ![r] = Unseen]
    PROVE  Aside(r)
  <1>1. Frame(r) /\ donor' = donor
    BY FilesKept DEF shared
  <1>2. saw \in [Runs -> [Slots -> Files \cup {"unseen"}]]
    BY DEF TypeOK
  <1>3. Unseen \in [Slots -> Files \cup {"unseen"}]
    BY DEF Unseen
  <1>4. saw' \in [Runs -> [Slots -> Files \cup {"unseen"}]]
        /\ \A s \in Runs : s # r => saw'[s] = saw[s]
    BY <1>2, <1>3
  <1>. QED
    BY <1>1, <1>4 DEF Aside

(* What is to be shown of each step of a run.                              *)
Sounder(r) ==
    /\ Fixed(r) /\ Aside(r) /\ Busy(r)' /\ Shape(r)' /\ Positions(r)'
    /\ run[r].clear => Commits(r)' /\ Texts(r)' /\ Inputs(r)'

LEMMA SoundParts ==
    ASSUME NEW r \in Runs, Sound(r), Busy(r)
    PROVE  /\ Queues(r) /\ Registering(r) /\ Cutting(r) /\ Seeing(r)
           /\ run[r].clear => Commits(r) /\ Texts(r) /\ Inputs(r)
  <1>. QED
    BY DEF Sound, Mine, Shape

LEMMA SawTyping ==
    ASSUME TypeOK, NEW r \in Runs
    PROVE  /\ saw \in [Runs -> [Slots -> Files \cup {"unseen"}]]
           /\ saw[r] \in [Slots -> Files \cup {"unseen"}]
           /\ entry \in Entries /\ "unseen" \notin Files
           /\ \A n \in Names : entry[n] \in [Slots -> Files]
           /\ \A n \in Names, s \in Slots : entry[n][s] \in Files
           /\ faults \in 0 .. MaxFaults
  <1>. QED
    BY DEF TypeOK, Entries, Files, Links

(* Inputs that stay as they are keep what is known of them.                *)
LEMMA ChoicesStay ==
    ASSUME NEW r \in Runs, Inputs(r), Fixed(r), entry' = entry
    PROVE  Choices(r)'
  <1>1. Own(r)' = Own(r) /\ \A n : Was(r, n)' = Was(r, n)
    BY DEF Fixed, Own, RecipesOf, Was
  <1>. QED
    BY <1>1 DEF Inputs, Choices, Fixed, Occupied

LEMMA QueueNames ==
    ASSUME TypeOK, NEW r \in Runs, Queues(r), run[r].step \in {"look", "act"}
    PROVE  /\ Name(r) \in Own(r) /\ Name(r) \in Names /\ Name(r) = run[r].todo[1]
           /\ run[r].todo \in Seq(Names) /\ run[r].todo # <<>> /\ run[r].at = 1
           /\ \A i \in DOMAIN Tail(run[r].todo) : Tail(run[r].todo)[i] \in Own(r)
           /\ Len(run[r].todo) > 1 <=> Tail(run[r].todo) # <<>>
  <1>1. run[r].todo \in Seq(Names) /\ run[r].todo # <<>>
    BY Held DEF TypeOK, Positions
  <1>. QED
    BY <1>1, TailFacts DEF Queues, Name

(* A command other than a registration keeps what is known of them.        *)
LEMMA NotRegistering ==
    ASSUME NEW r \in Runs, Fixed(r), Registering(r), run[r].cmd # "register",
           run'[r].step \notin {"register", "revert"},
           run'[r].step = "catalog" => run[r].step = "catalog"
    PROVE  Registering(r)' /\ Registered(r)'
  <1>. QED
    BY DEF Registering, Registered, Fixed

LEMMA CatalogSound ==
    ASSUME NEW r \in Runs, TypeOK, Sound(r), Catalog(r)
    PROVE  Sounder(r)
  <1>1. /\ run[r].step = "catalog" /\ UNCHANGED shared /\ entry' = entry
        /\ faults' = faults /\ saw' = saw
    BY Zenon DEF Catalog
  <1>2. /\ Queues(r) /\ Registering(r) /\ Cutting(r) /\ Seeing(r)
        /\ run[r].clear => Commits(r) /\ Texts(r) /\ Inputs(r)
    BY <1>1, SoundParts DEF Busy
  <1>3. /\ Kept(r)
        /\ run'[r].previous = run[r].previous /\ run'[r].cut = run[r].cut
        /\ run[r].at \in DOMAIN Order
        /\ \/ run'[r].todo = run[r].todo
           \/ run'[r].todo = Append(run[r].todo, Order[run[r].at])
        /\ \/ /\ run[r].at # Len(Order)
              /\ run'[r].step = "catalog" /\ run'[r].at = run[r].at + 1
           \/ run'[r].step = "look" /\ run'[r].todo # <<>> /\ run'[r].at = 1
           \/ run'[r].step = "return" /\ run'[r].at = 1
           \/ run'[r].step = "list" /\ run'[r].at = 1
    BY CatalogFields
  <1>4. run[r].cmd \in {"install", "sync"} /\ ~run[r].cut /\ RecipesOf(r) = Recipes
    BY <1>1, <1>2, InputsAssumption DEF Registering, Cutting, RecipesOf, Lists
  <1>5. \A n \in Names : n \in Own(r)
    BY <1>4, CommitAssumption DEF Own
  <1>6. \A i \in DOMAIN run'[r].todo : run'[r].todo[i] \in Own(r)
    <2>1. CASE run'[r].todo = run[r].todo
      BY <1>2, <2>1 DEF Queues
    <2>2. CASE run'[r].todo = Append(run[r].todo, Order[run[r].at])
      <3>1. Order[run[r].at] \in Names /\ run[r].todo \in Seq(Names)
        BY <1>3, OrderFacts, Held
      <3>2. run'[r].todo \in Seq(Names)
        BY <2>2, <3>1, AppendFacts
      <3>. QED
        BY <1>5, <3>2, ElementsTyping
    <2>. QED
      BY <1>3, <2>1, <2>2
  <1>7. run'[r].step \in {"catalog", "look", "return", "list"} /\ run[r].step \in Early
        /\ {"catalog", "look", "list", "return"} \subseteq Around
    BY <1>1, <1>3 DEF Early, Around
  <1>8. run'[r].step = "catalog" => run'[r].at \in DOMAIN Order
    <2>1. run[r].at \in 1 .. Len(Order) /\ Len(Order) \in Nat /\ DOMAIN Order = 1 .. Len(Order)
      BY <1>3, OrderFacts, SMTT(40)
    <2>. QED
      BY <1>3, <2>1
  <1>9. Queues(r)' /\ Positions(r)' /\ Cutting(r)'
    BY <1>2, <1>3, <1>4, <1>6, <1>7, <1>8, CommandShape DEF Queues
  <1>10. Seeing(r)'
    BY <1>1, <1>2, <1>7 DEF Seeing
  <1>11. Registering(r)' /\ Registered(r)'
    BY <1>1, <1>2, <1>3, <1>4, <1>7, NotRegistering DEF Kept
  <1>12. Aside(r)
    BY <1>1, <1>3, AsideKept, SawTyping DEF Kept
  <1>13. ASSUME run[r].clear PROVE Commits(r)' /\ Texts(r)' /\ Inputs(r)'
    <2>1. Commits(r)' /\ Texts(r)'
      BY <1>1, <1>2, <1>3, <1>4, <1>7, <1>13, CommandCommits DEF Kept, Quiet, shared, files
    <2>2. Choices(r)'
      BY <1>1, <1>2, <1>3, <1>13, ChoicesStay DEF Kept
    <2>3. Looked(r)'
      BY <1>1, <1>2, SawTyping DEF Looked, Seeing, Unseen
    <2>. QED
      BY <1>11, <2>1, <2>2, <2>3 DEF Inputs
  <1>. QED
    BY <1>3, <1>9, <1>10, <1>11, <1>12, <1>13, SMTT(40) DEF Sounder, Shape, Kept, Busy

(* Nothing is registered or put back by a step of the lookups.             *)
LEMMA RegisteredStays ==
    ASSUME NEW r \in Runs, Fixed(r), Registered(r), entry' = entry,
           run'[r].previous = run[r].previous, Touched(r)' = Touched(r),
           run[r].step # "return"
    PROVE  Registered(r)'
  <1>1. Own(r)' = Own(r) /\ \A n : Was(r, n)' = Was(r, n)
    BY DEF Fixed, Own, RecipesOf, Was
  <1>. QED
    BY <1>1, SMTT(40) DEF Registered, Fixed

LEMMA LookSound ==
    ASSUME NEW r \in Runs, TypeOK, Sound(r), Look(r)
    PROVE  Sounder(r)
  <1>1. /\ run[r].step = "look" /\ UNCHANGED shared /\ entry' = entry /\ faults' = faults
    BY DEF Look
  <1>2. /\ Queues(r) /\ Registering(r) /\ Cutting(r) /\ Seeing(r)
        /\ run[r].clear => Commits(r) /\ Texts(r) /\ Inputs(r)
    BY <1>1, SoundParts DEF Busy
  <1>3. /\ Kept(r)
        /\ run'[r].todo = run[r].todo /\ run'[r].previous = run[r].previous
        /\ run'[r].cut = run[r].cut /\ run'[r].at = run[r].at
        /\ \/ run'[r].step = "look" /\ saw[r] = Unseen
           \/ run'[r].step = "act" /\ saw[r] # Unseen
    BY LookFields
  <1>4. PICK s \in Slots : /\ saw[r][s] = "unseen"
                           /\ saw' = [saw EXCEPT ![r][s] = entry[Name(r)][s]]
    BY DEF Look
  <1>5. /\ Name(r) \in Names /\ run[r].todo # <<>> /\ run[r].at = 1 /\ Name(r) = run[r].todo[1]
    BY <1>1, <1>2, QueueNames
  <1>6. /\ saw[r] \in [Slots -> Files \cup {"unseen"}]
        /\ entry[Name(r)][s] \in Files /\ entry[Name(r)][s] # "unseen"
    BY <1>5, SawTyping
  <1>7. /\ saw' \in [Runs -> [Slots -> Files \cup {"unseen"}]]
        /\ saw'[r][s] = entry[Name(r)][s]
        /\ \A t \in Slots : t # s => saw'[r][t] = saw[r][t]
        /\ \A q \in Runs : q # r => saw'[q] = saw[q]
    BY <1>4, <1>6, SawTyping
  <1>8. {run'[r].step, run[r].step} \subseteq Early /\ ~run[r].cut
        /\ run'[r].step \in Around
    BY <1>1, <1>2, <1>3 DEF Early, Cutting, Around
  <1>9. Queues(r)' /\ Positions(r)' /\ Cutting(r)'
    BY <1>1, <1>2, <1>3, <1>5, <1>8, CommandShape DEF Queues
  <1>10. Seeing(r)'
    <2>1. CASE run'[r].step = "look"
      BY <2>1 DEF Seeing
    <2>2. CASE run'[r].step = "act" /\ saw[r] # Unseen
      <3>1. PICK t \in Slots : saw[r][t] # "unseen"
        BY <1>6, <2>2 DEF Unseen
      <3>2. \A u \in Slots : u = s \/ u = t
        BY <1>4, <3>1 DEF Slots
      <3>. QED
        BY <1>4, <1>6, <1>7, <2>2, <3>1, <3>2 DEF Seeing
    <2>. QED
      BY <1>3, <2>1, <2>2
  <1>11. Registering(r)'
    BY <1>1, <1>2, <1>3 DEF Registering, Kept, Fixed
  <1>12. Aside(r)
    <2>1. Frame(r) /\ donor' = donor
      BY <1>1, <1>3, FilesKept, SawTyping DEF shared, Kept
    <2>. QED
      BY <1>1, <1>7, <2>1, SawTyping DEF Aside
  <1>13. ASSUME run[r].clear PROVE Commits(r)' /\ Texts(r)' /\ Inputs(r)'
    <2>1. Commits(r)' /\ Texts(r)'
      BY <1>1, <1>2, <1>3, <1>8, <1>13, CommandCommits
         DEF Kept, Quiet, Early, shared, files
    <2>2. Choices(r)'
      BY <1>1, <1>2, <1>3, <1>13, ChoicesStay DEF Kept
    <2>3. Looked(r)'
      <3>1. Name(r)' = Name(r)
        BY <1>3 DEF Name
      <3>2. \A t \in Slots : saw[r][t] \in {"unseen", entry[Name(r)][t]}
        BY <1>1, <1>2, <1>13 DEF Inputs, Looked
      <3>. QED
        BY <1>1, <1>7, <3>1, <3>2 DEF Looked
    <2>4. Registered(r)'
      <3>1. Touched(r) = {} /\ Touched(r)' = {}
        BY <1>1, <1>3 DEF Touched, Running, Building, Committing
      <3>. QED
        BY <1>1, <1>2, <1>3, <1>13, <3>1, RegisteredStays DEF Inputs, Kept
    <2>. QED
      BY <2>1, <2>2, <2>3, <2>4 DEF Inputs
  <1>. QED
    BY <1>3, <1>9, <1>10, <1>11, <1>12, <1>13 DEF Sounder, Shape, Kept, Busy

(* A command ends, having changed nothing since the lookups.               *)
LEMMA FinishSound ==
    ASSUME NEW r \in Runs, TypeOK, Sound(r), run[r].step \in {"look", "act"},
           NEW code \in {0, 1}, run' = Finish(r, code), saw'[r] = Unseen,
           saw' = saw \/ saw' = [saw EXCEPT ![r] = Unseen],
           UNCHANGED shared, entry' = entry, faults' = faults
    PROVE  Sounder(r)
  <1>1. run[r].step \in Early
    BY DEF Early
  <1>2. /\ Queues(r) /\ Registering(r) /\ Cutting(r) /\ Seeing(r)
        /\ run[r].clear => Commits(r) /\ Texts(r) /\ Inputs(r)
    BY SoundParts DEF Busy
  <1>3. /\ Kept(r) /\ Inquiry(r) /\ run'[r].step = "return" /\ run'[r].cut = run[r].cut
    BY FinishFields DEF Kept, Goes
  <1>4. ~run[r].cut /\ run'[r].step \in Around
    BY <1>1, <1>2, <1>3 DEF Cutting, Early, Around
  <1>5. Queues(r)' /\ Positions(r)' /\ Cutting(r)'
    BY <1>1, <1>2, <1>3, <1>4, CommandShape DEF Queues, Inquiry, Early
  <1>6. Seeing(r)'
    BY <1>3 DEF Seeing
  <1>7. Registering(r)'
    BY <1>2, <1>3, ZenonT(60) DEF Registering, Kept, Fixed, Inquiry
  <1>8. Aside(r)
    BY <1>3, AsideKept, SawTyping DEF Kept
  <1>9. ASSUME run[r].clear PROVE Commits(r)' /\ Texts(r)' /\ Inputs(r)'
    <2>1. Commits(r)' /\ Texts(r)'
      BY <1>1, <1>2, <1>3, <1>4, <1>9, CommandCommits DEF Kept, shared, files
    <2>2. Choices(r)'
      BY <1>2, <1>3, <1>9, ChoicesStay DEF Kept
    <2>3. Looked(r)'
      BY <1>3 DEF Looked
    <2>4. Registered(r)'
      <3>1. Touched(r) = {} /\ Touched(r)' = {}
        BY <1>3 DEF Touched, Running, Building, Committing
      <3>. QED
        BY <1>2, <1>3, <1>9, <3>1, RegisteredStays DEF Inputs, Kept, Inquiry
    <2>. QED
      BY <2>1, <2>2, <2>3, <2>4 DEF Inputs
  <1>. QED
    BY <1>3, <1>5, <1>6, <1>7, <1>8, <1>9 DEF Sounder, Shape, Kept, Busy

(* A command other than a registration acts on one of its names.           *)
LEMMA ActSound ==
    ASSUME NEW r \in Runs, TypeOK, Sound(r), run[r].step \in {"look", "act"},
           run[r].cmd # "register", Kept(r),
           run'[r].todo = run[r].todo \/ run'[r].todo = Tail(run[r].todo),
           run'[r].previous = run[r].previous,
           run'[r].cut = run[r].cut, run'[r].at = 1,
           \/ /\ run'[r].step = "look" /\ Len(run[r].todo) > 1
              /\ run'[r].todo = Tail(run[r].todo)
           \/ run'[r].step \in {"list", "return"},
           UNCHANGED shared, faults' = faults, saw'[r] = Unseen,
           saw' = saw \/ saw' = [saw EXCEPT ![r] = Unseen],
           entry' \in Entries, \A n \in Names \ Own(r) : entry'[n] = entry[n],
           run[r].clear /\ Choices(r) /\ Looked(r) => Choices(r)'
    PROVE  Sounder(r)
  <1>1. run[r].step \in Early /\ run'[r].step \in {"look", "list", "return"}
        /\ run'[r].step \in Around
    BY DEF Early, Around
  <1>2. /\ Queues(r) /\ Registering(r) /\ Cutting(r) /\ Seeing(r)
        /\ run[r].clear => Commits(r) /\ Texts(r) /\ Inputs(r)
    BY SoundParts DEF Busy
  <1>3. ~run[r].cut
    BY <1>1, <1>2 DEF Cutting, Early
  <1>4. /\ \A i \in DOMAIN Tail(run[r].todo) : Tail(run[r].todo)[i] \in Own(r)
        /\ Len(run[r].todo) > 1 <=> Tail(run[r].todo) # <<>>
    BY <1>2, QueueNames
  <1>5. \A i \in DOMAIN run'[r].todo : run'[r].todo[i] \in Own(r)
    BY <1>2, <1>4 DEF Queues
  <1>6. Queues(r)' /\ Positions(r)' /\ Cutting(r)'
    BY <1>1, <1>2, <1>3, <1>4, <1>5, CommandShape DEF Queues
  <1>7. Seeing(r)'
    BY <1>1 DEF Seeing
  <1>8. Registering(r)' /\ Registered(r)'
    BY <1>1, <1>2, NotRegistering DEF Kept
  <1>9. Aside(r)
    BY AsideKept, SawTyping DEF Kept
  <1>10. ASSUME run[r].clear PROVE Commits(r)' /\ Texts(r)' /\ Inputs(r)'
    <2>1. Commits(r)' /\ Texts(r)'
      BY <1>1, <1>2, <1>3, <1>10, CommandCommits DEF Kept, Quiet, shared, files
    <2>2. Choices(r)'
      BY <1>2, <1>10 DEF Inputs
    <2>3. Looked(r)'
      BY DEF Looked, Unseen
    <2>. QED
      BY <1>8, <2>1, <2>2, <2>3 DEF Inputs
  <1>. QED
    BY <1>6, <1>7, <1>8, <1>9, <1>10 DEF Sounder, Shape, Kept, Busy

LEMMA SourceMissingSound ==
    ASSUME NEW r \in Runs, TypeOK, Sound(r), SourceMissing(r)
    PROVE  Sounder(r)
  <1>1. /\ run[r].step = "look" /\ UNCHANGED shared /\ entry' = entry
        /\ faults' = faults /\ saw' = saw /\ saw[r] = Unseen
    BY DEF SourceMissing
  <1>2. Queues(r) /\ (run[r].clear => Inputs(r))
    BY <1>1, SoundParts DEF Busy
  <1>3. run[r].todo # <<>> /\ run[r].at = 1
    BY <1>1, <1>2, QueueNames
  <1>4. CASE run[r].cmd = "register"
    BY <1>1, <1>4, FinishSound DEF SourceMissing
  <1>5. CASE run[r].cmd # "register"
    <2>1. Advances(r)
      BY <1>5 DEF SourceMissing, Advances
    <2>2. /\ Kept(r) /\ run'[r].todo = Tail(run[r].todo)
          /\ run'[r].previous = run[r].previous
          /\ run'[r].at = run[r].at /\ run'[r].cut = run[r].cut
          /\ \/ run'[r].step = "look" /\ Len(run[r].todo) > 1
             \/ run'[r].step \in {"list", "return"}
      BY <1>3, <2>1, AdvanceFields
    <2>3. run[r].clear => Choices(r)'
      BY <1>1, <1>2, <2>2, ChoicesStay DEF Kept
    <2>. QED
      BY <1>1, <1>3, <1>5, <2>2, <2>3, ActSound, SawTyping
  <1>. QED
    BY <1>4, <1>5

(* What a command does to one input.                                       *)
Edit(n, slot, file) == entry' = [entry EXCEPT ![n][slot] = file]

LEMMA EditFields ==
    ASSUME TypeOK, NEW n \in Names, NEW slot \in Slots, NEW file \in Files,
           Edit(n, slot, file)
    PROVE  /\ entry' \in Entries /\ entry'[n][slot] = file
           /\ \A s \in Slots : s # slot => entry'[n][s] = entry[n][s]
           /\ \A m \in Names : m # n => entry'[m] = entry[m]
  <1>1. entry \in [Names -> [Slots -> Files]] /\ entry[n] \in [Slots -> Files]
    BY DEF TypeOK, Entries
  <1>. QED
    BY <1>1 DEF Edit, Entries

(* The lookups of a clear run are right when it acts.                      *)
LEMMA SeenFacts ==
    ASSUME TypeOK, NEW r \in Runs, run[r].step = "act", Seeing(r), Looked(r)
    PROVE  /\ \A s \in Slots : saw[r][s] = entry[Name(r)][s]
           /\ Seen(r) = Occupied(entry[Name(r)])
  <1>1. \A s \in Slots : saw[r][s] = entry[Name(r)][s]
    BY DEF Seeing, Looked
  <1>. QED
    BY <1>1 DEF Seen, Occupied

LEMMA SlotFacts ==
    ASSUME NEW r \in Runs, NEW state
    PROVE  /\ SlotFor(r, state) \in Slots /\ Seen(r) \subseteq Slots
           /\ ~Conflict(r) => Seen(r) \subseteq {SlotFor(r, state)}
           /\ Seen(r) # {} => SlotFor(r, state) \in Seen(r)
           /\ \A s \in Slots : {s} # Slots
  <1>. QED
    BY DEF SlotFor, Slots, Seen, Conflict

(* When one input changes, nothing else has to be shown about the others.  *)
LEMMA ChoicesEdit ==
    ASSUME NEW r \in Runs, Fixed(r), Choices(r), NEW n \in Own(r),
           \A m \in Names : m # n => entry'[m] = entry[m],
           /\ run[r].cmd \in {"install", "assemble", "check"}
                 /\ Occupied(Was(r, n)) # {} => entry'[n] = Was(r, n)
           /\ run[r].cmd \in Deliveries /\ Occupied(Was(r, n)) # {}
                 => Occupied(entry'[n]) = Occupied(Was(r, n))
           /\ Occupied(entry'[n]) = Slots => Occupied(Was(r, n)) = Slots
    PROVE  Choices(r)'
  <1>1. Own(r)' = Own(r) /\ \A m : Was(r, m)' = Was(r, m)
    BY DEF Fixed, Own, RecipesOf, Was
  <1>2. SUFFICES ASSUME NEW m \in Own(r)
                 PROVE  /\ run[r].cmd \in {"install", "assemble", "check"}
                              /\ Occupied(Was(r, m)) # {} => entry'[m] = Was(r, m)
                        /\ run[r].cmd \in Deliveries /\ Occupied(Was(r, m)) # {}
                              => Occupied(entry'[m]) = Occupied(Was(r, m))
                        /\ Occupied(entry'[m]) = Slots => Occupied(Was(r, m)) = Slots
    BY <1>1, Unfixed DEF Choices, Fixed, Occupied
  <1>3. CASE m = n
    BY <1>3
  <1>4. CASE m # n
    BY <1>4 DEF Choices, Own
  <1>. QED
    BY <1>3, <1>4

LEMMA DeliveredTyping ==
    ASSUME TypeOK, NEW r \in Runs, NEW n \in Names, NEW state
    PROVE  Delivered(r, n, state) \in Files \ {"missing"}
  <1>1. donor[n].text \in {"v1", "v2"}
    BY DEF TypeOK
  <1>2. LinkTo(state) \in Links
    BY DEF LinkTo, Links
  <1>. QED
    BY <1>1, <1>2 DEF Delivered, Files, Links

LEMMA OneName ==
    ASSUME TypeOK, NEW n \in Names, NEW slot \in Slots, NEW file \in Files \ {"missing"},
           Edit(n, slot, file), Occupied(entry[n]) \subseteq {slot}
    PROVE  Occupied(entry'[n]) = {slot}
  <1>1. /\ entry'[n][slot] = file
        /\ \A s \in Slots : s # slot => entry'[n][s] = entry[n][s]
    BY EditFields
  <1>. QED
    BY <1>1 DEF Occupied

LEMMA DeliverSound ==
    ASSUME NEW r \in Runs, TypeOK, Sound(r), Deliver(r)
    PROVE  Sounder(r)
  <1> DEFINE n == Name(r)
             state == run[r].catalog[n]
             slot == SlotFor(r, state)
             file == Delivered(r, n, state)
             preserve == run[r].cmd = "install" /\ Seen(r) # {}
             fails == Conflict(r) \/ (~preserve /\ ~CanDeliver(r, n, state))
  <1>1. /\ run[r].step = "act" /\ run[r].cmd \in {"install", "sync"}
        /\ saw' = [saw EXCEPT ![r] = Unseen] /\ UNCHANGED shared /\ faults' = faults
        /\ run' = Advance(r, fails)
        /\ entry' = IF fails \/ preserve THEN entry
                    ELSE [entry EXCEPT ![n][slot] = file]
    BY DEF Deliver, Acts
  <1>2. Queues(r) /\ Seeing(r)
    BY <1>1, SoundParts DEF Busy
  <1>3. /\ run[r].todo # <<>> /\ run[r].at = 1 /\ n \in Own(r) /\ n \in Names
    BY <1>1, <1>2, QueueNames
  <1>4. fails \in BOOLEAN
    BY Zenon
  <1>5. saw'[r] = Unseen
    BY <1>1, SawTyping
  <1>6. slot \in Slots /\ file \in Files \ {"missing"}
    BY <1>3, SlotFacts, DeliveredTyping
  <1>7. \/ fails /\ entry' = entry
        \/ preserve /\ entry' = entry
        \/ ~Conflict(r) /\ ~preserve /\ Edit(n, slot, file)
    BY <1>1 DEF Edit
  <1>8. Advances(r)
    <2> HIDE DEF fails
    <2>. QED
      BY <1>1, <1>4 DEF Advances
  <1> HIDE DEF n, state, slot, file, fails
  <1>9. /\ Kept(r) /\ run'[r].todo = Tail(run[r].todo)
        /\ run'[r].previous = run[r].previous
        /\ run'[r].at = run[r].at /\ run'[r].cut = run[r].cut
        /\ \/ run'[r].step = "look" /\ Len(run[r].todo) > 1
           \/ run'[r].step \in {"list", "return"}
    BY <1>3, <1>8, AdvanceFields
  <1>10. entry' \in Entries /\ \A m \in Names : m # n => entry'[m] = entry[m]
    BY <1>3, <1>6, <1>7, EditFields, SawTyping
  <1>11. ASSUME Choices(r), Looked(r) PROVE Choices(r)'
    <2>1. CASE entry' = entry
      <3>1. Own(r)' = Own(r) /\ \A m : Was(r, m)' = Was(r, m)
        BY <1>9 DEF Kept, Fixed, Own, RecipesOf, Was
      <3>. QED
        BY <1>9, <1>11, <2>1, <3>1 DEF Choices, Kept, Fixed, Occupied
    <2>2. CASE ~Conflict(r) /\ ~preserve /\ Edit(n, slot, file)
      <3>1. Seen(r) = Occupied(entry[n])
        BY <1>1, <1>2, <1>11, SeenFacts DEF n
      <3>2. /\ Seen(r) \subseteq {slot} /\ (Seen(r) # {} => slot \in Seen(r))
            /\ {slot} # Slots
        BY <1>6, <2>2, SlotFacts DEF slot
      <3>3. Occupied(entry'[n]) = {slot}
        BY <1>3, <1>6, <2>2, <3>1, <3>2, OneName, ZenonT(60)
      <3>4. /\ run[r].cmd = "install" /\ Occupied(Was(r, n)) # {} => entry[n] = Was(r, n)
            /\ Occupied(Was(r, n)) # {} => Occupied(entry[n]) = Occupied(Was(r, n))
        BY <1>1, <1>3, <1>11 DEF Choices, Deliveries
      <3>5. run[r].cmd = "install" => Occupied(entry[n]) = {}
        BY <2>2, <3>1
      <3>6. Occupied(Was(r, n)) # {} => Occupied(Was(r, n)) = {slot}
        BY <3>1, <3>2, <3>4
      <3>7. run[r].cmd \in {"install", "assemble", "check"} => Occupied(Was(r, n)) = {}
        BY <1>1, <3>4, <3>5
      <3>. QED
        BY <1>3, <1>9, <1>10, <1>11, <3>2, <3>3, <3>6, <3>7, ChoicesEdit DEF Kept
    <2>. QED
      BY <1>7, <2>1, <2>2
  <1>. QED
    BY <1>1, <1>3, <1>5, <1>9, <1>10, <1>11, ActSound

LEMMA PutSound ==
    ASSUME NEW r \in Runs, TypeOK, Sound(r), Put(r)
    PROVE  Sounder(r)
  <1> DEFINE n == Name(r)
             state == IF run[r].cmd = "put" THEN "enabled" ELSE "disabled"
             slot == SlotFor(r, state)
  <1>1. /\ run[r].step = "act" /\ run[r].cmd \in {"put", "putDisabled"}
        /\ saw' = [saw EXCEPT ![r] = Unseen] /\ UNCHANGED shared /\ faults' = faults
    BY DEF Put, Acts
  <1>2. Queues(r) /\ Seeing(r)
    BY <1>1, SoundParts DEF Busy
  <1>3. /\ run[r].todo # <<>> /\ run[r].at = 1 /\ n \in Own(r) /\ n \in Names
    BY <1>1, <1>2, QueueNames
  <1>4. saw'[r] = Unseen
    BY <1>1, SawTyping
  <1>5. CASE run' = Finish(r, 1) /\ entry' = entry
    BY <1>1, <1>4, <1>5, FinishSound
  <1>6. CASE ~Conflict(r) /\ run' = Go(r, "list", 1) /\ Edit(n, slot, "own")
    <2>1. slot \in Slots /\ "own" \in Files \ {"missing"} /\ "list" \in Runnings
      BY SlotFacts DEF Files, Runnings, Running, Building
    <2>2. /\ Kept(r) /\ Inquiry(r) /\ run'[r].cut = run[r].cut
          /\ run'[r].step = "list" /\ run'[r].at = 1
      BY <1>6, <2>1, GoFields DEF Kept, Goes
    <2> HIDE DEF n, slot
    <2>3. entry' \in Entries /\ \A m \in Names : m # n => entry'[m] = entry[m]
      BY <1>3, <1>6, <2>1, EditFields
    <2>4. ASSUME Choices(r), Looked(r) PROVE Choices(r)'
      <3>1. Seen(r) = Occupied(entry[n])
        BY <1>1, <1>2, <2>4, SeenFacts DEF n
      <3>2. Seen(r) \subseteq {slot} /\ {slot} # Slots
        BY <1>6, <2>1, SlotFacts DEF slot
      <3>3. Occupied(entry'[n]) = {slot}
        BY <1>3, <1>6, <2>1, <3>1, <3>2, OneName, ZenonT(60)
      <3>4. run[r].cmd \notin {"install", "assemble", "check"} \cup Deliveries
        BY <1>1 DEF Deliveries
      <3>. QED
        BY <1>3, <2>2, <2>3, <2>4, <3>2, <3>3, <3>4, ChoicesEdit DEF Kept
    <2>. QED
      BY <1>1, <1>3, <1>4, <2>2, <2>3, <2>4, ActSound DEF Inquiry
  <1>. QED
    BY <1>5, <1>6 DEF Put, Edit

(* An input renamed or removed has at most one name.                       *)
LEMMA OneLess ==
    ASSUME NEW r \in Runs, Fixed(r), Choices(r), NEW n \in Own(r), NEW slot \in Slots,
           run[r].cmd \notin {"install", "assemble", "check"} \cup Deliveries,
           \A m \in Names : m # n => entry'[m] = entry[m],
           entry'[n][slot] = "missing"
    PROVE  Choices(r)'
  <1>1. Occupied(entry'[n]) # Slots
    BY DEF Occupied
  <1>. QED
    BY <1>1, ChoicesEdit

LEMMA ToggleSound ==
    ASSUME NEW r \in Runs, TypeOK, Sound(r), Toggle(r)
    PROVE  Sounder(r)
  <1> DEFINE n == Name(r)
             to == IF run[r].cmd = "enable" THEN "active" ELSE "disabled"
             from == IF to = "active" THEN "disabled" ELSE "active"
             code == IF Seen(r) = {to} THEN 0 ELSE 1
  <1>1. /\ run[r].step = "act" /\ run[r].cmd \in {"enable", "disable"}
        /\ saw' = [saw EXCEPT ![r] = Unseen] /\ UNCHANGED shared /\ faults' = faults
    BY DEF Toggle, Acts
  <1>2. Queues(r) /\ Seeing(r)
    BY <1>1, SoundParts DEF Busy
  <1>3. /\ run[r].todo # <<>> /\ run[r].at = 1 /\ n \in Own(r) /\ n \in Names
    BY <1>1, <1>2, QueueNames
  <1>4. saw'[r] = Unseen
    BY <1>1, SawTyping
  <1>5. CASE run' = Finish(r, code) /\ entry' = entry
    <2>1. code \in {0, 1}
      OBVIOUS
    <2> HIDE DEF code
    <2>. QED
      BY <1>1, <1>4, <1>5, <2>1, FinishSound
  <1>6. CASE /\ run' = Go(r, "list", 1)
             /\ entry' = [entry EXCEPT ![n][to] = entry[n][from],
                                       ![n][from] = "missing"]
    <2>1. to \in Slots /\ from \in Slots /\ to # from /\ "list" \in Runnings
      BY DEF Slots, Runnings, Running, Building
    <2>2. /\ Kept(r) /\ Inquiry(r) /\ run'[r].cut = run[r].cut
          /\ run'[r].step = "list" /\ run'[r].at = 1
      BY <1>6, <2>1, GoFields DEF Kept, Goes
    <2> HIDE DEF n, to, from
    <2>3. /\ entry \in [Names -> [Slots -> Files]] /\ entry[n][from] \in Files
          /\ entry[n] \in [Slots -> Files] /\ "missing" \in Files
      BY <1>3, <2>1, SawTyping DEF Entries, Files
    <2>4. entry' = [entry EXCEPT ![n] = [entry[n] EXCEPT ![to] = entry[n][from],
                                                         ![from] = "missing"]]
      BY <1>3, <1>6, <2>3
    <2>5. [entry[n] EXCEPT ![to] = entry[n][from], ![from] = "missing"] \in [Slots -> Files]
      BY <2>1, <2>3
    <2>6. /\ entry' \in Entries /\ \A m \in Names : m # n => entry'[m] = entry[m]
          /\ entry'[n][from] = "missing"
      BY <1>3, <2>1, <2>3, <2>4, <2>5 DEF Entries
    <2>7. run[r].cmd \notin {"install", "assemble", "check"} \cup Deliveries
      BY <1>1 DEF Deliveries
    <2>8. ASSUME Choices(r) PROVE Choices(r)'
      BY <1>3, <2>1, <2>2, <2>6, <2>7, <2>8, OneLess DEF Kept
    <2>. QED
      BY <1>1, <1>3, <1>4, <2>2, <2>6, <2>8, ActSound DEF Inquiry
  <1>. QED
    BY <1>5, <1>6 DEF Toggle

LEMMA RemoveSound ==
    ASSUME NEW r \in Runs, TypeOK, Sound(r), Remove(r)
    PROVE  Sounder(r)
  <1> DEFINE n == Name(r)
             slot == SlotFor(r, "enabled")
             code == IF Seen(r) = {} THEN 0 ELSE 1
  <1>1. /\ run[r].step = "act" /\ run[r].cmd \in {"remove"}
        /\ saw' = [saw EXCEPT ![r] = Unseen] /\ UNCHANGED shared /\ faults' = faults
    BY DEF Remove, Acts
  <1>2. Queues(r) /\ Seeing(r)
    BY <1>1, SoundParts DEF Busy
  <1>3. /\ run[r].todo # <<>> /\ run[r].at = 1 /\ n \in Own(r) /\ n \in Names
    BY <1>1, <1>2, QueueNames
  <1>4. saw'[r] = Unseen
    BY <1>1, SawTyping
  <1>5. CASE run' = Finish(r, code) /\ entry' = entry
    <2>1. code \in {0, 1}
      OBVIOUS
    <2> HIDE DEF code
    <2>. QED
      BY <1>1, <1>4, <1>5, <2>1, FinishSound
  <1>6. CASE run' = Go(r, "list", 1) /\ Edit(n, slot, "missing")
    <2>1. slot \in Slots /\ "missing" \in Files /\ "list" \in Runnings
      BY SlotFacts DEF Files, Runnings, Running, Building
    <2>2. /\ Kept(r) /\ Inquiry(r) /\ run'[r].cut = run[r].cut
          /\ run'[r].step = "list" /\ run'[r].at = 1
      BY <1>6, <2>1, GoFields DEF Kept, Goes
    <2> HIDE DEF n, slot
    <2>3. /\ entry' \in Entries /\ \A m \in Names : m # n => entry'[m] = entry[m]
          /\ entry'[n][slot] = "missing"
      BY <1>3, <1>6, <2>1, EditFields
    <2>4. run[r].cmd \notin {"install", "assemble", "check"} \cup Deliveries
      BY <1>1 DEF Deliveries
    <2>5. ASSUME Choices(r) PROVE Choices(r)'
      BY <1>3, <2>1, <2>2, <2>3, <2>4, <2>5, OneLess DEF Kept
    <2>. QED
      BY <1>1, <1>3, <1>4, <2>2, <2>3, <2>5, ActSound DEF Inquiry
  <1>. QED
    BY <1>5, <1>6 DEF Remove, Edit

LEMMA PreflightSound ==
    ASSUME NEW r \in Runs, TypeOK, Sound(r), Preflight(r)
    PROVE  Sounder(r)
  <1> DEFINE n == Name(r)
             todo == run[r].todo
             prev == run[r].previous
  <1>1. /\ run[r].step = "act" /\ run[r].cmd \in {"register"}
        /\ saw' = [saw EXCEPT ![r] = Unseen] /\ UNCHANGED shared /\ faults' = faults
        /\ entry' = entry
    BY DEF Preflight, Acts
  <1>2. /\ Queues(r) /\ Registering(r) /\ Cutting(r) /\ Seeing(r)
        /\ run[r].clear => Commits(r) /\ Texts(r) /\ Inputs(r)
    BY <1>1, SoundParts DEF Busy
  <1>3. /\ n \in Own(r) /\ n \in Names /\ n = todo[1] /\ todo \in Seq(Names)
        /\ todo # <<>> /\ run[r].at = 1
        /\ \A i \in DOMAIN Tail(todo) : Tail(todo)[i] \in Own(r)
        /\ Len(todo) > 1 <=> Tail(todo) # <<>>
    BY <1>1, <1>2, QueueNames
  <1>4. saw'[r] = Unseen
    BY <1>1, SawTyping
  <1>5. Noted(r) \in Previous /\ Noted(r).name = n
        /\ Noted(r).slot = SlotFor(r, "enabled") /\ Noted(r).slot \in Slots
        /\ Noted(r).file = saw[r][Noted(r).slot]
    <2>1. SlotFor(r, "enabled") \in Slots
      BY SlotFacts
    <2>2. saw[r][SlotFor(r, "enabled")] \in Files
      BY <1>1, <1>2, <2>1, SawTyping DEF Seeing
    <2>. QED
      BY <1>3, <2>1, <2>2 DEF Noted, Previous
  <1>6. /\ Kept(r)
        /\ run'[r].cut = run[r].cut /\ run'[r].at = run[r].at
        /\ \/ /\ Conflict(r) /\ run'[r].step = "return" /\ run'[r].code = 1
              /\ run'[r].todo = run[r].todo /\ run'[r].previous = run[r].previous
           \/ /\ ~Conflict(r) /\ run'[r].todo = Tail(run[r].todo)
              /\ run'[r].previous = Append(run[r].previous, Noted(r))
              /\ \/ run'[r].step = "look" /\ Len(run[r].todo) > 1
                 \/ run'[r].step = "register" /\ ~(Len(run[r].todo) > 1)
    BY <1>5, PreflightFields
  <1>7. CASE Conflict(r)
    <2>1. run' = Finish(r, 1)
      BY <1>7 DEF Preflight
    <2>. QED
      BY <1>1, <1>4, <2>1, FinishSound
  <1>8. CASE ~Conflict(r)
    <2> DEFINE new == run'[r].previous
               rest == run'[r].todo
    <2>1. /\ rest = Tail(todo) /\ new = Append(prev, Noted(r))
          /\ \/ run'[r].step = "look" /\ Len(todo) > 1
             \/ run'[r].step = "register" /\ ~(Len(todo) > 1)
      BY <1>6, <1>8
    <2>2. /\ prev \in Seq(Previous) /\ Len(prev) \in Nat /\ DOMAIN prev = 1 .. Len(prev)
      BY Held
    <2>3. /\ new # <<>> /\ Len(new) = Len(prev) + 1 /\ DOMAIN new = 1 .. Len(prev) + 1
          /\ \A i \in 1 .. Len(prev) : new[i] = prev[i]
          /\ new[Len(prev) + 1] = Noted(r)
      BY <1>5, <2>1, <2>2, AppendFacts
    <2>4. /\ Len(todo) \in Nat /\ Len(todo) >= 1 /\ Len(rest) = Len(todo) - 1
          /\ 1 \in DOMAIN todo
          /\ DOMAIN rest = 1 .. Len(todo) - 1
          /\ \A i \in DOMAIN rest : i + 1 \in DOMAIN todo /\ rest[i] = todo[i + 1]
      BY <1>3, <2>1, TailFacts
    <2>5. /\ Len(todo) + Len(prev) = Len(Order) /\ Len(Order) \in Nat
          /\ \A i \in DOMAIN todo : todo[i] = Order[Len(prev) + i]
          /\ \A i \in DOMAIN prev : prev[i].name = Order[i]
      BY <1>1, <1>2, OrderFacts, Zenon DEF Registering
    <2> HIDE DEF new, rest, todo, prev, n
    <2>6. \A i \in DOMAIN new : (i \in DOMAIN prev /\ i \in 1 .. Len(prev)) \/ i = Len(prev) + 1
      BY <2>2, <2>3
    <2>7. n = Order[Len(prev) + 1]
      BY <1>3, <2>4, <2>5
    <2>8. \A i \in DOMAIN new : new[i].name = Order[i] /\ new[i].name \in Own(r)
      <3>1. \A i \in DOMAIN prev : prev[i].name \in Own(r)
        BY <1>2 DEF Queues, prev
      <3>. QED
        BY <1>3, <1>5, <2>3, <2>5, <2>6, <2>7, <3>1
    <2>9. Registering(r)'
      <3>1. Len(new) <= Len(Order) /\ Len(rest) + Len(new) = Len(Order)
        <4>1. Len(new) = Len(prev) + 1 /\ Len(prev) \in Nat
          BY <2>2, <2>3
        <4>2. Len(rest) = Len(todo) - 1 /\ Len(todo) \in Nat /\ Len(todo) >= 1
          BY <2>4
        <4>3. Len(todo) + Len(prev) = Len(Order) /\ Len(Order) \in Nat
          BY <2>5
        <4>. QED
          BY <4>1, <4>2, <4>3
      <3>2. \A i \in DOMAIN rest : rest[i] = Order[Len(new) + i]
        <4>1. SUFFICES ASSUME NEW i \in DOMAIN rest PROVE rest[i] = Order[Len(new) + i]
          OBVIOUS
        <4>2. i \in Nat /\ Len(prev) + (i + 1) = Len(new) + i
          BY <2>2, <2>3, <2>4
        <4>. QED
          BY <2>4, <2>5, <4>2
      <3>3. /\ run'[r].step \notin {"revert", "catalog"}
            /\ run'[r].cmd = "register"
        BY <1>1, <1>6, <2>1 DEF Kept, Fixed
      <3>. QED
        BY <2>3, <2>8, <3>1, <3>2, <3>3 DEF Registering, new, rest
    <2>10. /\ run[r].step \in Early /\ run'[r].step \in Early /\ run'[r].step \in Around
           /\ ~run[r].cut /\ 1 \in DOMAIN new
      BY <1>1, <1>2, <2>1, <2>2, <2>3 DEF Early, Around, Cutting
    <2>11. Queues(r)' /\ Positions(r)' /\ Cutting(r)'
      <3>1. \A i \in DOMAIN run'[r].todo : run'[r].todo[i] \in Own(r)
        BY <1>3, <2>1 DEF rest, todo
      <3>2. run'[r].step = "look" => run'[r].todo # <<>>
        BY <1>3, <2>1 DEF rest, todo
      <3>3. run'[r].step \notin {"list", "catalog", "revert", "act"}
        BY <2>1
      <3>. QED
        BY <1>2, <1>3, <1>6, <2>8, <2>10, <3>1, <3>2, <3>3, CommandShape DEF new
    <2>12. Seeing(r)'
      BY <1>4, <2>1 DEF Seeing
    <2>13. Aside(r)
      BY <1>1, <1>6, AsideKept, SawTyping DEF Kept
    <2>14. ASSUME run[r].clear PROVE Commits(r)' /\ Texts(r)' /\ Inputs(r)'
      <3>1. Commits(r)' /\ Texts(r)'
        <4>1. run'[r].step \notin {"list", "return"}
          BY <2>1
        <4>. QED
          BY <1>1, <1>2, <1>6, <2>10, <2>14, <4>1, CommandCommits
             DEF Kept, Quiet, shared, files
      <3>2. Choices(r)'
        BY <1>1, <1>2, <1>6, <2>14, ChoicesStay DEF Kept
      <3>3. Looked(r)'
        BY <1>4 DEF Looked, Unseen
      <3>4. Touched(r) = {} /\ Touched(r)' = {}
        <4>1. run'[r].at = 1
          BY <1>3, <1>6
        <4>2. 1 .. 1 - 1 = {}
          OBVIOUS
        <4>. QED
          BY <1>1, <2>1, <4>1, <4>2 DEF Touched, Running, Building, Committing
      <3>5. Own(r)' = Own(r) /\ \A m : Was(r, m)' = Was(r, m)
        BY <1>6 DEF Kept, Fixed, Own, RecipesOf, Was
      <3>6. /\ \A m \in Own(r) : entry[m] = Was(r, m)
            /\ \A i \in DOMAIN prev :
                  /\ Occupied(Was(r, prev[i].name)) \subseteq {prev[i].slot}
                  /\ prev[i].file = Was(r, prev[i].name)[prev[i].slot]
        BY <1>1, <1>2, <2>14, <3>4 DEF Inputs, Registered, prev
      <3>7. /\ Occupied(Was(r, n)) \subseteq {Noted(r).slot}
            /\ Noted(r).file = Was(r, n)[Noted(r).slot]
        <4>1. Looked(r)
          BY <1>2, <2>14 DEF Inputs
        <4>2. /\ \A s \in Slots : saw[r][s] = entry[n][s]
              /\ Seen(r) = Occupied(entry[n])
          BY <1>1, <1>2, <4>1, SeenFacts DEF n
        <4>3. Seen(r) \subseteq {Noted(r).slot}
          BY <1>5, <1>8, SlotFacts
        <4>. QED
          BY <1>3, <1>5, <3>6, <4>2, <4>3
      <3>8. \A i \in DOMAIN new :
                  /\ Occupied(Was(r, new[i].name)) \subseteq {new[i].slot}
                  /\ new[i].file = Was(r, new[i].name)[new[i].slot]
        BY <1>5, <2>3, <2>6, <3>6, <3>7
      <3>9. Registered(r)'
        BY <1>1, <3>4, <3>5, <3>6, <3>8 DEF Registered, Occupied, new
      <3>. QED
        BY <3>1, <3>2, <3>3, <3>9 DEF Inputs
    <2>. QED
      BY <1>6, <2>1, <2>9, <2>11, <2>12, <2>13, <2>14 DEF Sounder, Shape, Kept, Busy
  <1>. QED
    BY <1>7, <1>8

(* A registration is delivered, put back or given up after the lookups.    *)
LEMMA LaterSound ==
    ASSUME NEW r \in Runs, TypeOK, Sound(r),
           run[r].step \in {"register", "revert", "ended"}, Kept(r), Inquiry(r),
           run'[r].step \in {"list", "register", "revert", "return"},
           run'[r].step \in {"register", "list"} => run[r].step = "register",
           run'[r].step = "list" => run'[r].at = 1,
           run'[r].step \in {"register", "revert"}
               => run'[r].at \in DOMAIN run[r].previous /\ run[r].cmd = "register",
           run'[r].step # "return" => (run'[r].cut <=> run[r].cut),
           run[r].step = "ended" /\ run'[r].step = "revert" => run[r].code # 0,
           UNCHANGED shared, saw' = saw, faults' \in 0 .. MaxFaults, entry' \in Entries,
           \A n \in Names \ Own(r) : entry'[n] = entry[n],
           run[r].clear /\ Choices(r) /\ Registered(r) => Choices(r)' /\ Registered(r)'
    PROVE  Sounder(r)
  <1>1. /\ run'[r].step \in Around
        /\ run[r].step # "ended" => run[r].step \in Quiet
        /\ run[r].step = "register" => run[r].step \in Early
        /\ run'[r].step \in Early \cup {"list"} => run'[r].step \in {"register", "list"}
    BY DEF Early, Quiet, Around
  <1>2. /\ Queues(r) /\ Registering(r) /\ Cutting(r) /\ Seeing(r)
        /\ run[r].clear => Commits(r) /\ Texts(r) /\ Inputs(r)
    BY SoundParts DEF Busy
  <1>3. run[r].cut => run[r].step # "register"
    BY <1>2 DEF Cutting
  <1>4. run'[r].cut => run'[r].step \in {"revert", "return"}
    BY <1>3
  <1>5. Queues(r)' /\ Positions(r)' /\ Cutting(r)'
    BY <1>1, <1>2, <1>4, CommandShape DEF Queues, Inquiry
  <1>6. Seeing(r)'
    BY <1>2 DEF Seeing
  <1>7. Registering(r)'
    <2>1. run'[r].step \notin {"look", "act", "catalog"}
      OBVIOUS
    <2>2. run[r].cmd = "register" =>
             /\ Len(run[r].previous) <= Len(Order)
             /\ \A i \in DOMAIN run[r].previous : run[r].previous[i].name = Order[i]
             /\ run[r].previous # <<>>
      BY <1>2 DEF Registering
    <2>3. run'[r].cmd = run[r].cmd /\ run'[r].previous = run[r].previous
      BY DEF Kept, Fixed, Inquiry
    <2>. QED
      BY <2>1, <2>2, <2>3 DEF Registering
  <1>8. Aside(r)
    BY AsideKept DEF Kept
  <1>9. ASSUME run[r].clear PROVE Commits(r)' /\ Texts(r)' /\ Inputs(r)'
    <2>1. Commits(r)' /\ Texts(r)'
      BY <1>1, <1>2, <1>9, CommandCommits DEF Kept, shared, files
    <2>2. Choices(r)' /\ Registered(r)'
      BY <1>2, <1>9 DEF Inputs
    <2>3. Looked(r)'
      BY DEF Looked
    <2>. QED
      BY <2>1, <2>2, <2>3 DEF Inputs
  <1>. QED
    BY <1>5, <1>6, <1>7, <1>8, <1>9 DEF Sounder, Shape, Kept, Busy

(* The names registered are different ones.                                *)
LEMMA EntryFacts ==
    ASSUME TypeOK, NEW r \in Runs, Queues(r), Registering(r),
           run[r].step \in {"register", "revert"}
    PROVE  /\ Entry(r).name \in Own(r) /\ Entry(r).name \in Names
           /\ Entry(r).slot \in Slots /\ Entry(r).file \in Files
           /\ Entry(r) = run[r].previous[run[r].at]
           /\ run[r].at \in DOMAIN run[r].previous /\ run[r].at \in Nat
           /\ run[r].at >= 1 /\ Len(run[r].previous) \in Nat
           /\ DOMAIN run[r].previous = 1 .. Len(run[r].previous)
           /\ run[r].cmd = "register"
           /\ \A i \in DOMAIN run[r].previous :
                 i # run[r].at => run[r].previous[i].name # Entry(r).name
           /\ \A i \in DOMAIN run[r].previous :
                 run[r].previous[i].name \in Own(r) /\ run[r].previous[i].name \in Names
  <1> DEFINE prev == run[r].previous
             k == run[r].at
  <1>0. Positions(r)
    BY DEF TypeOK
  <1>1. /\ k \in DOMAIN prev /\ prev \in Seq(Previous) /\ k \in Nat
        /\ DOMAIN prev = 1 .. Len(prev) /\ Len(prev) \in Nat
    <2>1. k \in DOMAIN prev
      BY <1>0 DEF Positions
    <2>2. prev \in Seq(Previous) /\ k \in Nat
      BY Held
    <2>. QED
      BY <2>1, <2>2, ElementsTyping
  <1>2. k >= 1 /\ prev[k] \in Previous
    BY <1>1
  <1>3. /\ run[r].cmd = "register" /\ Len(prev) <= Len(Order)
        /\ \A i \in DOMAIN prev : prev[i].name = Order[i]
    BY DEF Registering
  <1>4. \A i \in DOMAIN prev : i \in DOMAIN Order
    BY <1>1, <1>3, OrderFacts
  <1>5. \A i \in DOMAIN prev : i # k => prev[i].name # prev[k].name
    BY <1>1, <1>3, <1>4, OrderFacts DEF Distinct
  <1>6. \A i \in DOMAIN prev : prev[i].name \in Own(r) /\ prev[i].name \in Names
    BY DEF Queues, Own
  <1>. QED
    BY <1>1, <1>2, <1>3, <1>5, <1>6 DEF Entry, Previous

LEMMA EndedSound ==
    ASSUME NEW r \in Runs, TypeOK, Sound(r), Ended(r)
    PROVE  Sounder(r)
  <1>1. /\ run[r].step = "ended" /\ UNCHANGED shared /\ entry' = entry
        /\ faults' = faults /\ saw' = saw
    BY DEF Ended
  <1>2. /\ Queues(r) /\ Registering(r)
        /\ run[r].clear => Inputs(r)
    BY <1>1, SoundParts DEF Busy
  <1>3. run[r].cmd = "register" => run[r].previous # <<>>
    BY <1>1, <1>2 DEF Registering
  <1>4. run[r].previous \in Seq(Previous) /\ run[r].code \in {0, 1, 2, 128}
    BY Held
  <1>5. Touched(r) = DOMAIN run[r].previous
    BY <1>1 DEF Touched
  <1>6. CASE run[r].cmd = "register" /\ run[r].code # 0
    <2> DEFINE len == Len(run[r].previous)
    <2>1. len \in DOMAIN run[r].previous /\ len \in Nat /\ DOMAIN run[r].previous = 1 .. len
      BY <1>3, <1>4, <1>6
    <2>2. run' = Go(r, "revert", len) /\ "revert" \in Runnings
      BY <1>6 DEF Ended, Runnings
    <2> HIDE DEF len
    <2>3. /\ Kept(r) /\ Inquiry(r) /\ run'[r].cut = run[r].cut
          /\ run'[r].step = "revert" /\ run'[r].at = len
      BY <2>1, <2>2, GoFields DEF Kept, Goes
    <2>4. ASSUME run[r].clear PROVE Choices(r)' /\ Registered(r)'
      <3>1. Choices(r)'
        BY <1>1, <1>2, <2>3, <2>4, ChoicesStay DEF Kept
      <3>2. Touched(r)' = Touched(r)
        BY <1>5, <2>1, <2>3 DEF Touched
      <3>. QED
        BY <1>1, <1>2, <2>3, <2>4, <3>1, <3>2, RegisteredStays DEF Inputs, Kept, Inquiry
    <2>. QED
      BY <1>1, <1>6, <2>1, <2>3, <2>4, LaterSound, SawTyping
  <1>7. CASE ~(run[r].cmd = "register" /\ run[r].code # 0)
    <2>1. run' = Finish(r, run[r].code)
      BY <1>7 DEF Ended
    <2>2. /\ Kept(r) /\ Inquiry(r) /\ run'[r].cut = run[r].cut
          /\ run'[r].step = "return" /\ run'[r].code = run[r].code
      BY <1>4, <2>1, FinishFields DEF Kept, Goes
    <2>3. ASSUME run[r].clear PROVE Choices(r)' /\ Registered(r)'
      <3>1. Choices(r)'
        BY <1>1, <1>2, <2>2, <2>3, ChoicesStay DEF Kept
      <3>2. Touched(r)' = {}
        BY <2>2 DEF Touched, Running, Building, Committing
      <3>3. \A n : Was(r, n)' = Was(r, n)
        BY <2>2 DEF Kept, Fixed, Was
      <3>4. Registered(r)'
        BY <1>2, <1>7, <2>2, <2>3, <3>2, <3>3
           DEF Inputs, Registered, Kept, Fixed, Inquiry, Occupied
      <3>. QED
        BY <3>1, <3>4
    <2>. QED
      BY <1>1, <2>2, <2>3, LaterSound, SawTyping
  <1>. QED
    BY <1>6, <1>7

LEMMA RegisterSound ==
    ASSUME NEW r \in Runs, TypeOK, Sound(r), Register(r)
    PROVE  Sounder(r)
  <1> DEFINE e == Entry(r)
             k == run[r].at
             prev == run[r].previous
             file == Delivered(r, e.name, "enabled")
  <1>1. run[r].step = "register" /\ UNCHANGED shared /\ saw' = saw
    BY DEF Register
  <1>2. /\ Queues(r) /\ Registering(r)
        /\ run[r].clear => Inputs(r)
    BY <1>1, SoundParts DEF Busy
  <1>3. /\ e.name \in Own(r) /\ e.name \in Names /\ e.slot \in Slots /\ e = prev[k]
        /\ k \in DOMAIN prev /\ k \in Nat /\ k >= 1 /\ Len(prev) \in Nat
        /\ DOMAIN prev = 1 .. Len(prev) /\ run[r].cmd = "register"
        /\ \A i \in DOMAIN prev : i # k => prev[i].name # e.name
        /\ \A i \in DOMAIN prev : prev[i].name \in Own(r) /\ prev[i].name \in Names
    BY <1>1, <1>2, EntryFacts
  <1>4. file \in Files \ {"missing"} /\ {"list", "register", "revert"} \subseteq Runnings
    BY <1>3, DeliveredTyping DEF Runnings, Running, Building
  <1>5. Touched(r) = 1 .. k - 1
    BY <1>1, SMTT(40) DEF Touched
  <1>6. CASE /\ Edit(e.name, e.slot, file)
             /\ run' = IF k = Len(prev) THEN Go(r, "list", 1) ELSE Go(r, "register", k + 1)
             /\ UNCHANGED faults
    <2> HIDE DEF e, file
    <2>1. /\ Kept(r) /\ Inquiry(r) /\ run'[r].cut = run[r].cut
          /\ \/ k = Len(prev) /\ run'[r].step = "list" /\ run'[r].at = 1
             \/ k # Len(prev) /\ run'[r].step = "register" /\ run'[r].at = k + 1
      <3>1. CASE k = Len(prev)
        BY <1>4, <1>6, <3>1, GoFields DEF Kept, Goes
      <3>2. CASE k # Len(prev)
        <4>1. k + 1 \in Nat
          BY <1>3
        <4>. QED
          BY <1>4, <1>6, <3>2, <4>1, GoFields DEF Kept, Goes
      <3>. QED
        BY <3>1, <3>2
    <2>2. /\ entry' \in Entries /\ entry'[e.name][e.slot] = file
          /\ \A s \in Slots : s # e.slot => entry'[e.name][s] = entry[e.name][s]
          /\ \A m \in Names : m # e.name => entry'[m] = entry[m]
      BY <1>3, <1>4, <1>6, EditFields, Zenon
    <2>3. \A i \in DOMAIN prev : i \in Touched(r)' <=> i \in 1 .. k - 1 \/ i = k
      <3>1. CASE k = Len(prev) /\ run'[r].step = "list"
        <4>1. Touched(r)' = DOMAIN prev
          BY <2>1, <3>1 DEF Touched, Inquiry, Running, Building
        <4>. QED
          BY <1>3, <3>1, <4>1
      <3>2. CASE run'[r].step = "register" /\ run'[r].at = k + 1
        <4>1. run'[r].at - 1 = k
          BY <1>3, <3>2
        <4>2. Touched(r)' = 1 .. k
          BY <3>2, <4>1 DEF Touched
        <4>. QED
          BY <1>3, <4>2
      <3>. QED
        BY <2>1, <3>1, <3>2
    <2>4. ASSUME Choices(r), Registered(r) PROVE Choices(r)' /\ Registered(r)'
      <3>1. \A i \in 1 .. k - 1 : i \in DOMAIN prev /\ i # k
        BY <1>3
      <3>2. entry[e.name] = Was(r, e.name)
        BY <1>1, <1>3, <1>5, <2>4, <3>1 DEF Registered
      <3>3. Occupied(Was(r, e.name)) \subseteq {e.slot}
        BY <1>3, <2>4, Zenon DEF Registered
      <3>4. Occupied(entry'[e.name]) = {e.slot}
        BY <1>3, <1>4, <1>6, <3>2, <3>3, OneName, Zenon
      <3>5. {e.slot} # Slots
        BY <1>3, SlotFacts, SMTT(40)
      <3>6. Choices(r)'
        <4>1. run[r].cmd \notin {"install", "assemble", "check"}
          BY <1>3
        <4>2. Occupied(Was(r, e.name)) # {}
                  => Occupied(entry'[e.name]) = Occupied(Was(r, e.name))
          BY <3>3, <3>4
        <4>3. Occupied(entry'[e.name]) # Slots
          BY <3>4, <3>5
        <4>4. Fixed(r)
          BY <2>1 DEF Kept
        <4>. QED
          BY <1>3, <2>2, <2>4, <4>1, <4>2, <4>3, <4>4, ChoicesEdit, Zenon
      <3>7. /\ Own(r)' = Own(r) /\ \A m : Was(r, m)' = Was(r, m)
            /\ run'[r].previous = prev /\ run'[r].cmd = "register"
        BY <1>3, <2>1 DEF Kept, Fixed, Inquiry, Own, RecipesOf, Was
      <3>8. \A i \in DOMAIN prev :
                /\ Occupied(Was(r, prev[i].name)) \subseteq {prev[i].slot}
                /\ prev[i].file = Was(r, prev[i].name)[prev[i].slot]
        BY <1>3, <2>4 DEF Registered
      <3>9. ASSUME NEW i \in Touched(r)', i \in DOMAIN prev, NEW s \in Slots, s # prev[i].slot
            PROVE  entry'[prev[i].name][s] = Was(r, prev[i].name)[s]
        <4>1. CASE i = k
          BY <1>3, <2>2, <3>2, <3>9, <4>1, ZenonT(60) DEF e
        <4>2. CASE i # k
          BY <1>3, <1>5, <2>2, <2>3, <2>4, <3>9, <4>2 DEF Registered
        <4>. QED
          BY <4>1, <4>2
      <3>10. \A i \in Touched(r)' : i \in DOMAIN prev
        <4>1. CASE run'[r].step = "list"
          BY <2>1, <4>1 DEF Touched, Inquiry, Running, Building
        <4>2. CASE run'[r].step = "register" /\ run'[r].at = k + 1 /\ k # Len(prev)
          <5>1. run'[r].at - 1 = k
            BY <1>3, <4>2
          <5>2. Touched(r)' = 1 .. k
            BY <4>2, <5>1 DEF Touched
          <5>. QED
            BY <1>3, <5>2
        <4>. QED
          BY <2>1, <4>1, <4>2
      <3>11. ASSUME NEW n \in Own(r), \A i \in Touched(r)' : prev[i].name # n
             PROVE  entry'[n] = Was(r, n)
        <4>1. n \in Names
          BY DEF Own
        <4>2. n # e.name /\ \A i \in 1 .. k - 1 : prev[i].name # n
          BY <1>3, <2>3, <3>1, <3>11
        <4>3. entry[n] = Was(r, n)
          BY <1>1, <1>3, <1>5, <2>4, <4>2 DEF Registered
        <4>. QED
          BY <2>2, <4>1, <4>2, <4>3
      <3>12. Registered(r)'
        BY <3>7, <3>8, <3>9, <3>10, <3>11 DEF Registered, Occupied
      <3>. QED
        BY <3>6, <3>12
    <2>5. run'[r].step = "register" => run'[r].at \in DOMAIN prev
      BY <1>3, <2>1, SMTT(40)
    <2>6. \A n \in Names \ Own(r) : entry'[n] = entry[n]
      BY <1>3, <2>2, SMTT(40)
    <2>. QED
      BY <1>1, <1>3, <1>6, <2>1, <2>2, <2>4, <2>5, <2>6, LaterSound, SawTyping, ZenonT(60)
  <1>7. CASE /\ UNCHANGED faults \/ Fault("tool")
             /\ run' = IF k = 1 THEN Finish(r, 1) ELSE Go(r, "revert", k - 1)
             /\ entry' = entry
    <2> HIDE DEF e, file
    <2>1. faults' \in 0 .. MaxFaults
      BY <1>7, FaultTyping, SawTyping
    <2>2. k - 1 \in Nat
      BY <1>3
    <2>3. /\ Kept(r) /\ Inquiry(r) /\ run'[r].cut = run[r].cut
          /\ \/ k = 1 /\ run'[r].step = "return"
             \/ k # 1 /\ run'[r].step = "revert" /\ run'[r].at = k - 1
      <3>1. CASE k = 1
        BY <1>7, <3>1, FinishFields DEF Kept, Goes
      <3>2. CASE k # 1
        BY <1>4, <1>7, <2>2, <3>2, GoFields DEF Kept, Goes
      <3>. QED
        BY <3>1, <3>2
    <2>4. Touched(r)' = Touched(r)
      <3>1. CASE k = 1 /\ run'[r].step = "return"
        <4>1. 1 .. 1 - 1 = {}
          OBVIOUS
        <4>. QED
          BY <1>5, <3>1, <4>1 DEF Touched, Running, Building, Committing
      <3>2. CASE run'[r].step = "revert" /\ run'[r].at = k - 1
        BY <1>5, <3>2 DEF Touched
      <3>. QED
        BY <2>3, <3>1, <3>2
    <2>5. ASSUME run[r].clear PROVE Choices(r)' /\ Registered(r)'
      BY <1>1, <1>2, <1>7, <2>3, <2>4, <2>5, ChoicesStay, RegisteredStays
         DEF Inputs, Kept, Inquiry
    <2>6. run'[r].step = "revert" => run'[r].at \in DOMAIN prev
      BY <1>3, <2>3
    <2>. QED
      BY <1>1, <1>3, <1>7, <2>1, <2>3, <2>5, <2>6, LaterSound, SawTyping
  <1>. QED
    BY <1>6, <1>7 DEF Register, Edit

LEMMA RevertSound ==
    ASSUME NEW r \in Runs, TypeOK, Sound(r), Revert(r)
    PROVE  Sounder(r)
  <1> DEFINE e == Entry(r)
             k == run[r].at
             prev == run[r].previous
  <1>1. run[r].step = "revert" /\ UNCHANGED shared /\ saw' = saw
    BY DEF Revert
  <1>2. /\ Queues(r) /\ Registering(r)
        /\ run[r].clear => Inputs(r)
    BY <1>1, SoundParts DEF Busy
  <1>3. /\ e.name \in Own(r) /\ e.name \in Names /\ e.slot \in Slots /\ e = prev[k]
        /\ e.file \in Files
        /\ k \in DOMAIN prev /\ k \in Nat /\ k >= 1 /\ Len(prev) \in Nat
        /\ DOMAIN prev = 1 .. Len(prev) /\ run[r].cmd = "register"
        /\ \A i \in DOMAIN prev : i # k => prev[i].name # e.name
        /\ \A i \in DOMAIN prev : prev[i].name \in Own(r) /\ prev[i].name \in Names
    BY <1>1, <1>2, EntryFacts
  <1>4. Touched(r) = 1 .. k /\ "revert" \in Runnings
    BY <1>1 DEF Touched, Runnings
  <1>5. \A i \in 1 .. k : i \in DOMAIN prev
    BY <1>3, SMTT(40)
  <1>6. CASE /\ Edit(e.name, e.slot, e.file)
             /\ run' = IF k = 1 THEN Finish(r, 1) ELSE Go(r, "revert", k - 1)
             /\ UNCHANGED faults
    <2> HIDE DEF e
    <2>1. k - 1 \in Nat
      BY <1>3
    <2>2. /\ Kept(r) /\ Inquiry(r) /\ run'[r].cut = run[r].cut
          /\ \/ k = 1 /\ run'[r].step = "return"
             \/ k # 1 /\ run'[r].step = "revert" /\ run'[r].at = k - 1
      <3>1. CASE k = 1
        BY <1>6, <3>1, FinishFields DEF Kept, Goes
      <3>2. CASE k # 1
        BY <1>4, <1>6, <2>1, <3>2, GoFields DEF Kept, Goes
      <3>. QED
        BY <3>1, <3>2
    <2>3. /\ entry' \in Entries /\ entry'[e.name][e.slot] = e.file
          /\ \A s \in Slots : s # e.slot => entry'[e.name][s] = entry[e.name][s]
          /\ \A m \in Names : m # e.name => entry'[m] = entry[m]
      BY <1>3, <1>6, EditFields, Zenon
    <2>4. Touched(r)' = 1 .. k - 1
      <3>1. CASE k = 1 /\ run'[r].step = "return"
        <4>1. 1 .. 1 - 1 = {}
          OBVIOUS
        <4>. QED
          BY <3>1, <4>1 DEF Touched, Running, Building, Committing
      <3>2. CASE run'[r].step = "revert" /\ run'[r].at = k - 1
        BY <3>2 DEF Touched
      <3>. QED
        BY <2>2, <3>1, <3>2
    <2>5. \A i \in 1 .. k : i \in 1 .. k - 1 \/ i = k
      BY <1>3
    <2>6. \A i \in 1 .. k - 1 : i \in 1 .. k /\ i # k
      BY <1>3
    <2>7. ASSUME Choices(r), Registered(r) PROVE Choices(r)' /\ Registered(r)'
      <3>1. k \in 1 .. k
        BY <1>3, SMTT(40)
      <3>2. /\ e.file = Was(r, e.name)[e.slot]
            /\ \A s \in Slots : s # e.slot => entry[e.name][s] = Was(r, e.name)[s]
        BY <1>3, <1>4, <2>7, <3>1, SMTT(40) DEF Registered
      <3>3. entry'[e.name] = Was(r, e.name)
        <4>1. Was(r, e.name) \in [Slots -> Files] /\ entry'[e.name] \in [Slots -> Files]
          BY <1>3, <2>3, Held, ZenonT(60) DEF Was, Entries
        <4>2. \A s \in Slots : entry'[e.name][s] = Was(r, e.name)[s]
          BY <2>3, <3>2
        <4>. QED
          BY <4>1, <4>2
      <3>4. Choices(r)'
        <4>1. Fixed(r)
          BY <2>2 DEF Kept
        <4>2. Occupied(entry'[e.name]) = Occupied(Was(r, e.name))
          BY <3>3
        <4>3. /\ run[r].cmd \in {"install", "assemble", "check"}
                    /\ Occupied(Was(r, e.name)) # {} => entry'[e.name] = Was(r, e.name)
              /\ run[r].cmd \in Deliveries /\ Occupied(Was(r, e.name)) # {}
                    => Occupied(entry'[e.name]) = Occupied(Was(r, e.name))
              /\ Occupied(entry'[e.name]) = Slots => Occupied(Was(r, e.name)) = Slots
          BY <3>3, <4>2
        <4>4. e.name \in Own(r) /\ \A m \in Names : m # e.name => entry'[m] = entry[m]
          BY <1>3, <2>3, Zenon
        <4>. QED
          BY <2>7, <4>1, <4>3, <4>4, ChoicesEdit
      <3>5. /\ Own(r)' = Own(r) /\ \A m : Was(r, m)' = Was(r, m)
            /\ run'[r].previous = prev /\ run'[r].cmd = "register"
        BY <1>3, <2>2 DEF Kept, Fixed, Inquiry, Own, RecipesOf, Was
      <3>6. \A i \in DOMAIN prev :
                /\ Occupied(Was(r, prev[i].name)) \subseteq {prev[i].slot}
                /\ prev[i].file = Was(r, prev[i].name)[prev[i].slot]
        BY <1>3, <2>7 DEF Registered
      <3>7. ASSUME NEW i \in 1 .. k - 1, NEW s \in Slots, s # prev[i].slot
            PROVE  entry'[prev[i].name][s] = Was(r, prev[i].name)[s]
        <4>1. i \in 1 .. k /\ i # k /\ i \in DOMAIN prev
          BY <1>5, <2>6
        <4>2. entry'[prev[i].name] = entry[prev[i].name]
          BY <1>3, <2>3, <4>1, ZenonT(60)
        <4>3. i \in Touched(r)
          BY <1>4, <4>1
        <4>4. entry[prev[i].name][s] = Was(r, prev[i].name)[s]
          BY <1>3, <2>7, <3>7, <4>3 DEF Registered
        <4>. QED
          BY <4>2, <4>4
      <3>8. ASSUME NEW n \in Own(r), \A i \in 1 .. k - 1 : prev[i].name # n
            PROVE  entry'[n] = Was(r, n)
        <4>1. CASE n = e.name
          BY <3>3, <4>1
        <4>2. CASE n # e.name
          <5>1. n \in Names /\ \A i \in 1 .. k : prev[i].name # n
            BY <1>3, <2>5, <3>8, <4>2 DEF Own
          <5>2. entry[n] = Was(r, n)
            BY <1>1, <1>3, <1>4, <2>7, <5>1 DEF Registered
          <5>. QED
            BY <2>3, <4>2, <5>1, <5>2
        <4>. QED
          BY <4>1, <4>2
      <3>9. Registered(r)'
        BY <2>4, <3>5, <3>6, <3>7, <3>8 DEF Registered, Occupied
      <3>. QED
        BY <3>4, <3>9
    <2>8. run'[r].step = "revert" => run'[r].at \in DOMAIN prev
      BY <1>3, <2>2, SMTT(40)
    <2>9. \A n \in Names \ Own(r) : entry'[n] = entry[n]
      BY <1>3, <2>3, Zenon
    <2>. QED
      BY <1>1, <1>3, <1>6, <2>2, <2>3, <2>7, <2>8, <2>9, LaterSound, SawTyping, ZenonT(60)
  <1>7. CASE Fault("move") /\ FinishCut(r) /\ entry' = entry
    <2>1. /\ Kept(r) /\ Inquiry(r) /\ run'[r].step = "return" /\ run'[r].cut
      BY <1>7, FinishCutFields
    <2>2. faults' \in 0 .. MaxFaults
      BY <1>7, FaultTyping
    <2>3. ASSUME run[r].clear PROVE Choices(r)' /\ Registered(r)'
      <3>1. Choices(r)'
        BY <1>2, <1>7, <2>1, <2>3, ChoicesStay DEF Kept
      <3>2. Touched(r)' = {} /\ \A n : Was(r, n)' = Was(r, n)
        BY <2>1 DEF Touched, Running, Building, Committing, Kept, Fixed, Was
      <3>3. Registered(r)
        BY <1>2, <2>3, SMTT(40) DEF Inputs
      <3>4. Registered(r)'
        BY <1>3, <2>1, <3>2, <3>3 DEF Registered, Kept, Fixed, Inquiry, Occupied
      <3>. QED
        BY <3>1, <3>4
    <2>. QED
      BY <1>1, <1>7, <2>1, <2>2, <2>3, LaterSound, SawTyping
  <1>. QED
    BY <1>6, <1>7 DEF Revert, Edit, FinishCut

LEMMA RunnerSound ==
    ASSUME NEW r \in Runs, TypeOK, Sound(r), Runner(r), saw' = saw
    PROVE  Sounder(r)
  <1>1. /\ Frame(r) /\ Fixed(r) /\ donor' = donor /\ entry' = entry
        /\ run[r].step \in Running
    BY RunnerFrame
  <1>2. Busy(r)
    BY <1>1 DEF Busy, Running, Building, Committing
  <1>3. Shape(r) /\ (run[r].clear => Commits(r) /\ Texts(r) /\ Inputs(r))
    BY <1>2 DEF Sound, Mine
  <1>4. Shape(r)' /\ Positions(r)'
    BY <1>3, RunnerShape
  <1>5. run[r].clear => Commits(r)' /\ Texts(r)' /\ Inputs(r)'
    BY <1>3, RunnerCommits, RunnerInputs
  <1>6. Aside(r)
    BY <1>1, SawTyping DEF Aside
  <1>7. Busy(r)'
    BY RunnerFrame DEF Busy, Running, Building, Committing
  <1>. QED
    BY <1>1, <1>4, <1>5, <1>6, <1>7 DEF Sounder

-----------------------------------------------------------------------------
(* The other runs.                                                         *)

LEMMA Unclouded ==
    ASSUME TypeOK, NEW s \in Runs, Shape(s), run'[s].step = run[s].step,
           run'[s].at = run[s].at, run'[s].code = run[s].code,
           run'[s].cmd = run[s].cmd, run'[s].recipes = run[s].recipes,
           run'[s].cut <=> run[s].cut,
           Inquiry(s), Work(s), saw'[s] = saw[s]
    PROVE  Shape(s)' /\ Positions(s)'
  <1>1. RecipesOf(s)' = RecipesOf(s) /\ Own(s)' = Own(s)
    BY DEF RecipesOf, Own
  <1>2. Positions(s)'
    BY DEF TypeOK, Positions, Inquiry, Work
  <1>3. Busy(s) => Queues(s)'
    BY <1>1 DEF Shape, Queues, Inquiry, Work, Distinct
  <1>4. Busy(s) => Registering(s)'
    BY ZenonT(60) DEF Shape, Registering, Inquiry
  <1>5. Busy(s) => Cutting(s)'
    BY DEF Shape, Cutting
  <1>6. Seeing(s)'
    BY DEF Shape, Seeing
  <1>. QED
    BY <1>2, <1>3, <1>4, <1>5, <1>6 DEF Shape, Busy

(* The files of a run and its recipes and inputs stay as they are.         *)
Spared(s) ==
    /\ staged'[s] = staged[s] /\ backup'[s] = backup[s]
    /\ \A c \in RecipesOf(s) : output'[c] = output[c]
    /\ \A n \in Own(s) : donor'[n] = donor[n] /\ entry'[n] = entry[n]

LEMMA SparedTexts ==
    ASSUME TypeOK, NEW s \in Runs, Spared(s), run'[s] = run[s], Texts(s)
    PROVE  Texts(s)'
  <1>1. \A c \in RecipesOf(s) :
            Active(c)' = Active(c) /\ Text(Active(c))' = Text(Active(c))
    <2>1. SUFFICES ASSUME NEW c \in RecipesOf(s)
                   PROVE  Active(c)' = Active(c) /\ Text(Active(c))' = Text(Active(c))
      OBVIOUS
    <2>2. \A n \in Names : RecipeOf[n] = c => donor'[n] = donor[n] /\ entry'[n] = entry[n]
      BY DEF Spared, Own
    <2>. QED
      BY <2>2, SameText
  <1>2. \A c \in RecipesOf(s) : Fresh(s, c) => Fresh(s, c)'
    BY <1>1 DEF Fresh
  <1>3. RecipesOf(s)' = RecipesOf(s) /\ At(s)' = At(s)
    BY DEF RecipesOf, At
  <1>4. run[s].step \in {"list", "build"} =>
            \A i \in 1 .. run[s].at - 1 : run[s].recipes[i] \in RecipesOf(s)
    <2>1. SUFFICES ASSUME run[s].step \in {"list", "build"}, NEW i \in 1 .. run[s].at - 1
                   PROVE  run[s].recipes[i] \in RecipesOf(s)
      OBVIOUS
    <2>2. /\ run[s].at \in 1 .. Len(run[s].recipes) /\ run[s].at \in Nat
          /\ DOMAIN run[s].recipes = 1 .. Len(run[s].recipes)
          /\ Len(run[s].recipes) \in Nat
      BY <2>1, PositionTypes, Held
    <2>3. i \in DOMAIN run[s].recipes
      BY <2>2
    <2>. QED
      BY <2>3 DEF RecipesOf, Elements
  <1>5. run[s].step = "build" => At(s) \in RecipesOf(s)
    BY PositionTypes
  <1>. QED
    BY <1>1, <1>2, <1>3, <1>4, <1>5 DEF Texts

LEMMA SparedCommits ==
    ASSUME TypeOK, NEW s \in Runs, Spared(s), run'[s] = run[s], Commits(s)
    PROVE  Commits(s)'
  <1>1. /\ RecipesOf(s)' = RecipesOf(s) /\ Pending(s)' = Pending(s)
        /\ \A c : Old(s, c)' = Old(s, c)
        /\ Placed(s)' = Placed(s) /\ Hole(s)' = Hole(s)
    BY DEF RecipesOf, Pending, Old, Placed, Hole
  <1>2. \A i \in DOMAIN run[s].pending : run[s].pending[i] \in RecipesOf(s)
    <2>1. Pending(s) \subseteq RecipesOf(s)
      BY PositionTypes
    <2>. QED
      BY <2>1 DEF Pending, Elements
  <1>3. Moves(s) => Moves(s)'
    BY <1>1, <1>2 DEF Moves, Spared
  <1>4. Reserved(s)' /\ Equal(s)'
    BY <1>1 DEF Commits, Reserved, Equal
  <1>5. Staged(s)'
    BY DEF Commits, Staged, Spared
  <1>6. Outcome(s)'
    BY <1>1, <1>3 DEF Commits, Outcome, Spared
  <1>. QED
    BY <1>4, <1>5, <1>6 DEF Commits

LEMMA SparedInputs ==
    ASSUME TypeOK, NEW s \in Runs, Busy(s), Queues(s), Spared(s), run'[s] = run[s],
           saw'[s] = saw[s], Inputs(s)
    PROVE  Inputs(s)'
  <1>1. /\ Own(s)' = Own(s) /\ \A n : Was(s, n)' = Was(s, n)
        /\ Touched(s)' = Touched(s)
    BY DEF Own, RecipesOf, Was, Touched
  <1>2. \A n \in Own(s) : entry'[n] = entry[n]
    BY DEF Spared
  <1>3. Choices(s)'
    BY <1>1, <1>2 DEF Inputs, Choices, Occupied
  <1>4. Looked(s)'
    <2>1. run[s].step \in {"look", "act"} => Name(s)' = Name(s) /\ Name(s) \in Own(s)
      BY QueueNames DEF Name
    <2>. QED
      BY <1>2, <2>1 DEF Inputs, Looked
  <1>5. \A i \in Touched(s) : i \in DOMAIN run[s].previous
    <2>1. /\ run[s].previous \in Seq(Previous) /\ run[s].at \in Nat
          /\ DOMAIN run[s].previous = 1 .. Len(run[s].previous)
          /\ Len(run[s].previous) \in Nat
      BY Held
    <2>2. run[s].step \in {"register", "revert"} => run[s].at \in DOMAIN run[s].previous
      BY DEF TypeOK, Positions
    <2>3. CASE run[s].step = "register"
      BY <2>1, <2>2, <2>3 DEF Touched
    <2>4. CASE run[s].step = "revert"
      BY <2>1, <2>2, <2>4 DEF Touched
    <2>5. CASE run[s].step \notin {"register", "revert"}
      BY <2>5 DEF Touched
    <2>. QED
      BY <2>3, <2>4, <2>5
  <1>6. \A i \in DOMAIN run[s].previous : run[s].previous[i].name \in Own(s)
    BY DEF Queues
  <1>7. Registered(s)'
    BY <1>1, <1>2, <1>5, <1>6 DEF Inputs, Registered, Occupied
  <1>. QED
    BY <1>3, <1>4, <1>7 DEF Inputs

(* A run whose recipes nobody works on is not disturbed.                   *)
LEMMA Undisturbed ==
    ASSUME TypeOK, NEW s \in Runs, Sound(s), run'[s] = run[s], saw'[s] = saw[s],
           Mine(s) => Spared(s)
    PROVE  Sound(s)' /\ Positions(s)'
  <1>1. Shape(s)' /\ Positions(s)'
    BY Unclouded DEF Sound, Inquiry, Work
  <1>2. Mine(s)' = Mine(s)
    BY DEF Mine, Busy
  <1>3. ASSUME Mine(s) PROVE Commits(s)' /\ Texts(s)' /\ Inputs(s)'
    BY <1>3, SparedCommits, SparedTexts, SparedInputs DEF Sound, Mine, Shape
  <1>. QED
    BY <1>1, <1>2, <1>3 DEF Sound

(* A step of one run spares the clear runs beside it.                      *)
LEMMA AsideSpares ==
    ASSUME IInv, NEW r \in Runs, Busy(r), Aside(r), NEW s \in Runs, s # r
    PROVE  Sound(s)' /\ Positions(s)'
  <1>1. TypeOK /\ Sound(s) /\ run'[s] = run[s] /\ saw'[s] = saw[s]
    BY DEF IInv, Aside, Frame, Others
  <1>2. ASSUME Mine(s) PROVE Spared(s)
    <2>1. RecipesOf(s) \cap RecipesOf(r) = {}
      BY <1>2 DEF IInv, Alone
    <2>2. RecipesOf(s) \subseteq Recipes
      BY <1>1, PositionTypes
    <2>3. Own(s) \subseteq Names \ Own(r)
      BY <2>1 DEF Own
    <2>. QED
      BY <2>1, <2>2, <2>3 DEF Spared, Aside, Frame
  <1>. QED
    BY <1>1, <1>2, Undisturbed

LEMMA StepKeeps ==
    ASSUME IInv, NEW r \in Runs, Busy(r), Sounder(r)
    PROVE  IInv'
  <1>1. Fixed(r) /\ Aside(r) /\ Shape(r)' /\ Positions(r)'
        /\ (run[r].clear => Commits(r)' /\ Texts(r)' /\ Inputs(r)')
    BY DEF Sounder
  <1>2. \A s \in Runs : s # r => Sound(s)' /\ Positions(s)'
    BY <1>1, AsideSpares
  <1>3. Sound(r)'
    BY <1>1 DEF Sound, Mine, Fixed
  <1>4. TypeOK'
    <2>1. /\ donor' = donor /\ entry' \in Entries /\ output' \in Outputs
          /\ staged' \in [Runs -> Outputs] /\ backup' \in [Runs -> Outputs]
          /\ run' \in [Runs -> Invocations] /\ faults' \in 0 .. MaxFaults
          /\ saw' \in [Runs -> [Slots -> Files \cup {"unseen"}]]
      BY <1>1 DEF Aside, Frame
    <2>2. \A s \in Runs : Positions(s)'
      BY <1>1, <1>2
    <2>. QED
      BY <2>1, <2>2 DEF IInv, TypeOK
  <1>5. Alone'
    <2>1. \A s \in Runs : /\ Mine(s)' => Mine(s)
                          /\ Busy(s)' => Busy(s)
                          /\ RecipesOf(s)' = RecipesOf(s)
      <3>1. \A s \in Runs : s # r => run'[s] = run[s]
        BY <1>1 DEF Aside, Frame, Others
      <3>. QED
        BY <1>1, <3>1 DEF Mine, Busy, RecipesOf, Fixed
    <2>. QED
      BY <2>1 DEF IInv, Alone
  <1>. QED
    BY <1>2, <1>3, <1>4, <1>5 DEF IInv

(* A run that is over, or was killed, holds nothing.                       *)
LEMMA OverKeeps ==
    ASSUME IInv, NEW r \in Runs, Busy(r), run' = [run EXCEPT ![r] = Resting("done")],
           UNCHANGED shared, entry' = entry, faults' \in 0 .. MaxFaults,
           saw' = saw \/ saw' = [saw EXCEPT ![r] = Unseen], saw'[r] = Unseen
    PROVE  IInv'
  <1>1. TypeOK
    BY DEF IInv
  <1>2. /\ run' \in [Runs -> Invocations] /\ Others(r)
        /\ run'[r].step = "done" /\ run'[r].at = 1
        /\ run'[r].recipes = <<>> /\ run'[r].pending = <<>> /\ run'[r].reserved = {}
    BY <1>1, DoneFields
  <1>3. Aside(r)
    BY <1>1, <1>2, AsideKept, SawTyping
  <1>4. \A s \in Runs : s # r => Sound(s)' /\ Positions(s)'
    BY <1>3, AsideSpares
  <1>5. ~Busy(r)'
    BY <1>2 DEF Busy
  <1>6. Sound(r)'
    BY <1>2, <1>5 DEF Sound, Shape, Mine, Seeing
  <1>7. Positions(r)'
    BY <1>2 DEF Positions, Elements
  <1>8. TypeOK'
    <2>1. /\ donor' = donor /\ entry' \in Entries /\ output' \in Outputs
          /\ staged' \in [Runs -> Outputs] /\ backup' \in [Runs -> Outputs]
          /\ saw' \in [Runs -> [Slots -> Files \cup {"unseen"}]]
      BY <1>3 DEF Aside, Frame
    <2>2. \A s \in Runs : Positions(s)'
      BY <1>4, <1>7
    <2>. QED
      BY <1>1, <1>2, <2>1, <2>2 DEF TypeOK
  <1>9. Alone'
    <2>1. \A s \in Runs : Busy(s)' => s # r
      BY <1>5
    <2>2. \A s \in Runs : s # r => /\ Mine(s)' = Mine(s) /\ Busy(s)' = Busy(s)
                                   /\ RecipesOf(s)' = RecipesOf(s)
      BY <1>2 DEF Others, Mine, Busy, RecipesOf
    <2>3. \A s \in Runs : Mine(s)' => Busy(s)'
      BY DEF Mine
    <2>. QED
      BY <2>1, <2>2, <2>3 DEF IInv, Alone
  <1>. QED
    BY <1>4, <1>6, <1>8, <1>9 DEF IInv

-----------------------------------------------------------------------------
(* Runs that begin, and producers.                                         *)

(* A run disturbed keeps its own part.                                     *)
LEMMA DisturbFields ==
    ASSUME NEW recipes, NEW s \in Runs
    PROVE  \/ /\ Disturb(run, recipes)[s] = run[s]
              /\ Busy(s) => RecipesOf(s) \cap recipes = {}
           \/ Disturb(run, recipes)[s] = [run[s] EXCEPT !.clear = FALSE]
  <1>1. Disturb(run, recipes)[s]
            = IF Busy(s) /\ Elements(run[s].recipes) \cap recipes # {}
              THEN [run[s] EXCEPT !.clear = FALSE] ELSE run[s]
    BY DEF Disturb
  <1>. QED
    BY <1>1 DEF RecipesOf

LEMMA DisturbTyping ==
    ASSUME TypeOK, NEW recipes
    PROVE  Disturb(run, recipes) \in [Runs -> Invocations]
  <1>1. ASSUME NEW s \in Runs
        PROVE  Disturb(run, recipes)[s] \in Invocations
    <2>1. run[s] \in Invocations
      BY RunTyping
    <2>2. [run[s] EXCEPT !.clear = FALSE] \in Invocations
      BY <2>1 DEF Invocations
    <2>. QED
      BY <2>1, <2>2, DisturbFields
  <1>2. /\ DOMAIN Disturb(run, recipes) = Runs
        /\ Disturb(run, recipes) = [s \in Runs |-> Disturb(run, recipes)[s]]
    BY DEF Disturb
  <1>. QED
    BY <1>1, <1>2

LEMMA DisturbedSound ==
    ASSUME TypeOK, NEW s \in Runs, Sound(s), saw'[s] = saw[s],
           run'[s] = [run[s] EXCEPT !.clear = FALSE]
    PROVE  /\ Sound(s)' /\ Positions(s)' /\ ~Mine(s)'
           /\ Busy(s)' <=> Busy(s)
           /\ RecipesOf(s)' = RecipesOf(s)
  <1>1. run[s] \in Invocations
    BY RunTyping
  <1>2. /\ run'[s].step = run[s].step
        /\ run'[s].at = run[s].at /\ run'[s].code = run[s].code
        /\ run'[s].cmd = run[s].cmd /\ run'[s].recipes = run[s].recipes
        /\ run'[s].cut = run[s].cut /\ Inquiry(s) /\ Work(s)
    BY <1>1 DEF Invocations, Inquiry, Work
  <1>3. ~run'[s].clear
    BY <1>1 DEF Invocations
  <1>4. Shape(s)' /\ Positions(s)'
    BY <1>2, Unclouded DEF Sound
  <1>. QED
    BY <1>2, <1>3, <1>4 DEF Sound, Mine, Busy, RecipesOf

LEMMA ProduceKeeps ==
    ASSUME IInv, Produce
    PROVE  IInv'
  <1>1. TypeOK /\ \A s \in Runs : Sound(s)
    BY DEF IInv
  <1>2. /\ output' = output /\ staged' = staged /\ backup' = backup
        /\ entry' = entry /\ saw' = saw /\ faults' \in 0 .. MaxFaults
    BY <1>1, FaultTyping DEF Produce, files
  <1>3. PICK n \in Names :
            /\ \/ donor' = [donor EXCEPT ![n].text = "v2"]
               \/ \E state \in {"enabled", "disabled", "missing"} :
                     donor' = [donor EXCEPT ![n].state = state]
            /\ run' = Disturb(run, {RecipeOf[n]})
    BY DEF Produce
  <1> DEFINE Donors == [state : {"enabled", "disabled", "missing"}, text : {"v1", "v2"}]
  <1>4. /\ donor' \in [Names -> Donors]
        /\ \A m \in Names : m # n => donor'[m] = donor[m]
    <2>1. donor \in [Names -> Donors]
      BY <1>1 DEF TypeOK
    <2>2. CASE donor' = [donor EXCEPT ![n].text = "v2"]
      <3>1. [donor[n] EXCEPT !.text = "v2"] \in Donors
        BY <2>1
      <3> HIDE DEF Donors
      <3>. QED
        BY <2>1, <2>2, <3>1
    <2>3. ASSUME NEW state \in {"enabled", "disabled", "missing"},
                 donor' = [donor EXCEPT ![n].state = state]
          PROVE  <1>4!1 /\ <1>4!2
      <3>1. [donor[n] EXCEPT !.state = state] \in Donors
        BY <2>1
      <3> HIDE DEF Donors
      <3>. QED
        BY <2>1, <2>3, <3>1
    <2>. QED
      BY <1>3, <2>2, <2>3
  <1>5. run' \in [Runs -> Invocations]
    BY <1>1, <1>3, DisturbTyping
  <1>6. ASSUME NEW s \in Runs
        PROVE  /\ Sound(s)' /\ Positions(s)' /\ (Mine(s)' => Mine(s))
               /\ Busy(s)' <=> Busy(s)
               /\ RecipesOf(s)' = RecipesOf(s)
    <2>1. CASE /\ run'[s] = run[s]
               /\ Busy(s) => RecipesOf(s) \cap {RecipeOf[n]} = {}
      <3>1. Mine(s) => n \notin Own(s)
        BY <2>1 DEF Mine, Own
      <3>2. Mine(s) => Spared(s)
        BY <1>2, <1>4, <3>1 DEF Spared, Own
      <3>3. Sound(s)' /\ Positions(s)'
        BY <1>1, <1>2, <2>1, <3>2, Undisturbed
      <3>. QED
        BY <2>1, <3>3 DEF Mine, Busy, RecipesOf
    <2>2. CASE run'[s] = [run[s] EXCEPT !.clear = FALSE]
      BY <1>1, <1>2, <2>2, DisturbedSound
    <2>. QED
      BY <1>1, <1>3, <2>1, <2>2, DisturbFields
  <1>7. TypeOK'
    BY <1>1, <1>2, <1>4, <1>5, <1>6 DEF TypeOK
  <1>8. Alone'
    BY <1>6 DEF IInv, Alone
  <1>. QED
    BY <1>6, <1>7, <1>8 DEF IInv

(* What a run begins with.                                                 *)
Begun(r) ==
    /\ run'[r].at = 1 /\ run'[r].previous = <<>> /\ run'[r].pending = <<>>
    /\ run'[r].reserved = {} /\ ~run'[r].cut
    /\ run'[r].before = [entry |-> entry, output |-> output]
    /\ run'[r].recipes \in Seq(Recipes) /\ run'[r].recipes # <<>>
    /\ Distinct(run'[r].recipes)
    /\ \A i \in DOMAIN run'[r].todo :
          /\ run'[r].todo[i] \in Names
          /\ RecipeOf[run'[r].todo[i]] \in Elements(run'[r].recipes)
    /\ \/ /\ run'[r].step = "look" /\ run'[r].todo # <<>>
          /\ run'[r].cmd = "register" => run'[r].todo = Order
       \/ /\ run'[r].step = "catalog" /\ run'[r].cmd \in {"install", "sync"}
          /\ run'[r].recipes = RecipeOrder /\ 1 \in DOMAIN Order
       \/ run'[r].step = "list" /\ run'[r].cmd # "register"

Apart(r) ==
    run'[r].clear => \A s \in Runs : Busy(s) =>
                        RecipesOf(s) \cap Elements(run'[r].recipes) = {}

LEMMA BeginFields ==
    ASSUME TypeOK, NEW r \in Runs, Begin(r)
    PROVE  /\ run' \in [Runs -> Invocations] /\ Begun(r) /\ Apart(r)
           /\ \A s \in Runs : s # r =>
                 run'[s] = Disturb(run, Elements(run'[r].recipes))[s]
  <1>1. PICK cmd \in Commands, n \in Names :
          LET recipes == IF cmd \in Mutations THEN <<RecipeOf[n]>> ELSE RecipeOrder
              todo == IF cmd \in Mutations THEN <<n>>
                      ELSE IF cmd = "register" THEN Order ELSE <<>>
              step == IF todo # <<>> THEN "look"
                      ELSE IF cmd \in Deliveries THEN "catalog" ELSE "list"
              clear == \A s \in Runs : Busy(s) =>
                          Elements(run[s].recipes) \cap Elements(recipes) = {}
          IN  run' = [Disturb(run, Elements(recipes)) EXCEPT ![r] =
                    [Resting(step) EXCEPT
                            !.cmd = cmd, !.recipes = recipes,
                            !.todo = todo, !.clear = clear,
                            !.before = [entry |-> entry, output |-> output]]]
    BY ZenonT(60) DEF Begin
  <1> DEFINE recipes == IF cmd \in Mutations THEN <<RecipeOf[n]>> ELSE RecipeOrder
             todo == IF cmd \in Mutations THEN <<n>>
                     ELSE IF cmd = "register" THEN Order ELSE <<>>
             step == IF todo # <<>> THEN "look"
                     ELSE IF cmd \in Deliveries THEN "catalog" ELSE "list"
             clear == \A s \in Runs : Busy(s) =>
                         Elements(run[s].recipes) \cap Elements(recipes) = {}
             before == [entry |-> entry, output |-> output]
             q == [Resting(step) EXCEPT !.cmd = cmd, !.recipes = recipes, !.todo = todo,
                                        !.clear = clear, !.before = before]
  <1>2. run' = [Disturb(run, Elements(recipes)) EXCEPT ![r] = q]
    BY <1>1
  <1>3. cmd \in CommandKinds
    BY InputsAssumption
  <1>4. /\ RecipeOf[n] \in Recipes
        /\ RecipeOrder \in Seq(Recipes) /\ Elements(RecipeOrder) = Recipes
        /\ Distinct(RecipeOrder)
    BY CommitAssumption, InputsAssumption DEF Lists, Distinct
  <1>5. RecipeOrder # <<>>
    <2>1. PICK i \in DOMAIN RecipeOrder : RecipeOrder[i] = RecipeOf[n]
      BY <1>4 DEF Elements
    <2>. QED
      BY <2>1
  <1>6. Order # <<>> /\ Order \in Seq(Names) /\ 1 \in DOMAIN Order
    <2>1. PICK i \in DOMAIN Order : Order[i] = n
      BY OrderFacts DEF Elements
    <2>2. Order # <<>>
      BY <2>1
    <2>. QED
      BY <2>2, OrderFacts, TailFacts
  <1>7. /\ recipes \in Seq(Recipes) /\ recipes # <<>> /\ Distinct(recipes)
        /\ todo \in Seq(Names)
        /\ \A i \in DOMAIN todo : todo[i] \in Names /\ RecipeOf[todo[i]] \in Elements(recipes)
    <2>1. CASE cmd \in Mutations
      <3>1. recipes = <<RecipeOf[n]>> /\ todo = <<n>>
        BY <2>1
      <3>2. /\ <<RecipeOf[n]>> \in Seq(Recipes) /\ <<RecipeOf[n]>> # <<>>
            /\ <<n>> \in Seq(Names)
            /\ Distinct(<<RecipeOf[n]>>)
            /\ \A i \in DOMAIN <<n>> : <<n>>[i] = n
            /\ RecipeOf[n] \in Elements(<<RecipeOf[n]>>)
        BY <1>4 DEF Distinct, Elements
      <3> HIDE DEF recipes, todo
      <3>. QED
        BY <3>1, <3>2
    <2>2. CASE cmd \notin Mutations
      <3>1. recipes = RecipeOrder /\ (todo = Order \/ todo = <<>>)
        BY <2>2
      <3> HIDE DEF recipes, todo
      <3>2. todo \in Seq(Names)
        <4>1. <<>> \in Seq(Names)
          OBVIOUS
        <4>. QED
          BY <1>6, <3>1, <4>1
      <3>3. \A i \in DOMAIN todo : todo[i] \in Names
        BY <3>2, ElementsTyping
      <3>4. \A m \in Names : RecipeOf[m] \in Elements(recipes)
        BY <1>4, <3>1, CommitAssumption
      <3>. QED
        BY <1>4, <1>5, <3>1, <3>2, <3>3, <3>4
    <2>. QED
      BY <2>1, <2>2
  <1>8. \/ /\ step = "look" /\ todo # <<>>
           /\ cmd = "register" => todo = Order
        \/ /\ step = "catalog" /\ cmd \in {"install", "sync"}
           /\ recipes = RecipeOrder
        \/ step = "list" /\ cmd # "register"
    <2>1. cmd = "register" => cmd \notin Mutations /\ todo = Order
      BY DEF Mutations
    <2>2. cmd \in Deliveries => recipes = RecipeOrder
      BY DEF Deliveries, Mutations
    <2> HIDE DEF todo, recipes
    <2>3. CASE todo # <<>>
      BY <2>1, <2>3
    <2>4. CASE todo = <<>>
      BY <1>6, <2>1, <2>2, <2>4 DEF Deliveries
    <2>. QED
      BY <2>3, <2>4
  <1>9. step \in Runnings
    BY <1>8 DEF Runnings, Running, Building
  <1>10. clear \in BOOLEAN /\ (clear => \A s \in Runs : Busy(s) =>
                                  RecipesOf(s) \cap Elements(recipes) = {})
    BY DEF RecipesOf
  <1>11. before \in [entry : Entries, output : Outputs]
    BY DEF TypeOK
  <1> HIDE DEF recipes, todo, step, clear, before
  <1>12. Resting(step) \in Invocations
    BY <1>9, RestingTyping
  <1>13. q \in Invocations
    BY <1>3, <1>7, <1>10, <1>11, <1>12 DEF Invocations
  <1>14. Disturb(run, Elements(recipes)) \in [Runs -> Invocations]
    BY DisturbTyping
  <1>15. /\ run' \in [Runs -> Invocations] /\ run'[r] = q
         /\ \A s \in Runs : s # r => run'[s] = Disturb(run, Elements(recipes))[s]
    BY <1>2, <1>13, <1>14
  <1>16. /\ q.cmd = cmd /\ q.recipes = recipes /\ q.todo = todo /\ q.clear = clear
         /\ q.before = before /\ q.step = step /\ q.at = 1 /\ q.previous = <<>>
         /\ q.pending = <<>> /\ q.reserved = {} /\ q.cut = FALSE
    BY DEF Resting
  <1>17. /\ run'[r].cmd = cmd /\ run'[r].recipes = recipes /\ run'[r].todo = todo
         /\ run'[r].clear = clear
         /\ run'[r].before = before /\ run'[r].step = step /\ run'[r].at = 1
         /\ run'[r].previous = <<>>
         /\ run'[r].pending = <<>> /\ run'[r].reserved = {} /\ run'[r].cut = FALSE
    BY <1>15, <1>16
  <1>18. Begun(r)
    BY <1>6, <1>7, <1>8, <1>17 DEF Begun, before
  <1>19. Apart(r)
    BY <1>10, <1>17 DEF Apart
  <1>. QED
    BY <1>15, <1>17, <1>18, <1>19

LEMMA BegunSound ==
    ASSUME TypeOK, NEW r \in Runs, Sound(r), run[r].step = "idle", Begun(r),
           output' = output, entry' = entry, donor' = donor, saw' = saw
    PROVE  Sound(r)' /\ Positions(r)'
  <1>1. saw'[r] = Unseen
    BY DEF Sound, Shape, Seeing
  <1>2. /\ run'[r].step \in {"look", "catalog", "list"}
        /\ run'[r].at = 1 /\ run'[r].previous = <<>> /\ run'[r].pending = <<>>
        /\ run'[r].reserved = {} /\ ~run'[r].cut
        /\ run'[r].before.entry = entry /\ run'[r].before.output = output
        /\ run'[r].recipes # <<>> /\ Distinct(run'[r].recipes)
        /\ run'[r].step = "look" => run'[r].todo # <<>>
        /\ run'[r].step = "catalog" => 1 \in DOMAIN Order
    BY DEF Begun
  <1>3. run'[r].step \notin {"act", "compare", "stage", "reserve", "build", "exit", "ended",
                             "register", "revert", "return"} \cup Committing
    BY <1>2 DEF Committing
  <1>4. \A i \in DOMAIN run'[r].todo : run'[r].todo[i] \in Own(r)'
    BY DEF Begun, Own, RecipesOf
  <1>5. DOMAIN <<>> = {} /\ Elements(<<>>) = {}
    BY DEF Elements
  <1>6. Queues(r)'
    BY <1>2, <1>3, <1>4, <1>5 DEF Queues, Distinct
  <1>7. Registering(r)'
    <2>1. CASE run'[r].cmd # "register"
      BY <1>3, <2>1 DEF Registering, Begun
    <2>2. CASE run'[r].cmd = "register"
      <3>1. run'[r].step = "look" /\ run'[r].todo = Order
        BY <2>2 DEF Begun
      <3>2. /\ Len(Order) + 0 = Len(Order) /\ 0 <= Len(Order)
            /\ \A i \in DOMAIN Order : 0 + i = i
        BY OrderFacts
      <3>3. Len(run'[r].previous) = 0 /\ run'[r].previous = <<>>
        BY <1>2
      <3>4. /\ Len(run'[r].todo) + Len(run'[r].previous) = Len(Order)
            /\ Len(run'[r].previous) <= Len(Order)
            /\ \A i \in DOMAIN run'[r].todo :
                  run'[r].todo[i] = Order[Len(run'[r].previous) + i]
        BY <3>1, <3>2, <3>3
      <3>. QED
        BY <1>5, <3>1, <3>3, <3>4 DEF Registering
    <2>. QED
      BY <2>1, <2>2
  <1>8. Shape(r)'
    BY <1>1, <1>2, <1>6, <1>7, <1>3 DEF Shape, Cutting, Seeing
  <1>9. run'[r].recipes \in Seq(Recipes)
    BY DEF Begun
  <1>10. Positions(r)'
    <2>1. 1 \in DOMAIN run'[r].recipes
      BY <1>2, <1>9, TailFacts
    <2>. QED
      BY <1>2, <1>3, <1>5, <2>1 DEF Positions
  <1>11. Commits(r)'
    <2>1. Reserved(r)' /\ Staged(r)' /\ Equal(r)'
      BY <1>3 DEF Reserved, Staged, Equal, Committing
    <2>2. Outcome(r)'
      BY <1>2, <1>3 DEF Outcome, Old
    <2>. QED
      BY <2>1, <2>2 DEF Commits
  <1>12. Texts(r)'
    <2>1. 1 .. 1 - 1 = {}
      OBVIOUS
    <2>2. \A i \in 1 .. run'[r].at - 1 : FALSE
      BY <1>2, <2>1
    <2>. QED
      BY <1>3, <2>2 DEF Texts
  <1>13. Inputs(r)'
    <2>1. \A n : Was(r, n)' = entry[n]
      BY <1>2 DEF Was
    <2>2. Choices(r)'
      BY <2>1 DEF Choices
    <2>3. Looked(r)'
      BY <1>1 DEF Looked, Unseen
    <2>4. run'[r].cmd = "register" => Touched(r)' = {}
      BY <1>5, <1>2 DEF Touched, Begun
    <2>5. Registered(r)'
      BY <1>2, <1>5, <2>1, <2>4 DEF Registered
    <2>. QED
      BY <2>2, <2>3, <2>5 DEF Inputs
  <1>. QED
    BY <1>8, <1>10, <1>11, <1>12, <1>13 DEF Sound

LEMMA BeginKeeps ==
    ASSUME IInv, NEW r \in Runs, Begin(r)
    PROVE  IInv'
  <1>1. TypeOK /\ \A s \in Runs : Sound(s)
    BY DEF IInv
  <1>2. /\ run[r].step = "idle" /\ donor' = donor /\ entry' = entry /\ output' = output
        /\ staged' = staged /\ backup' = backup /\ faults' = faults /\ saw' = saw
    BY DEF Begin, shared, files
  <1> DEFINE recipes == Elements(run'[r].recipes)
  <1>3. /\ run' \in [Runs -> Invocations] /\ Begun(r) /\ Apart(r)
        /\ \A s \in Runs : s # r => run'[s] = Disturb(run, recipes)[s]
    BY <1>1, BeginFields
  <1>4. Sound(r)' /\ Positions(r)'
    BY <1>1, <1>2, <1>3, BegunSound
  <1>5. ~Busy(r) /\ RecipesOf(r)' = recipes
    BY <1>2 DEF Busy, RecipesOf
  <1> HIDE DEF recipes
  <1>6. ASSUME NEW s \in Runs, s # r
        PROVE  /\ Sound(s)' /\ Positions(s)' /\ (Mine(s)' => Mine(s))
               /\ Busy(s)' <=> Busy(s)
               /\ RecipesOf(s)' = RecipesOf(s)
               /\ Mine(s)' => RecipesOf(s) \cap recipes = {}
    <2>1. CASE /\ run'[s] = run[s]
               /\ Busy(s) => RecipesOf(s) \cap recipes = {}
      <3>1. Sound(s)' /\ Positions(s)'
        BY <1>1, <1>2, <2>1, Undisturbed DEF Spared
      <3>. QED
        BY <2>1, <3>1 DEF Mine, Busy, RecipesOf
    <2>2. CASE run'[s] = [run[s] EXCEPT !.clear = FALSE]
      BY <1>1, <1>2, <2>2, DisturbedSound
    <2>. QED
      BY <1>1, <1>3, <1>6, <2>1, <2>2, DisturbFields
  <1>7. TypeOK'
    BY <1>1, <1>2, <1>3, <1>4, <1>6 DEF TypeOK
  <1>8. Alone'
    <2>1. SUFFICES ASSUME NEW p \in Runs, NEW s \in Runs, p # s, Mine(p)', Busy(s)'
                   PROVE  RecipesOf(p)' \cap RecipesOf(s)' = {}
      BY DEF Alone
    <2>2. CASE p = r
      <3>1. run'[r].clear
        BY <2>1, <2>2 DEF Mine
      <3>2. Busy(s) /\ RecipesOf(s)' = RecipesOf(s)
        BY <1>6, <2>1, <2>2
      <3>3. RecipesOf(s) \cap recipes = {}
        BY <1>3, <3>1, <3>2 DEF Apart, recipes
      <3>. QED
        BY <1>5, <2>2, <3>2, <3>3
    <2>3. CASE s = r
      BY <1>5, <1>6, <2>1, <2>3
    <2>4. CASE p # r /\ s # r
      <3>1. /\ Mine(p) /\ Busy(s) /\ RecipesOf(p)' = RecipesOf(p)
            /\ RecipesOf(s)' = RecipesOf(s)
        BY <1>6, <2>1, <2>4
      <3>. QED
        BY <2>1, <3>1 DEF IInv, Alone
    <2>. QED
      BY <2>2, <2>3, <2>4
  <1>. QED
    BY <1>4, <1>6, <1>7, <1>8 DEF IInv

-----------------------------------------------------------------------------
(* The theorems.                                                           *)

LEMMA InitKeeps ==
    ASSUME Init
    PROVE  IInv
  <1>1. /\ \A r \in Runs : run[r] = Resting("idle") /\ saw[r] = Unseen
        /\ run = [r \in Runs |-> Resting("idle")]
        /\ saw = [r \in Runs |-> Unseen]
    BY DEF Init
  <1>2. Resting("idle") \in Invocations
    BY RestingTyping
  <1>3. \A r \in Runs : /\ run[r].step = "idle" /\ run[r].at = 1
                        /\ run[r].pending = <<>> /\ run[r].reserved = {}
    BY <1>1 DEF Resting
  <1>4. \A r \in Runs : ~Busy(r) /\ Sound(r)
    BY <1>1, <1>3 DEF Busy, Sound, Shape, Mine, Seeing
  <1>5. \A r \in Runs : Positions(r)
    BY <1>3 DEF Positions, Elements
  <1>6. [c \in Recipes |-> Missing] \in Outputs
    BY DEF Outputs, Contents
  <1>7. entry \in Entries /\ output \in Outputs
    BY InputsAssumption DEF Init
  <1>8. donor \in [Names -> [state : {"enabled", "disabled", "missing"},
                             text : {"v1", "v2"}]]
    BY DEF Init
  <1>9. /\ staged \in [Runs -> Outputs] /\ backup \in [Runs -> Outputs]
        /\ run \in [Runs -> Invocations]
        /\ saw \in [Runs -> [Slots -> Files \cup {"unseen"}]]
    BY <1>1, <1>2, <1>6 DEF Init, Unseen
  <1>10. faults \in 0 .. MaxFaults
    BY CommitAssumption DEF Init
  <1>. QED
    BY <1>4, <1>5, <1>7, <1>8, <1>9, <1>10 DEF IInv, TypeOK, Alone, Mine

(* A command's step is one of those above, or begins or ends it.           *)
LEMMA CommandSound ==
    ASSUME NEW r \in Runs, TypeOK, Sound(r), Command(r), ~Begin(r), ~Return(r)
    PROVE  Sounder(r) /\ Busy(r)
  <1>1. CASE Catalog(r)
    BY <1>1, CatalogSound, Zenon DEF Busy, Catalog
  <1>2. CASE Look(r)
    BY <1>2, LookSound DEF Busy, Look
  <1>3. CASE SourceMissing(r)
    BY <1>3, SourceMissingSound DEF Busy, SourceMissing
  <1>4. CASE Deliver(r)
    BY <1>4, DeliverSound DEF Busy, Deliver, Acts
  <1>5. CASE Put(r)
    BY <1>5, PutSound DEF Busy, Put, Acts
  <1>6. CASE Toggle(r)
    BY <1>6, ToggleSound DEF Busy, Toggle, Acts
  <1>7. CASE Remove(r)
    BY <1>7, RemoveSound DEF Busy, Remove, Acts
  <1>8. CASE Preflight(r)
    BY <1>8, PreflightSound, Zenon DEF Busy, Preflight, Acts
  <1>9. CASE Register(r)
    BY <1>9, RegisterSound DEF Busy, Register
  <1>10. CASE Revert(r)
    BY <1>10, RevertSound DEF Busy, Revert
  <1>11. CASE Runner(r) /\ UNCHANGED saw
    <2>1. run[r].step \notin {"idle", "done"}
      BY <1>11, RunnerFrame DEF Running, Building, Committing
    <2>. QED
      BY <1>11, <2>1, RunnerSound DEF Busy
  <1>12. CASE Ended(r)
    BY <1>12, EndedSound DEF Busy, Ended
  <1>. QED
    BY <1>1, <1>2, <1>3, <1>4, <1>5, <1>6, <1>7, <1>8, <1>9, <1>10, <1>11, <1>12, SMTT(40)
       DEF Command

LEMMA CommandKeeps ==
    ASSUME IInv, NEW r \in Runs, Command(r)
    PROVE  IInv'
  <1>1. TypeOK /\ Sound(r)
    BY DEF IInv
  <1>2. CASE Begin(r)
    BY <1>2, BeginKeeps
  <1>3. CASE Return(r)
    <2>1. Busy(r) /\ saw[r] = Unseen
      BY <1>1, <1>3 DEF Return, Busy, Sound, Shape, Seeing
    <2>2. faults \in 0 .. MaxFaults
      BY <1>1, SawTyping
    <2>. QED
      BY <1>3, <2>1, <2>2, OverKeeps DEF Return
  <1>4. CASE ~Begin(r) /\ ~Return(r)
    BY <1>1, <1>4, CommandSound, StepKeeps
  <1>. QED
    BY <1>2, <1>3, <1>4

LEMMA KillKeeps ==
    ASSUME IInv, NEW r \in Runs, Kill(r)
    PROVE  IInv'
  <1>1. TypeOK
    BY DEF IInv
  <1>2. faults' \in 0 .. MaxFaults
    BY <1>1, FaultTyping DEF Kill
  <1>3. saw'[r] = Unseen
    BY <1>1, SawTyping DEF Kill
  <1>. QED
    BY <1>2, <1>3, OverKeeps DEF Kill

LEMMA StutterKeeps ==
    ASSUME IInv, UNCHANGED vars
    PROVE  IInv'
  <1>1. TypeOK /\ \A s \in Runs : Sound(s)
    BY DEF IInv
  <1>2. /\ donor' = donor /\ entry' = entry /\ output' = output /\ staged' = staged
        /\ backup' = backup /\ run' = run /\ faults' = faults /\ saw' = saw
    BY DEF vars
  <1>3. \A s \in Runs : Sound(s)' /\ Positions(s)'
    BY <1>1, <1>2, Undisturbed DEF Spared
  <1>4. TypeOK'
    BY <1>1, <1>2, <1>3 DEF TypeOK
  <1>5. Alone'
    BY <1>2 DEF IInv, Alone, Mine, Busy, RecipesOf
  <1>. QED
    BY <1>3, <1>4, <1>5 DEF IInv

LEMMA NextKeeps ==
    ASSUME IInv, [Next]_vars
    PROVE  IInv'
  <1>1. CASE Produce
    BY <1>1, ProduceKeeps
  <1>2. ASSUME NEW r \in Runs, Command(r) PROVE IInv'
    BY <1>2, CommandKeeps
  <1>3. ASSUME NEW r \in Runs, Kill(r) PROVE IInv'
    BY <1>3, KillKeeps
  <1>4. CASE UNCHANGED vars
    BY <1>4, StutterKeeps
  <1>. QED
    BY <1>1, <1>2, <1>3, <1>4 DEF Next

(* Every reachable state has the invariant, in any number of runs and with  *)
(* any faults: among others, where each output of a clear run is while it   *)
(* commits, undoes or leaves, and what became of each of its inputs.        *)
THEOREM Invariance == Spec => []IInv
  <1>. QED
    BY InitKeeps, NextKeeps, PTL DEF Spec

(* What the runs, the files and the lookups hold is of its type, and the    *)
(* loops of the runner and of the commands stay within their lists.         *)
THEOREM TypeCorrect == Spec => []TypeOK
  <1>1. IInv => TypeOK
    BY DEF IInv
  <1>. QED
    BY <1>1, Invariance, PTL

(* A runner that ends with a failure, and neither warned nor was told to    *)
(* stop, leaves every output as it found it.                                *)
THEOREM FailuresRollBack == Spec => []AllOrNothing
  <1>1. ASSUME IInv, NEW r \in Runs, run[r].step = "ended", run[r].clear,
               run[r].code # 0, ~run[r].cut, NEW c \in RecipesOf(r)
        PROVE  output[c] = run[r].before.output[c]
    <2>1. Commits(r)
      BY <1>1 DEF IInv, Sound, Mine, Busy
    <2>. QED
      BY <1>1, <2>1 DEF Commits, Outcome, Old
  <1>2. IInv => AllOrNothing
    BY <1>1 DEF AllOrNothing
  <1>. QED
    BY <1>2, Invariance, PTL

(* A runner that ends with success leaves the outputs of its recipes equal  *)
(* to what their active inputs come to.                                     *)
THEOREM SuccessIsPublished == Spec => []Published
  <1>1. ASSUME IInv, NEW r \in Runs, run[r].step = "ended", run[r].clear,
               run[r].code = 0, NEW c \in RecipesOf(r)
        PROVE  output[c] = Text(Active(c))
    <2>1. Commits(r) /\ Texts(r)
      BY <1>1 DEF IInv, Sound, Mine, Busy
    <2>2. output[c] = run[r].candidate[c]
      BY <1>1, <2>1 DEF Commits, Outcome
    <2>3. Fresh(r, c)
      BY <1>1, <2>1 DEF Texts
    <2>. QED
      BY <2>2, <2>3 DEF Fresh
  <1>2. IInv => Published
    BY <1>1 DEF Published
  <1>. QED
    BY <1>2, Invariance, PTL

(* A command that returns has left the local inputs as its kind promises:   *)
(* an install leaves what is there alone, a refresh and a registration      *)
(* leave it enabled or disabled, a failed registration leaves everything as *)
(* it was, and nothing gets a second name.                                  *)
THEOREM ChoicesAreKept == Spec => []ChoicesKept
  <1>1. ASSUME IInv, NEW r \in Runs, run[r].step = "return", run[r].clear,
               NEW n \in Names, RecipeOf[n] \in RecipesOf(r)
        PROVE  LET before == run[r].before.entry[n] IN
               /\ run[r].cmd \in {"install", "assemble", "check"}
                     /\ Occupied(before) # {} => entry[n] = before
               /\ run[r].cmd \in Deliveries /\ Occupied(before) # {}
                     => Occupied(entry[n]) = Occupied(before)
               /\ run[r].cmd = "register" /\ run[r].code # 0 /\ ~run[r].cut
                     => entry[n] = before
               /\ Occupied(entry[n]) = Slots => Occupied(before) = Slots
    <2>1. Choices(r) /\ Registered(r) /\ n \in Own(r)
      BY <1>1 DEF IInv, Sound, Mine, Busy, Inputs, Own
    <2>2. Touched(r) = {}
      BY <1>1 DEF Touched, Running, Building, Committing
    <2>3. run[r].cmd = "register" /\ run[r].code # 0 /\ ~run[r].cut
              => entry[n] = Was(r, n)
      BY <1>1, <2>1, <2>2 DEF Registered
    <2>. QED
      BY <2>1, <2>3 DEF Choices, Was
  <1>2. IInv => ChoicesKept
    BY <1>1 DEF ChoicesKept
  <1>. QED
    BY <1>2, Invariance, PTL

-----------------------------------------------------------------------------
(* What a kill may not do.                                                 *)

(* Only a kill ends a command before it returns.                           *)
LEMMA WhoStops ==
    ASSUME IInv, [Next]_vars, NEW r \in Runs, Busy(r), ~Busy(r)', run[r].step # "return"
    PROVE  UNCHANGED shared
  <1>1. TypeOK /\ Sound(r)
    BY DEF IInv
  <1>2. ASSUME NEW recipes, run'[r] = Disturb(run, recipes)[r] PROVE FALSE
    <2>1. run[r] \in Invocations
      BY <1>1, RunTyping
    <2>2. [run[r] EXCEPT !.clear = FALSE].step = run[r].step
      BY <2>1 DEF Invocations
    <2>3. run'[r].step = run[r].step
      BY <1>2, <2>2, DisturbFields
    <2>. QED
      BY <2>3 DEF Busy
  <1>3. CASE Produce
    BY <1>2, <1>3 DEF Produce
  <1>4. ASSUME NEW s \in Runs, Command(s) PROVE FALSE
    <2>1. CASE Begin(s)
      <3>1. s # r
        BY <2>1 DEF Begin, Busy
      <3>. QED
        BY <1>1, <1>2, <2>1, <3>1, BeginFields
    <2>2. CASE Return(s)
      <3>1. s # r
        BY <2>2 DEF Return
      <3>. QED
        BY <1>1, <2>2, <3>1, DoneFields DEF Return, Others, Busy
    <2>3. CASE Sounder(s)
      BY <2>3 DEF Sounder, Aside, Frame, Others, Busy
    <2>. QED
      BY <1>4, <2>1, <2>2, <2>3, CommandSound DEF IInv
  <1>5. ASSUME NEW s \in Runs, Kill(s) PROVE UNCHANGED shared
    BY <1>5 DEF Kill
  <1>6. CASE UNCHANGED vars
    BY <1>6 DEF vars, Busy
  <1>. QED
    BY <1>3, <1>4, <1>5, <1>6 DEF Next

(* Where a run that has not failed to undo has its outputs: each is as      *)
(* before, or as built, or lies beside it as a backup.                      *)
LEMMA NothingLost ==
    ASSUME IInv, NEW r \in Runs, Busy(r), run[r].step # "return", run[r].clear,
           ~run[r].cut, NEW c \in RecipesOf(r), Old(r, c) # Missing
    PROVE  \/ Old(r, c) \in {output[c], backup[r][c]}
           \/ output[c] = run[r].candidate[c]
  <1>1. TypeOK /\ Commits(r)
    BY DEF IInv, Sound, Mine
  <1>2. run[r].step \in Quiet \cup Committing \cup {"exit", "ended"}
    BY <1>1, Held DEF Busy, Runnings, Running, Quiet, Early
  <1>3. CASE run[r].step \in Quiet
    BY <1>1, <1>3 DEF Commits, Outcome
  <1>4. CASE run[r].step \in {"exit", "ended"}
    BY <1>1, <1>4 DEF Commits, Outcome
  <1>5. CASE run[r].step \in Committing
    <2>1. CASE c \notin Pending(r)
      BY <1>1, <1>5, <2>1 DEF Commits, Outcome
    <2>2. CASE c \in Pending(r)
      <3>1. PICK i \in DOMAIN run[r].pending : c = run[r].pending[i]
        BY <2>2 DEF Pending, Elements
      <3>2. Moves(r)
        BY <1>1, <1>5 DEF Commits, Outcome
      <3>3. CASE i \in Placed(r) \cup Hole(r)
        BY <3>1, <3>2, <3>3 DEF Moves
      <3>4. CASE i \notin Placed(r) \cup Hole(r)
        BY <3>1, <3>2, <3>4 DEF Moves
      <3>. QED
        BY <3>3, <3>4
    <2>. QED
      BY <2>1, <2>2
  <1>. QED
    BY <1>2, <1>3, <1>4, <1>5

(* A kill loses no output: what was there is still there, or lies beside it *)
(* as a backup, or has been replaced by the candidate.                      *)
THEOREM KillsLoseNothing == Spec => KilledKeeps
  <1>1. ASSUME IInv, [Next]_vars, NEW r \in Runs, run[r].step # "return",
               Busy(r), ~Busy(r)', run[r].clear, ~run[r].cut, NEW c \in RecipesOf(r),
               run[r].before.output[c] # Missing
        PROVE  \/ run[r].before.output[c] \in {output'[c], backup'[r][c]}
               \/ output'[c] = run[r].candidate[c]
    <2>1. output' = output /\ backup' = backup
      BY <1>1, WhoStops DEF shared, files
    <2>2. \/ Old(r, c) \in {output[c], backup[r][c]}
          \/ output[c] = run[r].candidate[c]
      BY <1>1, NothingLost DEF Old
    <2>. QED
      BY <2>1, <2>2 DEF Old
  <1>2. ASSUME IInv, [Next]_vars
        PROVE  [\A r \in Runs :
                  /\ run[r].step # "return" /\ Busy(r) /\ ~Busy(r)'
                  /\ run[r].clear /\ ~run[r].cut
                  => \A c \in RecipesOf(r) :
                        LET old == run[r].before.output[c] IN
                        old # Missing =>
                            \/ old \in {output'[c], backup'[r][c]}
                            \/ output'[c] = run[r].candidate[c]]_vars
    BY <1>1, <1>2
  <1>. QED
    BY <1>2, Invariance, PTL DEF Spec, KilledKeeps
=============================================================================
