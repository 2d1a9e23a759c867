------------------------- MODULE ConfigCommitProofs -------------------------
(***************************************************************************)
(* The inductive invariant of the commands on compiled configs, and how    *)
(* the runner keeps it.  For every step of a run on whose recipes nobody   *)
(* else works it says where each output, its candidate and its backup are, *)
(* and what became of each input.                                          *)
(***************************************************************************)
EXTENDS ConfigProperties, TLAPS

-----------------------------------------------------------------------------
(* The inductive invariant.                                                *)

Mine(r) == Busy(r) /\ run[r].clear
Distinct(seq) == \A i, j \in DOMAIN seq : seq[i] = seq[j] => i = j
Pending(r) == Elements(run[r].pending)
Old(r, c) == run[r].before.output[c]
Own(r) == {n \in Names : RecipeOf[n] \in RecipesOf(r)}

(* Nobody is at work on the recipes of a run that is clear.                *)
Alone ==
    \A r, s \in Runs : r # s /\ Mine(r) /\ Busy(s) =>
        RecipesOf(r) \cap RecipesOf(s) = {}

Early == {"catalog", "look", "act", "register"}
Quiet == Early \cup Building \cup {"revert"}

(* What a run holds from step to step.                                     *)
Queues(r) ==
    /\ Distinct(run[r].recipes) /\ run[r].recipes # <<>>
    /\ Distinct(run[r].pending)
    /\ \A i \in DOMAIN run[r].todo : run[r].todo[i] \in Own(r)
    /\ \A i \in DOMAIN run[r].previous : run[r].previous[i].name \in Own(r)
    /\ run[r].step \in {"look", "act"} => run[r].at = 1
    /\ run[r].step \in Early \cup {"list", "build"} => run[r].pending = <<>>
    /\ run[r].step \in Early \cup {"list", "build", "compare", "stage"}
          => run[r].reserved = {}
    /\ run[r].step = "compare" =>
          \A i \in DOMAIN run[r].pending : \E j \in 1 .. run[r].at - 1 :
              run[r].pending[i] = run[r].recipes[j]
    /\ run[r].step \in {"stage", "reserve"} \cup Committing => run[r].cmd # "check"

Registering(r) ==
    /\ run[r].step \in {"register", "revert"} => run[r].cmd = "register"
    /\ run[r].step = "catalog" =>
          run[r].cmd \in {"install", "sync"} /\ run[r].recipes = RecipeOrder
    /\ run[r].cmd = "register" =>
          /\ Len(run[r].previous) <= Len(Order)
          /\ \A i \in DOMAIN run[r].previous : run[r].previous[i].name = Order[i]
          /\ run[r].step \in {"look", "act"} =>
                /\ Len(run[r].todo) + Len(run[r].previous) = Len(Order)
                /\ \A i \in DOMAIN run[r].todo :
                      run[r].todo[i] = Order[Len(run[r].previous) + i]
          /\ run[r].step \notin {"look", "act", "return"} => run[r].previous # <<>>

Cutting(r) ==
    run[r].cut =>
        /\ run[r].step \in {"undo", "restore", "exit", "ended", "revert", "return"}
        /\ run[r].step \in {"exit", "ended"} => run[r].code # 0

Seeing(r) ==
    /\ run[r].step \notin {"look", "act"} => saw[r] = Unseen
    /\ run[r].step = "act" => \A s \in Slots : saw[r][s] # "unseen"

Shape(r) == (Busy(r) => Queues(r) /\ Registering(r) /\ Cutting(r)) /\ Seeing(r)

(* Which moves a committing run has made: the outputs placed, and the one  *)
(* that is out of the way.                                                 *)
Placed(r) ==
    CASE run[r].step = "drop" -> DOMAIN run[r].pending
      [] run[r].step = "undo" -> 1 .. run[r].at
      [] OTHER -> 1 .. run[r].at - 1
Hole(r) == IF run[r].step \in {"in", "restore"} THEN {run[r].at} ELSE {}

Moves(r) ==
    \A i \in DOMAIN run[r].pending :
        LET c == run[r].pending[i] IN
        /\ i \in Placed(r) => output[c] = run[r].candidate[c]
        /\ i \in Hole(r) => output[c] = Missing
        /\ i \in Placed(r) \cup Hole(r) /\ Old(r, c) # Missing
              => backup[r][c] = Old(r, c)
        /\ i \notin Placed(r) \cup Hole(r) => output[c] = Old(r, c)

Reserved(r) ==
    /\ run[r].step = "reserve" =>
          \A i \in DOMAIN run[r].pending :
              run[r].pending[i] \in run[r].reserved <=>
                  i < run[r].at /\ Old(r, run[r].pending[i]) # Missing
    /\ run[r].step \in Committing =>
          \A c \in Pending(r) : c \in run[r].reserved <=> Old(r, c) # Missing

Staged(r) ==
    run[r].step \in {"reserve", "away", "in"} =>
        \A i \in DOMAIN run[r].pending :
            run[r].step = "reserve" \/ i >= run[r].at =>
                staged[r][run[r].pending[i]]
                    = run[r].candidate[run[r].pending[i]]

Equal(r) ==
    /\ run[r].step = "compare" =>
          \A i \in 1 .. run[r].at - 1 :
              \/ run[r].recipes[i] \in Pending(r)
              \/ Old(r, run[r].recipes[i]) = run[r].candidate[run[r].recipes[i]]
    /\ run[r].step \in {"stage", "reserve"} \cup Committing =>
          \A c \in RecipesOf(r) \ Pending(r) : Old(r, c) = run[r].candidate[c]

(* Where the outputs of a clear run are.                                   *)
Outcome(r) ==
    /\ run[r].step \in Quiet /\ ~run[r].cut
          => \A c \in RecipesOf(r) : output[c] = Old(r, c)
    /\ run[r].step \in Committing /\ ~run[r].cut =>
          /\ \A c \in RecipesOf(r) \ Pending(r) : output[c] = Old(r, c)
          /\ Moves(r)
    /\ run[r].step \in {"exit", "ended"} =>
          /\ run[r].code # 0 /\ ~run[r].cut
                => \A c \in RecipesOf(r) : output[c] = Old(r, c)
          /\ run[r].code = 0
                => \A c \in RecipesOf(r) : output[c] = run[r].candidate[c]

Commits(r) == Reserved(r) /\ Staged(r) /\ Equal(r) /\ Outcome(r)

(* The candidates of a clear run are what the inputs come to.              *)
Fresh(r, c) == run[r].candidate[c] = Text(Active(c))
Texts(r) ==
    /\ run[r].step \in {"list", "build"} =>
          \A i \in 1 .. run[r].at - 1 : Fresh(r, run[r].recipes[i])
    /\ run[r].step = "build" => run[r].listed = Active(At(r))
    /\ \/ run[r].step \in {"compare", "stage", "reserve"} \cup Committing
       \/ run[r].step \in {"exit", "ended"} /\ run[r].code = 0
       => \A c \in RecipesOf(r) : Fresh(r, c)

(* The inputs of a clear run.                                              *)
Was(r, n) == run[r].before.entry[n]
Choices(r) ==
    \A n \in Own(r) :
        /\ run[r].cmd \in {"install", "assemble", "check"}
              /\ Occupied(Was(r, n)) # {} => entry[n] = Was(r, n)
        /\ run[r].cmd \in Deliveries /\ Occupied(Was(r, n)) # {}
              => Occupied(entry[n]) = Occupied(Was(r, n))
        /\ Occupied(entry[n]) = Slots => Occupied(Was(r, n)) = Slots

Looked(r) ==
    run[r].step \in {"look", "act"} =>
        \A s \in Slots : saw[r][s] \in {"unseen", entry[Name(r)][s]}

(* Which registrations have been delivered and not put back.               *)
Touched(r) ==
    IF run[r].step = "register" THEN 1 .. run[r].at - 1
    ELSE IF run[r].step = "revert" THEN 1 .. run[r].at
    ELSE IF run[r].step \in Running \cup {"ended"} THEN DOMAIN run[r].previous
    ELSE {}

Registered(r) ==
    run[r].cmd = "register" =>
        /\ \A i \in DOMAIN run[r].previous :
              LET e == run[r].previous[i]
                  was == Was(r, e.name)
              IN  /\ Occupied(was) \subseteq {e.slot}
                  /\ e.file = was[e.slot]
        /\ \A i \in Touched(r) :
              LET e == run[r].previous[i]
              IN  \A s \in Slots : s # e.slot =>
                      entry[e.name][s] = Was(r, e.name)[s]
        /\ run[r].step # "return" \/ (run[r].code # 0 /\ ~run[r].cut) =>
              \A n \in Own(r) :
                  (\A i \in Touched(r) : run[r].previous[i].name # n)
                  => entry[n] = Was(r, n)

Inputs(r) == Choices(r) /\ Looked(r) /\ Registered(r)

(* What is proved of each run: its own part, whatever the others do, and,  *)
(* while it is clear, what it finds in the files they share.               *)
Sound(r) == Shape(r) /\ (Mine(r) => Commits(r) /\ Texts(r) /\ Inputs(r))

IInv == TypeOK /\ Alone /\ \A r \in Runs : Sound(r)

-----------------------------------------------------------------------------
(* How the record of a run changes.                                        *)

Fixed(r) ==
    /\ run'[r].cmd = run[r].cmd /\ run'[r].recipes = run[r].recipes
    /\ run'[r].clear = run[r].clear /\ run'[r].before = run[r].before
Inquiry(r) ==
    /\ run'[r].todo = run[r].todo /\ run'[r].catalog = run[r].catalog
    /\ run'[r].failed = run[r].failed /\ run'[r].previous = run[r].previous
Work(r) ==
    /\ run'[r].listed = run[r].listed /\ run'[r].candidate = run[r].candidate
    /\ run'[r].pending = run[r].pending /\ run'[r].reserved = run[r].reserved
Others(r) == \A s \in Runs : s # r => run'[s] = run[s]
Goes(r, step, at) == run'[r].step = step /\ run'[r].at = at

LEMMA Held ==
    ASSUME TypeOK, NEW r \in Runs
    PROVE  /\ run[r] \in Invocations
           /\ run[r].step \in Runnings \cup {"idle", "done"}
           /\ run[r].cmd \in CommandKinds \cup {"none"}
           /\ run[r].recipes \in Seq(Recipes) /\ run[r].todo \in Seq(Names)
           /\ run[r].catalog \in [Names -> {"enabled", "disabled", "missing"}]
           /\ run[r].failed \in BOOLEAN /\ run[r].previous \in Seq(Previous)
           /\ run[r].at \in Nat /\ run[r].listed \in SUBSET Names
           /\ run[r].candidate \in Outputs
           /\ run[r].pending \in Seq(Recipes)
           /\ run[r].reserved \in SUBSET Recipes
           /\ run[r].code \in {0, 1, 2, 128} /\ run[r].cut \in BOOLEAN
           /\ run[r].clear \in BOOLEAN
           /\ run[r].before.entry \in Entries
           /\ run[r].before.output \in Outputs
           /\ run[r].before \in [entry : Entries, output : Outputs]
  <1>1. run[r] \in Invocations
    BY DEF TypeOK
  <1>. QED
    BY <1>1 DEF Invocations

LEMMA RunTyping ==
    ASSUME TypeOK, NEW r \in Runs
    PROVE  run \in [Runs -> Invocations] /\ run[r] \in Invocations
  <1>. QED
    BY DEF TypeOK

LEMMA Retyped ==
    ASSUME TypeOK, NEW r \in Runs, NEW q \in Invocations,
           run' = [run EXCEPT ![r] = q]
    PROVE  run' \in [Runs -> Invocations]
  <1>. QED
    BY DEF TypeOK

(* A run goes on to a step of the same work.                               *)
LEMMA GoFields ==
    ASSUME TypeOK, NEW r \in Runs, NEW step \in Runnings, NEW at \in Nat,
           run' = Go(r, step, at)
    PROVE  /\ run' \in [Runs -> Invocations] /\ Others(r)
           /\ Goes(r, step, at) /\ Fixed(r) /\ Inquiry(r) /\ Work(r)
           /\ run'[r].code = run[r].code /\ run'[r].cut = run[r].cut
  <1>1. run \in [Runs -> Invocations] /\ run[r] \in Invocations
    BY DEF TypeOK
  <1> DEFINE q == [run[r] EXCEPT !.step = step, !.at = at]
  <1>2. q \in Invocations
    BY <1>1 DEF Invocations
  <1>3. run' = [run EXCEPT ![r] = q]
    BY <1>1, ZenonT(60) DEF Go, Invocations
  <1>4. run' \in [Runs -> Invocations]
    BY <1>2, <1>3, Retyped
  <1>. QED
    BY <1>1, <1>4, SMTT(40) DEF Go, Invocations, Others, Goes, Fixed, Inquiry, Work

LEMMA ExitFields ==
    ASSUME TypeOK, NEW r \in Runs, NEW code \in {0, 1, 128},
           run' = Exit(r, code)
    PROVE  /\ run' \in [Runs -> Invocations] /\ Others(r)
           /\ Goes(r, "exit", run[r].at) /\ Fixed(r) /\ Inquiry(r) /\ Work(r)
           /\ run'[r].code = code /\ run'[r].cut = run[r].cut
  <1>1. run \in [Runs -> Invocations] /\ run[r] \in Invocations
    BY DEF TypeOK
  <1> DEFINE q == [run[r] EXCEPT !.step = "exit", !.code = code]
  <1>2. q \in Invocations
    BY <1>1, ZenonT(60) DEF Invocations, Runnings, Running
  <1>3. run' = [run EXCEPT ![r] = q]
    BY <1>1, ZenonT(60) DEF Exit, Invocations
  <1>4. run' \in [Runs -> Invocations]
    BY <1>2, <1>3, Retyped
  <1>. QED
    BY <1>1, <1>4, SMTT(40) DEF Exit, Invocations, Others, Goes, Fixed, Inquiry, Work

LEMMA FinishFields ==
    ASSUME TypeOK, NEW r \in Runs, NEW code \in {0, 1, 2, 128},
           run' = Finish(r, code)
    PROVE  /\ run' \in [Runs -> Invocations] /\ Others(r)
           /\ Goes(r, "return", run[r].at) /\ Fixed(r) /\ Inquiry(r) /\ Work(r)
           /\ run'[r].code = code /\ run'[r].cut = run[r].cut
  <1>1. run \in [Runs -> Invocations] /\ run[r] \in Invocations
    BY DEF TypeOK
  <1> DEFINE q == [run[r] EXCEPT !.step = "return", !.code = code]
  <1>2. q \in Invocations
    BY <1>1, ZenonT(60) DEF Invocations, Runnings
  <1>3. run' = [run EXCEPT ![r] = q]
    BY <1>1, ZenonT(60) DEF Finish, Invocations
  <1>4. run' \in [Runs -> Invocations]
    BY <1>2, <1>3, Retyped
  <1>. QED
    BY <1>1, <1>4, SMTT(40) DEF Finish, Invocations, Others, Goes, Fixed, Inquiry, Work

LEMMA ElementsTyping ==
    ASSUME NEW S, NEW seq \in Seq(S)
    PROVE  /\ DOMAIN seq = 1 .. Len(seq) /\ Len(seq) \in Nat
           /\ \A i \in DOMAIN seq : seq[i] \in Elements(seq) /\ seq[i] \in S
           /\ Elements(seq) \subseteq S
  <1>. QED
    BY DEF Elements

LEMMA PositionTypes ==
    ASSUME TypeOK, NEW r \in Runs
    PROVE  /\ run[r].step \in {"list", "build", "compare"}
                 => /\ run[r].at \in 1 .. Len(run[r].recipes)
                    /\ At(r) \in RecipesOf(r) /\ At(r) \in Recipes
           /\ run[r].step \in {"reserve", "away", "in", "undo", "restore"}
                 => /\ run[r].at \in 1 .. Len(run[r].pending)
                    /\ PendingAt(r) \in Pending(r) /\ PendingAt(r) \in Recipes
           /\ Pending(r) \subseteq RecipesOf(r) /\ RecipesOf(r) \subseteq Recipes
           /\ run[r].reserved \subseteq Pending(r)
           /\ DOMAIN run[r].recipes = 1 .. Len(run[r].recipes)
           /\ DOMAIN run[r].pending = 1 .. Len(run[r].pending)
           /\ Len(run[r].recipes) \in Nat /\ Len(run[r].pending) \in Nat
  <1>1. Positions(r)
    BY DEF TypeOK
  <1> DEFINE rec == run[r].recipes
             pend == run[r].pending
  <1>2. rec \in Seq(Recipes) /\ pend \in Seq(Recipes)
    BY Held
  <1>3. /\ DOMAIN rec = 1 .. Len(rec) /\ Len(rec) \in Nat
        /\ \A i \in DOMAIN rec : rec[i] \in RecipesOf(r) /\ rec[i] \in Recipes
        /\ RecipesOf(r) \subseteq Recipes
    BY <1>2, ElementsTyping DEF RecipesOf
  <1>4. /\ DOMAIN pend = 1 .. Len(pend) /\ Len(pend) \in Nat
        /\ \A i \in DOMAIN pend : pend[i] \in Pending(r) /\ pend[i] \in Recipes
    BY <1>2, ElementsTyping DEF Pending
  <1>. QED
    BY <1>1, <1>3, <1>4 DEF Positions, At, PendingAt, Pending, RecipesOf

(* How the runner's steps change its record, when they do not just go on   *)
(* or leave.                                                               *)
LEMMA ListFields ==
    ASSUME TypeOK, NEW r \in Runs, List(r)
    PROVE  /\ run' \in [Runs -> Invocations] /\ Others(r) /\ Fixed(r) /\ Inquiry(r)
           /\ run'[r].cut = run[r].cut
           /\ run'[r].candidate = run[r].candidate
           /\ run'[r].pending = run[r].pending /\ run'[r].reserved = run[r].reserved
           /\ run'[r].at = run[r].at
           /\ \/ /\ Goes(r, "exit", run[r].at)
                 /\ run'[r].code = 1 /\ run'[r].listed = run[r].listed
              \/ /\ Goes(r, "build", run[r].at) /\ run'[r].listed = Active(At(r))
                 /\ run'[r].code = run[r].code
  <1>1. CASE run' = Exit(r, 1)
    BY <1>1, ExitFields DEF Goes, Work
  <1>2. CASE run' = [run EXCEPT ![r].step = "build", ![r].listed = Active(At(r))]
    <2> DEFINE q == [run[r] EXCEPT !.step = "build", !.listed = Active(At(r))]
    <2>1. run[r] \in Invocations
      BY Held
    <2>2. Active(At(r)) \in SUBSET Names
      BY DEF Active
    <2> HIDE DEF Active
    <2>3. q \in Invocations
      BY <2>1, <2>2, ZenonT(60) DEF Invocations, Runnings, Running, Building
    <2>4. run' = [run EXCEPT ![r] = q]
      BY <1>2, <2>1, ZenonT(60) DEF Invocations, TypeOK
    <2>5. run' \in [Runs -> Invocations]
      BY <2>3, <2>4, Retyped
    <2>. QED
      BY <2>1, <2>2, <2>4, <2>5, SMTT(40) DEF Invocations, TypeOK, Others, Goes, Fixed, Inquiry
  <1>. QED
    BY <1>1, <1>2 DEF List

LEMMA TextTyping ==
    ASSUME TypeOK, NEW names \in SUBSET Names
    PROVE  Text(names) \in Contents
  <1>1. SUFFICES ASSUME NEW n \in Names
                 PROVE  Read(n, entry[n].active) \in Files \cup {"old"}
    BY <1>1 DEF Text, Contents
  <1>2. entry[n].active \in Files /\ donor[n].text \in {"v1", "v2"}
    BY DEF TypeOK, Entries, Slots
  <1>. QED
    BY <1>2 DEF Read, Files, Links

LEMMA BuildFields ==
    ASSUME TypeOK, NEW r \in Runs, Build(r)
    PROVE  /\ run' \in [Runs -> Invocations] /\ Others(r) /\ Fixed(r) /\ Inquiry(r)
           /\ run'[r].cut = run[r].cut
           /\ run'[r].pending = run[r].pending /\ run'[r].reserved = run[r].reserved
           /\ \/ /\ Goes(r, "exit", run[r].at)
                 /\ run'[r].code = 1 /\ run'[r].candidate = run[r].candidate
              \/ /\ \/ run[r].at = Len(run[r].recipes) /\ Goes(r, "compare", 1)
                    \/ /\ run[r].at # Len(run[r].recipes)
                       /\ Goes(r, "list", run[r].at + 1)
                 /\ run'[r].candidate =
                       [run[r].candidate EXCEPT ![At(r)] = Text(run[r].listed)]
                 /\ run'[r].code = run[r].code
  <1> DEFINE text == Text(run[r].listed)
             last == run[r].at = Len(run[r].recipes)
             step == IF last THEN "compare" ELSE "list"
             at == IF last THEN 1 ELSE run[r].at + 1
             q == [run[r] EXCEPT !.candidate[At(r)] = text, !.listed = {},
                                 !.step = step, !.at = at]
  <1>1. run[r] \in Invocations /\ run[r].candidate \in Outputs /\ run[r].at \in Nat
    BY Held
  <1>2. CASE run' = Exit(r, 1)
    BY <1>2, ExitFields DEF Goes, Work
  <1>3. CASE run' = [run EXCEPT ![r].candidate[At(r)] = text,
                                ![r].listed = {},
                                ![r].step = step,
                                ![r].at = IF last THEN 1 ELSE @ + 1]
    <2>1. text \in Contents
      BY TextTyping, Held
    <2>2. step \in {"list", "compare"} /\ at \in Nat
      BY <1>1
    <2>3. run' = [run EXCEPT ![r] = q]
      BY <1>1, <1>3, ZenonT(60) DEF Invocations, TypeOK
    <2> HIDE DEF text, step, at
    <2>4. [run[r].candidate EXCEPT ![At(r)] = text] \in Outputs
      BY <1>1, <2>1 DEF Outputs
    <2>5. q = [run[r] EXCEPT !.candidate = [run[r].candidate EXCEPT ![At(r)] = text],
                             !.listed = {}, !.step = step, !.at = at]
      BY <1>1 DEF Invocations
    <2>6. q \in Invocations
      BY <1>1, <2>2, <2>4, <2>5, ZenonT(60) DEF Invocations, Runnings, Running, Building
    <2>7. run' \in [Runs -> Invocations]
      BY <2>3, <2>6, Retyped
    <2>8. /\ Others(r) /\ Fixed(r) /\ Inquiry(r) /\ Goes(r, step, at)
          /\ run'[r].cut = run[r].cut
          /\ run'[r].pending = run[r].pending /\ run'[r].reserved = run[r].reserved
          /\ run'[r].candidate = [run[r].candidate EXCEPT ![At(r)] = text]
          /\ run'[r].code = run[r].code
      BY <1>1, <2>3, <2>5 DEF Invocations, TypeOK, Others, Goes, Fixed, Inquiry
    <2>. QED
      BY <2>7, <2>8 DEF step, at, text
  <1>. QED
    BY <1>2, <1>3, Zenon DEF Build

LEMMA CompareFields ==
    ASSUME TypeOK, NEW r \in Runs, Compare(r)
    PROVE  /\ run' \in [Runs -> Invocations] /\ Others(r) /\ Fixed(r) /\ Inquiry(r)
           /\ run'[r].cut = run[r].cut
           /\ run'[r].candidate = run[r].candidate
           /\ run'[r].reserved = run[r].reserved
           /\ LET pending == IF Differs(r, At(r)) THEN Append(run[r].pending, At(r))
                             ELSE run[r].pending
                  last == run[r].at = Len(run[r].recipes)
              IN  \/ /\ last /\ run[r].cmd = "check"
                     /\ Goes(r, "exit", run[r].at)
                     /\ run'[r].pending = run[r].pending
                     /\ run'[r].code = IF pending = <<>> THEN 0 ELSE 1
                  \/ /\ ~(last /\ run[r].cmd = "check")
                     /\ run'[r].pending = pending
                     /\ run'[r].code = run[r].code
                     /\ IF last THEN Goes(r, "stage", 1)
                        ELSE Goes(r, "compare", run[r].at + 1)
  <1> DEFINE pending == IF Differs(r, At(r)) THEN Append(run[r].pending, At(r))
                        ELSE run[r].pending
             last == run[r].at = Len(run[r].recipes)
             step == IF last THEN "stage" ELSE "compare"
             at == IF last THEN 1 ELSE run[r].at + 1
             q == [run[r] EXCEPT !.pending = pending, !.step = step, !.at = at]
  <1>1. run[r] \in Invocations /\ run[r].pending \in Seq(Recipes) /\ run[r].at \in Nat
    BY Held
  <1>2. At(r) \in Recipes
    BY PositionTypes DEF Compare
  <1>3. pending \in Seq(Recipes)
    BY <1>1, <1>2, SMTT(40)
  <1>4. CASE last /\ run[r].cmd = "check"
    <2>1. run' = Exit(r, IF pending = <<>> THEN 0 ELSE 1)
      BY <1>4 DEF Compare
    <2> HIDE DEF pending
    <2>. QED
      BY <2>1, <1>4, ExitFields, ZenonT(60) DEF Goes, Work, pending
  <1>5. CASE ~(last /\ run[r].cmd = "check")
    <2>1. run' = [run EXCEPT ![r].pending = pending,
                             ![r].step = step,
                             ![r].at = IF last THEN 1 ELSE @ + 1]
      BY <1>5 DEF Compare
    <2>2. step \in {"stage", "compare"} /\ at \in Nat
      BY <1>1
    <2> HIDE DEF pending
    <2>3. run' = [run EXCEPT ![r] = q]
      BY <1>1, <2>1, ZenonT(60) DEF Invocations, TypeOK
    <2> HIDE DEF step, at
    <2>4. q \in Invocations
      BY <1>1, <1>3, <2>2, ZenonT(60) DEF Invocations, Runnings, Running, Building
    <2>5. run' \in [Runs -> Invocations]
      BY <2>3, <2>4, Retyped
    <2>6. /\ Others(r) /\ Fixed(r) /\ Inquiry(r) /\ Goes(r, step, at)
          /\ run'[r].cut = run[r].cut
          /\ run'[r].candidate = run[r].candidate
          /\ run'[r].pending = pending /\ run'[r].reserved = run[r].reserved
          /\ run'[r].code = run[r].code
      BY <1>1, <2>3 DEF Invocations, TypeOK, Others, Goes, Fixed, Inquiry
    <2>7. IF last THEN Goes(r, "stage", 1) ELSE Goes(r, "compare", run[r].at + 1)
      BY <2>6 DEF step, at
    <2>. QED
      BY <1>5, <2>5, <2>6, <2>7 DEF pending
  <1>. QED
    BY <1>4, <1>5

LEMMA ReserveFields ==
    ASSUME TypeOK, NEW r \in Runs, Reserve(r)
    PROVE  /\ run' \in [Runs -> Invocations] /\ Others(r) /\ Fixed(r) /\ Inquiry(r)
           /\ run'[r].cut = run[r].cut /\ run'[r].code = run[r].code
           /\ run'[r].candidate = run[r].candidate
           /\ run'[r].pending = run[r].pending
           /\ run'[r].reserved = IF output[PendingAt(r)] # Missing
                                 THEN run[r].reserved \cup {PendingAt(r)}
                                 ELSE run[r].reserved
           /\ IF run[r].at = Len(run[r].pending) THEN Goes(r, "away", 1)
              ELSE Goes(r, "reserve", run[r].at + 1)
  <1> DEFINE c == PendingAt(r)
             last == run[r].at = Len(run[r].pending)
             step == IF last THEN "away" ELSE "reserve"
             at == IF last THEN 1 ELSE run[r].at + 1
             reserved == IF output[c] # Missing THEN run[r].reserved \cup {c}
                         ELSE run[r].reserved
             q == [run[r] EXCEPT !.reserved = reserved, !.step = step, !.at = at]
  <1>1. run[r] \in Invocations /\ run[r].reserved \in SUBSET Recipes /\ run[r].at \in Nat
    BY Held
  <1>2. c \in Recipes
    BY PositionTypes DEF Reserve
  <1>3. reserved \in SUBSET Recipes /\ step \in {"away", "reserve"} /\ at \in Nat
    BY <1>1, <1>2
  <1>4. run' = [run EXCEPT ![r] = q]
    BY <1>1, ZenonT(60) DEF Invocations, TypeOK, Reserve
  <1> HIDE DEF reserved, step, at
  <1>5. q \in Invocations
    BY <1>1, <1>3, ZenonT(60) DEF Invocations, Runnings, Running, Building, Committing
  <1>6. run' \in [Runs -> Invocations]
    BY <1>4, <1>5, Retyped
  <1>7. /\ Others(r) /\ Fixed(r) /\ Inquiry(r) /\ Goes(r, step, at)
        /\ run'[r].cut = run[r].cut /\ run'[r].code = run[r].code
        /\ run'[r].candidate = run[r].candidate
        /\ run'[r].pending = run[r].pending /\ run'[r].reserved = reserved
    BY <1>1, <1>4 DEF Invocations, TypeOK, Others, Goes, Fixed, Inquiry
  <1>. QED
    BY <1>6, <1>7 DEF step, at, reserved

(* From the move before, or the first.                                     *)
LEMMA BackFields ==
    ASSUME TypeOK, NEW r \in Runs, run' = Back(r),
           run[r].at \in 1 .. Len(run[r].pending)
    PROVE  /\ run' \in [Runs -> Invocations] /\ Others(r) /\ Fixed(r) /\ Inquiry(r)
           /\ Work(r) /\ run'[r].cut = run[r].cut
           /\ \/ /\ run[r].at = 1 /\ Goes(r, "exit", 1) /\ run'[r].code = 1
              \/ /\ run[r].at > 1 /\ Goes(r, "undo", run[r].at - 1)
                 /\ run'[r].code = run[r].code
  <1>1. run[r].at \in Nat /\ run[r].pending \in Seq(Recipes)
    BY Held
  <1>2. CASE run[r].at = 1
    BY <1>2, ExitFields DEF Back
  <1>3. CASE run[r].at # 1
    <2>1. /\ run[r].at - 1 \in Nat /\ run[r].at > 1
          /\ run' = Go(r, "undo", run[r].at - 1)
      BY <1>1, <1>3 DEF Back
    <2>2. "undo" \in Runnings
      BY DEF Runnings, Running, Committing
    <2>. QED
      BY <2>1, <2>2, GoFields
  <1>. QED
    BY <1>2, <1>3

BackCut(r) == run' = [Back(r) EXCEPT ![r].cut = TRUE]

LEMMA BackCutFields ==
    ASSUME TypeOK, NEW r \in Runs, BackCut(r),
           run[r].at \in 1 .. Len(run[r].pending)
    PROVE  /\ run' \in [Runs -> Invocations] /\ Others(r) /\ Fixed(r) /\ Inquiry(r)
           /\ Work(r) /\ run'[r].cut
           /\ \/ /\ run[r].at = 1 /\ Goes(r, "exit", 1) /\ run'[r].code = 1
              \/ /\ run[r].at > 1 /\ Goes(r, "undo", run[r].at - 1)
                 /\ run'[r].code = run[r].code
  <1>8. run[r] \in Invocations
    BY RunTyping
  <1>9. "exit" \in Runnings /\ "undo" \in Runnings
    BY DEF Runnings, Running, Committing
  <1>0. run \in [Runs -> Invocations] /\ run[r] \in Invocations
    BY RunTyping
  <1>1. run[r].at \in Nat /\ run[r].at >= 1
    BY Held
  <1>2. CASE run[r].at = 1
    <2>1. run' = [run EXCEPT ![r] = [run[r] EXCEPT !.step = "exit", !.code = 1, !.cut = TRUE]]
      BY <1>0, <1>2 DEF BackCut, Back, Exit
    <2>2. run'[r] = [run[r] EXCEPT !.step = "exit", !.code = 1, !.cut = TRUE] /\ Others(r)
      BY <1>0, <2>1 DEF Others
    <2>3. run'[r] \in Invocations
      <3>1. [run[r] EXCEPT !.step = "exit", !.code = 1, !.cut = TRUE] \in Invocations
        BY <1>8, <1>9 DEF Invocations
      <3>. QED
        BY <2>2, <3>1
    <2>4. run' \in [Runs -> Invocations]
      BY <1>0, <2>1, <2>3
    <2>5. run'[r].cut
      BY <1>0, <2>2 DEF Invocations
    <2>6. Goes(r, "exit", run[r].at) /\ run'[r].code = 1 /\ Fixed(r) /\ Inquiry(r) /\ Work(r)
      BY <1>0, <2>2 DEF Invocations, Goes, Fixed, Inquiry, Work
    <2>. QED
      BY <1>2, <2>2, <2>4, <2>5, <2>6
  <1>3. CASE run[r].at # 1
    <2>0. run[r].at - 1 \in Nat /\ run[r].at > 1
      BY <1>1, <1>3
    <2>1. run' = [run EXCEPT ![r] = [run[r] EXCEPT !.step = "undo", !.at = run[r].at - 1, !.cut = TRUE]]
      BY <1>0, <1>3 DEF BackCut, Back, Go
    <2>2. run'[r] = [run[r] EXCEPT !.step = "undo", !.at = run[r].at - 1, !.cut = TRUE] /\ Others(r)
      BY <1>0, <2>1 DEF Others
    <2>3. run'[r] \in Invocations
      <3>1. [run[r] EXCEPT !.step = "undo", !.at = run[r].at - 1, !.cut = TRUE] \in Invocations
        BY <1>8, <1>9, <2>0 DEF Invocations
      <3>. QED
        BY <2>2, <3>1
    <2>4. run' \in [Runs -> Invocations]
      BY <1>0, <2>1, <2>3
    <2>5. run'[r].cut
      BY <1>0, <2>2 DEF Invocations
    <2>6. Goes(r, "undo", run[r].at - 1) /\ run'[r].code = run[r].code /\ Fixed(r) /\ Inquiry(r) /\ Work(r)
      BY <1>0, <2>2 DEF Invocations, Goes, Fixed, Inquiry, Work
    <2>. QED
      BY <2>0, <2>2, <2>4, <2>5, <2>6
  <1>. QED
    BY <1>2, <1>3

LEMMA SignalFields ==
    ASSUME TypeOK, NEW r \in Runs, Signal(r)
    PROVE  /\ run' \in [Runs -> Invocations] /\ Others(r) /\ Fixed(r) /\ Inquiry(r)
           /\ Work(r) /\ Goes(r, "exit", run[r].at)
           /\ run'[r].code = 128
           /\ run[r].step \in Building => ~run'[r].cut
           /\ run[r].step \in Committing => run'[r].cut
  <1>8. run[r] \in Invocations
    BY RunTyping
  <1>9. "exit" \in Runnings /\ "undo" \in Runnings
    BY DEF Runnings, Running, Committing
  <1>0. run \in [Runs -> Invocations] /\ run[r] \in Invocations
    BY RunTyping
  <1>1. Building \cap Committing = {}
    BY DEF Building, Committing
  <1>2. CASE run[r].step \in Committing
    <2>1. run' = [run EXCEPT ![r] = [run[r] EXCEPT !.step = "exit", !.code = 128, !.cut = TRUE]]
      BY <1>0, <1>2 DEF Signal, Exit
    <2>2. run'[r] = [run[r] EXCEPT !.step = "exit", !.code = 128, !.cut = TRUE] /\ Others(r)
      BY <1>0, <2>1 DEF Others
    <2>3. run'[r] \in Invocations
      <3>1. [run[r] EXCEPT !.step = "exit", !.code = 128, !.cut = TRUE] \in Invocations
        BY <1>8, <1>9, ZenonT(60) DEF Invocations
      <3>. QED
        BY <2>2, <3>1
    <2>4. run' \in [Runs -> Invocations]
      BY <1>0, <2>1, <2>3
    <2>5. run'[r].cut
      BY <1>0, <2>2 DEF Invocations
    <2>6. Goes(r, "exit", run[r].at) /\ run'[r].code = 128 /\ Fixed(r) /\ Inquiry(r) /\ Work(r)
      BY <1>0, <2>2 DEF Invocations, Goes, Fixed, Inquiry, Work
    <2>. QED
      BY <1>1, <1>2, <2>2, <2>4, <2>5, <2>6
  <1>3. CASE run[r].step \in Building
    <2>0. run[r].step \notin Committing
      BY <1>1, <1>3
    <2>1. run' = [run EXCEPT ![r] = [run[r] EXCEPT !.step = "exit", !.code = 128, !.cut = FALSE]]
      <3>1. (run[r].step \in Committing) = FALSE
        BY <2>0
      <3>2. run' = [Exit(r, 128) EXCEPT ![r].cut = FALSE]
        BY <3>1, Zenon DEF Signal
      <3>. QED
        BY <1>0, <3>2 DEF Exit
    <2>2. run'[r] = [run[r] EXCEPT !.step = "exit", !.code = 128, !.cut = FALSE] /\ Others(r)
      BY <1>0, <2>1 DEF Others
    <2>3. run'[r] \in Invocations
      <3>1. [run[r] EXCEPT !.step = "exit", !.code = 128, !.cut = FALSE] \in Invocations
        BY <1>8, <1>9, ZenonT(60) DEF Invocations
      <3>. QED
        BY <2>2, <3>1
    <2>4. run' \in [Runs -> Invocations]
      BY <1>0, <2>1, <2>3
    <2>5. ~run'[r].cut
      BY <1>0, <2>2 DEF Invocations
    <2>6. Goes(r, "exit", run[r].at) /\ run'[r].code = 128 /\ Fixed(r) /\ Inquiry(r) /\ Work(r)
      BY <1>0, <2>2 DEF Invocations, Goes, Fixed, Inquiry, Work
    <2>. QED
      BY <2>0, <2>2, <2>4, <2>5, <2>6
  <1>. QED
    BY <1>2, <1>3 DEF Signal

LEMMA CleanupFields ==
    ASSUME TypeOK, NEW r \in Runs, Cleanup(r)
    PROVE  /\ run' \in [Runs -> Invocations] /\ Others(r) /\ Fixed(r) /\ Inquiry(r)
           /\ Work(r) /\ Goes(r, "ended", run[r].at)
           /\ run'[r].cut = run[r].cut /\ run'[r].code = run[r].code
  <1> DEFINE q == [run[r] EXCEPT !.step = "ended"]
  <1>1. run[r] \in Invocations
    BY Held
  <1>2. run' = [run EXCEPT ![r] = q]
    BY <1>1 DEF Invocations, TypeOK, Cleanup
  <1>3. q \in Invocations
    BY <1>1 DEF Invocations, Runnings
  <1>4. run' \in [Runs -> Invocations]
    BY <1>2, <1>3, Retyped
  <1>5. run'[r] = q /\ Others(r)
    BY <1>2 DEF TypeOK, Others
  <1>. QED
    BY <1>1, <1>4, <1>5, SMTT(40) DEF Invocations, Goes, Fixed, Inquiry, Work

(* What a step of a run leaves alone, whatever it does.                    *)
Frame(r) ==
    /\ run' \in [Runs -> Invocations] /\ Others(r)
    /\ output' \in Outputs
    /\ staged' \in [Runs -> Outputs] /\ backup' \in [Runs -> Outputs]
    /\ faults' \in 0 .. MaxFaults
    /\ \A c \in Recipes \ RecipesOf(r) : output'[c] = output[c]
    /\ \A s \in Runs : s # r => staged'[s] = staged[s] /\ backup'[s] = backup[s]

LEMMA FileTyping ==
    ASSUME TypeOK
    PROVE  /\ output \in Outputs /\ Missing \in Contents /\ Empty \in Contents
           /\ staged \in [Runs -> Outputs] /\ backup \in [Runs -> Outputs]
           /\ [c \in Recipes |-> Missing] \in Outputs
           /\ faults \in 0 .. MaxFaults /\ MaxFaults \in Nat
  <1>1. Missing \in Contents /\ Empty \in Contents
    BY DEF Contents, Empty
  <1>2. MaxFaults \in Nat
    BY CommitAssumption
  <1>. QED
    BY <1>1, <1>2 DEF TypeOK, Outputs

LEMMA FaultTyping ==
    ASSUME TypeOK, NEW kind, Fault(kind)
    PROVE  faults' \in 0 .. MaxFaults
  <1>1. faults \in 0 .. MaxFaults /\ MaxFaults \in Nat
    BY FileTyping
  <1>. QED
    BY <1>1 DEF Fault

(* A file of a run or of a recipe changes.                                 *)
LEMMA FileUpdate ==
    ASSUME TypeOK, NEW c \in Recipes, NEW v \in Contents
    PROVE  /\ [output EXCEPT ![c] = v] \in Outputs
           /\ \A r \in Runs :
                 /\ [staged EXCEPT ![r][c] = v] \in [Runs -> Outputs]
                 /\ [backup EXCEPT ![r][c] = v] \in [Runs -> Outputs]
  <1>1. output \in Outputs /\ staged \in [Runs -> Outputs] /\ backup \in [Runs -> Outputs]
    BY FileTyping
  <1>. QED
    BY <1>1 DEF Outputs

LEMMA FilesKept ==
    ASSUME TypeOK, NEW r \in Runs, UNCHANGED files, faults' \in 0 .. MaxFaults,
           run' \in [Runs -> Invocations], Others(r)
    PROVE  Frame(r)
  <1>1. output \in Outputs /\ staged \in [Runs -> Outputs] /\ backup \in [Runs -> Outputs]
    BY FileTyping
  <1>. QED
    BY <1>1 DEF Frame, files

LEMMA StageFields ==
    ASSUME TypeOK, NEW r \in Runs, Stage(r)
    PROVE  /\ Frame(r) /\ Fixed(r) /\ Inquiry(r) /\ Work(r)
           /\ run'[r].cut = run[r].cut
           /\ output' = output /\ backup' = backup
           /\ \A c \in Recipes : staged'[r][c] =
                 IF c \in Pending(r) THEN run[r].candidate[c] ELSE Missing
           /\ \/ /\ run[r].pending = <<>> /\ Goes(r, "exit", run[r].at)
                 /\ run'[r].code = 0
              \/ /\ run[r].pending # <<>> /\ Goes(r, "reserve", 1)
                 /\ run'[r].code = run[r].code
  <1>1. /\ output \in Outputs /\ Missing \in Contents
        /\ staged \in [Runs -> Outputs] /\ backup \in [Runs -> Outputs]
        /\ faults \in 0 .. MaxFaults
    BY FileTyping
  <1>2. run[r].candidate \in Outputs
    BY Held
  <1> DEFINE mine == [c \in Recipes |-> IF c \in Pending(r) THEN run[r].candidate[c]
                                        ELSE Missing]
  <1>3. mine \in Outputs
    BY <1>1, <1>2 DEF Outputs
  <1>4. staged' = [staged EXCEPT ![r] = mine] /\ UNCHANGED <<output, backup, faults>>
    BY DEF Stage, Pending
  <1>5. staged'[r] = mine
    BY <1>1, <1>4
  <1>6. \A c \in Recipes : staged'[r][c] =
            IF c \in Pending(r) THEN run[r].candidate[c] ELSE Missing
    BY <1>5
  <1> HIDE DEF mine
  <1>7. /\ output' \in Outputs /\ staged' \in [Runs -> Outputs]
        /\ backup' \in [Runs -> Outputs] /\ faults' \in 0 .. MaxFaults
        /\ \A s \in Runs : s # r => staged'[s] = staged[s] /\ backup'[s] = backup[s]
    BY <1>1, <1>3, <1>4
  <1>8. CASE run[r].pending = <<>>
    <2>1. run' = Exit(r, 0)
      BY <1>8 DEF Stage
    <2>. QED
      BY <1>4, <1>6, <1>7, <1>8, <2>1, ExitFields DEF Frame
  <1>9. CASE run[r].pending # <<>>
    <2>1. run' = Go(r, "reserve", 1) /\ "reserve" \in Runnings
      BY <1>9 DEF Stage, Runnings, Running, Building
    <2>. QED
      BY <1>4, <1>6, <1>7, <1>9, <2>1, GoFields DEF Frame
  <1>. QED
    BY <1>8, <1>9

LEMMA StepNames ==
    /\ {"exit", "in", "away", "restore", "undo", "drop", "list", "look",
        "register", "revert", "return", "ended", "reserve"} \subseteq Runnings
  <1>. QED
    BY DEF Runnings, Running, Building, Committing

(* The files of a committing run that a move does not touch.               *)
StagedBesides(r, c) == \A d \in Recipes : d # c => staged'[r][d] = staged[r][d]
BackupBesides(r, c) == \A d \in Recipes : d # c => backup'[r][d] = backup[r][d]
OutputsBesides(c) == \A d \in Recipes : d # c => output'[d] = output[d]

StagedApart(r) == \A s \in Runs : s # r => staged'[s] = staged[s]
BackupApart(r) == \A s \in Runs : s # r => backup'[s] = backup[s]

LEMMA OutputKept ==
    ASSUME TypeOK, output' = output, NEW c
    PROVE  output' \in Outputs /\ OutputsBesides(c)
  <1>. QED
    BY FileTyping DEF OutputsBesides

LEMMA StagedKept ==
    ASSUME TypeOK, NEW r \in Runs, staged' = staged, NEW c
    PROVE  staged' \in [Runs -> Outputs] /\ StagedApart(r) /\ StagedBesides(r, c)
  <1>. QED
    BY FileTyping DEF StagedBesides, StagedApart

LEMMA BackupKept ==
    ASSUME TypeOK, NEW r \in Runs, backup' = backup, NEW c
    PROVE  backup' \in [Runs -> Outputs] /\ BackupApart(r) /\ BackupBesides(r, c)
  <1>. QED
    BY FileTyping DEF BackupBesides, BackupApart

LEMMA MoveFrame ==
    ASSUME NEW r \in Runs, NEW c \in RecipesOf(r),
           output' \in Outputs, OutputsBesides(c),
           staged' \in [Runs -> Outputs], StagedApart(r),
           backup' \in [Runs -> Outputs], BackupApart(r),
           faults' \in 0 .. MaxFaults, run' \in [Runs -> Invocations], Others(r)
    PROVE  Frame(r)
  <1>. QED
    BY DEF Frame, OutputsBesides, StagedApart, BackupApart

LEMMA MoveAwayFields ==
    ASSUME TypeOK, NEW r \in Runs, MoveAway(r)
    PROVE  LET c == PendingAt(r) IN
           /\ Frame(r) /\ Fixed(r) /\ Inquiry(r) /\ Work(r)
           /\ run'[r].cut = run[r].cut
           /\ OutputsBesides(c) /\ BackupBesides(r, c) /\ staged' = staged
           /\ \/ /\ c \notin run[r].reserved
                 /\ Goes(r, "in", run[r].at) /\ output' = output /\ backup' = backup
              \/ /\ c \in run[r].reserved
                 /\ Goes(r, "in", run[r].at)
                 /\ output'[c] = Missing /\ backup'[r][c] = output[c]
              \/ /\ c \in run[r].reserved
                 /\ output' = output /\ backup' = backup
                 /\ \/ /\ run[r].at = 1 /\ Goes(r, "exit", 1) /\ run'[r].code = 1
                    \/ /\ run[r].at > 1 /\ Goes(r, "undo", run[r].at - 1)
  <1> DEFINE c == PendingAt(r)
  <1>1. /\ output \in Outputs /\ Missing \in Contents
        /\ staged \in [Runs -> Outputs] /\ backup \in [Runs -> Outputs]
        /\ faults \in 0 .. MaxFaults
    BY FileTyping
  <1>2. /\ run[r].at \in 1 .. Len(run[r].pending) /\ run[r].at \in Nat
        /\ c \in RecipesOf(r) /\ c \in Recipes /\ output[c] \in Contents
    BY <1>1, PositionTypes, Held DEF MoveAway, Outputs
  <1>3. CASE /\ c \notin run[r].reserved
             /\ run' = Go(r, "in", run[r].at)
             /\ UNCHANGED <<files, faults>>
    <2>1. /\ run' \in [Runs -> Invocations] /\ Others(r) /\ Goes(r, "in", run[r].at)
          /\ Fixed(r) /\ Inquiry(r) /\ Work(r) /\ run'[r].cut = run[r].cut
      BY <1>2, <1>3, GoFields, StepNames
    <2>2. /\ output' = output /\ staged' = staged /\ backup' = backup
          /\ faults' \in 0 .. MaxFaults
      BY <1>1, <1>3 DEF files
    <2>. QED
      BY <1>2, <1>3, <2>1, <2>2, OutputKept, StagedKept, BackupKept, MoveFrame
  <1>4. CASE /\ c \in run[r].reserved /\ output[c] # Missing
             /\ backup' = [backup EXCEPT ![r][c] = output[c]]
             /\ output' = [output EXCEPT ![c] = Missing]
             /\ run' = Go(r, "in", run[r].at)
             /\ UNCHANGED <<staged, faults>>
    <2>1. /\ run' \in [Runs -> Invocations] /\ Others(r) /\ Goes(r, "in", run[r].at)
          /\ Fixed(r) /\ Inquiry(r) /\ Work(r) /\ run'[r].cut = run[r].cut
      BY <1>2, <1>4, GoFields, StepNames
    <2>2. output'[c] = Missing /\ output' \in Outputs /\ OutputsBesides(c)
      BY <1>1, <1>2, <1>4 DEF Outputs, OutputsBesides
    <2>3. /\ backup'[r][c] = output[c] /\ backup' \in [Runs -> Outputs]
          /\ BackupBesides(r, c) /\ BackupApart(r)
      BY <1>1, <1>2, <1>4 DEF Outputs, StagedBesides, BackupBesides, StagedApart, BackupApart
    <2>4. staged' = staged /\ faults' \in 0 .. MaxFaults
      BY <1>1, <1>4
    <2>5. Frame(r)
      BY <1>2, <2>1, <2>2, <2>3, <2>4, StagedKept, MoveFrame
    <2>. QED
      BY <1>4, <2>1, <2>2, <2>3, <2>4, <2>5
  <1>5. CASE /\ c \in run[r].reserved
             /\ IF output[c] = Missing THEN UNCHANGED faults ELSE Fault("move")
             /\ run' = Back(r)
             /\ UNCHANGED files
    <2>1. faults' \in 0 .. MaxFaults
      BY <1>1, <1>5, FaultTyping
    <2>2. output' = output /\ staged' = staged /\ backup' = backup
      BY <1>5 DEF files
    <2>3. /\ run' \in [Runs -> Invocations] /\ Others(r) /\ Fixed(r) /\ Inquiry(r)
          /\ Work(r) /\ run'[r].cut = run[r].cut
          /\ \/ /\ run[r].at = 1 /\ Goes(r, "exit", 1) /\ run'[r].code = 1
             \/ /\ run[r].at > 1 /\ Goes(r, "undo", run[r].at - 1)
      BY <1>2, <1>5, BackFields
    <2>4. Frame(r) /\ OutputsBesides(c) /\ BackupBesides(r, c)
      BY <1>2, <2>1, <2>2, <2>3, OutputKept, StagedKept, BackupKept, MoveFrame
    <2>. QED
      BY <1>5, <2>2, <2>3, <2>4
  <1>. QED
    BY <1>3, <1>4, <1>5 DEF MoveAway

LEMMA MoveInFields ==
    ASSUME TypeOK, NEW r \in Runs, MoveIn(r)
    PROVE  LET c == PendingAt(r) IN
           /\ Frame(r) /\ Fixed(r) /\ Inquiry(r) /\ Work(r)
           /\ run'[r].cut = run[r].cut
           /\ OutputsBesides(c) /\ StagedBesides(r, c) /\ backup' = backup
           /\ \/ /\ output'[c] = staged[r][c]
                 /\ IF run[r].at = Len(run[r].pending) THEN Goes(r, "drop", 1)
                    ELSE Goes(r, "away", run[r].at + 1)
              \/ output' = output /\ Goes(r, "restore", run[r].at)
  <1> DEFINE c == PendingAt(r)
  <1>1. /\ output \in Outputs /\ Missing \in Contents
        /\ staged \in [Runs -> Outputs] /\ backup \in [Runs -> Outputs]
        /\ faults \in 0 .. MaxFaults
    BY FileTyping
  <1>2. /\ run[r].at \in 1 .. Len(run[r].pending) /\ run[r].at \in Nat
        /\ c \in RecipesOf(r) /\ c \in Recipes /\ staged[r][c] \in Contents
    BY <1>1, PositionTypes, Held DEF MoveIn, Outputs
  <1>3. CASE /\ output' = [output EXCEPT ![c] = staged[r][c]]
             /\ staged' = [staged EXCEPT ![r][c] = Missing]
             /\ run' = IF run[r].at = Len(run[r].pending)
                       THEN Go(r, "drop", 1) ELSE Go(r, "away", run[r].at + 1)
             /\ UNCHANGED <<backup, faults>>
    <2>1. /\ run' \in [Runs -> Invocations] /\ Others(r)
          /\ Fixed(r) /\ Inquiry(r) /\ Work(r) /\ run'[r].cut = run[r].cut
          /\ IF run[r].at = Len(run[r].pending) THEN Goes(r, "drop", 1)
             ELSE Goes(r, "away", run[r].at + 1)
      <3>1. CASE run[r].at = Len(run[r].pending)
        BY <1>3, <3>1, GoFields, StepNames
      <3>2. CASE run[r].at # Len(run[r].pending)
        <4>1. run[r].at + 1 \in Nat
          BY <1>2
        <4>. QED
          BY <1>3, <3>2, <4>1, GoFields, StepNames
      <3>. QED
        BY <3>1, <3>2
    <2>2. output'[c] = staged[r][c] /\ output' \in Outputs /\ OutputsBesides(c)
      BY <1>1, <1>2, <1>3 DEF Outputs, OutputsBesides
    <2>3. /\ staged' \in [Runs -> Outputs]
          /\ StagedBesides(r, c) /\ StagedApart(r)
      BY <1>1, <1>2, <1>3 DEF Outputs, StagedBesides, BackupBesides, StagedApart, BackupApart
    <2>4. backup' = backup /\ faults' \in 0 .. MaxFaults
      BY <1>1, <1>3
    <2>5. Frame(r)
      BY <1>2, <2>1, <2>2, <2>3, <2>4, BackupKept, MoveFrame
    <2>. QED
      BY <2>1, <2>2, <2>3, <2>4, <2>5
  <1>4. CASE /\ Fault("move")
             /\ run' = Go(r, "restore", run[r].at)
             /\ UNCHANGED files
    <2>1. /\ run' \in [Runs -> Invocations] /\ Others(r)
          /\ Goes(r, "restore", run[r].at)
          /\ Fixed(r) /\ Inquiry(r) /\ Work(r) /\ run'[r].cut = run[r].cut
      BY <1>2, <1>4, GoFields, StepNames
    <2>2. /\ output' = output /\ staged' = staged /\ backup' = backup
          /\ faults' \in 0 .. MaxFaults
      BY <1>4, FaultTyping DEF files
    <2>. QED
      BY <1>2, <2>1, <2>2, OutputKept, StagedKept, BackupKept, MoveFrame
  <1>. QED
    BY <1>3, <1>4 DEF MoveIn

LEMMA UndoFields ==
    ASSUME TypeOK, NEW r \in Runs, Undo(r)
    PROVE  LET c == PendingAt(r) IN
           /\ Frame(r) /\ Fixed(r) /\ Inquiry(r) /\ Work(r)
           /\ run'[r].cut = run[r].cut
           /\ OutputsBesides(c) /\ staged' = staged /\ backup' = backup
           /\ output'[c] = Missing /\ Goes(r, "restore", run[r].at)
  <1> DEFINE c == PendingAt(r)
  <1>1. /\ output \in Outputs /\ Missing \in Contents
        /\ staged \in [Runs -> Outputs] /\ backup \in [Runs -> Outputs]
        /\ faults \in 0 .. MaxFaults
    BY FileTyping
  <1>2. run[r].at \in Nat /\ c \in RecipesOf(r) /\ c \in Recipes
    BY PositionTypes, Held DEF Undo
  <1>3. /\ run' \in [Runs -> Invocations] /\ Others(r) /\ Goes(r, "restore", run[r].at)
        /\ Fixed(r) /\ Inquiry(r) /\ Work(r) /\ run'[r].cut = run[r].cut
    BY <1>2, GoFields, StepNames DEF Undo
  <1>4. /\ output' = [output EXCEPT ![c] = Missing]
        /\ UNCHANGED <<staged, backup, faults>>
    BY DEF Undo
  <1>5. output'[c] = Missing /\ output' \in Outputs /\ OutputsBesides(c)
    BY <1>1, <1>2, <1>4 DEF Outputs, OutputsBesides
  <1>6. Frame(r)
    BY <1>1, <1>2, <1>3, <1>4, <1>5, StagedKept, BackupKept, MoveFrame
  <1>. QED
    BY <1>3, <1>4, <1>5, <1>6

LEMMA RestoreFields ==
    ASSUME TypeOK, NEW r \in Runs, Restore(r)
    PROVE  LET c == PendingAt(r) IN
           /\ Frame(r) /\ Fixed(r) /\ Inquiry(r) /\ Work(r)
           /\ OutputsBesides(c) /\ BackupBesides(r, c) /\ staged' = staged
           /\ \/ /\ run[r].at = 1 /\ Goes(r, "exit", 1) /\ run'[r].code = 1
              \/ /\ run[r].at > 1 /\ Goes(r, "undo", run[r].at - 1)
           /\ \/ /\ c \notin run[r].reserved /\ output' = output
                 /\ run'[r].cut = run[r].cut
              \/ /\ c \in run[r].reserved /\ output'[c] = backup[r][c]
                 /\ run'[r].cut = run[r].cut
              \/ run'[r].cut
  <1> DEFINE c == PendingAt(r)
  <1>1. /\ output \in Outputs /\ Missing \in Contents
        /\ staged \in [Runs -> Outputs] /\ backup \in [Runs -> Outputs]
        /\ faults \in 0 .. MaxFaults
    BY FileTyping
  <1>2. /\ run[r].at \in 1 .. Len(run[r].pending) /\ run[r].at \in Nat
        /\ c \in RecipesOf(r) /\ c \in Recipes /\ backup[r][c] \in Contents
    BY <1>1, PositionTypes, Held DEF Restore, Outputs
  <1>3. CASE /\ c \notin run[r].reserved /\ run' = Back(r)
             /\ UNCHANGED <<files, faults>>
    <2>1. /\ run' \in [Runs -> Invocations] /\ Others(r) /\ Fixed(r) /\ Inquiry(r)
          /\ Work(r) /\ run'[r].cut = run[r].cut
          /\ \/ /\ run[r].at = 1 /\ Goes(r, "exit", 1) /\ run'[r].code = 1
             \/ /\ run[r].at > 1 /\ Goes(r, "undo", run[r].at - 1)
      BY <1>2, <1>3, BackFields
    <2>2. /\ output' = output /\ staged' = staged /\ backup' = backup
          /\ faults' \in 0 .. MaxFaults
      BY <1>1, <1>3 DEF files
    <2>. QED
      BY <1>2, <1>3, <2>1, <2>2, OutputKept, StagedKept, BackupKept, MoveFrame
  <1>4. CASE /\ c \in run[r].reserved
             /\ output' = [output EXCEPT ![c] = backup[r][c]]
             /\ backup' = [backup EXCEPT ![r][c] = Missing]
             /\ run' = Back(r)
             /\ UNCHANGED <<staged, faults>>
    <2>1. /\ run' \in [Runs -> Invocations] /\ Others(r) /\ Fixed(r) /\ Inquiry(r)
          /\ Work(r) /\ run'[r].cut = run[r].cut
          /\ \/ /\ run[r].at = 1 /\ Goes(r, "exit", 1) /\ run'[r].code = 1
             \/ /\ run[r].at > 1 /\ Goes(r, "undo", run[r].at - 1)
      BY <1>2, <1>4, BackFields
    <2>2. output'[c] = backup[r][c] /\ output' \in Outputs /\ OutputsBesides(c)
      BY <1>1, <1>2, <1>4 DEF Outputs, OutputsBesides
    <2>3. /\ backup' \in [Runs -> Outputs]
          /\ BackupBesides(r, c) /\ BackupApart(r)
      BY <1>1, <1>2, <1>4 DEF Outputs, BackupBesides, BackupApart
    <2>4. staged' = staged /\ faults' \in 0 .. MaxFaults
      BY <1>1, <1>4
    <2>5. Frame(r)
      BY <1>2, <2>1, <2>2, <2>3, <2>4, StagedKept, MoveFrame
    <2>. QED
      BY <1>4, <2>1, <2>2, <2>3, <2>4, <2>5
  <1>5. CASE /\ c \in run[r].reserved /\ Fault("move")
             /\ run' = [Back(r) EXCEPT ![r].cut = TRUE]
             /\ UNCHANGED files
    <2>0. BackCut(r)
      BY <1>5 DEF BackCut
    <2>1. /\ run' \in [Runs -> Invocations] /\ Others(r) /\ Fixed(r) /\ Inquiry(r)
          /\ Work(r) /\ run'[r].cut
          /\ \/ /\ run[r].at = 1 /\ Goes(r, "exit", 1) /\ run'[r].code = 1
             \/ /\ run[r].at > 1 /\ Goes(r, "undo", run[r].at - 1)
      BY <1>2, <2>0, BackCutFields
    <2>2. /\ output' = output /\ staged' = staged /\ backup' = backup
          /\ faults' \in 0 .. MaxFaults
      BY <1>5, FaultTyping DEF files
    <2>. QED
      BY <1>2, <2>1, <2>2, OutputKept, StagedKept, BackupKept, MoveFrame
  <1>. QED
    BY <1>3, <1>4, <1>5 DEF Restore

LEMMA DropFields ==
    ASSUME TypeOK, NEW r \in Runs, DropBackups(r)
    PROVE  /\ Frame(r) /\ Fixed(r) /\ Inquiry(r) /\ Work(r)
           /\ run'[r].cut = run[r].cut /\ run'[r].code = 0
           /\ Goes(r, "exit", run[r].at) /\ output' = output
  <1> DEFINE none == [c \in Recipes |-> Missing]
  <1>1. /\ output \in Outputs /\ none \in Outputs
        /\ staged \in [Runs -> Outputs] /\ backup \in [Runs -> Outputs]
        /\ faults \in 0 .. MaxFaults
    BY FileTyping
  <1>2. /\ run' \in [Runs -> Invocations] /\ Others(r) /\ Goes(r, "exit", run[r].at)
        /\ Fixed(r) /\ Inquiry(r) /\ Work(r) /\ run'[r].cut = run[r].cut
        /\ run'[r].code = 0
    BY ExitFields DEF DropBackups
  <1>3. backup' = [backup EXCEPT ![r] = none] /\ UNCHANGED <<output, staged, faults>>
    BY DEF DropBackups
  <1> HIDE DEF none
  <1>4. Frame(r)
    BY <1>1, <1>2, <1>3 DEF Frame
  <1>. QED
    BY <1>2, <1>3, <1>4

LEMMA CleanupFrame ==
    ASSUME TypeOK, NEW r \in Runs, Cleanup(r)
    PROVE  Frame(r) /\ output' = output
  <1> DEFINE none == [c \in Recipes |-> Missing]
  <1>1. /\ output \in Outputs /\ none \in Outputs
        /\ staged \in [Runs -> Outputs] /\ backup \in [Runs -> Outputs]
        /\ faults \in 0 .. MaxFaults
    BY FileTyping
  <1>2. run' \in [Runs -> Invocations] /\ Others(r)
    BY CleanupFields
  <1>3. /\ staged' = [staged EXCEPT ![r] = none]
        /\ backup' = [backup EXCEPT ![r] = none] /\ UNCHANGED <<output, faults>>
    BY DEF Cleanup
  <1> HIDE DEF none
  <1>. QED
    BY <1>1, <1>2, <1>3 DEF Frame

LEMMA ReserveFrame ==
    ASSUME TypeOK, NEW r \in Runs, Reserve(r)
    PROVE  Frame(r) /\ output' = output /\ staged' = staged
  <1>1. /\ output \in Outputs /\ Empty \in Contents
        /\ staged \in [Runs -> Outputs] /\ backup \in [Runs -> Outputs]
        /\ faults \in 0 .. MaxFaults
    BY FileTyping
  <1>2. run' \in [Runs -> Invocations] /\ Others(r)
    BY ReserveFields
  <1>3. PendingAt(r) \in Recipes
    BY PositionTypes DEF Reserve
  <1>4. UNCHANGED <<output, staged, faults>>
    BY DEF Reserve
  <1>5. backup' \in [Runs -> Outputs] /\ BackupApart(r)
    <2>1. CASE backup' = backup
      BY <1>1, <2>1 DEF BackupApart
    <2>2. CASE backup' = [backup EXCEPT ![r][PendingAt(r)] = Empty]
      BY <1>1, <1>3, <2>2 DEF BackupApart, Outputs
    <2>. QED
      BY <2>1, <2>2 DEF Reserve
  <1>. QED
    BY <1>1, <1>2, <1>4, <1>5 DEF Frame, BackupApart

(* The steps that only work in private.                                    *)
LEMMA PrivateFrame ==
    ASSUME TypeOK, NEW r \in Runs,
           List(r) \/ Build(r) \/ Compare(r) \/ ToolFails(r) \/ Signal(r)
    PROVE  Frame(r) /\ Fixed(r) /\ Inquiry(r) /\ UNCHANGED files
  <1>1. /\ output \in Outputs
        /\ staged \in [Runs -> Outputs] /\ backup \in [Runs -> Outputs]
        /\ faults \in 0 .. MaxFaults
    BY FileTyping
  <1>2. UNCHANGED files
    BY DEF List, Build, Compare, ToolFails, Signal
  <1>3. faults' \in 0 .. MaxFaults
    <2>1. CASE List(r) \/ Build(r) \/ Compare(r)
      BY <1>1, <2>1 DEF List, Build, Compare
    <2>2. CASE ToolFails(r) \/ Signal(r)
      BY <2>2, FaultTyping DEF ToolFails, Signal
    <2>. QED
      BY <2>1, <2>2, SMTT(40)
  <1>4. /\ run' \in [Runs -> Invocations] /\ Others(r) /\ Fixed(r) /\ Inquiry(r)
    <2>1. CASE ToolFails(r)
      BY <2>1, ExitFields DEF ToolFails
    <2>. QED
      BY <2>1, ListFields, BuildFields, CompareFields, SignalFields
  <1>. QED
    BY <1>2, <1>3, <1>4, FilesKept

(* What every step of the runner leaves alone.                             *)
LEMMA RunnerFrame ==
    ASSUME TypeOK, NEW r \in Runs, Runner(r)
    PROVE  /\ Frame(r) /\ Fixed(r) /\ Inquiry(r)
           /\ donor' = donor /\ entry' = entry
           /\ run[r].step \in Running
           /\ run'[r].step \in Running \cup {"ended"}
  <1>1. donor' = donor /\ entry' = entry
    BY SMTT(40) DEF Runner, List, Build, Compare, Stage, Reserve, MoveAway, MoveIn, Undo,
           Restore, DropBackups, Cleanup, ToolFails, Signal
  <1>2. run[r].step \in Running
    BY DEF Runner, List, Build, Compare, Stage, Reserve, MoveAway, MoveIn, Undo,
           Restore, DropBackups, Cleanup, ToolFails, Signal,
           Running, Building, Committing
  <1>3. {"list", "build", "compare", "stage", "reserve", "away", "in", "undo",
         "restore", "drop", "exit"} \subseteq Running
    BY DEF Running, Building, Committing
  <1>4. CASE List(r) \/ Build(r) \/ Compare(r) \/ ToolFails(r) \/ Signal(r)
    <2>1. Frame(r) /\ Fixed(r) /\ Inquiry(r)
      BY <1>4, PrivateFrame
    <2>2. run'[r].step \in Running
      <3>1. CASE ToolFails(r)
        BY <1>3, <3>1, ExitFields DEF ToolFails, Goes
      <3>2. CASE List(r)
        BY <1>3, <3>2, ListFields DEF Goes
      <3>3. CASE Build(r)
        BY <1>3, <3>3, BuildFields DEF Goes
      <3>4. CASE Compare(r)
        BY <1>3, <3>4, CompareFields DEF Goes
      <3>5. CASE Signal(r)
        BY <1>3, <3>5, SignalFields DEF Goes
      <3>. QED
        BY <1>4, <3>1, <3>2, <3>3, <3>4, <3>5
    <2>. QED
      BY <1>1, <1>2, <2>1, <2>2
  <1>5. CASE Stage(r)
    BY <1>1, <1>2, <1>3, <1>5, StageFields DEF Goes
  <1>6. CASE Reserve(r)
    BY <1>1, <1>2, <1>3, <1>6, ReserveFields, ReserveFrame DEF Goes
  <1>7. CASE MoveAway(r)
    BY <1>1, <1>2, <1>3, <1>7, MoveAwayFields DEF Goes
  <1>8. CASE MoveIn(r)
    BY <1>1, <1>2, <1>3, <1>8, MoveInFields DEF Goes
  <1>9. CASE Undo(r)
    BY <1>1, <1>2, <1>3, <1>9, UndoFields DEF Goes
  <1>10. CASE Restore(r)
    BY <1>1, <1>2, <1>3, <1>10, RestoreFields DEF Goes
  <1>11. CASE DropBackups(r)
    BY <1>1, <1>2, <1>3, <1>11, DropFields DEF Goes
  <1>12. CASE Cleanup(r)
    BY <1>1, <1>2, <1>3, <1>12, CleanupFields, CleanupFrame DEF Goes
  <1>. QED
    BY <1>4, <1>5, <1>6, <1>7, <1>8, <1>9, <1>10, <1>11, <1>12 DEF Runner

-----------------------------------------------------------------------------
(* The queues of a run, through the runner's steps.                        *)

Starting == Early \cup {"list", "build"}
Comparing == Starting \cup {"compare", "stage"}
Publishing == {"stage", "reserve"} \cup Committing

LEMMA QueuesKept ==
    ASSUME NEW r \in Runs, Queues(r), Fixed(r), Inquiry(r),
           run'[r].pending = run[r].pending, run'[r].reserved = run[r].reserved,
           run'[r].step \in Running \cup {"ended"},
           run'[r].step \in Starting => run[r].step \in Starting,
           run'[r].step \in Comparing => run[r].step \in Comparing,
           run'[r].step # "compare" \/ run[r].pending = <<>>,
           run'[r].step \in Publishing => run[r].step \in Publishing
    PROVE  Queues(r)'
  <1>1. run'[r].step \notin {"look", "act"}
    BY DEF Running, Building, Committing
  <1>2. RecipesOf(r)' = RecipesOf(r) /\ Own(r)' = Own(r)
    BY DEF Fixed, RecipesOf, Own
  <1>. QED
    BY <1>1, <1>2 DEF Queues, Fixed, Inquiry, Starting, Comparing, Publishing, Distinct

LEMMA RegisteringKept ==
    ASSUME NEW r \in Runs, Registering(r), Fixed(r), Inquiry(r),
           run[r].step \in Running, run'[r].step \in Running \cup {"ended"}
    PROVE  Registering(r)'
  <1>1. /\ run'[r].step \notin {"look", "act", "register", "revert", "catalog"}
        /\ run[r].step \notin {"look", "act", "return"}
    BY DEF Running, Building, Committing
  <1>. QED
    BY <1>1 DEF Registering, Fixed, Inquiry

(* A step of the commit, or one that leaves.                               *)
LEMMA WorkKept ==
    ASSUME NEW r \in Runs, TypeOK, Queues(r), Fixed(r), Inquiry(r), Work(r),
           run[r].step \in Running,
           \/ run'[r].step \in {"exit", "ended", "drop"}
           \/ /\ run'[r].step \in {"away", "in", "undo", "restore"}
              /\ run'[r].at \in 1 .. Len(run[r].pending),
           run'[r].step \in Publishing => run[r].step \in Publishing
    PROVE  Queues(r)' /\ Positions(r)'
  <1>1. Queues(r)'
    BY QueuesKept DEF Starting, Comparing, Early, Work, Running, Committing
  <1>2. Positions(r) /\ DOMAIN run[r].pending = 1 .. Len(run[r].pending)
    BY PositionTypes DEF TypeOK
  <1>3. Positions(r)'
    BY <1>2 DEF Positions, Fixed, Work
  <1>. QED
    BY <1>1, <1>3

LEMMA ListShape ==
    ASSUME NEW r \in Runs, TypeOK, Queues(r), List(r)
    PROVE  Queues(r)' /\ Positions(r)'
  <1>1. /\ Fixed(r) /\ Inquiry(r) /\ run[r].step = "list"
        /\ run'[r].pending = run[r].pending /\ run'[r].reserved = run[r].reserved
        /\ run'[r].at = run[r].at
        /\ run'[r].step \in {"exit", "build"}
    BY ListFields DEF List, Goes
  <1>2. Positions(r)
    BY DEF TypeOK
  <1>3. Queues(r)'
    BY <1>1, QueuesKept
       DEF Starting, Comparing, Early, Running, Building, Publishing, Committing
  <1>4. Positions(r)'
    BY <1>1, <1>2 DEF Positions, Fixed
  <1>. QED
    BY <1>3, <1>4

LEMMA BuildShape ==
    ASSUME NEW r \in Runs, TypeOK, Queues(r), Build(r)
    PROVE  Queues(r)' /\ Positions(r)'
  <1>1. /\ Fixed(r) /\ Inquiry(r) /\ run[r].step = "build"
        /\ run'[r].pending = run[r].pending /\ run'[r].reserved = run[r].reserved
        /\ \/ run'[r].step = "exit"
           \/ /\ run[r].at = Len(run[r].recipes)
              /\ run'[r].step = "compare" /\ run'[r].at = 1
           \/ /\ run[r].at # Len(run[r].recipes)
              /\ run'[r].step = "list" /\ run'[r].at = run[r].at + 1
    BY BuildFields, Zenon DEF Build, Goes
  <1>2. /\ Positions(r) /\ run[r].at \in 1 .. Len(run[r].recipes)
        /\ DOMAIN run[r].recipes = 1 .. Len(run[r].recipes)
        /\ Len(run[r].recipes) \in Nat
    BY <1>1, PositionTypes DEF TypeOK
  <1>3. run[r].pending = <<>>
    BY <1>1 DEF Queues
  <1>4. Queues(r)'
    BY <1>1, <1>3, QueuesKept
       DEF Starting, Comparing, Early, Running, Building, Publishing, Committing
  <1>5. run'[r].step \in {"list", "compare"} => run'[r].at \in 1 .. Len(run[r].recipes)
    BY <1>1, <1>2
  <1>6. Positions(r)'
    BY <1>1, <1>2, <1>5 DEF Positions, Fixed
  <1>. QED
    BY <1>4, <1>6

LEMMA AppendFacts ==
    ASSUME NEW S, NEW seq \in Seq(S), NEW x \in S
    PROVE  /\ Append(seq, x) \in Seq(S)
           /\ Len(Append(seq, x)) = Len(seq) + 1
           /\ DOMAIN Append(seq, x) = 1 .. Len(seq) + 1
           /\ \A i \in 1 .. Len(seq) : Append(seq, x)[i] = seq[i]
           /\ Append(seq, x)[Len(seq) + 1] = x
           /\ Append(seq, x) # <<>>
           /\ Elements(Append(seq, x)) = Elements(seq) \cup {x}
  <1>1. /\ Append(seq, x) \in Seq(S) /\ Len(seq) \in Nat
        /\ DOMAIN seq = 1 .. Len(seq)
        /\ Len(Append(seq, x)) = Len(seq) + 1
        /\ DOMAIN Append(seq, x) = 1 .. Len(seq) + 1
        /\ \A i \in 1 .. Len(seq) : Append(seq, x)[i] = seq[i]
        /\ Append(seq, x)[Len(seq) + 1] = x
        /\ Append(seq, x) # <<>>
    OBVIOUS
  <1> DEFINE new == Append(seq, x)
  <1> HIDE DEF new
  <1>2. Elements(new) = Elements(seq) \cup {x}
    <2>1. ASSUME NEW y \in Elements(new) PROVE y \in Elements(seq) \cup {x}
      <3>1. PICK i \in DOMAIN new : y = new[i]
        BY DEF Elements
      <3>2. i \in 1 .. Len(seq) \/ i = Len(seq) + 1
        BY <1>1, <3>1 DEF new
      <3>. QED
        BY <1>1, <3>1, <3>2 DEF Elements, new
    <2>2. ASSUME NEW y \in Elements(seq) PROVE y \in Elements(new)
      <3>1. PICK i \in 1 .. Len(seq) : y = seq[i]
        BY <1>1 DEF Elements
      <3>2. i \in DOMAIN new /\ y = new[i]
        BY <1>1, <3>1 DEF new
      <3>. QED
        BY <3>2 DEF Elements
    <2>3. x \in Elements(new)
      <3>1. Len(seq) + 1 \in DOMAIN new /\ x = new[Len(seq) + 1]
        BY <1>1 DEF new
      <3>. QED
        BY <3>1 DEF Elements
    <2>. QED
      BY <2>1, <2>2, <2>3
  <1>. QED
    BY <1>1, <1>2 DEF new

LEMMA CompareShape ==
    ASSUME NEW r \in Runs, TypeOK, Queues(r), Compare(r)
    PROVE  Queues(r)' /\ Positions(r)'
  <1> DEFINE k == run[r].at
             rec == run[r].recipes
             old == run[r].pending
             c == At(r)
             new == IF Differs(r, c) THEN Append(old, c) ELSE old
  <1>1. /\ Fixed(r) /\ Inquiry(r) /\ run[r].step = "compare"
        /\ run'[r].reserved = run[r].reserved
        /\ \/ run'[r].step = "exit" /\ run'[r].pending = old
           \/ /\ run'[r].pending = new
              /\ \/ /\ k = Len(rec) /\ run'[r].step = "stage" /\ run'[r].at = 1
                    /\ run[r].cmd # "check"
                 \/ k # Len(rec) /\ run'[r].step = "compare" /\ run'[r].at = k + 1
    BY CompareFields, Zenon DEF Compare, Goes
  <1>2. /\ Positions(r) /\ k \in 1 .. Len(rec) /\ c = rec[k]
        /\ DOMAIN rec = 1 .. Len(rec) /\ Len(rec) \in Nat
        /\ c \in RecipesOf(r) /\ c \in Recipes /\ Pending(r) \subseteq RecipesOf(r)
    BY <1>1, PositionTypes DEF TypeOK, At
  <1>3. old \in Seq(Recipes) /\ DOMAIN old = 1 .. Len(old) /\ Len(old) \in Nat
    BY Held, PositionTypes
  <1>4. /\ Distinct(rec) /\ Distinct(old) /\ rec # <<>> /\ run[r].reserved = {}
        /\ \A i \in DOMAIN old : \E j \in 1 .. k - 1 : old[i] = rec[j]
    BY <1>1 DEF Queues, Early
  <1>0. k \in Nat
    BY Held
  <1>5. ASSUME NEW i \in DOMAIN old, old[i] = c PROVE FALSE
    <2>1. PICK j \in 1 .. k - 1 : old[i] = rec[j]
      BY <1>4
    <2>2. j \in DOMAIN rec /\ k \in DOMAIN rec /\ j # k
      BY <1>0, <1>2
    <2> HIDE DEF c, rec, old, k
    <2>. QED
      BY <1>2, <1>4, <1>5, <2>1, <2>2 DEF Distinct
  <1>6. /\ Distinct(new)
        /\ \A i \in DOMAIN new : \E j \in 1 .. k : new[i] = rec[j]
        /\ Elements(new) \subseteq Pending(r) \cup {c}
    <2>1. CASE new = old
      BY <1>2, <1>3, <1>4, <2>1, SMTT(40) DEF Pending
    <2>2. CASE new = Append(old, c)
      <3>1. /\ DOMAIN new = 1 .. Len(old) + 1 /\ new[Len(old) + 1] = c
            /\ \A i \in 1 .. Len(old) : new[i] = old[i]
            /\ Elements(new) = Pending(r) \cup {c}
        BY <1>2, <1>3, <2>2, AppendFacts DEF Pending
      <3> HIDE DEF new
      <3>2. \A i \in DOMAIN new : i \in 1 .. Len(old) \/ i = Len(old) + 1
        BY <1>3, <3>1
      <3>3. Distinct(new)
        BY <1>3, <1>4, <1>5, <3>1, <3>2 DEF Distinct
      <3>4. ASSUME NEW i \in DOMAIN new PROVE \E j \in 1 .. k : new[i] = rec[j]
        <4>1. CASE i \in 1 .. Len(old)
          <5>1. PICK j \in 1 .. k - 1 : old[i] = rec[j]
            BY <1>3, <1>4, <4>1
          <5>2. j \in 1 .. k /\ new[i] = rec[j]
            BY <1>0, <3>1, <4>1, <5>1
          <5>. QED
            BY <5>2
        <4>2. CASE i = Len(old) + 1
          <5>1. new[i] = rec[k] /\ k \in 1 .. k
            BY <1>0, <1>2, <3>1, <4>2
          <5>. QED
            BY <5>1
        <4>. QED
          BY <3>2, <4>1, <4>2
      <3>. QED
        BY <3>1, <3>3, <3>4
    <2>. QED
      BY <2>1, <2>2
  <1> HIDE DEF new
  <1>7. RecipesOf(r)' = RecipesOf(r) /\ Own(r)' = Own(r)
    BY <1>1 DEF Fixed, RecipesOf, Own
  <1>8. CASE run'[r].step = "exit" /\ run'[r].pending = old
    <2>1. Queues(r)'
      BY <1>1, <1>8, QueuesKept
         DEF Starting, Comparing, Early, Running, Building, Publishing, Committing
    <2>2. Positions(r)'
      BY <1>1, <1>2, <1>8 DEF Positions, Fixed
    <2>. QED
      BY <2>1, <2>2
  <1>9. CASE /\ run'[r].pending = new
             /\ \/ /\ k = Len(rec) /\ run'[r].step = "stage" /\ run'[r].at = 1
                   /\ run[r].cmd # "check"
                \/ k # Len(rec) /\ run'[r].step = "compare" /\ run'[r].at = k + 1
    <2>0. run'[r].step = "compare" => run'[r].at \in 1 .. Len(rec) /\ run'[r].at - 1 = k
      BY <1>2, <1>9, SMTT(40)
    <2>1. /\ run'[r].step \notin Early \cup {"list", "build", "look", "act"}
          /\ run'[r].step \in Publishing => run'[r].step = "stage"
      BY <1>9 DEF Early, Publishing, Committing
    <2>2. Queues(r)'
      BY <1>1, <1>4, <1>6, <1>7, <1>9, <2>0, <2>1, run[r].step = "compare"
         DEF Queues, Fixed, Inquiry, Publishing
    <2>3. Positions(r)'
      BY <1>1, <1>2, <1>4, <1>6, <1>7, <1>9, <2>0
         DEF Positions, Fixed, RecipesOf, Pending
    <2>. QED
      BY <2>2, <2>3
  <1>. QED
    BY <1>1, <1>8, <1>9, SMTT(40)

LEMMA ReserveShape ==
    ASSUME NEW r \in Runs, TypeOK, Queues(r), Reserve(r)
    PROVE  Queues(r)' /\ Positions(r)'
  <1>1. /\ Fixed(r) /\ Inquiry(r) /\ run[r].step = "reserve"
        /\ run'[r].pending = run[r].pending
        /\ run'[r].reserved \subseteq run[r].reserved \cup {PendingAt(r)}
        /\ \/ run[r].at = Len(run[r].pending) /\ run'[r].step = "away" /\ run'[r].at = 1
           \/ /\ run[r].at # Len(run[r].pending)
              /\ run'[r].step = "reserve" /\ run'[r].at = run[r].at + 1
    <2>1. run[r].step = "reserve"
      BY DEF Reserve
    <2>. QED
      BY <2>1, ReserveFields DEF Goes
  <1>2. /\ Positions(r) /\ run[r].at \in 1 .. Len(run[r].pending)
        /\ DOMAIN run[r].pending = 1 .. Len(run[r].pending)
        /\ Len(run[r].pending) \in Nat
        /\ PendingAt(r) \in Pending(r)
    BY <1>1, PositionTypes DEF TypeOK
  <1>3. RecipesOf(r)' = RecipesOf(r) /\ Own(r)' = Own(r)
    BY <1>1 DEF Fixed, RecipesOf, Own
  <1>4. /\ run'[r].step \notin Early \cup {"list", "build", "compare", "stage"}
        /\ run'[r].step \notin {"look", "act"}
        /\ run[r].step \in Publishing
    BY <1>1 DEF Early, Publishing
  <1>5. Queues(r)'
    BY <1>1, <1>3, <1>4 DEF Queues, Fixed, Inquiry, Distinct, Publishing
  <1>6. run'[r].at \in 1 .. Len(run[r].pending)
    BY <1>1, <1>2
  <1>7. Positions(r)'
    BY <1>1, <1>2, <1>6 DEF Positions, Fixed, Pending
  <1>. QED
    BY <1>5, <1>7

(* Every step of the runner keeps its queues and its place in them.        *)
LEMMA RunnerShape ==
    ASSUME NEW r \in Runs, TypeOK, Shape(r), Runner(r), saw' = saw
    PROVE  Shape(r)' /\ Positions(r)'
  <1>1. /\ Fixed(r) /\ Inquiry(r) /\ run[r].step \in Running
        /\ run'[r].step \in Running \cup {"ended"}
    BY RunnerFrame
  <1>2. Busy(r)
    BY <1>1 DEF Busy, Running, Building, Committing
  <1>3. Queues(r) /\ Registering(r) /\ Cutting(r) /\ Seeing(r)
    BY <1>2 DEF Shape
  <1>4. Registering(r)'
    BY <1>1, <1>3, RegisteringKept
  <1>5. Seeing(r)'
    <2>1. {run[r].step, run'[r].step} \cap {"look", "act"} = {}
      BY <1>1 DEF Running, Building, Committing
    <2>. QED
      BY <1>3, <2>1 DEF Seeing
  <1>6. Len(run[r].pending) \in Nat /\ run[r].at \in Nat
    BY PositionTypes, Held
  <1>7. run[r].step \in {"away", "in", "undo", "restore", "reserve"}
            => run[r].at \in 1 .. Len(run[r].pending)
    BY PositionTypes
  <1>8. CASE List(r)
    <2>1. /\ run[r].step = "list" /\ run'[r].cut = run[r].cut
          /\ Queues(r)' /\ Positions(r)'
      BY <1>3, <1>8, ListShape, ListFields DEF List
    <2>. QED
      BY <1>3, <1>4, <1>5, <2>1 DEF Shape, Cutting
  <1>9. CASE Build(r)
    <2>1. /\ run[r].step = "build" /\ run'[r].cut = run[r].cut
          /\ Queues(r)' /\ Positions(r)'
      BY <1>3, <1>9, BuildShape, BuildFields, Zenon DEF Build
    <2>. QED
      BY <1>3, <1>4, <1>5, <2>1 DEF Shape, Cutting
  <1>10. CASE Compare(r)
    <2>1. /\ run[r].step = "compare" /\ run'[r].cut = run[r].cut
          /\ Queues(r)' /\ Positions(r)'
      BY <1>3, <1>10, CompareShape, CompareFields, Zenon DEF Compare
    <2>. QED
      BY <1>3, <1>4, <1>5, <2>1, SMTT(40) DEF Shape, Cutting
  <1>11. CASE Reserve(r)
    <2>1. /\ run[r].step = "reserve" /\ run'[r].cut = run[r].cut
          /\ Queues(r)' /\ Positions(r)'
      BY <1>3, <1>11, ReserveShape, ReserveFields, Zenon DEF Reserve
    <2>. QED
      BY <1>3, <1>4, <1>5, <2>1, SMTT(40) DEF Shape, Cutting
  <1>12. CASE Stage(r)
    <2>1. /\ run[r].step = "stage" /\ run'[r].cut = run[r].cut /\ Work(r)
          /\ \/ run'[r].step = "exit"
             \/ run[r].pending # <<>> /\ run'[r].step = "reserve" /\ run'[r].at = 1
      BY <1>12, StageFields DEF Stage, Goes
    <2>2. Positions(r) /\ DOMAIN run[r].pending = 1 .. Len(run[r].pending)
      BY PositionTypes DEF TypeOK
    <2>3. Queues(r)'
      BY <1>1, <1>3, <2>1, QueuesKept
         DEF Work, Starting, Comparing, Early, Publishing
    <2>4. run[r].pending # <<>> => 1 \in DOMAIN run[r].pending
      BY <1>6, <2>2, Held
    <2>5. Positions(r)'
      BY <1>1, <2>1, <2>2, <2>4 DEF Positions, Fixed, Work
    <2>. QED
      BY <1>3, <1>4, <1>5, <2>1, <2>3, <2>5 DEF Shape, Cutting
  <1>13. CASE MoveAway(r)
    <2>1. /\ run[r].step = "away" /\ run'[r].cut = run[r].cut /\ Work(r)
          /\ \/ run'[r].step = "exit"
             \/ run'[r].step = "in" /\ run'[r].at = run[r].at
             \/ /\ run[r].at > 1
                /\ run'[r].step = "undo" /\ run'[r].at = run[r].at - 1
      BY <1>13, MoveAwayFields DEF MoveAway, Goes
    <2>2. Queues(r)' /\ Positions(r)'
      BY <1>1, <1>3, <1>6, <1>7, <2>1, WorkKept DEF Publishing, Committing
    <2>. QED
      BY <1>3, <1>4, <1>5, <2>1, <2>2 DEF Shape, Cutting
  <1>14. CASE MoveIn(r)
    <2>1. /\ run[r].step = "in" /\ run'[r].cut = run[r].cut /\ Work(r)
          /\ \/ run'[r].step = "drop"
             \/ /\ run[r].at # Len(run[r].pending)
                /\ run'[r].step = "away" /\ run'[r].at = run[r].at + 1
             \/ run'[r].step = "restore" /\ run'[r].at = run[r].at
      BY <1>14, MoveInFields DEF MoveIn, Goes
    <2>2. Queues(r)' /\ Positions(r)'
      BY <1>1, <1>3, <1>6, <1>7, <2>1, WorkKept DEF Publishing, Committing
    <2>. QED
      BY <1>3, <1>4, <1>5, <2>1, <2>2 DEF Shape, Cutting
  <1>15. CASE Undo(r)
    <2>1. /\ run[r].step = "undo" /\ run'[r].cut = run[r].cut /\ Work(r)
          /\ run'[r].step = "restore" /\ run'[r].at = run[r].at
      BY <1>15, UndoFields DEF Undo, Goes
    <2>2. Queues(r)' /\ Positions(r)'
      BY <1>1, <1>3, <1>6, <1>7, <2>1, WorkKept DEF Publishing, Committing
    <2>. QED
      BY <1>3, <1>4, <1>5, <2>1, <2>2 DEF Shape, Cutting
  <1>16. CASE Restore(r)
    <2>1. /\ run[r].step = "restore" /\ Work(r)
          /\ \/ run'[r].step = "exit" /\ run'[r].code = 1
             \/ /\ run[r].at > 1
                /\ run'[r].step = "undo" /\ run'[r].at = run[r].at - 1
      BY <1>16, RestoreFields DEF Restore, Goes
    <2>2. Queues(r)' /\ Positions(r)'
      BY <1>1, <1>3, <1>6, <1>7, <2>1, WorkKept DEF Publishing, Committing
    <2>. QED
      BY <1>3, <1>4, <1>5, <2>1, <2>2 DEF Shape, Cutting
  <1>17. CASE DropBackups(r)
    <2>1. /\ run[r].step = "drop" /\ run'[r].cut = run[r].cut /\ Work(r)
          /\ run'[r].step = "exit"
      BY <1>17, DropFields DEF DropBackups, Goes
    <2>2. Queues(r)' /\ Positions(r)'
      BY <1>1, <1>3, <2>1, WorkKept DEF Publishing, Committing
    <2>. QED
      BY <1>3, <1>4, <1>5, <2>1, <2>2 DEF Shape, Cutting
  <1>18. CASE Cleanup(r)
    <2>1. /\ run[r].step = "exit" /\ run'[r].cut = run[r].cut /\ Work(r)
          /\ run'[r].step = "ended" /\ run'[r].code = run[r].code
      BY <1>18, CleanupFields DEF Cleanup, Goes
    <2>2. Queues(r)' /\ Positions(r)'
      BY <1>1, <1>3, <2>1, WorkKept DEF Publishing, Committing
    <2>. QED
      BY <1>3, <1>4, <1>5, <2>1, <2>2 DEF Shape, Cutting
  <1>19. CASE ToolFails(r)
    <2>1. /\ run[r].step \in Building /\ run'[r].cut = run[r].cut /\ Work(r)
          /\ run'[r].step = "exit" /\ run'[r].code = 1
      BY <1>19, ExitFields DEF ToolFails, Goes
    <2>2. Queues(r)' /\ Positions(r)'
      BY <1>1, <1>3, <2>1, WorkKept DEF Publishing, Committing
    <2>. QED
      BY <1>3, <1>4, <1>5, <2>1, <2>2 DEF Shape, Cutting
  <1>20. CASE Signal(r)
    <2>1. run'[r].step = "exit" /\ run'[r].code = 128 /\ Work(r)
      BY <1>20, SignalFields DEF Goes
    <2>2. Queues(r)' /\ Positions(r)'
      BY <1>1, <1>3, <2>1, WorkKept DEF Publishing, Committing
    <2>. QED
      BY <1>3, <1>4, <1>5, <2>1, <2>2 DEF Shape, Cutting
  <1>. QED
    BY <1>8, <1>9, <1>10, <1>11, <1>12, <1>13, <1>14, <1>15, <1>16, <1>17, <1>18,
       <1>19, <1>20 DEF Runner

-----------------------------------------------------------------------------
(* What the runner's steps do to outputs, candidates and inputs.           *)

LEMMA SameText ==
    ASSUME NEW c,
           \A n \in Names : RecipeOf[n] = c =>
               donor'[n] = donor[n] /\ entry'[n] = entry[n]
    PROVE  Active(c)' = Active(c) /\ Text(Active(c))' = Text(Active(c))
  <1>1. Active(c)' = Active(c)
    BY DEF Active
  <1>2. \A n \in Active(c) :
            /\ n \in Names /\ RecipeOf[n] = c
            /\ donor'[n] = donor[n] /\ entry'[n] = entry[n]
    BY DEF Active
  <1>3. \A n \in Active(c) : Read(n, entry[n].active)' = Read(n, entry[n].active)
    BY <1>2 DEF Read
  <1> HIDE DEF Active
  <1>4. Text(Active(c))' = {<<n, Read(n, entry[n].active)'>> : n \in Active(c)}
    BY <1>1 DEF Text
  <1>. QED
    BY <1>1, <1>3, <1>4 DEF Text

LEMMA RunnerInputs ==
    ASSUME NEW r \in Runs, TypeOK, Inputs(r), Runner(r), saw' = saw
    PROVE  Inputs(r)'
  <1>1. /\ Fixed(r) /\ Inquiry(r) /\ entry' = entry
        /\ run[r].step \in Running /\ run'[r].step \in Running \cup {"ended"}
    BY RunnerFrame
  <1>2. /\ run[r].step \notin {"look", "act", "register", "revert", "return"}
        /\ run'[r].step \notin {"look", "act", "register", "revert", "return"}
    BY <1>1 DEF Running, Building, Committing
  <1>3. Own(r)' = Own(r) /\ \A n : Was(r, n)' = Was(r, n)
    BY <1>1 DEF Fixed, Own, RecipesOf, Was
  <1>4. Choices(r)'
    BY <1>1, <1>3 DEF Inputs, Choices, Fixed, Occupied
  <1>5. Looked(r)'
    BY <1>2 DEF Looked
  <1>6. Touched(r) = DOMAIN run[r].previous /\ Touched(r)' = DOMAIN run[r].previous
    BY <1>1, <1>2 DEF Touched, Inquiry
  <1>7. Registered(r)'
    BY <1>1, <1>2, <1>3, <1>6 DEF Inputs, Registered, Fixed, Inquiry, Occupied
  <1>. QED
    BY <1>4, <1>5, <1>7 DEF Inputs

(* The candidate of each recipe is built from what is listed.              *)
Built == {"compare", "stage", "reserve"} \cup Committing

LEMMA TextsKept ==
    ASSUME NEW r \in Runs, Texts(r), Fixed(r), donor' = donor, entry' = entry,
           run'[r].candidate = run[r].candidate,
           run[r].step \in Built, run'[r].step \notin {"list", "build"}
    PROVE  Texts(r)'
  <1>1. \A c : Text(Active(c))' = Text(Active(c))
    BY SameText
  <1>2. RecipesOf(r)' = RecipesOf(r) /\ \A c : Fresh(r, c)' <=> Fresh(r, c)
    BY <1>1 DEF Fixed, RecipesOf, Fresh
  <1>3. \A c \in RecipesOf(r) : Fresh(r, c)
    BY DEF Texts, Built
  <1>. QED
    BY <1>2, <1>3 DEF Texts

LEMMA Unfixed ==
    ASSUME NEW r \in Runs, Fixed(r)
    PROVE  /\ RecipesOf(r)' = RecipesOf(r) /\ Own(r)' = Own(r)
           /\ \A c : Old(r, c)' = Old(r, c)
  <1>. QED
    BY DEF Fixed, RecipesOf, Own, Old

LEMMA LeavesAsFound ==
    ASSUME NEW r \in Runs, Cutting(r), Outcome(r), run[r].step \in Building, Fixed(r),
           output' = output, run'[r].step = "exit", run'[r].code # 0
    PROVE  Commits(r)' /\ Texts(r)'
  <1>1. ~run[r].cut
    BY DEF Cutting, Building
  <1>2. \A c \in RecipesOf(r) : output[c] = Old(r, c)
    BY <1>1 DEF Outcome, Quiet
  <1>3. run'[r].step \notin Quiet \cup Committing
    BY DEF Quiet, Early, Building, Committing
  <1>4. Outcome(r)'
    BY <1>2, <1>3, Unfixed DEF Outcome
  <1>5. Reserved(r)' /\ Staged(r)' /\ Equal(r)' /\ Texts(r)'
    BY <1>3 DEF Reserved, Staged, Equal, Texts, Committing
  <1>. QED
    BY <1>4, <1>5 DEF Commits

LEMMA StaysQuiet ==
    ASSUME NEW r \in Runs, Cutting(r), Outcome(r), run[r].step \in Building, Fixed(r),
           output' = output, run'[r].step \in Building
    PROVE  /\ Outcome(r)'
           /\ \A c \in RecipesOf(r) : output[c] = Old(r, c)
  <1>1. ~run[r].cut
    BY DEF Cutting, Building
  <1>2. \A c \in RecipesOf(r) : output[c] = Old(r, c)
    BY <1>1 DEF Outcome, Quiet
  <1>3. run'[r].step \notin Committing \cup {"exit", "ended"}
    BY DEF Building, Committing
  <1>. QED
    BY <1>2, <1>3, Unfixed DEF Outcome

LEMMA ListCommits ==
    ASSUME NEW r \in Runs, TypeOK, Cutting(r), Commits(r), Texts(r), List(r)
    PROVE  Commits(r)' /\ Texts(r)'
  <1>1. /\ run[r].step = "list" /\ output' = output
        /\ donor' = donor /\ entry' = entry
    BY DEF List, files
  <1>2. /\ Fixed(r) /\ run'[r].candidate = run[r].candidate /\ run'[r].at = run[r].at
        /\ \/ run'[r].step = "exit" /\ run'[r].code = 1
           \/ run'[r].step = "build" /\ run'[r].listed = Active(At(r))
    BY ListFields DEF Goes
  <1>3. CASE run'[r].step = "exit" /\ run'[r].code = 1
    BY <1>1, <1>2, <1>3, LeavesAsFound DEF Commits, Building
  <1>4. CASE run'[r].step = "build" /\ run'[r].listed = Active(At(r))
    <2>1. Outcome(r)'
      BY <1>1, <1>2, <1>4, StaysQuiet DEF Commits, Building
    <2>2. Reserved(r)' /\ Staged(r)' /\ Equal(r)'
      BY <1>4 DEF Reserved, Staged, Equal, Committing
    <2>3. \A c : Active(c)' = Active(c) /\ Text(Active(c))' = Text(Active(c))
      BY <1>1, SameText
    <2>4. At(r)' = At(r) /\ run'[r].recipes = run[r].recipes
      BY <1>2 DEF Fixed, At
    <2>5. \A c : Fresh(r, c) => Fresh(r, c)'
      BY <1>2, <2>3 DEF Fresh
    <2>6. Texts(r)'
      BY <1>1, <1>2, <1>4, <2>3, <2>4, <2>5 DEF Texts, Committing
    <2>. QED
      BY <2>1, <2>2, <2>6 DEF Commits
  <1>. QED
    BY <1>2, <1>3, <1>4

LEMMA BuildCommits ==
    ASSUME NEW r \in Runs, TypeOK, Queues(r), Cutting(r), Commits(r), Texts(r), Build(r)
    PROVE  Commits(r)' /\ Texts(r)'
  <1> DEFINE k == run[r].at
             rec == run[r].recipes
  <1>1. /\ run[r].step = "build" /\ output' = output
        /\ donor' = donor /\ entry' = entry
    BY DEF Build, files
  <1>2. /\ Fixed(r)
        /\ \/ run'[r].step = "exit" /\ run'[r].code = 1
           \/ /\ \/ k = Len(rec) /\ run'[r].step = "compare" /\ run'[r].at = 1
                 \/ k # Len(rec) /\ run'[r].step = "list" /\ run'[r].at = k + 1
              /\ run'[r].candidate =
                    [run[r].candidate EXCEPT ![At(r)] = Text(run[r].listed)]
    BY BuildFields DEF Goes
  <1>3. CASE run'[r].step = "exit" /\ run'[r].code = 1
    BY <1>1, <1>2, <1>3, LeavesAsFound DEF Commits, Building
  <1>4. CASE /\ \/ k = Len(rec) /\ run'[r].step = "compare" /\ run'[r].at = 1
                \/ k # Len(rec) /\ run'[r].step = "list" /\ run'[r].at = k + 1
             /\ run'[r].candidate =
                   [run[r].candidate EXCEPT ![At(r)] = Text(run[r].listed)]
    <2>1. Outcome(r)'
      BY <1>1, <1>2, <1>4, StaysQuiet DEF Commits, Building
    <2>2. Reserved(r)' /\ Staged(r)' /\ Equal(r)'
      BY <1>4 DEF Reserved, Staged, Equal, Committing
    <2>3. \A c : Active(c)' = Active(c) /\ Text(Active(c))' = Text(Active(c))
      BY <1>1, SameText
    <2>4. /\ k \in 1 .. Len(rec) /\ k \in Nat /\ DOMAIN rec = 1 .. Len(rec)
          /\ At(r) = rec[k] /\ At(r) \in Recipes
      BY <1>1, PositionTypes, Held DEF At
    <2>5. run[r].candidate \in [Recipes -> Contents] /\ \A i \in DOMAIN rec : rec[i] \in Recipes
      BY Held, ElementsTyping DEF Outputs
    <2>6. run[r].listed = Active(At(r)) /\ \A i \in 1 .. k - 1 : Fresh(r, rec[i])
      BY <1>1 DEF Texts
    <2>7. Distinct(rec) /\ run'[r].recipes = rec /\ RecipesOf(r)' = RecipesOf(r)
      BY <1>2, Unfixed DEF Queues, Fixed
    <2>8. ASSUME NEW i \in 1 .. k PROVE Fresh(r, rec[i])'
      <3>1. CASE i = k
        <4>1. run'[r].candidate[rec[i]] = Text(Active(rec[i]))
          BY <1>4, <2>4, <2>5, <2>6, <3>1
        <4>. QED
          BY <2>3, <2>7, <4>1 DEF Fresh
      <3>2. CASE i # k
        <4>1. i \in 1 .. k - 1 /\ i \in DOMAIN rec /\ k \in DOMAIN rec
          BY <2>4, <3>2
        <4>2. rec[i] # rec[k]
          BY <2>7, <3>2, <4>1 DEF Distinct
        <4>3. run'[r].candidate[rec[i]] = run[r].candidate[rec[i]]
          BY <1>4, <2>4, <2>5, <4>1, <4>2
        <4>. QED
          BY <2>3, <2>6, <2>7, <4>1, <4>3 DEF Fresh
      <3>. QED
        BY <3>1, <3>2
    <2>9. Texts(r)'
      <3>1. CASE k = Len(rec) /\ run'[r].step = "compare" /\ run'[r].at = 1
        <4>1. \A c \in RecipesOf(r) : Fresh(r, c)'
          <5>1. SUFFICES ASSUME NEW c \in RecipesOf(r)
                         PROVE  run'[r].candidate[c] = Text(Active(c))'
            BY DEF Fresh
          <5>2. PICK i \in 1 .. k : c = rec[i]
            BY <2>4, <3>1 DEF RecipesOf, Elements
          <5>. QED
            BY <2>7, <2>8, <5>2 DEF Fresh
        <4>. QED
          BY <2>7, <3>1, <4>1 DEF Texts
      <3>2. CASE k # Len(rec) /\ run'[r].step = "list" /\ run'[r].at = k + 1
        <4>1. run'[r].at - 1 = k
          BY <2>4, <3>2
        <4>. QED
          BY <2>7, <2>8, <3>2, <4>1 DEF Texts, Committing
      <3>. QED
        BY <1>4, <3>1, <3>2
    <2>. QED
      BY <2>1, <2>2, <2>9 DEF Commits
  <1>. QED
    BY <1>2, <1>3, <1>4

LEMMA CompareCommits ==
    ASSUME NEW r \in Runs, TypeOK, Queues(r), Cutting(r), Commits(r), Texts(r), Compare(r)
    PROVE  Commits(r)' /\ Texts(r)'
  <1> DEFINE k == run[r].at
             rec == run[r].recipes
             old == run[r].pending
             c == At(r)
             new == IF Differs(r, c) THEN Append(old, c) ELSE old
  <1>1. /\ run[r].step = "compare" /\ output' = output
        /\ donor' = donor /\ entry' = entry
    BY DEF Compare, files
  <1>2. /\ Fixed(r) /\ run'[r].candidate = run[r].candidate
        /\ \/ /\ k = Len(rec) /\ run'[r].step = "exit"
              /\ run'[r].code = IF new = <<>> THEN 0 ELSE 1
           \/ /\ run'[r].pending = new
              /\ \/ k = Len(rec) /\ run'[r].step = "stage" /\ run'[r].at = 1
                 \/ k # Len(rec) /\ run'[r].step = "compare" /\ run'[r].at = k + 1
    BY CompareFields DEF Goes
  <1>3. /\ k \in 1 .. Len(rec) /\ k \in Nat /\ DOMAIN rec = 1 .. Len(rec)
        /\ c = rec[k] /\ c \in RecipesOf(r) /\ c \in Recipes
    BY <1>1, PositionTypes, Held DEF At
  <1>4. old \in Seq(Recipes)
    BY Held
  <1>5. \A d \in RecipesOf(r) : output[d] = Old(r, d)
    BY <1>1 DEF Commits, Outcome, Quiet, Building, Cutting
  <1>6. \A i \in 1 .. k - 1 : rec[i] \in Elements(old) \/ Old(r, rec[i]) = run[r].candidate[rec[i]]
    BY <1>1 DEF Commits, Equal, Pending
  <1>7. Elements(old) \subseteq Elements(new) /\ (Differs(r, c) => c \in Elements(new))
    <2>1. CASE Differs(r, c)
      BY <1>3, <1>4, <2>1, AppendFacts
    <2>2. CASE ~Differs(r, c)
      BY <2>2
    <2>. QED
      BY <2>1, <2>2
  <1>8. ~Differs(r, c) => Old(r, c) = run[r].candidate[c]
    BY <1>3, <1>5 DEF Differs
  <1> HIDE DEF new
  <1>9. ASSUME NEW i \in 1 .. k
        PROVE  rec[i] \in Elements(new) \/ Old(r, rec[i]) = run[r].candidate[rec[i]]
    <2>1. i = k \/ i \in 1 .. k - 1
      BY <1>3
    <2>. QED
      BY <1>3, <1>6, <1>7, <1>8, <2>1
  <1>10. k = Len(rec) => \A d \in RecipesOf(r) :
            d \in Elements(new) \/ Old(r, d) = run[r].candidate[d]
    BY <1>3, <1>9 DEF RecipesOf, Elements
  <1>11. /\ RecipesOf(r)' = RecipesOf(r) /\ run'[r].recipes = rec
         /\ \A d : Old(r, d)' = Old(r, d)
    BY <1>2, Unfixed DEF Fixed
  <1>12. Texts(r)' \/ run'[r].step = "exit"
    BY <1>1, <1>2, TextsKept DEF Built
  <1>13. CASE run'[r].step = "exit" /\ run'[r].code = 1
    BY <1>1, <1>2, <1>13, LeavesAsFound DEF Commits, Building
  <1>14. CASE /\ run'[r].step = "exit" /\ run'[r].code = 0
              /\ new = <<>> /\ k = Len(rec)
    <2>1. Elements(new) = {}
      BY <1>14 DEF Elements
    <2>2. \A d \in RecipesOf(r) : output'[d] = run'[r].candidate[d]
      BY <1>1, <1>2, <1>5, <1>10, <1>14, <2>1
    <2>3. run'[r].step \notin Quiet \cup Committing
      BY <1>14 DEF Quiet, Early, Building, Committing
    <2>4. Outcome(r)'
      BY <1>11, <1>14, <2>2, <2>3 DEF Outcome
    <2>5. Reserved(r)' /\ Staged(r)' /\ Equal(r)'
      BY <1>14, <2>3 DEF Reserved, Staged, Equal
    <2>6. \A d : Fresh(r, d)' <=> Fresh(r, d)
      BY <1>1, <1>2, SameText DEF Fresh
    <2>7. Texts(r)'
      BY <1>1, <1>11, <1>14, <2>6 DEF Texts
    <2>. QED
      BY <2>4, <2>5, <2>7 DEF Commits
  <1>15. CASE /\ run'[r].pending = new
              /\ \/ k = Len(rec) /\ run'[r].step = "stage" /\ run'[r].at = 1
                 \/ k # Len(rec) /\ run'[r].step = "compare" /\ run'[r].at = k + 1
    <2>1. Outcome(r)'
      BY <1>1, <1>2, <1>15, StaysQuiet DEF Commits, Building
    <2>2. Reserved(r)' /\ Staged(r)'
      BY <1>15 DEF Reserved, Staged, Committing
    <2>3. Pending(r)' = Elements(new)
      BY <1>15 DEF Pending
    <2>4. Equal(r)'
      <3>1. CASE k = Len(rec) /\ run'[r].step = "stage"
        BY <1>2, <1>10, <1>11, <2>3, <3>1 DEF Equal
      <3>2. CASE k # Len(rec) /\ run'[r].step = "compare" /\ run'[r].at = k + 1
        <4>1. run'[r].at - 1 = k
          BY <1>3, <3>2
        <4>2. \A i \in 1 .. k : \/ run'[r].recipes[i] \in Pending(r)'
                                \/ Old(r, run[r].recipes[i])' =
                                      run'[r].candidate[run'[r].recipes[i]]
          BY <1>2, <1>9, <1>11, <2>3
        <4>. QED
          BY <1>2, <1>11, <3>2, <4>1, <4>2 DEF Equal, Committing
      <3>. QED
        BY <1>15, <3>1, <3>2
    <2>. QED
      BY <1>12, <1>15, <2>1, <2>2, <2>4 DEF Commits
  <1>. QED
    BY <1>2, <1>13, <1>14, <1>15

LEMMA StageCommits ==
    ASSUME NEW r \in Runs, TypeOK, Queues(r), Cutting(r), Commits(r), Texts(r), Stage(r)
    PROVE  Commits(r)' /\ Texts(r)'
  <1>1. /\ run[r].step = "stage" /\ output' = output
        /\ donor' = donor /\ entry' = entry
    BY DEF Stage
  <1>2. /\ Fixed(r) /\ Work(r) /\ run'[r].cut = run[r].cut
        /\ \A c \in Recipes : staged'[r][c] =
              IF c \in Pending(r) THEN run[r].candidate[c] ELSE Missing
        /\ \/ run[r].pending = <<>> /\ run'[r].step = "exit" /\ run'[r].code = 0
           \/ run'[r].step = "reserve" /\ run'[r].at = 1
    BY StageFields DEF Goes
  <1>3. Texts(r)'
    BY <1>1, <1>2, TextsKept DEF Work, Built
  <1>4. \A d \in RecipesOf(r) : output[d] = Old(r, d)
    BY <1>1 DEF Commits, Outcome, Quiet, Building, Cutting
  <1>5. \A c \in RecipesOf(r) \ Pending(r) : Old(r, c) = run[r].candidate[c]
    BY <1>1 DEF Commits, Equal
  <1>6. /\ RecipesOf(r)' = RecipesOf(r) /\ \A d : Old(r, d)' = Old(r, d)
        /\ Pending(r)' = Pending(r) /\ run'[r].candidate = run[r].candidate
        /\ run'[r].pending = run[r].pending /\ run'[r].reserved = run[r].reserved
    BY <1>2, Unfixed DEF Work, Pending
  <1>7. CASE run[r].pending = <<>> /\ run'[r].step = "exit" /\ run'[r].code = 0
    <2>1. Pending(r) = {}
      BY <1>7 DEF Pending, Elements
    <2>2. run'[r].step \notin Quiet \cup Committing
      BY <1>7 DEF Quiet, Early, Building, Committing
    <2>3. Outcome(r)'
      BY <1>1, <1>4, <1>5, <1>6, <1>7, <2>1, <2>2 DEF Outcome
    <2>4. Reserved(r)' /\ Staged(r)' /\ Equal(r)'
      BY <1>7, <2>2 DEF Reserved, Staged, Equal
    <2>. QED
      BY <1>3, <2>3, <2>4 DEF Commits
  <1>8. CASE run'[r].step = "reserve" /\ run'[r].at = 1
    <2>1. Outcome(r)'
      BY <1>1, <1>2, <1>8, StaysQuiet DEF Commits, Building
    <2>2. /\ \A i \in DOMAIN run[r].pending :
                /\ run[r].pending[i] \in Pending(r) /\ run[r].pending[i] \in Recipes
                /\ i \in Nat /\ i >= 1
      BY PositionTypes, Held, ElementsTyping DEF Pending
    <2>3. Staged(r)'
      BY <1>2, <1>6, <2>2 DEF Staged
    <2>4. run[r].reserved = {}
      BY <1>1 DEF Queues
    <2>5. Reserved(r)'
      BY <1>6, <1>8, <2>2, <2>4 DEF Reserved, Committing
    <2>6. Equal(r)'
      BY <1>5, <1>6, <1>8 DEF Equal
    <2>. QED
      BY <1>3, <2>1, <2>3, <2>5, <2>6 DEF Commits
  <1>. QED
    BY <1>2, <1>7, <1>8

LEMMA ReserveCommits ==
    ASSUME NEW r \in Runs, TypeOK, Queues(r), Cutting(r), Commits(r), Texts(r), Reserve(r)
    PROVE  Commits(r)' /\ Texts(r)'
  <1> DEFINE k == run[r].at
             pend == run[r].pending
             c == PendingAt(r)
  <1>1. /\ run[r].step = "reserve" /\ output' = output /\ staged' = staged
        /\ donor' = donor /\ entry' = entry
    BY DEF Reserve
  <1>2. /\ Fixed(r) /\ run'[r].cut = run[r].cut
        /\ run'[r].candidate = run[r].candidate /\ run'[r].pending = pend
        /\ run'[r].reserved = IF output[c] # Missing THEN run[r].reserved \cup {c}
                              ELSE run[r].reserved
        /\ \/ k = Len(pend) /\ run'[r].step = "away" /\ run'[r].at = 1
           \/ k # Len(pend) /\ run'[r].step = "reserve" /\ run'[r].at = k + 1
    BY ReserveFields DEF Goes
  <1>3. Texts(r)'
    BY <1>1, <1>2, TextsKept DEF Built
  <1>4. /\ \A d \in RecipesOf(r) : output[d] = Old(r, d)
        /\ ~run[r].cut
    BY <1>1 DEF Commits, Outcome, Quiet, Building, Cutting
  <1>5. /\ RecipesOf(r)' = RecipesOf(r) /\ \A d : Old(r, d)' = Old(r, d)
        /\ Pending(r)' = Pending(r)
    BY <1>2, Unfixed DEF Pending
  <1>6. /\ k \in 1 .. Len(pend) /\ k \in Nat /\ DOMAIN pend = 1 .. Len(pend)
        /\ c = pend[k] /\ c \in RecipesOf(r) /\ c \in Recipes
        /\ Pending(r) \subseteq RecipesOf(r)
    BY <1>1, PositionTypes, Held DEF PendingAt
  <1>7. \A i \in DOMAIN pend : pend[i] \in run[r].reserved <=>
            i < k /\ Old(r, pend[i]) # Missing
    BY <1>1 DEF Commits, Reserved
  <1>8. ASSUME NEW i \in DOMAIN pend
        PROVE  pend[i] \in run'[r].reserved <=> i <= k /\ Old(r, pend[i]) # Missing
    <2>1. Distinct(pend) /\ k \in DOMAIN pend
      BY <1>6 DEF Queues
    <2>2. i # k => pend[i] # c
      BY <1>6, <2>1 DEF Distinct
    <2>3. output[c] = Old(r, c)
      BY <1>4, <1>6
    <2>. QED
      BY <1>2, <1>6, <1>7, <2>2, <2>3
  <1>9. Equal(r)'
    BY <1>1, <1>2, <1>5 DEF Commits, Equal, Committing
  <1>10. Staged(r)'
    BY <1>1, <1>2, <1>6 DEF Commits, Staged
  <1>11. CASE k # Len(pend) /\ run'[r].step = "reserve" /\ run'[r].at = k + 1
    <2>1. Outcome(r)'
      BY <1>1, <1>2, <1>11, StaysQuiet DEF Commits, Building
    <2>2. Reserved(r)'
      <3>1. \A i \in DOMAIN pend : i <= k <=> i < k + 1
        BY <1>6
      <3>. QED
        BY <1>2, <1>5, <1>8, <1>11, <3>1 DEF Reserved, Committing
    <2>. QED
      BY <1>3, <1>9, <1>10, <2>1, <2>2 DEF Commits
  <1>12. CASE k = Len(pend) /\ run'[r].step = "away" /\ run'[r].at = 1
    <2>1. run'[r].step \in Committing /\ run'[r].step \notin Quiet \cup {"exit", "ended"}
      BY <1>12 DEF Committing, Quiet, Early, Building
    <2>2. Placed(r)' = {} /\ Hole(r)' = {}
      BY <1>12 DEF Placed, Hole
    <2>3. \A i \in DOMAIN pend : pend[i] \in RecipesOf(r)
      BY <1>6 DEF Pending, Elements
    <2>4. Moves(r)'
      BY <1>1, <1>2, <1>4, <1>5, <2>2, <2>3 DEF Moves
    <2>5. Outcome(r)'
      BY <1>1, <1>4, <1>5, <2>1, <2>4 DEF Outcome
    <2>6. \A d \in Pending(r) : d \in run'[r].reserved <=> Old(r, d) # Missing
      BY <1>6, <1>8, <1>12 DEF Pending, Elements
    <2>7. Reserved(r)'
      BY <1>5, <1>12, <2>6 DEF Reserved
    <2>. QED
      BY <1>3, <1>9, <1>10, <2>5, <2>7 DEF Commits
  <1>. QED
    BY <1>2, <1>11, <1>12

(* What the moves of a commit have in common.                              *)
LEMMA MovesShare ==
    ASSUME NEW r \in Runs, TypeOK, Queues(r), Commits(r), Fixed(r), Work(r),
           run[r].step \in Committing
    PROVE  /\ run'[r].step \in Committing => Reserved(r)' /\ Equal(r)'
           /\ run'[r].step \in {"exit", "ended"} => Reserved(r)' /\ Equal(r)' /\ Staged(r)'
           /\ RecipesOf(r)' = RecipesOf(r) /\ Pending(r)' = Pending(r)
           /\ \A d : Old(r, d)' = Old(r, d)
           /\ run'[r].candidate = run[r].candidate
           /\ run'[r].pending = run[r].pending
           /\ \A c \in RecipesOf(r) \ Pending(r) : Old(r, c) = run[r].candidate[c]
           /\ \A c \in Pending(r) : c \in run[r].reserved <=> Old(r, c) # Missing
           /\ \A i, j \in DOMAIN run[r].pending :
                 i # j => run[r].pending[i] # run[r].pending[j]
           /\ \A i \in DOMAIN run[r].pending :
                 /\ run[r].pending[i] \in Pending(r) /\ run[r].pending[i] \in RecipesOf(r)
                 /\ run[r].pending[i] \in Recipes
                 /\ i \in 1 .. Len(run[r].pending) /\ i \in Nat
           /\ Pending(r) = {run[r].pending[i] : i \in DOMAIN run[r].pending}
  <1>1. /\ RecipesOf(r)' = RecipesOf(r) /\ Pending(r)' = Pending(r)
        /\ \A d : Old(r, d)' = Old(r, d)
    BY Unfixed DEF Pending, Work
  <1>2. /\ \A c \in RecipesOf(r) \ Pending(r) : Old(r, c) = run[r].candidate[c]
        /\ \A c \in Pending(r) : c \in run[r].reserved <=> Old(r, c) # Missing
    BY DEF Commits, Equal, Reserved
  <1>3. \A i, j \in DOMAIN run[r].pending :
                 i # j => run[r].pending[i] # run[r].pending[j]
    BY DEF Queues, Distinct
  <1>4. /\ DOMAIN run[r].pending = 1 .. Len(run[r].pending)
        /\ Pending(r) \subseteq RecipesOf(r) /\ RecipesOf(r) \subseteq Recipes
        /\ Len(run[r].pending) \in Nat
    BY PositionTypes
  <1>5. \A i \in DOMAIN run[r].pending : run[r].pending[i] \in Pending(r)
    BY DEF Pending, Elements
  <1>6. "compare" \notin Committing /\ "reserve" \notin Committing
    BY DEF Committing
  <1>7. run'[r].step \in Committing => Reserved(r)' /\ Equal(r)'
    BY <1>1, <1>2, <1>6 DEF Reserved, Equal, Work
  <1>8. run'[r].step \in {"exit", "ended"} => Reserved(r)' /\ Equal(r)' /\ Staged(r)'
    BY DEF Reserved, Equal, Staged, Committing
  <1>9. Pending(r) = {run[r].pending[i] : i \in DOMAIN run[r].pending}
    BY DEF Pending, Elements
  <1>. QED
    BY <1>1, <1>2, <1>3, <1>4, <1>5, <1>7, <1>8, <1>9 DEF Work

(* Back from the first move: all is as it was.                             *)
LEMMA AllAsFound ==
    ASSUME NEW r \in Runs, TypeOK, Queues(r), Commits(r), Fixed(r), Work(r),
           run[r].step \in Committing, run'[r].step = "exit", run'[r].code = 1,
           ~run'[r].cut => /\ \A c \in RecipesOf(r) \ Pending(r) : output'[c] = Old(r, c)
                           /\ \A i \in DOMAIN run[r].pending :
                                 output'[run[r].pending[i]] = Old(r, run[r].pending[i])
    PROVE  Commits(r)' /\ Texts(r)'
  <1>1. /\ RecipesOf(r)' = RecipesOf(r) /\ \A d : Old(r, d)' = Old(r, d)
        /\ Reserved(r)' /\ Equal(r)' /\ Staged(r)'
        /\ Pending(r) = {run[r].pending[i] : i \in DOMAIN run[r].pending}
    BY MovesShare
  <1>2. ~run'[r].cut => \A c \in RecipesOf(r) : output'[c] = Old(r, c)
    BY <1>1
  <1>3. run'[r].step \notin Quiet \cup Committing
    BY DEF Quiet, Early, Building, Committing
  <1>4. Outcome(r)'
    BY <1>1, <1>2, <1>3 DEF Outcome
  <1>5. Texts(r)'
    BY <1>3 DEF Texts, Committing
  <1>. QED
    BY <1>1, <1>4, <1>5 DEF Commits

LEMMA MovesOn ==
    ASSUME NEW r \in Runs, TypeOK, Queues(r), Commits(r), Texts(r), Fixed(r), Work(r),
           donor' = donor, entry' = entry,
           run[r].step \in Committing, run'[r].step \in Committing, Staged(r)',
           ~run'[r].cut => /\ \A c \in RecipesOf(r) \ Pending(r) : output'[c] = Old(r, c)
                           /\ Moves(r)'
    PROVE  Commits(r)' /\ Texts(r)'
  <1>1. /\ RecipesOf(r)' = RecipesOf(r) /\ \A d : Old(r, d)' = Old(r, d)
        /\ Reserved(r)' /\ Equal(r)' /\ Pending(r)' = Pending(r)
    BY MovesShare
  <1>2. run'[r].step \notin Quiet \cup {"exit", "ended", "list", "build"}
    BY DEF Quiet, Early, Building, Committing
  <1>3. Outcome(r)'
    BY <1>1, <1>2 DEF Outcome
  <1>4. Texts(r)'
    BY <1>2, TextsKept DEF Work, Built
  <1>. QED
    BY <1>1, <1>3, <1>4 DEF Commits

LEMMA MoveAwayCommits ==
    ASSUME NEW r \in Runs, TypeOK, Queues(r), Commits(r), Texts(r), MoveAway(r)
    PROVE  Commits(r)' /\ Texts(r)'
  <1> DEFINE k == run[r].at
             pend == run[r].pending
             c == PendingAt(r)
  <1>1. /\ run[r].step = "away" /\ donor' = donor /\ entry' = entry
    BY DEF MoveAway
  <1>2. /\ Fixed(r) /\ Work(r) /\ run'[r].cut = run[r].cut /\ OutputsBesides(c)
        /\ BackupBesides(r, c) /\ staged' = staged
        /\ \/ /\ c \notin run[r].reserved /\ output' = output /\ backup' = backup
              /\ run'[r].step = "in" /\ run'[r].at = k
           \/ /\ c \in run[r].reserved /\ output'[c] = Missing
              /\ backup'[r][c] = output[c]
              /\ run'[r].step = "in" /\ run'[r].at = k
           \/ /\ output' = output /\ backup' = backup
              /\ \/ k = 1 /\ run'[r].step = "exit" /\ run'[r].code = 1
                 \/ k > 1 /\ run'[r].step = "undo" /\ run'[r].at = k - 1
    BY MoveAwayFields DEF Goes
  <1>3. run[r].step \in Committing /\ "in" \in Committing /\ "undo" \in Committing
    BY <1>1 DEF Committing
  <1>4. /\ RecipesOf(r)' = RecipesOf(r) /\ \A d : Old(r, d)' = Old(r, d)
        /\ run'[r].candidate = run[r].candidate /\ run'[r].pending = pend
        /\ \A d \in Pending(r) : d \in run[r].reserved <=> Old(r, d) # Missing
        /\ \A i, j \in DOMAIN pend : i # j => pend[i] # pend[j]
        /\ \A i \in DOMAIN pend :
              pend[i] \in Pending(r) /\ pend[i] \in Recipes /\ i \in Nat /\ i >= 1
    BY <1>2, <1>3, MovesShare
  <1>5. /\ k \in DOMAIN pend /\ k \in Nat /\ c = pend[k] /\ c \in Pending(r)
        /\ Pending(r) \subseteq Recipes /\ RecipesOf(r) \subseteq Recipes
    BY <1>1, PositionTypes, Held DEF PendingAt
  <1>6. ~run[r].cut => /\ \A d \in RecipesOf(r) \ Pending(r) : output[d] = Old(r, d)
                       /\ Moves(r)
    BY <1>3 DEF Commits, Outcome
  <1>7. Placed(r) = 1 .. k - 1 /\ Hole(r) = {}
    BY <1>1 DEF Placed, Hole
  <1>8. \A d \in RecipesOf(r) \ Pending(r) : output'[d] = output[d]
    BY <1>2, <1>5 DEF OutputsBesides
  <1>9. \A i \in DOMAIN pend : i # k =>
            output'[pend[i]] = output[pend[i]] /\ backup'[r][pend[i]] = backup[r][pend[i]]
    BY <1>2, <1>4, <1>5 DEF OutputsBesides, BackupBesides
  <1>10. CASE /\ run'[r].step = "in" /\ run'[r].at = k
              /\ \/ /\ c \notin run[r].reserved /\ output' = output /\ backup' = backup
                 \/ /\ c \in run[r].reserved /\ output'[c] = Missing
                    /\ backup'[r][c] = output[c]
    <2>1. Staged(r)'
      BY <1>1, <1>2, <1>4, <1>10 DEF Commits, Staged
    <2>2. Placed(r)' = 1 .. k - 1 /\ Hole(r)' = {k}
      BY <1>10 DEF Placed, Hole
    <2>3. ASSUME ~run'[r].cut, NEW i \in DOMAIN pend
          PROVE  /\ i \in 1 .. k - 1 => output'[pend[i]] = run[r].candidate[pend[i]]
                 /\ i = k => output'[pend[i]] = Missing
                 /\ i \in (1 .. k - 1) \cup {k} /\ Old(r, pend[i]) # Missing
                       => backup'[r][pend[i]] = Old(r, pend[i])
                 /\ i \notin (1 .. k - 1) \cup {k} => output'[pend[i]] = Old(r, pend[i])
      <3>1. Moves(r)
        BY <1>2, <1>6, <2>3
      <3>2. CASE i = k
        <4>1. output[c] = Old(r, c)
          BY <1>5, <1>7, <3>1 DEF Moves
        <4>2. i \notin 1 .. k - 1
          BY <1>5, <3>2
        <4>. QED
          BY <1>4, <1>5, <1>10, <3>2, <4>1, <4>2
      <3>3. CASE i # k
        BY <1>7, <1>9, <3>1, <3>3 DEF Moves
      <3>. QED
        BY <3>2, <3>3
    <2>4. ~run'[r].cut => Moves(r)'
      BY <1>4, <2>2, <2>3 DEF Moves
    <2>. QED
      BY <1>1, <1>2, <1>3, <1>6, <1>8, <1>10, <2>1, <2>4, MovesOn
  <1>11. CASE output' = output /\ k = 1 /\ run'[r].step = "exit" /\ run'[r].code = 1
    <2>1. \A i \in DOMAIN pend : i \notin 1 .. k - 1
      BY <1>4, <1>11
    <2>2. ~run'[r].cut => \A i \in DOMAIN pend : output'[pend[i]] = Old(r, pend[i])
      BY <1>2, <1>6, <1>7, <1>11, <2>1 DEF Moves
    <2>. QED
      BY <1>2, <1>3, <1>6, <1>8, <1>11, <2>2, AllAsFound
  <1>12. CASE /\ output' = output /\ backup' = backup
              /\ k > 1 /\ run'[r].step = "undo" /\ run'[r].at = k - 1
    <2>1. Staged(r)'
      BY <1>12 DEF Staged
    <2>2. Placed(r)' = 1 .. k - 1 /\ Hole(r)' = {}
      BY <1>12 DEF Placed, Hole
    <2>3. ~run'[r].cut => Moves(r)'
      BY <1>2, <1>4, <1>6, <1>7, <1>12, <2>2 DEF Moves
    <2>. QED
      BY <1>1, <1>2, <1>3, <1>6, <1>8, <1>12, <2>1, <2>3, MovesOn
  <1>. QED
    BY <1>2, <1>10, <1>11, <1>12

LEMMA MoveInCommits ==
    ASSUME NEW r \in Runs, TypeOK, Queues(r), Commits(r), Texts(r), MoveIn(r)
    PROVE  Commits(r)' /\ Texts(r)'
  <1> DEFINE k == run[r].at
             pend == run[r].pending
             c == PendingAt(r)
  <1>1. /\ run[r].step = "in" /\ donor' = donor /\ entry' = entry
    BY DEF MoveIn
  <1>2. /\ Fixed(r) /\ Work(r) /\ run'[r].cut = run[r].cut /\ OutputsBesides(c)
        /\ StagedBesides(r, c) /\ backup' = backup
        /\ \/ /\ output'[c] = staged[r][c]
              /\ \/ k = Len(pend) /\ run'[r].step = "drop"
                 \/ k # Len(pend) /\ run'[r].step = "away" /\ run'[r].at = k + 1
           \/ output' = output /\ run'[r].step = "restore" /\ run'[r].at = k
    BY MoveInFields DEF Goes
  <1>3. run[r].step \in Committing /\ {"away", "in", "undo", "restore", "drop"} = Committing
    BY <1>1 DEF Committing
  <1>4. /\ RecipesOf(r)' = RecipesOf(r) /\ \A d : Old(r, d)' = Old(r, d)
        /\ run'[r].candidate = run[r].candidate /\ run'[r].pending = pend
        /\ \A d \in Pending(r) : d \in run[r].reserved <=> Old(r, d) # Missing
        /\ \A i, j \in DOMAIN pend : i # j => pend[i] # pend[j]
        /\ \A i \in DOMAIN pend :
              pend[i] \in Pending(r) /\ pend[i] \in Recipes /\ i \in Nat /\ i >= 1
    BY <1>2, <1>3, MovesShare
  <1>5. /\ k \in DOMAIN pend /\ k \in Nat /\ c = pend[k] /\ c \in Pending(r)
        /\ DOMAIN pend = 1 .. Len(pend) /\ Len(pend) \in Nat
        /\ Pending(r) \subseteq Recipes /\ RecipesOf(r) \subseteq Recipes
    BY <1>1, PositionTypes, Held DEF PendingAt
  <1>6. ~run[r].cut => /\ \A d \in RecipesOf(r) \ Pending(r) : output[d] = Old(r, d)
                       /\ Moves(r)
    BY <1>3 DEF Commits, Outcome
  <1>7. Placed(r) = 1 .. k - 1 /\ Hole(r) = {k}
    BY <1>1 DEF Placed, Hole
  <1>8. \A d \in RecipesOf(r) \ Pending(r) : output'[d] = output[d]
    BY <1>2, <1>5 DEF OutputsBesides
  <1>9. \A i \in DOMAIN pend : i # k =>
            output'[pend[i]] = output[pend[i]] /\ staged'[r][pend[i]] = staged[r][pend[i]]
    BY <1>2, <1>4, <1>5 DEF OutputsBesides, StagedBesides
  <1>10. CASE /\ output'[c] = staged[r][c]
              /\ \/ k = Len(pend) /\ run'[r].step = "drop"
                 \/ k # Len(pend) /\ run'[r].step = "away" /\ run'[r].at = k + 1
    <2>1. \A i \in DOMAIN pend : i >= k => staged[r][pend[i]] = run[r].candidate[pend[i]]
      BY <1>1 DEF Commits, Staged
    <2>2. output'[c] = run[r].candidate[c]
      BY <1>5, <1>10, <2>1
    <2>3. Staged(r)'
      <3>1. CASE run'[r].step = "drop"
        BY <3>1 DEF Staged
      <3>2. CASE run'[r].step = "away" /\ run'[r].at = k + 1
        <4>1. \A i \in DOMAIN pend : i >= k + 1 => i >= k /\ i # k
          BY <1>4, <1>5
        <4>. QED
          BY <1>4, <1>9, <2>1, <3>2, <4>1 DEF Staged
      <3>. QED
        BY <1>10, <3>1, <3>2
    <2>4. /\ \A i \in DOMAIN pend : i \in Placed(r)' <=> i \in 1 .. k
          /\ Hole(r)' = {}
      <3>1. CASE k = Len(pend) /\ run'[r].step = "drop"
        BY <1>4, <1>5, <3>1 DEF Placed, Hole
      <3>2. CASE k # Len(pend) /\ run'[r].step = "away" /\ run'[r].at = k + 1
        <4>1. run'[r].at - 1 = k
          BY <1>5, <3>2
        <4>2. Placed(r)' = 1 .. k /\ Hole(r)' = {}
          BY <3>2, <4>1 DEF Placed, Hole
        <4>. QED
          BY <4>2
      <3>. QED
        BY <1>10, <3>1, <3>2
    <2>5. ASSUME ~run'[r].cut, NEW i \in DOMAIN pend
          PROVE  /\ i \in 1 .. k => output'[pend[i]] = run[r].candidate[pend[i]]
                 /\ i \in 1 .. k /\ Old(r, pend[i]) # Missing
                       => backup'[r][pend[i]] = Old(r, pend[i])
                 /\ i \notin 1 .. k => output'[pend[i]] = Old(r, pend[i])
      <3>1. Moves(r)
        BY <1>2, <1>6, <2>5, SMTT(40)
      <3>2. CASE i = k
        <4>1. Old(r, c) # Missing => backup[r][c] = Old(r, c)
          BY <1>5, <1>7, <3>1 DEF Moves
        <4>. QED
          BY <1>2, <1>4, <1>5, <2>2, <3>2, <4>1
      <3>3. CASE i # k
        <4>1. /\ i \in 1 .. k <=> i \in Placed(r)
              /\ i \notin Hole(r)
          BY <1>4, <1>5, <1>7, <3>3
        <4>. QED
          BY <1>2, <1>9, <3>1, <3>3, <4>1 DEF Moves
      <3>. QED
        BY <3>2, <3>3
    <2>6. ~run'[r].cut => Moves(r)'
      BY <1>4, <2>4, <2>5 DEF Moves
    <2>. QED
      BY <1>1, <1>2, <1>3, <1>6, <1>8, <1>10, <2>3, <2>6, MovesOn
  <1>11. CASE output' = output /\ run'[r].step = "restore" /\ run'[r].at = k
    <2>1. Staged(r)'
      BY <1>11 DEF Staged
    <2>2. Placed(r)' = Placed(r) /\ Hole(r)' = Hole(r)
      BY <1>7, <1>11 DEF Placed, Hole
    <2>3. ~run'[r].cut => Moves(r)'
      BY <1>2, <1>4, <1>6, <1>11, <2>2 DEF Moves
    <2>. QED
      BY <1>1, <1>2, <1>3, <1>6, <1>11, <2>1, <2>3, MovesOn
  <1>. QED
    BY <1>2, <1>10, <1>11

LEMMA UndoCommits ==
    ASSUME NEW r \in Runs, TypeOK, Queues(r), Commits(r), Texts(r), Undo(r)
    PROVE  Commits(r)' /\ Texts(r)'
  <1> DEFINE k == run[r].at
             pend == run[r].pending
             c == PendingAt(r)
  <1>1. /\ run[r].step = "undo" /\ donor' = donor /\ entry' = entry
    BY DEF Undo
  <1>2. /\ Fixed(r) /\ Work(r) /\ run'[r].cut = run[r].cut /\ OutputsBesides(c)
        /\ backup' = backup /\ output'[c] = Missing
        /\ run'[r].step = "restore" /\ run'[r].at = k
    BY UndoFields DEF Goes
  <1>3. run[r].step \in Committing /\ {"away", "in", "undo", "restore", "drop"} = Committing
    BY <1>1 DEF Committing
  <1>4. /\ RecipesOf(r)' = RecipesOf(r) /\ \A d : Old(r, d)' = Old(r, d)
        /\ run'[r].candidate = run[r].candidate /\ run'[r].pending = pend
        /\ \A d \in Pending(r) : d \in run[r].reserved <=> Old(r, d) # Missing
        /\ \A i, j \in DOMAIN pend : i # j => pend[i] # pend[j]
        /\ \A i \in DOMAIN pend :
              pend[i] \in Pending(r) /\ pend[i] \in Recipes /\ i \in Nat /\ i >= 1
    BY <1>2, <1>3, MovesShare
  <1>5. /\ k \in DOMAIN pend /\ k \in Nat /\ c = pend[k] /\ c \in Pending(r)
        /\ DOMAIN pend = 1 .. Len(pend) /\ Len(pend) \in Nat
        /\ Pending(r) \subseteq Recipes /\ RecipesOf(r) \subseteq Recipes
    BY <1>1, PositionTypes, Held DEF PendingAt
  <1>6. ~run[r].cut => /\ \A d \in RecipesOf(r) \ Pending(r) : output[d] = Old(r, d)
                       /\ Moves(r)
    BY <1>3 DEF Commits, Outcome
  <1>7. Placed(r) = 1 .. k /\ Hole(r) = {} /\ Placed(r)' = 1 .. k - 1 /\ Hole(r)' = {k}
    BY <1>1, <1>2 DEF Placed, Hole
  <1>8. \A d \in RecipesOf(r) \ Pending(r) : output'[d] = output[d]
    BY <1>2, <1>5 DEF OutputsBesides
  <1>9. \A i \in DOMAIN pend : i # k => output'[pend[i]] = output[pend[i]]
    BY <1>2, <1>4, <1>5 DEF OutputsBesides
  <1>10. \A i \in DOMAIN pend :
            i \in 1 .. k <=> i \in (1 .. k - 1) \cup {k}
    BY <1>4, <1>5
  <1>11. k \notin 1 .. k - 1 /\ k \in 1 .. k
    BY <1>4, <1>5
  <1>12. ~run'[r].cut => Moves(r)'
    <2>1. SUFFICES ASSUME ~run'[r].cut, NEW i \in DOMAIN pend
                   PROVE  /\ i \in 1 .. k - 1 => output'[pend[i]] = run[r].candidate[pend[i]]
                          /\ i = k => output'[pend[i]] = Missing
                          /\ i \in 1 .. k /\ Old(r, pend[i]) # Missing
                                => backup'[r][pend[i]] = Old(r, pend[i])
                          /\ i \notin 1 .. k => output'[pend[i]] = Old(r, pend[i])
      BY <1>4, <1>7, <1>10 DEF Moves
    <2>2. Moves(r)
      BY <1>2, <1>6, <2>1
    <2>3. CASE i = k
      BY <1>2, <1>5, <1>7, <1>11, <2>2, <2>3 DEF Moves
    <2>4. CASE i # k
      BY <1>2, <1>7, <1>9, <1>10, <2>2, <2>4 DEF Moves
    <2>. QED
      BY <2>3, <2>4
  <1>13. Staged(r)'
    BY <1>2 DEF Staged
  <1>. QED
    BY <1>1, <1>2, <1>3, <1>6, <1>8, <1>12, <1>13, MovesOn

LEMMA RestoreCommits ==
    ASSUME NEW r \in Runs, TypeOK, Queues(r), Commits(r), Texts(r), Restore(r)
    PROVE  Commits(r)' /\ Texts(r)'
  <1> DEFINE k == run[r].at
             pend == run[r].pending
             c == PendingAt(r)
  <1>1. /\ run[r].step = "restore" /\ donor' = donor /\ entry' = entry
    BY DEF Restore
  <1>2. /\ Fixed(r) /\ Work(r) /\ OutputsBesides(c)
        /\ BackupBesides(r, c)
        /\ \/ k = 1 /\ run'[r].step = "exit" /\ run'[r].code = 1
           \/ k > 1 /\ run'[r].step = "undo" /\ run'[r].at = k - 1
        /\ \/ /\ c \notin run[r].reserved /\ output' = output
              /\ run'[r].cut = run[r].cut
           \/ /\ c \in run[r].reserved /\ output'[c] = backup[r][c]
              /\ run'[r].cut = run[r].cut
           \/ run'[r].cut
    BY RestoreFields DEF Goes
  <1>3. run[r].step \in Committing /\ {"away", "in", "undo", "restore", "drop"} = Committing
    BY <1>1 DEF Committing
  <1>4. /\ RecipesOf(r)' = RecipesOf(r) /\ \A d : Old(r, d)' = Old(r, d)
        /\ run'[r].candidate = run[r].candidate /\ run'[r].pending = pend
        /\ \A d \in Pending(r) : d \in run[r].reserved <=> Old(r, d) # Missing
        /\ \A i, j \in DOMAIN pend : i # j => pend[i] # pend[j]
        /\ \A i \in DOMAIN pend :
              pend[i] \in Pending(r) /\ pend[i] \in Recipes /\ i \in Nat /\ i >= 1
    BY <1>2, <1>3, MovesShare
  <1>5. /\ k \in DOMAIN pend /\ k \in Nat /\ c = pend[k] /\ c \in Pending(r)
        /\ DOMAIN pend = 1 .. Len(pend) /\ Len(pend) \in Nat
        /\ Pending(r) \subseteq Recipes /\ RecipesOf(r) \subseteq Recipes
    BY <1>1, PositionTypes, Held DEF PendingAt
  <1>6. ~run[r].cut => /\ \A d \in RecipesOf(r) \ Pending(r) : output[d] = Old(r, d)
                       /\ Moves(r)
    BY <1>3 DEF Commits, Outcome
  <1>7. Placed(r) = 1 .. k - 1 /\ Hole(r) = {k}
    BY <1>1 DEF Placed, Hole
  <1>8. \A d \in RecipesOf(r) \ Pending(r) : output'[d] = output[d]
    BY <1>2, <1>5 DEF OutputsBesides
  <1>9. \A i \in DOMAIN pend : i # k =>
            output'[pend[i]] = output[pend[i]] /\ backup'[r][pend[i]] = backup[r][pend[i]]
    BY <1>2, <1>4, <1>5 DEF OutputsBesides, BackupBesides
  <1>10. k \notin 1 .. k - 1
    BY <1>5
  <1>11. ASSUME ~run'[r].cut PROVE ~run[r].cut /\ output'[c] = Old(r, c)
    <2>1. Moves(r) /\ ~run[r].cut
      BY <1>2, <1>6, <1>11
    <2>2. output[c] = Missing /\ (Old(r, c) # Missing => backup[r][c] = Old(r, c))
      BY <1>5, <1>7, <2>1 DEF Moves
    <2>. QED
      BY <1>2, <1>4, <1>5, <1>11, <2>1, <2>2
  <1>12. ASSUME ~run'[r].cut, NEW i \in DOMAIN pend
         PROVE  /\ i \in 1 .. k - 1 => output'[pend[i]] = run[r].candidate[pend[i]]
                /\ i \in 1 .. k - 1 /\ Old(r, pend[i]) # Missing
                       => backup'[r][pend[i]] = Old(r, pend[i])
                /\ i \notin 1 .. k - 1 => output'[pend[i]] = Old(r, pend[i])
    <2>1. Moves(r)
      BY <1>6, <1>11, <1>12
    <2>2. CASE i = k
      BY <1>5, <1>10, <1>11, <1>12, <2>2
    <2>3. CASE i # k
      BY <1>7, <1>9, <2>1, <2>3 DEF Moves
    <2>. QED
      BY <2>2, <2>3
  <1>13. ~run'[r].cut => \A d \in RecipesOf(r) \ Pending(r) : output'[d] = Old(r, d)
    BY <1>6, <1>8, <1>11
  <1>14. CASE k = 1 /\ run'[r].step = "exit" /\ run'[r].code = 1
    <2>1. \A i \in DOMAIN pend : i \notin 1 .. k - 1
      BY <1>4, <1>14
    <2>2. ~run'[r].cut => \A i \in DOMAIN pend : output'[pend[i]] = Old(r, pend[i])
      BY <1>12, <2>1
    <2>. QED
      BY <1>2, <1>3, <1>13, <1>14, <2>2, AllAsFound
  <1>15. CASE k > 1 /\ run'[r].step = "undo" /\ run'[r].at = k - 1
    <2>1. Staged(r)'
      BY <1>15 DEF Staged
    <2>2. Placed(r)' = 1 .. k - 1 /\ Hole(r)' = {}
      BY <1>15 DEF Placed, Hole
    <2>3. ~run'[r].cut => Moves(r)'
      BY <1>4, <1>12, <2>2 DEF Moves
    <2>. QED
      BY <1>1, <1>2, <1>3, <1>13, <1>15, <2>1, <2>3, MovesOn
  <1>. QED
    BY <1>2, <1>14, <1>15

LEMMA DropCommits ==
    ASSUME NEW r \in Runs, TypeOK, Queues(r), Cutting(r), Commits(r), Texts(r),
           DropBackups(r)
    PROVE  Commits(r)' /\ Texts(r)'
  <1>1. /\ run[r].step = "drop" /\ donor' = donor /\ entry' = entry
    BY DEF DropBackups
  <1>2. /\ Fixed(r) /\ Work(r) /\ run'[r].cut = run[r].cut /\ output' = output
        /\ run'[r].step = "exit" /\ run'[r].code = 0
    BY DropFields DEF Goes
  <1>3. run[r].step \in Committing /\ ~run[r].cut
    BY <1>1 DEF Committing, Cutting
  <1>4. /\ RecipesOf(r)' = RecipesOf(r) /\ run'[r].candidate = run[r].candidate
        /\ Reserved(r)' /\ Equal(r)' /\ Staged(r)'
        /\ \A c \in RecipesOf(r) \ Pending(r) : Old(r, c) = run[r].candidate[c]
        /\ Pending(r) = {run[r].pending[i] : i \in DOMAIN run[r].pending}
    BY <1>2, <1>3, MovesShare
  <1>5. /\ \A c \in RecipesOf(r) \ Pending(r) : output[c] = Old(r, c)
        /\ Moves(r)
    BY <1>3 DEF Commits, Outcome
  <1>6. Placed(r) = DOMAIN run[r].pending
    BY <1>1 DEF Placed
  <1>7. \A i \in DOMAIN run[r].pending :
            output[run[r].pending[i]] = run[r].candidate[run[r].pending[i]]
    BY <1>5, <1>6 DEF Moves
  <1>8. \A c \in RecipesOf(r) : output[c] = run[r].candidate[c]
    BY <1>4, <1>5, <1>7
  <1>9. run'[r].step \notin Quiet \cup Committing
    BY <1>2 DEF Quiet, Early, Building, Committing
  <1>10. Outcome(r)'
    BY <1>2, <1>4, <1>8, <1>9 DEF Outcome
  <1>11. Texts(r)'
    BY <1>1, <1>2, <1>3, TextsKept DEF Work, Built
  <1>. QED
    BY <1>4, <1>10, <1>11 DEF Commits

LEMMA CleanupCommits ==
    ASSUME NEW r \in Runs, TypeOK, Commits(r), Texts(r), Cleanup(r)
    PROVE  Commits(r)' /\ Texts(r)'
  <1>1. /\ run[r].step = "exit" /\ donor' = donor /\ entry' = entry /\ output' = output
    BY DEF Cleanup
  <1>2. /\ Fixed(r) /\ Work(r) /\ run'[r].cut = run[r].cut
        /\ run'[r].step = "ended" /\ run'[r].code = run[r].code
    BY CleanupFields DEF Goes
  <1>3. /\ RecipesOf(r)' = RecipesOf(r) /\ \A c : Old(r, c)' = Old(r, c)
    BY <1>2, Unfixed
  <1>4. run'[r].step \notin Quiet \cup Committing
    BY <1>2 DEF Quiet, Early, Building, Committing
  <1>5. Outcome(r)'
    BY <1>1, <1>2, <1>3, <1>4 DEF Commits, Outcome, Work
  <1>6. Reserved(r)' /\ Staged(r)' /\ Equal(r)'
    BY <1>2, <1>4 DEF Reserved, Staged, Equal
  <1>7. \A c : Text(Active(c))' = Text(Active(c))
    BY <1>1, SameText
  <1>8. Texts(r)'
    <2>1. SUFFICES ASSUME run'[r].code = 0, NEW c \in RecipesOf(r)
                   PROVE  Fresh(r, c)'
      BY <1>2, <1>3, <1>4 DEF Texts
    <2>2. Fresh(r, c)
      BY <1>1, <1>2, <2>1 DEF Texts
    <2>. QED
      BY <1>2, <1>7, <2>2 DEF Fresh, Work
  <1>. QED
    BY <1>5, <1>6, <1>8 DEF Commits

LEMMA SignalCommits ==
    ASSUME NEW r \in Runs, TypeOK, Queues(r), Cutting(r), Commits(r), Texts(r), Signal(r)
    PROVE  Commits(r)' /\ Texts(r)'
  <1>1. /\ run[r].step \in Building \cup Committing /\ output' = output
    BY DEF Signal, files
  <1>2. /\ Fixed(r) /\ Work(r) /\ run'[r].step = "exit" /\ run'[r].code = 128
        /\ run[r].step \in Committing => run'[r].cut
    BY SignalFields DEF Goes
  <1>3. CASE run[r].step \in Building
    BY <1>1, <1>2, <1>3, LeavesAsFound DEF Commits
  <1>4. CASE run[r].step \in Committing
    <2>1. Reserved(r)' /\ Equal(r)' /\ Staged(r)'
      BY <1>2, <1>4, MovesShare
    <2>2. run'[r].step \notin Quiet \cup Committing
      BY <1>2 DEF Quiet, Early, Building, Committing
    <2>3. Outcome(r)' /\ Texts(r)'
      BY <1>2, <1>4, <2>2 DEF Outcome, Texts
    <2>. QED
      BY <2>1, <2>3 DEF Commits
  <1>. QED
    BY <1>1, <1>3, <1>4

(* Every step of the runner keeps track of where the outputs are.          *)
LEMMA RunnerCommits ==
    ASSUME NEW r \in Runs, TypeOK, Shape(r), Commits(r), Texts(r), Runner(r)
    PROVE  Commits(r)' /\ Texts(r)'
  <1>1. Queues(r) /\ Cutting(r)
    <2>1. run[r].step \in Running
      BY RunnerFrame
    <2>2. Busy(r)
      BY <2>1 DEF Busy, Running, Building, Committing
    <2>. QED
      BY <2>2 DEF Shape
  <1>2. CASE ToolFails(r)
    <2>1. run[r].step \in Building /\ output' = output /\ run' = Exit(r, 1)
      BY <1>2 DEF ToolFails, files
    <2>2. Fixed(r) /\ run'[r].step = "exit" /\ run'[r].code # 0
      BY <2>1, ExitFields DEF Goes
    <2>. QED
      BY <1>1, <2>1, <2>2, LeavesAsFound DEF Commits
  <1>. QED
    BY <1>1, <1>2, ListCommits, BuildCommits, CompareCommits, StageCommits, ReserveCommits,
       MoveAwayCommits, MoveInCommits, UndoCommits, RestoreCommits, DropCommits,
       CleanupCommits, SignalCommits DEF Runner
=============================================================================
