------------------------ MODULE KeybindingProperties ------------------------
(***************************************************************************)
(* What publication of registrations promises while others write the same  *)
(* roots (runtime/registry/README.md, runtime/registry/register.ts), and   *)
(* what a batch promises the receivers it installs at.                     *)
(***************************************************************************)
EXTENDS KeybindingBatch

Steps == {"idle", "plan", "admit", "verify", "inspect", "apply", "publish",
          "build", "receive", "read", "guard", "commit", "done", "failed"}
Causes == {"none", "refused", "descriptor", "changed", "exact", "native", "state"}
Groups == {"none", "enabled", "disabled"}
Views == [Places -> Entries]
Plans == [view : Views, slots : [Slots -> Entries], on : BOOLEAN,
          exact : BOOLEAN, dest : Slots]
Runs == [cmd : CommandKinds \cup {"none"}, id : Ids,
         force : BOOLEAN, explicit : BOOLEAN,
         step : Steps, plan : [Ids -> Plans], members : Seq(Receivers),
         todo : Seq(Ids), next : Steps \cup {"none"}, saw : Views,
         phase : {"none", "before", "published"}, group : Groups,
         moved : SUBSET Ids, stale : BOOLEAN, steady : BOOLEAN,
         touched : BOOLEAN, torn : BOOLEAN, cause : Causes]

(* The variables keep their shape; a command that looks has something left *)
(* to look at, and one that installs has a receiver to install at.         *)
TypeOK ==
    /\ places \in [Ids -> Views]
    /\ enabled \in [Ids -> BOOLEAN]
    /\ membership \in [Receivers -> Groups]
    /\ changes \in 0..MaxChanges
    /\ run \in [Invocations -> Runs]
    /\ \A p \in Invocations :
          /\ run[p].step \in {"verify", "inspect"} <=> run[p].todo # <<>>
          /\ run[p].step \in {"read", "guard", "commit"} => run[p].members # <<>>

Effect(i) == Effective(places[i], enabled[i])

(* Publication does not disturb the operator: if nobody else touched the   *)
(* registration since the last look began, what is written replaces        *)
(* nothing but the owner's own reference, leaves one local entry, and      *)
(* changes no effective declaration but a missing one                      *)
(* (register.ts:124, :181).                                                *)
PublishKeeps ==
    [][\A p \in Invocations, i \in Ids :
          (Publish(p) /\ run[p].id = i /\ i \notin run[p].moved
             /\ places'[i] # places[i]) =>
          /\ \A s \in Places :
                places'[i][s] # places[i][s] => places[i][s] \in {"missing", "link"}
          /\ Effect(i) \in {"missing", Effect(i)'} /\ Effect(i)' # "conflict"]_vars

(* A veto holds to the commit: a group is installed only for a producer    *)
(* and at a receiver that are still active, or disabled and forced, unless *)
(* that changed during the very last look; and never under a declaration   *)
(* put in the producer's place after it was admitted (invocation.ts:388).  *)
(* A registration that did not exist when it was admitted may be missing   *)
(* (again): the guard takes a withdrawn reference for one not yet there.   *)
(* And the looks of the admission itself must have agreed: it refuses what *)
(* the second one shows, but guards what the first one did.                *)
Allowed(r, i) ==
    /\ \/ Effect(i) = "active" \/ (Effect(i) = "disabled" /\ r.force)
       \/ /\ Effect(i) = "missing" /\ r.plan[i].view = Nowhere
          /\ enabled[i] \/ r.force
    /\ i = Provider => ~Redirects(places[i])

VetoHolds ==
    [][\A p \in Invocations :
          (Commit(p) /\ run[p].cmd = "batch" /\ run[p].steady) =>
          \A i \in {Provider, Receiver(p)} \ run[p].moved : Allowed(run[p], i)]_vars

(* Publishers of one reference do not fail one another: an invocation that *)
(* finds its registration changed was disturbed by somebody else, or saw a *)
(* publication between its two looks (guard.ts:26).                        *)
AgreeOnPublication ==
    \A p \in Invocations :
        run[p].cause = "exact" => run[p].touched \/ run[p].torn

(* An install keeps the flag the operator set: a batch turns a group on or *)
(* off only if the membership was written during its very last look        *)
(* (membership.ts:495).                                                    *)
ToggleKept ==
    [][\A p \in Invocations :
          (Commit(p) /\ run[p].cmd = "batch" /\ ~run[p].stale) =>
          membership'[Receiver(p)] \in
             {membership[Receiver(p)]} \cup
                (IF membership[Receiver(p)] = "none" THEN {"enabled"} ELSE {})]_vars
=============================================================================
