----------------------------- MODULE KanataRelay ----------------------------
(***************************************************************************)
(* The dial relay, files/kanata-dial/relay.ts: one session follows the     *)
(* keyboard's layer, another holds a virtual key on the dial's Kanata      *)
(* while the keyboard is on its precision layer.  Both reconnect for ever. *)
(* The virtual key is not leased to a connection: it stays held when the   *)
(* relay or the connection dies.  resetTarget releases it on a connection  *)
(* of its own: in stop(), and for systemd in ExecStopPost once the process *)
(* is over.                                                                *)
(*                                                                         *)
(* The two Kanata daemons are external.  The target takes the commands of  *)
(* all its connections in the order they arrive, may lose the last ones of *)
(* a connection that dies, and processes key actions some time after it    *)
(* takes them; a layer query answers what is effective when it is taken.   *)
(* Deadlines are not clocks here: giving a session up is a fault that may  *)
(* happen at any time, and must happen to a source that answers nothing.   *)
(***************************************************************************)
EXTENDS Naturals, Sequences

CONSTANTS
    Faults,         \* kinds of faults that may happen
    MaxFaults,      \* bound on the number of faults
    MaxInFlight     \* the keyboard rests while so much is under way

ASSUME BoundAssumption == MaxFaults \in Nat /\ MaxInFlight \in Nat

VARIABLES
    keyboard,       \* the keyboard is on its precision layer
    hung,           \* the keyboard's Kanata answers nothing
    updates,        \* layer messages on their way to the source session
    source,         \* the source session
    session,        \* the target session
    target,         \* the target session is the relay's this.target
    sourceHeld,     \* what the relay last heard
    sentHeld,       \* what the relay believes it has sent
    life,           \* the relay process
    reset,          \* the resetTarget of stop(), then of ExecStopPost
    wire,           \* commands on their way to the target daemon
    replies,        \* replies on their way back, per connection
    pending,        \* key actions the target has taken and not processed
    key,            \* the virtual key is held, so precision is effective
    faults          \* faults so far

keyboardVars == <<keyboard, hung>>
daemonVars == <<pending, key>>
beliefs == <<target, sourceHeld, sentHeld>>
lifeVars == <<life, reset>>
vars == <<keyboard, hung, updates, source, session, target, sourceHeld,
          sentHeld, life, reset, wire, replies, pending, key, faults>>

Conns == {"session", "reset"}
KeyCommands == {"press", "release"}
Queries == {"names", "layer"}

(* What never arrives.                                                     *)
Lost == [conn |-> "gone", cmd |-> "none"]

Phases == {"down", "names", "resetting", "ready", "closing"}

(* "failed" was asked to stop and did not succeed, "dead" was not asked.   *)
Lives == {"up", "stopping", "stopped", "failed", "dead"}
Running == life \in {"up", "stopping"}
Stopping == life # "up"
Resets == {"none", "names", "barrier", "done", "broken"}
Resetting == reset \in {"names", "barrier"}

Init ==
    /\ keyboard \in BOOLEAN
    /\ hung = FALSE
    /\ key \in BOOLEAN
    /\ updates = <<>> /\ source = "down" /\ session = "down"
    /\ target = FALSE /\ sourceHeld = FALSE /\ sentHeld = FALSE
    /\ life = "up" /\ reset = "none"
    /\ wire = <<>> /\ pending = <<>>
    /\ replies = [c \in Conns |-> <<>>]
    /\ faults = 0

Fault(kind) ==
    /\ kind \in Faults
    /\ faults < MaxFaults
    /\ faults' = faults + 1

-----------------------------------------------------------------------------
(* Writing.                                                                *)

Write(c, cmds) == wire \o [i \in 1..Len(cmds) |-> [conn |-> c, cmd |-> cmds[i]]]

KeyCommand(held) == IF held THEN "press" ELSE "release"

(* The commands left when connection c dies: some first ones of its own    *)
(* arrive all the same, the rest is lost.                                  *)
Fate(m, arrives) ==
    IF arrives /\ m.cmd \in KeyCommands
    THEN [conn |-> "gone", cmd |-> m.cmd] ELSE Lost

Remains(c, w) ==
    LET Arrives(n) ==
          [i \in 1..Len(w) |-> IF w[i].conn = c THEN Fate(w[i], i <= n) ELSE w[i]]
        Last(v) == {k \in 0..Len(v) : /\ k = 0 \/ v[k] # Lost
                                      /\ \A i \in k + 1..Len(v) : v[i] = Lost}
    IN  UNION {{SubSeq(Arrives(n), 1, k) : k \in Last(Arrives(n))} : n \in 0..Len(w)}

(* Mutant of Apply: a release is taken for done when the source lets go.   *)
ApplyPressOnly(held) ==
    /\ wire' = IF target /\ session = "ready" /\ held /\ ~sentHeld
               THEN Write("session", <<"press">>) ELSE wire
    /\ sentHeld' = held
    /\ UNCHANGED <<session, replies, faults>>

(* apply(): send what changed.  Nothing can be written to a socket that is *)
(* destroyed but not yet closed, and a full buffer destroys the socket     *)
(* after the command is queued.                                            *)
Apply(held) ==
    IF target /\ session = "ready" /\ held # sentHeld
    THEN \/ /\ wire' = Write("session", <<KeyCommand(held)>>)
            /\ sentHeld' = held
            /\ UNCHANGED <<session, replies, faults>>
         \/ /\ Fault("backpressure")
            /\ wire' \in Remains("session", Write("session", <<KeyCommand(held)>>))
            /\ session' = "closing"
            /\ replies' = [replies EXCEPT !["session"] = <<>>]
            /\ UNCHANGED sentHeld
    ELSE UNCHANGED <<wire, sentHeld, session, replies, faults>>

-----------------------------------------------------------------------------
(* The keyboard and its Kanata.                                            *)

(* Every layer change is announced to a connected relay.                   *)
ChangeLayer ==
    /\ Len(updates) + Len(wire) + Len(pending) < MaxInFlight
    /\ keyboard' = ~keyboard
    /\ updates' = IF source = "up" /\ ~hung
                  THEN Append(updates, ~keyboard) ELSE updates
    /\ UNCHANGED <<hung, source, session, beliefs, lifeVars, wire, replies,
                   daemonVars, faults>>

Hang ==
    /\ Fault("hang")
    /\ ~hung
    /\ hung' = TRUE
    /\ UNCHANGED <<keyboard, updates, source, session, beliefs, lifeVars, wire,
                   replies, daemonVars>>

(* A daemon that recovers answers the query it owes.                       *)
Recover ==
    /\ hung
    /\ hung' = FALSE
    /\ updates' = IF source = "up" THEN Append(updates, keyboard) ELSE updates
    /\ UNCHANGED <<keyboard, source, session, beliefs, lifeVars, wire, replies,
                   daemonVars, faults>>

-----------------------------------------------------------------------------
(* The source session.                                                     *)

(* Connecting asks for the current layer.                                  *)
SourceConnect ==
    /\ source = "down"
    /\ life = "up"
    /\ source' = "up"
    /\ updates' = IF hung THEN <<>> ELSE <<keyboard>>
    /\ UNCHANGED <<keyboardVars, session, beliefs, lifeVars, wire, replies,
                   daemonVars, faults>>

(* A layer message: remember whether it is the precision layer, apply().   *)
SourceData ==
    /\ source = "up"
    /\ updates # <<>>
    /\ updates' = Tail(updates)
    /\ sourceHeld' = Head(updates)
    /\ Apply(~Stopping /\ Head(updates))
    /\ UNCHANGED <<keyboardVars, source, target, lifeVars, daemonVars>>

Destroyed == source' = "closing" /\ updates' = <<>>

(* The connection is lost, a message is malformed or a deadline passes.    *)
SourceLost ==
    /\ Fault("source")
    /\ source = "up"
    /\ Destroyed
    /\ UNCHANGED <<keyboardVars, session, beliefs, lifeVars, wire, replies,
                   daemonVars>>

(* The poll deadline of a source that does not answer.                     *)
SourceDeadline ==
    /\ source = "up"
    /\ hung
    /\ updates = <<>>
    /\ Destroyed
    /\ UNCHANGED <<keyboardVars, session, beliefs, lifeVars, wire, replies,
                   daemonVars, faults>>

(* Mutant of SourceClose: the last snapshot outlives its connection.       *)
SourceCloseKeeping ==
    /\ source = "closing"
    /\ source' = "down"
    /\ UNCHANGED <<keyboardVars, updates, beliefs, session, lifeVars, wire,
                   replies, daemonVars, faults>>

(* Without a source the key is released.                                   *)
SourceClose ==
    /\ source = "closing"
    /\ source' = "down"
    /\ sourceHeld' = FALSE
    /\ Apply(FALSE)
    /\ UNCHANGED <<keyboardVars, updates, target, lifeVars, daemonVars>>

-----------------------------------------------------------------------------
(* The target session.                                                     *)

TargetConnect ==
    /\ session = "down"
    /\ life = "up"
    /\ session' = "names"
    /\ wire' = Write("session", <<"names">>)
    /\ UNCHANGED <<keyboardVars, updates, source, beliefs, lifeVars, replies,
                   daemonVars, faults>>

Received(c, answers) == replies[c] # <<>> /\ Head(replies[c]) \in answers

Consumed(c) == [replies EXCEPT ![c] = Tail(@)]

(* Mutant of TargetNames: the session is ready without a reset.            *)
TargetNamesReady ==
    /\ session = "names"
    /\ Received("session", {"names"})
    /\ replies' = Consumed("session")
    /\ session' = "ready"
    /\ target' = TRUE
    /\ sentHeld' = (sourceHeld /\ ~Stopping)
    /\ wire' = IF sentHeld' THEN Write("session", <<"press">>) ELSE wire
    /\ UNCHANGED <<keyboardVars, updates, source, sourceHeld, lifeVars,
                   daemonVars, faults>>

(* Release what a crashed relay may have left, then ask for the layer.     *)
TargetNames ==
    /\ session = "names"
    /\ Received("session", {"names"})
    /\ replies' = Consumed("session")
    /\ session' = "resetting"
    /\ wire' = Write("session", <<"release", "layer">>)
    /\ UNCHANGED <<keyboardVars, updates, source, beliefs, lifeVars, daemonVars,
                   faults>>

(* Mutant of TargetWaits: the query goes out on two timers.                *)
TargetWaitsTwice ==
    /\ session = "resetting"
    /\ Received("session", {"precision"})
    /\ replies' = Consumed("session")
    /\ wire' = Write("session", <<"layer", "layer">>)
    /\ UNCHANGED <<keyboardVars, updates, source, session, beliefs, lifeVars,
                   daemonVars, faults>>

(* Any other layer than the fallback: ask again.                           *)
TargetWaits ==
    /\ session = "resetting"
    /\ Received("session", {"precision"})
    /\ replies' = Consumed("session")
    /\ wire' = Write("session", <<"layer">>)
    /\ UNCHANGED <<keyboardVars, updates, source, session, beliefs, lifeVars,
                   daemonVars, faults>>

(* Mutant of TargetReady: the next update is awaited before applying.      *)
TargetReadyIdle ==
    /\ session = "resetting"
    /\ Received("session", {"base"})
    /\ replies' = Consumed("session")
    /\ session' = "ready"
    /\ target' = TRUE
    /\ sentHeld' = FALSE
    /\ UNCHANGED <<keyboardVars, updates, source, sourceHeld, lifeVars, wire,
                   daemonVars, faults>>

(* The fallback is effective: the session is ready and apply() runs.       *)
TargetReady ==
    LET held == sourceHeld /\ ~Stopping
    IN  /\ session = "resetting"
        /\ Received("session", {"base"})
        /\ replies' = Consumed("session")
        /\ session' = "ready"
        /\ target' = TRUE
        /\ sentHeld' = held
        /\ wire' = IF held THEN Write("session", <<"press">>) ELSE wire
        /\ UNCHANGED <<keyboardVars, updates, source, sourceHeld, lifeVars,
                       daemonVars, faults>>

(* The connection is lost or one of its deadlines passes.                  *)
TargetLost ==
    /\ Fault("target")
    /\ session \notin {"down", "closing"}
    /\ session' = "closing"
    /\ wire' \in Remains("session", wire)
    /\ replies' = [replies EXCEPT !["session"] = <<>>]
    /\ UNCHANGED <<keyboardVars, updates, source, beliefs, lifeVars, daemonVars>>

TargetClose ==
    /\ session = "closing"
    /\ session' = "down"
    /\ target' = FALSE
    /\ sentHeld' = (sentHeld /\ ~target)
    /\ UNCHANGED <<keyboardVars, updates, source, sourceHeld, lifeVars, wire,
                   replies, daemonVars, faults>>

-----------------------------------------------------------------------------
(* The target daemon.                                                      *)

Answer(cmd) == IF cmd = "names" THEN "names"
               ELSE IF key THEN "precision" ELSE "base"

Take ==
    LET m == Head(wire)
    IN  /\ wire # <<>>
        /\ wire' = Tail(wire)
        /\ pending' = IF m.cmd \in KeyCommands
                      THEN Append(pending, m.cmd = "press") ELSE pending
        /\ replies' = IF m.cmd \in Queries
                      THEN [replies EXCEPT ![m.conn] = Append(@, Answer(m.cmd))]
                      ELSE replies
        /\ UNCHANGED <<keyboardVars, updates, source, session, beliefs, lifeVars,
                       key, faults>>

Process ==
    /\ pending # <<>>
    /\ key' = Head(pending)
    /\ pending' = Tail(pending)
    /\ UNCHANGED <<keyboardVars, updates, source, session, beliefs, lifeVars,
                   wire, replies, faults>>

-----------------------------------------------------------------------------
(* Stopping, and dying.                                                    *)

(* Mutant of Stop: only a new connection resets the key.                   *)
StopWithoutBarrier ==
    /\ Fault("stop")
    /\ life = "up"
    /\ life' = "stopped"
    /\ sourceHeld' = FALSE
    /\ source' = IF source = "down" THEN "down" ELSE "closing"
    /\ session' = IF session = "down" THEN "down" ELSE "closing"
    /\ updates' = <<>>
    /\ wire' \in Remains("session", wire)
    /\ replies' = [c \in Conns |-> <<>>]
    /\ UNCHANGED <<keyboardVars, target, sentHeld, reset, daemonVars>>

(* stop(), on a signal: release on the session, abort the reconnects, and  *)
(* reset on a connection of its own (resetTarget).                         *)
Stop ==
    /\ Fault("stop")
    /\ life = "up"
    /\ life' = "stopping" /\ reset' = "names"
    /\ sourceHeld' = FALSE
    /\ LET release == IF target /\ session = "ready" /\ sentHeld
                      THEN Write("session", <<"release">>) ELSE wire
       IN  wire' = Append(release, [conn |-> "reset", cmd |-> "names"])
    /\ sentHeld' = (sentHeld /\ session = "closing")
    /\ UNCHANGED <<keyboardVars, updates, source, session, target, replies,
                   daemonVars>>

(* ExecStopPost, cli.ts --reset: however the relay's process ended, one    *)
(* more resetTarget once it is over.                                       *)
StopPost ==
    /\ ~Running
    /\ reset = "none"
    /\ source = "down" /\ session = "down"
    /\ reset' = "names"
    /\ wire' = Write("reset", <<"names">>)
    /\ UNCHANGED <<keyboardVars, updates, source, session, beliefs, life,
                   replies, daemonVars, faults>>

ResetNames ==
    /\ reset = "names"
    /\ Received("reset", {"names"})
    /\ replies' = Consumed("reset")
    /\ reset' = "barrier"
    /\ wire' = Write("reset", <<"release", "layer">>)
    /\ UNCHANGED <<keyboardVars, updates, source, session, beliefs, life,
                   daemonVars, faults>>

(* Mutant of ResetWaits: the layer is asked for only once.                 *)
ResetWaitsOnce ==
    /\ reset = "barrier"
    /\ Received("reset", {"precision"})
    /\ replies' = Consumed("reset")
    /\ UNCHANGED <<keyboardVars, updates, source, session, beliefs, lifeVars,
                   wire, daemonVars, faults>>

(* resetTarget: any other layer than the fallback: ask again.              *)
ResetWaits ==
    /\ reset = "barrier"
    /\ Received("reset", {"precision"})
    /\ replies' = Consumed("reset")
    /\ wire' = Write("reset", <<"layer">>)
    /\ UNCHANGED <<keyboardVars, updates, source, session, beliefs, lifeVars,
                   daemonVars, faults>>

(* The relay ends, and with it every socket, those of stop() included.     *)
Ends(end) ==
    /\ life' = end /\ reset' = "none"
    /\ updates' = <<>>
    /\ replies' = [c \in Conns |-> <<>>]
    /\ \E w \in Remains("session", wire) : wire' \in Remains("reset", w)

(* stop() destroys the sockets and waits for the sessions to be over.      *)
StopEnding(end) ==
    /\ Ends(end)
    /\ source' = IF source = "down" THEN "down" ELSE "closing"
    /\ session' = IF session = "down" THEN "down" ELSE "closing"

(* The process of ExecStopPost ends.                                       *)
PostEnds(end) ==
    /\ reset' = end
    /\ wire' \in Remains("reset", wire)
    /\ replies' = [replies EXCEPT !["reset"] = <<>>]
    /\ UNCHANGED <<updates, source, session, life>>

(* resetTarget resolves: stop() does, or ExecStopPost succeeds.            *)
ResetDone ==
    /\ reset = "barrier"
    /\ Received("reset", {"base"})
    /\ IF Running THEN StopEnding("stopped") ELSE PostEnds("done")
    /\ UNCHANGED <<keyboardVars, beliefs, daemonVars, faults>>

(* It rejects: on its deadline, or because the target refuses or closes.   *)
ResetFails ==
    /\ Fault("reset")
    /\ Resetting
    /\ IF Running THEN StopEnding("failed") ELSE PostEnds("broken")
    /\ UNCHANGED <<keyboardVars, beliefs, daemonVars>>

(* The process is killed, perhaps because it took too long to stop; the    *)
(* kernel closes its connections.                                          *)
Crash ==
    /\ Fault("crash")
    /\ Running
    /\ Ends(IF Stopping THEN "failed" ELSE "dead")
    /\ source' = "down" /\ session' = "down"
    /\ target' = FALSE /\ sourceHeld' = FALSE /\ sentHeld' = FALSE
    /\ UNCHANGED <<keyboardVars, daemonVars>>

(* Somebody stops the unit of a relay that died before systemd restarts it.*)
SuppressRestart ==
    /\ Fault("stop")
    /\ life = "dead"
    /\ life' = "failed"
    /\ UNCHANGED <<keyboardVars, updates, source, session, beliefs, reset, wire,
                   replies, daemonVars>>

(* Once ExecStopPost has run: systemd restarts a relay that died unasked,  *)
(* one that was asked to stop only starts again if somebody starts it.     *)
Start ==
    /\ ~Running
    /\ reset \in {"done", "broken"}
    /\ life' = "up" /\ reset' = "none"
    /\ target' = FALSE /\ sourceHeld' = FALSE /\ sentHeld' = FALSE
    /\ UNCHANGED <<keyboardVars, updates, source, session, wire, replies,
                   daemonVars, faults>>

Relay ==
    \/ SourceConnect \/ SourceData \/ SourceDeadline \/ SourceClose
    \/ TargetConnect \/ TargetNames \/ TargetWaits \/ TargetReady
    \/ TargetClose \/ StopPost \/ ResetNames \/ ResetWaits \/ ResetDone

Target == Take \/ Process

Next ==
    \/ ChangeLayer \/ Hang \/ Recover \/ SourceLost \/ TargetLost
    \/ Stop \/ ResetFails \/ Crash \/ SuppressRestart \/ Start
    \/ Relay \/ Target

Spec == Init /\ [][Next]_vars

(* Each session runs, the daemon serves, and systemd runs ExecStopPost and *)
(* restarts a relay that died unasked.  Nobody need start one that was     *)
(* stopped, nor one whose stop() failed.                                   *)
Fairness ==
    /\ WF_vars(SourceConnect) /\ WF_vars(SourceData)
    /\ WF_vars(SourceDeadline) /\ WF_vars(SourceClose)
    /\ WF_vars(TargetConnect) /\ WF_vars(TargetNames)
    /\ WF_vars(TargetWaits) /\ WF_vars(TargetReady) /\ WF_vars(TargetClose)
    /\ WF_vars(StopPost) /\ WF_vars(ResetNames)
    /\ WF_vars(ResetWaits) /\ WF_vars(ResetDone)
    /\ WF_vars(Take) /\ WF_vars(Process)
    /\ WF_vars(life = "dead" /\ Start)

LiveSpec == Spec /\ Fairness
=============================================================================
