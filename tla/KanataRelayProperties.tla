------------------------ MODULE KanataRelayProperties -----------------------
(***************************************************************************)
(* What the relay owes the person at the dial: the virtual key follows the *)
(* keyboard, and never stays held by a relay, a source or a connection     *)
(* that is gone.                                                           *)
(***************************************************************************)
EXTENDS KanataRelay

Messages == [conn : Conns, cmd : KeyCommands \cup Queries]
            \cup [conn : {"gone"}, cmd : KeyCommands \cup {"none"}]

(* Types; and one query at most is open on each connection.                *)
TypeOK ==
    /\ {keyboard, hung, target, sourceHeld, sentHeld, key} \subseteq BOOLEAN
    /\ updates \in Seq(BOOLEAN)
    /\ source \in {"down", "up", "closing"}
    /\ session \in Phases
    /\ life \in Lives /\ reset \in Resets
    /\ wire \in Seq(Messages)
    /\ replies \in [Conns -> Seq({"names", "base", "precision"})]
    /\ \A c \in Conns : Len(replies[c]) <= 1
    /\ pending \in Seq(BOOLEAN)
    /\ faults \in 0..MaxFaults

(* What the key will be once everything under way has arrived.             *)
Outcome ==
    LET sent == {i \in DOMAIN wire : wire[i].cmd \in KeyCommands}
    IN  IF sent # {}
        THEN \E i \in sent : wire[i].cmd = "press" /\ \A j \in sent : j <= i
        ELSE IF pending # <<>> THEN pending[Len(pending)] ELSE key

(* "Reconnect resets uncertain state": a ready session's belief is what    *)
(* the key will be, whatever a crashed relay, a dead connection or a full  *)
(* buffer left behind.                                                     *)
BeliefIsOutcome == session = "ready" => sentHeld = Outcome

(* A stop() that succeeds leaves the key released, also when the session it*)
(* had was not healthy, and so does an ExecStopPost that succeeds, whatever*)
(* the dead process had still under way.                                   *)
StoppedIsReleased == life = "stopped" \/ reset = "done" => ~Outcome

(* A relay that was asked to stop, whose own reset failed or was killed and*)
(* whose ExecStopPost failed too: nothing of it runs or restarts any more, *)
(* and only the toggle (its reset unit, or the stop of the dial) is left.  *)
Abandoned == life = "failed" /\ reset = "broken"

(* "Releases on source loss", on deadlines, crashes and reconnects: once   *)
(* the keyboard stays off the precision layer the key is released for good,*)
(* unless the relay stays abandoned.                                       *)
ReleasedWhenOff == <>[]~keyboard /\ ~<>[]Abandoned => <>[]~key

(* "Detects an unresponsive source": a source that never answers again     *)
(* cannot keep the key held, unless the relay stays abandoned.             *)
ReleasedWhenSilent == <>[]hung /\ ~<>[]Abandoned => <>[]~key

(* A keyboard that stays on the precision layer and answers gets the key,  *)
(* unless somebody asked the relay to stop, with success or without.       *)
HeldWhenOn ==
    <>[](keyboard /\ ~hung /\ life \notin {"stopped", "failed"}) => <>[]key

(* A resetTarget comes to an end: stop()'s own, and that of ExecStopPost.  *)
StopEnds == Resetting ~> ~Resetting
=============================================================================
