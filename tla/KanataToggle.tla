----------------------------- MODULE KanataToggle ---------------------------
(***************************************************************************)
(* ON and OFF of the dial enhancement: `toggle` of                         *)
(* files/kanata-dial/toggle.ts, a sequence of commands on systemd units,   *)
(* on the membership of receivers' key bindings and on the compositor.     *)
(* Any command may fail, with or without its effect, and the toggle itself *)
(* may be killed; there is no transaction over them.                       *)
(*                                                                         *)
(* External: a running relay may press and release the virtual key on a    *)
(* running dial at any time; the key stays held when the relay goes and is *)
(* released when the dial goes; the relay's unit requires the dial's.      *)
(***************************************************************************)
CONSTANT Receivers      \* receiver profiles an operator may choose from

VARIABLES
    relay,      \* kanata-dial-relay.service runs, or restarts
    dial,       \* kanata-dial.service runs
    held,       \* the virtual key is held: the dial emits F23 and F24
    enabled,    \* receivers whose membership is enabled
    active,     \* receivers whose compositor has the bindings applied
    served,     \* receivers of the ON that last started the relay
    pc,         \* the command this invocation runs next, or how it ended
    mode,       \* "on" or "off"
    chosen,     \* receivers of this invocation
    left,       \* receivers whose membership is still to be changed
    after       \* where safeStop returns to

unitVars == <<relay, dial, held>>
bindingVars == <<enabled, active>>
callVars == <<mode, chosen>>
vars == <<relay, dial, held, enabled, active, served, pc, mode, chosen,
          left, after>>

Ended == {"done", "refused", "failed", "unsafe", "killed"}

Init ==
    /\ relay = FALSE /\ dial \in BOOLEAN /\ held = FALSE
    /\ enabled = {} /\ active = {} /\ served = {}
    /\ pc = "done" /\ mode = "off" /\ chosen = {} /\ left = {}
    /\ after = "disable"

(* Mutant of Invoke: OFF changes membership first.                         *)
InvokeMembershipFirst ==
    /\ pc \in Ended
    /\ \E m \in {"on", "off"}, cs \in (SUBSET Receivers) \ {{}} :
          /\ mode' = m /\ chosen' = cs /\ left' = cs
          /\ pc' = IF m = "on" THEN "stopRelay" ELSE "disable"
          /\ after' = IF m = "on" THEN "enable" ELSE "disable"
    /\ UNCHANGED <<unitVars, bindingVars, served>>

Invoke ==
    /\ pc \in Ended
    /\ \E m \in {"on", "off"}, cs \in (SUBSET Receivers) \ {{}} :
          /\ mode' = m /\ chosen' = cs /\ left' = cs
          /\ pc' = IF m = "on" THEN "stopRelay" ELSE "disableRelay"
          /\ after' = IF m = "on" THEN "enable" ELSE "disable"
    /\ UNCHANGED <<unitVars, bindingVars, served>>

(* One command: it succeeds, or it fails with or without its effect.       *)
Command(at, Effect, changes, ok, ko) ==
    /\ pc = at
    /\ \/ Effect /\ pc' = ok
       \/ Effect /\ pc' = ko
       \/ UNCHANGED changes /\ pc' = ko
    /\ UNCHANGED callVars

Units(r, d, h) == relay' = r /\ dial' = d /\ held' = h

(* What ON does before anything of its own can have changed.               *)
StopRelay ==
    /\ Command("stopRelay", Units(FALSE, dial, held), unitVars,
               "startDial", "refused")
    /\ UNCHANGED <<bindingVars, served, left, after>>

StartDial ==
    /\ Command("startDial", Units(relay, TRUE, held), unitVars,
               "disableRelay", "refused")
    /\ UNCHANGED <<bindingVars, served, left, after>>

(* safeStop: disable --now of the relay, then the one-shot reset, which    *)
(* succeeds only when the dial answers and is seen to fall back.           *)
DisableRelay ==
    /\ Command("disableRelay", Units(FALSE, dial, held), unitVars,
               "reset", "stopDial")
    /\ UNCHANGED <<bindingVars, served, left, after>>

(* Mutant of Reset: a reset that fails is not fatal.                       *)
ResetIgnored ==
    /\ Command("reset", Units(relay, dial, FALSE), unitVars, after, after)
    /\ UNCHANGED <<bindingVars, served, left, after>>

Reset ==
    /\ IF dial THEN Command("reset", Units(relay, dial, FALSE), unitVars,
                            after, "stopDial")
       ELSE pc = "reset" /\ pc' = "stopDial" /\ UNCHANGED <<unitVars, callVars>>
    /\ UNCHANGED <<bindingVars, served, left, after>>

(* The fail-safe, which ends in an error either way.                       *)
StopDial ==
    /\ Command("stopDial", Units(FALSE, FALSE, FALSE), unitVars,
               IF after = "failed" THEN "unsafe" ELSE "failed", "unsafe")
    /\ UNCHANGED <<bindingVars, served, left, after>>

(* Mutant of Recover: the error is passed on at once.                      *)
RecoverNot == after' = after

(* ON fails after safeStop: stop safely once more, then pass the error on. *)
Recover == after' = IF pc' = "disableRelay" THEN "failed" ELSE after

(* ON: install and enable the membership of one receiver after another.    *)
Enable ==
    \E r \in left :
        /\ Command("enable", enabled' = enabled \cup {r}, enabled,
                   IF left = {r} THEN "apply" ELSE "enable", "disableRelay")
        /\ left' = left \ {r}
        /\ Recover
        /\ UNCHANGED <<unitVars, active, served>>

(* OFF: disable the memberships.                                           *)
Disable ==
    \E r \in left :
        /\ Command("disable", enabled' = enabled \ {r}, enabled,
                   IF left = {r} THEN "apply" ELSE "disable", "failed")
        /\ left' = left \ {r}
        /\ UNCHANGED <<unitVars, active, served, after>>

(* The operator's hook applies the receivers' configuration.               *)
Apply ==
    /\ Command("apply", active' = (active \ chosen) \cup (enabled \cap chosen),
               active,
               IF mode = "on" THEN "startRelay" ELSE "done",
               IF mode = "on" THEN "disableRelay" ELSE "failed")
    /\ Recover
    /\ UNCHANGED <<unitVars, enabled, served, left>>

(* Mutant of StartRelay: its failure is taken to mean it did not start.    *)
StartRelayUnrecovered ==
    /\ Command("startRelay", Units(TRUE, TRUE, held) /\ served' = chosen,
               <<unitVars, served>>, "done", "failed")
    /\ UNCHANGED <<bindingVars, left, after>>

StartRelay ==
    /\ Command("startRelay", Units(TRUE, TRUE, held) /\ served' = chosen,
               <<unitVars, served>>, "done", "disableRelay")
    /\ Recover
    /\ UNCHANGED <<bindingVars, left>>

Toggle ==
    \/ StopRelay \/ StartDial \/ DisableRelay \/ Reset \/ StopDial
    \/ Enable \/ Disable \/ Apply \/ StartRelay

(* A running relay moves the key.                                          *)
MoveKey ==
    /\ relay /\ dial
    /\ held' = ~held
    /\ UNCHANGED <<relay, dial, bindingVars, served, pc, callVars, left, after>>

(* The dial's Kanata dies; its relay keeps trying to reconnect.            *)
DialDies ==
    /\ dial
    /\ Units(relay, FALSE, FALSE)
    /\ UNCHANGED <<bindingVars, served, pc, callVars, left, after>>

(* The toggle is killed between two commands.                              *)
Kill ==
    /\ pc \notin Ended
    /\ pc' = "killed"
    /\ UNCHANGED <<unitVars, bindingVars, served, callVars, left, after>>

Next == Invoke \/ Toggle \/ MoveKey \/ DialDies \/ Kill

Spec == Init /\ [][Next]_vars

-----------------------------------------------------------------------------

(* Types; and a membership command always has a receiver left to serve.    *)
TypeOK ==
    /\ relay \in BOOLEAN /\ dial \in BOOLEAN /\ held \in BOOLEAN
    /\ enabled \subseteq Receivers /\ active \subseteq Receivers
    /\ served \subseteq Receivers /\ chosen \subseteq Receivers
    /\ left \subseteq chosen
    /\ mode \in {"on", "off"}
    /\ after \in {"enable", "disable", "failed"}
    /\ pc \in Ended \cup {"stopRelay", "startDial", "disableRelay", "reset",
                          "stopDial", "enable", "disable", "apply",
                          "startRelay"}
    /\ pc \in {"enable", "disable"} => left # {}

(* While the dial emits precision keys, or a relay may make it, every      *)
(* receiver that was turned on for them still has its bindings enabled:    *)
(* "retain F bindings" when a reset fails, whatever fails or is killed.    *)
KeyHasBindings == relay \/ held => served \subseteq enabled

(* "Never leave a possibly started/restarting relay after partial ON       *)
(* failure": an error that does not say it could not recover leaves no     *)
(* relay and no held key, in both modes.                                   *)
FailureIsSafe == pc = "failed" => ~relay /\ ~held

(* A finished ON has every chosen receiver enabled and applied before its  *)
(* relay could press the key; a finished OFF has no relay and no held key. *)
DoneMeansIt ==
    pc = "done" =>
        IF mode = "on" THEN chosen \subseteq enabled \cap active /\ relay
        ELSE ~relay /\ ~held /\ chosen \cap (enabled \cup active) = {}
=============================================================================
