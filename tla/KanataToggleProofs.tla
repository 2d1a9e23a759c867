-------------------------- MODULE KanataToggleProofs ------------------------
(***************************************************************************)
(* The toggle's invariants, for every set of receivers and any number of   *)
(* failures, kills and repetitions.  Each is inductive only together with  *)
(* what is known at each command: after safeStop neither a relay nor a     *)
(* held key is left, and memberships already changed stay changed.         *)
(***************************************************************************)
EXTENDS KanataToggle, TLAPS

Quiet == ~relay /\ ~held

(* What an invocation knows by the command it is at.                       *)
Knows ==
    /\ pc \in {"enable", "disable", "apply", "startRelay", "failed"} => Quiet
    /\ pc = "reset" => ~relay
    /\ pc \in {"stopRelay", "startDial", "enable", "startRelay"} => mode = "on"
    /\ pc = "disable" => mode = "off"
    /\ pc \in {"stopRelay", "startDial", "disableRelay", "reset"} =>
          /\ after \in {"enable", "failed"} => mode = "on"
          /\ after = "disable" => mode = "off"
          /\ after # "failed" => left = chosen /\ chosen # {}
    /\ pc \in {"stopRelay", "startDial"} => after # "failed"
    /\ pc = "enable" => chosen \ left \subseteq enabled
    /\ pc = "disable" => (chosen \ left) \cap enabled = {}
    /\ pc = "apply" => IF mode = "on" THEN chosen \subseteq enabled
                       ELSE chosen \cap enabled = {}
    /\ pc = "startRelay" => chosen \subseteq enabled \cap active

IInv == TypeOK /\ Knows /\ KeyHasBindings /\ DoneMeansIt

LEMMA InitIInv == Init => IInv
  BY DEF Init, IInv, TypeOK, Knows, KeyHasBindings, DoneMeansIt, Quiet, Ended

(* The commands on units keep the invariant.                               *)
LEMMA UnitsKeep ==
  ASSUME IInv, StopRelay \/ StartDial \/ DisableRelay \/ Reset \/ StopDial
  PROVE  IInv'
<1> USE DEF IInv, TypeOK, Knows, KeyHasBindings, DoneMeansIt, Quiet, Ended,
            Command, Units, unitVars, bindingVars, callVars
<1>1. CASE StopRelay
  <2>1. TypeOK'
    BY <1>1 DEF StopRelay
  <2>2. Knows'
    BY <1>1 DEF StopRelay
  <2>3. KeyHasBindings'
    BY <1>1 DEF StopRelay
  <2>4. DoneMeansIt'
    BY <1>1 DEF StopRelay
  <2> QED
    BY <2>1, <2>2, <2>3, <2>4
<1>2. CASE StartDial
  <2>1. TypeOK'
    BY <1>2 DEF StartDial
  <2>2. Knows'
    BY <1>2 DEF StartDial
  <2>3. KeyHasBindings'
    BY <1>2 DEF StartDial
  <2>4. DoneMeansIt'
    BY <1>2 DEF StartDial
  <2> QED
    BY <2>1, <2>2, <2>3, <2>4
<1>3. CASE DisableRelay
  <2>1. TypeOK'
    BY <1>3 DEF DisableRelay
  <2>2. Knows'
    BY <1>3 DEF DisableRelay
  <2>3. KeyHasBindings'
    BY <1>3 DEF DisableRelay
  <2>4. DoneMeansIt'
    BY <1>3 DEF DisableRelay
  <2> QED
    BY <2>1, <2>2, <2>3, <2>4
<1>4. CASE Reset
  BY <1>4 DEF Reset
<1>5. CASE StopDial
  <2>1. TypeOK'
    BY <1>5 DEF StopDial
  <2>2. Knows'
    BY <1>5 DEF StopDial
  <2>3. KeyHasBindings'
    BY <1>5 DEF StopDial
  <2>4. DoneMeansIt'
    BY <1>5 DEF StopDial
  <2> QED
    BY <2>1, <2>2, <2>3, <2>4
<1> QED
  BY <1>1, <1>2, <1>3, <1>4, <1>5

(* So do those on bindings, and the start of the relay.                    *)
LEMMA BindingsKeep ==
  ASSUME IInv, Enable \/ Disable \/ Apply \/ StartRelay
  PROVE  IInv'
<1> USE DEF IInv, TypeOK, Knows, KeyHasBindings, DoneMeansIt, Quiet, Ended,
            Command, Units, unitVars, bindingVars, callVars, Recover
<1>1. CASE Enable
  BY <1>1 DEF Enable
<1>2. CASE Disable
  BY <1>2 DEF Disable
<1>3. CASE Apply
  BY <1>3 DEF Apply
<1>4. CASE StartRelay
  <2>1. TypeOK'
    BY <1>4 DEF StartRelay
  <2>2. Knows'
    BY <1>4 DEF StartRelay
  <2>3. KeyHasBindings'
    BY <1>4 DEF StartRelay
  <2>4. DoneMeansIt'
    BY <1>4 DEF StartRelay
  <2> QED
    BY <2>1, <2>2, <2>3, <2>4
<1> QED
  BY <1>1, <1>2, <1>3, <1>4

(* And what happens around an invocation.                                  *)
LEMMA AroundKeeps ==
  ASSUME IInv, Invoke \/ MoveKey \/ DialDies \/ Kill \/ UNCHANGED vars
  PROVE  IInv'
<1> USE DEF IInv, TypeOK, Knows, KeyHasBindings, DoneMeansIt, Quiet, Ended,
            Units, unitVars, bindingVars, callVars
<1>1. CASE Invoke
  BY <1>1 DEF Invoke
<1>2. CASE MoveKey
  BY <1>2 DEF MoveKey
<1>3. CASE DialDies
  BY <1>3, ZenonT(60) DEF DialDies
<1>4. CASE Kill
  BY <1>4 DEF Kill
<1>5. CASE UNCHANGED vars
  BY <1>5 DEF vars
<1> QED
  BY <1>1, <1>2, <1>3, <1>4, <1>5

LEMMA ToggleInductive == Spec => []IInv
<1>1. IInv /\ [Next]_vars => IInv'
  BY UnitsKeep, BindingsKeep, AroundKeeps DEF Next, Toggle
<1> QED
  BY InitIInv, <1>1, PTL DEF Spec

(* Types of every variable, for any set of receivers.                      *)
THEOREM ToggleTypeCorrect == Spec => []TypeOK
  BY ToggleInductive, PTL DEF IInv

(* The key is never held, nor a relay left that may hold it, while a       *)
(* receiver it was turned on for has its bindings disabled.                *)
THEOREM BindingsRetained == Spec => []KeyHasBindings
  BY ToggleInductive, PTL DEF IInv

(* An error other than a failed recovery leaves no relay and no held key.  *)
THEOREM FailuresAreSafe == Spec => []FailureIsSafe
<1>1. IInv => FailureIsSafe
  BY DEF IInv, Knows, Quiet, FailureIsSafe
<1> QED
  BY ToggleInductive, <1>1, PTL

(* A toggle that reports success has done what its mode says.              *)
THEOREM SuccessIsComplete == Spec => []DoneMeansIt
  BY ToggleInductive, PTL DEF IInv
=============================================================================
