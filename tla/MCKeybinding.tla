---------------------------- MODULE MCKeybinding ----------------------------
(* Instances of KeybindingBatch for TLC.                                   *)
EXTENDS KeybindingProperties, TLC

MCCommands == {<<"batch", "keys">>, <<"register", "keys">>,
               <<"host", "niri">>, <<"toggle", "niri">>}
MCOrder == [S \in SUBSET Receivers |->
              SelectSeq(<<"niri", "umbriel">>, LAMBDA m : m \in S)]
MCOptions == {[force |-> FALSE, explicit |-> FALSE],
              [force |-> TRUE, explicit |-> TRUE]}

(* A first registration with one receiver known, and an established one    *)
(* with a receiver kept disabled.                                          *)
Linked(slot) == [Nowhere EXCEPT ![slot] = "link"]
MCEstablished ==
    {[keys |-> Nowhere, niri |-> Nowhere, umbriel |-> Nowhere],
     [keys |-> Linked("active"), niri |-> Linked("active"),
      umbriel |-> Linked("disabled")]}
MCSymmetry == Permutations(Invocations)
=============================================================================
