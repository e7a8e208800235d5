---------------------------- MODULE MCMqttClient ----------------------------
(* Symmetry for the runs that check safety only: nothing orders the tokens. *)
EXTENDS MqttClient, TLC

TokenSymmetry == Permutations(Tokens)
==============================================================================
