-------------------------------- MODULE MCAuth --------------------------------
(* Instances of Auth for TLC.                                              *)
EXTENDS Auth, TLC

(* Tokens, workers and device ids are only compared.                       *)
Interchangeable ==
  Permutations(Tokens) \cup Permutations(Workers) \cup Permutations(DeviceIds)
=============================================================================
