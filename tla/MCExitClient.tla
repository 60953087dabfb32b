---------------------------- MODULE MCExitClient ----------------------------
(* Instances of ExitClient for TLC: two addresses and two keys, so that a call *)
(* switches exits and an address changes hands; two gateways, so that the      *)
(* endpoints are pinned again.                                                 *)
EXTENDS ExitClient, TLC

Symmetry == Permutations(Keys) \cup Permutations(Addrs) \cup Permutations(Gateways)
=============================================================================
