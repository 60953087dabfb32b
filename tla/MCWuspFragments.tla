-------------------------- MODULE MCWuspFragments --------------------------
(* Instances of WuspFragments for TLC.  Sizes are scaled down: a datagram of *)
(* 8, a header of 4 and padding to 4 keep the relations of 1200, 23 and 16   *)
(* that matter: a full datagram is a multiple of the padding, and a chunk is *)
(* a few fragments away from a message.  Requests name a budget of 7,       *)
(* whose datagrams WireGuard pads; other messages are cut to the full 8.     *)
EXTENDS WuspFragments, TLC

Symmetry == Permutations(Peers)
=============================================================================
