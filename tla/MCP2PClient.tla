---------------------------- MODULE MCP2PClient ----------------------------
(* Instances of P2PClient for TLC. *)
EXTENDS P2PClient, TLC

CONSTANTS i1, i2, k1, k2

\* The coordinator keeps one ID per device for good; its lists carry the key.
Stable == {<<i1, k1>>, <<i1, NoKey>>}
StableLists == {<<i1, k1>>}

\* It restarts and hands out IDs again in any way, one of them with its own key.
Recycling == ({i1, i2} \X {k1, k2}) \cup {<<i1, ServerKey>>}

\* A relay, and an entry of a peer list, may come without a key.
Keyless == Recycling \cup {<<i1, NoKey>>}

Symmetry == Permutations(Workers) \cup Permutations(Nonces)
SymmetryKeys == Permutations({k1, k2})
=============================================================================
