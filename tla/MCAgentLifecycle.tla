-------------------------- MODULE MCAgentLifecycle --------------------------
(* Small instances of AgentLifecycle for TLC. *)
EXTENDS AgentLifecycle, TLC

CONSTANTS u1, u2

MCUsers == {u1, u2}
MCOneUser == {u1}
MCPlain == {}

Symmetry == Permutations(MCUsers)
=============================================================================
