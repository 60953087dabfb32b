---------------------------- MODULE MCExitShare ----------------------------
(* Instances of ExitShare for TLC: two uplinks, so that the default route can *)
(* move, and one or two callers of SetExitOffer.  The configurations differ   *)
(* in what happens to the daemon: nothing, Disconnect and Connect, Agent.Stop, *)
(* or crashes.                                                                *)
EXTENDS ExitShare
=============================================================================
