----------------------------- MODULE MCUspCache -----------------------------
(* Instances of UspCache for TLC.  Callers are interchangeable, and so are    *)
(* the goroutines of refreshAsync; liveness is checked without symmetry.      *)
EXTENDS UspCache, TLC

Symmetry == Permutations(Callers) \cup Permutations(Sweepers)
=============================================================================
