----------------------------- MODULE MCGatewayScan -----------------------------
(* Small instances of GatewayScan for TLC. *)
EXTENDS GatewayScan, TLC

Symmetry == Permutations(ImageArts) \cup Permutations(Requests)
===============================================================================
