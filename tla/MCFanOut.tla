------------------------------ MODULE MCFanOut ------------------------------
(* Small instances of FanOut: threads and units are interchangeable. *)
EXTENDS FanOut, TLC

Symmetry == Permutations(Workers) \cup Permutations(Units)
=============================================================================
