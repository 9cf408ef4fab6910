---------------------------- MODULE MCCFGPairing ----------------------------
(* Callers are interchangeable, and so are the codes they draw.            *)
EXTENDS CFGPairing

Symmetry == Permutations(Pairs) \cup Permutations(Plain) \cup Permutations(Draws \ {STOP})
=============================================================================
