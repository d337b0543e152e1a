------------------------------ MODULE MCPanel ------------------------------
(* Instances of the panel for TLC: see panel_*.cfg.                        *)
EXTENDS Panel, TLC

Symmetry == Permutations(Reqs) \cup Permutations(Tokens)
=============================================================================
