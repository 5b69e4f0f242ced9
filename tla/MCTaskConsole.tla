--------------------------- MODULE MCTaskConsole ---------------------------
(* TaskConsole with interchangeable memory cells and consoles, for TLC.      *)
EXTENDS TaskConsole, TLC

Symmetry == Permutations(Cfgs) \cup Permutations(Runs) \cup Permutations(Consoles)
=============================================================================
