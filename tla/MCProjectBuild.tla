--------------------------- MODULE MCProjectBuild ---------------------------
(* Two kinds of configuration, interchangeable, and three counters.        *)
EXTENDS ProjectBuild, TLC

Symmetry == Permutations(Kind)
=============================================================================
