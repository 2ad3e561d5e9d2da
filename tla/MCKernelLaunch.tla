--------------------------- MODULE MCKernelLaunch ---------------------------
(***************************************************************************)
(* Two ops for TLC, of which the builder of the second yields no graph.    *)
(***************************************************************************)
EXTENDS KernelLaunch, TLC

CONSTANTS a, b, good, bad

Derive == [op \in {a, b} |-> IF op = a THEN good ELSE bad]
Symmetry == Permutations(Threads) \cup Permutations(Graphs)

=============================================================================
