--------------------------- MODULE MCStableNodes ---------------------------
(* Constants of the model-checking runs of StableNodes.                    *)
EXTENDS StableNodes, TLC

CONSTANTS i1, i2, k1, k2, p1, p2, r1, r2, t1

Symmetry == Permutations(AttIds) \cup Permutations(Tasks) \cup Permutations(Ports)
              \cup Permutations(Raws)
============================================================================
