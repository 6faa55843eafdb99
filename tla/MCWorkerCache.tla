--------------------------- MODULE MCWorkerCache ---------------------------
(* Two circuits that share a worker's cache.                               *)
EXTENDS WorkerCache, TLC

CONSTANTS p1, p2, w1, w2, i1, i2, i3

Symmetry == Permutations({i1, i2, i3}) \cup Permutations({w1, w2})
=============================================================================
