----------------------------- MODULE MCMinHeap -----------------------------
(* Instances of MinHeap for TLC: the nodes are interchangeable. *)
EXTENDS MinHeap, TLC

Symmetry == Permutations(Node)
=============================================================================
