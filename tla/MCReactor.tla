----------------------------- MODULE MCReactor -----------------------------
(* Instances of Reactor for TLC: connection blocks are interchangeable. *)
EXTENDS Reactor, TLC

Symmetry == Permutations(Conn)

(* What malloc leaves in the first slot: nothing, or anything. *)
Zeroed == {{}}
Anything == SUBSET {"R", "W"}
=============================================================================
