---------------------------- MODULE MCBenchClient ----------------------------
(* Instances of BenchClient for TLC. *)
EXTENDS BenchClient

Every == {"short", "keep", "udp"}
=============================================================================
