----------------------------- MODULE MCServerLog -----------------------------
(* Instances of ServerLog for TLC. *)
EXTENDS ServerLog
=============================================================================
