---------------------------- MODULE MCConnection ----------------------------
(* Instances of Connection for TLC. *)
EXTENDS Connection

P(kind, len) == [kind |-> kind, len |-> len]

(* Packets of every kind, shorter and longer than the buffers. *)
EveryKind == {P("echo", 4), P("echo", 9), P("test", 5), P("test", 8),
              P("other", 9), P("badEot", 4), P("badHead", 4)}

Tests == {P("test", 4), P("test", 5)}

(* A packet whose reply makes the send buffer grow. *)
LongTest == {P("test", 8)}
=============================================================================
