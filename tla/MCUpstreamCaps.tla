--------------------------- MODULE MCUpstreamCaps ---------------------------
(* UpstreamCaps with two relays, the probe and an upstream that changes. *)
EXTENDS UpstreamCaps

CONSTANTS r1, r2

\* Two answers that differ in everything; 0 is "no fixed maximum".
MCAnswers == {[dsn |-> FALSE, size |-> "0"], [dsn |-> TRUE, size |-> "1"]}
=============================================================================
