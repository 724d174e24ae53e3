-------------------------- MODULE MCMessageRouter --------------------------
(* Instances of MessageRouter for TLC. *)
EXTENDS MessageRouter, TLC

CONSTANTS t1, h1, h2, g1, global

HandleSymmetry == Permutations({h1, h2})

\* Two handles that consume the same turn, and one that consumes the global
\* notifications.
SharedTurnAndGlobal == [h \in Handles |-> IF h = g1 THEN global ELSE t1]

\* Two events and the completion, or one event and the completion, of a turn;
\* the global queue gets nothing but the failure.
ThreeEvents == [ch \in Channels |-> IF ch \in Turns THEN 3 ELSE 0]
TwoEvents == [ch \in Channels |-> IF ch \in Turns THEN 2 ELSE 0]
=============================================================================
