-------------------------- MODULE MCUnorderedEvents --------------------------
(* Small instances of UnorderedEvents for TLC. *)
EXTENDS UnorderedEvents, TLC

CONSTANTS a, b   \* subscriptions

\* One application with two processes.
OneUid == [x \in Subscriber |-> "u1"]
TwoPids == [x \in Subscriber |-> IF x = a THEN "p1" ELSE "p2"]
=============================================================================
