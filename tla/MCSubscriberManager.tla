------------------------- MODULE MCSubscriberManager -------------------------
(* Small instances of SubscriberManager for TLC. *)
EXTENDS SubscriberManager, TLC

CONSTANTS
    l1, l2, l3,  \* listeners
    p, q,        \* processes
    e1, e2       \* event names

\* p has two listeners and q one.
PidOf == [l \in Listener |-> IF l = l3 THEN q ELSE p]
==============================================================================
