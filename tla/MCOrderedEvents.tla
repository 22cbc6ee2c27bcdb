--------------------------- MODULE MCOrderedEvents ---------------------------
(* Small instances of OrderedEvents for TLC. *)
EXTENDS OrderedImplementation, TLC

CONSTANTS a, b, c   \* subscriptions

\* a is served before b, c like b.
PriorityABC == [x \in Subscriber |-> IF x = a THEN 1 ELSE 0]

\* All that a step reads, and that NoLostWakeup and ImplementsBroadcast are
\* about: result and deliveryState are written only, and are left out.
DispatchView ==
    <<published, receivers, resultTo, state, nextReceiver, curReceiver, resultAbort,
      orderedEventQueue, taskVars, dispatcherVars, serviceVars, clientVars>>
=============================================================================
