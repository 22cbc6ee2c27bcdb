------------------------- MODULE OrderedImplementation -------------------------
(* The dispatch of OrderedEvents as an implementation of OrderedBroadcast. *)
EXTENDS OrderedEvents

\* A receiver of the front event has its turn: from the advance of nextReceiver
\* to the end of the task that notifies it, and on while the record is not IDLE.
turn ==
    /\ orderedEventQueue # <<>>
    /\ dpc \in {"notify", "sent", "failed", "check"} \/ state[Front] # IDLE

overdue == orderedEventQueue # <<>> /\ ForceReceive(Front)
ended == published - Len(orderedEventQueue)
told == ended - Len(removedRecords)

Broadcast == INSTANCE OrderedBroadcast WITH offered <- nextReceiver, aborted <- resultAbort

\* The dispatch keeps the promise of ordered events: whatever the two executors,
\* the timer, late answers, leaving and freezing subscribers do, a receiver is
\* notified only after the turn of the one before it is over and a publisher
\* is told only after its event is.
ImplementsBroadcast == Broadcast!Spec

=============================================================================
