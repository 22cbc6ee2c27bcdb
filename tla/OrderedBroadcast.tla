--------------------------- MODULE OrderedBroadcast ---------------------------
(***************************************************************************)
(* What ordered dispatch promises, without queues, tasks, locks or timers: *)
(* the events are worked off in the order of their publication, each of    *)
(* them by its receivers in order of priority, one at a time, and each     *)
(* publisher is told the end of its event once, in the same order.         *)
(*                                                                         *)
(* A receiver's turn may end for any reason: it answers, leaves, is frozen *)
(* or cannot be reached, or its time is up.  An event is over when its     *)
(* last receiver's turn is, or between two turns when it is aborted, or    *)
(* when it is overdue; an event with receivers is offered to the first of  *)
(* them in any case.  An answer may come late: an abort that arrives       *)
(* between two turns need not keep the next one from starting.             *)
(***************************************************************************)
EXTENDS Integers, Sequences, FiniteSets

CONSTANTS
    Subscriber, Priority,
    MaxRecords     \* bound: events published in a behaviour

VARIABLES
    published,     \* how many events were published
    receivers,     \* their receivers, in the order of their turns
    offered,       \* to how many of them the event was offered
    turn,          \* a receiver of the current event has its turn
    aborted,       \* the last answer aborts the event
    overdue,       \* the current event has taken too long as a whole
    ended,         \* how many events are over
    told           \* how many publishers have been told

vars == <<published, receivers, offered, turn, aborted, overdue, ended, told>>

Record == 1..MaxRecords

\* The event being worked off, if there is one.
Current == ended + 1

Orders ==
    UNION {{s \in [1..Cardinality(S) -> S] :
              \A i, j \in 1..Cardinality(S) : i < j => s[i] # s[j] /\ Priority[s[i]] >= Priority[s[j]]} :
           S \in SUBSET Subscriber}

Init ==
    /\ published = 0
    /\ receivers = [r \in Record |-> <<>>]
    /\ offered = [r \in Record |-> 0]
    /\ turn = FALSE
    /\ aborted = [r \in Record |-> FALSE]
    /\ overdue = FALSE
    /\ ended = 0
    /\ told = 0

Publish ==
    /\ published < MaxRecords
    /\ published' = published + 1
    /\ \E order \in Orders : receivers' = [receivers EXCEPT ![published + 1] = order]
    /\ UNCHANGED <<offered, turn, aborted, overdue, ended, told>>

Offer ==
    /\ ended < published
    /\ ~turn
    /\ offered[Current] < Len(receivers[Current])
    /\ offered' = [offered EXCEPT ![Current] = @ + 1]
    /\ turn' = TRUE
    /\ UNCHANGED <<published, receivers, aborted, overdue, ended, told>>

EndTurn ==
    /\ turn
    /\ turn' = FALSE
    /\ UNCHANGED <<published, receivers, offered, aborted, overdue, ended, told>>

\* An answer counts for an event that was offered to somebody.
Answer(r, abort) ==
    /\ offered[r] > 0
    /\ aborted' = [aborted EXCEPT ![r] = abort]
    /\ UNCHANGED <<published, receivers, offered, turn, overdue, ended, told>>

GetOverdue ==
    /\ ended < published
    /\ offered[Current] > 0
    /\ overdue' = TRUE
    /\ UNCHANGED <<published, receivers, offered, turn, aborted, ended, told>>

End ==
    /\ ended < published
    /\ \/ ~turn /\ (offered[Current] = Len(receivers[Current]) \/ aborted[Current])
       \/ overdue
    /\ ended' = ended + 1
    /\ turn' = FALSE
    /\ overdue' = FALSE
    /\ UNCHANGED <<published, receivers, offered, aborted, told>>

Tell ==
    /\ told < ended
    /\ told' = told + 1
    /\ UNCHANGED <<published, receivers, offered, turn, aborted, overdue, ended>>

Next ==
    \/ Publish
    \/ Offer
    \/ EndTurn
    \/ \E r \in Record, abort \in BOOLEAN : Answer(r, abort)
    \/ GetOverdue
    \/ End
    \/ Tell

Spec == Init /\ [][Next]_vars

=============================================================================
