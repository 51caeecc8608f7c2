---------------------------- MODULE BoundedQueue ----------------------------
(***************************************************************************)
(* What a message queue promises: a message is accepted when there is room *)
(* and refused only when there is none, and the accepted ones are received *)
(* once each, in order.                                                    *)
(***************************************************************************)
EXTENDS Sequences, Naturals

CONSTANTS Message, NoMessage, Capacity

VARIABLES
    queue,     \* the accepted messages
    received,  \* the last message that was taken
    refused    \* the last message that was refused

vars == <<queue, received, refused>>

Init ==
    /\ queue = <<>>
    /\ received = NoMessage
    /\ refused = NoMessage

Accept(m) ==
    /\ Len(queue) < Capacity
    /\ queue' = Append(queue, m)
    /\ UNCHANGED <<received, refused>>

Refuse(m) ==
    /\ Len(queue) = Capacity
    /\ refused' = m
    /\ UNCHANGED <<queue, received>>

Receive ==
    /\ queue # <<>>
    /\ received' = Head(queue)
    /\ queue' = Tail(queue)
    /\ UNCHANGED refused

Next ==
    \/ \E m \in Message : Accept(m) \/ Refuse(m)
    \/ Receive

Spec == Init /\ [][Next]_vars
=============================================================================
