------------------------------ MODULE Channel -------------------------------
(***************************************************************************)
(* What a MsgCollector and the MsgDispatcher at the other end of its queue *)
(* promise together: messages are handled intact, in the order in which    *)
(* they were sent, and each once.                                          *)
(***************************************************************************)
EXTENDS Sequences, Naturals

CONSTANT Message

VARIABLES
    sent,       \* the messages that were sent
    received    \* the messages that the handler was called with

Init == sent = <<>> /\ received = <<>>

Send(m) == sent' = Append(sent, m) /\ UNCHANGED received

Receive ==
    /\ Len(received) < Len(sent)
    /\ received' = Append(received, sent[Len(received) + 1])
    /\ UNCHANGED sent

Next == (\E m \in Message : Send(m)) \/ Receive

Spec == Init /\ [][Next]_<<sent, received>>
=============================================================================
