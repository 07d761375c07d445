----------------------------- MODULE MessagePipe -----------------------------
(***************************************************************************)
(* What either side of the plugin's standard input and output relies on: a *)
(* pipe of whole messages, received once each and in the order they were   *)
(* sent.  FramedPipe implements it with bytes.                             *)
(***************************************************************************)
EXTENDS Naturals, Sequences

CONSTANT Text

VARIABLES
    sent,       \* the messages that were sent
    received    \* and those of them that were received

Init == sent = <<>> /\ received = <<>>

Send == \E text \in Text : sent' = Append(sent, text) /\ UNCHANGED received

Receive ==
    /\ Len(received) < Len(sent)
    /\ received' = Append(received, sent[Len(received) + 1])
    /\ UNCHANGED sent

Next == Send \/ Receive

Spec == Init /\ [][Next]_<<sent, received>>
=============================================================================
