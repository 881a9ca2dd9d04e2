-------------------------------- MODULE Fifo --------------------------------
(***************************************************************************)
(* What kevy-ring promises: a bounded first-in first-out channel.  `sent'  *)
(* is everything accepted from the producer, in order, and `rcvd' is       *)
(* everything handed to the consumer.  An item is handed over once, in the *)
(* order of acceptance, and at most Capacity items are under way.  A       *)
(* refused push and a pop of an empty ring change nothing.                 *)
(***************************************************************************)
EXTENDS Naturals, Sequences

CONSTANTS Item, Capacity

VARIABLES sent, rcvd

Init == sent = <<>> /\ rcvd = <<>>

Send(v) ==
    /\ Len(sent) < Len(rcvd) + Capacity
    /\ sent' = Append(sent, v)
    /\ UNCHANGED rcvd

Receive ==
    /\ Len(rcvd) < Len(sent)
    /\ rcvd' = Append(rcvd, sent[Len(rcvd) + 1])
    /\ UNCHANGED sent

Next == Receive \/ \E v \in Item : Send(v)

Spec == Init /\ [][Next]_<<sent, rcvd>>
=============================================================================
