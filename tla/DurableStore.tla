---------------------------- MODULE DurableStore ----------------------------
(***************************************************************************)
(* What the persistence of a shard promises its clients: a sequence of     *)
(* writes, a prefix of it that is safe, and restarts that may forget       *)
(* unsafe writes from the end.                                             *)
(***************************************************************************)
EXTENDS Naturals

VARIABLES written, safe

Init == written \in Nat /\ safe = written

Write == written' = written + 1 /\ UNCHANGED safe

Secure == safe' \in safe .. written /\ UNCHANGED written

Restart == written' \in safe .. written /\ UNCHANGED safe

Next == Write \/ Secure \/ Restart

Spec == Init /\ [][Next]_<<written, safe>>

=============================================================================
