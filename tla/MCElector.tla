----------------------------- MODULE MCElector -----------------------------
(***************************************************************************)
(* Three-node instances of Elector for TLC.  Heartbeats are what makes the *)
(* state space large, so each instance says on which links they get        *)
(* through; OFFER, ACCEPT and ANNOUNCE travel on every link.               *)
(***************************************************************************)
EXTENDS Elector

TwoWayLinks == {<<1, 2>>, <<2, 1>>}
Link13 == {<<1, 3>>}

NoReports == {}
Node3Advances == {<<3, 1>>}

\* A cluster that node 2 leads since epoch e, with the votes of all: the
\* state Spec reaches once every ANNOUNCE has been received.
Led(e) == [role |-> "replica", epoch |-> e, currentPrimary |-> 2, lastAccept |-> e,
           votes |-> {}, offset |-> 0, view |-> [p \in Node |-> None],
           saved |-> [epoch |-> e, votedFor |-> 2]]

LedSince(e) ==
    /\ node = [n \in Node |->
                 IF n = 2 THEN [Led(e) EXCEPT !.role = "primary", !.lastAccept = 0]
                 ELSE [Led(e) EXCEPT !.view[2] = 0]]
    /\ net = {}
    /\ granted = [epoch : {e}, voter : Node, candidate : {2}]
    /\ elected = {[epoch |-> e, winner |-> 2]}

\* From a first boot, and from a cluster that has a primary: one bound on the
\* epoch then covers the first election and the takeover after it.
BootOrLedSpec == (Init \/ LedSince(1)) /\ [][Next]_vars

LedFairSpec == LedSince(2) /\ [][Next]_vars /\ Fairness
=============================================================================
