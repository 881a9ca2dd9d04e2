----------------------------- MODULE Leadership -----------------------------
(***************************************************************************)
(* What an election service promises the servers that ask it who leads:    *)
(* terms that only rise at each node, at most one leader crowned in a      *)
(* term, and nobody following a node that was not crowned, or that was     *)
(* crowned in a term still to come.                                        *)
(***************************************************************************)
EXTENDS Naturals

CONSTANTS Node, None

VARIABLES
    term,       \* term[n]: the term node n is in
    crowned,    \* every leader so far, with its term
    follows     \* follows[n]: the node n takes for leader, or None

Followable(p, t, C) == p = None \/ \E x \in C : x.winner = p /\ x.epoch <= t

\* Any cluster that kept the promise so far.
Init ==
    /\ term \in [Node -> Nat]
    /\ \A x, y \in crowned : x.epoch = y.epoch => x.winner = y.winner
    /\ \A n \in Node : Followable(follows[n], term[n], crowned)

\* Node n is crowned in the term it enters or is in, or nobody is.
Crown(n) ==
    \/ UNCHANGED crowned
    \/ /\ \A x \in crowned : x.epoch # term'[n]
       /\ crowned' = crowned \cup {[epoch |-> term'[n], winner |-> n]}

\* One node moves on: the others neither change their term nor their leader.
Move(n) ==
    /\ term' = [term EXCEPT ![n] = term'[n]]
    /\ term'[n] \in Nat /\ term'[n] >= term[n]
    /\ Crown(n)
    /\ follows' = [follows EXCEPT ![n] = follows'[n]]
    /\ Followable(follows'[n], term'[n], crowned')

Next == \E n \in Node : Move(n)

Spec == Init /\ [][Next]_<<term, crowned, follows>>
=============================================================================
