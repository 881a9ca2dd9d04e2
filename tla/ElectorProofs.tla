--------------------------- MODULE ElectorProofs ---------------------------
(***************************************************************************)
(* Proofs about Elector for any number of nodes, epochs and heartbeats:    *)
(* the inductive invariant IndInv and, from it, election safety.           *)
(*                                                                         *)
(* A pump is on_message followed by tick, so the argument goes through the *)
(* state s1 between the two.  There a tally may have reached the quorum,   *)
(* which IndInv excludes between pumps: Unsettled is what holds of s1,     *)
(* Settled is what holds of a node's state once tick has run.              *)
(***************************************************************************)
EXTENDS Elector, FiniteSetTheorems, TLAPS

Ballot(e, v, c) == [epoch |-> e, voter |-> v, candidate |-> c]

VotersIn(g, e, c) == {v \in Node : Ballot(e, v, c) \in g}

Won(p, e, el) == \E x \in el : x.winner = p /\ x.epoch <= e

Fresh(n, s, g) == s.votes \subseteq VotersIn(g, s.epoch, n)

Stale(n, s, g) ==
    /\ Cardinality(s.votes) < QuorumSize
    /\ \E c \in Peers(n) : Ballot(s.epoch, n, c) \in g

Sane(n, s, el) ==
    /\ s \in ElectorState
    /\ s.epoch = IF s.saved.epoch > 1 THEN s.saved.epoch ELSE 1
    /\ s.role = "primary" => Won(n, s.epoch, el)
    /\ s.currentPrimary # None => Won(s.currentPrimary, s.epoch, el)

Unsettled(n, s, g, el) ==
    /\ Sane(n, s, el)
    /\ s.role = "candidate" => Fresh(n, s, g) \/ Stale(n, s, g)

Settled(n, s, g, el) ==
    /\ Sane(n, s, el)
    /\ s.role = "candidate" =>
         /\ Cardinality(s.votes) < QuorumSize
         /\ Fresh(n, s, g) \/ Stale(n, s, g)

VotesOK(nd, g) ==
    /\ g \subseteq Vote
    /\ \A x, y \in g : x.epoch = y.epoch /\ x.voter = y.voter => x.candidate = y.candidate
    /\ \A v \in g : /\ v.epoch <= nd[v.voter].epoch
                    /\ Ballot(v.epoch, v.candidate, v.candidate) \in g

MsgOK(m, nd, g, el) ==
    /\ m.from # m.to
    /\ m.epoch <= nd[m.from].epoch
    /\ m.type = "offer" => Ballot(m.epoch, m.from, m.from) \in g
    /\ m.type = "accept" => Ballot(m.epoch, m.from, m.to) \in g
    /\ m.type = "announce" => [epoch |-> m.epoch, winner |-> m.from] \in el
    /\ m.type = "hb" /\ m.role = "primary" => Won(m.from, m.epoch, el)

MsgsOK(nd, ms, g, el) ==
    /\ ms \subseteq Message
    /\ \A m \in ms : MsgOK(m, nd, g, el)

WinsOK(g, el) ==
    /\ el \subseteq Victory
    /\ \A x \in el : Majority(VotersIn(g, x.epoch, x.winner))

-----------------------------------------------------------------------------

LEMMA CardinalityNode == Cardinality(Node) \in Nat
BY NodeAssumption, FS_CardinalityType

\* A quorum as the code computes it is a strict majority of the cluster.
LEMMA QuorumIsMajority ==
    ASSUME NEW S, S \subseteq Node, Cardinality(S) >= QuorumSize
    PROVE  Majority(S)
<1>1. IsFiniteSet(S)
  BY NodeAssumption, FS_Subset, Zenon
<1>2. Cardinality(S) \in Nat
  BY <1>1, FS_CardinalityType
<1>. QED  BY <1>2, CardinalityNode DEF QuorumSize, Majority

\* A set of nodes that includes a majority is one.
LEMMA MajorityGrows ==
    ASSUME NEW S, NEW T, S \subseteq T, T \subseteq Node, Majority(S)
    PROVE  Majority(T)
<1>1. IsFiniteSet(T) /\ IsFiniteSet(S) /\ Cardinality(S) <= Cardinality(T)
  BY NodeAssumption, FS_Subset, Zenon
<1>2. Cardinality(S) \in Nat /\ Cardinality(T) \in Nat
  BY <1>1, FS_CardinalityType
<1>. QED  BY <1>1, <1>2, CardinalityNode DEF Majority

\* IndInv over the parameters that the steps of a pump change.
LEMMA IndInvRestated ==
    IndInv <=> /\ node \in [Node -> ElectorState]
               /\ \A p \in Node : Settled(p, node[p], granted, elected)
               /\ VotesOK(node, granted)
               /\ MsgsOK(node, net, granted, elected)
               /\ WinsOK(granted, elected)
BY Zenon DEF IndInv, TypeOK, SavedIsEpoch, MsgInv, VoteOnce, VoteInv, TallyInv,
       ElectedByMajority, KnownPrimaryWasElected, Settled, Sane, Fresh, Stale,
       VotesOK, MsgOK, MsgsOK, WinsOK, Won, WonBy, Voters, VotersIn, Ballot

LEMMA IndInvNextRestated ==
    IndInv' <=> /\ node' \in [Node -> ElectorState]
                /\ \A p \in Node : Settled(p, node'[p], granted', elected')
                /\ VotesOK(node', granted')
                /\ MsgsOK(node', net', granted', elected')
                /\ WinsOK(granted', elected')
BY Zenon DEF IndInv, TypeOK, SavedIsEpoch, MsgInv, VoteOnce, VoteInv, TallyInv,
       ElectedByMajority, KnownPrimaryWasElected, Settled, Sane, Fresh, Stale,
       VotesOK, MsgOK, MsgsOK, WinsOK, Won, WonBy, Voters, VotersIn, Ballot

-----------------------------------------------------------------------------
(* What more votes and victories, and a later epoch of one node, preserve *)

LEMMA SettledGrows ==
    ASSUME NEW p \in Node, NEW s, NEW g, NEW g2, NEW el, NEW el2,
           g \subseteq g2, el \subseteq el2, Settled(p, s, g, el)
    PROVE  Settled(p, s, g2, el2)
BY DEF Settled, Sane, Fresh, Stale, Won, VotersIn

LEMMA MsgsGrow ==
    ASSUME NEW nd, NEW nd2, NEW ms, NEW g, NEW g2, NEW el, NEW el2,
           g \subseteq g2, el \subseteq el2, MsgsOK(nd, ms, g, el),
           nd \in [Node -> ElectorState], nd2 \in [Node -> ElectorState],
           \A p \in Node : nd[p].epoch <= nd2[p].epoch
    PROVE  MsgsOK(nd2, ms, g2, el2)
<1>. SUFFICES ASSUME NEW m \in ms
              PROVE  MsgOK(m, nd2, g2, el2)
  BY DEF MsgsOK
<1>1. m \in Message /\ MsgOK(m, nd, g, el)
  BY DEF MsgsOK
<1>2. m.from \in Node /\ m.epoch \in Int
  BY <1>1, BoundAssumption DEF Message, Hb, Offer, Accept, Announce, Epoch
<1>3. nd[m.from].epoch \in Int /\ nd2[m.from].epoch \in Int
  BY <1>2, BoundAssumption DEF ElectorState, Epoch
<1>4. m.epoch <= nd2[m.from].epoch
  BY <1>1, <1>2, <1>3 DEF MsgOK
<1>. QED  BY <1>1, <1>4 DEF MsgOK, Won

LEMMA WinsGrow ==
    ASSUME NEW g, NEW g2, NEW el, g \subseteq g2, WinsOK(g, el)
    PROVE  WinsOK(g2, el)
<1>. SUFFICES ASSUME NEW x \in el
              PROVE  Majority(VotersIn(g2, x.epoch, x.winner))
  BY DEF WinsOK
<1>1. Majority(VotersIn(g, x.epoch, x.winner))
  BY DEF WinsOK
<1>2. VotersIn(g, x.epoch, x.winner) \subseteq VotersIn(g2, x.epoch, x.winner)
  BY DEF VotersIn
<1>3. VotersIn(g2, x.epoch, x.winner) \subseteq Node
  BY DEF VotersIn
<1>. QED  BY <1>1, <1>2, <1>3, MajorityGrows

\* A vote for c in an epoch newer than the voter's: it cannot be a second
\* vote, since no vote is ahead of its voter.
LEMMA CastVote ==
    ASSUME NEW nd \in [Node -> ElectorState], NEW nd2 \in [Node -> ElectorState],
           NEW g, VotesOK(nd, g), NEW n \in Node, NEW c \in Node, NEW e \in Epoch,
           nd[n].epoch < e, nd2[n].epoch >= e,
           \A p \in Node : nd[p].epoch <= nd2[p].epoch,
           c # n => Ballot(e, c, c) \in g
    PROVE  VotesOK(nd2, g \cup {Ballot(e, n, c)})
<1>. DEFINE b == Ballot(e, n, c)
            g2 == g \cup {b}
<1>1. b \in Vote /\ b.epoch = e /\ b.voter = n /\ b.candidate = c
  BY DEF Ballot, Vote
<1>2. g \subseteq Vote
  BY DEF VotesOK
<1>3. \A p \in Node : nd[p].epoch \in Int /\ nd2[p].epoch \in Int
  BY BoundAssumption DEF ElectorState, Epoch
<1>4. e \in Int /\ \A v \in Vote : v.epoch \in Int /\ v.voter \in Node
  BY BoundAssumption DEF Vote, Epoch
<1>5. \A v \in g : v.epoch <= nd[v.voter].epoch
  BY DEF VotesOK
<1>6. \A v \in g : v.voter = n => v.epoch # e
  BY <1>2, <1>3, <1>4, <1>5
<1>7. \A x, y \in g2 : x.epoch = y.epoch /\ x.voter = y.voter => x.candidate = y.candidate
  BY <1>1, <1>6 DEF VotesOK
<1>8. \A v \in g2 : v.epoch <= nd2[v.voter].epoch
  <2>1. \A v \in g : v.epoch <= nd2[v.voter].epoch
    BY <1>2, <1>3, <1>4, <1>5
  <2>. QED  BY <1>1, <1>3, <1>4, <2>1
<1>9. \A v \in g2 : Ballot(v.epoch, v.candidate, v.candidate) \in g2
  BY <1>1 DEF VotesOK
<1>. QED  BY <1>1, <1>2, <1>7, <1>8, <1>9 DEF VotesOK
-----------------------------------------------------------------------------
(* The tick path *)

LEMMA StartUnsettled ==
    ASSUME NEW n \in Node, NEW s, NEW g, NEW el, NEW late \in BOOLEAN,
           Unsettled(n, s, g, el), el \subseteq Victory,
           ElectionPreconditionsMet(n, s, late)
    PROVE  LET s2 == MaybeStartElection(n, s, late)
           IN  /\ s2.epoch = s.epoch + 1 /\ s2.epoch \in Epoch
               /\ Unsettled(n, s2, g \cup {Ballot(s2.epoch, n, n)}, el)
<1>. DEFINE s2 == MaybeStartElection(n, s, late)
<1>0. s \in ElectorState /\ s.epoch \in Epoch /\ s.epoch \in Int
  BY BoundAssumption DEF Unsettled, Sane, ElectorState, Epoch
<1>1. /\ s2.epoch = s.epoch + 1 /\ s2.role = "candidate" /\ s2.votes = {n}
      /\ s2.currentPrimary = s.currentPrimary
      /\ s2.saved = [epoch |-> s.epoch + 1, votedFor |-> n]
  BY <1>0 DEF MaybeStartElection, Save, ElectorState
<1>2. s2.epoch \in Epoch
  <2>1. s.epoch < MaxEpoch
    BY DEF ElectionPreconditionsMet
  <2>. QED  BY <1>0, <1>1, <2>1, BoundAssumption DEF Epoch
<1>3. s2 \in ElectorState
  <2>1. s2 = [s EXCEPT !.saved = [epoch |-> s.epoch + 1, votedFor |-> n],
                       !.epoch = s.epoch + 1, !.role = "candidate", !.votes = {n}]
    BY <1>0 DEF MaybeStartElection, Save
  <2>2. [epoch |-> s.epoch + 1, votedFor |-> n] \in SavedPair
    BY <1>1, <1>2, BoundAssumption DEF SavedPair, Epoch
  <2>3. s.epoch + 1 \in Epoch /\ "candidate" \in Role /\ {n} \in SUBSET Node
    BY <1>1, <1>2 DEF Role
  <2>. QED  BY <1>0, <2>1, <2>2, <2>3, Zenon DEF ElectorState
<1>4. s2.currentPrimary # None => Won(s2.currentPrimary, s2.epoch, el)
  <2>1. s.currentPrimary # None => Won(s.currentPrimary, s.epoch, el)
    BY DEF Unsettled, Sane
  <2>2. \A x \in el : x.epoch \in Int
    BY BoundAssumption DEF Victory, Epoch
  <2>. QED  BY <1>0, <1>1, <2>1, <2>2 DEF Won
<1>5. s2.epoch = IF s2.saved.epoch > 1 THEN s2.saved.epoch ELSE 1
  BY <1>0, <1>1, BoundAssumption DEF ElectorState, Epoch
<1>6. Fresh(n, s2, g \cup {Ballot(s2.epoch, n, n)})
  BY <1>1 DEF Fresh, VotersIn
<1>. QED  BY <1>1, <1>2, <1>3, <1>4, <1>5, <1>6 DEF Unsettled, Sane

\* After maybe_finish_candidacy no tally is at the quorum, and a winner was
\* voted in by a majority: a stale tally is below the quorum, so the tally of
\* a winner is of the current epoch.
LEMMA FinishSettles ==
    ASSUME NEW n \in Node, NEW s, NEW g, NEW el, NEW late \in BOOLEAN,
           Unsettled(n, s, g, el), el \subseteq Victory
    PROVE  LET s2 == MaybeFinishCandidacy(n, s, late)
               el2 == el \cup IF Wins(s) THEN {[epoch |-> s.epoch, winner |-> n]} ELSE {}
           IN  /\ s2.epoch = s.epoch
               /\ Settled(n, s2, g, el2)
               /\ Wins(s) => Majority(VotersIn(g, s.epoch, n))
<1>. DEFINE s2 == MaybeFinishCandidacy(n, s, late)
            el2 == el \cup IF Wins(s) THEN {[epoch |-> s.epoch, winner |-> n]} ELSE {}
<1>1. s \in ElectorState /\ s.epoch \in Int
  BY BoundAssumption DEF Unsettled, Sane, ElectorState, Epoch
<1>2. s2 \in ElectorState /\ s2.epoch = s.epoch /\ s2.saved = s.saved
  BY <1>1, Zenon DEF MaybeFinishCandidacy, ElectorState, Role
<1>3. IsFiniteSet(s.votes) /\ Cardinality(s.votes) \in Nat
  BY <1>1, NodeAssumption, FS_Subset, FS_CardinalityType DEF ElectorState
<1>4. CASE Wins(s)
  <2>1. s2.role = "primary" /\ s2.currentPrimary = n
    BY <1>1, <1>4 DEF MaybeFinishCandidacy, ElectorState
  <2>2. Won(n, s2.epoch, el2)
    <3>1. [epoch |-> s.epoch, winner |-> n] \in el2
      BY <1>4
    <3>2. s2.epoch = s.epoch /\ s.epoch <= s.epoch
      BY <1>1, <1>2
    <3>. QED  BY <3>1, <3>2 DEF Won
  <2>3. ~ Stale(n, s, g)
    BY <1>3, <1>4, CardinalityNode DEF Stale, Wins, QuorumSize
  <2>4. Fresh(n, s, g)
    BY <2>3, <1>4 DEF Unsettled, Wins
  <2>5. Majority(s.votes)
    BY <1>1, <1>4, QuorumIsMajority DEF Wins, ElectorState
  <2>6. Majority(VotersIn(g, s.epoch, n))
    <3>1. VotersIn(g, s.epoch, n) \subseteq Node
      BY DEF VotersIn
    <3>. QED  BY <2>4, <2>5, <3>1, MajorityGrows DEF Fresh
  <2>. QED  BY <1>2, <2>1, <2>2, <2>6 DEF Settled, Sane, Unsettled
<1>5. CASE ~ Wins(s)
  <2>1. el2 = el
    BY <1>5
  <2>2. s2.role = "primary" => s.role = "primary"
    BY <1>1, <1>5 DEF MaybeFinishCandidacy, ElectorState
  <2>3. s2.currentPrimary = s.currentPrimary
    BY <1>1, <1>5 DEF MaybeFinishCandidacy, ElectorState
  <2>4. s2.role = "candidate" => s2 = s /\ Cardinality(s.votes) < QuorumSize
    BY <1>1, <1>3, <1>5, CardinalityNode
       DEF MaybeFinishCandidacy, Wins, ElectorState, QuorumSize
  <2>. QED  BY <1>2, <1>5, <2>1, <2>2, <2>3, <2>4 DEF Settled, Sane, Unsettled
<1>. QED  BY <1>2, <1>4, <1>5

\* A whole pump, from what holds once on_message has run.
LEMMA TickStep ==
    ASSUME NEW n \in Node, NEW s1, NEW late \in BOOLEAN,
           NEW reached \in SUBSET Hears(n), NEW consumed, NEW replies, NEW cast,
           IndInv, Tick(n, s1, late, reached, consumed, replies, cast),
           s1.epoch >= node[n].epoch,
           Unsettled(n, s1, granted \cup cast, elected),
           VotesOK([node EXCEPT ![n] = s1], granted \cup cast),
           MsgsOK([node EXCEPT ![n] = s1], (net \ consumed) \cup replies,
                  granted \cup cast, elected)
    PROVE  IndInv' /\ node'[n].epoch >= s1.epoch
<1>. DEFINE nd1 == [node EXCEPT ![n] = s1]
            g1 == granted \cup cast
            started == ElectionPreconditionsMet(n, s1, late)
            s2 == MaybeStartElection(n, s1, late)
            s3 == MaybeFinishCandidacy(n, s2, late /\ ~started)
            won == Wins(s2)
            b == Ballot(s2.epoch, n, n)
            x == [epoch |-> s2.epoch, winner |-> n]
<1>1. /\ node' = [node EXCEPT ![n] = s3]
      /\ net' = (net \ consumed) \cup replies \cup Heartbeats(n, s1, reached)
                  \cup (IF started THEN Offers(n, s2) ELSE {})
                  \cup (IF won THEN Announces(n, s2) ELSE {})
      /\ granted' = g1 \cup (IF started THEN {b} ELSE {})
      /\ elected' = elected \cup (IF won THEN {x} ELSE {})
  BY DEF Tick, Ballot
<1>2. /\ node \in [Node -> ElectorState]
      /\ \A p \in Node : Settled(p, node[p], granted, elected)
      /\ WinsOK(granted, elected)
  BY IndInvRestated
<1>3. s1 \in ElectorState /\ elected \subseteq Victory
  BY <1>2 DEF Unsettled, Sane, WinsOK
<1>4. /\ Unsettled(n, s2, granted', elected)
      /\ s2.epoch \in Epoch /\ s2.epoch >= s1.epoch
      /\ started => s2.epoch = s1.epoch + 1
  <2>1. CASE started
    <3>1. /\ s2.epoch = s1.epoch + 1 /\ s2.epoch \in Epoch
          /\ Unsettled(n, s2, g1 \cup {b}, elected)
      BY <1>3, <2>1, StartUnsettled
    <3>2. s1.epoch \in Int
      BY <1>3, BoundAssumption DEF ElectorState, Epoch
    <3>. QED  BY <1>1, <2>1, <3>1, <3>2
  <2>2. CASE ~ started
    <3>1. s2 = s1 /\ granted' = g1
      BY <1>1, <2>2 DEF MaybeStartElection
    <3>2. s1.epoch \in Epoch /\ s1.epoch \in Int
      BY <1>3, BoundAssumption DEF ElectorState, Epoch
    <3>. QED  BY <2>2, <3>1, <3>2
  <2>. QED  BY <2>1, <2>2
<1>5. /\ s3.epoch = s2.epoch
      /\ Settled(n, s3, granted', elected')
      /\ won => Majority(VotersIn(granted', s2.epoch, n))
  <2>1. elected \subseteq Victory
    BY <1>2 DEF WinsOK
  <2>2. (late /\ ~started) \in BOOLEAN
    OBVIOUS
  <2>. QED  BY <1>1, <1>4, <2>1, <2>2, FinishSettles, Zenon
<1>6. s3 \in ElectorState /\ node' \in [Node -> ElectorState] /\ nd1 \in [Node -> ElectorState]
  BY <1>1, <1>2, <1>3, <1>5, Zenon DEF Settled, Sane
<1>7. \A p \in Node : nd1[p].epoch <= node'[p].epoch
  <2>1. \A p \in Node : node[p].epoch \in Int
    BY <1>2, BoundAssumption DEF ElectorState, Epoch
  <2>2. s1.epoch \in Int /\ s2.epoch \in Int
    BY <1>3, <1>4, BoundAssumption DEF ElectorState, Epoch
  <2>. QED  BY <1>1, <1>2, <1>4, <1>5, <2>1, <2>2
<1>8. \A p \in Node : Settled(p, node'[p], granted', elected')
  <2>. SUFFICES ASSUME NEW p \in Node, p # n
                PROVE  Settled(p, node'[p], granted', elected')
    BY <1>1, <1>2, <1>5, Zenon
  <2>1. node'[p] = node[p]
    BY <1>1, <1>2
  <2>2. granted \subseteq granted' /\ elected \subseteq elected'
    BY <1>1
  <2>. QED  BY <1>2, <2>1, <2>2, SettledGrows
<1>9. VotesOK(node', granted')
  <2>1. CASE started
    <3>1. s1.epoch \in Int
      BY <1>3, BoundAssumption DEF ElectorState, Epoch
    <3>2. nd1[n].epoch < s2.epoch /\ node'[n].epoch >= s2.epoch
      BY <1>1, <1>2, <1>4, <1>5, <2>1, <3>1, SMTT(30)
    <3>. QED  BY <1>1, <1>4, <1>6, <1>7, <2>1, <3>2, CastVote, Zenon
  <2>2. CASE ~ started
    <3>1. granted' = g1
      BY <1>1, <2>2
    <3>2. \A v \in g1 : v.voter \in Node /\ v.epoch \in Int
      BY BoundAssumption DEF VotesOK, Vote, Epoch
    <3>3. \A p \in Node : nd1[p].epoch \in Int /\ node'[p].epoch \in Int
      BY <1>6, BoundAssumption DEF ElectorState, Epoch
    <3>. QED  BY <1>7, <3>1, <3>2, <3>3 DEF VotesOK
  <2>. QED  BY <2>1, <2>2
<1>10. MsgsOK(node', net', granted', elected')
  <2>1. MsgsOK(node', (net \ consumed) \cup replies, granted', elected')
    <3>1. g1 \subseteq granted' /\ elected \subseteq elected'
      BY <1>1
    <3>. QED  BY <1>6, <1>7, <3>1, MsgsGrow, Zenon
  <2>2. node'[n].epoch = s2.epoch /\ s2.epoch \in Epoch /\ s2.epoch <= s2.epoch
    <3>1. node'[n].epoch = s2.epoch
      BY <1>1, <1>2, <1>5
    <3>2. s2.epoch \in Int
      BY <1>4, BoundAssumption DEF Epoch
    <3>. HIDE DEF s2
    <3>. QED  BY <1>4, <3>1, <3>2
  <2>3. MsgsOK(node', Heartbeats(n, s1, reached), granted', elected')
    <3>. SUFFICES ASSUME NEW m \in Heartbeats(n, s1, reached)
                  PROVE  m \in Message /\ MsgOK(m, node', granted', elected')
      BY DEF MsgsOK
    <3>1. /\ m.type = "hb" /\ m.from = n /\ m.to \in reached
          /\ m.epoch = s1.epoch /\ m.role = s1.role
      BY DEF Heartbeats
    <3>2. m.to \in Node /\ m.to # n
      BY <3>1, Zenon DEF Hears, Peers
    <3>3. m \in Message
      BY SMTT(30), <1>3, <3>2 DEF Heartbeats, Message, Hb, ElectorState
    <3>4. s1.role = "primary" => Won(n, s1.epoch, elected')
      BY SMTT(60), <1>1 DEF Unsettled, Sane, Won
    <3>. QED  BY <1>4, <2>2, <3>1, <3>2, <3>3, <3>4, Zenon DEF MsgOK
  <2>4. started => MsgsOK(node', Offers(n, s2), granted', elected')
    <3>. SUFFICES ASSUME started, NEW m \in Offers(n, s2)
                  PROVE  m \in Message /\ MsgOK(m, node', granted', elected')
      BY DEF MsgsOK
    <3>1. /\ m.type = "offer" /\ m.from = n /\ m.to \in Node /\ m.to # n
          /\ m.epoch = s2.epoch /\ m.offset = s2.offset
      BY DEF Offers, Peers
    <3>2. s2.offset \in Offset
      BY <1>4, SMTT(30) DEF Unsettled, Sane, ElectorState
    <3>3. m \in Message
      BY SMTT(60), <2>2, <3>1, <3>2 DEF Offers, Message, Offer
    <3>4. m.epoch <= node'[n].epoch
      BY <2>2, <3>1
    <3>. QED  BY <1>1, <3>1, <3>3, <3>4 DEF MsgOK
  <2>5. won => MsgsOK(node', Announces(n, s2), granted', elected')
    <3>. SUFFICES ASSUME won, NEW m \in Announces(n, s2)
                  PROVE  m \in Message /\ MsgOK(m, node', granted', elected')
      BY DEF MsgsOK
    <3>1. /\ m.type = "announce" /\ m.from = n /\ m.to \in Node /\ m.to # n
          /\ m.epoch = s2.epoch
      BY SMTT(30) DEF Announces, Peers
    <3>2. m \in Message
      BY SMTT(30), <2>2, <3>1 DEF Announces, Message, Announce
    <3>3. m.epoch <= node'[n].epoch
      BY <2>2, <3>1
    <3>. QED  BY <1>1, <3>1, <3>2, <3>3, Zenon DEF MsgOK
  <2>. QED  BY <1>1, <2>1, <2>3, <2>4, <2>5, Zenon DEF MsgsOK
<1>11. WinsOK(granted', elected')
  <2>1. WinsOK(granted', elected)
    BY <1>1, <1>2, WinsGrow
  <2>2. x \in Victory /\ x.epoch = s2.epoch /\ x.winner = n
    BY <1>4 DEF Victory
  <2>. QED  BY <1>1, <1>5, <2>1, <2>2, Zenon DEF WinsOK
<1>. QED  BY <1>1, <1>2, <1>4, <1>5, <1>6, <1>8, <1>9, <1>10, <1>11, IndInvNextRestated, Zenon

-----------------------------------------------------------------------------
(* on_message: what each handler makes of a node's state *)

LEMMA NewerEpochKeepsWon ==
    ASSUME NEW p, NEW e \in Int, NEW f \in Int, e <= f, NEW el, el \subseteq Victory,
           Won(p, e, el)
    PROVE  Won(p, f, el)
<1>1. \A x \in el : x.epoch \in Int
  BY BoundAssumption DEF Victory, Epoch
<1>. QED  BY <1>1 DEF Won

LEMMA OnHbUnsettled ==
    ASSUME NEW n \in Node, NEW s, NEW g, NEW el, el \subseteq Victory,
           NEW m \in Hb, m.to = n, Settled(n, s, g, el),
           m.role = "primary" => Won(m.from, m.epoch, el)
    PROVE  Unsettled(n, OnHb(s, m), g, el) /\ OnHb(s, m).epoch >= s.epoch
<1>. DEFINE seen == [s EXCEPT !.view[m.from] = m.offset]
            t == OnHb(s, m)
<1>1. /\ s \in ElectorState /\ s.epoch \in Epoch /\ s.epoch \in Int
      /\ m.from \in Node /\ m.epoch \in Epoch /\ m.epoch \in Int /\ m.offset \in Offset
  BY BoundAssumption DEF Settled, Sane, ElectorState, Hb, Epoch
<1>2. /\ seen \in ElectorState
      /\ seen.role = s.role /\ seen.epoch = s.epoch /\ seen.votes = s.votes
      /\ seen.currentPrimary = s.currentPrimary /\ seen.saved = s.saved
  BY <1>1 DEF ElectorState
<1>3. CASE FollowsHb(s, m)
  <2>1. t = FollowPrimaryHb(seen, m)
    BY <1>3 DEF OnHb
  <2>2. m.epoch >= s.epoch /\ Won(m.from, m.epoch, el)
    BY <1>1, <1>3 DEF FollowsHb
  <2>. DEFINE sv == IF m.epoch > s.epoch THEN [epoch |-> m.epoch, votedFor |-> None]
                                         ELSE s.saved
  <2>3. /\ t.role = "replica" /\ t.epoch = m.epoch /\ t.currentPrimary = m.from
        /\ t.saved = sv
    BY <1>1, <1>2, <2>1 DEF FollowPrimaryHb, Save, ElectorState
  <2>4. sv \in SavedPair
    BY <1>1, BoundAssumption DEF ElectorState, SavedPair, Epoch
  <2>5. t \in ElectorState
    <3>. DEFINE durable == IF m.epoch > s.epoch THEN [seen EXCEPT !.saved = sv] ELSE seen
                known == [durable EXCEPT !.epoch = m.epoch, !.currentPrimary = m.from]
    <3>1. durable \in ElectorState
      BY <1>2, <2>4, Zenon DEF ElectorState
    <3>2. known \in ElectorState
      BY <1>1, <3>1, Zenon DEF ElectorState
    <3>3. \/ t = [known EXCEPT !.role = "replica", !.votes = {}]
          \/ t = [known EXCEPT !.role = "replica"]
      BY <1>2, <2>1 DEF FollowPrimaryHb, Save
    <3>. HIDE DEF known
    <3>. QED  BY <3>2, <3>3, Zenon DEF ElectorState, Role
  <2>6. t.epoch = IF t.saved.epoch > 1 THEN t.saved.epoch ELSE 1
    <3>1. CASE m.epoch > s.epoch
      BY <1>1, <2>3, <3>1 DEF Epoch
    <3>2. CASE ~(m.epoch > s.epoch)
      <4>1. m.epoch = s.epoch
        BY <1>1, <2>2, <3>2
      <4>. QED  BY <2>3, <3>2, <4>1 DEF Settled, Sane
    <3>. QED  BY <3>1, <3>2
  <2>. QED  BY <2>2, <2>3, <2>5, <2>6, Zenon DEF Unsettled, Sane
<1>4. CASE ~ FollowsHb(s, m)
  <2>1. t = seen
    BY <1>4 DEF OnHb
  <2>. QED  BY <1>1, <1>2, <2>1 DEF Settled, Unsettled, Sane, Fresh, Stale
<1>. QED  BY <1>3, <1>4

LEMMA OnOfferUnsettled ==
    ASSUME NEW n \in Node, NEW s, NEW g, NEW el, el \subseteq Victory,
           NEW m \in Offer, m.to = n, m.from # n, Settled(n, s, g, el),
           Grants(n, s, m)
    PROVE  LET t == OnOffer(n, s, m)
           IN  /\ t.epoch = m.epoch /\ m.epoch > s.epoch
               /\ Unsettled(n, t, g \cup {Ballot(m.epoch, n, m.from)}, el)
<1>. DEFINE t == OnOffer(n, s, m)
            sv == [epoch |-> m.epoch, votedFor |-> m.from]
<1>1. /\ s \in ElectorState /\ s.epoch \in Epoch /\ s.epoch \in Int
      /\ m.from \in Node /\ m.epoch \in Epoch /\ m.epoch \in Int
  BY BoundAssumption DEF Settled, Sane, ElectorState, Offer, Epoch
<1>2. m.epoch > s.epoch
  BY DEF Grants
<1>3. t = [s EXCEPT !.saved = sv, !.lastAccept = m.epoch, !.epoch = m.epoch]
  BY DEF OnOffer, Save
<1>4. sv \in SavedPair /\ m.epoch \in 0 .. MaxEpoch
  BY <1>1, BoundAssumption DEF SavedPair, Epoch
<1>5. t \in ElectorState
  BY <1>1, <1>3, <1>4, Zenon DEF ElectorState
<1>6. /\ t.epoch = m.epoch /\ t.saved = sv /\ t.role = s.role /\ t.votes = s.votes
      /\ t.currentPrimary = s.currentPrimary
  BY <1>1, <1>3 DEF ElectorState
<1>7. t.epoch = IF t.saved.epoch > 1 THEN t.saved.epoch ELSE 1
  BY SMTT(30), <1>1, <1>6, BoundAssumption DEF Epoch
<1>8. /\ t.role = "primary" => Won(n, t.epoch, el)
      /\ t.currentPrimary # None => Won(t.currentPrimary, t.epoch, el)
  BY <1>1, <1>2, <1>6, NewerEpochKeepsWon, SMTT(60) DEF Settled, Sane
<1>9. t.role = "candidate" => Stale(n, t, g \cup {Ballot(m.epoch, n, m.from)})
  BY <1>1, <1>6 DEF Settled, Stale, Peers
<1>. QED  BY <1>2, <1>5, <1>6, <1>7, <1>8, <1>9, Zenon DEF Unsettled, Sane

\* A stale candidate receives no ACCEPT of its epoch: whoever sent it voted
\* for a candidate that had voted for itself, and this one had not.
LEMMA OnAcceptUnsettled ==
    ASSUME NEW n \in Node, NEW s, NEW nd, NEW g, NEW el, VotesOK(nd, g),
           NEW m \in Accept, m.to = n, Settled(n, s, g, el),
           Ballot(m.epoch, m.from, n) \in g
    PROVE  Unsettled(n, OnAccept(s, m), g, el) /\ OnAccept(s, m).epoch = s.epoch
<1>. DEFINE t == OnAccept(s, m)
<1>1. s \in ElectorState /\ m.from \in Node
  BY DEF Settled, Sane, Accept
<1>2. CASE s.role = "candidate" /\ s.epoch = m.epoch
  <2>1. t = [s EXCEPT !.votes = s.votes \cup {m.from}]
    BY <1>2 DEF OnAccept
  <2>2. t \in ElectorState
    BY <1>1, <2>1 DEF ElectorState
  <2>3. /\ t.role = s.role /\ t.epoch = s.epoch /\ t.saved = s.saved
        /\ t.currentPrimary = s.currentPrimary /\ t.votes = s.votes \cup {m.from}
    BY <1>1, <2>1 DEF ElectorState
  <2>4. ~ Stale(n, s, g)
    <3>. SUFFICES ASSUME NEW c \in Peers(n), Ballot(s.epoch, n, c) \in g
                  PROVE  FALSE
      BY DEF Stale
    <3>1. Ballot(s.epoch, n, n) \in g
      <4>1. /\ Ballot(m.epoch, m.from, n).epoch = m.epoch
            /\ Ballot(m.epoch, m.from, n).candidate = n
        BY DEF Ballot
      <4>. QED  BY <1>2, <4>1 DEF VotesOK
    <3>2. /\ Ballot(s.epoch, n, n).epoch = s.epoch /\ Ballot(s.epoch, n, n).voter = n
          /\ Ballot(s.epoch, n, c).epoch = s.epoch /\ Ballot(s.epoch, n, c).voter = n
          /\ Ballot(s.epoch, n, n).candidate = n /\ Ballot(s.epoch, n, c).candidate = c
      BY DEF Ballot
    <3>3. n = c
      BY <3>1, <3>2 DEF VotesOK
    <3>. QED  BY <3>3, SMTT(30) DEF Peers
  <2>5. Fresh(n, t, g)
    BY <1>1, <1>2, <2>3, <2>4 DEF Fresh, Settled, VotersIn
  <2>. QED  BY <2>2, <2>3, <2>5 DEF Settled, Unsettled, Sane
<1>3. CASE ~(s.role = "candidate" /\ s.epoch = m.epoch)
  BY <1>3 DEF OnAccept, Settled, Unsettled
<1>. QED  BY <1>2, <1>3

LEMMA OnAnnounceUnsettled ==
    ASSUME NEW n \in Node, NEW s, NEW g, NEW el,
           NEW m \in Announce, m.to = n, m.from # n, Settled(n, s, g, el),
           [epoch |-> m.epoch, winner |-> m.from] \in el
    PROVE  Unsettled(n, OnAnnounce(n, s, m), g, el) /\ OnAnnounce(n, s, m).epoch >= s.epoch
<1>. DEFINE t == OnAnnounce(n, s, m)
            sv == [epoch |-> m.epoch, votedFor |-> m.from]
<1>1. /\ s \in ElectorState /\ s.epoch \in Epoch /\ s.epoch \in Int
      /\ m.from \in Node /\ m.epoch \in Epoch /\ m.epoch \in Int
  BY BoundAssumption DEF Settled, Sane, ElectorState, Announce, Epoch
<1>2. CASE StaleAnnounce(s, m)
  BY SMTT(30), <1>1, <1>2 DEF OnAnnounce, Settled, Unsettled
<1>3. CASE ~ StaleAnnounce(s, m)
  <2>1. m.epoch >= s.epoch
    BY <1>1, <1>3 DEF StaleAnnounce
  <2>2. t = [s EXCEPT !.saved = sv, !.epoch = m.epoch, !.currentPrimary = m.from,
                      !.lastAccept = m.epoch, !.votes = {}, !.role = "replica"]
    BY <1>3 DEF OnAnnounce, Save
  <2>3. sv \in SavedPair /\ m.epoch \in 0 .. MaxEpoch
    BY <1>1, BoundAssumption DEF SavedPair, Epoch
  <2>4. t \in ElectorState
    BY <1>1, <2>2, <2>3, Zenon DEF ElectorState, Role
  <2>5. t.epoch = m.epoch /\ t.saved = sv /\ t.role = "replica" /\ t.currentPrimary = m.from
    BY <1>1, <2>2 DEF ElectorState
  <2>6. t.epoch = IF t.saved.epoch > 1 THEN t.saved.epoch ELSE 1
    BY <1>1, <2>5, BoundAssumption DEF Epoch
  <2>7. Won(m.from, m.epoch, el)
    <3>1. m.epoch <= m.epoch
      BY <1>1
    <3>. QED  BY <3>1 DEF Won
  <2>. QED  BY <2>1, <2>4, <2>5, <2>6, <2>7 DEF Unsettled, Sane
<1>. QED  BY <1>2, <1>3

-----------------------------------------------------------------------------
(* The actions *)

LEMMA ReceiveStep ==
    ASSUME IndInv, NEW m \in net, Receive(m)
    PROVE  IndInv' /\ \A p \in Node : node'[p].epoch >= node[p].epoch
<1>. DEFINE n == m.to
            s == node[n]
            t == OnMessage(n, s, m)
            grants == m.type = "offer" /\ Grants(n, s, m)
            replies == IF grants THEN Accepts(n, m) ELSE {}
            cast == IF grants THEN {Ballot(m.epoch, n, m.from)} ELSE {}
            nd == [node EXCEPT ![n] = t]
<1>1. PICK late \in BOOLEAN, reached \in SUBSET Hears(n) :
        Tick(n, t, late, reached, {m}, replies, cast)
  BY DEF Receive, Ballot
<1>2. /\ node \in [Node -> ElectorState]
      /\ \A p \in Node : Settled(p, node[p], granted, elected)
      /\ VotesOK(node, granted)
      /\ MsgsOK(node, net, granted, elected)
      /\ elected \subseteq Victory
  BY IndInvRestated DEF WinsOK
<1>3. /\ m \in Message /\ MsgOK(m, node, granted, elected)
      /\ n \in Node /\ m.to = n /\ m.from \in Node /\ m.from # n
      /\ m.epoch \in Epoch /\ m.epoch \in Int /\ m.epoch <= m.epoch
  <2>1. m \in Message /\ MsgOK(m, node, granted, elected)
    BY <1>2 DEF MsgsOK
  <2>2. m.from \in Node /\ m.to \in Node /\ m.epoch \in Epoch
    BY <2>1 DEF Message, Hb, Offer, Accept, Announce
  <2>3. m.epoch \in Int
    BY SMTT(30), <2>2, BoundAssumption DEF Epoch
  <2>. QED  BY <2>1, <2>2, <2>3 DEF MsgOK
<1>4. /\ Settled(n, s, granted, elected) /\ s.epoch \in Int
      /\ nd = [node EXCEPT ![n] = t] /\ node[n] = s
  <2>1. s \in ElectorState
    BY <1>2, <1>3
  <2>2. s.epoch \in Int
    BY <2>1, BoundAssumption DEF ElectorState, Epoch
  <2>. QED  BY <1>2, <1>3, <2>2
<1>. HIDE DEF n, s, t, nd
<1>5. /\ Unsettled(n, t, granted \cup cast, elected) /\ t.epoch >= s.epoch
      /\ grants => t.epoch = m.epoch /\ m.epoch > s.epoch
  <2>1. CASE m.type = "hb"
    <3>1. m \in Hb
      BY <1>3, <2>1 DEF Message, Hb, Offer, Accept, Announce
    <3>2. t = OnHb(s, m) /\ granted \cup cast = granted
      BY <2>1 DEF OnMessage, t
    <3>3. m.role = "primary" => Won(m.from, m.epoch, elected)
      BY <1>3, <2>1 DEF MsgOK
    <3>. QED  BY <1>2, <1>3, <1>4, <2>1, <3>1, <3>2, <3>3, OnHbUnsettled, Zenon
  <2>2. CASE m.type = "offer"
    <3>1. m \in Offer
      BY <1>3, <2>2 DEF Message, Hb, Offer, Accept, Announce
    <3>2. t = OnOffer(n, s, m)
      BY <2>2 DEF OnMessage, t
    <3>3. CASE grants
      <4>1. /\ t.epoch = m.epoch /\ m.epoch > s.epoch
            /\ Unsettled(n, t, granted \cup {Ballot(m.epoch, n, m.from)}, elected)
        BY <1>2, <1>3, <1>4, <3>1, <3>2, <3>3, OnOfferUnsettled, Zenon
      <4>. QED  BY <1>3, <1>4, <3>3, <4>1
    <3>4. CASE ~ grants
      BY <1>4, <2>2, <3>2, <3>4 DEF OnOffer, Settled, Unsettled
    <3>. QED  BY <3>3, <3>4
  <2>3. CASE m.type = "accept"
    <3>1. m \in Accept
      BY <1>3, <2>3 DEF Message, Hb, Offer, Accept, Announce
    <3>2. t = OnAccept(s, m) /\ granted \cup cast = granted
      BY <2>3 DEF OnMessage, t
    <3>3. Ballot(m.epoch, m.from, n) \in granted
      BY <1>3, <2>3, SMTT(30) DEF MsgOK
    <3>4. Unsettled(n, OnAccept(s, m), granted, elected) /\ OnAccept(s, m).epoch = s.epoch
      BY <1>2, <1>3, <1>4, <3>1, <3>3, OnAcceptUnsettled
    <3>. QED  BY <1>4, <2>3, <3>2, <3>4
  <2>4. CASE m.type = "announce"
    <3>1. m \in Announce
      BY <1>3, <2>4 DEF Message, Hb, Offer, Accept, Announce
    <3>2. t = OnAnnounce(n, s, m) /\ granted \cup cast = granted
      BY <2>4 DEF OnMessage, t
    <3>3. [epoch |-> m.epoch, winner |-> m.from] \in elected
      BY <1>3, <2>4 DEF MsgOK
    <3>. QED  BY <1>2, <1>3, <1>4, <2>4, <3>1, <3>2, <3>3, OnAnnounceUnsettled, Zenon
  <2>. QED  BY <1>3, <2>1, <2>2, <2>3, <2>4, Zenon DEF Message, Hb, Offer, Accept, Announce
<1>6. t \in ElectorState /\ nd \in [Node -> ElectorState] /\ nd[n] = t
  <2>1. t \in ElectorState
    BY <1>5, SMTT(30) DEF Unsettled, Sane
  <2>. QED  BY <1>2, <1>3, <1>4, <2>1, SMTT(30)
<1>7. \A p \in Node : node[p].epoch <= nd[p].epoch
  <2>1. \A p \in Node : node[p].epoch \in Int
    BY <1>2, BoundAssumption DEF ElectorState, Epoch
  <2>2. t.epoch \in Int
    BY <1>6, BoundAssumption DEF ElectorState, Epoch
  <2>. QED  BY SMTT(30), <1>2, <1>3, <1>4, <1>5, <2>1, <2>2
<1>8. VotesOK(nd, granted \cup cast)
  <2>1. CASE grants
    <3>1. Ballot(m.epoch, m.from, m.from) \in granted
      BY <1>3, <2>1, Zenon DEF MsgOK
    <3>2. node[n].epoch < m.epoch /\ nd[n].epoch >= m.epoch
      BY <1>3, <1>4, <1>5, <1>6, <2>1, Zenon
    <3>. QED  BY <1>2, <1>3, <1>6, <1>7, <2>1, <3>1, <3>2, CastVote, Zenon
  <2>2. CASE ~ grants
    <3>1. \A v \in granted : v.voter \in Node /\ v.epoch \in Int
      BY <1>2, BoundAssumption DEF VotesOK, Vote, Epoch
    <3>2. \A p \in Node : node[p].epoch \in Int /\ nd[p].epoch \in Int
      BY <1>2, <1>6, BoundAssumption, SMTT(30) DEF ElectorState, Epoch
    <3>3. \A v \in granted : v.epoch <= nd[v.voter].epoch
      BY SMTT(30), <1>2, <1>7, <3>1, <3>2 DEF VotesOK
    <3>4. granted \cup cast = granted
      BY <2>2
    <3>. HIDE DEF nd, cast
    <3>. QED  BY <1>2, <3>3, <3>4, Zenon DEF VotesOK
  <2>. QED  BY <2>1, <2>2
<1>9. MsgsOK(nd, (net \ {m}) \cup replies, granted \cup cast, elected)
  <2>1. MsgsOK(nd, net \ {m}, granted \cup cast, elected)
    <3>1. MsgsOK(node, net \ {m}, granted, elected)
      BY <1>2 DEF MsgsOK
    <3>. QED  BY <1>2, <1>6, <1>7, <3>1, MsgsGrow
  <2>2. MsgsOK(nd, replies, granted \cup cast, elected)
    <3>. SUFFICES ASSUME NEW r \in replies
                  PROVE  r \in Message /\ MsgOK(r, nd, granted \cup cast, elected)
      BY DEF MsgsOK
    <3>1. /\ grants /\ r.type = "accept" /\ r.from = n /\ r.to = m.from
          /\ r.epoch = m.epoch
      BY DEF Accepts
    <3>2. r \in Message
      BY <1>3, SMTT(30) DEF Accepts, Message, Accept
    <3>3. r.epoch <= nd[n].epoch
      BY <1>3, <1>5, <1>6, <3>1
    <3>4. Ballot(r.epoch, r.from, r.to) \in granted \cup cast
      BY <3>1
    <3>. HIDE DEF nd, cast
    <3>. QED  BY <1>3, <3>1, <3>2, <3>3, <3>4, Zenon DEF MsgOK
  <2>. QED  BY <2>1, <2>2 DEF MsgsOK
<1>10. IndInv' /\ node'[n].epoch >= t.epoch
  BY <1>1, <1>3, <1>4, <1>5, <1>8, <1>9, TickStep, Zenon
<1>11. \A p \in Node : node'[p].epoch >= node[p].epoch
  <2>1. \A p \in Node : node[p].epoch \in Int /\ node'[p].epoch \in Int
    BY <1>2, <1>10, IndInvNextRestated, BoundAssumption, SMTT(30) DEF ElectorState, Epoch
  <2>2. t.epoch \in Int
    BY <1>6, BoundAssumption DEF ElectorState, Epoch
  <2>3. \A p \in Node : p # n => node'[p] = node[p]
    BY <1>1, <1>2, SMTT(30) DEF Tick
  <2>4. node'[n].epoch >= node[n].epoch
    <3>1. /\ n \in Node /\ node[n] = s
          /\ t.epoch >= s.epoch /\ node'[n].epoch >= t.epoch
      BY <1>3, <1>4, <1>5, <1>10, Zenon
    <3>2. node[n].epoch \in Int /\ node'[n].epoch \in Int
      BY <2>1, <3>1, Zenon
    <3>. QED  BY <2>2, <3>1, <3>2
  <2>5. \A p \in Node : node[p].epoch >= node[p].epoch
    BY <2>1
  <2>. QED  BY <2>3, <2>4, <2>5
<1>. QED  BY SMTT(30), <1>10, <1>11

LEMMA TimeoutPumpStep ==
    ASSUME IndInv, NEW n \in Node, TimeoutPump(n)
    PROVE  IndInv' /\ \A p \in Node : node'[p].epoch >= node[p].epoch
<1>1. PICK late \in BOOLEAN, reached \in SUBSET Hears(n) :
        Tick(n, node[n], late, reached, {}, {}, {})
  BY DEF TimeoutPump
<1>2. /\ node \in [Node -> ElectorState]
      /\ \A p \in Node : Settled(p, node[p], granted, elected)
      /\ VotesOK(node, granted)
      /\ MsgsOK(node, net, granted, elected)
  BY IndInvRestated
<1>3. \A p \in Node : node[p].epoch \in Int
  BY <1>2, BoundAssumption DEF ElectorState, Epoch
<1>4. [node EXCEPT ![n] = node[n]] = node
  BY <1>2
<1>5. Unsettled(n, node[n], granted, elected)
  BY <1>2 DEF Settled, Unsettled
<1>6. granted \cup {} = granted /\ (net \ {}) \cup {} = net
  OBVIOUS
<1>7. IndInv' /\ node'[n].epoch >= node[n].epoch
  <2>1. node[n].epoch >= node[n].epoch
    BY <1>3
  <2>2. /\ Unsettled(n, node[n], granted \cup {}, elected)
        /\ VotesOK([node EXCEPT ![n] = node[n]], granted \cup {})
        /\ MsgsOK([node EXCEPT ![n] = node[n]], (net \ {}) \cup {}, granted \cup {}, elected)
    BY <1>2, <1>4, <1>5, <1>6, Zenon
  <2>. QED  BY <1>1, <2>1, <2>2, TickStep, Zenon
<1>8. \A p \in Node : p # n => node'[p] = node[p]
  BY <1>1, <1>2 DEF Tick
<1>. QED  BY <1>3, <1>7, <1>8

LEMMA LoseStep ==
    ASSUME IndInv, NEW m \in net, Lose(m)
    PROVE  IndInv' /\ \A p \in Node : node'[p].epoch >= node[p].epoch
<1>1. node \in [Node -> ElectorState] /\ MsgsOK(node, net, granted, elected)
  BY IndInvRestated
<1>2. MsgsOK(node', net', granted', elected')
  BY <1>1 DEF Lose, MsgsOK
<1>3. \A p \in Node : node[p].epoch \in Int
  BY <1>1, BoundAssumption DEF ElectorState, Epoch
<1>. QED  BY <1>2, <1>3, IndInvRestated, IndInvNextRestated DEF Lose

\* An action that changes only the state of n, keeping its epoch.
LEMMA LocalStep ==
    ASSUME IndInv, NEW n \in Node, NEW s, node' = [node EXCEPT ![n] = s],
           UNCHANGED <<net, granted, elected>>,
           s.epoch = node[n].epoch, Settled(n, s, granted, elected)
    PROVE  IndInv' /\ \A p \in Node : node'[p].epoch >= node[p].epoch
<1>1. /\ node \in [Node -> ElectorState]
      /\ \A p \in Node : Settled(p, node[p], granted, elected)
      /\ VotesOK(node, granted) /\ MsgsOK(node, net, granted, elected)
      /\ WinsOK(granted, elected)
  BY IndInvRestated
<1>2. node' \in [Node -> ElectorState]
  BY <1>1, Zenon DEF Settled, Sane
<1>3. \A p \in Node : node'[p].epoch = node[p].epoch /\ node[p].epoch \in Int
  BY <1>1, BoundAssumption DEF ElectorState, Epoch
<1>4. VotesOK(node', granted')
  <2>1. \A v \in granted : v.voter \in Node
    BY <1>1 DEF VotesOK, Vote
  <2>. QED  BY <1>1, <1>3, <2>1 DEF VotesOK
<1>5. MsgsOK(node', net', granted', elected')
  <2>1. \A p \in Node : node[p].epoch <= node'[p].epoch
    BY <1>3
  <2>2. MsgsOK(node', net, granted, elected)
    BY <1>1, <1>2, <2>1, MsgsGrow, Zenon
  <2>. QED  BY <2>2
<1>6. \A p \in Node : Settled(p, node'[p], granted', elected')
  BY <1>1
<1>. QED  BY <1>1, <1>2, <1>3, <1>4, <1>5, <1>6, IndInvNextRestated

\* Forgetting a peer and reporting an offset touch nothing IndInv is about.
LEMMA ForgetPeerStep ==
    ASSUME IndInv, NEW n \in Node, NEW p \in Node, ForgetPeer(n, p)
    PROVE  IndInv' /\ \A q \in Node : node'[q].epoch >= node[q].epoch
<1>. DEFINE s == [node[n] EXCEPT !.view[p] = None]
<1>1. node \in [Node -> ElectorState] /\ Settled(n, node[n], granted, elected)
  BY IndInvRestated
<1>2. /\ s \in ElectorState
      /\ s.role = node[n].role /\ s.epoch = node[n].epoch /\ s.votes = node[n].votes
      /\ s.currentPrimary = node[n].currentPrimary /\ s.saved = node[n].saved
  <2>1. node[n] \in ElectorState
    BY <1>1
  <2>. DEFINE r == node[n]
  <2>. HIDE DEF r
  <2>2. r \in ElectorState /\ s = [r EXCEPT !.view[p] = None]
    BY <2>1 DEF r
  <2>3. [r.view EXCEPT ![p] = None] \in [Node -> Offset \cup {None}]
    BY <2>2 DEF ElectorState
  <2>4. s \in ElectorState
    BY <2>2, <2>3 DEF ElectorState
  <2>5. /\ s.role = r.role /\ s.epoch = r.epoch /\ s.votes = r.votes
        /\ s.currentPrimary = r.currentPrimary /\ s.saved = r.saved
    BY <2>2 DEF ElectorState
  <2>. QED  BY <2>4, <2>5 DEF r
<1>3. Settled(n, s, granted, elected)
  BY <1>1, <1>2 DEF Settled, Sane, Fresh, Stale
<1>4. node' = [node EXCEPT ![n] = s] /\ UNCHANGED <<net, granted, elected>>
  BY <1>1 DEF ForgetPeer
<1>. HIDE DEF s
<1>. QED  BY <1>2, <1>3, <1>4, LocalStep, Zenon

LEMMA SetReplOffsetStep ==
    ASSUME IndInv, NEW n \in Node, NEW o \in Offset, SetReplOffset(n, o)
    PROVE  IndInv' /\ \A q \in Node : node'[q].epoch >= node[q].epoch
<1>. DEFINE s == [node[n] EXCEPT !.offset = o]
<1>1. node \in [Node -> ElectorState] /\ Settled(n, node[n], granted, elected)
  BY IndInvRestated
<1>2. /\ s \in ElectorState
      /\ s.role = node[n].role /\ s.epoch = node[n].epoch /\ s.votes = node[n].votes
      /\ s.currentPrimary = node[n].currentPrimary /\ s.saved = node[n].saved
  BY <1>1 DEF ElectorState
<1>3. Settled(n, s, granted, elected)
  BY <1>1, <1>2 DEF Settled, Sane, Fresh, Stale
<1>4. node' = [node EXCEPT ![n] = s] /\ UNCHANGED <<net, granted, elected>>
  BY <1>1 DEF SetReplOffset
<1>. HIDE DEF s
<1>. QED  BY <1>2, <1>3, <1>4, LocalStep, Zenon

\* A restarted node comes back in the epoch it had, as a replica.
LEMMA RestartStep ==
    ASSUME IndInv, NEW n \in Node, Restart(n)
    PROVE  IndInv' /\ \A q \in Node : node'[q].epoch >= node[q].epoch
<1>. DEFINE s == Boot(node[n].saved)
<1>1. /\ node \in [Node -> ElectorState] /\ node[n] \in ElectorState
      /\ Settled(n, node[n], granted, elected)
  BY IndInvRestated
<1>2. node[n].saved \in SavedPair /\ node[n].epoch \in Epoch
  BY <1>1 DEF ElectorState
<1>3. /\ s.role = "replica" /\ s.epoch = node[n].epoch /\ s.currentPrimary = None
      /\ s.saved = node[n].saved
  BY <1>1, Zenon DEF Boot, Settled, Sane
<1>4. s \in ElectorState
  <2>1. s.lastAccept \in 0 .. MaxEpoch
    <3>1. node[n].saved.epoch \in 0 .. MaxEpoch /\ 0 \in 0 .. MaxEpoch
      BY <1>2, BoundAssumption DEF SavedPair
    <3>. QED  BY <3>1 DEF Boot
  <2>. QED  BY <1>2, <1>3, <2>1, OffsetAssumption, Zenon DEF Boot, ElectorState, Role
<1>5. Settled(n, s, granted, elected)
  BY <1>1, <1>3, <1>4, Zenon DEF Settled, Sane
<1>6. node' = [node EXCEPT ![n] = s] /\ UNCHANGED <<net, granted, elected>>
  BY DEF Restart
<1>. HIDE DEF s
<1>. QED  BY <1>3, <1>5, <1>6, LocalStep, Zenon

LEMMA InitIndInv == Init => IndInv
<1>. SUFFICES ASSUME Init PROVE IndInv
  OBVIOUS
<1>. DEFINE s == Boot([epoch |-> 0, votedFor |-> None])
<1>1. /\ s.role = "replica" /\ s.epoch = 1 /\ s.currentPrimary = None
      /\ s.saved = [epoch |-> 0, votedFor |-> None]
  BY SMTT(30) DEF Boot
<1>2. s \in ElectorState
  BY BoundAssumption, OffsetAssumption, SMTT(60) DEF Boot, ElectorState, SavedPair, Epoch, Role
<1>3. \A n \in Node : Settled(n, s, granted, elected)
  BY SMTT(30), <1>1, <1>2 DEF Settled, Sane
<1>4. node = [n \in Node |-> s] /\ net = {} /\ granted = {} /\ elected = {}
  BY DEF Init
<1>. HIDE DEF s
<1>5. node \in [Node -> ElectorState] /\ \A n \in Node : Settled(n, node[n], granted, elected)
  BY <1>2, <1>3, <1>4
<1>6. VotesOK(node, granted) /\ MsgsOK(node, net, granted, elected) /\ WinsOK(granted, elected)
  BY <1>4 DEF VotesOK, MsgsOK, WinsOK
<1>. QED  BY <1>5, <1>6, IndInvRestated

\* What one step of the system does: it keeps IndInv and no epoch goes back.
LEMMA NextStep ==
    ASSUME IndInv, [Next]_vars
    PROVE  IndInv' /\ \A p \in Node : node'[p].epoch >= node[p].epoch
<1>1. ASSUME NEW m \in net, Receive(m)
      PROVE  IndInv' /\ \A p \in Node : node'[p].epoch >= node[p].epoch
  BY <1>1, ReceiveStep
<1>2. ASSUME NEW m \in net, Lose(m)
      PROVE  IndInv' /\ \A p \in Node : node'[p].epoch >= node[p].epoch
  BY <1>2, LoseStep
<1>3. ASSUME NEW n \in MayRestart, Restart(n)
      PROVE  IndInv' /\ \A p \in Node : node'[p].epoch >= node[p].epoch
  BY <1>3, RestartStep, BoundAssumption
<1>4. ASSUME NEW n \in Node, TimeoutPump(n)
      PROVE  IndInv' /\ \A p \in Node : node'[p].epoch >= node[p].epoch
  BY <1>4, TimeoutPumpStep
<1>5. ASSUME NEW n \in Node, NEW q \in Peers(n), ForgetPeer(n, q)
      PROVE  IndInv' /\ \A p \in Node : node'[p].epoch >= node[p].epoch
  BY <1>5, ForgetPeerStep DEF Peers
<1>6. ASSUME NEW r \in Reports, SetReplOffset(r[1], r[2])
      PROVE  IndInv' /\ \A p \in Node : node'[p].epoch >= node[p].epoch
  <2>1. r[1] \in Node /\ r[2] \in Offset
    BY BoundAssumption
  <2>. QED  BY <1>6, <2>1, SetReplOffsetStep
<1>7. ASSUME UNCHANGED vars
      PROVE  IndInv' /\ \A p \in Node : node'[p].epoch >= node[p].epoch
  <2>1. node' = node /\ net' = net /\ granted' = granted /\ elected' = elected
    BY <1>7 DEF vars
  <2>2. \A p \in Node : node[p].epoch \in Int
    BY IndInvRestated, BoundAssumption DEF ElectorState, Epoch
  <2>. QED  BY <2>1, <2>2, IndInvRestated, IndInvNextRestated
<1>. QED  BY <1>1, <1>2, <1>3, <1>4, <1>5, <1>6, <1>7 DEF Next

-----------------------------------------------------------------------------
(* The theorems *)

\* Every reachable state of the electors satisfies the inductive invariant:
\* the saved pair carries the epoch, a message is evidence of the vote or the
\* victory behind it, and a tally is backed by votes or stale.
THEOREM Invariance == Spec => []IndInv
<1>1. IndInv /\ [Next]_vars => IndInv'
  BY NextStep
<1>. QED  BY <1>1, InitIndInv, PTL DEF Spec

\* Whatever is lost, delayed or reordered, and whoever crashes, the state of
\* every elector, every message and every vote stays within its type.
THEOREM TypeCorrect == Spec => []TypeOK
<1>1. IndInv => TypeOK
  BY DEF IndInv
<1>. QED  BY <1>1, Invariance, PTL

\* No node votes for two candidates of one epoch (on_offer together with
\* maybe_start_election and the saved pair).
THEOREM VotesOnce == Spec => []VoteOnce
<1>1. IndInv => VoteOnce
  BY DEF IndInv
<1>. QED  BY <1>1, Invariance, PTL

\* Every winner was voted in by a strict majority in the epoch it won.
THEOREM MajorityElects == Spec => []ElectedByMajority
<1>1. IndInv => ElectedByMajority
  BY DEF IndInv
<1>. QED  BY <1>1, Invariance, PTL

\* An epoch has at most one winner, for any number of nodes: the voters of
\* two winners are majorities, a node is in both, and it voted once.
THEOREM ElectionIsSafe == Spec => []ElectionSafety
<1>1. IndInv => ElectionSafety
  <2>. SUFFICES ASSUME IndInv, NEW x \in elected, NEW y \in elected, x.epoch = y.epoch
                PROVE  x.winner = y.winner
    BY DEF ElectionSafety
  <2>. DEFINE S == Voters(x.epoch, x.winner)
              T == Voters(y.epoch, y.winner)
  <2>1. Majority(S) /\ Majority(T)
    BY DEF IndInv, ElectedByMajority
  <2>2. S \subseteq Node /\ T \subseteq Node
    BY DEF Voters
  <2>3. /\ IsFiniteSet(S) /\ IsFiniteSet(T)
        /\ Cardinality(S) \in Nat /\ Cardinality(T) \in Nat
    BY <2>2, NodeAssumption, FS_Subset, FS_CardinalityType
  <2>4. Cardinality(S) + Cardinality(T) > Cardinality(Node)
    BY <2>1, <2>3, CardinalityNode DEF Majority
  <2>5. PICK v \in Node : v \in S /\ v \in T
    <3>. HIDE DEF S, T
    <3>1. S \cap T # {}
      BY <2>2, <2>3, <2>4, NodeAssumption, FS_MajoritiesIntersect, Zenon
    <3>. QED  BY <2>2, <3>1
  <2>. DEFINE a == [epoch |-> x.epoch, voter |-> v, candidate |-> x.winner]
              b == [epoch |-> y.epoch, voter |-> v, candidate |-> y.winner]
  <2>6. a \in granted /\ b \in granted
    BY <2>5 DEF Voters
  <2>7. a.epoch = b.epoch /\ a.voter = b.voter
    OBVIOUS
  <2>8. a.candidate = b.candidate
    BY <2>6, <2>7 DEF IndInv, VoteOnce
  <2>. QED  BY <2>8
<1>. QED  BY <1>1, Invariance, PTL

\* A message never carries an epoch its sender could forget in a crash.
THEOREM SavedBeforeSent == Spec => []DurableBeforeVisible
<1>1. IndInv => DurableBeforeVisible
  <2>. SUFFICES ASSUME IndInv, NEW m \in net, m.epoch > 1
                PROVE  m.epoch <= node[m.from].saved.epoch
    BY DEF DurableBeforeVisible
  <2>1. m.from \in Node /\ m.epoch \in Int
    BY BoundAssumption DEF IndInv, TypeOK, Message, Hb, Offer, Accept, Announce, Epoch
  <2>. DEFINE s == node[m.from]
  <2>2. s \in ElectorState /\ m.epoch <= s.epoch
    BY <2>1, Zenon DEF IndInv, TypeOK, MsgInv
  <2>3. s.epoch \in Int /\ s.saved.epoch \in Int
    BY <2>2, BoundAssumption DEF ElectorState, SavedPair, Epoch
  <2>4. s.epoch = IF s.saved.epoch > 1 THEN s.saved.epoch ELSE 1
    BY <2>1 DEF IndInv, SavedIsEpoch
  <2>. QED  BY <2>1, <2>2, <2>3, <2>4
<1>. QED  BY <1>1, Invariance, PTL

\* A node only takes for primary a node that won an election.
THEOREM PrimariesWereElected == Spec => []KnownPrimaryWasElected
<1>1. IndInv => KnownPrimaryWasElected
  BY DEF IndInv
<1>. QED  BY <1>1, Invariance, PTL

-----------------------------------------------------------------------------
(* The electors implement Leadership *)

\* A step is a step of one node, and crowns at most that node, in the epoch
\* the node then is in.
OneMoves(n) ==
    /\ \A p \in Node : p # n => node'[p] = node[p]
    /\ \/ elected' = elected
       \/ elected' = elected \cup {[epoch |-> node'[n].epoch, winner |-> n]}

\* The epoch a candidacy is won in is the one the node is left in.
LEMMA TickMovesOne ==
    ASSUME NEW n \in Node, NEW s1, NEW late, NEW reached, NEW consumed,
           NEW replies, NEW cast, node \in [Node -> ElectorState],
           node' \in [Node -> ElectorState],
           Tick(n, s1, late, reached, consumed, replies, cast)
    PROVE  OneMoves(n)
<1>. DEFINE started == ElectionPreconditionsMet(n, s1, late)
            s2 == MaybeStartElection(n, s1, late)
            s3 == MaybeFinishCandidacy(n, s2, late /\ ~started)
            x == [epoch |-> s2.epoch, winner |-> n]
<1>1. /\ node' = [node EXCEPT ![n] = s3]
      /\ elected' = elected \cup (IF Wins(s2) THEN {x} ELSE {})
  BY DEF Tick
<1>2. s3 \in ElectorState
  BY <1>1
<1>. HIDE DEF s2
<1>3. s3.epoch = s2.epoch
  BY <1>2 DEF MaybeFinishCandidacy, ElectorState
<1>. HIDE DEF s3
<1>4. node'[n].epoch = s2.epoch
  BY <1>1, <1>3
<1>5. \A p \in Node : p # n => node'[p] = node[p]
  BY <1>1
<1>6. elected' = elected \/ elected' = elected \cup {x}
  BY <1>1
<1>. QED  BY SMTT(30), <1>4, <1>5, <1>6 DEF OneMoves

LEMMA NextMovesOne ==
    ASSUME IndInv, IndInv', Next
    PROVE  \E n \in Node : OneMoves(n)
<1>1. /\ node \in [Node -> ElectorState] /\ node' \in [Node -> ElectorState]
      /\ \A m \in net : m.to \in Node /\ m.from \in Node
  BY DEF IndInv, TypeOK, Message, Hb, Offer, Accept, Announce
<1>2. ASSUME NEW m \in net, Receive(m)
      PROVE  \E n \in Node : OneMoves(n)
  <2>1. m.to \in Node
    BY <1>1
  <2>2. OneMoves(m.to)
    BY <1>1, <1>2, <2>1, TickMovesOne, Zenon DEF Receive
  <2>. QED  BY <2>1, <2>2
<1>3. ASSUME NEW m \in net, Lose(m)
      PROVE  \E n \in Node : OneMoves(n)
  BY <1>1, <1>3 DEF Lose, OneMoves
<1>4. ASSUME NEW n \in Node, TimeoutPump(n)
      PROVE  OneMoves(n)
  BY <1>1, <1>4, TickMovesOne, Zenon DEF TimeoutPump
<1>5. ASSUME NEW n \in Node, NEW p \in Peers(n), ForgetPeer(n, p)
      PROVE  OneMoves(n)
  BY <1>1, <1>5 DEF ForgetPeer, OneMoves
<1>6. ASSUME NEW n \in Node, NEW o, SetReplOffset(n, o)
      PROVE  OneMoves(n)
  BY <1>1, <1>6 DEF SetReplOffset, OneMoves
<1>7. ASSUME NEW n \in Node, Restart(n)
      PROVE  OneMoves(n)
  BY <1>1, <1>7 DEF Restart, OneMoves
<1>8. MayRestart \subseteq Node /\ \A r \in Reports : r[1] \in Node
  BY BoundAssumption
<1>. QED  BY SMTT(30), <1>2, <1>3, <1>4, <1>5, <1>6, <1>7, <1>8 DEF Next

LEMMA NextKeepsLeadership ==
    ASSUME IndInv, IndInv', ElectionSafety', [Next]_vars
    PROVE  [Service!Next]_<<[n \in Node |-> node[n].epoch], elected,
                            [n \in Node |-> node[n].currentPrimary]>>
<1>1. CASE UNCHANGED vars
  BY <1>1 DEF vars
<1>2. CASE Next
  <2>1. PICK n \in Node : OneMoves(n)
    BY <1>2, NextMovesOne
  <2>2. \A p \in Node : node'[p].epoch >= node[p].epoch
    BY NextStep
  <2>3. \A p \in Node : node'[p].epoch \in Nat
    BY BoundAssumption DEF IndInv, TypeOK, ElectorState, Epoch
  <2>. DEFINE x == [epoch |-> node'[n].epoch, winner |-> n]
              crown == /\ \A y \in elected : y.epoch # node'[n].epoch
                       /\ elected' = elected \cup {x}
  <2>4. elected' = elected \/ crown
    <3>. SUFFICES ASSUME elected' # elected, NEW y \in elected, y.epoch = x.epoch
                  PROVE  FALSE
      BY <2>1 DEF OneMoves
    <3>1. elected' = elected \cup {x}
      BY <2>1 DEF OneMoves
    <3>2. y \in elected' /\ x \in elected'
      BY <3>1
    <3>3. y.winner = n
      BY <3>2 DEF ElectionSafety
    <3>4. y \in Victory
      BY DEF IndInv, TypeOK
    <3>5. y = x
      BY <3>3, <3>4 DEF Victory
    <3>. QED  BY <3>1, <3>5
  <2>5. Service!Followable(node'[n].currentPrimary, node'[n].epoch, elected')
    BY DEF IndInv, KnownPrimaryWasElected, WonBy, Service!Followable
  <2>6. \A p \in Node : p # n => node'[p] = node[p]
    BY SMTT(30), <2>1 DEF OneMoves
  <2>7. Service!Move(n)
    BY <2>2, <2>3, <2>4, <2>5, <2>6, Zenon DEF Service!Move, Service!Crown
  <2>. QED  BY <2>7 DEF Service!Next
<1>. QED  BY <1>1, <1>2

\* Whatever the number of nodes and epochs, the electors are a leadership
\* service: epochs only rise, over a crash and restart included, an epoch is
\* won once, and nobody follows a node before it won.
THEOREM ElectorsKeepLeadership == Spec => KeepsLeadership
<1>1. Init => Service!Init
  <2>. SUFFICES ASSUME Init PROVE Service!Init
    OBVIOUS
  <2>1. IndInv
    BY InitIndInv
  <2>2. elected = {}
    BY DEF Init
  <2>3. \A n \in Node : node[n].epoch \in Nat
    BY <2>1, BoundAssumption DEF IndInv, TypeOK, ElectorState, Epoch
  <2>4. \A n \in Node : node[n].currentPrimary = None
    BY DEF Init, Boot
  <2>. QED  BY <2>2, <2>3, <2>4 DEF Service!Init, Service!Followable
<1>2. IndInv /\ IndInv' /\ ElectionSafety' /\ [Next]_vars
        => [Service!Next]_<<[n \in Node |-> node[n].epoch], elected,
                            [n \in Node |-> node[n].currentPrimary]>>
  BY NextKeepsLeadership
<1>. QED
  BY <1>1, <1>2, Invariance, ElectionIsSafe, PTL DEF Spec, KeepsLeadership, Service!Spec
=============================================================================
