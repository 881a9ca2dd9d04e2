------------------------------ MODULE Elector ------------------------------
(***************************************************************************)
(* The primary election of kevy-elect: one elector per cluster node, the   *)
(* transport that pumps messages into it, and the (epoch, voted_for) pair  *)
(* each node keeps on disk.                                                *)
(*                                                                         *)
(* An elector is a pure state machine (`Elector`), so its methods are      *)
(* operators from a node's state s to its next state.  The transport's     *)
(* orchestrator runs on_message and then tick under one lock, hence a      *)
(* single action: Receive.  Time is abstracted: each tick chooses whether  *)
(* its timers have elapsed (`late'), and a peer's heartbeat is either      *)
(* recent (the view holds the offset it claimed) or older than down_after  *)
(* (the view holds None).                                                  *)
(***************************************************************************)
EXTENDS Integers, FiniteSets

CONSTANTS
    Node,       \* node ids; the byte order of ids is the order of numbers
    None,       \* the absent value of an Option
    Offset,     \* replication offsets a node may report
    MaxEpoch,   \* bound: no candidacy is started from this epoch
    MaxHb,      \* bound: heartbeats in flight
    HbLinks,    \* bound: the links <<from, to>> heartbeats get through on
    MayStand,   \* bound: the nodes that may start a candidacy
    MayRestart, \* bound: the nodes that may crash and restart
    Reports     \* bound: the offset reports <<node, offset>> that may happen

ASSUME NodeAssumption == Node \subseteq Nat /\ IsFiniteSet(Node)
ASSUME NoneAssumption == None \notin Nat
ASSUME OffsetAssumption == Offset \subseteq Nat /\ 0 \in Offset
ASSUME BoundAssumption ==
    /\ MaxEpoch \in Nat \ {0} /\ MaxHb \in Nat
    /\ HbLinks \subseteq Node \X Node /\ MayStand \subseteq Node
    /\ MayRestart \subseteq Node /\ Reports \subseteq Node \X Offset

VARIABLES
    node,       \* node[n]: the elector of n and its saved pair
    net,        \* messages in flight, one copy for each receiver
    granted,    \* history: every vote cast, self-votes included
    elected     \* history: every candidacy that reached its quorum

vars == <<node, net, granted, elected>>

-----------------------------------------------------------------------------
(* Types *)

Epoch == 1 .. MaxEpoch

Role == {"primary", "replica", "candidate"}

\* `voted_for` is None before the first save and when an epoch was followed.
SavedPair == [epoch : 0 .. MaxEpoch, votedFor : Node \cup {None}]

ElectorState ==
    [role : Role, epoch : Epoch, currentPrimary : Node \cup {None},
     lastAccept : 0 .. MaxEpoch, votes : SUBSET Node,
     offset : Offset, view : [Node -> Offset \cup {None}],
     saved : SavedPair]

Hb == [type : {"hb"}, from : Node, to : Node, epoch : Epoch, role : Role,
       offset : Offset]
Offer == [type : {"offer"}, from : Node, to : Node, epoch : Epoch,
          offset : Offset]
Accept == [type : {"accept"}, from : Node, to : Node, epoch : Epoch]
Announce == [type : {"announce"}, from : Node, to : Node, epoch : Epoch]

Message == Hb \cup Offer \cup Accept \cup Announce

Vote == [epoch : Epoch, voter : Node, candidate : Node]
Victory == [epoch : Epoch, winner : Node]

-----------------------------------------------------------------------------
(* Boot and restart *)

\* Mutant: the saved pair is not loaded.
BootForgets(saved) ==
    [role |-> "replica", epoch |-> 1, currentPrimary |-> None,
     lastAccept |-> 0, votes |-> {}, offset |-> 0,
     view |-> [p \in Node |-> None], saved |-> saved]

\* Elector::new(.., Role::Replica).with_persist(disk): the server always
\* boots a quorum member as a replica, whatever role its config asks for.
Boot(saved) ==
    [role |-> "replica",
     epoch |-> IF saved.epoch > 1 THEN saved.epoch ELSE 1,
     currentPrimary |-> None,
     lastAccept |-> IF saved.votedFor # None THEN saved.epoch ELSE 0,
     votes |-> {},
     offset |-> 0, view |-> [p \in Node |-> None],
     saved |-> saved]

Init ==
    /\ node = [n \in Node |-> Boot([epoch |-> 0, votedFor |-> None])]
    /\ net = {}
    /\ granted = {}
    /\ elected = {}

-----------------------------------------------------------------------------
(* Policy helpers *)

QuorumSize == Cardinality(Node) \div 2 + 1

IsPeerDown(s, p) == s.view[p] = None

\* Highest offset among the peers believed alive, ties to the lowest id; the
\* known primary does not take part.
AmBestCandidate(n, s) ==
    \A p \in Node \ {n, s.currentPrimary} :
        \/ IsPeerDown(s, p)
        \/ s.view[p] < s.offset
        \/ s.view[p] = s.offset /\ n < p

Save(s, e, id) == [s EXCEPT !.saved = [epoch |-> e, votedFor |-> id]]

-----------------------------------------------------------------------------
(* Inbound messages *)

\* Mutant: only a newer epoch makes a node follow.
FollowsNewerOnly(s, m) == m.role = "primary" /\ m.epoch > s.epoch

\* Mutant: only a node without a primary follows.
FollowsWhenNoneKnown(s, m) ==
    m.role = "primary" /\ m.epoch >= s.epoch /\ s.currentPrimary = None

\* A primary's heartbeat is followed when its epoch is newer, or when it
\* equals ours and we know of no primary.
FollowsHb(s, m) ==
    /\ m.role = "primary"
    /\ \/ m.epoch > s.epoch
       \/ m.epoch = s.epoch /\ s.currentPrimary = None /\ s.role = "replica"

\* The sender of a heartbeat is always a peer, so a primary steps down.
FollowPrimaryHb(s, m) ==
    LET durable == IF m.epoch > s.epoch THEN Save(s, m.epoch, None) ELSE s
        known == [durable EXCEPT !.epoch = m.epoch, !.currentPrimary = m.from]
    IN  IF s.role = "candidate"
        THEN [known EXCEPT !.role = "replica", !.votes = {}]
        ELSE [known EXCEPT !.role = "replica"]

OnHb(s, m) ==
    LET seen == [s EXCEPT !.view[m.from] = m.offset]
    IN  IF FollowsHb(s, m) THEN FollowPrimaryHb(seen, m) ELSE seen

\* Mutant: an OFFER of the current epoch is not stale yet.
GrantsSameEpoch(n, s, m) ==
    /\ m.epoch >= s.epoch
    /\ s.offset < m.offset \/ (s.offset = m.offset /\ m.from <= n)
    /\ s.lastAccept # m.epoch

\* The four early returns of on_offer, negated.
Grants(n, s, m) ==
    /\ m.epoch > s.epoch
    /\ \/ s.offset < m.offset
       \/ s.offset = m.offset /\ m.from <= n
    /\ s.lastAccept # m.epoch

\* Mutant: the vote is not saved.
OnOfferUnsaved(n, s, m) ==
    IF Grants(n, s, m)
    THEN [s EXCEPT !.lastAccept = m.epoch, !.epoch = m.epoch] ELSE s

\* Voting moves the epoch and leaves the role and the tally alone.
OnOffer(n, s, m) ==
    IF Grants(n, s, m)
    THEN [Save(s, m.epoch, m.from) EXCEPT
             !.lastAccept = m.epoch, !.epoch = m.epoch]
    ELSE s

OnAccept(s, m) ==
    IF s.role = "candidate" /\ s.epoch = m.epoch
    THEN [s EXCEPT !.votes = @ \cup {m.from}]
    ELSE s

StaleAnnounce(s, m) ==
    \/ m.epoch <= s.epoch /\ s.currentPrimary = m.from
    \/ m.epoch < s.epoch

OnAnnounce(n, s, m) ==
    IF StaleAnnounce(s, m)
    THEN s
    ELSE [Save(s, m.epoch, m.from) EXCEPT
             !.epoch = m.epoch, !.currentPrimary = m.from,
             !.lastAccept = m.epoch, !.votes = {},
             !.role = IF m.from = n THEN "primary" ELSE "replica"]

OnMessage(n, s, m) ==
    CASE m.type = "hb"       -> OnHb(s, m)
      [] m.type = "offer"    -> OnOffer(n, s, m)
      [] m.type = "accept"   -> OnAccept(s, m)
      [] m.type = "announce" -> OnAnnounce(n, s, m)

-----------------------------------------------------------------------------
(* The tick path *)

ElectionPreconditionsMet(n, s, late) ==
    /\ s.role = "replica"
    /\ late
    /\ s.currentPrimary # None => IsPeerDown(s, s.currentPrimary)
    /\ AmBestCandidate(n, s)
    /\ s.epoch < MaxEpoch /\ n \in MayStand

MaybeStartElection(n, s, late) ==
    IF ElectionPreconditionsMet(n, s, late)
    THEN [Save(s, s.epoch + 1, n) EXCEPT
             !.epoch = s.epoch + 1, !.role = "candidate", !.votes = {n}]
    ELSE s

Wins(s) ==
    /\ s.role = "candidate"
    /\ Cardinality(s.votes) >= QuorumSize

\* Mutant: a tally that reaches the quorum waits for one more vote.
FinishLate(n, s, late) ==
    IF Wins(s) /\ Cardinality(s.votes) > QuorumSize
    THEN [s EXCEPT !.role = "primary", !.currentPrimary = n, !.votes = {}]
    ELSE IF s.role = "candidate" /\ late
    THEN [s EXCEPT !.role = "replica", !.votes = {}]
    ELSE s

MaybeFinishCandidacy(n, s, late) ==
    IF Wins(s)
    THEN [s EXCEPT !.role = "primary", !.currentPrimary = n,
                   !.votes = {}]
    ELSE IF s.role = "candidate" /\ late
    THEN [s EXCEPT !.role = "replica", !.votes = {}]
    ELSE s

-----------------------------------------------------------------------------
(* Sending *)

Peers(n) == Node \ {n}

Hears(n) == {p \in Peers(n) : <<n, p>> \in HbLinks}

\* emit_heartbeats runs first in tick, so it sends the state before a
\* candidacy starts or ends.  Every peer is due at the same instant.
Heartbeats(n, s, reached) ==
    [type : {"hb"}, from : {n}, to : reached, epoch : {s.epoch},
     role : {s.role}, offset : {s.offset}]

Offers(n, s) ==
    [type : {"offer"}, from : {n}, to : Peers(n), epoch : {s.epoch},
     offset : {s.offset}]

Announces(n, s) ==
    [type : {"announce"}, from : {n}, to : Peers(n), epoch : {s.epoch}]

Accepts(n, m) ==
    [type : {"accept"}, from : {n}, to : {m.from}, epoch : {m.epoch}]

\* Bound: the heartbeats that are not lost at once have room in flight.
HbRoom(reached) ==
    Cardinality({m \in net : m.type = "hb"}) + Cardinality(reached) <= MaxHb

-----------------------------------------------------------------------------
(* Actions *)

\* Elector::tick on the state s1 that on_message left, then the fan-out of
\* everything the pump produced: `replies` are on_message's, `consumed` is
\* the message taken from the channel and `votes` the votes it made n cast.
Tick(n, s1, late, reached, consumed, replies, votes) ==
    LET started == ElectionPreconditionsMet(n, s1, late)
        s2 == MaybeStartElection(n, s1, late)
        s3 == MaybeFinishCandidacy(n, s2, late /\ ~started)
        won == Wins(s2)
    IN  /\ HbRoom(reached)
        /\ node' = [node EXCEPT ![n] = s3]
        /\ net' = (net \ consumed) \cup replies
                    \cup Heartbeats(n, s1, reached)
                    \cup (IF started THEN Offers(n, s2) ELSE {})
                    \cup (IF won THEN Announces(n, s2) ELSE {})
        /\ granted' = granted \cup votes
             \cup (IF started
                   THEN {[epoch |-> s2.epoch, voter |-> n, candidate |-> n]}
                   ELSE {})
        /\ elected' = elected
             \cup (IF won THEN {[epoch |-> s2.epoch, winner |-> n]} ELSE {})

\* pump_inbound, the channel timed out.
TimeoutPump(n) == 
    \E late \in BOOLEAN, reached \in SUBSET Hears(n) :
        Tick(n, node[n], late, reached, {}, {}, {})

\* pump_inbound, a message arrived.
Receive(m) ==
    LET n == m.to
        grants == m.type = "offer" /\ Grants(n, node[n], m)
    IN  \E late \in BOOLEAN, reached \in SUBSET Hears(n) :
            Tick(n, OnMessage(n, node[n], m), late, reached, {m},
                 IF grants THEN Accepts(n, m) ELSE {},
                 IF grants
                 THEN {[epoch |-> m.epoch, voter |-> n, candidate |-> m.from]}
                 ELSE {})

\* The network loses a message: a broken connection takes what the kernel
\* had buffered, and a full outbound queue drops the newest message.
Lose(m) ==
    /\ net' = net \ {m}
    /\ UNCHANGED <<node, granted, elected>>

\* down_after passes without a heartbeat from p.
ForgetPeer(n, p) ==
    /\ node[n].view[p] # None
    /\ node' = [node EXCEPT ![n].view[p] = None]
    /\ UNCHANGED <<net, granted, elected>>

\* The server reports the offset of its replication source or runner.
SetReplOffset(n, o) ==
    /\ node[n].offset # o
    /\ node' = [node EXCEPT ![n].offset = o]
    /\ UNCHANGED <<net, granted, elected>>

\* The process dies and comes back with what elect.meta holds.
Restart(n) ==
    /\ node' = [node EXCEPT ![n] = Boot(node[n].saved)]
    /\ UNCHANGED <<net, granted, elected>>

Next ==
    \/ \E m \in net : Receive(m) \/ Lose(m)
    \/ \E n \in MayRestart : Restart(n)
    \/ \E n \in Node :
        \/ TimeoutPump(n)
        \/ \E p \in Peers(n) : ForgetPeer(n, p)
    \/ \E r \in Reports : SetReplOffset(r[1], r[2])

Spec == Init /\ [][Next]_vars

\* A heartbeat of n leaves for p; a heartbeat from a reaches b; n ticks with
\* its timers elapsed.
Beat(n, p) == \E late \in BOOLEAN : Tick(n, node[n], late, {p}, {}, {}, {})

DeliverHb(a, b) ==
    \E m \in net : m.type = "hb" /\ m.from = a /\ m.to = b /\ Receive(m)

LateTick(n) == \E reached \in SUBSET Hears(n) :
    Tick(n, node[n], TRUE, reached, {}, {}, {})

Drain == \E m \in net : m.type # "hb" /\ (Receive(m) \/ Lose(m))

Fairness ==
    /\ \A l \in HbLinks : /\ SF_vars(Beat(l[1], l[2]))
                         /\ SF_vars(DeliverHb(l[1], l[2]))
    /\ \A n \in Node : WF_vars(LateTick(n))
    /\ WF_vars(Drain)

FairSpec == Spec /\ Fairness

-----------------------------------------------------------------------------
(* Properties *)

TypeOK ==
    /\ node \in [Node -> ElectorState]
    /\ net \subseteq Message
    /\ granted \subseteq Vote
    /\ elected \subseteq Victory

Majority(S) == 2 * Cardinality(S) > Cardinality(Node)

Voters(e, c) == {v \in Node : [epoch |-> e, voter |-> v, candidate |-> c] \in granted}

\* At most one candidacy of an epoch ever succeeds, whatever messages are
\* lost, delayed or reordered and whichever nodes crash in between.
ElectionSafety ==
    \A x, y \in elected : x.epoch = y.epoch => x.winner = y.winner

\* A node votes for one candidate of an epoch only, its own candidacy
\* included, and a crash between two OFFERs does not make it forget that.
VoteOnce ==
    \A x, y \in granted :
        x.epoch = y.epoch /\ x.voter = y.voter => x.candidate = y.candidate

\* A winner was voted in, in the epoch it won, by a majority of the cluster:
\* a tally left from an earlier epoch never makes a primary.
ElectedByMajority ==
    \A x \in elected : Majority(Voters(x.epoch, x.winner))

\* No message carries an epoch that its sender could forget in a crash: the
\* pair is saved before the vote, the OFFER or the heartbeat leaves.
DurableBeforeVisible ==
    \A m \in net : m.epoch > 1 => m.epoch <= node[m.from].saved.epoch

\* p won an election of epoch e or earlier.
WonBy(p, e) == \E x \in elected : x.winner = p /\ x.epoch <= e

\* A node only ever takes for primary, itself included, a node that won an
\* election of its own or an earlier epoch.
KnownPrimaryWasElected ==
    \A n \in Node :
        /\ node[n].role = "primary" => WonBy(n, node[n].epoch)
        /\ node[n].currentPrimary # None
             => WonBy(node[n].currentPrimary, node[n].epoch)

\* A term is an epoch, the crowned are the winners, and a node follows the
\* primary it knows of.
Service == INSTANCE Leadership WITH
    term <- [n \in Node |-> node[n].epoch],
    crowned <- elected,
    follows <- [n \in Node |-> node[n].currentPrimary]

\* The electors keep the promise of a leadership service: no step, a crash
\* and restart included, takes an epoch back, crowns a second primary of an
\* epoch, or makes a node follow one that was not crowned by then.
KeepsLeadership == Service!Spec

\* p won the epoch every node is in, and holds it.
Reigns(p) ==
    /\ node[p].role = "primary"
    /\ [epoch |-> node[p].epoch, winner |-> p] \in elected
    /\ \A n \in Node : node[n].epoch = node[p].epoch

\* A node that knows of no primary learns of one from its heartbeats alone.
NewcomerLearnsPrimary ==
    \A p \in Node : <>[]Reigns(p) =>
        \A n \in Hears(p) : []<>(node[n].currentPrimary # None)

\* A node that missed a whole election catches up with the winner's epoch
\* from its heartbeats alone.
LaggardCatchesUp ==
    \A p \in Node, e \in Epoch :
        <>[](node[p].role = "primary" /\ node[p].epoch = e) =>
            \A n \in Hears(p) : <>[](node[n].epoch >= e)

-----------------------------------------------------------------------------
(* The inductive invariant behind ElectionSafety *)

\* The durable epoch is the epoch: every change of it is saved first.
SavedIsEpoch ==
    \A n \in Node :
        node[n].epoch = IF node[n].saved.epoch > 1 THEN node[n].saved.epoch ELSE 1

\* What a message in flight is evidence of.
MsgInv ==
    \A m \in net :
        /\ m.from # m.to
        /\ m.epoch <= node[m.from].epoch
        /\ m.type = "offer" =>
             [epoch |-> m.epoch, voter |-> m.from, candidate |-> m.from] \in granted
        /\ m.type = "accept" =>
             [epoch |-> m.epoch, voter |-> m.from, candidate |-> m.to] \in granted
        /\ m.type = "announce" => [epoch |-> m.epoch, winner |-> m.from] \in elected
        /\ m.type = "hb" /\ m.role = "primary" => WonBy(m.from, m.epoch)

\* A vote is never ahead of its voter, and a candidate votes for itself first.
VoteInv ==
    \A v \in granted :
        /\ v.epoch <= node[v.voter].epoch
        /\ [epoch |-> v.epoch, voter |-> v.candidate, candidate |-> v.candidate]
             \in granted

\* Between pumps no tally has reached the quorum.  A tally is either backed
\* by votes of the current epoch, or it is stale: the candidate has since
\* voted for another one, and no ACCEPT of this epoch can come.
TallyInv ==
    \A n \in Node :
        node[n].role = "candidate" =>
            /\ Cardinality(node[n].votes) < QuorumSize
            /\ \/ node[n].votes \subseteq Voters(node[n].epoch, n)
               \/ \E c \in Peers(n) :
                    [epoch |-> node[n].epoch, voter |-> n, candidate |-> c] \in granted

IndInv ==
    /\ TypeOK
    /\ SavedIsEpoch
    /\ MsgInv
    /\ VoteOnce
    /\ VoteInv
    /\ TallyInv
    /\ ElectedByMajority
    /\ KnownPrimaryWasElected
=============================================================================
