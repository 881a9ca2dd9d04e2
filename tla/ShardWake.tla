----------------------------- MODULE ShardWake ------------------------------
(***************************************************************************)
(* The transport between the shards of crates/kevy-rt, seen from the poll  *)
(* reactor: send_to, the per-peer backlog behind a full ring, the          *)
(* inbound_dirty bitmap a receiver drains by, the drain with its           *)
(* per-source budget, and the park/wake protocol.  A ring is the bounded   *)
(* FIFO channel of module Fifo.  A message carries its number in the       *)
(* stream of its pair; what it asks for is abstracted to its kind: a       *)
(* request is answered by a response, a note asks for nothing.             *)
(*                                                                         *)
(* Memory model.  What a shard writes for another one (a ring push, a bit  *)
(* of inbound_dirty, its own parked flag) reaches the other's loads some   *)
(* time later: pushes and bits of one pair wait, in program order, in      *)
(* `buf', a flag store is pending while `flag' differs from `parked', and  *)
(* `freed' counts the slots a consumer has emptied before its producer     *)
(* knows.  A SeqCst fence waits until nothing of its thread is pending.    *)
(***************************************************************************)
EXTENDS Integers, Sequences, FiniteSets

CONSTANTS
    Shards,       \* number of shards
    RingCap,      \* capacity of a ring
    DrainBudget,  \* DRAIN_SRC_BUDGET
    SpinLimit,    \* spin_limit
    Serving,      \* the shards that have clients and send notes
    MaxRequest,   \* bound: requests the clients of a shard cause
    MaxNote,      \* bound: messages a shard sends after its wake scan
    Timeouts      \* the shards whose blocking wait may end by park_timeout_ms

ASSUME WakeAssumption ==
    /\ Shards \in Nat \ {0}
    /\ RingCap \in Nat \ {0}
    /\ DrainBudget \in Nat \ {0}
    /\ SpinLimit \in Nat
    /\ Serving \subseteq 0 .. (Shards - 1)
    /\ MaxRequest \in Nat
    /\ MaxNote \in Nat
    /\ Timeouts \subseteq 0 .. (Shards - 1)

Shard == 0 .. (Shards - 1)

Pair == {p \in Shard \X Shard : p[1] # p[2]}

Kind == {"request", "response", "note"}

Message == [kind : Kind, n : Nat \ {0}]

\* The entry of `buf' that stands for a fetch_or on inbound_dirty, after the
\* push with number n.
Announce(n) == [kind |-> "announce", n |-> n]

Announcement == [kind : {"announce"}, n : Nat]

VARIABLES
    pc,        \* where a shard's loop is
    idle,      \* idle_spins, up to SpinLimit
    ring,      \* the messages of a ring that its consumer can see
    buf,       \* pushes and announcements not visible yet
    tail,      \* the producer's cursor in a ring: messages ever pushed
    freed,     \* pops of a ring that its producer does not see yet
    backlog,   \* the producer's overflow of a ring
    dirty,     \* inbound_dirty: the sources a shard has to drain
    todo,      \* `mask' of the running drain
    took,      \* messages the running drain took from its current source
    did,       \* did_work of the iteration, or what the drain returns
    owes,      \* pending_wakes
    scan,      \* what is left of flush_wakes's scan
    flag,      \* the last value a shard stored in its parked flag
    parked,    \* the value the other shards load
    waker,     \* the shard's eventfd is readable
    inflight,  \* xshard_inflight
    asked,     \* requests the clients of a shard have caused
    noted,     \* notes a shard has sent
    sent,      \* messages of a pair, ever
    rcvd       \* messages of a pair taken by their receiver

vars == <<pc, idle, ring, buf, tail, freed, backlog, dirty, todo, took, did, owes,
          scan, flag, parked, waker, inflight, asked, noted, sent, rcvd>>

channel == <<ring, buf, tail, freed, backlog, dirty, owes, sent>>
draining == <<todo, took, rcvd>>
parking == <<flag, parked, waker>>
clients == <<asked, noted>>

Loop == {"top", "publish", "recheck", "parkdrain", "unpark", "unparkscan", "wait",
         "look", "drain", "flush", "wake", "wakescan", "tail"}

Init ==
    /\ pc = [s \in Shard |-> "top"]
    /\ idle = [s \in Shard |-> 0]
    /\ ring = [p \in Pair |-> <<>>]
    /\ buf = [p \in Pair |-> <<>>]
    /\ tail = [p \in Pair |-> 0]
    /\ freed = [p \in Pair |-> 0]
    /\ backlog = [p \in Pair |-> <<>>]
    /\ dirty = [s \in Shard |-> {}]
    /\ todo = [s \in Shard |-> {}]
    /\ took = [s \in Shard |-> 0]
    /\ did = [s \in Shard |-> FALSE]
    /\ owes = [s \in Shard |-> {}]
    /\ scan = [s \in Shard |-> {}]
    /\ flag = [s \in Shard |-> FALSE]
    /\ parked = [s \in Shard |-> FALSE]
    /\ waker = [s \in Shard |-> FALSE]
    /\ inflight = [s \in Shard |-> 0]
    /\ asked = [s \in Shard |-> 0]
    /\ noted = [s \in Shard |-> 0]
    /\ sent = [p \in Pair |-> 0]
    /\ rcvd = [p \in Pair |-> 0]

Goto(s, label) == pc' = [pc EXCEPT ![s] = label]

-----------------------------------------------------------------------------
\* Sending.

\* The free slots of a ring, as its producer sees it: from its own cursor and
\* the consumer's, of which the last `freed' steps are not visible yet.
Room(p) == RingCap - (tail[p] - (rcvd[p] - freed[p]))

Spills(p) == backlog[p] # <<>> \/ Room(p) = 0

\* Mutant: a message is pushed and not announced.
StoresUnannounced(p, m) == IF Spills(p) THEN <<>> ELSE <<m>>

\* send_to: into the ring, or behind the backlog when there is one or the
\* ring is full; then the bit of inbound_dirty and of pending_wakes.
Stores(p, m) == IF Spills(p) THEN <<Announce(tail[p])>> ELSE <<m, Announce(m.n)>>

SendTo(s, d, kind) ==
    LET p == <<s, d>>
        m == [kind |-> kind, n |-> sent[p] + 1]
    IN  /\ buf' = [buf EXCEPT ![p] = @ \o Stores(p, m)]
        /\ tail' = [tail EXCEPT ![p] = IF Spills(p) THEN @ ELSE @ + 1]
        /\ backlog' = [backlog EXCEPT ![p] = IF Spills(p) THEN Append(@, m) ELSE @]
        /\ owes' = [owes EXCEPT ![s] = @ \cup {d}]
        /\ sent' = [sent EXCEPT ![p] = @ + 1]

\* flush_backlog: as many messages of each backlog as fit go to the ring, and
\* a peer that got one is announced to again and owed a wake.
Landing(p) ==
    SubSeq(backlog[p], 1, IF Len(backlog[p]) < Room(p) THEN Len(backlog[p]) ELSE Room(p))

Reannounced(p) ==
    IF Landing(p) = <<>> THEN <<>> ELSE Append(Landing(p), Announce(tail[p] + Len(Landing(p))))

\* Mutant: the message popped from the backlog and refused by the ring is gone.
RefusedIsLost(p) == SubSeq(backlog[p], Len(Landing(p)) + 2, Len(backlog[p]))

Remaining(p) == SubSeq(backlog[p], Len(Landing(p)) + 1, Len(backlog[p]))

FlushBacklog(s) ==
    /\ buf' = [p \in Pair |-> IF p[1] = s THEN buf[p] \o Reannounced(p) ELSE buf[p]]
    /\ tail' = [p \in Pair |-> IF p[1] = s THEN tail[p] + Len(Landing(p)) ELSE tail[p]]
    /\ backlog' = [p \in Pair |-> IF p[1] = s THEN Remaining(p) ELSE backlog[p]]
    /\ owes' = [owes EXCEPT ![s] = @ \cup {d \in Shard \ {s} : Landing(<<s, d>>) # <<>>}]

-----------------------------------------------------------------------------
\* Draining.

\* The lowest bit of a mask, if one is set.
Lowest(S) == {x \in S : \A y \in S : x <= y}

\* drain_inbound: nothing to do on a zero mask, else swap it to zero and walk
\* its bits.
DrainInbound(s, nothing, walk) ==
    /\ todo' = [todo EXCEPT ![s] = dirty[s]]
    /\ dirty' = [dirty EXCEPT ![s] = {}]
    /\ took' = [took EXCEPT ![s] = 0]
    /\ Goto(s, IF dirty[s] = {} THEN nothing ELSE walk)
    /\ UNCHANGED <<idle, ring, buf, tail, freed, backlog, owes, sent, rcvd, did, scan,
                   parking, inflight, clients>>

\* What handling a message does: the owner of a request answers its origin.
Handle(s, src, kind) ==
    \/ /\ kind = "request"
       /\ SendTo(s, src, "response")
       /\ UNCHANGED inflight
    \/ /\ kind = "response"
       /\ inflight' = [inflight EXCEPT ![s] = IF @ = 0 THEN 0 ELSE @ - 1]
       /\ UNCHANGED <<buf, tail, backlog, owes, sent>>
    \/ /\ kind = "note"
       /\ UNCHANGED <<inflight, buf, tail, backlog, owes, sent>>

\* Mutant: the bit of a source whose budget is spent stays cleared.
BitLost(s, src) == UNCHANGED dirty

\* A source whose budget is spent gets its dirty bit back.
PutBack(s, src) == dirty' = [dirty EXCEPT ![s] = @ \cup {src}]

\* One message of drain_inbound_core_slow.
DrainOne(s) ==
    \E src \in Lowest(todo[s]) :
        LET p == <<src, s>>
        IN
        /\ pc[s] \in {"parkdrain", "drain"}
        /\ ring[p] # <<>>
        /\ Handle(s, src, Head(ring[p]).kind)
        /\ ring' = [ring EXCEPT ![p] = Tail(@)]
        /\ freed' = [freed EXCEPT ![p] = @ + 1]
        /\ rcvd' = [rcvd EXCEPT ![p] = @ + 1]
        /\ did' = [did EXCEPT ![s] = TRUE]
        /\ \/ /\ took[s] + 1 >= DrainBudget
              /\ PutBack(s, src)
              /\ todo' = [todo EXCEPT ![s] = @ \ {src}]
              /\ took' = [took EXCEPT ![s] = 0]
           \/ /\ took[s] + 1 < DrainBudget
              /\ took' = [took EXCEPT ![s] = @ + 1]
              /\ UNCHANGED <<dirty, todo>>
        /\ UNCHANGED <<pc, idle, scan, parking, clients>>

\* The source's ring is empty: on to the next bit.
DrainNext(s) ==
    \E src \in Lowest(todo[s]) :
        /\ pc[s] \in {"parkdrain", "drain"}
        /\ ring[<<src, s>>] = <<>>
        /\ todo' = [todo EXCEPT ![s] = @ \ {src}]
        /\ took' = [took EXCEPT ![s] = 0]
        /\ UNCHANGED <<pc, idle, channel, rcvd, did, scan, parking, inflight, clients>>

-----------------------------------------------------------------------------
\* The loop of a shard.

ClientSends(s) == s \in Serving /\ asked[s] < MaxRequest

\* The poll: not blocking while idle_spins is below the limit, else ended by
\* the eventfd, a client's socket or the timeout.
PollReturns(s) ==
    \/ pc[s] = "top" /\ idle[s] < SpinLimit
    \/ pc[s] = "wait" /\ (waker[s] \/ ClientSends(s) \/ s \in Timeouts)

\* A poll that reports no client: a blocking one clears the parked flag, and
\* a readable eventfd is drained.
Poll(s) ==
    /\ PollReturns(s)
    /\ pc[s] = "wait" => waker[s] \/ s \in Timeouts
    /\ flag' = [flag EXCEPT ![s] = FALSE]
    /\ waker' = [waker EXCEPT ![s] = FALSE]
    /\ did' = [did EXCEPT ![s] = waker[s]]
    /\ Goto(s, "look")
    /\ UNCHANGED <<idle, channel, draining, scan, parked, inflight, clients>>

\* A poll that reports a client, whose command belongs to another shard.  The
\* request is counted when dispatch_targets or flush_requests sends it, and
\* not when it is a step of an orchestrated command (RENAME, COPY, LMOVE...).
PollClient(s) ==
    /\ PollReturns(s)
    /\ ClientSends(s)
    /\ flag' = [flag EXCEPT ![s] = FALSE]
    /\ waker' = [waker EXCEPT ![s] = FALSE]
    /\ did' = [did EXCEPT ![s] = TRUE]
    /\ asked' = [asked EXCEPT ![s] = @ + 1]
    /\ \E counted \in {0, 1} : inflight' = [inflight EXCEPT ![s] = @ + counted]
    /\ \E d \in Shard \ {s} : SendTo(s, d, "request")
    /\ Goto(s, "look")
    /\ UNCHANGED <<idle, ring, freed, dirty, draining, scan, parked, noted>>

\* publish_parked, its store and then its fence.
PublishParked(s) ==
    /\ pc[s] = "top"
    /\ idle[s] = SpinLimit
    /\ flag' = [flag EXCEPT ![s] = TRUE]
    /\ did' = [did EXCEPT ![s] = FALSE]
    /\ Goto(s, "publish")
    /\ UNCHANGED <<idle, channel, draining, scan, parked, waker, inflight, clients>>

Fence(s) ==
    /\ flag[s] = parked[s]
    /\ \A d \in Shard \ {s} : buf[<<s, d>>] = <<>> /\ freed[<<d, s>>] = 0

\* Mutant: no fence.
NoFence(s) == TRUE

FenceBeforeDrain(s) == Fence(s)

PublishFence(s) ==
    /\ pc[s] = "publish"
    /\ FenceBeforeDrain(s)
    /\ Goto(s, "recheck")
    /\ UNCHANGED <<idle, channel, draining, did, scan, parking, inflight, clients>>

\* The drain between publishing the flag and blocking.
Recheck(s) ==
    /\ pc[s] = "recheck"
    /\ DrainInbound(s, "wait", "parkdrain")

RecheckEmpty(s) ==
    /\ pc[s] = "parkdrain"
    /\ todo[s] = {}
    /\ ~did[s]
    /\ Goto(s, "wait")
    /\ UNCHANGED <<idle, channel, draining, did, scan, parking, inflight, clients>>

RecheckWorked(s) ==
    /\ pc[s] = "parkdrain"
    /\ todo[s] = {}
    /\ did[s]
    /\ flag' = [flag EXCEPT ![s] = FALSE]
    /\ FlushBacklog(s)
    /\ idle' = [idle EXCEPT ![s] = 0]
    /\ Goto(s, "unpark")
    /\ UNCHANGED <<ring, freed, dirty, sent, draining, did, scan, parked, waker,
                   inflight, clients>>

Look(s) ==
    /\ pc[s] = "look"
    /\ DrainInbound(s, "flush", "drain")

DrainEnd(s) ==
    /\ pc[s] = "drain"
    /\ todo[s] = {}
    /\ Goto(s, "flush")
    /\ UNCHANGED <<idle, channel, draining, did, scan, parking, inflight, clients>>

Flush(s) ==
    /\ pc[s] = "flush"
    /\ FlushBacklog(s)
    /\ Goto(s, "wake")
    /\ UNCHANGED <<idle, ring, freed, dirty, sent, draining, did, scan, parking,
                   inflight, clients>>

\* flush_wakes, after the flushes of an iteration and after a recheck that
\* found work; where the loop goes from there.
AfterWakes(s) == IF pc[s] \in {"unpark", "unparkscan"} THEN "top" ELSE "tail"

NoWakes(s) ==
    /\ pc[s] \in {"wake", "unpark"}
    /\ owes[s] = {}
    /\ Goto(s, AfterWakes(s))
    /\ UNCHANGED <<idle, channel, draining, did, scan, parking, inflight, clients>>

FenceBeforeWakeScan(s) == Fence(s)

FlushWakes(s) ==
    /\ pc[s] \in {"wake", "unpark"}
    /\ owes[s] # {}
    /\ FenceBeforeWakeScan(s)
    /\ scan' = [scan EXCEPT ![s] = owes[s]]
    /\ owes' = [owes EXCEPT ![s] = {}]
    /\ Goto(s, IF pc[s] = "unpark" THEN "unparkscan" ELSE "wakescan")
    /\ UNCHANGED <<idle, ring, buf, tail, freed, backlog, dirty, sent, draining, did,
                   parking, inflight, clients>>

\* One turn of the scan: the syscall only for a peer seen parked.
WakePeer(s) ==
    \E d \in Lowest(scan[s]) :
        /\ pc[s] \in {"wakescan", "unparkscan"}
        /\ waker' = [waker EXCEPT ![d] = @ \/ parked[d]]
        /\ scan' = [scan EXCEPT ![s] = @ \ {d}]
        /\ Goto(s, IF scan[s] = {d} THEN AfterWakes(s) ELSE pc[s])
        /\ UNCHANGED <<idle, channel, draining, did, flag, parked, inflight, clients>>

\* Mutant: a backlog does not keep the shard spinning.
IdleDespiteBacklog(s, held) ==
    idle' = [idle EXCEPT ![s] =
               IF did[s] \/ inflight[s] > 0
               THEN 0
               ELSE IF @ = SpinLimit THEN SpinLimit ELSE @ + 1]

\* The end of an iteration: idle_spins counts the ones with nothing to do,
\* nothing in the backlogs and no request outstanding.
IdleAfter(s, held) ==
    idle' = [idle EXCEPT ![s] =
               IF did[s] \/ (\E d \in Shard \ {s} : held[<<s, d>>] # <<>>) \/ inflight[s] > 0
               THEN 0
               ELSE IF @ = SpinLimit THEN SpinLimit ELSE @ + 1]

EndIteration(s) ==
    /\ pc[s] = "tail"
    /\ IdleAfter(s, backlog)
    /\ Goto(s, "top")
    /\ UNCHANGED <<channel, draining, did, scan, parking, inflight, clients>>

\* The same, when the AOF pump or a tick in it sends a message to a peer (a
\* reply held for an fsync, a cancelled waiter, a replication barrier's end).
EndIterationSending(s) ==
    /\ pc[s] = "tail"
    /\ s \in Serving
    /\ noted[s] < MaxNote
    /\ noted' = [noted EXCEPT ![s] = @ + 1]
    /\ \E d \in Shard \ {s} : SendTo(s, d, "note")
    /\ IdleAfter(s, backlog')
    /\ Goto(s, "top")
    /\ UNCHANGED <<ring, freed, dirty, draining, did, scan, parking, inflight, asked>>

-----------------------------------------------------------------------------
\* A store of a shard becomes visible to the others.

CommitStore(p) ==
    /\ buf[p] # <<>>
    /\ buf' = [buf EXCEPT ![p] = Tail(@)]
    /\ \/ /\ Head(buf[p]).kind = "announce"
          /\ dirty' = [dirty EXCEPT ![p[2]] = @ \cup {p[1]}]
          /\ UNCHANGED ring
       \/ /\ Head(buf[p]).kind # "announce"
          /\ ring' = [ring EXCEPT ![p] = Append(@, Head(buf[p]))]
          /\ UNCHANGED dirty
    /\ UNCHANGED <<pc, idle, tail, freed, backlog, owes, sent, draining, did, scan, parking,
                   inflight, clients>>

CommitFreed(p) ==
    /\ freed[p] > 0
    /\ freed' = [freed EXCEPT ![p] = 0]
    /\ UNCHANGED <<pc, idle, ring, buf, tail, backlog, dirty, owes, sent, draining, did, scan,
                   parking, inflight, clients>>

CommitFlag(s) ==
    /\ parked[s] # flag[s]
    /\ parked' = [parked EXCEPT ![s] = flag[s]]
    /\ UNCHANGED <<pc, idle, channel, draining, did, scan, flag, waker, inflight, clients>>

ShardStep(s) ==
    \/ Poll(s)
    \/ PublishParked(s) \/ PublishFence(s) \/ Recheck(s)
    \/ RecheckEmpty(s) \/ RecheckWorked(s)
    \/ Look(s) \/ DrainOne(s) \/ DrainNext(s) \/ DrainEnd(s)
    \/ Flush(s) \/ NoWakes(s) \/ FlushWakes(s) \/ WakePeer(s)
    \/ EndIteration(s) \/ EndIterationSending(s)

StoreStep(s) ==
    \/ CommitFlag(s)
    \/ \E d \in Shard \ {s} : CommitStore(<<s, d>>) \/ CommitFreed(<<d, s>>)

Next == \E s \in Shard : ShardStep(s) \/ PollClient(s) \/ StoreStep(s)

\* Every shard's thread runs, and its stores become visible.  No client has to
\* send anything, and a blocking wait is only counted on to time out for a
\* shard that owes a wake for what it sent after its wake scan.
Fairness ==
    \A s \in Shard :
        /\ WF_vars(ShardStep(s) /\ (pc[s] = "wait" => waker[s] \/ owes[s] # {}))
        /\ WF_vars(StoreStep(s))

Spec == Init /\ [][Next]_vars

FairSpec == Spec /\ Fairness

-----------------------------------------------------------------------------
\* Properties.

\* The values the variables range over.
TypeOK ==
    /\ pc \in [Shard -> Loop]
    /\ idle \in [Shard -> 0 .. SpinLimit]
    /\ ring \in [Pair -> Seq(Message)]
    /\ buf \in [Pair -> Seq(Message \cup Announcement)]
    /\ tail \in [Pair -> Nat]
    /\ freed \in [Pair -> 0 .. RingCap]
    /\ backlog \in [Pair -> Seq(Message)]
    /\ dirty \in [Shard -> SUBSET Shard]
    /\ todo \in [Shard -> SUBSET Shard]
    /\ took \in [Shard -> 0 .. (DrainBudget - 1)]
    /\ did \in [Shard -> BOOLEAN]
    /\ owes \in [Shard -> SUBSET Shard]
    /\ scan \in [Shard -> SUBSET Shard]
    /\ flag \in [Shard -> BOOLEAN]
    /\ parked \in [Shard -> BOOLEAN]
    /\ waker \in [Shard -> BOOLEAN]
    /\ inflight \in [Shard -> Nat]
    /\ asked \in [Shard -> 0 .. MaxRequest]
    /\ noted \in [Shard -> 0 .. MaxNote]
    /\ sent \in [Pair -> Nat]
    /\ rcvd \in [Pair -> Nat]

\* The number of the push before the i-th entry of `buf'.
Before(p, i) == IF i = 1 THEN rcvd[p] + Len(ring[p]) ELSE buf[p][i - 1].n

\* The state is well formed and nothing sent between two shards is lost,
\* doubled or reordered, whatever overflowed: ring, pending pushes and backlog
\* hold exactly the messages sent and not yet received, numbered in the order
\* send_to was called without a gap from one to the next.
LaneInOrder ==
    /\ TypeOK
    /\ \A p \in Pair :
           /\ \A i \in 1 .. Len(ring[p]) : ring[p][i].n = rcvd[p] + i
           /\ \A i \in 1 .. Len(buf[p]) :
                  buf[p][i].n = Before(p, i) + (IF buf[p][i].kind = "announce" THEN 0 ELSE 1)
           /\ tail[p] = Before(p, Len(buf[p]) + 1)
           /\ \A i \in 1 .. Len(backlog[p]) : backlog[p][i].n = tail[p] + i
           /\ sent[p] = tail[p] + Len(backlog[p])

\* A message in a ring is never stranded behind a cleared dirty bit: its
\* source is in the receiver's bitmap or in the mask of its running drain, or
\* the announcement is on its way.
Announced ==
    \A p \in Pair :
        /\ ring[p] # <<>> => \/ p[1] \in dirty[p[2]] \cup todo[p[2]]
                             \/ \E i \in 1 .. Len(buf[p]) : buf[p][i].kind = "announce"
        /\ buf[p] # <<>> => buf[p][Len(buf[p])].kind = "announce"

\* No lost wake: while a shard blocks with a message in one of its rings, its
\* eventfd is readable or the sender still has it among the peers to wake.
NoLostWake ==
    \A p \in Pair :
        pc[p[2]] = "wait" /\ ring[p] # <<>> =>
            waker[p[2]] \/ p[2] \in owes[p[1]] \cup scan[p[1]]

\* The requests of a shard still unanswered, wherever they or their responses are.
Outstanding(s) ==
    LET Count(p, kind) ==
            LET Of(m) == m.kind = kind
            IN  Len(SelectSeq(ring[p] \o buf[p] \o backlog[p], Of))
        toPeer == [d \in Shard \ {s} |-> Count(<<s, d>>, "request") + Count(<<d, s>>, "response")]
        Sum[D \in SUBSET (Shard \ {s})] ==
            IF D = {} THEN 0 ELSE LET d == CHOOSE d \in D : TRUE IN toPeer[d] + Sum[D \ {d}]
    IN  Sum[Shard \ {s}]

\* A shard that blocks has no backlog to re-push and no request it counts as
\* unanswered.
BlocksQuiet ==
    \A s \in Shard :
        pc[s] = "wait" => /\ inflight[s] = 0
                          /\ \A d \in Shard \ {s} : backlog[<<s, d>>] = <<>>

\* A shard stays hot for exactly what it is owed: it blocks only when quiet,
\* and xshard_inflight never exceeds the requests still unanswered, so it does
\* not spin for a reply that is not coming.
StaysHot ==
    /\ BlocksQuiet
    /\ \A s \in Shard : inflight[s] <= Outstanding(s)

\* Every message is received: again and again all lanes are empty.  Requests
\* and responses get there by the wake protocol alone; only a message sent
\* after the wake scan may need the sender's own timeout.
Delivery == []<>(\A p \in Pair : rcvd[p] = sent[p])
=============================================================================
