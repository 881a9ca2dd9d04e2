----------------------------- MODULE ReplStream -----------------------------
(***************************************************************************)
(* The replication of one shard: the primary's feed (kevy-replicate's      *)
(* FeedSource and SlotTable, kevy-rt's replication_pump.rs and             *)
(* replication_io.rs), the replica's runner thread (kevy's                 *)
(* replica_runner.rs) and the shard that applies what the runner hands it  *)
(* (kevy-rt's replication_apply.rs), with the WAIT command                 *)
(* (exec_replwait.rs) that counts the replicas' acks.                      *)
(*                                                                         *)
(* A write is a number, a keyspace the sequence of the writes that made    *)
(* it.  feeds[g] is the primary's history under generation g: the keyspace *)
(* the generation began with, which its offsets do not number, and the     *)
(* writes logged since, the offset of a write being its place.  The code   *)
(* draws generations at random; here they count up, and 0 is "none".       *)
(*                                                                         *)
(* A replica has one connection at a time.  down and up are the link in    *)
(* each direction, socket buffers and the conn's own output included.      *)
(***************************************************************************)
EXTENDS Integers, FiniteSets, SequencesExt, FiniteSetsExt

CONSTANTS
    Replica,        \* the replicas of this primary
    Kept,           \* sizes of the keyspace the first generation begins with
    Backlog,        \* frames the backlog's byte budget holds
    Window,         \* unread messages at which the pump holds back
    Queue,          \* unapplied events at which the runner holds back
    MaxWrites,      \* bound on the writes
    MaxUpsets,      \* bound on flushes, promotions, lost links, new runners
    Admit           \* "adopt", "wait": see Admitted

VARIABLES
    feeds,          \* the primary's history, by generation
    lo,             \* oldest offset the backlog still holds
    conn,           \* the primary's ReplicaConn, by replica
    slots,          \* acked_offset of the replica's slot, None without one
    wait,           \* the WAIT in progress on this shard
    down,           \* primary to replica, in order
    up,             \* replica to primary, in order
    run,            \* the replica's runner: its link and its cursor
    inbox,          \* runner to the replica's shard, in order
    buf,            \* replica_snapshot_buf: snapshot chunks taken so far
    store,          \* the replica's keyspace
    spent           \* events of each bounded kind so far

vars == <<feeds, lo, conn, slots, wait, down, up, run, inbox, buf, store, spent>>
primary == <<feeds, lo, slots, wait>>
replica == <<inbox, buf, store>>

None == -1
gen == Len(feeds)
next == Len(feeds[gen].log)

(* The keyspace of generation g at an offset, and the primary's own.       *)
Content(g, off) == feeds[g].base \o SubSeq(feeds[g].log, 1, off)
Store == Content(gen, next)

NoConn == [st |-> "none", off |-> 0, gen |-> 0, img |-> <<>>, cut |-> FALSE]
NoWait == [on |-> FALSE, gen |-> 0, off |-> 0, need |-> 0]

Init ==
    /\ \E k \in Kept : feeds = <<[base |-> [i \in 1 .. k |-> 0], log |-> <<>>]>>
    /\ lo = 0
    /\ conn = [r \in Replica |-> NoConn]
    /\ slots = [r \in Replica |-> None]
    /\ wait = NoWait
    /\ down = [r \in Replica |-> <<>>]
    /\ up = [r \in Replica |-> <<>>]
    /\ run = [r \in Replica |-> [on |-> FALSE, off |-> 0, gen |-> 0, ack |-> 0]]
    /\ inbox = [r \in Replica |-> <<>>]
    /\ buf = [r \in Replica |-> <<>>]
    /\ store = [r \in Replica |-> <<>>]
    /\ spent = [writes |-> 0, upsets |-> 0]

Spend(kind, max) ==
    /\ spent[kind] < max
    /\ spent' = [spent EXCEPT ![kind] = @ + 1]

-----------------------------------------------------------------------------
(* The primary's history.                                                  *)

(* A write is applied and logged; the oldest frames make room for it, and  *)
(* the newest is always kept.                                              *)
PushMutation ==
    /\ Spend("writes", MaxWrites)
    /\ feeds' = [feeds EXCEPT ![gen].log = Append(@, spent'.writes)]
    /\ lo' = Max({lo, next + 1 - Backlog})
    /\ UNCHANGED <<conn, slots, wait, down, up, run, inbox, buf, store>>

(* FLUSHALL empties the keyspace, a promotion keeps it; both begin a       *)
(* generation with an empty backlog and offset 0.  The slots stay as they  *)
(* are.                                                                    *)
BumpGeneration ==
    /\ Spend("upsets", MaxUpsets)
    /\ \E b \in {<<>>, Store} : feeds' = Append(feeds, [base |-> b, log |-> <<>>])
    /\ lo' = 0
    /\ UNCHANGED <<conn, slots, wait, down, up, run, inbox, buf, store>>

(* The retention watermark: the lowest position of a consumer, connected   *)
(* or remembered by its slot.                                              *)
Live(r) == conn[r].st \in {"acksent", "streaming", "shipping"}

Consumers ==
    {conn[r].off : r \in {q \in Replica : Live(q)}}
        \cup {slots[r] : r \in {q \in Replica : slots[q] # None}}

TrimBacklog ==
    /\ Consumers # {}
    /\ lo' = Max({lo, Min(Consumers \cup {next})})
    /\ lo' # lo
    /\ UNCHANGED <<feeds, conn, slots, wait, down, up, run, inbox, buf, store, spent>>

-----------------------------------------------------------------------------
(* The primary's side of a link.  What it writes to a runner that is gone  *)
(* reaches nobody.                                                         *)
Send(r, msgs) == down' = IF run[r].on THEN [down EXCEPT ![r] = @ \o msgs] ELSE down

(* The request is read and answered with the feed's generation; what the   *)
(* replica claims is kept for the pump to judge.                           *)
AdvanceHandshake(r) ==
    /\ conn[r].st = "pending"
    /\ up[r] # <<>>
    /\ LET req == Head(up[r]) IN
        /\ conn' = [conn EXCEPT ![r] = [NoConn EXCEPT !.st = "acksent",
                                            !.off = req.off, !.gen = req.gen]]
        /\ Send(r, <<[kind |-> "ack", gen |-> gen, off |-> req.off]>>)
    /\ up' = [up EXCEPT ![r] = Tail(@)]
    /\ UNCHANGED <<primary, run, replica, spent>>

(* The +ACK has left the output buffer: the connection streams.            *)
Drained(r) ==
    /\ conn[r].st = "acksent"
    /\ conn' = [conn EXCEPT ![r].st = "streaming"]
    /\ UNCHANGED <<primary, down, up, run, replica, spent>>

(* The cursor of another generation, one the backlog has left behind and   *)
(* one ahead of the history can only be served by a snapshot.              *)
(* Mutant: a cursor at the tail is taken for caught up before the fence.   *)
MustShipLate(r) ==
    conn[r].off # next /\ (conn[r].gen # gen \/ conn[r].off < lo \/ conn[r].off > next)

MustShip(r) == conn[r].gen # gen \/ conn[r].off < lo \/ conn[r].off > next

Frames(r, to) ==
    [i \in 1 .. to - conn[r].off |->
        [kind |-> "frame", off |-> conn[r].off + i - 1,
                           id |-> feeds[gen].log[conn[r].off + i]]]

(* One pump of a streaming connection: a snapshot begun, or as many frames *)
(* as the budget and the output allow; then the heartbeat when it is due.  *)
(* The heartbeat waits for the last one and its answer (a bound).          *)
Heartbeat(r) ==
    IF up[r] = <<>> /\ \A i \in DOMAIN down[r] : down[r][i].kind # "ping"
    THEN {<<>>, <<[kind |-> "ping", gen |-> gen]>>} ELSE {<<>>}

FillStreamingOutput(r) ==
    /\ conn[r].st = "streaming"
    /\ Len(down[r]) < Window
    /\ \E hb \in Heartbeat(r) :
        \/ /\ MustShip(r)
           /\ conn' = [conn EXCEPT ![r] = [st |-> "shipping", off |-> next, gen |-> gen,
                                           img |-> Store, cut |-> FALSE]]
           /\ Send(r, <<[kind |-> "begin"]>> \o hb)
        \/ /\ ~MustShip(r)
           /\ \E to \in conn[r].off .. next :
                /\ to > conn[r].off \/ (to = next /\ hb # <<>>)
                /\ conn' = [conn EXCEPT ![r].off = to]
                /\ Send(r, Frames(r, to) \o hb)
    /\ UNCHANGED <<primary, up, run, replica, spent>>

(* The image is sent, and then its end: the connection streams from where  *)
(* the image was taken, before the replica has seen any of it.             *)
(* Mutant: it streams from the tail, past what was written meanwhile.      *)
ResumeAtTail(r) == next
Resume(r) == conn[r].off

PumpSnapshotChunks(r) ==
    /\ conn[r].st = "shipping"
    /\ Len(down[r]) < Window
    /\ \/ /\ ~conn[r].cut
          /\ conn' = [conn EXCEPT ![r].cut = TRUE]
          /\ Send(r, <<[kind |-> "chunk", img |-> conn[r].img]>>)
       \/ /\ conn[r].cut
          /\ conn' = [conn EXCEPT ![r] = [NoConn EXCEPT !.st = "streaming",
                                              !.off = Resume(r), !.gen = conn[r].gen]]
          /\ Send(r, <<[kind |-> "end", off |-> Resume(r)]>>)
    /\ UNCHANGED <<primary, up, run, replica, spent>>

-----------------------------------------------------------------------------
(* WAIT.  A replica counts once its slot has acked the offset and it has a *)
(* connection past its handshake.                                          *)
ReplAckCount(off, acked) == {r \in Replica : Live(r) /\ acked[r] >= off}

(* Situations the passing runs leave out, each lifted by its name in Admit *)
(* and described in the README.                                            *)
Admitted(what) == what \in Admit

(* Parked unless enough replicas have acked the tail already.              *)
ArmReplWait ==
    /\ ~wait.on
    /\ gen > 1 => Admitted("wait")
    /\ \E need \in 1 .. Cardinality(Replica) :
        /\ Cardinality(ReplAckCount(next, slots)) < need
        /\ wait' = [on |-> TRUE, gen |-> gen, off |-> next, need |-> need]
    /\ UNCHANGED <<feeds, lo, conn, slots, down, up, run, inbox, buf, store, spent>>

(* The deadline answers with the count as it stands.                       *)
TickReplWaiters ==
    /\ wait.on
    /\ wait' = NoWait
    /\ UNCHANGED <<feeds, lo, conn, slots, down, up, run, inbox, buf, store, spent>>

(* Acks are read by a streaming connection alone and only ever raise the   *)
(* slot; then the parked WAIT is looked at again.                          *)
SlotOf(r, off) == Max({slots[r], off})

ParseReplicaAcks(r) ==
    /\ Live(r)
    /\ up[r] # <<>>
    /\ up' = [up EXCEPT ![r] = <<>>]
    /\ IF conn[r].st = "streaming"
       THEN /\ slots' = [slots EXCEPT ![r] = SlotOf(r, Last(up[r]).off)]
            /\ wait' = IF Cardinality(ReplAckCount(wait.off, slots')) >= wait.need
                       THEN NoWait ELSE wait
       ELSE UNCHANGED <<slots, wait>>
    /\ UNCHANGED <<feeds, lo, conn, down, run, replica, spent>>

(* The end of the link is read after whatever came before it; the sweep    *)
(* then forgets the connection and remembers the replica.                  *)
ReadEof(r) ==
    /\ conn[r].st \notin {"none", "closed"}
    /\ ~run[r].on
    /\ up[r] = <<>>
    /\ conn' = [conn EXCEPT ![r] = [NoConn EXCEPT !.st = "closed", !.off = conn[r].off,
                                        !.cut = conn[r].st # "pending"]]
    /\ UNCHANGED <<primary, down, up, run, replica, spent>>

(* Mutant: what was sent is remembered as acked.                           *)
ReapAsAcked(r) ==
    /\ conn[r].st = "closed"
    /\ conn' = [conn EXCEPT ![r] = NoConn]
    /\ slots' = [slots EXCEPT ![r] = IF conn[r].cut THEN SlotOf(r, conn[r].off) ELSE @]
    /\ UNCHANGED <<feeds, lo, wait, down, up, run, replica, spent>>

ReapClosedReplicas(r) ==
    /\ conn[r].st = "closed"
    /\ conn' = [conn EXCEPT ![r] = NoConn]
    /\ slots' = [slots EXCEPT ![r] = IF conn[r].cut THEN Max({0, @}) ELSE @]
    /\ UNCHANGED <<feeds, lo, wait, down, up, run, replica, spent>>

(* The reconnect window of an absent replica has passed.                   *)
ExpireSlot(r) ==
    /\ conn[r].st = "none"
    /\ slots[r] # None
    /\ slots' = [slots EXCEPT ![r] = None]
    /\ UNCHANGED <<feeds, lo, conn, wait, down, up, run, replica, spent>>

-----------------------------------------------------------------------------
(* The replica's runner.                                                   *)

(* It dials with its cursor: the generation its data reflects and the next *)
(* offset it wants.                                                        *)
Connect(r) ==
    /\ ~run[r].on
    /\ conn[r].st = "none"
    /\ run' = [run EXCEPT ![r].on = TRUE]
    /\ conn' = [conn EXCEPT ![r] = [NoConn EXCEPT !.st = "pending"]]
    /\ up' = [up EXCEPT ![r] = <<[off |-> run[r].off, gen |-> run[r].gen]>>]
    /\ UNCHANGED <<primary, down, replica, spent>>

(* The session begins: everything it delivers is of the generation the     *)
(* primary answered with, and a cursor at offset 0 takes it at once.       *)
DrainStart(cur, m) ==
    [cur EXCEPT !.ack = m.gen, !.gen = IF cur.off = 0 THEN m.gen ELSE @]

(* What an event makes of the cursor: a snapshot's end adopts the          *)
(* session's generation and its offset, a frame moves on by one.           *)
Advanced(cur, m) ==
    CASE m.kind = "end" -> [cur EXCEPT !.off = m.off, !.gen = cur.ack]
      [] m.kind = "frame" -> [cur EXCEPT !.off = m.off + 1]
      [] OTHER -> cur

Leave(r, cur) ==
    /\ run' = [run EXCEPT ![r] = [cur EXCEPT !.on = FALSE, !.ack = 0]]
    /\ down' = [down EXCEPT ![r] = <<>>]

(* An ack that repeats the slot changes nothing and is left out.           *)
SendAck(r, off) ==
    up' = IF off = slots[r] THEN up ELSE [up EXCEPT ![r] = Append(@, [off |-> off])]

(* An event is handed to the shard before the cursor it stands for can be  *)
(* acked, at most every 100 ms; a bound leaves one unread at a time.       *)
ForwardEvent(r, m) ==
    /\ inbox' = [inbox EXCEPT ![r] = Append(@, m)]
    /\ run' = [run EXCEPT ![r] = Advanced(@, m)]
    /\ down' = [down EXCEPT ![r] = Tail(@)]
    /\ \/ UNCHANGED up
       \/ up[r] = <<>> /\ SendAck(r, run'[r].off)

(* A heartbeat is answered with an ack; one of another generation ends the *)
(* session.  So does a frame out of order.                                 *)
DrainClient(r) ==
    /\ run[r].on
    /\ down[r] # <<>>
    /\ Len(inbox[r]) < Queue
    /\ LET m == Head(down[r]) IN
        \/ /\ m.kind = "ack"
           /\ run' = [run EXCEPT ![r] = DrainStart(@, m)]
           /\ down' = [down EXCEPT ![r] = Tail(@)]
           /\ UNCHANGED <<up, inbox>>
        \/ /\ m.kind = "ping"
           /\ SendAck(r, run[r].off)
           /\ IF m.gen # run[r].ack THEN Leave(r, run[r])
              ELSE down' = [down EXCEPT ![r] = Tail(@)] /\ UNCHANGED run
           /\ UNCHANGED inbox
        \/ /\ m.kind \in {"begin", "chunk", "end", "frame"}
           /\ IF m.kind = "frame" /\ m.off # run[r].off
              THEN Leave(r, run[r]) /\ UNCHANGED <<up, inbox>>
              ELSE ForwardEvent(r, m)
    /\ UNCHANGED <<primary, conn, buf, store, spent>>

(* A snapshot on its way to a runner that already holds its generation.    *)
Adopting(r) ==
    /\ run[r].off = 0 /\ run[r].gen = gen
    /\ \/ conn[r].st = "shipping"
       \/ conn[r].st \in {"acksent", "streaming"} /\ conn[r].gen # gen
       \/ \E i \in DOMAIN down[r] : down[r][i].kind = "end"

(* The link is lost with what was under way on it: a broken connection, a  *)
(* conn closed for its full output, a serializer that died.                *)
LoseLink(r) ==
    /\ run[r].on
    /\ Adopting(r) => Admitted("adopt")
    /\ Spend("upsets", MaxUpsets)
    /\ Leave(r, run[r])
    /\ up' = [up EXCEPT ![r] = <<>>]
    /\ UNCHANGED <<primary, conn, replica>>

(* REPLICAOF replaces the runner: the new one's cursor starts at nothing,  *)
(* the keyspace and what is queued for it stay.                            *)
Respawn(r) ==
    /\ Spend("upsets", MaxUpsets)
    /\ Leave(r, [on |-> FALSE, off |-> 0, gen |-> 0, ack |-> 0])
    /\ UNCHANGED <<primary, conn, up, replica>>

-----------------------------------------------------------------------------
(* The replica's shard.                                                    *)

(* One event applied.  Chunks gather from a snapshot's beginning, and its  *)
(* end replaces the keyspace by what they hold: the one image, unless      *)
(* something else was gathered with it and the load fails.                 *)
Applied(s, m) ==
    CASE m.kind = "begin" -> [s EXCEPT !.buf = <<>>]
      [] m.kind = "chunk" -> [s EXCEPT !.buf = Append(@, m.img)]
      [] m.kind = "end" -> [store |-> IF Len(s.buf) = 1 THEN s.buf[1] ELSE <<>>, buf |-> <<>>]
      [] m.kind = "frame" -> [s EXCEPT !.store = Append(@, m.id)]
      [] OTHER -> s

AppliedAll(r, msgs) == FoldLeft(Applied, [store |-> store[r], buf |-> buf[r]], msgs)

DrainReplicaInbox(r) ==
    /\ inbox[r] # <<>>
    /\ LET s == AppliedAll(r, inbox[r]) IN
        /\ store' = [store EXCEPT ![r] = s.store]
        /\ buf' = [buf EXCEPT ![r] = s.buf]
    /\ inbox' = [inbox EXCEPT ![r] = <<>>]
    /\ UNCHANGED <<primary, conn, down, up, run, spent>>

-----------------------------------------------------------------------------
Link(r) ==
    \/ AdvanceHandshake(r) \/ Drained(r) \/ FillStreamingOutput(r)
    \/ PumpSnapshotChunks(r) \/ ParseReplicaAcks(r) \/ ReadEof(r)
    \/ ReapClosedReplicas(r)

Runner(r) == Connect(r) \/ DrainClient(r)

Next ==
    \/ PushMutation \/ BumpGeneration \/ TrimBacklog
    \/ ArmReplWait \/ TickReplWaiters
    \/ \E r \in Replica :
        \/ Link(r) \/ Runner(r) \/ DrainReplicaInbox(r)
        \/ ExpireSlot(r) \/ LoseLink(r) \/ Respawn(r)

Spec == Init /\ [][Next]_vars

(* The reactor and the runner keep running, and a runner that lost its     *)
(* link dials again.  Nothing is assumed of clients, of the ticks that     *)
(* trim and expire, or of the links.                                       *)
FairSpec ==
    /\ Spec
    /\ \A r \in Replica :
        /\ WF_vars(AdvanceHandshake(r) \/ Drained(r))
        /\ WF_vars(FillStreamingOutput(r) \/ PumpSnapshotChunks(r))
        /\ WF_vars(ParseReplicaAcks(r) \/ ReadEof(r) \/ ReapClosedReplicas(r))
        /\ WF_vars(Runner(r))
        /\ WF_vars(DrainReplicaInbox(r))

-----------------------------------------------------------------------------
Offset == 0 .. MaxWrites
KeySpace(s) == \A i \in DOMAIN s : s[i] \in 0 .. MaxWrites

TypeOK ==
    /\ \A g \in DOMAIN feeds : KeySpace(feeds[g].base) /\ KeySpace(feeds[g].log)
    /\ lo \in 0 .. next
    /\ slots \in [Replica -> Offset \cup {None}]
    /\ wait \in [on : BOOLEAN, gen : 0 .. gen, off : Offset, need : 0 .. Cardinality(Replica)]
    /\ \A r \in Replica :
        /\ conn[r].st \in {"none", "pending", "acksent", "streaming", "shipping", "closed"}
        /\ conn[r].off \in Offset /\ conn[r].gen \in 0 .. gen
        /\ run[r] \in [on : BOOLEAN, off : Offset, gen : 0 .. gen, ack : 0 .. gen]
        /\ KeySpace(store[r])

(* A connection that serves the feed's generation serves it to a replica   *)
(* that really stands there: once everything under way is applied, the     *)
(* queue first and the wire behind it, the replica's keyspace is the       *)
(* primary's at the connection's offset, with no write lost, doubled or    *)
(* taken from another history (fill_streaming_output's fence,              *)
(* frames_from's window, the snapshot ship and the runner's cursor).       *)
Faithful ==
    /\ TypeOK
    /\ \A r \in Replica :
        run[r].on /\ conn[r].st \in {"acksent", "streaming"} /\ conn[r].gen = gen =>
            AppliedAll(r, inbox[r] \o down[r]).store = Content(gen, conn[r].off)

(* A WAIT, answered when it is armed, by an ack or by its deadline, counts *)
(* no replica that has yet to receive a write the WAIT stands behind: each *)
(* one it would count has been handed every write the feed had logged when *)
(* the WAIT was armed, but for what a FLUSHALL took since (repl_ack_count  *)
(* over slots that parse_replica_acks and the sweep of closed connections  *)
(* maintain).                                                              *)
Received(r) == AppliedAll(r, inbox[r]).store

Behind(g, off) == Range(SubSeq(feeds[g].log, 1, off)) \cap Range(Store)

WaitHonest ==
    /\ gen = 1 \/ Admitted("wait") =>
        \A r \in ReplAckCount(next, slots) : Behind(gen, next) \subseteq Range(Received(r))
    /\ wait.on =>
        \A r \in ReplAckCount(wait.off, slots) :
            Behind(wait.gen, wait.off) \subseteq Range(Received(r))

(* When writes, flushes and lost links come to an end, every replica ends  *)
(* with the primary's keyspace and keeps it: whatever happened to its      *)
(* link, cursor or backlog, the pump, the handshake and the snapshot ship  *)
(* bring it there.                                                         *)
Converges == \A r \in Replica : <>[](store[r] = Store)
=============================================================================
