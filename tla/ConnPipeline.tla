---------------------------- MODULE ConnPipeline ----------------------------
(***************************************************************************)
(* The pipeline of one client connection on its origin shard (shard 0 of   *)
(* crates/kevy-rt): every command gets a sequence number, commands run     *)
(* here or on the shards that own their keys, and replies go out in the    *)
(* order of the commands.  A command is abstracted to how it is routed:    *)
(*                                                                         *)
(*   local        runs on this shard                                       *)
(*   forward      one key of another shard: the batched request lane       *)
(*   multi        a fan-out to several shards at once (MGET, DEL, DBSIZE)  *)
(*   orchestrated steps on two shards, each sent when the one before is    *)
(*                answered (RENAME, COPY, LMOVE, SMOVE, ...)               *)
(*   immediate    answered by the dispatcher (a refused write, MULTI)      *)
(*   block        BLPOP and its kin: run here first, parked on a miss      *)
(*   blockmove    parked without being run (cross-shard BLMOVE,            *)
(*                XREADGROUP of a remote stream)                           *)
(*   watch        WATCH of one key on each of some shards                  *)
(*   unwatch      UNWATCH                                                  *)
(*   transaction  MULTI, the commands queued inside it, EXEC and DISCARD   *)
(*                                                                         *)
(* Lanes to the owners are FIFO (module ShardWake).  Answers are not: an   *)
(* owner holds a reply back until its write is durable or its index        *)
(* messages are acknowledged, while later ones overtake it.                *)
(***************************************************************************)
EXTENDS Integers, Sequences, FiniteSets

CONSTANTS
    Peer,              \* the other shards, a set of positive numbers
    Kinds,             \* the kinds of command the client sends
    MaxCommand,        \* bound: commands of the connection
    TxnKinds,          \* the kinds sent by a client that uses transactions
    MaxTxn,            \* bound: commands of such a client, fewer if it may
    MaxWatch,          \*   watch later than first; bound: how late
    MaxWrite,          \* bound: others stop once a key has this version
    PipelinesBlocking  \* may a blocking command follow unanswered ones

ASSUME PipelineAssumption ==
    /\ Peer \subseteq Nat \ {0}
    /\ IsFiniteSet(Peer)
    /\ Kinds \cup TxnKinds \subseteq
         {"local", "forward", "multi", "orchestrated", "immediate", "block",
          "blockmove", "watch", "unwatch", "transaction"}
    /\ {MaxCommand, MaxTxn, MaxWatch, MaxWrite} \subseteq Nat
    /\ MaxWatch <= MaxTxn
    /\ PipelinesBlocking \in BOOLEAN

Shard == Peer \cup {0}
None == -1

VARIABLES
    nextSeq,   \* next_seq
    nextEmit,  \* next_emit
    pending,   \* the PendingSlots
    output,    \* the replies written, each named by the command it answers
    hold,      \* the command later ones wait behind, or None
    blocked,   \* the parked blocking command, or None
    batch,     \* request_batch: forwards not sent yet
    lane,      \* requests and arms sent to an owner, not yet taken
    answers,   \* parts on their way back
    ran,       \* history: the commands a shard has worked for, in order
    stepped,   \* history: the commands later ones wait for
    session,   \* bound: the kinds and the number of commands this client sends
    multi,     \* the queue of an open MULTI and multi_dirty, or NoMulti
    watched,   \* watched: pairs of a shard and the version of its key
    running,   \* the commands of an EXEC still to start, and the next one's number
    version,   \* watch_versions: the version of each shard's key, or None
    since,     \* history: was the key written since this client watched it
    doomed,    \* history: the commands of transactions sent after such a write
    aborted    \* history: the commands of transactions answered nil

txn == <<session, multi, watched, running, version, since, doomed, aborted>>

vars == <<nextSeq, nextEmit, pending, output, hold, blocked, batch, lane, answers,
          ran, stepped, txn>>

conn == <<nextEmit, pending, output>>

\* What a slot gathers: nothing of interest, the versions WATCH collects, or
\* whether one of them has changed before EXEC runs its queue.
Plain == [kind |-> "plain"]

Agg == {Plain}
       \cup [kind : {"watch"}, pairs : SUBSET (Shard \X Nat)]
       \cup [kind : {"prep"}, dirty : BOOLEAN, queue : Seq(Shard)]

\* A slot waits for `left' parts, then for those of the shards in `then'; its
\* reply is absent, the bytes of the answer to command `of', or empty.
Slot == [left : Nat, then : Seq(Shard), done : {"no", "bytes", "empty"}, of : Nat,
         agg : Agg]

\* A check carries the versions to compare; the part that answers a watch
\* carries a version, the one that answers a check 1 for a change.
Request == [seq : Nat, kind : {"request", "arm", "watch", "check"}, versions : SUBSET Nat]

Part == [seq : Nat, from : Shard, n : Nat]

NoMulti == [open |-> FALSE, queue |-> <<>>, dirty |-> FALSE]

Idle == [at |-> None, queue |-> <<>>]

Init ==
    /\ nextSeq = 0
    /\ nextEmit = 0
    /\ pending = <<>>
    /\ output = <<>>
    /\ hold = None
    /\ blocked = None
    /\ batch = [d \in Peer |-> <<>>]
    /\ lane = [d \in Peer |-> <<>>]
    /\ answers = {}
    /\ ran = [d \in Shard |-> <<>>]
    /\ stepped = {}
    /\ session \in {[kinds |-> Kinds, max |-> MaxCommand, watch |-> 0]}
                   \cup {[kinds |-> TxnKinds, max |-> MaxTxn - w, watch |-> w] :
                           w \in 1 .. MaxWatch}
    /\ multi = NoMulti
    /\ watched = {}
    /\ running = Idle
    /\ version = [d \in Shard |-> None]
    /\ since = [d \in Shard |-> "unwatched"]
    /\ doomed = {}
    /\ aborted = {}

-----------------------------------------------------------------------------
\* Slots.

Gathering(left, then, agg) ==
    [left |-> left, then |-> then, done |-> "no", of |-> 0, agg |-> agg]

Waiting(left, then) == Gathering(left, then, Plain)

Done(seq, bytes) ==
    [left |-> 0, then |-> <<>>, done |-> bytes, of |-> seq, agg |-> Plain]

\* Mutant: one slot at a time.
ReadyFirst(slots) == IF slots # <<>> /\ slots[1].done # "no" THEN 1 ELSE 0

\* The number of finished slots at the front.
Ready(slots) ==
    CHOOSE k \in 0 .. Len(slots) :
        /\ \A i \in 1 .. k : slots[i].done # "no"
        /\ k < Len(slots) => slots[k + 1].done = "no"

Bytes(slots) ==
    LET full == SelectSeq(slots, LAMBDA x : x.done = "bytes")
    IN  [i \in 1 .. Len(full) |-> full[i].of]

\* drain_front over the given slots.
DrainFront(slots) ==
    LET k == Ready(slots)
    IN  /\ pending' = SubSeq(slots, k + 1, Len(slots))
        /\ output' = output \o Bytes(SubSeq(slots, 1, k))
        /\ nextEmit' = nextEmit + k

\* Push a slot for the command being dispatched, and emit it if it is done and
\* the first.
PushSlot(slot) == DrainFront(Append(pending, slot))

\* The index of a command's slot, as fold computes it.
IndexOf(seq) == seq - nextEmit + 1

-----------------------------------------------------------------------------
\* Sending.

Asks(seq, kind) == [seq |-> seq, kind |-> kind, versions |-> {}]

\* flush_requests: every batch joins its lane.
Flushed == [d \in Peer |-> lane[d] \o [i \in 1 .. Len(batch[d]) |->
                                         Asks(batch[d][i], "request")]]

EmptyBatch == [d \in Peer |-> <<>>]

\* Mutant: the buffered forwards stay behind.
SendUnflushed(D, seq) ==
    /\ lane' = [d \in Peer |->
                  IF d \in D THEN Append(lane[d], Asks(seq, "request"))
                  ELSE lane[d]]
    /\ UNCHANGED batch

\* send_to of message[d] to each shard d of D: the buffered forwards go first.
Send(D, message) ==
    /\ lane' = [d \in Peer |-> IF d \in D THEN Append(Flushed[d], message[d])
                              ELSE Flushed[d]]
    /\ batch' = EmptyBatch

\* Requests to the shards D, and send_ext.
SendRequests(D, seq) == Send(D, [d \in D |-> Asks(seq, "request")])

\* An arm does not flush them.
SendArms(D, seq) ==
    /\ lane' = [d \in Peer |->
                  IF d \in D THEN Append(lane[d], Asks(seq, "arm"))
                  ELSE lane[d]]
    /\ UNCHANGED batch

RunHere(seq) == ran' = [ran EXCEPT ![0] = Append(@, seq)]

\* Mutant: nothing waits.
NeverHolds(seq, emitted) == UNCHANGED hold

\* hold_if_pending.
HoldIfPending(seq, emitted) == hold' = IF emitted > seq THEN hold ELSE seq

-----------------------------------------------------------------------------
\* Dispatch of the next command, number nextSeq.

Dispatches(kind) ==
    /\ kind \in session.kinds
    /\ hold = None
    /\ running = Idle
    /\ ~multi.open
    /\ nextSeq < session.max
    /\ nextSeq' = nextSeq + 1

\* The reply to a part run here for slot i of `slots', when `rest' are the
\* other parts under way: at once, or held back until other shards have
\* applied the index messages the write sent them.
HeldHere(slots, i, seq, then, rest) ==
    /\ SendRequests({}, seq)
    /\ DrainFront([slots EXCEPT ![i] = Waiting(1, then)])
    /\ answers' = rest \cup {[seq |-> seq, from |-> 0, n |-> 0]}

Finished(slots, i, seq, rest) ==
    /\ DrainFront([slots EXCEPT ![i] = Done(seq, "bytes")])
    /\ answers' = rest
    /\ UNCHANGED <<lane, batch>>

NewSlots == Append(pending, Waiting(1, <<>>))

\* Run the command here: its reply goes straight to the output, into a
\* finished slot behind the unanswered ones, or is held back.
LocalReply ==
    \/ Finished(NewSlots, Len(NewSlots), nextSeq, answers)
    \/ HeldHere(NewSlots, Len(NewSlots), nextSeq, <<>>, answers)

\* start_single for a key of this shard.
Local ==
    /\ Dispatches("local")
    /\ RunHere(nextSeq)
    /\ LocalReply
    /\ UNCHANGED <<hold, blocked, stepped>>

Forward(d) ==
    /\ Dispatches("forward")
    /\ PushSlot(Waiting(1, <<>>))
    /\ batch' = [batch EXCEPT ![d] = Append(@, nextSeq)]
    /\ UNCHANGED <<hold, blocked, lane, answers, ran, stepped>>

\* start_multi over the shards D; the part of this shard runs at once.
Multi(D) ==
    /\ Dispatches("multi")
    /\ IF 0 \in D THEN RunHere(nextSeq) ELSE UNCHANGED ran
    /\ \/ D = {0} /\ LocalReply
       \/ /\ D # {0}
          /\ SendRequests(D \ {0}, nextSeq)
          /\ \/ /\ UNCHANGED answers
                /\ PushSlot(Waiting(Cardinality(D \ {0}), <<>>))
             \/ /\ 0 \in D
                /\ answers' = answers \cup {[seq |-> nextSeq, from |-> 0, n |-> 0]}
                /\ PushSlot(Waiting(Cardinality(D), <<>>))
    /\ UNCHANGED <<hold, blocked, stepped>>

\* Steps of a command on the shards `then', for slot i.
SendStep(slots, i, seq, then, rest) ==
    /\ Head(then) # 0
    /\ SendRequests({Head(then)}, seq)
    /\ DrainFront([slots EXCEPT ![i] = Waiting(1, Tail(then))])
    /\ answers' = rest

\* A step on this shard runs at once; it is answered at once or held back, and
\* when it was not the last the next is sent.
RunStep(slots, i, seq, then, rest) ==
    /\ Head(then) = 0
    /\ RunHere(seq)
    /\ \/ HeldHere(slots, i, seq, Tail(then), rest)
       \/ Finished(slots, i, seq, rest)
       \/ Tail(then) # <<>> /\ SendStep(slots, i, seq, Tail(then), rest)

NextStep(slots, i, seq, then, rest) ==
    \/ SendStep(slots, i, seq, then, rest) /\ UNCHANGED ran
    \/ RunStep(slots, i, seq, then, rest)

\* A command that takes from shard d, puts on shard e, and gives back to d
\* when the put is refused.
Orchestrated(d, e) ==
    /\ Dispatches("orchestrated")
    /\ stepped' = stepped \cup {nextSeq}
    /\ NextStep(NewSlots, Len(NewSlots), nextSeq, <<d, e, d>>, answers)
    /\ HoldIfPending(nextSeq, nextEmit')
    /\ UNCHANGED blocked

Immediate ==
    /\ Dispatches("immediate")
    /\ PushSlot(Done(nextSeq, "bytes"))
    /\ UNCHANGED <<hold, blocked, batch, lane, answers, ran, stepped>>

\* park_dispatch for keys of the shards D: no slot, and later commands wait.
Park(D) ==
    /\ blocked' = nextSeq
    /\ SendArms(D, nextSeq)
    /\ HoldIfPending(nextSeq, nextEmit)
    /\ UNCHANGED <<conn, answers>>

MayBlock == PipelinesBlocking \/ nextEmit = nextSeq

\* A blocking pop of keys of the shards D runs on this shard's store first,
\* where only a key of this shard can be found.  With nothing unanswered a miss
\* parks; behind unanswered commands its slot is finished with what the store
\* wrote, on a miss nothing.
Block(D, hit) ==
    /\ Dispatches("block")
    /\ MayBlock
    /\ hit => 0 \in D
    /\ RunHere(nextSeq)
    /\ \/ /\ hit
          /\ LocalReply
          /\ UNCHANGED <<blocked, hold>>
       \/ /\ ~hit /\ pending = <<>>
          /\ Park(D)
       \/ /\ ~hit /\ pending # <<>>
          /\ PushSlot(Done(nextSeq, "empty"))
          /\ UNCHANGED <<blocked, hold, lane, batch, answers>>
    /\ UNCHANGED stepped

\* parks_before_running: parked whatever is unanswered.
BlockMove(d) ==
    /\ Dispatches("blockmove")
    /\ MayBlock
    /\ Park({d})
    /\ UNCHANGED <<ran, stepped>>

-----------------------------------------------------------------------------
\* Transactions.

\* collect_watch_versions: the key is tracked from now on.
Tracked(D) == [d \in Shard |-> IF d \in D /\ version[d] = None THEN 0 ELSE version[d]]

WatchedSince(D) ==
    [d \in Shard |-> IF d \in D /\ since[d] = "unwatched" THEN "clean" ELSE since[d]]

Unwatched == [d \in Shard |-> "unwatched"]

\* "Nothing after it may run before they are in".
HoldBehindWatch(seq, emitted) == HoldIfPending(seq, emitted)

\* do_watch of a key of each shard of D.
Watch(D) ==
    /\ Dispatches("watch")
    /\ nextSeq < session.watch
    /\ LET here == {<<d, Tracked({0})[0]>> : d \in D \cap {0}}
       IN  IF D = {0}
           THEN /\ PushSlot(Done(nextSeq, "bytes"))
                /\ watched' = watched \cup here
                /\ UNCHANGED <<lane, batch>>
           ELSE /\ PushSlot(Gathering(Cardinality(D \ {0}), <<>>,
                                      [kind |-> "watch", pairs |-> here]))
                /\ Send(D \ {0}, [d \in D \ {0} |-> Asks(nextSeq, "watch")])
                /\ UNCHANGED watched
    /\ IF 0 \in D THEN RunHere(nextSeq) ELSE UNCHANGED ran
    /\ version' = Tracked(D \cap {0})
    /\ since' = WatchedSince(D \cap {0})
    /\ stepped' = stepped \cup {nextSeq}
    /\ HoldBehindWatch(nextSeq, nextEmit')
    /\ UNCHANGED <<blocked, answers, session, multi, running, doomed, aborted>>

\* do_unwatch.
Unwatch ==
    /\ Dispatches("unwatch")
    /\ PushSlot(Done(nextSeq, "bytes"))
    /\ watched' = {}
    /\ since' = Unwatched
    /\ UNCHANGED <<hold, blocked, batch, lane, answers, ran, stepped, session, multi,
                   running, version, doomed, aborted>>

\* MULTI.
OpenMulti ==
    /\ Dispatches("transaction")
    /\ PushSlot(Done(nextSeq, "bytes"))
    /\ multi' = [NoMulti EXCEPT !.open = TRUE]
    /\ UNCHANGED <<hold, blocked, batch, lane, answers, ran, stepped, session, watched,
                   running, version, since, doomed, aborted>>

\* A command sent inside MULTI, which takes n numbers.
InMulti(n) ==
    /\ multi.open
    /\ hold = None
    /\ nextSeq + n <= session.max
    /\ running = Idle

\* queue_in_multi: a command for shard d, or one that is refused.
Queue ==
    /\ InMulti(1)
    /\ nextSeq' = nextSeq + 1
    /\ PushSlot(Done(nextSeq, "bytes"))
    /\ \/ multi' = [multi EXCEPT !.dirty = TRUE]
       \/ \E d \in Shard : multi' = [multi EXCEPT !.queue = Append(@, d)]
    /\ UNCHANGED <<hold, blocked, batch, lane, answers, ran, stepped, session, watched,
                   running, version, since, doomed, aborted>>

\* The queue and the watched keys are dropped.
DropsQueue ==
    /\ InMulti(1)
    /\ nextSeq' = nextSeq + 1
    /\ PushSlot(Done(nextSeq, "bytes"))
    /\ multi' = NoMulti
    /\ watched' = {}
    /\ since' = Unwatched
    /\ UNCHANGED <<hold, blocked, batch, lane, answers, ran, stepped, session, running,
                   version, doomed, aborted>>

Discard == DropsQueue

\* exec_abort_if_dirty.
ExecAborts == multi.dirty /\ DropsQueue

\* What EXEC does in either form.
TakesQueue ==
    /\ InMulti(1 + Len(multi.queue))
    /\ ~multi.dirty
    /\ multi' = NoMulti
    /\ watched' = {}
    /\ since' = Unwatched
    /\ doomed' = IF \E d \in Shard : since[d] = "touched"
                 THEN doomed \cup (nextSeq + 1 .. nextSeq + Len(multi.queue))
                 ELSE doomed
    /\ UNCHANGED <<blocked, answers, session>>

Starts(at, queue) == IF queue = <<>> THEN Idle ELSE [at |-> at, queue |-> queue]

\* exec_transaction with nothing watched: the header, then the queue.
ExecUnwatched ==
    /\ TakesQueue
    /\ watched = {}
    /\ nextSeq' = nextSeq + 1
    /\ PushSlot(Done(nextSeq, "bytes"))
    /\ running' = Starts(nextSeq + 1, multi.queue)
    /\ UNCHANGED <<hold, batch, lane, ran, stepped, version, aborted>>

\* finalize_exec_prep: nil and no replies from the queue when a watched key has
\* changed, otherwise the header, and then the queue.
Settle(slots, i, header, dirty, queue) ==
    \/ /\ dirty
       /\ LET queued == i + 1 .. i + Len(queue)
          IN  DrainFront([j \in DOMAIN slots |->
                           IF j = i THEN Done(header, "bytes")
                           ELSE IF j \in queued THEN Done(header + j - i, "empty")
                           ELSE slots[j]])
       /\ aborted' = aborted \cup (header + 1 .. header + Len(queue))
       /\ UNCHANGED running
    \/ /\ ~dirty
       /\ DrainFront([slots EXCEPT ![i] = Done(header, "bytes")])
       /\ running' = Starts(header + 1, queue)
       /\ UNCHANGED aborted

\* preallocate_exec_slots.
ExecSlots(left, agg) ==
    Append(pending, Gathering(left, <<>>, agg))
        \o [j \in 1 .. Len(agg.queue) |-> Waiting(1, <<>>)]

VersionsOf(d) == {p[2] : p \in {p \in watched : p[1] = d}}

Changed(d, versions) == \E v \in versions : v # version[d]

\* exec_transaction_watched: every shard with a watched key is asked whether it
\* has changed, this one at once.
ExecWatched ==
    /\ TakesQueue
    /\ watched # {}
    /\ nextSeq' = nextSeq + 1 + Len(multi.queue)
    /\ LET owners == {p[1] : p \in watched}
           agg    == [kind |-> "prep", queue |-> multi.queue,
                      dirty |-> Changed(0, VersionsOf(0))]
           last   == nextSeq + Len(multi.queue)
       IN  /\ stepped' = stepped \cup {last}
           /\ IF 0 \in owners THEN RunHere(nextSeq) ELSE UNCHANGED ran
           /\ IF owners = {0}
              THEN /\ Settle(ExecSlots(0, agg), Len(pending) + 1, nextSeq, agg.dirty,
                             agg.queue)
                   /\ UNCHANGED <<lane, batch>>
              ELSE /\ DrainFront(ExecSlots(Cardinality(owners \ {0}), agg))
                   /\ Send(owners \ {0}, [d \in owners \ {0} |->
                        [Asks(nextSeq, "check") EXCEPT !.versions = VersionsOf(d)]])
                   /\ UNCHANGED <<running, aborted>>
           /\ IF running' = Idle THEN HoldIfPending(last, nextEmit') ELSE UNCHANGED hold
    /\ UNCHANGED version

\* start_single of a queued command, which gets the next number.
StartQueued(d) ==
    /\ nextSeq' = nextSeq + 1
    /\ \/ d = 0 /\ RunHere(nextSeq) /\ LocalReply
       \/ /\ d # 0
          /\ PushSlot(Waiting(1, <<>>))
          /\ batch' = [batch EXCEPT ![d] = Append(@, nextSeq)]
          /\ UNCHANGED <<lane, answers, ran>>
    /\ UNCHANGED hold

\* start_single_at_seq: its slot is there already.
StartQueuedAt(d) ==
    /\ \/ d = 0 /\ RunHere(running.at)
                /\ Finished(pending, IndexOf(running.at), running.at, answers)
       \/ /\ d # 0
          /\ batch' = [batch EXCEPT ![d] = Append(@, running.at)]
          /\ UNCHANGED <<conn, lane, answers, ran>>
    /\ IF Len(running.queue) = 1 THEN HoldIfPending(running.at, nextEmit')
       ELSE UNCHANGED hold
    /\ UNCHANGED nextSeq

\* The next turn of EXEC's loop over its queue; the reactor does nothing else
\* until the loop ends.
RunQueued ==
    /\ running # Idle
    /\ running' = Starts(running.at + 1, Tail(running.queue))
    /\ IF running.at = nextSeq THEN StartQueued(Head(running.queue))
       ELSE StartQueuedAt(Head(running.queue))
    /\ UNCHANGED <<blocked, stepped, session, multi, watched, version, since, doomed,
                   aborted>>

\* bump_if_watched: another connection writes the key of shard d.
ForeignWrite(d) ==
    /\ version[d] # None
    /\ \A e \in Shard : version[e] < MaxWrite
    /\ d = 0 => running = Idle
    /\ version' = [version EXCEPT ![d] = @ + 1]
    /\ since' = [since EXCEPT ![d] = IF @ = "clean" THEN "touched" ELSE @]
    /\ UNCHANGED <<nextSeq, conn, hold, blocked, batch, lane, answers, ran, stepped,
                   session, multi, watched, running, doomed, aborted>>

-----------------------------------------------------------------------------
\* The rest of the reactor's work for the connection.

FlushRequests ==
    /\ batch # EmptyBatch
    /\ lane' = Flushed
    /\ batch' = EmptyBatch
    /\ UNCHANGED <<nextSeq, conn, hold, blocked, answers, ran, stepped>>

\* What an owner answers.
Answer(d, m) ==
    [seq |-> m.seq, from |-> d,
     n |-> IF m.kind = "watch" THEN Tracked({d})[d]
           ELSE IF m.kind = "check" /\ Changed(d, m.versions) THEN 1 ELSE 0]

\* An owner takes the next message of its lane.
Owner(d) ==
    /\ lane[d] # <<>>
    /\ lane' = [lane EXCEPT ![d] = Tail(@)]
    /\ LET m     == Head(lane[d])
           watch == IF m.kind = "watch" THEN {d} ELSE {}
       IN  /\ ran' = [ran EXCEPT ![d] = Append(@, m.seq)]
           /\ answers' = IF m.kind = "arm" THEN answers ELSE answers \cup {Answer(d, m)}
           /\ version' = Tracked(watch)
           /\ since' = WatchedSince(watch)
    /\ UNCHANGED <<nextSeq, conn, hold, blocked, batch, stepped, session, multi, watched,
                   running, doomed, aborted>>

\* Mutant: the straight path to the output taken by any slot, not the first
\* only.
FoldStraight(seq, i, rest) ==
    /\ pending[i].left = 1
    /\ pending[i].agg = Plain
    /\ output' = Append(output, seq)
    /\ pending' = SubSeq(pending, 1, i - 1) \o SubSeq(pending, i + 1, Len(pending))
    /\ nextEmit' = nextEmit + 1
    /\ answers' = rest
    /\ UNCHANGED <<lane, batch, ran>>

\* A part's contribution to what its slot gathers.
Absorbed(agg, a) ==
    CASE agg.kind = "plain" -> agg
      [] agg.kind = "watch" -> [agg EXCEPT !.pairs = @ \cup {<<a.from, a.n>>}]
      [] agg.kind = "prep"  -> [agg EXCEPT !.dirty = @ \/ a.n = 1]

\* fold of a part that is not the slot's last, that answers the command, or
\* that calls for another step.
FoldMore(a, i, rest) ==
    /\ pending[i].left > 1
    /\ pending' = [pending EXCEPT ![i].left = @ - 1, ![i].agg = Absorbed(@, a)]
    /\ answers' = rest
    /\ UNCHANGED <<output, nextEmit, lane, batch, ran>>

FoldLast(seq, i, rest) ==
    /\ pending[i].left = 1
    /\ pending[i].agg = Plain
    /\ Finished(pending, i, seq, rest)
    /\ UNCHANGED ran

FoldStep(seq, i, rest) ==
    /\ pending[i].left = 1
    /\ pending[i].then # <<>>
    /\ NextStep(pending, i, seq, pending[i].then, rest)

\* A part whose command has been answered, or that has no slot, is dropped.
FoldDropped(seq, rest) ==
    /\ seq < nextEmit \/ IndexOf(seq) > Len(pending)
    /\ answers' = rest
    /\ UNCHANGED <<conn, lane, batch, ran>>

FoldSlot(a, rest) ==
    LET i == IndexOf(a.seq)
    IN  /\ i \in 1 .. Len(pending)
        /\ FoldMore(a, i, rest) \/ FoldLast(a.seq, i, rest) \/ FoldStep(a.seq, i, rest)

Fold(a) ==
    /\ FoldDropped(a.seq, answers \ {a}) \/ FoldSlot(a, answers \ {a})
    /\ UNCHANGED <<nextSeq, hold, blocked, stepped>>

\* finalize_watch_agg: the last part of a slot that gathers.
FoldGathered(a) ==
    /\ a.seq >= nextEmit
    /\ IndexOf(a.seq) \in 1 .. Len(pending)
    /\ LET i   == IndexOf(a.seq)
           agg == Absorbed(pending[i].agg, a)
       IN  /\ pending[i].left = 1
           /\ \/ /\ agg.kind = "watch"
                 /\ watched' = watched \cup agg.pairs
                 /\ DrainFront([pending EXCEPT ![i] = Done(a.seq, "bytes")])
                 /\ UNCHANGED <<running, aborted>>
              \/ /\ agg.kind = "prep"
                 /\ Settle(pending, i, a.seq, agg.dirty, agg.queue)
                 /\ UNCHANGED watched
    /\ answers' = answers \ {a}
    /\ UNCHANGED <<nextSeq, hold, blocked, batch, lane, ran, stepped, session, multi,
                   version, since, doomed>>

\* Mutant: the parked command's number is not retired.
EmitUnretired == UNCHANGED nextEmit

EmitBlocked == nextEmit' = nextEmit + 1

\* The parked command ends: served by a push, or timed out.
Deliver ==
    /\ blocked # None
    /\ output' = Append(output, blocked)
    /\ EmitBlocked
    /\ blocked' = None
    /\ UNCHANGED <<nextSeq, pending, hold, batch, lane, answers, ran, stepped>>

\* Mutant: held until the command after it is answered.
ReleaseLate ==
    /\ hold # None
    /\ nextEmit > hold + 1
    /\ hold' = None
    /\ UNCHANGED <<nextSeq, conn, blocked, batch, lane, answers, ran, stepped>>

\* take_released.
Release ==
    /\ hold # None
    /\ nextEmit > hold
    /\ hold' = None
    /\ UNCHANGED <<nextSeq, conn, blocked, batch, lane, answers, ran, stepped>>

Dispatch ==
    \/ Local
    \/ \E d \in Peer : Forward(d)
    \/ \E D \in SUBSET Shard \ {{}} : Multi(D)
    \/ \E d, e \in Shard : d # e /\ Orchestrated(d, e)
    \/ Immediate
    \/ \E D \in SUBSET Shard \ {{}}, hit \in BOOLEAN : Block(D, hit)
    \/ \E d \in Shard : BlockMove(d)

Transaction ==
    \/ \E D \in SUBSET Shard \ {{}} : Watch(D)
    \/ Unwatch
    \/ OpenMulti
    \/ Queue
    \/ Discard
    \/ ExecAborts
    \/ ExecUnwatched
    \/ ExecWatched

Reactor ==
    \/ /\ running = Idle
       /\ FlushRequests \/ (\E a \in answers : Fold(a)) \/ Deliver \/ Release
       /\ UNCHANGED txn
    \/ running = Idle /\ \E a \in answers : FoldGathered(a)
    \/ RunQueued
    \/ \E d \in Peer : Owner(d)

Next ==
    \/ Dispatch /\ UNCHANGED txn
    \/ Transaction
    \/ Reactor
    \/ \E d \in Shard : ForeignWrite(d)

Spec == Init /\ [][Next]_vars

\* The shards keep running, and a parked command is served or times out.
FairSpec == Spec /\ WF_vars(Reactor)

-----------------------------------------------------------------------------
\* Properties.

\* The values the variables range over.
TypeOK ==
    /\ nextSeq \in 0 .. session.max
    /\ nextEmit \in 0 .. session.max
    /\ pending \in Seq(Slot)
    /\ output \in Seq(Nat)
    /\ hold \in Nat \cup {None}
    /\ blocked \in Nat \cup {None}
    /\ batch \in [Peer -> Seq(Nat)]
    /\ lane \in [Peer -> Seq(Request)]
    /\ answers \subseteq Part
    /\ ran \in [Shard -> Seq(Nat)]
    /\ stepped \subseteq Nat
    /\ multi \in [open : BOOLEAN, queue : Seq(Shard), dirty : BOOLEAN]
    /\ watched \subseteq Shard \X Nat
    /\ running \in [at : Nat \cup {None}, queue : Seq(Shard)]
    /\ version \in [Shard -> Nat \cup {None}]
    /\ since \in [Shard -> {"unwatched", "clean", "touched"}]
    /\ doomed \cup aborted \subseteq Nat

\* The client reads the answer to its first command, then to its second, and
\* so on, the commands of an aborted transaction left out: whatever order parts
\* come back in, no reply is out of place, doubled or skipped.
RepliesInOrder ==
    \A i \in 1 .. Len(output) :
        /\ output[i] \notin aborted
        /\ Cardinality((0 .. output[i]) \ aborted) = i

PartsUnderWay(seq) ==
    Cardinality({d \in Peer : \E i \in 1 .. Len(batch[d]) : batch[d][i] = seq})
    + Cardinality({d \in Peer : \E i \in 1 .. Len(lane[d]) : lane[d][i].seq = seq
                                                           /\ lane[d][i].kind # "arm"})
    + Cardinality({a \in answers : a.seq = seq})

\* The commands of an EXEC that are still to start.
ToStart ==
    {s \in nextEmit .. nextSeq - 1 : running # Idle /\ s >= running.at}
        \cup UNION {LET header == nextEmit + i - 1
                    IN  header + 1 .. header + Len(pending[i].agg.queue) :
                    i \in {i \in 1 .. Len(pending) : pending[i].agg.kind = "prep"}}

\* next_seq == next_emit + pending.len(), a parked command counting as one, so
\* seq - next_emit is the index of a command's slot; and an unfinished slot
\* waits for exactly the parts that are under way for its command: it neither
\* waits for ever nor is finished twice.
SlotsAccounted ==
    /\ TypeOK
    /\ nextSeq = nextEmit + Len(pending) + IF blocked = None THEN 0 ELSE 1
    /\ \A i \in 1 .. Len(pending) :
           LET seq == nextEmit + i - 1
           IN  pending[i].done = "no" =>
                   IF seq \in ToStart THEN PartsUnderWay(seq) = 0
                   ELSE pending[i].left = PartsUnderWay(seq)

\* Read your writes: every shard works for the connection's commands in the
\* order they were sent, whichever lane they took.
ProgramOrder ==
    \A d \in Shard : \A i \in 1 .. (Len(ran[d]) - 1) : ran[d][i] <= ran[d][i + 1]

\* While a command of several steps is unanswered, no shard has run a later
\* command of the connection.
StepsUndisturbed ==
    \A s \in stepped : s >= nextEmit =>
        \A d \in Shard : \A i \in 1 .. Len(ran[d]) : ran[d][i] <= s

\* Optimistic locking: once another connection has written a key after its
\* version was collected for WATCH and before EXEC was sent, no shard runs a
\* command of that transaction, and none runs one that was answered nil.
WatchGuards ==
    \A d \in Shard : \A i \in 1 .. Len(ran[d]) : ran[d][i] \notin doomed \cup aborted

AllAnswered == Len(output) + Cardinality(aborted) = nextSeq

\* Nothing is under way: every command sent has been answered.
NothingUnanswered ==
    batch = EmptyBatch /\ (\A d \in Peer : lane[d] = <<>>) /\ answers = {}
        /\ blocked = None /\ running = Idle => AllAnswered

\* Every command is answered in the end, and the connection takes the next.
Answers == []<>(AllAnswered /\ hold = None)
=============================================================================
