----------------------------- MODULE BlockXshard -----------------------------
(***************************************************************************)
(* Blocking pops across shards (crates/kevy-rt, block_xshard*.rs).  A      *)
(* connection parks on its home shard, the arbiter; the shards that own    *)
(* the keys it watches register a waiter, report when data is there, pop   *)
(* only when asked, and keep the undo of the pop in escrow until the       *)
(* arbiter says whether the reply was written.  Pops of a single key of    *)
(* the home shard take the in-shard path of blocked.rs.                    *)
(*                                                                         *)
(* The handlers call each other (a restored element wakes a waiter, whose  *)
(* connection may be gone, which restores it again ...), so a handler is a *)
(* function from the state before it to the state after it, a record with  *)
(* a field per variable: Now is the record of the current state, and       *)
(* Becomes(S) makes S the next one.                                        *)
(***************************************************************************)
EXTENDS Integers, Sequences, FiniteSets, SequencesExt

CONSTANTS
    Shard, Key, Conn,
    Owner,      \* the shard of a key
    Home,       \* the shard of a connection
    Watches,    \* the key lists a connection blocks on
    MaxPush,    \* bound: elements pushed
    MaxAsk,     \* bound: commands of a connection, for each
    Pipelines   \* may a client send a command before it has read all replies

ASSUME BlockAssumption ==
    /\ Owner \in [Key -> Shard]
    /\ Home \in [Conn -> Shard]
    /\ \A c \in Conn : Watches[c] \subseteq Seq(Key) \ {<<>>}
    /\ MaxPush \in Nat
    /\ MaxAsk \in [Conn -> Nat]
    /\ Pipelines \in BOOLEAN

None == 0      \* no element, and the reply of a timeout
Nothing == [serving |-> FALSE, abandoned |-> FALSE, keys |-> <<>>]
NoEscrow == [key |-> "none", elem |-> None]
Nowhere == -1

VARIABLES
    store,    \* the lists
    waiters,  \* XShardWaiters.by_key, at a key's owner
    parked,   \* BlockedClients.by_key
    escrow,   \* XShardWaiters.escrow: of a connection, at a shard
    block,    \* origin_blocks, or Nothing
    confirm,  \* serve_confirm: the shard whose escrow waits for the write
    conns,    \* the connections the server has
    closing,  \* those it will close
    client,   \* a client is here, has left, or has left and the kernel knows
    output,   \* replies not written yet
    net,      \* messages from a shard to another
    pushed,   \* elements pushed so far
    asked,    \* blocking pops sent by a client
    replies,  \* history: replies made to a connection
    direct,   \* history: elements popped by commands that do not block
    sent,     \* history: elements written to a socket
    got       \* history: elements a client has read

vars == <<store, waiters, parked, escrow, block, confirm, conns, closing, client, output,
          net, pushed, asked, replies, direct, sent, got>>

Now == [store |-> store, waiters |-> waiters, parked |-> parked, escrow |-> escrow,
        block |-> block, confirm |-> confirm, conns |-> conns, closing |-> closing,
        client |-> client, output |-> output, net |-> net, replies |-> replies,
        direct |-> direct, sent |-> sent, got |-> got]

Becomes(S) ==
    /\ store' = S.store /\ waiters' = S.waiters /\ parked' = S.parked
    /\ escrow' = S.escrow /\ block' = S.block /\ confirm' = S.confirm
    /\ conns' = S.conns /\ closing' = S.closing /\ client' = S.client
    /\ output' = S.output /\ net' = S.net /\ replies' = S.replies
    /\ direct' = S.direct /\ sent' = S.sent /\ got' = S.got

Init ==
    /\ store = [k \in Key |-> <<>>]
    /\ waiters = [k \in Key |-> <<>>]
    /\ parked = [k \in Key |-> <<>>]
    /\ escrow = [c \in Conn |-> [s \in Shard |-> NoEscrow]]
    /\ block = [c \in Conn |-> Nothing]
    /\ confirm = [c \in Conn |-> Nowhere]
    /\ conns = Conn
    /\ closing = {}
    /\ client = [c \in Conn |-> "here"]
    /\ output = [c \in Conn |-> <<>>]
    /\ net = [s \in Shard |-> [t \in Shard |-> <<>>]]
    /\ pushed = 0
    /\ asked = [c \in Conn |-> 0]
    /\ replies = [c \in Conn |-> 0]
    /\ direct = {}
    /\ sent = {}
    /\ got = {}

-----------------------------------------------------------------------------
\* Pieces the handlers share.

Message(type, c, k, e) == [type |-> type, conn |-> c, key |-> k, reply |-> e]

Send(S, s, t, m) == [S EXCEPT !.net[s][t] = Append(@, m)]

Reply(S, c, e) ==
    IF c \in S.conns THEN [S EXCEPT !.output[c] = Append(@, e), !.replies[c] = @ + 1]
    ELSE S

Without(q, c) == SelectSeq(q, LAMBDA x : x # c)

\* drop_for: every waiter of the connection on the shard.
DropFor(S, s, c) ==
    [S EXCEPT !.waiters = [k \in Key |-> IF Owner[k] = s THEN Without(S.waiters[k], c)
                                         ELSE S.waiters[k]]]

Targets(keys) == {Owner[k] : k \in Range(keys)}

\* broadcast_cancel, to each shard once.
BroadcastCancel(S, c, keys) ==
    LET cancel(T, s) == IF s = Home[c] THEN DropFor(T, s, c)
                        ELSE Send(T, Home[c], s, Message("cancel", c, keys[1], None))
    IN  FoldLeft(cancel, S, SetToSeq(Targets(keys)))

\* Remove the record and cancel the registrations.
EndBlock(S, c) == BroadcastCancel([S EXCEPT !.block[c] = Nothing], c, S.block[c].keys)

\* XShardWaiters::arm.
Arm(S, c, k) ==
    IF c \in Range(S.waiters[k]) THEN S ELSE [S EXCEPT !.waiters[k] = Append(@, c)]

\* target_serve: pop for a waiter, the undo captured first; nothing for a
\* waiter that was cancelled or a key that was drained.
Serves(S, c, k) == c \in Range(S.waiters[k]) /\ S.store[k] # <<>>

TargetServe(S, c, k) ==
    IF Serves(S, c, k)
    THEN [S EXCEPT !.escrow[c][Owner[k]] = [key |-> k, elem |-> Head(S.store[k])],
                   !.store[k] = Tail(@)]
    ELSE S

Served(S, c, k) == IF Serves(S, c, k) THEN Head(S.store[k]) ELSE None

TargetReleaseEscrow(S, s, c) == [S EXCEPT !.escrow[c][s] = NoEscrow]

\* wake_blocked_on_key: the oldest waiter of this shard retries its pop.
WakeBlockedOnKey(S, k) ==
    IF S.parked[k] = <<>> THEN S
    ELSE LET c == Head(S.parked[k])
             T == [S EXCEPT !.parked[k] = Tail(@)]
         IN  IF T.store[k] = <<>> THEN T
             ELSE [Reply(T, c, Head(T.store[k])) EXCEPT !.store[k] = Tail(@),
                                                       !.direct = @ \cup {Head(T.store[k])}]

\* Mutant: the escrow is released when the reply is queued.
ReleaseWhenQueued(S, c, s) ==
    IF s = Home[c] THEN TargetReleaseEscrow(S, s, c)
    ELSE Send(S, Home[c], s, Message("ack", c, "none", None))

\* The write will decide.
RecordConfirm(S, c, s) == [S EXCEPT !.confirm[c] = s]

\* Mutant: the record outlives the reply.
DeliverKeepsBlock(S, c, e) == Reply(S, c, e)

DeliverBlock(S, c, e) == EndBlock(Reply(S, c, e), c)

PeerGone(S, c) == c \notin S.conns \/ S.client[c] = "gone"

-----------------------------------------------------------------------------
\* The handlers that call each other.

RECURSIVE OriginOnReady(_, _, _)

\* signal_ready.
SignalReady(S, c, k) ==
    IF Home[c] = Owner[k] THEN OriginOnReady(S, c, k)
    ELSE Send(S, Owner[k], Home[c], Message("ready", c, k, None))

\* wake_key: one waiter of the shard, and every cross-shard waiter.
WakeKey(S, k) ==
    LET T == WakeBlockedOnKey(S, k)
    IN  FoldLeft(LAMBDA U, c : SignalReady(U, c, k), T, T.waiters[k])

Restored(S, s, c) ==
    LET u == S.escrow[c][s]
    IN  [S EXCEPT !.escrow[c][s] = NoEscrow, !.store[u.key] = <<u.elem>> \o @]

\* Mutant: nobody is told that the element is back.
ApplyEscrowSilently(S, s, c) == IF S.escrow[c][s] = NoEscrow THEN S ELSE Restored(S, s, c)

\* target_apply_escrow.
TargetApplyEscrow(S, s, c) ==
    IF S.escrow[c][s] = NoEscrow THEN S
    ELSE WakeKey(Restored(S, s, c), S.escrow[c][s].key)

\* Undo a serve on shard s, here or by message.
Abort(S, s, c) ==
    IF s = Home[c] THEN TargetApplyEscrow(S, s, c)
    ELSE Send(S, Home[c], s, Message("abort", c, "none", None))

AbortServe(S, c, k) == EndBlock(Abort(S, Owner[k], c), c)

Registers(S, c, keys) ==
    LET arm(T, k) == IF Owner[k] = Home[c] THEN Arm(T, c, k)
                     ELSE Send(T, Home[c], Owner[k], Message("arm", c, k, None))
    IN  FoldLeft(arm, S, keys)

\* Mutant: a local key is served before the keys after it are armed.
ArmInOnePass(S, c, keys) ==
    LET arm(T, k) ==
            IF Owner[k] # Home[c] THEN Send(T, Home[c], Owner[k], Message("arm", c, k, None))
            ELSE IF T.store[k] = <<>> THEN Arm(T, c, k)
            ELSE OriginOnReady(Arm(T, c, k), c, k)
    IN  FoldLeft(arm, S, keys)

\* arm_and_maybe_serve: every key is armed, then a key of this shard that has
\* data serves.
ArmAndMaybeServe(S, c, keys) ==
    LET ready == SelectSeq(keys, LAMBDA k : Owner[k] = Home[c] /\ S.store[k] # <<>>)
    IN  FoldLeft(LAMBDA T, k : OriginOnReady(T, c, k), Registers(S, c, keys), ready)

\* origin_on_serve_resp.
OriginOnServeResp(S, c, k, e) ==
    IF S.block[c] = Nothing
    THEN IF e = None THEN S ELSE Abort(S, Owner[k], c)
    ELSE IF e = None
    THEN IF S.block[c].abandoned THEN EndBlock(S, c)
         ELSE ArmAndMaybeServe([S EXCEPT !.block[c].serving = FALSE], c, S.block[c].keys)
    ELSE IF S.block[c].abandoned \/ PeerGone(S, c) THEN AbortServe(S, c, k)
    ELSE RecordConfirm(DeliverBlock(S, c, e), c, Owner[k])

OriginOnReady(S, c, k) ==
    IF S.block[c] = Nothing \/ S.block[c].serving \/ k \notin Range(S.block[c].keys) THEN S
    ELSE LET T == [S EXCEPT !.block[c].serving = TRUE]
         IN  IF Owner[k] = Home[c]
             THEN OriginOnServeResp(TargetServe(T, c, k), c, k, Served(T, c, k))
             ELSE Send(T, Home[c], Owner[k], Message("serve", c, k, None))

-----------------------------------------------------------------------------
\* Closing and writing.

\* Mutant: an unconfirmed serve is forgotten.
ForgetOnTeardown(S, c) == [S EXCEPT !.confirm[c] = Nowhere]

\* restore_serve_on_teardown.
RestoreOnTeardown(S, c) ==
    IF S.confirm[c] = Nowhere THEN S
    ELSE Abort([S EXCEPT !.confirm[c] = Nowhere], S.confirm[c], c)

\* confirm_serve_delivered.
ConfirmDelivered(S, c) ==
    LET s == S.confirm[c]
        T == [S EXCEPT !.confirm[c] = Nowhere]
    IN  IF s = Nowhere THEN S
        ELSE IF s = Home[c] THEN TargetReleaseEscrow(T, s, c)
        ELSE Send(T, Home[c], s, Message("ack", c, "none", None))

CancelOnClose(S, c) ==
    IF S.block[c] = Nothing THEN S
    ELSE IF S.block[c].serving THEN [S EXCEPT !.block[c].abandoned = TRUE]
    ELSE EndBlock(S, c)

\* close_conn.
CloseConn(S, c) ==
    LET T == [S EXCEPT !.conns = @ \ {c}, !.closing = @ \ {c}, !.output[c] = <<>>,
                       !.parked = [k \in Key |-> Without(S.parked[k], c)]]
    IN  RestoreOnTeardown(CancelOnClose(T, c), c)

\* resolve_serve_by_write.
ResolveByWrite(S, c, drained) ==
    IF c \in S.closing THEN RestoreOnTeardown(S, c)
    ELSE IF drained THEN ConfirmDelivered(S, c) ELSE S

Elements(q) == Range(q) \ {None}

\* The socket took everything, a part, or failed.
Written(S, c, outcome) ==
    IF outcome = "all"
    THEN [S EXCEPT !.sent = @ \cup Elements(S.output[c]),
                   !.got = IF S.client[c] = "here" THEN @ \cup Elements(S.output[c]) ELSE @,
                   !.output[c] = <<>>]
    ELSE IF outcome = "failed" THEN [S EXCEPT !.closing = @ \cup {c}]
    ELSE S

\* flush_conn.
FlushConn(S, c, outcome) ==
    LET T == Written(S, c, outcome)
        U == ResolveByWrite(T, c, T.output[c] = <<>>)
    IN  IF c \in U.closing /\ U.output[c] = <<>> THEN CloseConn(U, c) ELSE U

Outcomes(c) == {"all", "some"} \cup IF client[c] = "here" THEN {} ELSE {"failed"}

-----------------------------------------------------------------------------
\* Actions.

Waits(c) == block[c] # Nothing \/ \E k \in Key : c \in Range(parked[k])

\* The dispatcher takes a command of the connection.
Dispatches(c) ==
    /\ c \in conns
    /\ client[c] = "here"
    /\ c \notin closing
    /\ ~Waits(c)
    /\ asked[c] < MaxAsk[c]
    /\ Pipelines \/ output[c] = <<>>

\* BLPOP of the keys: it runs on the home shard's store, then parks in-shard
\* or across shards.
Blpop(c, keys) ==
    /\ Dispatches(c)
    /\ asked' = [asked EXCEPT ![c] = @ + 1]
    /\ UNCHANGED pushed
    /\ LET here == SelectSeq(keys, LAMBDA k : Owner[k] = Home[c] /\ store[k] # <<>>)
       IN  IF here # <<>>
           THEN LET k == Head(here)
                IN  Becomes([Reply(Now, c, Head(store[k])) EXCEPT
                                !.store[k] = Tail(@), !.direct = @ \cup {Head(store[k])}])
           ELSE IF Len(keys) = 1 /\ Owner[keys[1]] = Home[c]
           THEN Becomes([Now EXCEPT !.parked[keys[1]] = Append(@, c)])
           ELSE Becomes(ArmAndMaybeServe([Now EXCEPT !.block[c] = [Nothing EXCEPT !.keys = keys]],
                                         c, keys))

Quit(c) ==
    /\ Dispatches(c)
    /\ asked' = [asked EXCEPT ![c] = MaxAsk[c]]
    /\ Becomes([Now EXCEPT !.closing = @ \cup {c}])
    /\ UNCHANGED pushed

\* Another client pushes an element.
Push(k) ==
    /\ pushed < MaxPush
    /\ pushed' = pushed + 1
    /\ Becomes(WakeKey([Now EXCEPT !.store[k] = Append(@, pushed + 1)], k))
    /\ UNCHANGED asked

\* Another client pops one.
Pop(k) ==
    /\ store[k] # <<>>
    /\ Becomes([Now EXCEPT !.store[k] = Tail(@), !.direct = @ \cup {Head(store[k])}])
    /\ UNCHANGED <<pushed, asked>>

Handle(S, t, m) ==
    CASE m.type = "arm" -> IF S.store[m.key] # <<>> THEN SignalReady(Arm(S, m.conn, m.key), m.conn, m.key)
                           ELSE Arm(S, m.conn, m.key)
      [] m.type = "ready" -> OriginOnReady(S, m.conn, m.key)
      [] m.type = "serve" -> Send(TargetServe(S, m.conn, m.key), t, Home[m.conn],
                                  Message("resp", m.conn, m.key, Served(S, m.conn, m.key)))
      [] m.type = "resp" -> OriginOnServeResp(S, m.conn, m.key, m.reply)
      [] m.type = "ack" -> TargetReleaseEscrow(S, t, m.conn)
      [] m.type = "abort" -> TargetApplyEscrow(S, t, m.conn)
      [] m.type = "cancel" -> DropFor(S, t, m.conn)

Receive(s, t) ==
    /\ net[s][t] # <<>>
    /\ Becomes(Handle([Now EXCEPT !.net[s][t] = Tail(@)], t, Head(net[s][t])))
    /\ UNCHANGED <<pushed, asked>>

\* tick_xshard_timeouts and tick_blocked_timeouts.
Timeout(c) ==
    /\ \/ /\ block[c] # Nothing
          /\ ~block[c].serving
          /\ Becomes(EndBlock(Reply(Now, c, None), c))
       \/ /\ block[c] = Nothing
          /\ Waits(c)
          /\ Becomes(Reply([Now EXCEPT !.parked = [k \in Key |-> Without(parked[k], c)]], c, None))
    /\ UNCHANGED <<pushed, asked>>

Flush(c, outcome) ==
    /\ c \in conns
    /\ output[c] # <<>> \/ c \in closing
    /\ Becomes(FlushConn(Now, c, outcome))
    /\ UNCHANGED <<pushed, asked>>

\* The client goes, and later the kernel knows.
Leave(c) ==
    /\ client[c] # "gone"
    /\ Becomes([Now EXCEPT !.client[c] = IF @ = "here" THEN "left" ELSE "gone"])
    /\ UNCHANGED <<pushed, asked>>

\* The end of the stream is read.
ReadEof(c, outcome) ==
    /\ c \in conns \ closing
    /\ client[c] = "gone"
    /\ Becomes(FlushConn([Now EXCEPT !.closing = @ \cup {c}], c, outcome))
    /\ UNCHANGED <<pushed, asked>>

Next ==
    \/ \E c \in Conn : \/ \E keys \in Watches[c] : Blpop(c, keys)
                       \/ Quit(c)
                       \/ Timeout(c)
                       \/ Leave(c)
                       \/ \E o \in Outcomes(c) : Flush(c, o) \/ ReadEof(c, o)
    \/ \E k \in Key : Push(k) \/ Pop(k)
    \/ \E s, t \in Shard : Receive(s, t)

Spec == Init /\ [][Next]_vars

-----------------------------------------------------------------------------
\* Properties.

Escrow == [key : Key \cup {"none"}, elem : 0 .. MaxPush]

\* The values the variables range over; a waiter is registered once.
TypeOK ==
    /\ store \in [Key -> Seq(1 .. MaxPush)]
    /\ waiters \in [Key -> Seq(Conn)]
    /\ \A k \in Key : IsInjective(waiters[k])
    /\ parked \in [Key -> Seq(Conn)]
    /\ escrow \in [Conn -> [Shard -> Escrow]]
    /\ block \in [Conn -> [serving : BOOLEAN, abandoned : BOOLEAN, keys : UNION {Watches[c] : c \in Conn} \cup {<<>>}]]
    /\ confirm \in [Conn -> Shard \cup {Nowhere}]
    /\ conns \subseteq Conn
    /\ closing \subseteq Conn
    /\ client \in [Conn -> {"here", "left", "gone"}]
    /\ output \in [Conn -> Seq(0 .. MaxPush)]
    /\ pushed \in 0 .. MaxPush
    /\ \A c \in Conn : asked[c] \in 0 .. MaxAsk[c]

InStore == UNION {Range(store[k]) : k \in Key}

InEscrow == {escrow[c][s].elem : c \in Conn, s \in Shard} \ {None}

\* Delivered exactly once: an element popped for a connection of another shard
\* is in its list, or can be put back, until it has been written to the socket;
\* one a client has read is in no list, and none is in a list twice.
ExactlyOnce ==
    /\ 1 .. pushed \subseteq InStore \cup InEscrow \cup direct \cup sent
    /\ got \cap InStore = {}
    /\ \A k \in Key : IsInjective(store[k])

Underway(type, c) == \E s, t \in Shard : \E i \in 1 .. Len(net[s][t]) :
                        net[s][t][i].type = type /\ net[s][t][i].conn = c

\* Every undo held in escrow will be used or dropped: the serve is being
\* answered, its reply is waiting to be written, or the verdict is on its way.
EscrowResolved ==
    \A c \in Conn, s \in Shard : escrow[c][s] # NoEscrow =>
        \/ Underway("resp", c) \/ confirm[c] = s
        \/ \E t \in Shard : \E i \in 1 .. Len(net[t][s]) :
               net[t][s][i].type \in {"ack", "abort"} /\ net[t][s][i].conn = c

Quiet == \A s, t \in Shard : net[s][t] = <<>>

\* When nothing is under way nobody waits for a key that has data.
NobodyStarves ==
    Quiet => \A k \in Key : store[k] # <<>> =>
        /\ parked[k] = <<>>
        /\ \A c \in Conn : k \notin Range(block[c].keys)

\* The state is well formed, no connection is queued twice at a key, and when
\* nothing is under way every registered waiter is a parked connection
\* watching that key, and every parked connection is registered at its keys.
WaitersMatch ==
    /\ TypeOK
    /\ Quiet => \A k \in Key, c \in Conn :
           c \in Range(waiters[k]) <=> k \in Range(block[c].keys)

\* A connection that is not going away is answered once for every command: a
\* serve, a timeout and a retry never both answer it.
OneReply ==
    \A c \in conns \ closing : client[c] # "gone" =>
        replies[c] + (IF Waits(c) THEN 1 ELSE 0) = asked[c]
=============================================================================
