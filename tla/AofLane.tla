------------------------------- MODULE AofLane -------------------------------
(***************************************************************************)
(* The append-only log of one shard in its default, queued mode: the       *)
(* reactor queues records, a writer thread (the lane) writes and syncs     *)
(* them, and under appendfsync=always a reply waits for the sync that      *)
(* covers its record (kevy-rt aof_writer.rs, shard_flush.rs; kevy-persist  *)
(* aof_queue.rs).  A rewrite's finished image is renamed over the log by   *)
(* the persist worker while the reactor holds the queue                    *)
(* (persist_rewrite.rs, persist_jobs.rs).                                  *)
(*                                                                         *)
(* Record i is the shard's i-th write.  A file restores the prefix 1..img  *)
(* (a snapshot's or an image's) and then its records, in file order.       *)
(***************************************************************************)
EXTENDS Integers, Sequences

CONSTANTS
    Conn,           \* client connections (or peer shards) that write
    MaxWrites,      \* bound: writes
    MaxRewrites,    \* bound: rewrites begun
    MaxSaves,       \* bound: saves begun
    MaxUpsets,      \* bound: crashes, failed jobs, exits and policy changes
    MaxHandoffs,    \* advance_rewrite_handoff's MAX_HANDOFFS
    SmallTee,       \* its SMALL_TEE, in records
    TeeCap,         \* TEE_DEFER_CAP, in records
    Policies,       \* the fsync policies a shard starts with
    Targets,        \* and those CONFIG SET appendfsync may give it
    Admit           \* the orders of events admitted (see Untimely)

ASSUME LaneAssumption ==
    /\ {MaxWrites, MaxHandoffs, SmallTee, TeeCap} \subseteq Nat
    /\ Policies \cup Targets \subseteq {"no", "everysec", "always"}

VARIABLES
    n, acked,       \* writes; the last write whose durable reply was sent
    policy,         \* fsync policy: "no", "everysec" or "always"
    queue,          \* Aof::queue
    files,          \* every inode that was the log
    live, named,    \* the one the path names; the one it names after a crash
    own, lane,      \* the one Aof::file is open on; the one the lane is
    jobs, done,     \* the lane's channels
    inflight,       \* submitted - completed
    fsyncing,       \* fsync_inflight
    unsynced,       \* dirty_since_sync
    proven,         \* durable_watermark
    held,           \* each connection's held_watermark; 0 is None
    want,           \* want_restructure
    teeing, tee,    \* rewrite_tee
    hold,           \* swap_hold
    pjob,           \* the persist worker's job
    tmp, iters,     \* the image being built; RewriteHandoff::iters
    pc,             \* the reactor: running, or where it is in its exit
    spent           \* the bounds' counters

laneVars == <<jobs, done, inflight, fsyncing, unsynced, lane>>
diskVars == <<files, live, named, own>>
rewriteVars == <<teeing, tee, hold, pjob, tmp, iters>>
vars == <<n, acked, policy, queue, diskVars, laneVars, proven, held, want, rewriteVars,
          pc, spent>>

Records == Seq(1 .. MaxWrites)
File == [img : 0 .. MaxWrites, recs : Records, synced : Nat]
Job == [op : {"append"}, recs : Records] \cup [op : {"fsync"}, covers : 0 .. MaxWrites]
       \cup [op : {"reopen"}, file : Nat]
Fresh(m) == [img |-> m, recs |-> <<>>, synced |-> 0]
NoJob == [op |-> "none", recs |-> <<>>, at |-> "ok"]
NoImage == [img |-> 0, recs |-> <<>>]
Nothing == [appends |-> 0, covers |-> 0, failed |-> FALSE]

\* Orders of events that the code does not prevent and after which the
\* properties below fail; the README describes each.
Untimely(what) == what \in Admit

Init ==
    /\ n = 0 /\ acked = 0 /\ proven = 0
    /\ policy \in Policies
    /\ queue = <<>>
    /\ files = <<Fresh(0)>> /\ live = 1 /\ named = 1 /\ own = 1 /\ lane = 1
    /\ jobs = <<>> /\ done = Nothing /\ inflight = 0
    /\ fsyncing = FALSE /\ unsynced = FALSE
    /\ held = [c \in Conn |-> 0]
    /\ want = FALSE
    /\ teeing = FALSE /\ tee = <<>> /\ hold = FALSE
    /\ pjob = NoJob /\ tmp = NoImage /\ iters = 0
    /\ pc = "run"
    /\ spent = [rewrites |-> 0, saves |-> 0, upsets |-> 0]

Spend(what, limit) ==
    /\ spent[what] < limit
    /\ spent' = [spent EXCEPT ![what] = @ + 1]

Largest(S) == {x \in S : \A y \in S : y <= x}

\* The write(2) of records r to inode f.
Written(f, r) == [files EXCEPT ![f].recs = @ \o r]

\* fdatasync of inode f.
Synced(f) == [files EXCEPT ![f].synced = Len(files[f].recs)]

-----------------------------------------------------------------------------
\* The reactor's loop.

\* A batch from one connection: Aof::append queues the record and tees it;
\* epoll_stamp_hold and park_if_held keep the reply.  Bound: the tee of a
\* swap or of a save stays within the cap.
Write(c) ==
    /\ pc = "run" /\ n < MaxWrites
    /\ pjob.op \in {"swap", "save"} => Len(tee) < TeeCap
    /\ n' = n + 1
    /\ queue' = Append(queue, n + 1)
    /\ tee' = IF teeing THEN Append(tee, n + 1) ELSE tee
    /\ held' = IF policy = "always" THEN [held EXCEPT ![c] = n + 1] ELSE held
    /\ UNCHANGED <<acked, policy, diskVars, laneVars, proven, want, teeing, hold, pjob,
                   tmp, iters, pc, spent>>

\* Mutant: every held reply is sent, whatever the watermark.
ReleaseAll(w) ==
    /\ held' = [c \in Conn |-> 0]
    /\ acked' \in Largest({acked} \cup {held[c] : c \in Conn})

\* epoll_release_held: the replies that a durable watermark of w covers.
Release(w) ==
    LET out == {c \in Conn : held[c] # 0 /\ held[c] <= w}
    IN  /\ held' = [c \in Conn |-> IF c \in out THEN 0 ELSE held[c]]
        /\ acked' \in Largest({acked} \cup {held[c] : c \in out})

\* epoll_aof_reap empties the done channel.  At most one sync is in it, and
\* before every append that is.
Reaped == IF done.covers > proven THEN done.covers ELSE proven
Undrained == inflight - done.appends

\* Mutant: a failed sync stays in flight.
SyncingOn == fsyncing /\ done.covers = 0

Syncing == fsyncing /\ done.covers = 0 /\ ~done.failed
Dirty == done.appends > 0 \/ (unsynced /\ done.covers = 0)

\* Mutant: a swap does not hold the queue.
TakenAlways == IF queue = <<>> THEN <<>> ELSE <<[op |-> "append", recs |-> queue]>>

\* take_pending, unless a swap holds the queue.
Taken == IF hold \/ queue = <<>> THEN <<>> ELSE <<[op |-> "append", recs |-> queue]>>

\* epoll_aof_maybe_fsync, once the queue is taken; under everysec, when the
\* second has passed.
FsyncDue ==
    /\ ~hold /\ ~Syncing /\ Undrained = 0 /\ queue = <<>>
    /\ CASE policy = "everysec" -> Dirty
         [] policy = "no" -> FALSE
         [] OTHER -> n > Reaped

\* epoll_aof_tick
AofTick ==
    /\ pc = "run"
    /\ done' = Nothing
    /\ proven' = Reaped
    /\ unsynced' = Dirty
    /\ Release(Reaped)
    /\ inflight' = Undrained + Len(Taken)
    /\ queue' = IF Taken = <<>> THEN queue ELSE <<>>
    /\ \/ /\ FsyncDue
          /\ jobs' = jobs \o Taken \o <<[op |-> "fsync", covers |-> n]>>
          /\ fsyncing' = TRUE
       \/ /\ FsyncDue => policy = "everysec"
          /\ jobs' = jobs \o Taken
          /\ fsyncing' = Syncing
    /\ UNCHANGED <<n, policy, diskVars, lane, want, rewriteVars, pc, spent>>

\* epoll_aof_settle: wait until the lane has written what it took.
Settle ==
    /\ Undrained = 0
    /\ inflight' = 0
    /\ done' = Nothing
    /\ proven' = Reaped
    /\ unsynced' = Dirty
    /\ fsyncing' = Syncing
    /\ Release(Reaped)

\* try_apply_fsync_policy and set_fsync: towards always, what is queued is
\* written and synced through the log's own handle (the sync is skipped when
\* the log does not know of unsynced bytes).
SwitchPolicy(p) ==
    /\ pc = "run" /\ p # policy
    /\ Spend("upsets", MaxUpsets)
    /\ hold => Untimely("switch")
    /\ Settle
    /\ policy' = p
    /\ IF p = "always"
       THEN /\ LET wrote == Written(own, queue)
               IN  files' \in {wrote, [wrote EXCEPT ![own].synced = Len(wrote[own].recs)]}
            /\ queue' = <<>>
       ELSE UNCHANGED <<files, queue>>
    /\ UNCHANGED <<n, live, named, own, jobs, lane, want, rewriteVars, pc>>

-----------------------------------------------------------------------------
\* The lane: run_worker.

LaneAppend ==
    /\ jobs # <<>> /\ Head(jobs).op = "append"
    /\ files' = Written(lane, Head(jobs).recs)
    /\ done' = [done EXCEPT !.appends = @ + 1]
    /\ UNCHANGED spent

LaneSync ==
    /\ jobs # <<>> /\ Head(jobs).op = "fsync"
    /\ \/ /\ files' = Synced(lane)
          /\ done' = [done EXCEPT !.covers = Head(jobs).covers]
          /\ UNCHANGED spent
       \/ /\ Spend("upsets", MaxUpsets)
          /\ done' = [done EXCEPT !.failed = TRUE]
          /\ UNCHANGED files

\* The old handle is dropped, and with it a log that nothing names.
LaneReopen ==
    /\ jobs # <<>> /\ Head(jobs).op = "reopen"
    /\ lane' = Head(jobs).file
    /\ files' = [f \in DOMAIN files |->
                    IF f < lane' /\ f # named THEN Fresh(0) ELSE files[f]]
    /\ UNCHANGED <<done, spent>>

LaneStep ==
    /\ \/ (LaneAppend \/ LaneSync) /\ UNCHANGED lane
       \/ LaneReopen
    /\ jobs' = Tail(jobs)
    /\ UNCHANGED <<n, acked, policy, queue, live, named, own, inflight, fsyncing, unsynced,
                   proven, held, want, rewriteVars, pc>>

-----------------------------------------------------------------------------
\* Saves and rewrites on the reactor.

\* epoll_aof_restructure_ready
Ready == inflight = 0 /\ (queue = <<>> \/ hold)

Idle == pjob.op = "none" /\ ~teeing

\* begin_view_rewrite: write out the queue, start the tee, freeze the view.
Begin(op) ==
    /\ files' = Written(own, queue)
    /\ queue' = <<>>
    /\ teeing' = TRUE /\ tee' = <<>>
    /\ pjob' = [op |-> op, recs |-> <<>>, at |-> "run"]
    /\ tmp' = [img |-> n, recs |-> <<>>]
    /\ UNCHANGED <<n, acked, policy, live, named, own, laneVars, proven, held, hold, iters,
                   pc>>

\* start_bg_rewrite, by command or by the tick's growth rule.
BgRewrite ==
    /\ pc = "run"
    /\ Spend("rewrites", MaxRewrites)
    /\ \/ /\ ~Ready
          /\ want' = TRUE
          /\ UNCHANGED <<n, acked, policy, queue, diskVars, laneVars, proven, held,
                         rewriteVars, pc>>
       \/ /\ Ready /\ Idle
          /\ Begin("dump")
          /\ UNCHANGED want

\* start_bg_save, by command or, once the exit has drained the worker, for
\* SHUTDOWN SAVE.  It does not ask whether the lane still writes.
BgSave ==
    /\ pc \in {"run", "drain"} /\ Idle
    /\ Spend("saves", MaxSaves)
    /\ (\E i \in DOMAIN jobs : jobs[i].op = "append") => Untimely("save")
    /\ Begin("save")
    /\ UNCHANGED want

\* abort_rewrite_cleanup
Abort == teeing' = FALSE /\ tee' = <<>> /\ tmp' = NoImage /\ iters' = 0

OverrunDue == teeing /\ Len(tee) > TeeCap

\* check_tee_overrun
Overrun ==
    /\ pc = "run" /\ OverrunDue
    /\ Abort
    /\ UNCHANGED <<n, acked, policy, queue, diskVars, laneVars, proven, held, want, hold,
                   pjob, pc, spent>>

\* epoll_tick_persist asks in this order: the overrun, a rewrite that was put
\* off, the worker's completion.
DeferredRewrite ==
    /\ pc = "run" /\ Ready /\ want /\ ~OverrunDue
    /\ want' = FALSE
    /\ IF Idle
       THEN Begin("dump")
       ELSE UNCHANGED <<n, acked, policy, queue, diskVars, laneVars, proven, held,
                        rewriteVars, pc>>
    /\ UNCHANGED spent

\* poll_persist_done, on a tick or from the exit's drain_persist_on_shutdown.
Polls(op) ==
    /\ \/ pc = "run" /\ Ready /\ ~want /\ ~OverrunDue
       \/ pc = "drain"
    /\ pjob.op \in op

KeepsLog == UNCHANGED <<n, acked, policy, queue, diskVars, laneVars, proven, held, want, pc,
                        spent>>

\* advance_rewrite_handoff: the tee rides the swap (submit_offthread_swap),
\* ends the rewrite, or goes to the worker (hand_off_generation).
Advance(i, shrinking) ==
    LET small == Len(tee) <= SmallTee
        deferred == \/ i >= MaxHandoffs /\ ~small
                    \/ i > 0 /\ ~shrinking /\ ~small
                    \/ Len(tee) > TeeCap
    IN  \/ /\ tee = <<>> \/ (small /\ i >= MaxHandoffs)
           /\ hold' = TRUE
           /\ pjob' = [op |-> "swap", recs |-> tee, at |-> "run"]
           /\ tee' = <<>>
           /\ UNCHANGED <<teeing, tmp, iters>>
        \/ /\ tee # <<>> /\ deferred
           /\ pjob' = NoJob
           /\ Abort
           /\ UNCHANGED hold
        \/ /\ tee # <<>> /\ ~(small /\ i >= MaxHandoffs) /\ ~deferred
           /\ pjob' = [op |-> "append", recs |-> tee, at |-> "run"]
           /\ tee' = <<>> /\ iters' = i + 1
           /\ UNCHANGED <<teeing, hold, tmp>>

\* commit_rewrite_done and on_tee_appended.  A rewrite that Overrun ended
\* has no tee.
RewriteDone ==
    /\ Polls({"dump", "append"})
    /\ \/ /\ pjob.at = "ok" /\ teeing
          /\ IF pjob.op = "dump"
             THEN Advance(0, TRUE)
             ELSE Advance(iters, Len(tee) <= Len(pjob.recs) \div 2)
       \/ /\ pjob.at = "failed" \/ (pjob.at = "ok" /\ ~teeing)
          /\ pjob' = NoJob
          /\ Abort
          /\ UNCHANGED hold
    /\ KeepsLog

\* Mutant: what the swap held counts as durable.
ProvenByImageHeld == n

\* epoll_aof_on_swap_finalized
ProvenByImage == IF queue = <<>> THEN n ELSE proven

\* on_aof_reopened, over the log at inode f.
Reopened(f) ==
    /\ own' = f
    /\ jobs' = Append(jobs, [op |-> "reopen", file |-> f])
    /\ proven' = ProvenByImage
    /\ Release(ProvenByImage)
    /\ Abort
    /\ pjob' = NoJob
    /\ UNCHANGED <<n, policy, queue, done, inflight, fsyncing, unsynced, lane, want, pc,
                   spent>>

\* on_swap_done
SwapDone ==
    /\ Polls({"swap"})
    /\ \/ /\ pjob.at = "ok"
          /\ hold' = FALSE
          /\ Reopened(live)
          /\ UNCHANGED <<files, live, named>>
       \/ /\ pjob.at = "failed"
          /\ hold' = FALSE
          /\ pjob' = NoJob
          /\ Abort
          /\ KeepsLog

\* commit_persist_done for a save: the new log is the snapshot's successor
\* and holds the tee, synced.  Its rename is not followed by a sync of the
\* directory.
SaveDone ==
    /\ Polls({"save"})
    /\ \/ /\ pjob.at = "ok"
          /\ files' = Append(files, [img |-> tmp.img, recs |-> tee, synced |-> Len(tee)])
          /\ live' = Len(files) + 1
          /\ named' = IF Untimely("rename") THEN named ELSE live'
          /\ Reopened(live')
          /\ UNCHANGED hold
       \/ /\ pjob.at = "failed"
          /\ pjob' = NoJob
          /\ Abort
          /\ KeepsLog /\ UNCHANGED hold

-----------------------------------------------------------------------------
\* The persist worker: run_job.

WorkerKeeps == UNCHANGED <<n, acked, policy, queue, own, laneVars, proven, held, want, teeing,
                           tee, hold, iters, pc>>

\* dump_aof or write_snapshot_tmp_with_cursor, run_tee_append, and run_swap
\* up to its rename.
WorkerJob ==
    /\ pjob.op # "none" /\ pjob.at = "run"
    /\ \/ /\ pjob.op # "swap"
          /\ pjob' = [pjob EXCEPT !.at = "ok"]
          /\ tmp' = [tmp EXCEPT !.recs = @ \o pjob.recs]
          /\ UNCHANGED <<files, live, spent>>
       \/ /\ pjob.op = "swap"
          /\ pjob' = [pjob EXCEPT !.at = "renamed"]
          /\ LET image == tmp.recs \o pjob.recs
             IN  files' = Append(files, [img |-> tmp.img, recs |-> image,
                                         synced |-> Len(image)])
          /\ live' = Len(files) + 1
          /\ UNCHANGED <<tmp, spent>>
       \/ /\ Spend("upsets", MaxUpsets)
          /\ pjob' = [pjob EXCEPT !.at = "failed"]
          /\ UNCHANGED <<files, live, tmp>>
    /\ UNCHANGED named /\ WorkerKeeps

\* run_swap's sync of the directory.
WorkerDirSync ==
    /\ pjob.at = "renamed"
    /\ named' = live
    /\ pjob' = [pjob EXCEPT !.at = "ok"]
    /\ UNCHANGED <<files, live, tmp, spent>> /\ WorkerKeeps

-----------------------------------------------------------------------------
\* Exit, crash and restart.

\* The loop ends: epoll_aof_settle.  What came in after the last
\* epoll_aof_tick is still queued.
Stop ==
    /\ pc = "run"
    /\ Spend("upsets", MaxUpsets)
    /\ queue # <<>> /\ pjob.op \notin {"none", "swap"} => Untimely("stop")
    /\ Settle
    /\ pc' = "drain"
    /\ UNCHANGED <<n, policy, queue, diskVars, jobs, lane, want, rewriteVars>>

\* shutdown_drain's sync_now, after the worker has ended.
Exit ==
    /\ pc = "drain" /\ pjob.op = "none"
    /\ files' = Written(own, queue)
    /\ queue' = <<>>
    /\ held' = [c \in Conn |-> 0]
    /\ pc' = "down"
    /\ UNCHANGED <<n, acked, policy, live, named, own, laneVars, proven, want, rewriteVars,
                   spent>>

\* A start over a log that restores m writes, numbered on from there.  What
\* was read back counts as being on disk.
Boot(m) ==
    /\ n' = m /\ proven' = m
    /\ queue' = <<>>
    /\ files' = <<Fresh(m)>> /\ live' = 1 /\ named' = 1 /\ own' = 1 /\ lane' = 1
    /\ jobs' = <<>> /\ done' = Nothing /\ inflight' = 0
    /\ fsyncing' = FALSE /\ unsynced' = FALSE
    /\ held' = [c \in Conn |-> 0]
    /\ want' = FALSE
    /\ teeing' = FALSE /\ tee' = <<>> /\ hold' = FALSE
    /\ pjob' = NoJob /\ tmp' = NoImage /\ iters' = 0
    /\ pc' = "run"
    /\ UNCHANGED <<acked, policy>>

Restart ==
    /\ pc = "down"
    /\ Boot(files[live].img + Len(files[live].recs))
    /\ UNCHANGED spent

\* Power is lost: a rename not yet synced may be undone, and any part of a
\* file's unsynced tail may be missing.
Crash ==
    /\ Spend("upsets", MaxUpsets)
    /\ \E f \in {live, named} : \E k \in files[f].synced .. Len(files[f].recs) :
          Boot(files[f].img + k)

-----------------------------------------------------------------------------
Next ==
    \/ \E c \in Conn : Write(c)
    \/ \E p \in Targets : SwitchPolicy(p)
    \/ BgRewrite \/ BgSave \/ Stop \/ Crash
    \/ AofTick \/ Overrun \/ DeferredRewrite \/ RewriteDone \/ SwapDone \/ SaveDone
    \/ Exit \/ Restart
    \/ LaneStep
    \/ WorkerJob \/ WorkerDirSync

Spec == Init /\ [][Next]_vars

\* The reactor's loop goes round and its ticks come; the lane and the worker
\* are threads that run.
FairSpec ==
    /\ Spec
    /\ WF_vars(AofTick) /\ WF_vars(LaneStep) /\ WF_vars(WorkerJob \/ WorkerDirSync)
    /\ WF_vars(\/ Overrun \/ DeferredRewrite \/ RewriteDone \/ SwapDone \/ SaveDone
               \/ Exit \/ Restart)

-----------------------------------------------------------------------------
TypeOK ==
    /\ {n, acked, proven} \subseteq 0 .. MaxWrites
    /\ policy \in {"no", "everysec", "always"}
    /\ queue \in Records /\ tee \in Records
    /\ files \in Seq(File)
    /\ {live, named, own, lane} \subseteq DOMAIN files
    /\ jobs \in Seq(Job)
    /\ done \in [appends : Nat, covers : 0 .. MaxWrites, failed : BOOLEAN]
    /\ inflight \in Nat /\ iters \in 0 .. MaxHandoffs
    /\ {fsyncing, unsynced, want, teeing, hold} \subseteq BOOLEAN
    /\ held \in [Conn -> 0 .. MaxWrites]
    /\ pjob \in [op : {"none", "dump", "append", "swap", "save"}, recs : Records,
                 at : {"run", "renamed", "ok", "failed"}]
    /\ tmp \in [img : 0 .. MaxWrites, recs : Records]
    /\ pc \in {"run", "drain", "down"}
    /\ spent \in [rewrites : Nat, saves : Nat, upsets : Nat]

\* Will the lane's i-th job find inode f open?
OpenAt(i, f) ==
    LET reopens == {j \in 1 .. i - 1 : jobs[j].op = "reopen"}
    IN  IF reopens = {} THEN f = lane
        ELSE \E j \in Largest(reopens) : f = jobs[j].file

\* The records r are the writes after the k-th, in order.
Follows(r, k) == r = [i \in 1 .. Len(r) |-> k + i]

\* The last write that inode f restores.
Reach(f) == files[f].img + Len(files[f].recs)

\* The jobs that will write to the log.
Arriving == {i \in DOMAIN jobs : jobs[i].op = "append" /\ OpenAt(i, live)}

\* The last write that the log will restore once the jobs before the i-th are
\* done.
Ahead(i) ==
    Largest({Reach(live)} \cup UNION {{jobs[j].recs[k] : k \in DOMAIN jobs[j].recs} :
                                        j \in {j \in Arriving : j < i}})

\* The log, what the lane will still write to it, and the queue are together
\* every write of the shard, once and in order: the lane never writes to a
\* log that a rewrite or a save has replaced, nor the reactor ahead of the
\* lane (aof_writer.rs, swap_hold, the restructure gate).
LaneFlow ==
    /\ TypeOK
    /\ Follows(files[live].recs, files[live].img)
    /\ \A i \in Arriving : \E k \in Ahead(i) : Follows(jobs[i].recs, k)
    /\ \E k \in Ahead(Len(jobs) + 1) : Follows(queue, k) /\ n = k + Len(queue)

\* What durable_watermark covers is on disk in the log that a restart would
\* open, whether or not an unsynced rename survives.
ProvenIsDurable ==
    \A f \in {live, named} : proven <= files[f].img + files[f].synced

\* A client that was answered under appendfsync=always finds its write after
\* any restart: the lane implements the store that forgets no safe write.
Promise == INSTANCE DurableStore WITH written <- n, safe <- acked
KeepsPromise == Promise!Spec

\* A reply that is held for its sync leaves (or its connection ends): no sync
\* that fails, no swap and no policy change strands it.
RepliesLeave == \A c \in Conn : held[c] # 0 ~> held[c] = 0

=============================================================================
