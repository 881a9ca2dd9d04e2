--------------------------- MODULE AofLaneProofs ---------------------------
(***************************************************************************)
(* The append lane loses no write and keeps what it answered for: LaneFlow *)
(* and ProvenIsDurable are invariants of AofLane, and AofLane implements   *)
(* DurableStore, for any number of connections, writes, rewrites, saves,   *)
(* failures and crashes, any handoff limit and any cap.  The orders of     *)
(* events in Admit are left out, as in the run.                            *)
(***************************************************************************)
EXTENDS AofLaneWorkerProofs

\* A tee past its limit, dropped, keeps the invariant.
LEMMA OverrunKeeps ==
    ASSUME LaneInv, Overrun
    PROVE  LaneInv'
<1>a. /\ pc = "run" /\ Len(tee) > TeeCap /\ Abort
      /\ UNCHANGED <<n, acked, policy, queue, files, live, named, own, jobs, done, inflight,
                     fsyncing, unsynced, lane, proven, held, want, hold, pjob, pc, spent>>
  BY DEF Overrun, OverrunDue, diskVars, laneVars
<1>b. TypeOK /\ LogsInOrder /\ JobsInOrder /\ Chained /\ ImageComplete /\ SyncsCover
  BY DEF LaneInv
<1>c. pjob.op \notin {"swap", "save"}
  <2>1. Len(tee) \in Nat /\ TeeCap \in Nat
    BY <1>b, CounterType, RecordsType, Bounds
  <2> QED
    BY <1>a, <1>b, <2>1 DEF ImageComplete
<1>1. TypeOK'
  <2>1. {fsyncing, unsynced, want, teeing, hold}' \subseteq BOOLEAN
    BY ZenonT(30), <1>a, <1>b, AbortType DEF TypeOK
  <2> QED
    BY ZenonT(30), <1>a, <1>b, <2>1, AbortType DEF TypeOK
<1>2. LogsInOrder' /\ JobsInOrder' /\ SyncsCover'
  BY <1>a, <1>b, LogsFrame, JobsFrame, SyncsFrame
<1>3. Chained'
  BY <1>a, <1>b, ChainFrame
<1>4. ImageComplete'
  BY <1>a, <1>b, <1>c, AbortType DEF ImageComplete, Restructuring
<1> QED
  BY <1>1, <1>2, <1>3, <1>4 DEF LaneInv

-----------------------------------------------------------------------------
\* The reactor waits for the lane, or writes out the queue itself.

\* The queue written to the log, synced or not.
WroteOut ==
    /\ files' \in Seq(File) /\ Len(files') = Len(files) /\ DOMAIN files' = DOMAIN files
    /\ files'[live].img = files[live].img
    /\ files'[live].recs = files[live].recs \o queue
    /\ files'[live].synced \in {files[live].synced, Len(files'[live].recs)}
    /\ \A g \in DOMAIN files : g # live => files'[g] = files[g]

\* The steps that write the queue out on the reactor's own thread keep the invariant.
LEMMA WriteOutKeeps ==
    ASSUME LaneInv, Admit = {},
           \/ \E p \in Targets : SwitchPolicy(p)
           \/ Stop \/ Exit \/ BgRewrite \/ BgSave \/ DeferredRewrite
    PROVE  LaneInv'
\* epoll_aof_settle
<1>SettleFacts.
    ASSUME LaneInv, Settle
    PROVE  /\ acked' \in 0 .. MaxWrites /\ proven' \in 0 .. MaxWrites
           /\ held' \in [Conn -> 0 .. MaxWrites]
           /\ done' \in [appends : Nat, covers : 0 .. MaxWrites, failed : BOOLEAN]
           /\ unsynced' \in BOOLEAN /\ fsyncing' \in BOOLEAN
           /\ inflight' = 0 /\ done'.appends = 0 /\ done'.covers = 0
           /\ acked <= acked' /\ acked' <= proven' /\ proven' = Reaped
           /\ \A f \in {live, named} : proven' <= Kept(f)
           /\ NoAppend
  <2> USE <1>SettleFacts
  <2>a. /\ Undrained = 0 /\ inflight' = 0 /\ done' = Nothing /\ proven' = Reaped
        /\ unsynced' = Dirty /\ fsyncing' = Syncing /\ Release(Reaped)
    BY DEF Settle
  <2>b. TypeOK /\ JobsInOrder /\ SyncsCover
    BY DEF LaneInv
  <2>1. /\ Reaped \in 0 .. MaxWrites /\ acked <= Reaped
        /\ \A f \in {live, named} : Reaped <= Kept(f)
    BY <2>b, ReapedType
  <2>2. /\ held' \in [Conn -> 0 .. MaxWrites]
        /\ acked' \in 0 .. MaxWrites /\ acked <= acked' /\ acked' <= Reaped
    BY <2>a, <2>b, <2>1, ReleaseType
  <2>3. Dirty \in BOOLEAN /\ Syncing \in BOOLEAN
    BY <2>b DEF TypeOK, Dirty, Syncing
  <2>4. /\ done' \in [appends : Nat, covers : 0 .. MaxWrites, failed : BOOLEAN]
        /\ done'.appends = 0 /\ done'.covers = 0
    BY <2>a, Bounds DEF Nothing
  <2>5. NoAppend
    <3>1. inflight = done.appends
      BY <2>a, <2>b, UndrainedType DEF Undrained
    <3> QED
      BY <2>b, <3>1, DrainedJobs
  <2> QED
    BY <2>a, <2>1, <2>2, <2>3, <2>4, <2>5
\* Nothing is under way, and the count says so.
<1>QuietJobs.
    ASSUME TypeOK, JobsInOrder, NoAppend, UNCHANGED <<jobs, own, lane>>,
           inflight' = 0, done'.appends = 0
    PROVE  JobsInOrder'
  <2> USE <1>QuietJobs
  <2>1. Len(jobs) \in Nat /\ DOMAIN jobs = 1 .. Len(jobs)
    BY JobsType
  <2>2. /\ Len(jobs') \in 0 .. Len(jobs')
        /\ inflight' = done'.appends + (Len(jobs') - Len(jobs'))
        /\ \A i \in DOMAIN jobs' : jobs'[i].op = "append" <=> Len(jobs') < i
    BY <2>1 DEF NoAppend
  <2>3. \E q \in 0 .. Len(jobs') :
            /\ \A i \in DOMAIN jobs' : jobs'[i].op = "append" <=> q < i
            /\ inflight' = done'.appends + (Len(jobs') - q)
    BY <2>2
  <2> QED
    BY <2>3 DEF JobsInOrder
<1>SyncsGrow.
    ASSUME TypeOK, SyncsCover, UNCHANGED <<jobs, live, named, own>>,
           acked' <= proven',
           \A f \in {live, named} : /\ Kept(f)' \in Nat /\ Reach(f)' \in Nat
                                    /\ Kept(f) <= Kept(f)' /\ Reach(f) <= Reach(f)'
                                    /\ proven' <= Kept(f)' /\ done'.covers <= Kept(f)'
    PROVE  SyncsCover'
  <2> USE <1>SyncsGrow
  <2>1. \A f \in {live, named} : Kept(f) \in Nat /\ Reach(f) \in Nat
    BY ZenonT(30), FileType, CounterType
  <2>2. ASSUME NEW i \in DOMAIN jobs, jobs[i].op = "fsync", NEW f \in {live, named}
        PROVE  \/ jobs[i].covers <= Kept(f)'
               \/ /\ f = own /\ jobs[i].covers <= Reach(f)'
                  /\ \A j \in DOMAIN jobs : i < j => jobs[j].op # "reopen"
    <3>1. jobs[i].covers \in Nat
      BY <2>2, JobType, Bounds
    <3>2. \/ jobs[i].covers <= Kept(f)
          \/ /\ f = own /\ jobs[i].covers <= Reach(f)
             /\ \A j \in DOMAIN jobs : i < j => jobs[j].op # "reopen"
      BY <2>2 DEF SyncsCover
    <3>3. /\ Kept(f)' \in Nat /\ Reach(f)' \in Nat
          /\ Kept(f) <= Kept(f)' /\ Reach(f) <= Reach(f)'
          /\ Kept(f) \in Nat /\ Reach(f) \in Nat
      BY <2>1
    <3> QED
      BY <3>1, <3>2, <3>3
  <2> QED
    BY <2>2 DEF SyncsCover
<1>WriteOutFiles.
    ASSUME LaneInv, NoAppend, pjob.op # "swap", WroteOut, queue' = <<>>,
           UNCHANGED <<n, live, named, own, lane, jobs, hold>>,
           pjob'.op # "swap", pjob'.at # "renamed"
    PROVE  /\ LogsInOrder' /\ Chained' /\ Reach(live)' = n
           /\ \A f \in {live, named} : /\ Kept(f)' \in Nat /\ Reach(f)' \in Nat
                                        /\ Kept(f) <= Kept(f)' /\ Reach(f) <= Reach(f)'
  <2> USE <1>WriteOutFiles
  <2>b. TypeOK /\ LogsInOrder /\ Chained
    BY DEF LaneInv
  <2>c. live = own /\ live = named /\ live = Len(files)
    BY <2>b DEF LogsInOrder, Renamed
  <2>1. /\ Follows(files[live].recs, files[live].img)
        /\ Follows(queue, Reach(live))
        /\ n = Reach(live) + Len(queue)
    BY <2>b, DrainedChain
  <2>d. live \in DOMAIN files /\ queue \in Records /\ n \in Nat
    BY <2>b, CounterType
  <2>2. /\ live \in DOMAIN files /\ queue \in Records /\ files[live].recs \in Records
        /\ files[live].img \in Nat /\ files[live].synced \in Nat
        /\ Len(files[live].recs) \in Nat /\ Reach(live) \in Nat /\ Kept(live) \in Nat
        /\ Len(queue) \in Nat /\ n \in Nat
    BY <2>b, <2>d, FileType, RecordsType
  <2>3. Reach(live) = files[live].img + Len(files[live].recs)
    BY DEF Reach
  <2>4. /\ Follows(files'[live].recs, files'[live].img)
        /\ Len(files'[live].recs) = Len(files[live].recs) + Len(queue)
    <3>1. /\ Follows(files[live].recs \o queue, files[live].img)
          /\ Len(files[live].recs \o queue) = Len(files[live].recs) + Len(queue)
      BY <2>1, <2>2, <2>3, FollowsOn, RecordsType
    <3> QED
      BY <3>1 DEF WroteOut
  <2>5. Reach(live)' = n
    <3>1. Reach(live)' = files'[live].img + Len(files'[live].recs)
      BY DEF Reach
    <3>2. files'[live].img = files[live].img
      BY DEF WroteOut
    <3> QED
      BY <2>1, <2>2, <2>3, <2>4, <3>1, <3>2
  <2>6. files[live].synced <= Len(files[live].recs)
    BY <2>b, <2>2 DEF LogsInOrder
  <2>7. /\ files'[live].synced \in Nat /\ files[live].synced <= files'[live].synced
        /\ files'[live].synced <= Len(files'[live].recs)
    <3>1. \/ files'[live].synced = files[live].synced
          \/ files'[live].synced = Len(files'[live].recs)
      BY DEF WroteOut
    <3> QED
      BY <2>2, <2>4, <2>6, <3>1
  <2>8. Kept(live)' \in Nat /\ Kept(live) <= Kept(live)'
    <3>1. Kept(live)' = files'[live].img + files'[live].synced
      BY DEF Kept
    <3>2. files'[live].img = files[live].img
      BY DEF WroteOut
    <3>3. Kept(live) = files[live].img + files[live].synced
      BY DEF Kept
    <3> QED
      BY <2>2, <2>7, <3>1, <3>2, <3>3
  <2>9. Chained'
    <3>1. \A k, i : Mark(k, i)' <=> k = n
      <4>1. \A j \in DOMAIN jobs' : \A y : ~Carries(j, y)'
        BY DEF NoAppend, Carries
      <4> QED
        BY <2>2, <2>5, <4>1 DEF Mark
    <3>2. Follows(queue', n) /\ n' = n + Len(queue')
      BY <2>2, FollowsNone, RecordsType
    <3>3. Mark(n, Len(jobs) + 1)'
      BY <3>1
    <3> QED
      BY <2>2, <2>4, <3>2, <3>3 DEF Chained, NoAppend
  <2>10. LogsInOrder'
    <3>1. \A f \in DOMAIN files' : files'[f].synced <= Len(files'[f].recs)
      BY ZenonT(30), <2>b, <2>7 DEF WroteOut, LogsInOrder
    <3>2. \A f \in {live, named}' : Reach(f)' <= n'
      <4>1. \A f : f = live => Reach(f)' = n
        BY <2>5
      <4> QED
        BY <2>2, <2>c, <4>1
    <3>3. live' = Len(files')
      BY <2>c DEF WroteOut
    <3> QED
      BY <2>b, <2>c, <3>1, <3>2, <3>3 DEF LogsInOrder, Renamed
  <2>11. \A f \in {live, named} : /\ Kept(f)' \in Nat /\ Reach(f)' \in Nat
                                  /\ Kept(f) <= Kept(f)' /\ Reach(f) <= Reach(f)'
    <3>1. Reach(live)' \in Nat /\ Reach(live) <= Reach(live)'
      BY <2>1, <2>2, <2>5
    <3>2. PICK g : g = live
      OBVIOUS
    <3>3. /\ Kept(g)' \in Nat /\ Reach(g)' \in Nat
          /\ Kept(g) <= Kept(g)' /\ Reach(g) <= Reach(g)'
      BY <2>8, <3>1, <3>2
    <3>4. \A f \in {live, named} : f = g
      BY <2>c, <3>2
    <3> QED
      BY <3>3, <3>4
  <2> QED
    BY <2>5, <2>9, <2>10, <2>11
\* The log's own handle is on the log, unless a swap is under way.
<1>OwnWritten.
    ASSUME LaneInv, pjob.op # "swap"
    PROVE  /\ files' = Written(own, queue) => WroteOut
           /\ files' = [Written(own, queue) EXCEPT
                          ![own].synced = Len(Written(own, queue)[own].recs)] => WroteOut
  <2> USE <1>OwnWritten
  <2>b. TypeOK /\ LogsInOrder
    BY DEF LaneInv
  <2>c. own = live
    BY <2>b DEF LogsInOrder, Renamed
  <2>d. live \in DOMAIN files /\ queue \in Records /\ files[live].recs \in Records
    BY <2>b, CounterType, FileType
  <2> DEFINE w == Written(live, queue)
  <2>1. /\ w \in Seq(File) /\ Len(w) = Len(files) /\ DOMAIN w = DOMAIN files
        /\ w[live].img = files[live].img /\ w[live].synced = files[live].synced
        /\ w[live].recs = files[live].recs \o queue
        /\ \A g \in DOMAIN files : g # live => w[g] = files[g]
    BY <2>b, <2>d, WrittenType
  <2>2. w = Written(own, queue)
    BY <2>c
  <2> HIDE DEF w
  <2>3. files' = w => WroteOut
    BY ZenonT(30), <2>1 DEF WroteOut
  <2>4. ASSUME files' = [w EXCEPT ![live].synced = Len(w[live].recs)]
        PROVE  WroteOut
    <3> DEFINE e == [img |-> w[live].img, recs |-> w[live].recs,
                     synced |-> Len(w[live].recs)]
    <3>1. w[live] \in File
      BY <2>1, <2>d
    <3>2. [w[live] EXCEPT !.synced = Len(w[live].recs)] = e
      BY ZenonT(30), <3>1, FileField
    <3>3. w[live].recs \in Records /\ w[live].img \in 0 .. MaxWrites
          /\ Len(w[live].recs) \in Nat
      BY <3>1, RecordsType DEF File
    <3>4. e \in File
      BY <3>3 DEF File
    <3>5. e.img = w[live].img /\ e.recs = w[live].recs /\ e.synced = Len(w[live].recs)
      OBVIOUS
    <3>6. files' = [w EXCEPT ![live] = e]
      BY ZenonT(30), <2>4, <3>2
    <3> HIDE DEF e
    <3>7. /\ files' \in Seq(File) /\ Len(files') = Len(w) /\ DOMAIN files' = DOMAIN w
          /\ files'[live] = e /\ \A g \in DOMAIN w : g # live => files'[g] = w[g]
      BY <2>1, <2>d, <3>4, <3>6, FileUpdate
    <3> QED
      BY <2>1, <3>5, <3>7 DEF WroteOut
  <2> QED
    BY <2>2, <2>3, <2>4, <2>c
\* CONFIG SET appendfsync
<1>SwitchKeeps.
    ASSUME LaneInv, Admit = {}, NEW p \in Targets, SwitchPolicy(p)
    PROVE  LaneInv'
  <2> USE <1>SwitchKeeps
  <2>a. /\ Spend("upsets", MaxUpsets) /\ ~hold /\ Settle /\ policy' = p
        /\ UNCHANGED <<n, live, named, own, jobs, lane, want, teeing, tee, hold, pjob, tmp,
                       iters, pc>>
    BY DEF SwitchPolicy, Untimely, rewriteVars
  <2>b. TypeOK /\ LogsInOrder /\ JobsInOrder /\ Chained /\ ImageComplete /\ SyncsCover
    BY DEF LaneInv
  <2>c. pjob.op # "swap" /\ pjob.at # "renamed"
    BY ZenonT(30), <2>a, <2>b DEF LogsInOrder
  <2>d. (WroteOut /\ queue' = <<>>) \/ UNCHANGED <<files, queue>>
    <3>1. CASE p = "always"
      BY <2>c, <3>1, <1>OwnWritten DEF SwitchPolicy
    <3>2. CASE p # "always"
      BY <3>2 DEF SwitchPolicy
    <3> QED
      BY <3>1, <3>2
  <2>e. /\ acked' \in 0 .. MaxWrites /\ proven' \in 0 .. MaxWrites
        /\ held' \in [Conn -> 0 .. MaxWrites]
        /\ done' \in [appends : Nat, covers : 0 .. MaxWrites, failed : BOOLEAN]
        /\ unsynced' \in BOOLEAN /\ fsyncing' \in BOOLEAN
        /\ inflight' = 0 /\ done'.appends = 0 /\ done'.covers = 0
        /\ acked' <= proven'
        /\ \A f \in {live, named} : proven' <= Kept(f)
        /\ NoAppend
    BY <2>a, <1>SettleFacts
  <2>1. TypeOK'
    <3>1. files' \in Seq(File) /\ DOMAIN files' = DOMAIN files /\ queue' \in Records
      BY ZenonT(30), <2>b, <2>d, RecordsType, CounterType DEF WroteOut, TypeOK
    <3>2. policy' \in {"no", "everysec", "always"}
      BY <2>a, LaneAssumption
    <3>3. {n, acked, proven}' \subseteq 0 .. MaxWrites
      BY <2>a, <2>b, <2>e, CounterType
    <3>4. {fsyncing, unsynced, want, teeing, hold}' \subseteq BOOLEAN
      BY <2>a, <2>b, <2>e DEF TypeOK
    <3>5. spent' \in [rewrites : Nat, saves : Nat, upsets : Nat]
      BY <2>a, <2>b, SpendType
    <3>6. {live, named, own, lane}' \subseteq DOMAIN files'
      BY <2>a, <2>b, <3>1 DEF TypeOK
    <3>7. jobs' \in Seq(Job) /\ inflight' \in Nat /\ tee' \in Records
      BY <2>a, <2>b, <2>e, JobsType, CounterType
    <3> QED
      BY ZenonT(30), <2>a, <2>b, <2>e, <3>1, <3>2, <3>3, <3>4, <3>5, <3>6, <3>7 DEF TypeOK
  <2>2. JobsInOrder'
    BY <2>a, <2>b, <2>e, <1>QuietJobs
  <2>3. ImageComplete'
    BY <2>a, <2>b, <2>c, <2>d, ImageFrame
  <2>4. CASE WroteOut /\ queue' = <<>>
    <3>1. /\ LogsInOrder' /\ Chained'
          /\ \A f \in {live, named} : /\ Kept(f)' \in Nat /\ Reach(f)' \in Nat
                                       /\ Kept(f) <= Kept(f)' /\ Reach(f) <= Reach(f)'
      BY <2>a, <2>c, <2>e, <2>4, <1>WriteOutFiles
    <3>2. \A f \in {live, named} : proven' <= Kept(f)' /\ done'.covers <= Kept(f)'
      <4>1. \A f \in {live, named} : Kept(f) \in Nat
        BY <2>b, FileType, CounterType
      <4>2. proven' \in Nat
        BY <2>e, Bounds
      <4> QED
        BY <2>e, <3>1, <4>1, <4>2
    <3>3. SyncsCover'
      BY <2>a, <2>b, <2>e, <3>1, <3>2, <1>SyncsGrow
    <3> QED
      BY <2>1, <2>2, <2>3, <3>1, <3>3 DEF LaneInv
  <2>5. CASE UNCHANGED <<files, queue>>
    <3>1. LogsInOrder'
      BY <2>a, <2>b, <2>5, LogsFrame
    <3>2. Chained'
      BY <2>a, <2>b, <2>5, ChainFrame
    <3>3. \A f \in {live, named} : proven' <= Kept(f) /\ done'.covers <= Kept(f)
      <4>1. \A f \in {live, named} : Kept(f) \in Nat
        BY <2>b, FileType, CounterType
      <4> QED
        BY <2>e, <4>1
    <3>4. SyncsCover'
      BY <2>a, <2>b, <2>e, <2>5, <3>3, SyncsReaped
    <3> QED
      BY <2>1, <2>2, <2>3, <3>1, <3>2, <3>4 DEF LaneInv
  <2> QED
    BY <2>d, <2>4, <2>5
<1>StopKeeps.
    ASSUME LaneInv, Admit = {}, Stop
    PROVE  LaneInv'
  <2> USE <1>StopKeeps
  <2>a. /\ Spend("upsets", MaxUpsets) /\ Settle /\ pc' = "drain"
        /\ queue = <<>> \/ pjob.op \in {"none", "swap"}
        /\ UNCHANGED <<n, policy, queue, files, live, named, own, jobs, lane, want, teeing,
                       tee, hold, pjob, tmp, iters>>
    BY DEF Stop, Untimely, diskVars, rewriteVars
  <2>b. TypeOK /\ LogsInOrder /\ JobsInOrder /\ Chained /\ ImageComplete /\ SyncsCover
    BY DEF LaneInv
  <2>e. /\ acked' \in 0 .. MaxWrites /\ proven' \in 0 .. MaxWrites
        /\ held' \in [Conn -> 0 .. MaxWrites]
        /\ done' \in [appends : Nat, covers : 0 .. MaxWrites, failed : BOOLEAN]
        /\ unsynced' \in BOOLEAN /\ fsyncing' \in BOOLEAN
        /\ inflight' = 0 /\ done'.appends = 0 /\ done'.covers = 0
        /\ acked' <= proven'
        /\ \A f \in {live, named} : proven' <= Kept(f)
        /\ NoAppend
    BY <2>a, <1>SettleFacts
  <2>1. TypeOK'
    <3>1. {n, acked, proven}' \subseteq 0 .. MaxWrites
      BY <2>a, <2>b, <2>e, CounterType
    <3>2. {fsyncing, unsynced, want, teeing, hold}' \subseteq BOOLEAN
      BY <2>a, <2>b, <2>e DEF TypeOK
    <3>3. spent' \in [rewrites : Nat, saves : Nat, upsets : Nat]
      BY <2>a, <2>b, SpendType
    <3>4. inflight' \in Nat
      BY <2>e
    <3> QED
      BY <2>a, <2>b, <2>e, <3>1, <3>2, <3>3, <3>4 DEF TypeOK
  <2>2. LogsInOrder'
    BY <2>a, <2>b, LogsFrame
  <2>3. JobsInOrder'
    BY <2>a, <2>b, <2>e, <1>QuietJobs
  <2>4. Chained'
    BY <2>a, <2>b, ChainFrame
  <2>5. ImageComplete'
    <3>1. Reach(live)' = Reach(live)
      BY <2>a DEF Reach
    <3> QED
      BY ZenonT(30), <2>a, <2>b, <3>1 DEF ImageComplete, Built, ToDo, Follows, Restructuring
  <2>6. SyncsCover'
    <3>1. \A f \in {live, named} : Kept(f) \in Nat
      BY <2>b, FileType, CounterType
    <3>2. \A f \in {live, named} : proven' <= Kept(f) /\ done'.covers <= Kept(f)
      BY <2>e, <3>1
    <3> QED
      BY <2>a, <2>b, <2>e, <3>2, SyncsReaped
  <2> QED
    BY <2>1, <2>2, <2>3, <2>4, <2>5, <2>6 DEF LaneInv
\* The queue written out while the syncs and their answers stay.
<1>WriteOutSyncs.
    ASSUME LaneInv, UNCHANGED <<jobs, live, named, own, acked, proven, done>>,
           \A f \in {live, named} : /\ Kept(f)' \in Nat /\ Reach(f)' \in Nat
                                    /\ Kept(f) <= Kept(f)' /\ Reach(f) <= Reach(f)'
    PROVE  SyncsCover'
  <2> USE <1>WriteOutSyncs
  <2>b. TypeOK /\ SyncsCover
    BY DEF LaneInv
  <2>1. \A f \in {live, named} : Kept(f) \in Nat
    BY <2>b, FileType, CounterType
  <2>2. proven \in Nat /\ done.covers \in Nat
    BY SMTT(30), <2>b, CounterType, Bounds DEF TypeOK
  <2>3. /\ acked <= proven
        /\ \A f \in {live, named} : proven <= Kept(f) /\ done.covers <= Kept(f)
    BY ZenonT(30), <2>b DEF SyncsCover
  <2>4. \A f \in {live, named} : proven' <= Kept(f)' /\ done'.covers <= Kept(f)'
    BY <2>1, <2>2, <2>3
  <2> QED
    BY <2>b, <2>3, <2>4, <1>SyncsGrow
<1>ExitKeeps.
    ASSUME LaneInv, Exit
    PROVE  LaneInv'
  <2> USE <1>ExitKeeps
  <2>a. /\ pc = "drain" /\ pjob.op = "none"
        /\ files' = Written(own, queue) /\ queue' = <<>>
        /\ held' = [c \in Conn |-> 0] /\ pc' = "down"
        /\ UNCHANGED <<n, acked, policy, live, named, own, jobs, done, inflight, fsyncing,
                       unsynced, lane, proven, want, teeing, tee, hold, pjob, tmp, iters,
                       spent>>
    BY DEF Exit, laneVars, rewriteVars
  <2>b. TypeOK /\ LogsInOrder /\ JobsInOrder /\ Chained /\ ImageComplete /\ SyncsCover
    BY DEF LaneInv
  <2>c. WroteOut /\ pjob.op # "swap" /\ pjob.at # "renamed"
    BY <2>a, <2>b, <1>OwnWritten DEF LogsInOrder
  <2>d. inflight = 0 /\ NoAppend
    <3>1. inflight = 0
      BY <2>a, <2>b DEF JobsInOrder
    <3>2. Undrained \in Nat /\ done.appends \in Nat
      BY <2>b, UndrainedType
    <3>3. done.appends = 0
      BY <3>1, <3>2 DEF Undrained
    <3> QED
      BY <2>b, <3>1, <3>3, DrainedJobs
  <2>e. /\ LogsInOrder' /\ Chained'
        /\ \A f \in {live, named} : /\ Kept(f)' \in Nat /\ Reach(f)' \in Nat
                                     /\ Kept(f) <= Kept(f)' /\ Reach(f) <= Reach(f)'
    BY <2>a, <2>c, <2>d, <1>WriteOutFiles
  <2>1. TypeOK'
    <3>1. files' \in Seq(File) /\ DOMAIN files' = DOMAIN files /\ queue' \in Records
      BY ZenonT(30), <2>a, <2>c, RecordsType DEF WroteOut
    <3>2. held' \in [Conn -> 0 .. MaxWrites]
      BY SMTT(30), <2>a, Bounds
    <3> QED
      BY ZenonT(30), <2>a, <2>b, <3>1, <3>2 DEF TypeOK
  <2>2. JobsInOrder'
    BY ZenonT(30), <2>a, <2>b, <2>d DEF JobsInOrder
  <2>3. ImageComplete'
    BY ZenonT(30), <2>a, <2>b DEF ImageComplete, Restructuring
  <2>4. SyncsCover'
    BY <2>a, <2>e, <1>WriteOutSyncs
  <2> QED
    BY <2>1, <2>2, <2>3, <2>4, <2>e DEF LaneInv
\* begin_view_rewrite, with no append under way.
<1>BeginKeeps.
    ASSUME LaneInv, NEW op \in {"dump", "save"}, pjob.op = "none", NoAppend, Begin(op),
           want' \in BOOLEAN, spent' \in [rewrites : Nat, saves : Nat, upsets : Nat]
    PROVE  LaneInv'
  <2> USE <1>BeginKeeps
  <2>a. /\ files' = Written(own, queue) /\ queue' = <<>> /\ teeing' = TRUE /\ tee' = <<>>
        /\ pjob' = [op |-> op, recs |-> <<>>, at |-> "run"]
        /\ tmp' = [img |-> n, recs |-> <<>>]
        /\ UNCHANGED <<n, acked, policy, live, named, own, jobs, done, inflight, fsyncing,
                       unsynced, lane, proven, held, hold, iters, pc>>
    BY DEF Begin, laneVars
  <2>b. TypeOK /\ LogsInOrder /\ JobsInOrder /\ Chained /\ ImageComplete /\ SyncsCover
    BY DEF LaneInv
  <2>c. WroteOut
    BY <2>a, <1>OwnWritten
  <2>d. /\ pjob'.op = op /\ pjob'.recs = <<>> /\ pjob'.at = "run"
        /\ tmp'.img = n /\ tmp'.recs = <<>>
    BY <2>a
  <2>e. /\ LogsInOrder' /\ Chained'
        /\ \A f \in {live, named} : /\ Kept(f)' \in Nat /\ Reach(f)' \in Nat
                                     /\ Kept(f) <= Kept(f)' /\ Reach(f) <= Reach(f)'
    BY ZenonT(30), <2>a, <2>c, <2>d, <1>WriteOutFiles
  <2>1. TypeOK'
    <3>1. files' \in Seq(File) /\ DOMAIN files' = DOMAIN files /\ <<>> \in Records
      BY ZenonT(30), <2>a, <2>c, RecordsType DEF WroteOut
    <3>2. pjob' \in [op : {"none", "dump", "append", "swap", "save"}, recs : Records,
                     at : {"run", "renamed", "ok", "failed"}]
      BY ZenonT(30), <2>a, <3>1
    <3>3. tmp' \in [img : 0 .. MaxWrites, recs : Records]
      BY ZenonT(30), <2>a, <2>b, <3>1, CounterType
    <3>4. {fsyncing, unsynced, want, teeing, hold}' \subseteq BOOLEAN
      BY ZenonT(30), <2>a, <2>b DEF TypeOK
    <3> QED
      BY ZenonT(30), <2>a, <2>b, <3>1, <3>2, <3>3, <3>4 DEF TypeOK
  <2>2. JobsInOrder'
    BY <2>a, <2>b, JobsFrame
  <2>3. ImageComplete'
    <3>1. Len(<<>>) = 0 /\ <<>> \o <<>> = <<>> /\ n \in Nat /\ TeeCap \in Nat
      BY <2>b, CounterType, Bounds
    <3>2. ToDo' = <<>>
      BY <2>d DEF ToDo
    <3>3. Follows(tmp'.recs \o ToDo', tmp'.img)
      BY <2>d, <3>1, <3>2, FollowsNone
    <3>4. n' - Len(tee') = tmp'.img + Len(tmp'.recs) + Len(ToDo')
      BY <2>a, <2>d, <3>1, <3>2
    <3>5. Built(n - Len(tee))'
      BY <3>3, <3>4 DEF Built
    <3>6. Follows(tee', n' - Len(tee'))
      BY <2>a, FollowsNone
    <3>7. Len(tee') <= TeeCap
      BY <2>a, <3>1
    <3> QED
      BY ZenonT(30), <2>a, <2>d, <3>5, <3>6, <3>7 DEF ImageComplete
  <2>4. SyncsCover'
    BY <2>a, <2>e, <1>WriteOutSyncs
  <2> QED
    BY <2>1, <2>2, <2>3, <2>4, <2>e DEF LaneInv
<1>BgRewriteKeeps.
    ASSUME LaneInv, BgRewrite
    PROVE  LaneInv'
  <2> USE <1>BgRewriteKeeps
  <2>b. TypeOK /\ LogsInOrder /\ JobsInOrder /\ Chained /\ ImageComplete /\ SyncsCover
    BY DEF LaneInv
  <2>1. spent' \in [rewrites : Nat, saves : Nat, upsets : Nat]
    BY <2>b, SpendType DEF BgRewrite
  <2>2. CASE /\ want' = TRUE
             /\ UNCHANGED <<n, acked, policy, queue, diskVars, laneVars, proven, held,
                            rewriteVars, pc>>
    <3>a. UNCHANGED <<n, acked, policy, queue, files, live, named, own, jobs, done, inflight,
                      fsyncing, unsynced, lane, proven, held, teeing, tee, hold, pjob, tmp,
                      iters, pc>>
      BY <2>2 DEF diskVars, laneVars, rewriteVars
    <3>1. {fsyncing, unsynced, want, teeing, hold}' \subseteq BOOLEAN
      BY <2>b, <2>2, <3>a DEF TypeOK
    <3>2. TypeOK'
      BY ZenonT(30), <2>b, <2>1, <3>a, <3>1 DEF TypeOK
    <3>3. LogsInOrder' /\ JobsInOrder' /\ SyncsCover'
      BY <2>b, <3>a, LogsFrame, JobsFrame, SyncsFrame
    <3>4. Chained'
      BY <2>b, <3>a, ChainFrame
    <3>5. Reach(live)' = Reach(live)
      BY ZenonT(30), <3>a DEF Reach
    <3>6. ImageComplete'
      BY <2>b, <3>a, <3>5, ImageFrame
    <3> QED
      BY <3>2, <3>3, <3>4, <3>6 DEF LaneInv
  <2>3. CASE Ready /\ Idle /\ Begin("dump") /\ UNCHANGED want
    <3>1. NoAppend /\ pjob.op = "none" /\ want' \in BOOLEAN
      BY <2>b, <2>3, QuietLane DEF Ready, Idle, TypeOK
    <3> QED
      BY <2>1, <2>3, <3>1, <1>BeginKeeps
  <2> QED
    BY ZenonT(30), <2>2, <2>3 DEF BgRewrite
<1>BgSaveKeeps.
    ASSUME LaneInv, Admit = {}, BgSave
    PROVE  LaneInv'
  <2> USE <1>BgSaveKeeps
  <2>b. TypeOK
    BY DEF LaneInv
  <2>1. spent' \in [rewrites : Nat, saves : Nat, upsets : Nat]
    BY <2>b, SpendType DEF BgSave
  <2>2. NoAppend /\ pjob.op = "none" /\ Begin("save") /\ want' \in BOOLEAN
    BY <2>b DEF BgSave, Idle, Untimely, NoAppend, TypeOK
  <2> QED
    BY <2>1, <2>2, <1>BeginKeeps
<1>DeferredKeeps.
    ASSUME LaneInv, DeferredRewrite
    PROVE  LaneInv'
  <2> USE <1>DeferredKeeps
  <2>b. TypeOK /\ LogsInOrder /\ JobsInOrder /\ Chained /\ ImageComplete /\ SyncsCover
    BY DEF LaneInv
  <2>1. /\ spent' \in [rewrites : Nat, saves : Nat, upsets : Nat] /\ want' \in BOOLEAN
        /\ want' = FALSE /\ spent' = spent
    BY ZenonT(30), <2>b DEF DeferredRewrite, TypeOK
  <2>2. CASE Idle
    <3>1. NoAppend /\ pjob.op = "none" /\ Begin("dump")
      BY <2>b, <2>2, QuietLane DEF DeferredRewrite, Ready, Idle
    <3> QED
      BY <2>1, <3>1, <1>BeginKeeps
  <2>3. CASE ~Idle
    <3>a. UNCHANGED <<n, acked, policy, queue, files, live, named, own, jobs, done, inflight,
                      fsyncing, unsynced, lane, proven, held, teeing, tee, hold, pjob, tmp,
                      iters, pc>>
      BY <2>3 DEF DeferredRewrite, diskVars, laneVars, rewriteVars
    <3>1. {fsyncing, unsynced, want, teeing, hold}' \subseteq BOOLEAN
      BY ZenonT(30), <2>b, <2>1, <3>a DEF TypeOK
    <3>2. TypeOK'
      BY ZenonT(30), <2>b, <2>1, <3>a, <3>1 DEF TypeOK
    <3>3. LogsInOrder' /\ JobsInOrder' /\ SyncsCover'
      BY <2>b, <3>a, LogsFrame, JobsFrame, SyncsFrame
    <3>4. Chained'
      BY <2>b, <3>a, ChainFrame
    <3>5. Reach(live)' = Reach(live)
      BY ZenonT(30), <3>a DEF Reach
    <3>6. ImageComplete'
      BY <2>b, <3>a, <3>5, ImageFrame
    <3> QED
      BY <3>2, <3>3, <3>4, <3>6 DEF LaneInv
  <2> QED
    BY <2>2, <2>3
<1> QED
  BY <1>SwitchKeeps, <1>StopKeeps, <1>ExitKeeps, <1>BgRewriteKeeps, <1>BgSaveKeeps,
     <1>DeferredKeeps

-----------------------------------------------------------------------------
\* Start, restart and crash.

\* A server that has just replayed its log.
Started ==
    /\ n \in 0 .. MaxWrites /\ acked \in 0 .. MaxWrites /\ acked <= n /\ proven = n
    /\ policy \in {"no", "everysec", "always"}
    /\ queue = <<>>
    /\ files = <<Fresh(n)>> /\ live = 1 /\ named = 1 /\ own = 1 /\ lane = 1
    /\ jobs = <<>> /\ done = Nothing /\ inflight = 0
    /\ fsyncing = FALSE /\ unsynced = FALSE
    /\ held = [c \in Conn |-> 0]
    /\ want = FALSE
    /\ teeing = FALSE /\ tee = <<>> /\ hold = FALSE
    /\ pjob = NoJob /\ tmp = NoImage /\ iters = 0
    /\ pc = "run"
    /\ spent \in [rewrites : Nat, saves : Nat, upsets : Nat]

\* A server that has just replayed its log is in the invariant.
LEMMA StartedInv == Started => LaneInv
<1> SUFFICES ASSUME Started PROVE LaneInv
  OBVIOUS
<1>1. /\ MaxWrites \in Nat /\ MaxHandoffs \in Nat /\ 0 \in 0 .. MaxWrites
      /\ 0 \in 0 .. MaxHandoffs /\ n \in Nat /\ acked \in Nat /\ TeeCap \in Nat
  BY Bounds DEF Started
<1>2. /\ Fresh(n) \in File /\ Fresh(n).img = n /\ Fresh(n).recs = <<>>
      /\ Fresh(n).synced = 0
  BY <1>1, RecordsType DEF Started, Fresh, File
<1>3. /\ files \in Seq(File) /\ Len(files) = 1 /\ DOMAIN files = {1}
      /\ files[1] = Fresh(n)
  BY <1>2 DEF Started
<1>4. /\ jobs \in Seq(Job) /\ Len(jobs) = 0 /\ DOMAIN jobs = {}
  BY DEF Started
<1>5. Reach(live) = n /\ Kept(live) = n
  BY <1>1, <1>2, <1>3, RecordsType DEF Started, Reach, Kept
<1>6. /\ done.appends = 0 /\ done.covers = 0
      /\ done \in [appends : Nat, covers : 0 .. MaxWrites, failed : BOOLEAN]
  BY <1>1 DEF Started, Nothing
<1>7. /\ pjob.op = "none" /\ pjob.at = "ok"
      /\ pjob \in [op : {"none", "dump", "append", "swap", "save"}, recs : Records,
                   at : {"run", "renamed", "ok", "failed"}]
  BY RecordsType DEF Started, NoJob
<1>8. tmp \in [img : 0 .. MaxWrites, recs : Records]
  BY <1>1, RecordsType DEF Started, NoImage
<1>9. TypeOK
  <2>1. held \in [Conn -> 0 .. MaxWrites]
    BY <1>1 DEF Started
  <2>2. {live, named, own, lane} \subseteq DOMAIN files
    BY <1>3 DEF Started
  <2> QED
    BY ZenonT(30), <1>1, <1>3, <1>4, <1>6, <1>7, <1>8, <2>1, <2>2, RecordsType DEF Started, TypeOK
<1>10. LogsInOrder
  <2>1. \A f \in DOMAIN files : files[f].synced <= Len(files[f].recs)
    BY <1>2, <1>3, RecordsType
  <2>2. \A f \in {live, named} : Reach(f) <= n
    BY <1>1, <1>5 DEF Started
  <2>3. ~Renamed
    BY <1>7 DEF Renamed
  <2> QED
    BY <1>3, <1>7, <2>1, <2>2, <2>3 DEF Started, LogsInOrder
<1>11. JobsInOrder
  <2>1. inflight = done.appends + (Len(jobs) - 0)
    BY <1>4, <1>6 DEF Started
  <2>2. \E p \in 0 .. Len(jobs) :
            /\ \A i \in DOMAIN jobs : jobs[i].op = "append" <=> p < i
            /\ inflight = done.appends + (Len(jobs) - p)
    BY <1>4, <2>1
  <2> QED
    BY <1>4, <2>2 DEF Started, JobsInOrder
<1>12. Chained
  <2>1. Mark(n, Len(jobs) + 1)
    BY <1>1, <1>4, <1>5 DEF Mark
  <2>2. n = n + Len(queue)
    BY <1>1, RecordsType DEF Started
  <2>3. Follows(queue, n) /\ Follows(files[live].recs, files[live].img)
    BY <1>2, <1>3, FollowsNone DEF Started
  <2> QED
    BY <1>1, <1>4, <2>1, <2>2, <2>3 DEF Chained
<1>13. ImageComplete
  BY <1>7 DEF Started, ImageComplete, Restructuring
<1>14. SyncsCover
  BY <1>1, <1>4, <1>5, <1>6 DEF Started, SyncsCover
<1> QED
  BY <1>9, <1>10, <1>11, <1>12, <1>13, <1>14 DEF LaneInv

\* The initial states are in the invariant.
LEMMA InitInv == Init => LaneInv
<1>1. Init => Started
  BY LaneAssumption DEF Init, Started
<1> QED
  BY <1>1, StartedInv

\* A boot from a log that reaches every acknowledged write is in the invariant.
LEMMA BootKeeps ==
    ASSUME TypeOK, NEW m \in Nat, acked <= m, m <= n, Boot(m),
           spent' \in [rewrites : Nat, saves : Nat, upsets : Nat]
    PROVE  LaneInv'
<1>1. (Started => LaneInv)'
  BY StartedInv, PTL
<1>2. m \in 0 .. MaxWrites
  BY CounterType, Bounds
<1>3. Started'
  BY ZenonT(30), <1>2, CounterType DEF TypeOK, Boot, Started
<1> QED
  BY <1>1, <1>3

\* What a restart finds: no write that was answered is missing.
LEMMA AnsweredKept ==
    ASSUME LaneInv, NEW f \in {live, named}
    PROVE  /\ Reach(f) \in Nat /\ acked <= Reach(f) /\ Reach(f) <= n
           /\ \A k \in files[f].synced .. Len(files[f].recs) :
                 /\ files[f].img + k \in Nat
                 /\ acked <= files[f].img + k /\ files[f].img + k <= n
<1>b. TypeOK /\ LogsInOrder /\ SyncsCover
  BY DEF LaneInv
<1>1. /\ f \in DOMAIN files /\ n \in Nat /\ acked \in Nat /\ proven \in Nat
  BY <1>b, CounterType
<1>2. PICK x, y, z \in Nat : /\ x = files[f].img /\ y = files[f].synced
                            /\ z = Len(files[f].recs)
  BY <1>b, <1>1, FileType
<1>3. Reach(f) = x + z /\ Kept(f) = x + y
  BY <1>2 DEF Reach, Kept
<1>4. y <= z
  BY <1>b, <1>1, <1>2 DEF LogsInOrder
<1>5. x + z <= n
  BY <1>b, <1>3 DEF LogsInOrder
<1>6. acked <= proven /\ proven <= x + y
  BY <1>b, <1>3 DEF SyncsCover
<1>7. \A k \in y .. z : x + k \in Nat /\ acked <= x + k /\ x + k <= n
  BY <1>1, <1>4, <1>5, <1>6
<1>8. x + z \in Nat /\ acked <= x + z
  BY <1>4, <1>7
<1> QED
  BY <1>2, <1>3, <1>5, <1>7, <1>8

\* A restart keeps the invariant.
LEMMA RestartKeeps ==
    ASSUME LaneInv, Restart
    PROVE  LaneInv'
<1>b. TypeOK
  BY DEF LaneInv
<1>1. PICK m : m = Reach(live)
  OBVIOUS
<1>2. m \in Nat /\ acked <= m /\ m <= n
  BY <1>1, AnsweredKept
<1>3. Boot(m) /\ spent' = spent
  BY <1>1 DEF Restart, Reach
<1>4. spent' \in [rewrites : Nat, saves : Nat, upsets : Nat]
  BY <1>b, <1>3 DEF TypeOK
<1> QED
  BY <1>b, <1>2, <1>3, <1>4, BootKeeps

\* A crash, whichever file and whichever unsynced records it leaves, keeps the invariant.
LEMMA CrashKeeps ==
    ASSUME LaneInv, Crash
    PROVE  LaneInv'
<1>b. TypeOK
  BY DEF LaneInv
<1>1. PICK f \in {live, named} : \E k \in files[f].synced .. Len(files[f].recs) :
          Boot(files[f].img + k)
  BY DEF Crash
<1>2. PICK k \in files[f].synced .. Len(files[f].recs) : Boot(files[f].img + k)
  BY <1>1
<1>3. PICK m : m = files[f].img + k
  OBVIOUS
<1>4. m \in Nat /\ acked <= m /\ m <= n
  BY <1>1, <1>2, <1>3, AnsweredKept
<1>5. Boot(m)
  BY ZenonT(30), <1>2, <1>3 DEF Boot
<1>6. spent' \in [rewrites : Nat, saves : Nat, upsets : Nat]
  BY ZenonT(30), <1>b, SpendType DEF Crash
<1> QED
  BY <1>b, <1>4, <1>5, <1>6, BootKeeps

-----------------------------------------------------------------------------
\* The invariant.

\* A step that changes nothing keeps the invariant.
LEMMA StutterKeeps ==
    ASSUME LaneInv, UNCHANGED vars
    PROVE  LaneInv'
<1>a. UNCHANGED <<n, acked, policy, queue, files, live, named, own, jobs, done, inflight,
                  fsyncing, unsynced, lane, proven, held, want, teeing, tee, hold, pjob,
                  tmp, iters, pc, spent>>
  BY DEF vars, diskVars, laneVars, rewriteVars
<1>b. TypeOK /\ LogsInOrder /\ JobsInOrder /\ Chained /\ ImageComplete /\ SyncsCover
  BY DEF LaneInv
<1>1. TypeOK'
  BY ZenonT(30), <1>a, <1>b DEF TypeOK
<1>2. LogsInOrder'
  BY <1>a, <1>b, LogsFrame
<1>3. JobsInOrder'
  BY <1>a, <1>b, JobsFrame
<1>4. Chained'
  BY <1>a, <1>b, ChainFrame
<1>5. ImageComplete'
  <2>1. Reach(live)' = Reach(live)
    BY ZenonT(30), <1>a DEF Reach
  <2> QED
    BY <1>a, <1>b, <2>1, ImageFrame
<1>6. SyncsCover'
  BY <1>a, <1>b, SyncsFrame
<1> QED
  BY <1>1, <1>2, <1>3, <1>4, <1>5, <1>6 DEF LaneInv

\* Every step keeps the invariant.
LEMMA NextKeeps ==
    ASSUME Admit = {}, LaneInv, [Next]_vars
    PROVE  LaneInv'
<1>1. CASE \E c \in Conn : Write(c)
  BY <1>1, WriteKeeps
<1>2. CASE \E p \in Targets : SwitchPolicy(p)
  BY <1>2, WriteOutKeeps
<1>3. CASE BgRewrite
  BY <1>3, WriteOutKeeps
<1>4. CASE BgSave
  BY <1>4, WriteOutKeeps
<1>5. CASE Stop
  BY <1>5, WriteOutKeeps
<1>6. CASE Crash
  BY <1>6, CrashKeeps
<1>7. CASE AofTick
  BY <1>7, TickKeeps
<1>8. CASE Overrun
  BY <1>8, OverrunKeeps
<1>9. CASE DeferredRewrite
  BY <1>9, WriteOutKeeps
<1>10. CASE RewriteDone
  BY <1>10, PersistKeeps
<1>11. CASE SwapDone
  BY <1>11, PersistKeeps
<1>12. CASE SaveDone
  BY <1>12, PersistKeeps
<1>13. CASE Exit
  BY <1>13, WriteOutKeeps
<1>14. CASE Restart
  BY <1>14, RestartKeeps
<1>15. CASE LaneStep
  BY <1>15, LaneStepKeeps
<1>16. CASE WorkerJob
  BY <1>16, PersistKeeps
<1>17. CASE WorkerDirSync
  BY <1>17, DirSyncKeeps
<1>18. CASE UNCHANGED vars
  BY <1>18, StutterKeeps
<1> QED
  BY <1>1, <1>2, <1>3, <1>4, <1>5, <1>6, <1>7, <1>8, <1>9, <1>10, <1>11, <1>12,
     <1>13, <1>14, <1>15, <1>16, <1>17, <1>18 DEF Next

\* The inductive invariant: the lane's handles, its channel, its chain of
\* records, the image that a rewrite or a save prepares, and its syncs.
THEOREM LaneInvHolds ==
    ASSUME Admit = {}
    PROVE  Spec => []LaneInv
<1>1. Init => LaneInv
  BY InitInv
<1>2. LaneInv /\ [Next]_vars => LaneInv'
  BY NextKeeps
<1> QED
  BY <1>1, <1>2, PTL DEF Spec

\* What the durable watermark covers survives a loss of power, in whichever of
\* the old log and the renamed one the restart opens (FsyncDone and
\* finish_rewrite set the watermark; finish_save opens a new log).
THEOREM ProvenSurvives ==
    ASSUME Admit = {}
    PROVE  Spec => []ProvenIsDurable
<1>1. LaneInv => ProvenIsDurable
  BY DEF LaneInv, SyncsCover, ProvenIsDurable, Kept
<1> QED
  BY <1>1, LaneInvHolds, PTL

-----------------------------------------------------------------------------
\* The lane implements DurableStore.

\* Releasing replies never takes one back.
LEMMA ReleaseGrows == \A w : Release(w) => acked <= acked'
BY DEF Release, Largest

\* A step that neither writes nor restarts only answers for more writes.
LEMMA OthersAnswer ==
    ASSUME Next, \A c \in Conn : ~Write(c), ~Crash, ~Restart, acked \in Nat
    PROVE  n' = n /\ acked <= acked'
<1>a. acked <= acked
  OBVIOUS
<1>1. CASE \E p \in Targets : SwitchPolicy(p)
  BY <1>1, ReleaseGrows DEF SwitchPolicy, Settle
<1>2. CASE BgRewrite
  BY <1>2, <1>a DEF BgRewrite, Begin
<1>3. CASE BgSave
  BY ZenonT(30), <1>3, <1>a DEF BgSave, Begin
<1>4. CASE Stop
  BY <1>4, ReleaseGrows DEF Stop, Settle
<1>5. CASE AofTick
  BY <1>5, ReleaseGrows DEF AofTick
<1>6. CASE Overrun
  BY <1>6, <1>a DEF Overrun
<1>7. CASE DeferredRewrite
  BY <1>7, <1>a DEF DeferredRewrite, Begin
<1>8. CASE RewriteDone
  BY <1>8, <1>a DEF RewriteDone, KeepsLog
<1>9. CASE SwapDone
  BY <1>9, <1>a, ReleaseGrows DEF SwapDone, Reopened, KeepsLog
<1>10. CASE SaveDone
  BY <1>10, <1>a, ReleaseGrows DEF SaveDone, Reopened, KeepsLog
<1>11. CASE Exit
  BY <1>11, <1>a DEF Exit
<1>12. CASE LaneStep
  BY <1>12, <1>a DEF LaneStep
<1>13. CASE WorkerJob
  BY <1>13, <1>a DEF WorkerJob, WorkerKeeps
<1>14. CASE WorkerDirSync
  BY <1>14, <1>a DEF WorkerDirSync, WorkerKeeps
<1> QED
  BY <1>1, <1>2, <1>3, <1>4, <1>5, <1>6, <1>7, <1>8, <1>9, <1>10, <1>11, <1>12, <1>13,
     <1>14 DEF Next

\* Only a write that was made is acknowledged.
LEMMA AnsweredWritten == LaneInv => acked \in Nat /\ acked <= n
<1> SUFFICES ASSUME LaneInv PROVE acked \in Nat /\ acked <= n
  OBVIOUS
<1>1. acked \in Nat /\ n \in Nat /\ live \in {live, named}
  BY CounterType DEF LaneInv
<1>2. PICK m : m = Reach(live)
  OBVIOUS
<1>3. m \in Nat /\ acked <= m /\ m <= n
  BY <1>1, <1>2, AnsweredKept
<1> QED
  BY <1>1, <1>3

\* Every step of the lane is a step of the store's promise, or none.
LEMMA StepKeepsPromise ==
    ASSUME LaneInv, LaneInv', [Next]_vars
    PROVE  [Promise!Next]_<<n, acked>>
<1>1. /\ TypeOK /\ LogsInOrder /\ SyncsCover
      /\ n \in Nat /\ acked \in Nat
  BY CounterType DEF LaneInv
<1>2. CASE \E c \in Conn : Write(c)
  <2>1. n' = n + 1 /\ acked' = acked
    BY <1>2 DEF Write
  <2> QED
    BY <2>1 DEF Promise!Next, Promise!Write
<1>3. ASSUME NEW m \in Nat, acked <= m, m <= n, Boot(m)
      PROVE  [Promise!Next]_<<n, acked>>
  <2>1. n' = m /\ acked' = acked
    BY <1>3 DEF Boot
  <2>2. n' \in acked .. n
    BY <1>1, <1>3, <2>1
  <2> QED
    BY <2>1, <2>2 DEF Promise!Next, Promise!Restart
<1>4. CASE Restart
  <2>1. PICK m : m = Reach(live)
    OBVIOUS
  <2>2. m \in Nat /\ acked <= m /\ m <= n
    BY <2>1, AnsweredKept
  <2>3. Boot(m)
    BY <1>4, <2>1 DEF Restart, Reach
  <2> QED
    BY <1>3, <2>2, <2>3
<1>5. CASE Crash
  <2>1. PICK f \in {live, named} : \E k \in files[f].synced .. Len(files[f].recs) :
            Boot(files[f].img + k)
    BY <1>5 DEF Crash
  <2>2. PICK k \in files[f].synced .. Len(files[f].recs) : Boot(files[f].img + k)
    BY <2>1
  <2>3. PICK m : m = files[f].img + k
    OBVIOUS
  <2>4. m \in Nat /\ acked <= m /\ m <= n
    BY <2>1, <2>2, <2>3, AnsweredKept
  <2>5. Boot(m)
    BY ZenonT(30), <2>2, <2>3 DEF Boot
  <2> QED
    BY <1>3, <2>4, <2>5
<1>6. CASE Next /\ (\A c \in Conn : ~Write(c)) /\ ~Crash /\ ~Restart
  <2>1. n' = n /\ acked <= acked'
    BY <1>1, <1>6, OthersAnswer
  <2>2. acked' \in Nat /\ acked' <= n'
    <3>1. (LaneInv => acked \in Nat /\ acked <= n)'
      BY AnsweredWritten, PTL
    <3> QED
      BY <3>1
  <2>3. acked' \in acked .. n
    BY <1>1, <2>1, <2>2
  <2> QED
    BY <2>1, <2>3 DEF Promise!Next, Promise!Secure
<1>7. CASE UNCHANGED vars
  BY <1>7 DEF vars
<1> QED
  BY <1>2, <1>4, <1>5, <1>6, <1>7

\* The lane implements the store that forgets no write it answered for under
\* appendfsync=always: a reply that epoll_release_held sends covers writes
\* that every later restart finds, through rewrites, saves, failed syncs and
\* losses of power.
THEOREM LaneKeepsPromise ==
    ASSUME Admit = {}
    PROVE  Spec => KeepsPromise
<1>1. Init => Promise!Init
  BY DEF Init, Promise!Init
<1>2. LaneInv /\ LaneInv' /\ [Next]_vars => [Promise!Next]_<<n, acked>>
  BY StepKeepsPromise
<1> QED
  BY <1>1, <1>2, LaneInvHolds, PTL DEF Spec, KeepsPromise, Promise!Spec

-----------------------------------------------------------------------------
\* What LaneFlow says of the writes under way.

LOCAL INSTANCE WellFoundedInduction

\* A bounded set of natural numbers that is not empty has a largest.
LEMMA SomeLargest ==
    ASSUME NEW top \in Nat, NEW S, S \subseteq 0 .. top, S # {}
    PROVE  Largest(S) # {}
<1> DEFINE T == {top - x : x \in S}
<1>1. T \subseteq Nat /\ T # {}
  <2>1. \A x \in S : top - x \in Nat
    OBVIOUS
  <2>2. T \subseteq Nat
    BY <2>1
  <2>3. PICK x : x \in S
    OBVIOUS
  <2>4. top - x \in T
    BY <2>3
  <2> QED
    BY <2>2, <2>4
<1>2. PICK m \in T : \A y \in T : ~(<<y, m>> \in OpToRel(<, Nat))
  <2> HIDE DEF T
  <2> QED
    BY ZenonT(30), <1>1, WFMin, NatLessThanWellFounded
<1>3. \A y \in T : ~(y < m)
  BY ZenonT(30), <1>1, <1>2 DEF OpToRel
<1>4. PICK x \in S : m = top - x
  BY ZenonT(30), <1>2
<1>5. \A y \in S : y <= x
  <2> SUFFICES ASSUME NEW y \in S PROVE y <= x
    OBVIOUS
  <2>1. ~(top - y < top - x)
    BY ZenonT(30), <1>3, <1>4
  <2>2. x \in Nat /\ y \in Nat
    BY <1>4
  <2> QED
    BY <2>1, <2>2
<1> QED
  BY <1>4, <1>5 DEF Largest

\* Every append in the channel will be written to the log.
LEMMA AllArrive ==
    ASSUME LaneInv, NEW i \in DOMAIN jobs, jobs[i].op = "append"
    PROVE  OpenAt(i, live)
<1>b. TypeOK /\ LogsInOrder /\ JobsInOrder
  BY DEF LaneInv
<1>1. /\ Len(jobs) \in Nat /\ DOMAIN jobs = 1 .. Len(jobs)
      /\ i \in Nat /\ i \in 1 .. Len(jobs)
  BY <1>b DEF TypeOK
<1>2. PICK p \in 0 .. Len(jobs) :
          /\ \A j \in DOMAIN jobs : jobs[j].op = "append" <=> p < j
          /\ inflight = done.appends + (Len(jobs) - p)
  BY <1>b DEF JobsInOrder
<1>3. p < i
  BY <1>2
<1>4. done.appends \in Nat
  BY <1>b, UndrainedType
<1>5. inflight # 0
  BY <1>1, <1>2, <1>3, <1>4
<1>6. own = live
  <2>1. ~hold
    BY <1>b, <1>5 DEF JobsInOrder
  <2> QED
    BY <1>b, <2>1 DEF LogsInOrder, Renamed
<1>7. \A j \in DOMAIN jobs : jobs[j].op = "reopen" => j \in 1 .. i - 1
  <2> SUFFICES ASSUME NEW j \in DOMAIN jobs, jobs[j].op = "reopen"
               PROVE  j \in 1 .. i - 1
    OBVIOUS
  <2>1. ~(p < j)
    BY <1>2
  <2> QED
    BY <1>1, <1>3, <2>1
<1> DEFINE R == {j \in 1 .. i - 1 : jobs[j].op = "reopen"}
<1>8. \A j \in R : j \in DOMAIN jobs
  BY <1>1
<1>9. CASE R = {}
  <2>1. \A j \in DOMAIN jobs : jobs[j].op # "reopen"
    BY ZenonT(30), <1>7, <1>9
  <2>2. lane = own
    BY <1>b, <2>1 DEF JobsInOrder
  <2> QED
    BY <1>6, <1>9, <2>2 DEF OpenAt
<1>10. CASE R # {}
  <2>1. R \subseteq 0 .. i
    BY <1>1
  <2>2. Largest(R) # {}
    <3> HIDE DEF R
    <3> QED
      BY ZenonT(30), <1>1, <1>10, <2>1, SomeLargest
  <2>3. PICK j \in Largest(R) : TRUE
    BY <2>2
  <2>4. j \in R /\ \A l \in R : l <= j
    BY ZenonT(30), <2>3 DEF Largest
  <2>5. j \in DOMAIN jobs /\ jobs[j].op = "reopen" /\ j \in Nat
    BY <1>1, <1>8, <2>4
  <2>6. \A l \in DOMAIN jobs : jobs[l].op = "reopen" => ~(j < l)
    <3> SUFFICES ASSUME NEW l \in DOMAIN jobs, jobs[l].op = "reopen" PROVE ~(j < l)
      OBVIOUS
    <3>1. l <= j
      BY <1>7, <2>4
    <3>2. l \in Nat
      BY <1>1
    <3> QED
      BY <2>5, <3>1, <3>2
  <2>7. jobs[j].file = own
    BY <1>b, <2>5, <2>6 DEF JobsInOrder
  <2> QED
    BY ZenonT(30), <1>6, <1>10, <2>3, <2>7 DEF OpenAt
<1> QED
  BY <1>9, <1>10

\* Mark is the last write ahead of a job, as LaneFlow has it.
LEMMA MarkAhead ==
    ASSUME LaneInv, NEW k \in Nat, NEW i \in Nat, Mark(k, i)
    PROVE  k \in Ahead(i)
<1>b. TypeOK
  BY DEF LaneInv
<1> DEFINE Before == UNION {{jobs[j].recs[x] : x \in DOMAIN jobs[j].recs} :
                              j \in {j \in Arriving : j < i}}
<1>1. Reach(live) <= k
  BY DEF Mark
<1>2. \A y \in Before : y <= k
  <2> SUFFICES ASSUME NEW y \in Before PROVE y <= k
    BY ZenonT(30)
  <2>1. PICK j \in {j \in Arriving : j < i} :
            y \in {jobs[j].recs[x] : x \in DOMAIN jobs[j].recs}
    BY Zenon
  <2>2. j \in DOMAIN jobs /\ jobs[j].op = "append" /\ j < i
    BY ZenonT(30), <2>1 DEF Arriving
  <2>3. jobs[j].recs \in Records
    BY <1>b, <2>2, JobType
  <2>4. y \in Nat
    <3>1. PICK x \in DOMAIN jobs[j].recs : y = jobs[j].recs[x]
      BY ZenonT(30), <2>1
    <3>2. \A r \in Records : \A z \in DOMAIN r : r[z] \in Nat
      BY Bounds DEF Records
    <3> QED
      BY ZenonT(30), <2>3, <3>1, <3>2
  <2>5. Carries(j, y)
    BY <2>1, <2>2 DEF Carries
  <2> QED
    BY ZenonT(30), <2>1, <2>2, <2>4, <2>5 DEF Mark
<1>3. k = Reach(live) \/ k \in Before
  <2>1. CASE \E j \in DOMAIN jobs : j < i /\ Carries(j, k)
    <3>1. PICK j \in DOMAIN jobs : j < i /\ Carries(j, k)
      BY <2>1
    <3>2. jobs[j].op = "append" /\ \E x \in DOMAIN jobs[j].recs : jobs[j].recs[x] = k
      BY <3>1 DEF Carries
    <3>3. j \in Arriving
      BY <3>2, AllArrive DEF Arriving
    <3> QED
      BY <3>1, <3>2, <3>3
  <2> QED
    BY <2>1 DEF Mark
<1>4. Ahead(i) = Largest({Reach(live)} \cup Before)
  BY DEF Ahead
<1> HIDE DEF Before
<1> QED
  BY <1>1, <1>2, <1>3, <1>4 DEF Largest

\* The invariant says what LaneFlow says.
LEMMA InvLaneFlow == LaneInv => LaneFlow
<1> SUFFICES ASSUME LaneInv PROVE LaneFlow
  OBVIOUS
<1>b. TypeOK /\ Chained
  BY DEF LaneInv
<1>1. /\ Len(jobs) + 1 \in Nat
      /\ \A i \in DOMAIN jobs : i \in Nat
  BY <1>b DEF TypeOK
<1>2. \A i \in Arriving : \E k \in Ahead(i) : Follows(jobs[i].recs, k)
  <2> SUFFICES ASSUME NEW i \in Arriving
               PROVE  \E k \in Ahead(i) : Follows(jobs[i].recs, k)
    OBVIOUS
  <2>1. i \in DOMAIN jobs /\ jobs[i].op = "append"
    BY DEF Arriving
  <2>2. PICK k \in Nat : Mark(k, i) /\ Follows(jobs[i].recs, k)
    BY <1>b, <2>1 DEF Chained
  <2> QED
    BY <1>1, <2>1, <2>2, MarkAhead
<1>3. \E k \in Ahead(Len(jobs) + 1) : Follows(queue, k) /\ n = k + Len(queue)
  <2>1. PICK k \in Nat : /\ Mark(k, Len(jobs) + 1) /\ Follows(queue, k)
                         /\ n = k + Len(queue)
    BY <1>b DEF Chained
  <2> QED
    BY <1>1, <2>1, MarkAhead
<1> QED
  BY ZenonT(30), <1>b, <1>2, <1>3 DEF LaneFlow, Chained

\* The log, the appends in the lane's channel and the queue hold every write
\* of the shard once and in order, whatever rewrites, saves, failed syncs,
\* policy changes, stops and crashes happen (aof_writer.rs, swap_hold and the
\* restructure gate).
THEOREM LaneLosesNothing ==
    ASSUME Admit = {}
    PROVE  Spec => []LaneFlow
<1>1. LaneInv => LaneFlow
  BY InvLaneFlow
<1> QED
  BY <1>1, LaneInvHolds, PTL

=============================================================================
