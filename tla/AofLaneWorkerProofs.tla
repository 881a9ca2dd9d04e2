------------------------ MODULE AofLaneWorkerProofs ------------------------
(***************************************************************************)
(* The steps of the persist worker and of its completions, and the         *)
(* reactor's timer preserve the inductive invariant of AofLane.            *)
(***************************************************************************)
EXTENDS AofLaneStepProofs

-----------------------------------------------------------------------------
\* The persist worker and its completions.

\* The steps that end or move a rewrite leave the log alone.
LEMMA AbortType ==
    ASSUME TypeOK, Abort
    PROVE  /\ teeing' \in BOOLEAN /\ teeing' = FALSE /\ tee' \in Records
           /\ Len(tee') = 0 /\ iters' \in 0 .. MaxHandoffs
           /\ tmp' \in [img : 0 .. MaxWrites, recs : Records]
<1>1. /\ teeing' = FALSE /\ tee' = <<>> /\ iters' = 0
      /\ tmp' = [img |-> 0, recs |-> <<>>]
  BY DEF Abort, NoImage
<1>2. <<>> \in Records /\ Len(<<>>) = 0 /\ 0 \in 0 .. MaxWrites /\ 0 \in 0 .. MaxHandoffs
  BY RecordsType, Bounds
<1>3. tmp' \in [img : 0 .. MaxWrites, recs : Records]
  BY <1>1, <1>2
<1> QED
  BY ZenonT(30), <1>1, <1>2, <1>3

\* The worker's job, and the reactor taking each of its answers, keep the invariant.
LEMMA PersistKeeps ==
    ASSUME LaneInv, Admit = {}, RewriteDone \/ SwapDone \/ SaveDone \/ WorkerJob
    PROVE  LaneInv'
\* When the reactor looks at the worker's answer nothing is under way, and
\* unless a swap holds the queue there is none.
<1>PollsQuiet.
    ASSUME LaneInv, NEW S, Polls(S)
    PROVE  /\ inflight = 0 /\ NoAppend /\ done.appends = 0
           /\ n = Reach(live) + Len(queue)
           /\ Restructuring => queue = <<>> /\ n = Reach(live)
  <2> USE <1>PollsQuiet
  <2>b. TypeOK /\ LogsInOrder /\ JobsInOrder /\ Chained /\ ImageComplete
    BY DEF LaneInv
  <2>1. inflight = 0
    BY <2>b DEF Polls, Ready, JobsInOrder
  <2>2. NoAppend /\ done.appends = 0
    BY <2>1, QuietLane
  <2>3. n = Reach(live) + Len(queue)
    BY <2>b, <2>2, DrainedChain
  <2>4. Restructuring => queue = <<>>
    BY <2>b DEF Polls, Ready, Restructuring, ImageComplete, LogsInOrder
  <2>5. queue = <<>> => n = Reach(live)
    <3>1. Reach(live) \in Nat
      BY <2>b, FileType, CounterType
    <3> QED
      BY <2>3, <3>1, RecordsType
  <2> QED
    BY <2>1, <2>2, <2>3, <2>4, <2>5
\* A rewrite or a save is given up, or a swap has failed.
<1>GivenUpKeeps.
    ASSUME LaneInv, pjob' = NoJob, Abort, KeepsLog, hold' = FALSE,
           ~Renamed, pjob.at # "renamed"
    PROVE  LaneInv'
  <2> USE <1>GivenUpKeeps
  <2>a. UNCHANGED <<n, acked, policy, queue, files, live, named, own, jobs, done, inflight,
                    fsyncing, unsynced, lane, proven, held, want, pc, spent>>
    BY DEF KeepsLog, diskVars, laneVars
  <2>b. TypeOK /\ LogsInOrder /\ JobsInOrder /\ Chained /\ ImageComplete /\ SyncsCover
    BY DEF LaneInv
  <2>c. pjob'.op = "none" /\ pjob'.recs = <<>> /\ pjob'.at = "ok"
    BY DEF NoJob
  <2>1. TypeOK'
    <3>1. {fsyncing, unsynced, want, teeing, hold}' \subseteq BOOLEAN
      BY ZenonT(30), <2>a, <2>b, AbortType DEF TypeOK
    <3>2. pjob' \in [op : {"none", "dump", "append", "swap", "save"}, recs : Records,
                     at : {"run", "renamed", "ok", "failed"}]
      BY RecordsType DEF NoJob
    <3> QED
      BY ZenonT(30), <2>a, <2>b, <3>1, <3>2, AbortType DEF TypeOK
  <2>2. LogsInOrder'
    BY <2>a, <2>b, <2>c DEF LogsInOrder, Renamed, Reach
  <2>3. JobsInOrder'
    BY ZenonT(30), <2>a, <2>b DEF JobsInOrder
  <2>4. Chained'
    BY <2>a, <2>b, ChainFrame
  <2>5. ImageComplete'
    BY <2>c DEF ImageComplete, Restructuring
  <2>6. SyncsCover'
    BY <2>a, <2>b, SyncsFrame
  <2> QED
    BY <2>1, <2>2, <2>3, <2>4, <2>5, <2>6 DEF LaneInv
\* The tee goes to the worker, to be appended to the image or with the swap.
<1>HandedKeeps.
    ASSUME LaneInv, NEW op \in {"append", "swap"}, Polls({"dump", "append"}),
           pjob.at = "ok", teeing, KeepsLog,
           pjob' = [op |-> op, recs |-> tee, at |-> "run"],
           tee' = <<>>, UNCHANGED <<teeing, tmp>>, iters' \in 0 .. MaxHandoffs,
           hold' = (op = "swap")
    PROVE  LaneInv'
  <2> USE <1>HandedKeeps
  <2>a. UNCHANGED <<n, acked, policy, queue, files, live, named, own, jobs, done, inflight,
                    fsyncing, unsynced, lane, proven, held, want, pc, spent>>
    BY DEF KeepsLog, diskVars, laneVars
  <2>b. TypeOK /\ LogsInOrder /\ JobsInOrder /\ Chained /\ ImageComplete /\ SyncsCover
    BY DEF LaneInv
  <2>c. pjob'.op = op /\ pjob'.recs = tee /\ pjob'.at = "run"
    OBVIOUS
  <2>d. pjob.op \in {"dump", "append"} /\ Restructuring
    BY DEF Polls, Restructuring
  <2>e. inflight = 0 /\ queue = <<>> /\ n = Reach(live)
    BY <2>d, <1>PollsQuiet
  <2>f. tee \in Records /\ <<>> \in Records /\ Len(<<>>) = 0
    BY <2>b, CounterType, RecordsType
  <2>1. TypeOK'
    <3>1. {fsyncing, unsynced, want, teeing, hold}' \subseteq BOOLEAN
      BY ZenonT(30), <2>a, <2>b DEF TypeOK
    <3>2. pjob' \in [op : {"none", "dump", "append", "swap", "save"}, recs : Records,
                     at : {"run", "renamed", "ok", "failed"}]
      BY <2>f
    <3> QED
      BY ZenonT(30), <2>a, <2>b, <2>f, <3>1, <3>2 DEF TypeOK
  <2>2. LogsInOrder'
    BY ZenonT(30), <2>a, <2>b, <2>c, <2>d DEF LogsInOrder, Renamed, Reach
  <2>3. JobsInOrder'
    BY ZenonT(30), <2>a, <2>b, <2>e DEF JobsInOrder
  <2>4. Chained'
    BY <2>a, <2>b, ChainFrame
  <2>5. ImageComplete'
    <3>1. /\ tmp.img \in Nat /\ tmp.recs \in Records /\ Len(tmp.recs) \in Nat
          /\ Len(tee) \in Nat /\ n \in Nat
      BY SMTT(30), <2>b, <2>f, CounterType, RecordsType, Bounds DEF TypeOK
    <3>2. Built(n - Len(tee)) /\ Follows(tee, n - Len(tee))
      BY <2>b, <2>d DEF ImageComplete
    <3>3. ToDo = <<>> /\ tmp.recs \o <<>> = tmp.recs
      BY <3>1, RecordsType DEF ToDo
    <3>4. Follows(tmp.recs, tmp.img) /\ n - Len(tee) = tmp.img + Len(tmp.recs)
      BY <2>f, <3>1, <3>2, <3>3 DEF Built
    <3>5. Follows(tmp.recs \o tee, tmp.img)
      BY ZenonT(30), <2>f, <3>1, <3>2, <3>4, FollowsOn
    <3>6. ToDo' = tee
      BY <2>c DEF ToDo
    <3>7. n = tmp.img + Len(tmp.recs) + Len(tee)
      BY <3>1, <3>4
    <3>8. \A k : k = n => Built(k)'
      BY <3>5, <3>6, <3>7 DEF Built
    <3>9. n' - Len(tee') = n /\ Len(tee') <= TeeCap
      BY <2>a, <2>f, <3>1, Bounds
    <3>10. Built(n - Len(tee))' /\ Follows(tee', n' - Len(tee'))
      BY <3>8, <3>9, FollowsNone
    <3>11. Reach(live)' = n
      BY <2>a, <2>e DEF Reach
    <3>12. Built(Reach(live))'
      BY <3>8, <3>11
    <3> QED
      BY <2>a, <2>c, <2>e, <3>9, <3>10, <3>12 DEF ImageComplete, Restructuring
  <2>6. SyncsCover'
    BY <2>a, <2>b, SyncsFrame
  <2> QED
    BY <2>1, <2>2, <2>3, <2>4, <2>5, <2>6 DEF LaneInv
<1>RewriteDoneKeeps.
    ASSUME LaneInv, RewriteDone
    PROVE  LaneInv'
  <2> USE <1>RewriteDoneKeeps
  <2>b. TypeOK /\ LogsInOrder
    BY DEF LaneInv
  <2>c. /\ Polls({"dump", "append"}) /\ KeepsLog /\ pjob.op \in {"dump", "append"}
    BY DEF RewriteDone, Polls
  <2>d. hold = FALSE /\ ~Renamed /\ pjob.at # "renamed"
    BY <2>b, <2>c DEF LogsInOrder, Renamed, TypeOK
  <2>1. CASE pjob' = NoJob /\ Abort /\ UNCHANGED hold
    BY ZenonT(30), <2>c, <2>d, <2>1, <1>GivenUpKeeps
  <2>2. ASSUME pjob.at = "ok", teeing, NEW i \in 0 .. MaxHandoffs, NEW shrinking,
               Advance(i, shrinking)
        PROVE  LaneInv'
    <3>1. CASE /\ hold' = TRUE /\ pjob' = [op |-> "swap", recs |-> tee, at |-> "run"]
               /\ tee' = <<>> /\ UNCHANGED <<teeing, tmp, iters>>
      <4>1. iters' \in 0 .. MaxHandoffs
        BY <2>b, <3>1 DEF TypeOK
      <4> QED
        BY ZenonT(30), <2>c, <2>2, <3>1, <4>1, <1>HandedKeeps
    <3>2. CASE pjob' = NoJob /\ Abort /\ UNCHANGED hold
      BY <2>1, <3>2
    <3>3. CASE /\ i < MaxHandoffs /\ pjob' = [op |-> "append", recs |-> tee, at |-> "run"]
               /\ tee' = <<>> /\ iters' = i + 1 /\ UNCHANGED <<teeing, hold, tmp>>
      <4>1. iters' \in 0 .. MaxHandoffs
        BY <2>2, <3>3, Bounds
      <4> QED
        BY ZenonT(30), <2>c, <2>d, <2>2, <3>3, <4>1, <1>HandedKeeps
    <3>4. i >= MaxHandoffs \/ i < MaxHandoffs
      BY <2>2, Bounds
    <3> QED
      BY ZenonT(30), <2>2, <3>1, <3>2, <3>3, <3>4 DEF Advance
  <2>3. 0 \in 0 .. MaxHandoffs /\ iters \in 0 .. MaxHandoffs
    BY <2>b, Bounds DEF TypeOK
  <2> QED
    BY ZenonT(30), <2>1, <2>2, <2>3 DEF RewriteDone
\* A reopen is handed to a lane that has no append under way.
<1>ReopenJobs.
    ASSUME TypeOK, JobsInOrder, NoAppend, inflight = 0, done.appends = 0,
           NEW f \in Nat, own <= f, f > 0, own' = f,
           jobs' = Append(jobs, [op |-> "reopen", file |-> f]),
           UNCHANGED <<inflight, done>>
    PROVE  JobsInOrder' /\ NoAppend' /\ jobs' \in Seq(Job)
  <2> USE <1>ReopenJobs
  <2>1. PICK x \in Job : x.op = "reopen" /\ x.file = f /\ jobs' = Append(jobs, x)
    <3>1. [op |-> "reopen", file |-> f] \in Job
      BY DEF Job
    <3> QED
      BY <3>1
  <2>2. /\ jobs' \in Seq(Job) /\ Len(jobs) \in Nat /\ DOMAIN jobs = 1 .. Len(jobs)
        /\ Len(jobs') = Len(jobs) + 1 /\ DOMAIN jobs' = 1 .. Len(jobs) + 1
        /\ \A j \in DOMAIN jobs : jobs'[j] = jobs[j]
        /\ jobs'[Len(jobs) + 1] = x
    BY <2>1, JobAdded, JobsType
  <2>3. \A i \in DOMAIN jobs' : i \in DOMAIN jobs \/ i = Len(jobs) + 1
    BY SMTT(30), <2>2
  <2>4. NoAppend'
    BY <2>1, <2>2, <2>3 DEF NoAppend
  <2>5. /\ Len(jobs') \in 0 .. Len(jobs')
        /\ inflight' = done'.appends + (Len(jobs') - Len(jobs'))
        /\ \A i \in DOMAIN jobs' : jobs'[i].op = "append" <=> Len(jobs') < i
    BY <2>2, <2>4 DEF NoAppend
  <2>6. \E q \in 0 .. Len(jobs') :
            /\ \A i \in DOMAIN jobs' : jobs'[i].op = "append" <=> q < i
            /\ inflight' = done'.appends + (Len(jobs') - q)
    BY <2>5
  <2>7. own \in Nat
    <3>1. own \in DOMAIN files /\ files \in Seq(File)
      BY ZenonT(30), CounterType DEF TypeOK
    <3> QED
      BY <3>1
  <2>8. ASSUME NEW i \in DOMAIN jobs', jobs'[i].op = "reopen"
        PROVE  /\ jobs'[i].file \in 1 .. own'
               /\ \/ jobs'[i].file = own'
                  \/ \E j \in DOMAIN jobs' : i < j /\ jobs'[j].op = "reopen"
    <3>1. CASE i = Len(jobs) + 1
      BY SMTT(30), <2>1, <2>2, <3>1
    <3>2. CASE i \in DOMAIN jobs
      <4>1. jobs[i].file \in 1 .. own
        BY <2>2, <2>8, <3>2 DEF JobsInOrder
      <4>2. jobs'[i].file \in 1 .. own'
        BY <2>2, <2>7, <3>2, <4>1
      <4>3. Len(jobs) + 1 \in DOMAIN jobs' /\ i < Len(jobs) + 1
        BY <2>2, <3>2
      <4> QED
        BY <2>1, <2>2, <4>2, <4>3
    <3> QED
      BY ZenonT(30), <2>3, <3>1, <3>2
  <2>9. \E i \in DOMAIN jobs' : jobs'[i].op = "reopen"
    <3>1. Len(jobs) + 1 \in DOMAIN jobs'
      BY <2>2
    <3> QED
      BY <2>1, <2>2, <3>1
  <2>10. hold' \/ pc' # "run" => inflight' = 0
    OBVIOUS
  <2> QED
    BY ZenonT(30), <2>2, <2>4, <2>6, <2>8, <2>9, <2>10 DEF JobsInOrder
\* After a reopen every sync under way covers nothing that is not safe in the
\* new log already.
<1>ReopenSyncs.
    ASSUME TypeOK, SyncsCover, NEW f \in Nat,
           jobs' = Append(jobs, [op |-> "reopen", file |-> f]),
           live' = named', acked' <= proven', proven' <= Kept(live)',
           done'.covers <= Kept(live)',
           \A i \in DOMAIN jobs : jobs[i].op = "fsync" => jobs[i].covers <= Kept(live)'
    PROVE  SyncsCover'
  <2> USE <1>ReopenSyncs
  <2>1. PICK x \in Job : x.op = "reopen" /\ jobs' = Append(jobs, x)
    <3>1. [op |-> "reopen", file |-> f] \in Job
      BY DEF Job
    <3> QED
      BY ZenonT(30), <3>1
  <2>2. /\ Len(jobs) \in Nat /\ DOMAIN jobs = 1 .. Len(jobs)
        /\ DOMAIN jobs' = 1 .. Len(jobs) + 1
        /\ \A j \in DOMAIN jobs : jobs'[j] = jobs[j]
        /\ jobs'[Len(jobs) + 1] = x
    BY SMTT(30), <2>1, JobAdded, JobsType
  <2>3. \A i \in DOMAIN jobs' : i \in DOMAIN jobs \/ i = Len(jobs) + 1
    BY <2>2
  <2>4. PICK g : g = live'
    OBVIOUS
  <2>5. \A h \in {live, named}' : h = g
    BY <2>4
  <2>6. \A h : h = g => proven' <= Kept(h)' /\ done'.covers <= Kept(h)'
    BY <2>4
  <2>7. \A i \in DOMAIN jobs' : jobs'[i].op = "fsync" =>
            \A h \in {live, named}' : jobs'[i].covers <= Kept(h)'
    <3>1. \A i \in DOMAIN jobs : jobs[i].op = "fsync" =>
              \A h : h = g => jobs[i].covers <= Kept(h)'
      BY <2>4
    <3> QED
      BY ZenonT(30), <2>1, <2>2, <2>3, <2>5, <3>1
  <2> QED
    BY ZenonT(30), <2>5, <2>6, <2>7 DEF SyncsCover
<1>SwapDoneKeeps.
    ASSUME LaneInv, SwapDone
    PROVE  LaneInv'
  <2> USE <1>SwapDoneKeeps
  <2>b. TypeOK /\ LogsInOrder /\ JobsInOrder /\ Chained /\ ImageComplete /\ SyncsCover
    BY DEF LaneInv
  <2>c. Polls({"swap"}) /\ pjob.op = "swap"
    BY DEF SwapDone, Polls
  <2>1. CASE pjob.at = "failed" /\ hold' = FALSE /\ pjob' = NoJob /\ Abort /\ KeepsLog
    <3>1. ~Renamed /\ pjob.at # "renamed"
      BY <2>1 DEF Renamed
    <3> QED
      BY ZenonT(30), <2>1, <3>1, <1>GivenUpKeeps
  <2>2. CASE /\ pjob.at = "ok" /\ hold' = FALSE /\ Reopened(live)
             /\ UNCHANGED <<files, live, named>>
    <3>a. /\ own' = live /\ jobs' = Append(jobs, [op |-> "reopen", file |-> live])
          /\ proven' = ProvenByImage /\ Release(ProvenByImage) /\ Abort /\ pjob' = NoJob
          /\ hold' = FALSE
          /\ UNCHANGED <<n, policy, queue, done, inflight, fsyncing, unsynced, lane, want, pc,
                         spent, files, live, named>>
      BY <2>2 DEF Reopened
    <3>b. /\ own < live /\ files[live].synced = Len(files[live].recs) /\ named = live
          /\ lane <= own /\ live = Len(files)
      BY <2>b, <2>c, <2>2 DEF LogsInOrder, Renamed
    <3>c. inflight = 0 /\ NoAppend /\ done.appends = 0 /\ n = Reach(live) + Len(queue)
      BY <2>c, <1>PollsQuiet
    <3>d. pjob'.op = "none" /\ pjob'.recs = <<>> /\ pjob'.at = "ok"
      BY <3>a DEF NoJob
    <3>e. live \in Nat /\ own \in Nat /\ lane \in Nat /\ live > 0
      <4>1. {live, own, lane} \subseteq DOMAIN files /\ files \in Seq(File)
        BY ZenonT(30), <2>b DEF TypeOK
      <4> QED
        BY <4>1
    <3>f. /\ Kept(live) \in Nat /\ Kept(live) = Reach(live) /\ proven <= Kept(live)
          /\ done.covers <= Kept(live)
      <4>1. Kept(live) \in Nat /\ Kept(live) = Reach(live)
        BY <2>b, <3>b, FileType, CounterType DEF Kept, Reach
      <4>2. proven <= Kept(live) /\ done.covers <= Kept(live)
        BY <2>b DEF SyncsCover
      <4> QED
        BY <4>1, <4>2
    <3>g. /\ ProvenByImage \in 0 .. MaxWrites /\ acked <= ProvenByImage
          /\ ProvenByImage <= Kept(live)
      <4>1. /\ acked <= proven /\ n \in 0 .. MaxWrites /\ proven \in 0 .. MaxWrites
            /\ acked \in Nat /\ MaxWrites \in Nat
        BY <2>b, CounterType, Bounds DEF SyncsCover
      <4>2. queue = <<>> => n = Kept(live)
        BY <3>c, <3>f, RecordsType
      <4> QED
        BY <3>f, <4>1, <4>2 DEF ProvenByImage
    <3>h. /\ held' \in [Conn -> 0 .. MaxWrites]
          /\ acked' \in 0 .. MaxWrites /\ acked' <= proven'
      BY <2>b, <3>a, <3>g, ReleaseType
    <3>1. JobsInOrder' /\ jobs' \in Seq(Job)
      <4>1. own <= live
        BY <3>b, <3>e
      <4> QED
        BY <2>b, <3>a, <3>c, <3>e, <4>1, <1>ReopenJobs
    <3>2. TypeOK'
      <4>1. {fsyncing, unsynced, want, teeing, hold}' \subseteq BOOLEAN
        BY ZenonT(30), <2>b, <3>a, AbortType DEF TypeOK
      <4>2. pjob' \in [op : {"none", "dump", "append", "swap", "save"}, recs : Records,
                       at : {"run", "renamed", "ok", "failed"}]
        BY <3>a, RecordsType DEF NoJob
      <4>3. {n, acked, proven}' \subseteq 0 .. MaxWrites
        BY <2>b, <3>a, <3>g, <3>h, CounterType
      <4>4. {live, named, own, lane}' \subseteq DOMAIN files'
        BY <2>b, <3>a DEF TypeOK
      <4> QED
        BY ZenonT(30), <2>b, <3>a, <3>h, <3>1, <4>1, <4>2, <4>3, <4>4, AbortType DEF TypeOK
    <3>3. LogsInOrder'
      <4>1. lane' <= own'
        BY <3>a, <3>b, <3>e
      <4> QED
        BY ZenonT(30), <2>b, <3>a, <3>b, <3>d, <4>1 DEF LogsInOrder, Renamed, Reach
    <3>4. Chained'
      <4>1. PICK x \in Job : x.op # "append" /\ jobs' = Append(jobs, x)
        <5>1. [op |-> "reopen", file |-> live] \in Job
          BY <3>e DEF Job
        <5> QED
          BY <3>a, <5>1
      <4> QED
        BY <2>b, <3>a, <4>1, ChainPassed
    <3>5. ImageComplete'
      BY ZenonT(30), <3>d DEF ImageComplete, Restructuring
    <3>6. SyncsCover'
      <4>1. Kept(live)' = Kept(live)
        BY ZenonT(30), <3>a DEF Kept
      <4>2. \A i \in DOMAIN jobs : jobs[i].op = "fsync" => jobs[i].covers <= Kept(live)
        BY <2>b, <3>b, <3>e DEF SyncsCover
      <4> QED
        BY ZenonT(30), <2>b, <3>a, <3>b, <3>e, <3>f, <3>g, <3>h, <4>1, <4>2, <1>ReopenSyncs
    <3> QED
      BY <3>1, <3>2, <3>3, <3>4, <3>5, <3>6 DEF LaneInv
  <2> QED
    BY ZenonT(30), <2>1, <2>2 DEF SwapDone
\* A new log.
<1>LogAdded.
    ASSUME TypeOK, NEW m \in 0 .. MaxWrites, NEW r \in Records,
           files' = Append(files, [img |-> m, recs |-> r, synced |-> Len(r)])
    PROVE  /\ files' \in Seq(File) /\ Len(files) \in Nat /\ Len(files') = Len(files) + 1
           /\ DOMAIN files = 1 .. Len(files) /\ DOMAIN files' = 1 .. Len(files) + 1
           /\ \A f \in DOMAIN files : files'[f] = files[f]
           /\ files'[Len(files) + 1].img = m /\ files'[Len(files) + 1].recs = r
           /\ files'[Len(files) + 1].synced = Len(r)
  <2> USE <1>LogAdded
  <2>1. PICK e \in File : /\ e.img = m /\ e.recs = r /\ e.synced = Len(r)
                          /\ files' = Append(files, e)
    <3>1. [img |-> m, recs |-> r, synced |-> Len(r)] \in File
      BY RecordsType DEF File
    <3> QED
      BY <3>1
  <2>2. files \in Seq(File)
    BY DEF TypeOK
  <2>3. /\ files' \in Seq(File) /\ Len(files) \in Nat /\ Len(files') = Len(files) + 1
        /\ DOMAIN files = 1 .. Len(files) /\ DOMAIN files' = 1 .. Len(files) + 1
        /\ \A f \in DOMAIN files : files'[f] = files[f]
        /\ files'[Len(files) + 1] = e
    BY SMTT(30), <2>1, <2>2
  <2> QED
    BY <2>1, <2>3
\* With no append under way, the log may be replaced by one that restores the
\* same writes.
<1>ChainReplaced.
    ASSUME TypeOK, Chained, NoAppend, TypeOK', NoAppend', UNCHANGED <<queue, n>>,
           Follows(files'[live'].recs, files'[live'].img), Reach(live)' = Reach(live)
    PROVE  Chained'
  <2> USE <1>ChainReplaced
  <2>1. (TypeOK /\ NoAppend =>
          (Chained <=> /\ Follows(files[live].recs, files[live].img)
                       /\ Follows(queue, Reach(live))
                       /\ n = Reach(live) + Len(queue)))'
    BY DrainedChain, PTL
  <2>2. Follows(queue, Reach(live)) /\ n = Reach(live) + Len(queue)
    BY DrainedChain
  <2>3. Follows(queue, Reach(live))' /\ (n = Reach(live) + Len(queue))'
    BY <2>2 DEF Follows
  <2>4. Follows(files[live].recs, files[live].img)'
    BY DEF Follows
  <2> QED
    BY ZenonT(30), <2>1, <2>3, <2>4
\* Every sync under way covers at most what the log restores.
<1>CoversReach.
    ASSUME TypeOK, LogsInOrder, SyncsCover
    PROVE  /\ Kept(live) \in Nat /\ Reach(live) \in Nat /\ Kept(live) <= Reach(live)
           /\ proven <= Reach(live) /\ done.covers <= Reach(live)
           /\ \A i \in DOMAIN jobs : jobs[i].op = "fsync" => jobs[i].covers <= Reach(live)
  <2> USE <1>CoversReach
  <2>1. Kept(live) \in Nat /\ Reach(live) \in Nat /\ Kept(live) <= Reach(live)
    <3>1. live \in DOMAIN files
      BY CounterType
    <3>2. /\ files[live].img \in Nat /\ files[live].synced \in Nat
          /\ Len(files[live].recs) \in Nat
      BY <3>1, FileType
    <3>3. files[live].synced <= Len(files[live].recs)
      BY <3>1 DEF LogsInOrder
    <3> QED
      <4>1. /\ Kept(live) = files[live].img + files[live].synced
            /\ Reach(live) = files[live].img + Len(files[live].recs)
        BY DEF Kept, Reach
      <4>2. PICK a, b, c \in Nat : /\ a = files[live].img /\ b = files[live].synced
                                   /\ c = Len(files[live].recs)
        BY Zenon, <3>2
      <4>3. Kept(live) = a + b /\ Reach(live) = a + c /\ b <= c
        BY Zenon, <3>3, <4>1, <4>2
      <4> QED
        BY SMTT(30), <4>3
  <2>2. proven \in Nat /\ done.covers \in Nat
    BY SMTT(30), CounterType, Bounds DEF TypeOK
  <2>3. proven <= Kept(live) /\ done.covers <= Kept(live)
    BY ZenonT(30) DEF SyncsCover
  <2>4. ASSUME NEW i \in DOMAIN jobs, jobs[i].op = "fsync"
        PROVE  jobs[i].covers <= Reach(live)
    <3>1. jobs[i].covers <= Kept(live) \/ jobs[i].covers <= Reach(live)
      BY ZenonT(30), <2>4 DEF SyncsCover
    <3>2. jobs[i].covers \in Nat
      BY <2>4, JobType, Bounds
    <3> QED
      BY <2>1, <3>1, <3>2
  <2> QED
    BY <2>1, <2>2, <2>3, <2>4
<1>SaveDoneKeeps.
    ASSUME LaneInv, Admit = {}, SaveDone
    PROVE  LaneInv'
  <2> USE <1>SaveDoneKeeps
  <2>b. TypeOK /\ LogsInOrder /\ JobsInOrder /\ Chained /\ ImageComplete /\ SyncsCover
    BY DEF LaneInv
  <2>c. Polls({"save"}) /\ pjob.op = "save" /\ Restructuring
    BY DEF SaveDone, Polls, Restructuring
  <2>d. hold = FALSE /\ ~Renamed /\ pjob.at # "renamed"
    BY <2>b, <2>c DEF LogsInOrder, Renamed, TypeOK
  <2>1. CASE pjob.at = "failed" /\ pjob' = NoJob /\ Abort /\ KeepsLog /\ UNCHANGED hold
    BY ZenonT(30), <2>d, <2>1, <1>GivenUpKeeps
  <2>2. CASE /\ pjob.at = "ok"
             /\ files' = Append(files, [img |-> tmp.img, recs |-> tee, synced |-> Len(tee)])
             /\ live' = Len(files) + 1
             /\ named' = IF Untimely("rename") THEN named ELSE live'
             /\ Reopened(live')
             /\ UNCHANGED hold
    <3>a. /\ own' = live' /\ jobs' = Append(jobs, [op |-> "reopen", file |-> live'])
          /\ proven' = ProvenByImage /\ Release(ProvenByImage) /\ Abort /\ pjob' = NoJob
          /\ named' = live' /\ live' = Len(files) + 1 /\ hold' = hold
          /\ UNCHANGED <<n, policy, queue, done, inflight, fsyncing, unsynced, lane, want, pc,
                         spent>>
      BY <2>2 DEF Reopened, Untimely
    <3>b. own = live /\ named = live /\ lane <= own /\ live = Len(files)
      BY <2>b, <2>d DEF LogsInOrder
    <3>c. /\ inflight = 0 /\ NoAppend /\ done.appends = 0 /\ queue = <<>>
          /\ n = Reach(live)
      BY <2>c, <1>PollsQuiet
    <3>d. pjob'.op = "none" /\ pjob'.recs = <<>> /\ pjob'.at = "ok"
      BY <3>a DEF NoJob
    <3>e. tmp.img \in 0 .. MaxWrites /\ tee \in Records /\ Len(tee) \in Nat /\ n \in Nat
          /\ tmp.img \in Nat
      BY SMTT(30), <2>b, CounterType, RecordsType, Bounds DEF TypeOK
    <3>f. /\ files' \in Seq(File) /\ Len(files) \in Nat /\ Len(files') = Len(files) + 1
          /\ DOMAIN files = 1 .. Len(files) /\ DOMAIN files' = 1 .. Len(files) + 1
          /\ \A f \in DOMAIN files : files'[f] = files[f]
          /\ files'[live'].img = tmp.img /\ files'[live'].recs = tee
          /\ files'[live'].synced = Len(tee)
      BY ZenonT(30), <2>b, <2>2, <3>e, <1>LogAdded
    <3>g. Follows(tee, tmp.img) /\ n = tmp.img + Len(tee)
      <4>1. /\ Built(n - Len(tee)) /\ Follows(tee, n - Len(tee))
            /\ tmp.recs = <<>>
        BY <2>b, <2>c, <2>2 DEF ImageComplete
      <4>2. n - Len(tee) = tmp.img
        BY SMTT(30), <2>2, <3>e, <4>1, RecordsType DEF Built, ToDo
      <4> QED
        BY <3>e, <4>1, <4>2
    <3>h. Reach(live)' = n /\ Kept(live)' = n
      BY <3>f, <3>g DEF Reach, Kept
    <3>i. /\ proven <= n /\ done.covers <= n
          /\ \A i \in DOMAIN jobs : jobs[i].op = "fsync" => jobs[i].covers <= n
      BY <2>b, <3>c, <1>CoversReach
    <3>j. /\ proven' \in 0 .. MaxWrites /\ acked <= proven' /\ proven' = n
          /\ held' \in [Conn -> 0 .. MaxWrites]
          /\ acked' \in 0 .. MaxWrites /\ acked' <= proven'
      <4>1. ProvenByImage = n
        BY <3>c DEF ProvenByImage
      <4>2. n \in 0 .. MaxWrites /\ acked <= n
        <5>1. acked <= proven /\ acked \in Nat /\ proven \in Nat /\ n \in 0 .. MaxWrites
          BY <2>b, CounterType DEF SyncsCover
        <5> QED
          BY <3>e, <3>i, <5>1
      <4> QED
        BY <2>b, <3>a, <4>1, <4>2, ReleaseType
    <3>k. PICK g \in Nat : g = live' /\ own <= g /\ g > 0
      BY SMTT(30), <3>a, <3>b, <3>f
    <3>1. JobsInOrder' /\ NoAppend' /\ jobs' \in Seq(Job)
      BY <2>b, <3>a, <3>c, <3>k, <1>ReopenJobs
    <3>2. TypeOK'
      <4>1. {fsyncing, unsynced, want, teeing, hold}' \subseteq BOOLEAN
        BY ZenonT(30), <2>b, <3>a, AbortType DEF TypeOK
      <4>2. pjob' \in [op : {"none", "dump", "append", "swap", "save"}, recs : Records,
                       at : {"run", "renamed", "ok", "failed"}]
        BY <3>a, RecordsType DEF NoJob
      <4>3. {n, acked, proven}' \subseteq 0 .. MaxWrites
        BY <2>b, <3>a, <3>j, CounterType
      <4>4. {live, named, own, lane}' \subseteq DOMAIN files'
        <5>1. lane \in DOMAIN files
          BY <2>b, CounterType
        <5> QED
          BY SMTT(30), <3>a, <3>f, <5>1
      <4> QED
        BY ZenonT(30), <2>b, <3>a, <3>f, <3>j, <3>1, <4>1, <4>2, <4>3, <4>4, AbortType DEF TypeOK
    <3>3. LogsInOrder'
      <4>1. lane' <= own'
        <5>1. lane \in DOMAIN files
          BY <2>b, CounterType
        <5> QED
          BY SMTT(30), <3>a, <3>b, <3>f, <5>1
      <4>2. \A f \in DOMAIN files' : files'[f].synced <= Len(files'[f].recs)
        <5>1. \A f \in DOMAIN files' : f \in DOMAIN files \/ f = live'
          BY SMTT(30), <3>a, <3>f
        <5>2. files'[live'].synced <= Len(files'[live'].recs)
          BY <3>e, <3>f
        <5>3. \A f \in DOMAIN files : files[f].synced <= Len(files[f].recs)
          BY <2>b DEF LogsInOrder
        <5> QED
          BY <3>f, <5>1, <5>2, <5>3
      <4>3. \A f \in {live, named}' : Reach(f)' <= n'
        <5>1. \A f : f = g => Reach(f)' <= n'
          BY <3>a, <3>e, <3>h, <3>k
        <5> QED
          BY <3>a, <3>k, <5>1
      <4>4. live' = Len(files')
        BY ZenonT(30), <3>a, <3>f
      <4> QED
        BY ZenonT(30), <2>d, <3>a, <3>d, <4>1, <4>2, <4>3, <4>4 DEF LogsInOrder, Renamed
    <3>4. Chained'
      BY ZenonT(30), <2>b, <3>a, <3>c, <3>f, <3>g, <3>h, <3>1, <3>2, <1>ChainReplaced
    <3>5. ImageComplete'
      BY <3>d DEF ImageComplete, Restructuring
    <3>6. SyncsCover'
      <4>1. /\ proven' <= Kept(live)' /\ done'.covers <= Kept(live)'
            /\ \A i \in DOMAIN jobs : jobs[i].op = "fsync" => jobs[i].covers <= Kept(live)'
        BY SMTT(30), <3>a, <3>e, <3>h, <3>i, <3>j
      <4> QED
        BY ZenonT(30), <2>b, <3>a, <3>j, <3>k, <4>1, <1>ReopenSyncs
    <3> QED
      BY <3>1, <3>2, <3>3, <3>4, <3>5, <3>6 DEF LaneInv
  <2> QED
    BY <2>1, <2>2 DEF SaveDone
<1>WorkerJobKeeps.
    ASSUME LaneInv, WorkerJob
    PROVE  LaneInv'
  <2> USE <1>WorkerJobKeeps
  <2>a. /\ pjob.op # "none" /\ pjob.at = "run"
        /\ UNCHANGED <<n, acked, policy, queue, named, own, jobs, done, inflight, fsyncing,
                       unsynced, lane, proven, held, want, teeing, tee, hold, iters, pc>>
    BY DEF WorkerJob, WorkerKeeps, laneVars
  <2>b. TypeOK /\ LogsInOrder /\ JobsInOrder /\ Chained /\ ImageComplete /\ SyncsCover
    BY DEF LaneInv
  <2>c. JobsInOrder'
    BY <2>a, <2>b, JobsFrame
  <2>d. own = live /\ named = live /\ live = Len(files)
    BY ZenonT(30), <2>a, <2>b DEF LogsInOrder, Renamed
  <2>e. /\ pjob \in [op : {"none", "dump", "append", "swap", "save"}, recs : Records,
                      at : {"run", "renamed", "ok", "failed"}]
        /\ tmp \in [img : 0 .. MaxWrites, recs : Records]
        /\ spent \in [rewrites : Nat, saves : Nat, upsets : Nat]
    BY <2>b DEF TypeOK
  <2>f. /\ pjob.recs \in Records /\ tmp.recs \in Records /\ tmp.img \in 0 .. MaxWrites
        /\ pjob.recs \o <<>> = pjob.recs
        /\ tmp.recs \o pjob.recs \in Records
        /\ Len(tmp.recs \o pjob.recs) = Len(tmp.recs) + Len(pjob.recs)
        /\ (tmp.recs \o pjob.recs) \o <<>> = tmp.recs \o pjob.recs
        /\ Len(tmp.recs) \in Nat /\ Len(pjob.recs) \in Nat
    BY <2>e, RecordsType
  <2>g. ASSUME NEW at \in {"renamed", "ok", "failed"}, pjob' = [pjob EXCEPT !.at = at]
        PROVE  /\ pjob' \in [op : {"none", "dump", "append", "swap", "save"}, recs : Records,
                             at : {"run", "renamed", "ok", "failed"}]
               /\ pjob'.op = pjob.op /\ pjob'.recs = pjob.recs /\ pjob'.at = at
    BY <2>e, <2>g
  <2>h. ToDo = pjob.recs
    BY <2>a DEF ToDo
  <2>1. CASE /\ pjob.op # "swap" /\ pjob' = [pjob EXCEPT !.at = "ok"]
             /\ tmp' = [tmp EXCEPT !.recs = @ \o pjob.recs]
             /\ UNCHANGED <<files, live, spent>>
    <3>a. /\ pjob' \in [op : {"none", "dump", "append", "swap", "save"}, recs : Records,
                        at : {"run", "renamed", "ok", "failed"}]
          /\ pjob'.op = pjob.op /\ pjob'.recs = pjob.recs /\ pjob'.at = "ok"
      BY <2>1, <2>g
    <3>b. /\ tmp' \in [img : 0 .. MaxWrites, recs : Records]
          /\ tmp'.img = tmp.img /\ tmp'.recs = tmp.recs \o pjob.recs
      BY ZenonT(30), <2>1, <2>e, <2>f
    <3>1. TypeOK'
      BY <2>a, <2>b, <2>1, <3>a, <3>b DEF TypeOK
    <3>2. LogsInOrder'
      BY <2>a, <2>b, <2>1, <3>a DEF LogsInOrder, Renamed, Reach
    <3>3. Chained'
      BY <2>a, <2>b, <2>1, ChainFrame
    <3>4. ImageComplete'
      <4>1. ToDo' = <<>> /\ Len(<<>>) = 0
        BY <3>a, RecordsType DEF ToDo
      <4>2. tmp'.recs \o ToDo' = tmp.recs \o ToDo
        BY <2>f, <2>h, <3>b, <4>1
      <4>3. tmp'.img + Len(tmp'.recs) + Len(ToDo') = tmp.img + Len(tmp.recs) + Len(ToDo)
        <5>1. tmp.img \in Nat
          BY <2>f, Bounds
        <5> QED
          <6>1. Len(tmp'.recs) = Len(tmp.recs) + Len(pjob.recs) /\ tmp'.img = tmp.img
            BY <2>f, <3>b
          <6>2. Len(ToDo') = 0 /\ Len(ToDo) = Len(pjob.recs)
            BY <2>h, <4>1
          <6>3. Len(tmp.recs) \in Nat /\ Len(pjob.recs) \in Nat
            BY <2>f
          <6>4. PICK a, b, c \in Nat : a = tmp.img /\ b = Len(tmp.recs) /\ c = Len(pjob.recs)
            BY <5>1, <6>3
          <6>5. tmp'.img = a /\ Len(tmp'.recs) = b + c
            BY <6>1, <6>4
          <6>6. tmp'.img + Len(tmp'.recs) + Len(ToDo') = a + (b + c) + 0
            BY <6>2, <6>5
          <6>7. tmp.img + Len(tmp.recs) + Len(ToDo) = a + b + c
            BY <6>2, <6>4
          <6> QED
            BY <6>6, <6>7, Sums
      <4>4. \A k : Built(k) => Built(k)'
        BY ZenonT(30), <3>b, <4>2, <4>3 DEF Built
      <4>5. n' - Len(tee') = n - Len(tee)
        BY <2>a
      <4>6. Restructuring /\ teeing => Built(n - Len(tee))' /\ Follows(tee', n' - Len(tee'))
        BY <2>a, <2>b, <4>4, <4>5 DEF ImageComplete
      <4>7. pjob.op = "save" => tmp'.recs = <<>>
        BY <2>b, <3>b, RecordsType DEF ImageComplete
      <4> QED
        BY <2>a, <2>b, <2>1, <3>a, <4>6, <4>7 DEF ImageComplete, Restructuring
    <3>5. SyncsCover'
      BY <2>a, <2>b, <2>1, SyncsFrame
    <3> QED
      BY <2>c, <3>1, <3>2, <3>3, <3>4, <3>5 DEF LaneInv
  <2>2. CASE /\ pjob.op = "swap" /\ pjob' = [pjob EXCEPT !.at = "renamed"]
             /\ files' = Append(files, [img |-> tmp.img, recs |-> tmp.recs \o pjob.recs,
                                        synced |-> Len(tmp.recs \o pjob.recs)])
             /\ live' = Len(files) + 1 /\ UNCHANGED <<tmp, spent>>
    <3>a. /\ pjob' \in [op : {"none", "dump", "append", "swap", "save"}, recs : Records,
                        at : {"run", "renamed", "ok", "failed"}]
          /\ pjob'.op = pjob.op /\ pjob'.recs = pjob.recs /\ pjob'.at = "renamed"
      BY <2>2, <2>g
    <3>b. /\ files' \in Seq(File) /\ Len(files) \in Nat /\ Len(files') = Len(files) + 1
          /\ DOMAIN files = 1 .. Len(files) /\ DOMAIN files' = 1 .. Len(files) + 1
          /\ \A f \in DOMAIN files : files'[f] = files[f]
          /\ files'[live'].img = tmp.img /\ files'[live'].recs = tmp.recs \o pjob.recs
          /\ files'[live'].synced = Len(tmp.recs \o pjob.recs)
      BY ZenonT(30), <2>b, <2>f, <2>2, <1>LogAdded
    <3>c. /\ Follows(tmp.recs \o pjob.recs, tmp.img)
          /\ Reach(live) = tmp.img + Len(tmp.recs) + Len(pjob.recs)
      BY <2>a, <2>b, <2>h, <2>2 DEF ImageComplete, Built
    <3>d. Reach(live)' = Reach(live) /\ Kept(live)' = Reach(live)
      <4>1. tmp.img \in Nat
        BY <2>f, Bounds
      <4>2. /\ Reach(live)' = files'[live'].img + Len(files'[live'].recs)
            /\ Kept(live)' = files'[live'].img + files'[live'].synced
        BY DEF Reach, Kept
      <4>3. /\ files'[live'].img = tmp.img
            /\ Len(files'[live'].recs) = Len(tmp.recs) + Len(pjob.recs)
            /\ files'[live'].synced = Len(tmp.recs) + Len(pjob.recs)
        BY <2>f, <3>b
      <4>4. /\ Len(tmp.recs) \in Nat /\ Len(pjob.recs) \in Nat
            /\ Reach(live) = tmp.img + Len(tmp.recs) + Len(pjob.recs)
        BY <2>f, <3>c
      <4>5. PICK a, b, c \in Nat : a = tmp.img /\ b = Len(tmp.recs) /\ c = Len(pjob.recs)
        BY Zenon, <4>1, <4>4
      <4>6. Reach(live) = a + b + c
        BY Zenon, <4>4, <4>5
      <4>7. Reach(live)' = a + (b + c) /\ Kept(live)' = a + (b + c)
        BY Zenon, <4>2, <4>3, <4>5
      <4> QED
        BY Zenon, <4>6, <4>7, SumOfThree
    <3>e. inflight = 0 /\ NoAppend /\ NoAppend'
      <4>1. inflight = 0
        BY <2>b, <2>2 DEF LogsInOrder, JobsInOrder
      <4>2. NoAppend
        BY <4>1, QuietLane
      <4> QED
        BY ZenonT(30), <2>a, <4>1, <4>2 DEF NoAppend
    <3>f. {named, own, lane} \subseteq DOMAIN files
      BY <2>b DEF TypeOK
    <3>1. TypeOK'
      <4>1. {live, named, own, lane}' \subseteq DOMAIN files'
        BY <2>a, <2>2, <3>b, <3>f
      <4> QED
        BY <2>a, <2>b, <2>2, <3>a, <3>b, <4>1 DEF TypeOK
    <3>2. LogsInOrder'
      <4>1. \A f \in DOMAIN files' : files'[f].synced <= Len(files'[f].recs)
        <5>1. \A f \in DOMAIN files' : f \in DOMAIN files \/ f = live'
          BY <2>2, <3>b
        <5>2. files'[live'].synced <= Len(files'[live'].recs)
          BY <2>f, <3>b
        <5>3. \A f \in DOMAIN files : files[f].synced <= Len(files[f].recs)
          BY <2>b DEF LogsInOrder
        <5> QED
          BY ZenonT(30), <3>b, <5>1, <5>2, <5>3
      <4>2. Reach(live)' <= n' /\ Reach(named)' <= n'
        <5>1. Reach(live) <= n /\ Reach(named) <= n
          BY <2>b DEF LogsInOrder
        <5>2. Reach(named)' = Reach(named)
          BY <2>a, <3>b, <3>f DEF Reach
        <5> QED
          BY <2>a, <3>d, <5>1, <5>2
      <4>3. \A f \in {live, named}' : Reach(f)' <= n'
        <5>1. PICK g, h : g = live' /\ h = named'
          OBVIOUS
        <5>2. Reach(g)' <= n' /\ Reach(h)' <= n'
          BY <4>2, <5>1
        <5> QED
          BY <5>1, <5>2
      <4>4. own' < live' /\ live' = Len(files')
        BY <2>a, <2>d, <2>2, <3>b
      <4>5. files'[live'].synced = Len(files'[live'].recs)
        BY <3>b
      <4>6. named' = own' /\ lane' <= own'
        BY <2>a, <2>b, <2>d DEF LogsInOrder
      <4>7. hold' <=> pjob'.op = "swap"
        BY <2>a, <2>b, <3>a DEF LogsInOrder
      <4>8. Renamed'
        BY <2>2, <3>a DEF Renamed
      <4> QED
        BY <2>2, <3>a, <4>1, <4>3, <4>4, <4>5, <4>6, <4>7, <4>8 DEF LogsInOrder
    <3>3. Chained'
      BY ZenonT(30), <2>a, <2>b, <3>b, <3>c, <3>d, <3>e, <3>1, <1>ChainReplaced
    <3>4. ImageComplete'
      BY <2>a, <2>b, <2>2, <3>a DEF ImageComplete, Restructuring
    <3>5. SyncsCover'
      <4>1. /\ proven <= Reach(live) /\ done.covers <= Reach(live)
            /\ \A i \in DOMAIN jobs : jobs[i].op = "fsync" => jobs[i].covers <= Reach(live)
        BY ZenonT(30), <2>b, <1>CoversReach
      <4>2. /\ proven' <= Kept(live)' /\ done'.covers <= Kept(live)'
            /\ \A i \in DOMAIN jobs : jobs[i].op = "fsync" => jobs[i].covers <= Kept(live)'
        BY <2>a, <3>d, <4>1
      <4>3. Kept(named)' = Kept(named) /\ Reach(named)' = Reach(named)
        BY <2>a, <3>b, <3>f DEF Kept, Reach
      <4>4. /\ acked <= proven /\ proven <= Kept(named) /\ done.covers <= Kept(named)
            /\ \A i \in DOMAIN jobs : jobs[i].op = "fsync" =>
                  \/ jobs[i].covers <= Kept(named)
                  \/ /\ named = own /\ jobs[i].covers <= Reach(named)
                     /\ \A j \in DOMAIN jobs : i < j => jobs[j].op # "reopen"
        BY ZenonT(30), <2>b DEF SyncsCover
      <4>5. PICK g, h : g = live' /\ h = named' /\ h = named
        BY <2>a
      <4>6. /\ proven' <= Kept(g)' /\ done'.covers <= Kept(g)'
            /\ \A i \in DOMAIN jobs : jobs[i].op = "fsync" => jobs[i].covers <= Kept(g)'
        BY <4>2, <4>5
      <4>7. /\ proven' <= Kept(h)' /\ done'.covers <= Kept(h)'
            /\ \A i \in DOMAIN jobs : jobs[i].op = "fsync" =>
                  \/ jobs[i].covers <= Kept(h)'
                  \/ /\ h = own' /\ jobs[i].covers <= Reach(h)'
                     /\ \A j \in DOMAIN jobs : i < j => jobs[j].op # "reopen"
        BY <2>a, <4>3, <4>4, <4>5
      <4>8. {live, named}' = {g, h} /\ jobs' = jobs /\ acked' <= proven'
        BY ZenonT(30), <2>a, <4>4, <4>5
      <4> QED
        BY SMTT(30), <4>6, <4>7, <4>8 DEF SyncsCover
    <3> QED
      BY <2>c, <3>1, <3>2, <3>3, <3>4, <3>5 DEF LaneInv
  <2>3. CASE /\ Spend("upsets", MaxUpsets) /\ pjob' = [pjob EXCEPT !.at = "failed"]
             /\ UNCHANGED <<files, live, tmp>>
    <3>a. /\ pjob' \in [op : {"none", "dump", "append", "swap", "save"}, recs : Records,
                        at : {"run", "renamed", "ok", "failed"}]
          /\ pjob'.op = pjob.op /\ pjob'.recs = pjob.recs /\ pjob'.at = "failed"
      BY <2>3, <2>g
    <3>b. spent' \in [rewrites : Nat, saves : Nat, upsets : Nat]
      BY <2>b, <2>3, SpendType
    <3>1. TypeOK'
      BY <2>a, <2>b, <2>3, <3>a, <3>b DEF TypeOK
    <3>2. LogsInOrder'
      BY <2>a, <2>b, <2>3, <3>a DEF LogsInOrder, Renamed, Reach
    <3>3. Chained'
      BY <2>a, <2>b, <2>3, ChainFrame
    <3>4. ImageComplete'
      BY <2>a, <2>b, <2>3, <3>a DEF ImageComplete, Restructuring
    <3>5. SyncsCover'
      BY <2>a, <2>b, <2>3, SyncsFrame
    <3> QED
      BY <2>c, <3>1, <3>2, <3>3, <3>4, <3>5 DEF LaneInv
  <2> QED
    BY ZenonT(30), <2>1, <2>2, <2>3 DEF WorkerJob
<1> QED
  BY <1>RewriteDoneKeeps, <1>SwapDoneKeeps, <1>SaveDoneKeeps, <1>WorkerJobKeeps

\* The worker's sync of the directory keeps the invariant.
LEMMA DirSyncKeeps ==
    ASSUME LaneInv, WorkerDirSync
    PROVE  LaneInv'
<1>a. /\ pjob.at = "renamed" /\ named' = live /\ pjob' = [pjob EXCEPT !.at = "ok"]
      /\ UNCHANGED <<files, live, tmp, spent, n, acked, policy, queue, own, jobs, done,
                     inflight, fsyncing, unsynced, lane, proven, held, want, teeing, tee,
                     hold, iters, pc>>
  BY DEF WorkerDirSync, WorkerKeeps, laneVars
<1>b. TypeOK /\ LogsInOrder /\ JobsInOrder /\ Chained /\ ImageComplete /\ SyncsCover
  BY DEF LaneInv
<1>c. /\ pjob' \in [op : {"none", "dump", "append", "swap", "save"}, recs : Records,
                    at : {"run", "renamed", "ok", "failed"}]
      /\ pjob'.op = pjob.op /\ pjob'.recs = pjob.recs /\ pjob'.at = "ok"
  BY ZenonT(30), <1>a, <1>b DEF TypeOK
<1>d. pjob.op = "swap"
  BY <1>a, <1>b DEF LogsInOrder
<1>1. TypeOK'
  <2>1. {live, named, own, lane}' \subseteq DOMAIN files'
    BY <1>a, <1>b DEF TypeOK
  <2> QED
    BY <1>a, <1>b, <1>c, <2>1 DEF TypeOK
<1>2. LogsInOrder'
  BY <1>a, <1>b, <1>c, <1>d DEF LogsInOrder, Renamed, Reach
<1>3. JobsInOrder'
  BY <1>a, <1>b, JobsFrame
<1>4. Chained'
  BY <1>a, <1>b, ChainFrame
<1>5. ImageComplete'
  BY <1>a, <1>b, <1>c, <1>d DEF ImageComplete, Restructuring
<1>6. SyncsCover'
  BY <1>a, <1>b DEF SyncsCover, Kept, Reach
<1> QED
  BY <1>1, <1>2, <1>3, <1>4, <1>5, <1>6 DEF LaneInv

-----------------------------------------------------------------------------
\* The reactor's timer.

\* What the timer takes for synced is synced, in both files a restart may read.
LEMMA ReapedType ==
    ASSUME TypeOK, SyncsCover
    PROVE  /\ Reaped \in 0 .. MaxWrites /\ proven <= Reaped /\ acked <= Reaped
           /\ \A f \in {live, named} : Reaped <= Kept(f)
<1>1. /\ proven \in 0 .. MaxWrites /\ acked \in 0 .. MaxWrites
      /\ done.covers \in 0 .. MaxWrites /\ MaxWrites \in Nat
  BY LaneAssumption DEF TypeOK
<1>2. /\ acked <= proven
      /\ \A f \in {live, named} : proven <= Kept(f) /\ done.covers <= Kept(f)
  BY DEF SyncsCover
<1> QED
  BY <1>1, <1>2 DEF Reaped

\* When the jobs stay, so do the syncs among them.
LEMMA SyncsReaped ==
    ASSUME SyncsCover, UNCHANGED <<jobs, files, live, named, own>>,
           acked' <= proven',
           \A f \in {live, named} : proven' <= Kept(f) /\ done'.covers <= Kept(f)
    PROVE  SyncsCover'
BY DEF SyncsCover, Kept, Reach

\* The timer (reap, release, hand off, sync) keeps the invariant.
LEMMA TickKeeps ==
    ASSUME LaneInv, AofTick
    PROVE  LaneInv'
\* The queue becomes an append.
<1>ChainTaken.
    ASSUME TypeOK, Chained, queue # <<>>, queue' = <<>>, UNCHANGED <<files, live, n>>,
           jobs' = Append(jobs, [op |-> "append", recs |-> queue])
    PROVE  Chained'
  <2> USE <1>ChainTaken
  <2> DEFINE x == [op |-> "append", recs |-> queue]
  <2>x. x \in Job /\ x.op = "append" /\ x.recs = queue
    BY CounterType DEF Job
  <2>y. jobs' = Append(jobs, x)
    OBVIOUS
  <2> HIDE DEF x
  <2>1. Reach(live)' = Reach(live) /\ Reach(live) \in Nat
    BY FileType, CounterType DEF Reach
  <2>2. /\ Len(jobs) \in Nat /\ DOMAIN jobs = 1 .. Len(jobs)
        /\ Len(jobs') = Len(jobs) + 1 /\ DOMAIN jobs' = 1 .. Len(jobs) + 1
        /\ \A j \in DOMAIN jobs : jobs'[j] = jobs[j]
        /\ jobs'[Len(jobs) + 1] = x
    <3>1. /\ Len(Append(jobs, x)) = Len(jobs) + 1
          /\ DOMAIN Append(jobs, x) = 1 .. Len(jobs) + 1
          /\ \A j \in DOMAIN jobs : Append(jobs, x)[j] = jobs[j]
          /\ Append(jobs, x)[Len(jobs) + 1] = x
      BY Zenon, <2>x, JobAdded
    <3> QED
      BY ZenonT(30), <2>y, <3>1, JobsType
  <2>3. PICK k \in Nat : Mark(k, Len(jobs) + 1) /\ Follows(queue, k) /\ n = k + Len(queue)
    BY DEF Chained
  <2>4. PICK e \in 1 .. Len(jobs) + 1 : e = Len(jobs) + 1
    BY <2>2
  <2>5. Mark(k, e)'
    BY <2>1, <2>3, <2>4, <2>x, <2>y, MarkAdded
  <2>6. \A i \in DOMAIN jobs' : jobs'[i].op = "append" =>
            \E m \in Nat : Mark(m, i)' /\ Follows(jobs'[i].recs, m)
    <3> SUFFICES ASSUME NEW i \in DOMAIN jobs', jobs'[i].op = "append"
                 PROVE  \E m \in Nat : Mark(m, i)' /\ Follows(jobs'[i].recs, m)
      OBVIOUS
    <3>1. CASE i = e
      BY <2>2, <2>3, <2>4, <2>5, <2>x, <3>1
    <3>2. CASE i # e
      <4>1. i \in DOMAIN jobs /\ i \in 1 .. Len(jobs) + 1 /\ jobs'[i] = jobs[i]
        BY <2>2, <2>4, <3>2
      <4>2. PICK m \in Nat : Mark(m, i) /\ Follows(jobs[i].recs, m)
        BY <4>1 DEF Chained
      <4>3. Mark(m, i)'
        BY <2>1, <2>x, <2>y, <4>1, <4>2, MarkAdded
      <4> QED
        BY ZenonT(30), <4>1, <4>2, <4>3
    <3> QED
      BY ZenonT(30), <3>1, <3>2
  <2>7. /\ Len(queue) \in Nat
        /\ \A z \in DOMAIN queue : queue[z] \in Nat /\ queue[z] <= n
        /\ Len(queue) \in DOMAIN queue /\ queue[Len(queue)] = n
    BY <2>3, FollowsEnds, CounterType
  <2>8. /\ Carries(e, n)'
        /\ \A y : Carries(e, y)' => y <= n
    BY <2>2, <2>4, <2>7, <2>x DEF Carries
  <2>9. /\ Reach(live)' <= k
        /\ \A j \in DOMAIN jobs' : \A y \in Nat : j < e /\ Carries(j, y)' => y <= k
    BY <2>5 DEF Mark
  <2>10. k <= n /\ n \in Nat
    BY <2>3, <2>7, CounterType
  <2>11. \A j \in DOMAIN jobs' : (j < e \/ j = e) /\ j < Len(jobs') + 1
    BY <2>2, <2>4
  <2>12. \A j \in DOMAIN jobs' : \A y \in Nat : Carries(j, y)' => y <= n
    BY <2>8, <2>9, <2>10, <2>11
  <2>13. Reach(live)' <= n
    BY <2>1, <2>9, <2>10
  <2>14. e \in DOMAIN jobs'
    BY <2>2, <2>4
  <2>15. PICK q : q = Len(jobs') + 1
    OBVIOUS
  <2>16. Mark(n, q)'
    BY <2>8, <2>11, <2>12, <2>13, <2>14, <2>15 DEF Mark
  <2>17. Mark(n, Len(jobs) + 1)'
    BY <2>15, <2>16
  <2>18. Follows(queue', n) /\ n' = n + Len(queue')
    BY <2>10, FollowsNone, RecordsType
  <2>19. Follows(files[live].recs, files[live].img)'
    BY DEF Chained, Follows
  <2> QED
    BY ZenonT(30), <2>6, <2>10, <2>17, <2>18, <2>19 DEF Chained
\* A job that is not a reopen leaves the syncs before it as they were.
<1>SyncsAdded.
    ASSUME TypeOK, SyncsCover, NEW x \in Job, x.op # "reopen", jobs' = Append(jobs, x),
           UNCHANGED <<files, live, named, own>>,
           acked' <= proven',
           \A f \in {live, named} : proven' <= Kept(f) /\ done'.covers <= Kept(f),
           x.op = "fsync" => \A f \in {live, named} : f = own /\ x.covers <= Reach(f)
    PROVE  SyncsCover'
  <2> USE <1>SyncsAdded
  <2>1. /\ Len(jobs) \in Nat /\ DOMAIN jobs = 1 .. Len(jobs)
        /\ DOMAIN jobs' = 1 .. Len(jobs) + 1
        /\ \A j \in DOMAIN jobs : jobs'[j] = jobs[j]
        /\ jobs'[Len(jobs) + 1] = x
    BY ZenonT(30), JobAdded, JobsType
  <2>2. \A f : Kept(f)' = Kept(f) /\ Reach(f)' = Reach(f)
    BY DEF Kept, Reach
  <2>3. ASSUME NEW i \in DOMAIN jobs', jobs'[i].op = "fsync", NEW f \in {live, named}
        PROVE  \/ jobs'[i].covers <= Kept(f)
               \/ /\ f = own /\ jobs'[i].covers <= Reach(f)
                  /\ \A j \in DOMAIN jobs' : i < j => jobs'[j].op # "reopen"
    <3>1. CASE i \in DOMAIN jobs
      <4>1. \/ jobs[i].covers <= Kept(f)
            \/ /\ f = own /\ jobs[i].covers <= Reach(f)
               /\ \A j \in DOMAIN jobs : i < j => jobs[j].op # "reopen"
        BY <2>1, <2>3, <3>1 DEF SyncsCover
      <4>2. \A j \in DOMAIN jobs' : j \in DOMAIN jobs \/ jobs'[j] = x
        BY SMTT(30), <2>1
      <4> QED
        BY <2>1, <3>1, <4>1, <4>2
    <3>2. CASE i \notin DOMAIN jobs
      <4>1. i = Len(jobs) + 1 /\ jobs'[i] = x
        BY <2>1, <2>3, <3>2
      <4>2. \A j \in DOMAIN jobs' : ~(i < j)
        BY <2>1, <4>1
      <4> QED
        BY <2>3, <4>1, <4>2
    <3> QED
      BY <3>1, <3>2
  <2>4. acked' <= proven' /\ \A f \in {live, named}' : proven' <= Kept(f)' /\ done'.covers <= Kept(f)'
    BY <2>2
  <2>5. \A i \in DOMAIN jobs' : jobs'[i].op = "fsync" => \A f \in {live, named}' :
            \/ jobs'[i].covers <= Kept(f)'
            \/ /\ f = own' /\ jobs'[i].covers <= Reach(f)'
               /\ \A j \in DOMAIN jobs' : i < j => jobs'[j].op # "reopen"
    BY <2>2, <2>3
  <2> QED
    BY <2>4, <2>5 DEF SyncsCover
\* The reopens when a job is added that is not one.
<1>ReopensAdded.
    ASSUME TypeOK, JobsInOrder, NEW x \in Job, x.op # "reopen", jobs' = Append(jobs, x),
           UNCHANGED <<own, lane>>
    PROVE  /\ \A i \in DOMAIN jobs' : jobs'[i].op = "reopen" =>
                 /\ jobs'[i].file \in 1 .. own'
                 /\ \/ jobs'[i].file = own'
                    \/ \E j \in DOMAIN jobs' : i < j /\ jobs'[j].op = "reopen"
           /\ lane' = own' \/ \E i \in DOMAIN jobs' : jobs'[i].op = "reopen"
  <2> USE <1>ReopensAdded
  <2>1. /\ \A j \in DOMAIN jobs : j \in DOMAIN jobs' /\ jobs'[j] = jobs[j]
        /\ \A j \in DOMAIN jobs' : j \in DOMAIN jobs \/ jobs'[j] = x
    <3>1. /\ Len(jobs) \in Nat /\ DOMAIN jobs = 1 .. Len(jobs)
          /\ DOMAIN jobs' = 1 .. Len(jobs) + 1
          /\ \A j \in DOMAIN jobs : jobs'[j] = jobs[j]
          /\ jobs'[Len(jobs) + 1] = x
      BY JobAdded, JobsType
    <3> QED
      BY <3>1
  <2>2. /\ \A i \in DOMAIN jobs : jobs[i].op = "reopen" =>
               /\ jobs[i].file \in 1 .. own
               /\ \/ jobs[i].file = own
                  \/ \E j \in DOMAIN jobs : i < j /\ jobs[j].op = "reopen"
        /\ lane = own \/ \E i \in DOMAIN jobs : jobs[i].op = "reopen"
    BY DEF JobsInOrder
  <2>3. ASSUME NEW i \in DOMAIN jobs', jobs'[i].op = "reopen"
        PROVE  /\ jobs'[i].file \in 1 .. own'
               /\ \/ jobs'[i].file = own'
                  \/ \E j \in DOMAIN jobs' : i < j /\ jobs'[j].op = "reopen"
    BY <2>1, <2>2, <2>3
  <2> QED
    BY <2>1, <2>2, <2>3
\* A tick hands over nothing, the queue, or a sync.
<1>TickCases.
    ASSUME TypeOK, AofTick
    PROVE  \/ /\ UNCHANGED <<jobs, queue>> /\ inflight' = Undrained
           \/ /\ ~hold /\ queue # <<>> /\ queue' = <<>> /\ inflight' = Undrained + 1
              /\ jobs' = Append(jobs, [op |-> "append", recs |-> queue])
           \/ /\ FsyncDue /\ queue' = queue /\ inflight' = Undrained
              /\ jobs' = Append(jobs, [op |-> "fsync", covers |-> n])
  <2> USE <1>TickCases
  <2>1. jobs \in Seq(Job) /\ inflight \in Nat /\ done.appends \in Nat
    BY DEF TypeOK
  <2>2. jobs \o <<>> = jobs /\ \A x \in Job : jobs \o <<x>> = Append(jobs, x)
    BY <2>1
  <2>3. /\ [op |-> "append", recs |-> queue] \in Job
        /\ [op |-> "fsync", covers |-> n] \in Job
    BY CounterType DEF Job
  <2>4. Undrained \in Int
    BY <2>1 DEF Undrained
  <2>5. /\ inflight' = Undrained + Len(Taken)
        /\ queue' = IF Taken = <<>> THEN queue ELSE <<>>
        /\ \/ FsyncDue /\ jobs' = jobs \o Taken \o <<[op |-> "fsync", covers |-> n]>>
           \/ jobs' = jobs \o Taken
    BY DEF AofTick
  <2>6. CASE hold \/ queue = <<>>
    <3>1. Taken = <<>> /\ Len(Taken) = 0
      BY <2>6 DEF Taken
    <3>2. inflight' = Undrained /\ queue' = queue /\ jobs \o Taken = jobs
      BY <2>2, <2>4, <2>5, <3>1
    <3>3. jobs \o <<[op |-> "fsync", covers |-> n]>> = Append(jobs, [op |-> "fsync", covers |-> n])
      BY Zenon, <2>2, <2>3
    <3>4. \/ UNCHANGED jobs
          \/ FsyncDue /\ jobs' = Append(jobs, [op |-> "fsync", covers |-> n])
      BY ZenonT(30), <2>5, <3>2, <3>3
    <3> QED
      BY Zenon, <3>2, <3>4
  <2>7. CASE ~hold /\ queue # <<>>
    <3>1. /\ Taken = <<[op |-> "append", recs |-> queue]>> /\ Len(Taken) = 1
          /\ Taken # <<>>
      BY <2>7 DEF Taken
    <3>2. ~FsyncDue
      BY <2>7 DEF FsyncDue
    <3> QED
      BY <2>2, <2>3, <2>4, <2>5, <2>7, <3>1, <3>2
  <2> QED
    BY <2>6, <2>7
<1>TickType.
    ASSUME LaneInv, AofTick
    PROVE  /\ TypeOK'
           /\ acked' <= proven' /\ \A f \in {live, named} : proven' <= Kept(f)
  <2> USE <1>TickType
  <2>a. /\ done' = Nothing /\ proven' = Reaped /\ unsynced' = Dirty /\ Release(Reaped)
        /\ fsyncing' \in {TRUE, Syncing}
        /\ UNCHANGED <<n, policy, files, live, named, own, lane, want, teeing, tee, hold, pjob,
                       tmp, iters, pc, spent>>
    BY ZenonT(30) DEF AofTick, diskVars, rewriteVars
  <2>b. TypeOK /\ JobsInOrder /\ SyncsCover
    BY DEF LaneInv
  <2>1. /\ Reaped \in 0 .. MaxWrites /\ acked <= Reaped
        /\ \A f \in {live, named} : Reaped <= Kept(f)
    BY <2>b, ReapedType
  <2>2. /\ held' \in [Conn -> 0 .. MaxWrites]
        /\ acked' \in 0 .. MaxWrites /\ acked' <= Reaped
    BY <2>a, <2>b, <2>1, ReleaseType
  <2>3. jobs' \in Seq(Job) /\ queue' \in Records /\ inflight' \in Nat
    <3>1. /\ [op |-> "append", recs |-> queue] \in Job
          /\ [op |-> "fsync", covers |-> n] \in Job
      BY <2>b, CounterType DEF Job
    <3>2. jobs \in Seq(Job) /\ queue \in Records /\ <<>> \in Records /\ Undrained \in Nat
      BY <2>b, JobsType, CounterType, RecordsType, UndrainedType
    <3>3. /\ Append(jobs, [op |-> "append", recs |-> queue]) \in Seq(Job)
          /\ Append(jobs, [op |-> "fsync", covers |-> n]) \in Seq(Job)
      BY <2>b, <3>1, JobAdded
    <3>4. Undrained + 1 \in Nat
      BY <3>2
    <3> QED
      BY ZenonT(30), <2>b, <3>2, <3>3, <3>4, <1>TickCases
  <2>4. /\ unsynced' \in BOOLEAN /\ fsyncing' \in BOOLEAN
    <3>1. Dirty \in BOOLEAN /\ Syncing \in BOOLEAN
      BY <2>b DEF TypeOK, Dirty, Syncing
    <3> QED
      BY ZenonT(30), <2>a, <3>1
  <2>5. done' \in [appends : Nat, covers : 0 .. MaxWrites, failed : BOOLEAN]
    BY <2>a, Bounds DEF Nothing
  <2>6. {n, acked, proven}' \subseteq 0 .. MaxWrites
    BY <2>a, <2>b, <2>1, <2>2, CounterType
  <2>7. {fsyncing, unsynced, want, teeing, hold}' \subseteq BOOLEAN
    BY <2>a, <2>b, <2>4 DEF TypeOK
  <2>8. TypeOK'
    BY <2>a, <2>b, <2>2, <2>3, <2>5, <2>6, <2>7 DEF TypeOK
  <2> QED
    BY <2>a, <2>1, <2>2, <2>8
<1>TickJobs.
    ASSUME LaneInv, AofTick
    PROVE  JobsInOrder'
  <2> USE <1>TickJobs
  <2>a. pc = "run" /\ done'.appends = 0 /\ UNCHANGED <<own, lane, hold, pc>>
    BY DEF AofTick, Nothing, diskVars, rewriteVars
  <2>b. TypeOK /\ JobsInOrder
    BY DEF LaneInv
  <2>c. PICK p \in 0 .. Len(jobs) :
            /\ \A i \in DOMAIN jobs : jobs[i].op = "append" <=> p < i
            /\ Undrained = Len(jobs) - p
    BY <2>b, UndrainedType
  <2>d. /\ Undrained \in Nat /\ Undrained <= inflight /\ inflight \in Nat
        /\ hold => inflight = 0
    BY <2>b, UndrainedType DEF JobsInOrder
  <2>e. Len(jobs) \in Nat /\ DOMAIN jobs = 1 .. Len(jobs) /\ p \in Nat /\ p <= Len(jobs)
    BY <2>b, <2>c, JobsType
  <2>1. CASE UNCHANGED <<jobs, queue>> /\ inflight' = Undrained
    <3>1. \E q \in 0 .. Len(jobs') :
              /\ \A i \in DOMAIN jobs' : jobs'[i].op = "append" <=> q < i
              /\ inflight' = done'.appends + (Len(jobs') - q)
      BY <2>a, <2>c, <2>e, <2>1
    <3>2. hold' \/ pc' # "run" => inflight' = 0
      BY <2>a, <2>d, <2>1
    <3> QED
      BY <2>a, <2>b, <2>1, <3>1, <3>2 DEF JobsInOrder
  <2>2. ASSUME NEW x \in Job, x.op # "reopen", jobs' = Append(jobs, x), ~hold,
               inflight' = Undrained + (IF x.op = "append" THEN 1 ELSE 0),
               x.op # "append" => Undrained = 0
        PROVE  JobsInOrder'
    <3>1. /\ Len(jobs') = Len(jobs) + 1 /\ DOMAIN jobs' = 1 .. Len(jobs) + 1
          /\ \A i \in DOMAIN jobs : jobs'[i] = jobs[i]
          /\ jobs'[Len(jobs) + 1] = x
      BY <2>b, <2>2, JobAdded
    <3>2. ASSUME x.op = "append"
          PROVE  \E q \in 0 .. Len(jobs') :
                    /\ \A i \in DOMAIN jobs' : jobs'[i].op = "append" <=> q < i
                    /\ inflight' = done'.appends + (Len(jobs') - q)
      <4>1. p \in 0 .. Len(jobs') /\ inflight' = done'.appends + (Len(jobs') - p)
        BY <2>a, <2>c, <2>e, <2>2, <3>1, <3>2
      <4>2. \A i \in DOMAIN jobs' : jobs'[i].op = "append" <=> p < i
        BY <2>c, <2>e, <3>1, <3>2
      <4> QED
        BY <4>1, <4>2
    <3>3. ASSUME x.op # "append"
          PROVE  \E q \in 0 .. Len(jobs') :
                    /\ \A i \in DOMAIN jobs' : jobs'[i].op = "append" <=> q < i
                    /\ inflight' = done'.appends + (Len(jobs') - q)
      <4>1. /\ Len(jobs') \in 0 .. Len(jobs')
            /\ inflight' = done'.appends + (Len(jobs') - Len(jobs'))
        BY <2>a, <2>e, <2>2, <3>1, <3>3
      <4>2. p = Len(jobs)
        BY <2>c, <2>e, <2>2, <3>3
      <4>3. \A i \in DOMAIN jobs' : jobs'[i].op = "append" <=> Len(jobs') < i
        BY <2>c, <2>e, <3>1, <3>3, <4>2
      <4> QED
        BY <4>1, <4>3
    <3>4. ~(hold' \/ pc' # "run")
      BY <2>a, <2>2
    <3> QED
      BY ZenonT(30), <2>a, <2>b, <2>2, <3>2, <3>3, <3>4, <1>ReopensAdded DEF JobsInOrder
  <2>3. /\ [op |-> "append", recs |-> queue] \in Job
        /\ [op |-> "fsync", covers |-> n] \in Job
    BY <2>b, CounterType DEF Job
  <2>4. FsyncDue => ~hold /\ Undrained = 0
    BY DEF FsyncDue
  <2>5. CASE /\ ~hold /\ inflight' = Undrained + 1
             /\ jobs' = Append(jobs, [op |-> "append", recs |-> queue])
    BY <2>2, <2>3, <2>5
  <2>6. CASE /\ FsyncDue /\ inflight' = Undrained
             /\ jobs' = Append(jobs, [op |-> "fsync", covers |-> n])
    BY <2>d, <2>2, <2>3, <2>4, <2>6
  <2> QED
    BY ZenonT(30), <2>b, <2>1, <2>5, <2>6, <1>TickCases
<1>a. /\ pc = "run" /\ done' = Nothing
      /\ UNCHANGED <<n, policy, files, live, named, own, lane, want, teeing, tee, hold, pjob,
                     tmp, iters, pc, spent>>
  BY DEF AofTick, diskVars, rewriteVars
<1>b. TypeOK /\ LogsInOrder /\ JobsInOrder /\ Chained /\ ImageComplete /\ SyncsCover
  BY DEF LaneInv
<1>1. TypeOK'
  BY <1>TickType
<1>2. LogsInOrder'
  BY <1>a, <1>b, LogsFrame
<1>3. JobsInOrder'
  BY <1>TickJobs
<1>c. /\ [op |-> "append", recs |-> queue] \in Job
      /\ [op |-> "fsync", covers |-> n] \in Job
  BY <1>b, CounterType DEF Job
<1>4. Chained'
  <2>1. files'[live'].recs = files[live].recs /\ files'[live'].img = files[live].img
    BY <1>a
  <2>2. CASE UNCHANGED <<jobs, queue>>
    BY <1>a, <1>b, <2>1, <2>2, ChainFrame
  <2>3. CASE /\ queue # <<>> /\ queue' = <<>>
             /\ jobs' = Append(jobs, [op |-> "append", recs |-> queue])
    BY <1>a, <1>b, <2>3, <1>ChainTaken
  <2>4. CASE queue' = queue /\ jobs' = Append(jobs, [op |-> "fsync", covers |-> n])
    <3>1. PICK x \in Job : x.op # "append" /\ jobs' = Append(jobs, x)
      BY <1>c, <2>4
    <3> QED
      BY <1>a, <1>b, <2>1, <2>4, <3>1, ChainPassed
  <2> QED
    BY <1>b, <2>2, <2>3, <2>4, <1>TickCases
<1>5. ImageComplete'
  <2>1. queue' \in {queue, <<>>}
    BY DEF AofTick
  <2>2. Reach(live)' = Reach(live)
    BY <1>a DEF Reach
  <2> QED
    BY <1>a, <1>b, <2>1, <2>2, ImageFrame
<1>6. SyncsCover'
  <2>1. /\ acked' <= proven'
        /\ \A f \in {live, named} : proven' <= Kept(f) /\ done'.covers <= Kept(f)
    <3>1. \A f \in {live, named} : Kept(f) \in Nat
      BY <1>b, FileType, CounterType
    <3>2. done'.covers = 0
      BY <1>a DEF Nothing
    <3> QED
      BY <3>1, <3>2, <1>TickType
  <2>2. CASE UNCHANGED <<jobs, queue>>
    BY <1>a, <1>b, <2>1, <2>2, SyncsReaped
  <2>3. CASE jobs' = Append(jobs, [op |-> "append", recs |-> queue])
    <3>1. PICK x \in Job : /\ x.op # "reopen" /\ x.op # "fsync"
                           /\ jobs' = Append(jobs, x)
      BY <1>c, <2>3
    <3> QED
      BY <1>a, <1>b, <2>1, <3>1, <1>SyncsAdded
  <2>4. CASE FsyncDue /\ jobs' = Append(jobs, [op |-> "fsync", covers |-> n])
    <3>1. ~hold /\ Undrained = 0 /\ queue = <<>>
      BY <2>4 DEF FsyncDue
    <3>2. inflight = done.appends
      BY <1>b, <3>1, UndrainedType DEF Undrained
    <3>3. n = Reach(live) + Len(queue) /\ Reach(live) \in Nat
      BY <1>b, <3>2, DrainedJobs, DrainedChain, FileType, CounterType
    <3>4. n = Reach(live)
      BY <3>1, <3>3, RecordsType
    <3>5. live = own /\ named = own
      BY <1>b, <3>1 DEF LogsInOrder, Renamed
    <3>6. PICK x \in Job : /\ x.op # "reopen" /\ x.covers = n
                           /\ jobs' = Append(jobs, x)
      BY <1>c, <2>4
    <3>7. \A f \in {live, named} : f = own /\ x.covers <= Reach(f)
      BY <3>3, <3>4, <3>5, <3>6
    <3> QED
      BY <1>a, <1>b, <2>1, <3>6, <3>7, <1>SyncsAdded
  <2> QED
    BY <1>b, <2>2, <2>3, <2>4, <1>TickCases
<1> QED
  BY <1>1, <1>2, <1>3, <1>4, <1>5, <1>6 DEF LaneInv
=============================================================================
