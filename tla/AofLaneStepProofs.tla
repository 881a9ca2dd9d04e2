------------------------- MODULE AofLaneStepProofs -------------------------
(***************************************************************************)
(* The inductive invariant of AofLane, the proof that the steps of the     *)
(* lane's thread and a write preserve it, and what a job handed to the     *)
(* lane keeps.                                                             *)
(* AofLaneWorkerProofs has the persist worker and the timer,               *)
(* AofLaneProofs the reactor's other steps and the theorems.               *)
(***************************************************************************)
EXTENDS AofLane, TLAPS

\* The last write that survives a loss of power in inode f.
Kept(f) == files[f].img + files[f].synced

\* The persist worker has renamed an image over the log, and the reactor does
\* not know yet.
Renamed == pjob.op = "swap" /\ pjob.at \in {"renamed", "ok"}

\* The handles lag behind the path only during a swap, and in order: the lane
\* behind the reactor, the reactor behind the path.
LogsInOrder ==
    /\ live = Len(files)
    /\ hold <=> pjob.op = "swap"
    /\ pjob.at = "renamed" => pjob.op = "swap"
    /\ Renamed => own < live /\ files[live].synced = Len(files[live].recs)
    /\ ~Renamed => own = live
    /\ named = IF pjob.at = "renamed" THEN own ELSE live
    /\ lane <= own
    /\ \A f \in DOMAIN files : files[f].synced <= Len(files[f].recs)
    /\ \A f \in {live, named} : Reach(f) <= n

\* The lane's channel: syncs and reopens first, then the appends that inflight
\* counts; the last reopen names the reactor's log; while a swap holds the
\* queue, and once the loop has ended, no append is under way.
JobsInOrder ==
    /\ \E p \in 0 .. Len(jobs) :
          /\ \A i \in DOMAIN jobs : jobs[i].op = "append" <=> p < i
          /\ inflight = done.appends + (Len(jobs) - p)
    /\ \A i \in DOMAIN jobs : jobs[i].op = "reopen" =>
          /\ jobs[i].file \in 1 .. own
          /\ \/ jobs[i].file = own
             \/ \E j \in DOMAIN jobs : i < j /\ jobs[j].op = "reopen"
    /\ lane = own \/ \E i \in DOMAIN jobs : jobs[i].op = "reopen"
    /\ hold \/ pc # "run" => inflight = 0

\* Is write k in the i-th job's append?
Carries(i, k) ==
    jobs[i].op = "append" /\ \E x \in DOMAIN jobs[i].recs : jobs[i].recs[x] = k

\* k is the last write of the log and of the appends before the i-th job.
Mark(k, i) ==
    /\ Reach(live) <= k
    /\ \A j \in DOMAIN jobs : \A y \in Nat : j < i /\ Carries(j, y) => y <= k
    /\ k = Reach(live) \/ \E j \in DOMAIN jobs : j < i /\ Carries(j, k)

\* LaneFlow's chain, over all appends: all of them will arrive.
Chained ==
    /\ Follows(files[live].recs, files[live].img)
    /\ \A i \in DOMAIN jobs :
          jobs[i].op = "append" => \E k \in Nat : Mark(k, i) /\ Follows(jobs[i].recs, k)
    /\ \E k \in Nat : Mark(k, Len(jobs) + 1) /\ Follows(queue, k) /\ n = k + Len(queue)

\* What the persist worker is asked to add to the image.
ToDo == IF pjob.at = "run" THEN pjob.recs ELSE <<>>

\* The image will be the first k writes.
Built(k) ==
    /\ Follows(tmp.recs \o ToDo, tmp.img)
    /\ k = tmp.img + Len(tmp.recs) + Len(ToDo)

Restructuring == pjob.op \in {"dump", "append", "save"}

\* The image and the tee are every write; the image of a swap is the log.
ImageComplete ==
    /\ pjob.op \in {"swap", "save"} => Len(tee) <= TeeCap
    /\ pjob.op = "save" => teeing /\ tmp.recs = <<>> /\ pjob.recs = <<>>
    /\ Restructuring /\ teeing /\ pjob.at # "failed" =>
          Built(n - Len(tee)) /\ Follows(tee, n - Len(tee))
    /\ pjob.op = "swap" /\ pjob.at = "run" => Built(Reach(live))
    /\ pc # "run" /\ Restructuring => queue = <<>>

\* The syncs: what is answered is proven, what is proven or found synced is in
\* whichever log a restart opens, and a sync under way will find what it covers
\* in the reactor's log.
SyncsCover ==
    /\ acked <= proven
    /\ \A f \in {live, named} : proven <= Kept(f) /\ done.covers <= Kept(f)
    /\ \A i \in DOMAIN jobs : jobs[i].op = "fsync" => \A f \in {live, named} :
          \/ jobs[i].covers <= Kept(f)
          \/ /\ f = own /\ jobs[i].covers <= Reach(f)
             /\ \A j \in DOMAIN jobs : i < j => jobs[j].op # "reopen"

LaneInv ==
    /\ TypeOK /\ LogsInOrder /\ JobsInOrder /\ Chained /\ ImageComplete /\ SyncsCover

-----------------------------------------------------------------------------
\* The bounds are natural numbers.
LEMMA Bounds == {MaxWrites, MaxHandoffs, SmallTee, TeeCap} \subseteq Nat
BY LaneAssumption

\* The files are a sequence.
LEMMA FilesType ==
    TypeOK => files \in Seq(File) /\ DOMAIN files = 1 .. Len(files) /\ Len(files) \in Nat
BY DEF TypeOK

\* The counters are natural numbers, and every handle is a file's.
LEMMA CounterType ==
    TypeOK => /\ n \in 0 .. MaxWrites /\ acked \in 0 .. MaxWrites
              /\ proven \in 0 .. MaxWrites
              /\ n \in Nat /\ acked \in Nat /\ proven \in Nat
              /\ queue \in Records /\ tee \in Records
              /\ live \in DOMAIN files /\ named \in DOMAIN files
              /\ own \in DOMAIN files /\ lane \in DOMAIN files
BY Bounds DEF TypeOK

\* Sums of natural numbers.
LEMMA Sums ==
    \A a, b, c \in Nat : /\ a + b \in Nat /\ a + c \in Nat /\ (b <= c => a + b <= a + c)
                        /\ a + (b + c) + 0 = a + b + c
OBVIOUS

\* Addition is associative.
LEMMA SumOfThree == \A a, b, c \in Nat : a + (b + c) = a + b + c
OBVIOUS

\* No records follow any write.
LEMMA FollowsNone == \A k : Follows(<<>>, k)
BY DEF Follows

\* Consecutive records from k + 1 on follow write k.
LEMMA FollowsWhen ==
    ASSUME NEW k, NEW r \in Records, \A i \in 1 .. Len(r) : r[i] = k + i
    PROVE  Follows(r, k)
BY DEF Follows, Records

\* Records that follow one another follow together.
LEMMA FollowsOn ==
    ASSUME NEW k \in Nat, NEW r \in Records, NEW s \in Records,
           Follows(r, k), Follows(s, k + Len(r))
    PROVE  Follows(r \o s, k)
<1>1. /\ r \o s \in Records /\ Len(r \o s) = Len(r) + Len(s)
      /\ \A i \in 1 .. Len(r \o s) :
            (r \o s)[i] = IF i <= Len(r) THEN r[i] ELSE s[i - Len(r)]
  BY DEF Records
<1>2. \A i \in 1 .. Len(r) : r[i] = k + i
  BY DEF Follows, Records
<1>3. \A i \in 1 .. Len(s) : s[i] = k + Len(r) + i
  BY DEF Follows, Records
<1>4. Len(r) \in Nat /\ Len(s) \in Nat
  BY DEF Records
<1>5. \A i \in 1 .. Len(r \o s) : (r \o s)[i] = k + i
  BY <1>1, <1>2, <1>3, <1>4
<1> QED
  BY ZenonT(30), <1>1, <1>5, FollowsWhen

\* Records that follow write k end Len(r) writes later.
LEMMA FollowsEnds ==
    ASSUME NEW k \in Nat, NEW r \in Records, Follows(r, k)
    PROVE  /\ Len(r) \in Nat
           /\ \A x \in DOMAIN r : r[x] \in Nat /\ r[x] <= k + Len(r)
           /\ r # <<>> => Len(r) \in DOMAIN r /\ r[Len(r)] = k + Len(r)
           /\ r = <<>> => Len(r) = 0
BY DEF Follows, Records

\* An append's records are a sequence of writes, and the empty one is too.
LEMMA RecordsType ==
    /\ <<>> \in Records /\ Len(<<>>) = 0
    /\ \A r \in Records : Len(r) \in Nat /\ r \o <<>> = r /\ (Len(r) = 0 => r = <<>>)
    /\ \A r, s \in Records : r \o s \in Records /\ Len(r \o s) = Len(r) + Len(s)
    /\ \A r \in Records : \A k \in 1 .. MaxWrites :
          Append(r, k) \in Records /\ Len(Append(r, k)) = Len(r) + 1
BY DEF Records

-----------------------------------------------------------------------------
\* The files.

\* What the type of a file says.
LEMMA FileType ==
    ASSUME TypeOK, NEW f \in DOMAIN files
    PROVE  /\ files[f] \in File
           /\ files[f].img \in 0 .. MaxWrites /\ files[f].recs \in Records
           /\ files[f].img \in Nat /\ files[f].synced \in Nat
           /\ Len(files[f].recs) \in Nat
           /\ Reach(f) \in Nat /\ Kept(f) \in Nat
<1>1. files[f] \in File
  BY DEF TypeOK
<1>2. /\ files[f].img \in 0 .. MaxWrites /\ files[f].recs \in Records
      /\ files[f].synced \in Nat
  BY <1>1 DEF File
<1> QED
  BY SMTT(30), <1>1, <1>2, RecordsType, Bounds DEF Reach, Kept

\* One file replaced.
LEMMA FileUpdate ==
    ASSUME NEW s \in Seq(File), NEW f \in DOMAIN s, NEW e \in File
    PROVE  /\ [s EXCEPT ![f] = e] \in Seq(File)
           /\ Len([s EXCEPT ![f] = e]) = Len(s)
           /\ DOMAIN [s EXCEPT ![f] = e] = DOMAIN s
           /\ [s EXCEPT ![f] = e][f] = e
           /\ \A g \in DOMAIN s : g # f => [s EXCEPT ![f] = e][g] = s[g]
OBVIOUS

\* One field of a file replaced.
LEMMA FileField ==
    ASSUME NEW e \in File, NEW v
    PROVE  /\ [e EXCEPT !.recs = v] = [img |-> e.img, recs |-> v, synced |-> e.synced]
           /\ [e EXCEPT !.synced = v] = [img |-> e.img, recs |-> e.recs, synced |-> v]
BY DEF File

\* Records written to a file.
LEMMA WrittenType ==
    ASSUME TypeOK, NEW f \in DOMAIN files, NEW r \in Records
    PROVE  /\ Written(f, r) \in Seq(File)
           /\ Len(Written(f, r)) = Len(files) /\ DOMAIN Written(f, r) = DOMAIN files
           /\ Written(f, r)[f].img = files[f].img
           /\ Written(f, r)[f].synced = files[f].synced
           /\ Written(f, r)[f].recs = files[f].recs \o r
           /\ Len(Written(f, r)[f].recs) = Len(files[f].recs) + Len(r)
           /\ \A g \in DOMAIN files : g # f => Written(f, r)[g] = files[g]
<1> DEFINE e == [img |-> files[f].img, recs |-> files[f].recs \o r,
                 synced |-> files[f].synced]
<1>1. files \in Seq(File) /\ files[f] \in File
  BY FileType DEF TypeOK
<1>2. files[f].recs \o r \in Records /\ Len(files[f].recs \o r) = Len(files[f].recs) + Len(r)
  BY FileType, RecordsType
<1>3. e \in File
  BY <1>2, FileType DEF File
<1>a. [files[f] EXCEPT !.recs = files[f].recs \o r] = e
  BY ZenonT(30), <1>1, FileField
<1>4. Written(f, r) = [files EXCEPT ![f] = e]
  BY ZenonT(30), <1>a DEF Written
<1>5. e.img = files[f].img /\ e.synced = files[f].synced /\ e.recs = files[f].recs \o r
  OBVIOUS
<1> HIDE DEF e
<1>6. /\ Written(f, r) \in Seq(File) /\ Len(Written(f, r)) = Len(files)
      /\ DOMAIN Written(f, r) = DOMAIN files
      /\ Written(f, r)[f] = e
      /\ \A g \in DOMAIN files : g # f => Written(f, r)[g] = files[g]
  BY <1>1, <1>3, <1>4, FileUpdate
<1> QED
  BY ZenonT(30), <1>2, <1>5, <1>6

\* Spending a budget keeps its type.
LEMMA SpendType ==
    ASSUME TypeOK, NEW limit, NEW what \in {"rewrites", "saves", "upsets"},
           Spend(what, limit)
    PROVE  spent' \in [rewrites : Nat, saves : Nat, upsets : Nat]
<1>1. spent \in [rewrites : Nat, saves : Nat, upsets : Nat]
  BY DEF TypeOK
<1> QED
  BY <1>1 DEF Spend

-----------------------------------------------------------------------------
\* What does not concern a conjunct leaves it alone.

\* A step that leaves the files and their handles alone keeps LogsInOrder.
LEMMA LogsFrame ==
    ASSUME LogsInOrder, UNCHANGED <<files, live, named, own, lane, hold, pjob, n>>
    PROVE  LogsInOrder'
BY DEF LogsInOrder, Renamed, Reach

\* A step that leaves the channel and its counters alone keeps JobsInOrder.
LEMMA JobsFrame ==
    ASSUME JobsInOrder, UNCHANGED <<jobs, inflight, done, own, lane, hold, pc>>
    PROVE  JobsInOrder'
BY DEF JobsInOrder

\* A step that leaves the channel and the log's end alone keeps every mark.
LEMMA MarkFrame ==
    ASSUME NEW k, NEW i, Mark(k, i), Reach(live)' = Reach(live), jobs' = jobs
    PROVE  Mark(k, i)'
BY DEF Mark, Carries

\* A step that leaves the log, the channel and the queue alone keeps Chained.
LEMMA ChainFrame ==
    ASSUME Chained, UNCHANGED <<jobs, queue, n>>,
           files'[live'].recs = files[live].recs, files'[live'].img = files[live].img
    PROVE  Chained'
<1>1. Reach(live)' = Reach(live)
  BY DEF Reach
<1>2. \A k, i : Mark(k, i) => Mark(k, i)'
  BY <1>1, MarkFrame
<1> QED
  BY ZenonT(30), <1>2 DEF Chained, Follows

\* A step that leaves the rewrite alone keeps ImageComplete.
LEMMA ImageFrame ==
    ASSUME ImageComplete, UNCHANGED <<pjob, tee, teeing, tmp, n, pc>>,
           queue' \in {queue, <<>>}, pjob.op # "swap" \/ Reach(live)' = Reach(live)
    PROVE  ImageComplete'
BY ZenonT(30) DEF ImageComplete, Built, ToDo, Follows, Restructuring

\* A step that leaves the syncs and the files alone keeps SyncsCover.
LEMMA SyncsFrame ==
    ASSUME SyncsCover, UNCHANGED <<acked, proven, files, live, named, own, done, jobs>>
    PROVE  SyncsCover'
BY DEF SyncsCover, Kept, Reach

-----------------------------------------------------------------------------
\* The lane's channel.

\* What the type of a job says.
LEMMA JobType ==
    ASSUME TypeOK, NEW i \in DOMAIN jobs
    PROVE  /\ jobs[i].op \in {"append", "fsync", "reopen"}
           /\ jobs[i].op = "append" => jobs[i].recs \in Records
           /\ jobs[i].op = "fsync" => jobs[i].covers \in 0 .. MaxWrites
           /\ jobs[i].op = "reopen" => jobs[i].file \in Nat
<1>1. jobs[i] \in Job
  BY DEF TypeOK
<1> QED
  BY <1>1 DEF Job

\* The channel is a sequence of jobs.
LEMMA JobsType ==
    TypeOK => jobs \in Seq(Job) /\ Len(jobs) \in Nat /\ DOMAIN jobs = 1 .. Len(jobs)
BY DEF TypeOK

\* The appends of the channel are its last Undrained jobs.
LEMMA UndrainedType ==
    ASSUME TypeOK, JobsInOrder
    PROVE  /\ Undrained \in Nat /\ Undrained <= inflight
           /\ inflight \in Nat /\ done.appends \in Nat
           /\ \E p \in 0 .. Len(jobs) :
                 /\ \A i \in DOMAIN jobs : jobs[i].op = "append" <=> p < i
                 /\ Undrained = Len(jobs) - p
<1>1. inflight \in Nat /\ done.appends \in Nat /\ Len(jobs) \in Nat
  BY JobsType DEF TypeOK
<1>2. PICK p \in 0 .. Len(jobs) :
          /\ \A i \in DOMAIN jobs : jobs[i].op = "append" <=> p < i
          /\ inflight = done.appends + (Len(jobs) - p)
  BY DEF JobsInOrder
<1>3. p \in Nat /\ p <= Len(jobs)
  BY <1>1, <1>2
<1>4. Undrained = Len(jobs) - p
  BY <1>1, <1>2, <1>3 DEF Undrained
<1> QED
  BY <1>1, <1>2, <1>3, <1>4

NoAppend == \A i \in DOMAIN jobs : jobs[i].op # "append"

\* When every append in flight is done, the channel has none.
LEMMA DrainedJobs ==
    ASSUME TypeOK, JobsInOrder, inflight = done.appends
    PROVE  NoAppend
<1>1. PICK p \in 0 .. Len(jobs) :
          /\ \A i \in DOMAIN jobs : jobs[i].op = "append" <=> p < i
          /\ inflight = done.appends + (Len(jobs) - p)
  BY DEF JobsInOrder
<1>2. inflight \in Nat /\ done.appends \in Nat /\ Len(jobs) \in Nat
      /\ DOMAIN jobs = 1 .. Len(jobs)
  BY DEF TypeOK
<1>3. p = Len(jobs)
  BY <1>1, <1>2
<1> QED
  BY <1>1, <1>2, <1>3 DEF NoAppend

\* Then the queue goes on where the log ends.
LEMMA DrainedChain ==
    TypeOK /\ NoAppend =>
        (Chained <=> /\ Follows(files[live].recs, files[live].img)
                     /\ Follows(queue, Reach(live))
                     /\ n = Reach(live) + Len(queue))
<1> SUFFICES ASSUME TypeOK, NoAppend
             PROVE  Chained <=> /\ Follows(files[live].recs, files[live].img)
                                /\ Follows(queue, Reach(live))
                                /\ n = Reach(live) + Len(queue)
  OBVIOUS
<1>1. Reach(live) \in Nat
  BY ZenonT(30), FileType DEF TypeOK
<1>2. \A k, i : Mark(k, i) => k = Reach(live)
  BY DEF Mark, Carries, NoAppend
<1>3. Mark(Reach(live), Len(jobs) + 1)
  BY <1>1 DEF Mark, Carries, NoAppend
<1> QED
  BY <1>1, <1>2, <1>3 DEF Chained, NoAppend

\* When nothing is in flight, neither the channel nor the answers hold an append.
LEMMA QuietLane ==
    ASSUME LaneInv, inflight = 0
    PROVE  NoAppend /\ done.appends = 0
<1>b. TypeOK /\ JobsInOrder
  BY DEF LaneInv
<1>2. Undrained \in Nat /\ done.appends \in Nat
  BY <1>b, UndrainedType
<1>3. done.appends = 0
  BY <1>2 DEF Undrained
<1> QED
  BY <1>b, <1>3, DrainedJobs

-----------------------------------------------------------------------------
\* The lane.

\* The lane's thread, taking one job, keeps the invariant.
LEMMA LaneStepKeeps ==
    ASSUME LaneInv, LaneStep
    PROVE  LaneInv'
\* A file synced.
<1>SyncedType.
    ASSUME TypeOK, NEW f \in DOMAIN files
    PROVE  /\ Synced(f) \in Seq(File)
           /\ Len(Synced(f)) = Len(files) /\ DOMAIN Synced(f) = DOMAIN files
           /\ Synced(f)[f].img = files[f].img
           /\ Synced(f)[f].synced = Len(files[f].recs)
           /\ Synced(f)[f].recs = files[f].recs
           /\ \A g \in DOMAIN files : g # f => Synced(f)[g] = files[g]
  <2> USE <1>SyncedType
  <2> DEFINE e == [img |-> files[f].img, recs |-> files[f].recs,
                   synced |-> Len(files[f].recs)]
  <2>1. files \in Seq(File) /\ files[f] \in File
    BY FileType DEF TypeOK
  <2>3. e \in File
    BY FileType DEF File
  <2>a. [files[f] EXCEPT !.synced = Len(files[f].recs)] = e
    BY ZenonT(30), <2>1, FileField
  <2>4. Synced(f) = [files EXCEPT ![f] = e]
    BY ZenonT(30), <2>a DEF Synced
  <2>5. /\ e.img = files[f].img /\ e.synced = Len(files[f].recs)
        /\ e.recs = files[f].recs
    OBVIOUS
  <2> HIDE DEF e
  <2> QED
    BY <2>1, <2>3, <2>4, <2>5, FileUpdate
<1>JobDone.
    ASSUME TypeOK, jobs # <<>>, jobs' = Tail(jobs)
    PROVE  /\ jobs' \in Seq(Job) /\ Len(jobs) \in Nat /\ Len(jobs) > 0
           /\ Len(jobs') = Len(jobs) - 1
           /\ DOMAIN jobs = 1 .. Len(jobs) /\ DOMAIN jobs' = 1 .. Len(jobs) - 1
           /\ Head(jobs) = jobs[1] /\ 1 \in DOMAIN jobs
           /\ \A i \in DOMAIN jobs' : i + 1 \in DOMAIN jobs /\ jobs'[i] = jobs[i + 1]
           /\ \A i \in DOMAIN jobs : i > 1 => i - 1 \in DOMAIN jobs' /\ jobs'[i - 1] = jobs[i]
  <2> USE <1>JobDone
  <2>1. jobs \in Seq(Job)
    BY DEF TypeOK
  <2>2. /\ jobs' \in Seq(Job) /\ Len(jobs) \in Nat /\ Len(jobs) > 0
        /\ Len(jobs') = Len(jobs) - 1
        /\ DOMAIN jobs = 1 .. Len(jobs) /\ DOMAIN jobs' = 1 .. Len(jobs) - 1
        /\ Head(jobs) = jobs[1]
        /\ \A i \in 1 .. Len(jobs) - 1 : jobs'[i] = jobs[i + 1]
    BY <2>1
  <2>3. \A i \in DOMAIN jobs' : i + 1 \in DOMAIN jobs /\ jobs'[i] = jobs[i + 1]
    BY <2>2
  <2>4. ASSUME NEW i \in DOMAIN jobs, i > 1
        PROVE  i - 1 \in DOMAIN jobs' /\ jobs'[i - 1] = jobs[i]
    <3>1. i - 1 \in 1 .. Len(jobs) - 1 /\ (i - 1) + 1 = i
      BY <2>2, <2>4
    <3> QED
      BY <2>2, <3>1
  <2> QED
    BY <2>2, <2>3, <2>4
\* What the first job writes to the log is where the next one begins.
<1>MarkDone.
    ASSUME TypeOK, jobs # <<>>, jobs' = Tail(jobs), Reach(live)' \in Nat,
           Reach(live) <= Reach(live)',
           \A y \in Nat : Carries(1, y) => y <= Reach(live)',
           \A y \in Nat : y = Reach(live)' => y = Reach(live) \/ Carries(1, y),
           NEW k \in Nat, NEW i \in Nat, Mark(k, i + 1), i >= 1
    PROVE  Mark(k, i)'
  <2> USE <1>MarkDone
  <2>1. /\ 1 \in DOMAIN jobs
        /\ \A j \in DOMAIN jobs' : j \in Nat /\ j + 1 \in DOMAIN jobs /\ jobs'[j] = jobs[j + 1]
        /\ \A j \in DOMAIN jobs : j \in Nat /\ (j = 1 \/ j > 1)
        /\ \A j \in DOMAIN jobs : j > 1 => j - 1 \in DOMAIN jobs' /\ jobs'[j - 1] = jobs[j]
    BY <1>JobDone
  <2>2. Reach(live) \in Nat
    BY FileType, CounterType
  <2>3. /\ Reach(live) <= k
        /\ \A j \in DOMAIN jobs : \A y \in Nat : j < i + 1 /\ Carries(j, y) => y <= k
        /\ k = Reach(live) \/ \E j \in DOMAIN jobs : j < i + 1 /\ Carries(j, k)
    BY DEF Mark
  <2>4. PICK r \in Nat : r = Reach(live)'
    OBVIOUS
  <2>5. r <= k
    <3>1. r = Reach(live) \/ Carries(1, r)
      BY <2>4
    <3>2. 1 < i + 1
      OBVIOUS
    <3> QED
      BY <2>1, <2>3, <3>1, <3>2
  <2>6. ASSUME NEW j \in DOMAIN jobs', NEW y \in Nat, j < i, Carries(j, y)'
        PROVE  y <= k
    <3>1. j + 1 \in DOMAIN jobs /\ j + 1 < i + 1 /\ jobs'[j] = jobs[j + 1]
      BY <2>1, <2>6
    <3>2. Carries(j + 1, y)
      BY <2>6, <3>1 DEF Carries
    <3> QED
      BY <2>3, <3>1, <3>2
  <2>7. k = r \/ \E j \in DOMAIN jobs' : j < i /\ Carries(j, k)'
    <3>1. CASE k = Reach(live)
      BY <2>2, <2>4, <2>5, <3>1
    <3>2. CASE \E j \in DOMAIN jobs : j < i + 1 /\ Carries(j, k)
      <4>1. PICK j \in DOMAIN jobs : j < i + 1 /\ Carries(j, k)
        BY <3>2
      <4>2. CASE j = 1
        <5>1. k <= r
          BY <2>4, <4>1, <4>2
        <5> QED
          BY <2>5, <5>1
      <4>3. CASE j > 1
        <5>1. j - 1 \in DOMAIN jobs' /\ j - 1 < i /\ jobs'[j - 1] = jobs[j]
          BY <2>1, <4>1, <4>3
        <5>2. Carries(j - 1, k)'
          BY <4>1, <5>1 DEF Carries
        <5> QED
          BY <5>1, <5>2
      <4> QED
        BY <2>1, <4>2, <4>3
    <3> QED
      BY <2>3, <3>1, <3>2
  <2> QED
    BY <2>4, <2>5, <2>6, <2>7 DEF Mark
<1>ChainDone.
    ASSUME TypeOK, Chained, jobs # <<>>, jobs' = Tail(jobs), UNCHANGED <<queue, n>>,
           Follows(files'[live'].recs, files'[live'].img),
           Reach(live)' \in Nat, Reach(live) <= Reach(live)',
           \A y \in Nat : Carries(1, y) => y <= Reach(live)',
           \A y \in Nat : y = Reach(live)' => y = Reach(live) \/ Carries(1, y)
    PROVE  Chained'
  <2> USE <1>ChainDone
  <2>1. /\ Len(jobs) \in Nat /\ Len(jobs) > 0 /\ Len(jobs') = Len(jobs) - 1
        /\ \A i \in DOMAIN jobs' : /\ i \in Nat /\ i >= 1 /\ i + 1 \in DOMAIN jobs
                                   /\ jobs'[i] = jobs[i + 1]
    BY <1>JobDone
  <2>2. ASSUME NEW i \in DOMAIN jobs', jobs'[i].op = "append"
        PROVE  \E k \in Nat : Mark(k, i)' /\ Follows(jobs'[i].recs, k)
    <3>1. i \in Nat /\ i >= 1 /\ i + 1 \in DOMAIN jobs /\ jobs'[i] = jobs[i + 1]
      BY <2>1
    <3>2. PICK k \in Nat : Mark(k, i + 1) /\ Follows(jobs[i + 1].recs, k)
      BY <2>2, <3>1 DEF Chained
    <3>3. Mark(k, i)'
      BY <3>1, <3>2, <1>MarkDone
    <3> QED
      BY <3>1, <3>2, <3>3
  <2>3. PICK k \in Nat : Mark(k, Len(jobs) + 1) /\ Follows(queue, k) /\ n = k + Len(queue)
    BY DEF Chained
  <2>a. Len(jobs) >= 1 /\ Len(jobs) = Len(jobs') + 1
    BY <2>1
  <2>4. PICK e \in Nat : e = Len(jobs) /\ e >= 1 /\ e = Len(jobs') + 1
    BY ZenonT(30), <2>1, <2>a
  <2>5. Mark(k, e + 1)
    BY <2>3, <2>4
  <2>6. Mark(k, e)'
    BY <2>4, <2>5, <1>MarkDone
  <2>7. Mark(k, Len(jobs) + 1)'
    BY <2>4, <2>6
  <2>8. Follows(files[live].recs, files[live].img)'
    BY DEF Follows
  <2> QED
    BY <2>2, <2>3, <2>7, <2>8 DEF Chained
\* A job other than an append is done: the count of the others stays.
<1>CountDone.
    ASSUME TypeOK, JobsInOrder, jobs # <<>>, jobs' = Tail(jobs), jobs[1].op # "append",
           inflight' = inflight, done'.appends = done.appends
    PROVE  \E q \in 0 .. Len(jobs') :
              /\ \A i \in DOMAIN jobs' : jobs'[i].op = "append" <=> q < i
              /\ inflight' = done'.appends + (Len(jobs') - q)
  <2> USE <1>CountDone
  <2>1. /\ Len(jobs) \in Nat /\ Len(jobs) > 0 /\ Len(jobs') = Len(jobs) - 1
        /\ 1 \in DOMAIN jobs
        /\ \A i \in DOMAIN jobs' : /\ i \in Nat /\ i + 1 \in DOMAIN jobs
                                   /\ jobs'[i] = jobs[i + 1]
    BY <1>JobDone
  <2>2. PICK p \in 0 .. Len(jobs) :
            /\ \A i \in DOMAIN jobs : jobs[i].op = "append" <=> p < i
            /\ inflight = done.appends + (Len(jobs) - p)
    BY DEF JobsInOrder
  <2>3. p \in Nat /\ p >= 1 /\ p <= Len(jobs)
    BY <2>1, <2>2
  <2>4. \A i \in DOMAIN jobs' : jobs'[i].op = "append" <=> p - 1 < i
    BY <2>1, <2>2, <2>3
  <2>5. /\ p - 1 \in 0 .. Len(jobs')
        /\ Len(jobs') - (p - 1) = Len(jobs) - p
    BY <2>1, <2>3
  <2>6. inflight' = done'.appends + (Len(jobs') - (p - 1))
    BY <2>2, <2>5
  <2> QED
    BY ZenonT(30), <2>4, <2>5, <2>6
\* The reopens that remain.
<1>ReopensDone.
    ASSUME TypeOK, JobsInOrder, jobs # <<>>, jobs' = Tail(jobs), own' = own
    PROVE  /\ \A i \in DOMAIN jobs' : jobs'[i].op = "reopen" =>
                 /\ jobs'[i].file \in 1 .. own'
                 /\ \/ jobs'[i].file = own'
                    \/ \E j \in DOMAIN jobs' : i < j /\ jobs'[j].op = "reopen"
           /\ \A j \in DOMAIN jobs : j > 1 /\ jobs[j].op = "reopen" =>
                 \E i \in DOMAIN jobs' : jobs'[i].op = "reopen"
  <2> USE <1>ReopensDone
  <2>1. /\ \A i \in DOMAIN jobs' : /\ i \in Nat /\ i + 1 \in DOMAIN jobs
                                   /\ jobs'[i] = jobs[i + 1]
        /\ \A j \in DOMAIN jobs : j \in Nat
        /\ \A j \in DOMAIN jobs : j > 1 => j - 1 \in DOMAIN jobs' /\ jobs'[j - 1] = jobs[j]
    BY <1>JobDone
  <2>2. ASSUME NEW i \in DOMAIN jobs', jobs'[i].op = "reopen"
        PROVE  /\ jobs'[i].file \in 1 .. own'
               /\ \/ jobs'[i].file = own'
                  \/ \E j \in DOMAIN jobs' : i < j /\ jobs'[j].op = "reopen"
    <3>1. i + 1 \in DOMAIN jobs /\ jobs'[i] = jobs[i + 1] /\ i \in Nat /\ i >= 1
      BY <2>1, <1>JobDone
    <3>2. /\ jobs[i + 1].file \in 1 .. own
          /\ \/ jobs[i + 1].file = own
             \/ \E j \in DOMAIN jobs : i + 1 < j /\ jobs[j].op = "reopen"
      BY <2>2, <3>1 DEF JobsInOrder
    <3>3. ASSUME NEW j \in DOMAIN jobs, i + 1 < j, jobs[j].op = "reopen"
          PROVE  \E h \in DOMAIN jobs' : i < h /\ jobs'[h].op = "reopen"
      <4>1. j \in Nat /\ j > 1 /\ i < j - 1
        BY <2>1, <3>1, <3>3
      <4>2. j - 1 \in DOMAIN jobs' /\ jobs'[j - 1].op = "reopen"
        BY <2>1, <3>3, <4>1
      <4> QED
        BY <4>1, <4>2
    <3> QED
      BY <3>1, <3>2, <3>3
  <2>3. ASSUME NEW j \in DOMAIN jobs, j > 1, jobs[j].op = "reopen"
        PROVE  \E i \in DOMAIN jobs' : jobs'[i].op = "reopen"
    BY <2>1, <2>3
  <2> QED
    BY <2>2, <2>3
<1>SyncsDone.
    ASSUME TypeOK, SyncsCover, jobs # <<>>, jobs' = Tail(jobs),
           UNCHANGED <<live, named, own, acked, proven>>,
           \A f \in {live, named} : /\ Kept(f)' \in Nat /\ Reach(f)' \in Nat
                                    /\ Kept(f) <= Kept(f)' /\ Reach(f) <= Reach(f)'
                                    /\ done'.covers <= Kept(f)'
    PROVE  SyncsCover'
  <2> USE <1>SyncsDone
  <2>1. \A i \in DOMAIN jobs' : /\ i \in Nat /\ i + 1 \in DOMAIN jobs
                               /\ jobs'[i] = jobs[i + 1]
    BY <1>JobDone
  <2>2. \A f \in {live, named} : Kept(f) \in Nat /\ Reach(f) \in Nat
    BY FileType, CounterType
  <2>3. acked <= proven /\ \A f \in {live, named} : proven <= Kept(f)
    BY DEF SyncsCover
  <2>4. \A f \in {live, named} : proven <= Kept(f)'
    BY <2>2, <2>3, CounterType
  <2>5. ASSUME NEW i \in DOMAIN jobs', jobs'[i].op = "fsync", NEW f \in {live, named}
        PROVE  \/ jobs'[i].covers <= Kept(f)'
               \/ /\ f = own' /\ jobs'[i].covers <= Reach(f)'
                  /\ \A j \in DOMAIN jobs' : i < j => jobs'[j].op # "reopen"
    <3>1. i \in Nat /\ i + 1 \in DOMAIN jobs /\ jobs'[i] = jobs[i + 1]
      BY <2>1
    <3>2. jobs[i + 1].covers \in Nat
      BY <2>5, <3>1, JobType, Bounds
    <3>3. \/ jobs[i + 1].covers <= Kept(f)
          \/ /\ f = own /\ jobs[i + 1].covers <= Reach(f)
             /\ \A j \in DOMAIN jobs : i + 1 < j => jobs[j].op # "reopen"
      BY <2>5, <3>1 DEF SyncsCover
    <3>4. (\A j \in DOMAIN jobs : i + 1 < j => jobs[j].op # "reopen")
          => \A j \in DOMAIN jobs' : i < j => jobs'[j].op # "reopen"
      BY <2>1, <3>1
    <3>5. /\ jobs[i + 1].covers <= Kept(f) => jobs[i + 1].covers <= Kept(f)'
          /\ jobs[i + 1].covers <= Reach(f) => jobs[i + 1].covers <= Reach(f)'
      BY SMTT(30), <2>2, <3>2
    <3> QED
      BY <3>1, <3>3, <3>4, <3>5
  <2> QED
    BY <2>3, <2>4, <2>5 DEF SyncsCover
\* Steps of the lane that leave the log's records alone.
<1>LaneLogKept.
    ASSUME LaneInv, jobs # <<>>, jobs' = Tail(jobs), jobs[1].op # "append",
           UNCHANGED <<n, queue, live, pjob, tee, teeing, tmp, pc>>,
           files'[live].recs = files[live].recs, files'[live].img = files[live].img
    PROVE  Chained' /\ ImageComplete'
  <2> USE <1>LaneLogKept
  <2>b. TypeOK /\ Chained /\ ImageComplete
    BY DEF LaneInv
  <2>1. Reach(live)' = Reach(live) /\ Reach(live) \in Nat
    BY <2>b, FileType, CounterType DEF Reach
  <2>2. \A y : ~Carries(1, y)
    BY DEF Carries
  <2>3. Follows(files'[live'].recs, files'[live'].img)
    BY <2>b DEF Chained
  <2>4. Chained'
    BY <2>b, <2>1, <2>2, <2>3, <1>ChainDone
  <2>5. ImageComplete'
    BY <2>b, <2>1, ImageFrame
  <2> QED
    BY <2>4, <2>5
<1>LaneSyncKeeps.
    ASSUME LaneInv, LaneStep, LaneSync, lane' = lane
    PROVE  LaneInv'
  <2> USE <1>LaneSyncKeeps
  <2>a. /\ jobs # <<>> /\ Head(jobs).op = "fsync" /\ jobs' = Tail(jobs)
        /\ UNCHANGED <<n, acked, policy, queue, live, named, own, inflight, fsyncing, unsynced,
                       proven, held, want, teeing, tee, hold, pjob, tmp, iters, pc>>
    BY DEF LaneStep, LaneSync, rewriteVars
  <2>b. TypeOK /\ LogsInOrder /\ JobsInOrder /\ Chained /\ ImageComplete /\ SyncsCover
    BY DEF LaneInv
  <2>c. /\ jobs' \in Seq(Job) /\ jobs[1].op = "fsync" /\ Head(jobs) = jobs[1]
        /\ 1 \in DOMAIN jobs /\ \A j \in DOMAIN jobs : j = 1 \/ j > 1
    BY <2>a, <2>b, <1>JobDone
  <2>d. jobs[1].covers \in 0 .. MaxWrites
    BY <2>b, <2>c, JobType
  <2>e. lane \in DOMAIN files /\ live \in DOMAIN files /\ named \in DOMAIN files
    BY <2>b, CounterType
  <2>f. done \in [appends : Nat, covers : 0 .. MaxWrites, failed : BOOLEAN]
    BY <2>b DEF TypeOK
  <2>g. /\ done' \in [appends : Nat, covers : 0 .. MaxWrites, failed : BOOLEAN]
        /\ done'.appends = done.appends
        /\ spent' \in [rewrites : Nat, saves : Nat, upsets : Nat]
        /\ \/ files' = Synced(lane) /\ done'.covers = jobs[1].covers
           \/ files' = files /\ done'.covers = done.covers
    <3>1. CASE /\ files' = Synced(lane) /\ spent' = spent
               /\ done' = [done EXCEPT !.covers = Head(jobs).covers]
      BY ZenonT(30), <2>b, <2>c, <2>d, <2>f, <3>1 DEF TypeOK
    <3>2. CASE /\ Spend("upsets", MaxUpsets) /\ files' = files
               /\ done' = [done EXCEPT !.failed = TRUE]
      <4>1. spent' \in [rewrites : Nat, saves : Nat, upsets : Nat]
        BY <2>b, <3>2, SpendType
      <4> QED
        BY ZenonT(30), <2>f, <3>2, <4>1
    <3> QED
      BY <3>1, <3>2 DEF LaneSync
  <2>h. /\ files' \in Seq(File) /\ Len(files') = Len(files) /\ DOMAIN files' = DOMAIN files
        /\ \A f \in DOMAIN files :
              /\ files'[f].img = files[f].img /\ files'[f].recs = files[f].recs
              /\ files'[f].synced \in {files[f].synced, Len(files[f].recs)}
        /\ files' = Synced(lane) => files'[lane].synced = Len(files[lane].recs)
    <3>1. CASE files' = files
      <4>1. files = Synced(lane) => files[lane].synced = Len(files[lane].recs)
        BY <2>b, <2>e, <1>SyncedType
      <4> QED
        BY <2>b, <3>1, <4>1 DEF TypeOK
    <3>2. CASE files' = Synced(lane)
      <4>1. /\ Synced(lane) \in Seq(File)
            /\ Len(Synced(lane)) = Len(files) /\ DOMAIN Synced(lane) = DOMAIN files
            /\ Synced(lane)[lane].img = files[lane].img
            /\ Synced(lane)[lane].synced = Len(files[lane].recs)
            /\ Synced(lane)[lane].recs = files[lane].recs
            /\ \A g \in DOMAIN files : g # lane => Synced(lane)[g] = files[g]
        BY <2>b, <2>e, <1>SyncedType
      <4> QED
        BY <3>2, <4>1
    <3> QED
      BY <2>g, <3>1, <3>2
  <2>i. \A f \in DOMAIN files : files[f].synced <= Len(files[f].recs)
    BY <2>b DEF LogsInOrder
  <2>j. ASSUME NEW f \in DOMAIN files
        PROVE  /\ Reach(f)' = Reach(f) /\ Reach(f) \in Nat
               /\ Kept(f)' \in Nat /\ Kept(f) <= Kept(f)' /\ Kept(f) \in Nat
               /\ files'[f].synced <= Len(files'[f].recs)
    <3>1. /\ files[f].img \in Nat /\ files[f].synced \in Nat /\ Len(files[f].recs) \in Nat
          /\ Reach(f) \in Nat /\ Kept(f) \in Nat
      BY <2>b, FileType
    <3>2. Reach(f)' = Reach(f)
      BY <2>h DEF Reach
    <3>3. /\ files'[f].synced \in Nat /\ files[f].synced <= files'[f].synced
          /\ files'[f].synced <= Len(files'[f].recs)
      BY <2>h, <2>i, <3>1
    <3>4. Kept(f)' = files[f].img + files'[f].synced /\ Kept(f) = files[f].img + files[f].synced
      BY <2>h DEF Kept
    <3> QED
      BY <3>1, <3>2, <3>3, <3>4, Sums
  <2>1. TypeOK'
    <3>1. {live, named, own, lane}' \subseteq DOMAIN files'
      BY ZenonT(30), <2>a, <2>b, <2>h DEF TypeOK
    <3> QED
      BY <2>a, <2>b, <2>c, <2>g, <2>h, <3>1 DEF TypeOK
  <2>2. LogsInOrder'
    <3>1. \A f \in {live, named}' : Reach(f)' <= n'
      BY <2>a, <2>b, <2>e, <2>j DEF LogsInOrder
    <3>2. \A f \in DOMAIN files' : files'[f].synced <= Len(files'[f].recs)
      BY <2>h, <2>j
    <3>3. Renamed' => own' < live' /\ files'[live'].synced = Len(files'[live'].recs)
      BY <2>a, <2>b, <2>e, <2>h DEF LogsInOrder, Renamed
    <3> QED
      BY <2>a, <2>b, <2>h, <3>1, <3>2, <3>3 DEF LogsInOrder, Renamed
  <2>3. JobsInOrder'
    <3>1. \E q \in 0 .. Len(jobs') :
              /\ \A i \in DOMAIN jobs' : jobs'[i].op = "append" <=> q < i
              /\ inflight' = done'.appends + (Len(jobs') - q)
      BY <2>a, <2>b, <2>c, <2>g, <1>CountDone
    <3>2. lane' = own' \/ \E i \in DOMAIN jobs' : jobs'[i].op = "reopen"
      BY <2>a, <2>b, <2>c, <1>ReopensDone DEF JobsInOrder
    <3>3. \A i \in DOMAIN jobs' : jobs'[i].op = "reopen" =>
                   /\ jobs'[i].file \in 1 .. own'
                   /\ \/ jobs'[i].file = own'
                      \/ \E j \in DOMAIN jobs' : i < j /\ jobs'[j].op = "reopen"
      BY <2>a, <2>b, <1>ReopensDone
    <3>4. hold' \/ pc' # "run" => inflight' = 0
      BY <2>a, <2>b DEF JobsInOrder
    <3> QED
      BY <3>1, <3>2, <3>3, <3>4 DEF JobsInOrder
  <2>4. Chained' /\ ImageComplete'
    BY <2>a, <2>c, <2>e, <2>h, <1>LaneLogKept
  <2>5. SyncsCover'
    <3>1. ASSUME NEW f \in {live, named}
          PROVE  done'.covers <= Kept(f)'
      <4>0. f \in DOMAIN files
        BY <2>e
      <4>1. CASE done'.covers = done.covers
        <5>1. done.covers <= Kept(f) /\ done.covers \in Nat
          BY <2>b, <2>f, Bounds DEF SyncsCover
        <5> QED
          BY <2>j, <4>0, <4>1, <5>1
      <4>2. CASE files' = Synced(lane) /\ done'.covers = jobs[1].covers
        <5>1. \/ jobs[1].covers <= Kept(f)
              \/ /\ f = own /\ jobs[1].covers <= Reach(f)
                 /\ \A j \in DOMAIN jobs : 1 < j => jobs[j].op # "reopen"
          BY <2>b, <2>c DEF SyncsCover
        <5>2. jobs[1].covers \in Nat
          BY <2>d, Bounds
        <5>3. CASE jobs[1].covers <= Kept(f)
          BY <2>j, <4>0, <4>2, <5>2, <5>3
        <5>4. CASE /\ f = own /\ jobs[1].covers <= Reach(f)
                   /\ \A j \in DOMAIN jobs : 1 < j => jobs[j].op # "reopen"
          <6>1. \A j \in DOMAIN jobs : jobs[j].op # "reopen"
            BY <2>c, <5>4
          <6>2. lane = f
            BY <2>b, <5>4, <6>1 DEF JobsInOrder
          <6>3. Kept(f)' = Reach(f)
            BY <2>h, <4>0, <4>2, <6>2 DEF Kept, Reach
          <6> QED
            BY <4>2, <5>4, <6>3
        <5> QED
          BY <5>1, <5>3, <5>4
      <4> QED
        BY <2>g, <4>1, <4>2
    <3>2. \A f \in {live, named} : /\ Kept(f)' \in Nat /\ Reach(f)' \in Nat
                                   /\ Kept(f) <= Kept(f)' /\ Reach(f) <= Reach(f)'
      BY <2>e, <2>j
    <3> QED
      BY <2>a, <2>b, <3>1, <3>2, <1>SyncsDone
  <2> QED
    BY <2>1, <2>2, <2>3, <2>4, <2>5 DEF LaneInv
<1>LaneReopenKeeps.
    ASSUME LaneInv, LaneStep, LaneReopen
    PROVE  LaneInv'
  <2> USE <1>LaneReopenKeeps
  <2>a. /\ jobs # <<>> /\ Head(jobs).op = "reopen" /\ jobs' = Tail(jobs)
        /\ lane' = Head(jobs).file
        /\ UNCHANGED <<n, acked, policy, queue, live, named, own, inflight, fsyncing, unsynced,
                       proven, held, want, teeing, tee, hold, pjob, tmp, iters, pc, done,
                       spent>>
    BY DEF LaneStep, LaneReopen, rewriteVars
  <2>b. TypeOK /\ LogsInOrder /\ JobsInOrder /\ Chained /\ ImageComplete /\ SyncsCover
    BY DEF LaneInv
  <2>c. /\ jobs' \in Seq(Job) /\ jobs[1].op = "reopen" /\ Head(jobs) = jobs[1]
        /\ 1 \in DOMAIN jobs
    BY <2>a, <2>b, <1>JobDone
  <2>d. /\ live \in DOMAIN files /\ named \in DOMAIN files /\ own \in DOMAIN files
        /\ files \in Seq(File) /\ DOMAIN files = 1 .. Len(files) /\ Len(files) \in Nat
    BY ZenonT(30), <2>b, CounterType, FilesType
  <2>e. lane' \in 1 .. own /\ lane' = jobs[1].file
    BY <2>a, <2>b, <2>c DEF JobsInOrder
  <2>f. own <= live /\ live = Len(files) /\ own \in Nat /\ live \in Nat
    BY <2>b, <2>d DEF LogsInOrder
  <2>g. files' = [f \in DOMAIN files |->
                     IF f < lane' /\ f # named THEN Fresh(0) ELSE files[f]]
    BY DEF LaneReopen
  <2>h. files' \in Seq(File) /\ Len(files') = Len(files) /\ DOMAIN files' = DOMAIN files
    <3>1. Fresh(0) \in File
      BY RecordsType, Bounds DEF Fresh, File
    <3>2. \A f \in DOMAIN files : files[f] \in File
      BY <2>b, FileType
    <3>3. files' \in [1 .. Len(files) -> File]
      BY <2>d, <2>g, <3>1, <3>2
    <3> QED
      BY <2>d, <3>3
  <2>i. \A f \in {live, named} : f \in DOMAIN files /\ files'[f] = files[f]
    <3>1. ~(live < lane')
      BY <2>e, <2>f
    <3> QED
      BY <2>d, <2>g, <3>1
  <2>j. \A f \in {live, named} : Reach(f)' = Reach(f) /\ Kept(f)' = Kept(f)
    BY <2>i DEF Reach, Kept
  <2>1. TypeOK'
    <3>1. {live, named, own, lane}' \subseteq DOMAIN files'
      BY <2>a, <2>d, <2>e, <2>h
    <3> QED
      BY <2>a, <2>b, <2>c, <2>h, <3>1 DEF TypeOK
  <2>2. LogsInOrder'
    <3>1. \A f \in DOMAIN files' : files'[f].synced <= Len(files'[f].recs)
      <4>1. Fresh(0).synced <= Len(Fresh(0).recs)
        BY RecordsType DEF Fresh
      <4>2. \A f \in DOMAIN files : files[f].synced <= Len(files[f].recs)
        BY <2>b DEF LogsInOrder
      <4>3. \A f \in DOMAIN files' : files'[f] = Fresh(0) \/ files'[f] = files[f]
        BY <2>g
      <4> QED
        BY <2>h, <4>1, <4>2, <4>3
    <3>2. \A f \in {live, named}' : Reach(f)' <= n'
      BY ZenonT(30), <2>a, <2>b, <2>j DEF LogsInOrder
    <3>3. lane' <= own'
      BY <2>a, <2>e, <2>f
    <3>4. files'[live'] = files[live]
      BY <2>a, <2>i
    <3> QED
      BY <2>a, <2>b, <2>h, <3>1, <3>2, <3>3, <3>4 DEF LogsInOrder, Renamed
  <2>3. JobsInOrder'
    <3>1. \E q \in 0 .. Len(jobs') :
              /\ \A i \in DOMAIN jobs' : jobs'[i].op = "append" <=> q < i
              /\ inflight' = done'.appends + (Len(jobs') - q)
      BY <2>a, <2>b, <2>c, <1>CountDone
    <3>2. lane' = own' \/ \E i \in DOMAIN jobs' : jobs'[i].op = "reopen"
      <4>1. \/ jobs[1].file = own
            \/ \E j \in DOMAIN jobs : 1 < j /\ jobs[j].op = "reopen"
        BY <2>b, <2>c DEF JobsInOrder
      <4>2. \A j \in DOMAIN jobs : j > 1 <=> 1 < j
        BY <2>a, <2>b, <1>JobDone
      <4>3. CASE \E j \in DOMAIN jobs : 1 < j /\ jobs[j].op = "reopen"
        BY <2>a, <2>b, <4>2, <4>3, <1>ReopensDone
      <4> QED
        BY <2>a, <2>e, <4>1, <4>3
    <3>3. \A i \in DOMAIN jobs' : jobs'[i].op = "reopen" =>
                   /\ jobs'[i].file \in 1 .. own'
                   /\ \/ jobs'[i].file = own'
                      \/ \E j \in DOMAIN jobs' : i < j /\ jobs'[j].op = "reopen"
      BY <2>a, <2>b, <1>ReopensDone
    <3>4. hold' \/ pc' # "run" => inflight' = 0
      BY <2>a, <2>b DEF JobsInOrder
    <3> QED
      BY <3>1, <3>2, <3>3, <3>4 DEF JobsInOrder
  <2>4. Chained' /\ ImageComplete'
    BY <2>a, <2>c, <2>i, <1>LaneLogKept
  <2>5. SyncsCover'
    <3>1. \A f \in {live, named} : Kept(f) \in Nat /\ Reach(f) \in Nat
      BY <2>b, <2>d, FileType
    <3>2. \A f \in {live, named} : done.covers <= Kept(f)
      BY <2>b DEF SyncsCover
    <3>3. \A f \in {live, named} : /\ Kept(f)' \in Nat /\ Reach(f)' \in Nat
                                   /\ Kept(f) <= Kept(f)' /\ Reach(f) <= Reach(f)'
                                   /\ done'.covers <= Kept(f)'
      BY <2>a, <2>j, <3>1, <3>2
    <3> QED
      BY <2>a, <2>b, <3>3, <1>SyncsDone
  <2> QED
    BY <2>1, <2>2, <2>3, <2>4, <2>5 DEF LaneInv
\* When an append comes to the front there are only appends, so that the lane
\* is on the log.
<1>AppendFront.
    ASSUME LaneInv, jobs # <<>>, jobs' = Tail(jobs), jobs[1].op = "append"
    PROVE  /\ \A i \in DOMAIN jobs : jobs[i].op = "append"
           /\ inflight = done.appends + Len(jobs)
           /\ ~hold /\ pc = "run" /\ pjob.op # "swap"
           /\ lane = live /\ own = live /\ named = live
  <2> USE <1>AppendFront
  <2>b. TypeOK /\ LogsInOrder /\ JobsInOrder
    BY DEF LaneInv
  <2>1. /\ Len(jobs) \in Nat /\ Len(jobs) > 0 /\ 1 \in DOMAIN jobs
        /\ \A i \in DOMAIN jobs : i \in Nat /\ i >= 1
    BY <2>b, <1>JobDone
  <2>2. PICK p \in 0 .. Len(jobs) :
            /\ \A i \in DOMAIN jobs : jobs[i].op = "append" <=> p < i
            /\ inflight = done.appends + (Len(jobs) - p)
    BY <2>b DEF JobsInOrder
  <2>3. p = 0
    BY <2>1, <2>2
  <2>4. \A i \in DOMAIN jobs : jobs[i].op = "append"
    BY <2>1, <2>2, <2>3
  <2>5. done.appends \in Nat
    BY <2>b, UndrainedType
  <2>6. inflight = done.appends + Len(jobs) /\ inflight # 0
    BY <2>1, <2>2, <2>3, <2>5
  <2>7. ~hold /\ pc = "run"
    BY <2>b, <2>6 DEF JobsInOrder
  <2>8. pjob.op # "swap" /\ own = live /\ named = live
    BY <2>b, <2>7 DEF LogsInOrder, Renamed
  <2>9. lane = own
    BY <2>b, <2>4 DEF JobsInOrder
  <2> QED
    BY <2>4, <2>6, <2>7, <2>8, <2>9
<1>LaneAppendKeeps.
    ASSUME LaneInv, LaneStep, LaneAppend, lane' = lane
    PROVE  LaneInv'
  <2> USE <1>LaneAppendKeeps
  <2>a. /\ jobs # <<>> /\ Head(jobs).op = "append" /\ jobs' = Tail(jobs)
        /\ files' = Written(lane, Head(jobs).recs)
        /\ done' = [done EXCEPT !.appends = @ + 1]
        /\ UNCHANGED <<n, acked, policy, queue, live, named, own, inflight, fsyncing, unsynced,
                       proven, held, want, teeing, tee, hold, pjob, tmp, iters, pc, spent>>
    BY DEF LaneStep, LaneAppend, rewriteVars
  <2>b. TypeOK /\ LogsInOrder /\ JobsInOrder /\ Chained /\ ImageComplete /\ SyncsCover
    BY DEF LaneInv
  <2>c. /\ jobs' \in Seq(Job) /\ jobs[1].op = "append" /\ Head(jobs) = jobs[1]
        /\ 1 \in DOMAIN jobs /\ Len(jobs) \in Nat /\ Len(jobs') = Len(jobs) - 1
        /\ Len(jobs) > 0
        /\ \A i \in DOMAIN jobs' : i \in Nat /\ i >= 1 /\ i + 1 \in DOMAIN jobs
                                  /\ jobs'[i] = jobs[i + 1]
    BY <2>a, <2>b, <1>JobDone
  <2>d. /\ \A i \in DOMAIN jobs : jobs[i].op = "append"
        /\ inflight = done.appends + Len(jobs)
        /\ ~hold /\ pc = "run" /\ pjob.op # "swap"
        /\ lane = live /\ own = live /\ named = live
    BY <2>a, <2>c, <1>AppendFront
  <2>e. jobs[1].recs \in Records
    BY <2>b, <2>c, JobType
  <2>f. /\ live \in DOMAIN files /\ files[live].recs \in Records /\ files[live].img \in Nat
        /\ Len(files[live].recs) \in Nat /\ Len(jobs[1].recs) \in Nat
        /\ Reach(live) \in Nat /\ Kept(live) \in Nat /\ files[live].synced \in Nat
    BY <2>b, <2>e, CounterType, FileType, RecordsType
  <2>g. /\ files' \in Seq(File) /\ Len(files') = Len(files) /\ DOMAIN files' = DOMAIN files
        /\ files'[live].img = files[live].img
        /\ files'[live].synced = files[live].synced
        /\ files'[live].recs = files[live].recs \o jobs[1].recs
        /\ Len(files'[live].recs) = Len(files[live].recs) + Len(jobs[1].recs)
        /\ \A g \in DOMAIN files : g # live => files'[g] = files[g]
    <3>1. files' = Written(live, jobs[1].recs)
      BY <2>a, <2>c, <2>d
    <3> QED
      BY ZenonT(30), <2>b, <2>e, <2>f, <3>1, WrittenType
  <2>h. Reach(live) = files[live].img + Len(files[live].recs)
    BY DEF Reach
  <2>i. Reach(live)' = Reach(live) + Len(jobs[1].recs)
    <3>1. Reach(live)' = files'[live].img + Len(files'[live].recs)
      BY <2>a DEF Reach
    <3>2. PICK x, y, z \in Nat :
              /\ x = files[live].img /\ y = Len(files[live].recs) /\ z = Len(jobs[1].recs)
      BY <2>f
    <3>3. Reach(live)' = files[live].img + (Len(files[live].recs) + Len(jobs[1].recs))
      <4>1. /\ files'[live].img = files[live].img
            /\ Len(files'[live].recs) = Len(files[live].recs) + Len(jobs[1].recs)
        BY <2>g
      <4> QED
        BY <3>1, <4>1
    <3>4. Reach(live)' = x + (y + z) /\ Reach(live) = x + y
      BY <2>h, <3>2, <3>3
    <3>5. Reach(live)' = Reach(live) + z
      BY <3>4
    <3> QED
      BY <3>2, <3>5
  <2>j. Kept(live)' = Kept(live)
    BY ZenonT(30), <2>a, <2>g DEF Kept
  <2>k. Follows(jobs[1].recs, Reach(live))
    <3>1. PICK k \in Nat : Mark(k, 1) /\ Follows(jobs[1].recs, k)
      BY <2>b, <2>c DEF Chained
    <3>2. \A j \in DOMAIN jobs : ~(j < 1)
      BY <2>b, JobsType
    <3>3. k = Reach(live)
      BY <3>1, <3>2 DEF Mark
    <3> QED
      BY <3>1, <3>3
  <2>l. PICK r \in Nat : r = Reach(live)' /\ r = Reach(live) + Len(jobs[1].recs)
    BY <2>f, <2>i
  <2>m. /\ \A y \in Nat : Carries(1, y) => y <= r
        /\ r = Reach(live) \/ Carries(1, r)
    <3>1. /\ \A x \in DOMAIN jobs[1].recs : jobs[1].recs[x] <= r
          /\ jobs[1].recs # <<>> => /\ Len(jobs[1].recs) \in DOMAIN jobs[1].recs
                                    /\ jobs[1].recs[Len(jobs[1].recs)] = r
          /\ jobs[1].recs = <<>> => Len(jobs[1].recs) = 0
      BY <2>e, <2>f, <2>k, <2>l, FollowsEnds
    <3>2. \A y \in Nat : Carries(1, y) => y <= r
      BY <3>1 DEF Carries
    <3>3. CASE jobs[1].recs = <<>>
      BY <2>f, <2>l, <3>1, <3>2, <3>3
    <3>4. CASE jobs[1].recs # <<>>
      BY <2>c, <3>1, <3>2, <3>4 DEF Carries
    <3> QED
      BY <3>3, <3>4
  <2>1. TypeOK'
    <3>1. done' \in [appends : Nat, covers : 0 .. MaxWrites, failed : BOOLEAN]
      <4>1. done \in [appends : Nat, covers : 0 .. MaxWrites, failed : BOOLEAN]
        BY <2>b DEF TypeOK
      <4>2. done.appends + 1 \in Nat
        BY <4>1
      <4> QED
        BY <2>a, <4>1, <4>2
    <3>2. {live, named, own, lane}' \subseteq DOMAIN files'
      BY ZenonT(30), <2>a, <2>b, <2>g DEF TypeOK
    <3> QED
      BY <2>a, <2>b, <2>c, <2>g, <3>1, <3>2 DEF TypeOK
  <2>2. LogsInOrder'
    <3>1. \A f \in DOMAIN files' : files'[f].synced <= Len(files'[f].recs)
      <4>1. \A f \in DOMAIN files : files[f].synced <= Len(files[f].recs)
        BY <2>b DEF LogsInOrder
      <4>2. files'[live].synced <= Len(files'[live].recs)
        <5>1. \A x, y, z \in Nat : x <= y => x <= y + z
          OBVIOUS
        <5>2. files[live].synced <= Len(files[live].recs) + Len(jobs[1].recs)
          BY ZenonT(30), <2>f, <4>1, <5>1
        <5> QED
          BY ZenonT(30), <2>g, <5>2
      <4> QED
        BY ZenonT(30), <2>g, <4>1, <4>2
    <3>2. r <= n
      <4>1. PICK k \in Nat : /\ Mark(k, Len(jobs) + 1) /\ Follows(queue, k)
                             /\ n = k + Len(queue)
        BY <2>b DEF Chained
      <4>2. Len(queue) \in Nat
        BY <2>b, CounterType, RecordsType
      <4>3. k <= n
        BY <4>1, <4>2
      <4>4. 1 < Len(jobs) + 1
        BY <2>c
      <4>5. r <= k
        BY <2>c, <2>m, <4>1, <4>4 DEF Mark
      <4>6. n \in Nat
        BY <2>b, CounterType
      <4> QED
        BY <4>3, <4>5, <4>6
    <3>3. \A f \in {live, named}' : Reach(f)' <= n'
      <4>1. PICK g : g = live'
        OBVIOUS
      <4>2. Reach(g)' <= n'
        BY ZenonT(30), <2>a, <2>l, <3>2, <4>1
      <4> QED
        BY <2>a, <2>d, <4>1, <4>2
    <3> QED
      BY ZenonT(30), <2>a, <2>b, <2>d, <2>g, <3>1, <3>3 DEF LogsInOrder, Renamed
  <2>3. JobsInOrder'
    <3>1. \A i \in DOMAIN jobs' : jobs'[i].op = "append" /\ 0 < i
      BY <2>c, <2>d
    <3>2. done'.appends = done.appends + 1 /\ done.appends \in Nat
      BY <2>a, <2>b DEF TypeOK
    <3>3. 0 \in 0 .. Len(jobs') /\ inflight' = done'.appends + (Len(jobs') - 0)
      BY <2>a, <2>c, <2>d, <3>2
    <3>4. \E q \in 0 .. Len(jobs') :
              /\ \A i \in DOMAIN jobs' : jobs'[i].op = "append" <=> q < i
              /\ inflight' = done'.appends + (Len(jobs') - q)
      BY <3>1, <3>3
    <3> QED
      BY <2>a, <2>d, <3>1, <3>4 DEF JobsInOrder
  <2>4. Chained'
    <3>1. Follows(files'[live'].recs, files'[live'].img)
      <4>1. Follows(files[live].recs, files[live].img)
        BY <2>b DEF Chained
      <4>2. Follows(files[live].recs \o jobs[1].recs, files[live].img)
        BY ZenonT(30), <2>e, <2>f, <2>h, <2>k, <4>1, FollowsOn
      <4> QED
        BY ZenonT(30), <2>a, <2>g, <4>2
    <3>2. Reach(live)' \in Nat /\ Reach(live) <= Reach(live)'
      BY SMTT(30), <2>f, <2>i
    <3> QED
      BY <2>a, <2>b, <2>l, <2>m, <3>1, <3>2, <1>ChainDone
  <2>5. ImageComplete'
    BY <2>a, <2>b, <2>d, ImageFrame
  <2>6. SyncsCover'
    <3>1. /\ Kept(live)' \in Nat /\ Reach(live)' \in Nat
          /\ Kept(live) <= Kept(live)' /\ Reach(live) <= Reach(live)'
          /\ done'.covers <= Kept(live)'
      <4>1. done'.covers = done.covers /\ done.covers <= Kept(live)
        BY <2>a, <2>b DEF SyncsCover, TypeOK
      <4> QED
        BY <2>f, <2>i, <2>j, <4>1
    <3>2. PICK g : g = live
      OBVIOUS
    <3>3. /\ Kept(g)' \in Nat /\ Reach(g)' \in Nat
          /\ Kept(g) <= Kept(g)' /\ Reach(g) <= Reach(g)'
          /\ done'.covers <= Kept(g)'
      BY <2>a, <3>1, <3>2
    <3>4. \A f \in {live, named} : f = g
      BY <2>d, <3>2
    <3> QED
      BY <2>a, <2>b, <3>3, <3>4, <1>SyncsDone
  <2> QED
    BY <2>1, <2>2, <2>3, <2>4, <2>5, <2>6 DEF LaneInv
<1> QED
  BY <1>LaneAppendKeeps, <1>LaneSyncKeeps, <1>LaneReopenKeeps DEF LaneStep

-----------------------------------------------------------------------------
\* A job is handed to the lane.

\* Releasing replies keeps the types, and acknowledges no more than what was reached.
LEMMA ReleaseType ==
    ASSUME TypeOK, NEW w \in 0 .. MaxWrites, acked <= w, Release(w)
    PROVE  /\ held' \in [Conn -> 0 .. MaxWrites]
           /\ acked' \in 0 .. MaxWrites /\ acked <= acked' /\ acked' <= w
<1>1. /\ held \in [Conn -> 0 .. MaxWrites] /\ acked \in 0 .. MaxWrites
      /\ MaxWrites \in Nat
  BY LaneAssumption DEF TypeOK
<1>2. held' \in [Conn -> 0 .. MaxWrites]
  BY <1>1 DEF Release
<1>3. acked' \in {acked} \cup {held[c] : c \in {c \in Conn : held[c] # 0 /\ held[c] <= w}}
  BY DEF Release, Largest
<1>4. acked <= acked'
  BY DEF Release, Largest
<1> QED
  BY <1>1, <1>2, <1>3, <1>4

\* The channel with one more job.
LEMMA JobAdded ==
    ASSUME TypeOK, NEW x \in Job
    PROVE  /\ Append(jobs, x) \in Seq(Job)
           /\ Len(Append(jobs, x)) = Len(jobs) + 1
           /\ DOMAIN Append(jobs, x) = 1 .. Len(jobs) + 1
           /\ \A i \in DOMAIN jobs :
                 i \in DOMAIN Append(jobs, x) /\ Append(jobs, x)[i] = jobs[i]
           /\ Append(jobs, x)[Len(jobs) + 1] = x
<1>1. jobs \in Seq(Job) /\ Len(jobs) \in Nat /\ DOMAIN jobs = 1 .. Len(jobs)
  BY JobsType
<1> QED
  BY <1>1

\* The appends before a job stay the appends before it.
LEMMA MarkAdded ==
    ASSUME TypeOK, NEW x \in Job, jobs' = Append(jobs, x), Reach(live)' = Reach(live),
           NEW k \in Nat, NEW i \in 1 .. Len(jobs) + 1, Mark(k, i)
    PROVE  Mark(k, i)'
<1>1. /\ Len(jobs) \in Nat /\ DOMAIN jobs = 1 .. Len(jobs)
      /\ DOMAIN jobs' = 1 .. Len(jobs) + 1
      /\ \A j \in DOMAIN jobs : jobs'[j] = jobs[j]
  BY JobAdded, JobsType
<1>2. \A j \in DOMAIN jobs : \A y : Carries(j, y)' <=> Carries(j, y)
  BY <1>1 DEF Carries
<1>3. \A j \in DOMAIN jobs' : j < i => j \in DOMAIN jobs
  BY <1>1
<1>4. /\ Reach(live) <= k
      /\ \A j \in DOMAIN jobs : \A y \in Nat : j < i /\ Carries(j, y) => y <= k
      /\ k = Reach(live) \/ \E j \in DOMAIN jobs : j < i /\ Carries(j, k)
  BY DEF Mark
<1>5. \A j \in DOMAIN jobs' : \A y \in Nat : j < i /\ Carries(j, y)' => y <= k
  BY <1>2, <1>3, <1>4
<1>6. k = Reach(live) \/ \E j \in DOMAIN jobs' : j < i /\ Carries(j, k)'
  BY <1>1, <1>2, <1>4
<1> QED
  BY <1>4, <1>5, <1>6 DEF Mark

\* A job other than an append moves nothing.
LEMMA MarkPassed ==
    ASSUME TypeOK, NEW x \in Job, x.op # "append", jobs' = Append(jobs, x),
           Reach(live)' = Reach(live), NEW k \in Nat, Mark(k, Len(jobs) + 1)
    PROVE  Mark(k, Len(jobs) + 1)'
<1>1. /\ Len(jobs) \in Nat /\ DOMAIN jobs = 1 .. Len(jobs)
      /\ Len(jobs') = Len(jobs) + 1
      /\ DOMAIN jobs' = 1 .. Len(jobs) + 1
      /\ jobs'[Len(jobs) + 1] = x
  BY ZenonT(30), JobAdded, JobsType
<1>2. PICK e \in 1 .. Len(jobs) + 1 : e = Len(jobs) + 1
  BY <1>1
<1>3. Mark(k, e)'
  BY <1>2, MarkAdded
<1>4. /\ Reach(live)' <= k
      /\ \A j \in DOMAIN jobs' : \A y \in Nat : j < e /\ Carries(j, y)' => y <= k
      /\ k = Reach(live)' \/ \E j \in DOMAIN jobs' : j < e /\ Carries(j, k)'
  BY <1>3 DEF Mark
<1>5. \A y : ~Carries(e, y)'
  BY <1>1, <1>2 DEF Carries
<1>6. \A j \in DOMAIN jobs' : (j < e \/ j = e) /\ j < Len(jobs') + 1
  BY <1>1, <1>2
<1>7. \A j \in DOMAIN jobs' : \A y \in Nat : Carries(j, y)' => y <= k
  BY <1>4, <1>5, <1>6
<1> QED
  BY <1>4, <1>6, <1>7 DEF Mark

\* A job other than an append leaves Chained as it is.
LEMMA ChainPassed ==
    ASSUME TypeOK, Chained, NEW x \in Job, x.op # "append", jobs' = Append(jobs, x),
           UNCHANGED <<queue, n>>,
           files'[live'].recs = files[live].recs, files'[live'].img = files[live].img
    PROVE  Chained'
<1>1. Reach(live)' = Reach(live)
  BY DEF Reach
<1>2. /\ Len(jobs) \in Nat /\ DOMAIN jobs = 1 .. Len(jobs)
      /\ DOMAIN jobs' = 1 .. Len(jobs) + 1
      /\ \A j \in DOMAIN jobs : jobs'[j] = jobs[j]
      /\ jobs'[Len(jobs) + 1] = x
  BY JobAdded, JobsType
<1>3. \A i \in DOMAIN jobs' : jobs'[i].op = "append" =>
          \E k \in Nat : Mark(k, i)' /\ Follows(jobs'[i].recs, k)
  <2> SUFFICES ASSUME NEW i \in DOMAIN jobs', jobs'[i].op = "append"
               PROVE  \E k \in Nat : Mark(k, i)' /\ Follows(jobs'[i].recs, k)
    BY ZenonT(30)
  <2>1. i \in DOMAIN jobs /\ i \in 1 .. Len(jobs) + 1 /\ jobs'[i] = jobs[i]
    BY <1>2
  <2>2. PICK k \in Nat : Mark(k, i) /\ Follows(jobs[i].recs, k)
    BY <2>1 DEF Chained
  <2>3. Mark(k, i)'
    BY <1>1, <2>1, <2>2, MarkAdded
  <2> QED
    BY <2>1, <2>2, <2>3
<1>4. PICK k \in Nat : Mark(k, Len(jobs) + 1) /\ Follows(queue, k) /\ n = k + Len(queue)
  BY DEF Chained
<1>5. Mark(k, Len(jobs) + 1)'
  BY <1>1, <1>4, MarkPassed
<1>6. Follows(files[live].recs, files[live].img)'
  BY DEF Chained, Follows
<1> QED
  BY <1>3, <1>4, <1>5, <1>6 DEF Chained

-----------------------------------------------------------------------------
\* A write.

\* A client's write, queued, teed and under "always" held, keeps the invariant.
LEMMA WriteKeeps ==
    ASSUME LaneInv, NEW c \in Conn, Write(c)
    PROVE  LaneInv'
<1>FollowsOne.
    ASSUME NEW k \in Nat, NEW r \in Records, Follows(r, k)
    PROVE  Follows(Append(r, k + Len(r) + 1), k)
  BY <1>FollowsOne DEF Follows, Records
<1>a. /\ pc = "run" /\ n < MaxWrites
      /\ pjob.op \in {"swap", "save"} => Len(tee) < TeeCap
      /\ n' = n + 1
      /\ queue' = Append(queue, n + 1)
      /\ tee' = IF teeing THEN Append(tee, n + 1) ELSE tee
      /\ held' = IF policy = "always" THEN [held EXCEPT ![c] = n + 1] ELSE held
      /\ UNCHANGED <<acked, policy, files, live, named, own, jobs, done, inflight, fsyncing,
                     unsynced, lane, proven, want, teeing, hold, pjob, tmp, iters, pc,
                     spent>>
  BY DEF Write, diskVars, laneVars
<1>b. TypeOK /\ LogsInOrder /\ JobsInOrder /\ Chained /\ ImageComplete /\ SyncsCover
  BY DEF LaneInv
<1>c. /\ n \in Nat /\ MaxWrites \in Nat /\ TeeCap \in Nat /\ n + 1 \in 1 .. MaxWrites
      /\ queue \in Records /\ tee \in Records
  BY <1>a, <1>b, Bounds, CounterType
<1>d. /\ queue' \in Records /\ Len(queue') = Len(queue) + 1
      /\ tee' \in Records /\ Len(tee') = IF teeing THEN Len(tee) + 1 ELSE Len(tee)
      /\ Len(tee) \in Nat /\ Len(queue) \in Nat
  BY <1>a, <1>c, RecordsType
<1>1. TypeOK'
  <2>1. held' \in [Conn -> 0 .. MaxWrites]
    <3>1. n + 1 \in 0 .. MaxWrites /\ held \in [Conn -> 0 .. MaxWrites]
      BY SMTT(30), <1>b, <1>c DEF TypeOK
    <3> QED
      BY <1>a, <3>1
  <2>2. {n, acked, proven}' \subseteq 0 .. MaxWrites
    BY <1>a, <1>b, <1>c DEF TypeOK
  <2> QED
    BY ZenonT(30), <1>a, <1>b, <1>d, <2>1, <2>2 DEF TypeOK
<1>2. LogsInOrder'
  <2>1. \A f \in {live, named} : Reach(f) \in Nat /\ Reach(f)' = Reach(f)
    BY ZenonT(30), <1>a, <1>b, FileType DEF TypeOK, Reach
  <2>2. \A f \in {live, named} : Reach(f)' <= n'
    BY <1>a, <1>b, <1>c, <2>1 DEF LogsInOrder
  <2> QED
    BY <1>a, <1>b, <2>2 DEF LogsInOrder, Renamed
<1>3. JobsInOrder'
  BY <1>a, <1>b, JobsFrame
<1>4. Chained'
  <2>1. PICK k \in Nat : /\ Mark(k, Len(jobs) + 1) /\ Follows(queue, k)
                         /\ n = k + Len(queue)
    BY <1>b DEF Chained
  <2>2. Follows(queue', k) /\ n' = k + Len(queue')
    BY <1>a, <1>c, <1>d, <2>1, <1>FollowsOne
  <2>3. Reach(live)' = Reach(live)
    BY ZenonT(30), <1>a DEF Reach
  <2>4. \A i, m : Mark(m, i) => Mark(m, i)'
    BY <1>a, <2>3, MarkFrame
  <2>5. Mark(k, Len(jobs) + 1)'
    BY <1>a, <2>1, <2>4
  <2>6. Follows(files[live].recs, files[live].img)'
    BY <1>a, <1>b DEF Chained, Follows
  <2>7. \A i \in DOMAIN jobs' : jobs'[i].op = "append" =>
            \E m \in Nat : Mark(m, i)' /\ Follows(jobs'[i].recs, m)
    BY <1>a, <1>b, <2>4 DEF Chained
  <2> QED
    BY <2>2, <2>5, <2>6, <2>7 DEF Chained
<1>5. ImageComplete'
  <2>1. ASSUME Restructuring, teeing, pjob.at # "failed"
        PROVE  Built(n - Len(tee))' /\ Follows(tee', n' - Len(tee'))
    <3>1. Built(n - Len(tee)) /\ Follows(tee, n - Len(tee))
      BY <1>b, <2>1 DEF ImageComplete
    <3>2. n' - Len(tee') = n - Len(tee)
      BY <1>a, <1>c, <1>d, <2>1
    <3>3. n - Len(tee) \in Nat
      <4>1. /\ tmp.img \in Nat /\ Len(tmp.recs) \in Nat /\ Len(ToDo) \in Nat
        BY <1>b, RecordsType DEF TypeOK, ToDo
      <4> QED
        BY <3>1, <4>1 DEF Built
    <3>4. tee' = Append(tee, (n - Len(tee)) + Len(tee) + 1)
      BY <1>a, <1>c, <1>d, <2>1
    <3>5. Follows(tee', n - Len(tee))
      BY <1>c, <3>1, <3>3, <3>4, <1>FollowsOne
    <3>6. Built(n - Len(tee))'
      BY ZenonT(30), <1>a, <3>1, <3>2 DEF Built, ToDo, Follows
    <3> QED
      BY <3>2, <3>5, <3>6
  <2>2. pjob.op \in {"swap", "save"} => Len(tee') <= TeeCap
    BY <1>a, <1>c, <1>d
  <2>3. Reach(live)' = Reach(live)
    BY <1>a DEF Reach
  <2>4. pjob'.op = "swap" /\ pjob'.at = "run" => Built(Reach(live))'
    BY ZenonT(30), <1>a, <1>b, <2>3 DEF ImageComplete, Built, ToDo, Follows
  <2> QED
    BY <1>a, <1>b, <2>1, <2>2, <2>4 DEF ImageComplete, Restructuring
<1>6. SyncsCover'
  BY <1>a, <1>b, SyncsFrame
<1> QED
  BY <1>1, <1>2, <1>3, <1>4, <1>5, <1>6 DEF LaneInv
=============================================================================
