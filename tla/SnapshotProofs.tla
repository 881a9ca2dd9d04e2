--------------------------- MODULE SnapshotProofs ---------------------------
(***************************************************************************)
(* SnapshotCommit's inductive invariant, and what follows from it, for     *)
(* every value of the constants: any number of writes, saves, rewrites,    *)
(* crashes and failed steps, and any of the thresholds.                    *)
(*                                                                         *)
(* SnapInv says what the files settle into at every step of a commit       *)
(* (Continues), and what is needed to see that the next rename keeps it:   *)
(* ids are not reused (IdsAreFresh), what is kept aside is what the log    *)
(* continues (KeptIsSettled), which files a commit has moved (CommitShape) *)
(* and that the tee, the worker's generation and the image together hold   *)
(* the writes since the freeze (TeeComplete).                              *)
(***************************************************************************)
EXTENDS SnapshotCommit, TLAPS

\* What the theorems assume of the shard: it does not start from an empty
\* directory, its saves keep their tee, and neither the reopening of a swapped
\* log nor the undoing of a placed snapshot fails.
Sound ==
    /\ Starts \subseteq {"legacy", "image", "paired"}
    /\ ~SavesOutrun
    /\ Faults \subseteq {"keep", "place", "base", "tail", "swap", "unplaced"}

\* The values that stand for nothing have the types of what they stand in
\* for.
LEMMA Placeholders ==
    /\ NoImage \in Image /\ Missing \in File
    /\ NoHandoff.iters \in Int
BY DEF NoImage, Image, Missing, File, NoHandoff, Legacy

Counters == [saves : Nat, rewrites : Nat, crashes : Nat, faults : Nat]

\* A bound's counter goes up by one, and only snapshots use up ids.
LEMMA Spending ==
    ASSUME NEW what \in {"saves", "rewrites", "crashes", "faults"}, NEW limit,
           spent \in Counters, Spend(what, limit)
    PROVE  /\ spent' \in Counters
           /\ spent'.saves = IF what = "saves" THEN spent.saves + 1 ELSE spent.saves
<1>1. CASE what = "saves"  BY <1>1 DEF Spend, Counters
<1>2. CASE what = "rewrites"  BY <1>2 DEF Spend, Counters
<1>3. CASE what = "crashes"  BY <1>3 DEF Spend, Counters
<1>4. CASE what = "faults"  BY <1>4 DEF Spend, Counters
<1> QED BY <1>1, <1>2, <1>3, <1>4

\* What a finished job leaves behind has the right types.
LEMMA JobOverTypes ==
    ASSUME JobOver
    PROVE  /\ teeing' \in BOOLEAN /\ kept' \in BOOLEAN
           /\ tee' \in SUBSET Nat /\ gen' \in SUBSET Nat
           /\ job' \in {"none", "save", "dump", "append"}
           /\ handoff'.iters \in Int
           /\ tmp' \in Image /\ view' \in File
           /\ pc' \in Steps \cup Down
BY ZenonT(30), Placeholders DEF JobOver, Steps

\* The files settle into the same pair as long as none of them changes.
LEMMA SameFiles ==
    ASSUME UNCHANGED <<n, acked, snapshot, prev, log>>
    PROVE  /\ SettledSnapshot' = SettledSnapshot /\ Committed' = Committed
           /\ RestoredBase' = RestoredBase /\ Refused' = Refused
BY DEF SettledSnapshot, Committed, RestoredBase, Refused

\* A restart restores exactly the prefix the files continue to
\* (settle_snapshot, then the replay).
LEMMA LoadRestores ==
    ASSUME TypeOK, NEW m \in 0 .. n, Continues(m), Load
    PROVE  /\ n' = m
           /\ log' = [log EXCEPT !.synced = m]
           /\ RestoredBase' = RestoredBase /\ Refused' = Refused
<1>1. PICK j \in 0 .. n :
         1 .. j = (1 .. RestoredBase) \cup log.recs /\ n' = j /\ log' = [log EXCEPT !.synced = j]
  BY DEF Load
<1>2. /\ RestoredBase \in Nat /\ m \in Nat /\ RestoredBase <= m
      /\ log.recs = (RestoredBase + 1) .. m
  BY DEF RestoredBase, SettledSnapshot, Continues, TypeOK, File
<1>3. (1 .. RestoredBase) \cup ((RestoredBase + 1) .. m) = 1 .. m
  BY <1>2
<1>4. 1 .. j = 1 .. m
  BY <1>1, <1>2, <1>3
<1>5. j = m
  BY <1>2, <1>4
<1> QED
  BY <1>1, <1>5 DEF Load, RestoredBase, Refused, SettledSnapshot, Committed, TypeOK

\* A write extends the live log, and the tee, by the next record.
LEMMA WriteKeeps ==
    ASSUME Sound, SnapInv, Write
    PROVE  SnapInv'
<1>m. PICK m \in 0 .. n : Continues(m) /\ (pc \in Steps => m = n)
  BY DEF SnapInv
<1>0. TypeOK /\ IdsAreFresh /\ KeptIsSettled /\ CommitShape /\ TeeComplete
  BY DEF SnapInv
<1>1. TypeOK'
  BY <1>0, Placeholders DEF Write, durable, memory, AppendRecord, TypeOK, File,
     Image, Steps, Down
<1>2. \E k \in 0 .. n' : Continues(k)' /\ (pc' \in Steps => k = n')
  <2>1. m = n /\ handle
    BY <1>0, <1>m DEF Write, Steps, CommitShape
  <2>2. RestoredBase' = RestoredBase /\ Refused' = Refused
    BY <2>1, <1>0 DEF Write, AppendRecord, RestoredBase, Refused, SettledSnapshot,
       Committed, TypeOK
  <2>3. RestoredBase \in Nat
    BY <1>0 DEF RestoredBase, SettledSnapshot, TypeOK, File
  <2>4. log'.recs = (RestoredBase + 1) .. (n + 1)
    BY SMTT(30), <2>1, <2>3, <1>0, <1>m DEF Write, AppendRecord, Continues, TypeOK
  <2>5. Continues(n)'
    BY <2>1, <2>2, <2>3, <2>4, <1>0, <1>m DEF Write, Continues, TypeOK
  <2> QED
    BY <2>5, <1>0 DEF Write, TypeOK
<1>3. IdsAreFresh'
  BY <1>0, <1>1 DEF Write, durable, memory, Missing, NoImage, NoHandoff, Legacy,
     StandsAlone, AppendRecord, IdsAreFresh, TypeOK, File, Image, Steps, Down,
     CommitShape
<1>4. KeptIsSettled'
  BY <1>0, <1>1, <1>m DEF Write, durable, memory, Missing, NoImage, NoHandoff,
     Legacy, StandsAlone, AppendRecord, Sound, Continues, Refused, RestoredBase,
     SettledSnapshot, Committed, TypeOK, File, Image, Steps, Down, IdsAreFresh,
     KeptIsSettled, CommitShape
<1>5. CommitShape'
  <2>1. handle
    BY <1>0 DEF Write, CommitShape
  <2>2. RestoredBase' = RestoredBase
    BY <2>1, <1>0 DEF Write, AppendRecord, RestoredBase, SettledSnapshot,
       Committed, TypeOK
  <2>3. log'.synced = log.synced /\ log'.head = log.head
    BY <2>1, <1>0 DEF Write, AppendRecord, TypeOK
  <2> QED
    BY <2>1, <2>2, <2>3, <1>0 DEF Write, CommitShape, TypeOK, Down, Steps
<1>6. TeeComplete'
  <2>1. CASE teeing /\ job = "save"
    <3>1. view.upto \in Nat /\ view.upto <= n /\ tee = (view.upto + 1) .. n
      BY <2>1, <1>0 DEF Write, IdsAreFresh, TeeComplete, TypeOK, File
    <3>2. tee' = (view.upto + 1) .. (n + 1)
      BY SMTT(30), <2>1, <3>1, <1>0 DEF Write, AppendRecord, TypeOK
    <3> QED
      BY <2>1, <3>2, <1>0 DEF Write, TeeComplete, GenerationIsNew, TypeOK
  <2>2. CASE teeing /\ job # "save"
    <3>1. tmp.img \in Nat /\ tmp.img <= n /\ job \in {"dump", "append"}
      BY <2>2, <1>0 DEF TeeComplete, TypeOK, Image
    <3>2. tee' = tee \cup {n + 1}
      BY <2>2 DEF Write, AppendRecord
    <3>3. tmp.recs \cup gen \cup tee = (tmp.img + 1) .. n /\ tee \cap (tmp.recs \cup gen) = {}
      BY <2>2, <3>1, <1>0 DEF TeeComplete
    <3>4. tmp.recs \cup gen \cup tee' = (tmp.img + 1) .. (n + 1) /\ tee' \cap (tmp.recs \cup gen) = {}
      BY <3>1, <3>2, <3>3, <1>0 DEF TypeOK
    <3> QED
      BY <2>2, <3>1, <3>4, <1>0 DEF Write, TeeComplete, GenerationIsNew, TypeOK
  <2>3. CASE ~teeing
    BY <2>3, <1>0 DEF Write, AppendRecord, TeeComplete, GenerationIsNew, TypeOK
  <2> QED
    BY <2>1, <2>2, <2>3
<1> QED
  BY <1>1, <1>2, <1>3, <1>4, <1>5, <1>6 DEF SnapInv

\* A sync promises what the live log holds.
LEMMA SyncKeeps ==
    ASSUME Sound, SnapInv, Sync
    PROVE  SnapInv'
<1>m. PICK m \in 0 .. n : Continues(m) /\ (pc \in Steps => m = n)
  BY DEF SnapInv
<1>0. TypeOK /\ IdsAreFresh /\ KeptIsSettled /\ CommitShape /\ TeeComplete
  BY DEF SnapInv
<1>1. TypeOK'
  BY <1>0, Placeholders DEF Sync, durable, memory, TypeOK, File, Image, Steps, Down
<1>2. \E k \in 0 .. n' : Continues(k)' /\ (pc' \in Steps => k = n')
  BY <1>0, <1>1, <1>m DEF Sync, durable, memory, Missing, NoImage, NoHandoff,
     Legacy, StandsAlone, Continues, Refused, RestoredBase, SettledSnapshot,
     Committed, TypeOK, File, Image, Steps, Down, IdsAreFresh, KeptIsSettled,
     CommitShape, TeeComplete
<1>3. IdsAreFresh'
  BY <1>0, <1>1 DEF Sync, durable, memory, Missing, NoImage, NoHandoff, Legacy,
     StandsAlone, IdsAreFresh, TypeOK, File, Image, Steps, Down, CommitShape
<1>4. KeptIsSettled'
  BY <1>0, <1>1, <1>m DEF Sync, durable, memory, Missing, NoImage, NoHandoff,
     Legacy, StandsAlone, Sound, Continues, Refused, RestoredBase, SettledSnapshot,
     Committed, TypeOK, File, Image, Steps, Down, IdsAreFresh, KeptIsSettled,
     CommitShape
<1>5. CommitShape'
  BY <1>0, <1>1, <1>m DEF Sync, durable, memory, Missing, NoImage, NoHandoff,
     Legacy, StandsAlone, Sound, Continues, Refused, RestoredBase, SettledSnapshot,
     Committed, TypeOK, File, Image, Steps, Down, IdsAreFresh, KeptIsSettled,
     CommitShape
<1>6. TeeComplete'
  BY ZenonT(30), <1>0, <1>1 DEF Sync, durable, memory, Missing, NoImage,
     NoHandoff, Legacy,
     StandsAlone, Sound, TeeComplete, GenerationIsNew, TypeOK, File, Image, Steps,
     Down, IdsAreFresh, CommitShape
<1> QED
  BY <1>1, <1>2, <1>3, <1>4, <1>5, <1>6 DEF SnapInv

\* The tee begins empty at the moment the view is frozen.
LEMMA StartSaveKeeps ==
    ASSUME Sound, SnapInv, StartSave
    PROVE  SnapInv'
<1>m. PICK m \in 0 .. n : Continues(m) /\ (pc \in Steps => m = n)
  BY DEF SnapInv
<1>0. TypeOK /\ IdsAreFresh /\ KeptIsSettled /\ CommitShape /\ TeeComplete
  BY DEF SnapInv
<1>f. UNCHANGED <<n, acked, snapshot, prev, log>>
  BY DEF StartSave, durable
<1>p. pc \in Steps /\ pc' \in Steps
  BY <1>0 DEF StartSave, FreezeForSave, Steps
<1>1. TypeOK'
  BY <1>0, Placeholders DEF StartSave, durable, memory, FreezeForSave, Spend,
     TypeOK, File, Image, Steps, Down
<1>2. \E k \in 0 .. n' : Continues(k)' /\ (pc' \in Steps => k = n')
  BY <1>f, <1>p, <1>m, SameFiles DEF Continues
<1>3. IdsAreFresh'
  BY <1>0, <1>1 DEF StartSave, durable, memory, Missing, NoImage, NoHandoff,
     Legacy, StandsAlone, FreezeForSave, Spend, IdsAreFresh, TypeOK, File, Image,
     Steps, Down, CommitShape
<1>4. KeptIsSettled'
  BY <1>0, <1>f, <1>p, SameFiles DEF StartSave, FreezeForSave, KeptIsSettled,
     CommitShape, Steps
<1>5. CommitShape'
  BY <1>0, <1>f, <1>p, SameFiles DEF StartSave, FreezeForSave, CommitShape, Steps,
     Down
<1>6. TeeComplete'
  BY <1>0, <1>1 DEF StartSave, durable, memory, Missing, NoImage, NoHandoff,
     Legacy, StandsAlone, FreezeForSave, Spend, Sound, TeeComplete, GenerationIsNew,
     TypeOK, File, Image, Steps, Down, IdsAreFresh, CommitShape
<1> QED
  BY <1>1, <1>2, <1>3, <1>4, <1>5, <1>6 DEF SnapInv

\* Giving up a save drops the tee and touches no file.
LEMMA SaveFailsKeeps ==
    ASSUME Sound, SnapInv, SaveFails
    PROVE  SnapInv'
<1>m. PICK m \in 0 .. n : Continues(m) /\ (pc \in Steps => m = n)
  BY DEF SnapInv
<1>0. TypeOK /\ IdsAreFresh /\ KeptIsSettled /\ CommitShape /\ TeeComplete
  BY DEF SnapInv
<1>f. UNCHANGED <<n, acked, snapshot, prev, log>>
  BY DEF SaveFails, durable
<1>p. pc \in Steps /\ pc' \in Steps
  BY <1>0 DEF SaveFails, JobOver, Steps
<1>1. TypeOK'
  <2>1. spent' \in Counters
    BY SMTT(30), <1>0, Spending DEF SaveFails, TypeOK, Counters
  <2> QED
    BY <1>0, <2>1, JobOverTypes DEF SaveFails, durable, TypeOK, Counters
<1>2. \E k \in 0 .. n' : Continues(k)' /\ (pc' \in Steps => k = n')
  BY <1>f, <1>p, <1>m, SameFiles DEF Continues
<1>3. IdsAreFresh'
  BY <1>0, <1>1 DEF SaveFails, durable, memory, Missing, NoImage, NoHandoff,
     Legacy, StandsAlone, JobOver, Spend, IdsAreFresh, TypeOK, File, Image, Steps,
     Down, CommitShape
<1>4. KeptIsSettled'
  BY <1>0, <1>f, <1>p, SameFiles DEF SaveFails, JobOver, KeptIsSettled,
     CommitShape, Steps
<1>5. CommitShape'
  BY SMTT(30), <1>0, <1>f, <1>p, SameFiles DEF SaveFails, JobOver, CommitShape,
     Steps, Down
<1>6. TeeComplete'
  BY <1>0, <1>1 DEF SaveFails, durable, memory, Missing, NoImage, NoHandoff,
     Legacy, StandsAlone, JobOver, Spend, Sound, TeeComplete, GenerationIsNew,
     TypeOK, File, Image, Steps, Down, IdsAreFresh, CommitShape
<1> QED
  BY <1>1, <1>2, <1>3, <1>4, <1>5, <1>6 DEF SnapInv

\* The worker's answer starts the commit.
LEMMA SaveDoneKeeps ==
    ASSUME Sound, SnapInv, SaveDone
    PROVE  SnapInv'
<1>m. PICK m \in 0 .. n : Continues(m) /\ (pc \in Steps => m = n)
  BY DEF SnapInv
<1>0. TypeOK /\ IdsAreFresh /\ KeptIsSettled /\ CommitShape /\ TeeComplete
  BY DEF SnapInv
<1>f. UNCHANGED <<n, acked, snapshot, prev, log>>
  BY DEF SaveDone, durable
<1>p. pc \in Steps /\ pc' \in Steps
  BY <1>0 DEF SaveDone, Steps
<1>1. TypeOK'
  BY <1>0, Placeholders DEF SaveDone, durable, memory, TypeOK, File, Image, Steps,
     Down
<1>2. \E k \in 0 .. n' : Continues(k)' /\ (pc' \in Steps => k = n')
  BY SMTT(30), <1>f, <1>p, <1>m, SameFiles DEF Continues
<1>3. IdsAreFresh'
  BY <1>0, <1>1 DEF SaveDone, durable, memory, Missing, NoImage, NoHandoff,
     Legacy, StandsAlone, IdsAreFresh, TypeOK, File, Image, Steps, Down, CommitShape
<1>4. KeptIsSettled'
  BY SMTT(30), <1>0, <1>f, <1>p, SameFiles DEF SaveDone, memory, KeptIsSettled,
     CommitShape,
     Steps
<1>5. CommitShape'
  BY <1>0, <1>f, <1>p, SameFiles DEF SaveDone, memory, CommitShape, Steps, Down
<1>6. TeeComplete'
  BY ZenonT(30), <1>0, <1>1 DEF SaveDone, durable, memory, Missing, NoImage,
     NoHandoff,
     Legacy, StandsAlone, Sound, TeeComplete, GenerationIsNew, TypeOK, File, Image,
     Steps, Down, IdsAreFresh, CommitShape
<1> QED
  BY <1>1, <1>2, <1>3, <1>4, <1>5, <1>6 DEF SnapInv

\* Setting the snapshot aside does not change what settles.
LEMMA KeepKeeps ==
    ASSUME Sound, SnapInv, Keep
    PROVE  SnapInv'
<1>m. PICK m \in 0 .. n : Continues(m) /\ (pc \in Steps => m = n)
  BY DEF SnapInv
<1>0. TypeOK /\ IdsAreFresh /\ KeptIsSettled /\ CommitShape /\ TeeComplete
  BY DEF SnapInv
<1>1. TypeOK'
  BY <1>0, Placeholders DEF Keep, durable, memory, TypeOK, File, Image, Steps, Down
<1>2. \E k \in 0 .. n' : Continues(k)' /\ (pc' \in Steps => k = n')
  <2>1. m = n
    BY <1>m DEF Keep, Steps
  <2>2. log.head # StandsAlone => SettledSnapshot' = SettledSnapshot
    BY <1>0 DEF Keep, SettledSnapshot, Committed, KeptIsSettled, Missing,
       IdsAreFresh, TypeOK, StandsAlone, Legacy
  <2>3. RestoredBase' = RestoredBase /\ ~Refused'
    BY SMTT(30), <2>2, <1>m DEF Keep, RestoredBase, Refused, Continues, StandsAlone
  <2> QED
    BY <2>1, <2>3, <1>m, <1>0 DEF Keep, Continues, TypeOK
<1>3. IdsAreFresh'
  BY SMTT(30), <1>0, <1>1 DEF Keep, durable, memory, Missing, NoImage, NoHandoff,
     Legacy,
     StandsAlone, IdsAreFresh, TypeOK, File, Image, Steps, Down, CommitShape
<1>4. KeptIsSettled'
  BY ZenonT(30), <1>0, <1>1, <1>m DEF Keep, durable, memory, Missing, NoImage,
     NoHandoff,
     Legacy, StandsAlone, Sound, Continues, Refused, RestoredBase, SettledSnapshot,
     Committed, TypeOK, File, Image, Steps, Down, IdsAreFresh, KeptIsSettled,
     CommitShape
<1>5. CommitShape'
  BY ZenonT(30), <1>0, <1>1, <1>m DEF Keep, durable, memory, Missing, NoImage,
     NoHandoff,
     Legacy, StandsAlone, Sound, Continues, Refused, RestoredBase, SettledSnapshot,
     Committed, TypeOK, File, Image, Steps, Down, IdsAreFresh, KeptIsSettled,
     CommitShape
<1>6. TeeComplete'
  BY ZenonT(30), <1>0, <1>1 DEF Keep, durable, memory, Missing, NoImage,
     NoHandoff, Legacy,
     StandsAlone, Sound, TeeComplete, GenerationIsNew, TypeOK, File, Image, Steps,
     Down, IdsAreFresh, CommitShape
<1> QED
  BY <1>1, <1>2, <1>3, <1>4, <1>5, <1>6 DEF SnapInv

\* While the log does not name the new snapshot, the kept one settles; a
\* first snapshot needs a log that stands alone.
LEMMA PlaceKeeps ==
    ASSUME Sound, SnapInv, Place
    PROVE  SnapInv'
<1>m. PICK m \in 0 .. n : Continues(m) /\ (pc \in Steps => m = n)
  BY DEF SnapInv
<1>0. TypeOK /\ IdsAreFresh /\ KeptIsSettled /\ CommitShape /\ TeeComplete
  BY DEF SnapInv
<1>a. snapshot = Missing /\ job = "save" /\ m = n
  BY <1>0, <1>m DEF Place, CommitShape, Steps
<1>b. prev = Missing => log.head = StandsAlone
  BY SMTT(30), <1>a, <1>0, <1>m DEF Continues, Refused, SettledSnapshot, Committed,
     KeptIsSettled,
     IdsAreFresh, Missing, Legacy, StandsAlone, TypeOK
<1>c. log.head # StandsAlone => SettledSnapshot' = SettledSnapshot
  BY <1>a, <1>b, <1>0 DEF Place, SettledSnapshot, Committed, IdsAreFresh, Missing,
     TypeOK, File
<1>d. RestoredBase' = RestoredBase /\ (Refused' => Refused)
  BY <1>c DEF Place, RestoredBase, Refused, StandsAlone
<1>1. TypeOK'
  BY <1>0, Placeholders DEF Place, durable, memory, TypeOK, File, Image, Steps, Down
<1>2. \E k \in 0 .. n' : Continues(k)' /\ (pc' \in Steps => k = n')
  BY SMTT(30), <1>a, <1>d, <1>m, <1>0 DEF Place, memory, Continues, TypeOK
<1>3. IdsAreFresh'
  BY <1>0, <1>1 DEF Place, durable, memory, Missing, NoImage, NoHandoff, Legacy,
     StandsAlone, IdsAreFresh, TypeOK, File, Image, Steps, Down, CommitShape
<1>4. KeptIsSettled'
  BY SMTT(30), <1>0, <1>1, <1>m DEF Place, durable, memory, Missing, NoImage,
     NoHandoff,
     Legacy, StandsAlone, Sound, Continues, Refused, RestoredBase, SettledSnapshot,
     Committed, TypeOK, File, Image, Steps, Down, IdsAreFresh, KeptIsSettled,
     CommitShape
<1>5. CommitShape'
  BY SMTT(30), <1>a, <1>b, <1>d, <1>0 DEF Place, CommitShape, Steps, Down, memory
<1>6. TeeComplete'
  BY SMTT(30), <1>0, <1>1 DEF Place, durable, memory, Missing, NoImage,
     NoHandoff, Legacy,
     StandsAlone, Sound, TeeComplete, GenerationIsNew, TypeOK, File, Image, Steps,
     Down, IdsAreFresh, CommitShape
<1> QED
  BY <1>1, <1>2, <1>3, <1>4, <1>5, <1>6 DEF SnapInv

\* The reset log names the snapshot, and the tee holds the writes since.
LEMMA WriteBaseKeeps ==
    ASSUME Sound, SnapInv, WriteBase
    PROVE  SnapInv'
<1>m. PICK m \in 0 .. n : Continues(m) /\ (pc \in Steps => m = n)
  BY DEF SnapInv
<1>0. TypeOK /\ IdsAreFresh /\ KeptIsSettled /\ CommitShape /\ TeeComplete
  BY DEF SnapInv
<1>f. UNCHANGED <<n, acked, snapshot, prev, log>>
  BY DEF WriteBase, durable
<1>p. pc \in Steps /\ pc' \in Steps
  BY <1>0 DEF WriteBase, Steps
<1>1. TypeOK'
  BY ZenonT(30), <1>0, Placeholders DEF WriteBase, durable, memory, ResetLog,
     TypeOK, File,
     Image, Steps, Down
<1>2. \E k \in 0 .. n' : Continues(k)' /\ (pc' \in Steps => k = n')
  BY SMTT(30), <1>f, <1>p, <1>m, SameFiles DEF Continues
<1>3. IdsAreFresh'
  BY <1>0, <1>1 DEF WriteBase, durable, memory, Missing, NoImage, NoHandoff,
     Legacy, StandsAlone, ResetLog, IdsAreFresh, TypeOK, File, Image, Steps, Down,
     CommitShape
<1>4. KeptIsSettled'
  BY SMTT(30), <1>0, <1>f, <1>p, SameFiles DEF WriteBase, KeptIsSettled,
     CommitShape, Steps
<1>5. CommitShape'
  BY SMTT(30), <1>0, <1>f, <1>p, SameFiles DEF WriteBase, CommitShape, Steps, Down
<1>6. TeeComplete'
  BY <1>0, <1>1 DEF WriteBase, durable, memory, Missing, NoImage, NoHandoff,
     Legacy, StandsAlone, ResetLog, Sound, TeeComplete, GenerationIsNew, TypeOK,
     File, Image, Steps, Down, IdsAreFresh, CommitShape
<1> QED
  BY <1>1, <1>2, <1>3, <1>4, <1>5, <1>6 DEF SnapInv

\* Once the log names the new snapshot the kept one is not needed.
LEMMA DropPrevKeeps ==
    ASSUME Sound, SnapInv, DropPrev
    PROVE  SnapInv'
<1>m. PICK m \in 0 .. n : Continues(m) /\ (pc \in Steps => m = n)
  BY DEF SnapInv
<1>0. TypeOK /\ IdsAreFresh /\ KeptIsSettled /\ CommitShape /\ TeeComplete
  BY DEF SnapInv
<1>1. TypeOK'
  BY SMTT(30), <1>0, JobOverTypes, Placeholders DEF DropPrev, durable, TypeOK
<1>2. \E k \in 0 .. n' : Continues(k)' /\ (pc' \in Steps => k = n')
  BY ZenonT(30), <1>0, <1>1, <1>m DEF DropPrev, durable, memory, Missing,
     NoImage, NoHandoff,
     Legacy, StandsAlone, JobOver, Continues, Refused, RestoredBase,
     SettledSnapshot,
     Committed, TypeOK, File, Image, Steps, Down, IdsAreFresh, KeptIsSettled,
     CommitShape, TeeComplete
<1>3. IdsAreFresh'
  BY SMTT(30), <1>0, <1>1 DEF DropPrev, durable, memory, Missing, NoImage,
     NoHandoff,
     Legacy, StandsAlone, JobOver, IdsAreFresh, TypeOK, File, Image, Steps, Down,
     CommitShape
<1>4. KeptIsSettled'
  BY SMTT(30), <1>0, <1>1, <1>m DEF DropPrev, durable, memory, Missing, NoImage,
     NoHandoff,
     Legacy, StandsAlone, JobOver, Sound, Continues, Refused, RestoredBase,
     SettledSnapshot, Committed, TypeOK, File, Image, Steps, Down, IdsAreFresh,
     KeptIsSettled, CommitShape
<1>5. CommitShape'
  BY SMTT(30), <1>0, <1>1, <1>m DEF DropPrev, durable, memory, Missing, NoImage,
     NoHandoff,
     Legacy, StandsAlone, JobOver, Sound, Continues, Refused, RestoredBase,
     SettledSnapshot, Committed, TypeOK, File, Image, Steps, Down, IdsAreFresh,
     KeptIsSettled, CommitShape
<1>6. TeeComplete'
  BY <1>0, <1>1 DEF DropPrev, durable, memory, Missing, NoImage, NoHandoff,
     Legacy, StandsAlone, JobOver, Sound, TeeComplete, GenerationIsNew, TypeOK,
     File,
     Image, Steps, Down, IdsAreFresh, CommitShape
<1> QED
  BY <1>1, <1>2, <1>3, <1>4, <1>5, <1>6 DEF SnapInv

\* A kept snapshot left behind a finished commit settles as committed.
LEMMA DropPrevFailsKeeps ==
    ASSUME Sound, SnapInv, DropPrevFails
    PROVE  SnapInv'
<1>m. PICK m \in 0 .. n : Continues(m) /\ (pc \in Steps => m = n)
  BY DEF SnapInv
<1>0. TypeOK /\ IdsAreFresh /\ KeptIsSettled /\ CommitShape /\ TeeComplete
  BY DEF SnapInv
<1>f. UNCHANGED <<n, acked, snapshot, prev, log>>
  BY DEF DropPrevFails, durable
<1>p. pc \in Steps /\ pc' \in Steps
  BY <1>0 DEF DropPrevFails, JobOver, Steps
<1>1. TypeOK'
  <2>1. spent' \in Counters
    BY SMTT(30), <1>0, Spending DEF DropPrevFails, TypeOK, Counters
  <2> QED
    BY <1>0, <2>1, JobOverTypes DEF DropPrevFails, durable, TypeOK, Counters
<1>2. \E k \in 0 .. n' : Continues(k)' /\ (pc' \in Steps => k = n')
  BY SMTT(30), <1>f, <1>p, <1>m, SameFiles DEF Continues
<1>3. IdsAreFresh'
  BY SMTT(30), <1>0, <1>1 DEF DropPrevFails, durable, memory, Missing, NoImage,
     NoHandoff,
     Legacy, StandsAlone, JobOver, Spend, IdsAreFresh, TypeOK, File, Image, Steps,
     Down, CommitShape
<1>4. KeptIsSettled'
  BY <1>0, <1>f, SameFiles DEF DropPrevFails, JobOver, KeptIsSettled, CommitShape,
     IdsAreFresh,
     Committed
<1>5. CommitShape'
  BY SMTT(30), <1>0, <1>f, <1>p, SameFiles DEF DropPrevFails, JobOver,
     CommitShape, Steps,
     Down
<1>6. TeeComplete'
  BY <1>0, <1>1 DEF DropPrevFails, durable, memory, Missing, NoImage, NoHandoff,
     Legacy, StandsAlone, JobOver, Spend, Sound, TeeComplete, GenerationIsNew,
     TypeOK, File, Image, Steps, Down, IdsAreFresh, CommitShape
<1> QED
  BY <1>1, <1>2, <1>3, <1>4, <1>5, <1>6 DEF SnapInv

\* The image covers what was written when its tee began.
LEMMA StartRewriteKeeps ==
    ASSUME Sound, SnapInv, StartRewrite
    PROVE  SnapInv'
<1>m. PICK m \in 0 .. n : Continues(m) /\ (pc \in Steps => m = n)
  BY DEF SnapInv
<1>0. TypeOK /\ IdsAreFresh /\ KeptIsSettled /\ CommitShape /\ TeeComplete
  BY DEF SnapInv
<1>f. UNCHANGED <<n, acked, snapshot, prev, log>>
  BY DEF StartRewrite, durable
<1>p. pc \in Steps /\ pc' \in Steps
  BY <1>0 DEF StartRewrite, Steps
<1>1. TypeOK'
  <2>1. Spend("rewrites", MaxRewrites)
    BY DEF StartRewrite
  <2>2. spent' \in Counters
    BY <2>1, <1>0, Spending DEF TypeOK, Counters
  <2>3. tmp' \in Image
    BY <1>0 DEF StartRewrite, Image, StandsAlone, TypeOK
  <2> QED
    BY <1>0, <2>2, <2>3 DEF StartRewrite, durable, memory, TypeOK, File, Image,
       Steps, Down, Counters
<1>2. \E k \in 0 .. n' : Continues(k)' /\ (pc' \in Steps => k = n')
  BY <1>f, <1>p, <1>m, SameFiles DEF Continues
<1>3. IdsAreFresh'
  BY <1>0, <1>1 DEF StartRewrite, durable, memory, Missing, NoImage, NoHandoff,
     Legacy, StandsAlone, Spend, IdsAreFresh, TypeOK, File, Image, Steps, Down,
     CommitShape
<1>4. KeptIsSettled'
  BY <1>0, <1>f, <1>p, SameFiles DEF StartRewrite, KeptIsSettled, CommitShape, Steps
<1>5. CommitShape'
  BY <1>0, <1>f, <1>p, SameFiles DEF StartRewrite, CommitShape, Steps, Down
<1>6. TeeComplete'
  <2>1. tmp' = [head |-> StandsAlone, img |-> n, recs |-> {}] /\ tee' = {} /\ gen' = {}
    BY <1>0 DEF StartRewrite, TeeComplete
  <2>2. (n + 1) .. n = {}
    BY <1>0 DEF TypeOK
  <2> QED
    BY <2>1, <2>2, <1>0 DEF StartRewrite, TeeComplete, GenerationIsNew, TypeOK,
       StandsAlone, durable, memory
<1> QED
  BY <1>1, <1>2, <1>3, <1>4, <1>5, <1>6 DEF SnapInv

\* Giving up a rewrite drops the tee and touches no file.
LEMMA RewriteFailsKeeps ==
    ASSUME Sound, SnapInv, RewriteFails
    PROVE  SnapInv'
<1>m. PICK m \in 0 .. n : Continues(m) /\ (pc \in Steps => m = n)
  BY DEF SnapInv
<1>0. TypeOK /\ IdsAreFresh /\ KeptIsSettled /\ CommitShape /\ TeeComplete
  BY DEF SnapInv
<1>f. UNCHANGED <<n, acked, snapshot, prev, log>>
  BY DEF RewriteFails, durable
<1>p. pc \in Steps /\ pc' \in Steps
  BY <1>0 DEF RewriteFails, JobOver, Steps
<1>1. TypeOK'
  <2>1. spent' \in Counters
    BY <1>0, Spending DEF RewriteFails, TypeOK, Counters
  <2> QED
    BY <1>0, <2>1, JobOverTypes DEF RewriteFails, durable, TypeOK, Counters
<1>2. \E k \in 0 .. n' : Continues(k)' /\ (pc' \in Steps => k = n')
  BY <1>f, <1>p, <1>m, SameFiles DEF Continues
<1>3. IdsAreFresh'
  BY <1>0, <1>1 DEF RewriteFails, durable, memory, Missing, NoImage, NoHandoff,
     Legacy, StandsAlone, JobOver, Spend, IdsAreFresh, TypeOK, File, Image, Steps,
     Down, CommitShape
<1>4. KeptIsSettled'
  BY <1>0, <1>f, <1>p, SameFiles DEF RewriteFails, JobOver, KeptIsSettled,
     CommitShape, Steps
<1>5. CommitShape'
  BY SMTT(30), <1>0, <1>f, <1>p, SameFiles DEF RewriteFails, JobOver,
     CommitShape, Steps, Down
<1>6. TeeComplete'
  BY <1>0, <1>1 DEF RewriteFails, durable, memory, Missing, NoImage, NoHandoff,
     Legacy, StandsAlone, JobOver, Spend, Sound, TeeComplete, GenerationIsNew,
     TypeOK, File, Image, Steps, Down, IdsAreFresh, CommitShape
<1> QED
  BY <1>1, <1>2, <1>3, <1>4, <1>5, <1>6 DEF SnapInv

\* An answer whose tee was dropped is thrown away.
LEMMA RewriteStaleKeeps ==
    ASSUME Sound, SnapInv, RewriteStale
    PROVE  SnapInv'
<1>m. PICK m \in 0 .. n : Continues(m) /\ (pc \in Steps => m = n)
  BY DEF SnapInv
<1>0. TypeOK /\ IdsAreFresh /\ KeptIsSettled /\ CommitShape /\ TeeComplete
  BY DEF SnapInv
<1>f. UNCHANGED <<n, acked, snapshot, prev, log>>
  BY DEF RewriteStale, durable
<1>p. pc \in Steps /\ pc' \in Steps
  BY <1>0 DEF RewriteStale, JobOver, Steps
<1>1. TypeOK'
  BY <1>0, JobOverTypes DEF RewriteStale, durable, TypeOK
<1>2. \E k \in 0 .. n' : Continues(k)' /\ (pc' \in Steps => k = n')
  BY <1>f, <1>p, <1>m, SameFiles DEF Continues
<1>3. IdsAreFresh'
  BY <1>0, <1>1 DEF RewriteStale, durable, memory, Missing, NoImage, NoHandoff,
     Legacy, StandsAlone, JobOver, Stale, IdsAreFresh, TypeOK, File, Image, Steps,
     Down, CommitShape
<1>4. KeptIsSettled'
  BY <1>0, <1>f, <1>p, SameFiles DEF RewriteStale, JobOver, KeptIsSettled,
     CommitShape, Steps
<1>5. CommitShape'
  BY SMTT(30), <1>0, <1>f, <1>p, SameFiles DEF RewriteStale, JobOver,
     CommitShape, Steps, Down
<1>6. TeeComplete'
  BY <1>0, <1>1 DEF RewriteStale, durable, memory, Missing, NoImage, NoHandoff,
     Legacy, StandsAlone, JobOver, Stale, Sound, TeeComplete, GenerationIsNew,
     TypeOK, File, Image, Steps, Down, IdsAreFresh, CommitShape
<1> QED
  BY <1>1, <1>2, <1>3, <1>4, <1>5, <1>6 DEF SnapInv

\* The first generation follows the image without a hole.
LEMMA DumpDoneKeeps ==
    ASSUME Sound, SnapInv, DumpDone
    PROVE  SnapInv'
<1>m. PICK m \in 0 .. n : Continues(m) /\ (pc \in Steps => m = n)
  BY DEF SnapInv
<1>0. TypeOK /\ IdsAreFresh /\ KeptIsSettled /\ CommitShape /\ TeeComplete
  BY DEF SnapInv
<1>f. UNCHANGED <<n, acked, snapshot, prev, log>>
  BY DEF DumpDone, durable, Advance
<1>p. pc \in Steps /\ pc' \in Steps
  BY <1>0 DEF DumpDone, Advance, FinishTerminal, HandOff, Steps
<1>1. TypeOK'
  <2>2. handoff'.iters \in Int
    BY <1>0 DEF DumpDone, Advance, FinishTerminal, HandOff, TypeOK
  <2>3. tmp' \in Image
    BY <1>0 DEF DumpDone, Advance, Appended, TypeOK, Image
  <2> QED
    BY ZenonT(30), <1>0, <2>2, <2>3 DEF DumpDone, Advance, FinishTerminal,
       HandOff, durable,
       memory, TypeOK, File, Image, Steps, Down
<1>2. \E k \in 0 .. n' : Continues(k)' /\ (pc' \in Steps => k = n')
  BY <1>f, <1>p, <1>m, SameFiles DEF Continues
<1>3. IdsAreFresh'
  BY ZenonT(30), <1>0, <1>1 DEF DumpDone, durable, memory, Missing, NoImage,
     NoHandoff,
     Legacy, StandsAlone, Advance, FinishTerminal, HandOff, Stale, IdsAreFresh,
     TypeOK, File, Image, Steps, Down, CommitShape
<1>4. KeptIsSettled'
  BY <1>0, <1>f, <1>p, SameFiles DEF DumpDone, Advance, FinishTerminal, HandOff,
     KeptIsSettled, CommitShape, Steps
<1>5. CommitShape'
  BY <1>0, <1>f, <1>p, SameFiles DEF DumpDone, Advance, FinishTerminal, HandOff,
     CommitShape, Steps, Down
<1>6. TeeComplete'
  <2>1. /\ tmp.head = StandsAlone /\ tmp.img <= n
        /\ tmp.recs = {} /\ gen = {}
        /\ tmp.recs \cup gen \cup tee = (tmp.img + 1) .. n
    BY <1>0 DEF DumpDone, Stale, TeeComplete
  <2>2. tmp' = tmp /\ gen' = tee /\ tee' = {} /\ n' = n
    BY DEF DumpDone, Advance, HandOff, FinishTerminal
  <2>3. \/ job' = "append" /\ pc' = "idle"
        \/ job' = "dump" /\ pc' = "tail"
    BY DEF DumpDone, Advance, HandOff, FinishTerminal
  <2> QED
    BY <2>1, <2>2, <2>3 DEF TeeComplete, GenerationIsNew
<1> QED
  BY <1>1, <1>2, <1>3, <1>4, <1>5, <1>6 DEF SnapInv

\* A generation in the image, the next one follows it.
LEMMA TeeAppendedKeeps ==
    ASSUME Sound, SnapInv, TeeAppended
    PROVE  SnapInv'
<1>m. PICK m \in 0 .. n : Continues(m) /\ (pc \in Steps => m = n)
  BY DEF SnapInv
<1>0. TypeOK /\ IdsAreFresh /\ KeptIsSettled /\ CommitShape /\ TeeComplete
  BY DEF SnapInv
<1>f. UNCHANGED <<n, acked, snapshot, prev, log>>
  BY DEF TeeAppended, durable, Advance
<1>p. pc \in Steps /\ pc' \in Steps
  BY <1>0 DEF TeeAppended, Advance, FinishTerminal, HandOff, Steps
<1>1. TypeOK'
  <2>2. handoff'.iters \in Int
    BY <1>0 DEF TeeAppended, Advance, FinishTerminal, HandOff, TypeOK
  <2>3. tmp' \in Image
    BY <1>0 DEF TeeAppended, Advance, Appended, TypeOK, Image
  <2> QED
    BY ZenonT(30), <1>0, <2>2, <2>3 DEF TeeAppended, Advance, FinishTerminal,
       HandOff,
       durable, memory, TypeOK, File, Image, Steps, Down
<1>2. \E k \in 0 .. n' : Continues(k)' /\ (pc' \in Steps => k = n')
  BY <1>f, <1>p, <1>m, SameFiles DEF Continues
<1>3. IdsAreFresh'
  BY ZenonT(30), <1>0, <1>1 DEF TeeAppended, durable, memory, Missing, NoImage,
     NoHandoff,
     Legacy, StandsAlone, Advance, FinishTerminal, HandOff, Stale, Appended,
     IdsAreFresh, TypeOK, File, Image, Steps, Down, CommitShape
<1>4. KeptIsSettled'
  BY <1>0, <1>f, <1>p, SameFiles DEF TeeAppended, Advance, FinishTerminal,
     HandOff, KeptIsSettled, CommitShape, Steps
<1>5. CommitShape'
  BY <1>0, <1>f, <1>p, SameFiles DEF TeeAppended, Advance, FinishTerminal,
     HandOff, CommitShape, Steps, Down
<1>6. TeeComplete'
  <2>1. /\ tmp.head = StandsAlone /\ tmp.img <= n
        /\ tmp.recs \cup gen \cup tee = (tmp.img + 1) .. n
        /\ tee \cap (tmp.recs \cup gen) = {}
    BY <1>0 DEF TeeAppended, Stale, TeeComplete
  <2>2. /\ tmp'.head = tmp.head /\ tmp'.img = tmp.img /\ tmp'.recs = tmp.recs \cup gen
        /\ gen' = tee /\ tee' = {} /\ n' = n
    BY <1>0 DEF TeeAppended, Advance, Appended, HandOff, FinishTerminal, TypeOK,
       Image
  <2>3. job' = "append" /\ pc' \in {"idle", "tail"}
    BY DEF TeeAppended, Advance, HandOff, FinishTerminal
  <2> QED
    BY <2>1, <2>2, <2>3 DEF TeeComplete, GenerationIsNew
<1> QED
  BY <1>1, <1>2, <1>3, <1>4, <1>5, <1>6 DEF SnapInv

\* A rewrite that does not converge touches no file.
LEMMA DeferRewriteKeeps ==
    ASSUME Sound, SnapInv, DeferRewrite
    PROVE  SnapInv'
<1>m. PICK m \in 0 .. n : Continues(m) /\ (pc \in Steps => m = n)
  BY DEF SnapInv
<1>0. TypeOK /\ IdsAreFresh /\ KeptIsSettled /\ CommitShape /\ TeeComplete
  BY DEF SnapInv
<1>f. UNCHANGED <<n, acked, snapshot, prev, log>>
  BY DEF DeferRewrite, durable
<1>p. pc \in Steps /\ pc' \in Steps
  BY <1>0 DEF DeferRewrite, JobOver, Steps
<1>1. TypeOK'
  BY SMTT(30), <1>0, JobOverTypes DEF DeferRewrite, durable, TypeOK
<1>2. \E k \in 0 .. n' : Continues(k)' /\ (pc' \in Steps => k = n')
  BY <1>f, <1>p, <1>m, SameFiles DEF Continues
<1>3. IdsAreFresh'
  BY SMTT(30), <1>0, <1>1 DEF DeferRewrite, durable, memory, Missing, NoImage,
     NoHandoff,
     Legacy, StandsAlone, JobOver, IdsAreFresh, TypeOK, File, Image, Steps, Down,
     CommitShape
<1>4. KeptIsSettled'
  BY <1>0, <1>f, <1>p, SameFiles DEF DeferRewrite, JobOver, KeptIsSettled,
     CommitShape, Steps
<1>5. CommitShape'
  BY SMTT(30), <1>0, <1>f, <1>p, SameFiles DEF DeferRewrite, JobOver,
     CommitShape, Steps, Down
<1>6. TeeComplete'
  BY <1>0, <1>1 DEF DeferRewrite, durable, memory, Missing, NoImage, NoHandoff,
     Legacy, StandsAlone, JobOver, Sound, TeeComplete, GenerationIsNew, TypeOK,
     File,
     Image, Steps, Down, IdsAreFresh, CommitShape
<1> QED
  BY <1>1, <1>2, <1>3, <1>4, <1>5, <1>6 DEF SnapInv

\* The tick drops the tee of a rewrite only (no save outruns the cap).
LEMMA OverrunKeeps ==
    ASSUME Sound, SnapInv, Overrun
    PROVE  SnapInv'
<1>m. PICK m \in 0 .. n : Continues(m) /\ (pc \in Steps => m = n)
  BY DEF SnapInv
<1>0. TypeOK /\ IdsAreFresh /\ KeptIsSettled /\ CommitShape /\ TeeComplete
  BY DEF SnapInv
<1>f. UNCHANGED <<n, acked, snapshot, prev, log>>
  BY DEF Overrun, durable
<1>p. pc \in Steps /\ pc' \in Steps
  BY <1>0 DEF Overrun, Sound, Steps
<1>1. TypeOK'
  BY ZenonT(30), <1>0, Placeholders DEF Overrun, durable, memory, TypeOK, File,
     Image, Steps,
     Down
<1>2. \E k \in 0 .. n' : Continues(k)' /\ (pc' \in Steps => k = n')
  BY <1>f, <1>p, <1>m, SameFiles DEF Continues
<1>3. IdsAreFresh'
  BY <1>0, <1>1 DEF Overrun, durable, memory, Missing, NoImage, NoHandoff, Legacy,
     StandsAlone, IdsAreFresh, TypeOK, File, Image, Steps, Down, CommitShape
<1>4. KeptIsSettled'
  BY <1>0, <1>f, <1>p, SameFiles DEF Overrun, Sound, KeptIsSettled, CommitShape,
     Steps
<1>5. CommitShape'
  BY SMTT(30), <1>0, <1>f, <1>p, SameFiles DEF Overrun, Sound, CommitShape,
     Steps, Down
<1>6. TeeComplete'
  BY ZenonT(30), <1>0, <1>1 DEF Overrun, durable, memory, Missing, NoImage,
     NoHandoff, Legacy,
     StandsAlone, Sound, TeeComplete, GenerationIsNew, TypeOK, File, Image, Steps,
     Down, IdsAreFresh, CommitShape
<1> QED
  BY <1>1, <1>2, <1>3, <1>4, <1>5, <1>6 DEF SnapInv

\* The last generation completes the image.
LEMMA AppendTailKeeps ==
    ASSUME Sound, SnapInv, AppendTail
    PROVE  SnapInv'
<1>m. PICK m \in 0 .. n : Continues(m) /\ (pc \in Steps => m = n)
  BY DEF SnapInv
<1>0. TypeOK /\ IdsAreFresh /\ KeptIsSettled /\ CommitShape /\ TeeComplete
  BY DEF SnapInv
<1>f. UNCHANGED <<n, acked, snapshot, prev, log>>
  BY DEF AppendTail, durable
<1>p. pc \in Steps /\ pc' \in Steps
  BY <1>0 DEF AppendTail, Steps
<1>1. TypeOK'
  BY <1>0, Placeholders DEF AppendTail, durable, memory, Appended, TypeOK, File,
     Image, Steps, Down
<1>2. \E k \in 0 .. n' : Continues(k)' /\ (pc' \in Steps => k = n')
  BY <1>f, <1>p, <1>m, SameFiles DEF Continues
<1>3. IdsAreFresh'
  BY SMTT(30), <1>0, <1>1 DEF AppendTail, durable, memory, Missing, NoImage,
     NoHandoff,
     Legacy, StandsAlone, Appended, IdsAreFresh, TypeOK, File, Image, Steps, Down,
     CommitShape
<1>4. KeptIsSettled'
  BY <1>0, <1>f, <1>p, SameFiles DEF AppendTail, KeptIsSettled, CommitShape, Steps
<1>5. CommitShape'
  BY <1>0, <1>f, <1>p, SameFiles DEF AppendTail, CommitShape, Steps, Down
<1>6. TeeComplete'
  BY <1>0, <1>1 DEF AppendTail, durable, memory, Missing, NoImage, NoHandoff,
     Legacy, StandsAlone, Appended, Sound, TeeComplete, GenerationIsNew, TypeOK,
     File, Image, Steps, Down, IdsAreFresh, CommitShape
<1> QED
  BY <1>1, <1>2, <1>3, <1>4, <1>5, <1>6 DEF SnapInv

\* The new log restores what the old pair restored: everything.
LEMMA SwapKeeps ==
    ASSUME Sound, SnapInv, Swap
    PROVE  SnapInv'
<1>m. PICK m \in 0 .. n : Continues(m) /\ (pc \in Steps => m = n)
  BY DEF SnapInv
<1>0. TypeOK /\ IdsAreFresh /\ KeptIsSettled /\ CommitShape /\ TeeComplete
  BY DEF SnapInv
<1>1. TypeOK'
  BY ZenonT(30), <1>0, Placeholders DEF Swap, durable, memory, TypeOK, File,
     Image, Steps, Down
<1>2. \E k \in 0 .. n' : Continues(k)' /\ (pc' \in Steps => k = n')
  <2>1. log' = [head |-> tmp.head, img |-> tmp.img, recs |-> tmp.recs, synced |-> n] /\ m = n
    BY <1>m DEF Swap, Steps
  <2>2. CASE job = "save"
    <3>0. tmp.recs \cup gen = (view.upto + 1) .. n /\ gen = {} /\ tmp.head = view.id
      BY <2>2, <1>0 DEF Swap, TeeComplete
    <3>1. log'.head = view.id /\ view.id > 0 /\ snapshot' = view /\ log'.recs = (view.upto + 1) .. n
      BY SMTT(30), <2>1, <2>2, <3>0, <1>0 DEF Swap, CommitShape, IdsAreFresh
    <3>2. Committed' /\ RestoredBase' = view.upto /\ ~Refused'
      BY <3>1, <1>0 DEF Committed, RestoredBase, Refused, SettledSnapshot,
         StandsAlone, TypeOK, File
    <3> QED
      BY SMTT(30), <2>1, <2>2, <3>1, <3>2, <1>0, <1>m DEF Swap, Continues, IdsAreFresh,
         TypeOK, File
  <2>3. CASE job # "save"
    <3>1. log'.head = 0 /\ log'.img = tmp.img /\ tmp.img <= n /\ log'.recs = (tmp.img + 1) .. n
      <4>1. job \in {"dump", "append"}
        BY <2>3, <1>0 DEF Swap, CommitShape, TypeOK
      <4>2. tmp.head = 0 /\ tmp.img <= n /\ tmp.recs \cup gen \cup tee = (tmp.img + 1) .. n /\ tee = {} /\ gen = {}
        BY <4>1, <1>0 DEF Swap, TeeComplete, StandsAlone
      <4> QED
        BY <2>1, <4>2
    <3>2. RestoredBase' = tmp.img /\ ~Refused'
      BY <3>1 DEF RestoredBase, Refused, StandsAlone
    <3> QED
      BY SMTT(30), <2>1, <3>1, <3>2, <1>0, <1>m DEF Swap, Continues, TypeOK, Image
  <2> QED
    BY <2>2, <2>3
<1>3. IdsAreFresh'
  <2>1. log' = [head |-> tmp.head, img |-> tmp.img, recs |-> tmp.recs, synced |-> n] /\ m = n
    BY SMTT(30), <1>m DEF Swap, Steps
  <2>2. CASE job = "save"
    BY SMTT(60), <2>1, <2>2, <1>0 DEF Swap, IdsAreFresh, TeeComplete, TypeOK,
       File, Legacy,
       Missing
  <2>3. CASE job # "save"
    <3>1. tmp.head = 0
      BY SMTT(60), <2>3, <1>0 DEF Swap, CommitShape, TeeComplete, StandsAlone, TypeOK
    <3> QED
      BY SMTT(30), <2>1, <2>3, <3>1, <1>0 DEF Swap, IdsAreFresh, TypeOK, Legacy
  <2> QED
    BY SMTT(30), <2>2, <2>3
<1>4. KeptIsSettled'
  <2>1. log' = [head |-> tmp.head, img |-> tmp.img, recs |-> tmp.recs, synced |-> n] /\ m = n
    BY SMTT(30), <1>m DEF Swap, Steps
  <2>2. CASE job = "save"
    BY SMTT(30), <2>1, <2>2, <1>0 DEF Swap, KeptIsSettled, TeeComplete, IdsAreFresh, Legacy
  <2>3. CASE job # "save"
    <3>1. log'.head = 0
      BY <2>1, <2>3, <1>0 DEF Swap, CommitShape, TeeComplete, StandsAlone, TypeOK
    <3> QED
      BY SMTT(30), <2>1, <2>3, <3>1, <1>0 DEF Swap, KeptIsSettled, StandsAlone,
         Legacy
  <2> QED
    BY <2>2, <2>3
<1>5. CommitShape'
  <2>1. log' = [head |-> tmp.head, img |-> tmp.img, recs |-> tmp.recs, synced |-> n] /\ m = n
    BY SMTT(30), <1>m DEF Swap, Steps
  <2>2. acked <= n /\ n \in Nat
    BY SMTT(30), <1>m, <1>0 DEF Continues, TypeOK
  <2>a. pc = "swap" /\ pc' = "reopen" /\ UNCHANGED <<n, acked, snapshot, job, view, kept>>
    BY DEF Swap
  <2>b. log'.head = tmp.head /\ log'.synced = n
    BY <2>1
  <2>3. CASE job = "save"
    <3>1. snapshot = view /\ tmp.head = view.id
      BY <2>3, <2>a, <1>0 DEF CommitShape, TeeComplete
    <3> QED
      BY SMTT(30), <2>2, <2>a, <2>b, <2>3, <3>1 DEF CommitShape, Down
  <2>4. CASE job # "save"
    <3>1. job # "none" /\ ~kept
      BY <2>4, <2>a, <1>0 DEF CommitShape
    <3> QED
      BY SMTT(30), <2>2, <2>a, <2>b, <2>4, <3>1 DEF CommitShape, Down
  <2> QED
    BY <2>3, <2>4
<1>6. TeeComplete'
  BY ZenonT(30), <1>0, <1>1 DEF Swap, durable, memory, Missing, NoImage,
     NoHandoff, Legacy,
     StandsAlone, Sound, TeeComplete, GenerationIsNew, TypeOK, File, Image, Steps,
     Down, IdsAreFresh, CommitShape
<1> QED
  BY <1>1, <1>2, <1>3, <1>4, <1>5, <1>6 DEF SnapInv

\* The handle is the live log again.
LEMMA ReopenKeeps ==
    ASSUME Sound, SnapInv, Reopen
    PROVE  SnapInv'
<1>m. PICK m \in 0 .. n : Continues(m) /\ (pc \in Steps => m = n)
  BY DEF SnapInv
<1>0. TypeOK /\ IdsAreFresh /\ KeptIsSettled /\ CommitShape /\ TeeComplete
  BY DEF SnapInv
<1>f. UNCHANGED <<n, acked, snapshot, prev, log>>
  BY DEF Reopen, durable
<1>p. pc \in Steps /\ pc' \in Steps
  BY <1>0 DEF Reopen, JobOver, Steps
<1>1. TypeOK'
  <2>2. CASE JobOver
    BY <1>0, <2>2, JobOverTypes DEF Reopen, durable, TypeOK, Counters
  <2>3. CASE ~JobOver
    BY ZenonT(30), <1>0, <2>3 DEF Reopen, durable, TypeOK, Counters, Steps
  <2> QED
    BY <2>2, <2>3
<1>2. \E k \in 0 .. n' : Continues(k)' /\ (pc' \in Steps => k = n')
  BY <1>f, <1>p, <1>m, SameFiles DEF Continues
<1>3. IdsAreFresh'
  <2>1. UNCHANGED spent
    BY DEF Reopen
  <2>2. CASE job = "save"
    <3>1. pc' = "drop" /\ view' = view
      BY <2>2 DEF Reopen
    <3> QED
      BY SMTT(30), <1>0, <1>f, <2>1, <2>2, <3>1 DEF IdsAreFresh
  <2>3. CASE job # "save"
    <3>1. job' = "none"
      BY <2>3 DEF Reopen, JobOver
    <3> QED
      BY SMTT(30), <1>0, <1>f, <2>1, <3>1 DEF IdsAreFresh
  <2> QED
    BY <2>2, <2>3
<1>4. KeptIsSettled'
  <2>1. CASE job = "save"
    BY SMTT(30), <1>0, <1>f, <2>1, SameFiles DEF Reopen, JobOver, KeptIsSettled,
       CommitShape, IdsAreFresh,
       Committed
  <2>2. CASE job # "save"
    BY ZenonT(30), <1>0, <1>f, <1>p, <2>2, SameFiles DEF Reopen, JobOver,
       KeptIsSettled,
       CommitShape
  <2> QED
    BY <2>1, <2>2
<1>5. CommitShape'
  BY <1>0, <1>f, <1>p, SameFiles DEF Reopen, JobOver, CommitShape, Steps, Down
<1>6. TeeComplete'
  BY ZenonT(30), <1>0, <1>1 DEF Reopen, durable, memory, Missing, NoImage,
     NoHandoff, Legacy,
     StandsAlone, JobOver, Sound, TeeComplete, GenerationIsNew, TypeOK, File, Image,
     Steps, Down, IdsAreFresh, CommitShape
<1> QED
  BY <1>1, <1>2, <1>3, <1>4, <1>5, <1>6 DEF SnapInv

\* A failed step changes no file.
LEMMA StepFailsKeeps ==
    ASSUME Sound, SnapInv, StepFails
    PROVE  SnapInv'
<1>m. PICK m \in 0 .. n : Continues(m) /\ (pc \in Steps => m = n)
  BY DEF SnapInv
<1>0. TypeOK /\ IdsAreFresh /\ KeptIsSettled /\ CommitShape /\ TeeComplete
  BY DEF SnapInv
<1>f. UNCHANGED <<n, acked, snapshot, prev, log>>
  BY DEF StepFails, durable
<1>p. pc \in Steps /\ pc' \in Steps
  BY <1>0 DEF StepFails, JobOver, AfterFault, Sound, Steps, TypeOK
<1>1. TypeOK'
  <2>1. spent' \in Counters
    BY <1>0, Spending DEF StepFails, TypeOK, Counters
  <2>2. CASE JobOver
    BY <1>0, <2>2, <2>1, JobOverTypes DEF StepFails, durable, TypeOK, Counters
  <2>3. CASE ~JobOver
    BY <1>0, <2>3, <2>1 DEF StepFails, durable, TypeOK, Counters, Steps, AfterFault
  <2> QED
    BY <2>2, <2>3
<1>2. \E k \in 0 .. n' : Continues(k)' /\ (pc' \in Steps => k = n')
  BY <1>f, <1>p, <1>m, SameFiles DEF Continues
<1>3. IdsAreFresh'
  BY <1>0, <1>1 DEF StepFails, durable, memory, Missing, NoImage, NoHandoff,
     Legacy, StandsAlone, AfterFault, JobOver, Spend, IdsAreFresh, TypeOK, File,
     Image, Steps, Down, CommitShape
<1>4. KeptIsSettled'
  BY <1>0, <1>f, <1>p, SameFiles DEF StepFails, JobOver, AfterFault, Sound,
     KeptIsSettled, CommitShape, Steps
<1>5. CommitShape'
  BY <1>0, <1>f, <1>p, SameFiles DEF StepFails, JobOver, AfterFault, Sound,
     CommitShape, Steps, Down
<1>6. TeeComplete'
  BY ZenonT(30), <1>0, <1>1 DEF StepFails, durable, memory, Missing, NoImage,
     NoHandoff,
     Legacy, StandsAlone, AfterFault, JobOver, Spend, Sound, TeeComplete,
     GenerationIsNew, TypeOK, File, Image, Steps, Down, IdsAreFresh, CommitShape
<1> QED
  BY <1>1, <1>2, <1>3, <1>4, <1>5, <1>6 DEF SnapInv

\* Undoing a commit gives back the pair the live log continues.
LEMMA UndoKeeps ==
    ASSUME Sound, SnapInv, Undo
    PROVE  SnapInv'
<1>m. PICK m \in 0 .. n : Continues(m) /\ (pc \in Steps => m = n)
  BY DEF SnapInv
<1>0. TypeOK /\ IdsAreFresh /\ KeptIsSettled /\ CommitShape /\ TeeComplete
  BY DEF SnapInv
<1>1. TypeOK'
  BY <1>0, JobOverTypes, Placeholders DEF Undo, durable, TypeOK
<1>2. \E k \in 0 .. n' : Continues(k)' /\ (pc' \in Steps => k = n')
  <2>1. m = n /\ job = "save"
    BY <1>m, <1>0 DEF Undo, Steps, CommitShape
  <2>2. log.head # StandsAlone => SettledSnapshot' = SettledSnapshot
    BY <1>0, <2>1 DEF Undo, SettledSnapshot, Committed, KeptIsSettled,
       CommitShape, IdsAreFresh, Missing, TypeOK, File, StandsAlone, Legacy
  <2>3. RestoredBase' = RestoredBase /\ ~Refused'
    BY <2>2, <1>m DEF Undo, RestoredBase, Refused, Continues, StandsAlone
  <2> QED
    BY <2>1, <2>3, <1>m, <1>0 DEF Undo, JobOver, Continues, TypeOK, Steps
<1>3. IdsAreFresh'
  <2>1. \A f \in {snapshot', prev'} : f \in {snapshot, prev} \/ f = Missing
    BY DEF Undo
  <2>2. job' # "save" /\ UNCHANGED <<log, spent>>
    BY DEF Undo, JobOver
  <2>3. \A f \in {snapshot', prev'} :
           f.id >= -1 /\ f.id <= spent.saves /\ (f.id = -1 => f = Missing)
    <3>1. Missing.id = -1 /\ spent.saves \in Nat
      BY <1>0 DEF Missing, TypeOK
    <3> QED
      BY <1>0, <2>1, <3>1 DEF IdsAreFresh
  <2> QED
    BY <1>0, <2>2, <2>3 DEF IdsAreFresh
<1>4. KeptIsSettled'
  <2>1. job = "save" /\ job' = "none" /\ pc' = "idle" /\ kept' = FALSE
    BY <1>0 DEF Undo, CommitShape, JobOver
  <2>2. log.head # StandsAlone => SettledSnapshot' = SettledSnapshot
    BY <1>0, <2>1 DEF Undo, SettledSnapshot, Committed, KeptIsSettled,
       CommitShape, IdsAreFresh,
       Missing, TypeOK, File, StandsAlone, Legacy
  <2>3. prev' = Missing \/ snapshot' = Missing \/ log.head = StandsAlone
    BY <1>0, <2>1 DEF Undo, CommitShape
  <2>4. log.head = Legacy => SettledSnapshot # Missing
    BY <1>0 DEF KeptIsSettled
  <2> QED
    BY <2>1, <2>2, <2>3, <2>4 DEF Undo, KeptIsSettled, Legacy, StandsAlone
<1>5. CommitShape'
  <2>1. job = "save" /\ job' = "none" /\ pc' = "idle" /\ kept' = FALSE
    BY <1>0 DEF Undo, CommitShape, JobOver
  <2>2. log.head # StandsAlone => SettledSnapshot' = SettledSnapshot
    BY <1>0, <2>1 DEF Undo, SettledSnapshot, Committed, KeptIsSettled,
       CommitShape, IdsAreFresh,
       Missing, TypeOK, File, StandsAlone, Legacy
  <2>3. RestoredBase' = RestoredBase
    BY <2>2 DEF Undo, RestoredBase
  <2> QED
    BY <2>1, <2>3, <1>0 DEF Undo, JobOver, CommitShape, Down
<1>6. TeeComplete'
  BY <1>0, <1>1 DEF Undo, durable, memory, Missing, NoImage, NoHandoff, Legacy,
     StandsAlone, JobOver, Sound, TeeComplete, GenerationIsNew, TypeOK, File, Image,
     Steps, Down, IdsAreFresh, CommitShape
<1> QED
  BY <1>1, <1>2, <1>3, <1>4, <1>5, <1>6 DEF SnapInv

\* What a crash cuts off the log is behind the last synced record.
LEMMA CrashKeeps ==
    ASSUME Sound, SnapInv, Crash
    PROVE  SnapInv'
<1>m. PICK m \in 0 .. n : Continues(m) /\ (pc \in Steps => m = n)
  BY DEF SnapInv
<1>0. TypeOK /\ IdsAreFresh /\ KeptIsSettled /\ CommitShape /\ TeeComplete
  BY DEF SnapInv
<1>1. TypeOK'
  <2>1. Spend("crashes", MaxCrashes)
    BY DEF Crash
  <2>2. spent' \in Counters
    BY <2>1, <1>0, Spending DEF TypeOK, Counters
  <2>3. PICK k \in log.synced .. n : log' = Survives(k)
    BY DEF Crash
  <2>4. log' \in [head : Int, img : Nat, recs : SUBSET Nat, synced : Nat]
    BY <2>3, <1>0 DEF Survives, TypeOK
  <2> QED
    BY ZenonT(30), <1>0, <2>2, <2>4, Placeholders DEF Crash, TypeOK, File, Image,
       Steps, Down,
       Counters
<1>2. \E k \in 0 .. n' : Continues(k)' /\ (pc' \in Steps => k = n')
  <2>1. PICK k \in log.synced .. n : log' = Survives(k)
    BY DEF Crash
  <2>2. RestoredBase' = RestoredBase /\ Refused' = Refused /\ n' = n /\ acked' = acked /\ pc' = "down"
    BY <2>1, <1>0 DEF Crash, Survives, RestoredBase, Refused, SettledSnapshot,
       Committed, TypeOK
  <2>3. RestoredBase \in Nat /\ k \in Nat /\ m \in Nat
    BY <1>0, <1>m DEF RestoredBase, SettledSnapshot, TypeOK, File
  <2>4. log'.recs = {r \in (RestoredBase + 1) .. m : r <= k}
    BY <2>1, <1>0, <1>m DEF Survives, Continues, TypeOK
  <2>5. acked <= k \/ acked <= RestoredBase
    BY <2>1, <2>3, <1>0 DEF CommitShape, TypeOK
  <2>6. CASE m <= k
    <3>1. log'.recs = (RestoredBase + 1) .. m
      BY <2>3, <2>4, <2>6
    <3> QED
      BY <2>2, <3>1, <1>m, <1>0 DEF Continues, Steps
  <2>7. CASE k < m /\ RestoredBase <= k
    <3>1. log'.recs = (RestoredBase + 1) .. k
      BY <2>3, <2>4, <2>7
    <3>2. acked <= k /\ k <= n
      BY <2>3, <2>5, <2>7, <1>m, <1>0 DEF TypeOK
    <3>3. Continues(k)'
      BY <2>2, <2>7, <3>1, <3>2, <1>m DEF Continues
    <3> QED
      BY <2>2, <2>3, <3>2, <3>3, <1>0 DEF Steps, TypeOK
  <2>8. CASE k < m /\ k < RestoredBase
    <3>1. log'.recs = (RestoredBase + 1) .. RestoredBase
      BY <2>3, <2>4, <2>8
    <3> QED
      BY SMTT(30), <2>2, <2>3, <2>5, <2>8, <3>1, <1>m, <1>0 DEF Continues, Steps,
         TypeOK
  <2> QED
    BY <2>3, <2>6, <2>7, <2>8
<1>3. IdsAreFresh'
  BY <1>0, <1>1 DEF Crash, durable, memory, Missing, NoImage, NoHandoff, Legacy,
     StandsAlone, Spend, Survives, IdsAreFresh, TypeOK, File, Image, Steps, Down,
     CommitShape
<1>4. KeptIsSettled'
  BY SMTT(30), <1>0, <1>1, <1>m DEF Crash, durable, memory, Missing, NoImage,
     NoHandoff,
     Legacy, StandsAlone, Spend, Survives, Sound, Continues, Refused, RestoredBase,
     SettledSnapshot, Committed, TypeOK, File, Image, Steps, Down, IdsAreFresh,
     KeptIsSettled, CommitShape
<1>5. CommitShape'
  BY <1>0, <1>1, <1>m DEF Crash, durable, memory, Missing, NoImage, NoHandoff,
     Legacy, StandsAlone, Spend, Survives, Sound, Continues, Refused, RestoredBase,
     SettledSnapshot, Committed, TypeOK, File, Image, Steps, Down, IdsAreFresh,
     KeptIsSettled, CommitShape
<1>6. TeeComplete'
  BY <1>0, <1>1 DEF Crash, durable, memory, Missing, NoImage, NoHandoff, Legacy,
     StandsAlone, Spend, Survives, Sound, TeeComplete, GenerationIsNew, TypeOK,
     File,
     Image, Steps, Down, IdsAreFresh, CommitShape
<1> QED
  BY <1>1, <1>2, <1>3, <1>4, <1>5, <1>6 DEF SnapInv

\* Settling the files settles nothing else.
LEMMA SettleKeeps ==
    ASSUME Sound, SnapInv, Settle
    PROVE  SnapInv'
<1>m. PICK m \in 0 .. n : Continues(m) /\ (pc \in Steps => m = n)
  BY DEF SnapInv
<1>0. TypeOK /\ IdsAreFresh /\ KeptIsSettled /\ CommitShape /\ TeeComplete
  BY DEF SnapInv
<1>a. /\ pc = "down" /\ pc' = "settled" /\ prev' = Missing
      /\ snapshot' = SettledSnapshot
      /\ UNCHANGED <<n, acked, log, memory, spent>>
  BY DEF Settle
<1>b. UNCHANGED <<handle, teeing, tee, job, gen, tmp, view, handoff, kept>>
  BY <1>a DEF memory
<1>c. SettledSnapshot' = SettledSnapshot
  BY <1>a DEF SettledSnapshot
<1>d. Refused' = Refused /\ RestoredBase' = RestoredBase
  BY <1>a, <1>c DEF Refused, RestoredBase
<1>1. TypeOK'
  <2>1. SettledSnapshot \in File
    BY <1>0 DEF SettledSnapshot, TypeOK
  <2> QED
    BY <1>0, <1>a, <1>b, <2>1, Placeholders DEF TypeOK, Down
<1>2. \E k \in 0 .. n' : Continues(k)' /\ (pc' \in Steps => k = n')
  <2>1. Continues(m)'
    BY <1>m, <1>a, <1>d DEF Continues
  <2>2. m \in 0 .. n' /\ pc' \notin Steps
    BY <1>a DEF Steps
  <2> QED
    BY <2>1, <2>2
<1>3. IdsAreFresh'
  <2>1. SettledSnapshot = snapshot \/ SettledSnapshot = prev
    BY DEF SettledSnapshot
  <2>2. job = "none"
    BY <1>0, <1>a DEF CommitShape, Down
  <2> QED
    BY <1>0, <1>a, <1>b, <2>1, <2>2 DEF IdsAreFresh, Missing, TypeOK
<1>4. KeptIsSettled'
  <2>1. ~kept
    BY <1>0, <1>a DEF CommitShape, Down
  <2>2. log'.head = Legacy => SettledSnapshot' # Missing
    BY <1>0, <1>a, <1>c DEF KeptIsSettled
  <2> QED
    BY <1>a, <1>b, <2>1, <2>2 DEF KeptIsSettled, Steps
<1>5. CommitShape'
  BY <1>0, <1>a, <1>b, <1>d DEF CommitShape, Down
<1>6. TeeComplete'
  BY <1>0, <1>a, <1>b DEF TeeComplete, GenerationIsNew, CommitShape, Down
<1> QED
  BY <1>1, <1>2, <1>3, <1>4, <1>5, <1>6 DEF SnapInv

\* A restart begins with the prefix the files hold.
LEMMA LoadKeeps ==
    ASSUME Sound, SnapInv, Load
    PROVE  SnapInv'
<1>m. PICK m \in 0 .. n : Continues(m) /\ (pc \in Steps => m = n)
  BY DEF SnapInv
<1>0. TypeOK /\ IdsAreFresh /\ KeptIsSettled /\ CommitShape /\ TeeComplete
  BY DEF SnapInv
<1>1. TypeOK'
  BY <1>0, Placeholders DEF Load, durable, memory, TypeOK, File, Image, Steps, Down
<1>2. \E k \in 0 .. n' : Continues(k)' /\ (pc' \in Steps => k = n')
  <2>1. /\ n' = m /\ log' = [log EXCEPT !.synced = m]
        /\ RestoredBase' = RestoredBase /\ Refused' = Refused
    BY <1>0, <1>m, LoadRestores
  <2>2. log'.recs = log.recs /\ log'.synced = m
    BY <2>1, <1>0 DEF TypeOK
  <2> QED
    BY <2>1, <2>2, <1>m, <1>0 DEF Load, Continues, TypeOK
<1>3. IdsAreFresh'
  BY <1>0, <1>1 DEF Load, durable, memory, Missing, NoImage, NoHandoff, Legacy,
     StandsAlone, IdsAreFresh, TypeOK, File, Image, Steps, Down, CommitShape
<1>4. KeptIsSettled'
  BY <1>0, <1>1, <1>m DEF Load, durable, memory, Missing, NoImage, NoHandoff,
     Legacy, StandsAlone, Sound, Continues, Refused, RestoredBase, SettledSnapshot,
     Committed, TypeOK, File, Image, Steps, Down, IdsAreFresh, KeptIsSettled,
     CommitShape
<1>5. CommitShape'
  <2>1. /\ n' = m /\ log' = [log EXCEPT !.synced = m]
        /\ RestoredBase' = RestoredBase /\ Refused' = Refused
    BY <1>0, <1>m, LoadRestores
  <2>2. log'.recs = log.recs /\ log'.synced = m
    BY <2>1, <1>0 DEF TypeOK
  <2> QED
    BY <2>1, <2>2, <1>m, <1>0 DEF Load, Continues, CommitShape, TypeOK, Steps,
       Down, memory
<1>6. TeeComplete'
  BY SMTT(30), <1>0, <1>1 DEF Load, durable, memory, Missing, NoImage, NoHandoff,
     Legacy,
     StandsAlone, Sound, TeeComplete, GenerationIsNew, TypeOK, File, Image, Steps,
     Down, IdsAreFresh, CommitShape
<1> QED
  BY <1>1, <1>2, <1>3, <1>4, <1>5, <1>6 DEF SnapInv

\* The invariant holds of every data directory but an empty one.
LEMMA SnapInit ==
    ASSUME Sound, Init
    PROVE  SnapInv
<1>1. PICK s \in Starts :
         /\ snapshot = StartFiles(s).snap
         /\ log = [head |-> StartFiles(s).head, img |-> StartFiles(s).img, recs |-> {}, synced |-> 0]
         /\ n = IF s = "fresh" THEN 0 ELSE 1
  BY ZenonT(30) DEF Init
<1>2. n = 1 /\ acked = 1 /\ prev = Missing /\ pc = "idle" /\ job = "none" /\ spent.saves = 1 /\ ~teeing
  BY <1>1 DEF Init, Sound
<1>3. \/ snapshot = [id |-> 0, upto |-> 1] /\ log.head = -1
      \/ snapshot = Missing /\ log.head = 0 /\ log.img = 1
      \/ snapshot = [id |-> 1, upto |-> 1] /\ log.head = 1
  BY <1>1 DEF StartFiles, Sound, Legacy, StandsAlone
<1>4. log.recs = {} /\ log.synced = 0 /\ log \in [head : Int, img : Nat, recs : SUBSET Nat, synced : Nat]
  BY <1>1 DEF StartFiles, Sound, Legacy, StandsAlone
<1>5. snapshot \in File
  BY <1>3, Placeholders DEF File
<1>6. handle \in BOOLEAN /\ teeing \in BOOLEAN /\ kept \in BOOLEAN
  BY ZenonT(30) DEF Init
<1>7. spent \in [saves : Nat, rewrites : Nat, crashes : Nat, faults : Nat]
  BY DEF Init
<1>8. TypeOK
  BY <1>2, <1>4, <1>5, <1>6, <1>7, Placeholders DEF Init, TypeOK, Steps
<1>9. ~Refused /\ RestoredBase = 1
  BY <1>2, <1>3 DEF Refused, RestoredBase, SettledSnapshot, StandsAlone
<1>10. Continues(1)
  BY <1>2, <1>4, <1>9 DEF Continues
<1>11. IdsAreFresh
  BY <1>2, <1>3 DEF IdsAreFresh, Missing, Legacy
<1>12. KeptIsSettled
  <2>1. ~kept
    BY DEF Init
  <2>2. log.head = Legacy => SettledSnapshot # Missing
    BY <1>2, <1>3 DEF SettledSnapshot, Legacy, Missing
  <2> QED
    BY <1>2, <2>1, <2>2 DEF KeptIsSettled
<1>13. CommitShape
  <2>1. handle /\ ~kept
    BY DEF Init
  <2> QED
    BY SMTT(30), <1>2, <1>4, <1>9, <2>1 DEF CommitShape, Down
<1>14. TeeComplete
  <2>1. tmp = NoImage /\ gen = {}
    BY DEF Init
  <2>2. tmp.recs \cap gen = {}
    BY <2>1
  <2> QED
    BY <1>2, <2>1, <2>2 DEF TeeComplete, GenerationIsNew
<1> QED
  BY <1>2, <1>8, <1>10, <1>11, <1>12, <1>13, <1>14 DEF SnapInv

\* The invariant speaks of the variables alone.
LEMMA SnapStutter ==
    ASSUME SnapInv, UNCHANGED vars
    PROVE  SnapInv'
<1>1. TypeOK'
  BY SMTT(30) DEF SnapInv, vars, durable, memory, TypeOK
<1>2. \E m \in 0 .. n' : Continues(m)' /\ (pc' \in Steps => m = n')
  BY DEF SnapInv, vars, durable, memory, Continues, Refused, RestoredBase,
     SettledSnapshot, Committed
<1>3. IdsAreFresh'
  BY DEF SnapInv, vars, durable, memory, IdsAreFresh
<1>4. KeptIsSettled'
  BY DEF SnapInv, vars, durable, memory, KeptIsSettled, SettledSnapshot, Committed
<1>5. CommitShape'
  BY SMTT(30) DEF SnapInv, vars, durable, memory, CommitShape, RestoredBase,
     SettledSnapshot, Committed
<1>6. TeeComplete'
  BY DEF SnapInv, vars, durable, memory, TeeComplete, GenerationIsNew
<1> QED
  BY <1>1, <1>2, <1>3, <1>4, <1>5, <1>6 DEF SnapInv

\* Every step keeps the invariant.
LEMMA SnapNext ==
    ASSUME Sound, SnapInv, [Next]_vars
    PROVE  SnapInv'
BY SMTT(30), SnapStutter, WriteKeeps, SyncKeeps, StartSaveKeeps, SaveFailsKeeps,
   SaveDoneKeeps, KeepKeeps,
   PlaceKeeps, WriteBaseKeeps, DropPrevKeeps, DropPrevFailsKeeps, StartRewriteKeeps,
   RewriteFailsKeeps, RewriteStaleKeeps, DumpDoneKeeps, TeeAppendedKeeps,
   DeferRewriteKeeps,
   OverrunKeeps, AppendTailKeeps, SwapKeeps, ReopenKeeps, StepFailsKeeps,
   UndoKeeps, CrashKeeps,
   SettleKeeps, LoadKeeps
   DEF Next, Saving, Rewriting, Finishing, Failing

(***************************************************************************)
(* A shard that does not start empty, whose saves keep their tee and       *)
(* whose reopening does not fail keeps the inductive invariant             *)
(* (commit_snapshot, advance_rewrite_handoff, settle_snapshot together).   *)
(***************************************************************************)
THEOREM SnapInvariance ==
    ASSUME Sound
    PROVE  Spec => []SnapInv
<1>1. Init => SnapInv
  BY SnapInit
<1>2. SnapInv /\ [Next]_vars => SnapInv'
  BY SnapNext
<1> QED
  BY <1>1, <1>2, PTL DEF Spec

\* The invariant implies that a crash now restores every write once.
LEMMA InvRestores ==
    ASSUME SnapInv
    PROVE  RestoresOnce /\ NothingUnlogged
<1>m. PICK m \in 0 .. n : Continues(m) /\ (pc \in Steps => m = n)
  BY DEF SnapInv
<1>1. TypeOK /\ CommitShape /\ GenerationIsNew
  BY DEF SnapInv, TeeComplete
<1>2. RestoredBase \in Nat /\ RestoredBase <= m /\ log.recs = (RestoredBase + 1) .. m /\ m \in Nat
  BY <1>1, <1>m DEF Continues, RestoredBase, SettledSnapshot, TypeOK, File
<1>3. ASSUME NEW k \in Nat, NEW j \in Nat, RestoredBase <= j, j <= m,
             j = k \/ (k < j /\ j = RestoredBase) \/ (j < k /\ j = m)
      PROVE  RestoresUpTo(k, j)
  BY <1>2, <1>3 DEF RestoresUpTo
<1>4. NothingUnlogged
  BY SMTT(30), <1>2, <1>3, <1>m, <1>1 DEF NothingUnlogged, TypeOK
<1>5. ASSUME NEW k \in log.synced .. n
      PROVE  \E j \in acked .. n : RestoresUpTo(k, j)
  <2>1. k \in Nat /\ acked \in Nat /\ n \in Nat /\ acked <= m /\ m <= n
    BY SMTT(30), <1>5, <1>1, <1>m DEF TypeOK, Continues
  <2>2. acked <= k \/ acked <= RestoredBase
    BY <2>1, <1>1, <1>5 DEF CommitShape, TypeOK
  <2>3. CASE m < k
    BY <2>1, <2>3, <1>2, <1>3
  <2>4. CASE k <= m /\ RestoredBase <= k
    <3>1. RestoresUpTo(k, k)
      BY <2>1, <2>4, <1>2, <1>3
    <3>2. k \in acked .. n
      BY <2>1, <2>2, <2>4, <1>2
    <3> QED
      BY <3>1, <3>2
  <2>5. CASE k < RestoredBase
    <3>1. RestoresUpTo(k, RestoredBase)
      BY <2>1, <2>5, <1>2, <1>3
    <3>2. RestoredBase \in acked .. n
      BY <2>1, <2>2, <2>5, <1>2
    <3> QED
      BY <3>1, <3>2
  <2> QED
    BY <2>1, <2>3, <2>4, <2>5, <1>2
<1>6. ~Refused
  BY <1>m DEF Continues
<1> QED
  BY <1>1, <1>4, <1>5, <1>6 DEF RestoresOnce

(***************************************************************************)
(* For every number of writes, saves, rewrites, crashes and failed steps:  *)
(* wherever the process dies, settle_snapshot finds a pair that restores   *)
(* each write once.                                                        *)
(***************************************************************************)
THEOREM SavesAndRewritesRestoreOnce ==
    ASSUME Sound
    PROVE  Spec => []RestoresOnce
BY SnapInvariance, InvRestores, PTL

(***************************************************************************)
(* While the shard is up its log holds every write, whatever becomes of    *)
(* the save or the rewrite in flight.                                      *)
(***************************************************************************)
THEOREM LiveLogHoldsEveryWrite ==
    ASSUME Sound
    PROVE  Spec => []NothingUnlogged
BY SnapInvariance, InvRestores, PTL

\* Every step is a step of the durable store, or none.
LEMMA NextKeepsPromise ==
    ASSUME SnapInv, [Next]_vars
    PROVE  [Promise!Next]_<<n, acked>>
<1>m. PICK m \in 0 .. n : Continues(m) /\ (pc \in Steps => m = n)
  BY DEF SnapInv
<1>0. TypeOK
  BY DEF SnapInv
<1>1. CASE Write
  BY <1>1 DEF Write, Promise!Next, Promise!Write
<1>2. CASE Sync
  <2>1. acked \in 0 .. n /\ n \in Nat
    BY SMTT(30), <1>m, <1>0 DEF Continues, TypeOK
  <2>2. acked' = n /\ n' = n
    BY <1>2 DEF Sync
  <2>3. acked' \in acked .. n
    BY <2>1, <2>2
  <2> QED
    BY <2>2, <2>3 DEF Promise!Next, Promise!Secure
<1>3. CASE Load
  <2>1. n' = m
    BY <1>0, <1>3, <1>m, LoadRestores
  <2>2. n' \in acked .. n /\ acked' = acked
    BY SMTT(30), <1>3, <2>1, <1>m, <1>0 DEF Load, Continues, TypeOK
  <2> QED
    BY <2>2 DEF Promise!Next, Promise!Restart
<1>4. CASE UNCHANGED vars
  BY SMTT(30), <1>4 DEF vars
<1>5. CASE Saving \/ Rewriting \/ DeferRewrite \/ Overrun
  <2>1. CASE Saving
    BY <2>1 DEF Saving, StartSave, SaveFails, SaveDone, Keep, Place, WriteBase
  <2>2. CASE Rewriting
    BY <2>2 DEF Rewriting, StartRewrite, RewriteFails, RewriteStale, DumpDone,
       TeeAppended, Advance
  <2>3. CASE DeferRewrite \/ Overrun
    BY <2>3 DEF DeferRewrite, Overrun
  <2> QED
    BY <1>5, <2>1, <2>2, <2>3
<1>6. CASE Finishing \/ Failing \/ Crash \/ Settle
  BY <1>6 DEF Finishing, Failing, AppendTail, Swap, Reopen, DropPrev,
     DropPrevFails, StepFails, Undo,
     Crash, Settle
<1> QED
  BY <1>1, <1>2, <1>3, <1>4, <1>5, <1>6 DEF Next

(***************************************************************************)
(* The shard's files implement the durable store: a restart forgets no     *)
(* synced write, and nothing else than a restart forgets any.              *)
(***************************************************************************)
THEOREM ShardKeepsPromise ==
    ASSUME Sound
    PROVE  Spec => KeepsPromise
<1>1. Init => Promise!Init
  BY DEF Init, Promise!Init
<1>2. SnapInv /\ [Next]_vars => [Promise!Next]_<<n, acked>>
  BY NextKeepsPromise
<1>3. Spec => []SnapInv
  BY SnapInvariance
<1> QED
  BY <1>1, <1>2, <1>3, PTL DEF Spec, KeepsPromise, Promise!Spec
=============================================================================
