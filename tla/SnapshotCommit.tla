--------------------------- MODULE SnapshotCommit ---------------------------
(***************************************************************************)
(* The snapshot and the log of one shard: BGSAVE and BGREWRITEAOF as the   *)
(* reactor drives them when appends are written on its own thread          *)
(* (kevy-rt persist_worker.rs, persist_rewrite.rs, persist_jobs.rs), the   *)
(* files they replace (kevy-persist snapshot_commit.rs, aof_rewrite.rs),   *)
(* the crash between any two system calls, and the restart that settles    *)
(* the files (log_base.rs).                                                *)
(*                                                                         *)
(* Write number i of the shard is the record i.  A snapshot is the prefix  *)
(* 1..upto of the writes; a log is the complete image of a prefix or the   *)
(* name of a snapshot, and the records behind it.                          *)
(***************************************************************************)
EXTENDS Integers, FiniteSets

CONSTANTS
    MaxWrites,      \* bound: writes
    MaxSaves,       \* bound: snapshots begun
    MaxRewrites,    \* bound: rewrites begun
    MaxCrashes,     \* bound: crashes
    MaxFaults,      \* bound: steps that fail
    SmallTee,       \* advance_rewrite_handoff's SMALL_TEE, in records
    DeferCap,       \* TEE_DEFER_CAP, in records
    MaxHandoffs,    \* advance_rewrite_handoff's MAX_HANDOFFS
    Starts,         \* what the data directory may hold at first
    Faults,         \* the steps of a commit, and of its undoing, that may fail
    SavesOutrun     \* may a save's tee outgrow TEE_DEFER_CAP?

VARIABLES
    n, acked,               \* writes made; writes whose sync has returned
    snapshot, prev, log,    \* the files
    handle,                 \* is the append handle's file the live log?
    teeing, tee,            \* rewrite_tee: is it Some, and its records
    job, gen, tmp, view,    \* the worker's job, its tail, image, snapshot
    handoff,                \* rewrite_handoff
    pc, kept,               \* where the reactor is in a commit
    spent                   \* the bounds' counters

durable == <<snapshot, prev, log>>
memory == <<handle, teeing, tee, job, gen, tmp, view, handoff, kept>>
vars == <<n, acked, durable, memory, pc, spent>>

\* LogHead, as a number; After(id) is the id itself.
Legacy == -1
StandsAlone == 0

\* A snapshot file: its id footer (0 when it has none) and what it covers.
Missing == [id |-> -1, upto |-> 0]
NoImage == [head |-> Legacy, img |-> 0, recs |-> {}]
NoHandoff == [iters |-> -1, len |-> 0]

Steps == {"idle", "keep", "place", "base", "tail", "swap", "reopen", "drop",
          "unplaced", "unswapped"}
Down == {"down", "settled"}

File == [id : Int, upto : Nat]
Image == [head : Int, img : Nat, recs : SUBSET Nat]

TypeOK ==
    /\ n \in Nat /\ acked \in Nat
    /\ snapshot \in File /\ prev \in File /\ view \in File
    /\ log \in [head : Int, img : Nat, recs : SUBSET Nat, synced : Nat]
    /\ tmp \in Image
    /\ handle \in BOOLEAN /\ teeing \in BOOLEAN /\ kept \in BOOLEAN
    /\ tee \in SUBSET Nat /\ gen \in SUBSET Nat
    /\ job \in {"none", "save", "dump", "append"}
    /\ handoff.iters \in Int
    /\ pc \in Steps \cup Down
    /\ spent \in [saves : Nat, rewrites : Nat, crashes : Nat, faults : Nat]

-----------------------------------------------------------------------------
(***************************************************************************)
(* What the data directory holds when the shard first starts: nothing but  *)
(* the log prepare_file stamped; a snapshot and the log over it, from a    *)
(* version whose files carried neither id nor frame; the image of a        *)
(* rewrite; or a snapshot and the log that names it.                       *)
(***************************************************************************)
StartFiles(s) ==
    CASE s = "fresh"  -> [snap |-> Missing, head |-> Legacy, img |-> 0]
      [] s = "legacy" -> [snap |-> [id |-> 0, upto |-> 1], head |-> Legacy, img |-> 0]
      [] s = "image"  -> [snap |-> Missing, head |-> StandsAlone, img |-> 1]
      [] s = "paired" -> [snap |-> [id |-> 1, upto |-> 1], head |-> 1, img |-> 0]

Init ==
    /\ \E s \in Starts :
          LET f == StartFiles(s)
          IN  /\ snapshot = f.snap
              /\ log = [head |-> f.head, img |-> f.img, recs |-> {}, synced |-> 0]
              /\ n = IF s = "fresh" THEN 0 ELSE 1
    /\ acked = n
    /\ prev = Missing
    /\ handle = TRUE /\ teeing = FALSE /\ kept = FALSE
    /\ tee = {} /\ gen = {} /\ tmp = NoImage /\ view = Missing
    /\ job = "none" /\ handoff = NoHandoff /\ pc = "idle"
    /\ spent = [saves |-> 1, rewrites |-> 0, crashes |-> 0, faults |-> 0]

Spend(what, limit) ==
    /\ spent[what] < limit
    /\ spent' = [spent EXCEPT ![what] = @ + 1]

-----------------------------------------------------------------------------
\* Appending and syncing.

\* Mutant: the writes of a running rewrite go to the tee alone.
AppendTeeOnly(r) ==
    /\ log' = IF teeing THEN log ELSE [log EXCEPT !.recs = @ \cup {r}]
    /\ tee' = IF teeing THEN tee \cup {r} ELSE tee

\* Aof::append.  A handle that was not reopened writes to a file that no
\* longer has a name.
AppendRecord(r) ==
    /\ log' = IF handle THEN [log EXCEPT !.recs = @ \cup {r}] ELSE log
    /\ tee' = IF teeing THEN tee \cup {r} ELSE tee

Write ==
    /\ pc = "idle" /\ n < MaxWrites
    /\ n' = n + 1
    /\ AppendRecord(n + 1)
    /\ UNCHANGED <<acked, snapshot, prev, handle, teeing, job, gen, tmp, view, handoff,
                   pc, kept, spent>>

\* Aof::maybe_sync or sync_now: the writes so far are promised.
Sync ==
    /\ pc = "idle"
    /\ acked' = n
    /\ log' = IF handle THEN [log EXCEPT !.synced = n] ELSE log
    /\ UNCHANGED <<n, snapshot, prev, memory, pc, spent>>

-----------------------------------------------------------------------------
\* BGSAVE.

\* Mutant: the snapshot is frozen, the tee begins a write later.
FreezeLate ==
    /\ teeing' = TRUE
    /\ tee' = {}
    /\ view' = [id |-> spent.saves + 1, upto |-> IF n > 0 THEN n - 1 ELSE n]

\* collect_snapshot and begin_view_rewrite, with no append between them.
FreezeForSave ==
    /\ teeing' = TRUE
    /\ tee' = {}
    /\ view' = [id |-> spent.saves + 1, upto |-> n]

StartSave ==
    /\ pc = "idle" /\ job = "none" /\ ~teeing
    /\ Spend("saves", MaxSaves)
    /\ FreezeForSave
    /\ job' = "save"
    /\ UNCHANGED <<n, acked, durable, handle, gen, tmp, handoff, pc, kept>>

\* The reactor's state once a job has been dealt with.
JobOver ==
    /\ teeing' = FALSE /\ tee' = {}
    /\ job' = "none" /\ handoff' = NoHandoff
    /\ gen' = {} /\ tmp' = NoImage /\ view' = Missing
    /\ kept' = FALSE
    /\ pc' = "idle"

\* The worker could not write the snapshot: commit_persist_done drops the tee.
SaveFails ==
    /\ pc = "idle" /\ job = "save"
    /\ Spend("faults", MaxFaults)
    /\ JobOver
    /\ UNCHANGED <<n, acked, durable, handle>>

\* commit_persist_done with the durable snapshot: commit_snapshot begins.
SaveDone ==
    /\ pc = "idle" /\ job = "save"
    /\ pc' = "keep"
    /\ UNCHANGED <<n, acked, durable, memory, spent>>

\* rename(snapshot, prev): NotFound is not an error.
Keep ==
    /\ pc = "keep"
    /\ kept' = (snapshot # Missing)
    /\ prev' = IF snapshot # Missing THEN snapshot ELSE prev
    /\ snapshot' = Missing
    /\ pc' = "place"
    /\ UNCHANGED <<n, acked, log, handle, teeing, tee, job, gen, tmp, view, handoff, spent>>

\* rename(snap_tmp, snapshot)
Place ==
    /\ pc = "place"
    /\ snapshot' = view
    /\ pc' = "base"
    /\ UNCHANGED <<n, acked, prev, log, memory, spent>>

\* write_log_base
ResetLog == [head |-> view.id, img |-> 0, recs |-> {}]

\* write_log_base, and finish_concurrent_rewrite takes the tee: an absent one
\* counts as empty.
WriteBase ==
    /\ pc = "base"
    /\ tmp' = ResetLog
    /\ gen' = IF teeing THEN tee ELSE {}
    /\ teeing' = FALSE /\ tee' = {}
    /\ pc' = "tail"
    /\ UNCHANGED <<n, acked, durable, handle, job, view, handoff, kept, spent>>

\* remove_file(prev), whose error is ignored: a leftover is settled later.
DropPrev ==
    /\ pc = "drop"
    /\ prev' = IF kept THEN Missing ELSE prev
    /\ JobOver
    /\ UNCHANGED <<n, acked, snapshot, log, handle, spent>>

DropPrevFails ==
    /\ pc = "drop" /\ kept
    /\ Spend("faults", MaxFaults)
    /\ JobOver
    /\ UNCHANGED <<n, acked, durable, handle>>

-----------------------------------------------------------------------------
\* BGREWRITEAOF, and the tee handed to the worker in generations.

StartRewrite ==
    /\ pc = "idle" /\ job = "none" /\ ~teeing
    /\ Spend("rewrites", MaxRewrites)
    /\ teeing' = TRUE /\ tee' = {}
    /\ tmp' = [head |-> StandsAlone, img |-> n, recs |-> {}]
    /\ job' = "dump"
    /\ UNCHANGED <<n, acked, durable, handle, gen, view, handoff, pc, kept>>

\* dump_aof or a generation's append fails on the worker, or its answer is
\* stale: abort_rewrite_cleanup.  The answer of an append whose rewrite was
\* already deferred changes nothing more.
RewriteFails ==
    /\ pc = "idle" /\ job \in {"dump", "append"}
    /\ Spend("faults", MaxFaults)
    /\ JobOver
    /\ UNCHANGED <<n, acked, durable, handle>>

\* commit_rewrite_done and on_tee_appended: the tee is gone, so the answer is
\* for a rewrite that was given up.
Stale == ~teeing

\* Mutant: a stale answer is not consumed.
RewriteStaleKept ==
    /\ pc = "idle" /\ job \in {"dump", "append"}
    /\ Stale
    /\ UNCHANGED vars

RewriteStale ==
    /\ pc = "idle" /\ job \in {"dump", "append"}
    /\ Stale
    /\ JobOver
    /\ UNCHANGED <<n, acked, durable, handle, spent>>

\* advance_rewrite_handoff's three ways on, after i generations, the last one
\* of len records.
Terminal(i) == tee = {} \/ (Cardinality(tee) <= SmallTee /\ i >= MaxHandoffs)

Deferred(i, len) ==
    LET small == Cardinality(tee) <= SmallTee
        shrinking == Cardinality(tee) <= len \div 2
    IN  \/ i >= MaxHandoffs /\ ~small
        \/ i > 0 /\ ~shrinking /\ ~small
        \/ Cardinality(tee) > DeferCap

\* The generation is appended to the image on the worker; the writes made
\* meanwhile form the next one.
HandOff(i) ==
    /\ gen' = tee /\ tee' = {}
    /\ job' = "append"
    /\ handoff' = [iters |-> i + 1, len |-> Cardinality(tee)]
    /\ UNCHANGED pc

\* The last generation rides the swap: finish_rewrite_swap.
FinishTerminal ==
    /\ gen' = tee /\ tee' = {}
    /\ teeing' = FALSE
    /\ pc' = "tail"
    /\ UNCHANGED <<job, handoff>>

\* The image is written, or a generation is appended to it: go on.
Advance(image, i, len) ==
    /\ tmp' = image
    /\ \/ /\ Terminal(i)
          /\ FinishTerminal
          /\ UNCHANGED <<view, kept>>
       \/ /\ ~Terminal(i) /\ ~Deferred(i, len)
          /\ HandOff(i)
          /\ UNCHANGED <<teeing, view, kept>>
    /\ UNCHANGED <<n, acked, durable, handle, spent>>

\* Mutant: the generation just written to the image is not in it.
AppendedNothing == tmp

Appended == [tmp EXCEPT !.recs = @ \cup gen]

DumpDone ==
    /\ pc = "idle" /\ job = "dump" /\ ~Stale
    /\ Advance(tmp, 0, 0)

TeeAppended ==
    /\ pc = "idle" /\ job = "append" /\ ~Stale
    /\ Advance(Appended, handoff.iters, handoff.len)

\* Generations that do not shrink: the rewrite is given up.
DeferRewrite ==
    /\ pc = "idle" /\ job \in {"dump", "append"} /\ ~Stale
    /\ LET i == IF job = "dump" THEN 0 ELSE handoff.iters
       IN  ~Terminal(i) /\ Deferred(i, handoff.len)
    /\ JobOver
    /\ UNCHANGED <<n, acked, durable, handle, spent>>

\* check_tee_overrun, on the tick.  The worker's answer is still to come.
Overrun ==
    /\ pc = "idle" /\ teeing
    /\ Cardinality(tee) > DeferCap
    /\ job = "save" => SavesOutrun
    /\ teeing' = FALSE /\ tee' = {}
    /\ handoff' = NoHandoff
    /\ UNCHANGED <<n, acked, durable, handle, job, gen, tmp, view, pc, kept, spent>>

-----------------------------------------------------------------------------
\* finish_concurrent_rewrite_with, for both.

\* Append the tail to the image and sync it.
AppendTail ==
    /\ pc = "tail"
    /\ tmp' = Appended /\ gen' = {}
    /\ pc' = "swap"
    /\ UNCHANGED <<n, acked, durable, handle, teeing, tee, job, view, handoff, kept,
                   spent>>

\* rename(tmp, log): until it is reopened the handle names the old file.
Swap ==
    /\ pc = "swap"
    /\ log' = [head |-> tmp.head, img |-> tmp.img, recs |-> tmp.recs, synced |-> n]
    /\ handle' = FALSE
    /\ pc' = "reopen"
    /\ UNCHANGED <<n, acked, snapshot, prev, teeing, tee, job, gen, tmp, view, handoff,
                   kept, spent>>

Reopen ==
    /\ pc = "reopen"
    /\ handle' = TRUE
    /\ \/ job = "save" /\ pc' = "drop"
          /\ UNCHANGED <<teeing, tee, job, gen, tmp, view, handoff, kept>>
       \/ job # "save" /\ JobOver
    /\ UNCHANGED <<n, acked, durable, spent>>

-----------------------------------------------------------------------------
\* A step fails.

\* Which error path: the live log names the new snapshot only after the swap.
AfterFault(step) ==
    CASE job = "save" /\ step = "place" -> "unplaced"
      [] job = "save" /\ step \in {"base", "tail", "swap"} -> "unswapped"
      [] OTHER -> "idle"

StepFails ==
    /\ pc \in Faults
    /\ Spend("faults", MaxFaults)
    /\ \/ AfterFault(pc) = "idle" /\ JobOver
       \/ /\ AfterFault(pc) # "idle" /\ pc' = AfterFault(pc)
          /\ UNCHANGED <<teeing, tee, job, gen, tmp, view, handoff, kept>>
    /\ UNCHANGED <<n, acked, durable, handle>>

\* undo: put the kept snapshot back, or remove the one that was placed.
Undo ==
    /\ pc \in {"unplaced", "unswapped"}
    /\ snapshot' = IF kept THEN prev
                   ELSE IF pc = "unswapped" THEN Missing ELSE snapshot
    /\ prev' = IF kept THEN Missing ELSE prev
    /\ JobOver
    /\ UNCHANGED <<n, acked, log, handle, spent>>

-----------------------------------------------------------------------------
(***************************************************************************)
(* Crash and restart.  The process dies between two system calls: what was *)
(* not synced to the live log may be lost, from its end; renames that      *)
(* returned are on disk.  A temporary file left behind is written anew     *)
(* before it is ever read, so it is forgotten.                             *)
(***************************************************************************)
Survives(k) == [log EXCEPT !.recs = {r \in @ : r <= k}]

Crash ==
    /\ pc # "down"
    /\ Spend("crashes", MaxCrashes)
    /\ \E k \in log.synced .. n : log' = Survives(k)
    /\ handle' = TRUE /\ teeing' = FALSE /\ kept' = FALSE
    /\ tee' = {} /\ gen' = {} /\ tmp' = NoImage /\ view' = Missing
    /\ job' = "none" /\ handoff' = NoHandoff
    /\ pc' = "down"
    /\ UNCHANGED <<n, acked, snapshot, prev>>

\* Mutant: a kept snapshot always means an unfinished commit.
NeverCommitted == FALSE

\* settle_snapshot: does the log continue the new snapshot?
Committed == log.head > 0 /\ snapshot.id = log.head

SettledSnapshot == IF prev = Missing \/ Committed THEN snapshot ELSE prev

\* settle_snapshot's answer: a log that is an image restores alone, a log that
\* names a snapshot over that one, any other over what is there.
Refused == log.head > 0 /\ SettledSnapshot.id # log.head

RestoredBase == IF log.head = StandsAlone THEN log.img ELSE SettledSnapshot.upto

\* The kept snapshot is removed or put back.
Settle ==
    /\ pc = "down"
    /\ ~Refused
    /\ snapshot' = SettledSnapshot
    /\ prev' = Missing
    /\ pc' = "settled"
    /\ UNCHANGED <<n, acked, log, memory, spent>>

\* load_boot_snapshot and the replay of the log.  What they restored is on
\* disk.
Load ==
    /\ pc = "settled"
    /\ \E m \in 0 .. n :
          /\ 1 .. m = (1 .. RestoredBase) \cup log.recs
          /\ n' = m
          /\ log' = [log EXCEPT !.synced = m]
    /\ pc' = "idle"
    /\ UNCHANGED <<acked, snapshot, prev, memory, spent>>

-----------------------------------------------------------------------------
Saving == StartSave \/ SaveFails \/ SaveDone \/ Keep \/ Place \/ WriteBase
Rewriting == StartRewrite \/ RewriteFails \/ RewriteStale \/ DumpDone \/ TeeAppended
Finishing == AppendTail \/ Swap \/ Reopen \/ DropPrev \/ DropPrevFails
Failing == StepFails \/ Undo

Next ==
    \/ Write \/ Sync
    \/ Saving \/ Rewriting \/ DeferRewrite \/ Overrun
    \/ Finishing \/ Failing
    \/ Crash \/ Settle \/ Load

Spec == Init /\ [][Next]_vars

\* The worker answers, the tick applies its answer, and a commit goes on.
Progress ==
    \/ SaveDone \/ Keep \/ Place \/ WriteBase
    \/ RewriteStale \/ DumpDone \/ TeeAppended \/ DeferRewrite
    \/ AppendTail \/ Swap \/ Reopen \/ DropPrev \/ Undo
    \/ Settle \/ Load

FairSpec == Spec /\ WF_vars(Progress)

-----------------------------------------------------------------------------
\* What a restart would restore if the process died now and the log kept its
\* records up to k: the base, and over it records it does not hold already,
\* which together are the writes 1..m.
RestoresUpTo(k, m) ==
    LET recs == {r \in log.recs : r <= k}
    IN  /\ (1 .. RestoredBase) \cap recs = {}
        /\ (1 .. RestoredBase) \cup recs = 1 .. m

\* No record is appended twice to the image a job is building.
GenerationIsNew == tmp.recs \cap gen = {}

(***************************************************************************)
(* Wherever the process dies in a save, in a rewrite, in their error paths *)
(* or in the restart itself, the files settle into a pair that restores    *)
(* each write once: no write that was synced is missing, none is applied   *)
(* twice, and there is no hole before the last one (the claim of           *)
(* snapshot_commit.rs:1).                                                  *)
(***************************************************************************)
RestoresOnce ==
    /\ ~Refused
    /\ GenerationIsNew
    /\ \A k \in log.synced .. n : \E m \in acked .. n : RestoresUpTo(k, m)

(***************************************************************************)
(* While the shard is up its live log holds every write the store has      *)
(* applied, whatever becomes of the rewrite or the save in flight: an      *)
(* abort risks no data (persist_rewrite.rs:91).                            *)
(***************************************************************************)
NothingUnlogged == pc \in Steps \ {"reopen"} => RestoresUpTo(n, n)

(***************************************************************************)
(* The shard keeps the promise of a durable store: a restart brings back   *)
(* everything synced and nothing that was not written, and no save,        *)
(* rewrite, fault or settling changes what is there.                       *)
(***************************************************************************)
Promise == INSTANCE DurableStore WITH written <- n, safe <- acked

KeepsPromise == Promise!Spec

-----------------------------------------------------------------------------
(***************************************************************************)
(* Why RestoresOnce holds.  What is below is inductive for a shard that    *)
(* did not start from an empty directory, whose saves keep their tee and   *)
(* whose reopening and undoing do not fail.                                *)
(***************************************************************************)

\* The log continues what the files settle into, up to m.
Continues(m) ==
    /\ ~Refused
    /\ acked <= m /\ RestoredBase <= m /\ m <= n
    /\ log.recs = (RestoredBase + 1) .. m

\* Ids are not reused, and only a file that is not there has id -1.
IdsAreFresh ==
    /\ log.head >= Legacy /\ log.head <= spent.saves
    /\ \A f \in {snapshot, prev} :
          f.id >= -1 /\ f.id <= spent.saves /\ (f.id = -1 => f = Missing)
    /\ job = "save" =>
          /\ view.id = spent.saves /\ view.id > 0 /\ view.upto <= n
          /\ pc \notin {"reopen", "drop"} => log.head < view.id

\* What is kept aside is the live pair's snapshot or a leftover of a commit.
KeptIsSettled ==
    /\ pc = "settled" => prev = Missing
    /\ kept => prev # Missing
    /\ pc \in {"idle", "keep"} \/ (pc \in Steps /\ job # "save") =>
          log.head = StandsAlone \/ prev = Missing \/ Committed \/ snapshot = Missing
    /\ log.head = Legacy => SettledSnapshot # Missing

\* Where a commit is: which job is at which step, and which files it has moved.
CommitShape ==
    /\ pc \in Down => job = "none"
    /\ pc \in {"keep", "place", "base", "drop", "unplaced", "unswapped"} => job = "save"
    /\ pc \in {"tail", "swap", "reopen"} => job # "none"
    /\ pc \in {"place", "unplaced"} => snapshot = Missing
    /\ pc \in {"base", "tail", "swap", "unswapped"} /\ job = "save" =>
          snapshot = view /\ (prev = Missing => log.head = StandsAlone)
    /\ pc \in {"reopen", "drop"} /\ job = "save" => snapshot = view /\ log.head = view.id
    /\ job # "save" => ~kept
    /\ handle \/ pc = "reopen"
    /\ log.synced <= n
    /\ acked <= log.synced \/ acked <= RestoredBase

\* The writes since the freeze are in the tee, the generation in the worker's
\* hands and the image, once each.
TeeComplete ==
    /\ job = "none" => ~teeing /\ tmp = NoImage /\ gen = {}
    /\ job = "save" /\ pc \in {"idle", "keep", "place", "base"} =>
          teeing /\ tee = (view.upto + 1) .. n /\ gen = {} /\ tmp = NoImage
    /\ job = "save" /\ pc \in {"tail", "swap"} =>
          /\ tmp.head = view.id
          /\ tmp.recs \cup gen = (view.upto + 1) .. n
    /\ job \in {"dump", "append"} /\ (teeing \/ pc # "idle") =>
          /\ tmp.head = StandsAlone /\ tmp.img <= n
          /\ pc \in {"idle", "tail", "swap", "reopen"}
          /\ tmp.recs \cup gen \cup tee = (tmp.img + 1) .. n
          /\ tee \cap (tmp.recs \cup gen) = {}
          /\ pc # "idle" => tee = {}
    /\ job = "dump" /\ pc = "idle" => tmp.recs = {} /\ gen = {}
    /\ pc = "swap" => gen = {}
    /\ GenerationIsNew

SnapInv ==
    /\ TypeOK
    /\ \E m \in 0 .. n : Continues(m) /\ (pc \in Steps => m = n)
    /\ IdsAreFresh
    /\ KeptIsSettled
    /\ CommitShape
    /\ TeeComplete

(***************************************************************************)
(* A save or a rewrite ends: the generations handed to the worker are      *)
(* bounded, and a worker's answer whose tee was dropped is still consumed  *)
(* (persist_rewrite.rs:47).                                                *)
(***************************************************************************)
JobsEnd == job # "none" ~> job = "none"

=============================================================================
