----------------------------- MODULE Durability -----------------------------
(***************************************************************************)
(* The durability pipeline of a BitDex engine: the write-ahead log, the    *)
(* WAL reader thread, the coalescer channel, the flush thread, the merge   *)
(* thread, and what survives a crash of the process or of the machine.     *)
(*                                                                         *)
(* An operation is named by its position in the WAL.  All that is kept of  *)
(* its contents is where its effect is made durable: "alive" and "filter"  *)
(* (their shard files), "sort" (the packed per-field sort shards) or       *)
(* "defer" (the deferred map of the MetaStore).  Replay is idempotent: a   *)
(* state is the set of operations it reflects.  Writers other than the WAL *)
(* reader (the HTTP handlers, the sweeps) matter here only because their   *)
(* deferrals move the same counters: they are counted, not named.          *)
(***************************************************************************)
EXTENDS Integers, Sequences, FiniteSets

CONSTANTS
    OpKinds,     \* the kinds of operation clients post
    MaxWal,      \* bound: operations ever posted
    MaxExt,      \* bound: deferrals submitted by writers other than the WAL reader
    MaxCrashes,  \* bound: crashes
    MaxFaults    \* bound: failed map writes, shard fsyncs and cache persists

Kinds == {"alive", "filter", "sort", "defer"}

ASSUME KindsAssumption == OpKinds \subseteq Kinds
ASSUME BoundsAssumption ==
    MaxWal \in Nat /\ MaxExt \in Nat /\ MaxCrashes \in Nat /\ MaxFaults \in Nat

VARIABLES
    wal,            \* the kinds of the operations in the WAL, in order (fsynced on append)
    \* WAL reader thread
    rpc,            \* "idle" | "apply" | "mark"
    readPos,        \* last operation sent to the channel
    batchEnd,       \* end of the batch being applied
    ticked,         \* the next operation has bumped deferredSeq and is not sent yet
    memCursor,      \* the in-memory cursor "wal-reader"
    \* shared between threads
    chan,           \* operations in the coalescer channel
    extTicks,       \* deferrals of other writers: counted, not sent yet
    extChan,        \* ... in the channel
    deferredSeq,    \* deferred-map mutations ever submitted
    deferredDurable,\* ... known to be in the persisted map
    dirty,          \* dirty_since_snapshot
    \* flush thread
    fpc,            \* "idle" | "drained" | "applied" | "logged"
    batch,          \* the prepared batch
    extBatch,       \* its deferrals of other writers
    appliedTotal,   \* deferred-map mutations applied to staging
    staged,         \* operations staging (and the published snapshot) reflects
    \* merge thread
    mpc,            \* "idle" | "cursor" | "seq" | "persisted" | "synced"
    cursorSnap, seqSnap,
    mayWrite,       \* did_persist_data /\ ~persist_had_errors /\ bitmaps_synced
    \* disk
    opslog,         \* operations in the shard files, the page cache included
    synced,         \* ... of which fsynced
    diskDeferred,   \* deferrals the persisted map reflects
    diskCursor,     \* persisted cursor
    \* bounds
    exts, crashes, faults

readerVars == <<rpc, readPos, batchEnd, ticked, memCursor>>
extVars    == <<extTicks, exts>>
flushVars  == <<fpc, batch, extBatch, appliedTotal, staged>>
mergeVars  == <<mpc, cursorSnap, seqSnap, mayWrite>>
diskVars   == <<opslog, synced, diskDeferred, diskCursor>>

vars == <<wal, readerVars, chan, extVars, extChan, deferredSeq, deferredDurable,
          dirty, flushVars, mergeVars, diskVars, crashes, faults>>

Ops == 1 .. Len(wal)
Deferrals(S) == {i \in S : wal[i] = "defer"}
Loggable(S)  == {i \in S : wal[i] # "defer"}
-----------------------------------------------------------------------------
(* Where a booting WAL reader starts.                                      *)
LogStart == 0 \* mutant: the persisted cursor is ignored
BootCursor == diskCursor

(* A boot from the disk: shards (page cache or disk) and the deferred map  *)
(* are loaded, the cursor comes from the MetaStore, the counters are zero. *)
Boot(log) ==
    /\ rpc' = "idle" /\ ticked' = FALSE
    /\ readPos' = BootCursor /\ batchEnd' = BootCursor /\ memCursor' = BootCursor
    /\ chan' = {} /\ extTicks' = 0 /\ extChan' = 0
    /\ deferredSeq' = 0 /\ deferredDurable' = 0 /\ dirty' = FALSE
    /\ fpc' = "idle" /\ batch' = {} /\ extBatch' = 0
    /\ appliedTotal' = 0 /\ staged' = log \cup diskDeferred
    /\ mpc' = "idle" /\ cursorSnap' = 0 /\ seqSnap' = 0 /\ mayWrite' = FALSE

Init ==
    /\ wal = <<>>
    /\ rpc = "idle" /\ readPos = 0 /\ batchEnd = 0 /\ ticked = FALSE
    /\ memCursor = 0
    /\ chan = {} /\ extTicks = 0 /\ extChan = 0
    /\ deferredSeq = 0 /\ deferredDurable = 0 /\ dirty = FALSE
    /\ fpc = "idle" /\ batch = {} /\ extBatch = 0
    /\ appliedTotal = 0 /\ staged = {}
    /\ mpc = "idle" /\ cursorSnap = 0 /\ seqSnap = 0 /\ mayWrite = FALSE
    /\ opslog = {} /\ synced = {} /\ diskDeferred = {} /\ diskCursor = 0
    /\ exts = 0 /\ crashes = 0 /\ faults = 0
-----------------------------------------------------------------------------
(* POST /ops: the batch is in the WAL, fsynced, before it is acknowledged. *)
PostOps(kind) ==
    /\ Len(wal) < MaxWal
    /\ wal' = Append(wal, kind)
    /\ UNCHANGED <<readerVars, chan, extVars, extChan, deferredSeq, deferredDurable,
                   dirty, flushVars, mergeVars, diskVars, crashes, faults>>

(* WAL reader: read_batch returns a non-empty prefix of what is unread.    *)
ReadBatch(end) ==
    /\ rpc = "idle"
    /\ rpc' = "apply" /\ batchEnd' = end
    /\ UNCHANGED <<wal, readPos, ticked, memCursor, chan, extVars, extChan,
                   deferredSeq, deferredDurable, dirty, flushVars, mergeVars,
                   diskVars, crashes, faults>>

(* MutationSender::send of a deferred-map mutation counts it first ...     *)
CountDeferral ==
    /\ rpc = "apply" /\ readPos < batchEnd
    /\ wal[readPos + 1] = "defer" /\ ~ticked
    /\ ticked' = TRUE /\ deferredSeq' = deferredSeq + 1
    /\ UNCHANGED <<wal, rpc, readPos, batchEnd, memCursor, chan, extVars, extChan,
                   deferredDurable, dirty, flushVars, mergeVars, diskVars,
                   crashes, faults>>

(* ... and then puts it in the channel, like every other mutation.         *)
SendOp ==
    /\ rpc = "apply" /\ readPos < batchEnd
    /\ wal[readPos + 1] = "defer" => ticked
    /\ chan' = chan \cup {readPos + 1}
    /\ readPos' = readPos + 1 /\ ticked' = FALSE
    /\ UNCHANGED <<wal, rpc, batchEnd, memCursor, extVars, extChan, deferredSeq,
                   deferredDurable, dirty, flushVars, mergeVars, diskVars,
                   crashes, faults>>

(* set_cursor inserts the value into the cursor map ...                    *)
StoreCursor ==
    /\ rpc = "apply" /\ readPos = batchEnd
    /\ rpc' = "mark" /\ memCursor' = batchEnd
    /\ UNCHANGED <<wal, readPos, batchEnd, ticked, chan, extVars, extChan,
                   deferredSeq, deferredDurable, dirty, flushVars, mergeVars,
                   diskVars, crashes, faults>>

(* ... and then raises the dirty flag.                                     *)
MarkDirty ==
    /\ rpc = "mark"
    /\ rpc' = "idle" /\ dirty' = TRUE
    /\ UNCHANGED <<wal, readPos, batchEnd, ticked, memCursor, chan, extVars, extChan,
                   deferredSeq, deferredDurable, flushVars, mergeVars, diskVars,
                   crashes, faults>>

(* The same two steps of send, by an HTTP handler or a sweep.              *)
ExtCountDeferral ==
    /\ exts < MaxExt
    /\ exts' = exts + 1 /\ extTicks' = extTicks + 1
    /\ deferredSeq' = deferredSeq + 1
    /\ UNCHANGED <<wal, readerVars, chan, extChan, deferredDurable, dirty, flushVars,
                   mergeVars, diskVars, crashes, faults>>

ExtSend ==
    /\ extTicks > 0
    /\ extTicks' = extTicks - 1 /\ extChan' = extChan + 1
    /\ UNCHANGED <<wal, readerVars, chan, exts, deferredSeq, deferredDurable, dirty,
                   flushVars, mergeVars, diskVars, crashes, faults>>
-----------------------------------------------------------------------------
(* Flush thread: prepare() drains the whole channel.                       *)
Prepare ==
    /\ fpc = "idle"
    /\ fpc' = "drained"
    /\ batch' = chan /\ extBatch' = extChan
    /\ chan' = {} /\ extChan' = 0
    /\ UNCHANGED <<wal, readerVars, extVars, deferredSeq, deferredDurable, dirty,
                   appliedTotal, staged, mergeVars, diskVars, crashes, faults>>

(* The batch is applied to staging, counted and published.                 *)
ApplyPrepared ==
    /\ fpc = "drained"
    /\ fpc' = "applied"
    /\ staged' = staged \cup batch
    /\ dirty' = (dirty \/ batch # {} \/ extBatch > 0)
    /\ appliedTotal' = appliedTotal + Cardinality(Deferrals(batch)) + extBatch
    /\ UNCHANGED <<wal, readerVars, chan, extVars, extChan, deferredSeq,
                   deferredDurable, batch, extBatch, mergeVars, diskVars,
                   crashes, faults>>

(* What is written of a batch.                                             *)
WholeBatch == batch \* mutant: deferred-map mutations are logged as bitmap ones
LoggedOfBatch == Loggable(batch)

(* After the publish, the bitmap mutations are appended to the shard files *)
(* without an fsync.                                                       *)
AppendOpsLog ==
    /\ fpc = "applied"
    /\ fpc' = "logged"
    /\ opslog' = opslog \cup LoggedOfBatch
    /\ batch' = {} /\ extBatch' = 0
    /\ UNCHANGED <<wal, readerVars, chan, extVars, extChan, deferredSeq,
                   deferredDurable, dirty, appliedTotal, staged, mergeVars,
                   synced, diskDeferred, diskCursor, crashes, faults>>

(* The durable watermark when the map could not be written.                *)
AsIfWritten == appliedTotal \* mutant: the result of the write is not looked at
WatermarkOnError == deferredDurable

(* The deferred map is written from staging when it lags; a failed write   *)
(* leaves the watermark behind and is retried in the next cycle.           *)
PersistDeferred ==
    /\ fpc = "logged"
    /\ fpc' = "idle"
    /\ \/ /\ appliedTotal > deferredDurable
          /\ diskDeferred' = Deferrals(staged)
          /\ deferredDurable' = appliedTotal
          /\ UNCHANGED faults
       \/ /\ appliedTotal > deferredDurable
          /\ faults < MaxFaults
          /\ faults' = faults + 1
          /\ deferredDurable' = WatermarkOnError
          /\ UNCHANGED diskDeferred
       \/ /\ appliedTotal <= deferredDurable
          /\ UNCHANGED <<diskDeferred, deferredDurable, faults>>
    /\ UNCHANGED <<wal, readerVars, chan, extVars, extChan, deferredSeq, dirty,
                   batch, extBatch, appliedTotal, staged, mergeVars, opslog,
                   synced, diskCursor, crashes>>

(* The deferred-map mutations a forced publish drains.                     *)
DrainedUncounted == 0 \* mutant: the drain bypasses the watermark accounting
DrainedByForce == Cardinality(Deferrals(chan)) + extChan

(* FlushCommand::ForcePublish drains, applies and publishes what the main  *)
(* cycle has not seen; it appends nothing to the shard files and does not  *)
(* raise the dirty flag.                                                   *)
ForcePublish ==
    /\ fpc = "idle"
    /\ staged' = staged \cup chan
    /\ appliedTotal' = appliedTotal + DrainedByForce
    /\ chan' = {} /\ extChan' = 0
    /\ UNCHANGED <<wal, readerVars, extVars, deferredSeq, deferredDurable, dirty,
                   fpc, batch, extBatch, mergeVars, diskVars, crashes, faults>>

(* The time-bucket refresh of the flush thread raises the dirty flag.      *)
RefreshTimeBuckets ==
    /\ fpc = "idle"
    /\ dirty' = TRUE
    /\ UNCHANGED <<wal, readerVars, chan, extVars, extChan, deferredSeq,
                   deferredDurable, flushVars, mergeVars, diskVars, crashes, faults>>
-----------------------------------------------------------------------------
(* Merge thread: the cursors are snapshotted at the start of the cycle ... *)
SnapCursor ==
    /\ mpc = "idle"
    /\ mpc' = "cursor" /\ cursorSnap' = memCursor
    /\ UNCHANGED <<wal, readerVars, chan, extVars, extChan, deferredSeq,
                   deferredDurable, dirty, flushVars, seqSnap, mayWrite, diskVars,
                   crashes, faults>>

(* ... then the submission counter ...                                     *)
SnapDeferredSeq ==
    /\ mpc = "cursor"
    /\ mpc' = "seq" /\ seqSnap' = deferredSeq
    /\ UNCHANGED <<wal, readerVars, chan, extVars, extChan, deferredSeq,
                   deferredDurable, dirty, flushVars, cursorSnap, mayWrite, diskVars,
                   crashes, faults>>

(* ... and, if the dirty flag was up, the shards over their threshold are  *)
(* compacted (each compaction fsyncs the shard it rewrites) and the slot   *)
(* counter and time buckets written.  The cache's BoundStore may have data *)
(* of its own to persist, and may fail.                                    *)
PersistData ==
    /\ mpc = "seq"
    /\ mpc' = "persisted"
    /\ dirty' = FALSE
    /\ \E compacted \in (IF dirty THEN SUBSET opslog ELSE {{}}) :
          synced' = synced \cup compacted
    /\ \/ mayWrite' = dirty /\ UNCHANGED faults            \* BoundStore clean
       \/ mayWrite' = TRUE /\ UNCHANGED faults             \* BoundStore written
       \/ mayWrite' = FALSE /\ faults < MaxFaults /\ faults' = faults + 1
    /\ UNCHANGED <<wal, readerVars, chan, extVars, extChan, deferredSeq,
                   deferredDurable, flushVars, cursorSnap, seqSnap, opslog,
                   diskDeferred, diskCursor, crashes>>

(* sync_all_opslogs of each store: list_shards of the sort store names the *)
(* legacy per-layer files, not the packed files that are appended to.      *)
SyncOpsLogs ==
    /\ mpc = "persisted"
    /\ mpc' = "synced"
    /\ \/ /\ mayWrite
          /\ synced' = synced \cup {i \in opslog : wal[i] # "sort"}
          /\ UNCHANGED <<mayWrite, faults>>
       \/ /\ mayWrite /\ faults < MaxFaults
          /\ mayWrite' = FALSE /\ faults' = faults + 1
          /\ UNCHANGED synced
       \/ /\ ~mayWrite
          /\ UNCHANGED <<mayWrite, synced, faults>>
    /\ UNCHANGED <<wal, readerVars, chan, extVars, extChan, deferredSeq,
                   deferredDurable, dirty, flushVars, cursorSnap, seqSnap, opslog,
                   diskDeferred, diskCursor, crashes>>

(* The gate of the cursor write.                                           *)
NoGate == TRUE \* mutant: the cursor does not wait for the deferred map
DurableCaughtUp == deferredDurable >= seqSnap

WriteCursor ==
    /\ mpc = "synced"
    /\ mpc' = "idle" /\ mayWrite' = FALSE
    /\ cursorSnap' = 0 /\ seqSnap' = 0
    /\ \/ /\ mayWrite /\ DurableCaughtUp
          /\ diskCursor' = cursorSnap
          /\ UNCHANGED faults
       \/ /\ mayWrite /\ DurableCaughtUp
          /\ faults < MaxFaults
          /\ faults' = faults + 1
          /\ UNCHANGED diskCursor
       \/ /\ ~(mayWrite /\ DurableCaughtUp)
          /\ UNCHANGED <<diskCursor, faults>>
    /\ UNCHANGED <<wal, readerVars, chan, extVars, extChan, deferredSeq,
                   deferredDurable, dirty, flushVars, opslog, synced, diskDeferred,
                   crashes>>
-----------------------------------------------------------------------------
(* What the flush thread may have appended of a batch when it is stopped.  *)
PartlyAppended == IF fpc = "applied" THEN SUBSET Loggable(batch) ELSE {{}}

(* The process dies: the page cache, hence every append, survives.         *)
ProcessCrash ==
    /\ crashes < MaxCrashes
    /\ crashes' = crashes + 1
    /\ \E part \in PartlyAppended :
          /\ opslog' = opslog \cup part
          /\ Boot(opslog \cup part)
    /\ UNCHANGED <<wal, exts, synced, diskDeferred, diskCursor, faults>>

(* The machine dies: an append that was not fsynced may or may not survive.*)
OsCrash ==
    /\ crashes < MaxCrashes
    /\ crashes' = crashes + 1
    /\ \E kept \in SUBSET (opslog \ synced) :
          /\ opslog' = synced \cup kept /\ synced' = synced \cup kept
          /\ Boot(synced \cup kept)
    /\ UNCHANGED <<wal, exts, diskDeferred, diskCursor, faults>>

Reader == \/ \E end \in (readPos + 1) .. Len(wal) : ReadBatch(end)
          \/ CountDeferral \/ SendOp \/ StoreCursor \/ MarkDirty
Flush  == Prepare \/ ApplyPrepared \/ AppendOpsLog \/ PersistDeferred
Merge  == SnapCursor \/ SnapDeferredSeq \/ PersistData \/ SyncOpsLogs \/ WriteCursor

Next ==
    \/ \E kind \in OpKinds : PostOps(kind)
    \/ Reader
    \/ ExtCountDeferral \/ ExtSend
    \/ Flush \/ ForcePublish \/ RefreshTimeBuckets
    \/ Merge
    \/ ProcessCrash \/ OsCrash

Spec == Init /\ [][Next]_vars

(* The three threads loop for as long as the process runs, and a counted   *)
(* deferral is sent by the next statement of its writer.                   *)
QuiescentFairSpec ==
    Spec /\ WF_vars(Reader) /\ WF_vars(ExtSend) /\ WF_vars(Flush) /\ WF_vars(Merge)

(* Time buckets are configured: the flush thread refreshes them for ever.  *)
FairSpec == QuiescentFairSpec /\ SF_vars(RefreshTimeBuckets)
-----------------------------------------------------------------------------
(* The state is well formed; what is on disk is of operations in the WAL.  *)
TypeOK ==
    /\ wal \in Seq(Kinds)
    /\ rpc \in {"idle", "apply", "mark"}
    /\ readPos \in Nat /\ batchEnd \in Nat /\ memCursor \in Nat
    /\ ticked \in BOOLEAN /\ dirty \in BOOLEAN /\ mayWrite \in BOOLEAN
    /\ chan \subseteq Ops /\ batch \subseteq Ops /\ staged \subseteq Ops
    /\ extTicks \in Nat /\ extChan \in Nat /\ extBatch \in Nat
    /\ deferredSeq \in Nat /\ deferredDurable \in Nat /\ appliedTotal \in Nat
    /\ fpc \in {"idle", "drained", "applied", "logged"}
    /\ mpc \in {"idle", "cursor", "seq", "persisted", "synced"}
    /\ cursorSnap \in Nat /\ seqSnap \in Nat
    /\ opslog \subseteq Loggable(Ops) /\ synced \subseteq opslog
    /\ diskDeferred \subseteq Deferrals(Ops) /\ diskCursor \in 0 .. Len(wal)
    /\ exts \in Nat /\ crashes \in Nat /\ faults \in Nat

(* The gate of the merge thread works: however the reader, the flush and   *)
(* the merge thread interleave, and wherever a crash falls, every deferral *)
(* the persisted cursor has passed is in the persisted deferred map.       *)
DeferralsDurable == \A i \in 1 .. diskCursor : wal[i] = "defer" => i \in diskDeferred

(* The two watermarks count the same thing: a deferred-map mutation that   *)
(* was submitted is applied, or on its way (counted and not sent, in the   *)
(* channel, or in a prepared batch).  A difference is never made up, and   *)
(* holds the cursor back for good.                                         *)
InPreparedBatch ==
    IF fpc = "drained" THEN Cardinality(Deferrals(batch)) + extBatch ELSE 0

WatermarkConserved ==
    deferredSeq = appliedTotal + InPreparedBatch
                  + Cardinality(Deferrals(chan)) + extChan
                  + extTicks + (IF ticked THEN 1 ELSE 0)

(* The persisted cursor never moves back, across crashes included: a boot  *)
(* that replays from an older place than the last durable one would read   *)
(* generations the retention has deleted.                                  *)
CursorMonotone == [][diskCursor' >= diskCursor]_diskCursor

(* Every deferral that was acknowledged is eventually in the persisted     *)
(* map, whatever crashes and failed writes fall in between.                *)
DeferralsReachDisk ==
    \A i \in 1 .. MaxWal :
        (i \in Ops /\ wal[i] = "defer") ~> (i \in diskDeferred)

(* The gate does not hold the cursor for ever: once posting, crashes and   *)
(* faults stop, the persisted cursor reaches the end of the WAL.           *)
CursorCatchesUp == <>[](diskCursor = Len(wal))
-----------------------------------------------------------------------------
(* The strengthening of DeferralsDurable that every step preserves: where  *)
(* each cursor stands, where a read deferral is, and, while the merge      *)
(* thread holds a pair of snapshots, why a deferral below the cursor that  *)
(* is not in the persisted map yet keeps the watermark below the other.    *)
OrderInv ==
    /\ diskCursor <= memCursor /\ memCursor <= readPos
    /\ readPos <= batchEnd /\ batchEnd <= Len(wal)
    /\ rpc # "apply" => memCursor = readPos /\ readPos = batchEnd
    /\ ticked => rpc = "apply" /\ readPos < batchEnd /\ wal[readPos + 1] = "defer"
    /\ cursorSnap <= memCursor
    /\ mpc # "idle" => diskCursor <= cursorSnap

PlaceInv ==
    /\ chan \subseteq 1 .. readPos
    /\ fpc \in {"idle", "logged"} => batch = {} /\ extBatch = 0
    /\ diskDeferred \subseteq staged
    /\ \A i \in Deferrals(1 .. readPos) :
          i \in chan \/ i \in staged \/ (fpc = "drained" /\ i \in batch)

LagInv ==
    /\ deferredDurable <= appliedTotal
    /\ (\E i \in Deferrals(staged) : i \notin diskDeferred) => deferredDurable < appliedTotal

GateInv ==
    mpc \in {"seq", "persisted", "synced"} =>
        \A i \in Deferrals(1 .. cursorSnap) :
            \/ i \in diskDeferred
            \/ i \in staged /\ deferredDurable < seqSnap
            \/ fpc = "drained" /\ i \in batch /\ appliedTotal < seqSnap
            \/ i \in chan /\ appliedTotal + InPreparedBatch < seqSnap

IInv ==
    /\ TypeOK /\ OrderInv /\ PlaceInv /\ LagInv /\ GateInv
    /\ WatermarkConserved /\ DeferralsDurable
-----------------------------------------------------------------------------
(* "the durable cursor never advances past durable state" (server.rs, the  *)
(* WAL reader): a bitmap operation the persisted cursor has passed is at   *)
(* least in the shard files.                                               *)
CursorBehindLog == Loggable(1 .. diskCursor) \subseteq opslog

(* "This converts any page-cache-only opslog entries to durable state"     *)
(* (the merge thread): when the sync step leaves the cursor free to move,  *)
(* every appended entry is fsynced.                                        *)
SyncCoversLog ==
    [][mpc = "persisted" /\ mpc' = "synced" /\ mayWrite' => opslog \subseteq synced']_vars

(* "The flush thread now appends ops incrementally" (the merge thread, the *)
(* reason it no longer writes snapshots): between two flush cycles, what   *)
(* staging reflects is in the shard files or in the deferred map's care.   *)
StagedIsLogged == fpc = "idle" => Loggable(staged) \subseteq opslog
=============================================================================
