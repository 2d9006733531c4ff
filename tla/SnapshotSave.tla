---------------------------- MODULE SnapshotSave ----------------------------
(***************************************************************************)
(* Whole-state saves beside the durability pipeline: save_snapshot and     *)
(* save_and_unload, called from HTTP handlers while the WAL reader, the    *)
(* flush thread and the merge thread run.                                  *)
(***************************************************************************)
EXTENDS Durability

CONSTANT SaveModes, \* subset of {"snapshot", "unload"}
         MaxSaves   \* bound: saves started

VARIABLES
    spc,      \* "idle" | "shards" | "map" | "cursors" | "capture" | "sync"
    smode,    \* which of the two calls is running
    snap,     \* the published snapshot it saves
    unloaded, \* the snapshot whose slots become the unloaded staging
    saves

saveVars == <<spc, smode, snap, unloaded, saves>>
svars == <<vars, saveVars>>

SInit ==
    /\ Init
    /\ spc = "idle" /\ smode = "snapshot" /\ snap = {} /\ unloaded = {} /\ saves = 0

(* write_snapshot_to_store: inner.load_full().                             *)
SaveBegin(mode) ==
    /\ spc = "idle" /\ saves < MaxSaves
    /\ spc' = "shards" /\ smode' = mode /\ snap' = staged /\ saves' = saves + 1
    /\ UNCHANGED <<vars, unloaded>>

(* write_inner_to_store: the shard files are replaced by the snapshot, no  *)
(* entries after it, fsynced.                                              *)
SaveShards ==
    /\ spc = "shards"
    /\ spc' = "map"
    /\ opslog' = Loggable(snap) /\ synced' = Loggable(snap)
    /\ UNCHANGED <<wal, readerVars, chan, extVars, extChan, deferredSeq,
                   deferredDurable, dirty, flushVars, mergeVars, diskDeferred,
                   diskCursor, crashes, faults, smode, snap, unloaded, saves>>

(* ... and the deferred map is written from it, unless it is empty.        *)
SaveMap ==
    /\ spc = "map"
    /\ spc' = IF smode = "snapshot" THEN "cursors" ELSE "capture"
    /\ diskDeferred' = IF Deferrals(snap) # {} THEN Deferrals(snap) ELSE diskDeferred
    /\ UNCHANGED <<wal, readerVars, chan, extVars, extChan, deferredSeq,
                   deferredDurable, dirty, flushVars, mergeVars, opslog, synced,
                   diskCursor, crashes, faults, smode, snap, unloaded, saves>>

(* save_snapshot ends by writing the cursors as they are now.              *)
SaveCursors ==
    /\ spc = "cursors"
    /\ spc' = "idle" /\ snap' = {}
    /\ diskCursor' = memCursor
    /\ UNCHANGED <<wal, readerVars, chan, extVars, extChan, deferredSeq,
                   deferredDurable, dirty, flushVars, mergeVars, opslog, synced,
                   diskDeferred, crashes, faults, smode, unloaded, saves>>

(* save_and_unload loads the published snapshot a second time to build the *)
(* unloaded one: its slots are kept, its fields will reload from disk.     *)
UnloadCapture ==
    /\ spc = "capture"
    /\ spc' = "sync" /\ unloaded' = staged /\ snap' = {}
    /\ UNCHANGED <<vars, smode, saves>>

(* What the unloaded filter and sort fields reload from on demand.         *)
Reloadable == {i \in opslog : wal[i] \in {"filter", "sort"}}

(* FlushCommand::SyncUnloaded: the channel is drained, staging becomes the *)
(* unloaded snapshot, the drained batch is applied to it and published.    *)
(* The batch's deferrals are not added to the applied total.               *)
SyncUnloaded ==
    /\ spc = "sync" /\ fpc = "idle"
    /\ spc' = "idle" /\ unloaded' = {}
    /\ staged' = unloaded \cup Reloadable \cup chan
    /\ chan' = {} /\ extChan' = 0
    /\ UNCHANGED <<wal, readerVars, extVars, deferredSeq, deferredDurable, dirty,
                   fpc, batch, extBatch, appliedTotal, mergeVars, diskVars,
                   crashes, faults, smode, snap, saves>>

(* A crash ends the call.                                                  *)
Crash ==
    /\ ProcessCrash \/ OsCrash
    /\ spc' = "idle" /\ snap' = {} /\ unloaded' = {}
    /\ UNCHANGED <<smode, saves>>

SNext ==
    \/ /\ \/ \E kind \in OpKinds : PostOps(kind)
          \/ Reader \/ ExtCountDeferral \/ ExtSend
          \/ Flush \/ ForcePublish \/ RefreshTimeBuckets \/ Merge
       /\ UNCHANGED saveVars
    \/ \E mode \in SaveModes : SaveBegin(mode)
    \/ SaveShards \/ SaveMap \/ SaveCursors \/ UnloadCapture \/ SyncUnloaded
    \/ Crash

SSpec == SInit /\ [][SNext]_svars
-----------------------------------------------------------------------------
(* "Safe with concurrent mutations" (save_and_unload): what the flush      *)
(* thread has applied is still in staging after the unloaded snapshot has  *)
(* replaced it.                                                            *)
UnloadKeepsMutations ==
    [][spc = "sync" /\ spc' = "idle" /\ crashes' = crashes => staged \subseteq staged']_svars

(* "the atomic-rename rewrite would silently swallow an append landing     *)
(* between our read of the old file and the rename" (write_sort_layers, on *)
(* what its lock is there to prevent): a save drops no appended operation. *)
SaveKeepsAppends ==
    [][spc = "shards" /\ spc' = "map" => opslog \subseteq opslog']_svars
=============================================================================
