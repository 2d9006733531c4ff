----------------------------- MODULE ShardStore -----------------------------
(***************************************************************************)
(* One shard file of the generic storage engine (shard_store.rs): appends  *)
(* by the flush thread, in-place compaction by the merge thread, full      *)
(* snapshot writes by a saver, the two-file rewrite protocol (".new", then *)
(* rename) they share, failed and partial writes, process crashes and the  *)
(* startup sweep of orphan ".new" files.                                   *)
(*                                                                         *)
(* An operation is its number in append order; what a file holds is the    *)
(* sequence of operations its reader applies.  Files are inodes named by   *)
(* `shard` and `new` (sets of at most one inode), because an open handle   *)
(* keeps writing to its inode after a rename took the name away.           *)
(***************************************************************************)
EXTENDS Integers, Sequences, FiniteSets, SequencesExt

CONSTANTS
  Starts,           \* whether the shard file exists at the start, with a snapshot
  MaxOps,           \* bound: operations appended
  MaxSaves,         \* bound: snapshot writes
  MaxCrashes,       \* bound: process crashes
  MaxTornAppends,   \* bound: appends that write only a part of their entry
  MaxTornRewrites,  \* bound: ".new" files written only in part
  MaxIoErrors       \* bound: failing fsyncs and renames

ASSUME ShardAssumption ==
  /\ Starts \subseteq BOOLEAN
  /\ {MaxOps, MaxSaves, MaxCrashes, MaxTornAppends, MaxTornRewrites, MaxIoErrors} \subseteq Nat

Procs == {"flush", "merge", "saver"}

Inodes == 1 .. 4

Torn == 0                           \* an entry whose length, body or CRC is bad

(* The content of a file.  `snap` is what the snapshot section decodes to, *)
(* present when snapshot_len > 0; `whole` fails when the file ends inside  *)
(* the header or the snapshot section that the header announces; `header`  *)
(* holds when the 28 header bytes are there.                               *)
Content == [header : BOOLEAN, whole : BOOLEAN, hasSnap : BOOLEAN,
            snap : Seq(1 .. MaxOps), ops : Seq(0 .. MaxOps), count : Nat]

Empty == [header |-> FALSE, whole |-> FALSE, hasSnap |-> FALSE,
          snap |-> <<>>, ops |-> <<>>, count |-> 0]

ColdFile(o) == [header |-> TRUE, whole |-> TRUE, hasSnap |-> FALSE,
                snap |-> <<>>, ops |-> <<o>>, count |-> 1]

SnapshotFile(s) == [header |-> TRUE, whole |-> TRUE, hasSnap |-> TRUE,
                    snap |-> s, ops |-> <<>>, count |-> 0]

VARIABLES
  warm,             \* the shard file existed at the start
  shard, new,       \* the inodes the two names stand for
  inode,            \* content of every inode
  exclusive,        \* the compactor holds the write lock
  shared,           \* processes that hold the read lock
  pc, fd, buf,      \* per process: next step, open inode, bytes to write
  started,          \* number of the last operation handed to append_op
  acked,            \* operations whose append returned Ok
  saves, crashes, torn, tornNew, errors

counters == <<saves, crashes, torn, tornNew, errors>>

vars == <<warm, shard, new, inode, exclusive, shared, pc, fd, buf, started, acked, counters>>

-----------------------------------------------------------------------------
\* read_op_entries: the entries in front of the first bad one.
ReadOpEntries(entries) ==
  LET bad == {i \in DOMAIN entries : entries[i] = Torn}
  IN  IF bad = {} THEN entries
      ELSE SubSeq(entries, 1, (CHOOSE i \in bad : \A j \in bad : i <= j) - 1)

\* Mutant: the snapshot section is applied on top of the ops log.
SnapshotLast(c) == (IF c.count > 0 THEN ReadOpEntries(c.ops) ELSE <<>>) \o c.snap

\* read_unlocked of a whole file: the snapshot, then the ops log unless the
\* header counts no operation.
ReadContent(c) == c.snap \o (IF c.count > 0 THEN ReadOpEntries(c.ops) ELSE <<>>)

\* What a reader of the shard gets: nothing when there is no file, an error
\* (nothing, too) when it is cut short.
ReadShard ==
  IF \E i \in shard : inode[i].whole
  THEN ReadContent(inode[CHOOSE i \in shard : TRUE])
  ELSE <<>>

Readable == ToSet(ReadShard)

\* Inodes that a name or an open handle still refers to.
Referenced == shard \cup new \cup UNION {fd[p] : p \in Procs}

\* One write_all over what the inode already holds.  What sticks out behind
\* the new bytes is read as a bad entry.
Overlay(c, old) ==
  {c} \cup (IF old.header THEN {[c EXCEPT !.ops = Append(@, Torn)]} ELSE {})

\* A prefix of the bytes of c: no full header, or a header that announces
\* more snapshot than there is, or a bad last entry.
PartsOf(c) ==
  {Empty} \cup
  (IF c.hasSnap THEN {[c EXCEPT !.whole = FALSE]} ELSE {[c EXCEPT !.ops = <<Torn>>]})

Done(p) ==
  /\ pc' = [pc EXCEPT ![p] = "idle"]
  /\ fd' = [fd EXCEPT ![p] = {}]
  /\ buf' = [buf EXCEPT ![p] = {}]
  /\ shared' = shared \ {p}
  /\ exclusive' = (exclusive /\ p # "merge")

-----------------------------------------------------------------------------
Init ==
  /\ warm \in Starts
  /\ shard = (IF warm THEN {1} ELSE {}) /\ new = {}
  /\ inode = [i \in Inodes |-> IF i \in shard THEN SnapshotFile(<<>>) ELSE Empty]
  /\ exclusive = FALSE /\ shared = {}
  /\ pc = [p \in Procs |-> "idle"]
  /\ fd = [p \in Procs |-> {}]
  /\ buf = [p \in Procs |-> {}]
  /\ started = 0 /\ acked = {}
  /\ saves = 0 /\ crashes = 0 /\ torn = 0 /\ tornNew = 0 /\ errors = 0

\* append_op_opts up to its first write: the read lock, then either the open
\* of a file that has a header (and the read of its count) or a cold create.
AppendOp ==
  /\ pc["flush"] = "idle" /\ ~exclusive /\ started < MaxOps
  /\ started' = started + 1
  /\ shared' = shared \cup {"flush"}
  /\ LET o == started + 1
         valid == {i \in shard : inode[i].header}
     IN  IF valid # {}
         THEN /\ pc' = [pc EXCEPT !["flush"] = "entry"]
              /\ fd' = [fd EXCEPT !["flush"] = valid]
              /\ buf' = [buf EXCEPT !["flush"] =
                   {[ColdFile(o) EXCEPT !.count = inode[CHOOSE i \in valid : TRUE].count + 1]}]
         ELSE /\ pc' = [pc EXCEPT !["flush"] = "open"]
              /\ buf' = [buf EXCEPT !["flush"] = {ColdFile(o)}]
              /\ UNCHANGED fd
  /\ UNCHANGED <<warm, shard, new, inode, exclusive, acked, counters>>

\* Seek to the end and write the entry.
WriteEntry ==
  /\ pc["flush"] = "entry"
  /\ \E i \in fd["flush"], b \in buf["flush"] :
       inode' = [inode EXCEPT ![i].ops = @ \o b.ops]
  /\ pc' = [pc EXCEPT !["flush"] = "count"]
  /\ UNCHANGED <<warm, shard, new, exclusive, shared, fd, buf, started, acked, counters>>

\* The write fails half way (a full disk): the part that was written stays.
TornEntry ==
  /\ pc["flush"] = "entry" /\ torn < MaxTornAppends
  /\ torn' = torn + 1
  /\ \E i \in fd["flush"] : inode' = [inode EXCEPT ![i].ops = Append(@, Torn)]
  /\ Done("flush")
  /\ UNCHANGED <<warm, shard, new, started, acked, saves, crashes, tornNew, errors>>

\* Write the header's ops_count, computed from the header read at the open.
WriteCount ==
  /\ pc["flush"] = "count"
  /\ \E i \in fd["flush"], b \in buf["flush"] :
       inode' = [inode EXCEPT ![i].count = b.count]
  /\ acked' = acked \cup {started}
  /\ Done("flush")
  /\ UNCHANGED <<warm, shard, new, started, counters>>

\* Mutant: compaction under the read lock, beside a running append.
CompactShared ==
  /\ pc["merge"] = "idle"
  /\ \E i \in shard :
       /\ inode[i].whole /\ ~(inode[i].hasSnap /\ inode[i].count = 0)
       /\ buf' = [buf EXCEPT !["merge"] = {SnapshotFile(ReadContent(inode[i]))}]
  /\ exclusive' = TRUE
  /\ pc' = [pc EXCEPT !["merge"] = "open"]
  /\ UNCHANGED <<warm, shard, new, inode, shared, fd, started, acked, counters>>

\* compact_shard up to the rewrite: the write lock, the skip of a clean shard,
\* the read of snapshot and ops.  A shard cut short is an error: no rewrite.
CompactShard ==
  /\ pc["merge"] = "idle" /\ ~exclusive /\ shared = {}
  /\ \E i \in shard :
       /\ inode[i].whole /\ ~(inode[i].hasSnap /\ inode[i].count = 0)
       /\ buf' = [buf EXCEPT !["merge"] = {SnapshotFile(ReadContent(inode[i]))}]
  /\ exclusive' = TRUE
  /\ pc' = [pc EXCEPT !["merge"] = "open"]
  /\ UNCHANGED <<warm, shard, new, inode, shared, fd, started, acked, counters>>

\* write_snapshot up to the rewrite: only the read lock.  The snapshot given
\* to it is the published memory, which is ahead of the appends.
WriteSnapshot ==
  /\ pc["saver"] = "idle" /\ ~exclusive /\ saves < MaxSaves
  /\ saves' = saves + 1
  /\ shared' = shared \cup {"saver"}
  /\ buf' = [buf EXCEPT !["saver"] = {SnapshotFile([k \in 1 .. started |-> k])}]
  /\ pc' = [pc EXCEPT !["saver"] = "open"]
  /\ UNCHANGED <<warm, shard, new, inode, exclusive, fd, started, acked, crashes, torn, tornNew, errors>>

-----------------------------------------------------------------------------
(* write_shard_file_atomic, by any of the three.                           *)

\* Open ".new", created or truncated.
OpenNew(p) ==
  /\ pc[p] = "open"
  /\ \E i \in IF new # {} THEN new ELSE Inodes \ Referenced :
       /\ \A j \in Inodes \ Referenced : new = {} => i <= j
       /\ new' = {i}
       /\ inode' = [inode EXCEPT ![i] = Empty]
       /\ fd' = [fd EXCEPT ![p] = {i}]
  /\ pc' = [pc EXCEPT ![p] = "write"]
  /\ UNCHANGED <<warm, shard, exclusive, shared, buf, started, acked, counters>>

WriteNew(p) ==
  /\ pc[p] = "write"
  /\ \E i \in fd[p], b \in buf[p] :
       \E c \in Overlay(b, inode[i]) : inode' = [inode EXCEPT ![i] = c]
  /\ pc' = [pc EXCEPT ![p] = "sync"]
  /\ UNCHANGED <<warm, shard, new, exclusive, shared, fd, buf, started, acked, counters>>

\* Mutant: the result of write_all is dropped and the rewrite goes on.
TornNewIgnored(p) ==
  /\ pc[p] = "write" /\ tornNew < MaxTornRewrites
  /\ tornNew' = tornNew + 1
  /\ \E i \in fd[p], b \in buf[p] :
       \E c \in PartsOf(b) : inode' = [inode EXCEPT ![i] = c]
  /\ pc' = [pc EXCEPT ![p] = "sync"]
  /\ UNCHANGED <<warm, shard, new, exclusive, shared, fd, buf, started, acked, saves, crashes, torn, errors>>

\* write_all fails half way: the caller gets the error, ".new" stays.
TornNew(p) ==
  /\ pc[p] = "write" /\ tornNew < MaxTornRewrites
  /\ tornNew' = tornNew + 1
  /\ \E i \in fd[p], b \in buf[p] :
       /\ ~inode[i].header
       /\ \E c \in PartsOf(b) : inode' = [inode EXCEPT ![i] = c]
  /\ Done(p)
  /\ UNCHANGED <<warm, shard, new, started, acked, saves, crashes, torn, errors>>

SyncNew(p) ==
  /\ pc[p] = "sync"
  /\ pc' = [pc EXCEPT ![p] = "rename"]
  /\ UNCHANGED <<warm, shard, new, inode, exclusive, shared, fd, buf, started, acked, counters>>

\* The fsync or the rename fails: a complete ".new" stays.
RewriteFails(p) ==
  /\ pc[p] \in {"sync", "rename"} /\ errors < MaxIoErrors
  /\ errors' = errors + 1
  /\ Done(p)
  /\ UNCHANGED <<warm, shard, new, inode, started, acked, saves, crashes, torn, tornNew>>

\* Rename ".new", whichever inode it names by now, over the shard.  The name
\* is gone when the other holder of the read lock was first: an error.
RenameNew(p) ==
  /\ pc[p] = "rename"
  /\ IF new = {} THEN UNCHANGED <<shard, new, acked>>
     ELSE /\ shard' = new /\ new' = {}
          /\ acked' = IF p = "flush" THEN acked \cup {started} ELSE acked
  /\ Done(p)
  /\ UNCHANGED <<warm, inode, started, counters>>

-----------------------------------------------------------------------------
\* Mutant: the startup sweep deletes every orphan and the shard it shadows.
SweepDropsShard ==
  IF new = {} THEN shard ELSE {i \in new : inode[i].header /\ inode[i].hasSnap}

\* sweep_dir and new_file_is_promotable: an orphan ".new" replaces the shard
\* when its header is valid and announces a snapshot, and is deleted otherwise.
Sweep ==
  IF \E i \in new : inode[i].header /\ inode[i].hasSnap THEN new ELSE shard

\* The process dies and the store is opened again.  A write that the crash
\* cuts off is TornEntry or TornNew followed by this step.
Crash ==
  /\ crashes < MaxCrashes
  /\ crashes' = crashes + 1
  /\ shard' = Sweep
  /\ new' = {}
  /\ pc' = [p \in Procs |-> "idle"]
  /\ fd' = [p \in Procs |-> {}]
  /\ buf' = [p \in Procs |-> {}]
  /\ exclusive' = FALSE /\ shared' = {}
  /\ UNCHANGED <<warm, inode, started, acked, saves, torn, tornNew, errors>>

Rewrite(p) ==
  OpenNew(p) \/ WriteNew(p) \/ TornNew(p) \/ SyncNew(p) \/ RewriteFails(p) \/ RenameNew(p)

Next ==
  \/ AppendOp \/ WriteEntry \/ TornEntry \/ WriteCount
  \/ CompactShard
  \/ WriteSnapshot
  \/ \E p \in Procs : Rewrite(p)
  \/ Crash

Spec == Init /\ [][Next]_vars

-----------------------------------------------------------------------------
\* The type of the state; a process without an open file has no handle, and
\* the write lock excludes the read lock.
TypeOK ==
  /\ warm \in BOOLEAN
  /\ shard \subseteq Inodes /\ new \subseteq Inodes
  /\ Cardinality(shard) <= 1 /\ Cardinality(new) <= 1
  /\ inode \in [Inodes -> Content]
  /\ exclusive \in BOOLEAN /\ shared \subseteq {"flush", "saver"}
  /\ exclusive => shared = {}
  /\ pc \in [Procs -> {"idle", "entry", "count", "open", "write", "sync", "rename"}]
  /\ \A p \in Procs : fd[p] \subseteq Inodes /\ buf[p] \subseteq Content
  /\ started \in 0 .. MaxOps /\ acked \subseteq 1 .. started

\* No rewrite has failed or run beside appends under the shared lock.
Orderly == saves = 0 /\ tornNew = 0 /\ errors = 0

\* While no append was torn and no rewrite went wrong, every operation whose
\* append_op returned Ok is replayed by the next reader of the shard: through
\* cold creates, compactions, crashes at any step and the startup sweep.
AckedReadable == Orderly /\ torn = 0 => acked \subseteq Readable

\* Compaction, the sweep and restarts never take away an acknowledged
\* operation that a reader of the shard would have replayed before, also when
\* a torn entry sits in the ops log.
ReadableStays == [][Orderly' => acked \cap Readable \subseteq Readable']_vars

\* Replay applies acknowledged operations in the order of their appends: the
\* last time an operation is applied comes before the last time of any later
\* one, so a cleared bit is never set again by an older operation.
LastWriteWins ==
  LET s == ReadShard
      last(o) == CHOOSE k \in DOMAIN s : s[k] = o /\ \A j \in DOMAIN s : s[j] = o => j <= k
  IN  \A a, b \in acked \cap ToSet(s) : a < b => last(a) < last(b)

\* A rename never installs a file that ends inside its snapshot section: a
\* rewrite whose write failed leaves the shard as it was, until a restart.
ShardWhole == warm /\ crashes = 0 => \A i \in shard : inode[i].whole

\* The append_op_opts contract and the WAL replay need it: an acknowledged
\* operation can be read back, whatever write failed before it.
AckedOpsAreRead == acked \subseteq Readable

\* The sweep's comment: a file truncated before its fsync completed is
\* deleted, never promoted over the shard.
TruncatedNeverPromoted == crashes > 0 => \A i \in shard : inode[i].whole

\* The sweep's comment: promotion completes the interrupted compaction.  So
\* after a restart the shard replays every operation acknowledged before.
SweepLosesNothing == crashes > 0 => acked \subseteq Readable

\* The comment on write_shard_file_atomic: all writes are atomic, so the shard
\* can be decoded whoever else is writing it.
RewriteIsAtomic == \A i \in shard : inode[i].whole
=============================================================================
