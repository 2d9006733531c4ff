------------------------------- MODULE OpsWal -------------------------------
(***************************************************************************)
(* The ops WAL: generation files, the writer behind POST /ops, the WAL     *)
(* reader thread with its read_batch loop, retention keyed to the          *)
(* persisted cursor, and crashes.                                          *)
(*                                                                         *)
(* A record takes two cells of its file, so that it can be torn between    *)
(* them: operation n is written as the cells n and -n.  An append carries  *)
(* one record; a resent batch is a new operation.  A cursor is a pair      *)
(* <<generation, offset in cells>>; generation 0, the legacy file, does    *)
(* not exist.                                                              *)
(***************************************************************************)
EXTENDS Integers, Sequences, FiniteSets, FiniteSetsExt

CONSTANTS
    RotationSize, \* cells at which the writer rotates
    MaxRecords,   \* max_records of one read_batch
    MaxOps,       \* bound: appends
    MaxCrashes,   \* bound: crashes of the process
    MaxOsCrashes, \* bound: crashes of the machine
    MaxTears,     \* bound: appends that fail, and records torn by a crash
    MaxDrops      \* bound: deletions of the index

ASSUME WalAssumption ==
    /\ RotationSize \in Nat \ {0} /\ MaxRecords \in Nat \ {0}
    /\ MaxOps \in Nat /\ MaxCrashes \in Nat /\ MaxOsCrashes \in Nat
    /\ MaxTears \in Nat /\ MaxDrops \in Nat

Gens == 1 .. (MaxOps + 1)
Start == <<0, 0>>

VARIABLES
    file,      \* cells of every generation
    exists,    \* generations whose file exists
    acked,     \* operations acknowledged to the client
    \* writer
    wpc,       \* "idle" | "head" | "tail" | "sync"
    wgen, wop,
    \* WAL reader thread
    rpc,       \* "top" | "hop" | "read" | "recheck" | "batch"
    cursor,    \* position of the reader
    before,    \* offset before the last read_file, to detect progress
    entries,   \* operations of the batch under construction
    bytes,     \* its bytes_read
    lastRetention,
    \* engine
    indexed,   \* an index is loaded
    memCursor, cursorSnap, durable,
    applied,   \* operations whose application the current cursors stand for
    crashes, osCrashes, tears, drops

writerVars == <<wpc, wgen, wop>>
readerVars == <<rpc, cursor, before, entries, bytes, lastRetention>>
engineVars == <<indexed, memCursor, cursorSnap, durable, applied>>
vars == <<file, exists, acked, writerVars, readerVars, engineVars, crashes, osCrashes, tears, drops>>

Init ==
    /\ file = [g \in Gens |-> <<>>] /\ exists = {} /\ acked = {}
    /\ wpc = "idle" /\ wgen = 1 /\ wop = 0
    /\ rpc = "top" /\ cursor = Start /\ before = 0
    /\ entries = {} /\ bytes = 0 /\ lastRetention = 0
    /\ indexed = TRUE /\ memCursor = Start /\ cursorSnap = Start /\ durable = Start
    /\ applied = {}
    /\ crashes = 0 /\ osCrashes = 0 /\ tears = 0 /\ drops = 0
-----------------------------------------------------------------------------
(* append_batch: rotation check, open (creating the file) ...              *)
Open ==
    /\ wpc = "idle" /\ wop < MaxOps /\ indexed
    /\ LET gen == IF Len(file[wgen]) >= RotationSize THEN wgen + 1 ELSE wgen
       IN  wgen' = gen /\ exists' = exists \cup {gen}
    /\ wpc' = "head" /\ wop' = wop + 1
    /\ UNCHANGED <<file, acked, readerVars, engineVars, crashes, osCrashes, tears, drops>>

(* ... the writes of a record, which another thread sees one by one ...    *)
Write(from, cell, to) ==
    /\ wpc = from
    /\ file' = [file EXCEPT ![wgen] = Append(@, cell)]
    /\ wpc' = to
    /\ UNCHANGED <<exists, acked, wgen, wop, readerVars, engineVars, crashes, osCrashes, tears, drops>>

WriteHead == Write("head", wop, "tail")
WriteTail == Write("tail", -wop, "sync")

(* ... sync_all, and the answer 200 ...                                    *)
Sync ==
    /\ wpc = "sync"
    /\ wpc' = "idle" /\ acked' = acked \cup {wop}
    /\ UNCHANGED <<file, exists, wgen, wop, readerVars, engineVars, crashes, osCrashes, tears, drops>>

(* ... or an error at any of them: 500, and what was written stays.        *)
WriteFails ==
    /\ wpc # "idle" /\ tears < MaxTears
    /\ wpc' = "idle" /\ tears' = tears + 1
    /\ UNCHANGED <<file, exists, acked, wgen, wop, readerVars, engineVars, crashes, osCrashes, drops>>
-----------------------------------------------------------------------------
(* next_gen: the first generation after the cursor's.                      *)
NextNumber == {cursor[1] + 1} \* mutant: the directory is not listed
Later == {g \in exists : g > cursor[1]}

(* read_batch, top of the loop: a missing file is hopped over, the size of *)
(* an existing one is compared with the cursor.                            *)
Top ==
    /\ rpc = "top"
    /\ rpc' = IF cursor[1] \in exists /\ cursor[2] < Len(file[cursor[1]])
              THEN "read" ELSE "hop"
    /\ UNCHANGED <<file, exists, acked, writerVars, cursor, before, entries, bytes,
                   lastRetention, engineVars, crashes, osCrashes, tears, drops>>

(* The next generation, if there is one, is entered at its start.          *)
Hop ==
    /\ rpc = "hop"
    /\ \/ /\ Later # {}
          /\ cursor' = <<Min(Later), 0>> /\ rpc' = "top"
       \/ /\ Later = {}
          /\ rpc' = "batch" /\ UNCHANGED cursor
    /\ UNCHANGED <<file, exists, acked, writerVars, before, entries, bytes,
                   lastRetention, engineVars, crashes, osCrashes, tears, drops>>

(* A complete record: both cells of the same operation.                    *)
IsRecord(cells, i) == i + 1 <= Len(cells) /\ cells[i] > 0 /\ cells[i + 1] = -cells[i]

(* The records read_file decodes from an offset, up to a limit.            *)
Decodable(cells, offset, limit) ==
    Max({n \in 0 .. limit : \A k \in 1 .. n : IsRecord(cells, offset + 2 * k - 1)})

(* Where read_file stops: a torn record that other bytes follow is read    *)
(* with the length in its header, fails its CRC and is jumped over; where  *)
(* the jump ends depends on that length.  At the end of the file it waits. *)
StopsAt(cells, offset, limit) ==
    LET n   == Decodable(cells, offset, limit)
        end == offset + 2 * n
        torn == n < limit /\ end < Len(cells) /\ ~(end + 1 = Len(cells) /\ cells[end + 1] > 0)
    IN  {end} \cup (IF torn THEN (end + 1) .. Len(cells) ELSE {})

ReadFile ==
    /\ rpc = "read"
    /\ LET cells == file[cursor[1]]
           limit == MaxRecords - Cardinality(entries)
           n     == Decodable(cells, cursor[2], limit)
           found == {cells[cursor[2] + 2 * k - 1] : k \in 1 .. n}
       IN  \E end \in StopsAt(cells, cursor[2], limit) :
              /\ cursor' = <<cursor[1], end>>
              /\ before' = cursor[2]
              /\ bytes' = bytes + end - cursor[2]
              /\ entries' = entries \cup found
              /\ rpc' = IF Cardinality(entries \cup found) >= MaxRecords THEN "batch" ELSE "recheck"
    /\ UNCHANGED <<file, exists, acked, writerVars, lastRetention, engineVars,
                   crashes, osCrashes, tears, drops>>

(* read_file did not move the cursor.                                      *)
WaitForMore == FALSE \* mutant: undecodable bytes are waited on for ever
NoProgress == cursor[2] = before

(* The size is taken again.  At the end of the file, or when nothing could *)
(* be decoded, the next generation is tried.                               *)
Recheck ==
    /\ rpc = "recheck"
    /\ rpc' = IF cursor[2] >= Len(file[cursor[1]]) \/ NoProgress THEN "hop" ELSE "batch"
    /\ UNCHANGED <<file, exists, acked, writerVars, cursor, before, entries, bytes,
                   lastRetention, engineVars, crashes, osCrashes, tears, drops>>

(* The next read_batch begins at a cursor.                                 *)
NextBatch(at) == rpc' = "top" /\ cursor' = at /\ entries' = {} /\ bytes' = 0

(* The generation below which the reader deletes: that of the persisted    *)
(* cursor, looked up once the reader has moved on.                         *)
ReaderGen == cursor[1] \* mutant: the generation the reader has reached
RetentionGen == durable[1]

(* The batch is applied, the cursor stored, old generations deleted.       *)
ApplyBatch ==
    /\ rpc = "batch" /\ entries # {} /\ indexed
    /\ applied' = applied \cup entries
    /\ memCursor' = cursor
    /\ NextBatch(cursor)
    /\ IF cursor[1] > lastRetention /\ RetentionGen > lastRetention
       THEN /\ exists' = {g \in exists : g >= RetentionGen}
            /\ lastRetention' = RetentionGen
       ELSE UNCHANGED <<exists, lastRetention>>
    /\ UNCHANGED <<file, acked, writerVars, before, indexed, cursorSnap, durable,
                   crashes, osCrashes, tears, drops>>

(* Nothing was read.                                                       *)
EmptyBatch ==
    /\ rpc = "batch" /\ entries = {}
    /\ NextBatch(cursor)
    /\ UNCHANGED <<file, exists, acked, writerVars, before, lastRetention, engineVars,
                   crashes, osCrashes, tears, drops>>

(* No index is loaded: the cursor is moved back by bytes_read.             *)
Unprocessed == cursor[2] \* mutant: the operations are not read again
RewoundOffset == IF cursor[2] >= bytes THEN cursor[2] - bytes ELSE 0

Rewind ==
    /\ rpc = "batch" /\ entries # {} /\ ~indexed
    /\ NextBatch(<<cursor[1], RewoundOffset>>)
    /\ UNCHANGED <<file, exists, acked, writerVars, before, lastRetention, engineVars,
                   crashes, osCrashes, tears, drops>>
-----------------------------------------------------------------------------
(* The merge thread: a snapshot of the cursor, written later.              *)
SnapCursor ==
    /\ cursorSnap' = memCursor
    /\ UNCHANGED <<file, exists, acked, writerVars, readerVars, indexed, memCursor,
                   durable, applied, crashes, osCrashes, tears, drops>>

PersistCursor ==
    /\ indexed
    /\ durable' = cursorSnap
    /\ UNCHANGED <<file, exists, acked, writerVars, readerVars, indexed, memCursor,
                   cursorSnap, applied, crashes, osCrashes, tears, drops>>

(* DELETE of the index: engine and persisted cursor are gone.              *)
DropIndex ==
    /\ indexed /\ drops < MaxDrops
    /\ drops' = drops + 1 /\ indexed' = FALSE
    /\ memCursor' = Start /\ cursorSnap' = Start /\ durable' = Start
    /\ UNCHANGED <<file, exists, acked, writerVars, readerVars, applied, crashes, osCrashes, tears>>

CreateIndex ==
    /\ ~indexed /\ indexed' = TRUE
    /\ UNCHANGED <<file, exists, acked, writerVars, readerVars, memCursor, cursorSnap,
                   durable, applied, crashes, osCrashes, tears, drops>>

(* The cursor has passed operation op, or op is gone.                      *)
Passed(op, at) ==
    \A g \in exists : \A i \in 1 .. Len(file[g]) :
        file[g][i] = op => g < at[1] \/ (g = at[1] /\ i <= at[2])

(* A boot on the files as they are, the last one cut to some cells: the    *)
(* reader starts at the persisted cursor and deletes what lies below it.   *)
Torn(cells) == wpc # "idle" /\ cells # <<>> /\ cells[Len(cells)] > 0

Boot(cells) ==
    /\ file' = [file EXCEPT ![wgen] = cells]
    /\ tears' = IF Torn(cells) THEN tears + 1 ELSE tears
    /\ tears' <= MaxTears
    /\ wpc' = "idle" /\ wgen' = Max(exists \cup {1})
    /\ NextBatch(durable) /\ before' = 0 /\ lastRetention' = durable[1]
    /\ exists' = {g \in exists : g >= durable[1]}
    /\ memCursor' = durable /\ cursorSnap' = durable
    /\ applied' = {op \in applied : Passed(op, durable)}
    /\ UNCHANGED <<acked, wop, indexed, durable, drops>>

(* The process dies: what was written stays, a half-written record torn.   *)
Crash ==
    /\ crashes < MaxCrashes
    /\ crashes' = crashes + 1
    /\ Boot(file[wgen])
    /\ UNCHANGED osCrashes

(* The machine dies: any cells of the record not synced yet are lost.      *)
OsCrash ==
    /\ osCrashes < MaxOsCrashes
    /\ osCrashes' = osCrashes + 1
    /\ \E n \in {n \in 0 .. Len(file[wgen]) :
                   \A i \in (n + 1) .. Len(file[wgen]) :
                       wpc # "idle" /\ file[wgen][i] \in {wop, -wop}} :
          Boot(SubSeq(file[wgen], 1, n))
    /\ UNCHANGED crashes

Writer == Open \/ WriteHead \/ WriteTail \/ Sync \/ WriteFails
Reader == Top \/ Hop \/ ReadFile \/ Recheck \/ ApplyBatch \/ EmptyBatch \/ Rewind
Merge  == SnapCursor \/ PersistCursor

Next == Writer \/ Reader \/ Merge \/ DropIndex \/ CreateIndex \/ Crash \/ OsCrash

Spec == Init /\ [][Next]_vars

(* The reader thread loops, and a deleted index is created again.          *)
FairSpec == Spec /\ WF_vars(Reader) /\ WF_vars(CreateIndex)
-----------------------------------------------------------------------------
Cursors == (0 .. MaxOps + 1) \X (0 .. 2 * MaxOps)

(* The state is well formed; every cursor is a place of a generation.      *)
TypeOK ==
    /\ file \in [Gens -> Seq((-MaxOps) .. MaxOps)] /\ exists \subseteq Gens
    /\ acked \subseteq 1 .. MaxOps /\ applied \subseteq 1 .. MaxOps /\ entries \subseteq 1 .. MaxOps
    /\ wpc \in {"idle", "head", "tail", "sync"} /\ wgen \in Gens /\ wop \in 0 .. MaxOps
    /\ rpc \in {"top", "hop", "read", "recheck", "batch"}
    /\ cursor \in Cursors
    /\ memCursor \in Cursors /\ cursorSnap \in Cursors /\ durable \in Cursors
    /\ before \in Nat /\ bytes \in Nat /\ lastRetention \in Nat
    /\ indexed \in BOOLEAN

(* Retention never deletes what a crash would have to replay: of the       *)
(* generations that were ever written, the ones at or above the persisted  *)
(* cursor's are still there.  Deleting the index gives up its cursor.      *)
RetentionSafe ==
    drops = 0 => \A g \in 1 .. wgen : g >= durable[1] /\ file[g] # <<>> => g \in exists

(* At-least-once: an acknowledged operation the reader has passed is in    *)
(* the batch it is building or has been applied, across process crashes    *)
(* and the rewind for a missing index.  It is claimed of the first         *)
(* generation, before a record was torn and before a machine crash.        *)
AckedNotPassed ==
    wgen = 1 /\ tears = 0 /\ osCrashes = 0 =>
        \A op \in acked : Passed(op, cursor) => op \in applied \cup entries

(* The reader does not stall on bytes it cannot decode: it ends at the     *)
(* last generation, with nothing decodable left in it.                     *)
ReaderDrains ==
    <>[](exists = {} \/ /\ cursor[1] = Max(exists)
                        /\ Decodable(file[cursor[1]], cursor[2], 1) = 0)
-----------------------------------------------------------------------------
(* "If a higher gen exists, the writer has moved on and these bytes are    *)
(* unrecoverable" (read_batch): what a hop leaves behind could not have    *)
(* been decoded.                                                           *)
HopLeavesNothing ==
    [][rpc = "hop" /\ cursor'[1] # cursor[1] /\ cursor[1] \in exists =>
          Decodable(file[cursor[1]], cursor[2], 1) = 0]_vars

(* "the durable cursor never advances past durable state" (the WAL reader  *)
(* thread): the persisted cursor lies within what is synced.               *)
CursorWithinSynced ==
    \A i \in 1 .. Len(file[wgen]) :
        wpc # "idle" /\ file[wgen][i] \in {wop, -wop} => durable[1] # wgen \/ durable[2] < i

(* "Partial records at EOF are detected by CRC check and skipped": the     *)
(* skip takes no acknowledged record with it.                              *)
SkipsOnlyPartial ==
    [][rpc = "read" /\ rpc' \in {"recheck", "batch"} =>
          \A i \in (cursor[2] + 1) .. cursor'[2] :
              file[cursor[1]][i] \in acked => file[cursor[1]][i] \in entries']_vars

(* "reset cursor so these ops will be re-read on the next iteration        *)
(* (prevents data loss)": after a rewind the batch lies ahead again.       *)
RewindRereads ==
    [][rpc = "batch" /\ ~indexed /\ rpc' = "top" /\ lastRetention' = lastRetention =>
          \A op \in entries : ~Passed(op, cursor')]_vars
=============================================================================
