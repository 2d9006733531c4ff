------------------------------ MODULE LazyLoad ------------------------------
(***************************************************************************)
(* One bitmap of the engine while its base comes from disk on demand:      *)
(* queries read the shard file and hand the image to the flush thread,     *)
(* which applies operations, compacts, appends to the ops-log and drains   *)
(* the images, all beside the queries.  `kind` says which bitmap it is:    *)
(*   "value"  one value of a per-value lazy filter field;                  *)
(*   "field"  one value of a filter field that is loaded as a whole;       *)
(*   "layer"  one bit layer of a sort field.                               *)
(* The flush thread is sequential: between the apply of a batch and its    *)
(* ops-log append it may compact, but it neither drains nor evicts.        *)
(***************************************************************************)
EXTENDS VersionedBitmap

CONSTANTS
  Slot,          \* document slots
  Kinds,         \* the kinds of bitmap considered
  Loader,        \* queries whose loads may be under way at the same time
  EarlyMerge,    \* a sort layer may be promoted before its boot-time load
  MaxBatches     \* bound: batches of operations

ASSUME LazyAssumption ==
  /\ Kinds \subseteq {"value", "field", "layer"}
  /\ EarlyMerge \in BOOLEAN
  /\ MaxBatches \in Nat

VARIABLES
  kind,          \* of the bitmap
  vb,            \* the bitmap in staging, a set of at most one element
  disk,          \* what a replay of the shard file yields
  unlogged,      \* the batch that is applied and not yet in the ops-log
  known,         \* the value is in the field's existence set
  pending,       \* the field is in pending_filter_loads / pending_sort_loads
  adopted,       \* a load has been drained since the start
  stage, image,  \* per load: how far it is, and what it read
  overlap,       \* ghost: since the last eviction, a load began while another was under way
  truth,         \* the slots that the operations so far leave set
  batches

vars == <<kind, vb, disk, unlogged, known, pending, adopted, stage, image, overlap, truth,
          batches>>

Batch == [ins : SUBSET Slot, rem : SUBSET Slot]

NoBatch == [ins |-> {}, rem |-> {}]

Stages == {"none", "missing", "read", "sent"}

Loaded(v) == \E x \in v : x.loaded

(* The state a restart leaves: nothing resident for a filter value, an     *)
(* empty placeholder that counts as loaded for a sort layer, and every     *)
(* field that is loaded as a whole registered as pending.                  *)
Init ==
  /\ kind \in Kinds
  /\ disk \in SUBSET Slot
  /\ truth = disk
  /\ vb = IF kind = "layer" THEN {NewEmpty} ELSE {}
  /\ unlogged = NoBatch
  /\ known = (disk # {})
  /\ pending = (kind # "value")
  /\ adopted = FALSE
  /\ stage = [l \in Loader |-> "none"]
  /\ image = [l \in Loader |-> {}]
  /\ overlap = FALSE
  /\ batches = 0

(* A query finds its bitmap not resident: per value from the snapshot and  *)
(* the existence set, for whole fields from the pending set.               *)
Missing == IF kind = "value" THEN ~Loaded(vb) /\ known ELSE pending

EnsureFieldsLoaded(l) ==
  /\ stage[l] = "none"
  /\ Missing
  /\ stage' = [stage EXCEPT ![l] = "missing"]
  /\ overlap' = (overlap \/ \E k \in Loader : stage[k] # "none")
  /\ UNCHANGED <<kind, vb, disk, unlogged, known, pending, adopted, image, truth, batches>>

(* The disk read, outside every lock of the engine.                        *)
ReadDisk(l) ==
  /\ stage[l] = "missing"
  /\ stage' = [stage EXCEPT ![l] = "read"]
  /\ image' = [image EXCEPT ![l] = disk]
  /\ UNCHANGED <<kind, vb, disk, unlogged, known, pending, adopted, overlap, truth, batches>>

(* The image goes into the lazy channel, then the field stops being        *)
(* pending, before anything of it is in staging.                           *)
SendLoad(l) ==
  /\ stage[l] = "read"
  /\ stage' = [stage EXCEPT ![l] = "sent"]
  /\ pending' = FALSE
  /\ UNCHANGED <<kind, vb, disk, unlogged, known, adopted, image, overlap, truth, batches>>

(* load_values, load_field_complete and load_layers, for one bitmap.  An   *)
(* empty image stands for a value without an entry on disk.                *)
LoadBeside(v, bm) == v \cup {LoadBase(NewUnloaded, bm)}
LoadInto(v, bm) ==
  IF kind = "layer" THEN {ReplaceBasePreserveDiff(x, bm) : x \in v}
  ELSE IF v # {} THEN {LoadBase(x, bm) : x \in v}
  ELSE IF kind = "field" /\ bm = {} THEN {}
  ELSE {LoadBase(NewUnloaded, bm)}

(* The flush thread takes an image off the channel.  Reads and sends of    *)
(* different queries interleave freely, so any order of images can arise.  *)
DrainLoad(l) ==
  /\ stage[l] = "sent"
  /\ unlogged = NoBatch
  /\ vb' = LoadInto(vb, image[l])
  /\ adopted' = TRUE
  /\ stage' = [stage EXCEPT ![l] = "none"]
  /\ image' = [image EXCEPT ![l] = {}]
  /\ UNCHANGED <<kind, disk, unlogged, known, pending, overlap, truth, batches>>

(* The bitmap an operation finds or creates: an insert into a field that   *)
(* is not lazy seeds a resident bitmap, a remove always a placeholder.     *)
SeedResident(ins) == IF vb = {} THEN {NewEmpty} ELSE vb
Seeded(ins) ==
  IF vb # {} THEN vb
  ELSE IF kind = "field" /\ ins # {} THEN {NewEmpty}
  ELSE {NewUnloaded}

(* One coalesced batch: per slot only its last operation is left, so the   *)
(* inserts and removes are disjoint.                                       *)
ApplyForgetsKey ==
  /\ unlogged = NoBatch
  /\ batches < MaxBatches
  /\ \E b \in Batch :
       /\ b # NoBatch
       /\ b.ins \cap b.rem = {}
       /\ vb' = {RemoveBulk(InsertBulk(x, b.ins), b.rem) : x \in Seeded(b.ins)}
       /\ unlogged' = b
       /\ truth' = (truth \cup b.ins) \ b.rem
  /\ batches' = batches + 1
  /\ UNCHANGED <<kind, disk, known, pending, adopted, stage, image, overlap>>
ApplyBatch ==
  /\ unlogged = NoBatch
  /\ batches < MaxBatches
  /\ \E b \in Batch :
       /\ b # NoBatch
       /\ b.ins \cap b.rem = {}
       /\ vb' = {RemoveBulk(InsertBulk(x, b.ins), b.rem) : x \in Seeded(b.ins)}
       /\ unlogged' = b
       /\ known' = (known \/ b.ins # {})
       /\ truth' = (truth \cup b.ins) \ b.rem
  /\ batches' = batches + 1
  /\ UNCHANGED <<kind, disk, pending, adopted, stage, image, overlap>>

(* Compaction of dirty filter diffs, or the sort promote.                  *)
MergeDirty ==
  /\ \E x \in vb : IsDirty(x)
  /\ kind = "layer" => EarlyMerge \/ adopted
  /\ vb' = {Merge(x) : x \in vb}
  /\ UNCHANGED <<kind, disk, unlogged, known, pending, adopted, stage, image, overlap, truth, batches>>

(* The batch reaches the ops-log.                                          *)
AppendOps ==
  /\ unlogged # NoBatch
  /\ disk' = (disk \cup unlogged.ins) \ unlogged.rem
  /\ unlogged' = NoBatch
  /\ UNCHANGED <<kind, vb, known, pending, adopted, stage, image, overlap, truth, batches>>

(* The idle sweep drops clean values.  Every query stamps its values       *)
(* before it loads them and the idle window is far longer than a load, so  *)
(* a value with a load under way is not idle.                              *)
EvictIdle ==
  /\ kind = "value"
  /\ unlogged = NoBatch
  /\ \E x \in vb : ~IsDirty(x)
  /\ \A l \in Loader : stage[l] = "none"
  /\ vb' = {}
  /\ overlap' = FALSE
  /\ UNCHANGED <<kind, disk, unlogged, known, pending, adopted, stage, image, truth, batches>>

Next ==
  \/ \E l \in Loader : EnsureFieldsLoaded(l) \/ ReadDisk(l) \/ SendLoad(l) \/ DrainLoad(l)
  \/ ApplyBatch
  \/ MergeDirty
  \/ AppendOps
  \/ EvictIdle

Spec == Init /\ [][Next]_vars

-----------------------------------------------------------------------------
(* The state is well formed: one bitmap at most, over the slots.           *)
TypeOK ==
  /\ kind \in Kinds
  /\ vb = {} \/ \E x \in VersionedBitmaps(Slot) : vb = {x}
  /\ disk \in SUBSET Slot
  /\ unlogged \in Batch
  /\ known \in BOOLEAN
  /\ pending \in BOOLEAN
  /\ adopted \in BOOLEAN
  /\ stage \in [Loader -> Stages]
  /\ image \in [Loader -> SUBSET Slot]
  /\ overlap \in BOOLEAN
  /\ truth \in SUBSET Slot
  /\ batches \in Nat

(* The bitmap answers queries without another load.                        *)
Serving == IF kind = "value" THEN Loaded(vb) ELSE adopted

Answer == UNION {Fused(x) : x \in vb}

(* What a load of bm leaves of a bitmap that is not resident, under the   *)
(* diff that has gathered meanwhile.                                       *)
AfterLoad(bm) == IF vb = {} THEN bm ELSE UNION {(bm \cup x.sets) \ x.clears : x \in vb}

(* The images that a load may bring: those already read, and the shard     *)
(* file with the batch on its way to it.                                   *)
Reading == {l \in Loader : stage[l] \in {"read", "sent"}}

Images == {(disk \cup unlogged.ins) \ unlogged.rem} \cup {image[l] : l \in Reading}

(* A slot that the operations so far leave set is in the answer of every   *)
(* resident bitmap, whatever loads, compactions and evictions interleaved: *)
(* no load drops an operation that came while the base was away, and none  *)
(* regresses a base that already holds newer data (load_base's OR, the     *)
(* loaded guard, the diff kept by merge()).                                *)
NothingLost == Serving => truth \subseteq Answer

(* While a lazy value is away, every image that a load can bring, also    *)
(* one read several batches ago, is under the gathered diff exactly what   *)
(* the operations say (remove() keeps a placeholder, merge_dirty()         *)
(* requeues what it cannot merge, eviction drops only clean values).       *)
ReloadIsTruth ==
  kind = "value" /\ ~Serving => \A bm \in Images : AfterLoad(bm) = truth

(* A query on a value outside the existence set skips the load; then there *)
(* is nothing to find (existing_keys is extended before the publish).      *)
UnknownIsEmpty == kind = "value" /\ ~known => truth = {}

(* If no two loads of a lazy value overlapped since it was last evicted,   *)
(* a resident bitmap is exact: removed slots do not come back either.      *)
ResidentIsTruth == kind = "value" /\ ~overlap /\ Serving => Answer = truth

(* load_base is exact: "the OR merges the persisted data into whatever     *)
(* placeholder state exists" (versioned_bitmap.rs).                        *)
LoadIsExact == Serving => Answer = truth
=============================================================================
