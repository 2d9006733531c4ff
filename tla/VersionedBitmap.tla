-------------------------- MODULE VersionedBitmap --------------------------
(***************************************************************************)
(* A bitmap with a diff layer (versioned_bitmap.rs): the slots of the base *)
(* as last compacted, the slots added (`sets`) and removed (`clears`)      *)
(* since, and whether the base is real data or the empty placeholder of an *)
(* unloaded bitmap.  Copy on write and the generation counter are left     *)
(* out: a snapshot is the value itself.                                    *)
(***************************************************************************)
EXTENDS Integers

VersionedBitmaps(Slot) ==
  [base : SUBSET Slot, sets : SUBSET Slot, clears : SUBSET Slot, loaded : BOOLEAN]

New(bm) == [base |-> bm, sets |-> {}, clears |-> {}, loaded |-> TRUE]

NewEmpty == New({})

NewUnloaded == [NewEmpty EXCEPT !.loaded = FALSE]

InsertKeepsClears(v, bits) == [v EXCEPT !.sets = v.sets \cup bits]
InsertBulk(v, bits) ==
  [v EXCEPT !.sets = v.sets \cup bits, !.clears = v.clears \ bits]

RemoveBulk(v, bits) ==
  [v EXCEPT !.sets = v.sets \ bits, !.clears = v.clears \cup bits]

IsDirty(v) == v.sets # {} \/ v.clears # {}

Contains(v, bit) == bit \in v.sets \/ (bit \in v.base /\ bit \notin v.clears)

FusedContains(v, bit) ==
  IF ~IsDirty(v) THEN bit \in v.base
  ELSE bit \in v.sets \/ (bit \notin v.clears /\ bit \in v.base)

ApplyDiff(v, candidates) ==
  ((candidates \cap v.base) \cup (candidates \cap v.sets)) \ v.clears

Fused(v) == IF IsDirty(v) THEN (v.base \cup v.sets) \ v.clears ELSE v.base

(* merge(): nothing happens to a clean bitmap, nor to an unloaded one,     *)
(* whose pending clears would be lost against the empty placeholder.       *)
MergeUnloaded(v) == IF IsDirty(v) THEN New(Fused(v)) ELSE v
Merge(v) == IF IsDirty(v) /\ v.loaded THEN New(Fused(v)) ELSE v

ClearBaseAndUnload(v) == [v EXCEPT !.base = {}, !.loaded = FALSE]

MarkLoaded(v) == [v EXCEPT !.loaded = TRUE]

LoadBaseOnly(v, bm) == New(v.base \cup bm)
LoadBase(v, bm) == [v EXCEPT !.base = v.base \cup bm, !.loaded = TRUE]

(* replace_base_preserve_diff(): the loaded guard keeps a resident base    *)
(* with data.                                                              *)
ReplaceBaseDropDiff(v, bm) == New(bm)
ReplaceBasePreserveDiff(v, bm) ==
  IF v.loaded /\ v.base # {} THEN v ELSE [v EXCEPT !.base = bm, !.loaded = TRUE]

(* The two sides of the diff never share a slot, which BitmapDiff promises *)
(* and every reader relies on.                                             *)
Disjoint(v) == v.sets \cap v.clears = {}
=============================================================================
