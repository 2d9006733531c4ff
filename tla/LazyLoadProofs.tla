--------------------------- MODULE LazyLoadProofs ---------------------------
(***************************************************************************)
(* Proofs about versioned bitmaps and about the loads of a lazy filter     *)
(* value, for every set of slots, every number of overlapping queries and  *)
(* every number of batches.                                                *)
(***************************************************************************)
EXTENDS LazyLoad, TLAPS

(* A leaf goes to the SMT solver, with ample time for a slow machine; the  *)
(* few that need first-order reasoning alone name Zenon.                   *)
USE SMTT(60)

(* The readers of a bitmap agree: fused() is base | sets - clears, also on *)
(* its fast path for a clean diff.                                         *)
LEMMA FusedIs ==
    ASSUME NEW S, NEW v \in VersionedBitmaps(S)
    PROVE  Fused(v) = (v.base \cup v.sets) \ v.clears
BY DEF Fused, IsDirty, VersionedBitmaps

(* apply_diff() against candidates is the fused bitmap cut to them.        *)
THEOREM ApplyDiffCorrect ==
    ASSUME NEW S, NEW v \in VersionedBitmaps(S), NEW c \in SUBSET S
    PROVE  ApplyDiff(v, c) = c \cap Fused(v)
BY FusedIs DEF ApplyDiff, VersionedBitmaps

(* Both point queries, contains() and fused_contains(), say what fused()   *)
(* holds, given that the diff never has a slot on both sides.              *)
THEOREM PointReadsAgree ==
    ASSUME NEW S, NEW v \in VersionedBitmaps(S), Disjoint(v), NEW s \in S
    PROVE  /\ Contains(v, s) <=> s \in Fused(v)
           /\ FusedContains(v, s) <=> s \in Fused(v)
BY FusedIs DEF Contains, FusedContains, IsDirty, Disjoint, VersionedBitmaps

(* A batch does to the fused bitmap what it says, and keeps the two sides  *)
(* of the diff apart.                                                      *)
LEMMA BatchOnDiff ==
    ASSUME NEW S, NEW v \in VersionedBitmaps(S), Disjoint(v),
           NEW i \in SUBSET S, NEW r \in SUBSET S, i \cap r = {},
           NEW w, w = RemoveBulk(InsertBulk(v, i), r)
    PROVE  /\ w \in VersionedBitmaps(S)
           /\ w.base = v.base /\ w.loaded = v.loaded
           /\ w.sets = (v.sets \cup i) \ r
           /\ w.clears = (v.clears \ i) \cup r
           /\ Disjoint(w)
           /\ Fused(w) = (Fused(v) \cup i) \ r
<1>1. /\ w \in VersionedBitmaps(S)
      /\ w.base = v.base /\ w.loaded = v.loaded
      /\ w.sets = (v.sets \cup i) \ r
      /\ w.clears = (v.clears \ i) \cup r
  BY ZenonT(60) DEF RemoveBulk, InsertBulk, VersionedBitmaps
<1>2. Disjoint(w)
  BY <1>1 DEF Disjoint
<1>3. Fused(w) = (w.base \cup w.sets) \ w.clears
  BY <1>1, FusedIs
<1>4. Fused(v) = (v.base \cup v.sets) \ v.clears
  BY FusedIs
<1>5. Fused(w) = (Fused(v) \cup i) \ r
  BY <1>1, <1>3, <1>4 DEF Disjoint
<1> QED
  BY <1>1, <1>2, <1>5

(* merge() changes no answer, and leaves an unloaded bitmap as it is.      *)
THEOREM MergeKeepsFused ==
    ASSUME NEW S, NEW v \in VersionedBitmaps(S), Disjoint(v)
    PROVE  /\ Merge(v) \in VersionedBitmaps(S)
           /\ Disjoint(Merge(v))
           /\ Fused(Merge(v)) = Fused(v)
           /\ Merge(v).loaded = v.loaded
           /\ ~v.loaded => Merge(v) = v
<1>1. CASE IsDirty(v) /\ v.loaded
  <2>1. Fused(v) \in SUBSET S
    BY FusedIs DEF VersionedBitmaps
  <2>2. Merge(v) = [base |-> Fused(v), sets |-> {}, clears |-> {}, loaded |-> TRUE]
    BY <1>1 DEF Merge, New
  <2>3. Merge(v) \in VersionedBitmaps(S) /\ Disjoint(Merge(v)) /\ Merge(v).loaded
    BY <2>1, <2>2 DEF VersionedBitmaps, Disjoint
  <2>4. Fused(Merge(v)) = Fused(v)
    BY <2>2, <2>3, FusedIs
  <2> QED
    BY <1>1, <2>3, <2>4 DEF VersionedBitmaps
<1>2. CASE ~(IsDirty(v) /\ v.loaded)
  BY <1>2 DEF Merge
<1> QED
  BY <1>1, <1>2

(* load_base() adds the image under the diff, which stays.                 *)
LEMMA LoadBaseAdds ==
    ASSUME NEW S, NEW v \in VersionedBitmaps(S), Disjoint(v), NEW bm \in SUBSET S
    PROVE  /\ LoadBase(v, bm) \in VersionedBitmaps(S)
           /\ Disjoint(LoadBase(v, bm))
           /\ LoadBase(v, bm).loaded
           /\ Fused(LoadBase(v, bm)) = (v.base \cup bm \cup v.sets) \ v.clears
<1>1. /\ LoadBase(v, bm) \in VersionedBitmaps(S)
      /\ LoadBase(v, bm).loaded
      /\ LoadBase(v, bm).base = v.base \cup bm
      /\ LoadBase(v, bm).sets = v.sets
      /\ LoadBase(v, bm).clears = v.clears
  BY ZenonT(60) DEF LoadBase, VersionedBitmaps
<1>2. Disjoint(LoadBase(v, bm))
  BY <1>1 DEF Disjoint
<1> QED
  BY <1>1, <1>2, FusedIs

LEMMA Fresh ==
    ASSUME NEW S
    PROVE  /\ NewUnloaded \in VersionedBitmaps(S) /\ Disjoint(NewUnloaded)
           /\ NewUnloaded.base = {} /\ NewUnloaded.sets = {} /\ NewUnloaded.clears = {}
           /\ NewUnloaded.loaded = FALSE
BY ZenonT(60) DEF NewUnloaded, NewEmpty, New, VersionedBitmaps, Disjoint

-----------------------------------------------------------------------------
(* The inductive invariant for a lazy value.  A bitmap that is away has an *)
(* empty base and a diff that agrees with the operations and holds the     *)
(* batch on its way to the ops-log; every image under way completes it; a  *)
(* resident bitmap misses nothing.                                         *)
Away(x) ==
  /\ x.base = {}
  /\ unlogged.ins \subseteq x.sets /\ unlogged.rem \subseteq x.clears
  /\ x.sets \subseteq truth /\ x.clears \cap truth = {}
  /\ \A l \in Reading : (image[l] \cup x.sets) \ x.clears = truth

Absent ==
  /\ unlogged = NoBatch
  /\ \A l \in Reading : image[l] = truth

LazyInv ==
  /\ TypeOK
  /\ kind = "value"
  /\ unlogged.ins \cap unlogged.rem = {}
  /\ (disk \cup unlogged.ins) \ unlogged.rem = truth
  /\ vb = {} => Absent
  /\ \A x \in vb : Disjoint(x)
  /\ \A x \in vb : ~x.loaded => Away(x)
  /\ \A x \in vb : x.loaded => truth \subseteq Fused(x)
  /\ known \/ truth = {}

(* If loads did not overlap, one is under way at most and none once the    *)
(* bitmap is resident, which is then exact.                                *)
AtMostOneLoad == \A l, k \in Loader : stage[l] # "none" /\ stage[k] # "none" => l = k

ExactInv ==
  ~overlap => /\ AtMostOneLoad
              /\ \A x \in vb : x.loaded => /\ Fused(x) = truth
                                          /\ \A l \in Loader : stage[l] = "none"

LEMMA LazyInit == kind = "value" /\ Init => LazyInv /\ ExactInv
<1> SUFFICES ASSUME kind = "value", Init PROVE LazyInv /\ ExactInv
  OBVIOUS
<1>1. vb = {} /\ Reading = {}
  BY DEF Init, Reading
<1>2. known \in BOOLEAN /\ pending \in BOOLEAN /\ adopted \in BOOLEAN /\ overlap \in BOOLEAN
  BY ZenonT(60) DEF Init
<1>3. TypeOK
  BY <1>1, <1>2 DEF Init, TypeOK, NoBatch, Batch, Stages
<1>4. /\ unlogged = NoBatch /\ unlogged.ins = {} /\ unlogged.rem = {}
      /\ disk = truth /\ (known \/ truth = {})
  BY ZenonT(60) DEF Init, NoBatch
<1>5. LazyInv
  BY <1>1, <1>3, <1>4 DEF LazyInv, Absent
<1>6. AtMostOneLoad
  BY DEF Init, AtMostOneLoad
<1> QED
  BY <1>1, <1>5, <1>6 DEF ExactInv

LEMMA LazyDecide ==
    ASSUME kind = "value", LazyInv, ExactInv, NEW l \in Loader, EnsureFieldsLoaded(l)
    PROVE  LazyInv' /\ ExactInv'
<1>1. TypeOK'
  BY DEF LazyInv, TypeOK, EnsureFieldsLoaded, Stages, Batch
<1>2. Reading' = Reading
  BY DEF LazyInv, TypeOK, EnsureFieldsLoaded, Reading
<1>3. LazyInv'
  BY <1>1, <1>2 DEF LazyInv, EnsureFieldsLoaded, Absent, Away
<1>4. ASSUME ~overlap' PROVE AtMostOneLoad'
  BY ZenonT(60), <1>4 DEF LazyInv, TypeOK, EnsureFieldsLoaded, AtMostOneLoad
<1>5. ~overlap' => ~overlap
  BY ZenonT(60) DEF EnsureFieldsLoaded
<1>6. ExactInv'
  BY <1>4, <1>5 DEF ExactInv, EnsureFieldsLoaded, Missing, Loaded
<1> QED
  BY <1>3, <1>6

LEMMA LazyRead ==
    ASSUME kind = "value", LazyInv, ExactInv, NEW l \in Loader, ReadDisk(l)
    PROVE  LazyInv' /\ ExactInv'
<1>1. TypeOK'
  BY DEF LazyInv, TypeOK, ReadDisk, Stages, Batch
<1>2. \A k \in Reading' : k = l \/ (k \in Reading /\ image'[k] = image[k])
  BY DEF LazyInv, TypeOK, ReadDisk, Reading
<1>3. image'[l] = disk
  BY DEF LazyInv, TypeOK, ReadDisk
<1>4. vb = {} => Absent'
  <2>1. vb = {} => disk = truth
    BY DEF LazyInv, Absent, NoBatch
  <2> QED
    BY <1>2, <1>3, <2>1 DEF LazyInv, Absent, ReadDisk
<1>5. ASSUME NEW x \in vb, ~x.loaded PROVE Away(x)'
  <2>1. Away(x)
    BY <1>5 DEF LazyInv
  <2>2. (disk \cup x.sets) \ x.clears = truth
    BY <2>1 DEF LazyInv, Away
  <2> QED
    BY <1>2, <1>3, <2>1, <2>2 DEF Away, ReadDisk
<1>6. LazyInv'
  BY <1>1, <1>4, <1>5 DEF LazyInv, ReadDisk
<1>7. ExactInv'
  BY DEF ExactInv, AtMostOneLoad, ReadDisk, LazyInv, TypeOK
<1> QED
  BY <1>6, <1>7

LEMMA LazySend ==
    ASSUME kind = "value", LazyInv, ExactInv, NEW l \in Loader, SendLoad(l)
    PROVE  LazyInv' /\ ExactInv'
<1>1. TypeOK'
  BY ZenonT(60) DEF LazyInv, TypeOK, SendLoad, Stages, Batch
<1>2. Reading' = Reading
  BY DEF LazyInv, TypeOK, SendLoad, Reading
<1>3. LazyInv'
  BY <1>1, <1>2 DEF LazyInv, SendLoad, Absent, Away
<1>4. ExactInv'
  BY DEF ExactInv, AtMostOneLoad, SendLoad, LazyInv, TypeOK
<1> QED
  BY <1>3, <1>4

LEMMA LazyDrain ==
    ASSUME kind = "value", LazyInv, ExactInv, NEW l \in Loader, DrainLoad(l)
    PROVE  LazyInv' /\ ExactInv'
<1>1. l \in Reading /\ image[l] \in SUBSET Slot
  BY DEF LazyInv, TypeOK, DrainLoad, Reading
<1>2. ASSUME ~overlap PROVE \A k \in Loader : stage'[k] = "none"
  BY <1>2 DEF LazyInv, TypeOK, DrainLoad, ExactInv, AtMostOneLoad
<1>3. PICK v \in VersionedBitmaps(Slot) :
         /\ vb' = {LoadBase(v, image[l])}
         /\ Disjoint(v)
         /\ \/ ~v.loaded /\ (v.base \cup image[l] \cup v.sets) \ v.clears = truth
            \/ v.loaded /\ vb = {v} /\ truth \subseteq Fused(v)
  <2>1. CASE vb = {}
    <3>1. vb' = {LoadBase(NewUnloaded, image[l])}
      BY <2>1 DEF DrainLoad, LoadInto
    <3>2. image[l] = truth
      BY <2>1, <1>1 DEF LazyInv, Absent
    <3> QED
      BY ZenonT(60), <3>1, <3>2, Fresh
  <2>2. CASE vb # {}
    <3>1. PICK x \in VersionedBitmaps(Slot) : vb = {x}
      BY <2>2 DEF LazyInv, TypeOK
    <3>2. vb' = {LoadBase(x, image[l])}
      BY <3>1 DEF DrainLoad, LoadInto
    <3>3. Disjoint(x)
      BY <3>1 DEF LazyInv
    <3>4. CASE ~x.loaded
      <4>1. Away(x)
        BY <3>1, <3>4 DEF LazyInv
      <4>2. (x.base \cup image[l] \cup x.sets) \ x.clears = truth
        BY <4>1, <1>1 DEF Away
      <4> QED
        BY <3>2, <3>3, <3>4, <4>2
    <3>5. CASE x.loaded
      BY <3>1, <3>2, <3>3, <3>5 DEF LazyInv
    <3> QED
      BY <3>4, <3>5
  <2> QED
    BY <2>1, <2>2
<1> DEFINE w == LoadBase(v, image[l])
<1>4. /\ w \in VersionedBitmaps(Slot) /\ Disjoint(w) /\ w.loaded
      /\ Fused(w) = (v.base \cup image[l] \cup v.sets) \ v.clears
  BY <1>1, <1>3, LoadBaseAdds
<1>5. Fused(v) = (v.base \cup v.sets) \ v.clears
  BY <1>3, FusedIs
<1>6. truth \subseteq Fused(w)
  BY <1>3, <1>4, <1>5
<1>7. TypeOK'
  BY <1>3, <1>4 DEF LazyInv, TypeOK, DrainLoad, Stages, Batch
<1>8. LazyInv'
  BY <1>3, <1>4, <1>6, <1>7 DEF LazyInv, DrainLoad
<1>9. ASSUME ~overlap PROVE Fused(w) = truth
  <2>1. ~v.loaded
    BY <1>1, <1>3, <1>9 DEF ExactInv, Reading
  <2> QED
    BY <1>3, <1>4, <2>1
<1>10. ExactInv'
  BY <1>2, <1>3, <1>9 DEF ExactInv, DrainLoad, AtMostOneLoad
<1> QED
  BY <1>8, <1>10

LEMMA LazyApply ==
    ASSUME kind = "value", LazyInv, ExactInv, ApplyBatch
    PROVE  LazyInv' /\ ExactInv'
<1>1. PICK b \in Batch :
         /\ b.ins \cap b.rem = {}
         /\ vb' = {RemoveBulk(InsertBulk(x, b.ins), b.rem) : x \in Seeded(b.ins)}
         /\ unlogged' = b
         /\ known' = (known \/ b.ins # {})
         /\ truth' = (truth \cup b.ins) \ b.rem
  BY DEF ApplyBatch
<1>2. b.ins \in SUBSET Slot /\ b.rem \in SUBSET Slot
  BY DEF Batch
<1>3. /\ unlogged = NoBatch /\ disk = truth
      /\ UNCHANGED <<kind, disk, pending, adopted, stage, image, overlap>>
      /\ Reading' = Reading
  BY ZenonT(60) DEF ApplyBatch, LazyInv, NoBatch, Reading
<1>4. PICK v \in VersionedBitmaps(Slot) :
         /\ Seeded(b.ins) = {v} /\ Disjoint(v)
         /\ ~v.loaded => Away(v)
         /\ v.loaded => vb = {v}
  <2>1. CASE vb = {}
    <3>1. Seeded(b.ins) = {NewUnloaded}
      BY <2>1 DEF Seeded
    <3>2. unlogged.ins = {} /\ unlogged.rem = {} /\ \A k \in Reading : image[k] = truth
      BY <2>1 DEF LazyInv, Absent, NoBatch
    <3>3. /\ NewUnloaded.base = {} /\ NewUnloaded.sets = {} /\ NewUnloaded.clears = {}
          /\ NewUnloaded.loaded = FALSE
      BY ZenonT(60), Fresh
    <3>4. Away(NewUnloaded)
      BY <3>2, <3>3 DEF Away
    <3> QED
      BY ZenonT(60), <3>1, <3>3, <3>4, Fresh
  <2>2. CASE vb # {}
    <3>1. PICK x \in VersionedBitmaps(Slot) : vb = {x}
      BY <2>2 DEF LazyInv, TypeOK
    <3> QED
      BY <2>2, <3>1 DEF LazyInv, Seeded
  <2> QED
    BY <2>1, <2>2
<1> DEFINE w == RemoveBulk(InsertBulk(v, b.ins), b.rem)
<1>5. /\ w \in VersionedBitmaps(Slot)
      /\ w.base = v.base /\ w.loaded = v.loaded
      /\ w.sets = (v.sets \cup b.ins) \ b.rem
      /\ w.clears = (v.clears \ b.ins) \cup b.rem
      /\ Disjoint(w)
      /\ Fused(w) = (Fused(v) \cup b.ins) \ b.rem
  BY <1>1, <1>2, <1>4, BatchOnDiff
<1>6. vb' = {w}
  BY <1>1, <1>4
<1>7. TypeOK'
  <2>1. truth' \in SUBSET Slot
    BY <1>1, <1>2 DEF LazyInv, TypeOK
  <2>2. known' \in BOOLEAN
    BY <1>1
  <2>3. batches' \in Nat
    BY DEF LazyInv, TypeOK, ApplyBatch
  <2> QED
    BY <1>1, <1>3, <1>5, <1>6, <2>1, <2>2, <2>3 DEF LazyInv, TypeOK
<1>8. ASSUME ~w.loaded PROVE Away(w)'
  <2>1. Away(v)
    BY <1>4, <1>5, <1>8
  <2>2. /\ w.base = {}
        /\ b.ins \subseteq w.sets /\ b.rem \subseteq w.clears
        /\ w.sets \subseteq truth' /\ w.clears \cap truth' = {}
    BY <1>1, <1>5, <2>1 DEF Away
  <2>3. ASSUME NEW k \in Reading PROVE (image[k] \cup w.sets) \ w.clears = truth'
    <3>1. (image[k] \cup v.sets) \ v.clears = truth
      BY <2>1, <2>3 DEF Away
    <3> QED
      BY <1>1, <1>4, <1>5, <3>1 DEF Disjoint
  <2> QED
    BY <1>1, <1>3, <2>2, <2>3 DEF Away
<1>9. ASSUME w.loaded PROVE truth' \subseteq Fused(w)
  <2>1. truth \subseteq Fused(v)
    BY ZenonT(60), <1>4, <1>5, <1>9 DEF LazyInv
  <2> QED
    BY <1>1, <1>5, <2>1
<1>10. known' \/ truth' = {}
  BY ZenonT(60), <1>1 DEF LazyInv
<1>11. LazyInv'
  BY <1>1, <1>3, <1>5, <1>6, <1>7, <1>8, <1>9, <1>10 DEF LazyInv
<1>12. ExactInv'
  BY <1>1, <1>3, <1>4, <1>5, <1>6 DEF ExactInv, AtMostOneLoad
<1> QED
  BY <1>11, <1>12

LEMMA LazyMerge ==
    ASSUME kind = "value", LazyInv, ExactInv, MergeDirty
    PROVE  LazyInv' /\ ExactInv'
<1>1. PICK v \in VersionedBitmaps(Slot) : vb = {v}
  BY DEF LazyInv, TypeOK, MergeDirty
<1>2. vb' = {Merge(v)}
  BY <1>1 DEF MergeDirty
<1>3. Disjoint(v)
  BY <1>1 DEF LazyInv
<1>4. /\ Merge(v) \in VersionedBitmaps(Slot) /\ Disjoint(Merge(v))
      /\ Fused(Merge(v)) = Fused(v) /\ Merge(v).loaded = v.loaded
      /\ ~v.loaded => Merge(v) = v
  BY <1>3, MergeKeepsFused
<1>5. UNCHANGED <<kind, disk, unlogged, known, pending, adopted, stage, image, overlap, truth,
               batches>>
  BY DEF MergeDirty
<1>6. TypeOK'
  BY <1>2, <1>4, <1>5 DEF LazyInv, TypeOK
<1>7. ~v.loaded => Away(Merge(v))'
  BY <1>1, <1>4, <1>5 DEF LazyInv, Away, Reading
<1>8. LazyInv'
  BY <1>1, <1>2, <1>4, <1>5, <1>6, <1>7 DEF LazyInv
<1>9. ExactInv'
  BY <1>1, <1>2, <1>4, <1>5 DEF ExactInv, AtMostOneLoad
<1> QED
  BY <1>8, <1>9

LEMMA LazyAppend ==
    ASSUME kind = "value", LazyInv, ExactInv, AppendOps
    PROVE  LazyInv' /\ ExactInv'
<1>1. disk' = truth /\ unlogged' = NoBatch
  BY DEF AppendOps, LazyInv
<1>2. /\ UNCHANGED <<kind, vb, known, pending, adopted, stage, image, overlap, truth, batches>>
      /\ Reading' = Reading
  BY DEF AppendOps, Reading
<1>3. TypeOK'
  BY <1>1, <1>2 DEF LazyInv, TypeOK, NoBatch, Batch
<1>4. \A x \in vb : ~x.loaded => Away(x)'
  BY <1>1, <1>2 DEF LazyInv, Away, NoBatch
<1>5. vb = {} => Absent'
  BY <1>1, <1>2 DEF LazyInv, Absent
<1>6. LazyInv'
  BY <1>1, <1>2, <1>3, <1>4, <1>5 DEF LazyInv, NoBatch
<1>7. ExactInv'
  BY <1>2 DEF ExactInv, AtMostOneLoad
<1> QED
  BY <1>6, <1>7

LEMMA LazyEvict ==
    ASSUME kind = "value", LazyInv, ExactInv, EvictIdle
    PROVE  LazyInv' /\ ExactInv'
<1>1. vb' = {} /\ unlogged' = NoBatch /\ Reading' = {}
  BY DEF EvictIdle, Reading
<1>2. TypeOK'
  BY ZenonT(60) DEF LazyInv, TypeOK, EvictIdle
<1>3. LazyInv'
  BY <1>1, <1>2 DEF LazyInv, Absent, EvictIdle
<1>4. AtMostOneLoad'
  BY DEF EvictIdle, AtMostOneLoad
<1> QED
  BY <1>1, <1>3, <1>4 DEF ExactInv

(* The invariant holds in every reachable state of a lazy value.           *)
LEMMA LazyInvariant ==
    Spec /\ kind = "value" => [](LazyInv /\ ExactInv)
<1>1. kind = "value" /\ Init => LazyInv /\ ExactInv
  BY LazyInit
<1>2. LazyInv /\ ExactInv /\ [Next]_vars => (LazyInv /\ ExactInv)'
  <2> SUFFICES ASSUME LazyInv, ExactInv, [Next]_vars PROVE (LazyInv /\ ExactInv)'
    OBVIOUS
  <2>1. CASE UNCHANGED vars
    <3>1. LazyInv'
      BY <2>1 DEF vars, LazyInv, TypeOK, Absent, Away, Reading
    <3>2. ExactInv'
      BY <2>1 DEF vars, ExactInv, AtMostOneLoad
    <3> QED
      BY <3>1, <3>2
  <2>2. CASE Next
    BY ZenonT(60), <2>2, LazyDecide, LazyRead, LazySend, LazyDrain, LazyApply, LazyMerge,
       LazyAppend, LazyEvict
    DEF Next, LazyInv
  <2> QED
    BY <2>1, <2>2
<1> QED
  BY <1>1, <1>2, PTL DEF Spec

(* What the answer and the reload are, of the one bitmap there is.         *)
LEMMA OneBitmap ==
    ASSUME NEW x, vb = {x}
    PROVE  /\ Answer = Fused(x)
           /\ \A bm : AfterLoad(bm) = (bm \cup x.sets) \ x.clears
BY DEF Answer, AfterLoad

(* Whatever loads, batches, compactions, appends and evictions of a lazy   *)
(* value interleave, a resident bitmap answers with every slot that the    *)
(* operations leave set: load_base and merge lose nothing.                 *)
THEOREM NoOperationLost ==
    Spec /\ kind = "value" => []NothingLost
<1>1. LazyInv => NothingLost
  <2> SUFFICES ASSUME LazyInv, Loaded(vb) PROVE truth \subseteq Answer
    BY DEF NothingLost, Serving, LazyInv
  <2>1. PICK x \in VersionedBitmaps(Slot) : vb = {x}
    BY DEF LazyInv, TypeOK, Loaded
  <2>2. truth \subseteq Fused(x)
    BY <2>1 DEF LazyInv, Loaded
  <2> QED
    BY <2>1, <2>2, OneBitmap
<1> QED
  BY <1>1, LazyInvariant, PTL

(* While a lazy value is away, every image a load can bring completes its  *)
(* diff to exactly what the operations say, however old the image is.      *)
THEOREM ReloadExact ==
    Spec /\ kind = "value" => []ReloadIsTruth
<1>1. LazyInv => ReloadIsTruth
  <2> SUFFICES ASSUME LazyInv, ~Loaded(vb), NEW bm \in Images PROVE AfterLoad(bm) = truth
    BY DEF ReloadIsTruth, Serving, LazyInv
  <2>1. bm = truth \/ \E l \in Reading : bm = image[l]
    BY DEF LazyInv, Images
  <2>2. CASE vb = {}
    BY <2>1, <2>2 DEF LazyInv, Absent, AfterLoad
  <2>3. CASE vb # {}
    <3>1. PICK x \in VersionedBitmaps(Slot) : vb = {x}
      BY <2>3 DEF LazyInv, TypeOK
    <3>2. Away(x)
      BY <3>1 DEF LazyInv, Loaded
    <3>3. AfterLoad(bm) = (bm \cup x.sets) \ x.clears
      BY <3>1, OneBitmap
    <3> QED
      BY <2>1, <3>2, <3>3 DEF Away
  <2> QED
    BY <2>2, <2>3
<1> QED
  BY <1>1, LazyInvariant, PTL

(* If no two loads of a lazy value overlapped since it was last evicted, a *)
(* resident bitmap is exactly what the operations say: no removed slot     *)
(* comes back.                                                             *)
THEOREM SingleLoadExact ==
    Spec /\ kind = "value" => []ResidentIsTruth
<1>1. LazyInv /\ ExactInv => ResidentIsTruth
  <2> SUFFICES ASSUME LazyInv, ExactInv, ~overlap, Loaded(vb) PROVE Answer = truth
    BY DEF ResidentIsTruth, Serving, LazyInv
  <2>1. PICK x \in VersionedBitmaps(Slot) : vb = {x}
    BY DEF LazyInv, TypeOK, Loaded
  <2>2. Fused(x) = truth
    BY <2>1 DEF ExactInv, Loaded
  <2> QED
    BY <2>1, <2>2, OneBitmap
<1> QED
  BY <1>1, LazyInvariant, PTL
=============================================================================
