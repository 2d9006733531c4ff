-------------------------- MODULE DurabilityProofs --------------------------
(***************************************************************************)
(* Proofs about Durability, for every bound: the watermark counts what it  *)
(* should, the persisted cursor never passes a deferral that is not in the *)
(* persisted map, and never moves back.                                    *)
(***************************************************************************)
EXTENDS Durability, FiniteSetTheorems, TLAPS

(* A leaf goes to the SMT solver, with ample time for a slow machine; the  *)
(* few that need first-order reasoning alone name Zenon.                   *)
USE SMTT(60)

(* Appending to the WAL leaves the operations already in it as they were.  *)
LEMMA WalGrows ==
    ASSUME TypeOK, NEW kind \in OpKinds, PostOps(kind)
    PROVE  /\ wal' \in Seq(Kinds) /\ Len(wal') = Len(wal) + 1
           /\ \A i \in Ops : wal'[i] = wal[i]
BY KindsAssumption DEF TypeOK, PostOps, Ops

(* The sets of deferrals the watermark counts are finite.                  *)
LEMMA DeferralsFinite ==
    ASSUME TypeOK, NEW S \in SUBSET Ops
    PROVE  /\ IsFiniteSet(Deferrals(S)) /\ Cardinality(Deferrals(S)) \in Nat
           /\ Deferrals(S) # {} => Cardinality(Deferrals(S)) > 0
<1>1. IsFiniteSet(Ops)
  BY FS_Interval DEF Ops, TypeOK
<1>2. Deferrals(S) \in SUBSET Ops
  BY DEF Deferrals
<1>3. IsFiniteSet(Deferrals(S))
  BY <1>1, <1>2, FS_Subset
<1>4. Cardinality(Deferrals(S)) \in Nat
  BY <1>3, FS_CardinalityType
<1>5. Cardinality(Deferrals(S)) = 0 <=> Deferrals(S) = {}
  BY <1>3, FS_EmptySet
<1> QED
  BY <1>3, <1>4, <1>5

LEMMA InitInv == Init => IInv
<1> SUFFICES ASSUME Init PROVE IInv
  OBVIOUS
<1>1. wal \in Seq(Kinds) /\ Len(wal) = 0
  BY DEF Init
<1>2. TypeOK
  <2>1. ticked \in BOOLEAN /\ dirty \in BOOLEAN /\ mayWrite \in BOOLEAN
    BY ZenonT(60) DEF Init
  <2> QED
    BY <1>1, <2>1 DEF Init, TypeOK, Ops, Deferrals, Loggable
<1>3. OrderInv /\ PlaceInv /\ LagInv /\ GateInv /\ DeferralsDurable
  BY <1>1 DEF Init, OrderInv, PlaceInv, LagInv, GateInv, DeferralsDurable, Deferrals
<1>4. Deferrals({}) = {} /\ Cardinality({}) = 0
  BY FS_EmptySet DEF Deferrals
<1>5. /\ deferredSeq = 0 /\ appliedTotal = 0 /\ extChan = 0 /\ extTicks = 0
      /\ ticked = FALSE /\ fpc = "idle"
  BY ZenonT(60) DEF Init
<1>6. Cardinality(Deferrals(chan)) = 0
  BY <1>4 DEF Init
<1>7. WatermarkConserved
  BY <1>5, <1>6 DEF WatermarkConserved, InPreparedBatch
<1> QED
  BY <1>2, <1>3, <1>7 DEF IInv
-----------------------------------------------------------------------------
(* Types, and the order in which the cursors follow each other.            *)
LEMMA TypeOrderStep ==
    ASSUME TypeOK, OrderInv, [Next]_vars
    PROVE  TypeOK' /\ OrderInv'
<1> USE DEF TypeOK, OrderInv, Ops, Deferrals, Loggable
<1>1. ASSUME NEW kind \in OpKinds, PostOps(kind) PROVE TypeOK' /\ OrderInv'
  <2>1. /\ wal' \in Seq(Kinds) /\ Len(wal') = Len(wal) + 1
        /\ \A i \in Ops : wal'[i] = wal[i]
    BY <1>1, WalGrows
  <2> QED
    BY <1>1, <2>1 DEF PostOps, readerVars, extVars, flushVars, mergeVars, diskVars
<1>2. ASSUME NEW end \in (readPos + 1) .. Len(wal), ReadBatch(end) PROVE TypeOK' /\ OrderInv'
  BY <1>2 DEF ReadBatch, extVars, flushVars, mergeVars, diskVars
<1>3. CASE CountDeferral
  BY <1>3 DEF CountDeferral, extVars, flushVars, mergeVars, diskVars
<1>4. CASE SendOp
  <2>1. /\ ticked' \in BOOLEAN /\ dirty' \in BOOLEAN /\ mayWrite' \in BOOLEAN
    BY ZenonT(60), <1>4 DEF SendOp, readerVars, mergeVars
  <2>2. OrderInv'
    BY <1>4 DEF SendOp, extVars, flushVars, mergeVars, diskVars
  <2>3. TypeOK'
    BY <1>4, <2>1 DEF SendOp, extVars, flushVars, mergeVars, diskVars
  <2> QED
    BY ZenonT(60), <2>2, <2>3
<1>5. CASE StoreCursor
  BY <1>5 DEF StoreCursor, extVars, flushVars, mergeVars, diskVars
<1>6. CASE MarkDirty
  BY <1>6 DEF MarkDirty, extVars, flushVars, mergeVars, diskVars
<1>7. CASE ExtCountDeferral
  BY <1>7 DEF ExtCountDeferral, readerVars, flushVars, mergeVars, diskVars
<1>8. CASE ExtSend
  BY <1>8 DEF ExtSend, readerVars, flushVars, mergeVars, diskVars
<1>9. CASE Prepare
  BY <1>9 DEF Prepare, readerVars, extVars, mergeVars, diskVars
<1>10. CASE ApplyPrepared
  <2>1. Cardinality(Deferrals(batch)) \in Nat
    BY ZenonT(60), DeferralsFinite
  <2>2. ticked' \in BOOLEAN /\ dirty' \in BOOLEAN /\ mayWrite' \in BOOLEAN
    BY <1>10 DEF ApplyPrepared, readerVars, mergeVars
  <2>3. appliedTotal' \in Nat
    BY <1>10, <2>1 DEF ApplyPrepared
  <2>4. OrderInv'
    BY <1>10 DEF ApplyPrepared, readerVars, mergeVars, diskVars
  <2>5. TypeOK'
    BY <1>10, <2>2, <2>3 DEF ApplyPrepared, readerVars, extVars, mergeVars, diskVars
  <2> QED
    BY ZenonT(60), <2>4, <2>5
<1>11. CASE AppendOpsLog
  BY ZenonT(60), <1>11 DEF AppendOpsLog, LoggedOfBatch, readerVars, extVars, mergeVars
<1>12. CASE PersistDeferred
  <2>1. /\ ticked' \in BOOLEAN /\ dirty' \in BOOLEAN /\ mayWrite' \in BOOLEAN
    BY <1>12 DEF PersistDeferred, WatermarkOnError, readerVars, mergeVars
  <2>2. OrderInv'
    BY <1>12 DEF PersistDeferred, WatermarkOnError, readerVars, extVars, mergeVars
  <2>3. diskDeferred' = diskDeferred \/ diskDeferred' = Deferrals(staged)
    BY <1>12 DEF PersistDeferred, WatermarkOnError
  <2>4. diskDeferred' \subseteq Deferrals(Ops)
    BY ZenonT(60), <2>3
  <2>5. deferredDurable' \in Nat /\ faults' \in Nat
    BY <1>12 DEF PersistDeferred, WatermarkOnError
  <2>6. TypeOK'
    BY <1>12, <2>1, <2>4, <2>5 DEF PersistDeferred, WatermarkOnError, readerVars, extVars, mergeVars
  <2> QED
    BY ZenonT(60), <2>2, <2>6
<1>13. CASE ForcePublish
  <2>1. Cardinality(Deferrals(chan)) \in Nat
    BY ZenonT(60), DeferralsFinite
  <2> QED
    BY <1>13, <2>1 DEF ForcePublish, DrainedByForce, readerVars, extVars, mergeVars, diskVars
<1>14. CASE RefreshTimeBuckets
  BY <1>14 DEF RefreshTimeBuckets, readerVars, extVars, flushVars, mergeVars, diskVars
<1>15. CASE SnapCursor
  BY <1>15 DEF SnapCursor, readerVars, extVars, flushVars, diskVars
<1>16. CASE SnapDeferredSeq
  BY <1>16 DEF SnapDeferredSeq, readerVars, extVars, flushVars, diskVars
<1>17. CASE PersistData
  <2>1. /\ ticked' \in BOOLEAN /\ dirty' \in BOOLEAN /\ mayWrite' \in BOOLEAN
    BY ZenonT(60), <1>17 DEF PersistData, readerVars, mergeVars
  <2>2. OrderInv'
    BY <1>17 DEF PersistData, readerVars, extVars, flushVars
  <2>3. TypeOK'
    BY <1>17, <2>1 DEF PersistData, readerVars, extVars, flushVars
  <2> QED
    BY ZenonT(60), <2>2, <2>3
<1>18. CASE SyncOpsLogs
  <2>1. /\ ticked' \in BOOLEAN /\ dirty' \in BOOLEAN /\ mayWrite' \in BOOLEAN
    BY ZenonT(60), <1>18 DEF SyncOpsLogs, readerVars, mergeVars
  <2>2. OrderInv'
    BY <1>18 DEF SyncOpsLogs, readerVars, extVars, flushVars
  <2>3. synced' = synced \/ synced' = synced \cup {i \in opslog : wal[i] # "sort"}
    BY <1>18 DEF SyncOpsLogs
  <2>4. synced' \subseteq opslog
    BY ZenonT(60), <2>3
  <2>5. faults' = faults \/ faults' = faults + 1
    BY <1>18 DEF SyncOpsLogs
  <2>6. faults' \in Nat
    BY <2>5
  <2>7. TypeOK'
    BY <1>18, <2>1, <2>4, <2>6 DEF SyncOpsLogs, readerVars, extVars, flushVars
  <2> QED
    BY ZenonT(60), <2>2, <2>7
<1>19. CASE WriteCursor
  <2>1. /\ ticked' \in BOOLEAN /\ dirty' \in BOOLEAN /\ mayWrite' \in BOOLEAN
    BY ZenonT(60), <1>19 DEF WriteCursor, readerVars, mergeVars
  <2>2. OrderInv'
    BY <1>19 DEF WriteCursor, readerVars, extVars, flushVars
  <2>3. TypeOK'
    BY <1>19, <2>1 DEF WriteCursor, readerVars, extVars, flushVars
  <2> QED
    BY ZenonT(60), <2>2, <2>3
<1>20. CASE ProcessCrash
  <2>1. /\ ticked' \in BOOLEAN /\ dirty' \in BOOLEAN /\ mayWrite' \in BOOLEAN
    BY ZenonT(60), <1>20 DEF ProcessCrash, readerVars, mergeVars, Boot
  <2>2. OrderInv'
    BY <1>20 DEF ProcessCrash, Boot, BootCursor, PartlyAppended
  <2>3. TypeOK'
    BY <1>20, <2>1 DEF ProcessCrash, Boot, BootCursor, PartlyAppended
  <2> QED
    BY ZenonT(60), <2>2, <2>3
<1>21. CASE OsCrash
  <2>1. /\ ticked' \in BOOLEAN /\ dirty' \in BOOLEAN /\ mayWrite' \in BOOLEAN
    BY ZenonT(60), <1>21 DEF OsCrash, readerVars, mergeVars, Boot
  <2>2. OrderInv'
    BY <1>21 DEF OsCrash, Boot, BootCursor
  <2>3. TypeOK'
    BY <1>21, <2>1 DEF OsCrash, Boot, BootCursor
  <2> QED
    BY ZenonT(60), <2>2, <2>3
<1>22. CASE UNCHANGED vars
  BY <1>22 DEF vars, readerVars, extVars, flushVars, mergeVars, diskVars
<1> QED
  BY ZenonT(60), <1>1, <1>2, <1>3, <1>4, <1>5, <1>6, <1>7, <1>8, <1>9, <1>10, <1>11, <1>12,
     <1>13, <1>14, <1>15, <1>16, <1>17, <1>18, <1>19, <1>20, <1>21, <1>22
     DEF Next, Reader, Flush, Merge
-----------------------------------------------------------------------------
(* No step rewrites the WAL.                                               *)
LEMMA WalStable ==
    ASSUME TypeOK, [Next]_vars
    PROVE  /\ \A i \in Ops : wal'[i] = wal[i]
           /\ Ops \subseteq Ops'
<1>1. wal' = wal \/ \E kind \in OpKinds : PostOps(kind)
  BY ZenonT(60) DEF Next, Reader, Flush, Merge, vars, ReadBatch, CountDeferral, SendOp,
         StoreCursor, MarkDirty, ExtCountDeferral, ExtSend, Prepare, ApplyPrepared,
         AppendOpsLog, LoggedOfBatch, PersistDeferred, ForcePublish, RefreshTimeBuckets, SnapCursor,
         SnapDeferredSeq, PersistData, SyncOpsLogs, WriteCursor, ProcessCrash, OsCrash
<1>2. CASE wal' = wal
  BY <1>2 DEF Ops
<1>3. ASSUME NEW kind \in OpKinds, PostOps(kind)
      PROVE  (\A i \in Ops : wal'[i] = wal[i]) /\ Ops \subseteq Ops'
  <2>1. Len(wal') = Len(wal) + 1 /\ \A i \in Ops : wal'[i] = wal[i]
    BY <1>3, WalGrows
  <2>2. Len(wal) \in Nat
    BY DEF TypeOK
  <2> QED
    BY <2>1, <2>2 DEF Ops
<1> QED
  BY <1>1, <1>2, <1>3

(* The watermark: each step moves a deferral from one place to the next.   *)
LEMMA WatermarkStep ==
    ASSUME TypeOK, OrderInv, PlaceInv, WatermarkConserved, [Next]_vars
    PROVE  WatermarkConserved'
<1> DEFINE Counts == <<wal, chan, extChan, extTicks, deferredSeq, ticked, fpc, batch,
                       extBatch, appliedTotal>>
<1>0. /\ Cardinality(Deferrals(chan)) \in Nat /\ Cardinality(Deferrals(batch)) \in Nat
      /\ extChan \in Nat /\ extBatch \in Nat /\ extTicks \in Nat
      /\ deferredSeq \in Nat /\ appliedTotal \in Nat
  BY DeferralsFinite DEF TypeOK
<1>e. Cardinality({}) = 0 /\ Deferrals({}) = {}
  BY FS_EmptySet DEF Deferrals
<1>1. ASSUME NEW kind \in OpKinds, PostOps(kind) PROVE WatermarkConserved'
  <2>1. Deferrals(chan)' = Deferrals(chan) /\ Deferrals(batch)' = Deferrals(batch)
    BY ZenonT(60), <1>1, WalGrows DEF PostOps, Deferrals, TypeOK, flushVars
  <2> QED
    BY <1>1, <2>1 DEF PostOps, WatermarkConserved, InPreparedBatch, readerVars,
                      extVars, flushVars
<1>2. CASE UNCHANGED Counts
  BY <1>2 DEF WatermarkConserved, InPreparedBatch, Deferrals
<1>3. CASE CountDeferral
  <2>1. (IF ticked THEN 1 ELSE 0) = 0 /\ (IF ticked THEN 1 ELSE 0)' = 1
    BY <1>3 DEF CountDeferral
  <2>2. /\ Deferrals(chan)' = Deferrals(chan) /\ InPreparedBatch' = InPreparedBatch
        /\ UNCHANGED <<extChan, extTicks, appliedTotal>> /\ deferredSeq' = deferredSeq + 1
    BY <1>3 DEF CountDeferral, Deferrals, InPreparedBatch, flushVars, extVars
  <2>3. InPreparedBatch \in Nat
    BY <1>0 DEF InPreparedBatch
  <2> QED
    BY <1>0, <2>1, <2>2, <2>3 DEF WatermarkConserved
<1>4. CASE SendOp
  <2>1. /\ InPreparedBatch' = InPreparedBatch /\ (IF ticked THEN 1 ELSE 0)' = 0
        /\ UNCHANGED <<extChan, extTicks, appliedTotal, deferredSeq>>
    BY <1>4 DEF SendOp, Deferrals, InPreparedBatch, flushVars, extVars
  <2>2. InPreparedBatch \in Nat
    BY <1>0 DEF InPreparedBatch
  <2>3. CASE wal[readPos + 1] = "defer"
    <3>1. (IF ticked THEN 1 ELSE 0) = 1
      BY <1>4, <2>3 DEF SendOp
    <3>2. Deferrals(chan)' = Deferrals(chan) \cup {readPos + 1}
      BY <1>4, <2>3 DEF SendOp, Deferrals
    <3>3. readPos + 1 \notin Deferrals(chan)
      BY DEF Deferrals, PlaceInv, TypeOK
    <3>4. IsFiniteSet(Deferrals(chan))
      BY DeferralsFinite DEF TypeOK
    <3>5. Cardinality(Deferrals(chan)') = Cardinality(Deferrals(chan)) + 1
      BY <3>2, <3>3, <3>4, FS_AddElement
    <3> QED
      BY <1>0, <2>1, <2>2, <3>1, <3>5 DEF WatermarkConserved
  <2>4. CASE wal[readPos + 1] # "defer"
    <3>1. Deferrals(chan)' = Deferrals(chan)
      BY <1>4, <2>4 DEF SendOp, Deferrals
    <3>2. (IF ticked THEN 1 ELSE 0) = 0
      BY <2>4 DEF OrderInv
    <3> QED
      BY <1>0, <2>1, <2>2, <3>1, <3>2 DEF WatermarkConserved
  <2> QED
    BY <2>3, <2>4
<1>5. CASE ExtCountDeferral
  <2>1. /\ InPreparedBatch' = InPreparedBatch /\ Deferrals(chan)' = Deferrals(chan)
        /\ UNCHANGED <<extChan, appliedTotal, ticked>>
        /\ deferredSeq' = deferredSeq + 1 /\ extTicks' = extTicks + 1
    BY <1>5 DEF ExtCountDeferral, InPreparedBatch, Deferrals, flushVars, readerVars
  <2>2. InPreparedBatch \in Nat /\ (IF ticked THEN 1 ELSE 0) \in Nat
    BY <1>0 DEF InPreparedBatch
  <2> QED
    BY <1>0, <2>1, <2>2 DEF WatermarkConserved
<1>6. CASE ExtSend
  <2>1. /\ InPreparedBatch' = InPreparedBatch /\ Deferrals(chan)' = Deferrals(chan)
        /\ UNCHANGED <<appliedTotal, ticked, deferredSeq>>
        /\ extChan' = extChan + 1 /\ extTicks' = extTicks - 1
    BY <1>6 DEF ExtSend, InPreparedBatch, Deferrals, flushVars, readerVars
  <2>2. InPreparedBatch \in Nat /\ (IF ticked THEN 1 ELSE 0) \in Nat
    BY <1>0 DEF InPreparedBatch
  <2> QED
    BY <1>0, <2>1, <2>2 DEF WatermarkConserved
<1>7. CASE Prepare
  <2>1. /\ InPreparedBatch = 0 /\ InPreparedBatch' = Cardinality(Deferrals(chan)) + extChan
        /\ Cardinality(Deferrals(chan)') = 0 /\ extChan' = 0
        /\ UNCHANGED <<appliedTotal, ticked, deferredSeq, extTicks>>
    BY <1>7, <1>e DEF Prepare, InPreparedBatch, Deferrals, extVars, readerVars
  <2>2. (IF ticked THEN 1 ELSE 0) \in Nat
    OBVIOUS
  <2> QED
    BY <1>0, <2>1, <2>2 DEF WatermarkConserved
<1>8. CASE ApplyPrepared
  <2>1. /\ InPreparedBatch = Cardinality(Deferrals(batch)) + extBatch
        /\ InPreparedBatch' = 0
        /\ appliedTotal' = appliedTotal + Cardinality(Deferrals(batch)) + extBatch
        /\ Deferrals(chan)' = Deferrals(chan)
        /\ UNCHANGED <<ticked, deferredSeq, extTicks, extChan>>
    BY <1>8 DEF ApplyPrepared, InPreparedBatch, Deferrals, extVars, readerVars
  <2>2. (IF ticked THEN 1 ELSE 0) \in Nat
    OBVIOUS
  <2> QED
    BY <1>0, <2>1, <2>2 DEF WatermarkConserved
<1>9. CASE AppendOpsLog \/ PersistDeferred
  <2>1. /\ InPreparedBatch = 0 /\ InPreparedBatch' = 0
        /\ Deferrals(chan)' = Deferrals(chan)
        /\ UNCHANGED <<appliedTotal, ticked, deferredSeq, extTicks, extChan>>
    BY <1>9 DEF AppendOpsLog, LoggedOfBatch, PersistDeferred, WatermarkOnError, InPreparedBatch, Deferrals, extVars, readerVars
  <2> QED
    BY <2>1 DEF WatermarkConserved
<1>10. CASE ForcePublish
  <2>1. /\ InPreparedBatch = 0 /\ InPreparedBatch' = 0
        /\ appliedTotal' = appliedTotal + (Cardinality(Deferrals(chan)) + extChan)
        /\ Cardinality(Deferrals(chan)') = 0 /\ extChan' = 0
        /\ UNCHANGED <<ticked, deferredSeq, extTicks>>
    BY <1>10, <1>e DEF ForcePublish, DrainedByForce, InPreparedBatch, Deferrals, extVars,
                       readerVars
  <2>2. (IF ticked THEN 1 ELSE 0) \in Nat
    OBVIOUS
  <2> QED
    BY <1>0, <2>1, <2>2 DEF WatermarkConserved
<1>11. CASE ProcessCrash \/ OsCrash
  <2>1. /\ InPreparedBatch' = 0 /\ Cardinality(Deferrals(chan)') = 0
        /\ appliedTotal' = 0 /\ deferredSeq' = 0 /\ extTicks' = 0 /\ extChan' = 0
        /\ (IF ticked THEN 1 ELSE 0)' = 0
    BY <1>11, <1>e DEF ProcessCrash, OsCrash, Boot, InPreparedBatch, Deferrals
  <2> QED
    BY <2>1 DEF WatermarkConserved
<1>12. ASSUME NEW end \in (readPos + 1) .. Len(wal), ReadBatch(end) PROVE UNCHANGED Counts
  BY <1>12 DEF ReadBatch, extVars, flushVars
<1>13. CASE StoreCursor \/ MarkDirty \/ RefreshTimeBuckets \/ SnapCursor \/ SnapDeferredSeq
  <2>1. CASE StoreCursor
    BY <1>2, <2>1 DEF StoreCursor, readerVars, extVars, flushVars
  <2>2. CASE MarkDirty
    BY <1>2, <2>2 DEF MarkDirty, readerVars, extVars, flushVars
  <2>3. CASE RefreshTimeBuckets
    BY <1>2, <2>3 DEF RefreshTimeBuckets, readerVars, extVars, flushVars
  <2>4. CASE SnapCursor
    BY <1>2, <2>4 DEF SnapCursor, readerVars, extVars, flushVars
  <2>5. CASE SnapDeferredSeq
    BY <1>2, <2>5 DEF SnapDeferredSeq, readerVars, extVars, flushVars
  <2> QED
    BY <1>13, <2>1, <2>2, <2>3, <2>4, <2>5
<1>14. CASE PersistData \/ SyncOpsLogs \/ WriteCursor \/ UNCHANGED vars
  <2>1. CASE PersistData
    BY <1>2, <2>1 DEF PersistData, readerVars, extVars, flushVars
  <2>2. CASE SyncOpsLogs
    BY <1>2, <2>2 DEF SyncOpsLogs, readerVars, extVars, flushVars
  <2>3. CASE WriteCursor
    BY <1>2, <2>3 DEF WriteCursor, readerVars, extVars, flushVars
  <2>4. CASE UNCHANGED vars
    BY ZenonT(60), <1>2, <2>4 DEF vars, readerVars, extVars, flushVars
  <2> QED
    BY <1>14, <2>1, <2>2, <2>3, <2>4
<1> QED
  BY ZenonT(60), <1>1, <1>2, <1>3, <1>4, <1>5, <1>6, <1>7, <1>8, <1>9, <1>10, <1>11, <1>12, <1>13, <1>14
     DEF Next, Reader, Flush, Merge

(* Every deferral that was read is in the channel, in the prepared batch   *)
(* or in staging; and staging is never behind the persisted map.           *)
LEMMA PlaceStep ==
    ASSUME TypeOK, OrderInv, PlaceInv, DeferralsDurable, [Next]_vars
    PROVE  PlaceInv'
<1> USE DEF PlaceInv
<1> DEFINE Places == <<wal, chan, readPos, fpc, batch, extBatch, diskDeferred, staged>>
<1>1. ASSUME NEW kind \in OpKinds, PostOps(kind) PROVE PlaceInv'
  <2>1. Deferrals(1 .. readPos)' = Deferrals(1 .. readPos)
    BY <1>1, WalGrows DEF PostOps, Deferrals, TypeOK, OrderInv, Ops, readerVars
  <2> QED
    BY <1>1, <2>1 DEF PostOps, readerVars, flushVars, diskVars
<1>2. CASE UNCHANGED Places
  BY <1>2 DEF Deferrals
<1>3. CASE SendOp
  <2>1. Deferrals(1 .. readPos)' \subseteq Deferrals(1 .. readPos) \cup {readPos + 1}
    BY <1>3 DEF SendOp, Deferrals, TypeOK
  <2>2. chan' \subseteq 1 .. readPos'
    BY <1>3 DEF SendOp, TypeOK
  <2> QED
    BY <1>3, <2>1, <2>2 DEF SendOp, flushVars, diskVars
<1>4. CASE Prepare
  BY <1>4 DEF Prepare, Deferrals, readerVars, diskVars
<1>5. CASE ApplyPrepared
  BY <1>5 DEF ApplyPrepared, Deferrals, readerVars, diskVars
<1>6. CASE AppendOpsLog
  BY <1>6 DEF AppendOpsLog, LoggedOfBatch, Deferrals, readerVars
<1>7. CASE PersistDeferred
  <2>1. diskDeferred' = diskDeferred \/ diskDeferred' = Deferrals(staged)
    BY <1>7 DEF PersistDeferred, WatermarkOnError
  <2>2. diskDeferred' \subseteq staged
    BY <2>1 DEF Deferrals
  <2> QED
    BY <1>7, <2>2 DEF PersistDeferred, WatermarkOnError, Deferrals, readerVars
<1>8. CASE ForcePublish
  BY <1>8 DEF ForcePublish, Deferrals, readerVars, diskVars
<1>9. CASE ProcessCrash \/ OsCrash
  <2>1. /\ readPos' = diskCursor /\ chan' = {} /\ fpc' = "idle" /\ batch' = {} /\ extBatch' = 0
        /\ diskDeferred' = diskDeferred /\ diskDeferred \subseteq staged' /\ wal' = wal
    BY <1>9 DEF ProcessCrash, OsCrash, Boot, BootCursor, diskVars
  <2>2. \A i \in Deferrals(1 .. diskCursor) : i \in diskDeferred
    BY DEF DeferralsDurable, Deferrals
  <2>3. Deferrals(1 .. readPos)' = Deferrals(1 .. diskCursor)
    BY <2>1 DEF Deferrals
  <2> QED
    BY <2>1, <2>2, <2>3
<1>10. ASSUME NEW end \in (readPos + 1) .. Len(wal), ReadBatch(end) PROVE UNCHANGED Places
  BY <1>10 DEF ReadBatch, flushVars, diskVars
<1>11. CASE CountDeferral \/ StoreCursor \/ MarkDirty \/ ExtCountDeferral
  <2>1. CASE CountDeferral
    BY <1>2, <2>1 DEF CountDeferral, readerVars, flushVars, diskVars
  <2>2. CASE StoreCursor
    BY <1>2, <2>2 DEF StoreCursor, readerVars, flushVars, diskVars
  <2>3. CASE MarkDirty
    BY <1>2, <2>3 DEF MarkDirty, readerVars, flushVars, diskVars
  <2>4. CASE ExtCountDeferral
    BY <1>2, <2>4 DEF ExtCountDeferral, readerVars, flushVars, diskVars
  <2> QED
    BY <1>11, <2>1, <2>2, <2>3, <2>4
<1>12. CASE ExtSend \/ RefreshTimeBuckets \/ SnapCursor \/ SnapDeferredSeq
  <2>1. CASE ExtSend
    BY <1>2, <2>1 DEF ExtSend, readerVars, flushVars, diskVars
  <2>2. CASE RefreshTimeBuckets
    BY <1>2, <2>2 DEF RefreshTimeBuckets, readerVars, flushVars, diskVars
  <2>3. CASE SnapCursor
    BY <1>2, <2>3 DEF SnapCursor, readerVars, flushVars, diskVars
  <2>4. CASE SnapDeferredSeq
    BY <1>2, <2>4 DEF SnapDeferredSeq, readerVars, flushVars, diskVars
  <2> QED
    BY <1>12, <2>1, <2>2, <2>3, <2>4
<1>13. CASE PersistData \/ SyncOpsLogs \/ WriteCursor \/ UNCHANGED vars
  <2>1. CASE PersistData
    BY <1>2, <2>1 DEF PersistData, readerVars, flushVars, diskVars
  <2>2. CASE SyncOpsLogs
    BY <1>2, <2>2 DEF SyncOpsLogs, readerVars, flushVars, diskVars
  <2>3. CASE WriteCursor
    BY <1>2, <2>3 DEF WriteCursor, readerVars, flushVars, diskVars
  <2>4. CASE UNCHANGED vars
    BY ZenonT(60), <1>2, <2>4 DEF vars, readerVars, flushVars, diskVars
  <2> QED
    BY <1>13, <2>1, <2>2, <2>3, <2>4
<1> QED
  BY ZenonT(60), <1>1, <1>2, <1>3, <1>4, <1>5, <1>6, <1>7, <1>8, <1>9, <1>10, <1>11, <1>12, <1>13
     DEF Next, Reader, Flush, Merge

(* A staged deferral that the persisted map lacks keeps the two totals of  *)
(* the flush thread apart.                                                 *)
LEMMA LagStep ==
    ASSUME TypeOK, LagInv, [Next]_vars
    PROVE  LagInv'
<1> USE DEF LagInv
<1> DEFINE Totals == <<wal, staged, diskDeferred, deferredDurable, appliedTotal>>
<1>0. /\ appliedTotal \in Nat /\ deferredDurable \in Nat /\ extBatch \in Nat /\ extChan \in Nat
      /\ Cardinality(Deferrals(chan)) \in Nat /\ Cardinality(Deferrals(batch)) \in Nat
      /\ Deferrals(chan) # {} => Cardinality(Deferrals(chan)) > 0
      /\ Deferrals(batch) # {} => Cardinality(Deferrals(batch)) > 0
  BY DeferralsFinite DEF TypeOK
<1>1. ASSUME NEW kind \in OpKinds, PostOps(kind) PROVE LagInv'
  <2>1. Deferrals(staged)' = Deferrals(staged)
    BY ZenonT(60), <1>1, WalGrows DEF PostOps, Deferrals, TypeOK, flushVars
  <2> QED
    BY <1>1, <2>1 DEF PostOps, flushVars, diskVars
<1>2. CASE UNCHANGED Totals
  BY <1>2 DEF Deferrals
<1>3. CASE ApplyPrepared
  <2>1. Deferrals(staged)' = Deferrals(staged) \cup Deferrals(batch)
    BY <1>3 DEF ApplyPrepared, Deferrals
  <2>2. /\ appliedTotal' = appliedTotal + Cardinality(Deferrals(batch)) + extBatch
        /\ UNCHANGED <<diskDeferred, deferredDurable>>
    BY <1>3 DEF ApplyPrepared, diskVars
  <2>3. CASE Deferrals(batch) = {}
    BY <1>0, <2>1, <2>2, <2>3
  <2>4. CASE Deferrals(batch) # {}
    BY <1>0, <2>1, <2>2, <2>4
  <2> QED
    BY <2>3, <2>4
<1>4. CASE ForcePublish
  <2>1. Deferrals(staged)' = Deferrals(staged) \cup Deferrals(chan)
    BY <1>4 DEF ForcePublish, Deferrals
  <2>2. /\ appliedTotal' = appliedTotal + (Cardinality(Deferrals(chan)) + extChan)
        /\ UNCHANGED <<diskDeferred, deferredDurable>>
    BY <1>4 DEF ForcePublish, DrainedByForce, diskVars
  <2>3. CASE Deferrals(chan) = {}
    BY <1>0, <2>1, <2>2, <2>3
  <2>4. CASE Deferrals(chan) # {}
    BY <1>0, <2>1, <2>2, <2>4
  <2> QED
    BY <2>3, <2>4
<1>5. CASE PersistDeferred
  <2>1. CASE diskDeferred' = Deferrals(staged) /\ deferredDurable' = appliedTotal
    BY <1>0, <1>5, <2>1 DEF PersistDeferred, WatermarkOnError, Deferrals
  <2>2. CASE UNCHANGED <<diskDeferred, deferredDurable>>
    BY <1>2, <1>5, <2>2 DEF PersistDeferred, WatermarkOnError
  <2> QED
    BY <1>5, <2>1, <2>2 DEF PersistDeferred, WatermarkOnError
<1>6. CASE ProcessCrash \/ OsCrash
  <2>1. /\ appliedTotal' = 0 /\ deferredDurable' = 0 /\ diskDeferred' = diskDeferred
        /\ wal' = wal
    BY <1>6 DEF ProcessCrash, OsCrash, Boot, diskVars
  <2>2. \E log \in SUBSET Loggable(Ops) : staged' = log \cup diskDeferred
    <3>1. CASE ProcessCrash
      <4>1. PICK part \in PartlyAppended : staged' = (opslog \cup part) \cup diskDeferred
        BY <3>1 DEF ProcessCrash, Boot
      <4>2. part \in SUBSET Loggable(Ops)
        BY DEF PartlyAppended, Loggable, TypeOK
      <4> QED
        BY ZenonT(60), <4>1, <4>2 DEF TypeOK
    <3>2. CASE OsCrash
      BY ZenonT(60), <3>2 DEF OsCrash, Boot, TypeOK
    <3> QED
      BY <1>6, <3>1, <3>2
  <2>3. Deferrals(staged)' \subseteq diskDeferred
    BY <2>1, <2>2 DEF Deferrals, Loggable
  <2> QED
    BY <2>1, <2>3
<1>7. ASSUME NEW end \in (readPos + 1) .. Len(wal), ReadBatch(end) PROVE UNCHANGED Totals
  BY <1>7 DEF ReadBatch, flushVars, diskVars
<1>8. CASE CountDeferral \/ SendOp \/ StoreCursor \/ MarkDirty \/ ExtCountDeferral \/ ExtSend
  <2>1. CASE CountDeferral
    BY <1>2, <2>1 DEF CountDeferral, flushVars, diskVars
  <2>2. CASE SendOp
    BY <1>2, <2>2 DEF SendOp, flushVars, diskVars
  <2>3. CASE StoreCursor
    BY <1>2, <2>3 DEF StoreCursor, flushVars, diskVars
  <2>4. CASE MarkDirty
    BY <1>2, <2>4 DEF MarkDirty, flushVars, diskVars
  <2>5. CASE ExtCountDeferral
    BY <1>2, <2>5 DEF ExtCountDeferral, flushVars, diskVars
  <2>6. CASE ExtSend
    BY <1>2, <2>6 DEF ExtSend, flushVars, diskVars
  <2> QED
    BY <1>8, <2>1, <2>2, <2>3, <2>4, <2>5, <2>6
<1>9. CASE Prepare \/ AppendOpsLog \/ RefreshTimeBuckets \/ SnapCursor \/ SnapDeferredSeq
  <2>1. CASE Prepare
    BY <1>2, <2>1 DEF Prepare, flushVars, diskVars
  <2>2. CASE AppendOpsLog
    BY <1>2, <2>2 DEF AppendOpsLog, LoggedOfBatch, flushVars, diskVars
  <2>3. CASE RefreshTimeBuckets
    BY <1>2, <2>3 DEF RefreshTimeBuckets, flushVars, diskVars
  <2>4. CASE SnapCursor
    BY <1>2, <2>4 DEF SnapCursor, flushVars, diskVars
  <2>5. CASE SnapDeferredSeq
    BY <1>2, <2>5 DEF SnapDeferredSeq, flushVars, diskVars
  <2> QED
    BY <1>9, <2>1, <2>2, <2>3, <2>4, <2>5
<1>10. CASE PersistData \/ SyncOpsLogs \/ WriteCursor \/ UNCHANGED vars
  <2>1. CASE PersistData
    BY <1>2, <2>1 DEF PersistData, flushVars, diskVars
  <2>2. CASE SyncOpsLogs
    BY <1>2, <2>2 DEF SyncOpsLogs, flushVars, diskVars
  <2>3. CASE WriteCursor
    BY <1>2, <2>3 DEF WriteCursor, flushVars, diskVars
  <2>4. CASE UNCHANGED vars
    BY ZenonT(60), <1>2, <2>4 DEF vars, flushVars, diskVars
  <2> QED
    BY <1>10, <2>1, <2>2, <2>3, <2>4
<1> QED
  BY ZenonT(60), <1>1, <1>2, <1>3, <1>4, <1>5, <1>6, <1>7, <1>8, <1>9, <1>10
     DEF Next, Reader, Flush, Merge

(* The heart of the gate.  While the merge thread holds its snapshots, a   *)
(* deferral below the cursor snapshot that the persisted map lacks keeps   *)
(* the durable watermark below the counter snapshot.                       *)
LEMMA GateStep ==
    ASSUME IInv, [Next]_vars
    PROVE  GateInv'
<1> USE DEF GateInv
<1>0. TypeOK /\ OrderInv /\ PlaceInv /\ LagInv /\ GateInv /\ WatermarkConserved
  BY DEF IInv
<1>a. /\ Cardinality(Deferrals(chan)) \in Nat /\ Cardinality(Deferrals(batch)) \in Nat
      /\ Deferrals(chan) # {} => Cardinality(Deferrals(chan)) > 0
      /\ Deferrals(batch) # {} => Cardinality(Deferrals(batch)) > 0
      /\ extChan \in Nat /\ extBatch \in Nat /\ extTicks \in Nat /\ deferredSeq \in Nat
      /\ appliedTotal \in Nat /\ deferredDurable \in Nat /\ seqSnap \in Nat
  BY <1>0, DeferralsFinite DEF TypeOK
<1>b. InPreparedBatch \in Nat
  BY <1>a DEF InPreparedBatch
<1> DEFINE Held == <<wal, mpc, cursorSnap, seqSnap, diskDeferred, staged, deferredDurable,
                     fpc, batch, extBatch, appliedTotal, chan>>
           Snapped == mpc \in {"seq", "persisted", "synced"}
<1>1. ASSUME NEW kind \in OpKinds, PostOps(kind) PROVE GateInv'
  <2>1. /\ \A i \in Ops : wal'[i] = wal[i]
        /\ cursorSnap' = cursorSnap /\ batch' = batch
    BY ZenonT(60), <1>0, <1>1, WalGrows DEF PostOps, mergeVars, flushVars
  <2>2. 1 .. cursorSnap \subseteq Ops /\ batch \subseteq Ops
    BY <1>0 DEF TypeOK, OrderInv, Ops
  <2>3. Deferrals(1 .. cursorSnap)' = Deferrals(1 .. cursorSnap)
    BY <2>1, <2>2 DEF Deferrals
  <2>4. Deferrals(batch)' = Deferrals(batch)
    BY <2>1, <2>2 DEF Deferrals
  <2> QED
    BY <1>0, <1>1, <2>3, <2>4 DEF PostOps, InPreparedBatch, flushVars, mergeVars, diskVars
<1>2. CASE UNCHANGED Held
  BY <1>0, <1>2 DEF Deferrals, InPreparedBatch
<1>3. CASE SendOp
  BY <1>0, <1>3 DEF SendOp, Deferrals, InPreparedBatch, flushVars, mergeVars, diskVars
<1>4. CASE Prepare
  <2>1. InPreparedBatch = 0 /\ fpc # "drained" /\ fpc' = "drained" /\ batch' = chan
    BY <1>4 DEF Prepare, InPreparedBatch
  <2> QED
    BY <1>0, <1>a, <1>4, <2>1 DEF Prepare, Deferrals, mergeVars, diskVars
<1>5. CASE ApplyPrepared
  <2>1. appliedTotal' + InPreparedBatch' = appliedTotal + InPreparedBatch
    BY <1>a, <1>5 DEF ApplyPrepared, InPreparedBatch
  <2>2. deferredDurable <= appliedTotal
    BY <1>0 DEF LagInv
  <2>3. /\ UNCHANGED <<wal, cursorSnap, seqSnap, mpc, diskDeferred, deferredDurable, chan>>
        /\ staged' = staged \cup batch
    BY <1>5 DEF ApplyPrepared, mergeVars, diskVars
  <2> QED
    BY <1>0, <1>a, <2>1, <2>2, <2>3 DEF Deferrals
<1>6. CASE AppendOpsLog
  <2>1. fpc # "drained" /\ fpc' # "drained" /\ InPreparedBatch' = InPreparedBatch
    BY <1>6 DEF AppendOpsLog, LoggedOfBatch, InPreparedBatch
  <2> QED
    BY <1>0, <1>6, <2>1 DEF AppendOpsLog, LoggedOfBatch, Deferrals, mergeVars
<1>7. CASE PersistDeferred
  <2>1. /\ fpc # "drained" /\ fpc' # "drained" /\ InPreparedBatch' = InPreparedBatch
        /\ UNCHANGED <<wal, cursorSnap, seqSnap, mpc, staged, appliedTotal, chan>>
    BY <1>7 DEF PersistDeferred, WatermarkOnError, InPreparedBatch, mergeVars
  <2>2. \/ UNCHANGED <<diskDeferred, deferredDurable>>
        \/ diskDeferred' = Deferrals(staged)
    BY <1>7 DEF PersistDeferred, WatermarkOnError
  <2>3. diskDeferred \subseteq staged /\ \A i \in diskDeferred : wal[i] = "defer"
    BY <1>0 DEF PlaceInv, TypeOK, Deferrals
  <2> QED
    BY <1>0, <2>1, <2>2, <2>3 DEF Deferrals
<1>8. CASE ForcePublish
  <2>1. /\ fpc # "drained" /\ fpc' # "drained" /\ InPreparedBatch = 0 /\ InPreparedBatch' = 0
        /\ UNCHANGED <<wal, cursorSnap, seqSnap, mpc, diskDeferred, deferredDurable>>
        /\ staged' = staged \cup chan
    BY <1>8 DEF ForcePublish, InPreparedBatch, mergeVars, diskVars
  <2>2. deferredDurable <= appliedTotal
    BY <1>0 DEF LagInv
  <2> QED
    BY <1>0, <1>a, <2>1, <2>2 DEF Deferrals
<1>9. CASE SnapCursor
  BY <1>9 DEF SnapCursor
<1>10. CASE SnapDeferredSeq
  <2> SUFFICES ASSUME NEW i \in Deferrals(1 .. cursorSnap)
               PROVE  \/ i \in diskDeferred
                      \/ i \in staged /\ deferredDurable < deferredSeq
                      \/ fpc = "drained" /\ i \in batch /\ appliedTotal < deferredSeq
                      \/ i \in chan /\ appliedTotal + InPreparedBatch < deferredSeq
    BY <1>10 DEF SnapDeferredSeq, Deferrals, InPreparedBatch, flushVars, diskVars
  <2>1. i \in Deferrals(1 .. readPos)
    BY <1>0 DEF Deferrals, OrderInv, TypeOK
  <2>2. i \in chan \/ i \in staged \/ (fpc = "drained" /\ i \in batch)
    BY <1>0, <2>1 DEF PlaceInv
  <2>3. deferredSeq >= appliedTotal + InPreparedBatch + Cardinality(Deferrals(chan))
    <3>1. (IF ticked THEN 1 ELSE 0) \in Nat
      OBVIOUS
    <3> QED
      BY <1>0, <1>a, <1>b, <3>1 DEF WatermarkConserved
  <2>4. CASE i \in chan
    <3>1. Cardinality(Deferrals(chan)) > 0
      BY <1>a, <2>4 DEF Deferrals
    <3> QED
      BY <1>a, <1>b, <2>3, <2>4, <3>1
  <2>5. CASE i \in staged
    <3>1. i \in diskDeferred \/ deferredDurable < appliedTotal
      BY <1>0, <2>5 DEF LagInv, Deferrals
    <3> QED
      BY <1>a, <1>b, <2>3, <2>5, <3>1
  <2>6. CASE fpc = "drained" /\ i \in batch
    <3>1. Cardinality(Deferrals(batch)) > 0
      BY <1>a, <2>6 DEF Deferrals
    <3>2. InPreparedBatch > 0
      BY <1>a, <2>6, <3>1 DEF InPreparedBatch
    <3> QED
      BY <1>a, <1>b, <2>3, <2>6, <3>2
  <2> QED
    BY <2>2, <2>4, <2>5, <2>6
<1>11. CASE PersistData \/ SyncOpsLogs
  <2>1. /\ UNCHANGED <<wal, cursorSnap, seqSnap, diskDeferred, staged, deferredDurable,
                       fpc, batch, extBatch, appliedTotal, chan>>
        /\ Snapped
    BY <1>11 DEF PersistData, SyncOpsLogs, flushVars
  <2> QED
    BY <1>0, <2>1 DEF Deferrals, InPreparedBatch
<1>12. CASE WriteCursor \/ ProcessCrash \/ OsCrash
  <2>1. CASE WriteCursor
    BY <2>1 DEF WriteCursor
  <2>2. CASE ProcessCrash
    BY <2>2 DEF ProcessCrash, Boot
  <2>3. CASE OsCrash
    BY <2>3 DEF OsCrash, Boot
  <2> QED
    BY <1>12, <2>1, <2>2, <2>3
<1>13. ASSUME NEW end \in (readPos + 1) .. Len(wal), ReadBatch(end) PROVE UNCHANGED Held
  BY <1>13 DEF ReadBatch, flushVars, mergeVars, diskVars
<1>14. CASE CountDeferral \/ StoreCursor \/ MarkDirty \/ ExtCountDeferral
  <2>1. CASE CountDeferral
    BY <1>2, <2>1 DEF CountDeferral, flushVars, mergeVars, diskVars
  <2>2. CASE StoreCursor
    BY <1>2, <2>2 DEF StoreCursor, flushVars, mergeVars, diskVars
  <2>3. CASE MarkDirty
    BY <1>2, <2>3 DEF MarkDirty, flushVars, mergeVars, diskVars
  <2>4. CASE ExtCountDeferral
    BY <1>2, <2>4 DEF ExtCountDeferral, flushVars, mergeVars, diskVars
  <2> QED
    BY <1>14, <2>1, <2>2, <2>3, <2>4
<1>15. CASE ExtSend \/ RefreshTimeBuckets \/ UNCHANGED vars
  <2>1. CASE ExtSend
    BY <1>2, <2>1 DEF ExtSend, flushVars, mergeVars, diskVars
  <2>2. CASE RefreshTimeBuckets
    BY <1>2, <2>2 DEF RefreshTimeBuckets, flushVars, mergeVars, diskVars
  <2>3. CASE UNCHANGED vars
    BY ZenonT(60), <1>2, <2>3 DEF vars, flushVars, mergeVars, diskVars
  <2> QED
    BY <1>15, <2>1, <2>2, <2>3
<1> QED
  BY ZenonT(60), <1>1, <1>2, <1>3, <1>4, <1>5, <1>6, <1>7, <1>8, <1>9, <1>10, <1>11, <1>12,
     <1>13, <1>14, <1>15 DEF Next, Reader, Flush, Merge

(* The cursor moves only through the gate, and the map never shrinks.      *)
LEMMA DurableStep ==
    ASSUME IInv, [Next]_vars
    PROVE  DeferralsDurable' /\ diskCursor' >= diskCursor
<1>0. TypeOK /\ OrderInv /\ PlaceInv /\ LagInv /\ GateInv /\ DeferralsDurable
  BY DEF IInv
<1>1. \A i \in Ops : wal'[i] = wal[i]
  BY <1>0, WalStable
<1>2. diskDeferred \subseteq diskDeferred'
  <2>1. CASE PersistDeferred
    <3>1. diskDeferred' = diskDeferred \/ diskDeferred' = Deferrals(staged)
      BY <2>1 DEF PersistDeferred, WatermarkOnError
    <3>2. diskDeferred \subseteq Deferrals(staged)
      BY <1>0 DEF PlaceInv, TypeOK, Deferrals
    <3> QED
      BY <3>1, <3>2
  <2>2. CASE ~PersistDeferred
    BY ZenonT(60), <2>2 DEF Next, Reader, Flush, Merge, vars, diskVars, PostOps, ReadBatch,
           CountDeferral, SendOp, StoreCursor, MarkDirty, ExtCountDeferral, ExtSend,
           Prepare, ApplyPrepared, AppendOpsLog, LoggedOfBatch, ForcePublish, RefreshTimeBuckets,
           SnapCursor, SnapDeferredSeq, PersistData, SyncOpsLogs, WriteCursor,
           ProcessCrash, OsCrash
  <2> QED
    BY <2>1, <2>2
<1>3. CASE diskCursor' = diskCursor
  BY <1>0, <1>1, <1>2, <1>3 DEF DeferralsDurable, TypeOK, Ops
<1>4. CASE diskCursor' # diskCursor
  <2>1. /\ WriteCursor /\ diskCursor' = cursorSnap /\ deferredDurable >= seqSnap
        /\ mpc = "synced"
    BY ZenonT(60), <1>4 DEF Next, Reader, Flush, Merge, vars, diskVars, PostOps, ReadBatch,
           CountDeferral, SendOp, StoreCursor, MarkDirty, ExtCountDeferral, ExtSend,
           Prepare, ApplyPrepared, AppendOpsLog, LoggedOfBatch, PersistDeferred, ForcePublish,
           RefreshTimeBuckets, SnapCursor, SnapDeferredSeq, PersistData, SyncOpsLogs,
           WriteCursor, DurableCaughtUp, ProcessCrash, OsCrash
  <2>2. \A i \in Deferrals(1 .. cursorSnap) : i \in diskDeferred
    <3>1. deferredDurable <= appliedTotal
      BY <1>0 DEF LagInv
    <3>2. InPreparedBatch \in Nat
      BY <1>0, DeferralsFinite DEF InPreparedBatch, TypeOK
    <3> QED
      BY <1>0, <2>1, <3>1, <3>2 DEF GateInv, TypeOK
  <2>3. cursorSnap \in Nat /\ cursorSnap <= Len(wal) /\ diskCursor <= cursorSnap
    BY <1>0, <2>1 DEF OrderInv, TypeOK
  <2>4. \A i \in 1 .. cursorSnap : i \in Ops
    BY <1>0, <2>3 DEF Ops, TypeOK
  <2> QED
    BY <1>0, <1>1, <1>2, <2>1, <2>2, <2>3, <2>4 DEF DeferralsDurable, Deferrals, TypeOK
<1> QED
  BY <1>3, <1>4
-----------------------------------------------------------------------------
LEMMA InvStep == IInv /\ [Next]_vars => IInv'
<1> SUFFICES ASSUME IInv, [Next]_vars PROVE IInv'
  OBVIOUS
<1>1. TypeOK' /\ OrderInv'
  BY TypeOrderStep DEF IInv
<1>2. PlaceInv'
  BY PlaceStep DEF IInv
<1>3. LagInv'
  BY LagStep DEF IInv
<1>4. GateInv'
  BY GateStep
<1>5. WatermarkConserved'
  BY WatermarkStep DEF IInv
<1>6. DeferralsDurable'
  BY DurableStep
<1> QED
  BY <1>1, <1>2, <1>3, <1>4, <1>5, <1>6 DEF IInv

(* The inductive invariant holds in every reachable state, whatever the    *)
(* bounds on operations, other writers, crashes and faults.                *)
THEOREM Invariance == Spec => []IInv
BY InitInv, InvStep, PTL DEF Spec

(* The merge thread's gate is sound: the persisted cursor never covers a   *)
(* deferral that the persisted map does not hold.                          *)
THEOREM GateSound == Spec => []DeferralsDurable
<1>1. IInv => DeferralsDurable
  BY DEF IInv
<1> QED
  BY <1>1, Invariance, PTL

(* The watermarks conserve every submitted deferral: ForcePublish and the  *)
(* main cycle count exactly what MutationSender::send counts.              *)
THEOREM WatermarkSound == Spec => []WatermarkConserved
<1>1. IInv => WatermarkConserved
  BY DEF IInv
<1> QED
  BY <1>1, Invariance, PTL

(* The merge thread and the crashes never move the persisted cursor back.  *)
THEOREM CursorNeverRegresses == Spec => CursorMonotone
<1>1. IInv /\ [Next]_vars => [diskCursor' >= diskCursor]_diskCursor
  BY DurableStep
<1> QED
  BY <1>1, Invariance, PTL DEF Spec, CursorMonotone
=============================================================================
