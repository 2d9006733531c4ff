------------------------------- MODULE Mutation -------------------------------
(* Document writes through the engine: put, patch_document and delete of
   src/concurrent_engine.rs with the diffs of src/mutation.rs, the flush thread
   that activates deferred slots, applies and publishes batches, appends them to
   the shard files and stores the documents, and the files a restart replays.

   A writer reads the published snapshot and the stored document, computes the
   mutations from them and sends them one by one; neither the mutations nor the
   document reach memory and store before the flush thread's next cycle.

   The index modelled has one multi-value filter field f, one direct sort field s
   and a deferred-alive field at.  An optional value is a set of at most one
   element: {} is an absent field, or an absent document.                        *)
EXTENDS WriteBatch

CONSTANTS Slots,        \* slot numbers 0 .. n-1
          Keys,         \* values of the filter field
          Bits,         \* bit positions of the sort field
          Docs,         \* the documents writers put
          Patches,      \* the partial documents writers patch with
          Writers,      \* threads that call the engine
          Retry,        \* activation_verify.retry_secs
          MaxTime,      \* bound: the clock
          MaxWrites,    \* bound: calls of the engine
          MaxErrors     \* bound: failed document reads

Times == 0..(MaxTime + Retry)
Opt(S) == {{}} \union {{x} : x \in S}
DocType == [f : Opt(SUBSET Keys), s : Opt(0..(2^Cardinality(Bits) - 1)), at : Opt(Times)]

ASSUME MutationAssumption ==
    /\ Slots = 0..(Cardinality(Slots) - 1)
    /\ Bits = 0..(Cardinality(Bits) - 1)
    /\ Docs \subseteq DocType /\ Patches \subseteq DocType
    /\ Retry \in Nat \ {0} /\ MaxTime \in Nat /\ MaxWrites \in Nat /\ MaxErrors \in Nat

VARIABLES
    now,       \* wall clock, seconds
    inner,     \* the published snapshot
    staging,   \* the flush thread's private copy
    files,     \* alive, filter and sort state a replay of the shard files gives
    chan,      \* the mutation channel
    batch,     \* the batch of the current cycle
    docs,      \* the document store
    docTx,     \* the channel of document writes
    flush,     \* program counter of the flush thread
    writer,    \* what each writer is doing
    wanted,    \* ghost: the document the last finished write of a slot asked for
    exposed,   \* ghost: slots a write of which met one of the races below
    writes, errors

vars == <<now, inner, staging, files, chan, batch, docs, docTx, flush, writer,
          wanted, exposed, writes, errors>>
flushVars == <<inner, staging, files, batch, flush>>

Idle == [pc |-> "idle", slot |-> 0, doc |-> {}, alive |-> FALSE, allocated |-> FALSE,
         ops |-> <<>>, stored |-> {}, next |-> {}]

-----------------------------------------------------------------------------
(* Diffs (src/mutation.rs).  A document argument is optional. *)

Field(d, name) == UNION {x[name] : x \in d}

OneBits(val) == {b \in Bits : (val \div 2^b) % 2 = 1}

Removes(slot, f) == SetToSeq({FilterRemove(slot, k) : k \in UNION f})
Inserts(slot, f) == SetToSeq({FilterInsert(slot, k) : k \in UNION f})
Clears(slot, bits) == SetToSeq({SortClear(slot, b) : b \in bits})
Sets(slot, bits)   == SetToSeq({SortSet(slot, b) : b \in bits})

\* Clears for the one-bits of the old document's sort value, if it has one.
OldSort(slot, s) == Clears(slot, UNION {OneBits(v) : v \in s})

CleanUp(slot, old) == Removes(slot, Field(old, "f")) \o OldSort(slot, Field(old, "s"))

\* A fresh insert writes every layer, set or clear.
Overwrite(slot, s) ==
    IF s = {} THEN <<>>
    ELSE LET one == UNION {OneBits(v) : v \in s}
         IN  Sets(slot, one) \o Clears(slot, Bits \ one)

EmitSortDiff(slot, old, new) ==
    LET o == UNION {OneBits(v) : v \in old}
        n == UNION {OneBits(v) : v \in new}
    IN  CASE old = new -> <<>>
          [] new = {}  -> Clears(slot, Bits)
          [] OTHER     -> Sets(slot, n \ o) \o Clears(slot, o \ n)

FilterDiff(slot, old, new) ==
    IF old = new THEN <<>> ELSE Removes(slot, old) \o Inserts(slot, new)

Defers(doc) == \E t \in doc.at : t > now
Schedules(slot, doc) == <<DeferredAlive(slot, CHOOSE t \in doc.at : TRUE)>>

DiffDocument(slot, old, doc, isUpsert) ==
    IF Defers(doc)
    THEN (IF old = {} THEN <<>> ELSE CleanUp(slot, old) \o <<AliveRemove(slot)>>)
           \o Schedules(slot, doc)
    ELSE (IF isUpsert
          THEN FilterDiff(slot, Field(old, "f"), doc.f)
                 \o EmitSortDiff(slot, Field(old, "s"), doc.s)
          ELSE CleanUp(slot, old) \o Inserts(slot, doc.f) \o Overwrite(slot, doc.s))
           \o <<AliveInsert(slot)>>

DiffDocumentPartial(slot, old, patch) ==
    IF Defers(patch)
    THEN CleanUp(slot, old) \o <<AliveRemove(slot)>> \o Schedules(slot, patch)
    ELSE (IF patch.f = {} THEN <<>> ELSE FilterDiff(slot, Field(old, "f"), patch.f))
           \o (IF patch.s = {} THEN <<>> ELSE EmitSortDiff(slot, Field(old, "s"), patch.s))

Merge(old, patch) ==
    [name \in DOMAIN patch |-> IF patch[name] = {} THEN Field(old, name) ELSE patch[name]]

-----------------------------------------------------------------------------
(* The state a slot is in, and the races a write can meet. *)

IsDeferred(b, slot) == \E e \in b.deferred : e[2] = slot

Outstanding(slot) ==
    \/ \E w \in Writers : writer[w].pc # "idle" /\ writer[w].slot = slot
    \/ \E op \in ToSet(chan) \union ToSet(batch) : op.slot = slot
    \/ \E e \in ToSet(docTx) : e[1] = slot

\* The flush thread rests between two cycles and knows of everything about slot.
Settled(slot) == ~Outstanding(slot) /\ flush = "idle"

-----------------------------------------------------------------------------
Init ==
    /\ now = 0
    /\ inner = EmptyBitmaps(Keys, Bits) /\ staging = inner
    /\ files = [alive |-> {}, filter |-> inner.filter, sort |-> inner.sort]
    /\ chan = <<>> /\ batch = <<>> /\ docTx = <<>>
    /\ docs = [s \in Slots |-> {}]
    /\ flush = "idle"
    /\ writer = [w \in Writers |-> Idle]
    /\ wanted = [s \in Slots |-> {}]
    /\ exposed = {}
    /\ writes = 0 /\ errors = 0

Tick == /\ now < MaxTime
        /\ now' = now + 1
        /\ UNCHANGED <<flushVars, chan, docs, docTx, writer, wanted, exposed, writes, errors>>

\* A call starts: it looks the slot up in the published snapshot.  Ghost: the slot
\* is exposed if an earlier write of it is still on its way.
Start(w, slot, pc, doc) ==
    /\ writer[w].pc = "idle"
    /\ writes < MaxWrites
    /\ writer' = [writer EXCEPT ![w] =
                    [Idle EXCEPT !.pc = pc, !.slot = slot, !.doc = doc,
                                 !.alive = slot \in inner.alive,
                                 !.allocated = slot < inner.next]]
    /\ writes' = writes + 1
    /\ exposed' = IF Settled(slot) THEN exposed ELSE exposed \union {slot}
    /\ UNCHANGED <<now, flushVars, chan, docs, docTx, wanted, errors>>

Put(w) == \E slot \in Slots, doc \in Docs : Start(w, slot, "put", {doc})
PatchDocument(w) == \E slot \in Slots, patch \in Patches : Start(w, slot, "patch", {patch})
Delete(w) == \E slot \in Slots : Start(w, slot, "delete", {})

\* The old document is read and the mutations are computed.
Diffed(w, ops, stored, next) ==
    /\ writer' = [writer EXCEPT ![w].pc = "send", ![w].ops = ops, ![w].stored = stored,
                                ![w].next = next]
    /\ UNCHANGED <<now, flushVars, chan, docs, docTx, wanted, writes, errors>>

PutInner(w) ==
    /\ writer[w].pc = "put" \/ (writer[w].pc = "patch" /\ ~writer[w].alive)
    /\ LET me  == writer[w]
           old == IF me.alive \/ me.allocated THEN docs[me.slot] ELSE {}
       IN  \E doc \in me.doc :
              Diffed(w, DiffDocument(me.slot, old, doc, me.alive), {doc}, {doc})
    /\ UNCHANGED exposed

PatchAlive(w) ==
    /\ writer[w].pc = "patch" /\ writer[w].alive
    /\ LET me == writer[w]
       IN  \E patch \in me.doc :
              Diffed(w, DiffDocumentPartial(me.slot, docs[me.slot], patch),
                     {Merge(docs[me.slot], patch)}, {Merge(wanted[me.slot], patch)})
    /\ UNCHANGED exposed

DeleteOps(slot) == CleanUp(slot, docs[slot]) \o <<AliveRemove(slot)>>

\* Ghost: deleting a slot that waits for its activation exposes it.
DeleteInner(w) ==
    /\ writer[w].pc = "delete"
    /\ LET slot == writer[w].slot
       IN  /\ Diffed(w, DeleteOps(slot), {}, {})
           /\ exposed' = IF IsDeferred(staging, slot) THEN exposed \union {slot} ELSE exposed

SendOp(w) ==
    /\ writer[w].pc = "send" /\ writer[w].ops # <<>>
    /\ chan' = Append(chan, Head(writer[w].ops))
    /\ writer' = [writer EXCEPT ![w].ops = Tail(@)]
    /\ UNCHANGED <<now, flushVars, docs, docTx, wanted, exposed, writes, errors>>

\* The document follows the mutations; the call returns.
Finish(w) ==
    /\ writer[w].pc = "send" /\ writer[w].ops = <<>>
    /\ docTx' = docTx \o SetToSeq({<<writer[w].slot, d>> : d \in writer[w].stored})
    /\ wanted' = [wanted EXCEPT ![writer[w].slot] = writer[w].next]
    /\ writer' = [writer EXCEPT ![w] = Idle]
    /\ UNCHANGED <<now, flushVars, chan, docs, exposed, writes, errors>>
-----------------------------------------------------------------------------
(* The flush thread's cycle. *)

ReplayActivation(slot) ==
    LET doc == CHOOSE d \in docs[slot] : TRUE IN DiffDocument(slot, {}, doc, FALSE)

\* A slot whose document could not be read is scheduled again.
Redefer(map, missed) ==
    {e \in map : e[2] \notin missed} \union {<<now + Retry, s>> : s \in missed}

\* Top of the cycle: due slots become alive and their documents are replayed; a
\* slot without a readable document is cleared again.  Ghost: exposed is a
\* due slot with a write on its way, and a live one (its schedule outlived a put of
\* a live document) whose document could not be read.
Activate ==
    /\ flush = "idle"
    /\ Len(chan) + Len(docTx) + Cardinality(Due(staging.deferred, now)) > 0
    /\ LET due == Due(staging.deferred, now)
       IN  \E failed \in SUBSET due :
             LET missed == failed \union {s \in due : docs[s] = {}}
                 ops(s) == IF s \in missed THEN <<AliveRemove(s)>> ELSE ReplayActivation(s)
             IN  /\ errors + Cardinality(failed) <= MaxErrors
                 /\ errors' = errors + Cardinality(failed)
                 /\ batch' = FoldLeft(LAMBDA acc, s : acc \o ops(s), <<>>, SetToSeq(due))
                 /\ staging' = [ActivateDue(staging, now) EXCEPT !.deferred = Redefer(@, missed)]
                 /\ exposed' = exposed \union {s \in due : Outstanding(s)}
                                      \union (missed \intersect staging.alive)
    /\ flush' = "apply"
    /\ UNCHANGED <<now, inner, files, chan, docs, docTx, writer, wanted, writes>>

\* Drain, group, apply, publish.
ApplyBatch ==
    /\ flush = "apply"
    /\ batch' = batch \o chan
    /\ chan' = <<>>
    /\ staging' = Apply(staging, batch')
    /\ inner' = IF batch' = <<>> THEN inner ELSE staging'
    /\ flush' = "append"
    /\ UNCHANGED <<now, files, docs, docTx, writer, wanted, exposed, writes, errors>>

AppendOpsLog ==
    /\ flush = "append"
    /\ files' = AppendOps(files, batch)
    /\ batch' = <<>>
    /\ flush' = "docs"
    /\ UNCHANGED <<now, inner, staging, chan, docs, docTx, writer, wanted, exposed, writes,
                   errors>>

StoreDocs ==
    /\ flush = "docs"
    /\ docs' = FoldLeft(LAMBDA d, e : [d EXCEPT ![e[1]] = {e[2]}], docs, docTx)
    /\ docTx' = <<>>
    /\ flush' = "idle"
    /\ UNCHANGED <<now, inner, staging, files, chan, batch, writer, wanted, exposed, writes,
                   errors>>

\* A failed batch write is logged and its documents are dropped.
StoreDocsFails ==
    /\ flush = "docs" /\ docTx # <<>>
    /\ errors < MaxErrors /\ errors' = errors + 1
    /\ exposed' = exposed \union {e[1] : e \in ToSet(docTx)}
    /\ docTx' = <<>>
    /\ flush' = "idle"
    /\ UNCHANGED <<now, inner, staging, files, chan, batch, docs, writer, wanted, writes>>

Next ==
    \/ Tick
    \/ \E w \in Writers : \/ Put(w) \/ PatchDocument(w) \/ Delete(w)
                          \/ PutInner(w) \/ PatchAlive(w) \/ DeleteInner(w)
                          \/ SendOp(w) \/ Finish(w)
    \/ Activate \/ ApplyBatch \/ AppendOpsLog \/ StoreDocs \/ StoreDocsFails

Spec == Init /\ [][Next]_vars

-----------------------------------------------------------------------------
\* Types of the state; the high-water mark never passes the largest slot by more
\* than one (SlotAllocator::next_slot).
TypeOK ==
    /\ now \in 0..MaxTime
    /\ inner \in Bitmaps(Slots, Keys, Bits, Times)
    /\ staging \in Bitmaps(Slots, Keys, Bits, Times)
    /\ files \in [alive : SUBSET Slots, filter : [Keys -> SUBSET Slots],
                  sort : [Bits -> SUBSET Slots]]
    /\ flush \in {"idle", "apply", "append", "docs"}
    /\ docs \in [Slots -> Opt(DocType)]
    /\ wanted \in [Slots -> Opt(DocType)]
    /\ exposed \subseteq Slots
    /\ writes \in 0..MaxWrites /\ errors \in 0..MaxErrors

KeysOf(b, slot) == {k \in Keys : slot \in b.filter[k]}
BitsOf(b, slot) == {n \in Bits : slot \in b.sort[n]}
Blank(b, slot) == slot \notin b.alive /\ KeysOf(b, slot) = {} /\ BitsOf(b, slot) = {}

Shows(b, slot, doc) ==
    /\ slot \in b.alive
    /\ KeysOf(b, slot) = UNION doc.f
    /\ BitsOf(b, slot) = UNION {OneBits(v) : v \in doc.s}
    /\ ~Defers(doc)

\* Once everything about a slot is settled, the published bitmaps are exactly what
\* the last finished put, patch_document or delete asked for: the document's
\* values and no others while it is live, nothing while it waits for its
\* activation or is deleted.  It may fail only for slots that met one of the races
\* in exposed.
PublishedIsWanted ==
    \A slot \in Slots \ exposed : Settled(slot) =>
        IF wanted[slot] = {} THEN Blank(inner, slot)
        ELSE \A doc \in wanted[slot] :
               \/ Shows(inner, slot, doc)
               \/ Blank(inner, slot) /\ IsDeferred(inner, slot)

\* A slot waits under at most one activation time (schedule_alive cancels the
\* earlier one): a postponed publication never fires at the old time.
OneActivationTime == \A d, e \in staging.deferred : d[2] = e[2] => d = e

\* Every alive or deferred slot is below the high-water mark, so a later put finds
\* its old document (was_ever_allocated) and clears its stale bits.
BelowHighWater ==
    \A slot \in Slots : slot \in staging.alive \/ IsDeferred(staging, slot)
                         => slot < staging.next

\* Between two appends the files replay to the sort layers in memory: the append
\* order of clears and sets is the one memory applies.
SortReplayMatchesMemory == flush \in {"docs", "idle"} => files.sort = staging.sort

\* A replay of the files never shows a slot alive that is dead in memory: a delete
\* survives a restart, also when it shares a batch with a put of the slot.
ReplayRevivesNothing == flush \in {"docs", "idle"} => files.alive \subseteq staging.alive

\* Between two appends the files replay to the filter bitmaps in memory.
FilterReplayMatchesMemory == flush \in {"docs", "idle"} => files.filter = staging.filter

\* Delete makes filter bitmaps always clean: a settled slot that is not alive is in
\* no filter bitmap.
FiltersAlwaysClean ==
    \A slot \in Slots : Settled(slot) /\ slot \notin inner.alive => KeysOf(inner, slot) = {}

\* A deleted slot is not resurrected by a later activation.
DeletedStaysDeleted ==
    \A slot \in Slots : Settled(slot) /\ wanted[slot] = {} => slot \notin inner.alive

\* A document scheduled for later is invisible until then: a settled slot whose
\* document's publication date is ahead is not alive.
InvisibleUntilActivation ==
    \A slot \in Slots : Settled(slot) /\ (\E doc \in wanted[slot] : Defers(doc))
                         => slot \notin inner.alive
=============================================================================
