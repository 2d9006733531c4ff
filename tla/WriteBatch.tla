----------------------------- MODULE WriteBatch -----------------------------
(* The mutation batch of src/write_coalescer.rs and the slot allocator of
   src/slot.rs it is applied to: what a batch of mutation operations does to the
   bitmaps in memory, and what the flush thread appends to the shard files for
   it.  A bitmap is the set of its slots; the filter bitmaps are a function of
   the value, the sort layers one of the bit position.

   An operation is a record: k is its kind, slot its slot, and v the filter
   value, the bit layer or the activation time, where the kind has one.         *)
EXTENDS Integers, Sequences, FiniteSets, FiniteSetsExt, SequencesExt

\* The state a batch is applied to: the alive bitmap, the high-water mark of
\* allocated slots, the deferred map as a set of pairs <<activation time, slot>>,
\* the filter bitmaps and the sort layers.
Bitmaps(Slots, Keys, Bits, Times) ==
    [alive : SUBSET Slots, next : 0..(Cardinality(Slots)),
     deferred : SUBSET (Times \X Slots),
     filter : [Keys -> SUBSET Slots], sort : [Bits -> SUBSET Slots]]

EmptyBitmaps(Keys, Bits) ==
    [alive |-> {}, next |-> 0, deferred |-> {},
     filter |-> [k \in Keys |-> {}], sort |-> [b \in Bits |-> {}]]

Op(k, slot, v) == [k |-> k, slot |-> slot, v |-> v]

FilterInsert(slot, key) == Op("filter_insert", slot, key)
FilterRemove(slot, key) == Op("filter_remove", slot, key)
SortSet(slot, bit)      == Op("sort_set", slot, bit)
SortClear(slot, bit)    == Op("sort_clear", slot, bit)
AliveInsert(slot)       == Op("alive_insert", slot, 0)
AliveRemove(slot)       == Op("alive_remove", slot, 0)
DeferredAlive(slot, at) == Op("deferred_alive", slot, at)
DeferredCancel(slot)    == Op("deferred_cancel", slot, 0)

-----------------------------------------------------------------------------
(* Grouping: the slots of one kind and one value; the deferred mutations keep
   their order of arrival.                                                      *)

Group(ops, kind, v) == {op.slot : op \in {o \in ToSet(ops) : o.k = kind /\ o.v = v}}

DeferredMuts(ops) ==
    SelectSeq(ops, LAMBDA op : op.k \in {"deferred_alive", "deferred_cancel"})

-----------------------------------------------------------------------------
(* The slot allocator. *)

TwoAbove(next, slots) == Max({next} \union {s + 2 : s \in slots})

HighWater(next, slots) == Max({next} \union {s + 1 : s \in slots})

CancelDeferred(map, slot) == {e \in map : e[2] # slot}

AppendSchedule(map, slot, at) == map \union {<<at, slot>>}

\* A slot has at most one activation time: an earlier schedule is dropped.
ScheduleAlive(map, slot, at) == CancelDeferred(map, slot) \union {<<at, slot>>}

Due(map, now) == {e[2] : e \in {d \in map : d[1] <= now}}

\* activate_due: the due slots become alive and leave the map.
ActivateDue(b, now) ==
    [b EXCEPT !.alive = @ \union Due(b.deferred, now),
              !.deferred = {e \in @ : e[1] > now}]

\* The deferred mutations of a batch, replayed in order of arrival.
ApplyDeferred(map, ops) ==
    FoldLeft(LAMBDA d, op : IF op.k = "deferred_alive"
                            THEN ScheduleAlive(d, op.slot, op.v)
                            ELSE CancelDeferred(d, op.slot),
             map, DeferredMuts(ops))

-----------------------------------------------------------------------------
(* Applying a batch in memory: filter removes then inserts, sort clears then
   sets, alive inserts then removes.                                            *)

InsertsFirst(filter, ops) ==
    [k \in DOMAIN filter |-> (filter[k] \union Group(ops, "filter_insert", k))
                               \ Group(ops, "filter_remove", k)]

ApplyFilters(filter, ops) ==
    [k \in DOMAIN filter |-> (filter[k] \ Group(ops, "filter_remove", k))
                               \union Group(ops, "filter_insert", k)]

SetsFirst(sort, ops) ==
    [b \in DOMAIN sort |-> (sort[b] \union Group(ops, "sort_set", b))
                             \ Group(ops, "sort_clear", b)]

ApplySorts(sort, ops) ==
    [b \in DOMAIN sort |-> (sort[b] \ Group(ops, "sort_clear", b))
                             \union Group(ops, "sort_set", b)]

ApplyAlive(alive, ops) ==
    (alive \union Group(ops, "alive_insert", 0)) \ Group(ops, "alive_remove", 0)

NoneScheduled(ops) == {}

Scheduled(ops) == {op.slot : op \in {o \in ToSet(ops) : o.k = "deferred_alive"}}

Apply(b, ops) ==
    [alive    |-> ApplyAlive(b.alive, ops),
     next     |-> HighWater(b.next, Group(ops, "alive_insert", 0) \union Scheduled(ops)),
     deferred |-> ApplyDeferred(b.deferred, ops),
     filter   |-> ApplyFilters(b.filter, ops),
     sort     |-> ApplySorts(b.sort, ops)]

-----------------------------------------------------------------------------
(* What the flush thread appends to the shard files, as its effect on the state a
   replay of the files gives: alive sets then clears, filter sets then clears,
   sort clears then sets.                                                       *)

ClearsBeforeSets(alive, ops) ==
    (alive \ Group(ops, "alive_remove", 0)) \union Group(ops, "alive_insert", 0)

AppendAlive(alive, ops) ==
    (alive \union Group(ops, "alive_insert", 0)) \ Group(ops, "alive_remove", 0)

AppendFilters(filter, ops) ==
    [k \in DOMAIN filter |-> (filter[k] \union Group(ops, "filter_insert", k))
                               \ Group(ops, "filter_remove", k)]

AppendSorts(sort, ops) ==
    [b \in DOMAIN sort |-> (sort[b] \ Group(ops, "sort_clear", b))
                             \union Group(ops, "sort_set", b)]

AppendOps(files, ops) ==
    [alive  |-> AppendAlive(files.alive, ops),
     filter |-> AppendFilters(files.filter, ops),
     sort   |-> AppendSorts(files.sort, ops)]
=============================================================================
