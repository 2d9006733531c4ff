----------------------------- MODULE OpsPoller -----------------------------
(***************************************************************************)
(* The poller of the sync sidecar (pg_sync/ops_poller.rs).  Triggers in    *)
(* Postgres insert rows into BitdexOps inside the writers' transactions: a *)
(* row's id is handed out at the insert, the row is visible after the      *)
(* commit.  The poller reads rows behind its cursor, posts them to the     *)
(* engine, and moves the cursor to the highest id below which nothing can  *)
(* still appear.  Every statement it sends is a step of its own, so that   *)
(* writers, another replica and the cleanup trigger run in between.        *)
(***************************************************************************)
EXTENDS Integers, FiniteSets, FiniteSetsExt

CONSTANTS
  Entity,        \* entities that rows are about
  MaxTxn,        \* bound: writer transactions, in the order of their txids
  MaxId,         \* bound: ids of BitdexOps
  BatchLimit,    \* rows per poll
  GapSetLimit,   \* GAP_SET_LIMIT
  OrderedIds,    \* no transaction takes an id after a younger one did
  QuietSeed,     \* no transaction ends between the two statements of the boot seed
  KnownReplica,  \* the replica has a row in bitdex_cursors from the start
  MaxFaults      \* bound: failed statements, failed posts, restarts

ASSUME PollerAssumption ==
  /\ {MaxTxn, MaxId, BatchLimit, GapSetLimit, MaxFaults} \subseteq Nat
  /\ {OrderedIds, QuietSeed, KnownReplica} \subseteq BOOLEAN

Txn == 1..MaxTxn

Id == 1..MaxId

VARIABLES
  txn, about,    \* per transaction: its state, and the entity it writes (a set of at most one)
  row, owner,    \* per id: state of the row, and the transaction that took it
  own, peer,     \* cursors in bitdex_cursors, of this and another replica: sets of at most one
  pc,            \* the next statement of the poller
  cursor, posted, dead, gap, guard,    \* PollerState; gap and guard are sets of at most one
  rows, safe,    \* of the cycle: rows read, frontier; of the boot: the seed
  delivered,     \* ids that ever reached the engine
  latest,        \* per entity: the id of the operation the engine applied last
  faults

pg == <<txn, about, row, owner>>

memory == <<cursor, posted, dead, gap, guard>>

engine == <<delivered, latest>>

vars == <<pg, own, peer, pc, memory, rows, safe, engine, faults>>

Visible == {i \in Id : row[i] = "visible"}

Open == {t \in Txn : txn[t] = "open"}

-----------------------------------------------------------------------------
(* Postgres, as the poller uses it.                                        *)

(* pg_snapshot_xip(pg_current_snapshot()): xmax is one past the highest    *)
(* finished txid, and the list holds the running txids below xmax.         *)
Xips == {t \in Open : \E u \in Txn : txn[u] = "done" /\ t < u}

(* An update locks its row of the source table before the AFTER trigger    *)
(* inserts into BitdexOps, so two open transactions never have operations  *)
(* of one entity, and a transaction has a txid before it takes an id.      *)
Begin(t, e) ==
  /\ txn[t] = "new"
  /\ \A u \in Txn : u < t => txn[u] # "new"
  /\ \A u \in Open : e \notin about[u]
  /\ txn' = [txn EXCEPT ![t] = "open"]
  /\ about' = [about EXCEPT ![t] = {e}]
  /\ UNCHANGED <<row, owner, own, peer, pc, memory, rows, safe, engine, faults>>

Insert(t) ==
  /\ txn[t] = "open"
  /\ OrderedIds => \A i \in Id : owner[i] <= t
  /\ \E i \in Id :
       /\ row[i] = "free"
       /\ \A j \in 1..(i - 1) : row[j] # "free"
       /\ row' = [row EXCEPT ![i] = "pending"]
       /\ owner' = [owner EXCEPT ![i] = t]
  /\ UNCHANGED <<txn, about, own, peer, pc, memory, rows, safe, engine, faults>>

End(t, result) ==
  /\ txn[t] = "open"
  /\ QuietSeed => pc # "seed"
  /\ txn' = [txn EXCEPT ![t] = "done"]
  /\ row' = [i \in Id |-> IF row[i] = "pending" /\ owner[i] = t THEN result ELSE row[i]]
  /\ UNCHANGED <<about, owner, own, peer, pc, memory, rows, safe, engine, faults>>

(* The cleanup trigger of bitdex_cursors: of the rows below every cursor,  *)
(* those older than the retention floor, wherever that is.                 *)
CleanupBelowMax(consumed) ==
  \E floor \in 1..(MaxId + 1) :
    row' = [i \in Id |-> IF i \in Visible /\ i < floor /\ \E c \in consumed : i < c
                         THEN "deleted" ELSE row[i]]
Cleanup(consumed) ==
  \E floor \in 1..(MaxId + 1) :
    row' = [i \in Id |-> IF i \in Visible /\ i < floor /\ \A c \in consumed : i < c
                         THEN "deleted" ELSE row[i]]

(* Another replica, which runs the same poller.                            *)
PeerAdvance ==
  /\ \E c \in Id :
       /\ \A p \in peer : p < c
       /\ \A i \in 1..c : row[i] \notin {"free", "pending"}
       /\ peer' = {c}
       /\ Cleanup(own \cup {c})
  /\ UNCHANGED <<txn, about, owner, own, pc, memory, rows, safe, engine, faults>>

UpsertAddsRow(c) == own' = own \cup {c} /\ Cleanup(peer \cup {c})
UpsertCursor(c) == own' = {c} /\ Cleanup(peer \cup {c})

-----------------------------------------------------------------------------
(* The poller.                                                             *)

Fault == faults < MaxFaults /\ faults' = faults + 1

Fresh(c) ==
  /\ cursor' = c
  /\ posted' = {}
  /\ dead' = {}
  /\ gap' = {}
  /\ guard' = {}

MinId == IF Visible = {} THEN 1 ELSE Min(Visible)

(* run_ops_poller reads the durable cursor, 0 for none or on an error, and *)
(* init_state looks for the oldest row if it is 0.                         *)
ReadCursor ==
  /\ pc = "boot"
  /\ \E durable \in 0..MaxId :
       /\ \/ durable = (IF own = {} THEN 0 ELSE Max(own)) /\ UNCHANGED faults
          \/ durable = 0 /\ Fault
       /\ \/ /\ durable # 0 \/ MinId <= 1
             /\ Fresh(durable)
             /\ pc' = "tick"
             /\ UNCHANGED safe
          \/ /\ durable = 0 /\ MinId > 1
             /\ Fresh(0)
             /\ safe' = MinId - 1
             /\ pc' = "seed"
  /\ UNCHANGED <<pg, own, peer, rows, engine>>

(* The seed of the read anchor, with a guard if transactions are running.  *)
(* On an error of either statement the poller walks from 0; the upsert may *)
(* have taken effect all the same.                                         *)
Seed ==
  /\ pc = "seed"
  /\ pc' = "tick"
  /\ \/ /\ Xips = {}
        /\ cursor' = safe
        /\ UNCHANGED <<own, row, guard, faults>>
     \/ /\ Xips # {}
        /\ UpsertCursor(0)
        /\ cursor' = safe
        /\ guard' = {[seed |-> safe, xips |-> Xips]}
        /\ UNCHANGED faults
     \/ /\ Fault
        /\ (Xips # {} /\ UpsertCursor(0)) \/ UNCHANGED <<own, row>>
        /\ UNCHANGED <<cursor, guard>>
  /\ safe' = 0
  /\ UNCHANGED <<txn, about, owner, peer, posted, dead, gap, rows, engine>>

(* The start of poll_and_process: the boot guard, in two statements.       *)
CheckGuard ==
  /\ pc = "tick"
  /\ pc' = IF \E g \in guard : g.xips \cap Xips = {} THEN "release" ELSE "poll"
  /\ UNCHANGED <<pg, own, peer, memory, rows, safe, engine, faults>>

ReleaseGuard ==
  /\ pc = "release"
  /\ guard' = {}
  /\ IF \E g \in guard : MinId <= g.seed
     THEN cursor' = Min({cursor, MinId - 1}) /\ posted' = {}
     ELSE UNCHANGED <<cursor, posted>>
  /\ pc' = "poll"
  /\ UNCHANGED <<pg, own, peer, dead, gap, rows, safe, engine, faults>>

(* The rows behind the cursor, in the order of their ids.                  *)
PollOps ==
  /\ pc = "poll"
  /\ LET after == {i \in Visible : i > cursor}
     IN  rows' = {i \in after : Cardinality({j \in after : j < i}) < BatchLimit}
  /\ pc' = IF rows' = {} /\ gap = {} THEN "tick" ELSE "gap"
  /\ UNCHANGED <<pg, own, peer, memory, safe, engine, faults>>

(* gap_status: what is still invisible once every recorded transaction has *)
(* finished was rolled back.                                               *)
ResolveImpatient ==
  /\ pc = "gap"
  /\ pc' = "frontier"
  /\ dead' = dead \cup UNION {g.missing \ Visible : g \in gap}
  /\ gap' = {}
  /\ UNCHANGED <<pg, own, peer, cursor, posted, guard, rows, safe, engine, faults>>
ResolveHolds ==
  /\ pc = "gap"
  /\ pc' = "frontier"
  /\ gap' = {[g EXCEPT !.missing = @ \ Visible] : g \in {g \in gap : ~ g.missing \subseteq Visible}}
  /\ UNCHANGED <<pg, own, peer, cursor, posted, dead, guard, rows, safe, engine, faults>>
ResolveGap ==
  /\ pc = "gap"
  /\ pc' = "frontier"
  /\ \/ /\ gap = {}
        /\ UNCHANGED <<gap, dead>>
     \/ \E g \in gap :
          LET missing == g.missing \ Visible
              finished == g.xips \cap Xips = {}
          IN  /\ dead' = IF finished THEN dead \cup missing ELSE dead
              /\ gap' = IF finished \/ missing = {} THEN {} ELSE {[g EXCEPT !.missing = missing]}
  /\ UNCHANGED <<pg, own, peer, cursor, posted, guard, rows, safe, engine, faults>>

(* compute_frontier: the ids up to the last row that are neither read nor  *)
(* proven dead; a hole too large to enumerate ends the walk.               *)
Before(i) == Max({cursor} \cup {j \in rows : j < i})

Unexplained == {i \in Id : i > cursor /\ (\E j \in rows : i < j) /\ i \notin rows \cup dead}

HugeHoles == {i \in rows : i - (Before(i) + 1) > GapSetLimit + Cardinality(dead)}

Oversized == HugeHoles # {} \/ Cardinality(Unexplained) > GapSetLimit

LastRow == Max({cursor} \cup rows)
SafeId ==
  LET stops == {Before(i) : i \in HugeHoles} \cup {i - 1 : i \in Unexplained}
  IN  IF stops = {} THEN Max({cursor} \cup rows) ELSE Min(stops)

(* New holes are recorded with the transactions running now; when these    *)
(* cannot be read the holes wait for the next cycle.                       *)
WalkFrontier ==
  /\ pc = "frontier"
  /\ pc' = "post"
  /\ safe' = SafeId
  /\ LET known == UNION {g.missing : g \in gap}
         new == Unexplained \ known
     IN  \/ /\ new = {} \/ Oversized
            /\ UNCHANGED <<gap, faults>>
         \/ /\ new # {} /\ ~Oversized
            /\ gap' = {[missing |-> known \cup new, xips |-> Xips \cup UNION {g.xips : g \in gap}]}
            /\ UNCHANGED faults
         \/ /\ new # {} /\ ~Oversized
            /\ Fault
            /\ UNCHANGED gap
  /\ dead' = {i \in dead : i > cursor}
  /\ posted' = {i \in posted : i > cursor}
  /\ rows' = rows \ posted'
  /\ UNCHANGED <<pg, own, peer, cursor, guard, engine>>

(* The engine applies a batch; dedup_ops leaves the last operation of each *)
(* entity.                                                                 *)
AppliedFirst(ids) ==
  /\ delivered' = delivered \cup ids
  /\ latest' = [e \in Entity |->
       LET mine == {i \in ids : e \in about[owner[i]]}
       IN  IF mine = {} THEN latest[e] ELSE Min(mine)]
Applied(ids) ==
  /\ delivered' = delivered \cup ids
  /\ latest' = [e \in Entity |->
       LET mine == {i \in ids : e \in about[owner[i]]}
       IN  IF mine = {} THEN latest[e] ELSE Max(mine)]

(* The post of the rows not sent before; it may fail, or be applied and    *)
(* its answer be lost.  Nothing is marked as sent then.                    *)
Post ==
  /\ pc = "post"
  /\ \/ /\ Applied(rows)
        /\ posted' = posted \cup rows
        /\ pc' = "advance"
        /\ UNCHANGED <<safe, faults>>
     \/ /\ rows # {}
        /\ Applied(rows) \/ UNCHANGED engine
        /\ Fault
        /\ pc' = "tick"
        /\ safe' = 0
        /\ UNCHANGED posted
  /\ rows' = {}
  /\ UNCHANGED <<pg, own, peer, cursor, dead, gap, guard>>

(* advance_cursor_safe.  The statement may fail, or take effect and its    *)
(* answer be lost.                                                         *)
AdvanceUnguarded ==
  /\ pc = "advance"
  /\ pc' = "tick"
  /\ \/ /\ safe <= cursor
        /\ UNCHANGED <<cursor, own, row, faults>>
     \/ /\ safe > cursor
        /\ cursor' = safe
        /\ UpsertCursor(safe)
        /\ UNCHANGED faults
  /\ safe' = 0
  /\ UNCHANGED <<txn, about, owner, peer, posted, dead, gap, guard, rows, engine>>
AdvanceCursor ==
  /\ pc = "advance"
  /\ pc' = "tick"
  /\ \/ /\ safe <= cursor
        /\ UNCHANGED <<cursor, own, row, faults>>
     \/ /\ safe > cursor /\ guard # {}
        /\ cursor' = safe
        /\ UNCHANGED <<own, row, faults>>
     \/ /\ safe > cursor /\ guard = {}
        /\ cursor' = safe
        /\ UpsertCursor(safe)
        /\ UNCHANGED faults
     \/ /\ safe > cursor /\ guard = {}
        /\ UpsertCursor(safe) \/ UNCHANGED <<own, row>>
        /\ Fault
        /\ UNCHANGED cursor
  /\ safe' = 0
  /\ UNCHANGED <<txn, about, owner, peer, posted, dead, gap, guard, rows, engine>>

(* A statement of a cycle fails: the guard and the gap are held, a failed  *)
(* poll ends the cycle.                                                    *)
StatementFails ==
  /\ pc \in {"release", "poll", "gap"}
  /\ pc' = CASE pc = "release" -> "poll" [] pc = "poll" -> "tick" [] pc = "gap" -> "frontier"
  /\ Fault
  /\ UNCHANGED <<pg, own, peer, memory, rows, safe, engine>>

(* The sidecar stops at any point and starts again.                        *)
Restart ==
  /\ pc # "boot"
  /\ pc' = "boot"
  /\ Fault
  /\ Fresh(0)
  /\ rows' = {}
  /\ safe' = 0
  /\ UNCHANGED <<pg, own, peer, engine>>

Poller ==
  \/ ReadCursor \/ Seed
  \/ CheckGuard \/ ReleaseGuard
  \/ PollOps \/ ResolveGap \/ WalkFrontier
  \/ Post \/ AdvanceCursor

Writers ==
  \E t \in Txn :
    \/ \E e \in Entity : Begin(t, e)
    \/ Insert(t)
    \/ End(t, "visible")
    \/ End(t, "aborted")

Next == Poller \/ Writers \/ PeerAdvance \/ StatementFails \/ Restart

Init ==
  /\ txn = [t \in Txn |-> "new"]
  /\ about = [t \in Txn |-> {}]
  /\ row = [i \in Id |-> "free"]
  /\ owner = [i \in Id |-> 0]
  /\ own = IF KnownReplica THEN {0} ELSE {}
  /\ peer = {}
  /\ pc = "boot"
  /\ cursor = 0 /\ posted = {} /\ dead = {} /\ gap = {} /\ guard = {}
  /\ rows = {} /\ safe = 0
  /\ delivered = {}
  /\ latest = [e \in Entity |-> 0]
  /\ faults = 0

Spec == Init /\ [][Next]_vars

(* The ticker keeps the loop going, and no transaction stays open for ever *)
(* (an operator terminates one that does, says the poller's alert).        *)
FairSpec ==
  /\ Spec
  /\ WF_vars(Poller)
  /\ \A t \in Txn : WF_vars(End(t, "visible") \/ End(t, "aborted"))

-----------------------------------------------------------------------------
Snapshot == [missing : SUBSET Id, xips : SUBSET Txn]

Guard == [seed : 0..MaxId, xips : SUBSET Txn]

(* The state is well formed: at most one cursor row, gap and guard.        *)
TypeOK ==
  /\ txn \in [Txn -> {"new", "open", "done"}]
  /\ about \in [Txn -> SUBSET Entity]
  /\ row \in [Id -> {"free", "pending", "visible", "aborted", "deleted"}]
  /\ owner \in [Id -> 0..MaxTxn]
  /\ own \subseteq 0..MaxId /\ Cardinality(own) <= 1
  /\ peer \subseteq Id /\ Cardinality(peer) <= 1
  /\ pc \in {"boot", "seed", "tick", "release", "poll", "gap", "frontier", "post", "advance"}
  /\ cursor \in 0..MaxId
  /\ posted \subseteq Id /\ dead \subseteq Id
  /\ gap \subseteq Snapshot /\ Cardinality(gap) <= 1
  /\ guard \subseteq Guard /\ Cardinality(guard) <= 1
  /\ rows \subseteq Id
  /\ safe \in 0..MaxId
  /\ delivered \subseteq Id
  /\ latest \in [Entity -> 0..MaxId]
  /\ faults \in 0..MaxFaults

(* An id is declared dead only if its insert was rolled back, or if its    *)
(* row is gone: no transaction that gap_status takes for finished is still *)
(* to commit.                                                              *)
DeadIsDead == \A i \in dead : row[i] \in {"aborted", "deleted"}

(* The cursor passes no row that has not reached the engine and no id that *)
(* a transaction may still commit, except below the seed of a boot guard,  *)
(* which the release sweeps (compute_frontier, init_state).                *)
NoRowPassed ==
  \A i \in Id :
    (i <= cursor /\ \A g \in guard : i > g.seed)
      => row[i] # "pending" /\ (row[i] = "visible" => i \in delivered)

(* The same of the cursor in Postgres, from which a restart goes on and    *)
(* which lets cleanup delete (advance_cursor_safe, the pin at 0).          *)
DurablePassesNothing ==
  \A c \in own : \A i \in Id :
    i <= c => row[i] # "pending" /\ (row[i] = "visible" => i \in delivered)

(* Cleanup deletes no row that a replica with a cursor still needs.        *)
CleanupKeepsUnsent ==
  [][own' # {} => \A i \in Id :
       row[i] = "visible" /\ row'[i] = "deleted" => i \in delivered]_vars

(* Rows are posted out of order around a gap, and again after a restart or *)
(* a rewind.  Once the newest operation of an entity is sent and not to be *)
(* sent again, it is the one the engine applied last.  The replica has a   *)
(* row in bitdex_cursors: cleanup does not wait for one that has none.     *)
Newest(e) == Max({0} \cup {i \in Id : row[i] \in {"visible", "deleted"} /\ e \in about[owner[i]]})

NewestWins ==
  \A e \in Entity :
    (Newest(e) \in delivered /\ (Newest(e) <= cursor \/ Newest(e) \in posted))
      => latest[e] = Newest(e)

(* The cursor passes every committed row in the end, again after each      *)
(* restart or failure: gaps resolve, also those of rolled back             *)
(* transactions, and failed statements are retried.                        *)
CursorPassesRows == []<>(\A i \in Id : row[i] = "visible" => cursor >= i)
=============================================================================
