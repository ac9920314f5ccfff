------------------------------ MODULE SyncRun ------------------------------
(***************************************************************************)
(* run_sync of src/chatstore/sync.py: a run notes its start, takes a       *)
(* snapshot of the source, captures it in transactions, marks what it did  *)
(* not see as absent, and commits its checkpoint with the final run        *)
(* record.  It can die, fail or end partial at any point; nothing keeps    *)
(* two processes from syncing into one cache.                              *)
(* A batch is one record, so every place a batch can end is covered; the   *)
(* run's own record, counters and extraction are left out.                 *)
(***************************************************************************)
EXTENDS CacheStore

CONSTANTS Caches,    \* cache databases
          Collector, \* the cache that syncs from the source
          Syncers,   \* processes that may run a sync
          Faulty,    \* records whose row may fail to extract
          MaxClock, MaxRuns

ASSUME SyncAssumption ==
  Collector \in Caches /\ Faulty \subseteq Records /\ MaxClock \in Nat /\ MaxRuns \in Nat

VARIABLES
  db,         \* db[c] : the database of cache c
  clock,      \* now_ms
  source,     \* source[r] : what the source application holds
  runs,       \* runs[p] : the run of process p
  begun,      \* runs begun so far, to bound the model
  checkpoint, \* checkpoints: the start of the last complete run, 0 before one
  witnessed   \* history: <<record, content or None, time>> that a run saw or somebody chose

syncVars == <<db, clock, source, runs, begun, checkpoint, witnessed>>

Run == [pc : {"idle", "started", "extracting", "reconciled"}, at : Nat,
        snapshot : [Records -> Contents \cup {None}], todo : SUBSET Records,
        failed : SUBSET Records]  \* rows with an entry in stats.errors

Idle == [pc |-> "idle", at |-> 0, snapshot |-> [r \in Records |-> None], todo |-> {},
         failed |-> {}]

SourceEdit(r, v) ==
  /\ v # source[r]
  /\ source' = [source EXCEPT ![r] = v]
  /\ UNCHANGED <<db, clock, runs, begun, checkpoint, witnessed>>

\* started = now_ms(), and save_run("running"). No two runs start in one millisecond.
Begin(p) ==
  /\ runs[p].pc = "idle" /\ begun < MaxRuns /\ clock < MaxClock
  /\ clock' = clock + 1 /\ begun' = begun + 1
  /\ runs' = [runs EXCEPT ![p] = [Idle EXCEPT !.pc = "started", !.at = clock']]
  /\ UNCHANGED <<db, source, checkpoint, witnessed>>

\* adapter.snapshot: one consistent image of the source, taken after the start; the
\* extraction emits its rows, but those it records an error for.
TakeSnapshot(p, failed) ==
  LET held == {r \in Records : source[r] # None} IN
  /\ runs[p].pc = "started" /\ failed \subseteq held
  /\ runs' = [runs EXCEPT ![p] = [@ EXCEPT !.pc = "extracting", !.snapshot = source,
                                           !.todo = held \ failed, !.failed = failed]]
  /\ UNCHANGED <<db, clock, source, begun, checkpoint, witnessed>>

\* capture: upsert_many and observe_many in one transaction.
Captured(d, r, v, at) == Observe(Upsert(d, r, v, at, "sync", {}), r, v, at)

Capture(p, r) ==
  LET v == runs[p].snapshot[r] IN
  /\ runs[p].pc = "extracting" /\ r \in runs[p].todo
  /\ db' = [db EXCEPT ![Collector] = Captured(@, r, v, runs[p].at)]
  /\ runs' = [runs EXCEPT ![p].todo = @ \ {r}]
  /\ witnessed' = witnessed \cup {<<r, v, runs[p].at>>}
  /\ UNCHANGED <<clock, source, begun, checkpoint>>

\* mark_absent for the tables that were read to their end, with or without errors.
Reconcile(p) ==
  /\ runs[p].pc = "extracting" /\ runs[p].todo = {}
  /\ db' = [db EXCEPT ![Collector] = MarkAbsent(@, runs[p].at)]
  /\ runs' = [runs EXCEPT ![p].pc = "reconciled"]
  /\ witnessed' = witnessed \cup {<<r, None, runs[p].at>> : r \in Unseen(db[Collector], runs[p].at)}
  /\ UNCHANGED <<clock, source, begun, checkpoint>>

\* save_run("complete"): the adapter checkpoint commits with the run.
Complete(p) ==
  /\ runs[p].pc = "reconciled" /\ runs[p].failed = {}
  /\ checkpoint' = runs[p].at
  /\ runs' = [runs EXCEPT ![p] = Idle]
  /\ UNCHANGED <<db, clock, source, begun, witnessed>>

\* A failed or partial run, an exception, or the death of the process: what was
\* committed stays, the checkpoint does not move.
Abandon(p) ==
  /\ runs[p].pc # "idle"
  /\ runs' = [runs EXCEPT ![p] = Idle]
  /\ UNCHANGED <<db, clock, source, begun, checkpoint, witnessed>>

SyncInit ==
  /\ db = [c \in Caches |-> EmptyDatabase]
  /\ clock = 1
  /\ source \in [Records -> Contents \cup {None}]
  /\ runs = [p \in Syncers |-> Idle]
  /\ begun = 0 /\ checkpoint = 0 /\ witnessed = {}

SyncStep(p) ==
  \/ Begin(p)
  \/ \E failed \in SUBSET Faulty : TakeSnapshot(p, failed)
  \/ \E r \in Records : Capture(p, r)
  \/ Reconcile(p)
  \/ Complete(p)
  \/ Abandon(p)

SyncNext ==
  \/ \E p \in Syncers : SyncStep(p)
  \/ \E r \in Records, v \in Contents \cup {None} : SourceEdit(r, v)

SyncTypeOK ==
  /\ DOMAIN db = Caches
  /\ \A c \in Caches : IsDatabase(db[c])
  /\ clock \in Nat /\ begun \in Nat /\ checkpoint \in Nat
  /\ source \in [Records -> Contents \cup {None}]
  /\ runs \in [Syncers -> Run]
  /\ witnessed \subseteq Records \X (Contents \cup {None}) \X Nat
=============================================================================
