--------------------------- MODULE NativeCapture ---------------------------
(***************************************************************************)
(* The native collector (native_collector.py, native_whatsapp.py) and the  *)
(* prepared sync (prepared_sync.py, with sync.py as it runs for them): a   *)
(* point of the source is kept in the mirror, a database of its own; its   *)
(* rows are extracted into the cache in many transactions; one of them     *)
(* completes the capture; the mirror is told last.                         *)
(*                                                                         *)
(* One collector at a time runs under the capture lock; other processes    *)
(* write the cache between its transactions. It may die before any step,   *)
(* and what is not in the mirror or the cache is then lost.                *)
(***************************************************************************)
EXTENDS CaptureCoverage

CONSTANTS
  Faulty,      \* rows the adapter can never extract
  MaxPoints,   \* bound: points, not counting their recoveries
  MaxEvents    \* bound: what happens around the collector: edits of the source, deaths,
               \* errors, other writers, upgrades, restored caches

ASSUME CaptureAssumption ==
  Faulty \subseteq Rows /\ MaxPoints \in Nat /\ MaxEvents \in Nat

VARIABLES
  pc,       \* where the collector is
  todo,     \* rows it has still to extract
  errors,   \* whether stats.errors holds anything
  points, events

process == <<pc, todo, errors>>
counts == <<points, events>>
vars == <<mirrorVars, cache, process, counts>>

Goto(place) == pc' = place /\ UNCHANGED <<todo, errors>>
Stop == pc' = "idle" /\ todo' = {} /\ errors' = FALSE
Disturb == events < MaxEvents /\ events' = events + 1 /\ UNCHANGED points

(* collect_native **********************************************************)
\* A pending point is handled before the source is opened.
TakePending ==
  /\ pc = "idle" /\ mirror.status = "prepared"
  /\ Goto("offered")
  /\ UNCHANGED <<mirrorVars, cache, counts>>

\* Without one, a new point is made: by prepare or reconcile if the last point allows it,
\* from the whole source otherwise (also when its schema changed).
NewPoint ==
  /\ pc = "idle" /\ points < MaxPoints /\ points' = points + 1
  /\ Baseline \/ \E keyed \in BOOLEAN : Delta(keyed)
  /\ Goto("offered")
  /\ UNCHANGED <<cache, events>>

(* _run_prepared_sync ******************************************************)
\* receipt(): the capture is complete already; its receipt is made again if it was lost.
FindReceipt ==
  /\ pc = "offered" /\ Complete(cache, mirror.token)
  /\ cache' = IF mirror.token \in cache.receipts THEN cache
              ELSE CommitReceipt(cache, mirror.token)
  /\ Goto("captured")
  /\ UNCHANGED <<mirrorVars, counts>>

Recover ==
  /\ pc = "offered" /\ ~Complete(cache, mirror.token)
  /\ RecoverPendingPolicy
  /\ UNCHANGED <<cache, process, counts>>

\* validate, retire, check_parent.
ParentComplete == mirror.parent = None \/ Complete(cache, mirror.parent)

Validate ==
  /\ pc = "offered" /\ ~Complete(cache, mirror.token)
  /\ mirror.policy = policy
  /\ cache' = Retire(cache)
  /\ ParentComplete
  /\ Goto("valid")
  /\ UNCHANGED <<mirrorVars, counts>>

\* _messages_coverage, _whatsapp_coverage. Routing may refuse a selective capture at any
\* time, so a full one is always possible. An attempt of another point would refuse both.
Owner == cache.attempt.token
\* Mutant: an attempt is resumed whatever its epoch.
MutResumed == Owner = mirror.token

Resumed == Owner = mirror.token /\ cache.attempt.current

Cover(c, rows) ==
  /\ cache' = c
  /\ todo' = rows
  /\ pc' = "covered"
  /\ UNCHANGED <<errors, mirrorVars, counts>>

CoverFull ==
  /\ pc = "valid"
  /\ Owner \in {None, mirror.token}
  /\ \/ Cover(BeginFull(cache), Present(mirror.rows))
     \/ Resumed /\ cache.attempt.full /\ Cover(cache, Present(mirror.rows))

CoverSelective ==
  /\ pc = "valid" /\ ~mirror.baseline
  /\ \/ Owner = None /\ CanSelect(cache)
        /\ Cover(BeginSelective(cache), Selected(FALSE))
     \/ Resumed /\ ~cache.attempt.full /\ Cover(cache, Selected(TRUE))

(* run_sync ****************************************************************)
Start ==
  /\ pc = "covered"
  /\ cache' = SaveRun(cache, mirror.token, "running")
  /\ Goto("extracting")
  /\ UNCHANGED <<mirrorVars, counts>>

\* Adapters emit in a fixed order, headers first.
Upcoming == CHOOSE r \in todo : todo \cap Headers # {} => r \in Headers

\* flush: one transaction, refused if another writer changed the projection.
Flush(r, c) ==
  /\ pc = "extracting" /\ r \in todo /\ r = Upcoming
  /\ cache.attempt.token = mirror.token /\ cache.attempt.current
  /\ cache' = c
  /\ todo' = todo \ {r}
  /\ UNCHANGED <<pc, mirrorVars>>

Extract(r) ==
  /\ Reusable(cache, r) \/ r \notin Faulty
  /\ Flush(r, ExtractRow(cache, r))
  /\ UNCHANGED <<errors, counts>>

ExtractFails(r) ==
  /\ ~Reusable(cache, r)
  /\ Flush(r, FailRow(cache, r))
  /\ errors' = TRUE
  /\ IF r \in Faulty THEN UNCHANGED counts ELSE Disturb

\* A flush is refused. Any other exception there leaves what a Crash leaves, and a failed run.
Abort ==
  /\ pc = "extracting" /\ todo # {} /\ ~(cache.attempt.token = mirror.token /\ cache.attempt.current)
  /\ cache' = SaveRun(cache, mirror.token, "failed")
  /\ Stop
  /\ UNCHANGED <<mirrorVars, counts>>

\* What the transaction of save_run("complete") checks: validate, check_parent, finish.
Completable ==
  /\ cache.attempt.token = mirror.token /\ cache.attempt.current
  /\ mirror.status = "prepared" /\ mirror.policy = policy /\ ParentComplete

\* save_run("complete"): validation, coverage, run, checkpoint and receipt together.
CompleteRun ==
  /\ pc = "extracting" /\ todo = {} /\ ~errors /\ Completable
  /\ cache' = CommitReceipt(SaveRun(Finish(cache), mirror.token, "complete"), mirror.token)
  /\ Goto("captured")
  /\ UNCHANGED <<mirrorVars, counts>>

\* It is refused and rolled back. No handler of run_sync is around it: the run stays "running".
RefuseCompletion ==
  /\ pc = "extracting" /\ todo = {} /\ ~errors /\ ~Completable
  /\ Stop
  /\ UNCHANGED <<mirrorVars, cache, counts>>

\* Mutant: a partial run is acknowledged.
MutPartialRun ==
  /\ pc = "extracting" /\ todo = {} /\ errors
  /\ cache' = SaveRun(cache, mirror.token, "partial")
  /\ Goto("captured")
  /\ UNCHANGED <<mirrorVars, counts>>

\* save_run("partial"): the point stays pending.
PartialRun ==
  /\ pc = "extracting" /\ todo = {} /\ errors
  /\ cache' = SaveRun(cache, mirror.token, "partial")
  /\ Stop
  /\ UNCHANGED <<mirrorVars, counts>>

Acknowledge ==
  /\ pc = "captured"
  /\ MarkAcknowledged(mirror.token)
  /\ Stop
  /\ UNCHANGED <<cache, counts>>

(* Environment *************************************************************)
\* Only NewPoint reads the source, so an edit at any other moment commutes with the
\* collector's steps and is taken between its runs.
Edit ==
  /\ pc = "idle" /\ Disturb
  /\ \E r \in Rows, v \in Values \cup {Absent} : SourceEdit(r, v)
  /\ UNCHANGED <<cache, process>>

\* A new version takes effect in a new process.
Install ==
  /\ pc = "idle" /\ Disturb
  /\ \E p \in Policies : Upgrade(p)
  /\ UNCHANGED <<cache, process>>

Crash == pc # "idle" /\ Disturb /\ Stop /\ UNCHANGED <<mirrorVars, cache>>

\* Another writer of the cache: a purge, an import, or an ordinary sync of the source. The
\* other steps neither read nor write an observation, so a write among them commutes with
\* them up to here.
OtherWriter ==
  /\ pc \in {"valid", "extracting"} /\ Disturb
  /\ \E r \in Rows : \E o \in {NoRow} \cup {[policy |-> policy, value |-> v, present |-> TRUE,
                                         seen |-> cache.obs[r].seen] : v \in Values} :
       Semantic(cache, r, o) /\ cache' = Observe(cache, r, o)
  /\ UNCHANGED <<mirrorVars, process>>

\* The cache is rebuilt from its archives: records, observations and runs come back, the
\* local projections (memo, coverage, receipts, checkpoint) do not.
RestoreCache ==
  /\ pc = "idle" /\ Disturb
  /\ cache' = [EmptyCache EXCEPT !.obs = cache.obs, !.run = cache.run]
  /\ UNCHANGED <<mirrorVars, process>>

(* Behaviour ***************************************************************)
Init ==
  /\ MirrorInit
  /\ cache = EmptyCache
  /\ pc = "idle" /\ todo = {} /\ errors = FALSE
  /\ points = 0 /\ events = 0

Collect ==
  \/ TakePending \/ FindReceipt \/ Recover \/ Validate
  \/ CoverFull \/ CoverSelective
  \/ Start \/ (\E r \in Rows : Extract(r) \/ ExtractFails(r))
  \/ Abort \/ CompleteRun \/ RefuseCompletion \/ PartialRun \/ Acknowledge

Next == Collect \/ NewPoint \/ Edit \/ Install \/ Crash \/ OtherWriter \/ RestoreCache

Spec == Init /\ [][Next]_vars

\* A watch or a scheduler runs the collector again whenever it stopped, and a collector
\* that runs takes its next step. What disturbs it is not fair and bounded.
FairSpec == Spec /\ WF_vars(Collect)

(* Properties **************************************************************)
Statuses == {"empty", "prepared", "acknowledged"}
SomeRow == [policy : Policies \cup {None}, value : Values \cup {Absent}, present : BOOLEAN,
            seen : Tokens \cup {None}]

TypeOK ==
  /\ source \in Contents /\ policy \in Policies
  /\ mirror.status \in Statuses /\ mirror.rows \in Contents
  /\ {mirror.token, mirror.parent} \subseteq Tokens \cup {None}
  /\ mirror.old \subseteq mirror.changed /\ mirror.changed \subseteq Rows
  /\ \A r \in Rows : cache.obs[r] \in SomeRow /\ (cache.obs[r].present => cache.obs[r].value # Absent)
  /\ cache.receipts \subseteq DOMAIN cache.run /\ DOMAIN cache.run \subseteq Tokens
  /\ todo \subseteq Present(mirror.rows) /\ errors \in BOOLEAN

\* While no other writer has interfered, the coverage point says exactly what the cache
\* holds: the rows of its cut, with their content, under its policy, sighted at it or
\* later, and no other row as present (capture_coverage.py, finish).
PointExact ==
  cache.point.current =>
    LET t == cache.point.token IN
    /\ cache.point.rows = Present(cuts[t].rows)
    /\ PresentRows(cache) = cache.point.rows
    /\ \A r \in cache.point.rows :
         /\ cache.obs[r].value = cuts[t].rows[r] /\ cache.obs[r].policy = cuts[t].policy
         /\ cache.obs[r].seen >= t

\* A memo that is still valid describes the observation the cache holds: what another
\* writer touched, or a purge removed, is never sighted from memory (extraction.py).
MemoSound ==
  \A r \in Rows : cache.unit[r].valid =>
    /\ cache.obs[r].present
    /\ cache.obs[r].policy = cache.unit[r].policy /\ cache.obs[r].value = cache.unit[r].value

\* The mirror lets a point go only when the cache has captured it whole, and then the
\* receipt, the run and the checkpoint say so; a point's parent was captured before it
\* (prepared_sync.py, receipt and check_parent).
NothingLost ==
  /\ mirror.status = "acknowledged" => Complete(cache, mirror.token)
  /\ mirror.parent # None => Complete(cache, mirror.parent)
  /\ \A t \in cache.receipts : Complete(cache, t) /\ t <= cache.checkpoint

\* A point that was recovered under a new policy is never completed under its old one,
\* and no attempt of another point is left to refuse the one being extracted: an attempt
\* is finished, resumed or retired (_retire_recovered_attempts, capture_coverage.py).
SupersededStaysRetired ==
  /\ \A t \in mirror.ancestors : ~Complete(cache, t)
  /\ pc \in {"valid", "covered", "extracting"} => Owner \in {None, mirror.token}

\* Nothing has happened to the cache since a selective capture of it began: it will end
\* with exactly the mirror's rows (unit_coverage.py, retained and reconcile).
SelectionComplete ==
  LET a == cache.attempt IN
  a.token = mirror.token /\ a.current /\ pc = "extracting" =>
    /\ a.retained \cup a.staged \cup todo = Present(mirror.rows) \/ errors
    /\ \A r \in a.retained \cup a.staged :
         cache.obs[r].value = mirror.rows[r] /\ cache.obs[r].policy = mirror.policy

(* The abstract specification **********************************************)
Done == {t \in Tokens : Complete(cache, t)}
NoCut == <<>>
OfferedCut == IF mirror.status = "prepared" /\ ~Complete(cache, mirror.token)
              THEN mirror.rows ELSE NoCut
CapturedCut == IF Done = {} THEN NoCut
               ELSE cuts[CHOOSE t \in Done : \A u \in Done : u <= t].rows

H == INSTANCE Handoff WITH Cuts <- Contents, NoCut <- NoCut,
                           offered <- OfferedCut, captured <- CapturedCut

\* The collector captures one cut after another, each exactly as it was offered, over
\* deaths, lost acknowledgements, policy recoveries and restored caches.
ImplementsHandoff == H!Spec

(* Liveness ****************************************************************)
\* A prepared point is acknowledged in the end: the collector can always get past it to
\* what the source says now (native_collector.py, collect_native).
EveryPointAcknowledged == (mirror.status = "prepared") ~> (mirror.status = "acknowledged")
=============================================================================
