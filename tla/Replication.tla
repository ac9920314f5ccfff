---------------------------- MODULE Replication ----------------------------
(***************************************************************************)
(* A cache that syncs from a source application and caches that are kept   *)
(* from its journal: what a replica believes of a record, and when it was  *)
(* last seen, is what somebody saw.                                        *)
(* The transport is modelled in Changefeed: here a replica imports the     *)
(* Collector's journal in order, in batches of any size.                   *)
(***************************************************************************)
EXTENDS SyncRun, Replica

CONSTANT MaxLocal   \* bound on local operations

ASSUME ReplicationAssumption == MaxLocal \in Nat

VARIABLES
  applied, \* applied[c] : events of the Collector's journal that c has imported
  locals,  \* local operations so far
  touched, \* history: <<cache, record>> that was written by other than sync and import
  orphaned \* history: <<cache, record>> a conflict of which was resolved with no head stored

vars == <<syncVars, applied, locals, touched, orphaned>>
localVars == <<source, runs, begun, checkpoint, applied>>

Replicas == Caches \ {Collector}
Produced == db[Collector].journal

\* import_archive of the batch that ends at `through`.
Import(c, through) ==
  LET batch == SubSeq(Produced, applied[c] + 1, through) IN
  /\ through \in (applied[c] + 1)..Len(Produced)
  /\ ApplyEvents(db[c], batch) # None
  /\ db' = [db EXCEPT ![c] = ApplyEvents(@, batch)]
  /\ applied' = [applied EXCEPT ![c] = through]
  /\ UNCHANGED <<clock, source, runs, begun, checkpoint, witnessed, locals, touched, orphaned>>

\* now_ms: the clock may have moved on since the last event.
NowMs == clock' \in {clock, clock + 1} /\ clock' <= MaxClock

Local(c, r) ==
  /\ locals < MaxLocal /\ locals' = locals + 1
  /\ touched' = touched \cup {<<c, r>>}
  /\ UNCHANGED localVars

\* A replica writes a record itself: its own sync, or a curated link or alias.
LocalWrite(c, r, v) ==
  /\ Local(c, r) /\ NowMs
  /\ db' = [db EXCEPT ![c] = Upsert(@, r, v, clock', "sync", {})]
  /\ witnessed' = witnessed \cup {<<r, v, clock'>>}
  /\ UNCHANGED orphaned

\* `conflicts resolve --keep v`.
ResolveConflict(c, k, v) ==
  /\ Local(c, k.urn) /\ NowMs
  /\ CanResolve(db[c], k, v)
  /\ db' = [db EXCEPT ![c] = Resolve(@, k, v, clock')]
  /\ witnessed' = witnessed \cup {<<k.urn, v, clock'>>}
  /\ orphaned' = IF db[c].head[k.urn] = None THEN orphaned \cup {<<c, k.urn>>} ELSE orphaned

\* `purge`: a record that is not there is an error.
PurgeEntity(c, r) ==
  /\ Local(c, r)
  /\ db[c].head[r] # None
  /\ db' = [db EXCEPT ![c] = Purge(@, r)]
  /\ UNCHANGED <<clock, witnessed, orphaned>>

Init == /\ SyncInit
        /\ applied = [c \in Replicas |-> 0]
        /\ locals = 0 /\ touched = {} /\ orphaned = {}

Next ==
  \/ SyncNext /\ UNCHANGED <<applied, locals, touched, orphaned>>
  \/ \E c \in Replicas :
       \/ \E through \in 1..Len(Produced) : Import(c, through)
       \/ \E r \in Records, v \in Contents : LocalWrite(c, r, v)
       \/ \E k \in db[c].conflicts, v \in Contents : ResolveConflict(c, k, v)
  \/ \E c \in Caches, r \in Records : PurgeEntity(c, r)

Spec == Init /\ [][Next]_vars

\* Nothing in the code sees to it that processes sync one after the other: what needs it
\* says so.
OneSyncer == \A p, q \in Syncers : p = q

-----------------------------------------------------------------------------

TypeOK ==
  /\ SyncTypeOK
  /\ applied \in [Replicas -> Nat]
  /\ locals \in 0..MaxLocal
  /\ touched \subseteq Caches \X Records
  /\ orphaned \subseteq touched

\* Nobody's clock decides what was seen: the time a cache gives for a head or an
\* observation is a time at which that content, or that absence, was seen or chosen.
\* The hazard is a sighting of one content that stamps another: a range that an import
\* translates to a record edited since, or an older event that replaces a newer head.
FreshnessWitnessed ==
  \A c \in Caches, r \in Records :
    LET d == db[c]
        o == d.observations[r]
    IN /\ d.head[r] # None => <<r, d.head[r].digest, EffectiveTime(d, r)>> \in witnessed
       /\ o # None =>
            <<r, IF o.present = "present" THEN o.fingerprint ELSE None, LastSeen(o)>> \in witnessed

\* docs/decisions.md: the head is the most recently observed content. No stored revision
\* is later than the head, unless a content conflict was reported for the record. One that
\* is resolved while no head is stored moves the revision's time and has no head to move: a
\* head that a later import writes can be older than it.
Disputed(c, r) == \E k \in db[c].conflicts : k.urn = r
HeadIsMostRecent ==
  \A c \in Caches, r \in Records, v \in Contents :
    db[c].head[r] # None /\ db[c].revisions[r][v] # None
      /\ ~Disputed(c, r) /\ <<c, r>> \notin orphaned
      => db[c].revisions[r][v].at <= EffectiveTime(db[c], r)

\* The translation index says of every binding that is not marked dirty what a lookup
\* would say: the triggers miss no write that makes it stale.
TranslationCoherent ==
  \A c \in Replicas :
    LET d == db[c]
    IN /\ \A r \in Records \ d.dirty : r \in d.eligible <=> HeadMatches(d, r)
       /\ \A i \in DOMAIN d.evidence \ d.dirtyIds : i \in d.eligibleIds <=> EvidenceMatches(d, i)

\* The next batch can always be imported: no refresh names a key that no earlier event
\* bound, whatever was purged on either side. One that did would block the stream for good.
ReplayNeverBlocked ==
  \A c \in Replicas : \A through \in (applied[c] + 1)..Len(Produced) :
    ApplyEvents(db[c], SubSeq(Produced, applied[c] + 1, through)) # None

\* A replica that has caught up holds what the Collector holds, sighting times included,
\* for every record that neither of them wrote or purged by hand: the journal carries
\* every change, and replay in any batches loses none.
Same(c, r) ==
  LET d == db[c]
      p == db[Collector]
  IN /\ d.revisions[r] = p.revisions[r]
     /\ d.head[r] = None <=> p.head[r] = None
     /\ d.head[r] # None => /\ d.head[r].digest = p.head[r].digest
                            /\ EffectiveTime(d, r) = EffectiveTime(p, r)
     /\ d.observations[r] = None <=> p.observations[r] = None
     /\ d.observations[r] # None =>
          /\ d.observations[r].fingerprint = p.observations[r].fingerprint
          /\ d.observations[r].present = p.observations[r].present
          /\ LastSeen(d.observations[r]) = LastSeen(p.observations[r])
ReplicaConverges ==
  \A c \in Replicas, r \in Records :
    applied[c] = Len(Produced) /\ <<c, r>> \notin touched /\ <<Collector, r>> \notin touched
      => Same(c, r)

\* An import never replaces a head that the producer did not have: "unrelated local edits
\* remain conflicts" (incremental.py). What it replaces is in the journal it replayed.
LocalEditsSurvive ==
  [][\A c \in Replicas, r \in Records :
       /\ applied'[c] # applied[c]
       /\ db[c].head[r] # None /\ db'[c].head[r].digest # db[c].head[r].digest
       => \E i \in 1..applied'[c] : /\ Produced[i].op = "record" /\ Produced[i].urn = r
                                    /\ Produced[i].digest = db[c].head[r].digest]_vars

\* A checkpoint commits only when the observations say what the run's snapshot held:
\* rows in it are present with its content, all others are absent, or purged since.
SnapshotHeld(p) ==
  \A r \in Records :
    LET o == db[Collector].observations[r]
        v == runs[p].snapshot[r]
    IN IF o = None THEN v = None \/ <<Collector, r>> \in touched
       ELSE IF v = None THEN o.present = "absent_from_source"
       ELSE o.present = "present" /\ o.fingerprint = v
CheckpointMatchesSnapshot ==
  [][\A p \in Syncers : checkpoint' # checkpoint /\ runs'[p] # runs[p] => SnapshotHeld(p)]_vars

\* docs/operations.md: reconciling marks the rows "no longer in the source" absent.
AbsentMeansGone ==
  \A p \in Syncers, r \in Records :
    runs[p].pc = "reconciled" /\ db[Collector].observations[r] # None
      /\ db[Collector].observations[r].present = "absent_from_source"
      => runs[p].snapshot[r] = None

\* docs/operations.md: rebuild-index reconstructs the search index from the records. What a
\* head's own write puts in the index is what a rebuild puts there: a rebuild goes by the
\* `tombstoned` column, a write by the tombstone in the record.
IndexRebuilds ==
  \A c \in Caches, r \in Records :
    db[c].head[r] # None => (db[c].head[r].tombstoned <=> db[c].head[r].digest \in Tombstones)
=============================================================================
