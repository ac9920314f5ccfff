----------------------------- MODULE CacheStore -----------------------------
(***************************************************************************)
(* The canonical cache: src/chatstore/cache/store.py, with the triggers    *)
(* that journal its changes (cache/changefeed.py) and mark imported        *)
(* bindings for revalidation (cache/import_ranges.py).                     *)
(*                                                                         *)
(* A database is a value d, and every operation of the code is an operator *)
(* from a database to a database: a transaction is their composition.      *)
(* Abstractions: the content of a record is the atom its revision digest   *)
(* identifies; a record is seen in one native table; entity ids are        *)
(* written as the URNs they stand for, because the code never reuses one;  *)
(* sighting ranges are sets of ids (the interval algorithms are elsewhere).*)
(***************************************************************************)
EXTENDS Integers, FiniteSets, SequencesExt

CONSTANTS Records,      \* URNs
          Contents,     \* revision digests
          Tombstones,   \* the contents that carry a tombstone
          None

ASSUME StoreAssumption ==
  /\ Tombstones \subseteq Contents
  /\ None \notin Contents
  /\ IsFiniteSet(Records)

Later(a, b) == IF a >= b THEN a ELSE b

(* Tables ******************************************************************)
\* `body` is the observation time inside the stored JSON, which a later move of the
\* row to another time leaves as it was.
HeadRow  == [digest : Contents, at : Nat, body : Nat, tombstoned : BOOLEAN]
Revision == [at : Nat, supersedes : Contents \cup {None}, body : Nat]
Conflict == [urn : Records, current : Contents, incoming : Contents]
Presence == {"present", "absent_from_source"}
\* `at` is the column observed_at, `seen` the latest sighting in freshness_ranges.
Observation == [id : Nat, fingerprint : Contents, at : Nat, seen : Nat, present : Presence]

Event ==
       [op : {"record"}, urn : Records, digest : Contents, at : Nat,
        previous : Contents \cup {None}]
  \cup [op : {"revision"}, urn : Records, digest : Contents, at : Nat,
        supersedes : Contents \cup {None}, body : Nat]
  \cup [op : {"record_refresh"}, urn : Records, at : Nat]
  \cup [op : {"observation"}, urn : Records, id : Nat, fingerprint : Contents,
        present : Presence, at : Nat]
  \cup [op : {"observation_refresh"}, id : Nat, at : Nat]

\* What a receiver knows of a producer's observation id (observation_ids).
Evidence == [local : Nat, urn : Records, fingerprint : Contents, present : Presence]

Database ==
  [head         : [Records -> HeadRow \cup {None}],                \* records
   revisions    : [Records -> [Contents -> Revision \cup {None}]],
   conflicts    : SUBSET Conflict,                                 \* unresolved ones
   sighted      : [Records -> Nat],                                \* freshness_ranges, kind record
   observations : [Records -> Observation \cup {None}],
   lastId       : Nat,                                             \* AUTOINCREMENT
   journal      : Seq(Event),                                      \* changes
   bound        : [Records -> Contents \cup {None}],               \* entity_ids.head_digest
   evidence     : Seq(Evidence \cup {None}),                       \* observation_ids, by producer id
   eligible     : SUBSET Records,                                  \* import_key_ranges, kind record
   eligibleIds  : SUBSET Nat,                                      \* ... kind observation
   dirty        : SUBSET Records,                                  \* import_range_dirty
   dirtyIds     : SUBSET Nat]

\* None is no row and no database.
ASSUME NoneAssumption ==
  None \notin HeadRow \cup Revision \cup Observation \cup Evidence \cup Database

IsDatabase(d) == d \in Database

EmptyDatabase ==
  [head |-> [r \in Records |-> None],
   revisions |-> [r \in Records |-> [v \in Contents |-> None]],
   conflicts |-> {}, sighted |-> [r \in Records |-> 0],
   observations |-> [r \in Records |-> None], lastId |-> 0, journal |-> <<>>,
   bound |-> [r \in Records |-> None], evidence |-> <<>>,
   eligible |-> {}, eligibleIds |-> {}, dirty |-> {}, dirtyIds |-> {}]

(* Freshness ***************************************************************)
\* The head time that current_heads returns, and the one of an observation.
EffectiveTime(d, r) == Later(d.head[r].at, d.sighted[r])
LastSeen(o)         == Later(o.at, o.seen)

Journaled(d, e) == [d EXCEPT !.journal = Append(@, e)]

\* refresh_records: a sighting is stamped unless a later one is there, and journaled.
MutRefreshRecord(d, r, at) == [d EXCEPT !.sighted[r] = Later(@, at)]
RefreshRecord(d, r, at) ==
  Journaled([d EXCEPT !.sighted[r] = Later(@, at)],
            [op |-> "record_refresh", urn |-> r, at |-> at])

(* Records and revisions ***************************************************)
\* A write of the `records` row: the journal trigger on a new or changed body,
\* and the trigger that marks an imported binding of the entity dirty.
MutMarkDirty(d, r) == d.dirty
MarkDirty(d, r) == IF d.bound[r] = None THEN d.dirty ELSE d.dirty \cup {r}

MutJournalHead(d, r, old) ==
  Journaled(d, [op |-> "record", urn |-> r, digest |-> old,
                at |-> d.head[r].at, previous |-> d.head[r].digest])
JournalHead(d, r, old) ==
  Journaled(d, [op |-> "record", urn |-> r, digest |-> d.head[r].digest,
                at |-> d.head[r].at, previous |-> old])

WriteHead(d, r, v, at) ==
  LET row == [digest |-> v, at |-> at, body |-> at, tombstoned |-> v \in Tombstones]
      old == IF d.head[r] = None THEN None ELSE d.head[r].digest
  IN JournalHead([d EXCEPT !.head[r] = row, !.dirty = MarkDirty(d, r)], r, old)

\* A write of a revision row, journaled when it changes the row.
WriteRevision(d, r, v, revision) ==
  IF d.revisions[r][v] = revision THEN d
  ELSE Journaled([d EXCEPT !.revisions[r][v] = revision],
                 [op |-> "revision", urn |-> r, digest |-> v, at |-> revision.at,
                  supersedes |-> revision.supersedes, body |-> revision.body])

\* _add_revision: content seen before is moved to its new time when it is current.
AddRevision(d, r, v, at, supersedes, body, current) ==
  LET old == d.revisions[r][v] IN
  CASE old = None ->
         WriteRevision(d, r, v, [at |-> at, supersedes |-> supersedes, body |-> body])
    [] old # None /\ current /\ old.at < at ->
         WriteRevision(d, r, v, [old EXCEPT !.at = at, !.supersedes = supersedes])
    [] old # None /\ ~(current /\ old.at < at) -> d

AddConflict(d, r, v) ==
  [d EXCEPT !.conflicts =
     @ \cup {[urn |-> r, current |-> d.head[r].digest, incoming |-> v]}]

\* The two ways an import may not replace the head.
MutForeign(d, r, prior) == prior # {} /\ d.head[r].digest \notin prior
Foreign(d, r, prior) == d.head[r].digest \notin prior
Outdated(d, r, at) == at < EffectiveTime(d, r)

\* _upsert. `origin` is "sync" or "import"; `prior` are the digests the importing
\* archive knows as earlier ones.
Upsert(d, r, v, at, origin, prior) ==
  CASE d.head[r] = None ->
         AddRevision(WriteHead(d, r, v, at), r, v, at, None, at, TRUE)
    [] d.head[r] # None /\ d.head[r].digest = v ->
         IF Outdated(d, r, at) THEN d ELSE RefreshRecord(d, r, at)
    [] d.head[r] # None /\ d.head[r].digest # v ->
         IF origin = "import" /\ Foreign(d, r, prior)
         THEN AddRevision(AddConflict(d, r, v), r, v, at, None, at, FALSE)
         ELSE IF origin = "import" /\ Outdated(d, r, at) THEN d
         ELSE AddRevision(WriteHead(d, r, v, at), r, v, at, d.head[r].digest, at, TRUE)

\* set_head: the row's time and body change, its `tombstoned` column does not.
MutMoveHead(d, r, v, at) ==
  LET old   == d.head[r]
      moved == [d EXCEPT !.head[r] = [old EXCEPT !.digest = v, !.body = d.revisions[r][v].body],
                         !.dirty = MarkDirty(d, r)]
  IN IF old = None \/ old.digest = v THEN d ELSE JournalHead(moved, r, old.digest)
MoveHead(d, r, v, at) ==
  LET old   == d.head[r]
      body  == d.revisions[r][v].body
      moved == [d EXCEPT !.head[r] = [old EXCEPT !.digest = v, !.at = at, !.body = body],
                         !.dirty = IF old.digest = v THEN @ ELSE MarkDirty(d, r)]
  IN IF old = None THEN d
     ELSE IF old.digest = v /\ old.body = body THEN moved
     ELSE JournalHead(moved, r, old.digest)

SetHead(d, r, v, at) ==
  LET supersedes == IF d.head[r] = None \/ d.head[r].digest = v THEN None
                    ELSE d.head[r].digest
  IN WriteRevision(MoveHead(d, r, v, at), r, v,
       [d.revisions[r][v] EXCEPT !.at = at, !.supersedes = supersedes])

\* resolve_conflict of a content conflict; it fails for content that is not stored.
CanResolve(d, k, v) == k \in d.conflicts /\ d.revisions[k.urn][v] # None
Resolve(d, k, v, at) == [SetHead(d, k.urn, v, at) EXCEPT !.conflicts = @ \ {k}]

(* Observations ************************************************************)
MutMarkIdsDirty(d, id) == d.dirtyIds
MarkIdsDirty(d, id) ==
  d.dirtyIds \cup {i \in DOMAIN d.evidence : d.evidence[i] # None /\ d.evidence[i].local = id}

\* INSERT ... ON CONFLICT DO UPDATE on source_observations. The journal and dirty
\* triggers of an update fire when the evidence changes, not its time.
WriteObservation(d, r, fingerprint, present, at) ==
  LET old  == d.observations[r]
      id   == IF old = None THEN d.lastId + 1 ELSE old.id
      same == old # None /\ old.fingerprint = fingerprint /\ old.present = present
      written ==
        [d EXCEPT !.observations[r] = [id |-> id, fingerprint |-> fingerprint, at |-> at,
                                       seen |-> IF old = None THEN 0 ELSE old.seen,
                                       present |-> present],
                  !.lastId = Later(@, id),
                  !.dirtyIds = IF same THEN @ ELSE MarkIdsDirty(d, id)]
  IN IF same THEN written
     ELSE Journaled(written, [op |-> "observation", urn |-> r, id |-> id,
                              fingerprint |-> fingerprint, present |-> present, at |-> at])

StampObservation(d, r, at) ==
  Journaled([d EXCEPT !.observations[r].seen = Later(@, at)],
            [op |-> "observation_refresh", id |-> d.observations[r].id, at |-> at])

\* observe_many: the source wins; a row is rewritten when its evidence changes and
\* every sighting is stamped.
Observe(d, r, fingerprint, at) ==
  LET old == d.observations[r]
  IN StampObservation(
       IF old # None /\ old.fingerprint = fingerprint /\ old.present = "present"
       THEN d ELSE WriteObservation(d, r, fingerprint, "present", at),
       r, at)

\* merge_observations: only newer sightings replace what is there.
MergeObservation(d, r, fingerprint, present, at) ==
  IF d.observations[r] # None /\ at < LastSeen(d.observations[r]) THEN d
  ELSE WriteObservation(d, r, fingerprint, present, at)

\* mark_absent: present rows not seen since the run started.
MutUnseen(d, since) ==
  {r \in Records : d.observations[r] # None /\ d.observations[r].present = "present"
                   /\ d.observations[r].at < since}
Unseen(d, since) ==
  {r \in Records : d.observations[r] # None /\ d.observations[r].present = "present"
                   /\ LastSeen(d.observations[r]) < since}

MarkAbsent(d, since) ==
  LET rows == SetToSeq(Unseen(d, since))
      Absent(r) == [d.observations[r] EXCEPT !.at = since, !.present = "absent_from_source"]
      Changed(r) == [op |-> "observation", urn |-> r, id |-> d.observations[r].id,
                     fingerprint |-> d.observations[r].fingerprint,
                     present |-> "absent_from_source", at |-> since]
  IN [d EXCEPT !.observations = [r \in Records |-> IF r \in Unseen(d, since) THEN Absent(r)
                                                  ELSE d.observations[r]],
               !.dirtyIds = @ \cup UNION {MarkIdsDirty(d, d.observations[r].id) :
                                            r \in Unseen(d, since)},
               !.journal = @ \o [i \in 1..Len(rows) |-> Changed(rows[i])]]

(* Purge *******************************************************************)
\* purge_urns: nothing is journaled; sightings of the record are forgotten, the
\* entity id and its imported binding stay.
Purge(d, r) ==
  [d EXCEPT !.head[r] = None,
            !.revisions[r] = [v \in Contents |-> None],
            !.sighted[r] = 0,
            !.observations[r] = None,
            !.dirty = IF d.head[r] = None THEN @ ELSE MarkDirty(d, r),
            !.dirtyIds = IF d.observations[r] = None THEN @
                         ELSE MarkIdsDirty(d, d.observations[r].id)]
=============================================================================
