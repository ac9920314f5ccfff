------------------------------ MODULE Replica ------------------------------
(***************************************************************************)
(* Replay of a producer's journal into another cache: apply_events and     *)
(* _bind_entity of src/chatstore/archive/incremental.py and translate of   *)
(* src/chatstore/cache/import_ranges.py, as operators on a database.  The  *)
(* producer's ids are those of one producer; intervals of ids are sets.    *)
(***************************************************************************)
EXTENDS CacheStore

(* Translation *************************************************************)
\* _mapping_sql: a binding is eligible while the local head, or evidence, is
\* what the producer last said it was.
HeadMatches(d, r) == d.bound[r] # None /\ d.head[r] # None /\ d.head[r].digest = d.bound[r]

EvidenceMatches(d, i) ==
  /\ i \in DOMAIN d.evidence /\ d.evidence[i] # None
  /\ \E r \in Records :
       /\ d.observations[r] # None
       /\ d.observations[r].id = d.evidence[i].local
       /\ r = d.evidence[i].urn
       /\ d.observations[r].fingerprint = d.evidence[i].fingerprint
       /\ d.observations[r].present = d.evidence[i].present

\* translate, first part: only dirty keys are looked at again.
Revalidate(d) ==
  [d EXCEPT !.eligible = {r \in Records : IF r \in d.dirty THEN HeadMatches(d, r)
                                          ELSE r \in d.eligible},
            !.eligibleIds = {i \in DOMAIN d.evidence :
                               IF i \in d.dirtyIds THEN EvidenceMatches(d, i)
                               ELSE i \in d.eligibleIds},
            !.dirty = {}, !.dirtyIds = {}]

(* Bindings ****************************************************************)
BindEntity(d, r, v) ==
  [d EXCEPT !.bound[r] = v, !.dirty = @ \cup {r}]

\* The producer's id now stands for the local row of that record.
BindEvidence(d, e) ==
  [d EXCEPT !.evidence =
     [i \in 1..Later(Len(@), e.id) |->
        IF i = e.id THEN [local |-> d.observations[e.urn].id, urn |-> e.urn,
                          fingerprint |-> e.fingerprint, present |-> e.present]
        ELSE IF i \in DOMAIN @ THEN @[i] ELSE None],
     !.dirtyIds = @ \cup {e.id}]

(* Events ******************************************************************)
MutApplyRecord(d, e) ==
  LET prior == IF e.previous = None THEN {} ELSE {e.previous}
      next  == Upsert(d, e.urn, e.digest, e.at, "import", prior)
  IN IF next.conflicts = d.conflicts THEN BindEntity(next, e.urn, e.digest) ELSE next
ApplyRecord(d, e) ==
  LET prior == IF e.previous = None THEN {} ELSE {e.previous}
  IN BindEntity(Upsert(d, e.urn, e.digest, e.at, "import", prior), e.urn, e.digest)

ApplyRevision(d, e) == AddRevision(d, e.urn, e.digest, e.at, e.supersedes, e.body, TRUE)

ApplyObservation(d, e) ==
  BindEvidence(MergeObservation(d, e.urn, e.fingerprint, e.present, e.at), e)

ApplyRecordRefresh(d, e) ==
  LET t == Revalidate(d)
  IN IF e.urn \in t.eligible THEN RefreshRecord(t, e.urn, e.at) ELSE t

ApplyObservationRefresh(d, e) ==
  LET t == Revalidate(d)
  IN IF e.id \in t.eligibleIds THEN StampObservation(t, t.evidence[e.id].urn, e.at) ELSE t

\* A refresh of a key that no earlier event bound fails the whole import, and so
\* does an observation id that comes back for another row.
Applicable(d, e) ==
  /\ e.op = "observation" /\ e.id \in DOMAIN d.evidence /\ d.evidence[e.id] # None
       => d.evidence[e.id].urn = e.urn
  /\ e.op = "record_refresh" => d.bound[e.urn] # None
  /\ e.op = "observation_refresh" => e.id \in DOMAIN d.evidence /\ d.evidence[e.id] # None

\* apply_events: one transaction for a batch; None when an event fails it.
ApplyEvent(d, e) ==
  CASE e.op = "record"              -> ApplyRecord(d, e)
    [] e.op = "revision"            -> ApplyRevision(d, e)
    [] e.op = "observation"         -> ApplyObservation(d, e)
    [] e.op = "record_refresh"      -> ApplyRecordRefresh(d, e)
    [] e.op = "observation_refresh" -> ApplyObservationRefresh(d, e)

Replay(d, batch) ==
  LET state[i \in 0..Len(batch)] ==
        IF i = 0 THEN d
        ELSE LET x == state[i - 1]
             IN IF x = None \/ ~Applicable(x, batch[i]) THEN None ELSE ApplyEvent(x, batch[i])
  IN state[Len(batch)]

ApplyEvents(d, batch) == IF Replay(d, batch) = None THEN None ELSE Revalidate(Replay(d, batch))
=============================================================================
