---------------------------- MODULE JournalProofs ----------------------------
(***************************************************************************)
(* What every cache believes, for any records, contents, caches, clocks,   *)
(* runs, local operations and batches.  Safe is the invariant that needs   *)
(* no assumption on who syncs: every cache is sound, the Collector's       *)
(* journal tells only of what happened, and every replica has bound what   *)
(* the events it has replayed said last.  Exact adds the times, while one  *)
(* process at a time syncs: what a cache dates was witnessed then, the     *)
(* journal is in the order of its times, and no revision overtakes a head. *)
(* Converging adds what the caches have in common: one history of what the *)
(* journal tells of a record, which the Collector holds whole and each     *)
(* replica as far as it has replayed.  What one operation of the store     *)
(* does is in ReplicaProofs.  Last, while one process at a time syncs, a   *)
(* checkpoint commits only over observations that say what its run's       *)
(* snapshot held: RunInv looks at the Collector's table of observations    *)
(* only; what replay does to a replica does not matter to it.              *)
(***************************************************************************)
EXTENDS Replication, ReplicaProofs

(* Times. *******************************************************************)

Everything == Records \X (Contents \cup {None}) \X Nat

Timed(W, t) == \A w \in W : w[3] <= t

\* A journal that tells what is in W has no time that W has not.
LEMMA JournalTimes ==
  ASSUME NEW W, NEW t \in Nat, Timed(W, t), NEW J \in Seq(Event), JournalFaithful(J, W)
  PROVE  \A k \in 1 .. Len(J) : J[k].at <= t
<1>1. ASSUME NEW k \in 1 .. Len(J), J[k].op # "revision" PROVE J[k].at <= t
  <2>1. FaithfulAt(J, k, W)
    BY DEF JournalFaithful
  <2>2. J[k].op \in {"record", "record_refresh", "observation", "observation_refresh"}
    BY <1>1, EventFields
  <2>3. \E r, v : <<r, v, J[k].at>> \in W
    BY <2>1, <2>2 DEF FaithfulAt
  <2> QED BY <2>3 DEF Timed
<1>2. ASSUME NEW k \in 1 .. Len(J), J[k].op = "revision" PROVE J[k].at <= t
  <2>1. Chained(J, k)
    BY DEF JournalFaithful
  <2>2. PICK l \in 1 .. k - 1 : RecordAt(J, l, J[k].urn) /\ J[l].at = J[k].at
    BY <1>2, <2>1 DEF Chained
  <2> QED BY <1>1, <2>2 DEF RecordAt
<1> QED BY <1>1, <1>2

\* A journal that grows at a time no event is later than stays in order.
LEMMA GrowsInOrder ==
  ASSUME NEW J \in Seq(Event), NEW K \in Seq(Event), NEW at \in Nat, Grows(J, K, at),
         InTimeOrder(J), \A k \in 1 .. Len(J) : J[k].at <= at
  PROVE  InTimeOrder(K)
<1>1. /\ Len(J) \in Nat /\ Len(K) \in Nat /\ Len(J) <= Len(K)
      /\ \A k \in 1 .. Len(J) : K[k] = J[k]
      /\ \A k \in Len(J) + 1 .. Len(K) : K[k].at = at
  BY DEF Grows, Agree
<1>2. ASSUME NEW k \in 1 .. Len(K), NEW l \in 1 .. k PROVE K[l].at <= K[k].at
  <2>1. CASE k \in 1 .. Len(J)
    <3>1. l \in 1 .. Len(J) /\ J[l].at <= J[k].at
      BY <2>1 DEF InTimeOrder
    <3> QED BY <1>1, <2>1, <3>1
  <2>2. CASE k \in Len(J) + 1 .. Len(K)
    <3>1. l \in 1 .. Len(J) \/ l \in Len(J) + 1 .. Len(K)
      BY <1>1, <2>2
    <3>2. K[k].at = at
      BY <1>1, <2>2
    <3>3. l \in 1 .. Len(J) => K[l].at <= at
      BY <1>1
    <3>4. l \in Len(J) + 1 .. Len(K) => K[l].at = at
      BY <1>1
    <3> QED BY <3>1, <3>2, <3>3, <3>4
  <2> QED BY <1>1, <2>1, <2>2
<1> QED BY <1>2 DEF InTimeOrder

\* What is witnessed by `at` was seen no later: a write at `at` gives a time that is
\* witnessed, and no head is later than it.
Now(W, V, at) == W \subseteq V /\ (Timed(W, at) \/ V = Everything)

HeadsBy(d, t) == \A r \in Records : d.head[r] # None => EffectiveTime(d, r) <= t

LEMMA WitnessedNow ==
  ASSUME NEW d, NEW W, Sound(d, W), NEW V, NEW at \in Nat, Now(W, V, at),
         NEW r \in Records, NEW c \in Contents, <<r, c, at>> \in V
  PROVE  /\ Witnesses(V, r, c, at, LastOf(d, r))
         /\ Witnesses(V, r, c, at, d.sighted[r])
         /\ <<r, c, Later(at, d.sighted[r])>> \in V
<1>1. d \in Database /\ Fresh(d, W)
  BY DEF Sound
<1>2. d.sighted[r] \in Nat /\ Later(at, d.sighted[r]) \in Nat
  BY <1>1, HeadTypes, LaterFacts
<1>3. CASE V = Everything
  <2>1. \A t \in Nat : <<r, c, t>> \in V
    BY <1>3 DEF Everything
  <2> QED BY <1>2, <2>1 DEF Witnesses
<1>4. CASE Timed(W, at)
  <2>1. LastOf(d, r) <= at
    <3>1. CASE d.observations[r] = None
      BY <3>1 DEF LastOf
    <3>2. CASE d.observations[r] # None
      BY <1>1, <1>4, <3>2 DEF LastOf, Fresh, Timed
    <3> QED BY <3>1, <3>2
  <2>2. d.sighted[r] <= at
    <3>1. CASE d.head[r] = None
      <4>1. d.sighted[r] = 0
        BY <1>1, <3>1 DEF Fresh
      <4> QED BY <4>1
    <3>2. CASE d.head[r] # None
      <4>1. EffectiveTime(d, r) <= at
        BY <1>1, <1>4, <3>2 DEF Fresh, Timed
      <4>2. EffectiveTime(d, r) \in Nat /\ EffectiveTime(d, r) >= d.sighted[r]
        BY <1>1, <3>2, HeadTypes
      <4> QED BY <1>2, <4>1, <4>2
    <3> QED BY <3>1, <3>2
  <2>3. Later(at, d.sighted[r]) = at
    BY <1>2, <2>2, LaterFacts
  <2> QED BY <2>1, <2>2, <2>3 DEF Witnesses
<1> QED BY <1>3, <1>4 DEF Now

LEMMA SoundBy ==
  ASSUME NEW d, NEW W, Sound(d, W), NEW t, Timed(W, t)
  PROVE  HeadsBy(d, t)
BY DEF Sound, Fresh, Timed, HeadsBy

(* The order of heads and revisions under local operations. *****************)

\* A journal that begins alike, and more records that are exempt.
LEMMA RankedWider ==
  ASSUME NEW d, NEW J, NEW K, NEW n \in Nat, Agree(J, K, n), NEW S, NEW T, S \subseteq T,
         Ranked(d, J, n, S)
  PROVE  Ranked(d, K, n, T)
<1>1. \A k \in 1 .. n : K[k] = J[k]
  BY DEF Agree
<1>2. ASSUME NEW r \in Records PROVE Rank(d, r, K, n, T)
  <2>1. Rank(d, r, J, n, S)
    BY DEF Ranked
  <2>2. \A k \in 1 .. n : RecordAt(K, k, r) <=> RecordAt(J, k, r)
    BY <1>1 DEF RecordAt
  <2> QED BY <1>1, <2>1, <2>2 DEF Rank
<1> QED BY <1>2 DEF Ranked

\* Only what is said of heads, revisions and conflicts matters.
LEMMA RankedAlike ==
  ASSUME NEW d, NEW x, SameHeads(d, x), NEW J, NEW n, NEW S, Ranked(d, J, n, S)
  PROVE  Ranked(x, J, n, S)
<1>1. \A r : EffectiveTime(x, r) = EffectiveTime(d, r) /\ (HasConflict(x, r) <=> HasConflict(d, r))
  BY DEF SameHeads, EffectiveTime, HasConflict
<1>2. ASSUME NEW r \in Records PROVE Rank(x, r, J, n, S)
  BY <1>1 DEF Ranked, Rank, SameHeads
<1> QED BY <1>2 DEF Ranked

\* A purged or untouched record.
LEMMA RankKept ==
  ASSUME NEW d \in Database, NEW x \in Database, NEW r \in Records, NEW J \in Seq(Event),
         NEW n \in Nat, n <= Len(J), NEW S, NEW T, S \subseteq T, Rank(d, r, J, n, S),
         x.head[r] = d.head[r], x.sighted[r] = d.sighted[r],
         \A v \in Contents : x.revisions[r][v] = d.revisions[r][v],
         HasConflict(d, r) => HasConflict(x, r)
  PROVE  Rank(x, r, J, n, T)
<1>1. EffectiveTime(x, r) = EffectiveTime(d, r)
  BY DEF EffectiveTime
<1>2. d.head[r] # None => EffectiveTime(d, r) \in Nat
  BY HeadTypes
<1>3. \A k \in n + 1 .. n : FALSE
  OBVIOUS
<1> QED BY <1>1, <1>2, <1>3, RankGrows

\* The head of r has the time of the write, and nothing is later.
LEMMA RankWritten ==
  ASSUME NEW d \in Database, NEW x \in Database, NEW r \in Records, NEW v \in Contents,
         NEW at \in Nat, NEW J \in Seq(Event), NEW n \in Nat, n <= Len(J), NEW S,
         x.head[r] # None, x.head[r].at = at, RevisionAdded(d, x, r, v, at),
         \A k \in 1 .. n : J[k].at <= at,
         r \notin S => \A w \in Contents : d.revisions[r][w] # None =>
                         HasConflict(x, r) \/ d.revisions[r][w].at <= at
  PROVE  Rank(x, r, J, n, S)
<1>1. EffectiveTime(x, r) \in Nat /\ EffectiveTime(x, r) >= at
  BY HeadTypes
<1>2. ASSUME NEW k \in 1 .. n PROVE J[k].at <= EffectiveTime(x, r)
  <2>1. J[k].at \in Nat /\ J[k].at <= at
    BY EventFields
  <2> QED BY <1>1, <2>1
<1>3. ASSUME r \notin S, NEW w \in Contents, x.revisions[r][w] # None
      PROVE HasConflict(x, r) \/ x.revisions[r][w].at <= EffectiveTime(x, r)
  <2>1. x.revisions[r][w].at \in Nat
    BY <1>3, RevisionTypes
  <2>2. x.revisions[r][w] = d.revisions[r][w] \/ x.revisions[r][w].at = at
    BY DEF RevisionAdded
  <2>3. HasConflict(x, r) \/ x.revisions[r][w].at <= at
    BY <1>3, <2>1, <2>2
  <2> QED BY <1>1, <2>1, <2>3
<1> QED BY <1>2, <1>3 DEF Rank

\* A write by a sync, or by somebody at the cache, at a time no earlier than its heads.
LEMMA UpsertRanked ==
  ASSUME NEW d \in Database, NEW r \in Records, NEW v \in Contents, NEW at \in Nat,
         NEW J \in Seq(Event), NEW n \in Nat, n <= Len(J), NEW S, Ranked(d, J, n, S),
         HeadsBy(d, at), \A k \in 1 .. n : J[k].at <= at
  PROVE  LET x == Upsert(d, r, v, at, "sync", {})
         IN /\ Ranked(x, J, n, S) /\ x.conflicts = d.conflicts
            /\ \A t \in Nat : at <= t /\ RevisionsBy(d, t) => RevisionsBy(x, t)
<1> DEFINE x == Upsert(d, r, v, at, "sync", {})
<1>1. /\ x \in Database
      /\ \/ HeadWritten(d, x, r, v, at)
         \/ HeadSeen(d, x, r, at)
            /\ d.head[r] # None /\ d.head[r].digest = v /\ at >= EffectiveTime(d, r)
         \/ HeadKept(d, x, r, v, at) /\ x = d
  BY UpsertDoes
<1>2. DOMAIN d.head = Records /\ DOMAIN d.sighted = Records
  BY DEF Database
<1> HIDE DEF x
<1>3. CASE HeadWritten(d, x, r, v, at)
  <2>1. /\ x.head = [d.head EXCEPT ![r] =
                       [digest |-> v, at |-> at, body |-> at, tombstoned |-> v \in Tombstones]]
        /\ x.sighted = d.sighted /\ x.conflicts = d.conflicts
        /\ RevisionAdded(d, x, r, v, at)
    BY <1>3 DEF HeadWritten
  <2>2. ASSUME NEW s \in Records \ {r} PROVE Rank(x, s, J, n, S)
    <3>1. x.head[s] = d.head[s] /\ \A w \in Contents : x.revisions[s][w] = d.revisions[s][w]
      BY <1>2, <2>1 DEF RevisionAdded
    <3>2. Rank(d, s, J, n, S)
      BY DEF Ranked
    <3>3. HasConflict(d, s) => HasConflict(x, s)
      BY <2>1 DEF HasConflict
    <3> QED BY <1>1, <2>1, <3>1, <3>2, <3>3, RankKept
  <2>3. ASSUME r \notin S, NEW w \in Contents, d.revisions[r][w] # None
        PROVE HasConflict(x, r) \/ d.revisions[r][w].at <= at
    <3>1. d.revisions[r][w].at \in Nat
      BY <2>3, RevisionTypes
    <3>2. IF d.head[r] = None THEN \E k \in 1 .. n : d.revisions[r][w].at <= J[k].at
          ELSE HasConflict(d, r) \/ d.revisions[r][w].at <= EffectiveTime(d, r)
      BY <2>3 DEF Ranked, Rank
    <3>3. CASE d.head[r] = None
      <4>1. PICK k \in 1 .. n : d.revisions[r][w].at <= J[k].at
        BY <3>2, <3>3
      <4>2. J[k].at \in Nat /\ J[k].at <= at
        BY <4>1, EventFields
      <4> QED BY <3>1, <4>1, <4>2
    <3>4. CASE d.head[r] # None
      <4>1. EffectiveTime(d, r) \in Nat /\ EffectiveTime(d, r) <= at
        BY <3>4, HeadTypes DEF HeadsBy
      <4>2. HasConflict(d, r) => HasConflict(x, r)
        BY <2>1 DEF HasConflict
      <4> QED BY <3>1, <3>2, <3>4, <4>1, <4>2
    <3> QED BY <3>3, <3>4
  <2>4. x.head[r] = [digest |-> v, at |-> at, body |-> at, tombstoned |-> v \in Tombstones]
    BY <1>2, <2>1
  <2>5. x.head[r] \in HeadRow /\ x.head[r].at = at
    BY <2>4 DEF HeadRow
  <2>6. x.head[r] # None
    BY <2>5, NoneAssumption
  <2>7. Rank(x, r, J, n, S)
    BY <1>1, <2>1, <2>3, <2>5, <2>6, RankWritten
  <2>8. ASSUME NEW t \in Nat, at <= t, RevisionsBy(d, t) PROVE RevisionsBy(x, t)
    BY <2>1, <2>8 DEF RevisionsBy, RevisionAdded
  <2> QED BY <2>1, <2>2, <2>7, <2>8 DEF Ranked, x
<1>4. CASE HeadSeen(d, x, r, at) /\ d.head[r] # None
  <2>1. /\ x.head = d.head /\ x.sighted = [d.sighted EXCEPT ![r] = Later(@, at)]
        /\ x.conflicts = d.conflicts /\ x.revisions = d.revisions
    BY <1>4 DEF HeadSeen
  <2>2. ASSUME NEW s \in Records PROVE Rank(x, s, J, n, S)
    <3>1. d.sighted[s] \in Nat /\ x.sighted[s] \in Nat /\ x.sighted[s] >= d.sighted[s]
      <4>1. d.sighted[s] \in Nat /\ x.sighted[s] \in Nat
        BY <1>1, HeadTypes
      <4>2. x.sighted[s] = IF s = r THEN Later(d.sighted[s], at) ELSE d.sighted[s]
        BY <1>2, <2>1
      <4>3. Later(d.sighted[s], at) >= d.sighted[s]
        BY <4>1, LaterFacts
      <4> QED BY <4>1, <4>2, <4>3
    <3>2. ASSUME d.head[s] # None PROVE EffectiveTime(x, s) >= EffectiveTime(d, s)
      <4>1. d.head[s].at \in Nat /\ x.head[s].at = d.head[s].at
        BY <2>1, <3>2, HeadTypes
      <4> QED BY <3>1, <4>1 DEF EffectiveTime, Later
    <3>3. Rank(d, s, J, n, S)
      BY DEF Ranked
    <3>4. HasConflict(d, s) <=> HasConflict(x, s)
      BY <2>1 DEF HasConflict
    <3>5. \A k \in n + 1 .. n : FALSE
      OBVIOUS
    <3> QED BY <1>1, <2>1, <3>2, <3>3, <3>4, <3>5, RankGrows
  <2> QED BY <2>1, <2>2 DEF Ranked, RevisionsBy, x
<1> QED BY <1>1, <1>3, <1>4 DEF x

\* A resolved conflict: the revision that is kept gets the time of the choice, and the
\* head with it, where there is one (set_head).
LEMMA ResolveRanked ==
  ASSUME NEW d, NEW W, Sound(d, W), NEW k, NEW v \in Contents, NEW at \in Nat,
         CanResolve(d, k, v), Witnesses(W, k.urn, v, at, d.sighted[k.urn]),
         NEW J \in Seq(Event), NEW n \in Nat, n <= Len(J), NEW S, Ranked(d, J, n, S),
         RevisionsBy(d, at), \A l \in 1 .. n : J[l].at <= at,
         NEW T, S \subseteq T, d.head[k.urn] = None => k.urn \in T
  PROVE  LET x == Resolve(d, k, v, at)
         IN Ranked(x, J, n, T) /\ RevisionsBy(x, at)
<1> DEFINE x == Resolve(d, k, v, at)
           r == k.urn
<1>1. /\ Sound(x, W) /\ x.sighted = d.sighted
      /\ \A s \in Records \ {r} : x.head[s] = d.head[s]
      /\ d.head[r] = None => x.head[r] = None
      /\ d.head[r] # None => x.head[r] # None /\ x.head[r].digest = v /\ x.head[r].at = at
      /\ RevisionAdded(d, x, r, v, at)
      /\ x.conflicts = d.conflicts \ {k}
  BY ResolveDoes
<1>2. d \in Database /\ x \in Database /\ r \in Records
  BY <1>1 DEF Sound, CanResolve, Database, Conflict
<1> HIDE DEF x
<1>3. ASSUME NEW s \in Records \ {r} PROVE Rank(x, s, J, n, T)
  <2>1. \A w \in Contents : x.revisions[s][w] = d.revisions[s][w]
    BY <1>1 DEF RevisionAdded
  <2>2. HasConflict(d, s) => HasConflict(x, s)
    BY <1>1 DEF HasConflict
  <2>3. Rank(d, s, J, n, S)
    BY DEF Ranked
  <2> QED BY <1>1, <1>2, <2>1, <2>2, <2>3, RankKept
<1>4. Rank(x, r, J, n, T)
  <2>1. CASE d.head[r] = None
    BY <1>1, <2>1 DEF Rank
  <2>2. CASE d.head[r] # None
    <3>1. \A w \in Contents : d.revisions[r][w] # None => d.revisions[r][w].at <= at
      BY <1>2 DEF RevisionsBy
    <3> HIDE DEF r
    <3> QED BY <1>1, <1>2, <2>2, <3>1, RankWritten
  <2> QED BY <2>1, <2>2
<1>5. RevisionsBy(x, at)
  BY <1>1 DEF RevisionsBy, RevisionAdded
<1> QED BY <1>3, <1>4, <1>5 DEF Ranked, x

LEMMA PurgeRanked ==
  ASSUME NEW d \in Database, NEW r \in Records, NEW J \in Seq(Event), NEW n \in Nat,
         n <= Len(J), NEW S, Ranked(d, J, n, S)
  PROVE  LET x == Purge(d, r)
         IN /\ Ranked(x, J, n, S) /\ x.conflicts = d.conflicts
            /\ \A t \in Nat : RevisionsBy(d, t) => RevisionsBy(x, t)
<1> DEFINE x == Purge(d, r)
<1>1. /\ x \in Database /\ x.conflicts = d.conflicts
      /\ x.head = [d.head EXCEPT ![r] = None]
      /\ x.revisions = [d.revisions EXCEPT ![r] = [v \in Contents |-> None]]
      /\ x.sighted = [d.sighted EXCEPT ![r] = 0]
  BY PurgeDoes
<1>2. DOMAIN d.head = Records /\ DOMAIN d.sighted = Records /\ DOMAIN d.revisions = Records
  BY DEF Database
<1> HIDE DEF x
<1>3. \A w \in Contents : x.revisions[r][w] = None
  BY <1>1, <1>2
<1>4. ASSUME NEW s \in Records \ {r} PROVE Rank(x, s, J, n, S)
  <2>1. x.head[s] = d.head[s] /\ x.revisions[s] = d.revisions[s] /\ x.sighted[s] = d.sighted[s]
    BY <1>1, <1>2
  <2>2. HasConflict(d, s) => HasConflict(x, s)
    BY <1>1 DEF HasConflict
  <2>3. Rank(d, s, J, n, S)
    BY DEF Ranked
  <2> QED BY <1>1, <2>1, <2>2, <2>3, RankKept
<1>5. Rank(x, r, J, n, S)
  BY <1>1, <1>2, <1>3 DEF Rank
<1>6. ASSUME NEW t \in Nat, RevisionsBy(d, t) PROVE RevisionsBy(x, t)
  <2>1. \A s \in Records \ {r} : x.revisions[s] = d.revisions[s]
    BY <1>1, <1>2
  <2> QED BY <1>3, <1>6, <2>1 DEF RevisionsBy
<1> QED BY <1>1, <1>4, <1>5, <1>6 DEF Ranked, x

(* The state. ***************************************************************)

Typed ==
  /\ DOMAIN db = Caches
  /\ clock \in Nat /\ begun \in Nat /\ checkpoint \in Nat
  /\ source \in [Records -> Contents \cup {None}]
  /\ runs \in [Syncers -> Run]
  /\ witnessed \subseteq Everything
  /\ applied \in [Replicas -> Nat]
  /\ locals \in 0 .. MaxLocal
  /\ touched \subseteq Caches \X Records
  /\ orphaned \subseteq touched

\* A run captures only what its snapshot holds.
TodoHeld == \A p \in Syncers : \A r \in runs[p].todo : runs[p].snapshot[r] # None

\* The Collector's journal tells what is in W, and every replica follows it.
Held(D, a, W) ==
  /\ Recorded(D[Collector], W)
  /\ \A c \in Replicas : /\ a[c] \in 0 .. Len(D[Collector].journal)
                         /\ Follows(D[c], D[Collector].journal, a[c], W)

Safe == Typed /\ TodoHeld /\ Held(db, applied, Everything)

LEMMA HeldDatabases ==
  ASSUME NEW D, NEW a, NEW W, Held(D, a, W)
  PROVE  /\ \A c \in Caches : Sound(D[c], W) /\ D[c] \in Database
         /\ D[Collector].journal \in Seq(Event)
<1>1. \A c \in Caches : Sound(D[c], W)
  BY DEF Held, Recorded, Follows, Replicas
<1>2. \A c \in Caches : D[c] \in Database
  BY <1>1 DEF Sound
<1> QED BY <1>1, <1>2, SyncAssumption DEF Database

LEMMA HeldWider ==
  ASSUME NEW D, NEW a, NEW W, NEW V, W \subseteq V, Held(D, a, W)
  PROVE  Held(D, a, V)
<1>1. Recorded(D[Collector], V)
  BY RecordedWider DEF Held
<1>2. \A d, J, n : Follows(d, J, n, W) => Follows(d, J, n, V)
  BY RecordedWider DEF Follows
<1> QED BY <1>1, <1>2 DEF Held

\* A write at the Collector: what the replicas have replayed stays where it is.
LEMMA CollectorWrites ==
  ASSUME NEW D, DOMAIN D = Caches, NEW a, NEW W, NEW V, W \subseteq V, Held(D, a, W),
         NEW x, Recorded(x, V), NEW at, Grows(D[Collector].journal, x.journal, at)
  PROVE  Held([D EXCEPT ![Collector] = x], a, V)
<1> DEFINE E == [D EXCEPT ![Collector] = x]
           J == D[Collector].journal
           K == x.journal
<1>1. E[Collector] = x /\ \A c \in Replicas : E[c] = D[c]
  BY SyncAssumption DEF Replicas
<1>2. J \in Seq(Event) /\ K \in Seq(Event)
  <2>1. x \in Database
    BY DEF Recorded, Sound
  <2> QED BY <2>1, HeldDatabases DEF Database
<1>3. Len(J) \in Nat /\ Len(K) \in Nat /\ Len(J) <= Len(K) /\ Agree(J, K, Len(J))
  BY <1>2 DEF Grows
<1>4. ASSUME NEW c \in Replicas
      PROVE a[c] \in 0 .. Len(K) /\ Follows(D[c], K, a[c], V)
  <2>1. a[c] \in 0 .. Len(J) /\ Sound(D[c], W) /\ Bindings(D[c], J, a[c])
    BY DEF Held, Follows
  <2>2. Bindings(D[c], K, a[c])
    BY <1>3, <2>1, AgreeFacts
  <2>3. Sound(D[c], V)
    BY <2>1, RecordedWider
  <2> QED BY <1>3, <2>1, <2>2, <2>3 DEF Follows
<1> HIDE DEF E, J, K
<1>5. Held(E, a, V)
  BY <1>1, <1>4 DEF Held, K
<1> QED BY <1>5 DEF E

LEMMA ReplicaWrites ==
  ASSUME NEW D, DOMAIN D = Caches, NEW a, DOMAIN a = Replicas, NEW W, NEW V, W \subseteq V,
         Held(D, a, W), NEW c \in Replicas, NEW x, NEW n \in 0 .. Len(D[Collector].journal),
         Follows(x, D[Collector].journal, n, V)
  PROVE  Held([D EXCEPT ![c] = x], [a EXCEPT ![c] = n], V)
<1> DEFINE E == [D EXCEPT ![c] = x]
           b == [a EXCEPT ![c] = n]
<1>1. E[Collector] = D[Collector] /\ E[c] = x /\ b[c] = n
      /\ \A e \in Replicas \ {c} : E[e] = D[e] /\ b[e] = a[e]
  BY DEF Replicas
<1>2. Held(D, a, V)
  BY HeldWider
<1> HIDE DEF E, b
<1>3. Held(E, b, V)
  BY <1>1, <1>2 DEF Held
<1> QED BY <1>3 DEF E, b

(* What the steps do to a database. *****************************************)

\* A row that a sync captures.
LEMMA CaptureKeeps ==
  ASSUME NEW d, NEW W, NEW V, NEW at \in Nat, Recorded(d, W), Now(W, V, at),
         NEW r \in Records, NEW v \in Contents, <<r, v, at>> \in V
  PROVE  LET x == Captured(d, r, v, at)
         IN /\ Recorded(x, V) /\ Grows(d.journal, x.journal, at)
            /\ Timed(W, at) /\ Ranked(d, <<>>, 0, {}) /\ d.conflicts = {}
                 => Ranked(x, <<>>, 0, {}) /\ x.conflicts = {}
<1> DEFINE y == Upsert(d, r, v, at, "sync", {})
           x == Observe(y, r, v, at)
<1>1. Sound(d, W) /\ d \in Database /\ W \subseteq V
  BY DEF Recorded, Sound, Now
<1>2. Recorded(d, V)
  BY <1>1, RecordedWider
<1>3. Witnesses(V, r, v, at, LastOf(d, r)) /\ <<r, v, Later(at, d.sighted[r])>> \in V
  BY <1>1, WitnessedNow
<1>4. Recorded(x, V) /\ Grows(d.journal, x.journal, at) /\ SameHeads(y, x)
  BY <1>2, <1>3, CapturedRecorded
<1>5. ASSUME Timed(W, at), Ranked(d, <<>>, 0, {}), d.conflicts = {}
      PROVE  Ranked(x, <<>>, 0, {}) /\ x.conflicts = {}
  <2>1. HeadsBy(d, at)
    BY <1>1, <1>5, SoundBy
  <2>2. <<>> \in Seq(Event) /\ 0 \in Nat /\ 0 <= Len(<<>>)
    OBVIOUS
  <2>3. \A k \in 1 .. 0 : <<>>[k].at <= at
    OBVIOUS
  <2>4. Ranked(y, <<>>, 0, {}) /\ y.conflicts = d.conflicts
    BY <1>1, <1>5, <2>1, <2>2, <2>3, UpsertRanked
  <2> HIDE DEF x, y
  <2>5. Ranked(x, <<>>, 0, {})
    BY <1>4, <2>4, RankedAlike
  <2> QED BY <1>4, <1>5, <2>4, <2>5 DEF SameHeads
<1> QED BY <1>4, <1>5 DEF Captured

\* A row that somebody writes at a replica.
LEMMA WriteKeeps ==
  ASSUME NEW d, NEW W, NEW V, NEW at \in Nat, NEW J \in Seq(Event), NEW n \in Nat, n <= Len(J),
         Follows(d, J, n, W), Now(W, V, at),
         NEW r \in Records, NEW v \in Contents, <<r, v, at>> \in V
  PROVE  LET x == Upsert(d, r, v, at, "sync", {})
         IN /\ Follows(x, J, n, V)
            /\ \A S :
                 /\ Timed(W, at) /\ Ranked(d, J, n, S) /\ RevisionsBy(d, at)
                 /\ (\A k \in 1 .. n : J[k].at <= at)
                 => Ranked(x, J, n, S) /\ RevisionsBy(x, at)
<1> DEFINE x == Upsert(d, r, v, at, "sync", {})
<1>1. Sound(d, W) /\ d \in Database /\ W \subseteq V /\ Bindings(d, J, n)
  BY DEF Follows, Sound, Now
<1>2. Sound(d, V)
  BY <1>1, RecordedWider
<1>3. <<r, v, Later(at, d.sighted[r])>> \in V
  BY <1>1, WitnessedNow
<1>4. Sound(x, V)
  BY <1>2, <1>3, UpsertSound
<1>5. KeepsBindings(d, x)
  BY <1>1, UpsertDoes
<1> HIDE DEF x
<1>6. Follows(x, J, n, V)
  BY <1>1, <1>4, <1>5 DEF Follows, Bindings, KeepsBindings
<1>7. ASSUME NEW S, Timed(W, at), Ranked(d, J, n, S), RevisionsBy(d, at),
             \A k \in 1 .. n : J[k].at <= at
      PROVE  Ranked(x, J, n, S) /\ RevisionsBy(x, at)
  <2>1. HeadsBy(d, at)
    BY <1>1, <1>7, SoundBy
  <2> QED BY <1>1, <1>7, <2>1, UpsertRanked DEF x
<1> QED BY <1>6, <1>7 DEF x

LEMMA ResolveKeeps ==
  ASSUME NEW d, NEW W, NEW V, NEW at \in Nat, NEW J \in Seq(Event), NEW n \in Nat, n <= Len(J),
         Follows(d, J, n, W), Now(W, V, at),
         NEW k, NEW v \in Contents, CanResolve(d, k, v), <<k.urn, v, at>> \in V
  PROVE  LET x == Resolve(d, k, v, at)
         IN /\ Follows(x, J, n, V)
            /\ \A S, T :
                 /\ Ranked(d, J, n, S) /\ RevisionsBy(d, at)
                 /\ (\A l \in 1 .. n : J[l].at <= at)
                 /\ S \subseteq T /\ (d.head[k.urn] = None => k.urn \in T)
                 => Ranked(x, J, n, T) /\ RevisionsBy(x, at)
<1> DEFINE x == Resolve(d, k, v, at)
<1>1. Sound(d, W) /\ d \in Database /\ W \subseteq V /\ Bindings(d, J, n)
  BY DEF Follows, Sound, Now
<1>2. Sound(d, V) /\ k.urn \in Records
  BY <1>1, RecordedWider DEF CanResolve, Database, Conflict
<1>3. Witnesses(V, k.urn, v, at, d.sighted[k.urn])
  BY <1>1, <1>2, WitnessedNow
<1>4. Sound(x, V) /\ KeepsBindings(d, x)
  BY <1>2, <1>3, ResolveDoes
<1>5. ASSUME NEW S, NEW T, Ranked(d, J, n, S), RevisionsBy(d, at),
             \A l \in 1 .. n : J[l].at <= at, S \subseteq T, d.head[k.urn] = None => k.urn \in T
      PROVE  Ranked(x, J, n, T) /\ RevisionsBy(x, at)
  BY <1>2, <1>3, <1>5, ResolveRanked
<1> HIDE DEF x
<1>6. Follows(x, J, n, V)
  BY <1>1, <1>4 DEF Follows, Bindings, KeepsBindings
<1> QED BY <1>5, <1>6 DEF x

\* A record that is purged at a replica.
LEMMA PurgeKeeps ==
  ASSUME NEW d, NEW W, NEW J \in Seq(Event), NEW n \in Nat, n <= Len(J), Follows(d, J, n, W),
         NEW r \in Records
  PROVE  LET x == Purge(d, r)
         IN /\ Follows(x, J, n, W)
            /\ \A S : Ranked(d, J, n, S) => Ranked(x, J, n, S)
            /\ \A t \in Nat : RevisionsBy(d, t) => RevisionsBy(x, t)
<1> DEFINE x == Purge(d, r)
<1>1. Sound(d, W) /\ d \in Database /\ Bindings(d, J, n)
  BY DEF Follows, Sound
<1>2. Sound(x, W)
  BY <1>1, PurgeSound
<1>3. KeepsBindings(d, x)
  BY <1>1, PurgeDoes
<1>4. \A S : Ranked(d, J, n, S) =>
             Ranked(x, J, n, S) /\ \A t \in Nat : RevisionsBy(d, t) => RevisionsBy(x, t)
  BY <1>1, PurgeRanked
<1>5. \A t \in Nat : RevisionsBy(d, t) => RevisionsBy(x, t)
  <2>1. x.revisions = [d.revisions EXCEPT ![r] = [v \in Contents |-> None]]
    BY <1>1, PurgeDoes
  <2>2. DOMAIN d.revisions = Records
    BY <1>1 DEF Database
  <2> HIDE DEF x
  <2>3. \A w \in Contents : x.revisions[r][w] = None
    BY <2>1, <2>2
  <2>4. \A s \in Records \ {r} : x.revisions[s] = d.revisions[s]
    BY <2>1, <2>2
  <2> QED BY <2>3, <2>4 DEF RevisionsBy
<1> HIDE DEF x
<1>6. Follows(x, J, n, W)
  BY <1>1, <1>2, <1>3 DEF Follows, Bindings, KeepsBindings
<1> QED BY <1>4, <1>5, <1>6 DEF x

(* Without any assumption on who syncs. *************************************)

LEMMA SafeStart ==
  ASSUME Init PROVE Safe
<1>1. Typed
  BY ReplicationAssumption, SyncAssumption DEF Init, SyncInit, Typed, Everything, Run, Idle
<1>2. TodoHeld
  BY DEF Init, SyncInit, TodoHeld, Idle
<1>3. /\ db = [c \in Caches |-> EmptyDatabase] /\ applied = [c \in Replicas |-> 0]
  BY DEF Init, SyncInit
<1>4. /\ EmptyDatabase \in Database /\ Recorded(EmptyDatabase, Everything)
      /\ \A J : Bindings(EmptyDatabase, J, 0)
  BY EmptyRecorded
<1>5. EmptyDatabase.journal \in Seq(Event)
  BY <1>4 DEF Database
<1>6. db[Collector] = EmptyDatabase /\ \A c \in Replicas : db[c] = EmptyDatabase
  BY <1>3, SyncAssumption DEF Replicas
<1>7. Held(db, applied, Everything)
  BY <1>3, <1>4, <1>5, <1>6 DEF Held, Recorded, Follows
<1> QED BY <1>1, <1>2, <1>7 DEF Safe

Started(t) == [Idle EXCEPT !.pc = "started", !.at = t]

LEMMA StartedRun ==
  ASSUME NEW t \in Nat
  PROVE  Started(t) \in Run /\ Started(t).at = t /\ Started(t).todo = {}
<1>1. Idle \in Run /\ Idle.todo = {}
  BY DEF Idle, Run
<1>2. \A run \in Run : LET s == [run EXCEPT !.pc = "started", !.at = t]
                      IN s \in Run /\ s.at = t /\ s.todo = run.todo
  BY DEF Run
<1> QED BY <1>1, <1>2 DEF Started

LEMMA TypedStep ==
  ASSUME Safe, Next PROVE Typed' /\ TodoHeld'
<1>1. Typed /\ TodoHeld
  BY DEF Safe
<1>2. /\ \A c \in Caches : db[c] \in Database
      /\ \A c \in Replicas : c \in Caches
  BY HeldDatabases DEF Safe, Replicas
<1>3. ASSUME NEW p \in Syncers, SyncStep(p), UNCHANGED <<applied, locals, touched, orphaned>>
      PROVE Typed' /\ TodoHeld'
  <2>1. runs[p] \in Run
    BY <1>1 DEF Typed
  <2>2. CASE Begin(p)
    <3> DEFINE started == Started(clock')
    <3>1. clock' = clock + 1 /\ begun' = begun + 1 /\ runs' = [runs EXCEPT ![p] = started]
          /\ UNCHANGED <<db, source, checkpoint, witnessed>>
      BY <2>2 DEF Begin, Started
    <3>2. started \in Run /\ started.todo = {}
      <4>1. clock' \in Nat
        BY <1>1, <3>1 DEF Typed
      <4> QED BY <4>1, StartedRun
    <3> HIDE DEF started
    <3>3. runs' \in [Syncers -> Run] /\ TodoHeld'
      BY <1>1, <3>1, <3>2 DEF Typed, TodoHeld
    <3> QED BY <1>1, <1>3, <3>1, <3>3 DEF Typed
  <2>3. CASE \E failed \in SUBSET Faulty : TakeSnapshot(p, failed)
    <3>1. PICK failed \in SUBSET Faulty : TakeSnapshot(p, failed)
      BY <2>3
    <3> QED BY <1>1, <1>3, <2>1, <3>1 DEF Typed, TodoHeld, TakeSnapshot, Run
  <2>4. CASE \E r \in Records : Capture(p, r)
    <3>1. PICK r \in Records : Capture(p, r)
      BY <2>4
    <3>2. runs[p].snapshot[r] \in Contents /\ runs[p].at \in Nat
      BY <1>1, <2>1, <3>1 DEF TodoHeld, Capture, Run
    <3>3. witnessed' \subseteq Everything
      BY <1>1, <3>1, <3>2 DEF Typed, Capture, Everything
    <3>4. runs' = [runs EXCEPT ![p].todo = runs[p].todo \ {r}]
      BY <3>1 DEF Capture
    <3>5. runs' \in [Syncers -> Run] /\ TodoHeld'
      BY <1>1, <2>1, <3>4 DEF Typed, TodoHeld, Run
    <3> QED BY <1>1, <1>3, <3>1, <3>3, <3>5 DEF Typed, Capture
  <2>5. CASE Reconcile(p)
    <3>1. runs[p].at \in Nat /\ Unseen(db[Collector], runs[p].at) \subseteq Records
      BY <2>1 DEF Run, Unseen
    <3>2. witnessed' \subseteq Everything
      BY <1>1, <2>5, <3>1 DEF Typed, Reconcile, Everything
    <3>3. runs' \in [Syncers -> Run] /\ TodoHeld'
      BY <1>1, <2>1, <2>5 DEF Typed, TodoHeld, Reconcile, Run
    <3> QED BY <1>1, <1>3, <2>5, <3>2, <3>3 DEF Typed, Reconcile
  <2>6. CASE Complete(p) \/ Abandon(p)
    <3>1. runs' = [runs EXCEPT ![p] = Idle] /\ Idle \in Run
          /\ UNCHANGED <<db, clock, source, begun, witnessed>>
      BY <2>6 DEF Complete, Abandon, Idle, Run
    <3>2. checkpoint' \in Nat
      BY <1>1, <2>1, <2>6 DEF Typed, Complete, Abandon, Run
    <3>3. runs' \in [Syncers -> Run] /\ TodoHeld'
      BY <1>1, <3>1 DEF Typed, TodoHeld, Idle
    <3> QED BY <1>1, <1>3, <3>1, <3>2, <3>3 DEF Typed
  <2> QED BY <1>3, <2>2, <2>3, <2>4, <2>5, <2>6 DEF SyncStep
<1>4. ASSUME NEW r \in Records, NEW v \in Contents \cup {None}, SourceEdit(r, v),
             UNCHANGED <<applied, locals, touched, orphaned>>
      PROVE Typed' /\ TodoHeld'
  BY <1>1, <1>4 DEF Typed, TodoHeld, SourceEdit
<1>5. ASSUME NEW c \in Replicas, NEW through \in 1 .. Len(Produced), Import(c, through)
      PROVE Typed' /\ TodoHeld'
  BY <1>1, <1>5 DEF Typed, TodoHeld, Import
<1>6. ASSUME NEW c \in Replicas, NEW r \in Records, NEW v \in Contents, LocalWrite(c, r, v)
      PROVE Typed' /\ TodoHeld'
  BY <1>1, <1>2, <1>6, ReplicationAssumption
     DEF Typed, TodoHeld, LocalWrite, Local, localVars, NowMs, Everything
<1>7. ASSUME NEW c \in Replicas, NEW k \in db[c].conflicts, NEW v \in Contents,
             ResolveConflict(c, k, v)
      PROVE Typed' /\ TodoHeld'
  <2>1. k.urn \in Records
    BY <1>2 DEF Database, Conflict
  <2> QED BY <1>1, <1>2, <1>7, <2>1, ReplicationAssumption
          DEF Typed, TodoHeld, ResolveConflict, Local, localVars, NowMs, Everything
<1>8. ASSUME NEW c \in Caches, NEW r \in Records, PurgeEntity(c, r)
      PROVE Typed' /\ TodoHeld'
  BY <1>1, <1>8, ReplicationAssumption DEF Typed, TodoHeld, PurgeEntity, Local, localVars
<1> QED BY <1>3, <1>4, <1>5, <1>6, <1>7, <1>8 DEF Next, SyncNext

LEMMA CollectorPurge ==
  ASSUME NEW D, DOMAIN D = Caches, NEW a, NEW W, Held(D, a, W), NEW r \in Records
  PROVE  Held([D EXCEPT ![Collector] = Purge(D[Collector], r)], a, W)
<1> DEFINE d == D[Collector]
           x == Purge(d, r)
<1>1. Recorded(x, W) /\ x.journal = d.journal
  BY PurgeRecorded DEF Held
<1>2. Grows(d.journal, x.journal, 0)
  <2>1. d.journal \in Seq(Event)
    BY HeldDatabases
  <2> QED BY <1>1, <2>1 DEF Grows, Agree
<1> HIDE DEF x
<1> QED BY <1>1, <1>2, CollectorWrites DEF x

LEMMA SafeStep ==
  ASSUME Safe, Next PROVE Safe'
<1> DEFINE E == Everything
<1>1. Typed /\ TodoHeld /\ Held(db, applied, E) /\ DOMAIN db = Caches /\ DOMAIN applied = Replicas
  BY DEF Safe, Typed
<1>2. Typed' /\ TodoHeld'
  BY TypedStep
<1>3. /\ \A at : Now(E, E, at)
      /\ \A r \in Records, v \in Contents \cup {None}, at \in Nat : <<r, v, at>> \in E
  BY DEF Now, Everything
<1>4. \A c \in Replicas : /\ applied[c] \in Nat /\ applied[c] <= Len(Produced)
                         /\ applied[c] \in 0 .. Len(Produced)
                         /\ Follows(db[c], Produced, applied[c], E)
                         /\ applied = [applied EXCEPT ![c] = applied[c]]
  <2>1. Len(Produced) \in Nat
    BY <1>1, HeldDatabases DEF Produced
  <2> QED BY <1>1, <2>1 DEF Held, Produced, Typed
<1>5. Recorded(db[Collector], E) /\ Produced \in Seq(Event)
  BY <1>1, HeldDatabases DEF Held, Produced
<1> HIDE DEF E
<1>6. ASSUME NEW p \in Syncers, SyncStep(p), UNCHANGED <<applied, locals, touched, orphaned>>
      PROVE Held(db', applied', E)
  <2>1. runs[p].at \in Nat
    BY <1>1 DEF Typed, Run
  <2>2. CASE \E r \in Records : Capture(p, r)
    <3>1. PICK r \in Records : Capture(p, r)
      BY <2>2
    <3> DEFINE v == runs[p].snapshot[r]
               x == Captured(db[Collector], r, v, runs[p].at)
    <3>2. v \in Contents
      BY <1>1, <3>1 DEF TodoHeld, Capture, Typed, Run
    <3>3. db' = [db EXCEPT ![Collector] = x]
      BY <3>1 DEF Capture
    <3>4. Recorded(x, E) /\ Grows(db[Collector].journal, x.journal, runs[p].at)
      BY <1>3, <1>5, <2>1, <3>2, CaptureKeeps
    <3> HIDE DEF x
    <3> QED BY <1>1, <1>6, <3>3, <3>4, CollectorWrites
  <2>3. CASE Reconcile(p)
    <3> DEFINE x == MarkAbsent(db[Collector], runs[p].at)
    <3>1. db' = [db EXCEPT ![Collector] = x]
      BY <2>3 DEF Reconcile
    <3>2. \A r \in Unseen(db[Collector], runs[p].at) : <<r, None, runs[p].at>> \in E
      BY <1>3, <2>1 DEF Unseen
    <3>3. Recorded(x, E) /\ Grows(db[Collector].journal, x.journal, runs[p].at)
      BY <1>5, <2>1, <3>2, AbsentRecorded
    <3> HIDE DEF x
    <3> QED BY <1>1, <1>6, <3>1, <3>3, CollectorWrites
  <2>4. CASE UNCHANGED db
    BY <1>1, <1>6, <2>4
  <2> QED BY <1>6, <2>2, <2>3, <2>4 DEF SyncStep, Begin, TakeSnapshot, Complete, Abandon
<1>7. ASSUME NEW c \in Replicas, NEW through \in 1 .. Len(Produced), Import(c, through)
      PROVE Held(db', applied', E)
  <2> DEFINE x == ApplyEvents(db[c], SubSeq(Produced, applied[c] + 1, through))
  <2>1. /\ db' = [db EXCEPT ![c] = x] /\ applied' = [applied EXCEPT ![c] = through]
        /\ through \in applied[c] .. Len(Produced)
    BY <1>4, <1>7 DEF Import
  <2>2. Follows(x, Produced, through, E)
    BY <1>4, <1>5, <2>1, ImportFollows DEF Recorded, Logged, Produced
  <2> HIDE DEF x
  <2>3. through \in 0 .. Len(Produced)
    OBVIOUS
  <2> QED BY <1>1, <2>1, <2>2, <2>3, ReplicaWrites DEF Produced
<1>8. ASSUME NEW c \in Replicas, NEW r \in Records, NEW v \in Contents, LocalWrite(c, r, v)
      PROVE Held(db', applied', E)
  <2> DEFINE x == Upsert(db[c], r, v, clock', "sync", {})
  <2>1. db' = [db EXCEPT ![c] = x] /\ applied' = applied /\ clock' \in Nat
    BY <1>2, <1>8 DEF LocalWrite, Local, localVars, Typed
  <2>2. Follows(x, Produced, applied[c], E)
    BY <1>3, <1>4, <1>5, <2>1, WriteKeeps
  <2> HIDE DEF x
  <2>3. Held([db EXCEPT ![c] = x], [applied EXCEPT ![c] = applied[c]], E)
    BY <1>1, <1>4, <2>2, ReplicaWrites DEF Produced
  <2> QED BY <1>4, <2>1, <2>3
<1>9. ASSUME NEW c \in Replicas, NEW k \in db[c].conflicts, NEW v \in Contents,
             ResolveConflict(c, k, v)
      PROVE Held(db', applied', E)
  <2> DEFINE x == Resolve(db[c], k, v, clock')
  <2>1. /\ db' = [db EXCEPT ![c] = x] /\ applied' = applied /\ clock' \in Nat
        /\ CanResolve(db[c], k, v)
    BY <1>2, <1>9 DEF ResolveConflict, Local, localVars, Typed
  <2>2. k.urn \in Records
    <3>1. db[c] \in Database
      BY <1>4 DEF Follows, Sound
    <3> QED BY <3>1 DEF Database, Conflict
  <2>3. Follows(x, Produced, applied[c], E)
    BY <1>3, <1>4, <1>5, <2>1, <2>2, ResolveKeeps
  <2> HIDE DEF x
  <2>4. Held([db EXCEPT ![c] = x], [applied EXCEPT ![c] = applied[c]], E)
    BY <1>1, <1>4, <2>3, ReplicaWrites DEF Produced
  <2> QED BY <1>4, <2>1, <2>4
<1>10. ASSUME NEW c \in Caches, NEW r \in Records, PurgeEntity(c, r)
       PROVE Held(db', applied', E)
  <2> DEFINE x == Purge(db[c], r)
  <2>1. db' = [db EXCEPT ![c] = x] /\ applied' = applied
    BY <1>10 DEF PurgeEntity, Local, localVars
  <2>2. CASE c = Collector
    BY <1>1, <2>1, <2>2, CollectorPurge
  <2>3. CASE c \in Replicas
    <3>1. Follows(x, Produced, applied[c], E)
      BY <1>4, <1>5, <2>3, PurgeKeeps
    <3> HIDE DEF x
    <3>2. Held([db EXCEPT ![c] = x], [applied EXCEPT ![c] = applied[c]], E)
      BY <1>1, <1>4, <2>3, <3>1, ReplicaWrites DEF Produced
    <3> QED BY <1>4, <2>1, <2>3, <3>2
  <2> QED BY <2>2, <2>3 DEF Replicas
<1>11. ASSUME NEW r \in Records, NEW v \in Contents \cup {None}, SourceEdit(r, v),
              UNCHANGED <<applied, locals, touched, orphaned>>
       PROVE Held(db', applied', E)
  BY <1>1, <1>11 DEF SourceEdit
<1>12. Held(db', applied', E)
  BY <1>6, <1>7, <1>8, <1>9, <1>10, <1>11 DEF Next, SyncNext
<1> QED BY <1>2, <1>12 DEF Safe, E

(* One process at a time syncs. *********************************************)

By(W, t) == {w \in W : w[3] <= t}

\* What a run finds in the Collector's database was witnessed when it began, or by it.
RunsSeen ==
  \A p \in Syncers : runs[p].pc # "idle" =>
    runs[p].at <= clock /\ Recorded(db[Collector], By(witnessed, runs[p].at))

Seen == Timed(witnessed, clock) /\ Held(db, applied, witnessed) /\ RunsSeen

Orphans(O, c) == {r \in Records : <<c, r>> \in O}

\* A replica keeps the order of what it has replayed, and of its own writes.
InOrder(d, J, n, S, t) == Ranked(d, J, n, S) /\ RevisionsBy(d, t)

Ordered ==
  /\ InTimeOrder(Produced)
  /\ Ranked(db[Collector], <<>>, 0, {}) /\ db[Collector].conflicts = {}
  /\ \A c \in Replicas : InOrder(db[c], Produced, applied[c], Orphans(orphaned, c), clock)

Exact == Safe /\ Seen /\ Ordered

LEMMA ExactStart ==
  ASSUME Init PROVE Exact
<1>1. Safe
  BY SafeStart
<1>2. /\ EmptyDatabase \in Database /\ Recorded(EmptyDatabase, {})
      /\ \A J : Bindings(EmptyDatabase, J, 0)
  BY EmptyRecorded
<1>3. /\ db[Collector] = EmptyDatabase /\ \A c \in Replicas : db[c] = EmptyDatabase
      /\ \A c \in Replicas : applied[c] = 0
      /\ witnessed = {} /\ \A p \in Syncers : runs[p].pc = "idle"
  BY SyncAssumption DEF Init, SyncInit, Replicas, Idle
<1>4. Produced = <<>> /\ EmptyDatabase.conflicts = {}
  BY <1>3 DEF Produced, EmptyDatabase
<1>5. Held(db, applied, witnessed)
  BY <1>2, <1>3, <1>4 DEF Held, Recorded, Follows, Produced
<1>6. Seen
  BY <1>3, <1>5 DEF Seen, Timed, RunsSeen
<1>7. /\ \A r \in Records : EmptyDatabase.head[r] = None
      /\ \A r \in Records, v \in Contents : EmptyDatabase.revisions[r][v] = None
  BY DEF EmptyDatabase
<1>8. \A J, S, t : InOrder(EmptyDatabase, J, 0, S, t)
  BY <1>7 DEF InOrder, Ranked, Rank, RevisionsBy
<1>9. Ranked(EmptyDatabase, <<>>, 0, {}) /\ \A c \in Replicas : applied[c] = 0
  BY <1>3, <1>8 DEF InOrder
<1>10. Ordered
  BY <1>3, <1>4, <1>8, <1>9 DEF Ordered, InTimeOrder
<1> QED BY <1>1, <1>6, <1>10 DEF Exact

\* The clock only moves on.
LEMMA TimeGoesOn ==
  ASSUME Safe, Seen, NEW t \in Nat, clock <= t
  PROVE  /\ Timed(witnessed, t)
         /\ \A c \in Caches : RevisionsBy(db[c], clock) => RevisionsBy(db[c], t)
         /\ \A k \in 1 .. Len(Produced) : Produced[k].at <= t
         /\ Produced \in Seq(Event) /\ JournalFaithful(Produced, witnessed)
<1>1. Typed /\ Timed(witnessed, clock) /\ Held(db, applied, witnessed) /\ clock \in Nat
  BY DEF Safe, Seen, Typed
<1>2. \A w \in witnessed : w[3] \in Nat /\ w[3] <= clock
  BY <1>1 DEF Typed, Everything, Timed
<1>3. Timed(witnessed, t)
  BY <1>1, <1>2 DEF Timed
<1>4. ASSUME NEW c \in Caches, RevisionsBy(db[c], clock) PROVE RevisionsBy(db[c], t)
  <2>1. db[c] \in Database
    BY <1>1, HeldDatabases
  <2> QED BY <1>1, <1>4, <2>1, RevisionTypes DEF RevisionsBy
<1>5. Produced \in Seq(Event) /\ JournalFaithful(Produced, witnessed)
  BY <1>1, HeldDatabases DEF Held, Recorded, Logged, Produced
<1> QED BY <1>3, <1>4, <1>5, JournalTimes

\* Steps that leave the Collector's database alone.
LEMMA RunsKept ==
  ASSUME RunsSeen, Typed, db'[Collector] = db[Collector], witnessed \subseteq witnessed',
         clock' \in Nat, clock <= clock',
         \A q \in Syncers : runs'[q].pc # "idle" =>
           runs[q].pc # "idle" /\ runs'[q].at = runs[q].at
  PROVE  RunsSeen'
<1>1. ASSUME NEW q \in Syncers, runs'[q].pc # "idle"
      PROVE  runs'[q].at <= clock' /\ Recorded(db'[Collector], By(witnessed', runs'[q].at))
  <2>1. runs[q].at <= clock /\ Recorded(db[Collector], By(witnessed, runs[q].at))
        /\ runs'[q].at = runs[q].at
    BY <1>1 DEF RunsSeen
  <2>2. runs[q].at \in Nat /\ clock \in Nat
    BY DEF Typed, Run
  <2>3. By(witnessed, runs[q].at) \subseteq By(witnessed', runs[q].at)
    BY DEF By
  <2>4. Recorded(db[Collector], By(witnessed', runs[q].at))
    BY <2>1, <2>3, RecordedWider
  <2> QED BY <2>1, <2>2, <2>4
<1> QED BY <1>1 DEF RunsSeen

\* A step that no database sees.
LEMMA QuietExact ==
  ASSUME Exact, Safe', UNCHANGED <<db, applied, witnessed, orphaned>>,
         clock' \in Nat, clock <= clock', RunsSeen'
  PROVE  Exact'
<1>1. Safe /\ Seen /\ Ordered
  BY DEF Exact
<1>2. Timed(witnessed, clock') /\ \A c \in Caches : RevisionsBy(db[c], clock)
                                  => RevisionsBy(db[c], clock')
  BY <1>1, TimeGoesOn
<1>3. Seen'
  BY <1>1, <1>2 DEF Seen
<1>4. Produced' = Produced
  BY DEF Produced
<1>5. Ordered'
  BY <1>1, <1>2, <1>4 DEF Ordered, InOrder, Replicas
<1> QED BY <1>3, <1>5 DEF Exact

\* A step at the Collector: its events have one time, the latest of the journal.
LEMMA CollectorExact ==
  ASSUME Exact, Safe', NEW x, db' = [db EXCEPT ![Collector] = x],
         UNCHANGED <<applied, clock, orphaned>>, witnessed \subseteq witnessed',
         Timed(witnessed', clock), Recorded(x, witnessed'), NEW at \in Nat,
         Grows(Produced, x.journal, at), InTimeOrder(x.journal),
         Ranked(x, <<>>, 0, {}), x.conflicts = {}, RunsSeen'
  PROVE  Exact'
<1>1. Safe /\ Seen /\ Ordered /\ DOMAIN db = Caches /\ Held(db, applied, witnessed)
  BY DEF Exact, Safe, Typed, Seen
<1>2. Held(db', applied', witnessed')
  BY <1>1, CollectorWrites DEF Produced
<1>3. Seen'
  BY <1>2 DEF Seen
<1>4. db'[Collector] = x /\ Produced' = x.journal
      /\ \A c \in Replicas : db'[c] = db[c]
  BY <1>1, SyncAssumption DEF Produced, Replicas
<1>5. ASSUME NEW c \in Replicas
      PROVE InOrder(db[c], x.journal, applied[c], Orphans(orphaned, c), clock)
  <2>1. applied[c] \in 0 .. Len(Produced) /\ Produced \in Seq(Event)
    BY <1>1, HeldDatabases DEF Held, Produced
  <2>2. Agree(Produced, x.journal, applied[c]) /\ applied[c] \in Nat
    <3>1. Agree(Produced, x.journal, Len(Produced)) /\ Len(Produced) \in Nat
      BY <2>1 DEF Grows
    <3> QED BY <2>1, <3>1 DEF Agree
  <2>3. InOrder(db[c], Produced, applied[c], Orphans(orphaned, c), clock)
    BY <1>1 DEF Ordered
  <2> QED BY <2>2, <2>3, RankedWider DEF InOrder
<1>6. Ordered'
  BY <1>4, <1>5 DEF Ordered
<1> QED BY <1>3, <1>6 DEF Exact

\* A step at a replica.
LEMMA ReplicaExact ==
  ASSUME Exact, Safe', NEW c \in Replicas, NEW x, NEW n \in 0 .. Len(Produced),
         db' = [db EXCEPT ![c] = x], applied' = [applied EXCEPT ![c] = n], UNCHANGED runs,
         clock' \in Nat, clock <= clock',
         witnessed \subseteq witnessed', Timed(witnessed', clock'),
         Follows(x, Produced, n, witnessed'),
         \A e \in Replicas \ {c} : Orphans(orphaned', e) = Orphans(orphaned, e),
         InOrder(x, Produced, n, Orphans(orphaned', c), clock')
  PROVE  Exact'
<1>1. /\ Safe /\ Seen /\ Ordered /\ Typed /\ DOMAIN db = Caches /\ DOMAIN applied = Replicas
      /\ Held(db, applied, witnessed)
  BY DEF Exact, Safe, Typed, Seen
<1>2. Held(db', applied', witnessed')
  BY <1>1, ReplicaWrites DEF Produced
<1>3. /\ db'[Collector] = db[Collector] /\ db'[c] = x /\ applied'[c] = n
      /\ \A e \in Replicas \ {c} : db'[e] = db[e] /\ applied'[e] = applied[e]
  BY <1>1 DEF Replicas
<1>4. RunsSeen'
  BY <1>1, <1>3, RunsKept DEF Seen
<1>5. Seen'
  BY <1>2, <1>4 DEF Seen
<1>6. ASSUME NEW e \in Replicas \ {c}
      PROVE InOrder(db[e], Produced, applied[e], Orphans(orphaned, e), clock')
  <2>1. RevisionsBy(db[e], clock) => RevisionsBy(db[e], clock')
    BY <1>1, TimeGoesOn DEF Replicas
  <2> QED BY <1>1, <2>1 DEF Ordered, InOrder
<1>7. Produced' = Produced
  BY <1>3 DEF Produced
<1>8. Ordered'
  BY <1>1, <1>3, <1>6, <1>7 DEF Ordered
<1> QED BY <1>5, <1>8 DEF Exact

LEMMA CaptureExact ==
  ASSUME Exact, Safe', OneSyncer, NEW p \in Syncers, NEW r \in Records, Capture(p, r),
         UNCHANGED <<applied, orphaned>>
  PROVE  Exact'
<1> DEFINE at == runs[p].at
           v == runs[p].snapshot[r]
           d == db[Collector]
           x == Captured(d, r, v, at)
           W == By(witnessed, at)
           V == By(witnessed', at)
<1>1. /\ Safe /\ Seen /\ Ordered /\ Typed /\ TodoHeld /\ DOMAIN db = Caches
  BY DEF Exact, Safe, Typed, Seen
<1>2. /\ runs[p].pc = "extracting" /\ r \in runs[p].todo
      /\ db' = [db EXCEPT ![Collector] = x]
      /\ runs' = [runs EXCEPT ![p].todo = runs[p].todo \ {r}]
      /\ witnessed' = witnessed \cup {<<r, v, at>>} /\ clock' = clock
  BY DEF Capture
<1>3. at \in Nat /\ v \in Contents /\ clock \in Nat
  BY <1>1, <1>2 DEF Typed, TodoHeld, Run
<1>4. at <= clock /\ Recorded(d, W)
  BY <1>1, <1>2 DEF Seen, RunsSeen
<1>5. Timed(W, at) /\ W \subseteq V /\ <<r, v, at>> \in V /\ V \subseteq witnessed'
  BY <1>2, <1>3 DEF By, Timed
<1>6. Timed(witnessed', clock)
  BY <1>1, <1>2, <1>4 DEF Seen, Timed
<1> HIDE DEF W, V
<1>7. /\ Recorded(x, V) /\ Grows(d.journal, x.journal, at)
      /\ Ranked(x, <<>>, 0, {}) /\ x.conflicts = {}
  BY <1>1, <1>3, <1>4, <1>5, CaptureKeeps DEF Now, Ordered
<1> HIDE DEF x
<1>8. d.journal \in Seq(Event) /\ x.journal \in Seq(Event) /\ JournalFaithful(d.journal, W)
  BY <1>4, <1>7 DEF Recorded, Sound, Logged, Database
<1>9. \A k \in 1 .. Len(d.journal) : d.journal[k].at <= at
  BY <1>3, <1>5, <1>8, JournalTimes
<1>10. InTimeOrder(x.journal)
  BY <1>1, <1>3, <1>7, <1>8, <1>9, GrowsInOrder DEF Ordered, Produced
<1>11. Recorded(x, witnessed')
  BY <1>5, <1>7, RecordedWider
<1>12. RunsSeen'
  <2>1. \A q \in Syncers : q = p
    BY DEF OneSyncer
  <2>2. runs'[p].at = at
    BY <1>1, <1>2 DEF Typed, Run
  <2>3. db'[Collector] = x
    BY <1>1, <1>2, SyncAssumption
  <2> QED BY <1>2, <1>4, <1>7, <2>1, <2>2, <2>3 DEF RunsSeen, V
<1> QED BY <1>2, <1>3, <1>6, <1>7, <1>10, <1>11, <1>12, CollectorExact DEF Produced

LEMMA ReconcileExact ==
  ASSUME Exact, Safe', OneSyncer, NEW p \in Syncers, Reconcile(p), UNCHANGED <<applied, orphaned>>
  PROVE  Exact'
<1> DEFINE at == runs[p].at
           d == db[Collector]
           x == MarkAbsent(d, at)
           W == By(witnessed, at)
           V == By(witnessed', at)
<1>1. /\ Safe /\ Seen /\ Ordered /\ Typed /\ DOMAIN db = Caches
  BY DEF Exact, Safe, Typed, Seen
<1>2. /\ runs[p].pc = "extracting"
      /\ db' = [db EXCEPT ![Collector] = x]
      /\ runs' = [runs EXCEPT ![p].pc = "reconciled"]
      /\ witnessed' = witnessed \cup {<<r, None, at>> : r \in Unseen(d, at)} /\ clock' = clock
  BY DEF Reconcile
<1>3. at \in Nat /\ clock \in Nat
  BY <1>1, <1>2 DEF Typed, Run
<1>4. at <= clock /\ Recorded(d, W)
  BY <1>1, <1>2 DEF Seen, RunsSeen
<1>5. /\ Timed(W, at) /\ W \subseteq V /\ V \subseteq witnessed'
      /\ \A r \in Unseen(d, at) : <<r, None, at>> \in V
  BY <1>2, <1>3 DEF By, Timed
<1>6. Timed(witnessed', clock)
  BY <1>1, <1>2, <1>4 DEF Seen, Timed
<1> HIDE DEF W, V
<1>7. Recorded(x, V) /\ SameHeads(d, x) /\ Grows(d.journal, x.journal, at)
  <2>1. Recorded(d, V)
    BY <1>4, <1>5, RecordedWider
  <2> QED BY <1>3, <1>5, <2>1, AbsentRecorded
<1> HIDE DEF x
<1>8. Ranked(x, <<>>, 0, {}) /\ x.conflicts = {}
  BY <1>1, <1>7, RankedAlike DEF Ordered, SameHeads
<1>9. d.journal \in Seq(Event) /\ x.journal \in Seq(Event) /\ JournalFaithful(d.journal, W)
  BY <1>4, <1>7 DEF Recorded, Sound, Logged, Database
<1>10. \A k \in 1 .. Len(d.journal) : d.journal[k].at <= at
  BY <1>3, <1>5, <1>9, JournalTimes
<1>11. InTimeOrder(x.journal)
  BY <1>1, <1>3, <1>7, <1>9, <1>10, GrowsInOrder DEF Ordered, Produced
<1>12. Recorded(x, witnessed')
  BY <1>5, <1>7, RecordedWider
<1>13. RunsSeen'
  <2>1. \A q \in Syncers : q = p
    BY DEF OneSyncer
  <2>2. runs'[p].at = at
    BY <1>1, <1>2 DEF Typed, Run
  <2>3. db'[Collector] = x
    BY <1>1, <1>2, SyncAssumption
  <2> QED BY <1>2, <1>4, <1>7, <2>1, <2>2, <2>3 DEF RunsSeen, V
<1> QED BY <1>2, <1>3, <1>6, <1>7, <1>8, <1>11, <1>12, <1>13, CollectorExact DEF Produced

LEMMA PurgeExact ==
  ASSUME Exact, Safe', NEW c \in Caches, NEW r \in Records, PurgeEntity(c, r)
  PROVE  Exact'
<1> DEFINE d == db[c]
           x == Purge(d, r)
<1>1. /\ Safe /\ Seen /\ Ordered /\ Typed /\ DOMAIN db = Caches /\ DOMAIN applied = Replicas
      /\ clock \in Nat /\ Held(db, applied, witnessed) /\ Timed(witnessed, clock)
  BY DEF Exact, Safe, Typed, Seen
<1>2. /\ db' = [db EXCEPT ![c] = x]
      /\ UNCHANGED <<clock, witnessed, orphaned, runs, applied>>
  BY DEF PurgeEntity, Local, localVars
<1>3. d \in Database /\ Produced \in Seq(Event)
  BY <1>1, HeldDatabases DEF Produced
<1>4. CASE c = Collector
  <2>1. \A W : Recorded(d, W) => Recorded(x, W)
    BY PurgeRecorded
  <2>2. Recorded(d, witnessed) /\ x.journal = Produced
    BY <1>1, <1>4, PurgeRecorded DEF Held, Produced
  <2>3. Ranked(x, <<>>, 0, {}) /\ x.conflicts = {}
    <3>1. <<>> \in Seq(Event) /\ 0 \in Nat /\ 0 <= Len(<<>>)
      OBVIOUS
    <3> QED BY <1>1, <1>3, <1>4, <3>1, PurgeRanked DEF Ordered
  <2> HIDE DEF x
  <2>4. RunsSeen'
    <3>1. db'[Collector] = x
      BY <1>1, <1>2, <1>4, SyncAssumption
    <3> QED BY <1>1, <1>2, <1>4, <2>1, <3>1 DEF Seen, RunsSeen
  <2>5. Grows(Produced, x.journal, 0) /\ InTimeOrder(x.journal)
    BY <1>1, <1>3, <2>2 DEF Ordered, Grows, Agree
  <2> QED BY <1>1, <1>2, <1>4, <2>1, <2>2, <2>3, <2>4, <2>5, CollectorExact
<1>5. CASE c \in Replicas
  <2> DEFINE n == applied[c]
             S == Orphans(orphaned, c)
  <2>1. n \in 0 .. Len(Produced) /\ Follows(d, Produced, n, witnessed)
        /\ Ranked(d, Produced, n, S) /\ RevisionsBy(d, clock)
    BY <1>1, <1>5 DEF Held, Ordered, InOrder, Produced
  <2>2. n \in Nat /\ n <= Len(Produced)
    BY <1>3, <2>1
  <2>3. Follows(x, Produced, n, witnessed) /\ Ranked(x, Produced, n, S) /\ RevisionsBy(x, clock)
    <3> HIDE DEF n, S
    <3> QED BY <1>1, <1>3, <2>1, <2>2, PurgeKeeps
  <2>4. applied' = [applied EXCEPT ![c] = n]
    BY <1>1, <1>2, <1>5 DEF Typed
  <2> HIDE DEF x, n
  <2>5. /\ clock' \in Nat /\ clock <= clock' /\ witnessed \subseteq witnessed'
        /\ Timed(witnessed', clock') /\ Follows(x, Produced, n, witnessed')
        /\ \A e : Orphans(orphaned', e) = Orphans(orphaned, e)
        /\ InOrder(x, Produced, n, Orphans(orphaned', c), clock')
    BY <1>1, <1>2, <2>3 DEF InOrder
  <2> QED BY <1>2, <1>5, <2>1, <2>4, <2>5, ReplicaExact
<1> QED BY <1>4, <1>5 DEF Replicas

LEMMA ImportExact ==
  ASSUME Exact, Safe', NEW c \in Replicas, NEW through \in 1 .. Len(Produced), Import(c, through)
  PROVE  Exact'
<1> DEFINE n == applied[c]
           d == db[c]
           S == Orphans(orphaned, c)
           x == ApplyEvents(d, SubSeq(Produced, n + 1, through))
<1>1. /\ Safe /\ Seen /\ Ordered /\ Typed /\ clock \in Nat /\ Held(db, applied, witnessed)
      /\ Timed(witnessed, clock)
  BY DEF Exact, Safe, Typed, Seen
<1>2. /\ db' = [db EXCEPT ![c] = x] /\ applied' = [applied EXCEPT ![c] = through]
      /\ through \in n + 1 .. Len(Produced)
      /\ UNCHANGED <<clock, witnessed, orphaned, runs>>
  BY DEF Import
<1>3. /\ Produced \in Seq(Event) /\ JournalFaithful(Produced, witnessed)
      /\ \A k \in 1 .. Len(Produced) : Produced[k].at <= clock
  BY <1>1, TimeGoesOn
<1>4. /\ n \in Nat /\ Follows(d, Produced, n, witnessed)
      /\ Ranked(d, Produced, n, S) /\ RevisionsBy(d, clock) /\ InTimeOrder(Produced)
  BY <1>1, <1>3 DEF Held, Ordered, InOrder, Produced
<1>5. through \in n .. Len(Produced) /\ through \in 0 .. Len(Produced)
  BY <1>2, <1>3, <1>4
<1> HIDE DEF n, S
<1>6. Follows(x, Produced, through, witnessed)
  BY <1>3, <1>4, <1>5, ImportFollows
<1>7. InOrder(x, Produced, through, S, clock)
  BY <1>1, <1>3, <1>4, <1>5, ImportRanked DEF InOrder
<1> HIDE DEF x
<1>8. /\ clock' \in Nat /\ clock <= clock' /\ witnessed \subseteq witnessed'
      /\ Timed(witnessed', clock') /\ Follows(x, Produced, through, witnessed')
      /\ \A e : Orphans(orphaned', e) = Orphans(orphaned, e)
      /\ InOrder(x, Produced, through, Orphans(orphaned', c), clock')
  BY <1>1, <1>2, <1>6, <1>7 DEF S
<1> QED BY <1>2, <1>5, <1>8, ReplicaExact

LEMMA LocalWriteExact ==
  ASSUME Exact, Safe', NEW c \in Replicas, NEW r \in Records, NEW v \in Contents,
         LocalWrite(c, r, v)
  PROVE  Exact'
<1> DEFINE n == applied[c]
           d == db[c]
           S == Orphans(orphaned, c)
           at == clock'
           V == witnessed'
           x == Upsert(d, r, v, at, "sync", {})
<1>1. /\ Safe /\ Seen /\ Ordered /\ Typed /\ clock \in Nat /\ Held(db, applied, witnessed)
      /\ Timed(witnessed, clock) /\ DOMAIN applied = Replicas
  BY DEF Exact, Safe, Typed, Seen
<1>2. /\ db' = [db EXCEPT ![c] = x] /\ V = witnessed \cup {<<r, v, at>>}
      /\ at \in Nat /\ clock <= at
      /\ UNCHANGED <<applied, runs, orphaned>>
  BY <1>1 DEF LocalWrite, Local, localVars, NowMs
<1>3. /\ Produced \in Seq(Event) /\ Timed(witnessed, at)
      /\ \A k \in 1 .. Len(Produced) : Produced[k].at <= at
      /\ RevisionsBy(d, clock) => RevisionsBy(d, at)
  BY <1>1, <1>2, TimeGoesOn DEF Replicas
<1>4. /\ n \in Nat /\ n <= Len(Produced) /\ n \in 0 .. Len(Produced)
      /\ Follows(d, Produced, n, witnessed)
      /\ Ranked(d, Produced, n, S) /\ RevisionsBy(d, at)
  BY <1>1, <1>3 DEF Held, Ordered, InOrder, Produced
<1>5. Now(witnessed, V, at) /\ <<r, v, at>> \in V /\ Timed(V, at)
  BY <1>2, <1>3 DEF Now, Timed
<1>6. \A k \in 1 .. n : Produced[k].at <= at
  BY <1>3, <1>4
<1>7. applied' = [applied EXCEPT ![c] = n]
  BY <1>1, <1>2 DEF Typed
<1> HIDE DEF n, S, V, d
<1>8. Follows(x, Produced, n, V) /\ Ranked(x, Produced, n, S) /\ RevisionsBy(x, at)
  BY <1>2, <1>3, <1>4, <1>5, <1>6, WriteKeeps
<1> HIDE DEF x
<1> QED BY <1>2, <1>4, <1>5, <1>7, <1>8, ReplicaExact DEF InOrder, S, V

LEMMA ResolveExact ==
  ASSUME Exact, Safe', NEW c \in Replicas, NEW k \in db[c].conflicts, NEW v \in Contents,
         ResolveConflict(c, k, v)
  PROVE  Exact'
<1> DEFINE n == applied[c]
           d == db[c]
           S == Orphans(orphaned, c)
           T == Orphans(orphaned', c)
           at == clock'
           V == witnessed'
           x == Resolve(d, k, v, at)
<1>1. /\ Safe /\ Seen /\ Ordered /\ Typed /\ clock \in Nat /\ Held(db, applied, witnessed)
      /\ Timed(witnessed, clock) /\ DOMAIN applied = Replicas
  BY DEF Exact, Safe, Typed, Seen
<1>2. /\ db' = [db EXCEPT ![c] = x] /\ V = witnessed \cup {<<k.urn, v, at>>}
      /\ at \in Nat /\ clock <= at /\ CanResolve(d, k, v)
      /\ UNCHANGED <<applied, runs>>
      /\ orphaned' = IF d.head[k.urn] = None THEN orphaned \cup {<<c, k.urn>>} ELSE orphaned
  BY <1>1 DEF ResolveConflict, Local, localVars, NowMs
<1>3. /\ Produced \in Seq(Event) /\ Timed(witnessed, at)
      /\ \A l \in 1 .. Len(Produced) : Produced[l].at <= at
      /\ RevisionsBy(d, clock) => RevisionsBy(d, at)
  BY <1>1, <1>2, TimeGoesOn DEF Replicas
<1>4. /\ n \in Nat /\ n <= Len(Produced) /\ n \in 0 .. Len(Produced)
      /\ Follows(d, Produced, n, witnessed)
      /\ Ranked(d, Produced, n, S) /\ RevisionsBy(d, at)
  BY <1>1, <1>3 DEF Held, Ordered, InOrder, Produced
<1>5. k.urn \in Records
  <2>1. d \in Database
    BY <1>4 DEF Follows, Sound
  <2> QED BY <2>1 DEF Database, Conflict
<1>6. Now(witnessed, V, at) /\ <<k.urn, v, at>> \in V /\ Timed(V, at)
  BY <1>2, <1>3 DEF Now, Timed
<1>7. \A l \in 1 .. n : Produced[l].at <= at
  BY <1>3, <1>4
<1>8. applied' = [applied EXCEPT ![c] = n]
  BY <1>1, <1>2 DEF Typed
<1>9. /\ S \subseteq T /\ (d.head[k.urn] = None => k.urn \in T)
      /\ \A e \in Replicas \ {c} : Orphans(orphaned', e) = Orphans(orphaned, e)
  BY <1>2, <1>5 DEF Orphans
<1> HIDE DEF n, S, T, V, d
<1>10. Follows(x, Produced, n, V) /\ Ranked(x, Produced, n, T) /\ RevisionsBy(x, at)
  BY <1>2, <1>3, <1>4, <1>5, <1>6, <1>7, <1>9, ResolveKeeps
<1> HIDE DEF x
<1> QED BY <1>2, <1>4, <1>6, <1>8, <1>9, <1>10, ReplicaExact DEF InOrder, T, V

\* A step of a run that writes no row.
LEMMA QuietRunExact ==
  ASSUME Exact, Safe', OneSyncer, NEW p \in Syncers, UNCHANGED <<applied, orphaned>>,
         \/ Begin(p)
         \/ \E failed \in SUBSET Faulty : TakeSnapshot(p, failed)
         \/ Complete(p) \/ Abandon(p)
  PROVE  Exact'
<1>1. Safe /\ Seen /\ Typed /\ clock \in Nat /\ RunsSeen /\ DOMAIN runs = Syncers
      /\ Held(db, applied, witnessed) /\ Timed(witnessed, clock)
  BY DEF Exact, Safe, Typed, Seen
<1>2. UNCHANGED <<db, witnessed>> /\ clock' \in {clock, clock + 1}
  BY DEF Begin, TakeSnapshot, Complete, Abandon
<1>3. CASE Begin(p)
  <2>1. runs' = [runs EXCEPT ![p] = Started(clock')] /\ clock' = clock + 1
    BY <1>3 DEF Begin, Started
  <2>2. clock' \in Nat /\ clock <= clock'
    BY <1>1, <2>1
  <2>3. runs'[p].at = clock' /\ \A q \in Syncers : q = p
    BY <1>1, <2>1, <2>2, StartedRun DEF OneSyncer
  <2>4. Timed(witnessed, clock')
    BY <1>1, <2>2, TimeGoesOn
  <2>5. By(witnessed, clock') = witnessed
    BY <2>4 DEF By, Timed
  <2>6. RunsSeen'
    BY <1>1, <1>2, <2>2, <2>3, <2>5 DEF RunsSeen, Held
  <2> QED BY <1>2, <2>2, <2>6, QuietExact
<1>4. CASE (\E failed \in SUBSET Faulty : TakeSnapshot(p, failed)) \/ Complete(p) \/ Abandon(p)
  <2>1. clock' = clock /\ clock <= clock'
    <3>1. clock' = clock
      BY <1>4 DEF TakeSnapshot, Complete, Abandon
    <3> QED BY <1>1, <3>1
  <2>2. \A q \in Syncers : runs'[q].pc # "idle" =>
          runs[q].pc # "idle" /\ runs'[q].at = runs[q].at
    <3>1. CASE \E failed \in SUBSET Faulty : TakeSnapshot(p, failed)
      <4>1. runs[p] \in Run
        BY <1>1 DEF Typed
      <4>2. \E s, t, f : runs[p].pc = "started" /\
              runs' = [runs EXCEPT ![p] = [runs[p] EXCEPT !.pc = "extracting", !.snapshot = s,
                                                          !.todo = t, !.failed = f]]
        BY <3>1 DEF TakeSnapshot
      <4>3. \A s, t, f : [runs[p] EXCEPT !.pc = "extracting", !.snapshot = s,
                                         !.todo = t, !.failed = f].at = runs[p].at
        BY <4>1 DEF Run
      <4> QED BY <1>1, <4>2, <4>3
    <3>2. CASE Complete(p) \/ Abandon(p)
      BY <1>1, <3>2 DEF Complete, Abandon, Idle
    <3> QED BY <1>4, <3>1, <3>2
  <2>3. RunsSeen'
    BY <1>1, <1>2, <2>1, <2>2, RunsKept
  <2> QED BY <1>1, <1>2, <2>1, <2>3, QuietExact
<1> QED BY <1>3, <1>4

LEMMA ExactStep ==
  ASSUME Exact, OneSyncer, [Next]_vars PROVE Exact'
<1>1. Safe /\ Typed /\ RunsSeen /\ clock \in Nat
  BY DEF Exact, Safe, Typed, Seen
<1>2. CASE UNCHANGED vars
  BY <1>2 DEF vars, syncVars, Exact, Safe, Typed, TodoHeld, Seen, RunsSeen, Ordered, Produced
<1>3. CASE Next
  <2>1. Safe'
    BY <1>1, <1>3, SafeStep
  <2>2. ASSUME NEW p \in Syncers, SyncStep(p), UNCHANGED <<applied, locals, touched, orphaned>>
        PROVE Exact'
    BY <2>1, <2>2, CaptureExact, ReconcileExact, QuietRunExact DEF SyncStep
  <2>3. ASSUME NEW r \in Records, NEW v \in Contents \cup {None}, SourceEdit(r, v),
               UNCHANGED <<applied, locals, touched, orphaned>>
        PROVE Exact'
    <3>1. UNCHANGED <<db, clock, runs, witnessed>> /\ clock <= clock'
      BY <1>1, <2>3 DEF SourceEdit
    <3>2. RunsSeen'
      BY <1>1, <3>1 DEF RunsSeen
    <3> QED BY <1>1, <2>1, <2>3, <3>1, <3>2, QuietExact
  <2> QED BY <1>3, <2>1, <2>2, <2>3, ImportExact, LocalWriteExact, ResolveExact, PurgeExact
          DEF Next, SyncNext
<1> QED BY <1>2, <1>3

(* Theorems. ****************************************************************)

LEMMA SafeInvariance == Spec => []Safe
<1>1. Init => Safe
  BY SafeStart
<1>2. Safe /\ [Next]_vars => Safe'
  <2>1. Safe /\ UNCHANGED vars => Safe'
    BY DEF vars, syncVars, Safe, Typed, TodoHeld
  <2> QED BY <2>1, SafeStep
<1> QED BY <1>1, <1>2, PTL DEF Spec

LEMMA ExactInvariance ==
  ASSUME OneSyncer
  PROVE  Spec => []Exact
<1>1. Init => Exact
  BY ExactStart
<1>2. Exact /\ [Next]_vars => Exact'
  BY ExactStep
<1> QED BY <1>1, <1>2, PTL DEF Spec

\* Whatever the processes do, every cache holds a database: every operation of the store,
\* and every replay of a journal into another cache, returns one.
THEOREM TypeCorrect == Spec => []TypeOK
<1>1. Safe => TypeOK
  <2> SUFFICES ASSUME Safe PROVE TypeOK
    OBVIOUS
  <2>1. \A c \in Caches : db[c] \in Database
    BY HeldDatabases DEF Safe
  <2> QED BY <2>1 DEF Safe, Typed, TypeOK, SyncTypeOK, IsDatabase, Everything
<1> QED BY <1>1, SafeInvariance, PTL

\* The index of imported bindings says of every key that is not marked dirty what a lookup
\* would say: no write of the store forgets to mark one (the triggers of import_ranges.py).
THEOREM IndexIsCoherent == Spec => []TranslationCoherent
<1>1. Safe => TranslationCoherent
  <2> SUFFICES ASSUME Safe, NEW c \in Replicas
               PROVE /\ \A r \in Records \ db[c].dirty : r \in db[c].eligible <=> HeadMatches(db[c], r)
                     /\ \A i \in DOMAIN db[c].evidence \ db[c].dirtyIds :
                          i \in db[c].eligibleIds <=> EvidenceMatches(db[c], i)
    BY DEF TranslationCoherent
  <2>1. Sound(db[c], Everything)
    BY DEF Safe, Held, Follows
  <2> QED BY <2>1 DEF Sound, RecordsIndexed, EvidenceIndexed
<1> QED BY <1>1, SafeInvariance, PTL

\* The next batch, however long it is, can always be imported (apply_events).
THEOREM ReplayIsNeverBlocked == Spec => []ReplayNeverBlocked
<1>1. Safe => ReplayNeverBlocked
  <2> SUFFICES ASSUME Safe, NEW c \in Replicas, NEW through \in (applied[c] + 1) .. Len(Produced)
               PROVE ApplyEvents(db[c], SubSeq(Produced, applied[c] + 1, through)) # None
    BY DEF ReplayNeverBlocked
  <2>1. Held(db, applied, Everything) /\ applied[c] \in Nat
    BY DEF Safe, Typed
  <2>2. /\ Follows(db[c], Produced, applied[c], Everything) /\ Produced \in Seq(Event)
        /\ JournalFaithful(Produced, Everything)
    BY <2>1, HeldDatabases DEF Held, Recorded, Logged, Produced
  <2>3. through \in applied[c] .. Len(Produced)
    BY <2>1
  <2> QED BY <2>1, <2>2, <2>3, ImportFollows
<1> QED BY <1>1, SafeInvariance, PTL

\* An import replaces a head only by one whose producer had the same before: a head that a
\* replica wrote itself stays, beside a conflict (_upsert with origin "import").
THEOREM EditsSurviveImports == Spec => LocalEditsSurvive
<1> DEFINE Kept(c, r) ==
      /\ applied'[c] # applied[c]
      /\ db[c].head[r] # None /\ db'[c].head[r].digest # db[c].head[r].digest
      => \E i \in 1 .. applied'[c] : /\ Produced[i].op = "record" /\ Produced[i].urn = r
                                     /\ Produced[i].digest = db[c].head[r].digest
<1>1. ASSUME Safe, Next, NEW c \in Replicas, NEW r \in Records PROVE Kept(c, r)
  <2>1. CASE \E e \in Replicas : \E through \in 1 .. Len(Produced) : Import(e, through)
    <3>1. PICK e \in Replicas : \E through \in 1 .. Len(Produced) : Import(e, through)
      BY <2>1
    <3>2. PICK through \in 1 .. Len(Produced) : Import(e, through)
      BY <3>1
    <3>3. /\ Held(db, applied, Everything) /\ DOMAIN db = Caches /\ DOMAIN applied = Replicas
          /\ applied[e] \in Nat
      BY <1>1 DEF Safe, Typed
    <3> DEFINE x == ApplyEvents(db[e], SubSeq(Produced, applied[e] + 1, through))
    <3>4. /\ db' = [db EXCEPT ![e] = x] /\ applied' = [applied EXCEPT ![e] = through]
          /\ through \in applied[e] .. Len(Produced)
      BY <3>2, <3>3 DEF Import
    <3>5. /\ Follows(db[e], Produced, applied[e], Everything) /\ Produced \in Seq(Event)
          /\ JournalFaithful(Produced, Everything)
      BY <3>3, HeldDatabases DEF Held, Recorded, Logged, Produced
    <3>6. HeadsLast(db[e], x, Produced, through)
      BY <3>3, <3>4, <3>5, ImportFollows
    <3> HIDE DEF x
    <3>7. CASE c = e
      <4>1. db'[c] = x /\ applied'[c] = through
        BY <3>3, <3>4, <3>7 DEF Replicas
      <4> QED BY <3>6, <3>7, <4>1 DEF HeadsLast, RecordAt
    <3>8. CASE c # e
      BY <3>4, <3>8
    <3> QED BY <3>7, <3>8
  <2>2. CASE UNCHANGED applied
    BY <2>2
  <2> QED BY <1>1, <2>1, <2>2
          DEF Next, LocalWrite, ResolveConflict, PurgeEntity, Local, localVars
<1>2. Safe /\ [Next]_vars => [\A c \in Replicas, r \in Records : Kept(c, r)]_vars
  BY <1>1
<1>3. [\A c \in Replicas, r \in Records : Kept(c, r)]_vars <=>
      [\A c \in Replicas, r \in Records :
         /\ applied'[c] # applied[c]
         /\ db[c].head[r] # None /\ db'[c].head[r].digest # db[c].head[r].digest
         => \E i \in 1..applied'[c] : /\ Produced[i].op = "record" /\ Produced[i].urn = r
                                      /\ Produced[i].digest = db[c].head[r].digest]_vars
  OBVIOUS
<1> QED BY <1>2, <1>3, SafeInvariance, PTL DEF Spec, LocalEditsSurvive

\* While one process at a time syncs, the time that a cache gives for a head or an
\* observation is one at which a run saw that content, or somebody chose it.
THEOREM TimesAreWitnessed ==
  ASSUME OneSyncer
  PROVE  Spec => []FreshnessWitnessed
<1>1. Exact => FreshnessWitnessed
  <2> SUFFICES ASSUME Exact PROVE FreshnessWitnessed
    OBVIOUS
  <2>1. \A c \in Caches : Fresh(db[c], witnessed)
    BY HeldDatabases DEF Exact, Seen, Sound
  <2> QED BY <2>1 DEF FreshnessWitnessed, Fresh, SightedContent
<1> QED BY <1>1, ExactInvariance, PTL

\* While one process at a time syncs, no cache stores a revision of a record that is later
\* than its head, unless a conflict about the record is open, or was resolved with no head
\* stored (_upsert, _add_revision, set_head).
THEOREM HeadsAreMostRecent ==
  ASSUME OneSyncer
  PROVE  Spec => []HeadIsMostRecent
<1>1. Exact => HeadIsMostRecent
  <2> SUFFICES ASSUME Exact, NEW c \in Caches, NEW r \in Records, NEW v \in Contents,
                      db[c].head[r] # None, db[c].revisions[r][v] # None,
                      ~Disputed(c, r), <<c, r>> \notin orphaned
               PROVE  db[c].revisions[r][v].at <= EffectiveTime(db[c], r)
    BY DEF HeadIsMostRecent
  <2>1. ~HasConflict(db[c], r)
    BY DEF Disputed, HasConflict
  <2>2. CASE c = Collector
    BY <2>1, <2>2 DEF Exact, Ordered, Ranked, Rank
  <2>3. CASE c \in Replicas
    <3>1. Ranked(db[c], Produced, applied[c], Orphans(orphaned, c)) /\ r \notin Orphans(orphaned, c)
      BY <2>3 DEF Exact, Ordered, InOrder, Orphans
    <3> QED BY <2>1, <3>1 DEF Ranked, Rank
  <2> QED BY <2>2, <2>3 DEF Replicas
<1> QED BY <1>1, ExactInvariance, PTL

(* What the journal tells of one record. ************************************)

\* What a reader of the journal knows of one record: its head and when it was last seen,
\* its revisions, and what its observation said last, under which id (0 before one).
View ==
  [head : Contents \cup {None}, time : Nat, revisions : [Contents -> Revision \cup {None}],
   fingerprint : Contents \cup {None}, present : Presence \cup {None}, seen : Nat, id : Nat]

Blank == [head |-> None, time |-> 0, revisions |-> [v \in Contents |-> None],
          fingerprint |-> None, present |-> None, seen |-> 0, id |-> 0]

\* _add_revision of content that is current, as a function of the record's revisions.
Added(q, v, at, s) ==
  [w \in Contents |->
     IF w # v THEN q[w]
     ELSE IF q[v] = None THEN [at |-> at, supersedes |-> s, body |-> at]
     ELSE IF q[v].at < at THEN [q[v] EXCEPT !.at = at, !.supersedes = s]
     ELSE q[v]]

About(e, w, r) == IF e.op = "observation_refresh" THEN e.id = w.id ELSE e.urn = r

NextView(w, e) ==
  CASE e.op = "record" ->
         [w EXCEPT !.head = e.digest, !.time = e.at,
                   !.revisions = Added(w.revisions, e.digest, e.at, e.previous)]
    [] e.op = "revision" -> w
    [] e.op = "record_refresh" -> [w EXCEPT !.time = Later(w.time, e.at)]
    [] e.op = "observation" ->
         [w EXCEPT !.id = e.id, !.fingerprint = e.fingerprint, !.present = e.present,
                   !.seen = e.at]
    [] e.op = "observation_refresh" -> [w EXCEPT !.seen = Later(w.seen, e.at)]

\* An event that fits what was told before: a head event replaces the head there was, by
\* another content and at no earlier time; a revision event tells nothing new; an
\* observation keeps its id.
Fits(w, e) ==
  /\ e.op = "record" => /\ e.previous = w.head /\ e.digest # w.head
                        /\ w.head # None => w.time <= e.at
  /\ e.op = "revision" =>
       w.revisions[e.digest] # None /\ e.at <= w.revisions[e.digest].at
  /\ e.op = "record_refresh" => w.head # None
  /\ e.op = "observation" => e.id # 0 /\ (w.id # 0 => w.id = e.id /\ w.seen <= e.at)
  /\ e.op = "observation_refresh" => w.id # 0

Heard(w, e, r) == IF About(e, w, r) THEN NextView(w, e) ELSE w

\* g[k] is what the first k events of J tell of r.
Told(J, r, g) ==
  /\ g[0] = Blank
  /\ \A k \in 0 .. Len(J) : g[k] \in View
  /\ \A k \in 1 .. Len(J) : /\ About(J[k], g[k - 1], r) => Fits(g[k - 1], J[k])
                            /\ g[k] = Heard(g[k - 1], J[k], r)

\* A database says of r what w says.
Knows(d, r, w) ==
  /\ d.head[r] = None <=> w.head = None
  /\ d.head[r] # None => d.head[r].digest = w.head /\ EffectiveTime(d, r) = w.time
  /\ d.revisions[r] = w.revisions
  /\ d.observations[r] = None <=> w.id = 0
  /\ d.observations[r] # None =>
       /\ d.observations[r].fingerprint = w.fingerprint
       /\ d.observations[r].present = w.present
       /\ LastSeen(d.observations[r]) = w.seen

\* ... of the cache that writes the journal, whose ids the events name.
Holds(d, r, w) == Knows(d, r, w) /\ (d.observations[r] # None => d.observations[r].id = w.id)

\* ... of a cache that has replayed it: what it has bound is what it has stored.
Learnt(d, r, w) ==
  /\ Knows(d, r, w)
  /\ d.bound[r] = w.head
  /\ \A i \in DOMAIN d.evidence : d.evidence[i] # None /\ d.evidence[i].urn = r => i = w.id
  /\ w.id # 0 =>
       /\ w.id \in DOMAIN d.evidence
       /\ d.evidence[w.id] = [local |-> d.observations[r].id, urn |-> r,
                              fingerprint |-> w.fingerprint, present |-> w.present]

LEMMA AddedFacts ==
  ASSUME NEW q \in [Contents -> Revision \cup {None}], NEW v \in Contents, NEW at \in Nat,
         NEW s \in Contents \cup {None}
  PROVE  /\ Added(q, v, at, s) \in [Contents -> Revision \cup {None}]
         /\ Added(q, v, at, s)[v] # None /\ at <= Added(q, v, at, s)[v].at
<1> DEFINE p == [at |-> at, supersedes |-> s, body |-> at]
           m == [q[v] EXCEPT !.at = at, !.supersedes = s]
           a == Added(q, v, at, s)
<1>1. p \in Revision /\ p.at = at
  BY DEF Revision
<1>2. q[v] # None => q[v] \in Revision /\ q[v].at \in Nat /\ m \in Revision /\ m.at = at
  BY DEF Revision
<1>3. a = [w \in Contents |-> IF w # v THEN q[w] ELSE IF q[v] = None THEN p
                             ELSE IF q[v].at < at THEN m ELSE q[v]]
  BY DEF Added
<1> HIDE DEF p, m, a
<1>4. a \in [Contents -> Revision \cup {None}]
  BY <1>1, <1>2, <1>3
<1>5. a[v] = IF q[v] = None THEN p ELSE IF q[v].at < at THEN m ELSE q[v]
  BY <1>3
<1>6. a[v] # None /\ at <= a[v].at
  BY <1>1, <1>2, <1>5, NoneAssumption
<1> QED BY <1>4, <1>6 DEF a

LEMMA NextViewDoes ==
  ASSUME NEW w \in View, NEW e \in Event
  PROVE  LET v == NextView(w, e)
         IN /\ v \in View
            /\ e.op = "record" =>
                 /\ v.head = e.digest /\ v.time = e.at
                 /\ v.revisions = Added(w.revisions, e.digest, e.at, e.previous)
                 /\ v.fingerprint = w.fingerprint /\ v.present = w.present
                 /\ v.seen = w.seen /\ v.id = w.id
            /\ e.op = "revision" => v = w
            /\ e.op = "record_refresh" =>
                 /\ v.time = Later(w.time, e.at)
                 /\ v.head = w.head /\ v.revisions = w.revisions
                 /\ v.fingerprint = w.fingerprint /\ v.present = w.present
                 /\ v.seen = w.seen /\ v.id = w.id
            /\ e.op = "observation" =>
                 /\ v.id = e.id /\ v.fingerprint = e.fingerprint /\ v.present = e.present
                 /\ v.seen = e.at
                 /\ v.head = w.head /\ v.time = w.time /\ v.revisions = w.revisions
            /\ e.op = "observation_refresh" =>
                 /\ v.seen = Later(w.seen, e.at)
                 /\ v.head = w.head /\ v.time = w.time /\ v.revisions = w.revisions
                 /\ v.fingerprint = w.fingerprint /\ v.present = w.present /\ v.id = w.id
<1> DEFINE v == NextView(w, e)
<1>1. w.time \in Nat /\ w.seen \in Nat /\ w.revisions \in [Contents -> Revision \cup {None}]
  BY DEF View
<1>2. CASE e.op = "record"
  <2>1. e.digest \in Contents /\ e.at \in Nat /\ e.previous \in Contents \cup {None}
    BY <1>2, EventFields
  <2> DEFINE q == Added(w.revisions, e.digest, e.at, e.previous)
  <2>2. q \in [Contents -> Revision \cup {None}]
    BY <1>1, <2>1, AddedFacts
  <2>3. v = [w EXCEPT !.head = e.digest, !.time = e.at, !.revisions = q]
    BY <1>2 DEF NextView
  <2> HIDE DEF q, v
  <2>4. /\ v \in View /\ v.head = e.digest /\ v.time = e.at /\ v.revisions = q
        /\ v.fingerprint = w.fingerprint /\ v.present = w.present
        /\ v.seen = w.seen /\ v.id = w.id
    BY <2>1, <2>2, <2>3 DEF View
  <2> QED BY <1>2, <2>4 DEF v, q
<1>3. CASE e.op = "revision"
  BY <1>3 DEF NextView
<1>4. CASE e.op = "record_refresh"
  <2>1. e.at \in Nat
    BY <1>4, EventFields
  <2>2. Later(w.time, e.at) \in Nat
    BY <1>1, <2>1, LaterFacts
  <2>3. v = [w EXCEPT !.time = Later(w.time, e.at)]
    BY <1>4 DEF NextView
  <2> QED BY <1>4, <2>2, <2>3 DEF View
<1>5. CASE e.op = "observation"
  <2>1. e.id \in Nat /\ e.fingerprint \in Contents /\ e.present \in Presence /\ e.at \in Nat
    BY <1>5, EventFields
  <2>2. v = [w EXCEPT !.id = e.id, !.fingerprint = e.fingerprint, !.present = e.present,
                      !.seen = e.at]
    BY <1>5 DEF NextView
  <2> QED BY <1>5, <2>1, <2>2 DEF View
<1>6. CASE e.op = "observation_refresh"
  <2>1. e.at \in Nat
    BY <1>6, EventFields
  <2>2. Later(w.seen, e.at) \in Nat
    BY <1>1, <2>1, LaterFacts
  <2>3. v = [w EXCEPT !.seen = Later(w.seen, e.at)]
    BY <1>6 DEF NextView
  <2> QED BY <1>6, <2>2, <2>3 DEF View
<1>7. e.op \in {"record", "revision", "record_refresh", "observation", "observation_refresh"}
  BY EventFields
<1> QED BY <1>2, <1>3, <1>4, <1>5, <1>6, <1>7

(* What an operation does to what is known of a record. *********************)

RowKept(d, x, r) ==
  /\ x.head[r] = d.head[r] /\ x.sighted[r] = d.sighted[r]
  /\ x.revisions[r] = d.revisions[r] /\ x.observations[r] = d.observations[r]

LEMMA KnowsKept ==
  ASSUME NEW d, NEW x, NEW r, RowKept(d, x, r), NEW w, Knows(d, r, w)
  PROVE  Knows(x, r, w)
BY DEF RowKept, Knows, EffectiveTime

LEMMA HoldsKept ==
  ASSUME NEW d, NEW x, NEW r, RowKept(d, x, r), NEW w, Holds(d, r, w)
  PROVE  Holds(x, r, w)
BY KnowsKept DEF Holds, RowKept

LEMMA LearntKept ==
  ASSUME NEW d, NEW x, NEW r, RowKept(d, x, r), KeepsBindings(d, x), NEW w, Learnt(d, r, w)
  PROVE  Learnt(x, r, w)
BY KnowsKept DEF Learnt, RowKept, KeepsBindings

\* d became x: a head was written, with its revision (_upsert).
Wrote(d, x, r, v, at) ==
  LET s == IF d.head[r] = None THEN None ELSE d.head[r].digest
  IN /\ x \in Database /\ KeepsBindings(d, x) /\ x.observations = d.observations
     /\ x.lastId = d.lastId /\ HeadWritten(d, x, r, v, at)
     /\ x.revisions = [d.revisions EXCEPT ![r] = Added(d.revisions[r], v, at, s)]

LEMMA WriteHeadRevisions ==
  ASSUME NEW d \in Database, NEW r \in Records, NEW v \in Contents, NEW at \in Nat
  PROVE  LET w == WriteHead(d, r, v, at) IN w \in Database /\ w.revisions = d.revisions
<1> DEFINE w == WriteHead(d, r, v, at)
           old == IF d.head[r] = None THEN None ELSE d.head[r].digest
           j == Append(d.journal, [op |-> "record", urn |-> r, digest |-> v,
                                   at |-> at, previous |-> old])
           row == [digest |-> v, at |-> at, body |-> at, tombstoned |-> v \in Tombstones]
<1>1. /\ w \in Database /\ KeepsBindings(d, w)
      /\ w.eligible = d.eligible /\ w.eligibleIds = d.eligibleIds
      /\ w.dirty = MarkDirty(d, r) /\ w.dirtyIds = d.dirtyIds
      /\ w.head = [d.head EXCEPT ![r] = row]
      /\ w.sighted = d.sighted /\ w.observations = d.observations
      /\ w.journal = j
      /\ w.revisions = d.revisions /\ w.conflicts = d.conflicts /\ w.lastId = d.lastId
  BY WriteHeadDoes
<1> QED BY <1>1

\* d became x: the revision of content that is current was added.
Adds(d, x, r, v, at, s) == x.revisions = [d.revisions EXCEPT ![r] = Added(d.revisions[r], v, at, s)]

LEMMA AddRevisionAdds ==
  ASSUME NEW d \in Database, NEW r \in Records, NEW v \in Contents, NEW at \in Nat,
         NEW s \in Contents \cup {None}
  PROVE  Adds(d, AddRevision(d, r, v, at, s, at, TRUE), r, v, at, s)
<1> SUFFICES AddRevision(d, r, v, at, s, at, TRUE).revisions
               = [d.revisions EXCEPT ![r] = Added(d.revisions[r], v, at, s)]
  BY DEF Adds
<1> DEFINE x == AddRevision(d, r, v, at, s, at, TRUE)
           q == d.revisions[r]
           p == [at |-> at, supersedes |-> s, body |-> at]
           m == [q[v] EXCEPT !.at = at, !.supersedes = s]
<1>1. q \in [Contents -> Revision \cup {None}]
      /\ d.revisions \in [Records -> [Contents -> Revision \cup {None}]]
  BY DEF Database
<1>2. p \in Revision /\ (q[v] # None => q[v] \in Revision /\ m \in Revision)
  <2>1. p \in Revision
    BY DEF Revision
  <2>2. ASSUME q[v] # None PROVE q[v] \in Revision
    BY <1>1, <2>2
  <2>3. ASSUME NEW o \in Revision PROVE [o EXCEPT !.at = at, !.supersedes = s] \in Revision
    BY DEF Revision
  <2> QED BY <2>1, <2>2, <2>3
<1>3. ASSUME NEW c \in Revision
      PROVE  WriteRevision(d, r, v, c).revisions = [d.revisions EXCEPT ![r][v] = c]
  <2> DEFINE y == WriteRevision(d, r, v, c)
             e == [op |-> "revision", urn |-> r, digest |-> v, at |-> c.at,
                   supersedes |-> c.supersedes, body |-> c.body]
  <2>1. /\ y \in Database
        /\ KeepsBindings(d, y) /\ SameIndex(d, y) /\ SameRows(d, y)
        /\ y.journal = d.journal \/ y.journal = Append(d.journal, e)
        /\ y.revisions = [d.revisions EXCEPT ![r][v] = c]
        /\ y.conflicts = d.conflicts /\ y.lastId = d.lastId
    BY WriteRevisionDoes
  <2> QED BY <2>1
<1>4. CASE q[v] = None
  <2>1. x = WriteRevision(d, r, v, p)
    BY <1>4 DEF AddRevision
  <2> HIDE DEF x, p
  <2>2. x.revisions = [d.revisions EXCEPT ![r][v] = p]
    BY <1>2, <1>3, <2>1
  <2>3. [d.revisions EXCEPT ![r][v] = p] = [d.revisions EXCEPT ![r] = [q EXCEPT ![v] = p]]
    OBVIOUS
  <2> HIDE DEF q
  <2>4. [q EXCEPT ![v] = p] = Added(q, v, at, s)
    BY <1>1, <1>4 DEF Added, p
  <2> QED BY <2>2, <2>3, <2>4 DEF x, q
<1>5. CASE q[v] # None /\ q[v].at < at
  <2>1. x = WriteRevision(d, r, v, m)
    BY <1>5 DEF AddRevision
  <2> HIDE DEF x, m
  <2>2. x.revisions = [d.revisions EXCEPT ![r][v] = m]
    BY <1>2, <1>3, <1>5, <2>1
  <2>3. [d.revisions EXCEPT ![r][v] = m] = [d.revisions EXCEPT ![r] = [q EXCEPT ![v] = m]]
    OBVIOUS
  <2> HIDE DEF q
  <2>4. [q EXCEPT ![v] = m] = Added(q, v, at, s)
    BY <1>1, <1>5 DEF Added, m
  <2> QED BY <2>2, <2>3, <2>4 DEF x, q
<1>6. CASE q[v] # None /\ ~(q[v].at < at)
  <2>1. x = d
    BY <1>6 DEF AddRevision
  <2> HIDE DEF x
  <2>2. d.revisions = [d.revisions EXCEPT ![r] = q]
    BY <1>1
  <2> HIDE DEF q
  <2>3. q = Added(q, v, at, s)
    BY <1>1, <1>6 DEF Added
  <2> QED BY <2>1, <2>2, <2>3 DEF x, q
<1> QED BY <1>4, <1>5, <1>6

LEMMA WriteThenAdd ==
  ASSUME NEW d \in Database, NEW r \in Records, NEW v \in Contents, NEW at \in Nat,
         NEW s \in Contents \cup {None}
  PROVE  LET x == AddRevision(WriteHead(d, r, v, at), r, v, at, s, at, TRUE)
         IN /\ x \in Database /\ KeepsBindings(d, x)
            /\ x.observations = d.observations
            /\ x.lastId = d.lastId /\ HeadWritten(d, x, r, v, at)
            /\ Adds(d, x, r, v, at, s)
<1> DEFINE w == WriteHead(d, r, v, at)
           x == AddRevision(w, r, v, at, s, at, TRUE)
<1>1. /\ x \in Database /\ KeepsBindings(d, x)
      /\ x.eligible = d.eligible /\ x.eligibleIds = d.eligibleIds
      /\ x.dirtyIds = d.dirtyIds /\ x.observations = d.observations
      /\ x.lastId = d.lastId /\ HeadWritten(d, x, r, v, at)
  BY WriteAndAdd
<1>2. w \in Database /\ w.revisions = d.revisions
  BY WriteHeadRevisions
<1>3. Adds(w, x, r, v, at, s)
  BY <1>2, AddRevisionAdds
<1> HIDE DEF x, w
<1>4. Adds(d, x, r, v, at, s)
  BY <1>2, <1>3 DEF Adds
<1>5. /\ x \in Database /\ KeepsBindings(d, x)
      /\ x.observations = d.observations
      /\ x.lastId = d.lastId /\ HeadWritten(d, x, r, v, at)
      /\ Adds(d, x, r, v, at, s)
  BY <1>1, <1>4
<1> QED BY <1>5 DEF x, w

LEMMA WriteAndAddWrites ==
  ASSUME NEW d \in Database, NEW r \in Records, NEW v \in Contents, NEW at \in Nat,
         NEW s, s = (IF d.head[r] = None THEN None ELSE d.head[r].digest),
         NEW x, x = AddRevision(WriteHead(d, r, v, at), r, v, at, s, at, TRUE)
  PROVE  Wrote(d, x, r, v, at)
<1>1. s \in Contents \cup {None}
  BY HeadTypes
<1> DEFINE y == AddRevision(WriteHead(d, r, v, at), r, v, at, s, at, TRUE)
<1>2. /\ y \in Database /\ KeepsBindings(d, y)
      /\ y.observations = d.observations
      /\ y.lastId = d.lastId /\ HeadWritten(d, y, r, v, at)
      /\ Adds(d, y, r, v, at, s)
  BY ONLY <1>1, d \in Database, r \in Records, v \in Contents, at \in Nat, WriteThenAdd
<1>3. x = y
  OBVIOUS
<1> HIDE DEF y
<1> QED BY <1>2, <1>3 DEF Wrote, Adds

\* The two ways a content that differs from the head gets written.
LEMMA UpsertWrites ==
  ASSUME NEW d \in Database, NEW r \in Records, NEW v \in Contents, NEW at \in Nat,
         NEW origin, NEW prior,
         d.head[r] # None =>
           /\ d.head[r].digest # v
           /\ origin = "import" => d.head[r].digest \in prior /\ EffectiveTime(d, r) <= at
  PROVE  Wrote(d, Upsert(d, r, v, at, origin, prior), r, v, at)
<1>1. CASE d.head[r] = None
  <2>1. Upsert(d, r, v, at, origin, prior) = AddRevision(WriteHead(d, r, v, at), r, v, at, None, at, TRUE)
    BY <1>1 DEF Upsert
  <2> QED BY <1>1, <2>1, WriteAndAddWrites
<1>2. CASE d.head[r] # None
  <2>1. origin = "import" => ~Foreign(d, r, prior) /\ ~Outdated(d, r, at)
    <3>1. EffectiveTime(d, r) \in Nat
      BY <1>2, HeadTypes
    <3> QED BY <1>2, <3>1 DEF Foreign, Outdated
  <2>2. Upsert(d, r, v, at, origin, prior)
          = AddRevision(WriteHead(d, r, v, at), r, v, at, d.head[r].digest, at, TRUE)
    BY <1>2, <2>1 DEF Upsert
  <2> QED BY <1>2, <2>2, WriteAndAddWrites
<1> QED BY <1>1, <1>2

RecordEvent(r, v, at, s) == [op |-> "record", urn |-> r, digest |-> v, at |-> at, previous |-> s]

LEMMA KnowsWritten ==
  ASSUME NEW d, NEW W, Sound(d, W), NEW r \in Records, NEW v \in Contents, NEW at \in Nat,
         NEW x, Wrote(d, x, r, v, at), d.head[r] # None => EffectiveTime(d, r) <= at,
         NEW w \in View, Knows(d, r, w),
         NEW e \in Event, e.op = "record", e.digest = v, e.at = at, e.previous = w.head
  PROVE  Knows(x, r, NextView(w, e))
<1> DEFINE u == NextView(w, e)
           row == [digest |-> v, at |-> at, body |-> at, tombstoned |-> v \in Tombstones]
<1>1. /\ u.head = v /\ u.time = at /\ u.revisions = Added(w.revisions, v, at, w.head)
      /\ u.fingerprint = w.fingerprint /\ u.present = w.present
      /\ u.seen = w.seen /\ u.id = w.id
  BY NextViewDoes
<1> HIDE DEF u
<1>2. d \in Database /\ Fresh(d, W) /\ x \in Database
  BY DEF Sound, Wrote
<1>3. DOMAIN d.head = Records /\ DOMAIN d.revisions = Records
  BY <1>2 DEF Database
<1>4. /\ x.head = [d.head EXCEPT ![r] = row] /\ x.sighted = d.sighted
      /\ x.observations = d.observations
      /\ x.revisions = [d.revisions EXCEPT ![r] = Added(d.revisions[r], v, at, w.head)]
  <2>1. w.head = IF d.head[r] = None THEN None ELSE d.head[r].digest
    BY DEF Knows
  <2> QED BY <2>1 DEF Wrote, HeadWritten
<1>5. row \in HeadRow /\ row.digest = v /\ row.at = at
  BY DEF HeadRow
<1> HIDE DEF row
<1>6. x.head[r] = row /\ x.head[r] # None
  BY <1>3, <1>4, <1>5, NoneAssumption
<1>7. d.sighted[r] \in Nat /\ d.sighted[r] <= at
  <2>1. d.sighted[r] \in Nat
    BY <1>2, HeadTypes
  <2>2. CASE d.head[r] = None
    <3>1. d.sighted[r] = 0
      BY <1>2, <2>2 DEF Fresh
    <3> QED BY <3>1
  <2>3. CASE d.head[r] # None
    <3>1. EffectiveTime(d, r) \in Nat /\ EffectiveTime(d, r) >= d.sighted[r]
      BY <1>2, <2>3, HeadTypes
    <3> QED BY <2>1, <2>3, <3>1
  <2> QED BY <2>1, <2>2, <2>3
<1>8. EffectiveTime(x, r) = at
  BY <1>4, <1>5, <1>6, <1>7 DEF EffectiveTime, Later
<1>9. x.revisions[r] = u.revisions
  BY <1>1, <1>3, <1>4 DEF Knows
<1>10. u.head # None
  BY <1>1, StoreAssumption
<1>11. Knows(x, r, u)
  BY <1>1, <1>4, <1>5, <1>6, <1>8, <1>9, <1>10 DEF Knows
<1> QED BY <1>11 DEF u

LEMMA LaterLater ==
  \A a, b, c \in Nat : Later(a, Later(b, c)) = Later(Later(a, b), c)
BY DEF Later

\* A head was seen again (refresh_records).
LEMMA KnowsRefreshed ==
  ASSUME NEW d \in Database, NEW r \in Records, NEW at \in Nat, d.head[r] # None,
         NEW w \in View, Knows(d, r, w),
         NEW e \in Event, e.op = "record_refresh", e.at = at
  PROVE  Knows(RefreshRecord(d, r, at), r, NextView(w, e))
<1> DEFINE u == NextView(w, e)
           x == RefreshRecord(d, r, at)
<1>1. /\ u.time = Later(w.time, at)
      /\ u.head = w.head /\ u.revisions = w.revisions
      /\ u.fingerprint = w.fingerprint /\ u.present = w.present
      /\ u.seen = w.seen /\ u.id = w.id
  BY NextViewDoes
<1>2. /\ x.head = d.head /\ x.observations = d.observations
      /\ x.sighted = [d.sighted EXCEPT ![r] = Later(@, at)] /\ x.revisions = d.revisions
  BY RefreshRecordDoes
<1> HIDE DEF u, x
<1>3. x.sighted[r] = Later(d.sighted[r], at)
  BY <1>2 DEF Database
<1>4. d.head[r].at \in Nat /\ d.sighted[r] \in Nat
  BY HeadTypes
<1>5. EffectiveTime(x, r) = Later(EffectiveTime(d, r), at)
  BY <1>2, <1>3, <1>4, LaterLater DEF EffectiveTime
<1>6. Knows(x, r, u)
  BY <1>1, <1>2, <1>5 DEF Knows
<1> QED BY <1>6 DEF u, x

\* An observation was written (merge_observations, observe_many).
LEMMA KnowsObserved ==
  ASSUME NEW d \in Database, NEW r \in Records, NEW v \in Contents, NEW p \in Presence,
         NEW at \in Nat, NEW x, Observed(d, x, r, v, p, at),
         d.observations[r] # None => LastSeen(d.observations[r]) <= at,
         NEW w \in View, Knows(d, r, w),
         NEW e \in Event, e.op = "observation", e.fingerprint = v, e.present = p, e.at = at,
         e.id # 0
  PROVE  Knows(x, r, NextView(w, e)) /\ x.observations[r] # None
         /\ x.observations[r].id = IF d.observations[r] = None THEN d.lastId + 1
                                   ELSE d.observations[r].id
<1> DEFINE u == NextView(w, e)
           o == d.observations[r]
           id == IF o = None THEN d.lastId + 1 ELSE o.id
           seen == IF o = None THEN 0 ELSE o.seen
           row == [id |-> id, fingerprint |-> v, at |-> at, seen |-> seen, present |-> p]
<1>1. /\ u.id = e.id /\ u.fingerprint = v /\ u.present = p /\ u.seen = at
      /\ u.head = w.head /\ u.time = w.time /\ u.revisions = w.revisions
  BY NextViewDoes
<1> HIDE DEF u
<1>2. /\ x.observations = [d.observations EXCEPT ![r] = row]
      /\ x.head = d.head /\ x.sighted = d.sighted /\ x.revisions = d.revisions
  BY DEF Observed
<1>3. o # None => o \in Observation /\ LastSeen(o) \in Nat /\ LastSeen(o) >= o.seen
  BY HeadTypes
<1>4. id \in Nat /\ seen \in Nat /\ seen <= at
  <2>1. d.lastId \in Nat
    BY DEF Database
  <2>2. o # None => o.id \in Nat /\ o.seen \in Nat
    BY <1>3 DEF Observation
  <2> QED BY <1>3, <2>1, <2>2
<1> HIDE DEF id, seen
<1>5. /\ row \in Observation /\ row.fingerprint = v /\ row.present = p /\ row.id = id
      /\ LastSeen(row) = at
  BY <1>4 DEF Observation, LastSeen, Later
<1> HIDE DEF row, o
<1>6. x.observations[r] = row /\ row # None
  BY <1>2, <1>5, NoneAssumption DEF Database
<1>7. \A s : EffectiveTime(x, s) = EffectiveTime(d, s)
  BY <1>2 DEF EffectiveTime
<1>8. Knows(x, r, u)
  BY <1>1, <1>2, <1>5, <1>6, <1>7 DEF Knows
<1> QED BY <1>5, <1>6, <1>8 DEF u, id, o

\* A row was seen again (observe_many, apply_events).
LEMMA KnowsStamped ==
  ASSUME NEW d \in Database, NEW r \in Records, NEW at \in Nat, d.observations[r] # None,
         NEW x, Stamped(d, x, r, at), NEW w \in View, Knows(d, r, w),
         NEW e \in Event, e.op = "observation_refresh", e.at = at
  PROVE  Knows(x, r, NextView(w, e)) /\ x.observations[r] # None
         /\ x.observations[r].id = d.observations[r].id
<1> DEFINE u == NextView(w, e)
           o == d.observations[r]
           row == [o EXCEPT !.seen = Later(o.seen, at)]
<1>1. /\ u.seen = Later(w.seen, at)
      /\ u.head = w.head /\ u.time = w.time /\ u.revisions = w.revisions
      /\ u.fingerprint = w.fingerprint /\ u.present = w.present /\ u.id = w.id
  BY NextViewDoes
<1> HIDE DEF u
<1>2. /\ x.observations = [d.observations EXCEPT ![r] = row]
      /\ x.head = d.head /\ x.sighted = d.sighted /\ x.revisions = d.revisions
  BY DEF Stamped
<1>3. o \in Observation
  BY HeadTypes
<1>4. o.at \in Nat /\ o.seen \in Nat /\ Later(o.seen, at) \in Nat
  BY <1>3, LaterFacts DEF Observation
<1>5. /\ row \in Observation /\ row.fingerprint = o.fingerprint /\ row.present = o.present
      /\ row.id = o.id /\ row.at = o.at /\ row.seen = Later(o.seen, at)
  BY <1>3, <1>4 DEF Observation
<1> HIDE DEF row
<1>6. x.observations[r] = row /\ row # None
  BY <1>2, <1>5, NoneAssumption DEF Database
<1>7. LastSeen(row) = Later(LastSeen(o), at)
  BY <1>4, <1>5, LaterLater DEF LastSeen
<1>8. \A s : EffectiveTime(x, s) = EffectiveTime(d, s)
  BY <1>2 DEF EffectiveTime
<1>9. Knows(x, r, u)
  BY <1>1, <1>2, <1>5, <1>6, <1>7, <1>8 DEF Knows
<1> QED BY <1>5, <1>6, <1>9 DEF u

(* What replaying an event does to what a replica knows of a record. ********)

\* A write of one record's head leaves the other records alone.
LEMMA UpsertOthers ==
  ASSUME NEW d \in Database, NEW s \in Records, NEW v \in Contents, NEW at \in Nat,
         NEW origin, NEW prior, NEW r \in Records \ {s}
  PROVE  /\ Upsert(d, s, v, at, origin, prior) \in Database
         /\ KeepsBindings(d, Upsert(d, s, v, at, origin, prior))
         /\ RowKept(d, Upsert(d, s, v, at, origin, prior), r)
<1> DEFINE x == Upsert(d, s, v, at, origin, prior)
<1>1. /\ x \in Database /\ KeepsBindings(d, x)
      /\ x.eligible = d.eligible /\ x.eligibleIds = d.eligibleIds
      /\ x.dirtyIds = d.dirtyIds /\ x.observations = d.observations
      /\ x.lastId = d.lastId
      /\ \/ /\ HeadWritten(d, x, s, v, at)
            /\ d.head[s] # None /\ origin = "import" =>
                 d.head[s].digest \in prior /\ at >= EffectiveTime(d, s)
         \/ /\ HeadSeen(d, x, s, at)
            /\ d.head[s] # None /\ d.head[s].digest = v /\ at >= EffectiveTime(d, s)
         \/ /\ HeadKept(d, x, s, v, at)
            /\ d.head[s] # None
  BY UpsertDoes
<1> HIDE DEF x
<1>2. x.head[r] = d.head[r] /\ x.sighted[r] = d.sighted[r]
  <2>1. DOMAIN d.head = Records /\ DOMAIN d.sighted = Records
    BY DEF Database
  <2>2. CASE HeadWritten(d, x, s, v, at)
    BY <2>1, <2>2 DEF HeadWritten
  <2>3. CASE HeadSeen(d, x, s, at)
    BY <2>1, <2>3 DEF HeadSeen
  <2>4. CASE HeadKept(d, x, s, v, at)
    BY <2>4 DEF HeadKept
  <2> QED BY <1>1, <2>2, <2>3, <2>4
<1>3. \A w \in Contents : x.revisions[r][w] = d.revisions[r][w]
  <2>1. RevisionAdded(d, x, s, v, at) \/ x.revisions = d.revisions
    BY <1>1 DEF HeadWritten, HeadSeen, HeadKept
  <2> QED BY <2>1 DEF RevisionAdded
<1>4. x.revisions[r] = d.revisions[r]
  <2>1. x.revisions[r] \in [Contents -> Revision \cup {None}]
        /\ d.revisions[r] \in [Contents -> Revision \cup {None}]
    BY <1>1 DEF Database
  <2> QED BY <1>3, <2>1
<1>5. x \in Database /\ KeepsBindings(d, x) /\ RowKept(d, x, r)
  BY <1>1, <1>2, <1>4 DEF RowKept
<1> QED BY <1>5 DEF x

LEMMA BindEntityBinds ==
  ASSUME NEW d \in Database, NEW r \in Records, NEW v \in Contents
  PROVE  /\ \A s \in Records : RowKept(d, BindEntity(d, r, v), s)
         /\ BindEntity(d, r, v).bound[r] = v
         /\ \A s \in Records \ {r} : BindEntity(d, r, v).bound[s] = d.bound[s]
         /\ BindEntity(d, r, v).evidence = d.evidence
<1> DEFINE b == [d.bound EXCEPT ![r] = v]
           x == [d EXCEPT !.bound = b, !.dirty = d.dirty \cup {r}]
<1>1. BindEntity(d, r, v) = x
  BY DEF BindEntity
<1>2. DOMAIN d.bound = Records
  BY DEF Database
<1>3. b[r] = v /\ \A s \in Records \ {r} : b[s] = d.bound[s]
  BY <1>2
<1> HIDE DEF b
<1>4. /\ x.head = d.head /\ x.sighted = d.sighted /\ x.revisions = d.revisions
      /\ x.observations = d.observations /\ x.bound = b /\ x.evidence = d.evidence
  BY DEF Database
<1> HIDE DEF x
<1> QED BY <1>1, <1>3, <1>4 DEF RowKept

LEMMA LearnRecord ==
  ASSUME NEW d, NEW W, Sound(d, W), NEW e \in Event, e.op = "record", NEW r \in Records,
         NEW w \in View, Learnt(d, r, w), About(e, w, r) => Fits(w, e)
  PROVE  Learnt(ApplyEvent(d, e), r, Heard(w, e, r))
<1> DEFINE y == Imported(d, e)
           x == BindEntity(y, e.urn, e.digest)
           u == NextView(w, e)
<1>1. e.urn \in Records /\ e.digest \in Contents /\ e.at \in Nat /\ d \in Database
  BY EventFields DEF Sound
<1>2. ApplyEvent(d, e) = x
  BY DEF ApplyEvent, ApplyRecord, Imported, Prior
<1>3. About(e, w, r) <=> e.urn = r
  BY DEF About
<1>4. Knows(d, r, w)
  BY DEF Learnt
<1>5. CASE e.urn = r
  <2>1. /\ e.previous = w.head /\ e.digest # w.head
        /\ w.head # None => w.time <= e.at
    BY <1>3, <1>5 DEF Fits
  <2>2. d.head[r] # None => /\ d.head[r].digest = e.previous /\ e.previous # None
                            /\ d.head[r].digest # e.digest /\ EffectiveTime(d, r) <= e.at
    BY <1>4, <2>1 DEF Knows
  <2>3. d.head[r] # None => d.head[r].digest \in Prior(e)
    BY <2>2 DEF Prior
  <2>4. Wrote(d, y, r, e.digest, e.at)
    BY <1>1, <1>5, <2>2, <2>3, UpsertWrites DEF Imported
  <2> HIDE DEF y
  <2>5. Knows(y, r, u)
    BY <1>1, <1>4, <2>1, <2>2, <2>4, KnowsWritten
  <2>6. y \in Database /\ KeepsBindings(d, y) /\ y.observations = d.observations
    BY <2>4 DEF Wrote
  <2>7. RowKept(y, x, r) /\ x.bound[r] = e.digest /\ x.evidence = y.evidence
    BY <1>1, <1>5, <2>6, BindEntityBinds
  <2>8. /\ u.head = e.digest /\ u.fingerprint = w.fingerprint /\ u.present = w.present
        /\ u.id = w.id
    BY NextViewDoes
  <2> HIDE DEF x, u
  <2>9. x.evidence = d.evidence /\ x.observations[r] = d.observations[r] /\ x.bound[r] = u.head
    BY <2>6, <2>7, <2>8 DEF KeepsBindings, RowKept
  <2>10. Knows(x, r, u)
    BY <2>5, <2>7, KnowsKept
  <2>11. Learnt(x, r, u)
    BY <2>8, <2>9, <2>10 DEF Learnt
  <2> QED BY <1>2, <1>3, <1>5, <2>11 DEF Heard, x, u
<1>6. CASE e.urn # r
  <2>1. y \in Database /\ KeepsBindings(d, y) /\ RowKept(d, y, r)
    BY <1>1, <1>6, UpsertOthers DEF Imported
  <2> HIDE DEF y
  <2>2. RowKept(y, x, r) /\ x.bound[r] = y.bound[r] /\ x.evidence = y.evidence
    BY <1>1, <1>6, <2>1, BindEntityBinds
  <2> HIDE DEF x
  <2>3. /\ RowKept(d, x, r) /\ x.bound[r] = d.bound[r] /\ x.evidence = d.evidence
        /\ x.observations[r] = d.observations[r]
    BY <2>1, <2>2 DEF RowKept, KeepsBindings
  <2>4. Knows(x, r, w)
    BY <1>4, <2>3, KnowsKept
  <2>5. Learnt(x, r, w)
    BY <2>3, <2>4 DEF Learnt
  <2> QED BY <1>2, <1>3, <1>6, <2>5 DEF Heard, x
<1> QED BY <1>5, <1>6

LEMMA LearnRevision ==
  ASSUME NEW d, NEW W, Sound(d, W), NEW e \in Event, e.op = "revision", NEW r \in Records,
         NEW w \in View, Learnt(d, r, w), About(e, w, r) => Fits(w, e)
  PROVE  Learnt(ApplyEvent(d, e), r, Heard(w, e, r))
<1> DEFINE x == ApplyRevision(d, e)
<1>1. /\ e.urn \in Records /\ e.digest \in Contents /\ e.at \in Nat
      /\ e.supersedes \in Contents \cup {None} /\ e.body \in Nat
      /\ d \in Database
  BY EventFields DEF Sound
<1>2. ApplyEvent(d, e) = x
  BY DEF ApplyEvent
<1>3. About(e, w, r) <=> e.urn = r
  BY DEF About
<1>4. Heard(w, e, r) = w
  BY DEF Heard, NextView
<1>5. CASE e.urn = r
  <2>1. d.revisions[r] = w.revisions
    BY DEF Learnt, Knows
  <2>2. d.revisions[r][e.digest] # None /\ e.at <= d.revisions[r][e.digest].at
    BY <1>3, <1>5, <2>1 DEF Fits
  <2>3. d.revisions[r][e.digest].at \in Nat
    <3>1. d.revisions[r][e.digest] \in Revision
      BY <1>1, <2>2 DEF Database
    <3> QED BY <3>1 DEF Revision
  <2>4. ~(d.revisions[r][e.digest].at < e.at)
    BY <1>1, <2>2, <2>3
  <2>5. x = d
    BY <1>5, <2>2, <2>4 DEF ApplyRevision, AddRevision
  <2> QED BY <1>2, <1>4, <2>5
<1>6. CASE e.urn # r
  <2>1. Revised(d, x, e.urn, e.digest, e.at, e.supersedes, e.body)
    BY <1>1, AddRevisionDoes DEF ApplyRevision
  <2> HIDE DEF x
  <2>2. DOMAIN d.revisions = Records
    BY <1>1 DEF Database
  <2>3. x.revisions[r] = d.revisions[r]
    BY <1>6, <2>1, <2>2 DEF Revised
  <2>4. RowKept(d, x, r) /\ KeepsBindings(d, x)
    BY <2>1, <2>3 DEF Revised, SameRows, RowKept
  <2> QED BY <1>2, <1>4, <2>4, LearntKept DEF x
<1> QED BY <1>5, <1>6

LEMMA LearnRecordRefresh ==
  ASSUME NEW d, NEW W, Sound(d, W), NEW e \in Event, e.op = "record_refresh", NEW r \in Records,
         NEW w \in View, Learnt(d, r, w), About(e, w, r) => Fits(w, e)
  PROVE  Learnt(ApplyEvent(d, e), r, Heard(w, e, r))
<1> DEFINE t == Revalidate(d)
           y == RefreshRecord(t, e.urn, e.at)
           x == IF e.urn \in t.eligible THEN y ELSE t
           u == NextView(w, e)
<1>1. e.urn \in Records /\ e.at \in Nat
  BY EventFields
<1>2. ApplyEvent(d, e) = x
  BY DEF ApplyEvent, ApplyRecordRefresh
<1>3. /\ Sound(t, W) /\ SameHeads(d, t) /\ KeepsBindings(d, t)
      /\ t.observations = d.observations
      /\ \A s \in Records : (s \in t.eligible) <=> HeadMatches(t, s)
      /\ \A i : (i \in t.eligibleIds) <=> EvidenceMatches(t, i)
  BY RevalidateDoes
<1> HIDE DEF t
<1>4. Learnt(t, r, w)
  <2>1. RowKept(d, t, r)
    BY <1>3 DEF RowKept, SameHeads
  <2> QED BY <1>3, <2>1, LearntKept
<1>5. t \in Database /\ Knows(t, r, w)
  BY <1>3, <1>4 DEF Sound, Learnt
<1>6. About(e, w, r) <=> e.urn = r
  BY DEF About
<1>7. /\ y \in Database
      /\ KeepsBindings(t, y) /\ SameIndex(t, y)
      /\ y.head = t.head /\ y.observations = t.observations
      /\ y.sighted = [t.sighted EXCEPT ![e.urn] = Later(@, e.at)]
      /\ y.journal = Append(t.journal, [op |-> "record_refresh", urn |-> e.urn, at |-> e.at])
      /\ y.revisions = t.revisions /\ y.conflicts = t.conflicts /\ y.lastId = t.lastId
  <2> HIDE DEF x
  <2> QED BY ONLY <1>1, <1>5, RefreshRecordDoes
<1>8. CASE e.urn = r
  <2>1. w.head # None
    BY <1>6, <1>8 DEF Fits
  <2>2. t.head[r] # None /\ t.head[r].digest = w.head /\ t.bound[r] = w.head
    BY <1>4, <2>1 DEF Learnt, Knows
  <2>3. x = y
    BY <1>3, <1>8, <2>1, <2>2 DEF HeadMatches
  <2>4. Knows(y, r, u)
    BY <1>1, <1>5, <1>8, <2>2, KnowsRefreshed
  <2>5. /\ u.head = w.head /\ u.fingerprint = w.fingerprint /\ u.present = w.present
        /\ u.id = w.id
    BY NextViewDoes
  <2> HIDE DEF x, y, u
  <2>6. Learnt(y, r, u)
    BY <1>4, <1>7, <2>4, <2>5 DEF Learnt, KeepsBindings
  <2> QED BY <1>2, <1>6, <1>8, <2>3, <2>6 DEF Heard, u
<1>9. CASE e.urn # r
  <2>1. RowKept(t, y, r)
    BY <1>5, <1>7, <1>9 DEF RowKept, Database
  <2>2. Learnt(y, r, w)
    BY <1>4, <1>7, <2>1, LearntKept
  <2> HIDE DEF y
  <2> QED BY <1>2, <1>4, <1>6, <1>9, <2>2 DEF Heard
<1> QED BY <1>8, <1>9

\* A write of one record's observation leaves the other records alone.
LEMMA ObservedOthers ==
  ASSUME NEW d \in Database, NEW s \in Records, NEW v, NEW p, NEW at, NEW x,
         Observed(d, x, s, v, p, at) \/ Stamped(d, x, s, at), NEW r \in Records \ {s}
  PROVE  RowKept(d, x, r) /\ KeepsBindings(d, x) /\ x \in Database
<1>1. DOMAIN d.observations = Records
  BY DEF Database
<1>2. CASE Observed(d, x, s, v, p, at)
  BY <1>1, <1>2 DEF Observed, RowKept
<1>3. CASE Stamped(d, x, s, at)
  BY <1>1, <1>3 DEF Stamped, RowKept
<1> QED BY <1>2, <1>3

\* The evidence that a replica keeps of an observation event.
LEMMA BindEvidenceBinds ==
  ASSUME NEW d \in Database, NEW e \in Event, e.op = "observation", e.id # 0
  PROVE  /\ \A s \in Records : RowKept(d, BindEvidence(d, e), s)
         /\ BindEvidence(d, e).bound = d.bound
         /\ e.id \in DOMAIN BindEvidence(d, e).evidence
         /\ BindEvidence(d, e).evidence[e.id]
              = [local |-> d.observations[e.urn].id, urn |-> e.urn,
                 fingerprint |-> e.fingerprint, present |-> e.present]
         /\ \A i \in DOMAIN d.evidence \ {e.id} :
              /\ i \in DOMAIN BindEvidence(d, e).evidence
              /\ BindEvidence(d, e).evidence[i] = d.evidence[i]
         /\ \A i \in DOMAIN BindEvidence(d, e).evidence \ (DOMAIN d.evidence \cup {e.id}) :
              BindEvidence(d, e).evidence[i] = None
<1> DEFINE q == [local |-> d.observations[e.urn].id, urn |-> e.urn,
                 fingerprint |-> e.fingerprint, present |-> e.present]
           n == Later(Len(d.evidence), e.id)
           v == [i \in 1 .. n |-> IF i = e.id THEN q
                                  ELSE IF i \in DOMAIN d.evidence THEN d.evidence[i] ELSE None]
           k == d.dirtyIds \cup {e.id}
           x == [d EXCEPT !.evidence = v, !.dirtyIds = k]
<1>1. BindEvidence(d, e) = x
  BY DEF BindEvidence
<1>2. e.id \in Nat
  BY EventFields
<1>3. d.evidence \in Seq(Evidence \cup {None})
  BY DEF Database
<1>4. DOMAIN d.evidence = 1 .. Len(d.evidence) /\ Len(d.evidence) \in Nat
  BY <1>3
<1>5. n \in Nat /\ Len(d.evidence) <= n /\ e.id \in 1 .. n
  BY <1>2, <1>4 DEF Later
<1> HIDE DEF n, q
<1>6. /\ e.id \in DOMAIN v /\ v[e.id] = q
      /\ \A i \in DOMAIN d.evidence \ {e.id} : i \in DOMAIN v /\ v[i] = d.evidence[i]
      /\ \A i \in DOMAIN v \ (DOMAIN d.evidence \cup {e.id}) : v[i] = None
  BY <1>4, <1>5
<1> HIDE DEF v, k
<1>7. /\ x.head = d.head /\ x.sighted = d.sighted /\ x.revisions = d.revisions
      /\ x.observations = d.observations /\ x.bound = d.bound /\ x.evidence = v
  BY DEF Database
<1> HIDE DEF x
<1> QED BY <1>1, <1>6, <1>7 DEF RowKept, q

LEMMA LearnObservation ==
  ASSUME NEW d, NEW W, Sound(d, W), NEW e \in Event, e.op = "observation", e.id # 0,
         Applicable(d, e), NEW r \in Records,
         NEW w \in View, Learnt(d, r, w), About(e, w, r) => Fits(w, e)
  PROVE  Learnt(ApplyEvent(d, e), r, Heard(w, e, r))
<1> DEFINE y == MergeObservation(d, e.urn, e.fingerprint, e.present, e.at)
           x == BindEvidence(y, e)
           u == NextView(w, e)
           q == [local |-> y.observations[e.urn].id, urn |-> e.urn,
                 fingerprint |-> e.fingerprint, present |-> e.present]
<1>1. /\ e.urn \in Records /\ e.id \in Nat /\ e.fingerprint \in Contents
      /\ e.present \in Presence /\ e.at \in Nat /\ d \in Database
  BY EventFields DEF Sound
<1>2. ApplyEvent(d, e) = x
  BY DEF ApplyEvent, ApplyObservation
<1>3. About(e, w, r) <=> e.urn = r
  BY DEF About
<1>4. Knows(d, r, w)
  BY DEF Learnt
<1>5. y = d \/ Observed(d, y, e.urn, e.fingerprint, e.present, e.at)
  <2>1. CASE d.observations[e.urn] # None /\ e.at < LastSeen(d.observations[e.urn])
    BY <2>1 DEF MergeObservation
  <2>2. CASE ~(d.observations[e.urn] # None /\ e.at < LastSeen(d.observations[e.urn]))
    <3>1. y = WriteObservation(d, e.urn, e.fingerprint, e.present, e.at)
      BY <2>2 DEF MergeObservation
    <3> QED BY <1>1, <3>1, WriteObservationDoes
  <2> QED BY <2>1, <2>2
<1>6. y \in Database /\ KeepsBindings(d, y)
  BY <1>1, <1>5 DEF Observed, KeepsBindings
<1>7. /\ RowKept(y, x, r) /\ x.bound = y.bound
      /\ e.id \in DOMAIN x.evidence /\ x.evidence[e.id] = q
      /\ \A i \in DOMAIN y.evidence \ {e.id} : i \in DOMAIN x.evidence /\ x.evidence[i] = y.evidence[i]
      /\ \A i \in DOMAIN x.evidence \ (DOMAIN y.evidence \cup {e.id}) : x.evidence[i] = None
  BY <1>6, BindEvidenceBinds
<1>8. \A i \in DOMAIN d.evidence : i # 0
  <2>1. d.evidence \in Seq(Evidence \cup {None})
    BY <1>1 DEF Database
  <2> QED BY <2>1
<1>9. CASE e.urn = r
  <2>1. w.id # 0 => w.id = e.id /\ w.seen <= e.at
    BY <1>3, <1>9 DEF Fits
  <2>2. d.observations[r] # None => LastSeen(d.observations[r]) <= e.at
    BY <1>4, <2>1 DEF Knows
  <2>3. ~(d.observations[r] # None /\ e.at < LastSeen(d.observations[r]))
    BY <1>1, <2>2, HeadTypes
  <2>4. y = WriteObservation(d, r, e.fingerprint, e.present, e.at)
    BY <1>9, <2>3 DEF MergeObservation
  <2>5. Observed(d, y, r, e.fingerprint, e.present, e.at)
    BY <1>1, <2>4, WriteObservationDoes
  <2> HIDE DEF y
  <2>6. Knows(y, r, u)
    BY <1>1, <1>4, <2>2, <2>5, KnowsObserved
  <2>7. u.id = e.id /\ u.fingerprint = e.fingerprint /\ u.present = e.present /\ u.head = w.head
    BY NextViewDoes
  <2> HIDE DEF x, u
  <2>8. Knows(x, r, u)
    BY <1>7, <2>6, KnowsKept
  <2>9. x.bound[r] = u.head
    BY <1>6, <1>7, <2>7 DEF Learnt, KeepsBindings
  <2>10. ASSUME NEW i \in DOMAIN x.evidence, x.evidence[i] # None, x.evidence[i].urn = r
         PROVE i = u.id
    <3>1. CASE i = e.id
      BY <2>7, <3>1
    <3>2. CASE i # e.id
      <4>1. i \in DOMAIN d.evidence /\ x.evidence[i] = d.evidence[i]
        BY <1>6, <1>7, <2>10, <3>2 DEF KeepsBindings
      <4>2. i = w.id
        BY <2>10, <4>1 DEF Learnt
      <4> QED BY <1>8, <2>1, <3>2, <4>1, <4>2
    <3> QED BY <3>1, <3>2
  <2>11. x.evidence[u.id] = [local |-> x.observations[r].id, urn |-> r,
                             fingerprint |-> u.fingerprint, present |-> u.present]
    <3>1. x.observations[r] = y.observations[r]
      BY <1>7 DEF RowKept
    <3> QED BY <1>7, <1>9, <2>7, <3>1
  <2>12. Learnt(x, r, u)
    BY <1>7, <2>7, <2>8, <2>9, <2>10, <2>11 DEF Learnt
  <2> QED BY <1>2, <1>3, <1>9, <2>12 DEF Heard, x, u
<1>10. CASE e.urn # r
  <2>1. RowKept(d, y, r)
    <3>1. CASE y = d
      BY <3>1 DEF RowKept
    <3>2. CASE Observed(d, y, e.urn, e.fingerprint, e.present, e.at)
      BY <1>1, <1>10, <3>2, ObservedOthers
    <3> QED BY <1>5, <3>1, <3>2
  <2> HIDE DEF y
  <2>2. w.id # 0 => w.id # e.id
    <3>1. ASSUME w.id # 0, w.id = e.id PROVE FALSE
      <4>1. e.id \in DOMAIN d.evidence
            /\ d.evidence[e.id] = [local |-> d.observations[r].id, urn |-> r,
                                   fingerprint |-> w.fingerprint, present |-> w.present]
        BY <3>1 DEF Learnt
      <4>2. d.evidence[e.id].urn = r
        BY <4>1
      <4>3. d.evidence[e.id] # None
        <5>1. d.observations[r] # None
          BY <1>4, <3>1 DEF Knows
        <5>2. d.observations[r].id \in Nat
          <6>1. d.observations[r] \in Observation
            BY <1>1, <5>1, HeadTypes
          <6> QED BY <6>1 DEF Observation
        <5>3. w.fingerprint \in Contents /\ w.present \in Presence
          <6>1. d.observations[r] \in Observation
            BY <1>1, <5>1, HeadTypes
          <6> QED BY <1>4, <5>1, <6>1 DEF Knows, Observation
        <5>4. d.evidence[e.id] \in Evidence
          BY <4>1, <5>2, <5>3 DEF Evidence
        <5> QED BY <5>4, NoneAssumption
      <4> QED BY <1>10, <4>1, <4>2, <4>3 DEF Applicable
    <3> QED BY <3>1
  <2> HIDE DEF x
  <2>3. RowKept(d, x, r) /\ x.bound[r] = d.bound[r]
    BY <1>6, <1>7, <2>1 DEF RowKept, KeepsBindings
  <2>4. Knows(x, r, w)
    BY <1>4, <2>3, KnowsKept
  <2>5. ASSUME NEW i \in DOMAIN x.evidence, x.evidence[i] # None, x.evidence[i].urn = r
        PROVE i = w.id
    <3>1. i # e.id
      <4>1. q.urn = e.urn
        OBVIOUS
      <4> QED BY <1>7, <1>10, <2>5, <4>1
    <3>2. i \in DOMAIN d.evidence /\ x.evidence[i] = d.evidence[i]
      BY <1>6, <1>7, <2>5, <3>1 DEF KeepsBindings
    <3> QED BY <2>5, <3>2 DEF Learnt
  <2>6. ASSUME w.id # 0
        PROVE /\ w.id \in DOMAIN x.evidence
              /\ x.evidence[w.id] = [local |-> x.observations[r].id, urn |-> r,
                                     fingerprint |-> w.fingerprint, present |-> w.present]
    <3>1. /\ w.id \in DOMAIN d.evidence
          /\ d.evidence[w.id] = [local |-> d.observations[r].id, urn |-> r,
                                 fingerprint |-> w.fingerprint, present |-> w.present]
      BY <2>6 DEF Learnt
    <3>2. x.observations[r] = d.observations[r]
      BY <2>3 DEF RowKept
    <3>3. w.id \in DOMAIN x.evidence /\ x.evidence[w.id] = d.evidence[w.id]
      BY <1>6, <1>7, <2>2, <2>6, <3>1 DEF KeepsBindings
    <3> QED BY <3>1, <3>2, <3>3
  <2>7. x.bound[r] = w.head
    BY <2>3 DEF Learnt
  <2>8. Learnt(x, r, w)
    BY <2>4, <2>5, <2>6, <2>7 DEF Learnt
  <2> QED BY <1>2, <1>3, <1>10, <2>8 DEF Heard, x
<1> QED BY <1>9, <1>10

LEMMA LearnObservationRefresh ==
  ASSUME NEW d, NEW W, Sound(d, W), NEW e \in Event, e.op = "observation_refresh",
         NEW r \in Records,
         NEW w \in View, Learnt(d, r, w), About(e, w, r) => Fits(w, e)
  PROVE  Learnt(ApplyEvent(d, e), r, Heard(w, e, r))
<1> DEFINE t == Revalidate(d)
           q == t.evidence[e.id]
           y == StampObservation(t, q.urn, e.at)
           x == IF e.id \in t.eligibleIds THEN y ELSE t
           u == NextView(w, e)
<1>1. e.id \in Nat /\ e.at \in Nat
  BY EventFields
<1>2. ApplyEvent(d, e) = x
  BY DEF ApplyEvent, ApplyObservationRefresh
<1>3. /\ Sound(t, W) /\ SameHeads(d, t) /\ KeepsBindings(d, t)
      /\ t.observations = d.observations
      /\ \A s \in Records : (s \in t.eligible) <=> HeadMatches(t, s)
      /\ \A i : (i \in t.eligibleIds) <=> EvidenceMatches(t, i)
  BY RevalidateDoes
<1> HIDE DEF t
<1>4. Learnt(t, r, w)
  <2>1. RowKept(d, t, r)
    BY <1>3 DEF RowKept, SameHeads
  <2> QED BY <1>3, <2>1, LearntKept
<1>5. t \in Database /\ Knows(t, r, w)
  BY <1>3, <1>4 DEF Sound, Learnt
<1>6. About(e, w, r) <=> e.id = w.id
  BY DEF About
<1>7. CASE e.id = w.id
  <2>1. w.id # 0
    BY <1>6, <1>7 DEF Fits
  <2>2. /\ w.id \in DOMAIN t.evidence
        /\ q = [local |-> t.observations[r].id, urn |-> r,
                fingerprint |-> w.fingerprint, present |-> w.present]
    BY <1>4, <1>7, <2>1 DEF Learnt
  <2>3. /\ t.observations[r] # None /\ t.observations[r].fingerprint = w.fingerprint
        /\ t.observations[r].present = w.present
    BY <1>5, <2>1 DEF Knows
  <2>4. q \in Evidence
    <3>1. t.observations[r] \in Observation
      BY <1>5, <2>3, HeadTypes
    <3> QED BY <2>2, <2>3, <3>1 DEF Observation, Evidence
  <2>5. q # None /\ q.urn = r /\ IsRow(t.observations[q.urn], q)
    BY <2>2, <2>3, <2>4, NoneAssumption DEF IsRow
  <2> HIDE DEF q
  <2>6. EvidenceMatches(t, e.id)
    BY <1>5, <1>7, <2>2, <2>5, EvidenceRow DEF q
  <2>7. x = y
    BY <1>3, <2>6
  <2>8. Stamped(t, y, r, e.at)
    BY <1>1, <1>5, <2>3, <2>5, StampObservationDoes
  <2> HIDE DEF y
  <2>9. Knows(y, r, u) /\ y.observations[r].id = t.observations[r].id
    BY <1>1, <1>5, <2>3, <2>8, KnowsStamped
  <2>10. /\ u.head = w.head /\ u.fingerprint = w.fingerprint /\ u.present = w.present
         /\ u.id = w.id
    BY NextViewDoes
  <2>11. KeepsBindings(t, y)
    BY <2>8 DEF Stamped
  <2> HIDE DEF x, u
  <2>12. Learnt(y, r, u)
    BY <1>4, <2>9, <2>10, <2>11 DEF Learnt, KeepsBindings
  <2> QED BY <1>2, <1>6, <1>7, <2>7, <2>12 DEF Heard, u
<1>8. CASE e.id # w.id
  <2>1. Learnt(x, r, w)
    <3>1. CASE e.id \in t.eligibleIds
      <4>1. /\ e.id \in DOMAIN t.evidence /\ q # None
            /\ IsRow(t.observations[q.urn], q)
        BY <1>3, <1>5, <3>1, EvidenceRow
      <4>2. q \in Evidence
        <5>1. t.evidence \in Seq(Evidence \cup {None})
          BY <1>5 DEF Database
        <5> QED BY <4>1, <5>1
      <4>3. q.urn \in Records /\ q.urn # r
        BY <1>4, <1>8, <4>1, <4>2 DEF Evidence, Learnt
      <4> HIDE DEF q
      <4>4. Stamped(t, y, q.urn, e.at)
        BY <1>1, <1>5, <4>1, <4>3, StampObservationDoes DEF IsRow
      <4> HIDE DEF y
      <4>5. RowKept(t, y, r) /\ KeepsBindings(t, y)
        BY <1>5, <4>3, <4>4, ObservedOthers
      <4>6. Learnt(y, r, w)
        BY <1>4, <4>5, LearntKept
      <4> QED BY <3>1, <4>6
    <3>2. CASE e.id \notin t.eligibleIds
      BY <1>4, <3>2
    <3> QED BY <3>1, <3>2
  <2> HIDE DEF x
  <2> QED BY <1>2, <1>6, <1>8, <2>1 DEF Heard
<1> QED BY <1>7, <1>8

\* Whatever the next event is, a replica learns of the record what it tells.
LEMMA EventLearnt ==
  ASSUME NEW d, NEW W, Sound(d, W), NEW e \in Event, Applicable(d, e),
         e.op = "observation" => e.id # 0, NEW r \in Records,
         NEW w \in View, Learnt(d, r, w), About(e, w, r) => Fits(w, e)
  PROVE  Learnt(ApplyEvent(d, e), r, Heard(w, e, r))
<1>1. e.op \in {"record", "revision", "record_refresh", "observation", "observation_refresh"}
  BY EventFields
<1> QED BY <1>1, LearnRecord, LearnRevision, LearnRecordRefresh, LearnObservation,
           LearnObservationRefresh

\* A batch (apply_events).
LEMMA ImportLearnt ==
  ASSUME NEW d, NEW W, NEW J \in Seq(Event), JournalFaithful(J, W),
         NEW n \in Nat, NEW m \in n .. Len(J), Follows(d, J, n, W),
         NEW r \in Records, NEW g, Told(J, r, g), Learnt(d, r, g[n])
  PROVE  Learnt(ApplyEvents(d, SubSeq(J, n + 1, m)), r, g[m])
<1> DEFINE batch == SubSeq(J, n + 1, m)
           x == Replay(d, batch)
           R == [k \in n .. m |-> {y \in Database : Learnt(y, r, g[k])}]
<1>1. m \in Nat /\ n <= m /\ m <= Len(J) /\ Len(J) \in Nat
  OBVIOUS
<1>2. Sound(d, W) /\ Bindings(d, J, n) /\ d \in Database
  BY DEF Follows, Sound
<1>3. \A k \in n + 1 .. m : FaithfulAt(J, k, W)
  BY <1>1 DEF JournalFaithful
<1>4. d \in R[n]
  BY <1>1, <1>2
<1>5. ASSUME NEW k \in n + 1 .. m, NEW y \in R[k - 1],
             Sound(y, W), Bindings(y, J, k - 1), Steps(y, J, k - 1, W)
      PROVE ApplyEvent(y, J[k]) \in R[k]
  <2> DEFINE l == k - 1
  <2>1. /\ k \in Nat /\ k \in 1 .. Len(J) /\ k \in n .. m /\ l \in Nat /\ l + 1 = k /\ l \in n .. m
        /\ l \in 0 .. Len(J) /\ J[k] \in Event
    BY <1>1
  <2> HIDE DEF l
  <2>2. Learnt(y, r, g[l]) /\ y \in R[l]
    BY <1>5, <2>1 DEF l
  <2>3. g[l] \in View /\ (About(J[k], g[l], r) => Fits(g[l], J[k]))
        /\ g[k] = Heard(g[l], J[k], r)
    BY <2>1 DEF Told, l
  <2>4. Steps(y, J, l, W)
    BY <1>5 DEF l
  <2>5. Applicable(y, J[k]) /\ Sound(ApplyEvent(y, J[k]), W)
    BY <2>1, <2>4 DEF Steps
  <2>6. J[k].op = "observation" => J[k].id # 0
    BY <1>3 DEF FaithfulAt
  <2>7. Learnt(ApplyEvent(y, J[k]), r, g[k])
    BY <1>5, <2>1, <2>2, <2>3, <2>5, <2>6, EventLearnt
  <2> QED BY <2>1, <2>5, <2>7 DEF Sound
<1> HIDE DEF R
<1>6. x # None /\ Sound(x, W) /\ Bindings(x, J, m) /\ x \in R[m]
  BY <1>2, <1>3, <1>4, <1>5, BatchLeads
<1>7. Learnt(x, r, g[m])
  BY <1>1, <1>6 DEF R
<1> HIDE DEF x, batch
<1> DEFINE z == Revalidate(x)
<1>8. /\ Sound(z, W) /\ SameHeads(x, z) /\ KeepsBindings(x, z)
      /\ z.observations = x.observations
      /\ \A s \in Records : (s \in z.eligible) <=> HeadMatches(z, s)
      /\ \A i : (i \in z.eligibleIds) <=> EvidenceMatches(z, i)
  BY <1>6, RevalidateDoes
<1>9. ApplyEvents(d, batch) = z
  BY <1>6 DEF ApplyEvents, x
<1> HIDE DEF z
<1>10. RowKept(x, z, r)
  BY <1>8 DEF RowKept, SameHeads
<1>11. Learnt(z, r, g[m])
  BY <1>7, <1>8, <1>10, LearntKept
<1> QED BY <1>9, <1>11 DEF batch

(* What the Collector's own writes tell of a record. ************************)

\* What J tells of r can be continued to what K tells of it, from w to v.
Turns(J, K, r, w, v) ==
  \A g : Told(J, r, g) /\ g[Len(J)] = w =>
    \E h : /\ Told(K, r, h) /\ h[Len(K)] = v
           /\ \A k \in 0 .. Len(J) : h[k] = g[k]

\* d became x: the journal tells of r whatever changed.
Tells(d, x, r) ==
  \A w \in View : Holds(d, r, w) =>
    \E v \in View : Holds(x, r, v) /\ Turns(d.journal, x.journal, r, w, v)

LEMMA TurnsNot ==
  ASSUME NEW J, NEW r, NEW w
  PROVE  Turns(J, J, r, w, w)
BY DEF Turns

LEMMA TurnsTwice ==
  ASSUME NEW J, NEW K, NEW M, Len(J) \in Nat, Len(K) \in Nat, Len(J) <= Len(K),
         NEW r, NEW w, NEW v, NEW u, Turns(J, K, r, w, v), Turns(K, M, r, v, u)
  PROVE  Turns(J, M, r, w, u)
<1> SUFFICES ASSUME NEW g, Told(J, r, g), g[Len(J)] = w
             PROVE \E h : /\ Told(M, r, h) /\ h[Len(M)] = u
                          /\ \A k \in 0 .. Len(J) : h[k] = g[k]
  BY DEF Turns
<1>1. PICK h : /\ Told(K, r, h) /\ h[Len(K)] = v
               /\ \A k \in 0 .. Len(J) : h[k] = g[k]
  BY DEF Turns
<1>2. PICK i : /\ Told(M, r, i) /\ i[Len(M)] = u
               /\ \A k \in 0 .. Len(K) : i[k] = h[k]
  BY <1>1 DEF Turns
<1>3. \A k \in 0 .. Len(J) : i[k] = g[k]
  BY <1>1, <1>2
<1> QED BY <1>2, <1>3

LEMMA TurnsAppend ==
  ASSUME NEW J \in Seq(Event), NEW e \in Event, NEW r, NEW w \in View,
         About(e, w, r) => Fits(w, e)
  PROVE  Heard(w, e, r) \in View /\ Turns(J, Append(J, e), r, w, Heard(w, e, r))
<1> DEFINE v == Heard(w, e, r)
           K == Append(J, e)
           n == Len(J)
<1>1. v \in View
  BY NextViewDoes DEF Heard
<1>2. /\ n \in Nat /\ Len(K) = n + 1 /\ K[n + 1] = e /\ \A k \in 1 .. n : K[k] = J[k]
  OBVIOUS
<1> SUFFICES ASSUME NEW g, Told(J, r, g), g[Len(J)] = w
             PROVE \E h : /\ Told(K, r, h) /\ h[Len(K)] = v
                          /\ \A k \in 0 .. Len(J) : h[k] = g[k]
  BY <1>1 DEF Turns
<1> DEFINE h == [k \in 0 .. n + 1 |-> IF k = n + 1 THEN v ELSE g[k]]
<1>3. h[n + 1] = v /\ \A k \in 0 .. n : h[k] = g[k]
  BY <1>2
<1>4. g[0] = Blank /\ \A k \in 0 .. n : g[k] \in View
  BY DEF Told
<1>5. g[n] = w
  OBVIOUS
<1> HIDE DEF h, K, n
<1>6. ASSUME NEW k \in 1 .. n + 1
      PROVE /\ About(K[k], h[k - 1], r) => Fits(h[k - 1], K[k])
            /\ h[k] = Heard(h[k - 1], K[k], r)
  <2>1. CASE k = n + 1
    <3>1. h[k - 1] = w
      BY <1>2, <1>3, <1>5, <2>1
    <3>2. K[k] = e /\ h[k] = Heard(w, e, r)
      BY <1>2, <1>3, <2>1
    <3> QED BY <3>1, <3>2
  <2>2. CASE k \in 1 .. n
    <3>1. K[k] = J[k] /\ h[k] = g[k] /\ h[k - 1] = g[k - 1]
      BY <1>2, <1>3, <2>2
    <3>2. /\ About(J[k], g[k - 1], r) => Fits(g[k - 1], J[k])
          /\ g[k] = Heard(g[k - 1], J[k], r)
      BY <2>2 DEF Told, n
    <3> QED BY <3>1, <3>2
  <2> QED BY <1>2, <2>1, <2>2
<1>7. h[0] = Blank /\ \A k \in 0 .. n + 1 : h[k] \in View
  BY <1>1, <1>2, <1>3, <1>4
<1>8. Told(K, r, h) /\ h[Len(K)] = v
  BY <1>2, <1>3, <1>6, <1>7 DEF Told
<1> QED BY <1>3, <1>8 DEF n

LEMMA TellsNothing ==
  ASSUME NEW d, NEW x, NEW r, RowKept(d, x, r), x.journal = d.journal
  PROVE  Tells(d, x, r)
BY HoldsKept, TurnsNot DEF Tells

LEMMA TellsTwice ==
  ASSUME NEW d, NEW x, NEW y, Len(d.journal) \in Nat, Len(x.journal) \in Nat,
         Len(d.journal) <= Len(x.journal), NEW r, Tells(d, x, r), Tells(x, y, r)
  PROVE  Tells(d, y, r)
<1> SUFFICES ASSUME NEW w \in View, Holds(d, r, w)
             PROVE \E v \in View : Holds(y, r, v) /\ Turns(d.journal, y.journal, r, w, v)
  BY DEF Tells
<1>1. PICK v \in View : Holds(x, r, v) /\ Turns(d.journal, x.journal, r, w, v)
  BY DEF Tells
<1>2. PICK u \in View : Holds(y, r, u) /\ Turns(x.journal, y.journal, r, v, u)
  BY <1>1 DEF Tells
<1> QED BY <1>1, <1>2, TurnsTwice

LEMMA TellsOne ==
  ASSUME NEW d, d.journal \in Seq(Event), NEW x, NEW e \in Event, x.journal = Append(d.journal, e),
         NEW r,
         \A w \in View : Holds(d, r, w) =>
           (About(e, w, r) => Fits(w, e)) /\ Holds(x, r, Heard(w, e, r))
  PROVE  Tells(d, x, r)
BY TurnsAppend DEF Tells

\* The three things that an own write of a content does.
LEMMA UpsertCases ==
  ASSUME NEW d \in Database, NEW s \in Records, NEW v \in Contents, NEW at \in Nat
  PROVE  LET x == Upsert(d, s, v, at, "sync", {})
         IN \/ x = d
            \/ d.head[s] # None /\ x = RefreshRecord(d, s, at)
            \/ Wrote(d, x, s, v, at) /\ (d.head[s] # None => d.head[s].digest # v)
<1> DEFINE x == Upsert(d, s, v, at, "sync", {})
<1>1. CASE d.head[s] # None /\ d.head[s].digest = v
  BY <1>1 DEF Upsert
<1>2. CASE d.head[s] # None => d.head[s].digest # v
  <2> SUFFICES Wrote(d, x, s, v, at)
    BY <1>2
  <2> DEFINE sync == "sync"
             none == {}
  <2>1. sync # "import"
    OBVIOUS
  <2>2. x = Upsert(d, s, v, at, sync, none)
    OBVIOUS
  <2> HIDE DEF x, sync, none
  <2> QED BY <1>2, <2>1, <2>2, UpsertWrites
<1> QED BY <1>1, <1>2

LEMMA UpsertTells ==
  ASSUME NEW d, NEW W, Sound(d, W), NEW s \in Records, NEW v \in Contents, NEW at \in Nat,
         d.head[s] # None => EffectiveTime(d, s) <= at, NEW r \in Records
  PROVE  Tells(d, Upsert(d, s, v, at, "sync", {}), r)
<1> DEFINE x == Upsert(d, s, v, at, "sync", {})
<1>1. d \in Database /\ d.journal \in Seq(Event)
  BY DEF Sound, Database
<1>2. r # s => RowKept(d, x, r)
  BY <1>1, UpsertOthers
<1>3. \/ x = d
      \/ d.head[s] # None /\ x = RefreshRecord(d, s, at)
      \/ Wrote(d, x, s, v, at) /\ (d.head[s] # None => d.head[s].digest # v)
  BY <1>1, UpsertCases
<1> SUFFICES Tells(d, x, r)
  OBVIOUS
<1> HIDE DEF x
<1>4. CASE x = d
  BY <1>4, TellsNothing DEF RowKept
<1>5. CASE d.head[s] # None /\ x = RefreshRecord(d, s, at)
  <2> DEFINE e == [op |-> "record_refresh", urn |-> s, at |-> at]
  <2>1. e \in Event /\ e.op = "record_refresh" /\ e.urn = s /\ e.at = at
    BY EventTypes
  <2>2. x.journal = Append(d.journal, e) /\ x.observations = d.observations
    <3> DEFINE y == RefreshRecord(d, s, at)
    <3>1. /\ y \in Database
          /\ KeepsBindings(d, y) /\ SameIndex(d, y)
          /\ y.head = d.head /\ y.observations = d.observations
          /\ y.sighted = [d.sighted EXCEPT ![s] = Later(@, at)]
          /\ y.journal = Append(d.journal, [op |-> "record_refresh", urn |-> s, at |-> at])
          /\ y.revisions = d.revisions /\ y.conflicts = d.conflicts /\ y.lastId = d.lastId
      <4>1. d \in Database
        BY <1>1
      <4> QED BY ONLY <4>1, s \in Records, at \in Nat, RefreshRecordDoes
    <3> HIDE DEF y
    <3> QED BY <1>5, <3>1 DEF y
  <2> HIDE DEF e
  <2>3. ASSUME NEW w \in View, Holds(d, r, w)
        PROVE (About(e, w, r) => Fits(w, e)) /\ Holds(x, r, Heard(w, e, r))
    <3>1. About(e, w, r) <=> r = s
      BY <2>1 DEF About
    <3>2. CASE r = s
      <4>1. Knows(d, r, w) /\ w.head # None
        BY <1>5, <2>3, <3>2 DEF Holds, Knows
      <4>2. Fits(w, e)
        BY <2>1, <4>1 DEF Fits
      <4>3. Knows(x, r, NextView(w, e))
        BY <1>1, <1>5, <2>1, <3>2, <4>1, KnowsRefreshed
      <4>4. NextView(w, e).id = w.id
        BY <2>1, NextViewDoes
      <4> QED BY <2>2, <2>3, <3>1, <3>2, <4>2, <4>3, <4>4 DEF Holds, Heard
    <3>3. CASE r # s
      BY <1>2, <2>3, <3>1, <3>3, HoldsKept DEF Heard
    <3> QED BY <3>2, <3>3
  <2> QED BY <1>1, <2>1, <2>2, <2>3, TellsOne
<1>6. CASE Wrote(d, x, s, v, at) /\ (d.head[s] # None => d.head[s].digest # v)
  <2> DEFINE old == IF d.head[s] = None THEN None ELSE d.head[s].digest
             e == RecordEvent(s, v, at, old)
             K == Append(d.journal, e)
  <2>1. old \in Contents \cup {None} /\ old # v
    BY <1>1, <1>6, HeadTypes, StoreAssumption
  <2> HIDE DEF old
  <2>2. e \in Event /\ e.op = "record" /\ e.urn = s /\ e.digest = v /\ e.at = at /\ e.previous = old
    BY <2>1, EventTypes DEF RecordEvent
  <2>3. \/ x.journal = K
        \/ \E q \in Contents \cup {None}, b \in Nat :
             x.journal = Append(K, [op |-> "revision", urn |-> s, digest |-> v,
                                    at |-> at, supersedes |-> q, body |-> b])
    BY <1>6 DEF Wrote, HeadWritten, RecordEvent, old
  <2> HIDE DEF e
  <2>4. K \in Seq(Event) /\ Len(K) \in Nat /\ Len(d.journal) \in Nat /\ Len(d.journal) <= Len(K)
    BY <1>1, <2>2
  <2> HIDE DEF K
  <2>5. ASSUME NEW w \in View, Holds(d, r, w)
        PROVE /\ About(e, w, r) => Fits(w, e) /\ Heard(w, e, r).revisions[v] # None
                                   /\ at <= Heard(w, e, r).revisions[v].at
              /\ Holds(x, r, Heard(w, e, r))
    <3>1. About(e, w, r) <=> r = s
      BY <2>2 DEF About
    <3>2. CASE r = s
      <4>1. Knows(d, r, w)
        BY <2>5 DEF Holds
      <4>2. old = w.head /\ (w.head # None => w.time <= at)
        BY <3>2, <4>1 DEF Knows, old
      <4>3. Fits(w, e)
        BY <2>1, <2>2, <4>2 DEF Fits
      <4>4. Knows(x, r, NextView(w, e))
        BY <1>6, <2>2, <3>2, <4>1, <4>2, KnowsWritten
      <4>5. NextView(w, e).id = w.id
            /\ NextView(w, e).revisions = Added(w.revisions, v, at, old)
        BY <2>2, NextViewDoes
      <4>6. w.revisions \in [Contents -> Revision \cup {None}]
        BY DEF View
      <4>7. Added(w.revisions, v, at, old)[v] # None
            /\ at <= Added(w.revisions, v, at, old)[v].at
        BY <2>1, <4>6, AddedFacts
      <4>8. x.observations = d.observations
        BY <1>6 DEF Wrote
      <4>9. Heard(w, e, r) = NextView(w, e)
        BY <3>1, <3>2 DEF Heard
      <4>10. Holds(x, r, NextView(w, e))
        BY <2>5, <4>4, <4>5, <4>8 DEF Holds
      <4> QED BY <4>3, <4>5, <4>7, <4>9, <4>10
    <3>3. CASE r # s
      BY <1>2, <2>5, <3>1, <3>3, HoldsKept DEF Heard
    <3> QED BY <3>2, <3>3
  <2>6. ASSUME NEW w \in View, Holds(d, r, w)
        PROVE /\ Heard(w, e, r) \in View /\ Holds(x, r, Heard(w, e, r))
              /\ Turns(d.journal, x.journal, r, w, Heard(w, e, r))
    <3> DEFINE u == Heard(w, e, r)
    <3>1. u \in View /\ Turns(d.journal, K, r, w, u)
      BY <1>1, <2>2, <2>5, <2>6, TurnsAppend DEF K
    <3>2. Holds(x, r, u)
      BY <2>5, <2>6
    <3>3. r = s => u.revisions[v] # None /\ at <= u.revisions[v].at
      BY <2>2, <2>5, <2>6 DEF About
    <3> HIDE DEF u
    <3>4. x.journal = K => Turns(d.journal, x.journal, r, w, u)
      BY <3>1
    <3>5. ASSUME NEW q \in Contents \cup {None}, NEW b \in Nat,
                 x.journal = Append(K, [op |-> "revision", urn |-> s, digest |-> v,
                                        at |-> at, supersedes |-> q, body |-> b])
          PROVE Turns(d.journal, x.journal, r, w, u)
      <4> DEFINE f == [op |-> "revision", urn |-> s, digest |-> v,
                       at |-> at, supersedes |-> q, body |-> b]
      <4>1. f \in Event /\ f.op = "revision" /\ f.urn = s /\ f.digest = v /\ f.at = at
        BY EventTypes
      <4>2. x.journal = Append(K, f)
        BY <3>5
      <4> HIDE DEF f
      <4>3. About(f, u, r) => Fits(u, f)
        BY <3>3, <4>1 DEF About, Fits
      <4>4. Heard(u, f, r) = u
        BY <4>1 DEF Heard, NextView
      <4>5. Turns(K, x.journal, r, u, u)
        BY <2>4, <3>1, <4>1, <4>2, <4>3, <4>4, TurnsAppend
      <4> QED BY <2>4, <3>1, <4>5, TurnsTwice
    <3>6. Turns(d.journal, x.journal, r, w, u)
      <4>1. CASE x.journal = K
        BY <3>4, <4>1
      <4>2. CASE \E q \in Contents \cup {None}, b \in Nat :
                  x.journal = Append(K, [op |-> "revision", urn |-> s, digest |-> v,
                                         at |-> at, supersedes |-> q, body |-> b])
        BY <3>5, <4>2
      <4> QED BY <2>3, <4>1, <4>2
    <3> QED BY <3>1, <3>2, <3>6 DEF u
  <2> QED BY <2>6 DEF Tells
<1> QED BY <1>3, <1>4, <1>5, <1>6

\* The row of an observation is written, and journaled when its evidence changes.
LEMMA ObservationTells ==
  ASSUME NEW d \in Database, NEW W, Logged(d, W), NEW s \in Records, NEW v \in Contents,
         NEW p \in Presence, NEW at \in Nat, NEW x, Observed(d, x, s, v, p, at),
         d.observations[s] = None \/ d.observations[s].fingerprint # v
           \/ d.observations[s].present # p,
         d.observations[s] # None => LastSeen(d.observations[s]) <= at, NEW r \in Records
  PROVE  Tells(d, x, r)
<1> DEFINE old == d.observations[s]
           id == IF old = None THEN d.lastId + 1 ELSE old.id
           e == [op |-> "observation", urn |-> s, id |-> id, fingerprint |-> v,
                 present |-> p, at |-> at]
<1>1. d.journal \in Seq(Event)
  BY DEF Database
<1>2. id \in Nat /\ id # 0
  <2>1. d.lastId \in Nat /\ (old # None => old.id \in 1 .. d.lastId)
    BY DEF Database, Logged, IdsIn
  <2> QED BY <2>1
<1>3. x.journal = Append(d.journal, e)
  BY DEF Observed
<1> HIDE DEF id
<1>4. /\ e \in Event /\ e.op = "observation" /\ e.urn = s /\ e.id = id /\ e.at = at
      /\ e.fingerprint = v /\ e.present = p
  BY <1>2, EventTypes
<1> HIDE DEF e
<1>5. ASSUME NEW w \in View, Holds(d, r, w)
      PROVE (About(e, w, r) => Fits(w, e)) /\ Holds(x, r, Heard(w, e, r))
  <2>1. About(e, w, r) <=> r = s
    BY <1>4 DEF About
  <2>2. CASE r = s
    <3>1. Knows(d, r, w)
      BY <1>5 DEF Holds
    <3>2. w.id # 0 => old # None /\ old.id = w.id /\ id = w.id /\ w.seen <= at
      BY <1>5, <2>2, <3>1 DEF Holds, Knows, id
    <3>3. Fits(w, e)
      BY <1>2, <1>4, <3>2 DEF Fits
    <3>4. Knows(x, r, NextView(w, e)) /\ x.observations[r] # None /\ x.observations[r].id = id
      BY <1>2, <1>4, <2>2, <3>1, KnowsObserved DEF id
    <3>5. NextView(w, e).id = id
      BY <1>4, NextViewDoes
    <3> QED BY <2>1, <2>2, <3>3, <3>4, <3>5 DEF Holds, Heard
  <2>3. CASE r # s
    <3>1. RowKept(d, x, r)
      BY <2>3, ObservedOthers
    <3> QED BY <1>5, <2>1, <2>3, <3>1, HoldsKept DEF Heard
  <2> QED BY <2>2, <2>3
<1> QED BY <1>1, <1>3, <1>4, <1>5, TellsOne

\* A sighting is told under the id of the row, which no other row has.
LEMMA SightingTells ==
  ASSUME NEW d \in Database, NEW W, Logged(d, W), NEW s \in Records, NEW at \in Nat,
         d.observations[s] # None, NEW x, Stamped(d, x, s, at), NEW r \in Records
  PROVE  Tells(d, x, r)
<1> DEFINE id == d.observations[s].id
           e == [op |-> "observation_refresh", id |-> id, at |-> at]
<1>1. d.journal \in Seq(Event)
  BY DEF Database
<1>2. id \in Nat /\ id # 0
  <2>1. d.lastId \in Nat /\ id \in 1 .. d.lastId
    BY DEF Database, Logged, IdsIn
  <2> QED BY <2>1
<1>3. x.journal = Append(d.journal, e)
  BY DEF Stamped
<1> HIDE DEF id
<1>4. e \in Event /\ e.op = "observation_refresh" /\ e.id = id /\ e.at = at
  BY <1>2, EventTypes
<1> HIDE DEF e
<1>5. ASSUME NEW w \in View, Holds(d, r, w)
      PROVE (About(e, w, r) => Fits(w, e)) /\ Holds(x, r, Heard(w, e, r))
  <2>1. About(e, w, r) <=> id = w.id
    BY <1>4 DEF About
  <2>2. Fits(w, e) \/ id # w.id
    BY <1>2, <1>4 DEF Fits
  <2>3. Knows(d, r, w)
    BY <1>5 DEF Holds
  <2>4. CASE r = s
    <3>1. id = w.id
      BY <1>5, <2>4 DEF Holds, id
    <3>2. Knows(x, r, NextView(w, e)) /\ x.observations[r].id = id
      BY <1>4, <2>3, <2>4, KnowsStamped DEF id
    <3>3. NextView(w, e).id = w.id
      BY <1>4, NextViewDoes
    <3> QED BY <2>1, <2>2, <3>1, <3>2, <3>3 DEF Holds, Heard
  <2>5. CASE r # s
    <3>1. RowKept(d, x, r)
      BY <2>5, ObservedOthers
    <3>2. id # w.id
      <4>1. d.observations[r] # None => d.observations[r].id # id
        BY <2>5, OneUrn DEF id
      <4>2. d.observations[r] = None => w.id = 0
        BY <2>3 DEF Knows
      <4> QED BY <1>2, <1>5, <4>1, <4>2 DEF Holds
    <3> QED BY <1>5, <2>1, <3>1, <3>2, HoldsKept DEF Heard
  <2> QED BY <2>4, <2>5
<1> QED BY <1>1, <1>3, <1>4, <1>5, TellsOne

LEMMA ObserveTells ==
  ASSUME NEW d \in Database, NEW W, Logged(d, W), NEW s \in Records, NEW v \in Contents,
         NEW at \in Nat, <<s, v, at>> \in W,
         d.observations[s] # None => LastSeen(d.observations[s]) <= at, NEW r \in Records
  PROVE  Tells(d, Observe(d, s, v, at), r)
<1> DEFINE old == d.observations[s]
           same == old # None /\ old.fingerprint = v /\ old.present = "present"
           w == WriteObservation(d, s, v, "present", at)
           y == IF same THEN d ELSE w
           x == StampObservation(y, s, at)
<1>1. Observe(d, s, v, at) = x
  BY DEF Observe
<1>2. d.journal \in Seq(Event) /\ "present" \in Presence /\ SightedContent(v, "present") = v
  BY DEF Database, Presence, SightedContent
<1>3. Observed(d, w, s, v, "present", at)
  BY <1>2, WriteObservationDoes
<1> HIDE DEF w
<1>4. ASSUME ~same
      PROVE /\ y \in Database /\ Logged(y, W) /\ Tells(d, y, r) /\ y.observations[s] # None
            /\ Len(d.journal) <= Len(y.journal)
  <2>1. y = w /\ w \in Database
    BY <1>3, <1>4 DEF Observed
  <2>2. Logged(w, W)
    BY <1>2, <1>3, ObservationLogged
  <2>3. Tells(d, w, r)
    BY <1>2, <1>3, <1>4, ObservationTells
  <2>4. w.observations[s] # None
    <3> DEFINE seen == IF old = None THEN 0 ELSE old.seen
               id == IF old = None THEN d.lastId + 1 ELSE old.id
               row == [id |-> id, fingerprint |-> v, at |-> at, seen |-> seen,
                       present |-> "present"]
    <3>1. id \in Nat /\ seen \in Nat
      <4>1. d.lastId \in Nat /\ (old # None => old \in Observation)
        BY HeadTypes DEF Database
      <4> QED BY <4>1 DEF Observation
    <3>2. w.observations = [d.observations EXCEPT ![s] = row]
      BY <1>3 DEF Observed
    <3> HIDE DEF id, seen
    <3>3. row \in Observation
      BY <1>2, <3>1 DEF Observation
    <3> HIDE DEF row
    <3> QED BY <3>2, <3>3, NoneAssumption DEF Database
  <2>5. Len(d.journal) <= Len(w.journal)
    <3>1. \E e : w.journal = Append(d.journal, e)
      BY <1>3, <1>4 DEF Observed
    <3> QED BY <1>2, <3>1
  <2> HIDE DEF y
  <2> QED BY <2>1, <2>2, <2>3, <2>4, <2>5
<1>5. ASSUME same
      PROVE /\ y \in Database /\ Logged(y, W) /\ Tells(d, y, r) /\ y.observations[s] # None
            /\ Len(d.journal) <= Len(y.journal)
  <2>1. y = d /\ d.observations[s] # None
    BY <1>5
  <2>2. Len(d.journal) \in Nat
    BY <1>2
  <2>3. Tells(d, d, r)
    BY TellsNothing DEF RowKept
  <2> HIDE DEF y
  <2> QED BY <2>1, <2>2, <2>3
<1>6. /\ y \in Database /\ Logged(y, W) /\ Tells(d, y, r) /\ y.observations[s] # None
      /\ Len(d.journal) <= Len(y.journal)
  <2> HIDE DEF y
  <2> QED BY <1>4, <1>5
<1> HIDE DEF y
<1>7. Stamped(y, x, s, at)
  BY <1>6, StampObservationDoes
<1> HIDE DEF x
<1>8. Tells(y, x, r)
  BY <1>6, <1>7, SightingTells
<1>9. Len(d.journal) \in Nat /\ Len(y.journal) \in Nat
  BY <1>2, <1>6 DEF Database
<1> QED BY <1>1, <1>6, <1>8, <1>9, TellsTwice

\* The transaction of one captured row (sync.py run_sync, capture).
LEMMA CaptureTells ==
  ASSUME NEW d, NEW W, Recorded(d, W), NEW s \in Records, NEW v \in Contents, NEW at \in Nat,
         Timed(W, at), NEW V, W \subseteq V, <<s, v, at>> \in V, NEW r \in Records
  PROVE  Tells(d, Captured(d, s, v, at), r)
<1> DEFINE y == Upsert(d, s, v, at, "sync", {})
           x == Observe(y, s, v, at)
<1>1. Sound(d, W) /\ Fresh(d, W) /\ d \in Database
  BY DEF Recorded, Sound
<1>2. Recorded(d, V)
  BY RecordedWider
<1>3. Sound(d, V) /\ Logged(d, V)
  BY <1>2 DEF Recorded
<1>4. d.head[s] # None => EffectiveTime(d, s) <= at
  BY <1>1 DEF Fresh, Timed
<1>5. d.observations[s] # None => LastSeen(d.observations[s]) <= at
  BY <1>1 DEF Fresh, Timed
<1>6. Tells(d, y, r)
  BY <1>1, <1>4, UpsertTells
<1>7. Logged(y, V) /\ Grows(d.journal, y.journal, at)
  BY <1>3, UpsertLogged DEF Sound
<1>8. y \in Database /\ y.observations = d.observations
  BY <1>1, UpsertDoes
<1> HIDE DEF y
<1>9. Tells(y, x, r)
  BY <1>5, <1>7, <1>8, ObserveTells
<1>10. Len(d.journal) \in Nat /\ Len(y.journal) \in Nat /\ Len(d.journal) <= Len(y.journal)
  <2>1. d.journal \in Seq(Event) /\ y.journal \in Seq(Event)
    BY <1>1, <1>8 DEF Database
  <2> QED BY <1>7, <2>1 DEF Grows
<1>11. Tells(d, x, r)
  BY <1>6, <1>9, <1>10, TellsTwice
<1> QED BY <1>11 DEF Captured, x, y

\* Reconciliation tells of every row that it marks, once (mark_absent).
LEMMA AbsentTells ==
  ASSUME NEW d, NEW W, Recorded(d, W), NEW at \in Nat, NEW r \in Records
  PROVE  Tells(d, MarkAbsent(d, at), r)
<1> DEFINE U == Unseen(d, at)
           rows == SetToSeq(U)
           J == d.journal
           n == Len(J)
           m == Len(rows)
           G == [i \in 1 .. m |-> GoneEvent(d, rows[i], at)]
           x == MarkAbsent(d, at)
           K == x.journal
<1> SUFFICES Tells(d, x, r)
  OBVIOUS
<1>1. d \in Database /\ J \in Seq(Event) /\ n \in Nat /\ n = Len(J)
  BY DEF Recorded, Sound, Database
<1>2. IsFiniteSet(U)
  BY StoreAssumption, FS_Subset DEF Unseen
<1>3. /\ m \in Nat /\ rows \in [1 .. m -> U]
      /\ \A i, j \in 1 .. m : rows[i] = rows[j] => i = j
      /\ \A s \in U : \E i \in 1 .. m : rows[i] = s
  BY <1>2, SetToSeqBijects
<1>4. MarkedAbsent(d, x, at)
  BY <1>1, MarkAbsentDoes
<1>5. /\ x \in Database /\ SameHeads(d, x) /\ K = J \o G
      /\ x.observations = [s \in Records |-> IF s \in U THEN GoneRow(d, s, at)
                                             ELSE d.observations[s]]
  BY <1>4 DEF MarkedAbsent
<1> HIDE DEF x, rows, m
<1>6. \A i \in 1 .. m : /\ rows[i] \in U /\ G[i] \in Event
                        /\ G[i] = GoneEvent(d, rows[i], at)
  BY <1>1, <1>3, GoneTypes
<1>7. G \in Seq(Event) /\ Len(G) = m
  BY <1>3, <1>6
<1> HIDE DEF G, K, J, n
<1>8. /\ Len(K) = n + m /\ \A i \in 1 .. n : K[i] = J[i]
      /\ \A i \in 1 .. m : K[n + i] = G[i]
  BY <1>1, <1>5, <1>7, JoinFacts
<1>9. \A i \in 1 .. m : \A w : About(G[i], w, r) <=> rows[i] = r
  <2> TAKE i \in 1 .. m
  <2> DEFINE e == GoneEvent(d, rows[i], at)
  <2>1. e.op = "observation" /\ e.urn = rows[i]
    BY DEF GoneEvent
  <2>2. G[i] = e
    BY <1>6
  <2> HIDE DEF e
  <2> QED BY <2>1, <2>2 DEF About
<1> HIDE DEF U
<1> SUFFICES ASSUME NEW w \in View, Holds(d, r, w)
             PROVE \E v \in View : Holds(x, r, v) /\ Turns(J, K, r, w, v)
  BY DEF Tells, J, K
<1>10. Knows(d, r, w)
  BY DEF Holds
<1>11. CASE r \notin U
  <2>1. RowKept(d, x, r)
    BY <1>5, <1>11 DEF RowKept, SameHeads
  <2>2. Holds(x, r, w)
    BY <2>1, HoldsKept
  <2>3. ASSUME NEW g, Told(J, r, g), g[Len(J)] = w
        PROVE \E h : /\ Told(K, r, h) /\ h[Len(K)] = w
                     /\ \A k \in 0 .. Len(J) : h[k] = g[k]
    <3> DEFINE h == [k \in 0 .. n + m |-> IF k <= n THEN g[k] ELSE w]
    <3>1. /\ \A k \in 0 .. n : h[k] = g[k]
          /\ \A k \in n .. n + m : h[k] = w
      BY <1>1, <1>3, <2>3 DEF n
    <3> HIDE DEF h
    <3>2. \A k \in 0 .. n + m : h[k] \in View
      BY <1>1, <1>3, <2>3, <3>1 DEF Told, n
    <3>3. ASSUME NEW k \in 1 .. n + m
          PROVE /\ About(K[k], h[k - 1], r) => Fits(h[k - 1], K[k])
                /\ h[k] = Heard(h[k - 1], K[k], r)
      <4>1. CASE k \in 1 .. n
        <5>1. K[k] = J[k] /\ h[k] = g[k] /\ h[k - 1] = g[k - 1]
          BY <1>1, <1>8, <3>1, <4>1
        <5> QED BY <2>3, <4>1, <5>1 DEF Told, n
      <4>2. CASE k \in n + 1 .. n + m
        <5>1. PICK i \in 1 .. m : k = n + i
          <6>1. k - n \in 1 .. m /\ k = n + (k - n)
            BY <1>1, <1>3, <4>2
          <6> QED BY <6>1
        <5>2. K[k] = G[i] /\ h[k] = w /\ h[k - 1] = w
          <6>1. K[k] = G[i]
            BY <1>8, <5>1
          <6>2. k \in n .. n + m /\ k - 1 \in n .. n + m
            BY <1>1, <1>3, <4>2
          <6> QED BY <3>1, <6>1, <6>2
        <5>3. ~About(K[k], w, r)
          BY <1>6, <1>9, <1>11, <5>2
        <5> QED BY <5>2, <5>3 DEF Heard
      <4> QED BY <1>1, <1>3, <4>1, <4>2
    <3>4. h[0] = Blank /\ h[n + m] = w
      BY <1>1, <1>3, <2>3, <3>1 DEF Told
    <3>5. Told(K, r, h)
      BY <1>8, <3>2, <3>3, <3>4 DEF Told
    <3> QED BY <1>8, <3>1, <3>4, <3>5 DEF n
  <2> QED BY <2>2, <2>3 DEF Turns
<1>12. CASE r \in U
  <2>1. PICK p \in 1 .. m : rows[p] = r /\ \A i \in 1 .. m : rows[i] = r => i = p
    BY <1>3, <1>12
  <2> DEFINE e == GoneEvent(d, r, at)
             v == NextView(w, e)
             o == d.observations[r]
             y == GoneRow(d, r, at)
  <2>2. /\ o \in Observation /\ o # None /\ LastSeen(o) < at
        /\ y \in Observation /\ y # None
        /\ y.id = o.id /\ y.fingerprint = o.fingerprint
        /\ y.present = "absent_from_source" /\ LastSeen(y) = at
        /\ e \in Event
    BY <1>1, <1>12, GoneTypes DEF U
  <2>3. /\ e.op = "observation" /\ e.urn = r /\ e.id = o.id /\ e.fingerprint = o.fingerprint
        /\ e.present = "absent_from_source" /\ e.at = at
    BY DEF GoneEvent
  <2>4. x.observations[r] = y
    BY <1>5, <1>12
  <2> HIDE DEF e, y
  <2>5. /\ w.id # 0 /\ o.id = w.id /\ w.fingerprint = o.fingerprint /\ w.seen = LastSeen(o)
    BY <1>10, <2>2 DEF Holds, Knows
  <2>6. Fits(w, e)
    <3>1. LastSeen(o) \in Nat
      BY <1>1, <2>2, HeadTypes
    <3> HIDE DEF o
    <3>2. w.seen <= at
      BY <2>2, <2>5, <3>1
    <3> QED BY <2>3, <2>5, <3>2 DEF Fits
  <2>7. /\ v \in View /\ v.id = o.id /\ v.fingerprint = o.fingerprint
        /\ v.present = "absent_from_source" /\ v.seen = at
        /\ v.head = w.head /\ v.time = w.time /\ v.revisions = w.revisions
    BY <2>2, <2>3, NextViewDoes
  <2> HIDE DEF v
  <2>8. Holds(x, r, v)
    <3>1. /\ x.head[r] = d.head[r] /\ x.sighted[r] = d.sighted[r] /\ x.revisions[r] = d.revisions[r]
      BY <1>5 DEF SameHeads
    <3>2. EffectiveTime(x, r) = EffectiveTime(d, r)
      BY <3>1 DEF EffectiveTime
    <3>3. Knows(x, r, v)
      BY <1>10, <2>2, <2>4, <2>5, <2>7, <3>1, <3>2 DEF Knows
    <3> QED BY <2>2, <2>4, <2>7, <3>3 DEF Holds
  <2>9. ASSUME NEW g, Told(J, r, g), g[Len(J)] = w
        PROVE \E h : /\ Told(K, r, h) /\ h[Len(K)] = v
                     /\ \A k \in 0 .. Len(J) : h[k] = g[k]
    <3> DEFINE h == [k \in 0 .. n + m |-> IF k <= n THEN g[k] ELSE IF k < n + p THEN w ELSE v]
    <3>1. /\ \A k \in 0 .. n : h[k] = g[k]
          /\ \A k \in n .. n + (p - 1) : h[k] = w
          /\ \A k \in n + p .. n + m : h[k] = v
      BY <1>1, <1>3, <2>9 DEF n
    <3> HIDE DEF h
    <3>2. \A k \in 0 .. n + m : h[k] \in View
      <4> TAKE k \in 0 .. n + m
      <4>1. k \in 0 .. n \/ k \in n .. n + (p - 1) \/ k \in n + p .. n + m
        BY <1>1, <1>3
      <4> QED BY <2>7, <2>9, <3>1, <4>1 DEF Told, n
    <3>3. ASSUME NEW k \in 1 .. n + m
          PROVE /\ About(K[k], h[k - 1], r) => Fits(h[k - 1], K[k])
                /\ h[k] = Heard(h[k - 1], K[k], r)
      <4>1. CASE k \in 1 .. n
        <5>1. K[k] = J[k] /\ h[k] = g[k] /\ h[k - 1] = g[k - 1]
          BY <1>1, <1>8, <3>1, <4>1
        <5> QED BY <2>9, <4>1, <5>1 DEF Told, n
      <4>2. CASE k \in n + 1 .. n + m
        <5>1. PICK i \in 1 .. m : k = n + i
          <6>1. k - n \in 1 .. m /\ k = n + (k - n)
            BY <1>1, <1>3, <4>2
          <6> QED BY <6>1
        <5>2. K[k] = G[i]
          BY <1>8, <5>1
        <5>3. CASE i = p
          <6>1. h[k] = v /\ h[k - 1] = w
            BY <1>1, <1>3, <3>1, <5>1, <5>3
          <6>2. K[k] = e /\ About(K[k], w, r)
            BY <1>6, <1>9, <2>1, <5>2, <5>3 DEF e
          <6> QED BY <2>6, <6>1, <6>2 DEF Heard, v
        <5>4. CASE i # p
          <6>1. h[k] = h[k - 1]
            <7>1. CASE i < p
              BY <1>1, <1>3, <3>1, <5>1, <7>1
            <7>2. CASE p < i
              BY <1>1, <1>3, <3>1, <5>1, <7>2
            <7> QED BY <5>4, <7>1, <7>2
          <6>2. ~About(K[k], h[k - 1], r)
            BY <1>9, <2>1, <5>2, <5>4
          <6> QED BY <6>1, <6>2 DEF Heard
        <5> QED BY <5>3, <5>4
      <4> QED BY <1>1, <1>3, <4>1, <4>2
    <3>4. h[0] = Blank /\ h[n + m] = v
      BY <1>1, <1>3, <2>9, <3>1 DEF Told
    <3>5. Told(K, r, h)
      BY <1>8, <3>2, <3>3, <3>4 DEF Told
    <3> QED BY <1>8, <3>1, <3>4, <3>5 DEF n
  <2> QED BY <2>7, <2>8, <2>9 DEF Turns
<1> QED BY <1>11, <1>12

(* The replicas and the Collector know the same. ****************************)

\* What a record's events tell, the Collector holds and every replica has learnt as far as
\* it has replayed the journal.
Taught(r) ==
  \E g : /\ Told(Produced, r, g)
         /\ Holds(db[Collector], r, g[Len(Produced)])
         /\ \A c \in Replicas : <<c, r>> \notin touched => Learnt(db[c], r, g[applied[c]])

Converging == \A r \in Records : <<Collector, r>> \notin touched => Taught(r)

LEMMA ConvergingStart ==
  ASSUME Init PROVE Converging
<1> DEFINE d == EmptyDatabase
           g == [k \in {0} |-> Blank]
<1>1. /\ db[Collector] = d /\ \A c \in Replicas : db[c] = d /\ applied[c] = 0
  BY SyncAssumption DEF Init, SyncInit, Replicas
<1>2. Produced = <<>> /\ Len(Produced) = 0
  BY <1>1 DEF Produced, EmptyDatabase
<1>3. Blank \in View
  <2> DEFINE q == [v \in Contents |-> None]
  <2>1. q \in [Contents -> Revision \cup {None}]
    OBVIOUS
  <2> HIDE DEF q
  <2> QED BY <2>1 DEF Blank, View, q
<1>4. ASSUME NEW r \in Records PROVE Knows(d, r, Blank)
  BY DEF Knows, Blank, EmptyDatabase
<1>5. ASSUME NEW r \in Records PROVE Holds(d, r, Blank) /\ Learnt(d, r, Blank)
  <2>1. d.observations[r] = None /\ d.bound[r] = None /\ d.evidence = <<>>
    BY DEF EmptyDatabase
  <2>2. Blank.head = None /\ Blank.id = 0
    BY DEF Blank
  <2> QED BY <1>4, <2>1, <2>2 DEF Holds, Learnt
<1>6. ASSUME NEW r \in Records PROVE Told(Produced, r, g)
  BY <1>2, <1>3 DEF Told
<1> QED BY <1>1, <1>2, <1>5, <1>6 DEF Converging, Taught

\* A step at the Collector.
LEMMA CollectorConverges ==
  ASSUME Safe, Converging, NEW x, db' = [db EXCEPT ![Collector] = x], UNCHANGED applied,
         touched \subseteq touched',
         \A r \in Records : <<Collector, r>> \notin touched' => Tells(db[Collector], x, r)
  PROVE  Converging'
<1>1. /\ DOMAIN db = Caches /\ Held(db, applied, Everything)
  BY DEF Safe, Typed
<1>2. /\ db'[Collector] = x /\ Produced' = x.journal /\ \A c \in Replicas : db'[c] = db[c]
  BY <1>1, SyncAssumption DEF Replicas, Produced
<1> SUFFICES ASSUME NEW r \in Records, <<Collector, r>> \notin touched' PROVE Taught(r)'
  BY DEF Converging
<1>3. PICK g : /\ Told(Produced, r, g)
               /\ Holds(db[Collector], r, g[Len(Produced)])
               /\ \A c \in Replicas : <<c, r>> \notin touched => Learnt(db[c], r, g[applied[c]])
  BY DEF Converging, Taught
<1>4. Len(Produced) \in Nat /\ Produced \in Seq(Event)
  BY <1>1, HeldDatabases DEF Produced
<1>5. g[Len(Produced)] \in View
  BY <1>3, <1>4 DEF Told
<1>6. PICK v \in View : Holds(x, r, v)
                        /\ Turns(Produced, x.journal, r, g[Len(Produced)], v)
  BY <1>3, <1>5 DEF Tells, Produced
<1>7. PICK h : /\ Told(x.journal, r, h) /\ h[Len(x.journal)] = v
               /\ \A k \in 0 .. Len(Produced) : h[k] = g[k]
  BY <1>3, <1>6 DEF Turns
<1>8. \A c \in Replicas : h[applied[c]] = g[applied[c]]
  <2>1. \A c \in Replicas : applied[c] \in 0 .. Len(Produced)
    BY <1>1 DEF Held, Produced
  <2> QED BY <1>7, <2>1
<1>9. \A c \in Replicas : <<c, r>> \notin touched' => Learnt(db'[c], r, h[applied'[c]])
  BY <1>2, <1>3, <1>8
<1>10. Told(Produced', r, h) /\ Holds(db'[Collector], r, h[Len(Produced')])
  BY <1>2, <1>6, <1>7
<1> QED BY <1>9, <1>10 DEF Taught

\* A step at a replica.
LEMMA ReplicaLearns ==
  ASSUME Safe, Converging, NEW c \in Replicas, NEW x, NEW n,
         db' = [db EXCEPT ![c] = x], applied' = [applied EXCEPT ![c] = n],
         touched \subseteq touched',
         \A r \in Records : \A g :
           <<c, r>> \notin touched' /\ Told(Produced, r, g) /\ Learnt(db[c], r, g[applied[c]])
             => Learnt(x, r, g[n])
  PROVE  Converging'
<1>1. DOMAIN db = Caches /\ DOMAIN applied = Replicas
  BY DEF Safe, Typed
<1>2. /\ db'[Collector] = db[Collector] /\ Produced' = Produced
      /\ db'[c] = x /\ applied'[c] = n
      /\ \A e \in Replicas \ {c} : db'[e] = db[e] /\ applied'[e] = applied[e]
  BY <1>1 DEF Replicas, Produced
<1> SUFFICES ASSUME NEW r \in Records, <<Collector, r>> \notin touched' PROVE Taught(r)'
  BY DEF Converging
<1>3. PICK g : /\ Told(Produced, r, g)
               /\ Holds(db[Collector], r, g[Len(Produced)])
               /\ \A e \in Replicas : <<e, r>> \notin touched => Learnt(db[e], r, g[applied[e]])
  BY DEF Converging, Taught
<1>4. \A e \in Replicas : <<e, r>> \notin touched' => Learnt(db'[e], r, g[applied'[e]])
  <2> SUFFICES ASSUME NEW e \in Replicas, <<e, r>> \notin touched'
               PROVE  Learnt(db'[e], r, g[applied'[e]])
    OBVIOUS
  <2>1. Learnt(db[e], r, g[applied[e]])
    BY <1>3
  <2>2. CASE e = c
    BY <1>2, <1>3, <2>1, <2>2
  <2>3. CASE e # c
    BY <1>2, <2>1, <2>3
  <2> QED BY <2>2, <2>3
<1> QED BY <1>2, <1>3, <1>4 DEF Taught

LEMMA CaptureConverges ==
  ASSUME Exact, Converging, NEW p \in Syncers, NEW r \in Records, Capture(p, r),
         UNCHANGED <<applied, touched>>
  PROVE  Converging'
<1> DEFINE at == runs[p].at
           v == runs[p].snapshot[r]
           d == db[Collector]
           x == Captured(d, r, v, at)
           W == By(witnessed, at)
           V == By(witnessed', at)
<1>1. Safe /\ Seen /\ Typed /\ TodoHeld
  BY DEF Exact, Safe
<1>2. /\ runs[p].pc = "extracting" /\ r \in runs[p].todo
      /\ db' = [db EXCEPT ![Collector] = x]
      /\ witnessed' = witnessed \cup {<<r, v, at>>}
  BY DEF Capture
<1>3. at \in Nat /\ v \in Contents
  BY <1>1, <1>2 DEF Typed, TodoHeld, Run
<1>4. Recorded(d, W)
  BY <1>1, <1>2 DEF Seen, RunsSeen
<1>5. Timed(W, at) /\ W \subseteq V /\ <<r, v, at>> \in V
  BY <1>2, <1>3 DEF By, Timed
<1> HIDE DEF W, V, at, v, d
<1>6. \A s \in Records : Tells(d, x, s)
  BY <1>3, <1>4, <1>5, CaptureTells
<1> HIDE DEF x
<1> QED BY <1>1, <1>2, <1>6, CollectorConverges DEF d

LEMMA ReconcileConverges ==
  ASSUME Exact, Converging, NEW p \in Syncers, Reconcile(p), UNCHANGED <<applied, touched>>
  PROVE  Converging'
<1> DEFINE at == runs[p].at
           d == db[Collector]
           x == MarkAbsent(d, at)
<1>1. Safe /\ Seen /\ Typed
  BY DEF Exact, Safe
<1>2. runs[p].pc = "extracting" /\ db' = [db EXCEPT ![Collector] = x]
  BY DEF Reconcile
<1>3. at \in Nat
  BY <1>1 DEF Typed, Run
<1>4. Recorded(d, witnessed)
  BY <1>1 DEF Seen, Held
<1> HIDE DEF at, d
<1>5. \A s \in Records : Tells(d, x, s)
  BY <1>3, <1>4, AbsentTells
<1> HIDE DEF x
<1> QED BY <1>1, <1>2, <1>5, CollectorConverges DEF d

LEMMA ImportConverges ==
  ASSUME Exact, Converging, NEW c \in Replicas, NEW through \in 1 .. Len(Produced),
         Import(c, through)
  PROVE  Converging'
<1> DEFINE n == applied[c]
           d == db[c]
           x == ApplyEvents(d, SubSeq(Produced, n + 1, through))
<1>1. Safe /\ Typed /\ Held(db, applied, witnessed)
  BY DEF Exact, Safe, Seen
<1>2. /\ db' = [db EXCEPT ![c] = x] /\ applied' = [applied EXCEPT ![c] = through]
      /\ through \in n + 1 .. Len(Produced) /\ touched' = touched
  BY DEF Import
<1>3. /\ Produced \in Seq(Event) /\ JournalFaithful(Produced, witnessed)
      /\ n \in Nat /\ Follows(d, Produced, n, witnessed)
  BY <1>1, HeldDatabases DEF Held, Recorded, Logged, Produced, Typed
<1>4. through \in n .. Len(Produced)
  BY <1>2, <1>3
<1> HIDE DEF n, d
<1>5. ASSUME NEW r \in Records, NEW g, Told(Produced, r, g), Learnt(d, r, g[n])
      PROVE Learnt(x, r, g[through])
  BY <1>3, <1>4, <1>5, ImportLearnt
<1> HIDE DEF x
<1> QED BY <1>1, <1>2, <1>5, ReplicaLearns DEF n, d

\* A write of the replica's own.
LEMMA WriteConverges ==
  ASSUME Exact, Converging, NEW c \in Replicas, NEW s \in Records, NEW x,
         db' = [db EXCEPT ![c] = x], UNCHANGED applied, touched' = touched \cup {<<c, s>>},
         KeepsBindings(db[c], x), \A r \in Records \ {s} : RowKept(db[c], x, r)
  PROVE  Converging'
<1>1. Safe /\ applied' = [applied EXCEPT ![c] = applied[c]]
  BY DEF Exact, Safe, Typed
<1>2. ASSUME NEW r \in Records, NEW g, <<c, r>> \notin touched', Learnt(db[c], r, g[applied[c]])
      PROVE Learnt(x, r, g[applied[c]])
  <2>1. r # s
    BY <1>2
  <2> QED BY <1>2, <2>1, LearntKept
<1> QED BY <1>1, <1>2, ReplicaLearns

LEMMA LocalWriteConverges ==
  ASSUME Exact, Converging, NEW c \in Replicas, NEW s \in Records, NEW v \in Contents,
         LocalWrite(c, s, v)
  PROVE  Converging'
<1> DEFINE x == Upsert(db[c], s, v, clock', "sync", {})
<1>1. /\ db' = [db EXCEPT ![c] = x] /\ UNCHANGED applied /\ touched' = touched \cup {<<c, s>>}
  BY DEF LocalWrite, Local, localVars
<1>2. db[c] \in Database /\ clock' \in Nat
  <2>1. clock \in Nat /\ \A e \in Caches : db[e] \in Database
    BY HeldDatabases DEF Exact, Safe, Typed
  <2> QED BY <2>1 DEF LocalWrite, NowMs, Replicas
<1>3. /\ x \in Database /\ KeepsBindings(db[c], x)
      /\ x.eligible = db[c].eligible /\ x.eligibleIds = db[c].eligibleIds
      /\ x.dirtyIds = db[c].dirtyIds /\ x.observations = db[c].observations
      /\ x.lastId = db[c].lastId
      /\ \/ /\ HeadWritten(db[c], x, s, v, clock')
            /\ db[c].head[s] # None /\ "sync" = "import" =>
                 db[c].head[s].digest \in {} /\ clock' >= EffectiveTime(db[c], s)
         \/ /\ HeadSeen(db[c], x, s, clock')
            /\ db[c].head[s] # None /\ db[c].head[s].digest = v
            /\ clock' >= EffectiveTime(db[c], s)
         \/ /\ HeadKept(db[c], x, s, v, clock')
            /\ db[c].head[s] # None
  BY <1>2, UpsertDoes
<1>4. \A r \in Records \ {s} : RowKept(db[c], x, r)
  BY <1>2, UpsertOthers
<1> HIDE DEF x
<1> QED BY <1>1, <1>3, <1>4, WriteConverges

LEMMA ResolveConverges ==
  ASSUME Exact, Converging, NEW c \in Replicas, NEW k \in db[c].conflicts, NEW v \in Contents,
         ResolveConflict(c, k, v)
  PROVE  Converging'
<1> DEFINE x == Resolve(db[c], k, v, clock')
           s == k.urn
           at == clock'
<1>1. /\ db' = [db EXCEPT ![c] = x] /\ UNCHANGED applied /\ touched' = touched \cup {<<c, s>>}
      /\ CanResolve(db[c], k, v)
  BY DEF ResolveConflict, Local, localVars
<1>2. db[c] \in Database /\ at \in Nat /\ Sound(db[c], Everything)
  <2>1. clock \in Nat /\ \A e \in Caches : db[e] \in Database /\ Sound(db[e], Everything)
    BY HeldDatabases DEF Exact, Safe, Typed
  <2> QED BY <2>1 DEF ResolveConflict, NowMs, Replicas
<1>3. s \in Records
  BY <1>2 DEF Database, Conflict
<1>4. Witnesses(Everything, s, v, at, db[c].sighted[s])
  <2>1. db[c].sighted[s] \in Nat
    BY <1>2, <1>3, HeadTypes
  <2>2. Later(at, db[c].sighted[s]) \in Nat
    BY <1>2, <2>1, LaterFacts
  <2> HIDE DEF at, s
  <2> QED BY <1>2, <1>3, <2>1, <2>2 DEF Witnesses, Everything
<1>5. /\ Sound(x, Everything) /\ KeepsBindings(db[c], x)
      /\ x.observations = db[c].observations /\ x.sighted = db[c].sighted
      /\ \A r \in Records \ {s} : x.head[r] = db[c].head[r]
      /\ db[c].head[s] = None => x.head[s] = None
      /\ db[c].head[s] # None => x.head[s] # None /\ x.head[s].digest = v /\ x.head[s].at = at
      /\ RevisionAdded(db[c], x, s, v, at)
      /\ x.conflicts = db[c].conflicts \ {k}
  BY <1>1, <1>2, <1>4, ResolveDoes
<1> HIDE DEF x, s, at
<1>6. \A r \in Records \ {s} : RowKept(db[c], x, r)
  <2> TAKE r \in Records \ {s}
  <2>1. x.revisions[r] \in [Contents -> Revision \cup {None}]
        /\ db[c].revisions[r] \in [Contents -> Revision \cup {None}]
    BY <1>2, <1>5 DEF Sound, Database
  <2>2. \A w \in Contents : x.revisions[r][w] = db[c].revisions[r][w]
    BY <1>5 DEF RevisionAdded
  <2>3. x.revisions[r] = db[c].revisions[r]
    BY <2>1, <2>2
  <2> QED BY <1>5, <2>3 DEF RowKept
<1> QED BY <1>1, <1>3, <1>5, <1>6, WriteConverges

LEMMA PurgeConverges ==
  ASSUME Exact, Converging, NEW c \in Caches, NEW s \in Records, PurgeEntity(c, s)
  PROVE  Converging'
<1> DEFINE d == db[c]
           x == Purge(d, s)
<1>1. /\ db' = [db EXCEPT ![c] = x] /\ UNCHANGED applied /\ touched' = touched \cup {<<c, s>>}
  BY DEF PurgeEntity, Local, localVars
<1>2. Safe /\ d \in Database
  BY HeldDatabases DEF Exact, Safe
<1>3. /\ x \in Database
      /\ KeepsBindings(d, x) /\ x.lastId = d.lastId /\ x.journal = d.journal
      /\ x.conflicts = d.conflicts
      /\ x.eligible = d.eligible /\ x.eligibleIds = d.eligibleIds
      /\ x.head = [d.head EXCEPT ![s] = None]
      /\ x.revisions = [d.revisions EXCEPT ![s] = [v \in Contents |-> None]]
      /\ x.sighted = [d.sighted EXCEPT ![s] = 0]
      /\ x.observations = [d.observations EXCEPT ![s] = None]
      /\ x.dirty = IF d.head[s] = None THEN d.dirty ELSE MarkDirty(d, s)
      /\ x.dirtyIds = IF d.observations[s] = None THEN d.dirtyIds
                      ELSE MarkIdsDirty(d, d.observations[s].id)
  BY <1>2, PurgeDoes
<1> HIDE DEF x
<1>4. \A r \in Records \ {s} : RowKept(d, x, r)
  BY <1>2, <1>3 DEF RowKept, Database
<1>5. CASE c = Collector
  <2>1. \A r \in Records : <<Collector, r>> \notin touched' => Tells(d, x, r)
    BY <1>1, <1>3, <1>4, <1>5, TellsNothing
  <2> QED BY <1>1, <1>2, <1>5, <2>1, CollectorConverges
<1>6. CASE c \in Replicas
  BY <1>1, <1>3, <1>4, <1>6, WriteConverges
<1> QED BY <1>5, <1>6 DEF Replicas

LEMMA ConvergingStep ==
  ASSUME Exact, Converging, [Next]_vars PROVE Converging'
<1>1. ASSUME UNCHANGED <<db, applied, touched>> PROVE Converging'
  BY <1>1 DEF Converging, Taught, Produced
<1>2. CASE UNCHANGED vars
  BY <1>1, <1>2 DEF vars, syncVars
<1>3. CASE Next
  <2>1. ASSUME NEW p \in Syncers, SyncStep(p), UNCHANGED <<applied, locals, touched, orphaned>>
        PROVE Converging'
    BY <1>1, <2>1, CaptureConverges, ReconcileConverges
       DEF SyncStep, Begin, TakeSnapshot, Complete, Abandon
  <2>2. ASSUME NEW r \in Records, NEW v \in Contents \cup {None}, SourceEdit(r, v),
               UNCHANGED <<applied, locals, touched, orphaned>>
        PROVE Converging'
    BY <1>1, <2>2 DEF SourceEdit
  <2> QED BY <1>3, <2>1, <2>2, ImportConverges, LocalWriteConverges, ResolveConverges,
             PurgeConverges DEF Next, SyncNext
<1> QED BY <1>2, <1>3

\* While one process at a time syncs, a replica that has replayed the whole journal, in
\* batches of any size, holds what the Collector holds of every record that neither of them
\* wrote or purged by hand: head, sighting times, revisions and observation (apply_events
\* against the triggers that journal, changefeed.py).
THEOREM ReplicasConverge ==
  ASSUME OneSyncer
  PROVE  Spec => []ReplicaConverges
<1>1. Init => Exact /\ Converging
  BY ExactStart, ConvergingStart
<1>2. Exact /\ Converging /\ [Next]_vars => (Exact /\ Converging)'
  BY ExactStep, ConvergingStep
<1>3. Exact /\ Converging => ReplicaConverges
  <2> SUFFICES ASSUME Converging, NEW c \in Replicas, NEW r \in Records,
                      applied[c] = Len(Produced),
                      <<c, r>> \notin touched, <<Collector, r>> \notin touched
               PROVE  Same(c, r)
    BY DEF ReplicaConverges
  <2>1. PICK w : Knows(db[Collector], r, w) /\ Knows(db[c], r, w)
    BY DEF Converging, Taught, Holds, Learnt
  <2> QED BY <2>1 DEF Knows, Same
<1> QED BY <1>1, <1>2, <1>3, PTL DEF Spec

(* One run at a time: what its checkpoint commits over. *********************)

Fields == {"head", "revisions", "conflicts", "sighted", "observations", "lastId",
           "journal", "bound", "evidence", "eligible", "eligibleIds", "dirty", "dirtyIds"}

Observations == [Records -> Observation \cup {None}]

\* What the proof needs of a database.
Shaped(d) == DOMAIN d = Fields /\ d.observations \in Observations /\ d.lastId \in Nat

\* d became e with the same observations.
Keeps(d, e) ==
  DOMAIN e = DOMAIN d /\ e.observations = d.observations /\ e.lastId = d.lastId

(* Operations that leave the observations alone. ****************************)

LEMMA JournaledKeeps ==
  ASSUME NEW d, DOMAIN d = Fields, NEW e
  PROVE Keeps(d, Journaled(d, e))
BY DEF Keeps, Journaled, Fields

LEMMA RefreshRecordKeeps ==
  ASSUME NEW d, DOMAIN d = Fields, NEW r, NEW at
  PROVE Keeps(d, RefreshRecord(d, r, at))
BY DEF Keeps, RefreshRecord, Journaled, Fields

LEMMA WriteHeadKeeps ==
  ASSUME NEW d, DOMAIN d = Fields, NEW r, NEW v, NEW at
  PROVE Keeps(d, WriteHead(d, r, v, at))
BY DEF Keeps, WriteHead, JournalHead, Journaled, Fields

LEMMA AddRevisionKeeps ==
  ASSUME NEW d, DOMAIN d = Fields, NEW r, NEW v, NEW at, NEW supersedes, NEW body,
         NEW current \in BOOLEAN
  PROVE Keeps(d, AddRevision(d, r, v, at, supersedes, body, current))
<1> DEFINE old == d.revisions[r][v]
<1>1. ASSUME NEW revision PROVE Keeps(d, WriteRevision(d, r, v, revision))
  BY DEF Keeps, WriteRevision, Journaled, Fields
<1>2. CASE old = None
  BY <1>1, <1>2 DEF AddRevision
<1>3. CASE old # None /\ current /\ old.at < at
  BY <1>1, <1>3 DEF AddRevision
<1>4. CASE old # None /\ ~(current /\ old.at < at)
  BY <1>4 DEF AddRevision, Keeps
<1> QED BY <1>2, <1>3, <1>4

LEMMA AddConflictKeeps ==
  ASSUME NEW d, DOMAIN d = Fields, NEW r, NEW v
  PROVE Keeps(d, AddConflict(d, r, v))
BY DEF Keeps, AddConflict, Fields

LEMMA UpsertKeeps ==
  ASSUME NEW d, DOMAIN d = Fields, NEW r, NEW v, NEW at
  PROVE Keeps(d, Upsert(d, r, v, at, "sync", {}))
<1> DEFINE written == WriteHead(d, r, v, at)
<1>1. Keeps(d, written) /\ DOMAIN written = Fields
  BY WriteHeadKeeps DEF Keeps
<1>2. ASSUME NEW supersedes
      PROVE Keeps(d, AddRevision(written, r, v, at, supersedes, at, TRUE))
  <2> HIDE DEF written
  <2>1. Keeps(written, AddRevision(written, r, v, at, supersedes, at, TRUE))
    BY <1>1, AddRevisionKeeps
  <2> QED BY <1>1, <2>1 DEF Keeps
<1>3. CASE d.head[r] = None
  BY <1>2, <1>3 DEF Upsert
<1>4. CASE d.head[r] # None /\ d.head[r].digest = v
  BY <1>4, RefreshRecordKeeps DEF Upsert, Keeps
<1>5. CASE d.head[r] # None /\ d.head[r].digest # v
  BY <1>2, <1>5 DEF Upsert
<1> QED BY <1>3, <1>4, <1>5

(* Operations on the observations. ******************************************)

\* d became e, with another row for r only.
Writes(d, e, r, o) ==
  /\ DOMAIN e = Fields /\ e.lastId \in Nat
  /\ e.observations = [d.observations EXCEPT ![r] = o]
  /\ o \in Observation

LEMMA WriteObservationWrites ==
  ASSUME NEW d, Shaped(d), NEW r \in Records, NEW v \in Contents,
         NEW present \in Presence, NEW at \in Nat
  PROVE \E o : /\ Writes(d, WriteObservation(d, r, v, present, at), r, o)
              /\ o.fingerprint = v /\ o.present = present /\ o.at = at
              /\ o.seen = IF d.observations[r] = None THEN 0 ELSE d.observations[r].seen
<1> DEFINE old == d.observations[r]
           id == IF old = None THEN d.lastId + 1 ELSE old.id
           same == old # None /\ old.fingerprint = v /\ old.present = present
           o == [id |-> id, fingerprint |-> v, at |-> at,
                 seen |-> IF old = None THEN 0 ELSE old.seen, present |-> present]
           written == [d EXCEPT !.observations[r] = o,
                                !.lastId = Later(@, id),
                                !.dirtyIds = IF same THEN @ ELSE MarkIdsDirty(d, id)]
           event == [op |-> "observation", urn |-> r, id |-> id,
                     fingerprint |-> v, present |-> present, at |-> at]
<1>1. old \in Observation \cup {None}
  BY DEF Shaped, Observations
<1>2. o \in Observation /\ id \in Nat
  BY <1>1 DEF Observation, Shaped
<1>3. DOMAIN written = Fields /\ written.observations = [d.observations EXCEPT ![r] = o]
      /\ written.lastId = Later(d.lastId, id)
  BY DEF Shaped, Fields
<1>4. Later(d.lastId, id) \in Nat
  BY <1>2 DEF Later, Shaped
<1>5. WriteObservation(d, r, v, present, at)
        = IF same THEN written ELSE Journaled(written, event)
  BY DEF WriteObservation
<1>6. Writes(d, WriteObservation(d, r, v, present, at), r, o)
  <2> HIDE DEF written, event, same, o
  <2>1. Keeps(written, Journaled(written, event))
    BY <1>3, JournaledKeeps
  <2> QED BY <1>2, <1>3, <1>4, <1>5, <2>1 DEF Writes, Keeps
<1>7. o.fingerprint = v /\ o.present = present /\ o.at = at
      /\ o.seen = IF d.observations[r] = None THEN 0 ELSE d.observations[r].seen
  OBVIOUS
<1> HIDE DEF o
<1> QED BY <1>6, <1>7

LEMMA ObserveWrites ==
  ASSUME NEW d, Shaped(d), NEW r \in Records, NEW v \in Contents, NEW at \in Nat
  PROVE \E o : /\ Writes(d, Observe(d, r, v, at), r, o)
              /\ o.fingerprint = v /\ o.present = "present"
              /\ LastSeen(o) >= at
              /\ \A t \in Nat :
                   at <= t /\ (d.observations[r] # None => LastSeen(d.observations[r]) <= t)
                     => LastSeen(o) <= t
<1> DEFINE old == d.observations[r]
           same == old # None /\ old.fingerprint = v /\ old.present = "present"
           e == IF same THEN d ELSE WriteObservation(d, r, v, "present", at)
<1>1. old = None \/ old \in Observation
  BY DEF Shaped, Observations
<1>2. PICK o : /\ Writes(d, e, r, o)
               /\ o.fingerprint = v /\ o.present = "present"
               /\ o.at <= at \/ (old # None /\ o.at = old.at)
               /\ o.seen = IF old = None THEN 0 ELSE old.seen
  <2>1. CASE same
    <3>1. d.observations = [d.observations EXCEPT ![r] = old]
      BY DEF Shaped, Observations
    <3>2. Writes(d, d, r, old)
      BY <2>1, <1>1, <3>1 DEF Writes, Shaped
    <3> QED BY <2>1, <3>2
  <2>2. CASE ~same
    <3>1. PICK o : /\ Writes(d, WriteObservation(d, r, v, "present", at), r, o)
                   /\ o.fingerprint = v /\ o.present = "present" /\ o.at = at
                   /\ o.seen = IF old = None THEN 0 ELSE old.seen
      BY WriteObservationWrites DEF Presence
    <3> QED BY <2>2, <3>1
  <2> QED BY <2>1, <2>2
<1>3. Observe(d, r, v, at) = StampObservation(e, r, at)
  BY DEF Observe
<1> HIDE DEF e
<1>4. DOMAIN e = Fields /\ e.lastId \in Nat /\ o \in Observation
      /\ e.observations = [d.observations EXCEPT ![r] = o] /\ e.observations[r] = o
  BY <1>2 DEF Writes, Shaped, Observations
<1> DEFINE seen == Later(o.seen, at)
           p == [o EXCEPT !.seen = seen]
           stamped == [e EXCEPT !.observations[r].seen = Later(@, at)]
           event == [op |-> "observation_refresh", id |-> e.observations[r].id, at |-> at]
<1>5. o.at \in Nat /\ o.seen \in Nat /\ seen \in Nat /\ p \in Observation
  BY <1>4 DEF Observation, Later
<1>6. DOMAIN stamped = Fields /\ stamped.lastId = e.lastId
      /\ stamped.observations = [d.observations EXCEPT ![r] = p]
  BY <1>4 DEF Fields, Shaped, Observations
<1>7. Keeps(stamped, Journaled(stamped, event))
  BY <1>6, JournaledKeeps
<1>8. Writes(d, Observe(d, r, v, at), r, p)
  <2>1. StampObservation(e, r, at) = Journaled(stamped, event)
    BY DEF StampObservation
  <2> HIDE DEF stamped, event, p
  <2> QED BY <1>3, <1>4, <1>5, <1>6, <1>7, <2>1 DEF Writes, Keeps
<1>9. p.fingerprint = v /\ p.present = "present" /\ p.at = o.at /\ p.seen = seen
  BY <1>2, <1>4 DEF Observation
<1>10. LastSeen(p) >= at
  BY <1>5, <1>9 DEF LastSeen, Later
<1>11. ASSUME NEW t \in Nat, at <= t, old # None => LastSeen(old) <= t
       PROVE LastSeen(p) <= t
  <2>1. CASE old = None
    BY <1>2, <1>5, <1>9, <1>11, <2>1 DEF LastSeen, Later
  <2>2. CASE old # None
    <3>1. old.at \in Nat /\ old.seen \in Nat
      BY <1>1, <2>2 DEF Observation
    <3> QED BY <1>2, <1>5, <1>9, <1>11, <2>2, <3>1 DEF LastSeen, Later
  <2> QED BY <2>1, <2>2
<1> HIDE DEF p
<1> QED BY <1>8, <1>9, <1>10, <1>11

LEMMA CapturedWrites ==
  ASSUME NEW d, Shaped(d), NEW r \in Records, NEW v \in Contents, NEW at \in Nat
  PROVE \E o : /\ Writes(d, Captured(d, r, v, at), r, o)
              /\ o.fingerprint = v /\ o.present = "present"
              /\ LastSeen(o) >= at
              /\ \A t \in Nat :
                   at <= t /\ (d.observations[r] # None => LastSeen(d.observations[r]) <= t)
                     => LastSeen(o) <= t
<1> DEFINE e == Upsert(d, r, v, at, "sync", {})
<1>1. Keeps(d, e)
  BY UpsertKeeps DEF Shaped
<1>2. Shaped(e) /\ e.observations = d.observations
  BY <1>1 DEF Shaped, Keeps
<1>3. Captured(d, r, v, at) = Observe(e, r, v, at)
  BY DEF Captured
<1> HIDE DEF e
<1>4. PICK o : /\ Writes(e, Observe(e, r, v, at), r, o)
               /\ o.fingerprint = v /\ o.present = "present"
               /\ LastSeen(o) >= at
               /\ \A t \in Nat :
                    at <= t /\ (e.observations[r] # None => LastSeen(e.observations[r]) <= t)
                      => LastSeen(o) <= t
  BY <1>2, ObserveWrites
<1> QED BY <1>2, <1>3, <1>4 DEF Writes

LEMMA MarkAbsentFacts ==
  ASSUME NEW d, Shaped(d), NEW since \in Nat
  PROVE /\ Shaped(MarkAbsent(d, since))
        /\ \A r \in Records :
             LET o == d.observations[r]
                 p == MarkAbsent(d, since).observations[r]
             IN IF o = None THEN p = None
                ELSE IF o.present = "present" /\ LastSeen(o) >= since THEN p = o
                ELSE /\ p # None /\ p.present = "absent_from_source"
                     /\ LastSeen(p) <= since \/ p = o
<1> DEFINE Absent(r) == [d.observations[r] EXCEPT !.at = since, !.present = "absent_from_source"]
           rows == [r \in Records |-> IF r \in Unseen(d, since) THEN Absent(r)
                                     ELSE d.observations[r]]
           e == MarkAbsent(d, since)
<1>1. DOMAIN e = Fields /\ e.observations = rows /\ e.lastId = d.lastId
  BY DEF MarkAbsent, Shaped, Fields
<1>2. ASSUME NEW r \in Unseen(d, since)
      PROVE /\ r \in Records /\ d.observations[r] # None /\ Absent(r) \in Observation
            /\ d.observations[r].present = "present" /\ LastSeen(d.observations[r]) < since
            /\ Absent(r).present = "absent_from_source" /\ LastSeen(Absent(r)) <= since
  <2>1. r \in Records /\ d.observations[r] \in Observation /\ d.observations[r] # None
        /\ d.observations[r].present = "present" /\ LastSeen(d.observations[r]) < since
    BY DEF Unseen, Shaped, Observations
  <2>2. Absent(r) \in Observation /\ Absent(r).at = since
        /\ Absent(r).present = "absent_from_source"
        /\ Absent(r).seen = d.observations[r].seen
    BY <2>1 DEF Observation, Presence
  <2> QED BY <2>1, <2>2 DEF LastSeen, Later, Observation
<1>3. ASSUME NEW r \in Records \ Unseen(d, since), d.observations[r] # None,
             d.observations[r].present # "present" \/ ~(LastSeen(d.observations[r]) >= since)
      PROVE d.observations[r].present = "absent_from_source"
  <2>1. d.observations[r] \in Observation
    BY <1>3 DEF Shaped, Observations
  <2>2. LastSeen(d.observations[r]) \in Nat
    BY <2>1 DEF Observation, LastSeen, Later
  <2> QED BY <1>3, <2>1, <2>2 DEF Unseen, Observation, Presence
<1>4. rows \in Observations
  BY <1>2 DEF Observations, Shaped
<1>5. Shaped(e)
  BY <1>1, <1>4 DEF Shaped
<1>6. ASSUME NEW r \in Records
      PROVE LET o == d.observations[r]
                p == rows[r]
            IN IF o = None THEN p = None
               ELSE IF o.present = "present" /\ LastSeen(o) >= since THEN p = o
               ELSE /\ p # None /\ p.present = "absent_from_source"
                    /\ LastSeen(p) <= since \/ p = o
  <2> HIDE DEF Absent
  <2>1. CASE r \in Unseen(d, since)
    <3>1. rows[r] = Absent(r) /\ Absent(r) # None
      BY <1>2, <2>1, NoneAssumption
    <3>2. LastSeen(d.observations[r]) \in Nat
      BY <1>2, <2>1 DEF Shaped, Observations, Observation, LastSeen, Later
    <3> QED BY <1>2, <2>1, <3>1, <3>2
  <2>2. CASE r \notin Unseen(d, since)
    BY <1>3, <2>2
  <2> QED BY <2>1, <2>2
<1> QED BY <1>1, <1>5, <1>6

LEMMA PurgeWrites ==
  ASSUME NEW d, Shaped(d), NEW r \in Records
  PROVE /\ Shaped(Purge(d, r))
        /\ Purge(d, r).observations = [d.observations EXCEPT ![r] = None]
BY DEF Purge, Shaped, Fields, Observations

(* The invariant. ***********************************************************)

Obs == db[Collector].observations
HeldBy(p) == {r \in Records : runs[p].snapshot[r] # None}
Emitted(p) == HeldBy(p) \ runs[p].failed

\* The observation says what the snapshot of p says, or was purged.
Sighted(p, r) ==
  IF Obs[r] = None THEN <<Collector, r>> \in touched
  ELSE Obs[r].present = "present" /\ Obs[r].fingerprint = runs[p].snapshot[r]

SeenSince(r, at) == Obs[r] # None /\ LastSeen(Obs[r]) >= at
Older(r, at) == Obs[r] # None => LastSeen(Obs[r]) < at

RunTyped ==
  /\ clock \in Nat
  /\ DOMAIN db = Caches /\ Shaped(db[Collector])
  /\ source \in [Records -> Contents \cup {None}]
  /\ runs \in [Syncers -> Run]

\* Nothing was seen later than now, and no run started later than now.
PastSeen ==
  /\ \A r \in Records : Obs[r] # None => LastSeen(Obs[r]) <= clock
  /\ \A p \in Syncers : runs[p].pc # "idle" => runs[p].at <= clock

\* A run finds only sightings older than its start ...
StartedFresh ==
  \A p \in Syncers : runs[p].pc = "started" => \A r \in Records : Older(r, runs[p].at)

\* ... adds those of the rows it has captured ...
ExtractedSighted ==
  \A p \in Syncers : runs[p].pc = "extracting" =>
    /\ runs[p].todo \subseteq Emitted(p)
    /\ \A r \in Records :
         IF r \in Emitted(p) \ runs[p].todo
         THEN Sighted(p, r) /\ (Obs[r] # None => SeenSince(r, runs[p].at))
         ELSE Older(r, runs[p].at)

\* ... and so tells by their times which rows it did not see.
ReconciledHeld ==
  \A p \in Syncers : runs[p].pc = "reconciled" =>
    \A r \in Records :
      IF r \in Emitted(p) THEN Sighted(p, r)
      ELSE Obs[r] # None => Obs[r].present = "absent_from_source"

RunInv == RunTyped /\ PastSeen /\ StartedFresh /\ ExtractedSighted /\ ReconciledHeld

LEMMA LastSeenNat ==
  ASSUME RunTyped, NEW r \in Records, Obs[r] # None
  PROVE LastSeen(Obs[r]) \in Nat /\ Obs[r] \in Observation
<1>1. Obs[r] \in Observation
  BY DEF RunTyped, Shaped, Observations, Obs
<1> QED BY <1>1 DEF Observation, LastSeen, Later

LEMMA InitRunInv == Init => RunInv
<1> SUFFICES ASSUME Init PROVE RunInv
  OBVIOUS
<1>1. Shaped(EmptyDatabase) /\ EmptyDatabase.observations = [r \in Records |-> None]
  BY DEF EmptyDatabase, Shaped, Fields, Observations
<1>2. db[Collector] = EmptyDatabase /\ DOMAIN db = Caches
  BY SyncAssumption DEF Init, SyncInit
<1>3. \A r \in Records : Obs[r] = None
  BY <1>1, <1>2 DEF Obs
<1>4. Idle \in Run /\ Idle.pc = "idle"
  BY DEF Idle, Run
<1>5. runs \in [Syncers -> Run] /\ \A p \in Syncers : runs[p].pc = "idle"
  BY <1>4 DEF Init, SyncInit
<1>6. RunTyped
  BY <1>1, <1>2, <1>5 DEF RunTyped, Init, SyncInit
<1> QED BY <1>3, <1>5, <1>6
       DEF RunInv, PastSeen, StartedFresh, ExtractedSighted, ReconciledHeld

\* A step that leaves the Collector's observations and the runs alone, but for rows
\* that it purges.
LEMMA QuietStep ==
  ASSUME RunInv, RunTyped', runs' = runs, clock' >= clock, touched \subseteq touched',
         \A r \in Records : Obs'[r] = Obs[r] \/ (Obs'[r] = None /\ <<Collector, r>> \in touched')
  PROVE RunInv'
<1> USE DEF RunInv
<1>1. \A r \in Records : Obs[r] # None => LastSeen(Obs[r]) \in Nat
  BY LastSeenNat
<1>2. clock \in Nat /\ clock' \in Nat /\ runs \in [Syncers -> Run]
      /\ \A p \in Syncers : runs[p].at \in Nat
  BY DEF RunTyped, Run
<1>3. PastSeen'
  <2>1. ASSUME NEW r \in Records, Obs'[r] # None PROVE LastSeen(Obs'[r]) <= clock'
    <3>1. Obs'[r] = Obs[r]
      BY <2>1
    <3>2. LastSeen(Obs[r]) \in Nat /\ LastSeen(Obs[r]) <= clock
      BY <1>1, <2>1, <3>1 DEF PastSeen
    <3>3. LastSeen(Obs'[r]) = LastSeen(Obs[r])
      BY <3>1
    <3> QED BY <1>2, <3>2, <3>3
  <2>2. ASSUME NEW p \in Syncers, runs'[p].pc # "idle" PROVE runs'[p].at <= clock'
    BY <1>2, <2>2 DEF PastSeen
  <2>3. \A r \in Records : (Obs[r] # None => LastSeen(Obs[r]) <= clock)'
    BY <2>1
  <2> QED BY <2>2, <2>3 DEF PastSeen
<1>4. \A r \in Records, at \in Nat : Older(r, at) => Older(r, at)'
  BY DEF Older
<1>5. \A p \in Syncers, r \in Records : Sighted(p, r) => Sighted(p, r)'
  BY DEF Sighted
<1>6. \A p \in Syncers : Emitted(p)' = Emitted(p)
  BY DEF Emitted, HeldBy
<1>7. StartedFresh'
  BY <1>2, <1>4 DEF StartedFresh
<1>8. ExtractedSighted'
  <2> SUFFICES ASSUME NEW p \in Syncers, runs[p].pc = "extracting", NEW r \in Records
               PROVE IF r \in Emitted(p) \ runs[p].todo
                     THEN Sighted(p, r)' /\ (Obs'[r] # None => SeenSince(r, runs[p].at)')
                     ELSE Older(r, runs[p].at)'
    BY <1>6 DEF ExtractedSighted
  <2> QED BY <1>2, <1>4, <1>5 DEF ExtractedSighted, SeenSince
<1>9. ReconciledHeld'
  BY <1>5, <1>6 DEF ReconciledHeld
<1> QED BY <1>3, <1>7, <1>8, <1>9

(* One lemma per action. ****************************************************)

LEMMA BeginKeeps ==
  ASSUME RunInv, OneSyncer, NEW p \in Syncers, Begin(p), touched' = touched
  PROVE RunInv'
<1> USE DEF RunInv
<1>1. \A r \in Records : Obs[r] # None => LastSeen(Obs[r]) \in Nat
  BY LastSeenNat
<1>2. runs' = [runs EXCEPT ![p] = [Idle EXCEPT !.pc = "started", !.at = clock']]
      /\ clock' = clock + 1 /\ clock \in Nat /\ db' = db /\ source' = source
  BY DEF Begin, RunTyped
<1>3. [Idle EXCEPT !.pc = "started", !.at = clock'] \in Run
  <2>1. Idle \in Run
    BY DEF Idle, Run
  <2>2. clock' \in Nat
    BY <1>2
  <2>3. \A run \in Run, at \in Nat : [run EXCEPT !.pc = "started", !.at = at] \in Run
    BY DEF Run
  <2> QED BY <2>1, <2>2, <2>3
<1>4. RunTyped'
  BY <1>2, <1>3 DEF RunTyped
<1>5. \A q \in Syncers : runs'[q].pc = "started" /\ runs'[q].at = clock'
  BY <1>2 DEF RunTyped, Idle, OneSyncer
<1>6. Obs' = Obs
  BY <1>2 DEF Obs
<1>7. \A r \in Records : Obs[r] # None => LastSeen(Obs[r]) < clock'
  BY <1>1, <1>2 DEF PastSeen
<1>8. \A r \in Records : LastSeen(Obs[r])' = LastSeen(Obs[r])
  BY <1>6
<1>10. PastSeen'
  <2>1. \A r \in Records : (Obs[r] # None => LastSeen(Obs[r]) <= clock)'
    BY <1>1, <1>2, <1>6, <1>7, <1>8
  <2>2. \A q \in Syncers : runs'[q].at <= clock'
    BY <1>2, <1>5
  <2> QED BY <2>1, <2>2 DEF PastSeen
<1>11. StartedFresh'
  BY <1>5, <1>6, <1>7, <1>8 DEF StartedFresh, Older
<1> QED BY <1>4, <1>5, <1>10, <1>11 DEF ExtractedSighted, ReconciledHeld

LEMMA TakeSnapshotKeeps ==
  ASSUME RunInv, OneSyncer, NEW p \in Syncers, NEW failed \in SUBSET Faulty,
         TakeSnapshot(p, failed), touched' = touched
  PROVE RunInv'
<1> USE DEF RunInv
<1> DEFINE held == {r \in Records : source[r] # None}
           run == [runs[p] EXCEPT !.pc = "extracting", !.snapshot = source,
                                  !.todo = held \ failed, !.failed = failed]
<1>1. runs' = [runs EXCEPT ![p] = run]
      /\ runs[p].pc = "started" /\ failed \subseteq held
      /\ db' = db /\ source' = source /\ clock' = clock
  BY DEF TakeSnapshot
<1>2. run \in Run
  BY <1>1 DEF Run, RunTyped
<1>3. RunTyped'
  BY <1>1, <1>2 DEF RunTyped
<1>4. \A q \in Syncers : runs'[q] = run
  BY <1>1 DEF RunTyped, OneSyncer
<1>5. run.pc = "extracting" /\ run.at = runs[p].at /\ run.snapshot = source
      /\ run.todo = held \ failed /\ run.failed = failed
  BY DEF RunTyped, Run
<1> HIDE DEF run
<1>6. Obs' = Obs
  BY <1>1 DEF Obs
<1>7. \A q \in Syncers : Emitted(q)' = held \ failed
  BY <1>4, <1>5 DEF Emitted, HeldBy
<1>8. \A r \in Records : Older(r, runs[p].at)
  BY <1>1 DEF StartedFresh
<1>9. \A q \in Syncers, r \in Records : Older(r, runs[q].at)'
  BY <1>4, <1>5, <1>6, <1>8 DEF Older
<1>10. ExtractedSighted'
  BY <1>4, <1>5, <1>7, <1>9 DEF ExtractedSighted
<1>11. PastSeen'
  BY <1>1, <1>4, <1>5, <1>6 DEF PastSeen
<1> QED BY <1>3, <1>4, <1>5, <1>10, <1>11 DEF StartedFresh, ReconciledHeld

LEMMA CaptureFollows ==
  ASSUME RunInv, OneSyncer, NEW p \in Syncers, NEW r \in Records, Capture(p, r),
         touched' = touched
  PROVE RunInv'
<1> USE DEF RunInv
<1> DEFINE v == runs[p].snapshot[r]
           at == runs[p].at
<1>1. /\ runs[p].pc = "extracting" /\ r \in runs[p].todo
      /\ db' = [db EXCEPT ![Collector] = Captured(@, r, v, at)]
      /\ runs' = [runs EXCEPT ![p].todo = @ \ {r}]
      /\ clock' = clock /\ source' = source
  BY DEF Capture
<1>2. runs[p] \in Run /\ clock \in Nat /\ at \in Nat /\ at <= clock
  BY <1>1 DEF RunTyped, Run, PastSeen
<1>3. r \in Emitted(p) /\ v \in Contents
  BY <1>1, <1>2 DEF ExtractedSighted, Emitted, HeldBy, Run
<1>4. PICK o : /\ Writes(db[Collector], Captured(db[Collector], r, v, at), r, o)
               /\ o.fingerprint = v /\ o.present = "present"
               /\ LastSeen(o) >= at
               /\ \A t \in Nat : at <= t /\ (Obs[r] # None => LastSeen(Obs[r]) <= t)
                                   => LastSeen(o) <= t
  <2>1. Shaped(db[Collector])
    BY DEF RunTyped
  <2> QED BY <1>2, <1>3, <2>1, CapturedWrites DEF Obs
<1>5. LastSeen(o) <= clock
  BY <1>2, <1>4 DEF PastSeen
<1>6. db'[Collector] = Captured(db[Collector], r, v, at) /\ DOMAIN db' = Caches
  BY <1>1, SyncAssumption DEF RunTyped
<1>7. Obs' = [Obs EXCEPT ![r] = o] /\ o \in Observation /\ DOMAIN Obs = Records
  BY <1>4, <1>6 DEF Writes, Obs, RunTyped, Shaped, Observations
<1>8. Obs'[r] = o /\ o # None /\ \A s \in Records \ {r} : Obs'[s] = Obs[s]
  BY <1>7, NoneAssumption
<1>9. runs' \in [Syncers -> Run]
      /\ \A q \in Syncers : /\ runs'[q].pc = "extracting" /\ runs'[q].at = at
                            /\ runs'[q].todo = runs[p].todo \ {r}
                            /\ runs'[q].snapshot = runs[p].snapshot
                            /\ runs'[q].failed = runs[p].failed
  BY <1>1, <1>2 DEF RunTyped, OneSyncer, Run
<1>10. RunTyped'
  <2>1. Shaped(db'[Collector])
    BY <1>4, <1>6, <1>7 DEF Writes, Shaped, Observations, RunTyped, Obs
  <2> QED BY <1>1, <1>6, <1>9, <2>1 DEF RunTyped
<1>11. PastSeen'
  <2>1. ASSUME NEW s \in Records, Obs'[s] # None PROVE LastSeen(Obs'[s]) <= clock
    BY <1>5, <1>8, <2>1 DEF PastSeen
  <2>2. \A s \in Records : (Obs[s] # None => LastSeen(Obs[s]) <= clock)'
    BY <1>1, <2>1
  <2> QED BY <1>1, <1>2, <1>9, <2>2 DEF PastSeen
<1>12. ExtractedSighted'
  <2>1. \A q \in Syncers : Emitted(q)' = Emitted(p)
    BY <1>9 DEF Emitted, HeldBy
  <2> SUFFICES ASSUME NEW q \in Syncers, NEW s \in Records
               PROVE IF s \in Emitted(p) \ (runs[p].todo \ {r})
                     THEN Sighted(q, s)' /\ (Obs'[s] # None => SeenSince(s, runs[q].at)')
                     ELSE Older(s, runs[q].at)'
    BY <1>1, <1>9, <2>1 DEF ExtractedSighted
  <2>2. CASE s = r
    <3>1. Sighted(q, s)'
      BY <1>4, <1>8, <1>9, <2>2 DEF Sighted
    <3>2. SeenSince(s, runs[q].at)'
      BY <1>4, <1>8, <1>9, <2>2 DEF SeenSince
    <3> QED BY <1>3, <2>2, <3>1, <3>2
  <2>3. CASE s # r
    <3>1. Obs'[s] = Obs[s] /\ runs'[q].at = at /\ runs'[q].snapshot = runs[p].snapshot
      BY <1>8, <1>9, <2>3
    <3>2. Sighted(p, s) => Sighted(q, s)'
      BY <3>1 DEF Sighted
    <3>3. SeenSince(s, at) => SeenSince(s, runs[q].at)'
      BY <3>1 DEF SeenSince
    <3>4. Older(s, at) => Older(s, runs[q].at)'
      BY <3>1 DEF Older
    <3> QED BY <1>1, <2>3, <3>1, <3>2, <3>3, <3>4 DEF ExtractedSighted
  <2> QED BY <2>2, <2>3
<1> QED BY <1>9, <1>10, <1>11, <1>12 DEF StartedFresh, ReconciledHeld

LEMMA ReconcileKeeps ==
  ASSUME RunInv, OneSyncer, NEW p \in Syncers, Reconcile(p), touched' = touched
  PROVE RunInv'
<1> USE DEF RunInv
<1> DEFINE at == runs[p].at
<1>1. /\ runs[p].pc = "extracting" /\ runs[p].todo = {}
      /\ db' = [db EXCEPT ![Collector] = MarkAbsent(@, at)]
      /\ runs' = [runs EXCEPT ![p].pc = "reconciled"]
      /\ clock' = clock /\ source' = source
  BY DEF Reconcile
<1>2. runs[p] \in Run /\ clock \in Nat /\ at \in Nat /\ at <= clock
  BY <1>1 DEF RunTyped, Run, PastSeen
<1>3. db'[Collector] = MarkAbsent(db[Collector], at) /\ DOMAIN db' = Caches
  BY <1>1, SyncAssumption DEF RunTyped
<1>4. /\ Shaped(db'[Collector])
      /\ \A r \in Records :
           IF Obs[r] = None THEN Obs'[r] = None
           ELSE IF Obs[r].present = "present" /\ LastSeen(Obs[r]) >= at THEN Obs'[r] = Obs[r]
           ELSE /\ Obs'[r] # None /\ Obs'[r].present = "absent_from_source"
                /\ LastSeen(Obs'[r]) <= at \/ Obs'[r] = Obs[r]
  BY <1>2, <1>3, MarkAbsentFacts DEF Obs, RunTyped
<1>5. runs' \in [Syncers -> Run]
      /\ \A q \in Syncers : /\ runs'[q].pc = "reconciled" /\ runs'[q].at = at
                            /\ runs'[q].snapshot = runs[p].snapshot
                            /\ runs'[q].failed = runs[p].failed
  BY <1>1, <1>2 DEF RunTyped, OneSyncer, Run
<1>6. RunTyped'
  BY <1>1, <1>3, <1>4, <1>5 DEF RunTyped
<1>7. PastSeen'
  <2>1. ASSUME NEW r \in Records, Obs'[r] # None PROVE LastSeen(Obs'[r]) <= clock
    <3>1. CASE Obs'[r] = Obs[r]
      BY <2>1, <3>1 DEF PastSeen
    <3>2. CASE Obs'[r] # Obs[r]
      <4>1. LastSeen(Obs'[r]) <= at
        BY <1>4, <2>1, <3>2
      <4>2. Obs'[r] \in Observation
        BY <1>4, <2>1 DEF Obs, Shaped, Observations
      <4>3. LastSeen(Obs'[r]) \in Nat
        BY <4>2 DEF Observation, LastSeen, Later
      <4> QED BY <1>2, <4>1, <4>3
    <3> QED BY <3>1, <3>2
  <2>2. \A r \in Records : (Obs[r] # None => LastSeen(Obs[r]) <= clock)'
    BY <1>1, <2>1
  <2> QED BY <1>1, <1>2, <1>5, <2>2 DEF PastSeen
<1>8. ReconciledHeld'
  <2>1. \A q \in Syncers : Emitted(q)' = Emitted(p)
    BY <1>5 DEF Emitted, HeldBy
  <2> SUFFICES ASSUME NEW q \in Syncers, NEW r \in Records
               PROVE IF r \in Emitted(p) THEN Sighted(q, r)'
                     ELSE Obs'[r] # None => Obs'[r].present = "absent_from_source"
    BY <2>1 DEF ReconciledHeld
  <2>2. CASE r \in Emitted(p)
    <3>1. Sighted(p, r) /\ (Obs[r] # None => SeenSince(r, at))
      BY <1>1, <2>2 DEF ExtractedSighted
    <3>2. Obs'[r] = Obs[r]
      BY <1>4, <3>1 DEF Sighted, SeenSince
    <3> QED BY <1>5, <2>2, <3>1, <3>2 DEF Sighted
  <2>3. CASE r \notin Emitted(p) /\ Obs'[r] # None
    <3>1. Obs[r] # None /\ LastSeen(Obs[r]) < at
      BY <1>1, <1>4, <2>3 DEF ExtractedSighted, Older
    <3>2. LastSeen(Obs[r]) \in Nat
      BY <3>1, LastSeenNat
    <3> QED BY <1>2, <1>4, <2>3, <3>1, <3>2
  <2> QED BY <2>2, <2>3
<1> QED BY <1>5, <1>6, <1>7, <1>8 DEF StartedFresh, ExtractedSighted

\* A run that ends, however it ends.
LEMMA EndKeeps ==
  ASSUME RunInv, OneSyncer, NEW p \in Syncers, runs' = [runs EXCEPT ![p] = Idle],
         UNCHANGED <<db, clock, source, touched>>
  PROVE RunInv'
<1> USE DEF RunInv
<1>1. Idle \in Run
  BY DEF Idle, Run
<1>2. runs' \in [Syncers -> Run] /\ \A q \in Syncers : runs'[q].pc = "idle"
  BY <1>1 DEF RunTyped, OneSyncer, Idle
<1>3. RunTyped'
  BY <1>2 DEF RunTyped
<1>4. Obs' = Obs
  BY DEF Obs
<1>5. PastSeen'
  <2>1. \A r \in Records : (Obs[r] # None => LastSeen(Obs[r]) <= clock)'
    BY <1>4 DEF PastSeen
  <2> QED BY <1>2, <2>1 DEF PastSeen
<1> QED BY <1>2, <1>3, <1>5 DEF StartedFresh, ExtractedSighted, ReconciledHeld

\* A step of a replica, or of the source application.
LEMMA ElsewhereKeeps ==
  ASSUME RunInv, DOMAIN db' = Caches, db'[Collector] = db[Collector], runs' = runs,
         clock' \in {clock, clock + 1}, touched \subseteq touched',
         source' \in [Records -> Contents \cup {None}]
  PROVE RunInv'
<1>1. Obs' = Obs
  BY DEF Obs
<1>2. RunTyped'
  BY DEF RunTyped, RunInv
<1>3. clock' >= clock
  BY DEF RunInv, RunTyped
<1> QED BY <1>1, <1>2, <1>3, QuietStep

LEMMA PurgeEntityKeeps ==
  ASSUME RunInv, NEW c \in Caches, NEW r \in Records, PurgeEntity(c, r)
  PROVE RunInv'
<1>1. /\ db' = [db EXCEPT ![c] = Purge(@, r)] /\ touched' = touched \cup {<<c, r>>}
      /\ runs' = runs /\ clock' = clock /\ source' = source
  BY DEF PurgeEntity, Local, localVars
<1>2. CASE c # Collector
  BY <1>1, <1>2, ElsewhereKeeps, SyncAssumption DEF RunInv, RunTyped
<1>3. CASE c = Collector
  <2>1. db'[Collector] = Purge(db[Collector], r) /\ DOMAIN db' = Caches
    BY <1>1, <1>3 DEF RunInv, RunTyped
  <2>2. Shaped(db'[Collector]) /\ Obs' = [Obs EXCEPT ![r] = None]
    BY <2>1, PurgeWrites DEF RunInv, RunTyped, Obs
  <2>3. RunTyped'
    BY <1>1, <2>1, <2>2 DEF RunInv, RunTyped
  <2>4. \A s \in Records : Obs'[s] = Obs[s] \/ (Obs'[s] = None /\ <<Collector, s>> \in touched')
    BY <1>1, <1>3, <2>2 DEF RunInv, RunTyped, Shaped, Observations, Obs
  <2>5. clock' >= clock
    BY <1>1 DEF RunInv, RunTyped
  <2> QED BY <1>1, <2>3, <2>4, <2>5, QuietStep
<1> QED BY <1>2, <1>3

LEMMA ReplicaKeeps ==
  ASSUME RunInv, NEW c \in Replicas, NEW op,
         db' = [db EXCEPT ![c] = op], runs' = runs, source' = source,
         clock' \in {clock, clock + 1}, touched \subseteq touched'
  PROVE RunInv'
<1>1. DOMAIN db' = Caches /\ db'[Collector] = db[Collector]
  BY SyncAssumption DEF Replicas, RunInv, RunTyped
<1>2. source' \in [Records -> Contents \cup {None}]
  BY DEF RunInv, RunTyped
<1> QED BY <1>1, <1>2, ElsewhereKeeps

LEMMA NextKeeps ==
  ASSUME RunInv, OneSyncer, [Next]_vars
  PROVE RunInv'
<1>1. ASSUME NEW p \in Syncers, SyncStep(p), touched' = touched PROVE RunInv'
  <2>1. CASE Begin(p)
    BY <1>1, <2>1, BeginKeeps
  <2>2. ASSUME NEW failed \in SUBSET Faulty, TakeSnapshot(p, failed) PROVE RunInv'
    BY <1>1, <2>2, TakeSnapshotKeeps
  <2>3. ASSUME NEW r \in Records, Capture(p, r) PROVE RunInv'
    BY <1>1, <2>3, CaptureFollows
  <2>4. CASE Reconcile(p)
    BY <1>1, <2>4, ReconcileKeeps
  <2>5. CASE Complete(p)
    BY <1>1, <2>5, EndKeeps DEF Complete
  <2>6. CASE Abandon(p)
    BY <1>1, <2>6, EndKeeps DEF Abandon
  <2> QED BY <1>1, <2>1, <2>2, <2>3, <2>4, <2>5, <2>6 DEF SyncStep
<1>2. ASSUME NEW r \in Records, NEW v \in Contents \cup {None}, SourceEdit(r, v),
             touched' = touched
      PROVE RunInv'
  <2>1. source' \in [Records -> Contents \cup {None}] /\ db' = db /\ clock' = clock /\ runs' = runs
    BY <1>2 DEF SourceEdit, RunInv, RunTyped
  <2> QED BY <1>2, <2>1, ElsewhereKeeps DEF RunInv, RunTyped
<1>3. ASSUME NEW c \in Replicas, NEW through, Import(c, through) PROVE RunInv'
  <2>1. PICK op : db' = [db EXCEPT ![c] = op]
    BY <1>3 DEF Import
  <2> QED BY <1>3, <2>1, ReplicaKeeps DEF Import
<1>4. ASSUME NEW c \in Replicas, NEW r \in Records, NEW v \in Contents, LocalWrite(c, r, v)
      PROVE RunInv'
  <2>1. PICK op : db' = [db EXCEPT ![c] = op]
    BY <1>4 DEF LocalWrite
  <2> QED BY <1>4, <2>1, ReplicaKeeps DEF LocalWrite, Local, localVars, NowMs
<1>5. ASSUME NEW c \in Replicas, NEW k, NEW v \in Contents, ResolveConflict(c, k, v)
      PROVE RunInv'
  <2>1. PICK op : db' = [db EXCEPT ![c] = op]
    BY <1>5 DEF ResolveConflict
  <2> QED BY <1>5, <2>1, ReplicaKeeps DEF ResolveConflict, Local, localVars, NowMs
<1>6. CASE UNCHANGED vars
  <2>1. db' = db /\ clock' = clock /\ runs' = runs /\ source' = source /\ touched' = touched
    BY <1>6 DEF vars, syncVars
  <2> QED BY <2>1, ElsewhereKeeps DEF RunInv, RunTyped
<1>7. ASSUME SyncNext, touched' = touched PROVE RunInv'
  BY <1>1, <1>2, <1>7 DEF SyncNext
<1> QED BY <1>3, <1>4, <1>5, <1>6, <1>7, PurgeEntityKeeps DEF Next

(* The theorems. ************************************************************)

\* With one process that syncs at a time, the observations always agree with what the
\* run in progress has seen and with what it has not (sync.py run_sync; store.py
\* observe_many, mark_absent, purge_urns).
THEOREM ObservationsFollowRun ==
  ASSUME OneSyncer
  PROVE Spec => []RunInv
<1>1. Init => RunInv
  BY InitRunInv
<1>2. RunInv /\ [Next]_vars => RunInv'
  BY NextKeeps
<1> QED BY <1>1, <1>2, PTL DEF Spec

\* A checkpoint commits only over what the snapshot of its run held.
LEMMA CheckpointStep ==
  ASSUME RunInv, [Next]_vars, NEW p \in Syncers, checkpoint' # checkpoint, runs'[p] # runs[p]
  PROVE SnapshotHeld(p)
<1>1. PICK q \in Syncers : Complete(q)
  <2>1. ~UNCHANGED vars
    BY DEF vars, syncVars
  <2>2. \A c, r : ~PurgeEntity(c, r)
    BY DEF PurgeEntity, Local, localVars
  <2>3. \A c, r, v : ~LocalWrite(c, r, v)
    BY DEF LocalWrite, Local, localVars
  <2>4. \A c, k, v : ~ResolveConflict(c, k, v)
    BY DEF ResolveConflict, Local, localVars
  <2>5. \A c, through : ~Import(c, through)
    BY DEF Import
  <2>6. SyncNext
    BY <2>1, <2>2, <2>3, <2>4, <2>5 DEF Next
  <2> QED BY <2>6 DEF SyncNext, SyncStep, SourceEdit, Begin, TakeSnapshot, Capture,
                      Reconcile, Abandon
<1>2. q = p
  BY <1>1 DEF Complete, RunInv, RunTyped
<1>3. runs[p].pc = "reconciled" /\ Emitted(p) = HeldBy(p)
  BY <1>1, <1>2 DEF Complete, Emitted
<1> SUFFICES ASSUME NEW r \in Records
             PROVE IF Obs[r] = None
                   THEN runs[p].snapshot[r] = None \/ <<Collector, r>> \in touched
                   ELSE IF runs[p].snapshot[r] = None THEN Obs[r].present = "absent_from_source"
                   ELSE Obs[r].present = "present" /\ Obs[r].fingerprint = runs[p].snapshot[r]
  BY DEF SnapshotHeld, Obs
<1>4. CASE r \in HeldBy(p)
  BY <1>3, <1>4 DEF RunInv, ReconciledHeld, Sighted, HeldBy
<1>5. CASE r \notin HeldBy(p)
  BY <1>3, <1>5 DEF RunInv, ReconciledHeld, HeldBy
<1> QED BY <1>4, <1>5

\* With one process that syncs at a time, a checkpoint commits only when the observations
\* say what the run's snapshot held (sync.py run_sync), whatever died, failed or was
\* purged before, and whatever the replicas do.
THEOREM CheckpointsFaithful ==
  ASSUME OneSyncer
  PROVE Spec => CheckpointMatchesSnapshot
<1>1. RunInv /\ [Next]_vars =>
        [\A p \in Syncers : checkpoint' # checkpoint /\ runs'[p] # runs[p] => SnapshotHeld(p)]_vars
  BY CheckpointStep
<1> QED BY <1>1, ObservationsFollowRun, PTL DEF Spec, CheckpointMatchesSnapshot

=============================================================================
