--------------------------- MODULE ReplicaProofs ---------------------------
(***************************************************************************)
(* What the operations of the store and of the replay do, one by one.      *)
(*                                                                         *)
(* For each operation of CacheStore, a lemma (...Does) gives the fields it *)
(* changes, another that the database stays Sound: its times are in a set  *)
(* W, its index of imported bindings is right where it is not dirty. For   *)
(* the replay of a journal J, Steps says the same of each kind of event,   *)
(* and that what the receiver has bound is what the first events of J said *)
(* last; BatchLeads carries any such relation along a batch. Logged is     *)
(* what the producer's operations keep of its journal, Ranked the order of *)
(* heads and revisions. The lemmas are cited in JournalProofs, where W is  *)
(* what the runs of a specification have witnessed.                        *)
(***************************************************************************)
EXTENDS Replica, WellFoundedInduction, FiniteSetTheorems, TLAPS

(* Induction over a batch. **************************************************)

LEMMA LeastNumber ==
  ASSUME NEW T \in SUBSET Nat, T # {}
  PROVE  \E n \in T : \A m \in T : n <= m
<1> DEFINE R == {p \in Nat \X Nat : p[1] < p[2]}
<1>1. IsWellFoundedOn(R, Nat)
  BY NatLessThanWellFounded DEF OpToRel
<1> HIDE DEF R
<1>2. PICK n \in T : \A m \in T : ~ (<<m, n>> \in R)
  BY <1>1, WFMin, Zenon
<1>3. \A m \in T : ~ (m < n)
  BY <1>2 DEF R
<1> QED BY <1>2, <1>3

\* What is in a set of numbers for 0 and passes from one number to the next is there
\* for all up to N.
LEMMA UpTo ==
  ASSUME NEW N \in Nat, NEW T, 0 \in T, \A i \in 1 .. N : i - 1 \in T => i \in T
  PROVE  \A i \in 0 .. N : i \in T
<1> DEFINE U == {i \in 0 .. N : i \notin T}
<1>1. SUFFICES ASSUME U # {} PROVE FALSE
  OBVIOUS
<1>2. U \in SUBSET Nat
  OBVIOUS
<1> HIDE DEF U
<1>3. PICK n \in U : \A m \in U : n <= m
  BY <1>1, <1>2, LeastNumber
<1>4. n \in 0 .. N /\ n \notin T
  BY <1>3 DEF U
<1>5. n \in 1 .. N /\ n - 1 \in 0 .. N /\ n - 1 \notin U
  BY <1>3, <1>4
<1> QED BY <1>4, <1>5 DEF U

\* d and what replay made of it, event by event: g[i] after i events.
Replayed(x, e) == IF x = None \/ ~Applicable(x, e) THEN None ELSE ApplyEvent(x, e)
IsTrace(g, d, batch, n) ==
  g = [i \in 0 .. n |-> IF i = 0 THEN d ELSE Replayed(g[i - 1], batch[i])]

LEMMA TraceExists ==
  ASSUME NEW d, NEW batch, NEW N \in Nat
  PROVE  \E g : IsTrace(g, d, batch, N)
<1> DEFINE T == {n \in Nat : \E g : IsTrace(g, d, batch, n)}
<1>1. 0 \in T
  <2> DEFINE g == [i \in 0 .. 0 |-> d]
  <2>1. g = [i \in 0 .. 0 |-> IF i = 0 THEN d ELSE Replayed(g[i - 1], batch[i])]
    OBVIOUS
  <2> QED BY <2>1 DEF IsTrace
<1>2. ASSUME NEW n \in 1 .. N, n - 1 \in T  PROVE n \in T
  <2>1. PICK h : IsTrace(h, d, batch, n - 1)
    BY <1>2
  <2> DEFINE g == [i \in 0 .. n |-> IF i = n THEN Replayed(h[n - 1], batch[n]) ELSE h[i]]
  <2>2. \A i \in 0 .. n - 1 : h[i] = IF i = 0 THEN d ELSE Replayed(h[i - 1], batch[i])
    BY <2>1 DEF IsTrace
  <2>3. \A i \in 0 .. n : g[i] = IF i = 0 THEN d ELSE Replayed(g[i - 1], batch[i])
    <3>1. SUFFICES ASSUME NEW i \in 0 .. n
                   PROVE  g[i] = IF i = 0 THEN d ELSE Replayed(g[i - 1], batch[i])
      OBVIOUS
    <3>2. CASE i = n
      BY <3>2
    <3>3. CASE i # n
      BY <2>2, <3>3
    <3> QED BY <3>2, <3>3
  <2>4. g = [i \in 0 .. n |-> g[i]]
    OBVIOUS
  <2> HIDE DEF g
  <2>5. IsTrace(g, d, batch, n)
    BY <2>3, <2>4 DEF IsTrace
  <2> QED BY <2>5
<1> HIDE DEF T
<1>3. \A n \in 1 .. N : n - 1 \in T => n \in T
  BY <1>2
<1>4. \A n \in 0 .. N : n \in T
  BY <1>1, <1>3, UpTo, Zenon
<1> QED BY <1>4 DEF T

\* When every event of a batch leads from one set of states into the next, the replay
\* ends in the last of them.
LEMMA ReplayLeads ==
  ASSUME NEW d, NEW batch, Len(batch) \in Nat, NEW S, d \in S[0],
         \A i \in 1 .. Len(batch) : \A x \in S[i - 1] :
           x # None /\ Applicable(x, batch[i]) /\ ApplyEvent(x, batch[i]) \in S[i]
  PROVE  Replay(d, batch) \in S[Len(batch)]
<1> DEFINE n == Len(batch)
           g == CHOOSE h : IsTrace(h, d, batch, n)
           T == {i \in 0 .. n : g[i] \in S[i]}
<1>1. IsTrace(g, d, batch, n)
  BY TraceExists
<1>2. Replay(d, batch) = g[n]
  BY DEF Replay, IsTrace, Replayed
<1> HIDE DEF g
<1>3. \A i \in 0 .. n : g[i] = IF i = 0 THEN d ELSE Replayed(g[i - 1], batch[i])
  BY <1>1 DEF IsTrace
<1>4. 0 \in T
  BY <1>3
<1>5. ASSUME NEW i \in 1 .. n, i - 1 \in T  PROVE i \in T
  <2>1. g[i] = Replayed(g[i - 1], batch[i]) /\ g[i - 1] \in S[i - 1]
    BY <1>3, <1>5
  <2> QED BY <2>1 DEF Replayed
<1>6. n \in Nat
  OBVIOUS
<1> HIDE DEF T, n
<1>7. \A i \in 1 .. n : i - 1 \in T => i \in T
  BY <1>5
<1>8. \A i \in 0 .. n : i \in T
  BY <1>4, <1>6, <1>7, UpTo, Zenon
<1>9. n \in T
  BY <1>6, <1>8
<1> QED BY <1>2, <1>9 DEF T, n

(* What is kept of a database. **********************************************)

\* What a sighting says of the record: the content it holds, or that it is gone.
SightedContent(v, p) == IF p = "present" THEN v ELSE None

\* Every time that the database gives for a head or an observation is in W.
Fresh(d, W) ==
  \A r \in Records :
    /\ d.head[r] = None => d.sighted[r] = 0
    /\ d.head[r] # None => <<r, d.head[r].digest, EffectiveTime(d, r)>> \in W
    /\ d.observations[r] # None =>
         <<r, SightedContent(d.observations[r].fingerprint, d.observations[r].present),
           LastSeen(d.observations[r])>> \in W

\* The index is right about every key that is not marked dirty.
RecordsIndexed(d) == \A r \in Records \ d.dirty : (r \in d.eligible) <=> HeadMatches(d, r)
EvidenceIndexed(d) ==
  /\ d.eligibleIds \subseteq DOMAIN d.evidence
  /\ \A i \in DOMAIN d.evidence \ d.dirtyIds : (i \in d.eligibleIds) <=> EvidenceMatches(d, i)

Sound(d, W) == d \in Database /\ Fresh(d, W) /\ RecordsIndexed(d) /\ EvidenceIndexed(d)

\* An operation that is no part of a replay leaves the bindings alone.
KeepsBindings(d, e) == e.bound = d.bound /\ e.evidence = d.evidence
SameIndex(d, e) ==
  e.eligible = d.eligible /\ e.eligibleIds = d.eligibleIds
  /\ e.dirty = d.dirty /\ e.dirtyIds = d.dirtyIds
SameRows(d, e) ==
  e.head = d.head /\ e.sighted = d.sighted /\ e.observations = d.observations

LEMMA SameSound ==
  ASSUME NEW d, NEW e \in Database, NEW W, Sound(d, W),
         KeepsBindings(d, e), SameIndex(d, e), SameRows(d, e)
  PROVE  Sound(e, W)
<1>1. \A r \in Records : HeadMatches(e, r) <=> HeadMatches(d, r)
  BY DEF HeadMatches, KeepsBindings, SameRows
<1>2. \A i : EvidenceMatches(e, i) <=> EvidenceMatches(d, i)
  BY DEF EvidenceMatches, KeepsBindings, SameRows
<1>3. \A r : EffectiveTime(e, r) = EffectiveTime(d, r)
  BY DEF EffectiveTime, SameRows
<1>4. Fresh(e, W)
  BY <1>3 DEF Fresh, Sound, SameRows
<1> QED BY <1>1, <1>2, <1>4
            DEF Sound, RecordsIndexed, EvidenceIndexed, KeepsBindings, SameIndex

(* Journal, revisions, conflicts. *******************************************)

LEMMA JournaledDoes ==
  ASSUME NEW d \in Database, NEW e \in Event
  PROVE  LET x == Journaled(d, e)
         IN /\ x \in Database
            /\ KeepsBindings(d, x) /\ SameIndex(d, x) /\ SameRows(d, x)
            /\ x.journal = Append(d.journal, e)
            /\ x.revisions = d.revisions /\ x.conflicts = d.conflicts /\ x.lastId = d.lastId
<1>1. Append(d.journal, e) \in Seq(Event)
  BY DEF Database
<1> DEFINE j == Append(d.journal, e)
<1> HIDE DEF j
<1>2. [d EXCEPT !.journal = j] \in Database
  BY <1>1 DEF Database, j
<1> QED BY <1>2 DEF Journaled, Database, KeepsBindings, SameIndex, SameRows, j

LEMMA EventTypes ==
  /\ \A r \in Records, v \in Contents, at \in Nat, p \in Contents \cup {None} :
       [op |-> "record", urn |-> r, digest |-> v, at |-> at, previous |-> p] \in Event
  /\ \A r \in Records, v \in Contents, at \in Nat, p \in Contents \cup {None}, b \in Nat :
       [op |-> "revision", urn |-> r, digest |-> v, at |-> at, supersedes |-> p, body |-> b]
         \in Event
  /\ \A r \in Records, at \in Nat : [op |-> "record_refresh", urn |-> r, at |-> at] \in Event
  /\ \A r \in Records, i \in Nat, v \in Contents, p \in Presence, at \in Nat :
       [op |-> "observation", urn |-> r, id |-> i, fingerprint |-> v, present |-> p, at |-> at]
         \in Event
  /\ \A i \in Nat, at \in Nat : [op |-> "observation_refresh", id |-> i, at |-> at] \in Event
BY DEF Event

LEMMA WriteRevisionDoes ==
  ASSUME NEW d \in Database, NEW r \in Records, NEW v \in Contents, NEW q \in Revision
  PROVE  LET x == WriteRevision(d, r, v, q)
             e == [op |-> "revision", urn |-> r, digest |-> v, at |-> q.at,
                   supersedes |-> q.supersedes, body |-> q.body]
         IN /\ x \in Database
            /\ KeepsBindings(d, x) /\ SameIndex(d, x) /\ SameRows(d, x)
            /\ x.journal = d.journal \/ x.journal = Append(d.journal, e)
            /\ x.revisions = [d.revisions EXCEPT ![r][v] = q]
            /\ x.conflicts = d.conflicts /\ x.lastId = d.lastId
<1> DEFINE e == [op |-> "revision", urn |-> r, digest |-> v, at |-> q.at,
                 supersedes |-> q.supersedes, body |-> q.body]
           w == [d EXCEPT !.revisions[r][v] = q]
<1>1. e \in Event
  BY EventTypes DEF Revision
<1>2. w \in Database /\ w = [d EXCEPT !.revisions = [d.revisions EXCEPT ![r][v] = q]]
  BY DEF Database
<1>3. KeepsBindings(d, w) /\ SameIndex(d, w) /\ SameRows(d, w) /\ w.journal = d.journal
      /\ w.conflicts = d.conflicts /\ w.lastId = d.lastId
      /\ w.revisions = [d.revisions EXCEPT ![r][v] = q]
  BY DEF Database, KeepsBindings, SameIndex, SameRows
<1>4. CASE d.revisions[r][v] = q
  <2>1. [d.revisions EXCEPT ![r][v] = q] = d.revisions
    BY <1>4 DEF Database
  <2> QED BY <1>4, <2>1 DEF WriteRevision, KeepsBindings, SameIndex, SameRows
<1>5. CASE d.revisions[r][v] # q
  <2>1. WriteRevision(d, r, v, q) = Journaled(w, e)
    BY <1>5 DEF WriteRevision
  <2> HIDE DEF w, e
  <2>2. LET x == Journaled(w, e)
        IN /\ x \in Database
           /\ KeepsBindings(w, x) /\ SameIndex(w, x) /\ SameRows(w, x)
           /\ x.journal = Append(w.journal, e)
           /\ x.revisions = w.revisions /\ x.conflicts = w.conflicts /\ x.lastId = w.lastId
    BY <1>1, <1>2, JournaledDoes
  <2>3. QED BY <1>3, <2>1, <2>2 DEF KeepsBindings, SameIndex, SameRows, e
<1> QED BY <1>4, <1>5

\* d became x: a revision of r was written, or moved, or was there already.
Revised(d, x, r, v, at, supersedes, body) ==
  /\ x \in Database
  /\ KeepsBindings(d, x) /\ SameIndex(d, x) /\ SameRows(d, x)
  /\ x.conflicts = d.conflicts /\ x.lastId = d.lastId
  /\ \/ x.revisions = d.revisions
     \/ /\ d.revisions[r][v] = None
        /\ x.revisions = [d.revisions EXCEPT ![r][v] =
                           [at |-> at, supersedes |-> supersedes, body |-> body]]
     \/ /\ d.revisions[r][v] # None
        /\ d.revisions[r][v].at < at
        /\ x.revisions = [d.revisions EXCEPT ![r][v] =
                           [@ EXCEPT !.at = at, !.supersedes = supersedes]]
  /\ \/ x.journal = d.journal
     \/ \E s \in Contents \cup {None}, b \in Nat :
          x.journal = Append(d.journal, [op |-> "revision", urn |-> r, digest |-> v,
                                         at |-> at, supersedes |-> s, body |-> b])

LEMMA AddRevisionDoes ==
  ASSUME NEW d \in Database, NEW r \in Records, NEW v \in Contents, NEW at \in Nat,
         NEW supersedes \in Contents \cup {None}, NEW body \in Nat, NEW current \in BOOLEAN
  PROVE  Revised(d, AddRevision(d, r, v, at, supersedes, body, current),
                 r, v, at, supersedes, body)
<1> DEFINE x == AddRevision(d, r, v, at, supersedes, body, current)
           old == d.revisions[r][v]
<1>1. old \in Revision \cup {None}
  BY DEF Database
<1>2. CASE old = None
  <2> DEFINE q == [at |-> at, supersedes |-> supersedes, body |-> body]
  <2>1. q \in Revision /\ q.at = at /\ q.supersedes = supersedes /\ q.body = body
    BY DEF Revision
  <2>2. x = WriteRevision(d, r, v, q)
    BY <1>2 DEF AddRevision
  <2> HIDE DEF x, q
  <2>3. /\ x \in Database
        /\ KeepsBindings(d, x) /\ SameIndex(d, x) /\ SameRows(d, x)
        /\ \/ x.journal = d.journal
           \/ x.journal = Append(d.journal, [op |-> "revision", urn |-> r, digest |-> v,
                at |-> q.at, supersedes |-> q.supersedes, body |-> q.body])
        /\ x.revisions = [d.revisions EXCEPT ![r][v] = q]
        /\ x.conflicts = d.conflicts /\ x.lastId = d.lastId
    BY <2>1, <2>2, WriteRevisionDoes
  <2> QED BY <1>2, <2>1, <2>3 DEF x, q, Revised
<1>3. CASE old # None /\ current /\ old.at < at
  <2> DEFINE q == [old EXCEPT !.at = at, !.supersedes = supersedes]
  <2>1. q \in Revision /\ q.at = at /\ q.supersedes \in Contents \cup {None} /\ q.body \in Nat
    BY <1>1, <1>3 DEF Revision
  <2>2. x = WriteRevision(d, r, v, q)
    BY <1>3 DEF AddRevision
  <2>3. [d.revisions EXCEPT ![r][v] = q]
          = [d.revisions EXCEPT ![r][v] = [@ EXCEPT !.at = at, !.supersedes = supersedes]]
    OBVIOUS
  <2> HIDE DEF x, q
  <2>4. /\ x \in Database
        /\ KeepsBindings(d, x) /\ SameIndex(d, x) /\ SameRows(d, x)
        /\ \/ x.journal = d.journal
           \/ x.journal = Append(d.journal, [op |-> "revision", urn |-> r, digest |-> v,
                at |-> q.at, supersedes |-> q.supersedes, body |-> q.body])
        /\ x.revisions = [d.revisions EXCEPT ![r][v] = q]
        /\ x.conflicts = d.conflicts /\ x.lastId = d.lastId
    BY <2>1, <2>2, WriteRevisionDoes
  <2>5. \/ x.journal = d.journal
        \/ \E s \in Contents \cup {None}, b \in Nat :
             x.journal = Append(d.journal, [op |-> "revision", urn |-> r, digest |-> v,
                                            at |-> at, supersedes |-> s, body |-> b])
    BY <2>1, <2>4
  <2> QED BY <1>3, <2>3, <2>4, <2>5 DEF x, Revised
<1>4. CASE old # None /\ ~(current /\ old.at < at)
  BY <1>4 DEF AddRevision, KeepsBindings, SameIndex, SameRows, Revised
<1> QED BY <1>2, <1>3, <1>4

LEMMA AddConflictDoes ==
  ASSUME NEW d \in Database, NEW r \in Records, NEW v \in Contents, d.head[r] # None
  PROVE  LET x == AddConflict(d, r, v)
         IN /\ x \in Database
            /\ KeepsBindings(d, x) /\ SameIndex(d, x) /\ SameRows(d, x)
            /\ x.revisions = d.revisions /\ x.journal = d.journal /\ x.lastId = d.lastId
            /\ d.conflicts \subseteq x.conflicts
            /\ \E k \in x.conflicts : k.urn = r
<1> DEFINE k == [urn |-> r, current |-> d.head[r].digest, incoming |-> v]
<1>1. k \in Conflict /\ k.urn = r
  BY DEF Database, HeadRow, Conflict
<1> HIDE DEF k
<1>2. AddConflict(d, r, v) = [d EXCEPT !.conflicts = d.conflicts \cup {k}]
  BY DEF AddConflict, k
<1>3. [d EXCEPT !.conflicts = d.conflicts \cup {k}] \in Database
  BY <1>1 DEF Database
<1> DEFINE x == AddConflict(d, r, v)
<1>4. KeepsBindings(d, x) /\ SameIndex(d, x) /\ SameRows(d, x)
      /\ x.revisions = d.revisions /\ x.journal = d.journal /\ x.lastId = d.lastId
      /\ x.conflicts = d.conflicts \cup {k}
  BY <1>2 DEF Database, KeepsBindings, SameIndex, SameRows
<1> HIDE DEF x
<1>5. x \in Database
  BY <1>2, <1>3 DEF x
<1>6. d.conflicts \subseteq x.conflicts /\ \E c \in x.conflicts : c.urn = r
  BY <1>1, <1>4
<1> QED BY <1>4, <1>5, <1>6 DEF x

(* Heads. *******************************************************************)

LEMMA LaterFacts ==
  \A a, b \in Nat : /\ Later(a, b) \in Nat /\ Later(a, b) >= a /\ Later(a, b) >= b
                    /\ Later(a, b) = a \/ Later(a, b) = b
                    /\ (a >= b => Later(a, b) = a) /\ (b >= a => Later(a, b) = b)
BY DEF Later

LEMMA HeadTypes ==
  ASSUME NEW d \in Database, NEW r \in Records
  PROVE  /\ d.head[r] # None =>
              d.head[r] \in HeadRow /\ d.head[r].digest \in Contents /\ d.head[r].at \in Nat
              /\ EffectiveTime(d, r) \in Nat /\ EffectiveTime(d, r) >= d.sighted[r]
              /\ EffectiveTime(d, r) >= d.head[r].at
         /\ d.sighted[r] \in Nat
         /\ d.observations[r] # None =>
              d.observations[r] \in Observation /\ LastSeen(d.observations[r]) \in Nat
              /\ LastSeen(d.observations[r]) >= d.observations[r].seen
         /\ d.bound[r] \in Contents \cup {None}
<1>1. d.head[r] \in HeadRow \cup {None} /\ d.sighted[r] \in Nat
      /\ d.observations[r] \in Observation \cup {None} /\ d.bound[r] \in Contents \cup {None}
  BY DEF Database
<1>2. ASSUME d.head[r] # None
      PROVE  d.head[r] \in HeadRow /\ d.head[r].digest \in Contents /\ d.head[r].at \in Nat
             /\ EffectiveTime(d, r) \in Nat /\ EffectiveTime(d, r) >= d.sighted[r]
             /\ EffectiveTime(d, r) >= d.head[r].at
  <2>1. d.head[r] \in HeadRow /\ d.head[r].digest \in Contents /\ d.head[r].at \in Nat
    BY <1>1, <1>2 DEF HeadRow
  <2> QED BY <1>1, <2>1, LaterFacts DEF EffectiveTime
<1>3. ASSUME d.observations[r] # None
      PROVE  d.observations[r] \in Observation /\ LastSeen(d.observations[r]) \in Nat
             /\ LastSeen(d.observations[r]) >= d.observations[r].seen
  <2>1. d.observations[r] \in Observation /\ d.observations[r].at \in Nat
        /\ d.observations[r].seen \in Nat
    BY <1>1, <1>3 DEF Observation
  <2> QED BY <2>1, LaterFacts DEF LastSeen
<1> QED BY <1>1, <1>2, <1>3

LEMMA RefreshRecordDoes ==
  ASSUME NEW d \in Database, NEW r \in Records, NEW at \in Nat
  PROVE  LET x == RefreshRecord(d, r, at)
         IN /\ x \in Database
            /\ KeepsBindings(d, x) /\ SameIndex(d, x)
            /\ x.head = d.head /\ x.observations = d.observations
            /\ x.sighted = [d.sighted EXCEPT ![r] = Later(@, at)]
            /\ x.journal = Append(d.journal, [op |-> "record_refresh", urn |-> r, at |-> at])
            /\ x.revisions = d.revisions /\ x.conflicts = d.conflicts /\ x.lastId = d.lastId
<1> DEFINE e == [op |-> "record_refresh", urn |-> r, at |-> at]
           s == [d.sighted EXCEPT ![r] = Later(@, at)]
           w == [d EXCEPT !.sighted = s]
<1>1. e \in Event
  BY EventTypes
<1>2. s \in [Records -> Nat]
  BY LaterFacts DEF Database
<1>3. RefreshRecord(d, r, at) = Journaled(w, e)
  BY DEF RefreshRecord
<1> HIDE DEF s, e
<1>4. w \in Database
  BY <1>2 DEF Database
<1>5. KeepsBindings(d, w) /\ SameIndex(d, w) /\ w.head = d.head
      /\ w.observations = d.observations /\ w.sighted = s /\ w.journal = d.journal
      /\ w.revisions = d.revisions /\ w.conflicts = d.conflicts /\ w.lastId = d.lastId
  BY DEF Database, KeepsBindings, SameIndex
<1> HIDE DEF w
<1>6. LET x == Journaled(w, e)
      IN /\ x \in Database
         /\ KeepsBindings(w, x) /\ SameIndex(w, x) /\ SameRows(w, x)
         /\ x.journal = Append(w.journal, e)
         /\ x.revisions = w.revisions /\ x.conflicts = w.conflicts /\ x.lastId = w.lastId
  BY <1>1, <1>4, JournaledDoes
<1>7. QED BY <1>3, <1>5, <1>6 DEF KeepsBindings, SameIndex, SameRows, e, s

LEMMA WriteHeadDoes ==
  ASSUME NEW d \in Database, NEW r \in Records, NEW v \in Contents, NEW at \in Nat
  PROVE  LET x == WriteHead(d, r, v, at)
             old == IF d.head[r] = None THEN None ELSE d.head[r].digest
         IN /\ x \in Database
            /\ KeepsBindings(d, x)
            /\ x.eligible = d.eligible /\ x.eligibleIds = d.eligibleIds
            /\ x.dirty = MarkDirty(d, r) /\ x.dirtyIds = d.dirtyIds
            /\ x.head = [d.head EXCEPT ![r] =
                 [digest |-> v, at |-> at, body |-> at, tombstoned |-> v \in Tombstones]]
            /\ x.sighted = d.sighted /\ x.observations = d.observations
            /\ x.journal = Append(d.journal, [op |-> "record", urn |-> r, digest |-> v,
                                              at |-> at, previous |-> old])
            /\ x.revisions = d.revisions /\ x.conflicts = d.conflicts /\ x.lastId = d.lastId
<1> DEFINE row == [digest |-> v, at |-> at, body |-> at, tombstoned |-> v \in Tombstones]
           old == IF d.head[r] = None THEN None ELSE d.head[r].digest
           h == [d.head EXCEPT ![r] = row]
           w == [d EXCEPT !.head = h, !.dirty = MarkDirty(d, r)]
           e == [op |-> "record", urn |-> r, digest |-> v, at |-> at, previous |-> old]
<1>1. old \in Contents \cup {None}
  BY HeadTypes
<1>2. e \in Event
  <2> HIDE DEF old
  <2> QED BY <1>1, EventTypes
<1>3. row \in HeadRow
  BY DEF HeadRow
<1>4. h \in [Records -> HeadRow \cup {None}] /\ h[r] = row
  <2> HIDE DEF row
  <2> QED BY <1>3 DEF Database
<1>5. MarkDirty(d, r) \in SUBSET Records
  BY DEF MarkDirty, Database
<1>6. w \in Database
  <2> HIDE DEF h
  <2> QED BY <1>4, <1>5 DEF Database
<1>7. KeepsBindings(d, w) /\ w.eligible = d.eligible /\ w.eligibleIds = d.eligibleIds
      /\ w.dirty = MarkDirty(d, r) /\ w.dirtyIds = d.dirtyIds
      /\ w.head = h /\ w.sighted = d.sighted /\ w.observations = d.observations
      /\ w.journal = d.journal
      /\ w.revisions = d.revisions /\ w.conflicts = d.conflicts /\ w.lastId = d.lastId
  <2> HIDE DEF h
  <2> QED BY DEF Database, KeepsBindings
<1>8. WriteHead(d, r, v, at) = JournalHead([d EXCEPT !.head[r] = row, !.dirty = MarkDirty(d, r)], r, old)
  BY DEF WriteHead
<1>9. [d EXCEPT !.head[r] = row, !.dirty = MarkDirty(d, r)] = w
  OBVIOUS
<1>10. JournalHead(w, r, old) = Journaled(w, e)
  <2>1. w.head[r].digest = v /\ w.head[r].at = at
    BY <1>4, <1>7
  <2> HIDE DEF w
  <2> QED BY <2>1 DEF JournalHead
<1> HIDE DEF w, e
<1>11. LET x == Journaled(w, e)
       IN /\ x \in Database
          /\ KeepsBindings(w, x) /\ SameIndex(w, x) /\ SameRows(w, x)
          /\ x.journal = Append(w.journal, e)
          /\ x.revisions = w.revisions /\ x.conflicts = w.conflicts /\ x.lastId = w.lastId
  BY <1>2, <1>6, JournaledDoes
<1>12. QED BY <1>7, <1>8, <1>9, <1>10, <1>11 DEF KeepsBindings, SameIndex, SameRows, e

\* Of the revisions, at most that one changed, to one of that time.
RevisionAdded(d, x, r, v, at) ==
  \A s \in Records, w \in Contents :
    \/ x.revisions[s][w] = d.revisions[s][w]
    \/ s = r /\ w = v /\ x.revisions[s][w] # None /\ x.revisions[s][w].at = at

LEMMA RevisedAdds ==
  ASSUME NEW d \in Database, NEW x, NEW r \in Records, NEW v \in Contents, NEW at \in Nat,
         NEW supersedes \in Contents \cup {None}, NEW body \in Nat,
         Revised(d, x, r, v, at, supersedes, body)
  PROVE  RevisionAdded(d, x, r, v, at)
<1> DEFINE p == [at |-> at, supersedes |-> supersedes, body |-> body]
           q == [d.revisions[r][v] EXCEPT !.at = at, !.supersedes = supersedes]
<1>1. \/ x.revisions = d.revisions
      \/ x.revisions = [d.revisions EXCEPT ![r][v] = p]
      \/ d.revisions[r][v] # None /\ x.revisions = [d.revisions EXCEPT ![r][v] = q]
  BY DEF Revised
<1>2. p \in Revision /\ p.at = at
  BY DEF Revision
<1>3. d.revisions \in [Records -> [Contents -> Revision \cup {None}]]
  BY DEF Database
<1>4. ASSUME d.revisions[r][v] # None  PROVE q \in Revision /\ q.at = at
  <2>1. d.revisions[r][v] \in Revision
    BY <1>3, <1>4
  <2> QED BY <2>1 DEF Revision
<1>5. p # None /\ (d.revisions[r][v] # None => q # None)
  BY <1>2, <1>4, NoneAssumption
<1> HIDE DEF p, q
<1> QED BY <1>1, <1>2, <1>3, <1>4, <1>5 DEF RevisionAdded

\* What becomes of a record that is upserted: its head is written, or seen again, or kept.
HeadWritten(d, x, r, v, at) ==
  LET old == IF d.head[r] = None THEN None ELSE d.head[r].digest
      j   == Append(d.journal, [op |-> "record", urn |-> r, digest |-> v,
                                at |-> at, previous |-> old])
  IN /\ x.head = [d.head EXCEPT ![r] =
                    [digest |-> v, at |-> at, body |-> at, tombstoned |-> v \in Tombstones]]
     /\ x.sighted = d.sighted /\ x.dirty = MarkDirty(d, r)
     /\ x.conflicts = d.conflicts /\ RevisionAdded(d, x, r, v, at)
     /\ \/ x.journal = j
        \/ \E s \in Contents \cup {None}, b \in Nat :
             x.journal = Append(j, [op |-> "revision", urn |-> r, digest |-> v,
                                    at |-> at, supersedes |-> s, body |-> b])
HeadSeen(d, x, r, at) ==
  /\ x.head = d.head /\ x.sighted = [d.sighted EXCEPT ![r] = Later(@, at)]
  /\ x.dirty = d.dirty /\ x.conflicts = d.conflicts /\ x.revisions = d.revisions
  /\ x.journal = Append(d.journal, [op |-> "record_refresh", urn |-> r, at |-> at])
HeadKept(d, x, r, v, at) ==
  /\ x.head = d.head /\ x.sighted = d.sighted /\ x.dirty = d.dirty
  /\ \/ x.conflicts = d.conflicts /\ x.revisions = d.revisions
     \/ d.conflicts \subseteq x.conflicts /\ (\E k \in x.conflicts : k.urn = r)
        /\ RevisionAdded(d, x, r, v, at)

LEMMA WriteAndAdd ==
  ASSUME NEW d \in Database, NEW r \in Records, NEW v \in Contents, NEW at \in Nat,
         NEW supersedes \in Contents \cup {None}
  PROVE  LET x == AddRevision(WriteHead(d, r, v, at), r, v, at, supersedes, at, TRUE)
         IN /\ x \in Database /\ KeepsBindings(d, x)
            /\ x.eligible = d.eligible /\ x.eligibleIds = d.eligibleIds
            /\ x.dirtyIds = d.dirtyIds /\ x.observations = d.observations
            /\ x.lastId = d.lastId /\ HeadWritten(d, x, r, v, at)
<1> DEFINE w == WriteHead(d, r, v, at)
           x == AddRevision(w, r, v, at, supersedes, at, TRUE)
           old == IF d.head[r] = None THEN None ELSE d.head[r].digest
           j == Append(d.journal, [op |-> "record", urn |-> r, digest |-> v,
                                   at |-> at, previous |-> old])
           row == [digest |-> v, at |-> at, body |-> at, tombstoned |-> v \in Tombstones]
<1>1. /\ w \in Database /\ KeepsBindings(d, w)
      /\ w.eligible = d.eligible /\ w.eligibleIds = d.eligibleIds
      /\ w.dirty = MarkDirty(d, r) /\ w.dirtyIds = d.dirtyIds
      /\ w.head = [d.head EXCEPT ![r] = row]
      /\ w.sighted = d.sighted /\ w.observations = d.observations
      /\ w.journal = j
      /\ w.revisions = d.revisions /\ w.conflicts = d.conflicts /\ w.lastId = d.lastId
  BY WriteHeadDoes
<1> HIDE DEF w
<1>0. Revised(w, x, r, v, at, supersedes, at)
  BY <1>1, AddRevisionDoes
<1>2. /\ x \in Database
      /\ KeepsBindings(w, x) /\ SameIndex(w, x) /\ SameRows(w, x)
      /\ x.conflicts = w.conflicts /\ x.lastId = w.lastId
      /\ \/ x.journal = w.journal
         \/ \E s \in Contents \cup {None}, b \in Nat :
              x.journal = Append(w.journal, [op |-> "revision", urn |-> r, digest |-> v,
                                             at |-> at, supersedes |-> s, body |-> b])
  BY <1>0 DEF Revised
<1>3. RevisionAdded(w, x, r, v, at)
  BY <1>0, <1>1, RevisedAdds
<1> HIDE DEF x
<1>4. RevisionAdded(d, x, r, v, at)
  BY <1>1, <1>3 DEF RevisionAdded
<1>5. HeadWritten(d, x, r, v, at)
  <2> HIDE DEF row
  <2>1. x.head = [d.head EXCEPT ![r] = row] /\ x.sighted = d.sighted /\ x.dirty = MarkDirty(d, r)
        /\ x.conflicts = d.conflicts
    BY <1>1, <1>2 DEF SameIndex, SameRows
  <2>2. \/ x.journal = j
        \/ \E s \in Contents \cup {None}, b \in Nat :
             x.journal = Append(j, [op |-> "revision", urn |-> r, digest |-> v,
                                    at |-> at, supersedes |-> s, body |-> b])
    BY <1>1, <1>2
  <2> QED BY <1>4, <2>1, <2>2, Zenon DEF HeadWritten, row
<1>6. KeepsBindings(d, x) /\ x.eligible = d.eligible /\ x.eligibleIds = d.eligibleIds
      /\ x.dirtyIds = d.dirtyIds /\ x.observations = d.observations /\ x.lastId = d.lastId
  BY <1>1, <1>2 DEF KeepsBindings, SameIndex, SameRows
<1> QED BY <1>2, <1>5, <1>6 DEF x, w

LEMMA UpsertDoes ==
  ASSUME NEW d \in Database, NEW r \in Records, NEW v \in Contents, NEW at \in Nat,
         NEW origin, NEW prior
  PROVE  LET x == Upsert(d, r, v, at, origin, prior)
         IN /\ x \in Database /\ KeepsBindings(d, x)
            /\ x.eligible = d.eligible /\ x.eligibleIds = d.eligibleIds
            /\ x.dirtyIds = d.dirtyIds /\ x.observations = d.observations
            /\ x.lastId = d.lastId
            /\ \/ /\ HeadWritten(d, x, r, v, at)
                  /\ d.head[r] # None /\ origin = "import" =>
                       d.head[r].digest \in prior /\ at >= EffectiveTime(d, r)
               \/ /\ HeadSeen(d, x, r, at)
                  /\ d.head[r] # None /\ d.head[r].digest = v /\ at >= EffectiveTime(d, r)
               \/ /\ HeadKept(d, x, r, v, at)
                  /\ d.head[r] # None
                  /\ (\E k \in x.conflicts : k.urn = r) \/ at < EffectiveTime(d, r)
                  /\ origin # "import" => x = d /\ d.head[r].digest = v
<1> DEFINE x == Upsert(d, r, v, at, origin, prior)
<1>1. d.head[r] # None => d.head[r].digest \in Contents /\ EffectiveTime(d, r) \in Nat
  BY HeadTypes
<1>2. ASSUME NEW s \in Contents \cup {None}, x = AddRevision(WriteHead(d, r, v, at), r, v, at, s, at, TRUE)
      PROVE  /\ x \in Database /\ KeepsBindings(d, x)
             /\ x.eligible = d.eligible /\ x.eligibleIds = d.eligibleIds
             /\ x.dirtyIds = d.dirtyIds /\ x.observations = d.observations
             /\ x.lastId = d.lastId /\ HeadWritten(d, x, r, v, at)
  <2> HIDE DEF x
  <2> QED BY <1>2, WriteAndAdd
<1>3. CASE d.head[r] = None
  <2>1. x = AddRevision(WriteHead(d, r, v, at), r, v, at, None, at, TRUE)
    BY <1>3 DEF Upsert
  <2> HIDE DEF x
  <2> QED BY <1>2, <1>3, <2>1 DEF x
<1>4. ASSUME x = d
      PROVE  /\ x \in Database /\ KeepsBindings(d, x)
             /\ x.eligible = d.eligible /\ x.eligibleIds = d.eligibleIds
             /\ x.dirtyIds = d.dirtyIds /\ x.observations = d.observations
             /\ x.lastId = d.lastId /\ HeadKept(d, x, r, v, at)
  BY <1>4 DEF KeepsBindings, HeadKept
<1>5. CASE d.head[r] # None /\ d.head[r].digest = v
  <2>1. CASE Outdated(d, r, at)
    <3>1. x = d
      BY <1>5, <2>1 DEF Upsert
    <3> HIDE DEF x
    <3> QED BY <1>4, <1>5, <2>1, <3>1 DEF Outdated, x
  <2>2. CASE ~Outdated(d, r, at)
    <3>1. x = RefreshRecord(d, r, at)
      BY <1>5, <2>2 DEF Upsert
    <3>2. at >= EffectiveTime(d, r)
      BY <1>1, <1>5, <2>2 DEF Outdated
    <3> HIDE DEF x
    <3>3. /\ x \in Database
          /\ KeepsBindings(d, x) /\ SameIndex(d, x)
          /\ x.head = d.head /\ x.observations = d.observations
          /\ x.sighted = [d.sighted EXCEPT ![r] = Later(@, at)]
          /\ x.journal = Append(d.journal, [op |-> "record_refresh", urn |-> r, at |-> at])
          /\ x.revisions = d.revisions /\ x.conflicts = d.conflicts /\ x.lastId = d.lastId
      BY <3>1, RefreshRecordDoes
    <3>4. HeadSeen(d, x, r, at)
      BY <3>3 DEF HeadSeen, SameIndex
    <3> QED BY <1>5, <3>2, <3>3, <3>4 DEF SameIndex, x
  <2> QED BY <2>1, <2>2
<1>6. CASE d.head[r] # None /\ d.head[r].digest # v
  <2>1. CASE origin = "import" /\ Foreign(d, r, prior)
    <3> DEFINE c == AddConflict(d, r, v)
    <3>1. x = AddRevision(c, r, v, at, None, at, FALSE)
      BY <1>6, <2>1 DEF Upsert
    <3>2. /\ c \in Database
          /\ KeepsBindings(d, c) /\ SameIndex(d, c) /\ SameRows(d, c)
          /\ c.revisions = d.revisions /\ c.journal = d.journal /\ c.lastId = d.lastId
          /\ d.conflicts \subseteq c.conflicts
          /\ \E k \in c.conflicts : k.urn = r
      BY <1>6, AddConflictDoes
    <3> HIDE DEF x, c
    <3>0. Revised(c, x, r, v, at, None, at)
      BY <3>1, <3>2, AddRevisionDoes
    <3>3. /\ x \in Database
          /\ KeepsBindings(c, x) /\ SameIndex(c, x) /\ SameRows(c, x)
          /\ x.conflicts = c.conflicts /\ x.lastId = c.lastId
      BY <3>0 DEF Revised
    <3>4. RevisionAdded(d, x, r, v, at)
      <4>1. RevisionAdded(c, x, r, v, at)
        BY <3>0, <3>2, RevisedAdds
      <4> QED BY <3>2, <4>1 DEF RevisionAdded
    <3>5. HeadKept(d, x, r, v, at) /\ \E k \in x.conflicts : k.urn = r
      BY <3>2, <3>3, <3>4 DEF HeadKept, SameRows, SameIndex
    <3>6. KeepsBindings(d, x)
          /\ x.eligible = d.eligible /\ x.eligibleIds = d.eligibleIds
          /\ x.dirtyIds = d.dirtyIds /\ x.observations = d.observations /\ x.lastId = d.lastId
      BY <3>2, <3>3 DEF KeepsBindings, SameRows, SameIndex
    <3> QED BY <1>6, <2>1, <3>3, <3>5, <3>6 DEF x
  <2>2. CASE origin = "import" /\ ~Foreign(d, r, prior) /\ Outdated(d, r, at)
    <3>1. x = d
      BY <1>6, <2>2 DEF Upsert
    <3> HIDE DEF x
    <3> QED BY <1>4, <1>6, <2>2, <3>1 DEF Outdated, x
  <2>3. CASE ~(origin = "import" /\ Foreign(d, r, prior)) /\ ~(origin = "import" /\ Outdated(d, r, at))
    <3>1. x = AddRevision(WriteHead(d, r, v, at), r, v, at, d.head[r].digest, at, TRUE)
      BY <1>6, <2>3 DEF Upsert
    <3>2. origin = "import" => d.head[r].digest \in prior /\ at >= EffectiveTime(d, r)
      BY <1>1, <1>6, <2>3 DEF Foreign, Outdated
    <3> HIDE DEF x
    <3> QED BY <1>1, <1>2, <1>6, <3>1, <3>2 DEF x
  <2> QED BY <2>1, <2>2, <2>3
<1> QED BY <1>3, <1>5, <1>6

\* A write that marks the key dirty, if it is bound, keeps the index right.
LEMMA IndexKept ==
  ASSUME NEW d \in Database, NEW x \in Database, RecordsIndexed(d), NEW r \in Records,
         KeepsBindings(d, x), x.eligible = d.eligible,
         x.dirty = MarkDirty(d, r), \A s \in Records \ {r} : x.head[s] = d.head[s]
  PROVE  RecordsIndexed(x)
<1>1. SUFFICES ASSUME NEW s \in Records \ x.dirty
               PROVE  (s \in x.eligible) <=> HeadMatches(x, s)
  BY DEF RecordsIndexed
<1>2. s \notin d.dirty
  BY <1>1 DEF MarkDirty
<1>3. (s \in d.eligible) <=> HeadMatches(d, s)
  BY <1>2 DEF RecordsIndexed
<1>4. CASE s = r
  <2>1. d.bound[r] = None
    BY <1>1, <1>4 DEF MarkDirty
  <2> QED BY <1>3, <1>4, <2>1 DEF HeadMatches, KeepsBindings
<1>5. CASE s # r
  BY <1>3, <1>5 DEF HeadMatches, KeepsBindings
<1> QED BY <1>4, <1>5

LEMMA SameRecords ==
  ASSUME NEW d, NEW x, RecordsIndexed(d), x.bound = d.bound, x.head = d.head,
         x.eligible = d.eligible, x.dirty = d.dirty
  PROVE  RecordsIndexed(x)
BY DEF RecordsIndexed, HeadMatches

LEMMA SameEvidence ==
  ASSUME NEW d, NEW x, EvidenceIndexed(d), x.evidence = d.evidence,
         x.observations = d.observations, x.eligibleIds = d.eligibleIds, x.dirtyIds = d.dirtyIds
  PROVE  EvidenceIndexed(x)
<1>1. \A i : EvidenceMatches(x, i) <=> EvidenceMatches(d, i)
  BY DEF EvidenceMatches
<1> QED BY <1>1 DEF EvidenceIndexed

LEMMA UpsertSound ==
  ASSUME NEW d, NEW W, Sound(d, W), NEW r \in Records, NEW v \in Contents, NEW at \in Nat,
         NEW origin, NEW prior, <<r, v, at>> \in W,
         origin # "import" => <<r, v, Later(at, d.sighted[r])>> \in W
  PROVE  Sound(Upsert(d, r, v, at, origin, prior), W)
<1> DEFINE x == Upsert(d, r, v, at, origin, prior)
<1>1. d \in Database /\ Fresh(d, W) /\ RecordsIndexed(d) /\ EvidenceIndexed(d)
  BY DEF Sound
<1>2. /\ x \in Database /\ KeepsBindings(d, x)
      /\ x.eligible = d.eligible /\ x.eligibleIds = d.eligibleIds
      /\ x.dirtyIds = d.dirtyIds /\ x.observations = d.observations
      /\ \/ /\ HeadWritten(d, x, r, v, at)
            /\ d.head[r] # None /\ origin = "import" =>
                 d.head[r].digest \in prior /\ at >= EffectiveTime(d, r)
         \/ /\ HeadSeen(d, x, r, at)
            /\ d.head[r] # None /\ d.head[r].digest = v /\ at >= EffectiveTime(d, r)
         \/ HeadKept(d, x, r, v, at)
  <2> HIDE DEF x
  <2>1. x = Upsert(d, r, v, at, origin, prior)
    BY DEF x
  <2> QED BY <1>1, <2>1, UpsertDoes
<1> HIDE DEF x
<1>3. EvidenceIndexed(x)
  BY <1>1, <1>2, SameEvidence DEF KeepsBindings
<1>4. CASE HeadWritten(d, x, r, v, at) /\ (d.head[r] # None /\ origin = "import" => at >= EffectiveTime(d, r))
  <2> DEFINE row == [digest |-> v, at |-> at, body |-> at, tombstoned |-> v \in Tombstones]
  <2>1. row \in HeadRow /\ row.digest = v /\ row.at = at /\ row # None
    <3>1. row \in HeadRow /\ row.digest = v /\ row.at = at
      BY DEF HeadRow
    <3> HIDE DEF row
    <3> QED BY <3>1, NoneAssumption
  <2>2. x.head = [d.head EXCEPT ![r] = row] /\ x.sighted = d.sighted /\ x.dirty = MarkDirty(d, r)
    BY <1>4 DEF HeadWritten
  <2> HIDE DEF row
  <2>3. x.head[r] = row /\ \A s \in Records \ {r} : x.head[s] = d.head[s]
    BY <1>1, <2>2 DEF Database
  <2>4. RecordsIndexed(x)
    BY <1>1, <1>2, <2>2, <2>3, IndexKept
  <2>5. <<r, v, Later(at, d.sighted[r])>> \in W
    <3>1. d.sighted[r] \in Nat /\ (d.head[r] # None => EffectiveTime(d, r) \in Nat
                                    /\ EffectiveTime(d, r) >= d.sighted[r])
      BY <1>1, HeadTypes
    <3>2. CASE d.head[r] = None
      <4>1. d.sighted[r] = 0
        BY <1>1, <3>2 DEF Fresh
      <4>2. Later(at, d.sighted[r]) = at
        BY <4>1, LaterFacts
      <4> QED BY <4>2
    <3>3. CASE d.head[r] # None /\ origin = "import"
      <4>1. at >= d.sighted[r]
        BY <1>4, <3>1, <3>3
      <4>2. Later(at, d.sighted[r]) = at
        BY <3>1, <4>1, LaterFacts
      <4> QED BY <4>2
    <3> QED BY <3>2, <3>3
  <2>6. ASSUME NEW s \in Records
        PROVE  /\ x.head[s] = None => x.sighted[s] = 0
               /\ x.head[s] # None => <<s, x.head[s].digest, EffectiveTime(x, s)>> \in W
    <3>1. CASE s = r
      BY <2>1, <2>2, <2>3, <2>5, <3>1 DEF EffectiveTime
    <3>2. CASE s # r
      BY <1>1, <2>2, <2>3, <3>2 DEF EffectiveTime, Fresh
    <3> QED BY <3>1, <3>2
  <2>7. Fresh(x, W)
    BY <1>1, <1>2, <2>6 DEF Fresh
  <2> QED BY <1>2, <1>3, <2>4, <2>7 DEF Sound, x
<1>5. CASE HeadSeen(d, x, r, at) /\ d.head[r] # None /\ d.head[r].digest = v
           /\ at >= EffectiveTime(d, r)
  <2>1. x.head = d.head /\ x.sighted = [d.sighted EXCEPT ![r] = Later(@, at)] /\ x.dirty = d.dirty
    BY <1>5 DEF HeadSeen
  <2>2. RecordsIndexed(x)
    BY <1>1, <1>2, <2>1, SameRecords DEF KeepsBindings
  <2>3. x.sighted[r] = Later(d.sighted[r], at) /\ \A s \in Records \ {r} : x.sighted[s] = d.sighted[s]
    BY <1>1, <2>1 DEF Database
  <2>4. EffectiveTime(x, r) = at
    <3>1. d.sighted[r] \in Nat /\ d.head[r].at \in Nat /\ EffectiveTime(d, r) \in Nat
          /\ EffectiveTime(d, r) >= d.sighted[r] /\ EffectiveTime(d, r) >= d.head[r].at
      BY <1>1, <1>5, HeadTypes
    <3>2. at >= d.sighted[r] /\ at >= d.head[r].at
      BY <1>5, <3>1
    <3>3. Later(d.sighted[r], at) = at /\ Later(d.head[r].at, at) = at
      BY <3>1, <3>2 DEF Later
    <3>4. EffectiveTime(x, r) = Later(d.head[r].at, Later(d.sighted[r], at))
      BY <2>1, <2>3 DEF EffectiveTime
    <3> QED BY <3>3, <3>4
  <2>5. ASSUME NEW s \in Records
        PROVE  /\ x.head[s] = None => x.sighted[s] = 0
               /\ x.head[s] # None => <<s, x.head[s].digest, EffectiveTime(x, s)>> \in W
    <3>1. CASE s = r
      BY <1>5, <2>1, <2>4, <3>1
    <3>2. CASE s # r
      BY <1>1, <2>1, <2>3, <3>2 DEF EffectiveTime, Fresh
    <3> QED BY <3>1, <3>2
  <2>6. Fresh(x, W)
    BY <1>1, <1>2, <2>5 DEF Fresh
  <2> QED BY <1>2, <1>3, <2>2, <2>6 DEF Sound, x
<1>6. CASE HeadKept(d, x, r, v, at)
  <2>1. x.head = d.head /\ x.sighted = d.sighted /\ x.dirty = d.dirty
    BY <1>6 DEF HeadKept
  <2>2. KeepsBindings(d, x) /\ SameIndex(d, x) /\ SameRows(d, x)
    BY <1>2, <2>1 DEF SameIndex, SameRows
  <2> QED BY <1>2, <2>2, SameSound DEF x
<1> QED BY <1>2, <1>4, <1>5, <1>6

(* Observations. ************************************************************)

\* The row is the one that the producer's id was bound to.
IsRow(o, q) == o # None /\ o.id = q.local /\ o.fingerprint = q.fingerprint /\ o.present = q.present

LEMMA EvidenceRow ==
  ASSUME NEW d \in Database, NEW i
  PROVE  EvidenceMatches(d, i) <=>
           i \in DOMAIN d.evidence /\ d.evidence[i] # None
             /\ IsRow(d.observations[d.evidence[i].urn], d.evidence[i])
<1>1. ASSUME i \in DOMAIN d.evidence, d.evidence[i] # None  PROVE d.evidence[i].urn \in Records
  <2>1. d.evidence[i] \in Evidence
    BY <1>1 DEF Database
  <2> QED BY <2>1 DEF Evidence
<1> QED BY <1>1 DEF EvidenceMatches, IsRow

\* A write of rows that marks the ids dirty that are bound to them.
LEMMA EvidenceKept ==
  ASSUME NEW d \in Database, NEW x \in Database, EvidenceIndexed(d),
         x.evidence = d.evidence, x.eligibleIds = d.eligibleIds, d.dirtyIds \subseteq x.dirtyIds,
         \A i \in DOMAIN d.evidence : d.evidence[i] # None =>
           LET q == d.evidence[i]
           IN (IsRow(x.observations[q.urn], q) <=> IsRow(d.observations[q.urn], q))
              \/ i \in x.dirtyIds
  PROVE  EvidenceIndexed(x)
<1>1. \A i \in DOMAIN d.evidence \ x.dirtyIds : EvidenceMatches(x, i) <=> EvidenceMatches(d, i)
  BY EvidenceRow
<1> QED BY <1>1 DEF EvidenceIndexed

\* d became x: one row of the observations was written.
Observed(d, x, r, v, p, at) ==
  LET old  == d.observations[r]
      id   == IF old = None THEN d.lastId + 1 ELSE old.id
      same == old # None /\ old.fingerprint = v /\ old.present = p
  IN /\ x \in Database
     /\ KeepsBindings(d, x) /\ x.eligible = d.eligible /\ x.eligibleIds = d.eligibleIds
     /\ x.dirty = d.dirty /\ x.head = d.head /\ x.sighted = d.sighted
     /\ x.revisions = d.revisions /\ x.conflicts = d.conflicts
     /\ x.lastId = Later(d.lastId, id)
     /\ x.observations = [d.observations EXCEPT ![r] =
          [id |-> id, fingerprint |-> v, at |-> at,
           seen |-> IF old = None THEN 0 ELSE old.seen, present |-> p]]
     /\ IF same THEN x.dirtyIds = d.dirtyIds /\ x.journal = d.journal
        ELSE /\ x.dirtyIds = MarkIdsDirty(d, id)
             /\ x.journal = Append(d.journal,
                  [op |-> "observation", urn |-> r, id |-> id, fingerprint |-> v,
                   present |-> p, at |-> at])

LEMMA WriteObservationDoes ==
  ASSUME NEW d \in Database, NEW r \in Records, NEW v \in Contents, NEW p \in Presence,
         NEW at \in Nat
  PROVE  Observed(d, WriteObservation(d, r, v, p, at), r, v, p, at)
<1> DEFINE old == d.observations[r]
           id == IF old = None THEN d.lastId + 1 ELSE old.id
           same == old # None /\ old.fingerprint = v /\ old.present = p
           o == [id |-> id, fingerprint |-> v, at |-> at,
                 seen |-> IF old = None THEN 0 ELSE old.seen, present |-> p]
           obs == [d.observations EXCEPT ![r] = o]
           ids == IF same THEN d.dirtyIds ELSE MarkIdsDirty(d, id)
           w == [d EXCEPT !.observations = obs, !.lastId = Later(d.lastId, id), !.dirtyIds = ids]
           e == [op |-> "observation", urn |-> r, id |-> id, fingerprint |-> v,
                 present |-> p, at |-> at]
<1>1. old \in Observation \cup {None} /\ d.lastId \in Nat
  BY DEF Database
<1>2. id \in Nat /\ o \in Observation
  BY <1>1 DEF Observation
<1>3. e \in Event
  <2> HIDE DEF id
  <2> QED BY <1>2, EventTypes
<1>4. obs \in [Records -> Observation \cup {None}]
  <2> HIDE DEF o
  <2> QED BY <1>2 DEF Database
<1>5. ids \in SUBSET Nat
  <2> HIDE DEF id, same
  <2> QED BY DEF Database, MarkIdsDirty
<1>6. Later(d.lastId, id) \in Nat
  BY <1>1, <1>2, LaterFacts
<1>7. WriteObservation(d, r, v, p, at) = IF same THEN w ELSE Journaled(w, e)
  BY DEF WriteObservation
<1> HIDE DEF obs, ids, same, id, e
<1>8. w \in Database
  BY <1>4, <1>5, <1>6 DEF Database
<1>9. /\ KeepsBindings(d, w) /\ w.eligible = d.eligible /\ w.eligibleIds = d.eligibleIds
      /\ w.dirty = d.dirty /\ w.head = d.head /\ w.sighted = d.sighted
      /\ w.revisions = d.revisions /\ w.conflicts = d.conflicts
      /\ w.lastId = Later(d.lastId, id) /\ w.observations = obs /\ w.dirtyIds = ids
      /\ w.journal = d.journal
  BY DEF Database, KeepsBindings
<1> HIDE DEF w
<1>10. CASE same
  BY <1>7, <1>8, <1>9, <1>10 DEF Observed, same, id, obs, ids
<1>11. CASE ~same
  <2> DEFINE x == Journaled(w, e)
  <2>1. /\ x \in Database
        /\ KeepsBindings(w, x) /\ SameIndex(w, x) /\ SameRows(w, x)
        /\ x.journal = Append(w.journal, e)
        /\ x.revisions = w.revisions /\ x.conflicts = w.conflicts /\ x.lastId = w.lastId
    BY <1>3, <1>8, JournaledDoes
  <2> HIDE DEF x
  <2>2. /\ KeepsBindings(d, x) /\ x.eligible = d.eligible /\ x.eligibleIds = d.eligibleIds
        /\ x.dirty = d.dirty /\ x.head = d.head /\ x.sighted = d.sighted
        /\ x.revisions = d.revisions /\ x.conflicts = d.conflicts
        /\ x.lastId = Later(d.lastId, id) /\ x.observations = obs
        /\ x.dirtyIds = MarkIdsDirty(d, id) /\ x.journal = Append(d.journal, e)
    BY <1>9, <1>11, <2>1 DEF KeepsBindings, SameIndex, SameRows, ids
  <2>3. Observed(d, x, r, v, p, at)
    BY <1>11, <2>1, <2>2 DEF Observed, same, id, obs, e
  <2> QED BY <1>7, <1>11, <2>3 DEF x
<1> QED BY <1>10, <1>11

\* A write at `at` over a sighting at `last` gives a time that is in W.
Witnesses(W, r, c, at, last) ==
  <<r, c, at>> \in W /\ (last <= at \/ \A t \in Nat : <<r, c, t>> \in W)

LastOf(d, r) == IF d.observations[r] = None THEN 0 ELSE LastSeen(d.observations[r])

LEMMA WitnessesLater ==
  ASSUME NEW W, NEW r, NEW c, NEW at \in Nat, NEW last \in Nat, NEW t \in Nat, t <= last,
         Witnesses(W, r, c, at, last)
  PROVE  <<r, c, Later(at, t)>> \in W
<1>1. Later(at, t) \in Nat /\ (last <= at => Later(at, t) = at)
  BY DEF Later
<1> QED BY <1>1 DEF Witnesses

\* A row's own time is in W while the others keep theirs.
LEMMA ObservationsFresh ==
  ASSUME NEW d \in Database, NEW x \in Database, NEW W, Fresh(d, W), NEW r \in Records,
         x.head = d.head, x.sighted = d.sighted,
         \A s \in Records \ {r} : x.observations[s] = d.observations[s],
         x.observations[r] # None =>
           <<r, SightedContent(x.observations[r].fingerprint, x.observations[r].present),
             LastSeen(x.observations[r])>> \in W
  PROVE  Fresh(x, W)
<1>1. \A s \in Records : EffectiveTime(x, s) = EffectiveTime(d, s)
  BY DEF EffectiveTime
<1> QED BY <1>1 DEF Fresh

LEMMA ObservedSound ==
  ASSUME NEW d, NEW W, Sound(d, W), NEW x, NEW r \in Records, NEW v \in Contents,
         NEW p \in Presence, NEW at \in Nat, Observed(d, x, r, v, p, at),
         Witnesses(W, r, SightedContent(v, p), at, LastOf(d, r))
  PROVE  Sound(x, W)
<1> DEFINE old == d.observations[r]
           id == IF old = None THEN d.lastId + 1 ELSE old.id
           same == old # None /\ old.fingerprint = v /\ old.present = p
           seen == IF old = None THEN 0 ELSE old.seen
           o == [id |-> id, fingerprint |-> v, at |-> at, seen |-> seen, present |-> p]
<1>1. d \in Database /\ Fresh(d, W) /\ RecordsIndexed(d) /\ EvidenceIndexed(d)
  BY DEF Sound
<1>2. /\ x \in Database
      /\ KeepsBindings(d, x) /\ x.eligible = d.eligible /\ x.eligibleIds = d.eligibleIds
      /\ x.dirty = d.dirty /\ x.head = d.head /\ x.sighted = d.sighted
      /\ x.observations = [d.observations EXCEPT ![r] = o]
      /\ IF same THEN x.dirtyIds = d.dirtyIds ELSE x.dirtyIds = MarkIdsDirty(d, id)
  BY DEF Observed
<1>3. old = None \/ (old \in Observation /\ LastSeen(old) \in Nat /\ LastSeen(old) >= old.seen)
  BY <1>1, HeadTypes
<1>4. id \in Nat /\ seen \in Nat /\ d.lastId \in Nat
  BY <1>1, <1>3 DEF Observation, Database
<1>5. o \in Observation /\ o.id = id /\ o.fingerprint = v /\ o.present = p /\ o.at = at /\ o.seen = seen
  <2> HIDE DEF id, seen
  <2> QED BY <1>4 DEF Observation
<1>6. <<r, SightedContent(v, p), Later(at, seen)>> \in W
  <2>1. LastOf(d, r) \in Nat /\ seen <= LastOf(d, r)
    BY <1>3, <1>4 DEF LastOf
  <2> HIDE DEF seen
  <2> QED BY <1>4, <2>1, WitnessesLater
<1> HIDE DEF o
<1>7. x.observations[r] = o /\ o # None /\ \A s \in Records \ {r} : x.observations[s] = d.observations[s]
  <2>1. o # None
    BY <1>5, NoneAssumption
  <2> QED BY <1>1, <1>2, <2>1 DEF Database
<1>8. LastSeen(o) = Later(at, seen)
  BY <1>5 DEF LastSeen
<1>9. Fresh(x, W)
  <2>1. <<r, SightedContent(o.fingerprint, o.present), LastSeen(o)>> \in W
    BY <1>5, <1>6, <1>8
  <2>2. x.observations[r] # None =>
          <<r, SightedContent(x.observations[r].fingerprint, x.observations[r].present),
            LastSeen(x.observations[r])>> \in W
    BY <1>7, <2>1
  <2>3. x \in Database /\ x.head = d.head /\ x.sighted = d.sighted
        /\ \A s \in Records \ {r} : x.observations[s] = d.observations[s]
    BY <1>2, <1>7
  <2> QED BY <1>1, <2>2, <2>3, ObservationsFresh
<1>10. RecordsIndexed(x)
  BY <1>1, <1>2, SameRecords DEF KeepsBindings
<1>11. EvidenceIndexed(x)
  <2>1. d.dirtyIds \subseteq x.dirtyIds
    BY <1>2 DEF MarkIdsDirty
  <2>2. ASSUME NEW i \in DOMAIN d.evidence, d.evidence[i] # None, i \notin x.dirtyIds
        PROVE  IsRow(x.observations[d.evidence[i].urn], d.evidence[i])
                 <=> IsRow(d.observations[d.evidence[i].urn], d.evidence[i])
    <3> DEFINE q == d.evidence[i]
    <3>1. q.urn \in Records
      BY <1>1, <2>2 DEF Database, Evidence
    <3>2. CASE q.urn # r
      BY <1>7, <3>1, <3>2
    <3>3. CASE q.urn = r /\ same
      BY <1>5, <1>7, <3>3 DEF IsRow
    <3>4. CASE q.urn = r /\ ~same
      <4>1. q.local # id
        BY <1>2, <2>2, <3>4 DEF MarkIdsDirty
      <4> QED BY <1>5, <1>7, <3>4, <4>1 DEF IsRow
    <3> QED BY <3>2, <3>3, <3>4
  <2> QED BY <1>1, <1>2, <2>1, <2>2, EvidenceKept DEF KeepsBindings
<1> QED BY <1>2, <1>9, <1>10, <1>11 DEF Sound

\* d became x: the sighting of an observation was stamped.
Stamped(d, x, r, at) ==
  /\ x \in Database
  /\ KeepsBindings(d, x) /\ SameIndex(d, x) /\ x.head = d.head /\ x.sighted = d.sighted
  /\ x.revisions = d.revisions /\ x.conflicts = d.conflicts /\ x.lastId = d.lastId
  /\ x.observations = [d.observations EXCEPT ![r] =
       [d.observations[r] EXCEPT !.seen = Later(d.observations[r].seen, at)]]
  /\ x.journal = Append(d.journal,
       [op |-> "observation_refresh", id |-> d.observations[r].id, at |-> at])

LEMMA StampObservationDoes ==
  ASSUME NEW d \in Database, NEW r \in Records, NEW at \in Nat, d.observations[r] # None
  PROVE  Stamped(d, StampObservation(d, r, at), r, at)
<1> DEFINE old == d.observations[r]
           o == [old EXCEPT !.seen = Later(old.seen, at)]
           obs == [d.observations EXCEPT ![r] = o]
           w == [d EXCEPT !.observations = obs]
           e == [op |-> "observation_refresh", id |-> old.id, at |-> at]
<1>1. old \in Observation
  BY HeadTypes
<1>2. old.id \in Nat /\ old.seen \in Nat
  BY <1>1 DEF Observation
<1>3. o \in Observation
  <2>1. Later(old.seen, at) \in Nat
    BY <1>2, LaterFacts
  <2> QED BY <1>1, <2>1 DEF Observation
<1>4. e \in Event
  BY <1>2, EventTypes
<1>5. obs \in [Records -> Observation \cup {None}]
  <2> HIDE DEF o
  <2> QED BY <1>3 DEF Database
<1>6. StampObservation(d, r, at) = Journaled(w, e)
  BY DEF StampObservation
<1>7. obs = [d.observations EXCEPT ![r] =
       [d.observations[r] EXCEPT !.seen = Later(d.observations[r].seen, at)]]
  OBVIOUS
<1> HIDE DEF obs, e
<1>8. w \in Database
  BY <1>5 DEF Database
<1>9. /\ KeepsBindings(d, w) /\ SameIndex(d, w) /\ w.head = d.head /\ w.sighted = d.sighted
      /\ w.revisions = d.revisions /\ w.conflicts = d.conflicts /\ w.lastId = d.lastId
      /\ w.observations = obs /\ w.journal = d.journal
  BY DEF Database, KeepsBindings, SameIndex
<1> HIDE DEF w
<1> DEFINE x == Journaled(w, e)
<1>10. /\ x \in Database
       /\ KeepsBindings(w, x) /\ SameIndex(w, x) /\ SameRows(w, x)
       /\ x.journal = Append(w.journal, e)
       /\ x.revisions = w.revisions /\ x.conflicts = w.conflicts /\ x.lastId = w.lastId
  BY <1>4, <1>8, JournaledDoes
<1> HIDE DEF x
<1>11. /\ KeepsBindings(d, x) /\ SameIndex(d, x) /\ x.head = d.head /\ x.sighted = d.sighted
       /\ x.revisions = d.revisions /\ x.conflicts = d.conflicts /\ x.lastId = d.lastId
       /\ x.observations = obs /\ x.journal = Append(d.journal, e)
  BY <1>9, <1>10 DEF KeepsBindings, SameIndex, SameRows
<1> QED BY <1>6, <1>7, <1>10, <1>11 DEF Stamped, e, x

LEMMA StampedSound ==
  ASSUME NEW d, NEW W, Sound(d, W), NEW x, NEW r \in Records, NEW at \in Nat,
         d.observations[r] # None, Stamped(d, x, r, at),
         <<r, SightedContent(d.observations[r].fingerprint, d.observations[r].present),
           Later(at, LastSeen(d.observations[r]))>> \in W
  PROVE  Sound(x, W)
<1> DEFINE old == d.observations[r]
           o == [old EXCEPT !.seen = Later(old.seen, at)]
<1>1. d \in Database /\ Fresh(d, W) /\ RecordsIndexed(d) /\ EvidenceIndexed(d)
  BY DEF Sound
<1>2. /\ x \in Database
      /\ KeepsBindings(d, x) /\ SameIndex(d, x) /\ x.head = d.head /\ x.sighted = d.sighted
      /\ x.observations = [d.observations EXCEPT ![r] = o]
  BY DEF Stamped
<1>3. old \in Observation
  BY <1>1, HeadTypes
<1>4. old.at \in Nat /\ old.seen \in Nat
  BY <1>3 DEF Observation
<1>5. o.id = old.id /\ o.fingerprint = old.fingerprint /\ o.present = old.present
      /\ o.at = old.at /\ o.seen = Later(old.seen, at) /\ o \in Observation
  <2>1. Later(old.seen, at) \in Nat
    BY <1>4, LaterFacts
  <2> QED BY <1>3, <2>1 DEF Observation
<1> HIDE DEF o
<1>6. x.observations[r] = o /\ o # None /\ \A s \in Records \ {r} : x.observations[s] = d.observations[s]
  <2>1. o # None
    BY <1>5, NoneAssumption
  <2> QED BY <1>1, <1>2, <2>1 DEF Database
<1>7. LastSeen(o) = Later(at, LastSeen(old))
  BY <1>4, <1>5 DEF LastSeen, Later
<1>8. Fresh(x, W)
  <2>1. <<r, SightedContent(o.fingerprint, o.present), LastSeen(o)>> \in W
    BY <1>5, <1>7
  <2>2. x.observations[r] # None =>
          <<r, SightedContent(x.observations[r].fingerprint, x.observations[r].present),
            LastSeen(x.observations[r])>> \in W
    BY <1>6, <2>1
  <2>3. x \in Database /\ x.head = d.head /\ x.sighted = d.sighted
        /\ \A s \in Records \ {r} : x.observations[s] = d.observations[s]
    BY <1>2, <1>6
  <2> QED BY <1>1, <2>2, <2>3, ObservationsFresh
<1>9. RecordsIndexed(x)
  BY <1>1, <1>2, SameRecords DEF KeepsBindings, SameIndex
<1>10. EvidenceIndexed(x)
  <2>1. ASSUME NEW i \in DOMAIN d.evidence, d.evidence[i] # None
        PROVE  IsRow(x.observations[d.evidence[i].urn], d.evidence[i])
                 <=> IsRow(d.observations[d.evidence[i].urn], d.evidence[i])
    <3> DEFINE q == d.evidence[i]
    <3>1. q.urn \in Records
      BY <1>1, <2>1 DEF Database, Evidence
    <3>2. CASE q.urn # r
      BY <1>6, <3>1, <3>2
    <3>3. CASE q.urn = r
      BY <1>5, <1>6, <3>3 DEF IsRow
    <3> QED BY <3>2, <3>3
  <2> QED BY <1>1, <1>2, <2>1, EvidenceKept DEF KeepsBindings, SameIndex
<1> QED BY <1>2, <1>8, <1>9, <1>10 DEF Sound

\* d became x: heads, revisions and conflicts are what they were.
SameHeads(d, x) ==
  x.head = d.head /\ x.sighted = d.sighted /\ x.revisions = d.revisions
  /\ x.conflicts = d.conflicts

LEMMA ObserveDoes ==
  ASSUME NEW d, NEW W, Sound(d, W), NEW r \in Records, NEW v \in Contents, NEW at \in Nat,
         Witnesses(W, r, v, at, LastOf(d, r))
  PROVE  LET x == Observe(d, r, v, at)
         IN Sound(x, W) /\ KeepsBindings(d, x) /\ SameHeads(d, x)
<1> DEFINE old == d.observations[r]
           same == old # None /\ old.fingerprint = v /\ old.present = "present"
           w == WriteObservation(d, r, v, "present", at)
           e == IF same THEN d ELSE w
           x == StampObservation(e, r, at)
<1>1. d \in Database
  BY DEF Sound
<1>2. SightedContent(v, "present") = v /\ "present" \in Presence
  BY DEF SightedContent, Presence
<1>3. old # None => old \in Observation /\ LastSeen(old) \in Nat
  BY <1>1, HeadTypes
<1>4. /\ Sound(e, W) /\ KeepsBindings(d, e) /\ SameHeads(d, e)
      /\ e.observations[r] # None
      /\ SightedContent(e.observations[r].fingerprint, e.observations[r].present) = v
      /\ <<r, v, Later(at, LastSeen(e.observations[r]))>> \in W
  <2>1. CASE same
    <3>1. <<r, v, Later(at, LastSeen(old))>> \in W
      <4>1. LastOf(d, r) = LastSeen(old) /\ LastSeen(old) \in Nat
        BY <1>3, <2>1 DEF LastOf
      <4> QED BY <4>1, WitnessesLater
    <3> QED BY <1>2, <2>1, <3>1 DEF KeepsBindings, SameHeads
  <2>2. CASE ~same
    <3>1. Observed(d, w, r, v, "present", at)
      BY <1>1, <1>2, WriteObservationDoes
    <3> HIDE DEF w
    <3>2. Sound(w, W)
      BY <1>2, <3>1, ObservedSound
    <3>3. KeepsBindings(d, w) /\ SameHeads(d, w)
      BY <3>1 DEF Observed, SameHeads
    <3> DEFINE seen == IF old = None THEN 0 ELSE old.seen
               id == IF old = None THEN d.lastId + 1 ELSE old.id
               o == [id |-> id, fingerprint |-> v, at |-> at, seen |-> seen, present |-> "present"]
    <3>4. w.observations = [d.observations EXCEPT ![r] = o]
      BY <3>1 DEF Observed
    <3>5. seen \in Nat /\ id \in Nat /\ seen <= LastOf(d, r) /\ LastOf(d, r) \in Nat
      <4>1. CASE old = None
        BY <1>1, <4>1 DEF LastOf, Database
      <4>2. CASE old # None
        <5>1. LastSeen(old) >= old.seen
          BY <1>1, <4>2, HeadTypes
        <5> QED BY <1>3, <4>2, <5>1 DEF LastOf, Observation
      <4> QED BY <4>1, <4>2
    <3>6. o \in Observation /\ o.fingerprint = v /\ o.present = "present"
          /\ o.at = at /\ o.seen = seen
      <4> HIDE DEF seen, id
      <4> QED BY <1>2, <3>5 DEF Observation
    <3> HIDE DEF o, seen
    <3>7. w.observations[r] = o /\ o # None
      <4>1. o # None
        BY <3>6, NoneAssumption
      <4> QED BY <1>1, <3>4, <4>1 DEF Database
    <3>8. Later(at, LastSeen(o)) = Later(at, seen)
      BY <3>5, <3>6 DEF LastSeen, Later
    <3>9. <<r, v, Later(at, LastSeen(o))>> \in W
      BY <3>5, <3>8, WitnessesLater
    <3> QED BY <1>2, <2>2, <3>2, <3>3, <3>6, <3>7, <3>9
  <2> QED BY <2>1, <2>2
<1>5. Observe(d, r, v, at) = x
  BY DEF Observe
<1> HIDE DEF e
<1>6. Stamped(e, x, r, at)
  BY <1>4, StampObservationDoes DEF Sound
<1> HIDE DEF x
<1>7. Sound(x, W)
  BY <1>4, <1>6, StampedSound
<1>8. KeepsBindings(e, x) /\ SameHeads(e, x)
  BY <1>6 DEF Stamped, SameHeads
<1>9. KeepsBindings(d, x) /\ SameHeads(d, x)
  BY <1>4, <1>8 DEF KeepsBindings, SameHeads
<1> QED BY <1>5, <1>7, <1>9

LEMMA MergeObservationDoes ==
  ASSUME NEW d, NEW W, Sound(d, W), NEW r \in Records, NEW v \in Contents,
         NEW p \in Presence, NEW at \in Nat, <<r, SightedContent(v, p), at>> \in W
  PROVE  LET x == MergeObservation(d, r, v, p, at)
         IN /\ Sound(x, W) /\ KeepsBindings(d, x) /\ SameHeads(d, x)
            /\ x.observations[r] # None
            /\ d.dirty = x.dirty
<1> DEFINE x == MergeObservation(d, r, v, p, at)
<1>1. d \in Database
  BY DEF Sound
<1>2. CASE d.observations[r] # None /\ at < LastSeen(d.observations[r])
  <2>1. x = d
    BY <1>2 DEF MergeObservation
  <2> HIDE DEF x
  <2> QED BY <1>2, <2>1 DEF KeepsBindings, SameHeads, x
<1>3. CASE ~(d.observations[r] # None /\ at < LastSeen(d.observations[r]))
  <2>1. x = WriteObservation(d, r, v, p, at)
    BY <1>3 DEF MergeObservation
  <2> HIDE DEF x
  <2>2. Observed(d, x, r, v, p, at)
    BY <1>1, <2>1, WriteObservationDoes
  <2>3. LastOf(d, r) <= at
    <3>1. d.observations[r] # None => LastSeen(d.observations[r]) \in Nat
      BY <1>1, HeadTypes
    <3> QED BY <1>3, <3>1 DEF LastOf
  <2>4. Sound(x, W)
    BY <2>2, <2>3, ObservedSound DEF Witnesses
  <2>5. KeepsBindings(d, x) /\ SameHeads(d, x) /\ d.dirty = x.dirty
    BY <2>2 DEF Observed, SameHeads
  <2>6. x.observations[r] # None
    <3> DEFINE old == d.observations[r]
               o == [id |-> IF old = None THEN d.lastId + 1 ELSE old.id, fingerprint |-> v,
                     at |-> at, seen |-> IF old = None THEN 0 ELSE old.seen, present |-> p]
    <3>1. x.observations = [d.observations EXCEPT ![r] = o] /\ x \in Database
      BY <2>2 DEF Observed
    <3>2. old \in Observation \cup {None} /\ d.lastId \in Nat
      BY <1>1 DEF Database
    <3>3. o \in Observation
      BY <3>2 DEF Observation
    <3> HIDE DEF o
    <3> QED BY <1>1, <3>1, <3>3, NoneAssumption DEF Database
  <2> QED BY <2>4, <2>5, <2>6 DEF x
<1> QED BY <1>2, <1>3

LEMMA SetToSeqBijects ==
  ASSUME NEW S, IsFiniteSet(S)
  PROVE  /\ Cardinality(S) \in Nat /\ SetToSeq(S) \in [1 .. Cardinality(S) -> S]
         /\ Len(SetToSeq(S)) = Cardinality(S)
         /\ \A i, j \in 1 .. Cardinality(S) : SetToSeq(S)[i] = SetToSeq(S)[j] => i = j
         /\ \A s \in S : \E i \in 1 .. Cardinality(S) : SetToSeq(S)[i] = s
<1> DEFINE n == Cardinality(S)
           f == SetToSeq(S)
<1>1. n \in Nat /\ ExistsBijection(1 .. n, S)
  BY FS_CardinalityType
<1>2. \E g \in [1 .. n -> S] : IsInjective(g)
  BY <1>1 DEF ExistsBijection, Bijection, Injection, IsInjective
<1>3. f \in [1 .. n -> S] /\ IsInjective(f)
  BY <1>2 DEF SetToSeq
<1> HIDE DEF f
<1>4. \A i, j \in 1 .. n : f[i] = f[j] => i = j
  BY <1>3 DEF IsInjective
<1>5. f \in Surjection(1 .. n, S)
  <2>1. f \in Injection(1 .. n, S)
    BY <1>3 DEF Injection
  <2>2. Cardinality(1 .. n) = n
    BY <1>1, FS_Interval
  <2> QED BY <1>1, <2>1, <2>2, FS_Injection
<1>6. \A s \in S : \E i \in 1 .. n : f[i] = s
  BY <1>5 DEF Surjection
<1>7. Len(f) = n
  BY <1>1, <1>3
<1> QED BY <1>1, <1>3, <1>4, <1>6, <1>7 DEF f

GoneRow(d, r, since) == [d.observations[r] EXCEPT !.at = since, !.present = "absent_from_source"]
GoneEvent(d, r, since) ==
  [op |-> "observation", urn |-> r, id |-> d.observations[r].id,
   fingerprint |-> d.observations[r].fingerprint,
   present |-> "absent_from_source", at |-> since]

\* d became x: the rows not seen since were marked absent.
MarkedAbsent(d, x, since) ==
  LET rows == SetToSeq(Unseen(d, since)) IN
  /\ x \in Database
  /\ KeepsBindings(d, x) /\ SameHeads(d, x) /\ x.lastId = d.lastId
  /\ x.eligible = d.eligible /\ x.eligibleIds = d.eligibleIds /\ x.dirty = d.dirty
  /\ x.observations = [r \in Records |-> IF r \in Unseen(d, since) THEN GoneRow(d, r, since)
                                        ELSE d.observations[r]]
  /\ d.dirtyIds \subseteq x.dirtyIds
  /\ \A r \in Unseen(d, since) : MarkIdsDirty(d, d.observations[r].id) \subseteq x.dirtyIds
  /\ x.journal = d.journal \o [i \in 1 .. Len(rows) |-> GoneEvent(d, rows[i], since)]

LEMMA GoneTypes ==
  ASSUME NEW d \in Database, NEW since \in Nat, NEW r \in Unseen(d, since)
  PROVE  /\ r \in Records /\ d.observations[r] \in Observation /\ d.observations[r] # None
         /\ d.observations[r].present = "present" /\ LastSeen(d.observations[r]) < since
         /\ GoneRow(d, r, since) \in Observation /\ GoneRow(d, r, since) # None
         /\ GoneRow(d, r, since).id = d.observations[r].id
         /\ GoneRow(d, r, since).fingerprint = d.observations[r].fingerprint
         /\ GoneRow(d, r, since).present = "absent_from_source"
         /\ LastSeen(GoneRow(d, r, since)) = since
         /\ GoneEvent(d, r, since) \in Event
<1>1. r \in Records /\ d.observations[r] # None /\ d.observations[r].present = "present"
      /\ LastSeen(d.observations[r]) < since
  BY DEF Unseen
<1>2. d.observations[r] \in Observation /\ LastSeen(d.observations[r]) >= d.observations[r].seen
      /\ LastSeen(d.observations[r]) \in Nat
  BY <1>1, HeadTypes
<1> DEFINE o == d.observations[r]
           g == GoneRow(d, r, since)
<1>3. o.id \in Nat /\ o.fingerprint \in Contents /\ o.seen \in Nat
  BY <1>2 DEF Observation
<1>4. g \in Observation /\ g.id = o.id /\ g.fingerprint = o.fingerprint
      /\ g.present = "absent_from_source" /\ g.at = since /\ g.seen = o.seen
  BY <1>2 DEF GoneRow, Observation, Presence
<1>5. GoneEvent(d, r, since) \in Event
  BY <1>1, <1>3, EventTypes DEF GoneEvent, Presence
<1> HIDE DEF g
<1>6. g # None
  BY <1>4, NoneAssumption
<1>7. o.seen < since
  BY <1>1, <1>2, <1>3
<1>8. LastSeen(g) = since
  BY <1>3, <1>4, <1>7 DEF LastSeen, Later
<1> QED BY <1>1, <1>2, <1>4, <1>5, <1>6, <1>8 DEF g

LEMMA MarkAbsentDoes ==
  ASSUME NEW d \in Database, NEW since \in Nat
  PROVE  MarkedAbsent(d, MarkAbsent(d, since), since)
<1> DEFINE U == Unseen(d, since)
           rows == SetToSeq(U)
           obs == [r \in Records |-> IF r \in U THEN GoneRow(d, r, since) ELSE d.observations[r]]
           marked == UNION {MarkIdsDirty(d, d.observations[r].id) : r \in U}
           added == [i \in 1 .. Len(rows) |-> GoneEvent(d, rows[i], since)]
           x == [d EXCEPT !.observations = obs, !.dirtyIds = d.dirtyIds \cup marked,
                          !.journal = d.journal \o added]
<1>1. MarkAbsent(d, since) = x
  BY DEF MarkAbsent, GoneRow, GoneEvent
<1>2. obs \in [Records -> Observation \cup {None}]
  BY GoneTypes DEF Database
<1>3. ASSUME NEW r \in U  PROVE MarkIdsDirty(d, d.observations[r].id) \subseteq Nat
  BY DEF MarkIdsDirty, Database
<1>4. d.dirtyIds \cup marked \in SUBSET Nat
  BY <1>3 DEF Database
<1>5. d.journal \o added \in Seq(Event)
  <2>1. IsFiniteSet(U)
    BY StoreAssumption, FS_Subset DEF Unseen
  <2>2. Len(rows) \in Nat /\ \A i \in 1 .. Len(rows) : rows[i] \in U
    BY <2>1, SetToSeqBijects
  <2>3. \A i \in 1 .. Len(rows) : GoneEvent(d, rows[i], since) \in Event
    BY <2>2, GoneTypes
  <2>4. added \in Seq(Event)
    <3> HIDE DEF rows
    <3> QED BY <2>2, <2>3
  <2> HIDE DEF added
  <2> QED BY <2>4 DEF Database
<1> DEFINE ids == d.dirtyIds \cup marked
           j == d.journal \o added
<1> HIDE DEF obs, ids, j
<1>6. [d EXCEPT !.observations = obs, !.dirtyIds = ids, !.journal = j] \in Database
  BY <1>2, <1>4, <1>5 DEF Database, ids, j
<1>7. x = [d EXCEPT !.observations = obs, !.dirtyIds = ids, !.journal = j]
  BY DEF ids, j
<1>8. /\ KeepsBindings(d, x) /\ SameHeads(d, x) /\ x.lastId = d.lastId
      /\ x.eligible = d.eligible /\ x.eligibleIds = d.eligibleIds /\ x.dirty = d.dirty
      /\ x.observations = obs /\ x.dirtyIds = ids /\ x.journal = j
  BY <1>7 DEF Database, KeepsBindings, SameHeads
<1>9. d.dirtyIds \subseteq ids /\ \A r \in U : MarkIdsDirty(d, d.observations[r].id) \subseteq ids
  BY DEF ids
<1>10. x \in Database
  BY <1>6, <1>7
<1> HIDE DEF x
<1> QED BY <1>1, <1>8, <1>9, <1>10 DEF MarkedAbsent, obs, j

LEMMA MarkedAbsentSound ==
  ASSUME NEW d, NEW W, Sound(d, W), NEW x, NEW since \in Nat, MarkedAbsent(d, x, since),
         \A r \in Unseen(d, since) : <<r, None, since>> \in W
  PROVE  Sound(x, W)
<1> DEFINE U == Unseen(d, since)
<1>1. d \in Database /\ Fresh(d, W) /\ RecordsIndexed(d) /\ EvidenceIndexed(d)
  BY DEF Sound
<1>2. /\ x \in Database
      /\ KeepsBindings(d, x) /\ x.head = d.head /\ x.sighted = d.sighted
      /\ x.eligible = d.eligible /\ x.eligibleIds = d.eligibleIds /\ x.dirty = d.dirty
      /\ \A r \in Records : x.observations[r] = IF r \in U THEN GoneRow(d, r, since)
                                                ELSE d.observations[r]
      /\ d.dirtyIds \subseteq x.dirtyIds
      /\ \A r \in U : MarkIdsDirty(d, d.observations[r].id) \subseteq x.dirtyIds
  BY DEF MarkedAbsent, SameHeads
<1> HIDE DEF U
<1>3. Fresh(x, W)
  <2>1. \A r \in Records : EffectiveTime(x, r) = EffectiveTime(d, r)
    BY <1>2 DEF EffectiveTime
  <2>2. ASSUME NEW r \in Records, x.observations[r] # None
        PROVE  <<r, SightedContent(x.observations[r].fingerprint, x.observations[r].present),
                 LastSeen(x.observations[r])>> \in W
    <3>1. CASE r \in U
      <4>1. x.observations[r] = GoneRow(d, r, since)
        BY <1>2, <3>1
      <4>2. x.observations[r].present = "absent_from_source" /\ LastSeen(x.observations[r]) = since
        BY <1>1, <3>1, <4>1, GoneTypes DEF U
      <4>3. <<r, None, since>> \in W
        BY <3>1 DEF U
      <4> QED BY <4>2, <4>3 DEF SightedContent
    <3>2. CASE r \notin U
      BY <1>1, <1>2, <2>2, <3>2 DEF Fresh
    <3> QED BY <3>1, <3>2
  <2> QED BY <1>1, <1>2, <2>1, <2>2 DEF Fresh
<1>4. RecordsIndexed(x)
  BY <1>1, <1>2, SameRecords DEF KeepsBindings
<1>5. EvidenceIndexed(x)
  <2>1. ASSUME NEW i \in DOMAIN d.evidence, d.evidence[i] # None, i \notin x.dirtyIds
        PROVE  IsRow(x.observations[d.evidence[i].urn], d.evidence[i])
                 <=> IsRow(d.observations[d.evidence[i].urn], d.evidence[i])
    <3> DEFINE q == d.evidence[i]
    <3>1. q.urn \in Records
      BY <1>1, <2>1 DEF Database, Evidence
    <3>2. CASE q.urn \notin U
      BY <1>2, <3>1, <3>2
    <3>3. CASE q.urn \in U
      <4>1. q.local # d.observations[q.urn].id
        BY <1>2, <2>1, <3>3 DEF MarkIdsDirty
      <4>2. x.observations[q.urn] = GoneRow(d, q.urn, since)
        BY <1>2, <3>1, <3>3
      <4>3. GoneRow(d, q.urn, since).id = d.observations[q.urn].id
        BY <1>1, <3>3, GoneTypes DEF U
      <4> QED BY <4>1, <4>2, <4>3 DEF IsRow
    <3> QED BY <3>2, <3>3
  <2> QED BY <1>1, <1>2, <2>1, EvidenceKept DEF KeepsBindings
<1> QED BY <1>2, <1>3, <1>4, <1>5 DEF Sound

(* Purge. *******************************************************************)

LEMMA PurgeDoes ==
  ASSUME NEW d \in Database, NEW r \in Records
  PROVE  LET x == Purge(d, r)
         IN /\ x \in Database
            /\ KeepsBindings(d, x) /\ x.lastId = d.lastId /\ x.journal = d.journal
            /\ x.conflicts = d.conflicts
            /\ x.eligible = d.eligible /\ x.eligibleIds = d.eligibleIds
            /\ x.head = [d.head EXCEPT ![r] = None]
            /\ x.revisions = [d.revisions EXCEPT ![r] = [v \in Contents |-> None]]
            /\ x.sighted = [d.sighted EXCEPT ![r] = 0]
            /\ x.observations = [d.observations EXCEPT ![r] = None]
            /\ x.dirty = IF d.head[r] = None THEN d.dirty ELSE MarkDirty(d, r)
            /\ x.dirtyIds = IF d.observations[r] = None THEN d.dirtyIds
                            ELSE MarkIdsDirty(d, d.observations[r].id)
<1> DEFINE h == [d.head EXCEPT ![r] = None]
           v == [d.revisions EXCEPT ![r] = [w \in Contents |-> None]]
           s == [d.sighted EXCEPT ![r] = 0]
           o == [d.observations EXCEPT ![r] = None]
           k == IF d.head[r] = None THEN d.dirty ELSE MarkDirty(d, r)
           i == IF d.observations[r] = None THEN d.dirtyIds
                ELSE MarkIdsDirty(d, d.observations[r].id)
           x == [d EXCEPT !.head = h, !.revisions = v, !.sighted = s, !.observations = o,
                          !.dirty = k, !.dirtyIds = i]
<1>1. Purge(d, r) = x
  BY DEF Purge
<1>2. h \in [Records -> HeadRow \cup {None}] /\ s \in [Records -> Nat]
      /\ o \in [Records -> Observation \cup {None}]
  BY DEF Database
<1>3. v \in [Records -> [Contents -> Revision \cup {None}]]
  BY DEF Database
<1>4. k \in SUBSET Records
  BY DEF Database, MarkDirty
<1>5. i \in SUBSET Nat
  BY DEF Database, MarkIdsDirty
<1> HIDE DEF h, v, s, o, k, i
<1>6. x \in Database
  BY <1>2, <1>3, <1>4, <1>5 DEF Database
<1>7. /\ KeepsBindings(d, x) /\ x.lastId = d.lastId /\ x.journal = d.journal
      /\ x.conflicts = d.conflicts
      /\ x.eligible = d.eligible /\ x.eligibleIds = d.eligibleIds
      /\ x.head = h /\ x.revisions = v /\ x.sighted = s /\ x.observations = o
      /\ x.dirty = k /\ x.dirtyIds = i
  BY DEF Database, KeepsBindings
<1> HIDE DEF x
<1> QED BY <1>1, <1>6, <1>7 DEF h, v, s, o, k, i

LEMMA PurgeSound ==
  ASSUME NEW d, NEW W, Sound(d, W), NEW r \in Records
  PROVE  Sound(Purge(d, r), W)
<1> DEFINE x == Purge(d, r)
<1>1. d \in Database /\ Fresh(d, W) /\ RecordsIndexed(d) /\ EvidenceIndexed(d)
  BY DEF Sound
<1>2. /\ x \in Database
      /\ KeepsBindings(d, x)
      /\ x.eligible = d.eligible /\ x.eligibleIds = d.eligibleIds
      /\ x.head = [d.head EXCEPT ![r] = None]
      /\ x.sighted = [d.sighted EXCEPT ![r] = 0]
      /\ x.observations = [d.observations EXCEPT ![r] = None]
      /\ x.dirty = IF d.head[r] = None THEN d.dirty ELSE MarkDirty(d, r)
      /\ x.dirtyIds = IF d.observations[r] = None THEN d.dirtyIds
                      ELSE MarkIdsDirty(d, d.observations[r].id)
  BY <1>1, PurgeDoes
<1> HIDE DEF x
<1>3. x.head[r] = None /\ x.sighted[r] = 0 /\ x.observations[r] = None
      /\ \A s \in Records \ {r} : /\ x.head[s] = d.head[s] /\ x.sighted[s] = d.sighted[s]
                                  /\ x.observations[s] = d.observations[s]
  BY <1>1, <1>2 DEF Database
<1>4. Fresh(x, W)
  <2>1. ASSUME NEW s \in Records
        PROVE  /\ x.head[s] = None => x.sighted[s] = 0
               /\ x.head[s] # None => <<s, x.head[s].digest, EffectiveTime(x, s)>> \in W
               /\ x.observations[s] # None =>
                    <<s, SightedContent(x.observations[s].fingerprint, x.observations[s].present),
                      LastSeen(x.observations[s])>> \in W
    <3>1. CASE s = r
      BY <1>3, <3>1
    <3>2. CASE s # r
      BY <1>1, <1>3, <3>2 DEF Fresh, EffectiveTime
    <3> QED BY <3>1, <3>2
  <2> QED BY <2>1 DEF Fresh
<1>5. RecordsIndexed(x)
  <2>1. CASE d.head[r] = None
    <3>1. x.head = d.head /\ x.dirty = d.dirty
      BY <1>1, <1>2, <2>1 DEF Database
    <3> QED BY <1>1, <1>2, <3>1, SameRecords DEF KeepsBindings
  <2>2. CASE d.head[r] # None
    BY <1>1, <1>2, <1>3, <2>2, IndexKept
  <2> QED BY <2>1, <2>2
<1>6. EvidenceIndexed(x)
  <2>1. d.dirtyIds \subseteq x.dirtyIds
    BY <1>2 DEF MarkIdsDirty
  <2>2. ASSUME NEW i \in DOMAIN d.evidence, d.evidence[i] # None, i \notin x.dirtyIds
        PROVE  IsRow(x.observations[d.evidence[i].urn], d.evidence[i])
                 <=> IsRow(d.observations[d.evidence[i].urn], d.evidence[i])
    <3> DEFINE q == d.evidence[i]
    <3>1. q.urn \in Records
      BY <1>1, <2>2 DEF Database, Evidence
    <3>2. CASE q.urn # r
      BY <1>3, <3>1, <3>2
    <3>3. CASE q.urn = r /\ d.observations[r] = None
      BY <1>3, <3>3
    <3>4. CASE q.urn = r /\ d.observations[r] # None
      <4>1. q.local # d.observations[r].id
        BY <1>2, <2>2, <3>4 DEF MarkIdsDirty
      <4> QED BY <1>3, <3>4, <4>1 DEF IsRow
    <3> QED BY <3>2, <3>3, <3>4
  <2> QED BY <1>1, <1>2, <2>1, <2>2, EvidenceKept DEF KeepsBindings
<1> QED BY <1>2, <1>4, <1>5, <1>6 DEF Sound, x

(* Resolution of a conflict. ************************************************)

\* d became x: the head of r, if there is one, moved to stored content.
Moved(d, x, r, v, at) ==
  /\ x \in Database
  /\ KeepsBindings(d, x) /\ x.eligible = d.eligible /\ x.eligibleIds = d.eligibleIds
  /\ x.dirtyIds = d.dirtyIds /\ x.sighted = d.sighted /\ x.observations = d.observations
  /\ x.revisions = d.revisions /\ x.conflicts = d.conflicts /\ x.lastId = d.lastId
  /\ IF d.head[r] = None THEN x.head = d.head /\ x.dirty = d.dirty
     ELSE /\ x.head[r] # None /\ x.head[r].digest = v /\ x.head[r].at = at
          /\ \A s \in Records \ {r} : x.head[s] = d.head[s]
          /\ x.dirty = IF d.head[r].digest = v THEN d.dirty ELSE MarkDirty(d, r)

LEMMA MoveHeadDoes ==
  ASSUME NEW d \in Database, NEW r \in Records, NEW v \in Contents, NEW at \in Nat,
         d.revisions[r][v] # None
  PROVE  Moved(d, MoveHead(d, r, v, at), r, v, at)
<1> DEFINE old == d.head[r]
           body == d.revisions[r][v].body
           row == [old EXCEPT !.digest = v, !.at = at, !.body = body]
           h == [d.head EXCEPT ![r] = row]
           k == IF old.digest = v THEN d.dirty ELSE MarkDirty(d, r)
           w == [d EXCEPT !.head = h, !.dirty = k]
<1>1. CASE old = None
  BY <1>1 DEF MoveHead, Moved, KeepsBindings
<1>2. CASE old # None
  <2>1. old \in HeadRow
    BY <1>2, HeadTypes
  <2>2. body \in Nat
    <3>1. d.revisions[r][v] \in Revision
      BY DEF Database
    <3> QED BY <3>1 DEF Revision
  <2>3. row \in HeadRow /\ row.digest = v /\ row.at = at
    <3> HIDE DEF body
    <3> QED BY <2>1, <2>2 DEF HeadRow
  <2>4. h \in [Records -> HeadRow \cup {None}] /\ h[r] = row
    <3> HIDE DEF row
    <3> QED BY <2>3 DEF Database
  <2>5. k \in SUBSET Records
    BY DEF Database, MarkDirty
  <2>6. w = [d EXCEPT !.head[r] = row, !.dirty = IF old.digest = v THEN @ ELSE MarkDirty(d, r)]
    OBVIOUS
  <2>7. MoveHead(d, r, v, at) = IF old.digest = v /\ old.body = body THEN w
                                ELSE JournalHead(w, r, old.digest)
    BY <1>2, <2>6 DEF MoveHead
  <2> DEFINE e == [op |-> "record", urn |-> r, digest |-> v, at |-> at, previous |-> old.digest]
  <2>8. e \in Event
    <3>1. old.digest \in Contents \cup {None}
      BY <2>1 DEF HeadRow
    <3> QED BY <3>1, EventTypes
  <2> HIDE DEF h, k
  <2>9. w \in Database
    BY <2>4, <2>5 DEF Database
  <2>10. /\ KeepsBindings(d, w) /\ w.eligible = d.eligible /\ w.eligibleIds = d.eligibleIds
         /\ w.dirtyIds = d.dirtyIds /\ w.sighted = d.sighted /\ w.observations = d.observations
         /\ w.revisions = d.revisions /\ w.conflicts = d.conflicts /\ w.lastId = d.lastId
         /\ w.head = h /\ w.dirty = k
    BY DEF Database, KeepsBindings
  <2>11. JournalHead(w, r, old.digest) = Journaled(w, e)
    <3>1. w.head[r].digest = v /\ w.head[r].at = at
      BY <2>3, <2>4, <2>10
    <3> HIDE DEF w
    <3> QED BY <3>1 DEF JournalHead
  <2> HIDE DEF w, e
  <2>12. Moved(d, w, r, v, at)
    <3>1. row # None
      <4> HIDE DEF row
      <4> QED BY <2>3, NoneAssumption
    <3>2. w.head[r] = row /\ \A s \in Records \ {r} : w.head[s] = d.head[s]
      <4> HIDE DEF row
      <4> QED BY <2>10 DEF h, Database
    <3> HIDE DEF row
    <3> QED BY <1>2, <2>3, <2>9, <2>10, <3>1, <3>2 DEF Moved, k
  <2> DEFINE x == Journaled(w, e)
  <2>13. /\ x \in Database
         /\ KeepsBindings(w, x) /\ SameIndex(w, x) /\ SameRows(w, x)
         /\ x.revisions = w.revisions /\ x.conflicts = w.conflicts /\ x.lastId = w.lastId
    BY <2>8, <2>9, JournaledDoes
  <2> HIDE DEF x
  <2>14. Moved(d, x, r, v, at)
    BY <2>12, <2>13 DEF Moved, KeepsBindings, SameIndex, SameRows
  <2> QED BY <2>7, <2>11, <2>12, <2>14 DEF x
<1> QED BY <1>1, <1>2

LEMMA MovedSound ==
  ASSUME NEW d, NEW W, Sound(d, W), NEW x, NEW r \in Records, NEW v \in Contents,
         NEW at \in Nat, Moved(d, x, r, v, at), Witnesses(W, r, v, at, d.sighted[r])
  PROVE  Sound(x, W)
<1>1. d \in Database /\ Fresh(d, W) /\ RecordsIndexed(d) /\ EvidenceIndexed(d)
  BY DEF Sound
<1>2. /\ x \in Database
      /\ KeepsBindings(d, x) /\ x.eligible = d.eligible /\ x.eligibleIds = d.eligibleIds
      /\ x.dirtyIds = d.dirtyIds /\ x.sighted = d.sighted /\ x.observations = d.observations
  BY DEF Moved
<1>3. EvidenceIndexed(x)
  BY <1>1, <1>2, SameEvidence DEF KeepsBindings
<1>4. CASE d.head[r] = None
  <2>1. x.head = d.head /\ x.dirty = d.dirty
    BY <1>4 DEF Moved
  <2> QED BY <1>2, <2>1, SameSound DEF SameIndex, SameRows
<1>5. CASE d.head[r] # None
  <2>1. x.head[r] # None /\ x.head[r].digest = v /\ x.head[r].at = at
        /\ \A s \in Records \ {r} : x.head[s] = d.head[s]
    BY <1>5 DEF Moved
  <2>2. x.dirty = IF d.head[r].digest = v THEN d.dirty ELSE MarkDirty(d, r)
    BY <1>5 DEF Moved
  <2>3. d.sighted[r] \in Nat
    BY <1>1, HeadTypes
  <2>4. <<r, v, Later(at, d.sighted[r])>> \in W
    BY <2>3, WitnessesLater
  <2>5. ASSUME NEW s \in Records
        PROVE  /\ x.head[s] = None => x.sighted[s] = 0
               /\ x.head[s] # None => <<s, x.head[s].digest, EffectiveTime(x, s)>> \in W
    <3>1. CASE s = r
      BY <1>2, <2>1, <2>4, <3>1 DEF EffectiveTime
    <3>2. CASE s # r
      BY <1>1, <1>2, <2>1, <3>2 DEF Fresh, EffectiveTime
    <3> QED BY <3>1, <3>2
  <2>6. Fresh(x, W)
    BY <1>1, <1>2, <2>5 DEF Fresh
  <2>7. RecordsIndexed(x)
    <3>1. CASE d.head[r].digest = v
      <4>1. \A s \in Records : HeadMatches(x, s) <=> HeadMatches(d, s)
        BY <1>2, <1>5, <2>1, <3>1 DEF HeadMatches, KeepsBindings
      <4> QED BY <1>1, <1>2, <2>2, <3>1, <4>1 DEF RecordsIndexed
    <3>2. CASE d.head[r].digest # v
      BY <1>1, <1>2, <2>1, <2>2, <3>2, IndexKept
    <3> QED BY <3>1, <3>2
  <2> QED BY <1>2, <1>3, <2>6, <2>7 DEF Sound
<1> QED BY <1>4, <1>5

LEMMA ResolveDoes ==
  ASSUME NEW d, NEW W, Sound(d, W), NEW k, NEW v \in Contents, NEW at \in Nat,
         CanResolve(d, k, v), Witnesses(W, k.urn, v, at, d.sighted[k.urn])
  PROVE  LET x == Resolve(d, k, v, at)
             r == k.urn
         IN /\ Sound(x, W) /\ KeepsBindings(d, x)
            /\ x.observations = d.observations /\ x.sighted = d.sighted
            /\ \A s \in Records \ {r} : x.head[s] = d.head[s]
            /\ d.head[r] = None => x.head[r] = None
            /\ d.head[r] # None => x.head[r] # None /\ x.head[r].digest = v /\ x.head[r].at = at
            /\ RevisionAdded(d, x, r, v, at)
            /\ x.conflicts = d.conflicts \ {k}
<1> DEFINE r == k.urn
           w == MoveHead(d, r, v, at)
           s == IF d.head[r] = None \/ d.head[r].digest = v THEN None ELSE d.head[r].digest
           q == [d.revisions[r][v] EXCEPT !.at = at, !.supersedes = s]
           y == WriteRevision(w, r, v, q)
           x == [y EXCEPT !.conflicts = y.conflicts \ {k}]
<1>1. d \in Database /\ r \in Records /\ d.revisions[r][v] # None
  BY DEF Sound, CanResolve, Database, Conflict
<1>2. d.revisions[r][v] \in Revision
  BY <1>1 DEF Database
<1>3. s \in Contents \cup {None}
  BY <1>1, HeadTypes
<1>4. q \in Revision /\ q.at = at
  <2> HIDE DEF s
  <2> QED BY <1>2, <1>3 DEF Revision
<1>5. Resolve(d, k, v, at) = x
  BY DEF Resolve, SetHead
<1>6. Moved(d, w, r, v, at)
  BY <1>1, MoveHeadDoes
<1> HIDE DEF w
<1>7. Sound(w, W)
  BY <1>1, <1>6, MovedSound
<1> HIDE DEF q
<1>8. w \in Database /\ w.revisions = d.revisions /\ w.conflicts = d.conflicts
      /\ KeepsBindings(d, w) /\ w.observations = d.observations /\ w.sighted = d.sighted
  BY <1>6 DEF Moved
<1>9. /\ y \in Database
      /\ KeepsBindings(w, y) /\ SameIndex(w, y) /\ SameRows(w, y)
      /\ \/ y.journal = w.journal
         \/ y.journal = Append(w.journal, [op |-> "revision", urn |-> r, digest |-> v,
              at |-> q.at, supersedes |-> q.supersedes, body |-> q.body])
      /\ y.revisions = [w.revisions EXCEPT ![r][v] = q]
      /\ y.conflicts = w.conflicts
  BY <1>1, <1>4, <1>8, WriteRevisionDoes
<1> HIDE DEF y
<1>10. x \in Database
  BY <1>9 DEF Database
<1>11. /\ KeepsBindings(y, x) /\ SameIndex(y, x) /\ SameRows(y, x)
       /\ x.revisions = y.revisions /\ x.conflicts = y.conflicts \ {k}
  BY <1>9 DEF Database, KeepsBindings, SameIndex, SameRows
<1> HIDE DEF x
<1>12. KeepsBindings(w, x) /\ SameIndex(w, x) /\ SameRows(w, x)
  BY <1>9, <1>11 DEF KeepsBindings, SameIndex, SameRows
<1>13. Sound(x, W)
  BY <1>7, <1>10, <1>12, SameSound
<1>14. KeepsBindings(d, x) /\ x.observations = d.observations /\ x.sighted = d.sighted
       /\ x.head = w.head
  BY <1>8, <1>12 DEF KeepsBindings, SameRows
<1>15. RevisionAdded(d, x, r, v, at)
  <2>1. q # None
    BY <1>4, NoneAssumption
  <2>2. x.revisions = [d.revisions EXCEPT ![r][v] = q]
    BY <1>8, <1>9, <1>11
  <2> QED BY <1>1, <1>4, <2>1, <2>2 DEF RevisionAdded, Database
<1>16. /\ \A t \in Records \ {r} : w.head[t] = d.head[t]
       /\ d.head[r] = None => w.head[r] = None
       /\ d.head[r] # None => w.head[r] # None /\ w.head[r].digest = v /\ w.head[r].at = at
  <2>1. CASE d.head[r] = None
    BY <1>6, <2>1 DEF Moved
  <2>2. CASE d.head[r] # None
    BY <1>6, <2>2 DEF Moved
  <2> QED BY <2>1, <2>2
<1> QED BY <1>5, <1>8, <1>9, <1>11, <1>13, <1>14, <1>15, <1>16

(* Bindings. ****************************************************************)

\* In the journal J: the event at k is a change of the record r, a sighting with id i.
RecordAt(J, k, r) == J[k].op = "record" /\ J[k].urn = r
SightAt(J, k, i) == J[k].op = "observation" /\ J[k].id = i

\* ... and the last one among the first n gave the record this content, said this.
LastRecord(J, n, r, v) ==
  \E k \in 1 .. n : /\ RecordAt(J, k, r) /\ J[k].digest = v
                    /\ \A l \in k + 1 .. n : ~RecordAt(J, l, r)
LastSight(J, n, i, r, v, p) ==
  \E k \in 1 .. n : /\ SightAt(J, k, i)
                    /\ J[k].urn = r /\ J[k].fingerprint = v /\ J[k].present = p
                    /\ \A l \in k + 1 .. n : ~SightAt(J, l, i)

\* What a cache has bound after n events is what they last said.
Bindings(d, J, n) ==
  /\ \A r \in Records : IF d.bound[r] = None THEN \A k \in 1 .. n : ~RecordAt(J, k, r)
                        ELSE LastRecord(J, n, r, d.bound[r])
  /\ \A i \in Nat :
       IF i \in DOMAIN d.evidence /\ d.evidence[i] # None
       THEN LastSight(J, n, i, d.evidence[i].urn, d.evidence[i].fingerprint, d.evidence[i].present)
       ELSE \A k \in 1 .. n : ~SightAt(J, k, i)

\* The event at k of the journal J tells what is in W: a refresh tells it of what the
\* events before it said last.
FaithfulAt(J, k, W) ==
  LET e == J[k] IN
  /\ e.op = "record" => <<e.urn, e.digest, e.at>> \in W
  /\ e.op = "observation" =>
       /\ e.id # 0 /\ <<e.urn, SightedContent(e.fingerprint, e.present), e.at>> \in W
       /\ \A l \in 1 .. k - 1 : SightAt(J, l, e.id) => J[l].urn = e.urn
  /\ e.op = "record_refresh" =>
       \E v \in Contents : LastRecord(J, k - 1, e.urn, v) /\ <<e.urn, v, e.at>> \in W
  /\ e.op = "observation_refresh" =>
       \E r \in Records, v \in Contents, p \in Presence :
         LastSight(J, k - 1, e.id, r, v, p) /\ <<r, SightedContent(v, p), e.at>> \in W

LEMMA EventFields ==
  ASSUME NEW e \in Event
  PROVE  /\ e.op \in {"record", "revision", "record_refresh", "observation", "observation_refresh"}
         /\ e.at \in Nat
         /\ e.op = "record" => e.urn \in Records /\ e.digest \in Contents
                               /\ e.previous \in Contents \cup {None}
         /\ e.op = "revision" => e.urn \in Records /\ e.digest \in Contents
                                 /\ e.supersedes \in Contents \cup {None} /\ e.body \in Nat
         /\ e.op = "record_refresh" => e.urn \in Records
         /\ e.op = "observation" => e.urn \in Records /\ e.id \in Nat /\ e.fingerprint \in Contents
                                    /\ e.present \in Presence
         /\ e.op = "observation_refresh" => e.id \in Nat
BY DEF Event

LEMMA LastRecordIsOne ==
  ASSUME NEW J, NEW n \in Nat, NEW r, NEW v, NEW w, LastRecord(J, n, r, v), LastRecord(J, n, r, w)
  PROVE  v = w
<1>1. PICK k \in 1 .. n : /\ RecordAt(J, k, r) /\ J[k].digest = v
                          /\ \A l \in k + 1 .. n : ~RecordAt(J, l, r)
  BY DEF LastRecord
<1>2. PICK m \in 1 .. n : /\ RecordAt(J, m, r) /\ J[m].digest = w
                          /\ \A l \in m + 1 .. n : ~RecordAt(J, l, r)
  BY DEF LastRecord
<1>3. k = m
  BY <1>1, <1>2
<1> QED BY <1>1, <1>2, <1>3

LEMMA LastSightIsOne ==
  ASSUME NEW J, NEW n \in Nat, NEW i, NEW r, NEW v, NEW p, NEW s, NEW w, NEW q,
         LastSight(J, n, i, r, v, p), LastSight(J, n, i, s, w, q)
  PROVE  r = s /\ v = w /\ p = q
<1>1. PICK k \in 1 .. n : /\ SightAt(J, k, i)
                          /\ J[k].urn = r /\ J[k].fingerprint = v /\ J[k].present = p
                          /\ \A l \in k + 1 .. n : ~SightAt(J, l, i)
  BY DEF LastSight
<1>2. PICK m \in 1 .. n : /\ SightAt(J, m, i)
                          /\ J[m].urn = s /\ J[m].fingerprint = w /\ J[m].present = q
                          /\ \A l \in m + 1 .. n : ~SightAt(J, l, i)
  BY DEF LastSight
<1>3. k = m
  BY <1>1, <1>2
<1> QED BY <1>1, <1>2, <1>3

LEMMA LastRecordNext ==
  ASSUME NEW J, NEW n \in Nat, NEW r
  PROVE  /\ RecordAt(J, n + 1, r) => LastRecord(J, n + 1, r, J[n + 1].digest)
         /\ ~RecordAt(J, n + 1, r) =>
              \A v : LastRecord(J, n, r, v) => LastRecord(J, n + 1, r, v)
<1>1. ASSUME RecordAt(J, n + 1, r)  PROVE LastRecord(J, n + 1, r, J[n + 1].digest)
  <2>1. n + 1 \in 1 .. n + 1 /\ \A l \in (n + 1) + 1 .. n + 1 : FALSE
    OBVIOUS
  <2> QED BY <1>1, <2>1 DEF LastRecord
<1>2. ASSUME ~RecordAt(J, n + 1, r), NEW v, LastRecord(J, n, r, v)
      PROVE  LastRecord(J, n + 1, r, v)
  <2>1. PICK k \in 1 .. n : /\ RecordAt(J, k, r) /\ J[k].digest = v
                            /\ \A l \in k + 1 .. n : ~RecordAt(J, l, r)
    BY <1>2 DEF LastRecord
  <2>2. k \in 1 .. n + 1 /\ \A l \in k + 1 .. n + 1 : l \in k + 1 .. n \/ l = n + 1
    OBVIOUS
  <2> QED BY <1>2, <2>1, <2>2 DEF LastRecord
<1> QED BY <1>1, <1>2

LEMMA LastSightNext ==
  ASSUME NEW J, NEW n \in Nat, NEW i
  PROVE  /\ SightAt(J, n + 1, i) =>
              LastSight(J, n + 1, i, J[n + 1].urn, J[n + 1].fingerprint, J[n + 1].present)
         /\ ~SightAt(J, n + 1, i) =>
              \A r, v, p : LastSight(J, n, i, r, v, p) => LastSight(J, n + 1, i, r, v, p)
<1>1. ASSUME SightAt(J, n + 1, i)
      PROVE  LastSight(J, n + 1, i, J[n + 1].urn, J[n + 1].fingerprint, J[n + 1].present)
  <2>1. n + 1 \in 1 .. n + 1 /\ \A l \in (n + 1) + 1 .. n + 1 : FALSE
    OBVIOUS
  <2> QED BY <1>1, <2>1 DEF LastSight
<1>2. ASSUME ~SightAt(J, n + 1, i), NEW r, NEW v, NEW p, LastSight(J, n, i, r, v, p)
      PROVE  LastSight(J, n + 1, i, r, v, p)
  <2>1. PICK k \in 1 .. n : /\ SightAt(J, k, i)
                            /\ J[k].urn = r /\ J[k].fingerprint = v /\ J[k].present = p
                            /\ \A l \in k + 1 .. n : ~SightAt(J, l, i)
    BY <1>2 DEF LastSight
  <2>2. k \in 1 .. n + 1 /\ \A l \in k + 1 .. n + 1 : l \in k + 1 .. n \/ l = n + 1
    OBVIOUS
  <2> QED BY <1>2, <2>1, <2>2 DEF LastSight
<1> QED BY <1>1, <1>2

\* An event that binds nothing.
LEMMA BindingsStay ==
  ASSUME NEW d, NEW x, NEW J, NEW n \in Nat, Bindings(d, J, n), KeepsBindings(d, x),
         J[n + 1].op \notin {"record", "observation"}
  PROVE  Bindings(x, J, n + 1)
<1>1. /\ \A r : ~RecordAt(J, n + 1, r)
      /\ \A i : ~SightAt(J, n + 1, i)
  BY DEF RecordAt, SightAt
<1>2. \A k \in 1 .. n + 1 : k \in 1 .. n \/ k = n + 1
  OBVIOUS
<1>3. ASSUME NEW r \in Records
      PROVE  IF x.bound[r] = None THEN \A k \in 1 .. n + 1 : ~RecordAt(J, k, r)
             ELSE LastRecord(J, n + 1, r, x.bound[r])
  BY <1>1, <1>2, LastRecordNext DEF Bindings, KeepsBindings
<1>4. ASSUME NEW i \in Nat
      PROVE  IF i \in DOMAIN x.evidence /\ x.evidence[i] # None
             THEN LastSight(J, n + 1, i, x.evidence[i].urn, x.evidence[i].fingerprint,
                            x.evidence[i].present)
             ELSE \A k \in 1 .. n + 1 : ~SightAt(J, k, i)
  BY <1>1, <1>2, LastSightNext DEF Bindings, KeepsBindings
<1> QED BY <1>3, <1>4 DEF Bindings

LEMMA BindEntityDoes ==
  ASSUME NEW d, NEW W, Sound(d, W), NEW r \in Records, NEW v \in Contents
  PROVE  LET x == BindEntity(d, r, v)
         IN /\ Sound(x, W) /\ SameHeads(d, x)
            /\ x.bound = [d.bound EXCEPT ![r] = v] /\ x.evidence = d.evidence
<1> DEFINE b == [d.bound EXCEPT ![r] = v]
           k == d.dirty \cup {r}
           x == [d EXCEPT !.bound = b, !.dirty = k]
<1>1. d \in Database /\ Fresh(d, W) /\ RecordsIndexed(d) /\ EvidenceIndexed(d)
  BY DEF Sound
<1>2. BindEntity(d, r, v) = x
  BY DEF BindEntity
<1>3. b \in [Records -> Contents \cup {None}] /\ k \in SUBSET Records
      /\ \A s \in Records \ {r} : b[s] = d.bound[s]
  BY <1>1 DEF Database
<1> HIDE DEF b, k
<1>4. x \in Database
  BY <1>1, <1>3 DEF Database
<1>5. /\ x.bound = b /\ x.dirty = k /\ SameHeads(d, x) /\ x.observations = d.observations
      /\ x.evidence = d.evidence /\ x.eligible = d.eligible
      /\ x.eligibleIds = d.eligibleIds /\ x.dirtyIds = d.dirtyIds
  BY <1>1 DEF Database, SameHeads
<1> HIDE DEF x
<1>6. Fresh(x, W)
  <2>1. \A s : EffectiveTime(x, s) = EffectiveTime(d, s)
    BY <1>5 DEF EffectiveTime, SameHeads
  <2> QED BY <1>1, <1>5, <2>1 DEF Fresh, SameHeads
<1>7. RecordsIndexed(x)
  <2>1. ASSUME NEW s \in Records \ x.dirty  PROVE (s \in x.eligible) <=> HeadMatches(x, s)
    <3>1. s # r /\ s \notin d.dirty
      BY <1>5, <2>1 DEF k
    <3>2. HeadMatches(x, s) <=> HeadMatches(d, s)
      BY <1>3, <1>5, <3>1 DEF HeadMatches, SameHeads
    <3> QED BY <1>1, <1>5, <3>1, <3>2 DEF RecordsIndexed
  <2> QED BY <2>1 DEF RecordsIndexed
<1>8. EvidenceIndexed(x)
  BY <1>1, <1>5, SameEvidence
<1> QED BY <1>2, <1>4, <1>5, <1>6, <1>7, <1>8 DEF Sound, b

LEMMA BindEvidenceDoes ==
  ASSUME NEW d, NEW W, Sound(d, W), NEW e \in Event, e.op = "observation", e.id # 0,
         d.observations[e.urn] # None
  PROVE  LET x == BindEvidence(d, e)
         IN /\ Sound(x, W) /\ SameHeads(d, x) /\ x.bound = d.bound
            /\ e.id \in DOMAIN x.evidence
            /\ x.evidence[e.id] # None
            /\ x.evidence[e.id].urn = e.urn /\ x.evidence[e.id].fingerprint = e.fingerprint
            /\ x.evidence[e.id].present = e.present
            /\ \A i \in Nat \ {e.id} :
                 IF i \in DOMAIN d.evidence
                 THEN i \in DOMAIN x.evidence /\ x.evidence[i] = d.evidence[i]
                 ELSE i \in DOMAIN x.evidence => x.evidence[i] = None
<1> DEFINE q == [local |-> d.observations[e.urn].id, urn |-> e.urn,
                 fingerprint |-> e.fingerprint, present |-> e.present]
           n == Later(Len(d.evidence), e.id)
           v == [i \in 1 .. n |-> IF i = e.id THEN q
                                  ELSE IF i \in DOMAIN d.evidence THEN d.evidence[i] ELSE None]
           k == d.dirtyIds \cup {e.id}
           x == [d EXCEPT !.evidence = v, !.dirtyIds = k]
<1>1. d \in Database /\ Fresh(d, W) /\ RecordsIndexed(d) /\ EvidenceIndexed(d)
  BY DEF Sound
<1>2. e.urn \in Records /\ e.id \in Nat /\ e.fingerprint \in Contents /\ e.present \in Presence
  BY EventFields
<1>3. BindEvidence(d, e) = x
  BY DEF BindEvidence
<1>4. q \in Evidence /\ q.urn = e.urn /\ q.fingerprint = e.fingerprint /\ q.present = e.present
  <2>1. d.observations[e.urn].id \in Nat
    <3>1. d.observations[e.urn] \in Observation
      BY <1>1, <1>2, HeadTypes
    <3> QED BY <3>1 DEF Observation
  <2> QED BY <1>2, <2>1 DEF Evidence
<1> HIDE DEF q
<1>5. q # None
  BY <1>4, NoneAssumption
<1>6. d.evidence \in Seq(Evidence \cup {None})
  BY <1>1 DEF Database
<1>7. DOMAIN d.evidence = 1 .. Len(d.evidence) /\ Len(d.evidence) \in Nat
      /\ \A i \in 1 .. Len(d.evidence) : d.evidence[i] \in Evidence \cup {None}
  BY <1>6
<1>8. n \in Nat /\ Len(d.evidence) <= n /\ e.id \in 1 .. n
  BY <1>2, <1>7 DEF Later
<1> HIDE DEF n
<1>9. v \in Seq(Evidence \cup {None})
  <2>1. \A i \in 1 .. n : v[i] \in Evidence \cup {None}
    BY <1>4, <1>7
  <2>2. v = [i \in 1 .. n |-> v[i]]
    OBVIOUS
  <2> HIDE DEF v
  <2> QED BY <1>8, <2>1, <2>2
<1>10. DOMAIN v = 1 .. n /\ v[e.id] = q
       /\ \A i \in Nat \ {e.id} :
            IF i \in DOMAIN d.evidence THEN i \in DOMAIN v /\ v[i] = d.evidence[i]
            ELSE i \in DOMAIN v => v[i] = None
  BY <1>7, <1>8
<1>11. k \in SUBSET Nat
  BY <1>1, <1>2 DEF Database
<1> HIDE DEF v, k
<1>12. x \in Database
  BY <1>1, <1>9, <1>11 DEF Database
<1>13. /\ x.evidence = v /\ x.dirtyIds = k /\ SameHeads(d, x) /\ x.observations = d.observations
       /\ x.bound = d.bound /\ x.eligible = d.eligible
       /\ x.eligibleIds = d.eligibleIds /\ x.dirty = d.dirty
  BY <1>1 DEF Database, SameHeads
<1> HIDE DEF x
<1>14. Fresh(x, W)
  <2>1. \A s : EffectiveTime(x, s) = EffectiveTime(d, s)
    BY <1>13 DEF EffectiveTime, SameHeads
  <2> QED BY <1>1, <1>13, <2>1 DEF Fresh, SameHeads
<1>15. RecordsIndexed(x)
  BY <1>1, <1>13, SameRecords DEF SameHeads
<1>16. EvidenceIndexed(x)
  <2>1. d.eligibleIds \subseteq DOMAIN d.evidence
    BY <1>1 DEF EvidenceIndexed
  <2>2. x.eligibleIds \subseteq DOMAIN x.evidence
    BY <1>7, <1>8, <1>10, <1>13, <2>1
  <2>3. ASSUME NEW i \in DOMAIN x.evidence \ x.dirtyIds
        PROVE  (i \in x.eligibleIds) <=> EvidenceMatches(x, i)
    <3>1. i \in Nat \ {e.id} /\ i \notin d.dirtyIds
      BY <1>8, <1>10, <1>13, <2>3 DEF k
    <3>2. CASE i \in DOMAIN d.evidence
      <4>1. x.evidence[i] = d.evidence[i]
        BY <1>10, <1>13, <3>1, <3>2
      <4>2. EvidenceMatches(x, i) <=> EvidenceMatches(d, i)
        BY <1>13, <2>3, <3>2, <4>1 DEF EvidenceMatches
      <4> QED BY <1>1, <1>13, <3>1, <3>2, <4>2 DEF EvidenceIndexed
    <3>3. CASE i \notin DOMAIN d.evidence
      <4>1. x.evidence[i] = None
        BY <1>10, <1>13, <2>3, <3>1, <3>3
      <4> QED BY <1>13, <2>1, <3>3, <4>1 DEF EvidenceMatches
    <3> QED BY <3>2, <3>3
  <2> QED BY <2>2, <2>3 DEF EvidenceIndexed
<1> QED BY <1>3, <1>4, <1>5, <1>8, <1>10, <1>12, <1>13, <1>14, <1>15, <1>16 DEF Sound

LEMMA RevalidateDoes ==
  ASSUME NEW d, NEW W, Sound(d, W)
  PROVE  LET x == Revalidate(d)
         IN /\ Sound(x, W) /\ SameHeads(d, x) /\ KeepsBindings(d, x)
            /\ x.observations = d.observations
            /\ \A r \in Records : (r \in x.eligible) <=> HeadMatches(x, r)
            /\ \A i : (i \in x.eligibleIds) <=> EvidenceMatches(x, i)
<1> DEFINE l == {r \in Records : IF r \in d.dirty THEN HeadMatches(d, r) ELSE r \in d.eligible}
           m == {i \in DOMAIN d.evidence : IF i \in d.dirtyIds THEN EvidenceMatches(d, i)
                                           ELSE i \in d.eligibleIds}
           x == [d EXCEPT !.eligible = l, !.eligibleIds = m, !.dirty = {}, !.dirtyIds = {}]
<1>1. d \in Database /\ Fresh(d, W) /\ RecordsIndexed(d) /\ EvidenceIndexed(d)
  BY DEF Sound
<1>2. Revalidate(d) = x
  BY DEF Revalidate
<1>3. l \in SUBSET Records /\ m \in SUBSET Nat
  BY <1>1 DEF Database
<1>4. \A r \in Records : (r \in l) <=> HeadMatches(d, r)
  BY <1>1 DEF RecordsIndexed
<1>5. \A i : (i \in m) <=> EvidenceMatches(d, i)
  <2>1. \A i : EvidenceMatches(d, i) => i \in DOMAIN d.evidence
    BY DEF EvidenceMatches
  <2> QED BY <1>1, <2>1 DEF EvidenceIndexed
<1>6. m \subseteq DOMAIN d.evidence
  OBVIOUS
<1> HIDE DEF l, m
<1>7. x \in Database
  BY <1>1, <1>3 DEF Database
<1>8. /\ x.eligible = l /\ x.eligibleIds = m /\ x.dirty = {} /\ x.dirtyIds = {}
      /\ SameHeads(d, x) /\ KeepsBindings(d, x) /\ x.observations = d.observations
  BY <1>1 DEF Database, SameHeads, KeepsBindings
<1> HIDE DEF x
<1>9. \A r \in Records : HeadMatches(x, r) <=> HeadMatches(d, r)
  BY <1>8 DEF HeadMatches, SameHeads, KeepsBindings
<1>10. \A i : EvidenceMatches(x, i) <=> EvidenceMatches(d, i)
  BY <1>8 DEF EvidenceMatches, KeepsBindings
<1>11. Fresh(x, W)
  <2>1. \A s : EffectiveTime(x, s) = EffectiveTime(d, s)
    BY <1>8 DEF EffectiveTime, SameHeads
  <2> QED BY <1>1, <1>8, <2>1 DEF Fresh, SameHeads
<1>12. RecordsIndexed(x) /\ EvidenceIndexed(x)
  BY <1>4, <1>5, <1>6, <1>8, <1>9, <1>10 DEF RecordsIndexed, EvidenceIndexed, KeepsBindings
<1> QED BY <1>2, <1>4, <1>5, <1>7, <1>8, <1>9, <1>10, <1>11, <1>12 DEF Sound

(* One event. ***************************************************************)

Prior(e) == IF e.previous = None THEN {} ELSE {e.previous}
Imported(d, e) == Upsert(d, e.urn, e.digest, e.at, "import", Prior(e))

\* What applying e does to the heads.
Effect(d, x, e) ==
  /\ e.op = "record" => SameHeads(Imported(d, e), x)
  /\ e.op = "revision" => Revised(d, x, e.urn, e.digest, e.at, e.supersedes, e.body)
  /\ e.op = "record_refresh" =>
       /\ x.head = d.head /\ x.revisions = d.revisions /\ x.conflicts = d.conflicts
       /\ x.sighted = d.sighted \/ x.sighted = [d.sighted EXCEPT ![e.urn] = Later(@, e.at)]
  /\ e.op \in {"observation", "observation_refresh"} => SameHeads(d, x)

\* e is the next event of J for a cache that has replayed n of them.
Steps(d, J, n, W) ==
  LET x == ApplyEvent(d, J[n + 1])
  IN /\ Applicable(d, J[n + 1])
     /\ Sound(x, W) /\ Bindings(x, J, n + 1) /\ Effect(d, x, J[n + 1])

\* A head event binds the record to its content, whether or not it replaces the head
\* (apply_events, "record").
LEMMA RecordSteps ==
  ASSUME NEW d, NEW W, Sound(d, W), NEW J \in Seq(Event), NEW n \in Nat, n + 1 \in 1 .. Len(J),
         Bindings(d, J, n), FaithfulAt(J, n + 1, W), J[n + 1].op = "record"
  PROVE  Steps(d, J, n, W)
<1> DEFINE e == J[n + 1]
           y == Imported(d, e)
           x == BindEntity(y, e.urn, e.digest)
<1>1. e \in Event
  OBVIOUS
<1>2. e.op = "record" /\ e.urn \in Records /\ e.digest \in Contents /\ e.at \in Nat
  BY <1>1, EventFields
<1>3. <<e.urn, e.digest, e.at>> \in W
  BY DEF FaithfulAt
<1>4. ApplyEvent(d, e) = x
  BY <1>2 DEF ApplyEvent, ApplyRecord, Imported, Prior
<1>5. Applicable(d, e)
  BY <1>2 DEF Applicable
<1> HIDE DEF e
<1>6. Sound(y, W)
  BY <1>2, <1>3, UpsertSound DEF Imported
<1>7. KeepsBindings(d, y)
  BY <1>2, UpsertDoes DEF Imported, Sound
<1> HIDE DEF y
<1>8. Sound(x, W) /\ SameHeads(y, x) /\ x.bound = [y.bound EXCEPT ![e.urn] = e.digest]
      /\ x.evidence = y.evidence
  BY <1>2, <1>6, BindEntityDoes
<1>9. e.digest # None
  BY <1>2, StoreAssumption
<1> HIDE DEF x
<1>10. DOMAIN d.bound = Records
  BY DEF Sound, Database
<1>11. x.evidence = d.evidence /\ x.bound[e.urn] = e.digest
       /\ \A r \in Records \ {e.urn} : x.bound[r] = d.bound[r]
  BY <1>2, <1>7, <1>8, <1>10 DEF KeepsBindings
<1>12. Bindings(x, J, n + 1)
  <2>1. ASSUME NEW r \in Records
        PROVE IF x.bound[r] = None THEN \A k \in 1 .. n + 1 : ~RecordAt(J, k, r)
              ELSE LastRecord(J, n + 1, r, x.bound[r])
    <3>1. CASE r = e.urn
      <4>1. RecordAt(J, n + 1, r)
        BY <1>2, <3>1 DEF RecordAt, e
      <4>2. LastRecord(J, n + 1, r, e.digest)
        BY <4>1, LastRecordNext DEF e
      <4> QED BY <1>9, <1>11, <3>1, <4>2
    <3>2. CASE r # e.urn
      <4>1. ~RecordAt(J, n + 1, r)
        BY <3>2 DEF RecordAt, e
      <4>2. IF d.bound[r] = None THEN \A k \in 1 .. n : ~RecordAt(J, k, r)
            ELSE LastRecord(J, n, r, d.bound[r])
        BY DEF Bindings
      <4>3. x.bound[r] = d.bound[r]
        BY <1>11, <3>2
      <4>4. \A k \in 1 .. n + 1 : k \in 1 .. n \/ k = n + 1
        OBVIOUS
      <4> QED BY <4>1, <4>2, <4>3, <4>4, LastRecordNext
    <3> QED BY <3>1, <3>2
  <2>2. ASSUME NEW i \in Nat
        PROVE IF i \in DOMAIN x.evidence /\ x.evidence[i] # None
              THEN LastSight(J, n + 1, i, x.evidence[i].urn, x.evidence[i].fingerprint,
                             x.evidence[i].present)
              ELSE \A k \in 1 .. n + 1 : ~SightAt(J, k, i)
    <3>1. ~SightAt(J, n + 1, i)
      BY <1>2 DEF SightAt, e
    <3>2. IF i \in DOMAIN d.evidence /\ d.evidence[i] # None
          THEN LastSight(J, n, i, d.evidence[i].urn, d.evidence[i].fingerprint,
                         d.evidence[i].present)
          ELSE \A k \in 1 .. n : ~SightAt(J, k, i)
      BY DEF Bindings
    <3>3. \A k \in 1 .. n + 1 : k \in 1 .. n \/ k = n + 1
      OBVIOUS
    <3> QED BY <1>11, <3>1, <3>2, <3>3, LastSightNext
  <2> QED BY <2>1, <2>2 DEF Bindings
<1>13. Effect(d, x, e)
  BY <1>2, <1>8 DEF Effect, y
<1> QED BY <1>4, <1>5, <1>8, <1>12, <1>13 DEF Steps, e

\* A revision event touches no head and no binding (apply_events, "revision").
LEMMA RevisionSteps ==
  ASSUME NEW d, NEW W, Sound(d, W), NEW J \in Seq(Event), NEW n \in Nat, n + 1 \in 1 .. Len(J),
         Bindings(d, J, n), J[n + 1].op = "revision"
  PROVE  Steps(d, J, n, W)
<1> DEFINE e == J[n + 1]
           x == ApplyRevision(d, e)
<1>1. e \in Event
  OBVIOUS
<1>2. e.op = "revision" /\ e.urn \in Records /\ e.digest \in Contents /\ e.at \in Nat
      /\ e.supersedes \in Contents \cup {None} /\ e.body \in Nat
  BY <1>1, EventFields
<1>3. ApplyEvent(d, e) = x
  BY <1>2 DEF ApplyEvent
<1>4. Applicable(d, e)
  BY <1>2 DEF Applicable
<1> HIDE DEF e
<1>5. Revised(d, x, e.urn, e.digest, e.at, e.supersedes, e.body)
  BY <1>2, AddRevisionDoes DEF ApplyRevision, Sound
<1> HIDE DEF x
<1>6. x \in Database /\ KeepsBindings(d, x) /\ SameIndex(d, x) /\ SameRows(d, x)
  BY <1>5 DEF Revised
<1>7. Sound(x, W)
  BY <1>6, SameSound
<1>8. Bindings(x, J, n + 1)
  BY <1>2, <1>6, BindingsStay DEF e
<1>9. Effect(d, x, e)
  BY <1>2, <1>5 DEF Effect
<1> QED BY <1>3, <1>4, <1>7, <1>8, <1>9 DEF Steps, e

\* An observation event binds the producer's id to the local row, merged or not
\* (apply_events, "observation").
LEMMA ObservationSteps ==
  ASSUME NEW d, NEW W, Sound(d, W), NEW J \in Seq(Event), NEW n \in Nat, n + 1 \in 1 .. Len(J),
         Bindings(d, J, n), FaithfulAt(J, n + 1, W), J[n + 1].op = "observation"
  PROVE  Steps(d, J, n, W)
<1> DEFINE e == J[n + 1]
           y == MergeObservation(d, e.urn, e.fingerprint, e.present, e.at)
           x == BindEvidence(y, e)
<1>1. e \in Event
  OBVIOUS
<1>2. e.op = "observation" /\ e.urn \in Records /\ e.id \in Nat /\ e.fingerprint \in Contents
      /\ e.present \in Presence /\ e.at \in Nat
  BY <1>1, EventFields
<1>3. e.id # 0 /\ <<e.urn, SightedContent(e.fingerprint, e.present), e.at>> \in W
      /\ \A l \in 1 .. n : SightAt(J, l, e.id) => J[l].urn = e.urn
  BY DEF FaithfulAt
<1>4. ApplyEvent(d, e) = x
  BY <1>2 DEF ApplyEvent, ApplyObservation
<1>5. Applicable(d, e)
  <2>1. ASSUME e.id \in DOMAIN d.evidence, d.evidence[e.id] # None
        PROVE d.evidence[e.id].urn = e.urn
    <3>1. LastSight(J, n, e.id, d.evidence[e.id].urn, d.evidence[e.id].fingerprint,
                    d.evidence[e.id].present)
      BY <1>2, <2>1 DEF Bindings
    <3> QED BY <1>3, <3>1 DEF LastSight
  <2> QED BY <1>2, <2>1 DEF Applicable
<1> HIDE DEF e
<1>6. Sound(y, W) /\ KeepsBindings(d, y) /\ SameHeads(d, y) /\ y.observations[e.urn] # None
  BY <1>2, <1>3, MergeObservationDoes
<1> HIDE DEF y
<1>7. /\ Sound(x, W) /\ SameHeads(y, x) /\ x.bound = y.bound
      /\ e.id \in DOMAIN x.evidence
      /\ x.evidence[e.id] # None
      /\ x.evidence[e.id].urn = e.urn /\ x.evidence[e.id].fingerprint = e.fingerprint
      /\ x.evidence[e.id].present = e.present
      /\ \A i \in Nat \ {e.id} :
           IF i \in DOMAIN y.evidence
           THEN i \in DOMAIN x.evidence /\ x.evidence[i] = y.evidence[i]
           ELSE i \in DOMAIN x.evidence => x.evidence[i] = None
  BY <1>1, <1>2, <1>3, <1>6, BindEvidenceDoes
<1> HIDE DEF x
<1>8. Bindings(x, J, n + 1)
  <2>1. ASSUME NEW r \in Records
        PROVE IF x.bound[r] = None THEN \A k \in 1 .. n + 1 : ~RecordAt(J, k, r)
              ELSE LastRecord(J, n + 1, r, x.bound[r])
    <3>1. ~RecordAt(J, n + 1, r)
      BY <1>2 DEF RecordAt, e
    <3>2. IF d.bound[r] = None THEN \A k \in 1 .. n : ~RecordAt(J, k, r)
          ELSE LastRecord(J, n, r, d.bound[r])
      BY DEF Bindings
    <3>3. x.bound[r] = d.bound[r]
      BY <1>6, <1>7 DEF KeepsBindings
    <3>4. \A k \in 1 .. n + 1 : k \in 1 .. n \/ k = n + 1
      OBVIOUS
    <3> QED BY <3>1, <3>2, <3>3, <3>4, LastRecordNext
  <2>2. ASSUME NEW i \in Nat
        PROVE IF i \in DOMAIN x.evidence /\ x.evidence[i] # None
              THEN LastSight(J, n + 1, i, x.evidence[i].urn, x.evidence[i].fingerprint,
                             x.evidence[i].present)
              ELSE \A k \in 1 .. n + 1 : ~SightAt(J, k, i)
    <3>1. CASE i = e.id
      <4>1. SightAt(J, n + 1, i)
        BY <1>2, <3>1 DEF SightAt, e
      <4>2. LastSight(J, n + 1, i, e.urn, e.fingerprint, e.present)
        BY <4>1, LastSightNext DEF e
      <4> QED BY <1>7, <3>1, <4>2
    <3>2. CASE i # e.id
      <4>1. ~SightAt(J, n + 1, i)
        BY <3>2 DEF SightAt, e
      <4>2. IF i \in DOMAIN d.evidence /\ d.evidence[i] # None
            THEN LastSight(J, n, i, d.evidence[i].urn, d.evidence[i].fingerprint,
                           d.evidence[i].present)
            ELSE \A k \in 1 .. n : ~SightAt(J, k, i)
        BY DEF Bindings
      <4>3. IF i \in DOMAIN d.evidence
            THEN i \in DOMAIN x.evidence /\ x.evidence[i] = d.evidence[i]
            ELSE i \in DOMAIN x.evidence => x.evidence[i] = None
        BY <1>6, <1>7, <3>2 DEF KeepsBindings
      <4>4. \A k \in 1 .. n + 1 : k \in 1 .. n \/ k = n + 1
        OBVIOUS
      <4> QED BY <4>1, <4>2, <4>3, <4>4, LastSightNext
    <3> QED BY <3>1, <3>2
  <2> QED BY <2>1, <2>2 DEF Bindings
<1>9. Effect(d, x, e)
  BY <1>2, <1>6, <1>7 DEF Effect, SameHeads
<1> QED BY <1>4, <1>5, <1>7, <1>8, <1>9 DEF Steps, e

\* A refresh of a head whose content was seen at that time (refresh_records).
LEMMA RefreshedSound ==
  ASSUME NEW d, NEW W, Sound(d, W), NEW r \in Records, NEW at \in Nat, d.head[r] # None,
         <<r, d.head[r].digest, at>> \in W
  PROVE  Sound(RefreshRecord(d, r, at), W)
<1> DEFINE x == RefreshRecord(d, r, at)
<1>1. d \in Database /\ Fresh(d, W) /\ RecordsIndexed(d) /\ EvidenceIndexed(d)
  BY DEF Sound
<1>2. /\ x \in Database /\ KeepsBindings(d, x) /\ SameIndex(d, x)
      /\ x.head = d.head /\ x.observations = d.observations
      /\ x.sighted = [d.sighted EXCEPT ![r] = Later(@, at)]
  BY <1>1, RefreshRecordDoes
<1> HIDE DEF x
<1>3. DOMAIN d.sighted = Records
  BY <1>1 DEF Database
<1>4. x.sighted[r] = Later(d.sighted[r], at) /\ \A s \in Records \ {r} : x.sighted[s] = d.sighted[s]
  BY <1>2, <1>3
<1>5. \A s \in Records \ {r} : EffectiveTime(x, s) = EffectiveTime(d, s)
  BY <1>2, <1>4 DEF EffectiveTime
<1>6. d.head[r].at \in Nat /\ d.sighted[r] \in Nat
  BY <1>1, HeadTypes
<1>7. EffectiveTime(x, r) = EffectiveTime(d, r) \/ EffectiveTime(x, r) = at
  BY <1>2, <1>4, <1>6 DEF EffectiveTime, Later
<1>8. Fresh(x, W)
  BY <1>1, <1>2, <1>4, <1>5, <1>7 DEF Fresh
<1>9. RecordsIndexed(x)
  BY <1>1, <1>2, SameRecords DEF KeepsBindings, SameIndex
<1>10. EvidenceIndexed(x)
  BY <1>1, <1>2, SameEvidence DEF KeepsBindings, SameIndex
<1>11. Sound(x, W)
  BY <1>2, <1>8, <1>9, <1>10 DEF Sound
<1> QED BY <1>11 DEF x

\* A sighting of a head is replayed only where the head is what the producer saw
\* (apply_events and translate).
LEMMA RecordRefreshSteps ==
  ASSUME NEW d, NEW W, Sound(d, W), NEW J \in Seq(Event), NEW n \in Nat, n + 1 \in 1 .. Len(J),
         Bindings(d, J, n), FaithfulAt(J, n + 1, W), J[n + 1].op = "record_refresh"
  PROVE  Steps(d, J, n, W)
<1> DEFINE e == J[n + 1]
           t == Revalidate(d)
           y == RefreshRecord(t, e.urn, e.at)
           x == IF e.urn \in t.eligible THEN y ELSE t
<1>1. e \in Event
  OBVIOUS
<1>2. e.op = "record_refresh" /\ e.urn \in Records /\ e.at \in Nat
  BY <1>1, EventFields
<1>3. PICK v \in Contents : LastRecord(J, n, e.urn, v) /\ <<e.urn, v, e.at>> \in W
  <2> DEFINE k == n + 1
  <2>1. k - 1 = n
    OBVIOUS
  <2>2. FaithfulAt(J, k, W) /\ J[k].op = "record_refresh"
    BY <1>2
  <2> HIDE DEF k
  <2>3. \E v \in Contents : LastRecord(J, k - 1, J[k].urn, v) /\ <<J[k].urn, v, J[k].at>> \in W
    BY ONLY <2>2 DEF FaithfulAt
  <2> QED BY <2>1, <2>3 DEF k
<1>4. ApplyEvent(d, e) = x
  BY <1>2 DEF ApplyEvent, ApplyRecordRefresh
<1> HIDE DEF e
<1>5. d.bound[e.urn] = v
  <2>1. IF d.bound[e.urn] = None THEN \A k \in 1 .. n : ~RecordAt(J, k, e.urn)
        ELSE LastRecord(J, n, e.urn, d.bound[e.urn])
    BY <1>2 DEF Bindings
  <2>2. d.bound[e.urn] # None
    BY <1>3, <2>1 DEF LastRecord
  <2> QED BY <1>3, <2>1, <2>2, LastRecordIsOne
<1>6. Applicable(d, e)
  BY <1>2, <1>5, StoreAssumption DEF Applicable
<1>7. /\ Sound(t, W) /\ SameHeads(d, t) /\ KeepsBindings(d, t)
      /\ \A r \in Records : (r \in t.eligible) <=> HeadMatches(t, r)
  BY RevalidateDoes
<1> HIDE DEF t
<1>8. /\ Sound(x, W) /\ KeepsBindings(d, x)
      /\ x.head = d.head /\ x.revisions = d.revisions /\ x.conflicts = d.conflicts
      /\ x.sighted = d.sighted \/ x.sighted = [d.sighted EXCEPT ![e.urn] = Later(@, e.at)]
  <2>1. CASE e.urn \in t.eligible
    <3>1. t.head[e.urn] # None /\ t.head[e.urn].digest = v
      BY <1>2, <1>5, <1>7, <2>1 DEF HeadMatches, KeepsBindings
    <3>2. Sound(y, W)
      BY <1>2, <1>3, <1>7, <3>1, RefreshedSound
    <3>3. /\ KeepsBindings(t, y) /\ y.head = t.head
          /\ y.sighted = [t.sighted EXCEPT ![e.urn] = Later(@, e.at)]
          /\ y.revisions = t.revisions /\ y.conflicts = t.conflicts
      <4>1. t \in Database /\ e.urn \in Records /\ e.at \in Nat
        BY <1>2, <1>7 DEF Sound
      <4> HIDE DEF x
      <4>2. /\ y \in Database
            /\ KeepsBindings(t, y) /\ SameIndex(t, y)
            /\ y.head = t.head /\ y.observations = t.observations
            /\ y.sighted = [t.sighted EXCEPT ![e.urn] = Later(@, e.at)]
            /\ y.journal = Append(t.journal, [op |-> "record_refresh", urn |-> e.urn, at |-> e.at])
            /\ y.revisions = t.revisions /\ y.conflicts = t.conflicts /\ y.lastId = t.lastId
        BY ONLY <4>1, RefreshRecordDoes
      <4> QED BY <4>2
    <3> HIDE DEF y
    <3> QED BY <1>7, <2>1, <3>2, <3>3 DEF KeepsBindings, SameHeads
  <2>2. CASE e.urn \notin t.eligible
    BY <1>7, <2>2 DEF SameHeads
  <2> QED BY <2>1, <2>2
<1> HIDE DEF x
<1>9. Bindings(x, J, n + 1)
  BY <1>2, <1>8, BindingsStay DEF e
<1>10. Effect(d, x, e)
  BY <1>2, <1>8 DEF Effect
<1> QED BY <1>4, <1>6, <1>8, <1>9, <1>10 DEF Steps, e

\* A sighting of an observation is replayed only where the local row says what the
\* producer's row said (apply_events and translate).
LEMMA ObservationRefreshSteps ==
  ASSUME NEW d, NEW W, Sound(d, W), NEW J \in Seq(Event), NEW n \in Nat, n + 1 \in 1 .. Len(J),
         Bindings(d, J, n), FaithfulAt(J, n + 1, W), J[n + 1].op = "observation_refresh"
  PROVE  Steps(d, J, n, W)
<1> DEFINE e == J[n + 1]
           t == Revalidate(d)
           q == t.evidence[e.id]
           y == StampObservation(t, q.urn, e.at)
           x == IF e.id \in t.eligibleIds THEN y ELSE t
<1>1. e \in Event
  OBVIOUS
<1>2. e.op = "observation_refresh" /\ e.id \in Nat /\ e.at \in Nat
  BY <1>1, EventFields
<1>3. PICK r \in Records, v \in Contents, p \in Presence :
        LastSight(J, n, e.id, r, v, p) /\ <<r, SightedContent(v, p), e.at>> \in W
  <2> DEFINE k == n + 1
  <2>1. k - 1 = n
    OBVIOUS
  <2>2. FaithfulAt(J, k, W) /\ J[k].op = "observation_refresh"
    BY <1>2
  <2> HIDE DEF k
  <2>3. \E r \in Records, v \in Contents, p \in Presence :
          LastSight(J, k - 1, J[k].id, r, v, p) /\ <<r, SightedContent(v, p), J[k].at>> \in W
    BY ONLY <2>2 DEF FaithfulAt
  <2> QED BY <2>1, <2>3 DEF k
<1>4. ApplyEvent(d, e) = x
  BY <1>2 DEF ApplyEvent, ApplyObservationRefresh
<1> HIDE DEF e
<1>5. /\ e.id \in DOMAIN d.evidence /\ d.evidence[e.id] # None
      /\ d.evidence[e.id].urn = r /\ d.evidence[e.id].fingerprint = v
      /\ d.evidence[e.id].present = p
  <2>1. IF e.id \in DOMAIN d.evidence /\ d.evidence[e.id] # None
        THEN LastSight(J, n, e.id, d.evidence[e.id].urn, d.evidence[e.id].fingerprint,
                       d.evidence[e.id].present)
        ELSE \A k \in 1 .. n : ~SightAt(J, k, e.id)
    BY <1>2 DEF Bindings
  <2>2. e.id \in DOMAIN d.evidence /\ d.evidence[e.id] # None
    BY <1>3, <2>1 DEF LastSight
  <2>3. LastSight(J, n, e.id, d.evidence[e.id].urn, d.evidence[e.id].fingerprint,
                  d.evidence[e.id].present)
    BY <2>1, <2>2
  <2> QED BY <1>3, <2>2, <2>3, LastSightIsOne
<1>6. Applicable(d, e)
  BY <1>2, <1>5 DEF Applicable
<1>7. /\ Sound(t, W) /\ SameHeads(d, t) /\ KeepsBindings(d, t)
      /\ \A i : (i \in t.eligibleIds) <=> EvidenceMatches(t, i)
  BY RevalidateDoes
<1> HIDE DEF t
<1>8. q.urn = r /\ q.fingerprint = v /\ q.present = p
  BY <1>5, <1>7 DEF KeepsBindings
<1>9. Sound(x, W) /\ KeepsBindings(d, x) /\ SameHeads(d, x)
  <2>1. CASE e.id \in t.eligibleIds
    <3>1. t \in Database
      BY <1>7 DEF Sound
    <3>2. IsRow(t.observations[q.urn], q)
      BY <1>7, <2>1, <3>1, EvidenceRow
    <3>3. t.observations[r] # None /\ t.observations[r].fingerprint = v
          /\ t.observations[r].present = p
      BY <1>8, <3>2 DEF IsRow
    <3>4. Stamped(t, y, r, e.at)
      BY <1>2, <1>8, <3>1, <3>3, StampObservationDoes
    <3> DEFINE o == t.observations[r]
    <3>5. <<r, SightedContent(o.fingerprint, o.present), LastSeen(o)>> \in W
          /\ LastSeen(o) \in Nat
      BY <1>7, <3>3, HeadTypes DEF Sound, Fresh
    <3>6. Later(e.at, LastSeen(o)) = e.at \/ Later(e.at, LastSeen(o)) = LastSeen(o)
      BY DEF Later
    <3>7. <<r, SightedContent(o.fingerprint, o.present), Later(e.at, LastSeen(o))>> \in W
      BY <1>3, <3>3, <3>5, <3>6
    <3> HIDE DEF y, o
    <3>8. Sound(y, W)
      BY <1>2, <1>7, <3>3, <3>4, <3>7, StampedSound DEF o
    <3>9. KeepsBindings(t, y) /\ SameHeads(t, y)
      BY <3>4 DEF Stamped, SameHeads
    <3> QED BY <1>7, <2>1, <3>8, <3>9 DEF KeepsBindings, SameHeads
  <2>2. CASE e.id \notin t.eligibleIds
    BY <1>7, <2>2
  <2> QED BY <2>1, <2>2
<1> HIDE DEF x
<1>10. Bindings(x, J, n + 1)
  BY <1>2, <1>9, BindingsStay DEF e
<1>11. Effect(d, x, e)
  BY <1>2, <1>9 DEF Effect
<1> QED BY <1>4, <1>6, <1>9, <1>10, <1>11 DEF Steps, e

\* Whatever the next event is, it can be applied and leaves a sound database behind.
LEMMA EventSteps ==
  ASSUME NEW d, NEW W, Sound(d, W), NEW J \in Seq(Event), NEW n \in Nat, n + 1 \in 1 .. Len(J),
         Bindings(d, J, n), FaithfulAt(J, n + 1, W)
  PROVE  Steps(d, J, n, W)
<1>1. J[n + 1].op \in {"record", "revision", "record_refresh", "observation", "observation_refresh"}
  BY EventFields
<1> QED BY <1>1, RecordSteps, RevisionSteps, RecordRefreshSteps, ObservationSteps,
           ObservationRefreshSteps

(* A batch. *****************************************************************)

\* Rules of one event that hold along a batch: a relation R between the database the
\* batch starts from and the one after each number of events.
LEMMA BatchLeads ==
  ASSUME NEW d, NEW W, Sound(d, W), NEW J \in Seq(Event), NEW n \in Nat, NEW m \in n .. Len(J),
         Bindings(d, J, n), \A k \in n + 1 .. m : FaithfulAt(J, k, W),
         NEW R, d \in R[n],
         \A k \in n + 1 .. m : \A x \in R[k - 1] :
           /\ Sound(x, W) /\ Bindings(x, J, k - 1) /\ Steps(x, J, k - 1, W)
             => ApplyEvent(x, J[k]) \in R[k]
  PROVE  LET x == Replay(d, SubSeq(J, n + 1, m))
         IN x # None /\ Sound(x, W) /\ Bindings(x, J, m) /\ x \in R[m]
<1> DEFINE batch == SubSeq(J, n + 1, m)
           G(k) == {x \in R[k] : Sound(x, W) /\ Bindings(x, J, k)}
           S == [i \in 0 .. m - n |-> G(n + i)]
<1>1. m \in Nat /\ n <= m /\ m <= Len(J)
  OBVIOUS
<1>2. Len(batch) = m - n /\ m - n \in Nat /\ \A i \in 1 .. m - n : batch[i] = J[n + i]
  BY <1>1
<1> HIDE DEF batch
<1>3. d \in S[0]
  BY <1>1
<1>4. ASSUME NEW i \in 1 .. Len(batch), NEW x \in S[i - 1]
      PROVE x # None /\ Applicable(x, batch[i]) /\ ApplyEvent(x, batch[i]) \in S[i]
  <2> DEFINE k == n + i
  <2>1. k \in n + 1 .. m /\ k - 1 \in Nat /\ k - 1 + 1 = k /\ k \in 1 .. Len(J) /\ i - 1 \in 0 .. m - n
        /\ i \in 0 .. m - n /\ n + (i - 1) = k - 1
    BY <1>1, <1>2
  <2>2. batch[i] = J[k]
    BY <1>2
  <2> HIDE DEF k
  <2>3. x \in R[k - 1] /\ Sound(x, W) /\ Bindings(x, J, k - 1)
    BY <2>1
  <2>4. Steps(x, J, k - 1, W)
    <3> DEFINE l == k - 1
    <3>1. l \in Nat /\ l + 1 = k
      BY <2>1
    <3>2. FaithfulAt(J, l + 1, W) /\ l + 1 \in 1 .. Len(J)
      BY <2>1, <3>1
    <3> HIDE DEF l
    <3>3. Steps(x, J, l, W)
      BY <2>3, <3>1, <3>2, EventSteps DEF l
    <3> QED BY <3>3 DEF l
  <2>5. ApplyEvent(x, J[k]) \in R[k]
    BY <2>1, <2>3, <2>4
  <2>6. Applicable(x, J[k]) /\ Sound(ApplyEvent(x, J[k]), W) /\ Bindings(ApplyEvent(x, J[k]), J, k)
    BY <2>1, <2>4 DEF Steps
  <2>7. x # None
    BY <2>3, NoneAssumption DEF Sound
  <2> QED BY <2>1, <2>2, <2>5, <2>6, <2>7 DEF k
<1> HIDE DEF S
<1>5. Replay(d, batch) \in S[Len(batch)]
  BY <1>2, <1>3, <1>4, ReplayLeads
<1>6. Replay(d, batch) \in G(m)
  BY <1>1, <1>2, <1>5 DEF S
<1>7. Replay(d, batch) # None
  BY <1>6, NoneAssumption DEF Sound
<1> QED BY <1>6, <1>7 DEF batch

(* The producer's journal. **************************************************)

\* A head event names the content it replaced, which an earlier one put there; a revision
\* event follows the head event of its time.
Chained(J, k) ==
  LET e == J[k] IN
  /\ e.op = "record" /\ e.previous # None =>
       \E l \in 1 .. k - 1 : RecordAt(J, l, e.urn) /\ J[l].digest = e.previous
  /\ e.op = "revision" => \E l \in 1 .. k - 1 : RecordAt(J, l, e.urn) /\ J[l].at = e.at

JournalFaithful(J, W) == \A k \in 1 .. Len(J) : FaithfulAt(J, k, W) /\ Chained(J, k)

\* The last head event of a record is its head, the last one of an observation is its row.
HeadsIn(h, J) == \A r \in Records : h[r] # None => LastRecord(J, Len(J), r, h[r].digest)
RowsIn(o, J) ==
  \A r \in Records : o[r] # None =>
    LastSight(J, Len(J), o[r].id, r, o[r].fingerprint, o[r].present)
IdsIn(o, last, J) ==
  /\ \A r \in Records : o[r] # None => o[r].id \in 1 .. last
  /\ \A k \in 1 .. Len(J) : J[k].op = "observation" => J[k].id \in 1 .. last

Logged(d, W) ==
  /\ JournalFaithful(d.journal, W)
  /\ HeadsIn(d.head, d.journal) /\ RowsIn(d.observations, d.journal)
  /\ IdsIn(d.observations, d.lastId, d.journal)

Recorded(d, W) == Sound(d, W) /\ Logged(d, W)

Agree(J, K, n) == \A k \in 1 .. n : K[k] = J[k]

\* What is said of the first n events is said of any journal that begins with them.
LEMMA AgreeFacts ==
  ASSUME NEW J, NEW K, NEW n \in Nat, Agree(J, K, n)
  PROVE  /\ \A W : \A k \in 1 .. n : FaithfulAt(J, k, W) => FaithfulAt(K, k, W)
         /\ \A k \in 1 .. n : Chained(J, k) => Chained(K, k)
         /\ \A r, v : \A k \in 0 .. n : LastRecord(J, k, r, v) => LastRecord(K, k, r, v)
         /\ \A i, r, v, p : \A k \in 0 .. n :
              LastSight(J, k, i, r, v, p) => LastSight(K, k, i, r, v, p)
         /\ \A d : \A k \in 0 .. n : Bindings(d, J, k) => Bindings(d, K, k)
<1>1. \A k \in 1 .. n : K[k] = J[k]
  BY DEF Agree
<1>2. \A r : \A k \in 1 .. n : RecordAt(K, k, r) <=> RecordAt(J, k, r)
  BY <1>1 DEF RecordAt
<1>3. \A i : \A k \in 1 .. n : SightAt(K, k, i) <=> SightAt(J, k, i)
  BY <1>1 DEF SightAt
<1>4. ASSUME NEW r, NEW v, NEW k \in 0 .. n, LastRecord(J, k, r, v)
      PROVE LastRecord(K, k, r, v)
  <2>1. PICK m \in 1 .. k : RecordAt(J, m, r) /\ J[m].digest = v
                            /\ \A l \in m + 1 .. k : ~RecordAt(J, l, r)
    BY <1>4 DEF LastRecord
  <2>2. m \in 1 .. n /\ \A l \in m + 1 .. k : l \in 1 .. n
    BY <2>1
  <2> QED BY <1>1, <1>2, <2>1, <2>2 DEF LastRecord
<1>5. ASSUME NEW i, NEW r, NEW v, NEW p, NEW k \in 0 .. n, LastSight(J, k, i, r, v, p)
      PROVE LastSight(K, k, i, r, v, p)
  <2>1. PICK m \in 1 .. k : /\ SightAt(J, m, i)
                            /\ J[m].urn = r /\ J[m].fingerprint = v /\ J[m].present = p
                            /\ \A l \in m + 1 .. k : ~SightAt(J, l, i)
    BY <1>5 DEF LastSight
  <2>2. m \in 1 .. n /\ \A l \in m + 1 .. k : l \in 1 .. n
    BY <2>1
  <2> QED BY <1>1, <1>3, <2>1, <2>2 DEF LastSight
<1>6. ASSUME NEW W, NEW k \in 1 .. n, FaithfulAt(J, k, W)
      PROVE FaithfulAt(K, k, W)
  <2>1. K[k] = J[k] /\ k - 1 \in 0 .. n /\ \A l \in 1 .. k - 1 : l \in 1 .. n
    BY <1>1
  <2>2. J[k].op = "observation" =>
          \A l \in 1 .. k - 1 : SightAt(K, l, J[k].id) => K[l].urn = J[k].urn
    BY <1>1, <1>3, <1>6, <2>1 DEF FaithfulAt
  <2>3. J[k].op = "record_refresh" =>
          \E v \in Contents : LastRecord(K, k - 1, J[k].urn, v) /\ <<J[k].urn, v, J[k].at>> \in W
    BY <1>4, <1>6, <2>1 DEF FaithfulAt
  <2>4. J[k].op = "observation_refresh" =>
          \E r \in Records, v \in Contents, p \in Presence :
            LastSight(K, k - 1, J[k].id, r, v, p) /\ <<r, SightedContent(v, p), J[k].at>> \in W
    BY <1>5, <1>6, <2>1 DEF FaithfulAt
  <2> QED BY <1>6, <2>1, <2>2, <2>3, <2>4 DEF FaithfulAt
<1>7. ASSUME NEW k \in 1 .. n, Chained(J, k)
      PROVE Chained(K, k)
  <2>1. K[k] = J[k] /\ \A l \in 1 .. k - 1 : l \in 1 .. n
    BY <1>1
  <2> QED BY <1>1, <1>2, <1>7, <2>1 DEF Chained
<1>8. ASSUME NEW d, NEW k \in 0 .. n, Bindings(d, J, k)
      PROVE Bindings(d, K, k)
  <2>1. \A l \in 1 .. k : l \in 1 .. n
    OBVIOUS
  <2>2. \A r \in Records : IF d.bound[r] = None THEN \A l \in 1 .. k : ~RecordAt(K, l, r)
                           ELSE LastRecord(K, k, r, d.bound[r])
    BY <1>2, <1>4, <1>8, <2>1 DEF Bindings
  <2>3. \A i \in Nat :
          IF i \in DOMAIN d.evidence /\ d.evidence[i] # None
          THEN LastSight(K, k, i, d.evidence[i].urn, d.evidence[i].fingerprint,
                         d.evidence[i].present)
          ELSE \A l \in 1 .. k : ~SightAt(K, l, i)
    BY <1>3, <1>5, <1>8, <2>1 DEF Bindings
  <2> QED BY <2>2, <2>3 DEF Bindings
<1> QED BY <1>4, <1>5, <1>6, <1>7, <1>8

\* The journal with one more event.
LEMMA AppendFacts ==
  ASSUME NEW J \in Seq(Event), NEW e \in Event
  PROVE  LET K == Append(J, e)
         IN /\ K \in Seq(Event) /\ Len(J) \in Nat /\ Len(K) = Len(J) + 1
            /\ Agree(J, K, Len(J)) /\ K[Len(J) + 1] = e
BY DEF Agree

LEMMA AppendFaithful ==
  ASSUME NEW J \in Seq(Event), NEW e \in Event, NEW W, JournalFaithful(J, W),
         NEW K, K = Append(J, e),
         FaithfulAt(K, Len(J) + 1, W), Chained(K, Len(J) + 1)
  PROVE  JournalFaithful(K, W)
<1>1. Len(J) \in Nat /\ Len(K) = Len(J) + 1 /\ Agree(J, K, Len(J))
  BY AppendFacts
<1>2. \A k \in 1 .. Len(J) : FaithfulAt(K, k, W) /\ Chained(K, k)
  BY <1>1, AgreeFacts DEF JournalFaithful
<1>3. \A k \in 1 .. Len(J) + 1 : k \in 1 .. Len(J) \/ k = Len(J) + 1
  BY <1>1
<1> QED BY <1>1, <1>2, <1>3 DEF JournalFaithful

LEMMA HeadsStayIn ==
  ASSUME NEW J \in Seq(Event), NEW e \in Event, NEW h, HeadsIn(h, J), e.op # "record"
  PROVE  HeadsIn(h, Append(J, e))
<1> DEFINE K == Append(J, e)
           n == Len(J)
<1>1. n \in Nat /\ Len(K) = n + 1 /\ Agree(J, K, n) /\ K[n + 1] = e
  BY AppendFacts
<1> HIDE DEF K, n
<1>2. ASSUME NEW r \in Records, h[r] # None
      PROVE LastRecord(K, n + 1, r, h[r].digest)
  <2>1. LastRecord(J, n, r, h[r].digest)
    BY <1>2 DEF HeadsIn, n
  <2>2. LastRecord(K, n, r, h[r].digest)
    BY <1>1, <2>1, AgreeFacts
  <2>3. ~RecordAt(K, n + 1, r)
    BY <1>1 DEF RecordAt
  <2> QED BY <1>1, <2>2, <2>3, LastRecordNext
<1> QED BY <1>1, <1>2 DEF HeadsIn, K

LEMMA RowsStayIn ==
  ASSUME NEW J \in Seq(Event), NEW e \in Event, NEW o, RowsIn(o, J), e.op # "observation"
  PROVE  RowsIn(o, Append(J, e))
<1> DEFINE K == Append(J, e)
           n == Len(J)
<1>1. n \in Nat /\ Len(K) = n + 1 /\ Agree(J, K, n) /\ K[n + 1] = e
  BY AppendFacts
<1> HIDE DEF K, n
<1>2. ASSUME NEW r \in Records, o[r] # None
      PROVE LastSight(K, n + 1, o[r].id, r, o[r].fingerprint, o[r].present)
  <2>1. LastSight(J, n, o[r].id, r, o[r].fingerprint, o[r].present)
    BY <1>2 DEF RowsIn, n
  <2>2. LastSight(K, n, o[r].id, r, o[r].fingerprint, o[r].present)
    BY <1>1, <2>1, AgreeFacts
  <2>3. ~SightAt(K, n + 1, o[r].id)
    BY <1>1 DEF SightAt
  <2> QED BY <1>1, <2>2, <2>3, LastSightNext
<1> QED BY <1>1, <1>2 DEF RowsIn, K

LEMMA IdsStayIn ==
  ASSUME NEW J \in Seq(Event), NEW e \in Event, NEW o, NEW last, IdsIn(o, last, J),
         e.op # "observation"
  PROVE  IdsIn(o, last, Append(J, e))
<1> DEFINE K == Append(J, e)
<1>1. Len(J) \in Nat /\ Len(K) = Len(J) + 1 /\ Agree(J, K, Len(J)) /\ K[Len(J) + 1] = e
  BY AppendFacts
<1> HIDE DEF K
<1>2. \A k \in 1 .. Len(K) : (k \in 1 .. Len(J) /\ K[k] = J[k]) \/ k = Len(J) + 1
  BY <1>1 DEF Agree
<1>3. \A k \in 1 .. Len(K) : K[k].op = "observation" => K[k].id \in 1 .. last
  BY <1>1, <1>2 DEF IdsIn
<1> QED BY <1>3 DEF IdsIn, K

\* d became x by a write of the head of r, and its head event.
HeadJournaled(d, x, r, v, at) ==
  LET old == IF d.head[r] = None THEN None ELSE d.head[r].digest
  IN /\ x.journal = Append(d.journal, [op |-> "record", urn |-> r, digest |-> v,
                                       at |-> at, previous |-> old])
     /\ x.head[r].digest = v /\ (\A s \in Records \ {r} : x.head[s] = d.head[s])
     /\ x.observations = d.observations /\ x.lastId = d.lastId

HeadAt(J, r, at) == \E k \in 1 .. Len(J) : RecordAt(J, k, r) /\ J[k].at = at

\* A head is written, and journaled (WriteHead).
LEMMA RecordLogged ==
  ASSUME NEW d \in Database, NEW W, Logged(d, W), NEW x, NEW r \in Records, NEW v \in Contents,
         NEW at \in Nat, <<r, v, at>> \in W, HeadJournaled(d, x, r, v, at)
  PROVE  Logged(x, W) /\ HeadAt(x.journal, r, at)
<1> DEFINE old == IF d.head[r] = None THEN None ELSE d.head[r].digest
           e == [op |-> "record", urn |-> r, digest |-> v, at |-> at, previous |-> old]
           J == d.journal
           K == Append(J, e)
           n == Len(J)
<1>1. e \in Event /\ J \in Seq(Event)
  <2>1. old \in Contents \cup {None}
    BY HeadTypes
  <2> HIDE DEF old
  <2>2. J \in Seq(Event)
    BY DEF Database
  <2> QED BY <2>1, <2>2, EventTypes
<1>2. e.op = "record" /\ e.urn = r /\ e.digest = v /\ e.at = at /\ e.previous = old
  OBVIOUS
<1>3. /\ x.journal = K
      /\ x.head[r].digest = v /\ (\A s \in Records \ {r} : x.head[s] = d.head[s])
      /\ x.observations = d.observations /\ x.lastId = d.lastId
  BY DEF HeadJournaled
<1>4. /\ JournalFaithful(J, W) /\ HeadsIn(d.head, J) /\ RowsIn(d.observations, J)
      /\ IdsIn(d.observations, d.lastId, J)
  BY DEF Logged
<1> HIDE DEF J, e
<1>5. n \in Nat /\ Len(K) = n + 1 /\ Agree(J, K, n) /\ K[n + 1] = e
  BY <1>1, AppendFacts
<1> HIDE DEF K, n
<1>6. RecordAt(K, n + 1, r) /\ K[n + 1].digest = v /\ K[n + 1].at = at
  BY <1>2, <1>5 DEF RecordAt
<1>7. FaithfulAt(K, n + 1, W)
  BY <1>2, <1>5 DEF FaithfulAt
<1>8. Chained(K, n + 1)
  <2>1. ASSUME old # None PROVE \E l \in 1 .. n : RecordAt(K, l, r) /\ K[l].digest = old
    <3>1. LastRecord(J, n, r, old)
      BY <1>4, <2>1 DEF HeadsIn, n
    <3>2. LastRecord(K, n, r, old)
      BY <1>5, <3>1, AgreeFacts
    <3> QED BY <3>2 DEF LastRecord
  <2>2. n + 1 - 1 = n
    BY <1>5
  <2> HIDE DEF old
  <2> QED BY <1>2, <1>5, <2>1, <2>2 DEF Chained
<1>9. JournalFaithful(K, W)
  BY <1>1, <1>4, <1>7, <1>8, AppendFaithful DEF K, n
<1>10. HeadsIn(x.head, K)
  <2> SUFFICES ASSUME NEW s \in Records, x.head[s] # None
               PROVE LastRecord(K, n + 1, s, x.head[s].digest)
    BY <1>5 DEF HeadsIn
  <2>1. CASE s = r
    BY <1>3, <1>5, <1>6, <2>1, LastRecordNext
  <2>2. CASE s # r
    <3>1. x.head[s] = d.head[s] /\ LastRecord(J, n, s, d.head[s].digest)
      BY <1>3, <1>4, <2>2 DEF HeadsIn, n
    <3>2. LastRecord(K, n, s, d.head[s].digest)
      BY <1>5, <3>1, AgreeFacts
    <3>3. ~RecordAt(K, n + 1, s)
      BY <1>2, <1>5, <2>2 DEF RecordAt
    <3> QED BY <1>5, <3>1, <3>2, <3>3, LastRecordNext
  <2> QED BY <2>1, <2>2
<1>11. RowsIn(d.observations, K)
  BY <1>1, <1>2, <1>4, RowsStayIn DEF K
<1>12. IdsIn(d.observations, d.lastId, K)
  BY <1>1, <1>2, <1>4, IdsStayIn DEF K
<1>13. n + 1 \in 1 .. Len(K)
  BY <1>5
<1> QED BY <1>3, <1>6, <1>9, <1>10, <1>11, <1>12, <1>13 DEF Logged, HeadAt

\* The revision of a head that was written at that time (_add_revision).
LEMMA RevisionLogged ==
  ASSUME NEW d \in Database, NEW W, Logged(d, W), NEW x, NEW r \in Records, NEW v \in Contents,
         NEW at \in Nat, NEW s \in Contents \cup {None}, NEW b \in Nat,
         HeadAt(d.journal, r, at),
         x.journal = Append(d.journal,
           [op |-> "revision", urn |-> r, digest |-> v, at |-> at, supersedes |-> s, body |-> b]),
         x.head = d.head, x.observations = d.observations, x.lastId = d.lastId
  PROVE  Logged(x, W)
<1> DEFINE e == [op |-> "revision", urn |-> r, digest |-> v, at |-> at, supersedes |-> s,
                 body |-> b]
           J == d.journal
           K == Append(J, e)
           n == Len(J)
<1>1. e \in Event /\ J \in Seq(Event)
  BY EventTypes DEF Database
<1>2. e.op = "revision" /\ e.urn = r /\ e.at = at
  OBVIOUS
<1>3. x.journal = K
  OBVIOUS
<1>4. /\ JournalFaithful(J, W) /\ HeadsIn(d.head, J) /\ RowsIn(d.observations, J)
      /\ IdsIn(d.observations, d.lastId, J)
  BY DEF Logged
<1>5. PICK k \in 1 .. n : RecordAt(J, k, r) /\ J[k].at = at
  BY DEF HeadAt
<1> HIDE DEF J, e
<1>6. n \in Nat /\ Len(K) = n + 1 /\ Agree(J, K, n) /\ K[n + 1] = e
  BY <1>1, AppendFacts
<1> HIDE DEF K, n
<1>7. FaithfulAt(K, n + 1, W)
  BY <1>2, <1>6 DEF FaithfulAt
<1>8. Chained(K, n + 1)
  <2>1. RecordAt(K, k, r) /\ K[k].at = at /\ k \in 1 .. n + 1 - 1
    BY <1>5, <1>6 DEF Agree, RecordAt
  <2> QED BY <1>2, <1>6, <2>1 DEF Chained
<1>9. JournalFaithful(K, W)
  BY <1>1, <1>4, <1>7, <1>8, AppendFaithful DEF K, n
<1>10. HeadsIn(d.head, K) /\ RowsIn(d.observations, K) /\ IdsIn(d.observations, d.lastId, K)
  BY <1>1, <1>2, <1>4, HeadsStayIn, RowsStayIn, IdsStayIn DEF K
<1> QED BY <1>3, <1>9, <1>10 DEF Logged

(* Events of the three kinds that name what an earlier event put there. *)
LEMMA RefreshFaithful ==
  ASSUME NEW K, NEW n \in Nat, NEW W, K[n + 1].op = "record_refresh",
         \E v \in Contents : LastRecord(K, n, K[n + 1].urn, v) /\ <<K[n + 1].urn, v, K[n + 1].at>> \in W
  PROVE  FaithfulAt(K, n + 1, W)
<1> DEFINE k == n + 1
<1>1. n = k - 1
  OBVIOUS
<1> HIDE DEF k
<1>2. /\ K[k].op = "record_refresh"
      /\ \E v \in Contents : LastRecord(K, k - 1, K[k].urn, v) /\ <<K[k].urn, v, K[k].at>> \in W
  BY <1>1 DEF k
<1>3. FaithfulAt(K, k, W)
  BY ONLY <1>2 DEF FaithfulAt
<1> QED BY <1>3 DEF k

LEMMA SightFaithful ==
  ASSUME NEW K, NEW n \in Nat, NEW W, K[n + 1].op = "observation",
         K[n + 1].id # 0,
         <<K[n + 1].urn, SightedContent(K[n + 1].fingerprint, K[n + 1].present), K[n + 1].at>> \in W,
         \A l \in 1 .. n : SightAt(K, l, K[n + 1].id) => K[l].urn = K[n + 1].urn
  PROVE  FaithfulAt(K, n + 1, W)
<1> DEFINE k == n + 1
<1>1. n = k - 1
  OBVIOUS
<1> HIDE DEF k
<1>2. /\ K[k].op = "observation"
      /\ K[k].id # 0
      /\ <<K[k].urn, SightedContent(K[k].fingerprint, K[k].present), K[k].at>> \in W
      /\ \A l \in 1 .. k - 1 : SightAt(K, l, K[k].id) => K[l].urn = K[k].urn
  BY <1>1 DEF k
<1>3. FaithfulAt(K, k, W)
  BY ONLY <1>2 DEF FaithfulAt
<1> QED BY <1>3 DEF k

LEMMA SightingFaithful ==
  ASSUME NEW K, NEW n \in Nat, NEW W, K[n + 1].op = "observation_refresh",
         \E r \in Records, v \in Contents, p \in Presence :
           LastSight(K, n, K[n + 1].id, r, v, p) /\ <<r, SightedContent(v, p), K[n + 1].at>> \in W
  PROVE  FaithfulAt(K, n + 1, W)
<1> DEFINE k == n + 1
<1>1. n = k - 1
  OBVIOUS
<1> HIDE DEF k
<1>2. /\ K[k].op = "observation_refresh"
      /\ \E r \in Records, v \in Contents, p \in Presence :
           LastSight(K, k - 1, K[k].id, r, v, p) /\ <<r, SightedContent(v, p), K[k].at>> \in W
  BY <1>1 DEF k
<1>3. FaithfulAt(K, k, W)
  BY ONLY <1>2 DEF FaithfulAt
<1> QED BY <1>3 DEF k

\* A sighting of the head (refresh_records).
LEMMA RefreshLogged ==
  ASSUME NEW d \in Database, NEW W, Logged(d, W), NEW x, NEW r \in Records, NEW at \in Nat,
         d.head[r] # None, <<r, d.head[r].digest, at>> \in W,
         x.journal = Append(d.journal, [op |-> "record_refresh", urn |-> r, at |-> at]),
         x.head = d.head, x.observations = d.observations, x.lastId = d.lastId
  PROVE  Logged(x, W)
<1> DEFINE e == [op |-> "record_refresh", urn |-> r, at |-> at]
           J == d.journal
           K == Append(J, e)
           n == Len(J)
<1>1. e \in Event /\ J \in Seq(Event)
  BY EventTypes DEF Database
<1>2. e.op = "record_refresh" /\ e.urn = r /\ e.at = at
  OBVIOUS
<1>3. x.journal = K
  OBVIOUS
<1>4. /\ JournalFaithful(J, W) /\ HeadsIn(d.head, J) /\ RowsIn(d.observations, J)
      /\ IdsIn(d.observations, d.lastId, J)
  BY DEF Logged
<1> HIDE DEF J, e
<1>5. n \in Nat /\ Len(K) = n + 1 /\ Agree(J, K, n) /\ K[n + 1] = e
  BY <1>1, AppendFacts
<1> HIDE DEF K, n
<1>6. FaithfulAt(K, n + 1, W)
  <2>1. d.head[r].digest \in Contents
    BY HeadTypes
  <2>2. LastRecord(J, n, r, d.head[r].digest)
    BY <1>4 DEF HeadsIn, n
  <2>3. LastRecord(K, n, r, d.head[r].digest)
    BY <1>5, <2>2, AgreeFacts
  <2> QED BY <1>2, <1>5, <2>1, <2>3, RefreshFaithful
<1>7. Chained(K, n + 1)
  BY <1>2, <1>5 DEF Chained
<1>8. JournalFaithful(K, W)
  BY <1>1, <1>4, <1>6, <1>7, AppendFaithful DEF K, n
<1>9. HeadsIn(d.head, K) /\ RowsIn(d.observations, K) /\ IdsIn(d.observations, d.lastId, K)
  BY <1>1, <1>2, <1>4, HeadsStayIn, RowsStayIn, IdsStayIn DEF K
<1> QED BY <1>3, <1>8, <1>9 DEF Logged

\* One observation, by its id, is always of one record; two records have two ids.
LEMMA OneUrn ==
  ASSUME NEW d \in Database, NEW W, Logged(d, W), NEW r \in Records, d.observations[r] # None
  PROVE  /\ \A k \in 1 .. Len(d.journal) :
              SightAt(d.journal, k, d.observations[r].id) => d.journal[k].urn = r
         /\ \A s \in Records :
              d.observations[s] # None /\ d.observations[s].id = d.observations[r].id => s = r
<1> DEFINE J == d.journal
           n == Len(J)
           i == d.observations[r].id
<1>1. J \in Seq(Event) /\ n \in Nat
  BY DEF Database
<1>2. LastSight(J, n, i, r, d.observations[r].fingerprint, d.observations[r].present)
      /\ JournalFaithful(J, W)
  BY DEF Logged, RowsIn
<1>3. ASSUME NEW s \in Records, d.observations[s] # None, d.observations[s].id = i
      PROVE s = r
  <2>1. LastSight(J, n, i, s, d.observations[s].fingerprint, d.observations[s].present)
    BY <1>3 DEF Logged, RowsIn
  <2> QED BY <1>1, <1>2, <2>1, LastSightIsOne
<1> HIDE DEF J, i, n
<1>4. PICK m \in 1 .. n : SightAt(J, m, i) /\ J[m].urn = r
                          /\ \A l \in m + 1 .. n : ~SightAt(J, l, i)
  BY <1>2 DEF LastSight
<1>5. ASSUME NEW k \in 1 .. n, SightAt(J, k, i)
      PROVE J[k].urn = r
  <2>1. k = m \/ k \in 1 .. m - 1 \/ k \in m + 1 .. n
    BY <1>1
  <2>2. J[m].op = "observation" /\ J[m].id = i /\ FaithfulAt(J, m, W)
    BY <1>1, <1>2, <1>4 DEF JournalFaithful, SightAt, n
  <2>3. k \in 1 .. m - 1 => J[k].urn = r
    BY <1>4, <1>5, <2>2 DEF FaithfulAt
  <2> QED BY <1>4, <1>5, <2>1, <2>3
<1> QED BY <1>3, <1>5 DEF J, i, n

\* The row of an observation changes, and is journaled (the triggers of observe_many).
LEMMA ObservationLogged ==
  ASSUME NEW d \in Database, NEW W, Logged(d, W), NEW x, NEW r \in Records, NEW v \in Contents,
         NEW p \in Presence, NEW at \in Nat, Observed(d, x, r, v, p, at),
         <<r, SightedContent(v, p), at>> \in W
  PROVE  Logged(x, W)
<1> DEFINE old  == d.observations[r]
           id   == IF old = None THEN d.lastId + 1 ELSE old.id
           same == old # None /\ old.fingerprint = v /\ old.present = p
           row  == [id |-> id, fingerprint |-> v, at |-> at,
                    seen |-> IF old = None THEN 0 ELSE old.seen, present |-> p]
           e    == [op |-> "observation", urn |-> r, id |-> id, fingerprint |-> v,
                    present |-> p, at |-> at]
           J == d.journal
           K == Append(J, e)
           n == Len(J)
<1>1. /\ x.head = d.head /\ x.lastId = Later(d.lastId, id)
      /\ x.observations = [d.observations EXCEPT ![r] = row]
      /\ IF same THEN x.journal = J ELSE x.journal = K
  BY DEF Observed
<1>2. d.lastId \in Nat /\ J \in Seq(Event) /\ DOMAIN d.observations = Records /\ n \in Nat
  BY DEF Database
<1>3. /\ JournalFaithful(J, W) /\ HeadsIn(d.head, J) /\ RowsIn(d.observations, J)
      /\ IdsIn(d.observations, d.lastId, J)
  BY DEF Logged
<1>4. id \in Nat \ {0} /\ id <= x.lastId /\ d.lastId <= x.lastId /\ x.lastId \in Nat
  <2>1. CASE old = None
    BY <1>1, <1>2, <2>1 DEF Later
  <2>2. CASE old # None
    <3>1. old.id \in 1 .. d.lastId
      BY <1>3, <2>2 DEF IdsIn
    <3> QED BY <1>1, <1>2, <2>2, <3>1 DEF Later
  <2> QED BY <2>1, <2>2
<1>5. \A k \in 1 .. n : SightAt(J, k, id) => J[k].urn = r
  <2>1. CASE old = None
    BY <1>2, <1>3, <2>1 DEF IdsIn, SightAt
  <2>2. CASE old # None
    BY <2>2, OneUrn
  <2> QED BY <2>1, <2>2
<1>6. \A s \in Records \ {r} : d.observations[s] # None => d.observations[s].id # id
  <2>1. CASE old = None
    BY <1>2, <1>3, <2>1 DEF IdsIn
  <2>2. CASE old # None
    BY <2>2, OneUrn
  <2> QED BY <2>1, <2>2
<1>7. row.id = id /\ row.fingerprint = v /\ row.present = p
  OBVIOUS
<1>8. same => old.id = id /\ old.fingerprint = v /\ old.present = p
  OBVIOUS
<1>9. /\ e.op = "observation" /\ e.urn = r /\ e.id = id /\ e.fingerprint = v /\ e.present = p
      /\ e.at = at
  OBVIOUS
<1>10. same \in BOOLEAN
  OBVIOUS
<1>11. e \in Event
  <2> HIDE DEF id
  <2> QED BY <1>4, EventTypes
<1> HIDE DEF row, e, J, id, same, n
<1>12. x.observations[r] = row /\ \A s \in Records \ {r} : x.observations[s] = d.observations[s]
  BY <1>1, <1>2
<1>13. CASE same
  <2>1. x.journal = J
    BY <1>1, <1>13
  <2>2. RowsIn(x.observations, J)
    <3> SUFFICES ASSUME NEW s \in Records, x.observations[s] # None
                 PROVE LastSight(J, Len(J), x.observations[s].id, s,
                                 x.observations[s].fingerprint, x.observations[s].present)
      BY DEF RowsIn
    <3>1. CASE s = r
      <4>1. old # None
        BY <1>13 DEF same
      <4>2. LastSight(J, Len(J), old.id, r, old.fingerprint, old.present)
        BY <1>3, <4>1 DEF RowsIn
      <4> HIDE DEF old
      <4> QED BY <1>7, <1>8, <1>12, <1>13, <3>1, <4>2
    <3>2. CASE s # r
      BY <1>3, <1>12, <3>2 DEF RowsIn
    <3> QED BY <3>1, <3>2
  <2>3. IdsIn(x.observations, x.lastId, J)
    <3>1. \A i \in 1 .. d.lastId : i \in 1 .. x.lastId
      BY <1>2, <1>4
    <3>2. id \in 1 .. x.lastId
      BY <1>4
    <3> QED BY <1>3, <1>7, <1>12, <3>1, <3>2 DEF IdsIn
  <2> QED BY <1>1, <1>3, <2>1, <2>2, <2>3 DEF Logged
<1>14. CASE ~same
  <2>1. x.journal = K
    BY <1>1, <1>14
  <2>2. Len(K) = n + 1 /\ Agree(J, K, n) /\ K[n + 1] = e
    BY <1>2, <1>11, AppendFacts DEF n
  <2> HIDE DEF K
  <2>3. FaithfulAt(K, n + 1, W)
    <3>1. \A l \in 1 .. n : SightAt(K, l, id) => K[l].urn = r
      BY <1>5, <2>2 DEF Agree, SightAt
    <3>2. id # 0
      BY <1>4
    <3> QED BY <1>2, <1>9, <2>2, <3>1, <3>2, SightFaithful
  <2>4. Chained(K, n + 1)
    BY <1>9, <2>2 DEF Chained
  <2>5. JournalFaithful(K, W)
    BY <1>2, <1>3, <1>11, <2>3, <2>4, AppendFaithful DEF K, n
  <2>6. HeadsIn(d.head, K)
    BY <1>2, <1>3, <1>9, <1>11, HeadsStayIn DEF K
  <2>7. RowsIn(x.observations, K)
    <3> SUFFICES ASSUME NEW s \in Records, x.observations[s] # None
                 PROVE LastSight(K, n + 1, x.observations[s].id, s,
                                 x.observations[s].fingerprint, x.observations[s].present)
      BY <2>2 DEF RowsIn
    <3>1. CASE s = r
      <4>1. SightAt(K, n + 1, id)
        BY <1>9, <2>2 DEF SightAt
      <4>2. LastSight(K, n + 1, id, e.urn, e.fingerprint, e.present)
        BY <1>2, <2>2, <4>1, LastSightNext
      <4> QED BY <1>7, <1>9, <1>12, <3>1, <4>2
    <3>2. CASE s # r
      <4>1. x.observations[s] = d.observations[s] /\ d.observations[s].id # id
        BY <1>6, <1>12, <3>2
      <4>2. LastSight(J, n, d.observations[s].id, s, d.observations[s].fingerprint,
                      d.observations[s].present)
        BY <1>3, <4>1 DEF RowsIn, n
      <4>3. LastSight(K, n, d.observations[s].id, s, d.observations[s].fingerprint,
                      d.observations[s].present)
        BY <1>2, <2>2, <4>2, AgreeFacts
      <4>4. ~SightAt(K, n + 1, d.observations[s].id)
        BY <1>9, <2>2, <4>1 DEF SightAt
      <4> QED BY <1>2, <4>1, <4>3, <4>4, LastSightNext
    <3> QED BY <3>1, <3>2
  <2>8. IdsIn(x.observations, x.lastId, K)
    <3>1. \A i \in 1 .. d.lastId : i \in 1 .. x.lastId
      BY <1>2, <1>4
    <3>2. id \in 1 .. x.lastId
      BY <1>4
    <3>3. \A k \in 1 .. n + 1 : (k \in 1 .. n /\ K[k] = J[k]) \/ (k = n + 1 /\ K[k] = e)
      BY <1>2, <2>2 DEF Agree
    <3>4. \A s \in Records : x.observations[s] # None => x.observations[s].id \in 1 .. x.lastId
      BY <1>3, <1>7, <1>12, <3>1, <3>2 DEF IdsIn
    <3>5. \A k \in 1 .. Len(K) : K[k].op = "observation" => K[k].id \in 1 .. x.lastId
      BY <1>3, <1>9, <2>2, <3>1, <3>2, <3>3 DEF IdsIn, n
    <3> QED BY <3>4, <3>5 DEF IdsIn
  <2> QED BY <1>1, <2>1, <2>5, <2>6, <2>7, <2>8 DEF Logged
<1> QED BY <1>10, <1>13, <1>14

\* A sighting of an observation (observe_many).
LEMMA SightingLogged ==
  ASSUME NEW d \in Database, NEW W, Logged(d, W), NEW x, NEW r \in Records, NEW at \in Nat,
         d.observations[r] # None, Stamped(d, x, r, at),
         <<r, SightedContent(d.observations[r].fingerprint, d.observations[r].present), at>> \in W
  PROVE  Logged(x, W)
<1> DEFINE o == d.observations[r]
           row == [o EXCEPT !.seen = Later(o.seen, at)]
           e == [op |-> "observation_refresh", id |-> o.id, at |-> at]
           J == d.journal
           K == Append(J, e)
           n == Len(J)
<1>1. /\ x.head = d.head /\ x.lastId = d.lastId /\ x.journal = K
      /\ x.observations = [d.observations EXCEPT ![r] = row]
  BY DEF Stamped
<1>2. J \in Seq(Event) /\ DOMAIN d.observations = Records /\ n \in Nat
  BY DEF Database
<1>3. /\ JournalFaithful(J, W) /\ HeadsIn(d.head, J) /\ RowsIn(d.observations, J)
      /\ IdsIn(d.observations, d.lastId, J)
  BY DEF Logged
<1>4. o \in Observation
  BY HeadTypes
<1>5. o.id \in Nat /\ o.fingerprint \in Contents /\ o.present \in Presence
      /\ row.id = o.id /\ row.fingerprint = o.fingerprint /\ row.present = o.present
  BY <1>4 DEF Observation
<1>6. e.op = "observation_refresh" /\ e.id = o.id /\ e.at = at
  OBVIOUS
<1>7. e \in Event
  <2> HIDE DEF o
  <2> QED BY <1>5, EventTypes
<1>8. LastSight(J, n, o.id, r, o.fingerprint, o.present)
  BY <1>3 DEF RowsIn
<1>9. <<r, SightedContent(o.fingerprint, o.present), at>> \in W
  OBVIOUS
<1> HIDE DEF row, e, J, n, o
<1>10. \A s \in Records : /\ x.observations[s] # None <=> d.observations[s] # None
                          /\ x.observations[s] # None =>
                               /\ x.observations[s].id = d.observations[s].id
                               /\ x.observations[s].fingerprint = d.observations[s].fingerprint
                               /\ x.observations[s].present = d.observations[s].present
  <2>1. ASSUME NEW s \in Records \ {r} PROVE x.observations[s] = d.observations[s]
    BY <1>1, <1>2
  <2>2. x.observations[r] = row
    BY <1>1, <1>2
  <2>3. row # None
    <3>1. row \in Observation
      <4>1. Later(o.seen, at) \in Nat
        BY <1>4 DEF Observation, Later
      <4> QED BY <1>4, <4>1 DEF Observation, row
    <3> QED BY <3>1, NoneAssumption
  <2> QED BY <1>5, <2>1, <2>2, <2>3 DEF o
<1>11. Len(K) = n + 1 /\ Agree(J, K, n) /\ K[n + 1] = e
  BY <1>2, <1>7, AppendFacts DEF n
<1>12. RowsIn(x.observations, J) /\ IdsIn(x.observations, d.lastId, J)
  <2>1. RowsIn(x.observations, J)
    BY <1>3, <1>10 DEF RowsIn
  <2>2. IdsIn(x.observations, d.lastId, J)
    BY <1>3, <1>10 DEF IdsIn
  <2> QED BY <2>1, <2>2
<1>13. HeadsIn(d.head, K) /\ RowsIn(x.observations, K) /\ IdsIn(x.observations, d.lastId, K)
  BY <1>2, <1>3, <1>6, <1>7, <1>12, HeadsStayIn, RowsStayIn, IdsStayIn
<1> HIDE DEF K
<1>14. FaithfulAt(K, n + 1, W)
  <2>1. LastSight(K, n, o.id, r, o.fingerprint, o.present)
    BY <1>2, <1>8, <1>11, AgreeFacts
  <2> QED BY <1>2, <1>5, <1>6, <1>9, <1>11, <2>1, SightingFaithful
<1>15. Chained(K, n + 1)
  BY <1>6, <1>11 DEF Chained
<1>16. JournalFaithful(K, W)
  BY <1>2, <1>3, <1>7, <1>14, <1>15, AppendFaithful DEF K, n
<1> QED BY <1>1, <1>13, <1>16 DEF Logged

(* What a producer does to its journal. *************************************)

\* K is J with more events, all of one time.
Grows(J, K, at) ==
  /\ Len(J) <= Len(K) /\ Agree(J, K, Len(J))
  /\ \A k \in Len(J) + 1 .. Len(K) : K[k].at = at

LEMMA AppendGrows ==
  ASSUME NEW J \in Seq(Event), NEW e \in Event
  PROVE  Grows(J, Append(J, e), e.at)
<1> DEFINE K == Append(J, e)
<1>1. Len(J) \in Nat /\ Len(K) = Len(J) + 1 /\ Agree(J, K, Len(J)) /\ K[Len(J) + 1] = e
  BY AppendFacts
<1> HIDE DEF K
<1>2. \A k \in Len(J) + 1 .. Len(K) : k = Len(J) + 1
  BY <1>1
<1> QED BY <1>1, <1>2 DEF Grows, K

LEMMA GrowsMore ==
  ASSUME NEW J \in Seq(Event), NEW K \in Seq(Event), NEW L \in Seq(Event), NEW at,
         Grows(J, K, at), Grows(K, L, at)
  PROVE  Grows(J, L, at)
<1>1. Len(J) \in Nat /\ Len(K) \in Nat /\ Len(L) \in Nat
  OBVIOUS
<1>2. Len(J) <= Len(K) /\ Len(K) <= Len(L)
  BY DEF Grows
<1>3. \A k \in 1 .. Len(J) : K[k] = J[k] /\ L[k] = K[k]
  BY <1>1, <1>2 DEF Grows, Agree
<1>4. ASSUME NEW k \in Len(J) + 1 .. Len(L) PROVE L[k].at = at
  <2>1. CASE k \in Len(J) + 1 .. Len(K)
    <3>1. L[k] = K[k]
      BY <1>1, <2>1 DEF Grows, Agree
    <3> QED BY <2>1, <3>1 DEF Grows
  <2>2. CASE k \in Len(K) + 1 .. Len(L)
    BY <2>2 DEF Grows
  <2> QED BY <1>1, <1>2, <2>1, <2>2
<1> QED BY <1>1, <1>2, <1>3, <1>4 DEF Grows, Agree

LEMMA GrowsNot ==
  ASSUME NEW J \in Seq(Event), NEW at
  PROVE  Grows(J, J, at)
<1>1. Len(J) \in Nat
  OBVIOUS
<1>2. \A k \in Len(J) + 1 .. Len(J) : FALSE
  BY <1>1
<1> QED BY <1>1, <1>2 DEF Grows, Agree

\* A write of a head and its revision is journaled as such (_upsert, "sync").
LEMMA WrittenLogged ==
  ASSUME NEW d \in Database, NEW W, Logged(d, W), NEW x \in Database, NEW r \in Records,
         NEW v \in Contents, NEW at \in Nat, <<r, v, at>> \in W,
         HeadWritten(d, x, r, v, at), x.observations = d.observations, x.lastId = d.lastId
  PROVE  Logged(x, W) /\ Grows(d.journal, x.journal, at)
<1> DEFINE old == IF d.head[r] = None THEN None ELSE d.head[r].digest
           e   == [op |-> "record", urn |-> r, digest |-> v, at |-> at, previous |-> old]
           j   == Append(d.journal, e)
           y   == [x EXCEPT !.journal = j]
<1>1. /\ x.head = [d.head EXCEPT ![r] =
                     [digest |-> v, at |-> at, body |-> at, tombstoned |-> v \in Tombstones]]
      /\ \/ x.journal = j
         \/ \E s \in Contents \cup {None}, b \in Nat :
              x.journal = Append(j, [op |-> "revision", urn |-> r, digest |-> v,
                                     at |-> at, supersedes |-> s, body |-> b])
  BY DEF HeadWritten
<1>2. DOMAIN d.head = Records /\ d.journal \in Seq(Event)
  BY DEF Database
<1>3. e \in Event
  <2>1. old \in Contents \cup {None}
    BY HeadTypes
  <2> HIDE DEF old
  <2> QED BY <2>1, EventTypes
<1>4. Grows(d.journal, j, at) /\ j \in Seq(Event)
  <2>1. e.at = at
    OBVIOUS
  <2> HIDE DEF e
  <2> QED BY <1>2, <1>3, <2>1, AppendGrows, AppendFacts
<1>5. x.head[r].digest = v /\ \A s \in Records \ {r} : x.head[s] = d.head[s]
  BY <1>1, <1>2
<1>6. /\ y.journal = j /\ y.head = x.head /\ y.observations = x.observations
      /\ y.lastId = x.lastId
  BY DEF Database
<1> HIDE DEF j
<1>7. y \in Database
  BY <1>4 DEF Database
<1> HIDE DEF y
<1>8. Logged(y, W) /\ HeadAt(y.journal, r, at)
  <2>1. HeadJournaled(d, y, r, v, at)
    BY <1>5, <1>6 DEF HeadJournaled, j
  <2> QED BY <2>1, RecordLogged
<1>9. CASE x.journal = j
  BY <1>4, <1>6, <1>8, <1>9 DEF Logged
<1>10. ASSUME NEW s \in Contents \cup {None}, NEW b \in Nat,
              x.journal = Append(j, [op |-> "revision", urn |-> r, digest |-> v,
                                     at |-> at, supersedes |-> s, body |-> b])
       PROVE Logged(x, W) /\ Grows(d.journal, x.journal, at)
  <2> DEFINE f == [op |-> "revision", urn |-> r, digest |-> v, at |-> at, supersedes |-> s,
                   body |-> b]
  <2>1. f \in Event /\ f.at = at
    BY EventTypes
  <2>2. Grows(j, Append(j, f), at) /\ Append(j, f) \in Seq(Event)
    <3> HIDE DEF f
    <3> QED BY <1>4, <2>1, AppendGrows, AppendFacts
  <2>3. Grows(d.journal, x.journal, at)
    BY <1>2, <1>4, <1>10, <2>2, GrowsMore
  <2>4. x.journal = Append(y.journal, [op |-> "revision", urn |-> r, digest |-> v, at |-> at,
                                       supersedes |-> s, body |-> b])
    BY <1>6, <1>10
  <2>5. Logged(x, W)
    BY <1>6, <1>7, <1>8, <2>4, RevisionLogged
  <2> QED BY <2>3, <2>5
<1> QED BY <1>1, <1>9, <1>10 DEF j

LEMMA UpsertLogged ==
  ASSUME NEW d \in Database, NEW W, Logged(d, W), NEW r \in Records, NEW v \in Contents,
         NEW at \in Nat, <<r, v, at>> \in W
  PROVE  LET x == Upsert(d, r, v, at, "sync", {})
         IN Logged(x, W) /\ Grows(d.journal, x.journal, at)
<1> DEFINE x == Upsert(d, r, v, at, "sync", {})
<1>1. /\ x \in Database
      /\ x.observations = d.observations
      /\ x.lastId = d.lastId
      /\ \/ HeadWritten(d, x, r, v, at)
         \/ HeadSeen(d, x, r, at) /\ d.head[r] # None /\ d.head[r].digest = v
         \/ x = d
  BY UpsertDoes
<1>2. d.journal \in Seq(Event)
  BY DEF Database
<1> HIDE DEF x
<1>3. CASE HeadWritten(d, x, r, v, at)
  BY <1>1, <1>3, WrittenLogged DEF x
<1>4. CASE HeadSeen(d, x, r, at) /\ d.head[r] # None /\ d.head[r].digest = v
  <2> DEFINE e == [op |-> "record_refresh", urn |-> r, at |-> at]
  <2>1. e \in Event /\ e.at = at
    BY EventTypes
  <2>2. x.head = d.head /\ x.journal = Append(d.journal, e)
    BY <1>4 DEF HeadSeen
  <2>3. Logged(x, W)
    BY <1>1, <1>4, <2>2, RefreshLogged
  <2> HIDE DEF e
  <2>4. Grows(d.journal, x.journal, at)
    BY <1>2, <2>1, <2>2, AppendGrows
  <2> QED BY <2>3, <2>4 DEF x
<1>5. CASE x = d
  BY <1>2, <1>5, GrowsNot DEF x
<1> QED BY <1>1, <1>3, <1>4, <1>5

\* A sighting of a row is journaled after the row (observe_many).
LEMMA ObserveLogged ==
  ASSUME NEW d \in Database, NEW W, Logged(d, W), NEW r \in Records, NEW v \in Contents,
         NEW at \in Nat, <<r, v, at>> \in W
  PROVE  LET x == Observe(d, r, v, at)
         IN Logged(x, W) /\ Grows(d.journal, x.journal, at)
<1> DEFINE old == d.observations[r]
           same == old # None /\ old.fingerprint = v /\ old.present = "present"
           w == WriteObservation(d, r, v, "present", at)
           y == IF same THEN d ELSE w
           x == StampObservation(y, r, at)
<1>1. Observe(d, r, v, at) = x
  BY DEF Observe
<1>2. d.journal \in Seq(Event)
  BY DEF Database
<1>3. SightedContent(v, "present") = v
  BY DEF SightedContent
<1>4. Observed(d, w, r, v, "present", at)
  BY WriteObservationDoes DEF Presence
<1> HIDE DEF w
<1>5. /\ w \in Database /\ Logged(w, W) /\ Grows(d.journal, w.journal, at)
      /\ w.observations[r] # None /\ w.observations[r].fingerprint = v
      /\ w.observations[r].present = "present"
  <2>1. Logged(w, W)
    BY <1>3, <1>4, ObservationLogged DEF Presence
  <2>2. w \in Database
    BY <1>4 DEF Observed
  <2> DEFINE id == IF old = None THEN d.lastId + 1 ELSE old.id
             e == [op |-> "observation", urn |-> r, id |-> id, fingerprint |-> v,
                   present |-> "present", at |-> at]
             row == [id |-> id, fingerprint |-> v, at |-> at,
                     seen |-> IF old = None THEN 0 ELSE old.seen, present |-> "present"]
  <2>3. (w.journal = d.journal \/ w.journal = Append(d.journal, e))
        /\ w.observations = [d.observations EXCEPT ![r] = row]
    BY <1>4 DEF Observed
  <2>4. e \in Event /\ e.at = at
    <3>1. id \in Nat
      <4>1. old # None => old \in Observation
        BY HeadTypes
      <4>2. d.lastId \in Nat
        BY DEF Database
      <4> QED BY <4>1, <4>2 DEF Observation
    <3> HIDE DEF id
    <3> QED BY <3>1, EventTypes DEF Presence
  <2>5. row.fingerprint = v /\ row.present = "present"
    OBVIOUS
  <2> HIDE DEF e, row
  <2>6. Grows(d.journal, w.journal, at)
    BY <1>2, <2>3, <2>4, AppendGrows, GrowsNot
  <2>7. w.observations[r] = row
    <3>1. DOMAIN d.observations = Records
      BY DEF Database
    <3> QED BY <2>3, <3>1
  <2>8. w.observations[r] # None
    <3>1. row \in Observation
      <4>1. old # None => old \in Observation
        BY HeadTypes
      <4>2. d.lastId \in Nat
        BY DEF Database
      <4> QED BY <4>1, <4>2 DEF Observation, row, Presence
    <3> QED BY <2>7, <3>1, NoneAssumption
  <2> QED BY <2>1, <2>2, <2>5, <2>6, <2>7, <2>8
<1>6. /\ y \in Database /\ Logged(y, W) /\ Grows(d.journal, y.journal, at)
      /\ y.observations[r] # None /\ y.observations[r].fingerprint = v
      /\ y.observations[r].present = "present"
  BY <1>2, <1>5, GrowsNot
<1> HIDE DEF y
<1>7. Stamped(y, x, r, at)
  BY <1>6, StampObservationDoes
<1> HIDE DEF x
<1>8. Logged(x, W)
  <2>1. <<r, SightedContent(y.observations[r].fingerprint, y.observations[r].present), at>> \in W
    BY <1>3, <1>6
  <2> QED BY <1>6, <1>7, <2>1, SightingLogged
<1>9. Grows(d.journal, x.journal, at)
  <2> DEFINE e == [op |-> "observation_refresh", id |-> y.observations[r].id, at |-> at]
  <2>1. x.journal = Append(y.journal, e)
    BY <1>7 DEF Stamped
  <2>2. e \in Event /\ e.at = at
    <3>1. y.observations[r] \in Observation
      BY <1>6, HeadTypes
    <3>2. y.observations[r].id \in Nat
      BY <3>1 DEF Observation
    <3> QED BY <3>2, EventTypes
  <2>3. y.journal \in Seq(Event)
    BY <1>6 DEF Database
  <2> HIDE DEF e
  <2>4. Grows(y.journal, x.journal, at) /\ x.journal \in Seq(Event)
    BY <2>1, <2>2, <2>3, AppendGrows, AppendFacts
  <2> QED BY <1>2, <1>6, <2>3, <2>4, GrowsMore
<1> QED BY <1>1, <1>8, <1>9

\* The transaction of one captured row (sync.py run_sync, capture).
LEMMA CapturedRecorded ==
  ASSUME NEW d, NEW W, Recorded(d, W), NEW r \in Records, NEW v \in Contents, NEW at \in Nat,
         <<r, v, Later(at, d.sighted[r])>> \in W, Witnesses(W, r, v, at, LastOf(d, r))
  PROVE  LET x == Observe(Upsert(d, r, v, at, "sync", {}), r, v, at)
         IN /\ Recorded(x, W) /\ KeepsBindings(d, x) /\ Grows(d.journal, x.journal, at)
            /\ SameHeads(Upsert(d, r, v, at, "sync", {}), x)
<1> DEFINE y == Upsert(d, r, v, at, "sync", {})
           x == Observe(y, r, v, at)
<1>1. Sound(d, W) /\ Logged(d, W) /\ d \in Database /\ <<r, v, at>> \in W
  BY DEF Recorded, Sound, Witnesses
<1>2. Sound(y, W)
  BY <1>1, UpsertSound
<1>3. KeepsBindings(d, y) /\ y.observations = d.observations
  BY <1>1, UpsertDoes
<1>4. Logged(y, W) /\ Grows(d.journal, y.journal, at)
  BY <1>1, UpsertLogged
<1> HIDE DEF y
<1>5. Witnesses(W, r, v, at, LastOf(y, r))
  BY <1>3 DEF LastOf
<1>6. Sound(x, W) /\ KeepsBindings(y, x) /\ SameHeads(y, x)
  BY <1>2, <1>5, ObserveDoes
<1>7. Logged(x, W) /\ Grows(y.journal, x.journal, at)
  BY <1>1, <1>2, <1>4, ObserveLogged DEF Sound
<1> HIDE DEF x
<1>8. d.journal \in Seq(Event) /\ y.journal \in Seq(Event) /\ x.journal \in Seq(Event)
  BY <1>1, <1>2, <1>6 DEF Sound, Database
<1>9. Grows(d.journal, x.journal, at)
  BY <1>4, <1>7, <1>8, GrowsMore
<1> QED BY <1>3, <1>6, <1>7, <1>9 DEF x, y, Recorded, KeepsBindings

LEMMA JoinFacts ==
  ASSUME NEW J \in Seq(Event), NEW G \in Seq(Event)
  PROVE  LET K == J \o G
         IN /\ Len(K) = Len(J) + Len(G) /\ \A i \in 1 .. Len(J) : K[i] = J[i]
            /\ \A i \in 1 .. Len(G) : K[Len(J) + i] = G[i]
OBVIOUS

\* Reconciliation journals one event for every row that it marks (mark_absent).
LEMMA AbsentLogged ==
  ASSUME NEW d \in Database, NEW W, Logged(d, W), NEW x, NEW since \in Nat,
         MarkedAbsent(d, x, since), \A r \in Unseen(d, since) : <<r, None, since>> \in W
  PROVE  Logged(x, W) /\ Grows(d.journal, x.journal, since)
<1> DEFINE rows == SetToSeq(Unseen(d, since))
           G == [i \in 1 .. Len(rows) |-> GoneEvent(d, rows[i], since)]
           J == d.journal
           K == J \o G
           n == Len(J)
           m == Len(rows)
<1>1. /\ x.journal = K /\ x.head = d.head /\ x.lastId = d.lastId
      /\ x.observations = [r \in Records |-> IF r \in Unseen(d, since) THEN GoneRow(d, r, since)
                                            ELSE d.observations[r]]
  BY DEF MarkedAbsent, SameHeads
<1>2. J \in Seq(Event) /\ n \in Nat
  BY DEF Database
<1>3. /\ JournalFaithful(J, W) /\ HeadsIn(d.head, J) /\ RowsIn(d.observations, J)
      /\ IdsIn(d.observations, d.lastId, J)
  BY DEF Logged
<1>4. IsFiniteSet(Unseen(d, since))
  <2>1. Unseen(d, since) \subseteq Records
    BY DEF Unseen
  <2> QED BY <2>1, StoreAssumption, FS_Subset
<1>5. /\ m \in Nat /\ \A i \in 1 .. m : rows[i] \in Unseen(d, since)
      /\ \A i, j \in 1 .. m : rows[i] = rows[j] => i = j
      /\ \A s \in Unseen(d, since) : \E i \in 1 .. m : rows[i] = s
  BY <1>4, SetToSeqBijects
<1>6. \A r \in Unseen(d, since) :
        /\ r \in Records /\ d.observations[r] # None
        /\ GoneEvent(d, r, since) \in Event
        /\ GoneRow(d, r, since).id = d.observations[r].id
        /\ GoneRow(d, r, since).fingerprint = d.observations[r].fingerprint
        /\ GoneRow(d, r, since).present = "absent_from_source"
  BY GoneTypes
<1>7. \A r : /\ GoneEvent(d, r, since).op = "observation"
             /\ GoneEvent(d, r, since).urn = r
             /\ GoneEvent(d, r, since).id = d.observations[r].id
             /\ GoneEvent(d, r, since).fingerprint = d.observations[r].fingerprint
             /\ GoneEvent(d, r, since).present = "absent_from_source"
             /\ GoneEvent(d, r, since).at = since
  BY DEF GoneEvent
<1> HIDE DEF rows
<1>8. Len(K) = n + m /\ Agree(J, K, n)
      /\ \A i \in 1 .. m : K[n + i] = GoneEvent(d, rows[i], since)
  <2>1. G \in Seq(Event) /\ Len(G) = m /\ \A i \in 1 .. m : G[i] = GoneEvent(d, rows[i], since)
    BY <1>5, <1>6
  <2> HIDE DEF G, J, m
  <2>2. /\ Len(K) = Len(J) + Len(G) /\ \A i \in 1 .. Len(J) : K[i] = J[i]
        /\ \A i \in 1 .. Len(G) : K[Len(J) + i] = G[i]
    BY <1>2, <2>1, JoinFacts
  <2> HIDE DEF K
  <2> QED BY <2>1, <2>2 DEF Agree
<1> HIDE DEF K, n, J, m, G
<1>9. \A k \in 1 .. n + m : (k \in 1 .. n /\ K[k] = J[k])
        \/ (k - n \in 1 .. m /\ k = n + (k - n) /\ K[k] = GoneEvent(d, rows[k - n], since))
  <2> TAKE k \in 1 .. n + m
  <2>1. k \in 1 .. n => K[k] = J[k]
    BY <1>8 DEF Agree
  <2>2. k \notin 1 .. n => k - n \in 1 .. m /\ k = n + (k - n)
    BY <1>2, <1>5
  <2>3. k \notin 1 .. n => K[n + (k - n)] = GoneEvent(d, rows[k - n], since)
    BY <1>8, <2>2
  <2> QED BY <2>1, <2>2, <2>3
\* Two events of one id are of one record.
<1>10. ASSUME NEW k \in 1 .. n + m, NEW r \in Records, d.observations[r] # None,
              SightAt(K, k, d.observations[r].id)
       PROVE K[k].urn = r
  <2>1. CASE k \in 1 .. n /\ K[k] = J[k]
    BY <1>10, <2>1, OneUrn DEF SightAt, J, n
  <2>2. CASE k - n \in 1 .. m /\ K[k] = GoneEvent(d, rows[k - n], since)
    BY <1>5, <1>6, <1>7, <1>10, <2>2, OneUrn DEF SightAt
  <2> QED BY <1>9, <2>1, <2>2
<1>11. JournalFaithful(K, W)
  <2> SUFFICES ASSUME NEW k \in 1 .. n + m PROVE FaithfulAt(K, k, W) /\ Chained(K, k)
    BY <1>8 DEF JournalFaithful
  <2>1. CASE k \in 1 .. n
    BY <1>2, <1>3, <1>8, <2>1, AgreeFacts DEF JournalFaithful, n
  <2>2. CASE k - n \in 1 .. m
    <3> DEFINE r == rows[k - n]
               l == k - 1
    <3>1. r \in Unseen(d, since) /\ r \in Records /\ d.observations[r] # None
      BY <1>5, <1>6, <2>2
    <3>2. K[k] = GoneEvent(d, r, since)
      BY <1>2, <1>5, <1>9, <2>2
    <3>3. l \in Nat /\ l + 1 = k
      BY <1>2, <1>5
    <3>4. d.observations[r].id # 0
      BY <1>3, <3>1 DEF IdsIn
    <3>5. \A q \in 1 .. l : SightAt(K, q, d.observations[r].id) => K[q].urn = r
      <4>1. \A q \in 1 .. l : q \in 1 .. n + m
        BY <1>2, <1>5
      <4> QED BY <1>10, <3>1, <4>1
    <3>6. <<r, SightedContent(d.observations[r].fingerprint, "absent_from_source"), since>> \in W
      BY <3>1 DEF SightedContent
    <3> HIDE DEF r, l
    <3>7. K[l + 1] = GoneEvent(d, r, since)
      BY <3>2, <3>3
    <3>8. FaithfulAt(K, l + 1, W)
      BY <1>7, <3>3, <3>4, <3>5, <3>6, <3>7, SightFaithful
    <3>9. Chained(K, k)
      BY <1>7, <3>2 DEF Chained
    <3> QED BY <3>3, <3>8, <3>9
  <2> QED BY <1>9, <2>1, <2>2
<1>12. HeadsIn(d.head, K)
  <2> SUFFICES ASSUME NEW r \in Records, d.head[r] # None
               PROVE LastRecord(K, n + m, r, d.head[r].digest)
    BY <1>8 DEF HeadsIn
  <2>1. PICK k \in 1 .. n : /\ RecordAt(J, k, r) /\ J[k].digest = d.head[r].digest
                            /\ \A l \in k + 1 .. n : ~RecordAt(J, l, r)
    BY <1>3 DEF HeadsIn, LastRecord, n
  <2>2. k \in 1 .. n + m /\ RecordAt(K, k, r) /\ K[k].digest = d.head[r].digest
    BY <1>2, <1>5, <1>8, <2>1 DEF Agree, RecordAt
  <2>3. ASSUME NEW l \in k + 1 .. n + m PROVE ~RecordAt(K, l, r)
    <3>1. l \in 1 .. n + m
      BY <2>1
    <3>2. CASE l \in 1 .. n /\ K[l] = J[l]
      BY <2>1, <2>3, <3>2 DEF RecordAt
    <3>3. CASE K[l] = GoneEvent(d, rows[l - n], since)
      BY <1>7, <3>3 DEF RecordAt
    <3> QED BY <1>9, <3>1, <3>2, <3>3
  <2> QED BY <2>2, <2>3 DEF LastRecord
<1>13. ASSUME NEW r \in Records, d.observations[r] # None
       PROVE LastSight(K, n + m, d.observations[r].id, r, d.observations[r].fingerprint,
                       IF r \in Unseen(d, since) THEN "absent_from_source"
                       ELSE d.observations[r].present)
  <2> DEFINE i == d.observations[r].id
  <2>1. CASE r \in Unseen(d, since)
    <3>1. PICK j \in 1 .. m : rows[j] = r
      BY <1>5, <2>1
    <3>2. n + j \in 1 .. n + m /\ K[n + j] = GoneEvent(d, r, since)
      BY <1>2, <1>5, <1>8, <3>1
    <3>3. SightAt(K, n + j, i) /\ K[n + j].urn = r
          /\ K[n + j].fingerprint = d.observations[r].fingerprint
          /\ K[n + j].present = "absent_from_source"
      BY <1>7, <3>2 DEF SightAt
    <3>4. ASSUME NEW l \in n + j + 1 .. n + m PROVE ~SightAt(K, l, i)
      <4>1. l \in 1 .. n + m /\ l \notin 1 .. n /\ l - n \in 1 .. m /\ l - n # j
        BY <1>2, <1>5
      <4>2. K[l] = GoneEvent(d, rows[l - n], since)
        BY <1>9, <4>1
      <4>3. rows[l - n] # r
        BY <1>5, <3>1, <4>1
      <4> QED BY <1>7, <1>10, <1>13, <4>1, <4>2, <4>3
    <3> HIDE DEF i
    <3>5. LastSight(K, n + m, i, r, d.observations[r].fingerprint, "absent_from_source")
      BY <3>2, <3>3, <3>4 DEF LastSight
    <3> QED BY <2>1, <3>5 DEF i
  <2>2. CASE r \notin Unseen(d, since)
    <3>1. LastSight(J, n, i, r, d.observations[r].fingerprint, d.observations[r].present)
      BY <1>3, <1>13 DEF RowsIn, n
    <3>2. LastSight(K, n, i, r, d.observations[r].fingerprint, d.observations[r].present)
      BY <1>2, <1>8, <3>1, AgreeFacts
    <3>3. PICK k \in 1 .. n : /\ SightAt(K, k, i) /\ K[k].urn = r
                              /\ K[k].fingerprint = d.observations[r].fingerprint
                              /\ K[k].present = d.observations[r].present
                              /\ \A l \in k + 1 .. n : ~SightAt(K, l, i)
      BY <3>2 DEF LastSight
    <3>4. ASSUME NEW l \in k + 1 .. n + m PROVE ~SightAt(K, l, i)
      <4>1. l \in 1 .. n + m
        BY <1>2, <1>5
      <4>2. CASE l \in 1 .. n
        BY <3>3, <3>4, <4>2
      <4>3. CASE l - n \in 1 .. m /\ K[l] = GoneEvent(d, rows[l - n], since)
        BY <1>5, <1>7, <1>10, <1>13, <2>2, <4>1, <4>3
      <4> QED BY <1>9, <4>1, <4>2, <4>3
    <3>5. k \in 1 .. n + m
      BY <1>2, <1>5
    <3> HIDE DEF i
    <3>6. LastSight(K, n + m, i, r, d.observations[r].fingerprint, d.observations[r].present)
      BY <3>3, <3>4, <3>5 DEF LastSight
    <3> QED BY <2>2, <3>6 DEF i
  <2> QED BY <2>1, <2>2
<1>14. \A r \in Records :
         IF r \in Unseen(d, since)
         THEN /\ x.observations[r] = GoneRow(d, r, since)
              /\ x.observations[r].id = d.observations[r].id
              /\ x.observations[r].fingerprint = d.observations[r].fingerprint
              /\ x.observations[r].present = "absent_from_source"
              /\ d.observations[r] # None
         ELSE x.observations[r] = d.observations[r]
  BY <1>1, <1>6
<1>15. RowsIn(x.observations, K)
  BY <1>8, <1>13, <1>14 DEF RowsIn
<1>16. IdsIn(x.observations, d.lastId, K)
  <2>1. \A r \in Records : x.observations[r] # None => x.observations[r].id \in 1 .. d.lastId
    BY <1>3, <1>14 DEF IdsIn
  <2>2. ASSUME NEW k \in 1 .. n + m, K[k].op = "observation" PROVE K[k].id \in 1 .. d.lastId
    <3>1. CASE k \in 1 .. n /\ K[k] = J[k]
      BY <1>3, <2>2, <3>1 DEF IdsIn, n
    <3>2. CASE k - n \in 1 .. m /\ K[k] = GoneEvent(d, rows[k - n], since)
      BY <1>3, <1>5, <1>6, <1>7, <3>2 DEF IdsIn
    <3> QED BY <1>9, <3>1, <3>2
  <2> QED BY <1>8, <2>1, <2>2 DEF IdsIn
<1>17. Grows(J, K, since)
  <2>1. \A k \in n + 1 .. n + m : K[k].at = since
    <3> TAKE k \in n + 1 .. n + m
    <3>1. k \in 1 .. n + m /\ k \notin 1 .. n
      BY <1>2, <1>5
    <3> QED BY <1>7, <1>9, <3>1
  <2>2. n <= n + m
    BY <1>2, <1>5
  <2> QED BY <1>8, <2>1, <2>2 DEF Grows, n
<1> QED BY <1>1, <1>11, <1>12, <1>15, <1>16, <1>17 DEF Logged, J

LEMMA AbsentRecorded ==
  ASSUME NEW d, NEW W, Recorded(d, W), NEW since \in Nat,
         \A r \in Unseen(d, since) : <<r, None, since>> \in W
  PROVE  LET x == MarkAbsent(d, since)
         IN Recorded(x, W) /\ KeepsBindings(d, x) /\ SameHeads(d, x)
            /\ Grows(d.journal, x.journal, since)
<1> DEFINE x == MarkAbsent(d, since)
<1>1. Sound(d, W) /\ Logged(d, W) /\ d \in Database
  BY DEF Recorded, Sound
<1>2. MarkedAbsent(d, x, since)
  BY <1>1, MarkAbsentDoes
<1> HIDE DEF x
<1>3. Sound(x, W)
  BY <1>1, <1>2, MarkedAbsentSound
<1>4. Logged(x, W) /\ Grows(d.journal, x.journal, since)
  BY <1>1, <1>2, AbsentLogged
<1> QED BY <1>2, <1>3, <1>4 DEF x, Recorded, MarkedAbsent

\* A purge journals nothing, and what it leaves is still what the journal says.
LEMMA PurgeRecorded ==
  ASSUME NEW d, NEW W, Recorded(d, W), NEW r \in Records
  PROVE  Recorded(Purge(d, r), W) /\ Purge(d, r).journal = d.journal
<1> DEFINE x == Purge(d, r)
<1>1. Sound(d, W) /\ Logged(d, W) /\ d \in Database
  BY DEF Recorded, Sound
<1>2. x.journal = d.journal /\ x.lastId = d.lastId
      /\ x.head = [d.head EXCEPT ![r] = None]
      /\ x.observations = [d.observations EXCEPT ![r] = None]
  BY <1>1, PurgeDoes
<1>3. Sound(x, W)
  BY <1>1, PurgeSound
<1> HIDE DEF x
<1>4. DOMAIN d.head = Records /\ DOMAIN d.observations = Records
  BY <1>1 DEF Database
<1>5. \A s \in Records : /\ x.head[s] = d.head[s] \/ x.head[s] = None
                         /\ x.observations[s] = d.observations[s] \/ x.observations[s] = None
  BY <1>2, <1>4
<1>6. HeadsIn(x.head, x.journal)
  BY <1>1, <1>2, <1>5 DEF Logged, HeadsIn
<1>7. RowsIn(x.observations, x.journal)
  BY <1>1, <1>2, <1>5 DEF Logged, RowsIn
<1>8. IdsIn(x.observations, x.lastId, x.journal)
  BY <1>1, <1>2, <1>5 DEF Logged, IdsIn
<1> QED BY <1>1, <1>2, <1>3, <1>6, <1>7, <1>8 DEF Recorded, Logged, x

LEMMA EmptyRecorded ==
  /\ EmptyDatabase \in Database
  /\ \A W : Recorded(EmptyDatabase, W)
  /\ \A J : Bindings(EmptyDatabase, J, 0)
<1> DEFINE d == EmptyDatabase
<1>1. d \in Database
  BY DEF EmptyDatabase, Database
<1>2. /\ d.head = [r \in Records |-> None] /\ d.sighted = [r \in Records |-> 0]
      /\ d.observations = [r \in Records |-> None] /\ d.bound = [r \in Records |-> None]
      /\ d.journal = <<>> /\ d.evidence = <<>> /\ d.eligible = {} /\ d.eligibleIds = {}
      /\ d.lastId = 0
  BY DEF EmptyDatabase
<1> HIDE DEF d
<1>3. ASSUME NEW W PROVE Sound(d, W)
  <2>1. Fresh(d, W)
    BY <1>2 DEF Fresh
  <2>2. RecordsIndexed(d)
    BY <1>2 DEF RecordsIndexed, HeadMatches
  <2>3. EvidenceIndexed(d)
    BY <1>2 DEF EvidenceIndexed
  <2> QED BY <1>1, <2>1, <2>2, <2>3 DEF Sound
<1>4. ASSUME NEW W PROVE Logged(d, W)
  BY <1>2 DEF Logged, JournalFaithful, HeadsIn, RowsIn, IdsIn
<1>5. ASSUME NEW J PROVE Bindings(d, J, 0)
  BY <1>2 DEF Bindings
<1> QED BY <1>1, <1>3, <1>4, <1>5 DEF Recorded, d

\* What was witnessed stays witnessed.
LEMMA RecordedWider ==
  ASSUME NEW W, NEW V, W \subseteq V
  PROVE  /\ \A d : Sound(d, W) => Sound(d, V)
         /\ \A J, k : FaithfulAt(J, k, W) => FaithfulAt(J, k, V)
         /\ \A d : Recorded(d, W) => Recorded(d, V)
<1>1. ASSUME NEW d, Sound(d, W) PROVE Sound(d, V)
  BY <1>1 DEF Sound, Fresh
<1>2. ASSUME NEW J, NEW k, FaithfulAt(J, k, W) PROVE FaithfulAt(J, k, V)
  BY <1>2 DEF FaithfulAt
<1>3. ASSUME NEW d, Recorded(d, W) PROVE Recorded(d, V)
  BY <1>1, <1>2, <1>3 DEF Recorded, Logged, JournalFaithful
<1> QED BY <1>1, <1>2, <1>3

(* The order of heads and revisions. ****************************************)

InTimeOrder(J) == \A k \in 1 .. Len(J) : \A l \in 1 .. k : J[l].at <= J[k].at

HasConflict(d, r) == \E k \in d.conflicts : k.urn = r

\* No head event is later than the head, and no revision; while there is no head, no
\* revision is later than the last event.  S is the set of records that are exempt.
Rank(d, r, J, n, S) ==
  /\ d.head[r] # None /\ ~HasConflict(d, r) =>
       \A k \in 1 .. n : RecordAt(J, k, r) => J[k].at <= EffectiveTime(d, r)
  /\ r \notin S => \A v \in Contents : d.revisions[r][v] # None =>
       IF d.head[r] = None THEN \E k \in 1 .. n : d.revisions[r][v].at <= J[k].at
       ELSE HasConflict(d, r) \/ d.revisions[r][v].at <= EffectiveTime(d, r)

Ranked(d, J, n, S) == \A r \in Records : Rank(d, r, J, n, S)

RevisionsBy(d, t) ==
  \A r \in Records, v \in Contents : d.revisions[r][v] # None => d.revisions[r][v].at <= t

LEMMA RevisionTypes ==
  ASSUME NEW d \in Database, NEW r \in Records, NEW v \in Contents, d.revisions[r][v] # None
  PROVE  d.revisions[r][v].at \in Nat
<1>1. d.revisions[r][v] \in Revision
  BY DEF Database
<1> QED BY <1>1 DEF Revision

\* The record is left alone, or only seen again, and no head event is new to it.
LEMMA RankGrows ==
  ASSUME NEW d \in Database, NEW x \in Database, NEW r \in Records, NEW J \in Seq(Event),
         NEW n \in Nat, NEW m \in Nat, n <= m, NEW S, NEW T, S \subseteq T, Rank(d, r, J, n, S),
         m <= Len(J),
         d.head[r] = None <=> x.head[r] = None,
         d.head[r] # None => EffectiveTime(x, r) >= EffectiveTime(d, r),
         \A v \in Contents : x.revisions[r][v] = d.revisions[r][v],
         HasConflict(d, r) => HasConflict(x, r),
         x.head[r] # None /\ ~HasConflict(x, r) =>
           \A k \in n + 1 .. m : RecordAt(J, k, r) => J[k].at <= EffectiveTime(x, r)
  PROVE  Rank(x, r, J, m, T)
<1>1. ASSUME x.head[r] # None, ~HasConflict(x, r), NEW k \in 1 .. m, RecordAt(J, k, r)
      PROVE J[k].at <= EffectiveTime(x, r)
  <2>1. CASE k \in n + 1 .. m
    BY <1>1, <2>1
  <2>2. CASE k \in 1 .. n
    <3>1. J[k].at <= EffectiveTime(d, r)
      BY <1>1, <2>2 DEF Rank
    <3>2. J[k].at \in Nat /\ EffectiveTime(d, r) \in Nat /\ EffectiveTime(x, r) \in Nat
      BY <1>1, EventFields, HeadTypes
    <3> QED BY <1>1, <3>1, <3>2
  <2> QED BY <2>1, <2>2
<1>2. ASSUME r \notin T, NEW v \in Contents, x.revisions[r][v] # None
      PROVE IF x.head[r] = None THEN \E k \in 1 .. m : x.revisions[r][v].at <= J[k].at
            ELSE HasConflict(x, r) \/ x.revisions[r][v].at <= EffectiveTime(x, r)
  <2>1. /\ x.revisions[r][v] = d.revisions[r][v] /\ d.revisions[r][v].at \in Nat
        /\ IF d.head[r] = None THEN \E k \in 1 .. n : d.revisions[r][v].at <= J[k].at
           ELSE HasConflict(d, r) \/ d.revisions[r][v].at <= EffectiveTime(d, r)
    BY <1>2, RevisionTypes DEF Rank
  <2>2. CASE d.head[r] = None
    BY <2>1, <2>2
  <2>3. CASE d.head[r] # None
    <3>1. EffectiveTime(d, r) \in Nat /\ EffectiveTime(x, r) \in Nat
      BY <2>3, HeadTypes
    <3> QED BY <2>1, <2>3, <3>1
  <2> QED BY <2>2, <2>3
<1> QED BY <1>1, <1>2 DEF Rank

\* A head event keeps the order, whatever it does to the head (_upsert, "import").
LEMMA RecordRanked ==
  ASSUME NEW d \in Database, NEW x \in Database, NEW J \in Seq(Event), NEW n \in Nat,
         n + 1 \in 1 .. Len(J), NEW S, Ranked(d, J, n, S), InTimeOrder(J),
         Effect(d, x, J[n + 1]), J[n + 1].op = "record"
  PROVE  Ranked(x, J, n + 1, S)
<1> DEFINE e == J[n + 1]
           r == e.urn
           v == e.digest
           at == e.at
           y == Imported(d, e)
<1>1. e.op = "record" /\ r \in Records /\ v \in Contents /\ at \in Nat
  BY EventFields
<1>2. x.head = y.head /\ x.sighted = y.sighted /\ x.revisions = y.revisions
      /\ x.conflicts = y.conflicts
  BY DEF Effect, SameHeads
<1>3. \A k \in 1 .. n + 1 : J[k].at <= at /\ J[k].at \in Nat
  BY EventFields DEF InTimeOrder
<1>4. \/ /\ HeadWritten(d, y, r, v, at)
         /\ d.head[r] # None => at >= EffectiveTime(d, r)
      \/ /\ HeadSeen(d, y, r, at)
         /\ d.head[r] # None /\ at >= EffectiveTime(d, r)
      \/ /\ HeadKept(d, y, r, v, at)
         /\ d.head[r] # None
         /\ (\E k \in y.conflicts : k.urn = r) \/ at < EffectiveTime(d, r)
  <2> HIDE DEF e
  <2> QED BY <1>1, UpsertDoes DEF Imported
<1>5. \A s \in Records \ {r} : ~RecordAt(J, n + 1, s)
  BY DEF RecordAt
<1>6. DOMAIN d.head = Records /\ DOMAIN d.sighted = Records
  BY DEF Database
<1> HIDE DEF e, y, r, v, at
\* Another record.
<1>7. ASSUME NEW s \in Records \ {r}, x.head[s] = d.head[s], x.sighted[s] = d.sighted[s],
             \A w \in Contents : x.revisions[s][w] = d.revisions[s][w],
             HasConflict(d, s) => HasConflict(x, s)
      PROVE Rank(x, s, J, n + 1, S)
  <2>1. EffectiveTime(x, s) = EffectiveTime(d, s)
    BY <1>7 DEF EffectiveTime
  <2>2. d.head[s] # None => EffectiveTime(d, s) \in Nat
    BY HeadTypes
  <2>3. \A k \in n + 1 .. n + 1 : ~RecordAt(J, k, s)
    BY <1>5
  <2>4. Rank(d, s, J, n, S)
    BY DEF Ranked
  <2> QED BY <1>7, <2>1, <2>2, <2>3, <2>4, RankGrows
\* The revisions of any other record.
<1>8. ASSUME RevisionAdded(d, y, r, v, at), NEW s \in Records \ {r}, NEW w \in Contents
      PROVE x.revisions[s][w] = d.revisions[s][w]
  BY <1>2, <1>8 DEF RevisionAdded
<1>9. CASE HeadWritten(d, y, r, v, at) /\ (d.head[r] # None => at >= EffectiveTime(d, r))
  <2>1. /\ x.head = [d.head EXCEPT ![r] =
                       [digest |-> v, at |-> at, body |-> at, tombstoned |-> v \in Tombstones]]
        /\ x.sighted = d.sighted /\ x.conflicts = d.conflicts
        /\ RevisionAdded(d, y, r, v, at)
    BY <1>2, <1>9 DEF HeadWritten
  <2>2. \A s \in Records \ {r} : Rank(x, s, J, n + 1, S)
    BY <1>6, <1>7, <1>8, <2>1 DEF HasConflict
  <2>3. x.head[r] = [digest |-> v, at |-> at, body |-> at, tombstoned |-> v \in Tombstones]
    BY <1>1, <1>6, <2>1
  <2>4. x.head[r] # None
    <3>1. x.head[r] \in HeadRow
      BY <1>1, <2>3 DEF HeadRow
    <3> QED BY <3>1, NoneAssumption
  <2>5. EffectiveTime(x, r) >= at /\ EffectiveTime(x, r) \in Nat
    <3>1. x.head[r].at = at
      BY <2>3
    <3> QED BY <1>1, <2>4, <3>1, HeadTypes
  <2>6. ASSUME NEW k \in 1 .. n + 1 PROVE J[k].at <= EffectiveTime(x, r)
    BY <1>1, <1>3, <2>5
  <2>7. ASSUME r \notin S, NEW w \in Contents, x.revisions[r][w] # None, ~HasConflict(x, r)
        PROVE x.revisions[r][w].at <= EffectiveTime(x, r)
    <3>1. x.revisions[r][w] = d.revisions[r][w] \/ x.revisions[r][w].at = at
      BY <1>1, <1>2, <2>1 DEF RevisionAdded
    <3>2. CASE x.revisions[r][w].at = at
      BY <2>5, <3>2
    <3>3. CASE x.revisions[r][w] = d.revisions[r][w]
      <4> DEFINE t == d.revisions[r][w].at
      <4>1. t \in Nat
        BY <1>1, <2>7, <3>3, RevisionTypes
      <4>2. ~HasConflict(d, r)
        BY <2>1, <2>7 DEF HasConflict
      <4>3. IF d.head[r] = None THEN \E k \in 1 .. n : t <= J[k].at
            ELSE t <= EffectiveTime(d, r)
        BY <1>1, <2>7, <3>3, <4>2 DEF Ranked, Rank
      <4>4. t <= at
        <5>1. CASE d.head[r] = None
          <6>1. PICK k \in 1 .. n : t <= J[k].at
            BY <4>3, <5>1
          <6>2. k \in 1 .. n + 1
            OBVIOUS
          <6>3. J[k].at <= at /\ J[k].at \in Nat
            BY <1>3, <6>2
          <6> HIDE DEF t
          <6> QED BY <1>1, <4>1, <6>1, <6>3
        <5>2. CASE d.head[r] # None
          <6>1. EffectiveTime(d, r) \in Nat /\ at >= EffectiveTime(d, r)
            BY <1>1, <1>9, <5>2, HeadTypes
          <6> HIDE DEF t
          <6> QED BY <1>1, <4>1, <4>3, <5>2, <6>1
        <5> QED BY <5>1, <5>2
      <4> QED BY <1>1, <2>5, <3>3, <4>1, <4>4
    <3> QED BY <3>1, <3>2, <3>3
  <2>8. Rank(x, r, J, n + 1, S)
    BY <2>4, <2>6, <2>7 DEF Rank
  <2> QED BY <2>2, <2>8 DEF Ranked
<1>10. CASE HeadSeen(d, y, r, at) /\ d.head[r] # None /\ at >= EffectiveTime(d, r)
  <2>1. /\ x.head = d.head /\ x.sighted = [d.sighted EXCEPT ![r] = Later(@, at)]
        /\ x.conflicts = d.conflicts /\ x.revisions = d.revisions
    BY <1>2, <1>10 DEF HeadSeen
  <2>2. \A s \in Records \ {r} : Rank(x, s, J, n + 1, S)
    BY <1>6, <1>7, <2>1 DEF HasConflict
  <2>3. x.sighted[r] = Later(d.sighted[r], at)
    BY <1>1, <1>6, <2>1
  <2>4. x.sighted[r] >= at /\ EffectiveTime(x, r) >= x.sighted[r] /\ x.sighted[r] \in Nat
        /\ EffectiveTime(x, r) \in Nat /\ EffectiveTime(d, r) \in Nat /\ d.sighted[r] \in Nat
    <3>1. d.sighted[r] \in Nat /\ EffectiveTime(d, r) \in Nat
      BY <1>1, <1>10, HeadTypes
    <3>2. x.sighted[r] \in Nat /\ EffectiveTime(x, r) \in Nat
          /\ EffectiveTime(x, r) >= x.sighted[r]
      BY <1>1, <1>10, <2>1, HeadTypes
    <3>3. x.sighted[r] >= at
      <4>1. d.sighted[r] \in Nat /\ at \in Nat
        BY <1>1, <3>1
      <4> HIDE DEF at
      <4>2. Later(d.sighted[r], at) >= at
        BY <4>1, LaterFacts
      <4> QED BY <2>3, <4>2
    <3> QED BY <3>1, <3>2, <3>3
  <2>5. EffectiveTime(x, r) >= at /\ EffectiveTime(x, r) >= EffectiveTime(d, r)
    BY <1>1, <1>10, <2>4
  <2>6. \A k \in n + 1 .. n + 1 : J[k].at <= EffectiveTime(x, r)
    BY <1>1, <1>3, <2>4, <2>5
  <2>7. Rank(d, r, J, n, S)
    BY <1>1 DEF Ranked
  <2>8. Rank(x, r, J, n + 1, S)
    BY <1>1, <2>1, <2>5, <2>6, <2>7, RankGrows DEF HasConflict
  <2> QED BY <2>2, <2>8 DEF Ranked
<1>11. CASE HeadKept(d, y, r, v, at) /\ d.head[r] # None
            /\ ((\E k \in y.conflicts : k.urn = r) \/ at < EffectiveTime(d, r))
  <2>1. /\ x.head = d.head /\ x.sighted = d.sighted
        /\ \/ x.conflicts = d.conflicts /\ x.revisions = d.revisions
           \/ d.conflicts \subseteq x.conflicts /\ HasConflict(x, r)
              /\ RevisionAdded(d, y, r, v, at)
        /\ HasConflict(x, r) \/ at < EffectiveTime(d, r)
    BY <1>2, <1>11 DEF HeadKept, HasConflict
  <2>2. \A s \in Records \ {r} : Rank(x, s, J, n + 1, S)
    BY <1>7, <1>8, <2>1 DEF HasConflict
  <2>3. CASE HasConflict(x, r)
    <3>1. Rank(x, r, J, n + 1, S)
      BY <1>11, <2>1, <2>3 DEF Rank
    <3> QED BY <2>2, <3>1 DEF Ranked
  <2>4. CASE ~HasConflict(x, r)
    <3>1. x.conflicts = d.conflicts /\ x.revisions = d.revisions /\ at < EffectiveTime(d, r)
      BY <2>1, <2>4
    <3>2. EffectiveTime(x, r) = EffectiveTime(d, r)
      BY <2>1 DEF EffectiveTime
    <3>3. EffectiveTime(d, r) \in Nat
      BY <1>1, <1>11, HeadTypes
    <3>4. \A k \in n + 1 .. n + 1 : J[k].at <= EffectiveTime(x, r)
      BY <1>1, <1>3, <3>1, <3>2, <3>3
    <3>5. Rank(d, r, J, n, S)
      BY <1>1 DEF Ranked
    <3>6. Rank(x, r, J, n + 1, S)
      BY <1>1, <2>1, <3>1, <3>2, <3>3, <3>4, <3>5, RankGrows DEF HasConflict
    <3> QED BY <2>2, <3>6 DEF Ranked
  <2> QED BY <2>3, <2>4
<1> QED BY <1>4, <1>9, <1>10, <1>11

\* So does a revision event, which follows the head event of its time (_add_revision).
LEMMA RevisionRanked ==
  ASSUME NEW d \in Database, NEW x \in Database, NEW J \in Seq(Event), NEW n \in Nat,
         n + 1 \in 1 .. Len(J), NEW S, Ranked(d, J, n, S), Chained(J, n + 1),
         Effect(d, x, J[n + 1]), J[n + 1].op = "revision"
  PROVE  Ranked(x, J, n + 1, S)
<1> DEFINE e == J[n + 1]
           r == e.urn
           v == e.digest
           at == e.at
<1>1. e.op = "revision" /\ r \in Records /\ v \in Contents /\ at \in Nat
      /\ e.supersedes \in Contents \cup {None} /\ e.body \in Nat
  BY EventFields
<1>2. PICK l \in 1 .. n : RecordAt(J, l, r) /\ J[l].at = at
  <2> DEFINE k == n + 1
  <2>1. k - 1 = n
    OBVIOUS
  <2>2. Chained(J, k) /\ J[k].op = "revision"
    OBVIOUS
  <2> HIDE DEF k
  <2>3. \E l \in 1 .. k - 1 : RecordAt(J, l, J[k].urn) /\ J[l].at = J[k].at
    BY <2>2 DEF Chained
  <2> QED BY <2>1, <2>3 DEF k
<1>3. Revised(d, x, r, v, at, e.supersedes, e.body)
  BY <1>1 DEF Effect
<1>4. \A s \in Records : ~RecordAt(J, n + 1, s)
  BY DEF RecordAt
<1> HIDE DEF e, r, v, at
<1>5. RevisionAdded(d, x, r, v, at)
  BY <1>1, <1>3, RevisedAdds
<1>6. x.head = d.head /\ x.sighted = d.sighted /\ x.conflicts = d.conflicts
  BY <1>3 DEF Revised, SameRows
<1>7. \A s : EffectiveTime(x, s) = EffectiveTime(d, s) /\ (HasConflict(x, s) <=> HasConflict(d, s))
  BY <1>6 DEF EffectiveTime, HasConflict
<1>8. \A k \in 1 .. n + 1 : k \in 1 .. n \/ k = n + 1
  OBVIOUS
<1>9. ASSUME NEW s \in Records PROVE Rank(x, s, J, n + 1, S)
  <2>1. Rank(d, s, J, n, S)
    BY DEF Ranked
  <2>2. ASSUME x.head[s] # None, ~HasConflict(x, s), NEW k \in 1 .. n + 1, RecordAt(J, k, s)
        PROVE J[k].at <= EffectiveTime(x, s)
    BY <1>4, <1>6, <1>7, <1>8, <2>1, <2>2 DEF Rank
  <2>3. ASSUME s \notin S, NEW w \in Contents, x.revisions[s][w] # None
        PROVE IF x.head[s] = None THEN \E k \in 1 .. n + 1 : x.revisions[s][w].at <= J[k].at
              ELSE HasConflict(x, s) \/ x.revisions[s][w].at <= EffectiveTime(x, s)
    <3>1. CASE x.revisions[s][w] = d.revisions[s][w]
      BY <1>6, <1>7, <1>8, <2>1, <2>3, <3>1 DEF Rank
    <3>2. CASE s = r /\ x.revisions[s][w].at = at
      <4>1. CASE x.head[s] = None
        <5>1. J[l].at <= J[l].at /\ l \in 1 .. n + 1
          BY <1>1, <1>2
        <5> QED BY <1>2, <3>2, <4>1, <5>1
      <4>2. CASE x.head[s] # None
        BY <1>2, <1>6, <1>7, <2>1, <3>2, <4>2 DEF Rank
      <4> QED BY <4>1, <4>2
    <3> QED BY <1>5, <3>1, <3>2 DEF RevisionAdded
  <2> QED BY <2>2, <2>3 DEF Rank
<1> QED BY <1>9 DEF Ranked

\* Whatever the next event is, the order is kept.
LEMMA EventRanked ==
  ASSUME NEW d \in Database, NEW x \in Database, NEW J \in Seq(Event), NEW n \in Nat,
         n + 1 \in 1 .. Len(J), NEW S, Ranked(d, J, n, S), InTimeOrder(J), Chained(J, n + 1),
         Effect(d, x, J[n + 1])
  PROVE  Ranked(x, J, n + 1, S)
<1> DEFINE e == J[n + 1]
<1>1. e.op \in {"record", "revision", "record_refresh", "observation", "observation_refresh"}
      /\ e.at \in Nat
  BY EventFields
<1>2. CASE e.op = "record"
  BY <1>2, RecordRanked
<1>3. CASE e.op = "revision"
  BY <1>3, RevisionRanked
<1>4. CASE e.op \in {"record_refresh", "observation", "observation_refresh"}
  <2>1. /\ x.head = d.head /\ x.revisions = d.revisions /\ x.conflicts = d.conflicts
        /\ x.sighted = d.sighted \/ x.sighted = [d.sighted EXCEPT ![e.urn] = Later(@, e.at)]
    BY <1>4 DEF Effect, SameHeads
  <2>2. \A s \in Records : ~RecordAt(J, n + 1, s)
    BY <1>4 DEF RecordAt
  <2> HIDE DEF e
  <2>3. ASSUME NEW s \in Records PROVE Rank(x, s, J, n + 1, S)
    <3>1. x.sighted[s] = d.sighted[s] \/ x.sighted[s] = Later(d.sighted[s], e.at)
      <4>1. DOMAIN d.sighted = Records
        BY DEF Database
      <4> QED BY <2>1, <4>1
    <3>2. x.sighted[s] >= d.sighted[s] /\ x.sighted[s] \in Nat /\ d.sighted[s] \in Nat
      <4>1. d.sighted[s] \in Nat
        BY HeadTypes
      <4> QED BY <1>1, <3>1, <4>1 DEF Later
    <3>3. d.head[s] # None => EffectiveTime(x, s) >= EffectiveTime(d, s)
      <4>1. d.head[s] # None => d.head[s].at \in Nat
        BY HeadTypes
      <4> QED BY <2>1, <3>2, <4>1 DEF EffectiveTime, Later
    <3>4. \A k \in n + 1 .. n + 1 : ~RecordAt(J, k, s)
      BY <2>2
    <3>5. Rank(d, s, J, n, S)
      BY DEF Ranked
    <3>6. HasConflict(d, s) => HasConflict(x, s)
      BY <2>1 DEF HasConflict
    <3> QED BY <2>1, <3>3, <3>4, <3>5, <3>6, RankGrows
  <2> QED BY <2>3 DEF Ranked
<1> QED BY <1>1, <1>2, <1>3, <1>4

\* No revision gets a time that no event has.
LEMMA EventRevisions ==
  ASSUME NEW d \in Database, NEW x \in Database, NEW e \in Event, NEW t \in Nat, e.at <= t,
         RevisionsBy(d, t), Effect(d, x, e)
  PROVE  RevisionsBy(x, t)
<1>1. /\ e.op \in {"record", "revision", "record_refresh", "observation", "observation_refresh"}
      /\ e.at \in Nat
      /\ e.op = "record" => e.urn \in Records /\ e.digest \in Contents
      /\ e.op = "revision" => e.urn \in Records /\ e.digest \in Contents
                              /\ e.supersedes \in Contents \cup {None} /\ e.body \in Nat
  BY EventFields
<1>2. ASSUME NEW y, y.revisions = x.revisions,
             RevisionAdded(d, y, e.urn, e.digest, e.at) \/ y.revisions = d.revisions
      PROVE RevisionsBy(x, t)
  BY <1>2 DEF RevisionsBy, RevisionAdded
<1>3. CASE e.op = "record"
  <2> DEFINE y == Imported(d, e)
  <2>1. \/ HeadWritten(d, y, e.urn, e.digest, e.at)
        \/ HeadSeen(d, y, e.urn, e.at)
        \/ HeadKept(d, y, e.urn, e.digest, e.at)
    BY <1>1, <1>3, UpsertDoes DEF Imported
  <2>2. y.revisions = x.revisions
    BY <1>3 DEF Effect, SameHeads
  <2> HIDE DEF y
  <2>3. RevisionAdded(d, y, e.urn, e.digest, e.at) \/ y.revisions = d.revisions
    BY <2>1 DEF HeadWritten, HeadSeen, HeadKept
  <2> QED BY <1>2, <2>2, <2>3
<1>4. CASE e.op = "revision"
  <2>1. Revised(d, x, e.urn, e.digest, e.at, e.supersedes, e.body)
    BY <1>4 DEF Effect
  <2>2. RevisionAdded(d, x, e.urn, e.digest, e.at)
    BY <1>1, <1>4, <2>1, RevisedAdds
  <2> QED BY <1>2, <2>2
<1>5. CASE e.op \in {"record_refresh", "observation", "observation_refresh"}
  <2>1. x.revisions = d.revisions
    BY <1>5 DEF Effect, SameHeads
  <2> QED BY <1>2, <2>1
<1> QED BY <1>1, <1>3, <1>4, <1>5

\* A head goes only to make room for one whose event says that the producer had the
\* same before (_upsert, "import").
HeadsLast(d, x, J, n) ==
  \A r \in Records : d.head[r] # None =>
    /\ x.head[r] # None
    /\ \/ x.head[r].digest = d.head[r].digest
       \/ \E k \in 1 .. n : RecordAt(J, k, r) /\ J[k].digest = d.head[r].digest

LEMMA EventHeads ==
  ASSUME NEW d \in Database, NEW x \in Database, NEW J \in Seq(Event), NEW n \in Nat,
         n + 1 \in 1 .. Len(J), Chained(J, n + 1), Effect(d, x, J[n + 1]),
         NEW c, HeadsLast(c, d, J, n)
  PROVE  HeadsLast(c, x, J, n + 1)
<1> DEFINE e == J[n + 1]
<1>1. /\ e.op \in {"record", "revision", "record_refresh", "observation", "observation_refresh"}
      /\ e.at \in Nat
      /\ e.op = "record" => e.urn \in Records /\ e.digest \in Contents
      /\ e.op = "revision" => e.urn \in Records /\ e.digest \in Contents
                              /\ e.supersedes \in Contents \cup {None} /\ e.body \in Nat
  BY EventFields
<1>2. \A k \in 1 .. n : k \in 1 .. n + 1
  OBVIOUS
<1>3. CASE x.head = d.head
  BY <1>2, <1>3 DEF HeadsLast
<1>4. CASE e.op = "record"
  <2> DEFINE y == Imported(d, e)
  <2>1. \/ /\ HeadWritten(d, y, e.urn, e.digest, e.at)
           /\ d.head[e.urn] # None => d.head[e.urn].digest \in Prior(e)
        \/ HeadSeen(d, y, e.urn, e.at)
        \/ HeadKept(d, y, e.urn, e.digest, e.at)
    BY <1>1, <1>4, UpsertDoes DEF Imported
  <2>2. y.head = x.head
    BY <1>4 DEF Effect, SameHeads
  <2>3. d.head[e.urn] # None /\ d.head[e.urn].digest \in Prior(e) =>
          \E k \in 1 .. n : RecordAt(J, k, e.urn) /\ J[k].digest = d.head[e.urn].digest
    <3> DEFINE m == n + 1
    <3>1. m - 1 = n
      OBVIOUS
    <3>2. Chained(J, m) /\ J[m].op = "record"
      BY <1>4
    <3> HIDE DEF m
    <3>3. J[m].previous # None =>
            \E k \in 1 .. m - 1 : RecordAt(J, k, J[m].urn) /\ J[k].digest = J[m].previous
      BY <3>2 DEF Chained
    <3>4. J[m].previous # None =>
            \E k \in 1 .. n : RecordAt(J, k, J[m].urn) /\ J[k].digest = J[m].previous
      BY <3>1, <3>3
    <3> QED BY <3>4 DEF Prior, m
  <2> HIDE DEF y, e
  <2>4. CASE x.head # d.head
    <3>1. /\ y.head = [d.head EXCEPT ![e.urn] =
                [digest |-> e.digest, at |-> e.at, body |-> e.at,
                 tombstoned |-> e.digest \in Tombstones]]
          /\ d.head[e.urn] # None => d.head[e.urn].digest \in Prior(e)
      BY <2>1, <2>2, <2>4 DEF HeadWritten, HeadSeen, HeadKept
    <3>2. DOMAIN d.head = Records
      BY DEF Database
    <3>3. x.head[e.urn] # None
      <4>1. x.head[e.urn] = [digest |-> e.digest, at |-> e.at, body |-> e.at,
                             tombstoned |-> e.digest \in Tombstones]
        BY <1>1, <1>4, <2>2, <3>1, <3>2
      <4>2. x.head[e.urn] \in HeadRow
        BY <1>1, <1>4, <4>1 DEF HeadRow
      <4> QED BY <4>2, NoneAssumption
    <3>4. \A s \in Records \ {e.urn} : x.head[s] = d.head[s]
      BY <2>2, <3>1, <3>2
    <3> QED BY <1>2, <2>3, <3>1, <3>3, <3>4 DEF HeadsLast
  <2> QED BY <1>3, <2>4
<1>5. CASE e.op # "record"
  <2>1. x.head = d.head
    BY <1>1, <1>5 DEF Effect, SameHeads, Revised, SameRows
  <2> QED BY <1>3, <2>1
<1> QED BY <1>4, <1>5

(* An import. ***************************************************************)

\* A cache that has replayed n events of J.
Follows(d, J, n, W) == Sound(d, W) /\ Bindings(d, J, n)

\* A batch never fails, and the cache follows the journal as far as the batch goes.
LEMMA ImportFollows ==
  ASSUME NEW d, NEW W, NEW J \in Seq(Event), NEW n \in Nat, Follows(d, J, n, W),
         NEW m \in n .. Len(J), JournalFaithful(J, W)
  PROVE  LET x == ApplyEvents(d, SubSeq(J, n + 1, m))
         IN x # None /\ Follows(x, J, m, W) /\ HeadsLast(d, x, J, m)
<1> DEFINE R == [k \in Nat |-> {x \in Database : HeadsLast(d, x, J, k)}]
           y == Replay(d, SubSeq(J, n + 1, m))
           x == Revalidate(y)
<1>1. Sound(d, W) /\ Bindings(d, J, n) /\ d \in Database
  BY DEF Follows, Sound
<1>2. \A k \in n + 1 .. m : k \in 1 .. Len(J) /\ FaithfulAt(J, k, W) /\ Chained(J, k)
  BY DEF JournalFaithful
<1>3. d \in R[n]
  BY <1>1 DEF HeadsLast
<1>4. ASSUME NEW k \in n + 1 .. m, NEW z \in R[k - 1], Sound(z, W), Steps(z, J, k - 1, W)
      PROVE ApplyEvent(z, J[k]) \in R[k]
  <2> DEFINE l == k - 1
             e == ApplyEvent(z, J[k])
  <2>1. l \in Nat /\ l + 1 = k /\ k \in Nat /\ l + 1 \in 1 .. Len(J)
    OBVIOUS
  <2>2. z \in Database /\ HeadsLast(d, z, J, l)
    BY <2>1, <1>4
  <2>3. Chained(J, l + 1)
    BY <1>2, <2>1
  <2>4. Steps(z, J, l, W)
    BY <1>4
  <2> HIDE DEF l
  <2>5. Sound(e, W) /\ Effect(z, e, J[l + 1])
    BY <2>1, <2>4 DEF Steps
  <2> HIDE DEF e
  <2>6. e \in Database
    BY <2>5 DEF Sound
  <2>7. HeadsLast(d, e, J, l + 1)
    BY <2>1, <2>2, <2>3, <2>5, <2>6, EventHeads
  <2> QED BY <2>1, <2>6, <2>7 DEF e
<1> HIDE DEF R
<1>5. y # None /\ Sound(y, W) /\ Bindings(y, J, m) /\ y \in R[m]
  BY <1>1, <1>2, <1>3, <1>4, BatchLeads
<1>6. ApplyEvents(d, SubSeq(J, n + 1, m)) = x
  BY <1>5 DEF ApplyEvents
<1> HIDE DEF y
<1>7. Sound(x, W) /\ SameHeads(y, x) /\ KeepsBindings(y, x)
  BY <1>5, RevalidateDoes
<1> HIDE DEF x
<1>8. HeadsLast(d, x, J, m)
  BY <1>5, <1>7 DEF R, HeadsLast, SameHeads
<1>9. Bindings(x, J, m)
  BY <1>5, <1>7 DEF Bindings, KeepsBindings
<1>10. x # None
  BY <1>7, NoneAssumption DEF Sound
<1> QED BY <1>6, <1>7, <1>8, <1>9, <1>10 DEF Follows

\* Where the journal is in the order of its times, so are the heads and the revisions.
LEMMA ImportRanked ==
  ASSUME NEW d, NEW W, NEW J \in Seq(Event), NEW n \in Nat, Follows(d, J, n, W),
         NEW m \in n .. Len(J), JournalFaithful(J, W), InTimeOrder(J),
         NEW S, Ranked(d, J, n, S), NEW t \in Nat, RevisionsBy(d, t),
         \A k \in 1 .. Len(J) : J[k].at <= t
  PROVE  LET x == ApplyEvents(d, SubSeq(J, n + 1, m))
         IN Ranked(x, J, m, S) /\ RevisionsBy(x, t)
<1> DEFINE R == [k \in Nat |-> {x \in Database : Ranked(x, J, k, S) /\ RevisionsBy(x, t)}]
           y == Replay(d, SubSeq(J, n + 1, m))
           x == Revalidate(y)
<1>1. Sound(d, W) /\ Bindings(d, J, n) /\ d \in Database
  BY DEF Follows, Sound
<1>2. \A k \in n + 1 .. m : k \in 1 .. Len(J) /\ FaithfulAt(J, k, W) /\ Chained(J, k)
  BY DEF JournalFaithful
<1>3. d \in R[n]
  BY <1>1
<1>4. ASSUME NEW k \in n + 1 .. m, NEW z \in R[k - 1], Sound(z, W), Steps(z, J, k - 1, W)
      PROVE ApplyEvent(z, J[k]) \in R[k]
  <2> DEFINE l == k - 1
             e == ApplyEvent(z, J[k])
  <2>1. l \in Nat /\ l + 1 = k /\ k \in Nat /\ l + 1 \in 1 .. Len(J)
    OBVIOUS
  <2>2. z \in Database /\ Ranked(z, J, l, S) /\ RevisionsBy(z, t)
    BY <2>1, <1>4
  <2>3. Chained(J, l + 1) /\ J[l + 1] \in Event /\ J[l + 1].at <= t
    BY <1>2, <2>1
  <2>4. Steps(z, J, l, W)
    BY <1>4
  <2> HIDE DEF l
  <2>5. Sound(e, W) /\ Effect(z, e, J[l + 1])
    BY <2>1, <2>4 DEF Steps
  <2> HIDE DEF e
  <2>6. e \in Database
    BY <2>5 DEF Sound
  <2>7. Ranked(e, J, l + 1, S)
    BY <2>1, <2>2, <2>3, <2>5, <2>6, EventRanked
  <2>8. RevisionsBy(e, t)
    BY <2>2, <2>3, <2>5, <2>6, EventRevisions
  <2> QED BY <2>1, <2>6, <2>7, <2>8 DEF e
<1> HIDE DEF R
<1>5. y # None /\ Sound(y, W) /\ Bindings(y, J, m) /\ y \in R[m]
  BY <1>1, <1>2, <1>3, <1>4, BatchLeads
<1>6. ApplyEvents(d, SubSeq(J, n + 1, m)) = x
  BY <1>5 DEF ApplyEvents
<1> HIDE DEF y
<1>7. Sound(x, W) /\ SameHeads(y, x)
  BY <1>5, RevalidateDoes
<1> HIDE DEF x
<1>8. \A r : EffectiveTime(x, r) = EffectiveTime(y, r) /\ (HasConflict(x, r) <=> HasConflict(y, r))
  BY <1>7 DEF EffectiveTime, HasConflict, SameHeads
<1>9. Ranked(x, J, m, S)
  BY <1>5, <1>7, <1>8 DEF R, Ranked, Rank, SameHeads
<1>10. RevisionsBy(x, t)
  BY <1>5, <1>7 DEF R, RevisionsBy, SameHeads
<1> QED BY <1>6, <1>9, <1>10
=============================================================================
