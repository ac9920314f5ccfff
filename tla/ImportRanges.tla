---------------------------- MODULE ImportRanges ----------------------------
(***************************************************************************)
(* Translation of one producer's ids to local ids through affine intervals:*)
(* src/chatstore/cache/import_ranges.py.  A row gives the ids first..last  *)
(* an offset (local id minus producer id) and says if they are eligible.   *)
(* The bindings themselves are those of entity_ids or observation_ids;     *)
(* what makes a binding eligible is modelled in Replica.                   *)
(***************************************************************************)
EXTENDS Integers, Spans

CONSTANTS MaxKey,     \* producer ids are 1..MaxKey
          MaxLocal,   \* local ids are 1..MaxLocal
          MaxDirty,   \* bound: ids marked between two translations
          Unbound     \* no row of the binding table

ASSUME ImportAssumption == MaxKey \in Nat /\ MaxLocal \in Nat /\ MaxDirty \in Nat

VARIABLES binding,    \* producer id -> [local, eligible] or Unbound: _mapping_sql
          dirty,      \* import_range_dirty
          ready,      \* import_range_ready
          keyRanges,  \* import_key_ranges
          answer      \* the last translation: what was asked, if it was known, what it gave

importVars == <<binding, dirty, ready, keyRanges, answer>>

Keys   == 1..MaxKey
Locals == 1..MaxLocal
NoAnswer == [asked |-> {}, known |-> TRUE, gave |-> {}]

Affine(key) == [offset |-> binding[key].local - key, eligible |-> binding[key].eligible]

(* Triggers ****************************************************************)
\* install: a write of the binding table, or of the row it stands for, marks the key.
Mark(keys) == dirty' = dirty \cup keys

\* _bind_entity, the observation branch of apply_events: a new binding, one whose
\* evidence is said again, or one that now stands for another local row.  Two ids of a
\* producer may stand for one row: an observation it purged and made again.
Bind(key, local, eligible) ==
  /\ Cardinality(dirty \cup {key}) <= MaxDirty
  /\ binding' = [binding EXCEPT ![key] = [local |-> local, eligible |-> eligible]]
  /\ Mark({key})
  /\ answer' = NoAnswer
  /\ UNCHANGED <<ready, keyRanges>>

\* A write of a local row: the ids that stand for it agree with it from now on, or not.
LocalChange(local) ==
  LET keys == {k \in Keys : binding[k] # Unbound /\ binding[k].local = local}
  IN /\ keys # {} /\ Cardinality(dirty \cup keys) <= MaxDirty
     /\ \E agree \in SUBSET keys :
          binding' = [k \in Keys |-> IF k \in keys THEN [binding[k] EXCEPT !.eligible = k \in agree]
                                     ELSE binding[k]]
     /\ Mark(keys)
     /\ answer' = NoAnswer
     /\ UNCHANGED <<ready, keyRanges>>

(* _replace ****************************************************************)
MutSplit(table, key) ==
  LET old  == Covering(table, key)
      kept == UNION {{Interval(r.first, key - 1, r.value),
                      Interval(key + 1, r.last, [r.value EXCEPT !.offset = @ + 1])} : r \in old}
  IN (table \ old) \cup {r \in kept : r.first <= r.last}
Split(table, key) ==
  LET old  == Covering(table, key)
      kept == UNION {{Interval(r.first, key - 1, r.value), Interval(key + 1, r.last, r.value)} : r \in old}
  IN (table \ old) \cup {r \in kept : r.first <= r.last}

Insert(table, key, value) ==
  LET beside == {r \in table : r.value = value /\ (r.last = key - 1 \/ r.first = key + 1)}
      lo == IF \E r \in beside : r.last = key - 1
            THEN (CHOOSE r \in beside : r.last = key - 1).first ELSE key
      hi == IF \E r \in beside : r.first = key + 1
            THEN (CHOOSE r \in beside : r.first = key + 1).last ELSE key
  IN (table \ beside) \cup {Interval(lo, hi, value)}

Replace(table, key) ==
  IF binding[key] = Unbound THEN Split(table, key)
  ELSE Insert(Split(table, key), key, Affine(key))

(* translate ***************************************************************)
\* The projection of a database that had no index yet, or the dirty keys alone.
FirstProjection ==
  Coalesce({Interval(k, k, Affine(k)) : k \in {j \in Keys : binding[j] # Unbound}})

Refreshed == IF ready THEN InTurn(Replace, keyRanges, dirty, ById(dirty)) ELSE FirstProjection

\* One span of the request: the rows must cover it without a hole.
TranslateSpan(table, span) ==
  LET lo  == First(span)
      hi  == End(span)
      old == Overlapping(table, lo, hi)
      Body(acc, r) ==
        LET a == Larger(r.first, lo)
            b == Smaller(r.last, hi)
        IN IF a # acc.covered THEN [acc EXCEPT !.known = FALSE]
           ELSE [acc EXCEPT !.covered = b + 1,
                            !.spans = IF r.value.eligible
                                      THEN @ \cup {<<a + r.value.offset, b + r.value.offset>>} ELSE @]
      all == InTurn(Body, [known |-> TRUE, covered |-> lo, spans |-> {}], old, ByFirst(old))
  IN [all EXCEPT !.known = @ /\ all.covered = hi + 1]

Translated(table, keys) ==
  LET parts == {TranslateSpan(table, span) : span \in IdRanges(keys)}
      known == \A part \in parts : part.known
  IN [asked |-> keys,
      known |-> known,
      gave  |-> IF known THEN Merge(UNION {part.spans : part \in parts}) ELSE {}]

\* A refresh of apply_events, or the drain at its end (an empty request).  Unknown keys
\* fail the import, and the transaction with the refreshed index rolls back.
Translate(keys) ==
  /\ answer' = Translated(Refreshed, keys)
  /\ UNCHANGED binding
  /\ IF answer'.known THEN keyRanges' = Refreshed /\ ready' = TRUE /\ dirty' = {}
     ELSE UNCHANGED <<dirty, ready, keyRanges>>

\* install over a cache whose bindings are older than the index and its triggers.
UpgradeInit ==
  /\ binding \in [Keys -> [local : Locals, eligible : BOOLEAN] \cup {Unbound}]
  /\ dirty = {} /\ ready = FALSE /\ keyRanges = {} /\ answer = NoAnswer

ImportNext ==
  \/ \E key \in Keys, local \in Locals, eligible \in BOOLEAN : Bind(key, local, eligible)
  \/ \E local \in Locals : LocalChange(local)
  \/ \E keys \in SUBSET Keys : Translate(keys)

=============================================================================
