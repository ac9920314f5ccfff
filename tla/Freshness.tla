----------------------------- MODULE Freshness -----------------------------
(***************************************************************************)
(* Latest-sighting intervals of one kind: src/chatstore/cache/freshness.py.*)
(***************************************************************************)
EXTENDS Spans

CONSTANTS MaxId,   \* ids are 1..MaxId
          Times,   \* observation times
          Runs,    \* sync_run
          Never    \* no sighting

ASSUME FreshnessAssumption ==
  MaxId \in Nat /\ Times \subseteq Nat /\ Never \notin [at : Times, run : Runs]

VARIABLE ranges   \* freshness_ranges

Ids       == 1..MaxId
Sightings == [at : Times, run : Runs]

(* Lookup ******************************************************************)
\* time_sql and lookup.
SightingOf(table, key) ==
  IF Covering(table, key) = {} THEN Never
  ELSE (CHOOSE r \in Covering(table, key) : TRUE).value

(* stamp *******************************************************************)
\* One old row against the span lo..hi: what sticks out stays, a gap before it is new,
\* the shared part goes to the later of the two sightings.
MutCut(acc, row, lo, hi, s) ==
  LET a == Larger(lo, row.first)
      b == Smaller(hi, row.last)
      pieces == {Interval(row.first, lo - 1, row.value), Interval(acc.position, row.first - 1, s),
                 Interval(a, b, IF row.value.at >= s.at THEN row.value ELSE s),
                 Interval(hi + 1, row.last, row.value)}
  IN [pieces   |-> acc.pieces \cup {p \in pieces : p.first <= p.last},
      position |-> b + 1]
Cut(acc, row, lo, hi, s) ==
  LET a == Larger(lo, row.first)
      b == Smaller(hi, row.last)
      pieces == {Interval(row.first, lo - 1, row.value), Interval(acc.position, row.first - 1, s),
                 Interval(a, b, IF row.value.at > s.at THEN row.value ELSE s),
                 Interval(hi + 1, row.last, row.value)}
  IN [pieces   |-> acc.pieces \cup {p \in pieces : p.first <= p.last},
      position |-> b + 1]

Pieces(old, lo, hi, s) ==
  LET Body(acc, row) == Cut(acc, row, lo, hi, s)
      all == InTurn(Body, [pieces |-> {}, position |-> lo], old, ByFirst(old))
  IN all.pieces \cup {p \in {Interval(all.position, hi, s)} : p.first <= p.last}

\* The neighbours that touch the first and the last piece and have their value.
Leftmost(pieces)  == CHOOSE p \in pieces : \A q \in pieces : p.first <= q.first
Rightmost(pieces) == CHOOSE p \in pieces : \A q \in pieces : q.last <= p.last

Neighbours(table, pieces) ==
  {r \in table : \/ r.last + 1 = Leftmost(pieces).first /\ r.value = Leftmost(pieces).value
                 \/ r.first = Rightmost(pieces).last + 1 /\ r.value = Rightmost(pieces).value}

StampSpan(table, span, s) ==
  LET old    == Overlapping(table, First(span), End(span))
      pieces == Pieces(old, First(span), End(span), s)
      beside == Neighbours(table, pieces)
  IN (table \ (old \cup beside)) \cup Coalesce(pieces \cup beside)

(* forget ******************************************************************)
ForgetKey(table, key) ==
  LET gone == Covering(table, key)
      kept == UNION {{Interval(r.first, key - 1, r.value), Interval(key + 1, r.last, r.value)} : r \in gone}
  IN (table \ gone) \cup {r \in kept : r.first <= r.last}

(* Behaviour ***************************************************************)
FreshInit == ranges = {}

\* A sync, a reused capture or an imported refresh sights the entities `ids` stand for.
Stamp(ids, s) ==
  LET Body(table, span) == StampSpan(table, span, s)
  IN ranges' = InTurn(Body, ranges, IdRanges(ids), BySpan(IdRanges(ids)))

\* A purge.
Forget(ids) == ranges' = InTurn(ForgetKey, ranges, ids, ById(ids))

=============================================================================
