------------------------------- MODULE Spans -------------------------------
(***************************************************************************)
(* Sets of ids kept as lists of closed intervals: id_ranges of             *)
(* src/chatstore/cache/changefeed.py, merge and subtract of                *)
(* src/chatstore/cache/unit_coverage.py, and the lookups that the interval *)
(* tables of cache/freshness.py and cache/import_ranges.py share.  A span  *)
(* is a pair <<first, last>>.                                              *)
(* The loops are written as the code runs them, one element at a time; the *)
(* properties of Ranges compare them with plain sets.  The code's lists    *)
(* are sorted and without repetition: a list is the set of its elements    *)
(* here, and a loop takes them in order.                                   *)
(***************************************************************************)
EXTENDS Integers, FiniteSets

First(span) == span[1]
End(span)   == span[2]
Larger(m, n)  == IF m >= n THEN m ELSE n
Smaller(m, n) == IF m <= n THEN m ELSE n

\* The ids a list of spans stands for, and what a well-kept list looks like.
Points(spans) == UNION {First(s)..End(s) : s \in spans}

Canonical(spans) ==
  \A s \in spans :
    /\ 1 <= First(s) /\ First(s) <= End(s)
    /\ \A t \in spans \ {s} : End(s) + 1 < First(t) \/ End(t) + 1 < First(s)

(* Loops *******************************************************************)
\* An order is the set of its pairs: by id, by primary key, as pairs compare.
ById(ids)     == {p \in ids \X ids : p[1] < p[2]}
ByFirst(rows) == {p \in rows \X rows : p[1].first < p[2].first}
BySpan(spans) ==
  {p \in spans \X spans : \/ First(p[1]) < First(p[2])
                          \/ First(p[1]) = First(p[2]) /\ End(p[1]) < End(p[2])}

InOrder(S, order) ==
  [n \in 1..Cardinality(S) |-> CHOOSE x \in S : Cardinality({y \in S : <<y, x>> \in order}) = n - 1]

\* for x in sorted(S): what the loop's body makes of `start`, element after element.
InTurn(Body(_, _), start, S, order) ==
  LET element == InOrder(S, order)
      upto[n \in 0..Cardinality(S)] == IF n = 0 THEN start ELSE Body(upto[n - 1], element[n])
  IN upto[Cardinality(S)]

(* Interval tables *********************************************************)
\* A row gives the ids first..last one value; `first` is the primary key.
Interval(a, b, value) == [first |-> a, last |-> b, value |-> value]

\* WHERE first_id <= key ORDER BY first_id DESC LIMIT 1: at most one row.
Predecessor(table, key) ==
  {r \in table : /\ r.first <= key
                 /\ \A q \in table : q.first <= key => q.first <= r.first}

\* The row that covers a key, found without a look at any other row.
Covering(table, key) == {r \in Predecessor(table, key) : r.last >= key}

\* WHERE first_id BETWEEN start AND hi, `start` the predecessor of lo.
Overlapping(table, lo, hi) ==
  LET start == IF Predecessor(table, lo) = {} THEN lo
               ELSE (CHOOSE r \in Predecessor(table, lo) : TRUE).first
  IN {r \in table : start <= r.first /\ r.first <= hi /\ r.last >= lo}

\* Consecutive rows of one value become one row.
JoinEqual(rows, r) ==
  LET before == {q \in rows : q.last + 1 = r.first /\ q.value = r.value}
  IN IF before = {} THEN rows \cup {r}
     ELSE (rows \ before) \cup {Interval((CHOOSE q \in before : TRUE).first, r.last, r.value)}

Coalesce(rows) == InTurn(JoinEqual, {}, rows, ByFirst(rows))

\* Rows are apart, and no two that touch could have been one.
WellKept(table) ==
  \A r \in table :
    /\ r.first <= r.last
    /\ \A q \in table \ {r} :
         /\ r.first # q.first
         /\ r.first < q.first => r.last < q.first
         /\ r.last + 1 = q.first => r.value # q.value

(* id_ranges ***************************************************************)
ExtendBy(spans, id) ==
  LET before == {t \in spans : End(t) + 1 = id}
  IN IF before = {} THEN spans \cup {<<id, id>>}
     ELSE (spans \ before) \cup {<<First(CHOOSE t \in before : TRUE), id>>}

IdRanges(ids) == InTurn(ExtendBy, {}, ids, ById(ids))

(* merge *******************************************************************)
\* In order, no span but the last can be reached by the next.
MutJoin(spans, s) ==
  LET reached == {t \in spans : First(s) <= End(t) + 1}
      last    == CHOOSE t \in reached : TRUE
  IN IF reached = {} THEN spans \cup {s} ELSE (spans \ reached) \cup {<<First(last), End(s)>>}
Join(spans, s) ==
  LET reached == {t \in spans : First(s) <= End(t) + 1}
      last    == CHOOSE t \in reached : TRUE
  IN IF reached = {} THEN spans \cup {s}
     ELSE (spans \ reached) \cup {<<First(last), Larger(End(last), End(s))>>}

Merge(spans) == InTurn(Join, {}, spans, BySpan(spans))

(* subtract ****************************************************************)
\* The piece of a span from `position` on, if any is left of `limit`.
Piece(position, limit) == IF position <= limit THEN {<<position, limit>>} ELSE {}

\* One step of the two nested loops: `at` is the number i of the span, the number j of
\* the cut, the first id of the span not decided yet and the pieces kept so far.  A cut
\* that reaches past the span is met again by the next.
CutNext(retained, cuts, at) ==
  LET span == InOrder(retained, BySpan(retained))[at.i]
      cut  == InOrder(cuts, BySpan(cuts))[at.j]
      from == Larger(at.position, First(span))
  IN IF at.i > Cardinality(retained) THEN at
     ELSE IF at.j > Cardinality(cuts) \/ First(cut) > End(span)
     THEN [at EXCEPT !.i = @ + 1, !.position = 0, !.pieces = @ \cup Piece(from, End(span))]
     ELSE IF End(cut) < First(span)
     THEN [at EXCEPT !.j = @ + 1]
     ELSE IF End(cut) >= End(span)
     THEN [at EXCEPT !.i = @ + 1, !.position = 0, !.pieces = @ \cup Piece(from, First(cut) - 1)]
     ELSE [at EXCEPT !.j = @ + 1, !.position = Larger(from, End(cut) + 1), !.pieces = @ \cup Piece(from, First(cut) - 1)]

Subtract(spans, removed) ==
  LET retained == Merge(spans)
      cuts     == Merge(removed)
      steps    == Cardinality(retained) + Cardinality(cuts)
      after[n \in 0..steps] ==
        IF n = 0 THEN [i |-> 1, j |-> 1, position |-> 0, pieces |-> {}]
        ELSE CutNext(retained, cuts, after[n - 1])
  IN after[steps].pieces

=============================================================================
