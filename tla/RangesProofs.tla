---------------------------- MODULE RangesProofs ----------------------------
(***************************************************************************)
(* What Spans, Freshness, ImportRanges and Ranges keep, for ids, times,    *)
(* runs and lists of any number.  A list is the set of its elements, taken *)
(* in an order, and a loop over it is a recursive function (InTurn).  What *)
(* it computes is not proved by induction over the list but by its run: a  *)
(* function that gives what the loop holds after each turn (LoopRuns), and *)
(* a set of numbers that contains 0 and passes each turn (UpTo), which     *)
(* must hold them all, as a least number outside would have one before it. *)
(*                                                                         *)
(* Three invariants, one for each table:                                   *)
(*   CoverInv   the list of covered spans is well kept and has the points  *)
(*              staged and not withdrawn since;                            *)
(*   ImportInv  every key that is not dirty has in the table what it is    *)
(*              bound to, in rows that share no key;                       *)
(*   SightInv   the table of sightings says of each id what one value per  *)
(*              id would, in rows that share no key and of which no two    *)
(*              that touch have one value.                                 *)
(* Rows that share no key are what makes the code's lookup right: it looks *)
(* at one predecessor and no other row (CoveringExact, OverlappingExact).  *)
(***************************************************************************)
EXTENDS Ranges, FiniteSetTheorems, FunctionTheorems, WellFoundedInduction, TLAPS

LEMMA LeastNumber ==
  ASSUME NEW T \in SUBSET Nat, T # {}
  PROVE  \E n \in T : \A m \in T : n <= m
<1> DEFINE R == {p \in Nat \X Nat : p[1] < p[2]}
<1>1. IsWellFoundedOn(R, Nat)
  BY NatLessThanWellFounded DEF OpToRel
<1> HIDE DEF R
<1>2. PICK n \in T : \A m \in T : ~ (<<m, n>> \in R)
  BY <1>1, WFMin, Zenon
<1>3. \A m \in T : ~ (m < n)
  BY <1>2 DEF R
<1> QED BY <1>2, <1>3

LEMMA UpTo ==
  ASSUME NEW N \in Nat, NEW T, 0 \in T, \A i \in 1 .. N : i - 1 \in T => i \in T
  PROVE  \A i \in 0 .. N : i \in T
<1> DEFINE U == {i \in 0 .. N : i \notin T}
<1>1. SUFFICES ASSUME U # {} PROVE FALSE
  OBVIOUS
<1>2. U \in SUBSET Nat
  OBVIOUS
<1> HIDE DEF U
<1>3. PICK n \in U : \A m \in U : n <= m
  BY <1>1, <1>2, LeastNumber
<1>4. n \in 0 .. N /\ n \notin T
  BY <1>3 DEF U
<1>5. n \in 1 .. N /\ n - 1 \in 0 .. N /\ n - 1 \notin U
  BY <1>3, <1>4
<1> QED BY <1>4, <1>5 DEF U

(* Loops. *******************************************************************)

\* A strict order of all elements, and what it puts before one of them.
Orders(order, S) ==
  /\ \A x \in S : <<x, x>> \notin order
  /\ \A x, y \in S : x = y \/ <<x, y>> \in order \/ <<y, x>> \in order
  /\ \A x, y, z \in S : <<x, y>> \in order /\ <<y, z>> \in order => <<x, z>> \in order

Before(S, order, x) == {y \in S : <<y, x>> \in order}

\* Every element of a finite set has its turn, after those before it.
LEMMA TurnOfEach ==
  ASSUME NEW S, IsFiniteSet(S), NEW order, Orders(order, S)
  PROVE  /\ Cardinality(S) \in Nat
         /\ \A n \in 1 .. Cardinality(S) :
              /\ InOrder(S, order)[n] \in S
              /\ Before(S, order, InOrder(S, order)[n]) = {InOrder(S, order)[m] : m \in 1 .. n - 1}
         /\ S = {InOrder(S, order)[m] : m \in 1 .. Cardinality(S)}
<1> DEFINE N == Cardinality(S)
           B(x) == Before(S, order, x)
           rank == [x \in S |-> Cardinality(B(x)) + 1]
           e == InOrder(S, order)
<1>1. N \in Nat
  BY FS_CardinalityType
<1>2. \A x \in S : IsFiniteSet(B(x)) /\ Cardinality(B(x)) \in Nat /\ Cardinality(B(x)) < N
  <2> TAKE x \in S
  <2>1. B(x) \in SUBSET S /\ x \notin B(x)
    BY DEF Orders, Before
  <2> HIDE DEF B
  <2>2. IsFiniteSet(B(x)) /\ Cardinality(B(x)) <= N /\ Cardinality(B(x)) # N
    BY <2>1, FS_Subset
  <2> QED BY <1>1, <2>2, FS_CardinalityType
<1>3. \A x, y \in S : <<x, y>> \in order => Cardinality(B(x)) < Cardinality(B(y))
  <2> SUFFICES ASSUME NEW x \in S, NEW y \in S, <<x, y>> \in order
               PROVE  Cardinality(B(x)) < Cardinality(B(y))
    OBVIOUS
  <2>1. B(x) \in SUBSET B(y) /\ x \in B(y) /\ x \notin B(x)
    BY DEF Orders, Before
  <2>2. IsFiniteSet(B(y)) /\ Cardinality(B(y)) \in Nat /\ Cardinality(B(x)) \in Nat
    BY <1>2
  <2> HIDE DEF B
  <2>3. Cardinality(B(x)) <= Cardinality(B(y)) /\ Cardinality(B(x)) # Cardinality(B(y))
    BY <2>1, <2>2, FS_Subset
  <2> QED BY <2>2, <2>3
<1> HIDE DEF B, N
<1>4. \A x, y \in S : Cardinality(B(x)) = Cardinality(B(y)) => x = y
  <2> SUFFICES ASSUME NEW x \in S, NEW y \in S, x # y PROVE Cardinality(B(x)) # Cardinality(B(y))
    OBVIOUS
  <2>1. <<x, y>> \in order \/ <<y, x>> \in order
    BY DEF Orders
  <2> QED BY <1>2, <1>3, <2>1
<1>5. rank \in Injection(S, 1 .. N)
  <2>1. rank \in [S -> 1 .. N]
    BY <1>1, <1>2
  <2>2. \A x, y \in S : rank[x] = rank[y] => x = y
    BY <1>2, <1>4
  <2> QED BY <2>1, <2>2 DEF Injection, IsInjective
<1>6. IsFiniteSet(1 .. N) /\ Cardinality(1 .. N) = N
  BY <1>1, FS_Interval
<1>7. rank \in Surjection(S, 1 .. N)
  <2> HIDE DEF rank
  <2> QED BY <1>5, <1>6, FS_Injection DEF N
<1>8. \A n \in 1 .. N : \E x \in S : Cardinality(B(x)) = n - 1
  <2> TAKE n \in 1 .. N
  <2>1. PICK x \in S : rank[x] = n
    <3> HIDE DEF rank
    <3> QED BY <1>7 DEF Surjection
  <2>2. Cardinality(B(x)) + 1 = n /\ Cardinality(B(x)) \in Nat
    BY <1>2, <2>1
  <2> QED BY <1>1, <2>2
<1>9. \A n \in 1 .. N : e[n] \in S /\ Cardinality(B(e[n])) = n - 1
  BY <1>8 DEF InOrder, N, B, Before
<1> HIDE DEF e
<1>10. \A x \in S : Cardinality(B(x)) + 1 \in 1 .. N /\ e[Cardinality(B(x)) + 1] = x
  <2> TAKE x \in S
  <2>1. Cardinality(B(x)) + 1 \in 1 .. N
    BY <1>1, <1>2 DEF N
  <2>2. e[Cardinality(B(x)) + 1] \in S /\ Cardinality(B(e[Cardinality(B(x)) + 1])) = Cardinality(B(x))
    BY <1>2, <1>9, <2>1
  <2> QED BY <1>4, <2>1, <2>2
<1>11. \A n \in 1 .. N : B(e[n]) = {e[m] : m \in 1 .. n - 1}
  <2> TAKE n \in 1 .. N
  <2>1. ASSUME NEW y \in B(e[n]) PROVE y \in {e[m] : m \in 1 .. n - 1}
    <3>1. y \in S /\ <<y, e[n]>> \in order
      BY DEF B, Before
    <3>2. Cardinality(B(y)) < n - 1 /\ Cardinality(B(y)) \in Nat
      BY <1>2, <1>3, <1>9, <3>1
    <3>3. Cardinality(B(y)) + 1 \in 1 .. n - 1
      BY <1>1, <3>2
    <3> QED BY <1>10, <3>1, <3>3
  <2>2. ASSUME NEW m \in 1 .. n - 1 PROVE e[m] \in B(e[n])
    <3>1. m \in 1 .. N
      BY <1>1
    <3>2. e[m] \in S /\ e[n] \in S /\ Cardinality(B(e[m])) = m - 1 /\ Cardinality(B(e[n])) = n - 1
      BY <1>9, <3>1
    <3>3. ~ (<<e[n], e[m]>> \in order) /\ e[m] # e[n]
      BY <1>1, <1>3, <3>1, <3>2
    <3> QED BY <3>2, <3>3 DEF Orders, B, Before
  <2> QED BY <2>1, <2>2
<1>12. S = {e[m] : m \in 1 .. N}
  BY <1>9, <1>10
<1> QED BY <1>1, <1>9, <1>11, <1>12 DEF N, B, e

\* A loop over S whose body takes values of A to values of A, and what one of its runs
\* holds after each turn.
IsLoop(S, order, A, start, body) ==
  /\ IsFiniteSet(S) /\ Orders(order, S)
  /\ start \in A /\ body \in [A \X S -> A]

IsRun(t, S, order, start, body) ==
  /\ t[0] = start
  /\ \A n \in 1 .. Cardinality(S) : t[n] = body[<<t[n - 1], InOrder(S, order)[n]>>]

LEMMA LoopRuns ==
  ASSUME NEW S, NEW order, NEW A, NEW start, NEW body, IsLoop(S, order, A, start, body)
  PROVE  \E t \in [0 .. Cardinality(S) -> A] : IsRun(t, S, order, start, body)
<1> DEFINE e == InOrder(S, order)
           N == Cardinality(S)
           Is(t, n) == t = [i \in 0 .. n |-> IF i = 0 THEN start ELSE body[<<t[i - 1], e[i]>>]]
           T == {n \in 0 .. N : \E t \in [0 .. n -> A] : Is(t, n)}
<1>0. start \in A /\ body \in [A \X S -> A]
  BY DEF IsLoop
<1>1. N \in Nat /\ \A n \in 1 .. N : e[n] \in S
  BY TurnOfEach DEF IsLoop
<1> HIDE DEF e, N
<1>2. 0 \in T
  <2> DEFINE t == [i \in 0 .. 0 |-> start]
  <2>1. t = [i \in 0 .. 0 |-> IF i = 0 THEN start ELSE body[<<t[i - 1], e[i]>>]]
    OBVIOUS
  <2>2. t \in [0 .. 0 -> A]
    BY <1>0
  <2>3. Is(t, 0)
    BY <2>1
  <2> HIDE DEF t, Is
  <2> QED BY <1>1, <2>2, <2>3
<1>3. ASSUME NEW n \in 1 .. N, n - 1 \in T  PROVE n \in T
  <2>1. PICK h \in [0 .. n - 1 -> A] : Is(h, n - 1)
    BY <1>3
  <2>2. \A i \in 0 .. n - 1 : h[i] = IF i = 0 THEN start ELSE body[<<h[i - 1], e[i]>>]
    BY <2>1
  <2> HIDE DEF Is
  <2> DEFINE t == [i \in 0 .. n |-> IF i = n THEN body[<<h[n - 1], e[n]>>] ELSE h[i]]
  <2>3. h[n - 1] \in A /\ body[<<h[n - 1], e[n]>>] \in A
    BY <1>0, <1>1
  <2>4. t \in [0 .. n -> A]
    BY <1>1, <2>3
  <2>5. \A i \in 0 .. n : t[i] = IF i = 0 THEN start ELSE body[<<t[i - 1], e[i]>>]
    <3> SUFFICES ASSUME NEW i \in 0 .. n
                 PROVE  t[i] = IF i = 0 THEN start ELSE body[<<t[i - 1], e[i]>>]
      OBVIOUS
    <3>1. CASE i = n
      <4>1. n - 1 \in 0 .. n /\ n - 1 # n /\ n \in 0 .. n /\ n # 0
        BY <1>1
      <4>2. t[n] = body[<<h[n - 1], e[n]>>] /\ t[n - 1] = h[n - 1]
        BY <4>1
      <4> QED BY <3>1, <4>1, <4>2
    <3>2. CASE i # n
      <4>1. i \in 0 .. n - 1 /\ t[i] = h[i]
        BY <1>1, <3>2
      <4>2. CASE i = 0
        BY <2>2, <4>1, <4>2
      <4>3. CASE i # 0
        <5>1. i - 1 \in 0 .. n /\ i - 1 # n
          BY <1>1, <4>1, <4>3
        <5>2. t[i - 1] = h[i - 1]
          BY <5>1
        <5> QED BY <2>2, <4>1, <4>3, <5>2
      <4> QED BY <4>2, <4>3
    <3> QED BY <3>1, <3>2
  <2>6. t = [i \in 0 .. n |-> t[i]]
    OBVIOUS
  <2> HIDE DEF t
  <2>7. Is(t, n)
    BY <2>5, <2>6 DEF Is
  <2>8. n \in 0 .. N
    BY <1>1
  <2> QED BY <2>4, <2>7, <2>8
<1> HIDE DEF T
<1>4. \A n \in 1 .. N : n - 1 \in T => n \in T
  BY <1>3
<1>5. \A n \in 0 .. N : n \in T
  BY <1>1, <1>2, <1>4, UpTo, Zenon
<1>6. PICK t \in [0 .. N -> A] : t = [i \in 0 .. N |-> IF i = 0 THEN start ELSE body[<<t[i - 1], e[i]>>]]
  BY <1>1, <1>5 DEF T
<1>7. t[0] = start /\ \A n \in 1 .. N : t[n] = body[<<t[n - 1], e[n]>>]
  <2>1. \A i \in 0 .. N : t[i] = IF i = 0 THEN start ELSE body[<<t[i - 1], e[i]>>]
    BY <1>6
  <2>2. 0 \in 0 .. N /\ \A n \in 1 .. N : n \in 0 .. N /\ n # 0
    BY <1>1
  <2> QED BY <2>1, <2>2
<1> QED BY <1>7 DEF N, e, IsRun

\* What holds before the first turn, and is passed on by every turn, holds after the last.
\* `t` is a run as far as the body is applied to values of A.
Follows(t, S, order, A, start, body) ==
  /\ t[0] = start
  /\ \A n \in 1 .. Cardinality(S) : t[n - 1] \in A => t[n] = body[<<t[n - 1], InOrder(S, order)[n]>>]

PassedOn(Good, S, order, A, start, body) ==
  /\ <<start, {}>> \in Good
  /\ \A a \in A, x \in S : <<a, Before(S, order, x)>> \in Good
                              => <<body[<<a, x>>], Before(S, order, x) \cup {x}>> \in Good

LEMMA LoopLeads ==
  ASSUME NEW S, NEW order, NEW A, NEW start, NEW body, IsLoop(S, order, A, start, body),
         NEW t, Follows(t, S, order, A, start, body),
         NEW Good, PassedOn(Good, S, order, A, start, body)
  PROVE  <<t[Cardinality(S)], S>> \in Good
<1> DEFINE e == InOrder(S, order)
           N == Cardinality(S)
           Done(n) == {e[m] : m \in 1 .. n}
           T == {n \in 0 .. N : t[n] \in A /\ <<t[n], Done(n)>> \in Good}
<1>0. start \in A /\ body \in [A \X S -> A]
  BY DEF IsLoop
<1>1. /\ N \in Nat
      /\ \A n \in 1 .. N : e[n] \in S /\ Before(S, order, e[n]) = Done(n - 1)
      /\ S = Done(N)
  BY TurnOfEach DEF IsLoop
<1>2. t[0] = start /\ \A n \in 1 .. N : t[n - 1] \in A => t[n] = body[<<t[n - 1], e[n]>>]
  BY DEF Follows
<1> HIDE DEF e, N
<1>3. 0 \in T
  <2>1. Done(0) = {}
    OBVIOUS
  <2> HIDE DEF Done
  <2>2. t[0] \in A /\ <<t[0], Done(0)>> \in Good /\ 0 \in 0 .. N
    BY <1>0, <1>1, <1>2, <2>1 DEF PassedOn
  <2> QED BY <2>2
<1>4. ASSUME NEW n \in 1 .. N, n - 1 \in T  PROVE n \in T
  <2>1. t[n - 1] \in A /\ <<t[n - 1], Done(n - 1)>> \in Good
    BY <1>4
  <2>2. Done(n) = Done(n - 1) \cup {e[n]}
    BY <1>1
  <2>3. e[n] \in S /\ Before(S, order, e[n]) = Done(n - 1)
    BY <1>1
  <2>4. t[n] = body[<<t[n - 1], e[n]>>]
    BY <1>2, <2>1
  <2> HIDE DEF Done
  <2>5. <<t[n], Done(n)>> \in Good
    BY <2>1, <2>2, <2>3, <2>4 DEF PassedOn
  <2>6. t[n] \in A /\ n \in 0 .. N
    BY <1>0, <1>1, <2>1, <2>3, <2>4
  <2> QED BY <2>5, <2>6
<1> HIDE DEF T
<1>5. \A n \in 1 .. N : n - 1 \in T => n \in T
  BY <1>4
<1>6. \A n \in 0 .. N : n \in T
  BY <1>1, <1>3, <1>5, UpTo, Zenon
<1>7. N \in T
  BY <1>1, <1>6
<1> QED BY <1>1, <1>7 DEF T, N

(* Spans. *******************************************************************)

LEMMA InPoints ==
  ASSUME NEW S \in SUBSET (Int \X Int), NEW x
  PROVE  x \in Points(S) <=> x \in Int /\ \E s \in S : First(s) <= x /\ x <= End(s)
BY DEF Points, First, End

LEMMA SpansInOrder ==
  ASSUME NEW S \in SUBSET (Int \X Int)
  PROVE  Orders(BySpan(S), S)
<1>1. \A x \in S : <<x, x>> \notin BySpan(S)
  BY DEF BySpan, First, End
<1>2. \A x, y \in S : x = y \/ <<x, y>> \in BySpan(S) \/ <<y, x>> \in BySpan(S)
  BY DEF BySpan, First, End
<1>3. \A x, y, z \in S : <<x, y>> \in BySpan(S) /\ <<y, z>> \in BySpan(S) => <<x, z>> \in BySpan(S)
  BY DEF BySpan, First, End
<1> QED BY <1>1, <1>2, <1>3 DEF Orders

LEMMA IdsInOrder ==
  ASSUME NEW S \in SUBSET Int
  PROVE  Orders(ById(S), S)
BY DEF Orders, ById

\* Spans that are apart, seen one by one.
LEMMA Apart ==
  ASSUME NEW S, Canonical(S), NEW s \in S, NEW t \in S, s # t
  PROVE  End(s) + 1 < First(t) \/ End(t) + 1 < First(s)
BY DEF Canonical

LEMMA JoinStep ==
  ASSUME NEW a \in SUBSET (Int \X Int), Canonical(a), NEW s \in Int \X Int, 1 <= First(s), First(s) <= End(s),
         \A t \in a : First(t) <= First(s)
  PROVE  /\ Join(a, s) \in SUBSET (Int \X Int)
         /\ IsFiniteSet(a) => IsFiniteSet(Join(a, s))
         /\ Canonical(Join(a, s))
         /\ Points(Join(a, s)) = Points(a) \cup Points({s})
         /\ \A t \in Join(a, s) : First(t) = First(s) \/ \E u \in a : First(t) = First(u)
<1> DEFINE reached == {t \in a : First(s) <= End(t) + 1}
           last == CHOOSE t \in reached : TRUE
           j == <<First(last), Larger(End(last), End(s))>>
<1>0. \A t \in a : First(t) \in Int /\ End(t) \in Int /\ 1 <= First(t) /\ First(t) <= End(t)
  BY DEF Canonical, First, End
<1>1. First(s) \in Int /\ End(s) \in Int
  BY DEF First, End
<1>2. CASE reached = {}
  <2>1. Join(a, s) = a \cup {s}
    BY <1>2 DEF Join
  <2>2. \A t \in a : End(t) + 1 < First(s)
    BY <1>0, <1>1, <1>2
  <2>3. Canonical(a \cup {s})
    BY <1>0, <1>1, <2>2 DEF Canonical
  <2>4. Points(a \cup {s}) = Points(a) \cup Points({s})
    BY DEF Points
  <2>5. IsFiniteSet(a) => IsFiniteSet(a \cup {s})
    BY FS_AddElement
  <2> QED BY <2>1, <2>3, <2>4, <2>5
<1>3. CASE reached # {}
  <2>1. last \in a /\ First(s) <= End(last) + 1
    BY <1>3
  <2>2. reached = {last}
    <3>1. SUFFICES ASSUME NEW t \in reached, t # last PROVE FALSE
      BY <1>3
    <3>2. t \in a /\ First(s) <= End(t) + 1
      OBVIOUS
    <3>3. End(t) + 1 < First(last) \/ End(last) + 1 < First(t)
      BY <2>1, <3>1, <3>2, Apart
    <3> QED BY <1>0, <1>1, <2>1, <3>2, <3>3
  <2> HIDE DEF last
  <2>3. Join(a, s) = (a \ {last}) \cup {j}
    BY <1>3, <2>2 DEF Join, last
  <2>4. /\ j \in Int \X Int /\ First(j) = First(last) /\ End(j) \in Int
        /\ End(j) >= End(last) /\ End(j) >= End(s) /\ (End(j) = End(last) \/ End(j) = End(s))
    BY <1>0, <1>1, <2>1 DEF Larger, First, End
  <2>5. \A t \in a \ {last} : End(t) + 1 < First(j) /\ End(t) + 1 < First(s)
    <3> TAKE t \in a \ {last}
    <3>1. ~ (First(s) <= End(t) + 1)
      BY <2>2
    <3>2. End(t) + 1 < First(last) \/ End(last) + 1 < First(t)
      BY <2>1, Apart
    <3> QED BY <1>0, <1>1, <2>1, <2>4, <3>1, <3>2
  <2> HIDE DEF j
  <2>6. Canonical((a \ {last}) \cup {j})
    <3> DEFINE b == (a \ {last}) \cup {j}
    <3>1. \A u \in b : 1 <= First(u) /\ First(u) <= End(u)
      BY <1>0, <1>1, <2>1, <2>4
    <3>2. ASSUME NEW u \in b, NEW v \in b, u # v PROVE End(u) + 1 < First(v) \/ End(v) + 1 < First(u)
      <4>1. CASE u = j \/ v = j
        BY <2>5, <3>2, <4>1
      <4>2. CASE u # j /\ v # j
        BY <3>2, <4>2, Apart
      <4> QED BY <4>1, <4>2
    <3> QED BY <3>1, <3>2 DEF Canonical
  <2>7. Points((a \ {last}) \cup {j}) = Points(a) \cup Points({s})
    <3>1. (a \ {last}) \cup {j} \in SUBSET (Int \X Int) /\ {s} \in SUBSET (Int \X Int)
      BY <2>4
    <3>2. ASSUME NEW x \in Int
          PROVE  (\E u \in (a \ {last}) \cup {j} : First(u) <= x /\ x <= End(u))
                 <=> (\E u \in a : First(u) <= x /\ x <= End(u)) \/ (First(s) <= x /\ x <= End(s))
      <4>1. First(j) <= x /\ x <= End(j)
              <=> (First(last) <= x /\ x <= End(last)) \/ (First(s) <= x /\ x <= End(s))
        BY <1>0, <1>1, <2>1, <2>4
      <4> QED BY <2>1, <4>1
    <3> QED BY <3>1, <3>2, InPoints
  <2>8. IsFiniteSet(a) => IsFiniteSet((a \ {last}) \cup {j})
    BY FS_AddElement, FS_RemoveElement
  <2>9. \A t \in (a \ {last}) \cup {j} : \E u \in a : First(t) = First(u)
    BY <2>1, <2>4
  <2>10. (a \ {last}) \cup {j} \in SUBSET (Int \X Int)
    BY <2>4
  <2> QED BY <2>3, <2>6, <2>7, <2>8, <2>9, <2>10
<1> QED BY <1>2, <1>3

\* merge keeps the points, as a well-kept list.
LEMMA MergeExact ==
  ASSUME NEW S \in SUBSET (Int \X Int), IsFiniteSet(S), \A s \in S : 1 <= First(s) /\ First(s) <= End(s)
  PROVE  /\ Merge(S) \in SUBSET (Int \X Int) /\ IsFiniteSet(Merge(S))
         /\ Canonical(Merge(S))
         /\ Points(Merge(S)) = Points(S)
<1> DEFINE order == BySpan(S)
           N == Cardinality(S)
           A == SUBSET (Int \X Int)
           body == [p \in A \X S |-> Join(p[1], p[2])]
           Kept(a, D) == /\ IsFiniteSet(a) /\ Canonical(a) /\ Points(a) = Points(D)
                         /\ \A t \in a : \E d \in D : First(t) = First(d)
           Good == {p \in A \X SUBSET S : Kept(p[1], p[2])}
           Is(t) == t = [n \in 0 .. N |-> IF n = 0 THEN {} ELSE Join(t[n - 1], InOrder(S, order)[n])]
           run == CHOOSE t : Is(t)
<1>1. Orders(order, S)
  BY SpansInOrder
<1>2. N \in Nat /\ \A n \in 1 .. N : InOrder(S, order)[n] \in S
  BY <1>1, TurnOfEach
<1>3. ASSUME NEW a \in A, NEW s \in S PROVE Join(a, s) \in A /\ body[<<a, s>>] = Join(a, s)
  <2>1. Join(a, s) \in A
    BY DEF Join, First, End, Larger
  <2> QED BY <2>1
<1>4. IsLoop(S, order, A, {}, body)
  BY <1>1, <1>3 DEF IsLoop
<1> HIDE DEF body, order, N, A
<1>5. \E t : Is(t)
  <2>1. PICK t \in [0 .. N -> A] : IsRun(t, S, order, {}, body)
    BY <1>4, LoopRuns DEF N
  <2>2. ASSUME NEW n \in 0 .. N
        PROVE  t[n] = (IF n = 0 THEN {} ELSE Join(t[n - 1], InOrder(S, order)[n]))
    <3>1. CASE n = 0
      BY <2>1, <3>1 DEF IsRun
    <3>2. CASE n # 0
      <4>1. n \in 1 .. N /\ n - 1 \in 0 .. N
        BY <1>2, <3>2
      <4> QED BY <1>2, <1>3, <2>1, <3>2, <4>1 DEF IsRun, N
    <3> QED BY <3>1, <3>2
  <2>3. t = [n \in 0 .. N |-> t[n]]
    OBVIOUS
  <2> QED BY <2>2, <2>3
<1>6. Merge(S) = run[N]
  BY DEF Merge, InTurn, order, N
<1>7. Is(run)
  BY <1>5
<1> HIDE DEF run
<1>8. Follows(run, S, order, A, {}, body)
  <2>1. \A n \in 0 .. N : run[n] = IF n = 0 THEN {} ELSE Join(run[n - 1], InOrder(S, order)[n])
    BY <1>7
  <2> HIDE DEF Is
  <2>2. run[0] = {}
    BY <1>2, <2>1
  <2>3. ASSUME NEW n \in 1 .. N, run[n - 1] \in A PROVE run[n] = body[<<run[n - 1], InOrder(S, order)[n]>>]
    <3>1. run[n] = Join(run[n - 1], InOrder(S, order)[n])
      BY <1>2, <2>1
    <3> QED BY <1>2, <1>3, <2>3, <3>1
  <2> QED BY <2>2, <2>3 DEF Follows, N
<1>9. <<{}, {}>> \in Good
  <2>1. Kept({}, {})
    BY FS_EmptySet DEF Canonical
  <2> QED BY <2>1 DEF A
<1>10. ASSUME NEW a \in A, NEW s \in S, <<a, Before(S, order, s)>> \in Good
       PROVE  <<body[<<a, s>>], Before(S, order, s) \cup {s}>> \in Good
  <2> DEFINE D == Before(S, order, s)
  <2>1. Kept(a, D) /\ D \in SUBSET S
    BY <1>10
  <2>2. \A d \in D : First(d) <= First(s)
    BY DEF order, Before, BySpan, First
  <2> HIDE DEF D
  <2>3. \A t \in a : First(t) <= First(s)
    BY <2>1, <2>2
  <2>4. s \in Int \X Int /\ 1 <= First(s) /\ First(s) <= End(s)
    OBVIOUS
  <2>5. /\ Join(a, s) \in A /\ IsFiniteSet(Join(a, s)) /\ Canonical(Join(a, s))
        /\ Points(Join(a, s)) = Points(a) \cup Points({s})
        /\ \A t \in Join(a, s) : First(t) = First(s) \/ \E u \in a : First(t) = First(u)
    BY <2>1, <2>3, <2>4, JoinStep DEF A
  <2>6. Points(D \cup {s}) = Points(D) \cup Points({s})
    BY DEF Points
  <2>7. \A t \in Join(a, s) : \E d \in D \cup {s} : First(t) = First(d)
    BY <2>1, <2>5
  <2>8. Kept(Join(a, s), D \cup {s})
    BY <2>1, <2>5, <2>6, <2>7
  <2> HIDE DEF Kept
  <2>9. D \cup {s} \in SUBSET S /\ Join(a, s) \in A
    BY <2>1, <2>5
  <2>10. <<Join(a, s), D \cup {s}>> \in Good
    BY <2>8, <2>9
  <2> QED BY <1>3, <2>10 DEF D
<1> HIDE DEF Is, Good, Kept
<1>11. PassedOn(Good, S, order, A, {}, body)
  BY <1>9, <1>10 DEF PassedOn
<1>12. <<run[N], S>> \in Good
  BY <1>4, <1>8, <1>11, LoopLeads DEF N
<1> QED BY <1>6, <1>12 DEF Good, Kept, A

\* The turns of id_ranges.
LEMMA IdRangesLoop ==
  ASSUME NEW S \in SUBSET Int, IsFiniteSet(S), NEW Good, <<{}, {}>> \in Good,
         \A a \in SUBSET (Int \X Int), x \in S :
           <<a, Before(S, ById(S), x)>> \in Good => <<ExtendBy(a, x), Before(S, ById(S), x) \cup {x}>> \in Good
  PROVE  <<IdRanges(S), S>> \in Good
<1> DEFINE order == ById(S)
           N == Cardinality(S)
           A == SUBSET (Int \X Int)
           body == [p \in A \X S |-> ExtendBy(p[1], p[2])]
           Is(t) == t = [n \in 0 .. N |-> IF n = 0 THEN {} ELSE ExtendBy(t[n - 1], InOrder(S, order)[n])]
           run == CHOOSE t : Is(t)
<1>1. Orders(order, S)
  BY IdsInOrder
<1>2. N \in Nat /\ \A n \in 1 .. N : InOrder(S, order)[n] \in S
  BY <1>1, TurnOfEach
<1>3. ASSUME NEW a \in A, NEW x \in S PROVE ExtendBy(a, x) \in A /\ body[<<a, x>>] = ExtendBy(a, x)
  <2>1. ExtendBy(a, x) \in A
    BY DEF ExtendBy, First, End
  <2> QED BY <2>1
<1>4. IsLoop(S, order, A, {}, body)
  <2>1. {} \in A
    OBVIOUS
  <2>2. body \in [A \X S -> A]
    BY <1>3
  <2> QED BY <1>1, <2>1, <2>2 DEF IsLoop
<1>5. PassedOn(Good, S, order, A, {}, body)
  <2>1. \A a \in A, x \in S :
           <<a, Before(S, order, x)>> \in Good => <<ExtendBy(a, x), Before(S, order, x) \cup {x}>> \in Good
    OBVIOUS
  <2> HIDE DEF body, order, A
  <2> QED BY <1>3, <2>1 DEF PassedOn
<1>6. IdRanges(S) = run[N]
  BY DEF IdRanges, InTurn
<1> HIDE DEF body, order, N, A
<1>7. \E t : Is(t)
  <2>1. PICK t \in [0 .. N -> A] : IsRun(t, S, order, {}, body)
    BY <1>4, LoopRuns DEF N
  <2>2. ASSUME NEW n \in 0 .. N
        PROVE  t[n] = (IF n = 0 THEN {} ELSE ExtendBy(t[n - 1], InOrder(S, order)[n]))
    <3>1. CASE n = 0
      BY <2>1, <3>1 DEF IsRun
    <3>2. CASE n # 0
      <4>1. n \in 1 .. N /\ n - 1 \in 0 .. N
        BY <1>2, <3>2
      <4> QED BY <1>2, <1>3, <2>1, <3>2, <4>1 DEF IsRun, N
    <3> QED BY <3>1, <3>2
  <2>3. t = [n \in 0 .. N |-> t[n]]
    OBVIOUS
  <2> QED BY <2>2, <2>3
<1>8. Is(run)
  BY <1>7
<1> HIDE DEF run
<1>9. Follows(run, S, order, A, {}, body)
  <2>1. \A n \in 0 .. N : run[n] = IF n = 0 THEN {} ELSE ExtendBy(run[n - 1], InOrder(S, order)[n])
    BY <1>8
  <2> HIDE DEF Is
  <2>2. run[0] = {}
    BY <1>2, <2>1
  <2>3. ASSUME NEW n \in 1 .. N, run[n - 1] \in A PROVE run[n] = body[<<run[n - 1], InOrder(S, order)[n]>>]
    <3>1. run[n] = ExtendBy(run[n - 1], InOrder(S, order)[n])
      BY <1>2, <2>1
    <3> QED BY <1>2, <1>3, <2>3, <3>1
  <2> QED BY <2>2, <2>3 DEF Follows, N
<1>10. <<run[N], S>> \in Good
  BY <1>4, <1>5, <1>9, LoopLeads DEF N
<1> QED BY <1>6, <1>10

LEMMA ExtendStep ==
  ASSUME NEW a \in SUBSET (Int \X Int), Canonical(a), NEW x \in Int, 1 <= x, \A y \in Points(a) : y < x
  PROVE  /\ ExtendBy(a, x) \in SUBSET (Int \X Int)
         /\ IsFiniteSet(a) => IsFiniteSet(ExtendBy(a, x))
         /\ Canonical(ExtendBy(a, x))
         /\ Points(ExtendBy(a, x)) = Points(a) \cup {x}
<1> DEFINE before == {t \in a : End(t) + 1 = x}
           last == CHOOSE t \in before : TRUE
           j == <<First(last), x>>
<1>0. \A t \in a : First(t) \in Int /\ End(t) \in Int /\ 1 <= First(t) /\ First(t) <= End(t) /\ End(t) < x
  <2> TAKE t \in a
  <2>1. First(t) \in Int /\ End(t) \in Int /\ 1 <= First(t) /\ First(t) <= End(t)
    BY DEF Canonical, First, End
  <2>2. End(t) \in Points(a)
    BY <2>1, InPoints
  <2> QED BY <2>1, <2>2
<1>1. CASE before = {}
  <2> DEFINE i == <<x, x>>
  <2>1. ExtendBy(a, x) = a \cup {i}
    BY <1>1 DEF ExtendBy
  <2>2. i \in Int \X Int /\ First(i) = x /\ End(i) = x
    BY DEF First, End
  <2> HIDE DEF i
  <2>3. \A t \in a : End(t) + 1 < First(i)
    BY <1>0, <1>1, <2>2
  <2>4. Canonical(a \cup {i})
    BY <1>0, <2>2, <2>3 DEF Canonical
  <2>5. Points(a \cup {i}) = Points(a) \cup {x}
    <3>1. a \cup {i} \in SUBSET (Int \X Int)
      BY <2>2
    <3> QED BY <2>2, <3>1, InPoints
  <2>6. IsFiniteSet(a) => IsFiniteSet(a \cup {i})
    BY FS_AddElement
  <2> QED BY <2>1, <2>2, <2>4, <2>5, <2>6
<1>2. CASE before # {}
  <2>1. last \in a /\ End(last) + 1 = x
    BY <1>2
  <2>2. before = {last}
    <3>1. SUFFICES ASSUME NEW t \in before, t # last PROVE FALSE
      BY <1>2
    <3>2. t \in a /\ End(t) + 1 = x
      OBVIOUS
    <3>3. End(t) + 1 < First(last) \/ End(last) + 1 < First(t)
      BY <2>1, <3>1, <3>2, Apart
    <3> QED BY <1>0, <2>1, <3>2, <3>3
  <2> HIDE DEF last
  <2>3. ExtendBy(a, x) = (a \ {last}) \cup {j}
    BY <1>2, <2>2 DEF ExtendBy, last
  <2>4. j \in Int \X Int /\ First(j) = First(last) /\ End(j) = x
    BY <1>0, <2>1 DEF First, End
  <2> HIDE DEF j
  <2>5. \A t \in a \ {last} : End(t) + 1 < First(j)
    <3> TAKE t \in a \ {last}
    <3>1. End(t) + 1 < First(last) \/ End(last) + 1 < First(t)
      BY <2>1, Apart
    <3> QED BY <1>0, <2>1, <2>4, <3>1
  <2>6. Canonical((a \ {last}) \cup {j})
    <3> DEFINE b == (a \ {last}) \cup {j}
    <3>1. \A u \in b : 1 <= First(u) /\ First(u) <= End(u)
      BY <1>0, <2>1, <2>4
    <3>2. ASSUME NEW u \in b, NEW v \in b, u # v PROVE End(u) + 1 < First(v) \/ End(v) + 1 < First(u)
      <4>1. CASE u = j \/ v = j
        BY <2>5, <3>2, <4>1
      <4>2. CASE u # j /\ v # j
        BY <3>2, <4>2, Apart
      <4> QED BY <4>1, <4>2
    <3> QED BY <3>1, <3>2 DEF Canonical
  <2>7. Points((a \ {last}) \cup {j}) = Points(a) \cup {x}
    <3>1. (a \ {last}) \cup {j} \in SUBSET (Int \X Int)
      BY <2>4
    <3>2. ASSUME NEW y \in Int
          PROVE  (\E u \in (a \ {last}) \cup {j} : First(u) <= y /\ y <= End(u))
                 <=> (\E u \in a : First(u) <= y /\ y <= End(u)) \/ y = x
      <4>1. First(j) <= y /\ y <= End(j) <=> (First(last) <= y /\ y <= End(last)) \/ y = x
        BY <1>0, <2>1, <2>4
      <4> QED BY <2>1, <4>1
    <3> QED BY <3>1, <3>2, InPoints
  <2>8. IsFiniteSet(a) => IsFiniteSet((a \ {last}) \cup {j})
    BY FS_AddElement, FS_RemoveElement
  <2>9. (a \ {last}) \cup {j} \in SUBSET (Int \X Int)
    BY <2>4
  <2> QED BY <2>3, <2>6, <2>7, <2>8, <2>9
<1> QED BY <1>1, <1>2

\* id_ranges gives exactly the ids, as a well-kept list.
LEMMA IdRangesExact ==
  ASSUME NEW S \in SUBSET Int, IsFiniteSet(S), \A x \in S : 1 <= x
  PROVE  /\ IdRanges(S) \in SUBSET (Int \X Int) /\ IsFiniteSet(IdRanges(S))
         /\ Canonical(IdRanges(S))
         /\ Points(IdRanges(S)) = S
<1> DEFINE A == SUBSET (Int \X Int)
           Kept(a, D) == IsFiniteSet(a) /\ Canonical(a) /\ Points(a) = D
           Good == {p \in A \X SUBSET S : Kept(p[1], p[2])}
<1>1. <<{}, {}>> \in Good
  BY FS_EmptySet DEF Canonical, Points
<1>2. ASSUME NEW a \in A, NEW x \in S, <<a, Before(S, ById(S), x)>> \in Good
      PROVE  <<ExtendBy(a, x), Before(S, ById(S), x) \cup {x}>> \in Good
  <2> DEFINE D == Before(S, ById(S), x)
  <2>1. Kept(a, D)
    BY <1>2
  <2>2. D \in SUBSET S /\ \A y \in D : y < x
    BY DEF Before, ById
  <2> HIDE DEF D
  <2>3. Kept(ExtendBy(a, x), D \cup {x}) /\ ExtendBy(a, x) \in A
    BY <2>1, <2>2, ExtendStep
  <2> HIDE DEF A, Kept
  <2>4. D \cup {x} \in SUBSET S
    BY <2>2
  <2> QED BY <2>3, <2>4 DEF D
<1> HIDE DEF Good
<1>3. <<IdRanges(S), S>> \in Good
  BY <1>1, <1>2, IdRangesLoop
<1> QED BY <1>3 DEF Good

\* The elements of a well-kept list, in order.
LEMMA ListInOrder ==
  ASSUME NEW S \in SUBSET (Int \X Int), IsFiniteSet(S), Canonical(S)
  PROVE  /\ Cardinality(S) \in Nat
         /\ \A k \in 1 .. Cardinality(S) : InOrder(S, BySpan(S))[k] \in S
         /\ \A k, l \in 1 .. Cardinality(S) :
              k < l => End(InOrder(S, BySpan(S))[k]) + 1 < First(InOrder(S, BySpan(S))[l])
         /\ S = {InOrder(S, BySpan(S))[k] : k \in 1 .. Cardinality(S)}
<1> DEFINE order == BySpan(S)
           e == InOrder(S, order)
           N == Cardinality(S)
<1>0. Orders(order, S)
  BY SpansInOrder
<1> HIDE DEF order
<1>1. /\ N \in Nat
      /\ \A n \in 1 .. N : e[n] \in S /\ Before(S, order, e[n]) = {e[m] : m \in 1 .. n - 1}
      /\ S = {e[m] : m \in 1 .. N}
  BY <1>0, TurnOfEach
<1> HIDE DEF e, N
<1>2. ASSUME NEW k \in 1 .. N, NEW l \in 1 .. N, k < l PROVE End(e[k]) + 1 < First(e[l])
  <2>1. e[k] \in S /\ e[l] \in S
    BY <1>1
  <2>2. k \in 1 .. l - 1
    BY <1>1, <1>2
  <2>3. e[k] \in Before(S, order, e[l])
    BY <1>1, <2>2
  <2>4. <<e[k], e[l]>> \in BySpan(S)
    BY <2>3 DEF Before, order
  <2>5. First(e[k]) <= First(e[l]) /\ e[k] # e[l]
    BY <2>1, <2>4 DEF BySpan, First, End
  <2>6. End(e[k]) + 1 < First(e[l]) \/ End(e[l]) + 1 < First(e[k])
    BY <2>1, <2>5, Apart
  <2>7. First(e[l]) <= End(e[l]) /\ First(e[l]) \in Int /\ End(e[l]) \in Int /\ First(e[k]) \in Int
    BY <2>1 DEF Canonical, First, End
  <2> QED BY <2>5, <2>6, <2>7
<1> QED BY <1>1, <1>2 DEF e, N, order

\* Steps that lead from values of A to values of A have a run.
AreSteps(N, A, start, step) == N \in Nat /\ start \in A /\ step \in [A -> A]

LEMMA StepsRun ==
  ASSUME NEW N, NEW A, NEW start, NEW step, AreSteps(N, A, start, step)
  PROVE  \E t \in [0 .. N -> A] : t[0] = start /\ \A n \in 1 .. N : t[n] = step[t[n - 1]]
<1> DEFINE S == 1 .. N
           body == [p \in A \X S |-> step[p[1]]]
<1>0. N \in Nat /\ start \in A /\ step \in [A -> A]
  BY DEF AreSteps
<1>1. IsFiniteSet(S) /\ Cardinality(S) = N
  BY <1>0, FS_Interval
<1>2. Orders(ById(S), S)
  BY <1>0, IdsInOrder
<1>3. IsLoop(S, ById(S), A, start, body)
  BY <1>0, <1>1, <1>2 DEF IsLoop
<1>4. \A a \in A, x \in S : body[<<a, x>>] = step[a]
  OBVIOUS
<1>5. \A n \in 1 .. N : InOrder(S, ById(S))[n] \in S
  BY <1>1, <1>2, TurnOfEach
<1> HIDE DEF S, body
<1>6. PICK t \in [0 .. Cardinality(S) -> A] : IsRun(t, S, ById(S), start, body)
  BY <1>3, LoopRuns
<1>7. \A n \in 1 .. N : t[n] = step[t[n - 1]]
  <2> TAKE n \in 1 .. N
  <2>1. n - 1 \in 0 .. N /\ t[n - 1] \in A
    BY <1>0, <1>1
  <2>2. t[n] = body[<<t[n - 1], InOrder(S, ById(S))[n]>>]
    BY <1>1, <1>6 DEF IsRun
  <2> QED BY <1>4, <1>5, <2>1, <2>2
<1> QED BY <1>1, <1>6, <1>7 DEF IsRun

\* Where the loops of subtract are: `k` and `c` in order, `from` the first id not decided.
SubtractRecords == [i : Nat \ {0}, j : Nat \ {0}, position : Int, pieces : SUBSET (Int \X Int)]

Deciding(R, at) == Larger(at.position, First(InOrder(R, BySpan(R))[at.i]))

SubtractInv(R, C, n, at) ==
  LET m == Cardinality(R)
      c == Cardinality(C)
      cut == InOrder(C, BySpan(C))
      open == at.i <= m
      from == Deciding(R, at)
  IN /\ at \in SubtractRecords
     /\ at.i <= m + 1 /\ at.j <= c + 1
     /\ open => at.i + at.j = n + 2
     /\ open => from <= End(InOrder(R, BySpan(R))[at.i])
     /\ open => \A b \in 1 .. at.j - 1 : End(cut[b]) < from
     /\ IsFiniteSet(at.pieces) /\ Canonical(at.pieces)
     /\ open => \A t \in at.pieces : End(t) + 1 < from
     /\ \A x \in Int : x \in Points(at.pieces) <=> x \in Points(R) \ Points(C) /\ (open => x < from)

\* One more piece, behind all others.
LEMMA PieceAdded ==
  ASSUME NEW a \in SUBSET (Int \X Int), IsFiniteSet(a), Canonical(a), NEW p \in Int, 1 <= p, NEW q \in Int,
         \A t \in a : End(t) + 1 < p
  PROVE  /\ a \cup Piece(p, q) \in SUBSET (Int \X Int)
         /\ IsFiniteSet(a \cup Piece(p, q)) /\ Canonical(a \cup Piece(p, q))
         /\ \A t \in a \cup Piece(p, q) : t \in a \/ (End(t) = q /\ p <= q)
         /\ \A x \in Int : x \in Points(a \cup Piece(p, q)) <=> x \in Points(a) \/ (p <= x /\ x <= q)
<1>1. CASE p <= q
  <2> DEFINE s == <<p, q>>
  <2>1. Piece(p, q) = {s}
    BY <1>1 DEF Piece
  <2>2. s \in Int \X Int /\ First(s) = p /\ End(s) = q
    BY DEF First, End
  <2> HIDE DEF s
  <2>3. IsFiniteSet(a \cup {s})
    BY FS_AddElement
  <2>4. \A t \in a : 1 <= First(t) /\ First(t) <= End(t) /\ First(t) \in Int /\ End(t) \in Int
    BY DEF Canonical, First, End
  <2>5. Canonical(a \cup {s})
    BY <1>1, <2>2, <2>4 DEF Canonical
  <2>6. a \cup {s} \in SUBSET (Int \X Int)
    BY <2>2
  <2>7. \A x \in Int : x \in Points(a \cup {s}) <=> x \in Points(a) \/ (p <= x /\ x <= q)
    BY <2>2, <2>6, InPoints
  <2> QED BY <1>1, <2>1, <2>2, <2>3, <2>5, <2>6, <2>7
<1>2. CASE ~ (p <= q)
  <2>1. a \cup Piece(p, q) = a
    BY <1>2 DEF Piece
  <2> QED BY <1>2, <2>1
<1> QED BY <1>1, <1>2

LEMMA RecordMoved ==
  ASSUME NEW at \in SubtractRecords, NEW n \in Nat \ {0}, NEW p \in Int, NEW a \in SUBSET (Int \X Int)
  PROVE  /\ [at EXCEPT !.i = n, !.position = p, !.pieces = a] \in SubtractRecords
         /\ [at EXCEPT !.j = n, !.position = p, !.pieces = a] \in SubtractRecords
         /\ [at EXCEPT !.j = n] \in SubtractRecords
BY DEF SubtractRecords

LEMMA CutNextStep ==
  ASSUME NEW R \in SUBSET (Int \X Int), IsFiniteSet(R), Canonical(R),
         NEW C \in SUBSET (Int \X Int), IsFiniteSet(C), Canonical(C),
         NEW n \in Nat \ {0}, NEW at, SubtractInv(R, C, n - 1, at)
  PROVE  SubtractInv(R, C, n, CutNext(R, C, at))
<1> DEFINE m == Cardinality(R)
           c == Cardinality(C)
           e == InOrder(R, BySpan(R))
           cut == InOrder(C, BySpan(C))
           span == e[at.i]
           from == Deciding(R, at)
           new == CutNext(R, C, at)
<1> SUFFICES SubtractInv(R, C, n, new)
  OBVIOUS
<1> HIDE DEF new
<1>1. /\ m \in Nat /\ \A k \in 1 .. m : e[k] \in R
      /\ \A k, l \in 1 .. m : k < l => End(e[k]) + 1 < First(e[l])
      /\ R = {e[k] : k \in 1 .. m}
  BY ListInOrder, Zenon
<1>2. /\ c \in Nat /\ \A k \in 1 .. c : cut[k] \in C
      /\ \A k, l \in 1 .. c : k < l => End(cut[k]) + 1 < First(cut[l])
      /\ C = {cut[k] : k \in 1 .. c}
  BY ListInOrder, Zenon
<1>3. \A s \in R \cup C : First(s) \in Int /\ End(s) \in Int /\ 1 <= First(s) /\ First(s) <= End(s)
  BY DEF Canonical, First, End
<1>4. at \in SubtractRecords /\ at.i \in Nat \ {0} /\ at.j \in Nat \ {0} /\ at.position \in Int
      /\ at.pieces \in SUBSET (Int \X Int) /\ at.i <= m + 1 /\ at.j <= c + 1
      /\ IsFiniteSet(at.pieces) /\ Canonical(at.pieces)
  BY DEF SubtractInv, SubtractRecords
<1>5. CASE at.i > m
  <2>1. new = at
    BY <1>5 DEF CutNext, new
  <2> QED BY <1>1, <1>4, <1>5, <2>1 DEF SubtractInv
<1>6. CASE at.i <= m
  <2>1. /\ at.i + at.j = n + 1 /\ from <= End(span)
        /\ \A b \in 1 .. at.j - 1 : End(cut[b]) < from
        /\ \A t \in at.pieces : End(t) + 1 < from
        /\ \A x \in Int : x \in Points(at.pieces) <=> x \in Points(R) \ Points(C) /\ x < from
    BY <1>6 DEF SubtractInv
  <2>2. at.i \in 1 .. m /\ span \in R
    BY <1>1, <1>4, <1>6
  <2>3. from \in Int /\ from >= First(span) /\ from >= 1 /\ from >= at.position
        /\ from = Larger(at.position, First(span))
    BY <1>3, <1>4, <2>2 DEF Deciding, Larger
  <2>4. \A k \in 1 .. m : \A x \in Int : First(e[k]) <= x /\ x <= End(e[k]) /\ from <= x
                         => k = at.i \/ (at.i < k /\ at.i + 1 <= m /\ First(e[at.i + 1]) <= x)
    <3> SUFFICES ASSUME NEW k \in 1 .. m, NEW x \in Int, First(e[k]) <= x, x <= End(e[k]), from <= x, k # at.i
                 PROVE  at.i < k /\ at.i + 1 <= m /\ First(e[at.i + 1]) <= x
      BY Zenon
    <3>1. e[k] \in R /\ First(e[k]) \in Int /\ End(e[k]) \in Int /\ First(span) \in Int
      BY <1>1, <1>3, <2>2
    <3>2. ~ (k < at.i)
      <4>1. k < at.i => End(e[k]) + 1 < First(span)
        BY <1>1, <2>2
      <4> QED BY <2>3, <3>1, <4>1
    <3>3. at.i < k /\ at.i + 1 \in 1 .. m
      BY <1>1, <2>2, <3>2
    <3>4. First(e[at.i + 1]) \in Int /\ End(e[at.i + 1]) \in Int /\ First(e[at.i + 1]) <= End(e[at.i + 1])
      BY <1>1, <1>3, <3>3
    <3>5. at.i + 1 < k => End(e[at.i + 1]) + 1 < First(e[k])
      BY <1>1, <3>3
    <3>6. CASE k = at.i + 1
      BY <3>3, <3>6
    <3>7. CASE at.i + 1 < k
      BY <3>1, <3>3, <3>4, <3>5, <3>7
    <3> QED BY <1>1, <1>4, <3>3, <3>6, <3>7
  <2>5. ASSUME NEW q \in Int, q <= End(span),
               \A x \in Int : from <= x /\ x <= End(span) => (x \in Points(C) <=> x > q),
               new = [at EXCEPT !.i = @ + 1, !.position = 0, !.pieces = @ \cup Piece(from, q)]
        PROVE  SubtractInv(R, C, n, new)
    <3> DEFINE pieces == at.pieces \cup Piece(from, q)
    <3>1. /\ new.i = at.i + 1 /\ new.j = at.j /\ new.position = 0 /\ new.pieces = pieces
      BY <1>4, <2>5 DEF SubtractRecords
    <3>2. /\ pieces \in SUBSET (Int \X Int) /\ IsFiniteSet(pieces) /\ Canonical(pieces)
          /\ \A t \in pieces : t \in at.pieces \/ (End(t) = q /\ from <= q)
          /\ \A x \in Int : x \in Points(pieces) <=> x \in Points(at.pieces) \/ (from <= x /\ x <= q)
      BY <1>4, <2>1, <2>3, PieceAdded
    <3> HIDE DEF pieces
    <3>3. new \in SubtractRecords
      <4> DEFINE next == at.i + 1
                 zero == 0
      <4>1. new = [at EXCEPT !.i = next, !.position = zero, !.pieces = pieces]
        BY <2>5 DEF pieces
      <4>2. next \in Nat \ {0} /\ zero \in Int
        BY <1>4
      <4> HIDE DEF next, zero
      <4> QED BY <1>4, <3>2, <4>1, <4>2, RecordMoved
    <3>4. ASSUME new.i <= m
          PROVE  /\ at.i + 1 \in 1 .. m /\ Deciding(R, new) = First(e[at.i + 1])
                 /\ First(e[at.i + 1]) \in Int /\ First(e[at.i + 1]) <= End(e[at.i + 1])
                 /\ End(span) + 1 < First(e[at.i + 1])
      <4>1. at.i + 1 \in 1 .. m
        BY <1>1, <1>4, <3>1, <3>4
      <4>2. e[at.i + 1] \in R
        BY <1>1, <4>1
      <4>3. First(e[at.i + 1]) \in Int /\ 1 <= First(e[at.i + 1]) /\ First(e[at.i + 1]) <= End(e[at.i + 1])
        BY <1>3, <4>2
      <4>4. End(span) + 1 < First(e[at.i + 1])
        BY <1>1, <2>2, <4>1
      <4>5. Deciding(R, new) = First(e[at.i + 1])
        BY <3>1, <4>3 DEF Deciding, Larger
      <4> QED BY <4>1, <4>3, <4>4, <4>5
    <3>5. End(span) \in Int
      BY <1>3, <2>2
    <3>6. new.i <= m => \A b \in 1 .. new.j - 1 : End(cut[b]) < Deciding(R, new)
      <4> SUFFICES ASSUME new.i <= m, NEW b \in 1 .. at.j - 1 PROVE End(cut[b]) < Deciding(R, new)
        BY <3>1
      <4>1. b \in 1 .. c
        BY <1>2, <1>4
      <4>2. End(cut[b]) \in Int /\ End(cut[b]) < from
        BY <1>2, <1>3, <2>1, <4>1
      <4> QED BY <2>1, <2>3, <3>4, <3>5, <4>2
    <3>7. new.i <= m => \A t \in new.pieces : End(t) + 1 < Deciding(R, new)
      <4> SUFFICES ASSUME new.i <= m, NEW t \in pieces PROVE End(t) + 1 < Deciding(R, new)
        BY <3>1
      <4>1. End(t) \in Int
        BY <3>2 DEF End
      <4>2. CASE t \in at.pieces
        BY <2>1, <2>3, <3>4, <3>5, <4>1, <4>2
      <4>3. CASE End(t) = q
        BY <2>5, <3>4, <3>5, <4>3
      <4> QED BY <3>2, <4>2, <4>3
    <3>8. ASSUME NEW x \in Int
          PROVE  x \in Points(new.pieces) <=> x \in Points(R) \ Points(C) /\ (new.i <= m => x < Deciding(R, new))
      <4>1. x \in Points(pieces) <=> (x \in Points(R) \ Points(C) /\ x < from) \/ (from <= x /\ x <= q)
        BY <2>1, <3>2
      <4>2. x \in Points(R) <=> \E k \in 1 .. m : First(e[k]) <= x /\ x <= End(e[k])
        BY <1>1, InPoints
      <4>3. ASSUME x \in Points(pieces)
            PROVE  x \in Points(R) \ Points(C) /\ (new.i <= m => x < Deciding(R, new))
        <5>1. CASE x < from
          BY <2>1, <2>3, <3>4, <3>5, <4>1, <4>3, <5>1
        <5>2. CASE from <= x
          <6>1. x <= q /\ First(span) <= x /\ x <= End(span)
            BY <1>3, <2>2, <2>3, <2>5, <3>5, <4>1, <4>3, <5>2
          <6>2. x \in Points(R) /\ x \notin Points(C)
            BY <2>2, <2>5, <4>2, <5>2, <6>1
          <6> QED BY <3>4, <3>5, <6>1, <6>2
        <5> QED BY <2>3, <5>1, <5>2
      <4>4. ASSUME x \in Points(R) \ Points(C), new.i <= m => x < Deciding(R, new)
            PROVE  x \in Points(pieces)
        <5>1. CASE x < from
          BY <4>1, <4>4, <5>1
        <5>2. CASE from <= x
          <6>1. PICK k \in 1 .. m : First(e[k]) <= x /\ x <= End(e[k])
            BY <4>2, <4>4
          <6>2. ~ (at.i < k /\ at.i + 1 <= m /\ First(e[at.i + 1]) <= x)
            BY <3>1, <3>4, <4>4
          <6>3. k = at.i
            BY <2>4, <5>2, <6>1, <6>2
          <6>4. x <= q
            BY <2>5, <4>4, <5>2, <6>1, <6>3
          <6> QED BY <4>1, <5>2, <6>4
        <5> QED BY <2>3, <5>1, <5>2
      <4> QED BY <3>1, <4>3, <4>4
    <3>9. new.i <= m + 1 /\ new.j <= c + 1 /\ (new.i <= m => new.i + new.j = n + 2)
      BY <1>1, <1>2, <1>4, <1>6, <2>1, <3>1
    <3>10. new.i <= m => Deciding(R, new) <= End(e[new.i])
      BY <3>1, <3>4
    <3> QED BY <3>1, <3>2, <3>3, <3>6, <3>7, <3>8, <3>9, <3>10 DEF SubtractInv
  <2>6. \A b \in 1 .. c : End(cut[b]) \in Int /\ First(cut[b]) \in Int /\ First(cut[b]) <= End(cut[b])
    BY <1>2, <1>3
  <2>7. \A x \in Int : x \in Points(C) <=> \E b \in 1 .. c : First(cut[b]) <= x /\ x <= End(cut[b])
    BY <1>2, InPoints
  <2>8. \A x \in Int : x >= from => \A b \in 1 .. c : First(cut[b]) <= x /\ x <= End(cut[b]) => b >= at.j
    <3> SUFFICES ASSUME NEW x \in Int, x >= from, NEW b \in 1 .. c, x <= End(cut[b]), ~ (b >= at.j) PROVE FALSE
      OBVIOUS
    <3>1. b \in 1 .. at.j - 1
      BY <1>2, <1>4
    <3> QED BY <2>1, <2>3, <2>6, <3>1
  <2>9. \A b \in 1 .. c : b >= at.j => at.j \in 1 .. c /\ First(cut[at.j]) <= First(cut[b])
    <3> SUFFICES ASSUME NEW b \in 1 .. c, b >= at.j PROVE at.j \in 1 .. c /\ First(cut[at.j]) <= First(cut[b])
      OBVIOUS
    <3>1. at.j \in 1 .. c
      BY <1>2, <1>4
    <3>2. CASE b = at.j
      BY <2>6, <3>1, <3>2
    <3>3. CASE at.j < b
      BY <1>2, <2>6, <3>1, <3>3
    <3> QED BY <1>4, <3>1, <3>2, <3>3
  <2>10. First(span) \in Int /\ End(span) \in Int
    BY <1>3, <2>2
  <2>11. CASE at.j > c \/ First(cut[at.j]) > End(span)
    <3> DEFINE q == End(span)
    <3>1. new = [at EXCEPT !.i = @ + 1, !.position = 0, !.pieces = @ \cup Piece(from, q)]
      BY <1>1, <1>4, <1>6, <2>3, <2>11 DEF CutNext, new
    <3>2. ASSUME NEW x \in Int, from <= x, x <= End(span) PROVE x \notin Points(C)
      <4> SUFFICES ASSUME x \in Points(C) PROVE FALSE
        OBVIOUS
      <4>1. PICK b \in 1 .. c : First(cut[b]) <= x /\ x <= End(cut[b])
        BY <2>7
      <4>2. b >= at.j
        BY <2>8, <3>2, <4>1
      <4>3. at.j \in 1 .. c /\ First(cut[at.j]) <= First(cut[b])
        BY <2>9, <4>2
      <4>4. First(cut[at.j]) > End(span)
        BY <1>2, <2>11, <4>3
      <4> QED BY <2>6, <2>10, <3>2, <4>1, <4>3, <4>4
    <3>3. q \in Int /\ q <= End(span)
          /\ \A x \in Int : from <= x /\ x <= End(span) => (x \in Points(C) <=> x > q)
      BY <2>10, <3>2
    <3> HIDE DEF q
    <3> QED BY <2>5, <3>1, <3>3
  <2>12. CASE ~ (at.j > c \/ First(cut[at.j]) > End(span))
    <3>1. at.j \in 1 .. c /\ First(cut[at.j]) <= End(span)
      BY <1>2, <1>4, <2>6, <2>10, <2>12
    <3>2. CASE End(cut[at.j]) < First(span)
      <4>1. new = [at EXCEPT !.j = @ + 1]
        BY <1>1, <1>4, <1>6, <2>12, <3>2 DEF CutNext, new
      <4>2. new.i = at.i /\ new.j = at.j + 1 /\ new.position = at.position /\ new.pieces = at.pieces
        BY <1>4, <4>1 DEF SubtractRecords
      <4>3. Deciding(R, new) = from
        BY <4>2 DEF Deciding
      <4>4. new \in SubtractRecords
        BY <1>4, <4>1 DEF SubtractRecords
      <4>5. \A b \in 1 .. new.j - 1 : End(cut[b]) < from
        <5> TAKE b \in 1 .. new.j - 1
        <5>1. b \in 1 .. at.j - 1 \/ b = at.j
          BY <1>4, <4>2
        <5> QED BY <2>1, <2>3, <2>6, <2>10, <3>1, <3>2, <5>1
      <4>6. new.i <= m + 1 /\ new.j <= c + 1 /\ new.i + new.j = n + 2
        <5>1. at.j <= c /\ c \in Nat /\ m \in Nat
          BY <1>1, <1>2, <3>1
        <5> HIDE DEF m, c, from, e, cut
        <5> QED BY <1>4, <2>1, <4>2, <5>1
      <4>7. /\ Deciding(R, new) <= End(e[new.i])
            /\ \A t \in new.pieces : End(t) + 1 < Deciding(R, new)
            /\ \A b \in 1 .. new.j - 1 : End(cut[b]) < Deciding(R, new)
            /\ \A x \in Int : x \in Points(new.pieces) <=> x \in Points(R) \ Points(C) /\ x < Deciding(R, new)
            /\ IsFiniteSet(new.pieces) /\ Canonical(new.pieces) /\ new.i <= m
        BY <1>4, <1>6, <2>1, <4>2, <4>3, <4>5
      <4> QED BY <4>4, <4>6, <4>7 DEF SubtractInv
    <3>3. CASE End(cut[at.j]) >= First(span) /\ End(cut[at.j]) >= End(span)
      <4> DEFINE q == First(cut[at.j]) - 1
      <4>1. new = [at EXCEPT !.i = @ + 1, !.position = 0, !.pieces = @ \cup Piece(from, q)]
        BY <1>1, <1>4, <1>6, <2>3, <2>6, <2>10, <2>12, <3>1, <3>3 DEF CutNext, new
      <4>2. q \in Int /\ q <= End(span)
        BY <2>6, <2>10, <3>1
      <4>3. ASSUME NEW x \in Int, from <= x, x <= End(span) PROVE x \in Points(C) <=> x > q
        <5>1. ASSUME x > q PROVE x \in Points(C)
          BY <2>6, <2>7, <2>10, <3>1, <3>3, <4>3, <5>1
        <5>2. ASSUME x \in Points(C) PROVE x > q
          <6>1. PICK b \in 1 .. c : First(cut[b]) <= x /\ x <= End(cut[b])
            BY <2>7, <5>2
          <6>2. b >= at.j
            BY <2>8, <4>3, <6>1
          <6> QED BY <2>6, <2>9, <3>1, <6>1, <6>2
        <5> QED BY <5>1, <5>2
      <4>4. \A x \in Int : from <= x /\ x <= End(span) => (x \in Points(C) <=> x > q)
        BY <4>3
      <4> HIDE DEF q
      <4> QED BY <2>5, <4>1, <4>2, <4>4
    <3>4. CASE End(cut[at.j]) >= First(span) /\ ~ (End(cut[at.j]) >= End(span))
      <4> DEFINE q == First(cut[at.j]) - 1
                 on == Larger(from, End(cut[at.j]) + 1)
                 pieces == at.pieces \cup Piece(from, q)
      <4>1. new = [at EXCEPT !.j = @ + 1, !.position = on, !.pieces = pieces]
        BY <1>1, <1>4, <1>6, <2>3, <2>6, <2>10, <2>12, <3>1, <3>4 DEF CutNext, new
      <4>2. q \in Int /\ on \in Int /\ on >= from /\ on > End(cut[at.j]) /\ q + 1 < on /\ on <= End(span)
            /\ (on = from \/ on = End(cut[at.j]) + 1)
        BY <2>1, <2>3, <2>6, <2>10, <3>1, <3>4 DEF Larger
      <4>0. q = First(cut[at.j]) - 1
        OBVIOUS
      <4> HIDE DEF on, q
      <4>3. /\ pieces \in SUBSET (Int \X Int) /\ IsFiniteSet(pieces) /\ Canonical(pieces)
            /\ \A t \in pieces : t \in at.pieces \/ (End(t) = q /\ from <= q)
            /\ \A x \in Int : x \in Points(pieces) <=> x \in Points(at.pieces) \/ (from <= x /\ x <= q)
        <5>1. at.pieces \in SUBSET (Int \X Int) /\ IsFiniteSet(at.pieces) /\ Canonical(at.pieces)
              /\ from \in Int /\ 1 <= from /\ q \in Int /\ \A t \in at.pieces : End(t) + 1 < from
          BY <1>4, <2>1, <2>3, <4>2
        <5> HIDE DEF from
        <5> QED BY <5>1, PieceAdded
      <4> HIDE DEF pieces
      <4>4. new.i = at.i /\ new.j = at.j + 1 /\ new.position = on /\ new.pieces = pieces
        BY <1>4, <4>1 DEF SubtractRecords
      <4>5. new \in SubtractRecords
        <5>1. at.j + 1 \in Nat \ {0}
          BY <1>4
        <5>2. new = [at EXCEPT !.j = at.j + 1, !.position = on, !.pieces = pieces]
          BY <4>1
        <5> QED BY <1>4, <4>2, <4>3, <5>1, <5>2, RecordMoved
      <4>6. Deciding(R, new) = on
        BY <2>3, <2>10, <4>2, <4>4 DEF Deciding, Larger
      <4>7. \A b \in 1 .. new.j - 1 : End(cut[b]) < on
        <5> TAKE b \in 1 .. new.j - 1
        <5>1. b \in 1 .. c /\ (b \in 1 .. at.j - 1 \/ b = at.j)
          BY <1>2, <1>4, <3>1, <4>4
        <5> QED BY <2>1, <2>3, <2>6, <4>2, <5>1
      <4>8. \A t \in pieces : End(t) + 1 < on
        <5> TAKE t \in pieces
        <5>1. End(t) \in Int
          BY <4>3 DEF End
        <5> QED BY <2>1, <2>3, <4>2, <4>3, <5>1
      <4>9. ASSUME NEW x \in Int PROVE x \in Points(pieces) <=> x \in Points(R) \ Points(C) /\ x < on
        <5>1. x \in Points(pieces) <=> (x \in Points(R) \ Points(C) /\ x < from) \/ (from <= x /\ x <= q)
          BY <2>1, <4>3
        <5>2. ASSUME from <= x, x <= q PROVE x \in Points(R) /\ x \notin Points(C) /\ x < on
          <6>1. First(span) <= x /\ x <= End(span)
            BY <2>3, <2>10, <4>2, <5>2
          <6>2. x \in Points(R)
            BY <2>2, <6>1, InPoints
          <6>3. ASSUME x \in Points(C) PROVE FALSE
            <7>1. PICK b \in 1 .. c : First(cut[b]) <= x /\ x <= End(cut[b])
              BY <2>7, <6>3
            <7>2. b >= at.j
              BY <2>8, <5>2, <7>1
            <7> QED BY <2>6, <2>9, <3>1, <4>0, <5>2, <7>1, <7>2
          <6> QED BY <4>2, <5>2, <6>2, <6>3
        <5>3. ASSUME from <= x, ~ (x <= q), x < on PROVE x \in Points(C)
          <6>1. First(cut[at.j]) <= x /\ x <= End(cut[at.j])
            BY <2>3, <2>6, <3>1, <4>0, <4>2, <5>3
          <6> QED BY <2>7, <3>1, <6>1
        <5>4. x < from => x < on
          BY <2>3, <4>2
        <5>5. x < from \/ from <= x
          BY <2>3
        <5> QED BY <5>1, <5>2, <5>3, <5>4, <5>5
      <4>10. new.i <= m + 1 /\ new.j <= c + 1 /\ new.i + new.j = n + 2
        BY <1>1, <1>2, <1>4, <2>1, <3>1, <4>4
      <4>11. /\ Deciding(R, new) <= End(e[new.i])
             /\ \A t \in new.pieces : End(t) + 1 < Deciding(R, new)
             /\ \A b \in 1 .. new.j - 1 : End(cut[b]) < Deciding(R, new)
             /\ \A x \in Int : x \in Points(new.pieces) <=> x \in Points(R) \ Points(C) /\ x < Deciding(R, new)
             /\ IsFiniteSet(new.pieces) /\ Canonical(new.pieces) /\ new.i <= m
        BY <1>6, <4>2, <4>3, <4>4, <4>6, <4>7, <4>8, <4>9
      <4> QED BY <4>5, <4>10, <4>11 DEF SubtractInv
    <3> QED BY <2>6, <2>10, <3>1, <3>2, <3>3, <3>4
  <2> QED BY <2>11, <2>12
<1> QED BY <1>4, <1>5, <1>6, <1>1

LEMMA CutNextTyped ==
  ASSUME NEW R \in SUBSET (Int \X Int), IsFiniteSet(R), Canonical(R),
         NEW C \in SUBSET (Int \X Int), IsFiniteSet(C), Canonical(C), NEW at \in SubtractRecords
  PROVE  CutNext(R, C, at) \in SubtractRecords
<1> DEFINE span == InOrder(R, BySpan(R))[at.i]
           cut == InOrder(C, BySpan(C))[at.j]
           from == Larger(at.position, First(span))
           new == CutNext(R, C, at)
           i == at.i + 1
           j == at.j + 1
           zero == 0
           p == at.pieces \cup Piece(from, End(span))
           q == at.pieces \cup Piece(from, First(cut) - 1)
           on == Larger(from, End(cut) + 1)
<1> SUFFICES new \in SubtractRecords
  OBVIOUS
<1> HIDE DEF new
<1>1. at.i \in Nat \ {0} /\ at.j \in Nat \ {0} /\ at.position \in Int /\ at.pieces \in SUBSET (Int \X Int)
  BY DEF SubtractRecords
<1>2. /\ Cardinality(R) \in Nat /\ \A k \in 1 .. Cardinality(R) : InOrder(R, BySpan(R))[k] \in R
      /\ Cardinality(C) \in Nat /\ \A k \in 1 .. Cardinality(C) : InOrder(C, BySpan(C))[k] \in C
  BY ListInOrder
<1>3. CASE at.i > Cardinality(R)
  BY <1>3 DEF CutNext, new
<1>4. CASE ~ (at.i > Cardinality(R))
  <2>1. span \in R
    BY <1>1, <1>2, <1>4
  <2>2. First(span) \in Int /\ End(span) \in Int
    BY <2>1 DEF First, End
  <2>3. from \in Int
    BY <1>1, <2>2 DEF Larger
  <2>4. \A m \in Int, n \in Int : at.pieces \cup Piece(m, n) \in SUBSET (Int \X Int)
    BY <1>1 DEF Piece
  <2>5. CASE at.j > Cardinality(C)
    <3>1. new = [at EXCEPT !.i = i, !.position = zero, !.pieces = p]
      BY <1>4, <2>5 DEF CutNext, new
    <3>2. p \in SUBSET (Int \X Int) /\ i \in Nat \ {0} /\ zero \in Int
      BY <1>1, <2>2, <2>3, <2>4
    <3> HIDE DEF p, i, zero
    <3> QED BY <3>1, <3>2, RecordMoved
  <2>6. CASE ~ (at.j > Cardinality(C))
    <3>1. cut \in C
      BY <1>1, <1>2, <2>6
    <3>2. First(cut) \in Int /\ End(cut) \in Int
      BY <3>1 DEF First, End
    <3>3. on \in Int
      BY <2>3, <3>2 DEF Larger
    <3>4. /\ p \in SUBSET (Int \X Int) /\ q \in SUBSET (Int \X Int)
          /\ i \in Nat \ {0} /\ j \in Nat \ {0} /\ zero \in Int
      BY <1>1, <2>2, <2>3, <2>4, <3>2
    <3>5. \/ new = [at EXCEPT !.i = i, !.position = zero, !.pieces = p]
          \/ new = [at EXCEPT !.j = j]
          \/ new = [at EXCEPT !.i = i, !.position = zero, !.pieces = q]
          \/ new = [at EXCEPT !.j = j, !.position = on, !.pieces = q]
      BY <1>4, <2>6 DEF CutNext, new
    <3> HIDE DEF p, q, i, j, zero, on
    <3>6. CASE new = [at EXCEPT !.i = i, !.position = zero, !.pieces = p]
      BY <3>4, <3>6, RecordMoved
    <3>7. CASE new = [at EXCEPT !.j = j]
      BY <3>4, <3>7, RecordMoved
    <3>8. CASE new = [at EXCEPT !.i = i, !.position = zero, !.pieces = q]
      BY <3>4, <3>8, RecordMoved
    <3>9. CASE new = [at EXCEPT !.j = j, !.position = on, !.pieces = q]
      BY <3>3, <3>4, <3>9, RecordMoved
    <3> QED BY <3>5, <3>6, <3>7, <3>8, <3>9
  <2> QED BY <2>5, <2>6
<1> QED BY <1>3, <1>4

\* subtract takes the removed ids from the retained ones, as a well-kept list.
LEMMA SubtractExact ==
  ASSUME NEW S \in SUBSET (Int \X Int), IsFiniteSet(S), \A s \in S : 1 <= First(s) /\ First(s) <= End(s),
         NEW D \in SUBSET (Int \X Int), IsFiniteSet(D), \A s \in D : 1 <= First(s) /\ First(s) <= End(s)
  PROVE  /\ Subtract(S, D) \in SUBSET (Int \X Int) /\ IsFiniteSet(Subtract(S, D))
         /\ Canonical(Subtract(S, D))
         /\ \A x \in Int : x \in Points(Subtract(S, D)) <=> x \in Points(S) /\ x \notin Points(D)
<1> DEFINE R == Merge(S)
           C == Merge(D)
           m == Cardinality(R)
           c == Cardinality(C)
           e == InOrder(R, BySpan(R))
           N == m + c
           start == [i |-> 1, j |-> 1, position |-> 0, pieces |-> {}]
           step == [at \in SubtractRecords |-> CutNext(R, C, at)]
           Is(t) == t = [n \in 0 .. N |-> IF n = 0 THEN start ELSE CutNext(R, C, t[n - 1])]
           after == CHOOSE t : Is(t)
<1>1. /\ R \in SUBSET (Int \X Int) /\ IsFiniteSet(R) /\ Canonical(R) /\ Points(R) = Points(S)
      /\ C \in SUBSET (Int \X Int) /\ IsFiniteSet(C) /\ Canonical(C) /\ Points(C) = Points(D)
  BY MergeExact
<1>2. Subtract(S, D) = after[N].pieces
  BY DEF Subtract
<1> HIDE DEF R, C
<1>3. /\ m \in Nat /\ c \in Nat /\ \A k \in 1 .. m : e[k] \in R
      /\ \A k, l \in 1 .. m : k < l => End(e[k]) + 1 < First(e[l])
      /\ R = {e[k] : k \in 1 .. m}
  BY <1>1, ListInOrder, Zenon
<1>4. N \in Nat
  BY <1>3
<1>5. start \in SubtractRecords
  BY DEF SubtractRecords
<1>6. \A at \in SubtractRecords : CutNext(R, C, at) \in SubtractRecords
  BY <1>1, CutNextTyped
<1>7. step \in [SubtractRecords -> SubtractRecords]
  BY <1>6
<1> HIDE DEF N, start
<1>8. Is(after)
  <2> HIDE DEF step
  <2>0. AreSteps(N, SubtractRecords, start, step)
    BY <1>4, <1>5, <1>7 DEF AreSteps
  <2>1. PICK t \in [0 .. N -> SubtractRecords] : t[0] = start /\ \A n \in 1 .. N : t[n] = step[t[n - 1]]
    BY <2>0, StepsRun
  <2>2. ASSUME NEW n \in 0 .. N PROVE t[n] = IF n = 0 THEN start ELSE CutNext(R, C, t[n - 1])
    <3>1. CASE n = 0
      BY <2>1, <3>1
    <3>2. CASE n # 0
      <4>1. n \in 1 .. N /\ n - 1 \in 0 .. N
        BY <1>4, <3>2
      <4> QED BY <2>1, <3>2, <4>1 DEF step
    <3> QED BY <3>1, <3>2
  <2>3. t = [n \in 0 .. N |-> t[n]]
    OBVIOUS
  <2>4. \E u : Is(u)
    BY <2>2, <2>3
  <2> QED BY <2>4
<1> HIDE DEF after
<1>9. after[0] = start /\ \A n \in 1 .. N : after[n] = CutNext(R, C, after[n - 1])
  <2>1. \A n \in 0 .. N : after[n] = IF n = 0 THEN start ELSE CutNext(R, C, after[n - 1])
    BY <1>8
  <2>2. 0 \in 0 .. N /\ \A n \in 1 .. N : n \in 0 .. N /\ n # 0
    BY <1>4
  <2> QED BY <2>1, <2>2
<1>10. SubtractInv(R, C, 0, start)
  <2>1. start.i = 1 /\ start.j = 1 /\ start.position = 0 /\ start.pieces = {}
    BY DEF start
  <2>2. \A s \in R : First(s) \in Int /\ End(s) \in Int /\ 1 <= First(s) /\ First(s) <= End(s)
    BY <1>1 DEF Canonical, First, End
  <2>3. 1 <= m => e[1] \in R /\ Deciding(R, start) = First(e[1]) /\ First(e[1]) \in Int /\ First(e[1]) <= End(e[1])
    <3> SUFFICES ASSUME 1 <= m
                 PROVE  e[1] \in R /\ Deciding(R, start) = First(e[1]) /\ First(e[1]) \in Int /\ First(e[1]) <= End(e[1])
      OBVIOUS
    <3>1. e[1] \in R
      BY <1>3
    <3>2. First(e[1]) \in Int /\ 1 <= First(e[1]) /\ First(e[1]) <= End(e[1])
      BY <2>2, <3>1
    <3>3. Deciding(R, start) = First(e[1])
      BY <2>1, <3>2 DEF Deciding, Larger
    <3> QED BY <3>1, <3>2, <3>3
  <2>4. ASSUME NEW x \in Int, x \in Points(R) PROVE 1 <= m /\ ~ (x < Deciding(R, start))
    <3>1. PICK k \in 1 .. m : First(e[k]) <= x /\ x <= End(e[k])
      <4>1. PICK s \in R : First(s) <= x /\ x <= End(s)
        BY <1>1, <2>4, InPoints
      <4> QED BY <1>3, <4>1
    <3>2. 1 <= m /\ e[k] \in R
      BY <1>3
    <3>3. First(e[1]) <= First(e[k])
      <4>1. CASE k = 1
        BY <2>3, <3>2, <4>1
      <4>2. CASE k # 1
        <5>1. End(e[1]) + 1 < First(e[k])
          BY <1>3, <4>2
        <5>2. End(e[1]) \in Int /\ First(e[k]) \in Int
          BY <2>2, <2>3, <3>2
        <5> QED BY <2>3, <3>2, <5>1, <5>2
      <4> QED BY <4>1, <4>2
    <3>4. First(e[k]) \in Int
      BY <2>2, <3>2
    <3> QED BY <2>3, <3>1, <3>2, <3>3, <3>4
  <2>5. \A x \in Int : x \in Points(start.pieces) <=> x \in Points(R) \ Points(C) /\ (1 <= m => x < Deciding(R, start))
    <3>1. Points(start.pieces) = {}
      BY <2>1 DEF Points
    <3> QED BY <2>4, <3>1
  <2>6. IsFiniteSet(start.pieces) /\ Canonical(start.pieces)
    BY <2>1, FS_EmptySet DEF Canonical
  <2> QED BY <1>3, <1>5, <2>1, <2>3, <2>5, <2>6 DEF SubtractInv
<1>11. SubtractInv(R, C, N, after[N])
  <2> DEFINE T == {n \in Nat : SubtractInv(R, C, n, after[n])}
  <2>1. 0 \in T
    BY <1>9, <1>10
  <2>2. ASSUME NEW n \in 1 .. N, n - 1 \in T PROVE n \in T
    <3>1. n \in Nat \ {0} /\ SubtractInv(R, C, n - 1, after[n - 1]) /\ after[n] = CutNext(R, C, after[n - 1])
      BY <1>4, <1>9, <2>2
    <3> HIDE DEF e, m, c
    <3>2. SubtractInv(R, C, n, CutNext(R, C, after[n - 1]))
      BY <1>1, <3>1, CutNextStep
    <3> QED BY <3>1, <3>2
  <2> HIDE DEF T
  <2>3. \A n \in 1 .. N : n - 1 \in T => n \in T
    BY <2>2
  <2>4. \A n \in 0 .. N : n \in T
    BY <1>4, <2>1, <2>3, UpTo, Zenon
  <2>5. N \in T
    BY <1>4, <2>4
  <2> QED BY <2>5 DEF T
<1>12. ~ (after[N].i <= m)
  <2>1. after[N] \in SubtractRecords /\ after[N].j <= c + 1 /\ (after[N].i <= m => after[N].i + after[N].j = N + 2)
    BY <1>11 DEF SubtractInv
  <2>2. after[N].i \in Nat /\ after[N].j \in Nat
    BY <2>1 DEF SubtractRecords
  <2> QED BY <1>3, <2>1, <2>2 DEF N
<1>13. /\ after[N].pieces \in SUBSET (Int \X Int) /\ IsFiniteSet(after[N].pieces) /\ Canonical(after[N].pieces)
       /\ \A x \in Int : x \in Points(after[N].pieces) <=> x \in Points(R) \ Points(C)
  BY <1>11, <1>12 DEF SubtractInv, SubtractRecords
<1> QED BY <1>1, <1>2, <1>13

(* Interval tables. *********************************************************)

TableRows(V) == [first : Int, last : Int, value : V]

\* What a table says of a key; and rows that say one thing of each.
Gives(table, x, v) == \E r \in table : r.first <= x /\ x <= r.last /\ r.value = v

Disjoint(table) ==
  \A r \in table : r.first <= r.last /\ \A q \in table : r # q => r.last < q.first \/ q.last < r.first

Joined(table) == \A r, q \in table : r.last + 1 = q.first => r.value # q.value

LEMMA WellKeptMeans ==
  ASSUME NEW V, NEW table \in SUBSET TableRows(V)
  PROVE  WellKept(table) <=> Disjoint(table) /\ Joined(table)
<1>1. \A r \in table : r.first \in Int /\ r.last \in Int
  BY DEF TableRows
<1>2. ASSUME WellKept(table) PROVE Disjoint(table) /\ Joined(table)
  <2>1. ASSUME NEW r \in table PROVE r.first <= r.last
    BY <1>2 DEF WellKept
  <2>2. ASSUME NEW r \in table, NEW q \in table, r # q
        PROVE  (r.last < q.first \/ q.last < r.first) /\ (r.last + 1 = q.first => r.value # q.value)
    <3>1. /\ r.first # q.first
          /\ r.first < q.first => r.last < q.first
          /\ q.first < r.first => q.last < r.first
          /\ r.last + 1 = q.first => r.value # q.value
      BY <1>2, <2>2 DEF WellKept
    <3> QED BY <1>1, <3>1
  <2>3. \A r \in table : ~ (r.last + 1 = r.first)
    BY <1>1, <2>1
  <2> QED BY <2>1, <2>2, <2>3 DEF Disjoint, Joined
<1>3. ASSUME Disjoint(table), Joined(table) PROVE WellKept(table)
  <2>1. SUFFICES ASSUME NEW r \in table
                 PROVE  /\ r.first <= r.last
                        /\ \A q \in table \ {r} : /\ r.first # q.first
                                                  /\ r.first < q.first => r.last < q.first
                                                  /\ r.last + 1 = q.first => r.value # q.value
    BY DEF WellKept
  <2>2. \A q \in table : q.first <= q.last
    BY <1>3 DEF Disjoint
  <2>3. ASSUME NEW q \in table \ {r}
        PROVE  /\ r.first # q.first
               /\ r.first < q.first => r.last < q.first
               /\ r.last + 1 = q.first => r.value # q.value
    <3>1. r.last < q.first \/ q.last < r.first
      BY <1>3 DEF Disjoint
    <3>2. r.last + 1 = q.first => r.value # q.value
      BY <1>3 DEF Joined
    <3> QED BY <1>1, <2>2, <3>1, <3>2
  <2> QED BY <2>2, <2>3
<1> QED BY <1>2, <1>3

LEMMA OneRow ==
  ASSUME NEW V, NEW table \in SUBSET TableRows(V), Disjoint(table), NEW x \in Int,
         NEW r \in table, r.first <= x, x <= r.last, NEW q \in table, q.first <= x, x <= q.last
  PROVE  r = q
<1>1. SUFFICES ASSUME r # q PROVE FALSE
  OBVIOUS
<1>2. r.last < q.first \/ q.last < r.first
  BY <1>1 DEF Disjoint
<1> QED BY <1>2 DEF TableRows

LEMMA RowsInOrder ==
  ASSUME NEW V, NEW table \in SUBSET TableRows(V), Disjoint(table)
  PROVE  /\ Orders(ByFirst(table), table)
         /\ \A r \in table : \A q \in Before(table, ByFirst(table), r) :
              q \in table /\ q # r /\ q.first < r.first /\ q.last < r.first
<1>1. \A r \in table : r.first \in Int /\ r.last \in Int /\ r.first <= r.last
  BY DEF TableRows, Disjoint
<1>2. \A r, q \in table : r # q => r.first # q.first
  BY <1>1 DEF Disjoint
<1>3. Orders(ByFirst(table), table)
  BY <1>1, <1>2 DEF Orders, ByFirst
<1>4. ASSUME NEW r \in table, NEW q \in Before(table, ByFirst(table), r)
      PROVE  q \in table /\ q # r /\ q.first < r.first /\ q.last < r.first
  <2>1. q \in table /\ q.first < r.first
    BY DEF Before, ByFirst
  <2>2. q # r
    BY <1>1, <2>1
  <2>3. q.last < r.first \/ r.last < q.first
    BY <2>1, <2>2 DEF Disjoint
  <2> QED BY <1>1, <2>1, <2>2, <2>3
<1> QED BY <1>3, <1>4

\* The lookups by one predecessor find what a look at all rows would.
LEMMA CoveringExact ==
  ASSUME NEW V, NEW table \in SUBSET TableRows(V), Disjoint(table), NEW key \in Int
  PROVE  Covering(table, key) = {r \in table : r.first <= key /\ key <= r.last}
<1>1. \A r \in table : r.first \in Int /\ r.last \in Int /\ r.first <= r.last
  BY DEF TableRows, Disjoint
<1>2. ASSUME NEW r \in table, r.first <= key, key <= r.last PROVE r \in Predecessor(table, key)
  <2>1. SUFFICES ASSUME NEW q \in table, q.first <= key, ~ (q.first <= r.first) PROVE FALSE
    BY <1>2 DEF Predecessor
  <2>2. r.last < q.first \/ q.last < r.first
    BY <1>1, <2>1 DEF Disjoint
  <2> QED BY <1>1, <1>2, <2>1, <2>2
<1> QED BY <1>1, <1>2 DEF Covering, Predecessor

LEMMA OverlappingExact ==
  ASSUME NEW V, NEW table \in SUBSET TableRows(V), Disjoint(table), \A r \in table : 1 <= r.first,
         NEW lo \in Int, NEW hi \in Int
  PROVE  Overlapping(table, lo, hi) = {r \in table : r.first <= hi /\ lo <= r.last}
<1> DEFINE start == IF Predecessor(table, lo) = {} THEN lo
                    ELSE (CHOOSE r \in Predecessor(table, lo) : TRUE).first
<1>1. \A r \in table : r.first \in Int /\ r.last \in Int /\ r.first <= r.last
  BY DEF TableRows, Disjoint
<1>2. Overlapping(table, lo, hi) = {r \in table : start <= r.first /\ r.first <= hi /\ r.last >= lo}
  BY DEF Overlapping
<1>3. start \in Int
  BY <1>1 DEF Predecessor
<1>4. ASSUME NEW r \in table, r.first <= hi, lo <= r.last PROVE start <= r.first
  <2>1. CASE Predecessor(table, lo) = {}
    <3>1. SUFFICES ASSUME r.first < lo PROVE FALSE
      BY <1>1, <2>1
    <3> DEFINE T == {n \in Nat : \E q \in table : q.first <= lo /\ lo - q.first = n}
    <3>2. T \in SUBSET Nat /\ lo - r.first \in T
      BY <1>1, <3>1
    <3>3. PICK n \in T : \A m \in T : n <= m
      <4> HIDE DEF T
      <4> QED BY <3>2, LeastNumber
    <3>4. PICK q \in table : q.first <= lo /\ lo - q.first = n
      BY <3>3
    <3>5. ASSUME NEW p \in table, p.first <= lo PROVE p.first <= q.first
      <4>1. lo - p.first \in T
        BY <1>1, <3>5
      <4>2. n <= lo - p.first
        BY <3>3, <4>1
      <4> QED BY <1>1, <3>4, <4>2
    <3>6. q \in Predecessor(table, lo)
      BY <3>4, <3>5 DEF Predecessor
    <3> QED BY <2>1, <3>6
  <2>2. CASE Predecessor(table, lo) # {}
    <3>1. PICK p \in Predecessor(table, lo) : start = p.first
      BY <2>2
    <3>2. p \in table /\ p.first <= lo /\ \A q \in table : q.first <= lo => q.first <= p.first
      BY DEF Predecessor
    <3>3. SUFFICES ASSUME r.first < p.first PROVE FALSE
      BY <1>1, <3>1, <3>2
    <3>4. r.last < p.first \/ p.last < r.first
      BY <1>1, <3>2, <3>3 DEF Disjoint
    <3> QED BY <1>1, <1>4, <3>2, <3>3, <3>4
  <2> QED BY <2>1, <2>2
<1> HIDE DEF start
<1> QED BY <1>2, <1>4

\* The turns of the loop that coalesces.
LEMMA CoalesceLoop ==
  ASSUME NEW V, NEW S \in SUBSET TableRows(V), IsFiniteSet(S), Disjoint(S), NEW Good, <<{}, {}>> \in Good,
         \A a \in SUBSET TableRows(V), x \in S :
           <<a, Before(S, ByFirst(S), x)>> \in Good => <<JoinEqual(a, x), Before(S, ByFirst(S), x) \cup {x}>> \in Good
  PROVE  <<Coalesce(S), S>> \in Good
<1> DEFINE order == ByFirst(S)
           N == Cardinality(S)
           A == SUBSET TableRows(V)
           body == [p \in A \X S |-> JoinEqual(p[1], p[2])]
           Is(t) == t = [n \in 0 .. N |-> IF n = 0 THEN {} ELSE JoinEqual(t[n - 1], InOrder(S, order)[n])]
           run == CHOOSE t : Is(t)
<1>1. Orders(order, S)
  BY RowsInOrder
<1>2. N \in Nat /\ \A n \in 1 .. N : InOrder(S, order)[n] \in S
  BY <1>1, TurnOfEach
<1>3. ASSUME NEW a \in A, NEW x \in S PROVE JoinEqual(a, x) \in A /\ body[<<a, x>>] = JoinEqual(a, x)
  <2>1. JoinEqual(a, x) \in A
    BY DEF JoinEqual, Interval, TableRows
  <2> QED BY <2>1
<1>4. IsLoop(S, order, A, {}, body)
  <2>1. {} \in A
    OBVIOUS
  <2>2. body \in [A \X S -> A]
    BY <1>3
  <2> QED BY <1>1, <2>1, <2>2 DEF IsLoop
<1>5. PassedOn(Good, S, order, A, {}, body)
  <2>1. \A a \in A, x \in S :
           <<a, Before(S, order, x)>> \in Good => <<JoinEqual(a, x), Before(S, order, x) \cup {x}>> \in Good
    OBVIOUS
  <2> HIDE DEF body, order, A
  <2> QED BY <1>3, <2>1 DEF PassedOn
<1>6. Coalesce(S) = run[N]
  BY DEF Coalesce, InTurn
<1> HIDE DEF body, order, N, A
<1>7. \E t : Is(t)
  <2>1. PICK t \in [0 .. N -> A] : IsRun(t, S, order, {}, body)
    BY <1>4, LoopRuns DEF N
  <2>2. ASSUME NEW n \in 0 .. N
        PROVE  t[n] = (IF n = 0 THEN {} ELSE JoinEqual(t[n - 1], InOrder(S, order)[n]))
    <3>1. CASE n = 0
      BY <2>1, <3>1 DEF IsRun
    <3>2. CASE n # 0
      <4>1. n \in 1 .. N /\ n - 1 \in 0 .. N
        BY <1>2, <3>2
      <4> QED BY <1>2, <1>3, <2>1, <3>2, <4>1 DEF IsRun, N
    <3> QED BY <3>1, <3>2
  <2>3. t = [n \in 0 .. N |-> t[n]]
    OBVIOUS
  <2> QED BY <2>2, <2>3
<1>8. Is(run)
  BY <1>7
<1> HIDE DEF run
<1>9. Follows(run, S, order, A, {}, body)
  <2>1. \A n \in 0 .. N : run[n] = IF n = 0 THEN {} ELSE JoinEqual(run[n - 1], InOrder(S, order)[n])
    BY <1>8
  <2> HIDE DEF Is
  <2>2. run[0] = {}
    BY <1>2, <2>1
  <2>3. ASSUME NEW n \in 1 .. N, run[n - 1] \in A PROVE run[n] = body[<<run[n - 1], InOrder(S, order)[n]>>]
    <3>1. run[n] = JoinEqual(run[n - 1], InOrder(S, order)[n])
      BY <1>2, <2>1
    <3> QED BY <1>2, <1>3, <2>3, <3>1
  <2> QED BY <2>2, <2>3 DEF Follows, N
<1>10. <<run[N], S>> \in Good
  BY <1>4, <1>5, <1>9, LoopLeads DEF N
<1> QED BY <1>6, <1>10

LEMMA JoinEqualStep ==
  ASSUME NEW V, NEW a \in SUBSET TableRows(V), Disjoint(a), Joined(a), NEW r \in TableRows(V), r.first <= r.last,
         \A t \in a : t.last < r.first
  PROVE  /\ JoinEqual(a, r) \in SUBSET TableRows(V)
         /\ IsFiniteSet(a) => IsFiniteSet(JoinEqual(a, r))
         /\ Disjoint(JoinEqual(a, r)) /\ Joined(JoinEqual(a, r))
         /\ \A x \in Int : \A v : Gives(JoinEqual(a, r), x, v) <=> Gives(a, x, v) \/ Gives({r}, x, v)
         /\ \A t \in JoinEqual(a, r) : t.last = r.last \/ t \in a
<1> DEFINE before == {q \in a : q.last + 1 = r.first /\ q.value = r.value}
           last == CHOOSE q \in before : TRUE
           j == Interval(last.first, r.last, r.value)
<1>0. \A t \in a : t.first \in Int /\ t.last \in Int /\ t.value \in V /\ t.first <= t.last
  BY DEF TableRows, Disjoint
<1>1. r.first \in Int /\ r.last \in Int /\ r.value \in V
  BY DEF TableRows
<1>2. CASE before = {}
  <2>1. JoinEqual(a, r) = a \cup {r}
    BY <1>2 DEF JoinEqual
  <2>2. IsFiniteSet(a) => IsFiniteSet(a \cup {r})
    BY FS_AddElement
  <2>3. Disjoint(a \cup {r})
    BY <1>0, <1>1 DEF Disjoint
  <2>4. Joined(a \cup {r})
    <3> SUFFICES ASSUME NEW p \in a \cup {r}, NEW q \in a \cup {r}, p.last + 1 = q.first, p.value = q.value PROVE FALSE
      BY DEF Joined
    <3>1. CASE p \in a /\ q \in a
      BY <3>1 DEF Joined
    <3>2. CASE p = r
      <4>1. q = r \/ q.last < r.first
        OBVIOUS
      <4> QED BY <1>0, <1>1, <3>2, <4>1
    <3>3. CASE p \in a /\ q = r
      BY <1>2, <3>3
    <3> QED BY <3>1, <3>2, <3>3
  <2>5. \A x \in Int : \A v : Gives(a \cup {r}, x, v) <=> Gives(a, x, v) \/ Gives({r}, x, v)
    BY DEF Gives
  <2> QED BY <2>1, <2>2, <2>3, <2>4, <2>5
<1>3. CASE before # {}
  <2>1. last \in a /\ last.last + 1 = r.first /\ last.value = r.value
    BY <1>3
  <2>2. before = {last}
    <3>1. SUFFICES ASSUME NEW t \in before, t # last PROVE FALSE
      BY <1>3
    <3>2. t \in a /\ t.last + 1 = r.first
      OBVIOUS
    <3>3. t.last < last.first \/ last.last < t.first
      BY <2>1, <3>1, <3>2 DEF Disjoint
    <3> QED BY <1>0, <1>1, <2>1, <3>2, <3>3
  <2> HIDE DEF last
  <2>3. JoinEqual(a, r) = (a \ {last}) \cup {j}
    BY <1>3, <2>2 DEF JoinEqual, last
  <2>4. j.first = last.first /\ j.last = r.last /\ j.value = r.value /\ j \in TableRows(V)
    BY <1>0, <1>1, <2>1 DEF Interval, TableRows
  <2>5. \A t \in a \ {last} : t.last < j.first /\ t.last < r.first
    <3> TAKE t \in a \ {last}
    <3>1. t.last < last.first \/ last.last < t.first
      BY <2>1 DEF Disjoint
    <3> QED BY <1>0, <1>1, <2>1, <2>4, <3>1
  <2> HIDE DEF j
  <2>6. Disjoint((a \ {last}) \cup {j})
    <3> DEFINE b == (a \ {last}) \cup {j}
    <3>1. \A u \in b : u.first <= u.last
      BY <1>0, <1>1, <2>1, <2>4
    <3>2. ASSUME NEW u \in b, NEW v \in b, u # v PROVE u.last < v.first \/ v.last < u.first
      <4>1. CASE u = j \/ v = j
        BY <2>5, <3>2, <4>1
      <4>2. CASE u # j /\ v # j
        BY <3>2, <4>2 DEF Disjoint
      <4> QED BY <4>1, <4>2
    <3> QED BY <3>1, <3>2 DEF Disjoint
  <2>7. Joined((a \ {last}) \cup {j})
    <3> SUFFICES ASSUME NEW p \in (a \ {last}) \cup {j}, NEW q \in (a \ {last}) \cup {j},
                        p.last + 1 = q.first, p.value = q.value
                 PROVE  FALSE
      BY DEF Joined
    <3>1. CASE p \in a /\ q \in a
      BY <3>1 DEF Joined
    <3>2. CASE p = j
      BY <1>0, <1>1, <2>1, <2>4, <2>5, <3>2
    <3>3. CASE p \in a /\ q = j
      BY <2>1, <2>4, <3>3 DEF Joined
    <3> QED BY <3>1, <3>2, <3>3
  <2>8. \A x \in Int : \A v : Gives((a \ {last}) \cup {j}, x, v) <=> Gives(a, x, v) \/ Gives({r}, x, v)
    <3> SUFFICES ASSUME NEW x \in Int, NEW v
                 PROVE  Gives((a \ {last}) \cup {j}, x, v) <=> Gives(a, x, v) \/ Gives({r}, x, v)
      OBVIOUS
    <3>1. j.first <= x /\ x <= j.last /\ j.value = v
            <=> (last.first <= x /\ x <= last.last /\ last.value = v) \/ (r.first <= x /\ x <= r.last /\ r.value = v)
      BY <1>0, <1>1, <2>1, <2>4
    <3> QED BY <2>1, <3>1 DEF Gives
  <2>9. IsFiniteSet(a) => IsFiniteSet((a \ {last}) \cup {j})
    BY FS_AddElement, FS_RemoveElement
  <2> QED BY <2>3, <2>4, <2>6, <2>7, <2>8, <2>9
<1> QED BY <1>2, <1>3

\* Coalescing says the same of every key, as a table that is well kept.
LEMMA CoalesceExact ==
  ASSUME NEW V, NEW S \in SUBSET TableRows(V), IsFiniteSet(S), Disjoint(S)
  PROVE  /\ Coalesce(S) \in SUBSET TableRows(V) /\ IsFiniteSet(Coalesce(S))
         /\ Disjoint(Coalesce(S)) /\ Joined(Coalesce(S))
         /\ \A x \in Int : \A v : Gives(Coalesce(S), x, v) <=> Gives(S, x, v)
<1> DEFINE A == SUBSET TableRows(V)
           Kept(a, D) == /\ IsFiniteSet(a) /\ Disjoint(a) /\ Joined(a)
                         /\ \A x \in Int : \A v : Gives(a, x, v) <=> Gives(D, x, v)
                         /\ \A t \in a : \E d \in D : t.last = d.last
           Good == {p \in A \X SUBSET S : Kept(p[1], p[2])}
<1>1. <<{}, {}>> \in Good
  <2>1. Kept({}, {})
    BY FS_EmptySet DEF Disjoint, Joined
  <2> HIDE DEF Kept
  <2> QED BY <2>1
<1>2. ASSUME NEW a \in A, NEW r \in S, <<a, Before(S, ByFirst(S), r)>> \in Good
      PROVE  <<JoinEqual(a, r), Before(S, ByFirst(S), r) \cup {r}>> \in Good
  <2> DEFINE D == Before(S, ByFirst(S), r)
  <2>1. Kept(a, D)
    BY <1>2
  <2>2. D \in SUBSET S /\ \A d \in D : d.last < r.first
    BY RowsInOrder
  <2> HIDE DEF D
  <2>3. r \in TableRows(V) /\ r.first <= r.last /\ \A t \in a : t.last < r.first
    BY <2>1, <2>2 DEF Disjoint
  <2>4. /\ JoinEqual(a, r) \in A /\ IsFiniteSet(JoinEqual(a, r))
        /\ Disjoint(JoinEqual(a, r)) /\ Joined(JoinEqual(a, r))
        /\ \A x \in Int : \A v : Gives(JoinEqual(a, r), x, v) <=> Gives(a, x, v) \/ Gives({r}, x, v)
        /\ \A t \in JoinEqual(a, r) : t.last = r.last \/ t \in a
    BY <2>1, <2>3, JoinEqualStep
  <2>5. \A x \in Int : \A v : Gives(JoinEqual(a, r), x, v) <=> Gives(D \cup {r}, x, v)
    <3>1. \A x \in Int : \A v : Gives(D \cup {r}, x, v) <=> Gives(D, x, v) \/ Gives({r}, x, v)
      BY DEF Gives
    <3> QED BY <2>1, <2>4, <3>1
  <2>6. \A t \in JoinEqual(a, r) : \E d \in D \cup {r} : t.last = d.last
    BY <2>1, <2>4
  <2>7. Kept(JoinEqual(a, r), D \cup {r})
    BY <2>4, <2>5, <2>6
  <2> HIDE DEF A, Kept
  <2>8. D \cup {r} \in SUBSET S
    BY <2>2
  <2> QED BY <2>4, <2>7, <2>8 DEF D
<1> HIDE DEF Good
<1>3. <<Coalesce(S), S>> \in Good
  BY <1>1, <1>2, CoalesceLoop
<1> QED BY <1>3 DEF Good

(* Coverage. ****************************************************************)

CoverInv ==
  /\ spans \in SUBSET (Int \X Int) /\ IsFiniteSet(spans)
  /\ Canonical(spans)
  /\ \A x : x \in covered <=> x \in Points(spans)

LEMMA SomeSpans ==
  ASSUME NEW some \in SUBSET AllSpans
  PROVE  some \in SUBSET (Int \X Int) /\ IsFiniteSet(some) /\ \A s \in some : 1 <= First(s) /\ First(s) <= End(s)
<1>1. MaxCover \in Nat
  BY RangesAssumption
<1>2. IsFiniteSet(1 .. MaxCover)
  BY <1>1, FS_Interval
<1>3. IsFiniteSet((1 .. MaxCover) \X (1 .. MaxCover))
  BY <1>2, FS_Product
<1>4. some \in SUBSET ((1 .. MaxCover) \X (1 .. MaxCover))
  BY DEF AllSpans
<1>5. IsFiniteSet(some)
  BY <1>3, <1>4, FS_Subset
<1>6. \A s \in some : s \in (1 .. MaxCover) \X (1 .. MaxCover) /\ First(s) <= End(s)
  BY DEF AllSpans
<1>7. \A s \in some : s \in Int \X Int /\ 1 <= First(s)
  BY <1>1, <1>6 DEF First
<1> QED BY <1>5, <1>6, <1>7

LEMMA StageCovers ==
  ASSUME CoverInv, NEW more \in SUBSET AllSpans, Stage(more)
  PROVE  CoverInv'
<1>1. /\ spans \in SUBSET (Int \X Int) /\ IsFiniteSet(spans) /\ \A s \in spans : 1 <= First(s) /\ First(s) <= End(s)
      /\ \A x : x \in covered <=> x \in Points(spans)
  BY DEF CoverInv, Canonical
<1>2. more \in SUBSET (Int \X Int) /\ IsFiniteSet(more) /\ \A s \in more : 1 <= First(s) /\ First(s) <= End(s)
  BY SomeSpans
<1> DEFINE all == spans \cup more
<1>3. all \in SUBSET (Int \X Int) /\ IsFiniteSet(all) /\ \A s \in all : 1 <= First(s) /\ First(s) <= End(s)
  BY <1>1, <1>2, FS_Union
<1>4. Points(all) = Points(spans) \cup Points(more)
  BY DEF Points
<1>5. spans' = Merge(all) /\ covered' = covered \cup Points(more)
  BY DEF Stage
<1> HIDE DEF all
<1>6. spans' \in SUBSET (Int \X Int) /\ IsFiniteSet(spans') /\ Canonical(spans') /\ Points(spans') = Points(all)
  BY <1>3, <1>5, MergeExact
<1>7. \A x : x \in covered' <=> x \in Points(spans')
  BY <1>1, <1>4, <1>5, <1>6
<1> QED BY <1>6, <1>7 DEF CoverInv

LEMMA WithdrawCovers ==
  ASSUME CoverInv, NEW cut \in SUBSET AllSpans, Withdraw(cut)
  PROVE  CoverInv'
<1>1. /\ spans \in SUBSET (Int \X Int) /\ IsFiniteSet(spans) /\ \A s \in spans : 1 <= First(s) /\ First(s) <= End(s)
      /\ \A x : x \in covered <=> x \in Points(spans)
  BY DEF CoverInv, Canonical
<1>2. cut \in SUBSET (Int \X Int) /\ IsFiniteSet(cut) /\ \A s \in cut : 1 <= First(s) /\ First(s) <= End(s)
  BY SomeSpans
<1>3. spans' = Subtract(spans, cut) /\ covered' = covered \ Points(cut)
  BY DEF Withdraw
<1>4. /\ Subtract(spans, cut) \in SUBSET (Int \X Int) /\ IsFiniteSet(Subtract(spans, cut))
      /\ Canonical(Subtract(spans, cut))
      /\ \A x \in Int : x \in Points(Subtract(spans, cut)) <=> x \in Points(spans) /\ x \notin Points(cut)
  BY <1>1, <1>2, SubtractExact
<1>5. \A x : x \in Points(spans) => x \in Int
  BY <1>1, InPoints
<1>6. \A x : x \in Points(spans') => x \in Int
  BY <1>3, <1>4, InPoints
<1>7. \A x : x \in covered' <=> x \in Points(spans')
  BY <1>1, <1>3, <1>4, <1>5, <1>6
<1> QED BY <1>3, <1>4, <1>7 DEF CoverInv

LEMMA CoverStart == RangesInit => CoverInv
<1> SUFFICES ASSUME RangesInit PROVE CoverInv
  OBVIOUS
<1>1. spans = {} /\ covered = {}
  BY DEF RangesInit
<1>2. IsFiniteSet({})
  BY FS_EmptySet
<1> QED BY <1>1, <1>2 DEF CoverInv, Canonical, Points

LEMMA CoverNext ==
  ASSUME CoverInv, [RangesNext]_<<subject, ranges, latest, importVars, spans, covered>>
  PROVE  CoverInv'
<1>1. CASE UNCHANGED <<spans, covered>>
  BY <1>1 DEF CoverInv
<1>2. CASE CoverStep
  <2>1. PICK some \in SUBSET AllSpans : Stage(some) \/ Withdraw(some)
    BY <1>2 DEF CoverStep, CoverageNext
  <2> QED BY <2>1, StageCovers, WithdrawCovers
<1> QED BY <1>1, <1>2 DEF RangesNext, SightStep, TranslateStep

\* Coverage is the set of ids staged and not withdrawn since, and its list is well kept:
\* merge and subtract of cache/unit_coverage.py, for spans of any length and number.
THEOREM CoverageIsExact == RangesSpec => []CoverageExact
<1>1. CoverInv => CoverageExact
  <2> SUFFICES ASSUME CoverInv PROVE CoverageExact
    OBVIOUS
  <2>1. \A x : x \in covered <=> x \in Points(spans)
    BY DEF CoverInv
  <2>2. Points(spans) = covered
    BY <2>1
  <2> QED BY <2>2 DEF CoverInv, CoverageExact
<1>2. CoverInv /\ [RangesNext]_<<subject, ranges, latest, importVars, spans, covered>> => CoverInv'
  BY CoverNext
<1> QED BY CoverStart, <1>1, <1>2, PTL DEF RangesSpec

(* One key of a table. ******************************************************)

\* The rows of a table without those that cover a key, but for what sticks out.
TakenOut(table, key) ==
  LET old  == Covering(table, key)
      kept == UNION {{Interval(r.first, key - 1, r.value), Interval(key + 1, r.last, r.value)} : r \in old}
  IN (table \ old) \cup {r \in kept : r.first <= r.last}

LEMMA TakeOutExact ==
  ASSUME NEW V, NEW table \in SUBSET TableRows(V), IsFiniteSet(table), Disjoint(table), Joined(table), NEW key \in Int
  PROVE  /\ TakenOut(table, key) \in SUBSET TableRows(V) /\ IsFiniteSet(TakenOut(table, key))
         /\ Disjoint(TakenOut(table, key)) /\ Joined(TakenOut(table, key))
         /\ \A x \in Int : \A v : Gives(TakenOut(table, key), x, v) <=> x # key /\ Gives(table, x, v)
         /\ \A q \in TakenOut(table, key) : \E r \in table : r.first <= q.first /\ q.last <= r.last
<1> DEFINE old == Covering(table, key)
           Halves(r) == {Interval(r.first, key - 1, r.value), Interval(key + 1, r.last, r.value)}
           kept == UNION {Halves(r) : r \in old}
           new == TakenOut(table, key)
<1>0. \A r \in table : r.first \in Int /\ r.last \in Int /\ r.value \in V /\ r.first <= r.last
  BY DEF TableRows, Disjoint
<1>1. old = {r \in table : r.first <= key /\ key <= r.last}
  BY CoveringExact
<1>2. new = (table \ old) \cup {r \in kept : r.first <= r.last}
  BY DEF TakenOut
<1>3. CASE old = {}
  <2>1. new = table
    BY <1>2, <1>3
  <2>2. \A x \in Int : \A v : Gives(table, x, v) => x # key
    BY <1>1, <1>3 DEF Gives
  <2> HIDE DEF new
  <2>3. \A q \in new : q.first <= q.first /\ q.last <= q.last
    BY <1>0, <2>1
  <2> QED BY <2>1, <2>2, <2>3 DEF new
<1>4. CASE old # {}
  <2>1. PICK r \in table : r.first <= key /\ key <= r.last
    BY <1>1, <1>4
  <2>2. \A q \in old : q = r
    BY <1>1, <2>1, OneRow
  <2>3. old = {r}
    BY <1>1, <2>1, <2>2
  <2> DEFINE left == Interval(r.first, key - 1, r.value)
             right == Interval(key + 1, r.last, r.value)
  <2>4. kept = {left, right}
    BY <2>3
  <2>5. new = (table \ {r}) \cup {p \in {left, right} : p.first <= p.last}
    BY <1>2, <2>3, <2>4
  <2>6. /\ left.first = r.first /\ left.last = key - 1 /\ left.value = r.value /\ left \in TableRows(V)
        /\ right.first = key + 1 /\ right.last = r.last /\ right.value = r.value /\ right \in TableRows(V)
    BY <1>0, <2>1 DEF Interval, TableRows
  <2> HIDE DEF old, kept, left, right, new
  <2>7. new \in SUBSET TableRows(V)
    BY <2>5, <2>6
  <2>8. IsFiniteSet(new)
    <3>1. IsFiniteSet({left, right})
      <4>1. IsFiniteSet({left})
        BY FS_Singleton
      <4>2. {left, right} = {left} \cup {right}
        OBVIOUS
      <4>3. IsFiniteSet({left} \cup {right})
        BY <4>1, FS_AddElement
      <4> QED BY <4>2, <4>3
    <3>2. IsFiniteSet({p \in {left, right} : p.first <= p.last})
      BY <3>1, FS_Subset
    <3>3. IsFiniteSet(table \ {r})
      BY FS_RemoveElement
    <3> QED BY <2>5, <3>2, <3>3, FS_Union
  <2>9. \A q \in table : q # r => q.last < r.first \/ r.last < q.first
    BY <2>1 DEF Disjoint
  <2>10. \A q \in new : \/ q \in table /\ q # r
                        \/ q = left /\ r.first <= key - 1
                        \/ q = right /\ key + 1 <= r.last
    BY <2>5, <2>6
  <2>11. Disjoint(new)
    <3>1. \A q \in new : q.first <= q.last
      BY <1>0, <2>6, <2>10
    <3>2. ASSUME NEW p \in new, NEW q \in new, p # q PROVE p.last < q.first \/ q.last < p.first
      <4>1. CASE p \in table /\ q \in table /\ p # r /\ q # r
        BY <3>2, <4>1 DEF Disjoint
      <4>2. CASE p = left \/ p = right
        BY <1>0, <2>1, <2>6, <2>9, <2>10, <3>2, <4>2
      <4>3. CASE q = left \/ q = right
        BY <1>0, <2>1, <2>6, <2>9, <2>10, <3>2, <4>3
      <4> QED BY <2>10, <4>1, <4>2, <4>3
    <3> QED BY <3>1, <3>2 DEF Disjoint
  <2>12. Joined(new)
    <3> SUFFICES ASSUME NEW p \in new, NEW q \in new, p.last + 1 = q.first, p.value = q.value PROVE FALSE
      BY DEF Joined
    <3>1. \A u \in table : u.last + 1 = r.first => u.value # r.value
      BY <2>1 DEF Joined
    <3>2. \A u \in table : r.last + 1 = u.first => r.value # u.value
      BY <2>1 DEF Joined
    <3>3. CASE p \in table /\ p # r /\ q \in table /\ q # r
      BY <3>3 DEF Joined
    <3>4. CASE p \in table /\ p # r /\ ~ (q \in table /\ q # r)
      BY <1>0, <2>1, <2>6, <2>9, <2>10, <3>1, <3>4
    <3>5. CASE ~ (p \in table /\ p # r) /\ q \in table /\ q # r
      BY <1>0, <2>1, <2>6, <2>9, <2>10, <3>2, <3>5
    <3>6. CASE ~ (p \in table /\ p # r) /\ ~ (q \in table /\ q # r)
      BY <1>0, <2>1, <2>6, <2>10, <3>6
    <3> QED BY <3>3, <3>4, <3>5, <3>6
  <2>13. ASSUME NEW x \in Int, NEW v PROVE Gives(new, x, v) <=> x # key /\ Gives(table, x, v)
    <3>1. ASSUME Gives(new, x, v) PROVE x # key /\ Gives(table, x, v)
      <4>1. PICK q \in new : q.first <= x /\ x <= q.last /\ q.value = v
        BY <3>1 DEF Gives
      <4>2. CASE q \in table /\ q # r
        <5>1. q.last < r.first \/ r.last < q.first
          BY <2>9, <4>2
        <5>2. x # key
          BY <1>0, <2>1, <4>1, <4>2, <5>1
        <5> QED BY <4>1, <4>2, <5>2 DEF Gives
      <4>3. CASE q = left \/ q = right
        <5>1. x # key /\ r.first <= x /\ x <= r.last /\ r.value = v
          BY <1>0, <2>1, <2>6, <4>1, <4>3
        <5> QED BY <2>1, <5>1 DEF Gives
      <4> QED BY <2>10, <4>2, <4>3
    <3>2. ASSUME x # key, Gives(table, x, v) PROVE Gives(new, x, v)
      <4>1. PICK q \in table : q.first <= x /\ x <= q.last /\ q.value = v
        BY <3>2 DEF Gives
      <4>2. CASE q # r
        BY <2>5, <4>1, <4>2 DEF Gives
      <4>3. CASE q = r /\ x < key
        <5>1. left.first <= x /\ x <= left.last /\ left.value = v /\ left.first <= left.last
          BY <1>0, <2>1, <2>6, <4>1, <4>3
        <5>2. left \in new
          BY <2>5, <5>1
        <5> QED BY <5>1, <5>2 DEF Gives
      <4>4. CASE q = r /\ key < x
        <5>1. right.first <= x /\ x <= right.last /\ right.value = v /\ right.first <= right.last
          BY <1>0, <2>1, <2>6, <4>1, <4>4
        <5>2. right \in new
          BY <2>5, <5>1
        <5> QED BY <5>1, <5>2 DEF Gives
      <4> QED BY <3>2, <4>2, <4>3, <4>4
    <3> QED BY <3>1, <3>2
  <2>14. \A q \in new : \E u \in table : u.first <= q.first /\ q.last <= u.last
    <3>1. \A q \in table : q.first <= q.first /\ q.last <= q.last
      BY <1>0
    <3>2. r.first <= left.first /\ left.last <= r.last /\ r.first <= right.first /\ right.last <= r.last
      BY <1>0, <2>1, <2>6
    <3> QED BY <2>1, <2>10, <3>1, <3>2
  <2> QED BY <2>7, <2>8, <2>11, <2>12, <2>13, <2>14 DEF new
<1> QED BY <1>3, <1>4

\* A row of one key, where the table says nothing of it.
LEMMA InsertExact ==
  ASSUME NEW V, NEW table \in SUBSET TableRows(V), IsFiniteSet(table), Disjoint(table), Joined(table), NEW key \in Int,
         \A r \in table : ~ (r.first <= key /\ key <= r.last), NEW value \in V
  PROVE  /\ Insert(table, key, value) \in SUBSET TableRows(V) /\ IsFiniteSet(Insert(table, key, value))
         /\ Disjoint(Insert(table, key, value)) /\ Joined(Insert(table, key, value))
         /\ \A x \in Int : \A v : Gives(Insert(table, key, value), x, v)
                                <=> Gives(table, x, v) \/ (x = key /\ v = value)
<1> DEFINE beside == {r \in table : r.value = value /\ (r.last = key - 1 \/ r.first = key + 1)}
           Lower == {r \in beside : r.last = key - 1}
           Upper == {r \in beside : r.first = key + 1}
           lo == IF Lower # {} THEN (CHOOSE r \in Lower : TRUE).first ELSE key
           hi == IF Upper # {} THEN (CHOOSE r \in Upper : TRUE).last ELSE key
           j == Interval(lo, hi, value)
           rest == table \ beside
           new == rest \cup {j}
<1>0. \A r \in table : r.first \in Int /\ r.last \in Int /\ r.value \in V /\ r.first <= r.last
  BY DEF TableRows, Disjoint
<1>1. Insert(table, key, value) = new
  <2>1. (\E r \in beside : r.last = key - 1) <=> Lower # {}
    OBVIOUS
  <2>2. (\E r \in beside : r.first = key + 1) <=> Upper # {}
    OBVIOUS
  <2>3. (CHOOSE r \in beside : r.last = key - 1) = CHOOSE r \in Lower : TRUE
    OBVIOUS
  <2>4. (CHOOSE r \in beside : r.first = key + 1) = CHOOSE r \in Upper : TRUE
    OBVIOUS
  <2> QED BY <2>1, <2>2, <2>3, <2>4 DEF Insert
<1>2. /\ lo \in Int /\ lo <= key
      /\ \A r \in beside : r.last = key - 1 => r.first = lo
      /\ lo < key => \E r \in beside : r.last = key - 1 /\ r.first = lo
  <2>1. CASE Lower = {}
    BY <2>1
  <2>2. CASE Lower # {}
    <3> DEFINE p == CHOOSE r \in Lower : TRUE
    <3>1. p \in Lower
      BY <2>2
    <3>2. lo = p.first
      BY <2>2
    <3> HIDE DEF p, lo
    <3>3. p \in beside /\ p \in table /\ p.last = key - 1
      BY <3>1
    <3>4. ASSUME NEW r \in beside, r.last = key - 1 PROVE r = p
      <4>1. r \in table /\ r.first <= key - 1 /\ p.first <= key - 1 /\ key - 1 \in Int
        BY <1>0, <3>3, <3>4
      <4> QED BY <3>3, <3>4, <4>1, OneRow
    <3> QED BY <1>0, <3>2, <3>3, <3>4
  <2> QED BY <2>1, <2>2
<1>3. /\ hi \in Int /\ key <= hi
      /\ \A r \in beside : r.first = key + 1 => r.last = hi
      /\ key < hi => \E r \in beside : r.first = key + 1 /\ r.last = hi
  <2>1. CASE Upper = {}
    BY <2>1
  <2>2. CASE Upper # {}
    <3> DEFINE p == CHOOSE r \in Upper : TRUE
    <3>1. p \in Upper
      BY <2>2
    <3>2. hi = p.last
      BY <2>2
    <3> HIDE DEF p, hi
    <3>3. p \in beside /\ p \in table /\ p.first = key + 1
      BY <3>1
    <3>4. ASSUME NEW r \in beside, r.first = key + 1 PROVE r = p
      <4>1. r \in table /\ key + 1 <= r.last /\ key + 1 <= p.last /\ key + 1 \in Int
        BY <1>0, <3>3, <3>4
      <4> QED BY <3>3, <3>4, <4>1, OneRow
    <3> QED BY <1>0, <3>2, <3>3, <3>4
  <2> QED BY <2>1, <2>2
<1> HIDE DEF lo, hi
<1>4. j \in TableRows(V) /\ j.first = lo /\ j.last = hi /\ j.value = value
  BY <1>2, <1>3 DEF Interval, TableRows
<1> HIDE DEF j
<1>5. \A r \in rest : r \in table /\ (r.last < lo \/ hi < r.first)
  <2> TAKE r \in rest
  <2>1. r \in table /\ r.first <= r.last /\ r.first \in Int /\ r.last \in Int /\ (r.last < key \/ key < r.first)
    BY <1>0
  <2>2. CASE r.last < key
    <3>1. CASE lo < key
      <4>1. PICK p \in beside : p.last = key - 1 /\ p.first = lo
        BY <1>2, <3>1
      <4>2. r.last < p.first \/ p.last < r.first
        BY <2>1, <4>1 DEF Disjoint
      <4> QED BY <1>2, <2>1, <2>2, <4>1, <4>2
    <3> QED BY <1>2, <2>1, <2>2, <3>1
  <2>3. CASE key < r.first
    <3>1. CASE key < hi
      <4>1. PICK p \in beside : p.first = key + 1 /\ p.last = hi
        BY <1>3, <3>1
      <4>2. r.last < p.first \/ p.last < r.first
        BY <2>1, <4>1 DEF Disjoint
      <4> QED BY <1>3, <2>1, <2>3, <4>1, <4>2
    <3> QED BY <1>3, <2>1, <2>3, <3>1
  <2> QED BY <2>1, <2>2, <2>3
<1>6. \A r \in rest : r.value = value => r.last + 1 # lo /\ hi + 1 # r.first
  <2> SUFFICES ASSUME NEW r \in rest, r.value = value PROVE r.last + 1 # lo /\ hi + 1 # r.first
    OBVIOUS
  <2>1. r \in table /\ r.last # key - 1 /\ r.first # key + 1 /\ r.first \in Int /\ r.last \in Int
    BY <1>0
  <2>2. ASSUME r.last + 1 = lo PROVE FALSE
    <3>1. lo < key
      BY <1>2, <2>1, <2>2
    <3>2. PICK p \in beside : p.last = key - 1 /\ p.first = lo
      BY <1>2, <3>1
    <3> QED BY <2>1, <2>2, <3>2 DEF Joined
  <2>3. ASSUME hi + 1 = r.first PROVE FALSE
    <3>1. key < hi
      BY <1>3, <2>1, <2>3
    <3>2. PICK p \in beside : p.first = key + 1 /\ p.last = hi
      BY <1>3, <3>1
    <3> QED BY <2>1, <2>3, <3>2 DEF Joined
  <2> QED BY <2>2, <2>3
<1>7. beside \in SUBSET table /\ \A r \in beside : /\ r.value = value
                                                    /\ \/ r.last = key - 1 /\ r.first = lo
                                                       \/ r.first = key + 1 /\ r.last = hi
  BY <1>2, <1>3
<1>8. \A r \in table : r \in beside \/ r \in rest
  OBVIOUS
<1> HIDE DEF beside, rest
<1>9. \A r \in new : r = j \/ (r \in rest /\ r \in table)
  BY <1>5
<1>10. new \in SUBSET TableRows(V) /\ IsFiniteSet(new)
  <2>1. IsFiniteSet(rest)
    <3>1. rest \in SUBSET table
      BY <1>5
    <3> QED BY <3>1, FS_Subset
  <2> QED BY <1>4, <1>9, <2>1, FS_AddElement
<1>11. Disjoint(new)
  <2>1. \A r \in new : r.first <= r.last
    BY <1>0, <1>2, <1>3, <1>4, <1>9
  <2>2. ASSUME NEW p \in new, NEW q \in new, p # q PROVE p.last < q.first \/ q.last < p.first
    <3>1. CASE p = j \/ q = j
      BY <1>4, <1>5, <1>9, <2>2, <3>1
    <3>2. CASE p # j /\ q # j
      BY <1>9, <2>2, <3>2 DEF Disjoint
    <3> QED BY <3>1, <3>2
  <2> QED BY <2>1, <2>2 DEF Disjoint
<1>12. Joined(new)
  <2> SUFFICES ASSUME NEW p \in new, NEW q \in new, p.last + 1 = q.first, p.value = q.value PROVE FALSE
    BY DEF Joined
  <2>1. CASE p = j /\ q = j
    BY <1>2, <1>3, <1>4, <2>1
  <2>2. CASE p = j /\ q # j
    BY <1>4, <1>6, <1>9, <2>2
  <2>3. CASE p # j /\ q = j
    BY <1>4, <1>6, <1>9, <2>3
  <2>4. CASE p # j /\ q # j
    BY <1>9, <2>4 DEF Joined
  <2> QED BY <2>1, <2>2, <2>3, <2>4
<1>13. ASSUME NEW x \in Int, NEW v PROVE Gives(new, x, v) <=> Gives(table, x, v) \/ (x = key /\ v = value)
  <2>1. Gives(new, x, v) <=> Gives(rest, x, v) \/ (lo <= x /\ x <= hi /\ value = v)
    BY <1>4 DEF Gives
  <2>2. Gives(table, x, v) <=> Gives(rest, x, v) \/ Gives(beside, x, v)
    BY <1>5, <1>7, <1>8 DEF Gives
  <2>3. (lo <= x /\ x <= hi /\ value = v) <=> Gives(beside, x, v) \/ (x = key /\ v = value)
    <3>1. ASSUME lo <= x, x <= hi, value = v, x # key PROVE Gives(beside, x, v)
      <4>1. CASE x < key
        <5>1. PICK p \in beside : p.last = key - 1 /\ p.first = lo
          BY <1>2, <3>1, <4>1
        <5>2. p.first <= x /\ x <= p.last /\ p.value = v
          BY <1>2, <1>7, <3>1, <4>1, <5>1
        <5> QED BY <5>2 DEF Gives
      <4>2. CASE key < x
        <5>1. PICK p \in beside : p.first = key + 1 /\ p.last = hi
          BY <1>3, <3>1, <4>2
        <5>2. p.first <= x /\ x <= p.last /\ p.value = v
          BY <1>3, <1>7, <3>1, <4>2, <5>1
        <5> QED BY <5>2 DEF Gives
      <4> QED BY <3>1, <4>1, <4>2
    <3>2. ASSUME Gives(beside, x, v) PROVE lo <= x /\ x <= hi /\ value = v
      <4>1. PICK p \in beside : p.first <= x /\ x <= p.last /\ p.value = v
        BY <3>2 DEF Gives
      <4> QED BY <1>2, <1>3, <1>7, <4>1
    <3> QED BY <1>2, <1>3, <3>1, <3>2
  <2> HIDE DEF new
  <2> QED BY <2>1, <2>2, <2>3
<1> HIDE DEF new
<1> QED BY <1>1, <1>10, <1>11, <1>12, <1>13

(* Translation: the refreshed index. ****************************************)

Affines  == [offset : (-MaxKey) .. MaxLocal, eligible : BOOLEAN]
Bindings == [Keys -> [local : Locals, eligible : BOOLEAN] \cup {Unbound}]

\* A table the code keeps: rows of their type that say one thing of each key.
Tidy(table, V) ==
  table \in SUBSET TableRows(V) /\ IsFiniteSet(table) /\ Disjoint(table) /\ Joined(table)

Within(table, S) == \A x \in Int : \A v : Gives(table, x, v) => x \in S

\* What a table says of the keys K is what they are bound to.
Agrees(table, K) ==
  \A x \in K : \A v : Gives(table, x, v) <=> binding[x] # Unbound /\ v = Affine(x)

LEMMA AffineTyped ==
  ASSUME binding \in Bindings, NEW key \in Keys, binding[key] # Unbound
  PROVE  Affine(key) \in Affines
<1>1. MaxKey \in Nat /\ MaxLocal \in Nat
  BY ImportAssumption
<1>2. binding[key] \in [local : Locals, eligible : BOOLEAN]
  BY DEF Bindings
<1>3. binding[key].local \in 1 .. MaxLocal /\ binding[key].eligible \in BOOLEAN /\ key \in 1 .. MaxKey
  BY <1>2 DEF Locals, Keys
<1>4. binding[key].local - key \in (-MaxKey) .. MaxLocal
  BY <1>1, <1>3
<1> QED BY <1>3, <1>4 DEF Affine, Affines

LEMMA KeysAreIds == Keys \in SUBSET Int /\ IsFiniteSet(Keys) /\ \A x \in Keys : 1 <= x
<1>1. MaxKey \in Nat
  BY ImportAssumption
<1> QED BY <1>1, FS_Interval DEF Keys

\* One dirty key, read again from its binding; no other key changes.
LEMMA ReplaceExact ==
  ASSUME binding \in Bindings, NEW table, Tidy(table, Affines), Within(table, Keys), NEW key \in Keys
  PROVE  /\ Tidy(Replace(table, key), Affines) /\ Within(Replace(table, key), Keys)
         /\ \A x \in Int : \A v : x # key => (Gives(Replace(table, key), x, v) <=> Gives(table, x, v))
         /\ Agrees(Replace(table, key), {key})
<1> DEFINE part == Split(table, key)
           new == Replace(table, key)
<1>0. key \in Int
  BY KeysAreIds
<1>1. part = TakenOut(table, key)
  BY DEF Split, TakenOut
<1>2. /\ part \in SUBSET TableRows(Affines) /\ IsFiniteSet(part) /\ Disjoint(part) /\ Joined(part)
      /\ \A x \in Int : \A v : Gives(part, x, v) <=> x # key /\ Gives(table, x, v)
  BY <1>0, <1>1, TakeOutExact DEF Tidy
<1>3. new = IF binding[key] = Unbound THEN part ELSE Insert(part, key, Affine(key))
  BY DEF Replace
<1> HIDE DEF part, new
<1>4. CASE binding[key] = Unbound
  <2>1. Tidy(new, Affines)
    BY <1>2, <1>3, <1>4 DEF Tidy
  <2>2. Within(new, Keys)
    BY <1>2, <1>3, <1>4 DEF Within
  <2>3. \A v : ~ Gives(new, key, v)
    BY <1>0, <1>2, <1>3, <1>4
  <2>4. Agrees(new, {key})
    BY <1>4, <2>3 DEF Agrees
  <2>5. \A x \in Int : \A v : x # key => (Gives(new, x, v) <=> Gives(table, x, v))
    BY <1>2, <1>3, <1>4
  <2> QED BY <2>1, <2>2, <2>4, <2>5 DEF new
<1>5. CASE binding[key] # Unbound
  <2> DEFINE value == Affine(key)
  <2>1. value \in Affines
    BY <1>5, AffineTyped
  <2>2. new = Insert(part, key, value)
    BY <1>3, <1>5
  <2> HIDE DEF value
  <2>3. \A r \in part : ~ (r.first <= key /\ key <= r.last)
    <3> SUFFICES ASSUME NEW r \in part, r.first <= key /\ key <= r.last PROVE FALSE
      OBVIOUS
    <3>1. Gives(part, key, r.value)
      BY DEF Gives
    <3> QED BY <1>0, <1>2, <3>1
  <2>4. /\ new \in SUBSET TableRows(Affines) /\ IsFiniteSet(new) /\ Disjoint(new) /\ Joined(new)
        /\ \A x \in Int : \A v : Gives(new, x, v) <=> Gives(part, x, v) \/ (x = key /\ v = value)
    BY <1>0, <1>2, <2>1, <2>2, <2>3, InsertExact
  <2>5. Tidy(new, Affines)
    BY <2>4 DEF Tidy
  <2>6. Within(new, Keys)
    BY <1>2, <2>4 DEF Within
  <2>7. \A v : Gives(new, key, v) <=> v = value
    BY <1>0, <1>2, <2>4
  <2>8. Agrees(new, {key})
    BY <1>5, <2>7 DEF Agrees, value
  <2>9. \A x \in Int : \A v : x # key => (Gives(new, x, v) <=> Gives(table, x, v))
    BY <1>2, <2>4
  <2> QED BY <2>5, <2>6, <2>8, <2>9 DEF new
<1> QED BY <1>4, <1>5

RefreshedBy(table, S) == InTurn(Replace, table, S, ById(S))

\* The turns over the dirty keys.
LEMMA RefreshLoop ==
  ASSUME binding \in Bindings, NEW table \in SUBSET TableRows(Affines),
         NEW S \in SUBSET Keys, IsFiniteSet(S), NEW Good, <<table, {}>> \in Good,
         \A a \in SUBSET TableRows(Affines), x \in S :
           <<a, Before(S, ById(S), x)>> \in Good => <<Replace(a, x), Before(S, ById(S), x) \cup {x}>> \in Good
  PROVE  <<RefreshedBy(table, S), S>> \in Good
<1> DEFINE order == ById(S)
           N == Cardinality(S)
           A == SUBSET TableRows(Affines)
           body == [p \in A \X S |-> Replace(p[1], p[2])]
           Is(t) == t = [n \in 0 .. N |-> IF n = 0 THEN table ELSE Replace(t[n - 1], InOrder(S, order)[n])]
           run == CHOOSE t : Is(t)
<1>1. Orders(order, S)
  <2>1. S \in SUBSET Int
    BY KeysAreIds
  <2> QED BY <2>1, IdsInOrder
<1>2. N \in Nat /\ \A n \in 1 .. N : InOrder(S, order)[n] \in S
  BY <1>1, TurnOfEach
<1>3. ASSUME NEW a \in A, NEW x \in S PROVE Replace(a, x) \in A /\ body[<<a, x>>] = Replace(a, x)
  <2> DEFINE part == Split(a, x)
  <2>0. x \in Int
    BY KeysAreIds
  <2>1. part \in A
    BY <2>0 DEF Split, Covering, Predecessor, Interval, TableRows
  <2>2. ASSUME NEW value \in Affines PROVE Insert(part, x, value) \in A
    <3> HIDE DEF part
    <3> QED BY <2>0, <2>1 DEF Insert, Interval, TableRows
  <2>3. Replace(a, x) \in A
    BY <2>1, <2>2, AffineTyped DEF Replace
  <2> HIDE DEF part
  <2> QED BY <2>3
<1>4. IsLoop(S, order, A, table, body)
  <2>1. table \in A
    OBVIOUS
  <2>2. body \in [A \X S -> A]
    BY <1>3
  <2> QED BY <1>1, <2>1, <2>2 DEF IsLoop
<1>5. PassedOn(Good, S, order, A, table, body)
  <2>1. \A a \in A, x \in S :
           <<a, Before(S, order, x)>> \in Good => <<Replace(a, x), Before(S, order, x) \cup {x}>> \in Good
    OBVIOUS
  <2> HIDE DEF body, order, A
  <2> QED BY <1>3, <2>1 DEF PassedOn
<1>6. RefreshedBy(table, S) = run[N]
  BY DEF RefreshedBy, InTurn
<1> HIDE DEF body, order, N, A
<1>7. \E t : Is(t)
  <2>1. PICK t \in [0 .. N -> A] : IsRun(t, S, order, table, body)
    BY <1>4, LoopRuns DEF N
  <2>2. ASSUME NEW n \in 0 .. N
        PROVE  t[n] = (IF n = 0 THEN table ELSE Replace(t[n - 1], InOrder(S, order)[n]))
    <3>1. CASE n = 0
      BY <2>1, <3>1 DEF IsRun
    <3>2. CASE n # 0
      <4>1. n \in 1 .. N /\ n - 1 \in 0 .. N
        BY <1>2, <3>2
      <4> QED BY <1>2, <1>3, <2>1, <3>2, <4>1 DEF IsRun, N
    <3> QED BY <3>1, <3>2
  <2>3. t = [n \in 0 .. N |-> t[n]]
    OBVIOUS
  <2> QED BY <2>2, <2>3
<1>8. Is(run)
  BY <1>7
<1> HIDE DEF run
<1>9. Follows(run, S, order, A, table, body)
  <2>1. \A n \in 0 .. N : run[n] = IF n = 0 THEN table ELSE Replace(run[n - 1], InOrder(S, order)[n])
    BY <1>8
  <2> HIDE DEF Is
  <2>2. run[0] = table
    BY <1>2, <2>1
  <2>3. ASSUME NEW n \in 1 .. N, run[n - 1] \in A PROVE run[n] = body[<<run[n - 1], InOrder(S, order)[n]>>]
    <3>1. run[n] = Replace(run[n - 1], InOrder(S, order)[n])
      BY <1>2, <2>1
    <3> QED BY <1>2, <1>3, <2>3, <3>1
  <2> QED BY <2>2, <2>3 DEF Follows, N
<1>10. <<run[N], S>> \in Good
  BY <1>4, <1>5, <1>9, LoopLeads DEF N
<1> QED BY <1>6, <1>10

LEMMA RefreshedByExact ==
  ASSUME binding \in Bindings, NEW table, Tidy(table, Affines), Within(table, Keys), NEW S \in SUBSET Keys,
         Agrees(table, Keys \ S)
  PROVE  /\ Tidy(RefreshedBy(table, S), Affines) /\ Within(RefreshedBy(table, S), Keys)
         /\ Agrees(RefreshedBy(table, S), Keys)
<1> DEFINE A == SUBSET TableRows(Affines)
           Kept(a, D) == Tidy(a, Affines) /\ Within(a, Keys) /\ Agrees(a, (Keys \ S) \cup D)
           Good == {p \in A \X SUBSET S : Kept(p[1], p[2])}
<1>0. IsFiniteSet(S) /\ Keys \in SUBSET Int
  BY KeysAreIds, FS_Subset
<1>1. <<table, {}>> \in Good
  <2>1. table \in A
    BY DEF Tidy
  <2>2. (Keys \ S) \cup {} = Keys \ S
    OBVIOUS
  <2>3. Kept(table, {})
    BY <2>2
  <2> HIDE DEF Kept, A
  <2> QED BY <2>1, <2>3
<1>2. ASSUME NEW a \in A, NEW x \in S, <<a, Before(S, ById(S), x)>> \in Good
      PROVE  <<Replace(a, x), Before(S, ById(S), x) \cup {x}>> \in Good
  <2> DEFINE D == Before(S, ById(S), x)
             new == Replace(a, x)
  <2>1. Kept(a, D)
    BY <1>2
  <2>2. D \in SUBSET S /\ x \in Keys
    BY DEF Before
  <2>3. /\ Tidy(new, Affines) /\ Within(new, Keys)
        /\ \A y \in Int : \A v : y # x => (Gives(new, y, v) <=> Gives(a, y, v))
        /\ Agrees(new, {x})
    BY <2>1, <2>2, ReplaceExact
  <2> HIDE DEF new, D
  <2>4. Agrees(new, (Keys \ S) \cup (D \cup {x}))
    <3> SUFFICES ASSUME NEW y \in (Keys \ S) \cup (D \cup {x}), NEW v
                 PROVE  Gives(new, y, v) <=> binding[y] # Unbound /\ v = Affine(y)
      BY DEF Agrees
    <3>1. CASE y = x
      BY <2>3, <3>1 DEF Agrees
    <3>2. CASE y # x
      <4>1. y \in (Keys \ S) \cup D /\ y \in Int
        BY <1>0, <2>2, <3>2
      <4>2. Gives(a, y, v) <=> binding[y] # Unbound /\ v = Affine(y)
        BY <2>1, <4>1 DEF Agrees
      <4> QED BY <2>3, <3>2, <4>1, <4>2
    <3> QED BY <3>1, <3>2
  <2>5. Kept(new, D \cup {x}) /\ new \in A
    BY <2>3, <2>4 DEF Tidy
  <2> HIDE DEF A, Kept
  <2>6. D \cup {x} \in SUBSET S
    BY <2>2
  <2> QED BY <2>5, <2>6 DEF D, new
<1> HIDE DEF Good
<1>3. <<RefreshedBy(table, S), S>> \in Good
  <2>1. table \in SUBSET TableRows(Affines)
    BY DEF Tidy
  <2> QED BY <1>0, <1>1, <1>2, <2>1, RefreshLoop
<1>4. Kept(RefreshedBy(table, S), S)
  BY <1>3 DEF Good
<1>5. (Keys \ S) \cup S = Keys
  OBVIOUS
<1> QED BY <1>4, <1>5

\* The projection of a database without an index.
LEMMA FirstProjectionExact ==
  ASSUME binding \in Bindings
  PROVE  Tidy(FirstProjection, Affines) /\ Within(FirstProjection, Keys) /\ Agrees(FirstProjection, Keys)
<1> DEFINE bound == {k \in Keys : binding[k] # Unbound}
           rows == {Interval(k, k, Affine(k)) : k \in bound}
<1>1. FirstProjection = Coalesce(rows)
  BY DEF FirstProjection
<1>2. bound \in SUBSET Keys /\ Keys \in SUBSET Int /\ IsFiniteSet(bound)
  BY KeysAreIds, FS_Subset
<1>3. \A k \in bound : Affine(k) \in Affines
  BY AffineTyped
<1>4. \A r \in rows : \E k \in bound : r.first = k /\ r.last = k /\ r.value = Affine(k) /\ r = Interval(k, k, Affine(k))
  BY DEF Interval
<1>5. \A k \in bound : \E r \in rows : r.first = k /\ r.last = k /\ r.value = Affine(k)
  <2> TAKE k \in bound
  <2> DEFINE r == Interval(k, k, Affine(k))
  <2>1. r \in rows
    OBVIOUS
  <2>2. r.first = k /\ r.last = k /\ r.value = Affine(k)
    BY DEF Interval
  <2> HIDE DEF r, rows, bound
  <2> QED BY <2>1, <2>2
<1>6. rows \in SUBSET TableRows(Affines)
  <2>1. ASSUME NEW k \in bound PROVE Interval(k, k, Affine(k)) \in TableRows(Affines)
    <3>1. k \in Int /\ Affine(k) \in Affines
      BY <1>2, <1>3
    <3> QED BY <3>1 DEF Interval, TableRows
  <2> HIDE DEF bound
  <2> QED BY <2>1
<1>7. IsFiniteSet(rows)
  <2> DEFINE f == [k \in bound |-> Interval(k, k, Affine(k))]
  <2>1. f \in Surjection(bound, rows)
    BY DEF Surjection
  <2> HIDE DEF f, bound, rows
  <2> QED BY <1>2, <2>1, FS_Surjection
<1> HIDE DEF bound, rows
<1>8. Disjoint(rows)
  <2>1. \A r \in rows : r.first \in Int /\ r.last = r.first
    BY <1>2, <1>4
  <2>2. \A r, q \in rows : r # q => r.first # q.first
    BY <1>4
  <2> QED BY <2>1, <2>2 DEF Disjoint
<1>9. /\ Coalesce(rows) \in SUBSET TableRows(Affines) /\ IsFiniteSet(Coalesce(rows))
      /\ Disjoint(Coalesce(rows)) /\ Joined(Coalesce(rows))
      /\ \A x \in Int : \A v : Gives(Coalesce(rows), x, v) <=> Gives(rows, x, v)
  BY <1>6, <1>7, <1>8, CoalesceExact
<1>10. \A x \in Int : \A v : Gives(rows, x, v) <=> x \in bound /\ v = Affine(x)
  <2> SUFFICES ASSUME NEW x \in Int, NEW v PROVE Gives(rows, x, v) <=> x \in bound /\ v = Affine(x)
    OBVIOUS
  <2>1. ASSUME Gives(rows, x, v) PROVE x \in bound /\ v = Affine(x)
    <3>1. PICK r \in rows : r.first <= x /\ x <= r.last /\ r.value = v
      BY <2>1 DEF Gives
    <3>2. PICK k \in bound : r.first = k /\ r.last = k /\ r.value = Affine(k)
      BY <1>4
    <3>3. k \in Int /\ k = x
      BY <1>2, <3>1, <3>2
    <3> QED BY <3>1, <3>2, <3>3
  <2>2. ASSUME x \in bound, v = Affine(x) PROVE Gives(rows, x, v)
    <3>1. PICK r \in rows : r.first = x /\ r.last = x /\ r.value = Affine(x)
      BY <1>5, <2>2
    <3> QED BY <2>2, <3>1 DEF Gives
  <2> QED BY <2>1, <2>2
<1>11. Within(FirstProjection, Keys)
  BY <1>1, <1>2, <1>9, <1>10 DEF Within
<1>12. \A x \in Keys : \A v : Gives(FirstProjection, x, v) <=> binding[x] # Unbound /\ v = Affine(x)
  BY <1>1, <1>2, <1>9, <1>10 DEF bound
<1> QED BY <1>1, <1>9, <1>11, <1>12 DEF Tidy, Agrees

(* Translation: one span of a request. **************************************)

Partial == [known : BOOLEAN, covered : Int, spans : SUBSET (Int \X Int)]

\* One row against the span lo..hi.
TurnOfRow(acc, r, lo, hi) ==
  LET a == Larger(r.first, lo)
      b == Smaller(r.last, hi)
  IN IF a # acc.covered THEN [acc EXCEPT !.known = FALSE]
     ELSE [acc EXCEPT !.covered = b + 1,
                      !.spans = IF r.value.eligible
                                THEN @ \cup {<<a + r.value.offset, b + r.value.offset>>} ELSE @]

Nothing(lo) == [known |-> TRUE, covered |-> lo, spans |-> {}]

TakenRows(old, lo, hi) ==
  LET Body(acc, r) == TurnOfRow(acc, r, lo, hi)
  IN InTurn(Body, Nothing(lo), old, ByFirst(old))

\* What one turn makes, field by field.
LEMMA TurnOfRowIs ==
  ASSUME NEW acc \in Partial, NEW r \in TableRows(Affines), NEW lo \in Int, NEW hi \in Int
  PROVE  LET a == Larger(r.first, lo)
             b == Smaller(r.last, hi)
             new == TurnOfRow(acc, r, lo, hi)
         IN /\ new \in Partial /\ a \in Int /\ b \in Int
            /\ a # acc.covered => ~ new.known /\ new.spans = acc.spans
            /\ a = acc.covered => /\ new.known = acc.known /\ new.covered = b + 1
                                  /\ r.value.eligible =>
                                        new.spans = acc.spans \cup {<<a + r.value.offset, b + r.value.offset>>}
                                  /\ ~ r.value.eligible => new.spans = acc.spans
<1> DEFINE a == Larger(r.first, lo)
           b == Smaller(r.last, hi)
           f == a + r.value.offset
           g == b + r.value.offset
           more == IF r.value.eligible THEN acc.spans \cup {<<f, g>>} ELSE acc.spans
           next == b + 1
           new == TurnOfRow(acc, r, lo, hi)
<1>1. r.first \in Int /\ r.last \in Int /\ r.value \in Affines
  BY DEF TableRows
<1>2. r.value.offset \in Int /\ r.value.eligible \in BOOLEAN
  BY <1>1, ImportAssumption DEF Affines
<1>3. a \in Int /\ b \in Int /\ f \in Int /\ g \in Int /\ next \in Int
  BY <1>1, <1>2 DEF Larger, Smaller
<1>4. new = IF a # acc.covered THEN [acc EXCEPT !.known = FALSE] ELSE [acc EXCEPT !.covered = next, !.spans = more]
  BY DEF TurnOfRow
<1>5. more \in SUBSET (Int \X Int)
  <2> HIDE DEF f, g
  <2> QED BY <1>3 DEF Partial
<1> HIDE DEF a, b, f, g, more, next, new
<1>6. CASE a # acc.covered
  <2>1. new = [acc EXCEPT !.known = FALSE]
    BY <1>4, <1>6
  <2>2. new \in Partial /\ ~ new.known /\ new.spans = acc.spans
    BY <2>1 DEF Partial
  <2> QED BY <1>3, <1>6, <2>2 DEF a, b, new
<1>7. CASE a = acc.covered
  <2>1. new = [acc EXCEPT !.covered = next, !.spans = more]
    BY <1>4, <1>7
  <2>2. new \in Partial /\ new.known = acc.known /\ new.covered = next /\ new.spans = more
    BY <1>3, <1>5, <2>1 DEF Partial
  <2>3. r.value.eligible => new.spans = acc.spans \cup {<<f, g>>}
    BY <2>2 DEF more
  <2>4. ~ r.value.eligible => new.spans = acc.spans
    BY <2>2 DEF more
  <2> QED BY <1>3, <1>7, <2>2, <2>3, <2>4 DEF a, b, f, g, next, new
<1> QED BY <1>6, <1>7

\* The turns over the rows.
LEMMA TakenRowsLoop ==
  ASSUME NEW S \in SUBSET TableRows(Affines), IsFiniteSet(S), Disjoint(S),
         NEW lo \in Int, NEW hi \in Int, NEW Good, <<Nothing(lo), {}>> \in Good,
         \A a \in Partial, x \in S :
           <<a, Before(S, ByFirst(S), x)>> \in Good =>
              <<TurnOfRow(a, x, lo, hi), Before(S, ByFirst(S), x) \cup {x}>> \in Good
  PROVE  <<TakenRows(S, lo, hi), S>> \in Good
<1> DEFINE order == ByFirst(S)
           N == Cardinality(S)
           A == Partial
           body == [p \in A \X S |-> TurnOfRow(p[1], p[2], lo, hi)]
           Is(t) == t = [n \in 0 .. N |-> IF n = 0 THEN Nothing(lo) ELSE TurnOfRow(t[n - 1], InOrder(S, order)[n], lo, hi)]
           run == CHOOSE t : Is(t)
<1>1. Orders(order, S)
  BY RowsInOrder
<1>2. N \in Nat /\ \A n \in 1 .. N : InOrder(S, order)[n] \in S
  BY <1>1, TurnOfEach
<1>3. ASSUME NEW a \in A, NEW x \in S PROVE TurnOfRow(a, x, lo, hi) \in A /\ body[<<a, x>>] = TurnOfRow(a, x, lo, hi)
  <2>1. TurnOfRow(a, x, lo, hi) \in A
    BY TurnOfRowIs
  <2> QED BY <2>1
<1>4. IsLoop(S, order, A, Nothing(lo), body)
  <2>1. Nothing(lo) \in A
    BY DEF Nothing, Partial
  <2>2. body \in [A \X S -> A]
    BY <1>3
  <2> QED BY <1>1, <2>1, <2>2 DEF IsLoop
<1>5. PassedOn(Good, S, order, A, Nothing(lo), body)
  <2>1. \A a \in A, x \in S :
           <<a, Before(S, order, x)>> \in Good => <<TurnOfRow(a, x, lo, hi), Before(S, order, x) \cup {x}>> \in Good
    OBVIOUS
  <2> HIDE DEF body, order, A
  <2> QED BY <1>3, <2>1 DEF PassedOn
<1>6. TakenRows(S, lo, hi) = run[N]
  BY DEF TakenRows, InTurn
<1> HIDE DEF body, order, N, A
<1>7. \E t : Is(t)
  <2>1. PICK t \in [0 .. N -> A] : IsRun(t, S, order, Nothing(lo), body)
    BY <1>4, LoopRuns DEF N
  <2>2. ASSUME NEW n \in 0 .. N
        PROVE  t[n] = (IF n = 0 THEN Nothing(lo) ELSE TurnOfRow(t[n - 1], InOrder(S, order)[n], lo, hi))
    <3>1. CASE n = 0
      BY <2>1, <3>1 DEF IsRun
    <3>2. CASE n # 0
      <4>1. n \in 1 .. N /\ n - 1 \in 0 .. N
        BY <1>2, <3>2
      <4> QED BY <1>2, <1>3, <2>1, <3>2, <4>1 DEF IsRun, N
    <3> QED BY <3>1, <3>2
  <2>3. t = [n \in 0 .. N |-> t[n]]
    OBVIOUS
  <2> QED BY <2>2, <2>3
<1>8. Is(run)
  BY <1>7
<1> HIDE DEF run
<1>9. Follows(run, S, order, A, Nothing(lo), body)
  <2>1. \A n \in 0 .. N : run[n] = IF n = 0 THEN Nothing(lo) ELSE TurnOfRow(run[n - 1], InOrder(S, order)[n], lo, hi)
    BY <1>8
  <2> HIDE DEF Is
  <2>2. run[0] = Nothing(lo)
    BY <1>2, <2>1
  <2>3. ASSUME NEW n \in 1 .. N, run[n - 1] \in A PROVE run[n] = body[<<run[n - 1], InOrder(S, order)[n]>>]
    <3>1. run[n] = TurnOfRow(run[n - 1], InOrder(S, order)[n], lo, hi)
      BY <1>2, <2>1
    <3> QED BY <1>2, <1>3, <2>3, <3>1
  <2> QED BY <2>2, <2>3 DEF Follows, N
<1>10. <<run[N], S>> \in Good
  BY <1>4, <1>5, <1>9, LoopLeads DEF N
<1> QED BY <1>6, <1>10

\* The local ids that the part lo..hi of some rows gives to eligible keys.
LocalsOf(rows, lo, hi) ==
  {y \in Int : \E r \in rows, x \in Int : /\ lo <= x /\ x <= hi /\ r.first <= x /\ x <= r.last
                                          /\ r.value.eligible /\ y = x + r.value.offset}

Touches(rows, x) == \E r \in rows : r.first <= x /\ x <= r.last

RowsTaken(old, lo, hi, acc, D) ==
  /\ acc.spans \in SUBSET (Locals \X Locals) /\ \A s \in acc.spans : First(s) <= End(s)
  /\ acc.known => /\ lo <= acc.covered /\ acc.covered <= hi + 1
                  /\ \A x \in Int : lo <= x /\ x <= hi => (x < acc.covered <=> Touches(D, x))
                  /\ Points(acc.spans) = LocalsOf(D, lo, hi)
  /\ ~ acc.known => \E x \in Int : lo <= x /\ x <= hi /\ ~ Touches(old, x)

LEMMA TurnOfRowExact ==
  ASSUME NEW old \in SUBSET TableRows(Affines), Disjoint(old), NEW lo \in Int, NEW hi \in Int, lo <= hi,
         NEW r \in old, r.first <= hi, lo <= r.last,
         \A x \in Int : r.first <= x /\ x <= r.last => x + r.value.offset \in Locals,
         NEW acc \in Partial, NEW D \in SUBSET old, RowsTaken(old, lo, hi, acc, D),
         \A d \in D : d.last < r.first, \A q \in old \ D : r.first <= q.first
  PROVE  RowsTaken(old, lo, hi, TurnOfRow(acc, r, lo, hi), D \cup {r})
<1> DEFINE a == Larger(r.first, lo)
           b == Smaller(r.last, hi)
           f == a + r.value.offset
           g == b + r.value.offset
           new == TurnOfRow(acc, r, lo, hi)
           E == D \cup {r}
<1>0. \A q \in old : q.first \in Int /\ q.last \in Int /\ q.value.offset \in Int /\ q.value.eligible \in BOOLEAN
                     /\ q.first <= q.last
  <2>1. \A q \in old : q.first \in Int /\ q.last \in Int /\ q.value \in Affines /\ q.first <= q.last
    BY DEF TableRows, Disjoint
  <2>2. \A v \in Affines : v.offset \in Int /\ v.eligible \in BOOLEAN
    BY ImportAssumption DEF Affines
  <2> QED BY <2>1, <2>2
<1>1. /\ new \in Partial
      /\ a # acc.covered => ~ new.known /\ new.spans = acc.spans
      /\ a = acc.covered => /\ new.known = acc.known /\ new.covered = b + 1
                            /\ r.value.eligible => new.spans = acc.spans \cup {<<f, g>>}
                            /\ ~ r.value.eligible => new.spans = acc.spans
  <2>1. r \in TableRows(Affines)
    OBVIOUS
  <2> QED BY <2>1, TurnOfRowIs
<1>2. /\ a \in Int /\ b \in Int /\ lo <= a /\ a <= b /\ b <= hi /\ r.first <= a /\ b <= r.last
      /\ \A x \in Int : a <= x /\ x <= b <=> lo <= x /\ x <= hi /\ r.first <= x /\ x <= r.last
  BY <1>0 DEF Larger, Smaller
<1>3. a = r.first \/ a = lo
  BY DEF Larger
<1>4. f \in Locals /\ g \in Locals /\ f \in Int /\ g \in Int /\ f <= g
  BY <1>0, <1>2
<1> HIDE DEF new, a, b, f, g
<1>5. acc.covered \in Int
  BY DEF Partial
<1>6. new.spans \in SUBSET (Locals \X Locals) /\ \A s \in new.spans : First(s) <= End(s)
  <2>1. acc.spans \in SUBSET (Locals \X Locals) /\ \A s \in acc.spans : First(s) <= End(s)
    BY DEF RowsTaken
  <2>2. new.spans = acc.spans \/ new.spans = acc.spans \cup {<<f, g>>}
    BY <1>0, <1>1
  <2>3. <<f, g>> \in Locals \X Locals /\ First(<<f, g>>) <= End(<<f, g>>)
    BY <1>4 DEF First, End
  <2> QED BY <2>1, <2>2, <2>3
<1>7. ASSUME ~ new.known PROVE \E x \in Int : lo <= x /\ x <= hi /\ ~ Touches(old, x)
  <2>1. CASE ~ acc.known
    BY <2>1 DEF RowsTaken
  <2>2. CASE acc.known
    <3>1. a # acc.covered
      BY <1>1, <1>7, <2>2
    <3>2. /\ lo <= acc.covered /\ acc.covered <= hi + 1
          /\ \A x \in Int : lo <= x /\ x <= hi => (x < acc.covered <=> Touches(D, x))
      BY <2>2 DEF RowsTaken
    <3>3. ~ Touches(D, a)
      BY <1>0, <1>2 DEF Touches
    <3>4. acc.covered < a
      BY <1>2, <1>5, <3>1, <3>2, <3>3
    <3> DEFINE x == acc.covered
    <3>5. x \in Int /\ lo <= x /\ x <= hi /\ x < r.first
      BY <1>0, <1>2, <1>3, <1>5, <3>2, <3>4
    <3>6. ~ Touches(D, x)
      BY <3>2, <3>5
    <3> HIDE DEF x
    <3>7. ~ Touches(old, x)
      <4> SUFFICES ASSUME NEW q \in old, q.first <= x, x <= q.last PROVE FALSE
        BY DEF Touches
      <4>1. CASE q \in D
        BY <3>6, <4>1 DEF Touches
      <4>2. CASE q \notin D
        BY <1>0, <3>5, <4>2
      <4> QED BY <4>1, <4>2
    <3> QED BY <3>5, <3>7
  <2> QED BY <2>1, <2>2
<1>8. ASSUME new.known
      PROVE  /\ lo <= new.covered /\ new.covered <= hi + 1
             /\ \A x \in Int : lo <= x /\ x <= hi => (x < new.covered <=> Touches(E, x))
             /\ Points(new.spans) = LocalsOf(E, lo, hi)
  <2>1. a = acc.covered /\ acc.known /\ new.covered = b + 1
    BY <1>1, <1>8
  <2>2. /\ \A x \in Int : lo <= x /\ x <= hi => (x < a <=> Touches(D, x))
        /\ Points(acc.spans) = LocalsOf(D, lo, hi)
    BY <2>1 DEF RowsTaken
  <2>3. lo <= new.covered /\ new.covered <= hi + 1
    BY <1>2, <2>1
  <2>4. ASSUME NEW x \in Int, lo <= x, x <= hi PROVE x < b + 1 <=> Touches(E, x)
    <3>1. Touches(E, x) <=> Touches(D, x) \/ (r.first <= x /\ x <= r.last)
      BY DEF Touches
    <3>2. x < b + 1 <=> x < a \/ (a <= x /\ x <= b)
      BY <1>2
    <3> HIDE DEF E
    <3> QED BY <1>2, <2>2, <2>4, <3>1, <3>2
  <2>5. CASE ~ r.value.eligible
    <3>1. new.spans = acc.spans
      BY <1>1, <2>1, <2>5
    <3>2. LocalsOf(E, lo, hi) = LocalsOf(D, lo, hi)
      BY <2>5 DEF LocalsOf
    <3> HIDE DEF E
    <3> QED BY <2>1, <2>2, <2>3, <2>4, <3>1, <3>2
  <2>6. CASE r.value.eligible
    <3>1. new.spans = acc.spans \cup {<<f, g>>}
      BY <1>1, <2>1, <2>6
    <3>2. Points(acc.spans \cup {<<f, g>>}) = Points(acc.spans) \cup f .. g
      <4>1. First(<<f, g>>) = f /\ End(<<f, g>>) = g
        BY DEF First, End
      <4> DEFINE s == <<f, g>>
      <4>2. Points(acc.spans \cup {s}) = Points(acc.spans) \cup First(s) .. End(s)
        BY DEF Points
      <4> QED BY <4>1, <4>2
    <3>3. \A y \in Int : y \in f .. g <=> \E x \in Int : /\ lo <= x /\ x <= hi /\ r.first <= x /\ x <= r.last
                                                         /\ y = x + r.value.offset
      <4> TAKE y \in Int
      <4>1. y \in f .. g <=> a <= y - r.value.offset /\ y - r.value.offset <= b
        BY <1>0, <1>2, <1>4 DEF f, g
      <4>2. y - r.value.offset \in Int /\ y = (y - r.value.offset) + r.value.offset
        BY <1>0
      <4>3. ASSUME NEW x \in Int, y = x + r.value.offset PROVE x = y - r.value.offset
        BY <1>0, <4>3
      <4> DEFINE z == y - r.value.offset
      <4>4. z \in Int /\ y = z + r.value.offset /\ \A x \in Int : y = x + r.value.offset => x = z
        BY <4>2, <4>3
      <4>5. y \in f .. g <=> lo <= z /\ z <= hi /\ r.first <= z /\ z <= r.last
        BY <1>2, <4>1, <4>2
      <4> HIDE DEF z
      <4> QED BY <4>4, <4>5
    <3>4. LocalsOf(E, lo, hi) = LocalsOf(D, lo, hi) \cup {y \in Int : y \in f .. g}
      <4>1. \A y \in Int : y \in LocalsOf({r}, lo, hi) <=> y \in f .. g
        BY <2>6, <3>3 DEF LocalsOf
      <4>2. LocalsOf(E, lo, hi) = LocalsOf(D, lo, hi) \cup LocalsOf({r}, lo, hi)
        BY DEF LocalsOf
      <4>3. \A y \in LocalsOf({r}, lo, hi) : y \in Int
        BY DEF LocalsOf
      <4> HIDE DEF E
      <4> QED BY <4>1, <4>2, <4>3
    <3>5. \A y \in f .. g : y \in Int
      BY <1>4
    <3> HIDE DEF E
    <3> QED BY <2>1, <2>2, <2>3, <2>4, <3>1, <3>2, <3>4, <3>5
  <2> QED BY <1>0, <2>5, <2>6
<1> HIDE DEF E
<1>9. RowsTaken(old, lo, hi, new, E)
  BY <1>6, <1>7, <1>8 DEF RowsTaken
<1> QED BY <1>9 DEF new, E

\* A table that gives every local id within bounds.
Reaches(table) == \A r \in table : \A x \in Int : r.first <= x /\ x <= r.last => x + r.value.offset \in Locals

\* One span of a request: known if no key of it is without a row; then its local ids.
LEMMA TranslateSpanExact ==
  ASSUME NEW table, Tidy(table, Affines), \A r \in table : 1 <= r.first, Reaches(table),
         NEW span \in Int \X Int, First(span) <= End(span)
  PROVE  LET part == TranslateSpan(table, span)
         IN /\ part.spans \in SUBSET (Locals \X Locals) /\ \A s \in part.spans : First(s) <= End(s)
            /\ part.known \in BOOLEAN
            /\ part.known <=> \A x \in First(span) .. End(span) : Touches(table, x)
            /\ part.known => Points(part.spans) = LocalsOf(table, First(span), End(span))
<1> DEFINE lo == First(span)
           hi == End(span)
           old == Overlapping(table, lo, hi)
           all == TakenRows(old, lo, hi)
           part == TranslateSpan(table, span)
<1>1. lo \in Int /\ hi \in Int /\ lo <= hi
  BY DEF First, End
<1>2. table \in SUBSET TableRows(Affines) /\ IsFiniteSet(table) /\ Disjoint(table)
  BY DEF Tidy
<1>3. part = [all EXCEPT !.known = @ /\ all.covered = hi + 1]
  BY DEF TranslateSpan, TakenRows, TurnOfRow, Nothing
<1>4. old = {r \in table : r.first <= hi /\ lo <= r.last}
  BY <1>1, <1>2, OverlappingExact
<1> HIDE DEF lo, hi, old, all, part
<1>5. old \in SUBSET TableRows(Affines) /\ IsFiniteSet(old) /\ Disjoint(old)
  <2>1. old \in SUBSET table
    BY <1>4
  <2> QED BY <1>2, <2>1, FS_Subset DEF Disjoint
<1> DEFINE Good == {p \in Partial \X SUBSET old : RowsTaken(old, lo, hi, p[1], p[2])}
<1>6. <<Nothing(lo), {}>> \in Good
  <2>1. Nothing(lo) \in Partial
    BY <1>1 DEF Nothing, Partial
  <2>2. RowsTaken(old, lo, hi, Nothing(lo), {})
    <3>1. Points({}) = {} /\ LocalsOf({}, lo, hi) = {}
      BY DEF Points, LocalsOf
    <3>2. \A x \in Int : ~ Touches({}, x)
      BY DEF Touches
    <3>3. Nothing(lo).known /\ Nothing(lo).covered = lo /\ Nothing(lo).spans = {}
      BY DEF Nothing
    <3> QED BY <1>1, <3>1, <3>2, <3>3 DEF RowsTaken
  <2> QED BY <2>1, <2>2
<1>7. ASSUME NEW acc \in Partial, NEW r \in old, <<acc, Before(old, ByFirst(old), r)>> \in Good
      PROVE  <<TurnOfRow(acc, r, lo, hi), Before(old, ByFirst(old), r) \cup {r}>> \in Good
  <2> DEFINE D == Before(old, ByFirst(old), r)
  <2>1. RowsTaken(old, lo, hi, acc, D) /\ D \in SUBSET old
    BY <1>7
  <2>2. \A d \in D : d.last < r.first
    BY <1>5, RowsInOrder
  <2>3. \A q \in old \ D : r.first <= q.first
    <3>1. \A q \in old : q.first \in Int
      BY <1>5 DEF TableRows
    <3> QED BY <3>1 DEF Before, ByFirst
  <2> HIDE DEF D
  <2>4. r.first <= hi /\ lo <= r.last /\ \A x \in Int : r.first <= x /\ x <= r.last => x + r.value.offset \in Locals
    BY <1>4 DEF Reaches
  <2>5. RowsTaken(old, lo, hi, TurnOfRow(acc, r, lo, hi), D \cup {r})
    BY <1>1, <1>5, <2>1, <2>2, <2>3, <2>4, TurnOfRowExact
  <2>6. TurnOfRow(acc, r, lo, hi) \in Partial
    BY <1>1, <1>5, TurnOfRowIs
  <2> QED BY <2>1, <2>5, <2>6 DEF D
<1> HIDE DEF Good
<1>8. <<all, old>> \in Good
  BY <1>1, <1>5, <1>6, <1>7, TakenRowsLoop DEF all
<1>9. all \in Partial /\ RowsTaken(old, lo, hi, all, old)
  BY <1>8 DEF Good
<1>10. part.spans = all.spans /\ part.known = (all.known /\ all.covered = hi + 1)
  <2> DEFINE k == all.known /\ all.covered = hi + 1
  <2>1. part = [all EXCEPT !.known = k]
    BY <1>3
  <2> HIDE DEF k
  <2>2. part.spans = all.spans /\ part.known = k
    BY <1>9, <2>1 DEF Partial
  <2> QED BY <2>2 DEF k
<1>11. \A x \in Int : lo <= x /\ x <= hi => (Touches(table, x) <=> Touches(old, x))
  <2>1. \A r \in table : r.first \in Int /\ r.last \in Int
    BY <1>2 DEF TableRows
  <2> QED BY <1>1, <1>4, <2>1 DEF Touches
<1>12. LocalsOf(table, lo, hi) = LocalsOf(old, lo, hi)
  <2>1. \A r \in table : r.first \in Int /\ r.last \in Int
    BY <1>2 DEF TableRows
  <2> QED BY <1>1, <1>4, <2>1 DEF LocalsOf
<1>13. ASSUME part.known PROVE Points(part.spans) = LocalsOf(table, lo, hi) /\ \A x \in lo .. hi : Touches(table, x)
  <2>1. all.known /\ all.covered = hi + 1
    BY <1>10, <1>13
  <2>2. /\ \A x \in Int : lo <= x /\ x <= hi => (x < all.covered <=> Touches(old, x))
        /\ Points(all.spans) = LocalsOf(old, lo, hi)
    BY <1>9, <2>1 DEF RowsTaken
  <2>3. ASSUME NEW x \in lo .. hi PROVE Touches(table, x)
    <3>1. x \in Int /\ lo <= x /\ x <= hi /\ x < hi + 1
      BY <1>1
    <3> QED BY <1>11, <2>1, <2>2, <3>1
  <2> QED BY <1>10, <1>12, <2>2, <2>3
<1>14. ASSUME ~ part.known PROVE \E x \in lo .. hi : ~ Touches(table, x)
  <2>1. CASE ~ all.known
    <3>1. PICK x \in Int : lo <= x /\ x <= hi /\ ~ Touches(old, x)
      BY <1>9, <2>1 DEF RowsTaken
    <3>2. x \in lo .. hi
      BY <1>1, <3>1
    <3> QED BY <1>11, <3>1, <3>2
  <2>2. CASE all.known
    <3>1. all.covered # hi + 1
      BY <1>10, <1>14, <2>2
    <3>2. /\ lo <= all.covered /\ all.covered <= hi + 1
          /\ \A x \in Int : lo <= x /\ x <= hi => (x < all.covered <=> Touches(old, x))
      BY <1>9, <2>2 DEF RowsTaken
    <3> DEFINE x == all.covered
    <3>3. x \in Int
      BY <1>9 DEF Partial
    <3>4. x \in lo .. hi /\ lo <= x /\ x <= hi
      BY <1>1, <3>1, <3>2, <3>3
    <3>5. ~ Touches(old, x)
      BY <3>2, <3>3, <3>4
    <3> HIDE DEF x
    <3> QED BY <1>11, <3>3, <3>4, <3>5
  <2> QED BY <2>1, <2>2
<1>15. part.spans \in SUBSET (Locals \X Locals) /\ \A s \in part.spans : First(s) <= End(s)
  BY <1>9, <1>10 DEF RowsTaken
<1>16. part.known \in BOOLEAN
  BY <1>9, <1>10 DEF Partial
<1> QED BY <1>13, <1>14, <1>15, <1>16 DEF lo, hi, part

(* Translation: a request. **************************************************)

\* What is known of the rows of a table that agrees with the bindings.
LEMMA AgreesMeans ==
  ASSUME binding \in Bindings, NEW table, Tidy(table, Affines), Within(table, Keys), Agrees(table, Keys)
  PROVE  /\ \A r \in table : 1 <= r.first
         /\ Reaches(table)
         /\ \A x \in Keys : Touches(table, x) <=> binding[x] # Unbound
         /\ \A lo, hi \in Int : LocalsOf(table, lo, hi) =
              {binding[k].local : k \in {j \in Keys : lo <= j /\ j <= hi /\ binding[j] # Unbound /\ binding[j].eligible}}
<1>0. Keys \in SUBSET Int /\ \A x \in Keys : 1 <= x
  BY KeysAreIds
<1>1. \A r \in table : r.first \in Int /\ r.last \in Int /\ r.first <= r.last
  BY DEF Tidy, TableRows, Disjoint
<1>2. ASSUME NEW r \in table, NEW x \in Int, r.first <= x, x <= r.last
      PROVE  /\ x \in Keys /\ binding[x] # Unbound /\ binding[x] \in [local : Locals, eligible : BOOLEAN]
             /\ r.value.eligible = binding[x].eligible /\ x + r.value.offset = binding[x].local
  <2>1. Gives(table, x, r.value)
    BY <1>2 DEF Gives
  <2>2. x \in Keys
    BY <2>1 DEF Within
  <2>3. binding[x] # Unbound /\ r.value = Affine(x)
    BY <2>1, <2>2 DEF Agrees
  <2>4. binding[x] \in [local : Locals, eligible : BOOLEAN]
    BY <2>2, <2>3 DEF Bindings
  <2>5. binding[x].local \in Int
    BY <2>4, ImportAssumption DEF Locals
  <2>6. r.value.offset = binding[x].local - x /\ r.value.eligible = binding[x].eligible
    BY <2>3 DEF Affine
  <2> QED BY <2>2, <2>3, <2>4, <2>5, <2>6
<1>3. \A r \in table : 1 <= r.first
  BY <1>0, <1>1, <1>2
<1>4. Reaches(table)
  <2> SUFFICES ASSUME NEW r \in table, NEW x \in Int, r.first <= x /\ x <= r.last
               PROVE  x + r.value.offset \in Locals
    BY DEF Reaches
  <2> QED BY <1>2
<1>5. \A x \in Keys : binding[x] # Unbound => \E r \in table : r.first <= x /\ x <= r.last
  <2> SUFFICES ASSUME NEW x \in Keys, binding[x] # Unbound PROVE \E r \in table : r.first <= x /\ x <= r.last
    OBVIOUS
  <2>1. Gives(table, x, Affine(x))
    BY DEF Agrees
  <2> QED BY <2>1 DEF Gives
<1>6. \A x \in Keys : Touches(table, x) <=> binding[x] # Unbound
  BY <1>0, <1>2, <1>5 DEF Touches
<1>7. ASSUME NEW lo \in Int, NEW hi \in Int
      PROVE  LocalsOf(table, lo, hi) =
               {binding[k].local : k \in {j \in Keys : lo <= j /\ j <= hi /\ binding[j] # Unbound /\ binding[j].eligible}}
  <2> DEFINE these == {j \in Keys : lo <= j /\ j <= hi /\ binding[j] # Unbound /\ binding[j].eligible}
  <2>1. ASSUME NEW y \in LocalsOf(table, lo, hi) PROVE \E k \in these : y = binding[k].local
    <3>1. PICK r \in table, x \in Int : /\ lo <= x /\ x <= hi /\ r.first <= x /\ x <= r.last
                                        /\ r.value.eligible /\ y = x + r.value.offset
      BY DEF LocalsOf
    <3>2. /\ x \in Keys /\ binding[x] # Unbound
          /\ r.value.eligible = binding[x].eligible /\ x + r.value.offset = binding[x].local
      BY <1>2, <3>1
    <3> QED BY <3>1, <3>2
  <2>2. ASSUME NEW k \in these PROVE binding[k].local \in LocalsOf(table, lo, hi)
    <3>0. k \in Int /\ k \in Keys
      BY <1>0
    <3>1. PICK r \in table : r.first <= k /\ k <= r.last
      BY <1>5
    <3>2. /\ r.value.eligible = binding[k].eligible /\ k + r.value.offset = binding[k].local
          /\ binding[k] \in [local : Locals, eligible : BOOLEAN]
      BY <1>2, <3>0, <3>1
    <3>3. binding[k].local \in Int
      BY <3>2, ImportAssumption DEF Locals
    <3> QED BY <3>0, <3>1, <3>2, <3>3 DEF LocalsOf
  <2> HIDE DEF these
  <2>3. LocalsOf(table, lo, hi) = {binding[k].local : k \in these}
    BY <2>1, <2>2
  <2> QED BY <2>3 DEF these
<1> QED BY <1>3, <1>4, <1>6, <1>7

LEMMA TranslatedExact ==
  ASSUME binding \in Bindings, NEW table, Tidy(table, Affines), Within(table, Keys), Agrees(table, Keys),
         NEW keys \in SUBSET Keys
  PROVE  LET given == Translated(table, keys)
         IN /\ given.asked = keys
            /\ given.known = \A k \in keys : binding[k] # Unbound
            /\ given.known => /\ Points(given.gave) = {binding[k].local : k \in {j \in keys : binding[j].eligible}}
                              /\ Canonical(given.gave)
<1> DEFINE asks == IdRanges(keys)
           Part(span) == TranslateSpan(table, span)
           parts == {Part(span) : span \in asks}
           known == \A part \in parts : part.known
           all == UNION {part.spans : part \in parts}
           given == Translated(table, keys)
<1>1. asks \in SUBSET (Int \X Int) /\ Canonical(asks) /\ Points(asks) = keys
  <2>1. keys \in SUBSET Int /\ IsFiniteSet(keys) /\ \A x \in keys : 1 <= x
    BY KeysAreIds, FS_Subset
  <2> QED BY <2>1, IdRangesExact
<1>2. given = [asked |-> keys, known |-> known, gave |-> IF known THEN Merge(all) ELSE {}]
  BY DEF Translated
<1>3. /\ \A r \in table : 1 <= r.first
      /\ Reaches(table)
      /\ \A x \in Keys : Touches(table, x) <=> binding[x] # Unbound
      /\ \A lo, hi \in Int : LocalsOf(table, lo, hi) =
           {binding[k].local : k \in {j \in Keys : lo <= j /\ j <= hi /\ binding[j] # Unbound /\ binding[j].eligible}}
  BY AgreesMeans
<1> HIDE DEF asks
<1>4. ASSUME NEW span \in asks
      PROVE  /\ Part(span).spans \in SUBSET (Locals \X Locals) /\ \A s \in Part(span).spans : First(s) <= End(s)
             /\ Part(span).known \in BOOLEAN
             /\ Part(span).known <=> \A x \in First(span) .. End(span) : binding[x] # Unbound
             /\ Part(span).known =>
                  \A y : y \in Points(Part(span).spans) <=>
                    \E k \in First(span) .. End(span) : binding[k].eligible /\ y = binding[k].local
  <2>1. span \in Int \X Int /\ First(span) <= End(span)
    BY <1>1 DEF Canonical
  <2>2. First(span) \in Int /\ End(span) \in Int
    BY <2>1 DEF First, End
  <2>3. \A x \in First(span) .. End(span) : x \in keys
    BY <1>1 DEF Points
  <2>4. /\ Part(span).spans \in SUBSET (Locals \X Locals) /\ \A s \in Part(span).spans : First(s) <= End(s)
        /\ Part(span).known \in BOOLEAN
        /\ Part(span).known <=> \A x \in First(span) .. End(span) : Touches(table, x)
        /\ Part(span).known => Points(Part(span).spans) = LocalsOf(table, First(span), End(span))
    BY <1>3, <2>1, TranslateSpanExact
  <2> HIDE DEF Part
  <2>5. Part(span).known <=> \A x \in First(span) .. End(span) : binding[x] # Unbound
    BY <1>3, <2>3, <2>4
  <2>6. ASSUME Part(span).known, NEW y
        PROVE  y \in Points(Part(span).spans) <=>
                 \E k \in First(span) .. End(span) : binding[k].eligible /\ y = binding[k].local
    <3>1. Points(Part(span).spans) =
            {binding[k].local : k \in {j \in Keys : First(span) <= j /\ j <= End(span) /\ binding[j] # Unbound
                                                    /\ binding[j].eligible}}
      BY <1>3, <2>2, <2>4, <2>6
    <3>2. \A k \in Keys : k \in Int
      BY KeysAreIds
    <3>3. \A k \in First(span) .. End(span) : binding[k] # Unbound /\ k \in Keys /\ First(span) <= k /\ k <= End(span)
      BY <2>2, <2>3, <2>5, <2>6
    <3>4. \A k \in Keys : First(span) <= k /\ k <= End(span) => k \in First(span) .. End(span)
      BY <2>2, <3>2
    <3> QED BY <3>1, <3>3, <3>4
  <2> QED BY <2>4, <2>5, <2>6
<1>5. known \in BOOLEAN
  OBVIOUS
<1> HIDE DEF Part
<1>6. known <=> \A span \in asks : Part(span).known
  OBVIOUS
<1>7. \A k : k \in keys <=> \E span \in asks : k \in First(span) .. End(span)
  BY <1>1 DEF Points
<1>8. known <=> \A k \in keys : binding[k] # Unbound
  BY <1>4, <1>6, <1>7
<1>9. \A s : s \in all <=> \E span \in asks : s \in Part(span).spans
  OBVIOUS
<1>10. given.asked = keys /\ given.known = known /\ (known => given.gave = Merge(all))
  BY <1>2
<1> HIDE DEF known, all, given
<1>11. all \in SUBSET (Locals \X Locals) /\ \A s \in all : First(s) <= End(s)
  BY <1>4, <1>9
<1>12. all \in SUBSET (Int \X Int) /\ IsFiniteSet(all) /\ \A s \in all : 1 <= First(s) /\ First(s) <= End(s)
  <2>1. MaxLocal \in Nat
    BY ImportAssumption
  <2>2. IsFiniteSet(Locals) /\ \A x \in Locals : x \in Int /\ 1 <= x
    BY <2>1, FS_Interval DEF Locals
  <2>3. IsFiniteSet(Locals \X Locals)
    BY <2>2, FS_Product
  <2>4. IsFiniteSet(all)
    BY <1>11, <2>3, FS_Subset
  <2>5. \A s \in all : s \in Int \X Int /\ 1 <= First(s)
    BY <1>11, <2>2 DEF First
  <2> QED BY <1>11, <2>4, <2>5
<1>13. Canonical(Merge(all)) /\ Points(Merge(all)) = Points(all)
  BY <1>12, MergeExact
<1>14. ASSUME known
       PROVE  Points(all) = {binding[k].local : k \in {j \in keys : binding[j].eligible}}
  <2>1. \A y : y \in Points(all) <=> \E span \in asks : y \in Points(Part(span).spans)
    BY <1>9 DEF Points
  <2>2. \A span \in asks : \A y : y \in Points(Part(span).spans) <=>
           \E k \in First(span) .. End(span) : binding[k].eligible /\ y = binding[k].local
    BY <1>4, <1>6, <1>14
  <2>3. \A y : y \in Points(all) <=> \E k \in keys : binding[k].eligible /\ y = binding[k].local
    <3> SUFFICES ASSUME NEW y
                 PROVE  y \in Points(all) <=> \E k \in keys : binding[k].eligible /\ y = binding[k].local
      OBVIOUS
    <3>1. ASSUME y \in Points(all) PROVE \E k \in keys : binding[k].eligible /\ y = binding[k].local
      <4>1. PICK span \in asks : y \in Points(Part(span).spans)
        BY <2>1, <3>1
      <4>2. PICK k \in First(span) .. End(span) : binding[k].eligible /\ y = binding[k].local
        BY <2>2, <4>1
      <4> QED BY <1>7, <4>2
    <3>2. ASSUME NEW k \in keys, binding[k].eligible, y = binding[k].local PROVE y \in Points(all)
      <4>1. PICK span \in asks : k \in First(span) .. End(span)
        BY <1>7
      <4>2. y \in Points(Part(span).spans)
        BY <2>2, <3>2, <4>1
      <4> QED BY <2>1, <4>2
    <3> QED BY <3>1, <3>2
  <2> QED BY <2>3
<1>15. given.known = \A k \in keys : binding[k] # Unbound
  BY <1>5, <1>8, <1>10
<1> QED BY <1>10, <1>13, <1>14, <1>15 DEF given

(* Translation: every step. *************************************************)

ImportInv ==
  /\ binding \in Bindings /\ dirty \in SUBSET Keys /\ ready \in BOOLEAN
  /\ Tidy(keyRanges, Affines) /\ Within(keyRanges, Keys)
  /\ ready => Agrees(keyRanges, Keys \ dirty)
  /\ TranslationExact

LEMMA RefreshedExact ==
  ASSUME ImportInv
  PROVE  Tidy(Refreshed, Affines) /\ Within(Refreshed, Keys) /\ Agrees(Refreshed, Keys)
<1>1. CASE ready
  <2>1. Refreshed = RefreshedBy(keyRanges, dirty)
    BY <1>1 DEF Refreshed, RefreshedBy
  <2>2. /\ binding \in Bindings /\ dirty \in SUBSET Keys
        /\ Tidy(keyRanges, Affines) /\ Within(keyRanges, Keys) /\ Agrees(keyRanges, Keys \ dirty)
    BY <1>1 DEF ImportInv
  <2> QED BY <2>1, <2>2, RefreshedByExact
<1>2. CASE ~ ready
  <2>1. Refreshed = FirstProjection
    BY <1>2 DEF Refreshed
  <2> QED BY <2>1, FirstProjectionExact DEF ImportInv
<1> QED BY <1>1, <1>2

LEMMA NoAnswerExact ==
  ASSUME answer = NoAnswer
  PROVE  TranslationExact
<1>1. answer.asked = {} /\ answer.known = TRUE /\ answer.gave = {}
  BY DEF NoAnswer
<1>2. Points({}) = {} /\ Canonical({})
  BY DEF Points, Canonical
<1> QED BY <1>1, <1>2 DEF TranslationExact

LEMMA ImportStart == RangesInit => ImportInv
<1> SUFFICES ASSUME RangesInit PROVE ImportInv
  OBVIOUS
<1>1. binding \in Bindings /\ dirty = {} /\ ready = FALSE /\ keyRanges = {} /\ answer = NoAnswer
  BY DEF RangesInit, UpgradeInit, Bindings
<1>2. Tidy({}, Affines) /\ Within({}, Keys)
  BY FS_EmptySet DEF Tidy, Within, Disjoint, Joined, Gives
<1> QED BY <1>1, <1>2, NoAnswerExact DEF ImportInv

\* Bindings that change only at keys marked dirty.
LEMMA MarkedChange ==
  ASSUME ImportInv, binding' \in Bindings, NEW keys \in SUBSET Keys, dirty' = dirty \cup keys,
         \A k \in Keys \ keys : binding'[k] = binding[k], answer' = NoAnswer, UNCHANGED <<ready, keyRanges>>
  PROVE  ImportInv'
<1>1. dirty' \in SUBSET Keys /\ ready' \in BOOLEAN /\ Tidy(keyRanges, Affines)' /\ Within(keyRanges, Keys)'
  BY DEF ImportInv, Tidy, Within
<1>2. ASSUME ready' PROVE Agrees(keyRanges, Keys \ dirty)'
  <2>1. Agrees(keyRanges, Keys \ dirty)
    BY <1>2 DEF ImportInv
  <2>2. keyRanges' = keyRanges
    OBVIOUS
  <2>3. ASSUME NEW x \in Keys \ dirty', NEW v
        PROVE  Gives(keyRanges, x, v) <=> binding'[x] # Unbound /\ v = Affine(x)'
    <3>1. x \in Keys \ dirty /\ binding'[x] = binding[x]
      OBVIOUS
    <3>2. Affine(x)' = Affine(x)
      BY <3>1 DEF Affine
    <3> QED BY <2>1, <3>1, <3>2 DEF Agrees
  <2> QED BY <2>2, <2>3 DEF Agrees
<1>3. TranslationExact'
  <2>1. answer'.asked = {} /\ answer'.known = TRUE /\ answer'.gave = {}
    BY DEF NoAnswer
  <2>2. Points({}) = {} /\ Canonical({})
    BY DEF Points, Canonical
  <2> QED BY <2>1, <2>2 DEF TranslationExact
<1> QED BY <1>1, <1>2, <1>3 DEF ImportInv

LEMMA BindKeeps ==
  ASSUME ImportInv, NEW key \in Keys, NEW local \in Locals, NEW eligible \in BOOLEAN, Bind(key, local, eligible)
  PROVE  ImportInv'
<1> DEFINE row == [local |-> local, eligible |-> eligible]
<1>1. binding \in Bindings /\ binding' = [binding EXCEPT ![key] = row]
  BY DEF Bind, ImportInv
<1>2. row \in [local : Locals, eligible : BOOLEAN]
  OBVIOUS
<1> HIDE DEF row
<1>3. binding' \in Bindings /\ \A k \in Keys \ {key} : binding'[k] = binding[k]
  BY <1>1, <1>2 DEF Bindings
<1>4. dirty' = dirty \cup {key} /\ answer' = NoAnswer /\ UNCHANGED <<ready, keyRanges>>
  BY DEF Bind, Mark
<1> QED BY <1>3, <1>4, MarkedChange

LEMMA LocalChangeKeeps ==
  ASSUME ImportInv, NEW local \in Locals, LocalChange(local)
  PROVE  ImportInv'
<1> DEFINE keys == {k \in Keys : binding[k] # Unbound /\ binding[k].local = local}
<1>1. PICK agree \in SUBSET keys :
        binding' = [k \in Keys |-> IF k \in keys THEN [binding[k] EXCEPT !.eligible = k \in agree] ELSE binding[k]]
  BY DEF LocalChange
<1>2. dirty' = dirty \cup keys /\ answer' = NoAnswer /\ UNCHANGED <<ready, keyRanges>>
  BY DEF LocalChange, Mark
<1>3. binding \in Bindings
  BY DEF ImportInv
<1>4. keys \in SUBSET Keys /\ \A k \in keys : binding[k] \in [local : Locals, eligible : BOOLEAN]
  BY <1>3 DEF Bindings
<1> HIDE DEF keys
<1>5. ASSUME NEW k \in keys PROVE [binding[k] EXCEPT !.eligible = k \in agree] \in [local : Locals, eligible : BOOLEAN]
  <2> DEFINE e == k \in agree
  <2>1. e \in BOOLEAN
    OBVIOUS
  <2> HIDE DEF e
  <2>2. [binding[k] EXCEPT !.eligible = e] \in [local : Locals, eligible : BOOLEAN]
    BY <1>4, <2>1
  <2> QED BY <2>2 DEF e
<1>6. binding' \in Bindings
  <2> DEFINE new(k) == IF k \in keys THEN [binding[k] EXCEPT !.eligible = k \in agree] ELSE binding[k]
  <2>1. \A k \in Keys : new(k) \in [local : Locals, eligible : BOOLEAN] \cup {Unbound}
    BY <1>3, <1>5 DEF Bindings
  <2>2. binding' = [k \in Keys |-> new(k)]
    BY <1>1
  <2> HIDE DEF new
  <2> QED BY <2>1, <2>2 DEF Bindings
<1>7. \A k \in Keys \ keys : binding'[k] = binding[k]
  BY <1>1
<1> QED BY <1>2, <1>4, <1>6, <1>7, MarkedChange

LEMMA TranslateKeeps ==
  ASSUME ImportInv, NEW keys \in SUBSET Keys, Translate(keys)
  PROVE  ImportInv'
<1> DEFINE table == Refreshed
           given == Translated(table, keys)
<1>0. binding \in Bindings
  BY DEF ImportInv
<1>1. Tidy(table, Affines) /\ Within(table, Keys) /\ Agrees(table, Keys)
  BY RefreshedExact
<1>2. /\ answer' = given /\ binding' = binding
      /\ answer'.known => keyRanges' = table /\ ready' = TRUE /\ dirty' = {}
      /\ ~ answer'.known => UNCHANGED <<dirty, ready, keyRanges>>
  BY DEF Translate
<1> HIDE DEF table
<1>3. /\ given.asked = keys
      /\ given.known = \A k \in keys : binding[k] # Unbound
      /\ given.known => /\ Points(given.gave) = {binding[k].local : k \in {j \in keys : binding[j].eligible}}
                        /\ Canonical(given.gave)
  BY <1>0, <1>1, TranslatedExact
<1> HIDE DEF given
<1>4. TranslationExact'
  <2>1. answer'.asked = keys /\ answer'.known = \A k \in keys : binding'[k] # Unbound
    BY <1>2, <1>3
  <2>2. (\A k \in keys : binding'[k] # Unbound) =>
           /\ Points(answer'.gave) = {binding'[k].local : k \in {j \in keys : binding'[j].eligible}}
           /\ Canonical(answer'.gave)
    BY <1>2, <1>3
  <2> QED BY <2>1, <2>2 DEF TranslationExact
<1>5. Tidy(keyRanges, Affines)' /\ Within(keyRanges, Keys)' /\ dirty' \in SUBSET Keys /\ ready' \in BOOLEAN
      /\ (ready' => Agrees(keyRanges, Keys \ dirty)')
  <2>1. CASE answer'.known
    <3>1. keyRanges' = table /\ ready' = TRUE /\ dirty' = {}
      BY <1>2, <2>1
    <3>2. Tidy(keyRanges, Affines)' /\ Within(keyRanges, Keys)'
      BY <1>1, <3>1 DEF Tidy, Within
    <3>3. \A x \in Keys : \A v : Gives(keyRanges', x, v) <=> binding'[x] # Unbound /\ v = Affine(x)'
      BY <1>1, <1>2, <3>1 DEF Agrees, Affine
    <3>4. Agrees(keyRanges, Keys \ dirty)'
      BY <3>1, <3>3 DEF Agrees
    <3> QED BY <3>1, <3>2, <3>4
  <2>2. CASE ~ answer'.known
    <3>1. UNCHANGED <<dirty, ready, keyRanges, binding>>
      BY <1>2, <2>2
    <3> QED BY <3>1 DEF ImportInv, Tidy, Within, Agrees, Affine
  <2> QED BY <2>1, <2>2
<1> QED BY <1>0, <1>2, <1>4, <1>5 DEF ImportInv

LEMMA ImportKeeps ==
  ASSUME ImportInv, [RangesNext]_<<subject, ranges, latest, importVars, spans, covered>>
  PROVE  ImportInv'
<1>1. CASE UNCHANGED importVars
  BY <1>1 DEF ImportInv, importVars, TranslationExact, Tidy, Within, Agrees, Affine
<1>2. CASE TranslateStep
  <2>1. ImportNext
    BY <1>2 DEF TranslateStep
  <2> QED BY <2>1, BindKeeps, LocalChangeKeeps, TranslateKeeps DEF ImportNext
<1> QED BY <1>1, <1>2 DEF RangesNext, SightStep, CoverStep

\* A translated refresh names the local row of every eligible id asked for and no other row,
\* whatever was bound, changed and translated before (cache/import_ranges.py, translate).
THEOREM TranslationIsExact == RangesSpec => []TranslationExact
<1>1. ImportInv => TranslationExact
  BY DEF ImportInv
<1>2. ImportInv /\ [RangesNext]_<<subject, ranges, latest, importVars, spans, covered>> => ImportInv'
  BY ImportKeeps
<1> QED BY ImportStart, <1>1, <1>2, PTL DEF RangesSpec

(* Sightings: forgetting. ***************************************************)

\* The tables of sightings that the code keeps.
SightTables == {table \in SUBSET TableRows(Sightings) : Tidy(table, Sightings) /\ Within(table, Ids)}

LEMMA IdsAreIds == Ids \in SUBSET Int /\ IsFiniteSet(Ids) /\ \A x \in Ids : 1 <= x
<1>1. MaxId \in Nat
  BY FreshnessAssumption
<1> QED BY <1>1, FS_Interval DEF Ids

LEMMA ForgetKeyExact ==
  ASSUME NEW table \in SightTables, NEW key \in Ids
  PROVE  /\ ForgetKey(table, key) \in SightTables
         /\ \A x \in Int : \A v : Gives(ForgetKey(table, key), x, v) <=> x # key /\ Gives(table, x, v)
<1> DEFINE new == ForgetKey(table, key)
<1>1. new = TakenOut(table, key)
  BY DEF ForgetKey, TakenOut
<1>2. /\ table \in SUBSET TableRows(Sightings) /\ IsFiniteSet(table) /\ Disjoint(table) /\ Joined(table)
      /\ Within(table, Ids) /\ key \in Int
  BY IdsAreIds DEF SightTables, Tidy
<1> HIDE DEF new
<1>3. /\ new \in SUBSET TableRows(Sightings) /\ IsFiniteSet(new) /\ Disjoint(new) /\ Joined(new)
      /\ \A x \in Int : \A v : Gives(new, x, v) <=> x # key /\ Gives(table, x, v)
  BY <1>1, <1>2, TakeOutExact
<1>4. Within(new, Ids)
  BY <1>2, <1>3 DEF Within
<1> QED BY <1>3, <1>4 DEF SightTables, Tidy, new

ForgottenBy(table, S) == InTurn(ForgetKey, table, S, ById(S))

\* The turns over the ids of a purge.
LEMMA ForgetLoop ==
  ASSUME NEW table \in SightTables, NEW S \in SUBSET Ids, IsFiniteSet(S), NEW Good, <<table, {}>> \in Good,
         \A a \in SightTables, x \in S :
           <<a, Before(S, ById(S), x)>> \in Good => <<ForgetKey(a, x), Before(S, ById(S), x) \cup {x}>> \in Good
  PROVE  <<ForgottenBy(table, S), S>> \in Good
<1> DEFINE order == ById(S)
           N == Cardinality(S)
           A == SightTables
           body == [p \in A \X S |-> ForgetKey(p[1], p[2])]
           Is(t) == t = [n \in 0 .. N |-> IF n = 0 THEN table ELSE ForgetKey(t[n - 1], InOrder(S, order)[n])]
           run == CHOOSE t : Is(t)
<1>1. Orders(order, S)
  <2>1. S \in SUBSET Int
    BY IdsAreIds
  <2> QED BY <2>1, IdsInOrder
<1>2. N \in Nat /\ \A n \in 1 .. N : InOrder(S, order)[n] \in S
  BY <1>1, TurnOfEach
<1>3. ASSUME NEW a \in A, NEW x \in S PROVE ForgetKey(a, x) \in A /\ body[<<a, x>>] = ForgetKey(a, x)
  <2>1. ForgetKey(a, x) \in A
    BY ForgetKeyExact
  <2> QED BY <2>1
<1>4. IsLoop(S, order, A, table, body)
  <2>1. table \in A
    OBVIOUS
  <2>2. body \in [A \X S -> A]
    BY <1>3
  <2> QED BY <1>1, <2>1, <2>2 DEF IsLoop
<1>5. PassedOn(Good, S, order, A, table, body)
  <2>1. \A a \in A, x \in S :
           <<a, Before(S, order, x)>> \in Good => <<ForgetKey(a, x), Before(S, order, x) \cup {x}>> \in Good
    OBVIOUS
  <2> HIDE DEF body, order, A
  <2> QED BY <1>3, <2>1 DEF PassedOn
<1>6. ForgottenBy(table, S) = run[N]
  BY DEF ForgottenBy, InTurn
<1> HIDE DEF body, order, N, A
<1>7. \E t : Is(t)
  <2>1. PICK t \in [0 .. N -> A] : IsRun(t, S, order, table, body)
    BY <1>4, LoopRuns DEF N
  <2>2. ASSUME NEW n \in 0 .. N
        PROVE  t[n] = (IF n = 0 THEN table ELSE ForgetKey(t[n - 1], InOrder(S, order)[n]))
    <3>1. CASE n = 0
      BY <2>1, <3>1 DEF IsRun
    <3>2. CASE n # 0
      <4>1. n \in 1 .. N /\ n - 1 \in 0 .. N
        BY <1>2, <3>2
      <4> QED BY <1>2, <1>3, <2>1, <3>2, <4>1 DEF IsRun, N
    <3> QED BY <3>1, <3>2
  <2>3. t = [n \in 0 .. N |-> t[n]]
    OBVIOUS
  <2> QED BY <2>2, <2>3
<1>8. Is(run)
  BY <1>7
<1> HIDE DEF run
<1>9. Follows(run, S, order, A, table, body)
  <2>1. \A n \in 0 .. N : run[n] = IF n = 0 THEN table ELSE ForgetKey(run[n - 1], InOrder(S, order)[n])
    BY <1>8
  <2> HIDE DEF Is
  <2>2. run[0] = table
    BY <1>2, <2>1
  <2>3. ASSUME NEW n \in 1 .. N, run[n - 1] \in A PROVE run[n] = body[<<run[n - 1], InOrder(S, order)[n]>>]
    <3>1. run[n] = ForgetKey(run[n - 1], InOrder(S, order)[n])
      BY <1>2, <2>1
    <3> QED BY <1>2, <1>3, <2>3, <3>1
  <2> QED BY <2>2, <2>3 DEF Follows, N
<1>10. <<run[N], S>> \in Good
  BY <1>4, <1>5, <1>9, LoopLeads DEF N
<1> QED BY <1>6, <1>10

LEMMA ForgottenExact ==
  ASSUME NEW table \in SightTables, NEW S \in SUBSET Ids
  PROVE  /\ ForgottenBy(table, S) \in SightTables
         /\ \A x \in Int : \A v : Gives(ForgottenBy(table, S), x, v) <=> x \notin S /\ Gives(table, x, v)
<1> DEFINE Kept(a, D) == \A x \in Int : \A v : Gives(a, x, v) <=> x \notin D /\ Gives(table, x, v)
           Good == {p \in SightTables \X SUBSET S : Kept(p[1], p[2])}
<1>1. <<table, {}>> \in Good
  <2>1. Kept(table, {})
    OBVIOUS
  <2> HIDE DEF Kept
  <2> QED BY <2>1
<1>2. ASSUME NEW a \in SightTables, NEW key \in S, <<a, Before(S, ById(S), key)>> \in Good
      PROVE  <<ForgetKey(a, key), Before(S, ById(S), key) \cup {key}>> \in Good
  <2> DEFINE D == Before(S, ById(S), key)
  <2>1. Kept(a, D) /\ D \in SUBSET S
    BY <1>2
  <2>2. key \in Ids
    OBVIOUS
  <2> HIDE DEF D
  <2>3. /\ ForgetKey(a, key) \in SightTables
        /\ \A x \in Int : \A v : Gives(ForgetKey(a, key), x, v) <=> x # key /\ Gives(a, x, v)
    BY <2>2, ForgetKeyExact
  <2>4. Kept(ForgetKey(a, key), D \cup {key})
    BY <2>1, <2>3
  <2> HIDE DEF Kept
  <2>5. D \cup {key} \in SUBSET S
    BY <2>1
  <2> QED BY <2>3, <2>4, <2>5 DEF D
<1> HIDE DEF Good
<1>3. IsFiniteSet(S)
  BY IdsAreIds, FS_Subset
<1>4. <<ForgottenBy(table, S), S>> \in Good
  BY <1>1, <1>2, <1>3, ForgetLoop
<1> QED BY <1>4 DEF Good

(* Sightings: one span against the old rows. ********************************)

Later(v, s) == v.at > s.at

\* What a stamp with s leaves at a key that a table gives v, or nothing.
HasLater(table, x, s) == \E v : Gives(table, x, v) /\ Later(v, s)
Stamped(table, x, v, s) ==
  \/ v = s /\ ~ HasLater(table, x, s)
  \/ Gives(table, x, v) /\ Later(v, s)

Cuts == [pieces : SUBSET TableRows(Sightings), position : Int]

CutAll(old, lo, hi, s) ==
  LET Body(acc, row) == Cut(acc, row, lo, hi, s)
  IN InTurn(Body, [pieces |-> {}, position |-> lo], old, ByFirst(old))

Wins(row, s) == IF row.value.at > s.at THEN row.value ELSE s

\* The four pieces of a turn.
FourPieces(position, row, lo, hi, s) ==
  {p \in {Interval(row.first, lo - 1, row.value), Interval(position, row.first - 1, s),
          Interval(Larger(lo, row.first), Smaller(hi, row.last), Wins(row, s)),
          Interval(hi + 1, row.last, row.value)} : p.first <= p.last}

LEMMA FourPiecesAre ==
  ASSUME NEW position \in Int, NEW row \in TableRows(Sightings), NEW lo \in Int, NEW hi \in Int, NEW s \in Sightings,
         lo <= hi, row.first <= hi, lo <= row.last, row.first <= row.last,
         lo <= position, position <= Larger(lo, row.first)
  PROVE  LET four == FourPieces(position, row, lo, hi, s)
             a == Larger(lo, row.first)
             b == Smaller(hi, row.last)
         IN /\ four \in SUBSET TableRows(Sightings) /\ IsFiniteSet(four) /\ Disjoint(four)
            /\ \A p \in four : /\ p.last <= row.last
                               /\ p.last <= b \/ hi < p.first
                               /\ position <= p.first \/ (row.first < lo /\ p.last < lo)
            /\ \A x \in Int : \A v : Gives(four, x, v) <=>
                 \/ row.first <= x /\ x < lo /\ v = row.value
                 \/ position <= x /\ x < row.first /\ v = s
                 \/ a <= x /\ x <= b /\ v = Wins(row, s)
                 \/ hi < x /\ x <= row.last /\ v = row.value
<1> DEFINE a == Larger(lo, row.first)
           b == Smaller(hi, row.last)
           w == Wins(row, s)
           l == lo - 1
           f == row.first - 1
           h == hi + 1
           p1 == Interval(row.first, l, row.value)
           p2 == Interval(position, f, s)
           p3 == Interval(a, b, w)
           p4 == Interval(h, row.last, row.value)
           four == FourPieces(position, row, lo, hi, s)
<1>1. /\ row.first \in Int /\ row.last \in Int /\ row.value \in Sightings
      /\ a \in Int /\ b \in Int /\ w \in Sightings /\ l \in Int /\ f \in Int /\ h \in Int
  BY DEF TableRows, Larger, Smaller, Wins
<1>2. lo <= a /\ a <= b /\ b <= hi /\ row.first <= a /\ b <= row.last /\ (a = lo \/ a = row.first) /\ position <= a
  BY <1>1 DEF Larger, Smaller
<1>3. l = lo - 1 /\ f = row.first - 1 /\ h = hi + 1
  OBVIOUS
<1>4. four = {p \in {p1, p2, p3, p4} : p.first <= p.last}
  BY DEF FourPieces
<1> HIDE DEF a, b, w, l, f, h, four
<1>5. /\ p1 \in TableRows(Sightings) /\ p1.first = row.first /\ p1.last = l /\ p1.value = row.value
      /\ p2 \in TableRows(Sightings) /\ p2.first = position /\ p2.last = f /\ p2.value = s
      /\ p3 \in TableRows(Sightings) /\ p3.first = a /\ p3.last = b /\ p3.value = w
      /\ p4 \in TableRows(Sightings) /\ p4.first = h /\ p4.last = row.last /\ p4.value = row.value
  BY <1>1 DEF Interval, TableRows
<1> HIDE DEF p1, p2, p3, p4
<1>6. \A p : p \in four <=> (p = p1 \/ p = p2 \/ p = p3 \/ p = p4) /\ p.first <= p.last
  BY <1>4
<1>7. four \in SUBSET TableRows(Sightings)
  BY <1>5, <1>6
<1>8. IsFiniteSet(four)
  <2>1. IsFiniteSet({p1})
    BY FS_Singleton
  <2>2. IsFiniteSet({p1} \cup {p2})
    BY <2>1, FS_AddElement
  <2>3. IsFiniteSet(({p1} \cup {p2}) \cup {p3})
    BY <2>2, FS_AddElement
  <2>4. IsFiniteSet((({p1} \cup {p2}) \cup {p3}) \cup {p4})
    BY <2>3, FS_AddElement
  <2>5. four \in SUBSET ((({p1} \cup {p2}) \cup {p3}) \cup {p4})
    BY <1>6
  <2> QED BY <2>4, <2>5, FS_Subset
<1>9. Disjoint(four)
  <2>1. \A p \in four : p.first <= p.last
    BY <1>6
  <2>2. ASSUME NEW p \in four, NEW q \in four, p # q PROVE p.last < q.first \/ q.last < p.first
    <3>1. CASE p = p1
      BY <1>1, <1>2, <1>3, <1>5, <1>6, <2>2, <3>1
    <3>2. CASE p = p2
      BY <1>1, <1>2, <1>3, <1>5, <1>6, <2>2, <3>2
    <3>3. CASE p = p3
      BY <1>1, <1>2, <1>3, <1>5, <1>6, <2>2, <3>3
    <3>4. CASE p = p4
      BY <1>1, <1>2, <1>3, <1>5, <1>6, <2>2, <3>4
    <3> QED BY <1>6, <3>1, <3>2, <3>3, <3>4
  <2> QED BY <2>1, <2>2 DEF Disjoint
<1>10. ASSUME NEW p \in four
       PROVE  /\ p.last <= row.last
              /\ p.last <= b \/ hi < p.first
              /\ position <= p.first \/ (row.first < lo /\ p.last < lo)
  BY <1>1, <1>2, <1>3, <1>5, <1>6
<1>11. ASSUME NEW x \in Int, NEW v
       PROVE  Gives(four, x, v) <=>
                 \/ row.first <= x /\ x < lo /\ v = row.value
                 \/ position <= x /\ x < row.first /\ v = s
                 \/ a <= x /\ x <= b /\ v = w
                 \/ hi < x /\ x <= row.last /\ v = row.value
  <2>1. Gives(four, x, v) <=> \/ p1.first <= x /\ x <= p1.last /\ p1.value = v
                              \/ p2.first <= x /\ x <= p2.last /\ p2.value = v
                              \/ p3.first <= x /\ x <= p3.last /\ p3.value = v
                              \/ p4.first <= x /\ x <= p4.last /\ p4.value = v
    <3>1. ASSUME NEW p, p = p1 \/ p = p2 \/ p = p3 \/ p = p4, p.first <= x, x <= p.last, p.value = v
          PROVE  Gives(four, x, v)
      <4>1. p \in four
        BY <1>1, <1>5, <1>6, <3>1
      <4> QED BY <3>1, <4>1 DEF Gives
    <3>2. ASSUME Gives(four, x, v)
          PROVE  \E p : (p = p1 \/ p = p2 \/ p = p3 \/ p = p4) /\ p.first <= x /\ x <= p.last /\ p.value = v
      BY <1>6, <3>2 DEF Gives
    <3> QED BY <3>1, <3>2
  <2> QED BY <1>1, <1>3, <1>5, <2>1
<1> QED BY <1>7, <1>8, <1>9, <1>10, <1>11 DEF a, b, w, four

LEMMA CutIs ==
  ASSUME NEW acc \in Cuts, NEW row \in TableRows(Sightings), NEW lo \in Int, NEW hi \in Int, NEW s \in Sightings
  PROVE  /\ Cut(acc, row, lo, hi, s) \in Cuts
         /\ Cut(acc, row, lo, hi, s).pieces = acc.pieces \cup FourPieces(acc.position, row, lo, hi, s)
         /\ Cut(acc, row, lo, hi, s).position = Smaller(hi, row.last) + 1
<1> DEFINE four == FourPieces(acc.position, row, lo, hi, s)
           all == acc.pieces \cup four
           next == Smaller(hi, row.last) + 1
           new == Cut(acc, row, lo, hi, s)
<1>1. row.first \in Int /\ row.last \in Int /\ row.value \in Sightings /\ acc.position \in Int
  BY DEF TableRows, Cuts
<1>2. new = [pieces |-> all, position |-> next]
  BY DEF Cut, FourPieces, Wins
<1>3. next \in Int
  BY <1>1 DEF Smaller
<1>4. four \in SUBSET TableRows(Sightings)
  BY <1>1 DEF FourPieces, Interval, TableRows, Larger, Smaller, Wins
<1> HIDE DEF four, next, new
<1>5. all \in SUBSET TableRows(Sightings)
  BY <1>4 DEF Cuts
<1> HIDE DEF all
<1>6. new \in Cuts /\ new.pieces = all /\ new.position = next
  BY <1>2, <1>3, <1>5 DEF Cuts
<1> QED BY <1>6 DEF new, all, four, next

\* The turns over the old rows.
LEMMA CutLoop ==
  ASSUME NEW S \in SUBSET TableRows(Sightings), IsFiniteSet(S), Disjoint(S),
         NEW lo \in Int, NEW hi \in Int, NEW s \in Sightings, NEW Good, <<[pieces |-> {}, position |-> lo], {}>> \in Good,
         \A a \in Cuts, x \in S :
           <<a, Before(S, ByFirst(S), x)>> \in Good => <<Cut(a, x, lo, hi, s), Before(S, ByFirst(S), x) \cup {x}>> \in Good
  PROVE  <<CutAll(S, lo, hi, s), S>> \in Good
<1> DEFINE order == ByFirst(S)
           N == Cardinality(S)
           A == Cuts
           body == [p \in A \X S |-> Cut(p[1], p[2], lo, hi, s)]
           Is(t) == t = [n \in 0 .. N |-> IF n = 0 THEN [pieces |-> {}, position |-> lo]
                                          ELSE Cut(t[n - 1], InOrder(S, order)[n], lo, hi, s)]
           run == CHOOSE t : Is(t)
<1>1. Orders(order, S)
  BY RowsInOrder
<1>2. N \in Nat /\ \A n \in 1 .. N : InOrder(S, order)[n] \in S
  BY <1>1, TurnOfEach
<1>3. ASSUME NEW a \in A, NEW x \in S PROVE Cut(a, x, lo, hi, s) \in A /\ body[<<a, x>>] = Cut(a, x, lo, hi, s)
  <2>1. Cut(a, x, lo, hi, s) \in A
    BY CutIs
  <2> QED BY <2>1
<1>4. IsLoop(S, order, A, [pieces |-> {}, position |-> lo], body)
  <2>1. [pieces |-> {}, position |-> lo] \in A
    BY DEF Cuts
  <2>2. body \in [A \X S -> A]
    BY <1>3
  <2> QED BY <1>1, <2>1, <2>2 DEF IsLoop
<1>5. PassedOn(Good, S, order, A, [pieces |-> {}, position |-> lo], body)
  <2>1. \A a \in A, x \in S :
           <<a, Before(S, order, x)>> \in Good => <<Cut(a, x, lo, hi, s), Before(S, order, x) \cup {x}>> \in Good
    OBVIOUS
  <2> HIDE DEF body, order, A
  <2> QED BY <1>3, <2>1 DEF PassedOn
<1>6. CutAll(S, lo, hi, s) = run[N]
  BY DEF CutAll, InTurn
<1> HIDE DEF body, order, N, A
<1>7. \E t : Is(t)
  <2>1. PICK t \in [0 .. N -> A] : IsRun(t, S, order, [pieces |-> {}, position |-> lo], body)
    BY <1>4, LoopRuns DEF N
  <2>2. ASSUME NEW n \in 0 .. N
        PROVE  t[n] = (IF n = 0 THEN [pieces |-> {}, position |-> lo] ELSE Cut(t[n - 1], InOrder(S, order)[n], lo, hi, s))
    <3>1. CASE n = 0
      BY <2>1, <3>1 DEF IsRun
    <3>2. CASE n # 0
      <4>1. n \in 1 .. N /\ n - 1 \in 0 .. N
        BY <1>2, <3>2
      <4> QED BY <1>2, <1>3, <2>1, <3>2, <4>1 DEF IsRun, N
    <3> QED BY <3>1, <3>2
  <2>3. t = [n \in 0 .. N |-> t[n]]
    OBVIOUS
  <2> QED BY <2>2, <2>3
<1>8. Is(run)
  BY <1>7
<1> HIDE DEF run
<1>9. Follows(run, S, order, A, [pieces |-> {}, position |-> lo], body)
  <2>1. \A n \in 0 .. N : run[n] =
        IF n = 0 THEN [pieces |-> {}, position |-> lo] ELSE Cut(run[n - 1], InOrder(S, order)[n], lo, hi, s)
    BY <1>8
  <2> HIDE DEF Is
  <2>2. run[0] = [pieces |-> {}, position |-> lo]
    BY <1>2, <2>1
  <2>3. ASSUME NEW n \in 1 .. N, run[n - 1] \in A PROVE run[n] = body[<<run[n - 1], InOrder(S, order)[n]>>]
    <3>1. run[n] = Cut(run[n - 1], InOrder(S, order)[n], lo, hi, s)
      BY <1>2, <2>1
    <3> QED BY <1>2, <1>3, <2>3, <3>1
  <2> QED BY <2>2, <2>3 DEF Follows, N
<1>10. <<run[N], S>> \in Good
  BY <1>4, <1>5, <1>9, LoopLeads DEF N
<1> QED BY <1>6, <1>10

\* What the turns over the rows D have made of them.
CutSoFar(acc, D, lo, hi, s) ==
  /\ IsFiniteSet(acc.pieces) /\ Disjoint(acc.pieces)
  /\ lo <= acc.position /\ acc.position <= hi + 1
  /\ D = {} => acc.position = lo /\ acc.pieces = {}
  /\ D # {} => \E d \in D : acc.position <= d.last + 1
  /\ \A d \in D : d.last < acc.position \/ acc.position = hi + 1
  /\ \A p \in acc.pieces : /\ p.last < acc.position \/ hi < p.first
                           /\ \E d \in D : p.last <= d.last
  /\ \A x \in Int : \A v : Gives(acc.pieces, x, v) <=>
       \/ lo <= x /\ x < acc.position /\ Stamped(D, x, v, s)
       \/ (x < lo \/ hi < x) /\ Gives(D, x, v)

\* Tables that share no key are one table.
LEMMA DisjointUnion ==
  ASSUME NEW V, NEW S \in SUBSET TableRows(V), Disjoint(S), NEW T \in SUBSET TableRows(V), Disjoint(T),
         \A r \in S, q \in T : r.last < q.first \/ q.last < r.first
  PROVE  Disjoint(S \cup T)
<1>1. \A r \in S \cup T : r.first <= r.last
  BY DEF Disjoint
<1>2. ASSUME NEW r \in S \cup T, NEW q \in S \cup T, r # q PROVE r.last < q.first \/ q.last < r.first
  <2>1. CASE r \in S /\ q \in S
    BY <1>2, <2>1 DEF Disjoint
  <2>2. CASE r \in T /\ q \in T
    BY <1>2, <2>2 DEF Disjoint
  <2>3. CASE r \in S /\ q \in T
    BY <2>3
  <2>4. CASE r \in T /\ q \in S
    BY <2>4
  <2> QED BY <2>1, <2>2, <2>3, <2>4
<1> QED BY <1>1, <1>2 DEF Disjoint

LEMMA StampedSame ==
  ASSUME NEW S, NEW T, NEW x, \A v : Gives(S, x, v) <=> Gives(T, x, v), NEW v, NEW s
  PROVE  Stamped(S, x, v, s) <=> Stamped(T, x, v, s)
BY DEF Stamped, HasLater

LEMMA CutExact ==
  ASSUME NEW old \in SUBSET TableRows(Sightings), Disjoint(old), NEW lo \in Int, NEW hi \in Int, lo <= hi,
         NEW s \in Sightings, NEW row \in old, row.first <= hi, lo <= row.last,
         NEW acc \in Cuts, NEW D \in SUBSET old, CutSoFar(acc, D, lo, hi, s),
         \A d \in D : d.last < row.first /\ lo <= d.last
  PROVE  CutSoFar(Cut(acc, row, lo, hi, s), D \cup {row}, lo, hi, s)
<1> DEFINE a == Larger(lo, row.first)
           b == Smaller(hi, row.last)
           w == Wins(row, s)
           four == FourPieces(acc.position, row, lo, hi, s)
           new == Cut(acc, row, lo, hi, s)
           at == acc.position
           P == acc.pieces
           Q == new.pieces
           E == D \cup {row}
<1>0. \A q \in old : q.first \in Int /\ q.last \in Int /\ q.value \in Sightings /\ q.first <= q.last
  BY DEF TableRows, Disjoint
<1>1. /\ at \in Int /\ P \in SUBSET TableRows(Sightings)
      /\ IsFiniteSet(P) /\ Disjoint(P) /\ lo <= at /\ at <= hi + 1
      /\ D = {} => at = lo /\ P = {}
      /\ D # {} => \E d \in D : at <= d.last + 1
      /\ \A d \in D : d.last < at \/ at = hi + 1
      /\ \A p \in P : /\ p.last < at \/ hi < p.first
                      /\ \E d \in D : p.last <= d.last
      /\ \A x \in Int : \A v : Gives(P, x, v) <=>
           \/ lo <= x /\ x < at /\ Stamped(D, x, v, s)
           \/ (x < lo \/ hi < x) /\ Gives(D, x, v)
  BY DEF CutSoFar, Cuts
<1>2. new \in Cuts /\ Q = P \cup four /\ new.position = b + 1
  <2>1. row \in TableRows(Sightings)
    OBVIOUS
  <2> QED BY <2>1, CutIs
<1>3. /\ a \in Int /\ b \in Int /\ lo <= a /\ a <= b /\ b <= hi /\ row.first <= a /\ b <= row.last
      /\ (a = lo \/ a = row.first) /\ (b = hi \/ b = row.last)
  BY <1>0 DEF Larger, Smaller
<1>4. at <= a
  <2>1. CASE D = {}
    BY <1>1, <1>3, <2>1
  <2>2. CASE D # {}
    <3>1. PICK d \in D : at <= d.last + 1
      BY <1>1, <2>2
    <3>2. d.last \in Int /\ d.last < row.first /\ row.first \in Int
      BY <1>0
    <3> QED BY <1>1, <1>3, <3>1, <3>2
  <2> QED BY <2>1, <2>2
<1>5. \A d \in D : d.last < at
  BY <1>1, <1>3, <1>4
<1>6. \A p \in P : p.first \in Int /\ p.last \in Int /\ p.first <= p.last /\ p.last < at
  <2> TAKE p \in P
  <2>1. p.first \in Int /\ p.last \in Int /\ p.first <= p.last
    BY <1>1 DEF TableRows, Disjoint
  <2>2. PICK d \in D : p.last <= d.last
    BY <1>1
  <2>3. d.last \in Int /\ d.last < at
    BY <1>0, <1>5
  <2> QED BY <1>1, <2>1, <2>2, <2>3
<1>7. row.first < lo => D = {} /\ P = {}
  <2>1. SUFFICES ASSUME row.first < lo, NEW d \in D PROVE FALSE
    BY <1>1
  <2>2. d.last \in Int /\ d.last < row.first /\ lo <= d.last /\ row.first \in Int
    BY <1>0
  <2> QED BY <2>1, <2>2
<1>8. /\ four \in SUBSET TableRows(Sightings) /\ IsFiniteSet(four) /\ Disjoint(four)
      /\ \A p \in four : /\ p.last <= row.last
                         /\ p.last <= b \/ hi < p.first
                         /\ at <= p.first \/ (row.first < lo /\ p.last < lo)
      /\ \A x \in Int : \A v : Gives(four, x, v) <=>
           \/ row.first <= x /\ x < lo /\ v = row.value
           \/ at <= x /\ x < row.first /\ v = s
           \/ a <= x /\ x <= b /\ v = w
           \/ hi < x /\ x <= row.last /\ v = row.value
  <2>1. row \in TableRows(Sightings) /\ row.first <= row.last
    BY <1>0
  <2> QED BY <1>1, <1>4, <2>1, FourPiecesAre
<1>9. w = (IF Later(row.value, s) THEN row.value ELSE s)
  BY DEF Later, Wins
<1> HIDE DEF a, b, w, four, new, at, P, Q
<1>10. IsFiniteSet(Q)
  BY <1>1, <1>2, <1>8, FS_Union
<1>11. Disjoint(Q)
  <2>1. \A p \in P, q \in four : p.last < q.first \/ q.last < p.first
    <3> SUFFICES ASSUME NEW p \in P, NEW q \in four PROVE p.last < q.first \/ q.last < p.first
      OBVIOUS
    <3>1. at <= q.first
      BY <1>7, <1>8
    <3>2. q.first \in Int
      BY <1>8 DEF TableRows
    <3> QED BY <1>1, <1>6, <3>1, <3>2
  <2> QED BY <1>1, <1>2, <1>8, <2>1, DisjointUnion
<1>12. lo <= b + 1 /\ b + 1 <= hi + 1 /\ b + 1 <= row.last + 1
  BY <1>0, <1>3
<1>13. \A d \in E : d.last < b + 1 \/ b + 1 = hi + 1
  <2>1. \A d \in D : d.last < b + 1
    <3> TAKE d \in D
    <3>1. d.last \in Int /\ d.last < at
      BY <1>0, <1>5
    <3> QED BY <1>1, <1>3, <1>4, <3>1
  <2>2. row.last < b + 1 \/ b + 1 = hi + 1
    BY <1>0, <1>3
  <2> QED BY <2>1, <2>2
<1>14. \A p \in Q : /\ p.last < b + 1 \/ hi < p.first
                    /\ \E d \in E : p.last <= d.last
  <2> TAKE p \in Q
  <2>1. CASE p \in P
    BY <1>1, <1>3, <1>4, <1>6, <2>1
  <2>2. CASE p \in four
    <3>1. p.last \in Int
      BY <1>8, <2>2 DEF TableRows
    <3> QED BY <1>3, <1>8, <2>2, <3>1
  <2> QED BY <1>2, <2>1, <2>2
<1>15. ASSUME NEW x \in Int, NEW v
       PROVE  Gives(Q, x, v) <=> \/ lo <= x /\ x < b + 1 /\ Stamped(E, x, v, s)
                                 \/ (x < lo \/ hi < x) /\ Gives(E, x, v)
  <2>1. Gives(Q, x, v) <=> Gives(P, x, v) \/ Gives(four, x, v)
    BY <1>2 DEF Gives
  <2>2. \A u : Gives(E, x, u) <=> Gives(D, x, u) \/ (row.first <= x /\ x <= row.last /\ row.value = u)
    BY DEF Gives
  <2>3. row.first \in Int /\ row.last \in Int
    BY <1>0
  <2> HIDE DEF E
  <2>4. CASE x < lo \/ hi < x
    <3>1. Gives(P, x, v) <=> Gives(D, x, v)
      BY <1>1, <2>4
    <3>2. Gives(four, x, v) <=> row.first <= x /\ x <= row.last /\ row.value = v
      BY <1>1, <1>3, <1>4, <1>8, <2>3, <2>4
    <3>3. ~ (lo <= x /\ x < b + 1)
      BY <1>3, <2>4
    <3> QED BY <2>1, <2>2, <2>4, <3>1, <3>2, <3>3
  <2>5. CASE lo <= x /\ x < at
    <3>1. ~ (row.first <= x /\ x <= row.last)
      BY <1>1, <1>3, <1>4, <2>3, <2>5
    <3>2. Stamped(E, x, v, s) <=> Stamped(D, x, v, s)
      BY <2>2, <3>1, StampedSame
    <3>3. ~ Gives(four, x, v)
      BY <1>1, <1>3, <1>4, <1>8, <2>3, <2>5
    <3>4. Gives(P, x, v) <=> Stamped(D, x, v, s)
      BY <1>1, <1>3, <1>4, <2>5
    <3>5. x < b + 1 /\ ~ (x < lo \/ hi < x)
      BY <1>1, <1>3, <1>4, <2>5
    <3> QED BY <2>1, <2>5, <3>2, <3>3, <3>4, <3>5
  <2>6. CASE lo <= x /\ at <= x /\ x <= hi
    <3>1. \A u : ~ Gives(D, x, u)
      <4> SUFFICES ASSUME NEW d \in D, x <= d.last PROVE FALSE
        BY DEF Gives
      <4>1. d.last \in Int /\ d.last < at
        BY <1>0, <1>5
      <4> QED BY <1>1, <2>6, <4>1
    <3>2. ~ Gives(P, x, v)
      <4>1. ~ (lo <= x /\ x < at) /\ ~ (x < lo \/ hi < x)
        BY <1>1, <2>6
      <4> QED BY <1>1, <4>1
    <3>3. \A u : Gives(E, x, u) <=> row.first <= x /\ x <= row.last /\ row.value = u
      BY <2>2, <3>1
    <3>4. CASE x < a
      <4>1. a = row.first /\ x < row.first /\ x < b + 1
        BY <1>3, <2>3, <2>6, <3>4
      <4>2. Gives(four, x, v) <=> v = s
        BY <1>1, <1>3, <1>8, <2>3, <2>6, <4>1
      <4>3. \A u : ~ Gives(E, x, u)
        BY <2>3, <3>3, <4>1
      <4>4. Stamped(E, x, v, s) <=> v = s
        BY <4>3 DEF Stamped, HasLater
      <4>5. ~ (x < lo \/ hi < x)
        BY <2>6
      <4> QED BY <2>1, <2>6, <3>2, <4>1, <4>2, <4>4, <4>5
    <3>5. CASE a <= x /\ x <= b
      <4>1. Gives(four, x, v) <=> v = w
        BY <1>1, <1>3, <1>8, <2>3, <2>6, <3>5
      <4>2. row.first <= x /\ x <= row.last /\ x < b + 1
        BY <1>3, <2>3, <3>5
      <4>3. \A u : Gives(E, x, u) <=> row.value = u
        BY <3>3, <4>2
      <4>4. Stamped(E, x, v, s) <=> v = w
        BY <1>9, <4>3 DEF Stamped, HasLater
      <4>5. ~ (x < lo \/ hi < x)
        BY <2>6
      <4> QED BY <2>1, <2>6, <3>2, <4>1, <4>2, <4>4, <4>5
    <3>6. CASE b < x
      <4>1. b = row.last /\ ~ (x < b + 1) /\ ~ (x < lo \/ hi < x)
        BY <1>3, <2>3, <2>6, <3>6
      <4>2. ~ Gives(four, x, v)
        BY <1>1, <1>3, <1>8, <2>3, <2>6, <3>6, <4>1
      <4> QED BY <2>1, <3>2, <4>1, <4>2
    <3> QED BY <1>3, <3>4, <3>5, <3>6
  <2> QED BY <1>1, <2>4, <2>5, <2>6
<1>16. E # {} /\ \E d \in E : b + 1 <= d.last + 1
  BY <1>12
<1> HIDE DEF E
<1>17. CutSoFar(new, E, lo, hi, s)
  <2>1. Q = new.pieces /\ new.position = b + 1
    BY <1>2 DEF Q
  <2> QED BY <1>10, <1>11, <1>12, <1>13, <1>14, <1>15, <1>16, <2>1 DEF CutSoFar
<1> QED BY <1>17 DEF new, E

\* The pieces of a span and the rows it touches: each key once, with the sighting it has after the stamp.
LEMMA PiecesExact ==
  ASSUME NEW old \in SUBSET TableRows(Sightings), IsFiniteSet(old), Disjoint(old), NEW lo \in Int, NEW hi \in Int,
         lo <= hi, NEW s \in Sightings, \A r \in old : r.first <= hi /\ lo <= r.last
  PROVE  LET pieces == Pieces(old, lo, hi, s)
         IN /\ pieces \in SUBSET TableRows(Sightings) /\ IsFiniteSet(pieces) /\ Disjoint(pieces)
            /\ \A x \in Int : \A v : Gives(pieces, x, v) <=>
                 \/ lo <= x /\ x <= hi /\ Stamped(old, x, v, s)
                 \/ (x < lo \/ hi < x) /\ Gives(old, x, v)
<1> DEFINE all == CutAll(old, lo, hi, s)
           rest == Interval(all.position, hi, s)
           pieces == Pieces(old, lo, hi, s)
           start == [pieces |-> {}, position |-> lo]
           Good == {p \in Cuts \X SUBSET old : CutSoFar(p[1], p[2], lo, hi, s)}
<1>1. pieces = all.pieces \cup {p \in {rest} : p.first <= p.last}
  BY DEF Pieces, CutAll
<1> HIDE DEF all, pieces
<1>2. <<start, {}>> \in Good
  <2>1. start \in Cuts /\ start.pieces = {} /\ start.position = lo
    BY DEF Cuts
  <2> HIDE DEF start
  <2>2. Disjoint({}) /\ IsFiniteSet({}) /\ \A x, v : ~ Gives({}, x, v)
    BY FS_EmptySet DEF Disjoint, Gives
  <2>3. CutSoFar(start, {}, lo, hi, s)
    BY <2>1, <2>2 DEF CutSoFar
  <2> QED BY <2>1, <2>3
<1>3. ASSUME NEW acc \in Cuts, NEW row \in old, <<acc, Before(old, ByFirst(old), row)>> \in Good
      PROVE  <<Cut(acc, row, lo, hi, s), Before(old, ByFirst(old), row) \cup {row}>> \in Good
  <2> DEFINE D == Before(old, ByFirst(old), row)
  <2>1. CutSoFar(acc, D, lo, hi, s) /\ D \in SUBSET old
    BY <1>3
  <2>2. \A d \in D : d.last < row.first /\ lo <= d.last
    BY <2>1, RowsInOrder
  <2> HIDE DEF D
  <2>3. CutSoFar(Cut(acc, row, lo, hi, s), D \cup {row}, lo, hi, s)
    BY <2>1, <2>2, CutExact
  <2>4. Cut(acc, row, lo, hi, s) \in Cuts
    BY CutIs
  <2> QED BY <2>1, <2>3, <2>4 DEF D
<1> HIDE DEF Good
<1>4. <<all, old>> \in Good
  BY <1>2, <1>3, CutLoop DEF all
<1>5. all \in Cuts /\ CutSoFar(all, old, lo, hi, s)
  BY <1>4 DEF Good
<1> DEFINE at == all.position
           P == all.pieces
<1>6. /\ at \in Int /\ P \in SUBSET TableRows(Sightings)
      /\ IsFiniteSet(P) /\ Disjoint(P) /\ lo <= at /\ at <= hi + 1
      /\ \A d \in old : d.last < at \/ at = hi + 1
      /\ \A p \in P : p.last < at \/ hi < p.first
      /\ \A x \in Int : \A v : Gives(P, x, v) <=>
           \/ lo <= x /\ x < at /\ Stamped(old, x, v, s)
           \/ (x < lo \/ hi < x) /\ Gives(old, x, v)
  BY <1>5 DEF CutSoFar, Cuts
<1>7. rest \in TableRows(Sightings) /\ rest.first = at /\ rest.last = hi /\ rest.value = s
  BY <1>6 DEF Interval, TableRows
<1>8. pieces = P \cup {p \in {rest} : p.first <= p.last}
  BY <1>1
<1> HIDE DEF at, P, rest
<1>9. CASE at = hi + 1
  <2>1. pieces = P
    BY <1>7, <1>8, <1>9
  <2>2. \A x \in Int : x < at <=> x <= hi
    BY <1>9
  <2> QED BY <1>6, <2>1, <2>2 DEF pieces
<1>10. CASE at <= hi
  <2>1. pieces = P \cup {rest}
    BY <1>7, <1>8, <1>10
  <2>2. IsFiniteSet(P \cup {rest}) /\ P \cup {rest} \in SUBSET TableRows(Sightings)
    BY <1>6, <1>7, FS_AddElement
  <2>3. Disjoint({rest})
    BY <1>7, <1>10 DEF Disjoint
  <2>4. \A p \in P, q \in {rest} : p.last < q.first \/ q.last < p.first
    BY <1>6, <1>7
  <2>5. Disjoint(P \cup {rest})
    BY <1>6, <1>7, <2>3, <2>4, DisjointUnion
  <2>6. ASSUME NEW x \in Int, NEW v
        PROVE  Gives(P \cup {rest}, x, v) <=> \/ lo <= x /\ x <= hi /\ Stamped(old, x, v, s)
                                              \/ (x < lo \/ hi < x) /\ Gives(old, x, v)
    <3>1. Gives(P \cup {rest}, x, v) <=> Gives(P, x, v) \/ (at <= x /\ x <= hi /\ s = v)
      BY <1>7 DEF Gives
    <3>2. CASE at <= x /\ x <= hi
      <4>1. \A u : ~ Gives(old, x, u)
        <5> SUFFICES ASSUME NEW d \in old, x <= d.last PROVE FALSE
          BY DEF Gives
        <5>1. d.last \in Int /\ d.last < at
          BY <1>6, <1>10 DEF TableRows
        <5> QED BY <1>6, <3>2, <5>1
      <4>2. Stamped(old, x, v, s) <=> v = s
        BY <4>1 DEF Stamped, HasLater
      <4>3. lo <= x /\ ~ (x < at) /\ ~ (x < lo \/ hi < x)
        BY <1>6, <3>2
      <4> QED BY <1>6, <3>1, <3>2, <4>2, <4>3
    <3>3. CASE ~ (at <= x /\ x <= hi)
      <4>1. (lo <= x /\ x < at) <=> (lo <= x /\ x <= hi)
        BY <1>6, <1>10, <3>3
      <4> QED BY <1>6, <3>1, <3>3, <4>1
    <3> QED BY <3>2, <3>3
  <2> QED BY <2>1, <2>2, <2>5, <2>6 DEF pieces
<1> QED BY <1>6, <1>9, <1>10

(* Sightings: a stamped span in its table. **********************************)

\* Rows that share no key are apart.
LEMMA NoSharedKey ==
  ASSUME NEW V, NEW r \in TableRows(V), r.first <= r.last, NEW q \in TableRows(V), q.first <= q.last,
         \A x \in Int : ~ (r.first <= x /\ x <= r.last /\ q.first <= x /\ x <= q.last)
  PROVE  r.last < q.first \/ q.last < r.first
<1>1. r.first \in Int /\ r.last \in Int /\ q.first \in Int /\ q.last \in Int
  BY DEF TableRows
<1>2. CASE r.first <= q.first
  <2>1. ~ (r.first <= q.first /\ q.first <= r.last /\ q.first <= q.first /\ q.first <= q.last)
    BY <1>1
  <2> QED BY <1>1, <1>2, <2>1
<1>3. CASE q.first <= r.first
  <2>1. ~ (r.first <= r.first /\ r.first <= r.last /\ q.first <= r.first /\ r.first <= q.last)
    BY <1>1
  <2> QED BY <1>1, <1>3, <2>1
<1> QED BY <1>1, <1>2, <1>3

LEMMA TouchesGives ==
  ASSUME NEW table, NEW x
  PROVE  Touches(table, x) <=> \E v : Gives(table, x, v)
BY DEF Touches, Gives

\* The pieces of a span stand between its lowest and its highest key without a hole.
LEMMA NoHole ==
  ASSUME NEW old \in SUBSET TableRows(Sightings), NEW lo \in Int, NEW hi \in Int,
         \A r \in old : r.first <= hi /\ lo <= r.last,
         NEW x \in Int, NEW y \in Int, NEW z \in Int, x < y, y < z,
         (lo <= x /\ x <= hi) \/ Touches(old, x), (lo <= z /\ z <= hi) \/ Touches(old, z)
  PROVE  (lo <= y /\ y <= hi) \/ Touches(old, y)
<1>1. \A r \in old : r.first \in Int /\ r.last \in Int
  BY DEF TableRows
<1>2. CASE y < lo
  <2>1. PICK r \in old : r.first <= x /\ x <= r.last
    BY <1>2 DEF Touches
  <2>2. r.first <= y /\ y <= r.last
    BY <1>1, <1>2, <2>1
  <2> QED BY <2>2 DEF Touches
<1>3. CASE hi < y
  <2>1. PICK r \in old : r.first <= z /\ z <= r.last
    BY <1>3 DEF Touches
  <2>2. r.first <= y /\ y <= r.last
    BY <1>1, <1>3, <2>1
  <2> QED BY <2>2 DEF Touches
<1> QED BY <1>2, <1>3

\* One span: its keys have what the stamp leaves them, all other keys what they had.
LEMMA StampSpanExact ==
  ASSUME NEW table \in SightTables, NEW span \in Int \X Int, First(span) <= End(span),
         \A x \in First(span) .. End(span) : x \in Ids, NEW s \in Sightings
  PROVE  /\ StampSpan(table, span, s) \in SightTables
         /\ \A x \in Int : \A v : Gives(StampSpan(table, span, s), x, v) <=>
              \/ First(span) <= x /\ x <= End(span) /\ Stamped(table, x, v, s)
              \/ (x < First(span) \/ End(span) < x) /\ Gives(table, x, v)
<1> DEFINE lo == First(span)
           hi == End(span)
           old == Overlapping(table, lo, hi)
           pieces == Pieces(old, lo, hi, s)
           beside == Neighbours(table, pieces)
           rest == table \ (old \cup beside)
           some == pieces \cup beside
           joined == Coalesce(some)
           new == StampSpan(table, span, s)
<1>1. lo \in Int /\ hi \in Int /\ lo <= hi
  BY DEF First, End
<1>2. /\ table \in SUBSET TableRows(Sightings) /\ IsFiniteSet(table) /\ Disjoint(table) /\ Joined(table)
      /\ Within(table, Ids)
  BY DEF SightTables, Tidy
<1>3. \A r \in table : r.first \in Int /\ r.last \in Int /\ r.first <= r.last
  BY <1>2 DEF TableRows, Disjoint
<1>4. \A r \in table : 1 <= r.first
  <2> TAKE r \in table
  <2>1. Gives(table, r.first, r.value)
    BY <1>3 DEF Gives
  <2> QED BY <1>2, <1>3, <2>1, IdsAreIds DEF Within
<1>5. old = {r \in table : r.first <= hi /\ lo <= r.last}
  BY <1>1, <1>2, <1>4, OverlappingExact
<1>6. new = rest \cup joined
  BY DEF StampSpan
<1>7. beside \in SUBSET table
  BY DEF Neighbours
<1>8. \A r \in table : \/ r.last + 1 = Leftmost(pieces).first /\ r.value = Leftmost(pieces).value
                       \/ r.first = Rightmost(pieces).last + 1 /\ r.value = Rightmost(pieces).value
                       => r \in beside
  BY DEF Neighbours
<1>9. \A x \in Int : lo <= x /\ x <= hi => x \in Ids
  BY <1>1
<1> HIDE DEF lo, hi, old, pieces, beside, joined, new
<1>10. old \in SUBSET table /\ IsFiniteSet(old) /\ Disjoint(old)
  <2>1. old \in SUBSET table
    BY <1>5
  <2> QED BY <1>2, <2>1, FS_Subset DEF Disjoint
<1>11. /\ pieces \in SUBSET TableRows(Sightings) /\ IsFiniteSet(pieces) /\ Disjoint(pieces)
       /\ \A x \in Int : \A v : Gives(pieces, x, v) <=>
            \/ lo <= x /\ x <= hi /\ Stamped(old, x, v, s)
            \/ (x < lo \/ hi < x) /\ Gives(old, x, v)
  <2>1. old \in SUBSET TableRows(Sightings) /\ \A r \in old : r.first <= hi /\ lo <= r.last
    BY <1>2, <1>5, <1>10
  <2> QED BY <1>1, <1>10, <2>1, PiecesExact DEF pieces
<1>12. \A r \in pieces : r.first \in Int /\ r.last \in Int /\ r.first <= r.last
  BY <1>11 DEF TableRows, Disjoint
<1>13. \A x \in Int : Touches(pieces, x) <=> (lo <= x /\ x <= hi) \/ Touches(old, x)
  <2> SUFFICES ASSUME NEW x \in Int PROVE Touches(pieces, x) <=> (lo <= x /\ x <= hi) \/ Touches(old, x)
    OBVIOUS
  <2>1. CASE lo <= x /\ x <= hi
    <3>1. \E v : Stamped(old, x, v, s)
      <4>1. CASE HasLater(old, x, s)
        BY <4>1 DEF Stamped, HasLater
      <4>2. CASE ~ HasLater(old, x, s)
        BY <4>2 DEF Stamped
      <4> QED BY <4>1, <4>2
    <3>2. PICK v : Stamped(old, x, v, s)
      BY <3>1
    <3>3. Gives(pieces, x, v)
      BY <1>11, <2>1, <3>2
    <3> QED BY <2>1, <3>3, TouchesGives
  <2>2. CASE ~ (lo <= x /\ x <= hi)
    <3>1. \A v : Gives(pieces, x, v) <=> Gives(old, x, v)
      BY <1>1, <1>11, <2>2
    <3> QED BY <2>2, <3>1, TouchesGives
  <2> QED BY <2>1, <2>2
\* No key is in a piece and in a row that stays, neighbour or not.
<1>14. ASSUME NEW r \in table \ old, NEW p \in pieces PROVE r.last < p.first \/ p.last < r.first
  <2>1. \A x \in Int : ~ (r.first <= x /\ x <= r.last /\ p.first <= x /\ x <= p.last)
    <3> SUFFICES ASSUME NEW x \in Int, r.first <= x, x <= r.last, p.first <= x, x <= p.last PROVE FALSE
      OBVIOUS
    <3>1. (lo <= x /\ x <= hi) \/ Touches(old, x)
      BY <1>13 DEF Touches
    <3>2. ~ (lo <= x /\ x <= hi)
      BY <1>1, <1>3, <1>5
    <3>3. PICK q \in old : q.first <= x /\ x <= q.last
      BY <3>1, <3>2 DEF Touches
    <3>4. q = r
      BY <1>2, <1>10, <3>3, OneRow
    <3> QED BY <3>4
  <2>2. r \in TableRows(Sightings) /\ p \in TableRows(Sightings) /\ r.first <= r.last /\ p.first <= p.last
    BY <1>2, <1>3, <1>11, <1>12
  <2> QED BY <2>1, <2>2, NoSharedKey
<1>15. \A p \in pieces : p.first \in Ids /\ p.last \in Ids
  <2> SUFFICES ASSUME NEW p \in pieces, NEW x \in Int, p.first <= x, x <= p.last PROVE x \in Ids
    BY <1>12
  <2>1. (lo <= x /\ x <= hi) \/ Touches(old, x)
    BY <1>13 DEF Touches
  <2>2. CASE Touches(old, x)
    <3>1. PICK v : Gives(table, x, v)
      BY <1>10, <2>2 DEF Touches, Gives
    <3> QED BY <1>2, <3>1 DEF Within
  <2> QED BY <1>9, <2>1, <2>2
<1>16. PICK one \in pieces : TRUE
  BY <1>1, <1>13 DEF Touches
<1>17. Leftmost(pieces) \in pieces /\ \A q \in pieces : Leftmost(pieces).first <= q.first
  <2> DEFINE T == {n \in Nat : \E p \in pieces : p.first = n}
  <2>0. \A q \in pieces : q.first \in Nat
    <3>1. \A x \in Ids : x \in Int /\ 1 <= x
      BY IdsAreIds
    <3>2. \A x \in Ids : x \in Nat
      BY <3>1
    <3> QED BY <1>15, <3>2
  <2>1. T \in SUBSET Nat /\ one.first \in T
    BY <1>16, <2>0
  <2>2. PICK n \in T : \A m \in T : n <= m
    <3> HIDE DEF T
    <3> QED BY <2>1, LeastNumber
  <2>3. PICK p \in pieces : p.first = n
    OBVIOUS
  <2>4. \A q \in pieces : q.first \in T
    BY <2>0
  <2>5. \A q \in pieces : p.first <= q.first
    BY <2>2, <2>3, <2>4
  <2> QED BY <2>5 DEF Leftmost
<1>18. Rightmost(pieces) \in pieces /\ \A q \in pieces : q.last <= Rightmost(pieces).last
  <2> DEFINE T == {n \in Nat : \E p \in pieces : MaxId - p.last = n}
  <2>0. MaxId \in Nat
    BY FreshnessAssumption
  <2>1. \A q \in pieces : q.last \in Int /\ MaxId - q.last \in Nat
    BY <1>15, <2>0 DEF Ids
  <2>2. T \in SUBSET Nat /\ MaxId - one.last \in T
    BY <2>1
  <2>3. PICK n \in T : \A m \in T : n <= m
    <3> HIDE DEF T
    <3> QED BY <2>2, LeastNumber
  <2>4. PICK p \in pieces : MaxId - p.last = n
    OBVIOUS
  <2>5. \A q \in pieces : MaxId - q.last \in T
    BY <2>1
  <2>6. ASSUME NEW q \in pieces PROVE q.last <= p.last
    <3>1. n <= MaxId - q.last
      BY <2>3, <2>5
    <3> QED BY <2>0, <2>1, <2>4, <3>1
  <2> QED BY <2>6 DEF Rightmost
<1>19. \A r \in beside : r \in table /\ r \notin old
  <2> SUFFICES ASSUME NEW r \in beside, r \in old PROVE FALSE
    BY <1>7
  <2>1. r.first \in Int /\ r.last \in Int /\ r.first <= r.last
    BY <1>3, <1>7
  <2>2. Touches(pieces, r.first) /\ Touches(pieces, r.last)
    BY <1>13, <2>1 DEF Touches
  <2>3. PICK p \in pieces : p.first <= r.last /\ r.last <= p.last
    BY <2>2 DEF Touches
  <2>4. PICK q \in pieces : q.first <= r.first /\ r.first <= q.last
    BY <2>2 DEF Touches
  <2>5. r.last + 1 # Leftmost(pieces).first
    BY <1>12, <1>17, <2>1, <2>3
  <2>6. r.first # Rightmost(pieces).last + 1
    BY <1>12, <1>18, <2>1, <2>4
  <2> QED BY <2>5, <2>6 DEF beside, Neighbours
<1>20. some \in SUBSET TableRows(Sightings) /\ IsFiniteSet(some) /\ Disjoint(some)
  <2>1. beside \in SUBSET TableRows(Sightings) /\ IsFiniteSet(beside) /\ Disjoint(beside)
    BY <1>2, <1>7, FS_Subset DEF Disjoint
  <2>2. \A p \in pieces, r \in beside : p.last < r.first \/ r.last < p.first
    BY <1>14, <1>19
  <2>3. Disjoint(pieces \cup beside)
    BY <1>11, <2>1, <2>2, DisjointUnion
  <2> QED BY <1>11, <2>1, <2>3, FS_Union
<1>21. \A r \in rest : r \in table /\ r \notin old /\ r \notin beside
  OBVIOUS
<1>22. \A r \in table : r \in rest \/ r \in old \/ r \in beside
  OBVIOUS
<1>23. \A p : p \in some <=> p \in pieces \/ p \in beside
  OBVIOUS
<1> HIDE DEF rest, some
<1>24. /\ joined \in SUBSET TableRows(Sightings) /\ IsFiniteSet(joined)
       /\ Disjoint(joined) /\ Joined(joined)
       /\ \A x \in Int : \A v : Gives(joined, x, v) <=> Gives(some, x, v)
  BY <1>20, CoalesceExact DEF joined
<1>25. /\ rest \in SUBSET TableRows(Sightings) /\ IsFiniteSet(rest) /\ Disjoint(rest) /\ Joined(rest)
  <2>1. rest \in SUBSET table
    BY <1>21
  <2> QED BY <1>2, <2>1, FS_Subset DEF Disjoint, Joined
<1>26. \A r \in rest, p \in some : r.last < p.first \/ p.last < r.first
  <2> SUFFICES ASSUME NEW r \in rest, NEW p \in some PROVE r.last < p.first \/ p.last < r.first
    OBVIOUS
  <2>1. CASE p \in pieces
    BY <1>14, <1>21, <2>1
  <2>2. CASE p \in beside
    <3>1. r \in table /\ p \in table /\ r # p
      BY <1>7, <1>21, <2>2
    <3> QED BY <1>2, <3>1 DEF Disjoint
  <2> QED BY <1>23, <2>1, <2>2
<1>27. \A c \in joined : c.first \in Int /\ c.last \in Int /\ c.first <= c.last
  BY <1>24 DEF TableRows, Disjoint
<1>28. \A p \in some : p.first \in Int /\ p.last \in Int /\ p.first <= p.last
  BY <1>20 DEF TableRows, Disjoint
<1>29. \A r \in rest : r.first \in Int /\ r.last \in Int /\ r.first <= r.last
  BY <1>3, <1>21
<1>30. \A c \in joined, x \in Int : c.first <= x /\ x <= c.last =>
         \E p \in some : p.first <= x /\ x <= p.last /\ p.value = c.value
  <2> SUFFICES ASSUME NEW c \in joined, NEW x \in Int, c.first <= x, x <= c.last
               PROVE  \E p \in some : p.first <= x /\ x <= p.last /\ p.value = c.value
    OBVIOUS
  <2>1. Gives(joined, x, c.value)
    BY DEF Gives
  <2>2. Gives(some, x, c.value)
    BY <1>24, <2>1
  <2> QED BY <2>2 DEF Gives
<1>31. \A r \in rest, c \in joined : r.last < c.first \/ c.last < r.first
  <2> SUFFICES ASSUME NEW r \in rest, NEW c \in joined PROVE r.last < c.first \/ c.last < r.first
    OBVIOUS
  <2>1. \A x \in Int : ~ (r.first <= x /\ x <= r.last /\ c.first <= x /\ x <= c.last)
    <3> SUFFICES ASSUME NEW x \in Int, r.first <= x, x <= r.last, c.first <= x, x <= c.last PROVE FALSE
      OBVIOUS
    <3>1. PICK p \in some : p.first <= x /\ x <= p.last
      BY <1>30
    <3>2. r.last < p.first \/ p.last < r.first
      BY <1>26
    <3> QED BY <1>28, <1>29, <3>1, <3>2
  <2>2. r \in TableRows(Sightings) /\ c \in TableRows(Sightings)
    BY <1>24, <1>25
  <2> QED BY <1>27, <1>29, <2>1, <2>2, NoSharedKey
<1>32. Disjoint(new)
  <2>1. Disjoint(rest \cup joined)
    BY <1>24, <1>25, <1>31, DisjointUnion
  <2> QED BY <1>6, <2>1
\* A row that stays and touches a piece touches the first or the last, and is of another value.
<1>33. ASSUME NEW r \in rest, NEW p \in pieces, r.last + 1 = p.first, r.value = p.value PROVE FALSE
  <2>0. r.last \in Int /\ p.first \in Int /\ r.first <= r.last /\ r.first \in Int
    BY <1>12, <1>29
  <2>1. \A q \in pieces : ~ (q.first <= r.last /\ r.last <= q.last)
    <3> SUFFICES ASSUME NEW q \in pieces, q.first <= r.last, r.last <= q.last PROVE FALSE
      OBVIOUS
    <3>1. r.last < q.first \/ q.last < r.first
      BY <1>14, <1>21
    <3> QED BY <1>12, <2>0, <3>1
  <2>2. ASSUME NEW q \in pieces, q.first < p.first PROVE FALSE
    <3> DEFINE x == q.first
               y == r.last
               z == p.first
    <3>1. x \in Int /\ y \in Int /\ z \in Int /\ x <= y /\ y < z
      BY <1>12, <1>33, <2>0, <2>2
    <3>2. x # y
      BY <1>12, <2>1
    <3>3. Touches(pieces, x) /\ Touches(pieces, z) /\ ~ Touches(pieces, y)
      BY <1>12, <2>1 DEF Touches
    <3> HIDE DEF x, y, z
    <3>4. x < y
      BY <3>1, <3>2
    <3>5. /\ (lo <= x /\ x <= hi) \/ Touches(old, x)
          /\ (lo <= z /\ z <= hi) \/ Touches(old, z)
          /\ ~ ((lo <= y /\ y <= hi) \/ Touches(old, y))
      BY <1>13, <3>1, <3>3
    <3>6. old \in SUBSET TableRows(Sightings) /\ \A d \in old : d.first <= hi /\ lo <= d.last
      BY <1>2, <1>5
    <3> QED BY <1>1, <3>1, <3>4, <3>5, <3>6, NoHole
  <2>3. p.first = Leftmost(pieces).first
    BY <1>12, <1>17, <2>2
  <2>4. p = Leftmost(pieces)
    <3> DEFINE l == Leftmost(pieces)
    <3>1. l \in pieces /\ l.first = p.first
      BY <1>17, <2>3
    <3> HIDE DEF l
    <3>2. l.first <= p.first /\ p.first <= l.last /\ p.first <= p.first /\ p.first <= p.last /\ p.first \in Int
      BY <1>12, <3>1
    <3>3. l = p
      BY <1>11, <3>1, <3>2, OneRow
    <3> QED BY <3>3 DEF l
  <2>5. r \in beside
    BY <1>8, <1>21, <1>33, <2>4
  <2> QED BY <1>21, <2>5
<1>34. ASSUME NEW r \in rest, NEW p \in pieces, p.last + 1 = r.first, r.value = p.value PROVE FALSE
  <2>0. r.first \in Int /\ p.last \in Int /\ r.first <= r.last /\ r.last \in Int
    BY <1>12, <1>29
  <2>1. \A q \in pieces : ~ (q.first <= r.first /\ r.first <= q.last)
    <3> SUFFICES ASSUME NEW q \in pieces, q.first <= r.first, r.first <= q.last PROVE FALSE
      OBVIOUS
    <3>1. r.last < q.first \/ q.last < r.first
      BY <1>14, <1>21
    <3> QED BY <1>12, <2>0, <3>1
  <2>2. ASSUME NEW q \in pieces, p.last < q.last PROVE FALSE
    <3> DEFINE x == p.last
               y == r.first
               z == q.last
    <3>1. x \in Int /\ y \in Int /\ z \in Int /\ x < y /\ y <= z
      BY <1>12, <1>34, <2>0, <2>2
    <3>2. y # z
      BY <1>12, <2>1
    <3>3. Touches(pieces, x) /\ Touches(pieces, z) /\ ~ Touches(pieces, y)
      BY <1>12, <2>1 DEF Touches
    <3> HIDE DEF x, y, z
    <3>4. y < z
      BY <3>1, <3>2
    <3>5. /\ (lo <= x /\ x <= hi) \/ Touches(old, x)
          /\ (lo <= z /\ z <= hi) \/ Touches(old, z)
          /\ ~ ((lo <= y /\ y <= hi) \/ Touches(old, y))
      BY <1>13, <3>1, <3>3
    <3>6. old \in SUBSET TableRows(Sightings) /\ \A d \in old : d.first <= hi /\ lo <= d.last
      BY <1>2, <1>5
    <3> QED BY <1>1, <3>1, <3>4, <3>5, <3>6, NoHole
  <2>3. p.last = Rightmost(pieces).last
    BY <1>12, <1>18, <2>2
  <2>4. p = Rightmost(pieces)
    <3> DEFINE l == Rightmost(pieces)
    <3>1. l \in pieces /\ l.last = p.last
      BY <1>18, <2>3
    <3> HIDE DEF l
    <3>2. l.first <= p.last /\ p.last <= l.last /\ p.first <= p.last /\ p.last <= p.last /\ p.last \in Int
      BY <1>12, <3>1
    <3>3. l = p
      BY <1>11, <3>1, <3>2, OneRow
    <3> QED BY <3>3 DEF l
  <2>5. r \in beside
    BY <1>8, <1>21, <1>34, <2>4
  <2> QED BY <1>21, <2>5
<1>35. ASSUME NEW r \in rest, NEW p \in some, r.value = p.value PROVE r.last + 1 # p.first /\ p.last + 1 # r.first
  <2>1. CASE p \in pieces
    BY <1>33, <1>34, <1>35, <2>1
  <2>2. CASE p \in beside
    <3>1. r \in table /\ p \in table
      BY <1>7, <1>21, <2>2
    <3> QED BY <1>2, <1>35, <3>1 DEF Joined
  <2> QED BY <1>23, <2>1, <2>2
<1>36. ASSUME NEW r \in rest, NEW c \in joined, r.value = c.value PROVE r.last + 1 # c.first /\ c.last + 1 # r.first
  <2>0. /\ r.first \in Int /\ r.last \in Int /\ r.first <= r.last
        /\ c.first \in Int /\ c.last \in Int /\ c.first <= c.last
    BY <1>27, <1>29
  <2>1. ASSUME r.last + 1 = c.first PROVE FALSE
    <3>1. PICK p \in some : p.first <= c.first /\ c.first <= p.last /\ p.value = c.value
      BY <1>30, <2>0
    <3>2. r.last < p.first \/ p.last < r.first
      BY <1>26
    <3>3. p.first = r.last + 1
      BY <1>28, <2>0, <2>1, <3>1, <3>2
    <3> QED BY <1>35, <1>36, <3>1, <3>3
  <2>2. ASSUME c.last + 1 = r.first PROVE FALSE
    <3>1. PICK p \in some : p.first <= c.last /\ c.last <= p.last /\ p.value = c.value
      BY <1>30, <2>0
    <3>2. r.last < p.first \/ p.last < r.first
      BY <1>26
    <3>3. p.last + 1 = r.first
      BY <1>28, <2>0, <2>2, <3>1, <3>2
    <3> QED BY <1>35, <1>36, <3>1, <3>3
  <2> QED BY <2>1, <2>2
<1>37. Joined(new)
  <2> SUFFICES ASSUME NEW p \in new, NEW q \in new, p.last + 1 = q.first, p.value = q.value PROVE FALSE
    BY DEF Joined
  <2>1. CASE p \in rest /\ q \in rest
    BY <1>25, <2>1 DEF Joined
  <2>2. CASE p \in joined /\ q \in joined
    BY <1>24, <2>2 DEF Joined
  <2>3. CASE p \in rest /\ q \in joined
    BY <1>36, <2>3
  <2>4. CASE p \in joined /\ q \in rest
    BY <1>36, <2>4
  <2> QED BY <1>6, <2>1, <2>2, <2>3, <2>4
<1>38. ASSUME NEW x \in Int, NEW v
       PROVE  Gives(new, x, v) <=> \/ lo <= x /\ x <= hi /\ Stamped(table, x, v, s)
                                   \/ (x < lo \/ hi < x) /\ Gives(table, x, v)
  <2>1. Gives(new, x, v) <=> Gives(rest, x, v) \/ Gives(joined, x, v)
    BY <1>6 DEF Gives
  <2>2. Gives(some, x, v) <=> Gives(pieces, x, v) \/ Gives(beside, x, v)
    BY <1>23 DEF Gives
  <2>3. \A u : Gives(table, x, u) <=> Gives(rest, x, u) \/ Gives(old, x, u) \/ Gives(beside, x, u)
    BY <1>7, <1>10, <1>21, <1>22 DEF Gives
  <2>4. Gives(joined, x, v) <=> Gives(some, x, v)
    BY <1>24
  <2>5. CASE lo <= x /\ x <= hi
    <3>1. \A u : ~ Gives(rest, x, u) /\ ~ Gives(beside, x, u)
      <4>1. ASSUME NEW r \in table, r \notin old, r.first <= x, x <= r.last PROVE FALSE
        BY <1>1, <1>3, <1>5, <2>5, <4>1
      <4> QED BY <1>19, <1>21, <4>1 DEF Gives
    <3>2. \A u : Gives(table, x, u) <=> Gives(old, x, u)
      BY <2>3, <3>1
    <3>3. Stamped(table, x, v, s) <=> Stamped(old, x, v, s)
      BY <3>2, StampedSame
    <3>4. Gives(pieces, x, v) <=> Stamped(old, x, v, s)
      BY <1>1, <1>11, <2>5
    <3>5. ~ (x < lo \/ hi < x)
      BY <1>1, <2>5
    <3> QED BY <2>1, <2>2, <2>4, <2>5, <3>1, <3>3, <3>4, <3>5
  <2>6. CASE ~ (lo <= x /\ x <= hi)
    <3>1. x < lo \/ hi < x
      BY <1>1, <2>6
    <3>2. Gives(pieces, x, v) <=> Gives(old, x, v)
      BY <1>11, <2>6, <3>1
    <3> QED BY <2>1, <2>2, <2>3, <2>4, <2>6, <3>1, <3>2
  <2> QED BY <2>5, <2>6
<1>39. Within(new, Ids)
  <2> SUFFICES ASSUME NEW x \in Int, NEW v, Gives(new, x, v) PROVE x \in Ids
    BY DEF Within
  <2>1. (lo <= x /\ x <= hi) \/ Gives(table, x, v)
    BY <1>38
  <2> QED BY <1>2, <1>9, <2>1 DEF Within
<1>40. new \in SUBSET TableRows(Sightings) /\ IsFiniteSet(new)
  BY <1>6, <1>24, <1>25, FS_Union
<1>41. new \in SightTables
  BY <1>32, <1>37, <1>39, <1>40 DEF SightTables, Tidy
<1> QED BY <1>38, <1>41 DEF new, lo, hi

(* Sightings: every step. ***************************************************)

StampedBy(table, S, s) ==
  LET Body(acc, span) == StampSpan(acc, span, s)
  IN InTurn(Body, table, S, BySpan(S))

\* The turns over the spans of a stamp.
LEMMA StampLoop ==
  ASSUME NEW table \in SightTables, NEW S \in SUBSET (Int \X Int), IsFiniteSet(S), Canonical(S),
         Points(S) \in SUBSET Ids, NEW s \in Sightings, NEW Good, <<table, {}>> \in Good,
         \A a \in SightTables, x \in S :
           <<a, Before(S, BySpan(S), x)>> \in Good => <<StampSpan(a, x, s), Before(S, BySpan(S), x) \cup {x}>> \in Good
  PROVE  <<StampedBy(table, S, s), S>> \in Good
<1> DEFINE order == BySpan(S)
           N == Cardinality(S)
           A == SightTables
           body == [p \in A \X S |-> StampSpan(p[1], p[2], s)]
           Is(t) == t = [n \in 0 .. N |-> IF n = 0 THEN table ELSE StampSpan(t[n - 1], InOrder(S, order)[n], s)]
           run == CHOOSE t : Is(t)
<1>1. Orders(order, S)
  BY SpansInOrder
<1>2. N \in Nat /\ \A n \in 1 .. N : InOrder(S, order)[n] \in S
  BY <1>1, TurnOfEach
<1>3. ASSUME NEW a \in A, NEW x \in S PROVE StampSpan(a, x, s) \in A /\ body[<<a, x>>] = StampSpan(a, x, s)
  <2>1. First(x) <= End(x) /\ \A i \in First(x) .. End(x) : i \in Ids
    BY DEF Canonical, Points
  <2>2. StampSpan(a, x, s) \in A
    BY <2>1, StampSpanExact
  <2> QED BY <2>2
<1>4. IsLoop(S, order, A, table, body)
  <2>1. table \in A
    OBVIOUS
  <2>2. body \in [A \X S -> A]
    BY <1>3
  <2> QED BY <1>1, <2>1, <2>2 DEF IsLoop
<1>5. PassedOn(Good, S, order, A, table, body)
  <2>1. \A a \in A, x \in S :
           <<a, Before(S, order, x)>> \in Good => <<StampSpan(a, x, s), Before(S, order, x) \cup {x}>> \in Good
    OBVIOUS
  <2> HIDE DEF body, order, A
  <2> QED BY <1>3, <2>1 DEF PassedOn
<1>6. StampedBy(table, S, s) = run[N]
  BY DEF StampedBy, InTurn
<1> HIDE DEF body, order, N, A
<1>7. \E t : Is(t)
  <2>1. PICK t \in [0 .. N -> A] : IsRun(t, S, order, table, body)
    BY <1>4, LoopRuns DEF N
  <2>2. ASSUME NEW n \in 0 .. N
        PROVE  t[n] = (IF n = 0 THEN table ELSE StampSpan(t[n - 1], InOrder(S, order)[n], s))
    <3>1. CASE n = 0
      BY <2>1, <3>1 DEF IsRun
    <3>2. CASE n # 0
      <4>1. n \in 1 .. N /\ n - 1 \in 0 .. N
        BY <1>2, <3>2
      <4> QED BY <1>2, <1>3, <2>1, <3>2, <4>1 DEF IsRun, N
    <3> QED BY <3>1, <3>2
  <2>3. t = [n \in 0 .. N |-> t[n]]
    OBVIOUS
  <2> QED BY <2>2, <2>3
<1>8. Is(run)
  BY <1>7
<1> HIDE DEF run
<1>9. Follows(run, S, order, A, table, body)
  <2>1. \A n \in 0 .. N : run[n] = IF n = 0 THEN table ELSE StampSpan(run[n - 1], InOrder(S, order)[n], s)
    BY <1>8
  <2> HIDE DEF Is
  <2>2. run[0] = table
    BY <1>2, <2>1
  <2>3. ASSUME NEW n \in 1 .. N, run[n - 1] \in A PROVE run[n] = body[<<run[n - 1], InOrder(S, order)[n]>>]
    <3>1. run[n] = StampSpan(run[n - 1], InOrder(S, order)[n], s)
      BY <1>2, <2>1
    <3> QED BY <1>2, <1>3, <2>3, <3>1
  <2> QED BY <2>2, <2>3 DEF Follows, N
<1>10. <<run[N], S>> \in Good
  BY <1>4, <1>5, <1>9, LoopLeads DEF N
<1> QED BY <1>6, <1>10

LEMMA StampedByExact ==
  ASSUME NEW table \in SightTables, NEW S \in SUBSET (Int \X Int), IsFiniteSet(S), Canonical(S),
         Points(S) \in SUBSET Ids, NEW s \in Sightings
  PROVE  /\ StampedBy(table, S, s) \in SightTables
         /\ \A x \in Int : \A v : Gives(StampedBy(table, S, s), x, v) <=>
              \/ x \in Points(S) /\ Stamped(table, x, v, s)
              \/ x \notin Points(S) /\ Gives(table, x, v)
<1> DEFINE Kept(a, D) == \A x \in Int : \A v : Gives(a, x, v) <=> \/ x \in Points(D) /\ Stamped(table, x, v, s)
                                                                  \/ x \notin Points(D) /\ Gives(table, x, v)
           Good == {p \in SightTables \X SUBSET S : Kept(p[1], p[2])}
<1>1. <<table, {}>> \in Good
  <2>1. \A x : x \notin Points({})
    BY DEF Points
  <2>2. Kept(table, {})
    BY <2>1
  <2> HIDE DEF Kept
  <2> QED BY <2>2
<1>2. ASSUME NEW a \in SightTables, NEW span \in S, <<a, Before(S, BySpan(S), span)>> \in Good
      PROVE  <<StampSpan(a, span, s), Before(S, BySpan(S), span) \cup {span}>> \in Good
  <2> DEFINE D == Before(S, BySpan(S), span)
             E == D \cup {span}
             new == StampSpan(a, span, s)
  <2>0. First(span) \in Int /\ End(span) \in Int /\ First(span) <= End(span)
    BY DEF Canonical, First, End
  <2>1. Kept(a, D) /\ D \in SUBSET S
    BY <1>2
  <2>2. span \notin D
    BY <2>0 DEF Before, BySpan
  <2>3. \A x \in First(span) .. End(span) : x \in Ids
    BY DEF Points
  <2> HIDE DEF D
  <2>4. /\ new \in SightTables
        /\ \A x \in Int : \A v : Gives(new, x, v) <=>
             \/ First(span) <= x /\ x <= End(span) /\ Stamped(a, x, v, s)
             \/ (x < First(span) \/ End(span) < x) /\ Gives(a, x, v)
    BY <2>0, <2>3, StampSpanExact
  <2> HIDE DEF new
  <2>5. \A x \in Int : x \in Points(E) <=> x \in Points(D) \/ (First(span) <= x /\ x <= End(span))
    <3>1. \A x : x \in Points(E) <=> x \in Points(D) \/ x \in First(span) .. End(span)
      BY DEF Points
    <3> HIDE DEF E
    <3> QED BY <2>0, <3>1
  <2>6. \A x \in Int : First(span) <= x /\ x <= End(span) => x \notin Points(D)
    <3> SUFFICES ASSUME NEW x \in Int, First(span) <= x, x <= End(span), NEW d \in D, x \in First(d) .. End(d)
                 PROVE  FALSE
      BY DEF Points
    <3>1. d \in S /\ d # span /\ d \in Int \X Int
      BY <2>1, <2>2
    <3>2. End(span) + 1 < First(d) \/ End(d) + 1 < First(span)
      BY <3>1, Apart
    <3>3. First(d) \in Int /\ End(d) \in Int
      BY <3>1 DEF First, End
    <3> QED BY <2>0, <3>2, <3>3
  <2> HIDE DEF E
  <2>7. ASSUME NEW x \in Int, NEW v
        PROVE  Gives(new, x, v) <=> \/ x \in Points(E) /\ Stamped(table, x, v, s)
                                    \/ x \notin Points(E) /\ Gives(table, x, v)
    <3>1. CASE First(span) <= x /\ x <= End(span)
      <4>1. x \in Points(E) /\ x \notin Points(D) /\ ~ (x < First(span) \/ End(span) < x)
        BY <2>0, <2>5, <2>6, <3>1
      <4>2. \A u : Gives(a, x, u) <=> Gives(table, x, u)
        BY <2>1, <4>1
      <4>3. Stamped(a, x, v, s) <=> Stamped(table, x, v, s)
        BY <4>2, StampedSame
      <4> QED BY <2>4, <3>1, <4>1, <4>3
    <3>2. CASE ~ (First(span) <= x /\ x <= End(span))
      <4>1. (x \in Points(E) <=> x \in Points(D)) /\ (x < First(span) \/ End(span) < x)
        BY <2>0, <2>5, <3>2
      <4>2. Gives(new, x, v) <=> Gives(a, x, v)
        BY <2>4, <3>2, <4>1
      <4> QED BY <2>1, <4>1, <4>2
    <3> QED BY <3>1, <3>2
  <2>8. Kept(new, E)
    BY <2>7
  <2> HIDE DEF Kept
  <2>9. E \in SUBSET S
    BY <2>1 DEF E
  <2>10. <<new, E>> \in Good
    BY <2>4, <2>8, <2>9
  <2> QED BY <2>10 DEF new, E, D
<1> HIDE DEF Good
<1>3. <<StampedBy(table, S, s), S>> \in Good
  BY <1>1, <1>2, StampLoop
<1> QED BY <1>3 DEF Good

SightInv ==
  /\ latest \in [Ids -> Sightings \cup {Never}]
  /\ ranges \in SightTables
  /\ \A i \in Ids : \A v : Gives(ranges, i, v) <=> latest[i] # Never /\ v = latest[i]

LEMMA SightStart == RangesInit => SightInv
<1> SUFFICES ASSUME RangesInit PROVE SightInv
  OBVIOUS
<1>1. ranges = {} /\ latest = [i \in Ids |-> Never]
  BY DEF RangesInit, FreshInit, Unsighted
<1>2. \A x, v : ~ Gives({}, x, v)
  BY DEF Gives
<1>3. {} \in SightTables
  BY <1>2, FS_EmptySet DEF SightTables, Tidy, Within, Disjoint, Joined
<1>4. latest \in [Ids -> Sightings \cup {Never}] /\ \A i \in Ids : latest[i] = Never
  BY <1>1
<1> QED BY <1>1, <1>2, <1>3, <1>4 DEF SightInv

LEMMA ForgetKeeps ==
  ASSUME SightInv, NEW ids \in SUBSET Ids, Forget(ids), Unsight(ids)
  PROVE  SightInv'
<1>1. ranges' = ForgottenBy(ranges, ids)
  BY DEF Forget, ForgottenBy
<1>2. latest' = [i \in Ids |-> IF i \in ids THEN Never ELSE latest[i]]
  BY DEF Unsight
<1>3. /\ latest \in [Ids -> Sightings \cup {Never}] /\ ranges \in SightTables
      /\ \A i \in Ids : \A v : Gives(ranges, i, v) <=> latest[i] # Never /\ v = latest[i]
  BY DEF SightInv
<1>4. /\ ranges' \in SightTables
      /\ \A x \in Int : \A v : Gives(ranges', x, v) <=> x \notin ids /\ Gives(ranges, x, v)
  BY <1>1, <1>3, ForgottenExact
<1>5. latest' \in [Ids -> Sightings \cup {Never}]
  BY <1>2, <1>3
<1>6. \A i \in Ids : \A v : Gives(ranges', i, v) <=> latest'[i] # Never /\ v = latest'[i]
  <2> SUFFICES ASSUME NEW i \in Ids, NEW v
               PROVE  Gives(ranges', i, v) <=> latest'[i] # Never /\ v = latest'[i]
    OBVIOUS
  <2>1. i \in Int
    BY IdsAreIds
  <2>2. latest'[i] = IF i \in ids THEN Never ELSE latest[i]
    BY <1>2
  <2>3. Gives(ranges', i, v) <=> i \notin ids /\ latest[i] # Never /\ v = latest[i]
    BY <1>3, <1>4, <2>1
  <2> QED BY <2>2, <2>3
<1> QED BY <1>4, <1>5, <1>6 DEF SightInv

LEMMA StampKeeps ==
  ASSUME SightInv, NEW ids \in SUBSET Ids, NEW s \in Sightings, Stamp(ids, s), Sight(ids, s)
  PROVE  SightInv'
<1> DEFINE S == IdRanges(ids)
<1>1. ranges' = StampedBy(ranges, S, s)
  BY DEF Stamp, StampedBy
<1>2. latest' = [i \in Ids |-> IF i \in ids /\ (latest[i] = Never \/ latest[i].at <= s.at) THEN s ELSE latest[i]]
  BY DEF Sight
<1>3. /\ latest \in [Ids -> Sightings \cup {Never}] /\ ranges \in SightTables
      /\ \A i \in Ids : \A v : Gives(ranges, i, v) <=> latest[i] # Never /\ v = latest[i]
  BY DEF SightInv
<1>4. S \in SUBSET (Int \X Int) /\ IsFiniteSet(S) /\ Canonical(S) /\ Points(S) = ids
  <2>1. ids \in SUBSET Int /\ IsFiniteSet(ids) /\ \A x \in ids : 1 <= x
    BY IdsAreIds, FS_Subset
  <2> QED BY <2>1, IdRangesExact
<1> HIDE DEF S
<1>5. /\ ranges' \in SightTables
      /\ \A x \in Int : \A v : Gives(ranges', x, v) <=> \/ x \in ids /\ Stamped(ranges, x, v, s)
                                                        \/ x \notin ids /\ Gives(ranges, x, v)
  BY <1>1, <1>3, <1>4, StampedByExact
<1>6. latest' \in [Ids -> Sightings \cup {Never}]
  BY <1>2, <1>3
<1>7. Never \notin Sightings /\ \A u \in Sightings : u.at \in Int
  <2>1. Never \notin Sightings
    BY FreshnessAssumption, Zenon DEF Sightings
  <2>2. \A u \in Sightings : u.at \in Times
    BY DEF Sightings
  <2>3. \A t \in Times : t \in Int
    BY FreshnessAssumption
  <2> QED BY <2>1, <2>2, <2>3
<1>8. ASSUME NEW i \in Ids, NEW v
      PROVE  Gives(ranges', i, v) <=> latest'[i] # Never /\ v = latest'[i]
  <2>1. i \in Int
    BY IdsAreIds
  <2>2. latest'[i] = IF i \in ids /\ (latest[i] = Never \/ latest[i].at <= s.at) THEN s ELSE latest[i]
    BY <1>2
  <2>3. \A u : Gives(ranges, i, u) <=> latest[i] # Never /\ u = latest[i]
    BY <1>3
  <2>4. CASE i \notin ids
    <3>1. Gives(ranges', i, v) <=> Gives(ranges, i, v)
      BY <1>5, <2>1, <2>4
    <3> QED BY <2>2, <2>3, <2>4, <3>1
  <2>5. CASE i \in ids /\ latest[i] = Never
    <3>1. Gives(ranges', i, v) <=> Stamped(ranges, i, v, s)
      BY <1>5, <2>1, <2>5
    <3>2. \A u : ~ Gives(ranges, i, u)
      BY <2>3, <2>5
    <3>3. Stamped(ranges, i, v, s) <=> v = s
      BY <3>2 DEF Stamped, HasLater
    <3> QED BY <1>7, <2>2, <2>5, <3>1, <3>3
  <2>6. CASE i \in ids /\ latest[i] # Never
    <3>1. Gives(ranges', i, v) <=> Stamped(ranges, i, v, s)
      BY <1>5, <2>1, <2>6
    <3> DEFINE old == latest[i]
    <3>2. \A u : Gives(ranges, i, u) <=> u = old
      BY <2>3, <2>6
    <3>3. old \in Sightings
      BY <1>3, <2>6
    <3>4. latest'[i] = IF old.at <= s.at THEN s ELSE old
      BY <2>2, <2>6
    <3> HIDE DEF old
    <3>5. Stamped(ranges, i, v, s) <=> v = IF Later(old, s) THEN old ELSE s
      BY <3>2 DEF Stamped, HasLater
    <3>6. Later(old, s) <=> ~ (old.at <= s.at)
      BY <1>7, <3>3 DEF Later
    <3> QED BY <1>7, <3>1, <3>3, <3>4, <3>5, <3>6
  <2> QED BY <2>4, <2>5, <2>6
<1> QED BY <1>5, <1>6, <1>8 DEF SightInv

LEMMA SightKeeps ==
  ASSUME SightInv, [RangesNext]_<<subject, ranges, latest, importVars, spans, covered>>
  PROVE  SightInv'
<1>1. CASE UNCHANGED <<ranges, latest>>
  BY <1>1 DEF SightInv
<1>2. CASE SightStep
  <2>1. PICK ids \in SUBSET Ids :
          \/ Forget(ids) /\ Unsight(ids)
          \/ \E s \in Sightings : Stamp(ids, s) /\ Sight(ids, s)
    BY <1>2 DEF SightStep, FreshNext
  <2> QED BY <2>1, ForgetKeeps, StampKeeps
<1> QED BY <1>1, <1>2 DEF RangesNext, TranslateStep, CoverStep

LEMMA SightMeans == SightInv => SightedPointwise
<1> SUFFICES ASSUME SightInv, NEW i \in Ids PROVE SightingOf(ranges, i) = latest[i]
  <2>1. ASSUME SightInv PROVE WellKept(ranges)
    <3>1. ranges \in SUBSET TableRows(Sightings) /\ Disjoint(ranges) /\ Joined(ranges)
      BY <2>1 DEF SightInv, SightTables, Tidy
    <3> QED BY <3>1, WellKeptMeans
  <2> QED BY <2>1 DEF SightedPointwise
<1>1. /\ ranges \in SightTables /\ \A v : Gives(ranges, i, v) <=> latest[i] # Never /\ v = latest[i]
  BY DEF SightInv
<1> DEFINE rows == Covering(ranges, i)
<1>2. rows = {r \in ranges : r.first <= i /\ i <= r.last}
  <2>1. i \in Int /\ ranges \in SUBSET TableRows(Sightings) /\ Disjoint(ranges)
    BY <1>1, IdsAreIds DEF SightTables, Tidy
  <2> QED BY <2>1, CoveringExact
<1>3. SightingOf(ranges, i) = IF rows = {} THEN Never ELSE (CHOOSE r \in rows : TRUE).value
  BY DEF SightingOf
<1> HIDE DEF rows
<1>4. CASE rows = {}
  <2>1. ~ Gives(ranges, i, latest[i])
    BY <1>2, <1>4 DEF Gives
  <2> QED BY <1>1, <1>3, <1>4, <2>1
<1>5. CASE rows # {}
  <2> DEFINE r == CHOOSE r \in rows : TRUE
  <2>1. r \in rows
    BY <1>5
  <2>2. SightingOf(ranges, i) = r.value
    BY <1>3, <1>5
  <2> HIDE DEF r
  <2>3. Gives(ranges, i, r.value)
    BY <1>2, <2>1 DEF Gives
  <2> QED BY <1>1, <2>2, <2>3
<1> QED BY <1>4, <1>5

\* Stamping and forgetting intervals is stamping and forgetting each id on its own, whatever
\* order they come in (cache/freshness.py, stamp and forget).
THEOREM SightingsPointwise == RangesSpec => []SightedPointwise
<1>1. SightInv /\ [RangesNext]_<<subject, ranges, latest, importVars, spans, covered>> => SightInv'
  BY SightKeeps
<1> QED BY SightStart, SightMeans, <1>1, PTL DEF RangesSpec

\* Every interval table stays well kept: rows of their type, apart from each other, and none
\* that touch could have been one, which the lookups by one predecessor rely on
\* (cache/freshness.py, cache/import_ranges.py).
THEOREM RangesInvariance == RangesSpec => []TypeOK
<1>1. SightInv /\ ImportInv => TypeOK
  <2> SUFFICES ASSUME SightInv, ImportInv PROVE TypeOK
    OBVIOUS
  <2>1. /\ ranges \in SUBSET TableRows(Sightings) /\ Disjoint(ranges) /\ Joined(ranges) /\ Within(ranges, Ids)
    BY DEF SightInv, SightTables, Tidy
  <2>2. /\ keyRanges \in SUBSET TableRows(Affines) /\ Disjoint(keyRanges) /\ Joined(keyRanges)
        /\ Within(keyRanges, Keys) /\ dirty \subseteq Keys /\ ready \in BOOLEAN
    BY DEF ImportInv, Tidy
  <2>3. WellKept(ranges) /\ WellKept(keyRanges)
    BY <2>1, <2>2, WellKeptMeans
  <2>4. ASSUME NEW V, NEW table \in SUBSET TableRows(V), Disjoint(table), NEW S, Within(table, S), NEW r \in table
        PROVE  r.first \in S /\ r.last \in S /\ r.value \in V
    <3>1. r.first \in Int /\ r.last \in Int /\ r.first <= r.last /\ r.value \in V
      BY <2>4 DEF TableRows, Disjoint
    <3>2. Gives(table, r.first, r.value) /\ Gives(table, r.last, r.value)
      BY <3>1 DEF Gives
    <3> QED BY <2>4, <3>1, <3>2 DEF Within
  <2>5. \A r \in ranges : r \in [first : Ids, last : Ids, value : Sightings]
    <3> SUFFICES ASSUME NEW r \in ranges PROVE r \in [first : Ids, last : Ids, value : Sightings]
      OBVIOUS
    <3>1. r.first \in Ids /\ r.last \in Ids /\ r.value \in Sightings
      BY <2>1, <2>4
    <3>2. r \in TableRows(Sightings)
      BY <2>1
    <3> QED BY <3>1, <3>2 DEF TableRows
  <2>6. \A r \in keyRanges : r.first \in Keys /\ r.last \in Keys /\ r.value \in Affines
    BY <2>2, <2>4
  <2> QED BY <2>2, <2>3, <2>5, <2>6 DEF TypeOK, Affines
<1>2. SightInv /\ [RangesNext]_<<subject, ranges, latest, importVars, spans, covered>> => SightInv'
  BY SightKeeps
<1>3. ImportInv /\ [RangesNext]_<<subject, ranges, latest, importVars, spans, covered>> => ImportInv'
  BY ImportKeeps
<1> QED BY SightStart, ImportStart, <1>1, <1>2, <1>3, PTL DEF RangesSpec

=============================================================================
