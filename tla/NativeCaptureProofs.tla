------------------------ MODULE NativeCaptureProofs ------------------------
(***************************************************************************)
(* The native collector keeps its promises for any source, any policies,   *)
(* any rows that fail or exceed a batch, and however often it is disturbed *)
(* or dies: the safety properties of NativeCapture and its refinement of   *)
(* Handoff, from one inductive invariant.  Its parts, in the order they    *)
(* rest on each other: what the mirror's tokens are; which of them are     *)
(* captured; whose attempt is in the cache; what a memo, a coverage point  *)
(* and an attempt that are still current say about the observations.       *)
(***************************************************************************)
EXTENDS NativeCapture, FiniteSetTheorems, TLAPS

(* Shapes ******************************************************************)
Cut == [rows : Contents, policy : Policies]
Observation == [policy : Policies \cup {None}, value : Values \cup {Absent},
                present : BOOLEAN, seen : Nat]
Memo == [policy : Policies \cup {None}, value : Values \cup {Absent}, valid : BOOLEAN]
Point == [token : Nat, current : BOOLEAN, rows : SUBSET Rows]
Attempt == [token : Nat, full : BOOLEAN, current : BOOLEAN, withdrawn : SUBSET Rows,
            retained : SUBSET Rows, staged : SUBSET Rows]
Mirror == [status : Statuses, token : Nat, parent : Nat, rows : Contents,
           changed : SUBSET Rows, old : SUBSET Rows, policy : Policies \cup {None},
           baseline : BOOLEAN, rebase : BOOLEAN, keyed : BOOLEAN, ancestors : SUBSET Nat]

Tables == {"obs", "unit", "point", "attempt", "run", "receipts", "checkpoint"}

Shaped(c) ==
  /\ DOMAIN c = Tables
  /\ c.obs \in [Rows -> Observation] /\ c.unit \in [Rows -> Memo]
  /\ c.point \in Point /\ c.attempt \in Attempt
  /\ c.receipts \subseteq Nat /\ c.checkpoint \in Nat

Shapes ==
  /\ source \in Contents /\ policy \in Policies
  /\ mirror \in Mirror /\ cuts \in [1 .. mirror.token -> Cut]
  /\ Shaped(cache)
  /\ pc \in {"idle", "offered", "valid", "covered", "extracting", "captured"}
  /\ todo \subseteq Rows /\ errors \in BOOLEAN

(* The inductive invariant *************************************************)
\* Tokens are made one by one. Between the parent of the mirror's point and its token are
\* exactly the tokens the point had under earlier policies.
Lineage ==
  /\ mirror.status = "empty" <=> mirror.token = None
  /\ mirror.token = None => mirror.parent = None
  /\ mirror.token # None =>
       /\ mirror.parent < mirror.token
       /\ cuts[mirror.token] = [rows |-> mirror.rows, policy |-> mirror.policy]
  /\ mirror.ancestors = (mirror.parent + 1) .. (mirror.token - 1)

\* A point that is not a baseline lists exactly the rows its parent's differ in.
DeltaExact ==
  /\ mirror.old \subseteq mirror.changed
  /\ ~mirror.baseline /\ mirror.parent # None =>
       /\ cuts[mirror.parent].policy = mirror.policy
       /\ mirror.changed = {r \in Rows : cuts[mirror.parent].rows[r] # mirror.rows[r]}
       /\ mirror.old = mirror.changed \cap Present(cuts[mirror.parent].rows)

\* Of the tokens made so far the parent is captured, those after it are not, and the
\* mirror's own is when the mirror may let it go.
Captured ==
  /\ DOMAIN cache.run \subseteq 1 .. mirror.token
  /\ mirror.parent # None => Complete(cache, mirror.parent)
  /\ mirror.status = "acknowledged" => Complete(cache, mirror.token)
  /\ \A t \in mirror.ancestors : ~Complete(cache, t)
  /\ \A t \in cache.receipts : Complete(cache, t) /\ t <= cache.checkpoint

\* Where the collector is says what is so of the mirror's point.
Control ==
  /\ pc = "idle" => todo = {}
  /\ pc # "idle" => mirror.status = "prepared"
  /\ pc \in {"valid", "covered", "extracting"} => ~Complete(cache, mirror.token)
  /\ pc = "captured" => Complete(cache, mirror.token)
  /\ todo \subseteq Present(mirror.rows)

\* An attempt in the cache is of the point on offer, perhaps under an earlier policy, and
\* gone when the point is captured.
Owned ==
  /\ Owner # None => /\ mirror.parent < Owner /\ Owner <= mirror.token
                     /\ ~Complete(cache, mirror.token)
  /\ pc \in {"valid", "covered", "extracting"} => Owner \in {None, mirror.token}

\* What is present has a content, and nothing was sighted at a point yet to be made.
ObservationsSound ==
  \A r \in Rows : /\ cache.obs[r].present => cache.obs[r].value # Absent
                  /\ cache.obs[r].seen <= mirror.token

PointSound == (cache.point.current => cache.point.token \in 1 .. mirror.token) /\ PointExact

\* An attempt that nothing has interfered with: what is present will be withdrawn or is
\* accounted for, what is accounted for is as the mirror has it, and with the rows still
\* to be read it is all the mirror has.
AttemptExact ==
  LET a == cache.attempt IN
  a.token = mirror.token /\ a.current =>
    /\ PresentRows(cache) \subseteq a.withdrawn \cup a.retained \cup a.staged
    /\ a.retained \cup a.staged \subseteq Present(mirror.rows)
    /\ ~a.full => Present(mirror.rows) \subseteq a.retained \cup Selected(TRUE)
    /\ pc \in {"covered", "extracting"} =>
         Present(mirror.rows) \subseteq a.retained \cup a.staged \cup todo \/ errors
    /\ \A r \in a.retained \cup a.staged :
         cache.obs[r].present /\ cache.obs[r].value = mirror.rows[r]
         /\ cache.obs[r].policy = mirror.policy
    /\ \A r \in a.staged : cache.obs[r].seen = mirror.token

IInv ==
  /\ Shapes /\ Lineage /\ DeltaExact /\ Captured /\ Control /\ Owned
  /\ ObservationsSound /\ MemoSound /\ PointSound /\ AttemptExact

(* The mirror **************************************************************)
\* The next token.
LEMMA FreshToken ==
  ASSUME Shapes
  PROVE Tokens = 1 .. mirror.token /\ mirror.token \in Nat /\ Fresh = mirror.token + 1
<1>1. mirror.token \in Nat /\ Tokens = 1 .. mirror.token
  BY DEF Shapes, Mirror, Tokens
<1>2. Cardinality(1 .. mirror.token) = mirror.token
  <2>1. 1 \in Int /\ mirror.token \in Int
    BY <1>1
  <2>2. Cardinality(1 .. mirror.token)
          = IF 1 > mirror.token THEN 0 ELSE mirror.token - 1 + 1
    BY <2>1, FS_Interval
  <2> QED BY <1>1, <2>2
<1> QED BY <1>1, <1>2 DEF Fresh

(* Operators on the cache **************************************************)
\* d has the observations, memo, point and attempt of c.
SameEvidence(c, d) ==
  d.obs = c.obs /\ d.unit = c.unit /\ d.point = c.point /\ d.attempt = c.attempt

\* d has the runs, receipts and checkpoint of c.
SameRuns(c, d) ==
  d.run = c.run /\ d.receipts = c.receipts /\ d.checkpoint = c.checkpoint

LEMMA SaveRunSaves ==
  ASSUME NEW c, Shaped(c), NEW t \in Nat, NEW status
  PROVE LET d == SaveRun(c, t, status) IN
        /\ Shaped(d) /\ SameEvidence(c, d)
        /\ d.receipts = c.receipts /\ d.checkpoint = c.checkpoint
        /\ DOMAIN d.run = DOMAIN c.run \cup {t}
        /\ \A x : Complete(d, x) <=> IF x = t THEN status = "complete" ELSE Complete(c, x)
BY DEF Shaped, Tables, SaveRun, SameEvidence, Complete, RunOf

LEMMA CommitReceiptCommits ==
  ASSUME NEW c, Shaped(c), NEW t \in Nat
  PROVE LET d == CommitReceipt(c, t) IN
        /\ Shaped(d) /\ SameEvidence(c, d) /\ d.run = c.run
        /\ d.receipts = c.receipts \cup {t} /\ d.checkpoint = t
BY DEF Shaped, Tables, CommitReceipt, SameEvidence

LEMMA RetireRetires ==
  ASSUME NEW c, Shaped(c)
  PROVE LET d == Retire(c) IN
        /\ Shaped(d) /\ d.obs = c.obs /\ d.unit = c.unit /\ d.point = c.point
        /\ d.attempt = IF c.attempt.token \in mirror.ancestors THEN NoAttempt ELSE c.attempt
        /\ d.receipts = c.receipts /\ d.checkpoint = c.checkpoint
        /\ DOMAIN d.run = DOMAIN c.run
        /\ \A x : Complete(d, x) <=> Complete(c, x)
BY DEF Shaped, Tables, Retire, Complete, RunOf, NoAttempt, Attempt, None

LEMMA ObserveWrites ==
  ASSUME NEW c, Shaped(c), NEW r \in Rows, NEW o \in Observation
  PROVE LET d == Observe(c, r, o) IN
        /\ Shaped(d) /\ SameRuns(c, d)
        /\ d.obs = [c.obs EXCEPT ![r] = o]
        /\ ~Semantic(c, r, o) =>
             d.unit = c.unit /\ d.point = c.point /\ d.attempt = c.attempt
        /\ Semantic(c, r, o) =>
             /\ d.unit = [c.unit EXCEPT ![r].valid = FALSE]
             /\ d.point = [c.point EXCEPT !.current = FALSE]
             /\ d.attempt = [c.attempt EXCEPT !.current = FALSE]
<1>1. CASE ~Semantic(c, r, o)
  BY <1>1 DEF Shaped, Tables, Observe, SameRuns
<1>2. CASE Semantic(c, r, o)
  <2>1. [c.unit EXCEPT ![r].valid = FALSE] \in [Rows -> Memo]
    BY DEF Shaped, Tables, Memo
  <2>2. [c.point EXCEPT !.current = FALSE] \in Point
        /\ [c.attempt EXCEPT !.current = FALSE] \in Attempt
    BY DEF Shaped, Tables, Point, Attempt
  <2> QED BY <1>2, <2>1, <2>2 DEF Shaped, Tables, Observe, SameRuns
<1> QED BY <1>1, <1>2

\* The row r as the mirror has it, observed at its point.
Mirrored(r) == [policy |-> mirror.policy, value |-> mirror.rows[r], present |-> TRUE,
                seen |-> mirror.token]

\* MemoSound of one row of c.
MemoOf(c, r) ==
  c.unit[r].valid => /\ c.obs[r].present
                     /\ c.obs[r].policy = c.unit[r].policy /\ c.obs[r].value = c.unit[r].value

\* d is c with row r as the mirror has it: an interference with the point if c had
\* something else, and a memo, if any, of what the mirror has.
Extracted(c, d, r) ==
  /\ Shaped(d) /\ SameRuns(c, d)
  /\ d.obs = [c.obs EXCEPT ![r] = Mirrored(r)]
  /\ d.unit \in [Rows -> Memo] /\ \A x \in Rows \ {r} : d.unit[x] = c.unit[x]
  /\ MemoOf(d, r)
  /\ \/ d.point = c.point /\ Content(c.obs[r]) = Content(Mirrored(r))
     \/ ~d.point.current

LEMMA MirroredObserved ==
  ASSUME Shapes, NEW r \in Rows
  PROVE Mirrored(r) \in Observation
BY DEF Shapes, Mirror, Contents, Mirrored, Observation

LEMMA SightRowExtracts ==
  ASSUME Shapes, NEW c, Shaped(c), NEW r \in Rows, MemoOf(c, r), Reusable(c, r)
  PROVE /\ Extracted(c, SightRow(c, r), r) /\ SightRow(c, r).attempt = c.attempt
<1> DEFINE d == SightRow(c, r)
<1>1. Mirrored(r) \in Observation
  BY MirroredObserved
<1>2. /\ DOMAIN d = Tables /\ d.obs = [c.obs EXCEPT ![r].seen = mirror.token]
      /\ d.unit = c.unit /\ d.point = c.point /\ d.attempt = c.attempt /\ SameRuns(c, d)
      /\ d.receipts = c.receipts /\ d.checkpoint = c.checkpoint
  BY DEF Shaped, Tables, SightRow, SameRuns
<1>3. c.unit[r].valid /\ c.unit[r].policy = mirror.policy /\ c.unit[r].value = mirror.rows[r]
  BY DEF Reusable
<1>4. c.obs[r] \in Observation /\ c.obs[r].present = TRUE
      /\ c.obs[r].policy = mirror.policy /\ c.obs[r].value = mirror.rows[r]
  BY <1>3 DEF MemoOf, Shaped, Observation
<1>5. d.obs[r] = Mirrored(r)
  <2>1. d.obs[r] = [c.obs[r] EXCEPT !.seen = mirror.token]
    BY <1>2 DEF Shaped
  <2>2. ASSUME NEW o \in Observation, o.present = TRUE, o.policy = mirror.policy,
               o.value = mirror.rows[r]
        PROVE [o EXCEPT !.seen = mirror.token] = Mirrored(r)
    <3> DEFINE e == [o EXCEPT !.seen = mirror.token]
    <3>1. mirror.token \in Nat
      BY DEF Shapes, Mirror
    <3>2. e \in Observation /\ Mirrored(r) \in Observation
      BY <1>1, <2>2, <3>1 DEF Observation
    <3>3. e.policy = o.policy /\ e.value = o.value /\ e.present = o.present
          /\ e.seen = mirror.token
      BY <2>2 DEF Observation
    <3> HIDE DEF e
    <3>4. Mirrored(r).policy = mirror.policy /\ Mirrored(r).value = mirror.rows[r]
          /\ Mirrored(r).present = TRUE /\ Mirrored(r).seen = mirror.token
      BY DEF Mirrored
    <3> QED BY <2>2, <3>2, <3>3, <3>4 DEF Observation, e
  <2> QED BY <1>4, <2>1, <2>2
<1>6. d.obs = [c.obs EXCEPT ![r] = Mirrored(r)]
  BY <1>2, <1>5 DEF Shaped
<1>7. Content(c.obs[r]) = Content(Mirrored(r))
  BY <1>4 DEF Content, Mirrored
<1> HIDE DEF d
<1>8. d.obs \in [Rows -> Observation]
  BY <1>1, <1>6 DEF Shaped
<1>9. Shaped(d)
  BY <1>2, <1>8 DEF Shaped
<1>10. MemoOf(d, r)
  BY <1>2, <1>3, <1>6, <1>5 DEF MemoOf, Mirrored
<1> QED BY <1>2, <1>6, <1>7, <1>9, <1>10 DEF Extracted, Shaped, d

LEMMA CaptureRowExtracts ==
  ASSUME Shapes, NEW c, Shaped(c), NEW r \in Rows, MemoOf(c, r)
  PROVE LET d == CaptureRow(c, r) IN
        /\ Extracted(c, d, r)
        /\ \/ d.attempt = c.attempt
           \/ d.attempt = [c.attempt EXCEPT !.current = FALSE]
<1> DEFINE o == Mirrored(r)
           w == Observe(c, r, o)
           d == CaptureRow(c, r)
           u == [policy |-> mirror.policy, value |-> mirror.rows[r], valid |-> TRUE]
<1>1. o \in Observation /\ u \in Memo
  BY MirroredObserved DEF Shapes, Mirror, Contents, Memo
<1>2. /\ Shaped(w) /\ SameRuns(c, w) /\ w.obs = [c.obs EXCEPT ![r] = o]
      /\ ~Semantic(c, r, o) => w.unit = c.unit /\ w.point = c.point /\ w.attempt = c.attempt
      /\ Semantic(c, r, o) => /\ w.unit = [c.unit EXCEPT ![r].valid = FALSE]
                              /\ w.point = [c.point EXCEPT !.current = FALSE]
                              /\ w.attempt = [c.attempt EXCEPT !.current = FALSE]
  <2> HIDE DEF o, u, d
  <2> QED BY <1>1, ObserveWrites
<1>3. d = IF r \in Headers THEN w
          ELSE IF r \in Large THEN [w EXCEPT !.unit[r].valid = FALSE]
          ELSE [w EXCEPT !.unit[r] = u]
  BY DEF CaptureRow, Mirrored
<1>4. /\ DOMAIN d = Tables /\ d.obs = w.obs /\ d.point = w.point /\ d.attempt = w.attempt
      /\ SameRuns(w, d)
      /\ d.unit = IF r \in Headers THEN w.unit
                  ELSE IF r \in Large THEN [w.unit EXCEPT ![r].valid = FALSE]
                  ELSE [w.unit EXCEPT ![r] = u]
  <2> HIDE DEF d, w, u
  <2> QED BY <1>2, <1>3 DEF Shaped, Tables, SameRuns
<1>5. \A x \in Rows \ {r} : w.unit[x] = c.unit[x]
  BY <1>2 DEF Shaped
<1>6. (w.unit[r] = c.unit[r] /\ ~Semantic(c, r, o)) \/ ~w.unit[r].valid
  BY <1>2 DEF Shaped, Memo
<1> HIDE DEF w, d, u, o
<1>7. d.unit \in [Rows -> Memo] /\ \A x \in Rows \ {r} : d.unit[x] = c.unit[x]
  <2>1. w.unit \in [Rows -> Memo]
    BY <1>2 DEF Shaped
  <2>2. [w.unit[r] EXCEPT !.valid = FALSE] \in Memo
    BY <2>1 DEF Memo
  <2>3. d.unit = w.unit \/ \E m \in Memo : d.unit = [w.unit EXCEPT ![r] = m]
    <3>1. [w.unit EXCEPT ![r].valid = FALSE]
            = [w.unit EXCEPT ![r] = [w.unit[r] EXCEPT !.valid = FALSE]]
      OBVIOUS
    <3> QED BY <1>1, <1>4, <2>2, <3>1
  <2> QED BY <1>5, <2>1, <2>3
<1>8. d.obs[r] = o
  BY <1>1, <1>2, <1>4 DEF Shaped
<1>9. MemoOf(d, r)
  <2>1. CASE r \in Headers
    <3>1. CASE ~w.unit[r].valid
      BY <1>4, <2>1, <3>1 DEF MemoOf
    <3>2. CASE w.unit[r] = c.unit[r] /\ ~Semantic(c, r, o)
      <4>1. d.unit[r] = c.unit[r]
        BY <1>4, <2>1, <3>2
      <4>2. o.policy = c.obs[r].policy /\ o.value = c.obs[r].value
            /\ o.present = c.obs[r].present
        BY <3>2 DEF Semantic, Content
      <4> QED BY <1>8, <4>1, <4>2 DEF MemoOf
    <3> QED BY <1>6, <3>1, <3>2
  <2>2. CASE r \notin Headers /\ r \in Large
    BY <1>2, <1>4, <2>2 DEF MemoOf, Shaped, Memo
  <2>3. CASE r \notin Headers /\ r \notin Large
    <3>1. d.unit[r] = u
      BY <1>2, <1>4, <2>3 DEF Shaped
    <3> QED BY <1>8, <3>1 DEF MemoOf, o, u, Mirrored
  <2> QED BY <2>1, <2>2, <2>3
<1>10. Shaped(d) /\ SameRuns(c, d)
  BY <1>2, <1>4, <1>7 DEF Shaped, SameRuns
<1>11. \/ d.point = c.point /\ Content(c.obs[r]) = Content(o)
       \/ ~d.point.current
  BY <1>2, <1>4 DEF Semantic, Shaped, Point
<1> QED
  BY <1>2, <1>4, <1>7, <1>9, <1>10, <1>11 DEF Extracted, d, o

LEMMA ExtractRowExtracts ==
  ASSUME Shapes, NEW c, Shaped(c), NEW r \in Rows, MemoOf(c, r)
  PROVE LET d == ExtractRow(c, r) IN
        /\ Extracted(c, d, r)
        /\ d.attempt = [c.attempt EXCEPT !.staged = @ \cup {r}, !.current = TRUE]
<1> DEFINE w == IF Reusable(c, r) THEN SightRow(c, r) ELSE CaptureRow(c, r)
           d == ExtractRow(c, r)
<1>1. /\ Extracted(c, w, r)
      /\ \/ w.attempt = c.attempt
         \/ w.attempt = [c.attempt EXCEPT !.current = FALSE]
  BY SightRowExtracts, CaptureRowExtracts
<1>2. d = [w EXCEPT !.attempt.staged = @ \cup {r}, !.attempt.current = TRUE]
  BY DEF ExtractRow
<1> HIDE DEF w, d
<1>3. DOMAIN w = Tables /\ w.attempt \in Attempt
  BY <1>1 DEF Extracted, Shaped
<1>4. /\ DOMAIN d = Tables /\ d.obs = w.obs /\ d.unit = w.unit /\ d.point = w.point
      /\ SameRuns(w, d)
      /\ d.attempt = [w.attempt EXCEPT !.staged = @ \cup {r}, !.current = TRUE]
  BY <1>2, <1>3 DEF Tables, SameRuns
<1>5. d.attempt \in Attempt
  BY <1>3, <1>4 DEF Attempt
<1>6. d.attempt = [c.attempt EXCEPT !.staged = @ \cup {r}, !.current = TRUE]
  BY <1>1, <1>4 DEF Shaped, Attempt
<1>7. Shaped(d)
  BY <1>1, <1>4, <1>5 DEF Extracted, Shaped, SameRuns
<1> QED BY <1>1, <1>4, <1>6, <1>7 DEF Extracted, SameRuns, MemoOf, d

LEMMA FailRowFails ==
  ASSUME NEW c, Shaped(c), NEW r \in Rows
  PROVE LET d == FailRow(c, r) IN
        /\ Shaped(d) /\ SameRuns(c, d) /\ d.obs = c.obs /\ d.point = c.point
        /\ d.unit = [c.unit EXCEPT ![r] = NoUnit]
        /\ d.attempt = [c.attempt EXCEPT !.current = TRUE]
<1>1. NoUnit \in Memo
  BY DEF NoUnit, Memo
<1>2. [c.unit EXCEPT ![r] = NoUnit] \in [Rows -> Memo]
  BY <1>1 DEF Shaped
<1>3. [c.attempt EXCEPT !.current = TRUE] \in Attempt
  BY DEF Shaped, Attempt
<1> QED BY <1>2, <1>3 DEF Shaped, Tables, FailRow, SameRuns

\* d is c with another attempt.
Begins(c, d) ==
  Shaped(d) /\ SameRuns(c, d) /\ d.obs = c.obs /\ d.unit = c.unit /\ d.point = c.point

LEMMA BeginFullBegins ==
  ASSUME Shapes, NEW c, Shaped(c)
  PROVE LET d == BeginFull(c) IN
        /\ Begins(c, d)
        /\ d.attempt = [token |-> mirror.token, full |-> TRUE, current |-> TRUE,
                        withdrawn |-> PresentRows(c), retained |-> {}, staged |-> {}]
<1>1. [token |-> mirror.token, full |-> TRUE, current |-> TRUE,
       withdrawn |-> PresentRows(c), retained |-> {}, staged |-> {}] \in Attempt
  BY DEF Shapes, Mirror, PresentRows, Attempt
<1> QED BY <1>1 DEF Shaped, Tables, BeginFull, Begins, SameRuns

LEMMA BeginSelectiveBegins ==
  ASSUME Shapes, NEW c, Shaped(c)
  PROVE LET d == BeginSelective(c) IN
        /\ Begins(c, d)
        /\ d.attempt = [token |-> mirror.token, full |-> FALSE, current |-> TRUE,
                        withdrawn |-> Withdrawn(c),
                        retained |-> c.point.rows \ Withdrawn(c), staged |-> {}]
<1>1. Withdrawn(c) \subseteq Rows
  BY DEF Shapes, Mirror, Withdrawn, HeadersWithdrawn, PresentRows
<1>2. [token |-> mirror.token, full |-> FALSE, current |-> TRUE, withdrawn |-> Withdrawn(c),
       retained |-> c.point.rows \ Withdrawn(c), staged |-> {}] \in Attempt
  BY <1>1 DEF Shapes, Mirror, Shaped, Point, Attempt
<1> QED BY <1>2 DEF Shaped, Tables, BeginSelective, Begins, SameRuns

LEMMA FinishFinishes ==
  ASSUME Shapes, NEW c, Shaped(c)
  PROVE LET d == Finish(c)
            seen == c.attempt.retained \cup c.attempt.staged
            gone == c.attempt.withdrawn \ seen
        IN
        /\ Shaped(d) /\ SameRuns(c, d) /\ d.attempt = NoAttempt
        /\ d.point = [token |-> mirror.token, current |-> TRUE, rows |-> seen]
        /\ \A r \in Rows :
             /\ d.obs[r].policy = c.obs[r].policy /\ d.obs[r].value = c.obs[r].value
             /\ d.obs[r].present = (c.obs[r].present /\ r \notin gone)
             /\ d.obs[r].seen \in {mirror.token, c.obs[r].seen}
             /\ r \in c.attempt.retained => d.obs[r].seen = mirror.token
             /\ d.unit[r].policy = c.unit[r].policy /\ d.unit[r].value = c.unit[r].value
             /\ d.unit[r].valid => c.unit[r].valid /\ ~(r \in gone /\ c.obs[r].present)
<1> DEFINE seen == c.attempt.retained \cup c.attempt.staged
           gone == c.attempt.withdrawn \ seen
           kept == c.attempt.retained
           marked == [r \in Rows |-> IF r \in gone /\ c.obs[r].present
                        THEN [c.obs[r] EXCEPT !.present = FALSE, !.seen = mirror.token]
                        ELSE c.obs[r]]
           memo == [r \in Rows |-> IF r \in gone /\ c.obs[r].present
                      THEN [c.unit[r] EXCEPT !.valid = FALSE] ELSE c.unit[r]]
           stamped == [r \in Rows |-> IF r \in kept
                         THEN [marked[r] EXCEPT !.seen = mirror.token] ELSE marked[r]]
           point == [token |-> mirror.token, current |-> TRUE, rows |-> seen]
           m == MarkAbsent(c, gone)
           s == StampRows(m, kept)
           d == Finish(c)
<1>1. mirror.token \in Nat /\ seen \subseteq Rows /\ point \in Point /\ NoAttempt \in Attempt
  BY DEF Shapes, Mirror, Shaped, Attempt, Point, NoAttempt, None
<1>2. /\ DOMAIN m = Tables /\ m.obs = marked /\ m.unit = memo /\ m.attempt = c.attempt
      /\ SameRuns(c, m)
  BY DEF MarkAbsent, Shaped, Tables, SameRuns
<1>3. /\ DOMAIN s = Tables /\ s.obs = stamped /\ s.unit = memo /\ SameRuns(c, s)
  <2> HIDE DEF m, marked, memo
  <2> QED BY <1>2 DEF StampRows, Tables, SameRuns
<1>4. /\ DOMAIN d = Tables /\ d.obs = stamped /\ d.unit = memo /\ SameRuns(c, d)
      /\ d.attempt = NoAttempt /\ d.point = point
  <2>1. d = [s EXCEPT !.point = point, !.attempt = NoAttempt]
    BY DEF Finish
  <2> HIDE DEF s, d, point, stamped, memo
  <2> QED BY <1>3, <2>1 DEF Tables, SameRuns
<1>5. \A r \in Rows :
        /\ marked[r] \in Observation
        /\ marked[r].policy = c.obs[r].policy /\ marked[r].value = c.obs[r].value
        /\ marked[r].present = (c.obs[r].present /\ r \notin gone)
        /\ marked[r].seen \in {mirror.token, c.obs[r].seen}
  <2> SUFFICES ASSUME NEW r \in Rows
               PROVE  /\ marked[r] \in Observation
                      /\ marked[r].policy = c.obs[r].policy /\ marked[r].value = c.obs[r].value
                      /\ marked[r].present = (c.obs[r].present /\ r \notin gone)
                      /\ marked[r].seen \in {mirror.token, c.obs[r].seen}
    OBVIOUS
  <2>1. c.obs[r] \in Observation
    BY DEF Shaped
  <2> HIDE DEF gone
  <2>2. CASE r \in gone /\ c.obs[r].present
    BY <1>1, <2>1, <2>2 DEF Observation
  <2>3. CASE ~(r \in gone /\ c.obs[r].present)
    BY <2>1, <2>3 DEF Observation
  <2> QED BY <2>2, <2>3
<1>6. \A r \in Rows :
        /\ memo[r] \in Memo
        /\ memo[r].policy = c.unit[r].policy /\ memo[r].value = c.unit[r].value
        /\ memo[r].valid => c.unit[r].valid /\ ~(r \in gone /\ c.obs[r].present)
  <2> HIDE DEF gone
  <2> QED BY DEF Shaped, Memo
<1> HIDE DEF marked
<1>7. \A r \in Rows :
        /\ stamped[r] \in Observation
        /\ stamped[r].policy = c.obs[r].policy /\ stamped[r].value = c.obs[r].value
        /\ stamped[r].present = (c.obs[r].present /\ r \notin gone)
        /\ stamped[r].seen \in {mirror.token, c.obs[r].seen}
        /\ r \in kept => stamped[r].seen = mirror.token
  <2> HIDE DEF gone, kept
  <2> QED BY <1>1, <1>5 DEF Observation
<1>8. stamped \in [Rows -> Observation] /\ memo \in [Rows -> Memo]
  BY <1>6, <1>7
<1> HIDE DEF stamped, memo, point, d
<1>9. Shaped(d)
  BY <1>1, <1>4, <1>8 DEF Shaped, SameRuns
<1> QED BY <1>4, <1>6, <1>7, <1>9 DEF d, point

(* What a step leaves alone ************************************************)
LEMMA MirrorStays ==
  ASSUME Shapes, Lineage, DeltaExact, UNCHANGED <<mirror, cuts>>
  PROVE Lineage' /\ DeltaExact'
BY DEF Lineage, DeltaExact

LEMMA CapturedStays ==
  ASSUME Captured, UNCHANGED mirror,
         DOMAIN cache'.run \subseteq 1 .. mirror.token,
         \A t : Complete(cache, t) => Complete(cache', t),
         \A t \in mirror.ancestors : Complete(cache', t) => Complete(cache, t),
         \A t \in cache'.receipts : Complete(cache', t) /\ t <= cache'.checkpoint
  PROVE Captured'
BY DEF Captured

LEMMA EvidenceStays ==
  ASSUME ObservationsSound, MemoSound, PointSound, UNCHANGED <<mirror, cuts>>,
         cache'.obs = cache.obs, cache'.unit = cache.unit, cache'.point = cache.point
  PROVE ObservationsSound' /\ MemoSound' /\ PointSound'
<1>1. ObservationsSound'
  BY DEF ObservationsSound
<1>2. MemoSound'
  BY DEF MemoSound
<1>3. PointSound'
  BY DEF PointSound, PointExact, PresentRows, Tokens
<1> QED BY <1>1, <1>2, <1>3

LEMMA AttemptStays ==
  ASSUME AttemptExact, UNCHANGED mirror, cache'.obs = cache.obs,
         cache'.attempt = cache.attempt,
         pc' \in {"covered", "extracting"} =>
           pc \in {"covered", "extracting"} /\ UNCHANGED <<todo, errors>>
  PROVE AttemptExact'
<1>1. PresentRows(cache') = PresentRows(cache) /\ Selected(TRUE)' = Selected(TRUE)
  BY DEF PresentRows, Selected, Unchanged
<1> QED BY <1>1 DEF AttemptExact

(* The first state *********************************************************)
LEMMA InitInvariant ==
  ASSUME Init
  PROVE IInv
<1> USE DEF Init, MirrorInit
<1>1. source \in Contents /\ policy \in Policies
  BY MirrorAssumption DEF Contents
<1>2. mirror \in Mirror
  BY DEF EmptyMirror, Mirror, Statuses, Contents, None
<1>3. cuts \in [1 .. mirror.token -> Cut]
  <2>1. 1 .. mirror.token = {}
    BY DEF EmptyMirror, None
  <2> QED BY <2>1
<1>4. Shaped(cache)
  BY DEF EmptyCache, Shaped, Tables, NoRow, NoUnit, NoPoint, NoAttempt, Observation, Memo,
         Point, Attempt, None
<1>5. Shapes
  BY <1>1, <1>2, <1>3, <1>4 DEF Shapes
<1>6. Lineage /\ DeltaExact
  BY DEF Lineage, DeltaExact, EmptyMirror, None
<1>7. Captured /\ Control /\ Owned
  BY DEF Captured, Control, Owned, Owner, EmptyMirror, EmptyCache, NoAttempt, None, Complete,
         RunOf
<1>8. ObservationsSound
  BY DEF ObservationsSound, EmptyMirror, EmptyCache, NoRow, None
<1>9. MemoSound
  BY DEF MemoSound, EmptyCache, NoUnit
<1>10. PointSound /\ AttemptExact
  BY DEF PointSound, PointExact, AttemptExact, EmptyCache, NoPoint, NoAttempt
<1> QED BY <1>5, <1>6, <1>7, <1>8, <1>9, <1>10 DEF IInv

(* Steps that leave the mirror and the cache alone *************************)
LEMMA QuietStep ==
  ASSUME IInv, UNCHANGED <<mirror, cuts, cache>>, source' \in Contents, policy' \in Policies,
         pc' \in {"idle", "offered"}, todo' = {}, errors' \in BOOLEAN,
         pc' = "offered" => mirror.status = "prepared"
  PROVE IInv'
<1>1. Shapes'
  BY DEF IInv, Shapes
<1>2. Lineage' /\ DeltaExact'
  BY MirrorStays DEF IInv
<1>3. Captured' /\ Control' /\ Owned'
  BY DEF IInv, Captured, Control, Owned, Owner
<1>4. ObservationsSound' /\ MemoSound' /\ PointSound'
  BY EvidenceStays DEF IInv
<1>5. AttemptExact'
  BY AttemptStays DEF IInv
<1> QED BY <1>1, <1>2, <1>3, <1>4, <1>5 DEF IInv

LEMMA TakePendingKeeps ==
  ASSUME IInv, TakePending
  PROVE IInv'
<1>1. todo = {} /\ source \in Contents /\ policy \in Policies /\ errors \in BOOLEAN
  BY DEF IInv, Control, Shapes, TakePending
<1> QED BY <1>1, QuietStep DEF TakePending, Goto, mirrorVars

LEMMA CrashKeeps ==
  ASSUME IInv, Crash
  PROVE IInv'
<1>1. source \in Contents /\ policy \in Policies
  BY DEF IInv, Shapes
<1> QED BY <1>1, QuietStep DEF Crash, Stop, mirrorVars

LEMMA RefuseCompletionKeeps ==
  ASSUME IInv, RefuseCompletion
  PROVE IInv'
<1>1. source \in Contents /\ policy \in Policies
  BY DEF IInv, Shapes
<1> QED BY <1>1, QuietStep DEF RefuseCompletion, Stop, mirrorVars

LEMMA EditKeeps ==
  ASSUME IInv, Edit
  PROVE IInv'
<1>1. todo = {} /\ pc = "idle" /\ policy \in Policies /\ errors \in BOOLEAN
  BY DEF IInv, Control, Shapes, Edit
<1>2. PICK r \in Rows, v \in Values \cup {Absent} : SourceEdit(r, v)
  BY DEF Edit
<1>3. source' \in Contents
  BY <1>2 DEF SourceEdit, IInv, Shapes, Contents
<1> QED BY <1>1, <1>2, <1>3, QuietStep DEF Edit, SourceEdit, process

LEMMA InstallKeeps ==
  ASSUME IInv, Install
  PROVE IInv'
<1>1. todo = {} /\ pc = "idle" /\ source \in Contents /\ errors \in BOOLEAN
  BY DEF IInv, Control, Shapes, Install
<1>2. PICK p \in Policies : Upgrade(p)
  BY DEF Install
<1> QED BY <1>1, <1>2, QuietStep DEF Install, Upgrade, process

(* Steps of the mirror *****************************************************)
\* A new point is not captured, and the last one was.
LEMMA NewPointKeeps ==
  ASSUME IInv, NewPoint
  PROVE IInv'
<1>1. PICK base \in BOOLEAN, keyed \in BOOLEAN :
        /\ mirror.status \in {"empty", "acknowledged"} /\ (~base => Comparable)
        /\ Publish(base, keyed)
  BY DEF NewPoint, Baseline, Delta, Comparable
<1> DEFINE changed == IF base THEN {} ELSE ChangedRows
           t == mirror.token
<1>2. t \in Nat /\ Tokens = 1 .. t /\ Fresh = t + 1
  BY FreshToken DEF IInv
<1>3. /\ mirror' = [status |-> "prepared", token |-> t + 1, parent |-> t, rows |-> source,
                    changed |-> changed, old |-> changed \cap Present(mirror.rows),
                    policy |-> policy, baseline |-> base, rebase |-> FALSE, keyed |-> keyed,
                    ancestors |-> {}]
      /\ cuts' = [x \in 1 .. t + 1 |->
                    IF x = t + 1 THEN [rows |-> source, policy |-> policy] ELSE cuts[x]]
      /\ UNCHANGED <<source, policy, cache>>
  <2>1. Tokens \cup {Fresh} = 1 .. t + 1
    BY <1>2
  <2> QED BY <1>1, <1>2, <2>1 DEF Publish, NewPoint
<1>4. pc = "idle" /\ pc' = "offered" /\ todo' = {} /\ UNCHANGED errors
  BY DEF NewPoint, Goto, IInv, Control
<1>5. Shapes'
  <2>1. mirror' \in Mirror
    <3>1. changed \subseteq Rows
      BY DEF ChangedRows
    <3> HIDE DEF changed
    <3> QED BY <1>1, <1>2, <1>3, <3>1 DEF Mirror, Statuses, IInv, Shapes
  <2>2. cuts' \in [1 .. mirror'.token -> Cut]
    BY <1>2, <1>3 DEF Cut, IInv, Shapes
  <2> QED BY <1>3, <1>4, <2>1, <2>2 DEF IInv, Shapes
<1>6. t # None => Complete(cache, t)
  BY <1>1 DEF IInv, Lineage, Captured
<1>7. ~Complete(cache, t + 1)
  BY <1>2 DEF IInv, Captured, Complete, RunOf
<1>8. Owner = None
  BY <1>2, <1>6 DEF IInv, Owned, Owner, Shapes, Shaped, Attempt, None
<1>9. Lineage'
  BY <1>2, <1>3 DEF Lineage, None
<1>10. DeltaExact'
  <2>1. CASE base
    BY <1>3, <2>1 DEF DeltaExact
  <2>2. CASE ~base
    <3>1. t # None /\ mirror.policy = policy
      BY <1>1, <2>2 DEF Comparable, IInv, Lineage
    <3>2. cuts[t] = [rows |-> mirror.rows, policy |-> policy]
      BY <3>1 DEF IInv, Lineage
    <3>3. cuts'[t] = cuts[t]
      BY <1>2, <1>3, <3>1 DEF None
    <3>4. changed = {r \in Rows : mirror.rows[r] # source[r]}
      BY <2>2 DEF ChangedRows
    <3>5. /\ mirror'.parent = t /\ mirror'.policy = policy /\ mirror'.rows = source
          /\ mirror'.changed = changed /\ mirror'.old = changed \cap Present(mirror.rows)
      BY <1>3
    <3>6. cuts'[t].policy = policy /\ cuts'[t].rows = mirror.rows
      BY <3>2, <3>3
    <3> HIDE DEF changed
    <3>7. mirror'.old = mirror'.changed \cap Present(cuts'[mirror'.parent].rows)
      BY <3>5, <3>6 DEF Present
    <3>8. mirror'.changed = {r \in Rows : cuts'[mirror'.parent].rows[r] # mirror'.rows[r]}
      BY <3>4, <3>5, <3>6
    <3> QED BY <3>5, <3>6, <3>7, <3>8 DEF DeltaExact
  <2> QED BY <2>1, <2>2
<1>11. Captured'
  BY <1>2, <1>3, <1>6 DEF IInv, Captured
<1>12. Control' /\ Owned'
  BY <1>3, <1>4, <1>8 DEF Control, Owned, Owner
<1>13. ObservationsSound'
  BY <1>2, <1>3 DEF IInv, ObservationsSound, Shapes, Shaped, Observation
<1>14. MemoSound'
  BY <1>3 DEF IInv, MemoSound
<1>15. PointSound'
  BY <1>2, <1>3 DEF IInv, PointSound, PointExact, PresentRows
<1>16. AttemptExact'
  BY <1>2, <1>3, <1>8 DEF AttemptExact, Owner, None
<1> QED
  BY <1>5, <1>9, <1>10, <1>11, <1>12, <1>13, <1>14, <1>15, <1>16 DEF IInv

\* The point has another token: it is not captured, its ancestors are not.
LEMMA RecoverKeeps ==
  ASSUME IInv, Recover
  PROVE IInv'
<1> DEFINE t == mirror.token
<1>1. t \in Nat /\ Tokens = 1 .. t /\ Fresh = t + 1
  BY FreshToken DEF IInv
<1>2. /\ mirror' = [mirror EXCEPT !.token = t + 1, !.policy = policy, !.baseline = TRUE,
                                  !.rebase = TRUE, !.ancestors = @ \cup {t}]
      /\ cuts' = [x \in 1 .. t + 1 |->
                    IF x = t + 1 THEN [rows |-> mirror.rows, policy |-> policy] ELSE cuts[x]]
      /\ UNCHANGED <<source, policy, cache, pc, todo, errors>>
  <2>1. Tokens \cup {Fresh} = 1 .. t + 1
    BY <1>1
  <2> QED BY <1>1, <2>1 DEF Recover, RecoverPendingPolicy, process
<1>3. /\ mirror.status = "prepared" /\ pc = "offered" /\ ~Complete(cache, t)
      /\ t # None /\ mirror.parent < t
  BY DEF Recover, RecoverPendingPolicy, IInv, Lineage
<1>4. /\ mirror' \in Mirror
      /\ mirror'.token = t + 1 /\ mirror'.policy = policy /\ mirror'.baseline = TRUE
      /\ mirror'.ancestors = mirror.ancestors \cup {t}
      /\ mirror'.status = "prepared" /\ mirror'.parent = mirror.parent
      /\ mirror'.rows = mirror.rows /\ mirror'.changed = mirror.changed
      /\ mirror'.old = mirror.old
  <2>1. mirror \in Mirror /\ policy \in Policies
    BY DEF IInv, Shapes
  <2> DEFINE token == t + 1
             ancestors == mirror.ancestors \cup {t}
  <2>2. token \in Nat /\ ancestors \in SUBSET Nat
    BY <1>1, <2>1 DEF Mirror
  <2>3. mirror' = [mirror EXCEPT !.token = token, !.policy = policy, !.baseline = TRUE,
                                 !.rebase = TRUE, !.ancestors = ancestors]
    BY <1>2
  <2> HIDE DEF token, ancestors
  <2>4. mirror' \in Mirror
    BY <2>1, <2>2, <2>3 DEF Mirror
  <2> QED BY <1>3, <2>1, <2>3, <2>4 DEF Mirror, token, ancestors
<1>5. Shapes'
  <2>1. cuts' \in [1 .. mirror'.token -> Cut]
    BY <1>1, <1>2, <1>4 DEF Cut, IInv, Shapes, Mirror
  <2> QED BY <1>2, <1>4, <2>1 DEF IInv, Shapes
<1>6. ~Complete(cache, t + 1)
  BY <1>1 DEF IInv, Captured, Complete, RunOf
<1>7. Lineage'
  <2>1. mirror.parent \in Nat
    BY DEF IInv, Shapes, Mirror
  <2> QED BY <1>1, <1>2, <1>3, <1>4, <2>1 DEF IInv, Lineage, None
<1>8. DeltaExact'
  BY <1>4 DEF IInv, DeltaExact
<1>9. Captured'
  BY <1>1, <1>2, <1>3, <1>4 DEF IInv, Captured
<1>10. Control'
  BY <1>2, <1>3, <1>4 DEF IInv, Control
<1>11. Owned'
  BY <1>1, <1>2, <1>3, <1>4, <1>6 DEF IInv, Owned, Owner, Shapes, Shaped, Attempt
<1>12. ObservationsSound'
  BY <1>1, <1>2, <1>4 DEF IInv, ObservationsSound, Shapes, Shaped, Observation
<1>13. MemoSound'
  BY <1>2 DEF IInv, MemoSound
<1>14. PointSound'
  BY <1>1, <1>2, <1>4 DEF IInv, PointSound, PointExact, PresentRows
<1>15. AttemptExact'
  BY <1>1, <1>2, <1>4 DEF IInv, Owned, Owner, AttemptExact, None, Shapes, Shaped, Attempt
<1> QED
  BY <1>5, <1>7, <1>8, <1>9, <1>10, <1>11, <1>12, <1>13, <1>14, <1>15 DEF IInv

\* What is acknowledged is captured.
LEMMA AcknowledgeKeeps ==
  ASSUME IInv, Acknowledge
  PROVE IInv'
<1>1. /\ mirror' = [mirror EXCEPT !.status = "acknowledged"]
      /\ UNCHANGED <<source, cuts, policy, cache>>
      /\ pc = "captured" /\ pc' = "idle" /\ todo' = {} /\ errors' = FALSE
      /\ mirror.status # "empty"
  BY DEF Acknowledge, MarkAcknowledged, Stop
<1>2. /\ mirror' \in Mirror /\ mirror'.status = "acknowledged"
      /\ mirror'.token = mirror.token /\ mirror'.parent = mirror.parent
      /\ mirror'.rows = mirror.rows /\ mirror'.changed = mirror.changed
      /\ mirror'.old = mirror.old /\ mirror'.policy = mirror.policy
      /\ mirror'.baseline = mirror.baseline /\ mirror'.keyed = mirror.keyed
      /\ mirror'.ancestors = mirror.ancestors
  BY <1>1 DEF IInv, Shapes, Mirror, Statuses
<1>3. Shapes'
  BY <1>1, <1>2 DEF IInv, Shapes
<1>4. Lineage' /\ DeltaExact'
  BY <1>1, <1>2 DEF IInv, Lineage, DeltaExact
<1>5. Captured' /\ Control' /\ Owned'
  BY <1>1, <1>2 DEF IInv, Captured, Control, Owned, Owner
<1>6. ObservationsSound' /\ MemoSound' /\ PointSound'
  BY <1>1, <1>2 DEF IInv, ObservationsSound, MemoSound, PointSound, PointExact, PresentRows, Tokens
<1>7. AttemptExact'
  <2>1. PresentRows(cache') = PresentRows(cache) /\ Selected(TRUE)' = Selected(TRUE)
    BY <1>1, <1>2 DEF PresentRows, Selected, Unchanged
  <2> QED BY <1>1, <1>2, <2>1 DEF IInv, AttemptExact
<1> QED BY <1>3, <1>4, <1>5, <1>6, <1>7 DEF IInv

(* Steps that change what is said of the runs ******************************)
\* A run that has started, stopped or failed is not a complete one.
LEMMA RunStep ==
  ASSUME IInv, UNCHANGED mirrorVars, NEW status, status # "complete",
         cache' = SaveRun(cache, mirror.token, status), pc \in {"covered", "extracting"},
         (pc' = "extracting" /\ UNCHANGED <<todo, errors>>) \/ Stop
  PROVE IInv'
<1>1. /\ mirror.token \in Nat /\ mirror.token # None /\ mirror.status = "prepared"
      /\ ~Complete(cache, mirror.token)
  BY DEF IInv, Shapes, Mirror, Lineage, Control
<1>2. /\ Shaped(cache') /\ SameEvidence(cache, cache')
      /\ cache'.receipts = cache.receipts /\ cache'.checkpoint = cache.checkpoint
      /\ DOMAIN cache'.run = DOMAIN cache.run \cup {mirror.token}
      /\ \A x : Complete(cache', x) <=> Complete(cache, x)
  BY <1>1, SaveRunSaves DEF IInv, Shapes
<1>3. pc' \in {"idle", "extracting"} /\ (pc' = "idle" => todo' = {}) /\ todo' \subseteq todo
      /\ errors' \in BOOLEAN
  BY DEF Stop, IInv, Shapes
<1>4. Shapes'
  BY <1>2, <1>3 DEF IInv, Shapes, mirrorVars
<1>5. Lineage' /\ DeltaExact'
  BY MirrorStays DEF IInv, mirrorVars
<1>6. Captured'
  <2>1. DOMAIN cache'.run \subseteq 1 .. mirror.token
    BY <1>1, <1>2 DEF IInv, Captured, None
  <2>2. \A t \in cache'.receipts : Complete(cache', t) /\ t <= cache'.checkpoint
    BY <1>2 DEF IInv, Captured
  <2> QED BY <1>2, <2>1, <2>2, CapturedStays DEF IInv, mirrorVars
<1>7. Control'
  BY <1>1, <1>2, <1>3 DEF IInv, Control, mirrorVars
<1>8. Owned'
  BY <1>2 DEF IInv, Owned, Owner, SameEvidence, mirrorVars
<1>9. ObservationsSound' /\ MemoSound' /\ PointSound'
  BY <1>2, EvidenceStays DEF IInv, SameEvidence, mirrorVars
<1>10. AttemptExact'
  BY <1>2, AttemptStays DEF IInv, SameEvidence, mirrorVars, Stop
<1> QED BY <1>4, <1>5, <1>6, <1>7, <1>8, <1>9, <1>10 DEF IInv

LEMMA StartKeeps ==
  ASSUME IInv, Start
  PROVE IInv'
BY RunStep DEF Start, Goto

LEMMA AbortKeeps ==
  ASSUME IInv, Abort
  PROVE IInv'
BY RunStep DEF Abort

LEMMA PartialRunKeeps ==
  ASSUME IInv, PartialRun
  PROVE IInv'
BY RunStep DEF PartialRun

\* The receipt of a captured point is made again, for the latest token there is.
LEMMA FindReceiptKeeps ==
  ASSUME IInv, FindReceipt
  PROVE IInv'
<1> DEFINE t == mirror.token
<1>1. /\ t \in Nat /\ Complete(cache, t) /\ mirror.status = "prepared"
      /\ UNCHANGED mirrorVars /\ pc' = "captured" /\ UNCHANGED <<todo, errors>>
  BY DEF FindReceipt, Goto, IInv, Shapes, Mirror, Control
<1>2. /\ Shaped(cache') /\ SameEvidence(cache, cache') /\ cache'.run = cache.run
      /\ \/ cache'.receipts = cache.receipts /\ cache'.checkpoint = cache.checkpoint
         \/ cache'.receipts = cache.receipts \cup {t} /\ cache'.checkpoint = t
  BY <1>1, CommitReceiptCommits DEF FindReceipt, SameEvidence, IInv, Shapes
<1>3. \A x : Complete(cache', x) <=> Complete(cache, x)
  BY <1>2 DEF Complete, RunOf
<1>4. Shapes'
  BY <1>1, <1>2 DEF IInv, Shapes, mirrorVars
<1>5. Lineage' /\ DeltaExact'
  BY <1>1, MirrorStays DEF IInv, mirrorVars
<1>6. Captured'
  <2>1. \A x \in cache.receipts : x \in Nat /\ x <= t
    BY <1>1 DEF IInv, Captured, Complete, RunOf
  <2>2. \A x \in cache'.receipts : Complete(cache', x) /\ x <= cache'.checkpoint
    BY <1>1, <1>2, <1>3, <2>1 DEF IInv, Captured
  <2>3. DOMAIN cache'.run \subseteq 1 .. mirror.token
    BY <1>2 DEF IInv, Captured
  <2> QED BY <1>1, <1>3, <2>2, <2>3, CapturedStays DEF IInv, mirrorVars
<1>7. Control'
  BY <1>1, <1>3 DEF IInv, Control, FindReceipt, mirrorVars
<1>8. Owned'
  BY <1>1, <1>2, <1>3 DEF IInv, Owned, Owner, SameEvidence, mirrorVars
<1>9. ObservationsSound' /\ MemoSound' /\ PointSound'
  BY <1>1, <1>2, EvidenceStays DEF IInv, SameEvidence, mirrorVars
<1>10. AttemptExact'
  BY <1>1, <1>2, AttemptStays DEF IInv, SameEvidence, mirrorVars
<1> QED BY <1>4, <1>5, <1>6, <1>7, <1>8, <1>9, <1>10 DEF IInv

\* Attempts of the point under earlier policies go; an attempt of the point itself stays.
LEMMA ValidateKeeps ==
  ASSUME IInv, Validate
  PROVE IInv'
<1>1. /\ mirror.token \in Nat /\ mirror.parent \in Nat /\ cache.attempt.token \in Nat
      /\ ~Complete(cache, mirror.token) /\ mirror.status = "prepared"
      /\ UNCHANGED mirrorVars /\ pc' = "valid" /\ UNCHANGED <<todo, errors>>
  BY DEF Validate, Goto, IInv, Shapes, Shaped, Attempt, Mirror, Control
<1>2. /\ Shaped(cache') /\ cache'.obs = cache.obs /\ cache'.unit = cache.unit
      /\ cache'.point = cache.point
      /\ cache'.attempt = IF cache.attempt.token \in mirror.ancestors THEN NoAttempt
                          ELSE cache.attempt
      /\ cache'.receipts = cache.receipts /\ cache'.checkpoint = cache.checkpoint
      /\ DOMAIN cache'.run = DOMAIN cache.run
      /\ \A x : Complete(cache', x) <=> Complete(cache, x)
  BY RetireRetires DEF Validate, IInv, Shapes
<1>3. Shapes'
  BY <1>1, <1>2 DEF IInv, Shapes, mirrorVars
<1>4. Lineage' /\ DeltaExact'
  BY <1>1, MirrorStays DEF IInv, mirrorVars
<1>5. Captured'
  BY <1>1, <1>2, CapturedStays DEF IInv, Captured, mirrorVars
<1>6. Control'
  BY <1>1, <1>2 DEF IInv, Control, mirrorVars
<1>7. Owned'
  <2>1. cache'.attempt.token \in {None, mirror.token}
    <3>1. CASE cache.attempt.token \in mirror.ancestors
      BY <1>2, <3>1 DEF NoAttempt
    <3>2. CASE cache.attempt.token \notin mirror.ancestors
      BY <1>1, <1>2, <3>2 DEF IInv, Owned, Owner, Lineage
    <3> QED BY <3>1, <3>2
  <2>2. cache'.attempt.token # None => mirror.parent < mirror.token
    BY <1>1, <2>1 DEF IInv, Lineage
  <2> QED BY <1>1, <1>2, <2>1, <2>2 DEF Owned, Owner, mirrorVars
<1>8. ObservationsSound' /\ MemoSound' /\ PointSound'
  BY <1>1, <1>2, EvidenceStays DEF IInv, mirrorVars
<1>9. AttemptExact'
  <2>1. CASE cache'.attempt = cache.attempt
    BY <1>1, <1>2, <2>1, AttemptStays DEF IInv, mirrorVars
  <2>2. CASE cache'.attempt = NoAttempt
    BY <2>2 DEF AttemptExact, NoAttempt
  <2> QED BY <1>2, <2>1, <2>2
<1> QED BY <1>3, <1>4, <1>5, <1>6, <1>7, <1>8, <1>9 DEF IInv

\* Observations and runs come back; no memo, point, attempt or receipt does.
LEMMA RestoreCacheKeeps ==
  ASSUME IInv, RestoreCache
  PROVE IInv'
<1>1. /\ UNCHANGED mirrorVars /\ UNCHANGED <<pc, todo, errors>> /\ pc = "idle"
  BY DEF RestoreCache, process
<1>2. /\ DOMAIN cache' = Tables /\ cache'.obs = cache.obs /\ cache'.run = cache.run
      /\ cache'.unit = [r \in Rows |-> NoUnit] /\ cache'.point = NoPoint
      /\ cache'.attempt = NoAttempt /\ cache'.receipts = {} /\ cache'.checkpoint = None
  BY DEF RestoreCache, EmptyCache, Tables
<1>3. Shaped(cache')
  BY <1>2 DEF IInv, Shapes, Shaped, NoUnit, NoPoint, NoAttempt, Memo, Point, Attempt, None
<1>4. Shapes'
  BY <1>1, <1>3 DEF IInv, Shapes, mirrorVars
<1>5. Lineage' /\ DeltaExact'
  BY <1>1, MirrorStays DEF IInv, mirrorVars
<1>6. \A x : Complete(cache', x) <=> Complete(cache, x)
  BY <1>2 DEF Complete, RunOf
<1>7. Captured'
  BY <1>1, <1>2, <1>6 DEF IInv, Captured, mirrorVars
<1>8. Control' /\ Owned'
  BY <1>1, <1>2 DEF IInv, Control, Owned, Owner, NoAttempt, mirrorVars
<1>9. ObservationsSound'
  BY <1>1, <1>2 DEF IInv, ObservationsSound, mirrorVars
<1>10. MemoSound'
  BY <1>2 DEF MemoSound, NoUnit
<1>11. PointSound' /\ AttemptExact'
  BY <1>2 DEF PointSound, PointExact, AttemptExact, NoPoint, NoAttempt
<1> QED BY <1>4, <1>5, <1>7, <1>8, <1>9, <1>10, <1>11 DEF IInv

(* Steps that begin, continue or disturb a capture *************************)
LEMMA RunsStay ==
  ASSUME Captured, UNCHANGED mirror, SameRuns(cache, cache')
  PROVE Captured' /\ \A x : Complete(cache', x) <=> Complete(cache, x)
<1>1. \A x : Complete(cache', x) <=> Complete(cache, x)
  BY DEF SameRuns, Complete, RunOf
<1> QED BY <1>1 DEF Captured, SameRuns

\* What a step of an attempt, which leaves mirror and runs alone, has still to show.
LEMMA CaptureStep ==
  ASSUME IInv, UNCHANGED mirrorVars, Shaped(cache'), SameRuns(cache, cache'),
         pc \in {"valid", "extracting"}, pc' \in {"valid", "covered", "extracting"},
         todo' \subseteq Present(mirror.rows), errors' \in BOOLEAN,
         cache'.attempt.token \in {None, mirror.token},
         ObservationsSound', MemoSound', PointSound', AttemptExact'
  PROVE IInv'
<1>1. Shapes'
  BY DEF IInv, Shapes, mirrorVars, Present
<1>2. Lineage' /\ DeltaExact'
  BY MirrorStays DEF IInv, mirrorVars
<1>3. Captured' /\ \A x : Complete(cache', x) <=> Complete(cache, x)
  BY RunsStay DEF IInv, mirrorVars
<1>4. Control'
  BY <1>3 DEF IInv, Control, mirrorVars
<1>5. Owned'
  <2>1. ~Complete(cache, mirror.token)
    BY DEF IInv, Control
  <2>2. mirror.token \in Nat /\ (mirror.token # None => mirror.parent < mirror.token)
    BY DEF IInv, Shapes, Mirror, Lineage
  <2> QED BY <1>3, <2>1, <2>2 DEF Owned, Owner, mirrorVars
<1> QED BY <1>1, <1>2, <1>3, <1>4, <1>5 DEF IInv

\* Another writer interferes with whatever is current.
LEMMA OtherWriterKeeps ==
  ASSUME IInv, OtherWriter
  PROVE IInv'
<1> DEFINE Written(r) ==
             {NoRow} \cup {[policy |-> policy, value |-> v, present |-> TRUE,
                           seen |-> cache.obs[r].seen] : v \in Values}
<1>0. PICK r \in Rows : \E o \in Written(r) :
        Semantic(cache, r, o) /\ cache' = Observe(cache, r, o)
  BY DEF OtherWriter
<1>1. PICK o \in Written(r) : Semantic(cache, r, o) /\ cache' = Observe(cache, r, o)
  BY <1>0
<1>2. /\ pc \in {"valid", "extracting"} /\ UNCHANGED <<pc, todo, errors>>
      /\ UNCHANGED mirrorVars /\ mirror.token \in Nat
  BY DEF OtherWriter, process, IInv, Shapes, Mirror
<1>3. cache.obs[r] \in Observation /\ cache.obs[r].seen <= mirror.token
  BY DEF IInv, Shapes, Shaped, ObservationsSound
<1>4. o \in Observation /\ o.seen <= mirror.token /\ (o.present => o.value # Absent)
  <2>1. CASE o = NoRow
    BY <1>2, <2>1 DEF NoRow, Observation, None
  <2>2. CASE o # NoRow
    <3>1. PICK v \in Values : o = [policy |-> policy, value |-> v, present |-> TRUE,
                                   seen |-> cache.obs[r].seen]
      BY <2>2
    <3> QED BY <1>3, <3>1, MirrorAssumption DEF Observation, IInv, Shapes
  <2> QED BY <2>1, <2>2
<1>5. /\ Shaped(cache') /\ SameRuns(cache, cache')
      /\ cache'.obs = [cache.obs EXCEPT ![r] = o]
      /\ cache'.unit = [cache.unit EXCEPT ![r].valid = FALSE]
      /\ cache'.point = [cache.point EXCEPT !.current = FALSE]
      /\ cache'.attempt = [cache.attempt EXCEPT !.current = FALSE]
  BY <1>1, <1>4, ObserveWrites DEF IInv, Shapes
<1>6. ~cache'.point.current /\ ~cache'.attempt.current
      /\ cache'.attempt.token = cache.attempt.token
  BY <1>5 DEF IInv, Shapes, Shaped, Point, Attempt
<1>7. ObservationsSound'
  BY <1>2, <1>4, <1>5 DEF IInv, ObservationsSound, Shapes, Shaped, mirrorVars
<1>8. MemoSound'
  BY <1>5 DEF IInv, MemoSound, Shapes, Shaped, Memo
<1>9. PointSound' /\ AttemptExact'
  BY <1>6 DEF PointSound, PointExact, AttemptExact
<1>10. cache'.attempt.token \in {None, mirror.token} /\ todo \subseteq Present(mirror.rows)
       /\ errors \in BOOLEAN
  BY <1>2, <1>6 DEF IInv, Owned, Owner, Control, Shapes
<1> QED BY <1>2, <1>5, <1>7, <1>8, <1>9, <1>10, CaptureStep

\* A capture begins or goes on with the evidence as it is.
LEMMA CoverStep ==
  ASSUME IInv, pc = "valid", NEW c, NEW rows, Cover(c, rows), Begins(cache, c),
         c.attempt.token = mirror.token, rows \subseteq Present(mirror.rows), AttemptExact'
  PROVE IInv'
<1>1. /\ cache' = c /\ todo' = rows /\ pc' = "covered" /\ UNCHANGED <<errors, mirrorVars>>
      /\ errors \in BOOLEAN
  BY DEF Cover, IInv, Shapes
<1>2. ObservationsSound' /\ MemoSound' /\ PointSound'
  BY <1>1, EvidenceStays DEF IInv, Begins, mirrorVars
<1> QED BY <1>1, <1>2, CaptureStep DEF Begins

LEMMA CoverFullKeeps ==
  ASSUME IInv, CoverFull
  PROVE IInv'
<1>1. pc = "valid" /\ Shaped(cache) /\ Present(mirror.rows) \subseteq Rows
  BY DEF CoverFull, IInv, Shapes, Present
<1>2. CASE Cover(BeginFull(cache), Present(mirror.rows))
  <2> DEFINE a == [token |-> mirror.token, full |-> TRUE, current |-> TRUE,
                   withdrawn |-> PresentRows(cache), retained |-> {}, staged |-> {}]
  <2>1. Begins(cache, BeginFull(cache)) /\ BeginFull(cache).attempt = a
    BY <1>1, BeginFullBegins DEF IInv
  <2>2. AttemptExact'
    <3>1. cache'.attempt = a /\ UNCHANGED mirror /\ todo' = Present(mirror.rows)
          /\ cache'.obs = cache.obs
      BY <1>2, <2>1 DEF Cover, Begins, mirrorVars
    <3>2. PresentRows(cache') = PresentRows(cache)
      BY <3>1 DEF PresentRows
    <3> QED BY <3>1, <3>2 DEF AttemptExact
  <2> QED BY <1>1, <1>2, <2>1, <2>2, CoverStep
<1>3. CASE Resumed /\ cache.attempt.full /\ Cover(cache, Present(mirror.rows))
  <2>1. Begins(cache, cache) /\ cache.attempt.token = mirror.token
    BY <1>1, <1>3 DEF Begins, SameRuns, Resumed, Owner
  <2>2. AttemptExact'
    <3>1. UNCHANGED <<cache, mirror>> /\ todo' = Present(mirror.rows)
      BY <1>3 DEF Cover, mirrorVars
    <3>2. PresentRows(cache') = PresentRows(cache) /\ Selected(TRUE)' = Selected(TRUE)
      BY <3>1 DEF PresentRows, Selected, Unchanged
    <3> QED BY <3>1, <3>2 DEF IInv, AttemptExact
  <2> QED BY <1>1, <1>3, <2>1, <2>2, CoverStep
<1> QED BY <1>2, <1>3 DEF CoverFull

\* What a selective capture may retain, and what it then has to read: the point its parent
\* left in the cache and the rows that changed since account for the whole mirror.
LEMMA SelectionExact ==
  ASSUME IInv, ~mirror.baseline, CanSelect(cache)
  PROVE LET retained == cache.point.rows \ Withdrawn(cache) IN
        /\ PresentRows(cache) \subseteq Withdrawn(cache) \cup retained
        /\ retained \subseteq Present(mirror.rows)
        /\ Present(mirror.rows) \subseteq retained \cup Selected(FALSE)
        /\ \A r \in retained : cache.obs[r].present /\ cache.obs[r].value = mirror.rows[r]
                               /\ cache.obs[r].policy = mirror.policy
<1> DEFINE p == mirror.parent
           retained == cache.point.rows \ Withdrawn(cache)
<1>1. cache.point.current /\ cache.point.token = p /\ p \in 1 .. mirror.token
  BY DEF CanSelect, IInv, PointSound
<1>2. /\ cache.point.rows = Present(cuts[p].rows) /\ PresentRows(cache) = cache.point.rows
      /\ \A r \in cache.point.rows : cache.obs[r].value = cuts[p].rows[r]
                                     /\ cache.obs[r].policy = cuts[p].policy
  BY <1>1 DEF IInv, PointSound, PointExact
<1>3. /\ cuts[p].policy = mirror.policy
      /\ mirror.changed = {r \in Rows : cuts[p].rows[r] # mirror.rows[r]}
      /\ mirror.old = mirror.changed \cap Present(cuts[p].rows)
  BY <1>1 DEF IInv, DeltaExact, None
<1>4. \A r \in retained : r \in Rows /\ r \notin mirror.changed
  <2> SUFFICES ASSUME NEW r \in retained PROVE r \in Rows /\ r \notin mirror.changed
    OBVIOUS
  <2>1. r \in Rows /\ r \in Present(cuts[p].rows) /\ r \in PresentRows(cache)
    BY <1>2 DEF Present
  <2>2. CASE r \in Headers
    BY <2>1, <2>2 DEF Withdrawn, HeadersWithdrawn, Unchanged
  <2>3. CASE r \notin Headers
    BY <1>3, <2>1, <2>3 DEF Withdrawn
  <2> QED BY <2>1, <2>2, <2>3
<1>5. \A r \in retained : mirror.rows[r] = cuts[p].rows[r] /\ r \in Present(cuts[p].rows)
  BY <1>2, <1>3, <1>4
<1>6. retained \subseteq Present(mirror.rows)
  BY <1>4, <1>5 DEF Present
<1>7. Present(mirror.rows) \subseteq retained \cup Selected(FALSE)
  <2> SUFFICES ASSUME NEW r \in Present(mirror.rows), r \notin Selected(FALSE)
               PROVE r \in retained
    OBVIOUS
  <2>1. r \in Rows /\ r \notin mirror.changed
        /\ (r \in Headers /\ ~mirror.keyed => mirror.changed = {})
    BY DEF Selected, Unchanged, Present
  <2>2. r \in Present(cuts[p].rows)
    BY <1>3, <2>1 DEF Present
  <2>3. r \notin Withdrawn(cache)
    BY <1>3, <2>1 DEF Withdrawn, HeadersWithdrawn, Unchanged
  <2> QED BY <1>2, <2>2, <2>3
<1>8. \A r \in retained : cache.obs[r].present
  BY <1>2 DEF PresentRows
<1> QED BY <1>2, <1>3, <1>5, <1>6, <1>7, <1>8

LEMMA CoverSelectiveKeeps ==
  ASSUME IInv, CoverSelective
  PROVE IInv'
<1>1. pc = "valid" /\ ~mirror.baseline /\ Shaped(cache)
  BY DEF CoverSelective, IInv, Shapes
<1>2. /\ Selected(FALSE) \subseteq Selected(TRUE)
      /\ Selected(TRUE) \subseteq Present(mirror.rows)
  BY DEF Selected
<1>3. CASE CanSelect(cache) /\ Cover(BeginSelective(cache), Selected(FALSE))
  <2> DEFINE retained == cache.point.rows \ Withdrawn(cache)
             a == [token |-> mirror.token, full |-> FALSE, current |-> TRUE,
                   withdrawn |-> Withdrawn(cache), retained |-> retained, staged |-> {}]
  <2>1. Begins(cache, BeginSelective(cache)) /\ BeginSelective(cache).attempt = a
    BY <1>1, BeginSelectiveBegins DEF IInv
  <2>2. /\ PresentRows(cache) \subseteq Withdrawn(cache) \cup retained
        /\ retained \subseteq Present(mirror.rows)
        /\ Present(mirror.rows) \subseteq retained \cup Selected(FALSE)
        /\ \A r \in retained : cache.obs[r].present /\ cache.obs[r].value = mirror.rows[r]
                               /\ cache.obs[r].policy = mirror.policy
    BY <1>1, <1>3, SelectionExact
  <2>3. AttemptExact'
    <3>1. cache'.attempt = a /\ UNCHANGED mirror /\ todo' = Selected(FALSE)
          /\ cache'.obs = cache.obs
      BY <1>3, <2>1 DEF Cover, Begins, mirrorVars
    <3> HIDE DEF retained
    <3>2. PresentRows(cache') = PresentRows(cache) /\ Selected(TRUE)' = Selected(TRUE)
      BY <3>1 DEF PresentRows, Selected, Unchanged
    <3>3. /\ cache'.attempt.withdrawn = Withdrawn(cache)
          /\ cache'.attempt.retained = retained /\ cache'.attempt.staged = {}
      BY <3>1
    <3>4. mirror'.rows = mirror.rows /\ mirror'.policy = mirror.policy
      BY <3>1
    <3>5. Present(mirror.rows) \subseteq retained \cup Selected(TRUE)
          /\ Present(mirror.rows) \subseteq retained \cup todo'
      BY <1>2, <2>2, <3>1
    <3>6. \A r \in retained : cache'.obs[r].present /\ cache'.obs[r].value = mirror.rows[r]
                            /\ cache'.obs[r].policy = mirror.policy
      BY <2>2, <3>1
    <3> QED BY <2>2, <3>2, <3>3, <3>4, <3>5, <3>6 DEF AttemptExact
  <2>4. BeginSelective(cache).attempt.token = mirror.token
    BY <2>1
  <2> QED BY <1>1, <1>2, <1>3, <2>1, <2>3, <2>4, CoverStep
<1>4. CASE Resumed /\ ~cache.attempt.full /\ Cover(cache, Selected(TRUE))
  <2>1. Begins(cache, cache) /\ cache.attempt.token = mirror.token
    BY <1>1, <1>4 DEF Begins, SameRuns, Resumed, Owner
  <2>2. AttemptExact'
    <3>1. UNCHANGED <<cache, mirror>> /\ todo' = Selected(TRUE)
      BY <1>4 DEF Cover, mirrorVars
    <3>2. PresentRows(cache') = PresentRows(cache) /\ Selected(TRUE)' = Selected(TRUE)
      BY <3>1 DEF PresentRows, Selected, Unchanged
    <3> QED BY <1>4, <3>1, <3>2 DEF IInv, AttemptExact
  <2> QED BY <1>1, <1>2, <1>4, <2>1, <2>2, CoverStep
<1> QED BY <1>3, <1>4 DEF CoverSelective

\* A row that is extracted is as the mirror has it, whether its memo stood or not.
LEMMA ExtractKeeps ==
  ASSUME IInv, NEW r \in Rows, Extract(r)
  PROVE IInv'
<1> DEFINE a == cache.attempt
           t == mirror.token
<1>1. /\ pc = "extracting" /\ r \in todo /\ a.token = t /\ a.current
      /\ cache' = ExtractRow(cache, r) /\ todo' = todo \ {r}
      /\ UNCHANGED mirrorVars /\ UNCHANGED <<pc, errors>>
  BY DEF Extract, Flush
<1>2. /\ t \in Nat /\ Shaped(cache) /\ todo \subseteq Present(mirror.rows) /\ errors \in BOOLEAN
      /\ r \in Present(mirror.rows)
  BY <1>1 DEF IInv, Shapes, Mirror, Control
<1>3. /\ Extracted(cache, cache', r)
      /\ cache'.attempt = [a EXCEPT !.staged = @ \cup {r}, !.current = TRUE]
  <2>1. MemoOf(cache, r)
    BY DEF IInv, MemoSound, MemoOf
  <2> QED BY <1>1, <1>2, <2>1, ExtractRowExtracts DEF IInv
<1>4. /\ cache'.attempt.token = t /\ cache'.attempt.staged = a.staged \cup {r}
      /\ cache'.attempt.withdrawn = a.withdrawn /\ cache'.attempt.retained = a.retained
      /\ cache'.attempt.full = a.full
  BY <1>1, <1>2, <1>3 DEF Shaped, Attempt
<1>5. /\ Shaped(cache') /\ SameRuns(cache, cache') /\ cache'.obs[r] = Mirrored(r)
      /\ \A x \in Rows \ {r} : cache'.obs[x] = cache.obs[x] /\ cache'.unit[x] = cache.unit[x]
      /\ MemoOf(cache', r)
  BY <1>2, <1>3 DEF Extracted, Shaped
<1>6. /\ Mirrored(r).present = TRUE /\ Mirrored(r).seen = t
      /\ Mirrored(r).value = mirror.rows[r] /\ Mirrored(r).policy = mirror.policy
      /\ mirror.rows[r] # Absent
  BY <1>2 DEF Mirrored, Present
<1>7. ObservationsSound'
  BY <1>1, <1>2, <1>5, <1>6 DEF IInv, ObservationsSound, mirrorVars
<1>8. MemoSound'
  BY <1>5 DEF IInv, MemoSound, MemoOf
<1>9. PointSound'
  <2>1. CASE ~cache'.point.current
    BY <2>1 DEF PointSound, PointExact
  <2>2. CASE cache'.point = cache.point /\ Content(cache.obs[r]) = Content(Mirrored(r))
    <3> SUFFICES ASSUME cache.point.current PROVE PointSound'
      BY <2>2 DEF PointSound, PointExact
    <3> DEFINE p == cache.point.token
    <3>1. /\ p \in 1 .. t /\ cache.point.rows = Present(cuts[p].rows)
          /\ PresentRows(cache) = cache.point.rows
          /\ \A x \in cache.point.rows :
               /\ cache.obs[x].value = cuts[p].rows[x] /\ cache.obs[x].policy = cuts[p].policy
               /\ cache.obs[x].seen >= p
      BY DEF IInv, PointSound, PointExact
    <3>2. /\ cache'.obs[r].policy = cache.obs[r].policy
          /\ cache'.obs[r].value = cache.obs[r].value
          /\ cache'.obs[r].present = cache.obs[r].present /\ cache'.obs[r].seen >= p
      BY <1>2, <1>5, <1>6, <2>2, <3>1 DEF Content
    <3>3. PresentRows(cache') = PresentRows(cache)
      BY <1>5, <3>2 DEF PresentRows
    <3>4. \A x \in cache.point.rows : x \in Rows
      BY <3>1 DEF PresentRows
    <3>5. \A x \in cache.point.rows :
            /\ cache'.obs[x].value = cuts[p].rows[x] /\ cache'.obs[x].policy = cuts[p].policy
            /\ cache'.obs[x].seen >= p
      BY <1>5, <3>1, <3>2, <3>4
    <3> QED BY <1>1, <2>2, <3>1, <3>3, <3>5 DEF PointSound, PointExact, mirrorVars
  <2> QED BY <1>3, <2>1, <2>2 DEF Extracted
<1>10. AttemptExact'
  <2>1. /\ PresentRows(cache) \subseteq a.withdrawn \cup a.retained \cup a.staged
        /\ a.retained \cup a.staged \subseteq Present(mirror.rows)
        /\ ~a.full => Present(mirror.rows) \subseteq a.retained \cup Selected(TRUE)
        /\ Present(mirror.rows) \subseteq a.retained \cup a.staged \cup todo \/ errors
        /\ \A x \in a.retained \cup a.staged :
             cache.obs[x].present /\ cache.obs[x].value = mirror.rows[x]
             /\ cache.obs[x].policy = mirror.policy
        /\ \A x \in a.staged : cache.obs[x].seen = mirror.token
    BY <1>1 DEF IInv, AttemptExact
  <2>2. Selected(TRUE)' = Selected(TRUE) /\ UNCHANGED mirror
    BY <1>1 DEF Selected, Unchanged, mirrorVars
  <2>3. PresentRows(cache') \subseteq PresentRows(cache) \cup {r}
    BY <1>5 DEF PresentRows
  <2>4. \A x \in a.retained \cup a.staged : x \in Rows
    BY <2>1 DEF Present
  <2>5. \A x \in a.retained \cup a.staged \cup {r} :
          cache'.obs[x].present /\ cache'.obs[x].value = mirror.rows[x]
          /\ cache'.obs[x].policy = mirror.policy
    BY <1>5, <1>6, <2>1, <2>4
  <2>6. \A x \in a.staged \cup {r} : cache'.obs[x].seen = mirror.token
    BY <1>5, <1>6, <2>1, <2>4
  <2>7. Present(mirror.rows) \subseteq a.retained \cup (a.staged \cup {r}) \cup todo'
        \/ errors'
    BY <1>1, <2>1
  <2> QED BY <1>2, <1>4, <2>1, <2>2, <2>3, <2>5, <2>6, <2>7 DEF AttemptExact
<1> QED
  <2>1. todo' \subseteq Present(mirror.rows) /\ errors' \in BOOLEAN
    BY <1>1, <1>2
  <2> QED BY <1>1, <1>4, <1>5, <1>7, <1>8, <1>9, <1>10, <2>1, CaptureStep

\* A row that could not be extracted is not accounted for, and the run will say so.
LEMMA ExtractFailsKeeps ==
  ASSUME IInv, NEW r \in Rows, ExtractFails(r)
  PROVE IInv'
<1>1. /\ pc = "extracting" /\ cache.attempt.token = mirror.token /\ cache.attempt.current
      /\ cache' = FailRow(cache, r) /\ todo' = todo \ {r} /\ errors' = TRUE
      /\ UNCHANGED mirrorVars /\ UNCHANGED pc
  BY DEF ExtractFails, Flush
<1>2. /\ Shaped(cache) /\ todo \subseteq Present(mirror.rows)
  BY DEF IInv, Shapes, Control
<1>3. /\ Shaped(cache') /\ SameRuns(cache, cache') /\ cache'.obs = cache.obs
      /\ cache'.point = cache.point /\ cache'.unit = [cache.unit EXCEPT ![r] = NoUnit]
      /\ cache'.attempt = [cache.attempt EXCEPT !.current = TRUE]
  BY <1>1, <1>2, FailRowFails
<1>4. cache'.attempt = cache.attempt
  BY <1>1, <1>2, <1>3 DEF Shaped, Attempt
<1>5. ObservationsSound'
  BY <1>1, <1>3 DEF IInv, ObservationsSound, mirrorVars
<1>6. MemoSound'
  BY <1>2, <1>3 DEF IInv, MemoSound, NoUnit, Shaped
<1>7. PointSound'
  BY <1>1, <1>3 DEF IInv, PointSound, PointExact, PresentRows, mirrorVars, Tokens
<1>8. AttemptExact'
  <2>1. PresentRows(cache') = PresentRows(cache) /\ Selected(TRUE)' = Selected(TRUE)
    BY <1>1, <1>3 DEF PresentRows, Selected, Unchanged, mirrorVars
  <2>2. UNCHANGED mirror /\ cache'.obs = cache.obs /\ cache'.attempt = cache.attempt
    BY <1>1, <1>3, <1>4 DEF mirrorVars
  <2> DEFINE a == cache.attempt
  <2>3. /\ PresentRows(cache) \subseteq a.withdrawn \cup a.retained \cup a.staged
        /\ a.retained \cup a.staged \subseteq Present(mirror.rows)
        /\ ~a.full => Present(mirror.rows) \subseteq a.retained \cup Selected(TRUE)
        /\ \A x \in a.retained \cup a.staged :
             cache.obs[x].present /\ cache.obs[x].value = mirror.rows[x]
             /\ cache.obs[x].policy = mirror.policy
        /\ \A x \in a.staged : cache.obs[x].seen = mirror.token
    BY <1>1 DEF IInv, AttemptExact
  <2> QED BY <1>1, <2>1, <2>2, <2>3 DEF AttemptExact
<1> QED
  BY <1>1, <1>2, <1>3, <1>4, <1>5, <1>6, <1>7, <1>8, CaptureStep

\* When nothing is left to read and nothing failed, what the attempt accounts for is what
\* the mirror has, and the cache is left with exactly that.
LEMMA CompleteRunKeeps ==
  ASSUME IInv, CompleteRun
  PROVE IInv'
<1> DEFINE a == cache.attempt
           t == mirror.token
           seen == a.retained \cup a.staged
           gone == a.withdrawn \ seen
           f == Finish(cache)
           s == SaveRun(f, t, "complete")
<1>1. /\ pc = "extracting" /\ todo = {} /\ ~errors /\ a.token = t /\ a.current
      /\ mirror.status = "prepared" /\ cache' = CommitReceipt(s, t)
      /\ pc' = "captured" /\ UNCHANGED <<todo, errors>> /\ UNCHANGED mirrorVars
  BY DEF CompleteRun, Completable, Goto
<1>2. t \in Nat /\ t # None /\ Shaped(cache)
  BY <1>1 DEF IInv, Shapes, Mirror, Lineage
<1>3. /\ Shaped(f) /\ SameRuns(cache, f) /\ f.attempt = NoAttempt
      /\ f.point = [token |-> t, current |-> TRUE, rows |-> seen]
      /\ \A r \in Rows :
           /\ f.obs[r].policy = cache.obs[r].policy /\ f.obs[r].value = cache.obs[r].value
           /\ f.obs[r].present = (cache.obs[r].present /\ r \notin gone)
           /\ f.obs[r].seen \in {t, cache.obs[r].seen}
           /\ r \in a.retained => f.obs[r].seen = t
           /\ f.unit[r].policy = cache.unit[r].policy
           /\ f.unit[r].value = cache.unit[r].value
           /\ f.unit[r].valid => cache.unit[r].valid /\ ~(r \in gone /\ cache.obs[r].present)
  BY <1>2, FinishFinishes DEF IInv
<1> HIDE DEF f
<1>4. /\ Shaped(s) /\ SameEvidence(f, s) /\ s.receipts = cache.receipts
      /\ DOMAIN s.run = DOMAIN cache.run \cup {t}
      /\ \A x : Complete(s, x) <=> x = t \/ Complete(cache, x)
  <2>1. /\ Shaped(s) /\ SameEvidence(f, s) /\ s.receipts = f.receipts
        /\ DOMAIN s.run = DOMAIN f.run \cup {t}
        /\ \A x : Complete(s, x) <=> IF x = t THEN "complete" = "complete" ELSE Complete(f, x)
    BY <1>2, <1>3, SaveRunSaves
  <2>2. \A x : Complete(f, x) <=> Complete(cache, x)
    BY <1>3 DEF SameRuns, Complete, RunOf
  <2> QED BY <1>3, <2>1, <2>2 DEF SameRuns
<1> HIDE DEF s
<1>5. /\ Shaped(cache') /\ SameEvidence(f, cache') /\ cache'.run = s.run
      /\ cache'.receipts = cache.receipts \cup {t} /\ cache'.checkpoint = t
      /\ \A x : Complete(cache', x) <=> x = t \/ Complete(cache, x)
  <2>1. /\ Shaped(cache') /\ SameEvidence(s, cache') /\ cache'.run = s.run
        /\ cache'.receipts = s.receipts \cup {t} /\ cache'.checkpoint = t
    BY <1>1, <1>2, <1>4, CommitReceiptCommits
  <2> QED BY <1>4, <2>1 DEF SameEvidence, Complete, RunOf
<1>6. Shapes'
  BY <1>1, <1>5 DEF IInv, Shapes, mirrorVars
<1>7. Lineage' /\ DeltaExact'
  BY <1>1, MirrorStays DEF IInv, mirrorVars
<1>8. Captured'
  <2>1. DOMAIN cache'.run \subseteq 1 .. t
    BY <1>2, <1>4, <1>5 DEF IInv, Captured, None
  <2>2. \A x \in mirror.ancestors : x # t
    BY <1>2 DEF IInv, Lineage, Shapes, Mirror
  <2>3. \A x \in cache.receipts : Complete(cache, x) /\ x \in Nat /\ x <= t
    BY <1>2 DEF IInv, Captured, Complete, RunOf
  <2>4. \A x \in cache'.receipts : Complete(cache', x) /\ x <= cache'.checkpoint
    BY <1>2, <1>5, <2>3
  <2> QED BY <1>1, <1>5, <2>1, <2>2, <2>4, CapturedStays DEF IInv, mirrorVars
<1>9. Control'
  BY <1>1, <1>5 DEF IInv, Control, mirrorVars
<1>10. cache'.attempt = NoAttempt /\ Owned' /\ AttemptExact'
  BY <1>1, <1>3, <1>5 DEF SameEvidence, NoAttempt, Owned, Owner, AttemptExact
<1>11. /\ PresentRows(cache) \subseteq a.withdrawn \cup seen
       /\ seen = Present(mirror.rows)
       /\ \A r \in seen : cache.obs[r].present /\ cache.obs[r].value = mirror.rows[r]
                          /\ cache.obs[r].policy = mirror.policy
       /\ \A r \in a.staged : cache.obs[r].seen = t
  BY <1>1 DEF IInv, AttemptExact
<1>12. /\ cache'.obs = f.obs /\ cache'.unit = f.unit
       /\ cache'.point = [token |-> t, current |-> TRUE, rows |-> seen]
  BY <1>3, <1>5 DEF SameEvidence
<1>13. cache.obs \in [Rows -> Observation]
  BY <1>2 DEF Shaped
<1> HIDE DEF gone
<1>14. ObservationsSound'
  <2> SUFFICES ASSUME NEW r \in Rows
               PROVE (f.obs[r].present => f.obs[r].value # Absent) /\ f.obs[r].seen <= t
    BY <1>1, <1>12 DEF ObservationsSound, mirrorVars
  <2>1. (cache.obs[r].present => cache.obs[r].value # Absent) /\ cache.obs[r].seen <= t
    BY DEF IInv, ObservationsSound
  <2>2. f.obs[r].value = cache.obs[r].value /\ f.obs[r].seen \in {t, cache.obs[r].seen}
        /\ (f.obs[r].present => cache.obs[r].present)
    BY <1>3
  <2> QED BY <1>2, <2>1, <2>2
<1>15. MemoSound'
  <2> SUFFICES ASSUME NEW r \in Rows, f.unit[r].valid
               PROVE /\ f.obs[r].present /\ f.obs[r].policy = f.unit[r].policy
                     /\ f.obs[r].value = f.unit[r].value
    BY <1>12 DEF MemoSound
  <2>1. cache.unit[r].valid /\ ~(r \in gone /\ cache.obs[r].present)
    BY <1>3
  <2>2. /\ cache.obs[r].present /\ cache.obs[r].policy = cache.unit[r].policy
        /\ cache.obs[r].value = cache.unit[r].value
    BY <2>1 DEF IInv, MemoSound
  <2> QED BY <1>3, <2>1, <2>2
<1>16. PointSound'
  <2>1. PresentRows(cache') = seen
    <3>1. \A r \in Rows : f.obs[r].present <=> r \in seen
      <4> SUFFICES ASSUME NEW r \in Rows PROVE f.obs[r].present <=> r \in seen
        OBVIOUS
      <4>1. f.obs[r].present <=> cache.obs[r].present /\ r \notin gone
        BY <1>3
      <4>2. cache.obs[r].present => r \in a.withdrawn \/ r \in seen
        BY <1>11 DEF PresentRows
      <4>3. r \in gone <=> r \in a.withdrawn /\ r \notin seen
        BY DEF gone
      <4>4. r \in seen => cache.obs[r].present
        BY <1>11
      <4> HIDE DEF seen
      <4> QED BY <4>1, <4>2, <4>3, <4>4
    <3>2. seen \subseteq Rows
      BY <1>11 DEF Present
    <3> HIDE DEF seen
    <3> QED BY <1>12, <3>1, <3>2 DEF PresentRows
  <2>2. cuts[t].rows = mirror.rows /\ cuts[t].policy = mirror.policy
    BY <1>2 DEF IInv, Lineage
  <2>3. \A r \in seen : f.obs[r].seen = t
    <3> SUFFICES ASSUME NEW r \in seen PROVE f.obs[r].seen = t
      OBVIOUS
    <3>1. r \in Rows
      BY <1>11 DEF Present
    <3>2. CASE r \in a.retained
      BY <1>3, <3>1, <3>2
    <3>3. CASE r \in a.staged
      BY <1>3, <1>11, <3>1, <3>3
    <3> QED BY <3>2, <3>3
  <2>4. \A r \in seen : f.obs[r].value = cuts[t].rows[r] /\ f.obs[r].policy = cuts[t].policy
    <3>1. \A r \in seen : r \in Rows
      BY <1>11 DEF Present
    <3> QED BY <1>3, <1>11, <2>2, <3>1
  <2>5. t \in 1 .. t /\ t >= t
    BY <1>2 DEF None
  <2> HIDE DEF seen
  <2> QED
    BY <1>1, <1>11, <1>12, <2>1, <2>2, <2>3, <2>4, <2>5 DEF PointSound, PointExact, mirrorVars
<1> QED
  BY <1>6, <1>7, <1>8, <1>9, <1>10, <1>14, <1>15, <1>16 DEF IInv

(* The invariant and what follows from it **********************************)
LEMMA Inductive ==
  ASSUME IInv, [Next]_vars
  PROVE IInv'
<1>1. CASE UNCHANGED vars
  <2>1. UNCHANGED <<mirror, cuts, cache, source, policy, pc, todo, errors>>
    BY <1>1 DEF vars, mirrorVars, process
  <2>2. Shapes' /\ Captured' /\ Control' /\ Owned'
    BY <2>1 DEF IInv, Shapes, Captured, Control, Owned, Owner
  <2> QED BY <2>1, <2>2, MirrorStays, EvidenceStays, AttemptStays DEF IInv
<1>2. CASE Next
  BY <1>2, TakePendingKeeps, FindReceiptKeeps, RecoverKeeps, ValidateKeeps, CoverFullKeeps,
     CoverSelectiveKeeps, StartKeeps, ExtractKeeps, ExtractFailsKeeps, AbortKeeps,
     CompleteRunKeeps, RefuseCompletionKeeps, PartialRunKeeps, AcknowledgeKeeps, NewPointKeeps, EditKeeps,
     InstallKeeps, CrashKeeps, OtherWriterKeeps, RestoreCacheKeeps
     DEF Next, Collect
<1> QED BY <1>1, <1>2

\* At every moment of every behaviour the parts of IInv hold together.
THEOREM Invariant == Spec => []IInv
<1>1. Init => IInv
  BY InitInvariant
<1>2. IInv /\ [Next]_vars => IInv'
  BY Inductive
<1> QED BY <1>1, <1>2, PTL DEF Spec

\* The source, the mirror file, the cache and the collector hold what their types say: a
\* present observation has a content, receipts are of runs, and what is still to be
\* extracted is in the mirror (native_mirror.py, capture_coverage.py).
THEOREM TypeCorrect == Spec => []TypeOK
<1>1. IInv => TypeOK
  <2> SUFFICES ASSUME IInv PROVE TypeOK
    OBVIOUS
  <2>1. Tokens = 1 .. mirror.token /\ mirror.token \in Nat
    BY FreshToken DEF IInv
  <2>2. {mirror.token, mirror.parent} \subseteq Tokens \cup {None}
    BY <2>1 DEF IInv, Shapes, Mirror, Lineage, None
  <2>3. \A r \in Rows : cache.obs[r] \in SomeRow
    <3> SUFFICES ASSUME NEW r \in Rows PROVE cache.obs[r] \in SomeRow
      OBVIOUS
    <3>1. cache.obs[r] \in Observation /\ cache.obs[r].seen <= mirror.token
      BY DEF IInv, Shapes, Shaped, ObservationsSound
    <3>2. cache.obs[r].seen \in Tokens \cup {None}
      BY <2>1, <3>1 DEF Observation, None
    <3> QED BY <3>1, <3>2 DEF Observation, SomeRow
  <2>4. cache.receipts \subseteq DOMAIN cache.run
    BY DEF IInv, Captured, Complete, RunOf
  <2> QED BY <2>1, <2>2, <2>3, <2>4
          DEF TypeOK, IInv, Shapes, Mirror, DeltaExact, Captured, Control, ObservationsSound
<1> QED BY <1>1, Invariant, PTL

\* A coverage point nobody interfered with says exactly what the cache holds: the rows of
\* its cut with their contents and policy, sighted there or later, and nothing else
\* (capture_coverage.py, finish).
THEOREM PointsAreExact == Spec => []PointExact
<1>1. IInv => PointExact
  BY DEF IInv, PointSound
<1> QED BY <1>1, Invariant, PTL

\* A valid memo describes the observation the cache holds, whoever wrote it last: sighting
\* a row from memory never hides a change (extraction.py).
THEOREM MemoIsSound == Spec => []MemoSound
<1>1. IInv => MemoSound
  BY DEF IInv
<1> QED BY <1>1, Invariant, PTL

\* The mirror lets a point go, and takes it as a parent, only when the cache has it whole,
\* and receipts and checkpoint are of points the cache has (prepared_sync.py).
THEOREM NothingIsLost == Spec => []NothingLost
<1>1. IInv => NothingLost
  BY DEF IInv, Captured, NothingLost
<1> QED BY <1>1, Invariant, PTL

\* A point recovered under a new policy never completes under its old one, and an attempt
\* of another point is gone before it could be resumed (_retire_recovered_attempts).
THEOREM SupersededIsRetired == Spec => []SupersededStaysRetired
<1>1. IInv => SupersededStaysRetired
  BY DEF IInv, Captured, Owned, SupersededStaysRetired
<1> QED BY <1>1, Invariant, PTL

\* A capture nobody interfered with, full or selective, first or resumed, accounts for
\* exactly the mirror's rows with what it retains, has staged and has still to read
\* (unit_coverage.py, retained and reconcile).
THEOREM SelectionIsComplete == Spec => []SelectionComplete
<1>1. IInv => SelectionComplete
  <2> SUFFICES ASSUME IInv, cache.attempt.token = mirror.token, cache.attempt.current,
                      pc = "extracting"
               PROVE  LET a == cache.attempt IN
                      /\ a.retained \cup a.staged \cup todo = Present(mirror.rows) \/ errors
                      /\ \A r \in a.retained \cup a.staged :
                           cache.obs[r].value = mirror.rows[r]
                           /\ cache.obs[r].policy = mirror.policy
    BY DEF SelectionComplete
  <2> QED BY DEF IInv, AttemptExact, Control
<1> QED BY <1>1, Invariant, PTL

(* The refinement **********************************************************)
\* What the cache last captured whole: the mirror's point, or else the point it followed.
Latest ==
  IF mirror.token # None /\ Complete(cache, mirror.token) THEN mirror.rows
  ELSE IF mirror.parent # None THEN cuts[mirror.parent].rows ELSE NoCut

LatestCaptured == CapturedCut = Latest

\* No token above the parent is complete but perhaps the mirror's own, so the largest
\* complete one is one of the two.
LEMMA CapturedIsLatest ==
  ASSUME IInv
  PROVE CapturedCut = Latest
<1> DEFINE t == mirror.token
           p == mirror.parent
           IsLast(x) == x \in Done /\ \A u \in Done : u <= x
<1>1. /\ t \in Nat /\ p \in Nat /\ Done \subseteq 1 .. t
      /\ \A x \in Done : x = t \/ x <= p
  BY FreshToken DEF IInv, Shapes, Mirror, Lineage, Captured, Done
<1>2. ASSUME NEW x, IsLast(x)
      PROVE CapturedCut = cuts[x].rows
  <2>1. \A y : IsLast(y) => y = x
    BY <1>1, <1>2
  <2>2. (CHOOSE y \in Done : \A u \in Done : u <= y) = x
    BY <1>2, <2>1
  <2> QED BY <1>2, <2>2 DEF CapturedCut
<1>3. CASE t # None /\ Complete(cache, t)
  <2>1. t \in Done
    BY <1>1, <1>3, FreshToken DEF Done, IInv, None
  <2>2. IsLast(t)
    BY <1>1, <2>1
  <2>3. cuts[t].rows = mirror.rows
    BY <1>3 DEF IInv, Lineage
  <2> QED BY <1>2, <1>3, <2>2, <2>3 DEF Latest
<1>4. CASE ~(t # None /\ Complete(cache, t)) /\ p # None
  <2>1. p \in Done
    BY <1>1, <1>4, FreshToken DEF Done, IInv, Captured, Lineage, None
  <2>2. t \notin Done
    BY <1>1, <1>4 DEF Done, None
  <2>3. IsLast(p)
    BY <1>1, <2>1, <2>2
  <2> QED BY <1>2, <1>4, <2>3 DEF Latest
<1>5. CASE ~(t # None /\ Complete(cache, t)) /\ p = None
  <2>1. Done = {}
    BY <1>1, <1>5 DEF Done, None
  <2> QED BY <1>5, <2>1 DEF CapturedCut, Latest
<1> QED BY <1>3, <1>4, <1>5

\* But for CompleteRun no step makes a run complete or undoes one.
LEMMA CompleteStays ==
  ASSUME IInv, Next, ~CompleteRun
  PROVE \A x : Complete(cache', x) <=> Complete(cache, x)
<1> DEFINE Same == \A x : Complete(cache', x) <=> Complete(cache, x)
<1>0. Shaped(cache) /\ Shapes /\ mirror.token \in Nat
  BY DEF IInv, Shapes, Mirror
<1>1. ASSUME cache'.run = cache.run PROVE Same
  BY <1>1 DEF Complete, RunOf
<1>2. CASE TakePending \/ Recover \/ Acknowledge \/ NewPoint \/ Edit \/ Install \/ Crash
         \/ RefuseCompletion
  BY <1>2 DEF TakePending, Recover, Acknowledge, NewPoint, Edit, Install, Crash, RefuseCompletion
<1>3. CASE FindReceipt
  BY <1>0, <1>1, <1>3, CommitReceiptCommits DEF FindReceipt
<1>4. CASE Validate
  BY <1>0, <1>4, RetireRetires DEF Validate
<1>5. CASE CoverFull \/ CoverSelective
  BY <1>0, <1>1, <1>5, BeginFullBegins, BeginSelectiveBegins
     DEF CoverFull, CoverSelective, Cover, Begins, SameRuns
<1>6. CASE Start \/ Abort \/ PartialRun
  <2>1. ~Complete(cache, mirror.token)
    BY <1>6 DEF IInv, Control, Start, Abort, PartialRun
  <2>2. PICK status : status # "complete" /\ cache' = SaveRun(cache, mirror.token, status)
    BY <1>6 DEF Start, Abort, PartialRun
  <2> QED BY <1>0, <2>1, <2>2, SaveRunSaves
<1>7. CASE \E r \in Rows : Extract(r) \/ ExtractFails(r)
  <2>1. PICK r \in Rows : Extract(r) \/ ExtractFails(r)
    BY <1>7
  <2>2. MemoOf(cache, r)
    BY DEF IInv, MemoSound, MemoOf
  <2>3. cache' = ExtractRow(cache, r) \/ cache' = FailRow(cache, r)
    BY <2>1 DEF Extract, ExtractFails, Flush
  <2>4. SameRuns(cache, ExtractRow(cache, r))
    BY <1>0, <2>2, ExtractRowExtracts DEF Extracted
  <2>5. SameRuns(cache, FailRow(cache, r))
    BY <1>0, FailRowFails
  <2> QED BY <1>1, <2>3, <2>4, <2>5 DEF SameRuns
<1>8. CASE OtherWriter
  <2>1. PICK r \in Rows : \E o : cache' = Observe(cache, r, o)
    BY <1>8 DEF OtherWriter
  <2>2. PICK o : cache' = Observe(cache, r, o)
    BY <2>1
  <2>3. cache'.run = cache.run
    BY <1>0, <2>2 DEF Observe, Shaped, Tables
  <2> QED BY <1>1, <2>3
<1>9. CASE RestoreCache
  <2>1. cache'.run = cache.run
    BY <1>9 DEF RestoreCache, EmptyCache
  <2> QED BY <1>1, <2>1
<1> QED BY <1>2, <1>3, <1>4, <1>5, <1>6, <1>7, <1>8, <1>9 DEF Next, Collect

\* A step that keeps the mirror's point, the cuts and what is complete is invisible.
LEMMA InvisibleStep ==
  ASSUME mirror'.status = mirror.status, mirror'.token = mirror.token,
         mirror'.parent = mirror.parent, mirror'.rows = mirror.rows, UNCHANGED cuts,
         \A x : Complete(cache', x) <=> Complete(cache, x)
  PROVE UNCHANGED <<OfferedCut, Latest>>
BY DEF OfferedCut, Latest

\* The abstract step of every step. Nothing is on offer when a new point is; an offer is
\* captured by the run that completes; the rest is invisible.
LEMMA HandoffStep ==
  ASSUME IInv, Next, CapturedCut = Latest, CapturedCut' = Latest'
  PROVE [H!Next]_<<OfferedCut, CapturedCut>>
<1> DEFINE t == mirror.token
<1>1. CASE NewPoint
  <2>1. PICK base \in BOOLEAN, keyed \in BOOLEAN :
          mirror.status \in {"empty", "acknowledged"} /\ Publish(base, keyed)
    BY <1>1 DEF NewPoint, Baseline, Delta, Comparable
  <2>2. t \in Nat /\ Tokens = 1 .. t /\ Fresh = t + 1
    BY FreshToken DEF IInv
  <2>3. /\ mirror'.status = "prepared" /\ mirror'.token = t + 1 /\ mirror'.parent = t
        /\ mirror'.rows = source /\ UNCHANGED cache /\ source \in Contents
    BY <1>1, <2>1, <2>2 DEF Publish, NewPoint, IInv, Shapes
  <2>4. t # None => cuts'[t] = cuts[t]
    BY <2>1, <2>2 DEF Publish, None
  <2>5. t # None => Complete(cache, t)
    BY <2>1 DEF IInv, Lineage, Captured
  <2>6. ~Complete(cache, t + 1)
    BY <2>2 DEF IInv, Captured, Complete, RunOf
  <2>7. OfferedCut = NoCut /\ OfferedCut' = source
    BY <2>1, <2>3, <2>6 DEF OfferedCut
  <2>8. Latest' = Latest
    <3>1. Latest' = IF t # None THEN cuts'[t].rows ELSE NoCut
      BY <2>3, <2>6 DEF Latest
    <3>2. Latest = IF t # None THEN mirror.rows ELSE NoCut
      BY <2>5 DEF Latest, IInv, Lineage
    <3> QED BY <2>4, <3>1, <3>2 DEF IInv, Lineage
  <2> QED BY <2>3, <2>7, <2>8 DEF H!Next, H!Offer
<1>2. CASE Recover
  <2>1. t \in Nat /\ Tokens = 1 .. t /\ Fresh = t + 1 /\ mirror \in Mirror
    BY FreshToken DEF IInv, Shapes
  <2>2. /\ mirror'.status = mirror.status /\ mirror'.token = t + 1 /\ UNCHANGED cache
        /\ mirror'.parent = mirror.parent /\ mirror'.rows = mirror.rows
        /\ ~Complete(cache, t)
    BY <1>2, <2>1 DEF Recover, RecoverPendingPolicy, Mirror
  <2>3. ~Complete(cache, t + 1)
    BY <2>1 DEF IInv, Captured, Complete, RunOf
  <2>4. mirror.parent # None => cuts'[mirror.parent] = cuts[mirror.parent]
    <3>1. mirror.parent # None => mirror.parent \in 1 .. t /\ mirror.parent # t + 1
      BY <2>1 DEF IInv, Lineage, Mirror, None
    <3> QED BY <1>2, <2>1, <3>1 DEF Recover, RecoverPendingPolicy
  <2>5. UNCHANGED <<OfferedCut, Latest>>
    BY <2>2, <2>3, <2>4 DEF OfferedCut, Latest
  <2> QED BY <2>5
<1>3. CASE Acknowledge
  <2>1. /\ Complete(cache, t) /\ mirror \in Mirror
        /\ mirror' = [mirror EXCEPT !.status = "acknowledged"] /\ UNCHANGED <<cuts, cache>>
    BY <1>3 DEF Acknowledge, MarkAcknowledged, IInv, Control, Shapes
  <2>2. /\ mirror'.status = "acknowledged" /\ mirror'.token = t /\ mirror'.rows = mirror.rows
        /\ mirror'.parent = mirror.parent
    BY <2>1 DEF Mirror
  <2>3. UNCHANGED <<OfferedCut, Latest>>
    BY <2>1, <2>2 DEF OfferedCut, Latest
  <2> QED BY <2>3
<1>4. CASE CompleteRun
  <2>1. /\ mirror.status = "prepared" /\ ~Complete(cache, t) /\ UNCHANGED mirror
        /\ t \in Nat /\ t # None
    BY <1>4 DEF CompleteRun, Completable, mirrorVars, IInv, Control, Shapes, Mirror, Lineage
  <2>2. Complete(cache', t)
    <3>1. Shaped(Finish(cache))
      BY FinishFinishes DEF IInv, Shapes
    <3> DEFINE s == SaveRun(Finish(cache), t, "complete")
    <3>2. Shaped(s) /\ Complete(s, t)
      BY <2>1, <3>1, SaveRunSaves
    <3>3. cache'.run = s.run
      BY <1>4, <2>1, <3>2, CommitReceiptCommits DEF CompleteRun
    <3> QED BY <3>2, <3>3 DEF Complete, RunOf
  <2>3. OfferedCut = mirror.rows /\ OfferedCut' = NoCut /\ Latest' = mirror.rows
    BY <2>1, <2>2 DEF OfferedCut, Latest
  <2>4. CASE mirror.rows # NoCut
    BY <2>3, <2>4 DEF H!Next, H!Capture
  <2>5. CASE mirror.rows = NoCut
    <3>1. DOMAIN mirror.rows = {} /\ mirror.rows \in Contents
      BY <2>5 DEF NoCut, IInv, Shapes, Mirror
    <3>2. \A rows \in Contents : rows = mirror.rows
      BY <3>1 DEF Contents
    <3>3. Latest = NoCut \/ Latest \in Contents
      <4>1. mirror.parent # None => mirror.parent \in 1 .. t
        BY <2>1 DEF IInv, Lineage, Shapes, Mirror, None
      <4> QED BY <2>1, <4>1 DEF Latest, IInv, Shapes, Cut
    <3> QED BY <2>3, <2>5, <3>2, <3>3
  <2> QED BY <2>4, <2>5
<1>5. CASE ~(NewPoint \/ Recover \/ Acknowledge \/ CompleteRun)
  <2>1. \A x : Complete(cache', x) <=> Complete(cache, x)
    BY <1>5, CompleteStays
  <2>2. UNCHANGED <<mirror, cuts>>
    BY <1>5 DEF Next, Collect, TakePending, FindReceipt, Validate, CoverFull, CoverSelective,
       Cover, Start, Extract, ExtractFails, Flush, Abort, RefuseCompletion, PartialRun, Edit, SourceEdit,
       Install, Upgrade, Crash, OtherWriter, RestoreCache, mirrorVars
  <2> QED BY <2>1, <2>2, InvisibleStep
<1> QED BY <1>1, <1>2, <1>3, <1>4, <1>5

\* The collector captures the source one cut after another, each exactly as it was put on
\* offer and once, over deaths, lost acknowledgements, policy recoveries, interference of
\* other writers and restored caches: it implements the abstract Handoff.
THEOREM CaptureImplementsHandoff == Spec => ImplementsHandoff
<1>1. Init => H!Init
  BY DEF Init, MirrorInit, EmptyMirror, EmptyCache, H!Init, OfferedCut, CapturedCut, Done,
     Complete, RunOf, NoCut
<1>2. IInv => LatestCaptured
  BY CapturedIsLatest DEF LatestCaptured
<1>3. IInv /\ LatestCaptured /\ LatestCaptured' /\ [Next]_vars
        => [H!Next]_<<OfferedCut, CapturedCut>>
  <2> SUFFICES ASSUME IInv, CapturedCut = Latest, CapturedCut' = Latest', [Next]_vars
               PROVE  [H!Next]_<<OfferedCut, CapturedCut>>
    BY DEF LatestCaptured
  <2>1. CASE Next
    BY <2>1, HandoffStep
  <2>2. CASE UNCHANGED vars
    <3>1. UNCHANGED <<mirror, cuts, cache>>
      BY <2>2 DEF vars, mirrorVars
    <3>2. UNCHANGED <<OfferedCut, Latest>>
      BY <3>1, InvisibleStep
    <3> QED BY <3>2
  <2> QED BY <2>1, <2>2
<1> QED BY <1>1, <1>2, <1>3, Invariant, PTL DEF Spec, ImplementsHandoff, H!Spec
=============================================================================
