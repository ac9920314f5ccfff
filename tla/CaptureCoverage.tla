-------------------------- MODULE CaptureCoverage --------------------------
(***************************************************************************)
(* What the canonical cache keeps for prepared captures: observations, the *)
(* extraction memo (cache/extraction.py), the coverage point and attempt   *)
(* (cache/capture_coverage.py, cache/unit_coverage.py) and the runs with   *)
(* their receipts. Each operator is what one transaction does to the cache.*)
(*                                                                         *)
(* The projection epoch (cache/projection_epoch.py) is only ever compared  *)
(* with its present value, so a point and an attempt say `current` for     *)
(* "my epoch is the epoch now".                                            *)
(***************************************************************************)
EXTENDS NativeMirror

CONSTANTS Large   \* rows whose records exceed one batch: never memoised

ASSUME CoverageAssumption == Large \subseteq Rows \ Headers

VARIABLES cache   \* one field per table

NoRow == [policy |-> None, value |-> Absent, present |-> FALSE, seen |-> None]
NoUnit == [policy |-> None, value |-> Absent, valid |-> FALSE]
NoPoint == [token |-> None, current |-> FALSE, rows |-> {}]
NoAttempt == [token |-> None, full |-> FALSE, current |-> FALSE,
              withdrawn |-> {}, retained |-> {}, staged |-> {}]

EmptyCache ==
  [obs |-> [r \in Rows |-> NoRow], unit |-> [r \in Rows |-> NoUnit], point |-> NoPoint,
   attempt |-> NoAttempt, run |-> [t \in {} |-> ""], receipts |-> {}, checkpoint |-> None]

RunOf(c, t) == IF t \in DOMAIN c.run THEN c.run[t] ELSE "none"
Complete(c, t) == RunOf(c, t) = "complete"
SaveRun(c, t, status) ==
  [c EXCEPT !.run = [x \in DOMAIN @ \cup {t} |-> IF x = t THEN status ELSE @[x]]]

PresentRows(c) == {r \in Rows : c.obs[r].present}

\* The epoch triggers fire on content and presence, never on a sighting.
Content(o) == [policy |-> o.policy, value |-> o.value, present |-> o.present]
Semantic(c, r, o) == Content(c.obs[r]) # Content(o)
\* Mutant: the write goes unnoticed by the epoch.
MutObserve(c, r, o) ==
  IF ~Semantic(c, r, o) THEN [c EXCEPT !.obs[r] = o]
  ELSE [c EXCEPT !.obs[r] = o, !.unit[r].valid = FALSE]

\* A write of observation r, with the triggers: the unit that owns r loses its memo, and
\* whoever holds an epoch no longer holds the present one.
Observe(c, r, o) ==
  IF ~Semantic(c, r, o) THEN [c EXCEPT !.obs[r] = o]
  ELSE [c EXCEPT !.obs[r] = o, !.unit[r].valid = FALSE,
                 !.point.current = FALSE, !.attempt.current = FALSE]

(* The memo ****************************************************************)
\* ExtractionMemo._row: the stored records of r come from this content and this policy.
Reusable(c, r) ==
  c.unit[r] = [policy |-> mirror.policy, value |-> mirror.rows[r], valid |-> TRUE]

\* capture and save; a header has no unit, a large message loses its.
CaptureRow(c, r) ==
  LET seen == [policy |-> mirror.policy, value |-> mirror.rows[r], present |-> TRUE,
               seen |-> mirror.token]
      written == Observe(c, r, seen)
  IN IF r \in Headers THEN written
     ELSE IF r \in Large THEN [written EXCEPT !.unit[r].valid = FALSE]
     ELSE [written EXCEPT !.unit[r] = [policy |-> mirror.policy, value |-> mirror.rows[r],
                                       valid |-> TRUE]]

SightRow(c, r) == [c EXCEPT !.obs[r].seen = mirror.token]

\* One row of a flush: sighted if its memo still stands inside the transaction, captured
\* otherwise, staged in both cases. `writing` ends with the attempt holding the new epoch.
ExtractRow(c, r) ==
  LET done == IF Reusable(c, r) THEN SightRow(c, r) ELSE CaptureRow(c, r)
  IN [done EXCEPT !.attempt.staged = @ \cup {r}, !.attempt.current = TRUE]

\* A row the adapter cannot extract emits nothing, and its memo goes.
FailRow(c, r) == [c EXCEPT !.unit[r] = NoUnit, !.attempt.current = TRUE]

(* Coverage ****************************************************************)
\* CaptureCoverage.begin(full): everything present must be seen again.
BeginFull(c) ==
  [c EXCEPT !.attempt = [token |-> mirror.token, full |-> TRUE, current |-> TRUE,
                         withdrawn |-> PresentRows(c), retained |-> {}, staged |-> {}]]

Unchanged == mirror.changed = {}
\* Mutant: a selective capture withdraws units only.
MutHeadersWithdrawn(c) == {}

\* with_headers: every present header, or only the changed ones when they can be told.
HeadersWithdrawn(c) ==
  IF Unchanged THEN {}
  ELSE PresentRows(c) \cap Headers \cap (IF mirror.keyed THEN mirror.changed ELSE Headers)
Withdrawn(c) == (mirror.old \ Headers) \cup HeadersWithdrawn(c)

\* UnitWithdrawal.take, begin(selective) and retained.
CanSelect(c) ==
  /\ \A r \in mirror.old \ Headers : c.unit[r].valid
  /\ c.point.token = mirror.parent /\ c.point.current
  /\ Withdrawn(c) \subseteq c.point.rows

BeginSelective(c) ==
  [c EXCEPT !.attempt = [token |-> mirror.token, full |-> FALSE, current |-> TRUE,
                         withdrawn |-> Withdrawn(c), retained |-> c.point.rows \ Withdrawn(c),
                         staged |-> {}]]
\* Mutant: rows that are gone are selected too.
MutSelected(resumed) == mirror.changed \cup Headers

\* What a selective extraction reads again; a resumed one does not trust `Unchanged`.
Selected(resumed) ==
  IF Unchanged /\ ~resumed THEN {}
  ELSE Present(mirror.rows) \cap
       (mirror.changed \cup (IF mirror.keyed THEN {} ELSE Headers))
\* Mutant: the memo of an absent row stays valid.
MutMarkAbsent(c, gone) ==
  [c EXCEPT !.obs = [r \in Rows |-> IF r \in gone /\ @[r].present
                       THEN [@[r] EXCEPT !.present = FALSE, !.seen = mirror.token] ELSE @[r]]]

\* finish: withdrawn evidence not seen again becomes absent, retained evidence is
\* sighted, and the point is taken at the epoch after both.
MarkAbsent(c, gone) ==
  [c EXCEPT !.obs = [r \in Rows |-> IF r \in gone /\ @[r].present
                       THEN [@[r] EXCEPT !.present = FALSE, !.seen = mirror.token] ELSE @[r]],
            !.unit = [r \in Rows |-> IF r \in gone /\ c.obs[r].present
                       THEN [@[r] EXCEPT !.valid = FALSE] ELSE @[r]]]
StampRows(c, rows) ==
  [c EXCEPT !.obs = [r \in Rows |-> IF r \in rows THEN [@[r] EXCEPT !.seen = mirror.token]
                                    ELSE @[r]]]
Finish(c) ==
  LET seen == c.attempt.retained \cup c.attempt.staged
      stamped == StampRows(MarkAbsent(c, c.attempt.withdrawn \ seen), c.attempt.retained)
  IN [stamped EXCEPT !.point = [token |-> mirror.token, current |-> TRUE, rows |-> seen],
                     !.attempt = NoAttempt]

\* commit_receipt: the receipt and the checkpoint that names the point.
CommitReceipt(c, t) == [c EXCEPT !.receipts = @ \cup {t}, !.checkpoint = t]
\* Mutant: runs are failed, their attempt stays.
MutRetire(c) ==
  [c EXCEPT !.run = [t \in DOMAIN @ |-> IF t \in mirror.ancestors /\ @[t] # "complete"
                                        THEN "failed" ELSE @[t]]]

\* _retire_recovered_attempts: attempts of the recovered tokens go, their runs have failed.
Retire(c) ==
  [c EXCEPT !.attempt = IF @.token \in mirror.ancestors THEN NoAttempt ELSE @,
            !.run = [t \in DOMAIN @ |-> IF t \in mirror.ancestors /\ @[t] # "complete"
                                        THEN "failed" ELSE @[t]]]
=============================================================================
