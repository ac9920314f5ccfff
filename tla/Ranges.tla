------------------------------- MODULE Ranges -------------------------------
(***************************************************************************)
(* The interval algorithms of the cache, each against what it stands for:  *)
(* sighting intervals (Freshness) against one sighting per id, translation *)
(* intervals (ImportRanges) against one binding per id, and the spans that *)
(* capture coverage is kept in (cache/unit_coverage.py) against a set.     *)
(* The three share no state: a behaviour exercises one of them, `subject`. *)
(***************************************************************************)
EXTENDS Subject, Freshness, ImportRanges

CONSTANTS MaxCover   \* covered ids are 1..MaxCover

ASSUME RangesAssumption == MaxCover \in Nat

VARIABLES latest,     \* id -> its latest sighting, the reference for `ranges`
          spans,      \* coverage, as the code keeps it
          covered     \* the same as a set, the reference

(* Sightings, each id on its own *******************************************)
\* Of two sightings at one time the later stamp counts.
Unsighted == latest = [i \in Ids |-> Never]

Sight(ids, s) ==
  latest' = [i \in Ids |-> IF i \in ids /\ (latest[i] = Never \/ latest[i].at <= s.at)
                           THEN s ELSE latest[i]]

Unsight(ids) == latest' = [i \in Ids |-> IF i \in ids THEN Never ELSE latest[i]]

(* Coverage ****************************************************************)
AllSpans == {s \in (1..MaxCover) \X (1..MaxCover) : First(s) <= End(s)}

\* CaptureCoverage.stage: ids of one more batch; merge takes them in any order.
Stage(more) ==
  /\ spans' = Merge(spans \cup more)
  /\ covered' = covered \cup Points(more)

\* UnitWithdrawal.retained: what is withdrawn must be covered.
Withdraw(cut) ==
  /\ Subtract(cut, spans) = {}
  /\ spans' = Subtract(spans, cut)
  /\ covered' = covered \ Points(cut)

CoverageNext ==
  \E some \in {s \in SUBSET AllSpans : Cardinality(s) <= 2} : Stage(some) \/ Withdraw(some)

(* Behaviour ***************************************************************)
RangesInit ==
  /\ FreshInit /\ Unsighted
  /\ UpgradeInit
  /\ subject # "import" => binding = [k \in Keys |-> Unbound]
  /\ spans = {} /\ covered = {}

FreshNext ==
  \E ids \in (SUBSET Ids) \ {{}} :
    \/ Forget(ids) /\ Unsight(ids)
    \/ \E s \in Sightings : Stamp(ids, s) /\ Sight(ids, s)

SightStep     == subject = "freshness" /\ FreshNext
                 /\ UNCHANGED <<subject, importVars, spans, covered>>
TranslateStep == subject = "import" /\ ImportNext
                 /\ UNCHANGED <<subject, ranges, latest, spans, covered>>
CoverStep     == subject = "coverage" /\ CoverageNext
                 /\ UNCHANGED <<subject, ranges, latest, importVars>>

RangesNext == SightStep \/ TranslateStep \/ CoverStep

\* A behaviour of this part alone.
RangesSpec == RangesInit /\ [][RangesNext]_<<subject, ranges, latest, importVars, spans, covered>>

(* Properties **************************************************************)
\* Every row has its type, and every table is well kept: disjoint rows with nothing left to coalesce
\* (the code assumes as much when it looks at one predecessor and at one neighbour).
TypeOK ==
  /\ \A r \in ranges : r \in [first : Ids, last : Ids, value : Sightings]
  /\ \A r \in keyRanges : r.first \in Keys /\ r.last \in Keys
                         /\ r.value \in [offset : (-MaxKey)..MaxLocal, eligible : BOOLEAN]
  /\ dirty \subseteq Keys /\ ready \in BOOLEAN
  /\ WellKept(ranges) /\ WellKept(keyRanges)

\* Stamping and forgetting intervals is stamping and forgetting each id on its own: no
\* neighbour is touched, no id keeps an older sighting, none loses a later one
\* (cache/freshness.py, stamp and forget). And the rows stay apart and coalesced, which the
\* lookup by one predecessor, and the look at one neighbour on each side, rely on.
SightedPointwise == WellKept(ranges) /\ \A i \in Ids : SightingOf(ranges, i) = latest[i]

\* A translated refresh names the local row of every eligible id asked for, no other
\* row, as a well-kept list; it fails only when an id is bound to nothing (translate).
TranslationExact ==
  LET known == \A k \in answer.asked : binding[k] # Unbound
  IN /\ answer.known = known
     /\ known => /\ Points(answer.gave) = {binding[k].local : k \in {j \in answer.asked : binding[j].eligible}}
                 /\ Canonical(answer.gave)

\* Coverage is the set of ids staged and not withdrawn since, and its list is well kept:
\* a span one id too long claims an id nobody captured, one too short marks it absent
\* (cache/unit_coverage.py, merge and subtract).
CoverageExact == Points(spans) = covered /\ Canonical(spans)

=============================================================================
