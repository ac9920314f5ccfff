--------------------------- MODULE MonthlyArchive ---------------------------
(***************************************************************************)
(* Monthly archives: export (archive/export.py) of a cache, and of a copy  *)
(* made of it, and import (archive/import_.py) of their files, in any      *)
(* order, by processes that share one target cache.                        *)
(*                                                                         *)
(* A message stands for what is exported by month; it may change month, as *)
(* an event does when its target message is synced after it. Its content   *)
(* is the time it was written, and so is its observation time. What        *)
(* returns to an earlier content, and edits of the target, are CacheStore's.*)
(* `undated` is one more month. Context records, the catalogue (which      *)
(* retires nothing), blobs and identity.json carry no revision of a month. *)
(***************************************************************************)
EXTENDS Naturals, Sequences, FiniteSets, FiniteSetsExt, SequencesExt, TLC

CONSTANTS Exporters,     \* caches of one export set: the first, and copies of it
          FirstExporter,
          Importers,     \* processes that import into the target
          Months,
          Messages,
          Purged,        \* the month of a message that is not there
          Forces,        \* values of --force
          MaxWrites,     \* changes of messages
          MaxArchives    \* archives ever published

ASSUME MonthlyArchiveAssumption ==
  /\ FirstExporter \in Exporters /\ Purged \notin Months
  /\ Forces \subseteq BOOLEAN
  /\ Months \subseteq Nat /\ IsFiniteSet(Months)
  /\ MaxWrites \in Nat /\ MaxArchives \in Nat

VARIABLES writes,      \* how often messages changed; the clock
          opened,      \* the exporters whose data directory is there
          held,        \* exporter -> message -> its month, content and earlier contents
          exports,      \* exporter -> month -> its exports rows, by revision
          folder,      \* exporter -> export ids in its output directory
          archives,    \* export id -> archive
          exporting,   \* exporter -> its export in progress
          target,      \* the cache imported into
          importing    \* importer -> the archive past its lineage check, or 0

archiveVars == <<writes, opened, held, exports, folder, archives, exporting, target, importing>>

NotExporting == [at |-> "idle"]
NotHeld == [month |-> Purged, content |-> 0, known |-> {}]
NoRecord == [content |-> 0, retiredBy |-> 0, at |-> 0]

ArchiveInit ==
  /\ writes = 0 /\ opened = {FirstExporter} /\ archives = <<>>
  /\ held = [c \in Exporters |-> [u \in Messages |-> NotHeld]]
  /\ exports = [c \in Exporters |-> [m \in Months |-> <<>>]]
  /\ folder = [c \in Exporters |-> {}]
  /\ exporting = [c \in Exporters |-> NotExporting]
  /\ target = [records |-> [u \in Messages |-> NoRecord], imports |-> [m \in Months |-> <<>>],
               branches |-> {}, accepted |-> {}]
  /\ importing = [i \in Importers |-> 0]

(* The exporting caches ****************************************************)
ToExport == UNCHANGED <<opened, exports, folder, archives, target, importing>>

\* `quiet` is no state of the program: it says that nothing changed since the export began.
ChangeMessage(c, u, new) ==
  /\ writes < MaxWrites /\ writes' = writes + 1
  /\ held' = [held EXCEPT ![c][u] = new]
  /\ exporting' = [exporting EXCEPT ![c] = IF @ = NotExporting THEN @ ELSE [@ EXCEPT !.quiet = FALSE]]
  /\ ToExport

\* A sync writes a message, or finds it in another month.
WriteMessage(c, u, m) ==
  ChangeMessage(c, u, [month |-> m, content |-> writes + 1, known |-> held[c][u].known \cup {writes + 1}])

PurgeMessage(c, u) == held[c][u].month # Purged /\ ChangeMessage(c, u, NotHeld)

\* The data directory is copied; the output directory is not part of it.
Copy(c) ==
  /\ c \notin opened /\ opened' = opened \cup {c}
  /\ exporting[FirstExporter] = NotExporting
  /\ held' = [held EXCEPT ![c] = held[FirstExporter]]
  /\ exports' = [exports EXCEPT ![c] = exports[FirstExporter]]
  /\ UNCHANGED <<writes, folder, archives, exporting, target, importing>>

(* Export ******************************************************************)
Bucket(c, m) == [u \in {v \in Messages : held[c][v].month = m} |->
                   [content |-> held[c][u].content, known |-> held[c][u].known]]

ContentsOf(bucket) == [u \in DOMAIN bucket |-> bucket[u].content]

\* plan_buckets: from the first month of a message to the last, and what was exported before.
MutPlanned(c) == {m \in Months : DOMAIN Bucket(c, m) # {}}
Planned(c) ==
  LET now == {m \in Months : DOMAIN Bucket(c, m) # {}}
  IN {m \in Months : \E x, y \in now : x <= m /\ m <= y}
     \cup {m \in Months : exports[c][m] # <<>>}

Started(force, months) ==
  [at |-> "collect", force |-> force, months |-> months, plans |-> <<>>, export |-> 0, quiet |-> TRUE]

\* One cache after another: exports of two caches share nothing, so that their order does
\* not matter.
StartExport(c) ==
  /\ \A d \in Exporters : exporting[d] = NotExporting
  /\ \E force \in Forces :
       exporting' = [exporting EXCEPT ![c] = Started(force, Planned(c))]
  /\ UNCHANGED <<writes, held>> /\ ToExport

Goes(c, job) == exporting' = [exporting EXCEPT ![c] = job]

\* collect_bucket: one month after another, all of them before the first is written.
CollectBucket(c) ==
  LET job == exporting[c] IN
  /\ job.at = "collect"
  /\ \E m \in job.months :
       /\ \A n \in job.months : m <= n
       /\ Goes(c, [job EXCEPT !.months = @ \ {m}, !.plans = Append(@, [month |-> m, bucket |-> Bucket(c, m)])])
  /\ UNCHANGED <<writes, held>> /\ ToExport

(* write_archive ***********************************************************)
ExportRows(c, m) == exports[c][m]
Unchanged(c, plan) == LET last == archives[Last(ExportRows(c, plan.month))]
                      IN ContentsOf(last.bucket) = ContentsOf(plan.bucket)

\* Nothing to write: a month never exported that is empty, or one that did not change.
Skipped(c, plan) ==
  IF ExportRows(c, plan.month) = <<>> THEN DOMAIN plan.bucket = {}
  ELSE Unchanged(c, plan) /\ ~exporting[c].force

Archive(c, plan, sound) ==
  LET id == Len(archives) + 1 IN
  [by |-> c, sound |-> sound, month |-> plan.month, bucket |-> plan.bucket, at |-> writes,
   revision |-> Len(ExportRows(c, plan.month)) + 1, lineage |-> Append(ExportRows(c, plan.month), id)]

\* dst.exists(): the file name tells month and revision.
MutInTheWay(c, a) == FALSE
InTheWay(c, a) == \E id \in folder[c] : archives[id].month = a.month /\ archives[id].revision = a.revision

SkipBucket(c) ==
  LET job == exporting[c] IN
  /\ job.at = "collect" /\ job.months = {} /\ job.plans # <<>>
  /\ Skipped(c, Head(job.plans))
  /\ Goes(c, [job EXCEPT !.plans = Tail(@)])
  /\ UNCHANGED <<writes, held>> /\ ToExport

\* write_encrypted_zip, or the refusal to overwrite, which ends the export. What was
\* written may be damaged.
PublishBucket(c, sound) ==
  LET job == exporting[c]
      a   == Archive(c, Head(job.plans), sound)
      clash == {id \in folder[c] : archives[id].month = a.month /\ archives[id].revision = a.revision}
  IN /\ job.at = "collect" /\ job.months = {} /\ job.plans # <<>>
     /\ ~Skipped(c, Head(job.plans))
     /\ \/ /\ InTheWay(c, a)
           /\ Goes(c, NotExporting)
           /\ UNCHANGED <<folder, archives>>
        \/ /\ ~InTheWay(c, a) /\ Len(archives) < MaxArchives
           /\ archives' = Append(archives, a)
           /\ folder' = [folder EXCEPT ![c] = (@ \ clash) \cup {Len(archives) + 1}]
           /\ Goes(c, [job EXCEPT !.at = "verify", !.export = Len(archives) + 1])
     /\ UNCHANGED <<writes, opened, held, exports, target, importing>>

\* The file is read back and the exports row committed; a damaged file is removed and ends
\* the export. A death in between is a death before: the file stays without a row.
RecordBucket(c) ==
  LET job == exporting[c]
      a   == archives[job.export]
  IN /\ job.at = "verify"
     /\ \/ /\ a.sound
           /\ exports' = [exports EXCEPT ![c][a.month] = Append(@, job.export)]
           /\ Goes(c, [job EXCEPT !.at = "collect", !.plans = Tail(@), !.export = 0])
           /\ UNCHANGED folder
        \/ /\ ~a.sound
           /\ folder' = [folder EXCEPT ![c] = @ \ {job.export}]
           /\ Goes(c, NotExporting)
           /\ UNCHANGED exports
     /\ UNCHANGED <<writes, opened, held, archives, target, importing>>

Finished(c) == exporting[c] # NotExporting /\ exporting[c].at = "collect"
               /\ exporting[c].months = {} /\ exporting[c].plans = <<>>

\* The process ends, or dies anywhere on the way.
EndExport(c) ==
  /\ exporting[c] # NotExporting
  /\ Goes(c, NotExporting)
  /\ UNCHANGED <<writes, held>> /\ ToExport

(* Import ******************************************************************)
FromExport == UNCHANGED <<writes, opened, held, exports, folder, archives, exporting>>

\* The imports table: its rows of each month, in their order.
Imports == UNION {ToSet(target.imports[m]) : m \in Months}

\* _lineage_check
Related(id) == ToSet(target.imports[archives[id].month])

Superseded(id) == \E x \in Related(id) : id \in ToSet(archives[x].lineage)

MutDiverges(id) == \E x \in Related(id) : archives[x].revision >= archives[id].revision   \* numbers only
Diverges(id) ==
  \E x \in Related(id) : x \notin ToSet(archives[id].lineage) /\ id \notin ToSet(archives[x].lineage)

\* The lineage is checked against what is committed now; the archive is applied later.
\* Which row is met first decides between superseded and branch_conflict.
CheckLineage(i, id) ==
  /\ importing[i] = 0 /\ archives[id].sound /\ id \notin Imports
  /\ \/ /\ id \in target.accepted \/ ~(Superseded(id) \/ Diverges(id))
        /\ importing' = [importing EXCEPT ![i] = id] /\ UNCHANGED target
     \/ /\ id \notin target.accepted /\ Diverges(id)
        /\ target' = [target EXCEPT !.branches = @ \cup {id}] /\ UNCHANGED importing
  /\ FromExport

\* resolve_conflict of an archive branch
AcceptBranch(id) ==
  /\ id \in target.branches
  /\ target' = [target EXCEPT !.branches = @ \ {id}, !.accepted = @ \cup {id}]
  /\ UNCHANGED importing /\ FromExport

\* upsert with origin "import" and the archive's earlier contents
Imported(record, new) ==
  LET foreign == record.retiredBy # 0 \/ record.content \notin new.known
  IN IF record = NoRecord \/ (~foreign /\ new.content >= record.at)
     THEN [content |-> new.content, retiredBy |-> 0, at |-> new.content]
     ELSE record

Preceding(a) == IF a.revision = 1 THEN {} ELSE {a.lineage[a.revision - 1]}

\* What the archive named in `supersedes` brought in and this one no longer has.
MutRetired(a) == {}
Retired(a) ==
  (UNION {DOMAIN archives[x].bucket : x \in Preceding(a) \cap Imports}) \ DOMAIN a.bucket

\* _apply_records, in one transaction; the primary key of imports refuses a second import.
\* A retirement is an upsert with the default origin "sync", which compares no times.
ApplyArchive(i) ==
  LET id == importing[i]
      a  == archives[id]
      Tombstone(record) == IF record = NoRecord \/ record.retiredBy # 0 THEN record
                           ELSE [record EXCEPT !.retiredBy = id, !.at = a.at]
      New(u) == IF u \in DOMAIN a.bucket THEN Imported(target.records[u], a.bucket[u])
                ELSE IF u \in Retired(a) THEN Tombstone(target.records[u])
                ELSE target.records[u]
  IN /\ id # 0 /\ id \notin Imports
     /\ target' = [target EXCEPT !.records = [u \in Messages |-> New(u)],
                                    !.imports[a.month] = Append(@, id)]
     /\ importing' = [importing EXCEPT ![i] = 0]
     /\ FromExport

\* Blobs cannot be restored, the row is there already, or the process dies.
AbandonImport(i) ==
  /\ importing[i] # 0 /\ importing' = [importing EXCEPT ![i] = 0]
  /\ UNCHANGED target /\ FromExport

ArchiveNext ==
  \/ \E c \in Exporters : Copy(c)
  \/ \E c \in opened :
       \/ \E u \in Messages, m \in Months : WriteMessage(c, u, m)
       \/ \E u \in Messages : PurgeMessage(c, u)
       \/ StartExport(c) \/ CollectBucket(c) \/ SkipBucket(c)
       \/ (\E sound \in BOOLEAN : PublishBucket(c, sound)) \/ RecordBucket(c) \/ EndExport(c)
  \/ \E i \in Importers :
       \/ \E id \in UNION {folder[c] : c \in Exporters} : CheckLineage(i, id)
       \/ ApplyArchive(i) \/ AbandonImport(i)
  \/ \E id \in target.branches : AcceptBranch(id)

ArchiveSpec == ArchiveInit /\ [][ArchiveNext]_archiveVars

\* Nothing in the code sees to it that processes import one after the other: what needs it
\* says so.
OneImporter == \A i, j \in Importers : i = j

(* Properties **************************************************************)
Files == UNION {folder[c] : c \in Exporters}

\* One exporter makes one history of a month: of any two archives of it that anybody can hold
\* or has imported, one continues the other, also when a death left one out of the exports table,
\* and every recorded one is still there (archive/export.py: revisions, refusal to overwrite).
OneLineage ==
  /\ \A x, y \in Files \cup Imports :
       archives[x].by = archives[y].by /\ archives[x].month = archives[y].month =>
         IsPrefix(archives[x].lineage, archives[y].lineage)
         \/ IsPrefix(archives[y].lineage, archives[x].lineage)
  /\ \A c \in Exporters, m \in Months : ToSet(ExportRows(c, m)) \subseteq Files

\* While one process at a time imports, the archives of one month that are imported make one
\* line, unless the user accepted a branch: "two archives for the same bucket and export set
\* whose lineages do not include one another are a branch conflict", and the second is refused
\* (specs/archive-format.md; import_.py, _lineage_check), in whatever order they come, with
\* archives of a copy among them.
BranchesRefused ==
  \A x, y \in Imports : archives[x].month = archives[y].month =>
    \/ x \in ToSet(archives[y].lineage) \/ y \in ToSet(archives[x].lineage)
    \/ {x, y} \cap target.accepted # {}

\* A message exported from one month only, that did not come back after a revision without
\* it, and whose history no purge has cut (the import would record a conflict).
Steady(u) ==
  \A x, y \in {id \in Imports : u \in DOMAIN archives[id].bucket} :
    /\ archives[x].month = archives[y].month
    /\ archives[x].revision < archives[y].revision =>
         /\ archives[x].bucket[u].content \in archives[y].bucket[u].known
         /\ \A z \in ToSet(archives[y].lineage) :
              archives[z].revision > archives[x].revision => u \in DOMAIN archives[z].bucket

\* When an export finishes that nothing disturbed, a target that imported each revision of
\* each month, one after another, holds every steady message as the exporter does: what
\* became empty is exported once more, and what a revision no longer has is retired
\* (plan_buckets, _apply_records).
RestoreExact ==
  \A c \in Exporters :
    Finished(c) /\ exporting[c].quiet /\ (\A m \in Months : target.imports[m] = ExportRows(c, m)) =>
      \A u \in Messages : Steady(u) =>
        LET record == target.records[u]
        IN (IF record.retiredBy = 0 THEN record.content ELSE 0) = held[c][u].content

=============================================================================
