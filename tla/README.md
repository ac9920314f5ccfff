# A TLA+ model of chatstore

chatstore captures message databases of other programs (Apple Messages,
WhatsApp) into a local SQLite cache, journals every change it captures, and
ships the journal as encrypted, immutable archives from which a cache can be
rebuilt. This directory holds TLA+ modules of the parts of it that carry a
protocol, TLC configurations that check them on small instances, and TLAPS
proofs. Paths below are relative to the package, `src/chatstore/`.

## 1. Inventory

| part | state it keeps | operations | what is hard | what makes it correct |
| --- | --- | --- | --- | --- |
| changefeed export: `archive/incremental.py`, `cache/changefeed.py` | tables `changes`, `export_consumers`, `exports`, `verified_exports`, `meta.feed_identity`; archive files | `export_changes`, `capture_identity`, journal triggers | crash between publication and commit, racing exporters, copied caches, two transactions with the lock free in between | no event skipped or shipped twice, parents link, published names immutable |
| delivery: `archive/delivery.py` | `delivery_proofs`, `delivery_checkpoints` | `pending`, `confirm` | fetch outside the transaction, batches confirmed in any order, lost uploads | proofs are exactly the batches up to the checkpoint |
| changefeed import: `archive/import_.py`, `apply_events` | `feed_imports`, `imports`, `verified_imports`, `applied_changes` | delta branch of `import_archive` | several streams, orphans, diverged copies of one producer | replayed journal is one history without gaps |
| identity file: `config.py` | `identity.json` | `init`, `scope map`, imports, exports | read at start-up, written back without a lock | an edit is not lost (it can be, section 5) |
| canonical cache: `cache/store.py`, `curation.py` | `records`, `revisions`, `source_observations`, `conflicts` | `upsert`, `add_revision_row`, `set_head`, `merge_observations`, `mark_absent`, purge | sync against import, stale against newer, conflicts and their resolution | heads are revisions, no content lost, conflicts kept |
| replica replay: `apply_events`, `cache/import_ranges.py` | `entity_ids`, `observation_ids`, dirty keys | replay, `translate` | local edits on the replica, resightings of changed records | a refresh never stamps a record the producer did not see |
| ranges: `cache/freshness.py`, `cache/unit_coverage.py` | disjoint intervals | `stamp`, `forget`, `lookup`, `merge`, `subtract` | splitting and coalescing at the boundaries | equals the point-wise map |
| capture coverage: `cache/capture_coverage.py`, `cache/projection_epoch.py` | attempts, epochs | begin, finish, invalidate | an attempt that outlives its epoch | coverage claims only what was captured under the present epoch |
| extraction memo: `cache/extraction.py` | memo rows with signatures | lookup, store | changed code or dependency | a reused extraction is what extraction would give |
| sync: `sync.py` | `sync_runs`, adapter checkpoint | `run_sync` | crash between batches, partial extraction | checkpoint only after a complete run |
| native capture: `prepared_sync.py`, `adapters/native_mirror.py`, `native_collector.py`, `native_whatsapp.py` | mirror database, receipts, policies | prepare, commit, acknowledge, recover | two databases without a common transaction | nothing acknowledged that the cache does not hold |
| monitored session: `sync_session.py`, `adapters/monitor.py` | tokens, retained capture | begin, check, reuse | late file events | a reuse stands for an unchanged source |
| source readers: `adapters/wal*.py`, `pages.py`, `page_index.py`, `source_view.py`, `snapshot.py` | page maps | open, read, detect reset | WAL restarts while reading | a view is one committed state |
| monthly archives: `archive/export.py`, `import_.py`, `curation.py` | `exports`, `imports`, `bucket_membership`, accepted branches | export a bucket, import with lineage, resolve | crash before the ledger, branches | no branch imported over another without consent |
| media: `media.py`, `adapters/media_*.py` | ledger of media files | locate, capture | files that change while read | an attachment is available only with its bytes |
| routing: `adapters/messages/dependencies.py`, `adapters/whatsapp/dependencies.py`, `headers.py`, `header_ownership.py`, `events.py`, the adapters' `extract` | changed rows, header and event keys of a point | route a delta, withdraw, extract what is selected | a unit that depends on rows of other tables | what is covered equals a full extraction |
| data formats: `archive/container.py`, `manifest.py`, `verify.py`, `password.py`, `canonical/`, `identity/urn.py`, adapters' row conversion, `helpers/messages-decoder` | none | pure functions | — | covered by unit tests |
| surface: `cli/`, `cache/queries.py`, `cache/fts.py`, `helper_install.py` | none of their own | read and print, call the parts above | — | — |

The parts meet in the cache: `Cache.write` opens `BEGIN IMMEDIATE`, so every
change to a cache is one of a sequence of transactions, and the triggers of
`cache/changefeed.py` put what a transaction changes at the end of `changes`.
Exporters read that table, confirmers the ledger the exporters commit,
importers the files. Files and `identity.json` are outside the transactions;
that is where crashes and races are visible.

`PROJECT.json` lists the components with the state of their modelling, and the
hazards of the code with the properties that watch them.

## 2. Modules

| module | models |
| --- | --- |
| `ExportChanges` | hosts (data directories), journal, identity file, consumers, published files, and the steps of `export_changes` for any number of processes |
| `Delivery` | `pending`, `confirm`; the uploader and the destination as environment |
| `FeedImport` | the delta branch of `import_archive` with the sequence checks of `apply_events` |
| `Changefeed` | the three together, copies of a data directory, and all properties |
| `ChangefeedLog` | the abstract specification: logs, cursors, durable cursors, received prefixes |
| `ChangefeedProofs` | the inductive invariant of `Changefeed`, the theorems on export, import, deliveries and directories, and the refinement of `ChangefeedLog` |
| `MCChangefeed` | instances of it for TLC |
| `CacheStore` | the canonical cache: what each write of `store.py`, `purge_urns` and the triggers do to a database, as operators |
| `Replica` | replay of a producer's events into a cache, and the revalidation of imported bindings |
| `SyncRun` | `run_sync`: start, snapshot, captures, reconciliation, checkpoint, early ends, for any number of processes |
| `Replication` | a collector that syncs and replicas that replay its journal, local operations, and all properties |
| `ReplicaProofs` | lemmas on the operations of `CacheStore` and on the replay of `Replica`, one by one |
| `JournalProofs` | the invariants on journal, heads, sightings and bindings, and on one sync run, and the theorems on both |
| `MCReplication` | instances of it for TLC |
| `NativeMirror` | the mirror database: its point, the rows changed since the point before, the acknowledgement; baseline, delta and rebase |
| `CaptureCoverage` | what the cache keeps for prepared captures: observations, the extraction memo, coverage point and attempt, runs and receipts, as operators |
| `NativeCapture` | the collector over both databases: prepare, cover, extract in batches, reconcile, receipt, acknowledge, and every way to end early |
| `Handoff` | the abstract specification of that: one cut after another is offered and captured exactly as offered |
| `NativeCaptureProofs` | the inductive invariant of `NativeCapture`, its theorems and the refinement of `Handoff` |
| `MCNativeCapture` | instances of it for TLC |
| `Spans`, `Freshness`, `ImportRanges`, `Ranges` | the interval tables: lookup, cut and coalesce; stamp and forget; the translation index with its triggers; coverage spans; and all of them against one value per id |
| `RangesProofs` | what the loops over spans and rows compute, the inductive invariants of the three kinds of table, and their theorems |
| `SourceView` | a view of a database in WAL mode and the reader of its log, while the application writes, checkpoints, restarts the log or is replaced, and the power fails |
| `PageOwners` | the page graph of a source, updated page by page: which rows a set of written pages may have changed |
| `MonitoredSync` | the source monitor and the session that reuses a capture |
| `SourceProofs` | the inductive invariants of `MonitoredSync`, `SourceView` and `PageOwners`, and their theorems |
| `MediaLedger` | which media files are hashed again, and the bracket around a hash |
| `MonthlyArchive` | monthly export and import: revisions, lineage, branches, retirement |
| `PartsProofs` | the inductive invariants of the last two, and their theorems |
| `NativeDelta` | what the two routings share: a source that changes, points of its mirror, the rows that differ |
| `WhatsAppSource` | what header, message and event records a state of `ChatStorage.sqlite` gives |
| `WhatsAppRoute` | a delta of it: routing, changed keys, withdrawal, selective extraction |
| `MessagesSource` | what header, stub chat and message records a state of `chat.db` gives |
| `MessagesRoute` | a delta of it: routing, withdrawal, selective extraction |
| `Routes` | the two routings, of which a cache has one; `Subject` declares the variable that says which |
| `RouteProofs` | what a unit depends on, the inductive invariant of the routings, and their theorem |
| `Parts`, `MCParts` | the eight parts above from `Ranges` on, which share no state, side by side, and their instances |

### State and actions

`changes[h]` is the table `changes` of host `h`, one event per sequence
number: AUTOINCREMENT in one transaction at a time numbers events without
holes, so the sequence number is the index. `consumers[h][c]` is the row of
`export_consumers` (`stream` is `feed_id`, `parent` stands for `export_id` and
`ciphertext_sha256`, which are written together and only compared together).
`exports[h]` is `exports` and `verified_exports`, which are written together.
`files` are the archives in the output directories, under a name that is the
stream and the range. `heads`, `imported`, `applied` are `feed_imports`,
`imports`/`verified_imports` and `applied_changes`.

| action | code |
| --- | --- |
| `Register` | `save_identity` and the first transaction of `export_changes` |
| `Begin`, `Refuse` | start of the second transaction, its early returns and errors |
| `Publish` | building the archive, up to `os.replace` |
| `Verify`, `VerifyFails` | `verify_archive`, with the unlink |
| `Recover`, `RejectExisting` | the branch taken when the file exists |
| `Commit` | fsync, ledger, cursor and receipt |
| `Stop` | death of the process or any exception: rollback, files stay |
| `Sync` | any other writer transaction, through the triggers |
| `EditIdentity`, `MapScope` | `init`/imports, and `scope map` with its crash |
| `Fetch`, `Acknowledge`, `Decline`, `ConfirmStops` | `confirm`: before its transaction, its outcomes, its death |
| `Upload`, `Lose` | the environment of `confirm` |
| `Import` | the delta branch when it records the archive; every other outcome changes no state of the model |
| `Clone` | a copy of a data directory: same producer id, same streams, same journal |

Between `Begin` and `Commit` a process holds the writer lock of its cache
(`Holding`), so nothing else writes that cache; everything outside it — other
hosts, files, destinations, receivers, the identity file — goes on.

Left out of the changefeed: the contents of events (an event is the atom that was captured), the
media blobs, `export_set`, the identity URNs, encryption. A ciphertext digest
and its export id are one atom, because the id is inside the authenticated
ciphertext. Two caches do not publish into one directory at the same moment
(`DirectoryFree`), as they do not by default, where the directory is `exports` in the
data directory (`cli/extra.py:53`); one copy taking over the directory of another is
modelled. With one `--output` for both they could: section 5 says what comes of it.

### The cache and its replicas

A database is a record (`Database`), one field per table; an operation of the
code is an operator from a database to a database, so a transaction is a
composition of operators and an action applies it whole. What the triggers do
is part of the write that fires them: `JournalHead`, `WriteRevision` and
`WriteObservation` append to `journal`, `MarkDirty` and `MarkIdsDirty` mark
imported bindings. `body` is the observation time inside the stored JSON, which
decides whether `set_head` journals a record event.

| action | code |
| --- | --- |
| `Begin`, `TakeSnapshot` | `run_sync` up to the extraction; rows in `Faulty` may end in `stats.errors` |
| `Capture` | `capture` in one transaction: `upsert_many`, `observe_many` |
| `Reconcile` | the `mark_absent` transaction |
| `Complete`, `Abandon` | `save_run("complete")` with the checkpoint; every other end |
| `SourceEdit` | the application that owns the source |
| `Import` | `apply_events` of a batch of any size, one transaction |
| `LocalWrite` | an upsert of the replica's own: its sync, a curated link or alias |
| `ResolveConflict`, `PurgeEntity` | `conflicts resolve --keep`, `purge` |

Abstractions: the content of a record is its revision digest; a record is seen
in one native table; entity ids are written as their URNs, since the code never
reuses one; sets stand for the intervals of ids (their algorithms are modelled in
`Ranges`); a conflict is reported once, however often; all hosts read one clock,
on which runs start at different milliseconds and local operations may fall on
any. A batch of a sync is one record, so it can end at every place a batch can.
`witnessed`, `touched` and `orphaned` are history variables. The transport between the
journal and `Import` is what `Changefeed` proves: a prefix of one journal.

### Native capture

`mirror` and `cache` are two databases; a step of the collector is one
transaction of one of them. `pc` is where `_run_prepared_sync` is, `todo` the
rows `run_sync` has still to extract.

| action | code |
| --- | --- |
| `TakePending`, `NewPoint` | `collect`: a pending point, or one prepared from the source |
| `FindReceipt`, `Recover`, `Validate` | receipt lookup, `_recover_pending_policy`, `validate` and `check_parent` |
| `Cover`, `CoverFull`, `CoverSelective`, `Resumed` | `_messages_coverage`, `_whatsapp_coverage` over `CaptureCoverage.begin`, `resume`, `restart_full` |
| `Start`, `Extract`, `ExtractFails`, `Flush` | `run_sync` with a prepared point; a batch commits when it is full, at a large row, or at the end |
| `CompleteRun`, `PartialRun`, `Acknowledge` | finish with the receipt, the end with errors, `acknowledge` |
| `Abort`, `RefuseCompletion` | a batch is refused, and the run ends `failed`; its completion is refused, which is rolled back, and the run stays `running` |
| `Crash` | death of the process, at any step |
| `OtherWriter`, `RestoreCache` | another writer of the cache; a cache restored from archives |

A row stands for what is extracted at once. The projection epoch is kept as "mine
is the present one", which is all the code asks of it. The source is edited while
the collector is at rest, which loses nothing: a point is one view (`SourceView`),
and what it reads is frozen in the mirror. Other writers act while an attempt is
open, where they matter.

### Parts

| module | actions | code |
| --- | --- | --- |
| `Ranges` | `Stamp`, `Forget`; `Bind`, `LocalChange`, `Translate`; `Stage`, `Withdraw` | `freshness.py`; triggers and `translate` of `import_ranges.py`; `merge`, `subtract`, `stage` |
| `SourceView` | `OpenView`, `Pin`, `ReadHeader`, `ReadFrame`, `Validate`, `CloseView` | `_open` in its order, `read_changes` frame by frame; `WalPages.read` is `Body` |
| `PageOwners` | `StartUpdate`, `Visit`, `Own`, `Build`, `EndUpdate` | `PageIndex._apply`: `Visit` is `link` and `visit` of one tree page, `Own` one overflow page, `Build` the refusal and the build after it, `EndUpdate` the orphans and the commit |
| `MonitoredSync` | `Prepare`, `Reuse`, `Rearm`, `BeginRun`, `Read`, `Flush`, `Finish`, `Fail` | `SyncSession` around `run_sync`; `SourceMonitor` as operators |
| `MediaLedger` | `BeginScan`, `ScanFiles`, `OpenMedia`, `PublishBlob`, `VerifyBlobs`, `Abandon` | `prepare`, file by file, with `capture_attachment` |
| `MonthlyArchive` | `StartExport`, `CollectBucket`, `SkipBucket`, `PublishBucket`, `RecordBucket`, `EndExport`; `CheckLineage`, `ApplyArchive`, `AcceptBranch` | `plan_buckets`, `write_archive`; `_lineage_check`, `_apply_records`, `resolve_conflict` |
| `WhatsAppRoute` | `PreparePoint`, `CoverPoint` | the validators of `native_whatsapp.collect`; `_whatsapp_coverage` and the extraction it asks for |
| `MessagesRoute` | `PrepareMessages`, `CoverMessages` | `collect_native` with `prepare_media`; `route_changes`, `_messages_coverage` and the extraction it asks for |

The environments (SQLite's log and trees, the file system and its clock, kqueue,
the application) are modelled as far as the code relies on them, and marked
external.

Abstractions. A frame stands for its chain, since a checksum covers the frames
before it. Keys of a tree page have no order, so the key bounds the code checks
against damaged images are left out; an update may be refused where the code would
accept it, and then builds. The monitor's dirty set, `unwatch` and symbolic links
are left out: they decide nothing about reuse. The clock of the media ledger does
not run backwards (the code goes back to a full capture if it does); `fleeting` is a
history variable, the rows whose file came to be while they were captured. `Watch` and
`Connect` take the paths of a loop at once: a monitor that fails on the way is not used
again. One archive
export of a cache runs at a time, and `StartExport` serialises exports of different
caches; the catalogue, blobs and the adoption of `identity.json` say nothing of a
month. A member list, a name, a text is one value; group-info rows are known
by their chat; a unit is the set of records it emits, so that two units emitting one
record (two chat rows of one JID) are seen where `take` refuses them but not in what
the record then says.

## 3. Runs

| run | instance | what it shows |
| --- | --- | --- |
| `changefeed` | one host, one consumer, two exporters with batch sizes 1 and 3 and room for two events in a member, two captures, two identity versions, two confirmers, one destination, one failure; about 660 000 states | types, `ExportedExactlyOnce`, `ParentLinked`, `ProofsArePrefix`, `ImmutablePublication` |
| `changefeed_clone` | a host and its copy, two events that make the copies diverge, two policies, one exporter, one directory, one receiver, one failure; about 1 280 000 states | `FaithfulBatches`, `CommittedFileKept`, `OneHistory`, `CommittedPrefixHeld` and the refinement `ImplementsLog` |
| `changefeed_live` | the first instance with one confirmer and one identity version, under fairness; about 20 000 states | `EveryCaptureExported`, `EveryCaptureDelivered` |
| `changefeed_retry` | one exporter | violated: see section 5 |
| `changefeed_identity` | one exporter, two identity versions | violated: see section 5 |
| `replication` | a collector and a replica, one record with two contents, two runs, two local operations; about 470 000 states up to symmetry | `TypeOK`, `FreshnessWitnessed`, `HeadIsMostRecent`, `TranslationCoherent`, `ReplayNeverBlocked`, `ReplicaConverges`, `LocalEditsSurvive`, `CheckpointMatchesSnapshot` |
| `replication_overlap` | two processes sync one cache | violated: see section 5 |
| `replication_partial` | one process, a row that fails to extract | violated: see section 5 |
| `replication_index` | a live and a tombstoned content | violated: see section 5 |
| `capture` | three rows (a note, a film that ends a batch, a chat header), two contents, two policies, three points, three disturbances; about 1 120 000 states, under fairness | types, `PointExact`, `MemoSound`, `NothingLost`, `SupersededStaysRetired`, `SelectionComplete`, the refinement `ImplementsHandoff`, `EveryPointAcknowledged` |
| `capture_partial` | the same with a row that never extracts | violated: see section 5 |
| `parts` | the eight parts of `Parts` (the interval tables as three subjects), each on an instance of its own; about 1 360 000 states | the properties below |

The properties of `replication` say: the time a cache gives for a head or an
observation is one at which that content was seen or chosen; no stored revision
is later than an undisputed head; the translation index agrees with a lookup
for every key not marked dirty; the next events can always be replayed; a
caught-up replica agrees with the collector on every record neither side wrote
by hand, sighting times included; an import only replaces content the producer
had; a checkpoint commits only over observations that say what its snapshot
held. They are stated for one sync at a time per cache; `replication_overlap`
shows what is lost without that.

Those of `capture` say: a completed capture leaves the cache with the rows of its
point, present or absent; a memoised unit is what extraction would give under the
policy it names; a point is acknowledged only with its receipt, and what the mirror
drops the cache has; a retired attempt never comes back under its token; a
selective attempt covers every row it withdrew. `Handoff` puts them together.

Those of `parts`: the freshness table gives each id its own latest sighting,
and stays well kept (`SightedPointwise`); a refresh is translated to the present rows of its ids
(`TranslationExact`); coverage is the set staged and not withdrawn
(`CoverageExact`); a validated view and its changed pages are those of one
committed state, and nothing changed since the cursor is missing (`ViewExact`); the
page graph is the source's (`GraphFollows`) and every row that appeared, went, moved or
was written is selected (`RowsSelected`); a capture is reused only if the source still is what the
cache says (`ReuseSound`); a row is not read again only while its evidence is the
file's content (`LedgerSound`); one exporter makes one history of a month
(`OneLineage`), the second of two branches is refused unless the user accepts it
(`BranchesRefused`, for one import at a time), and importing a history in order restores
what was exported
(`RestoreExact`); after a selective capture of WhatsApp or Messages the cache holds what
a full extraction of the point would give (`PointRetained`), but for a stub chat
(section 5).

Bounds. Batch size 1, a size above the member bound and a member of two events
give every way a slice can end (size, bytes, end of journal). Two captures and
an identity event give two batches and a retry whose slice has grown. Two
exporters are enough for every race on one consumer, since only one holds the
lock. One failure puts a crash at every step and lets the retry run to the end;
two hosts give a copy at every moment, with batches before and after it. The
bounds `MaxCaptures`, `MaxIdentity` and `MaxFailures` stop the journal, the
edits and the failures, so a run ends: deadlock is not checked, because a
system that has shipped all it has may stop.

For `replication`: the operations treat records one by one, so one record shows
what they do to it; two contents give every pair of agreeing and differing
heads, and A → B → A; two runs give an edit, a disappearance, a reappearance
after a failed run, and a resighting; two local operations give an edit and the
resolution of its conflict, or an edit and a purge. Four clock values order all of them
in every way, ties included. Nothing there must eventually happen, so it has no
fairness.

For `capture`: three points give a baseline, a delta after it and one after an
interruption; two policies an upgrade with a point pending; three disturbances a
death, another writer and an edit in one behaviour, in any order. The film closes a
batch early, so that an attempt can die with rows of a point both in and out of the
cache. For `parts`: four ids and two times give every way two intervals meet, with one
between; three keys an interval split in the middle; two log generations and three
versions a log begun anew under an open view; four pages, two of them roots, and one page written besides, any two databases of that size,
before and after: trees that grow a level, split, join and free, overflow chains that
move, pages that change between the two kinds; a database and a photo that is
missing at first, with three syncs (the first two to be eligible, the third to reuse),
a watch on each kind of path and on a path that comes and goes; a clock of four ticks,
with a grain and a window of two, a file changed inside, at the edge of and outside of
the racy window, or missing at first; an exporter and its copy, two months and three
archives a branch, its acceptance and a revision after it; two changes of the WhatsApp
or the Messages tables and two captures a row and what it depends on changed together
or one after the other, over rows chosen so that each kind of dependency is there:
leaving out one of the routes of `RoutedMessages` or `RoutedOrphans` violates
`PointRetained`. That of replies is the exception: the decoder counts them, no record
holds the count. `Parts` composes by `subject`: the parts share nothing, so
interleaving them would only multiply states. No part must go on for ever, so deadlock
is not checked in `capture` and `parts` either. `Forces = {FALSE}`: a forced export
differs only in what it skips (the invariant behind `OneLineage` was checked with both
values, 5.1 million states).

Fairness of `capture` (`FairSpec`): a watch or a scheduler calls `collect` again
whenever it has stopped, and a collector that runs takes its next step: `WF` of
`Collect`. Deaths, other writers and policy changes are bounded and not fair.

Fairness (`ExportFairness`, `DeliveryFairness`). The tool is run by a
scheduler: every consumer's export is called again and again (`WF` of
`Register` per consumer), a running call takes its next step, an uploader and a
confirmer work through `archive pending`. Confirmation needs `SF`: it is
enabled again and again rather than continuously, because exporters take the
writer lock, and SQLite's busy handler lets a waiting writer in. Failures are
not fair and finitely many. Nothing is assumed about captures, edits, copies
or imports.

## 4. Proofs

Each theorem holds for all values of the constants under the named assumptions of the
modules it is about. They say that bounds are numbers, that the value for "none" is
none of the values it stands beside (`NoneAssumption`, `DeliveryAssumption`, `FreshnessAssumption`,
`MediaLedgerAssumption`), that files, records and paths are finitely many where they are
counted or purged, that there is at least one policy, and, of the world outside,
`Grain <= Window + 1`: the clock of the file system is no coarser than the racy window
of the media ledger. Of a source database they say what SQLite and its schema give:
tables are finite, rows have integer ids, ZSORT and the chat of a join row are
integers, and at the start the guids of `chat.db` are unique
(`WhatsAppRouteAssumption`, `MessagesRouteAssumption`).

An invariant a run checks is seldom inductive. Each part has a stronger one, whose
conjuncts TLC checked, mostly on an instance larger than that of the run, before they
were proved.

### The changefeed

`ChangefeedProofs`; under `ExportAssumption`, any
number of hosts, consumers, exporters, confirmers, destinations and receivers, any
batch sizes, event sizes and bounds.

| theorem | states |
| --- | --- |
| `TypeCorrect` | `SafeSpec => []TypeOK` |
| `ExactlyOnce` | `SafeSpec => []ExportedExactlyOnce` |
| `ParentsLink` | `SafeSpec => []ParentLinked` |
| `BatchesFaithful` | `SafeSpec => []FaithfulBatches` |
| `NoSplicedHistory` | `SafeSpec => []OneHistory` |
| `PrefixHeld` | `SafeSpec => []CommittedPrefixHeld` |
| `DeliveryIsPrefix` | `SafeSpec => []ProofsArePrefix` |
| `CommittedFilesKept` | `SafeSpec => []CommittedFileKept` |
| `PublicationsImmutable` | `SafeSpec => ImmutablePublication` |
| `ChangefeedImplementsLog` | `SafeSpec => ImplementsLog` |

`Invariance` gives the inductive invariant `IInv` in three layers, `FullInvariance` two
more.

1. `HostInv`: types; a call in progress has a live host and a registered row; one
   writer per host; a host that does not exist is empty; and `BatchesAreNext`: what an
   exporter that published or adopted a file has in hand starts at the cursor of its
   row, names its parent and agrees with the journal. It survives the steps of others
   because they do not hold the lock (`OneWriter`), and a growing journal (`Growth`).
2. `ChainInv`: a commit takes such a batch (`CommitFacts`), so it extends the chain of
   its consumer by exactly what follows the cursor. The streams of two consumers
   differ (`StreamsRegistered`), so one's commit does not disturb the other's chain.
3. `ReceiverInv`: ids are never reused (`IdsMinted`, `IdsUnique` over every archive
   that exists anywhere); every file, committed or not, continues what some live host
   had committed (`FilesFromAHost`); a receiver's imports are closed under parents. An
   import therefore continues a batch the receiver already has *and* that host
   committed, so the receiver holds that host's journal up to it (`HeldUpToParent`),
   and the new prefix is that host's. The check of `applied_changes` excludes the
   overlap that would contradict it.
4. `DeliveryInv`: a checkpoint and a proof name a committed batch, also the one a
   confirmer read before its transaction (`ProvingCommitted`); no batch is empty; and
   a batch is proved exactly if it ends at or before the checkpoint
   (`ProvedUpToCheckpoint`). A confirmer that comes late finds its batch proved, one
   that comes early finds a gap before it (`Decline`); neither changes anything.
5. `DiskInv`: one exporter works in a directory; a directory has one file of each
   name, and an archive lies in one file; and the file a call has not verified yet is
   its own and in no ledger (`UnverifiedUncommitted`), so that the unlink of
   `VerifyFails` hits nothing that was committed. Layers 4 and 5 were checked on two
   hosts with a destination, a confirmer and two exporters.

The refinement needs all of it: `Commit` extends the log by one batch only because the
batch is the next of its stream, `Acknowledge` moves the durable cursor to the end of a
batch the log has, and `Import` gives a receiver a longer prefix of one log.

### The sync run

`JournalProofs`, of `Replication`, for any records, contents, failing rows, runs,
replicas, local operations and purges, under `OneSyncer` (no two processes that sync):

| theorem | states |
| --- | --- |
| `ObservationsFollowRun` | `Spec => []RunInv` |
| `CheckpointsFaithful` | `Spec => CheckpointMatchesSnapshot` |

`CheckpointMatchesSnapshot` is not inductive: it speaks of the moment of the
commit only. `RunInv` follows the run up to there. The clock passes every sighting
before a run starts (`PastSeen`), so at its start all sightings are older
(`StartedFresh`). Each capture gives its row the content of the snapshot and a
sighting that is not older than the run, and leaves all other rows as they were
(`ExtractedSighted`). `mark_absent` can therefore tell by the times alone which
rows the run did not see: it leaves the captured ones and marks all others
(`ReconciledHeld`). A run with no errors then emitted all its snapshot held. Of
each operation of `CacheStore` the proof needs one lemma: that it leaves the
observations alone (`UpsertKeeps`), or what it writes to one row
(`ObserveWrites`) or to all (`MarkAbsentFacts`). `OneSyncer` is needed: the run of
another process would stamp or mark rows with its own time, and ordinary syncs do
not exclude each other (see `replication_overlap`).

### The journal and its replicas

`JournalProofs`, over the lemmas of `ReplicaProofs` on each operation of the store and
each kind of event:

| theorem | states |
| --- | --- |
| `TypeCorrect` | `Spec => []TypeOK` |
| `IndexIsCoherent` | `Spec => []TranslationCoherent` |
| `ReplayIsNeverBlocked` | `Spec => []ReplayNeverBlocked` |
| `EditsSurviveImports` | `Spec => LocalEditsSurvive` |
| `TimesAreWitnessed` | `OneSyncer` implies `Spec => []FreshnessWitnessed` |
| `HeadsAreMostRecent` | `OneSyncer` implies `Spec => []HeadIsMostRecent` |
| `ReplicasConverge` | `OneSyncer` implies `Spec => []ReplicaConverges` |

`Safe` is what holds whoever syncs: databases have their types and their index is
right where it is not dirty (`Sound`), no event of the collector's journal refers to
what was not told before (`JournalFaithful`), and each replica has bound what the
events it replayed said last (`Follows`). What the next event refers to is therefore
bound, so it applies; and an import that replaces a head finds it in the journal
before. `Exact` adds the times: what a cache dates was witnessed (`Seen`), and the
journal is in the order of its times, with no revision later than the head of its
record (`Ordered`). The order is lost if two runs with different start times write one
journal, which is why the last three theorems have `OneSyncer`.

`ReplicasConverge` says that a caught-up replica *equals* what the collector has, so
neither side may add to what the other has: `Converging` gives, for each record that
the collector did not write by hand, one history of what the journal tells of it.
A `View` is what a reader knows of a record (head and its time, revisions, what its
observation said last and when); `Heard` is the view after one more event, and `Told`
says that a history starts from nothing and follows the journal, each event fitting the
view it meets (`Fits`: a head event replaces the head there was and is not earlier, a
revision event repeats what the head event said). The collector holds the last view
(`Holds`), and a replica the view at its cursor (`Learnt`). There are two halves. Each
operation of the store must tell all that it changes (`Tells`): a write of a head with its
revision (`UpsertTells`), of an observation (`ObserveTells`), a refresh, and
`mark_absent`, which tells of each row it marks once (`AbsentTells`); that a run is not
earlier than what is stored is what `OneSyncer` gives. And each kind of event must teach
what it says, no more and no less (`EventLearnt`), along a batch of any length
(`ImportLearnt`), also where the replica has a revision already, or an observation under
another local id. A record that a person wrote or purged at the replica is out of the
claim there, whatever else the same batch brings. `Converging` was checked before it was
proved, on 930 000 states.

Replay is a recursive function over a batch of any length. The library's theorems
on induction take an operator, which the provers cannot instantiate, but the same
is had in first order: the replay of a batch is a function from how many events were
replayed to the database then (`TraceExists`), the numbers at which a claim holds are a
set, and a set of numbers that is not empty has a least one (`LeastNumber`, from the
well-foundedness of `<`). `UpTo` and `BatchLeads` carry claims along a batch that way.
The parts of `Safe` and `Exact` were checked with three local operations and four clock
values, 5.2 million states; that is also how the exception of `HeadIsMostRecent` was
found (section 5).

### Native capture

`NativeCaptureProofs`, for any rows, headers, contents, policies, points and
disturbances (`Spec`, with no fairness):

| theorem | states |
| --- | --- |
| `TypeCorrect` | `Spec => []TypeOK` |
| `PointsAreExact` | `Spec => []PointExact` |
| `MemoIsSound` | `Spec => []MemoSound` |
| `NothingIsLost` | `Spec => []NothingLost` |
| `SupersededIsRetired` | `Spec => []SupersededStaysRetired` |
| `SelectionIsComplete` | `Spec => []SelectionComplete` |
| `CaptureImplementsHandoff` | `Spec => ImplementsHandoff` |

The invariant relates the two databases and the collector between them. In the mirror,
the tokens between a point and its parent are those it had under earlier policies
(`Lineage`), and a delta names exactly the rows that differ (`DeltaExact`). Between the
databases, the parent is captured, what was offered after it is not, and the point itself
is once it is acknowledged (`Captured`); where the collector stands tells which
(`Control`), and an attempt in the cache is of that point, perhaps under an earlier policy
(`Owned`). In the cache, a current coverage point says exactly what is present
(`PointSound`), and what a current attempt has retained, has staged and has still to read
is all that the mirror has (`AttemptExact`). The last
is why a selective attempt may stop anywhere: what it withdrew is still to be read. Interference
is not assumed away; it costs the present epoch (`current`), and everything claimed of
an attempt is claimed while it is current.

### Media, monthly archives, the monitor, the view, the page graph

`PartsProofs` for the first two, `SourceProofs` for the others:

| theorem | states |
| --- | --- |
| `LedgerInvariance` | `LedgerSpec => []MediaInv` |
| `LedgerIsSound` | `LedgerSpec => []LedgerSound` |
| `LineageInvariance` | `ArchiveSpec => []LineageInv` |
| `ExporterMakesOneHistory` | `ArchiveSpec => []OneLineage` |
| `BranchesAreRefused` | `OneImporter` implies `ArchiveSpec => []BranchesRefused` |
| `RestoreInvariance` | `ArchiveSpec => []RestoreInv` |
| `RestoringGivesWhatIsHeld` | `ArchiveSpec => []RestoreExact` |
| `MonitorInvariance` | `MonitoredSpec => []MonitorInv` |
| `ReuseIsSound` | `MonitoredSpec => []ReuseSound` |
| `SourceInvariance` | `SourceSpec => []SourceInv` |
| `ViewIsOneCommit` | `SourceSpec => []ViewExact` |
| `PagesInvariance` | `OwnersSpec => []OwnersInv` |
| `GraphIsTheSource` | `OwnersSpec => [](GraphIsSource /\ GraphFollows)` |
| `UpdatesSelectAllRows` | `OwnersSpec => []RowsSelected` |

`MediaInv` dates things: no file is newer than the clock (`DiskDated`). An entry that is
not racy was fingerprinted when the file's time was more than a window past. The time of
a later write lags the clock by less than a grain, so with `Grain <= Window + 1` it is
another, and the entry vouches for the evidence (`LedgerVouches`). The
capture in progress has the same to say of what it has fingerprinted and read
(`TakeKeeps`, `TakeVouches`), and the second fingerprint, after the read, must equal
the first. The one gap, a file that was missing at both ends, is named (`ComingsSeen`,
`fleeting`; section 5).

`LineageInv`: a file of an exporter is one revision ahead of the exports rows of
its month, or is one of them (`Continues`), and one month has no two files of one
revision (`NamesDiffer`). The refusal to overwrite is what keeps it: without it an
orphan and a later export would both be the next revision. What is recorded or imported
was verified (`RecordedSound`, `ImportedSound`), so the removal of a damaged file
takes away nothing that counts.

`BranchInv` stands on it. Any two imported archives of a month are tied: one is in the
lineage of the other, or is accepted (`ImportsTied`). An archive past its lineage check
could pass it still (`CheckHolds`): archives do not change, acceptance is not taken back,
and no other import commits before its own, which is what `OneImporter` (no two processes
that import) gives. Without it `BranchesRefused` is false (section 5).

`RestoreInv` stands on `LineageInv` too. What is recorded of a month is a chain in which each archive
names all those before it (`RowsDescend`). While nothing disturbs an export, a month it
has passed needs no archive or is recorded as it is held (`PlansFollow`, `Settled`). On
the other side, once a target has imported a chain without a gap, a steady message is
there as the last revision of its month has it, or is retired if that has it no more
(`RecordsFollow`): the step is `Applied`, where the content of the target is among the
earlier ones the archive brings, and no later than its own (`Dated`), so that the import
sees no conflict. `RecordsFollow` was checked before it was proved, with one exporter,
two months and three writes, for some ten million states.

`MonitorInv`: a watch whose inode is no longer that of its path is rearmed, or an event
that will say so is waiting (`WatchesStand`); a database that is there is connected, or
the same (`DatabasesKnown`). A token is of the past (`TokenOf`): no generation and no
data version in it is later than the monitor and the world. `Follows` says what any
operation of the monitor may do: if the generation is the same in the end, there was no
event, and watches and connections are as they were. So if a token still stands after
operations and moves, it stood before each of them (`StandsBack`, `ShiftShows`), and
what was read under it is what is there (`RunSound`, `SummarySound`). The conjuncts
were also checked with two databases and with a database that comes late.

`SourceInv`: the index only grows within a generation, or its generation is a later
one (`Since`); a loss of power may cut it short, and ends the view. So an index that is
the same before and after the pin is the pinned one (`Pinning`, `SinceBoth`). While
frames are read, those read so far continue the cursor's, are of its generation, and the
table of changed pages, with what is pending over it, names the last frame of each page
they write (`ReadSoFar`, `Names`). The candidate then ends where the index does, so that
its content is what the connection reads (`ReadAll`); a frame that is read later for its
page says its whole chain again, hence is of that commit or refused. Of SQLite only
`LogFollows` is needed: the log holds what the index counts, and the generation in use
was begun, so that the next one is later than all.

`OwnersInv` is about any two well-formed databases, one before and one after, and any
pages written between them: whatever becomes a page of another kind is written, what is
freed need not be (`Between`). While an update walks (`WalkOK`), there is a set `D` of
pages it trusts without looking, closed under their children (`TrustedWhole`). Of `D` and
of the pages visited the index says what the source says (`KnownRight`, `KnownHang`), of
all others what the old graph said (`RestOld`, `EdgesRight`); and every page of the source
is among these, or hangs under one that waits (`CallsEnough`).

* Trust (`TrustStep`). A page that is not needed, and that a visited parent claims, heads
  a subtree that is as it was: none of it was written, since needing goes upward
  (`NeededUpward`), and none of it was freed, since it is reached. No page of it was
  visited before, since what is visited hangs under what is visited (`KnownHang`). So the
  subtree joins `D` unread, which is what makes an update cheap.
* Links (`LinkStep`). A child may still hang under an old parent. If no root is above that
  one, nothing above it is known (`KnownBelowRoots`), and `link` may have it all needed
  without taking trust back; if a root is, the update is given up.
* The end (`EndStep`). When nothing waits, `D` and the visited are the source's pages
  (`AllKnown`). Every other page left in the index is an orphan or hangs under one: the old
  edges among them are those of a forest, which `GraphOK` says in first order (a set with
  the roots that is closed under children has all nodes). So dropping what no parent
  claims drops the rest and nothing else (`RestDropped`), and with it its overflow pages.
* Rows (`EndRows`). What differs between the two databases has a cell on a page that was
  needed, visited or dropped, and all three are remembered (`RowsRemembered`).

`OwnersInv` was checked on every state of the pages' part before it was proved.

### Selective captures

`RouteProofs`, of `Routes`: any tables, rows, files and alias pairs, changed in any way
between any number of points, a point or any of its parts prepared as a baseline or as a
delta, a capture selective or full.

| theorem | states |
| --- | --- |
| `RouteInvariance` | `RoutesSpec => []RoutesInv` |
| `PointsRetained` | `RoutesSpec => []PointRetained` |

`RoutesInv` says that what the cache has covered is a full extraction of the tables of the
last covered point, which are the parent's while a point is pending, and that what the
mirror retains for a pending point (changed media, header keys, event keys) is exactly
what differs from that parent. The step that matters is a selective capture, and its
proof has the same four parts for both sources.

1. What is not routed is the same. `RowSame` lists what the records of a WhatsApp row take
   from elsewhere: its media and their files, its links, its chat, the message it replies
   to. A row that is not selected has all of it as before (`UnroutedSame`), so that a unit
   none of whose rows is selected has the records it had (`UnitSame`). For Messages the
   list is the definition of `MessageRecords`, one lemma an entry: attachments, their
   bytes and owner (`PartsSame`), the chat by join row or by inference (`ChatOfSame`),
   sender and subject (`IdentitySame`), the tombstone (`RecordsSame`).
2. What is routed is whole. The rows of a unit are selected together (`WholeGroups`), and
   the chats a keyed extraction loads are all it needs (`KnownEnough`); so the units
   emitted are those a full extraction would give.
3. What is withdrawn is what is emitted or gone. The units retained, less those withdrawn
   under their keys in the parent, plus those emitted, are the units there are
   (`UnitDomain`, `MessageUnitsFollow`): a unit that lost a row, moved to another key or
   vanished is withdrawn under its old one. Uniqueness of guids is used on both sides of
   the delta, which is why a capture of tables without it is full.
4. Keys are extracted again alone. An entry of a key that did not change is the entry
   there was (`EntriesSame`, `HeadersKeyed`); an event has its key, plain or
   disambiguated, by the rows that share its base key (`EventSame`, `EventsKeyed`).

For the stub chats of Messages the equality is false, as section 5 tells. What is kept is
among what should be, and a stub that is missing has a `ck_chat_id` that a row with a join
row has too (`MessageStubsFollow`). `CkKept` is the reason that it has it *now*: a row that
gave the `ck_chat_id` up, or went, or got its first join row, would have brought all orphans
of the stub into the routing (`StubRefs`).

The least or greatest row of a finite set is used all over (the representative of a unit,
the owner of an attachment, the chat of a message in several): that a finite set that an
order is total on has a first element is proved once (`FirstOf`), by the least size of a
set that has none.

### The interval tables

`RangesProofs`, of `Ranges`, under `FreshnessAssumption`, `ImportAssumption` and
`RangesAssumption`, for any ids, times, runs, requests and lists of spans:

| theorem | states |
| --- | --- |
| `RangesInvariance` | `RangesSpec => []TypeOK` |
| `SightingsPointwise` | `RangesSpec => []SightedPointwise` |
| `TranslationIsExact` | `RangesSpec => []TranslationExact` |
| `CoverageIsExact` | `RangesSpec => []CoverageExact` |

The code keeps its lists sorted and walks them. In the model a list is the set of its
elements, and `InTurn` takes them in order. What a loop computes is an induction over
the list, which the prover cannot do; the proofs go another way. A loop has a run, the
function that gives what it holds after each turn (`LoopRuns`); a set of numbers that
contains 0 and passes each turn contains them all, since the least number outside would
have one before it (`LeastNumber`, `UpTo`). With the turns in order (`TurnOfEach`) this
gives a rule for loops (`LoopLeads`): what holds at the start and passes each turn, after
the elements before it, holds at the end. Each loop of the code then has an invariant.

1. Spans. `id_ranges`, `merge` and `subtract` keep the points (`IdRangesExact`,
   `MergeExact`, `SubtractExact`) in lists whose spans do not touch. For `subtract` the
   invariant says where both cursors and the position are, and that the pieces so far are
   what is retained and not cut below that position. A cut that reaches past a span is
   not skipped, because the next span meets it again.
2. Tables. `Gives` says what a table says of a key. In a table whose rows share no key,
   the one predecessor of a key covers it or no row does (`CoveringExact`), and a query
   that starts at one predecessor finds all rows that overlap a span
   (`OverlappingExact`): the code relies on both and checks neither. Coalescing changes
   nothing that a table gives (`CoalesceExact`).
3. Coverage. `CoverInv` is `CoverageExact` with its types, by 1.
4. Translation. `ImportInv` says that a key which is not dirty has in the table what its
   binding gives. A dirty key is taken out and put in alone, joined with neighbours of
   the same offset (`TakeOutExact`, `InsertExact`), so after a drain all keys agree. A
   request is then known if no key of it is unbound, as a hole stops the count of
   `covered`; its local ids are those of its eligible keys.
5. Sightings. `SightInv` compares the table with one sighting per id. The pieces of a
   stamped span give each key the later of two sightings (`PiecesExact`), stand side by
   side (`NoHole`), and so only the first and the last can touch a row that stays; the
   two neighbours the code looks at are therefore all that could be coalesced, and the
   table stays well kept. That no sighting is `Never` is the one assumption on a
   constant this needs.

### Only model-checked

Liveness (`EveryCaptureExported`, `EveryCaptureDelivered`, `EveryPointAcknowledged`):
fairness and `ENABLED` are beyond the prover. The other way round, `parts` checks no type
invariant of its own: what its tables and variables hold is part of the theorems above
(`RangesInvariance`, and the types in `MediaInv`, `LineageInv`, `MonitorInv`, `SourceInv`,
`OwnersInv` and `RoutesInv`).

## 5. Where the code and its documentation differ

* `changefeed_retry`: the documentation says that after a publication whose
  transaction did not commit, the retry verifies and commits that very file
  (`docs/incremental-preservation.md:133`). The retry looks for a file with the
  range *it* computes from the present journal and its own `--batch-size`. If a
  sync has journaled since, or the identity changed, or the size differs, it
  publishes another file from the same start; the first stays. Restoring a
  directory that holds both stops the stream at the orphan: the committed batch
  is then refused as a branch. No event is lost to the committed chain
  (`ExactlyOnce` holds for it).
* `changefeed_identity`: `export_changes` writes back the identity its process
  read at start-up, without a lock, so a scope mapping saved in between is lost
  from `identity.json` (`docs/decisions.md:52`).

* `replication_overlap`: a sync writes what it saw at its start over whatever
  the cache holds, and ordinary syncs of one cache may overlap; the head is then
  not "the most recently observed content" (`docs/decisions.md:86`), and a
  sighting of the newer content can stand beside the older one. The next run
  repairs it.
* `replication_partial`: absence is reconciled before errors are looked at, so a
  row that fails to extract is marked absent though the source has it
  (`docs/operations.md:68`, `docs/sources.md:131`). The run is `partial` and no
  checkpoint moves; the mark stays until the row extracts again.
* `replication_index`: `set_head` leaves the `tombstoned` column as it was;
  `rebuild-index` goes by that column, the index itself by the record
  (`docs/architecture.md:88`).

* `capture_partial`: a point is acknowledged only by a run without errors, and no
  new point is prepared before. One row that cannot be extracted therefore ends
  every further collection of the source at the same point, while the documentation
  calls such a cache still usable (`docs/integration.md:69`).

Seen while modelling, and claimed by no run:

* Two archives whose lineages do not include one another "are a **branch conflict**.
  Import stops with exit code 6 and records the conflict" (`specs/archive-format.md:129`).
  The lineage is checked before the transaction that records the archive
  (`archive/import_.py:269`, `:295`), with the blobs restored in between. Two processes
  that import two branches both pass the check, both archives are recorded, and no
  conflict is: with two `Importers`, TLC finds `BranchesRefused` violated.
* A data directory and a copy of it keep the same stream, and so give their batches the
  same names. The writer lock belongs to one cache. If both export to one `--output` at
  once, both can find the name free (`archive/incremental.py:85`), and the later
  `os.replace` puts other bytes under a name that the other may have committed.
* `_apply_records` retires what its immediate predecessor brought and this archive
  no longer holds. Importing r1 and then r3 leaves live what r2 dropped; so
  `RestoreExact` speaks of imports without gaps. It speaks of `Steady` messages
  only: one that changed month between two exports can end tombstoned or in
  conflict, by the order of the imports.
* A death between the publication of a monthly archive and its ledger row leaves a
  file that no later export writes over: the bucket is refused, and the rest
  of that export run with it, until the file is moved away.
* Two monthly exports of one cache at once take the same revision; the model has one
  at a time.
* A media file that is missing at the first `lstat`, appears, is read by
  `capture_attachment` and is removed again before the second `lstat` ends between two
  equal fingerprints (`errno:2`, `adapters/media_ledger.py:127`). The row is clean
  (`:116`), so its evidence stays `available` until the file or the row changes, though
  missing files are to be recorded as `missing`
  (`docs/incremental-preservation.md:1391`). `LedgerSound` names the exception (`fleeting`).
* A head need not be "the most recently observed content" (`docs/decisions.md:86`) in
  one more case, outside the bounds of `replication` and found while its theorem was
  proved. A replica imports a batch that ends between a record event and its revision
  event (batches end anywhere, `archive/incremental.py:60`), which makes a conflict with
  a local edit; the record is purged, which leaves the conflict
  (`cache/curation.py:227`); the next batch brings the revision; the conflict is then
  resolved. No head is stored, so the `UPDATE` of `set_head` changes nothing, but it
  stamps the revision with the time of the resolution (`cache/store.py:237`). A later
  event can make an older content the head. `HeadIsMostRecent` names the exception:
  `orphaned` holds the records whose conflict was resolved without a head.

And one that a document does touch: "only affected inferred-chat keys" are withdrawn
(`docs/incremental-preservation.md:759`). `route_changes` names the `ck_chat_id` of
every routed row, one with a join row included (`adapters/messages/dependencies.py:180`),
but routes the orphans of that key only if the key or the join changed. If a joined
message is merely edited, the stub chat that an orphan still needs is withdrawn, not
emitted again, and marked absent until a full capture or a change of that orphan.
`MessagesFollow` therefore lets stubs be missing whose key a joined message carries,
and nothing else.

## 6. Plan

Done: the changefeed, end to end; the canonical cache, the ordinary sync run and
replay on a replica; the native capture over its two databases; the interval
tables, source readers, monitor, media ledger and monthly archives; the routing of a
WhatsApp and of a Messages delta. Next, in this order:

1. The auxiliary alias views of WhatsApp, and two monthly exports of one cache at once.
2. The order of keys in `PageOwners`, so that the bounds checked on the way are guards.

Not modelled, and why: encryption and container layout, JSON schemas, the mapping
of source columns to record fields, the Rust decoder, URN derivation, full-text
search, queries, the command line and the installer: they keep no state across
calls or are pure data mappings, and what they could get wrong is better tested
than model-checked. `snapshot.py` copies a database through SQLite's own backup.
