---------------------------- MODULE ExportChanges ----------------------------
(***************************************************************************)
(* The producer side of the changefeed: the preservation journal of a      *)
(* cache and the exporters that publish bounded batches of it              *)
(* (archive/incremental.py, cache/changefeed.py).                          *)
(*                                                                         *)
(* A host is one chatstore data directory: a SQLite cache and an           *)
(* identity.json. Cache.write() is BEGIN IMMEDIATE, so a host has at most  *)
(* one writer transaction open; what a transaction writes is visible to    *)
(* other processes only at its commit. Archive files are outside the       *)
(* transaction: they appear when they are published.                       *)
(*                                                                         *)
(* Abstractions. An event is the atom it captures (a sync's capture or an  *)
(* identity version); its encoding is its size, Bytes. A ciphertext digest *)
(* and the export id are minted together, for one encryption, and are one  *)
(* atom, id. The uuid of a stream is the pair that registered it. Media    *)
(* blobs, the export set and the archive's other metadata are left out.    *)
(***************************************************************************)
EXTENDS Integers, Sequences, FiniteSetsExt

CONSTANTS
  Hosts,           \* data directories
  Origin,          \* the one that exists from the start; others are copies
  Captures,        \* what a sync, a resolve, a link... can journal
  MaxIdentity,     \* bound on the versions of identity.json
  Consumers,       \* names given to --consumer
  Policies,        \* --media settings
  Dirs,            \* output directories
  Exporters,       \* processes running `archive export --consumer`
  Limits,          \* values of --batch-size
  Bytes,           \* encoded size of each event
  MaxMemberBytes,  \* container.DEFAULT_LIMITS['max_member_bytes']
  MaxCaptures,     \* bound on the journal: no capture, no new identity beyond it
  MaxFailures,     \* bound on crashes, exceptions and failed verifications
  None

Identities == 1..MaxIdentity
Event == Captures \cup Identities
Streams == Hosts \X Consumers

VARIABLES
  alive,      \* hosts whose data directory exists
  changes,    \* table changes: the journal, one event per sequence number
  identity,   \* identity.json
  captured,   \* meta.feed_identity: the identity last journaled
  consumers,  \* table export_consumers
  exports,    \* tables exports and verified_exports, written together
  files,      \* archive files in the output directories
  pc,         \* where each exporter is
  call,       \* the arguments it was called with
  batch,      \* the archive it has published or recovered
  minted,     \* export ids given out so far
  failures    \* failures so far, for MaxFailures

exportVars == <<alive, changes, identity, captured, consumers, exports, files,
                pc, call, batch, minted, failures>>

Row == [stream : Streams, sequence : Nat, parent : Nat \cup {None}, policy : Policies]
Call == [host : Hosts, consumer : Consumers, limit : Limits, dir : Dirs, policy : Policies]

\* Bounds, and None is none of the values it stands for.
ASSUME ExportAssumption ==
  /\ Origin \in Hosts
  /\ MaxIdentity \in Nat \ {0} /\ MaxCaptures \in Nat /\ MaxFailures \in Nat
  /\ Limits \subseteq Nat \ {0}
  /\ MaxMemberBytes \in Nat
  /\ Bytes \in [Event -> Nat \ {0}]
  /\ None \notin Nat /\ None \notin Row

\* What a delta's authenticated manifest says and its changes.jsonl holds:
\* events is a function on the sequence numbers after+1..through.
Feed(s, a, b, evs, par, pol, x) ==
  [id |-> x, stream |-> s, after |-> a, through |-> b, events |-> evs,
   parent |-> par, policy |-> pol]

\* The writer lock of SQLite: held from the start of the second transaction
\* of export_changes to its commit or rollback.
Holding(p) == pc[p] \in {"open", "verify", "commit"}
Free(h) == \A p \in Exporters : Holding(p) => call[p].host # h

\* Two caches never publish into one directory at the same time: a file name
\* carries the stream, so only a copied cache could, and nothing in the code
\* guards against that. One may take over the directory of another.
DirectoryFree(d) == \A p \in Exporters : Holding(p) => call[p].dir # d

----------------------------------------------------------------------------
(* The slice of the journal a batch takes: as many events after the cursor *)
(* as the limit and the byte bound of one archive member allow.            *)

Fits(h, after, limit, b) ==
  /\ b \in after + 1 .. Len(changes[h])
  /\ b - after <= limit
  /\ MapThenSumSet(LAMBDA i : Bytes[changes[h][i]], after + 1 .. b) <= MaxMemberBytes

EndsAt(h, after, limit, b) ==
  Fits(h, after, limit, b) /\ ~ Fits(h, after, limit, b + 1)

\* Can hold the slice of exporter p as the batch with export id x.
RowOf(p) == consumers[call[p].host][call[p].consumer]
Slice(p, b, x) ==
  LET r == RowOf(p)
      j == changes[call[p].host]
  IN  Feed(r.stream, r.sequence, b, [i \in r.sequence + 1 .. b |-> j[i]],
           r.parent, r.policy, x)
SliceEnds(p, b) == EndsAt(call[p].host, RowOf(p).sequence, call[p].limit, b)

\* The file name holds the directory, the stream and the sequence range.
SameName(f, d, a) ==
  /\ f.dir = d
  /\ f.archive.stream = a.stream
  /\ f.archive.after = a.after
  /\ f.archive.through = a.through
Existing(d, a) == {f \in files : SameName(f, d, a)}

----------------------------------------------------------------------------
\* The call of p returns or dies, and with it everything it held.
Return(p) ==
  /\ pc' = [pc EXCEPT ![p] = "idle"]
  /\ call' = [call EXCEPT ![p] = None]
  /\ batch' = [batch EXCEPT ![p] = None]

\* Every writer transaction other than an export: sync batches, resolve,
\* link, import. The triggers journal what it changed.
Sync(h, e) ==
  /\ h \in alive /\ Free(h)
  /\ Len(changes[h]) < MaxCaptures
  /\ changes' = [changes EXCEPT ![h] = Append(@, e)]
  /\ UNCHANGED <<alive, identity, captured, consumers, exports, files, pc, call,
                 batch, minted, failures>>

\* init and imports rewrite identity.json, outside the cache.
EditIdentity(h) ==
  /\ h \in alive
  /\ identity[h] < MaxIdentity /\ Len(changes[h]) < MaxCaptures
  /\ identity' = [identity EXCEPT ![h] = @ + 1]
  /\ UNCHANGED <<alive, changes, captured, consumers, exports, files, pc, call,
                 batch, minted, failures>>

\* `scope map` journals the new identity with its aliases and then writes the
\* file, unless it dies in between.
MapScope(h) ==
  /\ h \in alive /\ Free(h)
  /\ identity[h] < MaxIdentity /\ Len(changes[h]) < MaxCaptures
  /\ changes' = [changes EXCEPT ![h] = Append(@, identity[h] + 1)]
  /\ captured' = [captured EXCEPT ![h] = identity[h] + 1]
  /\ \/ identity' = [identity EXCEPT ![h] = @ + 1] /\ UNCHANGED failures
     \/ failures < MaxFailures /\ failures' = failures + 1 /\ UNCHANGED identity
  /\ UNCHANGED <<alive, consumers, exports, files, pc, call, batch, minted>>

\* First transaction: journal the identity if it changed, and register the
\* consumer if its name is new. The call read identity.json when its process
\* started and writes that version, v, back first.
CaptureIdentity(h, v) ==
  /\ changes' = IF captured[h] = v THEN changes ELSE [changes EXCEPT ![h] = Append(@, v)]
  /\ captured' = [captured EXCEPT ![h] = v]
  /\ identity' = [identity EXCEPT ![h] = v]

MutNewRow(h, c, pol) == [stream |-> <<c, h>>, sequence |-> 0, parent |-> None, policy |-> pol]
NewRow(h, c, pol) == [stream |-> <<h, c>>, sequence |-> 0, parent |-> None, policy |-> pol]

\* INSERT OR IGNORE
MutRegisteredRow(row, new) == new
RegisteredRow(row, new) == IF row = None THEN new ELSE row

Register(p, a) ==
  /\ pc[p] = "idle"
  /\ a.host \in alive /\ Free(a.host)
  /\ \E v \in 1 .. identity[a.host] : CaptureIdentity(a.host, v)
  /\ consumers' = [consumers EXCEPT ![a.host][a.consumer] =
                     RegisteredRow(@, NewRow(a.host, a.consumer, a.policy))]
  /\ pc' = [pc EXCEPT ![p] = "registered"]
  /\ call' = [call EXCEPT ![p] = a]
  /\ UNCHANGED <<alive, exports, files, batch, minted, failures>>

----------------------------------------------------------------------------
(* Second transaction, which holds the writer lock from Begin to the end.  *)

PolicyMatches(p) == RowOf(p).policy = call[p].policy

Begin(p) ==
  /\ pc[p] = "registered"
  /\ Free(call[p].host) /\ DirectoryFree(call[p].dir)
  /\ PolicyMatches(p)
  /\ \E b \in 1 .. Len(changes[call[p].host]) : SliceEnds(p, b)
  /\ pc' = [pc EXCEPT ![p] = "open"]
  /\ UNCHANGED <<alive, changes, identity, captured, consumers, exports, files,
                 call, batch, minted, failures>>

\* Another policy than the consumer's, nothing new, or a first event too
\* large for any archive: the call ends with the cursor where it was.
Refuse(p) ==
  /\ pc[p] = "registered"
  /\ Free(call[p].host)
  /\ \/ ~ PolicyMatches(p)
     \/ \A b \in 1 .. Len(changes[call[p].host]) : ~ SliceEnds(p, b)
  /\ Return(p)
  /\ UNCHANGED <<alive, changes, identity, captured, consumers, exports, files, minted, failures>>

\* os.replace of the finished ciphertext onto its immutable name.
MutMayWrite(d, a) == TRUE
MayWrite(d, a) == Existing(d, a) = {}

Publish(p) ==
  /\ pc[p] = "open"
  /\ \E b \in 1 .. Len(changes[call[p].host]) :
       LET a == Slice(p, b, minted + 1) d == call[p].dir IN
         /\ SliceEnds(p, b)
         /\ MayWrite(d, a)
         /\ files' = (files \ Existing(d, a)) \cup {[dir |-> d, archive |-> a]}
         /\ batch' = [batch EXCEPT ![p] = a]
  /\ minted' = minted + 1
  /\ pc' = [pc EXCEPT ![p] = "verify"]
  /\ UNCHANGED <<alive, changes, identity, captured, consumers, exports, call, failures>>

\* A file of that name was published by a call that never committed: adopt
\* it when it holds exactly this slice, parent and policy.
MutMatchesId(a, slice) == a = slice
MutMatches(a, slice) == a.parent = slice.parent /\ a.policy = slice.policy
Matches(a, slice) == a = [slice EXCEPT !.id = a.id]

Recover(p) ==
  /\ pc[p] = "open"
  /\ \E b \in 1 .. Len(changes[call[p].host]) :
       /\ SliceEnds(p, b)
       /\ \E f \in Existing(call[p].dir, Slice(p, b, 0)) :
            /\ Matches(f.archive, Slice(p, b, 0))
            /\ batch' = [batch EXCEPT ![p] = f.archive]
  /\ pc' = [pc EXCEPT ![p] = "commit"]
  /\ UNCHANGED <<alive, changes, identity, captured, consumers, exports, files,
                 call, minted, failures>>

RejectExisting(p) ==
  /\ pc[p] = "open"
  /\ \E b \in 1 .. Len(changes[call[p].host]) :
       /\ SliceEnds(p, b)
       /\ \E f \in Existing(call[p].dir, Slice(p, b, 0)) : ~ Matches(f.archive, Slice(p, b, 0))
  /\ Return(p)
  /\ UNCHANGED <<alive, changes, identity, captured, consumers, exports, files, minted, failures>>

Verify(p) ==
  /\ pc[p] = "verify"
  /\ pc' = [pc EXCEPT ![p] = "commit"]
  /\ UNCHANGED <<alive, changes, identity, captured, consumers, exports, files,
                 call, batch, minted, failures>>

\* A batch that does not verify is unlinked and the transaction rolled back.
VerifyFails(p) ==
  /\ pc[p] = "verify" /\ failures < MaxFailures
  /\ files' = {f \in files : ~ SameName(f, call[p].dir, batch[p])}
  /\ failures' = failures + 1
  /\ Return(p)
  /\ UNCHANGED <<alive, changes, identity, captured, consumers, exports, minted>>

\* fsync, then the ledger, the receipt and the cursor in one commit.
MutAdvanceNoParent(row, a) == [row EXCEPT !.sequence = a.through]
MutAdvanceShort(row, a) == [row EXCEPT !.sequence = a.through - 1, !.parent = a.id]
Advance(row, a) ==
  [stream |-> row.stream, sequence |-> a.through, parent |-> a.id, policy |-> row.policy]

Commit(p) ==
  LET h == call[p].host c == call[p].consumer IN
  /\ pc[p] = "commit"
  /\ exports' = [exports EXCEPT ![h] = @ \cup {batch[p]}]
  /\ consumers' = [consumers EXCEPT ![h][c] = Advance(@, batch[p])]
  /\ Return(p)
  /\ UNCHANGED <<alive, changes, identity, captured, files, minted, failures>>

\* The process dies, or an exception (missing media, a full disk, a failing
\* commit) ends it: SQLite rolls back, a published file stays.
Stop(p) ==
  /\ pc[p] # "idle" /\ failures < MaxFailures
  /\ failures' = failures + 1
  /\ Return(p)
  /\ UNCHANGED <<alive, changes, identity, captured, consumers, exports, files, minted>>

\* A data directory is copied while it is in use: the copy holds what was
\* committed, under the same producer id and the same streams.
CloneExports(g, h) ==
  /\ g \in alive /\ h \in Hosts \ alive
  /\ alive' = alive \cup {h}
  /\ changes' = [changes EXCEPT ![h] = changes[g]]
  /\ identity' = [identity EXCEPT ![h] = identity[g]]
  /\ captured' = [captured EXCEPT ![h] = captured[g]]
  /\ consumers' = [consumers EXCEPT ![h] = consumers[g]]
  /\ exports' = [exports EXCEPT ![h] = exports[g]]
  /\ UNCHANGED <<files, pc, call, batch, minted, failures>>

----------------------------------------------------------------------------
ExportInit ==
  /\ alive = {Origin}
  /\ changes = [h \in Hosts |-> <<>>]
  /\ identity = [h \in Hosts |-> 1]
  /\ captured = [h \in Hosts |-> 0]
  /\ consumers = [h \in Hosts |-> [c \in Consumers |-> None]]
  /\ exports = [h \in Hosts |-> {}]
  /\ files = {}
  /\ pc = [p \in Exporters |-> "idle"]
  /\ call = [p \in Exporters |-> None]
  /\ batch = [p \in Exporters |-> None]
  /\ minted = 0
  /\ failures = 0

ExportStep(p) ==
  \/ Begin(p) \/ Refuse(p) \/ Publish(p) \/ Recover(p) \/ RejectExisting(p)
  \/ Verify(p) \/ Commit(p)

ExportNext ==
  \/ \E h \in Hosts, e \in Captures : Sync(h, e)
  \/ \E h \in Hosts : EditIdentity(h) \/ MapScope(h)
  \/ \E p \in Exporters, a \in Call : Register(p, a)
  \/ \E p \in Exporters : ExportStep(p) \/ VerifyFails(p) \/ Stop(p)

\* A scheduler keeps calling every consumer's export, and a call that runs
\* finishes.
ExportFairness ==
  /\ \A h \in Hosts, c \in Consumers :
       WF_exportVars(\E p \in Exporters, a \in Call :
                       a.host = h /\ a.consumer = c /\ Register(p, a))
  /\ \A p \in Exporters : WF_exportVars(ExportStep(p))

ExportSpec == ExportInit /\ [][ExportNext]_exportVars /\ ExportFairness

----------------------------------------------------------------------------
IsArchive(a) ==
  /\ a = Feed(a.stream, a.after, a.through, a.events, a.parent, a.policy, a.id)
  /\ a.id \in Nat /\ a.stream \in Streams /\ a.parent \in Nat \cup {None}
  /\ a.after \in Nat /\ a.through \in Nat /\ a.policy \in Policies
  /\ a.events \in [a.after + 1 .. a.through -> Event]

\* Every variable holds what its table, file or process can hold.
ExportTypeOK ==
  /\ alive \subseteq Hosts /\ Origin \in alive
  /\ changes \in [Hosts -> Seq(Event)]
  /\ identity \in [Hosts -> Identities]
  /\ captured \in [Hosts -> Identities \cup {0}]
  /\ consumers \in [Hosts -> [Consumers -> Row \cup {None}]]
  /\ DOMAIN exports = Hosts
  /\ \A h \in Hosts : \A e \in exports[h] : IsArchive(e)
  /\ \A f \in files : f = [dir |-> f.dir, archive |-> f.archive] /\ f.dir \in Dirs /\ IsArchive(f.archive)
  /\ pc \in [Exporters -> {"idle", "registered", "open", "verify", "commit"}]
  /\ call \in [Exporters -> Call \cup {None}]
  /\ DOMAIN batch = Exporters
  /\ \A p \in Exporters : pc[p] \in {"verify", "commit"} => IsArchive(batch[p])
  /\ minted \in Nat /\ failures \in Nat

=============================================================================
