----------------------------- MODULE Changefeed -----------------------------
(***************************************************************************)
(* The changefeed end to end: exporters (ExportChanges), confirmers        *)
(* (Delivery) and receivers (FeedImport) over the same caches and files.   *)
(***************************************************************************)
EXTENDS Delivery, FeedImport

vars == <<exportVars, deliveryVars, importVars>>

Init == ExportInit /\ DeliveryInit /\ ImportInit

\* Copying a data directory copies all of its cache.
Clone(g, h) == CloneExports(g, h) /\ CloneDelivery(g, h) /\ UNCHANGED importVars

Next ==
  \/ ExportNext /\ UNCHANGED <<deliveryVars, importVars>>
  \/ DeliveryNext /\ UNCHANGED importVars
  \/ ImportNext /\ UNCHANGED deliveryVars
  \/ \E g, h \in Hosts : Clone(g, h)

SafeSpec == Init /\ [][Next]_vars
Spec == SafeSpec /\ ExportFairness /\ DeliveryFairness

----------------------------------------------------------------------------
TypeOK == ExportTypeOK /\ DeliveryTypeOK /\ ImportTypeOK

Covers(e, i) == e.after < i /\ i <= e.through
OfStream(h, s) == {e \in exports[h] : e.stream = s}

\* Every journal event up to a consumer's cursor is in exactly one committed
\* archive of its stream, and none past it is: crashes, recoveries and
\* concurrent exporters neither skip an event nor ship it twice.
ExportedExactlyOnce ==
  \A h \in Hosts, c \in Consumers : consumers[h][c] # None =>
    LET row == consumers[h][c] es == OfStream(h, row.stream) IN
      /\ \A i \in 1 .. row.sequence : \E e \in es : Covers(e, i)
      /\ \A e \in es : e.through <= row.sequence
      /\ \A e, f \in es : \A i \in 1 .. row.sequence : Covers(e, i) /\ Covers(f, i) => e = f

\* Each committed batch names as its parent the committed batch that ends
\* where it begins, and the cursor row names the last one: an importer that
\* has them all in order never meets a broken link.
ParentLinked ==
  \A h \in Hosts :
    /\ \A e \in exports[h] :
         IF e.after = 0 THEN e.parent = None
         ELSE \E q \in OfStream(h, e.stream) : q.id = e.parent /\ q.through = e.after
    /\ \A c \in Consumers : consumers[h][c] # None =>
         LET row == consumers[h][c] IN
         IF row.sequence = 0 THEN row.parent = None
         ELSE \E q \in OfStream(h, row.stream) : q.id = row.parent /\ q.through = row.sequence

\* A host's ledger only claims batches that hold what its own journal holds,
\* also when it adopts a file that it finds already published.
FaithfulBatches ==
  \A h \in Hosts : \A e \in exports[h] :
    /\ e.through <= Len(changes[h])
    /\ \A i \in DOMAIN e.events : e.events[i] = changes[h][i]

\* The file of a committed batch is still published: a failed verification
\* of one call never unlinks what another call or host has committed.
CommittedFileKept == \A h \in Hosts : \A e \in exports[h] : \E f \in files : f.archive = e

\* A published name never changes its content.
ImmutablePublication ==
  [][\A f \in files, g \in files' : SameName(g, f.dir, f.archive) => g = f]_vars

\* The proofs of a destination are exactly the batches up to its checkpoint:
\* confirmers racing each other, or confirming out of order, leave no gap
\* behind the checkpoint, and `archive pending` lists exactly the unproved.
ProofsArePrefix ==
  \A h \in Hosts, d \in Destinations, c \in Consumers : consumers[h][c] # None =>
    LET s == consumers[h][c].stream IN
      /\ Pending(h, c, d) = {e \in OfStream(h, s) : ~ Proved(h, d, e)}
      /\ checkpoints[h][d][s] # None =>
           \E e \in OfStream(h, s) : checkpoints[h][d][s] = CheckpointOf(e)

\* What a receiver has replayed is a prefix of the journal of one host, even
\* when it imports from several consumers and from diverged copies of the
\* cache: histories are never spliced and no sequence number is skipped.
PrefixOf(f, s) ==
  \E n \in 0 .. Len(s) : DOMAIN f = 1 .. n /\ \A i \in 1 .. n : f[i] = s[i]
OneHistory == \A r \in Receivers : \E h \in alive : PrefixOf(applied[r], changes[h])

\* A receiver that imported a batch which a host has committed holds that
\* host's journal up to it, whatever else it imported.
CommittedPrefixHeld ==
  \A r \in Receivers, h \in Hosts : \A e \in imported[r] \cap exports[h] :
    \A i \in 1 .. e.through : i \in DOMAIN applied[r] /\ applied[r][i] = changes[h][i]

\* Cursors and checkpoints by consumer.
SequenceOf(h, c) == IF consumers[h][c] = None THEN 0 ELSE consumers[h][c].sequence
DurableOf(h, d, c) ==
  IF consumers[h][c] = None THEN 0 ELSE Through(h, d, consumers[h][c].stream)

\* Every captured change is in the end exported to every registered consumer
\* and proved at every destination, whatever crashes, races and lost uploads
\* happen on the way. MaxFailures makes those finitely many.
EveryCaptureExported ==
  \A h \in Hosts, c \in Consumers : \A n \in 1 .. MaxCaptures :
    (h \in alive /\ Len(changes[h]) >= n) ~> (SequenceOf(h, c) >= n)
EveryCaptureDelivered ==
  \A h \in Hosts, c \in Consumers, d \in Destinations : \A n \in 1 .. MaxCaptures :
    (h \in alive /\ Len(changes[h]) >= n) ~> (DurableOf(h, d, c) >= n)

\* docs/incremental-preservation.md: a retry after a publication that did not
\* commit "verifies that exact file [...] and commits it without rewriting
\* the ciphertext": what a commit puts at a place of a stream is what was
\* already published there.
RetryCommitsPublished ==
  [][\A p \in Exporters : Commit(p) =>
       \A f \in files : f.dir = call[p].dir /\ f.archive.stream = batch[p].stream
                       /\ f.archive.after = batch[p].after => f.archive = batch[p]]_vars

\* docs/decisions.md, of `scope map`: it "stores the mapping in
\* `identity.json`": a mapping that is stored there stays.
MappingStored == [][\A h \in Hosts : identity'[h] >= identity[h]]_vars

----------------------------------------------------------------------------
Log == INSTANCE ChangefeedLog WITH
  log <- changes,
  cursor <- [h \in Hosts |-> [c \in Consumers |-> SequenceOf(h, c)]],
  durable <- [h \in Hosts |-> [d \in Destinations |-> [c \in Consumers |-> DurableOf(h, d, c)]]],
  received <- applied

\* The changefeed implements the abstract log.
ImplementsLog == Log!Spec

=============================================================================
