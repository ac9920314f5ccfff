----------------------------- MODULE FeedImport -----------------------------
(***************************************************************************)
(* The receiving side of the changefeed: the delta branch of               *)
(* import_archive (archive/import_.py) and the journal-sequence checks of  *)
(* apply_events (archive/incremental.py). Parent validation, replay and    *)
(* the import checkpoint share one writer transaction, so an import is one *)
(* step; a rejected or repeated one changes nothing. What replay does to   *)
(* the receiver's records is left out here.                                *)
(*                                                                         *)
(* A receiver reads published files, whether or not the exporter that      *)
(* published them committed. All hosts are copies of one cache, so all     *)
(* archives name one producer.                                             *)
(***************************************************************************)
EXTENDS ExportChanges

CONSTANTS Receivers

VARIABLES
  heads,     \* table feed_imports: last batch of each stream
  imported,  \* tables imports and verified_imports: the manifests
  applied    \* table applied_changes: captured event by sequence number

importVars == <<heads, imported, applied>>

FeedHead == [sequence : Nat, id : Nat]

Known(r, a) == \E m \in imported[r] : m.id = a.id

\* The exact predecessor must be the stream's head.
MutFollows(r, a) ==
  LET k == heads[r][a.stream] IN
  IF k = None THEN TRUE ELSE k.sequence = a.after /\ k.id = a.parent
Follows(r, a) ==
  LET k == heads[r][a.stream] IN
  IF k = None THEN a.after = 0 ELSE k.sequence = a.after /\ k.id = a.parent

\* No sequence number comes back with other evidence.
MutSameEvidence(r, a) == TRUE
SameEvidence(r, a) ==
  \A i \in DOMAIN applied[r] \cap DOMAIN a.events : applied[r][i] = a.events[i]

\* Events already known from an overlapping stream are skipped.
Replayed(known, a) ==
  [i \in DOMAIN known \cup DOMAIN a.events |-> IF i \in DOMAIN known THEN known[i]
                                               ELSE a.events[i]]

Import(r, a) ==
  /\ ~ Known(r, a) /\ Follows(r, a) /\ SameEvidence(r, a)
  /\ imported' = [imported EXCEPT ![r] = @ \cup {a}]
  /\ heads' = [heads EXCEPT ![r][a.stream] = [sequence |-> a.through, id |-> a.id]]
  /\ applied' = [applied EXCEPT ![r] = Replayed(@, a)]
  /\ UNCHANGED exportVars

ImportInit ==
  /\ heads = [r \in Receivers |-> [s \in Streams |-> None]]
  /\ imported = [r \in Receivers |-> {}]
  /\ applied = [r \in Receivers |-> <<>>]

ImportNext == \E r \in Receivers, f \in files : Import(r, f.archive)

ImportTypeOK ==
  /\ heads \in [Receivers -> [Streams -> FeedHead \cup {None}]]
  /\ DOMAIN imported = Receivers
  /\ \A r \in Receivers : \A m \in imported[r] : IsArchive(m)
  /\ applied = [r \in Receivers |-> applied[r]]
  /\ \A r \in Receivers : applied[r] \in [DOMAIN applied[r] -> Event]
                          /\ DOMAIN applied[r] \subseteq Nat

=============================================================================
