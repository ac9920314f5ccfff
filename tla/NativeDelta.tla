----------------------------- MODULE NativeDelta -----------------------------
(***************************************************************************)
(* What the selective captures of WhatsApp (WhatsAppRoute) and of Messages *)
(* (MessagesRoute) share: a source that goes on changing, the points of    *)
(* its mirror, the rows that differ between a point and its parent, and    *)
(* what the cache has covered.                                             *)
(*                                                                         *)
(* Tables are a record of partial functions from row ids; `files` (path -> *)
(* bytes) is the media beside them. A point is prepared in one transaction *)
(* of the mirror and covered later; a crash between is NativeCapture's.    *)
(***************************************************************************)
EXTENDS Integers, FiniteSets, FiniteSetsExt

CONSTANTS FileVersions,           \* <<path, bytes>>
          MaxChanges, MaxPoints   \* bounds

VARIABLES native,      \* the source
          nativeEdits, \* changes made to it
          point,       \* the mirror: token, tables, those of its parent, baseline, pending
          mediaState,  \* evidence of files at the point: full, changes
          kept         \* what the cache has covered

deltaVars == <<native, nativeEdits, point, mediaState, kept>>

(* The source **************************************************************)
\* A table has finitely many rows, and integer keys.
IsTable(f) == IsFiniteSet(DOMAIN f) /\ DOMAIN f \subseteq Int

PutNative(table, id, row) ==
  [native EXCEPT ![table] = [i \in DOMAIN @ \cup {id} |-> IF i = id THEN row ELSE @[i]]]

Dropped(f, id) == [i \in DOMAIN f \ {id} |-> f[i]]

ChangeNative(next) ==
  /\ nativeEdits < MaxChanges
  /\ next # native
  /\ native' = next
  /\ nativeEdits' = nativeEdits + 1
  /\ UNCHANGED <<point, mediaState, kept>>

WriteNative(rowsOf) ==
  \E table \in DOMAIN rowsOf : \E r \in rowsOf[table] : ChangeNative(PutNative(table, r[1], r[2]))

DeleteNative(tables) ==
  \E table \in tables : \E id \in DOMAIN native[table] :
    ChangeNative([native EXCEPT ![table] = Dropped(@, id)])

WriteFile == \E f \in FileVersions : ChangeNative(PutNative("files", f[1], f[2]))

DeleteFile == \E p \in DOMAIN native.files : ChangeNative([native EXCEPT !.files = Dropped(@, p)])

(* Points ******************************************************************)
Covered(tables) == [token |-> 1, tables |-> tables, parent |-> tables, baseline |-> TRUE, pending |-> FALSE]

\* collect: initialize and rebase prepare a baseline, prepare and reconcile a delta.
PrepareTables(baseline) ==
  /\ ~point.pending
  /\ point.token < MaxPoints
  /\ point' = [token |-> point.token + 1, tables |-> native, parent |-> point.tables,
               baseline |-> baseline, pending |-> TRUE]
  /\ UNCHANGED <<native, nativeEdits, kept>>

\* The receipt is there, and the point acknowledged.
FinishPoint == point' = [point EXCEPT !.pending = FALSE, !.parent = point.tables]

\* cs_native_mirror_changes: ids of a table's rows that differ between two points.
ChangedRows(old, new, table) ==
  {id \in DOMAIN old[table] \cup DOMAIN new[table] :
     \/ id \notin DOMAIN old[table] \/ id \notin DOMAIN new[table]
     \/ old[table][id] # new[table][id]}

Delta(table) == ChangedRows(point.parent, point.tables, table)

\* The states of a row, before and after.
States(table, id) ==
  {t[table][id] : t \in {t \in {point.parent, point.tables} : id \in DOMAIN t[table]}}

\* take: the units are retained and no other unit holds a record of theirs.
CanWithdraw(keys, RecordsOf(_)) ==
  /\ keys \subseteq DOMAIN kept.units
  /\ \A k \in keys, j \in DOMAIN kept.units \ keys :
       RecordsOf(kept.units[k]) \cap RecordsOf(kept.units[j]) = {}

=============================================================================
