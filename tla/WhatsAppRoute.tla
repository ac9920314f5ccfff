--------------------------- MODULE WhatsAppRoute ---------------------------
(***************************************************************************)
(* A selective capture of WhatsApp: what a delta of the native mirror is   *)
(* routed to (adapters/whatsapp/dependencies.py), the header and event     *)
(* keys it changes (headers.py, header_ownership.py), what is withdrawn    *)
(* and extracted again (prepared_sync.py, adapter.py).                     *)
(*                                                                         *)
(* The point is prepared in one transaction of the mirror, with the files  *)
(* and alias pairs it retains, and covered later; the source goes on       *)
(* changing. A crash between the two is NativeCapture's.                   *)
(***************************************************************************)
EXTENDS WhatsAppSource, NativeDelta

CONSTANTS Sources,       \* the source when the cache last covered it
          RowsOf,        \* table -> the rows a table may hold: <<id, row>>
          AliasPairs     \* <<lid, phone, database>>

\* A state of ChatStorage.sqlite: ZSORT orders the rows of a unit.
Sortable(t) ==
  /\ \A table \in {"message", "media", "change"} : table \in DOMAIN t /\ IsTable(t[table])
  /\ \A p \in DOMAIN t.message : t.message[p].sort \in Int

ASSUME WhatsAppRouteAssumption ==
  /\ \A t \in Sources : Sortable(t)
  /\ {"message", "media", "change"} \subseteq DOMAIN RowsOf
  /\ \A table \in {"message", "media", "change"} : \A r \in RowsOf[table] : r[1] \in Int
  /\ \A r \in RowsOf["message"] : r[2].sort \in Int

VARIABLES headerState, \* cs_wa_header_*: point, full, fp, changes
          eventState   \* cs_wa_event_*: point, full, keys, changes

routeVars == <<deltaVars, headerState, eventState>>

NoKey == 0     \* no point: the state of a version that did not keep it

(* The source **************************************************************)
ChangePairs == \E p \in AliasPairs :
  ChangeNative([native EXCEPT !.pairs = IF p \in @ THEN @ \ {p} ELSE @ \cup {p}])

(* Preparing a point *******************************************************)
\* fingerprints: the payloads of each header key, duplicates together.
Fingerprints(t) ==
  LET entries == HeaderEntries(t)
  IN  [k \in {<<e.table, e.key>> : e \in entries} |->
         {<<e.kind, e.payload>> : e \in {e \in entries : <<e.table, e.key>> = k}}]

MutFingerprintDiff(old, new) == {k \in DOMAIN new : k \notin DOMAIN old \/ old[k] # new[k]}

FingerprintDiff(old, new) ==
  {k \in DOMAIN old \cup DOMAIN new : k \notin DOMAIN old \/ k \notin DOMAIN new \/ old[k] # new[k]}

\* headers.prepare
PreparedHeaders(full) ==
  LET whole == full \/ headerState.point # point.token
      new == Fingerprints(native)
  IN  [point |-> point.token + 1, full |-> whole, fp |-> new,
       changes |-> IF whole THEN {} ELSE FingerprintDiff(headerState.fp, new)]

BaseKeys(t) == [r \in DOMAIN t.change |-> BaseKey(t.change[r])]

\* header_ownership.prepare: of each changed row, the key it had and the key it has.
PreparedEvents(full) ==
  LET whole == full \/ eventState.point # point.token
      new == BaseKeys(native)
      rows == ChangedRows(point.tables, native, "change")
      held == [r \in DOMAIN eventState.keys \cup DOMAIN new |->
                 IF r \in rows THEN (IF r \in DOMAIN new THEN {new[r]} ELSE {}) ELSE {eventState.keys[r]}]
      has == {r \in DOMAIN held : held[r] # {}}
  IN  IF whole THEN [point |-> point.token + 1, full |-> TRUE, keys |-> new, changes |-> {}]
      ELSE [point |-> point.token + 1, full |-> FALSE,
            keys |-> [r \in has |-> CHOOSE k \in held[r] : TRUE],
            changes |-> {eventState.keys[r] : r \in rows \cap DOMAIN eventState.keys}
                          \cup {new[r] : r \in rows \cap DOMAIN new}]

\* media.prepare: rows that changed, and rows whose file did; MediaLedger says when the
\* ledger knows.
PreparedMedia(full) ==
  [full |-> full,
   changes |-> IF full THEN {}
               ELSE ChangedRows(point.tables, native, "media")
                      \cup {r \in DOMAIN native.media \cap DOMAIN point.tables.media :
                              Probe(native, r) # Probe(point.tables, r)}]

\* The validators of collect keep media, events and headers with the point.
PreparePoint(baseline, wholeMedia) ==
  /\ baseline => wholeMedia
  /\ PrepareTables(baseline)
  /\ mediaState' = PreparedMedia(wholeMedia)
  /\ eventState' = PreparedEvents(baseline)
  /\ headerState' = PreparedHeaders(baseline)

(* Routing a delta *********************************************************)
\* A chat that came, went or has another JID.
RenamedChats ==
  {c \in Delta("chat") : ~ /\ c \in DOMAIN point.parent.chat /\ c \in DOMAIN point.tables.chat
                           /\ point.parent.chat[c].jid = point.tables.chat[c].jid}

MessageRows == point.tables.message

\* Rows with new native content: theirs, their media's, their data's, their file's, their chat's.
Touched(mediaMessages) ==
  mediaMessages \cup Delta("message")
    \cup (UNION {{m.message : m \in States("media", r)} : r \in Delta("media")})
    \cup (UNION {States("data", r) : r \in Delta("data")})
    \cup {p \in DOMAIN MessageRows : MessageRows[p].chat \in RenamedChats}

MutWithReplies(rows) == rows

\* Rows whose parent is one of these: its identity is in theirs.
WithReplies(rows) == rows \cup {p \in DOMAIN MessageRows : MessageRows[p].parent \in rows}

KeysOf(rows) ==
  {KeyOf(MessageRows[p]) : p \in {p \in rows \cap DOMAIN MessageRows : MessageRows[p].stanza # NoStanza}}

\* The groups changed rows were in, and are in.
DeltaGroups ==
  LET states == UNION {States("message", p) : p \in Delta("message")}
  IN  {KeyOf(m) : m \in {m \in states : m.stanza # NoStanza}}

\* Whole groups.
SelectedRows(mediaMessages) ==
  LET rows == WithReplies(Touched(mediaMessages))
      groups == DeltaGroups \cup KeysOf(rows)
  IN  rows \cup {p \in DOMAIN MessageRows : KeyOf(MessageRows[p]) \in groups}

\* Units whose coverage goes: those changed rows were in, and those the others are in.
OldKeys(rows) ==
  {KeyOf(point.parent.message[p]) :
     p \in {p \in Delta("message") \cap DOMAIN point.parent.message :
              point.parent.message[p].stanza # NoStanza}}
    \cup KeysOf(rows \ Delta("message"))

(* Covering a point ********************************************************)
MediaMessages == {point.tables.media[r].message : r \in mediaState.changes \cap DOMAIN point.tables.media}

RoutedRows == SelectedRows(MediaMessages)

\* The records of a unit: the blob of an attachment is one, which units may share.
RecordsOf(unit) ==
  LET available == {r \in unit : r.type = "attachment" /\ r.bytes \notin {"missing", "not_downloaded"}}
  IN  {<<r.type, r.key>> : r \in unit} \cup {<<"blob", r.bytes>> : r \in available}

HeadersAvailable == headerState.point = point.token /\ ~headerState.full
EventsAvailable  == eventState.point = point.token /\ ~eventState.full

KeyedHeaders == HeadersAvailable /\ (EventsAvailable \/ Delta("change") = {})

\* Chats known to a keyed extraction: of the selected rows and of their parents.
SelectedChats(rows) ==
  {MessageRows[p].chat : p \in (rows \cup {MessageRows[q].parent : q \in rows \cap DOMAIN MessageRows})
                              \cap DOMAIN MessageRows} \cap DOMAIN point.tables.chat

SelectedUnits(rows, known) ==
  LET old == OldKeys(rows)
      new == KeysOf(rows)
  IN  [k \in (DOMAIN kept.units \ old) \cup new |->
         IF k \in new THEN UnitRecords(point.tables, known, k) ELSE kept.units[k]]

\* Headers of the changed keys; events of the changed base keys and their variants.
KeyedHeadersAfter ==
  {e \in kept.headers : <<e.table, e.key>> \notin headerState.changes}
    \cup {e \in HeaderEntries(point.tables) : <<e.table, e.key>> \in headerState.changes}

KeyedEventsAfter ==
  {e \in kept.events : e.base \notin eventState.changes}
    \cup Keyed(point.tables, {r \in DOMAIN eventState.keys : eventState.keys[r] \in eventState.changes})

Selective(rows) ==
  IF KeyedHeaders
  THEN [units   |-> SelectedUnits(rows, SelectedChats(rows)),
        headers |-> KeyedHeadersAfter,
        events  |-> IF EventsAvailable THEN KeyedEventsAfter ELSE kept.events]
  ELSE [units   |-> SelectedUnits(rows, DOMAIN point.tables.chat),
        headers |-> HeaderEntries(point.tables),
        events  |-> AllEvents(point.tables)]

\* _whatsapp_coverage and the extraction it asks for. An extraction with errors is partial
\* and leaves the point pending; a keyed one leaves those of headers to full extraction.
CoverPoint(full) ==
  /\ point.pending
  /\ full => ~(point.baseline \/ mediaState.full)     \* it is full without being asked
  /\ LET rows == RoutedRows
         whole == full \/ point.baseline \/ mediaState.full \/ ~CanWithdraw(OldKeys(rows), RecordsOf)
     IN  /\ kept' = IF whole THEN Extraction(point.tables) ELSE Selective(rows)
         /\ \A k \in IF whole THEN DOMAIN kept'.units ELSE KeysOf(rows) : kept'.units[k] # {}
         /\ whole \/ ~KeyedHeaders => MemberRows(point.tables) = DOMAIN point.tables.member
  /\ FinishPoint
  /\ UNCHANGED <<native, nativeEdits, headerState, eventState, mediaState>>

(* Specification ***********************************************************)
\* A covered source, captured by this version or by one that kept no header and event keys.
RouteInit ==
  /\ native \in Sources
  /\ nativeEdits = 0
  /\ point = Covered(native)
  /\ \E kept0 \in {NoKey, 1} :
       /\ headerState = [point |-> kept0, full |-> TRUE, changes |-> {},
                         fp |-> IF kept0 = NoKey THEN <<>> ELSE Fingerprints(native)]
       /\ eventState = [point |-> kept0, full |-> TRUE, changes |-> {},
                        keys |-> IF kept0 = NoKey THEN <<>> ELSE BaseKeys(native)]
  /\ mediaState = [full |-> TRUE, changes |-> {}]
  /\ kept = Extraction(native)

RouteNext ==
  \/ /\ WriteNative(RowsOf) \/ DeleteNative(DOMAIN RowsOf) \/ WriteFile \/ DeleteFile \/ ChangePairs
     /\ UNCHANGED <<headerState, eventState>>
  \/ \E baseline, wholeMedia \in BOOLEAN : PreparePoint(baseline, wholeMedia)
  \/ \E full \in BOOLEAN : CoverPoint(full)

(* Covered points *********************************************************)
\* What the cache retains of a covered point, against a full extraction of it.
UnitsFollow == ~point.pending => kept.units = AllUnits(point.tables)

HeadersFollow ==
  ~point.pending => /\ kept.headers = HeaderEntries(point.tables)
                    /\ kept.events = AllEvents(point.tables)

=============================================================================
