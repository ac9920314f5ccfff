--------------------------- MODULE MessagesRoute ---------------------------
(***************************************************************************)
(* A selective capture of Messages: the rows a delta of the native mirror  *)
(* is routed to (adapters/messages/dependencies.py), the units, headers    *)
(* and stub chats that are withdrawn (prepared_sync.py) and what is        *)
(* extracted again (adapter.py).                                           *)
(***************************************************************************)
EXTENDS MessagesSource, NativeDelta

CONSTANTS ChatSources,   \* the source when the cache last covered it
          ChatRowsOf,    \* table -> the rows a table may hold: <<id, row>>
          Uuids          \* guids that are UUIDs

\* guid is unique in chat.db; a capture of one where it is not is full.
GuidsUnique(t) ==
  \A p, q \in DOMAIN t.message : t.message[p].guid = t.message[q].guid => p = q

\* A state of chat.db.
MessagesDb(t) ==
  /\ \A table \in DOMAIN ChatRowsOf : table \in DOMAIN t /\ IsTable(t[table])
  /\ \A j \in DOMAIN t.join : t.join[j].chat \in Int
  /\ GuidsUnique(t)

ASSUME MessagesRouteAssumption ==
  /\ DOMAIN ChatRowsOf = {"handle", "chat", "seat", "message", "join", "deleted", "attachment", "attjoin"}
  /\ \A t \in ChatSources : MessagesDb(t)
  /\ \A table \in DOMAIN ChatRowsOf : \A r \in ChatRowsOf[table] : r[1] \in Int
  /\ \A r \in ChatRowsOf["join"] : r[2].chat \in Int

(* Routing a delta *********************************************************)
\* Rows that came, went, or changed one of the columns.
Altered(table, columns) ==
  {id \in Delta(table) :
     \/ id \notin DOMAIN point.parent[table] \/ id \notin DOMAIN point.tables[table]
     \/ \E c \in columns : point.parent[table][id][c] # point.tables[table][id][c]}

\* What changed rows of a table were and are, and what some of its rows were and are.
RowStates(table, ids) == UNION {States(table, id) : id \in ids}
DeltaStates(table) == RowStates(table, Delta(table))
AllRows(table) == {point.tables[table][id] : id \in DOMAIN point.tables[table]}

MessageTable == point.tables.message

JoinedAnew == {j.message : j \in DeltaStates("join")}

\* Stubs a row that changed, or whose join did, may have supported or may support.
StubRefs ==
  {m.ck : m \in RowStates("message", Altered("message", {"ck"}) \cup JoinedAnew)} \ {NoCk}

\* Attachments with new evidence or messages, those of messages that came or went included.
RoutedAttachments ==
  mediaState.changes \cup Delta("attachment") \cup {r.attachment : r \in DeltaStates("attjoin")}
    \cup {point.tables.attjoin[j].attachment :
            j \in {j \in DOMAIN point.tables.attjoin : point.tables.attjoin[j].message \in Altered("message", {})}}

\* Orphans that chats with these identifiers, or the rows of these stubs, are about.
RoutedOrphans ==
  LET identifiers == {c.identifier : c \in RowStates("chat", Altered("chat", {"guid", "identifier", "service"}))}
  IN  {p \in Inferred(point.tables, DOMAIN MessageTable) :
         MessageTable[p].ck.tail \in identifiers \/ MessageTable[p].ck \in StubRefs}

\* Rows that changed, rows with the guid or the parent of one, and rows whose sender,
\* subject, chat, inference, tombstone or attachments may be others now.
RoutedMessages ==
  LET guids == UNION {{m.guid, m.parent} : m \in DeltaStates("message")}
      chats == Altered("chat", {"guid"})
      parts == RoutedAttachments
  IN  Delta("message") \cup JoinedAnew \cup DeltaStates("deleted")
        \cup {r.message : r \in DeltaStates("attjoin")}
        \cup {p \in DOMAIN MessageTable : MessageTable[p].guid \in guids}
        \cup {p \in DOMAIN MessageTable :
                 {MessageTable[p].handle, MessageTable[p].subject} \cap Delta("handle") # {}}
        \cup {j.message : j \in {j \in AllRows("join") : j.chat \in chats}}
        \cup {r.message : r \in {r \in AllRows("attjoin") : r.attachment \in parts}}
        \cup RoutedOrphans

\* Units whose coverage goes: of the rows as they were, and of those that have gone.
WithdrawnUnits(rows) ==
  {m.guid : m \in {point.parent.message[p] : p \in Delta("message") \cap DOMAIN point.parent.message}
                    \cup {MessageTable[p] : p \in (rows \cap DOMAIN MessageTable) \ Delta("message")}}

\* Stubs whose coverage goes: every ck_chat_id the rows have and had.
WithdrawnStubs(rows) == {m.ck : m \in RowStates("message", rows)} \ {NoCk}

(* Covering a point ********************************************************)
\* ledger.prepare, prepare_media: changed attachment rows, and those whose file changed.
PrepareMessages(baseline, wholeMedia) ==
  /\ baseline => wholeMedia
  /\ PrepareTables(baseline)
  /\ mediaState' =
       [full |-> wholeMedia,
        changes |-> IF wholeMedia THEN {}
                    ELSE ChangedRows(point.tables, native, "attachment")
                           \cup {a \in DOMAIN native.attachment \cap DOMAIN point.tables.attachment :
                                   ProbeAttachment(native, a) # ProbeAttachment(point.tables, a)}]

\* The records of a unit, by type and key.
MessageMembers(unit) == {<<r.type, r.key>> : r \in unit}

\* No row and no file changed: what is covered is sighted again, nothing is extracted.
NothingChanged ==
  mediaState.changes = {} /\ \A table \in DOMAIN ChatRowsOf : Delta(table) = {}

SelectiveMessages(rows) ==
  LET new == Decoded(point.tables, rows)
      fresh == MessageUnits(point.tables, new)
  IN  [units   |-> [g \in (DOMAIN kept.units \ WithdrawnUnits(rows)) \cup DOMAIN fresh |->
                      IF g \in DOMAIN fresh THEN fresh[g] ELSE kept.units[g]],
       headers |-> MessagesHeaders(point.tables),
       stubs   |-> (kept.stubs \ WithdrawnStubs(rows)) \cup StubsOf(point.tables, new)]

\* _messages_coverage and the extraction it asks for. An extraction with errors is partial and
\* leaves the point pending.
CoverMessages(full) ==
  /\ point.pending
  /\ full => ~(point.baseline \/ mediaState.full)     \* it is full without being asked
  /\ LET rows == RoutedMessages
         new == Decoded(point.tables, rows)
         keys == WithdrawnUnits(rows)
         whole == \/ full \/ point.baseline \/ mediaState.full
                  \/ ~(keys \cup {MessageTable[p].guid : p \in new} \subseteq Uuids)
                  \/ ~CanWithdraw(keys, MessageMembers)
     IN  \/ whole /\ ExtractsClean(point.tables, DOMAIN MessageTable) /\ kept' = MessagesExtraction(point.tables)
         \/ ~whole /\ NothingChanged /\ kept' = kept
         \/ ~whole /\ ~NothingChanged /\ ExtractsClean(point.tables, new) /\ kept' = SelectiveMessages(rows)
  /\ FinishPoint
  /\ UNCHANGED <<native, nativeEdits, mediaState>>

(* Specification ***********************************************************)
MessagesInit ==
  /\ native \in ChatSources
  /\ nativeEdits = 0
  /\ point = Covered(native)
  /\ mediaState = [full |-> TRUE, changes |-> {}]
  /\ kept = MessagesExtraction(native)

MessagesNext ==
  \/ /\ WriteNative(ChatRowsOf) \/ DeleteNative(DOMAIN ChatRowsOf) \/ WriteFile \/ DeleteFile
     /\ GuidsUnique(native')
  \/ \E baseline, wholeMedia \in BOOLEAN : PrepareMessages(baseline, wholeMedia)
  \/ \E full \in BOOLEAN : CoverMessages(full)

(* Covered points **********************************************************)
\* What the cache retains of a covered point, against a full extraction of it. One thing is
\* kept too little: the stub of a ck_chat_id is withdrawn with a routed row that has a join
\* row, though an orphan that was not routed still needs it.
MessagesFollow ==
  ~point.pending =>
    LET whole == MessagesExtraction(point.tables)
        joined == {MessageTable[p].ck : p \in DOMAIN MessageTable \ Orphans(point.tables)}
    IN  /\ kept.units = whole.units
        /\ kept.headers = whole.headers
        /\ kept.stubs \subseteq whole.stubs
        /\ whole.stubs \ kept.stubs \subseteq joined

=============================================================================
