--------------------------- MODULE MessagesSource ---------------------------
(***************************************************************************)
(* What the Messages adapter (adapters/messages/adapter.py, with the rows  *)
(* its decoder gives it) makes of one state of chat.db: headers, stub      *)
(* chats, and the records of each message.                                 *)
(*                                                                         *)
(* Tables are a record of partial functions from row ids:                  *)
(*   handle     -> key                        its service and address      *)
(*   chat       -> [guid, name, identifier, service]                       *)
(*   seat       -> [chat, handle]             chat_handle_join             *)
(*   message    -> [guid, parent, ck, handle, subject, me, text, inline]   *)
(*   join       -> [chat, message]            chat_message_join            *)
(*   deleted    -> message                    chat_recoverable_message_join *)
(*   attachment -> [guid, path]                                            *)
(*   attjoin    -> [message, attachment]      message_attachment_join      *)
(* and files, path -> bytes. A ck_chat_id is [service, tail] or NoCk; the  *)
(* handle 0 is none; `inline` names the attachments the body refers to.    *)
(***************************************************************************)
EXTENDS Integers, FiniteSets, FiniteSetsExt

CONSTANTS NoCk, NoGuid, NoFilename

(* Headers *****************************************************************)
HandleRows(t, key) == {h \in DOMAIN t.handle : t.handle[h] = key}

Seated(t) ==
  {s \in DOMAIN t.seat : t.seat[s].chat \in DOMAIN t.chat /\ t.seat[s].handle \in DOMAIN t.handle}

\* Identities by key, chats, and memberships of rows both of whose ends are there.
MessagesHeaders(t) ==
  [identities  |-> {<<t.handle[h], HandleRows(t, t.handle[h])>> : h \in DOMAIN t.handle},
   chats       |-> {<<c, t.chat[c]>> : c \in DOMAIN t.chat},
   memberships |-> {<<t.chat[t.seat[s].chat].guid, t.handle[t.seat[s].handle]>> : s \in Seated(t)}]

(* Chats of messages *******************************************************)
JoinsOf(t, p) == {j \in DOMAIN t.join : t.join[j].message = p}

Orphans(t) == {p \in DOMAIN t.message : JoinsOf(t, p) = {}}

\* Chats with the identifier of a ck_chat_id; if several, those of its service, if any.
Candidates(t, ck) ==
  LET named  == {c \in DOMAIN t.chat : t.chat[c].identifier = ck.tail}
      served == {c \in named : t.chat[c].service = ck.service}
  IN  IF Cardinality(named) > 1 /\ served # {} THEN served ELSE named

\* Orphans a ck_chat_id speaks for, and those among them no chat is found for.
Inferred(t, rows) == {p \in rows \cap Orphans(t) : t.message[p].ck # NoCk}

StubsOf(t, rows) ==
  {ck \in {t.message[p].ck : p \in Inferred(t, rows)} : Candidates(t, ck) = {}}

\* The query gives a message in several chats once for each, the highest last.
LastChat(t, p) == Max({t.join[j].chat : j \in JoinsOf(t, p)})

\* By its join row; inferred, a chat or a stub; or none.
ChatOf(t, p) ==
  LET ck == t.message[p].ck
      chats == Candidates(t, ck)
  IN  IF p \notin Orphans(t) THEN {<<"join_table", t.chat[c].guid>> : c \in {LastChat(t, p)} \cap DOMAIN t.chat}
      ELSE IF Inferred(t, {p}) = {} THEN {}
      ELSE IF chats = {} THEN {<<"inferred_ck_chat_id", ck>>}
      ELSE {<<"inferred_ck_chat_id", t.chat[Min(chats)].guid>>}

(* Messages ****************************************************************)
\* An incoming row may name no handle; one that is not there is an error.
SenderKnown(t, row) == row.me \/ row.handle \in DOMAIN t.handle \cup {0}

IdentityOf(t, handle) == {t.handle[h] : h \in {handle} \cap DOMAIN t.handle}

AttachmentsOf(t, p) ==
  {t.attjoin[j].attachment : j \in {j \in DOMAIN t.attjoin : t.attjoin[j].message = p}} \cap DOMAIN t.attachment

\* An attachment of several messages belongs to the lowest row joined, there or not.
OwnerOf(t, a) == Min({t.attjoin[j].message : j \in {j \in DOMAIN t.attjoin : t.attjoin[j].attachment = a}})

\* _probe_attachment
ProbeAttachment(t, a) ==
  LET path == t.attachment[a].path
  IN  IF path = NoFilename THEN "not_downloaded" ELSE IF path \in DOMAIN t.files THEN t.files[path] ELSE "missing"

\* _message: the message, the attachments it owns with the blobs of those available, one
\* placeholder for each the body names whose row is gone, the event of a group action.
MessageRecords(t, p) ==
  LET row == t.message[p]
      parts == AttachmentsOf(t, p)
      purged == row.inline \ {t.attachment[a].guid : a \in parts}
      owned == {a \in parts : OwnerOf(t, a) = p}
      bytes == {ProbeAttachment(t, a) : a \in owned} \ {"missing", "not_downloaded"}
  IN  {[type |-> "message", key |-> row.guid, row |-> p, chat |-> ChatOf(t, p), me |-> row.me,
        sender |-> IF row.me THEN {} ELSE IdentityOf(t, row.handle), reply |-> row.parent, text |-> row.text,
        parts |-> {t.attachment[a].guid : a \in parts} \cup purged,
        tombstone |-> \E d \in DOMAIN t.deleted : t.deleted[d] = p]}
      \cup {[type |-> "attachment", key |-> t.attachment[a].guid, row |-> a, message |-> row.guid,
             bytes |-> ProbeAttachment(t, a)] : a \in owned}
      \cup {[type |-> "purged", key |-> g, message |-> row.guid] : g \in purged}
      \cup {[type |-> "blob", key |-> b] : b \in bytes}
      \cup {[type |-> "event", key |-> row.guid, subject |-> IdentityOf(t, h)] : h \in {row.subject} \ {0}}

\* The decoder gives the rows asked for that are there, or the capture fails.
Decoded(t, rows) == rows \cap DOMAIN t.message

\* guid is unique: a unit is a row.
MessageUnits(t, rows) ==
  [g \in {t.message[p].guid : p \in rows} |->
     UNION {MessageRecords(t, p) : p \in {p \in rows : t.message[p].guid = g}}]

\* Errors make a run partial.
ExtractsClean(t, rows) ==
  Seated(t) = DOMAIN t.seat /\ \A p \in rows : SenderKnown(t, t.message[p])

\* extract, in full.
MessagesExtraction(t) ==
  [units |-> MessageUnits(t, DOMAIN t.message), headers |-> MessagesHeaders(t),
   stubs |-> StubsOf(t, DOMAIN t.message)]

=============================================================================
