--------------------------- MODULE WhatsAppSource ---------------------------
(***************************************************************************)
(* What the WhatsApp adapter makes of one state of ChatStorage.sqlite      *)
(* (adapters/whatsapp/adapter.py, events.py, aliases.py): the header       *)
(* records, the records of each message unit (the rows of one chat and     *)
(* stanza), the group events.                                              *)
(*                                                                         *)
(* Tables are a record of partial functions from row ids:                  *)
(*   chat    -> [jid, name]                ZWACHATSESSION                  *)
(*   info    -> chat                       ZWAGROUPINFO                    *)
(*   member  -> [chat, jid, name, active]  ZWAGROUPMEMBER                  *)
(*   push    -> name, by JID               ZWAPROFILEPUSHNAME              *)
(*   message -> [chat, stanza, sort, parent, me, from, to, text, system]   *)
(*   media   -> [message, path]            ZWAMEDIAITEM                    *)
(*   data    -> message                    ZWAMESSAGEDATAITEM              *)
(*   change  -> [group, at, members]       ZWAGROUPMEMBERSCHANGE           *)
(* and beside them what a capture retains: files (path -> its bytes) and   *)
(* pairs (<<lid, phone, database>> of LID.sqlite and ContactsV2.sqlite).   *)
(***************************************************************************)
EXTENDS Integers, FiniteSets, FiniteSetsExt

CONSTANTS Phones, Lids, Groups,     \* JIDs by kind
          Me,                       \* key of the synthetic identity
          NoJid, NoName, NoStanza, NoPath

Jids == Phones \cup Lids \cup Groups

(* Headers *****************************************************************)
Direct(t, c) == t.chat[c].jid \notin Groups     \* chat_kind

Names(t, j) ==
  ({t.push[k] : k \in DOMAIN t.push \cap {j}}
    \cup {t.member[r].name : r \in {r \in DOMAIN t.member : t.member[r].jid = j}}
    \cup {t.chat[c].name : c \in {c \in DOMAIN t.chat : Direct(t, c) /\ t.chat[c].jid = j}})
  \ {NoName}

\* Recipients of incoming rows are the owner.
Recipients(t) ==
  {t.message[p].to : p \in {p \in DOMAIN t.message : ~t.message[p].me}} \cap (Phones \cup Lids)

SeenInMessages(t) ==
  (UNION {{t.message[p].from, t.message[p].to} : p \in DOMAIN t.message}) \cap Jids

\* The owner's JIDs, closed over the LID and phone pairs.
Owners(t) ==
  LET closed == {S \in SUBSET Jids : /\ Recipients(t) \subseteq S
                                     /\ \A p \in t.pairs : p[1] \in S <=> p[2] \in S}
  IN  IF Recipients(t) = {} THEN {} ELSE {j \in Jids : \A S \in closed : j \in S}

Entry(table, key, kind, payload) == [table |-> table, key |-> key, kind |-> kind, payload |-> payload]

ChatEntries(t) ==
  {Entry("ZWACHATSESSION", t.chat[c].jid, "chat",
         <<c, t.chat[c].jid, t.chat[c].name, \E i \in DOMAIN t.info : t.info[i] = c>>) : c \in DOMAIN t.chat}

DirectMemberships(t) ==
  UNION {{Entry("ZWACHATSESSION", <<t.chat[c].jid, k>>, "direct_membership", <<c, t.chat[c].jid, k>>)
            : k \in {t.chat[c].jid, Me}} : c \in {c \in DOMAIN t.chat : Direct(t, c)}}

\* A member row whose chat is gone gives no membership.
MemberRows(t) == {r \in DOMAIN t.member : t.member[r].chat \in DOMAIN t.chat}

GroupMemberships(t) ==
  {LET m == t.member[r]
       chat == t.chat[m.chat].jid
   IN  Entry("ZWAGROUPMEMBER", <<chat, m.jid>>, "group_membership", <<r, chat, m.jid, m.active>>)
     : r \in MemberRows(t)}

AllJids(t) ==
  {j \in Jids : Names(t, j) # {}}
    \cup {t.member[r].jid : r \in MemberRows(t)}
    \cup {t.chat[c].jid : c \in DOMAIN t.chat}
    \cup {p[1] : p \in t.pairs} \cup {p[2] : p \in t.pairs}
    \cup SeenInMessages(t) \cup Owners(t)

Identities(t) ==
  LET owners == Owners(t)
  IN  {Entry("jid", j, "identity", <<j, Names(t, j), j \in owners>>) : j \in AllJids(t)}
        \cup {Entry("me", Me, "me", <<Me>>)}

\* The evidence of a pair names the databases it was read from.
Evidence(t, lid, phone) == {p[3] : p \in {p \in t.pairs : p[1] = lid /\ p[2] = phone}}

\* A LID of several phones is ambiguous and gives no alias.
AliasEntries(t) ==
  {Entry("lid_phone_pair", <<p[1], p[2]>>, "alias", <<p[1], p[2], Evidence(t, p[1], p[2])>>)
     : p \in {p \in t.pairs : \A q \in t.pairs : q[1] = p[1] => q[2] = p[2]}}

\* header_entries
HeaderEntries(t) ==
  ChatEntries(t) \cup DirectMemberships(t) \cup GroupMemberships(t) \cup Identities(t) \cup AliasEntries(t)

(* Message units ***********************************************************)
KeyOf(row) == <<row.chat, row.stanza>>

UnitKeys(t) == {KeyOf(t.message[p]) : p \in {p \in DOMAIN t.message : t.message[p].stanza # NoStanza}}

UnitRows(t, k) == {p \in DOMAIN t.message : KeyOf(t.message[p]) = k}

\* The representative row: ORDER BY ZSORT DESC, Z_PK DESC.
Rep(t, k) ==
  CHOOSE p \in UnitRows(t, k) : \A q \in UnitRows(t, k) \ {p} :
    \/ t.message[q].sort < t.message[p].sort
    \/ t.message[q].sort = t.message[p].sort /\ q < p

MediaRowsOf(t, p) == {r \in DOMAIN t.media : t.media[r].message = p}

\* The media row of the representative, or of the first row of the group that has one.
MediaOf(t, k) ==
  LET with == {p \in UnitRows(t, k) : MediaRowsOf(t, p) # {}}
      owner == IF Rep(t, k) \in with THEN Rep(t, k) ELSE Min(with)
  IN  IF with = {} THEN {} ELSE {Min(MediaRowsOf(t, owner))}

\* What is known of a media row's file: its bytes, that it is missing, or not downloaded.
Probe(t, r) ==
  IF t.media[r].path = NoPath THEN "not_downloaded"
  ELSE IF t.media[r].path \in DOMAIN t.files THEN t.files[t.media[r].path] ELSE "missing"

\* whatsapp_message_key; an incoming row without a sender has none.
HasKey(row) == row.me \/ row.from # NoJid
MessageKey(t, row) == <<t.chat[row.chat].jid, IF row.me THEN Me ELSE row.from, row.stanza>>

\* The keys of the message replied to: none without a row, a known chat, a stanza, a sender.
ReplyTo(t, known, parent) ==
  {MessageKey(t, t.message[p]) :
     p \in {p \in DOMAIN t.message \cap {parent} :
              /\ t.message[p].chat \in known
              /\ t.message[p].stanza # NoStanza
              /\ HasKey(t.message[p])}}

\* _message_group: nothing without a chat or a sender; a message, its attachment, and the
\* event a system message carries. `known` is chat_by_pk.
UnitRecords(t, known, k) ==
  LET p == Rep(t, k)
      rep == t.message[p]
      media == MediaOf(t, k)
      message ==
        [type |-> "message", key |-> MessageKey(t, rep), text |-> rep.text, system |-> rep.system,
         rows |-> UnitRows(t, k), links |-> {d \in DOMAIN t.data : t.data[d] = p},
         media |-> {Probe(t, r) : r \in media}, reply |-> ReplyTo(t, known, rep.parent)]
      attachments ==
        {[type |-> "attachment", key |-> MessageKey(t, rep), row |-> r, bytes |-> Probe(t, r)]
           : r \in {r \in media : t.media[r].path # NoPath}}
      events == IF rep.system THEN {[type |-> "event", key |-> MessageKey(t, rep)]} ELSE {}
  IN  IF rep.chat \notin known \/ ~HasKey(rep) THEN {}
      ELSE {message} \cup attachments \cup events

\* _messages over every row.
AllUnits(t) == [k \in UnitKeys(t) |-> UnitRecords(t, DOMAIN t.chat, k)]

(* Group events ************************************************************)
BaseKey(row) == <<row.group, row.at>>

\* keyed: the lowest row keeps the base key, every other member list gets a key of its own.
Keyed(t, rows) ==
  {LET row == t.change[r]
       holder == Min({q \in rows : BaseKey(t.change[q]) = BaseKey(row)})
   IN  [base |-> BaseKey(row), members |-> row.members,
        variant |-> t.change[holder].members # row.members] : r \in rows}

AllEvents(t) == Keyed(t, DOMAIN t.change)

\* extract, in full.
Extraction(t) == [units |-> AllUnits(t), headers |-> HeaderEntries(t), events |-> AllEvents(t)]

=============================================================================
