------------------------------ MODULE MCParts ------------------------------
(* Instances of Parts for TLC. *)
EXTENDS Parts, TLC

CONSTANTS ta, tb   \* tables of PageOwners

CONSTANTS gc, gd   \* guids of MessagesRoute's messages

CONSTANTS ann, own, lid, team, nick, sa, sb, photo1, va, vb   \* names in WhatsAppRoute's tables

Roots12 == (ta :> 1) @@ (tb :> 2)

\* The rows of WhatsAppRoute's tables.
ChatRow(jid, name) == [jid |-> jid, name |-> name]
Member(chat, jid, name, active) == [chat |-> chat, jid |-> jid, name |-> name, active |-> active]
Medium(message, path) == [message |-> message, path |-> path]
GroupChange(at, members) == [group |-> team, at |-> at, members |-> members]
Message(chat, stanza, parent, sender, to, text) ==
  [chat |-> chat, stanza |-> stanza, sort |-> 0, parent |-> parent, me |-> sender = Me,
   from |-> IF sender = Me THEN NoJid ELSE sender, to |-> to, text |-> text, system |-> FALSE]

\* Two chats, a message with a photo and a reply to it from the group.
Answered ==
  [chat    |-> (1 :> ChatRow(ann, nick)) @@ (2 :> ChatRow(team, NoName)),
   info    |-> (1 :> 2),
   member  |-> (1 :> Member(2, ann, NoName, TRUE)),
   push    |-> <<>>,
   message |-> (1 :> Message(1, sa, 0, ann, own, va)) @@ (2 :> Message(2, sb, 1, ann, NoJid, va)),
   media   |-> (1 :> Medium(1, photo1)),
   data    |-> <<>>,
   change  |-> (1 :> GroupChange(1, {ann})) @@ (2 :> GroupChange(1, {lid})),
   files   |-> (photo1 :> va),
   pairs   |-> {<<lid, ann, "LID">>}]

\* The same, the first message in two rows.
Doubled == [Answered EXCEPT !.message = @ @@ (3 :> Message(1, sa, 2, ann, NoJid, vb))]

Populations == {Doubled}

NativeRows ==
  [chat    |-> {<<1, ChatRow(lid, nick)>>, <<2, ChatRow(ann, NoName)>>},
   info    |-> {<<1, 1>>},
   member  |-> {<<1, Member(2, lid, nick, FALSE)>>, <<2, Member(1, own, NoName, TRUE)>>},
   push    |-> {<<own, nick>>},
   message |-> {<<1, Message(1, sa, 0, Me, ann, vb)>>, <<1, Message(2, sa, 0, ann, NoJid, va)>>,
                <<2, Message(2, sb, 3, lid, NoJid, va)>>, <<2, Message(1, sa, 1, ann, own, va)>>,
                <<3, [Message(1, sa, 2, ann, lid, vb) EXCEPT !.sort = -1]>>,
                <<3, [Message(2, NoStanza, 0, lid, NoJid, vb) EXCEPT !.system = TRUE]>>,
                <<3, [Message(2, sb, 0, NoJid, NoJid, vb) EXCEPT !.system = TRUE]>>},
   media   |-> {<<1, Medium(2, photo1)>>, <<2, Medium(3, NoPath)>>},
   data    |-> {<<1, 1>>, <<1, 2>>},
   change  |-> {<<1, GroupChange(2, {ann})>>, <<2, GroupChange(1, {ann})>>, <<3, GroupChange(2, {ann, lid})>>}]

PhotoVersions == {<<photo1, vb>>}
LidPairs == {<<lid, ann, "LID">>, <<lid, own, "ContactsV2">>, <<lid, ann, "ContactsV2">>}

\* The rows of MessagesRoute's tables.
Ck(service, tail) == [service |-> service, tail |-> tail]
Chat(guid, name, identifier, service) ==
  [guid |-> guid, name |-> name, identifier |-> identifier, service |-> service]
Note(guid, parent, ck, handle, text) ==
  [guid |-> guid, parent |-> parent, ck |-> ck, handle |-> handle, subject |-> 0, me |-> FALSE,
   text |-> text, inline |-> {}]
JoinRow(chat, message) == [chat |-> chat, message |-> message]
File(guid, path) == [guid |-> guid, path |-> path]
PartRow(message, attachment) == [message |-> message, attachment |-> attachment]

\* A message with a photo in a chat, one inferred to be in another, one of a stub chat.
Texted ==
  [handle     |-> (1 :> ann),
   chat       |-> (1 :> Chat(team, NoName, ann, "iMessage")) @@ (2 :> Chat(own, NoName, ann, "SMS")),
   seat       |-> (1 :> [chat |-> 1, handle |-> 1]),
   message    |-> (1 :> [Note(sa, NoGuid, Ck("SMS", lid), 1, va) EXCEPT !.inline = {photo1}])
                    @@ (2 :> Note(sb, sa, Ck("SMS", ann), 1, va))
                    @@ (3 :> Note(gc, NoGuid, Ck("SMS", lid), 0, va)),
   join       |-> (1 :> JoinRow(1, 1)),
   deleted    |-> <<>>,
   attachment |-> (1 :> File(photo1, photo1)),
   attjoin    |-> (1 :> PartRow(1, 1)) @@ (2 :> PartRow(2, 1)),
   files      |-> (photo1 :> va)]

Texts == {Texted}

TextRows ==
  [handle     |-> {<<1, own>>, <<2, own>>},
   chat       |-> {<<1, Chat(team, nick, ann, "iMessage")>>, <<1, Chat(lid, NoName, ann, "iMessage")>>,
                   <<2, Chat(own, NoName, lid, "SMS")>>, <<2, Chat(own, NoName, ann, "iMessage")>>},
   seat       |-> {<<2, [chat |-> 2, handle |-> 1]>>},
   message    |-> {<<1, Note(sa, NoGuid, Ck("SMS", lid), 1, vb)>>, <<2, Note(sb, sa, Ck("SMS", lid), 2, va)>>,
                   <<3, Note(gc, sb, Ck("SMS", ann), 0, va)>>, <<3, Note(gd, NoGuid, NoCk, 0, va)>>,
                   <<4, [Note(gd, gc, Ck("SMS", own), 0, va) EXCEPT !.me = TRUE, !.subject = 1]>>},
   join       |-> {<<1, JoinRow(2, 1)>>, <<2, JoinRow(1, 3)>>, <<2, JoinRow(2, 1)>>},
   deleted    |-> {<<1, 2>>},
   attachment |-> {<<1, File(photo1, NoFilename)>>, <<2, File(nick, photo1)>>},
   attjoin    |-> {<<1, PartRow(2, 1)>>, <<3, PartRow(3, 1)>>, <<3, PartRow(3, 2)>>}]

=============================================================================
