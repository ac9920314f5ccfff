----------------------------- MODULE RouteProofs -----------------------------
(***************************************************************************)
(* Selective captures, for any tables, rows, files and changes of them:    *)
(* what the delta of a point routes to is enough, and what it withdraws is *)
(* not too much. The heart of each half is that a record set depends on no *)
(* row but those a routed set accounts for: UnitSame for WhatsApp,         *)
(* RecordsSame for Messages.                                               *)
(***************************************************************************)
EXTENDS Routes, FiniteSetTheorems, WellFoundedInduction, TLAPS

(* Finite sets have a least and a greatest element. *************************)

LEMMA LeastNumber ==
  ASSUME NEW T \in SUBSET Nat, T # {}
  PROVE  \E n \in T : \A m \in T : n <= m
<1> DEFINE R == {p \in Nat \X Nat : p[1] < p[2]}
<1>1. IsWellFoundedOn(R, Nat)
  BY NatLessThanWellFounded DEF OpToRel
<1> HIDE DEF R
<1>2. PICK n \in T : \A m \in T : ~ (<<m, n>> \in R)
  BY <1>1, WFMin, Zenon
<1>3. \A m \in T : ~ (m < n)
  BY <1>2 DEF R
<1> QED BY <1>2, <1>3

\* An order as a set of pairs: it may be one of numbers, either way round, or of rows.
Orders(R, S) ==
  /\ \A x, y \in S : x = y \/ <<x, y>> \in R \/ <<y, x>> \in R
  /\ \A x, y, z \in S : <<x, y>> \in R /\ <<y, z>> \in R => <<x, z>> \in R

LEMMA FirstOf ==
  ASSUME NEW S, IsFiniteSet(S), S # {}, NEW R, Orders(R, S)
  PROVE  \E x \in S : \A y \in S \ {x} : <<x, y>> \in R
<1> DEFINE First(V) == \E x \in V : \A y \in V \ {x} : <<x, y>> \in R
           N == {n \in Nat : \E V \in SUBSET S : V # {} /\ Cardinality(V) = n /\ ~ First(V)}
<1>1. SUFFICES ASSUME ~ First(S) PROVE FALSE
  OBVIOUS
<1>2. N # {} /\ N \in SUBSET Nat
  BY <1>1, FS_CardinalityType
<1>3. PICK n \in N : \A m \in N : n <= m
  <2> HIDE DEF N
  <2> QED BY <1>2, LeastNumber
<1>4. PICK V \in SUBSET S : V # {} /\ Cardinality(V) = n /\ ~ First(V)
  BY <1>3
<1>5. IsFiniteSet(V)
  BY FS_Subset
<1>6. PICK a \in V : TRUE
  BY <1>4
<1>7. V \ {a} # {}
  BY <1>4, <1>6
<1>8. Cardinality(V \ {a}) = n - 1 /\ n \in Nat
  BY <1>3, <1>4, <1>5, <1>6, FS_RemoveElement
<1>9. V \ {a} \in SUBSET S /\ IsFiniteSet(V \ {a})
  BY <1>5, FS_RemoveElement
<1>10. First(V \ {a})
  <2>1. SUFFICES ASSUME ~ First(V \ {a}) PROVE FALSE
    OBVIOUS
  <2>2. n - 1 \in Nat
    BY <1>8, <1>9, FS_CardinalityType
  <2>3. n - 1 \in N
    BY <1>7, <1>8, <1>9, <2>1, <2>2
  <2> QED BY <1>3, <1>8, <2>3
<1>11. PICK b \in V \ {a} : \A y \in (V \ {a}) \ {b} : <<b, y>> \in R
  BY <1>10
<1>12. a # b /\ (<<a, b>> \in R \/ <<b, a>> \in R)
  BY DEF Orders
<1>13. CASE <<b, a>> \in R
  BY <1>4, <1>11, <1>13
<1>14. CASE <<a, b>> \in R
  <2>1. \A y \in V \ {a} : <<a, y>> \in R
    BY <1>11, <1>14 DEF Orders
  <2> QED BY <1>4, <2>1
<1> QED BY <1>12, <1>13, <1>14

LEMMA MinIn ==
  ASSUME NEW S, IsFiniteSet(S), S # {}, S \subseteq Int
  PROVE  Min(S) \in S
<1> DEFINE R == {p \in S \X S : p[1] <= p[2]}
<1>1. Orders(R, S)
  BY DEF Orders
<1>2. PICK x \in S : \A y \in S \ {x} : <<x, y>> \in R
  <2> HIDE DEF R
  <2> QED BY <1>1, FirstOf
<1>3. ASSUME NEW y \in S PROVE x <= y
  <2>1. x \in Int /\ y \in Int
    OBVIOUS
  <2>2. y # x => <<x, y>> \in R
    BY <1>2
  <2> QED BY <2>1, <2>2
<1> QED BY <1>3 DEF Min

LEMMA MaxIn ==
  ASSUME NEW S, IsFiniteSet(S), S # {}, S \subseteq Int
  PROVE  Max(S) \in S
<1> DEFINE R == {p \in S \X S : p[1] >= p[2]}
<1>1. Orders(R, S)
  BY DEF Orders
<1>2. PICK x \in S : \A y \in S \ {x} : <<x, y>> \in R
  <2> HIDE DEF R
  <2> QED BY <1>1, FirstOf
<1>3. ASSUME NEW y \in S PROVE x >= y
  <2>1. x \in Int /\ y \in Int
    OBVIOUS
  <2>2. y # x => <<x, y>> \in R
    BY <1>2
  <2> QED BY <2>1, <2>2
<1> QED BY <1>3 DEF Max

(* WhatsApp: what a unit depends on. ****************************************)

\* The representative of a unit is a row of it.
LEMMA RepIn ==
  ASSUME NEW t, Sortable(t), NEW k, UnitRows(t, k) # {}
  PROVE  Rep(t, k) \in UnitRows(t, k)
<1> DEFINE S == UnitRows(t, k)
           Before(q, p) == \/ t.message[q].sort < t.message[p].sort
                           \/ t.message[q].sort = t.message[p].sort /\ q < p
           R == {p \in S \X S : Before(p[2], p[1])}
<1>1. S \in SUBSET DOMAIN t.message
  BY DEF UnitRows
<1>2. IsFiniteSet(S) /\ S \subseteq Int /\ \A p \in S : t.message[p].sort \in Int
  BY <1>1, FS_Subset DEF Sortable, IsTable
<1>3. Orders(R, S)
  BY <1>2 DEF Orders
<1>4. PICK p \in S : \A q \in S \ {p} : <<p, q>> \in R
  <2> HIDE DEF R
  <2> QED BY <1>2, <1>3, FirstOf
<1>5. \A q \in S \ {p} : Before(q, p)
  BY <1>4
<1> QED BY <1>5 DEF Rep

\* What the records of a row's unit take from elsewhere is the same in both states: its media
\* and their files, its links, its chat, the message it replies to.
RowSame(t, K, u, L, p) ==
  /\ t.message[p] = u.message[p]
  /\ MediaRowsOf(t, p) = MediaRowsOf(u, p)
  /\ \A r \in MediaRowsOf(t, p) : t.media[r] = u.media[r] /\ Probe(t, r) = Probe(u, r)
  /\ \A d : d \in DOMAIN t.data /\ t.data[d] = p <=> d \in DOMAIN u.data /\ u.data[d] = p
  /\ t.message[p].chat \in K <=> t.message[p].chat \in L
  /\ t.message[p].chat \in K => t.chat[t.message[p].chat].jid = u.chat[t.message[p].chat].jid
  /\ ReplyTo(t, K, t.message[p].parent) = ReplyTo(u, L, t.message[p].parent)

LEMMA MediaSame ==
  ASSUME NEW t, NEW u, Sortable(t), NEW k, NEW K, NEW L,
         UnitRows(t, k) = UnitRows(u, k), UnitRows(t, k) # {},
         \A p \in UnitRows(t, k) : RowSame(t, K, u, L, p)
  PROVE  /\ Rep(t, k) \in UnitRows(t, k) /\ Rep(t, k) = Rep(u, k)
         /\ MediaOf(t, k) = MediaOf(u, k)
         /\ \A r \in MediaOf(t, k) : t.media[r] = u.media[r] /\ Probe(t, r) = Probe(u, r)
<1> DEFINE S == UnitRows(t, k)
           with == {p \in S : MediaRowsOf(t, p) # {}}
           owner == IF Rep(t, k) \in with THEN Rep(t, k) ELSE Min(with)
<1>1. Rep(t, k) \in S
  BY RepIn
<1>2. Rep(t, k) = Rep(u, k)
  BY DEF Rep, RowSame
<1>3. with = {p \in UnitRows(u, k) : MediaRowsOf(u, p) # {}}
  BY DEF RowSame
<1>4. ASSUME with # {} PROVE owner \in S /\ MediaRowsOf(t, owner) # {}
  <2>1. with \in SUBSET DOMAIN t.message
    BY DEF UnitRows
  <2>2. IsFiniteSet(with) /\ with \subseteq Int
    BY <2>1, FS_Subset DEF Sortable, IsTable
  <2> HIDE DEF with
  <2>3. Min(with) \in with
    BY <1>4, <2>2, MinIn
  <2>4. owner \in with
    BY <2>3
  <2> QED BY <2>4 DEF with
<1>5. MediaOf(t, k) = IF with = {} THEN {} ELSE {Min(MediaRowsOf(t, owner))}
  BY DEF MediaOf
<1>6. MediaOf(u, k) = IF with = {} THEN {} ELSE {Min(MediaRowsOf(u, owner))}
  BY <1>2, <1>3 DEF MediaOf
<1>7. CASE with = {}
  BY <1>1, <1>2, <1>5, <1>6, <1>7
<1>8. CASE with # {}
  <2> HIDE DEF owner, with
  <2>1. RowSame(t, K, u, L, owner)
    BY <1>4, <1>8
  <2>2. MediaRowsOf(t, owner) = MediaRowsOf(u, owner)
    BY <2>1 DEF RowSame
  <2>3. MediaRowsOf(t, owner) \in SUBSET DOMAIN t.media
    BY DEF MediaRowsOf
  <2>4. IsFiniteSet(MediaRowsOf(t, owner)) /\ MediaRowsOf(t, owner) \subseteq Int
    BY <2>3, FS_Subset DEF Sortable, IsTable
  <2>5. Min(MediaRowsOf(t, owner)) \in MediaRowsOf(t, owner)
    BY <1>4, <1>8, <2>4, MinIn
  <2>6. \A r \in MediaRowsOf(t, owner) : t.media[r] = u.media[r] /\ Probe(t, r) = Probe(u, r)
    BY <2>1 DEF RowSame
  <2>7. MediaOf(t, k) = {Min(MediaRowsOf(t, owner))} /\ MediaOf(u, k) = MediaOf(t, k)
    BY <1>5, <1>6, <1>8, <2>2
  <2> QED BY <1>1, <1>2, <2>5, <2>6, <2>7
<1> QED BY <1>7, <1>8

LEMMA UnitSame ==
  ASSUME NEW t, NEW u, Sortable(t), NEW k, NEW K, NEW L,
         UnitRows(t, k) = UnitRows(u, k), UnitRows(t, k) # {},
         \A p \in UnitRows(t, k) : RowSame(t, K, u, L, p)
  PROVE  UnitRecords(t, K, k) = UnitRecords(u, L, k)
<1> DEFINE p == Rep(t, k)
           rep == t.message[p]
           media == MediaOf(t, k)
<1>1. /\ p \in UnitRows(t, k) /\ p = Rep(u, k) /\ media = MediaOf(u, k)
      /\ \A r \in media : t.media[r] = u.media[r] /\ Probe(t, r) = Probe(u, r)
  BY MediaSame
<1>2. RowSame(t, K, u, L, p)
  BY <1>1
<1>3. rep = u.message[p]
  BY <1>2 DEF RowSame
<1>4. rep.chat \in K <=> rep.chat \in L
  BY <1>2 DEF RowSame
<1>5. CASE rep.chat \notin K \/ ~HasKey(rep)
  BY <1>1, <1>3, <1>4, <1>5 DEF UnitRecords
<1>6. CASE rep.chat \in K /\ HasKey(rep)
  <2> DEFINE key == MessageKey(t, rep)
             links == {d \in DOMAIN t.data : t.data[d] = p}
             probes == {Probe(t, r) : r \in media}
             reply == ReplyTo(t, K, rep.parent)
             kept0 == {r \in media : t.media[r].path # NoPath}
             attachments == {[type |-> "attachment", key |-> key, row |-> r, bytes |-> Probe(t, r)] : r \in kept0}
  <2>1. key = MessageKey(u, rep)
    BY <1>2, <1>6 DEF MessageKey, RowSame
  <2>2. links = {d \in DOMAIN u.data : u.data[d] = p}
    BY <1>2 DEF RowSame
  <2>3. probes = {Probe(u, r) : r \in media}
    BY <1>1
  <2>4. reply = ReplyTo(u, L, rep.parent)
    BY <1>2 DEF RowSame
  <2>5. kept0 = {r \in media : u.media[r].path # NoPath}
    BY <1>1
  <2>6. attachments = {[type |-> "attachment", key |-> key, row |-> r, bytes |-> Probe(u, r)] : r \in kept0}
    BY <1>1
  <2> DEFINE A == {[type |-> "message", key |-> key, text |-> rep.text, system |-> rep.system,
                    rows |-> UnitRows(t, k), links |-> links, media |-> probes, reply |-> reply]}
                  \cup attachments \cup (IF rep.system THEN {[type |-> "event", key |-> key]} ELSE {})
  <2>7. UnitRecords(t, K, k) = A
    BY <1>6 DEF UnitRecords
  <2>8. UnitRecords(u, L, k) = A
    <3> HIDE DEF key, links, probes, reply, kept0, attachments
    <3> QED BY ONLY UnitRows(t, k) = UnitRows(u, k), <1>1, <1>3, <1>4, <1>6, <2>1, <2>2, <2>3, <2>4, <2>5, <2>6 DEF UnitRecords
  <2> QED BY <2>7, <2>8
<1> QED BY <1>5, <1>6

(* WhatsApp: what a delta is routed to. *************************************)

MediaChanges(old, new) ==
  ChangedRows(old, new, "media")
    \cup {r \in DOMAIN new.media \cap DOMAIN old.media : Probe(new, r) # Probe(old, r)}

\* A row that no delta touched.
LEMMA NoDelta ==
  ASSUME NEW table, NEW id, id \notin Delta(table)
  PROVE  /\ id \in DOMAIN point.parent[table] <=> id \in DOMAIN point.tables[table]
         /\ id \in DOMAIN point.tables[table] => point.parent[table][id] = point.tables[table][id]
BY DEF Delta, ChangedRows

\* What a row of the delta was or is, is among its states.
LEMMA StatesHave ==
  ASSUME NEW table, NEW id
  PROVE  /\ id \in DOMAIN point.parent[table] => point.parent[table][id] \in States(table, id)
         /\ id \in DOMAIN point.tables[table] => point.tables[table][id] \in States(table, id)
BY DEF States

LEMMA TouchedHas ==
  ASSUME NEW M, NEW p
  PROVE  /\ p \in M => p \in Touched(M)
         /\ p \in Delta("message") => p \in Touched(M)
         /\ \A r \in Delta("media") : \A m \in States("media", r) : m.message = p => p \in Touched(M)
         /\ \A r \in Delta("data") : p \in States("data", r) => p \in Touched(M)
         /\ p \in DOMAIN MessageRows /\ MessageRows[p].chat \in RenamedChats => p \in Touched(M)
<1> DEFINE A == UNION {{m.message : m \in States("media", r)} : r \in Delta("media")}
           B == UNION {States("data", r) : r \in Delta("data")}
           C == {x \in DOMAIN MessageRows : MessageRows[x].chat \in RenamedChats}
<1>1. Touched(M) = M \cup Delta("message") \cup A \cup B \cup C
  BY DEF Touched
<1>2. \A r \in Delta("media") : \A m \in States("media", r) : m.message = p => p \in A
  <2>1. ASSUME NEW r \in Delta("media"), NEW m \in States("media", r), m.message = p PROVE p \in A
    <3>1. p \in {x.message : x \in States("media", r)}
      BY <2>1
    <3> QED BY <3>1
  <2> QED BY <2>1
<1>3. \A r \in Delta("data") : p \in States("data", r) => p \in B
  OBVIOUS
<1>4. p \in DOMAIN MessageRows /\ MessageRows[p].chat \in RenamedChats => p \in C
  OBVIOUS
<1> HIDE DEF A, B, C
<1> QED BY <1>1, <1>2, <1>3, <1>4

LEMMA ChatSame ==
  ASSUME NEW c, c \notin RenamedChats
  PROVE  /\ c \in DOMAIN point.parent.chat <=> c \in DOMAIN point.tables.chat
         /\ c \in DOMAIN point.tables.chat => point.parent.chat[c].jid = point.tables.chat[c].jid
BY NoDelta DEF RenamedChats

\* A row that is not selected is the same, and so is what its unit takes from elsewhere.
LEMMA UnroutedSame ==
  ASSUME mediaState.changes = MediaChanges(point.parent, point.tables),
         NEW p \in DOMAIN MessageRows, p \notin RoutedRows
  PROVE  /\ p \notin Delta("message") /\ p \in DOMAIN point.parent.message
         /\ RowSame(point.parent, DOMAIN point.parent.chat, point.tables, DOMAIN point.tables.chat, p)
<1> DEFINE P == point.parent
           T == point.tables
           X == Touched(MediaMessages)
           q == T.message[p].parent
<1>1. p \notin WithReplies(X)
  BY DEF RoutedRows, SelectedRows
<1>2. p \notin X /\ q \notin X
  BY <1>1 DEF WithReplies, MessageRows
<1>3. p \notin Delta("message") /\ p \in DOMAIN P.message /\ P.message[p] = T.message[p]
  BY <1>2, TouchedHas, NoDelta DEF MessageRows
<1>4. ASSUME NEW r PROVE /\ r \in MediaRowsOf(P, p) <=> r \in MediaRowsOf(T, p)
                         /\ r \in MediaRowsOf(P, p) => P.media[r] = T.media[r] /\ Probe(P, r) = Probe(T, r)
  <2>1. CASE r \in Delta("media")
    <3>1. r \notin MediaRowsOf(P, p) /\ r \notin MediaRowsOf(T, p)
      BY <1>2, <2>1, TouchedHas, StatesHave DEF MediaRowsOf
    <3> QED BY <3>1
  <2>2. CASE r \notin Delta("media")
    <3>1. r \in MediaRowsOf(P, p) <=> r \in MediaRowsOf(T, p)
      BY <2>2, NoDelta DEF MediaRowsOf
    <3>2. r \in MediaRowsOf(P, p) => r \in DOMAIN P.media /\ r \in DOMAIN T.media /\ P.media[r] = T.media[r]
      BY <2>2, NoDelta DEF MediaRowsOf
    <3>3. ASSUME r \in MediaRowsOf(P, p), Probe(P, r) # Probe(T, r) PROVE FALSE
      <4>1. r \in mediaState.changes /\ r \in DOMAIN T.media
        BY <3>2, <3>3 DEF MediaChanges
      <4>2. T.media[r].message = p
        BY <3>1, <3>3 DEF MediaRowsOf
      <4>3. p \in MediaMessages
        BY <4>1, <4>2 DEF MediaMessages
      <4> QED BY <1>2, <4>3, TouchedHas
    <3> QED BY <3>1, <3>2, <3>3
  <2> QED BY <2>1, <2>2
<1>5. MediaRowsOf(P, p) = MediaRowsOf(T, p)
  <2>1. MediaRowsOf(P, p) \subseteq MediaRowsOf(T, p) /\ MediaRowsOf(T, p) \subseteq MediaRowsOf(P, p)
    BY <1>4
  <2> QED BY <2>1
<1>6. ASSUME NEW d PROVE d \in DOMAIN P.data /\ P.data[d] = p <=> d \in DOMAIN T.data /\ T.data[d] = p
  <2>1. CASE d \in Delta("data")
    BY <1>2, <2>1, TouchedHas, StatesHave
  <2>2. CASE d \notin Delta("data")
    BY <2>2, NoDelta
  <2> QED BY <2>1, <2>2
<1>7. T.message[p].chat \notin RenamedChats
  BY <1>2, TouchedHas DEF MessageRows
<1>8. q \notin Delta("message") /\ (q \in DOMAIN T.message => T.message[q].chat \notin RenamedChats)
  BY <1>2, TouchedHas DEF MessageRows
<1>9. ReplyTo(P, DOMAIN P.chat, q) = ReplyTo(T, DOMAIN T.chat, q)
  <2> DEFINE D(t) == {x \in DOMAIN t.message \cap {q} : /\ t.message[x].chat \in DOMAIN t.chat
                                                      /\ t.message[x].stanza # NoStanza
                                                      /\ HasKey(t.message[x])}
  <2>1. q \in DOMAIN P.message <=> q \in DOMAIN T.message
    BY <1>8, NoDelta
  <2>2. q \in DOMAIN T.message => P.message[q] = T.message[q]
    BY <1>8, NoDelta
  <2>3. CASE q \notin DOMAIN T.message
    BY <2>1, <2>3 DEF ReplyTo
  <2>4. CASE q \in DOMAIN T.message
    <3>1. /\ T.message[q].chat \in DOMAIN P.chat <=> T.message[q].chat \in DOMAIN T.chat
          /\ T.message[q].chat \in DOMAIN T.chat =>
               P.chat[T.message[q].chat].jid = T.chat[T.message[q].chat].jid
      BY <1>8, <2>4, ChatSame
    <3>2. T.message[q].chat \in DOMAIN T.chat => MessageKey(P, P.message[q]) = MessageKey(T, T.message[q])
      BY <2>2, <2>4, <3>1 DEF MessageKey
    <3>3. ReplyTo(P, DOMAIN P.chat, q) =
            IF T.message[q].chat \in DOMAIN T.chat /\ T.message[q].stanza # NoStanza /\ HasKey(T.message[q])
            THEN {MessageKey(P, P.message[q])} ELSE {}
      BY <2>1, <2>2, <2>4, <3>1 DEF ReplyTo
    <3>4. ReplyTo(T, DOMAIN T.chat, q) =
            IF T.message[q].chat \in DOMAIN T.chat /\ T.message[q].stanza # NoStanza /\ HasKey(T.message[q])
            THEN {MessageKey(T, T.message[q])} ELSE {}
      BY <2>4 DEF ReplyTo
    <3> QED BY <3>2, <3>3, <3>4
  <2> QED BY <2>3, <2>4
<1>10. RowSame(P, DOMAIN P.chat, T, DOMAIN T.chat, p)
  BY <1>3, <1>4, <1>5, <1>6, <1>7, <1>9, ChatSame DEF RowSame
<1> QED BY <1>3, <1>10

\* A unit that is neither withdrawn nor emitted again has the rows it had, none of them selected.
LEMMA UnitKept ==
  ASSUME mediaState.changes = MediaChanges(point.parent, point.tables),
         NEW k \in UnitKeys(point.parent), k \notin OldKeys(RoutedRows), k \notin KeysOf(RoutedRows)
  PROVE  /\ UnitRows(point.parent, k) = UnitRows(point.tables, k)
         /\ UnitRows(point.parent, k) # {}
         /\ \A p \in UnitRows(point.parent, k) : p \in DOMAIN MessageRows /\ p \notin RoutedRows
<1> DEFINE P == point.parent
           T == point.tables
<1>1. PICK o \in DOMAIN P.message : P.message[o].stanza # NoStanza /\ k = KeyOf(P.message[o])
  BY DEF UnitKeys
<1>2. k[2] # NoStanza
  BY <1>1 DEF KeyOf
<1>3. ASSUME NEW p \in UnitRows(P, k)
      PROVE  p \in DOMAIN MessageRows /\ p \notin RoutedRows /\ p \in UnitRows(T, k)
  <2>1. p \in DOMAIN P.message /\ KeyOf(P.message[p]) = k /\ P.message[p].stanza # NoStanza
    BY <1>2 DEF UnitRows, KeyOf
  <2>2. p \notin Delta("message")
    BY <2>1 DEF OldKeys
  <2>3. p \in DOMAIN T.message /\ T.message[p] = P.message[p]
    BY <2>1, <2>2, NoDelta
  <2>4. p \notin RoutedRows
    BY <2>1, <2>3 DEF KeysOf, MessageRows
  <2> QED BY <2>1, <2>3, <2>4 DEF UnitRows, MessageRows
<1>4. ASSUME NEW p \in UnitRows(T, k) PROVE p \in UnitRows(P, k)
  <2>1. p \in DOMAIN T.message /\ KeyOf(T.message[p]) = k /\ T.message[p].stanza # NoStanza
    BY <1>2 DEF UnitRows, KeyOf
  <2>2. p \notin RoutedRows
    BY <2>1 DEF KeysOf, MessageRows
  <2>3. p \in DOMAIN P.message /\ P.message[p] = T.message[p]
    BY <2>1, <2>2, UnroutedSame DEF RowSame, MessageRows
  <2> QED BY <2>1, <2>3 DEF UnitRows
<1>5. o \in UnitRows(P, k)
  BY <1>1 DEF UnitRows
<1>6. UnitRows(P, k) \subseteq UnitRows(T, k) /\ UnitRows(T, k) \subseteq UnitRows(P, k)
  BY <1>3, <1>4
<1> QED BY <1>3, <1>5, <1>6

\* The rows of a unit are selected together.
LEMMA WholeGroups ==
  ASSUME NEW p \in DOMAIN MessageRows
  PROVE  /\ KeyOf(MessageRows[p]) \in KeysOf(RoutedRows) => p \in RoutedRows
         /\ KeyOf(MessageRows[p]) \in DeltaGroups => p \in RoutedRows
<1> DEFINE R0 == WithReplies(Touched(MediaMessages))
           groups == DeltaGroups \cup KeysOf(R0)
           k == KeyOf(MessageRows[p])
<1>1. RoutedRows = R0 \cup {x \in DOMAIN MessageRows : KeyOf(MessageRows[x]) \in groups}
  BY DEF RoutedRows, SelectedRows
<1>2. k \in groups => p \in RoutedRows
  BY <1>1
<1>3. ASSUME k \in KeysOf(RoutedRows) PROVE k \in groups
  <2>1. PICK q \in RoutedRows \cap DOMAIN MessageRows : MessageRows[q].stanza # NoStanza /\ KeyOf(MessageRows[q]) = k
    BY <1>3 DEF KeysOf
  <2>2. CASE q \in R0
    <3>1. k \in KeysOf(R0)
      BY <2>1, <2>2 DEF KeysOf
    <3> QED BY <3>1
  <2>3. CASE q \notin R0
    BY <1>1, <2>1, <2>3
  <2> QED BY <2>2, <2>3
<1> QED BY <1>2, <1>3

\* The units there are: those kept that are not withdrawn, and those emitted.
LEMMA UnitDomain ==
  ASSUME mediaState.changes = MediaChanges(point.parent, point.tables)
  PROVE  UnitKeys(point.tables) =
           (UnitKeys(point.parent) \ OldKeys(RoutedRows)) \cup KeysOf(RoutedRows)
<1> DEFINE P == point.parent
           T == point.tables
           rows == RoutedRows
<1>1. ASSUME NEW k \in UnitKeys(T), k \notin KeysOf(rows)
      PROVE  k \in UnitKeys(P) /\ k \notin OldKeys(rows)
  <2>1. PICK p \in DOMAIN MessageRows : MessageRows[p].stanza # NoStanza /\ k = KeyOf(MessageRows[p])
    BY DEF UnitKeys, MessageRows
  <2>2. p \notin rows
    BY <1>1, <2>1 DEF KeysOf
  <2>3. p \in DOMAIN P.message /\ P.message[p] = MessageRows[p]
    BY <2>2, UnroutedSame DEF RowSame, MessageRows
  <2>4. k \in UnitKeys(P)
    BY <2>1, <2>3 DEF UnitKeys
  <2>5. k \notin DeltaGroups
    BY <2>1, <2>2, WholeGroups
  <2>6. KeysOf(rows \ Delta("message")) \subseteq KeysOf(rows)
    BY DEF KeysOf
  <2>7. ASSUME NEW q \in Delta("message") \cap DOMAIN P.message, P.message[q].stanza # NoStanza
        PROVE  KeyOf(P.message[q]) \in DeltaGroups
    <3>1. P.message[q] \in States("message", q)
      BY StatesHave
    <3>2. P.message[q] \in UNION {States("message", x) : x \in Delta("message")}
      BY <3>1
    <3> QED BY <2>7, <3>2 DEF DeltaGroups
  <2>8. k \notin OldKeys(rows)
    BY <1>1, <2>5, <2>6, <2>7 DEF OldKeys
  <2> QED BY <2>4, <2>8
<1>2. KeysOf(rows) \subseteq UnitKeys(T)
  BY DEF KeysOf, UnitKeys, MessageRows
<1>3. ASSUME NEW k \in UnitKeys(P), k \notin OldKeys(rows), k \notin KeysOf(rows) PROVE k \in UnitKeys(T)
  <2>1. PICK p \in UnitRows(P, k) : p \in DOMAIN MessageRows /\ p \notin rows
    BY <1>3, UnitKept
  <2>2. p \in DOMAIN P.message /\ P.message[p] = MessageRows[p] /\ p \in DOMAIN MessageRows
    BY <2>1, UnroutedSame DEF RowSame, MessageRows
  <2>3. PICK o \in DOMAIN P.message : P.message[o].stanza # NoStanza /\ k = KeyOf(P.message[o])
    BY DEF UnitKeys
  <2>4. KeyOf(P.message[p]) = k /\ P.message[p].stanza # NoStanza
    BY <2>1, <2>3 DEF UnitRows, KeyOf
  <2> QED BY <2>2, <2>4 DEF UnitKeys, MessageRows
<1> QED BY <1>1, <1>2, <1>3

\* The chats a keyed extraction knows are enough for the rows it is for.
LEMMA KnownEnough ==
  ASSUME NEW k \in KeysOf(RoutedRows), NEW p \in UnitRows(point.tables, k)
  PROVE  RowSame(point.tables, SelectedChats(RoutedRows), point.tables, DOMAIN point.tables.chat, p)
<1> DEFINE T == point.tables
           K == SelectedChats(RoutedRows)
           q == T.message[p].parent
<1>1. p \in RoutedRows /\ p \in DOMAIN MessageRows
  BY WholeGroups DEF UnitRows, MessageRows
<1>2. K \subseteq DOMAIN T.chat
  BY DEF SelectedChats
<1>3. T.message[p].chat \in DOMAIN T.chat => T.message[p].chat \in K
  BY <1>1 DEF SelectedChats, MessageRows
<1>4. q \in DOMAIN T.message /\ T.message[q].chat \in DOMAIN T.chat => T.message[q].chat \in K
  BY <1>1 DEF SelectedChats, MessageRows
<1>5. ReplyTo(T, K, q) = ReplyTo(T, DOMAIN T.chat, q)
  BY <1>2, <1>4 DEF ReplyTo
<1> QED BY <1>2, <1>3, <1>5 DEF RowSame

LEMMA SelectedFollow ==
  ASSUME mediaState.changes = MediaChanges(point.parent, point.tables),
         Sortable(point.parent), Sortable(point.tables), kept.units = AllUnits(point.parent),
         NEW K, K = SelectedChats(RoutedRows) \/ K = DOMAIN point.tables.chat
  PROVE  SelectedUnits(RoutedRows, K) = AllUnits(point.tables)
<1> DEFINE P == point.parent
           T == point.tables
           old == OldKeys(RoutedRows)
           new == KeysOf(RoutedRows)
<1>1. DOMAIN kept.units = UnitKeys(P) /\ \A k \in UnitKeys(P) : kept.units[k] = UnitRecords(P, DOMAIN P.chat, k)
  BY DEF AllUnits
<1>2. UnitKeys(T) = (DOMAIN kept.units \ old) \cup new
  BY <1>1, UnitDomain
<1>3. ASSUME NEW k \in new PROVE UnitRecords(T, K, k) = UnitRecords(T, DOMAIN T.chat, k)
  <2>1. CASE K = DOMAIN T.chat
    BY <2>1
  <2>2. CASE K = SelectedChats(RoutedRows)
    <3>1. UnitRows(T, k) # {}
      BY DEF KeysOf, UnitRows, MessageRows
    <3>2. \A p \in UnitRows(T, k) : RowSame(T, K, T, DOMAIN T.chat, p)
      BY <2>2, KnownEnough
    <3> QED BY <3>1, <3>2, UnitSame
  <2> QED BY <2>1, <2>2
<1>4. ASSUME NEW k \in UnitKeys(P), k \notin old, k \notin new
      PROVE  kept.units[k] = UnitRecords(T, DOMAIN T.chat, k)
  <2>1. \A p \in UnitRows(P, k) : RowSame(P, DOMAIN P.chat, T, DOMAIN T.chat, p)
    BY <1>4, UnitKept, UnroutedSame
  <2>2. UnitRows(P, k) = UnitRows(T, k) /\ UnitRows(P, k) # {}
    BY <1>4, UnitKept
  <2>3. UnitRecords(P, DOMAIN P.chat, k) = UnitRecords(T, DOMAIN T.chat, k)
    BY <2>1, <2>2, UnitSame
  <2> QED BY <1>1, <2>3
<1> DEFINE f == [k \in UnitKeys(T) |-> IF k \in new THEN UnitRecords(T, K, k) ELSE kept.units[k]]
<1>5. SelectedUnits(RoutedRows, K) = f
  BY <1>2 DEF SelectedUnits
<1>6. \A k \in UnitKeys(T) : f[k] = UnitRecords(T, DOMAIN T.chat, k)
  BY <1>1, <1>2, <1>3, <1>4
<1>7. f = [k \in UnitKeys(T) |-> UnitRecords(T, DOMAIN T.chat, k)]
  BY <1>6
<1> QED BY <1>5, <1>7 DEF AllUnits

(* WhatsApp: headers and events. ********************************************)

LEMMA EntryShape ==
  ASSUME NEW t, NEW e \in HeaderEntries(t)
  PROVE  e = Entry(e.table, e.key, e.kind, e.payload)
<1>1. e \in ChatEntries(t) \/ e \in DirectMemberships(t) \/ e \in GroupMemberships(t)
        \/ e \in Identities(t) \/ e \in AliasEntries(t)
  BY DEF HeaderEntries
<1>2. CASE e \in ChatEntries(t)
  <2>1. ASSUME NEW a, NEW k, NEW n, NEW x, e = Entry(a, k, n, x)
        PROVE  e = Entry(e.table, e.key, e.kind, e.payload)
    BY <2>1 DEF Entry
  <2>2. \E a, k, n, x : e = Entry(a, k, n, x)
    BY <1>2, Zenon DEF ChatEntries
  <2> QED BY <2>1, <2>2
<1>3. CASE e \in DirectMemberships(t)
  BY <1>3 DEF DirectMemberships, Entry
<1>4. CASE e \in GroupMemberships(t)
  BY <1>4 DEF GroupMemberships, Entry
<1>5. CASE e \in Identities(t)
  BY <1>5 DEF Identities, Entry
<1>6. CASE e \in AliasEntries(t)
  BY <1>6 DEF AliasEntries, Entry
<1> QED BY <1>1, <1>2, <1>3, <1>4, <1>5, <1>6

\* Entries of a key whose payloads are the same in both states are the same.
LEMMA EntriesSame ==
  ASSUME NEW t, NEW u, NEW e \in HeaderEntries(t),
         <<e.table, e.key>> \notin FingerprintDiff(Fingerprints(t), Fingerprints(u))
                                     \cap FingerprintDiff(Fingerprints(u), Fingerprints(t))
  PROVE  e \in HeaderEntries(u)
<1> DEFINE k == <<e.table, e.key>>
           Payloads(s) == {<<x.kind, x.payload>> : x \in {x \in HeaderEntries(s) : <<x.table, x.key>> = k}}
<1>1. \A s : DOMAIN Fingerprints(s) = {<<x.table, x.key>> : x \in HeaderEntries(s)}
  BY DEF Fingerprints
<1>2. \A s : k \in DOMAIN Fingerprints(s) => Fingerprints(s)[k] = Payloads(s)
  BY DEF Fingerprints
<1>3. k \in DOMAIN Fingerprints(t)
  BY <1>1
<1>4. k \in DOMAIN Fingerprints(u) /\ Fingerprints(t)[k] = Fingerprints(u)[k]
  BY <1>3 DEF FingerprintDiff
<1>5. Payloads(t) = Payloads(u)
  BY <1>2, <1>3, <1>4
<1>6. <<e.kind, e.payload>> \in Payloads(t)
  OBVIOUS
<1>7. PICK x \in HeaderEntries(u) : <<x.table, x.key>> = k /\ <<x.kind, x.payload>> = <<e.kind, e.payload>>
  <2>1. <<e.kind, e.payload>> \in Payloads(u)
    BY <1>5, <1>6
  <2>2. PICK x \in {x \in HeaderEntries(u) : <<x.table, x.key>> = k} : <<e.kind, e.payload>> = <<x.kind, x.payload>>
    BY <2>1
  <2> QED BY <2>2
<1>8. x = Entry(x.table, x.key, x.kind, x.payload) /\ e = Entry(e.table, e.key, e.kind, e.payload)
  BY EntryShape
<1>9. x.table = e.table /\ x.key = e.key /\ x.kind = e.kind /\ x.payload = e.payload
  BY <1>7
<1> QED BY <1>8, <1>9

LEMMA HeadersKeyed ==
  ASSUME kept.headers = HeaderEntries(point.parent),
         headerState.changes = FingerprintDiff(Fingerprints(point.parent), Fingerprints(point.tables))
  PROVE  KeyedHeadersAfter = HeaderEntries(point.tables)
<1> DEFINE P == point.parent
           T == point.tables
<1>1. ASSUME NEW e \in HeaderEntries(P), <<e.table, e.key>> \notin headerState.changes PROVE e \in HeaderEntries(T)
  BY <1>1, EntriesSame
<1>2. ASSUME NEW e \in HeaderEntries(T), <<e.table, e.key>> \notin headerState.changes PROVE e \in HeaderEntries(P)
  BY <1>2, EntriesSame
<1> QED BY <1>1, <1>2 DEF KeyedHeadersAfter

\* The event of one row among `rows`.
EventAmong(t, rows, r) ==
  [base |-> BaseKey(t.change[r]), members |-> t.change[r].members,
   variant |-> t.change[Min({q \in rows : BaseKey(t.change[q]) = BaseKey(t.change[r])})].members
                 # t.change[r].members]

LEMMA KeyedAmong ==
  ASSUME NEW t, NEW rows
  PROVE  Keyed(t, rows) = {EventAmong(t, rows, r) : r \in rows}
BY DEF Keyed, EventAmong

\* Keys of events that a delta of the change table touches.
BaseChanges(old, new) ==
  {BaseKey(old.change[r]) : r \in ChangedRows(old, new, "change") \cap DOMAIN old.change}
    \cup {BaseKey(new.change[r]) : r \in ChangedRows(old, new, "change") \cap DOMAIN new.change}

LEMMA EventSame ==
  ASSUME NEW t, NEW u, Sortable(t), NEW r \in DOMAIN t.change,
         BaseKey(t.change[r]) \notin BaseChanges(t, u) \cap BaseChanges(u, t)
  PROVE  /\ r \in DOMAIN u.change
         /\ EventAmong(t, DOMAIN t.change, r) = EventAmong(u, DOMAIN u.change, r)
<1> DEFINE b == BaseKey(t.change[r])
           Of(s) == {q \in DOMAIN s.change : BaseKey(s.change[q]) = b}
<1>1. BaseChanges(t, u) = BaseChanges(u, t)
  <2>1. ChangedRows(t, u, "change") = ChangedRows(u, t, "change")
    BY DEF ChangedRows
  <2> QED BY <2>1 DEF BaseChanges
<1>2. ASSUME NEW q \in Of(t) PROVE q \in Of(u) /\ t.change[q] = u.change[q]
  <2>1. q \notin ChangedRows(t, u, "change")
    BY <1>1 DEF BaseChanges
  <2> QED BY <2>1 DEF ChangedRows
<1>3. ASSUME NEW q \in Of(u) PROVE q \in Of(t)
  <2>1. q \notin ChangedRows(t, u, "change")
    BY <1>1 DEF BaseChanges
  <2> QED BY <2>1 DEF ChangedRows
<1>4. Of(t) = Of(u)
  <2>1. Of(t) \subseteq Of(u) /\ Of(u) \subseteq Of(t)
    BY <1>2, <1>3
  <2> QED BY <2>1
<1>5. r \in Of(t)
  OBVIOUS
<1>6. Of(t) \in SUBSET DOMAIN t.change
  OBVIOUS
<1>7. IsFiniteSet(Of(t)) /\ Of(t) \subseteq Int
  BY <1>6, FS_Subset DEF Sortable, IsTable
<1>8. Min(Of(t)) \in Of(t)
  <2> HIDE DEF Of
  <2> QED BY <1>5, <1>7, MinIn
<1>9. r \in DOMAIN u.change /\ t.change[r] = u.change[r] /\ t.change[Min(Of(t))] = u.change[Min(Of(t))]
  BY <1>2, <1>5, <1>8
<1>10. EventAmong(t, DOMAIN t.change, r) =
         [base |-> b, members |-> t.change[r].members, variant |-> t.change[Min(Of(t))].members # t.change[r].members]
  BY DEF EventAmong
<1>11. EventAmong(u, DOMAIN u.change, r) =
         [base |-> b, members |-> u.change[r].members, variant |-> u.change[Min(Of(u))].members # u.change[r].members]
  BY <1>9 DEF EventAmong
<1> QED BY <1>4, <1>9, <1>10, <1>11

LEMMA EventsKeyed ==
  ASSUME kept.events = AllEvents(point.parent), Sortable(point.parent), Sortable(point.tables),
         eventState.keys = BaseKeys(point.tables),
         eventState.changes = BaseChanges(point.parent, point.tables)
  PROVE  KeyedEventsAfter = AllEvents(point.tables)
<1> DEFINE P == point.parent
           T == point.tables
           C == eventState.changes
           R == {r \in DOMAIN eventState.keys : eventState.keys[r] \in C}
<1>1. R = {r \in DOMAIN T.change : BaseKey(T.change[r]) \in C}
  BY DEF BaseKeys
<1>2. AllEvents(P) = {EventAmong(P, DOMAIN P.change, r) : r \in DOMAIN P.change}
  BY KeyedAmong DEF AllEvents
<1>3. AllEvents(T) = {EventAmong(T, DOMAIN T.change, r) : r \in DOMAIN T.change}
  BY KeyedAmong DEF AllEvents
<1>4. Keyed(T, R) = {EventAmong(T, R, r) : r \in R}
  BY KeyedAmong
<1>5. ASSUME NEW r \in R PROVE EventAmong(T, R, r) = EventAmong(T, DOMAIN T.change, r)
  <2>1. {q \in R : BaseKey(T.change[q]) = BaseKey(T.change[r])}
          = {q \in DOMAIN T.change : BaseKey(T.change[q]) = BaseKey(T.change[r])}
    BY <1>1
  <2> QED BY <2>1 DEF EventAmong
<1>6. \A t, r : EventAmong(t, DOMAIN t.change, r).base = BaseKey(t.change[r])
  BY DEF EventAmong
<1>7. ASSUME NEW r \in DOMAIN P.change, BaseKey(P.change[r]) \notin C
      PROVE  EventAmong(P, DOMAIN P.change, r) \in AllEvents(T)
  BY <1>3, <1>7, EventSame
<1>8. ASSUME NEW r \in DOMAIN T.change, BaseKey(T.change[r]) \notin C
      PROVE  EventAmong(T, DOMAIN T.change, r) \in AllEvents(P)
  BY <1>2, <1>8, EventSame
<1> HIDE DEF R, C
<1>9. KeyedEventsAfter = {e \in AllEvents(P) : e.base \notin C} \cup Keyed(T, R)
  BY DEF KeyedEventsAfter, R, C
<1>10. ASSUME NEW e \in AllEvents(P), e.base \notin C PROVE e \in AllEvents(T)
  BY <1>2, <1>6, <1>7, <1>10
<1>11. ASSUME NEW e \in Keyed(T, R) PROVE e \in AllEvents(T)
  BY <1>1, <1>3, <1>4, <1>5
<1>12. ASSUME NEW e \in AllEvents(T), e.base \notin C PROVE e \in AllEvents(P)
  BY <1>3, <1>6, <1>8, <1>12
<1>13. ASSUME NEW e \in AllEvents(T), e.base \in C PROVE e \in Keyed(T, R)
  BY <1>1, <1>3, <1>4, <1>5, <1>6, <1>13
<1> QED BY <1>9, <1>10, <1>11, <1>12, <1>13

LEMMA EventsRest ==
  ASSUME kept.events = AllEvents(point.parent), Sortable(point.parent), Sortable(point.tables),
         Delta("change") = {}
  PROVE  kept.events = AllEvents(point.tables)
<1> DEFINE P == point.parent
           T == point.tables
<1>1. BaseChanges(P, T) = {}
  BY DEF BaseChanges, Delta
<1>2. ASSUME NEW r \in DOMAIN P.change
      PROVE  r \in DOMAIN T.change /\ EventAmong(P, DOMAIN P.change, r) = EventAmong(T, DOMAIN T.change, r)
  BY <1>1, EventSame
<1>3. ASSUME NEW r \in DOMAIN T.change
      PROVE  r \in DOMAIN P.change /\ EventAmong(P, DOMAIN P.change, r) = EventAmong(T, DOMAIN T.change, r)
  BY <1>1, EventSame
<1>4. /\ AllEvents(P) = {EventAmong(P, DOMAIN P.change, r) : r \in DOMAIN P.change}
      /\ AllEvents(T) = {EventAmong(T, DOMAIN T.change, r) : r \in DOMAIN T.change}
  BY KeyedAmong DEF AllEvents
<1> QED BY <1>2, <1>3, <1>4

(* WhatsApp: the invariant. *************************************************)

\* The cache has retained the point, or its parent while the point is pending; the states of
\* headers and events are those of the point, if they are of its token; and what a pending
\* point says has changed is what differs from its parent.
WhatsAppInv ==
  /\ DOMAIN point = {"token", "tables", "parent", "baseline", "pending"}
  /\ point.pending \in BOOLEAN
  /\ Sortable(native) /\ Sortable(point.tables) /\ Sortable(point.parent)
  /\ kept = Extraction(IF point.pending THEN point.parent ELSE point.tables)
  /\ headerState.point = point.token => headerState.fp = Fingerprints(point.tables)
  /\ eventState.point = point.token => eventState.keys = BaseKeys(point.tables)
  /\ point.pending =>
       /\ ~mediaState.full => mediaState.changes = MediaChanges(point.parent, point.tables)
       /\ HeadersAvailable =>
            headerState.changes = FingerprintDiff(Fingerprints(point.parent), Fingerprints(point.tables))
       /\ EventsAvailable => eventState.changes = BaseChanges(point.parent, point.tables)

LEMMA WhatsAppStart ==
  ASSUME RouteInit PROVE WhatsAppInv
<1>1. /\ DOMAIN point = {"token", "tables", "parent", "baseline", "pending"}
      /\ point.pending = FALSE /\ point.token = 1 /\ point.tables = native /\ point.parent = native
  BY DEF RouteInit, Covered
<1>2. Sortable(native) /\ kept = Extraction(native)
  BY WhatsAppRouteAssumption DEF RouteInit
<1>3. headerState.point = 1 => headerState.fp = Fingerprints(native)
  BY DEF RouteInit, NoKey
<1>4. eventState.point = 1 => eventState.keys = BaseKeys(native)
  BY DEF RouteInit, NoKey
<1> QED BY <1>1, <1>2, <1>3, <1>4 DEF WhatsAppInv

(* The source changes. *)

\* Tables are replaced one at a time.
LEMMA TableReplaced ==
  ASSUME NEW t, Sortable(t), NEW table, NEW f,
         table \in {"message", "media", "change"} => IsTable(f),
         table = "message" => \A p \in DOMAIN f : f[p].sort \in Int
  PROVE  Sortable([t EXCEPT ![table] = f])
<1> DEFINE u == [t EXCEPT ![table] = f]
<1>1. DOMAIN u = DOMAIN t
  OBVIOUS
<1>2. \A x \in DOMAIN t : u[x] = IF x = table THEN f ELSE t[x]
  OBVIOUS
<1> HIDE DEF u
<1>3. \A x \in {"message", "media", "change"} : x \in DOMAIN u /\ IsTable(u[x])
  BY <1>1, <1>2 DEF Sortable
<1>4. u.message = IF table = "message" THEN f ELSE t.message
  BY <1>2 DEF Sortable
<1>5. \A p \in DOMAIN u.message : u.message[p].sort \in Int
  BY <1>4 DEF Sortable
<1> QED BY <1>3, <1>5 DEF Sortable, u

\* A row more or less, and a table is one still.
LEMMA TableGrows ==
  ASSUME NEW f, NEW g, NEW id, IsTable(f)
  PROVE  /\ id \in Int /\ DOMAIN g = DOMAIN f \cup {id} => IsTable(g)
         /\ DOMAIN g = DOMAIN f \ {id} => IsTable(g)
<1>1. IsFiniteSet(DOMAIN f) /\ DOMAIN f \subseteq Int
  BY DEF IsTable
<1>2. IsFiniteSet(DOMAIN f \cup {id}) /\ IsFiniteSet(DOMAIN f \ {id})
  BY <1>1, FS_AddElement, FS_RemoveElement
<1> QED BY <1>1, <1>2 DEF IsTable

LEMMA PutKeeps ==
  ASSUME NEW table, NEW id, NEW row, Sortable(native),
         table \in {"message", "media", "change"} => id \in Int,
         table = "message" => row.sort \in Int
  PROVE  Sortable(PutNative(table, id, row))
<1> DEFINE f == [i \in DOMAIN native[table] \cup {id} |-> IF i = id THEN row ELSE native[table][i]]
<1>1. DOMAIN f = DOMAIN native[table] \cup {id}
  OBVIOUS
<1>2. table \in {"message", "media", "change"} => IsTable(f)
  <2> HIDE DEF f
  <2>1. table \in {"message", "media", "change"} => IsTable(native[table])
    BY DEF Sortable
  <2> QED BY <1>1, <2>1, TableGrows
<1>3. table = "message" => \A p \in DOMAIN f : f[p].sort \in Int
  BY DEF Sortable
<1>4. Sortable([native EXCEPT ![table] = f])
  <2> HIDE DEF f
  <2> QED BY <1>2, <1>3, TableReplaced
<1> QED BY <1>4 DEF PutNative

LEMMA DropKeeps ==
  ASSUME NEW table, NEW id, Sortable(native)
  PROVE  Sortable([native EXCEPT ![table] = Dropped(@, id)])
<1> DEFINE f == Dropped(native[table], id)
<1>1. DOMAIN f = DOMAIN native[table] \ {id} /\ \A p \in DOMAIN f : f[p] = native[table][p]
  BY DEF Dropped
<1> HIDE DEF f
<1>2. table \in {"message", "media", "change"} => IsTable(f)
  <2>1. table \in {"message", "media", "change"} => IsTable(native[table])
    BY DEF Sortable
  <2> QED BY <1>1, <2>1, TableGrows
<1>3. table = "message" => \A p \in DOMAIN f : f[p].sort \in Int
  BY <1>1 DEF Sortable
<1>4. Sortable([native EXCEPT ![table] = f])
  BY <1>2, <1>3, TableReplaced
<1> QED BY <1>4 DEF f

\* Whatever the application does to its database and its files.
LEMMA SourceChanges ==
  ASSUME WhatsAppInv, WriteNative(RowsOf) \/ DeleteNative(DOMAIN RowsOf) \/ WriteFile \/ DeleteFile \/ ChangePairs
  PROVE  Sortable(native') /\ UNCHANGED <<point, mediaState, kept>>
<1>1. Sortable(native)
  BY DEF WhatsAppInv
<1>2. CASE WriteNative(RowsOf)
  <2>1. PICK table \in DOMAIN RowsOf : \E r \in RowsOf[table] : ChangeNative(PutNative(table, r[1], r[2]))
    BY <1>2 DEF WriteNative
  <2>2. PICK r \in RowsOf[table] : ChangeNative(PutNative(table, r[1], r[2]))
    BY <2>1
  <2>3. table \in {"message", "media", "change"} => r[1] \in Int
    BY WhatsAppRouteAssumption
  <2>4. table = "message" => r[2].sort \in Int
    BY WhatsAppRouteAssumption
  <2>5. Sortable(PutNative(table, r[1], r[2]))
    BY <1>1, <2>3, <2>4, PutKeeps
  <2> QED BY <2>2, <2>5 DEF ChangeNative
<1>3. CASE DeleteNative(DOMAIN RowsOf)
  <2>1. PICK table, id : ChangeNative([native EXCEPT ![table] = Dropped(@, id)])
    BY <1>3 DEF DeleteNative
  <2> QED BY <1>1, <2>1, DropKeeps DEF ChangeNative
<1>4. CASE WriteFile
  <2>1. PICK f : ChangeNative(PutNative("files", f[1], f[2]))
    BY <1>4 DEF WriteFile
  <2>2. Sortable(PutNative("files", f[1], f[2]))
    BY <1>1, PutKeeps
  <2> QED BY <2>1, <2>2 DEF ChangeNative
<1>5. CASE DeleteFile
  <2>1. PICK p : ChangeNative([native EXCEPT !.files = Dropped(@, p)])
    BY <1>5 DEF DeleteFile
  <2> QED BY <1>1, <2>1, DropKeeps DEF ChangeNative
<1>6. CASE ChangePairs
  <2>1. PICK p : ChangeNative([native EXCEPT !.pairs = IF p \in @ THEN @ \ {p} ELSE @ \cup {p}])
    BY <1>6 DEF ChangePairs
  <2> DEFINE f == IF p \in native.pairs THEN native.pairs \ {p} ELSE native.pairs \cup {p}
  <2>2. Sortable([native EXCEPT !["pairs"] = f])
    <3> HIDE DEF f
    <3> QED BY <1>1, TableReplaced
  <2> QED BY <2>1, <2>2 DEF ChangeNative
<1> QED BY <1>2, <1>3, <1>4, <1>5, <1>6

(* A point is prepared. *)

LEMMA PreparedFacts ==
  ASSUME WhatsAppInv, NEW baseline \in BOOLEAN, NEW wholeMedia \in BOOLEAN, PreparePoint(baseline, wholeMedia)
  PROVE  WhatsAppInv'
<1> DEFINE P == point.tables
           T == native
<1>1. /\ point.pending = FALSE /\ UNCHANGED <<native, kept>>
      /\ point' = [token |-> point.token + 1, tables |-> T, parent |-> P, baseline |-> baseline, pending |-> TRUE]
  BY DEF PreparePoint, PrepareTables, WhatsAppInv
<1>2. /\ DOMAIN point' = {"token", "tables", "parent", "baseline", "pending"}
      /\ point'.pending = TRUE /\ point'.tables = T /\ point'.parent = P /\ point'.token = point.token + 1
  BY <1>1
<1>3. kept' = Extraction(P)
  BY <1>1 DEF WhatsAppInv
<1>4. mediaState'.full = FALSE => mediaState'.changes = MediaChanges(P, T)
  BY DEF PreparePoint, PreparedMedia, MediaChanges
<1>5. mediaState'.full \in BOOLEAN
  BY DEF PreparePoint, PreparedMedia
<1>6. /\ headerState'.fp = Fingerprints(T)
      /\ headerState'.full = FALSE => headerState'.changes = FingerprintDiff(Fingerprints(P), Fingerprints(T))
  BY DEF PreparePoint, PreparedHeaders, WhatsAppInv
<1>7. headerState'.full \in BOOLEAN
  BY DEF PreparePoint, PreparedHeaders
<1>8. CASE baseline \/ eventState.point # point.token
  <2>1. eventState' = [point |-> point.token + 1, full |-> TRUE, keys |-> BaseKeys(T), changes |-> {}]
    BY <1>8 DEF PreparePoint, PreparedEvents
  <2>2. eventState'.keys = BaseKeys(T) /\ ~EventsAvailable'
    BY <2>1 DEF EventsAvailable
  <2> QED BY <1>2, <1>3, <1>4, <1>5, <1>6, <1>7, <1>1, <2>2 DEF WhatsAppInv, HeadersAvailable
<1>9. CASE ~ (baseline \/ eventState.point # point.token)
  <2> DEFINE keys == eventState.keys
             new == BaseKeys(T)
             rows == ChangedRows(P, T, "change")
             held == [r \in DOMAIN keys \cup DOMAIN new |->
                        IF r \in rows THEN (IF r \in DOMAIN new THEN {new[r]} ELSE {}) ELSE {keys[r]}]
             has == {r \in DOMAIN held : held[r] # {}}
             changes == {keys[r] : r \in rows \cap DOMAIN keys} \cup {new[r] : r \in rows \cap DOMAIN new}
  <2>1. eventState' = [point |-> point.token + 1, full |-> FALSE,
                       keys |-> [r \in has |-> CHOOSE k \in held[r] : TRUE], changes |-> changes]
    BY <1>9 DEF PreparePoint, PreparedEvents
  <2>2. keys = BaseKeys(P)
    BY <1>9 DEF WhatsAppInv
  <2>3. /\ DOMAIN keys = DOMAIN P.change /\ \A r \in DOMAIN keys : keys[r] = BaseKey(P.change[r])
        /\ DOMAIN new = DOMAIN T.change /\ \A r \in DOMAIN new : new[r] = BaseKey(T.change[r])
    BY <2>2 DEF BaseKeys
  <2>4. changes = BaseChanges(P, T)
    BY <2>3 DEF BaseChanges
  <2>5. \A r : r \notin rows => /\ r \in DOMAIN P.change <=> r \in DOMAIN T.change
                                /\ r \in DOMAIN T.change => P.change[r] = T.change[r]
    BY DEF ChangedRows
  <2>6. \A r \in DOMAIN keys \cup DOMAIN new :
          held[r] = IF r \in DOMAIN new THEN {new[r]} ELSE {}
    <3>1. ASSUME NEW r \in DOMAIN keys \cup DOMAIN new PROVE held[r] = IF r \in DOMAIN new THEN {new[r]} ELSE {}
      <4>1. CASE r \in rows
        BY <4>1
      <4>2. CASE r \notin rows
        <5>1. r \in DOMAIN new /\ keys[r] = new[r]
          BY <2>3, <2>5, <4>2
        <5> QED BY <4>2, <5>1
      <4> QED BY <4>1, <4>2
    <3> QED BY <3>1
  <2> DEFINE f == [r \in has |-> CHOOSE k \in held[r] : TRUE]
  <2>7. has = DOMAIN new
    <3>1. DOMAIN held = DOMAIN keys \cup DOMAIN new
      OBVIOUS
    <3> HIDE DEF held
    <3> QED BY <2>6, <3>1
  <2>8. f = BaseKeys(T)
    <3>1. \A r \in has : f[r] = new[r]
      <4>1. ASSUME NEW r \in has PROVE f[r] = new[r]
        <5>1. held[r] = {new[r]}
          BY <2>6, <2>7
        <5>2. f[r] = CHOOSE k \in held[r] : TRUE
          OBVIOUS
        <5> HIDE DEF held, new, f
        <5> QED BY <5>1, <5>2
      <4> QED BY <4>1
    <3>2. f = [r \in has |-> f[r]]
      OBVIOUS
    <3>3. BaseKeys(T) = [r \in DOMAIN new |-> new[r]]
      BY DEF BaseKeys
    <3> HIDE DEF f, has, new
    <3> QED BY <2>7, <3>1, <3>2, <3>3
  <2>9. eventState'.keys = BaseKeys(T) /\ eventState'.changes = BaseChanges(P, T)
    <3> HIDE DEF f, changes
    <3>1. eventState' = [point |-> point.token + 1, full |-> FALSE, keys |-> f, changes |-> changes]
      BY <2>1 DEF f
    <3> QED BY <2>4, <2>8, <3>1
  <2> QED BY <1>2, <1>3, <1>4, <1>5, <1>6, <1>7, <1>1, <2>9 DEF WhatsAppInv, HeadersAvailable
<1> QED BY <1>8, <1>9

(* A point is covered. *)

LEMMA CoveredFacts ==
  ASSUME WhatsAppInv, NEW full \in BOOLEAN, CoverPoint(full)
  PROVE  WhatsAppInv'
<1> DEFINE P == point.parent
           T == point.tables
           rows == RoutedRows
           whole == full \/ point.baseline \/ mediaState.full \/ ~CanWithdraw(OldKeys(rows), RecordsOf)
<1>1. /\ point.pending
      /\ kept' = IF whole THEN Extraction(T) ELSE Selective(rows)
      /\ point' = [point EXCEPT !.pending = FALSE, !.parent = T]
      /\ UNCHANGED <<native, headerState, eventState, mediaState>>
  BY DEF CoverPoint, FinishPoint
<1>2. /\ DOMAIN point' = DOMAIN point /\ point'.pending = FALSE /\ point'.parent = T
      /\ point'.tables = T /\ point'.token = point.token
  BY <1>1 DEF WhatsAppInv
<1>3. /\ kept.units = AllUnits(P) /\ kept.headers = HeaderEntries(P) /\ kept.events = AllEvents(P)
      /\ Sortable(P) /\ Sortable(T)
  BY <1>1 DEF WhatsAppInv, Extraction
<1>4. CASE whole
  <2>1. kept' = Extraction(T)
    BY <1>1, <1>4
  <2> QED BY <1>1, <1>2, <2>1 DEF WhatsAppInv
<1>5. CASE ~whole
  <2>1. mediaState.changes = MediaChanges(P, T)
    BY <1>1, <1>5 DEF WhatsAppInv
  <2>2. /\ SelectedUnits(rows, SelectedChats(rows)) = AllUnits(T)
        /\ SelectedUnits(rows, DOMAIN T.chat) = AllUnits(T)
    BY <1>3, <2>1, SelectedFollow
  <2>3. HeadersAvailable => KeyedHeadersAfter = HeaderEntries(T)
    BY <1>1, <1>3, HeadersKeyed DEF WhatsAppInv
  <2>4. EventsAvailable => KeyedEventsAfter = AllEvents(T)
    BY <1>1, <1>3, EventsKeyed DEF WhatsAppInv, EventsAvailable
  <2>5. Delta("change") = {} => kept.events = AllEvents(T)
    BY <1>3, EventsRest
  <2>6. Selective(rows) = Extraction(T)
    BY <2>2, <2>3, <2>4, <2>5 DEF Selective, Extraction, KeyedHeaders
  <2>7. kept' = Extraction(T)
    BY <1>1, <1>5, <2>6
  <2> QED BY <1>1, <1>2, <2>7 DEF WhatsAppInv
<1> QED BY <1>4, <1>5

LEMMA WhatsAppStep ==
  ASSUME WhatsAppInv, RouteNext PROVE WhatsAppInv'
<1>1. CASE /\ WriteNative(RowsOf) \/ DeleteNative(DOMAIN RowsOf) \/ WriteFile \/ DeleteFile \/ ChangePairs
           /\ UNCHANGED <<headerState, eventState>>
  <2>1. Sortable(native') /\ UNCHANGED <<point, mediaState, kept, headerState, eventState>>
    BY <1>1, SourceChanges
  <2> QED BY <2>1 DEF WhatsAppInv, HeadersAvailable, EventsAvailable
<1>2. CASE \E baseline, wholeMedia \in BOOLEAN : PreparePoint(baseline, wholeMedia)
  BY <1>2, PreparedFacts
<1>3. CASE \E full \in BOOLEAN : CoverPoint(full)
  BY <1>3, CoveredFacts
<1> QED BY <1>1, <1>2, <1>3 DEF RouteNext

LEMMA WhatsAppRetained ==
  ASSUME WhatsAppInv PROVE UnitsFollow /\ HeadersFollow
BY DEF WhatsAppInv, UnitsFollow, HeadersFollow, Extraction

(* Messages: what the records of a message depend on. ***********************)

AttachmentChanges(old, new) ==
  ChangedRows(old, new, "attachment")
    \cup {a \in DOMAIN new.attachment \cap DOMAIN old.attachment :
            ProbeAttachment(new, a) # ProbeAttachment(old, a)}

LEMMA StatesOfDelta ==
  ASSUME NEW table, NEW ids, NEW id \in ids
  PROVE  /\ id \in DOMAIN point.parent[table] => point.parent[table][id] \in RowStates(table, ids)
         /\ id \in DOMAIN point.tables[table] => point.tables[table][id] \in RowStates(table, ids)
BY StatesHave DEF RowStates

LEMMA Unaltered ==
  ASSUME NEW table, NEW columns, NEW id, id \notin Altered(table, columns)
  PROVE  /\ id \in DOMAIN point.parent[table] <=> id \in DOMAIN point.tables[table]
         /\ id \in DOMAIN point.tables[table] =>
              \A c \in columns : point.parent[table][id][c] = point.tables[table][id][c]
<1>1. CASE id \in Delta(table)
  BY <1>1 DEF Altered
<1>2. CASE id \notin Delta(table)
  BY <1>2, NoDelta
<1> QED BY <1>1, <1>2

\* What each part of the routing is for.
LEMMA RoutedHas ==
  ASSUME NEW p
  PROVE  /\ p \in Delta("message") => p \in RoutedMessages
         /\ p \in JoinedAnew => p \in RoutedMessages
         /\ p \in DeltaStates("deleted") => p \in RoutedMessages
         /\ \A r \in DeltaStates("attjoin") : r.message = p => p \in RoutedMessages
         /\ p \in DOMAIN MessageTable =>
              /\ MessageTable[p].handle \in Delta("handle") => p \in RoutedMessages
              /\ MessageTable[p].subject \in Delta("handle") => p \in RoutedMessages
         /\ \A j \in AllRows("join") :
              j.message = p /\ j.chat \in Altered("chat", {"guid"}) => p \in RoutedMessages
         /\ \A r \in AllRows("attjoin") :
              r.message = p /\ r.attachment \in RoutedAttachments => p \in RoutedMessages
         /\ p \in RoutedOrphans => p \in RoutedMessages
<1> DEFINE A == {r.message : r \in DeltaStates("attjoin")}
           H == {x \in DOMAIN MessageTable :
                   {MessageTable[x].handle, MessageTable[x].subject} \cap Delta("handle") # {}}
           C == {j.message : j \in {j \in AllRows("join") : j.chat \in Altered("chat", {"guid"})}}
           B == {r.message : r \in {r \in AllRows("attjoin") : r.attachment \in RoutedAttachments}}
<1>1. Delta("message") \cup JoinedAnew \cup DeltaStates("deleted") \cup A \cup H \cup C \cup B \cup RoutedOrphans
        \subseteq RoutedMessages
  BY DEF RoutedMessages
<1>2. \A r \in DeltaStates("attjoin") : r.message = p => p \in A
  OBVIOUS
<1>3. p \in DOMAIN MessageTable =>
        /\ MessageTable[p].handle \in Delta("handle") => p \in H
        /\ MessageTable[p].subject \in Delta("handle") => p \in H
  OBVIOUS
<1>4. \A j \in AllRows("join") : j.message = p /\ j.chat \in Altered("chat", {"guid"}) => p \in C
  OBVIOUS
<1>5. \A r \in AllRows("attjoin") : r.message = p /\ r.attachment \in RoutedAttachments => p \in B
  OBVIOUS
<1> HIDE DEF A, H, C, B
<1> QED BY <1>1, <1>2, <1>3, <1>4, <1>5

LEMMA PartsSame ==
  ASSUME mediaState.changes = AttachmentChanges(point.parent, point.tables),
         NEW p, p \notin RoutedMessages
  PROVE  /\ AttachmentsOf(point.parent, p) = AttachmentsOf(point.tables, p)
         /\ \A a \in AttachmentsOf(point.tables, p) :
              /\ point.parent.attachment[a] = point.tables.attachment[a]
              /\ ProbeAttachment(point.parent, a) = ProbeAttachment(point.tables, a)
              /\ OwnerOf(point.parent, a) = OwnerOf(point.tables, a)
<1> DEFINE P == point.parent
           T == point.tables
           J(t) == {j \in DOMAIN t.attjoin : t.attjoin[j].message = p}
           A(t) == {t.attjoin[j].attachment : j \in J(t)}
<1>1. ASSUME NEW j, j \in J(P) \/ j \in J(T) PROVE j \in J(P) /\ j \in J(T) /\ P.attjoin[j] = T.attjoin[j]
  <2>1. j \notin Delta("attjoin")
    BY <1>1, RoutedHas, StatesOfDelta DEF DeltaStates
  <2> QED BY <1>1, <2>1, NoDelta
<1>2. A(P) = A(T)
  <2>1. J(P) = J(T)
    <3>1. J(P) \subseteq J(T) /\ J(T) \subseteq J(P)
      BY <1>1
    <3> QED BY <3>1
  <2> QED BY <1>1, <2>1
<1>3. ASSUME NEW a \in A(T)
      PROVE  /\ a \notin mediaState.changes /\ a \notin Delta("attachment")
             /\ \A r \in DeltaStates("attjoin") : r.attachment # a
  <2>1. PICK j \in J(T) : T.attjoin[j].attachment = a
    OBVIOUS
  <2>2. T.attjoin[j] \in AllRows("attjoin") /\ T.attjoin[j].message = p
    BY DEF AllRows
  <2>3. a \notin RoutedAttachments
    BY <2>1, <2>2, RoutedHas
  <2> QED BY <2>3 DEF RoutedAttachments
<1>4. ASSUME NEW a \in A(T)
      PROVE  /\ a \in DOMAIN P.attachment <=> a \in DOMAIN T.attachment
             /\ a \in DOMAIN T.attachment => P.attachment[a] = T.attachment[a]
  BY <1>3, NoDelta
<1>5. ASSUME NEW a \in A(T), a \in DOMAIN T.attachment
      PROVE  ProbeAttachment(P, a) = ProbeAttachment(T, a)
  BY <1>3, <1>4, <1>5 DEF AttachmentChanges
<1>6. ASSUME NEW a \in A(T) PROVE OwnerOf(P, a) = OwnerOf(T, a)
  <2> DEFINE G(t) == {j \in DOMAIN t.attjoin : t.attjoin[j].attachment = a}
  <2>1. ASSUME NEW j, j \in G(P) \/ j \in G(T) PROVE j \in G(P) /\ j \in G(T) /\ P.attjoin[j] = T.attjoin[j]
    <3>1. j \notin Delta("attjoin")
      BY <1>3, <2>1, StatesOfDelta DEF DeltaStates
    <3> QED BY <2>1, <3>1, NoDelta
  <2>2. G(P) = G(T)
    <3>1. G(P) \subseteq G(T) /\ G(T) \subseteq G(P)
      BY <2>1
    <3> QED BY <3>1
  <2>3. {P.attjoin[j].message : j \in G(P)} = {T.attjoin[j].message : j \in G(T)}
    BY <2>1, <2>2
  <2> QED BY <2>3 DEF OwnerOf
<1>7. AttachmentsOf(P, p) = A(P) \cap DOMAIN P.attachment /\ AttachmentsOf(T, p) = A(T) \cap DOMAIN T.attachment
  BY DEF AttachmentsOf
<1> HIDE DEF A
<1> QED BY <1>2, <1>4, <1>5, <1>6, <1>7

LEMMA CandidatesSame ==
  ASSUME NEW ck,
         ck.tail \notin {c.identifier : c \in RowStates("chat", Altered("chat", {"guid", "identifier", "service"}))}
  PROVE  /\ Candidates(point.parent, ck) = Candidates(point.tables, ck)
         /\ Candidates(point.tables, ck) \subseteq DOMAIN point.tables.chat
         /\ \A c \in Candidates(point.tables, ck) : point.parent.chat[c].guid = point.tables.chat[c].guid
<1> DEFINE P == point.parent
           T == point.tables
           X == Altered("chat", {"guid", "identifier", "service"})
           N(t) == {c \in DOMAIN t.chat : t.chat[c].identifier = ck.tail}
           S(t) == {c \in N(t) : t.chat[c].service = ck.service}
<1>1. ASSUME NEW c, c \in N(P) \/ c \in N(T)
      PROVE  /\ c \in N(P) /\ c \in N(T)
             /\ P.chat[c].guid = T.chat[c].guid /\ P.chat[c].service = T.chat[c].service
  <2>1. c \notin X
    BY <1>1, StatesOfDelta
  <2>2. c \in DOMAIN P.chat <=> c \in DOMAIN T.chat
    BY <2>1, Unaltered
  <2>3. c \in DOMAIN T.chat => \A col \in {"guid", "identifier", "service"} : P.chat[c][col] = T.chat[c][col]
    BY <2>1, Unaltered
  <2> QED BY <1>1, <2>2, <2>3
<1>2. N(P) = N(T)
  <2>1. N(P) \subseteq N(T) /\ N(T) \subseteq N(P)
    BY <1>1
  <2> QED BY <2>1
<1>3. S(P) = S(T)
  BY <1>1, <1>2
<1>4. \A t \in {P, T} : Candidates(t, ck) = IF Cardinality(N(t)) > 1 /\ S(t) # {} THEN S(t) ELSE N(t)
  BY DEF Candidates
<1>5. Candidates(P, ck) = Candidates(T, ck)
  <2> HIDE DEF N, S
  <2> QED BY <1>2, <1>3, <1>4
<1>6. Candidates(T, ck) \subseteq N(T)
  BY <1>4
<1> QED BY <1>1, <1>5, <1>6

LEMMA JoinsSame ==
  ASSUME NEW p, p \notin JoinedAnew
  PROVE  /\ JoinsOf(point.parent, p) = JoinsOf(point.tables, p)
         /\ \A j \in JoinsOf(point.tables, p) : point.parent.join[j] = point.tables.join[j]
<1> DEFINE P == point.parent
           T == point.tables
<1>1. ASSUME NEW j, j \in JoinsOf(P, p) \/ j \in JoinsOf(T, p)
      PROVE  j \in JoinsOf(P, p) /\ j \in JoinsOf(T, p) /\ P.join[j] = T.join[j]
  <2>1. j \notin Delta("join")
    BY <1>1, StatesOfDelta DEF JoinsOf, JoinedAnew, DeltaStates
  <2> QED BY <1>1, <2>1, NoDelta DEF JoinsOf
<1>2. JoinsOf(P, p) \subseteq JoinsOf(T, p) /\ JoinsOf(T, p) \subseteq JoinsOf(P, p)
  BY <1>1
<1> QED BY <1>1, <1>2

\* Of a message in several chats the last is one of them.
LEMMA LastChatIn ==
  ASSUME NEW t, MessagesDb(t), NEW p, JoinsOf(t, p) # {}
  PROVE  \E j \in JoinsOf(t, p) : t.join[j].chat = LastChat(t, p)
<1> DEFINE S == {t.join[j].chat : j \in JoinsOf(t, p)}
           f == [j \in JoinsOf(t, p) |-> t.join[j].chat]
<1>1. "join" \in DOMAIN ChatRowsOf
  BY MessagesRouteAssumption
<1>2. IsFiniteSet(JoinsOf(t, p))
  <2>1. JoinsOf(t, p) \in SUBSET DOMAIN t.join
    BY DEF JoinsOf
  <2> QED BY <1>1, <2>1, FS_Subset DEF MessagesDb, IsTable
<1>3. f \in Surjection(JoinsOf(t, p), S)
  BY DEF Surjection
<1>4. IsFiniteSet(S)
  <2> HIDE DEF f, S
  <2> QED BY <1>2, <1>3, FS_Surjection
<1>5. S \subseteq Int /\ S # {}
  BY DEF MessagesDb, JoinsOf
<1>6. Max(S) \in S
  <2> HIDE DEF S
  <2> QED BY <1>4, <1>5, MaxIn
<1> QED BY <1>6 DEF LastChat

LEMMA OrphanSame ==
  ASSUME NEW p \in DOMAIN MessageTable, p \in DOMAIN point.parent.message, p \notin JoinedAnew,
         point.parent.message[p] = point.tables.message[p]
  PROVE  /\ p \in Orphans(point.parent) <=> p \in Orphans(point.tables)
         /\ Inferred(point.parent, {p}) = Inferred(point.tables, {p})
<1>1. p \in Orphans(point.parent) <=> p \in Orphans(point.tables)
  BY JoinsSame DEF Orphans, MessageTable
<1> QED BY <1>1 DEF Inferred

LEMMA ChatOfSame ==
  ASSUME MessagesDb(point.parent), MessagesDb(point.tables),
         NEW p \in DOMAIN MessageTable, p \in DOMAIN point.parent.message, p \notin RoutedMessages,
         point.parent.message[p] = point.tables.message[p]
  PROVE  ChatOf(point.parent, p) = ChatOf(point.tables, p)
<1> DEFINE P == point.parent
           T == point.tables
           ck == T.message[p].ck
<1>1. p \notin JoinedAnew /\ p \notin RoutedOrphans
  BY RoutedHas
<1>2. /\ p \in Orphans(P) <=> p \in Orphans(T)
      /\ Inferred(P, {p}) = Inferred(T, {p})
  BY <1>1, OrphanSame
<1>3. JoinsOf(P, p) = JoinsOf(T, p) /\ \A j \in JoinsOf(T, p) : P.join[j] = T.join[j]
  BY <1>1, JoinsSame
<1>4. CASE p \notin Orphans(T)
  <2> DEFINE c == LastChat(T, p)
  <2>1. JoinsOf(T, p) # {}
    BY <1>4 DEF Orphans, MessageTable
  <2>2. LastChat(P, p) = c
    <3>1. {P.join[j].chat : j \in JoinsOf(P, p)} = {T.join[j].chat : j \in JoinsOf(T, p)}
      BY <1>3
    <3> QED BY <3>1 DEF LastChat
  <2>3. PICK j \in JoinsOf(T, p) : T.join[j].chat = c
    BY <2>1, LastChatIn
  <2>4. T.join[j] \in AllRows("join") /\ T.join[j].message = p
    BY DEF AllRows, JoinsOf
  <2>5. c \notin Altered("chat", {"guid"})
    BY <2>3, <2>4, RoutedHas
  <2>6. c \in DOMAIN P.chat <=> c \in DOMAIN T.chat
    BY <2>5, Unaltered
  <2>7. c \in DOMAIN T.chat => P.chat[c].guid = T.chat[c].guid
    <3>1. c \in DOMAIN T.chat => \A col \in {"guid"} : P.chat[c][col] = T.chat[c][col]
      BY <2>5, Unaltered
    <3> QED BY <3>1
  <2>8. ChatOf(P, p) = {<<"join_table", P.chat[x].guid>> : x \in {c} \cap DOMAIN P.chat}
    BY <1>2, <1>4, <2>2 DEF ChatOf
  <2>9. ChatOf(T, p) = {<<"join_table", T.chat[x].guid>> : x \in {c} \cap DOMAIN T.chat}
    BY <1>4 DEF ChatOf
  <2> HIDE DEF c
  <2> QED BY <2>6, <2>7, <2>8, <2>9
<1>5. CASE p \in Orphans(T) /\ Inferred(T, {p}) = {}
  BY <1>2, <1>5 DEF ChatOf
<1>6. CASE p \in Orphans(T) /\ Inferred(T, {p}) # {}
  <2> DEFINE N == Candidates(T, ck)
  <2>1. p \in Inferred(T, DOMAIN MessageTable)
    BY <1>6 DEF Inferred
  <2>2. ck.tail \notin {c.identifier : c \in RowStates("chat", Altered("chat", {"guid", "identifier", "service"}))}
    BY <1>1, <2>1 DEF RoutedOrphans, MessageTable
  <2>3. /\ Candidates(P, ck) = N /\ N \subseteq DOMAIN T.chat
        /\ \A c \in N : P.chat[c].guid = T.chat[c].guid
    BY <2>2, CandidatesSame
  <2>4. CASE N = {}
    BY <1>2, <1>6, <2>3, <2>4 DEF ChatOf
  <2>5. CASE N # {}
    <3>1. "chat" \in DOMAIN ChatRowsOf
      BY MessagesRouteAssumption
    <3>2. IsFiniteSet(N) /\ N \subseteq Int
      <4>1. IsTable(T.chat)
        BY <3>1 DEF MessagesDb
      <4> QED BY <2>3, <4>1, FS_Subset DEF IsTable
    <3>3. Min(N) \in N
      <4> HIDE DEF N
      <4> QED BY <2>5, <3>2, MinIn
    <3>4. ChatOf(P, p) = {<<"inferred_ck_chat_id", P.chat[Min(N)].guid>>}
      BY <1>2, <1>6, <2>3, <2>5 DEF ChatOf
    <3>5. ChatOf(T, p) = {<<"inferred_ck_chat_id", T.chat[Min(N)].guid>>}
      BY <1>6, <2>5 DEF ChatOf
    <3> QED BY <2>3, <3>3, <3>4, <3>5
  <2> QED BY <2>4, <2>5
<1> QED BY <1>4, <1>5, <1>6

LEMMA IdentitySame ==
  ASSUME NEW h, h \notin Delta("handle")
  PROVE  IdentityOf(point.parent, h) = IdentityOf(point.tables, h)
BY NoDelta DEF IdentityOf

\* A message that no delta is routed to has the records it had.
LEMMA RecordsSame ==
  ASSUME mediaState.changes = AttachmentChanges(point.parent, point.tables),
         MessagesDb(point.parent), MessagesDb(point.tables),
         NEW p \in DOMAIN MessageTable, p \notin RoutedMessages
  PROVE  /\ p \notin Delta("message") /\ p \in DOMAIN point.parent.message
         /\ point.parent.message[p] = point.tables.message[p]
         /\ MessageRecords(point.parent, p) = MessageRecords(point.tables, p)
<1> DEFINE P == point.parent
           T == point.tables
           row == T.message[p]
           parts == AttachmentsOf(T, p)
<1>1. p \notin Delta("message") /\ p \in DOMAIN P.message /\ P.message[p] = row
  BY RoutedHas, NoDelta DEF MessageTable
<1>2. /\ AttachmentsOf(P, p) = parts
      /\ \A a \in parts : /\ P.attachment[a] = T.attachment[a]
                          /\ ProbeAttachment(P, a) = ProbeAttachment(T, a)
                          /\ OwnerOf(P, a) = OwnerOf(T, a)
  BY PartsSame
<1>3. ChatOf(P, p) = ChatOf(T, p)
  BY <1>1, ChatOfSame
<1>4. IdentityOf(P, row.handle) = IdentityOf(T, row.handle) /\ IdentityOf(P, row.subject) = IdentityOf(T, row.subject)
  BY RoutedHas, IdentitySame DEF MessageTable
<1>5. (\E d \in DOMAIN P.deleted : P.deleted[d] = p) <=> (\E d \in DOMAIN T.deleted : T.deleted[d] = p)
  <2>1. ASSUME NEW d PROVE d \in DOMAIN P.deleted /\ P.deleted[d] = p <=> d \in DOMAIN T.deleted /\ T.deleted[d] = p
    <3>1. CASE d \in Delta("deleted")
      BY <3>1, RoutedHas, StatesOfDelta DEF DeltaStates
    <3>2. CASE d \notin Delta("deleted")
      BY <3>2, NoDelta
    <3> QED BY <3>1, <3>2
  <2> QED BY <2>1
<1> DEFINE purged == row.inline \ {T.attachment[a].guid : a \in parts}
           owned == {a \in parts : OwnerOf(T, a) = p}
           bytes == {ProbeAttachment(T, a) : a \in owned} \ {"missing", "not_downloaded"}
           guids == {T.attachment[a].guid : a \in parts} \cup purged
           sender == IF row.me THEN {} ELSE IdentityOf(T, row.handle)
           grave == \E d \in DOMAIN T.deleted : T.deleted[d] = p
           message == [type |-> "message", key |-> row.guid, row |-> p, chat |-> ChatOf(T, p), me |-> row.me,
                       sender |-> sender, reply |-> row.parent, text |-> row.text, parts |-> guids,
                       tombstone |-> grave]
           attachments == {[type |-> "attachment", key |-> T.attachment[a].guid, row |-> a, message |-> row.guid,
                            bytes |-> ProbeAttachment(T, a)] : a \in owned}
           subjects == {[type |-> "event", key |-> row.guid, subject |-> IdentityOf(T, h)] : h \in {row.subject} \ {0}}
           all == {message} \cup attachments \cup {[type |-> "purged", key |-> g, message |-> row.guid] : g \in purged}
                    \cup {[type |-> "blob", key |-> b] : b \in bytes} \cup subjects
<1>6. MessageRecords(T, p) = all
  BY DEF MessageRecords
<1>7. {P.attachment[a].guid : a \in parts} = {T.attachment[a].guid : a \in parts}
  BY <1>2
<1>8. {a \in parts : OwnerOf(P, a) = p} = owned
  BY <1>2
<1>9. {ProbeAttachment(P, a) : a \in owned} = {ProbeAttachment(T, a) : a \in owned}
  BY <1>2
<1>10. {[type |-> "attachment", key |-> P.attachment[a].guid, row |-> a, message |-> row.guid,
         bytes |-> ProbeAttachment(P, a)] : a \in owned} = attachments
  BY <1>2
<1>11. {[type |-> "event", key |-> row.guid, subject |-> IdentityOf(P, h)] : h \in {row.subject} \ {0}} = subjects
  BY <1>4
<1>12. (IF row.me THEN {} ELSE IdentityOf(P, row.handle)) = sender
  BY <1>4
<1>13. [type |-> "message", key |-> row.guid, row |-> p, chat |-> ChatOf(P, p), me |-> row.me,
        sender |-> IF row.me THEN {} ELSE IdentityOf(P, row.handle), reply |-> row.parent, text |-> row.text,
        parts |-> {P.attachment[a].guid : a \in parts} \cup (row.inline \ {P.attachment[a].guid : a \in parts}),
        tombstone |-> \E d \in DOMAIN P.deleted : P.deleted[d] = p] = message
  <2>1. (\E d \in DOMAIN P.deleted : P.deleted[d] = p) = grave
    BY <1>5
  <2>2. {P.attachment[a].guid : a \in parts} \cup (row.inline \ {P.attachment[a].guid : a \in parts}) = guids
    BY <1>7
  <2> HIDE DEF grave, guids, sender
  <2> QED BY <1>3, <1>12, <2>1, <2>2
<1>14. MessageRecords(P, p) = all
  <2>1. MessageRecords(P, p) =
          {[type |-> "message", key |-> row.guid, row |-> p, chat |-> ChatOf(P, p), me |-> row.me,
            sender |-> IF row.me THEN {} ELSE IdentityOf(P, row.handle), reply |-> row.parent, text |-> row.text,
            parts |-> {P.attachment[a].guid : a \in parts} \cup (row.inline \ {P.attachment[a].guid : a \in parts}),
            tombstone |-> \E d \in DOMAIN P.deleted : P.deleted[d] = p]}
          \cup {[type |-> "attachment", key |-> P.attachment[a].guid, row |-> a, message |-> row.guid,
                 bytes |-> ProbeAttachment(P, a)] : a \in {a \in parts : OwnerOf(P, a) = p}}
          \cup {[type |-> "purged", key |-> g, message |-> row.guid] : g \in row.inline \ {P.attachment[a].guid : a \in parts}}
          \cup {[type |-> "blob", key |-> b] :
                  b \in {ProbeAttachment(P, a) : a \in {a \in parts : OwnerOf(P, a) = p}} \ {"missing", "not_downloaded"}}
          \cup {[type |-> "event", key |-> row.guid, subject |-> IdentityOf(P, h)] : h \in {row.subject} \ {0}}
    <3> HIDE DEF parts, row
    <3> QED BY <1>1, <1>2 DEF MessageRecords
  <2> HIDE DEF message, attachments, subjects, owned, row, parts
  <2> QED BY <2>1, <1>7, <1>8, <1>9, <1>10, <1>11, <1>13
<1> QED BY <1>1, <1>6, <1>14

(* Messages: the units of a selective capture. ******************************)

\* A unit is a row.
LEMMA OneRow ==
  ASSUME NEW t, GuidsUnique(t), NEW rows \in SUBSET DOMAIN t.message, NEW p \in rows
  PROVE  /\ t.message[p].guid \in DOMAIN MessageUnits(t, rows)
         /\ MessageUnits(t, rows)[t.message[p].guid] = MessageRecords(t, p)
<1> DEFINE g == t.message[p].guid
<1>1. g \in {t.message[q].guid : q \in rows}
  OBVIOUS
<1>2. {q \in rows : t.message[q].guid = g} = {p}
  BY DEF GuidsUnique
<1>3. UNION {MessageRecords(t, q) : q \in {q \in rows : t.message[q].guid = g}} = MessageRecords(t, p)
  <2> HIDE DEF g
  <2> QED BY <1>2
<1> HIDE DEF g
<1>4. g \in DOMAIN MessageUnits(t, rows)
  BY <1>1 DEF MessageUnits
<1>5. MessageUnits(t, rows)[g] = UNION {MessageRecords(t, q) : q \in {q \in rows : t.message[q].guid = g}}
  BY <1>1 DEF MessageUnits
<1> QED BY <1>3, <1>4, <1>5 DEF g

Guids(t) == {t.message[p].guid : p \in DOMAIN t.message}

LEMMA RetainedUnit ==
  ASSUME mediaState.changes = AttachmentChanges(point.parent, point.tables),
         MessagesDb(point.parent), MessagesDb(point.tables),
         NEW o \in DOMAIN point.parent.message,
         point.parent.message[o].guid \notin WithdrawnUnits(RoutedMessages)
  PROVE  /\ o \in DOMAIN MessageTable /\ MessageTable[o] = point.parent.message[o]
         /\ o \notin RoutedMessages
         /\ MessageRecords(point.parent, o) = MessageRecords(point.tables, o)
<1>1. o \notin Delta("message")
  BY DEF WithdrawnUnits
<1>2. o \in DOMAIN MessageTable /\ MessageTable[o] = point.parent.message[o]
  BY <1>1, NoDelta DEF MessageTable
<1>3. o \notin RoutedMessages
  BY <1>1, <1>2 DEF WithdrawnUnits
<1> QED BY <1>2, <1>3, RecordsSame

LEMMA MessageUnitsFollow ==
  ASSUME mediaState.changes = AttachmentChanges(point.parent, point.tables),
         MessagesDb(point.parent), MessagesDb(point.tables),
         kept.units = MessageUnits(point.parent, DOMAIN point.parent.message)
  PROVE  SelectiveMessages(RoutedMessages).units = MessageUnits(point.tables, DOMAIN MessageTable)
<1> DEFINE P == point.parent
           T == point.tables
           rows == RoutedMessages
           new == Decoded(T, rows)
           fresh == MessageUnits(T, new)
           W == WithdrawnUnits(rows)
           whole == MessageUnits(T, DOMAIN MessageTable)
           D == (DOMAIN kept.units \ W) \cup DOMAIN fresh
           f == [g \in D |-> IF g \in DOMAIN fresh THEN fresh[g] ELSE kept.units[g]]
<1>1. SelectiveMessages(rows).units = f
  BY DEF SelectiveMessages
<1>2. new = rows \cap DOMAIN MessageTable /\ MessageTable = T.message
  BY DEF Decoded, MessageTable
<1>3. /\ DOMAIN kept.units = Guids(P) /\ DOMAIN whole = Guids(T)
      /\ DOMAIN fresh = {T.message[p].guid : p \in new}
  BY <1>2 DEF MessageUnits, Guids
<1>4. GuidsUnique(P) /\ GuidsUnique(T)
  BY DEF MessagesDb
<1>5. ASSUME NEW p \in new PROVE fresh[T.message[p].guid] = whole[T.message[p].guid]
  <2>1. fresh[T.message[p].guid] = MessageRecords(T, p)
    BY <1>2, <1>4, OneRow
  <2>2. whole[T.message[p].guid] = MessageRecords(T, p)
    BY <1>2, <1>4, OneRow
  <2> QED BY <2>1, <2>2
<1>6. ASSUME NEW g \in Guids(P) \ W
      PROVE  g \in Guids(T) /\ kept.units[g] = whole[g]
  <2>1. PICK o \in DOMAIN P.message : P.message[o].guid = g
    BY DEF Guids
  <2>2. /\ o \in DOMAIN MessageTable /\ MessageTable[o] = P.message[o]
        /\ MessageRecords(P, o) = MessageRecords(T, o)
    BY <2>1, RetainedUnit
  <2>3. kept.units[g] = MessageRecords(P, o)
    BY <1>4, <2>1, OneRow
  <2>4. whole[g] = MessageRecords(T, o)
    BY <1>2, <1>4, <2>1, <2>2, OneRow
  <2> QED BY <1>2, <2>1, <2>2, <2>3, <2>4 DEF Guids
<1>7. ASSUME NEW g \in Guids(T), g \notin DOMAIN fresh PROVE g \in Guids(P) \ W
  <2>1. PICK p \in DOMAIN T.message : T.message[p].guid = g
    BY DEF Guids
  <2>2. p \notin rows
    BY <1>2, <1>3, <1>7, <2>1
  <2>3. p \notin Delta("message") /\ p \in DOMAIN P.message /\ P.message[p] = T.message[p]
    BY <1>2, <2>2, RecordsSame
  <2>4. g \in Guids(P)
    BY <2>1, <2>3 DEF Guids
  <2>5. \A q \in Delta("message") \cap DOMAIN P.message : P.message[q].guid # g
    BY <1>4, <2>1, <2>3 DEF GuidsUnique
  <2>6. \A q \in (rows \cap DOMAIN MessageTable) \ Delta("message") : MessageTable[q].guid # g
    BY <1>2, <1>4, <2>1, <2>2 DEF GuidsUnique
  <2>7. g \notin W
    BY <2>5, <2>6 DEF WithdrawnUnits
  <2> QED BY <2>4, <2>7
<1> HIDE DEF rows, new, fresh, W, whole
<1>8. D = Guids(T)
  <2>1. DOMAIN fresh \subseteq Guids(T)
    BY <1>2, <1>3 DEF Guids
  <2>2. D \subseteq Guids(T) /\ Guids(T) \subseteq D
    BY <1>3, <1>6, <1>7, <2>1
  <2> QED BY <2>2
<1>9. \A g \in D : f[g] = whole[g]
  <2>1. ASSUME NEW g \in D PROVE f[g] = whole[g]
    <3>1. CASE g \in DOMAIN fresh
      BY <1>3, <1>5, <3>1
    <3>2. CASE g \notin DOMAIN fresh
      BY <1>3, <1>6, <3>2
    <3> QED BY <3>1, <3>2
  <2> QED BY <2>1
<1>10. whole = [g \in DOMAIN whole |-> whole[g]]
  BY DEF whole, MessageUnits
<1>11. f = [g \in D |-> f[g]]
  OBVIOUS
<1> HIDE DEF f, D
<1> QED BY <1>1, <1>3, <1>8, <1>9, <1>10, <1>11 DEF rows, whole

(* Messages: the stub chats. ************************************************)

\* The ck_chat_ids of rows that have a join row.
JoinedCks(t) == {t.message[p].ck : p \in DOMAIN t.message \ Orphans(t)}

LEMMA StubOf ==
  ASSUME NEW t, NEW rows, NEW ck
  PROVE  ck \in StubsOf(t, rows) <=>
           /\ Candidates(t, ck) = {}
           /\ \E p \in rows : p \in Orphans(t) /\ t.message[p].ck = ck /\ ck # NoCk
BY DEF StubsOf, Inferred

\* An orphan that no delta is routed to is one as before, and its chats are those there were.
LEMMA StubSame ==
  ASSUME NEW p \in DOMAIN MessageTable, p \in DOMAIN point.parent.message, p \notin RoutedMessages,
         point.parent.message[p] = MessageTable[p]
  PROVE  /\ p \in Orphans(point.parent) <=> p \in Orphans(point.tables)
         /\ p \in Orphans(point.tables) /\ MessageTable[p].ck # NoCk =>
              /\ Candidates(point.parent, MessageTable[p].ck) = Candidates(point.tables, MessageTable[p].ck)
              /\ MessageTable[p].ck \notin StubRefs
<1>1. p \notin JoinedAnew /\ p \notin RoutedOrphans
  BY RoutedHas
<1>2. p \in Orphans(point.parent) <=> p \in Orphans(point.tables)
  BY <1>1, OrphanSame DEF MessageTable
<1>3. ASSUME p \in Orphans(point.tables), MessageTable[p].ck # NoCk
      PROVE  /\ Candidates(point.parent, MessageTable[p].ck) = Candidates(point.tables, MessageTable[p].ck)
             /\ MessageTable[p].ck \notin StubRefs
  <2>1. p \in Inferred(point.tables, DOMAIN MessageTable)
    BY <1>3 DEF Inferred, MessageTable
  <2>2. /\ MessageTable[p].ck.tail \notin
             {c.identifier : c \in RowStates("chat", Altered("chat", {"guid", "identifier", "service"}))}
        /\ MessageTable[p].ck \notin StubRefs
    BY <1>1, <2>1 DEF RoutedOrphans
  <2> QED BY <2>2, CandidatesSame
<1> QED BY <1>2, <1>3

\* A row that had a ck_chat_id has it, or what it was is a stub's reference.
LEMMA CkKept ==
  ASSUME NEW p \in DOMAIN point.parent.message, point.parent.message[p].ck # NoCk,
         point.parent.message[p].ck \notin StubRefs
  PROVE  p \in DOMAIN MessageTable /\ MessageTable[p].ck = point.parent.message[p].ck /\ p \notin JoinedAnew
<1> DEFINE X == Altered("message", {"ck"}) \cup JoinedAnew
<1>1. p \notin X
  <2>1. p \in X => point.parent.message[p] \in RowStates("message", X)
    BY StatesOfDelta
  <2> HIDE DEF X
  <2>2. StubRefs = {m.ck : m \in RowStates("message", X)} \ {NoCk}
    BY DEF StubRefs, X
  <2> QED BY <2>1, <2>2
<1>2. p \in DOMAIN MessageTable
  BY <1>1, Unaltered DEF MessageTable
<1>3. \A c \in {"ck"} : point.parent.message[p][c] = MessageTable[p][c]
  BY <1>1, <1>2, Unaltered DEF MessageTable
<1> QED BY <1>1, <1>2, <1>3

LEMMA MessageStubsFollow ==
  ASSUME mediaState.changes = AttachmentChanges(point.parent, point.tables),
         MessagesDb(point.parent), MessagesDb(point.tables),
         kept.stubs \subseteq StubsOf(point.parent, DOMAIN point.parent.message),
         StubsOf(point.parent, DOMAIN point.parent.message) \ kept.stubs \subseteq JoinedCks(point.parent)
  PROVE  LET stubs == SelectiveMessages(RoutedMessages).stubs
         IN  /\ stubs \subseteq StubsOf(point.tables, DOMAIN MessageTable)
             /\ StubsOf(point.tables, DOMAIN MessageTable) \ stubs \subseteq JoinedCks(point.tables)
<1> DEFINE P == point.parent
           T == point.tables
           rows == RoutedMessages
           new == Decoded(T, rows)
           W == WithdrawnStubs(rows)
           stubs == (kept.stubs \ W) \cup StubsOf(T, new)
<1>1. SelectiveMessages(rows).stubs = stubs
  BY DEF SelectiveMessages
<1>2. new = rows \cap DOMAIN MessageTable /\ MessageTable = T.message
  BY DEF Decoded, MessageTable
<1>3. ASSUME NEW p \in rows, NEW ck, ck # NoCk
      PROVE  /\ p \in DOMAIN P.message /\ P.message[p].ck = ck => ck \in W
             /\ p \in DOMAIN T.message /\ T.message[p].ck = ck => ck \in W
  BY <1>3, StatesOfDelta DEF WithdrawnStubs
<1>4. ASSUME NEW ck \in kept.stubs \ W PROVE ck \in StubsOf(T, DOMAIN MessageTable)
  <2>1. ck \in StubsOf(P, DOMAIN P.message)
    OBVIOUS
  <2>2. Candidates(P, ck) = {} /\ ck # NoCk
    BY <2>1, StubOf
  <2>3. PICK o \in DOMAIN P.message : o \in Orphans(P) /\ P.message[o].ck = ck
    BY <2>1, StubOf
  <2>4. o \notin rows
    BY <1>3, <2>2, <2>3
  <2>5. o \notin Delta("message")
    BY <2>4, RoutedHas
  <2>6. o \in DOMAIN MessageTable /\ P.message[o] = MessageTable[o]
    BY <2>5, NoDelta DEF MessageTable
  <2>7. o \in Orphans(T) /\ Candidates(T, ck) = {}
    BY <2>2, <2>3, <2>4, <2>6, StubSame
  <2> QED BY <1>2, <2>2, <2>3, <2>6, <2>7, StubOf
<1>5. StubsOf(T, new) \subseteq StubsOf(T, DOMAIN MessageTable)
  BY <1>2, StubOf
<1>6. ASSUME NEW ck \in StubsOf(T, DOMAIN MessageTable), ck \notin stubs PROVE ck \in JoinedCks(T)
  <2>1. Candidates(T, ck) = {} /\ ck # NoCk
    BY StubOf
  <2>2. PICK q \in DOMAIN MessageTable : q \in Orphans(T) /\ T.message[q].ck = ck
    BY StubOf
  <2>3. ASSUME NEW p \in rows \cap DOMAIN MessageTable, T.message[p].ck = ck PROVE ck \in JoinedCks(T)
    <3>1. p \notin Orphans(T)
      <4>1. SUFFICES ASSUME p \in Orphans(T) PROVE FALSE
        OBVIOUS
      <4>2. ck \in StubsOf(T, new)
        BY <1>2, <2>1, <2>3, <4>1, StubOf
      <4> QED BY <1>6, <4>2
    <3> QED BY <1>2, <2>3, <3>1 DEF JoinedCks
  <2>4. CASE q \in rows
    BY <2>2, <2>3, <2>4
  <2>5. CASE q \notin rows
    <3>1. q \in DOMAIN P.message /\ P.message[q] = MessageTable[q]
      BY <1>2, <2>5, RecordsSame
    <3>2. q \in Orphans(P) /\ Candidates(P, ck) = {} /\ ck \notin StubRefs
      BY <1>2, <2>1, <2>2, <2>5, <3>1, StubSame
    <3>3. ck \in StubsOf(P, DOMAIN P.message)
      BY <1>2, <2>1, <2>2, <3>1, <3>2, StubOf
    <3>4. CASE ck \in kept.stubs
      <4>1. ck \in W
        BY <1>6, <3>4
      <4>2. PICK id \in rows : \E m \in States("message", id) : m.ck = ck
        BY <4>1 DEF WithdrawnStubs, RowStates
      <4>3. \/ id \in DOMAIN P.message /\ P.message[id].ck = ck
            \/ id \in DOMAIN MessageTable /\ MessageTable[id].ck = ck
        BY <4>2 DEF States, MessageTable
      <4>4. id \in DOMAIN MessageTable /\ MessageTable[id].ck = ck
        BY <2>1, <3>2, <4>3, CkKept
      <4> QED BY <1>2, <2>3, <4>4
    <3>5. CASE ck \notin kept.stubs
      <4>1. PICK p \in DOMAIN P.message \ Orphans(P) : P.message[p].ck = ck
        BY <3>3, <3>5 DEF JoinedCks
      <4>2. p \in DOMAIN MessageTable /\ MessageTable[p].ck = ck /\ p \notin JoinedAnew
        BY <2>1, <3>2, <4>1, CkKept
      <4>3. p \notin Orphans(T)
        BY <4>1, <4>2, JoinsSame DEF Orphans
      <4> QED BY <1>2, <4>2, <4>3 DEF JoinedCks
    <3> QED BY <3>4, <3>5
  <2> QED BY <2>4, <2>5
<1>7. stubs \subseteq StubsOf(T, DOMAIN MessageTable)
  BY <1>4, <1>5
<1>8. StubsOf(T, DOMAIN MessageTable) \ stubs \subseteq JoinedCks(T)
  BY <1>6
<1> HIDE DEF stubs
<1> QED BY <1>1, <1>7, <1>8

(* Messages: the invariant. *************************************************)

\* What is kept is a full extraction of t, but for stubs of ck_chat_ids that rows with a join
\* row have.
KeptOf(t) ==
  /\ kept.units = MessageUnits(t, DOMAIN t.message)
  /\ kept.headers = MessagesHeaders(t)
  /\ kept.stubs \subseteq StubsOf(t, DOMAIN t.message)
  /\ StubsOf(t, DOMAIN t.message) \ kept.stubs \subseteq JoinedCks(t)

\* The cache follows the tables of a covered point, and those of the parent of a pending one,
\* with the attachments that changed since.
MessagesInv ==
  /\ DOMAIN point = {"token", "tables", "parent", "baseline", "pending"}
  /\ point.pending \in BOOLEAN
  /\ MessagesDb(native) /\ MessagesDb(point.tables) /\ MessagesDb(point.parent)
  /\ KeptOf(IF point.pending THEN point.parent ELSE point.tables)
  /\ point.pending /\ ~mediaState.full =>
       mediaState.changes = AttachmentChanges(point.parent, point.tables)

LEMMA MessagesStart ==
  ASSUME MessagesInit PROVE MessagesInv
<1>1. /\ DOMAIN point = {"token", "tables", "parent", "baseline", "pending"}
      /\ point.pending = FALSE /\ point.tables = native /\ point.parent = native
  BY DEF MessagesInit, Covered
<1>2. MessagesDb(native)
  BY MessagesRouteAssumption DEF MessagesInit
<1>3. KeptOf(native)
  <2>1. kept = MessagesExtraction(native)
    BY DEF MessagesInit
  <2> QED BY <2>1 DEF KeptOf, MessagesExtraction
<1> QED BY <1>1, <1>2, <1>3 DEF MessagesInv

(* Messages: the source changes. *)

LEMMA ChatTableReplaced ==
  ASSUME NEW t, MessagesDb(t), NEW table, NEW f,
         table \in DOMAIN ChatRowsOf => IsTable(f),
         table = "join" => \A j \in DOMAIN f : f[j].chat \in Int,
         GuidsUnique([t EXCEPT ![table] = f])
  PROVE  MessagesDb([t EXCEPT ![table] = f])
<1> DEFINE u == [t EXCEPT ![table] = f]
<1>1. DOMAIN u = DOMAIN t
  OBVIOUS
<1>2. \A x \in DOMAIN t : u[x] = IF x = table THEN f ELSE t[x]
  OBVIOUS
<1> HIDE DEF u
<1>3. \A x \in DOMAIN ChatRowsOf : x \in DOMAIN u /\ IsTable(u[x])
  BY <1>1, <1>2 DEF MessagesDb
<1>4. "join" \in DOMAIN ChatRowsOf
  BY MessagesRouteAssumption
<1>5. u["join"] = IF table = "join" THEN f ELSE t["join"]
  BY <1>2, <1>4 DEF MessagesDb
<1>6. \A j \in DOMAIN u.join : u.join[j].chat \in Int
  BY <1>5 DEF MessagesDb
<1>7. GuidsUnique(u)
  BY DEF u
<1> QED BY <1>3, <1>6, <1>7 DEF MessagesDb, u

LEMMA ChatPutKeeps ==
  ASSUME NEW table, NEW id, NEW row, MessagesDb(native),
         table \in DOMAIN ChatRowsOf => id \in Int,
         table = "join" => row.chat \in Int,
         GuidsUnique(PutNative(table, id, row))
  PROVE  MessagesDb(PutNative(table, id, row))
<1> DEFINE f == [i \in DOMAIN native[table] \cup {id} |-> IF i = id THEN row ELSE native[table][i]]
<1>1. DOMAIN f = DOMAIN native[table] \cup {id}
  OBVIOUS
<1>2. table \in DOMAIN ChatRowsOf => IsTable(f)
  <2> HIDE DEF f
  <2>1. table \in DOMAIN ChatRowsOf => IsTable(native[table])
    BY DEF MessagesDb
  <2> QED BY <1>1, <2>1, TableGrows
<1>3. table = "join" => \A j \in DOMAIN f : f[j].chat \in Int
  BY DEF MessagesDb
<1>4. GuidsUnique([native EXCEPT ![table] = f])
  BY DEF PutNative
<1>5. MessagesDb([native EXCEPT ![table] = f])
  <2> HIDE DEF f
  <2> QED BY <1>2, <1>3, <1>4, ChatTableReplaced
<1> QED BY <1>5 DEF PutNative

LEMMA ChatDropKeeps ==
  ASSUME NEW table, NEW id, MessagesDb(native), GuidsUnique([native EXCEPT ![table] = Dropped(@, id)])
  PROVE  MessagesDb([native EXCEPT ![table] = Dropped(@, id)])
<1> DEFINE f == Dropped(native[table], id)
<1>1. DOMAIN f = DOMAIN native[table] \ {id} /\ \A p \in DOMAIN f : f[p] = native[table][p]
  BY DEF Dropped
<1>2. GuidsUnique([native EXCEPT ![table] = f])
  OBVIOUS
<1> HIDE DEF f
<1>3. table \in DOMAIN ChatRowsOf => IsTable(f)
  <2>1. table \in DOMAIN ChatRowsOf => IsTable(native[table])
    BY DEF MessagesDb
  <2> QED BY <1>1, <2>1, TableGrows
<1>4. table = "join" => \A j \in DOMAIN f : f[j].chat \in Int
  BY <1>1 DEF MessagesDb
<1>5. MessagesDb([native EXCEPT ![table] = f])
  BY <1>2, <1>3, <1>4, ChatTableReplaced
<1> QED BY <1>5 DEF f

LEMMA ChatSourceChanges ==
  ASSUME MessagesInv, GuidsUnique(native'),
         WriteNative(ChatRowsOf) \/ DeleteNative(DOMAIN ChatRowsOf) \/ WriteFile \/ DeleteFile
  PROVE  MessagesDb(native') /\ UNCHANGED <<point, mediaState, kept>>
<1>1. MessagesDb(native)
  BY DEF MessagesInv
<1>2. CASE WriteNative(ChatRowsOf)
  <2>1. PICK table \in DOMAIN ChatRowsOf : \E r \in ChatRowsOf[table] : ChangeNative(PutNative(table, r[1], r[2]))
    BY <1>2 DEF WriteNative
  <2>2. PICK r \in ChatRowsOf[table] : ChangeNative(PutNative(table, r[1], r[2]))
    BY <2>1
  <2>3. r[1] \in Int /\ (table = "join" => r[2].chat \in Int)
    BY MessagesRouteAssumption
  <2>4. native' = PutNative(table, r[1], r[2])
    BY <2>2 DEF ChangeNative
  <2>5. MessagesDb(PutNative(table, r[1], r[2]))
    BY <1>1, <2>3, <2>4, ChatPutKeeps
  <2> QED BY <2>2, <2>4, <2>5 DEF ChangeNative
<1>3. CASE DeleteNative(DOMAIN ChatRowsOf)
  <2>1. PICK table, id : ChangeNative([native EXCEPT ![table] = Dropped(@, id)])
    BY <1>3 DEF DeleteNative
  <2> QED BY <1>1, <2>1, ChatDropKeeps DEF ChangeNative
<1>4. CASE WriteFile
  <2>1. PICK f : ChangeNative(PutNative("files", f[1], f[2]))
    BY <1>4 DEF WriteFile
  <2>2. native' = PutNative("files", f[1], f[2])
    BY <2>1 DEF ChangeNative
  <2>3. "files" \notin DOMAIN ChatRowsOf
    BY MessagesRouteAssumption
  <2>4. MessagesDb(PutNative("files", f[1], f[2]))
    BY <1>1, <2>2, <2>3, ChatPutKeeps
  <2> QED BY <2>1, <2>2, <2>4 DEF ChangeNative
<1>5. CASE DeleteFile
  <2>1. PICK p : ChangeNative([native EXCEPT !.files = Dropped(@, p)])
    BY <1>5 DEF DeleteFile
  <2> QED BY <1>1, <2>1, ChatDropKeeps DEF ChangeNative
<1> QED BY <1>2, <1>3, <1>4, <1>5

(* Messages: a point is prepared. *)

LEMMA MessagesPrepared ==
  ASSUME MessagesInv, NEW baseline \in BOOLEAN, NEW wholeMedia \in BOOLEAN, PrepareMessages(baseline, wholeMedia)
  PROVE  MessagesInv'
<1> DEFINE P == point.tables
           T == native
<1>1. /\ point.pending = FALSE /\ UNCHANGED <<native, kept>>
      /\ point' = [token |-> point.token + 1, tables |-> T, parent |-> P, baseline |-> baseline, pending |-> TRUE]
  BY DEF PrepareMessages, PrepareTables, MessagesInv
<1>2. /\ DOMAIN point' = {"token", "tables", "parent", "baseline", "pending"}
      /\ point'.pending = TRUE /\ point'.tables = T /\ point'.parent = P
  BY <1>1
<1>3. /\ mediaState'.full = wholeMedia
      /\ ~wholeMedia => mediaState'.changes = AttachmentChanges(P, T)
  BY DEF PrepareMessages, AttachmentChanges
<1>4. KeptOf(P)
  BY <1>1 DEF MessagesInv
<1>5. KeptOf(IF point.pending THEN point.parent ELSE point.tables)'
  BY <1>1, <1>2, <1>4 DEF KeptOf, JoinedCks
<1> QED BY <1>1, <1>2, <1>3, <1>5 DEF MessagesInv

(* Messages: a point is covered. *)

\* When nothing changed, nothing is routed.
LEMMA NothingRouted ==
  ASSUME NothingChanged PROVE RoutedMessages = {}
<1>1. DOMAIN ChatRowsOf = {"handle", "chat", "seat", "message", "join", "deleted", "attachment", "attjoin"}
  BY MessagesRouteAssumption
<1>2. /\ mediaState.changes = {} /\ Delta("handle") = {} /\ Delta("chat") = {} /\ Delta("message") = {}
      /\ Delta("join") = {} /\ Delta("deleted") = {} /\ Delta("attachment") = {} /\ Delta("attjoin") = {}
  BY <1>1 DEF NothingChanged
<1>3. \A table, columns : Delta(table) = {} => Altered(table, columns) = {} /\ DeltaStates(table) = {}
  BY DEF Altered, DeltaStates, RowStates
<1>4. JoinedAnew = {}
  BY <1>2, <1>3 DEF JoinedAnew
<1>5. StubRefs = {}
  BY <1>2, <1>3, <1>4 DEF StubRefs, RowStates
<1>6. RoutedAttachments = {}
  BY <1>2, <1>3 DEF RoutedAttachments
<1>7. RoutedOrphans = {}
  BY <1>2, <1>3, <1>5 DEF RoutedOrphans, RowStates
<1> QED BY <1>2, <1>3, <1>4, <1>6, <1>7 DEF RoutedMessages

LEMMA HeadersRest ==
  ASSUME NothingChanged PROVE MessagesHeaders(point.parent) = MessagesHeaders(point.tables)
<1> DEFINE P == point.parent
           T == point.tables
<1>1. \A table \in {"handle", "chat", "seat"} : \A id :
        /\ id \in DOMAIN P[table] <=> id \in DOMAIN T[table]
        /\ id \in DOMAIN T[table] => P[table][id] = T[table][id]
  BY MessagesRouteAssumption, NoDelta DEF NothingChanged
<1>2. /\ DOMAIN P.handle = DOMAIN T.handle /\ \A h \in DOMAIN T.handle : P.handle[h] = T.handle[h]
      /\ DOMAIN P.chat = DOMAIN T.chat /\ \A c \in DOMAIN T.chat : P.chat[c] = T.chat[c]
      /\ DOMAIN P.seat = DOMAIN T.seat /\ \A s \in DOMAIN T.seat : P.seat[s] = T.seat[s]
  BY <1>1
<1> HIDE DEF P, T
<1>3. \A h \in DOMAIN T.handle : HandleRows(P, P.handle[h]) = HandleRows(T, T.handle[h])
  BY <1>2 DEF HandleRows
<1>4. {<<P.handle[h], HandleRows(P, P.handle[h])>> : h \in DOMAIN P.handle}
        = {<<T.handle[h], HandleRows(T, T.handle[h])>> : h \in DOMAIN T.handle}
  BY <1>2, <1>3
<1>5. {<<c, P.chat[c]>> : c \in DOMAIN P.chat} = {<<c, T.chat[c]>> : c \in DOMAIN T.chat}
  BY <1>2
<1>6. Seated(P) = Seated(T)
  BY <1>2 DEF Seated
<1>7. {<<P.chat[P.seat[s].chat].guid, P.handle[P.seat[s].handle]>> : s \in Seated(P)}
        = {<<T.chat[T.seat[s].chat].guid, T.handle[T.seat[s].handle]>> : s \in Seated(T)}
  BY <1>2, <1>6 DEF Seated
<1>8. MessagesHeaders(P) = MessagesHeaders(T)
  BY <1>4, <1>5, <1>7 DEF MessagesHeaders
<1> QED BY <1>8 DEF P, T

\* Nothing routed: what is kept is what a selective capture would keep.
LEMMA NothingSelected ==
  ASSUME NothingChanged, kept.units = MessageUnits(point.parent, DOMAIN point.parent.message)
  PROVE  /\ SelectiveMessages(RoutedMessages).units = kept.units
         /\ SelectiveMessages(RoutedMessages).stubs = kept.stubs
<1> DEFINE rows == RoutedMessages
           new == Decoded(point.tables, rows)
           fresh == MessageUnits(point.tables, new)
           W == WithdrawnUnits(rows)
           f == [g \in (DOMAIN kept.units \ W) \cup DOMAIN fresh |->
                    IF g \in DOMAIN fresh THEN fresh[g] ELSE kept.units[g]]
<1>1. rows = {} /\ new = {}
  BY NothingRouted DEF Decoded
<1>2. DOMAIN fresh = {}
  BY <1>1 DEF MessageUnits
<1>3. Delta("message") = {}
  BY MessagesRouteAssumption DEF NothingChanged
<1>4. W = {} /\ WithdrawnStubs(rows) = {} /\ StubsOf(point.tables, new) = {}
  BY <1>1, <1>3 DEF WithdrawnUnits, WithdrawnStubs, RowStates, StubsOf, Inferred
<1>5. SelectiveMessages(rows).units = f
  BY DEF SelectiveMessages
<1>6. SelectiveMessages(rows).stubs = (kept.stubs \ WithdrawnStubs(rows)) \cup StubsOf(point.tables, new)
  BY DEF SelectiveMessages
<1> HIDE DEF rows, new, fresh, W
<1>7. f = [g \in DOMAIN kept.units |-> kept.units[g]]
  BY <1>2, <1>4
<1>8. kept.units = [g \in DOMAIN kept.units |-> kept.units[g]]
  BY DEF MessageUnits
<1>9. kept.stubs = (kept.stubs \ WithdrawnStubs(rows)) \cup StubsOf(point.tables, new)
  BY <1>4
<1> HIDE DEF f
<1> QED BY <1>5, <1>6, <1>7, <1>8, <1>9 DEF rows

LEMMA MessagesCovered ==
  ASSUME MessagesInv, NEW full \in BOOLEAN, CoverMessages(full)
  PROVE  MessagesInv'
<1> DEFINE P == point.parent
           T == point.tables
           rows == RoutedMessages
<1>1. /\ point.pending /\ UNCHANGED <<native, nativeEdits, mediaState>>
      /\ point' = [point EXCEPT !.pending = FALSE, !.parent = T]
      /\ \/ kept' = MessagesExtraction(T)
         \/ ~mediaState.full /\ NothingChanged /\ kept' = kept
         \/ ~mediaState.full /\ kept' = SelectiveMessages(rows)
  BY DEF CoverMessages, FinishPoint
<1>2. /\ DOMAIN point' = DOMAIN point /\ point'.pending = FALSE /\ point'.parent = T /\ point'.tables = T
  BY <1>1 DEF MessagesInv
<1>3. KeptOf(P) /\ MessagesDb(P) /\ MessagesDb(T)
  BY <1>1 DEF MessagesInv
<1>4. ASSUME ~mediaState.full
      PROVE  /\ SelectiveMessages(rows).units = MessageUnits(T, DOMAIN T.message)
             /\ SelectiveMessages(rows).stubs \subseteq StubsOf(T, DOMAIN T.message)
             /\ StubsOf(T, DOMAIN T.message) \ SelectiveMessages(rows).stubs \subseteq JoinedCks(T)
  <2>1. mediaState.changes = AttachmentChanges(P, T)
    BY <1>1, <1>4 DEF MessagesInv
  <2>2. SelectiveMessages(rows).units = MessageUnits(T, DOMAIN T.message)
    BY <1>3, <2>1, MessageUnitsFollow DEF KeptOf, MessageTable
  <2>3. /\ SelectiveMessages(rows).stubs \subseteq StubsOf(T, DOMAIN T.message)
        /\ StubsOf(T, DOMAIN T.message) \ SelectiveMessages(rows).stubs \subseteq JoinedCks(T)
    BY <1>3, <2>1, MessageStubsFollow DEF KeptOf, MessageTable
  <2> QED BY <2>2, <2>3
<1>5. SelectiveMessages(rows).headers = MessagesHeaders(T)
  BY DEF SelectiveMessages
<1>6. /\ kept'.units = MessageUnits(T, DOMAIN T.message)
      /\ kept'.headers = MessagesHeaders(T)
      /\ kept'.stubs \subseteq StubsOf(T, DOMAIN T.message)
      /\ StubsOf(T, DOMAIN T.message) \ kept'.stubs \subseteq JoinedCks(T)
  <2>1. CASE kept' = MessagesExtraction(T)
    BY <2>1 DEF MessagesExtraction
  <2>2. CASE ~mediaState.full /\ NothingChanged /\ kept' = kept
    <3>1. kept'.units = SelectiveMessages(rows).units /\ kept'.stubs = SelectiveMessages(rows).stubs
      BY <1>3, <2>2, NothingSelected DEF KeptOf
    <3>2. kept'.headers = MessagesHeaders(T)
      BY <1>3, <2>2, HeadersRest DEF KeptOf
    <3> HIDE DEF rows, P, T
    <3> QED BY <1>4, <2>2, <3>1, <3>2
  <2>3. CASE ~mediaState.full /\ kept' = SelectiveMessages(rows)
    <3> HIDE DEF rows, P, T
    <3> QED BY <1>4, <1>5, <2>3
  <2> QED BY <1>1, <2>1, <2>2, <2>3
<1>7. KeptOf(IF point.pending THEN point.parent ELSE point.tables)'
  BY <1>2, <1>6 DEF KeptOf, JoinedCks
<1> QED BY <1>1, <1>2, <1>3, <1>7 DEF MessagesInv

LEMMA MessagesStepKeeps ==
  ASSUME MessagesInv, MessagesNext PROVE MessagesInv'
<1>1. CASE /\ WriteNative(ChatRowsOf) \/ DeleteNative(DOMAIN ChatRowsOf) \/ WriteFile \/ DeleteFile
           /\ GuidsUnique(native')
  <2>1. MessagesDb(native') /\ UNCHANGED <<point, mediaState, kept>>
    BY <1>1, ChatSourceChanges
  <2> QED BY <2>1 DEF MessagesInv, KeptOf
<1>2. CASE \E baseline, wholeMedia \in BOOLEAN : PrepareMessages(baseline, wholeMedia)
  BY <1>2, MessagesPrepared
<1>3. CASE \E full \in BOOLEAN : CoverMessages(full)
  BY <1>3, MessagesCovered
<1> QED BY <1>1, <1>2, <1>3 DEF MessagesNext

LEMMA MessagesRetained ==
  ASSUME MessagesInv PROVE MessagesFollow
BY DEF MessagesInv, KeptOf, MessagesFollow, MessagesExtraction, JoinedCks, MessageTable

(* The theorems. ************************************************************)

\* The two halves: a behaviour is of one source.
RoutesInv ==
  /\ subject = "whatsapp" => WhatsAppInv
  /\ subject = "messages" => MessagesInv

\* At every point, covered or pending, of either source the cache holds the extraction of the
\* tables it last covered, and the changes retained for a pending point are those since.
THEOREM RouteInvariance == RoutesSpec => []RoutesInv
<1>1. RoutesInit => RoutesInv
  BY WhatsAppStart, MessagesStart DEF RoutesInit, RoutesInv
<1>2. RoutesInv /\ [RoutesNext]_<<subject, routeVars>> => RoutesInv'
  <2>1. SUFFICES ASSUME RoutesInv, [RoutesNext]_<<subject, routeVars>> PROVE RoutesInv'
    OBVIOUS
  <2>2. CASE RouteStep /\ UNCHANGED subject
    BY <2>1, <2>2, WhatsAppStep DEF RouteStep, RoutesInv
  <2>3. CASE MessagesStep /\ UNCHANGED subject
    BY <2>1, <2>3, MessagesStepKeeps DEF MessagesStep, RoutesInv
  <2>4. CASE UNCHANGED <<subject, routeVars>>
    <3>1. UNCHANGED <<subject, native, point, mediaState, kept, headerState, eventState>>
      BY <2>4 DEF routeVars, deltaVars
    <3>2. WhatsAppInv => WhatsAppInv'
      BY <3>1 DEF WhatsAppInv, HeadersAvailable, EventsAvailable
    <3>3. MessagesInv => MessagesInv'
      BY <3>1 DEF MessagesInv, KeptOf
    <3> QED BY <2>1, <3>1, <3>2, <3>3 DEF RoutesInv
  <2> QED BY <2>1, <2>2, <2>3, <2>4 DEF RoutesNext
<1> QED BY <1>1, <1>2, PTL DEF RoutesSpec

\* A covered point is retained as a full extraction of it would be: nothing a change affects
\* escapes the routing, nothing is withdrawn that should stay (but the stubs MessagesFollow
\* excepts), for any tables, rows and files, in any order of changes, points and captures.
THEOREM PointsRetained == RoutesSpec => []PointRetained
<1>1. RoutesInv => PointRetained
  BY WhatsAppRetained, MessagesRetained DEF RoutesInv, PointRetained
<1> QED BY <1>1, RouteInvariance, PTL

=============================================================================
