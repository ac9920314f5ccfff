-------------------------- MODULE ChangefeedProofs --------------------------
(***************************************************************************)
(* Proofs about Changefeed, for every value of its constants: its safety   *)
(* invariants and action properties, and that it implements ChangefeedLog. *)
(*                                                                         *)
(* The inductive invariant IInv adds to the properties of Changefeed what  *)
(* they rest on: what an exporter holding the writer lock has in hand, the *)
(* uniqueness of export ids, the host every published file came from, and  *)
(* the closure of a receiver's imports under the parent relation.          *)
(*                                                                         *)
(* Two more layers rest on it, in the second half. DeliveryInv ties the    *)
(* tables of delivery to the ledger: the proofs of a stream are its        *)
(* committed batches up to the checkpoint. DiskInv ties the files to the   *)
(* calls: one file of each name and of each archive, and what a call would *)
(* unlink is its own and claimed by no ledger.                             *)
(***************************************************************************)
EXTENDS Changefeed, TLAPS

----------------------------------------------------------------------------
(* The strengthening. *)

Published(p) == pc[p] \in {"verify", "commit"}

\* A call in progress has its arguments, a live host and a registered row.
CallsRegistered ==
  \A p \in Exporters : pc[p] # "idle" =>
    call[p] \in Call /\ call[p].host \in alive /\ RowOf(p) # None

\* SQLite's writer lock.
OneWriter ==
  \A p, q \in Exporters :
    Holding(p) /\ Holding(q) /\ call[p].host = call[q].host => p = q

DeadHostsEmpty ==
  \A h \in Hosts \ alive :
    changes[h] = <<>> /\ exports[h] = {} /\ \A c \in Consumers : consumers[h][c] = None

Agrees(a, h) ==
  a.through <= Len(changes[h]) /\ \A i \in a.after + 1 .. a.through : a.events[i] = changes[h][i]

\* a is the batch that comes next after the cursor row.
Next_(row, a, h) ==
  /\ a.stream = row.stream /\ a.after = row.sequence /\ a.parent = row.parent
  /\ a.after < a.through
  /\ Agrees(a, h)

BatchesAreNext ==
  \A p \in Exporters : Published(p) =>
    Next_(RowOf(p), batch[p], call[p].host)

Seen(a) ==
  \/ \E f \in files : a = f.archive
  \/ \E h \in Hosts : a \in exports[h]
  \/ \E r \in Receivers : a \in imported[r]
  \/ \E p \in Exporters : Published(p) /\ a = batch[p]

IdsMinted == \A a : Seen(a) => a.id \in 1 .. minted
IdsUnique == \A a, b : Seen(a) /\ Seen(b) /\ a.id = b.id => a = b

StreamsRegistered ==
  /\ \A h \in Hosts, c \in Consumers :
       consumers[h][c] # None => consumers[h][c].stream[2] = c
  /\ \A h \in Hosts : \A e \in exports[h] :
       \E c \in Consumers : consumers[h][c] # None /\ consumers[h][c].stream = e.stream

Committed(h, x, n) == \E q \in exports[h] : q.id = x /\ q.through = n

\* Every published file continues what some live host committed, with
\* what that host journaled.
FilesFromAHost ==
  \A f \in files : \E g \in alive :
    /\ Agrees(f.archive, g)
    /\ f.archive.after # 0 => Committed(g, f.archive.parent, f.archive.after)

HeadsImported ==
  \A r \in Receivers, s \in Streams : heads[r][s] # None =>
    \E m \in imported[r] : m.id = heads[r][s].id /\ m.through = heads[r][s].sequence

ImportsClosed ==
  \A r \in Receivers : \A m \in imported[r] : m.after # 0 =>
    \E q \in imported[r] : q.id = m.parent /\ q.through = m.after

ImportsApplied ==
  \A r \in Receivers : \A m \in imported[r] : \A i \in m.after + 1 .. m.through :
    i \in DOMAIN applied[r] /\ applied[r][i] = m.events[i]

HostInv == TypeOK /\ CallsRegistered /\ OneWriter /\ DeadHostsEmpty /\ BatchesAreNext
ChainInv == StreamsRegistered /\ FaithfulBatches /\ ParentLinked /\ ExportedExactlyOnce
ReceiverInv ==
  /\ IdsMinted /\ IdsUnique /\ FilesFromAHost
  /\ HeadsImported /\ ImportsClosed /\ ImportsApplied
  /\ CommittedPrefixHeld /\ OneHistory

IInv == HostInv /\ ChainInv /\ ReceiverInv

----------------------------------------------------------------------------
(* The steps, as the invariant sees them.                                  *)

hostVars == <<alive, changes, consumers, exports, files, pc, call, batch, minted>>

\* Nothing the invariant reads moves but identities, deliveries and counters.
Quiet == UNCHANGED <<hostVars, importVars>>

\* A call ends without a commit; a failed verification takes a file away.
Ends(p) ==
  /\ pc[p] # "idle" /\ Return(p)
  /\ files' \subseteq files
  /\ UNCHANGED <<alive, changes, consumers, exports, minted, importVars>>

\* A call goes on to pc s without touching anything else.
Goes(p, from, to) ==
  /\ pc[p] = from /\ pc' = [pc EXCEPT ![p] = to]
  /\ UNCHANGED <<alive, changes, consumers, exports, files, call, batch, minted, importVars>>

\* A transaction journals one event.
Journals(h, e) ==
  /\ h \in alive
  /\ changes' = [changes EXCEPT ![h] = Append(@, e)]
  /\ UNCHANGED <<alive, consumers, exports, files, pc, call, batch, minted, importVars>>

LEMMA StepCases ==
  ASSUME TypeOK, [Next]_vars
  PROVE  \/ Quiet
         \/ \E h \in Hosts, e \in Event : Journals(h, e)
         \/ \E p \in Exporters, a \in Call : Register(p, a) /\ UNCHANGED importVars
         \/ \E p \in Exporters : Begin(p) /\ UNCHANGED importVars
         \/ \E p \in Exporters : Goes(p, "verify", "commit")
         \/ \E p \in Exporters : Publish(p) /\ UNCHANGED importVars
         \/ \E p \in Exporters : Recover(p) /\ UNCHANGED importVars
         \/ \E p \in Exporters : Commit(p) /\ UNCHANGED importVars
         \/ \E p \in Exporters : Ends(p)
         \/ \E g, h \in Hosts : Clone(g, h)
         \/ \E r \in Receivers, f \in files : Import(r, f.archive)
<1> USE DEF hostVars, exportVars, deliveryVars, importVars
<1>1. CASE UNCHANGED vars
  BY <1>1 DEF vars, Quiet
<1>2. CASE ExportNext /\ UNCHANGED <<deliveryVars, importVars>>
  <2>1. CASE \E h \in Hosts, e \in Captures : Sync(h, e)
    BY <1>2, <2>1 DEF Sync, Journals, Event
  <2>2. CASE \E h \in Hosts : EditIdentity(h)
    BY <1>2, <2>2 DEF EditIdentity, Quiet
  <2>6. ASSUME NEW h \in Hosts, MapScope(h)
        PROVE  \E e \in Event : Journals(h, e)
    <3>1. identity[h] + 1 \in Event
      BY SMTT(30), <2>6, ExportAssumption DEF MapScope, TypeOK, ExportTypeOK, Identities, Event
    <3> QED  BY <1>2, <2>6, <3>1 DEF MapScope, Journals
  <2>3. CASE \E p \in Exporters, a \in Call : Register(p, a)
    BY <1>2, <2>3
  <2>4. ASSUME NEW p \in Exporters, ExportStep(p) \/ VerifyFails(p) \/ Stop(p)
        PROVE  \/ Begin(p) \/ Goes(p, "verify", "commit") \/ Publish(p) \/ Recover(p)
               \/ Commit(p) \/ Ends(p)
    <3>1. CASE Verify(p)
      BY <1>2, <3>1 DEF Verify, Goes
    <3>2. CASE Refuse(p)
      BY <1>2, <3>2 DEF Refuse, Ends
    <3>3. CASE RejectExisting(p)
      BY <1>2, <3>3 DEF RejectExisting, Ends
    <3>4. CASE VerifyFails(p)
      BY <1>2, <3>4 DEF VerifyFails, Ends
    <3>5. CASE Stop(p)
      BY <1>2, <3>5 DEF Stop, Ends
    <3> QED  BY <2>4, <3>1, <3>2, <3>3, <3>4, <3>5 DEF ExportStep
  <2> QED  BY <1>2, <2>1, <2>2, <2>3, <2>4, <2>6 DEF ExportNext
<1>3. CASE DeliveryNext /\ UNCHANGED importVars
  BY <1>3 DEF DeliveryNext, Upload, Lose, Fetch, Acknowledge, Decline, ConfirmStops, Quiet
<1>4. CASE ImportNext /\ UNCHANGED deliveryVars
  BY <1>4 DEF ImportNext
<1>5. CASE \E g, h \in Hosts : Clone(g, h)
  BY <1>5
<1> QED  BY <1>1, <1>2, <1>3, <1>4, <1>5 DEF Next

----------------------------------------------------------------------------
(* Types.                                                                  *)

LEMMA CallFields ==
  ASSUME NEW p \in Exporters, ExportTypeOK, CallsRegistered, pc[p] # "idle"
  PROVE  /\ call[p] \in Call /\ call[p].host \in Hosts /\ call[p].host \in alive
         /\ call[p].consumer \in Consumers /\ call[p].dir \in Dirs /\ call[p].limit \in Nat
         /\ RowOf(p) \in Row
<1>1. call[p] \in Call /\ call[p].host \in alive /\ RowOf(p) # None
  BY DEF CallsRegistered
<1>2. call[p].host \in Hosts /\ call[p].consumer \in Consumers /\ call[p].dir \in Dirs
      /\ call[p].limit \in Limits
  BY <1>1 DEF Call
<1>3. RowOf(p) \in Row \cup {None}
  BY <1>2 DEF RowOf, ExportTypeOK
<1> QED  BY <1>1, <1>2, <1>3, ExportAssumption

\* The slice of exporter p that ends at b, as an archive with id x.
LEMMA SliceFacts ==
  ASSUME ExportTypeOK, CallsRegistered, NEW p \in Exporters, pc[p] # "idle",
         NEW b \in 1 .. Len(changes[call[p].host]), SliceEnds(p, b), NEW x \in Nat
  PROVE  /\ IsArchive(Slice(p, b, x))
         /\ Slice(p, b, x).id = x
         /\ Slice(p, b, x).through = b
         /\ Next_(RowOf(p), Slice(p, b, x), call[p].host)
<1> DEFINE h == call[p].host
           r == RowOf(p)
           a == Slice(p, b, x)
<1>1. h \in Hosts /\ r \in Row
  BY CallFields
<1>2. changes[h] \in Seq(Event) /\ Len(changes[h]) \in Nat
  BY <1>1 DEF ExportTypeOK
<1>3. r.sequence \in Nat /\ r.stream \in Streams /\ r.policy \in Policies
      /\ r.parent \in Nat \cup {None}
  BY <1>1 DEF Row
<1>4. b \in r.sequence + 1 .. Len(changes[h])
  BY DEF SliceEnds, EndsAt, Fits
<1>5. \A i \in r.sequence + 1 .. b : changes[h][i] \in Event
  BY <1>2, <1>3, <1>4
<1>6. /\ a.id = x /\ a.stream = r.stream /\ a.after = r.sequence /\ a.through = b
      /\ a.parent = r.parent /\ a.policy = r.policy
      /\ a.events = [i \in r.sequence + 1 .. b |-> changes[h][i]]
  BY DEF Slice, Feed
<1>7. a = Feed(a.stream, a.after, a.through, a.events, a.parent, a.policy, a.id)
  BY DEF Slice, Feed
<1>8. a.events \in [a.after + 1 .. a.through -> Event]
  BY <1>5, <1>6
<1>9. IsArchive(a)
  <2>1. a.id \in Nat /\ a.stream \in Streams /\ a.parent \in Nat \cup {None}
        /\ a.policy \in Policies /\ a.after \in Nat /\ a.through \in Nat
    BY <1>3, <1>4, <1>6
  <2> HIDE DEF a
  <2> QED  BY ZenonT(60), <1>7, <1>8, <2>1 DEF IsArchive
<1>10. Next_(r, a, h)
  BY <1>2, <1>3, <1>4, <1>6 DEF Next_, Agrees
<1> QED  BY <1>6, <1>9, <1>10

LEMMA ExportTypesStep ==
  ASSUME ExportTypeOK, CallsRegistered, BatchesAreNext, [ExportNext]_exportVars
  PROVE  ExportTypeOK'
<1> USE ExportAssumption
<1>1. ASSUME NEW h \in Hosts, NEW e \in Captures, Sync(h, e)  PROVE ExportTypeOK'
  <2>1. changes' \in [Hosts -> Seq(Event)]
    BY <1>1 DEF Sync, ExportTypeOK, Event
  <2> QED  BY <1>1, <2>1 DEF Sync, ExportTypeOK
<1>2. ASSUME NEW h \in Hosts, EditIdentity(h)  PROVE ExportTypeOK'
  <2>1. identity' \in [Hosts -> Identities]
    BY <1>2 DEF EditIdentity, ExportTypeOK, Identities
  <2> QED  BY <1>2, <2>1 DEF EditIdentity, ExportTypeOK
<1>3. ASSUME NEW p \in Exporters, NEW a \in Call, Register(p, a)  PROVE ExportTypeOK'
  <2>1. a.host \in Hosts /\ a.consumer \in Consumers /\ a.policy \in Policies
    BY DEF Call
  <2>0. PICK v \in 1 .. identity[a.host] : CaptureIdentity(a.host, v)
    BY <1>3 DEF Register
  <2>10. v \in Identities
    BY <2>1 DEF ExportTypeOK, Identities
  <2>2. changes' \in [Hosts -> Seq(Event)]
    BY SMTT(30), <2>0, <2>1, <2>10 DEF CaptureIdentity, ExportTypeOK, Event
  <2>3. captured' \in [Hosts -> Identities \cup {0}] /\ identity' \in [Hosts -> Identities]
    BY <2>0, <2>1, <2>10 DEF CaptureIdentity, ExportTypeOK
  <2>4. NewRow(a.host, a.consumer, a.policy) \in Row
    BY <2>1 DEF NewRow, Row, Streams
  <2>5. consumers' \in [Hosts -> [Consumers -> Row \cup {None}]]
    BY <1>3, <2>1, <2>4 DEF Register, RegisteredRow, ExportTypeOK
  <2>6. /\ pc' \in [Exporters -> {"idle", "registered", "open", "verify", "commit"}]
        /\ call' \in [Exporters -> Call \cup {None}]
    BY <1>3 DEF Register, ExportTypeOK
  <2> QED  BY <1>3, <2>2, <2>3, <2>5, <2>6 DEF Register, ExportTypeOK
<1>4. ASSUME NEW p \in Exporters, Return(p), files' \subseteq files, failures' \in Nat,
             UNCHANGED <<alive, changes, identity, captured, consumers, exports, minted>>
      PROVE  ExportTypeOK'
  <2>1. /\ pc' \in [Exporters -> {"idle", "registered", "open", "verify", "commit"}]
        /\ call' \in [Exporters -> Call \cup {None}]
        /\ DOMAIN batch' = Exporters
        /\ \A q \in Exporters : pc'[q] \in {"verify", "commit"} => IsArchive(batch'[q])
    BY <1>4 DEF Return, ExportTypeOK
  <2> QED  BY <1>4, <2>1 DEF ExportTypeOK
<1>5. ASSUME NEW p \in Exporters, Begin(p) \/ Verify(p)  PROVE ExportTypeOK'
  <2>1. pc' \in [Exporters -> {"idle", "registered", "open", "verify", "commit"}]
    BY <1>5 DEF Begin, Verify, ExportTypeOK
  <2> QED  BY <1>5, <2>1 DEF Begin, Verify, ExportTypeOK
<1>6. ASSUME NEW p \in Exporters, Publish(p)  PROVE ExportTypeOK'
  <2>1. PICK b \in 1 .. Len(changes[call[p].host]) :
          /\ SliceEnds(p, b)
          /\ files' = (files \ Existing(call[p].dir, Slice(p, b, minted + 1)))
                      \cup {[dir |-> call[p].dir, archive |-> Slice(p, b, minted + 1)]}
          /\ batch' = [batch EXCEPT ![p] = Slice(p, b, minted + 1)]
    BY <1>6 DEF Publish
  <2>2. minted \in Nat /\ minted' = minted + 1
    BY <1>6 DEF Publish, ExportTypeOK
  <2>3. pc[p] # "idle" /\ call[p].dir \in Dirs
    BY <1>6, CallFields DEF Publish
  <2>4. IsArchive(Slice(p, b, minted + 1))
    BY <2>1, <2>2, <2>3, SliceFacts
  <2>5. pc' \in [Exporters -> {"idle", "registered", "open", "verify", "commit"}]
    BY <1>6 DEF Publish, ExportTypeOK
  <2>6. /\ DOMAIN batch' = Exporters
        /\ \A q \in Exporters : pc'[q] \in {"verify", "commit"} => IsArchive(batch'[q])
    BY <1>6, <2>1, <2>4 DEF Publish, ExportTypeOK
  <2>7. \A f \in files' : f = [dir |-> f.dir, archive |-> f.archive]
                          /\ f.dir \in Dirs /\ IsArchive(f.archive)
    BY <2>1, <2>3, <2>4 DEF ExportTypeOK
  <2>8. UNCHANGED <<alive, changes, identity, captured, consumers, exports, call, failures>>
    BY <1>6 DEF Publish
  <2> QED  BY SMTT(30), <2>2, <2>5, <2>6, <2>7, <2>8 DEF ExportTypeOK
<1>7. ASSUME NEW p \in Exporters, Recover(p)  PROVE ExportTypeOK'
  <2>1. PICK f \in files : batch' = [batch EXCEPT ![p] = f.archive]
    BY <1>7 DEF Recover, Existing
  <2>2. /\ DOMAIN batch' = Exporters
        /\ \A q \in Exporters : pc'[q] \in {"verify", "commit"} => IsArchive(batch'[q])
    BY <1>7, <2>1 DEF Recover, ExportTypeOK
  <2>3. pc' \in [Exporters -> {"idle", "registered", "open", "verify", "commit"}]
    BY <1>7 DEF Recover, ExportTypeOK
  <2> QED  BY <1>7, <2>2, <2>3 DEF Recover, ExportTypeOK
<1>8. ASSUME NEW p \in Exporters, Commit(p)  PROVE ExportTypeOK'
  <2>1. pc[p] # "idle" /\ IsArchive(batch[p])
    BY <1>8 DEF Commit, ExportTypeOK
  <2>2. call[p].host \in Hosts /\ call[p].consumer \in Consumers /\ RowOf(p) \in Row
    BY <2>1, CallFields
  <2>3. Advance(RowOf(p), batch[p]) \in Row
    BY <2>1, <2>2 DEF Advance, Row, IsArchive
  <2>4. consumers' \in [Hosts -> [Consumers -> Row \cup {None}]]
    BY <1>8, <2>2, <2>3 DEF Commit, RowOf, ExportTypeOK
  <2>5. DOMAIN exports' = Hosts /\ \A h \in Hosts : \A e \in exports'[h] : IsArchive(e)
    BY <1>8, <2>1, <2>2 DEF Commit, ExportTypeOK
  <2>6. /\ pc' \in [Exporters -> {"idle", "registered", "open", "verify", "commit"}]
        /\ call' \in [Exporters -> Call \cup {None}]
        /\ DOMAIN batch' = Exporters
        /\ \A q \in Exporters : pc'[q] \in {"verify", "commit"} => IsArchive(batch'[q])
    BY <1>8 DEF Commit, Return, ExportTypeOK
  <2> QED  BY <1>8, <2>4, <2>5, <2>6 DEF Commit, ExportTypeOK
<1>9. ASSUME NEW p \in Exporters, Refuse(p) \/ RejectExisting(p) \/ VerifyFails(p) \/ Stop(p)
      PROVE  ExportTypeOK'
  <2>1. failures' \in Nat /\ files' \subseteq files
    BY <1>9 DEF Refuse, RejectExisting, VerifyFails, Stop, ExportTypeOK
  <2> QED  BY <1>4, <1>9, <2>1 DEF Refuse, RejectExisting, VerifyFails, Stop
<1>10. CASE UNCHANGED exportVars
  BY <1>10 DEF exportVars, ExportTypeOK
<1>11. ASSUME NEW h \in Hosts, MapScope(h)  PROVE ExportTypeOK'
  <2>1. identity[h] + 1 \in Identities /\ failures' \in Nat
    BY <1>11 DEF MapScope, ExportTypeOK, Identities
  <2>2. changes' \in [Hosts -> Seq(Event)]
    BY SMTT(30), <1>11, <2>1 DEF MapScope, ExportTypeOK, Event
  <2>3. captured' \in [Hosts -> Identities \cup {0}]
    BY <1>11, <2>1 DEF MapScope, ExportTypeOK
  <2>4. identity' = identity \/ identity' = [identity EXCEPT ![h] = identity[h] + 1]
    BY <1>11 DEF MapScope
  <2>5. identity' \in [Hosts -> Identities]
    BY <2>1, <2>4 DEF ExportTypeOK
  <2> QED  BY <1>11, <2>1, <2>2, <2>3, <2>5 DEF MapScope, ExportTypeOK
<1> QED  BY <1>1, <1>2, <1>3, <1>5, <1>6, <1>7, <1>8, <1>9, <1>10, <1>11 DEF ExportNext, ExportStep

LEMMA TypesStep ==
  ASSUME TypeOK, CallsRegistered, BatchesAreNext, [Next]_vars
  PROVE  TypeOK'
<1> USE ExportAssumption DEF TypeOK
<1>1. CASE ExportNext /\ UNCHANGED <<deliveryVars, importVars>>
  BY <1>1, ExportTypesStep DEF deliveryVars, importVars, DeliveryTypeOK, ImportTypeOK
<1>2. CASE DeliveryNext /\ UNCHANGED importVars
  <2>1. ImportTypeOK'
    BY <1>2 DEF importVars, ImportTypeOK
  <2>2. ExportTypeOK'
    <3>1. failures' = failures \/ failures' = failures + 1
      BY <1>2 DEF DeliveryNext, Upload, Lose, Fetch, Acknowledge, Decline, ConfirmStops,
                  exportVars
    <3>2. UNCHANGED <<alive, changes, identity, captured, consumers, exports, files,
                      pc, call, batch, minted>>
      BY <1>2 DEF DeliveryNext, Upload, Lose, Fetch, Acknowledge, Decline, ConfirmStops,
                  exportVars
    <3> QED  BY <3>1, <3>2 DEF ExportTypeOK
  <2>3. ASSUME NEW h \in Hosts, NEW c \in Consumers, NEW d \in Destinations, Upload(h, c, d)
        PROVE  DeliveryTypeOK'
    <3>1. PICK e \in exports[h] : remote' = [remote EXCEPT ![d] = @ \cup {e}]
      BY <2>3 DEF Upload, Pending
    <3>2. IsArchive(e)
      BY DEF ExportTypeOK
    <3> QED  BY <2>3, <3>1, <3>2 DEF Upload, DeliveryTypeOK
  <2>4. ASSUME NEW d \in Destinations, NEW e \in remote[d], Lose(d, e)  PROVE DeliveryTypeOK'
    BY <2>4 DEF Lose, DeliveryTypeOK
  <2>5. ASSUME NEW q \in Confirmers, NEW h \in Hosts, NEW d \in Destinations,
               NEW e \in exports[h], Fetch(q, h, d, e)
        PROVE  DeliveryTypeOK'
    <3>1. IsArchive(e)
      BY DEF ExportTypeOK
    <3>2. proving' = [proving EXCEPT ![q] = Proving(h, d, e)]
      BY <2>5 DEF Fetch
    <3>3. Proving(h, d, e).host = h /\ Proving(h, d, e).destination = d
          /\ Proving(h, d, e).archive = e
      BY DEF Proving
    <3>4. \A x \in Confirmers : proving'[x] # None =>
            /\ proving'[x] = Proving(proving'[x].host, proving'[x].destination, proving'[x].archive)
            /\ proving'[x].host \in Hosts /\ proving'[x].destination \in Destinations
            /\ IsArchive(proving'[x].archive)
      BY <3>1, <3>2, <3>3 DEF DeliveryTypeOK
    <3> QED  BY <2>5, <3>2, <3>4 DEF Fetch, DeliveryTypeOK
  <2>6. ASSUME NEW q \in Confirmers, Acknowledge(q)  PROVE DeliveryTypeOK'
    <3> DEFINE h == proving[q].host
               d == proving[q].destination
               e == proving[q].archive
    <3>1. h \in Hosts /\ d \in Destinations /\ IsArchive(e)
      BY <2>6 DEF Acknowledge, DeliveryTypeOK
    <3>2. e.stream \in Streams /\ e.id \in Nat /\ e.through \in Nat
      BY <3>1 DEF IsArchive
    <3>3. CheckpointOf(e) \in Checkpoint
      BY <3>2 DEF CheckpointOf, Checkpoint
    <3>4. checkpoints' = [checkpoints EXCEPT ![h][d][e.stream] = CheckpointOf(e)]
      BY <2>6 DEF Acknowledge
    <3>5. checkpoints' \in [Hosts -> [Destinations -> [Streams -> Checkpoint \cup {None}]]]
      BY <3>1, <3>2, <3>3, <3>4 DEF DeliveryTypeOK
    <3>6. proofs' \in [Hosts -> SUBSET (Destinations \X Nat)]
      BY <2>6, <3>1, <3>2 DEF Acknowledge, DeliveryTypeOK
    <3> QED  BY <2>6, <3>5, <3>6 DEF Acknowledge, DeliveryTypeOK
  <2>7. ASSUME NEW q \in Confirmers, Decline(q) \/ ConfirmStops(q)  PROVE DeliveryTypeOK'
    BY <2>7 DEF Decline, ConfirmStops, DeliveryTypeOK
  <2> QED  BY <1>2, <2>1, <2>2, <2>3, <2>4, <2>5, <2>6, <2>7 DEF DeliveryNext
<1>3. CASE ImportNext /\ UNCHANGED deliveryVars
  <2>1. PICK r \in Receivers, f \in files : Import(r, f.archive)
    BY <1>3 DEF ImportNext
  <2> DEFINE a == f.archive
  <2>2. IsArchive(a)
    BY DEF ExportTypeOK
  <2>3. heads' \in [Receivers -> [Streams -> FeedHead \cup {None}]]
    BY <2>1, <2>2 DEF Import, IsArchive, ImportTypeOK, FeedHead
  <2>4. DOMAIN imported' = Receivers /\ \A x \in Receivers : \A m \in imported'[x] : IsArchive(m)
    BY <2>1, <2>2 DEF Import, ImportTypeOK
  <2>5. applied' = [applied EXCEPT ![r] = Replayed(applied[r], a)]
    BY <2>1 DEF Import
  <2>6. DOMAIN a.events \subseteq Nat /\ \A i \in DOMAIN a.events : a.events[i] \in Event
    <3>1. a.events \in [a.after + 1 .. a.through -> Event] /\ a.after \in Nat /\ a.through \in Nat
      BY <2>2 DEF IsArchive
    <3> DEFINE events == a.events
               dom == a.after + 1 .. a.through
    <3>2. DOMAIN events = dom /\ dom \subseteq Nat
      BY <3>1
    <3>3. \A i \in dom : events[i] \in Event
      BY <3>1
    <3> QED  BY <3>2, <3>3
  <2>7. /\ DOMAIN Replayed(applied[r], a) = DOMAIN applied[r] \cup DOMAIN a.events
        /\ Replayed(applied[r], a) \in [DOMAIN applied[r] \cup DOMAIN a.events -> Event]
    BY <2>6 DEF Replayed, ImportTypeOK
  <2>8. \A x \in Receivers : applied'[x] \in [DOMAIN applied'[x] -> Event]
                             /\ DOMAIN applied'[x] \subseteq Nat
    BY <2>5, <2>6, <2>7 DEF ImportTypeOK
  <2>9. ImportTypeOK'
    BY <2>3, <2>4, <2>5, <2>8 DEF ImportTypeOK
  <2> QED  BY <1>3, <2>1, <2>9 DEF Import, exportVars, deliveryVars, ExportTypeOK, DeliveryTypeOK
<1>4. ASSUME NEW g \in Hosts, NEW h \in Hosts, Clone(g, h)  PROVE TypeOK'
  <2>1. ExportTypeOK'
    BY <1>4 DEF Clone, CloneExports, ExportTypeOK
  <2>2. DeliveryTypeOK'
    BY <1>4 DEF Clone, CloneDelivery, DeliveryTypeOK
  <2> QED  BY <1>4, <2>1, <2>2 DEF Clone, importVars, ImportTypeOK
<1>5. CASE UNCHANGED vars
  BY <1>5 DEF vars, exportVars, deliveryVars, importVars, ExportTypeOK, DeliveryTypeOK, ImportTypeOK
<1> QED  BY <1>1, <1>2, <1>3, <1>4, <1>5 DEF Next

----------------------------------------------------------------------------
(* What only grows.                                                        *)

JournalGrows(h) ==
  /\ Len(changes[h]) <= Len(changes'[h])
  /\ \A i \in 1 .. Len(changes[h]) : changes'[h][i] = changes[h][i]

LEMMA Growth ==
  ASSUME TypeOK, BatchesAreNext, CallsRegistered, [Next]_vars
  PROVE  /\ alive \subseteq alive'
         /\ \A h \in alive : JournalGrows(h) /\ exports[h] \subseteq exports'[h]
<1> USE DEF TypeOK
<1>1. \A h \in Hosts : changes[h] \in Seq(Event) /\ Len(changes[h]) \in Nat
  BY DEF ExportTypeOK
<1>2. alive \subseteq Hosts /\ DOMAIN exports = Hosts
  BY DEF ExportTypeOK
<1>3. ASSUME UNCHANGED <<alive, changes, exports>>
      PROVE  alive \subseteq alive' /\ \A h \in alive : JournalGrows(h) /\ exports[h] \subseteq exports'[h]
  BY <1>1, <1>2, <1>3 DEF JournalGrows
<1>4. ASSUME NEW h \in Hosts, NEW e \in Event, UNCHANGED <<alive, exports>>,
             changes' = [changes EXCEPT ![h] = Append(@, e)]
      PROVE  alive \subseteq alive' /\ \A g \in alive : JournalGrows(g) /\ exports[g] \subseteq exports'[g]
  <2>1. changes'[h] = Append(changes[h], e) /\ \A g \in Hosts \ {h} : changes'[g] = changes[g]
    BY <1>4 DEF ExportTypeOK
  <2>2. JournalGrows(h)
    BY <1>1, <2>1 DEF JournalGrows
  <2> QED  BY <1>1, <1>2, <1>4, <2>1, <2>2 DEF JournalGrows
<1>5. ASSUME NEW h \in Hosts, NEW e \in Event, Journals(h, e)
      PROVE  alive \subseteq alive' /\ \A g \in alive : JournalGrows(g) /\ exports[g] \subseteq exports'[g]
  BY <1>4, <1>5 DEF Journals
<1>6. ASSUME NEW p \in Exporters, NEW a \in Call, Register(p, a)
      PROVE  alive \subseteq alive' /\ \A g \in alive : JournalGrows(g) /\ exports[g] \subseteq exports'[g]
  <2>1. a.host \in Hosts
    BY DEF Call
  <2>2. PICK v \in 1 .. identity[a.host] : CaptureIdentity(a.host, v)
    BY <1>6 DEF Register
  <2>3. v \in Event
    <3>1. identity[a.host] \in 1 .. MaxIdentity
      BY <2>1 DEF ExportTypeOK, Identities
    <3> QED  BY <3>1, ExportAssumption DEF Identities, Event
  <2> QED  BY <1>3, <1>4, <1>6, <2>1, <2>2, <2>3 DEF Register, CaptureIdentity
<1>7. ASSUME NEW p \in Exporters, Commit(p)
      PROVE  alive \subseteq alive' /\ \A g \in alive : JournalGrows(g) /\ exports[g] \subseteq exports'[g]
  <2>1. UNCHANGED <<alive, changes>>
    BY <1>7 DEF Commit
  <2>2. call[p].host \in Hosts
    BY <1>7, CallFields DEF Commit
  <2>3. \A g \in Hosts : exports[g] \subseteq exports'[g]
    BY <1>2, <1>7, <2>2 DEF Commit
  <2> QED  BY <1>1, <1>2, <2>1, <2>3 DEF JournalGrows
<1>8. ASSUME NEW g \in Hosts, NEW h \in Hosts, Clone(g, h)
      PROVE  alive \subseteq alive' /\ \A k \in alive : JournalGrows(k) /\ exports[k] \subseteq exports'[k]
  <2>1. alive' = alive \cup {h} /\ h \notin alive
    BY <1>8 DEF Clone, CloneExports
  <2>2. \A k \in Hosts \ {h} : changes'[k] = changes[k] /\ exports'[k] = exports[k]
    BY <1>8 DEF Clone, CloneExports, ExportTypeOK
  <2> QED  BY <1>1, <1>2, <2>1, <2>2 DEF JournalGrows
<1> QED
  BY <1>3, <1>5, <1>6, <1>7, <1>8, StepCases
     DEF Quiet, hostVars, Begin, Goes, Publish, Recover, Ends, Import, exportVars

LEMMA AgreesGrows ==
  ASSUME NEW a, a.after \in Nat, a.through \in Nat, NEW h \in Hosts,
         Len(changes[h]) \in Nat, Len(changes'[h]) \in Nat, JournalGrows(h), Agrees(a, h)
  PROVE  a.through <= Len(changes'[h])
         /\ \A i \in a.after + 1 .. a.through : a.events[i] = changes'[h][i]
BY DEF Agrees, JournalGrows

----------------------------------------------------------------------------
(* Calls, lock, batches in hand.                                           *)

LEMMA CallsStep ==
  ASSUME HostInv, [Next]_vars
  PROVE  CallsRegistered'
<1> USE DEF HostInv, TypeOK
<1>0. ExportAssumption  BY ExportAssumption
<1> SUFFICES ASSUME NEW p \in Exporters, pc'[p] # "idle"
             PROVE  call'[p] \in Call /\ call'[p].host \in alive' /\ (RowOf(p) # None)'
  BY DEF CallsRegistered
<1>1. alive \subseteq alive' /\ alive \subseteq Hosts
  BY Growth DEF ExportTypeOK
<1>2. \A h \in alive, c \in Consumers : consumers[h][c] # None => consumers'[h][c] # None
  <2>1. ASSUME NEW q \in Exporters, NEW a \in Call, Register(q, a),
               NEW h \in alive, NEW c \in Consumers, consumers[h][c] # None
        PROVE  consumers'[h][c] # None
    BY <2>1, <1>1 DEF Register, RegisteredRow, ExportTypeOK, Call
  <2>2. ASSUME NEW q \in Exporters, Commit(q),
               NEW h \in alive, NEW c \in Consumers, consumers[h][c] # None
        PROVE  consumers'[h][c] # None
    <3>1. call[q].host \in Hosts /\ call[q].consumer \in Consumers /\ RowOf(q) \in Row
          /\ IsArchive(batch[q])
      BY <2>2, CallFields DEF Commit, ExportTypeOK
    <3>2. Advance(RowOf(q), batch[q]) \in Row
      BY <3>1 DEF Advance, Row, IsArchive
    <3>3. consumers' = [consumers EXCEPT ![call[q].host][call[q].consumer] = Advance(RowOf(q), batch[q])]
      BY <2>2, <3>1 DEF Commit, RowOf, ExportTypeOK
    <3>4. Advance(RowOf(q), batch[q]) # None
      BY <1>0, <3>2 DEF ExportAssumption
    <3> QED  BY <1>1, <2>2, <3>1, <3>3, <3>4 DEF ExportTypeOK
  <2>3. ASSUME NEW g \in Hosts, NEW k \in Hosts, Clone(g, k),
               NEW h \in alive, NEW c \in Consumers, consumers[h][c] # None
        PROVE  consumers'[h][c] # None
    BY <2>3, <1>1 DEF Clone, CloneExports, ExportTypeOK
  <2> QED
    BY <2>1, <2>2, <2>3, StepCases
       DEF Quiet, hostVars, Journals, Begin, Goes, Publish, Recover, Ends, Import, exportVars
<1>3. ASSUME pc[p] # "idle", call'[p] = call[p]
      PROVE  call'[p] \in Call /\ call'[p].host \in alive' /\ (RowOf(p) # None)'
  <2>1. call[p] \in Call /\ call[p].host \in alive /\ RowOf(p) # None /\ call[p].consumer \in Consumers
    BY <1>3, CallFields DEF CallsRegistered
  <2> QED  BY <1>1, <1>2, <1>3, <2>1 DEF RowOf
<1>4. ASSUME NEW q \in Exporters, NEW a \in Call, Register(q, a)
      PROVE  call'[p] \in Call /\ call'[p].host \in alive' /\ (RowOf(p) # None)'
  <2>1. CASE p = q
    <3>1. call'[p] = a /\ a.host \in alive /\ alive' = alive /\ a.consumer \in Consumers
      BY <1>4, <2>1 DEF Register, ExportTypeOK, Call
    <3>2. NewRow(a.host, a.consumer, a.policy) # None
      BY <1>0 DEF ExportAssumption, NewRow, Row, Streams, Call
    <3>3. consumers'[a.host][a.consumer] # None
      BY <1>1, <1>4, <3>1, <3>2 DEF Register, RegisteredRow, ExportTypeOK
    <3> QED  BY <3>1, <3>3 DEF RowOf
  <2>2. CASE p # q
    BY <1>3, <1>4, <2>2 DEF Register, ExportTypeOK
  <2> QED  BY <2>1, <2>2
<1>5. ASSUME NEW q \in Exporters, Return(q), pc[q] # "idle"
      PROVE  call'[p] \in Call /\ call'[p].host \in alive' /\ (RowOf(p) # None)'
  BY <1>3, <1>5 DEF Return, ExportTypeOK
<1>6. ASSUME UNCHANGED call,
             UNCHANGED pc \/ \E q \in Exporters, s \in {"open", "verify", "commit"} :
                               pc[q] # "idle" /\ pc' = [pc EXCEPT ![q] = s]
      PROVE  call'[p] \in Call /\ call'[p].host \in alive' /\ (RowOf(p) # None)'
  BY <1>3, <1>6 DEF ExportTypeOK
<1> QED
  BY <1>4, <1>5, <1>6, StepCases
     DEF Quiet, hostVars, Journals, Begin, Goes, Publish, Recover, Commit, Ends, Import, Clone,
         CloneExports, exportVars

\* What a step does to the phases and arguments of the calls.
LEMMA PhaseCases ==
  ASSUME HostInv, [Next]_vars
  PROVE  \/ UNCHANGED <<pc, call, batch>>
         \/ \E q \in Exporters, s \in {"verify", "commit"} :
              Holding(q) /\ pc' = [pc EXCEPT ![q] = s] /\ UNCHANGED call
         \/ \E q \in Exporters : pc[q] = "registered" /\ Free(call[q].host)
              /\ pc' = [pc EXCEPT ![q] = "open"] /\ UNCHANGED <<call, batch>>
         \/ \E q \in Exporters : Return(q)
         \/ \E q \in Exporters, a \in Call : pc[q] = "idle" /\ UNCHANGED batch
              /\ pc' = [pc EXCEPT ![q] = "registered"] /\ call' = [call EXCEPT ![q] = a]
BY StepCases
   DEF Quiet, hostVars, Journals, Register, Begin, Goes, Publish, Recover, Commit, Ends, Import,
       Clone, CloneExports, exportVars, Holding, HostInv

LEMMA LockStep ==
  ASSUME HostInv, [Next]_vars
  PROVE  OneWriter'
<1> USE DEF HostInv, TypeOK
<1>1. pc \in [Exporters -> {"idle", "registered", "open", "verify", "commit"}]
      /\ DOMAIN call = Exporters
  BY DEF ExportTypeOK
<1> SUFFICES ASSUME NEW p \in Exporters, NEW q \in Exporters, Holding(p)', Holding(q)',
                    call'[p].host = call'[q].host, p # q
             PROVE  FALSE
  BY DEF OneWriter
<1>2. ASSUME Holding(p), Holding(q), call'[p] = call[p], call'[q] = call[q]  PROVE FALSE
  BY <1>2 DEF OneWriter
<1>3. CASE UNCHANGED <<pc, call, batch>>
  BY <1>2, <1>3 DEF Holding
<1>4. CASE \E x \in Exporters, s \in {"verify", "commit"} :
             Holding(x) /\ pc' = [pc EXCEPT ![x] = s] /\ UNCHANGED call
  BY <1>1, <1>2, <1>4 DEF Holding
<1>5. CASE \E x \in Exporters : pc[x] = "registered" /\ Free(call[x].host)
             /\ pc' = [pc EXCEPT ![x] = "open"] /\ UNCHANGED <<call, batch>>
  BY <1>1, <1>2, <1>5 DEF Holding, Free
<1>6. CASE \E x \in Exporters : Return(x)
  BY <1>1, <1>2, <1>6 DEF Holding, Return
<1>7. CASE \E x \in Exporters, a \in Call : pc[x] = "idle" /\ UNCHANGED batch
             /\ pc' = [pc EXCEPT ![x] = "registered"] /\ call' = [call EXCEPT ![x] = a]
  BY <1>1, <1>2, <1>7 DEF Holding
<1> QED  BY <1>3, <1>4, <1>5, <1>6, <1>7, PhaseCases

LEMMA DeadStep ==
  ASSUME HostInv, [Next]_vars
  PROVE  DeadHostsEmpty'
<1> USE DEF HostInv, TypeOK
<1> SUFFICES ASSUME NEW h \in Hosts, h \notin alive'
             PROVE  changes'[h] = <<>> /\ exports'[h] = {} /\ \A c \in Consumers : consumers'[h][c] = None
  BY DEF DeadHostsEmpty
<1>1. h \notin alive
  BY Growth
<1>2. changes[h] = <<>> /\ exports[h] = {} /\ \A c \in Consumers : consumers[h][c] = None
  BY <1>1 DEF DeadHostsEmpty
<1>3. changes'[h] = changes[h] /\ exports'[h] = exports[h] /\ consumers'[h] = consumers[h]
  <2>1. ASSUME NEW g \in Hosts, NEW e \in Event, Journals(g, e)
        PROVE  changes'[h] = changes[h] /\ exports'[h] = exports[h] /\ consumers'[h] = consumers[h]
    BY <1>1, <2>1 DEF Journals, ExportTypeOK
  <2>2. ASSUME NEW q \in Exporters, NEW a \in Call, Register(q, a)
        PROVE  changes'[h] = changes[h] /\ exports'[h] = exports[h] /\ consumers'[h] = consumers[h]
    BY <1>1, <2>2 DEF Register, CaptureIdentity, ExportTypeOK
  <2>3. ASSUME NEW q \in Exporters, Commit(q)
        PROVE  changes'[h] = changes[h] /\ exports'[h] = exports[h] /\ consumers'[h] = consumers[h]
    <3>1. call[q].host \in alive
      BY <2>3, CallFields DEF Commit
    <3> QED  BY <1>1, <2>3, <3>1 DEF Commit, ExportTypeOK
  <2>4. ASSUME NEW g \in Hosts, NEW k \in Hosts, Clone(g, k)
        PROVE  changes'[h] = changes[h] /\ exports'[h] = exports[h] /\ consumers'[h] = consumers[h]
    <3>1. h # k
      BY <2>4 DEF Clone, CloneExports
    <3> QED  BY <2>4, <3>1 DEF Clone, CloneExports, ExportTypeOK
  <2> QED
    BY <2>1, <2>2, <2>3, <2>4, StepCases
       DEF Quiet, hostVars, Begin, Goes, Publish, Recover, Ends, Import, exportVars
<1> QED  BY <1>2, <1>3

LEMMA BatchesStep ==
  ASSUME HostInv, [Next]_vars
  PROVE  BatchesAreNext'
<1> USE DEF HostInv, TypeOK
<1>1. pc \in [Exporters -> {"idle", "registered", "open", "verify", "commit"}]
      /\ DOMAIN call = Exporters /\ DOMAIN batch = Exporters
      /\ alive \subseteq Hosts
      /\ \A h \in Hosts : changes[h] \in Seq(Event) /\ Len(changes[h]) \in Nat
  BY DEF ExportTypeOK
<1>2. \A h \in Hosts : changes'[h] \in Seq(Event) /\ Len(changes'[h]) \in Nat
  BY TypesStep DEF ExportTypeOK
<1> SUFFICES ASSUME NEW p \in Exporters, Published(p)'
             PROVE  Next_(RowOf(p), batch[p], call[p].host)'
  BY DEF BatchesAreNext
\* A batch in hand stays next, because its host has no other writer.
<1>3. ASSUME Published(p), call'[p] = call[p], batch'[p] = batch[p], RowOf(p)' = RowOf(p)
      PROVE  Next_(RowOf(p), batch[p], call[p].host)'
  <2>1. call[p].host \in alive /\ IsArchive(batch[p])
    BY <1>3, CallFields DEF Published, ExportTypeOK
  <2>2. Next_(RowOf(p), batch[p], call[p].host)
    BY <1>3 DEF BatchesAreNext
  <2>3. JournalGrows(call[p].host)
    BY <2>1, Growth
  <2>4. batch[p].after \in Nat /\ batch[p].through \in Nat
    BY <2>1 DEF IsArchive
  <2>5. Agrees(batch[p], call[p].host)'
    <3>1. call[p].host \in Hosts /\ Agrees(batch[p], call[p].host)
      BY <1>1, <2>1, <2>2 DEF Next_
    <3>2. Len(changes[call[p].host]) \in Nat /\ Len(changes'[call[p].host]) \in Nat
      BY <1>1, <1>2, <3>1
    <3>3. batch[p].through <= Len(changes'[call[p].host])
          /\ \A i \in batch[p].after + 1 .. batch[p].through :
               batch[p].events[i] = changes'[call[p].host][i]
      BY <2>3, <2>4, <3>1, <3>2, AgreesGrows
    <3> QED  BY <1>3, <3>3 DEF Agrees
  <2> QED  BY <1>3, <2>2, <2>5 DEF Next_, Agrees
<1>4. ASSUME UNCHANGED <<pc, call, batch, consumers>>
      PROVE  Next_(RowOf(p), batch[p], call[p].host)'
  BY <1>3, <1>4 DEF Published, RowOf
<1>5. ASSUME NEW q \in Exporters, NEW a \in Call, Register(q, a)
      PROVE  Next_(RowOf(p), batch[p], call[p].host)'
  <2>1. p # q /\ Published(p) /\ call'[p] = call[p] /\ batch'[p] = batch[p]
    BY <1>1, <1>5 DEF Register, Published
  <2>2. call[p].host # a.host /\ call[p].host \in Hosts
    BY <1>1, <1>5, <2>1, CallFields DEF Register, Free, Holding, Published
  <2>3. consumers'[call[p].host] = consumers[call[p].host]
    BY <1>5, <2>2 DEF Register, ExportTypeOK
  <2> QED  BY <1>3, <2>1, <2>3 DEF RowOf
<1>6. ASSUME NEW q \in Exporters, Begin(q) \/ Goes(q, "verify", "commit")
      PROVE  Next_(RowOf(p), batch[p], call[p].host)'
  <2>1. Published(p) /\ UNCHANGED <<call, batch, consumers>>
    BY <1>1, <1>6 DEF Begin, Goes, Published
  <2> QED  BY <1>3, <2>1 DEF RowOf
<1>7. ASSUME NEW q \in Exporters, Publish(q)
      PROVE  Next_(RowOf(p), batch[p], call[p].host)'
  <2>1. UNCHANGED <<call, consumers, changes>> /\ pc[q] # "idle"
    BY <1>7 DEF Publish
  <2>2. CASE p = q
    <3>1. PICK b \in 1 .. Len(changes[call[p].host]) :
            SliceEnds(p, b) /\ batch' = [batch EXCEPT ![p] = Slice(p, b, minted + 1)]
      BY <1>7, <2>2 DEF Publish
    <3>2. minted + 1 \in Nat
      BY DEF ExportTypeOK
    <3>3. Next_(RowOf(p), batch'[p], call[p].host)
      BY <1>1, <2>1, <2>2, <3>1, <3>2, SliceFacts
    <3> QED  BY <2>1, <3>3 DEF RowOf, Next_, Agrees
  <2>3. CASE p # q
    BY <1>1, <1>3, <1>7, <2>1, <2>3 DEF Publish, Published, RowOf
  <2> QED  BY <2>2, <2>3
<1>8. ASSUME NEW q \in Exporters, Recover(q)
      PROVE  Next_(RowOf(p), batch[p], call[p].host)'
  <2>1. UNCHANGED <<call, consumers, changes>> /\ pc[q] # "idle"
    BY <1>8 DEF Recover
  <2>2. CASE p = q
    <3>1. PICK b \in 1 .. Len(changes[call[p].host]), f \in files :
            SliceEnds(p, b) /\ Matches(f.archive, Slice(p, b, 0))
            /\ batch' = [batch EXCEPT ![p] = f.archive]
      BY <1>8, <2>2 DEF Recover, Existing
    <3> DEFINE s == Slice(p, b, 0)
    <3>2. Next_(RowOf(p), s, call[p].host)
      BY <2>1, <2>2, <3>1, SliceFacts
    <3>3. batch'[p] = [s EXCEPT !.id = batch'[p].id]
      BY <1>1, <3>1 DEF Matches
    <3>4. /\ batch'[p].stream = s.stream /\ batch'[p].after = s.after
          /\ batch'[p].through = s.through /\ batch'[p].parent = s.parent
          /\ batch'[p].events = s.events
      BY <3>3 DEF Slice, Feed
    <3>5. Next_(RowOf(p), batch'[p], call[p].host)
      BY <3>2, <3>4 DEF Next_, Agrees
    <3> QED  BY <2>1, <3>5 DEF RowOf, Next_, Agrees
  <2>3. CASE p # q
    BY <1>1, <1>3, <1>8, <2>1, <2>3 DEF Recover, Published, RowOf
  <2> QED  BY <2>2, <2>3
<1>9. ASSUME NEW q \in Exporters, Commit(q)
      PROVE  Next_(RowOf(p), batch[p], call[p].host)'
  <2>1. p # q /\ Published(p) /\ call'[p] = call[p] /\ batch'[p] = batch[p]
    BY <1>1, <1>9 DEF Commit, Return, Published
  <2>2. call[p].host # call[q].host /\ call[p].host \in Hosts
    BY <1>1, <1>9, <2>1, CallFields DEF Commit, OneWriter, Holding, Published
  <2>3. consumers'[call[p].host] = consumers[call[p].host]
    BY <1>9, <2>2 DEF Commit, ExportTypeOK
  <2> QED  BY <1>3, <2>1, <2>3 DEF RowOf
<1>10. ASSUME NEW q \in Exporters, Ends(q)
       PROVE  Next_(RowOf(p), batch[p], call[p].host)'
  <2>1. p # q /\ Published(p) /\ call'[p] = call[p] /\ batch'[p] = batch[p] /\ UNCHANGED consumers
    BY <1>1, <1>10 DEF Ends, Return, Published
  <2> QED  BY <1>3, <2>1 DEF RowOf
<1>11. ASSUME NEW g \in Hosts, NEW k \in Hosts, Clone(g, k)
       PROVE  Next_(RowOf(p), batch[p], call[p].host)'
  <2>1. Published(p) /\ UNCHANGED <<call, batch>>
    BY <1>11 DEF Clone, CloneExports, Published
  <2>2. call[p].host \in alive /\ k \notin alive
    BY <1>11, <2>1, CallFields DEF Clone, CloneExports, Published
  <2>3. consumers'[call[p].host] = consumers[call[p].host]
    BY <1>1, <1>11, <2>2 DEF Clone, CloneExports, ExportTypeOK
  <2> QED  BY <1>3, <2>1, <2>3 DEF RowOf
<1> QED
  BY <1>4, <1>5, <1>6, <1>7, <1>8, <1>9, <1>10, <1>11, StepCases
     DEF Quiet, hostVars, Journals, Import, exportVars

LEMMA HostStep ==
  ASSUME HostInv, [Next]_vars
  PROVE  HostInv'
BY TypesStep, CallsStep, LockStep, DeadStep, BatchesStep DEF HostInv

----------------------------------------------------------------------------
(* The committed chains.                                                   *)

\* A commit takes the next batch of its row into the ledger of its host.
LEMMA CommitFacts ==
  ASSUME HostInv, NEW p \in Exporters, Commit(p)
  PROVE  \E h \in alive, c \in Consumers, b \in {batch[p]} :
           /\ h \in Hosts /\ h = call[p].host
           /\ IsArchive(b) /\ consumers[h][c] \in Row /\ consumers[h][c] # None
           /\ Next_(consumers[h][c], b, h)
           /\ exports' = [exports EXCEPT ![h] = @ \cup {b}]
           /\ consumers' = [consumers EXCEPT ![h][c] = Advance(consumers[h][c], b)]
           /\ Advance(consumers[h][c], b) \in Row /\ Advance(consumers[h][c], b) # None
           /\ Seen(b)
<1> USE DEF HostInv, TypeOK
<1>1. pc[p] = "commit" /\ Published(p)
  BY DEF Commit, Published
<1>2. call[p].host \in alive /\ call[p].host \in Hosts /\ call[p].consumer \in Consumers
      /\ RowOf(p) \in Row /\ RowOf(p) # None
  BY <1>1, CallFields DEF CallsRegistered
<1>3. IsArchive(batch[p]) /\ Next_(RowOf(p), batch[p], call[p].host)
  BY <1>1 DEF ExportTypeOK, BatchesAreNext
<1>4. exports' = [exports EXCEPT ![call[p].host] = @ \cup {batch[p]}]
      /\ consumers' = [consumers EXCEPT ![call[p].host][call[p].consumer] = Advance(RowOf(p), batch[p])]
  BY DEF Commit, RowOf
<1>5. Advance(RowOf(p), batch[p]) \in Row
  BY <1>2, <1>3 DEF Advance, Row, IsArchive
<1>6. Advance(RowOf(p), batch[p]) # None
  BY <1>5, ExportAssumption
<1> QED  BY <1>1, <1>2, <1>3, <1>4, <1>5, <1>6 DEF RowOf, Seen

\* The ledgers and cursor rows change by a registration, a commit or a copy.
LEMMA LedgerCases ==
  ASSUME TypeOK, [Next]_vars
  PROVE  \/ UNCHANGED <<consumers, exports>>
         \/ \E p \in Exporters, a \in Call : Register(p, a) /\ UNCHANGED exports
         \/ \E p \in Exporters : Commit(p)
         \/ \E g, h \in Hosts : Clone(g, h)
BY StepCases
   DEF Quiet, hostVars, Journals, Register, Begin, Goes, Publish, Recover, Ends, Import, exportVars

LEMMA StreamsStep ==
  ASSUME HostInv, StreamsRegistered, [Next]_vars
  PROVE  StreamsRegistered'
<1> USE DEF HostInv, TypeOK
<1>1. DOMAIN exports = Hosts /\ consumers \in [Hosts -> [Consumers -> Row \cup {None}]]
  BY DEF ExportTypeOK
<1>2. CASE UNCHANGED <<consumers, exports>>
  BY <1>2 DEF StreamsRegistered
<1>3. ASSUME NEW p \in Exporters, NEW a \in Call, Register(p, a), UNCHANGED exports
      PROVE  StreamsRegistered'
  <2>1. a.host \in Hosts /\ a.consumer \in Consumers
    BY DEF Call
  <2>2. consumers' = [consumers EXCEPT ![a.host][a.consumer] =
                        RegisteredRow(@, NewRow(a.host, a.consumer, a.policy))]
    BY <1>3 DEF Register
  <2>3. NewRow(a.host, a.consumer, a.policy).stream[2] = a.consumer
    BY DEF NewRow
  <2>4. \A h \in Hosts, c \in Consumers :
          /\ consumers[h][c] # None => consumers'[h][c] = consumers[h][c]
          /\ consumers[h][c] = None => consumers'[h][c] = None \/ consumers'[h][c].stream[2] = c
    BY <1>1, <2>1, <2>2, <2>3 DEF RegisteredRow
  <2> QED  BY <1>3, <2>4 DEF StreamsRegistered
<1>4. ASSUME NEW p \in Exporters, Commit(p)
      PROVE  StreamsRegistered'
  <2>1. PICK h \in alive, c \in Consumers, b \in {batch[p]} :
           /\ h \in Hosts
           /\ consumers[h][c] \in Row /\ consumers[h][c] # None
           /\ Next_(consumers[h][c], b, h)
           /\ exports' = [exports EXCEPT ![h] = @ \cup {b}]
           /\ consumers' = [consumers EXCEPT ![h][c] = Advance(consumers[h][c], b)]
           /\ Advance(consumers[h][c], b) # None
    BY <1>4, CommitFacts
  <2>2. Advance(consumers[h][c], b).stream = consumers[h][c].stream /\ b.stream = consumers[h][c].stream
    BY <2>1 DEF Advance, Next_
  <2>3. \A g \in Hosts, d \in Consumers :
          consumers'[g][d] = IF g = h /\ d = c THEN Advance(consumers[h][c], b) ELSE consumers[g][d]
    BY <1>1, <2>1
  <2>4. \A g \in Hosts, d \in Consumers :
          consumers[g][d] # None => /\ consumers'[g][d] # None
                                    /\ consumers'[g][d].stream = consumers[g][d].stream
    BY <2>1, <2>2, <2>3
  <2>5. ASSUME NEW g \in Hosts, NEW d \in Consumers, consumers'[g][d] # None
        PROVE  consumers'[g][d].stream[2] = d
    <3>1. consumers[g][d] # None
      BY <2>1, <2>3, <2>5
    <3> QED  BY <2>4, <3>1 DEF StreamsRegistered
  <2>6. ASSUME NEW g \in Hosts, NEW e \in exports'[g]
        PROVE  \E d \in Consumers : consumers'[g][d] # None /\ consumers'[g][d].stream = e.stream
    <3>1. CASE e \in exports[g]
      BY <2>4, <3>1 DEF StreamsRegistered
    <3>2. CASE e \notin exports[g]
      <4>1. g = h /\ e = b
        BY <1>1, <2>1, <2>6, <3>2
      <4> QED  BY <2>1, <2>2, <2>4, <4>1
    <3> QED  BY <3>1, <3>2
  <2> QED  BY <2>5, <2>6 DEF StreamsRegistered
<1>5. ASSUME NEW g \in Hosts, NEW k \in Hosts, Clone(g, k)
      PROVE  StreamsRegistered'
  <2>1. /\ consumers' = [consumers EXCEPT ![k] = consumers[g]]
        /\ exports' = [exports EXCEPT ![k] = exports[g]]
    BY <1>5 DEF Clone, CloneExports
  <2>2. \A h \in Hosts : \E f \in Hosts : consumers'[h] = consumers[f] /\ exports'[h] = exports[f]
    BY <1>1, <2>1
  <2>3. ASSUME NEW h \in Hosts
        PROVE  /\ \A c \in Consumers : consumers'[h][c] # None => consumers'[h][c].stream[2] = c
               /\ \A e \in exports'[h] : \E c \in Consumers :
                    consumers'[h][c] # None /\ consumers'[h][c].stream = e.stream
    <3>1. PICK f \in Hosts : consumers'[h] = consumers[f] /\ exports'[h] = exports[f]
      BY <2>2
    <3> QED  BY <3>1 DEF StreamsRegistered
  <2> QED  BY <2>3 DEF StreamsRegistered
<1> QED  BY <1>2, <1>3, <1>4, <1>5, LedgerCases

LEMMA FaithfulStep ==
  ASSUME HostInv, FaithfulBatches, [Next]_vars
  PROVE  FaithfulBatches'
<1> USE DEF HostInv, TypeOK
<1>1. /\ DOMAIN exports = Hosts
      /\ \A h \in Hosts : Len(changes[h]) \in Nat /\ Len(changes'[h]) \in Nat
      /\ \A h \in Hosts : \A e \in exports'[h] : IsArchive(e)
      /\ \A h \in Hosts : \A e \in exports[h] : IsArchive(e)
  BY TypesStep DEF ExportTypeOK
<1>0. \A h \in Hosts : \A e \in exports'[h] : DOMAIN e.events = e.after + 1 .. e.through
  BY <1>1 DEF IsArchive
<1> SUFFICES ASSUME NEW h \in Hosts, NEW e \in exports'[h]
             PROVE  Agrees(e, h)'
  BY <1>0 DEF FaithfulBatches, Agrees
<1>2. e.after \in Nat /\ e.through \in Nat
  BY <1>1 DEF IsArchive
<1>3. \A g \in Hosts : \A x \in exports[g] : Agrees(x, g)
  BY <1>1 DEF FaithfulBatches, Agrees, IsArchive
<1>4. CASE e \in exports[h]
  <2>1. h \in alive
    BY <1>4 DEF DeadHostsEmpty
  <2>2. JournalGrows(h) /\ Agrees(e, h)
    BY <1>3, <1>4, <2>1, Growth
  <2> QED  BY <1>1, <1>2, <2>2, AgreesGrows DEF Agrees
<1>5. ASSUME e \notin exports[h], NEW p \in Exporters, Commit(p)
      PROVE  Agrees(e, h)'
  <2>1. PICK g \in Hosts, c \in Consumers, b \in {batch[p]} :
          Next_(consumers[g][c], b, g) /\ exports' = [exports EXCEPT ![g] = @ \cup {b}]
    BY <1>5, CommitFacts
  <2>2. h = g /\ e = b
    BY <1>1, <1>5, <2>1
  <2>3. UNCHANGED changes
    BY <1>5 DEF Commit
  <2> QED  BY <2>1, <2>2, <2>3 DEF Next_, Agrees
<1>6. ASSUME e \notin exports[h], NEW g \in Hosts, NEW k \in Hosts, Clone(g, k)
      PROVE  Agrees(e, h)'
  <2>1. h = k /\ e \in exports[g] /\ changes'[h] = changes[g]
    BY <1>1, <1>6 DEF Clone, CloneExports, ExportTypeOK
  <2> QED  BY <1>3, <2>1 DEF Agrees
<1> QED  BY <1>4, <1>5, <1>6, LedgerCases

LEMMA ParentStep ==
  ASSUME HostInv, ParentLinked, [Next]_vars
  PROVE  ParentLinked'
<1> USE DEF HostInv, TypeOK
<1> DEFINE Linked(x, n, s, es) ==
      IF n = 0 THEN x = None
      ELSE \E q \in {e \in es : e.stream = s} : q.id = x /\ q.through = n
<1>1. /\ DOMAIN exports = Hosts
      /\ consumers \in [Hosts -> [Consumers -> Row \cup {None}]]
  BY DEF ExportTypeOK
<1>2. /\ \A h \in Hosts : \A e \in exports[h] : Linked(e.parent, e.after, e.stream, exports[h])
      /\ \A h \in Hosts, c \in Consumers : consumers[h][c] # None =>
           Linked(consumers[h][c].parent, consumers[h][c].sequence, consumers[h][c].stream, exports[h])
  BY DEF ParentLinked, OfStream
<1> SUFFICES
      /\ \A h \in Hosts : \A e \in exports'[h] : Linked(e.parent, e.after, e.stream, exports'[h])
      /\ \A h \in Hosts, c \in Consumers : consumers'[h][c] # None =>
           Linked(consumers'[h][c].parent, consumers'[h][c].sequence, consumers'[h][c].stream, exports'[h])
  BY DEF ParentLinked, OfStream
<1>3. \A x, n, s, es, fs : es \subseteq fs /\ Linked(x, n, s, es) => Linked(x, n, s, fs)
  OBVIOUS
<1>4. CASE UNCHANGED <<consumers, exports>>
  BY <1>2, <1>4
<1>5. ASSUME NEW p \in Exporters, NEW a \in Call, Register(p, a), UNCHANGED exports
      PROVE  \A h \in Hosts, c \in Consumers : consumers'[h][c] # None =>
               Linked(consumers'[h][c].parent, consumers'[h][c].sequence, consumers'[h][c].stream, exports'[h])
  <2>1. \A h \in Hosts, c \in Consumers :
          \/ consumers'[h][c] = consumers[h][c]
          \/ consumers'[h][c] = NewRow(a.host, a.consumer, a.policy)
    BY <1>1, <1>5 DEF Register, RegisteredRow, Call
  <2>2. NewRow(a.host, a.consumer, a.policy).sequence = 0
        /\ NewRow(a.host, a.consumer, a.policy).parent = None
    BY DEF NewRow
  <2> QED  BY <1>2, <1>5, <2>1, <2>2
<1>6. ASSUME NEW p \in Exporters, Commit(p)
      PROVE  /\ \A h \in Hosts : \A e \in exports'[h] : Linked(e.parent, e.after, e.stream, exports'[h])
             /\ \A h \in Hosts, c \in Consumers : consumers'[h][c] # None =>
                  Linked(consumers'[h][c].parent, consumers'[h][c].sequence, consumers'[h][c].stream, exports'[h])
  <2>1. PICK g \in Hosts, d \in Consumers, b \in {batch[p]} :
           /\ IsArchive(b) /\ consumers[g][d] # None
           /\ Next_(consumers[g][d], b, g)
           /\ exports' = [exports EXCEPT ![g] = @ \cup {b}]
           /\ consumers' = [consumers EXCEPT ![g][d] = Advance(consumers[g][d], b)]
    BY <1>6, CommitFacts
  <2>2. \A h \in Hosts : exports'[h] = exports[h] \cup (IF h = g THEN {b} ELSE {})
    BY <1>1, <2>1
  <2>3. \A h \in Hosts : exports[h] \subseteq exports'[h]
    BY <2>2
  <2>4. Linked(b.parent, b.after, b.stream, exports'[g])
    <3>1. Linked(consumers[g][d].parent, consumers[g][d].sequence, consumers[g][d].stream, exports[g])
      BY <1>2, <2>1
    <3> HIDE DEF Linked
    <3> QED  BY <1>3, <2>1, <2>3, <3>1 DEF Next_
  <2>5. \A h \in Hosts : \A e \in exports[h] : Linked(e.parent, e.after, e.stream, exports'[h])
    <3> HIDE DEF Linked
    <3> QED  BY <1>2, <1>3, <2>3
  <2>6. \A h \in Hosts : \A e \in exports'[h] : Linked(e.parent, e.after, e.stream, exports'[h])
    <3> HIDE DEF Linked
    <3> QED  BY <2>2, <2>4, <2>5
  <2>7. Linked(b.id, b.through, b.stream, exports'[g])
    <3>1. b \in exports'[g] /\ b.through # 0
      BY <2>1, <2>2 DEF Next_, IsArchive
    <3> QED  BY <3>1
  <2>8. ASSUME NEW h \in Hosts, NEW c \in Consumers, consumers'[h][c] # None
        PROVE  Linked(consumers'[h][c].parent, consumers'[h][c].sequence, consumers'[h][c].stream, exports'[h])
    <3> HIDE DEF Linked
    <3>1. CASE h = g /\ c = d
      <4>1. consumers'[h][c] = Advance(consumers[g][d], b)
        BY <1>1, <2>1, <3>1
      <4> QED  BY <2>1, <2>7, <3>1, <4>1 DEF Advance, Next_
    <3>2. CASE ~ (h = g /\ c = d)
      <4>1. consumers'[h][c] = consumers[h][c]
        BY <1>1, <2>1, <3>2
      <4> QED  BY <1>2, <1>3, <2>3, <2>8, <4>1
    <3> QED  BY <3>1, <3>2
  <2> QED  BY <2>6, <2>8
<1>7. ASSUME NEW g \in Hosts, NEW k \in Hosts, Clone(g, k)
      PROVE  /\ \A h \in Hosts : \A e \in exports'[h] : Linked(e.parent, e.after, e.stream, exports'[h])
             /\ \A h \in Hosts, c \in Consumers : consumers'[h][c] # None =>
                  Linked(consumers'[h][c].parent, consumers'[h][c].sequence, consumers'[h][c].stream, exports'[h])
  <2>1. \A h \in Hosts : \E o \in Hosts : exports'[h] = exports[o] /\ consumers'[h] = consumers[o]
    BY <1>1, <1>7 DEF Clone, CloneExports
  <2> HIDE DEF Linked
  <2> QED  BY <1>2, <2>1
<1> QED  BY <1>2, <1>4, <1>5, <1>6, <1>7, LedgerCases

LEMMA OnceStep ==
  ASSUME HostInv, StreamsRegistered, ExportedExactlyOnce, [Next]_vars
  PROVE  ExportedExactlyOnce'
<1> USE DEF HostInv, TypeOK
<1> DEFINE In(es, s) == {e \in es : e.stream = s}
           Once(row, es) ==
             /\ \A i \in 1 .. row.sequence : \E e \in In(es, row.stream) : Covers(e, i)
             /\ \A e \in In(es, row.stream) : e.through <= row.sequence
             /\ \A e, f \in In(es, row.stream) : \A i \in 1 .. row.sequence :
                  Covers(e, i) /\ Covers(f, i) => e = f
<1>1. /\ DOMAIN exports = Hosts
      /\ consumers \in [Hosts -> [Consumers -> Row \cup {None}]]
      /\ \A h \in Hosts : \A e \in exports[h] : e.after \in Nat /\ e.through \in Nat
  BY DEF ExportTypeOK, IsArchive
<1>2. \A h \in Hosts, c \in Consumers : consumers[h][c] # None => Once(consumers[h][c], exports[h])
  BY DEF ExportedExactlyOnce, OfStream
<1> SUFFICES ASSUME NEW h \in Hosts, NEW c \in Consumers, consumers'[h][c] # None
             PROVE  Once(consumers'[h][c], exports'[h])
  BY DEF ExportedExactlyOnce, OfStream, Covers
<1>3. CASE UNCHANGED <<consumers, exports>>
  BY <1>2, <1>3
<1>4. ASSUME NEW p \in Exporters, NEW a \in Call, Register(p, a), UNCHANGED exports
      PROVE  Once(consumers'[h][c], exports'[h])
  <2>1. CASE consumers[h][c] # None
    <3>1. consumers'[h][c] = consumers[h][c]
      BY <1>1, <1>4, <2>1 DEF Register, RegisteredRow, Call
    <3> QED  BY <1>2, <1>4, <2>1, <3>1
  <2>2. CASE consumers[h][c] = None
    <3>1. consumers'[h][c] = NewRow(h, c, a.policy)
      BY <1>1, <1>4, <2>2 DEF Register, RegisteredRow, Call
    <3>2. consumers'[h][c].sequence = 0 /\ consumers'[h][c].stream[2] = c
      BY <3>1 DEF NewRow
    <3>3. In(exports[h], consumers'[h][c].stream) = {}
      BY <2>2, <3>2 DEF StreamsRegistered
    <3> QED  BY <1>4, <3>2, <3>3
  <2> QED  BY <2>1, <2>2
<1>5. ASSUME NEW p \in Exporters, Commit(p)
      PROVE  Once(consumers'[h][c], exports'[h])
  <2>1. PICK g \in Hosts, d \in Consumers, b \in {batch[p]} :
           /\ IsArchive(b) /\ consumers[g][d] \in Row /\ consumers[g][d] # None
           /\ Next_(consumers[g][d], b, g)
           /\ exports' = [exports EXCEPT ![g] = @ \cup {b}]
           /\ consumers' = [consumers EXCEPT ![g][d] = Advance(consumers[g][d], b)]
    BY <1>5, CommitFacts
  <2> DEFINE row == consumers[g][d]
  <2>2. CASE h # g
    BY <1>1, <1>2, <2>1, <2>2
  <2>3. CASE h = g /\ c # d
    <3>1. consumers'[h][c] = consumers[h][c]
      BY <1>1, <2>1, <2>3
    <3>2. consumers[h][c].stream[2] = c /\ b.stream[2] = d
      BY <2>1, <2>3, <3>1 DEF StreamsRegistered, Next_
    <3>3. In(exports'[h], consumers[h][c].stream) = In(exports[h], consumers[h][c].stream)
      BY <1>1, <2>1, <2>3, <3>2
    <3>4. Once(consumers[h][c], exports[h])
      BY <1>2, <3>1
    <3> HIDE DEF In
    <3> QED  BY <3>1, <3>3, <3>4
  <2>4. CASE h = g /\ c = d
    <3>1. /\ consumers'[h][c].stream = row.stream
          /\ consumers'[h][c].sequence = b.through
      BY <1>1, <2>1, <2>4 DEF Advance
    <3>2. row.sequence \in Nat /\ b.through \in Nat /\ b.after = row.sequence
          /\ b.after < b.through /\ b.stream = row.stream
      BY <2>1 DEF Row, IsArchive, Next_
    <3>3. In(exports'[h], row.stream) = In(exports[h], row.stream) \cup {b}
      BY <1>1, <2>1, <2>4, <3>2
    <3>4. Once(row, exports[h])
      BY <1>2, <2>1, <2>4
    <3>5. \A e \in In(exports[h], row.stream) :
            e.after \in Nat /\ e.through \in Nat /\ e.through <= row.sequence
      BY <1>1, <3>4
    <3> DEFINE old == In(exports[h], row.stream)
    <3>6. \A i \in 1 .. b.through : \E e \in old \cup {b} : Covers(e, i)
      <4> HIDE DEF In
      <4> QED  BY <3>2, <3>4 DEF Covers
    <3>7. \A e \in old \cup {b} : e.through <= b.through
      <4> HIDE DEF old
      <4> QED  BY <3>2, <3>5 DEF old
    <3>8. \A e, f \in old \cup {b} : \A i \in 1 .. b.through :
            Covers(e, i) /\ Covers(f, i) => e = f
      <4>1. ASSUME NEW e \in old, NEW i \in 1 .. b.through, Covers(e, i)
            PROVE  i \in 1 .. row.sequence /\ ~ Covers(b, i)
        <5> HIDE DEF In
        <5> QED  BY <3>2, <3>5, <4>1 DEF Covers
      <4>2. \A e, f \in old : \A i \in 1 .. row.sequence : Covers(e, i) /\ Covers(f, i) => e = f
        BY <3>4
      <4> HIDE DEF old
      <4> QED  BY <4>1, <4>2
    <3> HIDE DEF In
    <3> QED  BY <3>1, <3>3, <3>6, <3>7, <3>8
  <2> QED  BY <2>2, <2>3, <2>4
<1>6. ASSUME NEW g \in Hosts, NEW k \in Hosts, Clone(g, k)
      PROVE  Once(consumers'[h][c], exports'[h])
  <2>1. \E o \in Hosts : exports'[h] = exports[o] /\ consumers'[h] = consumers[o]
    BY <1>1, <1>6 DEF Clone, CloneExports
  <2> HIDE DEF Once
  <2> QED  BY <1>2, <2>1
<1> QED  BY <1>3, <1>4, <1>5, <1>6, LedgerCases

LEMMA ChainStep ==
  ASSUME HostInv, ChainInv, [Next]_vars
  PROVE  ChainInv'
BY StreamsStep, FaithfulStep, ParentStep, OnceStep DEF ChainInv

----------------------------------------------------------------------------
(* Receivers.                                                              *)

\* A step shows at most one archive not seen before, with a fresh id.
LEMMA SeenStep ==
  ASSUME HostInv, [Next]_vars
  PROVE  \/ minted' = minted /\ \A a : Seen(a)' => Seen(a)
         \/ /\ minted' = minted + 1
            /\ \E n : n.id = minted + 1 /\ \A a : Seen(a)' => Seen(a) \/ a = n
<1> USE DEF HostInv, TypeOK
<1>1. /\ pc \in [Exporters -> {"idle", "registered", "open", "verify", "commit"}]
      /\ DOMAIN batch = Exporters /\ DOMAIN exports = Hosts /\ minted \in Nat
  BY DEF ExportTypeOK
<1>2. ASSUME UNCHANGED <<exports, files, imported>>,
             \A p \in Exporters : Published(p)' => Published(p) /\ batch'[p] = batch[p]
      PROVE  \A a : Seen(a)' => Seen(a)
  BY <1>2 DEF Seen
<1>3. ASSUME Quiet \/ \E h \in Hosts, e \in Event : Journals(h, e)
      PROVE  minted' = minted /\ \A a : Seen(a)' => Seen(a)
  BY <1>2, <1>3 DEF Quiet, hostVars, importVars, Journals, Published
<1>4. ASSUME NEW p \in Exporters, NEW a \in Call, Register(p, a), UNCHANGED importVars
      PROVE  minted' = minted /\ \A x : Seen(x)' => Seen(x)
  <2>1. \A q \in Exporters : Published(q)' => Published(q) /\ batch'[q] = batch[q]
    BY <1>1, <1>4 DEF Register, Published
  <2> QED  BY <1>2, <1>4, <2>1 DEF Register, importVars
<1>5. ASSUME NEW p \in Exporters, UNCHANGED importVars, Begin(p)
      PROVE  minted' = minted /\ \A a : Seen(a)' => Seen(a)
  <2>1. \A q \in Exporters : Published(q)' => Published(q) /\ batch'[q] = batch[q]
    BY <1>1, <1>5 DEF Begin, Published
  <2> QED  BY <1>2, <1>5, <2>1 DEF Begin, importVars
<1>6. ASSUME NEW p \in Exporters, Goes(p, "verify", "commit")
      PROVE  minted' = minted /\ \A a : Seen(a)' => Seen(a)
  <2>1. \A q \in Exporters : Published(q)' => Published(q) /\ batch'[q] = batch[q]
    BY <1>1, <1>6 DEF Goes, Published
  <2> QED  BY <1>2, <1>6, <2>1 DEF Goes, importVars
<1>7. ASSUME NEW p \in Exporters, Publish(p), UNCHANGED importVars
      PROVE  /\ minted' = minted + 1
             /\ \E n : n.id = minted + 1 /\ \A a : Seen(a)' => Seen(a) \/ a = n
  <2>1. PICK b \in 1 .. Len(changes[call[p].host]) :
          /\ files' = (files \ Existing(call[p].dir, Slice(p, b, minted + 1)))
                      \cup {[dir |-> call[p].dir, archive |-> Slice(p, b, minted + 1)]}
          /\ batch' = [batch EXCEPT ![p] = Slice(p, b, minted + 1)]
    BY <1>7 DEF Publish
  <2> DEFINE n == Slice(p, b, minted + 1)
  <2>2. n.id = minted + 1
    BY DEF Slice, Feed
  <2> HIDE DEF n
  <2>3. \A f \in files' : f \in files \/ f.archive = n
    BY <2>1 DEF n
  <2>4. \A q \in Exporters : Published(q)' => (Published(q) /\ batch'[q] = batch[q]) \/ batch'[q] = n
    BY <1>1, <1>7, <2>1 DEF Publish, Published, n
  <2>5. \A a : Seen(a)' => Seen(a) \/ a = n
    BY <1>7, <2>3, <2>4 DEF Publish, Seen, importVars
  <2> QED  BY <1>7, <2>2, <2>5 DEF Publish
<1>8. ASSUME NEW p \in Exporters, Recover(p), UNCHANGED importVars
      PROVE  minted' = minted /\ \A a : Seen(a)' => Seen(a)
  <2>1. PICK f \in files : batch' = [batch EXCEPT ![p] = f.archive]
    BY <1>8 DEF Recover, Existing
  <2>2. \A q \in Exporters : Published(q)' => (Published(q) /\ batch'[q] = batch[q]) \/ batch'[q] = f.archive
    BY <1>1, <1>8, <2>1 DEF Recover, Published
  <2> QED  BY <1>8, <2>2 DEF Recover, Seen, importVars
<1>9. ASSUME NEW p \in Exporters, Commit(p), UNCHANGED importVars
      PROVE  minted' = minted /\ \A a : Seen(a)' => Seen(a)
  <2>1. PICK h \in Hosts, b \in {batch[p]} : Seen(b) /\ exports' = [exports EXCEPT ![h] = @ \cup {b}]
    BY <1>9, CommitFacts
  <2>2. \A g \in Hosts : \A e \in exports'[g] : e \in exports[g] \/ e = b
    BY <1>1, <2>1
  <2>3. \A q \in Exporters : Published(q)' => Published(q) /\ batch'[q] = batch[q]
    BY <1>1, <1>9 DEF Commit, Return, Published
  <2> QED  BY <1>9, <2>1, <2>2, <2>3 DEF Commit, Seen, importVars
<1>10. ASSUME NEW p \in Exporters, Ends(p)
       PROVE  minted' = minted /\ \A a : Seen(a)' => Seen(a)
  <2>1. \A q \in Exporters : Published(q)' => Published(q) /\ batch'[q] = batch[q]
    BY <1>1, <1>10 DEF Ends, Return, Published
  <2> QED  BY <1>10, <2>1 DEF Ends, Seen, importVars
<1>11. ASSUME NEW g \in Hosts, NEW k \in Hosts, Clone(g, k)
       PROVE  minted' = minted /\ \A a : Seen(a)' => Seen(a)
  <2>1. \A h \in Hosts : \E o \in Hosts : exports'[h] = exports[o]
    BY <1>1, <1>11 DEF Clone, CloneExports
  <2> QED  BY <1>11, <2>1 DEF Clone, CloneExports, Published, Seen, importVars
<1>12. ASSUME NEW r \in Receivers, NEW f \in files, Import(r, f.archive)
       PROVE  minted' = minted /\ \A a : Seen(a)' => Seen(a)
  <2>1. \A x \in Receivers : \A m \in imported'[x] : m \in imported[x] \/ m = f.archive
    BY <1>12 DEF Import, ImportTypeOK
  <2> QED  BY <1>12, <2>1 DEF Import, exportVars, Published, Seen
<1> QED
  BY <1>3, <1>4, <1>5, <1>6, <1>7, <1>8, <1>9, <1>10, <1>11, <1>12, StepCases

LEMMA IdsStep ==
  ASSUME HostInv, IdsMinted, IdsUnique, [Next]_vars
  PROVE  IdsMinted' /\ IdsUnique'
<1>1. minted \in Nat
  BY DEF HostInv, TypeOK, ExportTypeOK
<1>2. CASE minted' = minted /\ \A a : Seen(a)' => Seen(a)
  BY <1>2 DEF IdsMinted, IdsUnique
<1>3. CASE minted' = minted + 1 /\ \E n : n.id = minted + 1 /\ \A a : Seen(a)' => Seen(a) \/ a = n
  <2>1. PICK n : n.id = minted + 1 /\ \A a : Seen(a)' => Seen(a) \/ a = n
    BY <1>3
  <2>2. \A a : Seen(a) => a.id \in 1 .. minted
    BY DEF IdsMinted
  <2>3. IdsMinted'
    BY <1>1, <1>3, <2>1, <2>2 DEF IdsMinted
  <2>4. \A a : Seen(a) => a.id # n.id
    BY <1>1, <2>1, <2>2
  <2> QED  BY <2>1, <2>3, <2>4 DEF IdsUnique
<1> QED  BY <1>2, <1>3, SeenStep

LEMMA FilesStep ==
  ASSUME HostInv, ParentLinked, FilesFromAHost, [Next]_vars
  PROVE  FilesFromAHost'
<1> USE DEF HostInv, TypeOK
<1>1. /\ alive \subseteq Hosts
      /\ \A h \in Hosts : Len(changes[h]) \in Nat /\ Len(changes'[h]) \in Nat
      /\ \A f \in files : f.archive.after \in Nat /\ f.archive.through \in Nat
  BY TypesStep DEF ExportTypeOK, IsArchive
<1>2. alive \subseteq alive' /\ \A h \in alive : JournalGrows(h) /\ exports[h] \subseteq exports'[h]
  BY Growth
<1> SUFFICES ASSUME NEW f \in files'
             PROVE  \E g \in alive' :
                      /\ Agrees(f.archive, g)'
                      /\ f.archive.after # 0 => Committed(g, f.archive.parent, f.archive.after)'
  BY DEF FilesFromAHost
<1>3. CASE f \in files
  <2>1. PICK g \in alive :
          /\ Agrees(f.archive, g)
          /\ f.archive.after # 0 => Committed(g, f.archive.parent, f.archive.after)
    BY <1>3 DEF FilesFromAHost
  <2>2. Agrees(f.archive, g)'
    BY <1>1, <1>2, <1>3, <2>1, AgreesGrows DEF Agrees
  <2>3. f.archive.after # 0 => Committed(g, f.archive.parent, f.archive.after)'
    BY <1>2, <2>1 DEF Committed
  <2> QED  BY <1>2, <2>2, <2>3
<1>4. ASSUME f \notin files, NEW p \in Exporters, Publish(p)
      PROVE  \E g \in alive' :
               /\ Agrees(f.archive, g)'
               /\ f.archive.after # 0 => Committed(g, f.archive.parent, f.archive.after)'
  <2>1. PICK b \in 1 .. Len(changes[call[p].host]) :
          SliceEnds(p, b) /\ f = [dir |-> call[p].dir, archive |-> Slice(p, b, minted + 1)]
    BY <1>4 DEF Publish
  <2>2. pc[p] # "idle" /\ minted + 1 \in Nat
    BY <1>4 DEF Publish, ExportTypeOK
  <2> DEFINE h == call[p].host
  <2>3. h \in alive /\ h \in Hosts /\ call[p].consumer \in Consumers /\ RowOf(p) # None
    BY <2>2, CallFields DEF CallsRegistered
  <2>4. Next_(RowOf(p), f.archive, h)
    BY <2>1, <2>2, SliceFacts
  <2>5. RowOf(p).sequence # 0 => Committed(h, RowOf(p).parent, RowOf(p).sequence)
    BY <2>3 DEF ParentLinked, OfStream, Committed, RowOf
  <2>6. UNCHANGED <<alive, changes, exports>>
    BY <1>4 DEF Publish
  <2> QED  BY <2>3, <2>4, <2>5, <2>6 DEF Next_, Agrees, Committed
<1>5. ASSUME f \notin files
      PROVE  \E p \in Exporters : Publish(p)
  BY <1>5, StepCases
     DEF Quiet, hostVars, Journals, Register, Begin, Goes, Recover, Commit, Ends, Clone, CloneExports,
         Import, exportVars
<1> QED  BY <1>3, <1>4, <1>5

LEMMA ImportCases ==
  ASSUME TypeOK, [Next]_vars
  PROVE  \/ UNCHANGED importVars
         \/ \E r \in Receivers, f \in files : Import(r, f.archive)
BY StepCases DEF Quiet, Journals, Goes, Ends, Clone, importVars

\* The same, with the archive named.
LEMMA ImportOrNot ==
  ASSUME TypeOK, [Next]_vars
  PROVE  UNCHANGED importVars \/ \E r \in Receivers : \E a : IsArchive(a) /\ Import(r, a)
BY ImportCases DEF TypeOK, ExportTypeOK

\* What an import does to its receiver, and that it leaves the rest alone.
LEMMA ImportFacts ==
  ASSUME TypeOK, NEW r \in Receivers, NEW a, IsArchive(a), Import(r, a)
  PROVE  /\ a \notin imported[r] /\ imported'[r] = imported[r] \cup {a}
         /\ heads'[r][a.stream] = [sequence |-> a.through, id |-> a.id]
         /\ \A s \in Streams \ {a.stream} : heads'[r][s] = heads[r][s]
         /\ DOMAIN applied'[r] = DOMAIN applied[r] \cup (a.after + 1 .. a.through)
         /\ \A i \in DOMAIN applied[r] : applied'[r][i] = applied[r][i]
         /\ \A i \in a.after + 1 .. a.through : applied'[r][i] = a.events[i]
         /\ \A x \in Receivers \ {r} :
              imported'[x] = imported[x] /\ heads'[x] = heads[x] /\ applied'[x] = applied[x]
         /\ a.after # 0 => /\ heads[r][a.stream] # None
                           /\ heads[r][a.stream].sequence = a.after
                           /\ heads[r][a.stream].id = a.parent
<1>1. a.stream \in Streams /\ DOMAIN a.events = a.after + 1 .. a.through
  BY DEF IsArchive
<1>2. applied'[r] = Replayed(applied[r], a)
      /\ \A x \in Receivers \ {r} : applied'[x] = applied[x]
  BY DEF TypeOK, ImportTypeOK, Import
<1>3. /\ DOMAIN applied'[r] = DOMAIN applied[r] \cup (a.after + 1 .. a.through)
      /\ \A i \in DOMAIN applied[r] : applied'[r][i] = applied[r][i]
      /\ \A i \in a.after + 1 .. a.through :
           i \notin DOMAIN applied[r] => applied'[r][i] = a.events[i]
  BY <1>1, <1>2 DEF Replayed
<1>4. \A i \in a.after + 1 .. a.through : applied'[r][i] = a.events[i]
  BY <1>1, <1>3 DEF Import, SameEvidence
<1>5. /\ a \notin imported[r] /\ imported'[r] = imported[r] \cup {a}
      /\ \A x \in Receivers \ {r} : imported'[x] = imported[x]
  BY DEF TypeOK, ImportTypeOK, Import, Known
<1>6. /\ heads'[r][a.stream] = [sequence |-> a.through, id |-> a.id]
      /\ \A s \in Streams \ {a.stream} : heads'[r][s] = heads[r][s]
      /\ \A x \in Receivers \ {r} : heads'[x] = heads[x]
  BY <1>1 DEF TypeOK, ImportTypeOK, Import
<1>7. a.after # 0 => heads[r][a.stream] # None /\ heads[r][a.stream].sequence = a.after
                     /\ heads[r][a.stream].id = a.parent
  BY DEF Import, Follows
<1> QED  BY <1>2, <1>3, <1>4, <1>5, <1>6, <1>7

\* The part of it that the properties of a receiver rest on.
LEMMA ImportBrings ==
  ASSUME TypeOK, NEW x \in Receivers, NEW a, IsArchive(a), Import(x, a)
  PROVE  /\ imported'[x] = imported[x] \cup {a}
         /\ \A y \in Receivers \ {x} : imported'[y] = imported[y]
         /\ \A i \in a.after + 1 .. a.through : i \in DOMAIN applied'[x] /\ applied'[x][i] = a.events[i]
         /\ a.after # 0 => heads[x][a.stream] # None /\ heads[x][a.stream].id = a.parent
<1>1. /\ a \notin imported[x] /\ imported'[x] = imported[x] \cup {a}
      /\ heads'[x][a.stream] = [sequence |-> a.through, id |-> a.id]
      /\ \A s \in Streams \ {a.stream} : heads'[x][s] = heads[x][s]
      /\ DOMAIN applied'[x] = DOMAIN applied[x] \cup (a.after + 1 .. a.through)
      /\ \A i \in a.after + 1 .. a.through : applied'[x][i] = a.events[i]
      /\ \A y \in Receivers \ {x} :
           imported'[y] = imported[y] /\ heads'[y] = heads[y] /\ applied'[y] = applied[y]
      /\ a.after # 0 => /\ heads[x][a.stream] # None
                        /\ heads[x][a.stream].sequence = a.after
                        /\ heads[x][a.stream].id = a.parent
  BY ImportFacts
<1> QED  BY <1>1

LEMMA ImportsStep ==
  ASSUME TypeOK, HeadsImported, ImportsClosed, ImportsApplied, [Next]_vars
  PROVE  HeadsImported' /\ ImportsClosed' /\ ImportsApplied'
<1>1. CASE UNCHANGED importVars
  BY <1>1 DEF importVars, HeadsImported, ImportsClosed, ImportsApplied
<1>2. ASSUME NEW r \in Receivers, NEW f \in files, Import(r, f.archive)
      PROVE  HeadsImported' /\ ImportsClosed' /\ ImportsApplied'
  <2> DEFINE a == f.archive
  <2>1. IsArchive(a)
    BY DEF TypeOK, ExportTypeOK
  <2> HIDE DEF a
  <2>2. /\ imported'[r] = imported[r] \cup {a}
        /\ heads'[r][a.stream] = [sequence |-> a.through, id |-> a.id]
        /\ \A s \in Streams \ {a.stream} : heads'[r][s] = heads[r][s]
        /\ DOMAIN applied'[r] = DOMAIN applied[r] \cup (a.after + 1 .. a.through)
        /\ \A i \in DOMAIN applied[r] : applied'[r][i] = applied[r][i]
        /\ \A i \in a.after + 1 .. a.through : applied'[r][i] = a.events[i]
        /\ \A x \in Receivers \ {r} :
             imported'[x] = imported[x] /\ heads'[x] = heads[x] /\ applied'[x] = applied[x]
        /\ a.after # 0 => /\ heads[r][a.stream] # None
                          /\ heads[r][a.stream].sequence = a.after
                          /\ heads[r][a.stream].id = a.parent
    BY <1>2, <2>1, ImportFacts DEF a
  <2>3. HeadsImported'
    BY <2>2 DEF HeadsImported
  <2>4. a.after # 0 => \E q \in imported[r] : q.id = a.parent /\ q.through = a.after
    BY <2>1, <2>2 DEF HeadsImported, IsArchive
  <2>5. ImportsClosed'
    BY <2>2, <2>4 DEF ImportsClosed
  <2>6. ImportsApplied'
    BY <2>2 DEF ImportsApplied
  <2> QED  BY <2>3, <2>5, <2>6
<1> QED  BY <1>1, <1>2, ImportCases

\* Host h has committed a batch whose parent receiver r has imported: r holds
\* the journal of h up to where the batch begins.
LEMMA HeldUpToParent ==
  ASSUME IdsUnique, CommittedPrefixHeld,
         NEW h \in Hosts, NEW r \in Receivers, NEW x, NEW n,
         Committed(h, x, n), NEW m \in imported[r], m.id = x
  PROVE  \A i \in 1 .. n : i \in DOMAIN applied[r] /\ applied[r][i] = changes[h][i]
<1>1. PICK q \in exports[h] : q.id = x /\ q.through = n
  BY DEF Committed
<1>2. Seen(q) /\ Seen(m)
  BY DEF Seen
<1>3. q = m
  BY <1>1, <1>2 DEF IdsUnique
<1> QED  BY <1>1, <1>3 DEF CommittedPrefixHeld

LEMMA HeldStep ==
  ASSUME HostInv, ChainInv, ReceiverInv, [Next]_vars
  PROVE  CommittedPrefixHeld'
<1> USE DEF HostInv, TypeOK
<1> DEFINE Held(r, h, n) == \A i \in 1 .. n : i \in DOMAIN applied[r] /\ applied[r][i] = changes[h][i]
<1>1. /\ DOMAIN exports = Hosts
      /\ \A h \in Hosts : Len(changes[h]) \in Nat
      /\ \A h \in Hosts : \A e \in exports[h] : IsArchive(e)
      /\ \A f \in files : IsArchive(f.archive)
  BY DEF ExportTypeOK
<1>2. /\ \A h \in Hosts : \A e \in exports[h] : Agrees(e, h)
      /\ \A h \in Hosts : \A e \in exports[h] : e.after # 0 => Committed(h, e.parent, e.after)
  BY <1>1 DEF ChainInv, FaithfulBatches, ParentLinked, OfStream, Agrees, Committed, IsArchive
<1>3. \A r \in Receivers, h \in Hosts : \A e \in imported[r] \cap exports[h] : Held(r, h, e.through)
  BY DEF ReceiverInv, CommittedPrefixHeld
<1>4. \A r \in Receivers : \A i \in DOMAIN applied[r] :
        i \in DOMAIN applied'[r] /\ applied'[r][i] = applied[r][i]
  <2>1. ASSUME NEW x \in Receivers, NEW a, IsArchive(a), Import(x, a), NEW r \in Receivers
        PROVE  \A i \in DOMAIN applied[r] : i \in DOMAIN applied'[r] /\ applied'[r][i] = applied[r][i]
    <3>1. /\ DOMAIN applied'[x] = DOMAIN applied[x] \cup (a.after + 1 .. a.through)
          /\ \A i \in DOMAIN applied[x] : applied'[x][i] = applied[x][i]
          /\ \A y \in Receivers \ {x} : applied'[y] = applied[y]
      BY ZenonT(60), <2>1, ImportFacts DEF TypeOK
    <3> QED  BY <3>1
  <2> QED  BY <2>1, ImportOrNot DEF importVars
<1>0. ASSUME NEW x \in Receivers, NEW a, IsArchive(a), Import(x, a)
      PROVE  /\ imported'[x] = imported[x] \cup {a}
             /\ \A y \in Receivers \ {x} : imported'[y] = imported[y]
             /\ \A i \in a.after + 1 .. a.through : i \in DOMAIN applied'[x] /\ applied'[x][i] = a.events[i]
             /\ a.after # 0 => heads[x][a.stream] # None /\ heads[x][a.stream].id = a.parent
  BY <1>0, ImportBrings
<1> SUFFICES ASSUME NEW r \in Receivers, NEW h \in Hosts, NEW e \in imported'[r], e \in exports'[h]
             PROVE  Held(r, h, e.through)'
  BY DEF CommittedPrefixHeld
<1>5. CASE e \in imported[r] /\ e \in exports[h]
  <2>1. h \in alive
    BY <1>5 DEF DeadHostsEmpty
  <2>2. Held(r, h, e.through) /\ JournalGrows(h) /\ e.through <= Len(changes[h]) /\ e.through \in Nat
    BY <1>1, <1>2, <1>3, <1>5, <2>1, Growth DEF Agrees, IsArchive
  <2> QED  BY <1>1, <1>4, <2>2 DEF JournalGrows
\* A batch that agrees with h and continues what h committed, and is imported.
<1>6. ASSUME Agrees(e, h), e.after # 0 => Committed(h, e.parent, e.after), e \in imported[r],
             IsArchive(e)
      PROVE  Held(r, h, e.through)
  <2>1. e.after \in Nat /\ e.through \in Nat
    BY <1>6 DEF IsArchive
  <2>2. Held(r, h, e.after)
    <3>1. CASE e.after = 0
      BY <3>1
    <3>2. CASE e.after # 0
      <4>1. PICK m \in imported[r] : m.id = e.parent
        BY <1>6, <3>2 DEF ReceiverInv, ImportsClosed
      <4>2. Committed(h, e.parent, e.after)
        BY <1>6, <3>2
      <4> QED  BY <4>1, <4>2, HeldUpToParent DEF ReceiverInv
    <3> QED  BY <3>1, <3>2
  <2>3. \A i \in e.after + 1 .. e.through : i \in DOMAIN applied[r] /\ applied[r][i] = changes[h][i]
    BY <1>6 DEF ReceiverInv, ImportsApplied, Agrees
  <2> QED  BY <2>1, <2>2, <2>3
<1>7. ASSUME e \in imported[r], e \notin exports[h], NEW p \in Exporters, Commit(p)
      PROVE  Held(r, h, e.through)'
  <2>1. PICK g \in Hosts, c \in Consumers, b \in {batch[p]} :
           /\ IsArchive(b) /\ consumers[g][c] # None
           /\ Next_(consumers[g][c], b, g)
           /\ exports' = [exports EXCEPT ![g] = @ \cup {b}]
    BY <1>7, CommitFacts
  <2>2. g = h /\ b = e
    BY <1>1, <1>7, <2>1
  <2>3. consumers[h][c].sequence # 0 => Committed(h, consumers[h][c].parent, consumers[h][c].sequence)
    BY <2>1, <2>2 DEF ChainInv, ParentLinked, OfStream, Committed
  <2>4. Held(r, h, e.through)
    BY <1>6, <1>7, <2>1, <2>2, <2>3 DEF Next_
  <2>5. UNCHANGED changes
    BY <1>7 DEF Commit
  <2> QED  BY <1>4, <2>4, <2>5
<1>8. ASSUME e \in imported[r], e \notin exports[h], NEW g \in Hosts, NEW k \in Hosts, Clone(g, k)
      PROVE  Held(r, h, e.through)'
  <2>1. h = k /\ e \in exports[g] /\ changes'[h] = changes[g]
    BY <1>1, <1>8 DEF Clone, CloneExports, ExportTypeOK
  <2>2. Held(r, g, e.through)
    BY <1>3, <1>8, <2>1
  <2> QED  BY <1>4, <2>1, <2>2
<1>9. ASSUME e \notin imported[r], NEW x \in Receivers, NEW a, IsArchive(a), Import(x, a)
      PROVE  Held(r, h, e.through)'
  <2>0. /\ imported'[x] = imported[x] \cup {a}
        /\ \A y \in Receivers \ {x} : imported'[y] = imported[y]
    BY <1>9, <1>0
  <2>1. x = r /\ e = a /\ IsArchive(e)
    BY <1>9, <2>0
  <2>2. UNCHANGED <<exports, changes>> /\ e \in exports[h]
    BY <1>9 DEF Import, exportVars
  <2>3. /\ \A i \in e.after + 1 .. e.through : i \in DOMAIN applied'[r] /\ applied'[r][i] = e.events[i]
        /\ e.after # 0 => /\ heads[r][e.stream] # None
                          /\ heads[r][e.stream].id = e.parent
    BY <1>9, <2>1, <1>0
  <2>4. e.stream \in Streams /\ e.after \in Nat /\ e.through \in Nat
    BY <2>1 DEF IsArchive
  <2>5. Held(r, h, e.after)
    <3>1. CASE e.after = 0
      BY <3>1
    <3>2. CASE e.after # 0
      <4>1. PICK m \in imported[r] : m.id = e.parent
        BY <2>3, <2>4, <3>2 DEF ReceiverInv, HeadsImported
      <4>2. Committed(h, e.parent, e.after)
        BY <1>2, <2>2, <3>2
      <4> QED  BY <4>1, <4>2, HeldUpToParent DEF ReceiverInv
    <3> QED  BY <3>1, <3>2
  <2>6. Agrees(e, h)
    BY <1>2, <2>2
  <2> QED  BY <1>4, <2>2, <2>3, <2>4, <2>5, <2>6 DEF Agrees
<1>10. ASSUME e \in imported[r], e \notin exports[h]
       PROVE  Held(r, h, e.through)'
  <2>1. ~ UNCHANGED exports
    BY <1>10
  <2> QED  BY <1>7, <1>8, <1>10, <2>1, LedgerCases
<1>11. ASSUME e \notin imported[r]
       PROVE  Held(r, h, e.through)'
  BY <1>9, <1>11, ImportOrNot DEF importVars
<1> QED  BY <1>5, <1>10, <1>11

LEMMA OneHistoryStep ==
  ASSUME HostInv, ChainInv, ReceiverInv, [Next]_vars
  PROVE  OneHistory'
<1>1. /\ alive \subseteq Hosts /\ alive \subseteq alive'
      /\ \A h \in Hosts : Len(changes[h]) \in Nat /\ Len(changes'[h]) \in Nat
      /\ \A h \in alive : JournalGrows(h)
      /\ \A f \in files : IsArchive(f.archive)
  BY Growth, TypesStep DEF HostInv, TypeOK, ExportTypeOK
<1>2. ASSUME NEW r \in Receivers, applied'[r] = applied[r]
      PROVE  \E h \in alive' : PrefixOf(applied'[r], changes'[h])
  <2>1. PICK h \in alive : PrefixOf(applied[r], changes[h])
    BY DEF ReceiverInv, OneHistory
  <2>2. PICK n \in 0 .. Len(changes[h]) :
          DOMAIN applied[r] = 1 .. n /\ \A i \in 1 .. n : applied[r][i] = changes[h][i]
    BY <2>1 DEF PrefixOf
  <2>3. n \in 0 .. Len(changes'[h]) /\ \A i \in 1 .. n : changes'[h][i] = changes[h][i]
    BY <1>1, <2>2 DEF JournalGrows
  <2>4. PrefixOf(applied'[r], changes'[h])
    BY <1>2, <2>2, <2>3 DEF PrefixOf
  <2> QED  BY <1>1, <2>4
<1>3. ASSUME NEW r \in Receivers, NEW f \in files, Import(r, f.archive)
      PROVE  \E h \in alive' : PrefixOf(applied'[r], changes'[h])
  <2> DEFINE a == f.archive
  <2>1. IsArchive(a) /\ a.after \in Nat /\ a.through \in Nat /\ a.stream \in Streams
    BY <1>1 DEF IsArchive
  <2>2. UNCHANGED <<alive, changes>>
    BY <1>3 DEF Import, exportVars
  <2>3. PICK g \in alive : /\ Agrees(a, g)
                           /\ a.after # 0 => Committed(g, a.parent, a.after)
    BY DEF ReceiverInv, FilesFromAHost
  <2> HIDE DEF a
  <2>4. /\ a \notin imported[r] /\ imported'[r] = imported[r] \cup {a}
        /\ heads'[r][a.stream] = [sequence |-> a.through, id |-> a.id]
        /\ \A s \in Streams \ {a.stream} : heads'[r][s] = heads[r][s]
        /\ DOMAIN applied'[r] = DOMAIN applied[r] \cup (a.after + 1 .. a.through)
        /\ \A i \in DOMAIN applied[r] : applied'[r][i] = applied[r][i]
        /\ \A i \in a.after + 1 .. a.through : applied'[r][i] = a.events[i]
        /\ \A x \in Receivers \ {r} :
             imported'[x] = imported[x] /\ heads'[x] = heads[x] /\ applied'[x] = applied[x]
        /\ a.after # 0 => /\ heads[r][a.stream] # None
                          /\ heads[r][a.stream].sequence = a.after
                          /\ heads[r][a.stream].id = a.parent
    <3>1. Import(r, a) /\ TypeOK
      BY <1>3 DEF a, HostInv
    <3> QED  BY <2>1, <3>1, ImportFacts
\* The receiver already holds what g journaled up to where a begins.
  <2>5. \A i \in 1 .. a.after : i \in DOMAIN applied[r] /\ applied[r][i] = changes[g][i]
    <3>1. CASE a.after = 0
      BY <3>1
    <3>2. CASE a.after # 0
      <4>1. PICK m \in imported[r] : m.id = a.parent
        BY <2>1, <2>4, <3>2 DEF ReceiverInv, HeadsImported
      <4>2. Committed(g, a.parent, a.after) /\ g \in Hosts
        BY <1>1, <2>3, <3>2
      <4> QED  BY <4>1, <4>2, HeldUpToParent DEF ReceiverInv
    <3> QED  BY <3>1, <3>2
  <2>6. PICK h \in alive : PrefixOf(applied[r], changes[h])
    BY DEF ReceiverInv, OneHistory
  <2>7. PICK n \in 0 .. Len(changes[h]) :
          DOMAIN applied[r] = 1 .. n /\ \A i \in 1 .. n : applied[r][i] = changes[h][i]
    BY <2>6 DEF PrefixOf
  <2>8. n \in Nat /\ a.after <= n
    <3>1. n \in Nat
      BY <1>1, <2>7
    <3>2. a.after # 0 => a.after \in 1 .. n
      BY <2>1, <2>5, <2>7
    <3> QED  BY <2>1, <3>1, <3>2
  <2>9. CASE n <= a.through
    <3>1. DOMAIN applied'[r] = 1 .. a.through
      BY <2>1, <2>4, <2>7, <2>8, <2>9
    <3>2. \A i \in 1 .. a.through : applied'[r][i] = changes[g][i]
      BY <2>1, <2>3, <2>4, <2>5 DEF Agrees
    <3>3. a.through \in 0 .. Len(changes'[g])
      BY <1>1, <2>1, <2>2, <2>3 DEF Agrees
    <3>4. PrefixOf(applied'[r], changes'[g])
      BY <2>2, <3>1, <3>2, <3>3 DEF PrefixOf
    <3> QED  BY <1>1, <3>4
  <2>10. CASE ~ (n <= a.through)
    <3>1. DOMAIN applied'[r] = 1 .. n
      BY <2>1, <2>4, <2>7, <2>8, <2>10
    <3>2. PrefixOf(applied'[r], changes'[h])
      BY <2>2, <2>4, <2>7, <3>1 DEF PrefixOf
    <3> QED  BY <1>1, <3>2
  <2> QED  BY <2>9, <2>10
<1>4. ASSUME NEW r \in Receivers
      PROVE  applied'[r] = applied[r] \/ \E f \in files : Import(r, f.archive)
  <2>1. ASSUME NEW x \in Receivers, NEW f \in files, Import(x, f.archive), x # r
        PROVE  applied'[r] = applied[r]
    BY <2>1 DEF Import, HostInv, TypeOK, ImportTypeOK
  <2> QED  BY <2>1, ImportCases DEF importVars, HostInv
<1> QED  BY <1>2, <1>3, <1>4 DEF OneHistory

LEMMA ReceiverStep ==
  ASSUME HostInv, ChainInv, ReceiverInv, [Next]_vars
  PROVE  ReceiverInv'
<1>1. IdsMinted' /\ IdsUnique'
  BY IdsStep DEF ReceiverInv
<1>2. FilesFromAHost'
  BY FilesStep DEF ReceiverInv, ChainInv
<1>3. HeadsImported' /\ ImportsClosed' /\ ImportsApplied'
  BY ImportsStep DEF ReceiverInv, HostInv
<1> QED  BY <1>1, <1>2, <1>3, HeldStep, OneHistoryStep DEF ReceiverInv

----------------------------------------------------------------------------
(* The invariant.                                                          *)

LEMMA InitTypes ==
  ASSUME Init
  PROVE  TypeOK
<1> USE ExportAssumption
<1>1. ExportTypeOK
  BY DEF Init, ExportInit, ExportTypeOK, Identities
<1>2. DeliveryTypeOK
  BY DEF Init, DeliveryInit, DeliveryTypeOK
<1>3. ImportTypeOK
  BY DEF Init, ImportInit, ImportTypeOK
<1> QED  BY <1>1, <1>2, <1>3 DEF TypeOK

LEMMA InitInvariant ==
  ASSUME Init
  PROVE  IInv
<1>1. \A p \in Exporters : pc[p] = "idle"
  BY DEF Init, ExportInit
<1>2. /\ \A h \in Hosts : changes[h] = <<>> /\ exports[h] = {}
      /\ \A h \in Hosts, c \in Consumers : consumers[h][c] = None
      /\ files = {}
      /\ Origin \in alive
  BY ExportAssumption DEF Init, ExportInit
<1>3. /\ \A r \in Receivers : imported[r] = {} /\ applied[r] = <<>>
      /\ \A r \in Receivers, s \in Streams : heads[r][s] = None
  BY DEF Init, ImportInit
<1>4. HostInv
  BY <1>1, <1>2, InitTypes
     DEF HostInv, CallsRegistered, OneWriter, DeadHostsEmpty, BatchesAreNext, Holding, Published
<1>5. ChainInv
  BY <1>2 DEF ChainInv, StreamsRegistered, FaithfulBatches, ParentLinked, ExportedExactlyOnce
<1>6. \A a : ~ Seen(a)
  BY <1>1, <1>2, <1>3 DEF Seen, Published
<1>7. OneHistory
  <2>1. \A r \in Receivers : PrefixOf(applied[r], changes[Origin])
    BY <1>2, <1>3, ExportAssumption DEF PrefixOf
  <2> QED  BY <1>2, <2>1 DEF OneHistory
<1>8. ReceiverInv
  BY <1>2, <1>3, <1>6, <1>7
     DEF ReceiverInv, IdsMinted, IdsUnique, FilesFromAHost, HeadsImported, ImportsClosed,
         ImportsApplied, CommittedPrefixHeld
<1> QED  BY <1>4, <1>5, <1>8 DEF IInv

\* IInv holds in every reachable state: every step of an exporter, a
\* confirmer, an uploader, a receiver, a sync or a copy preserves it.
THEOREM Invariance == SafeSpec => []IInv
<1>1. Init => IInv
  BY InitInvariant
<1>2. IInv /\ [Next]_vars => IInv'
  BY HostStep, ChainStep, ReceiverStep DEF IInv
<1> QED  BY <1>1, <1>2, PTL DEF SafeSpec

\* Tables, files and processes hold what they can hold (all modules).
THEOREM TypeCorrect == SafeSpec => []TypeOK
<1>1. IInv => TypeOK
  BY DEF IInv, HostInv
<1> QED  BY <1>1, Invariance, PTL

\* export_changes neither skips nor repeats a journal event of a consumer,
\* for any number of racing exporters and any batch sizes.
THEOREM ExactlyOnce == SafeSpec => []ExportedExactlyOnce
<1>1. IInv => ExportedExactlyOnce
  BY DEF IInv, ChainInv
<1> QED  BY <1>1, Invariance, PTL

\* The parent ids that export_changes writes always link committed batches.
THEOREM ParentsLink == SafeSpec => []ParentLinked
<1>1. IInv => ParentLinked
  BY DEF IInv, ChainInv
<1> QED  BY <1>1, Invariance, PTL

\* A committed batch, recovered from an earlier crash or not, holds what its
\* host's journal holds.
THEOREM BatchesFaithful == SafeSpec => []FaithfulBatches
<1>1. IInv => FaithfulBatches
  BY DEF IInv, ChainInv
<1> QED  BY <1>1, Invariance, PTL

\* import_archive never splices the histories of two copies of a cache.
THEOREM NoSplicedHistory == SafeSpec => []OneHistory
<1>1. IInv => OneHistory
  BY DEF IInv, ReceiverInv
<1> QED  BY <1>1, Invariance, PTL

\* A receiver with a batch that a host committed holds all that the host
\* journaled before it.
THEOREM PrefixHeld == SafeSpec => []CommittedPrefixHeld
<1>1. IInv => CommittedPrefixHeld
  BY DEF IInv, ReceiverInv
<1> QED  BY <1>1, Invariance, PTL


----------------------------------------------------------------------------
(* The strengthening: deliveries and files. *)

NonEmptyBatches == \A h \in Hosts : \A e \in exports[h] : e.after < e.through

\* A receipt that was fetched stays in the ledger it was read from.
ProvingCommitted ==
  \A q \in Confirmers : proving[q] # None => proving[q].archive \in exports[proving[q].host]

CheckpointsCommitted ==
  \A h \in Hosts, d \in Destinations, s \in Streams : checkpoints[h][d][s] # None =>
    \E e \in OfStream(h, s) : checkpoints[h][d][s] = CheckpointOf(e)

ProofsCommitted ==
  \A h \in Hosts : \A y \in proofs[h] : \E e \in exports[h] : e.id = y[2]

ProvedUpToCheckpoint ==
  \A h \in Hosts, d \in Destinations : \A e \in exports[h] :
    Proved(h, d, e) <=> e.through <= Through(h, d, e.stream)

DeliveryInv ==
  /\ NonEmptyBatches /\ ProvingCommitted
  /\ CheckpointsCommitted /\ ProofsCommitted /\ ProvedUpToCheckpoint

\* One writer per directory (Begin).
OneDirectory ==
  \A p, q \in Exporters : Holding(p) /\ Holding(q) /\ call[p].dir = call[q].dir => p = q

NamesUnique == \A f, g \in files : SameName(f, g.dir, g.archive) => f = g
FilesDiffer == \A f, g \in files : f.archive = g.archive => f = g

BatchPublished ==
  \A p \in Exporters : Published(p) =>
    \E f \in files : f.dir = call[p].dir /\ f.archive = batch[p]

\* What a failing verification would unlink is in no ledger.
UnverifiedUncommitted ==
  \A p \in Exporters : pc[p] = "verify" => \A h \in Hosts : batch[p] \notin exports[h]

DiskInv ==
  /\ OneDirectory /\ NamesUnique /\ FilesDiffer
  /\ BatchPublished /\ UnverifiedUncommitted /\ CommittedFileKept

FullInv == IInv /\ DeliveryInv /\ DiskInv

----------------------------------------------------------------------------
(* What is proved at a destination.                                        *)

LEMMA ExportsGrow ==
  ASSUME HostInv, [Next]_vars, NEW h \in Hosts
  PROVE  exports[h] \subseteq exports'[h]
<1>1. CASE h \in alive
  BY <1>1, Growth DEF HostInv
<1>2. CASE h \notin alive
  BY <1>2 DEF HostInv, DeadHostsEmpty
<1> QED  BY <1>1, <1>2

\* The steps, as the tables of delivery see them.
LEMMA DeliveryCases ==
  ASSUME TypeOK, [Next]_vars
  PROVE  \/ UNCHANGED <<checkpoints, proofs, exports>>
         \/ \E p \in Exporters : Commit(p) /\ UNCHANGED <<checkpoints, proofs>>
         \/ \E q \in Confirmers : Acknowledge(q)
         \/ \E g, h \in Hosts : Clone(g, h)
<1> USE DEF exportVars, deliveryVars, importVars
<1>1. CASE UNCHANGED vars
  BY <1>1 DEF vars
<1>2. CASE ExportNext /\ UNCHANGED <<deliveryVars, importVars>>
  <2>1. UNCHANGED <<checkpoints, proofs>>
    BY <1>2
  <2>2. UNCHANGED exports \/ \E p \in Exporters : Commit(p)
    BY <1>2 DEF ExportNext, ExportStep, Sync, EditIdentity, MapScope, Register, Begin, Refuse,
                Publish, Recover, RejectExisting, Verify, VerifyFails, Stop
  <2> QED  BY <2>1, <2>2
<1>3. CASE DeliveryNext /\ UNCHANGED importVars
  BY <1>3 DEF DeliveryNext, Upload, Lose, Fetch, Decline, ConfirmStops
<1>4. CASE ImportNext /\ UNCHANGED deliveryVars
  BY <1>4 DEF ImportNext, Import
<1> QED  BY <1>1, <1>2, <1>3, <1>4 DEF Next

\* A confirmer holds what it held, what it just fetched, or nothing.
LEMMA ProvingCases ==
  ASSUME TypeOK, [Next]_vars, NEW q \in Confirmers
  PROVE  \/ proving'[q] = proving[q]
         \/ proving'[q] = None
         \/ proving'[q].archive \in exports[proving'[q].host] /\ UNCHANGED exports
<1> USE DEF exportVars, deliveryVars, importVars
<1>0. DOMAIN proving = Confirmers
  BY DEF TypeOK, DeliveryTypeOK
<1>1. CASE UNCHANGED proving
  BY <1>1
<1>2. CASE DeliveryNext
  <2>1. ASSUME NEW x \in Confirmers, NEW h \in Hosts, NEW d \in Destinations,
               NEW e \in exports[h], Fetch(x, h, d, e), x = q
        PROVE  proving'[q].archive \in exports[proving'[q].host] /\ UNCHANGED exports
    BY <1>0, <2>1 DEF Fetch, Proving
  <2> QED
    BY <1>0, <1>2, <2>1
       DEF DeliveryNext, Upload, Lose, Fetch, Acknowledge, Decline, ConfirmStops
<1> QED  BY <1>1, <1>2 DEF Next, vars, Clone, CloneDelivery

LEMMA NonEmptyStep ==
  ASSUME HostInv, NonEmptyBatches, [Next]_vars
  PROVE  NonEmptyBatches'
<1>0. TypeOK /\ DOMAIN exports = Hosts
  BY DEF HostInv, TypeOK, ExportTypeOK
<1>1. CASE UNCHANGED exports
  BY <1>1 DEF NonEmptyBatches
<1>2. ASSUME NEW p \in Exporters, Commit(p)  PROVE NonEmptyBatches'
  <2>1. PICK h \in alive, b \in {batch[p]} :
          /\ h \in Hosts /\ b.after < b.through
          /\ exports' = [exports EXCEPT ![h] = @ \cup {b}]
    BY <1>2, CommitFacts DEF Next_
  <2> QED  BY <1>0, <2>1 DEF NonEmptyBatches
<1>3. ASSUME NEW g \in Hosts, NEW h \in Hosts, Clone(g, h)  PROVE NonEmptyBatches'
  BY <1>0, <1>3 DEF Clone, CloneExports, NonEmptyBatches
<1> QED  BY <1>0, <1>1, <1>2, <1>3, LedgerCases

LEMMA ProvingStep ==
  ASSUME HostInv, ProvingCommitted, [Next]_vars
  PROVE  ProvingCommitted'
<1>1. SUFFICES ASSUME NEW q \in Confirmers, proving'[q] # None
               PROVE  proving'[q].archive \in exports'[proving'[q].host]
  BY DEF ProvingCommitted
<1>2. TypeOK
  BY DEF HostInv
<1>3. CASE proving'[q] = proving[q]
  <2>1. proving[q].host \in Hosts /\ proving[q].archive \in exports[proving[q].host]
    BY <1>1, <1>2, <1>3 DEF ProvingCommitted, TypeOK, DeliveryTypeOK
  <2> QED  BY <1>3, <2>1, ExportsGrow
<1> QED  BY <1>1, <1>2, <1>3, ProvingCases

\* What the transaction of confirm-delivery does, and where it found the stream.
LEMMA AcknowledgeFacts ==
  ASSUME TypeOK, ProvingCommitted, NEW q \in Confirmers, Acknowledge(q)
  PROVE  \E h \in Hosts, d \in Destinations : \E e \in exports[h] :
           /\ IsArchive(e) /\ e.stream \in Streams /\ e.through \in Nat
           /\ Through(h, d, e.stream) = e.after
           /\ CheckpointOf(e) # None
           /\ checkpoints' = [checkpoints EXCEPT ![h][d][e.stream] = CheckpointOf(e)]
           /\ proofs' = [proofs EXCEPT ![h] = @ \cup {<<d, e.id>>}]
           /\ UNCHANGED exportVars
<1> DEFINE h == proving[q].host
           d == proving[q].destination
           e == proving[q].archive
<1>1. h \in Hosts /\ d \in Destinations /\ IsArchive(e) /\ e \in exports[h]
  BY DEF Acknowledge, TypeOK, DeliveryTypeOK, ProvingCommitted
<1>2. e.stream \in Streams /\ e.through \in Nat /\ e.id \in Nat
  BY <1>1 DEF IsArchive
<1>3. Through(h, d, e.stream) = e.after
  BY DEF Acknowledge, Continues, Through
<1>4. CheckpointOf(e) \in Checkpoint
  BY <1>2 DEF CheckpointOf, Checkpoint
<1>5. CheckpointOf(e) # None
  BY <1>4, DeliveryAssumption
<1>6. /\ checkpoints' = [checkpoints EXCEPT ![h][d][e.stream] = CheckpointOf(e)]
      /\ proofs' = [proofs EXCEPT ![h] = @ \cup {<<d, e.id>>}]
      /\ UNCHANGED exportVars
  BY DEF Acknowledge
<1> QED  BY <1>1, <1>2, <1>3, <1>5, <1>6

LEMMA CheckpointsStep ==
  ASSUME HostInv, ProvingCommitted, CheckpointsCommitted, [Next]_vars
  PROVE  CheckpointsCommitted'
<1>0. TypeOK /\ DOMAIN exports = Hosts
      /\ checkpoints \in [Hosts -> [Destinations -> [Streams -> Checkpoint \cup {None}]]]
  BY DEF HostInv, TypeOK, ExportTypeOK, DeliveryTypeOK
<1> SUFFICES ASSUME NEW k \in Hosts, NEW d \in Destinations, NEW s \in Streams,
                    checkpoints'[k][d][s] # None
             PROVE  \E e \in exports'[k] : e.stream = s /\ checkpoints'[k][d][s] = CheckpointOf(e)
  BY DEF CheckpointsCommitted, OfStream
<1>1. CASE checkpoints'[k][d][s] = checkpoints[k][d][s]
  <2>1. PICK e \in exports[k] : e.stream = s /\ checkpoints[k][d][s] = CheckpointOf(e)
    BY <1>1 DEF CheckpointsCommitted, OfStream
  <2> QED  BY <1>1, <2>1, ExportsGrow
<1>2. ASSUME NEW q \in Confirmers, Acknowledge(q)
      PROVE  \E e \in exports'[k] : e.stream = s /\ checkpoints'[k][d][s] = CheckpointOf(e)
  <2>1. PICK h \in Hosts, x \in Destinations : \E e \in exports[h] :
          /\ e.stream \in Streams /\ UNCHANGED exportVars
          /\ checkpoints' = [checkpoints EXCEPT ![h][x][e.stream] = CheckpointOf(e)]
    BY <1>0, <1>2, AcknowledgeFacts
  <2>2. PICK e \in exports[h] :
          /\ e.stream \in Streams /\ UNCHANGED exportVars
          /\ checkpoints' = [checkpoints EXCEPT ![h][x][e.stream] = CheckpointOf(e)]
    BY <2>1
  <2>3. exports' = exports
    BY <2>2 DEF exportVars
  <2>4. CASE k = h /\ d = x /\ s = e.stream
    BY <1>0, <2>2, <2>3, <2>4
  <2>5. CASE ~(k = h /\ d = x /\ s = e.stream)
    BY <1>0, <1>1, <2>2, <2>5
  <2> QED  BY <2>4, <2>5
<1>3. ASSUME NEW g \in Hosts, NEW h \in Hosts, Clone(g, h)
      PROVE  \E e \in exports'[k] : e.stream = s /\ checkpoints'[k][d][s] = CheckpointOf(e)
  <2>1. CASE k = h
    <3>1. exports'[k] = exports[g] /\ checkpoints'[k] = checkpoints[g]
      BY <1>0, <1>3, <2>1 DEF Clone, CloneExports, CloneDelivery
    <3> QED  BY <3>1 DEF CheckpointsCommitted, OfStream
  <2>2. CASE k # h
    BY <1>0, <1>1, <1>3, <2>2 DEF Clone, CloneDelivery
  <2> QED  BY <2>1, <2>2
<1> QED  BY <1>0, <1>1, <1>2, <1>3, DeliveryCases

LEMMA ProofsStep ==
  ASSUME HostInv, ProvingCommitted, ProofsCommitted, [Next]_vars
  PROVE  ProofsCommitted'
<1>0. TypeOK /\ DOMAIN exports = Hosts /\ DOMAIN proofs = Hosts
  BY DEF HostInv, TypeOK, ExportTypeOK, DeliveryTypeOK
<1> SUFFICES ASSUME NEW k \in Hosts, NEW y \in proofs'[k]
             PROVE  \E e \in exports'[k] : e.id = y[2]
  BY DEF ProofsCommitted
<1>1. CASE y \in proofs[k]
  BY <1>1, ExportsGrow DEF ProofsCommitted
<1>2. ASSUME NEW q \in Confirmers, Acknowledge(q)
      PROVE  \E e \in exports'[k] : e.id = y[2]
  <2>1. PICK h \in Hosts, x \in Destinations : \E e \in exports[h] :
          UNCHANGED exportVars /\ proofs' = [proofs EXCEPT ![h] = @ \cup {<<x, e.id>>}]
    BY <1>0, <1>2, AcknowledgeFacts
  <2>2. PICK e \in exports[h] :
          UNCHANGED exportVars /\ proofs' = [proofs EXCEPT ![h] = @ \cup {<<x, e.id>>}]
    BY <2>1
  <2>3. exports' = exports
    BY <2>2 DEF exportVars
  <2>4. y \in proofs[k] \/ (k = h /\ y = <<x, e.id>>)
    BY <1>0, <2>2
  <2> QED  BY <1>1, <2>3, <2>4
<1>3. ASSUME NEW g \in Hosts, NEW h \in Hosts, Clone(g, h)
      PROVE  \E e \in exports'[k] : e.id = y[2]
  <2>1. CASE k = h
    <3>1. exports'[k] = exports[g] /\ proofs'[k] = proofs[g]
      BY <1>0, <1>3, <2>1 DEF Clone, CloneExports, CloneDelivery
    <3> QED  BY <3>1 DEF ProofsCommitted
  <2>2. CASE k # h
    BY <1>0, <1>1, <1>3, <2>2 DEF Clone, CloneDelivery
  <2> QED  BY <2>1, <2>2
<1> QED  BY <1>0, <1>1, <1>2, <1>3, DeliveryCases

\* The committed batches of a stream do not overlap: what ends inside one is that one.
LEMMA EndsInside ==
  ASSUME TypeOK, ChainInv, NonEmptyBatches,
         NEW h \in Hosts, NEW e \in exports[h], NEW f \in exports[h], e.stream = f.stream,
         e.after < f.through, f.through <= e.through
  PROVE  f = e
<1>1. IsArchive(e) /\ IsArchive(f)
  BY DEF TypeOK, ExportTypeOK
<1>2. e.after \in Nat /\ e.through \in Nat /\ f.after \in Nat /\ f.through \in Nat
  BY <1>1 DEF IsArchive
<1>3. f.after < f.through
  BY DEF NonEmptyBatches
<1>4. PICK c \in Consumers : consumers[h][c] # None /\ consumers[h][c].stream = e.stream
  BY DEF ChainInv, StreamsRegistered
<1> DEFINE row == consumers[h][c]
<1>5. e \in OfStream(h, row.stream) /\ f \in OfStream(h, row.stream)
  BY <1>4 DEF OfStream
<1>6. e.through <= row.sequence
  BY <1>4, <1>5 DEF ChainInv, ExportedExactlyOnce
<1>7. row.sequence \in Nat
  BY <1>4 DEF TypeOK, ExportTypeOK, Row
<1>8. f.through \in 1 .. row.sequence /\ Covers(e, f.through) /\ Covers(f, f.through)
  BY <1>2, <1>3, <1>6, <1>7 DEF Covers
<1> QED  BY <1>4, <1>5, <1>8 DEF ChainInv, ExportedExactlyOnce

LEMMA CommitLeavesUnproved ==
  ASSUME IInv, DeliveryInv, NEW p \in Exporters, Commit(p)
  PROVE  \E h \in Hosts, b \in {batch[p]} :
           /\ IsArchive(b) /\ exports' = [exports EXCEPT ![h] = @ \cup {b}]
           /\ \A d \in Destinations : ~ Proved(h, d, b) /\ ~ b.through <= Through(h, d, b.stream)
<1>0. HostInv /\ TypeOK /\ DeliveryTypeOK
  BY DEF IInv, HostInv, TypeOK
<1>1. PICK h \in alive, c \in Consumers, b \in {batch[p]} :
        /\ h \in Hosts /\ IsArchive(b) /\ Seen(b)
        /\ consumers[h][c] \in Row /\ consumers[h][c] # None
        /\ Next_(consumers[h][c], b, h)
        /\ exports' = [exports EXCEPT ![h] = @ \cup {b}]
  BY <1>0, CommitFacts
<1> DEFINE row == consumers[h][c]
<1>2. b.stream = row.stream /\ row.sequence < b.through /\ b.through \in Nat
      /\ row.sequence \in Nat /\ b.stream \in Streams
  BY <1>1 DEF Next_, IsArchive, Row
<1>3. \A e \in exports[h] : e.stream = row.stream => e.through <= row.sequence
  BY <1>1 DEF IInv, ChainInv, ExportedExactlyOnce, OfStream
<1>4. \A e \in exports[h] : e.id # b.id
  <2>1. SUFFICES ASSUME NEW e \in exports[h], e.id = b.id  PROVE FALSE
    OBVIOUS
  <2>2. e = b
    BY <1>1, <2>1 DEF IInv, ReceiverInv, IdsUnique, Seen
  <2> QED  BY <1>2, <1>3, <2>2
<1>5. SUFFICES ASSUME NEW d \in Destinations
               PROVE  ~ Proved(h, d, b) /\ ~ b.through <= Through(h, d, b.stream)
  BY <1>1
<1>6. ~ Proved(h, d, b)
  <2>1. SUFFICES ASSUME <<d, b.id>> \in proofs[h]  PROVE FALSE
    BY DEF Proved
  <2>2. \E e \in exports[h] : e.id = <<d, b.id>>[2]
    BY <1>1, <2>1 DEF DeliveryInv, ProofsCommitted
  <2> QED  BY <1>4, <2>2
<1>7. CASE checkpoints[h][d][b.stream] = None
  BY <1>2, <1>6, <1>7 DEF Through
<1>8. CASE checkpoints[h][d][b.stream] # None
  <2>1. PICK e \in exports[h] : e.stream = b.stream /\ checkpoints[h][d][b.stream] = CheckpointOf(e)
    BY <1>1, <1>2, <1>8 DEF DeliveryInv, CheckpointsCommitted, OfStream
  <2>2. Through(h, d, b.stream) = e.through
    BY <1>8, <2>1 DEF Through, CheckpointOf
  <2>3. e.through \in Nat
    BY <1>0, <1>1, <2>1 DEF TypeOK, ExportTypeOK, IsArchive
  <2> QED  BY <1>2, <1>3, <1>6, <2>1, <2>2, <2>3
<1> QED  BY <1>7, <1>8

\* The proofs stay the batches up to the checkpoint, whoever confirms first.
LEMMA UpToCheckpointStep ==
  ASSUME IInv, DeliveryInv, [Next]_vars
  PROVE  ProvedUpToCheckpoint'
<1>0. HostInv /\ TypeOK /\ DOMAIN exports = Hosts /\ DOMAIN proofs = Hosts
      /\ ProvingCommitted /\ ChainInv /\ NonEmptyBatches
      /\ checkpoints \in [Hosts -> [Destinations -> [Streams -> Checkpoint \cup {None}]]]
  BY DEF IInv, HostInv, TypeOK, ExportTypeOK, DeliveryTypeOK, DeliveryInv
<1>1. SUFFICES ASSUME NEW k \in Hosts, NEW d \in Destinations, NEW f \in exports'[k]
               PROVE  Proved(k, d, f)' <=> f.through <= Through(k, d, f.stream)'
  BY DEF ProvedUpToCheckpoint
<1>2. \A h \in Hosts, x \in Destinations : \A e \in exports[h] :
        Proved(h, x, e) <=> e.through <= Through(h, x, e.stream)
  BY DEF DeliveryInv, ProvedUpToCheckpoint
<1>3. CASE UNCHANGED <<checkpoints, proofs, exports>>
  <2>1. f \in exports[k] /\ (Proved(k, d, f)' <=> Proved(k, d, f))
        /\ Through(k, d, f.stream)' = Through(k, d, f.stream)
    BY <1>3 DEF Proved, Through
  <2> QED  BY <1>2, <2>1
<1>4. ASSUME NEW p \in Exporters, Commit(p), UNCHANGED <<checkpoints, proofs>>
      PROVE  Proved(k, d, f)' <=> f.through <= Through(k, d, f.stream)'
  <2>1. PICK h \in Hosts, b \in {batch[p]} :
          /\ exports' = [exports EXCEPT ![h] = @ \cup {b}]
          /\ \A x \in Destinations :
               ~ Proved(h, x, b) /\ ~ b.through <= Through(h, x, b.stream)
    BY <1>4, CommitLeavesUnproved
  <2>2. (Proved(k, d, f)' <=> Proved(k, d, f))
        /\ Through(k, d, f.stream)' = Through(k, d, f.stream)
    BY <1>4 DEF Proved, Through
  <2>3. f \in exports[k] \/ (k = h /\ f = b)
    BY <1>0, <2>1
  <2> QED  BY <1>2, <2>1, <2>2, <2>3
<1>5. ASSUME NEW q \in Confirmers, Acknowledge(q)
      PROVE  Proved(k, d, f)' <=> f.through <= Through(k, d, f.stream)'
  <2>1. PICK h \in Hosts, x \in Destinations : \E e \in exports[h] :
           /\ IsArchive(e) /\ e.stream \in Streams /\ e.through \in Nat
           /\ Through(h, x, e.stream) = e.after
           /\ CheckpointOf(e) # None
           /\ checkpoints' = [checkpoints EXCEPT ![h][x][e.stream] = CheckpointOf(e)]
           /\ proofs' = [proofs EXCEPT ![h] = @ \cup {<<x, e.id>>}]
           /\ UNCHANGED exportVars
    BY <1>0, <1>5, AcknowledgeFacts
  <2>2. PICK e \in exports[h] :
           /\ IsArchive(e) /\ e.stream \in Streams /\ e.through \in Nat
           /\ Through(h, x, e.stream) = e.after
           /\ CheckpointOf(e) # None
           /\ checkpoints' = [checkpoints EXCEPT ![h][x][e.stream] = CheckpointOf(e)]
           /\ proofs' = [proofs EXCEPT ![h] = @ \cup {<<x, e.id>>}]
           /\ UNCHANGED exportVars
    BY <2>1
  <2>3. exports' = exports /\ f \in exports[k] /\ IsArchive(f) /\ f.stream \in Streams
    BY <1>0, <2>2 DEF exportVars, TypeOK, ExportTypeOK, IsArchive
  <2>4. Proved(k, d, f)' <=> Proved(k, d, f) \/ (k = h /\ d = x /\ f.id = e.id)
    BY <1>0, <2>2 DEF Proved
  <2>5. CASE ~(k = h /\ d = x /\ f.stream = e.stream)
    <3>1. checkpoints'[k][d][f.stream] = checkpoints[k][d][f.stream]
      BY <1>0, <2>2, <2>3, <2>5
    <3>2. Through(k, d, f.stream)' = Through(k, d, f.stream)
      BY <3>1 DEF Through
    <3>3. ~(k = h /\ d = x /\ f.id = e.id)
      BY <2>2, <2>3, <2>5 DEF IInv, ReceiverInv, IdsUnique, Seen
    <3> QED  BY <1>2, <2>3, <2>4, <3>2, <3>3
  <2>6. CASE k = h /\ d = x /\ f.stream = e.stream
    <3>1. checkpoints'[k][d][f.stream] = CheckpointOf(e)
      BY <1>0, <2>2, <2>3, <2>6
    <3>2. Through(k, d, f.stream)' = e.through
      BY <2>2, <3>1 DEF Through, CheckpointOf
    <3>3. Proved(k, d, f) <=> f.through <= e.after
      BY <1>2, <2>2, <2>3, <2>6
    <3>4. f.id = e.id <=> f = e
      BY <2>2, <2>3, <2>6 DEF IInv, ReceiverInv, IdsUnique, Seen
    <3>5. e.after < f.through /\ f.through <= e.through => f = e
      BY <1>0, <2>2, <2>3, <2>6, EndsInside
    <3>6. e.after < e.through
      BY <1>0 DEF NonEmptyBatches
    <3>7. e.after \in Nat /\ e.through \in Nat /\ f.through \in Nat
      BY <2>2, <2>3 DEF IsArchive
    <3> QED  BY <2>4, <2>6, <3>2, <3>3, <3>4, <3>5, <3>6, <3>7
  <2> QED  BY <2>5, <2>6
<1>6. ASSUME NEW g \in Hosts, NEW h \in Hosts, Clone(g, h)
      PROVE  Proved(k, d, f)' <=> f.through <= Through(k, d, f.stream)'
  <2>1. CASE k = h
    <3>1. exports'[k] = exports[g] /\ checkpoints'[k] = checkpoints[g] /\ proofs'[k] = proofs[g]
      BY <1>0, <1>6, <2>1 DEF Clone, CloneExports, CloneDelivery
    <3>2. f \in exports[g] /\ (Proved(k, d, f)' <=> Proved(g, d, f))
          /\ Through(k, d, f.stream)' = Through(g, d, f.stream)
      BY <3>1 DEF Proved, Through
    <3> QED  BY <1>2, <3>2
  <2>2. CASE k # h
    <3>1. exports'[k] = exports[k] /\ checkpoints'[k] = checkpoints[k] /\ proofs'[k] = proofs[k]
      BY <1>0, <1>6, <2>2 DEF Clone, CloneExports, CloneDelivery
    <3>2. f \in exports[k] /\ (Proved(k, d, f)' <=> Proved(k, d, f))
          /\ Through(k, d, f.stream)' = Through(k, d, f.stream)
      BY <3>1 DEF Proved, Through
    <3> QED  BY <1>2, <3>2
  <2> QED  BY <2>1, <2>2
<1> QED  BY <1>0, <1>3, <1>4, <1>5, <1>6, DeliveryCases

LEMMA DeliveryStep ==
  ASSUME IInv, DeliveryInv, [Next]_vars
  PROVE  DeliveryInv'
<1>1. HostInv
  BY DEF IInv
<1> QED
  BY <1>1, NonEmptyStep, ProvingStep, CheckpointsStep, ProofsStep, UpToCheckpointStep DEF DeliveryInv

LEMMA InitDelivery ==
  ASSUME Init
  PROVE  DeliveryInv
BY DEF Init, ExportInit, DeliveryInit, DeliveryInv, NonEmptyBatches, ProvingCommitted,
       CheckpointsCommitted, ProofsCommitted, ProvedUpToCheckpoint

----------------------------------------------------------------------------
(* What stays published.                                                   *)

\* The steps, as the output directories see them.
LEMMA FileCases ==
  ASSUME TypeOK, [Next]_vars
  PROVE  \/ UNCHANGED files
         \/ \E p \in Exporters : Publish(p)
         \/ \E p \in Exporters : VerifyFails(p)
BY DEF Next, vars, exportVars, deliveryVars, importVars, ExportNext, ExportStep, Sync, EditIdentity,
       MapScope, Register, Begin, Refuse, Recover, RejectExisting, Verify, Commit, Stop,
       DeliveryNext, Upload, Lose, Fetch, Acknowledge, Decline, ConfirmStops,
       ImportNext, Import, Clone, CloneExports

\* A publication writes one new name with one new archive.
LEMMA PublishWrites ==
  ASSUME HostInv, IdsMinted, NEW p \in Exporters, Publish(p)
  PROVE  \E n : /\ files' = files \cup {n}
                /\ n.dir = call[p].dir /\ n.archive = batch'[p]
                /\ \A f \in files : ~ SameName(f, n.dir, n.archive)
                /\ \A a : Seen(a) => a # n.archive
<1>0. DOMAIN batch = Exporters /\ minted \in Nat /\ pc[p] # "idle"
  BY DEF HostInv, TypeOK, ExportTypeOK, Publish
<1>1. PICK b \in 1 .. Len(changes[call[p].host]) :
        LET a == Slice(p, b, minted + 1) d == call[p].dir IN
          /\ SliceEnds(p, b) /\ MayWrite(d, a)
          /\ files' = (files \ Existing(d, a)) \cup {[dir |-> d, archive |-> a]}
          /\ batch' = [batch EXCEPT ![p] = a]
  BY DEF Publish
<1> DEFINE a == Slice(p, b, minted + 1)
           n == [dir |-> call[p].dir, archive |-> a]
<1>2. a.id = minted + 1
  BY DEF Slice, Feed
<1> HIDE DEF a
<1>3. Existing(n.dir, n.archive) = {}
  BY <1>1 DEF MayWrite, a
<1>4. files' = files \cup {n} /\ batch'[p] = a
  BY <1>0, <1>1, <1>3 DEF a
<1>5. \A f \in files : ~ SameName(f, n.dir, n.archive)
  BY <1>3 DEF Existing
<1>6. \A x : Seen(x) => x # a
  <2>1. \A x : Seen(x) => x.id \in 1 .. minted
    BY DEF IdsMinted
  <2>2. a.id \notin 1 .. minted
    BY <1>0, <1>2
  <2> QED  BY <2>1, <2>2
<1>7. n.dir = call[p].dir /\ n.archive = a
  OBVIOUS
<1> HIDE DEF n
<1> QED  BY <1>4, <1>5, <1>6, <1>7

\* A failed verification takes away the files of one name, that of its batch.
LEMMA VerifyFailsUnlinks ==
  ASSUME NEW p \in Exporters, VerifyFails(p)
  PROVE  /\ Holding(p) /\ Published(p)
         /\ files' = {f \in files : ~ SameName(f, call[p].dir, batch[p])}
         /\ UNCHANGED exports
BY DEF VerifyFails, Holding, Published

LEMMA DirectoryStep ==
  ASSUME HostInv, OneDirectory, [Next]_vars
  PROVE  OneDirectory'
<1>0. TypeOK /\ pc \in [Exporters -> {"idle", "registered", "open", "verify", "commit"}]
      /\ DOMAIN call = Exporters
  BY DEF HostInv, TypeOK, ExportTypeOK
<1> USE DEF Holding
<1>1. CASE UNCHANGED <<pc, call, batch>>
  BY <1>1 DEF OneDirectory
<1>2. ASSUME NEW q \in Exporters, NEW s \in {"verify", "commit"},
             Holding(q), pc' = [pc EXCEPT ![q] = s], UNCHANGED call
      PROVE  OneDirectory'
  BY <1>0, <1>2 DEF OneDirectory
<1>3. ASSUME NEW q \in Exporters, Begin(q)  PROVE OneDirectory'
  BY <1>0, <1>3 DEF OneDirectory, Begin, DirectoryFree
<1>4. ASSUME NEW q \in Exporters, Return(q)  PROVE OneDirectory'
  BY <1>0, <1>4 DEF OneDirectory, Return
<1>5. ASSUME NEW q \in Exporters, NEW a \in Call,
             pc' = [pc EXCEPT ![q] = "registered"], call' = [call EXCEPT ![q] = a]
      PROVE  OneDirectory'
  BY <1>0, <1>5 DEF OneDirectory
<1> QED
  BY <1>0, <1>1, <1>2, <1>3, <1>4, <1>5, StepCases
     DEF Quiet, hostVars, Journals, Register, Goes, Publish, Recover, Commit, Ends, Import,
         Clone, CloneExports, exportVars

LEMMA NamesStep ==
  ASSUME HostInv, IdsMinted, NamesUnique, FilesDiffer, [Next]_vars
  PROVE  NamesUnique' /\ FilesDiffer'
<1>0. TypeOK
  BY DEF HostInv
<1>1. CASE files' \subseteq files
  BY <1>1 DEF NamesUnique, FilesDiffer, SameName
<1>2. ASSUME NEW p \in Exporters, Publish(p)  PROVE NamesUnique' /\ FilesDiffer'
  <2>1. PICK n : /\ files' = files \cup {n}
                 /\ \A f \in files : ~ SameName(f, n.dir, n.archive)
                 /\ \A a : Seen(a) => a # n.archive
    BY <1>2, PublishWrites
  <2>2. \A f \in files : ~ SameName(n, f.dir, f.archive)
    BY <2>1 DEF SameName
  <2>3. \A f \in files : f.archive # n.archive
    BY <2>1 DEF Seen
  <2>4. NamesUnique'
    BY <2>1, <2>2 DEF NamesUnique, SameName
  <2>5. FilesDiffer'
    BY <2>1, <2>3 DEF FilesDiffer
  <2> QED  BY <2>4, <2>5
<1> QED  BY <1>0, <1>1, <1>2, FileCases, VerifyFailsUnlinks

\* What another call unlinks lies in another directory.
LEMMA OthersKeep ==
  ASSUME TypeOK, OneDirectory, [Next]_vars,
         NEW p \in Exporters, Holding(p), ~ VerifyFails(p), IdsMinted, HostInv,
         NEW f \in files, f.dir = call[p].dir
  PROVE  f \in files'
<1>1. ASSUME NEW q \in Exporters, VerifyFails(q)  PROVE f \in files'
  <2>1. call[q].dir # call[p].dir
    BY <1>1, VerifyFailsUnlinks DEF OneDirectory
  <2> QED  BY <1>1, <2>1, VerifyFailsUnlinks DEF SameName
<1>2. ASSUME NEW q \in Exporters, Publish(q)  PROVE f \in files'
  BY <1>2, PublishWrites
<1> QED  BY <1>1, <1>2, FileCases

LEMMA BatchFileStep ==
  ASSUME HostInv, IdsMinted, OneDirectory, BatchPublished, [Next]_vars
  PROVE  BatchPublished'
<1>0. TypeOK /\ DOMAIN call = Exporters /\ DOMAIN batch = Exporters
      /\ pc \in [Exporters -> {"idle", "registered", "open", "verify", "commit"}]
  BY DEF HostInv, TypeOK, ExportTypeOK
<1> SUFFICES ASSUME NEW p \in Exporters, Published(p)'
             PROVE  \E f \in files' : f.dir = call'[p].dir /\ f.archive = batch'[p]
  BY DEF BatchPublished
<1>1. CASE Published(p) /\ call'[p] = call[p] /\ batch'[p] = batch[p]
  <2>1. PICK f \in files : f.dir = call[p].dir /\ f.archive = batch[p]
    BY <1>1 DEF BatchPublished
  <2>2. ~ VerifyFails(p)
    <3>1. SUFFICES ASSUME VerifyFails(p)  PROVE pc'[p] = "idle"
      BY DEF Published
    <3> QED  BY <1>0, <3>1 DEF VerifyFails, Return
  <2>3. f \in files'
    BY <1>0, <1>1, <2>1, <2>2, OthersKeep DEF Holding, Published
  <2> QED  BY <1>1, <2>1, <2>3
<1>2. CASE Publish(p)
  <2>1. call' = call
    BY <1>2 DEF Publish
  <2> QED  BY <1>2, <2>1, PublishWrites
<1>3. CASE Recover(p)
  <2>1. PICK b \in 1 .. Len(changes[call[p].host]) :
          \E f \in Existing(call[p].dir, Slice(p, b, 0)) : batch' = [batch EXCEPT ![p] = f.archive]
    BY <1>3 DEF Recover
  <2>2. PICK f \in files : f.dir = call[p].dir /\ batch'[p] = f.archive
    BY <1>0, <2>1 DEF Existing, SameName
  <2> QED  BY <1>3, <2>2 DEF Recover
<1>4. \/ Published(p) /\ call'[p] = call[p] /\ batch'[p] = batch[p]
      \/ Publish(p) \/ Recover(p)
  <2>1. CASE UNCHANGED <<pc, call, batch>>
    BY <2>1 DEF Published
  <2>2. ASSUME NEW q \in Exporters, Publish(q)
        PROVE  (Published(p) /\ call'[p] = call[p] /\ batch'[p] = batch[p]) \/ p = q
    BY <1>0, <2>2 DEF Publish, Published
  <2>3. ASSUME NEW q \in Exporters, Recover(q)
        PROVE  (Published(p) /\ call'[p] = call[p] /\ batch'[p] = batch[p]) \/ p = q
    BY <1>0, <2>3 DEF Recover, Published
  <2>4. ASSUME NEW q \in Exporters, Return(q)
        PROVE  Published(p) /\ call'[p] = call[p] /\ batch'[p] = batch[p]
    BY <1>0, <2>4 DEF Return, Published
  <2>5. ASSUME NEW q \in Exporters, Begin(q) \/ Goes(q, "verify", "commit")
        PROVE  Published(p) /\ call'[p] = call[p] /\ batch'[p] = batch[p]
    BY <1>0, <2>5 DEF Begin, Goes, Published
  <2>6. ASSUME NEW q \in Exporters, NEW a \in Call, Register(q, a)
        PROVE  Published(p) /\ call'[p] = call[p] /\ batch'[p] = batch[p]
    BY <1>0, <2>6 DEF Register, Published
  <2> QED
    BY <1>0, <2>1, <2>2, <2>3, <2>4, <2>5, <2>6, StepCases
       DEF Quiet, hostVars, Journals, Commit, Ends, Import, Clone, CloneExports, exportVars
<1> QED  BY <1>1, <1>2, <1>3, <1>4

LEMMA UnverifiedStep ==
  ASSUME HostInv, IdsMinted, FilesDiffer, OneDirectory, BatchPublished, UnverifiedUncommitted,
         [Next]_vars
  PROVE  UnverifiedUncommitted'
<1>0. TypeOK /\ DOMAIN call = Exporters /\ DOMAIN batch = Exporters /\ DOMAIN exports = Hosts
      /\ pc \in [Exporters -> {"idle", "registered", "open", "verify", "commit"}]
  BY DEF HostInv, TypeOK, ExportTypeOK
<1> SUFFICES ASSUME NEW p \in Exporters, pc'[p] = "verify", NEW h \in Hosts
             PROVE  batch'[p] \notin exports'[h]
  BY DEF UnverifiedUncommitted
<1>1. ASSUME NEW q \in Exporters, Publish(q)  PROVE batch'[p] \notin exports'[h]
  <2>1. UNCHANGED exports
    BY <1>1 DEF Publish
  <2>2. CASE p = q
    <3>1. \A a : Seen(a) => a # batch'[p]
      BY <1>1, <2>2, PublishWrites
    <3> QED  BY <2>1, <3>1 DEF Seen
  <2>3. CASE p # q
    BY <1>0, <1>1, <2>1, <2>3 DEF Publish, UnverifiedUncommitted
  <2> QED  BY <2>2, <2>3
<1>2. ASSUME NEW q \in Exporters, Commit(q)  PROVE batch'[p] \notin exports'[h]
  <2>1. p # q /\ pc[p] = "verify" /\ batch'[p] = batch[p]
    BY <1>0, <1>2 DEF Commit, Return
  <2>2. batch[p] # batch[q]
    <3>1. Published(p) /\ Published(q) /\ Holding(p) /\ Holding(q)
      BY <1>2, <2>1 DEF Commit, Published, Holding
    <3>2. PICK f \in files : f.dir = call[p].dir /\ f.archive = batch[p]
      BY <3>1 DEF BatchPublished
    <3>3. PICK g \in files : g.dir = call[q].dir /\ g.archive = batch[q]
      BY <3>1 DEF BatchPublished
    <3> QED  BY <2>1, <3>1, <3>2, <3>3 DEF FilesDiffer, OneDirectory
  <2>3. exports'[h] \subseteq exports[h] \cup {batch[q]}
    BY <1>0, <1>2 DEF Commit
  <2> QED  BY <2>1, <2>2, <2>3 DEF UnverifiedUncommitted
<1>3. ASSUME NEW g \in Hosts, NEW k \in Hosts, Clone(g, k)  PROVE batch'[p] \notin exports'[h]
  <2>1. UNCHANGED <<pc, batch>> /\ exports' = [exports EXCEPT ![k] = exports[g]]
    BY <1>3 DEF Clone, CloneExports
  <2> QED  BY <1>0, <2>1 DEF UnverifiedUncommitted
<1>4. CASE UNCHANGED <<pc, batch, exports>>
  BY <1>4 DEF UnverifiedUncommitted
<1>5. ASSUME NEW q \in Exporters, UNCHANGED exports,
             Return(q) \/ Recover(q) \/ Begin(q) \/ Goes(q, "verify", "commit")
             \/ \E a \in Call : Register(q, a)
      PROVE  batch'[p] \notin exports'[h]
  <2>1. pc[p] = "verify" /\ batch'[p] = batch[p]
    BY <1>0, <1>5 DEF Return, Recover, Begin, Goes, Register
  <2> QED  BY <1>5, <2>1 DEF UnverifiedUncommitted
<1> QED
  BY <1>0, <1>1, <1>2, <1>3, <1>4, <1>5, StepCases
     DEF Quiet, hostVars, Journals, Register, Begin, Recover, Goes, Ends, Import, exportVars

\* Only its own, unclaimed file is ever unlinked, and a commit claims a file
\* that is there.
LEMMA KeptStep ==
  ASSUME HostInv, IdsMinted, DiskInv, [Next]_vars
  PROVE  CommittedFileKept'
<1>0. TypeOK /\ DOMAIN exports = Hosts
  BY DEF HostInv, TypeOK, ExportTypeOK
<1> SUFFICES ASSUME NEW h \in Hosts, NEW e \in exports'[h]
             PROVE  \E f \in files' : f.archive = e
  BY DEF CommittedFileKept
<1>1. CASE \E k \in Hosts : e \in exports[k]
  <2>1. PICK f \in files : f.archive = e
    BY <1>1 DEF DiskInv, CommittedFileKept
  <2>2. ASSUME NEW p \in Exporters, VerifyFails(p)  PROVE f \in files'
    <3>1. PICK g \in files : g.dir = call[p].dir /\ g.archive = batch[p]
      BY <2>2, VerifyFailsUnlinks DEF DiskInv, BatchPublished
    <3>2. SameName(f, call[p].dir, batch[p]) => f = g
      BY <3>1 DEF DiskInv, NamesUnique
    <3>3. f.archive # batch[p]
      BY <1>1, <2>1, <2>2 DEF DiskInv, UnverifiedUncommitted, VerifyFails
    <3> QED  BY <2>2, <3>1, <3>2, <3>3, VerifyFailsUnlinks
  <2>3. ASSUME NEW p \in Exporters, Publish(p)  PROVE f \in files'
    BY <2>3, PublishWrites
  <2> QED  BY <1>0, <2>1, <2>2, <2>3, FileCases
<1>2. ASSUME NEW p \in Exporters, Commit(p)  PROVE \E f \in files' : f.archive = e
  <2>1. UNCHANGED files /\ Published(p)
    BY <1>2 DEF Commit, Published
  <2>2. e \in exports[h] \/ e = batch[p]
    BY <1>0, <1>2 DEF Commit
  <2> QED  BY <1>1, <2>1, <2>2 DEF DiskInv, BatchPublished
<1>3. ASSUME NEW g \in Hosts, NEW k \in Hosts, Clone(g, k)
      PROVE  \E x \in Hosts : e \in exports[x]
  BY <1>0, <1>3 DEF Clone, CloneExports
<1>4. CASE UNCHANGED exports
  BY <1>1, <1>4
<1> QED  BY <1>0, <1>1, <1>2, <1>3, <1>4, DeliveryCases DEF Acknowledge, exportVars

LEMMA DiskStep ==
  ASSUME HostInv, IdsMinted, DiskInv, [Next]_vars
  PROVE  DiskInv'
BY DirectoryStep, NamesStep, BatchFileStep, UnverifiedStep, KeptStep DEF DiskInv

LEMMA InitDisk ==
  ASSUME Init
  PROVE  DiskInv
BY DEF Init, ExportInit, DiskInv, OneDirectory, NamesUnique, FilesDiffer, BatchPublished,
       UnverifiedUncommitted, CommittedFileKept, Holding, Published

----------------------------------------------------------------------------
(* The theorems. *)

LEMMA FullStep ==
  ASSUME FullInv, [Next]_vars
  PROVE  FullInv'
<1>1. IInv'
  BY HostStep, ChainStep, ReceiverStep DEF FullInv, IInv
<1>2. HostInv /\ IdsMinted
  BY DEF FullInv, IInv, ReceiverInv
<1> QED  BY <1>1, <1>2, DeliveryStep, DiskStep DEF FullInv

\* The three layers together hold in every reachable state.
THEOREM FullInvariance == SafeSpec => []FullInv
<1>1. Init => FullInv
  BY InitInvariant, InitDelivery, InitDisk DEF FullInv
<1>2. FullInv /\ [Next]_vars => FullInv'
  BY FullStep
<1> QED  BY <1>1, <1>2, PTL DEF SafeSpec

\* confirm-delivery leaves no gap behind a checkpoint, however many confirmers
\* race, confirm late or out of order, and `archive pending` lists exactly
\* what is not proved.
THEOREM DeliveryIsPrefix == SafeSpec => []ProofsArePrefix
<1>1. ASSUME FullInv  PROVE ProofsArePrefix
  <2>1. SUFFICES ASSUME NEW h \in Hosts, NEW d \in Destinations, NEW c \in Consumers,
                        consumers[h][c] # None
                 PROVE  LET s == consumers[h][c].stream IN
                        /\ Pending(h, c, d) = {e \in OfStream(h, s) : ~ Proved(h, d, e)}
                        /\ checkpoints[h][d][s] # None =>
                             \E e \in OfStream(h, s) : checkpoints[h][d][s] = CheckpointOf(e)
    BY DEF ProofsArePrefix
  <2> DEFINE s == consumers[h][c].stream
  <2>2. s \in Streams
    BY <1>1, <2>1 DEF FullInv, IInv, HostInv, TypeOK, ExportTypeOK, Row
  <2>3. ASSUME NEW e \in exports[h], e.stream = s
        PROVE  e.through > Through(h, d, s) <=> ~ Proved(h, d, e)
    <3>1. Proved(h, d, e) <=> e.through <= Through(h, d, s)
      BY <1>1, <2>3 DEF FullInv, DeliveryInv, ProvedUpToCheckpoint
    <3>2. e.through \in Nat
      BY <1>1 DEF FullInv, IInv, HostInv, TypeOK, ExportTypeOK, IsArchive
    <3>3. checkpoints[h][d][s] \in Checkpoint \cup {None}
      BY <1>1, <2>2 DEF FullInv, IInv, HostInv, TypeOK, DeliveryTypeOK
    <3>4. Through(h, d, s) \in Nat
      BY <3>3 DEF Through, Checkpoint
    <3> QED  BY <3>1, <3>2, <3>4
  <2>4. Pending(h, c, d) = {e \in OfStream(h, s) : ~ Proved(h, d, e)}
    BY <2>1, <2>3 DEF Pending, OfStream
  <2>5. checkpoints[h][d][s] # None =>
          \E e \in OfStream(h, s) : checkpoints[h][d][s] = CheckpointOf(e)
    BY <1>1, <2>2 DEF FullInv, DeliveryInv, CheckpointsCommitted
  <2> QED  BY <2>4, <2>5
<1>2. FullInv => ProofsArePrefix
  BY <1>1
<1> QED  BY <1>2, FullInvariance, PTL

\* The unlink of a batch that does not verify (export_changes) never takes the
\* file of a batch that some cache committed.
THEOREM CommittedFilesKept == SafeSpec => []CommittedFileKept
<1>1. FullInv => CommittedFileKept
  BY DEF FullInv, DiskInv
<1> QED  BY <1>1, FullInvariance, PTL

\* os.replace never replaces: a published name keeps its content for as long
\* as it is there.
THEOREM PublicationsImmutable == SafeSpec => ImmutablePublication
<1>1. ASSUME FullInv, [Next]_vars, NEW f \in files, NEW g \in files',
             SameName(g, f.dir, f.archive)
      PROVE  g = f
  <2>1. HostInv /\ TypeOK /\ IdsMinted /\ NamesUnique
    BY <1>1 DEF FullInv, IInv, HostInv, ReceiverInv, DiskInv
  <2>2. CASE g \in files
    BY <1>1, <2>1, <2>2 DEF NamesUnique
  <2>3. CASE g \notin files
    <3>1. PICK p \in Exporters : Publish(p)
      BY <1>1, <2>1, <2>3, FileCases, VerifyFailsUnlinks
    <3>2. ~ SameName(f, g.dir, g.archive)
      BY <2>1, <2>3, <3>1, PublishWrites
    <3> QED  BY <1>1, <3>2 DEF SameName
  <2> QED  BY <2>2, <2>3
<1>2. FullInv /\ [Next]_vars =>
        [\A f \in files, g \in files' : SameName(g, f.dir, f.archive) => g = f]_vars
  BY <1>1
<1> QED  BY <1>2, FullInvariance, PTL DEF SafeSpec, ImmutablePublication

----------------------------------------------------------------------------
(* The refinement: every step of the changefeed is a step of ChangefeedLog *)
(* or leaves its variables alone.                                          *)

Cursors == [h \in Hosts |-> [c \in Consumers |-> SequenceOf(h, c)]]
Durables == [h \in Hosts |-> [d \in Destinations |-> [c \in Consumers |-> DurableOf(h, d, c)]]]

LogStep == [Log!Next]_(Log!vars)

\* The cursors and the checkpoints of consumers depend on these tables only.
LEMMA CursorsKept ==
  ASSUME UNCHANGED consumers
  PROVE  Cursors' = Cursors
BY DEF Cursors, SequenceOf

LEMMA DurablesKept ==
  ASSUME UNCHANGED <<consumers, checkpoints>>
  PROVE  Durables' = Durables
BY DEF Durables, DurableOf, Through

LEMMA Stutters ==
  ASSUME UNCHANGED <<changes, consumers, checkpoints, applied>>
  PROVE  LogStep
BY CursorsKept, DurablesKept DEF LogStep, Log!vars, Cursors, Durables

LEMMA CaptureIsCapture ==
  ASSUME NEW h \in Hosts, NEW e \in Event, changes' = [changes EXCEPT ![h] = Append(@, e)],
         Cursors' = Cursors, Durables' = Durables, UNCHANGED applied
  PROVE  LogStep
BY DEF LogStep, Log!Next, Log!Capture, Cursors, Durables

\* A stream nobody registered has no checkpoint.
LEMMA UnregisteredUnproved ==
  ASSUME FullInv, NEW h \in Hosts, NEW c \in Consumers, consumers[h][c] = None,
         NEW d \in Destinations, NEW g \in Hosts
  PROVE  checkpoints[h][d][<<g, c>>] = None
<1>1. SUFFICES ASSUME checkpoints[h][d][<<g, c>>] # None  PROVE FALSE
  OBVIOUS
<1>2. <<g, c>> \in Streams
  BY DEF Streams
<1>3. PICK e \in exports[h] : e.stream = <<g, c>>
  BY <1>1, <1>2 DEF FullInv, DeliveryInv, CheckpointsCommitted, OfStream
<1>4. PICK k \in Consumers : consumers[h][k] # None /\ consumers[h][k].stream = <<g, c>>
  BY <1>3 DEF FullInv, IInv, ChainInv, StreamsRegistered
<1>5. consumers[h][k].stream[2] = k
  BY <1>4 DEF FullInv, IInv, ChainInv, StreamsRegistered
<1> QED  BY <1>4, <1>5

\* A registration starts a consumer at nothing exported and nothing proved.
LEMMA RegisterStarts ==
  ASSUME FullInv, NEW p \in Exporters, NEW a \in Call, Register(p, a),
         UNCHANGED <<checkpoints, applied>>
  PROVE  LogStep
<1>0. /\ DOMAIN consumers = Hosts /\ \A h \in Hosts : DOMAIN consumers[h] = Consumers
      /\ a.host \in Hosts /\ a.consumer \in Consumers
      /\ identity \in [Hosts -> Identities]
      /\ checkpoints \in [Hosts -> [Destinations -> [Streams -> Checkpoint \cup {None}]]]
  BY DEF FullInv, IInv, HostInv, TypeOK, ExportTypeOK, DeliveryTypeOK, Call
<1> DEFINE new == NewRow(a.host, a.consumer, a.policy)
<1>1. consumers' = [consumers EXCEPT ![a.host][a.consumer] = RegisteredRow(@, new)]
  BY DEF Register
<1>2. ASSUME NEW h \in Hosts, NEW c \in Consumers
      PROVE  consumers'[h][c] = consumers[h][c]
             \/ /\ consumers[h][c] = None /\ consumers'[h][c] = NewRow(h, c, a.policy)
  BY <1>0, <1>1 DEF RegisteredRow
<1>3. Cursors' = Cursors
  <2>1. ASSUME NEW h \in Hosts, NEW c \in Consumers
        PROVE  SequenceOf(h, c)' = SequenceOf(h, c)
    <3>1. CASE consumers'[h][c] = consumers[h][c]
      BY <3>1 DEF SequenceOf
    <3>2. CASE consumers[h][c] = None /\ consumers'[h][c] = NewRow(h, c, a.policy)
      <4>1. NewRow(h, c, a.policy).sequence = 0
        BY DEF NewRow
      <4> QED  BY <3>2, <4>1 DEF SequenceOf
    <3> QED  BY <1>2, <3>1, <3>2
  <2> QED  BY <2>1 DEF Cursors
<1>4. Durables' = Durables
  <2>1. ASSUME NEW h \in Hosts, NEW d \in Destinations, NEW c \in Consumers
        PROVE  DurableOf(h, d, c)' = DurableOf(h, d, c)
    <3>1. CASE consumers'[h][c] = consumers[h][c]
      BY <3>1 DEF DurableOf, Through
    <3>2. CASE consumers[h][c] = None /\ consumers'[h][c] = NewRow(h, c, a.policy)
      <4>1. checkpoints[h][d][<<h, c>>] = None
        BY <3>2, UnregisteredUnproved
      <4>2. DurableOf(h, d, c) = 0
        BY <3>2 DEF DurableOf
      <4>3. NewRow(h, c, a.policy).stream = <<h, c>>
        BY DEF NewRow
      <4>4. DurableOf(h, d, c)' = 0
        BY <3>2, <4>1, <4>3 DEF DurableOf, Through
      <4> QED  BY <4>2, <4>4
    <3> QED  BY <1>2, <3>1, <3>2
  <2> QED  BY <2>1 DEF Durables
<1>5. PICK v \in 1 .. identity[a.host] : CaptureIdentity(a.host, v)
  BY DEF Register
<1>6. v \in Event
  BY <1>0, <1>5, ExportAssumption DEF Identities, Event
<1>7. changes' = changes \/ changes' = [changes EXCEPT ![a.host] = Append(@, v)]
  BY <1>5 DEF CaptureIdentity
<1>8. CASE changes' = changes
  BY <1>3, <1>4, <1>8 DEF LogStep, Log!vars, Cursors, Durables
<1>9. CASE changes' = [changes EXCEPT ![a.host] = Append(@, v)]
  BY <1>0, <1>3, <1>4, <1>6, <1>9, CaptureIsCapture
<1> QED  BY <1>7, <1>8, <1>9

\* A commit ships what its batch holds.
LEMMA CommitShips ==
  ASSUME FullInv, NEW p \in Exporters, Commit(p), UNCHANGED <<checkpoints, applied>>
  PROVE  LogStep
<1>0. /\ HostInv /\ DOMAIN consumers = Hosts
      /\ \A h \in Hosts : DOMAIN consumers[h] = Consumers /\ changes[h] \in Seq(Event)
  BY DEF FullInv, IInv, HostInv, TypeOK, ExportTypeOK
<1>1. PICK h \in alive, c \in Consumers, b \in {batch[p]} :
           /\ h \in Hosts /\ h = call[p].host
           /\ IsArchive(b) /\ consumers[h][c] \in Row /\ consumers[h][c] # None
           /\ Next_(consumers[h][c], b, h)
           /\ exports' = [exports EXCEPT ![h] = @ \cup {b}]
           /\ consumers' = [consumers EXCEPT ![h][c] = Advance(consumers[h][c], b)]
           /\ Advance(consumers[h][c], b) \in Row /\ Advance(consumers[h][c], b) # None
           /\ Seen(b)
  BY <1>0, CommitFacts
<1> DEFINE row == consumers[h][c]
           n == b.through
<1>2. row.sequence \in Nat /\ b.through \in Nat
  BY <1>1 DEF Row, IsArchive
<1>3. n \in row.sequence + 1 .. Len(changes[h])
  BY <1>0, <1>1, <1>2 DEF Next_, Agrees
<1>4. /\ Advance(row, b).sequence = n /\ Advance(row, b).stream = row.stream
  BY DEF Advance
<1>5. consumers'[h][c] = Advance(row, b)
      /\ \A k \in Hosts, x \in Consumers :
           ~(k = h /\ x = c) => consumers'[k][x] = consumers[k][x]
  BY <1>0, <1>1
<1>6. Cursors[h][c] = row.sequence
  BY <1>1 DEF Cursors, SequenceOf
<1>7. Cursors' = [Cursors EXCEPT ![h][c] = n]
  <2>1. SequenceOf(h, c)' = n
    BY <1>1, <1>4, <1>5 DEF SequenceOf
  <2>2. ASSUME NEW k \in Hosts, NEW x \in Consumers, ~(k = h /\ x = c)
        PROVE  SequenceOf(k, x)' = SequenceOf(k, x)
    BY <1>5, <2>2 DEF SequenceOf
  <2> QED  BY <2>1, <2>2 DEF Cursors
<1>8. Durables' = Durables
  <2>1. ASSUME NEW k \in Hosts, NEW d \in Destinations, NEW x \in Consumers
        PROVE  DurableOf(k, d, x)' = DurableOf(k, d, x)
    <3>1. CASE k = h /\ x = c
      <4>1. consumers'[k][x] # None /\ consumers[k][x] # None
            /\ consumers'[k][x].stream = consumers[k][x].stream
        BY <1>1, <1>4, <1>5, <3>1
      <4> QED  BY <4>1 DEF DurableOf, Through
    <3>2. CASE ~(k = h /\ x = c)
      BY <1>5, <3>2 DEF DurableOf, Through
    <3> QED  BY <3>1, <3>2
  <2> QED  BY <2>1 DEF Durables
<1>9. UNCHANGED changes
  BY DEF Commit
<1>10. Log!Ship(h, c)
  BY <1>1, <1>3, <1>6, <1>7, <1>8, <1>9 DEF Log!Ship, Cursors, Durables
<1> QED  BY <1>1, <1>10 DEF LogStep, Log!Next

\* A confirmation moves the checkpoint of one consumer, up to what was shipped.
LEMMA AcknowledgeProves ==
  ASSUME FullInv, NEW q \in Confirmers, Acknowledge(q), UNCHANGED applied
  PROVE  LogStep
<1>0. /\ TypeOK /\ ProvingCommitted /\ ChainInv /\ NonEmptyBatches
      /\ checkpoints \in [Hosts -> [Destinations -> [Streams -> Checkpoint \cup {None}]]]
      /\ consumers \in [Hosts -> [Consumers -> Row \cup {None}]]
  BY DEF FullInv, IInv, HostInv, TypeOK, ExportTypeOK, DeliveryTypeOK, DeliveryInv
<1>1. PICK h \in Hosts, d \in Destinations : \E e \in exports[h] :
           /\ IsArchive(e) /\ e.stream \in Streams /\ e.through \in Nat
           /\ Through(h, d, e.stream) = e.after
           /\ CheckpointOf(e) # None
           /\ checkpoints' = [checkpoints EXCEPT ![h][d][e.stream] = CheckpointOf(e)]
           /\ UNCHANGED exportVars
  BY <1>0, AcknowledgeFacts
<1>2. PICK e \in exports[h] :
           /\ IsArchive(e) /\ e.stream \in Streams /\ e.through \in Nat
           /\ Through(h, d, e.stream) = e.after
           /\ CheckpointOf(e) # None
           /\ checkpoints' = [checkpoints EXCEPT ![h][d][e.stream] = CheckpointOf(e)]
           /\ UNCHANGED exportVars
  BY <1>1
<1>3. UNCHANGED <<consumers, changes>>
  BY <1>2 DEF exportVars
<1>4. PICK c \in Consumers : consumers[h][c] # None /\ consumers[h][c].stream = e.stream
  BY <1>0 DEF ChainInv, StreamsRegistered
<1>5. e.through <= consumers[h][c].sequence
  BY <1>0, <1>4 DEF ChainInv, ExportedExactlyOnce, OfStream
<1>6. Durables[h][d][c] = e.after /\ Cursors[h][c] = consumers[h][c].sequence
  BY <1>2, <1>4 DEF Durables, DurableOf, Cursors, SequenceOf
<1>7. e.through \in e.after + 1 .. consumers[h][c].sequence
  <2>1. e.after \in Nat /\ consumers[h][c].sequence \in Nat
    BY <1>0, <1>2, <1>4 DEF IsArchive, Row
  <2> QED  BY <1>0, <1>2, <1>5, <2>1 DEF NonEmptyBatches
<1>8. Durables' = [Durables EXCEPT ![h][d][c] = e.through]
  <2>1. DurableOf(h, d, c)' = e.through
    <3>1. checkpoints'[h][d][e.stream] = CheckpointOf(e)
      BY <1>0, <1>2
    <3> QED  BY <1>2, <1>3, <1>4, <3>1 DEF DurableOf, Through, CheckpointOf
  <2>2. ASSUME NEW k \in Hosts, NEW x \in Destinations, NEW y \in Consumers,
               ~(k = h /\ x = d /\ y = c)
        PROVE  DurableOf(k, x, y)' = DurableOf(k, x, y)
    <3>1. CASE consumers[k][y] = None
      BY <1>3, <3>1 DEF DurableOf
    <3>2. CASE consumers[k][y] # None
      <4> DEFINE s == consumers[k][y].stream
      <4>1. s \in Streams /\ s[2] = y
        BY <1>0, <3>2 DEF Row, ChainInv, StreamsRegistered
      <4>2. e.stream[2] = c
        BY <1>0, <1>4 DEF ChainInv, StreamsRegistered
      <4>3. ~(k = h /\ x = d /\ s = e.stream)
        BY <2>2, <4>1, <4>2
      <4>4. checkpoints'[k][x][s] = checkpoints[k][x][s]
        <5> HIDE DEF s
        <5> QED  BY <1>0, <1>2, <4>1, <4>3
      <4> QED  BY <1>3, <3>2, <4>4 DEF DurableOf, Through
    <3> QED  BY <3>1, <3>2
  <2>3. Durables'[h][d] = [Durables[h][d] EXCEPT ![c] = e.through]
    BY <2>1, <2>2 DEF Durables
  <2>4. \A x \in Destinations : x # d => Durables'[h][x] = Durables[h][x]
    BY <2>2 DEF Durables
  <2>5. \A k \in Hosts : k # h => Durables'[k] = Durables[k]
    BY <2>2 DEF Durables
  <2>6. /\ DOMAIN Durables = Hosts /\ Durables' = [k \in Hosts |-> Durables'[k]]
        /\ DOMAIN Durables[h] = Destinations
        /\ Durables'[h] = [x \in Destinations |-> Durables'[h][x]]
        /\ Durables = [k \in Hosts |-> Durables[k]]
        /\ Durables[h] = [x \in Destinations |-> Durables[h][x]]
    BY DEF Durables
  <2>7. Durables'[h] = [Durables[h] EXCEPT ![d] = Durables'[h][d]]
    BY <2>4, <2>6
  <2>8. Durables' = [Durables EXCEPT ![h] = Durables'[h]]
    BY <2>5, <2>6
  <2> QED  BY <2>3, <2>7, <2>8
<1>9. Cursors' = Cursors
  BY <1>3, CursorsKept
<1>10. Log!Prove(h, d, c)
  BY <1>3, <1>6, <1>7, <1>8, <1>9 DEF Log!Prove, Cursors, Durables
<1> QED  BY <1>10 DEF LogStep, Log!Next

\* An import brings a receiver further along the history of a host, or it
\* brings nothing new.
LEMMA ImportReceives ==
  ASSUME FullInv, FullInv', NEW r \in Receivers, NEW a, IsArchive(a), Import(r, a),
         UNCHANGED <<consumers, checkpoints, changes, alive>>
  PROVE  LogStep
<1>0. TypeOK /\ OneHistory /\ OneHistory' /\ DOMAIN applied = Receivers /\ alive \subseteq Hosts
      /\ \A h \in Hosts : changes[h] \in Seq(Event)
  BY DEF FullInv, IInv, HostInv, ReceiverInv, TypeOK, ImportTypeOK, ExportTypeOK
<1>1. PICK g \in alive : PrefixOf(applied[r], changes[g])
  BY <1>0 DEF OneHistory
<1>2. PICK m \in 0 .. Len(changes[g]) : DOMAIN applied[r] = 1 .. m
  BY <1>1 DEF PrefixOf
<1>3. PICK h \in alive : PrefixOf(applied'[r], changes[h])
  BY <1>0 DEF OneHistory
<1>4. PICK n \in 0 .. Len(changes[h]) :
        DOMAIN applied'[r] = 1 .. n /\ \A i \in 1 .. n : applied'[r][i] = changes[h][i]
  BY <1>3 DEF PrefixOf
<1>5. h \in Hosts /\ changes[h] \in Seq(Event) /\ Len(changes[h]) \in Nat
      /\ g \in Hosts /\ Len(changes[g]) \in Nat
  BY <1>0
<1>6. /\ DOMAIN applied[r] \subseteq DOMAIN applied'[r]
      /\ \A i \in DOMAIN applied[r] : applied'[r][i] = applied[r][i]
  BY <1>0, ImportFacts
<1>7. m <= n
  <2>1. m = 0 \/ m \in 1 .. m
    BY <1>5
  <2> QED  BY <1>2, <1>4, <1>5, <1>6, <2>1
<1>8. applied' = [applied EXCEPT ![r] = Replayed(@, a)]
  BY DEF Import
<1>9. applied[r] = SubSeq(changes[h], 1, m) /\ applied'[r] = SubSeq(changes[h], 1, n)
  <2>1. applied[r] = [i \in 1 .. m |-> changes[h][i]]
    <3>1. applied[r] = [i \in DOMAIN applied[r] |-> applied[r][i]]
      BY <1>0 DEF TypeOK, ImportTypeOK
    <3>2. \A i \in 1 .. m : applied[r][i] = changes[h][i]
      BY <1>2, <1>4, <1>5, <1>6, <1>7
    <3> QED  BY <1>2, <3>1, <3>2
  <2>2. applied'[r] = [i \in 1 .. n |-> changes[h][i]]
    <3>1. applied'[r] = [i \in DOMAIN applied'[r] |-> applied'[r][i]]
      BY <1>0, <1>8 DEF Replayed
    <3> QED  BY <1>4, <3>1
  <2>3. \A k \in 0 .. Len(changes[h]) :
          SubSeq(changes[h], 1, k) = [i \in 1 .. k |-> changes[h][i]]
    BY <1>5
  <2> QED  BY <1>4, <1>5, <1>7, <2>1, <2>2, <2>3
<1>10. Cursors' = Cursors /\ Durables' = Durables
  BY CursorsKept, DurablesKept
<1>11. CASE n = m
  <2>1. applied = [x \in Receivers |-> applied[x]]
    BY <1>0 DEF TypeOK, ImportTypeOK
  <2>2. applied'[r] = applied[r]
    BY <1>9, <1>11
  <2>3. applied' = [x \in Receivers |-> applied[x]]
    BY <1>0, <1>8, <2>2
  <2> QED  BY <2>1, <2>3, Stutters
<1>12. CASE m < n
  <2>1. Len(applied[r]) = m
    BY <1>2, <1>5, <1>9
  <2>2. n \in Len(applied[r]) + 1 .. Len(changes[h])
    BY <1>4, <1>5, <1>12, <2>1
  <2>3. applied[r] = SubSeq(changes[h], 1, Len(applied[r]))
    BY <1>9, <2>1
  <2>4. applied' = [applied EXCEPT ![r] = SubSeq(changes[h], 1, n)]
    BY <1>0, <1>8, <1>9
  <2>5. Log!Receive(r)
    BY <1>5, <1>10, <2>2, <2>3, <2>4 DEF Log!Receive, Cursors, Durables
  <2> QED  BY <2>5 DEF LogStep, Log!Next
<1> QED  BY <1>2, <1>4, <1>5, <1>7, <1>11, <1>12

\* A copy of a data directory forks its log.
LEMMA CloneForks ==
  ASSUME FullInv, NEW g \in Hosts, NEW h \in Hosts, Clone(g, h)
  PROVE  LogStep
<1>0. /\ DeadHostsEmpty /\ DOMAIN changes = Hosts
      /\ DOMAIN consumers = Hosts /\ DOMAIN checkpoints = Hosts
  BY DEF FullInv, IInv, HostInv, TypeOK, ExportTypeOK, DeliveryTypeOK
<1>1. /\ h \notin alive /\ changes' = [changes EXCEPT ![h] = changes[g]]
      /\ consumers' = [consumers EXCEPT ![h] = consumers[g]]
      /\ checkpoints' = [checkpoints EXCEPT ![h] = checkpoints[g]]
      /\ UNCHANGED applied
  BY DEF Clone, CloneExports, CloneDelivery, importVars
<1>2. changes[h] = <<>> /\ \A c \in Consumers : consumers[h][c] = None
  BY <1>0, <1>1 DEF DeadHostsEmpty
<1>3. Cursors[h] = [c \in Consumers |-> 0]
  BY <1>2 DEF Cursors, SequenceOf
<1>4. Cursors' = [Cursors EXCEPT ![h] = Cursors[g]]
  BY <1>0, <1>1 DEF Cursors, SequenceOf
<1>5. Durables' = [Durables EXCEPT ![h] = Durables[g]]
  BY <1>0, <1>1 DEF Durables, DurableOf, Through
<1>6. Log!Fork(g, h)
  BY <1>1, <1>2, <1>3, <1>4, <1>5 DEF Log!Fork, Cursors, Durables
<1> QED  BY <1>6 DEF LogStep, Log!Next

LEMMA RefinementStep ==
  ASSUME FullInv, FullInv', [Next]_vars
  PROVE  LogStep
<1>0. TypeOK
  BY DEF FullInv, IInv, HostInv
<1> USE DEF exportVars, deliveryVars, importVars
<1>1. CASE UNCHANGED vars
  BY <1>1, Stutters DEF vars
<1>2. CASE ExportNext /\ UNCHANGED <<deliveryVars, importVars>>
  <2>0. UNCHANGED <<checkpoints, applied>>
    BY <1>2
  <2>1. ASSUME NEW h \in Hosts, NEW e \in Event, changes' = [changes EXCEPT ![h] = Append(@, e)],
               UNCHANGED consumers
        PROVE  LogStep
    BY <2>0, <2>1, CursorsKept, DurablesKept, CaptureIsCapture
  <2>2. ASSUME NEW h \in Hosts, NEW e \in Captures, Sync(h, e)  PROVE LogStep
    BY <2>1, <2>2 DEF Sync, Event
  <2>3. ASSUME NEW h \in Hosts, EditIdentity(h)  PROVE LogStep
    BY <2>0, <2>3, Stutters DEF EditIdentity
  <2>4. ASSUME NEW h \in Hosts, MapScope(h)  PROVE LogStep
    <3>1. identity[h] + 1 \in Event
      BY <1>0, <2>4, ExportAssumption DEF MapScope, TypeOK, ExportTypeOK, Identities, Event
    <3> QED  BY <2>1, <2>4, <3>1 DEF MapScope
  <2>5. ASSUME NEW p \in Exporters, NEW a \in Call, Register(p, a)  PROVE LogStep
    BY <2>0, <2>5, RegisterStarts
  <2>6. ASSUME NEW p \in Exporters, Commit(p)  PROVE LogStep
    BY <2>0, <2>6, CommitShips
  <2>7. ASSUME NEW p \in Exporters,
               Begin(p) \/ Refuse(p) \/ Publish(p) \/ Recover(p) \/ RejectExisting(p)
               \/ Verify(p) \/ VerifyFails(p) \/ Stop(p)
        PROVE  LogStep
    <3>1. UNCHANGED <<changes, consumers>>
      BY <2>7 DEF Begin, Refuse, Publish, Recover, RejectExisting, Verify, VerifyFails, Stop
    <3> QED  BY <2>0, <3>1, Stutters
  <2> QED  BY <1>2, <2>2, <2>3, <2>4, <2>5, <2>6, <2>7 DEF ExportNext, ExportStep
<1>3. CASE DeliveryNext /\ UNCHANGED importVars
  <2>1. ASSUME NEW q \in Confirmers, Acknowledge(q)  PROVE LogStep
    BY <1>3, <2>1, AcknowledgeProves
  <2>2. UNCHANGED <<changes, consumers, checkpoints, applied>>
        \/ \E q \in Confirmers : Acknowledge(q)
    BY <1>3 DEF DeliveryNext, Upload, Lose, Fetch, Decline, ConfirmStops
  <2> QED  BY <2>1, <2>2, Stutters
<1>4. CASE ImportNext /\ UNCHANGED deliveryVars
  <2>1. PICK r \in Receivers, f \in files : Import(r, f.archive)
    BY <1>4 DEF ImportNext
  <2>2. IsArchive(f.archive)
    BY <1>0 DEF TypeOK, ExportTypeOK
  <2>3. UNCHANGED <<consumers, checkpoints, changes, alive>>
    BY <1>4, <2>1 DEF Import
  <2> QED  BY <2>1, <2>2, <2>3, ImportReceives
<1>5. CASE \E g, h \in Hosts : Clone(g, h)
  BY <1>5, CloneForks
<1> QED  BY <1>1, <1>2, <1>3, <1>4, <1>5 DEF Next

\* End to end, with all its files, transactions, crashes, lost uploads and
\* copies, the changefeed does what ChangefeedLog promises: logs only grow,
\* cursors and checkpoints only move forward, the second never past the first,
\* and a receiver follows the log of one host.
THEOREM ChangefeedImplementsLog == SafeSpec => ImplementsLog
<1>1. Init => Log!Init
  BY DEF Init, ExportInit, DeliveryInit, ImportInit, Log!Init, SequenceOf, DurableOf
<1>2. FullInv /\ FullInv' /\ [Next]_vars => [Log!Next]_(Log!vars)
  BY RefinementStep DEF LogStep
<1> QED  BY <1>1, <1>2, FullInvariance, PTL DEF SafeSpec, ImplementsLog, Log!Spec

=============================================================================
