------------------------------ MODULE Delivery ------------------------------
(***************************************************************************)
(* Delivery checkpoints (archive/delivery.py): `archive pending` lists the *)
(* committed batches a destination still needs, an uploader copies them    *)
(* there, and `archive confirm-delivery` fetches receipt and ciphertext    *)
(* over HTTPS, outside any transaction, before it records a proof and      *)
(* advances the destination's checkpoint.                                  *)
(*                                                                         *)
(* The uploader and the destination are external: remote[d] is the set of  *)
(* archives of which d serves the exact receipt and the exact bytes. A     *)
(* fetch that gets anything else raises and changes nothing.               *)
(***************************************************************************)
EXTENDS ExportChanges

CONSTANTS
  Destinations,
  Confirmers    \* processes running `archive confirm-delivery`

VARIABLES
  remote,       \* what each destination serves
  checkpoints,  \* table delivery_checkpoints
  proofs,       \* table delivery_proofs, by destination and export id
  proving       \* the fetched and compared export of each confirmer

deliveryVars == <<remote, checkpoints, proofs, proving>>

Checkpoint == [sequence : Nat, id : Nat]

\* None, the checkpoint of a stream nothing of which is proved yet, is no checkpoint.
ASSUME DeliveryAssumption == None \notin Checkpoint

Proving(h, d, e) == [host |-> h, destination |-> d, archive |-> e]

\* delivery.pending: committed batches of the stream past the checkpoint.
Through(h, d, s) == IF checkpoints[h][d][s] = None THEN 0 ELSE checkpoints[h][d][s].sequence
Pending(h, c, d) ==
  IF consumers[h][c] = None THEN {}
  ELSE LET s == consumers[h][c].stream
       IN  {e \in exports[h] : e.stream = s /\ e.through > Through(h, d, s)}

\* External: an uploader copies a pending batch; a destination loses one.
Upload(h, c, d) ==
  /\ h \in alive
  /\ \E e \in Pending(h, c, d) \ remote[d] : remote' = [remote EXCEPT ![d] = @ \cup {e}]
  /\ UNCHANGED <<checkpoints, proofs, proving, exportVars>>

Lose(d, e) ==
  /\ failures < MaxFailures
  /\ e \in remote[d]
  /\ remote' = [remote EXCEPT ![d] = @ \ {e}]
  /\ failures' = failures + 1
  /\ UNCHANGED <<checkpoints, proofs, proving, alive, changes, identity, captured,
                 consumers, exports, files, pc, call, batch, minted>>

----------------------------------------------------------------------------
\* Read the local receipt, fetch both objects and compare them.
Fetch(q, h, d, e) ==
  /\ proving[q] = None
  /\ h \in alive
  /\ e \in exports[h] \cap remote[d]
  /\ proving' = [proving EXCEPT ![q] = Proving(h, d, e)]
  /\ UNCHANGED <<remote, checkpoints, proofs, exportVars>>

Proved(h, d, e) == <<d, e.id>> \in proofs[h]

\* The batch continues the checkpoint of its stream at this destination.
MutContinues(h, d, e) == e.through > Through(h, d, e.stream)
Continues(h, d, e) ==
  LET k == checkpoints[h][d][e.stream] IN
  IF k = None THEN e.after = 0 ELSE k.sequence = e.after /\ k.id = e.parent

\* The transaction of confirm: proof and checkpoint, or nothing.
MutCheckpointOf(e) == [sequence |-> e.after, id |-> e.id]
CheckpointOf(e) == [sequence |-> e.through, id |-> e.id]

Acknowledge(q) ==
  LET h == proving[q].host d == proving[q].destination e == proving[q].archive IN
  /\ proving[q] # None
  /\ Free(h)
  /\ ~ Proved(h, d, e) /\ Continues(h, d, e)
  /\ proofs' = [proofs EXCEPT ![h] = @ \cup {<<d, e.id>>}]
  /\ checkpoints' = [checkpoints EXCEPT ![h][d][e.stream] = CheckpointOf(e)]
  /\ proving' = [proving EXCEPT ![q] = None]
  /\ UNCHANGED <<remote, exportVars>>

\* Already proved, or a batch whose predecessors are not: no change.
Decline(q) ==
  LET h == proving[q].host d == proving[q].destination e == proving[q].archive IN
  /\ proving[q] # None
  /\ Free(h)
  /\ Proved(h, d, e) \/ ~ Continues(h, d, e)
  /\ proving' = [proving EXCEPT ![q] = None]
  /\ UNCHANGED <<remote, checkpoints, proofs, exportVars>>

\* A confirmer dies, or times out on the writer lock, before it commits.
ConfirmStops(q) ==
  /\ proving[q] # None /\ failures < MaxFailures
  /\ proving' = [proving EXCEPT ![q] = None]
  /\ failures' = failures + 1
  /\ UNCHANGED <<remote, checkpoints, proofs, alive, changes, identity, captured,
                 consumers, exports, files, pc, call, batch, minted>>

CloneDelivery(g, h) ==
  /\ checkpoints' = [checkpoints EXCEPT ![h] = checkpoints[g]]
  /\ proofs' = [proofs EXCEPT ![h] = proofs[g]]
  /\ UNCHANGED <<remote, proving>>

----------------------------------------------------------------------------
DeliveryInit ==
  /\ remote = [d \in Destinations |-> {}]
  /\ checkpoints = [h \in Hosts |-> [d \in Destinations |-> [s \in Streams |-> None]]]
  /\ proofs = [h \in Hosts |-> {}]
  /\ proving = [q \in Confirmers |-> None]

DeliveryNext ==
  \/ \E h \in Hosts, c \in Consumers, d \in Destinations : Upload(h, c, d)
  \/ \E d \in Destinations : \E e \in remote[d] : Lose(d, e)
  \/ \E q \in Confirmers, h \in Hosts, d \in Destinations :
       \E e \in exports[h] : Fetch(q, h, d, e)
  \/ \E q \in Confirmers : Acknowledge(q) \/ Decline(q) \/ ConfirmStops(q)

\* An uploader and a confirmer work through what `archive pending` lists, and
\* retry; SQLite's busy handler lets a waiting confirmer write in the end.
DeliveryFairness ==
  /\ \A h \in Hosts, c \in Consumers, d \in Destinations :
       /\ WF_<<deliveryVars, exportVars>>(Upload(h, c, d))
       /\ SF_<<deliveryVars, exportVars>>(\E q \in Confirmers : \E e \in Pending(h, c, d) :
                 Continues(h, d, e) /\ Fetch(q, h, d, e))
  /\ \A q \in Confirmers : SF_<<deliveryVars, exportVars>>(Acknowledge(q)) /\ WF_<<deliveryVars, exportVars>>(Decline(q))

DeliveryTypeOK ==
  /\ DOMAIN remote = Destinations
  /\ \A d \in Destinations : \A e \in remote[d] : IsArchive(e)
  /\ checkpoints \in [Hosts -> [Destinations -> [Streams -> Checkpoint \cup {None}]]]
  /\ proofs \in [Hosts -> SUBSET (Destinations \X Nat)]
  /\ DOMAIN proving = Confirmers
  /\ \A q \in Confirmers : proving[q] # None =>
       /\ proving[q] = Proving(proving[q].host, proving[q].destination, proving[q].archive)
       /\ proving[q].host \in Hosts /\ proving[q].destination \in Destinations
       /\ IsArchive(proving[q].archive)

=============================================================================
