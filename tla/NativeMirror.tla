---------------------------- MODULE NativeMirror ----------------------------
(***************************************************************************)
(* The native mirror (adapters/native_mirror.py): the rows of one source   *)
(* as they were at one point, the rows that changed since the point before *)
(* it, and whether the canonical cache has acknowledged the point.         *)
(*                                                                         *)
(* A row of the model is what the adapters extract at once: a logical      *)
(* message with its files, or a header (a chat, an identity, a member). A  *)
(* point has one number, its token; its parent is the token it followed.   *)
(***************************************************************************)
EXTENDS Naturals, FiniteSets

CONSTANTS
  Rows,       \* rows a source may have
  Headers,    \* those among them that are headers
  Values,     \* what a row may hold
  Absent,     \* a row that is not there
  InitialSources,  \* contents of the source before the first point
  Policies    \* extraction policies: code, decoder, configuration

ASSUME MirrorAssumption == Headers \subseteq Rows /\ Absent \notin Values /\ Policies # {}
                           /\ InitialSources \subseteq [Rows -> Values \cup {Absent}]

VARIABLES
  source,     \* the source's tables
  mirror,     \* the mirror file
  cuts,       \* token -> rows and policy of that point (history)
  policy      \* the policy of the installed code

mirrorVars == <<source, mirror, cuts, policy>>

Contents == [Rows -> Values \cup {Absent}]
Present(rows) == {r \in Rows : rows[r] # Absent}

None == 0   \* no token

EmptyMirror ==
  [status |-> "empty", token |-> None, parent |-> None, rows |-> [r \in Rows |-> Absent],
   changed |-> {}, old |-> {}, policy |-> None, baseline |-> FALSE, rebase |-> FALSE,
   keyed |-> FALSE, ancestors |-> {}]

Tokens == DOMAIN cuts
Fresh == Cardinality(Tokens) + 1

\* The rows that differ from the retained ones, with their old values: what reconcile finds
\* comparing two images, and prepare in the pages the WAL says have changed.
ChangedRows == {r \in Rows : mirror.rows[r] # source[r]}

\* can_reconcile, and the same conditions in prepare: the retained rows are comparable.
Comparable == mirror.status = "acknowledged" /\ mirror.policy = policy /\ ~mirror.rebase

\* _publish: the point of token Fresh replaces the acknowledged one, in one transaction.
\* keyed: whether the headers it changed can be told one by one, a function of the point.
Publish(base, keyed) ==
  LET changed == IF base THEN {} ELSE ChangedRows IN
  /\ mirror' = [status |-> "prepared", token |-> Fresh, parent |-> mirror.token,
                rows |-> source, changed |-> changed, old |-> changed \cap Present(mirror.rows),
                policy |-> policy, baseline |-> base, rebase |-> FALSE, keyed |-> keyed,
                ancestors |-> {}]
  /\ cuts' = [t \in Tokens \cup {Fresh} |->
                IF t = Fresh THEN [rows |-> source, policy |-> policy] ELSE cuts[t]]
  /\ UNCHANGED <<source, policy>>
\* Mutant: a pending point is replaced.
MutBaseline == Publish(TRUE, FALSE)

\* initialize and rebase: the whole source, with nothing to compare it to.
Baseline ==
  /\ mirror.status \in {"empty", "acknowledged"}
  /\ Publish(TRUE, FALSE)

\* prepare follows the WAL from the acknowledged point; reconcile, when the WAL has lost
\* it, compares a whole image.
Delta(keyed) == Comparable /\ Publish(FALSE, keyed)

\* recover_pending_policy: the retained rows under the new policy, as a full capture.
RecoverPendingPolicy ==
  /\ mirror.status = "prepared" /\ mirror.policy # policy
  /\ mirror' = [mirror EXCEPT !.token = Fresh, !.policy = policy, !.baseline = TRUE,
                              !.rebase = TRUE, !.ancestors = @ \cup {mirror.token}]
  /\ cuts' = [t \in Tokens \cup {Fresh} |->
                IF t = Fresh THEN [rows |-> mirror.rows, policy |-> policy] ELSE cuts[t]]
  /\ UNCHANGED <<source, policy>>

\* acknowledge; repeating it changes nothing.
MarkAcknowledged(token) ==
  /\ mirror.token = token /\ mirror.status # "empty"
  /\ mirror' = [mirror EXCEPT !.status = "acknowledged"]
  /\ UNCHANGED <<source, cuts, policy>>

\* The application writes its database; files of a message count as its content.
SourceEdit(r, v) ==
  /\ source[r] # v
  /\ source' = [source EXCEPT ![r] = v]
  /\ UNCHANGED <<mirror, cuts, policy>>

\* Another version of the code, the decoder or the configuration is installed.
Upgrade(p) ==
  /\ p # policy
  /\ policy' = p
  /\ UNCHANGED <<source, mirror, cuts>>

MirrorInit ==
  /\ source \in InitialSources
  /\ mirror = EmptyMirror
  /\ cuts = <<>>
  /\ policy = CHOOSE p \in Policies : TRUE
=============================================================================
