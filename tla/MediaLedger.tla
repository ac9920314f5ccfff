---------------------------- MODULE MediaLedger ----------------------------
(***************************************************************************)
(* Media files of a source between captures (adapters/media_ledger.py).  A *)
(* file is hashed again only if its fingerprint moved since the last       *)
(* capture, or was too young then to prove anything; the observation, its  *)
(* fingerprint and the point commit together.  The clock of the file       *)
(* system is coarse, and files are written, replaced and removed while     *)
(* they are read (adapters/media_capture.py).                              *)
(***************************************************************************)
EXTENDS Naturals, FiniteSets, TLC

CONSTANTS MediaFiles,   \* files
          MediaRows,    \* native rows that name one
          Grain,        \* ticks a file time is rounded to
          Window,       \* RACY_WINDOW_NS, in ticks
          MaxTick,      \* the clock
          MaxBody,      \* contents ever written
          NoFile        \* a row that names no file, a file that is not there, no ledger row

ASSUME MediaLedgerAssumption ==
  /\ Grain \in Nat \ {0} /\ Window \in Nat /\ Grain <= Window + 1 /\ MaxTick \in Nat /\ MaxBody \in Nat
  /\ NoFile \notin Nat \cup [inode : Nat, body : Nat, time : Nat] \cup [inode : Nat, time : Nat]
  /\ NoFile \notin [file : MediaFiles, print : [inode : Nat, time : Nat] \cup {NoFile}, racy : BOOLEAN]

VARIABLES disk,      \* file -> inode, body and time, or NoFile
          clock,
          bodies,    \* contents written so far
          names,     \* row -> the file it names at the captured point
          evidence,  \* row -> the body retained for it, or NoFile
          ledger,    \* row -> file, fingerprint and whether it was too young
          bound,     \* ledger and evidence are of the mirror's point
          blobs,     \* bodies kept in the data directory
          take,      \* the capture under way
          fleeting   \* history: rows whose file came to be while they were captured

ledgerVars == <<disk, clock, bodies, names, evidence, ledger, bound, blobs, take, fleeting>>

Torn == 0            \* bytes of two versions
Resting == [at |-> "resting"]

(* The file system (external) **********************************************)
FileTime == clock - (clock % Grain)

LedgerInit ==
  /\ disk \in [MediaFiles -> {[inode |-> 0, body |-> 1, time |-> 0], NoFile}]
  /\ clock = 0 /\ bodies = 1
  /\ names = [r \in MediaRows |-> NoFile] /\ evidence = names /\ ledger = names
  /\ bound = FALSE /\ blobs = {} /\ take = Resting /\ fleeting = {}

Tick == clock < MaxTick /\ clock' = clock + 1 /\ UNCHANGED <<disk, bodies, take>>

\* In place, by a rename of another file over it, or by its removal.
ChangeFile(f) ==
  /\ bodies < MaxBody /\ bodies' = bodies + 1
  /\ \/ /\ disk[f] # NoFile
        /\ disk' = [disk EXCEPT ![f] = [@ EXCEPT !.body = bodies + 1, !.time = FileTime]]
     \/ disk' = [disk EXCEPT ![f] = [inode |-> bodies + 1, body |-> bodies + 1, time |-> FileTime]]
     \/ disk[f] # NoFile /\ disk' = [disk EXCEPT ![f] = NoFile]
  /\ take' = IF take.at \in {"hashing", "reading"} /\ disk[f] = NoFile
             THEN [take EXCEPT !.came = @ \cup {f}] ELSE take
  /\ UNCHANGED clock

(* media_ledger.py *********************************************************)
\* What lstat tells: not the body.
Fingerprint(f) == IF disk[f] = NoFile THEN NoFile ELSE [inode |-> disk[f].inode, time |-> disk[f].time]

MutRecent(print, started) == print # NoFile /\ print.time >= started   \* no window

\* Too close to the scan to prove that the file was not written after it.
Recent(print, started) == print # NoFile /\ print.time + Window >= started

Clean(r, f, print) ==
  /\ ledger[r] # NoFile
  /\ ledger[r].file = f /\ ledger[r].print = print /\ ~ledger[r].racy

BeginScan ==
  /\ take = Resting
  /\ \E after \in [MediaRows -> MediaFiles \cup {NoFile}], asked \in BOOLEAN :
       take' = [at |-> "begun", started |-> clock, names |-> after, full |-> asked \/ ~bound]
  /\ UNCHANGED <<names, evidence, ledger, bound, blobs, fleeting>>

NamedRows(t) == {r \in MediaRows : t.names[r] # NoFile}

\* Every file is looked at; rows that moved natively are captured in any case.
ScanFiles ==
  /\ take.at = "begun"
  /\ LET seen == [r \in NamedRows(take) |-> Fingerprint(take.names[r])]
         stale == IF take.full THEN MediaRows
                  ELSE {r \in NamedRows(take) : ~Clean(r, take.names[r], seen[r])}
                       \cup {r \in MediaRows : take.names[r] # names[r]}
     IN take' = [at |-> "hashing", started |-> take.started, names |-> take.names, full |-> take.full,
                 seen |-> seen, dirty |-> stale, left |-> stale, evidence |-> evidence, again |-> FALSE,
                 came |-> {}, row |-> NoFile, opened |-> NoFile]
  /\ UNCHANGED <<names, evidence, ledger, bound, blobs, fleeting>>

(* media_capture.py ********************************************************)
Observed(r, body) ==
  [take EXCEPT !.at = "hashing", !.left = @ \ {r}, !.evidence[r] = body, !.row = NoFile, !.opened = NoFile]

StopScan == take' = Resting /\ UNCHANGED blobs

\* A row without a file, or whose file is gone, is evidence too.
Absent(r) ==
  /\ take.at = "hashing" /\ r \in take.left
  /\ IF r \in NamedRows(take) THEN disk[take.names[r]] = NoFile ELSE TRUE
  /\ take' = Observed(r, NoFile)
  /\ UNCHANGED <<names, evidence, ledger, bound, blobs, fleeting>>

OpenMedia(r) ==
  /\ take.at = "hashing" /\ r \in take.left \cap NamedRows(take) /\ disk[take.names[r]] # NoFile
  /\ take' = [take EXCEPT !.at = "reading", !.row = r, !.opened = disk[take.names[r]]]
  /\ UNCHANGED <<names, evidence, ledger, bound, blobs, fleeting>>

\* What was read is kept if the file looks the same after it as before.
PublishBlob ==
  /\ take.at = "reading"
  /\ LET now == disk[take.names[take.row]]
         same == now # NoFile /\ now.inode = take.opened.inode /\ now.time = take.opened.time
         read == IF same /\ now.body # take.opened.body THEN {take.opened.body, now.body, Torn} ELSE {take.opened.body}
     IN IF ~same THEN StopScan
        ELSE \E body \in read :
               /\ take' = Observed(take.row, body)
               /\ blobs' = blobs \cup {body}
  /\ UNCHANGED <<names, evidence, ledger, bound, fleeting>>

\* prepare, its end: a file that moved meanwhile is captured once more, or the capture fails.
VerifyBlobs ==
  /\ take.at = "hashing" /\ take.left = {}
  /\ LET captured == IF take.full THEN NamedRows(take) ELSE take.dirty \cap NamedRows(take)
         moved == {r \in captured : Fingerprint(take.names[r]) # take.seen[r]}
         entry == [r \in captured |-> [file |-> take.names[r], print |-> take.seen[r],
                                       racy |-> Recent(take.seen[r], take.started)]]
     IN IF moved = {}
        THEN /\ ledger' = [r \in MediaRows |-> IF r \in captured THEN entry[r]
                                               ELSE IF r \in NamedRows(take) THEN ledger[r] ELSE NoFile]
             /\ names' = take.names /\ evidence' = take.evidence /\ bound' = TRUE /\ take' = Resting
             /\ fleeting' = (fleeting \ captured) \cup {r \in captured : take.names[r] \in take.came}
        ELSE /\ take' = IF take.again THEN Resting
                        ELSE [take EXCEPT !.again = TRUE, !.left = take.dirty, !.evidence = evidence,
                                          !.seen = [r \in NamedRows(take) |-> IF r \in moved THEN Fingerprint(take.names[r]) ELSE @[r]]]
             /\ UNCHANGED <<ledger, names, evidence, bound, fleeting>>
  /\ UNCHANGED blobs

\* The transaction is rolled back by an error or a death: bytes stay, nothing names them.
Abandon == take # Resting /\ StopScan /\ UNCHANGED <<names, evidence, ledger, bound, fleeting>>

\* The mirror comes to a point the ledger does not know.
Unbind == take = Resting /\ bound /\ bound' = FALSE /\ UNCHANGED <<names, evidence, ledger, blobs, take, fleeting>>

LedgerNext ==
  \/ (Tick \/ \E f \in MediaFiles : ChangeFile(f)) /\ UNCHANGED <<names, evidence, ledger, bound, blobs, fleeting>>
  \/ /\ \/ BeginScan \/ ScanFiles \/ PublishBlob \/ VerifyBlobs \/ Abandon \/ Unbind
        \/ \E r \in MediaRows : Absent(r) \/ OpenMedia(r)
     /\ UNCHANGED <<disk, clock, bodies>>

LedgerSpec == LedgerInit /\ [][LedgerNext]_ledgerVars

(* Properties **************************************************************)
\* What the next capture would not look at again is what the file holds now: a write the
\* fingerprint cannot show, in the same tick or while the bytes were read, never goes
\* unnoticed (media_ledger.py, prepare); and what evidence names is kept. A file that was
\* missing before and after the capture, and came to be in between, may leave its body as
\* evidence: a missing file has no fingerprint that would tell.
LedgerSound ==
  /\ bound => \A r \in MediaRows :
       names[r] # NoFile /\ Clean(r, names[r], Fingerprint(names[r])) =>
         IF disk[names[r]] = NoFile THEN evidence[r] = NoFile \/ r \in fleeting
         ELSE evidence[r] = disk[names[r]].body
  /\ \A r \in MediaRows : evidence[r] \in blobs \cup {NoFile}
=============================================================================
