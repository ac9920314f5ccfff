--------------------------- MODULE MonitoredSync ---------------------------
(***************************************************************************)
(* A sync that stays in memory (sync_session.py) and watches its source    *)
(* (adapters/monitor.py): when nothing moved since the last capture, the   *)
(* next sync stands on that capture instead of reading again.  Vnode       *)
(* events reach the file that was open when its watch was set, and the     *)
(* directory for a file that was missing; a database answers by its data   *)
(* version.  The source and other writers of the cache act at every step.  *)
(***************************************************************************)
EXTENDS Naturals, Sequences, FiniteSets

CONSTANTS Databases,   \* databases of the source
          Media,       \* files its rows refer to
          Late,        \* the paths that are missing at first
          MaxMoves,    \* what the source and other writers do
          MaxSyncs     \* syncs of the session

ASSUME MonitoredSyncAssumption ==
  /\ Late \subseteq Databases \cup Media /\ MaxMoves \in Nat /\ MaxSyncs \in Nat
  /\ IsFiniteSet(Databases) /\ IsFiniteSet(Media) /\ Databases \cap Media = {}
  /\ "directory" \notin Databases \cup Media

VARIABLES world,    \* path -> inode and content, or Missing
          moves,    \* moves made
          syncs,    \* syncs begun
          rows,     \* path -> the content the cache records of it
          epoch,    \* the projection epoch of the cache
          monitor,  \* the source monitor
          session,  \* summary, epoch, before and eligible of the session
          job       \* the sync under way

monitoredVars == <<world, moves, syncs, rows, epoch, monitor, session, job>>

\* Numbers that are neither inodes nor contents.
NoWatch == MaxMoves + 2
NotRead == MaxMoves + 2
Others  == MaxMoves + 3    \* what another writer made of a row

Watched == Databases \cup Media
Missing == [inode |-> 0, content |-> 0]
NoToken == <<>>
NoSummary == 0

(* The file system and the source (external) *******************************)
Exists(p) == world[p] # Missing

\* An event of a file reaches the descriptor of that very file; a new name reaches the directory.
Notify(p, kind) == IF monitor.armed[p] = world[p].inode THEN {<<p, kind>>} ELSE {}
Renamed == IF \E q \in Watched : monitor.armed[q] = 0 THEN {<<"directory", "write">>} ELSE {}

Move == moves < MaxMoves /\ moves' = moves + 1

\* A commit, or a write in place.
Alter(p) ==
  /\ Move /\ Exists(p)
  /\ world' = [world EXCEPT ![p].content = moves + 2]
  /\ monitor' = IF p \in Databases THEN monitor ELSE [monitor EXCEPT !.pending = @ \cup Notify(p, "write")]
  /\ UNCHANGED <<syncs, rows, epoch, session, job>>

Arrive(p) ==
  /\ Move /\ ~Exists(p)
  /\ world' = [world EXCEPT ![p] = [inode |-> moves + 2, content |-> moves + 2]]
  /\ monitor' = [monitor EXCEPT !.pending = @ \cup Renamed]
  /\ UNCHANGED <<syncs, rows, epoch, session, job>>

\* Another file is renamed over this one, or it is removed.
Displace(p) ==
  /\ Move /\ Exists(p)
  /\ \E new \in {Missing, [inode |-> moves + 2, content |-> moves + 2]} :
       world' = [world EXCEPT ![p] = new]
  /\ monitor' = [monitor EXCEPT !.pending = @ \cup Notify(p, "gone") \cup Renamed]
  /\ UNCHANGED <<syncs, rows, epoch, session, job>>

(* SourceMonitor ***********************************************************)
NewMonitor ==
  [armed |-> [p \in Watched |-> NoWatch],   \* the inode watched, 0 for a missing file
   requests |-> {}, pending |-> {}, rearm |-> {}, connected |-> {},
   generation |-> 0, accepted |-> NoToken, failed |-> FALSE]

Faulted(m) == [m EXCEPT !.failed = TRUE, !.accepted = NoToken]

\* watch, of each path of S: a new request, a new file and a vanished one advance the
\* generation. A monitor that failed is not used again.
Watch(m, S) ==
  LET moved == {p \in S : m.armed[p] # world[p].inode}
  IN IF m.connected \cap moved # {} THEN Faulted(m)
     ELSE [m EXCEPT !.requests = @ \cup S,
                    !.armed = [p \in Watched |-> IF p \in S THEN world[p].inode ELSE m.armed[p]],
                    !.pending = @ \ (moved \X {"write", "gone"}),
                    !.generation = @ + Cardinality(S \ m.requests) + Cardinality(moved),
                    !.rearm = @ \ S]

\* database, of each path of S, which are there: their data versions count from here on.
Connect(m, S) ==
  LET w == Watch(m, S)
  IN IF w.failed THEN w
     ELSE [w EXCEPT !.connected = @ \cup S, !.generation = @ + Cardinality(S \ m.connected)]

\* What token drains: every event counts, and a replaced file must be watched again.
Drained(m) ==
  LET gone == {p \in Watched : <<p, "gone">> \in m.pending}
      born == IF <<"directory", "write">> \in m.pending THEN {p \in Watched : m.armed[p] = 0} ELSE {}
  IN IF m.failed THEN m
     ELSE IF gone \cap m.connected # {} THEN Faulted(m)
     ELSE [m EXCEPT !.pending = {}, !.rearm = @ \cup gone \cup born,
                    !.generation = IF m.pending = {} THEN @ ELSE @ + 1]

Token(m) ==
  IF m.failed THEN NoToken ELSE <<m.generation, [p \in m.connected |-> world[p].content]>>

\* dirty_paths: poll, watch again what moved, poll again.
Rearmed(m) ==
  LET polled == Drained(m)
  IN IF polled.failed THEN polled ELSE Drained(Watch(polled, polled.rearm))

\* accept_capture: nothing moved since the token, and every watch stands.
Accepts(m, before) ==
  before # NoToken /\ Token(Drained(m)) = before /\ Drained(m).rearm = {}

MutUnmoved(m) == m.accepted # NoToken /\ Token(m) = m.accepted   \* no event is fetched

Unmoved(m) == m.accepted # NoToken /\ Token(Drained(m)) = m.accepted

(* SyncSession *************************************************************)
Idle == [at |-> "idle"]
NoSession == [summary |-> NoSummary, epoch |-> 0, before |-> NoToken, eligible |-> FALSE]

Present(S) == {p \in S : Exists(p)}

MonitoredInit ==
  /\ world = [p \in Watched |-> IF p \in Late THEN Missing ELSE [inode |-> 1, content |-> 1]]
  /\ moves = 0 /\ syncs = 0 /\ epoch = 1
  /\ rows = [p \in Watched |-> NotRead]
  /\ monitor = NewMonitor /\ session = NoSession /\ job = Idle

\* prepare: a monitor that failed is closed with all it knew.
Prepare ==
  /\ job = Idle /\ syncs < MaxSyncs /\ syncs' = syncs + 1
  /\ LET kept == IF monitor.failed THEN NewMonitor ELSE monitor
     IN monitor' = Connect(Watch(kept, Databases), Present(Databases))
  /\ session' = IF monitor.failed THEN NoSession ELSE session
  /\ job' = [at |-> "prepared"]
  /\ UNCHANGED <<rows, epoch>>

\* reuse: inside the writer transaction, so no other writer comes between.
CanReuse == session.summary # NoSummary /\ epoch = session.epoch /\ Unmoved(monitor)

Reuse ==
  /\ job.at = "prepared" /\ CanReuse
  /\ monitor' = Drained(monitor) /\ job' = Idle
  /\ UNCHANGED <<rows, epoch, session>>

\* begin: watch again what moved, connect what has come to be, then take the token.
Rearm ==
  /\ job.at = "prepared" /\ ~CanReuse
  /\ monitor' = Connect(Rearmed(Drained(monitor)), Present(Databases))
  /\ session' = [session EXCEPT !.summary = NoSummary]
  /\ job' = [at |-> "rearmed"]
  /\ UNCHANGED <<rows, epoch>>

BeginRun ==
  /\ job.at = "rearmed"
  /\ monitor' = Drained(monitor)
  /\ LET token == Token(Drained(monitor))
     IN session' = [session EXCEPT !.epoch = epoch, !.before = token, !.eligible = token # NoToken]
  /\ job' = [at |-> "reading", left |-> Watched]
  /\ UNCHANGED <<rows, epoch>>

\* A media file is watched before it is hashed.
WatchMedia(p) ==
  /\ job.at = "reading" /\ p \in job.left \cap Media
  /\ monitor' = IF monitor.failed THEN monitor ELSE Watch(monitor, {p})
  /\ job' = [at |-> "hashing", left |-> job.left, path |-> p]
  /\ UNCHANGED <<rows, epoch, session>>

Read(p) ==
  /\ \/ job.at = "reading" /\ p \in job.left \cap Databases
     \/ job.at = "hashing" /\ p = job.path
  /\ job' = [at |-> "writing", left |-> job.left, path |-> p, content |-> world[p].content]
  /\ UNCHANGED <<rows, epoch, monitor, session>>

\* writing: another writer since the last flush spoils the capture as a whole.
Flush ==
  /\ job.at = "writing"
  /\ rows' = [rows EXCEPT ![job.path] = job.content]
  /\ epoch' = epoch + 1
  /\ session' = [session EXCEPT !.eligible = @ /\ epoch = session.epoch, !.epoch = epoch + 1]
  /\ job' = [at |-> "reading", left |-> job.left \ {job.path}]
  /\ UNCHANGED monitor

\* A complete run is finished; a partial or failed one just stops.
Finish ==
  /\ job.at = "reading" /\ job.left = {} /\ job' = Idle
  /\ IF ~session.eligible THEN UNCHANGED <<monitor, session>>
     ELSE /\ monitor' = [Drained(monitor) EXCEPT !.accepted =
                           IF Accepts(monitor, session.before) THEN session.before ELSE NoToken]
          /\ session' = [session EXCEPT !.summary =
                           IF Accepts(monitor, session.before) /\ epoch = session.epoch THEN 1 ELSE @]
  /\ UNCHANGED <<rows, epoch>>

Fail == job # Idle /\ job' = Idle /\ UNCHANGED <<rows, epoch, monitor, session>>

\* Another writer of the cache, changing what a row says.
OtherWriter(p) ==
  /\ Move
  /\ rows' = [rows EXCEPT ![p] = Others] /\ epoch' = epoch + 1
  /\ UNCHANGED <<world, syncs, monitor, session, job>>

MonitoredNext ==
  \/ \E p \in Watched : Alter(p) \/ Arrive(p) \/ Displace(p) \/ OtherWriter(p)
  \/ Prepare /\ UNCHANGED <<world, moves>>
  \/ /\ \/ Reuse \/ Rearm \/ BeginRun \/ Flush \/ Finish \/ Fail
        \/ \E p \in Watched : WatchMedia(p) \/ Read(p)
     /\ UNCHANGED <<world, moves, syncs>>

MonitoredSpec == MonitoredInit /\ [][MonitoredNext]_monitoredVars

(* Properties **************************************************************)
\* A sync that reuses a capture stands on the source as it is and on rows as the capture
\* wrote them: every file and database still has the content the cache records of it,
\* however it was written, replaced, removed or created meanwhile (sync_session.py, reuse).
ReuseSound ==
  job.at = "prepared" /\ CanReuse => \A p \in Watched : rows[p] = world[p].content
=============================================================================
