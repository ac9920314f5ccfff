---------------------------- MODULE SourceProofs ----------------------------
(***************************************************************************)
(* Three things about the source, for every value of the constants.        *)
(*                                                                         *)
(* A sync that reuses a capture stands on the source as it is, for every   *)
(* set of databases and media, however often they change.  The invariant:  *)
(* a watch that no longer points at the file of its path will be set       *)
(* again, because an event or a rearm of that path is outstanding; a token *)
(* is of the past, so that an operation that counts shows in it; and as    *)
(* long as a token still stands, what was read under it is what is there.  *)
(*                                                                         *)
(* A view of a database is one commit.  The invariant: the index of the    *)
(* log only grows or is begun anew, so that equal before and after the pin *)
(* is equal at the pin; and what was read so far names, for every page it  *)
(* writes after the cursor, the last frame that does.                      *)
(*                                                                         *)
(* The graph of a source's pages is that of the source again after every   *)
(* update, and no row that changed is missed.  The invariant: while an     *)
(* update walks, a page it visited, and a page it trusts unvisited, is     *)
(* what the source says it is, the rest is what the old graph said, and    *)
(* every page of the source is known or hangs under one that waits; so in  *)
(* the end, when nothing waits, what no root reaches is what hangs under a *)
(* page that lost its parent.                                              *)
(***************************************************************************)
EXTENDS MonitoredSync, SourceView, PageOwners, FiniteSetTheorems, WellFoundedInduction, TLAPS

(* The monitor **************************************************************)
Directory == <<"directory", "write">>
Events    == (Watched \cup {"directory"}) \X {"write", "gone"}
Versions  == UNION {[S -> Nat] : S \in SUBSET Databases}
Tokens    == {NoToken} \cup (Nat \X Versions)
Monitors  == [armed : [Watched -> Nat], requests : SUBSET Watched, pending : SUBSET Events,
              rearm : SUBSET Watched, connected : SUBSET Databases, generation : Nat,
              accepted : Tokens, failed : BOOLEAN]
Sessions  == [summary : {0, 1}, epoch : Nat, before : Tokens, eligible : BOOLEAN]
Running   == [at : {"reading"}, left : SUBSET Watched]
             \cup [at : {"hashing"}, left : SUBSET Watched, path : Watched]
             \cup [at : {"writing"}, left : SUBSET Watched, path : Watched, content : Nat]
Jobs      == {Idle} \cup [at : {"prepared", "rearmed"}] \cup Running

MonitorTyped ==
  /\ moves \in 0 .. MaxMoves /\ syncs \in Nat /\ epoch \in Nat
  /\ world \in [Watched -> [inode : 0 .. moves + 1, content : 0 .. moves + 1]]
  /\ \A p \in Watched : world[p].inode = 0 => world[p] = Missing
  /\ rows \in [Watched -> Nat]
  /\ monitor \in Monitors /\ session \in Sessions /\ job \in Jobs

\* What will be told of path p, whose file is not the one watched.
Told(m, p) ==
  p \in m.rearm \/ <<p, "gone">> \in m.pending \/ (m.armed[p] = 0 /\ Directory \in m.pending)

\* A watch stands, or it will be set again.
WatchesStand(m, w) ==
  /\ \A p \in m.requests : m.armed[p] # NoWatch
  /\ \A p \in Watched : m.armed[p] # NoWatch /\ m.armed[p] # w[p].inode => Told(m, p)
  /\ ~m.failed =>
       \A p \in m.connected :
         /\ m.armed[p] # 0 /\ m.armed[p] # NoWatch
         /\ m.armed[p] = w[p].inode \/ <<p, "gone">> \in m.pending

\* A database that is there is connected, or will be.
DatabasesKnown(m, w) ==
  ~m.failed /\ Databases \subseteq m.requests =>
    \A p \in Databases \ m.connected : w[p].inode # 0 => Told(m, p)

\* Nothing has moved since token t.
Stands(m, t, w) ==
  /\ t # NoToken /\ ~m.failed /\ m.pending = {}
  /\ t = <<m.generation, [p \in m.connected |-> w[p].content]>>

\* A token is of the past.
TokenOf(t, m, n) == t # NoToken => t[1] <= m.generation /\ \A p \in DOMAIN t[2] : t[2][p] <= n + 1

Active == job.at \in {"reading", "hashing", "writing"}

MonitorKept ==
  /\ WatchesStand(monitor, world) /\ DatabasesKnown(monitor, world)
  /\ TokenOf(monitor.accepted, monitor, moves) /\ TokenOf(session.before, monitor, moves)
  /\ monitor.failed \/ Databases \subseteq monitor.requests \/ (job = Idle /\ monitor.accepted = NoToken)

SessionKept ==
  /\ session.epoch <= epoch
  /\ job.at \in {"rearmed", "reading", "hashing", "writing"} => session.summary = NoSummary

\* What the run has read is watched.
ReadWatched ==
  Active /\ ~monitor.failed =>
    /\ \A p \in Watched \ job.left : monitor.armed[p] # NoWatch
    /\ job.at \in {"hashing", "writing"} => monitor.armed[job.path] # NoWatch

\* While nothing has moved since the token of the run, what it read is what is there.
RunSound ==
  Active /\ session.eligible /\ epoch = session.epoch /\ Stands(monitor, session.before, world) =>
    /\ \A p \in Watched \ job.left : p \notin monitor.rearm => rows[p] = world[p].content
    /\ job.at = "writing" /\ job.path \notin monitor.rearm => job.content = world[job.path].content

\* While nothing has moved since the token accepted, the rows are what is there.
SummarySound ==
  session.summary # NoSummary /\ epoch = session.epoch /\ Stands(monitor, monitor.accepted, world) =>
    /\ monitor.rearm = {}
    /\ \A p \in Watched : monitor.armed[p] # NoWatch /\ rows[p] = world[p].content

MonitorInv == MonitorTyped /\ MonitorKept /\ SessionKept /\ ReadWatched /\ RunSound /\ SummarySound

(* Operations of the monitor ************************************************)
LEMMA Counted ==
  ASSUME NEW S \in SUBSET Watched
  PROVE  Cardinality(S) \in Nat /\ (Cardinality(S) = 0 <=> S = {})
<1>1. IsFiniteSet(Watched)
  BY MonitoredSyncAssumption, FS_Union DEF Watched
<1>2. IsFiniteSet(S)
  BY <1>1, FS_Subset
<1> QED BY <1>2, FS_CardinalityType, FS_EmptySet

LEMMA PathFacts ==
  /\ Databases \subseteq Watched /\ Media \subseteq Watched /\ Watched = Databases \cup Media
  /\ \A p \in Watched : p # "directory"
  /\ \A p \in Watched : <<p, "gone">> # Directory /\ <<p, "write">> # Directory
  /\ NoWatch \in Nat /\ NoWatch # 0
BY MonitoredSyncAssumption DEF Watched, Directory, NoWatch

\* What an operation of the monitor may do to it.
Follows(m, n) ==
  /\ m.failed => n.failed
  /\ n.generation >= m.generation /\ n.accepted \in {m.accepted, NoToken}
  /\ ~n.failed => n.accepted = m.accepted
  /\ ~n.failed /\ n.generation = m.generation /\ n.pending = {} =>
       /\ m.pending = {} /\ n.armed = m.armed /\ n.connected = m.connected /\ n.rearm \subseteq m.rearm

LEMMA FollowsOn ==
  ASSUME NEW l \in Monitors, NEW m \in Monitors, NEW n \in Monitors, Follows(l, m), Follows(m, n)
  PROVE  Follows(l, n)
BY DEF Follows, Monitors

LEMMA FollowsItself ==
  ASSUME NEW m \in Monitors PROVE Follows(m, m)
BY DEF Follows, Monitors

LEMMA FaultedDoes ==
  ASSUME NEW m \in Monitors
  PROVE  /\ Faulted(m) \in Monitors /\ Faulted(m).failed /\ Follows(m, Faulted(m))
         /\ Faulted(m).requests = m.requests /\ Faulted(m).armed = m.armed
         /\ Faulted(m).pending = m.pending /\ Faulted(m).rearm = m.rearm
         /\ Faulted(m).generation = m.generation /\ Faulted(m).connected = m.connected
         /\ Faulted(m).accepted = NoToken
<1>1. Faulted(m) = [m EXCEPT !.failed = TRUE, !.accepted = NoToken]
  BY DEF Faulted
<1>2. NoToken \in Tokens
  BY DEF Tokens
<1>3. /\ Faulted(m) \in Monitors /\ Faulted(m).failed = TRUE
      /\ Faulted(m).requests = m.requests /\ Faulted(m).armed = m.armed
      /\ Faulted(m).pending = m.pending /\ Faulted(m).rearm = m.rearm
      /\ Faulted(m).generation = m.generation /\ Faulted(m).connected = m.connected
      /\ Faulted(m).accepted = NoToken
  BY <1>1, <1>2 DEF Monitors
<1> QED BY <1>3 DEF Follows, Monitors

LEMMA Inodes ==
  ASSUME MonitorTyped
  PROVE  \A p \in Watched : /\ world[p].inode \in Nat /\ world[p].content \in Nat
                            /\ world[p].inode <= moves + 1 /\ world[p].content <= moves + 1
                            /\ world[p].inode # NoWatch
                            /\ (world[p].inode = 0 <=> ~Exists(p))
<1>1. moves \in Nat /\ moves <= MaxMoves /\ MaxMoves \in Nat
  BY MonitoredSyncAssumption DEF MonitorTyped
<1>2. \A p \in Watched : world[p] \in [inode : 0 .. moves + 1, content : 0 .. moves + 1]
  BY DEF MonitorTyped
<1>3. \A p \in Watched : world[p].inode = 0 => world[p] = Missing
  BY DEF MonitorTyped
<1>4. Missing.inode = 0
  BY DEF Missing
<1> QED BY <1>1, <1>2, <1>3, <1>4 DEF Exists, NoWatch

Moved(m, S) == {p \in S : m.armed[p] # world[p].inode}

\* Watch, where it does not fail.
LEMMA WatchDoes ==
  ASSUME MonitorTyped, NEW m \in Monitors, NEW S \in SUBSET Watched, m.connected \cap Moved(m, S) = {}
  PROVE  /\ Watch(m, S) \in Monitors
         /\ Watch(m, S).requests = m.requests \cup S
         /\ Watch(m, S).armed = [p \in Watched |-> IF p \in S THEN world[p].inode ELSE m.armed[p]]
         /\ Watch(m, S).pending = m.pending \ (Moved(m, S) \X {"write", "gone"})
         /\ Watch(m, S).generation = m.generation + Cardinality(S \ m.requests) + Cardinality(Moved(m, S))
         /\ Watch(m, S).rearm = m.rearm \ S
         /\ Watch(m, S).connected = m.connected /\ Watch(m, S).accepted = m.accepted
         /\ Watch(m, S).failed = m.failed
<1> DEFINE displaced == Moved(m, S)
           armed == [p \in Watched |-> IF p \in S THEN world[p].inode ELSE m.armed[p]]
           news == m.generation + Cardinality(S \ m.requests) + Cardinality(displaced)
           pending == m.pending \ (displaced \X {"write", "gone"})
<1>1. Watch(m, S) = [m EXCEPT !.requests = @ \cup S, !.armed = armed, !.pending = pending,
                             !.generation = news, !.rearm = @ \ S]
  BY DEF Watch, Moved
<1>2. armed \in [Watched -> Nat]
  BY Inodes DEF Monitors
<1>3. news \in Nat
  <2>1. S \ m.requests \in SUBSET Watched /\ displaced \in SUBSET Watched /\ m.generation \in Nat
    BY DEF Moved, Monitors
  <2> HIDE DEF displaced
  <2> QED BY <2>1, Counted
<1>4. pending \in SUBSET Events /\ m.requests \cup S \in SUBSET Watched /\ m.rearm \ S \in SUBSET Watched
  BY DEF Monitors
<1> HIDE DEF displaced, armed, news, pending
<1>5. /\ Watch(m, S) \in Monitors /\ Watch(m, S).requests = m.requests \cup S
      /\ Watch(m, S).armed = armed /\ Watch(m, S).pending = pending
      /\ Watch(m, S).generation = news /\ Watch(m, S).rearm = m.rearm \ S
      /\ Watch(m, S).connected = m.connected /\ Watch(m, S).accepted = m.accepted
      /\ Watch(m, S).failed = m.failed
  BY <1>1, <1>2, <1>3, <1>4 DEF Monitors
<1> QED BY <1>5 DEF armed, pending, news, displaced

\* A watch that is set, or fails.
LEMMA WatchKeeps ==
  ASSUME MonitorTyped, NEW m \in Monitors, WatchesStand(m, world), NEW S \in SUBSET Watched
  PROVE  /\ Watch(m, S) \in Monitors /\ Follows(m, Watch(m, S)) /\ WatchesStand(Watch(m, S), world)
         /\ Watch(m, S).connected = m.connected
         /\ ~Watch(m, S).failed =>
              /\ Watch(m, S).requests = m.requests \cup S
              /\ \A p \in S : Watch(m, S).armed[p] = world[p].inode
              /\ \A p \in Watched \ S : Watch(m, S).armed[p] = m.armed[p]
              /\ \A p \in Watched \ S : Told(m, p) => Told(Watch(m, S), p)
<1>1. CASE m.connected \cap Moved(m, S) # {}
  <2>1. Watch(m, S) = Faulted(m)
    BY <1>1 DEF Watch, Moved
  <2>2. WatchesStand(Faulted(m), world)
    BY FaultedDoes DEF WatchesStand, Told
  <2> QED BY <2>1, <2>2, FaultedDoes
<1>2. CASE m.connected \cap Moved(m, S) = {}
  <2> DEFINE n == Watch(m, S)
  <2>1. /\ n \in Monitors /\ n.requests = m.requests \cup S
        /\ n.armed = [p \in Watched |-> IF p \in S THEN world[p].inode ELSE m.armed[p]]
        /\ n.pending = m.pending \ (Moved(m, S) \X {"write", "gone"})
        /\ n.generation = m.generation + Cardinality(S \ m.requests) + Cardinality(Moved(m, S))
        /\ n.rearm = m.rearm \ S /\ n.connected = m.connected /\ n.accepted = m.accepted /\ n.failed = m.failed
    BY <1>2, WatchDoes
  <2> HIDE DEF n
  <2>2. /\ \A p \in S : n.armed[p] = world[p].inode
        /\ \A p \in Watched \ S : n.armed[p] = m.armed[p]
    BY <2>1
  <2>3. /\ \A p \in Watched \ S : <<p, "gone">> \in m.pending => <<p, "gone">> \in n.pending
        /\ Directory \in m.pending => Directory \in n.pending
    BY <2>1, PathFacts DEF Moved, Directory
  <2>4. \A p \in Watched \ S : Told(m, p) => Told(n, p)
    BY <2>1, <2>2, <2>3 DEF Told
  <2>5. WatchesStand(n, world)
    <3>1. \A p \in n.requests : n.armed[p] # NoWatch
      BY <2>1, <2>2, Inodes DEF WatchesStand, Monitors
    <3>2. ASSUME NEW p \in Watched, n.armed[p] # NoWatch, n.armed[p] # world[p].inode
          PROVE  Told(n, p)
      BY <2>2, <2>4, <3>2 DEF WatchesStand
    <3>3. ASSUME ~n.failed, NEW p \in n.connected
          PROVE  /\ n.armed[p] # 0 /\ n.armed[p] # NoWatch
                 /\ n.armed[p] = world[p].inode \/ <<p, "gone">> \in n.pending
      <4>1. /\ m.armed[p] # 0 /\ m.armed[p] # NoWatch /\ p \in Watched
            /\ m.armed[p] = world[p].inode \/ <<p, "gone">> \in m.pending
        BY <2>1, <3>3, PathFacts DEF WatchesStand, Monitors
      <4>2. CASE p \in S
        BY <1>2, <2>1, <2>2, <4>1, <4>2, <3>3 DEF Moved
      <4>3. CASE p \notin S
        BY <2>2, <2>3, <4>1, <4>3
      <4> QED BY <4>2, <4>3
    <3> QED BY <3>1, <3>2, <3>3 DEF WatchesStand
  <2>6. Follows(m, n)
    <3>1. Cardinality(S \ m.requests) \in Nat /\ Cardinality(Moved(m, S)) \in Nat
          /\ (Cardinality(Moved(m, S)) = 0 => Moved(m, S) = {}) /\ m.generation \in Nat
      <4>1. S \ m.requests \in SUBSET Watched /\ Moved(m, S) \in SUBSET Watched
        BY DEF Moved
      <4> QED BY <4>1, Counted DEF Monitors
    <3>2. n.generation >= m.generation
      BY <2>1, <3>1
    <3>3. ASSUME n.generation = m.generation, n.pending = {}
          PROVE  /\ m.pending = {} /\ n.armed = m.armed /\ n.connected = m.connected /\ n.rearm \subseteq m.rearm
      <4> DEFINE a == Cardinality(S \ m.requests)
                 b == Cardinality(Moved(m, S))
                 g == m.generation
      <4>0. a \in Nat /\ b \in Nat /\ g \in Nat /\ g = g + a + b
        BY <2>1, <3>1, <3>3
      <4>1. b = 0
        <5> HIDE DEF a, b, g
        <5> QED BY <4>0
      <4>2. Moved(m, S) = {}
        BY <3>1, <4>1
      <4>3. m.pending = {}
        BY <2>1, <3>3, <4>2
      <4>4. \A p \in Watched : n.armed[p] = m.armed[p]
        BY <2>2, <4>2 DEF Moved
      <4>5. n.armed = m.armed
        BY <2>1, <4>4 DEF Monitors
      <4> QED BY <2>1, <4>3, <4>5
    <3> QED BY <2>1, <3>2, <3>3 DEF Follows
  <2> QED BY <2>1, <2>2, <2>4, <2>5, <2>6 DEF n
<1> QED BY <1>1, <1>2

\* Databases that are there, connected.
LEMMA ConnectKeeps ==
  ASSUME MonitorTyped, NEW m \in Monitors, WatchesStand(m, world)
  PROVE  LET n == Connect(m, Present(Databases))
         IN /\ n \in Monitors /\ Follows(m, n) /\ WatchesStand(n, world)
            /\ ~n.failed => m.requests \subseteq n.requests
            /\ DatabasesKnown(n, world)
<1> DEFINE S == Present(Databases)
           w == Watch(m, S)
           n == Connect(m, S)
<1>1. S \in SUBSET Watched /\ S \in SUBSET Databases
  BY PathFacts DEF Present
<1>2. /\ w \in Monitors /\ Follows(m, w) /\ WatchesStand(w, world) /\ w.connected = m.connected
      /\ ~w.failed => w.requests = m.requests \cup S /\ \A p \in S : w.armed[p] = world[p].inode
  BY <1>1, WatchKeeps
<1>3. CASE w.failed
  <2>1. n = w
    BY <1>3 DEF Connect
  <2> QED BY <1>2, <1>3, <2>1 DEF DatabasesKnown
<1>4. CASE ~w.failed
  <2>1. n = [w EXCEPT !.connected = @ \cup S, !.generation = @ + Cardinality(S \ m.connected)]
    BY <1>4 DEF Connect
  <2>2. Cardinality(S \ m.connected) \in Nat /\ (Cardinality(S \ m.connected) = 0 => S \ m.connected = {})
    <3>1. S \ m.connected \in SUBSET Watched
      BY <1>1
    <3> QED BY <3>1, Counted
  <2> HIDE DEF w
  <2>3. /\ n \in Monitors /\ n.connected = w.connected \cup S
        /\ n.generation = w.generation + Cardinality(S \ m.connected)
        /\ n.armed = w.armed /\ n.requests = w.requests /\ n.pending = w.pending /\ n.rearm = w.rearm
        /\ n.accepted = w.accepted /\ n.failed = w.failed
    <3> HIDE DEF S
    <3>1. w.generation + Cardinality(S \ m.connected) \in Nat /\ w.connected \cup S \in SUBSET Databases
      BY <1>1, <1>2, <2>2 DEF Monitors
    <3> QED BY <1>2, <2>1, <3>1 DEF Monitors
  <2> HIDE DEF n, S
  <2>4. WatchesStand(n, world)
    <3>1. \A p \in S : world[p].inode # 0 /\ world[p].inode # NoWatch
      BY <1>1, Inodes DEF S, Present
    <3>2. \A p : Told(n, p) <=> Told(w, p)
      BY <2>3 DEF Told
    <3>3. \A p \in n.connected : p \in w.connected \/ p \in S
      BY <2>3
    <3> QED BY <1>2, <1>4, <2>3, <3>1, <3>2, <3>3 DEF WatchesStand
  <2>5. Follows(w, n)
    <3>1. w.generation \in Nat
      BY <1>2 DEF Monitors
    <3>2. n.generation = w.generation => n.connected = w.connected
      BY <1>2, <2>2, <2>3, <3>1
    <3> QED BY <2>2, <2>3, <3>1, <3>2 DEF Follows
  <2>6. Follows(m, n)
    BY <1>2, <2>3, <2>5, FollowsOn
  <2>7. DatabasesKnown(n, world)
    <3>1. \A p \in Databases : world[p].inode # 0 => p \in S
      BY Inodes, PathFacts DEF S, Present
    <3> QED BY <2>3, <3>1 DEF DatabasesKnown
  <2> QED BY <1>2, <1>4, <2>3, <2>4, <2>6, <2>7 DEF n, S
<1> QED BY <1>3, <1>4

\* Events that are fetched.
LEMMA DrainedKeeps ==
  ASSUME MonitorTyped, NEW m \in Monitors, WatchesStand(m, world)
  PROVE  LET n == Drained(m)
         IN /\ n \in Monitors /\ Follows(m, n) /\ WatchesStand(n, world)
            /\ n.requests = m.requests /\ n.armed = m.armed /\ n.connected = m.connected
            /\ ~n.failed => n.pending = {}
            /\ ~n.failed => \A p \in Watched : Told(m, p) => Told(n, p)
            /\ ~n.failed /\ n.generation <= m.generation => m.pending = {} /\ n.rearm = m.rearm
<1> DEFINE n == Drained(m)
           gone == {p \in Watched : <<p, "gone">> \in m.pending}
           born == IF Directory \in m.pending THEN {p \in Watched : m.armed[p] = 0} ELSE {}
<1>1. CASE m.failed
  <2>1. n = m
    BY <1>1 DEF Drained
  <2> QED BY <1>1, <2>1, FollowsItself
<1>2. CASE ~m.failed /\ gone \cap m.connected # {}
  <2>1. n = Faulted(m)
    BY <1>2 DEF Drained
  <2>2. WatchesStand(Faulted(m), world)
    BY FaultedDoes DEF WatchesStand, Told
  <2> QED BY <2>1, <2>2, FaultedDoes
<1>3. CASE ~m.failed /\ gone \cap m.connected = {}
  <2>1. n = [m EXCEPT !.pending = {}, !.rearm = @ \cup gone \cup born,
                      !.generation = IF m.pending = {} THEN @ ELSE @ + 1]
    BY <1>3 DEF Drained, Directory
  <2>2. gone \in SUBSET Watched /\ born \in SUBSET Watched
    OBVIOUS
  <2>3. m.pending = {} => gone = {} /\ born = {}
    OBVIOUS
  <2>4. \A p \in Watched : <<p, "gone">> \in m.pending => p \in gone
    OBVIOUS
  <2>5. \A p \in Watched : m.armed[p] = 0 /\ Directory \in m.pending => p \in born
    OBVIOUS
  <2> HIDE DEF gone, born
  <2>6. /\ n \in Monitors /\ n.pending = {} /\ n.rearm = m.rearm \cup gone \cup born
        /\ n.generation = (IF m.pending = {} THEN m.generation ELSE m.generation + 1)
        /\ n.armed = m.armed /\ n.requests = m.requests /\ n.connected = m.connected
        /\ n.accepted = m.accepted /\ n.failed = m.failed
    <3>1. m.rearm \cup gone \cup born \in SUBSET Watched
          /\ (IF m.pending = {} THEN m.generation ELSE m.generation + 1) \in Nat
          /\ {} \in SUBSET Events
      BY <2>2 DEF Monitors
    <3> QED BY <2>1, <3>1 DEF Monitors
  <2> HIDE DEF n
  <2>7. \A p \in Watched : Told(m, p) => Told(n, p)
    BY <2>4, <2>5, <2>6 DEF Told
  <2>8. WatchesStand(n, world)
    <3>1. \A p \in m.connected : <<p, "gone">> \notin m.pending
      BY <1>3, <2>4, PathFacts DEF Monitors
    <3> QED BY <1>3, <2>6, <2>7, <3>1 DEF WatchesStand
  <2>9. m.generation \in Nat
    BY DEF Monitors
  <2>10. Follows(m, n)
    BY <2>3, <2>6, <2>9 DEF Follows
  <2>11. n.generation <= m.generation => m.pending = {} /\ n.rearm = m.rearm
    BY <2>3, <2>6, <2>9
  <2> QED BY <2>6, <2>7, <2>8, <2>10, <2>11 DEF n
<1> QED BY <1>1, <1>2, <1>3

\* What moved, watched again.
LEMMA RearmedKeeps ==
  ASSUME MonitorTyped, NEW m \in Monitors, WatchesStand(m, world)
  PROVE  LET n == Rearmed(m)
         IN /\ n \in Monitors /\ Follows(m, n) /\ WatchesStand(n, world)
            /\ ~n.failed => m.requests \subseteq n.requests
<1> DEFINE polled == Drained(m)
           set == Watch(polled, polled.rearm)
           n == Rearmed(m)
<1>1. polled \in Monitors /\ Follows(m, polled) /\ WatchesStand(polled, world) /\ polled.requests = m.requests
  BY DrainedKeeps
<1>2. CASE polled.failed
  BY <1>1, <1>2 DEF Rearmed
<1>3. CASE ~polled.failed
  <2>1. n = Drained(set)
    BY <1>3 DEF Rearmed
  <2> HIDE DEF polled, n
  <2>2. polled.rearm \in SUBSET Watched
    BY <1>1 DEF Monitors
  <2>3. /\ set \in Monitors /\ Follows(polled, set) /\ WatchesStand(set, world)
        /\ ~set.failed => set.requests = polled.requests \cup polled.rearm
    BY <1>1, <2>2, WatchKeeps
  <2> HIDE DEF set
  <2>4. n \in Monitors /\ Follows(set, n) /\ WatchesStand(n, world) /\ n.requests = set.requests
    BY <2>1, <2>3, DrainedKeeps
  <2>5. Follows(m, n)
    <3>1. Follows(m, set)
      BY <1>1, <2>3, FollowsOn
    <3> QED BY <3>1, <2>3, <2>4, FollowsOn
  <2>6. ~n.failed => ~set.failed
    BY <2>4 DEF Follows
  <2> QED BY <1>1, <2>3, <2>4, <2>5, <2>6 DEF n
<1> QED BY <1>2, <1>3

LEMMA TokenLasts ==
  ASSUME NEW m \in Monitors, NEW n \in Monitors, NEW t \in Tokens, NEW k \in Nat,
         TokenOf(t, m, k), n.generation >= m.generation
  PROVE  TokenOf(t, n, k) /\ TokenOf(t, n, k + 1)
<1>1. CASE t = NoToken
  BY <1>1 DEF TokenOf
<1>2. CASE t # NoToken
  <2>1. t[1] \in Nat /\ t[2] \in Versions
    BY <1>2 DEF Tokens
  <2>2. \A p \in DOMAIN t[2] : t[2][p] \in Nat
    BY <2>1 DEF Versions
  <2>3. m.generation \in Nat /\ n.generation \in Nat
    BY DEF Monitors
  <2> QED BY <2>1, <2>2, <2>3 DEF TokenOf
<1> QED BY <1>1, <1>2

\* If nothing has moved since token t in the end, nothing had before.
LEMMA StandsBack ==
  ASSUME NEW m \in Monitors, NEW n \in Monitors, Follows(m, n), NEW t \in Tokens, NEW k \in Nat,
         TokenOf(t, m, k), NEW w, Stands(n, t, w)
  PROVE  /\ Stands(m, t, w) /\ n.armed = m.armed /\ n.connected = m.connected /\ n.rearm \subseteq m.rearm
         /\ n.generation = m.generation
<1>1. t # NoToken /\ ~n.failed /\ n.pending = {} /\ t = <<n.generation, [p \in n.connected |-> w[p].content]>>
  BY DEF Stands
<1>2. t[1] = n.generation /\ t[1] <= m.generation
  BY <1>1 DEF TokenOf
<1>3. m.generation \in Nat /\ n.generation \in Nat /\ n.generation >= m.generation
  BY DEF Monitors, Follows
<1>4. n.generation = m.generation
  BY <1>2, <1>3
<1>5. /\ ~m.failed /\ m.pending = {} /\ n.armed = m.armed /\ n.connected = m.connected /\ n.rearm \subseteq m.rearm
  BY <1>1, <1>4 DEF Follows, Monitors
<1> QED BY <1>1, <1>4, <1>5 DEF Stands

\* Fetching the events shows whether anything has moved.
LEMMA FetchedStands ==
  ASSUME MonitorTyped, NEW m \in Monitors, WatchesStand(m, world), NEW t \in Tokens, NEW k \in Nat,
         TokenOf(t, m, k), t # NoToken, Token(Drained(m)) = t
  PROVE  Stands(m, t, world) /\ Drained(m).rearm = m.rearm /\ ~Drained(m).failed
<1> DEFINE n == Drained(m)
<1>1. /\ n \in Monitors /\ Follows(m, n) /\ n.connected = m.connected
      /\ ~n.failed /\ n.generation <= m.generation => m.pending = {} /\ n.rearm = m.rearm
  BY DrainedKeeps
<1> HIDE DEF n
<1>2. ~n.failed /\ t = <<n.generation, [p \in n.connected |-> world[p].content]>>
  BY DEF Token, n
<1>3. t[1] = n.generation /\ t[1] <= m.generation
  BY <1>2 DEF TokenOf
<1>4. m.generation \in Nat /\ n.generation \in Nat /\ n.generation >= m.generation
  BY <1>1 DEF Monitors, Follows
<1>5. n.generation = m.generation
  BY <1>3, <1>4
<1>6. ~m.failed
  BY <1>1, <1>2 DEF Follows, Monitors
<1> QED BY <1>1, <1>2, <1>3, <1>5, <1>6 DEF Stands, n

(* Moves of the source *******************************************************)
Shift(p) == Alter(p) \/ Arrive(p) \/ Displace(p)

\* What a move does to the monitor: it leaves events.
LEMMA ShiftDoes ==
  ASSUME MonitorTyped, NEW p \in Watched, Shift(p)
  PROVE  /\ moves \in Nat /\ moves' = moves + 1 /\ moves' <= MaxMoves
         /\ monitor' \in Monitors
         /\ monitor' = [monitor EXCEPT !.pending = monitor'.pending]
         /\ monitor.pending \subseteq monitor'.pending
         /\ \A q \in Watched \ {p} : world'[q] = world[q]
         /\ world' \in [Watched -> [inode : 0 .. moves' + 1, content : 0 .. moves' + 1]]
         /\ \A q \in Watched : world'[q].inode = 0 => world'[q] = Missing
         /\ UNCHANGED <<syncs, rows, epoch, session, job>>
<1> DEFINE new == [inode |-> moves + 2, content |-> moves + 2]
<1>1. /\ moves \in Nat /\ moves' = moves + 1 /\ moves' <= MaxMoves /\ MaxMoves \in Nat
      /\ UNCHANGED <<syncs, rows, epoch, session, job>>
  BY MonitoredSyncAssumption DEF Shift, Alter, Arrive, Displace, Move, MonitorTyped
<1>2. /\ Notify(p, "write") \in SUBSET Events /\ Notify(p, "gone") \in SUBSET Events /\ Renamed \in SUBSET Events
  BY DEF Notify, Renamed, Events
<1>3. PICK E \in SUBSET Events : monitor' = [monitor EXCEPT !.pending = monitor.pending \cup E]
  <2>1. CASE Alter(p) /\ p \in Databases
    <3>1. monitor' = [monitor EXCEPT !.pending = monitor.pending \cup {}]
      BY <2>1 DEF Alter, MonitorTyped, Monitors
    <3> QED BY <3>1
  <2>2. CASE Alter(p) /\ p \notin Databases
    BY <2>2, <1>2 DEF Alter
  <2>3. CASE Arrive(p)
    BY <2>3, <1>2 DEF Arrive
  <2>4. CASE Displace(p)
    <3>1. monitor' = [monitor EXCEPT !.pending = monitor.pending \cup (Notify(p, "gone") \cup Renamed)]
      BY <2>4 DEF Displace
    <3> QED BY <3>1, <1>2
  <2> QED BY <2>1, <2>2, <2>3, <2>4 DEF Shift
<1>4. monitor.pending \cup E \in SUBSET Events
  BY DEF MonitorTyped, Monitors
<1>5. /\ monitor' \in Monitors /\ monitor'.pending = monitor.pending \cup E
      /\ monitor' = [monitor EXCEPT !.pending = monitor'.pending]
  BY <1>3, <1>4 DEF MonitorTyped, Monitors
<1>6. \A q \in Watched : world[q] \in [inode : 0 .. moves' + 1, content : 0 .. moves' + 1]
  <2>1. \A q \in Watched : world[q] \in [inode : 0 .. moves + 1, content : 0 .. moves + 1]
    BY DEF MonitorTyped
  <2> QED BY <2>1, <1>1
<1>7. /\ new \in [inode : 0 .. moves' + 1, content : 0 .. moves' + 1] /\ new.inode # 0
      /\ Missing \in [inode : 0 .. moves' + 1, content : 0 .. moves' + 1]
  BY <1>1 DEF Missing
<1>8. \E x : /\ x = new \/ x = Missing \/ (Exists(p) /\ x = [world[p] EXCEPT !.content = moves + 2])
             /\ world' = [world EXCEPT ![p] = x]
  <2>1. CASE Alter(p)
    BY <2>1 DEF Alter
  <2>2. CASE Arrive(p)
    BY <2>2 DEF Arrive
  <2>3. CASE Displace(p)
    BY <2>3 DEF Displace
  <2> QED BY <2>1, <2>2, <2>3 DEF Shift
<1>9. PICK x : /\ x = new \/ x = Missing \/ (Exists(p) /\ x = [world[p] EXCEPT !.content = moves + 2])
               /\ world' = [world EXCEPT ![p] = x]
  BY <1>8
<1>10. /\ x \in [inode : 0 .. moves' + 1, content : 0 .. moves' + 1]
       /\ x.inode = 0 => x = Missing
  <2>1. CASE Exists(p) /\ x = [world[p] EXCEPT !.content = moves + 2]
    <3>1. moves + 2 \in 0 .. moves' + 1
      BY <1>1
    <3>2. world[p] \in [inode : 0 .. moves' + 1, content : 0 .. moves' + 1]
      BY <1>6
    <3>3. x \in [inode : 0 .. moves' + 1, content : 0 .. moves' + 1] /\ x.inode = world[p].inode
      BY <2>1, <3>1, <3>2
    <3>4. world[p].inode # 0
      BY <2>1, Inodes
    <3> QED BY <3>3, <3>4
  <2> QED BY <2>1, <1>7, <1>9
<1> HIDE DEF new
<1>11. /\ \A q \in Watched \ {p} : world'[q] = world[q]
       /\ world' \in [Watched -> [inode : 0 .. moves' + 1, content : 0 .. moves' + 1]]
  BY <1>6, <1>9, <1>10 DEF MonitorTyped
<1>12. \A q \in Watched : world'[q].inode = 0 => world'[q] = Missing
  BY <1>9, <1>10, <1>11 DEF MonitorTyped
<1> QED BY <1>1, <1>5, <1>11, <1>12

LEMMA ShiftLeaves ==
  ASSUME MonitorTyped, NEW p \in Watched, Shift(p)
  PROVE  /\ monitor'.armed = monitor.armed /\ monitor'.requests = monitor.requests
         /\ monitor'.rearm = monitor.rearm /\ monitor'.connected = monitor.connected
         /\ monitor'.generation = monitor.generation /\ monitor'.accepted = monitor.accepted
         /\ monitor'.failed = monitor.failed
         /\ \A q \in Watched : Told(monitor, q) => Told(monitor', q)
<1>1. /\ monitor'.armed = monitor.armed /\ monitor'.requests = monitor.requests
      /\ monitor'.rearm = monitor.rearm /\ monitor'.connected = monitor.connected
      /\ monitor'.generation = monitor.generation /\ monitor'.accepted = monitor.accepted
      /\ monitor'.failed = monitor.failed
  <2>1. monitor \in Monitors /\ monitor' = [monitor EXCEPT !.pending = monitor'.pending]
    BY ShiftDoes DEF MonitorTyped
  <2> QED BY <2>1 DEF Monitors
<1>2. monitor.pending \subseteq monitor'.pending
  BY ShiftDoes
<1> QED BY <1>1, <1>2 DEF Told

\* The events a move leaves.
LEMMA ShiftTells ==
  ASSUME MonitorTyped, NEW p \in Watched, Shift(p)
  PROVE  /\ monitor.armed[p] = world[p].inode /\ world'[p].inode # world[p].inode =>
              IF world[p].inode = 0 THEN Directory \in monitor'.pending ELSE <<p, "gone">> \in monitor'.pending
<1>1. /\ world \in [Watched -> [inode : 0 .. moves + 1, content : 0 .. moves + 1]]
      /\ monitor \in Monitors
  BY DEF MonitorTyped
<1>2. CASE Alter(p)
  <2>1. world'[p].inode = world[p].inode
    BY <1>1, <1>2 DEF Alter
  <2> QED BY <2>1
<1>3. CASE Arrive(p)
  <2>1. world[p].inode = 0
    BY <1>3, Inodes DEF Arrive
  <2>2. monitor.armed[p] = 0 => Renamed = {Directory}
    BY DEF Renamed, Directory
  <2>3. monitor'.pending = monitor.pending \cup Renamed
    BY <1>1, <1>3 DEF Arrive, Monitors
  <2> QED BY <2>1, <2>2, <2>3
<1>4. CASE Displace(p)
  <2>1. world[p].inode # 0
    BY <1>4, Inodes DEF Displace
  <2>2. monitor'.pending = monitor.pending \cup Notify(p, "gone") \cup Renamed
    BY <1>1, <1>4 DEF Displace, Monitors
  <2>3. monitor.armed[p] = world[p].inode => <<p, "gone">> \in Notify(p, "gone")
    BY DEF Notify
  <2> QED BY <2>1, <2>2, <2>3
<1> QED BY <1>2, <1>3, <1>4 DEF Shift

LEMMA ShiftKeeps ==
  ASSUME MonitorTyped, MonitorKept, NEW p \in Watched, Shift(p)
  PROVE  MonitorKept'
<1>1. /\ monitor'.armed = monitor.armed /\ monitor'.requests = monitor.requests
      /\ monitor'.rearm = monitor.rearm /\ monitor'.connected = monitor.connected
      /\ monitor'.generation = monitor.generation /\ monitor'.accepted = monitor.accepted
      /\ monitor'.failed = monitor.failed /\ monitor.pending \subseteq monitor'.pending
      /\ \A q \in Watched : Told(monitor, q) => Told(monitor', q)
  BY ShiftLeaves, ShiftDoes
<1>2. \A q \in Watched \ {p} : world'[q] = world[q]
  BY ShiftDoes
<1>3. /\ moves \in Nat /\ moves' = moves + 1 /\ monitor \in Monitors /\ monitor' \in Monitors
      /\ session' = session /\ job' = job /\ session \in Sessions
  BY ShiftDoes DEF MonitorTyped
<1>4. monitor.armed[p] = world[p].inode /\ world'[p].inode # world[p].inode => Told(monitor', p)
  BY <1>1, ShiftTells DEF Told
<1>5. WatchesStand(monitor', world')
  <2>1. \A q \in monitor'.requests : monitor'.armed[q] # NoWatch
    BY <1>1 DEF MonitorKept, WatchesStand
  <2>2. ASSUME NEW q \in Watched, monitor'.armed[q] # NoWatch, monitor'.armed[q] # world'[q].inode
        PROVE  Told(monitor', q)
    <3>1. CASE monitor.armed[q] # world[q].inode
      BY <1>1, <2>2, <3>1 DEF MonitorKept, WatchesStand
    <3>2. CASE monitor.armed[q] = world[q].inode
      BY <1>1, <1>2, <1>4, <2>2, <3>2
    <3> QED BY <3>1, <3>2
  <2>3. ASSUME ~monitor'.failed, NEW q \in monitor'.connected
        PROVE  /\ monitor'.armed[q] # 0 /\ monitor'.armed[q] # NoWatch
               /\ monitor'.armed[q] = world'[q].inode \/ <<q, "gone">> \in monitor'.pending
    <3>1. /\ monitor.armed[q] # 0 /\ monitor.armed[q] # NoWatch /\ q \in Watched
          /\ monitor.armed[q] = world[q].inode \/ <<q, "gone">> \in monitor.pending
      BY <1>1, <1>3, <2>3, PathFacts DEF MonitorKept, WatchesStand, Monitors
    <3>2. CASE <<q, "gone">> \in monitor.pending
      BY <1>1, <3>1, <3>2
    <3>3. CASE monitor.armed[q] = world[q].inode
      BY <1>1, <1>2, <3>1, <3>3, ShiftTells
    <3> QED BY <3>1, <3>2, <3>3
  <2> QED BY <2>1, <2>2, <2>3 DEF WatchesStand
<1>6. DatabasesKnown(monitor', world')
  <2> SUFFICES ASSUME ~monitor'.failed, Databases \subseteq monitor'.requests,
                      NEW q \in Databases \ monitor'.connected, world'[q].inode # 0
               PROVE  Told(monitor', q)
    BY DEF DatabasesKnown
  <2>1. q \in Watched /\ monitor.armed[q] # NoWatch
    BY <1>1, PathFacts DEF MonitorKept, WatchesStand
  <2>2. CASE world[q].inode # 0
    BY <1>1, <2>1, <2>2 DEF MonitorKept, DatabasesKnown
  <2>3. CASE world[q].inode = 0
    <3>1. q = p
      BY <1>2, <2>1, <2>3
    <3>2. CASE monitor.armed[q] = 0
      BY <1>4, <2>3, <3>1, <3>2
    <3>3. CASE monitor.armed[q] # 0
      BY <1>1, <2>1, <2>3, <3>3 DEF MonitorKept, WatchesStand
    <3> QED BY <3>2, <3>3
  <2> QED BY <2>2, <2>3
<1>7. TokenOf(monitor'.accepted, monitor', moves') /\ TokenOf(session'.before, monitor', moves')
  <2>1. monitor.accepted \in Tokens /\ session.before \in Tokens /\ monitor'.generation >= monitor.generation
    BY <1>1, <1>3 DEF Monitors, Sessions
  <2> QED BY <1>1, <1>3, <2>1, TokenLasts DEF MonitorKept
<1>8. monitor'.failed \/ Databases \subseteq monitor'.requests \/ (job' = Idle /\ monitor'.accepted = NoToken)
  BY <1>1, <1>3 DEF MonitorKept
<1> QED BY <1>5, <1>6, <1>7, <1>8 DEF MonitorKept

\* A move that leaves everything standing is one that nobody watches for.
LEMMA ShiftShows ==
  ASSUME MonitorTyped, MonitorKept, Databases \subseteq monitor.requests, NEW p \in Watched, Shift(p),
         NEW t \in Tokens, TokenOf(t, monitor, moves), Stands(monitor', t, world')
  PROVE  /\ Stands(monitor, t, world)
         /\ \A q \in Watched : monitor.armed[q] # NoWatch /\ q \notin monitor.rearm =>
              world'[q].content = world[q].content
<1>1. /\ monitor'.armed = monitor.armed /\ monitor'.requests = monitor.requests
      /\ monitor'.rearm = monitor.rearm /\ monitor'.connected = monitor.connected
      /\ monitor'.generation = monitor.generation
      /\ monitor'.failed = monitor.failed /\ monitor.pending \subseteq monitor'.pending
      /\ \A q \in Watched \ {p} : world'[q] = world[q]
  BY ShiftLeaves, ShiftDoes
<1>2. /\ t # NoToken /\ ~monitor.failed /\ monitor.pending = {} /\ monitor'.pending = {}
      /\ t = <<monitor.generation, [q \in monitor.connected |-> world'[q].content]>>
  BY <1>1 DEF Stands
<1>3. /\ monitor \in Monitors /\ moves \in Nat
      /\ world \in [Watched -> [inode : 0 .. moves + 1, content : 0 .. moves + 1]]
  BY DEF MonitorTyped
<1>4. \A q \in Watched : Told(monitor, q) => q \in monitor.rearm
  BY <1>2 DEF Told
<1>5. \A q \in Watched : monitor.armed[q] # NoWatch /\ q \notin monitor.rearm => monitor.armed[q] = world[q].inode
  BY <1>4 DEF MonitorKept, WatchesStand
<1>6. \A q \in monitor.connected : monitor.armed[q] = world[q].inode /\ monitor.armed[q] # 0
  BY <1>2 DEF MonitorKept, WatchesStand
<1>7. \/ p \notin monitor.connected /\ (monitor.armed[p] = NoWatch \/ p \in monitor.rearm)
      \/ world'[p].content = world[p].content
  <2>1. CASE Alter(p) /\ p \in monitor.connected
    <3>1. world' = [world EXCEPT ![p].content = moves + 2]
      BY <2>1 DEF Alter
    <3>2. world'[p].content = moves + 2
      BY <1>3, <3>1
    <3>3. t[2] = [q \in monitor.connected |-> world'[q].content]
      BY <1>2
    <3>4. t[2][p] = moves + 2 /\ p \in DOMAIN t[2]
      BY <3>2, <3>3, <2>1
    <3>5. t[2][p] <= moves + 1
      BY <1>2, <3>4 DEF TokenOf
    <3> QED BY <1>3, <3>4, <3>5
  <2>2. CASE Alter(p) /\ p \in Databases \ monitor.connected
    <3>1. world[p].inode # 0
      BY <2>2, Inodes DEF Alter
    <3>2. Told(monitor, p)
      BY <1>2, <2>2, <3>1 DEF MonitorKept, DatabasesKnown
    <3> QED BY <1>4, <2>2, <3>2
  <2>3. CASE Alter(p) /\ p \notin Databases
    <3>1. p \notin monitor.connected
      BY <1>3, <2>3 DEF Monitors
    <3>2. monitor'.pending = monitor.pending \cup Notify(p, "write")
      BY <1>3, <2>3 DEF Alter, Monitors
    <3>3. Notify(p, "write") = {}
      BY <1>2, <3>2
    <3>4. monitor.armed[p] # world[p].inode
      BY <3>3 DEF Notify
    <3> QED BY <1>5, <3>1, <3>4
  <2>4. CASE Arrive(p)
    <3>1. world[p].inode = 0
      BY <2>4, Inodes DEF Arrive
    <3>2. monitor'.pending = monitor.pending \cup Renamed
      BY <1>3, <2>4 DEF Arrive, Monitors
    <3>3. Renamed = {}
      BY <1>2, <3>2
    <3>4. monitor.armed[p] # 0
      BY <3>3 DEF Renamed
    <3> QED BY <1>5, <1>6, <3>1, <3>4
  <2>5. CASE Displace(p)
    <3>1. monitor'.pending = monitor.pending \cup Notify(p, "gone") \cup Renamed
      BY <1>3, <2>5 DEF Displace, Monitors
    <3>2. Notify(p, "gone") = {}
      BY <1>2, <3>1
    <3>3. monitor.armed[p] # world[p].inode
      BY <3>2 DEF Notify
    <3> QED BY <1>5, <1>6, <3>3
  <2> QED BY <2>1, <2>2, <2>3, <2>4, <2>5 DEF Shift
<1>8. \A q \in Watched : monitor.armed[q] # NoWatch /\ q \notin monitor.rearm => world'[q].content = world[q].content
  BY <1>1, <1>7
<1>9. \A q \in monitor.connected : world'[q].content = world[q].content
  BY <1>1, <1>3, <1>7, PathFacts DEF Monitors
<1>10. [q \in monitor.connected |-> world'[q].content] = [q \in monitor.connected |-> world[q].content]
  BY <1>9
<1> QED BY <1>2, <1>8, <1>10 DEF Stands

(* Steps of the invariant ****************************************************)
LEMMA JobFacts ==
  ASSUME job \in Jobs
  PROVE  /\ job = Idle <=> job.at = "idle"
         /\ job.at \in {"idle", "prepared", "rearmed", "reading", "hashing", "writing"}
         /\ Active => job.left \in SUBSET Watched
         /\ job.at \in {"hashing", "writing"} => job.path \in Watched
         /\ job.at = "writing" => job.content \in Nat
BY DEF Jobs, Running, Idle, Active

\* A state with no sync under way asks nothing of what one has read.
LEMMA AtRest ==
  ASSUME ~Active PROVE ReadWatched /\ RunSound
BY DEF ReadWatched, RunSound

LEMMA MonitorInitially ==
  ASSUME MonitoredInit PROVE MonitorInv
<1> USE DEF MonitoredInit
<1>1. NewMonitor \in Monitors
  BY PathFacts DEF NewMonitor, Monitors, Tokens
<1>2. NoSession \in Sessions
  BY DEF NoSession, Sessions, Tokens, NoSummary
<1>3. MonitorTyped
  <2>1. \A p \in Watched : /\ world[p] \in [inode : 0 .. moves + 1, content : 0 .. moves + 1]
                           /\ world[p].inode = 0 => world[p] = Missing
    BY DEF Missing
  <2>2. rows \in [Watched -> Nat]
    BY PathFacts DEF NotRead, NoWatch
  <2>3. moves \in 0 .. MaxMoves
    BY MonitoredSyncAssumption
  <2> QED BY <1>1, <1>2, <2>1, <2>2, <2>3 DEF MonitorTyped, Jobs
<1>4. MonitorKept
  <2>1. /\ monitor.requests = {} /\ monitor.connected = {} /\ monitor.accepted = NoToken
        /\ \A p \in Watched : monitor.armed[p] = NoWatch
    BY DEF NewMonitor
  <2>2. WatchesStand(monitor, world)
    BY <2>1 DEF WatchesStand
  <2>3. DatabasesKnown(monitor, world)
    <3>1. CASE Databases = {}
      BY <3>1 DEF DatabasesKnown
    <3>2. CASE Databases # {}
      BY <2>1, <3>2 DEF DatabasesKnown
    <3> QED BY <3>1, <3>2
  <2>4. session.before = NoToken
    BY DEF NoSession
  <2> QED BY <2>1, <2>2, <2>3, <2>4 DEF MonitorKept, TokenOf
<1>5. SessionKept /\ ~Active /\ SummarySound
  BY DEF SessionKept, Active, SummarySound, NoSession, Idle
<1> QED BY <1>3, <1>4, <1>5, AtRest DEF MonitorInv

LEMMA ShiftStep ==
  ASSUME MonitorInv, NEW p \in Watched, Shift(p)
  PROVE  MonitorInv'
<1>1. MonitorTyped /\ MonitorKept /\ SessionKept /\ ReadWatched /\ RunSound /\ SummarySound
  BY DEF MonitorInv
<1>2. /\ monitor'.armed = monitor.armed /\ monitor'.requests = monitor.requests
      /\ monitor'.rearm = monitor.rearm /\ monitor'.connected = monitor.connected
      /\ monitor'.accepted = monitor.accepted /\ monitor'.failed = monitor.failed
  BY <1>1, ShiftLeaves
<1>3. UNCHANGED <<syncs, rows, epoch, session, job>>
  BY <1>1, ShiftDoes
<1>4. MonitorTyped'
  <2>1. /\ moves' \in 0 .. MaxMoves /\ monitor' \in Monitors
        /\ world' \in [Watched -> [inode : 0 .. moves' + 1, content : 0 .. moves' + 1]]
        /\ \A q \in Watched : world'[q].inode = 0 => world'[q] = Missing
    BY <1>1, ShiftDoes DEF MonitorTyped
  <2> QED BY <1>1, <1>3, <2>1 DEF MonitorTyped
<1>5. MonitorKept'
  BY <1>1, ShiftKeeps
<1>6. SessionKept' /\ ReadWatched'
  BY <1>1, <1>2, <1>3 DEF SessionKept, ReadWatched, Active
<1>7. RunSound'
  <2> SUFFICES ASSUME Active, session.eligible, epoch = session.epoch, Stands(monitor', session.before, world')
               PROVE  /\ \A q \in Watched \ job.left : q \notin monitor.rearm => rows[q] = world'[q].content
                      /\ job.at = "writing" /\ job.path \notin monitor.rearm => job.content = world'[job.path].content
    BY <1>2, <1>3 DEF RunSound, Active
  <2>1. ~monitor.failed /\ Databases \subseteq monitor.requests
    BY <1>1, <1>2 DEF Stands, MonitorKept, Active, Idle
  <2>2. session.before \in Tokens /\ TokenOf(session.before, monitor, moves)
    BY <1>1 DEF MonitorTyped, Sessions, MonitorKept
  <2>3. /\ Stands(monitor, session.before, world)
        /\ \A q \in Watched : monitor.armed[q] # NoWatch /\ q \notin monitor.rearm => world'[q].content = world[q].content
    BY <1>1, <2>1, <2>2, ShiftShows
  <2>4. /\ \A q \in Watched \ job.left : monitor.armed[q] # NoWatch
        /\ job.at = "writing" => monitor.armed[job.path] # NoWatch /\ job.path \in Watched
    BY <1>1, <2>1, JobFacts DEF ReadWatched, MonitorTyped
  <2> QED BY <1>1, <2>3, <2>4 DEF RunSound
<1>8. SummarySound'
  <2> SUFFICES ASSUME session.summary # NoSummary, epoch = session.epoch, Stands(monitor', monitor.accepted, world')
               PROVE  /\ monitor.rearm = {}
                      /\ \A q \in Watched : monitor.armed[q] # NoWatch /\ rows[q] = world'[q].content
    BY <1>2, <1>3 DEF SummarySound
  <2>1. ~monitor.failed /\ Databases \subseteq monitor.requests
    BY <1>1, <1>2 DEF Stands, MonitorKept
  <2>2. monitor.accepted \in Tokens /\ TokenOf(monitor.accepted, monitor, moves)
    BY <1>1 DEF MonitorTyped, Monitors, MonitorKept
  <2>3. /\ Stands(monitor, monitor.accepted, world)
        /\ \A q \in Watched : monitor.armed[q] # NoWatch /\ q \notin monitor.rearm => world'[q].content = world[q].content
    BY <1>1, <2>1, <2>2, ShiftShows
  <2> QED BY <1>1, <2>3 DEF SummarySound
<1> QED BY <1>4, <1>5, <1>6, <1>7, <1>8 DEF MonitorInv

LEMMA WriterStep ==
  ASSUME MonitorInv, NEW p \in Watched, OtherWriter(p)
  PROVE  MonitorInv'
<1>1. /\ MonitorTyped /\ MonitorKept /\ SessionKept /\ ReadWatched
  BY DEF MonitorInv
<1>2. /\ moves \in Nat /\ moves' = moves + 1 /\ moves' <= MaxMoves /\ MaxMoves \in Nat
      /\ epoch \in Nat /\ epoch' = epoch + 1 /\ rows' = [rows EXCEPT ![p] = Others]
      /\ UNCHANGED <<world, syncs, monitor, session, job>>
  BY <1>1, MonitoredSyncAssumption DEF OtherWriter, Move, MonitorTyped
<1>3. MonitorTyped'
  <2>1. Others \in Nat
    BY <1>2 DEF Others
  <2>2. rows' \in [Watched -> Nat]
    BY <1>1, <1>2, <2>1 DEF MonitorTyped
  <2>3. \A q \in Watched : world[q] \in [inode : 0 .. moves' + 1, content : 0 .. moves' + 1]
    <3>1. \A q \in Watched : world[q] \in [inode : 0 .. moves + 1, content : 0 .. moves + 1]
      BY <1>1 DEF MonitorTyped
    <3> QED BY <1>2, <3>1
  <2>4. moves' \in 0 .. MaxMoves
    BY <1>2
  <2>5. world' \in [Watched -> [inode : 0 .. moves' + 1, content : 0 .. moves' + 1]]
    BY <1>1, <1>2, <2>3 DEF MonitorTyped
  <2> QED BY <1>1, <1>2, <2>2, <2>4, <2>5 DEF MonitorTyped
<1>4. MonitorKept'
  <2>1. /\ monitor \in Monitors /\ monitor.accepted \in Tokens /\ session.before \in Tokens
        /\ monitor.generation >= monitor.generation
    BY <1>1 DEF MonitorTyped, Monitors, Sessions
  <2>2. TokenOf(monitor.accepted, monitor, moves') /\ TokenOf(session.before, monitor, moves')
    BY <1>1, <1>2, <2>1, TokenLasts DEF MonitorKept
  <2> QED BY <1>1, <1>2, <2>2 DEF MonitorKept
<1>5. epoch' # session'.epoch /\ SessionKept'
  <2>1. session.epoch \in Nat
    BY <1>1 DEF MonitorTyped, Sessions
  <2> QED BY <1>1, <1>2, <2>1 DEF SessionKept
<1>6. ReadWatched'
  BY <1>1, <1>2 DEF ReadWatched, Active
<1> QED BY <1>3, <1>4, <1>5, <1>6 DEF MonitorInv, RunSound, SummarySound

\* What an operation of a sync leaves of the monitor.
Operated ==
  /\ monitor' \in Monitors /\ Follows(monitor, monitor') /\ WatchesStand(monitor', world)
  /\ DatabasesKnown(monitor', world)
  /\ ~monitor'.failed => monitor.requests \subseteq monitor'.requests
  /\ UNCHANGED <<world, moves>>

\* Events fetched of the monitor at hand.
LEMMA DrainedOperates ==
  ASSUME MonitorInv, monitor' = Drained(monitor), UNCHANGED <<world, moves>>
  PROVE  Operated
<1>1. MonitorTyped /\ monitor \in Monitors /\ WatchesStand(monitor, world) /\ DatabasesKnown(monitor, world)
  BY DEF MonitorInv, MonitorKept, MonitorTyped
<1>2. LET n == Drained(monitor)
      IN /\ n \in Monitors /\ Follows(monitor, n) /\ WatchesStand(n, world)
         /\ n.requests = monitor.requests /\ n.armed = monitor.armed /\ n.connected = monitor.connected
         /\ ~n.failed => \A p \in Watched : Told(monitor, p) => Told(n, p)
  BY <1>1, DrainedKeeps
<1>3. ~Drained(monitor).failed => ~monitor.failed
  BY <1>1, <1>2 DEF Follows, Monitors
<1>4. DatabasesKnown(Drained(monitor), world)
  BY <1>1, <1>2, <1>3, PathFacts DEF DatabasesKnown
<1> QED BY <1>2, <1>4 DEF Operated

LEMMA SameOperates ==
  ASSUME MonitorInv, UNCHANGED <<monitor, world, moves>>
  PROVE  Operated
<1>1. monitor \in Monitors /\ WatchesStand(monitor, world) /\ DatabasesKnown(monitor, world)
  BY DEF MonitorInv, MonitorKept, MonitorTyped
<1> QED BY <1>1, FollowsItself DEF Operated

\* What such an operation keeps.
LEMMA OperatedKeeps ==
  ASSUME MonitorInv, Operated, session'.before = session.before,
         \/ job # Idle
         \/ job' = Idle
         \/ monitor'.failed \/ Databases \subseteq monitor'.requests
  PROVE  MonitorKept'
<1>1. MonitorTyped /\ MonitorKept
  BY DEF MonitorInv
<1>2. /\ monitor \in Monitors /\ monitor' \in Monitors /\ moves \in Nat /\ moves' = moves
      /\ session.before \in Tokens /\ monitor.accepted \in Tokens
  BY <1>1 DEF MonitorTyped, Monitors, Sessions, Operated
<1>3. /\ monitor'.generation >= monitor.generation /\ monitor'.accepted \in {monitor.accepted, NoToken}
      /\ monitor.failed => monitor'.failed
  BY DEF Operated, Follows
<1>4. TokenOf(session'.before, monitor', moves') /\ TokenOf(monitor'.accepted, monitor', moves')
  <2>1. TokenOf(session.before, monitor', moves) /\ TokenOf(monitor.accepted, monitor', moves)
    BY <1>1, <1>2, <1>3, TokenLasts DEF MonitorKept
  <2> QED BY <1>2, <1>3, <2>1 DEF TokenOf
<1>5. monitor'.failed \/ Databases \subseteq monitor'.requests \/ (job' = Idle /\ monitor'.accepted = NoToken)
  <2>1. CASE monitor.failed
    BY <1>3, <2>1
  <2>2. CASE Databases \subseteq monitor.requests
    BY <2>2 DEF Operated
  <2>3. CASE job = Idle /\ monitor.accepted = NoToken
    BY <1>3, <2>3
  <2> QED BY <1>1, <2>1, <2>2, <2>3 DEF MonitorKept
<1> QED BY <1>4, <1>5 DEF MonitorKept, Operated

\* What was known of a standing capture is still known.
LEMMA OperatedStands ==
  ASSUME MonitorInv, Operated, UNCHANGED <<rows, epoch>>, session'.epoch = session.epoch,
         session'.summary \in {session.summary, NoSummary}
  PROVE  SummarySound'
<1> SUFFICES ASSUME session.summary # NoSummary, epoch = session.epoch,
                    Stands(monitor', monitor'.accepted, world)
             PROVE  /\ monitor'.rearm = {}
                    /\ \A p \in Watched : monitor'.armed[p] # NoWatch /\ rows[p] = world[p].content
  BY DEF SummarySound, Operated
<1>1. /\ monitor \in Monitors /\ monitor' \in Monitors /\ Follows(monitor, monitor') /\ moves \in Nat
      /\ monitor.accepted \in Tokens /\ TokenOf(monitor.accepted, monitor, moves)
  BY DEF MonitorInv, MonitorTyped, MonitorKept, Monitors, Operated
<1>2. monitor'.accepted = monitor.accepted
  BY <1>1 DEF Follows, Stands
<1>3. /\ Stands(monitor, monitor.accepted, world) /\ monitor'.armed = monitor.armed
      /\ monitor'.rearm \subseteq monitor.rearm
  BY <1>1, <1>2, StandsBack
<1> QED BY <1>3 DEF MonitorInv, SummarySound

LEMMA FailStep ==
  ASSUME MonitorInv, Fail, UNCHANGED <<world, moves, syncs>>
  PROVE  MonitorInv'
<1>1. MonitorTyped'
  BY DEF MonitorInv, MonitorTyped, Fail, Jobs
<1>2. Operated
  BY SameOperates DEF Fail
<1>3. MonitorKept'
  BY <1>2, OperatedKeeps DEF Fail
<1>4. SummarySound'
  BY <1>2, OperatedStands DEF Fail
<1>5. SessionKept' /\ ReadWatched' /\ RunSound'
  BY DEF Fail, MonitorInv, SessionKept, ReadWatched, RunSound, Active, Idle
<1> QED BY <1>1, <1>3, <1>4, <1>5 DEF MonitorInv

LEMMA ReuseStep ==
  ASSUME MonitorInv, Reuse, UNCHANGED <<world, moves, syncs>>
  PROVE  MonitorInv'
<1>1. Operated
  BY DrainedOperates DEF Reuse
<1>2. MonitorTyped'
  BY <1>1 DEF MonitorInv, MonitorTyped, Reuse, Jobs, Operated
<1>3. MonitorKept'
  BY <1>1, OperatedKeeps DEF Reuse
<1>4. SummarySound'
  BY <1>1, OperatedStands DEF Reuse
<1>5. SessionKept' /\ ReadWatched' /\ RunSound'
  BY DEF Reuse, MonitorInv, SessionKept, ReadWatched, RunSound, Active, Idle
<1> QED BY <1>2, <1>3, <1>4, <1>5 DEF MonitorInv

LEMMA PrepareStep ==
  ASSUME MonitorInv, Prepare, UNCHANGED <<world, moves>>
  PROVE  MonitorInv'
<1> DEFINE kept == IF monitor.failed THEN NewMonitor ELSE monitor
           w == Watch(kept, Databases)
           n == Connect(w, Present(Databases))
<1>1. /\ MonitorTyped /\ monitor \in Monitors /\ WatchesStand(monitor, world) /\ session \in Sessions
      /\ moves \in Nat
  BY DEF MonitorInv, MonitorKept, MonitorTyped
<1>2. NewMonitor \in Monitors /\ WatchesStand(NewMonitor, world)
  <2>1. NewMonitor \in Monitors
    BY PathFacts DEF NewMonitor, Monitors, Tokens
  <2>2. /\ NewMonitor.requests = {} /\ NewMonitor.connected = {}
        /\ \A p \in Watched : NewMonitor.armed[p] = NoWatch
    BY DEF NewMonitor
  <2> QED BY <2>1, <2>2 DEF WatchesStand
<1>3. kept \in Monitors /\ WatchesStand(kept, world)
  BY <1>1, <1>2
<1> HIDE DEF kept
<1>4. /\ w \in Monitors /\ Follows(kept, w) /\ WatchesStand(w, world)
      /\ ~w.failed => w.requests = kept.requests \cup Databases
  BY <1>1, <1>3, WatchKeeps, PathFacts
<1> HIDE DEF w
<1>5. /\ n \in Monitors /\ Follows(w, n) /\ WatchesStand(n, world) /\ DatabasesKnown(n, world)
      /\ ~n.failed => w.requests \subseteq n.requests
  BY <1>1, <1>4, ConnectKeeps
<1> HIDE DEF n
<1>6. monitor' = n
  BY DEF Prepare, n, w, kept
<1>7. Follows(kept, n)
  BY <1>3, <1>4, <1>5, FollowsOn
<1>8. ~n.failed => Databases \subseteq n.requests /\ kept.requests \subseteq n.requests
  BY <1>4, <1>5 DEF Follows
<1>9. /\ session' = IF monitor.failed THEN NoSession ELSE session
      /\ job' = [at |-> "prepared"] /\ UNCHANGED <<rows, epoch>> /\ syncs' = syncs + 1
  BY DEF Prepare
<1>10. NoSession \in Sessions /\ NoSession.summary = NoSummary /\ NoSession.before = NoToken /\ NoSession.epoch = 0
  BY DEF NoSession, Sessions, Tokens, NoSummary
<1>11. MonitorTyped'
  <2>1. session' \in Sessions /\ job' \in Jobs /\ syncs' \in Nat
    BY <1>1, <1>9, <1>10 DEF Jobs, MonitorTyped
  <2> QED BY <1>1, <1>5, <1>6, <1>9, <2>1 DEF MonitorTyped
<1>12. ~Active' /\ SessionKept'
  <2>1. epoch \in Nat /\ session.epoch <= epoch
    BY DEF MonitorInv, MonitorTyped, SessionKept
  <2> QED BY <1>9, <1>10, <2>1 DEF Active, SessionKept
<1>13. ReadWatched' /\ RunSound'
  BY <1>12 DEF ReadWatched, RunSound
<1>14. CASE monitor.failed
  <2>1. kept.accepted = NoToken
    BY <1>14 DEF kept, NewMonitor
  <2>2. n.accepted = NoToken
    BY <1>7, <2>1 DEF Follows
  <2>3. session'.before = NoToken /\ session'.summary = NoSummary
    BY <1>9, <1>10, <1>14
  <2>4. MonitorKept' /\ SummarySound'
    BY <1>5, <1>6, <1>8, <2>2, <2>3 DEF MonitorKept, TokenOf, SummarySound
  <2> QED BY <1>11, <1>12, <1>13, <2>4 DEF MonitorInv
<1>15. CASE ~monitor.failed
  <2>1. kept = monitor
    BY <1>15 DEF kept
  <2>2. Operated
    BY <1>5, <1>6, <1>7, <1>8, <2>1 DEF Operated
  <2>3. session' = session
    BY <1>9, <1>15
  <2>4. MonitorKept'
    BY <1>6, <1>8, <2>2, <2>3, OperatedKeeps
  <2>5. SummarySound'
    BY <1>9, <2>2, <2>3, OperatedStands
  <2> QED BY <1>11, <1>12, <1>13, <2>4, <2>5 DEF MonitorInv
<1> QED BY <1>14, <1>15

LEMMA RearmStep ==
  ASSUME MonitorInv, Rearm, UNCHANGED <<world, moves, syncs>>
  PROVE  MonitorInv'
<1> DEFINE polled == Drained(monitor)
           set == Rearmed(polled)
           n == Connect(set, Present(Databases))
<1>1. /\ MonitorTyped /\ monitor \in Monitors /\ WatchesStand(monitor, world)
  BY DEF MonitorInv, MonitorKept, MonitorTyped
<1>2. /\ polled \in Monitors /\ Follows(monitor, polled) /\ WatchesStand(polled, world)
      /\ polled.requests = monitor.requests
  BY <1>1, DrainedKeeps
<1> HIDE DEF polled
<1>3. /\ set \in Monitors /\ Follows(polled, set) /\ WatchesStand(set, world)
      /\ ~set.failed => polled.requests \subseteq set.requests
  BY <1>1, <1>2, RearmedKeeps
<1> HIDE DEF set
<1>4. /\ n \in Monitors /\ Follows(set, n) /\ WatchesStand(n, world) /\ DatabasesKnown(n, world)
      /\ ~n.failed => set.requests \subseteq n.requests
  BY <1>1, <1>3, ConnectKeeps
<1> HIDE DEF n
<1>5. monitor' = n
  BY DEF Rearm, n, set, polled
<1>6. Follows(monitor, n)
  <2>1. Follows(monitor, set)
    BY <1>1, <1>2, <1>3, FollowsOn
  <2> QED BY <1>1, <1>3, <1>4, <2>1, FollowsOn
<1>7. ~n.failed => monitor.requests \subseteq n.requests
  BY <1>2, <1>3, <1>4 DEF Follows
<1>8. Operated
  BY <1>4, <1>5, <1>6, <1>7 DEF Operated
<1>9. /\ session' = [session EXCEPT !.summary = NoSummary] /\ job' = [at |-> "rearmed"] /\ job # Idle
      /\ UNCHANGED <<rows, epoch>>
  BY DEF Rearm, Idle
<1>10. /\ session' \in Sessions /\ session'.summary = NoSummary /\ session'.epoch = session.epoch
       /\ session'.before = session.before
  <2>1. session \in Sessions
    BY <1>1 DEF MonitorTyped
  <2> QED BY <1>9, <2>1 DEF Sessions, NoSummary
<1>11. MonitorTyped'
  BY <1>1, <1>4, <1>5, <1>9, <1>10 DEF MonitorTyped, Jobs
<1>12. MonitorKept'
  BY <1>8, <1>9, <1>10, OperatedKeeps
<1>13. SessionKept' /\ ReadWatched' /\ RunSound' /\ SummarySound'
  BY <1>9, <1>10 DEF MonitorInv, SessionKept, ReadWatched, RunSound, SummarySound, Active
<1> QED BY <1>11, <1>12, <1>13 DEF MonitorInv

LEMMA BeginStep ==
  ASSUME MonitorInv, BeginRun, UNCHANGED <<world, moves, syncs>>
  PROVE  MonitorInv'
<1> DEFINE n == Drained(monitor)
           t == Token(n)
<1>1. MonitorTyped /\ moves \in Nat /\ epoch \in Nat /\ session \in Sessions
  BY DEF MonitorInv, MonitorTyped
<1>2. Operated /\ monitor' = n
  BY DrainedOperates DEF BeginRun
<1>3. n \in Monitors
  BY <1>2 DEF Operated
<1>4. t \in Tokens /\ TokenOf(t, n, moves)
  <2> HIDE DEF n
  <2>1. CASE n.failed
    BY <2>1 DEF Token, Tokens, TokenOf
  <2>2. CASE ~n.failed
    <3>1. t = <<n.generation, [p \in n.connected |-> world[p].content]>>
      BY <2>2 DEF Token
    <3>2. \A p \in n.connected : world[p].content \in Nat /\ world[p].content <= moves + 1
      BY <1>1, <1>3, Inodes, PathFacts DEF Monitors
    <3>3. [p \in n.connected |-> world[p].content] \in Versions
      BY <1>3, <3>2 DEF Versions, Monitors
    <3>4. n.generation \in Nat
      BY <1>3 DEF Monitors
    <3>5. t \in Tokens
      BY <3>1, <3>3, <3>4 DEF Tokens
    <3>6. t[1] = n.generation /\ t[2] = [p \in n.connected |-> world[p].content]
      BY <3>1
    <3> QED BY <3>2, <3>4, <3>5, <3>6 DEF TokenOf
  <2> QED BY <2>1, <2>2
<1>5. /\ job.at = "rearmed" /\ job # Idle /\ job' = [at |-> "reading", left |-> Watched]
      /\ session' = [session EXCEPT !.epoch = epoch, !.before = t, !.eligible = t # NoToken]
      /\ UNCHANGED <<rows, epoch>>
  BY DEF BeginRun, Idle
<1> HIDE DEF n, t
<1>6. session' \in Sessions /\ session'.summary = session.summary /\ session'.before = t /\ session'.epoch = epoch
  BY <1>1, <1>4, <1>5 DEF Sessions
<1>7. session.summary = NoSummary
  BY <1>5 DEF MonitorInv, SessionKept
<1>8. MonitorTyped'
  <2>1. job' \in Jobs
    BY <1>5 DEF Jobs, Running
  <2> QED BY <1>1, <1>2, <1>3, <1>5, <1>6, <2>1 DEF MonitorTyped, BeginRun
<1>9. MonitorKept'
  <2>1. TokenOf(monitor'.accepted, monitor', moves')
    <3>1. /\ monitor \in Monitors /\ monitor.accepted \in Tokens /\ TokenOf(monitor.accepted, monitor, moves)
          /\ n.generation >= monitor.generation /\ n.accepted \in {monitor.accepted, NoToken}
      BY <1>1, <1>2 DEF MonitorInv, MonitorKept, MonitorTyped, Monitors, Operated, Follows
    <3>2. TokenOf(monitor.accepted, n, moves)
      BY <1>1, <1>3, <3>1, TokenLasts
    <3> QED BY <1>2, <3>1, <3>2 DEF TokenOf, Operated
  <2>2. TokenOf(session'.before, monitor', moves')
    BY <1>2, <1>4, <1>6 DEF Operated
  <2>3. monitor'.failed \/ Databases \subseteq monitor'.requests
    BY <1>2, <1>5 DEF MonitorInv, MonitorKept, Operated, Follows
  <2> QED BY <1>2, <2>1, <2>2, <2>3 DEF MonitorKept, Operated
<1>10. SessionKept' /\ ReadWatched' /\ RunSound' /\ SummarySound'
  BY <1>1, <1>5, <1>6, <1>7 DEF SessionKept, ReadWatched, RunSound, SummarySound, Active
<1> QED BY <1>8, <1>9, <1>10 DEF MonitorInv

LEMMA WatchStep ==
  ASSUME MonitorInv, NEW p \in Watched, WatchMedia(p), UNCHANGED <<world, moves, syncs>>
  PROVE  MonitorInv'
<1> DEFINE n == IF monitor.failed THEN monitor ELSE Watch(monitor, {p})
<1>1. /\ MonitorTyped /\ monitor \in Monitors /\ WatchesStand(monitor, world) /\ DatabasesKnown(monitor, world)
      /\ session \in Sessions /\ moves \in Nat
  BY DEF MonitorInv, MonitorKept, MonitorTyped
<1>2. /\ job.at = "reading" /\ p \in job.left /\ p \in Media /\ Active /\ job # Idle /\ job.left \in SUBSET Watched
      /\ job' = [at |-> "hashing", left |-> job.left, path |-> p]
      /\ UNCHANGED <<rows, epoch, session>> /\ monitor' = n
  BY <1>1, JobFacts DEF WatchMedia, Idle, Active, MonitorTyped
<1>3. /\ n \in Monitors /\ Follows(monitor, n) /\ WatchesStand(n, world) /\ n.connected = monitor.connected
      /\ ~n.failed =>
           /\ n.requests = monitor.requests \cup {p} /\ n.armed[p] = world[p].inode
           /\ \A q \in Watched \ {p} : n.armed[q] = monitor.armed[q] /\ (Told(monitor, q) => Told(n, q))
  <2>1. CASE monitor.failed
    BY <1>1, <2>1, FollowsItself
  <2>2. CASE ~monitor.failed
    <3>1. {p} \in SUBSET Watched
      OBVIOUS
    <3> QED BY <1>1, <2>2, <3>1, WatchKeeps
  <2> QED BY <2>1, <2>2
<1> HIDE DEF n
<1>4. ~n.failed => ~monitor.failed
  BY <1>3 DEF Follows
<1>5. p \notin Databases
  BY <1>2, MonitoredSyncAssumption
<1>6. DatabasesKnown(n, world)
  <2> SUFFICES ASSUME ~n.failed, Databases \subseteq n.requests, NEW q \in Databases \ n.connected,
                      world[q].inode # 0
               PROVE  Told(n, q)
    BY DEF DatabasesKnown
  <2>1. Databases \subseteq monitor.requests /\ q \in Watched \ {p} /\ q \notin monitor.connected
    BY <1>3, <1>5, PathFacts
  <2> QED BY <1>1, <1>3, <1>4, <2>1 DEF DatabasesKnown
<1>7. Operated
  BY <1>2, <1>3, <1>6 DEF Operated
<1>8. MonitorTyped'
  <2>1. job' \in Jobs
    BY <1>2 DEF Jobs, Running
  <2> QED BY <1>1, <1>2, <1>3, <2>1 DEF MonitorTyped
<1>9. MonitorKept'
  BY <1>2, <1>7, OperatedKeeps
<1>10. SummarySound'
  BY <1>2, <1>7, OperatedStands
<1>11. SessionKept'
  BY <1>2 DEF MonitorInv, SessionKept
<1>12. ReadWatched'
  <2> SUFFICES ASSUME ~n.failed
               PROVE  (\A q \in Watched \ job.left : n.armed[q] # NoWatch) /\ n.armed[p] # NoWatch
    BY <1>2 DEF ReadWatched
  <2>1. n.armed[p] # NoWatch
    BY <1>1, <1>3, Inodes
  <2>2. \A q \in Watched \ job.left : n.armed[q] # NoWatch
    BY <1>2, <1>3, <1>4 DEF MonitorInv, ReadWatched
  <2> QED BY <2>1, <2>2
<1>13. RunSound'
  <2> SUFFICES ASSUME session.eligible, epoch = session.epoch, Stands(n, session.before, world),
                      NEW q \in Watched \ job.left, q \notin n.rearm
               PROVE  rows[q] = world[q].content
    BY <1>2 DEF RunSound
  <2>1. session.before \in Tokens /\ TokenOf(session.before, monitor, moves)
    BY <1>1 DEF MonitorInv, MonitorKept, Sessions
  <2>2. Stands(monitor, session.before, world)
    BY <1>1, <1>3, <2>1, StandsBack
  <2>3. q \notin monitor.rearm
    <3>1. ~n.failed /\ n.pending = {}
      BY DEF Stands
    <3>2. ~Told(n, q)
      BY <3>1 DEF Told
    <3> QED BY <1>2, <1>3, <3>1, <3>2 DEF Told
  <2> QED BY <1>2, <2>2, <2>3 DEF MonitorInv, RunSound
<1> QED BY <1>8, <1>9, <1>10, <1>11, <1>12, <1>13 DEF MonitorInv

LEMMA ReadStep ==
  ASSUME MonitorInv, NEW p \in Watched, Read(p), UNCHANGED <<world, moves, syncs>>
  PROVE  MonitorInv'
<1>1. MonitorTyped /\ monitor \in Monitors /\ WatchesStand(monitor, world)
  BY DEF MonitorInv, MonitorKept, MonitorTyped
<1>2. /\ Active /\ job # Idle /\ job.left \in SUBSET Watched
      /\ (job.at = "reading" /\ p \in Databases) \/ (job.at = "hashing" /\ p = job.path)
      /\ job' = [at |-> "writing", left |-> job.left, path |-> p, content |-> world[p].content]
      /\ UNCHANGED <<rows, epoch, monitor, session>>
  BY <1>1, JobFacts DEF Read, Idle, Active, MonitorTyped
<1>3. MonitorTyped'
  <2>1. job' \in Jobs
    BY <1>1, <1>2, Inodes DEF Jobs, Running
  <2> QED BY <1>1, <1>2, <2>1 DEF MonitorTyped
<1>4. Operated
  BY <1>2, SameOperates
<1>5. MonitorKept' /\ SummarySound'
  BY <1>2, <1>4, OperatedKeeps, OperatedStands
<1>6. SessionKept'
  BY <1>2 DEF MonitorInv, SessionKept
<1>7. ReadWatched'
  <2> SUFFICES ASSUME ~monitor.failed
               PROVE  (\A q \in Watched \ job.left : monitor.armed[q] # NoWatch) /\ monitor.armed[p] # NoWatch
    BY <1>2 DEF ReadWatched
  <2>1. Databases \subseteq monitor.requests
    BY <1>2 DEF MonitorInv, MonitorKept
  <2>2. monitor.armed[p] # NoWatch
    BY <1>1, <1>2, <2>1 DEF WatchesStand, MonitorInv, ReadWatched
  <2> QED BY <1>2, <2>2 DEF MonitorInv, ReadWatched
<1>8. RunSound'
  BY <1>2 DEF MonitorInv, RunSound
<1> QED BY <1>3, <1>5, <1>6, <1>7, <1>8 DEF MonitorInv

LEMMA FlushStep ==
  ASSUME MonitorInv, Flush, UNCHANGED <<world, moves, syncs>>
  PROVE  MonitorInv'
<1>1. MonitorTyped /\ session \in Sessions /\ epoch \in Nat /\ rows \in [Watched -> Nat]
  BY DEF MonitorInv, MonitorTyped
<1>2. /\ Active /\ job # Idle /\ job.left \in SUBSET Watched /\ job.path \in Watched /\ job.content \in Nat
      /\ job.at = "writing" /\ rows' = [rows EXCEPT ![job.path] = job.content] /\ epoch' = epoch + 1
      /\ session' = [session EXCEPT !.eligible = session.eligible /\ epoch = session.epoch, !.epoch = epoch + 1]
      /\ job' = [at |-> "reading", left |-> job.left \ {job.path}] /\ UNCHANGED monitor
  BY <1>1, JobFacts DEF Flush, Idle, Active, MonitorTyped
<1>3. /\ session' \in Sessions /\ session'.summary = session.summary /\ session'.before = session.before
      /\ session'.epoch = epoch + 1 /\ (session'.eligible => session.eligible /\ epoch = session.epoch)
  <2> DEFINE still == session.eligible /\ epoch = session.epoch
  <2>1. session' = [session EXCEPT !.eligible = still, !.epoch = epoch + 1] /\ epoch + 1 \in Nat
    BY <1>1, <1>2
  <2>2. still \in BOOLEAN
    OBVIOUS
  <2> HIDE DEF still
  <2>3. /\ session' \in Sessions /\ session'.summary = session.summary /\ session'.before = session.before
        /\ session'.epoch = epoch + 1 /\ session'.eligible = still
    BY <1>1, <2>1, <2>2 DEF Sessions
  <2> QED BY <2>3 DEF still
<1>4. MonitorTyped'
  <2>1. job' \in Jobs
    BY <1>2 DEF Jobs, Running
  <2> QED BY <1>1, <1>2, <1>3, <2>1 DEF MonitorTyped
<1>5. Operated
  BY <1>2, SameOperates
<1>6. MonitorKept'
  BY <1>2, <1>3, <1>5, OperatedKeeps
<1>7. SessionKept' /\ SummarySound'
  <2>1. session.summary = NoSummary
    BY <1>2 DEF MonitorInv, SessionKept
  <2> QED BY <1>1, <1>2, <1>3, <2>1 DEF SessionKept, SummarySound
<1>8. ReadWatched'
  BY <1>2 DEF MonitorInv, ReadWatched
<1>9. RunSound'
  <2> SUFFICES ASSUME session'.eligible, Stands(monitor, session.before, world),
                      NEW q \in Watched \ (job.left \ {job.path}), q \notin monitor.rearm
               PROVE  rows'[q] = world[q].content
    BY <1>2, <1>3 DEF RunSound
  <2>1. /\ \A x \in Watched \ job.left : x \notin monitor.rearm => rows[x] = world[x].content
        /\ job.path \notin monitor.rearm => job.content = world[job.path].content
    BY <1>2, <1>3 DEF MonitorInv, RunSound
  <2> QED BY <1>1, <1>2, <2>1
<1> QED BY <1>4, <1>6, <1>7, <1>8, <1>9 DEF MonitorInv

LEMMA FinishStep ==
  ASSUME MonitorInv, Finish, UNCHANGED <<world, moves, syncs>>
  PROVE  MonitorInv'
<1> DEFINE n == Drained(monitor)
           good == Accepts(monitor, session.before)
<1>1. /\ MonitorTyped /\ monitor \in Monitors /\ WatchesStand(monitor, world) /\ DatabasesKnown(monitor, world)
      /\ session \in Sessions /\ moves \in Nat /\ moves' = moves /\ world' = world
      /\ session.before \in Tokens /\ TokenOf(session.before, monitor, moves)
  BY DEF MonitorInv, MonitorKept, MonitorTyped, Sessions
<1>2. /\ job.at = "reading" /\ Active /\ job # Idle /\ job.left = {} /\ job' = Idle /\ UNCHANGED <<rows, epoch>>
      /\ session.summary = NoSummary
  BY DEF Finish, Active, Idle, MonitorInv, SessionKept
<1>3. ~Active' /\ ReadWatched' /\ RunSound'
  BY <1>2 DEF ReadWatched, RunSound, Active, Idle
<1>4. CASE ~session.eligible
  <2>1. UNCHANGED <<monitor, session>>
    BY <1>4 DEF Finish
  <2>2. Operated
    BY <1>1, <2>1, SameOperates
  <2>3. MonitorKept' /\ SummarySound'
    BY <1>2, <2>1, <2>2, OperatedKeeps, OperatedStands
  <2>4. MonitorTyped'
    BY <1>1, <1>2, <2>1 DEF MonitorTyped, Jobs
  <2>5. SessionKept'
    BY <1>2, <2>1 DEF MonitorInv, SessionKept, Idle
  <2> QED BY <1>3, <2>3, <2>4, <2>5 DEF MonitorInv
<1>5. CASE session.eligible
  <2>1. LET d == Drained(monitor)
        IN /\ d \in Monitors /\ Follows(monitor, d) /\ WatchesStand(d, world) /\ d.requests = monitor.requests
           /\ d.armed = monitor.armed /\ d.connected = monitor.connected
           /\ ~d.failed => \A p \in Watched : Told(monitor, p) => Told(d, p)
    BY <1>1, DrainedKeeps
  <2>2. /\ monitor' = [n EXCEPT !.accepted = IF good THEN session.before ELSE NoToken]
        /\ session' = [session EXCEPT !.summary = IF good /\ epoch = session.epoch THEN 1 ELSE session.summary]
    BY <1>5 DEF Finish
  <2>3. good => /\ session.before # NoToken /\ Token(n) = session.before /\ n.rearm = {}
    BY DEF Accepts
  <2> HIDE DEF n, good
  <2>4. (IF good THEN session.before ELSE NoToken) \in Tokens
    BY <1>1 DEF Tokens
  <2>5. n \in Monitors
    BY <2>1 DEF n
  <2>6. /\ monitor' \in Monitors /\ monitor'.accepted = (IF good THEN session.before ELSE NoToken)
        /\ monitor'.armed = n.armed /\ monitor'.requests = n.requests /\ monitor'.pending = n.pending
        /\ monitor'.rearm = n.rearm /\ monitor'.connected = n.connected /\ monitor'.generation = n.generation
        /\ monitor'.failed = n.failed
    BY <2>2, <2>4, <2>5 DEF Monitors
  <2>7. /\ session' \in Sessions /\ session'.before = session.before /\ session'.epoch = session.epoch
        /\ session'.summary # NoSummary => good /\ epoch = session.epoch
    BY <1>1, <1>2, <2>2 DEF Sessions, NoSummary
  <2>8. MonitorTyped'
    BY <1>1, <1>2, <2>6, <2>7 DEF MonitorTyped, Jobs
  <2>9. SessionKept'
    BY <1>2, <2>7 DEF MonitorInv, SessionKept, Idle
  <2>10. \A p \in Watched : Told(monitor', p) <=> Told(n, p)
    BY <2>6 DEF Told
  <2>11. WatchesStand(monitor', world)
    <3>1. WatchesStand(n, world)
      BY <2>1 DEF n
    <3> QED BY <2>6, <2>10, <3>1 DEF WatchesStand
  <2>12. DatabasesKnown(monitor', world)
    <3>1. /\ n.requests = monitor.requests /\ n.connected = monitor.connected
          /\ ~n.failed => ~monitor.failed
          /\ ~n.failed => \A p \in Watched : Told(monitor, p) => Told(n, p)
      BY <1>1, <2>1 DEF n, Follows, Monitors
    <3> QED BY <1>1, <2>6, <2>10, <3>1, PathFacts DEF DatabasesKnown
  <2>13. TokenOf(session.before, monitor', moves)
    <3>1. monitor'.generation >= monitor.generation
      BY <2>1, <2>6 DEF n, Follows
    <3> QED BY <1>1, <2>6, <3>1, TokenLasts
  <2>14. MonitorKept'
    <3>1. TokenOf(monitor'.accepted, monitor', moves)
      BY <2>6, <2>13 DEF TokenOf
    <3>2. monitor'.failed \/ Databases \subseteq monitor'.requests
      BY <1>2, <2>1, <2>6 DEF n, Follows, MonitorInv, MonitorKept
    <3> QED BY <1>1, <2>7, <2>11, <2>12, <2>13, <3>1, <3>2 DEF MonitorKept
  <2>15. SummarySound'
    <3> SUFFICES ASSUME good, epoch = session.epoch
                 PROVE  /\ n.rearm = {}
                        /\ \A p \in Watched : n.armed[p] # NoWatch /\ rows[p] = world[p].content
      BY <1>1, <1>2, <2>6, <2>7 DEF SummarySound
    <3>1. Stands(monitor, session.before, world) /\ n.rearm = monitor.rearm
      BY <1>1, <2>3, FetchedStands DEF n
    <3>2. ~monitor.failed
      BY <3>1 DEF Stands
    <3>3. \A p \in Watched : rows[p] = world[p].content
      BY <1>2, <1>5, <2>3, <3>1 DEF MonitorInv, RunSound
    <3>4. \A p \in Watched : n.armed[p] # NoWatch
      BY <1>2, <2>1, <3>2 DEF MonitorInv, ReadWatched, n
    <3> QED BY <2>3, <3>3, <3>4
  <2> QED BY <1>3, <2>8, <2>9, <2>14, <2>15 DEF MonitorInv
<1> QED BY <1>4, <1>5

\* Every reachable state keeps the relation of what is recorded to what is watched: watches
\* stand or will be set again, tokens are of the past, and while a token stands, what its
\* run has read is what is there (adapters/monitor.py, sync_session.py).
THEOREM MonitorInvariance == MonitoredSpec => []MonitorInv
<1>1. MonitoredInit => MonitorInv
  BY MonitorInitially
<1>2. MonitorInv /\ [MonitoredNext]_monitoredVars => MonitorInv'
  <2> SUFFICES ASSUME MonitorInv, [MonitoredNext]_monitoredVars PROVE MonitorInv'
    OBVIOUS
  <2>1. CASE UNCHANGED monitoredVars
    BY <2>1 DEF monitoredVars, MonitorInv, MonitorTyped, MonitorKept, WatchesStand, DatabasesKnown,
                TokenOf, Stands, SessionKept, ReadWatched, RunSound, SummarySound, Active, Told
  <2>2. ASSUME NEW p \in Watched, Alter(p) \/ Arrive(p) \/ Displace(p) PROVE MonitorInv'
    BY <2>2, ShiftStep DEF Shift
  <2>3. ASSUME NEW p \in Watched, OtherWriter(p) PROVE MonitorInv'
    BY <2>3, WriterStep
  <2>4. CASE Prepare /\ UNCHANGED <<world, moves>>
    BY <2>4, PrepareStep
  <2>5. CASE Reuse /\ UNCHANGED <<world, moves, syncs>>
    BY <2>5, ReuseStep
  <2>6. CASE Rearm /\ UNCHANGED <<world, moves, syncs>>
    BY <2>6, RearmStep
  <2>7. CASE BeginRun /\ UNCHANGED <<world, moves, syncs>>
    BY <2>7, BeginStep
  <2>8. CASE Flush /\ UNCHANGED <<world, moves, syncs>>
    BY <2>8, FlushStep
  <2>9. CASE Finish /\ UNCHANGED <<world, moves, syncs>>
    BY <2>9, FinishStep
  <2>10. CASE Fail /\ UNCHANGED <<world, moves, syncs>>
    BY <2>10, FailStep
  <2>11. ASSUME NEW p \in Watched, WatchMedia(p), UNCHANGED <<world, moves, syncs>> PROVE MonitorInv'
    BY <2>11, WatchStep
  <2>12. ASSUME NEW p \in Watched, Read(p), UNCHANGED <<world, moves, syncs>> PROVE MonitorInv'
    BY <2>12, ReadStep
  <2> QED BY <2>1, <2>2, <2>3, <2>4, <2>5, <2>6, <2>7, <2>8, <2>9, <2>10, <2>11, <2>12 DEF MonitoredNext
<1> QED BY <1>1, <1>2, PTL DEF MonitoredSpec

\* A sync that reuses a capture stands on the source as it is and on rows as the capture
\* wrote them, whatever was written, replaced, removed or created meanwhile and however many
\* syncs the session runs (sync_session.py, reuse).
THEOREM ReuseIsSound == MonitoredSpec => []ReuseSound
<1>1. MonitorInv => ReuseSound
  <2> SUFFICES ASSUME MonitorInv, CanReuse PROVE \A p \in Watched : rows[p] = world[p].content
    BY DEF ReuseSound
  <2>1. /\ MonitorTyped /\ monitor \in Monitors /\ WatchesStand(monitor, world) /\ moves \in Nat
        /\ monitor.accepted \in Tokens /\ TokenOf(monitor.accepted, monitor, moves)
    BY DEF MonitorInv, MonitorKept, MonitorTyped, Monitors
  <2>2. /\ session.summary # NoSummary /\ epoch = session.epoch
        /\ monitor.accepted # NoToken /\ Token(Drained(monitor)) = monitor.accepted
    BY DEF CanReuse, Unmoved
  <2>3. Stands(monitor, monitor.accepted, world)
    BY <2>1, <2>2, FetchedStands
  <2> QED BY <2>2, <2>3 DEF MonitorInv, SummarySound
<1> QED BY <1>1, MonitorInvariance, PTL

(* The view of a source database ********************************************)
LogFrame == [page : LogPages, body : Nat, last : BOOLEAN]
LogChains   == Seq(LogFrame)
Cursors  == [file : Nat, gen : Nat, chain : LogChains]

\* Chain t continues chain s.
Continues(t, s) == Len(s) <= Len(t) /\ \A i \in 1 .. Len(s) : t[i] = s[i]

\* The log grew from x to y, or was begun anew.
Since(x, y) == x.gen < y.gen \/ (x.gen = y.gen /\ Continues(y.chain, x.chain))

\* What follows the index in the log is there: a commit that is being published, or the
\* open transaction; a generation without a header is empty.
LogFollows ==
  /\ index[1].gen \in 1 .. Len(base) /\ index[2].gen = index[1].gen
  /\ index[2] = index[1] \/ index[2].chain = index[1].chain \o writer
  /\ log.gen = index[1].gen => Len(index[1].chain) + Len(writer) <= Len(log.frames)
  /\ log.gen # index[1].gen => index[1].chain = <<>> /\ writer = <<>>

\* The chain of the cursor that is continued.
StartOf(v) == IF v.since = NoCursor THEN <<>> ELSE v.since.chain

LastWrite(chain, p, i) ==
  /\ i \in DOMAIN chain /\ chain[i].page = p
  /\ \A j \in DOMAIN chain : chain[j].page = p => j <= i

\* Table m names the last frame of every page that chain writes after its first n frames.
Names(m, chain, n) ==
  /\ \A p \in DOMAIN m : LastWrite(chain, p, m[p])
  /\ \A i \in DOMAIN chain : i > n => chain[i].page \in DOMAIN m

\* The log only went on while the view was pinned.
Pinning ==
  /\ view.at = "indexed" => Since(view.index, index[1])
  /\ view.at = "pinned" => Since(view.index, view.pin) /\ Since(view.pin, index[1])

ReadSoFar ==   \* the frames that were read continue the cursor's
  view.at = "reading" =>
    /\ view.pin = view.index /\ Continues(view.running, StartOf(view))
    /\ view.since # NoCursor => view.since.gen = view.header
    /\ Names(Over(view.pending, view.changed), view.running, Len(StartOf(view)))

ReadAll ==     \* the frames of the commit were read, and of no other
  view.at = "open" =>
    /\ view.pin = [gen |-> view.cursor.gen, chain |-> view.cursor.chain]
    /\ Continues(view.cursor.chain, StartOf(view))
    /\ view.since # NoCursor => view.since.gen = view.cursor.gen
    /\ Names(view.changed, view.cursor.chain, Len(StartOf(view)))

Marks      == [gen : Nat, chain : LogChains]
PageTables == UNION {[S -> Nat] : S \in SUBSET LogPages}
SinceWhat  == Cursors \cup {NoCursor}

Indexed == [at : {"indexed"}, file : Nat, since : SinceWhat, index : Marks]
AtPin   == [at : {"pinned"}, file : Nat, since : SinceWhat, index : Marks, pin : Marks, besideLog : BOOLEAN]
Reads   == [at : {"reading"}, file : Nat, since : SinceWhat, index : Marks, pin : Marks, besideLog : BOOLEAN,
            extent : Nat, header : Nat, running : LogChains, changed : PageTables, pending : PageTables]
Opened  == [at : {"open"}, file : Nat, since : SinceWhat, pin : Marks, besideLog : BOOLEAN,
            changed : PageTables, cursor : Cursors]

LogTyped ==
  /\ log \in [gen : Nat, frames : Seq([gen : Nat, chain : LogChains \ {<<>>}])]
  /\ index \in [1 .. 2 -> Marks] /\ writer \in LogChains
  /\ base \in Seq([LogPages -> Nat]) /\ synced \in BOOLEAN /\ versions \in Nat /\ file \in Nat

ViewTyped ==
  /\ after \in SinceWhat
  /\ view \in {Closed} \cup Indexed \cup AtPin \cup Reads \cup Opened

LogStays == UNCHANGED <<log, index, writer, base, synced, versions, file>>

SourceInv == LogTyped /\ ViewTyped /\ LogFollows /\ Pinning /\ ReadSoFar /\ ReadAll

LEMMA LeastNumber ==
  ASSUME NEW T \in SUBSET Nat, T # {}
  PROVE  \E n \in T : \A m \in T : n <= m
<1> DEFINE R == {p \in Nat \X Nat : p[1] < p[2]}
<1>1. IsWellFoundedOn(R, Nat)
  BY NatLessThanWellFounded DEF OpToRel
<1> HIDE DEF R
<1>2. PICK n \in T : \A m \in T : ~ (<<m, n>> \in R)
  BY <1>1, WFMin, Zenon
<1>3. \A m \in T : ~ (m < n)
  BY <1>2 DEF R
<1> QED BY <1>2, <1>3

\* A set of positions has a last one.
LEMMA LastOne ==
  ASSUME NEW n \in Nat, NEW S \in SUBSET (1 .. n), S # {}
  PROVE  Max(S) \in S /\ \A i \in S : i <= Max(S)
<1> DEFINE T == {n - i : i \in S}
<1>1. T \in SUBSET Nat /\ T # {}
  <2>1. ASSUME NEW i \in S PROVE n - i \in Nat
    <3>1. i \in Nat /\ i <= n
      OBVIOUS
    <3> QED BY <3>1
  <2>2. PICK i \in S : TRUE
    OBVIOUS
  <2>3. n - i \in T
    OBVIOUS
  <2> QED BY <2>1, <2>3
<1>2. PICK k \in T : \A m \in T : k <= m
  BY <1>1, LeastNumber
<1>3. PICK i \in S : k = n - i
  BY <1>2
<1>4. \A j \in S : n - j \in T
  OBVIOUS
<1> HIDE DEF T
<1>5. \A j \in S : i >= j
  BY <1>2, <1>3, <1>4
<1>6. Max(S) \in S /\ \A j \in S : Max(S) >= j
  BY <1>5 DEF Max
<1> QED BY <1>6

LEMMA ChainFacts ==
  ASSUME NEW chain \in LogChains
  PROVE  /\ Len(chain) \in Nat /\ DOMAIN chain = 1 .. Len(chain)
         /\ \A i \in 1 .. Len(chain) : chain[i] \in LogFrame
BY DEF LogChains

LEMMA LastWriteExists ==
  ASSUME NEW chain \in LogChains, NEW p, NEW k \in DOMAIN chain, chain[k].page = p
  PROVE  \E i \in DOMAIN chain : LastWrite(chain, p, i)
<1> DEFINE S == {i \in DOMAIN chain : chain[i].page = p}
<1>1. S \in SUBSET (1 .. Len(chain)) /\ S # {} /\ Len(chain) \in Nat
  BY ChainFacts
<1> HIDE DEF S
<1>2. Max(S) \in S /\ \A i \in S : i <= Max(S)
  BY <1>1, LastOne
<1> QED BY <1>2 DEF S, LastWrite

LEMMA ImageIs ==
  ASSUME NEW gen, NEW chain \in LogChains, NEW p \in LogPages
  PROVE  /\ \A i : LastWrite(chain, p, i) => Image(gen, chain)[p] = chain[i].body
         /\ (\A i \in DOMAIN chain : chain[i].page # p) => Image(gen, chain)[p] = base[gen][p]
<1> DEFINE S == {i \in DOMAIN chain : chain[i].page = p}
<1>1. Image(gen, chain)[p] = IF S = {} THEN base[gen][p] ELSE chain[Max(S)].body
  BY DEF Image
<1>2. ASSUME NEW i, LastWrite(chain, p, i)
      PROVE  Image(gen, chain)[p] = chain[i].body
  <2>1. i \in S /\ \A j \in S : j <= i
    BY <1>2 DEF LastWrite
  <2>2. S \in SUBSET (1 .. Len(chain)) /\ S # {} /\ Len(chain) \in Nat
    BY <2>1, ChainFacts
  <2> HIDE DEF S
  <2>3. Max(S) \in S /\ \A j \in S : j <= Max(S)
    BY <2>2, LastOne
  <2>4. Max(S) \in 1 .. Len(chain) /\ i \in 1 .. Len(chain) /\ Max(S) <= i /\ i <= Max(S)
    BY <2>1, <2>2, <2>3
  <2>5. Max(S) = i
    BY <2>2, <2>4
  <2> QED BY <1>1, <2>2, <2>5
<1> QED BY <1>1, <1>2

LEMMA MarkFacts ==
  ASSUME NEW x \in Marks
  PROVE  /\ x.gen \in Nat /\ x.chain \in LogChains
         /\ Len(x.chain) \in Nat /\ x = [gen |-> x.gen, chain |-> x.chain]
BY ChainFacts DEF Marks

LEMMA SinceItself == \A x \in Marks : Since(x, x)
BY MarkFacts DEF Since, Continues

LEMMA SinceOn ==
  ASSUME NEW x \in Marks, NEW y \in Marks, NEW z \in Marks, Since(x, y), Since(y, z)
  PROVE  Since(x, z)
<1>1. CASE x.gen < y.gen \/ y.gen < z.gen
  BY <1>1, MarkFacts DEF Since
<1>2. CASE ~(x.gen < y.gen \/ y.gen < z.gen)
  <2>1. Continues(y.chain, x.chain) /\ Continues(z.chain, y.chain) /\ x.gen = z.gen
    BY <1>2 DEF Since
  <2>2. Continues(z.chain, x.chain)
    BY <2>1, MarkFacts DEF Continues
  <2> QED BY <2>1, <2>2 DEF Since
<1> QED BY <1>1, <1>2

LEMMA SinceBoth ==
  ASSUME NEW x \in Marks, NEW y \in Marks, Since(x, y), Since(y, x)
  PROVE  x = y
<1>1. x.gen = y.gen /\ Continues(y.chain, x.chain) /\ Continues(x.chain, y.chain)
  BY MarkFacts DEF Since
<1>2. Len(x.chain) = Len(y.chain) /\ \A i \in 1 .. Len(x.chain) : x.chain[i] = y.chain[i]
  BY <1>1, MarkFacts DEF Continues
<1>3. x.chain = y.chain
  BY <1>2, MarkFacts DEF LogChains
<1> QED BY <1>1, <1>3, MarkFacts

LEMMA LogFacts ==
  ASSUME LogTyped
  PROVE  /\ log = [gen |-> log.gen, frames |-> log.frames] /\ log.gen \in Nat
         /\ log.frames \in Seq([gen : Nat, chain : LogChains \ {<<>>}])
         /\ Len(log.frames) \in Nat /\ DOMAIN log.frames = 1 .. Len(log.frames)
         /\ index[1] \in Marks /\ index[2] \in Marks /\ DOMAIN index = 1 .. 2
         /\ Len(writer) \in Nat /\ Len(base) \in Nat
BY ChainFacts DEF LogTyped

\* What is not touched by the messaging application stays as it was.
LEMMA ViewRests ==
  ASSUME SourceInv, LogTyped', UNCHANGED <<view, after>>, Since(index[1], index'[1])
  PROVE  ViewTyped' /\ Pinning' /\ ReadSoFar' /\ ReadAll'
<1>1. index[1] \in Marks /\ index'[1] \in Marks
  BY DEF SourceInv, LogTyped
<1>2. ViewTyped'
  BY DEF SourceInv, ViewTyped
<1>3. ReadSoFar' /\ ReadAll'
  BY DEF SourceInv, ReadSoFar, ReadAll
<1>4. CASE view.at = "indexed"
  <2>1. view.index \in Marks
    BY <1>4 DEF SourceInv, ViewTyped, Closed, Indexed, AtPin, Reads, Opened
  <2>2. Since(view.index, index'[1])
    BY <1>1, <1>4, <2>1, SinceOn DEF SourceInv, Pinning
  <2> QED BY <1>2, <1>3, <1>4, <2>2 DEF Pinning
<1>5. CASE view.at = "pinned"
  <2>1. view.pin \in Marks
    BY <1>5 DEF SourceInv, ViewTyped, Closed, Indexed, AtPin, Reads, Opened
  <2>2. Since(view.index, view.pin) /\ Since(view.pin, index'[1])
    BY <1>1, <1>5, <2>1, SinceOn DEF SourceInv, Pinning
  <2> QED BY <1>2, <1>3, <1>5, <2>2 DEF Pinning
<1> QED BY <1>2, <1>3, <1>4, <1>5 DEF Pinning

LEMMA SourceStarts == SourceInit => SourceInv
<1> SUFFICES ASSUME SourceInit PROVE SourceInv
  OBVIOUS
<1>1. LogTyped
  <2>1. <<>> \in LogChains /\ [gen |-> 1, chain |-> <<>>] \in Marks
    BY DEF LogChains, Marks
  <2>2. index \in [1 .. 2 -> Marks]
    BY <2>1 DEF SourceInit
  <2>3. log \in [gen : Nat, frames : Seq([gen : Nat, chain : LogChains \ {<<>>}])]
    BY DEF SourceInit
  <2>4. base \in Seq([LogPages -> Nat])
    BY DEF SourceInit
  <2> QED BY <2>1, <2>2, <2>3, <2>4 DEF SourceInit, LogTyped
<1>2. ViewTyped
  BY DEF SourceInit, ViewTyped, SinceWhat
<1>3. LogFollows
  BY DEF SourceInit, LogFollows
<1>4. Pinning /\ ReadSoFar /\ ReadAll
  BY DEF SourceInit, Pinning, ReadSoFar, ReadAll, Closed
<1> QED BY <1>1, <1>2, <1>3, <1>4 DEF SourceInv

(* The messaging application. ***********************************************)
LEMMA WriteHeaderStep == SourceInv /\ WriteHeader => SourceInv'
<1> SUFFICES ASSUME SourceInv, WriteHeader PROVE SourceInv'
  OBVIOUS
<1> USE DEF SourceInv
<1>1. log' = [gen |-> index[1].gen, frames |-> log.frames]
  BY LogFacts DEF WriteHeader
<1>2. LogTyped'
  BY <1>1, LogFacts, MarkFacts DEF WriteHeader, LogTyped
<1>3. LogFollows'
  BY <1>1, LogFacts DEF WriteHeader, LogFollows
<1>4. Since(index[1], index'[1])
  BY SinceItself, LogFacts DEF WriteHeader
<1>5. UNCHANGED <<view, after>>
  BY DEF WriteHeader
<1> QED BY <1>2, <1>3, <1>4, <1>5, ViewRests

LEMMA Joined ==
  ASSUME NEW S, NEW s \in Seq(S), NEW t \in Seq(S)
  PROVE  /\ s \o t \in Seq(S) /\ Len(s \o t) = Len(s) + Len(t) /\ Len(s) \in Nat /\ Len(t) \in Nat
         /\ \A i \in 1 .. Len(s) : (s \o t)[i] = s[i]
         /\ \A i \in 1 .. Len(t) : (s \o t)[Len(s) + i] = t[i]
OBVIOUS

\* Element n of a sequence is written, at its end or over what is there.
LEMMA Overwritten ==
  ASSUME NEW S, NEW s \in Seq(S), NEW n \in 1 .. Len(s) + 1, NEW x \in S
  PROVE  /\ SubSeq(s, 1, n - 1) \o <<x>> \o SubSeq(s, n + 1, Len(s)) \in Seq(S)
         /\ Len(SubSeq(s, 1, n - 1) \o <<x>> \o SubSeq(s, n + 1, Len(s))) >= n
<1> DEFINE u == SubSeq(s, 1, n - 1)
           v == SubSeq(s, n + 1, Len(s))
           w == u \o <<x>>
<1>1. u \in Seq(S) /\ Len(u) = n - 1
  OBVIOUS
<1>2. v \in Seq(S) /\ Len(v) \in Nat
  OBVIOUS
<1>3. <<x>> \in Seq(S) /\ Len(<<x>>) = 1
  OBVIOUS
<1> HIDE DEF u, v
<1>4. w \in Seq(S) /\ Len(w) = n
  BY <1>1, <1>3, Joined
<1> HIDE DEF w
<1>5. w \o v \in Seq(S) /\ Len(w \o v) >= n
  BY <1>2, <1>4, Joined
<1> QED BY <1>5 DEF u, v, w

LEMMA OneMore ==
  ASSUME NEW a \in Nat, NEW b \in Nat, NEW c, c = b + 1
  PROVE  a + c = a + b + 1
OBVIOUS

LEMMA WriteFrameStep ==
  ASSUME SourceInv, NEW p \in LogPages, NEW last \in BOOLEAN, WriteFrame(p, last)
  PROVE  SourceInv'
<1>0. LogTyped /\ LogFollows /\ Len(writer) \in Nat /\ Len(log.frames) \in Nat
  BY LogFacts DEF SourceInv
<1> DEFINE x == [page |-> p, body |-> versions + 1, last |-> last]
           chain == index[1].chain \o Append(writer, x)
           n == Len(chain)
           f == [gen |-> log.gen, chain |-> chain]
<1>1. x \in LogFrame
  BY <1>0 DEF LogTyped, LogFrame
<1> HIDE DEF x
<1>2. Append(writer, x) \in LogChains /\ Len(Append(writer, x)) = Len(writer) + 1
      /\ index[1].chain \in LogChains /\ Len(index[1].chain) \in Nat
  BY <1>0, <1>1, LogFacts, MarkFacts DEF LogTyped, LogChains
<1>3. chain \in LogChains /\ n = Len(index[1].chain) + Len(writer) + 1 /\ chain[n] = x
  <2>1. Append(writer, x)[Len(writer) + 1] = x
    BY <1>0, <1>1 DEF LogTyped, LogChains
  <2> DEFINE w == Append(writer, x)
  <2>2. w \in LogChains /\ Len(w) = Len(writer) + 1 /\ w[Len(writer) + 1] = x
    BY <1>2, <2>1
  <2> HIDE DEF w
  <2>3. chain = index[1].chain \o w
    BY DEF w
  <2> HIDE DEF chain
  <2>4. chain \in LogChains /\ Len(chain) = Len(index[1].chain) + Len(w)
    BY <1>2, <2>2, <2>3, Joined DEF LogChains
  <2>5. chain[Len(index[1].chain) + Len(w)] = w[Len(w)]
    <3>1. Len(w) \in 1 .. Len(w)
      BY <1>0, <2>2
    <3>2. \A i \in 1 .. Len(w) : (index[1].chain \o w)[Len(index[1].chain) + i] = w[i]
      BY <1>2, <2>2, Joined DEF LogChains
    <3> QED BY <2>3, <3>1, <3>2
  <2>6. Len(index[1].chain) + Len(w) = Len(index[1].chain) + Len(writer) + 1
    <3>1. Len(w) = Len(writer) + 1 /\ Len(writer) \in Nat /\ Len(index[1].chain) \in Nat
      BY <1>0, <1>2, <2>2
    <3> QED BY <3>1, OneMore
  <2>7. Len(w) = Len(writer) + 1 /\ w[Len(w)] = x
    BY <2>2
  <2>8. chain[Len(index[1].chain) + Len(writer) + 1] = x
    BY <2>5, <2>6, <2>7
  <2> QED BY <2>4, <2>6, <2>8
<1>4. writer' = Append(writer, x)
  BY <1>3 DEF WriteFrame, x, Last
<1>5. log' = [log EXCEPT !.frames = SubSeq(@, 1, n - 1) \o <<f>> \o SubSeq(@, n + 1, Len(@))]
  BY DEF WriteFrame, x
<1>6. log.gen = index[1].gen /\ index[1] = index[2]
  BY DEF WriteFrame, Committed
<1>7. n \in 1 .. Len(log.frames) + 1 /\ f \in [gen : Nat, chain : LogChains \ {<<>>}]
  <2>1. Len(index[1].chain) + Len(writer) <= Len(log.frames)
    BY <1>0, <1>6 DEF LogFollows
  <2> HIDE DEF chain
  <2>2. n > 0
    BY <1>0, <1>2, <1>3
  <2>3. chain # <<>>
    BY <2>2
  <2> QED BY <1>0, <1>2, <1>3, <2>1, <2>3, LogFacts
<1> HIDE DEF n, f, chain
<1>8. /\ log'.gen = log.gen /\ log' = [gen |-> log'.gen, frames |-> log'.frames]
      /\ log'.frames = SubSeq(log.frames, 1, n - 1) \o <<f>> \o SubSeq(log.frames, n + 1, Len(log.frames))
  BY <1>0, <1>5, LogFacts
<1>9. log'.frames \in Seq([gen : Nat, chain : LogChains \ {<<>>}]) /\ Len(log'.frames) >= n
  <2> DEFINE S == [gen : Nat, chain : LogChains \ {<<>>}]
             s == log.frames
  <2>1. s \in Seq(S) /\ n \in 1 .. Len(s) + 1 /\ f \in S
    BY <1>0, <1>7, LogFacts
  <2>2. log'.frames = SubSeq(s, 1, n - 1) \o <<f>> \o SubSeq(s, n + 1, Len(s))
    BY <1>8
  <2> HIDE DEF S, s
  <2>3. log'.frames \in Seq(S) /\ Len(log'.frames) >= n
    BY <2>1, <2>2, Overwritten
  <2> QED BY <2>3 DEF S
<1>10. LogTyped'
  <2>1. UNCHANGED <<index, base, synced, file>> /\ versions' = versions + 1
    BY DEF WriteFrame
  <2>2. log' \in [gen : Nat, frames : Seq([gen : Nat, chain : LogChains \ {<<>>}])]
    BY <1>0, <1>8, <1>9, LogFacts
  <2> QED BY <1>0, <1>2, <1>4, <2>1, <2>2 DEF LogTyped
<1>11. LogFollows'
  <2>1. UNCHANGED <<index, base>>
    BY DEF WriteFrame
  <2>2. Len(index[1].chain) + Len(writer') <= Len(log'.frames)
    <3>1. Len(log'.frames) \in Nat
      BY <1>9
    <3>2. Len(writer') = Len(writer) + 1
      BY <1>2, <1>4
    <3>3. Len(index[1].chain) + Len(writer') = n
      <4>1. Len(writer) \in Nat /\ Len(index[1].chain) \in Nat
        BY <1>0, <1>2
      <4> QED BY <1>3, <3>2, <4>1, OneMore
    <3> QED BY <1>9, <3>1, <3>3
  <2> QED BY <1>0, <1>6, <1>8, <2>1, <2>2 DEF LogFollows
<1>12. Since(index[1], index'[1]) /\ UNCHANGED <<view, after>>
  BY <1>0, SinceItself, LogFacts DEF WriteFrame
<1> QED BY <1>10, <1>11, <1>12, ViewRests DEF SourceInv

LEMMA PublishFirstStep == SourceInv /\ PublishFirst => SourceInv'
<1> SUFFICES ASSUME SourceInv, PublishFirst PROVE SourceInv'
  OBVIOUS
<1>0. LogTyped /\ LogFollows
  BY DEF SourceInv
<1>1. index[1] = index[2] /\ writer # <<>>
  BY DEF PublishFirst, Committed
<1>2. /\ index' = [index EXCEPT ![2].chain = @ \o writer]
      /\ UNCHANGED <<log, writer, base, versions, file, after, view>> /\ synced' = FALSE
  BY DEF PublishFirst
<1> DEFINE chain == index[2].chain \o writer
<1>3. chain \in LogChains
  <2>1. index[2].chain \in LogChains /\ writer \in LogChains
    BY <1>0, LogFacts, MarkFacts DEF LogTyped
  <2> QED BY <2>1, Joined DEF LogChains
<1> HIDE DEF chain
<1>4. index'[1] = index[1] /\ index'[2] = [gen |-> index[2].gen, chain |-> chain] /\ index' \in [1 .. 2 -> Marks]
  <2>1. index' = [index EXCEPT ![2] = [index[2] EXCEPT !.chain = chain]]
    BY <1>2 DEF chain
  <2>2. [index[2] EXCEPT !.chain = chain] = [gen |-> index[2].gen, chain |-> chain]
    BY <1>0, LogFacts, MarkFacts
  <2>3. [gen |-> index[2].gen, chain |-> chain] \in Marks
    BY <1>0, <1>3, LogFacts, MarkFacts DEF Marks
  <2> QED BY <1>0, <2>1, <2>2, <2>3 DEF LogTyped
<1>5. LogTyped'
  BY <1>0, <1>2, <1>4 DEF LogTyped
<1>6. LogFollows'
  <2>1. log' = log /\ base' = base /\ writer' = writer
    BY <1>2
  <2>2. index'[1] = index[1] /\ index'[2].chain = index[1].chain \o writer /\ index'[2].gen = index[2].gen
    BY <1>1, <1>4 DEF chain
  <2> QED BY <1>0, <2>1, <2>2 DEF LogFollows
<1>7. Since(index[1], index'[1]) /\ UNCHANGED <<view, after>>
  BY <1>0, <1>2, <1>4, SinceItself, LogFacts
<1> QED BY <1>5, <1>6, <1>7, ViewRests DEF SourceInv

LEMMA PublishSecondStep == SourceInv /\ PublishSecond => SourceInv'
<1> SUFFICES ASSUME SourceInv, PublishSecond PROVE SourceInv'
  OBVIOUS
<1>0. LogTyped /\ LogFollows
  BY DEF SourceInv
<1>1. index[2].chain = index[1].chain \o writer /\ index[2].gen = index[1].gen
  BY <1>0 DEF PublishSecond, Committed, LogFollows
<1>2. /\ index' = <<index[2], index[2]>> /\ writer' = <<>>
      /\ UNCHANGED <<log, base, synced, versions, file, after, view>>
  BY DEF PublishSecond
<1>3. /\ index[1].chain \in LogChains /\ writer \in LogChains
      /\ Len(index[1].chain) \in Nat /\ Len(writer) \in Nat
      /\ Len(index[2].chain) = Len(index[1].chain) + Len(writer)
      /\ \A i \in 1 .. Len(index[1].chain) : index[2].chain[i] = index[1].chain[i]
  <2>1. index[1].chain \in LogChains /\ writer \in LogChains
    BY <1>0, LogFacts, MarkFacts DEF LogTyped
  <2> QED BY <1>1, <2>1, Joined DEF LogChains
<1>4. LogTyped'
  <2>1. index' \in [1 .. 2 -> Marks] /\ writer' \in LogChains
    BY <1>0, <1>2, LogFacts DEF LogChains
  <2> QED BY <1>0, <1>2, <2>1 DEF LogTyped
<1>5. LogFollows'
  <2>1. index'[1] = index[2] /\ index'[2] = index[2] /\ Len(writer') = 0
    BY <1>2
  <2>2. log.gen = index[1].gen => Len(index[2].chain) + 0 <= Len(log.frames)
    BY <1>0, <1>3, LogFacts DEF LogFollows
  <2>3. log.gen # index[1].gen => index[2].chain = <<>>
    BY <1>0, <1>1, <1>3 DEF LogFollows
  <2>4. log' = log /\ base' = base
    BY <1>2
  <2> QED BY <1>0, <1>1, <1>2, <2>1, <2>2, <2>3, <2>4 DEF LogFollows
<1>6. Since(index[1], index'[1]) /\ UNCHANGED <<view, after>>
  <2>1. index'[1] = index[2] /\ Len(index[1].chain) <= Len(index[2].chain)
    BY <1>2, <1>3
  <2> QED BY <1>1, <1>2, <1>3, <2>1 DEF Since, Continues
<1> QED BY <1>4, <1>5, <1>6, ViewRests DEF SourceInv

LEMMA RollbackStep == SourceInv /\ Rollback => SourceInv'
<1> SUFFICES ASSUME SourceInv, Rollback PROVE SourceInv'
  OBVIOUS
<1>0. LogTyped /\ LogFollows
  BY DEF SourceInv
<1>1. writer' = <<>> /\ UNCHANGED <<log, index, base, synced, versions, file, after, view>>
  BY DEF Rollback
<1>2. index[1] = index[2]
  BY DEF Rollback, Committed
<1>3. LogTyped'
  BY <1>0, <1>1 DEF LogTyped, LogChains
<1>4. LogFollows'
  <2>1. Len(writer') = 0 /\ Len(index[1].chain) \in Nat /\ Len(writer) \in Nat /\ Len(log.frames) \in Nat
    BY <1>0, <1>1, LogFacts, MarkFacts
  <2> QED BY <1>0, <1>1, <1>2, <2>1 DEF LogFollows
<1>5. Since(index[1], index'[1]) /\ UNCHANGED <<view, after>>
  BY <1>0, <1>1, SinceItself, LogFacts
<1> QED BY <1>3, <1>4, <1>5, ViewRests DEF SourceInv

LEMMA CheckpointStep == SourceInv /\ Checkpoint => SourceInv'
<1> SUFFICES ASSUME SourceInv, Checkpoint PROVE SourceInv'
  OBVIOUS
<1>0. LogTyped /\ LogFollows
  BY DEF SourceInv
<1>1. synced' = TRUE /\ UNCHANGED <<log, index, writer, base, versions, file, after, view>>
  BY DEF Checkpoint
<1>2. LogTyped' /\ LogFollows'
  BY <1>0, <1>1 DEF LogTyped, LogFollows
<1>3. Since(index[1], index'[1]) /\ UNCHANGED <<view, after>>
  BY <1>0, <1>1, SinceItself, LogFacts
<1> QED BY <1>2, <1>3, ViewRests DEF SourceInv

LEMMA ImageTyped ==
  ASSUME LogTyped, NEW gen \in 1 .. Len(base), NEW chain \in LogChains
  PROVE  Image(gen, chain) \in [LogPages -> Nat]
<1>1. ASSUME NEW p \in LogPages
      PROVE  Image(gen, chain)[p] \in Nat
  <2>1. CASE \A i \in DOMAIN chain : chain[i].page # p
    <3>1. Image(gen, chain)[p] = base[gen][p]
      BY <2>1, ImageIs
    <3>2. base[gen] \in [LogPages -> Nat]
      BY DEF LogTyped
    <3> QED BY <3>1, <3>2
  <2>2. CASE \E k \in DOMAIN chain : chain[k].page = p
    <3>1. PICK i \in DOMAIN chain : LastWrite(chain, p, i)
      BY <2>2, LastWriteExists
    <3>2. Image(gen, chain)[p] = chain[i].body
      BY <3>1, ImageIs
    <3> QED BY <3>1, <3>2, ChainFacts DEF LogFrame
  <2> QED BY <2>1, <2>2
<1>2. Image(gen, chain) = [p \in LogPages |-> Image(gen, chain)[p]]
  BY DEF Image
<1> QED BY <1>1, <1>2

\* The log is begun anew: another generation, on another content.
LEMMA Anew ==
  ASSUME LogTyped, LogFollows, NEW image \in [LogPages -> Nat],
         base' = Append(base, image),
         index' = [c \in 1 .. 2 |-> [gen |-> Len(base) + 1, chain |-> <<>>]]
  PROVE  /\ base' \in Seq([LogPages -> Nat]) /\ Len(base') = Len(base) + 1
         /\ index' \in [1 .. 2 -> Marks] /\ index'[1] = index'[2]
         /\ index'[1].gen = Len(base) + 1 /\ index'[1].gen \in 1 .. Len(base')
         /\ index'[1].chain = <<>> /\ Len(index'[1].chain) = 0
         /\ Since(index[1], index'[1])
<1>1. Len(base) \in Nat /\ index[1].gen \in 1 .. Len(base)
  BY LogFacts DEF LogFollows
<1>2. base' \in Seq([LogPages -> Nat]) /\ Len(base') = Len(base) + 1
  BY DEF LogTyped
<1>3. <<>> \in LogChains
  BY DEF LogChains
<1>4. index'[1] = [gen |-> Len(base) + 1, chain |-> <<>>] /\ index'[2] = [gen |-> Len(base) + 1, chain |-> <<>>]
  OBVIOUS
<1>5. index' \in [1 .. 2 -> Marks]
  BY <1>1, <1>3 DEF Marks
<1>6. index[1].gen < index'[1].gen
  BY <1>1, <1>4
<1> QED BY <1>1, <1>2, <1>4, <1>5, <1>6 DEF Since

LEMMA RestartLogStep == SourceInv /\ RestartLog => SourceInv'
<1> SUFFICES ASSUME SourceInv, RestartLog PROVE SourceInv'
  OBVIOUS
<1>0. LogTyped /\ LogFollows
  BY DEF SourceInv
<1>1. /\ base' = Append(base, Image(index[1].gen, index[1].chain))
      /\ index' = [c \in 1 .. 2 |-> [gen |-> Len(base) + 1, chain |-> <<>>]]
      /\ synced' = FALSE /\ writer = <<>> /\ UNCHANGED <<log, writer, versions, file, after, view>>
  BY DEF RestartLog
<1>2. Image(index[1].gen, index[1].chain) \in [LogPages -> Nat]
  BY <1>0, ImageTyped, LogFacts, MarkFacts DEF LogFollows
<1>3. /\ base' \in Seq([LogPages -> Nat]) /\ index' \in [1 .. 2 -> Marks] /\ index'[1] = index'[2]
      /\ index'[1].gen \in 1 .. Len(base')
      /\ index'[1].chain = <<>> /\ Len(index'[1].chain) = 0 /\ Since(index[1], index'[1])
  BY <1>0, <1>1, <1>2, Anew
<1>4. LogTyped'
  BY <1>0, <1>1, <1>3 DEF LogTyped
<1>5. LogFollows'
  <2>1. Len(writer') = 0 /\ Len(log'.frames) \in Nat
    BY <1>0, <1>1, LogFacts
  <2>2. writer' = <<>>
    BY <1>1
  <2>3. Len(index'[1].chain) + Len(writer') <= Len(log'.frames)
    BY <1>3, <2>1
  <2> QED BY <1>3, <2>2, <2>3 DEF LogFollows
<1> QED BY <1>1, <1>3, <1>4, <1>5, ViewRests DEF SourceInv

LEMMA ReplaceSourceStep == SourceInv /\ ReplaceSource => SourceInv'
<1> SUFFICES ASSUME SourceInv, ReplaceSource PROVE SourceInv'
  OBVIOUS
<1>0. LogTyped /\ LogFollows
  BY DEF SourceInv
<1>1. /\ base' = Append(base, [p \in LogPages |-> versions + 1])
      /\ index' = [c \in 1 .. 2 |-> [gen |-> Len(base) + 1, chain |-> <<>>]]
      /\ log' = [gen |-> Len(base) + 1, frames |-> <<>>]
      /\ synced' = FALSE /\ writer' = <<>> /\ file' = file + 1 /\ versions' = versions + 1
      /\ UNCHANGED <<after, view>>
  BY DEF ReplaceSource
<1>2. [p \in LogPages |-> versions + 1] \in [LogPages -> Nat]
  BY <1>0 DEF LogTyped
<1>3. /\ base' \in Seq([LogPages -> Nat]) /\ index' \in [1 .. 2 -> Marks] /\ index'[1] = index'[2]
      /\ index'[1].gen = Len(base) + 1 /\ index'[1].gen \in 1 .. Len(base')
      /\ index'[1].chain = <<>> /\ Len(index'[1].chain) = 0 /\ Since(index[1], index'[1])
  BY <1>0, <1>1, <1>2, Anew
<1>4. LogTyped'
  <2>1. log' \in [gen : Nat, frames : Seq([gen : Nat, chain : LogChains \ {<<>>}])] /\ writer' \in LogChains
    BY <1>0, <1>1, LogFacts DEF LogChains
  <2>2. file' \in Nat /\ versions' \in Nat
    BY <1>0, <1>1 DEF LogTyped
  <2> QED BY <1>1, <1>3, <2>1, <2>2 DEF LogTyped
<1>5. LogFollows'
  <2>1. Len(writer') = 0 /\ Len(log'.frames) = 0 /\ writer' = <<>> /\ log'.gen = index'[1].gen
    BY <1>1, <1>3
  <2> QED BY <1>3, <2>1 DEF LogFollows
<1> QED BY <1>1, <1>3, <1>4, <1>5, ViewRests DEF SourceInv

\* A view that is not there promises nothing.
LEMMA NoView ==
  ASSUME SourceInv, LogTyped', LogFollows', view' = Closed, after' \in SinceWhat
  PROVE  SourceInv'
<1>1. view'.at = "closed"
  BY DEF Closed
<1>2. Pinning' /\ ReadSoFar' /\ ReadAll'
  BY <1>1 DEF Pinning, ReadSoFar, ReadAll
<1>3. ViewTyped'
  BY DEF ViewTyped
<1> QED BY <1>2, <1>3 DEF SourceInv

LEMMA CutShort ==
  ASSUME NEW S, NEW s \in Seq(S), NEW n \in 0 .. Len(s)
  PROVE  SubSeq(s, 1, n) \in Seq(S) /\ Len(SubSeq(s, 1, n)) = n
OBVIOUS

LEMMA CutItself ==
  ASSUME NEW chain \in LogChains, NEW i \in Nat, chain = SubSeq(chain, 1, i)
  PROVE  Len(chain) = i
<1>1. DOMAIN SubSeq(chain, 1, i) = 1 .. i
  OBVIOUS
<1> QED BY <1>1, ChainFacts

LEMMA PowerLossStep == SourceInv /\ PowerLoss => SourceInv'
<1> SUFFICES ASSUME SourceInv, PowerLoss PROVE SourceInv'
  OBVIOUS
<1>0. LogTyped /\ ViewTyped /\ LogFollows
  BY DEF SourceInv
<1> DEFINE Kept(n) == {i \in 1 .. n : LET f == log.frames[i]
                                      IN /\ Last(f.chain).last
                                         /\ \A j \in 1 .. i : log.frames[j] = [gen |-> log.gen, chain |-> SubSeq(f.chain, 1, j)]}
           Chain(n) == IF Kept(n) = {} THEN <<>> ELSE log.frames[Max(Kept(n))].chain
<1>1. PICK n \in 0 .. Len(log.frames) :
        /\ log.gen = index[1].gen
        /\ log' = [log EXCEPT !.frames = SubSeq(@, 1, n)]
        /\ index' = <<[gen |-> log.gen, chain |-> Chain(n)], [gen |-> log.gen, chain |-> Chain(n)]>>
        /\ writer' = <<>> /\ synced' = FALSE /\ view' = Closed
        /\ UNCHANGED <<base, versions, file, after>>
  BY DEF PowerLoss
<1>2. Chain(n) \in LogChains /\ Len(Chain(n)) <= n
  <2>1. CASE Kept(n) = {}
    BY <2>1, <1>0, LogFacts DEF LogChains
  <2>2. CASE Kept(n) # {}
    <3> DEFINE i == Max(Kept(n))
    <3>1. Kept(n) \in SUBSET (1 .. n) /\ n \in Nat /\ n <= Len(log.frames)
      BY <1>0, LogFacts
    <3>2. i \in Kept(n)
      <4> HIDE DEF Kept
      <4> QED BY <2>2, <3>1, LastOne
    <3>3. i \in 1 .. n /\ log.frames[i] = [gen |-> log.gen, chain |-> SubSeq(log.frames[i].chain, 1, i)]
      <4> HIDE DEF i
      <4> QED BY <3>1, <3>2
    <3>4. Chain(n) = log.frames[i].chain
      BY <2>2
    <3> HIDE DEF i, Kept, Chain
    <3>5. log.frames[i].chain \in LogChains
      BY <1>0, <3>1, <3>3, LogFacts
    <3>6. Len(log.frames[i].chain) = i
      BY <3>1, <3>3, <3>5, CutItself
    <3> QED BY <3>1, <3>3, <3>4, <3>5, <3>6
  <2> QED BY <2>1, <2>2
<1> HIDE DEF Kept, Chain
<1>3. /\ log'.gen = log.gen /\ log'.frames = SubSeq(log.frames, 1, n)
      /\ log' = [gen |-> log.gen, frames |-> SubSeq(log.frames, 1, n)]
  BY <1>0, <1>1, LogFacts
<1>4. log'.frames \in Seq([gen : Nat, chain : LogChains \ {<<>>}]) /\ Len(log'.frames) = n
  BY <1>0, <1>3, LogFacts, CutShort
<1>5. LogTyped'
  <2>1. log' \in [gen : Nat, frames : Seq([gen : Nat, chain : LogChains \ {<<>>}])]
    BY <1>0, <1>3, <1>4, LogFacts
  <2>2. [gen |-> log.gen, chain |-> Chain(n)] \in Marks
    BY <1>0, <1>2, LogFacts DEF Marks
  <2>3. index' \in [1 .. 2 -> Marks] /\ writer' \in LogChains
    BY <1>1, <2>2 DEF LogChains
  <2> QED BY <1>0, <1>1, <2>1, <2>3 DEF LogTyped
<1>6. LogFollows'
  <2>1. index'[1] = index'[2] /\ index'[1].gen = log.gen /\ index'[1].chain = Chain(n) /\ Len(writer') = 0
    BY <1>1
  <2>2. Len(index'[1].chain) + Len(writer') <= Len(log'.frames)
    BY <1>2, <1>4, <2>1, ChainFacts
  <2>3. index'[1].gen \in 1 .. Len(base')
    BY <1>0, <1>1, <2>1 DEF LogFollows
  <2> QED BY <1>3, <2>1, <2>2, <2>3 DEF LogFollows
<1>7. view' = Closed /\ after' \in SinceWhat
  BY <1>0, <1>1 DEF ViewTyped
<1> QED BY <1>5, <1>6, <1>7, NoView

(* The view. ****************************************************************)
LEMMA LogRests ==
  ASSUME SourceInv, LogStays
  PROVE  LogTyped' /\ LogFollows'
BY DEF SourceInv, LogTyped, LogFollows, LogStays

LEMMA Views ==
  ASSUME SourceInv
  PROVE  /\ view.at = "closed"  => view = Closed
         /\ view.at = "indexed" => view \in Indexed
         /\ view.at = "pinned"  => view \in AtPin
         /\ view.at = "reading" => view \in Reads
         /\ view.at = "open"    => view \in Opened
BY DEF SourceInv, ViewTyped, Closed, Indexed, AtPin, Reads, Opened

LEMMA CloseStep ==
  ASSUME SourceInv, LogStays, view' = Closed, UNCHANGED after
  PROVE  SourceInv'
BY LogRests, NoView DEF LogStays, SourceInv, ViewTyped

LEMMA OpenViewStep ==
  ASSUME SourceInv, LogStays, NEW since, OpenView(since)
  PROVE  SourceInv'
<1>1. CASE view' = Closed /\ UNCHANGED after
  BY <1>1, CloseStep
<1>2. CASE view' = [at |-> "indexed", file |-> file, since |-> since, index |-> index[1]] /\ UNCHANGED after
  <2>1. LogTyped' /\ LogFollows' /\ LogTyped /\ ViewTyped /\ index' = index
    BY LogRests DEF LogStays, SourceInv
  <2>2. since \in SinceWhat
    BY <2>1 DEF OpenView, ViewTyped, SinceWhat
  <2>3. view' \in Indexed /\ ViewTyped'
    BY <1>2, <2>1, <2>2, LogFacts DEF LogTyped, ViewTyped, Indexed
  <2>4. view'.at = "indexed" /\ view'.index = index[1]
    BY <1>2
  <2>5. Since(view'.index, index'[1])
    BY <2>1, <2>4, SinceItself, LogFacts
  <2>6. Pinning' /\ ReadSoFar' /\ ReadAll'
    BY <2>4, <2>5 DEF Pinning, ReadSoFar, ReadAll
  <2> QED BY <2>1, <2>3, <2>6 DEF SourceInv
<1> QED BY <1>1, <1>2 DEF OpenView, Unless, Unavailable

LEMMA PinStep ==
  ASSUME SourceInv, LogStays, Pin
  PROVE  SourceInv'
<1>1. LogTyped' /\ LogFollows' /\ LogTyped /\ ViewTyped /\ Pinning /\ index' = index
  BY LogRests DEF LogStays, SourceInv
<1>2. view.at = "indexed" /\ view \in Indexed
  BY Views DEF Pin
<1>3. view' = [at |-> "pinned", file |-> view.file, since |-> view.since, index |-> view.index,
               pin |-> index[1], besideLog |-> synced] /\ UNCHANGED after
  BY DEF Pin
<1>4. view' \in AtPin /\ ViewTyped'
  BY <1>1, <1>2, <1>3, LogFacts DEF LogTyped, ViewTyped, Indexed, AtPin
<1>5. view'.at = "pinned" /\ view'.index = view.index /\ view'.pin = index[1]
  BY <1>3
<1>6. Since(view'.index, view'.pin) /\ Since(view'.pin, index'[1])
  BY <1>1, <1>2, <1>5, SinceItself, LogFacts DEF Pinning
<1>7. Pinning' /\ ReadSoFar' /\ ReadAll'
  BY <1>5, <1>6 DEF Pinning, ReadSoFar, ReadAll
<1> QED BY <1>1, <1>4, <1>7 DEF SourceInv

LEMMA NoTable == <<>> \in PageTables /\ DOMAIN <<>> = {}
<1>1. <<>> \in [{} -> Nat]
  OBVIOUS
<1> QED BY <1>1 DEF PageTables

LEMMA ReadHeaderStep ==
  ASSUME SourceInv, LogStays, ReadHeader
  PROVE  SourceInv'
<1>1. LogTyped' /\ LogFollows' /\ LogTyped /\ ViewTyped /\ Pinning /\ index' = index
  BY LogRests DEF LogStays, SourceInv
<1>2. view.at = "pinned" /\ view \in AtPin
  BY Views DEF ReadHeader
<1>3. CASE view' = Closed /\ UNCHANGED after
  BY <1>3, CloseStep
<1>4. CASE ~(view' = Closed /\ UNCHANGED after)
  <2>1. /\ SameIndex(view) /\ (view.since # NoCursor => CursorHolds(view)) /\ UNCHANGED after
        /\ view' = [at |-> "reading", file |-> view.file, since |-> view.since, index |-> view.index,
                    pin |-> view.pin, besideLog |-> view.besideLog,
                    extent |-> Len(log.frames), header |-> log.gen, running |-> StartOf(view),
                    changed |-> <<>>, pending |-> <<>>]
    BY <1>4 DEF ReadHeader, Unless, Unavailable, StartOf
  <2>2. view.pin \in Marks /\ view.index \in Marks /\ view.since \in SinceWhat
    BY <1>2 DEF AtPin
  <2>3. view.pin = view.index
    BY <1>1, <1>2, <2>1, <2>2, SinceBoth DEF Pinning, SameIndex
  <2>4. StartOf(view) \in LogChains
    BY <2>2 DEF StartOf, SinceWhat, Cursors, LogChains
  <2>5. view' \in Reads /\ ViewTyped'
    BY <1>1, <1>2, <2>1, <2>4, NoTable, LogFacts DEF ViewTyped, AtPin, Reads
  <2>6. /\ view'.at = "reading" /\ view'.pin = view'.index /\ view'.running = StartOf(view)
        /\ view'.changed = <<>> /\ view'.pending = <<>> /\ StartOf(view)' = StartOf(view)
        /\ view'.since = view.since /\ view'.header = log.gen
    BY <2>1, <2>3 DEF StartOf
  <2>7. Continues(view'.running, StartOf(view)')
    BY <2>4, <2>6, ChainFacts DEF Continues
  <2>8. view'.since # NoCursor => view'.since.gen = view'.header
    BY <2>1, <2>6 DEF CursorHolds
  <2>9. Names(Over(view'.pending, view'.changed), view'.running, Len(StartOf(view)'))
    <3>1. DOMAIN Over(view'.pending, view'.changed) = {}
      BY <2>6, NoTable DEF Over
    <3>2. \A i \in DOMAIN StartOf(view) : ~(i > Len(StartOf(view)))
      BY <2>4, ChainFacts
    <3> QED BY <2>6, <3>1, <3>2 DEF Names
  <2>10. Pinning' /\ ReadSoFar' /\ ReadAll'
    BY <2>6, <2>7, <2>8, <2>9 DEF Pinning, ReadSoFar, ReadAll
  <2> QED BY <1>1, <2>5, <2>10 DEF SourceInv
<1> QED BY <1>3, <1>4

LEMMA TableFacts ==
  ASSUME NEW t \in PageTables
  PROVE  DOMAIN t \in SUBSET LogPages /\ \A p \in DOMAIN t : t[p] \in Nat
BY DEF PageTables

LEMMA OverDoes ==
  ASSUME NEW s, NEW t
  PROVE  /\ DOMAIN Over(s, t) = DOMAIN s \cup DOMAIN t
         /\ \A p \in DOMAIN s : Over(s, t)[p] = s[p]
         /\ \A p \in DOMAIN t \ DOMAIN s : Over(s, t)[p] = t[p]
BY DEF Over

LEMMA OverNothing ==
  ASSUME NEW t
  PROVE  DOMAIN Over(<<>>, t) = DOMAIN t /\ \A p \in DOMAIN t : Over(<<>>, t)[p] = t[p]
<1>1. ASSUME NEW s, DOMAIN s = {}
      PROVE  DOMAIN Over(s, t) = DOMAIN t /\ \A p \in DOMAIN t : Over(s, t)[p] = t[p]
  BY <1>1 DEF Over
<1>2. DOMAIN <<>> = {}
  BY NoTable
<1> QED BY <1>1, <1>2

LEMMA ElementOf ==
  ASSUME NEW S, NEW s \in Seq(S), NEW i \in 1 .. Len(s)
  PROVE  s[i] \in S
OBVIOUS

LEMMA OneEntry ==
  ASSUME NEW q \in LogPages, NEW n \in Nat
  PROVE  /\ [p \in {q} |-> n] \in PageTables /\ DOMAIN [p \in {q} |-> n] = {q}
         /\ [p \in {q} |-> n][q] = n
<1>1. [p \in {q} |-> n] \in [{q} -> Nat] /\ {q} \in SUBSET LogPages
  OBVIOUS
<1> QED BY <1>1 DEF PageTables

LEMMA OverTyped ==
  ASSUME NEW s \in PageTables, NEW t \in PageTables
  PROVE  Over(s, t) \in PageTables
<1>1. \A p \in DOMAIN s \cup DOMAIN t : (IF p \in DOMAIN s THEN s[p] ELSE t[p]) \in Nat
  BY TableFacts
<1>2. Over(s, t) \in [DOMAIN s \cup DOMAIN t -> Nat]
  BY <1>1 DEF Over
<1>3. DOMAIN s \cup DOMAIN t \in SUBSET LogPages
  BY TableFacts
<1> QED BY <1>2, <1>3 DEF PageTables

LEMMA NamesSame ==
  ASSUME NEW s, NEW t, NEW chain, NEW n, Names(s, chain, n),
         DOMAIN t = DOMAIN s, \A p \in DOMAIN s : t[p] = s[p]
  PROVE  Names(t, chain, n)
BY DEF Names

\* One frame more, which writes the page of x.
LEMMA NamesNext ==
  ASSUME NEW chain \in LogChains, NEW x \in LogFrame, NEW n \in Nat, NEW s, NEW t,
         Names(s, chain, n), n <= Len(chain),
         DOMAIN t = DOMAIN s \cup {x.page}, t[x.page] = Len(chain) + 1,
         \A p \in DOMAIN s \ {x.page} : t[p] = s[p]
  PROVE  Names(t, Append(chain, x), n)
<1> DEFINE longer == Append(chain, x)
           last == Len(chain) + 1
<1>1. /\ Len(chain) \in Nat /\ DOMAIN chain = 1 .. Len(chain) /\ DOMAIN longer = 1 .. last
      /\ longer[last] = x /\ \A i \in 1 .. Len(chain) : longer[i] = chain[i]
  BY ChainFacts DEF LogChains
<1> HIDE DEF longer
<1>2. ASSUME NEW p \in DOMAIN t
      PROVE  LastWrite(longer, p, t[p])
  <2>1. CASE p = x.page
    BY <1>1, <2>1 DEF LastWrite
  <2>2. CASE p # x.page
    <3>1. p \in DOMAIN s /\ t[p] = s[p] /\ LastWrite(chain, p, s[p])
      BY <2>2 DEF Names
    <3>2. s[p] \in 1 .. Len(chain)
      BY <1>1, <3>1 DEF LastWrite
    <3>3. longer[s[p]].page = p
      BY <1>1, <3>1, <3>2 DEF LastWrite
    <3>4. ASSUME NEW j \in DOMAIN longer, longer[j].page = p
          PROVE  j <= s[p]
      <4>1. j # last
        BY <1>1, <2>2, <3>4
      <4>2. j \in 1 .. Len(chain) /\ chain[j].page = p
        BY <1>1, <3>4, <4>1
      <4> QED BY <1>1, <3>1, <4>2 DEF LastWrite
    <3> QED BY <1>1, <3>1, <3>2, <3>3, <3>4 DEF LastWrite
  <2> QED BY <2>1, <2>2
<1>3. ASSUME NEW i \in DOMAIN longer, i > n
      PROVE  longer[i].page \in DOMAIN t
  <2>1. CASE i = last
    BY <1>1, <2>1
  <2>2. CASE i # last
    <3>1. i \in DOMAIN chain /\ longer[i] = chain[i]
      BY <1>1, <2>2
    <3> QED BY <1>3, <3>1 DEF Names
  <2> QED BY <2>1, <2>2
<1>4. Names(t, longer, n)
  BY <1>2, <1>3 DEF Names
<1> QED BY <1>4 DEF longer

LEMMA ReadFrameStep ==
  ASSUME SourceInv, LogStays, ReadFrame
  PROVE  SourceInv'
<1>1. LogTyped' /\ LogFollows' /\ LogTyped /\ ViewTyped /\ ReadSoFar
  BY LogRests DEF LogStays, SourceInv
<1>2. view.at = "reading" /\ view \in Reads
  BY Views DEF ReadFrame
<1>3. CASE view' = Closed /\ UNCHANGED after
  BY <1>3, CloseStep
<1>4. CASE ~(view' = Closed /\ UNCHANGED after)
  <2> DEFINE n == Len(view.running) + 1
             f == log.frames[n]
             x == Last(f.chain)
             more == Over([p \in {x.page} |-> n], view.pending)
  <2>1. /\ ~(n > Len(log.frames)) /\ f.chain = Append(view.running, x) /\ UNCHANGED after
        /\ view' = IF x.last
                   THEN [view EXCEPT !.running = f.chain, !.pending = <<>>, !.changed = Over(more, @)]
                   ELSE [view EXCEPT !.running = f.chain, !.pending = more]
    BY <1>4 DEF ReadFrame, Unless, Unavailable
  <2>2. /\ view.running \in LogChains /\ view.pending \in PageTables /\ view.changed \in PageTables
        /\ Len(view.running) \in Nat /\ view.since \in SinceWhat
    BY <1>2, ChainFacts DEF Reads
  <2>3. f.chain \in LogChains \ {<<>>}
    <3>1. n \in 1 .. Len(log.frames)
      BY <1>1, <2>1, <2>2, LogFacts
    <3>2. log.frames \in Seq([gen : Nat, chain : LogChains \ {<<>>}])
      BY <1>1, LogFacts
    <3> HIDE DEF n
    <3>3. log.frames[n] \in [gen : Nat, chain : LogChains \ {<<>>}]
      BY <3>1, <3>2, ElementOf
    <3> QED BY <3>3
  <2>4. x \in LogFrame
    <3>1. f.chain \in Seq(LogFrame) /\ f.chain # <<>>
      BY <2>3 DEF LogChains
    <3> HIDE DEF f
    <3> QED BY <3>1 DEF Last
  <2>5. n \in Nat /\ x.page \in LogPages
    BY <2>2, <2>4 DEF LogFrame
  <2> HIDE DEF n, f, x
  <2> DEFINE one == [p \in {x.page} |-> n]
  <2>6. one \in PageTables /\ DOMAIN one = {x.page} /\ one[x.page] = n
    BY <2>5, OneEntry
  <2> HIDE DEF one
  <2>6a. more = Over(one, view.pending)
    BY DEF one
  <2> HIDE DEF more
  <2>7. more \in PageTables /\ Over(more, view.changed) \in PageTables
    BY <2>2, <2>6, <2>6a, OverTyped
  <2>8. /\ DOMAIN more = DOMAIN view.pending \cup {x.page} /\ more[x.page] = n
        /\ \A p \in DOMAIN view.pending \ {x.page} : more[p] = view.pending[p]
    <3>1. /\ DOMAIN Over(one, view.pending) = DOMAIN one \cup DOMAIN view.pending
          /\ \A p \in DOMAIN one : Over(one, view.pending)[p] = one[p]
          /\ \A p \in DOMAIN view.pending \ DOMAIN one : Over(one, view.pending)[p] = view.pending[p]
      BY OverDoes
    <3> QED BY <2>6, <2>6a, <3>1
  <2>9. /\ view'.running = f.chain
        /\ \/ view'.pending = <<>> /\ view'.changed = Over(more, view.changed)
           \/ view'.pending = more /\ view'.changed = view.changed
    BY <1>2, <2>1 DEF Reads
  <2>10. /\ view'.at = "reading" /\ view'.file = view.file /\ view'.since = view.since
         /\ view'.index = view.index /\ view'.pin = view.pin /\ view'.besideLog = view.besideLog
         /\ view'.extent = view.extent /\ view'.header = view.header
    BY <1>2, <2>1 DEF Reads
  <2>11. view' \in Reads
    <3>1. CASE x.last
      BY <1>2, <2>1, <2>3, <2>7, <3>1, NoTable DEF Reads
    <3>2. CASE ~x.last
      BY <1>2, <2>1, <2>3, <2>7, <3>2 DEF Reads
    <3> QED BY <3>1, <3>2
  <2>12. ViewTyped'
    BY <1>1, <2>1, <2>11 DEF ViewTyped
  <2> DEFINE before == Over(view.pending, view.changed)
             now == Over(view'.pending, view'.changed)
             start == StartOf(view)
  <2>13. Names(before, view.running, Len(start)) /\ Continues(view.running, start)
    BY <1>1, <1>2 DEF ReadSoFar
  <2>14. start \in LogChains /\ Len(start) \in Nat
    BY <2>2, ChainFacts DEF StartOf, SinceWhat, Cursors, LogChains
  <2>15. StartOf(view)' = start
    BY <2>10 DEF StartOf
  <2>16. /\ DOMAIN now = DOMAIN before \cup {x.page} /\ now[x.page] = n
         /\ \A p \in DOMAIN before \ {x.page} : now[p] = before[p]
    <3>1. /\ DOMAIN Over(more, view.changed) = DOMAIN more \cup DOMAIN view.changed
          /\ \A p \in DOMAIN more : Over(more, view.changed)[p] = more[p]
          /\ \A p \in DOMAIN view.changed \ DOMAIN more : Over(more, view.changed)[p] = view.changed[p]
      BY OverDoes
    <3>2. /\ DOMAIN before = DOMAIN view.pending \cup DOMAIN view.changed
          /\ \A p \in DOMAIN view.pending : before[p] = view.pending[p]
          /\ \A p \in DOMAIN view.changed \ DOMAIN view.pending : before[p] = view.changed[p]
      BY OverDoes
    <3>3. /\ DOMAIN now = DOMAIN Over(more, view.changed)
          /\ \A p \in DOMAIN now : now[p] = Over(more, view.changed)[p]
      <4>1. CASE view'.pending = <<>> /\ view'.changed = Over(more, view.changed)
        <5>1. now = Over(<<>>, Over(more, view.changed))
          BY <4>1
        <5> HIDE DEF now
        <5> QED BY <5>1, OverNothing
      <4>2. CASE view'.pending = more /\ view'.changed = view.changed
        BY <4>2
      <4> QED BY <2>9, <4>1, <4>2
    <3> HIDE DEF before, now
    <3> QED BY <2>8, <3>1, <3>2, <3>3
  <2> HIDE DEF before, now, start
  <2>17. Names(now, view'.running, Len(start))
    <3>1. Len(start) <= Len(view.running)
      BY <2>13 DEF Continues
    <3>2. now[x.page] = Len(view.running) + 1
      BY <2>16 DEF n
    <3>3. Names(now, Append(view.running, x), Len(start))
      BY <2>2, <2>4, <2>13, <2>14, <2>16, <3>1, <3>2, NamesNext
    <3> QED BY <2>1, <2>9, <3>3
  <2>18. Continues(view'.running, start)
    <3>1. view'.running = Append(view.running, x)
      BY <2>1, <2>9
    <3>2. /\ Len(Append(view.running, x)) = Len(view.running) + 1
          /\ \A i \in 1 .. Len(view.running) : Append(view.running, x)[i] = view.running[i]
      BY <2>2, <2>4 DEF LogChains
    <3> QED BY <2>2, <2>13, <2>14, <3>1, <3>2 DEF Continues
  <2>19. view'.pin = view'.index /\ (view'.since # NoCursor => view'.since.gen = view'.header)
    BY <1>1, <1>2, <2>10 DEF ReadSoFar
  <2>20. ReadSoFar'
    BY <2>15, <2>17, <2>18, <2>19 DEF ReadSoFar, now
  <2>21. Pinning' /\ ReadAll'
    BY <2>10 DEF Pinning, ReadAll
  <2> QED BY <1>1, <2>12, <2>20, <2>21 DEF SourceInv
<1> QED BY <1>3, <1>4

LEMMA ValidateStep ==
  ASSUME SourceInv, LogStays, Validate
  PROVE  SourceInv'
<1>1. LogTyped' /\ LogFollows' /\ LogTyped /\ ViewTyped /\ ReadSoFar
  BY LogRests DEF LogStays, SourceInv
<1>2. view.at = "reading" /\ view \in Reads
  BY Views DEF Validate
<1>3. CASE view' = Closed /\ UNCHANGED after
  BY <1>3, CloseStep
<1>4. CASE ~(view' = Closed /\ UNCHANGED after)
  <2>1. /\ view.pending = <<>> /\ [gen |-> view.header, chain |-> view.running] = view.index
        /\ UNCHANGED after
        /\ view' = [at |-> "open", file |-> view.file, since |-> view.since, pin |-> view.pin,
                    besideLog |-> view.besideLog, changed |-> view.changed,
                    cursor |-> [file |-> view.file, gen |-> view.header, chain |-> view.running]]
    BY <1>4 DEF Validate, Unless, Unavailable
  <2>2. view' \in Opened /\ ViewTyped'
    BY <1>1, <1>2, <2>1 DEF ViewTyped, Reads, Opened, Cursors
  <2>3. /\ view'.at = "open" /\ view'.pin = view.pin /\ view'.changed = view.changed
        /\ view'.since = view.since /\ StartOf(view)' = StartOf(view)
        /\ view'.cursor.gen = view.header /\ view'.cursor.chain = view.running
    BY <2>1 DEF StartOf
  <2>4. /\ view.pin = view.index /\ Continues(view.running, StartOf(view))
        /\ view.since # NoCursor => view.since.gen = view.header
        /\ Names(Over(view.pending, view.changed), view.running, Len(StartOf(view)))
    BY <1>1, <1>2 DEF ReadSoFar
  <2>5. Names(view.changed, view.running, Len(StartOf(view)))
    <3>1. /\ DOMAIN view.changed = DOMAIN Over(view.pending, view.changed)
          /\ \A p \in DOMAIN Over(view.pending, view.changed) :
               view.changed[p] = Over(view.pending, view.changed)[p]
      <4>1. Over(view.pending, view.changed) = Over(<<>>, view.changed)
        BY <2>1
      <4> QED BY <4>1, OverNothing
    <3> QED BY <2>4, <3>1, NamesSame
  <2>6. ReadAll'
    BY <2>1, <2>3, <2>4, <2>5 DEF ReadAll
  <2>7. Pinning' /\ ReadSoFar'
    BY <2>3 DEF Pinning, ReadSoFar
  <2> QED BY <1>1, <2>2, <2>6, <2>7 DEF SourceInv
<1> QED BY <1>3, <1>4

LEMMA CloseViewStep ==
  ASSUME SourceInv, LogStays, CloseView
  PROVE  SourceInv'
<1>1. LogTyped' /\ LogFollows' /\ ViewTyped
  BY LogRests DEF LogStays, SourceInv
<1>2. view.cursor \in SinceWhat
  BY Views DEF CloseView, Opened, SinceWhat
<1>3. view' = Closed /\ after' \in SinceWhat
  BY <1>1, <1>2 DEF CloseView, ViewTyped
<1> QED BY <1>1, <1>3, NoView

\* The invariant holds whatever the messaging application, the machine and the view do
\* (source_view.py, _open; wal.py, read_changes).
THEOREM SourceInvariance == SourceSpec => []SourceInv
<1>1. ASSUME SourceInv, [SourceNext]_sourceVars
      PROVE  SourceInv'
  <2>1. CASE \E p \in LogPages, last \in BOOLEAN : WriteFrame(p, last)
    BY <1>1, <2>1, WriteFrameStep
  <2>2. CASE WriteHeader \/ PublishFirst \/ PublishSecond \/ Rollback \/ Checkpoint \/ RestartLog
    BY <1>1, <2>2, WriteHeaderStep, PublishFirstStep, PublishSecondStep, RollbackStep, CheckpointStep,
       RestartLogStep
  <2>3. CASE PowerLoss \/ ReplaceSource
    BY <1>1, <2>3, PowerLossStep, ReplaceSourceStep
  <2>4. CASE ViewStep
    <3>1. LogStays
      BY <2>4 DEF ViewStep, LogStays
    <3>2. CASE OpenView(after) \/ OpenView(NoCursor)
      BY <1>1, <3>1, <3>2, OpenViewStep
    <3>3. CASE Pin \/ ReadHeader \/ ReadFrame \/ Validate \/ CloseView
      BY <1>1, <3>1, <3>3, PinStep, ReadHeaderStep, ReadFrameStep, ValidateStep, CloseViewStep
    <3> QED BY <2>4, <3>2, <3>3 DEF ViewStep
  <2>5. CASE UNCHANGED sourceVars
    <3>1. LogStays /\ UNCHANGED <<view, after>>
      BY <2>5 DEF sourceVars, LogStays
    <3>2. LogTyped' /\ LogFollows' /\ index' = index
      BY <1>1, <3>1, LogRests DEF LogStays
    <3>3. Since(index[1], index'[1])
      BY <1>1, <3>2, SinceItself, LogFacts DEF SourceInv
    <3> QED BY <1>1, <3>1, <3>2, <3>3, ViewRests DEF SourceInv
  <2> QED BY <1>1, <2>1, <2>2, <2>3, <2>4, <2>5 DEF SourceNext
<1>2. SourceInv /\ [SourceNext]_sourceVars => SourceInv'
  BY <1>1
<1> QED BY <1>2, SourceStarts, PTL DEF SourceSpec

LEMMA ViewIsExact == SourceInv => ViewExact
<1> SUFFICES ASSUME SourceInv, view.at = "open" PROVE ViewExact
  BY DEF ViewExact
<1> DEFINE chain == view.cursor.chain
           gen == view.cursor.gen
           start == StartOf(view)
           now == Image(gen, chain)
<1>1. view \in Opened /\ ReadAll
  BY Views DEF SourceInv
<1>2. /\ view.pin.gen = gen /\ view.pin.chain = chain
      /\ Continues(chain, start) /\ Names(view.changed, chain, Len(start))
      /\ view.since # NoCursor => view.since.gen = gen /\ start = view.since.chain
  BY <1>1 DEF ReadAll, StartOf
<1>3. /\ chain \in LogChains /\ Len(chain) \in Nat /\ DOMAIN chain = 1 .. Len(chain)
      /\ start \in LogChains /\ Len(start) \in Nat /\ DOMAIN start = 1 .. Len(start)
      /\ view.changed \in PageTables
  <2>1. chain \in LogChains /\ view.since \in SinceWhat /\ view.changed \in PageTables
    BY <1>1 DEF Opened, Cursors
  <2>2. start \in LogChains
    BY <2>1 DEF StartOf, SinceWhat, Cursors, LogChains
  <2> QED BY <2>1, <2>2, ChainFacts
<1> HIDE DEF chain, gen, start
<1>4. ASSUME NEW p \in LogPages, p \notin DOMAIN view.changed
      PROVE  Image(gen, start)[p] = now[p]
  <2>1. ASSUME NEW i \in DOMAIN chain, chain[i].page = p
        PROVE  i \in DOMAIN start /\ start[i] = chain[i]
    BY <1>2, <1>3, <1>4, <2>1 DEF Names, Continues
  <2>2. ASSUME NEW i \in DOMAIN start
        PROVE  i \in DOMAIN chain /\ start[i] = chain[i]
    BY <1>2, <1>3 DEF Continues
  <2>3. CASE \A i \in DOMAIN chain : chain[i].page # p
    <3>1. \A i \in DOMAIN start : start[i].page # p
      BY <2>2, <2>3
    <3> QED BY <1>3, <2>3, <3>1, ImageIs
  <2>4. CASE \E k \in DOMAIN chain : chain[k].page = p
    <3>1. PICK i \in DOMAIN chain : LastWrite(chain, p, i)
      BY <1>3, <2>4, LastWriteExists
    <3>2. i \in DOMAIN start /\ start[i] = chain[i]
      BY <2>1, <3>1 DEF LastWrite
    <3>3. LastWrite(start, p, i)
      BY <2>2, <3>1, <3>2 DEF LastWrite
    <3> QED BY <1>3, <3>1, <3>2, <3>3, ImageIs
  <2> QED BY <2>3, <2>4
<1>5. ASSUME NEW p \in DOMAIN view.changed, Readable(view, view.changed[p])
      PROVE  Body(view.changed[p]) = now[p]
  <2> DEFINE n == view.changed[p]
  <2>1. LastWrite(chain, p, n) /\ p \in LogPages
    BY <1>2, <1>3, TableFacts DEF Names
  <2>2. n \in 1 .. Len(chain)
    BY <1>3, <2>1 DEF LastWrite
  <2>2a. Readable(view, n)
    BY <1>5
  <2> HIDE DEF n
  <2>3. log.frames[n].chain = SubSeq(chain, 1, n)
    <3> DEFINE cut == SubSeq(chain, 1, n)
    <3>1. log.frames[n] = [gen |-> log.gen, chain |-> cut]
      BY <2>2a DEF Readable, chain
    <3> HIDE DEF cut
    <3>2. log.frames[n].chain = cut
      BY <3>1
    <3> QED BY <3>2 DEF cut
  <2>4. Len(SubSeq(chain, 1, n)) = n /\ SubSeq(chain, 1, n)[n] = chain[n]
    BY <1>3, <2>2 DEF LogChains
  <2>5. Body(n) = chain[n].body
    BY <2>3, <2>4 DEF Body, Last
  <2>6. now[p] = chain[n].body
    BY <1>3, <2>1, ImageIs
  <2> QED BY <2>5, <2>6 DEF n
<1> HIDE DEF now
<1>6. Image(view.cursor.gen, view.cursor.chain) = now /\ Image(view.pin.gen, view.pin.chain) = now
  BY <1>2 DEF now, gen, chain
<1>7. view.since # NoCursor => Image(view.since.gen, view.since.chain) = Image(gen, start)
  BY <1>2
<1> QED BY <1>4, <1>5, <1>6, <1>7 DEF ViewExact

\* Whatever is written, checkpointed, begun anew, lost or replaced while a view is opened and
\* read, and however often the cursor is continued, the view is one commit: it says which
\* pages differ from its cursor, and no page body handed out is of another commit
\* (source_view.py, _open; wal.py, read_changes, WalPages).
THEOREM ViewIsOneCommit == SourceSpec => []ViewExact
<1> QED BY SourceInvariance, ViewIsExact, PTL

(* The graph of a source's pages ********************************************)
Functions(S, T) == UNION {[R -> T] : R \in SUBSET S}

TreeContents == {x \in Contents : x.kind \in {"leaf", "interior"}}
Nodes  == Functions(Pages, [table : Tables, node : TreeContents])
Edges  == Functions(Pages, Pages)
OwnerEntries == Functions(Pages, [leaf : Pages, row : RowIds, next : {0} \cup Pages])
Graphs == [nodes : Nodes, edges : Edges, owners : OwnerEntries]

Calls  == [page : Pages, table : Tables, parent : {0} \cup Pages, depth : Nat]
Steps  == [leaf : Pages, row : RowIds, at : Nat]
Walks  == [full : BOOLEAN, changed : SUBSET Pages, nodes : Nodes, edges : Edges, owners : OwnerEntries,
           needed : SUBSET Pages, orphaned : SUBSET Pages, visited : SUBSET Pages,
           candidates : SUBSET (Tables \X RowIds), todo : SUBSET Calls, cells : SUBSET Steps]

\* Overflow page o is the i-th of the chain of row r, in leaf p whose cells are these.
Owner(o, owner, cells, p, r, i) ==
  /\ r \in DOMAIN cells /\ i \in DOMAIN cells[r] /\ o = cells[r][i]
  /\ owner = [leaf |-> p, row |-> r, next |-> Follower(cells[r], i)]

\* Edges and owners say what the nodes say, and every node hangs under a root.
GraphOK(G) ==
  /\ G \in Graphs
  /\ \A p \in DOMAIN G.nodes \cap Roots : RootOf[G.nodes[p].table] = p
  /\ \A p \in DOMAIN G.nodes : \A c \in Children(G.nodes[p].node) :
       /\ c \in DOMAIN G.edges /\ G.edges[c] = p
       /\ c \in DOMAIN G.nodes /\ G.nodes[c].table = G.nodes[p].table
  /\ \A c \in DOMAIN G.edges : G.edges[c] \in DOMAIN G.nodes /\ c \in Children(G.nodes[G.edges[c]].node)
  /\ DOMAIN G.nodes \ Roots \subseteq DOMAIN G.edges
  /\ \A U \in SUBSET Pages :
       (Roots \subseteq U /\ \A q \in U \cap DOMAIN G.nodes : Children(G.nodes[q].node) \subseteq U)
         => DOMAIN G.nodes \subseteq U
  /\ DOMAIN G.owners \cap DOMAIN G.nodes = {}
  /\ \A o \in DOMAIN G.owners :
       \E p \in DOMAIN G.nodes : \E r \in Rows(G.nodes[p].node) : \E i \in DOMAIN G.nodes[p].node.cells[r] :
         Owner(o, G.owners[o], G.nodes[p].node.cells, p, r, i)
  /\ \A p \in DOMAIN G.nodes : \A r \in Rows(G.nodes[p].node) : \A i \in DOMAIN G.nodes[p].node.cells[r] :
       LET o == G.nodes[p].node.cells[r][i]
       IN o \in DOMAIN G.owners /\ Owner(o, G.owners[o], G.nodes[p].node.cells, p, r, i)

\* What the graph says page p holds.
Content(G, p) ==
  IF p \in DOMAIN G.nodes THEN G.nodes[p].node
  ELSE IF p \in DOMAIN G.owners THEN Overflow(G.owners[p].next) ELSE Free

Database(P) == P \in [Pages -> Contents] /\ WellFormed(P)

GraphCells(G) ==
  UNION {{[table |-> G.nodes[p].table, leaf |-> p, row |-> r, chain |-> G.nodes[p].node.cells[r]]
          : r \in Rows(G.nodes[p].node)} : p \in DOMAIN G.nodes}

\* What is between two captures: pages not written are as the graph says, or freed.
Between(P, G, written, due) ==
  /\ Database(P) /\ GraphOK(G) /\ Roots \subseteq DOMAIN G.nodes
  /\ written \subseteq Pages
  /\ written = {} => \A p \in Pages : P[p] = Content(G, p)
  /\ \A p \in Pages \ written : P[p] \in {Free, Content(G, p)}
  /\ \A m \in due : \E c \in GraphCells(G) \cup AllCells(P) :
       /\ m = <<c.table, c.row>>
       /\ \/ c \notin GraphCells(G) \/ c \notin AllCells(P)
          \/ ({c.leaf} \cup PagesOf(c.chain)) \cap written # {}

(* The walk *****************************************************************)
\* The index the walk began with, for a full build nothing.
Base(G, w) == IF w.full THEN EmptyGraph ELSE G

\* Of the pages D, trusted so far, and those visited, the index says what is there.
KnownRight(P, w, D) ==
  \A p \in w.visited \cup D :
    p \in DOMAIN w.nodes /\ w.nodes[p].node = P[p] /\ p \in TreeOf(P, w.nodes[p].table)

\* Of the other pages, what it said at the beginning.
RestOld(B, w) ==
  /\ \A p \in DOMAIN w.nodes \ w.visited : p \in DOMAIN B.nodes /\ w.nodes[p] = B.nodes[p]
  /\ \A p \in DOMAIN B.nodes \cap w.changed : p \in w.needed

Unneeded(w) == DOMAIN w.nodes \ (w.visited \cup w.needed)

TrustedWhole(P, w, D) == D \subseteq Unneeded(w) /\ \A p \in D : Children(P[p]) \subseteq D

\* A page that is known hangs under its parent, and that is known.
KnownHang(P, w, D) ==
  \A x \in (w.visited \cup D) \ Roots :
    /\ x \in DOMAIN w.edges /\ w.edges[x] \in w.visited \cup D /\ x \in Children(P[w.edges[x]])
    /\ x \in w.visited => w.edges[x] \in w.visited

EdgesKept(w) ==
  \A x \in Unneeded(w) : \A c \in Children(w.nodes[x].node) : c \in DOMAIN w.edges /\ w.edges[c] = x

\* Every edge is between nodes; those of pages not known are old. Page `new` is being linked.
EdgesRight(B, w, D, new) ==
  \A c \in DOMAIN w.edges :
    /\ c \in DOMAIN w.nodes \cup new /\ c \notin Roots /\ w.edges[c] \in DOMAIN w.nodes
    /\ c \notin w.visited \cup D \cup new => c \in DOMAIN B.edges /\ w.edges[c] = B.edges[c]
    /\ w.edges[c] \in w.visited => c \in w.visited \cup D \cup new

OrphansMarked(w) ==
  \A p \in DOMAIN w.nodes \ (w.visited \cup Roots) : p \in DOMAIN w.edges \cup w.orphaned

NeededUpward(w) == \A c \in w.needed \cap DOMAIN w.edges : w.edges[c] \in w.needed \cup w.visited

\* The calls that wait are for what hangs under the pages visited, and all of it is known or waits.
CallsRight(P, w) ==
  \A e \in w.todo :
    /\ e.parent = 0 => e.page = RootOf[e.table]
    /\ e.parent # 0 => e.parent \in w.visited /\ e.page \in Children(P[e.parent])
                       /\ e.table = w.nodes[e.parent].table

CallsEnough(P, w, D, new) ==
  LET there == w.visited \cup D \cup new \cup {e.page : e \in w.todo}
  IN Roots \subseteq there /\ \A p \in w.visited : Children(P[p]) \subseteq there

\* So for the overflow pages of the leaf that is read.
StepsRight(P, w) ==
  \A e \in w.cells : e.leaf \in w.visited /\ e.row \in Rows(P[e.leaf]) /\ e.at \in DOMAIN P[e.leaf].cells[e.row]

ChainsOwned(P, w) ==
  \A p \in w.visited : \A r \in Rows(P[p]) : \A i \in DOMAIN P[p].cells[r] :
    \/ LET o == P[p].cells[r][i]
       IN o \in DOMAIN w.owners /\ Owner(o, w.owners[o], P[p].cells, p, r, i)
    \/ \E e \in w.cells : e.leaf = p /\ e.row = r /\ e.at <= i

OwnersRight(P, B, w) ==
  \A o \in DOMAIN w.owners :
    LET p == w.owners[o].leaf
    IN \/ /\ p \in w.visited
          /\ \E r \in Rows(P[p]) : \E i \in DOMAIN P[p].cells[r] : Owner(o, w.owners[o], P[p].cells, p, r, i)
       \/ p \in DOMAIN w.nodes \ w.visited /\ o \in DOMAIN B.owners /\ w.owners[o] = B.owners[o]

OwnersKept(B, w) ==
  \A o \in DOMAIN B.owners :
    B.owners[o].leaf \in Unneeded(w) => o \in DOMAIN w.owners /\ w.owners[o] = B.owners[o]

\* The rows of every page that was needed, visited or forgotten are candidates.
RowsRemembered(G, needed, w) ==
  /\ ~w.full =>
       /\ needed \subseteq w.needed
       /\ \A p \in DOMAIN G.nodes :
            p \in needed \/ p \notin DOMAIN w.nodes \/ p \in w.visited => RowsAt(G.nodes, {p}) \subseteq w.candidates
  /\ \A p \in w.visited : RowsAt(w.nodes, {p}) \subseteq w.candidates

WalkOK(P, G, written, needed, w, D, new) ==
  /\ w \in Walks /\ D \subseteq Pages
  /\ w.changed = IF w.full THEN Pages ELSE written
  /\ KnownRight(P, w, D) /\ RestOld(Base(G, w), w) /\ TrustedWhole(P, w, D) /\ KnownHang(P, w, D)
  /\ EdgesKept(w) /\ EdgesRight(Base(G, w), w, D, new) /\ OrphansMarked(w) /\ NeededUpward(w)
  /\ CallsRight(P, w) /\ CallsEnough(P, w, D, new)
  /\ StepsRight(P, w) /\ ChainsOwned(P, w) /\ OwnersRight(P, Base(G, w), w) /\ OwnersKept(Base(G, w), w)
  /\ RowsRemembered(G, needed, w)

OwnersInv ==
  /\ pageCount \in Pages
  /\ Between(pages, graph, touched, moved)
  /\ Walking => touched # {} /\ \E D \in SUBSET Pages : WalkOK(pages, graph, touched, Needed, walk, D, {})

OwnersSpec == OwnersInit /\ [][OwnersNext]_ownerVars

(* Reach and the trees ******************************************************)
LEMMA ReachIn == ASSUME NEW S, NEW next PROVE Reach(S, next) \subseteq Pages
  BY DEF Reach

LEMMA ReachHas == ASSUME NEW S \in SUBSET Pages, NEW next PROVE S \subseteq Reach(S, next)
  BY DEF Reach

LEMMA ReachClosed ==
  ASSUME NEW S, NEW next, NEW q \in Reach(S, next), NEW c \in next[q], c \in Pages
  PROVE  c \in Reach(S, next)
  BY DEF Reach

LEMMA ReachLeast ==
  ASSUME NEW S, NEW next, NEW U \in SUBSET Pages, S \subseteq U, \A q \in U : next[q] \subseteq U
  PROVE  Reach(S, next) \subseteq U
  BY DEF Reach

LEMMA ChainsPlain ==
  ASSUME NEW chain \in Chains
  PROVE  /\ DOMAIN chain = 1 .. Len(chain) /\ Len(chain) \in 0 .. MaxPage
         /\ \A i \in DOMAIN chain : chain[i] \in Pages \ Roots /\ Follower(chain, i) \in {0} \cup Pages
         /\ \A i, j \in DOMAIN chain : chain[i] = chain[j] => i = j
<1>1. PICK n \in 0 .. MaxPage : chain \in [1 .. n -> Pages \ Roots]
  BY DEF Chains
<1>2. DOMAIN chain = 1 .. n /\ n \in Nat
  BY <1>1, PageOwnersAssumption
<1>3. chain \in Seq(Pages \ Roots) /\ Len(chain) = n
  BY <1>1, <1>2
<1>4. \A i \in DOMAIN chain : chain[i] \in Pages \ Roots /\ Follower(chain, i) \in {0} \cup Pages
  <2>1. TAKE i \in DOMAIN chain
  <2>2. i # n => i + 1 \in 1 .. n
    BY <1>2
  <2> QED BY <1>1, <1>2, <1>3, <2>2 DEF Follower, Pages
<1> QED BY <1>1, <1>2, <1>3, <1>4 DEF Chains

LEMMA ContentsPlain ==
  ASSUME NEW x \in Contents
  PROVE  /\ x.kind \in {"free", "leaf", "interior", "overflow"}
         /\ x.kind = "free" => x = Free
         /\ x.kind = "leaf" => DOMAIN x.cells \subseteq RowIds /\ \A r \in DOMAIN x.cells : x.cells[r] \in Chains
         /\ x.kind = "interior" => x.children \subseteq Pages \ Roots
         /\ Children(x) \subseteq Pages \ Roots
         /\ Rows(x) \subseteq RowIds
         /\ x.kind = "leaf" => x = Leaf(x.cells)
         /\ x.kind = "overflow" => x = Overflow(x.next) /\ x.next \in {0} \cup Pages
<1>1. CASE x = Free
  BY <1>1 DEF Free, Children, Rows
<1>2. CASE \E cells \in UNION {[S -> Chains] : S \in SUBSET RowIds} : x = Leaf(cells)
  BY <1>2 DEF Leaf, Children, Rows
<1>3. CASE \E S \in (SUBSET (Pages \ Roots)) \ {{}} : x = Interior(S)
  BY <1>3 DEF Interior, Children, Rows
<1>4. CASE \E n \in {0} \cup (Pages \ Roots) : x = Overflow(n)
  BY <1>4 DEF Overflow, Children, Rows
<1> QED BY <1>1, <1>2, <1>3, <1>4 DEF Contents

LEMMA TreesPlain ==
  ASSUME NEW P, P \in [Pages -> Contents], NEW t \in Tables
  PROVE  /\ RootOf[t] \in Roots /\ RootOf[t] \in TreeOf(P, t) /\ TreeOf(P, t) \subseteq Pages
         /\ \A p \in TreeOf(P, t) : Children(P[p]) \subseteq TreeOf(P, t)
<1> DEFINE next == [p \in Pages |-> Children(P[p])]
<1>1. RootOf[t] \in Roots /\ {RootOf[t]} \in SUBSET Pages
  BY PageOwnersAssumption DEF Roots, Pages
<1>2. TreeOf(P, t) = Reach({RootOf[t]}, next)
  BY DEF TreeOf
<1>3. TreeOf(P, t) \subseteq Pages /\ RootOf[t] \in TreeOf(P, t)
  BY <1>1, <1>2, ReachIn, ReachHas
<1>4. ASSUME NEW p \in TreeOf(P, t), NEW c \in Children(P[p]) PROVE c \in TreeOf(P, t)
  <2>1. p \in Pages /\ c \in next[p] /\ c \in Pages
    BY <1>3, <1>4, ContentsPlain
  <2> QED BY <1>2, <1>4, <2>1, ReachClosed
<1> QED BY <1>1, <1>3, <1>4

LEMMA TreeLeast ==
  ASSUME NEW P, NEW t \in Tables, NEW U \in SUBSET Pages,
         RootOf[t] \in U, \A q \in U : Children(P[q]) \subseteq U
  PROVE  TreeOf(P, t) \subseteq U
<1> DEFINE next == [p \in Pages |-> Children(P[p])]
<1>1. \A q \in U : next[q] \subseteq U
  OBVIOUS
<1>2. {RootOf[t]} \subseteq U
  OBVIOUS
<1> HIDE DEF next
<1>3. Reach({RootOf[t]}, next) \subseteq U
  BY <1>1, <1>2, ReachLeast
<1> QED BY <1>3 DEF TreeOf, next

LEMMA ImageTrees ==
  ASSUME NEW P, Database(P), NEW t \in Tables, NEW p \in TreeOf(P, t)
  PROVE  /\ p \in Pages /\ P[p] \in TreeContents /\ P[p] # Free
         /\ \A s \in Tables : p \in TreeOf(P, s) => s = t
         /\ p \in Roots => p = RootOf[t]
<1>1. p \in Pages /\ P[p] \in Contents /\ P[p].kind \in {"leaf", "interior"}
  BY TreesPlain DEF Database, WellFormed
<1>2. \A s \in Tables : p \in TreeOf(P, s) => s = t
  BY DEF Database, WellFormed
<1>3. P[p] # Free
  BY <1>1 DEF Free
<1>4. ASSUME p \in Roots PROVE p = RootOf[t]
  <2>1. PICK s \in Tables : p = RootOf[s]
    BY <1>4 DEF Roots
  <2> QED BY <2>1, <1>2, TreesPlain DEF Database
<1> QED BY <1>1, <1>2, <1>3, <1>4 DEF TreeContents

LEMMA OneParent ==
  ASSUME NEW P, Database(P), NEW p \in Pages, NEW q \in Pages, NEW c \in Children(P[p]), c \in Children(P[q])
  PROVE  p = q
  BY DEF Database, WellFormed

(* What the steps of a walk do to the index *********************************)
LEMMA FunctionsPlain ==
  ASSUME NEW S, NEW T, NEW f \in Functions(S, T)
  PROVE  /\ DOMAIN f \subseteq S /\ f = [x \in DOMAIN f |-> f[x]]
         /\ \A x \in DOMAIN f : f[x] \in T
  BY DEF Functions

LEMMA FunctionsIntro ==
  ASSUME NEW S, NEW T, NEW R \in SUBSET S, NEW f \in [R -> T]
  PROVE  f \in Functions(S, T)
  BY DEF Functions

LEMMA PutPlain ==
  ASSUME NEW S, NEW T, NEW f \in Functions(S, T), NEW x \in S, NEW v \in T
  PROVE  /\ Put(f, x, v) \in Functions(S, T)
         /\ DOMAIN Put(f, x, v) = DOMAIN f \cup {x} /\ Put(f, x, v)[x] = v
         /\ \A y \in DOMAIN f \ {x} : Put(f, x, v)[y] = f[y]
<1>1. DOMAIN f \cup {x} \in SUBSET S /\ \A y \in DOMAIN f : f[y] \in T
  BY FunctionsPlain
<1>2. Put(f, x, v) \in [DOMAIN f \cup {x} -> T]
  BY <1>1 DEF Put
<1>3. Put(f, x, v) \in Functions(S, T)
  BY <1>1, <1>2, FunctionsIntro
<1> QED BY <1>1, <1>3 DEF Put

LEMMA WithoutPlain ==
  ASSUME NEW S, NEW T, NEW f \in Functions(S, T), NEW R
  PROVE  /\ Without(f, R) \in Functions(S, T)
         /\ DOMAIN Without(f, R) = DOMAIN f \ R
         /\ \A y \in DOMAIN f \ R : Without(f, R)[y] = f[y]
<1>1. DOMAIN f \ R \in SUBSET S /\ \A y \in DOMAIN f : f[y] \in T
  BY FunctionsPlain
<1>2. Without(f, R) \in [DOMAIN f \ R -> T]
  BY <1>1 DEF Without
<1>3. Without(f, R) \in Functions(S, T)
  BY <1>1, <1>2, FunctionsIntro
<1> QED BY <1>1, <1>3 DEF Without

LEMMA NodesPlain ==
  ASSUME NEW nodes \in Nodes
  PROVE  /\ DOMAIN nodes \subseteq Pages
         /\ \A p \in DOMAIN nodes : nodes[p] \in [table : Tables, node : TreeContents]
<1> DEFINE T == [table : Tables, node : TreeContents]
<1>1. nodes \in Functions(Pages, T)
  BY DEF Nodes
<1> HIDE DEF T
<1>2. DOMAIN nodes \subseteq Pages /\ \A p \in DOMAIN nodes : nodes[p] \in T
  BY <1>1, FunctionsPlain
<1> QED BY <1>2 DEF T

LEMMA WalkFields ==
  ASSUME NEW w \in Walks
  PROVE  /\ DOMAIN w.nodes \subseteq Pages /\ DOMAIN w.edges \subseteq Pages /\ DOMAIN w.owners \subseteq Pages
         /\ \A p \in DOMAIN w.nodes : w.nodes[p] \in [table : Tables, node : TreeContents]
         /\ \A p \in DOMAIN w.edges : w.edges[p] \in Pages
         /\ \A p \in DOMAIN w.owners : w.owners[p] \in [leaf : Pages, row : RowIds, next : {0} \cup Pages]
         /\ w.nodes \in Nodes /\ w.edges \in Edges /\ w.owners \in OwnerEntries
<1>1. w.nodes \in Nodes /\ w.edges \in Edges /\ w.owners \in OwnerEntries
  BY DEF Walks
<1>2. DOMAIN w.nodes \subseteq Pages /\ \A p \in DOMAIN w.nodes : w.nodes[p] \in [table : Tables, node : TreeContents]
  BY <1>1, NodesPlain
<1>3. DOMAIN w.edges \subseteq Pages /\ \A p \in DOMAIN w.edges : w.edges[p] \in Pages
  <2>1. w.edges \in Functions(Pages, Pages)
    BY <1>1 DEF Edges
  <2> QED BY <2>1, FunctionsPlain
<1>4. /\ DOMAIN w.owners \subseteq Pages
      /\ \A p \in DOMAIN w.owners : w.owners[p] \in [leaf : Pages, row : RowIds, next : {0} \cup Pages]
  <2> DEFINE T == [leaf : Pages, row : RowIds, next : {0} \cup Pages]
  <2>1. w.owners \in Functions(Pages, T)
    BY <1>1 DEF OwnerEntries
  <2> HIDE DEF T
  <2>2. DOMAIN w.owners \subseteq Pages /\ \A p \in DOMAIN w.owners : w.owners[p] \in T
    BY <2>1, FunctionsPlain
  <2> QED BY <2>2 DEF T
<1> QED BY <1>1, <1>2, <1>3, <1>4

LEMMA RowsAtPlain ==
  ASSUME NEW nodes \in Nodes, NEW S
  PROVE  RowsAt(nodes, S) \subseteq Tables \X RowIds
<1>1. ASSUME NEW p \in S \cap DOMAIN nodes, NEW r \in Rows(nodes[p].node)
      PROVE  <<nodes[p].table, r>> \in Tables \X RowIds
  <2>1. nodes[p] \in [table : Tables, node : TreeContents]
    BY <1>1, NodesPlain
  <2>2. r \in RowIds
    BY <2>1, <1>1, ContentsPlain DEF TreeContents
  <2> QED BY <2>1, <2>2
<1> QED BY <1>1 DEF RowsAt

LEMMA ClearedFields ==
  ASSUME NEW w \in Walks, NEW S
  PROVE  LET c == Cleared(w, S)
         IN /\ c \in Walks
            /\ c.full = w.full /\ c.changed = w.changed /\ c.nodes = w.nodes /\ c.needed = w.needed
            /\ c.visited = w.visited /\ c.todo = w.todo /\ c.cells = w.cells
            /\ c.candidates = w.candidates \cup RowsAt(w.nodes, S)
            /\ c.orphaned = w.orphaned \cup ChildrenOf(w.edges, S)
            /\ c.edges = Without(w.edges, ChildrenOf(w.edges, S))
            /\ c.owners = Without(w.owners, OwnedBy(w.owners, S))
<1> DEFINE a == Remember(w, S)
           b == CutEdges(a, S)
<1>1. /\ a \in Walks
      /\ a = [w EXCEPT !.candidates = w.candidates \cup RowsAt(w.nodes, S)]
  BY WalkFields, RowsAtPlain DEF Remember, Walks
<1>2. Without(a.edges, ChildrenOf(a.edges, S)) \in Edges /\ ChildrenOf(a.edges, S) \subseteq Pages
  BY <1>1, WalkFields, WithoutPlain DEF Edges, ChildrenOf
<1>3. b \in Walks
      /\ b = [a EXCEPT !.orphaned = a.orphaned \cup ChildrenOf(a.edges, S),
                       !.edges = Without(a.edges, ChildrenOf(a.edges, S))]
  BY <1>1, <1>2 DEF CutEdges, Walks
<1>4. Without(b.owners, OwnedBy(b.owners, S)) \in OwnerEntries
  BY <1>3, WalkFields, WithoutPlain DEF OwnerEntries
<1>5. Cleared(w, S) \in Walks
      /\ Cleared(w, S) = [b EXCEPT !.owners = Without(b.owners, OwnedBy(b.owners, S))]
  BY <1>3, <1>4 DEF Cleared, Disown, Walks
<1> QED BY <1>1, <1>3, <1>5 DEF Walks

LEMMA ForgottenFields ==
  ASSUME NEW w \in Walks, NEW S
  PROVE  LET c == ForgetPages(w, S)
             T == S \cap DOMAIN w.nodes
         IN /\ c \in Walks
            /\ c.full = w.full /\ c.changed = w.changed /\ c.needed = w.needed
            /\ c.visited = w.visited /\ c.todo = w.todo /\ c.cells = w.cells
            /\ c.nodes = Without(w.nodes, T)
            /\ c.candidates = w.candidates \cup RowsAt(w.nodes, T)
            /\ c.orphaned = w.orphaned \cup ChildrenOf(w.edges, T)
            /\ c.edges = Without(w.edges, ChildrenOf(w.edges, T))
            /\ c.owners = Without(w.owners, OwnedBy(w.owners, T))
<1> DEFINE T == S \cap DOMAIN w.nodes
           b == Cleared(w, T)
<1> HIDE DEF T
<1>1. b \in Walks /\ b.nodes = w.nodes
  BY ClearedFields
<1>2. Without(b.nodes, T) \in Nodes
  BY <1>1, WalkFields, WithoutPlain DEF Nodes
<1>3. /\ ForgetPages(w, S) = [b EXCEPT !.nodes = Without(b.nodes, T)]
      /\ ForgetPages(w, S) \in Walks
  BY <1>1, <1>2 DEF ForgetPages, T, Walks
<1>4. /\ b.full = w.full /\ b.changed = w.changed /\ b.nodes = w.nodes /\ b.needed = w.needed
      /\ b.visited = w.visited /\ b.todo = w.todo /\ b.cells = w.cells
      /\ b.candidates = w.candidates \cup RowsAt(w.nodes, T)
      /\ b.orphaned = w.orphaned \cup ChildrenOf(w.edges, T)
      /\ b.edges = Without(w.edges, ChildrenOf(w.edges, T))
      /\ b.owners = Without(w.owners, OwnedBy(w.owners, T))
  BY ClearedFields
<1> HIDE DEF b
<1> QED BY <1>1, <1>3, <1>4 DEF Walks, T

LEMMA LinkedFields ==
  ASSUME walk \in Walks, NEW e \in walk.todo
  PROVE  LET l == Linked(e)
         IN /\ l \in Walks
            /\ l.full = walk.full /\ l.changed = walk.changed /\ l.nodes = walk.nodes /\ l.owners = walk.owners
            /\ l.visited = walk.visited /\ l.cells = walk.cells
            /\ l.candidates = walk.candidates /\ l.orphaned = walk.orphaned
            /\ l.todo = walk.todo \ {e}
            /\ l.needed = walk.needed \cup OldParents(e)
            /\ l.edges = IF e.parent = 0 THEN walk.edges ELSE Put(walk.edges, e.page, e.parent)
<1>1. e \in Calls /\ e.page \in Pages /\ (e.parent # 0 => e.parent \in Pages)
  BY DEF Walks, Calls
<1>2. OldParents(e) \subseteq Pages
  BY ReachIn DEF OldParents, Above
<1>3. ASSUME e.parent # 0 PROVE Put(walk.edges, e.page, e.parent) \in Edges
  BY <1>1, <1>3, WalkFields, PutPlain DEF Edges
<1> DEFINE edges == IF e.parent = 0 THEN walk.edges ELSE Put(walk.edges, e.page, e.parent)
<1>4. edges \in Edges
  BY <1>3, WalkFields
<1>5. Linked(e) = [walk EXCEPT !.todo = walk.todo \ {e}, !.needed = walk.needed \cup OldParents(e), !.edges = edges]
  BY DEF Linked
<1> HIDE DEF edges
<1>6. /\ Linked(e) \in Walks
      /\ Linked(e).full = walk.full /\ Linked(e).changed = walk.changed /\ Linked(e).nodes = walk.nodes
      /\ Linked(e).owners = walk.owners
      /\ Linked(e).visited = walk.visited /\ Linked(e).cells = walk.cells
      /\ Linked(e).candidates = walk.candidates /\ Linked(e).orphaned = walk.orphaned
      /\ Linked(e).todo = walk.todo \ {e}
      /\ Linked(e).needed = walk.needed \cup OldParents(e)
      /\ Linked(e).edges = edges
  BY <1>2, <1>4, <1>5 DEF Walks
<1> QED BY <1>6 DEF edges

LEMMA EnteredFields ==
  ASSUME NEW w \in Walks, NEW e \in Calls, NEW node \in TreeContents
  PROVE  LET n == Entered(w, e, node)
         IN /\ n \in Walks
            /\ n.full = w.full /\ n.changed = w.changed /\ n.needed = w.needed
            /\ n.visited = w.visited \cup {e.page}
            /\ n.nodes = Put(w.nodes, e.page, [table |-> e.table, node |-> node])
            /\ n.candidates = w.candidates \cup RowsAt(w.nodes, {e.page}) \cup {<<e.table, r>> : r \in Rows(node)}
            /\ n.orphaned = w.orphaned \cup ChildrenOf(w.edges, {e.page})
            /\ n.edges = Without(w.edges, ChildrenOf(w.edges, {e.page}))
            /\ n.owners = Without(w.owners, OwnedBy(w.owners, {e.page}))
            /\ n.todo = w.todo \cup {Call(c, e.table, e.page, e.depth + 1) : c \in Children(node)}
            /\ n.cells = {[leaf |-> e.page, row |-> r, at |-> 1] : r \in {s \in Rows(node) : node.cells[s] # <<>>}}
<1> DEFINE b     == Cleared(w, {e.page})
           calls == {Call(c, e.table, e.page, e.depth + 1) : c \in Children(node)}
           steps == {[leaf |-> e.page, row |-> r, at |-> 1] : r \in {s \in Rows(node) : node.cells[s] # <<>>}}
           due  == {<<e.table, r>> : r \in Rows(node)}
           nodes == Put(w.nodes, e.page, [table |-> e.table, node |-> node])
<1>1. e.page \in Pages /\ e.table \in Tables /\ e.depth \in Nat
  BY DEF Calls
<1>2. Children(node) \subseteq Pages /\ Rows(node) \subseteq RowIds
  BY ContentsPlain DEF TreeContents
<1>3. calls \subseteq Calls
  BY <1>1, <1>2 DEF Calls, Call
<1>4. steps \subseteq Steps
  BY <1>1, <1>2 DEF Steps
<1>5. due \subseteq Tables \X RowIds
  BY <1>1, <1>2
<1>6. nodes \in Nodes
  <2>1. w.nodes \in Functions(Pages, [table : Tables, node : TreeContents])
    BY WalkFields DEF Nodes
  <2>2. [table |-> e.table, node |-> node] \in [table : Tables, node : TreeContents]
    BY <1>1
  <2> QED BY <2>1, <2>2, <1>1, PutPlain DEF Nodes
<1>7. /\ b \in Walks
      /\ b.full = w.full /\ b.changed = w.changed /\ b.nodes = w.nodes /\ b.needed = w.needed
      /\ b.visited = w.visited /\ b.todo = w.todo /\ b.cells = w.cells
      /\ b.candidates = w.candidates \cup RowsAt(w.nodes, {e.page})
      /\ b.orphaned = w.orphaned \cup ChildrenOf(w.edges, {e.page})
      /\ b.edges = Without(w.edges, ChildrenOf(w.edges, {e.page}))
      /\ b.owners = Without(w.owners, OwnedBy(w.owners, {e.page}))
  BY ClearedFields
<1> HIDE DEF b
<1>8. Entered(w, e, node) =
        [b EXCEPT !.visited = b.visited \cup {e.page}, !.nodes = Put(b.nodes, e.page, [table |-> e.table, node |-> node]),
                  !.candidates = b.candidates \cup due, !.todo = b.todo \cup calls, !.cells = steps]
  BY DEF Entered, b
<1>9. Entered(w, e, node) =
        [b EXCEPT !.visited = b.visited \cup {e.page}, !.nodes = nodes,
                  !.candidates = b.candidates \cup due, !.todo = b.todo \cup calls, !.cells = steps]
  BY <1>7, <1>8
<1> DEFINE m == [b EXCEPT !.visited = b.visited \cup {e.page}, !.nodes = nodes, !.candidates = b.candidates \cup due]
<1>a. Entered(w, e, node) = [m EXCEPT !.todo = m.todo \cup calls, !.cells = steps]
  BY <1>7, <1>9 DEF Walks
<1> HIDE DEF calls, steps, due, nodes
<1>b. /\ m \in Walks
      /\ m.full = b.full /\ m.changed = b.changed /\ m.needed = b.needed /\ m.visited = b.visited \cup {e.page}
      /\ m.nodes = nodes /\ m.candidates = b.candidates \cup due /\ m.orphaned = b.orphaned
      /\ m.edges = b.edges /\ m.owners = b.owners /\ m.todo = b.todo
  BY <1>1, <1>5, <1>6, <1>7 DEF Walks
<1> HIDE DEF m
<1>10. LET n == Entered(w, e, node)
       IN /\ n \in Walks
          /\ n.full = b.full /\ n.changed = b.changed /\ n.needed = b.needed /\ n.visited = b.visited \cup {e.page}
          /\ n.nodes = nodes /\ n.candidates = b.candidates \cup due /\ n.orphaned = b.orphaned
          /\ n.edges = b.edges /\ n.owners = b.owners /\ n.todo = b.todo \cup calls /\ n.cells = steps
  <2> DEFINE q == m.todo \cup calls
  <2>1. q \in SUBSET Calls /\ q = b.todo \cup calls /\ steps \in SUBSET Steps
    BY <1>3, <1>4, <1>b DEF Walks
  <2>2. Entered(w, e, node) = [m EXCEPT !.todo = q, !.cells = steps]
    BY <1>a
  <2> HIDE DEF q
  <2> QED BY <1>b, <2>1, <2>2 DEF Walks
<1> QED BY <1>7, <1>10 DEF calls, steps, due, nodes

OwnedWalk(e) ==
  LET chain == ChainOf(e)
      o     == chain[e.at]
  IN [ForgetPages(walk, {o}) EXCEPT
       !.owners = Put(@, o, [leaf |-> e.leaf, row |-> e.row, next |-> Follower(chain, e.at)]),
       !.cells = (@ \ {e}) \cup (IF e.at = Len(chain) THEN {} ELSE {[e EXCEPT !.at = @ + 1]})]

LEMMA OwnedFields ==
  ASSUME walk \in Walks, NEW e \in walk.cells, ChainOf(e) \in Chains, e.at \in DOMAIN ChainOf(e)
  PROVE  LET chain == ChainOf(e)
             o == chain[e.at]
             n == OwnedWalk(e)
             T == {o} \cap DOMAIN walk.nodes
         IN /\ n \in Walks
            /\ n.full = walk.full /\ n.changed = walk.changed /\ n.needed = walk.needed
            /\ n.visited = walk.visited /\ n.todo = walk.todo
            /\ n.nodes = Without(walk.nodes, T)
            /\ n.candidates = walk.candidates \cup RowsAt(walk.nodes, T)
            /\ n.orphaned = walk.orphaned \cup ChildrenOf(walk.edges, T)
            /\ n.edges = Without(walk.edges, ChildrenOf(walk.edges, T))
            /\ n.owners = Put(Without(walk.owners, OwnedBy(walk.owners, T)), o,
                              [leaf |-> e.leaf, row |-> e.row, next |-> Follower(chain, e.at)])
            /\ n.cells = (walk.cells \ {e}) \cup (IF e.at = Len(chain) THEN {} ELSE {[e EXCEPT !.at = e.at + 1]})
<1> DEFINE chain == ChainOf(e)
           o     == chain[e.at]
           b     == ForgetPages(walk, {o})
           owner == [leaf |-> e.leaf, row |-> e.row, next |-> Follower(chain, e.at)]
           cells == (walk.cells \ {e}) \cup (IF e.at = Len(chain) THEN {} ELSE {[e EXCEPT !.at = e.at + 1]})
           T     == {o} \cap DOMAIN walk.nodes
<1>1. e \in Steps /\ e.at + 1 \in Nat
  BY DEF Walks, Steps
<1>2. o \in Pages /\ owner \in [leaf : Pages, row : RowIds, next : {0} \cup Pages]
  <2>1. o \in Pages /\ Follower(chain, e.at) \in {0} \cup Pages
    BY ChainsPlain
  <2> QED BY <1>1, <2>1 DEF Steps
<1>3. cells \subseteq Steps
  BY <1>1 DEF Walks, Steps
<1>4. /\ b \in Walks
      /\ b.full = walk.full /\ b.changed = walk.changed /\ b.needed = walk.needed
      /\ b.visited = walk.visited /\ b.todo = walk.todo /\ b.cells = walk.cells
      /\ b.nodes = Without(walk.nodes, T)
      /\ b.candidates = walk.candidates \cup RowsAt(walk.nodes, T)
      /\ b.orphaned = walk.orphaned \cup ChildrenOf(walk.edges, T)
      /\ b.edges = Without(walk.edges, ChildrenOf(walk.edges, T))
      /\ b.owners = Without(walk.owners, OwnedBy(walk.owners, T))
  BY ForgottenFields
<1>5. Put(b.owners, o, owner) \in OwnerEntries
  <2>1. b.owners \in Functions(Pages, [leaf : Pages, row : RowIds, next : {0} \cup Pages])
    BY <1>4, WalkFields DEF OwnerEntries
  <2> QED BY <1>2, <2>1, PutPlain DEF OwnerEntries
<1>6. OwnedWalk(e) = [b EXCEPT !.owners = Put(b.owners, o, owner), !.cells = cells]
  BY <1>4 DEF OwnedWalk
<1> HIDE DEF b, owner, cells, o, chain, T
<1>7. LET n == OwnedWalk(e)
      IN /\ n \in Walks
         /\ n.full = b.full /\ n.changed = b.changed /\ n.needed = b.needed
         /\ n.visited = b.visited /\ n.todo = b.todo /\ n.nodes = b.nodes
         /\ n.candidates = b.candidates /\ n.orphaned = b.orphaned /\ n.edges = b.edges
         /\ n.owners = Put(b.owners, o, owner) /\ n.cells = cells
  BY <1>3, <1>4, <1>5, <1>6 DEF Walks
<1> QED BY <1>4, <1>7 DEF owner, cells, o, chain, T

(* What is known ************************************************************)
LEMMA AboveUp ==
  ASSUME NEW edges \in Edges, NEW S \in SUBSET Pages
  PROVE  /\ S \subseteq Above(edges, S) /\ Above(edges, S) \subseteq Pages
         /\ \A c \in Above(edges, S) \cap DOMAIN edges : edges[c] \in Above(edges, S)
<1> DEFINE next == [p \in Pages |-> IF p \in DOMAIN edges THEN {edges[p]} ELSE {}]
<1>1. Above(edges, S) = Reach(S, next)
  BY DEF Above
<1>2. DOMAIN edges \subseteq Pages /\ \A c \in DOMAIN edges : edges[c] \in Pages
  BY FunctionsPlain DEF Edges
<1>3. S \subseteq Above(edges, S) /\ Above(edges, S) \subseteq Pages
  BY <1>1, ReachHas, ReachIn
<1>4. ASSUME NEW c \in Above(edges, S) \cap DOMAIN edges PROVE edges[c] \in Above(edges, S)
  <2>1. edges[c] \in next[c]
    BY <1>2, <1>4
  <2> QED BY <1>1, <1>2, <1>4, <2>1, ReachClosed
<1> QED BY <1>3, <1>4

\* What is above a known page ends in a root.
LEMMA KnownBelowRoots ==
  ASSUME NEW P, Database(P), NEW w \in Walks, NEW D \in SUBSET Pages, KnownRight(P, w, D), KnownHang(P, w, D),
         NEW U \in SUBSET Pages, U \cap Roots = {}, \A c \in U \cap DOMAIN w.edges : w.edges[c] \in U
  PROVE  U \cap (w.visited \cup D) = {}
<1> DEFINE K == w.visited \cup D
           X == Pages \ (U \cap K)
<1>0. K \subseteq Pages
  BY DEF Walks
<1>1. Roots \subseteq X
  BY PageOwnersAssumption DEF Roots, Pages
<1>2. ASSUME NEW q \in X, NEW c \in Children(P[q]), c \notin X PROVE FALSE
  <2>1. c \in U \cap K /\ c \notin Roots
    BY <1>2, ContentsPlain DEF Database
  <2>2. c \in DOMAIN w.edges /\ w.edges[c] \in K /\ c \in Children(P[w.edges[c]])
    BY <2>1 DEF KnownHang
  <2>3. w.edges[c] = q
    BY <1>0, <1>2, <2>2, OneParent
  <2> QED BY <1>2, <2>1, <2>2, <2>3
<1>3. \A t \in Tables : TreeOf(P, t) \subseteq X
  <2>1. TAKE t \in Tables
  <2>2. RootOf[t] \in X
    BY <1>1 DEF Roots
  <2>3. X \in SUBSET Pages /\ \A q \in X : Children(P[q]) \subseteq X
    BY <1>2
  <2> HIDE DEF X
  <2> QED BY <2>2, <2>3, TreeLeast
<1>4. ASSUME NEW p \in U \cap K PROVE FALSE
  <2>1. p \in TreeOf(P, w.nodes[p].table) /\ p \in DOMAIN w.nodes
    BY <1>4 DEF KnownRight
  <2>2. w.nodes[p].table \in Tables
    BY <2>1, WalkFields
  <2> QED BY <1>3, <1>4, <2>1, <2>2
<1> QED BY <1>4

LEMMA EmptyOK == GraphOK(EmptyGraph)
<1>1. DOMAIN <<>> = {} /\ \A T : <<>> \in Functions(Pages, T)
  <2>1. <<>> = [x \in {} |-> x]
    OBVIOUS
  <2> QED BY <2>1 DEF Functions
<1>2. EmptyGraph \in Graphs
  BY <1>1 DEF EmptyGraph, Graphs, Nodes, Edges, OwnerEntries
<1> QED BY <1>1, <1>2 DEF GraphOK, EmptyGraph

LEMMA GraphFields ==
  ASSUME NEW G, GraphOK(G)
  PROVE  /\ G.nodes \in Nodes /\ G.edges \in Edges /\ G.owners \in OwnerEntries
         /\ DOMAIN G.nodes \subseteq Pages /\ DOMAIN G.edges \subseteq Pages /\ DOMAIN G.owners \subseteq Pages
         /\ \A p \in DOMAIN G.nodes : G.nodes[p] \in [table : Tables, node : TreeContents]
         /\ \A p \in DOMAIN G.edges : G.edges[p] \in Pages
         /\ \A p \in DOMAIN G.owners : G.owners[p] \in [leaf : Pages, row : RowIds, next : {0} \cup Pages]
<1>1. G.nodes \in Nodes /\ G.edges \in Edges /\ G.owners \in OwnerEntries
  BY DEF GraphOK, Graphs
<1>2. DOMAIN G.nodes \subseteq Pages /\ \A p \in DOMAIN G.nodes : G.nodes[p] \in [table : Tables, node : TreeContents]
  BY <1>1, NodesPlain
<1>3. DOMAIN G.edges \subseteq Pages /\ \A p \in DOMAIN G.edges : G.edges[p] \in Pages
  <2>1. G.edges \in Functions(Pages, Pages)
    BY <1>1 DEF Edges
  <2> QED BY <2>1, FunctionsPlain
<1>4. /\ DOMAIN G.owners \subseteq Pages
      /\ \A p \in DOMAIN G.owners : G.owners[p] \in [leaf : Pages, row : RowIds, next : {0} \cup Pages]
  <2> DEFINE T == [leaf : Pages, row : RowIds, next : {0} \cup Pages]
  <2>1. G.owners \in Functions(Pages, T)
    BY <1>1 DEF OwnerEntries
  <2> HIDE DEF T
  <2>2. DOMAIN G.owners \subseteq Pages /\ \A p \in DOMAIN G.owners : G.owners[p] \in T
    BY <2>1, FunctionsPlain
  <2> QED BY <2>2 DEF T
<1> QED BY <1>1, <1>2, <1>3, <1>4

\* A page that was not written, and is in a tree, is as the index says.
LEMMA BaseFollows ==
  ASSUME NEW P, NEW G, NEW written, NEW due, Between(P, G, written, due), NEW w \in Walks,
         w.changed = IF w.full THEN Pages ELSE written
  PROVE  /\ GraphOK(Base(G, w)) /\ Database(P)
         /\ \A t \in Tables : \A p \in TreeOf(P, t) :
              p \in DOMAIN Base(G, w).nodes /\ p \notin w.changed => P[p] = Base(G, w).nodes[p].node
<1>1. GraphOK(Base(G, w)) /\ Database(P)
  BY EmptyOK DEF Between, Base
<1>2. ASSUME NEW t \in Tables, NEW p \in TreeOf(P, t), p \in DOMAIN Base(G, w).nodes, p \notin w.changed
      PROVE  P[p] = Base(G, w).nodes[p].node
  <2>1. p \in Pages /\ P[p] # Free
    BY <1>1, ImageTrees
  <2>2. Base(G, w) = G /\ w.changed = written
    BY <1>2, <2>1 DEF Base
  <2>3. P[p] = Content(G, p)
    BY <1>2, <2>1, <2>2 DEF Between
  <2> QED BY <1>2, <2>2, <2>3 DEF Content
<1> QED BY <1>1, <1>2

\* The pages under pages that the walk need not read are known too.
Below(P, new) == Reach(new, [p \in Pages |-> Children(P[p])])

LEMMA TrustBelow ==
  ASSUME NEW P, NEW G, NEW written, NEW due, Between(P, G, written, due), NEW needed, NEW w, NEW D,
         NEW new \in SUBSET Unneeded(w),
         WalkOK(P, G, written, needed, w, D, new),
         \A p \in new : p \in TreeOf(P, w.nodes[p].table),
         \A p \in new \cap DOMAIN w.edges : w.edges[p] \in w.visited
  PROVE  LET S == Below(P, new)
         IN /\ new \subseteq S /\ S \subseteq Unneeded(w) /\ S \subseteq Pages
            /\ \A x \in S : /\ w.nodes[x].node = P[x] /\ x \in TreeOf(P, w.nodes[x].table)
                            /\ Children(P[x]) \subseteq S
                            /\ x \notin new =>
                                 x \in DOMAIN w.edges /\ w.edges[x] \in S /\ x \in Children(P[w.edges[x]])
<1> DEFINE B == Base(G, w)
           next == [p \in Pages |-> Children(P[p])]
           S == Below(P, new)
           Good(x) == /\ x \in Unneeded(w) /\ w.nodes[x].node = P[x] /\ x \in TreeOf(P, w.nodes[x].table)
           U == {x \in S : /\ Good(x)
                           /\ x \notin new =>
                                x \in DOMAIN w.edges /\ w.edges[x] \in S /\ x \in Children(P[w.edges[x]])}
<1>1. /\ w \in Walks /\ KnownRight(P, w, D) /\ RestOld(B, w) /\ KnownHang(P, w, D)
      /\ EdgesKept(w) /\ EdgesRight(B, w, D, new) /\ NeededUpward(w)
      /\ GraphOK(B) /\ Database(P)
      /\ \A t \in Tables : \A p \in TreeOf(P, t) :
              p \in DOMAIN B.nodes /\ p \notin w.changed => P[p] = B.nodes[p].node
  BY BaseFollows DEF WalkOK
<1>2. Unneeded(w) \subseteq Pages /\ \A x \in Unneeded(w) : w.nodes[x].table \in Tables
  BY <1>1, WalkFields DEF Unneeded
<1> HIDE DEF B
<1>3. ASSUME NEW x \in Unneeded(w), x \in TreeOf(P, w.nodes[x].table) PROVE Good(x)
  <2>1. x \in DOMAIN B.nodes /\ w.nodes[x] = B.nodes[x] /\ x \notin w.changed
    BY <1>1, <1>3 DEF RestOld, Unneeded
  <2> QED BY <1>1, <1>2, <1>3, <2>1
<1>4. new \in SUBSET Pages /\ new \subseteq S /\ S \subseteq Pages
  BY <1>2, ReachHas, ReachIn DEF Below
<1>5. ASSUME NEW q \in U, NEW c \in Children(P[q]) PROVE c \in S /\ c \in U
  <2>1. q \in Pages /\ q \in S /\ q \in Unneeded(w) /\ w.nodes[q].node = P[q] /\ q \in TreeOf(P, w.nodes[q].table)
    BY <1>4, <1>5
  <2>2. c \in Pages \ Roots
    BY <1>1, <2>1, <1>5, ContentsPlain DEF Database
  <2>3. c \in S
    BY <1>5, <2>1, <2>2, ReachClosed DEF Below
  <2>4. c \in DOMAIN w.edges /\ w.edges[c] = q
    BY <1>1, <1>5, <2>1 DEF EdgesKept
  <2>5. q \notin w.visited /\ q \notin w.needed
    BY <2>1 DEF Unneeded
  <2>6. c \notin w.visited
    BY <1>1, <2>2, <2>4, <2>5 DEF KnownHang
  <2>7. c \notin w.needed
    BY <1>1, <2>4, <2>5 DEF NeededUpward
  <2>8. c \in DOMAIN w.nodes
    BY <1>1, <2>4, <2>5 DEF EdgesRight
  <2>9. c \in Unneeded(w)
    BY <2>6, <2>7, <2>8 DEF Unneeded
  <2>10. w.nodes[c].table = w.nodes[q].table
    <3>1. /\ q \in DOMAIN B.nodes /\ w.nodes[q] = B.nodes[q]
          /\ c \in DOMAIN B.nodes /\ w.nodes[c] = B.nodes[c]
      BY <1>1, <2>1, <2>9 DEF RestOld, Unneeded
    <3>2. c \in Children(B.nodes[q].node)
      BY <1>5, <2>1, <3>1
    <3>3. B.nodes[c].table = B.nodes[q].table
      BY <1>1, <1>2, <3>1, <3>2 DEF GraphOK
    <3> QED BY <3>1, <3>3
  <2>11. c \in TreeOf(P, w.nodes[c].table)
    BY <1>1, <1>2, <1>5, <2>1, <2>10, TreesPlain DEF Database
  <2>12. Good(c)
    BY <1>3, <2>9, <2>11
  <2> QED BY <1>5, <2>1, <2>3, <2>4, <2>12
<1>6. new \subseteq U
  <2>1. \A x \in new : x \in Unneeded(w) /\ x \in TreeOf(P, w.nodes[x].table)
    OBVIOUS
  <2>2. \A x \in new : Good(x)
    BY <1>3, <2>1
  <2> QED BY <1>4, <2>2
<1>7. S \subseteq U
  <2>1. U \in SUBSET Pages /\ \A q \in U : next[q] \subseteq U
    BY <1>4, <1>5
  <2> HIDE DEF U
  <2> QED BY <1>6, <2>1, ReachLeast DEF Below
<1>8. \A x \in S : Children(P[x]) \subseteq S
  BY <1>5, <1>7
<1> QED BY <1>4, <1>7, <1>8

LEMMA TrustStep ==
  ASSUME NEW P, NEW G, NEW written, NEW due, Between(P, G, written, due), NEW needed, NEW w, NEW D,
         NEW new \in SUBSET Unneeded(w),
         WalkOK(P, G, written, needed, w, D, new),
         \A p \in new : p \in TreeOf(P, w.nodes[p].table),
         \A p \in new \cap DOMAIN w.edges : w.edges[p] \in w.visited /\ p \in Children(P[w.edges[p]]),
         new \ Roots \subseteq DOMAIN w.edges
  PROVE  WalkOK(P, G, written, needed, w, D \cup Below(P, new), {})
<1> DEFINE B == Base(G, w)
           S == Below(P, new)
<1>1. /\ new \subseteq S /\ S \subseteq Unneeded(w) /\ S \subseteq Pages
      /\ \A x \in S : /\ w.nodes[x].node = P[x] /\ x \in TreeOf(P, w.nodes[x].table)
                      /\ Children(P[x]) \subseteq S
                      /\ x \notin new =>
                           x \in DOMAIN w.edges /\ w.edges[x] \in S /\ x \in Children(P[w.edges[x]])
  BY TrustBelow
<1> HIDE DEF S, B
<1>2. KnownRight(P, w, D \cup S)
  BY <1>1 DEF WalkOK, KnownRight, Unneeded
<1>3. TrustedWhole(P, w, D \cup S)
  BY <1>1 DEF WalkOK, TrustedWhole
<1>4. KnownHang(P, w, D \cup S)
  BY <1>1 DEF WalkOK, KnownHang, Unneeded
<1>5. EdgesRight(B, w, D \cup S, {})
  <2>1. EdgesRight(B, w, D, new)
    BY DEF WalkOK, B
  <2> QED BY <1>1, <2>1 DEF EdgesRight, Unneeded
<1>6. CallsEnough(P, w, D \cup S, {})
  BY <1>1 DEF WalkOK, CallsEnough
<1> QED BY <1>1, <1>2, <1>3, <1>4, <1>5, <1>6 DEF WalkOK, S, B

(* A page is linked to the parent that was visited **************************)
LEMMA CallPage ==
  ASSUME NEW P, Database(P), NEW w \in Walks, NEW D, KnownRight(P, w, D), CallsRight(P, w), NEW e \in w.todo
  PROVE  /\ e \in Calls /\ e.page \in Pages /\ e.table \in Tables /\ e.page \in TreeOf(P, e.table)
         /\ e.parent = 0 => e.page \in Roots
         /\ e.parent # 0 => e.parent \in w.visited /\ e.parent \in Pages /\ e.page \in Children(P[e.parent])
                            /\ e.page \notin Roots
<1>1. e \in Calls /\ e.page \in Pages /\ e.table \in Tables
  BY DEF Walks, Calls
<1>2. CASE e.parent = 0
  <2>1. e.page = RootOf[e.table]
    BY <1>2 DEF CallsRight
  <2> QED BY <1>1, <1>2, <2>1, TreesPlain DEF Database
<1>3. CASE e.parent # 0
  <2>1. e.parent \in w.visited /\ e.page \in Children(P[e.parent]) /\ e.table = w.nodes[e.parent].table
    BY <1>3 DEF CallsRight
  <2>2. e.parent \in TreeOf(P, e.table) /\ e.parent \in Pages
    BY <2>1 DEF KnownRight, Walks
  <2>3. e.page \notin Roots
    BY <2>1, <2>2, ContentsPlain DEF Database
  <2> QED BY <1>1, <1>3, <2>1, <2>2, <2>3, TreesPlain DEF Database
<1> QED BY <1>1, <1>2, <1>3

LEMMA LinkStep ==
  ASSUME NEW due, Between(pages, graph, touched, due), NEW needed, NEW D,
         WalkOK(pages, graph, touched, needed, walk, D, {}),
         NEW e \in walk.todo, Admits(e)
  PROVE  /\ WalkOK(pages, graph, touched, needed, Linked(e), D, {e.page})
         /\ e.page \in Pages /\ e.page \notin Linked(e).visited /\ e.page \in TreeOf(pages, e.table)
         /\ e.page \notin Roots => e.page \in DOMAIN Linked(e).edges
         /\ e.page \in DOMAIN Linked(e).edges =>
              /\ Linked(e).edges[e.page] \in Linked(e).visited
              /\ e.page \in Children(pages[Linked(e).edges[e.page]])
<1> DEFINE l  == Linked(e)
           p  == e.page
           up == OldParents(e)
           B  == Base(graph, walk)
           K  == walk.visited \cup D
<1>1. /\ walk \in Walks /\ D \in SUBSET Pages
      /\ KnownRight(pages, walk, D) /\ RestOld(B, walk) /\ TrustedWhole(pages, walk, D) /\ KnownHang(pages, walk, D)
      /\ EdgesKept(walk) /\ EdgesRight(B, walk, D, {}) /\ OrphansMarked(walk) /\ NeededUpward(walk)
      /\ CallsRight(pages, walk) /\ CallsEnough(pages, walk, D, {})
      /\ StepsRight(pages, walk) /\ ChainsOwned(pages, walk) /\ OwnersRight(pages, B, walk)
      /\ OwnersKept(B, walk) /\ RowsRemembered(graph, needed, walk)
      /\ walk.changed = IF walk.full THEN Pages ELSE touched
  BY DEF WalkOK
<1>2. Database(pages)
  BY DEF Between
<1>3. /\ e \in Calls /\ p \in Pages /\ e.table \in Tables /\ p \in TreeOf(pages, e.table)
      /\ e.parent = 0 => p \in Roots
      /\ e.parent # 0 => e.parent \in walk.visited /\ e.parent \in Pages /\ p \in Children(pages[e.parent])
                         /\ p \notin Roots
  BY <1>1, <1>2, CallPage
<1>4. /\ l \in Walks
      /\ l.full = walk.full /\ l.changed = walk.changed /\ l.nodes = walk.nodes /\ l.owners = walk.owners
      /\ l.visited = walk.visited /\ l.cells = walk.cells
      /\ l.candidates = walk.candidates /\ l.orphaned = walk.orphaned
      /\ l.todo = walk.todo \ {e}
      /\ l.needed = walk.needed \cup up
      /\ l.edges = IF e.parent = 0 THEN walk.edges ELSE Put(walk.edges, p, e.parent)
  BY <1>1, LinkedFields
<1>5. /\ DOMAIN l.edges = IF e.parent = 0 THEN DOMAIN walk.edges ELSE DOMAIN walk.edges \cup {p}
      /\ e.parent # 0 => l.edges[p] = e.parent
      /\ \A c \in DOMAIN walk.edges : e.parent = 0 \/ c # p => l.edges[c] = walk.edges[c]
  <2>2. ASSUME e.parent # 0
        PROVE  LET put == Put(walk.edges, p, e.parent)
               IN /\ DOMAIN put = DOMAIN walk.edges \cup {p} /\ put[p] = e.parent
                  /\ \A c \in DOMAIN walk.edges \ {p} : put[c] = walk.edges[c]
    BY DEF Put
  <2> HIDE DEF l
  <2>3. CASE e.parent = 0
    BY <1>4, <2>3
  <2>4. CASE e.parent # 0
    BY <1>4, <2>2, <2>4
  <2> QED BY <2>3, <2>4
<1>6. p \notin walk.visited /\ up \cap Roots = {}
  BY DEF Admits, Linked
<1>7. /\ up \subseteq Pages
      /\ \A c \in up \cap DOMAIN walk.edges : walk.edges[c] \in up
      /\ e.parent # 0 /\ p \in DOMAIN walk.edges => walk.edges[p] \in up
  <2>1. walk.edges \in Edges /\ (p \in DOMAIN walk.edges => walk.edges[p] \in Pages)
    BY <1>1, WalkFields
  <2> QED BY <2>1, AboveUp DEF OldParents
<1>8. up \cap K = {}
  BY <1>1, <1>2, <1>6, <1>7, KnownBelowRoots
<1>9. Base(graph, l) = B
  BY <1>4 DEF Base
<1>10. Unneeded(l) = Unneeded(walk) \ up
  BY <1>4 DEF Unneeded
<1> HIDE DEF l, p, up, B
<1>11. KnownRight(pages, l, D) /\ RestOld(B, l)
  BY <1>1, <1>4 DEF KnownRight, RestOld
<1>12. TrustedWhole(pages, l, D)
  BY <1>1, <1>4, <1>8, <1>10 DEF TrustedWhole
<1>13. KnownHang(pages, l, D)
  <2>1. ASSUME NEW x \in K \ Roots
        PROVE  /\ x \in DOMAIN l.edges /\ l.edges[x] \in K /\ x \in Children(pages[l.edges[x]])
               /\ x \in walk.visited => l.edges[x] \in walk.visited
    <3>1. /\ x \in DOMAIN walk.edges /\ walk.edges[x] \in K /\ x \in Children(pages[walk.edges[x]])
          /\ x \in walk.visited => walk.edges[x] \in walk.visited
      BY <1>1, <2>1 DEF KnownHang
    <3>2. CASE e.parent # 0 /\ x = p
      BY <1>3, <1>5, <3>2
    <3>3. CASE ~(e.parent # 0 /\ x = p)
      BY <1>5, <3>1, <3>3
    <3> QED BY <3>2, <3>3
  <2>2. ASSUME NEW x \in (l.visited \cup D) \ Roots
        PROVE  /\ x \in DOMAIN l.edges /\ l.edges[x] \in l.visited \cup D /\ x \in Children(pages[l.edges[x]])
               /\ x \in l.visited => l.edges[x] \in l.visited
    <3>1. x \in K \ Roots /\ l.visited = walk.visited
      BY <1>4, <2>2
    <3> QED BY <2>1, <3>1
  <2> QED BY <2>2 DEF KnownHang
<1>14. EdgesKept(l)
  <2>1. ASSUME NEW x \in Unneeded(l), NEW c \in Children(walk.nodes[x].node) PROVE c \in DOMAIN l.edges /\ l.edges[c] = x
    <3>1. x \in Unneeded(walk) /\ x \notin up
      BY <1>10, <2>1
    <3>2. c \in DOMAIN walk.edges /\ walk.edges[c] = x
      BY <1>1, <2>1, <3>1 DEF EdgesKept
    <3> QED BY <1>5, <1>7, <3>1, <3>2
  <2> QED BY <1>4, <2>1 DEF EdgesKept
<1>15. EdgesRight(B, l, D, {p})
  <2>1. ASSUME NEW c \in DOMAIN l.edges
        PROVE  /\ c \in DOMAIN walk.nodes \cup {p} /\ c \notin Roots /\ l.edges[c] \in DOMAIN walk.nodes
               /\ c \notin K \cup {p} => c \in DOMAIN B.edges /\ l.edges[c] = B.edges[c]
               /\ l.edges[c] \in walk.visited => c \in K \cup {p}
    <3>1. CASE e.parent # 0 /\ c = p
      BY <1>1, <1>3, <1>5, <3>1 DEF KnownRight
    <3>2. CASE ~(e.parent # 0 /\ c = p)
      BY <1>1, <1>5, <2>1, <3>2 DEF EdgesRight
    <3> QED BY <3>1, <3>2
  <2> QED BY <1>4, <2>1 DEF EdgesRight
<1>16. OrphansMarked(l)
  BY <1>1, <1>4, <1>5 DEF OrphansMarked
<1>17. NeededUpward(l)
  <2>1. ASSUME NEW c \in (walk.needed \cup up) \cap DOMAIN l.edges
        PROVE  l.edges[c] \in walk.needed \cup up \cup walk.visited
    <3>1. CASE e.parent # 0 /\ c = p
      BY <1>3, <1>5, <3>1
    <3>2. CASE ~(e.parent # 0 /\ c = p)
      BY <1>1, <1>5, <1>7, <2>1, <3>2 DEF NeededUpward
    <3> QED BY <3>1, <3>2
  <2> QED BY <1>4, <2>1 DEF NeededUpward
<1>18. CallsRight(pages, l)
  BY <1>1, <1>4 DEF CallsRight
<1>19. CallsEnough(pages, l, D, {p})
  BY <1>1, <1>4 DEF CallsEnough, p
<1>20. StepsRight(pages, l) /\ ChainsOwned(pages, l) /\ OwnersRight(pages, B, l)
  BY <1>1, <1>4 DEF StepsRight, ChainsOwned, OwnersRight
<1>21. OwnersKept(B, l) /\ RowsRemembered(graph, needed, l)
  BY <1>1, <1>4, <1>10 DEF OwnersKept, RowsRemembered
<1>22. WalkOK(pages, graph, touched, needed, l, D, {p})
  BY <1>1, <1>4, <1>9, <1>11, <1>12, <1>13, <1>14, <1>15, <1>16, <1>17, <1>18, <1>19, <1>20, <1>21 DEF WalkOK
<1>23. p \in DOMAIN l.edges => l.edges[p] \in l.visited /\ p \in Children(pages[l.edges[p]])
  <2>1. CASE e.parent = 0
    BY <1>1, <1>3, <1>5, <2>1 DEF EdgesRight
  <2> QED BY <1>3, <1>4, <1>5, <2>1
<1> QED BY <1>3, <1>4, <1>5, <1>6, <1>22, <1>23 DEF l, p

(* A page is read ***********************************************************)
LEMMA EnterStep ==
  ASSUME NEW P, NEW G, NEW written, NEW due, Between(P, G, written, due), NEW needed, NEW D, NEW w, NEW e \in Calls,
         WalkOK(P, G, written, needed, w, D, {e.page}),
         w.cells = {}, e.page \notin w.visited, e.page \notin Unneeded(w), e.page \in TreeOf(P, e.table),
         e.page \notin Roots => e.page \in DOMAIN w.edges,
         e.page \in DOMAIN w.edges => w.edges[e.page] \in w.visited /\ e.page \in Children(P[w.edges[e.page]])
  PROVE  WalkOK(P, G, written, needed, Entered(w, e, P[e.page]), D, {})
<1> DEFINE p == e.page
           node == P[e.page]
           n == Entered(w, e, node)
           B == Base(G, w)
           K == w.visited \cup D
           L == n.visited \cup D
<1>1. /\ w \in Walks /\ D \in SUBSET Pages
      /\ KnownRight(P, w, D) /\ RestOld(B, w) /\ TrustedWhole(P, w, D) /\ KnownHang(P, w, D)
      /\ EdgesKept(w) /\ EdgesRight(B, w, D, {p}) /\ OrphansMarked(w) /\ NeededUpward(w)
      /\ CallsRight(P, w) /\ CallsEnough(P, w, D, {p})
      /\ StepsRight(P, w) /\ ChainsOwned(P, w) /\ OwnersRight(P, B, w)
      /\ OwnersKept(B, w) /\ RowsRemembered(G, needed, w)
      /\ w.changed = IF w.full THEN Pages ELSE written
  BY DEF WalkOK
<1>2. Database(P) /\ P \in [Pages -> Contents]
  BY DEF Between, Database
<1>3. p \in Pages /\ e.table \in Tables /\ node \in TreeContents /\ p \in TreeOf(P, e.table)
  BY <1>2, ImageTrees DEF Calls
<1>4. p \notin w.visited /\ p \notin D /\ p \notin K /\ p \notin Unneeded(w)
  BY <1>1 DEF TrustedWhole
<1>5. /\ n \in Walks
      /\ n.full = w.full /\ n.changed = w.changed /\ n.needed = w.needed
      /\ n.visited = w.visited \cup {p}
      /\ n.nodes = Put(w.nodes, p, [table |-> e.table, node |-> node])
      /\ n.candidates = w.candidates \cup RowsAt(w.nodes, {p}) \cup {<<e.table, r>> : r \in Rows(node)}
      /\ n.orphaned = w.orphaned \cup ChildrenOf(w.edges, {p})
      /\ n.edges = Without(w.edges, ChildrenOf(w.edges, {p}))
      /\ n.owners = Without(w.owners, OwnedBy(w.owners, {p}))
      /\ n.todo = w.todo \cup {Call(c, e.table, p, e.depth + 1) : c \in Children(node)}
      /\ n.cells = {[leaf |-> p, row |-> r, at |-> 1] : r \in {s \in Rows(node) : node.cells[s] # <<>>}}
  <2>1. w \in Walks /\ e \in Calls /\ node \in TreeContents
    BY <1>1, <1>3
  <2> HIDE DEF node, B, K, L
  <2> QED BY <2>1, EnteredFields, ZenonT(60)
<1>6. Base(G, n) = B
  BY <1>5 DEF Base
<1> HIDE DEF n, p, node, B
<1>7. /\ DOMAIN n.nodes = DOMAIN w.nodes \cup {p} /\ n.nodes[p] = [table |-> e.table, node |-> node]
      /\ \A q \in DOMAIN w.nodes \ {p} : n.nodes[q] = w.nodes[q]
  BY <1>5 DEF Put
<1>8. /\ \A c : c \in DOMAIN n.edges <=> c \in DOMAIN w.edges /\ w.edges[c] # p
      /\ \A c \in DOMAIN n.edges : n.edges[c] = w.edges[c]
  BY <1>5 DEF Without, ChildrenOf
<1>9. /\ \A o : o \in DOMAIN n.owners <=> o \in DOMAIN w.owners /\ w.owners[o].leaf # p
      /\ \A o \in DOMAIN n.owners : n.owners[o] = w.owners[o]
  BY <1>5 DEF Without, OwnedBy
<1>10. n.visited \cup D = K \cup {p}
  BY <1>5
<1>11. Unneeded(n) = Unneeded(w)
  BY <1>4, <1>5, <1>7 DEF Unneeded
<1>12. \A q \in Unneeded(w) : q # p /\ q \in DOMAIN w.nodes /\ n.nodes[q] = w.nodes[q]
  BY <1>4, <1>7 DEF Unneeded
<1>13. \A q \in K : q # p /\ q \in DOMAIN w.nodes /\ n.nodes[q] = w.nodes[q]
  BY <1>1, <1>4, <1>7 DEF KnownRight
<1>21. KnownRight(P, n, D)
  <2>1. ASSUME NEW q \in n.visited \cup D
        PROVE  q \in DOMAIN n.nodes /\ n.nodes[q].node = P[q] /\ q \in TreeOf(P, n.nodes[q].table)
    <3>1. CASE q = p
      BY <1>3, <1>7, <3>1 DEF node, p
    <3>2. CASE q \in K
      BY <1>1, <1>7, <1>13, <3>2 DEF KnownRight
    <3> QED BY <1>10, <2>1, <3>1, <3>2
  <2> QED BY <2>1 DEF KnownRight
<1>22. RestOld(B, n)
  BY <1>1, <1>5, <1>7 DEF RestOld
<1>23. TrustedWhole(P, n, D)
  BY <1>1, <1>11 DEF TrustedWhole
<1>24. KnownHang(P, n, D)
  <2>1. ASSUME NEW x \in (n.visited \cup D) \ Roots
        PROVE  /\ x \in DOMAIN n.edges /\ n.edges[x] \in n.visited \cup D /\ x \in Children(P[n.edges[x]])
               /\ x \in n.visited => n.edges[x] \in n.visited
    <3>1. CASE x = p
      <4>1. x \in DOMAIN w.edges /\ w.edges[x] \in w.visited /\ x \in Children(P[w.edges[x]])
        BY <2>1, <3>1 DEF p
      <4>2. w.edges[x] # p
        BY <1>4, <4>1
      <4> QED BY <1>5, <1>8, <4>1, <4>2
    <3>2. CASE x \in K
      <4>1. /\ x \in DOMAIN w.edges /\ w.edges[x] \in K /\ x \in Children(P[w.edges[x]])
            /\ x \in w.visited => w.edges[x] \in w.visited
        BY <1>1, <2>1, <3>2 DEF KnownHang
      <4>2. w.edges[x] # p /\ x # p
        BY <1>4, <3>2, <4>1
      <4> QED BY <1>5, <1>8, <4>1, <4>2
    <3> QED BY <1>10, <2>1, <3>1, <3>2
  <2> QED BY <2>1 DEF KnownHang
<1>25. EdgesKept(n)
  BY <1>1, <1>8, <1>11, <1>12 DEF EdgesKept
<1>26. EdgesRight(B, n, D, {})
  <2>1. ASSUME NEW c \in DOMAIN n.edges
        PROVE  /\ c \in DOMAIN n.nodes \cup {} /\ c \notin Roots /\ n.edges[c] \in DOMAIN n.nodes
               /\ c \notin n.visited \cup D \cup {} => c \in DOMAIN B.edges /\ n.edges[c] = B.edges[c]
               /\ n.edges[c] \in n.visited => c \in n.visited \cup D \cup {}
    <3>1. c \in DOMAIN w.edges /\ w.edges[c] # p /\ n.edges[c] = w.edges[c]
      BY <1>8, <2>1
    <3>2. /\ c \in DOMAIN w.nodes \cup {p} /\ c \notin Roots /\ w.edges[c] \in DOMAIN w.nodes
          /\ c \notin w.visited \cup D \cup {p} => c \in DOMAIN B.edges /\ w.edges[c] = B.edges[c]
          /\ w.edges[c] \in w.visited => c \in w.visited \cup D \cup {p}
      BY <1>1, <3>1 DEF EdgesRight
    <3> QED BY <1>5, <1>7, <3>1, <3>2
  <2> QED BY <2>1 DEF EdgesRight
<1>27. OrphansMarked(n)
  <2>1. ASSUME NEW q \in DOMAIN n.nodes \ (n.visited \cup Roots) PROVE q \in DOMAIN n.edges \cup n.orphaned
    <3>1. q \in DOMAIN w.nodes \ (w.visited \cup Roots)
      BY <1>5, <1>7, <2>1
    <3>2. q \in DOMAIN w.edges \cup w.orphaned
      BY <1>1, <3>1 DEF OrphansMarked
    <3> QED BY <1>5, <1>8, <3>2 DEF ChildrenOf
  <2> QED BY <2>1 DEF OrphansMarked
<1>28. NeededUpward(n)
  BY <1>1, <1>5, <1>8 DEF NeededUpward
<1>29. CallsRight(P, n)
  <2>1. ASSUME NEW f \in n.todo
        PROVE  /\ f.parent = 0 => f.page = RootOf[f.table]
               /\ f.parent # 0 => f.parent \in n.visited /\ f.page \in Children(P[f.parent])
                                  /\ f.table = n.nodes[f.parent].table
    <3>1. CASE f \in w.todo
      BY <1>1, <1>5, <1>13, <3>1 DEF CallsRight
    <3>2. CASE \E c \in Children(node) : f = Call(c, e.table, p, e.depth + 1)
      <4>1. p # 0
        BY <1>3, PageOwnersAssumption DEF Pages
      <4> QED BY <1>5, <1>7, <3>2, <4>1 DEF Call, node, p
    <3> QED BY <1>5, <2>1, <3>1, <3>2
  <2> QED BY <2>1 DEF CallsRight
<1>30. CallsEnough(P, n, D, {})
  <2> DEFINE before == w.visited \cup D \cup {p} \cup {f.page : f \in w.todo}
             there  == n.visited \cup D \cup {} \cup {f.page : f \in n.todo}
  <2>1. before \subseteq there
    BY <1>5
  <2>2. Children(node) \subseteq there
    <3>1. ASSUME NEW c \in Children(node) PROVE c \in there
      <4>1. Call(c, e.table, p, e.depth + 1) \in n.todo
        BY <1>5
      <4>2. Call(c, e.table, p, e.depth + 1).page = c
        BY DEF Call
      <4> QED BY <4>1, <4>2
    <3> QED BY <3>1
  <2>3. Roots \subseteq before /\ \A q \in w.visited : Children(P[q]) \subseteq before
    BY <1>1 DEF CallsEnough
  <2>4. Roots \subseteq there /\ \A q \in n.visited : Children(P[q]) \subseteq there
    BY <1>5, <2>1, <2>2, <2>3 DEF node, p
  <2> QED BY <2>4 DEF CallsEnough
<1>31. StepsRight(P, n)
  <2>1. ASSUME NEW f \in n.cells
        PROVE  f.leaf \in n.visited /\ f.row \in Rows(P[f.leaf]) /\ f.at \in DOMAIN P[f.leaf].cells[f.row]
    <3>1. PICK r \in Rows(node) : node.cells[r] # <<>> /\ f = [leaf |-> p, row |-> r, at |-> 1]
      BY <1>5, <2>1
    <3>2. node.cells[r] \in Chains
      BY <1>3, ContentsPlain DEF Rows, TreeContents
    <3>3. 1 \in DOMAIN node.cells[r]
      <4>1. DOMAIN node.cells[r] = 1 .. Len(node.cells[r]) /\ Len(node.cells[r]) \in Nat
        BY <3>2, ChainsPlain
      <4>2. PICK m \in 0 .. MaxPage : node.cells[r] \in [1 .. m -> Pages \ Roots]
        BY <3>2 DEF Chains
      <4>3. node.cells[r] \in Seq(Pages \ Roots)
        BY <4>2, PageOwnersAssumption
      <4>4. Len(node.cells[r]) # 0
        BY <3>1, <4>3
      <4> QED BY <4>1, <4>4
    <3> QED BY <1>5, <3>1, <3>3 DEF node, p
  <2> QED BY <2>1 DEF StepsRight
<1>32. ChainsOwned(P, n)
  <2>1. ASSUME NEW q \in n.visited, NEW r \in Rows(P[q]), NEW i \in DOMAIN P[q].cells[r]
        PROVE  \/ LET o == P[q].cells[r][i]
                  IN o \in DOMAIN n.owners /\ Owner(o, n.owners[o], P[q].cells, q, r, i)
               \/ \E f \in n.cells : f.leaf = q /\ f.row = r /\ f.at <= i
    <3>1. CASE q = p
      <4>1. node.cells[r] \in Chains
        BY <1>3, <2>1, <3>1, ContentsPlain DEF Rows, TreeContents, node, p
      <4>2. i \in 1 .. Len(node.cells[r]) /\ Len(node.cells[r]) \in Nat
        BY <2>1, <3>1, <4>1, ChainsPlain DEF node, p
      <4>3. node.cells[r] # <<>>
        BY <4>2
      <4>4. [leaf |-> p, row |-> r, at |-> 1] \in n.cells
        BY <1>5, <2>1, <3>1, <4>3 DEF node, p
      <4> QED BY <3>1, <4>2, <4>4
    <3>2. CASE q \in w.visited
      <4> DEFINE o == P[q].cells[r][i]
      <4>1. o \in DOMAIN w.owners /\ Owner(o, w.owners[o], P[q].cells, q, r, i)
        BY <1>1, <2>1, <3>2 DEF ChainsOwned
      <4>2. w.owners[o].leaf = q /\ q # p
        BY <1>4, <3>2, <4>1 DEF Owner
      <4> HIDE DEF o
      <4>3. o \in DOMAIN n.owners /\ n.owners[o] = w.owners[o]
        BY <1>9, <4>1, <4>2
      <4> QED BY <4>1, <4>3 DEF o
    <3> QED BY <1>5, <2>1, <3>1, <3>2
  <2> QED BY <2>1 DEF ChainsOwned
<1>33. OwnersRight(P, B, n)
  BY <1>1, <1>5, <1>7, <1>9 DEF OwnersRight
<1>34. OwnersKept(B, n)
  BY <1>1, <1>9, <1>11, <1>12 DEF OwnersKept
<1>35. RowsRemembered(G, needed, n)
  <2>1. ASSUME NEW q \in n.visited PROVE RowsAt(n.nodes, {q}) \subseteq n.candidates
    <3>1. CASE q = p
      BY <1>5, <1>7, <3>1 DEF RowsAt
    <3>2. CASE q \in w.visited
      <4>1. RowsAt(w.nodes, {q}) \subseteq w.candidates
        BY <1>1, <3>2 DEF RowsRemembered
      <4>2. q \in DOMAIN w.nodes /\ n.nodes[q] = w.nodes[q]
        BY <1>13, <3>2
      <4> QED BY <1>5, <1>7, <4>1, <4>2 DEF RowsAt
    <3> QED BY <1>5, <2>1, <3>1, <3>2
  <2>2. ASSUME ~n.full, NEW q \in DOMAIN G.nodes, q \in needed \/ q \notin DOMAIN n.nodes \/ q \in n.visited
        PROVE  RowsAt(G.nodes, {q}) \subseteq n.candidates
    <3>1. CASE q = p /\ p \in DOMAIN w.nodes
      <4>1. B = G /\ w.nodes[p] = G.nodes[p]
        BY <1>1, <1>4, <1>5, <2>2, <3>1 DEF RestOld, Base, B
      <4> QED BY <1>5, <3>1, <4>1 DEF RowsAt
    <3>2. CASE ~(q = p /\ p \in DOMAIN w.nodes)
      <4>1. q \in needed \/ q \notin DOMAIN w.nodes \/ q \in w.visited
        BY <1>5, <1>7, <2>2, <3>2
      <4> QED BY <1>1, <1>5, <2>2, <4>1 DEF RowsRemembered
    <3> QED BY <3>1, <3>2
  <2>3. ~n.full => needed \subseteq n.needed
    BY <1>1, <1>5 DEF RowsRemembered
  <2> QED BY <2>1, <2>2, <2>3 DEF RowsRemembered
<1>40. n.changed = IF n.full THEN Pages ELSE written
  BY <1>1, <1>5
<1>41. WalkOK(P, G, written, needed, n, D, {})
  BY <1>1, <1>5, <1>6, <1>21, <1>22, <1>23, <1>24, <1>25, <1>26, <1>27, <1>28, <1>29, <1>30,
     <1>31, <1>32, <1>33, <1>34, <1>35, <1>40 DEF WalkOK
<1> QED BY <1>41 DEF n, node

(* An overflow page is owned ************************************************)
LEMMA StepCell ==
  ASSUME NEW P, Database(P), NEW w \in Walks, NEW D, KnownRight(P, w, D), StepsRight(P, w), NEW e \in w.cells
  PROVE  LET chain == w.nodes[e.leaf].node.cells[e.row]
         IN /\ e.leaf \in w.visited /\ e.leaf \in Pages /\ e.row \in Rows(P[e.leaf])
            /\ chain = P[e.leaf].cells[e.row] /\ chain \in Chains /\ e.at \in DOMAIN chain /\ e \in Steps
<1>1. e.leaf \in w.visited /\ e.row \in Rows(P[e.leaf]) /\ e.at \in DOMAIN P[e.leaf].cells[e.row] /\ e \in Steps
  BY DEF StepsRight, Walks
<1>2. w.nodes[e.leaf].node = P[e.leaf] /\ e.leaf \in Pages
  BY <1>1 DEF KnownRight, Walks
<1>3. P[e.leaf].cells[e.row] \in Chains
  BY <1>1, <1>2, ContentsPlain DEF Database, Rows
<1> QED BY <1>1, <1>2, <1>3

LEMMA OwnStep ==
  ASSUME NEW due, Between(pages, graph, touched, due), NEW needed, NEW D,
         WalkOK(pages, graph, touched, needed, walk, D, {}),
         NEW e \in walk.cells, Ownable(ChainOf(e)[e.at])
  PROVE  WalkOK(pages, graph, touched, needed, OwnedWalk(e), D, {})
<1> DEFINE w == walk
           P == pages
           n == OwnedWalk(e)
           B == Base(graph, walk)
           K == w.visited \cup D
           chain == ChainOf(e)
           o == chain[e.at]
           T == {o} \cap DOMAIN w.nodes
           owner == [leaf |-> e.leaf, row |-> e.row, next |-> Follower(chain, e.at)]
<1>1. /\ w \in Walks /\ D \in SUBSET Pages
      /\ KnownRight(P, w, D) /\ RestOld(B, w) /\ TrustedWhole(P, w, D) /\ KnownHang(P, w, D)
      /\ EdgesKept(w) /\ EdgesRight(B, w, D, {}) /\ OrphansMarked(w) /\ NeededUpward(w)
      /\ CallsRight(P, w) /\ CallsEnough(P, w, D, {})
      /\ StepsRight(P, w) /\ ChainsOwned(P, w) /\ OwnersRight(P, B, w)
      /\ OwnersKept(B, w) /\ RowsRemembered(graph, needed, w)
      /\ w.changed = IF w.full THEN Pages ELSE touched
  BY DEF WalkOK
<1>2. Database(P)
  BY DEF Between
<1>3. /\ e.leaf \in w.visited /\ e.leaf \in Pages /\ e.row \in Rows(P[e.leaf])
      /\ chain = P[e.leaf].cells[e.row] /\ chain \in Chains /\ e.at \in DOMAIN chain /\ e \in Steps
  BY <1>1, <1>2, StepCell DEF ChainOf
<1>4. o \notin DOMAIN w.owners /\ (o \in DOMAIN w.nodes => o \notin Roots \cup w.visited \cup DOMAIN w.edges)
  BY DEF Ownable
<1>5. \A q \in T : q = o /\ q \in DOMAIN w.nodes /\ q \notin K /\ q \notin DOMAIN w.edges
  BY <1>1, <1>4 DEF KnownHang
<1>6. /\ n \in Walks
      /\ n.full = w.full /\ n.changed = w.changed /\ n.needed = w.needed
      /\ n.visited = w.visited /\ n.todo = w.todo
      /\ n.nodes = Without(w.nodes, T)
      /\ n.candidates = w.candidates \cup RowsAt(w.nodes, T)
      /\ n.orphaned = w.orphaned \cup ChildrenOf(w.edges, T)
      /\ n.edges = Without(w.edges, ChildrenOf(w.edges, T))
      /\ n.owners = Put(Without(w.owners, OwnedBy(w.owners, T)), o, owner)
      /\ n.cells = (w.cells \ {e}) \cup (IF e.at = Len(chain) THEN {} ELSE {[e EXCEPT !.at = e.at + 1]})
  BY <1>1, <1>3, OwnedFields
<1>7. Base(graph, n) = B
  BY <1>6 DEF Base
<1>8. owner.leaf = e.leaf /\ Owner(o, owner, P[e.leaf].cells, e.leaf, e.row, e.at)
  BY <1>3 DEF Owner, Rows
<1> HIDE DEF n, B, T, owner, o, chain
<1>9. /\ DOMAIN n.nodes = DOMAIN w.nodes \ T
      /\ \A q \in DOMAIN n.nodes : n.nodes[q] = w.nodes[q]
  BY <1>6 DEF Without
<1>10. /\ \A c : c \in DOMAIN n.edges <=> c \in DOMAIN w.edges /\ w.edges[c] \notin T
       /\ \A c \in DOMAIN n.edges : n.edges[c] = w.edges[c]
  BY <1>6 DEF Without, ChildrenOf
<1>11. /\ \A q : q \in DOMAIN n.owners <=> q = o \/ (q \in DOMAIN w.owners /\ w.owners[q].leaf \notin T)
       /\ n.owners[o] = owner
       /\ \A q \in DOMAIN n.owners : q # o => n.owners[q] = w.owners[q]
  BY <1>6 DEF Without, OwnedBy, Put
<1>12. Unneeded(n) = Unneeded(w) \ T
  BY <1>6, <1>9 DEF Unneeded
<1>13. \A q \in K : q \notin T /\ q \in DOMAIN n.nodes /\ n.nodes[q] = w.nodes[q]
  BY <1>1, <1>5, <1>9 DEF KnownRight
<1>21. KnownRight(P, n, D)
  BY <1>1, <1>6, <1>13 DEF KnownRight
<1>22. RestOld(B, n)
  BY <1>1, <1>6, <1>9 DEF RestOld
<1>23. TrustedWhole(P, n, D)
  BY <1>1, <1>12, <1>13 DEF TrustedWhole
<1>24. KnownHang(P, n, D)
  <2>1. ASSUME NEW x \in (n.visited \cup D) \ Roots
        PROVE  /\ x \in DOMAIN n.edges /\ n.edges[x] \in n.visited \cup D /\ x \in Children(P[n.edges[x]])
               /\ x \in n.visited => n.edges[x] \in n.visited
    <3>1. /\ x \in DOMAIN w.edges /\ w.edges[x] \in K /\ x \in Children(P[w.edges[x]])
          /\ x \in w.visited => w.edges[x] \in w.visited
      BY <1>1, <1>6, <2>1 DEF KnownHang
    <3> QED BY <1>6, <1>10, <1>13, <3>1
  <2> QED BY <2>1 DEF KnownHang
<1>25. EdgesKept(n)
  <2>1. ASSUME NEW x \in Unneeded(n), NEW c \in Children(n.nodes[x].node) PROVE c \in DOMAIN n.edges /\ n.edges[c] = x
    <3>1. x \in Unneeded(w) /\ x \notin T /\ n.nodes[x] = w.nodes[x]
      BY <1>9, <1>12, <2>1 DEF Unneeded
    <3>2. c \in DOMAIN w.edges /\ w.edges[c] = x
      BY <1>1, <2>1, <3>1 DEF EdgesKept
    <3> QED BY <1>10, <3>1, <3>2
  <2> QED BY <2>1 DEF EdgesKept
<1>26. EdgesRight(B, n, D, {})
  <2>1. ASSUME NEW c \in DOMAIN n.edges
        PROVE  /\ c \in DOMAIN n.nodes \cup {} /\ c \notin Roots /\ n.edges[c] \in DOMAIN n.nodes
               /\ c \notin n.visited \cup D \cup {} => c \in DOMAIN B.edges /\ n.edges[c] = B.edges[c]
               /\ n.edges[c] \in n.visited => c \in n.visited \cup D \cup {}
    <3>1. c \in DOMAIN w.edges /\ w.edges[c] \notin T /\ n.edges[c] = w.edges[c] /\ c \notin T
      BY <1>5, <1>10, <2>1
    <3>2. /\ c \in DOMAIN w.nodes \cup {} /\ c \notin Roots /\ w.edges[c] \in DOMAIN w.nodes
          /\ c \notin w.visited \cup D \cup {} => c \in DOMAIN B.edges /\ w.edges[c] = B.edges[c]
          /\ w.edges[c] \in w.visited => c \in w.visited \cup D \cup {}
      BY <1>1, <3>1 DEF EdgesRight
    <3> QED BY <1>6, <1>9, <3>1, <3>2
  <2> QED BY <2>1 DEF EdgesRight
<1>27. OrphansMarked(n)
  <2>1. ASSUME NEW q \in DOMAIN n.nodes \ (n.visited \cup Roots) PROVE q \in DOMAIN n.edges \cup n.orphaned
    <3>1. q \in DOMAIN w.edges \cup w.orphaned
      BY <1>1, <1>6, <1>9, <2>1 DEF OrphansMarked
    <3> QED BY <1>6, <1>10, <3>1 DEF ChildrenOf
  <2> QED BY <2>1 DEF OrphansMarked
<1>28. NeededUpward(n)
  BY <1>1, <1>6, <1>10 DEF NeededUpward
<1>29. CallsRight(P, n)
  BY <1>1, <1>6, <1>13 DEF CallsRight
<1>30. CallsEnough(P, n, D, {})
  BY <1>1, <1>6 DEF CallsEnough
<1>31. StepsRight(P, n)
  <2>1. ASSUME NEW f \in n.cells
        PROVE  f.leaf \in n.visited /\ f.row \in Rows(P[f.leaf]) /\ f.at \in DOMAIN P[f.leaf].cells[f.row]
    <3>1. CASE f \in w.cells
      BY <1>1, <1>6, <3>1 DEF StepsRight
    <3>2. CASE e.at # Len(chain) /\ f = [e EXCEPT !.at = e.at + 1]
      <4>1. f.leaf = e.leaf /\ f.row = e.row /\ f.at = e.at + 1
        BY <1>3, <3>2 DEF Steps
      <4>2. e.at + 1 \in DOMAIN chain
        BY <1>3, <3>2, ChainsPlain DEF Steps
      <4> QED BY <1>3, <1>6, <4>1, <4>2
    <3> QED BY <1>6, <2>1, <3>1, <3>2
  <2> QED BY <2>1 DEF StepsRight
<1>32. ChainsOwned(P, n)
  <2>1. ASSUME NEW q \in n.visited, NEW r \in Rows(P[q]), NEW i \in DOMAIN P[q].cells[r]
        PROVE  \/ LET u == P[q].cells[r][i]
                  IN u \in DOMAIN n.owners /\ Owner(u, n.owners[u], P[q].cells, q, r, i)
               \/ \E f \in n.cells : f.leaf = q /\ f.row = r /\ f.at <= i
    <3> DEFINE u == P[q].cells[r][i]
    <3>1. CASE u \in DOMAIN w.owners /\ Owner(u, w.owners[u], P[q].cells, q, r, i)
      <4>1. w.owners[u].leaf = q /\ q \notin T
        BY <1>6, <1>13, <2>1, <3>1 DEF Owner
      <4>2. u # o
        BY <1>4, <3>1
      <4> HIDE DEF u
      <4>3. u \in DOMAIN n.owners /\ n.owners[u] = w.owners[u]
        BY <1>11, <3>1, <4>1, <4>2
      <4> QED BY <3>1, <4>3 DEF u
    <3>2. CASE \E f \in w.cells : f # e /\ f.leaf = q /\ f.row = r /\ f.at <= i
      BY <1>6, <3>2
    <3>3. CASE e.leaf = q /\ e.row = r /\ e.at <= i
      <4>1. i \in 1 .. Len(chain) /\ Len(chain) \in Nat /\ e.at \in Nat
        BY <1>3, <2>1, <3>3, ChainsPlain DEF Steps
      <4>2. CASE i = e.at
        <5>1. u = o
          BY <1>3, <3>3, <4>2 DEF o
        <5> QED BY <1>8, <1>11, <3>3, <4>2, <5>1
      <4>3. CASE i # e.at
        <5>1. e.at # Len(chain) /\ e.at + 1 <= i
          BY <3>3, <4>1, <4>3
        <5>2. [e EXCEPT !.at = e.at + 1] \in n.cells
          BY <1>6, <5>1
        <5>3. /\ [e EXCEPT !.at = e.at + 1].leaf = q /\ [e EXCEPT !.at = e.at + 1].row = r
              /\ [e EXCEPT !.at = e.at + 1].at = e.at + 1
          BY <1>3, <3>3 DEF Steps
        <5> QED BY <5>1, <5>2, <5>3
      <4> QED BY <4>2, <4>3
    <3>4. \/ u \in DOMAIN w.owners /\ Owner(u, w.owners[u], P[q].cells, q, r, i)
          \/ \E f \in w.cells : f.leaf = q /\ f.row = r /\ f.at <= i
      BY <1>1, <1>6, <2>1 DEF ChainsOwned
    <3> QED BY <3>1, <3>2, <3>3, <3>4
  <2> QED BY <2>1 DEF ChainsOwned
<1>33. OwnersRight(P, B, n)
  <2>1. ASSUME NEW u \in DOMAIN n.owners
        PROVE  LET p == n.owners[u].leaf
               IN \/ /\ p \in n.visited
                     /\ \E r \in Rows(P[p]) : \E i \in DOMAIN P[p].cells[r] : Owner(u, n.owners[u], P[p].cells, p, r, i)
                  \/ p \in DOMAIN n.nodes \ n.visited /\ u \in DOMAIN B.owners /\ n.owners[u] = B.owners[u]
    <3>1. CASE u = o
      <4>1. n.owners[u] = owner /\ owner.leaf \in n.visited
        BY <1>3, <1>6, <1>8, <1>11, <3>1
      <4>2. e.at \in DOMAIN P[e.leaf].cells[e.row] /\ e.row \in Rows(P[e.leaf])
        BY <1>3
      <4> QED BY <1>8, <3>1, <4>1, <4>2
    <3>2. CASE u # o
      <4>1. u \in DOMAIN w.owners /\ w.owners[u].leaf \notin T /\ n.owners[u] = w.owners[u]
        BY <1>11, <2>1, <3>2
      <4> QED BY <1>1, <1>6, <1>9, <4>1 DEF OwnersRight
    <3> QED BY <3>1, <3>2
  <2> QED BY <2>1 DEF OwnersRight
<1>34. OwnersKept(B, n)
  <2>1. ASSUME NEW u \in DOMAIN B.owners, B.owners[u].leaf \in Unneeded(n)
        PROVE  u \in DOMAIN n.owners /\ n.owners[u] = B.owners[u]
    <3>1. u \in DOMAIN w.owners /\ w.owners[u] = B.owners[u] /\ B.owners[u].leaf \notin T
      BY <1>1, <1>12, <2>1 DEF OwnersKept
    <3> QED BY <1>4, <1>11, <3>1
  <2> QED BY <2>1 DEF OwnersKept
<1>35. RowsRemembered(graph, needed, n)
  <2>1. ASSUME NEW q \in n.visited PROVE RowsAt(n.nodes, {q}) \subseteq n.candidates
    <3>1. RowsAt(w.nodes, {q}) \subseteq w.candidates
      BY <1>1, <1>6, <2>1 DEF RowsRemembered
    <3>2. q \in DOMAIN w.nodes /\ q \in DOMAIN n.nodes /\ n.nodes[q] = w.nodes[q]
      BY <1>6, <1>9, <1>13, <2>1
    <3> QED BY <1>6, <3>1, <3>2 DEF RowsAt
  <2>2. ASSUME ~n.full, NEW q \in DOMAIN graph.nodes, q \in needed \/ q \notin DOMAIN n.nodes \/ q \in n.visited
        PROVE  RowsAt(graph.nodes, {q}) \subseteq n.candidates
    <3>1. CASE q \in T
      <4>1. B = graph /\ w.nodes[q] = graph.nodes[q] /\ q \in DOMAIN w.nodes
        BY <1>1, <1>5, <1>6, <2>2, <3>1 DEF RestOld, Base, B
      <4> QED BY <1>6, <3>1, <4>1 DEF RowsAt
    <3>2. CASE q \notin T
      <4>1. q \in needed \/ q \notin DOMAIN w.nodes \/ q \in w.visited
        BY <1>6, <1>9, <2>2, <3>2
      <4> QED BY <1>1, <1>6, <2>2, <4>1 DEF RowsRemembered
    <3> QED BY <3>1, <3>2
  <2>3. ~n.full => needed \subseteq n.needed
    BY <1>1, <1>6 DEF RowsRemembered
  <2> QED BY <2>1, <2>2, <2>3 DEF RowsRemembered
<1>40. n.changed = IF n.full THEN Pages ELSE touched
  BY <1>1, <1>6
<1>41. WalkOK(P, graph, touched, needed, n, D, {})
  BY <1>1, <1>6, <1>7, <1>21, <1>22, <1>23, <1>24, <1>25, <1>26, <1>27, <1>28, <1>29, <1>30,
     <1>31, <1>32, <1>33, <1>34, <1>35, <1>40 DEF WalkOK
<1> QED BY <1>41 DEF n

(* The owner of an overflow page names the leaf its cell is on. *)
LEMMA OwnersLeaf ==
  ASSUME NEW o, NEW owner, NEW cells, NEW p, NEW r, NEW i, Owner(o, owner, cells, p, r, i)
  PROVE  owner.leaf = p
<1>1. owner = [leaf |-> p, row |-> r, next |-> Follower(cells[r], i)]
  BY DEF Owner
<1> QED BY <1>1

(* A walk begins ************************************************************)
LEMMA BegunStep ==
  ASSUME NEW P, NEW G, NEW written, NEW due, Between(P, G, written, due), NEW needed,
         NEW full \in BOOLEAN, NEW changed \in SUBSET Pages, changed = IF full THEN Pages ELSE written,
         NEW began, began = IF full THEN EmptyGraph ELSE G,
         NEW Q \in SUBSET Pages, ~full => Q = needed,
         \A c \in Q \cap DOMAIN began.edges : began.edges[c] \in Q,
         DOMAIN began.nodes \cap changed \subseteq Q,
         NEW tables \in SUBSET Tables, \A t \in Tables : full \/ RootOf[t] \in Q => t \in tables
  PROVE  \E D \in SUBSET Pages : WalkOK(P, G, written, needed, Begun(full, changed, began, Q, tables), D, {})
<1> DEFINE todo == {Call(RootOf[t], t, 0, 0) : t \in tables}
           r0 == [full |-> full, changed |-> changed, nodes |-> began.nodes, edges |-> began.edges,
                  owners |-> began.owners, needed |-> Q, orphaned |-> {}, visited |-> {}, candidates |-> {},
                  todo |-> todo, cells |-> {}]
           n == Begun(full, changed, began, Q, tables)
           new == {p \in Roots : ~full /\ p \notin Q}
<1>1. Database(P) /\ GraphOK(G) /\ (~full => Roots \subseteq DOMAIN began.nodes) /\ GraphOK(began)
  BY EmptyOK DEF Between
<1>2. began.nodes \in Nodes /\ began.edges \in Edges /\ began.owners \in OwnerEntries
  BY <1>1, GraphFields
<1>3. todo \subseteq Calls
  <2>1. ASSUME NEW t \in tables PROVE Call(RootOf[t], t, 0, 0) \in Calls
    <3>1. RootOf[t] \in Pages
      BY PageOwnersAssumption DEF Pages
    <3> QED BY <3>1 DEF Call, Calls
  <2> QED BY <2>1
<1>4. r0 \in Walks
  BY <1>2, <1>3 DEF Walks
<1>5. /\ r0.full = full /\ r0.changed = changed /\ r0.nodes = began.nodes /\ r0.edges = began.edges
      /\ r0.owners = began.owners /\ r0.needed = Q /\ r0.orphaned = {} /\ r0.visited = {} /\ r0.candidates = {}
      /\ r0.todo = todo /\ r0.cells = {}
  OBVIOUS
<1>6. n = Cleared(r0, Q)
  BY DEF Begun
<1> HIDE DEF r0, n, todo
<1>a. /\ n \in Walks
      /\ n.full = r0.full /\ n.changed = r0.changed /\ n.nodes = r0.nodes /\ n.needed = r0.needed
      /\ n.visited = r0.visited /\ n.todo = r0.todo /\ n.cells = r0.cells
      /\ n.candidates = r0.candidates \cup RowsAt(r0.nodes, Q)
      /\ n.orphaned = r0.orphaned \cup ChildrenOf(r0.edges, Q)
      /\ n.edges = Without(r0.edges, ChildrenOf(r0.edges, Q))
      /\ n.owners = Without(r0.owners, OwnedBy(r0.owners, Q))
  BY <1>4, <1>6, ClearedFields
<1>7. /\ n \in Walks
      /\ n.full = full /\ n.changed = changed /\ n.nodes = began.nodes /\ n.needed = Q
      /\ n.visited = {} /\ n.todo = todo /\ n.cells = {}
      /\ n.candidates = RowsAt(began.nodes, Q)
      /\ n.orphaned = ChildrenOf(began.edges, Q)
      /\ n.edges = Without(began.edges, ChildrenOf(began.edges, Q))
      /\ n.owners = Without(began.owners, OwnedBy(began.owners, Q))
  BY <1>5, <1>a
<1>8. Base(G, n) = began
  BY <1>7 DEF Base
<1>9. /\ \A c : c \in DOMAIN n.edges <=> c \in DOMAIN began.edges /\ began.edges[c] \notin Q
      /\ \A c \in DOMAIN n.edges : n.edges[c] = began.edges[c]
      /\ \A o : o \in DOMAIN n.owners <=> o \in DOMAIN began.owners /\ began.owners[o].leaf \notin Q
      /\ \A o \in DOMAIN n.owners : n.owners[o] = began.owners[o]
  BY <1>7 DEF Without, ChildrenOf, OwnedBy
<1>10. Unneeded(n) = DOMAIN began.nodes \ Q
  BY <1>7 DEF Unneeded
<1>11. \A c \in DOMAIN began.edges :
         /\ began.edges[c] \in DOMAIN began.nodes /\ c \in Children(began.nodes[began.edges[c]].node)
         /\ c \in DOMAIN began.nodes /\ c \notin Roots
  <2>1. TAKE c \in DOMAIN began.edges
  <2>2. began.edges[c] \in DOMAIN began.nodes /\ c \in Children(began.nodes[began.edges[c]].node)
    BY <1>1 DEF GraphOK
  <2>3. began.nodes[began.edges[c]].node \in Contents
    BY <1>1, <2>2, GraphFields DEF TreeContents
  <2> QED BY <1>1, <2>2, <2>3, ContentsPlain DEF GraphOK
<1> HIDE DEF new
<1>21. KnownRight(P, n, {}) /\ RestOld(began, n) /\ TrustedWhole(P, n, {}) /\ KnownHang(P, n, {})
  BY <1>7 DEF KnownRight, RestOld, TrustedWhole, KnownHang
<1>22. EdgesKept(n)
  <2>1. ASSUME NEW x \in Unneeded(n), NEW c \in Children(n.nodes[x].node) PROVE c \in DOMAIN n.edges /\ n.edges[c] = x
    <3>1. x \in DOMAIN began.nodes /\ x \notin Q /\ c \in Children(began.nodes[x].node)
      BY <1>7, <1>10, <2>1
    <3>2. c \in DOMAIN began.edges /\ began.edges[c] = x
      BY <1>1, <3>1 DEF GraphOK
    <3> QED BY <1>9, <3>1, <3>2
  <2> QED BY <2>1 DEF EdgesKept
<1>23. EdgesRight(began, n, {}, new)
  BY <1>7, <1>9, <1>11 DEF EdgesRight
<1>24. OrphansMarked(n)
  <2>1. ASSUME NEW q \in DOMAIN n.nodes \ (n.visited \cup Roots) PROVE q \in DOMAIN n.edges \cup n.orphaned
    <3>1. q \in DOMAIN began.edges
      BY <1>1, <1>7, <2>1 DEF GraphOK
    <3> QED BY <1>7, <1>9, <3>1 DEF ChildrenOf
  <2> QED BY <2>1 DEF OrphansMarked
<1>25. NeededUpward(n)
  BY <1>7, <1>9 DEF NeededUpward
<1>26. CallsRight(P, n)
  <2>1. ASSUME NEW e \in n.todo PROVE e.parent = 0 /\ e.page = RootOf[e.table]
    BY <1>7, <2>1 DEF todo, Call
  <2> QED BY <2>1 DEF CallsRight
<1>27. CallsEnough(P, n, {}, new)
  <2>1. ASSUME NEW p \in Roots PROVE p \in new \cup {e.page : e \in n.todo}
    <3>1. PICK t \in Tables : p = RootOf[t]
      BY <2>1 DEF Roots
    <3>2. CASE t \in tables
      <4>1. Call(RootOf[t], t, 0, 0) \in n.todo /\ Call(RootOf[t], t, 0, 0).page = p
        BY <1>7, <3>1, <3>2 DEF todo, Call
      <4> QED BY <4>1
    <3>3. CASE t \notin tables
      BY <2>1, <3>1, <3>3 DEF new
    <3> QED BY <3>2, <3>3
  <2> QED BY <1>7, <2>1 DEF CallsEnough
<1>28. StepsRight(P, n) /\ ChainsOwned(P, n)
  BY <1>7 DEF StepsRight, ChainsOwned
<1>29. OwnersRight(P, began, n)
  <2>1. ASSUME NEW o \in DOMAIN n.owners
        PROVE  n.owners[o].leaf \in DOMAIN n.nodes \ n.visited /\ o \in DOMAIN began.owners /\ n.owners[o] = began.owners[o]
    <3>1. o \in DOMAIN began.owners /\ n.owners[o] = began.owners[o]
      BY <1>9, <2>1
    <3>2. began.owners[o].leaf \in DOMAIN began.nodes
      <4>1. \E p \in DOMAIN began.nodes : \E r \in Rows(began.nodes[p].node) :
              \E i \in DOMAIN began.nodes[p].node.cells[r] :
                Owner(o, began.owners[o], began.nodes[p].node.cells, p, r, i)
        BY <1>1, <3>1 DEF GraphOK
      <4>2. PICK p \in DOMAIN began.nodes : \E r, i :
              Owner(o, began.owners[o], began.nodes[p].node.cells, p, r, i)
        BY <4>1
      <4>3. began.owners[o].leaf = p
        BY <4>2, OwnersLeaf
      <4> QED BY <4>3
    <3>3. n.nodes = began.nodes /\ n.visited = {}
      BY <1>7
    <3>4. n.owners[o].leaf \in DOMAIN began.nodes
      BY <3>1, <3>2
    <3>5. n.owners[o].leaf \in DOMAIN n.nodes \ n.visited
      BY <3>3, <3>4
    <3> QED BY <3>1, <3>5
  <2> QED BY <2>1 DEF OwnersRight
<1>30. OwnersKept(began, n)
  BY <1>9, <1>10 DEF OwnersKept
<1>31. RowsRemembered(G, needed, n)
  <2>1. ASSUME ~full, NEW p \in DOMAIN G.nodes, p \in needed \/ p \notin DOMAIN n.nodes \/ p \in n.visited
        PROVE  RowsAt(G.nodes, {p}) \subseteq n.candidates
    <3>1. p \in Q /\ began = G
      BY <1>7, <2>1
    <3> QED BY <1>7, <3>1 DEF RowsAt
  <2>2. n.visited = {} /\ n.full = full /\ n.needed = Q
    BY <1>7
  <2>3. ~full => needed \subseteq n.needed
    BY <2>2
  <2>4. ~full => \A p \in DOMAIN G.nodes :
          p \in needed \/ p \notin DOMAIN n.nodes \/ p \in n.visited => RowsAt(G.nodes, {p}) \subseteq n.candidates
    BY <2>1
  <2>5. \A p \in n.visited : RowsAt(n.nodes, {p}) \subseteq n.candidates
    BY <2>2
  <2>6. n.full = full
    BY <2>2
  <2> QED BY <2>3, <2>4, <2>5, <2>6 DEF RowsRemembered
<1>32. WalkOK(P, G, written, needed, n, {}, new)
  BY <1>7, <1>8, <1>21, <1>22, <1>23, <1>24, <1>25, <1>26, <1>27, <1>28, <1>29, <1>30, <1>31 DEF WalkOK
<1>33. \A p \in new : p \in Unneeded(n) /\ p \in TreeOf(P, n.nodes[p].table) /\ p \notin DOMAIN n.edges
  <2>1. TAKE p \in new
  <2>2. p \in Roots /\ p \in DOMAIN began.nodes /\ p \notin Q
    BY <1>1 DEF new
  <2>3. RootOf[began.nodes[p].table] = p /\ began.nodes[p].table \in Tables
    <3>1. began.nodes[p].table \in Tables
      BY <1>1, <2>2, GraphFields
    <3>2. \A q \in DOMAIN began.nodes \cap Roots : RootOf[began.nodes[q].table] = q
      BY <1>1 DEF GraphOK
    <3> QED BY <2>2, <3>1, <3>2
  <2>4. p \in TreeOf(P, began.nodes[p].table)
    BY <1>1, <2>3, TreesPlain DEF Database
  <2> QED BY <1>7, <1>9, <1>10, <1>11, <2>2, <2>4
<1>34. new \subseteq Unneeded(n) /\ new \subseteq Roots
  BY <1>33 DEF new
<1>35. WalkOK(P, G, written, needed, n, {} \cup Below(P, new), {})
  BY <1>32, <1>33, <1>34, TrustStep
<1>36. {} \cup Below(P, new) \in SUBSET Pages
  BY ReachIn DEF Below
<1> QED BY <1>35, <1>36 DEF n

LEMMA NeededPlain ==
  ASSUME GraphOK(graph)
  PROVE  /\ Needed \subseteq Pages
         /\ DOMAIN graph.nodes \cap touched \subseteq Needed
         /\ \A o \in DOMAIN graph.owners \cap touched : graph.owners[o].leaf \in Needed
         /\ \A c \in Needed \cap DOMAIN graph.edges : graph.edges[c] \in Needed
<1> DEFINE reached == touched \cup {p \in DOMAIN graph.nodes \cup DOMAIN graph.owners : p > pageCount}
           S == (reached \cap DOMAIN graph.nodes) \cup {graph.owners[o].leaf : o \in reached \cap DOMAIN graph.owners}
<1>1. /\ graph.edges \in Edges /\ DOMAIN graph.nodes \subseteq Pages
      /\ \A o \in DOMAIN graph.owners : graph.owners[o].leaf \in Pages
  BY GraphFields
<1>2. S \in SUBSET Pages
  BY <1>1
<1>3. Needed = Above(graph.edges, S)
  BY DEF Needed
<1>4. DOMAIN graph.nodes \cap touched \subseteq S /\ \A o \in DOMAIN graph.owners \cap touched : graph.owners[o].leaf \in S
  OBVIOUS
<1> HIDE DEF S
<1> QED BY <1>1, <1>2, <1>3, <1>4, AboveUp

(* A walk ends **************************************************************)
LEMMA CellsPlain ==
  ASSUME NEW P, NEW c
  PROVE  c \in AllCells(P) <=>
           \E t \in Tables : \E p \in TreeOf(P, t) : \E r \in Rows(P[p]) :
             c = [table |-> t, leaf |-> p, row |-> r, chain |-> P[p].cells[r]]
  BY DEF AllCells, Cells

LEMMA CellPages ==
  ASSUME NEW P, Database(P), NEW t \in Tables, NEW p \in TreeOf(P, t), NEW r \in Rows(P[p]), NEW i \in DOMAIN P[p].cells[r]
  PROVE  P[P[p].cells[r][i]] = Overflow(Follower(P[p].cells[r], i))
<1> DEFINE c == [table |-> t, leaf |-> p, row |-> r, chain |-> P[p].cells[r]]
<1>1. c \in AllCells(P)
  BY CellsPlain
<1>2. c.chain = P[p].cells[r]
  OBVIOUS
<1> HIDE DEF c
<1>3. \A j \in DOMAIN c.chain : P[c.chain[j]] = Overflow(Follower(c.chain, j))
  BY <1>1 DEF Database, WellFormed
<1> QED BY <1>2, <1>3

\* What is known is all there is.
LEMMA AllKnown ==
  ASSUME NEW P, NEW G, NEW written, NEW due, Between(P, G, written, due), NEW needed, NEW w, NEW D,
         WalkOK(P, G, written, needed, w, D, {}), w.todo = {}
  PROVE  LET K == w.visited \cup D
         IN /\ K \subseteq Pages /\ Roots \subseteq K
            /\ \A t \in Tables : TreeOf(P, t) \subseteq K
            /\ \A p \in K : /\ p \in DOMAIN w.nodes /\ w.nodes[p].node = P[p] /\ w.nodes[p].table \in Tables
                            /\ p \in TreeOf(P, w.nodes[p].table)
                            /\ Children(P[p]) \subseteq K
                            /\ \A t \in Tables : p \in TreeOf(P, t) => w.nodes[p].table = t
<1> DEFINE K == w.visited \cup D
<1>1. /\ w \in Walks /\ D \in SUBSET Pages /\ KnownRight(P, w, D) /\ TrustedWhole(P, w, D) /\ CallsEnough(P, w, D, {})
      /\ Database(P)
  BY DEF WalkOK, Between
<1>2. K \in SUBSET Pages
  BY <1>1 DEF Walks
<1>3. Roots \subseteq K /\ \A q \in K : Children(P[q]) \subseteq K
  BY <1>1 DEF CallsEnough, TrustedWhole
<1>4. \A p \in K : p \in DOMAIN w.nodes /\ w.nodes[p].node = P[p] /\ p \in TreeOf(P, w.nodes[p].table)
  BY <1>1 DEF KnownRight
<1>5. \A p \in K : w.nodes[p].table \in Tables
  BY <1>1, <1>4, WalkFields
<1> HIDE DEF K
<1>6. \A t \in Tables : TreeOf(P, t) \subseteq K
  BY <1>2, <1>3, TreeLeast DEF Roots
<1>7. \A p \in K : \A t \in Tables : p \in TreeOf(P, t) => w.nodes[p].table = t
  BY <1>1, <1>4, <1>5, ImageTrees
<1> QED BY <1>2, <1>3, <1>4, <1>5, <1>6, <1>7 DEF K

\* What is not known is dropped, and nothing else.
LEMMA RestDropped ==
  ASSUME NEW P, NEW G, NEW written, NEW due, Between(P, G, written, due), NEW needed, NEW w, NEW D,
         WalkOK(P, G, written, needed, w, D, {}), w.todo = {}
  PROVE  Unclaimed(w) \cap DOMAIN w.nodes = DOMAIN w.nodes \ (w.visited \cup D)
<1> DEFINE K == w.visited \cup D
           B == Base(G, w)
           seeds == w.orphaned \ (Roots \cup DOMAIN w.edges)
           next == [p \in Pages |-> ChildrenOf(w.edges, {p} \cap DOMAIN w.nodes) \ Roots]
           N == DOMAIN w.nodes
<1>1. /\ w \in Walks /\ D \in SUBSET Pages /\ KnownHang(P, w, D) /\ RestOld(B, w) /\ TrustedWhole(P, w, D)
      /\ EdgesRight(B, w, D, {}) /\ OrphansMarked(w) /\ KnownRight(P, w, D)
      /\ w.changed = IF w.full THEN Pages ELSE written
  BY DEF WalkOK
<1>2. GraphOK(B)
  BY <1>1, BaseFollows
<1>3. /\ K \subseteq Pages /\ Roots \subseteq K /\ K \subseteq N
      /\ \A p \in K : w.nodes[p].node = P[p]
  BY AllKnown
<1>4. N \subseteq Pages /\ DOMAIN w.edges \subseteq Pages /\ seeds \in SUBSET Pages
  BY <1>1, WalkFields DEF Walks
<1>5. Unclaimed(w) = Reach(seeds, next)
  BY DEF Unclaimed
<1> HIDE DEF B
<1>6. Unclaimed(w) \cap K = {}
  <2> DEFINE U == Pages \ K
  <2>1. seeds \subseteq U
    BY <1>1, <1>3, <1>4 DEF KnownHang
  <2>2. \A q \in U : next[q] \subseteq U
    <3>1. ASSUME NEW q \in U, NEW c \in next[q] PROVE c \in U
      <4>1. c \in DOMAIN w.edges /\ w.edges[c] = q /\ c \notin Roots /\ c \in Pages
        BY <1>4, <3>1 DEF ChildrenOf
      <4> QED BY <1>1, <3>1, <4>1 DEF KnownHang
    <3> QED BY <3>1
  <2>3. U \in SUBSET Pages
    OBVIOUS
  <2> HIDE DEF U, seeds, next
  <2>4. Reach(seeds, next) \subseteq U
    BY <2>1, <2>2, <2>3, ReachLeast
  <2> QED BY <1>5, <2>4 DEF U
<1>7. ASSUME NEW c \in N \ K, c \in DOMAIN w.edges
      PROVE  c \in DOMAIN B.edges /\ w.edges[c] = B.edges[c] /\ w.edges[c] \in N \ K
  <2>1. c \in DOMAIN B.edges /\ w.edges[c] = B.edges[c] /\ w.edges[c] \in N /\ w.edges[c] \notin w.visited
    BY <1>1, <1>7 DEF EdgesRight
  <2>2. ASSUME w.edges[c] \in D PROVE FALSE
    <3>1. B.edges[c] \in DOMAIN B.nodes /\ c \in Children(B.nodes[B.edges[c]].node)
      BY <1>2, <2>1 DEF GraphOK
    <3>2. w.nodes[w.edges[c]] = B.nodes[w.edges[c]] /\ w.nodes[w.edges[c]].node = P[w.edges[c]]
      BY <1>1, <1>3, <2>1, <2>2 DEF RestOld
    <3>3. c \in Children(P[w.edges[c]])
      BY <2>1, <3>1, <3>2
    <3>4. c \in D
      BY <1>1, <2>2, <3>3 DEF TrustedWhole
    <3> QED BY <1>7, <3>4
  <2> QED BY <2>1, <2>2
<1>8. N \ K \subseteq Unclaimed(w)
  <2> DEFINE R == Reach(seeds, next)
             Y == (N \ K) \ R
             U == Pages \ Y
  <2>1. ASSUME NEW c \in Y
        PROVE  c \in DOMAIN B.edges /\ B.edges[c] \in Y
    <3>1. c \in DOMAIN w.edges \cup w.orphaned /\ c \in Pages /\ c \notin Roots
      BY <1>1, <1>3, <1>4, <2>1 DEF OrphansMarked
    <3>2. c \in DOMAIN w.edges
      <4>1. seeds \subseteq R
        BY <1>4, ReachHas
      <4> QED BY <2>1, <3>1, <4>1
    <3>3. c \in DOMAIN B.edges /\ w.edges[c] = B.edges[c] /\ w.edges[c] \in N \ K
      BY <1>7, <2>1, <3>2
    <3>4. ASSUME w.edges[c] \in R PROVE FALSE
      <4>1. c \in next[w.edges[c]]
        BY <1>4, <3>1, <3>2, <3>3 DEF ChildrenOf
      <4>2. c \in R
        BY <3>1, <3>4, <4>1, ReachClosed
      <4> QED BY <2>1, <4>2
    <3> QED BY <3>3, <3>4
  <2>2. Roots \subseteq U /\ U \in SUBSET Pages
    BY <1>3
  <2>3. ASSUME NEW q \in U \cap DOMAIN B.nodes, NEW c \in Children(B.nodes[q].node) PROVE c \in U
    <3>1. c \in DOMAIN B.edges /\ B.edges[c] = q /\ c \in DOMAIN B.nodes
      BY <1>2, <2>3 DEF GraphOK
    <3>2. c \in Pages
      BY <1>2, <3>1, GraphFields
    <3> QED BY <2>1, <2>3, <3>1, <3>2
  <2>4. DOMAIN B.nodes \subseteq U
    <3> HIDE DEF U
    <3>1. \A q \in U \cap DOMAIN B.nodes : Children(B.nodes[q].node) \subseteq U
      BY <2>3
    <3> QED BY <1>2, <2>2, <3>1 DEF GraphOK
  <2>5. N \ K \subseteq DOMAIN B.nodes
    BY <1>1 DEF RestOld
  <2>6. Y = {}
    BY <2>4, <2>5
  <2> QED BY <1>5, <2>6
<1> QED BY <1>6, <1>8

IndexOf(d) == [nodes |-> d.nodes, edges |-> d.edges, owners |-> d.owners]

\* The overflow pages of what is known, and no others, are owned.
LEMMA OwnersAtEnd ==
  ASSUME NEW P, NEW G, NEW written, NEW due, Between(P, G, written, due), NEW needed, NEW w, NEW D,
         WalkOK(P, G, written, needed, w, D, {}), w.todo = {}, w.cells = {}
  PROVE  LET K == w.visited \cup D
         IN /\ \A o \in DOMAIN w.owners : w.owners[o].leaf \in DOMAIN w.nodes
            /\ \A o \in DOMAIN w.owners : w.owners[o].leaf \in K =>
                 \E p \in K : \E r \in Rows(P[p]) : \E i \in DOMAIN P[p].cells[r] :
                   Owner(o, w.owners[o], P[p].cells, p, r, i)
            /\ \A p \in K : \A r \in Rows(P[p]) : \A i \in DOMAIN P[p].cells[r] :
                 P[p].cells[r][i] \in DOMAIN w.owners
                   /\ Owner(P[p].cells[r][i], w.owners[P[p].cells[r][i]], P[p].cells, p, r, i)
<1> DEFINE K == w.visited \cup D
           B == Base(G, w)
<1>1. /\ w \in Walks /\ RestOld(B, w) /\ TrustedWhole(P, w, D)
      /\ ChainsOwned(P, w) /\ OwnersRight(P, B, w) /\ OwnersKept(B, w)
      /\ w.changed = IF w.full THEN Pages ELSE written
  BY DEF WalkOK
<1>2. GraphOK(B)
  BY <1>1, BaseFollows
<1>3. \A p \in K : p \in DOMAIN w.nodes /\ w.nodes[p].node = P[p]
  BY AllKnown
<1> HIDE DEF B
<1>4. ASSUME NEW p \in D
      PROVE  p \in DOMAIN B.nodes /\ B.nodes[p].node = P[p] /\ p \in Unneeded(w) /\ p \notin w.visited
  <2>1. p \in Unneeded(w)
    BY <1>1, <1>4 DEF TrustedWhole
  <2>2. p \in DOMAIN w.nodes \ w.visited
    BY <2>1 DEF Unneeded
  <2>3. p \in DOMAIN B.nodes /\ w.nodes[p] = B.nodes[p]
    BY <1>1, <2>2 DEF RestOld
  <2>4. w.nodes[p].node = P[p]
    BY <1>3, <1>4
  <2> QED BY <2>1, <2>2, <2>3, <2>4
<1>5. ASSUME NEW o \in DOMAIN w.owners
      PROVE  /\ w.owners[o].leaf \in DOMAIN w.nodes
             /\ w.owners[o].leaf \in K =>
                 \E p \in K : \E r \in Rows(P[p]) : \E i \in DOMAIN P[p].cells[r] :
                   Owner(o, w.owners[o], P[p].cells, p, r, i)
  <2>1. CASE w.owners[o].leaf \in w.visited
    <3>1. \E r \in Rows(P[w.owners[o].leaf]) : \E i \in DOMAIN P[w.owners[o].leaf].cells[r] :
            Owner(o, w.owners[o], P[w.owners[o].leaf].cells, w.owners[o].leaf, r, i)
      BY <1>1, <1>5, <2>1 DEF OwnersRight
    <3> QED BY <1>3, <2>1, <3>1
  <2>2. CASE w.owners[o].leaf \notin w.visited
    <3>1. w.owners[o].leaf \in DOMAIN w.nodes /\ o \in DOMAIN B.owners /\ w.owners[o] = B.owners[o]
      BY <1>1, <1>5, <2>2 DEF OwnersRight
    <3>2. PICK p \in DOMAIN B.nodes : \E r \in Rows(B.nodes[p].node) : \E i \in DOMAIN B.nodes[p].node.cells[r] :
            Owner(o, B.owners[o], B.nodes[p].node.cells, p, r, i)
      BY <1>2, <3>1 DEF GraphOK
    <3>3. B.owners[o].leaf = p
      BY <3>2 DEF Owner
    <3>4. ASSUME w.owners[o].leaf \in K PROVE p \in D /\ B.nodes[p].node = P[p]
      BY <1>4, <2>2, <3>1, <3>3, <3>4
    <3> QED BY <3>1, <3>2, <3>4
  <2> QED BY <2>1, <2>2
<1>6. ASSUME NEW p \in K, NEW r \in Rows(P[p]), NEW i \in DOMAIN P[p].cells[r]
      PROVE  P[p].cells[r][i] \in DOMAIN w.owners
                   /\ Owner(P[p].cells[r][i], w.owners[P[p].cells[r][i]], P[p].cells, p, r, i)
  <2>1. CASE p \in w.visited
    BY <1>1, <1>6, <2>1 DEF ChainsOwned
  <2>2. CASE p \in D
    <3> DEFINE o == P[p].cells[r][i]
    <3>1. o \in DOMAIN B.owners /\ Owner(o, B.owners[o], P[p].cells, p, r, i)
      BY <1>2, <1>4, <1>6, <2>2 DEF GraphOK
    <3>2. B.owners[o].leaf = p
      BY <3>1 DEF Owner
    <3> HIDE DEF o
    <3>3. o \in DOMAIN w.owners /\ w.owners[o] = B.owners[o]
      BY <1>1, <1>4, <2>2, <3>1, <3>2 DEF OwnersKept
    <3> QED BY <3>1, <3>3 DEF o
  <2> QED BY <1>6, <2>1, <2>2
<1> QED BY <1>5, <1>6

LEMMA EndStep ==
  ASSUME NEW P, NEW G, NEW written, NEW due, Between(P, G, written, due), NEW needed, NEW w, NEW D,
         WalkOK(P, G, written, needed, w, D, {}), w.todo = {}, w.cells = {}
  PROVE  Between(P, IndexOf(ForgetPages(w, Unclaimed(w))), {}, {})
<1> DEFINE K == w.visited \cup D
           d == ForgetPages(w, Unclaimed(w))
           H == IndexOf(d)
           T == DOMAIN w.nodes \ K
<1>1. /\ w \in Walks /\ D \in SUBSET Pages /\ KnownHang(P, w, D) /\ EdgesRight(Base(G, w), w, D, {})
      /\ TrustedWhole(P, w, D) /\ RestOld(Base(G, w), w)
      /\ w.changed = IF w.full THEN Pages ELSE written
      /\ Database(P) /\ P \in [Pages -> Contents]
  BY DEF WalkOK, Between, Database
<1>2. /\ K \subseteq Pages /\ Roots \subseteq K
      /\ \A t \in Tables : TreeOf(P, t) \subseteq K
      /\ \A p \in K : /\ p \in DOMAIN w.nodes /\ w.nodes[p].node = P[p] /\ w.nodes[p].table \in Tables
                      /\ p \in TreeOf(P, w.nodes[p].table)
                      /\ Children(P[p]) \subseteq K
                      /\ \A t \in Tables : p \in TreeOf(P, t) => w.nodes[p].table = t
  BY AllKnown
<1>3. Unclaimed(w) \cap DOMAIN w.nodes = T
  BY RestDropped
<1>4. /\ d \in Walks /\ d.nodes = Without(w.nodes, T)
      /\ d.edges = Without(w.edges, ChildrenOf(w.edges, T))
      /\ d.owners = Without(w.owners, OwnedBy(w.owners, T))
  <2> DEFINE R == Unclaimed(w) \cap DOMAIN w.nodes
  <2>1. /\ d \in Walks /\ d.nodes = Without(w.nodes, R)
        /\ d.edges = Without(w.edges, ChildrenOf(w.edges, R))
        /\ d.owners = Without(w.owners, OwnedBy(w.owners, R))
    BY <1>1, ForgottenFields
  <2>2. R = T
    BY <1>3
  <2> HIDE DEF R, d, T
  <2> QED BY <2>1, <2>2
<1> HIDE DEF d
<1>5. H.nodes = d.nodes /\ H.edges = d.edges /\ H.owners = d.owners /\ H \in Graphs
  BY <1>4 DEF IndexOf, Graphs, Walks
<1> HIDE DEF H
<1>6. /\ DOMAIN H.nodes = K
      /\ \A p \in K : H.nodes[p] = w.nodes[p]
  BY <1>2, <1>4, <1>5 DEF Without
<1>7. /\ \A c : c \in DOMAIN H.edges <=> c \in DOMAIN w.edges /\ w.edges[c] \notin T
      /\ \A c \in DOMAIN H.edges : H.edges[c] = w.edges[c]
  BY <1>4, <1>5 DEF Without, ChildrenOf
<1>8. /\ \A o : o \in DOMAIN H.owners <=> o \in DOMAIN w.owners /\ w.owners[o].leaf \notin T
      /\ \A o \in DOMAIN H.owners : H.owners[o] = w.owners[o]
  BY <1>4, <1>5 DEF Without, OwnedBy
<1>9. \A c \in K \ Roots : c \in DOMAIN w.edges /\ w.edges[c] \in K /\ c \in Children(P[w.edges[c]])
  BY <1>1 DEF KnownHang
<1>10. ASSUME NEW p \in K, NEW c \in Children(P[p])
       PROVE  /\ c \in DOMAIN H.edges /\ H.edges[c] = p
              /\ c \in K /\ H.nodes[c].table = H.nodes[p].table
  <2>1. c \in K /\ c \notin Roots
    BY <1>1, <1>2, <1>10, ContentsPlain
  <2>2. w.edges[c] = p /\ c \in DOMAIN w.edges
    BY <1>1, <1>2, <1>9, <1>10, <2>1, OneParent
  <2>3. c \in TreeOf(P, w.nodes[p].table)
    BY <1>1, <1>2, <1>10, TreesPlain
  <2> QED BY <1>2, <1>6, <1>7, <1>10, <2>1, <2>2, <2>3
<1>11. ASSUME NEW c \in DOMAIN H.edges PROVE H.edges[c] \in K /\ c \in Children(P[H.edges[c]])
  <2>1. c \in DOMAIN w.edges /\ w.edges[c] \notin T /\ H.edges[c] = w.edges[c]
    BY <1>7, <1>11
  <2>2. c \notin Roots /\ w.edges[c] \in K
    BY <1>1, <2>1 DEF EdgesRight
  <2>3. c \in K
    <3> DEFINE B == Base(G, w)
    <3>1. CASE w.edges[c] \in w.visited
      BY <1>1, <2>1, <3>1 DEF EdgesRight
    <3>2. CASE w.edges[c] \in D /\ c \notin K
      <4>1. c \in DOMAIN B.edges /\ w.edges[c] = B.edges[c]
        BY <1>1, <2>1, <3>2 DEF EdgesRight
      <4>2. w.edges[c] \in DOMAIN w.nodes \ w.visited
        BY <1>1, <3>2 DEF TrustedWhole, Unneeded
      <4>3. w.nodes[w.edges[c]] = B.nodes[w.edges[c]]
        BY <1>1, <4>2 DEF RestOld
      <4>4. GraphOK(B)
        BY <1>1, BaseFollows
      <4> HIDE DEF B
      <4>5. c \in Children(B.nodes[B.edges[c]].node)
        BY <4>1, <4>4 DEF GraphOK
      <4>6. c \in Children(P[w.edges[c]])
        BY <1>2, <2>2, <4>1, <4>3, <4>5
      <4> QED BY <1>2, <2>2, <4>6
    <3> QED BY <2>2, <3>1, <3>2
  <2> QED BY <1>9, <2>1, <2>2, <2>3
<1>12. DOMAIN H.nodes \ Roots \subseteq DOMAIN H.edges
  BY <1>6, <1>7, <1>9
<1>13. ASSUME NEW U \in SUBSET Pages, Roots \subseteq U,
              \A q \in U \cap DOMAIN H.nodes : Children(H.nodes[q].node) \subseteq U
       PROVE  DOMAIN H.nodes \subseteq U
  <2> DEFINE X == U \cap K
  <2>1. X \in SUBSET Pages /\ Roots \subseteq X
    BY <1>2, <1>13
  <2>2. \A q \in X : Children(P[q]) \subseteq X
    BY <1>2, <1>6, <1>13
  <2> HIDE DEF X
  <2>3. \A t \in Tables : TreeOf(P, t) \subseteq X
    BY <2>1, <2>2, TreeLeast DEF Roots
  <2>4. K \subseteq X
    BY <1>2, <2>3
  <2> QED BY <1>6, <2>4 DEF X
<1>14. /\ \A o \in DOMAIN w.owners : w.owners[o].leaf \in DOMAIN w.nodes
       /\ \A o \in DOMAIN w.owners : w.owners[o].leaf \in K =>
            \E p \in K : \E r \in Rows(P[p]) : \E i \in DOMAIN P[p].cells[r] :
              Owner(o, w.owners[o], P[p].cells, p, r, i)
       /\ \A p \in K : \A r \in Rows(P[p]) : \A i \in DOMAIN P[p].cells[r] :
            P[p].cells[r][i] \in DOMAIN w.owners
              /\ Owner(P[p].cells[r][i], w.owners[P[p].cells[r][i]], P[p].cells, p, r, i)
  BY OwnersAtEnd
<1>15. ASSUME NEW o \in DOMAIN H.owners
       PROVE  \E p \in K : \E r \in Rows(P[p]) : \E i \in DOMAIN P[p].cells[r] :
                Owner(o, H.owners[o], P[p].cells, p, r, i)
  <2>1. o \in DOMAIN w.owners /\ w.owners[o].leaf \notin T /\ H.owners[o] = w.owners[o]
    BY <1>8, <1>15
  <2>2. w.owners[o].leaf \in K
    BY <1>14, <2>1
  <2> QED BY <1>14, <2>1, <2>2
<1>16. ASSUME NEW p \in K, NEW r \in Rows(P[p]), NEW i \in DOMAIN P[p].cells[r]
       PROVE  P[p].cells[r][i] \in DOMAIN H.owners
                /\ Owner(P[p].cells[r][i], H.owners[P[p].cells[r][i]], P[p].cells, p, r, i)
  <2> DEFINE o == P[p].cells[r][i]
  <2>1. o \in DOMAIN w.owners /\ Owner(o, w.owners[o], P[p].cells, p, r, i)
    BY <1>14, <1>16
  <2>2. w.owners[o].leaf = p
    BY <2>1 DEF Owner
  <2> HIDE DEF o
  <2>3. o \in DOMAIN H.owners /\ H.owners[o] = w.owners[o]
    BY <1>8, <1>16, <2>1, <2>2
  <2> QED BY <2>1, <2>3 DEF o
<1>17. ASSUME NEW o \in DOMAIN H.owners PROVE P[o] = Overflow(H.owners[o].next) /\ o \notin K /\ o \in Pages
  <2>1. PICK p \in K : \E r \in Rows(P[p]) : \E i \in DOMAIN P[p].cells[r] :
                Owner(o, H.owners[o], P[p].cells, p, r, i)
    BY <1>15, <1>17
  <2>2. PICK r \in Rows(P[p]) : \E i \in DOMAIN P[p].cells[r] : Owner(o, H.owners[o], P[p].cells, p, r, i)
    BY <2>1
  <2>3. PICK i \in DOMAIN P[p].cells[r] : Owner(o, H.owners[o], P[p].cells, p, r, i)
    BY <2>2
  <2>4. P[o] = Overflow(Follower(P[p].cells[r], i)) /\ H.owners[o].next = Follower(P[p].cells[r], i)
    BY <1>1, <1>2, <2>3, CellPages DEF Owner
  <2>5. P[o].kind = "overflow"
    BY <2>4 DEF Overflow
  <2>6. o \notin K
    BY <1>1, <1>2, <2>5, ImageTrees DEF TreeContents
  <2>7. o \in Pages
    BY <1>4, <1>5, <1>17, WalkFields
  <2> QED BY <2>4, <2>6, <2>7
<1>18. ASSUME NEW p \in DOMAIN H.nodes \cap Roots PROVE RootOf[H.nodes[p].table] = p
  BY <1>1, <1>2, <1>6, <1>18, ImageTrees
<1>19. GraphOK(H)
  <2>1. ASSUME NEW p \in DOMAIN H.nodes, NEW c \in Children(H.nodes[p].node)
        PROVE  /\ c \in DOMAIN H.edges /\ H.edges[c] = p
               /\ c \in DOMAIN H.nodes /\ H.nodes[c].table = H.nodes[p].table
    BY <1>2, <1>6, <1>10, <2>1
  <2>2. \A c \in DOMAIN H.edges : H.edges[c] \in DOMAIN H.nodes /\ c \in Children(H.nodes[H.edges[c]].node)
    BY <1>2, <1>6, <1>11
  <2>3. DOMAIN H.owners \cap DOMAIN H.nodes = {}
    BY <1>6, <1>17
  <2>4. ASSUME NEW o \in DOMAIN H.owners
        PROVE  \E p \in DOMAIN H.nodes : \E r \in Rows(H.nodes[p].node) : \E i \in DOMAIN H.nodes[p].node.cells[r] :
                 Owner(o, H.owners[o], H.nodes[p].node.cells, p, r, i)
    <3>1. \A p \in K : p \in DOMAIN H.nodes /\ H.nodes[p].node = P[p]
      BY <1>2, <1>6
    <3> QED BY <1>15, <3>1
  <2>5. ASSUME NEW p \in DOMAIN H.nodes, NEW r \in Rows(H.nodes[p].node), NEW i \in DOMAIN H.nodes[p].node.cells[r]
        PROVE  LET o == H.nodes[p].node.cells[r][i]
               IN o \in DOMAIN H.owners /\ Owner(o, H.owners[o], H.nodes[p].node.cells, p, r, i)
    <3>1. p \in K /\ H.nodes[p].node = P[p]
      BY <1>2, <1>6
    <3> QED BY <1>16, <3>1
  <2> QED BY <1>5, <1>12, <1>13, <1>18, <2>1, <2>2, <2>3, <2>4, <2>5 DEF GraphOK
<1>20. ASSUME NEW p \in Pages PROVE P[p] = Content(H, p)
  <2>1. CASE p \in K
    BY <1>2, <1>6, <2>1 DEF Content
  <2>2. CASE p \in DOMAIN H.owners
    BY <1>6, <1>17, <2>2 DEF Content
  <2>3. CASE p \notin K /\ p \notin DOMAIN H.owners
    <3>1. P[p].kind \notin {"leaf", "interior"}
      BY <1>1, <1>2, <1>20, <2>3 DEF Database, WellFormed
    <3>2. ASSUME P[p].kind = "overflow" PROVE FALSE
      <4>1. PICK c \in AllCells(P) : p \in PagesOf(c.chain)
        BY <1>1, <1>20, <3>2 DEF Database, WellFormed
      <4>2. PICK t \in Tables : \E q \in TreeOf(P, t) : \E r \in Rows(P[q]) :
              c = [table |-> t, leaf |-> q, row |-> r, chain |-> P[q].cells[r]]
        BY CellsPlain
      <4>a. PICK q \in TreeOf(P, t) : \E r \in Rows(P[q]) :
              c = [table |-> t, leaf |-> q, row |-> r, chain |-> P[q].cells[r]]
        BY <4>2
      <4>3. PICK r \in Rows(P[q]) : c = [table |-> t, leaf |-> q, row |-> r, chain |-> P[q].cells[r]]
        BY <4>a
      <4>4. PICK i \in DOMAIN P[q].cells[r] : p = P[q].cells[r][i]
        BY <4>1, <4>3 DEF PagesOf
      <4> QED BY <1>2, <1>16, <2>3, <4>4
    <3>3. P[p] = Free
      BY <1>1, <1>20, <3>1, <3>2, ContentsPlain
    <3> QED BY <1>6, <2>3, <3>3 DEF Content
  <2> QED BY <2>1, <2>2, <2>3
<1>21. Between(P, H, {}, {})
  BY <1>1, <1>2, <1>6, <1>19, <1>20 DEF Between
<1> QED BY <1>21 DEF H, d

\* Every row that may have changed is a candidate.
LEMMA EndRows ==
  ASSUME NEW P, NEW G, NEW written, NEW due, Between(P, G, written, due), NEW needed, NEW w, NEW D,
         WalkOK(P, G, written, needed, w, D, {}), w.todo = {}, w.cells = {}, ~w.full,
         DOMAIN G.nodes \cap written \subseteq needed,
         \A o \in DOMAIN G.owners \cap written : G.owners[o].leaf \in needed
  PROVE  due \subseteq ForgetPages(w, Unclaimed(w)).candidates
<1> DEFINE K == w.visited \cup D
           d == ForgetPages(w, Unclaimed(w))
           T == DOMAIN w.nodes \ K
<1>1. /\ w \in Walks /\ D \in SUBSET Pages /\ TrustedWhole(P, w, D) /\ RestOld(G, w) /\ RowsRemembered(G, needed, w)
      /\ Database(P) /\ GraphOK(G)
  BY DEF WalkOK, Between, Base
<1>2. /\ \A t \in Tables : TreeOf(P, t) \subseteq K
      /\ \A p \in K : /\ p \in DOMAIN w.nodes /\ w.nodes[p].node = P[p] /\ w.nodes[p].table \in Tables
                      /\ p \in TreeOf(P, w.nodes[p].table)
                      /\ \A t \in Tables : p \in TreeOf(P, t) => w.nodes[p].table = t
  BY AllKnown
<1>3. w.candidates \subseteq d.candidates /\ RowsAt(w.nodes, T) \subseteq d.candidates
  <2> DEFINE R == Unclaimed(w) \cap DOMAIN w.nodes
  <2>1. d.candidates = w.candidates \cup RowsAt(w.nodes, R)
    BY <1>1, ForgottenFields
  <2>2. R = T
    BY RestDropped
  <2> HIDE DEF R, d, T
  <2> QED BY <2>1, <2>2
<1> HIDE DEF d
<1>4. ASSUME NEW p \in D
      PROVE  /\ p \in DOMAIN G.nodes /\ w.nodes[p] = G.nodes[p] /\ p \notin needed /\ G.nodes[p].node = P[p]
  <2>1. p \in DOMAIN w.nodes \ w.visited /\ p \notin w.needed
    BY <1>1, <1>4 DEF TrustedWhole, Unneeded
  <2>2. p \in DOMAIN G.nodes /\ w.nodes[p] = G.nodes[p]
    BY <1>1, <2>1 DEF RestOld
  <2>3. w.nodes[p].node = P[p]
    BY <1>2, <1>4
  <2> QED BY <1>1, <2>1, <2>2, <2>3 DEF RowsRemembered
<1>5. ASSUME NEW c \in GraphCells(G),
             \/ c \notin AllCells(P) \/ ({c.leaf} \cup PagesOf(c.chain)) \cap written # {}
      PROVE  <<c.table, c.row>> \in d.candidates
  <2>1. PICK p \in DOMAIN G.nodes : \E r \in Rows(G.nodes[p].node) :
          c = [table |-> G.nodes[p].table, leaf |-> p, row |-> r, chain |-> G.nodes[p].node.cells[r]]
    BY <1>5 DEF GraphCells
  <2>2. PICK r \in Rows(G.nodes[p].node) :
          c = [table |-> G.nodes[p].table, leaf |-> p, row |-> r, chain |-> G.nodes[p].node.cells[r]]
    BY <2>1
  <2>3. <<c.table, c.row>> \in RowsAt(G.nodes, {p})
    BY <2>2 DEF RowsAt
  <2>4. CASE p \in needed \/ p \notin DOMAIN w.nodes \/ p \in w.visited
    BY <1>1, <1>3, <2>3, <2>4 DEF RowsRemembered
  <2>5. CASE p \in T
    <3>1. w.nodes[p] = G.nodes[p] /\ p \in DOMAIN w.nodes
      BY <1>1, <2>5 DEF RestOld
    <3>2. <<c.table, c.row>> \in RowsAt(w.nodes, T)
      BY <2>2, <2>5, <3>1 DEF RowsAt
    <3> QED BY <1>3, <3>2
  <2>6. CASE p \in D /\ p \notin needed
    <3>1. p \in K /\ G.nodes[p].node = P[p] /\ G.nodes[p].table \in Tables /\ p \in TreeOf(P, G.nodes[p].table)
      BY <1>2, <1>4, <2>6
    <3>2. c \in AllCells(P)
      BY <2>2, <3>1, CellsPlain
    <3>3. PICK o \in {p} \cup PagesOf(G.nodes[p].node.cells[r]) : o \in written
      BY <1>5, <2>2, <3>2
    <3>4. CASE o = p
      BY <2>6, <3>3, <3>4
    <3>5. CASE o \in PagesOf(G.nodes[p].node.cells[r])
      <4>1. o \in DOMAIN G.owners /\ G.owners[o].leaf = p
        <5>1. PICK i \in DOMAIN G.nodes[p].node.cells[r] : o = G.nodes[p].node.cells[r][i]
          BY <3>5 DEF PagesOf
        <5>2. o \in DOMAIN G.owners /\ Owner(o, G.owners[o], G.nodes[p].node.cells, p, r, i)
          BY <1>1, <2>1, <2>2, <5>1 DEF GraphOK
        <5> QED BY <5>2 DEF Owner
      <4> QED BY <2>6, <3>3, <4>1
    <3> QED BY <3>3, <3>4, <3>5
  <2> QED BY <2>4, <2>5, <2>6
<1>6. ASSUME NEW c \in AllCells(P), c \notin GraphCells(G) PROVE <<c.table, c.row>> \in d.candidates
  <2>1. PICK t \in Tables : \E p \in TreeOf(P, t) : \E r \in Rows(P[p]) :
          c = [table |-> t, leaf |-> p, row |-> r, chain |-> P[p].cells[r]]
    BY <1>6, CellsPlain
  <2>2. PICK p \in TreeOf(P, t) : \E r \in Rows(P[p]) :
          c = [table |-> t, leaf |-> p, row |-> r, chain |-> P[p].cells[r]]
    BY <2>1
  <2>3. PICK r \in Rows(P[p]) : c = [table |-> t, leaf |-> p, row |-> r, chain |-> P[p].cells[r]]
    BY <2>2
  <2>4. p \in K /\ p \in DOMAIN w.nodes /\ w.nodes[p].node = P[p] /\ w.nodes[p].table = t
    BY <1>2, <2>2
  <2>5. CASE p \in w.visited
    <3>1. <<c.table, c.row>> \in RowsAt(w.nodes, {p})
      BY <2>3, <2>4 DEF RowsAt
    <3> QED BY <1>1, <1>3, <2>5, <3>1 DEF RowsRemembered
  <2>6. CASE p \in D
    <3>1. p \in DOMAIN G.nodes /\ G.nodes[p].node = P[p] /\ G.nodes[p].table = t
      BY <1>4, <2>4, <2>6
    <3>2. c \in GraphCells(G)
      BY <2>3, <3>1 DEF GraphCells
    <3> QED BY <1>6, <3>2
  <2> QED BY <2>4, <2>5, <2>6
<1>7. ASSUME NEW m \in due PROVE m \in d.candidates
  <2>1. PICK c \in GraphCells(G) \cup AllCells(P) :
          /\ m = <<c.table, c.row>>
          /\ \/ c \notin GraphCells(G) \/ c \notin AllCells(P)
             \/ ({c.leaf} \cup PagesOf(c.chain)) \cap written # {}
    BY <1>7 DEF Between
  <2>2. CASE c \in GraphCells(G) /\ c \in AllCells(P)
    BY <1>5, <2>1, <2>2
  <2>3. CASE c \in GraphCells(G) /\ c \notin AllCells(P)
    BY <1>5, <2>1, <2>3
  <2>4. CASE c \notin GraphCells(G)
    BY <1>6, <2>1, <2>4
  <2> QED BY <2>2, <2>3, <2>4
<1> QED BY <1>7 DEF d

(* The graph and the source *************************************************)
LEMMA SourceOfGraph ==
  ASSUME NEW P, NEW G, NEW due, Between(P, G, {}, due)
  PROVE  /\ \A t \in Tables : \A p \in TreeOf(P, t) :
              p \in DOMAIN G.nodes /\ G.nodes[p] = [table |-> t, node |-> P[p]]
         /\ \A p \in DOMAIN G.nodes : p \in TreeOf(P, G.nodes[p].table) /\ G.nodes[p].table \in Tables
         /\ GraphCells(G) = AllCells(P)
<1>1. Database(P) /\ P \in [Pages -> Contents] /\ GraphOK(G) /\ Roots \subseteq DOMAIN G.nodes
      /\ \A p \in Pages : P[p] = Content(G, p)
  BY DEF Between, Database
<1>2. /\ DOMAIN G.nodes \subseteq Pages
      /\ \A p \in DOMAIN G.nodes : G.nodes[p] \in [table : Tables, node : TreeContents] /\ P[p] = G.nodes[p].node
  <2>1. /\ DOMAIN G.nodes \subseteq Pages
        /\ \A p \in DOMAIN G.nodes : G.nodes[p] \in [table : Tables, node : TreeContents]
    BY <1>1, GraphFields
  <2> QED BY <1>1, <2>1 DEF Content
<1>3. \A p \in DOMAIN G.nodes : p \in TreeOf(P, G.nodes[p].table)
  <2> DEFINE U == {q \in Pages : q \in DOMAIN G.nodes => q \in TreeOf(P, G.nodes[q].table)}
  <2>1. ASSUME NEW q \in Roots PROVE q \in U
    <3>1. q \in Pages /\ q \in DOMAIN G.nodes
      BY <1>1, <1>2, <2>1
    <3>2. RootOf[G.nodes[q].table] = q /\ G.nodes[q].table \in Tables
      BY <1>1, <1>2, <2>1, <3>1 DEF GraphOK
    <3> QED BY <1>1, <3>1, <3>2, TreesPlain
  <2>2. ASSUME NEW q \in U \cap DOMAIN G.nodes, NEW c \in Children(G.nodes[q].node) PROVE c \in U
    <3>1. c \in DOMAIN G.nodes /\ G.nodes[c].table = G.nodes[q].table
      BY <1>1, <2>2 DEF GraphOK
    <3>2. c \in TreeOf(P, G.nodes[q].table)
      BY <1>1, <1>2, <2>2, TreesPlain
    <3> QED BY <1>2, <3>1, <3>2
  <2>3. U \in SUBSET Pages /\ Roots \subseteq U /\ \A q \in U \cap DOMAIN G.nodes : Children(G.nodes[q].node) \subseteq U
    BY <2>1, <2>2
  <2>4. DOMAIN G.nodes \subseteq U
    <3> HIDE DEF U
    <3> QED BY <1>1, <2>3 DEF GraphOK
  <2> QED BY <2>4
<1>4. ASSUME NEW t \in Tables, NEW p \in TreeOf(P, t)
      PROVE  p \in DOMAIN G.nodes /\ G.nodes[p] = [table |-> t, node |-> P[p]]
  <2>1. p \in Pages /\ P[p] \in TreeContents /\ P[p].kind \in {"leaf", "interior"}
    BY <1>1, ImageTrees DEF TreeContents
  <2>2. p \in DOMAIN G.nodes
    BY <1>1, <2>1 DEF Content, Overflow, Free
  <2>3. G.nodes[p].table = t
    BY <1>1, <1>2, <1>3, <2>2, ImageTrees
  <2> QED BY <1>2, <2>2, <2>3
<1>5. ASSUME NEW c \in GraphCells(G) PROVE c \in AllCells(P)
  <2>1. PICK p \in DOMAIN G.nodes : \E r \in Rows(G.nodes[p].node) :
          c = [table |-> G.nodes[p].table, leaf |-> p, row |-> r, chain |-> G.nodes[p].node.cells[r]]
    BY <1>5 DEF GraphCells
  <2>2. G.nodes[p].table \in Tables /\ p \in TreeOf(P, G.nodes[p].table) /\ G.nodes[p].node = P[p]
    BY <1>2, <1>3
  <2> QED BY <2>1, <2>2, CellsPlain
<1>6. ASSUME NEW c \in AllCells(P) PROVE c \in GraphCells(G)
  <2>1. PICK t \in Tables : \E p \in TreeOf(P, t) : \E r \in Rows(P[p]) :
          c = [table |-> t, leaf |-> p, row |-> r, chain |-> P[p].cells[r]]
    BY <1>6, CellsPlain
  <2>2. PICK p \in TreeOf(P, t) : \E r \in Rows(P[p]) :
          c = [table |-> t, leaf |-> p, row |-> r, chain |-> P[p].cells[r]]
    BY <2>1
  <2>3. p \in DOMAIN G.nodes /\ G.nodes[p] = [table |-> t, node |-> P[p]]
    BY <1>4, <2>2
  <2>4. G.nodes[p].table = t /\ G.nodes[p].node = P[p]
    BY <2>3
  <2> QED BY <2>2, <2>3, <2>4 DEF GraphCells
<1> QED BY <1>2, <1>3, <1>4, <1>5, <1>6

\* A commit moves the source away from the graph.
LEMMA CommitStep ==
  ASSUME NEW P, NEW G, Between(P, G, {}, {}), NEW Q, Database(Q), NEW written \in SUBSET Pages,
         written # {}, \A p \in Pages : Q[p] # Free /\ Q[p] # P[p] => p \in written,
         NEW due, due = {<<c.table, c.row>> : c \in Unsettled(P, Q, written)}
  PROVE  Between(Q, G, written, due)
<1>1. GraphOK(G) /\ Roots \subseteq DOMAIN G.nodes /\ \A p \in Pages : P[p] = Content(G, p)
  BY DEF Between
<1>2. GraphCells(G) = AllCells(P)
  BY SourceOfGraph
<1>3. \A p \in Pages \ written : Q[p] \in {Free, Content(G, p)}
  BY <1>1
<1>4. ASSUME NEW m \in due
      PROVE  \E c \in GraphCells(G) \cup AllCells(Q) :
               /\ m = <<c.table, c.row>>
               /\ \/ c \notin GraphCells(G) \/ c \notin AllCells(Q)
                  \/ ({c.leaf} \cup PagesOf(c.chain)) \cap written # {}
  BY <1>2, <1>4 DEF Unsettled
<1> QED BY <1>1, <1>3, <1>4 DEF Between

LEMMA InitialGraph == OwnersInit => Between(pages, graph, {}, {})
<1> SUFFICES ASSUME OwnersInit PROVE Between(pages, graph, {}, {})
  OBVIOUS
<1>1. /\ DOMAIN <<>> = {} /\ \A S, T : <<>> \in Functions(S, T) /\ <<>> \in [{} -> T]
  <2>1. <<>> = [x \in {} |-> x]
    OBVIOUS
  <2> QED BY <2>1 DEF Functions
<1>2. Leaf(<<>>) \in Contents /\ Leaf(<<>>) \in TreeContents /\ Free \in Contents
  <2>1. <<>> \in UNION {[S -> Chains] : S \in SUBSET RowIds}
    BY <1>1
  <2> QED BY <2>1 DEF Contents, TreeContents, Leaf
<1>3. /\ pages \in [Pages -> Contents]
      /\ \A p \in Pages : pages[p] = IF p \in Roots THEN Leaf(<<>>) ELSE Free
  BY <1>2 DEF OwnersInit
<1>4. /\ \A p \in Pages : Children(pages[p]) = {} /\ Rows(pages[p]) = {}
      /\ \A p \in Pages : pages[p].kind = IF p \in Roots THEN "leaf" ELSE "free"
  BY <1>1, <1>3 DEF Children, Rows, Leaf, Free
<1>5. Roots \subseteq Pages /\ \A t \in Tables : RootOf[t] \in Pages /\ RootOf[t] \in Roots
  BY PageOwnersAssumption DEF Roots, Pages
<1>6. ASSUME NEW t \in Tables PROVE TreeOf(pages, t) = {RootOf[t]}
  <2>1. /\ {RootOf[t]} \in SUBSET Pages /\ RootOf[t] \in {RootOf[t]}
        /\ \A q \in {RootOf[t]} : Children(pages[q]) \subseteq {RootOf[t]}
    BY <1>4, <1>5
  <2>2. TreeOf(pages, t) \subseteq {RootOf[t]}
    <3> DEFINE U == {RootOf[t]}
    <3>1. U \in SUBSET Pages /\ RootOf[t] \in U /\ \A q \in U : Children(pages[q]) \subseteq U
      BY <2>1
    <3> HIDE DEF U
    <3>2. TreeOf(pages, t) \subseteq U
      BY <3>1, TreeLeast
    <3> QED BY <3>2 DEF U
  <2> QED BY <1>3, <2>2, TreesPlain
<1>7. AllCells(pages) = {}
  <2>1. ASSUME NEW c \in AllCells(pages) PROVE FALSE
    <3>1. PICK t \in Tables : \E p \in TreeOf(pages, t) : \E r \in Rows(pages[p]) :
            c = [table |-> t, leaf |-> p, row |-> r, chain |-> pages[p].cells[r]]
      BY <2>1, CellsPlain
    <3>2. PICK p \in TreeOf(pages, t) : Rows(pages[p]) # {}
      BY <3>1
    <3>3. p \in Pages
      BY <1>5, <1>6
    <3> QED BY <1>4, <3>2, <3>3
  <2> QED BY <2>1
<1>8. WellFormed(pages)
  <2>1. \A p \in Pages : pages[p].kind \in {"leaf", "interior"} <=> \E t \in Tables : p \in TreeOf(pages, t)
    BY <1>4, <1>6 DEF Roots
  <2>2. \A s, t \in Tables : s # t => TreeOf(pages, s) \cap TreeOf(pages, t) = {}
    BY <1>6, PageOwnersAssumption
  <2>3. \A o \in Pages : pages[o].kind # "overflow"
    BY <1>4
  <2> QED BY <1>4, <1>7, <2>1, <2>2, <2>3 DEF WellFormed
<1>9. /\ graph.nodes = [p \in Roots |-> [table |-> CHOOSE t \in Tables : RootOf[t] = p, node |-> Leaf(<<>>)]]
      /\ graph.edges = <<>> /\ graph.owners = <<>>
      /\ graph = [nodes |-> graph.nodes, edges |-> graph.edges, owners |-> graph.owners]
  BY DEF OwnersInit
<1>10. /\ DOMAIN graph.nodes = Roots
       /\ \A p \in Roots : /\ graph.nodes[p] \in [table : Tables, node : TreeContents]
                           /\ RootOf[graph.nodes[p].table] = p /\ graph.nodes[p].node = Leaf(<<>>)
  <2>1. ASSUME NEW p \in Roots
        PROVE  (CHOOSE t \in Tables : RootOf[t] = p) \in Tables /\ RootOf[CHOOSE t \in Tables : RootOf[t] = p] = p
    <3>1. \E t \in Tables : RootOf[t] = p
      BY <2>1 DEF Roots
    <3> QED BY <3>1
  <2> QED BY <1>2, <1>9, <2>1
<1>11. graph.nodes \in Nodes
  <2>1. graph.nodes \in [Roots -> [table : Tables, node : TreeContents]]
    BY <1>9, <1>10
  <2> QED BY <1>5, <2>1, FunctionsIntro DEF Nodes
<1>12. graph.edges \in Edges /\ graph.owners \in OwnerEntries
  BY <1>1, <1>9 DEF Edges, OwnerEntries
<1>13. GraphOK(graph)
  <2>1. graph \in Graphs
    BY <1>9, <1>11, <1>12 DEF Graphs
  <2>2. \A p \in Roots : Children(graph.nodes[p].node) = {} /\ Rows(graph.nodes[p].node) = {}
    BY <1>1, <1>10 DEF Children, Rows, Leaf
  <2>3. DOMAIN graph.edges = {} /\ DOMAIN graph.owners = {}
    BY <1>1, <1>9
  <2> QED BY <1>10, <2>1, <2>2, <2>3 DEF GraphOK
<1>14. \A p \in Pages : pages[p] = Content(graph, p)
  <2>1. DOMAIN graph.owners = {}
    BY <1>1, <1>9
  <2> QED BY <1>3, <1>10, <2>1 DEF Content
<1> QED BY <1>3, <1>8, <1>10, <1>13, <1>14 DEF Between, Database

(* The walk keeps its invariant *********************************************)
LEMMA FewerRows ==
  ASSUME NEW P, NEW G, NEW written, NEW due, Between(P, G, written, due)
  PROVE  Between(P, G, written, {})
  BY DEF Between

\* What is read of a tree page is what it holds.
LEMMA TreePageRight ==
  ASSUME NEW due, Between(pages, graph, touched, due), walk \in Walks,
         walk.changed = IF walk.full THEN Pages ELSE touched,
         NEW p \in Pages, NEW t \in Tables, p \in TreeOf(pages, t), TreePage(p).kind \in {"leaf", "interior"}
  PROVE  TreePage(p) = pages[p]
<1>1. TreePage(p) # NoEntry
  BY DEF NoEntry
<1>2. CASE p \in walk.changed
  BY <1>1, <1>2 DEF TreePage
<1>3. CASE p \notin walk.changed
  <2>1. ~walk.full
    BY <1>3
  <2>2. p \in DOMAIN graph.nodes /\ TreePage(p) = graph.nodes[p].node
    BY <1>1, <1>3 DEF TreePage
  <2>3. Base(graph, walk) = graph
    BY <2>1 DEF Base
  <2>4. \A q \in TreeOf(pages, t) : q \in DOMAIN Base(graph, walk).nodes /\ q \notin walk.changed
                                      => pages[q] = Base(graph, walk).nodes[q].node
    BY BaseFollows
  <2> QED BY <1>3, <2>2, <2>3, <2>4
<1> QED BY <1>2, <1>3

LEMMA VisitStep ==
  ASSUME OwnersInv, Visit
  PROVE  OwnersInv'
<1>1. PICK e \in NextCalls :
        /\ Admits(e)
        /\ walk' = IF Trusted(Linked(e), e.page) THEN Linked(e) ELSE Entered(Linked(e), e, TreePage(e.page))
  BY DEF Visit
<1>2. /\ UNCHANGED <<pages, pageCount, touched, moved, graph>> /\ walk.cells = {} /\ e \in walk.todo
      /\ Between(pages, graph, touched, moved) /\ pageCount \in Pages /\ touched # {}
  BY DEF Visit, NextCalls, OwnersInv
<1>3. PICK D \in SUBSET Pages : WalkOK(pages, graph, touched, Needed, walk, D, {})
  BY DEF OwnersInv, Visit
<1> DEFINE w == Linked(e)
<1>4. /\ WalkOK(pages, graph, touched, Needed, w, D, {e.page})
      /\ e.page \in Pages /\ e.page \notin w.visited /\ e.page \in TreeOf(pages, e.table)
      /\ e.page \notin Roots => e.page \in DOMAIN w.edges
      /\ e.page \in DOMAIN w.edges =>
           w.edges[e.page] \in w.visited /\ e.page \in Children(pages[w.edges[e.page]])
  BY <1>1, <1>2, <1>3, LinkStep
<1>5. /\ walk \in Walks /\ KnownRight(pages, walk, D) /\ CallsRight(pages, walk) /\ Database(pages)
      /\ walk.changed = IF walk.full THEN Pages ELSE touched
  BY <1>2, <1>3 DEF WalkOK, Between
<1>6. e \in Calls /\ e.table \in Tables
  BY <1>2, <1>5, CallPage
<1>7. w.cells = {}
  BY <1>2, <1>5, LinkedFields
<1>8. Needed' = Needed
  BY <1>2 DEF Needed
<1> SUFFICES \E E \in SUBSET Pages : WalkOK(pages, graph, touched, Needed, walk', E, {})
  BY <1>2, <1>8 DEF OwnersInv
<1>9. CASE Trusted(w, e.page)
  <2>1. {e.page} \in SUBSET Unneeded(w)
    BY <1>4, <1>9 DEF Trusted, Unneeded
  <2>2. w.nodes[e.page].table = e.table
    BY <1>1, <1>9 DEF Admits
  <2> HIDE DEF w
  <2>3. WalkOK(pages, graph, touched, Needed, w, D \cup Below(pages, {e.page}), {})
    <3> DEFINE new == {e.page}
    <3>1. new \in SUBSET Unneeded(w) /\ WalkOK(pages, graph, touched, Needed, w, D, new)
      BY <1>4, <2>1
    <3>2. \A p \in new : p \in TreeOf(pages, w.nodes[p].table)
      BY <1>4, <2>2
    <3>3. \A p \in new \cap DOMAIN w.edges : w.edges[p] \in w.visited /\ p \in Children(pages[w.edges[p]])
      BY <1>4
    <3>4. new \ Roots \subseteq DOMAIN w.edges
      BY <1>4
    <3> HIDE DEF new
    <3>5. WalkOK(pages, graph, touched, Needed, w, D \cup Below(pages, new), {})
      BY <1>2, <3>1, <3>2, <3>3, <3>4, TrustStep
    <3> QED BY <3>5 DEF new
  <2>4. D \cup Below(pages, {e.page}) \in SUBSET Pages
    BY ReachIn DEF Below
  <2> QED BY <1>1, <1>9, <2>3, <2>4 DEF w
<1>10. CASE ~Trusted(w, e.page)
  <2>1. TreePage(e.page).kind \in {"leaf", "interior"}
    BY <1>1, <1>10 DEF Admits
  <2>2. TreePage(e.page) = pages[e.page]
    BY <1>2, <1>4, <1>5, <1>6, <2>1, TreePageRight
  <2>3. e.page \notin Unneeded(w)
    BY <1>10 DEF Trusted, Unneeded
  <2> HIDE DEF w
  <2>4. WalkOK(pages, graph, touched, Needed, Entered(w, e, pages[e.page]), D, {})
    BY <1>2, <1>4, <1>6, <1>7, <2>3, EnterStep
  <2> QED BY <1>1, <1>10, <2>2, <2>4 DEF w
<1> QED BY <1>9, <1>10

LEMMA OwnKeeps ==
  ASSUME OwnersInv, Own
  PROVE  OwnersInv'
<1>1. PICK e \in NextCells : Ownable(ChainOf(e)[e.at]) /\ walk' = OwnedWalk(e)
  BY DEF Own, OwnedWalk
<1>2. /\ UNCHANGED <<pages, pageCount, touched, moved, graph>> /\ e \in walk.cells
      /\ Between(pages, graph, touched, moved) /\ pageCount \in Pages /\ touched # {}
  BY DEF Own, NextCells, OwnersInv
<1>3. PICK D \in SUBSET Pages : WalkOK(pages, graph, touched, Needed, walk, D, {})
  BY DEF OwnersInv, Own
<1>4. WalkOK(pages, graph, touched, Needed, OwnedWalk(e), D, {})
  BY <1>1, <1>2, <1>3, OwnStep
<1>5. Needed' = Needed
  BY <1>2 DEF Needed
<1> QED BY <1>1, <1>2, <1>4, <1>5 DEF OwnersInv

LEMMA StartKeeps ==
  ASSUME OwnersInv, StartUpdate
  PROVE  OwnersInv'
<1> DEFINE tables == {t \in Tables : RootOf[t] \in Needed}
<1>1. /\ UNCHANGED <<pages, pageCount, touched, moved, graph>> /\ touched # {}
      /\ walk' = Begun(FALSE, touched, graph, Needed, tables)
  BY DEF StartUpdate
<1>2. Between(pages, graph, touched, moved) /\ pageCount \in Pages /\ touched \in SUBSET Pages /\ GraphOK(graph)
  BY DEF OwnersInv, Between
<1>3. /\ Needed \in SUBSET Pages /\ DOMAIN graph.nodes \cap touched \subseteq Needed
      /\ \A c \in Needed \cap DOMAIN graph.edges : graph.edges[c] \in Needed
  BY <1>2, NeededPlain
<1>4. tables \in SUBSET Tables /\ \A t \in Tables : FALSE \/ RootOf[t] \in Needed => t \in tables
  OBVIOUS
<1> HIDE DEF tables
<1>5. \E D \in SUBSET Pages :
        WalkOK(pages, graph, touched, Needed, Begun(FALSE, touched, graph, Needed, tables), D, {})
  BY <1>2, <1>3, <1>4, BegunStep
<1>6. Needed' = Needed
  BY <1>1 DEF Needed
<1> QED BY <1>1, <1>2, <1>5, <1>6 DEF OwnersInv

LEMMA BuildKeeps ==
  ASSUME OwnersInv, Build
  PROVE  OwnersInv'
<1>1. /\ UNCHANGED <<pages, pageCount, touched, moved, graph>> /\ touched # {}
      /\ walk' = Begun(TRUE, Pages, EmptyGraph, {}, Tables)
  BY DEF Build, OwnersInv
<1>2. Between(pages, graph, touched, moved) /\ pageCount \in Pages
  BY DEF OwnersInv
<1>3. DOMAIN EmptyGraph.nodes = {}
  BY DEF EmptyGraph
<1>4. \E D \in SUBSET Pages :
        WalkOK(pages, graph, touched, Needed, Begun(TRUE, Pages, EmptyGraph, {}, Tables), D, {})
  <2> DEFINE Q == {}
             began == EmptyGraph
  <2>1. /\ Q \in SUBSET Pages /\ began = EmptyGraph /\ DOMAIN began.nodes \cap Pages \subseteq Q
        /\ \A c \in Q \cap DOMAIN began.edges : began.edges[c] \in Q
    BY <1>3
  <2> HIDE DEF Q, began
  <2>2. \E D \in SUBSET Pages :
          WalkOK(pages, graph, touched, Needed, Begun(TRUE, Pages, began, Q, Tables), D, {})
    BY <1>2, <2>1, BegunStep
  <2> QED BY <2>2 DEF Q, began
<1>5. Needed' = Needed
  BY <1>1 DEF Needed
<1> QED BY <1>1, <1>2, <1>4, <1>5 DEF OwnersInv

LEMMA EndKeeps ==
  ASSUME OwnersInv, EndUpdate
  PROVE  OwnersInv'
<1>1. PICK D \in SUBSET Pages : WalkOK(pages, graph, touched, Needed, walk, D, {})
  BY DEF OwnersInv, EndUpdate, AtEnd
<1>2. /\ Between(pages, graph, touched, moved) /\ pageCount \in Pages /\ walk.todo = {} /\ walk.cells = {}
      /\ pages' = pages /\ pageCount' = pageCount /\ touched' = {} /\ moved' = {} /\ ~Walking'
      /\ graph' = IndexOf(Done)
  BY DEF OwnersInv, EndUpdate, AtEnd, Walking, IndexOf
<1>3. Between(pages, IndexOf(Done), {}, {})
  BY <1>1, <1>2, EndStep DEF Done
<1> QED BY <1>2, <1>3 DEF OwnersInv

LEMMA ChangeKeeps ==
  ASSUME OwnersInv, Change
  PROVE  OwnersInv'
<1>1. PICK image \in Images, rewritten \in SUBSET Pages :
        LET used    == {p \in Pages : image.pages[p] # Free}
            written == rewritten \cup {p \in used : image.pages[p] # pages[p]}
        IN /\ written # {}
           /\ pages' = image.pages /\ pageCount' = image.count /\ touched' = written
           /\ moved' = {<<c.table, c.row>> : c \in Unsettled(pages, image.pages, written)}
  BY DEF Change
<1>2. Database(image.pages) /\ image.count \in Pages
  BY DEF Images, Database
<1>3. /\ touched = {} /\ graph' = graph /\ walk' = walk /\ ~Walking
  BY DEF Change, Walking
<1>4. Between(pages, graph, {}, {})
  BY <1>3, FewerRows DEF OwnersInv
<1>5. /\ pages' = image.pages /\ pageCount' = image.count
      /\ touched' \in SUBSET Pages /\ touched' # {}
      /\ \A p \in Pages : image.pages[p] # Free /\ image.pages[p] # pages[p] => p \in touched'
      /\ moved' = {<<c.table, c.row>> : c \in Unsettled(pages, image.pages, touched')}
  BY <1>1
<1>6. Between(image.pages, graph, touched', moved')
  <2> DEFINE Q == image.pages
             written == touched'
             due == moved'
  <2>1. /\ Database(Q) /\ written \in SUBSET Pages /\ written # {}
        /\ \A p \in Pages : Q[p] # Free /\ Q[p] # pages[p] => p \in written
        /\ due = {<<c.table, c.row>> : c \in Unsettled(pages, Q, written)}
    BY <1>2, <1>5
  <2> HIDE DEF Q, written, due
  <2>2. Between(Q, graph, written, due)
    BY <1>4, <2>1, CommitStep
  <2> QED BY <2>2 DEF Q, written, due
<1>7. ~Walking'
  BY <1>3 DEF Walking
<1> QED BY <1>2, <1>3, <1>5, <1>6, <1>7 DEF OwnersInv

\* The graph stays the ownership graph of the source the last capture read, and while an update
\* walks, what it visited or trusts is what the pages now hold, the rest is what the old graph
\* said, and all that is reachable is known or waits to be visited (page_index.py, PageIndex).
THEOREM PagesInvariance == OwnersSpec => []OwnersInv
<1>1. OwnersInit => OwnersInv
  <2> SUFFICES ASSUME OwnersInit PROVE OwnersInv
    OBVIOUS
  <2>1. Between(pages, graph, touched, moved)
    BY InitialGraph DEF OwnersInit
  <2>2. pageCount \in Pages
    BY PageOwnersAssumption DEF OwnersInit, Pages
  <2> QED BY <2>1, <2>2 DEF OwnersInit, OwnersInv, Walking
<1>2. OwnersInv /\ [OwnersNext]_ownerVars => OwnersInv'
  <2> SUFFICES ASSUME OwnersInv, [OwnersNext]_ownerVars PROVE OwnersInv'
    OBVIOUS
  <2>1. CASE Change
    BY <2>1, ChangeKeeps
  <2>2. CASE StartUpdate
    BY <2>2, StartKeeps
  <2>3. CASE Visit
    BY <2>3, VisitStep
  <2>4. CASE Own
    BY <2>4, OwnKeeps
  <2>5. CASE Build
    BY <2>5, BuildKeeps
  <2>6. CASE EndUpdate
    BY <2>6, EndKeeps
  <2>7. CASE UNCHANGED ownerVars
    <3>1. Needed' = Needed /\ Walking' = Walking
      BY <2>7 DEF ownerVars, Needed, Walking
    <3> QED BY <2>7, <3>1 DEF ownerVars, OwnersInv
  <2> QED BY <2>1, <2>2, <2>3, <2>4, <2>5, <2>6, <2>7 DEF OwnersNext
<1> QED BY <1>1, <1>2, PTL DEF OwnersSpec

\* Between two captures the graph is the ownership graph of the source (page_index.py, _apply).
THEOREM GraphIsTheSource == OwnersSpec => [](GraphIsSource /\ GraphFollows)
<1> SUFFICES ASSUME OwnersInv PROVE GraphIsSource
  BY PagesInvariance, PTL DEF GraphFollows
<1> SUFFICES ASSUME touched = {}
             PROVE  /\ DOMAIN graph.nodes = UNION {TreeOf(pages, t) : t \in Tables}
                    /\ \A t \in Tables : \A p \in TreeOf(pages, t) :
                         /\ graph.nodes[p] = [table |-> t, node |-> pages[p]]
                         /\ ChildrenOf(graph.edges, {p}) = Children(pages[p])
                         /\ \A r \in Rows(pages[p]) :
                              {o \in OwnedBy(graph.owners, {p}) : graph.owners[o].row = r} = PagesOf(pages[p].cells[r])
                    /\ \A o \in DOMAIN graph.owners : pages[o] = Overflow(graph.owners[o].next)
  BY DEF GraphIsSource
<1>1. Between(pages, graph, {}, moved)
  BY DEF OwnersInv
<1>2. GraphOK(graph) /\ Database(pages) /\ \A p \in Pages : pages[p] = Content(graph, p)
  BY <1>1 DEF Between
<1>3. /\ \A t \in Tables : \A p \in TreeOf(pages, t) :
           p \in DOMAIN graph.nodes /\ graph.nodes[p] = [table |-> t, node |-> pages[p]]
      /\ \A p \in DOMAIN graph.nodes : p \in TreeOf(pages, graph.nodes[p].table) /\ graph.nodes[p].table \in Tables
  BY <1>1, SourceOfGraph
<1>4. DOMAIN graph.nodes = UNION {TreeOf(pages, t) : t \in Tables}
  <2>1. ASSUME NEW p \in DOMAIN graph.nodes PROVE \E t \in Tables : p \in TreeOf(pages, t)
    BY <1>3
  <2>2. ASSUME NEW t \in Tables, NEW p \in TreeOf(pages, t) PROVE p \in DOMAIN graph.nodes
    BY <1>3
  <2> QED BY <2>1, <2>2
<1>5. \A o \in DOMAIN graph.owners : pages[o] = Overflow(graph.owners[o].next)
  BY <1>2, GraphFields DEF GraphOK, Content
<1>6. ASSUME NEW t \in Tables, NEW p \in TreeOf(pages, t)
      PROVE  /\ ChildrenOf(graph.edges, {p}) = Children(pages[p])
             /\ \A r \in Rows(pages[p]) :
                  {o \in OwnedBy(graph.owners, {p}) : graph.owners[o].row = r} = PagesOf(pages[p].cells[r])
  <2>1. p \in DOMAIN graph.nodes /\ graph.nodes[p] = [table |-> t, node |-> pages[p]]
    BY <1>3
  <2>2. graph.nodes[p].node = pages[p]
    BY <2>1
  <2>3. ASSUME NEW c \in ChildrenOf(graph.edges, {p}) PROVE c \in Children(pages[p])
    <3>1. c \in DOMAIN graph.edges /\ graph.edges[c] = p
      BY <2>3 DEF ChildrenOf
    <3> QED BY <1>2, <2>2, <3>1 DEF GraphOK
  <2>4. ASSUME NEW c \in Children(pages[p]) PROVE c \in ChildrenOf(graph.edges, {p})
    <3>1. c \in DOMAIN graph.edges /\ graph.edges[c] = p
      BY <1>2, <2>1, <2>2, <2>4 DEF GraphOK
    <3> QED BY <3>1 DEF ChildrenOf
  <2>5. ASSUME NEW r \in Rows(pages[p]), NEW o \in OwnedBy(graph.owners, {p}), graph.owners[o].row = r
        PROVE  o \in PagesOf(pages[p].cells[r])
    <3>1. o \in DOMAIN graph.owners /\ graph.owners[o].leaf = p
      BY <2>5 DEF OwnedBy
    <3>2. PICK q \in DOMAIN graph.nodes : \E s \in Rows(graph.nodes[q].node) : \E i \in DOMAIN graph.nodes[q].node.cells[s] :
            Owner(o, graph.owners[o], graph.nodes[q].node.cells, q, s, i)
      BY <1>2, <3>1 DEF GraphOK
    <3>3. PICK s \in Rows(graph.nodes[q].node) : \E i \in DOMAIN graph.nodes[q].node.cells[s] :
            Owner(o, graph.owners[o], graph.nodes[q].node.cells, q, s, i)
      BY <3>2
    <3>4. PICK i \in DOMAIN graph.nodes[q].node.cells[s] : Owner(o, graph.owners[o], graph.nodes[q].node.cells, q, s, i)
      BY <3>3
    <3>5. q = p /\ s = r /\ i \in DOMAIN pages[p].cells[r] /\ o = pages[p].cells[r][i]
      BY <2>2, <2>5, <3>1, <3>4 DEF Owner
    <3> QED BY <3>5 DEF PagesOf
  <2>6. ASSUME NEW r \in Rows(pages[p]), NEW o \in PagesOf(pages[p].cells[r])
        PROVE  o \in OwnedBy(graph.owners, {p}) /\ graph.owners[o].row = r
    <3>1. PICK i \in DOMAIN pages[p].cells[r] : o = pages[p].cells[r][i]
      BY <2>6 DEF PagesOf
    <3>2. o \in DOMAIN graph.owners /\ Owner(o, graph.owners[o], graph.nodes[p].node.cells, p, r, i)
      BY <1>2, <2>1, <2>2, <2>6, <3>1 DEF GraphOK
    <3>3. graph.owners[o].leaf = p /\ graph.owners[o].row = r
      BY <3>2 DEF Owner
    <3> QED BY <3>2, <3>3 DEF OwnedBy
  <2> QED BY <2>3, <2>4, <2>5, <2>6
<1> QED BY <1>3, <1>4, <1>5, <1>6

\* An update selects every row that was written, moved or removed since the last capture,
\* whichever of its pages was (page_index.py, candidates).
THEOREM UpdatesSelectAllRows == OwnersSpec => []RowsSelected
<1> SUFFICES ASSUME OwnersInv PROVE RowsSelected
  BY PagesInvariance, PTL
<1> SUFFICES ASSUME AtEnd, ~walk.full PROVE moved \subseteq Done.candidates
  BY DEF RowsSelected
<1>1. Between(pages, graph, touched, moved) /\ GraphOK(graph) /\ walk.todo = {} /\ walk.cells = {}
  BY DEF OwnersInv, Between, AtEnd
<1>2. PICK D \in SUBSET Pages : WalkOK(pages, graph, touched, Needed, walk, D, {})
  BY DEF OwnersInv, AtEnd
<1>3. /\ DOMAIN graph.nodes \cap touched \subseteq Needed
      /\ \A o \in DOMAIN graph.owners \cap touched : graph.owners[o].leaf \in Needed
  BY <1>1, NeededPlain
<1> QED BY <1>1, <1>2, <1>3, EndRows DEF Done
=============================================================================
