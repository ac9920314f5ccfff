----------------------------- MODULE SourceView -----------------------------
(***************************************************************************)
(* A view of a source database (adapters/source_view.py) and the pages the *)
(* write-ahead log says have changed since a cursor (adapters/wal.py).     *)
(* The messaging application keeps writing, rolls back, checkpoints and    *)
(* starts its log anew meanwhile; the machine may lose power, and the file *)
(* be replaced.  A frame's checksum covers its generation's frames before  *)
(* it, so a frame stands for its chain: what it and they say.              *)
(***************************************************************************)
EXTENDS Naturals, Sequences, FiniteSetsExt, SequencesExt, TLC

CONSTANTS LogPages,     \* pages of the source
          MaxVersion,   \* page bodies ever written
          MaxLogs,      \* log generations (device, inode and salts together)
          NoCursor      \* no cursor yet: a baseline is read

ASSUME SourceViewAssumption == MaxVersion \in Nat /\ MaxLogs \in Nat \ {0}

VARIABLES log,       \* <database>-wal: the generation in its header, and its frames
          index,     \* <database>-shm: the two copies of the index header
          writer,    \* the chain of the open transaction
          base,      \* generation -> what the database held when it began
          synced,    \* every committed frame has been copied into the database
          versions,  \* page bodies written so far
          file,      \* the database's inode
          after,     \* the cursor of the last capture
          view       \* the view being opened, or open

sourceVars == <<log, index, writer, base, synced, versions, file, after, view>>

Closed == [at |-> "closed"]

(* SQLite and the messaging application (external) *************************)
Committed(copies) == copies[1] = copies[2]

\* The content committed by a chain of one generation.
Image(gen, chain) ==
  [p \in LogPages |->
     LET writes == {i \in DOMAIN chain : chain[i].page = p}
     IN IF writes = {} THEN base[gen][p] ELSE chain[Max(writes)].body]

SourceInit ==
  /\ log = [gen |-> 1, frames |-> <<>>]
  /\ index = <<[gen |-> 1, chain |-> <<>>], [gen |-> 1, chain |-> <<>>]>>
  /\ writer = <<>> /\ base = <<[p \in LogPages |-> 0]>>
  /\ synced = FALSE /\ versions = 0 /\ file = 1 /\ after = NoCursor /\ view = Closed

\* The first frame of a generation is preceded by its header; older frames stay behind it.
WriteHeader ==
  /\ Committed(index) /\ log.gen # index[1].gen
  /\ log' = [log EXCEPT !.gen = index[1].gen]
  /\ UNCHANGED <<index, writer, base, synced, versions, file, after, view>>

WriteFrame(p, last) ==
  /\ Committed(index) /\ log.gen = index[1].gen /\ versions < MaxVersion
  /\ ~(writer # <<>> /\ Last(writer).last)
  /\ LET chain == index[1].chain \o Append(writer, [page |-> p, body |-> versions + 1, last |-> last])
         n == Len(chain)
     IN /\ writer' = Append(writer, Last(chain))
        /\ log' = [log EXCEPT !.frames = SubSeq(@, 1, n - 1) \o <<[gen |-> log.gen, chain |-> chain]>>
                                         \o SubSeq(@, n + 1, Len(@))]
  /\ versions' = versions + 1
  /\ UNCHANGED <<index, base, synced, file, after, view>>

\* A commit writes the second copy of the index header, then the first.
PublishFirst ==
  /\ Committed(index) /\ writer # <<>> /\ Last(writer).last
  /\ index' = [index EXCEPT ![2].chain = @ \o writer]
  /\ synced' = FALSE
  /\ UNCHANGED <<log, writer, base, versions, file, after, view>>

PublishSecond ==
  /\ ~Committed(index)
  /\ index' = <<index[2], index[2]>> /\ writer' = <<>>
  /\ UNCHANGED <<log, base, synced, versions, file, after, view>>

Rollback ==
  /\ Committed(index) /\ writer # <<>> /\ ~Last(writer).last
  /\ writer' = <<>>
  /\ UNCHANGED <<log, index, base, synced, versions, file, after, view>>

\* A checkpoint stops at the mark of a reader of the log.
Pinned == view.at \notin {"closed", "indexed"} /\ view.file = file

Checkpoint ==
  /\ Committed(index) /\ index[1].chain # <<>>
  /\ Pinned => view.pin = index[1]
  /\ synced' = TRUE
  /\ UNCHANGED <<log, index, writer, base, versions, file, after, view>>

\* A log that is copied and that no reader reads is begun anew. A reader that came
\* when all was copied reads the database alone, and holds nothing of the log.
RestartLog ==
  /\ Committed(index) /\ synced /\ index[1].chain # <<>> /\ writer = <<>> /\ Len(base) < MaxLogs
  /\ Pinned => view.besideLog
  /\ base' = Append(base, Image(index[1].gen, index[1].chain))
  /\ index' = [c \in 1..2 |-> [gen |-> Len(base) + 1, chain |-> <<>>]]
  /\ synced' = FALSE
  /\ UNCHANGED <<log, writer, versions, file, after, view>>

\* Frames that were not synced may be lost; recovery keeps the salts of the header.
PowerLoss ==
  \E n \in 0..Len(log.frames) :
    LET kept == {i \in 1..n : LET f == log.frames[i]
                              IN Last(f.chain).last
                                 /\ \A j \in 1..i : log.frames[j] = [gen |-> log.gen, chain |-> SubSeq(f.chain, 1, j)]}
        recovered == [gen |-> log.gen, chain |-> IF kept = {} THEN <<>> ELSE log.frames[Max(kept)].chain]
    IN /\ log.gen = index[1].gen /\ (synced => n >= Len(index[1].chain))
       /\ log' = [log EXCEPT !.frames = SubSeq(@, 1, n)]
       /\ index' = <<recovered, recovered>>
       /\ writer' = <<>> /\ synced' = FALSE /\ view' = Closed
       /\ UNCHANGED <<base, versions, file, after>>

\* Another database is put in the place of this one.
ReplaceSource ==
  /\ file = 1 /\ Len(base) < MaxLogs /\ versions < MaxVersion
  /\ file' = file + 1 /\ versions' = versions + 1
  /\ base' = Append(base, [p \in LogPages |-> versions + 1])
  /\ log' = [gen |-> Len(base) + 1, frames |-> <<>>]
  /\ index' = [c \in 1..2 |-> [gen |-> Len(base) + 1, chain |-> <<>>]]
  /\ writer' = <<>> /\ synced' = FALSE
  /\ UNCHANGED <<after, view>>

(* WalSource._open *********************************************************)
Unavailable == view' = Closed /\ UNCHANGED after

Unless(refused, next) == IF refused THEN Unavailable ELSE view' = next /\ UNCHANGED after

\* The monitor's token fails once the database was replaced (monitor.py, token).
SameFile(v) == file = v.file

OpenView(since) ==
  /\ view = Closed
  /\ since = NoCursor \/ since = after
  /\ Unless(~Committed(index) \/ (since # NoCursor /\ since.file # file),
            [at |-> "indexed", file |-> file, since |-> since, index |-> index[1]])

Pin ==
  /\ view.at = "indexed" /\ Committed(index)
  /\ view' = [at |-> "pinned", file |-> view.file, since |-> view.since, index |-> view.index,
              pin |-> index[1], besideLog |-> synced]
  /\ UNCHANGED after

MutSameIndex(v) == Committed(index) /\ SameFile(v)   \* the index is not compared

\* The same index before and after pinning: the log ends where the view does.
SameIndex(v) == Committed(index) /\ index[1] = v.index /\ SameFile(v)

\* read_changes: the cursor must still name a committed frame of this log.
CursorHolds(v) ==
  LET n == Len(v.since.chain)
  IN /\ v.since.gen = log.gen /\ n <= Len(v.index.chain)
     /\ n > 0 => log.frames[n] = [gen |-> log.gen, chain |-> v.since.chain]

ReadHeader ==
  /\ view.at = "pinned"
  /\ Unless(\/ ~SameIndex(view)
            \/ Len(view.index.chain) > Len(log.frames)
            \/ view.since # NoCursor /\ ~CursorHolds(view),
            [at |-> "reading", file |-> view.file, since |-> view.since, index |-> view.index,
             pin |-> view.pin, besideLog |-> view.besideLog,
             extent |-> Len(log.frames), header |-> log.gen,
             running |-> IF view.since = NoCursor THEN <<>> ELSE view.since.chain,
             changed |-> <<>>, pending |-> <<>>])

\* Page -> frame, of the newer frames where there are some.
Over(newer, older) ==
  [p \in DOMAIN newer \cup DOMAIN older |-> IF p \in DOMAIN newer THEN newer[p] ELSE older[p]]

\* A frame counts with the commit it belongs to.
ReadFrame ==
  /\ view.at = "reading" /\ Len(view.running) < Len(view.index.chain)
  /\ LET n == Len(view.running) + 1
         f == log.frames[n]
         pending == Over([p \in {Last(f.chain).page} |-> n], view.pending)
     IN Unless(\/ n > Len(log.frames)
               \/ f.gen # view.header
               \/ f.chain # Append(view.running, Last(f.chain)),
               IF Last(f.chain).last
               THEN [view EXCEPT !.running = f.chain, !.pending = <<>>, !.changed = Over(pending, @)]
               ELSE [view EXCEPT !.running = f.chain, !.pending = pending])

\* The candidate must end where the pinned view does, in a log that was not begun anew.
Validate ==
  /\ view.at = "reading" /\ Len(view.running) = Len(view.index.chain)
  /\ Unless(\/ view.pending # <<>> \/ view.running = <<>>
            \/ log.gen # view.header \/ Len(log.frames) < view.extent
            \/ [gen |-> view.header, chain |-> view.running] # view.index
            \/ ~SameFile(view),
            [at |-> "open", file |-> view.file, since |-> view.since, pin |-> view.pin,
             besideLog |-> view.besideLog, changed |-> view.changed,
             cursor |-> [file |-> view.file, gen |-> view.header, chain |-> view.running]])

\* The capture stores the cursor, or fails and leaves the old one.
CloseView ==
  /\ view.at = "open"
  /\ view' = Closed
  /\ after' \in {after, view.cursor}

ViewStep ==
  /\ OpenView(after) \/ OpenView(NoCursor) \/ Pin \/ ReadHeader \/ ReadFrame \/ Validate \/ CloseView
  /\ UNCHANGED <<log, index, writer, base, synced, versions, file>>

SourceNext ==
  \/ \E p \in LogPages, last \in BOOLEAN : WriteFrame(p, last)
  \/ WriteHeader \/ PublishFirst \/ PublishSecond \/ Rollback \/ Checkpoint \/ RestartLog
  \/ PowerLoss \/ ReplaceSource \/ ViewStep

SourceSpec == SourceInit /\ [][SourceNext]_sourceVars

(* Page bodies *************************************************************)
\* WalPages.read: the frame the candidate named, if it and the candidate's commit still stand.
Readable(v, n) ==
  LET end == Len(v.cursor.chain)
  IN /\ log.gen = v.cursor.gen /\ Len(log.frames) >= end
     /\ log.frames[end] = [gen |-> log.gen, chain |-> v.cursor.chain]
     /\ log.frames[n] = [gen |-> log.gen, chain |-> SubSeq(v.cursor.chain, 1, n)]

Body(n) == Last(log.frames[n].chain).body

(* Properties **************************************************************)
\* An open view is one commit: its cursor names the content its connection reads, every
\* page that differs from the cursor it continues is among the changed ones, and a page
\* body that is handed out is that commit's, whatever is written, checkpointed, begun
\* anew or lost meanwhile (source_view.py, _open; wal.py, read_changes and WalPages).
ViewExact ==
  view.at = "open" =>
    LET now == Image(view.pin.gen, view.pin.chain)
    IN /\ Image(view.cursor.gen, view.cursor.chain) = now
       /\ view.since # NoCursor =>
            \A p \in LogPages : Image(view.since.gen, view.since.chain)[p] # now[p] => p \in DOMAIN view.changed
       /\ \A p \in DOMAIN view.changed : Readable(view, view.changed[p]) => Body(view.changed[p]) = now[p]
=============================================================================
