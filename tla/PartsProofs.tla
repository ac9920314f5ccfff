----------------------------- MODULE PartsProofs -----------------------------
(***************************************************************************)
(* Two parts for every value of their constants.  What a media ledger      *)
(* knows of the files it does not read again: the invariant says of every  *)
(* ledger entry, of every fingerprint a capture has taken and of every     *)
(* body it has read what the file can have become since; the clock of the  *)
(* file system enters through one assumption only, that its grain is no    *)
(* longer than the window within which an entry counts as racy.  And the   *)
(* lineages of monthly archives: every file continues the exports rows of  *)
(* its month by one revision at most, or is one of them, and what is       *)
(* recorded or imported was verified, so that nothing removes it.  Of what *)
(* an import restores, the invariant says what each month still needs      *)
(* while an export goes on, and what the records of the target are once a  *)
(* lineage was imported without a gap.                                     *)
(***************************************************************************)
EXTENDS MediaLedger, MonthlyArchive, TLAPS

(* The media ledger *********************************************************)
FileStates == [inode : Nat, body : Nat, time : Nat]
Prints     == [inode : Nat, time : Nat] \cup {NoFile}
Entries    == [file : MediaFiles, print : Prints, racy : BOOLEAN]
Namings    == [MediaRows -> MediaFiles \cup {NoFile}]
Evidences  == [MediaRows -> Nat \cup {NoFile}]

Begun  == [at : {"begun"}, started : Nat, names : Namings, full : BOOLEAN]
UnderWay ==
  [at : {"hashing", "reading"}, started : Nat, names : Namings, full : BOOLEAN,
   seen : UNION {[S -> Prints] : S \in SUBSET MediaRows}, dirty : SUBSET MediaRows,
   left : SUBSET MediaRows, evidence : Evidences, again : BOOLEAN, came : SUBSET MediaFiles,
   row : MediaRows \cup {NoFile}, opened : FileStates \cup {NoFile}]

LedgerTyped ==
  /\ disk \in [MediaFiles -> FileStates \cup {NoFile}]
  /\ clock \in Nat /\ bodies \in Nat
  /\ names \in Namings /\ evidence \in Evidences
  /\ ledger \in [MediaRows -> Entries \cup {NoFile}]
  /\ bound \in BOOLEAN /\ blobs \in SUBSET Nat /\ fleeting \in SUBSET MediaRows
  /\ take \in {Resting} \cup Begun \cup UnderWay

\* Inodes are not used again, and no file is younger than the clock.
DiskDated == \A f \in MediaFiles : disk[f] # NoFile => disk[f].inode <= bodies /\ disk[f].time <= clock

\* A fingerprint that is old enough at a scan at s: a later write of the file shows.
Telling(p, b, s) == p # NoFile /\ p.inode <= b /\ p.time + Window < s

\* The fingerprint of a file in state x.
PrintOf(x) == IF x = NoFile THEN NoFile ELSE [inode |-> x.inode, time |-> x.time]

\* What a row that is not racy, of a file in state x, says of the evidence kept, now or when
\* its fingerprint p returns. The members of S are excused.
Vouches(p, x, b, s, kept, who, S) ==
  /\ p = NoFile => kept = NoFile \/ who \in S
  /\ p # NoFile => Telling(p, b, s) /\ (PrintOf(x) = p => kept = x.body)

LedgerVouches ==
  bound => \A r \in MediaRows :
    names[r] # NoFile /\ ledger[r] # NoFile /\ ledger[r].file = names[r] /\ ~ledger[r].racy =>
      Vouches(ledger[r].print, disk[names[r]], bodies, clock, evidence[r], r, fleeting)

Active == take.at \in {"hashing", "reading"}

\* Rows that are not captured keep their evidence, and are clean.
TakeKeeps ==
  /\ take # Resting => take.started <= clock /\ (~take.full => bound)
  /\ Active =>
       /\ DOMAIN take.seen = NamedRows(take)
       /\ take.left \subseteq take.dirty
       /\ take.full => take.dirty = MediaRows
       /\ \A r \in MediaRows \ take.dirty : take.evidence[r] = evidence[r] /\ take.names[r] = names[r]
       /\ \A r \in NamedRows(take) \ take.dirty : ledger[r] # NoFile

\* A file that was missing and is there now came to be meanwhile.
ComingsSeen ==
  Active => \A r \in NamedRows(take) :
    /\ take.seen[r] = NoFile /\ disk[take.names[r]] # NoFile => take.names[r] \in take.came
    /\ take.seen[r] # NoFile => take.seen[r].inode <= bodies

TakeVouches ==
  Active => \A r \in (NamedRows(take) \cap take.dirty) \ take.left :
    ~Recent(take.seen[r], take.started) =>
      Vouches(take.seen[r], disk[take.names[r]], bodies, take.started, take.evidence[r], take.names[r], take.came)

\* The file being read is still what was opened, if it looks the same and is old enough.
ReadingSound ==
  take.at = "reading" =>
    /\ take.row \in take.left \cap NamedRows(take) /\ take.opened \in FileStates
    /\ take.opened.inode <= bodies
    /\ LET now == disk[take.names[take.row]]
       IN /\ take.opened.time + Window < take.started /\ now # NoFile
             /\ now.inode = take.opened.inode /\ now.time = take.opened.time => now.body = take.opened.body
          /\ take.seen[take.row] = NoFile => take.names[take.row] \in take.came

EvidenceKept ==
  /\ \A r \in MediaRows : evidence[r] \in blobs \cup {NoFile}
  /\ Active => \A r \in MediaRows : take.evidence[r] \in blobs \cup {NoFile}

MediaInv ==
  /\ LedgerTyped /\ DiskDated /\ LedgerVouches /\ TakeKeeps /\ ComingsSeen /\ TakeVouches
  /\ ReadingSound /\ EvidenceKept

LEMMA Grains == Grain \in Nat /\ Window \in Nat /\ Grain > 0 /\ Grain <= Window + 1
BY MediaLedgerAssumption

LEMMA NoFileDiffers ==
  /\ NoFile \notin Nat /\ NoFile \notin FileStates
  /\ NoFile \notin [inode : Nat, time : Nat] /\ NoFile \notin Entries
BY MediaLedgerAssumption DEF FileStates, Entries, Prints

LEMMA ActiveTake ==
  ASSUME LedgerTyped, Active
  PROVE  take \in UnderWay /\ take # Resting
<1>1. take \notin Begun
  BY DEF Active, Begun
<1>2. take # Resting
  BY DEF Active, Resting
<1> QED BY <1>1, <1>2 DEF LedgerTyped

LEMMA Printed ==
  ASSUME NEW x \in FileStates \cup {NoFile}
  PROVE  /\ PrintOf(x) \in Prints
         /\ PrintOf(x) = NoFile <=> x = NoFile
         /\ x # NoFile => /\ x \in FileStates /\ PrintOf(x) = [inode |-> x.inode, time |-> x.time]
                          /\ PrintOf(x).inode = x.inode /\ PrintOf(x).time = x.time
<1>1. CASE x = NoFile
  BY <1>1, NoFileDiffers DEF PrintOf, Prints
<1>2. CASE x # NoFile
  <2>1. x \in FileStates
    BY <1>2
  <2>2. PrintOf(x) = [inode |-> x.inode, time |-> x.time]
    BY <1>2 DEF PrintOf
  <2>3. PrintOf(x) \in [inode : Nat, time : Nat]
    BY <2>1, <2>2 DEF FileStates
  <2> QED BY <2>1, <2>2, <2>3, <1>2, NoFileDiffers DEF Prints
<1> QED BY <1>1, <1>2

\* The time of a file that is written now is later than any that tells by now.
LEMMA FileTimes ==
  ASSUME clock \in Nat
  PROVE  FileTime \in Nat /\ FileTime <= clock /\ clock <= FileTime + Window
<1>1. clock % Grain \in 0 .. Grain - 1
  BY Grains
<1>2. clock % Grain <= clock
  BY Grains
<1> QED BY <1>1, <1>2, Grains DEF FileTime

(* The initial state ********************************************************)
LEMMA LedgerStarts ==
  LedgerInit => MediaInv
<1> SUFFICES ASSUME LedgerInit PROVE MediaInv
  OBVIOUS
<1> USE NoFileDiffers DEF LedgerInit
<1>1. LedgerTyped
  <2>1. [inode |-> 0, body |-> 1, time |-> 0] \in FileStates
    BY DEF FileStates
  <2>2. disk \in [MediaFiles -> FileStates \cup {NoFile}]
    BY <2>1
  <2> QED BY <2>2 DEF LedgerTyped, Namings, Evidences
<1>2. DiskDated
  <2> SUFFICES ASSUME NEW f \in MediaFiles, disk[f] # NoFile PROVE disk[f].inode <= bodies /\ disk[f].time <= clock
    BY DEF DiskDated
  <2>1. disk[f] = [inode |-> 0, body |-> 1, time |-> 0]
    OBVIOUS
  <2> QED BY <2>1
<1>3. ~Active /\ take = Resting
  BY DEF Active, Resting
<1>4. LedgerVouches
  BY DEF LedgerVouches
<1>5. TakeKeeps /\ ComingsSeen /\ TakeVouches /\ ReadingSound
  BY <1>3 DEF TakeKeeps, ComingsSeen, TakeVouches, ReadingSound, Resting
<1>6. EvidenceKept
  BY <1>3 DEF EvidenceKept
<1> QED BY <1>1, <1>2, <1>4, <1>5, <1>6 DEF MediaInv

(* The files ****************************************************************)
LEMMA TickStep ==
  ASSUME MediaInv, Tick, UNCHANGED <<names, evidence, ledger, bound, blobs, fleeting>>
  PROVE  MediaInv'
<1> USE DEF MediaInv
<1>0. UNCHANGED <<disk, bodies, take, names, evidence, ledger, bound, blobs, fleeting>> /\ clock' = clock + 1
  BY DEF Tick
<1>1. LedgerTyped'
  BY <1>0 DEF LedgerTyped
<1>2. DiskDated'
  BY <1>0 DEF DiskDated, LedgerTyped, FileStates
<1>3. LedgerVouches'
  <2> SUFFICES ASSUME bound, NEW r \in MediaRows, names[r] # NoFile, ledger[r] # NoFile,
                      ledger[r].file = names[r], ~ledger[r].racy
               PROVE  Vouches(ledger[r].print, disk[names[r]], bodies, clock + 1, evidence[r], r, fleeting)
    BY <1>0 DEF LedgerVouches
  <2>1. Vouches(ledger[r].print, disk[names[r]], bodies, clock, evidence[r], r, fleeting)
    BY DEF LedgerVouches
  <2>2. ledger[r] \in Entries
    BY DEF LedgerTyped
  <2>3. ledger[r].print # NoFile => ledger[r].print.time \in Nat
    BY <2>2 DEF Entries, Prints
  <2>4. Telling(ledger[r].print, bodies, clock) => Telling(ledger[r].print, bodies, clock + 1)
    BY <2>3, Grains DEF Telling, LedgerTyped
  <2> QED BY <2>1, <2>4 DEF Vouches
<1>4. TakeKeeps'
  <2>1. take # Resting => take.started \in Nat
    BY DEF LedgerTyped, Begun, UnderWay
  <2> QED BY <1>0, <2>1 DEF TakeKeeps, LedgerTyped, Active, NamedRows
<1>5. ComingsSeen' /\ ReadingSound'
  BY <1>0 DEF ComingsSeen, ReadingSound, Active, NamedRows
<1>6. TakeVouches'
  BY <1>0 DEF TakeVouches, Active, NamedRows, Recent
<1>7. EvidenceKept'
  BY <1>0 DEF EvidenceKept, Active
<1> QED BY <1>1, <1>2, <1>3, <1>4, <1>5, <1>6, <1>7

\* What a write leaves of a file: its state is new or gone.
Written(g) == g = NoFile \/ (g \in FileStates /\ g.inode <= bodies + 1 /\ g.time = FileTime)

LEMMA ChangeDoes ==
  ASSUME LedgerTyped, DiskDated, NEW f \in MediaFiles, ChangeFile(f)
  PROVE  /\ bodies' = bodies + 1 /\ clock' = clock
         /\ \A g \in MediaFiles \ {f} : disk'[g] = disk[g]
         /\ Written(disk'[f])
         /\ disk' \in [MediaFiles -> FileStates \cup {NoFile}]
         /\ disk'[f] # NoFile /\ disk[f] = NoFile /\ Active => take' = [take EXCEPT !.came = @ \cup {f}]
         /\ take' = take \/ (Active /\ take' = [take EXCEPT !.came = @ \cup {f}])
<1>1. FileTime \in Nat
  BY FileTimes DEF LedgerTyped
<1>2. \A g \in MediaFiles \ {f} : disk'[g] = disk[g]
  BY DEF ChangeFile, LedgerTyped
<1>3. Written(disk'[f])
  <2>1. CASE disk[f] # NoFile /\ disk' = [disk EXCEPT ![f] = [@ EXCEPT !.body = bodies + 1, !.time = FileTime]]
    <3>1. disk[f] \in FileStates /\ disk[f].inode <= bodies
      BY <2>1 DEF LedgerTyped, DiskDated
    <3>2. disk'[f] = [disk[f] EXCEPT !.body = bodies + 1, !.time = FileTime]
      BY <2>1 DEF LedgerTyped
    <3>3. disk'[f] = [inode |-> disk[f].inode, body |-> bodies + 1, time |-> FileTime]
      BY <3>1, <3>2 DEF FileStates
    <3>4. bodies + 1 \in Nat /\ bodies \in Nat /\ disk[f].inode \in Nat
      BY <3>1 DEF LedgerTyped, FileStates
    <3> HIDE DEF ChangeFile
    <3>5. disk'[f] \in FileStates
      BY <1>1, <3>3, <3>4 DEF FileStates
    <3> QED BY <3>1, <3>3, <3>4, <3>5 DEF Written
  <2>2. CASE disk' = [disk EXCEPT ![f] = [inode |-> bodies + 1, body |-> bodies + 1, time |-> FileTime]]
    <3>1. disk'[f] = [inode |-> bodies + 1, body |-> bodies + 1, time |-> FileTime]
      BY <2>2 DEF LedgerTyped
    <3> QED BY <1>1, <3>1 DEF Written, FileStates, LedgerTyped
  <2>3. CASE disk' = [disk EXCEPT ![f] = NoFile]
    BY <2>3 DEF Written, LedgerTyped
  <2> QED BY <2>1, <2>2, <2>3 DEF ChangeFile
<1>4. disk' \in [MediaFiles -> FileStates \cup {NoFile}]
  <2>1. disk' = [disk EXCEPT ![f] = disk'[f]]
    BY DEF ChangeFile, LedgerTyped
  <2> HIDE DEF ChangeFile
  <2>2. disk'[f] \in FileStates \cup {NoFile}
    BY <1>3 DEF Written
  <2> QED BY <2>1, <2>2 DEF LedgerTyped
<1>5. /\ bodies' = bodies + 1 /\ clock' = clock
      /\ disk[f] = NoFile /\ Active => take' = [take EXCEPT !.came = @ \cup {f}]
      /\ take' = take \/ (Active /\ take' = [take EXCEPT !.came = @ \cup {f}])
  BY DEF ChangeFile, Active
<1> QED BY <1>2, <1>3, <1>4, <1>5

\* A fingerprint that tells does not return by a write.
LEMMA NoReturn ==
  ASSUME LedgerTyped, DiskDated, NEW f \in MediaFiles, ChangeFile(f), NEW g \in MediaFiles,
         NEW p \in [inode : Nat, time : Nat], NEW s \in Nat, s <= clock, Telling(p, bodies, s),
         PrintOf(disk'[g]) = p
  PROVE  disk'[g] = disk[g]
<1>1. /\ \A h \in MediaFiles \ {f} : disk'[h] = disk[h]
      /\ Written(disk'[f]) /\ disk' \in [MediaFiles -> FileStates \cup {NoFile}]
  BY ChangeDoes
<1>2. ASSUME g = f PROVE FALSE
  <2>1. disk'[f] # NoFile /\ disk'[f] \in FileStates /\ p = [inode |-> disk'[f].inode, time |-> disk'[f].time]
    BY <1>1, <1>2, Printed, NoFileDiffers
  <2>2. disk'[f].time = FileTime
    BY <1>1, <2>1 DEF Written
  <2>3. p.time = FileTime
    BY <2>1, <2>2
  <2>4. FileTime \in Nat /\ clock <= FileTime + Window /\ clock \in Nat
    BY FileTimes DEF LedgerTyped
  <2> QED BY <2>3, <2>4, Grains DEF Telling
<1> QED BY <1>1, <1>2

\* So what a row vouches for still holds after it.
LEMMA VouchesStill ==
  ASSUME LedgerTyped, DiskDated, NEW f \in MediaFiles, ChangeFile(f), NEW g \in MediaFiles,
         NEW p \in Prints, NEW s \in Nat, s <= clock, NEW kept, NEW who, NEW S, NEW T, S \subseteq T,
         Vouches(p, disk[g], bodies, s, kept, who, S)
  PROVE  Vouches(p, disk'[g], bodies', s, kept, who, T)
<1>1. CASE p = NoFile
  BY <1>1 DEF Vouches
<1>2. CASE p # NoFile
  <2>1. p \in [inode : Nat, time : Nat] /\ Telling(p, bodies, s)
    BY <1>2 DEF Prints, Vouches
  <2>2. Telling(p, bodies', s)
    <3>1. bodies' = bodies + 1 /\ bodies \in Nat /\ p.inode \in Nat
      BY <2>1, ChangeDoes DEF LedgerTyped
    <3> QED BY <2>1, <3>1 DEF Telling
  <2>3. ASSUME PrintOf(disk'[g]) = p PROVE kept = disk'[g].body
    <3>1. disk'[g] = disk[g]
      BY <2>1, <2>3, NoReturn
    <3> QED BY <1>2, <2>3, <3>1 DEF Vouches
  <2> QED BY <1>2, <2>2, <2>3 DEF Vouches
<1> QED BY <1>1, <1>2

LEMMA ChangeStep ==
  ASSUME MediaInv, NEW f \in MediaFiles, ChangeFile(f),
         UNCHANGED <<names, evidence, ledger, bound, blobs, fleeting>>
  PROVE  MediaInv'
<1>0. LedgerTyped /\ DiskDated
  BY DEF MediaInv
<1>1. /\ bodies' = bodies + 1 /\ clock' = clock
      /\ \A g \in MediaFiles \ {f} : disk'[g] = disk[g]
      /\ Written(disk'[f])
      /\ disk' \in [MediaFiles -> FileStates \cup {NoFile}]
      /\ disk'[f] # NoFile /\ disk[f] = NoFile /\ Active => take' = [take EXCEPT !.came = @ \cup {f}]
      /\ take' = take \/ (Active /\ take' = [take EXCEPT !.came = @ \cup {f}])
  BY <1>0, ChangeDoes
<1>2. take' = take \/ (Active /\ take \in UnderWay /\ take' = [take EXCEPT !.came = @ \cup {f}])
  BY <1>0, <1>1, ActiveTake
<1>3. /\ Active' <=> Active
      /\ take # Resting <=> take' # Resting
      /\ take # Resting => take'.started = take.started /\ take'.full = take.full
      /\ Active => /\ take \in UnderWay /\ take' \in UnderWay
                   /\ take'.at = take.at /\ take'.names = take.names /\ take'.seen = take.seen
                   /\ take'.dirty = take.dirty /\ take'.left = take.left /\ take'.evidence = take.evidence
                   /\ take'.row = take.row /\ take'.opened = take.opened /\ take.came \subseteq take'.came
                   /\ NamedRows(take') = NamedRows(take)
  <2>1. CASE take' = take
    <3>1. Active => take \in UnderWay
      BY <1>0, ActiveTake
    <3> QED BY <2>1, <3>1 DEF Active
  <2>2. CASE Active /\ take \in UnderWay /\ take' = [take EXCEPT !.came = @ \cup {f}]
    <3>1. take' \in UnderWay /\ take'.at = take.at
      BY <2>2 DEF UnderWay
    <3>2. Active' /\ take # Resting /\ take' # Resting
      BY <2>2, <3>1 DEF Active, Resting
    <3> QED BY <2>2, <3>1, <3>2 DEF UnderWay, NamedRows
  <2> QED BY <1>2, <2>1, <2>2
<1>4. LedgerTyped'
  <2>1. take' \in {Resting} \cup Begun \cup UnderWay
    BY <1>0, <1>2, <1>3 DEF LedgerTyped
  <2> QED BY <1>0, <1>1, <2>1 DEF LedgerTyped
<1>5. DiskDated'
  <2> SUFFICES ASSUME NEW g \in MediaFiles, disk'[g] # NoFile
               PROVE  disk'[g].inode <= bodies' /\ disk'[g].time <= clock'
    BY DEF DiskDated
  <2>1. CASE g = f
    <3>1. FileTime \in Nat /\ FileTime <= clock
      BY <1>0, FileTimes DEF LedgerTyped
    <3> QED BY <1>1, <2>1, <3>1 DEF Written
  <2>2. CASE g # f
    <3>1. disk[g] # NoFile /\ disk'[g] = disk[g] /\ disk[g].inode \in Nat
      BY <1>0, <1>1, <2>2 DEF LedgerTyped, FileStates
    <3> QED BY <1>0, <1>1, <3>1 DEF DiskDated, LedgerTyped
  <2> QED BY <2>1, <2>2
<1>6. LedgerVouches'
  <2> SUFFICES ASSUME bound, NEW r \in MediaRows, names[r] # NoFile, ledger[r] # NoFile,
                      ledger[r].file = names[r], ~ledger[r].racy
               PROVE  Vouches(ledger[r].print, disk'[names[r]], bodies', clock, evidence[r], r, fleeting)
    BY <1>1 DEF LedgerVouches
  <2>1. Vouches(ledger[r].print, disk[names[r]], bodies, clock, evidence[r], r, fleeting)
    BY DEF LedgerVouches, MediaInv
  <2>2. ledger[r].print \in Prints /\ names[r] \in MediaFiles /\ clock \in Nat /\ clock <= clock
    BY <1>0 DEF LedgerTyped, Entries, Namings
  <2> QED BY <1>0, <2>1, <2>2, VouchesStill
<1>7. TakeKeeps'
  <2>1. TakeKeeps
    BY DEF MediaInv
  <2> QED BY <1>1, <1>3, <2>1 DEF TakeKeeps
<1>8. ComingsSeen'
  <2> SUFFICES ASSUME Active, NEW r \in NamedRows(take)
               PROVE  /\ take.seen[r] = NoFile /\ disk'[take.names[r]] # NoFile => take.names[r] \in take'.came
                      /\ take.seen[r] # NoFile => take.seen[r].inode <= bodies'
    BY <1>3 DEF ComingsSeen
  <2>1. /\ take.seen[r] = NoFile /\ disk[take.names[r]] # NoFile => take.names[r] \in take.came
        /\ take.seen[r] # NoFile => take.seen[r].inode <= bodies
    BY DEF ComingsSeen, MediaInv
  <2>2. r \in MediaRows /\ take.names[r] \in MediaFiles /\ take.seen[r] \in Prints
    BY <1>3 DEF NamedRows, UnderWay, Namings, MediaInv, TakeKeeps
  <2>3. ASSUME take.seen[r] = NoFile, disk'[take.names[r]] # NoFile PROVE take.names[r] \in take'.came
    <3>1. CASE disk[take.names[r]] # NoFile
      BY <1>3, <2>1, <2>3, <3>1
    <3>2. CASE disk[take.names[r]] = NoFile
      <4>1. take.names[r] = f
        BY <1>1, <2>2, <2>3, <3>2
      <4>2. take' = [take EXCEPT !.came = @ \cup {f}] /\ take \in UnderWay
        BY <1>1, <1>3, <2>3, <3>2, <4>1
      <4> QED BY <4>1, <4>2 DEF UnderWay
    <3> QED BY <3>1, <3>2
  <2>4. take.seen[r] # NoFile => take.seen[r].inode \in Nat
    BY <2>2 DEF Prints
  <2> QED BY <1>0, <1>1, <2>1, <2>3, <2>4 DEF LedgerTyped
<1>9. TakeVouches'
  <2> SUFFICES ASSUME Active, NEW r \in (NamedRows(take) \cap take.dirty) \ take.left,
                      ~Recent(take.seen[r], take.started)
               PROVE  Vouches(take.seen[r], disk'[take.names[r]], bodies', take.started, take.evidence[r],
                              take.names[r], take'.came)
    BY <1>0, <1>3, ActiveTake DEF TakeVouches, Recent
  <2>1. Vouches(take.seen[r], disk[take.names[r]], bodies, take.started, take.evidence[r], take.names[r], take.came)
    BY DEF TakeVouches, MediaInv
  <2>2. take.names[r] \in MediaFiles /\ take.seen[r] \in Prints /\ take.started \in Nat /\ take.started <= clock
    BY <1>0, <1>3, ActiveTake DEF NamedRows, UnderWay, Namings, MediaInv, TakeKeeps
  <2>3. take.came \subseteq take'.came
    BY <1>3
  <2> QED BY <1>0, <2>1, <2>2, <2>3, VouchesStill
<1>10. ReadingSound'
  <2> SUFFICES ASSUME take.at = "reading" PROVE ReadingSound'
    BY <1>1, <1>3 DEF ReadingSound, Active
  <2>1. Active /\ ReadingSound
    BY DEF Active, MediaInv
  <2>2. PICK r \in take.left \cap NamedRows(take) : r = take.row
    BY <2>1 DEF ReadingSound
  <2>3. PICK o \in FileStates : o = take.opened
    BY <2>1 DEF ReadingSound
  <2>4. PICK g \in MediaFiles : g = take.names[r]
    BY <1>3, <2>1 DEF NamedRows, UnderWay, Namings
  <2>5. PICK s \in Nat : s = take.started /\ s <= clock
    BY <1>0, <1>3, <2>1, ActiveTake DEF UnderWay, MediaInv, TakeKeeps
  <2>6. /\ o.inode <= bodies
        /\ take.seen[r] = NoFile => g \in take.came
        /\ o.time + Window < s /\ disk[g] # NoFile /\ disk[g].inode = o.inode /\ disk[g].time = o.time =>
             disk[g].body = o.body
    BY <2>1, <2>2, <2>3, <2>4, <2>5 DEF ReadingSound
  <2>7. ASSUME o.time + Window < s, disk'[g] # NoFile, disk'[g].inode = o.inode, disk'[g].time = o.time
        PROVE  disk'[g].body = o.body
    <3> DEFINE p == [inode |-> o.inode, time |-> o.time]
    <3>1. p \in [inode : Nat, time : Nat] /\ PrintOf(disk'[g]) = p /\ p.inode = o.inode /\ p.time = o.time
      BY <2>7 DEF FileStates, PrintOf
    <3> HIDE DEF p
    <3>2. Telling(p, bodies, s)
      BY <2>6, <2>7, <3>1, NoFileDiffers DEF Telling
    <3>3. disk'[g] = disk[g]
      BY <1>0, <2>5, <3>1, <3>2, NoReturn
    <3> QED BY <2>6, <2>7, <3>3
  <2>8. o.inode <= bodies'
    BY <1>0, <1>1, <2>6 DEF FileStates, LedgerTyped
  <2>9. take'.row = r /\ take'.opened = o /\ take'.names[r] = g /\ take'.started = s /\ take'.seen = take.seen
        /\ take'.left = take.left /\ NamedRows(take') = NamedRows(take) /\ take.came \subseteq take'.came
    BY <1>0, <1>3, <2>1, <2>2, <2>3, <2>4, <2>5, ActiveTake
  <2> QED BY <2>2, <2>6, <2>7, <2>8, <2>9 DEF ReadingSound
<1>11. EvidenceKept'
  <2>1. EvidenceKept
    BY DEF MediaInv
  <2> QED BY <1>1, <1>3, <2>1 DEF EvidenceKept
<1> QED BY <1>4, <1>5, <1>6, <1>7, <1>8, <1>9, <1>10, <1>11 DEF MediaInv
(* The capture **************************************************************)
LEMMA LedgerRests ==
  ASSUME MediaInv, UNCHANGED <<disk, clock, bodies, names, evidence, ledger, bound, fleeting>>
  PROVE  DiskDated' /\ LedgerVouches'
BY DEF MediaInv, DiskDated, LedgerVouches

\* With no capture under way nothing else is claimed.
LEMMA RestingKeeps ==
  ASSUME MediaInv, UNCHANGED <<disk, clock, bodies>>, take' = Resting, LedgerTyped', LedgerVouches',
         \A r \in MediaRows : evidence'[r] \in blobs' \cup {NoFile}
  PROVE  MediaInv'
<1>1. ~Active' /\ take'.at # "reading"
  BY DEF Active, Resting
<1>2. DiskDated'
  BY DEF MediaInv, DiskDated
<1> QED BY <1>1, <1>2 DEF MediaInv, TakeKeeps, ComingsSeen, TakeVouches, ReadingSound, EvidenceKept

LEMMA StopStep ==
  ASSUME MediaInv, take' = Resting, UNCHANGED <<disk, clock, bodies, names, evidence, ledger, bound, blobs, fleeting>>
  PROVE  MediaInv'
<1>1. LedgerTyped'
  BY DEF MediaInv, LedgerTyped
<1>2. LedgerVouches'
  BY LedgerRests
<1> QED BY <1>1, <1>2, RestingKeeps DEF MediaInv, EvidenceKept

LEMMA UnbindStep ==
  ASSUME MediaInv, Unbind, UNCHANGED <<disk, clock, bodies>>
  PROVE  MediaInv'
<1>1. take = Resting /\ take' = Resting /\ bound' = FALSE /\ UNCHANGED <<names, evidence, ledger, blobs, fleeting>>
  BY DEF Unbind
<1>2. LedgerTyped'
  BY <1>1 DEF MediaInv, LedgerTyped
<1>3. LedgerVouches'
  BY <1>1 DEF LedgerVouches
<1> QED BY <1>1, <1>2, <1>3, RestingKeeps DEF MediaInv, EvidenceKept

LEMMA BeginScanStep ==
  ASSUME MediaInv, BeginScan, UNCHANGED <<disk, clock, bodies>>
  PROVE  MediaInv'
<1>1. PICK after \in Namings, asked \in BOOLEAN :
        take' = [at |-> "begun", started |-> clock, names |-> after, full |-> asked \/ ~bound]
  BY DEF BeginScan, Namings
<1>2. UNCHANGED <<names, evidence, ledger, bound, blobs, fleeting>>
  BY DEF BeginScan
<1>3. clock \in Nat /\ bound \in BOOLEAN
  BY DEF MediaInv, LedgerTyped
<1>4. take' \in Begun /\ ~Active' /\ take'.at # "reading" /\ take'.started = clock /\ (~take'.full => bound)
  BY <1>1, <1>3 DEF Begun, Active
<1>5. LedgerTyped'
  BY <1>2, <1>4 DEF MediaInv, LedgerTyped
<1>6. DiskDated' /\ LedgerVouches'
  BY <1>2, LedgerRests
<1>7. TakeKeeps' /\ ComingsSeen' /\ TakeVouches' /\ ReadingSound'
  BY <1>2, <1>3, <1>4 DEF TakeKeeps, ComingsSeen, TakeVouches, ReadingSound
<1>8. EvidenceKept'
  BY <1>2, <1>4 DEF MediaInv, EvidenceKept
<1> QED BY <1>5, <1>6, <1>7, <1>8 DEF MediaInv

LEMMA ScanFilesStep ==
  ASSUME MediaInv, ScanFiles, UNCHANGED <<disk, clock, bodies>>
  PROVE  MediaInv'
<1> DEFINE seen == [r \in NamedRows(take) |-> Fingerprint(take.names[r])]
           stale == IF take.full THEN MediaRows
                    ELSE {r \in NamedRows(take) : ~Clean(r, take.names[r], seen[r])}
                         \cup {r \in MediaRows : take.names[r] # names[r]}
<1>0. LedgerTyped
  BY DEF MediaInv
<1>1. /\ take.at = "begun" /\ UNCHANGED <<names, evidence, ledger, bound, blobs, fleeting>>
      /\ take' = [at |-> "hashing", started |-> take.started, names |-> take.names, full |-> take.full,
                  seen |-> seen, dirty |-> stale, left |-> stale, evidence |-> evidence, again |-> FALSE,
                  came |-> {}, row |-> NoFile, opened |-> NoFile]
  BY DEF ScanFiles
<1>2. take \in Begun /\ take # Resting
  BY <1>0, <1>1 DEF LedgerTyped, Resting, UnderWay
<1>3. NamedRows(take) \subseteq MediaRows /\ \A r \in NamedRows(take) : take.names[r] \in MediaFiles
  BY <1>2 DEF NamedRows, Begun, Namings
<1>4. \A r \in NamedRows(take) : seen[r] = PrintOf(disk[take.names[r]]) /\ disk[take.names[r]] \in FileStates \cup {NoFile}
  BY <1>0, <1>3 DEF Fingerprint, PrintOf, LedgerTyped
<1>5. \A r \in NamedRows(take) : seen[r] \in Prints /\ (seen[r] = NoFile => disk[take.names[r]] = NoFile)
        /\ (seen[r] # NoFile => seen[r].inode = disk[take.names[r]].inode)
  BY <1>4, Printed
<1>6. seen \in UNION {[S -> Prints] : S \in SUBSET MediaRows} /\ DOMAIN seen = NamedRows(take)
  <2>1. seen \in [NamedRows(take) -> Prints]
    BY <1>5
  <2> QED BY <1>3, <2>1
<1>7. stale \subseteq MediaRows
  BY <1>3
<1>8. ~take.full => \A r \in MediaRows \ stale :
        /\ take.names[r] = names[r]
        /\ r \in NamedRows(take) => ledger[r] # NoFile
  BY <1>3 DEF Clean
<1> HIDE DEF seen, stale
<1>9. take' \in UnderWay
  BY <1>0, <1>1, <1>2, <1>6, <1>7 DEF UnderWay, Begun, LedgerTyped
<1>10. /\ take'.at = "hashing" /\ take'.started = take.started /\ take'.names = take.names /\ take'.full = take.full
       /\ take'.seen = seen /\ take'.dirty = stale /\ take'.left = stale /\ take'.evidence = evidence
       /\ NamedRows(take') = NamedRows(take) /\ Active'
  BY <1>1 DEF NamedRows, Active
<1>11. LedgerTyped'
  BY <1>0, <1>1, <1>9 DEF LedgerTyped
<1>12. DiskDated' /\ LedgerVouches'
  BY <1>1, LedgerRests
<1>13. TakeKeeps'
  <2>1. take.started <= clock /\ (~take.full => bound)
    BY <1>2 DEF MediaInv, TakeKeeps
  <2>2. take.full => stale = MediaRows
    BY DEF stale
  <2> QED BY <1>1, <1>3, <1>6, <1>8, <1>10, <2>1, <2>2 DEF TakeKeeps
<1>14. ComingsSeen'
  <2>1. \A r \in NamedRows(take) : disk[take.names[r]] # NoFile => disk[take.names[r]].inode <= bodies
    BY <1>3 DEF MediaInv, DiskDated
  <2> QED BY <1>5, <1>10, <2>1, <1>4, Printed DEF ComingsSeen
<1>15. TakeVouches' /\ ReadingSound'
  BY <1>10 DEF TakeVouches, ReadingSound
<1>16. EvidenceKept'
  BY <1>1, <1>10 DEF MediaInv, EvidenceKept
<1> QED BY <1>11, <1>12, <1>13, <1>14, <1>15, <1>16 DEF MediaInv

\* The evidence of a row is taken: it is right as far as its fingerprint tells.
LEMMA ObservedStep ==
  ASSUME MediaInv, Active, UNCHANGED <<disk, clock, bodies, names, evidence, ledger, bound, fleeting>>,
         NEW r \in take.left, NEW body \in Nat \cup {NoFile}, take' = Observed(r, body),
         blobs' \in SUBSET Nat, blobs \subseteq blobs', body \in blobs' \cup {NoFile},
         r \in NamedRows(take) /\ ~Recent(take.seen[r], take.started) =>
           Vouches(take.seen[r], disk[take.names[r]], bodies, take.started, body, take.names[r], take.came)
  PROVE  MediaInv'
<1>0. LedgerTyped /\ take \in UnderWay
  BY ActiveTake DEF MediaInv
<1>1. r \in MediaRows
  BY <1>0 DEF UnderWay
<1>2. take' = [take EXCEPT !.at = "hashing", !.left = @ \ {r}, !.evidence[r] = body, !.row = NoFile, !.opened = NoFile]
  BY DEF Observed
<1>3. /\ take' \in UnderWay /\ take'.at = "hashing" /\ take'.started = take.started /\ take'.names = take.names
      /\ take'.full = take.full /\ take'.seen = take.seen /\ take'.dirty = take.dirty /\ take'.left = take.left \ {r}
      /\ take'.evidence = [take.evidence EXCEPT ![r] = body] /\ take'.came = take.came
  <2> DEFINE kept == [take.evidence EXCEPT ![r] = body]
  <2>1. kept \in Evidences
    BY <1>0, <1>1 DEF UnderWay, Evidences
  <2>2. take' = [take EXCEPT !.at = "hashing", !.left = take.left \ {r}, !.evidence = kept,
                             !.row = NoFile, !.opened = NoFile]
    BY <1>0, <1>2 DEF UnderWay
  <2> HIDE DEF kept
  <2>3. take'.evidence = kept /\ take.left \ {r} \in SUBSET MediaRows /\ NoFile \in MediaRows \cup {NoFile}
        /\ NoFile \in FileStates \cup {NoFile} /\ "hashing" \in {"hashing", "reading"}
    BY <1>0, <2>2 DEF UnderWay
  <2> DEFINE t == [take EXCEPT !.at = "hashing", !.row = NoFile, !.opened = NoFile]
  <2>5. t \in UnderWay
    BY <1>0, <2>3 DEF UnderWay
  <2>6. take' = [t EXCEPT !.left = take.left \ {r}, !.evidence = kept]
    BY <1>0, <2>2 DEF UnderWay
  <2> HIDE DEF t
  <2>7. take' \in UnderWay
    BY <2>1, <2>3, <2>5, <2>6 DEF UnderWay
  <2>4. /\ take'.at = "hashing" /\ take'.started = take.started /\ take'.names = take.names
        /\ take'.full = take.full /\ take'.seen = take.seen /\ take'.dirty = take.dirty /\ take'.left = take.left \ {r}
        /\ take'.came = take.came
    BY <1>0, <2>2 DEF UnderWay
  <2> QED BY <2>3, <2>4, <2>7 DEF kept
<1>4. Active' /\ take' # Resting /\ take # Resting /\ NamedRows(take') = NamedRows(take)
  BY <1>0, <1>3, ActiveTake DEF Active, Resting, NamedRows
<1>5. take.evidence \in Evidences
  BY <1>0 DEF UnderWay
<1>6. r \in take.dirty
  BY DEF MediaInv, TakeKeeps
<1>7. LedgerTyped'
  BY <1>0, <1>3 DEF LedgerTyped
<1>8. DiskDated' /\ LedgerVouches'
  BY LedgerRests
<1>9. TakeKeeps'
  <2>1. \A q \in MediaRows \ take.dirty : take'.evidence[q] = take.evidence[q]
    BY <1>3, <1>5, <1>6 DEF Evidences
  <2> QED BY <1>3, <1>4, <2>1 DEF MediaInv, TakeKeeps
<1>10. ComingsSeen'
  BY <1>3, <1>4 DEF MediaInv, ComingsSeen
<1>11. TakeVouches'
  <2> SUFFICES ASSUME NEW q \in (NamedRows(take) \cap take.dirty) \ (take.left \ {r}),
                      ~Recent(take.seen[q], take.started)
               PROVE  Vouches(take.seen[q], disk[take.names[q]], bodies, take.started, take'.evidence[q],
                              take.names[q], take.came)
    BY <1>3, <1>4 DEF TakeVouches, Recent
  <2>1. CASE q = r
    BY <1>1, <1>3, <1>5, <2>1 DEF Evidences
  <2>2. CASE q # r
    <3>1. take'.evidence[q] = take.evidence[q]
      BY <1>3, <1>5, <2>2 DEF Evidences, NamedRows
    <3> QED BY <2>2, <3>1 DEF MediaInv, TakeVouches
  <2> QED BY <2>1, <2>2
<1>12. ReadingSound'
  BY <1>3 DEF ReadingSound
<1>13. EvidenceKept'
  <2>1. \A q \in MediaRows : take'.evidence[q] = take.evidence[q] \/ take'.evidence[q] = body
    BY <1>3, <1>5 DEF Evidences
  <2> QED BY <1>3, <2>1 DEF MediaInv, EvidenceKept
<1> QED BY <1>7, <1>8, <1>9, <1>10, <1>11, <1>12, <1>13 DEF MediaInv

LEMMA AbsentStep ==
  ASSUME MediaInv, NEW r \in MediaRows, Absent(r), UNCHANGED <<disk, clock, bodies>>
  PROVE  MediaInv'
<1>1. /\ Active /\ r \in take.left /\ take' = Observed(r, NoFile)
      /\ UNCHANGED <<names, evidence, ledger, bound, blobs, fleeting>>
      /\ r \in NamedRows(take) => disk[take.names[r]] = NoFile
  BY DEF Absent, Active
<1>2. ASSUME r \in NamedRows(take), ~Recent(take.seen[r], take.started)
      PROVE  Vouches(take.seen[r], disk[take.names[r]], bodies, take.started, NoFile, take.names[r], take.came)
  <2>1. PrintOf(disk[take.names[r]]) = NoFile
    BY <1>1, <1>2 DEF PrintOf
  <2>2. take.seen[r] # NoFile => Telling(take.seen[r], bodies, take.started)
    <3>1. take \in UnderWay /\ take.seen[r] \in Prints /\ take.started \in Nat
      BY <1>1, <1>2, ActiveTake DEF MediaInv, TakeKeeps, UnderWay
    <3>2. take.seen[r] # NoFile => take.seen[r].inode <= bodies
      BY <1>1, <1>2 DEF MediaInv, ComingsSeen
    <3> QED BY <1>2, <3>1, <3>2, Grains DEF Telling, Recent, Prints
  <2> QED BY <2>1, <2>2 DEF Vouches
<1>3. blobs' \in SUBSET Nat
  BY <1>1 DEF MediaInv, LedgerTyped
<1> QED BY <1>1, <1>2, <1>3, ObservedStep

LEMMA OpenMediaStep ==
  ASSUME MediaInv, NEW r \in MediaRows, OpenMedia(r), UNCHANGED <<disk, clock, bodies>>
  PROVE  MediaInv'
<1>1. /\ take.at = "hashing" /\ r \in take.left \cap NamedRows(take) /\ disk[take.names[r]] # NoFile
      /\ take' = [take EXCEPT !.at = "reading", !.row = r, !.opened = disk[take.names[r]]]
      /\ UNCHANGED <<names, evidence, ledger, bound, blobs, fleeting>>
  BY DEF OpenMedia
<1>2. Active /\ LedgerTyped
  BY <1>1 DEF Active, MediaInv
<1>3. take \in UnderWay /\ take # Resting
  BY <1>2, ActiveTake
<1>4. take.names[r] \in MediaFiles /\ disk[take.names[r]] \in FileStates
  BY <1>1, <1>2, <1>3 DEF UnderWay, Namings, NamedRows, LedgerTyped
<1>5. /\ take' \in UnderWay /\ take'.at = "reading" /\ take'.started = take.started /\ take'.names = take.names
      /\ take'.full = take.full /\ take'.seen = take.seen /\ take'.dirty = take.dirty /\ take'.left = take.left
      /\ take'.evidence = take.evidence /\ take'.came = take.came
      /\ take'.row = r /\ take'.opened = disk[take.names[r]]
  BY <1>1, <1>3, <1>4 DEF UnderWay
<1>6. Active' /\ take' # Resting /\ NamedRows(take') = NamedRows(take)
  BY <1>5 DEF Active, Resting, NamedRows
<1>7. LedgerTyped'
  BY <1>1, <1>2, <1>5 DEF LedgerTyped
<1>8. DiskDated' /\ LedgerVouches'
  BY <1>1, LedgerRests
<1>9. TakeKeeps' /\ ComingsSeen'
  BY <1>1, <1>2, <1>3, <1>5, <1>6 DEF MediaInv, TakeKeeps, ComingsSeen
<1>10. TakeVouches'
  BY <1>1, <1>2, <1>5, <1>6 DEF MediaInv, TakeVouches, Recent
<1>11. ReadingSound'
  <2>1. disk[take.names[r]].inode <= bodies
    BY <1>1, <1>4 DEF MediaInv, DiskDated
  <2>2. take.seen[r] = NoFile => take.names[r] \in take.came
    BY <1>1, <1>2 DEF MediaInv, ComingsSeen
  <2> QED BY <1>1, <1>4, <1>5, <1>6, <2>1, <2>2 DEF ReadingSound
<1>12. EvidenceKept'
  BY <1>1, <1>2, <1>5, <1>6 DEF MediaInv, EvidenceKept
<1> QED BY <1>7, <1>8, <1>9, <1>10, <1>11, <1>12 DEF MediaInv
LEMMA PublishBlobStep ==
  ASSUME MediaInv, PublishBlob, UNCHANGED <<disk, clock, bodies>>
  PROVE  MediaInv'
<1> DEFINE now == disk[take.names[take.row]]
           same == now # NoFile /\ now.inode = take.opened.inode /\ now.time = take.opened.time
           read == IF same /\ now.body # take.opened.body THEN {take.opened.body, now.body, Torn}
                   ELSE {take.opened.body}
<1>1. /\ take.at = "reading" /\ Active /\ UNCHANGED <<names, evidence, ledger, bound, fleeting>>
      /\ IF ~same THEN take' = Resting /\ UNCHANGED blobs
         ELSE \E body \in read : take' = Observed(take.row, body) /\ blobs' = blobs \cup {body}
  BY DEF PublishBlob, Active, StopScan
<1>2. CASE ~same
  BY <1>1, <1>2, StopStep
<1>3. CASE same
  <2>1. PICK body \in read : take' = Observed(take.row, body) /\ blobs' = blobs \cup {body}
    BY <1>1, <1>3
  <2>2. ReadingSound /\ LedgerTyped /\ take \in UnderWay
    BY <1>1, ActiveTake DEF MediaInv
  <2>3. PICK r \in take.left \cap NamedRows(take) : r = take.row
    BY <1>1, <2>2 DEF ReadingSound
  <2>4. PICK g \in MediaFiles : g = take.names[r]
    BY <2>2, <2>3 DEF UnderWay, Namings, NamedRows
  <2>5. disk[g] \in FileStates /\ take.opened \in FileStates /\ now = disk[g]
    BY <1>1, <1>3, <2>2, <2>3, <2>4 DEF ReadingSound, LedgerTyped
  <2>6. body \in Nat
    BY <2>1, <2>5 DEF FileStates, Torn
  <2>7. ASSUME ~Recent(take.seen[r], take.started)
        PROVE  Vouches(take.seen[r], disk[g], bodies, take.started, body, g, take.came)
    <3>1. take.seen[r] = NoFile => g \in take.came
      BY <1>1, <2>2, <2>3, <2>4 DEF ReadingSound
    <3>2. ASSUME take.seen[r] # NoFile
          PROVE  Telling(take.seen[r], bodies, take.started) /\ (PrintOf(disk[g]) = take.seen[r] => body = disk[g].body)
      <4>1. take.seen[r] \in Prints /\ take.started \in Nat /\ take.seen[r].inode <= bodies
        BY <1>1, <2>2, <2>3, <3>2 DEF MediaInv, TakeKeeps, UnderWay, ComingsSeen
      <4>2. take.seen[r].time + Window < take.started
        BY <2>7, <3>2, <4>1, Grains DEF Recent, Prints
      <4>3. ASSUME PrintOf(disk[g]) = take.seen[r] PROVE body = disk[g].body
        <5>1. disk[g].time = take.seen[r].time
          BY <2>5, <4>3, Printed, NoFileDiffers
        <5>2. disk[g].body = take.opened.body
          BY <1>1, <1>3, <2>2, <2>3, <2>4, <2>5, <4>2, <5>1 DEF ReadingSound
        <5> QED BY <2>1, <2>5, <5>2
      <4> QED BY <3>2, <4>1, <4>2, <4>3 DEF Telling
    <3> QED BY <3>1, <3>2 DEF Vouches
  <2>8. blobs' \in SUBSET Nat /\ blobs \subseteq blobs' /\ body \in blobs' \cup {NoFile}
    BY <2>1, <2>2, <2>6 DEF LedgerTyped
  <2> QED BY <1>1, <2>1, <2>3, <2>4, <2>6, <2>7, <2>8, ObservedStep
<1> QED BY <1>2, <1>3

LEMMA VerifyBlobsStep ==
  ASSUME MediaInv, VerifyBlobs, UNCHANGED <<disk, clock, bodies>>
  PROVE  MediaInv'
<1> DEFINE captured == IF take.full THEN NamedRows(take) ELSE take.dirty \cap NamedRows(take)
           moved == {r \in captured : Fingerprint(take.names[r]) # take.seen[r]}
           entry == [r \in captured |-> [file |-> take.names[r], print |-> take.seen[r],
                                         racy |-> Recent(take.seen[r], take.started)]]
           again == [r \in NamedRows(take) |-> IF r \in moved THEN Fingerprint(take.names[r]) ELSE take.seen[r]]
<1>0. take.at = "hashing" /\ take.left = {} /\ Active /\ LedgerTyped /\ blobs' = blobs
  BY DEF VerifyBlobs, Active, MediaInv
<1>1. take \in UnderWay /\ take # Resting
  BY <1>0, ActiveTake
<1>2. \A r \in NamedRows(take) :
        /\ r \in MediaRows /\ take.names[r] \in MediaFiles /\ take.seen[r] \in Prints
        /\ disk[take.names[r]] \in FileStates \cup {NoFile}
        /\ Fingerprint(take.names[r]) = PrintOf(disk[take.names[r]])
  BY <1>0, <1>1 DEF UnderWay, Namings, NamedRows, LedgerTyped, MediaInv, TakeKeeps, Fingerprint, PrintOf
<1>3. captured \subseteq take.dirty /\ captured \subseteq NamedRows(take)
  BY <1>0, <1>2 DEF MediaInv, TakeKeeps
<1>4. CASE moved = {}
  <2>1. /\ ledger' = [r \in MediaRows |-> IF r \in captured THEN entry[r]
                                          ELSE IF r \in NamedRows(take) THEN ledger[r] ELSE NoFile]
        /\ names' = take.names /\ evidence' = take.evidence /\ bound' = TRUE /\ take' = Resting
        /\ fleeting' = (fleeting \ captured) \cup {r \in captured : take.names[r] \in take.came}
    BY <1>4 DEF VerifyBlobs
  <2>2. \A r \in captured : entry[r] = [file |-> take.names[r], print |-> take.seen[r],
                                        racy |-> Recent(take.seen[r], take.started)]
    OBVIOUS
  <2>3. \A r \in captured : Fingerprint(take.names[r]) = take.seen[r]
    BY <1>4
  <2> HIDE DEF captured, entry, moved
  <2>4. \A r \in captured : entry[r] \in Entries
    <3> SUFFICES ASSUME NEW r \in captured PROVE entry[r] \in Entries
      OBVIOUS
    <3>1. PICK b \in BOOLEAN : b = Recent(take.seen[r], take.started)
      BY Zenon DEF Recent
    <3>2. entry[r] = [file |-> take.names[r], print |-> take.seen[r], racy |-> b]
      BY <2>2, <3>1, Zenon
    <3> QED BY <1>2, <1>3, <3>2 DEF Entries
  <2>5. ledger' \in [MediaRows -> Entries \cup {NoFile}]
    <3>1. \A r \in MediaRows : ledger[r] \in Entries \cup {NoFile}
      BY <1>0 DEF LedgerTyped
    <3> QED BY <2>1, <2>4, <3>1
  <2>6. LedgerTyped'
    <3>1. fleeting' \in SUBSET MediaRows
      BY <1>0, <1>2, <1>3, <2>1 DEF LedgerTyped
    <3> QED BY <1>0, <1>1, <2>1, <2>5, <3>1 DEF LedgerTyped, UnderWay
  <2>7. LedgerVouches'
    <3> SUFFICES ASSUME NEW r \in MediaRows, names'[r] # NoFile, ledger'[r] # NoFile,
                        ledger'[r].file = names'[r], ~ledger'[r].racy
                 PROVE  Vouches(ledger'[r].print, disk[names'[r]], bodies, clock, evidence'[r], r, fleeting')
      BY DEF LedgerVouches
    <3>1. r \in NamedRows(take)
      BY <2>1 DEF NamedRows
    <3>2. CASE r \in captured
      <4>1. ledger'[r].print = take.seen[r] /\ ~Recent(take.seen[r], take.started)
        <5>1. ledger'[r] = entry[r]
          BY <2>1, <3>2
        <5>2. PICK b \in BOOLEAN : b = Recent(take.seen[r], take.started)
          BY Zenon DEF Recent
        <5>3. entry[r] = [file |-> take.names[r], print |-> take.seen[r], racy |-> b]
          BY <2>2, <3>2, <5>2, Zenon
        <5>4. ledger'[r].print = take.seen[r] /\ ledger'[r].racy = b
          BY <5>1, <5>3
        <5>5. ~b
          BY <5>4
        <5> QED BY <5>2, <5>4, <5>5, Zenon
      <4>2. Vouches(take.seen[r], disk[take.names[r]], bodies, take.started, take.evidence[r], take.names[r], take.came)
        BY <1>0, <1>3, <3>1, <3>2, <4>1 DEF MediaInv, TakeVouches
      <4>3. take.seen[r] # NoFile => Telling(take.seen[r], bodies, clock)
        <5>1. take.started <= clock /\ take.started \in Nat /\ clock \in Nat
          BY <1>0, <1>1 DEF MediaInv, TakeKeeps, UnderWay, LedgerTyped
        <5>2. take.seen[r] # NoFile => take.seen[r].time \in Nat
          BY <1>2, <3>1 DEF Prints
        <5> QED BY <4>2, <5>1, <5>2, Grains DEF Vouches, Telling
      <4>4. take.names[r] \in take.came => r \in fleeting'
        BY <2>1, <3>2
      <4> QED BY <2>1, <4>1, <4>2, <4>3, <4>4 DEF Vouches
    <3>3. CASE r \notin captured
      <4>1. ledger'[r] = ledger[r] /\ (r \in fleeting' <=> r \in fleeting)
        BY <2>1, <3>1, <3>3
      <4>2. r \notin take.dirty /\ ~take.full
        BY <3>1, <3>3 DEF captured
      <4>3. take.evidence[r] = evidence[r] /\ take.names[r] = names[r] /\ bound
        BY <1>0, <1>1, <4>2 DEF MediaInv, TakeKeeps
      <4>4. Vouches(ledger[r].print, disk[names[r]], bodies, clock, evidence[r], r, fleeting)
        BY <2>1, <4>1, <4>3 DEF MediaInv, LedgerVouches
      <4> QED BY <2>1, <4>1, <4>3, <4>4 DEF Vouches
    <3> QED BY <3>2, <3>3
  <2>8. \A r \in MediaRows : evidence'[r] \in blobs' \cup {NoFile}
    BY <1>0, <2>1 DEF MediaInv, EvidenceKept
  <2> QED BY <2>1, <2>6, <2>7, <2>8, RestingKeeps
<1>5. CASE moved # {}
  <2>1. /\ take' = IF take.again THEN Resting
                   ELSE [take EXCEPT !.again = TRUE, !.left = take.dirty, !.evidence = evidence, !.seen = again]
        /\ UNCHANGED <<ledger, names, evidence, bound, fleeting>>
    BY <1>1, <1>5 DEF VerifyBlobs, UnderWay
  <2>2. CASE take.again
    BY <1>0, <2>1, <2>2, StopStep
  <2>3. CASE ~take.again
    <3>1. \A r \in NamedRows(take) : /\ again[r] \in Prints
                                     /\ again[r] = take.seen[r] \/ again[r] = PrintOf(disk[take.names[r]])
      <4>1. \A r \in NamedRows(take) : PrintOf(disk[take.names[r]]) \in Prints
        BY <1>2, Printed
      <4> QED BY <1>2, <4>1
    <3>2. again \in UNION {[S -> Prints] : S \in SUBSET MediaRows} /\ DOMAIN again = NamedRows(take)
      <4>1. again \in [NamedRows(take) -> Prints]
        BY <3>1
      <4>2. NamedRows(take) \subseteq MediaRows
        BY <1>2
      <4> QED BY <4>1, <4>2
    <3> HIDE DEF again
    <3>3. take' = [take EXCEPT !.again = TRUE, !.left = take.dirty, !.evidence = evidence, !.seen = again]
      BY <2>1, <2>3
    <3>4. /\ take' \in UnderWay /\ take'.at = "hashing" /\ take'.started = take.started /\ take'.names = take.names
          /\ take'.full = take.full /\ take'.seen = again /\ take'.dirty = take.dirty /\ take'.left = take.dirty
          /\ take'.evidence = evidence /\ take'.came = take.came
      BY <1>0, <1>1, <3>2, <3>3 DEF UnderWay, LedgerTyped
    <3>5. Active' /\ take' # Resting /\ NamedRows(take') = NamedRows(take)
      BY <3>4 DEF Active, Resting, NamedRows
    <3>6. LedgerTyped'
      BY <1>0, <2>1, <3>4 DEF LedgerTyped
    <3>7. DiskDated' /\ LedgerVouches'
      BY <2>1, LedgerRests
    <3>8. TakeKeeps'
      BY <1>0, <1>1, <2>1, <3>2, <3>4, <3>5 DEF MediaInv, TakeKeeps
    <3>9. ComingsSeen'
      <4> SUFFICES ASSUME NEW r \in NamedRows(take)
                   PROVE  /\ again[r] = NoFile /\ disk[take.names[r]] # NoFile => take.names[r] \in take.came
                          /\ again[r] # NoFile => again[r].inode <= bodies
        BY <3>4, <3>5 DEF ComingsSeen
      <4>1. CASE again[r] = take.seen[r]
        BY <1>0, <4>1 DEF MediaInv, ComingsSeen
      <4>2. CASE again[r] = PrintOf(disk[take.names[r]])
        <5>1. disk[take.names[r]] # NoFile => disk[take.names[r]].inode <= bodies
          BY <1>2 DEF MediaInv, DiskDated
        <5> QED BY <1>2, <4>2, <5>1, Printed
      <4> QED BY <3>1, <4>1, <4>2
    <3>10. TakeVouches' /\ ReadingSound'
      BY <3>4, <3>5 DEF TakeVouches, ReadingSound
    <3>11. EvidenceKept'
      BY <1>0, <2>1, <3>4 DEF MediaInv, EvidenceKept
    <3> QED BY <3>6, <3>7, <3>8, <3>9, <3>10, <3>11 DEF MediaInv
  <2> QED BY <2>2, <2>3
<1> QED BY <1>4, <1>5

\* The invariant that ledger and capture keep (media_ledger.py, prepare).
THEOREM LedgerInvariance == LedgerSpec => []MediaInv
<1>1. MediaInv /\ [LedgerNext]_ledgerVars => MediaInv'
  <2> SUFFICES ASSUME MediaInv, [LedgerNext]_ledgerVars PROVE MediaInv'
    OBVIOUS
  <2>1. CASE (Tick \/ \E f \in MediaFiles : ChangeFile(f)) /\ UNCHANGED <<names, evidence, ledger, bound, blobs, fleeting>>
    BY <2>1, TickStep, ChangeStep
  <2>2. CASE /\ \/ BeginScan \/ ScanFiles \/ PublishBlob \/ VerifyBlobs \/ Abandon \/ Unbind
                \/ \E r \in MediaRows : Absent(r) \/ OpenMedia(r)
             /\ UNCHANGED <<disk, clock, bodies>>
    <3>1. Abandon => take' = Resting /\ UNCHANGED <<names, evidence, ledger, bound, blobs, fleeting>>
      BY DEF Abandon, StopScan
    <3> QED BY <2>2, <3>1, BeginScanStep, ScanFilesStep, PublishBlobStep, VerifyBlobsStep, StopStep, UnbindStep,
               AbsentStep, OpenMediaStep
  <2>3. CASE UNCHANGED ledgerVars
    BY <2>3 DEF ledgerVars, MediaInv, LedgerTyped, DiskDated, LedgerVouches, TakeKeeps, ComingsSeen, TakeVouches,
                ReadingSound, EvidenceKept, Active
  <2> QED BY <2>1, <2>2, <2>3 DEF LedgerNext
<1> QED BY <1>1, LedgerStarts, PTL DEF LedgerSpec

\* A row that would not be read again says what its file holds, and what evidence names is
\* kept: whatever is written, replaced or removed, before, while and after it is read, under
\* a clock of any grain up to the racy window (media_ledger.py, prepare and recent).
THEOREM LedgerIsSound == LedgerSpec => []LedgerSound
<1>1. MediaInv => LedgerSound
  <2> SUFFICES ASSUME MediaInv PROVE LedgerSound
    OBVIOUS
  <2>1. ASSUME bound, NEW r \in MediaRows, names[r] # NoFile, Clean(r, names[r], Fingerprint(names[r]))
        PROVE  IF disk[names[r]] = NoFile THEN evidence[r] = NoFile \/ r \in fleeting
               ELSE evidence[r] = disk[names[r]].body
    <3>1. names[r] \in MediaFiles
      BY <2>1 DEF MediaInv, LedgerTyped, Namings
    <3>2. disk[names[r]] \in FileStates \cup {NoFile}
      BY <3>1 DEF MediaInv, LedgerTyped
    <3>3. Fingerprint(names[r]) = PrintOf(disk[names[r]])
      BY DEF Fingerprint, PrintOf
    <3>4. Vouches(ledger[r].print, disk[names[r]], bodies, clock, evidence[r], r, fleeting)
          /\ ledger[r].print = PrintOf(disk[names[r]])
      BY <2>1, <3>3 DEF MediaInv, LedgerVouches, Clean
    <3> QED BY <3>2, <3>4, Printed DEF Vouches
  <2> QED BY <2>1 DEF LedgerSound, MediaInv, EvidenceKept
<1> QED BY <1>1, LedgerInvariance, PTL

(* Monthly archives *********************************************************)
Buckets  == UNION {[S -> [content : Nat, known : SUBSET Nat]] : S \in SUBSET Messages}
Archives == [by : Exporters, sound : BOOLEAN, month : Months, bucket : Buckets, at : Nat,
             revision : Nat, lineage : Seq(Nat)]
Plans    == [month : Months, bucket : Buckets]
Exports  == [at : {"collect", "verify"}, force : BOOLEAN, months : SUBSET Months, plans : Seq(Plans),
             export : Nat, quiet : BOOLEAN]
Holdings == [month : Months \cup {Purged}, content : Nat, known : SUBSET Nat]
Targets  == [records : [Messages -> [content : Nat, retiredBy : Nat, at : Nat]],
             imports : [Months -> Seq(Nat)], branches : SUBSET Nat, accepted : SUBSET Nat]

ArchivesTyped ==
  /\ writes \in Nat /\ opened \in SUBSET Exporters
  /\ held \in [Exporters -> [Messages -> Holdings]]
  /\ exports \in [Exporters -> [Months -> Seq(Nat)]]
  /\ folder \in [Exporters -> SUBSET (1 .. Len(archives))]
  /\ archives \in Seq(Archives)
  /\ exporting \in [Exporters -> Exports \cup {NotExporting}]
  /\ target \in Targets /\ importing \in [Importers -> Nat]

\* A cache that is not there yet has nothing.
Unopened ==
  /\ FirstExporter \in opened
  /\ \A c \in Exporters \ opened : folder[c] = {} /\ exporting[c] = NotExporting

\* The file name tells month and revision.
NamesDiffer ==
  \A c \in Exporters : \A x, y \in folder[c] :
    archives[x].month = archives[y].month /\ archives[x].revision = archives[y].revision => x = y

\* Archive id of c, a, beside the exports rows E of its month: it continues them, or is one of them.
Continues(a, id, c, E) ==
  /\ a.by = c /\ a.revision = Len(a.lineage) /\ a.revision \in 1 .. Len(E) + 1
  /\ a.lineage[a.revision] = id /\ \A k \in 1 .. a.revision - 1 : a.lineage[k] = E[k]
  /\ a.revision <= Len(E) => E[a.revision] = id

FilesContinue ==
  \A c \in Exporters : \A id \in folder[c] :
    Continues(archives[id], id, c, exports[c][archives[id].month])

Sound(id, F, A) == \E c \in Exporters : id \in F[c] /\ A[id].sound

\* What is recorded or imported was verified, so that no failed verification removes it.
RecordedSound ==
  \A c \in Exporters, m \in Months : \A k \in 1 .. Len(exports[c][m]) : Sound(exports[c][m][k], folder, archives)
ImportedSound ==
  /\ \A m \in Months : \A k \in 1 .. Len(target.imports[m]) : Sound(target.imports[m][k], folder, archives)
  /\ \A i \in Importers : importing[i] # 0 => Sound(importing[i], folder, archives)

\* The file being verified is the next of its month.
IsNext(job, F, A, X) ==
  /\ job.export \in F /\ job.plans # <<>>
  /\ A[job.export].revision = Len(X[A[job.export].month]) + 1

VerifiesNext ==
  \A c \in Exporters : exporting[c].at = "verify" => IsNext(exporting[c], folder[c], archives, exports[c])

LineageInv ==
  /\ ArchivesTyped /\ Unopened /\ NamesDiffer /\ FilesContinue
  /\ RecordedSound /\ ImportedSound /\ VerifiesNext

LEMMA UnderExport ==
  ASSUME ArchivesTyped, NEW c \in Exporters, exporting[c].at \in {"collect", "verify"}
  PROVE  exporting[c] \in Exports
BY DEF ArchivesTyped, NotExporting

LEMMA ExportsDiffer == \A job \in Exports : job # NotExporting
BY DEF Exports, NotExporting

LEMMA Bucketed ==
  ASSUME ArchivesTyped, NEW c \in Exporters, NEW m
  PROVE  Bucket(c, m) \in Buckets
<1> DEFINE S == {v \in Messages : held[c][v].month = m}
<1>1. \A u \in S : [content |-> held[c][u].content, known |-> held[c][u].known] \in [content : Nat, known : SUBSET Nat]
  BY DEF ArchivesTyped, Holdings
<1>2. [u \in S |-> [content |-> held[c][u].content, known |-> held[c][u].known]]
        \in [S -> [content : Nat, known : SUBSET Nat]]
  BY <1>1
<1>3. S \in SUBSET Messages
  OBVIOUS
<1> QED BY <1>2, <1>3 DEF Bucket, Buckets

LEMMA ArchiveStarts ==
  ASSUME ArchiveInit PROVE LineageInv
<1>1. FirstExporter \in Exporters
  BY MonthlyArchiveAssumption
<1>2. held \in [Exporters -> [Messages -> Holdings]]
  BY DEF ArchiveInit, Holdings, NotHeld
<1>3. target \in Targets /\ target.imports = [m \in Months |-> <<>>]
  BY DEF ArchiveInit, Targets, NoRecord
<1>4. exports \in [Exporters -> [Months -> Seq(Nat)]] /\ archives \in Seq(Archives)
  BY DEF ArchiveInit
<1>5. folder \in [Exporters -> SUBSET (1 .. Len(archives))]
  BY DEF ArchiveInit
<1>6. exporting \in [Exporters -> Exports \cup {NotExporting}] /\ importing \in [Importers -> Nat]
  BY DEF ArchiveInit
<1>7. ArchivesTyped
  BY <1>1, <1>2, <1>3, <1>4, <1>5, <1>6 DEF ArchiveInit, ArchivesTyped
<1>8. Unopened /\ NamesDiffer /\ FilesContinue /\ VerifiesNext
  BY <1>1 DEF ArchiveInit, Unopened, NamesDiffer, FilesContinue, VerifiesNext, NotExporting
<1>9. RecordedSound /\ ImportedSound
  BY <1>3 DEF ArchiveInit, RecordedSound, ImportedSound
<1> QED BY <1>7, <1>8, <1>9 DEF LineageInv

\* A step that only goes on with exports, or changes what is held.
LEMMA FilesRest ==
  ASSUME LineageInv, ArchivesTyped', UNCHANGED <<opened, exports, folder, archives, target, importing>>,
         \A c \in Exporters :
           \/ exporting'[c] = exporting[c]
           \/ /\ c \in opened
              /\ exporting'[c].at = "verify" =>
                   /\ exporting[c].at = "verify"
                   /\ exporting'[c].export = exporting[c].export /\ exporting'[c].plans = exporting[c].plans
  PROVE  LineageInv'
<1>1. Unopened' /\ NamesDiffer' /\ FilesContinue' /\ RecordedSound' /\ ImportedSound'
  BY DEF LineageInv, Unopened, NamesDiffer, FilesContinue, RecordedSound, ImportedSound, Sound
<1>2. VerifiesNext'
  <2> SUFFICES ASSUME NEW c \in Exporters, exporting'[c].at = "verify"
               PROVE  IsNext(exporting'[c], folder[c], archives, exports[c])
    BY DEF VerifiesNext
  <2>1. /\ exporting[c].at = "verify"
        /\ exporting'[c].export = exporting[c].export /\ exporting'[c].plans = exporting[c].plans
    OBVIOUS
  <2>2. IsNext(exporting[c], folder[c], archives, exports[c])
    BY <2>1 DEF LineageInv, VerifiesNext
  <2> QED BY <2>1, <2>2 DEF IsNext
<1> QED BY <1>1, <1>2 DEF LineageInv

LEMMA ChangeMessageStep ==
  ASSUME LineageInv, NEW c \in opened, NEW u \in Messages, NEW new \in Holdings, ChangeMessage(c, u, new)
  PROVE  LineageInv'
<1>1. c \in Exporters /\ ArchivesTyped
  BY DEF LineageInv, ArchivesTyped
<1>2. exporting[c] # NotExporting =>
        /\ [exporting[c] EXCEPT !.quiet = FALSE] \in Exports
        /\ [exporting[c] EXCEPT !.quiet = FALSE].at = exporting[c].at
        /\ [exporting[c] EXCEPT !.quiet = FALSE].export = exporting[c].export
        /\ [exporting[c] EXCEPT !.quiet = FALSE].plans = exporting[c].plans
  BY <1>1 DEF ArchivesTyped, Exports
<1>3. /\ exporting' \in [Exporters -> Exports \cup {NotExporting}]
      /\ \A d \in Exporters : d # c => exporting'[d] = exporting[d]
      /\ exporting'[c] = IF exporting[c] = NotExporting THEN NotExporting ELSE [exporting[c] EXCEPT !.quiet = FALSE]
  BY <1>1, <1>2 DEF ArchivesTyped, ChangeMessage
<1>4. held' \in [Exporters -> [Messages -> Holdings]] /\ writes' \in Nat
  BY <1>1 DEF ArchivesTyped, ChangeMessage
<1>5. ArchivesTyped'
  BY <1>1, <1>3, <1>4 DEF ArchivesTyped, ChangeMessage, ToExport
<1>6. NotExporting.at # "verify"
  BY DEF NotExporting
<1> QED BY <1>2, <1>3, <1>5, <1>6, FilesRest DEF ChangeMessage, ToExport

LEMMA WriteStep ==
  ASSUME LineageInv, NEW c \in opened, NEW u \in Messages,
         (\E m \in Months : WriteMessage(c, u, m)) \/ PurgeMessage(c, u)
  PROVE  LineageInv'
<1>1. c \in Exporters /\ held[c][u].known \in SUBSET Nat /\ writes + 1 \in Nat
  BY DEF LineageInv, ArchivesTyped, Holdings
<1>2. NotHeld \in Holdings
  BY DEF NotHeld, Holdings
<1>3. \A m \in Months :
        [month |-> m, content |-> writes + 1, known |-> held[c][u].known \cup {writes + 1}] \in Holdings
  BY <1>1 DEF Holdings
<1> QED BY <1>2, <1>3, ChangeMessageStep DEF WriteMessage, PurgeMessage

\* An export that goes on without a file.
LEMMA GoesStep ==
  ASSUME LineageInv, NEW c \in opened, NEW job \in Exports \cup {NotExporting},
         job = NotExporting \/ job.at = "collect", Goes(c, job), UNCHANGED <<writes, held>>, ToExport
  PROVE  LineageInv'
<1>1. c \in Exporters /\ ArchivesTyped
  BY DEF LineageInv, ArchivesTyped
<1>2. /\ exporting' \in [Exporters -> Exports \cup {NotExporting}] /\ exporting'[c] = job
      /\ \A d \in Exporters : d # c => exporting'[d] = exporting[d]
  BY <1>1 DEF Goes, ArchivesTyped
<1>3. ArchivesTyped'
  BY <1>1, <1>2 DEF ArchivesTyped, ToExport
<1>4. NotExporting.at # "verify"
  BY DEF NotExporting
<1> QED BY <1>2, <1>3, <1>4, FilesRest DEF ToExport

LEMMA ExportGoesOn ==
  ASSUME LineageInv, NEW c \in opened, StartExport(c) \/ CollectBucket(c) \/ SkipBucket(c) \/ EndExport(c)
  PROVE  LineageInv'
<1>1. c \in Exporters /\ ArchivesTyped
  BY DEF LineageInv, ArchivesTyped
<1>2. CASE StartExport(c)
  <2>1. PICK force \in Forces : exporting' = [exporting EXCEPT ![c] = Started(force, Planned(c))]
    BY <1>2 DEF StartExport
  <2>2. Planned(c) \in SUBSET Months /\ force \in BOOLEAN
    BY MonthlyArchiveAssumption DEF Planned
  <2>3. Started(force, Planned(c)) \in Exports /\ Started(force, Planned(c)).at = "collect"
    BY <2>2 DEF Started, Exports
  <2> QED BY <1>2, <2>1, <2>3, GoesStep DEF StartExport, Goes
<1>3. CASE CollectBucket(c)
  <2>1. PICK m \in exporting[c].months :
          Goes(c, [exporting[c] EXCEPT !.months = @ \ {m}, !.plans = Append(@, [month |-> m, bucket |-> Bucket(c, m)])])
    BY <1>3 DEF CollectBucket
  <2>2. exporting[c] \in Exports /\ exporting[c].at = "collect"
    BY <1>1, <1>3, UnderExport DEF CollectBucket
  <2>3. [month |-> m, bucket |-> Bucket(c, m)] \in Plans
    BY <1>1, <2>2, Bucketed DEF Plans, Exports
  <2> DEFINE job == [exporting[c] EXCEPT !.months = @ \ {m}, !.plans = Append(@, [month |-> m, bucket |-> Bucket(c, m)])]
  <2>4. job \in Exports /\ job.at = "collect"
    <3>1. /\ exporting[c].months \ {m} \in SUBSET Months
          /\ Append(exporting[c].plans, [month |-> m, bucket |-> Bucket(c, m)]) \in Seq(Plans)
      BY <2>2, <2>3 DEF Exports
    <3> QED BY <2>2, <3>1 DEF Exports
  <2> QED BY <1>3, <2>1, <2>4, GoesStep DEF CollectBucket
<1>4. CASE SkipBucket(c)
  <2>1. exporting[c] \in Exports /\ exporting[c].at = "collect" /\ exporting[c].plans # <<>>
    BY <1>1, <1>4, UnderExport DEF SkipBucket
  <2> DEFINE job == [exporting[c] EXCEPT !.plans = Tail(@)]
  <2>2. job \in Exports /\ job.at = "collect"
    <3>1. Tail(exporting[c].plans) \in Seq(Plans)
      BY <2>1 DEF Exports
    <3> QED BY <2>1, <3>1 DEF Exports
  <2> QED BY <1>4, <2>2, GoesStep DEF SkipBucket
<1>5. CASE EndExport(c)
  BY <1>5, GoesStep DEF EndExport
<1> QED BY <1>2, <1>3, <1>4, <1>5

LEMMA CopyStep ==
  ASSUME LineageInv, NEW c \in Exporters, Copy(c)
  PROVE  LineageInv'
<1>1. FirstExporter \in Exporters /\ c # FirstExporter /\ ArchivesTyped /\ folder[c] = {} /\ exporting[c] = NotExporting
  BY MonthlyArchiveAssumption DEF LineageInv, Unopened, Copy
<1>2. /\ exports' \in [Exporters -> [Months -> Seq(Nat)]] /\ exports'[c] = exports[FirstExporter]
      /\ \A d \in Exporters : d # c => exports'[d] = exports[d]
  BY <1>1 DEF Copy, ArchivesTyped
<1>3. ArchivesTyped'
  BY <1>1, <1>2 DEF ArchivesTyped, Copy
<1>4. Unopened' /\ NamesDiffer'
  BY DEF LineageInv, Unopened, NamesDiffer, Copy
<1>5. FilesContinue' /\ VerifiesNext'
  <2>1. NotExporting.at # "verify"
    BY DEF NotExporting
  <2>2. \A d \in Exporters : d # c => exports'[d] = exports[d]
    BY <1>2
  <2>3. FilesContinue'
    <3> SUFFICES ASSUME NEW d \in Exporters, NEW id \in folder[d]
                 PROVE  Continues(archives[id], id, d, exports'[d][archives[id].month])
      BY DEF FilesContinue, Copy
    <3>1. d # c
      BY <1>1
    <3> QED BY <2>2, <3>1 DEF LineageInv, FilesContinue
  <2>4. VerifiesNext'
    <3> SUFFICES ASSUME NEW d \in Exporters, exporting[d].at = "verify"
                 PROVE  IsNext(exporting[d], folder[d], archives, exports'[d])
      BY DEF VerifiesNext, Copy
    <3>1. d # c
      BY <1>1, <2>1
    <3> QED BY <2>2, <3>1 DEF LineageInv, VerifiesNext
  <2> QED BY <2>3, <2>4
<1>6. RecordedSound'
  <2>1. \A id : Sound(id, folder, archives) => Sound(id, folder', archives')
    BY DEF Sound, Copy
  <2>2. \A d \in Exporters, m \in Months : \E e \in Exporters : exports'[d][m] = exports[e][m]
    BY <1>1, <1>2
  <2> QED BY <2>1, <2>2 DEF LineageInv, RecordedSound
<1>7. ImportedSound'
  BY DEF LineageInv, ImportedSound, Sound, Copy
<1> QED BY <1>3, <1>4, <1>5, <1>6, <1>7 DEF LineageInv

LEMMA PublishStep ==
  ASSUME LineageInv, NEW c \in opened, NEW sound \in BOOLEAN, PublishBucket(c, sound)
  PROVE  LineageInv'
<1>1. c \in Exporters /\ ArchivesTyped
  BY DEF LineageInv, ArchivesTyped
<1>2. exporting[c] \in Exports /\ exporting[c].at = "collect" /\ exporting[c].plans # <<>>
  BY <1>1, UnderExport DEF PublishBucket
<1>3. Head(exporting[c].plans) \in Plans
  BY <1>2 DEF Exports
<1> DEFINE plan == Head(exporting[c].plans)
           a == Archive(c, plan, sound)
           id == Len(archives) + 1
           E == exports[c][plan.month]
<1>4. plan.month \in Months /\ plan.bucket \in Buckets /\ E \in Seq(Nat) /\ id \in Nat /\ archives \in Seq(Archives)
  BY <1>1, <1>3 DEF Plans, ArchivesTyped
<1>5. /\ a \in Archives /\ a.by = c /\ a.month = plan.month /\ a.lineage = Append(E, id) /\ a.revision = Len(E) + 1
      /\ a.sound = sound
  <2>1. a = [by |-> c, sound |-> sound, month |-> plan.month, bucket |-> plan.bucket, at |-> writes,
             revision |-> Len(E) + 1, lineage |-> Append(E, id)]
    BY DEF Archive, ExportRows
  <2>2. Append(E, id) \in Seq(Nat) /\ Len(E) + 1 \in Nat /\ writes \in Nat
    BY <1>1, <1>4 DEF ArchivesTyped
  <2> HIDE DEF a, E, id, plan
  <2> QED BY <1>1, <1>4, <2>1, <2>2 DEF Archives
<1>6. CASE InTheWay(c, a) /\ Goes(c, NotExporting) /\ UNCHANGED <<folder, archives>>
  BY <1>6, GoesStep DEF PublishBucket, ToExport
<1>7. CASE /\ ~InTheWay(c, a) /\ archives' = Append(archives, a)
           /\ folder' = [folder EXCEPT ![c] = (@ \ {x \in folder[c] : archives[x].month = a.month /\ archives[x].revision = a.revision}) \cup {id}]
           /\ Goes(c, [exporting[c] EXCEPT !.at = "verify", !.export = id])
  <2>1. \A x \in folder[c] : ~(archives[x].month = a.month /\ archives[x].revision = a.revision)
    BY <1>7 DEF InTheWay
  <2>2. /\ folder' = [folder EXCEPT ![c] = @ \cup {id}]
        /\ folder'[c] = folder[c] \cup {id} /\ \A d \in Exporters : d # c => folder'[d] = folder[d]
    <3>1. {x \in folder[c] : archives[x].month = a.month /\ archives[x].revision = a.revision} = {}
      BY <2>1
    <3> HIDE DEF a, id
    <3> QED BY <1>1, <1>7, <3>1 DEF ArchivesTyped
  <2>3. /\ archives' \in Seq(Archives) /\ Len(archives') = id /\ archives'[id] = a
        /\ \A x \in 1 .. Len(archives) : archives'[x] = archives[x]
    <3>1. a \in Archives /\ archives \in Seq(Archives) /\ archives' = Append(archives, a)
      BY <1>4, <1>5, <1>7
    <3> HIDE DEF a
    <3>2. Append(archives, a) \in Seq(Archives) /\ Len(Append(archives, a)) = Len(archives) + 1
      BY <3>1
    <3>3. Append(archives, a)[Len(archives) + 1] = a /\ \A x \in 1 .. Len(archives) : Append(archives, a)[x] = archives[x]
      BY <3>1
    <3> QED BY <3>1, <3>2, <3>3
  <2>4. \A d \in Exporters : \A x \in folder[d] : x \in 1 .. Len(archives) /\ archives'[x] = archives[x] /\ x \in folder'[d]
    <3>1. \A d \in Exporters : folder[d] \subseteq 1 .. Len(archives)
      BY <1>1 DEF ArchivesTyped
    <3> HIDE DEF a, id
    <3> QED BY <2>2, <2>3, <3>1
  <2> DEFINE job == [exporting[c] EXCEPT !.at = "verify", !.export = id]
  <2>5. job \in Exports /\ job.at = "verify" /\ job.export = id
    <3> HIDE DEF id
    <3> QED BY <1>2, <1>4 DEF Exports
  <2>6. /\ exporting' \in [Exporters -> Exports \cup {NotExporting}] /\ exporting'[c] = job
        /\ \A d \in Exporters : d # c => exporting'[d] = exporting[d]
    <3> HIDE DEF job
    <3>1. exporting' = [exporting EXCEPT ![c] = job]
      BY <1>7 DEF Goes, job
    <3> QED BY <1>1, <2>5, <3>1 DEF ArchivesTyped
  <2>7. folder' \in [Exporters -> SUBSET (1 .. Len(archives'))]
    <3>1. \A d \in Exporters : folder[d] \subseteq 1 .. Len(archives) /\ folder \in [Exporters -> SUBSET (1 .. Len(archives))]
      BY <1>1 DEF ArchivesTyped
    <3> HIDE DEF a, E, plan, job
    <3>2. \A d \in Exporters : folder'[d] \in SUBSET (1 .. Len(archives'))
      BY <1>4, <2>2, <2>3, <3>1
    <3>3. folder' = [folder EXCEPT ![c] = @ \cup {id}] /\ folder \in [Exporters -> SUBSET (1 .. Len(archives))]
      BY <1>1, <2>2 DEF ArchivesTyped
    <3>4. folder' = [d \in Exporters |-> folder'[d]]
      BY <3>3
    <3> QED BY <3>2, <3>4
  <2>8. UNCHANGED <<writes, opened, held, exports, target, importing>>
    BY DEF PublishBucket
  <2> HIDE DEF a, id, E, plan, job
  <2>9. ArchivesTyped'
    BY <1>1, <2>3, <2>6, <2>7, <2>8 DEF ArchivesTyped
  <2>10. Unopened'
    BY <2>2, <2>6, <2>8 DEF LineageInv, Unopened
  <2>11. NamesDiffer'
    BY <2>1, <2>2, <2>3, <2>4 DEF LineageInv, NamesDiffer
  <2>12. Continues(a, id, c, E)
    <3>1. /\ Append(E, id) \in Seq(Nat) /\ Len(Append(E, id)) = Len(E) + 1 /\ Append(E, id)[Len(E) + 1] = id
          /\ \A k \in 1 .. Len(E) : Append(E, id)[k] = E[k]
      BY <1>4
    <3>2. Len(E) \in Nat
      BY <1>4
    <3> QED BY <1>5, <3>1, <3>2 DEF Continues
  <2>13. FilesContinue'
    <3>1. exports'[c][a.month] = E
      BY <1>5, <2>8 DEF E
    <3>2. Continues(archives'[id], id, c, exports'[c][archives'[id].month])
      BY <2>3, <2>12, <3>1
    <3>3. \A d \in Exporters : \A x \in folder[d] : Continues(archives'[x], x, d, exports'[d][archives'[x].month])
      BY <2>4, <2>8 DEF LineageInv, FilesContinue
    <3> QED BY <2>2, <3>2, <3>3 DEF FilesContinue
  <2>14. \A x : Sound(x, folder, archives) => Sound(x, folder', archives')
    BY <2>4 DEF Sound
  <2>15. RecordedSound' /\ ImportedSound'
    BY <2>8, <2>14 DEF LineageInv, RecordedSound, ImportedSound
  <2>16. VerifiesNext'
    <3>1. job.plans # <<>>
      BY <1>2 DEF job, Exports
    <3>2. IsNext(job, folder'[c], archives', exports'[c])
      BY <1>5, <2>2, <2>3, <2>5, <2>8, <3>1 DEF E, IsNext
    <3>3. \A d \in Exporters \ {c} : exporting'[d].at = "verify" =>
            IsNext(exporting'[d], folder'[d], archives', exports'[d])
      <4> SUFFICES ASSUME NEW d \in Exporters \ {c}, exporting'[d].at = "verify"
                   PROVE  IsNext(exporting'[d], folder'[d], archives', exports'[d])
        OBVIOUS
      <4>1. IsNext(exporting[d], folder[d], archives, exports[d]) /\ exporting'[d] = exporting[d]
        BY <2>6 DEF LineageInv, VerifiesNext
      <4> QED BY <2>4, <2>8, <4>1 DEF IsNext
    <3> QED BY <2>6, <3>2, <3>3 DEF VerifiesNext
  <2> QED BY <2>9, <2>10, <2>11, <2>13, <2>15, <2>16 DEF LineageInv
<1> QED BY <1>6, <1>7 DEF PublishBucket

LEMMA RecordStep ==
  ASSUME LineageInv, NEW c \in opened, RecordBucket(c)
  PROVE  LineageInv'
<1>1. c \in Exporters /\ ArchivesTyped
  BY DEF LineageInv, ArchivesTyped
<1>2. exporting[c] \in Exports /\ exporting[c].at = "verify" /\ exporting[c] # NotExporting
  BY <1>1, UnderExport, ExportsDiffer DEF RecordBucket
<1> DEFINE id == exporting[c].export
           a == archives[id]
           E == exports[c][a.month]
<1>3. id \in folder[c] /\ a.revision = Len(E) + 1 /\ exporting[c].plans # <<>>
  BY <1>1, <1>2 DEF LineageInv, VerifiesNext, IsNext
<1>4. id \in 1 .. Len(archives) /\ id \in Nat /\ a \in Archives /\ a.month \in Months /\ E \in Seq(Nat)
  <2>1. id \in 1 .. Len(archives)
    BY <1>1, <1>3 DEF ArchivesTyped
  <2>2. a \in Archives
    BY <1>1, <2>1 DEF ArchivesTyped
  <2>3. a.month \in Months
    BY <2>2 DEF Archives
  <2> QED BY <1>1, <2>1, <2>2, <2>3 DEF ArchivesTyped
<1>5. CASE /\ a.sound /\ exports' = [exports EXCEPT ![c][a.month] = Append(@, id)]
           /\ Goes(c, [exporting[c] EXCEPT !.at = "collect", !.plans = Tail(@), !.export = 0])
           /\ UNCHANGED folder
  <2> DEFINE job == [exporting[c] EXCEPT !.at = "collect", !.plans = Tail(@), !.export = 0]
  <2>1. UNCHANGED <<writes, opened, held, archives, target, importing, folder>>
    BY <1>5 DEF RecordBucket
  <2>2. /\ exports' \in [Exporters -> [Months -> Seq(Nat)]]
        /\ exports'[c][a.month] = Append(E, id)
        /\ \A d \in Exporters, m \in Months : d # c \/ m # a.month => exports'[d][m] = exports[d][m]
    <3> HIDE DEF id, a
    <3> QED BY <1>1, <1>4, <1>5 DEF ArchivesTyped
  <2>3. /\ Append(E, id) \in Seq(Nat) /\ Len(Append(E, id)) = Len(E) + 1 /\ Append(E, id)[Len(E) + 1] = id
        /\ \A k \in 1 .. Len(E) : Append(E, id)[k] = E[k]
        /\ Len(E) \in Nat
    <3> HIDE DEF E, id
    <3> QED BY <1>4
  <2> HIDE DEF id, a, E
  <2>4. Tail(exporting[c].plans) \in Seq(Plans)
    BY <1>2, <1>3 DEF Exports
  <2>5. job \in Exports /\ job.at = "collect"
    BY <1>2, <2>4 DEF Exports
  <2>6. /\ exporting' \in [Exporters -> Exports \cup {NotExporting}] /\ exporting'[c] = job
        /\ \A d \in Exporters : d # c => exporting'[d] = exporting[d]
    <3> HIDE DEF job
    <3>1. exporting' = [exporting EXCEPT ![c] = job]
      BY <1>5 DEF Goes, job
    <3> QED BY <1>1, <2>5, <3>1 DEF ArchivesTyped
  <2> HIDE DEF job
  <2>7. ArchivesTyped'
    BY <1>1, <2>1, <2>2, <2>6 DEF ArchivesTyped
  <2>8. Unopened' /\ NamesDiffer'
    BY <2>1, <2>6 DEF LineageInv, Unopened, NamesDiffer
  <2>9. \A x \in folder[c] : archives[x].month = a.month => Continues(archives[x], x, c, Append(E, id))
    <3> SUFFICES ASSUME NEW x \in folder[c], archives[x].month = a.month
                 PROVE  Continues(archives[x], x, c, Append(E, id))
      OBVIOUS
    <3>1. Continues(archives[x], x, c, E)
      BY <1>1 DEF LineageInv, FilesContinue, E
    <3>2. archives[x].revision = Len(E) + 1 => x = id
      BY <1>1, <1>3 DEF LineageInv, NamesDiffer, a
    <3> QED BY <2>3, <3>1, <3>2 DEF Continues
  <2>10. FilesContinue'
    <3> SUFFICES ASSUME NEW d \in Exporters, NEW x \in folder[d]
                 PROVE  Continues(archives[x], x, d, exports'[d][archives[x].month])
      BY <2>1 DEF FilesContinue
    <3>1. archives[x].month \in Months
      <4>1. x \in 1 .. Len(archives)
        BY <1>1 DEF ArchivesTyped
      <4>2. archives[x] \in Archives
        BY <1>1, <4>1 DEF ArchivesTyped
      <4> QED BY <4>2 DEF Archives
    <3>2. CASE d = c /\ archives[x].month = a.month
      BY <2>2, <2>9, <3>2
    <3>3. CASE ~(d = c /\ archives[x].month = a.month)
      <4>1. exports'[d][archives[x].month] = exports[d][archives[x].month]
        BY <2>2, <3>1, <3>3
      <4> QED BY <4>1 DEF LineageInv, FilesContinue
    <3> QED BY <3>2, <3>3
  <2>11. \A x : Sound(x, folder, archives) => Sound(x, folder', archives')
    BY <2>1 DEF Sound
  <2>12. RecordedSound'
    <3> SUFFICES ASSUME NEW d \in Exporters, NEW m \in Months, NEW k \in 1 .. Len(exports'[d][m])
                 PROVE  Sound(exports'[d][m][k], folder', archives')
      BY DEF RecordedSound
    <3>1. CASE d = c /\ m = a.month /\ k = Len(E) + 1
      <4>1. Sound(id, folder, archives)
        BY <1>1, <1>3, <1>5 DEF Sound, a
      <4> QED BY <2>2, <2>3, <2>11, <3>1, <4>1
    <3>2. CASE d = c /\ m = a.month /\ k # Len(E) + 1
      <4>1. exports'[d][m] = Append(E, id) /\ exports[d][m] = E
        BY <2>2, <3>2 DEF E
      <4>2. k \in 1 .. Len(E)
        BY <2>3, <3>2, <4>1
      <4>3. exports'[d][m][k] = exports[d][m][k]
        BY <2>3, <4>1, <4>2
      <4> QED BY <2>11, <4>1, <4>2, <4>3 DEF LineageInv, RecordedSound
    <3>3. CASE d # c \/ m # a.month
      <4>1. exports'[d][m] = exports[d][m]
        BY <2>2, <3>3
      <4> QED BY <2>11, <4>1 DEF LineageInv, RecordedSound
    <3> QED BY <3>1, <3>2, <3>3
  <2>13. ImportedSound'
    BY <2>1, <2>11 DEF LineageInv, ImportedSound
  <2>14. VerifiesNext'
    <3> SUFFICES ASSUME NEW d \in Exporters, exporting'[d].at = "verify"
                 PROVE  IsNext(exporting'[d], folder[d], archives, exports'[d])
      BY <2>1 DEF VerifiesNext
    <3>1. d # c /\ exporting'[d] = exporting[d]
      BY <2>5, <2>6
    <3>2. IsNext(exporting[d], folder[d], archives, exports[d])
      BY <3>1 DEF LineageInv, VerifiesNext
    <3>3. exports'[d] = exports[d]
      <4>1. \A m \in Months : exports'[d][m] = exports[d][m]
        BY <2>2, <3>1
      <4>2. exports'[d] \in [Months -> Seq(Nat)] /\ exports[d] \in [Months -> Seq(Nat)]
        BY <1>1, <2>2 DEF ArchivesTyped
      <4> QED BY <4>1, <4>2
    <3> QED BY <3>1, <3>2, <3>3
  <2> QED BY <2>7, <2>8, <2>10, <2>12, <2>13, <2>14 DEF LineageInv
<1>6. CASE /\ ~a.sound /\ folder' = [folder EXCEPT ![c] = @ \ {id}]
           /\ Goes(c, NotExporting)
           /\ UNCHANGED exports
  <2>1. UNCHANGED <<writes, opened, held, archives, target, importing, exports>>
    BY <1>6 DEF RecordBucket
  <2>2. /\ exporting' \in [Exporters -> Exports \cup {NotExporting}] /\ exporting'[c] = NotExporting
        /\ \A d \in Exporters : d # c => exporting'[d] = exporting[d]
    BY <1>1, <1>6 DEF ArchivesTyped, Goes
  <2> HIDE DEF id
  <2>3. /\ folder' \in [Exporters -> SUBSET (1 .. Len(archives))]
        /\ folder'[c] = folder[c] \ {id} /\ \A d \in Exporters : d # c => folder'[d] = folder[d]
    BY <1>1, <1>6 DEF ArchivesTyped
  <2>4. \A d \in Exporters : folder'[d] \subseteq folder[d]
    BY <2>3
  <2>5. ArchivesTyped'
    BY <1>1, <2>1, <2>2, <2>3 DEF ArchivesTyped
  <2>6. Unopened' /\ NamesDiffer' /\ FilesContinue'
    BY <2>1, <2>2, <2>3, <2>4 DEF LineageInv, Unopened, NamesDiffer, FilesContinue
  <2>7. \A x : Sound(x, folder, archives) => Sound(x, folder', archives')
    BY <1>6, <2>1, <2>3 DEF Sound
  <2>8. RecordedSound' /\ ImportedSound'
    BY <2>1, <2>7 DEF LineageInv, RecordedSound, ImportedSound
  <2>9. VerifiesNext'
    <3> SUFFICES ASSUME NEW d \in Exporters, exporting'[d].at = "verify"
                 PROVE  IsNext(exporting'[d], folder'[d], archives, exports[d])
      BY <2>1 DEF VerifiesNext
    <3>1. NotExporting.at # "verify"
      BY DEF NotExporting
    <3>2. d # c /\ exporting'[d] = exporting[d] /\ folder'[d] = folder[d]
      BY <2>2, <2>3, <3>1
    <3> QED BY <3>2 DEF LineageInv, VerifiesNext
  <2> QED BY <2>5, <2>6, <2>8, <2>9 DEF LineageInv
<1> QED BY <1>5, <1>6 DEF RecordBucket

LEMMA ImportStep ==
  ASSUME LineageInv,
         \/ \E i \in Importers :
              \/ \E id \in UNION {folder[c] : c \in Exporters} : CheckLineage(i, id)
              \/ ApplyArchive(i) \/ AbandonImport(i)
         \/ \E id \in target.branches : AcceptBranch(id)
  PROVE  LineageInv'
<1>1. UNCHANGED <<writes, opened, held, exports, folder, archives, exporting>>
  BY DEF CheckLineage, ApplyArchive, AbandonImport, AcceptBranch, FromExport
<1>2. ArchivesTyped /\ target \in Targets
  BY DEF LineageInv, ArchivesTyped
<1>3. Unopened' /\ NamesDiffer' /\ FilesContinue' /\ RecordedSound' /\ VerifiesNext'
  BY <1>1 DEF LineageInv, Unopened, NamesDiffer, FilesContinue, RecordedSound, VerifiesNext, Sound
<1>4. \A x : Sound(x, folder', archives') <=> Sound(x, folder, archives)
  BY <1>1 DEF Sound
<1>5. SUFFICES /\ target' \in Targets /\ importing' \in [Importers -> Nat]
               /\ \A m \in Months : \A k \in 1 .. Len(target'.imports[m]) : Sound(target'.imports[m][k], folder, archives)
               /\ \A i \in Importers : importing'[i] # 0 => Sound(importing'[i], folder, archives)
  <2>1. ASSUME /\ target' \in Targets /\ importing' \in [Importers -> Nat]
               /\ \A m \in Months : \A k \in 1 .. Len(target'.imports[m]) : Sound(target'.imports[m][k], folder, archives)
               /\ \A i \in Importers : importing'[i] # 0 => Sound(importing'[i], folder, archives)
        PROVE  LineageInv'
    <3>1. ArchivesTyped'
      BY <1>1, <1>2, <2>1 DEF ArchivesTyped
    <3>2. ImportedSound'
      BY <1>4, <2>1 DEF ImportedSound
    <3> QED BY <1>3, <3>1, <3>2 DEF LineageInv
  <2> QED BY <2>1
<1>6. CASE \E i \in Importers : \E id \in UNION {folder[c] : c \in Exporters} : CheckLineage(i, id)
  <2>1. PICK i \in Importers, c \in Exporters : \E id \in folder[c] : CheckLineage(i, id)
    BY <1>6
  <2>2. PICK id \in folder[c] : CheckLineage(i, id)
    BY <2>1
  <2>3. id \in Nat /\ Sound(id, folder, archives)
    BY <1>2, <2>2 DEF ArchivesTyped, CheckLineage, Sound
  <2>4. CASE importing' = [importing EXCEPT ![i] = id] /\ UNCHANGED target
    BY <1>2, <2>3, <2>4 DEF LineageInv, ArchivesTyped, ImportedSound
  <2>5. CASE target' = [target EXCEPT !.branches = @ \cup {id}] /\ UNCHANGED importing
    BY <1>2, <2>3, <2>5 DEF LineageInv, ArchivesTyped, ImportedSound, Targets
  <2> QED BY <2>2, <2>4, <2>5 DEF CheckLineage
<1>7. CASE \E i \in Importers : ApplyArchive(i)
  <2>1. PICK i \in Importers : ApplyArchive(i)
    BY <1>7
  <2> DEFINE id == importing[i]
             a == archives[id]
  <2>2. id # 0 /\ Sound(id, folder, archives) /\ id \in Nat
    BY <1>2, <2>1 DEF LineageInv, ImportedSound, ApplyArchive, ArchivesTyped
  <2>3. a \in Archives
    <3>1. id \in 1 .. Len(archives)
      BY <1>2, <2>2 DEF Sound, ArchivesTyped
    <3> QED BY <1>2, <3>1 DEF ArchivesTyped
  <2> DEFINE Tombstone(record) == IF record = NoRecord \/ record.retiredBy # 0 THEN record
                                  ELSE [record EXCEPT !.retiredBy = id, !.at = a.at]
             New(u) == IF u \in DOMAIN a.bucket THEN Imported(target.records[u], a.bucket[u])
                       ELSE IF u \in Retired(a) THEN Tombstone(target.records[u])
                       ELSE target.records[u]
             Record == [content : Nat, retiredBy : Nat, at : Nat]
  <2>4. target' = [target EXCEPT !.records = [u \in Messages |-> New(u)], !.imports[a.month] = Append(@, id)]
        /\ importing' = [importing EXCEPT ![i] = 0]
    BY <2>1 DEF ApplyArchive
  <2>5. \A u \in Messages : New(u) \in Record
    <3> SUFFICES ASSUME NEW u \in Messages PROVE New(u) \in Record
      OBVIOUS
    <3>1. target.records[u] \in Record
      BY <1>2 DEF Targets
    <3>2. ASSUME u \in DOMAIN a.bucket PROVE Imported(target.records[u], a.bucket[u]) \in Record
      <4>1. a.bucket[u].content \in Nat
        <5>1. a.bucket \in Buckets
          BY <2>3 DEF Archives
        <5>2. PICK S \in SUBSET Messages : a.bucket \in [S -> [content : Nat, known : SUBSET Nat]]
          BY <5>1 DEF Buckets
        <5> QED BY <3>2, <5>2
      <4> QED BY <3>1, <4>1 DEF Imported
    <3>3. Tombstone(target.records[u]) \in Record
      <4>1. a.at \in Nat
        BY <2>3 DEF Archives
      <4> QED BY <2>2, <3>1, <4>1
    <3> QED BY <3>1, <3>2, <3>3
  <2> DEFINE records == [u \in Messages |-> New(u)]
  <2>6. records \in [Messages -> Record]
    BY <2>5
  <2> DEFINE m == a.month
             imports == [target.imports EXCEPT ![m] = Append(@, id)]
  <2>7. m \in Months /\ target.imports \in [Months -> Seq(Nat)]
    BY <1>2, <2>3 DEF Archives, Targets
  <2> HIDE DEF records, New, Tombstone, id, m
  <2>8. imports \in [Months -> Seq(Nat)]
    BY <2>2, <2>7
  <2>9. target'.imports = imports /\ target' \in Targets
    <3> HIDE DEF imports
    <3>1. target' = [target EXCEPT !.records = records, !.imports = imports]
      BY <2>4 DEF records, imports, m
    <3> QED BY <1>2, <2>6, <2>8, <3>1 DEF Targets
  <2>10. importing' \in [Importers -> Nat] /\ \A j \in Importers : importing'[j] # 0 => Sound(importing'[j], folder, archives)
    BY <1>2, <2>4 DEF LineageInv, ImportedSound, ArchivesTyped
  <2>11. \A n \in Months : \A k \in 1 .. Len(target'.imports[n]) : Sound(target'.imports[n][k], folder, archives)
    <3> SUFFICES ASSUME NEW n \in Months, NEW k \in 1 .. Len(imports[n])
                 PROVE  Sound(imports[n][k], folder, archives)
      BY <2>9
    <3>1. \A l \in 1 .. Len(target.imports[n]) : Sound(target.imports[n][l], folder, archives)
      BY DEF LineageInv, ImportedSound
    <3>2. target.imports[n] \in Seq(Nat) /\ imports[n] = IF n = m THEN Append(target.imports[n], id) ELSE target.imports[n]
      BY <2>7
    <3> QED BY <2>2, <3>1, <3>2
  <2> QED BY <2>9, <2>10, <2>11
<1>8. CASE \E i \in Importers : AbandonImport(i)
  BY <1>2, <1>8 DEF LineageInv, ImportedSound, ArchivesTyped, AbandonImport
<1>9. CASE \E id \in target.branches : AcceptBranch(id)
  <2>1. PICK id \in target.branches : AcceptBranch(id)
    BY <1>9
  <2>2. id \in Nat /\ target' = [target EXCEPT !.branches = @ \ {id}, !.accepted = @ \cup {id}] /\ UNCHANGED importing
    BY <1>2, <2>1 DEF AcceptBranch, Targets
  <2>3. target' \in Targets /\ target'.imports = target.imports
    BY <1>2, <2>2 DEF Targets
  <2> QED BY <1>2, <2>2, <2>3 DEF LineageInv, ImportedSound, ArchivesTyped
<1> QED BY <1>6, <1>7, <1>8, <1>9

\* The invariant that export and import of monthly archives keep (archive/export.py,
\* archive/import_.py).
THEOREM LineageInvariance == ArchiveSpec => []LineageInv
<1>1. LineageInv /\ [ArchiveNext]_archiveVars => LineageInv'
  <2> SUFFICES ASSUME LineageInv, [ArchiveNext]_archiveVars PROVE LineageInv'
    OBVIOUS
  <2>1. CASE UNCHANGED archiveVars
    BY <2>1 DEF archiveVars, LineageInv, ArchivesTyped, Unopened, NamesDiffer, FilesContinue, RecordedSound,
                ImportedSound, VerifiesNext, Sound
  <2> QED BY <2>1, CopyStep, WriteStep, ExportGoesOn, PublishStep, RecordStep, ImportStep DEF ArchiveNext
<1> QED BY <1>1, ArchiveStarts, PTL DEF ArchiveSpec

\* Two archives that continue the exports rows E agree on what is before both.
LEMMA LineagesAgree ==
  ASSUME NEW c, NEW E \in Seq(Nat), NEW x, NEW y, NEW a \in Archives, NEW b \in Archives,
         Continues(a, x, c, E), Continues(b, y, c, E),
         a.revision = b.revision => x = y /\ a = b, a.revision <= b.revision
  PROVE  IsPrefix(a.lineage, b.lineage)
<1>1. a.lineage \in Seq(Nat) /\ b.lineage \in Seq(Nat) /\ Len(a.lineage) = a.revision /\ Len(b.lineage) = b.revision
      /\ a.revision \in Nat /\ b.revision \in Nat /\ Len(E) \in Nat
  BY DEF Continues, Archives
<1> DEFINE n == a.revision
           o == b.revision
<1>2. /\ \A k \in 1 .. n - 1 : a.lineage[k] = E[k]
      /\ \A k \in 1 .. o - 1 : b.lineage[k] = E[k]
      /\ a.lineage[n] = x /\ (n <= Len(E) => E[n] = x) /\ o <= Len(E) + 1
      /\ n = o => a = b
  BY DEF Continues
<1>3. n \in Nat /\ o \in Nat /\ Len(E) \in Nat /\ n <= o
  BY <1>1
<1>4. \A k \in 1 .. n : a.lineage[k] = b.lineage[k]
  <2> HIDE DEF n, o
  <2>1. CASE n = o
    BY <1>2, <2>1
  <2>2. CASE n < o
    <3> SUFFICES ASSUME NEW k \in 1 .. n PROVE a.lineage[k] = b.lineage[k]
      OBVIOUS
    <3>1. k \in 1 .. o - 1 /\ n <= Len(E)
      BY <1>2, <1>3, <2>2
    <3>2. b.lineage[k] = E[k]
      BY <1>2, <3>1
    <3>3. CASE k = n
      BY <1>2, <3>1, <3>2, <3>3
    <3>4. CASE k \in 1 .. n - 1
      BY <1>2, <3>2, <3>4
    <3> QED BY <1>3, <3>3, <3>4
  <2> QED BY <1>3, <2>1, <2>2
<1>5. SubSeq(a.lineage, 1, n) = SubSeq(b.lineage, 1, n)
  BY <1>1, <1>3, <1>4
<1> QED BY <1>1, <1>3, <1>5 DEF IsPrefix

\* One exporter makes one history of a month: of any two of its archives that anybody can
\* hold or has imported, one continues the other, whatever died, failed to verify or was
\* copied in between (archive/export.py: revisions, refusal to overwrite).
THEOREM ExporterMakesOneHistory == ArchiveSpec => []OneLineage
<1>1. LineageInv => OneLineage
  <2> SUFFICES ASSUME LineageInv PROVE OneLineage
    OBVIOUS
  <2>1. ArchivesTyped
    BY DEF LineageInv
  <2>2. \A id : Sound(id, folder, archives) => id \in Files
    BY DEF Sound, Files
  <2>3. Imports \subseteq Files
    <3> SUFFICES ASSUME NEW m \in Months PROVE ToSet(target.imports[m]) \subseteq Files
      BY DEF Imports
    <3>1. target.imports[m] \in Seq(Nat)
      BY <2>1 DEF ArchivesTyped, Targets
    <3>2. \A k \in DOMAIN target.imports[m] : target.imports[m][k] \in Files
      BY <2>2, <3>1 DEF LineageInv, ImportedSound
    <3> QED BY <3>2 DEF ToSet
  <2>4. \A c \in Exporters, m \in Months : ToSet(ExportRows(c, m)) \subseteq Files
    <3> SUFFICES ASSUME NEW c \in Exporters, NEW m \in Months PROVE ToSet(exports[c][m]) \subseteq Files
      BY DEF ExportRows
    <3>1. exports[c][m] \in Seq(Nat)
      BY <2>1 DEF ArchivesTyped
    <3>2. \A k \in DOMAIN exports[c][m] : exports[c][m][k] \in Files
      BY <2>2, <3>1 DEF LineageInv, RecordedSound
    <3> QED BY <3>2 DEF ToSet
  <2>5. ASSUME NEW x \in Files, NEW y \in Files,
               archives[x].by = archives[y].by, archives[x].month = archives[y].month
        PROVE  IsPrefix(archives[x].lineage, archives[y].lineage)
               \/ IsPrefix(archives[y].lineage, archives[x].lineage)
    <3>1. PICK c \in Exporters, d \in Exporters : x \in folder[c] /\ y \in folder[d]
      BY DEF Files
    <3>2. archives[x] \in Archives /\ archives[y] \in Archives
      <4>1. x \in 1 .. Len(archives) /\ y \in 1 .. Len(archives)
        BY <2>1, <3>1 DEF ArchivesTyped
      <4> QED BY <2>1, <4>1 DEF ArchivesTyped
    <3> DEFINE E == exports[c][archives[x].month]
    <3>3. c = d /\ Continues(archives[x], x, c, E) /\ Continues(archives[y], y, c, E)
      <4>1. Continues(archives[x], x, c, E) /\ Continues(archives[y], y, d, exports[d][archives[y].month])
        BY <3>1 DEF LineageInv, FilesContinue
      <4>2. c = d
        BY <2>5, <4>1 DEF Continues
      <4> QED BY <2>5, <4>1, <4>2
    <3>4. E \in Seq(Nat)
      BY <2>1, <3>2 DEF ArchivesTyped, Archives
    <3>5. archives[x].revision = archives[y].revision => x = y
      BY <2>5, <3>1, <3>3 DEF LineageInv, NamesDiffer
    <3>6. archives[x].revision \in Nat /\ archives[y].revision \in Nat
      BY <3>2 DEF Archives
    <3>7. CASE archives[x].revision <= archives[y].revision
      BY <3>2, <3>3, <3>4, <3>5, <3>7, LineagesAgree
    <3>8. CASE archives[y].revision <= archives[x].revision
      BY <3>2, <3>3, <3>4, <3>5, <3>8, LineagesAgree
    <3> QED BY <3>6, <3>7, <3>8
  <2> QED BY <2>3, <2>4, <2>5 DEF OneLineage
<1> QED BY <1>1, LineageInvariance, PTL

(* Branches ****************************************************************)
\* One of two archives continues the other, or the user accepted one of them.
Tied(x, y, A, accepted) ==
  x \in ToSet(A[y].lineage) \/ y \in ToSet(A[x].lineage) \/ {x, y} \cap accepted # {}

ImportsTied ==
  \A m \in Months : \A x, y \in ToSet(target.imports[m]) :
    archives[x].month = m /\ Tied(x, y, archives, target.accepted)

\* What is past its lineage check could still be checked now.
CheckHolds ==
  \A i \in Importers : importing[i] # 0 => importing[i] \in target.accepted \/ ~Diverges(importing[i])

BranchInv == ImportsTied /\ CheckHolds

\* An archive that can be imported is there, and is the last of its own lineage.
LEMMA EndsItself ==
  ASSUME LineageInv, NEW id, Sound(id, folder, archives)
  PROVE  /\ id \in 1 .. Len(archives) /\ archives[id] \in Archives
         /\ id \in ToSet(archives[id].lineage)
<1>1. PICK c \in Exporters : id \in folder[c]
  BY DEF Sound
<1>2. id \in 1 .. Len(archives) /\ archives[id] \in Archives
  <2>1. id \in 1 .. Len(archives)
    BY <1>1 DEF LineageInv, ArchivesTyped
  <2> QED BY <2>1 DEF LineageInv, ArchivesTyped
<1>3. /\ archives[id].revision = Len(archives[id].lineage) /\ archives[id].revision >= 1
      /\ archives[id].lineage[archives[id].revision] = id
  <2>1. Continues(archives[id], id, c, exports[c][archives[id].month])
    BY <1>1 DEF LineageInv, FilesContinue
  <2>2. archives[id].revision \in Nat /\ exports[c][archives[id].month] \in Seq(Nat)
    BY <1>2 DEF Archives, LineageInv, ArchivesTyped
  <2> QED BY <2>1, <2>2 DEF Continues
<1>4. archives[id].lineage \in Seq(Nat)
  BY <1>2 DEF Archives
<1> QED BY <1>2, <1>3, <1>4 DEF ToSet

LEMMA AppendedSet ==
  ASSUME NEW s \in Seq(Nat), NEW e \in Nat
  PROVE  ToSet(Append(s, e)) = ToSet(s) \cup {e}
<1>1. DOMAIN s = 1 .. Len(s) /\ DOMAIN Append(s, e) = 1 .. Len(s) + 1 /\ Len(s) \in Nat
      /\ Append(s, e)[Len(s) + 1] = e /\ \A k \in 1 .. Len(s) : Append(s, e)[k] = s[k]
  OBVIOUS
<1>2. ToSet(Append(s, e)) \subseteq ToSet(s) \cup {e}
  BY <1>1 DEF ToSet
<1>3. ToSet(s) \cup {e} \subseteq ToSet(Append(s, e))
  BY <1>1 DEF ToSet
<1> QED BY <1>2, <1>3

LEMMA RowsSound ==
  ASSUME LineageInv, NEW m \in Months, NEW x \in ToSet(target.imports[m])
  PROVE  Sound(x, folder, archives)
<1>1. target.imports[m] \in Seq(Nat)
  BY DEF LineageInv, ArchivesTyped, Targets
<1>2. PICK k \in DOMAIN target.imports[m] : x = target.imports[m][k]
  BY DEF ToSet
<1> QED BY <1>1, <1>2 DEF LineageInv, ImportedSound

\* Archives that are imported, or about to be, keep their place in the list.
LEMMA ArchivesRemain ==
  ASSUME LineageInv, BranchInv, UNCHANGED <<target, importing>>,
         \A id \in 1 .. Len(archives) : archives'[id] = archives[id]
  PROVE  BranchInv'
<1>1. \A id : Sound(id, folder, archives) => archives'[id] = archives[id]
  BY EndsItself
<1>2. \A m \in Months : \A x \in ToSet(target.imports[m]) : archives'[x] = archives[x]
  BY <1>1, RowsSound
<1>3. ImportsTied'
  BY <1>2 DEF BranchInv, ImportsTied, Tied
<1>4. CheckHolds'
  <2> SUFFICES ASSUME NEW i \in Importers, importing[i] # 0, importing[i] \notin target.accepted,
                      Diverges(importing[i])'
               PROVE  FALSE
    BY DEF CheckHolds
  <2> DEFINE id == importing[i]
  <2>1. Sound(id, folder, archives)
    BY DEF LineageInv, ImportedSound
  <2>2. archives'[id] = archives[id] /\ archives[id].month \in Months
    BY <1>1, <2>1, EndsItself DEF Archives
  <2>3. PICK x \in ToSet(target.imports[archives[id].month]) :
          x \notin ToSet(archives'[id].lineage) /\ id \notin ToSet(archives'[x].lineage)
    BY <2>2 DEF Diverges, Related
  <2>4. archives'[x] = archives[x]
    BY <1>2, <2>2, <2>3
  <2>5. Diverges(id)
    BY <2>2, <2>3, <2>4 DEF Diverges, Related
  <2> QED BY <2>5 DEF BranchInv, CheckHolds
<1> QED BY <1>3, <1>4 DEF BranchInv

LEMMA ExportKeepsBranches ==
  ASSUME LineageInv, BranchInv,
         \/ \E c \in Exporters : Copy(c)
         \/ \E c \in opened :
              \/ \E u \in Messages, m \in Months : WriteMessage(c, u, m)
              \/ \E u \in Messages : PurgeMessage(c, u)
              \/ StartExport(c) \/ CollectBucket(c) \/ SkipBucket(c)
              \/ (\E sound \in BOOLEAN : PublishBucket(c, sound)) \/ RecordBucket(c) \/ EndExport(c)
  PROVE  BranchInv'
<1>1. archives \in Seq(Archives)
  BY DEF LineageInv, ArchivesTyped
<1>2. UNCHANGED <<target, importing>>
  BY DEF Copy, WriteMessage, PurgeMessage, ChangeMessage, StartExport, CollectBucket, SkipBucket,
         PublishBucket, RecordBucket, EndExport, ToExport
<1>3. \A id \in 1 .. Len(archives) : archives'[id] = archives[id]
  <2>1. CASE UNCHANGED archives
    BY <2>1
  <2>2. CASE \E c \in opened, sound \in BOOLEAN : PublishBucket(c, sound)
    <3>1. UNCHANGED archives \/ \E a : archives' = Append(archives, a)
      BY <2>2 DEF PublishBucket
    <3> QED BY <1>1, <3>1
  <2> QED BY <2>1, <2>2 DEF Copy, WriteMessage, PurgeMessage, ChangeMessage, StartExport, CollectBucket,
            SkipBucket, RecordBucket, EndExport, ToExport
<1> QED BY <1>2, <1>3, ArchivesRemain

LEMMA ImportKeepsBranches ==
  ASSUME LineageInv, BranchInv, OneImporter,
         \/ \E i \in Importers :
              \/ \E id \in UNION {folder[c] : c \in Exporters} : CheckLineage(i, id)
              \/ ApplyArchive(i) \/ AbandonImport(i)
         \/ \E id \in target.branches : AcceptBranch(id)
  PROVE  BranchInv'
<1>1. UNCHANGED archives
  BY DEF CheckLineage, ApplyArchive, AbandonImport, AcceptBranch, FromExport
<1>2. ArchivesTyped /\ target \in Targets
  BY DEF LineageInv, ArchivesTyped
<1>3. CASE \E i \in Importers : \E id \in UNION {folder[c] : c \in Exporters} : CheckLineage(i, id)
  <2>1. PICK i \in Importers, id \in UNION {folder[c] : c \in Exporters} : CheckLineage(i, id)
    BY <1>3
  <2>2. target'.imports = target.imports /\ target'.accepted = target.accepted
    BY <1>2, <2>1 DEF CheckLineage, Targets
  <2>3. \A y : Diverges(y)' <=> Diverges(y)
    BY <1>1, <2>2 DEF Diverges, Related
  <2>4. CheckHolds'
    BY <1>2, <2>1, <2>2, <2>3 DEF CheckLineage, BranchInv, CheckHolds, ArchivesTyped
  <2> QED BY <1>1, <2>2, <2>4 DEF BranchInv, ImportsTied
<1>4. CASE \E i \in Importers : ApplyArchive(i)
  <2>1. PICK i \in Importers : ApplyArchive(i)
    BY <1>4
  <2> DEFINE id == importing[i]
             m  == archives[id].month
  <2>2. Sound(id, folder, archives) /\ (id \in target.accepted \/ ~Diverges(id)) /\ id \in Nat
    BY <1>2, <2>1 DEF ApplyArchive, LineageInv, ImportedSound, BranchInv, CheckHolds, ArchivesTyped
  <2>3. m \in Months /\ id \in ToSet(archives[id].lineage)
    BY <2>2, EndsItself DEF Archives
  <2>4. target'.imports = [target.imports EXCEPT ![m] = Append(@, id)] /\ target'.accepted = target.accepted
    BY <1>2, <2>1 DEF ApplyArchive, Targets
  <2>5. CheckHolds'
    <3>1. \A j \in Importers : importing'[j] = 0
      BY <1>2, <2>1 DEF ApplyArchive, ArchivesTyped, OneImporter
    <3> QED BY <3>1 DEF CheckHolds
  <2>6. \A n \in Months : ToSet(target'.imports[n]) = IF n = m THEN ToSet(target.imports[n]) \cup {id}
                                                     ELSE ToSet(target.imports[n])
    <3> HIDE DEF id, m
    <3>1. target.imports \in [Months -> Seq(Nat)]
      BY <1>2 DEF Targets
    <3>2. target'.imports[m] = Append(target.imports[m], id) /\ target.imports[m] \in Seq(Nat)
          /\ \A n \in Months : n # m => target'.imports[n] = target.imports[n]
      BY <2>3, <2>4, <3>1
    <3>3. ToSet(Append(target.imports[m], id)) = ToSet(target.imports[m]) \cup {id}
      BY <2>2, <3>2, AppendedSet
    <3> QED BY <3>2, <3>3
  <2>7. \A x \in ToSet(target.imports[m]) : Tied(x, id, archives, target.accepted)
    BY <2>2 DEF Diverges, Related, Tied
  <2>8. Tied(id, id, archives, target.accepted)
    BY <2>3 DEF Tied
  <2>9. \A x, y : Tied(x, y, archives, target.accepted) <=> Tied(y, x, archives, target.accepted)
    BY DEF Tied
  <2> HIDE DEF id
  <2>10. ImportsTied'
    <3> SUFFICES ASSUME NEW n \in Months, NEW x \in ToSet(target'.imports[n]), NEW y \in ToSet(target'.imports[n])
                 PROVE  archives[x].month = n /\ Tied(x, y, archives, target.accepted)
      BY <1>1, <2>4 DEF ImportsTied
    <3>1. \A z, w \in ToSet(target.imports[n]) :
            archives[z].month = n /\ Tied(z, w, archives, target.accepted)
      BY DEF BranchInv, ImportsTied
    <3> DEFINE Tie(z, w) == Tied(z, w, archives, target.accepted)
    <3> HIDE DEF Tie
    <3>2. (\A z \in ToSet(target.imports[m]) : Tie(z, id) /\ Tie(id, z)) /\ Tie(id, id)
      BY <2>7, <2>8, <2>9 DEF Tie
    <3>3. \A z, w \in ToSet(target.imports[n]) : archives[z].month = n /\ Tie(z, w)
      BY <3>1 DEF Tie
    <3>4. CASE n = m
      <4>1. x \in ToSet(target.imports[n]) \cup {id} /\ y \in ToSet(target.imports[n]) \cup {id}
        BY <2>6, <3>4
      <4>2. archives[x].month = n
        BY <3>3, <3>4, <4>1
      <4>3. Tie(x, y)
        BY <3>2, <3>3, <3>4, <4>1
      <4> QED BY <4>2, <4>3 DEF Tie
    <3>5. CASE n # m
      BY <2>6, <3>1, <3>5
    <3> QED BY <3>4, <3>5
  <2> QED BY <2>5, <2>10 DEF BranchInv
<1>5. CASE \E i \in Importers : AbandonImport(i)
  BY <1>1, <1>2, <1>5 DEF AbandonImport, BranchInv, ImportsTied, CheckHolds, ArchivesTyped, Diverges, Related
<1>6. CASE \E id \in target.branches : AcceptBranch(id)
  <2>1. PICK id \in target.branches : AcceptBranch(id)
    BY <1>6
  <2>2. target'.imports = target.imports /\ target'.accepted = target.accepted \cup {id} /\ UNCHANGED importing
    BY <1>2, <2>1 DEF AcceptBranch, Targets
  <2>3. ImportsTied'
    BY <1>1, <2>2 DEF BranchInv, ImportsTied, Tied
  <2>4. CheckHolds'
    BY <1>1, <2>2 DEF BranchInv, CheckHolds, Diverges, Related
  <2> QED BY <2>3, <2>4 DEF BranchInv
<1> QED BY <1>3, <1>4, <1>5, <1>6

\* While one process at a time imports, the archives of a month that are imported make one
\* line but for branches the user accepted: the second of two archives whose lineages do not
\* include one another is refused, whatever died between its check and its import, and
\* whichever exports a copy of the cache made (import_.py, _lineage_check).
THEOREM BranchesAreRefused ==
  ASSUME OneImporter
  PROVE  ArchiveSpec => []BranchesRefused
<1>1. ArchiveInit => BranchInv
  <2> SUFFICES ASSUME ArchiveInit PROVE BranchInv
    OBVIOUS
  <2>1. \A m \in Months : ToSet(target.imports[m]) = {}
    BY DEF ArchiveInit, ToSet
  <2>2. \A i \in Importers : importing[i] = 0
    BY DEF ArchiveInit
  <2> QED BY <2>1, <2>2 DEF BranchInv, ImportsTied, CheckHolds
<1>2. LineageInv /\ BranchInv /\ [ArchiveNext]_archiveVars => BranchInv'
  <2> SUFFICES ASSUME LineageInv, BranchInv, [ArchiveNext]_archiveVars PROVE BranchInv'
    OBVIOUS
  <2>1. CASE UNCHANGED archiveVars
    BY <2>1 DEF archiveVars, BranchInv, ImportsTied, CheckHolds, Diverges, Related
  <2> QED BY <2>1, ExportKeepsBranches, ImportKeepsBranches DEF ArchiveNext
<1>3. LineageInv /\ BranchInv => BranchesRefused
  <2> SUFFICES ASSUME LineageInv, BranchInv, NEW x \in Imports, NEW y \in Imports,
                      archives[x].month = archives[y].month
               PROVE  Tied(x, y, archives, target.accepted)
    BY DEF BranchesRefused, Tied
  <2>1. PICK m \in Months, n \in Months : x \in ToSet(target.imports[m]) /\ y \in ToSet(target.imports[n])
    BY DEF Imports
  <2>2. archives[x].month = m /\ archives[y].month = n
    BY <2>1 DEF BranchInv, ImportsTied
  <2> QED BY <2>1, <2>2 DEF BranchInv, ImportsTied
<1> QED BY <1>1, <1>2, <1>3, LineageInvariance, PTL DEF ArchiveSpec

(* What an import restores. *************************************************)
\* Archive a is row k of the rows E of month m, and continues those before it.
Follows(a, E, k, m) ==
  /\ a.month = m /\ a.revision = k /\ Len(a.lineage) = k
  /\ \A l \in 1 .. k : a.lineage[l] = E[l]

Descend(E, m, A) == \A k \in 1 .. Len(E) : Follows(A[E[k]], E, k, m)

RowsDescend == \A c \in Exporters, m \in Months : Descend(exports[c][m], m, archives)

\* What is held was written, and its content is the last that was.
HeldDated ==
  \A c \in Exporters, u \in Messages :
    /\ \A v \in held[c][u].known : v <= writes
    /\ held[c][u].month = Purged => held[c][u].content = 0
    /\ held[c][u].month # Purged => /\ held[c][u].content > 0
                                    /\ \A v \in held[c][u].known : v <= held[c][u].content

Dated(b) == \A u \in DOMAIN b : b[u].content > 0 /\ \A v \in b[u].known : v <= b[u].content

BucketsDated ==
  /\ \A id \in 1 .. Len(archives) : Dated(archives[id].bucket)
  /\ \A c \in Exporters : exporting[c] # NotExporting =>
       \A k \in 1 .. Len(exporting[c].plans) : Dated(exporting[c].plans[k].bucket)

\* The last of the rows E says what b does.
UpToDate(E, A, b) ==
  IF E = <<>> THEN DOMAIN b = {} ELSE ContentsOf(A[Last(E)].bucket) = ContentsOf(b)

Contents(c) == [m \in Months |-> Bucket(c, m)]

\* Month m is still to be collected, or to be written, or needs no archive. H is what the
\* exporter holds, X its exports rows.
Settled(m, months, plans, X, A, H) ==
  \/ m \in months
  \/ \E k \in 1 .. Len(plans) : plans[k].month = m
  \/ UpToDate(X[m], A, H[m])

\* If nothing changed since the export began, it writes what is held, and every month is settled.
JobFollows(job, X, A, H) ==
  /\ job.at = "verify" =>
       A[job.export].month = Head(job.plans).month /\ A[job.export].bucket = Head(job.plans).bucket
  /\ job.quiet =>
       /\ \A k \in 1 .. Len(job.plans) : job.plans[k].bucket = H[job.plans[k].month]
       /\ \A m \in Months : Settled(m, job.months, job.plans, X, A, H)

PlansFollow ==
  \A c \in Exporters : exporting[c] # NotExporting =>
    JobFollows(exporting[c], exports[c], archives, Contents(c))

Has(E, k, u, A) == u \in DOMAIN A[E[k]].bucket

\* Steady, of imports I that descend.
SteadyIn(u, I, A) ==
  \A m, n \in Months : \A k \in 1 .. Len(I[m]) : \A l \in 1 .. Len(I[n]) :
    Has(I[m], k, u, A) /\ Has(I[n], l, u, A) =>
      /\ m = n
      /\ k < l => /\ A[I[m][k]].bucket[u].content \in A[I[n][l]].bucket[u].known
                  /\ \A j \in k .. l : Has(I[m], j, u, A)

\* Record r of message u is what the last imported revision of its month says, or retired
\* if that has it no more.
RestoredAs(u, I, A, r) ==
  /\ (\A m \in Months : \A k \in 1 .. Len(I[m]) : ~Has(I[m], k, u, A)) => r = NoRecord
  /\ \A m \in Months : \A k \in 1 .. Len(I[m]) : Has(I[m], k, u, A) =>
       /\ Has(I[m], Len(I[m]), u, A) =>
            /\ r.retiredBy = 0 /\ r.content = A[I[m][Len(I[m])]].bucket[u].content /\ r.at = r.content
       /\ ~Has(I[m], Len(I[m]), u, A) => r.retiredBy # 0

AllDescend(I, A) == \A m \in Months : Descend(I[m], m, A)

RecordsFollow ==
  AllDescend(target.imports, archives) =>
    \A u \in Messages : SteadyIn(u, target.imports, archives) =>
      RestoredAs(u, target.imports, archives, target.records[u])

RestoreInv == HeldDated /\ BucketsDated /\ RowsDescend /\ PlansFollow /\ RecordsFollow

LEMMA BucketFacts ==
  ASSUME NEW b \in Buckets
  PROVE  /\ DOMAIN b \in SUBSET Messages
         /\ \A u \in DOMAIN b : b[u].content \in Nat /\ b[u].known \in SUBSET Nat
BY DEF Buckets

LEMMA ArchiveFacts ==
  ASSUME ArchivesTyped, NEW id \in 1 .. Len(archives)
  PROVE  archives[id] \in Archives /\ archives[id].bucket \in Buckets /\ archives[id].month \in Months
<1>1. archives \in Seq(Archives)
  BY DEF ArchivesTyped
<1>2. archives[id] \in Archives
  BY <1>1
<1> QED BY <1>2 DEF Archives

LEMMA SoundIs ==
  ASSUME ArchivesTyped, NEW id, Sound(id, folder, archives)
  PROVE  id \in 1 .. Len(archives)
BY DEF ArchivesTyped, Sound

\* Every row of the exports and imports tables names an archive.
LEMMA RowsName ==
  ASSUME LineageInv
  PROVE  /\ \A c \in Exporters, m \in Months :
              exports[c][m] \in Seq(Nat) /\ \A k \in 1 .. Len(exports[c][m]) : exports[c][m][k] \in 1 .. Len(archives)
         /\ \A m \in Months :
              /\ target.imports[m] \in Seq(Nat)
              /\ \A k \in 1 .. Len(target.imports[m]) : target.imports[m][k] \in 1 .. Len(archives)
<1>1. ArchivesTyped /\ RecordedSound /\ ImportedSound
  BY DEF LineageInv
<1>2. ASSUME NEW c \in Exporters, NEW m \in Months
      PROVE  exports[c][m] \in Seq(Nat) /\ \A k \in 1 .. Len(exports[c][m]) : exports[c][m][k] \in 1 .. Len(archives)
  <2>1. exports[c][m] \in Seq(Nat)
    BY <1>1 DEF ArchivesTyped
  <2> QED BY <1>1, <2>1, SoundIs DEF RecordedSound
<1>3. ASSUME NEW m \in Months
      PROVE  /\ target.imports[m] \in Seq(Nat)
             /\ \A k \in 1 .. Len(target.imports[m]) : target.imports[m][k] \in 1 .. Len(archives)
  <2>1. target.imports[m] \in Seq(Nat)
    BY <1>1 DEF ArchivesTyped, Targets
  <2> QED BY <1>1, <2>1, SoundIs DEF ImportedSound
<1> QED BY <1>2, <1>3

LEMMA RestoreStarts == ArchiveInit => RestoreInv
<1> SUFFICES ASSUME ArchiveInit PROVE RestoreInv
  OBVIOUS
<1>1. HeldDated
  BY DEF ArchiveInit, HeldDated, NotHeld
<1>2. BucketsDated /\ PlansFollow
  BY DEF ArchiveInit, BucketsDated, PlansFollow
<1>3. RowsDescend
  BY DEF ArchiveInit, RowsDescend, Descend
<1>4. RecordsFollow
  <2>1. target.imports = [m \in Months |-> <<>>] /\ \A u \in Messages : target.records[u] = NoRecord
    BY DEF ArchiveInit
  <2> QED BY <2>1 DEF RecordsFollow, RestoredAs
<1> QED BY <1>1, <1>2, <1>3, <1>4 DEF RestoreInv

\* The months of the rows.
LEMMA DescendStill ==
  ASSUME NEW E \in Seq(Nat), NEW m, NEW A, NEW B, Descend(E, m, A), \A k \in 1 .. Len(E) : B[E[k]] = A[E[k]]
  PROVE  Descend(E, m, B)
BY DEF Descend

LEMMA DescendOn ==
  ASSUME NEW E \in Seq(Nat), NEW m, NEW A, NEW id \in Nat, A[id].month = m, A[id].revision = Len(E) + 1,
         Len(A[id].lineage) = Len(E) + 1, A[id].lineage[Len(E) + 1] = id,
         \A k \in 1 .. Len(E) : A[id].lineage[k] = E[k], Descend(E, m, A)
  PROVE  Descend(Append(E, id), m, A)
<1> DEFINE F == Append(E, id)
           n == Len(E) + 1
<1>1. /\ Len(E) \in Nat /\ Len(F) = n /\ F[n] = id /\ \A k \in 1 .. Len(E) : F[k] = E[k]
  OBVIOUS
<1> HIDE DEF F
<1> SUFFICES ASSUME NEW k \in 1 .. Len(F) PROVE Follows(A[F[k]], F, k, m)
  BY DEF F, Descend
<1>2. CASE k \in 1 .. Len(E)
  <2>1. Follows(A[E[k]], E, k, m)
    BY <1>2 DEF Descend
  <2>2. \A l \in 1 .. k : l \in 1 .. Len(E)
    BY <1>1, <1>2
  <2>3. \A l \in 1 .. k : E[l] = F[l]
    BY <1>1, <2>2
  <2> QED BY <1>1, <1>2, <2>1, <2>3 DEF Follows
<1>3. CASE k = n
  <2>1. \A l \in 1 .. n : A[id].lineage[l] = F[l]
    BY <1>1
  <2> QED BY <1>1, <1>3, <2>1 DEF Follows
<1> QED BY <1>1, <1>2, <1>3

LEMMA DescendBack ==
  ASSUME NEW E \in Seq(Nat), NEW m, NEW A, NEW id \in Nat, Descend(Append(E, id), m, A)
  PROVE  /\ Descend(E, m, A) /\ A[id].revision = Len(E) + 1 /\ A[id].month = m
         /\ \A k \in 1 .. Len(E) : A[id].lineage[k] = E[k]
<1> DEFINE F == Append(E, id)
           n == Len(E) + 1
<1>1. /\ Len(E) \in Nat /\ Len(F) = n /\ F[n] = id /\ \A k \in 1 .. Len(E) : F[k] = E[k]
  OBVIOUS
<1> HIDE DEF F
<1>2. Descend(F, m, A)
  BY DEF F
<1>3. ASSUME NEW k \in 1 .. Len(E) PROVE Follows(A[E[k]], E, k, m)
  <2>1. Follows(A[F[k]], F, k, m)
    BY <1>1, <1>2 DEF Descend
  <2>2. \A l \in 1 .. k : E[l] = F[l]
    BY <1>1
  <2> QED BY <1>1, <2>1, <2>2 DEF Follows
<1>4. Descend(E, m, A)
  BY <1>3 DEF Descend
<1>5. Follows(A[id], F, n, m)
  BY <1>1, <1>2 DEF Descend
<1> QED BY <1>1, <1>4, <1>5 DEF Follows

\* What is told of imports, of archives that stay.
LEMMA RecordsStill ==
  ASSUME LineageInv, RecordsFollow, target'.imports = target.imports, target'.records = target.records,
         \A id \in 1 .. Len(archives) : archives'[id] = archives[id]
  PROVE  RecordsFollow'
<1> DEFINE I == target.imports
<1>1. \A m \in Months : I[m] \in Seq(Nat) /\ \A k \in 1 .. Len(I[m]) : archives'[I[m][k]] = archives[I[m][k]]
  BY RowsName
<1>2. \A m \in Months : Len(I[m]) \in Nat
  BY <1>1
<1> HIDE DEF I
<1>3. AllDescend(I, archives') => AllDescend(I, archives)
  BY <1>1, DescendStill DEF AllDescend
<1>4. \A u : \A m \in Months : \A k \in 1 .. Len(I[m]) : Has(I[m], k, u, archives') <=> Has(I[m], k, u, archives)
  BY <1>1 DEF Has
<1>5. \A u \in Messages : SteadyIn(u, I, archives') => SteadyIn(u, I, archives)
  <2> SUFFICES ASSUME NEW u \in Messages, SteadyIn(u, I, archives'), NEW m \in Months, NEW n \in Months,
                      NEW k \in 1 .. Len(I[m]), NEW l \in 1 .. Len(I[n]),
                      Has(I[m], k, u, archives), Has(I[n], l, u, archives)
               PROVE  /\ m = n
                      /\ k < l => /\ archives[I[m][k]].bucket[u].content \in archives[I[n][l]].bucket[u].known
                                  /\ \A j \in k .. l : Has(I[m], j, u, archives)
    BY DEF SteadyIn
  <2>1. Has(I[m], k, u, archives') /\ Has(I[n], l, u, archives')
    BY <1>4
  <2>2. /\ m = n
        /\ k < l => /\ archives'[I[m][k]].bucket[u].content \in archives'[I[n][l]].bucket[u].known
                    /\ \A j \in k .. l : Has(I[m], j, u, archives')
    BY <2>1 DEF SteadyIn
  <2>3. k < l => \A j \in k .. l : Has(I[m], j, u, archives)
    <3> SUFFICES ASSUME k < l, NEW j \in k .. l PROVE Has(I[m], j, u, archives)
      OBVIOUS
    <3>1. j \in 1 .. Len(I[m])
      BY <1>2, <2>2
    <3> QED BY <1>4, <2>2, <3>1
  <2> QED BY <1>1, <2>2, <2>3
<1>6. ASSUME NEW u \in Messages, RestoredAs(u, I, archives, target.records[u])
      PROVE  RestoredAs(u, I, archives', target.records[u])
  <2>1. \A m \in Months : \A k \in 1 .. Len(I[m]) : Len(I[m]) \in 1 .. Len(I[m])
    BY <1>2
  <2> QED BY <1>1, <1>4, <1>6, <2>1 DEF RestoredAs
<1> QED BY <1>3, <1>5, <1>6 DEF RecordsFollow, I

\* A month of imports I grows to J by archive id.
Grows(I, J, m, id) ==
  /\ Len(I[m]) \in Nat /\ Len(J[m]) = Len(I[m]) + 1 /\ J[m][Len(I[m]) + 1] = id
  /\ \A k \in 1 .. Len(I[m]) : J[m][k] = I[m][k]
  /\ \A n \in Months : n # m => J[n] = I[n]

LEMMA HasStill ==
  ASSUME NEW I, NEW J, NEW m \in Months, NEW id, NEW u, NEW A, Grows(I, J, m, id)
  PROVE  /\ \A n \in Months : \A k \in 1 .. Len(I[n]) :
              k \in 1 .. Len(J[n]) /\ J[n][k] = I[n][k] /\ (Has(J[n], k, u, A) <=> Has(I[n], k, u, A))
         /\ Has(J[m], Len(I[m]) + 1, u, A) <=> u \in DOMAIN A[id].bucket
         /\ Len(I[m]) + 1 \in 1 .. Len(J[m])
<1>1. ASSUME NEW n \in Months, NEW k \in 1 .. Len(I[n])
      PROVE  k \in 1 .. Len(J[n]) /\ J[n][k] = I[n][k] /\ (Has(J[n], k, u, A) <=> Has(I[n], k, u, A))
  <2>1. k \in 1 .. Len(J[n]) /\ J[n][k] = I[n][k]
    BY DEF Grows
  <2> QED BY <2>1 DEF Has
<1>2. (Has(J[m], Len(I[m]) + 1, u, A) <=> u \in DOMAIN A[id].bucket) /\ Len(I[m]) + 1 \in 1 .. Len(J[m])
  BY DEF Grows, Has
<1> QED BY <1>1, <1>2

LEMMA SteadyBack ==
  ASSUME NEW I, NEW J, NEW m0 \in Months, NEW id, NEW u, NEW A, Grows(I, J, m0, id), SteadyIn(u, J, A),
         \A m \in Months : Len(I[m]) \in Nat
  PROVE  SteadyIn(u, I, A)
<1> SUFFICES ASSUME NEW m \in Months, NEW n \in Months,
                    NEW k \in 1 .. Len(I[m]), NEW l \in 1 .. Len(I[n]),
                    Has(I[m], k, u, A), Has(I[n], l, u, A)
             PROVE  /\ m = n
                    /\ k < l => /\ A[I[m][k]].bucket[u].content \in A[I[n][l]].bucket[u].known
                                /\ \A j \in k .. l : Has(I[m], j, u, A)
  BY DEF SteadyIn
<1>0. \A o \in Months : \A j \in 1 .. Len(I[o]) :
        j \in 1 .. Len(J[o]) /\ J[o][j] = I[o][j] /\ (Has(J[o], j, u, A) <=> Has(I[o], j, u, A))
  BY HasStill
<1>1. /\ k \in 1 .. Len(J[m]) /\ l \in 1 .. Len(J[n]) /\ J[m][k] = I[m][k] /\ J[n][l] = I[n][l]
      /\ Has(J[m], k, u, A) /\ Has(J[n], l, u, A)
  BY <1>0
<1>2. /\ m = n
      /\ k < l => /\ A[J[m][k]].bucket[u].content \in A[J[n][l]].bucket[u].known
                  /\ \A j \in k .. l : Has(J[m], j, u, A)
  BY <1>1 DEF SteadyIn
<1>3. ASSUME k < l, NEW j \in k .. l PROVE Has(I[m], j, u, A)
  <2>1. j \in 1 .. Len(I[m])
    BY <1>2
  <2> QED BY <1>0, <1>2, <1>3, <2>1
<1> QED BY <1>1, <1>2, <1>3

LEMMA SteadyAt ==
  ASSUME NEW J, NEW m \in Months, NEW u, NEW A, SteadyIn(u, J, A), NEW k \in 1 .. Len(J[m]), NEW l \in 1 .. Len(J[m]),
         Has(J[m], k, u, A), Has(J[m], l, u, A), k < l
  PROVE  A[J[m][k]].bucket[u].content \in A[J[m][l]].bucket[u].known
BY DEF SteadyIn

\* The record r of message u after archive id, published at `at`, is applied to it; `before` is
\* whether the revision before it had u.
AppliedTo(r, u, id, A, before, at) ==
  IF u \in DOMAIN A[id].bucket THEN Imported(r, A[id].bucket[u])
  ELSE IF ~before \/ r = NoRecord \/ r.retiredBy # 0 THEN r
  ELSE [r EXCEPT !.retiredBy = id, !.at = at]

LEMMA Applied ==
  ASSUME NEW I, NEW J, NEW m0 \in Months, NEW id \in Nat \ {0}, NEW u, NEW A, Grows(I, J, m0, id),
         \A m \in Months : Len(I[m]) \in Nat, SteadyIn(u, J, A),
         \A m \in Months : \A k \in 1 .. Len(J[m]) : Dated(A[J[m][k]].bucket) /\ A[J[m][k]].bucket \in Buckets,
         NEW r \in [content : Nat, retiredBy : Nat, at : Nat], RestoredAs(u, I, A, r), NEW at,
         NEW before, before <=> Len(I[m0]) > 0 /\ Has(I[m0], Len(I[m0]), u, A)
  PROVE  RestoredAs(u, J, A, AppliedTo(r, u, id, A, before, at))
<1> DEFINE n == Len(I[m0]) + 1
           s == AppliedTo(r, u, id, A, before, at)
<1>1. /\ \A m \in Months : \A k \in 1 .. Len(I[m]) :
            k \in 1 .. Len(J[m]) /\ J[m][k] = I[m][k] /\ (Has(J[m], k, u, A) <=> Has(I[m], k, u, A))
      /\ Has(J[m0], n, u, A) <=> u \in DOMAIN A[id].bucket
      /\ n \in 1 .. Len(J[m0])
  BY HasStill
<1>2. Len(J[m0]) = n /\ J[m0][n] = id /\ n \in Nat /\ \A m \in Months : m # m0 => J[m] = I[m]
  BY DEF Grows
<1>3. \A m \in Months : \A k \in 1 .. Len(J[m]) : m # m0 \/ k # n => k \in 1 .. Len(I[m])
  BY <1>2
<1> HIDE DEF s
<1> SUFFICES RestoredAs(u, J, A, s)
  BY DEF s
<1>4. CASE u \in DOMAIN A[id].bucket
  <2> DEFINE w == A[id].bucket[u]
  <2>1. w.content \in Nat /\ w.content > 0 /\ w.known \in SUBSET Nat /\ \A v \in w.known : v <= w.content
    <3>1. Dated(A[id].bucket) /\ A[id].bucket \in Buckets
      BY <1>1, <1>2
    <3> QED BY <1>4, <3>1, BucketFacts DEF Dated
  <2>2. s = Imported(r, w)
    BY <1>4 DEF s, AppliedTo
  <2> HIDE DEF w
  <2>3. ASSUME NEW m \in Months, NEW k \in 1 .. Len(I[m]), Has(I[m], k, u, A)
        PROVE  /\ m = m0 /\ n - 1 \in 1 .. Len(I[m0]) /\ Has(I[m0], n - 1, u, A)
               /\ A[I[m0][n - 1]].bucket[u].content \in w.known
    <3>1. Has(J[m], k, u, A) /\ Has(J[m0], n, u, A) /\ k \in 1 .. Len(J[m])
      BY <1>1, <1>4, <2>3
    <3>2. m = m0
      BY <1>1, <3>1 DEF SteadyIn
    <3>3. k < n /\ n - 1 \in 1 .. Len(I[m0]) /\ n - 1 \in k .. n /\ n - 1 < n
      BY <1>2, <3>2
    <3>4. Has(J[m0], n - 1, u, A)
      BY <1>1, <3>1, <3>2, <3>3 DEF SteadyIn
    <3>5. n - 1 \in 1 .. Len(J[m0]) /\ J[m0][n - 1] = I[m0][n - 1] /\ Has(I[m0], n - 1, u, A)
      BY <1>1, <3>3, <3>4
    <3>6. A[J[m0][n - 1]].bucket[u].content \in A[J[m0][n]].bucket[u].known
      BY <1>1, <3>1, <3>3, <3>4, <3>5, SteadyAt
    <3> QED BY <1>2, <3>2, <3>3, <3>5, <3>6 DEF w
  <2>4. s.retiredBy = 0 /\ s.content = w.content /\ s.at = w.content
    <3>1. CASE \A m \in Months : \A k \in 1 .. Len(I[m]) : ~Has(I[m], k, u, A)
      <4>1. r = NoRecord
        BY <3>1 DEF RestoredAs
      <4> QED BY <2>2, <4>1 DEF Imported
    <3>2. CASE \E m \in Months : \E k \in 1 .. Len(I[m]) : Has(I[m], k, u, A)
      <4>1. n - 1 \in 1 .. Len(I[m0]) /\ Has(I[m0], n - 1, u, A) /\ A[I[m0][n - 1]].bucket[u].content \in w.known
        BY <2>3, <3>2
      <4>2. r.retiredBy = 0 /\ r.content \in w.known /\ r.at = r.content
        <5>1. n - 1 = Len(I[m0])
          BY <1>2 DEF Grows
        <5> QED BY <4>1, <5>1 DEF RestoredAs
      <4>3. w.content >= r.at
        BY <2>1, <4>2
      <4> QED BY <2>2, <4>2, <4>3 DEF Imported
    <3> QED BY <3>1, <3>2
  <2>5. ASSUME NEW m \in Months, NEW k \in 1 .. Len(J[m]), Has(J[m], k, u, A) PROVE m = m0
    BY <1>1, <1>4, <2>5 DEF SteadyIn
  <2>6. ~ \A m \in Months : \A k \in 1 .. Len(J[m]) : ~Has(J[m], k, u, A)
    BY <1>1, <1>4
  <2> QED BY <1>1, <1>2, <1>4, <2>4, <2>5, <2>6 DEF RestoredAs, w
<1>5. CASE u \notin DOMAIN A[id].bucket /\ before
  <2>1. n - 1 \in 1 .. Len(I[m0]) /\ Has(I[m0], n - 1, u, A) /\ n - 1 = Len(I[m0])
    BY <1>2, <1>5 DEF Grows
  <2>2. Has(J[m0], n - 1, u, A) /\ n - 1 \in 1 .. Len(J[m0])
    BY <1>1, <2>1
  <2>3. r.retiredBy = 0 /\ r.content = A[I[m0][n - 1]].bucket[u].content
    BY <2>1 DEF RestoredAs
  <2>4. r.content > 0
    <3>1. Dated(A[I[m0][n - 1]].bucket)
      BY <1>1, <2>1
    <3>2. u \in DOMAIN A[I[m0][n - 1]].bucket
      BY <2>1 DEF Has
    <3> QED BY <2>3, <3>1, <3>2 DEF Dated
  <2>5. s = [r EXCEPT !.retiredBy = id, !.at = at]
    BY <1>5, <2>3, <2>4 DEF s, AppliedTo, NoRecord
  <2>6. s.retiredBy # 0
    BY <2>5
  <2>7. ASSUME NEW m \in Months, NEW k \in 1 .. Len(J[m]), Has(J[m], k, u, A) PROVE m = m0
    BY <2>2, <2>7 DEF SteadyIn
  <2>8. ~ \A m \in Months : \A k \in 1 .. Len(J[m]) : ~Has(J[m], k, u, A)
    BY <2>2
  <2> QED BY <1>1, <1>2, <1>5, <2>6, <2>7, <2>8 DEF RestoredAs
<1>6. CASE u \notin DOMAIN A[id].bucket /\ ~before
  <2>1. s = r
    BY <1>6 DEF s, AppliedTo
  <2>2. ASSUME \A m \in Months : \A k \in 1 .. Len(J[m]) : ~Has(J[m], k, u, A) PROVE r = NoRecord
    BY <1>1, <2>2 DEF RestoredAs
  <2>3. ASSUME NEW m \in Months, NEW k \in 1 .. Len(J[m]), Has(J[m], k, u, A)
        PROVE  /\ Has(J[m], Len(J[m]), u, A) =>
                    r.retiredBy = 0 /\ r.content = A[J[m][Len(J[m])]].bucket[u].content /\ r.at = r.content
               /\ ~Has(J[m], Len(J[m]), u, A) => r.retiredBy # 0
    <3>1. k \in 1 .. Len(I[m]) /\ Has(I[m], k, u, A)
      BY <1>1, <1>2, <1>3, <1>6, <2>3
    <3>2. CASE m = m0
      <4>1. ~Has(J[m], Len(J[m]), u, A)
        BY <1>1, <1>2, <1>6, <3>2
      <4>2. ~Has(I[m0], Len(I[m0]), u, A)
        BY <1>6, <3>1, <3>2 DEF Grows
      <4> QED BY <3>1, <3>2, <4>1, <4>2 DEF RestoredAs
    <3>3. CASE m # m0
      BY <1>2, <3>1, <3>3 DEF RestoredAs
    <3> QED BY <3>2, <3>3
  <2> QED BY <2>1, <2>2, <2>3 DEF RestoredAs
<1> QED BY <1>4, <1>5, <1>6

LEMMA RetiredIs ==
  ASSUME NEW a, NEW u
  PROVE  u \in Retired(a) <=> u \notin DOMAIN a.bucket /\ \E x \in Preceding(a) \cap Imports : u \in DOMAIN archives[x].bucket
<1> DEFINE S == Preceding(a) \cap Imports
           D == DOMAIN a.bucket
<1> HIDE DEF S, D
<1>1. u \in (UNION {DOMAIN archives[x].bucket : x \in S}) \ D <=> u \notin D /\ \E x \in S : u \in DOMAIN archives[x].bucket
  OBVIOUS
<1> QED BY <1>1 DEF Retired, S, D

LEMMA ApplyRestores ==
  ASSUME LineageInv, RestoreInv, NEW i \in Importers, ApplyArchive(i)
  PROVE  RecordsFollow'
<1> DEFINE id == importing[i]
           a == archives[id]
           m0 == a.month
           I == target.imports
           J == target'.imports
           Record == [content : Nat, retiredBy : Nat, at : Nat]
           Tombstone(record) == IF record = NoRecord \/ record.retiredBy # 0 THEN record
                                ELSE [record EXCEPT !.retiredBy = id, !.at = a.at]
           New(u) == IF u \in DOMAIN a.bucket THEN Imported(target.records[u], a.bucket[u])
                     ELSE IF u \in Retired(a) THEN Tombstone(target.records[u])
                     ELSE target.records[u]
<1>1. ArchivesTyped /\ target \in Targets /\ UNCHANGED archives
  BY DEF LineageInv, ArchivesTyped, ApplyArchive, FromExport
<1>2. id \in 1 .. Len(archives) /\ id \in Nat \ {0}
  <2>1. id # 0 /\ Sound(id, folder, archives)
    BY DEF LineageInv, ImportedSound, ApplyArchive
  <2>2. id \in 1 .. Len(archives)
    BY <1>1, <2>1, SoundIs
  <2>3. Len(archives) \in Nat
    BY <1>1 DEF ArchivesTyped
  <2> QED BY <2>2, <2>3
<1>3. a \in Archives /\ m0 \in Months
  BY <1>1, <1>2, ArchiveFacts
<1>4. target' = [target EXCEPT !.records = [u \in Messages |-> New(u)], !.imports[a.month] = Append(@, id)]
  BY DEF ApplyArchive
<1>5. I \in [Months -> Seq(Nat)] /\ target.records \in [Messages -> Record]
  BY <1>1 DEF Targets
<1>6. J = [I EXCEPT ![m0] = Append(@, id)] /\ target'.records = [u \in Messages |-> New(u)]
  <2> HIDE DEF New, id, a
  <2> QED BY <1>1, <1>4 DEF Targets, a
<1> HIDE DEF J, I
<1>7. Grows(I, J, m0, id) /\ J[m0] = Append(I[m0], id)
  <2> HIDE DEF id, m0
  <2>1. I[m0] \in Seq(Nat) /\ J[m0] = Append(I[m0], id) /\ \A n \in Months : n # m0 => J[n] = I[n]
    BY <1>3, <1>5, <1>6
  <2> QED BY <1>2, <2>1 DEF Grows
<1>8. /\ \A m \in Months : I[m] \in Seq(Nat) /\ Len(I[m]) \in Nat
      /\ \A m \in Months : \A k \in 1 .. Len(J[m]) : J[m][k] \in 1 .. Len(archives)
  <2>1. \A m \in Months : I[m] \in Seq(Nat) /\ Len(I[m]) \in Nat
    BY <1>5
  <2>2. \A m \in Months : \A k \in 1 .. Len(I[m]) : I[m][k] \in 1 .. Len(archives)
    BY RowsName DEF I
  <2> HIDE DEF id, m0
  <2>3. ASSUME NEW m \in Months, NEW k \in 1 .. Len(J[m]) PROVE J[m][k] \in 1 .. Len(archives)
    <3>1. /\ Len(I[m0]) \in Nat /\ Len(J[m0]) = Len(I[m0]) + 1 /\ J[m0][Len(I[m0]) + 1] = id
          /\ \A l \in 1 .. Len(I[m0]) : J[m0][l] = I[m0][l]
          /\ m # m0 => J[m] = I[m]
      BY <1>7 DEF Grows
    <3>2. CASE m # m0
      BY <2>2, <3>1, <3>2
    <3>3. CASE m = m0
      <4>1. k \in 1 .. Len(I[m0]) \/ k = Len(I[m0]) + 1
        BY <3>1, <3>3
      <4> QED BY <1>2, <2>2, <3>1, <3>3, <4>1
    <3> QED BY <3>2, <3>3
  <2> QED BY <2>1, <2>3
<1>9. SUFFICES ASSUME AllDescend(J, archives), NEW u \in Messages, SteadyIn(u, J, archives)
               PROVE  RestoredAs(u, J, archives, target'.records[u])
  BY <1>1 DEF RecordsFollow, J
<1>10. /\ AllDescend(I, archives) /\ a.revision = Len(I[m0]) + 1
       /\ \A k \in 1 .. Len(I[m0]) : a.lineage[k] = I[m0][k]
  <2>1. Descend(Append(I[m0], id), m0, archives)
    BY <1>3, <1>7, <1>9 DEF AllDescend
  <2>2. /\ Descend(I[m0], m0, archives) /\ a.revision = Len(I[m0]) + 1
        /\ \A k \in 1 .. Len(I[m0]) : a.lineage[k] = I[m0][k]
    <3> HIDE DEF m0
    <3>1. I[m0] \in Seq(Nat) /\ id \in Nat
      BY <1>2, <1>3, <1>8
    <3> HIDE DEF id
    <3> QED BY <2>1, <3>1, DescendBack DEF a
  <2>3. \A m \in Months : m # m0 => Descend(I[m], m, archives)
    BY <1>7, <1>9 DEF AllDescend, Grows
  <2> QED BY <2>2, <2>3 DEF AllDescend
<1> DEFINE r == target.records[u]
           n == Len(I[m0])
           before == n > 0 /\ Has(I[m0], n, u, archives)
<1>11. r \in Record /\ RestoredAs(u, I, archives, r)
  <2>1. SteadyIn(u, I, archives)
    <3> HIDE DEF id, m0
    <3> QED BY <1>3, <1>7, <1>8, <1>9, SteadyBack
  <2> QED BY <1>5, <1>9, <1>10, <2>1 DEF RestoreInv, RecordsFollow, I
<1>12. u \in DOMAIN a.bucket \/ (u \in Retired(a) <=> before)
  <2> SUFFICES ASSUME u \notin DOMAIN a.bucket PROVE u \in Retired(a) <=> before
    OBVIOUS
  <2>1. u \in Retired(a) <=> \E x \in Preceding(a) \cap Imports : u \in DOMAIN archives[x].bucket
    <3> HIDE DEF a
    <3> QED BY RetiredIs
  <2>2. n \in Nat
    BY <1>3, <1>8
  <2>3. CASE n = 0
    BY <1>10, <2>1, <2>3 DEF Preceding
  <2>4. CASE n > 0
    <3> DEFINE x == I[m0][n]
    <3>1. n \in 1 .. Len(I[m0])
      BY <2>2, <2>4
    <3>2. Preceding(a) = {x}
      <4>1. a.revision = n + 1 /\ a.revision # 1 /\ a.revision - 1 = n
        BY <1>10, <2>2, <2>4
      <4> QED BY <1>10, <3>1, <4>1 DEF Preceding
    <3>3. x \in Imports
      <4>1. x \in ToSet(I[m0])
        BY <1>3, <1>8, <3>1 DEF ToSet
      <4> QED BY <1>3, <4>1 DEF Imports, I
    <3>4. Has(I[m0], n, u, archives) <=> u \in DOMAIN archives[x].bucket
      BY DEF Has
    <3> QED BY <2>1, <2>4, <3>2, <3>3, <3>4
  <2> QED BY <2>2, <2>3, <2>4
<1>13. target'.records[u] = AppliedTo(r, u, id, archives, before, a.at)
  BY <1>6, <1>12 DEF AppliedTo
<1>14. \A m \in Months : \A k \in 1 .. Len(J[m]) :
         Dated(archives[J[m][k]].bucket) /\ archives[J[m][k]].bucket \in Buckets
  BY <1>1, <1>8, ArchiveFacts DEF RestoreInv, BucketsDated
<1> HIDE DEF id, a, m0, before, r, n
<1>15. before <=> Len(I[m0]) > 0 /\ Has(I[m0], Len(I[m0]), u, archives)
  BY DEF before, n
<1>16. \A m \in Months : Len(I[m]) \in Nat
  BY <1>8
<1> QED BY <1>2, <1>3, <1>7, <1>9, <1>11, <1>13, <1>14, <1>15, <1>16, Applied

LEMMA ContentsStill ==
  ASSUME NEW c, held'[c] = held[c]
  PROVE  Contents(c)' = Contents(c)
BY DEF Contents, Bucket

LEMMA BucketDated ==
  ASSUME HeldDated, MonthlyArchiveAssumption, NEW c \in Exporters, NEW m \in Months
  PROVE  Dated(Bucket(c, m)) /\ Contents(c)[m] = Bucket(c, m)
<1>1. ASSUME NEW u \in DOMAIN Bucket(c, m)
      PROVE  /\ Bucket(c, m)[u].content > 0
             /\ \A v \in Bucket(c, m)[u].known : v <= Bucket(c, m)[u].content
  <2>1. /\ u \in Messages /\ held[c][u].month = m
        /\ Bucket(c, m)[u].content = held[c][u].content /\ Bucket(c, m)[u].known = held[c][u].known
    BY DEF Bucket
  <2>2. held[c][u].month # Purged
    BY <2>1, MonthlyArchiveAssumption
  <2> QED BY <2>1, <2>2 DEF HeldDated
<1> QED BY <1>1 DEF Dated, Contents

\* Rows of archives that stay say what they said.
LEMMA UpToDateStill ==
  ASSUME NEW E \in Seq(Nat), NEW A, NEW B, NEW b, \A k \in 1 .. Len(E) : B[E[k]] = A[E[k]], UpToDate(E, A, b)
  PROVE  UpToDate(E, B, b)
<1>1. CASE E = <<>>
  BY <1>1 DEF UpToDate
<1>2. CASE E # <<>>
  <2>1. Len(E) \in 1 .. Len(E)
    BY <1>2
  <2>2. B[Last(E)] = A[Last(E)]
    BY <2>1 DEF Last
  <2> QED BY <1>2, <2>2 DEF UpToDate
<1> QED BY <1>1, <1>2

LEMMA JobStill ==
  ASSUME LineageInv, NEW d \in Exporters, exporting[d] # NotExporting,
         JobFollows(exporting[d], exports[d], archives, Contents(d)),
         \A id \in 1 .. Len(archives) : archives'[id] = archives[id]
  PROVE  JobFollows(exporting[d], exports[d], archives', Contents(d))
<1>1. exporting[d].at = "verify" => exporting[d].export \in 1 .. Len(archives)
  BY DEF LineageInv, VerifiesNext, IsNext, ArchivesTyped
<1>2. \A m \in Months : /\ exports[d][m] \in Seq(Nat)
                       /\ \A k \in 1 .. Len(exports[d][m]) : archives'[exports[d][m][k]] = archives[exports[d][m][k]]
  BY RowsName
<1>3. \A m \in Months : UpToDate(exports[d][m], archives, Contents(d)[m]) => UpToDate(exports[d][m], archives', Contents(d)[m])
  BY <1>2, UpToDateStill
<1> QED BY <1>1, <1>3 DEF JobFollows, Settled

\* A step of one export.
LEMMA ExportFrame ==
  ASSUME LineageInv, RestoreInv, NEW c \in Exporters, UNCHANGED <<writes, held, target>>,
         \A id \in 1 .. Len(archives) : archives'[id] = archives[id],
         \A d \in Exporters : d # c => exporting'[d] = exporting[d] /\ exports'[d] = exports[d],
         \A m \in Months : Descend(exports'[c][m], m, archives'),
         \A id \in 1 .. Len(archives') : Dated(archives'[id].bucket),
         exporting'[c] # NotExporting =>
           /\ \A k \in 1 .. Len(exporting'[c].plans) : Dated(exporting'[c].plans[k].bucket)
           /\ JobFollows(exporting'[c], exports'[c], archives', Contents(c))
  PROVE  RestoreInv'
<1>1. HeldDated'
  BY DEF RestoreInv, HeldDated
<1>2. BucketsDated'
  BY DEF RestoreInv, BucketsDated
<1>3. RowsDescend'
  <2> SUFFICES ASSUME NEW d \in Exporters, NEW m \in Months, d # c PROVE Descend(exports[d][m], m, archives')
    BY DEF RowsDescend
  <2>1. /\ exports[d][m] \in Seq(Nat) /\ Descend(exports[d][m], m, archives)
        /\ \A k \in 1 .. Len(exports[d][m]) : archives'[exports[d][m][k]] = archives[exports[d][m][k]]
    BY RowsName DEF RestoreInv, RowsDescend
  <2> QED BY <2>1, DescendStill
<1>4. PlansFollow'
  <2>1. \A d \in Exporters : Contents(d)' = Contents(d)
    BY ContentsStill
  <2> SUFFICES ASSUME NEW d \in Exporters, exporting'[d] # NotExporting
               PROVE  JobFollows(exporting'[d], exports'[d], archives', Contents(d))
    BY <2>1 DEF PlansFollow
  <2>2. CASE d = c
    BY <2>2
  <2>3. CASE d # c
    <3>1. exporting'[d] = exporting[d] /\ exports'[d] = exports[d] /\ exporting[d] # NotExporting
      BY <2>3
    <3>2. JobFollows(exporting[d], exports[d], archives, Contents(d))
      BY <3>1 DEF RestoreInv, PlansFollow
    <3>3. JobFollows(exporting[d], exports[d], archives', Contents(d))
      BY <3>1, <3>2, JobStill
    <3> QED BY <3>1, <3>3
  <2> QED BY <2>2, <2>3
<1>5. RecordsFollow'
  BY RecordsStill DEF RestoreInv
<1> QED BY <1>1, <1>2, <1>3, <1>4, <1>5 DEF RestoreInv

\* ... that publishes and records nothing.
LEMMA ExportGoes ==
  ASSUME LineageInv, RestoreInv, NEW c \in Exporters, NEW job \in Exports \cup {NotExporting}, Goes(c, job),
         UNCHANGED <<writes, held, target, archives, exports>>,
         job # NotExporting =>
           /\ \A k \in 1 .. Len(job.plans) : Dated(job.plans[k].bucket)
           /\ JobFollows(job, exports[c], archives, Contents(c))
  PROVE  RestoreInv'
<1>1. exporting'[c] = job /\ \A d \in Exporters : d # c => exporting'[d] = exporting[d]
  BY DEF LineageInv, ArchivesTyped, Goes
<1>2. \A m \in Months : Descend(exports[c][m], m, archives)
  BY DEF RestoreInv, RowsDescend
<1>3. \A id \in 1 .. Len(archives) : Dated(archives[id].bucket)
  BY DEF RestoreInv, BucketsDated
<1> QED BY <1>1, <1>2, <1>3, ExportFrame

LEMMA ExportGoesRestore ==
  ASSUME LineageInv, RestoreInv, NEW c \in opened,
         StartExport(c) \/ CollectBucket(c) \/ SkipBucket(c) \/ EndExport(c)
  PROVE  RestoreInv'
<1> DEFINE was == exporting[c]
<1>1. c \in Exporters /\ ArchivesTyped
  BY DEF LineageInv, ArchivesTyped
<1>2. was # NotExporting => /\ \A k \in 1 .. Len(was.plans) : Dated(was.plans[k].bucket)
                            /\ JobFollows(was, exports[c], archives, Contents(c))
  BY <1>1 DEF RestoreInv, BucketsDated, PlansFollow
<1>3. UNCHANGED <<writes, held, target, archives, exports>>
  BY DEF StartExport, CollectBucket, SkipBucket, EndExport, ToExport
<1>4. \A m \in Months : Dated(Bucket(c, m)) /\ Contents(c)[m] = Bucket(c, m)
  BY <1>1, BucketDated, MonthlyArchiveAssumption DEF RestoreInv
<1>5. CASE StartExport(c)
  <2>1. PICK force \in Forces : exporting' = [exporting EXCEPT ![c] = Started(force, Planned(c))]
    BY <1>5 DEF StartExport
  <2> DEFINE job == Started(force, Planned(c))
  <2>2. Planned(c) \in SUBSET Months /\ force \in BOOLEAN
    BY MonthlyArchiveAssumption DEF Planned
  <2>3. job \in Exports /\ job.at = "collect" /\ job.plans = <<>> /\ job.months = Planned(c)
    BY <2>2 DEF Started, Exports
  <2>4. ASSUME NEW m \in Months, m \notin Planned(c) PROVE UpToDate(exports[c][m], archives, Contents(c)[m])
    <3>1. m <= m
      BY MonthlyArchiveAssumption
    <3>2. exports[c][m] = <<>> /\ DOMAIN Bucket(c, m) = {}
      BY <2>4, <3>1 DEF Planned
    <3> QED BY <1>4, <3>2 DEF UpToDate
  <2>5. Goes(c, job)
    BY <2>1 DEF Goes
  <2> HIDE DEF job
  <2>6. JobFollows(job, exports[c], archives, Contents(c))
    BY <2>3, <2>4 DEF JobFollows, Settled
  <2> QED BY <1>1, <1>3, <2>3, <2>5, <2>6, ExportGoes
<1>6. CASE CollectBucket(c)
  <2>1. PICK m \in was.months :
          Goes(c, [was EXCEPT !.months = @ \ {m}, !.plans = Append(@, [month |-> m, bucket |-> Bucket(c, m)])])
    BY <1>6 DEF CollectBucket
  <2>2. was \in Exports /\ was.at = "collect" /\ was # NotExporting
    BY <1>1, <1>6, UnderExport, ExportsDiffer DEF CollectBucket
  <2>3. m \in Months /\ was.plans \in Seq(Plans)
    BY <2>2 DEF Exports
  <2> DEFINE plan == [month |-> m, bucket |-> Bucket(c, m)]
             job == [was EXCEPT !.months = @ \ {m}, !.plans = Append(@, plan)]
             plans == Append(was.plans, plan)
             n == Len(was.plans)
  <2>4. plan \in Plans /\ plan.month = m /\ plan.bucket = Bucket(c, m)
    BY <1>1, <2>3, Bucketed DEF Plans
  <2> HIDE DEF plan
  <2>5. /\ n \in Nat /\ plans \in Seq(Plans) /\ Len(plans) = n + 1 /\ plans[n + 1] = plan
        /\ \A k \in 1 .. n : plans[k] = was.plans[k]
    BY <2>3, <2>4
  <2> HIDE DEF plans
  <2>6. /\ job \in Exports /\ job.at = "collect" /\ job.plans = plans /\ job.months = was.months \ {m}
        /\ job.quiet = was.quiet
    BY <2>2, <2>5 DEF Exports, plans
  <2>7. Goes(c, job)
    BY <2>1 DEF plan
  <2> HIDE DEF job, n
  <2>8. ASSUME NEW k \in 1 .. Len(plans)
        PROVE  (k \in 1 .. n /\ plans[k] = was.plans[k]) \/ plans[k] = plan
    BY <2>5
  <2>9. \A k \in 1 .. Len(job.plans) : Dated(job.plans[k].bucket)
    BY <1>2, <1>4, <2>2, <2>3, <2>4, <2>6, <2>8 DEF n
  <2>10. JobFollows(job, exports[c], archives, Contents(c))
    <3> SUFFICES ASSUME was.quiet
                 PROVE  /\ \A k \in 1 .. Len(plans) : plans[k].bucket = Contents(c)[plans[k].month]
                        /\ \A o \in Months : Settled(o, was.months \ {m}, plans, exports[c], archives, Contents(c))
      BY <2>6 DEF JobFollows
    <3>1. /\ \A k \in 1 .. n : was.plans[k].bucket = Contents(c)[was.plans[k].month]
          /\ \A o \in Months : Settled(o, was.months, was.plans, exports[c], archives, Contents(c))
      BY <1>2, <2>2 DEF JobFollows, n
    <3>2. plan.bucket = Contents(c)[plan.month]
      BY <1>4, <2>3, <2>4
    <3>3. n + 1 \in 1 .. Len(plans) /\ plans[n + 1].month = m /\ \A k \in 1 .. n : k \in 1 .. Len(plans)
      BY <2>4, <2>5
    <3>4. \A k \in 1 .. Len(plans) : plans[k].bucket = Contents(c)[plans[k].month]
      BY <2>8, <3>1, <3>2
    <3>5. ASSUME NEW o \in Months
          PROVE  Settled(o, was.months \ {m}, plans, exports[c], archives, Contents(c))
      <4>1. CASE o \in was.months
        BY <3>3, <4>1 DEF Settled
      <4>2. CASE \E k \in 1 .. n : was.plans[k].month = o
        BY <2>5, <3>3, <4>2 DEF Settled
      <4> QED BY <3>1, <4>1, <4>2 DEF Settled, n
    <3> QED BY <3>4, <3>5
  <2> QED BY <1>1, <1>3, <2>6, <2>7, <2>9, <2>10, ExportGoes
<1>7. CASE SkipBucket(c)
  <2>1. was \in Exports /\ was.at = "collect" /\ was.plans # <<>> /\ was # NotExporting /\ Skipped(c, Head(was.plans))
    BY <1>1, <1>7, UnderExport, ExportsDiffer DEF SkipBucket
  <2> DEFINE job == [was EXCEPT !.plans = Tail(@)]
             n == Len(was.plans)
             plans == Tail(was.plans)
  <2>2. /\ was.plans \in Seq(Plans) /\ n \in Nat /\ n > 0 /\ plans \in Seq(Plans) /\ Len(plans) = n - 1
        /\ \A k \in 1 .. n - 1 : plans[k] = was.plans[k + 1]
        /\ Head(was.plans) = was.plans[1]
    BY <2>1 DEF Exports
  <2> HIDE DEF plans
  <2>3. /\ job \in Exports /\ job.at = "collect" /\ job.plans = plans /\ job.months = was.months
        /\ job.quiet = was.quiet
    BY <2>1, <2>2 DEF Exports, plans
  <2>4. Goes(c, job)
    BY <1>7 DEF SkipBucket
  <2> HIDE DEF job, n
  <2>5. \A k \in 1 .. Len(job.plans) : Dated(job.plans[k].bucket)
    BY <1>2, <2>1, <2>2, <2>3 DEF n
  <2>6. JobFollows(job, exports[c], archives, Contents(c))
    <3> SUFFICES ASSUME was.quiet
                 PROVE  /\ \A k \in 1 .. Len(plans) : plans[k].bucket = Contents(c)[plans[k].month]
                        /\ \A o \in Months : Settled(o, was.months, plans, exports[c], archives, Contents(c))
      BY <2>3 DEF JobFollows
    <3>1. /\ \A k \in 1 .. n : was.plans[k].bucket = Contents(c)[was.plans[k].month]
          /\ \A o \in Months : Settled(o, was.months, was.plans, exports[c], archives, Contents(c))
      BY <1>2, <2>1 DEF JobFollows, n
    <3> DEFINE plan == was.plans[1]
               E == exports[c][plan.month]
    <3>2. plan.bucket = Contents(c)[plan.month] /\ Skipped(c, plan)
      BY <2>1, <2>2, <3>1
    <3> HIDE DEF plan
    <3>3. UpToDate(E, archives, Contents(c)[plan.month])
      <4>1. CASE E = <<>>
        BY <3>2, <4>1 DEF Skipped, UpToDate, ExportRows
      <4>2. CASE E # <<>>
        BY <3>2, <4>2 DEF Skipped, Unchanged, UpToDate, ExportRows
      <4> QED BY <4>1, <4>2
    <3>4. ASSUME NEW o \in Months
          PROVE  Settled(o, was.months, plans, exports[c], archives, Contents(c))
      <4>1. ASSUME NEW k \in 1 .. n, was.plans[k].month = o, k # 1
            PROVE  \E l \in 1 .. Len(plans) : plans[l].month = o
        <5>1. k - 1 \in 1 .. n - 1 /\ (k - 1) + 1 = k
          BY <2>2, <4>1
        <5>2. plans[k - 1] = was.plans[k]
          BY <2>2, <5>1
        <5> QED BY <2>2, <4>1, <5>1, <5>2
      <4>2. ASSUME was.plans[1].month = o PROVE UpToDate(exports[c][o], archives, Contents(c)[o])
        BY <3>3, <4>2 DEF plan
      <4> QED BY <3>1, <4>1, <4>2 DEF Settled, n
    <3>5. \A k \in 1 .. Len(plans) : plans[k].bucket = Contents(c)[plans[k].month]
      <4> SUFFICES ASSUME NEW k \in 1 .. Len(plans) PROVE plans[k].bucket = Contents(c)[plans[k].month]
        OBVIOUS
      <4>1. k + 1 \in 1 .. n /\ plans[k] = was.plans[k + 1]
        BY <2>2
      <4> QED BY <3>1, <4>1
    <3> QED BY <3>4, <3>5
  <2> QED BY <1>1, <1>3, <2>3, <2>4, <2>5, <2>6, ExportGoes
<1>8. CASE EndExport(c)
  BY <1>1, <1>3, <1>8, ExportGoes DEF EndExport
<1> QED BY <1>5, <1>6, <1>7, <1>8

LEMMA PublishRestores ==
  ASSUME LineageInv, RestoreInv, NEW c \in opened, NEW sound \in BOOLEAN, PublishBucket(c, sound)
  PROVE  RestoreInv'
<1> DEFINE was == exporting[c]
           plan == Head(was.plans)
           a == Archive(c, plan, sound)
           id == Len(archives) + 1
<1>1. c \in Exporters /\ ArchivesTyped /\ archives \in Seq(Archives)
  BY DEF LineageInv, ArchivesTyped
<1>2. was \in Exports /\ was.at = "collect" /\ was.plans # <<>> /\ was # NotExporting
  BY <1>1, UnderExport, ExportsDiffer DEF PublishBucket
<1>3. /\ \A k \in 1 .. Len(was.plans) : Dated(was.plans[k].bucket)
      /\ JobFollows(was, exports[c], archives, Contents(c))
  BY <1>1, <1>2 DEF RestoreInv, BucketsDated, PlansFollow
<1>4. was.plans \in Seq(Plans) /\ 1 \in 1 .. Len(was.plans) /\ plan = was.plans[1] /\ plan \in Plans
  BY <1>2 DEF Exports
<1>5. UNCHANGED <<writes, held, target, exports>>
  BY DEF PublishBucket
<1>6. CASE InTheWay(c, a) /\ Goes(c, NotExporting) /\ UNCHANGED <<folder, archives>>
  BY <1>1, <1>5, <1>6, ExportGoes
<1>7. CASE archives' = Append(archives, a) /\ Goes(c, [was EXCEPT !.at = "verify", !.export = id])
  <2> DEFINE job == [was EXCEPT !.at = "verify", !.export = id]
  <2>1. a.month = plan.month /\ a.bucket = plan.bucket
    BY DEF Archive
  <2> HIDE DEF a, plan
  <2>2. /\ Len(archives) \in Nat /\ Len(archives') = id /\ archives'[id] = a
        /\ \A x \in 1 .. Len(archives) : archives'[x] = archives[x]
    BY <1>1, <1>7
  <2>3. /\ job.at = "verify" /\ job.export = id /\ job.plans = was.plans
        /\ job.months = was.months /\ job.quiet = was.quiet
    BY <1>2 DEF Exports
  <2>4. exporting'[c] = job /\ \A d \in Exporters : d # c => exporting'[d] = exporting[d]
    <3> HIDE DEF job
    <3>1. exporting' = [exporting EXCEPT ![c] = job]
      BY <1>7 DEF Goes, job
    <3> QED BY <1>1, <3>1 DEF ArchivesTyped
  <2> HIDE DEF job, id
  <2>5. JobFollows(job, exports[c], archives', Contents(c))
    <3>1. JobFollows(was, exports[c], archives', Contents(c))
      BY <1>1, <1>2, <1>3, <2>2, JobStill
    <3>2. Head(was.plans) = plan
      BY DEF plan
    <3> QED BY <2>1, <2>2, <2>3, <3>1, <3>2 DEF JobFollows
  <2>6. \A m \in Months : Descend(exports[c][m], m, archives')
    <3> SUFFICES ASSUME NEW m \in Months PROVE Descend(exports[c][m], m, archives')
      OBVIOUS
    <3>1. /\ exports[c][m] \in Seq(Nat) /\ Descend(exports[c][m], m, archives)
          /\ \A k \in 1 .. Len(exports[c][m]) : archives'[exports[c][m][k]] = archives[exports[c][m][k]]
      BY <1>1, <2>2, RowsName DEF RestoreInv, RowsDescend
    <3> QED BY <3>1, DescendStill
  <2>7. \A x \in 1 .. Len(archives') : Dated(archives'[x].bucket)
    <3> SUFFICES ASSUME NEW x \in 1 .. Len(archives') PROVE Dated(archives'[x].bucket)
      OBVIOUS
    <3>1. x \in 1 .. Len(archives) \/ x = id
      BY <2>2 DEF id
    <3>2. Dated(a.bucket)
      BY <1>3, <1>4, <2>1
    <3> QED BY <2>2, <3>1, <3>2 DEF RestoreInv, BucketsDated
  <2> QED BY <1>1, <1>3, <1>5, <2>2, <2>3, <2>4, <2>5, <2>6, <2>7, ExportFrame
<1> QED BY <1>6, <1>7 DEF PublishBucket

LEMMA RecordRestores ==
  ASSUME LineageInv, RestoreInv, NEW c \in opened, RecordBucket(c)
  PROVE  RestoreInv'
<1> DEFINE was == exporting[c]
           id == was.export
           a == archives[id]
           E == exports[c][a.month]
<1>1. c \in Exporters /\ ArchivesTyped
  BY DEF LineageInv, ArchivesTyped
<1>2. was \in Exports /\ was.at = "verify" /\ was # NotExporting
  BY <1>1, UnderExport, ExportsDiffer DEF RecordBucket
<1>3. id \in folder[c] /\ a.revision = Len(E) + 1 /\ was.plans # <<>> /\ Continues(a, id, c, E)
  BY <1>1, <1>2 DEF LineageInv, VerifiesNext, IsNext, FilesContinue
<1>4. id \in 1 .. Len(archives) /\ id \in Nat /\ a \in Archives /\ a.month \in Months /\ E \in Seq(Nat)
  <2>1. id \in 1 .. Len(archives)
    BY <1>1, <1>3 DEF ArchivesTyped
  <2>2. a \in Archives /\ a.month \in Months
    BY <1>1, <2>1, ArchiveFacts
  <2> QED BY <1>1, <2>1, <2>2 DEF ArchivesTyped
<1>5. /\ \A k \in 1 .. Len(was.plans) : Dated(was.plans[k].bucket)
      /\ JobFollows(was, exports[c], archives, Contents(c))
  BY <1>1, <1>2 DEF RestoreInv, BucketsDated, PlansFollow
<1>6. UNCHANGED <<writes, held, archives, target>>
  BY DEF RecordBucket
<1>7. CASE UNCHANGED exports /\ Goes(c, NotExporting)
  BY <1>1, <1>6, <1>7, ExportGoes
<1>8. CASE /\ exports' = [exports EXCEPT ![c][a.month] = Append(@, id)]
           /\ Goes(c, [was EXCEPT !.at = "collect", !.plans = Tail(@), !.export = 0])
  <2> DEFINE job == [was EXCEPT !.at = "collect", !.plans = Tail(@), !.export = 0]
             n == Len(was.plans)
             plans == Tail(was.plans)
             F == Append(E, id)
  <2>1. /\ exports'[c][a.month] = F
        /\ \A m \in Months : m # a.month => exports'[c][m] = exports[c][m]
        /\ \A d \in Exporters : d # c => exports'[d] = exports[d]
    <3> HIDE DEF id, a
    <3> QED BY <1>1, <1>4, <1>8 DEF ArchivesTyped
  <2> HIDE DEF id, a, E
  <2>2. /\ was.plans \in Seq(Plans) /\ n \in Nat /\ n > 0 /\ plans \in Seq(Plans) /\ Len(plans) = n - 1
        /\ \A k \in 1 .. n - 1 : plans[k] = was.plans[k + 1]
        /\ Head(was.plans) = was.plans[1]
    BY <1>2, <1>3 DEF Exports
  <2> HIDE DEF plans
  <2>3. job.at = "collect" /\ job.plans = plans /\ job.months = was.months /\ job.quiet = was.quiet
    BY <1>2, <2>2 DEF Exports, plans
  <2>4. exporting'[c] = job /\ \A d \in Exporters : d # c => exporting'[d] = exporting[d]
    <3> HIDE DEF job
    <3>1. exporting' = [exporting EXCEPT ![c] = job]
      BY <1>8 DEF Goes, job
    <3> QED BY <1>1, <3>1 DEF ArchivesTyped
  <2>5. F # <<>> /\ Last(F) = id
    <3>1. Len(F) = Len(E) + 1 /\ F[Len(E) + 1] = id /\ Len(E) \in Nat
      BY <1>4
    <3> HIDE DEF F
    <3> QED BY <3>1 DEF Last
  <2> HIDE DEF job, n, F
  <2>6. \A k \in 1 .. Len(job.plans) : Dated(job.plans[k].bucket)
    <3> SUFFICES ASSUME NEW k \in 1 .. Len(plans) PROVE Dated(plans[k].bucket)
      BY <2>3
    <3>1. k + 1 \in 1 .. n /\ plans[k] = was.plans[k + 1]
      BY <2>2
    <3> QED BY <1>5, <3>1 DEF n
  <2>7. \A m \in Months : Descend(exports'[c][m], m, archives)
    <3> SUFFICES ASSUME NEW m \in Months PROVE Descend(exports'[c][m], m, archives)
      OBVIOUS
    <3>1. Descend(exports[c][m], m, archives)
      BY <1>1 DEF RestoreInv, RowsDescend
    <3>2. CASE m # a.month
      BY <2>1, <3>1, <3>2
    <3>3. CASE m = a.month
      <4>1. /\ archives[id] = a /\ a.revision = Len(E) + 1 /\ Len(a.lineage) = Len(E) + 1
            /\ a.lineage[Len(E) + 1] = id /\ \A k \in 1 .. Len(E) : a.lineage[k] = E[k]
        <5>1. /\ Len(E) \in Nat /\ a.revision = Len(a.lineage) /\ a.lineage[a.revision] = id
              /\ \A k \in 1 .. a.revision - 1 : a.lineage[k] = E[k]
          BY <1>3, <1>4 DEF Continues
        <5>2. archives[id] = a /\ a.revision = Len(E) + 1 /\ a.revision - 1 = Len(E)
          BY <1>3, <5>1 DEF a
        <5> QED BY <5>1, <5>2
      <4>2. Descend(E, a.month, archives)
        BY <3>1, <3>3 DEF E
      <4>3. Descend(Append(E, id), a.month, archives)
        BY <1>4, <4>1, <4>2, DescendOn
      <4> QED BY <2>1, <3>3, <4>3 DEF F
    <3> QED BY <3>2, <3>3
  <2>8. JobFollows(job, exports'[c], archives, Contents(c))
    <3> SUFFICES ASSUME was.quiet
                 PROVE  /\ \A k \in 1 .. Len(plans) : plans[k].bucket = Contents(c)[plans[k].month]
                        /\ \A o \in Months : Settled(o, was.months, plans, exports'[c], archives, Contents(c))
      BY <2>3 DEF JobFollows
    <3>1. /\ \A k \in 1 .. n : was.plans[k].bucket = Contents(c)[was.plans[k].month]
          /\ \A o \in Months : Settled(o, was.months, was.plans, exports[c], archives, Contents(c))
          /\ a.month = was.plans[1].month /\ a.bucket = was.plans[1].bucket
      BY <1>2, <1>5, <2>2 DEF JobFollows, n, a, id
    <3>2. UpToDate(F, archives, Contents(c)[a.month])
      <4>1. archives[Last(F)].bucket = Contents(c)[a.month]
        BY <2>2, <2>5, <3>1 DEF a
      <4> QED BY <2>5, <4>1 DEF UpToDate
    <3>3. ASSUME NEW o \in Months
          PROVE  Settled(o, was.months, plans, exports'[c], archives, Contents(c))
      <4>1. CASE o = a.month
        BY <2>1, <3>2, <4>1 DEF Settled
      <4>2. CASE o # a.month
        <5>1. exports'[c][o] = exports[c][o]
          BY <2>1, <4>2
        <5>2. ASSUME NEW k \in 1 .. n, was.plans[k].month = o
              PROVE  \E l \in 1 .. Len(plans) : plans[l].month = o
          <6>1. k - 1 \in 1 .. n - 1 /\ (k - 1) + 1 = k
            BY <2>2, <3>1, <4>2, <5>2
          <6>2. plans[k - 1] = was.plans[k]
            BY <2>2, <6>1
          <6> QED BY <2>2, <5>2, <6>1, <6>2
        <5> QED BY <3>1, <5>1, <5>2 DEF Settled, n
      <4> QED BY <4>1, <4>2
    <3>4. \A k \in 1 .. Len(plans) : plans[k].bucket = Contents(c)[plans[k].month]
      <4> SUFFICES ASSUME NEW k \in 1 .. Len(plans) PROVE plans[k].bucket = Contents(c)[plans[k].month]
        OBVIOUS
      <4>1. k + 1 \in 1 .. n /\ plans[k] = was.plans[k + 1]
        BY <2>2
      <4> QED BY <3>1, <4>1
    <3> QED BY <3>3, <3>4
  <2>9. \A x \in 1 .. Len(archives) : Dated(archives[x].bucket)
    BY DEF RestoreInv, BucketsDated
  <2> QED BY <1>1, <1>6, <2>1, <2>4, <2>6, <2>7, <2>8, <2>9, ExportFrame
<1> QED BY <1>7, <1>8 DEF RecordBucket

LEMMA ChangeRestores ==
  ASSUME LineageInv, RestoreInv, NEW c \in opened, NEW u \in Messages,
         (\E m \in Months : WriteMessage(c, u, m)) \/ PurgeMessage(c, u)
  PROVE  RestoreInv'
<1>1. c \in Exporters /\ ArchivesTyped
  BY DEF LineageInv, ArchivesTyped
<1>2. PICK new : /\ ChangeMessage(c, u, new)
                 /\ \/ new = NotHeld
                    \/ \E m \in Months : new = [month |-> m, content |-> writes + 1,
                                              known |-> held[c][u].known \cup {writes + 1}]
  BY DEF WriteMessage, PurgeMessage
<1>3. /\ writes' = writes + 1 /\ UNCHANGED <<exports, archives, target>>
      /\ held' = [held EXCEPT ![c][u] = new]
      /\ \A d \in Exporters : d # c => exporting'[d] = exporting[d]
      /\ exporting'[c] = IF exporting[c] = NotExporting THEN NotExporting ELSE [exporting[c] EXCEPT !.quiet = FALSE]
  BY <1>1, <1>2 DEF ChangeMessage, ToExport, ArchivesTyped
<1>4. writes \in Nat /\ held \in [Exporters -> [Messages -> Holdings]]
  BY <1>1 DEF ArchivesTyped
<1>5. /\ held'[c][u] = new
      /\ \A d \in Exporters, v \in Messages : d # c \/ v # u => held'[d][v] = held[d][v]
      /\ \A d \in Exporters : d # c => held'[d] = held[d]
  BY <1>1, <1>3, <1>4
<1>6. exporting[c] # NotExporting =>
        /\ exporting'[c] # NotExporting /\ ~exporting'[c].quiet
        /\ exporting'[c].at = exporting[c].at /\ exporting'[c].plans = exporting[c].plans
        /\ exporting'[c].export = exporting[c].export
  <2> SUFFICES ASSUME exporting[c] # NotExporting
               PROVE  /\ exporting'[c] # NotExporting /\ ~exporting'[c].quiet
                      /\ exporting'[c].at = exporting[c].at /\ exporting'[c].plans = exporting[c].plans
                      /\ exporting'[c].export = exporting[c].export
    OBVIOUS
  <2>1. exporting[c] \in Exports /\ exporting'[c] = [exporting[c] EXCEPT !.quiet = FALSE]
    BY <1>1, <1>3 DEF ArchivesTyped
  <2>2. exporting'[c] \in Exports
    BY <2>1 DEF Exports
  <2> QED BY <2>1, <2>2, ExportsDiffer DEF Exports
<1>7. HeldDated'
  <2> SUFFICES ASSUME NEW d \in Exporters, NEW v \in Messages
               PROVE  /\ \A w \in held'[d][v].known : w <= writes + 1
                      /\ held'[d][v].month = Purged => held'[d][v].content = 0
                      /\ held'[d][v].month # Purged => /\ held'[d][v].content > 0
                                                      /\ \A w \in held'[d][v].known : w <= held'[d][v].content
    BY <1>3 DEF HeldDated
  <2>1. /\ held[d][v].known \in SUBSET Nat /\ \A w \in held[d][v].known : w <= writes
        /\ held[d][v].month = Purged => held[d][v].content = 0
        /\ held[d][v].month # Purged => /\ held[d][v].content > 0
                                       /\ \A w \in held[d][v].known : w <= held[d][v].content
    BY <1>4 DEF RestoreInv, HeldDated, Holdings
  <2>2. \A w \in held[d][v].known : w <= writes + 1
    BY <1>4, <2>1
  <2>3. CASE d # c \/ v # u
    BY <1>5, <2>1, <2>2, <2>3
  <2>4. CASE d = c /\ v = u
    <3>1. CASE new = NotHeld
      BY <1>5, <2>4, <3>1 DEF NotHeld
    <3>2. CASE \E m \in Months : new = [month |-> m, content |-> writes + 1,
                                      known |-> held[c][u].known \cup {writes + 1}]
      <4>1. /\ held'[d][v].month \in Months /\ held'[d][v].content = writes + 1
            /\ held'[d][v].known = held[d][v].known \cup {writes + 1}
        BY <1>5, <2>4, <3>2
      <4>2. held'[d][v].month # Purged
        BY <4>1, MonthlyArchiveAssumption
      <4> QED BY <1>4, <2>2, <4>1, <4>2
    <3> QED BY <1>2, <3>1, <3>2
  <2> QED BY <2>3, <2>4
<1>8. BucketsDated'
  <2>1. \A d \in Exporters : exporting'[d] # NotExporting =>
          exporting[d] # NotExporting /\ exporting'[d].plans = exporting[d].plans
    BY <1>3, <1>6
  <2> QED BY <1>3, <2>1 DEF RestoreInv, BucketsDated
<1>9. RowsDescend'
  BY <1>3 DEF RestoreInv, RowsDescend
<1>10. PlansFollow'
  <2> SUFFICES ASSUME NEW d \in Exporters, exporting'[d] # NotExporting
               PROVE  JobFollows(exporting'[d], exports[d], archives, Contents(d)')
    BY <1>3 DEF PlansFollow
  <2>1. exporting[d] # NotExporting /\ JobFollows(exporting[d], exports[d], archives, Contents(d))
    <3>1. exporting[d] # NotExporting
      BY <1>3
    <3> QED BY <3>1 DEF RestoreInv, PlansFollow
  <2>2. CASE d = c
    BY <1>6, <2>1, <2>2 DEF JobFollows
  <2>3. CASE d # c
    BY <1>3, <1>5, <2>1, <2>3, ContentsStill
  <2> QED BY <2>2, <2>3
<1>11. RecordsFollow'
  BY <1>3, RecordsStill DEF RestoreInv
<1> QED BY <1>7, <1>8, <1>9, <1>10, <1>11 DEF RestoreInv

LEMMA CopyRestores ==
  ASSUME LineageInv, RestoreInv, NEW c \in Exporters, Copy(c)
  PROVE  RestoreInv'
<1>1. FirstExporter \in Exporters /\ exporting[c] = NotExporting /\ ArchivesTyped
  BY MonthlyArchiveAssumption DEF LineageInv, Unopened, Copy
<1>2. /\ exports'[c] = exports[FirstExporter] /\ held'[c] = held[FirstExporter]
      /\ \A d \in Exporters : d # c => exports'[d] = exports[d] /\ held'[d] = held[d]
      /\ UNCHANGED <<writes, archives, exporting, target>>
  BY <1>1 DEF Copy, ArchivesTyped
<1>3. \A d \in Exporters : \E e \in Exporters : exports'[d] = exports[e] /\ held'[d] = held[e]
  BY <1>1, <1>2
<1>4. HeldDated'
  <2> SUFFICES ASSUME NEW d \in Exporters, NEW u \in Messages
               PROVE  /\ \A v \in held'[d][u].known : v <= writes
                      /\ held'[d][u].month = Purged => held'[d][u].content = 0
                      /\ held'[d][u].month # Purged => /\ held'[d][u].content > 0
                                                      /\ \A v \in held'[d][u].known : v <= held'[d][u].content
    BY <1>2 DEF HeldDated
  <2>1. PICK e \in Exporters : held'[d] = held[e]
    BY <1>3
  <2> QED BY <2>1 DEF RestoreInv, HeldDated
<1>5. BucketsDated'
  BY <1>2 DEF RestoreInv, BucketsDated
<1>6. RowsDescend'
  <2> SUFFICES ASSUME NEW d \in Exporters, NEW m \in Months PROVE Descend(exports'[d][m], m, archives)
    BY <1>2 DEF RowsDescend
  <2>1. PICK e \in Exporters : exports'[d] = exports[e]
    BY <1>3
  <2> QED BY <2>1 DEF RestoreInv, RowsDescend
<1>7. PlansFollow'
  <2> SUFFICES ASSUME NEW d \in Exporters, exporting[d] # NotExporting
               PROVE  JobFollows(exporting[d], exports'[d], archives, Contents(d)')
    BY <1>2 DEF PlansFollow
  <2>1. d # c
    BY <1>1
  <2>2. exports'[d] = exports[d] /\ Contents(d)' = Contents(d)
    BY <1>2, <2>1, ContentsStill
  <2> QED BY <2>2 DEF RestoreInv, PlansFollow
<1>8. RecordsFollow'
  BY <1>2, RecordsStill DEF RestoreInv
<1> QED BY <1>4, <1>5, <1>6, <1>7, <1>8 DEF RestoreInv

LEMMA ImportRestores ==
  ASSUME LineageInv, RestoreInv,
         \/ \E i \in Importers :
              \/ \E id \in UNION {folder[c] : c \in Exporters} : CheckLineage(i, id)
              \/ ApplyArchive(i) \/ AbandonImport(i)
         \/ \E id \in target.branches : AcceptBranch(id)
  PROVE  RestoreInv'
<1>1. UNCHANGED <<writes, held, exports, archives, exporting>>
  BY DEF CheckLineage, ApplyArchive, AbandonImport, AcceptBranch, FromExport
<1>2. HeldDated' /\ BucketsDated' /\ RowsDescend'
  BY <1>1 DEF RestoreInv, HeldDated, BucketsDated, RowsDescend
<1>3. PlansFollow'
  <2>1. \A d \in Exporters : Contents(d)' = Contents(d)
    BY <1>1, ContentsStill
  <2> QED BY <1>1, <2>1 DEF RestoreInv, PlansFollow
<1>4. RecordsFollow'
  <2>1. CASE \E i \in Importers : ApplyArchive(i)
    BY <2>1, ApplyRestores
  <2>2. CASE ~\E i \in Importers : ApplyArchive(i)
    <3>1. target \in Targets
      BY DEF LineageInv, ArchivesTyped
    <3>2. \/ UNCHANGED target
          \/ \E id : \/ target' = [target EXCEPT !.branches = @ \cup {id}]
                    \/ target' = [target EXCEPT !.branches = @ \ {id}, !.accepted = @ \cup {id}]
      BY <2>2 DEF CheckLineage, AbandonImport, AcceptBranch
    <3>3. target'.imports = target.imports /\ target'.records = target.records
      BY <3>1, <3>2 DEF Targets
    <3> QED BY <1>1, <3>3, RecordsStill DEF RestoreInv
  <2> QED BY <2>1, <2>2
<1> QED BY <1>2, <1>3, <1>4 DEF RestoreInv

\* What an export collects and writes, and what imports make of it (plan_buckets,
\* write_archive, _apply_records).
THEOREM RestoreInvariance == ArchiveSpec => []RestoreInv
<1>1. LineageInv /\ RestoreInv /\ [ArchiveNext]_archiveVars => RestoreInv'
  <2> SUFFICES ASSUME LineageInv, RestoreInv, [ArchiveNext]_archiveVars PROVE RestoreInv'
    OBVIOUS
  <2>1. CASE UNCHANGED archiveVars
    <3>1. UNCHANGED <<writes, held, exports, archives, exporting, target>>
      BY <2>1 DEF archiveVars
    <3>2. \A d \in Exporters : Contents(d)' = Contents(d)
      BY <3>1, ContentsStill
    <3> QED BY <3>1, <3>2 DEF RestoreInv, HeldDated, BucketsDated, RowsDescend, PlansFollow, RecordsFollow
  <2>2. CASE ArchiveNext
    BY <2>2, CopyRestores, ChangeRestores, ExportGoesRestore, PublishRestores, RecordRestores, ImportRestores
       DEF ArchiveNext
  <2> QED BY <2>1, <2>2
<1> QED BY <1>1, RestoreStarts, LineageInvariance, PTL DEF ArchiveSpec

\* When an export finishes that nothing disturbed, a target that imported each revision of
\* each month, one after another, holds every steady message as the exporter does
\* (plan_buckets, _apply_records).
THEOREM RestoringGivesWhatIsHeld == ArchiveSpec => []RestoreExact
<1>1. LineageInv /\ RestoreInv => RestoreExact
  <2> SUFFICES ASSUME LineageInv, RestoreInv, NEW c \in Exporters, Finished(c), exporting[c].quiet,
                      \A m \in Months : target.imports[m] = exports[c][m],
                      NEW u \in Messages, Steady(u)
               PROVE  (IF target.records[u].retiredBy = 0 THEN target.records[u].content ELSE 0) = held[c][u].content
    BY DEF RestoreExact, ExportRows
  <2> DEFINE I == target.imports
             A == archives
             r == target.records[u]
             h == held[c][u]
  <2>1. AllDescend(I, A)
    BY DEF AllDescend, RestoreInv, RowsDescend
  <2>2. \A m \in Months : I[m] \in Seq(Nat) /\ Len(I[m]) \in Nat
    <3>1. \A m \in Months : I[m] \in Seq(Nat)
      BY RowsName
    <3> QED BY <3>1
  <2>3. SteadyIn(u, I, A)
    <3> SUFFICES ASSUME NEW m \in Months, NEW n \in Months, NEW k \in 1 .. Len(I[m]), NEW l \in 1 .. Len(I[n]),
                        Has(I[m], k, u, A), Has(I[n], l, u, A)
                 PROVE  /\ m = n
                        /\ k < l => /\ A[I[m][k]].bucket[u].content \in A[I[n][l]].bucket[u].known
                                    /\ \A j \in k .. l : Has(I[m], j, u, A)
      BY DEF SteadyIn
    <3> DEFINE x == I[m][k]
               y == I[n][l]
    <3>1. Follows(A[x], I[m], k, m) /\ Follows(A[y], I[n], l, n)
      BY <2>1 DEF AllDescend, Descend
    <3>2. x \in Imports /\ y \in Imports
      BY <2>2 DEF Imports, ToSet
    <3>3. u \in DOMAIN A[x].bucket /\ u \in DOMAIN A[y].bucket
      BY DEF Has
    <3>4. /\ A[x].month = A[y].month
          /\ A[x].revision < A[y].revision =>
               /\ A[x].bucket[u].content \in A[y].bucket[u].known
               /\ \A z \in ToSet(A[y].lineage) : A[z].revision > A[x].revision => u \in DOMAIN A[z].bucket
      BY <3>2, <3>3 DEF Steady
    <3> HIDE DEF x, y
    <3>5. A[x].month = m /\ A[y].month = n /\ A[x].revision = k /\ A[y].revision = l
      BY <3>1 DEF Follows
    <3>6. ASSUME k < l, NEW j \in k .. l PROVE Has(I[m], j, u, A)
      <4>1. j \in 1 .. l /\ m = n /\ j \in 1 .. Len(I[n])
        <5>1. m = n
          BY <3>4, <3>5
        <5>2. Len(I[m]) \in Nat /\ Len(I[n]) \in Nat
          BY <2>2
        <5> HIDE DEF I
        <5> QED BY <5>1, <5>2
      <4>2. CASE j = k
        BY <4>2
      <4>3. CASE j > k
        <5>1. A[y].lineage[j] = I[n][j] /\ Len(A[y].lineage) = l
          BY <3>1, <4>1 DEF Follows
        <5>2. I[n][j] \in ToSet(A[y].lineage)
          <6>1. A[y].lineage \in Seq(Nat)
            <7>1. y \in 1 .. Len(archives)
              BY RowsName DEF y
            <7> QED BY <7>1, ArchiveFacts DEF LineageInv, Archives
          <6> QED BY <4>1, <5>1, <6>1 DEF ToSet
        <5>3. A[I[n][j]].revision = j
          BY <2>1, <4>1 DEF AllDescend, Descend, Follows
        <5>4. u \in DOMAIN A[I[n][j]].bucket
          BY <3>4, <3>5, <3>6, <4>3, <5>2, <5>3
        <5> QED BY <4>1, <5>4 DEF Has
      <4> QED BY <4>1, <4>2, <4>3
    <3> QED BY <3>4, <3>5, <3>6 DEF x, y
  <2>4. RestoredAs(u, I, A, r)
    BY <2>1, <2>3 DEF RestoreInv, RecordsFollow
  <2>5. \A m \in Months : UpToDate(I[m], A, Bucket(c, m))
    <3> SUFFICES ASSUME NEW m \in Months PROVE UpToDate(I[m], A, Bucket(c, m))
      OBVIOUS
    <3>1. JobFollows(exporting[c], exports[c], A, Contents(c))
      BY DEF RestoreInv, PlansFollow, Finished
    <3>2. Settled(m, exporting[c].months, exporting[c].plans, exports[c], A, Contents(c))
      BY <3>1 DEF JobFollows
    <3>3. exporting[c].months = {} /\ exporting[c].plans = <<>>
      BY DEF Finished
    <3>4. UpToDate(exports[c][m], A, Contents(c)[m])
      BY <3>2, <3>3 DEF Settled
    <3> QED BY <3>4 DEF Contents
  <2>6. h \in Holdings /\ h.month \in Months \cup {Purged}
    BY DEF LineageInv, ArchivesTyped, Holdings
  <2>7. \A m \in Months : \A k \in 1 .. Len(I[m]) : Len(I[m]) \in 1 .. Len(I[m])
    BY <2>2
  <2>8. ASSUME NEW m \in Months, I[m] # <<>>
        PROVE  /\ Has(I[m], Len(I[m]), u, A) <=> u \in DOMAIN Bucket(c, m)
               /\ u \in DOMAIN Bucket(c, m) => A[I[m][Len(I[m])]].bucket[u].content = Bucket(c, m)[u].content
    <3>1. ContentsOf(A[I[m][Len(I[m])]].bucket) = ContentsOf(Bucket(c, m))
      BY <2>5, <2>8 DEF UpToDate, Last
    <3> QED BY <3>1 DEF Has, ContentsOf
  <2>9. \A m \in Months : u \in DOMAIN Bucket(c, m) <=> h.month = m
    BY DEF Bucket
  <2>10. CASE h.month = Purged
    <3>1. h.content = 0 /\ Purged \notin Months
      BY <2>10, MonthlyArchiveAssumption DEF RestoreInv, HeldDated
    <3>2. CASE \A m \in Months : \A k \in 1 .. Len(I[m]) : ~Has(I[m], k, u, A)
      <4>1. r = NoRecord
        BY <2>4, <3>2 DEF RestoredAs
      <4> QED BY <3>1, <4>1 DEF NoRecord
    <3>3. CASE \E m \in Months : \E k \in 1 .. Len(I[m]) : Has(I[m], k, u, A)
      <4>1. PICK m \in Months : \E k \in 1 .. Len(I[m]) : Has(I[m], k, u, A)
        BY <3>3
      <4>2. I[m] # <<>>
        BY <2>2, <4>1
      <4>3. ~Has(I[m], Len(I[m]), u, A)
        BY <2>8, <2>9, <2>10, <3>1, <4>2
      <4>4. r.retiredBy # 0
        BY <2>4, <4>1, <4>3 DEF RestoredAs
      <4> QED BY <3>1, <4>4
    <3> QED BY <3>2, <3>3
  <2>11. CASE h.month # Purged
    <3> DEFINE m == h.month
    <3>1. m \in Months /\ u \in DOMAIN Bucket(c, m) /\ Bucket(c, m)[u].content = h.content
      BY <2>6, <2>9, <2>11 DEF Bucket
    <3>2. I[m] # <<>>
      BY <2>5, <3>1 DEF UpToDate
    <3>3. Has(I[m], Len(I[m]), u, A) /\ A[I[m][Len(I[m])]].bucket[u].content = h.content
      BY <2>8, <3>1, <3>2
    <3>4. Len(I[m]) \in 1 .. Len(I[m])
      BY <2>2, <3>1, <3>2
    <3>5. r.retiredBy = 0 /\ r.content = h.content
      BY <2>4, <3>1, <3>3, <3>4 DEF RestoredAs
    <3> QED BY <3>5
  <2> QED BY <2>10, <2>11
<1> QED BY <1>1, LineageInvariance, RestoreInvariance, PTL
=============================================================================
