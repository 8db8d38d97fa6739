---------------------------- MODULE FileLogProofs ----------------------------
(***************************************************************************)
(* Proofs about FileLog, for every size and number of rotated files, any   *)
(* number of lines, days, failures and restarts.                           *)
(***************************************************************************)
EXTENDS FileLogInv, FiniteSetTheorems, SequenceTheorems, TLAPS

USE FileLogAssumption

-----------------------------------------------------------------------------
(* The rotated files. *)

(* At most m are left: the number of later files tells any two of them apart,
   as their days differ. *)
LEMMA LatestBound ==
    ASSUME NEW files, IsFiniteSet(files), NEW m \in Nat \ {0},
           \A b \in files : b.day \in Nat,
           \A b, c \in files : b.day = c.day => b = c
    PROVE  Cardinality(Latest(files, m)) <= m
<1> DEFINE After(b) == {c \in files : c.day > b.day}
           rank == [b \in Latest(files, m) |-> Cardinality(After(b))]
<1>1. \A b \in files : IsFiniteSet(After(b)) /\ Cardinality(After(b)) \in Nat
    BY FS_Subset, FS_CardinalityType
<1>2. Latest(files, m) \in SUBSET files /\ \A b \in Latest(files, m) : Cardinality(After(b)) < m
    BY DEF Latest
<1>3. IsFiniteSet(Latest(files, m)) /\ Cardinality(Latest(files, m)) \in Nat
    BY <1>2, FS_Subset, FS_CardinalityType
<1>4. ASSUME NEW b \in files, NEW c \in files, b.day < c.day
      PROVE  Cardinality(After(c)) # Cardinality(After(b))
  <2>1. After(c) \in SUBSET After(b) /\ c \in After(b) /\ c \notin After(c)
    BY <1>4
  <2> HIDE DEF After
  <2> QED
    BY <1>1, <2>1, FS_Subset
<1> HIDE DEF After
<1>5. \A b, c \in Latest(files, m) : b # c => rank[b] # rank[c]
  <2>1. \A b, c \in files : b # c => b.day < c.day \/ c.day < b.day
    OBVIOUS
  <2> QED
    BY <1>2, <1>4, <2>1
<1>6. rank \in [Latest(files, m) -> 0 .. m - 1]
    BY <1>1, <1>2
<1>7. IsFiniteSet(0 .. m - 1) /\ Cardinality(0 .. m - 1) = m
    BY FS_Interval
<1> HIDE DEF rank
<1>8. ~(m < Cardinality(Latest(files, m)))
    BY <1>3, <1>5, <1>6, <1>7, FS_PigeonHole
<1> QED
    BY <1>3, <1>8

LEMMA LatestSubset ==
    ASSUME NEW files, NEW m
    PROVE  Latest(files, m) \in SUBSET files
BY DEF Latest

(* A rename gives the current file the day its interval began, and there is
   no other of that day. *)
LEMMA RenamedFacts ==
    ASSUME TypeOK, DayInv
    PROVE  /\ IsFiniteSet(Renamed)
           /\ Cardinality(Renamed) <= Cardinality(backups) + 1
           /\ \A b \in Renamed : \/ b \in backups
                                 \/ b.day = rolloverAt - 1 /\ b.lines = file
           /\ \A b \in Renamed : b.day \in Nat /\ b.lines \in Seq(Line) /\ b.day < rolloverAt
           /\ \A b, c \in Renamed : b.day = c.day => b = c
<1> DEFINE current == [day |-> rolloverAt - 1, lines |-> file]
<1>1. /\ rolloverAt - 1 \in Nat /\ rolloverAt - 1 < rolloverAt /\ file \in Seq(Line)
      /\ \A b \in backups : b.day \in Nat /\ b.lines \in Seq(Line) /\ b.day < rolloverAt
    BY DEF DayInv, TypeOK
<1>2. current.day = rolloverAt - 1 /\ current.lines = file
    BY <1>1
<1>3. Renamed \in SUBSET (OtherDays \cup {current})
    BY DEF Renamed
<1> HIDE DEF current
<1>4. /\ OtherDays \in SUBSET backups /\ IsFiniteSet(backups)
      /\ \A b \in OtherDays : b \in backups /\ b.day # rolloverAt - 1
    BY DEF OtherDays, DayInv
<1>5. IsFiniteSet(OtherDays) /\ Cardinality(OtherDays) <= Cardinality(backups)
    BY <1>4, FS_Subset
<1>6. Cardinality(OtherDays) \in Nat /\ Cardinality(backups) \in Nat
    BY <1>4, <1>5, FS_CardinalityType
<1>7. /\ IsFiniteSet(OtherDays \cup {current})
      /\ Cardinality(OtherDays \cup {current}) <= Cardinality(OtherDays) + 1
    BY <1>5, <1>6, FS_AddElement
<1>8. /\ IsFiniteSet(Renamed)
      /\ Cardinality(Renamed) <= Cardinality(OtherDays \cup {current})
    BY <1>3, <1>7, FS_Subset
<1>9. Cardinality(Renamed) \in Nat /\ Cardinality(OtherDays \cup {current}) \in Nat
    BY <1>7, <1>8, FS_CardinalityType
<1>10. Cardinality(Renamed) <= Cardinality(backups) + 1
    BY <1>5, <1>6, <1>7, <1>8, <1>9
<1>11. \A b \in Renamed : \/ b \in backups /\ b.day # rolloverAt - 1
                          \/ b.day = rolloverAt - 1 /\ b.lines = file /\ b = current
    BY <1>2, <1>3, <1>4
<1>12. \A b \in Renamed : b.day \in Nat /\ b.lines \in Seq(Line) /\ b.day < rolloverAt
    BY <1>1, <1>11
<1>13. \A b, c \in Renamed : b.day = c.day => b = c
    BY <1>11 DEF DayInv
<1> QED
    BY <1>8, <1>10, <1>11, <1>12, <1>13

-----------------------------------------------------------------------------
(* What the steps do to the queue. *)

LEMMA QueueFacts ==
    ASSUME TypeOK
    PROVE  /\ Len(queue) \in Nat
           /\ DOMAIN queue = 1 .. Len(queue)
           /\ \A n \in DOMAIN queue : n \in Nat /\ queue[n] \in Nat
<1>1. queue \in Seq(Nat)
    BY DEF TypeOK
<1> QED
    BY <1>1, LenProperties, ElementOfSeq

LEMMA QueuePut ==
    ASSUME TypeOK, NEW e \in Nat, queue' = Append(queue, e)
    PROVE  /\ queue' \in Seq(Nat)
           /\ DOMAIN queue' = DOMAIN queue \cup {Len(queue) + 1}
           /\ queue'[Len(queue) + 1] = e
           /\ \A n \in DOMAIN queue : n < Len(queue) + 1 /\ queue'[n] = queue[n]
<1>1. /\ queue' \in Seq(Nat)
      /\ Len(queue') = Len(queue) + 1
      /\ \A i \in 1 .. Len(queue) : queue'[i] = queue[i]
      /\ queue'[Len(queue) + 1] = e
    BY AppendProperties DEF TypeOK
<1>2. DOMAIN queue' = 1 .. Len(queue) + 1
    BY <1>1, LenProperties
<1> QED
    BY <1>1, <1>2, QueueFacts

LEMMA QueueTaken ==
    ASSUME TypeOK, queue # <<>>, queue' = Tail(queue)
    PROVE  /\ queue' \in Seq(Nat)
           /\ 1 \in DOMAIN queue /\ Head(queue) = queue[1] /\ Head(queue) \in Nat
           /\ \A n \in DOMAIN queue' :
                 n + 1 \in DOMAIN queue /\ 1 < n + 1 /\ queue'[n] = queue[n + 1]
           /\ \A n, k \in DOMAIN queue' : n < k => n + 1 < k + 1
<1>1. /\ Head(queue) \in Nat
      /\ queue' \in Seq(Nat)
      /\ Len(queue') = Len(queue) - 1
      /\ \A i \in 1 .. Len(queue') : queue'[i] = queue[i + 1]
    BY HeadTailProperties DEF TypeOK
<1>2. DOMAIN queue' = 1 .. Len(queue) - 1
    BY <1>1, LenProperties
<1>3. Len(queue) # 0
    BY EmptySeq DEF TypeOK
<1>4. 1 \in DOMAIN queue /\ Head(queue) = queue[1]
    BY <1>3, QueueFacts
<1>5. \A n \in DOMAIN queue' :
         n + 1 \in DOMAIN queue /\ 1 < n + 1 /\ queue'[n] = queue[n + 1]
    BY <1>1, <1>2, QueueFacts
<1>6. \A n, k \in DOMAIN queue' : n < k => n + 1 < k + 1
    BY <1>2, QueueFacts
<1> QED
    BY <1>1, <1>4, <1>5, <1>6

-----------------------------------------------------------------------------
(* What the steps do to the line in hand and to the files. *)

(* The steps that take a line from the queue. *)
TakesLine == Take \/ Reject \/ Rotate \/ CloseFails \/ RenameFails \/ ReopenFails

LEMMA LineTaken ==
    ASSUME TakesLine
    PROVE  /\ listening /\ hand = {} /\ queue # <<>> /\ Head(queue) # Sentinel
           /\ queue' = Tail(queue)
           /\ hand' = {} \/ hand' = {[n |-> Head(queue), day |-> today]}
           /\ UNCHANGED <<today, logged, listening, exit, last, late, crashes>>
<1>1. CASE Take \/ Rotate
    BY <1>1 DEF Take, Rotate, NextLine
<1>2. CASE Reject
    BY <1>2 DEF Reject, NextLine, handler
<1>3. CASE CloseFails \/ RenameFails \/ ReopenFails
  <2>1. RolloverFails
    BY <1>3 DEF CloseFails, RenameFails, ReopenFails
  <2> QED
    BY <2>1 DEF RolloverFails, NextLine
<1> QED
    BY <1>1, <1>2, <1>3 DEF TakesLine

(* The steps that leave the handler and the disk alone. *)
Quiet ==
    NextDay \/ Log \/ Reject \/ TakeSentinel \/ BeginStop \/ Exit \/ UNCHANGED vars

LEMMA QuietEffect ==
    ASSUME Quiet
    PROVE  /\ UNCHANGED <<handler, disk, faults, late>>
           /\ today' = today \/ today' = today + 1
BY DEF Quiet, NextDay, Log, Reject, TakeSentinel, BeginStop, Exit, vars

LEMMA NextCases ==
    [Next]_vars => \/ Quiet \/ Take \/ Rotate
                   \/ CloseFails \/ RenameFails \/ ReopenFails
                   \/ Write \/ Restart
BY DEF Next, Quiet

LEMMA FileFacts ==
    ASSUME NEW s \in Seq(Line)
    PROVE  /\ Len(s) \in Nat
           /\ DOMAIN s = 1 .. Len(s)
           /\ \A i \in DOMAIN s : s[i] \in Line /\ s[i].n \in Nat /\ s[i].day \in Nat
<1>1. Len(s) \in Nat /\ DOMAIN s = 1 .. Len(s) /\ \A i \in DOMAIN s : s[i] \in Line
    BY LenProperties, ElementOfSeq
<1>2. \A l \in Line : l.n \in Nat /\ l.day \in Nat
    BY DEF Line
<1> QED
    BY <1>1, <1>2

(* A file without its last lines. *)
LEMMA Shortened ==
    ASSUME NEW s \in Seq(Line), NEW k \in 0 .. Len(s)
    PROVE  LET t == SubSeq(s, 1, Len(s) - k)
           IN  /\ t \in Seq(Line) /\ Len(t) = Len(s) - k
               /\ \A i \in DOMAIN t : i \in DOMAIN s /\ t[i] = s[i]
<1> DEFINE t == SubSeq(s, 1, Len(s) - k)
<1>1. Len(s) \in Nat /\ DOMAIN s = 1 .. Len(s) /\ \A i \in DOMAIN s : s[i] \in Line
    BY FileFacts
<1>2. Len(s) - k \in Nat /\ Len(s) - k <= Len(s) /\ Len(s) - k \in Int /\ 1 \in Int
    BY <1>1
<1>3. \A i \in 1 .. Len(s) - k : i \in DOMAIN s /\ s[i] \in Line /\ 1 + i - 1 = i
    BY <1>1, <1>2
<1>4. /\ t \in Seq(Line)
      /\ Len(t) = IF 1 <= Len(s) - k THEN Len(s) - k - 1 + 1 ELSE 0
      /\ \A i \in 1 .. Len(s) - k - 1 + 1 : t[i] = s[1 + i - 1]
    BY <1>2, <1>3, SubSeqProperties
<1> HIDE DEF t
<1>5. Len(t) = Len(s) - k
    BY <1>2, <1>4
<1>6. DOMAIN t = 1 .. Len(s) - k
    BY <1>4, <1>5, LenProperties
<1>7. \A i \in 1 .. Len(s) - k : t[i] = s[i]
    BY <1>2, <1>3, <1>4
<1>8. t \in Seq(Line) /\ \A i \in DOMAIN t : i \in DOMAIN s /\ t[i] = s[i]
    BY <1>3, <1>4, <1>6, <1>7
<1> QED
    BY <1>5, <1>8 DEF t

(* The file keeps lines from its beginning, and gets the one in hand at most. *)
LEMMA FileStep ==
    ASSUME TypeOK, RoomInv, [Next]_vars
    PROVE  /\ file' \in Seq(Line)
           /\ \A i \in DOMAIN file' :
                 \/ i \in DOMAIN file /\ file'[i] = file[i]
                 \/ Write /\ i = Len(file) + 1 /\ file'[i] \in hand
           /\ \/ Len(file') <= Len(file)
              \/ Write /\ hand # {} /\ Len(file') = Len(file) + 1
           /\ unsaved' \in Nat /\ unsaved' <= Len(file')
<1>0. /\ file \in Seq(Line) /\ unsaved \in Nat /\ unsaved <= Len(file)
      /\ Len(file) \in Nat /\ DOMAIN file = 1 .. Len(file)
    BY FileFacts DEF TypeOK, RoomInv
<1>1. CASE Quiet
    BY <1>0, <1>1, QuietEffect DEF disk
<1>2. CASE Take
  <2>1. file' = file
    BY <1>2 DEF Take
  <2>2. unsaved' = 0 \/ unsaved' \in 0 .. unsaved
    BY <1>2 DEF Take, FlushAll, Flush
  <2> QED
    BY <1>0, <2>1, <2>2
<1>3. CASE Rotate \/ ReopenFails
  <2>1. file' = <<>> /\ unsaved' = 0
    BY <1>3 DEF Rotate, ReopenFails
  <2>2. <<>> \in Seq(Line) /\ Len(<<>>) = 0 /\ DOMAIN <<>> = {}
    BY EmptySeq
  <2> QED
    BY <1>0, <2>1, <2>2
<1>4. CASE RenameFails
    BY <1>0, <1>4 DEF RenameFails, FlushAll
<1>5. CASE CloseFails \/ Restart
  <2>1. PICK lost \in 0 .. unsaved : file' = SubSeq(file, 1, Len(file) - lost)
    BY <1>5 DEF CloseFails, Restart, NewProcess
  <2>2. lost \in 0 .. Len(file) /\ Len(file) - lost \in Nat /\ Len(file) - lost <= Len(file)
    BY <1>0, <2>1
  <2>3. /\ file' \in Seq(Line) /\ Len(file') = Len(file) - lost
        /\ \A i \in DOMAIN file' : i \in DOMAIN file /\ file'[i] = file[i]
    BY <1>0, <2>1, <2>2, Shortened
  <2>4. unsaved' = 0
    BY <1>5 DEF CloseFails, Restart, NewProcess
  <2> QED
    BY <2>2, <2>3, <2>4
<1>6. CASE Write
  <2>1. PICK line \in hand :
           \/ UNCHANGED <<file, unsaved>>
           \/ /\ file' \in {file, Append(file, line)}
              /\ unsaved' \in 0 .. unsaved + Len(file') - Len(file)
    BY <1>6 DEF Write
  <2>2. line \in Line
    BY DEF TypeOK
  <2>3. CASE UNCHANGED <<file, unsaved>>
    BY <1>0, <2>3
  <2>4. CASE file' = file /\ unsaved' \in 0 .. unsaved + Len(file') - Len(file)
    BY <1>0, <2>4
  <2>5. CASE file' = Append(file, line) /\ unsaved' \in 0 .. unsaved + Len(file') - Len(file)
    <3>1. /\ file' \in Seq(Line)
          /\ Len(file') = Len(file) + 1
          /\ \A i \in 1 .. Len(file) : file'[i] = file[i]
          /\ file'[Len(file) + 1] = line
        BY <1>0, <2>2, <2>5, AppendProperties
    <3>2. DOMAIN file' = 1 .. Len(file) + 1
        BY <3>1, LenProperties
    <3>3. unsaved' \in Nat /\ unsaved' <= Len(file')
        BY <1>0, <2>5, <3>1
    <3>4. \A i \in 1 .. Len(file) + 1 : i \in 1 .. Len(file) \/ i = Len(file) + 1
        BY <1>0
    <3> QED
        BY <1>0, <1>6, <3>1, <3>2, <3>3, <3>4
  <2> QED
    BY <2>1, <2>3, <2>4, <2>5
<1> QED
    BY <1>1, <1>2, <1>3, <1>4, <1>5, <1>6, NextCases

(* A rotated file was there before, or it is the current one, which is then
   empty; there is none of another day twice, and none of a later interval. *)
LEMMA BackupStep ==
    ASSUME TypeOK, DayInv, [Next]_vars
    PROVE  /\ \A b \in backups' :
                 \/ b \in backups
                 \/ file' = <<>> /\ b.day = rolloverAt - 1 /\ b.lines = file
           /\ \A b \in backups' : b.day \in Nat /\ b.lines \in Seq(Line) /\ b.day < rolloverAt
           /\ IsFiniteSet(backups')
           /\ \A b, c \in backups' : b.day = c.day => b = c
           /\ \/ Cardinality(backups') <= BackupCount
              \/ Cardinality(backups') <= Cardinality(backups)
              \/ ReopenFails /\ Cardinality(backups') <= Cardinality(backups) + 1
<1>0. /\ IsFiniteSet(backups)
      /\ \A b \in backups : b.day \in Nat /\ b.lines \in Seq(Line) /\ b.day < rolloverAt
      /\ \A b, c \in backups : b.day = c.day => b = c
    BY DEF TypeOK, DayInv
<1>1. CASE backups' \in SUBSET backups
  <2>1. IsFiniteSet(backups') /\ Cardinality(backups') <= Cardinality(backups)
    BY <1>0, <1>1, FS_Subset
  <2> QED
    BY <1>0, <1>1, <2>1
<1>2. CASE Rotate \/ ReopenFails
  <2>1. file' = <<>>
    BY <1>2 DEF Rotate, ReopenFails
  <2>2. Cardinality(backups) \in Nat
    BY <1>0, FS_CardinalityType
  <2>3. PICK m \in Nat \ {0} : backups' = Latest(Renamed, m) /\ (m = BackupCount \/ ReopenFails)
    <3>1. CASE Rotate
        BY <3>1 DEF Rotate
    <3>2. CASE ReopenFails
        <4>1. PICK m \in BackupCount .. BackupCount + Cardinality(backups) : backups' = Latest(Renamed, m)
            BY <3>2 DEF ReopenFails
        <4>2. m \in Nat \ {0}
            BY <2>2, <4>1
        <4> QED
            BY <3>2, <4>1, <4>2
    <3> QED
        BY <1>2, <3>1, <3>2
  <2>4. backups' \in SUBSET Renamed
    BY <2>3, LatestSubset
  <2>5. /\ IsFiniteSet(Renamed) /\ Cardinality(Renamed) <= Cardinality(backups) + 1
        /\ \A b \in Renamed : b \in backups \/ (b.day = rolloverAt - 1 /\ b.lines = file)
        /\ \A b \in Renamed : b.day \in Nat /\ b.lines \in Seq(Line) /\ b.day < rolloverAt
        /\ \A b, c \in Renamed : b.day = c.day => b = c
    BY RenamedFacts
  <2>6. IsFiniteSet(backups') /\ Cardinality(backups') <= Cardinality(Renamed)
    BY <2>4, <2>5, FS_Subset
  <2>7. Cardinality(backups') \in Nat /\ Cardinality(Renamed) \in Nat
    BY <2>5, <2>6, FS_CardinalityType
  <2>8. \/ Cardinality(backups') <= BackupCount
        \/ ReopenFails /\ Cardinality(backups') <= Cardinality(backups) + 1
    <3>1. CASE m = BackupCount
        BY <2>3, <2>5, <3>1, LatestBound
    <3>2. CASE ReopenFails
        BY <2>2, <2>5, <2>6, <2>7, <3>2
    <3> QED
        BY <2>3, <3>1, <3>2
  <2> QED
    BY <2>1, <2>4, <2>5, <2>6, <2>8
<1>3. CASE Quiet \/ Take \/ CloseFails \/ RenameFails \/ Write \/ Restart
  <2>1. backups' = backups \/ backups' = OtherDays
    <3>1. CASE Quiet
        BY <3>1, QuietEffect DEF disk
    <3>2. CASE Take \/ CloseFails \/ RenameFails \/ Write
        BY <3>2 DEF Take, CloseFails, RenameFails, Write
    <3>3. CASE Restart
        BY <3>3 DEF Restart, NewProcess
    <3> QED
        BY <1>3, <3>1, <3>2, <3>3
  <2>2. OtherDays \in SUBSET backups
    BY DEF OtherDays
  <2> QED
    BY <1>1, <2>1, <2>2
<1> QED
    BY <1>2, <1>3, NextCases

(* The clock, the file's last change and the interval do not go back, and the
   interval follows the file's last change. *)
LEMMA ClockStep ==
    ASSUME TypeOK, DayInv, [Next]_vars
    PROVE  /\ today' \in Nat /\ touched' \in Nat /\ rolloverAt' \in Nat \ {0}
           /\ rolloverAt <= rolloverAt' /\ rolloverAt' <= today' + 1
           /\ touched' <= today'
           /\ stream' # "missing" => rolloverAt' <= touched' + 1
           /\ \A l \in hand' : l.day = rolloverAt' - 1
<1>0. /\ today \in Nat /\ touched \in Nat /\ rolloverAt \in Nat \ {0}
      /\ rolloverAt <= today + 1 /\ touched <= today
      /\ stream # "missing" => rolloverAt <= touched + 1
      /\ \A l \in hand : l.day = rolloverAt - 1
    BY DEF TypeOK, DayInv
<1>1. CASE Quiet
  <2>1. UNCHANGED <<hand, stream, rolloverAt, touched>> /\ (today' = today \/ today' = today + 1)
    BY <1>1, QuietEffect DEF handler, disk
  <2> QED
    BY <1>0, <2>1
<1>2. CASE Take
  <2>1. /\ UNCHANGED <<today, stream, rolloverAt>>
        /\ today < rolloverAt
        /\ hand' = {[n |-> Head(queue), day |-> today]}
    BY <1>0, <1>2 DEF Take, ShouldRollover
  <2>2. touched' = touched \/ touched' = today
    BY <1>2 DEF Take, FlushAll, Flush
  <2>3. today = rolloverAt - 1
    BY <1>0, <2>1
  <2> QED
    BY <1>0, <2>1, <2>2, <2>3
<1>3. CASE Rotate
  <2>1. /\ UNCHANGED today /\ touched' = today /\ rolloverAt' = today + 1
        /\ hand' = {[n |-> Head(queue), day |-> today]}
    BY <1>3 DEF Rotate
  <2> QED
    BY <1>0, <2>1
<1>4. CASE CloseFails \/ RenameFails \/ ReopenFails
  <2>1. UNCHANGED <<today, hand, rolloverAt>>
    BY <1>4 DEF CloseFails, RenameFails, ReopenFails, RolloverFails
  <2>2. touched' = touched \/ touched' = today
    BY <1>4 DEF CloseFails, RenameFails, ReopenFails, FlushAll
  <2>3. stream' # "missing" => stream # "missing"
    BY <1>4 DEF CloseFails, RenameFails, ReopenFails
  <2> QED
    BY <1>0, <2>1, <2>2, <2>3
<1>5. CASE Write
  <2>1. UNCHANGED <<today, rolloverAt>> /\ hand' = {}
    BY <1>5 DEF Write
  <2>2. /\ touched' = touched \/ touched' = today
        /\ stream' # "missing" => stream # "missing" \/ touched' = today
    BY <1>5 DEF Write
  <2> QED
    BY <1>0, <2>1, <2>2
<1>6. CASE Restart
  <2>1. today' = today /\ rolloverAt' = touched' + 1
    BY <1>6 DEF Restart, NewProcess
  <2>2. hand' = {}
    BY <1>6 DEF Restart, NewProcess
  <2>3. \/ stream = "missing" /\ touched' = today
        \/ stream # "missing" /\ touched' \in touched .. today
        \/ stream # "missing" /\ touched' = touched
    BY <1>6 DEF Restart, NewProcess
  <2>4. touched' \in Nat /\ touched' <= today /\ rolloverAt <= touched' + 1
    BY <1>0, <2>3
  <2>5. PICK day \in Nat : day = touched'
    BY <2>4
  <2>6. rolloverAt' = day + 1 /\ day <= today /\ rolloverAt <= day + 1
    BY <2>1, <2>4, <2>5
  <2>7. rolloverAt' \in Nat \ {0} /\ rolloverAt <= rolloverAt' /\ rolloverAt' <= today + 1
    BY <1>0, <2>6
  <2>8. rolloverAt' <= today' + 1 /\ touched' <= today'
    BY <2>1, <2>4, <2>7
  <2>9. rolloverAt' <= day + 1
    BY <2>6
  <2>10. rolloverAt' <= touched' + 1
    BY <2>5, <2>9
  <2> QED
    BY <1>0, <2>1, <2>2, <2>4, <2>7, <2>8, <2>10
<1> QED
    BY <1>1, <1>2, <1>3, <1>4, <1>5, <1>6, NextCases

(* A failed rollover is counted, and the count does not fall. *)
LEMMA FaultStep ==
    ASSUME TypeOK, [Next]_vars
    PROVE  /\ faults' \in Nat /\ faults <= faults'
           /\ CloseFails \/ RenameFails \/ ReopenFails => faults' = faults + 1
<1>0. faults \in Nat
    BY DEF TypeOK
<1>1. CloseFails \/ RenameFails \/ ReopenFails => RolloverFails
    BY DEF CloseFails, RenameFails, ReopenFails
<1>2. RolloverFails => faults' = faults + 1
    BY DEF RolloverFails, Fault
<1>3. Quiet => faults' = faults
    BY QuietEffect
<1>4. Take => faults' = faults \/ faults' = faults + 1
    BY DEF Take, Fault
<1>5. Rotate \/ Write \/ Restart => faults' = faults
    BY DEF Rotate, Write, Restart, NewProcess
<1>6. faults' = faults \/ faults' = faults + 1
    BY <1>1, <1>2, <1>3, <1>4, <1>5, NextCases
<1> QED
    BY <1>0, <1>1, <1>2, <1>6

-----------------------------------------------------------------------------
(* Every step preserves each part of the invariant. *)

LEMMA TypeStep == TypeOK /\ DayInv /\ RoomInv /\ [Next]_vars => TypeOK'
<1> SUFFICES ASSUME TypeOK, DayInv, RoomInv, [Next]_vars
             PROVE  TypeOK'
    OBVIOUS
<1>1. /\ file' \in Seq(Line) /\ unsaved' \in Nat
      /\ today' \in Nat /\ touched' \in Nat /\ rolloverAt' \in Nat \ {0} /\ faults' \in Nat
      /\ \A b \in backups' : b.day \in Nat /\ b.lines \in Seq(Line)
    BY FileStep, ClockStep, FaultStep, BackupStep
<1>2. /\ queue' \in Seq(Nat)
      /\ logged' \in Nat /\ listening' \in BOOLEAN /\ last' \in Nat
      /\ exit' \in {"running", "joining", "gone"}
      /\ late' \in BOOLEAN /\ crashes' \in Nat
  <2>1. CASE TakesLine
    <3>1. queue' \in Seq(Nat)
        BY <2>1, LineTaken, QueueTaken
    <3>2. UNCHANGED <<logged, listening, exit, last, late, crashes>>
        BY <2>1, LineTaken
    <3> QED
        BY <3>1, <3>2 DEF TypeOK
  <2>2. CASE TakeSentinel
    <3>1. queue' \in Seq(Nat)
        BY <2>2, QueueTaken DEF TakeSentinel
    <3> QED
        BY <2>2, <3>1 DEF TakeSentinel, TypeOK
  <2>3. CASE Log
    <3>1. queue' = Append(queue, logged + 1) /\ logged' \in Nat
        BY <2>3 DEF Log, TypeOK
    <3>2. queue' \in Seq(Nat)
        BY <2>3, <3>1, QueuePut DEF Log
    <3> QED
        BY <2>3, <3>1, <3>2 DEF Log, TypeOK
  <2>4. CASE BeginStop
    <3>1. queue' \in Seq(Nat)
        BY <2>4, QueuePut DEF BeginStop, Sentinel
    <3> QED
        BY <2>4, <3>1 DEF BeginStop, TypeOK
  <2>5. CASE Restart
    <3>1. queue' \in Seq(Nat) /\ crashes' \in Nat /\ late' \in BOOLEAN
        BY <2>5, EmptySeq DEF Restart, NewProcess, TypeOK
    <3> QED
        BY <2>5, <3>1 DEF Restart, NewProcess, TypeOK
  <2>6. CASE NextDay \/ Write \/ UNCHANGED vars
    <3>1. UNCHANGED <<process, late, crashes>>
        BY <2>6 DEF NextDay, Write, vars
    <3> QED
        BY <3>1 DEF process, TypeOK
  <2>7. CASE Exit
    BY <2>7 DEF Exit, TypeOK
  <2> QED
    BY <2>1, <2>2, <2>3, <2>4, <2>5, <2>6, <2>7 DEF Next, TakesLine
<1>3. hand' \subseteq Line /\ \A k, l \in hand' : k = l
  <2>1. CASE TakesLine
    <3>1. Head(queue) \in Nat \ {0} /\ today \in Nat
        BY <2>1, LineTaken, QueueTaken DEF Sentinel, TypeOK
    <3>2. [n |-> Head(queue), day |-> today] \in Line
        BY <3>1 DEF Line
    <3> QED
        BY <2>1, <3>2, LineTaken
  <2>2. CASE Quiet
    BY <2>2, QuietEffect DEF handler, TypeOK
  <2>3. CASE Write \/ Restart
    BY <2>3 DEF Write, Restart, NewProcess
  <2> QED
    BY <2>1, <2>2, <2>3, NextCases DEF TakesLine
<1>4. stream' \in Streams
  <2>1. CASE Quiet
    BY <2>1, QuietEffect DEF handler, TypeOK
  <2>2. CASE Take \/ Rotate \/ CloseFails \/ ReopenFails \/ Restart
    BY <2>2 DEF Take, Rotate, CloseFails, ReopenFails, Restart, NewProcess, Streams, TypeOK
  <2>3. CASE RenameFails \/ Write
    BY <2>3 DEF RenameFails, Write, Streams, TypeOK
  <2> QED
    BY <2>1, <2>2, <2>3, NextCases
<1> QED
    BY <1>1, <1>2, <1>3, <1>4 DEF TypeOK

LEMMA DayStep == TypeOK /\ DayInv /\ [Next]_vars => DayInv'
<1> SUFFICES ASSUME TypeOK, DayInv, [Next]_vars
             PROVE  DayInv'
    OBVIOUS
<1>1. /\ rolloverAt \in Nat /\ rolloverAt' \in Nat /\ rolloverAt <= rolloverAt'
      /\ rolloverAt' <= today' + 1
      /\ touched' <= today'
      /\ stream' # "missing" => rolloverAt' <= touched' + 1
      /\ \A l \in hand' : l.day = rolloverAt' - 1
    BY ClockStep DEF TypeOK
<1>2. /\ IsFiniteSet(backups')
      /\ \A b, c \in backups' : b.day = c.day => b = c
      /\ \A b \in backups' : b.day \in Nat /\ b.day < rolloverAt
    BY BackupStep
<1>3. \A b \in backups' : b.day < rolloverAt'
    BY <1>1, <1>2
<1> QED
    BY <1>1, <1>2, <1>3 DEF DayInv

(* Room for the next line is what the size check finds, or what a failure adds
   to the bound. *)
LEMMA RoomStep ==
    TypeOK /\ RoomInv /\ DiskBounded /\ [Next]_vars => RoomInv'
<1> SUFFICES ASSUME TypeOK, RoomInv, DiskBounded, [Next]_vars
             PROVE  RoomInv'
    OBVIOUS
<1>0. /\ Len(file) \in Nat /\ faults \in Nat /\ MaxBytes \in Nat \ {0}
      /\ faults' \in Nat /\ faults <= faults'
      /\ Len(file) <= MaxBytes + faults
      /\ hand # {} \/ stream = "none" => Len(file) < MaxBytes + faults
      /\ stream = "missing" => file = <<>>
    BY FileFacts, FaultStep DEF TypeOK, RoomInv, DiskBounded
<1>1. unsaved' <= Len(file')
    BY FileStep
<1>2. 0 < MaxBytes + faults'
  <2>1. PICK n \in Nat : n = faults'
    BY <1>0
  <2>2. 0 < MaxBytes + n
    BY <1>0
  <2> QED
    BY <2>1, <2>2
<1>3. CASE Quiet
    BY <1>0, <1>1, <1>3, QuietEffect DEF handler, disk, RoomInv
<1>4. CASE Take
  <2>1. UNCHANGED <<stream, file>> /\ stream # "broken"
    BY <1>4 DEF Take
  <2>2. CASE stream = "open"
    <3>1. Len(file) < MaxBytes \/ faults' = faults + 1
        BY <1>0, <1>4, <2>2 DEF Take, ShouldRollover, Fault
    <3> QED
        BY <1>0, <1>1, <2>1, <2>2, <3>1 DEF RoomInv
  <2>3. CASE stream = "none"
    <3>1. Len(file) < MaxBytes + faults'
        BY <1>0, <2>3
    <3> QED
        BY <1>1, <2>1, <2>3, <3>1 DEF RoomInv
  <2>4. CASE stream = "missing"
    <3>1. Len(file) = 0
        BY <1>0, <2>4, EmptySeq
    <3>2. Len(file) < MaxBytes + faults'
        BY <1>2, <3>1
    <3> QED
        BY <1>0, <1>1, <2>1, <2>4, <3>2 DEF RoomInv
  <2> QED
    BY <2>1, <2>2, <2>3, <2>4 DEF TypeOK, Streams
<1>5. CASE Rotate
  <2>1. stream' = "open" /\ file' = <<>>
    BY <1>5 DEF Rotate
  <2>2. Len(file') = 0
    BY <2>1, EmptySeq
  <2>3. Len(file') < MaxBytes + faults'
    BY <1>2, <2>2
  <2> QED
    BY <1>1, <2>1, <2>3 DEF RoomInv
<1>6. CASE CloseFails \/ RenameFails \/ ReopenFails
  <2>1. hand' = {} /\ faults' = faults + 1
    BY <1>6, FaultStep
        DEF CloseFails, RenameFails, ReopenFails, RolloverFails, NextLine
  <2>2. stream' = "none" => Len(file') < MaxBytes + faults'
    BY <1>0, <1>6, <2>1 DEF CloseFails, RenameFails, ReopenFails
  <2>3. stream' = "missing" => file' = <<>>
    BY <1>0, <1>6 DEF CloseFails, RenameFails, ReopenFails
  <2> QED
    BY <1>1, <2>1, <2>2, <2>3 DEF RoomInv
<1>7. CASE Write
  <2>1. hand' = {} /\ (UNCHANGED <<stream, file>> \/ stream' = "open")
    BY <1>7 DEF Write
  <2> QED
    BY <1>0, <1>1, <2>1 DEF RoomInv
<1>8. CASE Restart
  <2>1. hand' = {} /\ stream' = "open"
    BY <1>8 DEF Restart, NewProcess
  <2> QED
    BY <1>1, <2>1 DEF RoomInv
<1> QED
    BY <1>3, <1>4, <1>5, <1>6, <1>7, <1>8, NextCases

LEMMA DiskStep ==
    TypeOK /\ DayInv /\ RoomInv /\ DiskBounded /\ [Next]_vars => DiskBounded'
<1> SUFFICES ASSUME TypeOK, DayInv, RoomInv, DiskBounded, [Next]_vars
             PROVE  DiskBounded'
    OBVIOUS
<1>0. /\ faults \in Nat /\ faults' \in Nat /\ faults <= faults'
      /\ ReopenFails => faults' = faults + 1
      /\ MaxBytes \in Nat /\ BackupCount \in Nat
    BY FaultStep DEF TypeOK
<1>1. Len(file') <= MaxBytes + faults'
  <2>1. Len(file) \in Nat /\ Len(file') \in Nat
    BY FileFacts, FileStep DEF TypeOK
  <2>2. \/ Len(file') <= Len(file)
        \/ Len(file) < MaxBytes + faults /\ Len(file') = Len(file) + 1
    BY FileStep DEF RoomInv
  <2> QED
    BY <1>0, <2>1, <2>2 DEF DiskBounded
<1>2. ASSUME NEW b \in backups'
      PROVE  Len(b.lines) <= MaxBytes + faults'
  <2>1. b \in backups \/ b.lines = file
    BY BackupStep
  <2>2. b.lines \in Seq(Line)
    BY BackupStep
  <2>3. Len(b.lines) \in Nat
    BY <2>2, FileFacts
  <2>4. Len(b.lines) <= MaxBytes + faults
    BY <2>1 DEF DiskBounded
  <2> QED
    BY <1>0, <2>3, <2>4
<1>3. Cardinality(backups') <= BackupCount + faults'
  <2>1. IsFiniteSet(backups) /\ IsFiniteSet(backups')
    BY BackupStep DEF DayInv
  <2>2. Cardinality(backups) \in Nat /\ Cardinality(backups') \in Nat
    BY <2>1, FS_CardinalityType
  <2>3. \/ Cardinality(backups') <= BackupCount
        \/ Cardinality(backups') <= Cardinality(backups)
        \/ ReopenFails /\ Cardinality(backups') <= Cardinality(backups) + 1
    BY BackupStep
  <2>4. Cardinality(backups) <= BackupCount + faults
    BY DEF DiskBounded
  <2> QED
    BY <1>0, <2>2, <2>3, <2>4
<1> QED
    BY <1>1, <1>2, <1>3 DEF DiskBounded

LEMMA StopStep == TypeOK /\ OrderInv /\ StopInv /\ [Next]_vars => StopInv'
<1> SUFFICES ASSUME TypeOK, OrderInv, StopInv, [Next]_vars
             PROVE  StopInv'
    OBVIOUS
<1>0. logged \in Nat /\ last \in Nat /\ \A n \in DOMAIN queue : n \in Nat /\ queue[n] \in Nat
    BY QueueFacts DEF TypeOK
<1>1. CASE TakesLine \/ TakeSentinel
  <2>1. /\ queue # <<>> /\ queue' = Tail(queue) /\ UNCHANGED <<logged, exit, last>>
        /\ listening /\ hand = {}
    <3>1. CASE TakesLine
        BY <3>1, LineTaken
    <3>2. CASE TakeSentinel
        BY <3>2 DEF TakeSentinel
    <3> QED
        BY <1>1, <3>1, <3>2
  <2>2. /\ 1 \in DOMAIN queue /\ Head(queue) = queue[1]
        /\ \A n \in DOMAIN queue' :
              n + 1 \in DOMAIN queue /\ 1 < n + 1 /\ queue'[n] = queue[n + 1]
        /\ \A n, k \in DOMAIN queue' : n < k => n + 1 < k + 1
    BY <2>1, QueueTaken
  <2>3. \/ listening' = listening
        \/ listening' = FALSE /\ queue[1] = Sentinel /\ hand' = {}
    <3>1. CASE TakesLine
        BY <3>1, LineTaken
    <3>2. CASE TakeSentinel
        BY <2>1, <2>2, <3>2 DEF TakeSentinel, handler
    <3> QED
        BY <1>1, <3>1, <3>2
  <2>4. queue[1] = Sentinel => exit = "joining" /\ \A k \in DOMAIN queue' : queue'[k] > last
    BY <2>2 DEF StopInv
  <2>5. \A n \in DOMAIN queue' : queue'[n] = Sentinel =>
           exit = "joining" /\ \A k \in DOMAIN queue' : n < k => queue'[k] > last
    BY <2>2 DEF StopInv
  <2> QED
    BY <2>1, <2>3, <2>4, <2>5 DEF StopInv
<1>2. CASE Log
  <2>1. /\ queue' = Append(queue, logged + 1) /\ logged' = logged + 1
        /\ UNCHANGED <<listening, exit, last, hand>>
    BY <1>2 DEF Log, handler
  <2>2. /\ DOMAIN queue' = DOMAIN queue \cup {Len(queue) + 1}
        /\ queue'[Len(queue) + 1] = logged + 1
        /\ \A n \in DOMAIN queue : n < Len(queue) + 1 /\ queue'[n] = queue[n]
    BY <1>0, <2>1, QueuePut
  <2> QED
    BY <1>0, <2>1, <2>2, QueueFacts DEF StopInv, Sentinel
<1>3. CASE BeginStop
  <2>1. /\ queue' = Append(queue, 0) /\ exit = "running" /\ exit' = "joining"
        /\ last' = logged /\ UNCHANGED <<logged, listening>>
    BY <1>3 DEF BeginStop, Sentinel
  <2>2. /\ DOMAIN queue' = DOMAIN queue \cup {Len(queue) + 1}
        /\ queue'[Len(queue) + 1] = 0
        /\ \A n \in DOMAIN queue : n < Len(queue) + 1 /\ queue'[n] = queue[n]
    BY <2>1, QueuePut
  <2>3. listening /\ \A n \in DOMAIN queue : queue[n] # Sentinel
    BY <2>1 DEF StopInv
  <2>4. \A n \in DOMAIN queue' : queue'[n] = Sentinel => \A k \in DOMAIN queue' : ~(n < k)
    BY <1>0, <2>2, <2>3, QueueFacts
  <2> QED
    BY <1>0, <2>1, <2>3, <2>4 DEF StopInv
<1>4. CASE Exit
  <2>1. ~listening /\ exit' = "gone" /\ UNCHANGED <<logged, listening, queue, last, hand>>
    BY <1>4 DEF Exit, handler
  <2>2. \A n \in DOMAIN queue : queue[n] # Sentinel
    BY <1>0, <2>1 DEF StopInv, Sentinel
  <2> QED
    BY <2>1, <2>2 DEF StopInv
<1>5. CASE Restart
  <2>1. queue' = <<>> /\ listening' /\ exit' = "running" /\ last' = 0 /\ logged' = logged
    BY <1>5 DEF Restart, NewProcess
  <2>2. DOMAIN queue' = {}
    BY <2>1, EmptySeq
  <2> QED
    BY <1>0, <2>1, <2>2 DEF StopInv
<1>6. CASE NextDay \/ Write \/ UNCHANGED vars
  <2>1. UNCHANGED process /\ (hand' = hand \/ hand' = {})
    BY <1>6 DEF NextDay, Write, vars, handler
  <2> QED
    BY <2>1 DEF process, StopInv
<1> QED
    BY <1>1, <1>2, <1>3, <1>4, <1>5, <1>6 DEF Next, TakesLine

(* Lines in the files come from the files, or from the hand. *)
LEMMA LinesKept ==
    ASSUME TypeOK, DayInv, RoomInv, [Next]_vars
    PROVE  /\ \A i \in DOMAIN file' : \/ i \in DOMAIN file /\ file'[i] = file[i]
                                      \/ file'[i] \in hand /\ hand' = {}
           /\ \A b \in backups' : b \in backups \/ b.lines = file
           /\ \/ hand' \subseteq hand
              \/ TakesLine /\ hand' = {[n |-> Head(queue), day |-> today]}
<1>1. \A i \in DOMAIN file' : \/ i \in DOMAIN file /\ file'[i] = file[i]
                              \/ Write /\ file'[i] \in hand
    BY FileStep
<1>2. Write => hand' = {}
    BY DEF Write
<1>3. \A b \in backups' : b \in backups \/ b.lines = file
    BY BackupStep
<1>4. \/ hand' \subseteq hand
      \/ TakesLine /\ hand' = {[n |-> Head(queue), day |-> today]}
  <2>1. CASE Quiet
    BY <2>1, QuietEffect DEF handler
  <2>2. CASE TakesLine
    BY <2>2, LineTaken
  <2>3. CASE Write \/ Restart
    BY <2>3 DEF Write, Restart, NewProcess
  <2> QED
    BY <2>1, <2>2, <2>3, NextCases DEF TakesLine
<1> QED
    BY <1>1, <1>2, <1>3, <1>4

(* What is past all of them stays so, if it is past the line taken too. *)
LEMMA PastKept ==
    ASSUME TypeOK, DayInv, RoomInv, [Next]_vars,
           NEW k \in Nat,
           \A l \in hand : l.n < k,
           \A i \in DOMAIN file : file[i].n < k,
           \A b \in backups : \A i \in DOMAIN b.lines : b.lines[i].n < k,
           hand' \subseteq hand \/ Head(queue) < k
    PROVE  /\ \A l \in hand' : l.n < k
           /\ \A i \in DOMAIN file' : file'[i].n < k
           /\ \A b \in backups' : \A i \in DOMAIN b.lines : b.lines[i].n < k
<1>1. \A l \in hand' : l.n < k
    BY LinesKept
<1>2. \A i \in DOMAIN file' : file'[i].n < k
    BY LinesKept
<1>3. \A b \in backups' : \A i \in DOMAIN b.lines : b.lines[i].n < k
    BY LinesKept
<1> QED
    BY <1>1, <1>2, <1>3

(* The numbers that the order is about. *)
LEMMA Numbers ==
    ASSUME TypeOK
    PROVE  /\ logged \in Nat
           /\ \A l \in hand : l.n \in Nat
           /\ \A i \in DOMAIN file : file[i].n \in Nat
           /\ \A b \in backups : \A i \in DOMAIN b.lines : b.lines[i].n \in Nat
           /\ \A n \in DOMAIN queue : n \in Nat /\ queue[n] \in Nat
<1>1. logged \in Nat /\ file \in Seq(Line) /\ hand \subseteq Line
      /\ \A b \in backups : b.lines \in Seq(Line)
    BY DEF TypeOK
<1>2. \A l \in Line : l.n \in Nat
    BY DEF Line
<1> QED
    BY <1>1, <1>2, FileFacts, QueueFacts

LEMMA OrderStep == TypeOK /\ DayInv /\ RoomInv /\ OrderInv /\ [Next]_vars => OrderInv'
<1> SUFFICES ASSUME TypeOK, DayInv, RoomInv, OrderInv, [Next]_vars
             PROVE  OrderInv'
    OBVIOUS
<1>0. /\ logged \in Nat
      /\ \A l \in hand : l.n \in Nat
      /\ \A i \in DOMAIN file : file[i].n \in Nat
      /\ \A b \in backups : \A i \in DOMAIN b.lines : b.lines[i].n \in Nat
      /\ \A n \in DOMAIN queue : n \in Nat /\ queue[n] \in Nat
    BY Numbers
<1>1. logged' = logged \/ (Log /\ logged' = logged + 1)
  <2>1. TakesLine => logged' = logged
    BY LineTaken
  <2>2. NextDay \/ Write \/ TakeSentinel \/ BeginStop \/ Exit \/ Restart \/ UNCHANGED vars
            => logged' = logged
    BY DEF NextDay, Write, TakeSentinel, BeginStop, Exit, Restart, NewProcess, vars, process
  <2>3. Log => logged' = logged + 1
    BY DEF Log
  <2> QED
    BY <2>1, <2>2, <2>3 DEF Next, TakesLine
<1>2. \A k \in Nat : k <= logged => k <= logged'
    BY <1>0, <1>1
<1>3. /\ \A i \in DOMAIN file : file[i].n <= logged'
      /\ \A l \in hand : l.n <= logged'
      /\ \A b \in backups : \A i \in DOMAIN b.lines : b.lines[i].n <= logged'
    BY <1>0, <1>2 DEF OrderInv
<1>4. /\ \A i \in DOMAIN file' : file'[i].n <= logged'
      /\ \A b \in backups' : \A i \in DOMAIN b.lines : b.lines[i].n <= logged'
    BY <1>3, LinesKept
<1>5. ASSUME NEW l \in hand'
      PROVE  /\ l.n <= logged'
             /\ \A i \in DOMAIN file' : file'[i].n < l.n
             /\ \A b \in backups' : \A i \in DOMAIN b.lines : b.lines[i].n < l.n
  <2>1. /\ \A i \in DOMAIN file' : i \in DOMAIN file /\ file'[i] = file[i]
        /\ \A b \in backups' : b \in backups \/ b.lines = file
    BY LinesKept
  <2>2. CASE l \in hand
    BY <1>3, <2>1, <2>2 DEF OrderInv
  <2>3. CASE TakesLine /\ l.n = Head(queue)
    <3>1. 1 \in DOMAIN queue /\ Head(queue) = queue[1] /\ queue[1] # Sentinel
        BY <2>3, LineTaken, QueueTaken
    <3>2. l.n <= logged'
        BY <1>0, <1>2, <2>3, <3>1 DEF OrderInv
    <3>3. /\ \A i \in DOMAIN file : file[i].n < l.n
          /\ \A b \in backups : \A i \in DOMAIN b.lines : b.lines[i].n < l.n
        BY <2>3, <3>1 DEF OrderInv
    <3> QED
        BY <2>1, <3>2, <3>3
  <2>4. l \in hand \/ (TakesLine /\ l.n = Head(queue))
    BY LinesKept
  <2> QED
    BY <2>2, <2>3, <2>4
<1>6. ASSUME NEW n \in DOMAIN queue'
      PROVE  /\ queue'[n] <= logged'
             /\ queue'[n] # Sentinel =>
                   /\ \A k \in DOMAIN queue' :
                         n < k /\ queue'[k] # Sentinel => queue'[n] < queue'[k]
                   /\ \A l \in hand' : l.n < queue'[n]
                   /\ \A i \in DOMAIN file' : file'[i].n < queue'[n]
                   /\ \A b \in backups' : \A i \in DOMAIN b.lines : b.lines[i].n < queue'[n]
  <2>1. CASE TakesLine \/ TakeSentinel
    <3>1. /\ queue # <<>> /\ queue' = Tail(queue)
          /\ Head(queue) # Sentinel \/ hand' \subseteq hand
        <4>1. TakesLine => queue # <<>> /\ queue' = Tail(queue) /\ Head(queue) # Sentinel
            BY LineTaken
        <4>2. TakeSentinel => queue # <<>> /\ queue' = Tail(queue) /\ hand' \subseteq hand
            BY DEF TakeSentinel, handler
        <4> QED
            BY <2>1, <4>1, <4>2
    <3>2. /\ 1 \in DOMAIN queue /\ Head(queue) = queue[1]
          /\ \A k \in DOMAIN queue' :
                k + 1 \in DOMAIN queue /\ 1 < k + 1 /\ queue'[k] = queue[k + 1]
          /\ \A k \in DOMAIN queue' : n < k => n + 1 < k + 1
        BY <3>1, QueueTaken
    <3>3. queue'[n] <= logged' /\ queue'[n] \in Nat
        BY <1>0, <1>2, <3>2 DEF OrderInv
    <3>4. ASSUME queue'[n] # Sentinel
          PROVE  \A k \in DOMAIN queue' :
                    n < k /\ queue'[k] # Sentinel => queue'[n] < queue'[k]
        BY <3>2, <3>4 DEF OrderInv
    <3>5. ASSUME queue'[n] # Sentinel
          PROVE  /\ \A l \in hand : l.n < queue'[n]
                 /\ \A i \in DOMAIN file : file[i].n < queue'[n]
                 /\ \A b \in backups : \A i \in DOMAIN b.lines : b.lines[i].n < queue'[n]
        BY <3>2, <3>5 DEF OrderInv
    <3>6. queue'[n] # Sentinel => hand' \subseteq hand \/ Head(queue) < queue'[n]
        BY <3>1, <3>2 DEF OrderInv
    <3>7. ASSUME queue'[n] # Sentinel
          PROVE  /\ \A l \in hand' : l.n < queue'[n]
                 /\ \A i \in DOMAIN file' : file'[i].n < queue'[n]
                 /\ \A b \in backups' : \A i \in DOMAIN b.lines : b.lines[i].n < queue'[n]
        BY <3>3, <3>5, <3>6, <3>7, PastKept
    <3> QED
        BY <3>3, <3>4, <3>7
  <2>2. CASE Log
    <3>1. /\ queue' = Append(queue, logged + 1) /\ logged' = logged + 1
          /\ UNCHANGED <<hand, file, backups>>
        BY <2>2 DEF Log, handler, disk
    <3>2. /\ DOMAIN queue' = DOMAIN queue \cup {Len(queue) + 1}
          /\ queue'[Len(queue) + 1] = logged + 1
          /\ \A k \in DOMAIN queue : k < Len(queue) + 1 /\ queue'[k] = queue[k]
        BY <1>0, <3>1, QueuePut
    <3>3. \A k \in Nat : k <= logged => k < logged + 1
        BY <1>0
    <3>4. /\ \A l \in hand : l.n < logged + 1
          /\ \A i \in DOMAIN file : file[i].n < logged + 1
          /\ \A b \in backups : \A i \in DOMAIN b.lines : b.lines[i].n < logged + 1
          /\ \A k \in DOMAIN queue : queue[k] < logged + 1
        BY <1>0, <3>3 DEF OrderInv
    <3>5. CASE n \in DOMAIN queue
        BY <1>0, <1>2, <3>1, <3>2, <3>4, <3>5 DEF OrderInv
    <3>6. CASE n = Len(queue) + 1
        <4>1. \A k \in DOMAIN queue' : ~(n < k)
            BY <1>0, <3>2, <3>6, QueueFacts
        <4> QED
            BY <1>0, <3>1, <3>2, <3>4, <3>6, <4>1
    <3> QED
        BY <3>2, <3>5, <3>6
  <2>3. CASE BeginStop
    <3>1. /\ queue' = Append(queue, 0) /\ logged' = logged
          /\ UNCHANGED <<hand, file, backups>>
        BY <2>3 DEF BeginStop, Sentinel, handler, disk
    <3>2. /\ DOMAIN queue' = DOMAIN queue \cup {Len(queue) + 1}
          /\ queue'[Len(queue) + 1] = 0
          /\ \A k \in DOMAIN queue : k < Len(queue) + 1 /\ queue'[k] = queue[k]
        BY <3>1, QueuePut
    <3> QED
        BY <1>0, <3>1, <3>2 DEF OrderInv, Sentinel
  <2>4. CASE Restart
    <3>1. DOMAIN queue' = {}
        BY <2>4, EmptySeq DEF Restart, NewProcess
    <3> QED
        BY <3>1
  <2>5. CASE NextDay \/ Write \/ Exit \/ UNCHANGED vars
    <3>1. queue' = queue /\ hand' \subseteq hand
        BY <2>5 DEF NextDay, Write, Exit, vars, process, handler
    <3>2. queue[n] \in Nat /\ queue[n] <= logged'
        BY <1>0, <1>2, <3>1 DEF OrderInv
    <3>3. ASSUME queue[n] # Sentinel
          PROVE  /\ \A l \in hand' : l.n < queue[n]
                 /\ \A i \in DOMAIN file' : file'[i].n < queue[n]
                 /\ \A b \in backups' : \A i \in DOMAIN b.lines : b.lines[i].n < queue[n]
        <4>1. /\ \A l \in hand : l.n < queue[n]
              /\ \A i \in DOMAIN file : file[i].n < queue[n]
              /\ \A b \in backups : \A i \in DOMAIN b.lines : b.lines[i].n < queue[n]
            BY <3>1, <3>3 DEF OrderInv
        <4> QED
            BY <3>1, <3>2, <4>1, PastKept
    <3>4. queue[n] # Sentinel =>
             \A k \in DOMAIN queue : n < k /\ queue[k] # Sentinel => queue[n] < queue[k]
        BY <3>1 DEF OrderInv
    <3> QED
        BY <3>1, <3>2, <3>3, <3>4
  <2> QED
    BY <2>1, <2>2, <2>3, <2>4, <2>5 DEF Next, TakesLine
<1> QED
    BY <1>4, <1>5, <1>6 DEF OrderInv

LEMMA ChronicleStep ==
    TypeOK /\ DayInv /\ RoomInv /\ OrderInv /\ Chronicle /\ [Next]_vars => Chronicle'
<1> SUFFICES ASSUME TypeOK, DayInv, RoomInv, OrderInv, Chronicle, [Next]_vars
             PROVE  Chronicle'
    OBVIOUS
<1>0. /\ Len(file) \in Nat /\ DOMAIN file = 1 .. Len(file)
      /\ \A i \in DOMAIN file' : \/ i \in DOMAIN file /\ file'[i] = file[i]
                                 \/ i = Len(file) + 1 /\ file'[i] \in hand
    BY FileFacts, FileStep DEF TypeOK
<1>1. Ordered(file')
  <2>1. ASSUME NEW i \in DOMAIN file', NEW j \in DOMAIN file', i < j
        PROVE  file'[i].n < file'[j].n
    <3>1. \/ j \in DOMAIN file /\ file'[j] = file[j]
          \/ j = Len(file) + 1 /\ file'[j] \in hand
        BY <1>0
    <3>2. i \in DOMAIN file /\ file'[i] = file[i]
        BY <1>0, <2>1, <3>1
    <3>3. CASE j \in DOMAIN file /\ file'[j] = file[j]
        BY <2>1, <3>2, <3>3 DEF Chronicle, Ordered
    <3>4. CASE file'[j] \in hand
        BY <3>2, <3>4 DEF OrderInv
    <3> QED
        BY <3>1, <3>3, <3>4
  <2> QED
    BY <2>1 DEF Ordered
<1>2. ASSUME NEW b \in backups'
      PROVE  Ordered(b.lines) /\ Before(b.lines, file')
  <2>1. CASE b \in backups
    <3>1. /\ \A i \in DOMAIN b.lines, j \in DOMAIN file : b.lines[i].n < file[j].n
          /\ \A l \in hand : \A i \in DOMAIN b.lines : b.lines[i].n < l.n
        BY <2>1 DEF Chronicle, Before, OrderInv
    <3>2. Ordered(b.lines)
        BY <2>1 DEF Chronicle
    <3> QED
        BY <1>0, <3>1, <3>2 DEF Before
  <2>2. CASE b.lines = file /\ file' = <<>>
    <3>1. DOMAIN file' = {}
        BY <2>2, EmptySeq
    <3> QED
        BY <2>2, <3>1 DEF Chronicle, Before
  <2> QED
    BY <2>1, <2>2, BackupStep
<1>3. ASSUME NEW b \in backups', NEW c \in backups', b.day < c.day
      PROVE  Before(b.lines, c.lines)
  <2>1. /\ rolloverAt \in Nat /\ b.day \in Nat /\ c.day \in Nat /\ c.day < rolloverAt
        /\ b \in backups \/ b.day = rolloverAt - 1
        /\ c \in backups \/ c.lines = file
    BY BackupStep DEF TypeOK
  <2>2. b \in backups
    BY <1>3, <2>1
  <2> QED
    BY <1>3, <2>1, <2>2 DEF Chronicle
<1> QED
    BY <1>1, <1>2, <1>3 DEF Chronicle

(* The interval of a file that has lines changes only when a restart finds it
   changed late. *)
LEMMA IntervalStep ==
    ASSUME TypeOK, DayInv, [Next]_vars, ~late'
    PROVE  ~late /\ (rolloverAt' = rolloverAt \/ file' = <<>>)
<1>1. CASE Quiet
  <2>1. late' = late /\ rolloverAt' = rolloverAt
    BY <1>1, QuietEffect DEF handler
  <2> QED
    BY <2>1
<1>2. CASE Take \/ CloseFails \/ RenameFails \/ ReopenFails \/ Write
  <2>1. late' = late
    BY <1>2 DEF Take, CloseFails, RenameFails, ReopenFails, RolloverFails, Write
  <2>2. rolloverAt' = rolloverAt
    BY <1>2 DEF Take, CloseFails, RenameFails, ReopenFails, RolloverFails, Write
  <2> QED
    BY <2>1, <2>2
<1>3. CASE Rotate
  <2>1. late' = late /\ file' = <<>>
    BY <1>3 DEF Rotate
  <2> QED
    BY <2>1
<1>4. CASE Restart
  <2>1. /\ late' = (late \/ (file' # <<>> /\ touched' >= rolloverAt))
        /\ rolloverAt' = touched' + 1
    BY <1>4 DEF Restart, NewProcess
  <2>2. ~late /\ (file' = <<>> \/ ~(touched' >= rolloverAt))
    BY <2>1
  <2>3. touched' \in Nat /\ rolloverAt \in Nat /\ rolloverAt <= rolloverAt'
    BY ClockStep DEF TypeOK
  <2>4. PICK day \in Nat : day = touched'
    BY <2>3
  <2>5. rolloverAt' = day + 1 /\ (file' = <<>> \/ ~(day >= rolloverAt))
    BY <2>1, <2>2, <2>4
  <2>6. file' = <<>> \/ rolloverAt' = rolloverAt
    BY <2>3, <2>5
  <2> QED
    BY <2>2, <2>6
<1> QED
    BY <1>1, <1>2, <1>3, <1>4, NextCases

LEMMA DaysApartStep ==
    TypeOK /\ DayInv /\ RoomInv /\ DaysApart /\ [Next]_vars => DaysApart'
<1> SUFFICES ASSUME TypeOK, DayInv, RoomInv, DaysApart, [Next]_vars
             PROVE  DaysApart'
    OBVIOUS
<1>0. /\ rolloverAt \in Nat \ {0} /\ rolloverAt' \in Nat /\ rolloverAt <= rolloverAt'
      /\ \A l \in hand : l.day = rolloverAt - 1
      /\ \A i \in DOMAIN file : file[i].day \in Nat
      /\ \A b \in backups : b.day \in Nat /\ b.day < rolloverAt
    BY ClockStep, FileFacts DEF TypeOK, DayInv
<1>1. \A i \in DOMAIN file' : \/ i \in DOMAIN file /\ file'[i] = file[i]
                              \/ file'[i].day = rolloverAt - 1
    BY <1>0, FileStep
<1>2. /\ rolloverAt - 1 \in Nat /\ rolloverAt - 1 <= rolloverAt' - 1
      /\ \A n \in Nat : n < rolloverAt => n <= rolloverAt - 1
      /\ \A n \in Nat : n <= rolloverAt - 1 => n <= rolloverAt' - 1
  <2>1. PICK next \in Nat : next = rolloverAt'
    BY <1>0
  <2>2. rolloverAt <= next
    BY <1>0, <2>1
  <2>3. /\ rolloverAt - 1 \in Nat /\ rolloverAt - 1 <= next - 1
        /\ \A n \in Nat : n < rolloverAt => n <= rolloverAt - 1
        /\ \A n \in Nat : n <= rolloverAt - 1 => n <= next - 1
    BY <1>0, <2>2
  <2> QED
    BY <2>1, <2>3
<1>3. Within(file', 0, rolloverAt' - 1)
    BY <1>0, <1>1, <1>2 DEF DaysApart, Within
<1>4. \A b \in backups' :
         \/ b \in backups
         \/ file' = <<>> /\ b.day = rolloverAt - 1 /\ b.lines = file
    BY BackupStep
<1>5. file' = <<>> => DOMAIN file' = {}
    BY EmptySeq
<1>6. ASSUME NEW b \in backups'
      PROVE  Within(file', b.day, rolloverAt' - 1)
  <2>1. CASE b \in backups
    <3>1. /\ \A i \in DOMAIN file : b.day <= file[i].day /\ file[i].day <= rolloverAt - 1
          /\ b.day <= rolloverAt - 1
        BY <1>0, <1>2, <2>1 DEF DaysApart, Within
    <3> QED
        BY <1>0, <1>1, <1>2, <3>1 DEF Within
  <2> QED
    BY <1>4, <1>5, <2>1 DEF Within
<1>7. ASSUME NEW b \in backups'
      PROVE  Within(b.lines, 0, b.day)
    BY <1>4 DEF DaysApart
<1>8. ASSUME NEW b \in backups', NEW c \in backups', c.day < b.day
      PROVE  Within(b.lines, c.day, b.day)
  <2>1. b.day \in Nat /\ c.day \in Nat /\ b.day < rolloverAt
    BY BackupStep
  <2>2. c \in backups
    BY <1>0, <1>4, <1>8, <2>1
  <2> QED
    BY <1>4, <1>8, <2>2 DEF DaysApart
<1>9. ASSUME ~late'
      PROVE  /\ Within(file', rolloverAt' - 1, rolloverAt' - 1)
             /\ \A b \in backups' : Within(b.lines, b.day, b.day)
  <2>1. ~late /\ (rolloverAt' = rolloverAt \/ file' = <<>>)
    BY <1>9, IntervalStep
  <2>2. /\ Within(file, rolloverAt - 1, rolloverAt - 1)
        /\ \A b \in backups : Within(b.lines, b.day, b.day)
    BY <2>1 DEF DaysApart
  <2>3. Within(file', rolloverAt' - 1, rolloverAt' - 1)
    <3>1. CASE file' = <<>>
        BY <1>5, <3>1 DEF Within
    <3>2. CASE rolloverAt' = rolloverAt
        BY <1>1, <1>2, <2>2, <3>2 DEF Within
    <3> QED
        BY <2>1, <3>1, <3>2
  <2> QED
    BY <1>4, <2>2, <2>3
<1> QED
    BY <1>3, <1>6, <1>7, <1>8, <1>9 DEF DaysApart

-----------------------------------------------------------------------------
(* The invariant and what it implies. *)

LEMMA InvInit == Init => IInv
<1> SUFFICES ASSUME Init
             PROVE  IInv
    OBVIOUS
<1>1. DOMAIN queue = {} /\ DOMAIN file = {} /\ Len(file) = 0
    BY EmptySeq DEF Init
<1>2. IsFiniteSet(backups) /\ Cardinality(backups) = 0
    BY FS_EmptySet DEF Init
<1>3. TypeOK
  <2>1. hand \subseteq Line /\ \A k, l \in hand : k = l
    BY DEF Init
  <2>2. queue \in Seq(Nat) /\ file \in Seq(Line)
    BY EmptySeq DEF Init
  <2>3. listening \in BOOLEAN /\ late \in BOOLEAN
    BY DEF Init
  <2> QED
    BY <2>1, <2>2, <2>3 DEF Init, TypeOK, Streams
<1>4. DayInv /\ RoomInv
    BY <1>1, <1>2 DEF Init, DayInv, RoomInv
<1>5. OrderInv /\ StopInv
    BY <1>1 DEF Init, OrderInv, StopInv
<1>6. Chronicle
    BY <1>1 DEF Init, Chronicle, Ordered
<1>7. DaysApart
    BY <1>1 DEF Init, DaysApart, Within
<1>8. DiskBounded
    BY <1>1, <1>2 DEF Init, DiskBounded
<1> QED
    BY <1>3, <1>4, <1>5, <1>6, <1>7, <1>8 DEF IInv

LEMMA InvStep == IInv /\ [Next]_vars => IInv'
BY TypeStep, DayStep, RoomStep, OrderStep, StopStep, ChronicleStep, DaysApartStep, DiskStep
    DEF IInv

(* The days, the room, the order of the lines and the bounds of a log file
   hold in every reachable state, whichever operations on the disk fail
   (logging_setup.py). *)
THEOREM FileLogInvariant == Spec => []IInv
BY InvInit, InvStep, PTL DEF Spec

(* The lines that are in the rotated files, by date, and then in the current
   one are in the order they were logged, and none is there twice, over
   rotations, failures and restarts. *)
THEOREM ChronicleTheorem == Spec => []Chronicle
<1>1. IInv => Chronicle
    BY DEF IInv
<1> QED
    BY <1>1, FileLogInvariant, PTL

(* Every file holds the lines of the day it is named after, except after a
   restart that found the file changed late; then too no file holds a line of
   a day before or after its own interval. *)
THEOREM DaysApartTheorem == Spec => []DaysApart
<1>1. IInv => DaysApart
    BY DEF IInv
<1> QED
    BY <1>1, FileLogInvariant, PTL

(* No file outgrows LOG_MAX_BYTES, and there are never more rotated files than
   LOG_BACKUP_COUNT, by more than one line or one file for every size check or
   rollover that failed (shouldRollover's fallback to the time check, and the
   stream that a failed doRollover leaves). *)
THEOREM DiskBoundedTheorem == Spec => []DiskBounded
<1>1. IInv => DiskBounded
    BY DEF IInv
<1> QED
    BY <1>1, FileLogInvariant, PTL

(* When the exit hook is done, the listener has taken every line logged before
   it and given it to the handler (_stop_all_listeners). *)
THEOREM DrainedAtExitTheorem == Spec => []DrainedAtExit
<1>1. ASSUME IInv
      PROVE  DrainedAtExit
  <2>1. exit = "gone" => hand = {} /\ \A k \in DOMAIN queue : queue[k] > last
    BY <1>1 DEF IInv, StopInv
  <2>2. \A k \in DOMAIN queue : queue[k] > last => queue[k] # Sentinel
    BY <1>1, QueueFacts DEF IInv, TypeOK, Sentinel
  <2> QED
    BY <2>1, <2>2 DEF DrainedAtExit
<1> QED
    BY <1>1, FileLogInvariant, PTL
=============================================================================
