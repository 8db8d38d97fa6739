------------------------------- MODULE FileLog -------------------------------
(***************************************************************************)
(* One log file of the poller (logging_setup.py): a logger puts lines into *)
(* an unbounded queue, the listener thread writes them through a handler   *)
(* that rotates the file daily and by size, and the exit hook stops the    *)
(* listener with a sentinel.  A line is its number in the order of the     *)
(* logger's calls; its size is one, that of the cap MaxBytes.              *)
(*                                                                         *)
(* QueueListener and TimedRotatingFileHandler are the standard library's   *)
(* (Python 3.10 to 3.12), modelled from how the handler class uses them:   *)
(* a rotated file is named after the day its interval began, and a file of *)
(* that name is removed first.  Any operation on the disk may fail; the    *)
(* line at hand is then reported and dropped, or stays in the stream's     *)
(* buffer.                                                                 *)
(***************************************************************************)
EXTENDS Naturals, Sequences, FiniteSets

CONSTANTS
    MaxBytes,      \* LOG_MAX_BYTES
    BackupCount,   \* LOG_BACKUP_COUNT
    MaxLines,      \* bound on the lines logged
    MaxDay,        \* bound on the clock
    MaxFaults,     \* bound on failed size checks and rollovers
    MaxCrashes     \* bound on process restarts

ASSUME FileLogAssumption ==
    /\ MaxBytes \in Nat \ {0} /\ BackupCount \in Nat \ {0}
    /\ MaxLines \in Nat /\ MaxDay \in Nat
    /\ MaxFaults \in Nat /\ MaxCrashes \in Nat

VARIABLES
    today,       \* the day, UTC
    logged,      \* lines handed to the logger so far
    queue,       \* the listener's queue
    listening,   \* the listener thread runs
    exit,        \* the main thread: running, joining or gone
    last,        \* lines logged before the sentinel (history)
    hand,        \* the line checked for a rollover and not yet written, if any
    stream,      \* the handler's stream
    rolloverAt,  \* the handler rotates from this day on
    file,        \* the current file: lines with the day they were checked
    unsaved,     \* how many of its last lines are still in the stream's buffer
    touched,     \* day of its last change
    backups,     \* the rotated files
    faults,      \* failed size checks and rollovers so far (history, bounded)
    late,        \* a restart found the file changed after its interval (history)
    crashes      \* restarts so far (bounded)

process == <<logged, queue, listening, exit, last>>
handler == <<hand, stream, rolloverAt>>
disk    == <<file, unsaved, touched, backups>>
vars    == <<today, process, handler, disk, faults, late, crashes>>

Sentinel == 0

Line == [n : Nat \ {0}, day : Nat]

(* A stream is open, a closed object after a close that failed, or None, with
   the file in its place or not. *)
Streams == {"open", "broken", "none", "missing"}

TypeOK ==
    /\ today \in Nat
    /\ logged \in Nat
    /\ queue \in Seq(Nat)
    /\ listening \in BOOLEAN
    /\ exit \in {"running", "joining", "gone"}
    /\ last \in Nat
    /\ hand \subseteq Line /\ \A k, l \in hand : k = l
    /\ stream \in Streams
    /\ rolloverAt \in Nat \ {0}
    /\ file \in Seq(Line)
    /\ unsaved \in Nat
    /\ touched \in Nat
    /\ \A b \in backups : b.day \in Nat /\ b.lines \in Seq(Line)
    /\ faults \in Nat
    /\ late \in BOOLEAN
    /\ crashes \in Nat

Init ==
    /\ today = 0
    /\ logged = 0
    /\ queue = <<>>
    /\ listening = TRUE
    /\ exit = "running"
    /\ last = 0
    /\ hand = {}
    /\ stream = "open"
    /\ rolloverAt = 1
    /\ file = <<>>
    /\ unsaved = 0
    /\ touched = 0
    /\ backups = {}
    /\ faults = 0
    /\ late = FALSE
    /\ crashes = 0

-----------------------------------------------------------------------------
NextDay ==
    /\ today < MaxDay
    /\ today' = today + 1
    /\ UNCHANGED <<process, handler, disk, faults, late, crashes>>

(* QueueHandler.emit, also while the exit hook runs. *)
Log ==
    /\ exit # "gone"
    /\ logged < MaxLines
    /\ logged' = logged + 1
    /\ queue' = Append(queue, logged')
    /\ UNCHANGED <<today, listening, exit, last, handler, disk, faults, late, crashes>>

-----------------------------------------------------------------------------
(* The listener thread: it takes a line, asks whether the file is due and
   rotates it, and then writes the line.  The clock moves between the two. *)

LateRollover(sized) ==                   \* mutant: > for >=
    \/ stream = "open" /\ sized /\ Len(file) > MaxBytes
    \/ today >= rolloverAt

(* The size counts only while there is a stream and seek and tell succeed. *)
ShouldRollover(sized) ==
    \/ stream = "open" /\ sized /\ Len(file) >= MaxBytes
    \/ today >= rolloverAt

NextLine ==
    /\ exit # "gone" /\ listening
    /\ hand = {}
    /\ queue # <<>> /\ Head(queue) # Sentinel
    /\ queue' = Tail(queue)

Fault == faults < MaxFaults /\ faults' = faults + 1

(* A flush of the last lines of the file writes any number of them. *)
Flush(pending) ==
    \E rest \in 0 .. pending :
        /\ unsaved' = rest
        /\ touched' = IF rest < pending THEN today ELSE touched

FlushAll ==
    /\ unsaved' = 0
    /\ touched' = IF unsaved > 0 THEN today ELSE touched

TakeUnordered ==                         \* mutant: a second listener thread
    /\ exit # "gone" /\ listening
    /\ hand = {}
    /\ stream # "broken" /\ ~ShouldRollover(TRUE)
    /\ \E k \in DOMAIN queue :
          /\ queue[k] # Sentinel
          /\ queue' = SubSeq(queue, 1, k - 1) \o SubSeq(queue, k + 1, Len(queue))
          /\ hand' = {[n |-> queue[k], day |-> today]}
    /\ FlushAll
    /\ UNCHANGED <<today, logged, listening, exit, last, stream, rolloverAt, file,
                   backups, faults, late, crashes>>

(* No rollover: the file is not due, or its size is not known because the
   flush of seek fails. *)
Take ==
    /\ NextLine
    /\ stream # "broken"
    /\ \/ ~ShouldRollover(TRUE) /\ FlushAll /\ UNCHANGED faults
       \/ stream = "open" /\ ~ShouldRollover(FALSE) /\ Flush(unsaved) /\ Fault
    /\ hand' = {[n |-> Head(queue), day |-> today]}
    /\ UNCHANGED <<today, logged, listening, exit, last, stream, rolloverAt, file,
                   backups, late, crashes>>

(* The closed object is not None, and seek raises what shouldRollover does not
   catch: the line is dropped. *)
Reject ==
    /\ NextLine
    /\ stream = "broken"
    /\ UNCHANGED <<today, logged, listening, exit, last, handler, disk, faults, late, crashes>>

(* The files that are left when all but m have been removed, the oldest first. *)
Latest(files, m) ==
    {b \in files : Cardinality({c \in files : c.day > b.day}) < m}

OtherDays == {b \in backups : b.day # rolloverAt - 1}

(* The rotated files after the rename. *)
Renamed ==
    OtherDays \cup
        (IF stream = "missing" THEN {} ELSE {[day |-> rolloverAt - 1, lines |-> file]})

Rotate ==
    /\ NextLine
    /\ stream # "broken" /\ ShouldRollover(TRUE)
    /\ backups' = Latest(Renamed, BackupCount)
    /\ stream' = "open"
    /\ file' = <<>>
    /\ unsaved' = 0
    /\ touched' = today
    /\ rolloverAt' = today + 1
    /\ hand' = {[n |-> Head(queue), day |-> today]}
    /\ UNCHANGED <<today, logged, listening, exit, last, faults, late, crashes>>

(* doRollover raises: the line is dropped, and the next one finds the stream
   as it was left and the date unchanged. *)
RolloverFails ==
    /\ NextLine
    /\ stream # "broken" /\ ShouldRollover(TRUE)
    /\ Fault
    /\ UNCHANGED <<today, logged, listening, exit, last, hand, rolloverAt, late, crashes>>

(* The close of the stream; it loses what it cannot flush, if the flush of seek
   has failed too. *)
CloseFails ==
    /\ RolloverFails
    /\ stream = "open"
    /\ \E lost \in 0 .. unsaved :
          /\ lost > 0 => ShouldRollover(FALSE)
          /\ file' = SubSeq(file, 1, Len(file) - lost)
          /\ touched' = IF lost < unsaved THEN today ELSE touched
    /\ unsaved' = 0
    /\ stream' = "broken"
    /\ UNCHANGED backups

(* The removal of a file of the same name, or the rename. *)
RenameFails ==
    /\ RolloverFails
    /\ stream' = IF stream = "open" THEN "none" ELSE stream
    /\ backups' \in {backups, OtherDays}
    /\ FlushAll
    /\ UNCHANGED file

(* The removal of the oldest files, or the opening of the new one. *)
ReopenFails ==
    /\ RolloverFails
    /\ stream' = "missing"
    /\ \E m \in BackupCount .. BackupCount + Cardinality(backups) :
          backups' = Latest(Renamed, m)
    /\ file' = <<>>
    /\ unsaved' = 0
    /\ UNCHANGED touched

(* FileHandler.emit opens the file if there is no stream, whatever its size;
   the line is appended, dropped, or left in the buffer by a failed flush. *)
Write ==
    /\ exit # "gone"
    /\ \E line \in hand :
          \/ stream # "open" /\ UNCHANGED <<stream, file, unsaved, touched>>
          \/ /\ stream' = "open"
             /\ file' \in {file, Append(file, line)}
             /\ \E rest \in 0 .. unsaved + Len(file') - Len(file) :
                   /\ unsaved' = rest
                   /\ touched' = IF rest < unsaved + Len(file') - Len(file)
                                      \/ stream = "missing"
                                 THEN today ELSE touched
    /\ hand' = {}
    /\ UNCHANGED <<today, process, rolloverAt, backups, faults, late, crashes>>

TakeSentinel ==
    /\ exit # "gone" /\ listening
    /\ hand = {}
    /\ queue # <<>> /\ Head(queue) = Sentinel
    /\ queue' = Tail(queue)
    /\ listening' = FALSE
    /\ UNCHANGED <<today, logged, exit, last, handler, disk, faults, late, crashes>>

-----------------------------------------------------------------------------
(* _stop_all_listeners: the sentinel, then a join without a timeout. *)
BeginStop ==
    /\ exit = "running"
    /\ exit' = "joining"
    /\ queue' = Append(queue, Sentinel)
    /\ last' = logged
    /\ UNCHANGED <<today, logged, listening, handler, disk, faults, late, crashes>>

ExitWithoutJoin ==                       \* mutant: the thread is not joined
    /\ exit = "joining"
    /\ exit' = "gone"
    /\ UNCHANGED <<today, logged, queue, listening, last, handler, disk, faults, late, crashes>>

Exit ==
    /\ exit = "joining"
    /\ ~listening
    /\ exit' = "gone"
    /\ UNCHANGED <<today, logged, queue, listening, last, handler, disk, faults, late, crashes>>

(* The process ends, killed or after its exit hooks, and a new one takes its
   place; what was in the buffer is lost or was flushed at the end. *)
NewProcess ==
    /\ crashes < MaxCrashes
    /\ crashes' = crashes + 1
    /\ queue' = <<>>
    /\ listening' = TRUE
    /\ exit' = "running"
    /\ last' = 0
    /\ hand' = {}
    /\ stream' = "open"
    /\ unsaved' = 0
    /\ \E lost \in 0 .. unsaved :
          /\ file' = SubSeq(file, 1, Len(file) - lost)
          /\ \/ stream = "missing" /\ touched' = today
             \/ stream # "missing" /\ lost < unsaved /\ touched' \in touched .. today
             \/ stream # "missing" /\ lost = unsaved /\ touched' = touched
    /\ late' = (late \/ (file' # <<>> /\ touched' >= rolloverAt))
    /\ UNCHANGED <<today, logged, backups, faults>>

(* mutants: the file's age is not asked; off by one day *)
RestartFromNow == NewProcess /\ rolloverAt' = today + 1
RestartEarly   == NewProcess /\ rolloverAt' = touched'

(* _make_file_handler: the file is opened, and created if it is missing, and
   its interval is that of its last change. *)
Restart == NewProcess /\ rolloverAt' = touched' + 1

Next ==
    \/ NextDay \/ Log
    \/ Take \/ Reject \/ Rotate
    \/ CloseFails \/ RenameFails \/ ReopenFails
    \/ Write \/ TakeSentinel
    \/ BeginStop \/ Exit \/ Restart

Spec == Init /\ [][Next]_vars
-----------------------------------------------------------------------------
(* Safety. *)

(* Lines of a and then of b are in the order they were logged. *)
Before(a, b) ==
    \A i \in DOMAIN a, j \in DOMAIN b : a[i].n < b[j].n

Ordered(a) == \A i, j \in DOMAIN a : i < j => a[i].n < a[j].n

(* The rotated files by date, and then the current one, hold the lines in the
   order they were logged and none twice, over restarts and failed writes and
   rollovers too: the file names are dates, a size rotation does not disturb
   them, and what a failed flush leaves in the buffer is written before later
   lines or not at all. *)
Chronicle ==
    /\ Ordered(file)
    /\ \A b \in backups : Ordered(b.lines) /\ Before(b.lines, file)
    /\ \A b, c \in backups : b.day < c.day => Before(b.lines, c.lines)

(* Days of the lines lie in first .. final. *)
Within(lines, first, final) ==
    \A i \in DOMAIN lines : first <= lines[i].day /\ lines[i].day <= final

(* "Rotates daily": every file holds the lines of one day, the day in the name
   of a rotated file, also when the process was down at midnight or a rollover
   failed.  A line that reached the disk after midnight only makes a restart
   take the file for the next day's; it then holds the lines from the one day
   to the other, and still none of a day before or after. *)
DaysApart ==
    /\ Within(file, 0, rolloverAt - 1)
    /\ \A b \in backups : Within(file, b.day, rolloverAt - 1)
    /\ \A b \in backups : Within(b.lines, 0, b.day)
    /\ \A b, c \in backups : c.day < b.day => Within(b.lines, c.day, b.day)
    /\ ~late =>
          /\ Within(file, rolloverAt - 1, rolloverAt - 1)
          /\ \A b \in backups : Within(b.lines, b.day, b.day)

(* "Immediately when the file reaches 100 MB", "up to 30 rotated files are
   retained", as far as the disk lets the handler: one failed size check or
   rollover lets one line more into a file, or leaves one rotated file more,
   at most.  Without such failures no file outgrows the cap. *)
DiskBounded ==
    /\ Len(file) <= MaxBytes + faults
    /\ \A b \in backups : Len(b.lines) <= MaxBytes + faults
    /\ Cardinality(backups) <= BackupCount + faults

(* "Gracefully stopped (queue drained) at process exit": when the exit hook is
   done, no line logged before it ran is left in the queue or in hand. *)
DrainedAtExit ==
    exit = "gone" =>
        /\ hand = {}
        /\ \A k \in DOMAIN queue : queue[k] # Sentinel /\ queue[k] > last
=============================================================================
