------------------------------ MODULE Delivery ------------------------------
(***************************************************************************)
(* From the cursor to the sinks: one stream's record processor, the queue  *)
(* and the listener of its log file, the syslog queue and its worker, the  *)
(* two exit hooks, and the state file.  It composes what PollStream,       *)
(* FileLog and SyslogSender model in detail and asks what they do not:     *)
(* what becomes of a record between its handing over, the save of the      *)
(* cursor and the end of the process.                                      *)
(*                                                                         *)
(* Records are numbered in the order of their stamps, which differ, so     *)
(* that a cursor is the number of a record.  A page is any run of records. *)
(* A process ends after its exit hooks, which sys.exit(0) runs in reverse  *)
(* order of their registration, first syslog's and then the log files', or *)
(* without them: systemd stops the service with a SIGTERM that it does not *)
(* handle.  The threads are daemons and go on while the hooks run.         *)
(***************************************************************************)
EXTENDS Naturals, Sequences

CONSTANTS
    QueueSize,   \* _SYSLOG_QUEUE_MAXSIZE
    MaxLines,    \* bound on the listener's queue, which is unbounded, at the start of a poll
    MaxRecords,  \* bound on the records
    MaxEnds      \* bound on the ends of the process

ASSUME DeliveryAssumption ==
    /\ QueueSize \in Nat \ {0} /\ MaxLines \in Nat
    /\ MaxRecords \in Nat /\ MaxEnds \in Nat

VARIABLES
    arrived,    \* records the service has
    next,       \* record the processor is at, 0 between polls
    half,       \* it has been logged and not yet been given to syslog
    mem,        \* state[key], 0 when the key is absent
    disk,       \* the key's value in the state file
    lines,      \* queue of the log file's listener
    listening,  \* the listener runs
    written,    \* records in the log file
    unwritten,  \* records whose write failed
    messages,   \* _syslog_queue
    working,    \* the syslog worker runs
    sent,       \* records sent
    unsent,     \* records the queue or the worker dropped
    main,       \* the main thread, or how the process ended
    late,       \* records logged since the listener's sentinel (history)
    lostLines,  \* records before the cursor that left with the process (history)
    lostMessages, \* the same for syslog (history)
    ends        \* ends of the process so far (bounded)

stream  == <<arrived, next, half>>
cursors == <<mem, disk>>
fileLog == <<lines, listening, written, unwritten>>
syslog  == <<messages, working, sent, unsent>>
exit    == <<main, late, lostLines, lostMessages, ends>>
vars    == <<stream, cursors, fileLog, syslog, exit>>

Records == 1 .. MaxRecords

Sentinel == 0

TypeOK ==
    /\ arrived \in 0 .. MaxRecords
    /\ next \in 0 .. (MaxRecords + 1)
    /\ half \in BOOLEAN
    /\ mem \in 0 .. MaxRecords
    /\ disk \in 0 .. MaxRecords
    /\ lines \in Seq(0 .. MaxRecords)
    /\ messages \in Seq(0 .. MaxRecords)
    /\ listening \in BOOLEAN
    /\ working \in BOOLEAN
    /\ main \in {"running", "putting", "waiting", "stopping", "exited", "killed"}
    /\ written \in SUBSET Records /\ unwritten \in SUBSET Records
    /\ sent \in SUBSET Records /\ unsent \in SUBSET Records
    /\ late \in SUBSET Records
    /\ lostLines \in SUBSET Records /\ lostMessages \in SUBSET Records
    /\ ends \in Nat

Init ==
    /\ arrived = 0
    /\ next = 0
    /\ half = FALSE
    /\ mem = 0
    /\ disk = 0
    /\ lines = <<>>
    /\ listening = TRUE
    /\ written = {}
    /\ unwritten = {}
    /\ messages = <<>>
    /\ working = TRUE
    /\ sent = {}
    /\ unsent = {}
    /\ main = "running"
    /\ late = {}
    /\ lostLines = {}
    /\ lostMessages = {}
    /\ ends = 0

Alive == main \notin {"exited", "killed"}

Arrive ==
    /\ arrived < MaxRecords
    /\ arrived' = arrived + 1
    /\ UNCHANGED <<next, half, cursors, fileLog, syslog, exit>>

-----------------------------------------------------------------------------
(* The stream. *)

FromAfter == mem + 1                         \* mutant: gt for gte

(* The first record of a poll: the filter is gte, without a cursor the
   lookback window has them all. *)
From == IF mem = 0 THEN 1 ELSE mem

StartPoll ==
    /\ Alive /\ next = 0
    /\ Len(lines) <= MaxLines
    /\ next' = From
    /\ UNCHANGED <<arrived, half, cursors, fileLog, syslog, exit>>

(* output_logger.info: QueueHandler puts the line into the queue. *)
Log ==
    /\ Alive /\ next # 0 /\ ~half
    /\ next <= arrived
    /\ lines' = Append(lines, next)
    /\ half' = TRUE
    /\ late' = IF main = "stopping" THEN late \cup {next} ELSE late
    /\ UNCHANGED <<arrived, next, cursors, listening, written, unwritten, syslog,
                   main, lostLines, lostMessages, ends>>

(* send_syslog: put_nowait, or drop the message. *)
Send ==
    /\ Alive /\ half
    /\ IF Len(messages) < QueueSize
       THEN messages' = Append(messages, next) /\ UNCHANGED unsent
       ELSE unsent' = unsent \cup {next} /\ UNCHANGED messages
    /\ half' = FALSE
    /\ next' = next + 1
    /\ UNCHANGED <<arrived, cursors, fileLog, working, sent, exit>>

(* The end of a page that has moved max_ts: the cursor is set and saved, or
   the save fails. *)
EndPage ==
    /\ Alive /\ next # 0 /\ ~half
    /\ mem + 1 < next
    /\ mem' = next - 1
    /\ disk' \in {disk, mem'}
    /\ UNCHANGED <<stream, fileLog, syslog, exit>>

(* The last page or a failed fetch: no record is left in the processor. *)
EndPoll ==
    /\ Alive /\ next # 0 /\ ~half
    /\ next <= mem + 1
    /\ next' = 0
    /\ UNCHANGED <<arrived, half, cursors, fileLog, syslog, exit>>

(* Another stream saves the dict, this stream's cursor in it. *)
OtherStreamSaves ==
    /\ Alive
    /\ disk' = mem
    /\ UNCHANGED <<stream, mem, fileLog, syslog, exit>>

-----------------------------------------------------------------------------
(* The sinks' threads. *)

Listen ==
    /\ Alive /\ listening /\ lines # <<>>
    /\ lines' = Tail(lines)
    /\ LET i == Head(lines)
       IN  \/ i = Sentinel /\ listening' = FALSE /\ UNCHANGED <<written, unwritten>>
           \/ i # Sentinel /\ written' = written \cup {i} /\ UNCHANGED <<listening, unwritten>>
           \/ i # Sentinel /\ unwritten' = unwritten \cup {i} /\ UNCHANGED <<listening, written>>
    /\ UNCHANGED <<stream, cursors, syslog, exit>>

Work ==
    /\ Alive /\ working /\ messages # <<>>
    /\ messages' = Tail(messages)
    /\ LET i == Head(messages)
       IN  \/ i = Sentinel /\ working' = FALSE /\ UNCHANGED <<sent, unsent>>
           \/ i # Sentinel /\ sent' = sent \cup {i} /\ UNCHANGED <<working, unsent>>
           \/ i # Sentinel /\ unsent' = unsent \cup {i} /\ UNCHANGED <<working, sent>>
    /\ UNCHANGED <<stream, cursors, fileLog, exit>>

-----------------------------------------------------------------------------
(* The end of the process. *)

Queued(queue) == {queue[n] : n \in DOMAIN queue} \ {Sentinel}

(* The memory of the process goes with it. *)
Gone(how) ==
    /\ ends' = ends + 1
    /\ main' = how
    /\ lostLines' = lostLines \cup {i \in Queued(lines) : i < disk}
    /\ lostMessages' = lostMessages \cup {i \in Queued(messages) : i < disk}
    /\ lines' = <<>>
    /\ messages' = <<>>
    /\ next' = 0
    /\ half' = FALSE
    /\ mem' = 0
    /\ UNCHANGED <<arrived, disk, listening, written, unwritten, working, sent, unsent, late>>

Kill == Alive /\ (main = "running" => ends < MaxEnds) /\ Gone("killed")

(* KeyboardInterrupt, sys.exit(0): the exit hooks run. *)
Interrupt ==
    /\ main = "running"
    /\ ends < MaxEnds
    /\ main' = "putting"
    /\ UNCHANGED <<stream, cursors, fileLog, syslog, late, lostLines, lostMessages, ends>>

(* _shutdown_syslog_worker: the sentinel waits for room. *)
PutSentinel ==
    /\ main = "putting"
    /\ Len(messages) < QueueSize
    /\ messages' = Append(messages, Sentinel)
    /\ main' = "waiting"
    /\ UNCHANGED <<stream, cursors, fileLog, working, sent, unsent,
                   late, lostLines, lostMessages, ends>>

(* The worker is joined for 10 s, whether it stops or not; then
   _stop_all_listeners puts the listener's sentinel. *)
StopListener ==
    /\ main = "waiting"
    /\ lines' = Append(lines, Sentinel)
    /\ main' = "stopping"
    /\ UNCHANGED <<stream, cursors, listening, written, unwritten, syslog,
                   late, lostLines, lostMessages, ends>>

ExitUnjoined == main = "stopping" /\ Gone("exited")   \* mutant: the listener is not joined

(* The listener has been joined. *)
Exit == main = "stopping" /\ ~listening /\ Gone("exited")

(* A new process loads the cursor, or none when it cannot read the file. *)
Restart ==
    /\ ~Alive
    /\ main' = "running"
    /\ mem' \in {disk, 0}
    /\ listening' = TRUE
    /\ working' = TRUE
    /\ late' = {}
    /\ UNCHANGED <<stream, disk, lines, written, unwritten, messages, sent, unsent,
                   lostLines, lostMessages, ends>>

Next ==
    \/ Arrive
    \/ StartPoll \/ Log \/ Send \/ EndPage \/ EndPoll \/ OtherStreamSaves
    \/ Listen \/ Work
    \/ Kill \/ Interrupt \/ PutSentinel \/ StopListener \/ Exit \/ Restart

Spec == Init /\ [][Next]_vars

(* The threads are scheduled; outages pass, so that a poll that is begun again
   and again comes to its next record; the process is started again. *)
FairSpec ==
    /\ Spec
    /\ WF_vars(StartPoll) /\ WF_vars(Send) /\ WF_vars(EndPage)
    /\ \A i \in Records : SF_vars(Log /\ next = i)
    /\ WF_vars(Listen)
    /\ WF_vars(Exit) /\ WF_vars(Restart)

-----------------------------------------------------------------------------
(* Safety. *)

(* What has become of a record at each sink. *)
InFile   == Queued(lines) \cup written \cup unwritten \cup lostLines
InSyslog == Queued(messages) \cup sent \cup unsent \cup lostMessages

Before(c) == {i \in Records : i < c}

(* No record that is not asked for again, because it is before the cursor in
   memory or before the one a restart loads, is without a trace at either
   sink: it is queued, delivered, reported as failed, or it was queued when a
   process ended (_record_processor saves a page before the sinks are done). *)
Traced ==
    /\ Before(disk) \subseteq InFile \cap InSyslog
    /\ Before(mem) \subseteq InFile \cap InSyslog

(* Traced with what makes it inductive: the records of this poll before the
   present one have been handed to both sinks, the present one to the file
   first, and no cursor is ahead of the service. *)
IInv ==
    /\ TypeOK
    /\ Traced
    /\ Before(next) \subseteq InFile \cap InSyslog
    /\ half => next \in 1 .. arrived /\ next \in InFile
    /\ ~Alive => next = 0 /\ ~half
    /\ next <= arrived + 1
    /\ mem <= arrived /\ disk <= arrived

(* "Gracefully stopped (queue drained) at process exit": an exit with its hooks
   loses of the log file's lines only those that daemon threads log after the
   listener's sentinel, while main joins it; they may be before the cursor. *)
CleanExit ==
    [][main' = "exited" /\ main # "exited" => lostLines' \subseteq lostLines \cup late]_vars

-----------------------------------------------------------------------------
(* Liveness. *)

(* Every record gets to the log file, also when the process ends with it in
   memory, unless its write failed or the process ended after the save of a
   later record's cursor: the record at the cursor itself is asked for again,
   which gt instead of gte would not do. *)
Reaches ==
    \A i \in Records : i <= arrived ~> i \in written \cup unwritten \cup lostLines

-----------------------------------------------------------------------------
(* The abstract specification that each sink implements. *)

FileOutbox == INSTANCE Outbox WITH
    cursor <- disk, pending <- Queued(lines), done <- written, lost <- unwritten \cup lostLines

SyslogOutbox == INSTANCE Outbox WITH
    cursor <- disk, pending <- Queued(messages), done <- sent, lost <- unsent \cup lostMessages

(* Log file and syslog keep the promise of Outbox, whatever the order of saves,
   queues, hooks and process ends. *)
ImplementsOutboxes == FileOutbox!Spec /\ SyslogOutbox!Spec
=============================================================================
