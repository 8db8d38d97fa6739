# Cortex XDR poller: a verification development

TLA+ specifications of the poller, model-checked with TLC on small instances and
proved with TLAPS where a result should not depend on the instance. Line numbers
below refer to the repository's sources.

## The system

The poller reads four streams (alerts, incidents, management audits, agent audits)
from the Cortex API, formats each record and hands it to a log file and a syslog
server. A cursor per stream, the largest timestamp handled so far, decides where
the next poll starts; all four are kept in one dict and one state file.

| component | source | state | operations |
|---|---|---|---|
| entry point, stream loop | `cortex.py` | the main thread, one thread per stream, the shared dict | check the format, start, join, exit; poll, log an exception, sleep |
| poll cycle | `poller_base.py`, `poller_*.py` | `since_ts`, `ctx`, `page_queue`, a processor thread | start, enqueue a page, sentinel, join |
| record processor | `poller_base.py` | the page in hand, `ctx["max_ts"]` | take a page, format and emit a record, set and save the cursor |
| API client | `api_base.py`, `api_*.py` | offset, attempt, headers, the proxy cache | build headers, find the proxies, request a page, retry, give up, raise |
| state file | `state.py` | `_save_lock`, `STATE_FILE.tmp`, `STATE_FILE` | load, dump, rename |
| syslog sender | `syslog_handler.py` | bounded queue, worker thread, one socket | enqueue or drop, connect, send, retry, stop at exit |
| log files | `logging_setup.py` | unbounded queue, listener thread, current and rotated files | log, write, rotate, delete, stop at exit |
| receivers | `syslog_receiver.py`, `syslog_server.py` | a buffer per connection | read, split into messages |
| configuration | `config.py` | constants of the process | parse the environment |
| formatters | `formatters.py`, `leef.py`, `cef_utils.py`, `qradar.py` | none | record to line |

How they interact: the stream thread *calls* `poll_stream`, which *starts* a
processor thread and shares a *queue* of pages with it. The processor calls
`send_syslog` and the logger, which *enqueue*; the worker and the listener threads
do the I/O. All processors share the cursor *dict* and `save_state`. At exit the
*hooks* of `syslog_handler` and then `logging_setup` stop the two kinds of worker,
while the daemon processors are still running.

What is hard: the processor saves a cursor while its poll goes on; a fetch may fail
after some pages, or raise and leave its processor behind; a save may fail or be
raced by another stream's key; the process may die anywhere; result sets are capped
and, for incidents, re-sorted while they are read; queues fill, connections break,
receivers stall; rotation by size and by date share one name; the cursor is saved
before the sinks have written, and the processors go on while the exit hooks run; the
threads fill one proxy cache without a lock; records carry any text, and some
timestamps cannot be rendered.

What makes each part correct: no record is left behind a cursor (poll cycle, API
client); the state file is always whole and no stream undoes another's save (state
file); a message is delivered at most once, in order, and none vanishes unaccounted
(syslog sender); the log files read in order, one day each, within their bounds
(log files); a line can be taken apart into what was put in, and no field vanishes
(formatters); every record before a cursor has been handed to both sinks and is
written, sent, reported or was in memory when the process ended (delivery); every
request goes the configured way and every stream polls for ever (entry point, API
client).

## Modules

| module | models | is about |
|---|---|---|
| `CursorFeed` | abstract | the promise of one stream: the cursor passes a record only when it has been dealt with |
| `PollStream` | `poller_base`, `api_base`, `cortex`, the cursor of `state` | one stream with its threads and failures; implements `CursorFeed` |
| `PollStreamInv` | | the inductive invariant of `PollStream` |
| `PollStreamProofs` | | the theorems about `PollStream` |
| `StateFile` | `state`, its callers | several writers, one dict, one lock, one temporary file |
| `StateFileProofs` | | the theorems about `StateFile` |
| `BestEffortChannel` | abstract | at-most-once delivery |
| `SyslogSender` | `syslog_handler`, a receiver | queue, worker, connections, exit; implements `BestEffortChannel` |
| `SyslogSenderInv` | | the inductive invariant of `SyslogSender` |
| `SyslogSenderProofs` | | the theorems about `SyslogSender` |
| `Framing` | `syslog_handler`'s payload, `syslog_receiver`, `syslog_server` | the bytes of one connection: truncation, framing, chunks, parsing |
| `FramingInv` | | the inductive invariant of `Framing` |
| `FramingProofs` | | the theorems about `Framing` |
| `FileLog` | `logging_setup` | queue, listener, rotation, restart, exit of one log file |
| `FileLogInv` | | the inductive invariant of `FileLog` |
| `FileLogProofs` | | the theorems about `FileLog` |
| `FieldMaps` | tables of `leef`, `formatters`, `qradar` | which field of a record has which key in a line |
| `EventLine` | `formatters`, `leef`, `cef_utils`, `qradar` | a record becomes a line or is refused; a reader takes it apart |
| `EventLineProofs` | | the theorems about `EventLine` |
| `Outbox` | abstract | what a sink promises a stream with a saved cursor |
| `Delivery` | `poller_base`, `logging_setup`, `syslog_handler`, `state`, `cortex` | a stream with both sinks, the exit hooks, the ends of the process; implements `Outbox` twice |
| `DeliveryProofs` | | the theorems about `Delivery` |
| `Streams` | `cortex`, `config`, requests of `api_base` | start-up, threads, attempts, the proxy cache |
| `StreamsProofs` | | the theorem about `Streams` |
| `MC...` | | the instances TLC checks |

Operators whose comment starts with *mutant* are plausible wrong versions of the
definition that follows them. No specification uses them; each shows that a
property notices that mistake.

### PollStream

| code | model |
|---|---|
| `state.get(state_key)`, the key in the file | `mem`, `disk` (0: absent) |
| `compute_lookback_ts` | `LookbackStart`; `base` remembers the latest one used |
| `since_ts`, `ctx["max_ts"]`, `page_queue`, the page being handled | `proc[s].since`, `.maxTs`, `.pages`, `.closed` (the sentinel), `.hand` |
| the thread's place | `proc[s].status`, `loop` |
| offset and attempt of `fetch_all`, `_fetch_page` | `searchFrom`, `attempt` |
| a call of `poll_stream` up to the fetch | `StartPoll` |
| an answered request, `on_page`, the sentinel after the last | `FetchPage` |
| an error `_fetch_page_once` catches or reports, a retry, giving up | `AttemptFails` |
| an exception out of `_fetch_page_once` | `FetchRaises` |
| `processor.join()` | `Joined` |
| `_record_processor` | `TakePage`, `TakeSentinel`, `HandleRecord`, `EndPage` |
| another stream's `save_state` | `OtherStreamSaves` |
| end of the process, `load_state` | `Restart` |

A page is the set of its records, which are numbers in the order of their stamps,
and is handled from the smallest. A record's kind is what it does to the processor
(`AllKinds`). The service is external: its clock, the stamping of records (several
may share a tick, up to `TieLimit`), the filter, the ascending order and the cap.
`Modify`, only in `IncidentSpec`, gives a record a new stamp and withdraws the old
version, as a changed incident does. `EndPage` sets the cursor and saves in one step;
`StateFile` takes the save apart.

`handled` is a history variable: handed to the sinks, or reported as unformattable.
What the sinks do with it is the subject of `SyslogSender`, `FileLog` and, together,
`Delivery`.

### StateFile

The variables are the dict, the lock, the two files and each writer's place in
`save_state`. `json.dump` is an iteration: a step per item, which reads the dict as it
is then, and raises as soon as the dict has grown. `OSError`s are possible at every
I/O call. There is one writer per stream; processors left behind by a raised fetch
are in `PollStream`.

### SyslogSender

`conns` is the sequence of connections made, each with the frames on its wire and
the frames read from it. A connection may break at any time and its frames be read
or lost; a send on a broken one succeeds in vain or fails. `WireCap` frames on the
wire make `sendall` block, which has no timeout. For UDP each datagram is a
connection that is closed at once. `exit` is the main thread in the exit hook.

### Framing

`SyslogSender` takes frames whole; `Framing` justifies it. A byte is a digit, a space,
a line feed or a letter (any other). `stream` is all that `sendall` was given, of
which `Receive` moves any number of bytes into `buf`, and each pass of the `while`
loop of `handle_client` or `parse_frames` is a `TakeMessage` or, for its `break`s and
its condition, `WaitForMore`. `Break` picks the last byte that arrives, so that a frame
may be cut anywhere; `buf` is then forgotten. The lines are as the formatters make
them (`FramingAssumption`): they begin with no digit or blank, and contain a space,
without which `parse_frames` would wait although a line feed is there. `Fits` says what a
framing can carry: octet counting any text, newline framing a line whose only line feed
is its last byte.

### FileLog

| code | model |
|---|---|
| the record in `QueueListener.handle`, past `shouldRollover` | `hand`: one line at most, with the day of its check |
| `handler.stream` | `stream`: `open`, `broken` (a closed object), `none` (None), `missing` (None, and no file) |
| `handler.rolloverAt` | `rolloverAt`; `rolloverAt - 1` is the day the interval began, which names the rotated file |
| the current file, what of it is in the stream's buffer, its mtime | `file`, `unsaved`, `touched` |
| `shouldRollover` says no, or its `seek` or `tell` fails (line 52) | `Take` |
| its `seek` of a closed object (`ValueError`, not caught) | `Reject` |
| `doRollover`, done or failing at the close, the rename, or the deletions and the opening | `Rotate`, `CloseFails`, `RenameFails`, `ReopenFails` |
| `FileHandler.emit` with its opening of a file without a stream, and its flush | `Write` |
| the sentinel, `_stop_all_listeners`, a new process | `TakeSentinel`, `BeginStop` and `Exit`, `Restart` |

A line has the size 1. The clock may pass midnight between the check of a line and its
write. The size counts only while there is a stream (`logging_setup.py:48`) and `seek`
and `tell` succeed (line 52); otherwise the date alone decides. A failed rollover leaves
the date as it was and drops the line at hand, as the listener's `handleError` does. A
failed flush leaves any number of the last lines in the buffer, which a later flush
writes or a close loses. The standard library's handler is external and modelled as in
Python 3.10 to 3.12: rotation removes a file of the same name, and then the oldest above
`BackupCount`.

Two histories say what a failure may cost. `faults` counts the size checks and rollovers
that failed; failing writes and opens are not counted and cost nothing but their lines.
`late` says that a restart found the file changed after its interval: its mtime is then
that of a line that reached the disk after midnight, and the new handler takes the file
for the next day's. Left out: a line of which only a part reaches the disk; and one
rollover reads the clock once, where the code reads it again for the next date.

### EventLine and FieldMaps

`format_record` is one step from a record to a line or to an exception (`Refuse`), which
makes the poller skip the record. A text is a sequence of characters; those that a
format treats specially have names, all others are `Letters`, a constant. A record is a
finite function from names to values (`IsRecord`), where a name is an identifier, so that
it has no character that a format treats specially. Two dicts in one are `++`, the first
of which wins; the fields stand in the line in the order of `Listed`, which is some order.
A value is its text and its kind: a text, a number, a list or dict (`items`), empty, or a number so large that
`datetime` raises `OverflowError`, which `epoch_to_iso` does not catch (`far`). The tables
are complete and in the code's order.

`fields` is what the formatter puts into the line, with the field of the record each
comes from. `Read` is a reader of CEF and LEEF that is written from the formats and
knows nothing of the formatters. `ReadsBack` compares the two, so that an escape that
is missing, too much or in the wrong place shows. Left out: the order of a line's
fields, severities, QRadar's alert categories, timestamps that are zero or not finite.

### Delivery and Outbox

| code | model |
|---|---|
| the record the processor is at, between the two sinks | `next`, `half` |
| the listener's queue and `_syslog_queue` | `lines`, `messages`, with `Sentinel` |
| `output_logger.info`, `send_syslog` | `Log`, `Send` |
| a page that moved `max_ts`; the poll's end | `EndPage`, `EndPoll` |
| `sys.exit` after Ctrl-C, the two hooks in their order | `Interrupt`, `PutSentinel`, `StopListener`, `Exit` |
| SIGTERM, SIGKILL, a crash | `Kill` |
| a new process | `Restart` |

Records have different stamps, so that a cursor is the number of a record and the
detail of pages and ties can stay in `PollStream`. `lostLines` and `lostMessages` record
what was in memory before the cursor when a process ended: these records are never
asked for again. That they exist is the code's design; that there are no others is
what `IInv` and `ImplementsOutboxes` say, and that Ctrl-C adds only what was logged after
the listener's sentinel is `CleanExit`. `Outbox` is the promise from the sink's side:
the cursor is only saved past records that the sink has accepted or turned away.

### Streams

The environment is chosen at the start and read through `ParseInt`. `main` checks the
format and starts a thread at a time. `_build_proxies` is taken apart into the accesses
to its two globals, since the threads run it at once. `headers[s]` says whether the
headers at hand have been sent before. A poll is here the attempts at one page.

## Runs

| run | question | instance | result |
|---|---|---|---|
| `pages` | can a cursor pass a record, go back, or be invented? does the stream implement `CursorFeed`? | one processor, all kinds, pages of 1, cap 3, 3 records, 2 a tick, 2 attempts, 1 restart | holds |
| `live` | is every record handled, does every poll end, with an orphan next to the next poll? | two processors, good and poison records (`Damaged`), pages of 1, cap 2, 3 records, 2 attempts, 1 restart, `FairSpec` | holds |
| `saves` | is the file whole, is a save undone, does every save end? | 2 streams, cursors to 3, 1 restart, `FairSpec` | holds |
| `sender` | where can messages be, in which order? does the queue move, does the exit end? | TCP and UDP, queue of 2, 4 messages, 3 connections of 1 frame, `FairReceiverSpec` | holds |
| `framing` | does either receiver write exactly what was framed, in either framing? | lines of 3, 4 (one with an inner line feed) and 12 bytes, ceiling 10, 2 frames, any chunks, a break anywhere, `FairSpec` | holds |
| `rotation` | are the files ordered, of one day each and bounded, whatever fails? | cap 2, 2 backups, 6 lines, 4 days, 2 failed size checks or rollovers, any failed writes, 1 restart | holds |
| `lines` | can a line be read back, is it one line, does a field vanish? | every pair of fields of a stream, and every field with each pair of 11 difficult values; all formats, `Letters` those of the records and names, lists cut after 2 characters | holds |
| `delivery` | where is a record that is not asked for again? what does an exit lose? does every record arrive? | 2 records, a syslog queue of 1, 2 ends of the process, `FairSpec` | holds |
| `streams` | does every request go the configured way, does every stream go on? | 2 streams, 108 environments, `FairSpec` | holds |
| `doc_*` | a sentence of the documentation | the smallest that refutes it | violated |

The bounds are the smallest with every case in them: three records and pages of one
give a poll with a page handled, one queued and one not yet requested; two records a
tick give ties at a page boundary and at the cursor; a cap of two of three records
leaves one for a later poll; two processors are enough for an orphan next to a live
one; two streams give a dump and a writer that waits for it or changes the dict under it
(the proofs have any number);
two frames give a chunk with the end of one and the beginning of the next, and a length
of two digits that is cut between them;
a queue of two with four messages is full with one in hand and one on the wire; two
backups and four days delete a file, and with two failures and six lines a file has two
lines over the cap and there are two rotated files too many; a syslog queue of one is full with one message in
it, and two ends of the process let the second lose what the first had asked for again;
two threads race for the proxy cache; two fields are enough for a collision, and
values of up to five characters for every order of two escapes. The clock, records, messages, connections, lines
and restarts are bounded by the constants named `Max...`; the proofs need none of
these bounds to be small.

No symmetry is used, so that safety and liveness can share a run. Deadlock is
checked except in the syslog, framing, log file, line and start-up runs, where the
process or the connection ends or the one line is made.

### Fairness

* `PollStream`: weak for the threads' own steps, since they are scheduled and a sleep
  ends. Strong for `FetchPage` at each offset: an outage passes, so a request that
  is made again and again is answered in the end. Without it nothing could be
  promised; failures and restarts are never required. `EventuallyHandled` has three
  exceptions: a record that falls out of a window that starts anew because there is no
  cursor yet; one behind a reply item that is no dict (`Poisoned`), which ends each
  processor that reaches it; and one behind as many results as the service shows
  of which none moves the cursor (`Crowded`), where every poll gets the same ones again.
  They are conditions of the present state: as soon as none of them holds for good, the
  record must be handled.
* `StateFile`: strong for `Open`, because `threading.Lock` gives no turn, yet between
  two saves of a thread lie requests and sleeps during which the lock is free.
* `Framing`: weak for the reader's thread, with a network that delivers.
* `SyslogSender`: weak for the worker and the exit hook. `FairReceiverSpec` adds a
  receiver that reads what has been sent.
* `Delivery`: weak for the stream's thread, the listener, the hooks; strong for `Log` of
  each record, the outages that pass; weak for `Restart`. That the process is started
  again is an assumption about its operator: `Restart=on-failure` of
  `cortex-xdr-poller.service` does so after a crash and not after an exit with status 0.
* `Streams`: weak for main and each thread; a request ends by its time-out.

## What the runs say about the documentation

| run | said | done |
|---|---|---|
| `doc_alert_cursor` | `poller_alerts.py:11`, `test_alerts_incidents.py:145-146` the cursor reads `detection_timestamp` | it reads `creation_time`; without that field it never moves |
| `doc_incident_updates` | `api_incidents.py:14-16` updates are captured on later polls | one that shifts the others over a page boundary makes the poll skip one |
| `doc_independent` | `cortex.py:10`, `state.py:31` independent streams, thread-safe saves | a first key set during another stream's dump ends that stream's processor |

More differences follow from the definitions and have no run.

* `CODEBASE.md:156-158` says that a partial fetch leaves the state unchanged; `EndPage`
  moves the cursor with every page, as `poller_base.py:78-79` says.
* `poller_base.py:191` says that the processor finishes all queued pages before the
  poll ends; when the fetch raises (`FetchRaises`) neither the sentinel nor the join
  happens. Nothing is lost (`NoGapTheorem`, for any number of processors), but the orphan
  may set the cursor back and its records are delivered again, which is why `NoRewind` and
  `CursorMonotone` are properties of `pages` only.
* Without a saved cursor each poll computes a new lookback window (`Since`), so that
  what a failed first poll asked for can fall out of it, though `README.md:14` says that
  "a mid-fetch failure wastes nothing"; `EventuallyHandled` excepts such records.
* A second rotation on one day removes the file of the first (`OtherDays`), though
  `README.md:187-191` promises 30 retained files; that one depends on the interpreter's
  library as described under FileLog. So does a rollover at midnight that fails after its
  rename (`ReopenFails`): the date stands still, and the next one removes the file that
  was just renamed.
* `README.md:189` and `logging_setup.py:38-39` say that a file is rotated immediately when
  it reaches its size. When the size check fails (`logging_setup.py:52`), or a failed
  rollover has left no stream (line 48), a line is appended to a full file; `DiskBounded`
  allows one for each such failure.
* A close that fails in a rollover (`CloseFails`) disables the log file until the process
  is started again: the closed stream is not None, its `seek` raises a `ValueError`, which
  `logging_setup.py:52` does not catch, and each later line is dropped (`Reject`) and
  reported on stderr.
* `README.md:188` says daily. A line checked before midnight and written after it makes a
  restart take the file for the next day's, so that it may hold lines of both days
  (`late` in `DaysApart`).
* `CODEBASE.md:311-312` says that newline framing sends one message per event.
  `CefEscapeHeader` lets line feeds pass (`cef_utils.py:30`), so that an alert or incident
  name with one makes two messages; `OneLine` is about everything but the header.
* `syslog_handler.py:116` says "wait at most 10 s". Only the join has the time-out: the
  `put` before it (`PutSentinel`) waits for room, for ever if the queue is full and the
  receiver does not read; `ExitEnds` assumes one that reads.
* `logging_setup.py:16,23,139` say that the queues are flushed at exit. The processors are
  daemon threads that go on: what they log after the listener's sentinel is lost, and
  the cursor may be saved past it (`late` in `CleanExit`).
* `CODEBASE.md:371-374` says that the state only advances on full success and the records of
  a failed poll are fetched again; the cursor moves with every page.
* `CODEBASE.md:385` says that records beyond the cap of 9999 are silently missed; later polls
  reach them (`EventuallyHandled`), with the exception of `Crowded`.
* `cortex.py:45-47` says that a stream restarts rather than killing the thread. A negative
  `POLL_INTERVAL_SECONDS` passes `_parse_int`, and `time.sleep` raises outside the `try`
  (`Sleep`): each thread ends after one poll, main returns with status 0 (`Finish`), and
  the service manager does not start it again.
* `qradar.py:30-31` falls back to the text of a timestamp that is no number; the `int()` of
  line 155 raises for the same value, so that the record is refused (`Raises`).
* In CEF the last of three hashes is `fileHash` and the others are in no field
  (`CefMap`); QRadar's format keeps the first and passes the others through.
* `CODEBASE.md:184` shows another LEEF header than `leef.py:204`.

## Proofs

**PollStream.** `NoGap` is not inductive: to see that the next cursor is safe one must
know what the processor that saves it still holds. `IInv` (`PollStreamInv`) adds

* `LogInv`, `ClockInv`: the log is sorted and neither a stamp nor a cursor is in the
  future, so that a record that arrives later is not behind a cursor;
* `CursorInv(s)`: everything in the window before a processor's `maxTs` has been
  handled or is in its hand;
* `HandInv(s)`, `QueueInv(s)`: the page in hand, and each queued page given those
  before it, has no gap before any of its records;
* `FetchInv`: the results before the next offset have all been queued.

The step that carries the argument is `FetchPage`: the rank of a record in the result
set does not change when records arrive (`RankStable`), so that the page at the next
offset continues the earlier ones. `EndPage` is then safe because the hand is empty.
From `ConstantsAssumption` alone: `TypeCorrect`, `Invariance`, `NoGapTheorem`, and
`Implements`, by which the stream implements `CursorFeed` under the mapping of
`Feed` (`cursor <- mem`, `saved <- disk`, `dealt <- handled`, `stamps <- Stamps`). They
hold for any number of processors, restarts and records and any page size and cap.
They are about `Spec`; with `Modify` `NoGap` is false (`doc_incident_updates`).

`CursorAttainedTheorem` needs that a maximum a processor has moved is the stamp of a
record it handed over (`AttainedInv`). `QueueAheadTheorem` rests on the order in which
records reach a processor: hand before queue, pages in the order of the queue, and the
processor's maximum behind all of them and behind whatever the fetch loop has yet to ask
for (`OrderInv`, `FetchOrderInv`; again by the ranks). From the same order follow
`CursorMonotoneTheorem` and `NoRewindTheorem`, which have the assumption `OneProcessor`:
no reply of an unexpected shape has left a processor running beside the next poll's.
Without it a left-over processor can save an older cursor after a newer one, which costs
repeated deliveries and no record (`NoGapTheorem` does not have the assumption).
`AttainedInv` and `AheadInv` were first checked with TLC, also with two processors.

**StateFile.** `IInv` adds that the lock is with the thread that dumps or renames
(`LockInv`), and what the temporary file is worth at each moment (`DumpInv`): outside
the keys still to be written it agrees with the cursors that count as saved and
with the writer's own, it is not behind the state file and not ahead of the dict.
`SaveInvariance`, `FileWholeTheorem`, `SavedStaysSavedTheorem` and
`NoRollbackTheorem` follow from `StateFileAssumption`. `NoRollback` is about processes that
loaded the file: after an unreadable one the first save removes the other streams' keys,
and after the next restart these streams start from their lookback window, which is the
case of a lost cursor in `PollStream` (`Restart`).

**Delivery.** That every record before a cursor has been handed over is not inductive:
`EndPage` sets the cursor to `next - 1`, so that `IInv` must know that the records of
this poll before `next` have been handed to both sinks, that the present one is at the file
when `half` is set, and that `next` and both cursors are not ahead of the service.
A poll starts at the cursor, so that the records before it are those `Traced` covers.
`Invariance` and `TracedTheorem` follow from `DeliveryAssumption`; `Implements` adds the
mapping of both sinks onto `Outbox`, where a process end moves what is queued before the
saved cursor to `lost`. `CleanExitTheorem` has an invariant of its own (`ExitInv`): while
main waits for the listener, every line behind the sentinel is `late`, and when the
listener has stopped only such lines are left.

**Streams.** `ReadyToPostTheorem` needs that a set flag means a filled cache
(`CacheFilled`), that the cache never holds anything but the configured proxies
(`CacheKept`), and what each thread has behind it at each step (`Passed`).

**SyslogSender.** None of `Accounted`, `SendOrder` and `DrainedWhenStopped` is inductive:
that a retried message goes behind what the broken connection carried depends on what the
hand and the queue may hold. `IInv` (`SyslogSenderInv`) is one order: the frames read
from the connections and on their wires, connection after connection, then the message
in hand, then the queue (`ConnInv`, `QueueInv`). `PlaceInv` says that what was turned away
or lost is nowhere else and that everything offered is somewhere; `SentinelInv` that only
messages offered later are behind the sentinel; `WorkerInv` that the open socket is that of
the newest connection, so that `SendAll` appends to the end of the order. Since the
numbers increase along it, a message cannot be in two places, which gives
`AccountedTheorem`, `SendOrderTheorem` and `DrainedWhenStoppedTheorem`. `ChannelTheorem` maps
each step to one of `BestEffortChannel`: `Accept`, `Refuse`, `Deliver`, `Lose` or none.
From `SyslogAssumption` alone, for both transports and with any number of reconnects.

**FileLog.** `IInv` (`FileLogInv`) ties the handler's date to the files': the interval has
begun, the file has changed in it or later, the line in hand belongs to it, and the rotated
files are of earlier ones and have a day each (`DayInv`), which is why removing the file of
the same name leaves the others in order. A line in hand, or a file that a failed rollover
has left without a stream, has room below the cap and the failures so far (`RoomInv`). The
line in hand continues the files and the queue both (`OrderInv`); behind the sentinel are
later lines only (`StopInv`). With failures at every step of a rollover the proofs do not
go action by action for each part, but through lemmas on what any step does: the file keeps
a beginning of itself and gets the line in hand at most (`FileStep`), a rotated file was
there before or is the one that was current, which is then empty (`BackupStep`), the clock,
the last change and the interval do not go back (`ClockStep`), an interval changes under
lines only at a restart that found the file changed late (`IntervalStep`).
`DiskBoundedTheorem` needs `LatestBound`, that files with fewer than `m` later ones are at
most `m`, by their ranks. `FileLogInvariant`, `ChronicleTheorem`, `DaysApartTheorem`,
`DiskBoundedTheorem` and `DrainedAtExitTheorem` follow from `FileLogAssumption`, for any
number of failures.

**Framing.** `IInv` (`FramingInv`) says that the stream is the frames of the sent lines,
one after the other (`StreamInv`), and that the buffer is the stream from the end of the
frame written last to the byte received last (`ReaderInv`). The step that carries the
argument is `TakeMessage`: `ParseLine` and `ParseCounted` show, for either receiver, that a
buffer which begins with a part of a frame makes the loop wait, and that one which holds
the frame makes it write that line and take the frame's bytes and no more, whatever
follows. `ParseCounted` needs that `int(str(n))` is `n` and that `str(n)` is digits without a
space (`DecimalFacts`, `LengthAppend`). These are inductions, which the library states with
operators as parameters; they are made here over sets of numbers (`LeastElement`,
`AllNumbers`), and a recursive function equals its definition by the union of its finite
approximations (`Recursion`). `FramingInvariant` and `LinePerFrameTheorem` follow from
`FramingAssumption` alone, for any lines, ceiling, number of frames and chunks. That no
byte is written twice or mixed with another frame's is part of it.

**EventLine.** The theorems are about the real tables of `FieldMaps` and every record,
of any fields and texts. `NothingVanishesTheorem` follows the formatters' two loops: a
field that a table names has a key there, of which a later one can take it over; any
other is passed through under its own name, unless that is taken; in QRadar's format the
base fields come first and everything without a place among them is passed through.
The other three come from `IInv`. Its part `Written` says that a line of CEF, QRadar or
LEEF is `Composed`: the format's beginning, the header's five texts, and the joined pairs
of fields whose keys have no special character (`Printable`).

What carries `OneLine` is where the header ends. `CefEscapeHeader` leaves a text that is
closed (no backslash at its end escapes what follows) and without a bare pipe
(`EscapeFacts`, `OnePipe`), so that neither it nor the pipe behind it changes what the
next text means. The header's parts therefore end at the first seven bare pipes of the
line (`BareMarks`, `MarksFacts`, `HeaderFacts`), and behind them `EncodeFacts` and
`ListedFacts` show that no key and no value, cut or not, brings a line feed.

`ReadsBackTheorem` is what the escapes are for: a reader of the line gets back what was
written, for every text a record can have.

1. Characters. Taking the escapes away from an escaped text gives the text
   (`EscapeFacts`). `Truncate` may cut through the middle of an escape: what is left is
   an escaped beginning of the text with a backslash too much (`CutsFacts`), which then
   stands before the mark `[TRUNC]` and changes nothing of it (`CutFacts`), so that the
   separator that follows remains one (`CefValue`). `LeefValue` is the same for `Sanitise`.
2. Pairs. A key, its equals sign, a value and a separator are a closed text whose only
   bare equals sign is the one after the key (`BitFacts`, `BitBare`), and for closed
   texts one behind the other the bare characters of the whole are those of the parts
   (`BareConcat`, `PartFacts`).
3. Readers. The CEF reader goes by the bare equals signs: they are the pairs' (`CefEquals`)
   in the pairs' order (`CefRising`), the last blank before one precedes its key
   (`CefSpace`), and a value ends where the next key begins (`CefNext`), so it finds every
   pair and nothing else (`CefReader`). The LEEF reader goes by the pipes, of which five
   are in the line's beginning and the others end the pairs (`LeefMarks`, `LeefReader`).
4. `CefReads` and `LeefReads` put them together for a `Composed` line, `WrittenReads`
   gives `ReadsBack`.

All from `EventLineAssumption`, of which the proofs need that letters are not special
characters. Recursive functions (`Backslashes`, `FlattenSeq`, `Listed`) are handled as in
`FramingProofs`: `Recursion` gives their values.

Model-checked only: the liveness properties (liveness under fairness is out of the
prover's reach). Every invariant and every action property of a passing run is proved.

## Not modelled

* Late or re-ordered indexing by the service, clocks that disagree or go back.
* A power loss with unsynced files; it has the effect of an unreadable state file.
* The hash of advanced authentication, TLS, and the replies' JSON: libraries. Which
  exceptions a request may end in is in `AttemptFails` and `FetchRaises`.
* Of the lines: the optional syslog header, the order of fields, severities, QRadar's
  alert categories. They are total functions of one field and no state depends on them.
* Of `config.py`: the parsing of flags and names, one expression each.
* The two operations logs with their level filters and the fallback to `NullHandler`,
  which decide what an operator sees and not what becomes of a record.
* The receivers' accept loops and file writes; they are auxiliary programs.

## Plan

1. Core: `PollStream`, `CursorFeed` and their proofs; `StateFile` and its proofs;
   `SyslogSender`, `Framing`, `FileLog`. Done.
2. `EventLine`: the formatters. `Delivery` and `Outbox`: the composition of a stream with
   its sinks and the exit, with proofs. `Streams`: start-up, requests, configuration, with
   its proof. Done.
3. Proofs: `SyslogSender` with the refinement of `BestEffortChannel`, `FileLog`, `Framing`.
   Done.
4. `EventLineProofs`: `TypeCorrect`, `NothingVanishesTheorem`, `OneLineTheorem` and
   `ReadsBackTheorem`. Done.
