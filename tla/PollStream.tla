----------------------------- MODULE PollStream -----------------------------
(***************************************************************************)
(* One stream of the poller: the stream loop (cortex.py), its poll cycle   *)
(* and record processor (poller_base.py), the paginated fetch with retries *)
(* (api_base.py) and the stream's cursor in the shared dict and in the     *)
(* state file (state.py).  Two threads run concurrently, the stream thread *)
(* that fetches pages and the processor thread that handles them; they     *)
(* share an unbounded queue of pages closed by a sentinel.  A processor    *)
(* that a raised fetch leaves behind keeps running, so there may be many.  *)
(*                                                                         *)
(* The service is external: it stamps records with its clock, answers a    *)
(* request with the records whose stamp is >= since in ascending order,    *)
(* cut to [search_from, search_from + PageSize), and never shows more than *)
(* the first Cap of them (9999 at Cortex).                                 *)
(***************************************************************************)
EXTENDS Naturals, Sequences, FiniteSets

CONSTANTS
    PageSize,      \* PAGE_SIZE, records per request
    Cap,           \* largest result set the service pages through
    MaxAttempts,   \* max(1, REQUEST_MAX_RETRIES)
    Lookback,      \* length of the first-run window, in clock ticks
    Slots,         \* processor threads that may exist at once (a bound)
    Kinds,         \* kinds of records the service sends in this instance
    OtherStreams,  \* streams that share the state dict with this one
    TieLimit,      \* most records the service stamps with one tick
    MaxTime,       \* bound on the clock
    MaxRecords,    \* bound on the records, versions of one included
    MaxCrashes     \* bound on process restarts

(***************************************************************************)
(* What a record does to _record_processor.  "good": formatted and handed  *)
(* to the sinks, its timestamp moves the cursor.  "untimed": the same, but *)
(* the response carries no usable timestamp field.  "unformattable":       *)
(* format_record raises, the record is reported and skipped.  "notdict":   *)
(* format_record raises and so does the handler's record.get, which ends   *)
(* the thread.                                                             *)
(***************************************************************************)
AllKinds == {"good", "untimed", "unformattable", "notdict"}

ASSUME ConstantsAssumption ==
    /\ PageSize \in Nat \ {0} /\ Cap \in Nat \ {0} /\ MaxAttempts \in Nat \ {0}
    /\ Lookback \in Nat /\ OtherStreams \in Nat
    /\ Kinds \subseteq AllKinds
    /\ TieLimit \in Nat /\ MaxTime \in Nat \ {0} /\ MaxRecords \in Nat /\ MaxCrashes \in Nat

VARIABLES
    now,         \* the clock, service and poller agree on it
    log,         \* the service's records, in the order of their stamps
    live,        \* the versions the service still shows
    loop,        \* the stream thread: idle, fetching or joining
    cur,         \* slot of the processor of the current poll
    searchFrom,  \* offset of the next request
    attempt,     \* number of the next attempt at it
    proc,        \* the processors, with the page queue each reads
    mem,         \* state[key], 0 when the key is absent
    disk,        \* the key's value in the state file, 0 when absent
    unset,       \* keys of other streams not yet in the dict
    base,        \* start of the latest lookback window (history)
    handled,     \* records handed to the sinks or reported (history)
    crashes      \* restarts so far (bounded)

service == <<now, log, live>>
fetch   == <<loop, cur, searchFrom, attempt>>
cursors == <<mem, disk, unset>>
vars    == <<service, fetch, proc, cursors, base, handled, crashes>>

FreeProc == [status |-> "free", pages |-> <<>>, closed |-> FALSE,
             hand |-> {}, since |-> 0, maxTs |-> 0]

ProcType == [status : {"free", "waiting", "handling", "stopped"},
             pages : Seq(SUBSET Nat), closed : BOOLEAN,
             hand : SUBSET Nat, since : Nat, maxTs : Nat]

TypeOK ==
    /\ now \in Nat
    /\ log \in Seq([ts : Nat, kind : Kinds])
    /\ live \in SUBSET Nat
    /\ loop \in {"idle", "fetching", "joining"}
    /\ cur \in Slots
    /\ searchFrom \in Nat
    /\ attempt \in 1 .. MaxAttempts
    /\ proc \in [Slots -> ProcType]
    /\ mem \in Nat
    /\ disk \in Nat
    /\ unset \in 0 .. OtherStreams
    /\ base \in Nat
    /\ handled \in SUBSET Nat
    /\ crashes \in Nat

Init ==
    /\ now = 1
    /\ log = <<>>
    /\ live = {}
    /\ loop = "idle"
    /\ cur \in Slots
    /\ searchFrom = 0
    /\ attempt = 1
    /\ proc = [s \in Slots |-> FreeProc]
    /\ mem = 0
    /\ disk = 0
    /\ unset = OtherStreams
    /\ base = 0
    /\ handled = {}
    /\ crashes = 0

-----------------------------------------------------------------------------
(* The service. *)

Tick ==
    /\ now < MaxTime
    /\ now' = now + 1
    /\ UNCHANGED <<log, live, fetch, proc, cursors, base, handled, crashes>>

MayStamp ==
    /\ Len(log) < MaxRecords
    /\ Cardinality({i \in 1 .. Len(log) : log[i].ts = now}) < TieLimit

NewRecord ==
    /\ MayStamp
    /\ \E k \in Kinds : log' = Append(log, [ts |-> now, kind |-> k])
    /\ live' = live \cup {Len(log) + 1}
    /\ UNCHANGED <<now, fetch, proc, cursors, base, handled, crashes>>

(* An incident is modified: it is shown with a new modification_time only. *)
Modify ==
    /\ MayStamp
    /\ \E i \in live :
          /\ log' = Append(log, [log[i] EXCEPT !.ts = now])
          /\ live' = (live \ {i}) \cup {Len(log) + 1}
    /\ UNCHANGED <<now, fetch, proc, cursors, base, handled, crashes>>

Smaller(m, n) == IF m <= n THEN m ELSE n

ResultsAfter(since) == {i \in live : log[i].ts > since}   \* mutant: gt for gte

(* The filter of the request: time_field gte since. *)
Results(since) == {i \in live : log[i].ts >= since}

(* Position of record i in the ascending result set. *)
Rank(i, since) == Cardinality({k \in Results(since) : k < i})

Total(since) == Smaller(Cardinality(Results(since)), Cap)

PageAtOneBased(since, offset) ==                         \* mutant: offsets from 1
    {i \in Results(since) :
        offset < Rank(i, since) /\ Rank(i, since) <= Smaller(offset + PageSize, Cap)}

(* The page search_from = offset, search_to = offset + PAGE_SIZE. *)
PageAt(since, offset) ==
    {i \in Results(since) :
        offset <= Rank(i, since) /\ Rank(i, since) < Smaller(offset + PageSize, Cap)}

-----------------------------------------------------------------------------
(* The stream thread. *)

LookbackStart == IF now > Lookback THEN now - Lookback ELSE 0

SinceEpoch == 0                                         \* mutant: every poll from the start

(* state.get(state_key) or compute_lookback_ts(label) *)
Since == IF mem = 0 THEN LookbackStart ELSE mem

(* poll_stream up to the start of the fetch: the cursor is read, the
   processor started. *)
StartPoll ==
    /\ loop = "idle"
    /\ base' = IF mem = 0 THEN LookbackStart ELSE base
    /\ \E s \in Slots :
          /\ proc[s].status = "free"
          /\ proc' = [proc EXCEPT ![s] = [FreeProc EXCEPT !.status = "waiting",
                                          !.since = Since, !.maxTs = Since]]
          /\ cur' = s
    /\ loop' = "fetching"
    /\ searchFrom' = 0
    /\ attempt' = 1
    /\ UNCHANGED <<service, cursors, handled, crashes>>

(* A request is answered: the page goes to the queue, and after the last
   one fetch_all returns and the sentinel follows it. *)
FetchPage ==
    /\ loop = "fetching"
    /\ LET since == proc[cur].since
           page  == PageAt(since, searchFrom)
           last  == searchFrom + PageSize >= Total(since) \/ page = {}
       IN  /\ proc' = [proc EXCEPT
                          ![cur].pages = IF page = {} THEN @ ELSE Append(@, page),
                          ![cur].closed = last]
           /\ loop' = IF last THEN "joining" ELSE "fetching"
    /\ searchFrom' = searchFrom + PageSize
    /\ attempt' = 1
    /\ UNCHANGED <<service, cur, cursors, base, handled, crashes>>

AttemptFailsOpen ==                      \* mutant: no sentinel after a failed fetch
    /\ loop = "fetching"
    /\ IF attempt < MaxAttempts
       THEN attempt' = attempt + 1 /\ UNCHANGED loop
       ELSE attempt' = 1 /\ loop' = "joining"
    /\ UNCHANGED <<service, cur, searchFrom, proc, cursors, base, handled, crashes>>

AttemptFailsLate ==                      \* mutant: range(1, max_attempts + 2)
    /\ loop = "fetching"
    /\ IF attempt <= MaxAttempts
       THEN attempt' = attempt + 1 /\ UNCHANGED <<loop, proc>>
       ELSE /\ attempt' = 1
            /\ loop' = "joining"
            /\ proc' = [proc EXCEPT ![cur].closed = TRUE]
    /\ UNCHANGED <<service, cur, searchFrom, cursors, base, handled, crashes>>

(* An attempt fails in a way _fetch_page_once catches: retry, or give the
   poll up (fetch_all returns None, the sentinel follows). *)
AttemptFails ==
    /\ loop = "fetching"
    /\ IF attempt < MaxAttempts
       THEN /\ attempt' = attempt + 1
            /\ UNCHANGED <<loop, proc>>
       ELSE /\ attempt' = 1
            /\ loop' = "joining"
            /\ proc' = [proc EXCEPT ![cur].closed = TRUE]
    /\ UNCHANGED <<service, cur, searchFrom, cursors, base, handled, crashes>>

(* A reply of an unexpected shape raises through fetch_all and poll_stream:
   no sentinel, no join, the stream loop logs it and goes on.  The guard is
   the bound on processors. *)
FetchRaises ==
    /\ loop = "fetching"
    /\ \E s \in Slots : proc[s].status = "free"
    /\ loop' = "idle"
    /\ UNCHANGED <<service, cur, searchFrom, attempt, proc, cursors, base, handled, crashes>>

(* processor.join() returns. *)
Joined ==
    /\ loop = "joining"
    /\ proc[cur].status = "stopped"
    /\ loop' = "idle"
    /\ proc' = [proc EXCEPT ![cur] = FreeProc]
    /\ UNCHANGED <<service, cur, searchFrom, attempt, cursors, base, handled, crashes>>

-----------------------------------------------------------------------------
(* The processor thread in slot s. *)

TakeLastPage(s) ==                       \* mutant: a LIFO queue
    /\ proc[s].status = "waiting"
    /\ proc[s].pages # <<>>
    /\ LET n == Len(proc[s].pages)
       IN  proc' = [proc EXCEPT ![s].status = "handling",
                                ![s].hand = proc[s].pages[n],
                                ![s].pages = SubSeq(@, 1, n - 1)]
    /\ UNCHANGED <<service, fetch, cursors, base, handled, crashes>>

TakePage(s) ==
    /\ proc[s].status = "waiting"
    /\ proc[s].pages # <<>>
    /\ proc' = [proc EXCEPT ![s].status = "handling",
                            ![s].hand = Head(proc[s].pages),
                            ![s].pages = Tail(@)]
    /\ UNCHANGED <<service, fetch, cursors, base, handled, crashes>>

TakeSentinel(s) ==
    /\ proc[s].status = "waiting"
    /\ proc[s].pages = <<>>
    /\ proc[s].closed
    /\ proc' = [proc EXCEPT ![s].status = "stopped"]
    /\ UNCHANGED <<service, fetch, cursors, base, handled, crashes>>

NewMaxExclusive(max, i) ==               \* mutant: cursor one past the record
    IF log[i].kind = "good" /\ log[i].ts > max THEN log[i].ts + 1 ELSE max

(* ctx["max_ts"] after record i. *)
NewMax(max, i) == IF log[i].kind = "good" /\ log[i].ts > max THEN log[i].ts ELSE max

HandleRecord(s) ==
    /\ proc[s].status = "handling"
    /\ \E i \in proc[s].hand :
          /\ \A j \in proc[s].hand : i <= j
          /\ IF log[i].kind = "notdict"
             THEN /\ proc' = [proc EXCEPT ![s].status = "stopped"]
                  /\ UNCHANGED handled
             ELSE /\ handled' = handled \cup {i}
                  /\ proc' = [proc EXCEPT ![s].hand = @ \ {i}, ![s].maxTs = NewMax(@, i)]
    /\ UNCHANGED <<service, fetch, cursors, base, crashes>>

(* The end of a page.  The cursor moves only past since; the save may fail
   with an OSError, which save_state swallows, or, while another stream puts
   its key into the dict for the first time, with a RuntimeError, which ends
   the thread (StateFile shows how). *)
EndPage(s) ==
    /\ proc[s].status = "handling"
    /\ proc[s].hand = {}
    /\ IF proc[s].maxTs > proc[s].since
       THEN /\ mem' = proc[s].maxTs
            /\ \/ /\ disk' \in {disk, proc[s].maxTs}
                  /\ proc' = [proc EXCEPT ![s].status = "waiting"]
                  /\ UNCHANGED unset
               \/ /\ unset > 0
                  /\ unset' = unset - 1
                  /\ proc' = [proc EXCEPT ![s].status = "stopped"]
                  /\ UNCHANGED disk
       ELSE /\ proc' = [proc EXCEPT ![s].status = "waiting"]
            /\ UNCHANGED cursors
    /\ UNCHANGED <<service, fetch, base, handled, crashes>>

Processor(s) == TakePage(s) \/ TakeSentinel(s) \/ HandleRecord(s) \/ EndPage(s)

-----------------------------------------------------------------------------
(* The process around the stream. *)

(* Another stream saves the shared dict, with this stream's key in it. *)
OtherStreamSaves ==
    /\ OtherStreams > 0
    /\ disk' = mem
    /\ unset' \in {n \in 0 .. unset : unset - n <= 1}
    /\ UNCHANGED <<service, fetch, proc, mem, base, handled, crashes>>

(* The process ends and a new one loads the state file, or starts without
   one when it cannot be read. *)
Restart ==
    /\ crashes < MaxCrashes
    /\ crashes' = crashes + 1
    /\ mem' \in {disk, 0}
    /\ unset' \in unset .. OtherStreams
    /\ loop' = "idle"
    /\ proc' = [s \in Slots |-> FreeProc]
    /\ UNCHANGED <<service, cur, searchFrom, attempt, disk, base, handled>>

Next ==
    \/ Tick \/ NewRecord
    \/ StartPoll \/ FetchPage \/ AttemptFails \/ FetchRaises \/ Joined
    \/ \E s \in Slots : Processor(s)
    \/ OtherStreamSaves \/ Restart

Spec == Init /\ [][Next]_vars

(* The incidents stream filters by modification_time, so its records move. *)
IncidentNext == Next \/ Modify

IncidentSpec == Init /\ [][IncidentNext]_vars
-----------------------------------------------------------------------------
(* Fairness.  The threads are scheduled, their loops never end by themselves
   and a sleep ends.  Outages of the service pass: a request for the same
   offset that is made again and again is answered in the end. *)
Fairness ==
    /\ WF_vars(StartPoll)
    /\ \A k \in 0 .. (Cap - 1) : SF_vars(FetchPage /\ searchFrom = k)
    /\ WF_vars(Joined)
    /\ \A s \in Slots : WF_vars(Processor(s))

FairSpec == Spec /\ Fairness

-----------------------------------------------------------------------------
(* Safety. *)

(* Every live record of the window stamped before c has been dealt with. *)
Clear(c) == \A i \in live : base <= log[i].ts /\ log[i].ts < c => i \in handled

(* No gap: neither the cursor in memory nor the one a restart would load is
   ahead of a record that the pages, the threads and the failures between
   them left undelivered (poll_stream and _record_processor: a poll never
   asks for that record again). *)
NoGap == Clear(mem) /\ Clear(disk)

(* The cursor is the stamp of a record that was handed over, never a stamp
   the service has not issued yet (poller_base.py, ctx["max_ts"]). *)
CursorAttained ==
    \A c \in {mem, disk} \ {0} : \E i \in handled : log[i].ts = c

(* A record older than the cursor in memory is never handed over again: what
   a poll delivers twice is at most the records it is interrupted in and those
   that share the cursor's stamp.  The filter, the order of the pages and
   their queue, and the cursor that moves between pages, all have to agree. *)
NoRewind ==
    [][\A s \in Slots :
          /\ proc[s].status = "handling" /\ proc'[s].hand # proc[s].hand
          /\ proc'[s].status = "handling"
          => \A i \in proc[s].hand \ proc'[s].hand : log[i].ts >= mem]_vars

(* Within one run of the process the cursor in memory never moves back. *)
CursorMonotone == [][crashes' = crashes => mem' >= mem]_vars

(* The save of a page moves the cursor although pages of the same poll are
   still queued or not yet fetched; it never moves past one of them. *)
QueueAhead ==
    \A s \in Slots : proc[s].status # "free" =>
        \A n \in DOMAIN proc[s].pages : \A i \in proc[s].pages[n] :
            i \in live => log[i].ts >= proc[s].maxTs

-----------------------------------------------------------------------------
(* Liveness. *)

(* The record, or one in front of it, ends every processor that reaches it. *)
Poisoned(i) == \E p \in Results(Since) : p <= i /\ log[p].kind = "notdict"

(* As many results as the service shows, all before i and none of which moves
   the cursor: every poll gets the same ones. *)
Crowded(i) ==
    /\ Rank(i, Since) >= Cap
    /\ \A k \in Results(Since) :
          Rank(k, Since) < Cap => log[k].kind # "good" \/ log[k].ts <= Since

(* Every record is dealt with, also the ones beyond the service's cap, which
   later polls reach (fetch_all, _stream_loop), whatever fails or raises on the
   way.  There are three exceptions and no others: it falls out of a window
   that starts again because there is no cursor yet, or it waits behind a
   record that is no dict, or behind a full result set that moves no cursor. *)
EventuallyHandled ==
    \A i \in 1 .. MaxRecords :
        [](i \in live => <>(\/ i \in handled \/ i \notin live
                             \/ log[i].ts < base \/ Poisoned(i) \/ Crowded(i)))

(* Every poll cycle ends: the join never waits for a sentinel that is not
   there (poll_stream, processor.join()). *)
PollsEnd == loop # "idle" ~> loop = "idle"

-----------------------------------------------------------------------------
(* The abstract specification that the stream implements. *)

Stamps == [i \in 1 .. Len(log) |-> log[i].ts]

Feed == INSTANCE CursorFeed WITH
            Times <- 0 .. MaxTime, stamps <- Stamps, cursor <- mem, saved <- disk,
            dealt <- handled

(* The stream, for every interleaving of its threads and every failure,
   keeps the promise of CursorFeed. *)
ImplementsFeed == Feed!Spec

-----------------------------------------------------------------------------
(* What the documentation says and the code does not do. *)

(* "State is advanced after every page so progress is preserved": once the
   records of a page have been handled, the cursor is in the end at one of
   the service's stamps. *)
StateAdvances == handled # {} ~> mem # 0

(* "Updates to existing incidents are therefore also captured on subsequent
   polls": with modifications, too, no live version is left behind the cursor. *)
UpdatesCaptured == Clear(mem)
=============================================================================
