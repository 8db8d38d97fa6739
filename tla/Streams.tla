------------------------------ MODULE Streams ------------------------------
(***************************************************************************)
(* Start-up and the request path: the configuration as config.py reads it  *)
(* from the environment, main, which checks it, starts one daemon thread   *)
(* per stream and waits for them (cortex.py), the threads' endless loop,   *)
(* and in it the attempts at one page, with the two things the threads do  *)
(* for every request: they build its headers anew, and they take its       *)
(* proxies from a cache of the module that the first of them fills without *)
(* a lock (api_base.py).                                                   *)
(*                                                                         *)
(* What a poll does with its pages is PollStream's; here a poll is the     *)
(* attempts at one page.                                                   *)
(***************************************************************************)
EXTENDS Integers, FiniteSets

CONSTANTS
  NStreams,       \* length of cortex._STREAMS
  Environments,   \* the environments the process may be started in
  Unset, NoNumber,\* what a numeric variable may hold that is no number
  ValidFormats    \* formatters._VALID_FORMATS

ASSUME StreamsAssumption == NStreams \in Nat \ {0}

VARIABLES
  env,       \* the environment of the process, read once at import
  main,      \* the main thread: where it is, or how the process ended
  pc,        \* pc[s]: the next step of the thread of stream s
  attempt,   \* attempt[s]: number of the attempt under way
  headers,   \* headers[s]: the headers at hand: fresh, or sent before
  proxies,   \* proxies[s]: what _build_proxies returned to the thread
  cache,     \* _proxies_cache; the empty set is None
  resolved   \* _proxies_resolved

vars == <<env, main, pc, attempt, headers, proxies, cache, resolved>>

Stream == 1 .. NStreams
Schemes == {"http", "https"}
Steps == {"none", "poll", "headers", "proxies", "store", "resolve", "cached",
          "post", "sleep", "dead"}

(***************************************************************************)
(* The configuration.                                                      *)
(***************************************************************************)

\* _parse_int: the default for a value that is missing or no number. Any
\* number is taken, negative ones too.
ParseInt(raw, default) == IF raw \in {Unset, NoNumber} THEN default ELSE raw

PollInterval == ParseInt(env.interval, 300)

\* max(1, REQUEST_MAX_RETRIES)
MaxAttempts ==
  LET retries == ParseInt(env.retries, 3) IN IF retries > 1 THEN retries ELSE 1

\* The proxies of the configuration, by the scheme they are for; none
\* when USE_PROXY is off, or on without any URL.
Configured == IF env.useProxy THEN env.urls ELSE {}

(***************************************************************************)
(* The main thread. main is "start", then "join"; "refused" is the exit    *)
(* with status 1, "stopped" the exit after a KeyboardInterrupt and         *)
(* "finished" the return from main, both with status 0.                    *)
(***************************************************************************)

Init ==
  /\ env \in Environments
  /\ main = "start"
  /\ pc = [s \in Stream |-> "none"]
  /\ attempt = [s \in Stream |-> 1]
  /\ headers = [s \in Stream |-> "none"]
  /\ proxies = [s \in Stream |-> {}]
  /\ cache = {}
  /\ resolved = FALSE

Request == <<attempt, headers, proxies, cache, resolved>>

Refuse ==
  /\ main = "start"
  /\ env.format \notin ValidFormats
  /\ main' = "refused"
  /\ UNCHANGED <<env, pc, Request>>

\* The threads are started in the order of _STREAMS, while the first ones
\* are running.
StartThread(s) ==
  /\ main = "start"
  /\ env.format \in ValidFormats
  /\ pc[s] = "none"
  /\ \A t \in 1 .. (s - 1) : pc[t] # "none"
  /\ pc' = [pc EXCEPT ![s] = "poll"]
  /\ main' = IF s = NStreams THEN "join" ELSE "start"
  /\ UNCHANGED <<env, Request>>

\* All threads are joined only when all have ended; then main returns.
Finish ==
  /\ main = "join"
  /\ \A s \in Stream : pc[s] = "dead"
  /\ main' = "finished"
  /\ UNCHANGED <<env, pc, Request>>

Interrupt ==
  /\ main = "join"
  /\ main' = "stopped"
  /\ UNCHANGED <<env, pc, Request>>

\* The service manager starts the process again, in the same environment,
\* after an exit with another status than 0.
Supervise ==
  /\ main = "refused"
  /\ main' = "start"
  /\ pc' = [s \in Stream |-> "none"]
  /\ UNCHANGED <<env, Request>>

(***************************************************************************)
(* The thread of a stream. A daemon thread runs until main is left.        *)
(***************************************************************************)

Goto(s, from, to) ==
  /\ main \in {"start", "join"}
  /\ pc[s] = from
  /\ pc' = [pc EXCEPT ![s] = to]
  /\ UNCHANGED <<env, main>>

Poll(s) ==
  /\ Goto(s, "poll", "headers")
  /\ attempt' = [attempt EXCEPT ![s] = 1]
  /\ UNCHANGED <<headers, proxies, cache, resolved>>

BuildHeaders(s) ==
  /\ Goto(s, "headers", "proxies")
  /\ headers' = [headers EXCEPT ![s] = "fresh"]
  /\ UNCHANGED <<attempt, proxies, cache, resolved>>

\* _build_proxies, whose steps those of other threads come between: the
\* check of the flag; without a proxy to use the flag and None at once;
\* else the cache, then the flag, and the cache again for the result.
FindResolved(s) ==
  /\ resolved
  /\ Goto(s, "proxies", "cached")
  /\ UNCHANGED Request

ResolveToNone(s) ==
  /\ ~resolved
  /\ Configured = {}
  /\ Goto(s, "proxies", "post")
  /\ resolved' = TRUE
  /\ proxies' = [proxies EXCEPT ![s] = {}]
  /\ UNCHANGED <<attempt, headers, cache>>

\* mutant: the flag is set before the cache is
FindUnresolvedEager(s) ==
  /\ ~resolved
  /\ Configured # {}
  /\ Goto(s, "proxies", "store")
  /\ resolved' = TRUE
  /\ UNCHANGED <<attempt, headers, proxies, cache>>

FindUnresolved(s) ==
  /\ ~resolved
  /\ Configured # {}
  /\ Goto(s, "proxies", "store")
  /\ UNCHANGED Request

StoreCache(s) ==
  /\ Goto(s, "store", "resolve")
  /\ cache' = Configured
  /\ UNCHANGED <<attempt, headers, proxies, resolved>>

MarkResolved(s) ==
  /\ Goto(s, "resolve", "cached")
  /\ resolved' = TRUE
  /\ UNCHANGED <<attempt, headers, proxies, cache>>

ReturnCache(s) ==
  /\ Goto(s, "cached", "post")
  /\ proxies' = [proxies EXCEPT ![s] = cache]
  /\ UNCHANGED <<attempt, headers, cache, resolved>>

\* The request is sent. A page ends the poll, and so does the failure of
\* the last attempt; one before it is followed by a pause and a new
\* request; an exception no handler of the client names is caught by the
\* loop of the thread.
Sent(s) == headers' = [headers EXCEPT ![s] = "sent"]

PostEndsPoll(s) ==
  /\ Goto(s, "post", "sleep")
  /\ Sent(s)
  /\ UNCHANGED <<attempt, proxies, cache, resolved>>

PostFails(s) ==
  /\ attempt[s] < MaxAttempts
  /\ Goto(s, "post", "headers")
  /\ Sent(s)
  /\ attempt' = [attempt EXCEPT ![s] = @ + 1]
  /\ UNCHANGED <<proxies, cache, resolved>>

\* mutant: the exception leaves the loop
PostRaisesOut(s) ==
  /\ Goto(s, "post", "dead")
  /\ Sent(s)
  /\ UNCHANGED <<attempt, proxies, cache, resolved>>

PostRaises(s) ==
  /\ Goto(s, "post", "sleep")
  /\ Sent(s)
  /\ UNCHANGED <<attempt, proxies, cache, resolved>>

\* time.sleep, after the try statement: it refuses a negative interval
\* with a ValueError that nothing catches.
Sleep(s) ==
  /\ Goto(s, "sleep", IF PollInterval >= 0 THEN "poll" ELSE "dead")
  /\ UNCHANGED Request

Thread(s) ==
  \/ Poll(s) \/ BuildHeaders(s)
  \/ FindResolved(s) \/ ResolveToNone(s) \/ FindUnresolved(s)
  \/ StoreCache(s) \/ MarkResolved(s) \/ ReturnCache(s)
  \/ PostEndsPoll(s) \/ PostFails(s) \/ PostRaises(s)
  \/ Sleep(s)

Main == Refuse \/ Finish \/ \E s \in Stream : StartThread(s)

Next ==
  \/ Main \/ Interrupt \/ Supervise
  \/ \E s \in Stream : Thread(s)

Spec == Init /\ [][Next]_vars

\* Threads are scheduled, and every request ends within its time-out.
Fairness ==
  /\ WF_vars(Main)
  /\ \A s \in Stream : WF_vars(Thread(s))

FairSpec == Spec /\ Fairness

(***************************************************************************)
(* Properties.                                                             *)
(***************************************************************************)

\* A request is sent with headers that no request had before it and through
\* the proxies of the configuration, whichever thread filled the cache and
\* however far it is (api_base.py:38-39 and 64-98: a thread that finds the
\* flag set must find the cache filled, or it would go round the proxy).
ReadyToPost ==
  \A s \in Stream : pc[s] = "post" =>
    headers[s] = "fresh" /\ proxies[s] = Configured

\* Every stream polls for ever, whatever its requests come to and whatever
\* the others do, unless the process is interrupted (cortex.py:10-11 and
\* 45-47). The interval must be one that time.sleep takes.
KeepsPolling ==
  env.format \in ValidFormats /\ PollInterval >= 0 =>
    \A s \in Stream : []<>(pc[s] = "sleep") \/ <>(main = "stopped")

=============================================================================
