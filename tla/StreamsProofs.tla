--------------------------- MODULE StreamsProofs ---------------------------
(***************************************************************************)
(* That no request goes round the proxy or repeats the headers of another, *)
(* for any number of streams and any environments.                         *)
(***************************************************************************)
EXTENDS Streams, TLAPS

(***************************************************************************)
(* The inductive invariant: a set flag means a filled cache, and so does   *)
(* having passed the step that fills it; the headers at hand are fresh     *)
(* from the step that builds them to the one that sends them.              *)
(***************************************************************************)
Typed ==
  /\ pc \in [Stream -> Steps]
  /\ headers \in [Stream -> {"none", "fresh", "sent"}]
  /\ DOMAIN proxies = Stream

CacheFilled == resolved => cache = Configured

CacheKept == cache # {} => cache = Configured

Passed(s) ==
  /\ pc[s] \in {"resolve", "cached"} => cache = Configured
  /\ pc[s] \in {"proxies", "store", "resolve", "cached"} => headers[s] = "fresh"

Inv == Typed /\ CacheFilled /\ CacheKept /\ (\A s \in Stream : Passed(s)) /\ ReadyToPost

\* At the start nothing is resolved, cached or sent.
LEMMA InitInv == Init => Inv
  BY DEF Init, Inv, Typed, Steps, CacheFilled, CacheKept, Passed, ReadyToPost

\* The configuration does not change while the process runs.
LEMMA ConfiguredFixed ==
  ASSUME env' = env
  PROVE  Configured' = Configured
  BY DEF Configured

\* The main thread only starts threads, which have then built nothing.
LEMMA MainKeepsInv ==
  ASSUME Inv, Main \/ Interrupt \/ Supervise
  PROVE  Inv'
<1>1. env' = env /\ UNCHANGED Request
  BY DEF Main, Refuse, Finish, StartThread, Interrupt, Supervise
<1>2. Configured' = Configured
  BY <1>1, ConfiguredFixed
<1>3. /\ pc' \in [Stream -> Steps]
      /\ \A s \in Stream : pc'[s] = pc[s] \/ pc'[s] \in {"none", "poll"}
  BY DEF Main, Refuse, Finish, StartThread, Interrupt, Supervise, Inv, Typed, Steps
<1> QED
  BY <1>1, <1>2, <1>3 DEF Request, Inv, Typed, CacheFilled, CacheKept, Passed, ReadyToPost

\* What a step of thread s leaves alone.
LEMMA OtherThreads ==
  ASSUME Inv, NEW s \in Stream, NEW from, NEW to \in Steps, Goto(s, from, to)
  PROVE  /\ Configured' = Configured
         /\ pc' \in [Stream -> Steps]
         /\ pc[s] = from /\ pc'[s] = to
         /\ \A t \in Stream : t # s => pc'[t] = pc[t]
  BY ConfiguredFixed DEF Goto, Inv, Typed

\* A thread may find the flag set only where the cache is filled, and fills
\* it with the configured proxies only.
LEMMA ThreadKeepsInv ==
  ASSUME Inv, NEW s \in Stream, Thread(s)
  PROVE  Inv'
<1> USE DEF Inv, Typed, CacheFilled, CacheKept, Passed, ReadyToPost
<1>1. CASE Poll(s)
  BY <1>1, OtherThreads DEF Poll, Steps
<1>2. CASE BuildHeaders(s)
  BY <1>2, OtherThreads DEF BuildHeaders, Steps
<1>3. CASE FindResolved(s)
  BY <1>3, OtherThreads DEF FindResolved, Request, Steps
<1>4. CASE ResolveToNone(s)
  <2>1. cache = {} /\ cache' = {} /\ Configured = {}
    BY <1>4 DEF ResolveToNone
  <2>2. Goto(s, "proxies", "post") /\ headers' = headers
    BY <1>4 DEF ResolveToNone
  <2>3. proxies'[s] = {} /\ DOMAIN proxies' = Stream
    BY <1>4 DEF ResolveToNone
  <2>4. \A t \in Stream : t # s => proxies'[t] = proxies[t]
    BY <1>4 DEF ResolveToNone
  <2> QED
    BY <2>1, <2>2, <2>3, <2>4, OtherThreads DEF Steps
<1>5. CASE FindUnresolved(s)
  BY <1>5, OtherThreads DEF FindUnresolved, Request, Steps
<1>6. CASE StoreCache(s)
  BY <1>6, OtherThreads DEF StoreCache, Steps
<1>7. CASE MarkResolved(s)
  BY <1>7, OtherThreads DEF MarkResolved, Steps
<1>8. CASE ReturnCache(s)
  BY <1>8, OtherThreads DEF ReturnCache, Steps
<1>9. CASE PostEndsPoll(s)
  BY <1>9, OtherThreads DEF PostEndsPoll, Sent, Steps
<1>10. CASE PostFails(s)
  BY <1>10, OtherThreads DEF PostFails, Sent, Steps
<1>11. CASE PostRaises(s)
  BY <1>11, OtherThreads DEF PostRaises, Sent, Steps
<1>12. CASE Sleep(s)
  BY <1>12, OtherThreads DEF Sleep, Request, Steps
<1> QED
  BY <1>1, <1>2, <1>3, <1>4, <1>5, <1>6, <1>7, <1>8, <1>9, <1>10, <1>11, <1>12 DEF Thread

\* Every request of every stream is sent with fresh headers and through the
\* configured proxies: a thread that finds _proxies_resolved set also finds
\* the cache filled, although no lock is taken (_build_proxies).
THEOREM ReadyToPostTheorem == Spec => []ReadyToPost
<1>1. Inv /\ [Next]_vars => Inv'
  <2> SUFFICES ASSUME Inv, [Next]_vars PROVE Inv'
    OBVIOUS
  <2>1. CASE Main \/ Interrupt \/ Supervise
    BY <2>1, MainKeepsInv
  <2>2. ASSUME NEW s \in Stream, Thread(s) PROVE Inv'
    BY <2>2, ThreadKeepsInv
  <2>3. CASE UNCHANGED vars
    BY <2>3 DEF vars, Inv, Typed, CacheFilled, CacheKept, Passed, ReadyToPost, Configured
  <2> QED
    BY <2>1, <2>2, <2>3 DEF Next
<1>2. Inv => ReadyToPost
  BY DEF Inv
<1> QED
  BY InitInv, <1>1, <1>2, PTL DEF Spec
=============================================================================
