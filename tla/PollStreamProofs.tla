-------------------------- MODULE PollStreamProofs --------------------------
(***************************************************************************)
(* Proofs about PollStream, for every page size, cap, window, number of    *)
(* processors, records and restarts.                                       *)
(***************************************************************************)
EXTENDS PollStreamInv, FiniteSetTheorems, SequenceTheorems, TLAPS

-----------------------------------------------------------------------------
(* Typing. *)

USE ConstantsAssumption

LEMMA FreeProcType == FreeProc \in ProcType
BY DEF FreeProc, ProcType

LEMMA TypeInit == Init => TypeOK
BY FreeProcType DEF Init, TypeOK

LEMMA PageType ==
    ASSUME TypeOK, NEW since, NEW offset
    PROVE  PageAt(since, offset) \in SUBSET Nat
BY DEF TypeOK, PageAt, Results

LEMMA LogType ==
    ASSUME TypeOK
    PROVE  /\ Len(log) \in Nat
           /\ \A i \in Records : i \in Nat /\ log[i].ts \in Nat
<1>1. log \in Seq([ts : Nat, kind : Kinds])
    BY DEF TypeOK
<1>2. \A i \in Records : log[i] \in [ts : Nat, kind : Kinds]
    BY <1>1, ElementOfSeq DEF Records
<1>3. Len(log) \in Nat
    BY <1>1, LenProperties
<1> QED
    BY <1>2, <1>3 DEF Records

LEMMA FetchScalars ==
    ASSUME FetchPage
    PROVE  /\ searchFrom' = searchFrom + PageSize
           /\ attempt' = 1
           /\ loop' \in {"fetching", "joining"}
           /\ UNCHANGED <<service, cur, cursors, base, handled, crashes>>
BY DEF FetchPage

LEMMA AttemptScalars ==
    ASSUME AttemptFails
    PROVE  /\ attempt' = 1 \/ (attempt < MaxAttempts /\ attempt' = attempt + 1)
           /\ loop = "fetching"
           /\ loop' \in {"fetching", "joining"}
           /\ UNCHANGED <<service, cur, searchFrom, cursors, base, handled, crashes>>
BY DEF AttemptFails

LEMMA EndCursors ==
    ASSUME NEW s \in Slots, EndPage(s)
    PROVE  /\ mem' \in {mem, proc[s].maxTs}
           /\ disk' \in {disk, proc[s].maxTs}
           /\ unset' = unset \/ (unset > 0 /\ unset' = unset - 1)
BY DEF EndPage, cursors

LEMMA TypeStep == TypeOK /\ IndexInv /\ [Next]_vars => TypeOK'
<1> SUFFICES ASSUME TypeOK, IndexInv, [Next]_vars
             PROVE  TypeOK'
    OBVIOUS
<1> USE DEF TypeOK
<1>1. CASE Tick
    BY <1>1 DEF Tick, fetch, cursors
<1>2. CASE NewRecord
  <2>1. log' \in Seq([ts : Nat, kind : Kinds])
    <3>1. PICK k \in Kinds : log' = Append(log, [ts |-> now, kind |-> k])
        BY <1>2 DEF NewRecord
    <3>2. [ts |-> now, kind |-> k] \in [ts : Nat, kind : Kinds]
        OBVIOUS
    <3> QED
        BY <3>1, <3>2
  <2>2. live' \in SUBSET Nat
    <3>1. Len(log) + 1 \in Nat
        BY LenProperties
    <3> QED
        BY <1>2, <3>1 DEF NewRecord
  <2> QED
    BY <1>2, <2>1, <2>2 DEF NewRecord, fetch, cursors
<1>3. CASE StartPoll
  <2>1. LookbackStart \in Nat /\ Since \in Nat
    BY DEF LookbackStart, Since
  <2>2. [FreeProc EXCEPT !.status = "waiting", !.since = Since, !.maxTs = Since] \in ProcType
    BY <2>1, FreeProcType DEF ProcType, FreeProc
  <2>3. proc' \in [Slots -> ProcType]
    BY <1>3, <2>2 DEF StartPoll
  <2>4. loop' = "fetching" /\ searchFrom' = 0 /\ attempt' = 1 /\ cur' \in Slots
    BY <1>3 DEF StartPoll
  <2>5. base' \in Nat
    BY <1>3, <2>1 DEF StartPoll
  <2>6. /\ now' = now /\ log' = log /\ live' = live /\ mem' = mem /\ disk' = disk
        /\ unset' = unset /\ handled' = handled /\ crashes' = crashes
    BY <1>3 DEF StartPoll, service, cursors
  <2>7. 1 \in 1 .. MaxAttempts
    OBVIOUS
  <2> QED
    BY <2>3, <2>4, <2>5, <2>6, <2>7
<1>4. CASE FetchPage
  <2> DEFINE page == PageAt(proc[cur].since, searchFrom)
             last == searchFrom + PageSize >= Total(proc[cur].since) \/ page = {}
             pages == IF page = {} THEN proc[cur].pages ELSE Append(proc[cur].pages, page)
  <2>1. page \in SUBSET Nat
    BY PageType
  <2>2. proc' = [proc EXCEPT ![cur] = [proc[cur] EXCEPT !.pages = pages, !.closed = last]]
    BY <1>4 DEF FetchPage
  <2>3. proc[cur] \in ProcType /\ last \in BOOLEAN
    OBVIOUS
  <2>4. pages \in Seq(SUBSET Nat)
    <3>1. proc[cur].pages \in Seq(SUBSET Nat)
        BY <2>3 DEF ProcType
    <3> HIDE DEF page
    <3>2. Append(proc[cur].pages, page) \in Seq(SUBSET Nat)
        BY <2>1, <3>1, AppendProperties
    <3> QED
        BY <3>1, <3>2
  <2> HIDE DEF page, last, pages
  <2>5. [proc[cur] EXCEPT !.pages = pages, !.closed = last] \in ProcType
    BY <2>3, <2>4 DEF ProcType
  <2>6. proc' \in [Slots -> ProcType]
    BY <2>2, <2>5
  <2>7. /\ now' = now /\ log' = log /\ live' = live /\ cur' = cur /\ mem' = mem
        /\ disk' = disk /\ unset' = unset /\ base' = base /\ handled' = handled
        /\ crashes' = crashes
    BY <1>4, FetchScalars DEF service, cursors
  <2>8. searchFrom' \in Nat /\ attempt' \in 1 .. MaxAttempts
    BY <1>4, FetchScalars
  <2>9. loop' \in {"idle", "fetching", "joining"}
    BY <1>4, FetchScalars
  <2> QED
    BY <2>6, <2>7, <2>8, <2>9
<1>5. CASE AttemptFails
  <2>1. [proc[cur] EXCEPT !.closed = TRUE] \in ProcType
    BY DEF ProcType
  <2>2. proc' \in [Slots -> ProcType]
    BY <1>5, <2>1 DEF AttemptFails
  <2>3. attempt' \in 1 .. MaxAttempts /\ loop' \in {"idle", "fetching", "joining"}
    BY <1>5, AttemptScalars
  <2> QED
    BY <1>5, <2>2, <2>3, AttemptScalars DEF service, cursors
<1>6. CASE FetchRaises
    BY <1>6 DEF FetchRaises, service, cursors
<1>7. CASE Joined
    BY <1>7, FreeProcType DEF Joined, service, cursors
<1>8. ASSUME NEW s \in Slots, TakePage(s)
      PROVE  TypeOK'
  <2>1. /\ proc[s] \in ProcType
        /\ Head(proc[s].pages) \in SUBSET Nat
        /\ Tail(proc[s].pages) \in Seq(SUBSET Nat)
    BY <1>8, HeadTailProperties DEF TakePage, ProcType
  <2>2. [proc[s] EXCEPT !.status = "handling", !.hand = Head(proc[s].pages),
                        !.pages = Tail(proc[s].pages)] \in ProcType
    BY <2>1 DEF ProcType
  <2>3. proc' \in [Slots -> ProcType]
    BY <1>8, <2>2 DEF TakePage
  <2> QED
    BY <1>8, <2>3 DEF TakePage, service, fetch, cursors
<1>9. ASSUME NEW s \in Slots, TakeSentinel(s)
      PROVE  TypeOK'
  <2>1. [proc[s] EXCEPT !.status = "stopped"] \in ProcType
    BY DEF ProcType
  <2> QED
    BY <1>9, <2>1 DEF TakeSentinel, service, fetch, cursors
<1>10. ASSUME NEW s \in Slots, HandleRecord(s)
       PROVE  TypeOK'
  <2>1. PICK i \in proc[s].hand :
          IF log[i].kind = "notdict"
          THEN /\ proc' = [proc EXCEPT ![s].status = "stopped"]
               /\ UNCHANGED handled
          ELSE /\ handled' = handled \cup {i}
               /\ proc' = [proc EXCEPT ![s].hand = @ \ {i}, ![s].maxTs = NewMax(@, i)]
    BY <1>10 DEF HandleRecord
  <2>2. [proc[s] EXCEPT !.status = "stopped"] \in ProcType
    BY DEF ProcType
  <2>3. i \in Records /\ i \in Nat /\ log[i].ts \in Nat
    <3>1. i \in Records
        BY DEF IndexInv
    <3> QED
        BY <3>1, LogType
  <2>4. proc' \in [Slots -> ProcType]
    <3>1. CASE log[i].kind = "notdict"
        BY <2>1, <2>2, <3>1
    <3>2. CASE log[i].kind # "notdict"
      <4>1. [proc[s] EXCEPT !.hand = proc[s].hand \ {i},
                            !.maxTs = NewMax(proc[s].maxTs, i)] \in ProcType
          BY <2>3 DEF ProcType, NewMax
      <4> QED
        BY <2>1, <3>2, <4>1
    <3> QED
        BY <3>1, <3>2
  <2> QED
    BY <1>10, <2>1, <2>3, <2>4 DEF HandleRecord, service, fetch, cursors
<1>11. ASSUME NEW s \in Slots, EndPage(s)
       PROVE  TypeOK'
  <2>1. /\ [proc[s] EXCEPT !.status = "waiting"] \in ProcType
        /\ [proc[s] EXCEPT !.status = "stopped"] \in ProcType
        /\ proc[s].maxTs \in Nat
    BY DEF ProcType
  <2>2. proc' \in [Slots -> ProcType]
    BY <1>11, <2>1 DEF EndPage
  <2>3. mem' \in Nat /\ disk' \in Nat
    BY <1>11, <2>1, EndCursors
  <2>4. unset' \in 0 .. OtherStreams
    <3>1. unset' = unset \/ (unset > 0 /\ unset' = unset - 1)
        BY <1>11, EndCursors
    <3> QED
        BY <3>1
  <2> QED
    BY <1>11, <2>2, <2>3, <2>4 DEF EndPage, service, fetch
<1>12. CASE OtherStreamSaves
    BY <1>12 DEF OtherStreamSaves, service, fetch
<1>13. CASE Restart
    BY <1>13, FreeProcType DEF Restart, service
<1>14. CASE UNCHANGED vars
    BY <1>14 DEF vars, service, fetch, cursors
<1> QED
    BY <1>1, <1>2, <1>3, <1>4, <1>5, <1>6, <1>7, <1>8, <1>9, <1>10, <1>11,
       <1>12, <1>13, <1>14 DEF Next, Processor

-----------------------------------------------------------------------------
(* What the actions do to the processor they touch, field by field. *)

LEMMA QueueType ==
    ASSUME TypeOK, NEW s \in Slots
    PROVE  /\ proc[s].pages \in Seq(SUBSET Nat)
           /\ Len(proc[s].pages) \in Nat
           /\ proc[s].hand \in SUBSET Nat
           /\ proc[s].since \in Nat
           /\ proc[s].maxTs \in Nat
<1>1. proc[s] \in ProcType
    BY DEF TypeOK
<1>2. proc[s].pages \in Seq(SUBSET Nat)
    BY <1>1 DEF ProcType
<1> QED
    BY <1>1, <1>2, LenProperties DEF ProcType

LEMMA StartEffect ==
    ASSUME TypeOK, StartPoll
    PROVE  /\ cur' \in Slots
           /\ \A t \in Slots \ {cur'} : proc'[t] = proc[t]
           /\ proc'[cur'] = [FreeProc EXCEPT !.status = "waiting",
                                !.since = Since, !.maxTs = Since]
BY DEF StartPoll, TypeOK

LEMMA FetchEffect ==
    ASSUME TypeOK, FetchPage, NEW page, page = PageAt(proc[cur].since, searchFrom)
    PROVE  /\ cur' = cur
           /\ \A t \in Slots \ {cur} : proc'[t] = proc[t]
           /\ proc'[cur].status = proc[cur].status
           /\ proc'[cur].hand = proc[cur].hand
           /\ proc'[cur].since = proc[cur].since
           /\ proc'[cur].maxTs = proc[cur].maxTs
           /\ \A m \in 1 .. Len(proc[cur].pages) : proc'[cur].pages[m] = proc[cur].pages[m]
           /\ \/ page = {} /\ Len(proc'[cur].pages) = Len(proc[cur].pages)
              \/ /\ Len(proc'[cur].pages) = Len(proc[cur].pages) + 1
                 /\ proc'[cur].pages[Len(proc[cur].pages) + 1] = page
<1> DEFINE pages == IF page = {} THEN proc[cur].pages ELSE Append(proc[cur].pages, page)
           last == searchFrom + PageSize >= Total(proc[cur].since) \/ page = {}
<1>1. /\ proc' = [proc EXCEPT ![cur] = [proc[cur] EXCEPT !.pages = pages, !.closed = last]]
      /\ cur' = cur
    BY DEF FetchPage
<1>2. proc[cur] \in ProcType /\ proc \in [Slots -> ProcType] /\ cur \in Slots
    BY DEF TypeOK
<1>3. proc[cur].pages \in Seq(SUBSET Nat) /\ page \in SUBSET Nat
    BY <1>2, QueueType, PageType
<1>4. /\ \A m \in 1 .. Len(proc[cur].pages) : pages[m] = proc[cur].pages[m]
      /\ \/ page = {} /\ Len(pages) = Len(proc[cur].pages)
         \/ /\ Len(pages) = Len(proc[cur].pages) + 1
            /\ pages[Len(proc[cur].pages) + 1] = page
    BY <1>3, AppendProperties
<1> HIDE DEF pages, last
<1>5. /\ proc'[cur] = [proc[cur] EXCEPT !.pages = pages, !.closed = last]
      /\ \A t \in Slots \ {cur} : proc'[t] = proc[t]
    BY <1>1, <1>2
<1>6. /\ proc'[cur].status = proc[cur].status
      /\ proc'[cur].hand = proc[cur].hand
      /\ proc'[cur].since = proc[cur].since
      /\ proc'[cur].maxTs = proc[cur].maxTs
      /\ proc'[cur].pages = pages
    BY <1>2, <1>5 DEF ProcType
<1> QED
    BY <1>1, <1>4, <1>5, <1>6

(* AttemptFails and TakeSentinel leave what the processors hold alone. *)
SameHoldings(s) ==
    /\ proc'[s].hand = proc[s].hand
    /\ proc'[s].pages = proc[s].pages
    /\ proc'[s].since = proc[s].since
    /\ proc'[s].maxTs = proc[s].maxTs

LEMMA AttemptEffect ==
    ASSUME TypeOK, AttemptFails
    PROVE  \A t \in Slots : SameHoldings(t) /\ proc'[t].status = proc[t].status
<1>1. proc[cur] \in ProcType /\ proc \in [Slots -> ProcType]
    BY DEF TypeOK
<1>2. CASE attempt < MaxAttempts
    BY <1>2 DEF AttemptFails, SameHoldings
<1>3. CASE ~(attempt < MaxAttempts)
  <2>1. proc' = [proc EXCEPT ![cur] = [proc[cur] EXCEPT !.closed = TRUE]]
    BY <1>3 DEF AttemptFails
  <2> QED
    BY <1>1, <2>1 DEF SameHoldings, ProcType
<1> QED
    BY <1>2, <1>3

LEMMA SentinelEffect ==
    ASSUME TypeOK, NEW s \in Slots, TakeSentinel(s)
    PROVE  /\ \A t \in Slots \ {s} : proc'[t] = proc[t]
           /\ \A t \in Slots : SameHoldings(t)
           /\ proc[s].status = "waiting" /\ proc'[s].status = "stopped"
BY DEF TakeSentinel, SameHoldings, TypeOK, ProcType

LEMMA TakePageEffect ==
    ASSUME TypeOK, NEW s \in Slots, TakePage(s)
    PROVE  /\ \A t \in Slots \ {s} : proc'[t] = proc[t]
           /\ proc[s].status = "waiting" /\ proc'[s].status = "handling"
           /\ proc'[s].since = proc[s].since
           /\ proc'[s].maxTs = proc[s].maxTs
           /\ Len(proc[s].pages) > 0
           /\ proc'[s].hand = proc[s].pages[1]
           /\ Len(proc'[s].pages) = Len(proc[s].pages) - 1
           /\ \A m \in 1 .. Len(proc'[s].pages) : proc'[s].pages[m] = proc[s].pages[m + 1]
<1>1. proc[s] \in ProcType /\ proc \in [Slots -> ProcType]
    BY DEF TypeOK
<1>2. /\ proc' = [proc EXCEPT ![s] = [proc[s] EXCEPT !.status = "handling",
                     !.hand = Head(proc[s].pages), !.pages = Tail(proc[s].pages)]]
      /\ proc[s].pages # <<>>
      /\ proc[s].status = "waiting"
    BY DEF TakePage
<1>3. /\ proc'[s].status = "handling"
      /\ proc'[s].since = proc[s].since
      /\ proc'[s].maxTs = proc[s].maxTs
      /\ proc'[s].hand = Head(proc[s].pages)
      /\ proc'[s].pages = Tail(proc[s].pages)
    BY <1>1, <1>2 DEF ProcType
<1>4. proc[s].pages \in Seq(SUBSET Nat) /\ Len(proc[s].pages) \in Nat \ {0}
    BY <1>2, QueueType, EmptySeq
<1>5. Head(proc[s].pages) = proc[s].pages[1]
    BY <1>4
<1> QED
    BY <1>1, <1>2, <1>3, <1>4, <1>5, HeadTailProperties

LEMMA HandleEffect ==
    ASSUME TypeOK, NEW s \in Slots, HandleRecord(s)
    PROVE  /\ \A t \in Slots \ {s} : proc'[t] = proc[t]
           /\ proc[s].status = "handling"
           /\ proc'[s].pages = proc[s].pages
           /\ proc'[s].since = proc[s].since
           /\ \/ SameHoldings(s) /\ proc'[s].status = "stopped" /\ handled' = handled
              \/ \E i \in proc[s].hand :
                    /\ \A j \in proc[s].hand : i <= j
                    /\ handled' = handled \cup {i}
                    /\ proc'[s].status = "handling"
                    /\ proc'[s].hand = proc[s].hand \ {i}
                    /\ \/ proc'[s].maxTs = proc[s].maxTs
                       \/ proc'[s].maxTs = log[i].ts /\ log[i].ts > proc[s].maxTs
<1>1. proc[s] \in ProcType /\ proc \in [Slots -> ProcType]
    BY DEF TypeOK
<1>2. PICK i \in proc[s].hand :
        /\ \A j \in proc[s].hand : i <= j
        /\ IF log[i].kind = "notdict"
           THEN /\ proc' = [proc EXCEPT ![s].status = "stopped"]
                /\ UNCHANGED handled
           ELSE /\ handled' = handled \cup {i}
                /\ proc' = [proc EXCEPT ![s].hand = @ \ {i}, ![s].maxTs = NewMax(@, i)]
    BY DEF HandleRecord
<1>3. proc[s].status = "handling"
    BY DEF HandleRecord
<1>4. CASE log[i].kind = "notdict"
    BY <1>1, <1>2, <1>3, <1>4 DEF SameHoldings, ProcType
<1>5. CASE log[i].kind # "notdict"
  <2> DEFINE max == NewMax(proc[s].maxTs, i)
             hand == proc[s].hand \ {i}
  <2>1. /\ proc' = [proc EXCEPT ![s] = [proc[s] EXCEPT !.hand = hand, !.maxTs = max]]
        /\ handled' = handled \cup {i}
    BY <1>2, <1>5
  <2>2. \/ max = proc[s].maxTs
        \/ max = log[i].ts /\ log[i].ts > proc[s].maxTs
    <3>1. CASE log[i].kind = "good" /\ log[i].ts > proc[s].maxTs
        BY <3>1 DEF NewMax
    <3>2. CASE ~(log[i].kind = "good" /\ log[i].ts > proc[s].maxTs)
        BY <3>2 DEF NewMax
    <3> QED
        BY <3>1, <3>2
  <2> HIDE DEF max, hand
  <2>3. /\ \A t \in Slots \ {s} : proc'[t] = proc[t]
        /\ proc'[s].pages = proc[s].pages
        /\ proc'[s].since = proc[s].since
        /\ proc'[s].status = proc[s].status
        /\ proc'[s].hand = hand
        /\ proc'[s].maxTs = max
    BY <1>1, <2>1 DEF ProcType
  <2> QED
    BY <1>2, <1>3, <2>1, <2>2, <2>3 DEF hand
<1> QED
    BY <1>4, <1>5

LEMMA EndEffect ==
    ASSUME TypeOK, NEW s \in Slots, EndPage(s)
    PROVE  /\ \A t \in Slots \ {s} : proc'[t] = proc[t]
           /\ proc[s].status = "handling" /\ proc[s].hand = {}
           /\ proc'[s].status \in {"waiting", "stopped"}
           /\ SameHoldings(s)
           /\ \/ mem' = mem /\ disk' = disk
              \/ mem' = proc[s].maxTs /\ disk' \in {disk, proc[s].maxTs}
<1>1. \E st \in {"waiting", "stopped"} : proc' = [proc EXCEPT ![s].status = st]
    BY DEF EndPage
<1>2. proc[s] \in ProcType /\ proc \in [Slots -> ProcType]
    BY DEF TypeOK
<1>3. /\ \A t \in Slots \ {s} : proc'[t] = proc[t]
      /\ proc'[s].status \in {"waiting", "stopped"}
      /\ SameHoldings(s)
    BY <1>1, <1>2 DEF SameHoldings, ProcType
<1>4. \/ mem' = mem /\ disk' = disk
      \/ mem' = proc[s].maxTs /\ disk' \in {disk, proc[s].maxTs}
    BY DEF EndPage, cursors
<1> QED
    BY <1>3, <1>4 DEF EndPage

-----------------------------------------------------------------------------
LEMMA IndexInit == Init => IndexInv
BY DEF Init, IndexInv, Records, FreeProc

LEMMA NewRecordEffect ==
    ASSUME TypeOK, NewRecord
    PROVE  /\ Len(log') = Len(log) + 1
           /\ \A i \in Records : log'[i] = log[i]
           /\ log'[Len(log) + 1].ts = now
           /\ live' = live \cup {Len(log) + 1}
           /\ Records' = Records \cup {Len(log) + 1}
           /\ \A i \in Records : i < Len(log) + 1
<1>1. PICK k \in Kinds : log' = Append(log, [ts |-> now, kind |-> k])
    BY DEF NewRecord
<1>2. log \in Seq([ts : Nat, kind : Kinds]) /\ [ts |-> now, kind |-> k] \in [ts : Nat, kind : Kinds]
    BY DEF TypeOK
<1>3. /\ Len(log) \in Nat
      /\ Len(log') = Len(log) + 1
      /\ \A i \in 1 .. Len(log) : log'[i] = log[i]
      /\ log'[Len(log) + 1] = [ts |-> now, kind |-> k]
    BY <1>1, <1>2, LenProperties, AppendProperties
<1> QED
    BY <1>3 DEF NewRecord, Records

LEMMA IndexStep == TypeOK /\ IndexInv /\ [Next]_vars => IndexInv'
<1> SUFFICES ASSUME TypeOK, IndexInv, [Next]_vars
             PROVE  IndexInv'
    OBVIOUS
<1> DEFINE Good(t) == /\ proc'[t].hand \subseteq Records
                      /\ \A n \in 1 .. Len(proc'[t].pages) : proc'[t].pages[n] \subseteq Records
<1>a. \A t \in Slots : proc'[t] = proc[t] \/ SameHoldings(t) => Good(t)
    BY DEF IndexInv, SameHoldings
<1>b. \A t \in Slots : proc'[t] = FreeProc => Good(t)
    BY DEF FreeProc
<1>1. CASE log' = log /\ live' = live
  <2>1. SUFFICES \A t \in Slots : Good(t)
    BY <1>1 DEF IndexInv, Records
  <2> HIDE DEF Good
  <2>2. CASE StartPoll
    <3>1. Good(cur')
      <4>1. proc'[cur'].hand = {} /\ proc'[cur'].pages = <<>>
          BY <2>2, StartEffect DEF FreeProc
      <4> QED
          BY <4>1 DEF Good
    <3> QED
        BY <2>2, <3>1, <1>a, StartEffect
  <2>3. CASE FetchPage
    <3> DEFINE page == PageAt(proc[cur].since, searchFrom)
    <3>1. page \subseteq Records
        BY DEF PageAt, Results, IndexInv
    <3>2. cur \in Slots
        BY DEF TypeOK
    <3> HIDE DEF page
    <3>3. Good(cur)
      <4>1. /\ proc'[cur].hand = proc[cur].hand
            /\ \A m \in 1 .. Len(proc[cur].pages) : proc'[cur].pages[m] = proc[cur].pages[m]
            /\ \/ page = {} /\ Len(proc'[cur].pages) = Len(proc[cur].pages)
               \/ /\ Len(proc'[cur].pages) = Len(proc[cur].pages) + 1
                  /\ proc'[cur].pages[Len(proc[cur].pages) + 1] = page
          BY <2>3, FetchEffect DEF page
      <4>2. Len(proc[cur].pages) \in Nat
          BY <3>2, QueueType
      <4>3. ASSUME NEW n \in 1 .. Len(proc'[cur].pages)
            PROVE  proc'[cur].pages[n] \subseteq Records
        <5>1. CASE n \in 1 .. Len(proc[cur].pages)
            BY <3>2, <4>1, <5>1 DEF IndexInv
        <5>2. CASE n \notin 1 .. Len(proc[cur].pages)
          <6>1. n = Len(proc[cur].pages) + 1 /\ proc'[cur].pages[n] = page
              BY <4>1, <4>2, <5>2
          <6> QED
              BY <3>1, <6>1
        <5> QED
            BY <5>1, <5>2
      <4> QED
          BY <3>2, <4>1, <4>3 DEF IndexInv, Good
    <3> QED
        BY <2>3, <3>3, <1>a, FetchEffect
  <2>4. CASE AttemptFails
    BY <2>4, <1>a, AttemptEffect
  <2>5. CASE Joined
    BY <2>5, <1>a, <1>b DEF Joined, TypeOK
  <2>6. ASSUME NEW s \in Slots, TakePage(s)
        PROVE  \A t \in Slots : Good(t)
    <3>1. Good(s)
      <4>1. Len(proc[s].pages) \in Nat
          BY QueueType
      <4>2. \A n \in 1 .. Len(proc'[s].pages) : n + 1 \in 1 .. Len(proc[s].pages)
          BY <2>6, <4>1, TakePageEffect
      <4>3. 1 \in 1 .. Len(proc[s].pages)
          BY <2>6, <4>1, TakePageEffect
      <4>4. proc'[s].hand \subseteq Records
          BY <2>6, <4>3, TakePageEffect DEF IndexInv
      <4>5. ASSUME NEW n \in 1 .. Len(proc'[s].pages)
            PROVE  proc'[s].pages[n] \subseteq Records
        <5>1. proc'[s].pages[n] = proc[s].pages[n + 1]
            BY <2>6, TakePageEffect
        <5>2. n + 1 \in 1 .. Len(proc[s].pages)
            BY <4>2
        <5> QED
            BY <5>1, <5>2 DEF IndexInv
      <4> QED
          BY <4>4, <4>5 DEF Good
    <3> QED
        BY <2>6, <3>1, <1>a, TakePageEffect
  <2>7. ASSUME NEW s \in Slots, TakeSentinel(s)
        PROVE  \A t \in Slots : Good(t)
    BY <2>7, <1>a, SentinelEffect
  <2>8. ASSUME NEW s \in Slots, HandleRecord(s)
        PROVE  \A t \in Slots : Good(t)
    <3>1. Good(s)
        BY <2>8, HandleEffect DEF IndexInv, SameHoldings, Good
    <3> QED
        BY <2>8, <3>1, <1>a, HandleEffect
  <2>9. ASSUME NEW s \in Slots, EndPage(s)
        PROVE  \A t \in Slots : Good(t)
    BY <2>9, <1>a, EndEffect
  <2>10. CASE Restart
    BY <2>10, <1>b DEF Restart
  <2>11. CASE Tick \/ FetchRaises \/ OtherStreamSaves \/ UNCHANGED vars
    BY <2>11, <1>a DEF Tick, FetchRaises, OtherStreamSaves, vars
  <2>12. CASE NewRecord
    <3>1. Len(log') # Len(log)
        BY <2>12, NewRecordEffect, LogType
    <3> QED
        BY <1>1, <3>1
  <2> QED
    BY <2>2, <2>3, <2>4, <2>5, <2>6, <2>7, <2>8, <2>9, <2>10, <2>11, <2>12
       DEF Next, Processor
<1>2. CASE NewRecord
    BY <1>2, NewRecordEffect DEF IndexInv, NewRecord
<1>3. (log' = log /\ live' = live) \/ NewRecord
    BY DEF Next, vars, Processor, Tick, StartPoll, FetchPage, AttemptFails, FetchRaises,
           Joined, TakePage, TakeSentinel, HandleRecord, EndPage, OtherStreamSaves,
           Restart, service
<1> QED
    BY <1>1, <1>2, <1>3

(* Every variable of the stream keeps its type. *)
THEOREM TypeCorrect == Spec => []TypeOK
<1>1. Init => TypeOK /\ IndexInv
    BY TypeInit, IndexInit
<1>2. TypeOK /\ IndexInv /\ [Next]_vars => (TypeOK /\ IndexInv)'
    BY TypeStep, IndexStep
<1> QED
    BY <1>1, <1>2, PTL DEF Spec
-----------------------------------------------------------------------------
(* Positions in the result set. *)

LEMMA PrefixFinite ==
    ASSUME NEW n \in Nat, NEW R \in SUBSET (1 .. n)
    PROVE  /\ IsFiniteSet(R)
           /\ Cardinality(R) \in Nat
           /\ \A i : Cardinality({k \in R : k < i}) \in Nat
<1>1. IsFiniteSet(R)
  <2>1. 1 \in Int /\ n \in Int
    OBVIOUS
  <2>2. IsFiniteSet(1 .. n)
    BY <2>1, FS_Interval
  <2> QED
    BY <2>2, FS_Subset
<1>2. \A i : {k \in R : k < i} \in SUBSET R
    OBVIOUS
<1> QED
    BY <1>1, <1>2, FS_Subset, FS_CardinalityType

LEMMA ResultsFinite ==
    ASSUME TypeOK, IndexInv, NEW since
    PROVE  /\ IsFiniteSet(Results(since))
           /\ Cardinality(Results(since)) \in Nat
BY LogType, PrefixFinite DEF Results, IndexInv, Records

LEMMA RankType ==
    ASSUME TypeOK, IndexInv, NEW since, NEW i
    PROVE  Rank(i, since) \in Nat
<1>1. Results(since) \in SUBSET (1 .. Len(log))
    BY DEF Results, IndexInv, Records
<1> QED
    BY <1>1, LogType, PrefixFinite DEF Rank

LEMMA RankMonotone ==
    ASSUME TypeOK, IndexInv, NEW since, NEW i \in Records, NEW j \in Records, i < j
    PROVE  Rank(i, since) <= Rank(j, since)
<1>1. {k \in Results(since) : k < i} \in SUBSET {k \in Results(since) : k < j}
    BY LogType DEF Results, IndexInv
<1>2. IsFiniteSet({k \in Results(since) : k < j})
  <2>1. {k \in Results(since) : k < j} \in SUBSET Results(since)
    OBVIOUS
  <2> QED
    BY <2>1, ResultsFinite, FS_Subset
<1> QED
    BY <1>1, <1>2, FS_Subset DEF Rank

(* A record that arrives takes the position after all the others. *)
LEMMA RankStable ==
    ASSUME TypeOK, IndexInv, LogInv, NewRecord, NEW since
    PROVE  /\ \A i \in Results(since)' :
                 \/ i \in Results(since) /\ Rank(i, since)' = Rank(i, since)
                 \/ Rank(i, since)' = Cardinality(Results(since))
           /\ Results(since) \subseteq Results(since)'
<1>1. Results(since) \subseteq Results(since)'
    BY NewRecordEffect DEF Results, LogInv
<1>2. \A k \in Results(since)' : k \in Results(since) \/ k = Len(log) + 1
    BY NewRecordEffect DEF Results, LogInv
<1>3. \A k \in Results(since) : k \in Records /\ k < Len(log) + 1
    BY NewRecordEffect DEF Results, LogInv
<1>4. ASSUME NEW i \in Results(since)', i \in Results(since)
      PROVE  Rank(i, since)' = Rank(i, since)
  <2>1. {k \in Results(since)' : k < i} = {k \in Results(since) : k < i}
    BY <1>1, <1>2, <1>3, <1>4, LogType
  <2> QED
    BY <2>1 DEF Rank
<1>5. ASSUME NEW i \in Results(since)', i = Len(log) + 1
      PROVE  Rank(i, since)' = Cardinality(Results(since))
  <2>1. {k \in Results(since)' : k < i} = Results(since)
    <3>1. ~(Len(log) + 1 < Len(log) + 1)
        BY LogType
    <3>2. \A k \in Results(since)' : k < i => k \in Results(since)
        BY <1>2, <1>5, <3>1
    <3>3. \A k \in Results(since) : k \in Results(since)' /\ k < i
        BY <1>1, <1>3, <1>5
    <3> QED
        BY <3>2, <3>3
  <2> QED
    BY <2>1 DEF Rank
<1> QED
    BY <1>1, <1>2, <1>4, <1>5

-----------------------------------------------------------------------------
(* What a step leaves alone keeps its part of the invariant. *)

LEMMA LogKept ==
    ASSUME TypeOK, LogInv, log' = log, live' = live, now' \in {now, now + 1}
    PROVE  LogInv'
BY LogType DEF TypeOK, LogInv, Records

LEMMA ClearKept ==
    ASSUME TypeOK, IndexInv, log' = log, live' = live,
           base' \in Nat, base <= base', handled \subseteq handled', NEW c, Clear(c)
    PROVE  \A i \in live' : base' <= log'[i].ts /\ log'[i].ts < c => i \in handled'
BY LogType DEF TypeOK, Clear, IndexInv

LEMMA ProcKept ==
    ASSUME TypeOK, IndexInv, NEW t \in Slots, ProcInv(t), SameHoldings(t),
           proc[t].status # "free",
           proc'[t].status = "waiting" => proc[t].status = "waiting" \/ proc[t].hand = {},
           log' = log, live' = live, handled \subseteq handled',
           base' \in Nat, base <= base', now' \in {now, now + 1}
    PROVE  ProcInv(t)'
<1>1. CursorInv(t)'
  <2>1. CursorInv(t)
    BY DEF ProcInv
  <2>2. proc'[t].since = proc[t].since /\ proc'[t].maxTs = proc[t].maxTs
    BY DEF SameHoldings
  <2>3. Clear(proc[t].since)'
    BY <2>1, <2>2, ClearKept DEF Clear, CursorInv
  <2>4. Records' = Records /\ Held(t) \subseteq Held(t)'
    BY DEF SameHoldings, Records, Held
  <2>5. now \in Nat /\ now' \in Nat /\ now <= now' /\ proc[t].maxTs \in Nat
    BY QueueType DEF TypeOK
  <2>6. proc'[t].since <= proc'[t].maxTs /\ proc'[t].maxTs <= now'
    BY <2>1, <2>2, <2>5 DEF CursorInv
  <2>7. \A i \in Records' : proc'[t].since <= log'[i].ts /\ log'[i].ts < proc'[t].maxTs
                            => i \in Held(t)'
    BY <2>1, <2>2, <2>4 DEF CursorInv
  <2> QED
    BY <2>2, <2>3, <2>6, <2>7 DEF CursorInv
<1>2. HandInv(t)' /\ QueueInv(t)'
    BY DEF ProcInv, HandInv, QueueInv, SameHoldings, Records, Held
<1> QED
    BY <1>1, <1>2 DEF ProcInv

LEMMA OtherKept ==
    ASSUME TypeOK, IndexInv, NEW t \in Slots, ProcInv(t), proc'[t] = proc[t],
           log' = log, live' = live, handled \subseteq handled',
           base' \in Nat, base <= base', now' \in {now, now + 1}
    PROVE  ProcInv(t)'
<1>1. CASE proc[t].status = "free"
    BY <1>1 DEF ProcInv
<1>2. CASE proc[t].status # "free"
    BY <1>2, ProcKept DEF SameHoldings
<1> QED
    BY <1>1, <1>2

LEMMA FetchKept ==
    ASSUME TypeOK, FetchInv, log' = log, live' = live,
           loop' = "fetching" => loop = "fetching",
           cur' = cur, searchFrom' = searchFrom,
           proc'[cur].since = proc[cur].since,
           proc[cur].status # "free" => proc'[cur].status # "free",
           \A i \in Records : Coming(cur, i) => Coming(cur, i)', IndexInv
    PROVE  FetchInv'
<1> SUFFICES ASSUME loop' = "fetching"
             PROVE  FetchInv'
    BY DEF FetchInv
<1>1. \A since : Results(since)' = Results(since) /\ Results(since) \subseteq Records
    BY DEF Results, IndexInv
<1>2. \A since, i : Rank(i, since)' = Rank(i, since)
    BY <1>1 DEF Rank
<1> QED
    BY <1>1, <1>2 DEF FetchInv

-----------------------------------------------------------------------------
(* The invariant holds initially and every action preserves it. *)

LEMMA IInvInit == Init => IInv
<1> SUFFICES ASSUME Init
             PROVE  IInv
    OBVIOUS
<1>1. TypeOK /\ IndexInv
    BY TypeInit, IndexInit
<1>2. LogInv /\ ClockInv /\ NoGap
    BY DEF Init, LogInv, ClockInv, NoGap, Clear, Records, LookbackStart
<1>3. (\A s \in Slots : ProcInv(s)) /\ FetchInv
    BY DEF Init, ProcInv, FetchInv, FreeProc
<1> QED
    BY <1>1, <1>2, <1>3 DEF IInv
(* Actions that touch neither log nor handled keep the gap-free cursors. *)
LEMMA NoGapKept ==
    ASSUME TypeOK, IndexInv, NoGap, log' = log, live' = live,
           base' \in Nat, base <= base', handled \subseteq handled',
           mem' \in {mem, disk, 0}, disk' \in {disk, mem}
    PROVE  NoGap'
<1>1. Clear(0)
    BY LogType DEF Clear, TypeOK, IndexInv
<1>2. \A c \in {mem, disk, 0} :
         \A i \in live' : base' <= log'[i].ts /\ log'[i].ts < c => i \in handled'
    BY <1>1, ClearKept DEF NoGap
<1> QED
    BY <1>2 DEF NoGap, Clear

LEMMA IInvStep == IInv /\ [Next]_vars => IInv'
<1> SUFFICES ASSUME IInv, [Next]_vars
             PROVE  IInv'
    OBVIOUS
<1> USE DEF IInv
<1>a. TypeOK' /\ IndexInv'
    BY TypeStep, IndexStep
<1>1. CASE Tick
  <2> USE <1>1 DEF Tick, cursors, fetch
  <2>1. LogInv' /\ ClockInv' /\ NoGap'
    BY <1>a, LogKept, NoGapKept DEF ClockInv, LookbackStart, TypeOK
  <2>2. \A s \in Slots : ProcInv(s)'
    BY OtherKept DEF TypeOK
  <2>3. FetchInv'
    BY FetchKept DEF Coming, Held
  <2> QED
    BY <1>a, <2>1, <2>2, <2>3
<1>2. CASE NewRecord
  <2> DEFINE n == Len(log) + 1
  <2>1. /\ Records' = Records \cup {n} /\ live' = live \cup {n} /\ live = Records
        /\ \A i \in Records : log'[i] = log[i] /\ log[i].ts \in Nat /\ i \in Nat
                              /\ i < n /\ log[i].ts <= now
        /\ log'[n].ts = now /\ n \notin Records /\ n \in Nat
    BY <1>2, NewRecordEffect, LogType DEF LogInv
  <2>2. UNCHANGED <<now, fetch, proc, cursors, base, handled, crashes>>
    BY <1>2 DEF NewRecord
  <2> HIDE DEF n
  <2>3. LogInv'
    BY <2>1, <2>2 DEF LogInv, TypeOK
  <2>4. ClockInv'
    BY <2>2 DEF ClockInv, LookbackStart, cursors
  <2>5. \A c \in Nat : Clear(c) /\ c <= now =>
          \A i \in live' : base' <= log'[i].ts /\ log'[i].ts < c => i \in handled'
    BY <2>1, <2>2 DEF Clear, TypeOK
  <2>6. NoGap'
    BY <2>2, <2>5 DEF NoGap, Clear, ClockInv, TypeOK, cursors
  <2>7. ASSUME NEW s \in Slots, proc[s].status # "free"
        PROVE  CursorInv(s)' /\ HandInv(s)' /\ QueueInv(s)'
    <3>1. CursorInv(s) /\ HandInv(s) /\ QueueInv(s)
        BY <2>7 DEF ProcInv
    <3>2. proc[s].since \in Nat /\ proc[s].maxTs \in Nat
        BY QueueType
    <3>3. Clear(proc[s].since)'
      <4>1. proc[s].since <= now
          BY <3>1, <3>2 DEF CursorInv, TypeOK
      <4> QED
          BY <2>2, <2>5, <3>1, <3>2, <4>1 DEF CursorInv, Clear
    <3>4. CursorInv(s)'
      <4>1. \A i \in Records' : proc'[s].since <= log'[i].ts /\ log'[i].ts < proc'[s].maxTs
                                => i \in Held(s)'
        <5>1. proc' = proc /\ Held(s)' = Held(s)
            BY <2>2 DEF Held
        <5>2. ~(log'[n].ts < proc[s].maxTs)
            BY <2>1, <3>1, <3>2 DEF CursorInv, TypeOK
        <5> QED
            BY <2>1, <3>1, <5>1, <5>2 DEF CursorInv
      <4>2. /\ proc'[s].since <= proc'[s].maxTs
            /\ proc'[s].maxTs <= now'
          BY <2>2, <3>1 DEF CursorInv
      <4> QED
          BY <3>3, <4>1, <4>2 DEF CursorInv
    <3>5. \A j \in Records, i \in Records' : i < j => i \in Records
        BY <2>1
    <3>6. HandInv(s)'
        BY <2>1, <2>2, <3>1, <3>5 DEF HandInv, Held, IndexInv
    <3>7. QueueInv(s)'
        BY <2>1, <2>2, <3>1, <3>5 DEF QueueInv, Held, IndexInv
    <3> QED
        BY <3>4, <3>6, <3>7
  <2>8. \A s \in Slots : ProcInv(s)'
    BY <2>2, <2>7 DEF ProcInv
  <2>9. FetchInv'
    <3> SUFFICES ASSUME loop = "fetching"
                 PROVE  FetchInv'
        BY <2>2 DEF FetchInv, fetch
    <3>0. PICK since \in Nat : since = proc[cur].since
        BY QueueType DEF TypeOK
    <3>1. cur \in Slots /\ cur' = cur /\ proc' = proc /\ searchFrom' = searchFrom
        BY <2>2 DEF TypeOK, fetch
    <3>2. /\ Results(since) \subseteq Results(since)'
          /\ \A i \in Results(since)' :
                 \/ i \in Results(since) /\ Rank(i, since)' = Rank(i, since)
                 \/ Rank(i, since)' = Cardinality(Results(since))
        BY <1>2, RankStable
    <3>3. /\ Cardinality(Results(since)) \in Nat /\ Cardinality(Results(since)') \in Nat
          /\ Cardinality(Results(since)) <= Cardinality(Results(since)')
      <4>1. IsFiniteSet(Results(since)') /\ Cardinality(Results(since)') \in Nat
        <5>1. Len(log') \in Nat /\ Results(since)' \in SUBSET (1 .. Len(log'))
          <6>1. Len(log') \in Nat
            <7>1. Len(log') = Len(log) + 1 /\ Len(log) \in Nat
                BY <1>2, NewRecordEffect, LogType
            <7> QED
                BY <7>1
          <6>2. live' \subseteq 1 .. Len(log')
              BY <1>a DEF IndexInv, Records
          <6>3. Results(since)' \subseteq live'
              BY DEF Results
          <6>4. \A i \in Results(since)' : i \in 1 .. Len(log')
              BY <6>2, <6>3
          <6> QED
              BY <6>1, <6>4
        <5> QED
            BY <5>1, PrefixFinite
      <4> QED
          BY <3>2, <4>1, ResultsFinite, FS_Subset
    <3>4. /\ proc[cur].status # "free"
          /\ searchFrom <= Cardinality(Results(since))
          /\ \A i \in Results(since) : Rank(i, since) < searchFrom => Coming(cur, i)
        BY <3>0 DEF FetchInv
    <3>5. \A i \in Results(since)' : Rank(i, since)' < searchFrom => Coming(cur, i)
        BY <3>2, <3>3, <3>4 DEF TypeOK
    <3>6. /\ searchFrom <= Cardinality(Results(since)')
          /\ \A i : Coming(cur, i) => Coming(cur, i)'
        BY <2>2, <3>1, <3>3, <3>4 DEF Coming, Held, TypeOK
    <3>7. proc'[cur'].since = since /\ proc'[cur'].status # "free"
        BY <3>0, <3>1, <3>4
    <3> QED
        BY <3>1, <3>5, <3>6, <3>7 DEF FetchInv
  <2> QED
    BY <1>a, <2>3, <2>4, <2>6, <2>8, <2>9
<1>3. CASE StartPoll
  <2>0. LookbackStart \in Nat /\ LookbackStart <= now
    BY DEF LookbackStart, TypeOK
  <2>i. PICK start \in Nat : start = Since
    BY <2>0 DEF Since, TypeOK
  <2>j. PICK c \in Slots : c = cur'
    BY <1>3 DEF StartPoll
  <2>1. /\ log' = log /\ live' = live /\ now' = now /\ handled' = handled
        /\ mem' = mem /\ disk' = disk /\ loop' = "fetching" /\ searchFrom' = 0
        /\ base' = IF mem = 0 THEN LookbackStart ELSE base
    BY <1>3 DEF StartPoll, service, cursors
  <2>2. /\ start <= now
        /\ base' \in Nat /\ base <= base' /\ base' <= LookbackStart
    BY <2>0, <2>1, <2>i DEF Since, TypeOK, ClockInv
  <2>3. LogInv' /\ ClockInv'
    BY <2>1, <2>2, LogKept DEF ClockInv, LookbackStart
  <2>4. NoGap'
    BY <2>1, <2>2, NoGapKept
  <2>5. /\ \A t \in Slots \ {c} : proc'[t] = proc[t]
        /\ proc'[c].status = "waiting" /\ proc'[c].hand = {} /\ proc'[c].pages = <<>>
        /\ proc'[c].since = start /\ proc'[c].maxTs = start
    BY <1>3, <2>i, <2>j, StartEffect DEF FreeProc
  <2>6. \A i \in live' : base' <= log'[i].ts /\ log'[i].ts < start => i \in handled'
    <3>1. CASE mem = 0
        BY <2>0, <2>1, <2>i, <3>1, LogType DEF Since, IndexInv
    <3>2. CASE mem # 0
        BY <2>1, <2>i, <3>2 DEF Since, NoGap, Clear
    <3> QED
        BY <3>1, <3>2
  <2>7. ProcInv(c)'
    <3>1. Clear(proc[c].since)'
        BY <2>5, <2>6 DEF Clear
    <3>2. CursorInv(c)'
      <4>1. \A i \in Records' : ~(start <= log'[i].ts /\ log'[i].ts < start)
          BY <2>1, LogType DEF Records
      <4> QED
          BY <2>1, <2>2, <2>5, <3>1, <4>1 DEF CursorInv
    <3>3. HandInv(c)' /\ QueueInv(c)'
        BY <2>5 DEF HandInv, QueueInv
    <3> QED
        BY <3>2, <3>3 DEF ProcInv
  <2>8. \A s \in Slots : ProcInv(s)'
    BY <2>1, <2>2, <2>5, <2>7, OtherKept
  <2>9. FetchInv'
    <3>1. Results(start)' = Results(start) /\ \A i : Rank(i, start)' = Rank(i, start)
        BY <2>1 DEF Results, Rank
    <3>2. Cardinality(Results(start)') \in Nat /\ \A i : Rank(i, start)' \in Nat
        BY <3>1, ResultsFinite, RankType
    <3> QED
        BY <2>1, <2>5, <2>j, <3>2 DEF FetchInv
  <2> QED
    BY <1>a, <2>3, <2>4, <2>8, <2>9
<1>4. CASE FetchPage
  <2>i. PICK since \in Nat : since = proc[cur].since
    BY QueueType DEF TypeOK
  <2>j. PICK page : page = PageAt(since, searchFrom)
    OBVIOUS
  <2>k. PICK len \in Nat : len = Len(proc[cur].pages)
    BY QueueType DEF TypeOK
  <2>1. /\ log' = log /\ live' = live /\ now' = now /\ handled' = handled /\ base' = base
        /\ mem' = mem /\ disk' = disk /\ loop = "fetching"
        /\ cur' = cur /\ searchFrom' = searchFrom + PageSize
        /\ loop' = "fetching" => page # {} /\ searchFrom + PageSize < Total(since)
    <3>1. ~(searchFrom + PageSize >= Total(since)) => searchFrom + PageSize < Total(since)
        BY ResultsFinite DEF Total, Smaller, TypeOK
    <3> QED
        BY <1>4, <2>i, <2>j, <3>1 DEF FetchPage, service, cursors
  <2>2. /\ cur \in Slots
        /\ proc'[cur].since = since
        /\ \A t \in Slots \ {cur} : proc'[t] = proc[t]
        /\ proc'[cur].status = proc[cur].status
        /\ proc'[cur].hand = proc[cur].hand
        /\ proc'[cur].maxTs = proc[cur].maxTs
        /\ \A m \in 1 .. len : proc'[cur].pages[m] = proc[cur].pages[m]
        /\ \/ page = {} /\ Len(proc'[cur].pages) = len
           \/ /\ Len(proc'[cur].pages) = len + 1
              /\ proc'[cur].pages[len + 1] = page
    BY <1>4, <2>i, <2>j, <2>k, FetchEffect DEF TypeOK
  <2>3. LogInv' /\ ClockInv' /\ NoGap'
    BY <2>1, LogKept, NoGapKept DEF ClockInv, LookbackStart, TypeOK
  <2>4. /\ proc[cur].status # "free"
        /\ searchFrom <= Cardinality(Results(since))
        /\ \A i \in Results(since) : Rank(i, since) < searchFrom => Coming(cur, i)
    BY <2>1, <2>i DEF FetchInv
  <2>5. /\ page \subseteq Results(since) /\ Results(since) \subseteq Records
        /\ \A i \in Records : since <= log[i].ts => i \in Results(since)
        /\ \A i \in Results(since) : Rank(i, since) \in Nat
        /\ \A i \in page : Rank(i, since) < Smaller(searchFrom + PageSize, Cap)
        /\ \A i \in Results(since) :
              ~(Rank(i, since) < searchFrom) /\ Rank(i, since) < Smaller(searchFrom + PageSize, Cap)
              => i \in page
    BY <2>j, RankType, LogType DEF PageAt, Results, LogInv, TypeOK
  <2>6. \A j \in page, i \in Records : i < j /\ since <= log[i].ts => i \in page \/ Coming(cur, i)
    <3> SUFFICES ASSUME NEW j \in page, NEW i \in Records, i < j, since <= log[i].ts,
                        ~(Rank(i, since) < searchFrom)
                 PROVE  i \in page
        BY <2>4, <2>5
    <3>1. Rank(i, since) <= Rank(j, since)
        BY <2>5, RankMonotone
    <3>2. Smaller(searchFrom + PageSize, Cap) \in Nat
        BY DEF Smaller, TypeOK
    <3>3. Rank(i, since) < Smaller(searchFrom + PageSize, Cap)
        BY <2>5, <3>1, <3>2
    <3> QED
        BY <2>5, <3>3
  <2>7. \A i : Coming(cur, i) => Coming(cur, i)'
    <3>1. \A m \in 1 .. len : m \in 1 .. Len(proc'[cur].pages)
        BY <2>2
    <3> QED
        BY <2>1, <2>2, <2>k, <3>1 DEF Coming, Held
  <2>8. page # {} => \A i \in page : Coming(cur, i)'
    BY <2>1, <2>2 DEF Coming
  <2>9. ProcInv(cur)'
    <3>1. CursorInv(cur) /\ HandInv(cur) /\ QueueInv(cur)
        BY <2>2, <2>4 DEF ProcInv
    <3>2. CursorInv(cur)' /\ HandInv(cur)'
        BY <2>1, <2>2, <2>i, <3>1 DEF CursorInv, HandInv, Clear, Held, Records
    <3>3. ASSUME NEW n \in 1 .. Len(proc'[cur].pages), NEW j \in proc'[cur].pages[n],
                 NEW i \in Records, i < j, since <= log[i].ts
          PROVE  i \in Held(cur) \/ \E m \in 1 .. n : i \in proc'[cur].pages[m]
      <4>1. CASE n \in 1 .. len
        <5>1. i \in Held(cur) \/ \E m \in 1 .. n : i \in proc[cur].pages[m]
            BY <2>i, <2>k, <2>2, <3>1, <3>3, <4>1 DEF QueueInv
        <5>2. \A m \in 1 .. n : proc'[cur].pages[m] = proc[cur].pages[m]
            BY <2>2, <4>1
        <5> QED
            BY <5>1, <5>2
      <4>2. CASE n \notin 1 .. len
        <5>1. n = len + 1 /\ proc'[cur].pages[n] = page
            BY <2>2, <4>2
        <5>2. i \in page \/ Coming(cur, i)
            BY <2>6, <3>3, <5>1
        <5>3. i \in Held(cur) \/ i \in page \/ \E m \in 1 .. len : i \in proc'[cur].pages[m]
            BY <2>2, <2>k, <5>2 DEF Coming
        <5>4. \A m \in 1 .. len : m \in 1 .. n
            BY <2>2, <5>1
        <5>5. n \in 1 .. n
            BY <2>2, <5>1
        <5> QED
            BY <5>1, <5>3, <5>4, <5>5
      <4> QED
          BY <4>1, <4>2
    <3>4. QueueInv(cur)'
        BY <2>1, <2>2, <3>3 DEF QueueInv, Held, Records
    <3> QED
        BY <3>2, <3>4 DEF ProcInv
  <2>10. \A s \in Slots : ProcInv(s)'
    BY <2>1, <2>2, <2>9, OtherKept DEF TypeOK
  <2>11. FetchInv'
    <3> SUFFICES ASSUME loop' = "fetching"
                 PROVE  FetchInv'
        BY DEF FetchInv
    <3>1. Cardinality(Results(since)) \in Nat /\ PageSize \in Nat
        BY ResultsFinite
    <3>2. searchFrom + PageSize <= Cardinality(Results(since)) /\ searchFrom + PageSize < Cap
        BY <2>1, <3>1 DEF Total, Smaller, TypeOK
    <3>3. \A i \in Results(since) : Rank(i, since) < searchFrom + PageSize => Coming(cur, i)'
      <4>1. Smaller(searchFrom + PageSize, Cap) = searchFrom + PageSize
          BY <3>2 DEF Smaller, TypeOK
      <4> QED
          BY <2>1, <2>4, <2>5, <2>7, <2>8, <4>1
    <3>4. Results(since)' = Results(since) /\ \A i : Rank(i, since)' = Rank(i, since)
        BY <2>1, <2>2 DEF Results, Rank
    <3> QED
        BY <2>1, <2>2, <2>4, <3>2, <3>3, <3>4 DEF FetchInv
  <2> QED
    BY <1>a, <2>3, <2>10, <2>11
<1>5. CASE AttemptFails
  <2>1. /\ log' = log /\ live' = live /\ now' = now /\ handled' = handled /\ base' = base
        /\ mem' = mem /\ disk' = disk /\ cur' = cur /\ searchFrom' = searchFrom
        /\ loop' = "fetching" => loop = "fetching"
        /\ cur \in Slots
    BY <1>5, AttemptScalars DEF service, cursors, TypeOK
  <2>2. \A t \in Slots : SameHoldings(t) /\ proc'[t].status = proc[t].status
    BY <1>5, AttemptEffect
  <2>3. LogInv' /\ ClockInv' /\ NoGap'
    BY <2>1, LogKept, NoGapKept DEF ClockInv, LookbackStart, TypeOK
  <2>4. ASSUME NEW t \in Slots
        PROVE  ProcInv(t)'
    <3>1. CASE proc[t].status = "free"
        BY <2>2, <3>1 DEF ProcInv
    <3>2. CASE proc[t].status # "free"
      <4>1. base' \in Nat /\ base <= base' /\ now' \in {now, now + 1}
          BY <2>1 DEF TypeOK
      <4>2. SameHoldings(t) /\ proc'[t].status = proc[t].status /\ ProcInv(t)
          BY <2>2
      <4>3. log' = log /\ live' = live /\ handled \subseteq handled'
          BY <2>1
      <4> QED
          BY <3>2, <4>1, <4>2, <4>3, ProcKept
    <3> QED
        BY <3>1, <3>2
  <2>5. FetchInv'
    BY <2>1, <2>2, FetchKept DEF Coming, Held, SameHoldings
  <2> QED
    BY <1>a, <2>3, <2>4, <2>5
<1>6. CASE FetchRaises \/ Joined \/ Restart
  <2>1. /\ log' = log /\ live' = live /\ now' = now /\ handled' = handled /\ base' = base
        /\ mem' \in {mem, disk, 0} /\ disk' = disk /\ loop' = "idle"
        /\ \A t \in Slots : proc'[t] = proc[t] \/ proc'[t] = FreeProc
    BY <1>6 DEF FetchRaises, Joined, Restart, service, cursors, TypeOK
  <2>2. LogInv' /\ ClockInv' /\ NoGap'
    BY <2>1, LogKept, NoGapKept DEF ClockInv, LookbackStart, TypeOK
  <2>3. \A t \in Slots : ProcInv(t)'
    BY <2>1, OtherKept DEF ProcInv, FreeProc, TypeOK
  <2>4. FetchInv'
    BY <2>1 DEF FetchInv
  <2> QED
    BY <1>a, <2>2, <2>3, <2>4
<1>7. ASSUME NEW s \in Slots, TakePage(s)
      PROVE  IInv'
  <2>1. /\ log' = log /\ live' = live /\ now' = now /\ handled' = handled /\ base' = base
        /\ mem' = mem /\ disk' = disk /\ cur' = cur /\ searchFrom' = searchFrom /\ loop' = loop
    BY <1>7 DEF TakePage, service, cursors, fetch
  <2>i. PICK len \in Nat : len = Len(proc'[s].pages)
    BY <1>7, TakePageEffect, QueueType
  <2>2. /\ \A t \in Slots \ {s} : proc'[t] = proc[t]
        /\ proc[s].status = "waiting" /\ proc'[s].status = "handling"
        /\ proc'[s].since = proc[s].since
        /\ proc'[s].maxTs = proc[s].maxTs
        /\ Len(proc[s].pages) = len + 1
        /\ proc'[s].hand = proc[s].pages[1]
        /\ \A m \in 1 .. len : proc'[s].pages[m] = proc[s].pages[m + 1]
    BY <1>7, <2>i, TakePageEffect, QueueType
  <2>3. LogInv' /\ ClockInv' /\ NoGap'
    BY <2>1, LogKept, NoGapKept DEF ClockInv, LookbackStart, TypeOK
  <2>4. /\ CursorInv(s) /\ HandInv(s) /\ QueueInv(s)
        /\ proc[s].hand = {}
    BY <2>2 DEF ProcInv, HandInv
  <2>5. \A i : i \in Held(s)' <=> i \in Held(s) \/ i \in proc[s].pages[1]
    BY <2>1, <2>2, <2>4 DEF Held
  <2>6. \A n \in 0 .. len : \A i :
           (\E m \in 1 .. n + 1 : i \in proc[s].pages[m])
           => i \in proc[s].pages[1] \/ \E m \in 1 .. n : i \in proc'[s].pages[m]
    <3> SUFFICES ASSUME NEW n \in 0 .. len, NEW i, NEW m \in 1 .. n + 1,
                        i \in proc[s].pages[m], m # 1
                 PROVE  \E k \in 1 .. n : i \in proc'[s].pages[k]
        OBVIOUS
    <3>1. m - 1 \in 1 .. n /\ m - 1 \in 1 .. len /\ (m - 1) + 1 = m
        OBVIOUS
    <3> QED
        BY <2>2, <3>1
  <2>7. ProcInv(s)'
    <3>1. CursorInv(s)'
        BY <2>1, <2>2, <2>4, <2>5 DEF CursorInv, Clear, Records
    <3>2. HandInv(s)'
      <4>1. 1 \in 1 .. Len(proc[s].pages)
          BY <2>2
      <4>2. \A j \in proc[s].pages[1] : \A i \in Records :
                i < j /\ proc[s].since <= log[i].ts => i \in Held(s) \/ i \in proc[s].pages[1]
          BY <2>4, <4>1 DEF QueueInv
      <4> QED
          BY <2>1, <2>2, <2>5, <4>2 DEF HandInv, Records
    <3>3. ASSUME NEW n \in 1 .. len, NEW j \in proc'[s].pages[n],
                 NEW i \in Records, i < j, proc[s].since <= log[i].ts
          PROVE  i \in Held(s)' \/ \E m \in 1 .. n : i \in proc'[s].pages[m]
      <4>1. n + 1 \in 1 .. Len(proc[s].pages) /\ j \in proc[s].pages[n + 1] /\ n \in 0 .. len
          BY <2>2, <3>3
      <4>2. i \in Held(s) \/ \E m \in 1 .. n + 1 : i \in proc[s].pages[m]
          BY <2>4, <3>3, <4>1 DEF QueueInv
      <4> QED
          BY <2>5, <2>6, <4>1, <4>2
    <3>4. QueueInv(s)'
        BY <2>1, <2>2, <2>i, <3>3 DEF QueueInv, Records
    <3> QED
        BY <3>1, <3>2, <3>4 DEF ProcInv
  <2>8. \A t \in Slots : ProcInv(t)'
    BY <2>1, <2>2, <2>7, OtherKept DEF TypeOK
  <2>9. \A i : Coming(cur, i) => Coming(cur, i)'
    <3>1. CASE cur = s
      <4>1. \A i : Coming(s, i) => Coming(s, i)'
        <5>1. \A i : (\E m \in 1 .. len + 1 : i \in proc[s].pages[m])
                      => i \in proc[s].pages[1] \/ \E m \in 1 .. len : i \in proc'[s].pages[m]
            BY <2>6
        <5> QED
            BY <2>2, <2>5, <2>i, <5>1 DEF Coming
      <4> QED
          BY <2>1, <3>1, <4>1 DEF Coming, Held
    <3>2. CASE cur # s
        BY <2>1, <2>2, <3>2 DEF Coming, Held, TypeOK
    <3> QED
        BY <3>1, <3>2
  <2>10. FetchInv'
    BY <2>1, <2>2, <2>9, FetchKept DEF TypeOK
  <2> QED
    BY <1>a, <2>3, <2>8, <2>10
<1>8. ASSUME NEW s \in Slots, TakeSentinel(s)
      PROVE  IInv'
  <2>1. /\ log' = log /\ live' = live /\ now' = now /\ handled' = handled /\ base' = base
        /\ mem' = mem /\ disk' = disk /\ cur' = cur /\ searchFrom' = searchFrom /\ loop' = loop
    BY <1>8 DEF TakeSentinel, service, cursors, fetch
  <2>2. /\ \A t \in Slots \ {s} : proc'[t] = proc[t]
        /\ \A t \in Slots : SameHoldings(t)
        /\ proc[s].status = "waiting" /\ proc'[s].status = "stopped"
    BY <1>8, SentinelEffect
  <2>3. LogInv' /\ ClockInv' /\ NoGap'
    BY <2>1, LogKept, NoGapKept DEF ClockInv, LookbackStart, TypeOK
  <2>4. \A t \in Slots : ProcInv(t)'
    BY <2>1, <2>2, OtherKept, ProcKept DEF TypeOK
  <2>5. FetchInv'
    BY <2>1, <2>2, FetchKept DEF Coming, Held, SameHoldings, TypeOK
  <2> QED
    BY <1>a, <2>3, <2>4, <2>5
<1>9. ASSUME NEW s \in Slots, HandleRecord(s)
      PROVE  IInv'
  <2>1. /\ log' = log /\ live' = live /\ now' = now /\ base' = base
        /\ mem' = mem /\ disk' = disk /\ cur' = cur /\ searchFrom' = searchFrom /\ loop' = loop
    BY <1>9 DEF HandleRecord, service, cursors, fetch
  <2>2. /\ \A t \in Slots \ {s} : proc'[t] = proc[t]
        /\ proc[s].status = "handling"
        /\ proc'[s].pages = proc[s].pages
        /\ proc'[s].since = proc[s].since
    BY <1>9, HandleEffect
  <2>3. handled \subseteq handled'
    BY <1>9, HandleEffect
  <2>4. LogInv' /\ ClockInv' /\ NoGap'
    BY <2>1, <2>3, LogKept, NoGapKept DEF ClockInv, LookbackStart, TypeOK
  <2>5. /\ proc'[s].status # "free"
        /\ \A i : i \in Held(s)' <=> i \in Held(s)
        /\ ProcInv(s)'
    <3>1. CASE SameHoldings(s) /\ proc'[s].status = "stopped" /\ handled' = handled
        BY <2>1, <2>2, <3>1, ProcKept DEF Held, SameHoldings, TypeOK
    <3>2. CASE ~(SameHoldings(s) /\ proc'[s].status = "stopped" /\ handled' = handled)
      <4>1. PICK k \in proc[s].hand :
                /\ \A j \in proc[s].hand : k <= j
                /\ handled' = handled \cup {k}
                /\ proc'[s].status = "handling"
                /\ proc'[s].hand = proc[s].hand \ {k}
                /\ \/ proc'[s].maxTs = proc[s].maxTs
                   \/ proc'[s].maxTs = log[k].ts /\ log[k].ts > proc[s].maxTs
          BY <1>9, <3>2, HandleEffect
      <4>2. \A i : i \in Held(s)' <=> i \in Held(s)
          BY <4>1 DEF Held
      <4>3. CursorInv(s) /\ HandInv(s) /\ QueueInv(s)
          BY <2>2 DEF ProcInv
      <4>4. k \in Records /\ k \in Nat /\ log[k].ts \in Nat /\ log[k].ts <= now
          BY LogType DEF IndexInv, LogInv
      <4>5. proc[s].since \in Nat /\ proc[s].maxTs \in Nat
          BY QueueType
      <4>6. Clear(proc[s].since)'
          BY <2>1, <2>2, <2>3, <4>3 DEF Clear, CursorInv
      <4>7. ASSUME NEW i \in Records, proc[s].since <= log[i].ts, log[i].ts < log[k].ts
            PROVE  i \in Held(s)
        <5>1. i < k
          <6>1. i \in Nat /\ log[i].ts \in Nat /\ ~(log[k].ts <= log[i].ts)
              BY <4>4, <4>7, LogType
          <6>2. ~(k <= i)
              BY <4>4, <6>1 DEF LogInv
          <6> QED
              BY <4>4, <6>1, <6>2
        <5> QED
            BY <4>3, <4>7, <5>1 DEF HandInv
      <4>8. CursorInv(s)'
        <5>1. CASE proc'[s].maxTs = proc[s].maxTs
            BY <2>1, <2>2, <4>2, <4>3, <4>6, <5>1 DEF CursorInv, Records
        <5>2. CASE proc'[s].maxTs = log[k].ts /\ log[k].ts > proc[s].maxTs
          <6>1. /\ proc'[s].since <= proc'[s].maxTs
                /\ proc'[s].maxTs <= now'
              BY <2>1, <2>2, <4>3, <4>4, <4>5, <5>2 DEF CursorInv
          <6>2. \A i \in Records' : proc'[s].since <= log'[i].ts /\ log'[i].ts < proc'[s].maxTs
                                   => i \in Held(s)'
              BY <2>1, <2>2, <4>2, <4>7, <5>2 DEF Records
          <6> QED
              BY <4>6, <6>1, <6>2 DEF CursorInv
        <5> QED
            BY <4>1, <5>1, <5>2
      <4>9. HandInv(s)' /\ QueueInv(s)'
          BY <2>1, <2>2, <4>1, <4>2, <4>3 DEF HandInv, QueueInv, Records
      <4> QED
          BY <4>1, <4>2, <4>8, <4>9 DEF ProcInv
    <3> QED
        BY <3>1, <3>2
  <2>6. ASSUME NEW t \in Slots
        PROVE  ProcInv(t)'
    <3>1. CASE t = s
        BY <2>5, <3>1
    <3>2. CASE t # s
      <4>1. base' \in Nat /\ base <= base' /\ now' \in {now, now + 1}
          BY <2>1 DEF TypeOK
      <4>2. proc'[t] = proc[t] /\ ProcInv(t)
          BY <2>2, <3>2
      <4>3. log' = log /\ live' = live
          BY <2>1
      <4> QED
          BY <2>3, <4>1, <4>2, <4>3, OtherKept
    <3> QED
        BY <3>1, <3>2
  <2>7. \A i : Coming(cur, i) => Coming(cur, i)'
    <3>1. CASE cur = s
      <4>1. \A i : Coming(s, i) => Coming(s, i)'
          BY <2>2, <2>5 DEF Coming
      <4> QED
          BY <2>1, <3>1, <4>1 DEF Coming, Held
    <3>2. CASE cur # s
        BY <2>1, <2>2, <2>3, <3>2 DEF Coming, Held, TypeOK
    <3> QED
        BY <3>1, <3>2
  <2>8. FetchInv'
    BY <2>1, <2>2, <2>5, <2>7, FetchKept DEF TypeOK
  <2> QED
    BY <1>a, <2>4, <2>6, <2>8
<1>10. ASSUME NEW s \in Slots, EndPage(s)
       PROVE  IInv'
  <2>1. /\ log' = log /\ live' = live /\ now' = now /\ handled' = handled /\ base' = base
        /\ cur' = cur /\ searchFrom' = searchFrom /\ loop' = loop
    BY <1>10 DEF EndPage, service, fetch
  <2>2. /\ \A t \in Slots \ {s} : proc'[t] = proc[t]
        /\ proc[s].status = "handling" /\ proc[s].hand = {}
        /\ proc'[s].status \in {"waiting", "stopped"}
        /\ SameHoldings(s)
        /\ \/ mem' = mem /\ disk' = disk
           \/ mem' = proc[s].maxTs /\ disk' \in {disk, proc[s].maxTs}
    BY <1>10, EndEffect
  <2>3. CursorInv(s)
    BY <2>2 DEF ProcInv
  <2>4. Clear(proc[s].maxTs)
    <3>1. \A i \in live : /\ i \in Records /\ log[i].ts \in Nat
                          /\ log[i].ts < proc[s].since \/ proc[s].since <= log[i].ts
        BY LogType, QueueType DEF IndexInv
    <3> QED
        BY <2>2, <2>3, <3>1 DEF CursorInv, Clear, Held
  <2>5. NoGap'
    BY <2>1, <2>2, <2>4 DEF NoGap, Clear
  <2>6. LogInv' /\ ClockInv'
    BY <2>1, <2>2, <2>3, LogKept DEF ClockInv, CursorInv, LookbackStart
  <2>7. \A t \in Slots : ProcInv(t)'
    BY <2>1, <2>2, OtherKept, ProcKept DEF TypeOK
  <2>8. FetchInv'
    BY <2>1, <2>2, FetchKept DEF Coming, Held, SameHoldings, TypeOK
  <2> QED
    BY <1>a, <2>5, <2>6, <2>7, <2>8
<1>11. CASE OtherStreamSaves \/ UNCHANGED vars
  <2>1. /\ log' = log /\ live' = live /\ now' = now /\ handled' = handled /\ base' = base
        /\ mem' = mem /\ disk' \in {disk, mem} /\ proc' = proc
        /\ cur' = cur /\ searchFrom' = searchFrom /\ loop' = loop
    BY <1>11 DEF OtherStreamSaves, vars, service, fetch, cursors
  <2>2. LogInv' /\ ClockInv' /\ NoGap'
    BY <2>1, LogKept, NoGapKept DEF ClockInv, LookbackStart, TypeOK
  <2>3. (\A t \in Slots : ProcInv(t)') /\ FetchInv'
    BY <2>1, OtherKept, FetchKept DEF Coming, Held, TypeOK
  <2> QED
    BY <1>a, <2>2, <2>3
<1> QED
    BY <1>1, <1>2, <1>3, <1>4, <1>5, <1>6, <1>7, <1>8, <1>9, <1>10, <1>11 DEF Next, Processor

(* The strengthened invariant holds of every run of the stream. *)
THEOREM Invariance == Spec => []IInv
BY IInvInit, IInvStep, PTL DEF Spec

(* No interleaving of fetch loop, processors (left-over ones included),
   failed saves and restarts brings the cursor in memory or in the state file
   past a record of the window that was not dealt with. *)
THEOREM NoGapTheorem == Spec => []NoGap
<1>1. IInv => NoGap
    BY DEF IInv
<1> QED
    BY <1>1, Invariance, PTL
-----------------------------------------------------------------------------
(* The cursor is the stamp of a record that was handed over. *)

LEMMA AttainedInit == Init => AttainedInv
BY DEF Init, AttainedInv, Attained, FreeProc

LEMMA AttainedStep == TypeOK /\ IndexInv /\ AttainedInv /\ [Next]_vars => AttainedInv'
<1> SUFFICES ASSUME TypeOK, IndexInv, AttainedInv, [Next]_vars
             PROVE  AttainedInv'
    OBVIOUS
<1> USE DEF AttainedInv
<1>a. ASSUME log' = log, handled' = handled,
             mem' \in {mem, disk, 0}, disk' \in {mem, disk},
             \A s \in Slots : \/ /\ proc'[s].maxTs = proc[s].maxTs
                                 /\ proc'[s].since = proc[s].since
                              \/ ~(proc'[s].maxTs > proc'[s].since)
      PROVE  AttainedInv'
    BY <1>a DEF Attained, Records
<1>1. CASE NewRecord
  <2>1. /\ \A i \in Records : log'[i] = log[i]
        /\ Records \subseteq Records'
    BY <1>1, NewRecordEffect
  <2>2. handled' = handled /\ mem' = mem /\ disk' = disk /\ proc' = proc
    BY <1>1 DEF NewRecord, cursors
  <2> QED
    BY <2>1, <2>2 DEF Attained
<1>2. CASE StartPoll
  <2>1. log' = log /\ handled' = handled /\ mem' = mem /\ disk' = disk
    BY <1>2 DEF StartPoll, service, cursors
  <2>2. proc'[cur'].maxTs = Since /\ proc'[cur'].since = Since /\ Since \in Nat
    <3>1. Since \in Nat
        BY DEF Since, LookbackStart, TypeOK
    <3> QED
        BY <1>2, <3>1, StartEffect DEF FreeProc
  <2>3. \A s \in Slots : \/ proc'[s] = proc[s]
                         \/ ~(proc'[s].maxTs > proc'[s].since)
    BY <1>2, <2>2, StartEffect
  <2> QED
    BY <1>a, <2>1, <2>3
<1>3. CASE FetchPage
  <2>1. log' = log /\ handled' = handled /\ mem' = mem /\ disk' = disk
    BY <1>3, FetchScalars DEF service, cursors
  <2>2. \A s \in Slots : proc'[s].maxTs = proc[s].maxTs /\ proc'[s].since = proc[s].since
    BY <1>3, FetchEffect DEF TypeOK
  <2> QED
    BY <1>a, <2>1, <2>2
<1>4. CASE AttemptFails
    BY <1>4, <1>a, AttemptScalars, AttemptEffect DEF SameHoldings, service, cursors
<1>5. CASE Tick \/ FetchRaises \/ OtherStreamSaves \/ UNCHANGED vars
    BY <1>5, <1>a DEF Tick, FetchRaises, OtherStreamSaves, vars, service, cursors
<1>6. CASE Joined \/ Restart
  <2>1. /\ log' = log /\ handled' = handled /\ mem' \in {mem, disk, 0} /\ disk' = disk
    BY <1>6 DEF Joined, Restart, service, cursors
  <2>2. \A s \in Slots : \/ proc'[s] = proc[s]
                         \/ ~(proc'[s].maxTs > proc'[s].since)
    BY <1>6 DEF Joined, Restart, FreeProc, TypeOK
  <2> QED
    BY <1>a, <2>1, <2>2
<1>7. ASSUME NEW s \in Slots, TakePage(s) \/ TakeSentinel(s)
      PROVE  AttainedInv'
  <2>1. log' = log /\ handled' = handled /\ mem' = mem /\ disk' = disk
    BY <1>7 DEF TakePage, TakeSentinel, service, cursors
  <2>2. \A t \in Slots : proc'[t].maxTs = proc[t].maxTs /\ proc'[t].since = proc[t].since
    BY <1>7, TakePageEffect, SentinelEffect DEF SameHoldings
  <2> QED
    BY <1>a, <2>1, <2>2
<1>8. ASSUME NEW s \in Slots, HandleRecord(s)
      PROVE  AttainedInv'
  <2>1. log' = log /\ mem' = mem /\ disk' = disk
    BY <1>8 DEF HandleRecord, service, cursors
  <2>2. /\ handled \subseteq handled'
        /\ handled' \subseteq Records
    BY <1>8, HandleEffect DEF IndexInv
  <2>3. Attained(mem)' /\ Attained(disk)'
    BY <2>1, <2>2 DEF Attained
  <2>4. (proc[s].maxTs > proc[s].since => Attained(proc[s].maxTs))'
    <3>1. CASE proc'[s].maxTs = proc[s].maxTs
      <4>1. proc'[s].since = proc[s].since
          BY <1>8, HandleEffect
      <4> QED
          BY <2>1, <2>2, <3>1, <4>1 DEF Attained
    <3>2. CASE proc'[s].maxTs # proc[s].maxTs
      <4>1. PICK i \in proc[s].hand : handled' = handled \cup {i} /\ proc'[s].maxTs = log[i].ts
          BY <1>8, <3>2, HandleEffect DEF SameHoldings
      <4> QED
          BY <2>1, <4>1 DEF Attained
    <3> QED
        BY <3>1, <3>2
  <2>5. \A t \in Slots \ {s} : proc'[t] = proc[t]
    BY <1>8, HandleEffect
  <2>6. \A t \in Slots \ {s} : (proc[t].maxTs > proc[t].since => Attained(proc[t].maxTs))'
    BY <2>1, <2>2, <2>5 DEF Attained
  <2>7. (handled \subseteq Records)'
    BY <2>1, <2>2 DEF Records
  <2> QED
    BY <2>3, <2>4, <2>6, <2>7
<1>9. ASSUME NEW s \in Slots, EndPage(s)
      PROVE  AttainedInv'
  <2>1. log' = log /\ handled' = handled
    BY <1>9 DEF EndPage, service
  <2>2. \A t \in Slots : proc'[t].maxTs = proc[t].maxTs /\ proc'[t].since = proc[t].since
    BY <1>9, EndEffect DEF SameHoldings
  <2>3. \/ mem' = mem /\ disk' = disk
        \/ /\ proc[s].maxTs > proc[s].since
           /\ mem' = proc[s].maxTs /\ disk' \in {disk, proc[s].maxTs}
    BY <1>9 DEF EndPage, cursors
  <2>4. Attained(mem') /\ Attained(disk')
    BY <2>3
  <2> QED
    BY <2>1, <2>2, <2>4 DEF Attained, Records
<1> QED
    BY <1>1, <1>2, <1>3, <1>4, <1>5, <1>6, <1>7, <1>8, <1>9 DEF Next, Processor

(* Neither the cursor in memory nor the one in the file is ever a stamp that
   no delivered record carries: not one past a record, nor the clock. *)
THEOREM CursorAttainedTheorem == Spec => []CursorAttained
<1>1. AttainedInv => CursorAttained
    BY DEF AttainedInv, Attained, CursorAttained
<1>2. Init => TypeOK /\ IndexInv /\ AttainedInv
    BY TypeInit, IndexInit, AttainedInit
<1>3. TypeOK /\ IndexInv /\ AttainedInv /\ [Next]_vars
        => (TypeOK /\ IndexInv /\ AttainedInv)'
    BY TypeStep, IndexStep, AttainedStep
<1> QED
    BY <1>1, <1>2, <1>3, PTL DEF Spec

-----------------------------------------------------------------------------
(* The cursor of a poll is never ahead of its queue. *)

LEMMA AheadInit == Init => AheadInv
<1> SUFFICES ASSUME Init
             PROVE  AheadInv
    OBVIOUS
<1>1. \A s \in Slots : OrderInv(s)
    BY DEF Init, OrderInv, FreeProc
<1> QED
    BY <1>1 DEF Init, AheadInv, FetchOrderInv

LEMMA OrderKept ==
    ASSUME IndexInv, NEW s \in Slots, OrderInv(s), SameHoldings(s),
           \A i \in Records : log'[i] = log[i]
    PROVE  OrderInv(s)'
BY DEF OrderInv, SameHoldings, IndexInv

LEMMA FetchOrderKept ==
    ASSUME FetchOrderInv, log' = log, live' = live,
           loop' = "fetching" => loop = "fetching",
           cur' = cur, searchFrom' = searchFrom,
           proc'[cur].since = proc[cur].since,
           \A j \in Results(proc[cur].since) :
               UpTo(cur, log[j].ts) => UpTo(cur, log[j].ts)'
    PROVE  FetchOrderInv'
<1>1. \A since : Results(since)' = Results(since)
    BY DEF Results
<1>2. \A since, i : Rank(i, since)' = Rank(i, since)
    BY <1>1 DEF Rank
<1> QED
    BY <1>1, <1>2 DEF FetchOrderInv, UpTo

LEMMA AheadStep == IInv /\ AheadInv /\ [Next]_vars => AheadInv'
<1> SUFFICES ASSUME IInv, AheadInv, [Next]_vars
             PROVE  AheadInv'
    OBVIOUS
<1> USE DEF AheadInv
<1>a. TypeOK /\ IndexInv /\ LogInv
    BY DEF IInv
<1>b. ASSUME log' = log, live' = live, cur' = cur, searchFrom' = searchFrom,
             loop' = "fetching" => loop = "fetching",
             \A s \in Slots : SameHoldings(s)
      PROVE  AheadInv'
  <2>1. cur \in Slots
    BY <1>a DEF TypeOK
  <2>2. \A s \in Slots : OrderInv(s)'
    BY <1>a, <1>b, OrderKept
  <2>3. FetchOrderInv'
    BY <1>b, <2>1, FetchOrderKept DEF UpTo, SameHoldings
  <2> QED
    BY <2>2, <2>3
<1>1. CASE NewRecord
  <2>1. /\ \A i \in Records : log'[i] = log[i] /\ log[i].ts <= now
        /\ log'[Len(log) + 1].ts = now
        /\ \A i \in live' : i \in Records \/ i = Len(log) + 1
    BY <1>1, <1>a, NewRecordEffect DEF LogInv
  <2>2. proc' = proc /\ cur' = cur /\ loop' = loop /\ searchFrom' = searchFrom /\ cur \in Slots
    BY <1>1, <1>a DEF NewRecord, fetch, TypeOK
  <2>3. \A s \in Slots : OrderInv(s)'
    BY <1>a, <2>1, <2>2, OrderKept DEF SameHoldings
  <2>4. ASSUME loop = "fetching", NEW j \in Results(proc[cur].since)',
               Rank(j, proc[cur].since)' >= searchFrom
        PROVE  UpTo(cur, log[j].ts)'
    <3>1. CASE j \in Records
      <4>1. j \in Results(proc[cur].since)
          BY <1>a, <2>1, <2>2, <2>4, <3>1 DEF Results, LogInv
      <4>2. Rank(j, proc[cur].since)' = Rank(j, proc[cur].since)
        <5>1. PICK since : since = proc[cur].since
            OBVIOUS
        <5>2. {k \in Results(since)' : k < j} = {k \in Results(since) : k < j}
          <6>1. \A k \in Results(since)' : k < j => k \in Records
              BY <1>a, <1>1, <2>1, <3>1, NewRecordEffect, LogType DEF Results
          <6>2. \A k \in Records : k \in Results(since)' <=> k \in Results(since)
              BY <1>a, <1>1, <2>1, NewRecordEffect DEF Results, LogInv
          <6>3. \A k \in Results(since) : k \in Records
              BY <1>a DEF Results, IndexInv
          <6> QED
              BY <6>1, <6>2, <6>3
        <5> QED
            BY <2>2, <5>1, <5>2 DEF Rank
      <4>3. UpTo(cur, log[j].ts)
          BY <2>4, <4>1, <4>2 DEF FetchOrderInv
      <4> QED
          BY <1>a, <2>1, <2>2, <3>1, <4>3 DEF UpTo, IndexInv
    <3>2. CASE j \notin Records
      <4>1. log'[j].ts = now
          BY <2>1, <2>4, <3>2 DEF Results
      <4>2. proc[cur].maxTs <= now
          BY <2>2, <2>4 DEF IInv, FetchInv, ProcInv, CursorInv
      <4> QED
          BY <1>a, <2>1, <2>2, <4>1, <4>2 DEF UpTo, IndexInv
    <3> QED
        BY <3>1, <3>2
  <2>5. FetchOrderInv'
    BY <2>2, <2>4 DEF FetchOrderInv
  <2> QED
    BY <2>3, <2>5
<1>2. CASE StartPoll
  <2>1. log' = log /\ live' = live /\ loop' = "fetching" /\ searchFrom' = 0
    BY <1>2 DEF StartPoll, service
  <2>2. PICK c \in Slots : c = cur'
    BY <1>2 DEF StartPoll
  <2>n. Since \in Nat
    BY <1>a DEF Since, LookbackStart, TypeOK
  <2>3. PICK start \in Nat : start = Since
    BY <2>n
  <2>4. /\ \A t \in Slots \ {c} : proc'[t] = proc[t]
        /\ proc'[c].hand = {} /\ proc'[c].pages = <<>>
        /\ proc'[c].since = start /\ proc'[c].maxTs = start
    BY <1>2, <1>a, <2>2, <2>3, StartEffect DEF FreeProc
  <2>5. OrderInv(c)'
    BY <2>4 DEF OrderInv
  <2>6. \A t \in Slots \ {c} : OrderInv(t)'
    BY <1>a, <2>1, <2>4, OrderKept DEF SameHoldings
  <2>7. \A j \in Results(start)' : UpTo(c, log[j].ts)'
    BY <2>4 DEF UpTo, Results
  <2>8. FetchOrderInv'
    BY <2>2, <2>4, <2>7 DEF FetchOrderInv
  <2> QED
    BY <2>5, <2>6, <2>8
<1>3. CASE FetchPage
  <2>0. PICK since \in Nat : since = proc[cur].since
    BY <1>a, QueueType DEF TypeOK
  <2>p. PICK page \in SUBSET Nat : page = PageAt(since, searchFrom)
    BY <1>a, PageType
  <2>1. /\ log' = log /\ live' = live /\ loop = "fetching" /\ cur' = cur /\ cur \in Slots
        /\ searchFrom' = searchFrom + PageSize /\ searchFrom \in Nat
    BY <1>3, <1>a, FetchScalars DEF service, FetchPage, TypeOK
  <2>2. /\ \A t \in Slots \ {cur} : proc'[t] = proc[t]
        /\ proc'[cur].hand = proc[cur].hand
        /\ proc'[cur].since = proc[cur].since
        /\ proc'[cur].maxTs = proc[cur].maxTs
        /\ \A m \in 1 .. Len(proc[cur].pages) : proc'[cur].pages[m] = proc[cur].pages[m]
        /\ \/ page = {} /\ Len(proc'[cur].pages) = Len(proc[cur].pages)
           \/ /\ Len(proc'[cur].pages) = Len(proc[cur].pages) + 1
              /\ proc'[cur].pages[Len(proc[cur].pages) + 1] = page
    BY <1>3, <1>a, <2>0, <2>p, FetchEffect
  <2>3. PICK len \in Nat : len = Len(proc[cur].pages)
    BY <1>a, <2>1, QueueType
  <2>4. \A j \in page : /\ j \in Results(since)
                        /\ Rank(j, since) >= searchFrom
                        /\ Rank(j, since) < searchFrom + PageSize
    <3>1. ASSUME NEW j \in page
          PROVE  /\ j \in Results(since)
                 /\ Rank(j, since) >= searchFrom
                 /\ Rank(j, since) < searchFrom + PageSize
      <4>1. /\ j \in Results(since)
            /\ searchFrom <= Rank(j, since)
            /\ Rank(j, since) < Smaller(searchFrom + PageSize, Cap)
          BY <2>p, <3>1 DEF PageAt
      <4>2. Rank(j, since) \in Nat
          BY <1>a, RankType
      <4> QED
          BY <2>1, <4>1, <4>2 DEF Smaller
    <3> QED
        BY <3>1
  <2>5. \A j \in page : UpTo(cur, log[j].ts)
    BY <2>0, <2>1, <2>4 DEF FetchOrderInv
  <2>6. OrderInv(cur)'
    <3>1. ASSUME NEW n \in 1 .. Len(proc'[cur].pages), NEW j \in proc'[cur].pages[n]
          PROVE  /\ proc[cur].maxTs <= log[j].ts
                 /\ \A i \in proc[cur].hand : log[i].ts <= log[j].ts
                 /\ \A m \in 1 .. Len(proc'[cur].pages) :
                       m < n => \A i \in proc'[cur].pages[m] : log[i].ts <= log[j].ts
      <4>1. CASE n \in 1 .. len
        <5>1. \A m \in 1 .. Len(proc'[cur].pages) : m < n => m \in 1 .. len
            BY <2>2, <2>3, <4>1
        <5>2. j \in proc[cur].pages[n] /\ OrderInv(cur)
            BY <2>1, <2>2, <2>3, <3>1, <4>1
        <5> QED
            BY <2>2, <2>3, <4>1, <5>1, <5>2 DEF OrderInv
      <4>2. CASE n \notin 1 .. len
        <5>1. n = len + 1 /\ j \in page
            BY <2>2, <2>3, <3>1, <4>2
        <5>2. \A m \in 1 .. Len(proc'[cur].pages) : m < n => m \in 1 .. len
            BY <2>3, <5>1
        <5> QED
            BY <2>2, <2>3, <2>5, <5>1, <5>2 DEF UpTo
      <4> QED
          BY <4>1, <4>2
    <3>2. \A i \in proc[cur].hand : proc[cur].maxTs <= log[i].ts
        BY <2>1 DEF OrderInv
    <3> QED
        BY <2>1, <2>2, <3>1, <3>2 DEF OrderInv
  <2>7. \A t \in Slots \ {cur} : OrderInv(t)'
    BY <1>a, <2>1, <2>2, OrderKept DEF SameHoldings
  <2>8. ASSUME NEW j \in Results(since), Rank(j, since) >= searchFrom + PageSize
        PROVE  UpTo(cur, log[j].ts)'
    <3>1. Rank(j, since) \in Nat /\ j \in Records
        BY <1>a, RankType DEF Results, IndexInv
    <3>2. UpTo(cur, log[j].ts)
        BY <2>0, <2>1, <2>8, <3>1 DEF FetchOrderInv
    <3>3. \A i \in page : log[i].ts <= log[j].ts
      <4>1. SUFFICES ASSUME NEW i \in page
                     PROVE  log[i].ts <= log[j].ts
          OBVIOUS
      <4>2. i \in Records /\ Rank(i, since) \in Nat /\ Rank(i, since) < Rank(j, since)
        <5>1. Rank(i, since) \in Nat
            BY <1>a, RankType
        <5>2. i \in Records
            BY <1>a, <2>4, <4>1 DEF Results, IndexInv
        <5>3. Rank(i, since) < searchFrom + PageSize
            BY <2>4, <4>1
        <5> QED
            BY <2>1, <2>8, <3>1, <5>1, <5>2, <5>3
      <4>3. ~(j < i)
          BY <1>a, <3>1, <4>2, RankMonotone
      <4>4. i <= j
          BY <1>a, <3>1, <4>2, <4>3, LogType
      <4> QED
          BY <1>a, <3>1, <4>2, <4>4 DEF LogInv
    <3>4. \A n \in 1 .. Len(proc'[cur].pages) :
             n \in 1 .. len \/ (n = len + 1 /\ proc'[cur].pages[n] = page)
        BY <2>2, <2>3
    <3> QED
        BY <2>1, <2>2, <2>3, <3>2, <3>3, <3>4 DEF UpTo
  <2>9. FetchOrderInv'
    <3>1. Results(since)' = Results(since) /\ \A j : Rank(j, since)' = Rank(j, since)
        BY <2>1 DEF Results, Rank
    <3>2. proc'[cur'].since = since
        BY <2>0, <2>1, <2>2
    <3> QED
        BY <2>1, <2>8, <3>1, <3>2 DEF FetchOrderInv, UpTo
  <2> QED
    BY <2>1, <2>6, <2>7, <2>9
<1>4. CASE AttemptFails
    BY <1>4, <1>a, <1>b, AttemptScalars, AttemptEffect DEF service
<1>5. CASE Tick \/ FetchRaises \/ OtherStreamSaves \/ UNCHANGED vars
    BY <1>5, <1>b DEF Tick, FetchRaises, OtherStreamSaves, vars, service, fetch, SameHoldings
<1>6. CASE Joined \/ Restart
  <2>1. log' = log /\ live' = live /\ loop' = "idle"
    BY <1>6 DEF Joined, Restart, service
  <2>2. \A s \in Slots : proc'[s] = proc[s] \/ proc'[s] = FreeProc
    BY <1>6, <1>a DEF Joined, Restart, TypeOK
  <2>3. \A s \in Slots : OrderInv(s)'
    <3>1. ASSUME NEW s \in Slots, proc'[s] = proc[s]
          PROVE  OrderInv(s)'
        BY <1>a, <2>1, <3>1, OrderKept DEF SameHoldings
    <3>2. ASSUME NEW s \in Slots, proc'[s] = FreeProc
          PROVE  OrderInv(s)'
        BY <3>2 DEF OrderInv, FreeProc
    <3> QED
        BY <2>2, <3>1, <3>2
  <2> QED
    BY <2>1, <2>3 DEF FetchOrderInv
<1>7. ASSUME NEW s \in Slots, TakePage(s)
      PROVE  AheadInv'
  <2>1. /\ log' = log /\ live' = live /\ cur' = cur /\ searchFrom' = searchFrom /\ loop' = loop
        /\ cur \in Slots
    BY <1>7, <1>a DEF TakePage, service, fetch, TypeOK
  <2>2. /\ \A t \in Slots \ {s} : proc'[t] = proc[t]
        /\ proc'[s].since = proc[s].since
        /\ proc'[s].maxTs = proc[s].maxTs
        /\ Len(proc[s].pages) > 0
        /\ proc'[s].hand = proc[s].pages[1]
        /\ Len(proc'[s].pages) = Len(proc[s].pages) - 1
        /\ \A m \in 1 .. Len(proc'[s].pages) : proc'[s].pages[m] = proc[s].pages[m + 1]
    BY <1>7, <1>a, TakePageEffect
  <2>3. PICK len \in Nat : len = Len(proc'[s].pages) /\ len + 1 = Len(proc[s].pages)
    BY <1>a, <2>2, QueueType
  <2>4. /\ 1 \in 1 .. len + 1
        /\ \A m \in 1 .. len : m + 1 \in 1 .. len + 1 /\ 1 < m + 1
        /\ \A m, n \in 1 .. len : m < n => m + 1 < n + 1
    BY <2>3
  <2>5. OrderInv(s)'
    <3>1. \A i \in proc'[s].hand : proc'[s].maxTs <= log[i].ts
        BY <2>2, <2>3, <2>4 DEF OrderInv
    <3>2. ASSUME NEW n \in 1 .. len, NEW j \in proc'[s].pages[n]
          PROVE  /\ proc'[s].maxTs <= log[j].ts
                 /\ \A i \in proc'[s].hand : log[i].ts <= log[j].ts
                 /\ \A m \in 1 .. len :
                       m < n => \A i \in proc'[s].pages[m] : log[i].ts <= log[j].ts
      <4>1. j \in proc[s].pages[n + 1] /\ n + 1 \in 1 .. Len(proc[s].pages) /\ OrderInv(s)
          BY <2>2, <2>3, <2>4, <3>2
      <4>2. proc'[s].maxTs <= log[j].ts
          BY <2>2, <4>1 DEF OrderInv
      <4>3. \A i \in proc'[s].hand : log[i].ts <= log[j].ts
          BY <2>2, <2>3, <2>4, <3>2, <4>1 DEF OrderInv
      <4>4. ASSUME NEW m \in 1 .. len, m < n, NEW i \in proc'[s].pages[m]
            PROVE  log[i].ts <= log[j].ts
        <5>1. m + 1 \in 1 .. Len(proc[s].pages) /\ m + 1 < n + 1
            BY <2>3, <4>4
        <5>2. i \in proc[s].pages[m + 1]
            BY <2>2, <2>3, <4>4
        <5> QED
            BY <4>1, <5>1, <5>2 DEF OrderInv
      <4> QED
          BY <4>2, <4>3, <4>4
    <3> QED
        BY <2>1, <2>3, <3>1, <3>2 DEF OrderInv
  <2>6. \A t \in Slots \ {s} : OrderInv(t)'
    BY <1>a, <2>1, <2>2, OrderKept DEF SameHoldings
  <2>7. \A t : UpTo(cur, t) => UpTo(cur, t)'
    <3>1. CASE cur = s
        BY <2>1, <2>2, <2>3, <2>4, <3>1 DEF UpTo
    <3>2. CASE cur # s
        BY <2>1, <2>2, <3>2 DEF UpTo
    <3> QED
        BY <3>1, <3>2
  <2>8. FetchOrderInv'
    BY <2>1, <2>2, <2>7, FetchOrderKept DEF UpTo
  <2> QED
    BY <2>5, <2>6, <2>8
<1>8. ASSUME NEW s \in Slots, TakeSentinel(s) \/ EndPage(s)
      PROVE  AheadInv'
  <2>1. \A t \in Slots : SameHoldings(t)
    BY <1>8, <1>a, SentinelEffect, EndEffect DEF SameHoldings
  <2>2. log' = log /\ live' = live /\ cur' = cur /\ searchFrom' = searchFrom /\ loop' = loop
    BY <1>8 DEF TakeSentinel, EndPage, service, fetch
  <2> QED
    BY <1>b, <2>1, <2>2
<1>9. ASSUME NEW s \in Slots, HandleRecord(s)
      PROVE  AheadInv'
  <2>1. /\ log' = log /\ live' = live /\ cur' = cur /\ searchFrom' = searchFrom /\ loop' = loop
        /\ cur \in Slots
    BY <1>9, <1>a DEF HandleRecord, service, fetch, TypeOK
  <2>2. CASE SameHoldings(s)
    <3>1. \A t \in Slots : SameHoldings(t)
        BY <1>9, <1>a, <2>2, HandleEffect DEF SameHoldings
    <3> QED
        BY <1>b, <2>1, <3>1
  <2>3. CASE ~SameHoldings(s)
    <3>1. /\ \A t \in Slots \ {s} : proc'[t] = proc[t]
          /\ proc'[s].pages = proc[s].pages
          /\ proc'[s].since = proc[s].since
        BY <1>9, <1>a, HandleEffect
    <3>2. PICK k \in proc[s].hand :
            /\ \A j \in proc[s].hand : k <= j
            /\ proc'[s].hand = proc[s].hand \ {k}
            /\ \/ proc'[s].maxTs = proc[s].maxTs
               \/ proc'[s].maxTs = log[k].ts
        BY <1>9, <1>a, <2>3, HandleEffect
    <3>3. \A j \in proc[s].hand : log[k].ts <= log[j].ts
        BY <1>a, <3>2 DEF IndexInv, LogInv
    <3>4. OrderInv(s)'
        BY <2>1, <3>1, <3>2, <3>3 DEF OrderInv
    <3>5. \A t \in Slots \ {s} : OrderInv(t)'
        BY <1>a, <2>1, <3>1, OrderKept DEF SameHoldings
    <3>6. \A t : UpTo(cur, t) => UpTo(cur, t)'
      <4>1. CASE cur = s
          BY <2>1, <3>1, <3>2, <4>1 DEF UpTo
      <4>2. CASE cur # s
          BY <2>1, <3>1, <4>2 DEF UpTo
      <4> QED
          BY <4>1, <4>2
    <3>7. FetchOrderInv'
        BY <2>1, <3>1, <3>6, FetchOrderKept DEF UpTo
    <3> QED
        BY <3>4, <3>5, <3>7
  <2> QED
    BY <2>2, <2>3
<1> QED
    BY <1>1, <1>2, <1>3, <1>4, <1>5, <1>6, <1>7, <1>8, <1>9 DEF Next, Processor

(* A cursor saved in the middle of a poll is not ahead of the pages that are
   still queued, whatever other processors, failures and restarts do. *)
THEOREM QueueAheadTheorem == Spec => []QueueAhead
<1>1. TypeOK /\ IndexInv /\ AheadInv => QueueAhead
  <2> SUFFICES ASSUME TypeOK, IndexInv, AheadInv,
                      NEW s \in Slots, NEW n \in DOMAIN proc[s].pages,
                      NEW i \in proc[s].pages[n]
               PROVE  log[i].ts >= proc[s].maxTs
    BY DEF QueueAhead
  <2>1. n \in 1 .. Len(proc[s].pages)
    BY QueueType
  <2>2. proc[s].maxTs <= log[i].ts
    BY <2>1 DEF AheadInv, OrderInv
  <2>3. i \in Records
    BY <2>1 DEF IndexInv
  <2> QED
    BY <2>2, <2>3, LogType, QueueType
<1>2. IInv => TypeOK /\ IndexInv
    BY DEF IInv
<1> QED
    BY <1>1, <1>2, AheadInit, AheadStep, Invariance, PTL DEF Spec

-----------------------------------------------------------------------------
(* With one processor at a time the cursor and the deliveries go forwards. *)

LEMMA BehindInit == Init => BehindInv
BY DEF Init, BehindInv, FreeProc

LEMMA BehindStep ==
    ASSUME OneProcessor, TypeOK, IndexInv, AheadInv, BehindInv, [Next]_vars
    PROVE  BehindInv'
<1>a. ASSUME mem' = mem,
             \A s \in Slots : proc'[s].status # "free" =>
                 proc[s].status # "free" /\ proc'[s].maxTs = proc[s].maxTs
      PROVE  BehindInv'
    BY <1>a DEF BehindInv
<1>1. CASE NewRecord \/ Tick \/ FetchRaises \/ OtherStreamSaves \/ UNCHANGED vars
    BY <1>1, <1>a DEF NewRecord, Tick, FetchRaises, OtherStreamSaves, vars, cursors
<1>2. CASE StartPoll
  <2>1. PICK c \in Slots : c = cur'
    BY <1>2 DEF StartPoll
  <2>2. proc'[c].maxTs = Since /\ mem' = mem
    BY <1>2, <2>1, StartEffect DEF StartPoll, FreeProc, cursors
  <2>3. mem <= Since
    BY DEF Since, LookbackStart, TypeOK
  <2> QED
    BY <2>1, <2>2, <2>3 DEF BehindInv, OneProcessor
<1>3. CASE FetchPage
  <2>1. mem' = mem
    BY <1>3, FetchScalars DEF cursors
  <2>2. \A s \in Slots : proc'[s].status = proc[s].status /\ proc'[s].maxTs = proc[s].maxTs
    BY <1>3, FetchEffect DEF TypeOK
  <2> QED
    BY <1>a, <2>1, <2>2
<1>4. CASE AttemptFails
    BY <1>4, <1>a, AttemptScalars, AttemptEffect DEF SameHoldings, cursors
<1>5. CASE Joined \/ Restart
  <2>1. \A s \in Slots : proc'[s].status # "free" => proc'[s] = proc[s] /\ mem' = mem
    BY <1>5 DEF Joined, Restart, FreeProc, TypeOK, cursors
  <2> QED
    BY <2>1 DEF BehindInv
<1>6. ASSUME NEW s \in Slots, TakePage(s) \/ TakeSentinel(s)
      PROVE  BehindInv'
  <2>1. mem' = mem
    BY <1>6 DEF TakePage, TakeSentinel, cursors
  <2>2. \A t \in Slots : /\ proc'[t].maxTs = proc[t].maxTs
                         /\ proc'[t].status # "free" => proc[t].status # "free"
    BY <1>6, TakePageEffect, SentinelEffect DEF SameHoldings
  <2> QED
    BY <1>a, <2>1, <2>2
<1>7. ASSUME NEW s \in Slots, HandleRecord(s)
      PROVE  BehindInv'
  <2>1. mem' = mem /\ proc[s].status # "free" /\ mem \in Nat /\ proc[s].maxTs \in Nat
    BY <1>7, HandleEffect, QueueType DEF HandleRecord, cursors, TypeOK
  <2>2. \/ proc'[s].maxTs = proc[s].maxTs
        \/ \E i \in proc[s].hand : proc'[s].maxTs = log[i].ts /\ log[i].ts > proc[s].maxTs
    BY <1>7, HandleEffect DEF SameHoldings
  <2>3. \A i \in proc[s].hand : log[i].ts \in Nat
    BY LogType DEF IndexInv
  <2>4. mem <= proc'[s].maxTs
    BY <2>1, <2>2, <2>3 DEF BehindInv
  <2> QED
    BY <2>1, <2>4 DEF BehindInv, OneProcessor
<1>8. ASSUME NEW s \in Slots, EndPage(s)
      PROVE  BehindInv'
  <2>1. mem' \in {mem, proc[s].maxTs} /\ proc'[s].maxTs = proc[s].maxTs
    BY <1>8, EndEffect DEF SameHoldings
  <2>2. proc[s].status # "free" /\ proc[s].maxTs \in Nat
    BY <1>8, EndEffect, QueueType
  <2>3. mem' <= proc'[s].maxTs
    BY <2>1, <2>2 DEF BehindInv
  <2> QED
    BY <2>3 DEF BehindInv, OneProcessor
<1> QED
    BY <1>1, <1>2, <1>3, <1>4, <1>5, <1>6, <1>7, <1>8 DEF Next, Processor

(* What both theorems stand on. *)
LEMMA OneProcessorInvariance ==
    ASSUME OneProcessor
    PROVE  Spec => [](TypeOK /\ IndexInv /\ AheadInv /\ BehindInv)
<1>1. IInv => TypeOK /\ IndexInv
    BY DEF IInv
<1>2. TypeOK /\ IndexInv /\ AheadInv /\ BehindInv /\ [Next]_vars => BehindInv'
    BY BehindStep
<1> QED
    BY <1>1, <1>2, AheadInit, AheadStep, BehindInit, Invariance, PTL DEF Spec

(* As long as each poll joins its processor before the next one starts, the
   cursor in memory moves back at a restart only. *)
THEOREM CursorMonotoneTheorem ==
    ASSUME OneProcessor
    PROVE  Spec => CursorMonotone
<1>1. TypeOK /\ IndexInv /\ BehindInv /\ [Next]_vars => [crashes' = crashes => mem' >= mem]_vars
  <2> SUFFICES ASSUME TypeOK, IndexInv, BehindInv, Next, crashes' = crashes
               PROVE  mem' >= mem
    BY DEF vars
  <2>1. ASSUME NEW s \in Slots, EndPage(s)
        PROVE  mem' >= mem
    <3>1. mem' \in {mem, proc[s].maxTs} /\ proc[s].status # "free"
        BY <2>1, EndEffect
    <3>2. mem \in Nat /\ proc[s].maxTs \in Nat
        BY QueueType DEF TypeOK
    <3> QED
        BY <3>1, <3>2 DEF BehindInv
  <2>2. CASE Restart
    BY <2>2 DEF Restart, TypeOK
  <2>3. CASE ~Restart /\ \A s \in Slots : ~EndPage(s)
    <3>1. mem' = mem
        BY <2>3 DEF Next, Processor, Tick, NewRecord, StartPoll, FetchPage, AttemptFails,
                    FetchRaises, Joined, TakePage, TakeSentinel, HandleRecord,
                    OtherStreamSaves, cursors
    <3> QED
        BY <3>1 DEF TypeOK
  <2> QED
    BY <2>1, <2>2, <2>3
<1> QED
    BY <1>1, OneProcessorInvariance, PTL DEF Spec, CursorMonotone

(* As long as each poll joins its processor before the next one starts, no
   record older than the cursor is handed over again. *)
THEOREM NoRewindTheorem ==
    ASSUME OneProcessor
    PROVE  Spec => NoRewind
<1>1. TypeOK /\ IndexInv /\ AheadInv /\ BehindInv
        => \A s \in Slots :
              /\ proc[s].status = "handling" /\ proc'[s].hand # proc[s].hand
              /\ proc'[s].status = "handling"
              => \A i \in proc[s].hand \ proc'[s].hand : log[i].ts >= mem
  <2> SUFFICES ASSUME TypeOK, IndexInv, AheadInv, BehindInv,
                      NEW s \in Slots, proc[s].status = "handling", NEW i \in proc[s].hand
               PROVE  log[i].ts >= mem
    OBVIOUS
  <2>1. mem <= proc[s].maxTs /\ proc[s].maxTs <= log[i].ts
    BY DEF BehindInv, AheadInv, OrderInv
  <2>2. i \in Records
    BY DEF IndexInv
  <2>3. mem \in Nat /\ proc[s].maxTs \in Nat /\ log[i].ts \in Nat
    BY <2>2, LogType, QueueType DEF TypeOK
  <2> QED
    BY <2>1, <2>3
<1> QED
    BY <1>1, OneProcessorInvariance, PTL DEF NoRewind

-----------------------------------------------------------------------------
(* The stream implements the abstract feed. *)

LEMMA StampsOf ==
    ASSUME NEW L \in Seq([ts : Nat, kind : Kinds])
    PROVE  /\ [i \in 1 .. Len(L) |-> L[i].ts] \in Seq(Nat)
           /\ Len([i \in 1 .. Len(L) |-> L[i].ts]) = Len(L)
<1>1. Len(L) \in Nat
    BY LenProperties
<1>2. \A i \in 1 .. Len(L) : L[i] \in [ts : Nat, kind : Kinds]
    BY ElementOfSeq
<1>3. [i \in 1 .. Len(L) |-> L[i].ts] \in [1 .. Len(L) -> Nat]
    BY <1>2
<1> QED
    BY <1>1, <1>3

LEMMA StampsType ==
    ASSUME TypeOK
    PROVE  /\ Stamps \in Seq(Nat)
           /\ Len(Stamps) = Len(log)
           /\ Feed!Records = Records
           /\ \A i \in Records : Stamps[i] = log[i].ts
<1>1. Stamps \in Seq(Nat) /\ Len(Stamps) = Len(log)
    BY StampsOf DEF TypeOK, Stamps
<1> QED
    BY <1>1 DEF Stamps, Records, Feed!Records

LEMMA StampsAppend ==
    ASSUME TypeOK, TypeOK', NewRecord
    PROVE  Stamps' = Append(Stamps, now)
<1>1. Stamps \in Seq(Nat) /\ Len(Stamps) = Len(log) /\ Len(log) \in Nat
    BY StampsType, LogType
<1>2. /\ Len(log') = Len(log) + 1
      /\ \A i \in 1 .. Len(log) : log'[i] = log[i]
      /\ log'[Len(log) + 1].ts = now
    BY NewRecordEffect DEF Records
<1>3. Stamps' \in Seq(Nat) /\ Len(Stamps') = Len(log')
    BY StampsOf DEF TypeOK, Stamps
<1>4. now \in Nat
    BY DEF TypeOK
<1>5. /\ Append(Stamps, now) \in Seq(Nat)
      /\ Len(Append(Stamps, now)) = Len(log) + 1
      /\ \A i \in 1 .. Len(log) : Append(Stamps, now)[i] = Stamps[i]
      /\ Append(Stamps, now)[Len(log) + 1] = now
    BY <1>1, <1>4, AppendProperties
<1>6. ASSUME NEW i \in 1 .. Len(log) + 1
      PROVE  Stamps'[i] = Append(Stamps, now)[i]
  <2>1. Stamps'[i] = log'[i].ts
    BY <1>2 DEF Stamps
  <2>2. CASE i \in 1 .. Len(log)
    BY <1>2, <1>5, <2>1, <2>2 DEF Stamps
  <2>3. CASE i \notin 1 .. Len(log)
    <3>1. i = Len(log) + 1
        BY <1>1, <2>3
    <3> QED
        BY <1>2, <1>5, <2>1, <3>1
  <2> QED
    BY <2>2, <2>3
<1> QED
    BY <1>2, <1>3, <1>5, <1>6, SeqEqual

LEMMA FeedClear ==
    ASSUME TypeOK, LogInv, NEW c, Clear(c)
    PROVE  Feed!Clear(c)
BY StampsType DEF Clear, Feed!Clear, LogInv

LEMMA FeedInit == Init => Feed!Init
<1> SUFFICES ASSUME Init
             PROVE  Feed!Init
    OBVIOUS
<1>1. TypeOK
    BY TypeInit
<1>2. Stamps \in Seq(Nat) /\ Len(Stamps) = 0
    BY <1>1, StampsType DEF Init
<1>3. Stamps = <<>>
    BY <1>2, EmptySeq
<1> QED
    BY <1>3 DEF Init, Feed!Init

LEMMA FeedStep == IInv /\ IInv' /\ [Next]_vars => [Feed!Next]_(Feed!vars)
<1> SUFFICES ASSUME IInv, IInv', [Next]_vars
             PROVE  Feed!Next \/ UNCHANGED Feed!vars
    OBVIOUS
<1> USE DEF IInv
<1>1. CASE NewRecord
  <2>1. Stamps' = Append(Stamps, now)
    BY <1>1, StampsAppend
  <2>2. now \in 0 .. MaxTime /\ now >= mem /\ now >= disk
    BY DEF ClockInv, TypeOK
  <2>3. \A i \in Feed!Records : Stamps[i] <= now
    BY StampsType DEF LogInv
  <2>4. UNCHANGED <<base, mem, disk, handled>>
    BY <1>1 DEF NewRecord, cursors
  <2> QED
    BY <2>1, <2>2, <2>3, <2>4 DEF Feed!Next, Feed!Arrive
<1>2. ASSUME log' = log, NEW s \in Slots, HandleRecord(s)
      PROVE  Feed!Next \/ UNCHANGED Feed!vars
  <2>1. Stamps' = Stamps /\ UNCHANGED <<base, mem, disk>>
    BY <1>2 DEF HandleRecord, cursors, Stamps
  <2>2. handled' = handled \/ \E i \in Records : handled' = handled \cup {i}
    BY <1>2, HandleEffect DEF IndexInv
  <2> QED
    BY <2>1, <2>2, StampsType DEF Feed!Next, Feed!Deal, Feed!vars
<1>3. ASSUME log' = log, NEW s \in Slots, EndPage(s)
      PROVE  Feed!Next \/ UNCHANGED Feed!vars
  <2>1. Stamps' = Stamps /\ UNCHANGED <<base, handled>>
    BY <1>3 DEF EndPage, Stamps
  <2>2. CASE mem' = mem /\ disk' = disk
    BY <2>1, <2>2 DEF Feed!vars
  <2>3. CASE mem' = proc[s].maxTs /\ disk' \in {disk, proc[s].maxTs}
    <3>1. Clear(mem)'
        BY DEF NoGap
    <3>2. Clear(proc[s].maxTs)
        BY <1>3, <2>1, <2>3, <3>1 DEF Clear, EndPage, service
    <3>3. proc[s].maxTs \in 0 .. MaxTime
        BY <2>3 DEF ClockInv, TypeOK
    <3> QED
        BY <2>1, <2>3, <3>2, <3>3, FeedClear DEF Feed!Next, Feed!Advance
  <2> QED
    BY <1>3, <2>2, <2>3, EndEffect
<1>4. CASE log' = log /\ OtherStreamSaves
    BY <1>4 DEF OtherStreamSaves, Stamps, Feed!Next, Feed!Persist
<1>5. CASE log' = log /\ Restart
    BY <1>5 DEF Restart, Stamps, Feed!Next, Feed!Restart
<1>6. CASE log' = log /\ StartPoll
  <2>1. Stamps' = Stamps /\ UNCHANGED <<mem, disk, handled>>
    BY <1>6 DEF StartPoll, Stamps, cursors
  <2>2. \/ base' = base
        \/ mem = 0 /\ base' \in 0 .. MaxTime /\ base' >= base
    <3>1. base' = IF mem = 0 THEN LookbackStart ELSE base
        BY <1>6 DEF StartPoll
    <3>2. LookbackStart \in 0 .. MaxTime /\ LookbackStart >= base
        BY DEF LookbackStart, ClockInv, TypeOK
    <3> QED
        BY <3>1, <3>2
  <2> QED
    BY <2>1, <2>2 DEF Feed!Next, Feed!Rebase, Feed!vars
<1>7. CASE /\ log' = log
           /\ \/ Tick \/ FetchPage \/ AttemptFails \/ FetchRaises \/ Joined \/ UNCHANGED vars
              \/ \E s \in Slots : TakePage(s) \/ TakeSentinel(s)
    BY <1>7 DEF Tick, FetchPage, AttemptFails, FetchRaises, Joined, vars, TakePage,
                TakeSentinel, cursors, Stamps, Feed!vars
<1>8. log' = log \/ NewRecord
    BY DEF Next, vars, Processor, Tick, StartPoll, FetchPage, AttemptFails, FetchRaises,
           Joined, TakePage, TakeSentinel, HandleRecord, EndPage, OtherStreamSaves,
           Restart, service
<1> QED
    BY <1>1, <1>2, <1>3, <1>4, <1>5, <1>6, <1>7, <1>8 DEF Next, Processor

(* Every run of the stream is a run of the abstract feed: the cursors move
   only as CursorFeed's Advance, Persist and Restart allow. *)
THEOREM Implements == Spec => ImplementsFeed
<1>1. IInv /\ IInv' /\ [Next]_vars => [Feed!Next]_(Feed!vars)
    BY FeedStep
<1> QED
    BY <1>1, FeedInit, Invariance, PTL DEF Spec, ImplementsFeed, Feed!Spec
=============================================================================
