--------------------------- MODULE DeliveryProofs ---------------------------
(***************************************************************************)
(* Proofs about Delivery, for any size of the syslog queue and any number  *)
(* of records and process ends.                                            *)
(***************************************************************************)
EXTENDS Delivery, TLAPS

USE DeliveryAssumption

LEMMA QueuedEmpty == Queued(<<>>) = {}
BY DEF Queued

LEMMA QueuedAppend ==
    ASSUME NEW q \in Seq(0 .. MaxRecords), NEW i \in 0 .. MaxRecords
    PROVE  /\ Append(q, i) \in Seq(0 .. MaxRecords)
           /\ i # Sentinel => Queued(Append(q, i)) = Queued(q) \cup {i}
           /\ i = Sentinel => Queued(Append(q, i)) = Queued(q)
<1>1. \A n \in DOMAIN q : n \in DOMAIN Append(q, i) /\ Append(q, i)[n] = q[n]
    OBVIOUS
<1>2. Len(q) + 1 \in DOMAIN Append(q, i) /\ Append(q, i)[Len(q) + 1] = i
    OBVIOUS
<1>3. \A n \in DOMAIN Append(q, i) : n \in DOMAIN q \/ n = Len(q) + 1
    OBVIOUS
<1> QED
    BY <1>1, <1>2, <1>3 DEF Queued

LEMMA QueuedTail ==
    ASSUME NEW q \in Seq(0 .. MaxRecords), q # <<>>
    PROVE  /\ Head(q) \in 0 .. MaxRecords
           /\ Tail(q) \in Seq(0 .. MaxRecords)
           /\ Queued(q) = Queued(Tail(q)) \cup ({Head(q)} \ {Sentinel})
<1>1. \A n \in DOMAIN Tail(q) : n + 1 \in DOMAIN q /\ Tail(q)[n] = q[n + 1]
    OBVIOUS
<1>2. 1 \in DOMAIN q /\ Head(q) = q[1]
    OBVIOUS
<1>3. \A n \in DOMAIN q : n = 1 \/ (n - 1 \in DOMAIN Tail(q) /\ Tail(q)[n - 1] = q[n])
    OBVIOUS
<1>4. Queued(q) \subseteq Queued(Tail(q)) \cup ({Head(q)} \ {Sentinel})
    BY <1>2, <1>3 DEF Queued
<1>5. Queued(Tail(q)) \cup ({Head(q)} \ {Sentinel}) \subseteq Queued(q)
    BY <1>1, <1>2 DEF Queued
<1>6. Head(q) \in 0 .. MaxRecords /\ Tail(q) \in Seq(0 .. MaxRecords)
    OBVIOUS
<1> QED
    BY <1>4, <1>5, <1>6

LEMMA QueuedType ==
    ASSUME NEW q \in Seq(0 .. MaxRecords)
    PROVE  Queued(q) \subseteq Records
<1>1. \A n \in DOMAIN q : q[n] \in 0 .. MaxRecords
    OBVIOUS
<1> QED
    BY <1>1 DEF Queued, Records, Sentinel

LEMMA BeforeNothing == Before(0) = {} /\ Before(1) = {}
BY DEF Before, Records

LEMMA InitInv == Init => IInv
<1> SUFFICES ASSUME Init
             PROVE  IInv
    OBVIOUS
<1>1. lines \in Seq(0 .. MaxRecords) /\ messages \in Seq(0 .. MaxRecords)
    BY DEF Init
<1>a. /\ arrived \in 0 .. MaxRecords /\ next \in 0 .. (MaxRecords + 1)
      /\ mem \in 0 .. MaxRecords /\ disk \in 0 .. MaxRecords /\ ends \in Nat
    BY DEF Init
<1>2. TypeOK
    BY <1>1, <1>a DEF Init, TypeOK
<1>3. Traced /\ Before(next) = {}
    BY BeforeNothing DEF Init, Traced
<1> QED
    BY <1>2, <1>3 DEF Init, IInv, Alive

(* What a sink has had it keeps in one form or another while the process lives. *)
LEMMA Grown ==
    ASSUME IInv, Next, ~Kill, ~Exit
    PROVE  InFile \subseteq InFile' /\ InSyslog \subseteq InSyslog'
<1> USE DEF IInv, TypeOK
<1>1. CASE Log
  <2>1. next \in 0 .. MaxRecords
      BY <1>1 DEF Log
  <2> QED
      BY <1>1, <2>1, QueuedAppend DEF Log, InFile, InSyslog, syslog
<1>2. CASE Send
  <2>1. next \in 0 .. MaxRecords
      BY <1>2 DEF Send
  <2>2. UNCHANGED <<lines, written, unwritten, lostLines, sent, lostMessages>>
      BY <1>2 DEF Send, fileLog, exit
  <2>3. \/ messages' = Append(messages, next) /\ unsent' = unsent
        \/ messages' = messages /\ unsent' = unsent \cup {next}
      BY <1>2 DEF Send
  <2>4. Queued(messages) \subseteq Queued(messages)' /\ unsent \subseteq unsent'
      BY <2>1, <2>3, QueuedAppend
  <2> QED
      BY <2>2, <2>4 DEF InFile, InSyslog
<1>3. CASE Listen
    BY <1>3, QueuedTail DEF Listen, InFile, InSyslog, syslog, exit
<1>4. CASE Work
    BY <1>4, QueuedTail DEF Work, InFile, InSyslog, fileLog, exit
<1>5. CASE PutSentinel
    BY <1>5, QueuedAppend DEF PutSentinel, InFile, InSyslog, fileLog, Sentinel
<1>6. CASE StopListener
    BY <1>6, QueuedAppend DEF StopListener, InFile, InSyslog, syslog, Sentinel
<1>7. CASE Arrive \/ StartPoll \/ EndPage \/ EndPoll \/ OtherStreamSaves \/ Interrupt \/ Restart
  <2>1. UNCHANGED <<lines, written, unwritten, lostLines, messages, sent, unsent, lostMessages>>
      BY <1>7 DEF Arrive, StartPoll, EndPage, EndPoll, OtherStreamSaves, Interrupt, Restart,
                  fileLog, syslog, exit
  <2> QED
      BY <2>1 DEF InFile, InSyslog
<1> QED
    BY <1>1, <1>2, <1>3, <1>4, <1>5, <1>6, <1>7 DEF Next

LEMMA StepType == IInv /\ [Next]_vars => TypeOK'
<1> SUFFICES ASSUME IInv, [Next]_vars
             PROVE  TypeOK'
    OBVIOUS
<1> USE DEF IInv, TypeOK
<1>1. CASE Arrive
    BY <1>1 DEF Arrive, cursors, fileLog, syslog, exit
<1>2. CASE StartPoll
    BY <1>2 DEF StartPoll, From, cursors, fileLog, syslog, exit
<1>3. CASE Log
  <2>1. next \in Records
      BY <1>3 DEF Log, Records
  <2> QED
      BY <1>3, <2>1, QueuedAppend DEF Log, Records, cursors, syslog
<1>4. CASE Send
  <2>1. next \in Records
      BY <1>4 DEF Send, Records
  <2>2. \/ messages' = Append(messages, next) /\ unsent' = unsent
        \/ messages' = messages /\ unsent' = unsent \cup {next}
      BY <1>4 DEF Send
  <2>3. messages' \in Seq(0 .. MaxRecords) /\ unsent' \in SUBSET Records
    <3>1. next \in 0 .. MaxRecords
        BY <2>1 DEF Records
    <3>2. messages' \in Seq(0 .. MaxRecords)
        BY <3>1, <2>2, QueuedAppend
    <3>3. unsent' \in SUBSET Records
        BY <2>1, <2>2
    <3> QED
        BY <3>2, <3>3
  <2>4. next' = next + 1 /\ half' = FALSE
      BY <1>4 DEF Send
  <2>5. next' \in 0 .. (MaxRecords + 1)
      BY <2>1, <2>4 DEF Records
  <2>6. UNCHANGED <<arrived, mem, disk, lines, listening, written, unwritten, working, sent,
                    main, late, lostLines, lostMessages, ends>>
      BY <1>4 DEF Send, cursors, fileLog, exit
  <2> QED
      BY <2>3, <2>4, <2>5, <2>6
<1>5. CASE EndPage
    BY <1>5 DEF EndPage, stream, fileLog, syslog, exit
<1>6. CASE EndPoll
    BY <1>6 DEF EndPoll, cursors, fileLog, syslog, exit
<1>7. CASE OtherStreamSaves
    BY <1>7, SMTT(30) DEF OtherStreamSaves, stream, fileLog, syslog, exit
<1>8. CASE Listen
  <2>1. lines' \in Seq(0 .. MaxRecords) /\ Head(lines) \in 0 .. MaxRecords
      BY <1>8, QueuedTail DEF Listen
  <2>2. written' \in SUBSET Records /\ unwritten' \in SUBSET Records
    <3>1. Head(lines) # Sentinel => Head(lines) \in Records
        BY <2>1 DEF Records, Sentinel
    <3> QED
        BY <1>8, <3>1 DEF Listen
  <2>3. listening' \in {listening, FALSE}
      BY <1>8 DEF Listen
  <2>4. UNCHANGED <<stream, cursors, syslog, exit>>
      BY <1>8 DEF Listen
  <2> QED
      BY <2>1, <2>2, <2>3, <2>4 DEF stream, cursors, syslog, exit
<1>9. CASE Work
  <2>1. messages' \in Seq(0 .. MaxRecords) /\ Head(messages) \in 0 .. MaxRecords
      BY <1>9, QueuedTail DEF Work
  <2>2. sent' \in SUBSET Records /\ unsent' \in SUBSET Records
    <3>1. Head(messages) # Sentinel => Head(messages) \in Records
        BY <2>1 DEF Records, Sentinel
    <3> QED
        BY <1>9, <3>1 DEF Work
  <2>3. working' \in {working, FALSE}
      BY <1>9 DEF Work
  <2>4. UNCHANGED <<stream, cursors, fileLog, exit>>
      BY <1>9 DEF Work
  <2> QED
      BY <2>1, <2>2, <2>3, <2>4 DEF stream, cursors, fileLog, exit
<1>10. CASE Kill \/ Exit
  <2>1. Queued(lines) \subseteq Records /\ Queued(messages) \subseteq Records
      BY QueuedType
  <2>2. <<>> \in Seq(0 .. MaxRecords)
      OBVIOUS
  <2>3. lostLines' \in SUBSET Records /\ lostMessages' \in SUBSET Records
      BY <1>10, <2>1 DEF Kill, Exit, Gone
  <2>4. /\ main' \in {"exited", "killed"} /\ lines' = <<>> /\ messages' = <<>>
        /\ next' = 0 /\ half' = FALSE /\ mem' = 0 /\ ends' = ends + 1
        /\ UNCHANGED <<arrived, disk, listening, written, unwritten, working, sent, unsent, late>>
      BY <1>10 DEF Kill, Exit, Gone
  <2>5. 0 \in 0 .. (MaxRecords + 1) /\ 0 \in 0 .. MaxRecords /\ ends + 1 \in Nat
      OBVIOUS
  <2> QED
      BY <2>2, <2>3, <2>4, <2>5
<1>11. CASE Interrupt
    BY <1>11 DEF Interrupt, stream, cursors, fileLog, syslog
<1>12. CASE PutSentinel
    BY <1>12, QueuedAppend DEF PutSentinel, Sentinel, stream, cursors, fileLog
<1>13. CASE StopListener
    BY <1>13, QueuedAppend DEF StopListener, Sentinel, stream, cursors, syslog
<1>14. CASE Restart
    BY <1>14 DEF Restart, stream
<1>15. CASE UNCHANGED vars
    BY <1>15 DEF vars, stream, cursors, fileLog, syslog, exit
<1> QED
    BY <1>1, <1>2, <1>3, <1>4, <1>5, <1>6, <1>7, <1>8, <1>9, <1>10, <1>11, <1>12, <1>13, <1>14,
       <1>15 DEF Next

LEMMA BeforeSmaller ==
    ASSUME NEW c \in Nat, NEW d \in Nat, c <= d
    PROVE  Before(c) \subseteq Before(d)
BY DEF Before, Records

LEMMA BeforeNext ==
    ASSUME NEW c \in Nat
    PROVE  Before(c + 1) \subseteq Before(c) \cup {c}
BY DEF Before, Records

(* The two sinks hold every record that the pending part of the poll and the
   cursors rest on, before and after a step in which the process lives. *)
LEMMA StepTraced ==
    ASSUME IInv, Next, ~Kill, ~Exit
    PROVE  Traced' /\ (Before(next) \subseteq InFile \cap InSyslog)'
<1> DEFINE Held(c) == Before(c) \subseteq InFile' \cap InSyslog'
<1>t. /\ mem \in Nat /\ disk \in Nat /\ next \in Nat
      /\ half \in BOOLEAN
    BY DEF IInv, TypeOK
<1>1. Held(mem) /\ Held(disk) /\ Held(next) /\ Held(0) /\ Held(1)
    BY Grown, BeforeNothing DEF IInv, Traced
<1>2. SUFFICES Held(mem') /\ Held(disk') /\ Held(next')
    BY DEF Traced, Before
<1>3. CASE StartPoll
  <2>1. next' \in {1, mem} /\ mem' = mem /\ disk' = disk
      BY <1>3 DEF StartPoll, From, cursors
  <2> QED
      BY <1>1, <2>1
<1>4. CASE Send
  <2>1. next' = next + 1 /\ mem' = mem /\ disk' = disk
      BY <1>4 DEF Send, cursors
  <2>2. next \in InFile' /\ half
      BY <1>4, Grown DEF Send, IInv
  <2>3. next \in InSyslog'
    <3>1. next \in 0 .. MaxRecords /\ next # Sentinel
        BY <2>2 DEF IInv, TypeOK, Sentinel
    <3>2. messages' = Append(messages, next) \/ unsent' = unsent \cup {next}
        BY <1>4 DEF Send
    <3>3. messages \in Seq(0 .. MaxRecords)
        BY DEF IInv, TypeOK
    <3> QED
        BY <3>1, <3>2, <3>3, QueuedAppend DEF InSyslog
  <2> QED
      BY <1>t, <1>1, <2>1, <2>2, <2>3, BeforeNext
<1>5. CASE EndPage
  <2>1. /\ next' = next /\ mem' = next - 1 /\ disk' \in {disk, next - 1} /\ next - 1 \in Nat
      BY <1>5, <1>t DEF EndPage, stream
  <2>2. Held(next - 1)
      BY <1>t, <1>1, <2>1, BeforeSmaller
  <2> QED
      BY <1>1, <2>1, <2>2
<1>6. CASE EndPoll
    BY <1>1, <1>6 DEF EndPoll, cursors
<1>7. CASE OtherStreamSaves
    BY <1>1, <1>7 DEF OtherStreamSaves, stream
<1>8. CASE Restart
    BY <1>1, <1>8 DEF Restart, stream
<1>9. CASE Arrive \/ Log \/ Listen \/ Work \/ Interrupt \/ PutSentinel \/ StopListener
    BY <1>1, <1>9 DEF Arrive, Log, Listen, Work, Interrupt, PutSentinel, StopListener, stream, cursors
<1> QED
    BY <1>3, <1>4, <1>5, <1>6, <1>7, <1>8, <1>9 DEF Next

LEMMA StepInv == IInv /\ [Next]_vars => IInv'
<1> SUFFICES ASSUME IInv, [Next]_vars
             PROVE  IInv'
    OBVIOUS
<1>t. TypeOK'
    BY StepType
<1>1. CASE UNCHANGED vars
    BY <1>t, <1>1 DEF IInv, TypeOK, Traced, InFile, InSyslog, Before, Alive,
                      vars, stream, cursors, fileLog, syslog, exit
<1>2. CASE Kill \/ Exit
  <2>1. /\ main' \in {"exited", "killed"} /\ lines' = <<>> /\ messages' = <<>>
        /\ next' = 0 /\ half' = FALSE /\ mem' = 0
        /\ lostLines' = lostLines \cup {i \in Queued(lines) : i < disk}
        /\ lostMessages' = lostMessages \cup {i \in Queued(messages) : i < disk}
        /\ UNCHANGED <<arrived, disk, written, unwritten, sent, unsent>>
      BY <1>2 DEF Kill, Exit, Gone
  <2>2. Before(disk)' \subseteq InFile' \cap InSyslog'
    <3> SUFFICES ASSUME NEW i \in Records, i < disk
                 PROVE  i \in InFile' /\ i \in InSyslog'
        BY <2>1 DEF Before
    <3>1. i \in InFile /\ i \in InSyslog
        BY DEF IInv, Traced, Before
    <3> QED
        BY <2>1, <3>1 DEF InFile, InSyslog
  <2>3. Before(mem)' = {} /\ Before(next)' = {}
      BY <2>1, BeforeNothing DEF Before
  <2>4. next' <= arrived' + 1 /\ mem' <= arrived' /\ disk' <= arrived'
      BY <2>1 DEF IInv, TypeOK
  <2> QED
      BY <1>t, <2>1, <2>2, <2>3, <2>4 DEF IInv, Traced
<1>3. CASE Next /\ ~Kill /\ ~Exit
  <2>1. Traced' /\ (Before(next) \subseteq InFile \cap InSyslog)'
      BY <1>3, StepTraced
  <2>2. InFile \subseteq InFile'
      BY <1>3, Grown
  <2>t. arrived \in Nat /\ next \in Nat /\ mem \in Nat /\ disk \in Nat
      BY DEF IInv, TypeOK
  <2>3. (half => next \in 1 .. arrived /\ next \in InFile)'
    <3>1. CASE Log
      <4>1. next' = next /\ arrived' = arrived /\ next \in 1 .. arrived /\ lines' = Append(lines, next)
          BY <3>1, <2>t DEF Log
      <4>2. next \in 0 .. MaxRecords /\ next # Sentinel /\ lines \in Seq(0 .. MaxRecords)
          BY <4>1 DEF IInv, TypeOK, Sentinel
      <4>3. next \in Queued(lines')
          BY <4>1, <4>2, QueuedAppend
      <4> QED
          BY <4>1, <4>3 DEF InFile
    <3>2. CASE Send
        BY <3>2 DEF Send
    <3>3. CASE ~Log /\ ~Send
      <4>1. ~half' \/ (half /\ next' = next /\ arrived' \in {arrived, arrived + 1})
        <5>1. CASE Restart
            BY <5>1 DEF Restart, stream, IInv
        <5>2. CASE StartPoll
            BY <5>2 DEF StartPoll, IInv
        <5> QED
            BY <1>3, <3>3, <5>1, <5>2 DEF Next, Arrive, EndPage, EndPoll, OtherStreamSaves,
                Listen, Work, Interrupt, PutSentinel, StopListener, stream
      <4> QED
          BY <4>1, <2>2, <2>t DEF IInv
    <3> QED
        BY <3>1, <3>2, <3>3
  <2>4. (~Alive => next = 0 /\ ~half)'
    <3>1. CASE Alive
      <4>1. Alive'
          BY <1>3, <3>1 DEF Next, Alive, Arrive, StartPoll, Log, Send, EndPage, EndPoll,
              OtherStreamSaves, Listen, Work, Interrupt, PutSentinel, StopListener, Restart, exit
      <4> QED
          BY <4>1
    <3>2. CASE ~Alive
      <4>1. next = 0 /\ ~half
          BY <3>2 DEF IInv
      <4>2. next' = next /\ half' = half
          BY <1>3, <3>2 DEF Next, Alive, Arrive, StartPoll, Log, Send, EndPage, EndPoll,
              OtherStreamSaves, Listen, Work, Interrupt, PutSentinel, StopListener, Restart, stream
      <4> QED
          BY <4>1, <4>2
    <3> QED
        BY <3>1, <3>2
  <2>5. next' <= arrived' + 1 /\ mem' <= arrived' /\ disk' <= arrived'
    <3>1. CASE StartPoll
        BY <3>1, <2>t DEF StartPoll, From, cursors, IInv
    <3>2. CASE Send
        BY <3>2, <2>t DEF Send, cursors, IInv
    <3>3. CASE EndPage
        BY <3>3, <2>t DEF EndPage, stream, IInv
    <3>4. CASE OtherStreamSaves \/ Restart
        BY <3>4, <2>t DEF OtherStreamSaves, Restart, stream, IInv
    <3>5. CASE Arrive \/ Log \/ EndPoll \/ Listen \/ Work \/ Interrupt \/ PutSentinel \/ StopListener
      <4>1. /\ next' \in {next, 0} /\ mem' = mem /\ disk' = disk
            /\ arrived' \in {arrived, arrived + 1}
          BY <3>5 DEF Arrive, Log, EndPoll, Listen, Work, Interrupt, PutSentinel, StopListener,
                      stream, cursors
      <4>2. next <= arrived + 1 /\ mem <= arrived /\ disk <= arrived
          BY DEF IInv
      <4>3. next' <= next /\ arrived <= arrived' /\ next' \in Nat /\ arrived' \in Nat
          BY <4>1, <2>t
      <4>4. next' <= arrived' + 1
        <5>1. \A a, b, c, d \in Nat : a <= b /\ b <= c + 1 /\ c <= d => a <= d + 1
            OBVIOUS
        <5> QED
            BY <4>2, <4>3, <2>t, <5>1
      <4>5. mem' <= arrived' /\ disk' <= arrived'
          BY <4>1, <4>2, <4>3, <2>t
      <4> QED
          BY <4>4, <4>5
    <3> QED
        BY <1>3, <3>1, <3>2, <3>3, <3>4, <3>5 DEF Next
  <2> QED
      BY <1>t, <2>1, <2>3, <2>4, <2>5 DEF IInv
<1> QED
    BY <1>1, <1>2, <1>3

(* At no time, whatever was queued when a process ended, is a record before a
   cursor without a trace at one of the sinks. *)
THEOREM Invariance == Spec => []IInv
<1> QED
    BY InitInv, StepInv, PTL DEF Spec

(* The part of it that a reader asks for: no cursor is past a record that
   neither sink knows of (_record_processor, save_state, the exit hooks). *)
THEOREM TracedTheorem == Spec => []Traced
<1>1. IInv => Traced
    BY DEF IInv
<1> QED
    BY <1>1, Invariance, PTL

-----------------------------------------------------------------------------
(* The exit with its hooks. *)

(* What is behind the listener's sentinel was logged late. *)
ExitInv ==
    /\ main \in {"running", "putting", "waiting"} =>
          listening /\ \A n \in DOMAIN lines : lines[n] # Sentinel
    /\ main = "stopping" /\ listening =>
          \E k \in DOMAIN lines :
              /\ lines[k] = Sentinel
              /\ \A n \in DOMAIN lines : n < k => lines[n] # Sentinel
              /\ \A n \in DOMAIN lines : k < n => lines[n] \in late
    /\ main = "stopping" /\ ~listening => \A n \in DOMAIN lines : lines[n] \in late
    /\ main \in {"exited", "killed"} => lines = <<>>

LEMMA ExitInitInv == Init => ExitInv
BY DEF Init, ExitInv

LEMMA ExitStepInv == IInv /\ ExitInv /\ [Next]_vars => ExitInv'
<1> SUFFICES ASSUME IInv, ExitInv, [Next]_vars
             PROVE  ExitInv'
    OBVIOUS
<1>t. /\ lines \in Seq(0 .. MaxRecords) /\ listening \in BOOLEAN
      /\ next \in 0 .. (MaxRecords + 1) /\ arrived \in 0 .. MaxRecords
    BY DEF IInv, TypeOK
<1>1. CASE Log
  <2>1. /\ next \in 0 .. MaxRecords /\ next # Sentinel
        /\ lines' = Append(lines, next) /\ UNCHANGED <<listening, main>>
        /\ main = "stopping" => late' = late \cup {next}
        /\ Alive
      BY <1>1, <1>t DEF Log, Sentinel
  <2>2. /\ \A n \in DOMAIN lines : n \in DOMAIN lines' /\ lines'[n] = lines[n]
        /\ \A n \in DOMAIN lines' : n \in DOMAIN lines \/ lines'[n] = next
        /\ \A n \in DOMAIN lines' : n \in DOMAIN lines \/ \A m \in DOMAIN lines : m < n
      BY <1>t, <2>1
  <2>3. CASE main = "stopping" /\ listening
    <3>1. PICK k \in DOMAIN lines :
              /\ lines[k] = Sentinel
              /\ \A n \in DOMAIN lines : n < k => lines[n] # Sentinel
              /\ \A n \in DOMAIN lines : k < n => lines[n] \in late
        BY <2>3 DEF ExitInv
    <3>2. /\ k \in DOMAIN lines' /\ lines'[k] = Sentinel
          /\ \A n \in DOMAIN lines' : n < k => lines'[n] # Sentinel
          /\ \A n \in DOMAIN lines' : k < n => lines'[n] \in late'
        BY <2>1, <2>2, <2>3, <3>1
    <3> QED
        BY <2>1, <2>3, <3>2 DEF ExitInv
  <2>4. CASE main = "stopping" /\ ~listening
      BY <2>1, <2>2, <2>4 DEF ExitInv
  <2>5. CASE main # "stopping"
      BY <2>1, <2>2, <2>5 DEF ExitInv, Alive
  <2> QED
      BY <2>3, <2>4, <2>5
<1>2. CASE Listen
  <2>1. /\ Alive /\ listening /\ lines # <<>> /\ lines' = Tail(lines)
        /\ UNCHANGED <<main, late>>
      BY <1>2 DEF Listen, exit
  <2>a. Head(lines) = Sentinel => ~listening'
      BY <1>2 DEF Listen
  <2>b. Head(lines) # Sentinel => listening'
      BY <1>2 DEF Listen
  <2>2. /\ \A n \in DOMAIN lines' : n + 1 \in DOMAIN lines /\ lines'[n] = lines[n + 1]
        /\ \A n \in DOMAIN lines : n = 1 \/ (n - 1 \in DOMAIN lines' /\ lines'[n - 1] = lines[n])
        /\ 1 \in DOMAIN lines /\ Head(lines) = lines[1]
        /\ \A n \in DOMAIN lines : n \in Nat /\ 1 <= n
        /\ \A n \in DOMAIN lines' : n \in Nat /\ 1 <= n
      BY <1>t, <2>1
  <2>3. CASE main = "stopping"
    <3>1. PICK k \in DOMAIN lines :
              /\ lines[k] = Sentinel
              /\ \A n \in DOMAIN lines : n < k => lines[n] # Sentinel
              /\ \A n \in DOMAIN lines : k < n => lines[n] \in late
        BY <2>1, <2>3 DEF ExitInv
    <3>2. CASE Head(lines) = Sentinel
      <4>1. k = 1
          BY <2>2, <3>1, <3>2
      <4>2. \A n \in DOMAIN lines' : lines'[n] \in late'
          BY <2>1, <2>2, <3>1, <4>1
      <4> QED
          BY <2>1, <2>a, <2>3, <3>2, <4>2 DEF ExitInv
    <3>3. CASE Head(lines) # Sentinel
      <4>1. k - 1 \in DOMAIN lines' /\ lines'[k - 1] = Sentinel
          BY <2>2, <3>1, <3>3
      <4>2. \A n \in DOMAIN lines' : n < k - 1 => lines'[n] # Sentinel
          BY <2>2, <3>1
      <4>3. \A n \in DOMAIN lines' : k - 1 < n => lines'[n] \in late'
          BY <2>1, <2>2, <3>1
      <4> QED
          BY <2>1, <2>b, <2>3, <3>3, <4>1, <4>2, <4>3 DEF ExitInv
    <3> QED
        BY <3>2, <3>3
  <2>4. CASE main # "stopping"
    <3>1. main \in {"running", "putting", "waiting"}
        BY <2>1, <2>4 DEF Alive, IInv, TypeOK
    <3>2. \A n \in DOMAIN lines : lines[n] # Sentinel
        BY <3>1 DEF ExitInv
    <3>3. listening'
        BY <2>b, <2>2, <3>2
    <3> QED
        BY <2>1, <2>2, <3>1, <3>2, <3>3 DEF ExitInv
  <2> QED
      BY <2>3, <2>4
<1>3. CASE Kill \/ Exit
  <2>1. main' \in {"exited", "killed"} /\ lines' = <<>>
      BY <1>3 DEF Kill, Exit, Gone
  <2> QED
      BY <2>1 DEF ExitInv
<1>4. CASE StopListener
  <2>1. /\ main = "waiting" /\ main' = "stopping" /\ lines' = Append(lines, Sentinel)
        /\ listening' = listening
      BY <1>4 DEF StopListener
  <2>2. Len(lines) + 1 \in DOMAIN lines' /\ lines'[Len(lines) + 1] = Sentinel
      BY <1>t, <2>1 DEF Sentinel
  <2>3. /\ \A n \in DOMAIN lines' : n < Len(lines) + 1 => n \in DOMAIN lines /\ lines'[n] = lines[n]
        /\ \A n \in DOMAIN lines' : ~ (Len(lines) + 1 < n)
      BY <1>t, <2>1 DEF Sentinel
  <2>4. listening /\ \A n \in DOMAIN lines : lines[n] # Sentinel
      BY <2>1 DEF ExitInv
  <2> QED
      BY <2>1, <2>2, <2>3, <2>4 DEF ExitInv
<1>5. CASE Restart
  <2>1. ~Alive /\ main' = "running" /\ lines' = lines /\ listening' = TRUE
      BY <1>5 DEF Restart
  <2>2. lines = <<>>
      BY <2>1 DEF ExitInv, Alive
  <2> QED
      BY <2>1, <2>2 DEF ExitInv
<1>6. CASE Interrupt \/ PutSentinel
  <2>1. /\ main \in {"running", "putting"} /\ main' \in {"putting", "waiting"}
        /\ UNCHANGED <<lines, listening>>
      BY <1>6 DEF Interrupt, PutSentinel, fileLog
  <2> QED
      BY <2>1 DEF ExitInv
<1>7. CASE \/ Arrive \/ StartPoll \/ Send \/ EndPage \/ EndPoll \/ OtherStreamSaves \/ Work
           \/ UNCHANGED vars
  <2>1. UNCHANGED <<lines, listening, main, late>>
      BY <1>7 DEF Arrive, StartPoll, Send, EndPage, EndPoll, OtherStreamSaves, Work, vars,
                  fileLog, exit
  <2> QED
      BY <2>1 DEF ExitInv
<1> QED
    BY <1>1, <1>2, <1>3, <1>4, <1>5, <1>6, <1>7 DEF Next

(* An exit with its hooks loses of the log file at most what daemon threads
   logged after the listener's sentinel (_stop_all_listeners). *)
THEOREM CleanExitTheorem == Spec => CleanExit
<1>1. ExitInv /\ [Next]_vars => [main' = "exited" /\ main # "exited" => lostLines' \subseteq lostLines \cup late]_vars
  <2> SUFFICES ASSUME ExitInv, Next, main' = "exited", main # "exited"
               PROVE  lostLines' \subseteq lostLines \cup late
      OBVIOUS
  <2>1. Exit
      BY DEF Next, Arrive, StartPoll, Log, Send, EndPage, EndPoll, OtherStreamSaves, Listen, Work,
             Kill, Gone, Interrupt, PutSentinel, StopListener, Restart, exit
  <2>2. /\ main = "stopping" /\ ~listening
        /\ lostLines' = lostLines \cup {i \in Queued(lines) : i < disk}
      BY <2>1 DEF Exit, Gone
  <2>3. Queued(lines) \subseteq late
      BY <2>2 DEF ExitInv, Queued
  <2> QED
      BY <2>2, <2>3
<1> QED
    BY <1>1, ExitInitInv, ExitStepInv, Invariance, PTL DEF Spec, CleanExit

-----------------------------------------------------------------------------
(* Each sink implements Outbox. *)

LEMMA QueuedShrinks ==
    ASSUME NEW q \in Seq(0 .. MaxRecords), q # <<>>, Head(q) # Sentinel
    PROVE  /\ Head(q) \in Queued(q)
           /\ Queued(Tail(q)) \in {Queued(q), Queued(q) \ {Head(q)}}
<1>1. Queued(q) = Queued(Tail(q)) \cup {Head(q)}
    BY QueuedTail
<1>2. CASE Head(q) \in Queued(Tail(q))
    BY <1>1, <1>2
<1>3. CASE Head(q) \notin Queued(Tail(q))
    BY <1>1, <1>3
<1> QED
    BY <1>1, <1>2, <1>3

(* A saved cursor leaves no untraced record behind, in terms of Outbox. *)
LEMMA SaveClear ==
    ASSUME IInv, EndPage \/ OtherStreamSaves
    PROVE  /\ disk' \in Records \cup {0}
           /\ \A i \in Records : i < disk' => i \in InFile /\ i \in InSyslog
           /\ UNCHANGED <<lines, written, unwritten, lostLines, messages, sent, unsent, lostMessages>>
<1>1. UNCHANGED <<lines, written, unwritten, lostLines, messages, sent, unsent, lostMessages>>
    BY DEF EndPage, OtherStreamSaves, fileLog, syslog, exit
<1>2. Next /\ ~Kill /\ ~Exit
  <2>1. UNCHANGED main /\ Alive
      BY DEF EndPage, OtherStreamSaves, exit
  <2> QED
      BY <2>1 DEF Next, Kill, Exit, Gone, Alive
<1>3. disk' \in 0 .. MaxRecords
    BY <1>2, StepType DEF TypeOK
<1>4. disk' \in Records \cup {0}
    BY <1>3 DEF Records
<1>5. \A i \in Records : i < disk' => i \in InFile' /\ i \in InSyslog'
    BY <1>2, StepTraced DEF Traced, Before
<1> QED
    BY <1>1, <1>4, <1>5 DEF InFile, InSyslog

LEMMA FileStep == IInv /\ [Next]_vars => [FileOutbox!Next]_(FileOutbox!vars)
<1> SUFFICES ASSUME IInv, [Next]_vars
             PROVE  FileOutbox!Next \/ UNCHANGED FileOutbox!vars
    OBVIOUS
<1>t. /\ lines \in Seq(0 .. MaxRecords)
      /\ next \in 0 .. (MaxRecords + 1) /\ arrived \in 0 .. MaxRecords
    BY DEF IInv, TypeOK
<1>1. CASE Log
  <2>1. /\ next \in Records /\ next \in 0 .. MaxRecords /\ next # Sentinel
        /\ lines' = Append(lines, next) /\ UNCHANGED <<disk, written, unwritten, lostLines>>
      BY <1>1, <1>t DEF Log, Records, Sentinel, cursors
  <2>2. Queued(lines)' = Queued(lines) \cup {next}
      BY <1>t, <2>1, QueuedAppend
  <2>3. FileOutbox!Accept
      BY <2>1, <2>2 DEF FileOutbox!Accept
  <2> QED
      BY <2>3 DEF FileOutbox!Next
<1>2. CASE Listen
  <2>1. lines # <<>> /\ lines' = Tail(lines) /\ UNCHANGED <<disk, lostLines>>
      BY <1>2 DEF Listen, cursors, exit
  <2>2. CASE Head(lines) = Sentinel
    <3>1. UNCHANGED <<written, unwritten>>
        BY <1>2, <2>2 DEF Listen
    <3>2. Queued(lines)' = Queued(lines)
        BY <1>t, <2>1, <2>2, QueuedTail
    <3> QED
        BY <2>1, <3>1, <3>2 DEF FileOutbox!vars
  <2>3. CASE Head(lines) # Sentinel
    <3>1. Head(lines) \in Queued(lines) /\ Queued(lines)' \in {Queued(lines), Queued(lines) \ {Head(lines)}}
        BY <1>t, <2>1, <2>3, QueuedShrinks
    <3>2. \/ written' = written \cup {Head(lines)} /\ unwritten' = unwritten
          \/ unwritten' = unwritten \cup {Head(lines)} /\ written' = written
        BY <1>2, <2>3 DEF Listen
    <3>3. \/ written' = written \cup {Head(lines)} /\ (unwritten \cup lostLines)' = unwritten \cup lostLines
          \/ (unwritten \cup lostLines)' = unwritten \cup lostLines \cup {Head(lines)} /\ written' = written
        BY <2>1, <3>2
    <3>4. FileOutbox!Finish
        BY <2>1, <3>1, <3>3 DEF FileOutbox!Finish
    <3> QED
        BY <3>4 DEF FileOutbox!Next
  <2> QED
      BY <2>2, <2>3
<1>3. CASE EndPage \/ OtherStreamSaves
    BY <1>3, SaveClear DEF FileOutbox!Next, FileOutbox!Save, InFile
<1>4. CASE Kill \/ Exit
  <2>1. /\ lines' = <<>> /\ lostLines' = lostLines \cup {i \in Queued(lines) : i < disk}
        /\ UNCHANGED <<disk, written, unwritten>>
      BY <1>4 DEF Kill, Exit, Gone
  <2>2. FileOutbox!End
      BY <2>1, QueuedEmpty DEF FileOutbox!End
  <2> QED
      BY <2>2 DEF FileOutbox!Next
<1>5. CASE StopListener
  <2>1. lines' = Append(lines, Sentinel) /\ UNCHANGED <<disk, written, unwritten, lostLines>>
      BY <1>5 DEF StopListener, cursors
  <2>2. Queued(lines)' = Queued(lines)
      BY <1>t, <2>1, QueuedAppend DEF Sentinel
  <2> QED
      BY <2>1, <2>2 DEF FileOutbox!vars
<1>6. CASE \/ Arrive \/ StartPoll \/ Send \/ EndPoll \/ Work \/ Interrupt \/ PutSentinel \/ Restart
           \/ UNCHANGED vars
  <2>1. UNCHANGED <<disk, lines, written, unwritten, lostLines>>
      BY <1>6 DEF Arrive, StartPoll, Send, EndPoll, Work, Interrupt, PutSentinel, Restart, vars,
                  cursors, fileLog, exit
  <2> QED
      BY <2>1 DEF FileOutbox!vars
<1> QED
    BY <1>1, <1>2, <1>3, <1>4, <1>5, <1>6 DEF Next

LEMMA SyslogStep == IInv /\ [Next]_vars => [SyslogOutbox!Next]_(SyslogOutbox!vars)
<1> SUFFICES ASSUME IInv, [Next]_vars
             PROVE  SyslogOutbox!Next \/ UNCHANGED SyslogOutbox!vars
    OBVIOUS
<1>t. /\ messages \in Seq(0 .. MaxRecords)
      /\ half => next \in 1 .. arrived
      /\ arrived \in 0 .. MaxRecords
    BY DEF IInv, TypeOK
<1>1. CASE Send
  <2>1. /\ next \in Records /\ next \in 0 .. MaxRecords /\ next # Sentinel
        /\ UNCHANGED <<disk, sent, lostMessages>>
      BY <1>1, <1>t DEF Send, Records, Sentinel, cursors, exit
  <2>2. CASE messages' = Append(messages, next) /\ unsent' = unsent
    <3>1. Queued(messages)' = Queued(messages) \cup {next}
        BY <1>t, <2>1, <2>2, QueuedAppend
    <3>2. SyslogOutbox!Accept
        BY <2>1, <2>2, <3>1 DEF SyslogOutbox!Accept
    <3> QED
        BY <3>2 DEF SyslogOutbox!Next
  <2>3. CASE messages' = messages /\ unsent' = unsent \cup {next}
    <3>1. (unsent \cup lostMessages)' = unsent \cup lostMessages \cup {next}
        BY <2>1, <2>3
    <3>2. SyslogOutbox!TurnAway
        BY <2>1, <2>3, <3>1 DEF SyslogOutbox!TurnAway
    <3> QED
        BY <3>2 DEF SyslogOutbox!Next
  <2> QED
      BY <1>1, <2>2, <2>3 DEF Send
<1>2. CASE Work
  <2>1. messages # <<>> /\ messages' = Tail(messages) /\ UNCHANGED <<disk, lostMessages>>
      BY <1>2 DEF Work, cursors, exit
  <2>2. CASE Head(messages) = Sentinel
    <3>1. UNCHANGED <<sent, unsent>>
        BY <1>2, <2>2 DEF Work
    <3>2. Queued(messages)' = Queued(messages)
        BY <1>t, <2>1, <2>2, QueuedTail
    <3> QED
        BY <2>1, <3>1, <3>2 DEF SyslogOutbox!vars
  <2>3. CASE Head(messages) # Sentinel
    <3>1. /\ Head(messages) \in Queued(messages)
          /\ Queued(messages)' \in {Queued(messages), Queued(messages) \ {Head(messages)}}
        BY <1>t, <2>1, <2>3, QueuedShrinks
    <3>2. \/ sent' = sent \cup {Head(messages)} /\ unsent' = unsent
          \/ unsent' = unsent \cup {Head(messages)} /\ sent' = sent
        BY <1>2, <2>3 DEF Work
    <3>3. \/ sent' = sent \cup {Head(messages)} /\ (unsent \cup lostMessages)' = unsent \cup lostMessages
          \/ (unsent \cup lostMessages)' = unsent \cup lostMessages \cup {Head(messages)} /\ sent' = sent
        BY <2>1, <3>2
    <3>4. SyslogOutbox!Finish
        BY <2>1, <3>1, <3>3 DEF SyslogOutbox!Finish
    <3> QED
        BY <3>4 DEF SyslogOutbox!Next
  <2> QED
      BY <2>2, <2>3
<1>3. CASE EndPage \/ OtherStreamSaves
    BY <1>3, SaveClear DEF SyslogOutbox!Next, SyslogOutbox!Save, InSyslog
<1>4. CASE Kill \/ Exit
  <2>1. /\ messages' = <<>> /\ lostMessages' = lostMessages \cup {i \in Queued(messages) : i < disk}
        /\ UNCHANGED <<disk, sent, unsent>>
      BY <1>4 DEF Kill, Exit, Gone
  <2>2. SyslogOutbox!End
      BY <2>1, QueuedEmpty DEF SyslogOutbox!End
  <2> QED
      BY <2>2 DEF SyslogOutbox!Next
<1>5. CASE PutSentinel
  <2>1. messages' = Append(messages, Sentinel) /\ UNCHANGED <<disk, sent, unsent, lostMessages>>
      BY <1>5 DEF PutSentinel, cursors
  <2>2. Queued(messages)' = Queued(messages)
      BY <1>t, <2>1, QueuedAppend DEF Sentinel
  <2> QED
      BY <2>1, <2>2 DEF SyslogOutbox!vars
<1>6. CASE \/ Arrive \/ StartPoll \/ Log \/ EndPoll \/ Listen \/ Interrupt \/ StopListener \/ Restart
           \/ UNCHANGED vars
  <2>1. UNCHANGED <<disk, messages, sent, unsent, lostMessages>>
      BY <1>6 DEF Arrive, StartPoll, Log, EndPoll, Listen, Interrupt, StopListener, Restart, vars,
                  cursors, syslog, exit
  <2> QED
      BY <2>1 DEF SyslogOutbox!vars
<1> QED
    BY <1>1, <1>2, <1>3, <1>4, <1>5, <1>6 DEF Next

(* Log file and syslog each implement Outbox, for any queue size and any number
   of process ends: the cursor is saved while records are in memory, and still
   none is lost but those that were there when a process ended. *)
THEOREM Implements == Spec => ImplementsOutboxes
<1>1. Init => FileOutbox!Init /\ SyslogOutbox!Init
    BY QueuedEmpty DEF Init, FileOutbox!Init, SyslogOutbox!Init
<1> QED
    BY <1>1, FileStep, SyslogStep, Invariance, PTL
       DEF Spec, ImplementsOutboxes, FileOutbox!Spec, SyslogOutbox!Spec
=============================================================================
