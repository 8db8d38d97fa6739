------------------------- MODULE SyslogSenderProofs -------------------------
(***************************************************************************)
(* Proofs about SyslogSender, for both transports, every queue size, every *)
(* capacity of a connection and any number of messages and connections.    *)
(***************************************************************************)
EXTENDS SyslogSenderInv, SequenceTheorems, TLAPS

USE SyslogAssumption

Conn == [wire : Seq(Nat), read : Seq(Nat), up : BOOLEAN]

-----------------------------------------------------------------------------
(* Increasing sequences of numbers. *)

LEMMA IncreasingAppend ==
    ASSUME NEW s \in Seq(Nat), NEW e \in Nat, Increasing(s),
           \A n \in DOMAIN s : s[n] < e
    PROVE  Increasing(Append(s, e))
<1>1. /\ Append(s, e) \in Seq(Nat)
      /\ Len(Append(s, e)) = Len(s) + 1
      /\ \A i \in 1 .. Len(s) : Append(s, e)[i] = s[i]
      /\ Append(s, e)[Len(s) + 1] = e
    BY AppendProperties
<1>2. /\ Len(s) \in Nat /\ DOMAIN s = 1 .. Len(s)
      /\ DOMAIN Append(s, e) = 1 .. Len(s) + 1
    BY <1>1, LenProperties
<1> HIDE DEF Increasing
<1>3. SUFFICES ASSUME NEW m \in 1 .. Len(s) + 1, NEW n \in 1 .. Len(s) + 1, m < n
               PROVE  Append(s, e)[m] < Append(s, e)[n]
    BY <1>2 DEF Increasing
<1>4. m \in 1 .. Len(s)
    BY <1>2, <1>3
<1>5. CASE n \in 1 .. Len(s)
    BY <1>1, <1>2, <1>3, <1>4, <1>5 DEF Increasing
<1>6. CASE n \notin 1 .. Len(s)
  <2>1. n = Len(s) + 1
    BY <1>2, <1>3, <1>6
  <2> QED
    BY <1>1, <1>2, <1>4, <2>1
<1> QED
    BY <1>5, <1>6

Elements(seq) == {seq[n] : n \in DOMAIN seq}

LEMMA AppendRange ==
    ASSUME NEW s \in Seq(Nat), NEW e \in Nat
    PROVE  /\ Append(s, e) \in Seq(Nat)
           /\ Elements(Append(s, e)) = Elements(s) \cup {e}
<1>1. /\ Append(s, e) \in Seq(Nat)
      /\ Len(Append(s, e)) = Len(s) + 1
      /\ \A i \in 1 .. Len(s) : Append(s, e)[i] = s[i]
      /\ Append(s, e)[Len(s) + 1] = e
    BY AppendProperties
<1>2. /\ Len(s) \in Nat /\ DOMAIN s = 1 .. Len(s)
      /\ DOMAIN Append(s, e) = 1 .. Len(s) + 1
    BY <1>1, LenProperties
<1>3. \A n \in 1 .. Len(s) + 1 : n \in 1 .. Len(s) \/ n = Len(s) + 1
    BY <1>2
<1>4. \A n \in 1 .. Len(s) : n \in 1 .. Len(s) + 1
    BY <1>2
<1>5. Len(s) + 1 \in 1 .. Len(s) + 1
    BY <1>2
<1> QED
    BY <1>1, <1>2, <1>3, <1>4, <1>5 DEF Elements

(* The head of an increasing sequence is before its tail. *)
LEMMA TailFacts ==
    ASSUME NEW s \in Seq(Nat), s # <<>>
    PROVE  /\ Head(s) \in Nat
           /\ Tail(s) \in Seq(Nat)
           /\ Elements(s) = {Head(s)} \cup Elements(Tail(s))
           /\ \A n \in DOMAIN Tail(s) : n + 1 \in DOMAIN s /\ 1 < n + 1 /\ Tail(s)[n] = s[n + 1]
           /\ 1 \in DOMAIN s /\ Head(s) = s[1]
           /\ Increasing(s) => /\ Increasing(Tail(s))
                               /\ \A n \in DOMAIN Tail(s) : Head(s) < Tail(s)[n]
<1>1. /\ Head(s) \in Nat
      /\ Tail(s) \in Seq(Nat)
      /\ Len(Tail(s)) = Len(s) - 1
      /\ \A i \in 1 .. Len(Tail(s)) : Tail(s)[i] = s[i + 1]
    BY HeadTailProperties
<1>2. /\ Len(s) \in Nat /\ Len(s) # 0 /\ DOMAIN s = 1 .. Len(s)
      /\ DOMAIN Tail(s) = 1 .. Len(s) - 1
    BY <1>1, LenProperties, EmptySeq
<1>3. Head(s) = s[1] /\ 1 \in DOMAIN s
    BY <1>2
<1>4. \A n \in DOMAIN Tail(s) : n + 1 \in DOMAIN s /\ 1 < n + 1 /\ Tail(s)[n] = s[n + 1]
    BY <1>1, <1>2
<1>5. \A n \in DOMAIN s : n = 1 \/ (n - 1 \in DOMAIN Tail(s) /\ s[n] = Tail(s)[n - 1])
    BY <1>1, <1>2
<1>6. Elements(s) = {Head(s)} \cup Elements(Tail(s))
  <2>1. \A n \in DOMAIN s : s[n] \in {Head(s)} \cup {Tail(s)[k] : k \in DOMAIN Tail(s)}
    BY <1>3, <1>5
  <2>2. \A n \in DOMAIN Tail(s) : Tail(s)[n] \in {s[k] : k \in DOMAIN s}
    BY <1>4
  <2>3. Head(s) \in {s[k] : k \in DOMAIN s}
    BY <1>3
  <2> QED
    BY <2>1, <2>2, <2>3 DEF Elements
<1>7. \A m, n \in DOMAIN Tail(s) : m < n => m + 1 < n + 1
    BY <1>2
<1>8. Increasing(s) => /\ Increasing(Tail(s))
                       /\ \A n \in DOMAIN Tail(s) : Head(s) < Tail(s)[n]
    BY <1>3, <1>4, <1>7 DEF Increasing
<1> QED
    BY <1>1, <1>3, <1>4, <1>6, <1>8

(* Two increasing sequences, one before the other, are one. *)
LEMMA IncreasingConcat ==
    ASSUME NEW s \in Seq(Nat), NEW t \in Seq(Nat), Increasing(s), Increasing(t),
           \A m \in DOMAIN s, n \in DOMAIN t : s[m] < t[n]
    PROVE  Increasing(s \o t)
<1>1. /\ s \o t \in Seq(Nat)
      /\ Len(s \o t) = Len(s) + Len(t)
      /\ \A i \in 1 .. Len(s) + Len(t) :
            (s \o t)[i] = IF i <= Len(s) THEN s[i] ELSE t[i - Len(s)]
    BY ConcatProperties
<1>2. /\ Len(s) \in Nat /\ Len(t) \in Nat
      /\ DOMAIN s = 1 .. Len(s) /\ DOMAIN t = 1 .. Len(t)
      /\ DOMAIN (s \o t) = 1 .. Len(s) + Len(t)
    BY <1>1, LenProperties
<1>3. SUFFICES ASSUME NEW m \in 1 .. Len(s) + Len(t), NEW n \in 1 .. Len(s) + Len(t), m < n
               PROVE  (s \o t)[m] < (s \o t)[n]
    BY <1>2 DEF Increasing
<1>4. CASE n <= Len(s)
  <2>1. m \in 1 .. Len(s) /\ n \in 1 .. Len(s) /\ m <= Len(s)
    BY <1>2, <1>3, <1>4
  <2>2. (s \o t)[m] = s[m] /\ (s \o t)[n] = s[n]
    BY <1>1, <1>4, <2>1
  <2> QED
    BY <1>2, <1>3, <2>1, <2>2 DEF Increasing
<1>5. CASE m <= Len(s) /\ ~(n <= Len(s))
  <2>1. m \in 1 .. Len(s) /\ n - Len(s) \in 1 .. Len(t)
    BY <1>2, <1>3, <1>5
  <2>2. (s \o t)[m] = s[m] /\ (s \o t)[n] = t[n - Len(s)]
    BY <1>1, <1>5
  <2> QED
    BY <1>2, <2>1, <2>2
<1>6. CASE ~(m <= Len(s))
  <2>1. /\ m - Len(s) \in 1 .. Len(t) /\ n - Len(s) \in 1 .. Len(t)
        /\ m - Len(s) < n - Len(s) /\ ~(n <= Len(s))
    BY <1>2, <1>3, <1>6
  <2>2. t[m - Len(s)] < t[n - Len(s)]
    BY <1>2, <2>1 DEF Increasing
  <2> QED
    BY <1>1, <1>6, <2>1, <2>2
<1> QED
    BY <1>2, <1>4, <1>5, <1>6

-----------------------------------------------------------------------------
(* Connections and what they carry. *)

LEMMA ConnType ==
    ASSUME TypeOK
    PROVE  /\ conns \in Seq(Conn)
           /\ Len(conns) \in Nat
           /\ DOMAIN conns = 1 .. Len(conns)
           /\ \A c \in DOMAIN conns :
                 /\ conns[c] \in Conn
                 /\ conns[c].wire \in Seq(Nat)
                 /\ conns[c].read \in Seq(Nat)
                 /\ OnWire(c) \in SUBSET Nat
                 /\ WasRead(c) \in SUBSET Nat
<1>1. conns \in Seq(Conn)
    BY DEF TypeOK, Conn
<1>2. Len(conns) \in Nat /\ DOMAIN conns = 1 .. Len(conns)
    BY <1>1, LenProperties
<1>3. \A c \in DOMAIN conns : conns[c] \in Conn
    BY <1>1, <1>2, ElementOfSeq
<1>4. ASSUME NEW c \in DOMAIN conns
      PROVE  /\ conns[c].wire \in Seq(Nat) /\ conns[c].read \in Seq(Nat)
             /\ OnWire(c) \in SUBSET Nat /\ WasRead(c) \in SUBSET Nat
  <2>1. conns[c].wire \in Seq(Nat) /\ conns[c].read \in Seq(Nat)
    BY <1>3 DEF Conn
  <2>2. \A s \in Seq(Nat) : \A n \in DOMAIN s : s[n] \in Nat
    BY LenProperties, ElementOfSeq
  <2> QED
    BY <2>1, <2>2 DEF OnWire, WasRead
<1> QED
    BY <1>1, <1>2, <1>3, <1>4

LEMMA NewConn ==
    ASSUME TypeOK, NEW conn \in Conn, conns' = Append(conns, conn)
    PROVE  /\ conns' \in Seq(Conn)
           /\ Len(conns') = Len(conns) + 1
           /\ DOMAIN conns' = DOMAIN conns \cup {Len(conns) + 1}
           /\ conns'[Len(conns) + 1] = conn
           /\ \A c \in DOMAIN conns : /\ c < Len(conns) + 1
                                      /\ conns'[c] = conns[c]
<1>1. /\ conns' \in Seq(Conn)
      /\ Len(conns') = Len(conns) + 1
      /\ \A i \in 1 .. Len(conns) : conns'[i] = conns[i]
      /\ conns'[Len(conns) + 1] = conn
    BY ConnType, AppendProperties
<1>2. DOMAIN conns' = 1 .. Len(conns) + 1
    BY <1>1, LenProperties
<1> QED
    BY <1>1, <1>2, ConnType

LEMMA OldConn ==
    ASSUME TypeOK, NEW k \in DOMAIN conns, NEW conn \in Conn,
           conns' = [conns EXCEPT ![k] = conn]
    PROVE  /\ conns' \in Seq(Conn)
           /\ Len(conns') = Len(conns)
           /\ DOMAIN conns' = DOMAIN conns
           /\ conns'[k] = conn
           /\ \A c \in DOMAIN conns \ {k} : conns'[c] = conns[c]
<1>1. /\ conns' \in Seq(Conn)
      /\ Len(conns') = Len(conns)
      /\ \A j \in 1 .. Len(conns) : conns'[j] = IF j = k THEN conn ELSE conns[j]
    BY ConnType, ExceptSeq
<1>2. DOMAIN conns' = 1 .. Len(conns)
    BY <1>1, LenProperties
<1> QED
    BY <1>1, <1>2, ConnType

(* Connection c keeps what it carries. *)
SameCarried(c) == OnWire(c)' = OnWire(c) /\ WasRead(c)' = WasRead(c)

LEMMA SendAllEffect ==
    ASSUME TypeOK, WorkerInv, SendAll
    PROVE  /\ sock \in DOMAIN conns /\ sock = Len(conns)
           /\ conns' \in Seq(Conn)
           /\ Len(conns') = Len(conns)
           /\ DOMAIN conns' = DOMAIN conns
           /\ conns'[sock].wire = Append(conns[sock].wire, hand)
           /\ conns'[sock].read = conns[sock].read
           /\ \A c \in DOMAIN conns \ {sock} : conns'[c] = conns[c]
<1> DEFINE wire == Append(conns[sock].wire, hand)
<1>1. sock \in DOMAIN conns /\ sock = Len(conns)
    BY ConnType DEF SendAll, WorkerInv, TypeOK
<1>2. conns[sock] \in Conn
    BY <1>1, ConnType
<1>3. wire \in Seq(Nat)
    BY <1>1, ConnType, AppendProperties DEF TypeOK
<1>4. conns' = [conns EXCEPT ![sock] = [conns[sock] EXCEPT !.wire = wire]]
    BY DEF SendAll
<1> HIDE DEF wire
<1>5. /\ [conns[sock] EXCEPT !.wire = wire] \in Conn
      /\ [conns[sock] EXCEPT !.wire = wire].wire = wire
      /\ [conns[sock] EXCEPT !.wire = wire].read = conns[sock].read
    BY <1>2, <1>3 DEF Conn
<1>6. /\ conns' \in Seq(Conn)
      /\ Len(conns') = Len(conns)
      /\ DOMAIN conns' = DOMAIN conns
      /\ conns'[sock] = [conns[sock] EXCEPT !.wire = wire]
      /\ \A c \in DOMAIN conns \ {sock} : conns'[c] = conns[c]
    BY <1>1, <1>4, <1>5, OldConn
<1> QED
    BY <1>1, <1>5, <1>6 DEF wire

(* What the network does to a connection. *)
LEMMA NetworkEffect ==
    ASSUME TypeOK, NEW k \in DOMAIN conns, Break(k) \/ Read(k) \/ Forget(k)
    PROVE  /\ conns' \in Seq(Conn)
           /\ Len(conns') = Len(conns)
           /\ DOMAIN conns' = DOMAIN conns
           /\ \A c \in DOMAIN conns \ {k} : conns'[c] = conns[c]
           /\ \/ /\ Break(k)
                 /\ conns'[k].wire = conns[k].wire
                 /\ conns'[k].read = conns[k].read
              \/ /\ Read(k)
                 /\ conns[k].wire # <<>>
                 /\ conns'[k].wire = Tail(conns[k].wire)
                 /\ conns'[k].read = Append(conns[k].read, Head(conns[k].wire))
              \/ /\ Forget(k)
                 /\ conns'[k].wire = <<>>
                 /\ conns'[k].read = conns[k].read
<1>1. conns[k] \in Conn /\ conns[k].wire \in Seq(Nat) /\ conns[k].read \in Seq(Nat)
    BY ConnType
<1>2. CASE Break(k)
  <2>1. conns' = [conns EXCEPT ![k] = [conns[k] EXCEPT !.up = FALSE]]
    BY <1>2 DEF Break
  <2>2. /\ [conns[k] EXCEPT !.up = FALSE] \in Conn
        /\ [conns[k] EXCEPT !.up = FALSE].wire = conns[k].wire
        /\ [conns[k] EXCEPT !.up = FALSE].read = conns[k].read
    BY <1>1 DEF Conn
  <2> QED
    BY <1>2, <2>1, <2>2, OldConn
<1>3. CASE Read(k)
  <2> DEFINE read == Append(conns[k].read, Head(conns[k].wire))
             wire == Tail(conns[k].wire)
             conn == [conns[k] EXCEPT !.read = read, !.wire = wire]
  <2>1. conns' = [conns EXCEPT ![k] = conn] /\ conns[k].wire # <<>>
    BY <1>3 DEF Read
  <2>2. Head(conns[k].wire) \in Nat /\ wire \in Seq(Nat)
    BY <1>1, <2>1, HeadTailProperties
  <2>3. read \in Seq(Nat)
    BY <1>1, <2>2, AppendProperties
  <2>4. conn \in Conn /\ conn.read = read /\ conn.wire = wire
    <3> HIDE DEF read, wire
    <3> QED
        BY <1>1, <2>2, <2>3 DEF Conn
  <2> HIDE DEF conn, read, wire
  <2>5. /\ conns' \in Seq(Conn) /\ Len(conns') = Len(conns) /\ DOMAIN conns' = DOMAIN conns
        /\ conns'[k] = conn
        /\ \A c \in DOMAIN conns \ {k} : conns'[c] = conns[c]
    BY <2>1, <2>4, OldConn
  <2> QED
    BY <1>3, <2>1, <2>4, <2>5 DEF read, wire
<1>4. CASE Forget(k)
  <2>1. conns' = [conns EXCEPT ![k] = [conns[k] EXCEPT !.wire = <<>>]]
    BY <1>4 DEF Forget
  <2>2. /\ [conns[k] EXCEPT !.wire = <<>>] \in Conn
        /\ [conns[k] EXCEPT !.wire = <<>>].wire = <<>>
        /\ [conns[k] EXCEPT !.wire = <<>>].read = conns[k].read
    <3>1. <<>> \in Seq(Nat)
        BY EmptySeq
    <3> QED
        BY <1>1, <3>1 DEF Conn
  <2> QED
    BY <1>4, <2>1, <2>2, OldConn
<1> QED
    BY <1>2, <1>3, <1>4

-----------------------------------------------------------------------------
(* Typing. *)

LEMMA TypeInit == Init => TypeOK
BY EmptySeq DEF Init, TypeOK

LEMMA QueueType ==
    ASSUME TypeOK
    PROVE  /\ queue \in Seq(Nat)
           /\ Len(queue) \in Nat
           /\ DOMAIN queue = 1 .. Len(queue)
           /\ \A n \in DOMAIN queue : queue[n] \in Nat
<1>1. queue \in Seq(Nat)
    BY DEF TypeOK
<1> QED
    BY <1>1, LenProperties, ElementOfSeq

LEMMA TypeStep == TypeOK /\ WorkerInv /\ [Next]_vars => TypeOK'
<1> SUFFICES ASSUME TypeOK, WorkerInv, [Next]_vars
             PROVE  TypeOK'
    OBVIOUS
<1>0. Len(conns) \in Nat /\ 0 \in 0 .. Len(conns)
    BY ConnType
<1>1. CASE SendSyslog
  <2>1. Append(queue, offered + 1) \in Seq(Nat)
    BY AppendProperties DEF TypeOK
  <2>2. offered' \in Nat
    BY <1>1 DEF SendSyslog, TypeOK
  <2>3. queue' \in Seq(Nat)
    BY <1>1, <2>1, QueueType DEF SendSyslog
  <2>4. refused' \in SUBSET Nat
    BY <1>1, <2>2 DEF SendSyslog, TypeOK
  <2> QED
    BY <1>1, <2>2, <2>3, <2>4 DEF SendSyslog, TypeOK
<1>2. CASE Take
  <2>1. Head(queue) \in Nat /\ Tail(queue) \in Seq(Nat)
    BY <1>2, QueueType, HeadTailProperties DEF Take
  <2> QED
    BY <1>2, <2>1 DEF Take, TypeOK
<1>3. CASE Connect
  <2> DEFINE conn == [wire |-> <<>>, read |-> <<>>, up |-> TRUE]
  <2>1. conn \in Conn
    BY EmptySeq DEF Conn
  <2>2. conns' = Append(conns, conn)
    BY <1>3 DEF Connect
  <2> HIDE DEF conn
  <2>3. conns' \in Seq(Conn) /\ Len(conns') = Len(conns) + 1
    BY <2>1, <2>2, NewConn
  <2>4. sock' \in 0 .. Len(conns')
    BY <1>0, <1>3, <2>3 DEF Connect
  <2> QED
    BY <1>3, <2>3, <2>4 DEF Connect, Conn, TypeOK
<1>4. CASE SendAll
  <2>1. conns' \in Seq(Conn) /\ Len(conns') = Len(conns)
    BY <1>4, SendAllEffect
  <2>2. sock' \in 0 .. Len(conns')
    BY <1>4, <2>1 DEF SendAll, TypeOK
  <2>3. conns' \in Seq([wire : Seq(Nat), read : Seq(Nat), up : BOOLEAN])
    BY <2>1 DEF Conn
  <2>4. hand' = 0 /\ worker' = "waiting" /\ UNCHANGED <<transport, offered, refused>>
        /\ UNCHANGED <<queue, attempt, lost, exit, last>>
    BY <1>4 DEF SendAll, NextItem
  <2> QED
    BY <2>2, <2>3, <2>4 DEF TypeOK
<1>5. CASE SendInVain \/ AttemptFails \/ SendRaises
  <2>1. lost' \in SUBSET Nat
    BY <1>5 DEF SendInVain, AttemptFails, SendRaises, TypeOK
  <2>2. hand' \in {0, hand} /\ worker' \in {"waiting", worker}
    BY <1>5 DEF SendInVain, AttemptFails, SendRaises, NextItem
  <2>3. attempt' \in {attempt, 2} /\ sock' \in {0, sock}
    BY <1>5 DEF SendInVain, AttemptFails, SendRaises
  <2>4. UNCHANGED <<transport, offered, refused, queue, conns, exit, last>>
    BY <1>5 DEF SendInVain, AttemptFails, SendRaises
  <2> QED
    BY <1>0, <2>1, <2>2, <2>3, <2>4 DEF TypeOK
<1>6. CASE SendUdp
  <2> DEFINE conn == [wire |-> <<hand>>, read |-> <<>>, up |-> FALSE]
  <2>1. conn \in Conn
    BY EmptySeq DEF Conn, TypeOK
  <2>2. conns' = conns \/ conns' = Append(conns, conn)
    BY <1>6 DEF SendUdp
  <2> HIDE DEF conn
  <2>3. conns' \in Seq(Conn) /\ Len(conns') \in {Len(conns), Len(conns) + 1}
    BY <2>1, <2>2, NewConn, ConnType
  <2>4. sock' \in 0 .. Len(conns')
    BY <1>0, <1>6, <2>3 DEF SendUdp, TypeOK
  <2> QED
    BY <1>6, <2>3, <2>4 DEF SendUdp, NextItem, Conn, TypeOK
<1>7. CASE BeginExit \/ Exit \/ UNCHANGED vars
    BY <1>7 DEF BeginExit, Exit, vars, TypeOK
<1>8. CASE PutSentinel
  <2>1. Append(queue, Sentinel) \in Seq(Nat)
    BY QueueType, AppendProperties DEF Sentinel
  <2> QED
    BY <1>8, <2>1 DEF PutSentinel, TypeOK
<1>9. ASSUME NEW k \in DOMAIN conns, Break(k) \/ Read(k) \/ Forget(k)
      PROVE  TypeOK'
  <2>1. conns' \in Seq(Conn) /\ Len(conns') = Len(conns)
    BY <1>9, NetworkEffect
  <2>2. OnWire(k) \in SUBSET Nat
    BY ConnType
  <2> QED
    BY <1>9, <2>1, <2>2 DEF Break, Read, Forget, Conn, TypeOK
<1> QED
    BY <1>1, <1>2, <1>3, <1>4, <1>5, <1>6, <1>7, <1>8, <1>9 DEF Next, Worker

-----------------------------------------------------------------------------
(* What the steps do to the places. *)

LEMMA HeldType == TypeOK => Held \subseteq Nat \ {0}
BY QueueType DEF Held, Queued, InHand, Sentinel, TypeOK

LEMMA OfferEffect ==
    ASSUME TypeOK, SendSyslog
    PROVE  /\ offered + 1 \notin Messages
           /\ Messages' = Messages \cup {offered + 1}
           /\ \/ Held' = Held \cup {offered + 1} /\ refused' = refused
              \/ Held' = Held /\ refused' = refused \cup {offered + 1}
<1>1. offered \in Nat /\ offered' = offered + 1 /\ hand' = hand
    BY DEF TypeOK, SendSyslog
<1>2. offered + 1 \notin Messages /\ Messages' = Messages \cup {offered + 1}
    BY <1>1 DEF Messages
<1>3. CASE Len(queue) < QueueSize
  <2>1. queue' = Append(queue, offered + 1) /\ refused' = refused
    BY <1>1, <1>3 DEF SendSyslog
  <2>2. Elements(queue') = Elements(queue) \cup {offered + 1}
    BY <1>1, <2>1, QueueType, AppendRange
  <2>3. offered + 1 # 0
    BY <1>1
  <2>4. Queued' = Queued \cup {offered + 1}
    BY <2>2, <2>3 DEF Elements, Queued, Sentinel
  <2> QED
    BY <1>1, <1>2, <2>1, <2>4 DEF Held, InHand
<1>4. CASE ~(Len(queue) < QueueSize)
  <2>1. queue' = queue /\ refused' = refused \cup {offered + 1}
    BY <1>1, <1>4 DEF SendSyslog
  <2> QED
    BY <1>1, <1>2, <2>1 DEF Held, InHand, Queued
<1> QED
    BY <1>3, <1>4

LEMMA TakeEffect ==
    ASSUME TypeOK, WorkerInv, Take
    PROVE  Held' = Held
<1>1. queue \in Seq(Nat) /\ queue # <<>> /\ queue' = Tail(queue) /\ hand = 0
    BY QueueType DEF TypeOK, WorkerInv, Take
<1>2. Elements(queue) = {Head(queue)} \cup Elements(queue')
    BY <1>1, TailFacts
<1>3. CASE Head(queue) = 0
    BY <1>1, <1>2, <1>3 DEF Take, Elements, Held, Queued, InHand, Sentinel
<1>4. CASE Head(queue) # 0
    BY <1>1, <1>2, <1>4 DEF Take, Elements, Held, Queued, InHand, Sentinel
<1> QED
    BY <1>3, <1>4

LEMMA SentinelEffect ==
    ASSUME TypeOK, PutSentinel
    PROVE  Held' = Held
<1>1. queue' = Append(queue, 0) /\ hand' = hand
    BY DEF PutSentinel, Sentinel
<1>2. Elements(queue') = Elements(queue) \cup {0}
    BY <1>1, QueueType, AppendRange
<1> QED
    BY <1>1, <1>2 DEF Elements, Held, Queued, InHand, Sentinel

(* The worker is done with a message: it was before all that are queued. *)
LEMMA HandEffect ==
    ASSUME TypeOK, WorkerInv, QueueInv, Sending, NextItem, queue' = queue
    PROVE  /\ hand \in Nat /\ hand \in Held
           /\ Held' = Held \ {hand}
           /\ \A m \in Held' : hand < m
<1>1. hand \in Nat /\ hand # 0 /\ hand' = 0
    BY DEF TypeOK, WorkerInv, Sending, NextItem
<1>2. \A m \in Queued : hand < m
    BY DEF Queued, QueueInv
<1>3. Queued' = Queued /\ InHand = {hand} /\ InHand' = {}
    BY <1>1 DEF Queued, InHand
<1>4. hand \notin Queued
    BY <1>1, <1>2
<1> QED
    BY <1>1, <1>2, <1>3, <1>4 DEF Held

LEMMA SameConn ==
    ASSUME NEW c, conns'[c] = conns[c]
    PROVE  SameCarried(c) /\ Carried(c)' = Carried(c)
<1>1. OnWire(c)' = OnWire(c)
    BY DEF OnWire
<1>2. WasRead(c)' = WasRead(c)
    BY DEF WasRead
<1> QED
    BY <1>1, <1>2 DEF SameCarried, Carried

(* A new connection carries what is written to it at once. *)
LEMMA NewCarried ==
    ASSUME TypeOK, NEW conn \in Conn, conns' = Append(conns, conn)
    PROVE  /\ \A c \in DOMAIN conns : SameCarried(c) /\ Carried(c)' = Carried(c)
           /\ \A c : c = Len(conns) + 1 =>
                 /\ OnWire(c)' = {conn.wire[n] : n \in DOMAIN conn.wire}
                 /\ WasRead(c)' = {conn.read[n] : n \in DOMAIN conn.read}
<1>1. \A c \in DOMAIN conns : SameCarried(c) /\ Carried(c)' = Carried(c)
    BY NewConn, SameConn
<1>2. ASSUME NEW c, c = Len(conns) + 1
      PROVE  /\ OnWire(c)' = {conn.wire[n] : n \in DOMAIN conn.wire}
             /\ WasRead(c)' = {conn.read[n] : n \in DOMAIN conn.read}
  <2>1. conns'[c] = conn
    BY <1>2, NewConn
  <2>2. OnWire(c)' = {conn.wire[n] : n \in DOMAIN conn.wire}
    BY <2>1 DEF OnWire
  <2>3. WasRead(c)' = {conn.read[n] : n \in DOMAIN conn.read}
    BY <2>1 DEF WasRead
  <2> QED
    BY <2>2, <2>3
<1> QED
    BY <1>1, <1>2

LEMMA SentCarried ==
    ASSUME TypeOK, WorkerInv, SendAll
    PROVE  /\ \A c \in DOMAIN conns \ {sock} : SameCarried(c) /\ Carried(c)' = Carried(c)
           /\ \A c \in DOMAIN conns : c = sock =>
                 /\ OnWire(c)' = OnWire(c) \cup {hand}
                 /\ WasRead(c)' = WasRead(c)
                 /\ Carried(c)' = Carried(c) \cup {hand}
<1>1. \A c \in DOMAIN conns \ {sock} : SameCarried(c) /\ Carried(c)' = Carried(c)
    BY SendAllEffect, SameConn
<1>2. ASSUME NEW c \in DOMAIN conns, c = sock
      PROVE  OnWire(c)' = OnWire(c) \cup {hand} /\ WasRead(c)' = WasRead(c)
  <2>1. conns'[c].wire = Append(conns[c].wire, hand) /\ conns'[c].read = conns[c].read
    BY <1>2, SendAllEffect
  <2>2. conns[c].wire \in Seq(Nat) /\ hand \in Nat
    BY ConnType DEF TypeOK
  <2>3. Elements(conns'[c].wire) = Elements(conns[c].wire) \cup {hand}
    BY <2>1, <2>2, AppendRange
  <2> QED
    BY <2>1, <2>3 DEF OnWire, WasRead, Elements
<1> QED
    BY <1>1, <1>2 DEF Carried

LEMMA NetworkCarried ==
    ASSUME TypeOK, NEW k \in DOMAIN conns, Break(k) \/ Read(k) \/ Forget(k)
    PROVE  /\ \A c \in DOMAIN conns \ {k} : SameCarried(c) /\ Carried(c)' = Carried(c)
           /\ \/ Break(k) /\ SameCarried(k) /\ Carried(k)' = Carried(k)
              \/ /\ Read(k)
                 /\ Head(conns[k].wire) \in OnWire(k)
                 /\ OnWire(k) = {Head(conns[k].wire)} \cup OnWire(k)'
                 /\ WasRead(k)' = WasRead(k) \cup {Head(conns[k].wire)}
                 /\ Carried(k)' = Carried(k)
              \/ /\ Forget(k)
                 /\ OnWire(k)' = {}
                 /\ WasRead(k)' = WasRead(k)
                 /\ Carried(k)' = WasRead(k)
<1>1. \A c \in DOMAIN conns \ {k} : SameCarried(c) /\ Carried(c)' = Carried(c)
    BY NetworkEffect, SameConn
<1>2. CASE /\ Break(k)
           /\ conns'[k].wire = conns[k].wire
           /\ conns'[k].read = conns[k].read
  <2>1. OnWire(k)' = OnWire(k)
    BY <1>2 DEF OnWire
  <2>2. WasRead(k)' = WasRead(k)
    BY <1>2 DEF WasRead
  <2> QED
    BY <1>1, <1>2, <2>1, <2>2 DEF SameCarried, Carried
<1>3. CASE /\ Read(k)
           /\ conns[k].wire # <<>>
           /\ conns'[k].wire = Tail(conns[k].wire)
           /\ conns'[k].read = Append(conns[k].read, Head(conns[k].wire))
  <2>1. conns[k].wire \in Seq(Nat) /\ conns[k].read \in Seq(Nat)
    BY ConnType
  <2>2. Head(conns[k].wire) \in Nat
    BY <1>3, <2>1, HeadTailProperties
  <2>3. OnWire(k) = {Head(conns[k].wire)} \cup OnWire(k)'
    <3>1. Elements(conns[k].wire) = {Head(conns[k].wire)} \cup Elements(conns'[k].wire)
        BY <1>3, <2>1, TailFacts
    <3> QED
        BY <3>1 DEF OnWire, Elements
  <2>4. WasRead(k)' = WasRead(k) \cup {Head(conns[k].wire)}
    <3>1. Elements(conns'[k].read) = Elements(conns[k].read) \cup {Head(conns[k].wire)}
        BY <1>3, <2>1, <2>2, AppendRange
    <3> QED
        BY <3>1 DEF WasRead, Elements
  <2> QED
    BY <1>1, <1>3, <2>3, <2>4 DEF Carried
<1>4. CASE /\ Forget(k)
           /\ conns'[k].wire = <<>>
           /\ conns'[k].read = conns[k].read
  <2>1. OnWire(k)' = {}
    BY <1>4, EmptySeq DEF OnWire
  <2>2. WasRead(k)' = WasRead(k)
    BY <1>4 DEF WasRead
  <2> QED
    BY <1>1, <1>4, <2>1, <2>2 DEF Carried
<1> QED
    BY <1>2, <1>3, <1>4, NetworkEffect

-----------------------------------------------------------------------------
(* The worker, the queue and the sentinel. *)

LEMMA WorkerStep == TypeOK /\ WorkerInv /\ [Next]_vars => WorkerInv'
<1> SUFFICES ASSUME TypeOK, WorkerInv, [Next]_vars
             PROVE  WorkerInv'
    OBVIOUS
<1>1. CASE SendSyslog \/ BeginExit \/ PutSentinel \/ Exit \/ UNCHANGED vars
    BY <1>1 DEF SendSyslog, BeginExit, PutSentinel, Exit, vars, WorkerInv
<1>2. CASE Take
    BY <1>2 DEF Take, WorkerInv, Sentinel
<1>3. CASE Connect
  <2>1. Len(conns') = Len(conns) + 1
    <3>1. [wire |-> <<>>, read |-> <<>>, up |-> TRUE] \in Conn
        BY EmptySeq DEF Conn
    <3> QED
        BY <1>3, <3>1, NewConn DEF Connect
  <2> QED
    BY <1>3, <2>1 DEF Connect, WorkerInv
<1>4. CASE SendAll
  <2>1. Len(conns') = Len(conns)
    BY <1>4, SendAllEffect
  <2> QED
    BY <1>4, <2>1 DEF SendAll, NextItem, WorkerInv
<1>5. CASE SendInVain \/ AttemptFails \/ SendRaises
    BY <1>5 DEF SendInVain, AttemptFails, SendRaises, NextItem, WorkerInv
<1>6. CASE SendUdp
    BY <1>6 DEF SendUdp, NextItem, WorkerInv
<1>7. ASSUME NEW k \in DOMAIN conns, Break(k) \/ Read(k) \/ Forget(k)
      PROVE  WorkerInv'
  <2>1. Len(conns') = Len(conns)
    BY <1>7, NetworkEffect
  <2> QED
    BY <1>7, <2>1 DEF Break, Read, Forget, WorkerInv
<1> QED
    BY <1>1, <1>2, <1>3, <1>4, <1>5, <1>6, <1>7 DEF Next, Worker

(* The steps that leave the queue alone. *)
KeepQueue ==
    \/ Connect \/ SendAll \/ SendInVain \/ AttemptFails \/ SendRaises \/ SendUdp
    \/ BeginExit \/ Exit \/ UNCHANGED vars
    \/ \E c \in DOMAIN conns : Break(c) \/ Read(c) \/ Forget(c)

LEMMA KeepQueueEffect ==
    ASSUME KeepQueue
    PROVE  /\ UNCHANGED <<offered, refused, queue, last>>
           /\ hand' = hand \/ hand' = 0
           /\ worker' = worker \/ worker' = "waiting"
           /\ exit' = exit \/ (exit = "running" /\ exit' = "putting")
                           \/ (exit = "joining" /\ exit' = "gone")
<1>1. CASE Connect \/ SendAll \/ SendInVain \/ AttemptFails \/ SendRaises \/ SendUdp
    BY <1>1 DEF Connect, SendAll, SendInVain, AttemptFails, SendRaises, SendUdp, NextItem
<1>2. CASE BeginExit \/ Exit \/ UNCHANGED vars
    BY <1>2 DEF BeginExit, Exit, vars
<1>3. CASE \E c \in DOMAIN conns : Break(c) \/ Read(c) \/ Forget(c)
    BY <1>3 DEF Break, Read, Forget
<1> QED
    BY <1>1, <1>2, <1>3 DEF KeepQueue

(* The other three steps, on the queue. *)
LEMMA QueueEffect ==
    ASSUME TypeOK
    PROVE  /\ SendSyslog =>
                 \/ queue' = queue
                 \/ /\ DOMAIN queue' = DOMAIN queue \cup {Len(queue) + 1}
                    /\ queue'[Len(queue) + 1] = offered + 1
                    /\ \A n \in DOMAIN queue : n < Len(queue) + 1 /\ queue'[n] = queue[n]
           /\ PutSentinel =>
                 /\ DOMAIN queue' = DOMAIN queue \cup {Len(queue) + 1}
                 /\ queue'[Len(queue) + 1] = 0
                 /\ \A n \in DOMAIN queue : n < Len(queue) + 1 /\ queue'[n] = queue[n]
           /\ Take =>
                 /\ 1 \in DOMAIN queue /\ Head(queue) = queue[1]
                 /\ \A n \in DOMAIN queue' :
                       n + 1 \in DOMAIN queue /\ 1 < n + 1 /\ queue'[n] = queue[n + 1]
<1>1. ASSUME NEW e \in Nat, queue' = Append(queue, e)
      PROVE  /\ DOMAIN queue' = DOMAIN queue \cup {Len(queue) + 1}
             /\ queue'[Len(queue) + 1] = e
             /\ \A n \in DOMAIN queue : n < Len(queue) + 1 /\ queue'[n] = queue[n]
  <2>1. /\ queue' \in Seq(Nat)
        /\ Len(queue') = Len(queue) + 1
        /\ \A i \in 1 .. Len(queue) : queue'[i] = queue[i]
        /\ queue'[Len(queue) + 1] = e
    BY <1>1, QueueType, AppendProperties
  <2>2. DOMAIN queue' = 1 .. Len(queue) + 1
    BY <2>1, LenProperties
  <2> QED
    BY <2>1, <2>2, QueueType
<1>2. SendSyslog => queue' = queue \/ queue' = Append(queue, offered + 1)
    BY DEF SendSyslog
<1>3. PutSentinel => queue' = Append(queue, 0)
    BY DEF PutSentinel, Sentinel
<1>4. Take => queue # <<>> /\ queue' = Tail(queue)
    BY DEF Take
<1>5. offered + 1 \in Nat
    BY DEF TypeOK
<1>6. SendSyslog =>
         \/ queue' = queue
         \/ /\ DOMAIN queue' = DOMAIN queue \cup {Len(queue) + 1}
            /\ queue'[Len(queue) + 1] = offered + 1
            /\ \A n \in DOMAIN queue : n < Len(queue) + 1 /\ queue'[n] = queue[n]
    BY <1>1, <1>2, <1>5
<1>7. PutSentinel =>
         /\ DOMAIN queue' = DOMAIN queue \cup {Len(queue) + 1}
         /\ queue'[Len(queue) + 1] = 0
         /\ \A n \in DOMAIN queue : n < Len(queue) + 1 /\ queue'[n] = queue[n]
    BY <1>1, <1>3
<1>8. Take => /\ 1 \in DOMAIN queue /\ Head(queue) = queue[1]
              /\ \A n \in DOMAIN queue' :
                    n + 1 \in DOMAIN queue /\ 1 < n + 1 /\ queue'[n] = queue[n + 1]
    BY <1>4, QueueType, TailFacts
<1> QED
    BY <1>6, <1>7, <1>8

LEMMA QueueStep == TypeOK /\ WorkerInv /\ QueueInv /\ PlaceInv /\ [Next]_vars => QueueInv'
<1> SUFFICES ASSUME TypeOK, WorkerInv, QueueInv, PlaceInv, [Next]_vars
             PROVE  QueueInv'
    OBVIOUS
<1>0. offered \in Nat /\ hand \in Nat /\ \A n \in DOMAIN queue : n \in Nat /\ queue[n] \in Nat
    BY QueueType DEF TypeOK
<1>1. CASE SendSyslog
  <2>1. offered' = offered + 1 /\ hand' = hand
    BY <1>1 DEF SendSyslog
  <2>2. hand <= offered
    BY <1>0 DEF PlaceInv, Held, InHand, Messages
  <2>3. CASE queue' = queue
    BY <1>0, <2>1, <2>3 DEF QueueInv
  <2>4. CASE /\ DOMAIN queue' = DOMAIN queue \cup {Len(queue) + 1}
             /\ queue'[Len(queue) + 1] = offered + 1
             /\ \A n \in DOMAIN queue : n < Len(queue) + 1 /\ queue'[n] = queue[n]
    BY <1>0, <2>1, <2>2, <2>4, QueueType DEF QueueInv
  <2> QED
    BY <1>1, <2>3, <2>4, QueueEffect
<1>2. CASE Take
  <2>1. /\ 1 \in DOMAIN queue /\ Head(queue) = queue[1]
        /\ \A n \in DOMAIN queue' :
              n + 1 \in DOMAIN queue /\ 1 < n + 1 /\ queue'[n] = queue[n + 1]
    BY <1>2, QueueEffect
  <2>2. DOMAIN queue' \subseteq Nat
    BY <1>2, QueueType, TailFacts, LenProperties DEF Take
  <2>3. offered' = offered /\ hand = 0
    BY <1>2 DEF Take, WorkerInv
  <2>4. hand' = 0 \/ (queue[1] # Sentinel /\ hand' = queue[1])
    BY <1>2, <2>1, <2>3 DEF Take
  <2>5. SUFFICES ASSUME NEW n \in DOMAIN queue'
                 PROVE  /\ queue'[n] <= offered
                        /\ queue'[n] # Sentinel => hand' < queue'[n]
                        /\ \A k \in DOMAIN queue' :
                              n < k /\ queue'[n] # Sentinel /\ queue'[k] # Sentinel
                                 => queue'[n] < queue'[k]
    BY <2>3 DEF QueueInv
  <2>6. queue'[n] <= offered
    BY <2>1 DEF QueueInv
  <2>7. queue'[n] # Sentinel => hand' < queue'[n]
    BY <1>0, <2>1, <2>3, <2>4 DEF QueueInv
  <2>8. \A k \in DOMAIN queue' : n < k => n + 1 < k + 1
    BY <2>2
  <2>9. \A k \in DOMAIN queue' :
           n < k /\ queue'[n] # Sentinel /\ queue'[k] # Sentinel => queue'[n] < queue'[k]
    BY <2>1, <2>8 DEF QueueInv
  <2> QED
    BY <2>6, <2>7, <2>9
<1>3. CASE PutSentinel
  <2>1. /\ DOMAIN queue' = DOMAIN queue \cup {Len(queue) + 1}
        /\ queue'[Len(queue) + 1] = 0
        /\ \A n \in DOMAIN queue : n < Len(queue) + 1 /\ queue'[n] = queue[n]
    BY <1>3, QueueEffect
  <2>2. offered' = offered /\ hand' = hand
    BY <1>3 DEF PutSentinel
  <2> QED
    BY <1>0, <2>1, <2>2, QueueType DEF QueueInv, Sentinel
<1>4. CASE KeepQueue
  <2>1. queue' = queue /\ offered' = offered /\ (hand' = hand \/ hand' = 0)
    BY <1>4, KeepQueueEffect
  <2> QED
    BY <1>0, <2>1 DEF QueueInv, Sentinel
<1> QED
    BY <1>1, <1>2, <1>3, <1>4 DEF Next, Worker, KeepQueue

LEMMA SentinelStep == TypeOK /\ QueueInv /\ SentinelInv /\ [Next]_vars => SentinelInv'
<1> SUFFICES ASSUME TypeOK, QueueInv, SentinelInv, [Next]_vars
             PROVE  SentinelInv'
    OBVIOUS
<1>0. /\ offered \in Nat /\ last \in Nat
      /\ \A n \in DOMAIN queue : n \in Nat /\ queue[n] \in Nat
    BY QueueType DEF TypeOK
<1>1. CASE SendSyslog
  <2>1. offered' = offered + 1 /\ UNCHANGED <<worker, exit, last>>
    BY <1>1 DEF SendSyslog
  <2>2. CASE queue' = queue
    BY <1>0, <2>1, <2>2 DEF SentinelInv
  <2>3. CASE /\ DOMAIN queue' = DOMAIN queue \cup {Len(queue) + 1}
             /\ queue'[Len(queue) + 1] = offered + 1
             /\ \A n \in DOMAIN queue : n < Len(queue) + 1 /\ queue'[n] = queue[n]
    BY <1>0, <2>1, <2>3, QueueType DEF SentinelInv, Sentinel
  <2> QED
    BY <1>1, <2>2, <2>3, QueueEffect
<1>2. CASE Take
  <2>1. /\ 1 \in DOMAIN queue /\ Head(queue) = queue[1]
        /\ \A n \in DOMAIN queue' :
              n + 1 \in DOMAIN queue /\ 1 < n + 1 /\ queue'[n] = queue[n + 1]
    BY <1>2, QueueEffect
  <2>2. \A k, n \in DOMAIN queue' : n < k => n + 1 < k + 1
    BY <1>2, QueueType, TailFacts, LenProperties DEF Take
  <2>3. UNCHANGED <<offered, exit, last>>
    BY <1>2 DEF Take
  <2>4. worker' = "stopped" => queue[1] = Sentinel
    BY <1>2, <2>1 DEF Take
  <2>5. queue[1] = Sentinel => /\ exit \notin {"running", "putting"}
                               /\ \A k \in DOMAIN queue' : queue'[k] > last
    BY <2>1 DEF SentinelInv
  <2>6. \A n \in DOMAIN queue' : queue'[n] = Sentinel =>
           /\ exit \notin {"running", "putting"}
           /\ \A k \in DOMAIN queue' : n < k => queue'[k] > last
    BY <2>1, <2>2 DEF SentinelInv
  <2> QED
    BY <2>3, <2>4, <2>5, <2>6 DEF SentinelInv
<1>3. CASE PutSentinel
  <2>1. /\ DOMAIN queue' = DOMAIN queue \cup {Len(queue) + 1}
        /\ queue'[Len(queue) + 1] = 0
        /\ \A n \in DOMAIN queue : n < Len(queue) + 1 /\ queue'[n] = queue[n]
    BY <1>3, QueueEffect
  <2>2. /\ exit = "putting" /\ exit' = "joining" /\ last' = offered
        /\ UNCHANGED <<offered, worker>>
    BY <1>3 DEF PutSentinel
  <2>3. worker # "stopped" /\ \A n \in DOMAIN queue : queue[n] # Sentinel
    BY <2>2 DEF SentinelInv
  <2>4. \A n \in DOMAIN queue' : queue'[n] = Sentinel => \A k \in DOMAIN queue' : ~(n < k)
    BY <1>0, <2>1, <2>3, QueueType
  <2> QED
    BY <1>0, <2>2, <2>3, <2>4 DEF SentinelInv
<1>4. CASE KeepQueue
  <2>1. /\ UNCHANGED <<offered, queue, last>>
        /\ worker' = worker \/ worker' = "waiting"
        /\ exit' = exit \/ (exit = "running" /\ exit' = "putting")
                        \/ (exit = "joining" /\ exit' = "gone")
    BY <1>4, KeepQueueEffect
  <2> QED
    BY <2>1 DEF SentinelInv
<1> QED
    BY <1>1, <1>2, <1>3, <1>4 DEF Next, Worker, KeepQueue

-----------------------------------------------------------------------------
(* The order on the connections. *)

(* The messages of the process may only become fewer or newer. *)
LEMMA ConnKept ==
    ASSUME TypeOK, ConnInv, PlaceInv, conns' = conns,
           \A m \in Held' : m \in Held \/ m = offered + 1
    PROVE  ConnInv'
<1>1. /\ DOMAIN conns' = DOMAIN conns
      /\ \A c \in DOMAIN conns : /\ conns'[c] = conns[c]
                                 /\ OnWire(c)' = OnWire(c)
                                 /\ WasRead(c)' = WasRead(c)
                                 /\ Carried(c)' = Carried(c)
    BY SameConn DEF SameCarried
<1>2. ASSUME NEW c \in DOMAIN conns, NEW m \in Carried(c), NEW n \in Held'
      PROVE  m < n
  <2>1. offered \in Nat /\ m \in 1 .. offered
    BY DEF TypeOK, PlaceInv, Messages
  <2>2. n \in Held => m < n
    BY DEF ConnInv
  <2> QED
    BY <2>1, <2>2
<1> QED
    BY <1>1, <1>2 DEF ConnInv

(* A connection is added. *)
LEMMA ConnAdded ==
    ASSUME TypeOK, ConnInv, NEW conn \in Conn, conns' = Append(conns, conn),
           conn.read = <<>>, Increasing(conn.wire),
           Held' \subseteq Held, Elements(conn.wire) \subseteq Held,
           \A m \in Elements(conn.wire), n \in Held' : m < n
    PROVE  ConnInv'
<1> DEFINE N == Len(conns) + 1
<1>1. /\ DOMAIN conns' = DOMAIN conns \cup {N}
      /\ conns'[N] = conn
      /\ \A c \in DOMAIN conns : c < N /\ conns'[c] = conns[c]
      /\ N \in Nat
    BY NewConn, ConnType
<1>2. \A c \in DOMAIN conns : SameCarried(c) /\ Carried(c)' = Carried(c)
    BY NewCarried
<1>3. ASSUME NEW c, c = N
      PROVE  /\ OnWire(c)' = Elements(conn.wire)
             /\ WasRead(c)' = {}
             /\ Carried(c)' = Elements(conn.wire)
  <2>1. OnWire(c)' = Elements(conn.wire) /\ WasRead(c)' = Elements(conn.read)
    BY <1>3, NewCarried DEF Elements
  <2>2. Elements(conn.read) = {}
    BY EmptySeq DEF Elements
  <2> QED
    BY <2>1, <2>2 DEF Carried
<1>4. Increasing(conn.read)
    BY EmptySeq DEF Increasing
<1> HIDE DEF N
<1>5. SUFFICES ASSUME NEW c \in DOMAIN conns'
               PROVE  /\ Increasing(conns'[c].read)
                      /\ Increasing(conns'[c].wire)
                      /\ \A m \in WasRead(c)', n \in OnWire(c)' : m < n
                      /\ \A d \in DOMAIN conns' : c < d =>
                            \A m \in Carried(c)', n \in Carried(d)' : m < n
                      /\ \A m \in Carried(c)', n \in Held' : m < n
    BY DEF ConnInv
<1>6. CASE c \in DOMAIN conns
  <2>1. /\ Increasing(conns[c].read) /\ Increasing(conns[c].wire)
        /\ \A m \in WasRead(c), n \in OnWire(c) : m < n
        /\ \A d \in DOMAIN conns : c < d => \A m \in Carried(c), n \in Carried(d) : m < n
        /\ \A m \in Carried(c), n \in Held : m < n
    BY <1>6 DEF ConnInv
  <2>2. conns'[c] = conns[c] /\ SameCarried(c) /\ Carried(c)' = Carried(c)
    BY <1>1, <1>2, <1>6
  <2>3. ASSUME NEW d \in DOMAIN conns', c < d
        PROVE  \A m \in Carried(c)', n \in Carried(d)' : m < n
    <3>1. CASE d \in DOMAIN conns
        BY <1>2, <2>1, <2>2, <2>3, <3>1
    <3>2. CASE d = N
        BY <1>3, <2>1, <2>2, <3>2
    <3> QED
        BY <1>1, <3>1, <3>2
  <2> QED
    BY <2>1, <2>2, <2>3 DEF SameCarried
<1>7. CASE c = N
  <2>1. \A d \in DOMAIN conns' : ~(c < d)
    BY <1>1, <1>7, ConnType
  <2> QED
    BY <1>1, <1>3, <1>4, <1>7, <2>1
<1> QED
    BY <1>1, <1>6, <1>7

(* sendall appends to the newest connection the oldest message held. *)
LEMMA ConnSent ==
    ASSUME TypeOK, WorkerInv, QueueInv, ConnInv, SendAll
    PROVE  ConnInv'
<1>1. /\ sock \in DOMAIN conns /\ sock = Len(conns)
      /\ DOMAIN conns' = DOMAIN conns
      /\ conns'[sock].wire = Append(conns[sock].wire, hand)
      /\ conns'[sock].read = conns[sock].read
      /\ \A c \in DOMAIN conns \ {sock} : conns'[c] = conns[c]
    BY SendAllEffect
<1>2. /\ hand \in Nat /\ hand \in Held
      /\ Held' = Held \ {hand}
      /\ \A m \in Held' : hand < m
    BY HandEffect DEF SendAll
<1>3. /\ \A c \in DOMAIN conns \ {sock} : SameCarried(c) /\ Carried(c)' = Carried(c)
      /\ \A c \in DOMAIN conns : c = sock =>
            /\ OnWire(c)' = OnWire(c) \cup {hand}
            /\ WasRead(c)' = WasRead(c)
            /\ Carried(c)' = Carried(c) \cup {hand}
    BY SentCarried
<1>4. ASSUME NEW c \in DOMAIN conns
      PROVE  /\ Increasing(conns[c].read) /\ Increasing(conns[c].wire)
             /\ \A m \in WasRead(c), n \in OnWire(c) : m < n
             /\ \A d \in DOMAIN conns : c < d => \A m \in Carried(c), n \in Carried(d) : m < n
             /\ \A m \in Carried(c), n \in Held : m < n
    BY DEF ConnInv
<1>5. SUFFICES ASSUME NEW c \in DOMAIN conns
               PROVE  /\ Increasing(conns'[c].read)
                      /\ Increasing(conns'[c].wire)
                      /\ \A m \in WasRead(c)', n \in OnWire(c)' : m < n
                      /\ \A d \in DOMAIN conns : c < d =>
                            \A m \in Carried(c)', n \in Carried(d)' : m < n
                      /\ \A m \in Carried(c)', n \in Held' : m < n
    BY <1>1 DEF ConnInv
<1>6. CASE c # sock
  <2>1. conns'[c] = conns[c] /\ SameCarried(c) /\ Carried(c)' = Carried(c)
    BY <1>1, <1>3, <1>6
  <2>2. ASSUME NEW d \in DOMAIN conns, c < d
        PROVE  \A m \in Carried(c)', n \in Carried(d)' : m < n
    <3>1. Carried(d)' = Carried(d) \/ Carried(d)' = Carried(d) \cup {hand}
        BY <1>3
    <3> QED
        BY <1>2, <1>4, <2>1, <2>2, <3>1
  <2> QED
    BY <1>2, <1>4, <2>1, <2>2 DEF SameCarried
<1>7. CASE c = sock
  <2>1. conns[c].wire \in Seq(Nat) /\ \A n \in DOMAIN conns[c].wire : conns[c].wire[n] < hand
    BY <1>2, <1>4, ConnType DEF Carried, OnWire
  <2>2. Increasing(conns'[c].wire)
    BY <1>1, <1>2, <1>4, <1>7, <2>1, IncreasingAppend
  <2>3. \A d \in DOMAIN conns : ~(c < d)
    BY <1>1, <1>7, ConnType
  <2>4. Increasing(conns'[c].read)
    BY <1>1, <1>4, <1>7
  <2>5. \A m \in WasRead(c)', n \in OnWire(c)' : m < n
    BY <1>2, <1>3, <1>4, <1>7 DEF Carried
  <2>6. \A m \in Carried(c)', n \in Held' : m < n
    BY <1>2, <1>3, <1>4, <1>7
  <2> QED
    BY <2>2, <2>3, <2>4, <2>5, <2>6
<1> QED
    BY <1>6, <1>7

LEMMA ConnNetwork ==
    ASSUME TypeOK, ConnInv, NEW k \in DOMAIN conns, Break(k) \/ Read(k) \/ Forget(k)
    PROVE  ConnInv'
<1>1. /\ DOMAIN conns' = DOMAIN conns
      /\ \A c \in DOMAIN conns \ {k} : conns'[c] = conns[c]
      /\ \A c \in DOMAIN conns \ {k} : SameCarried(c) /\ Carried(c)' = Carried(c)
    BY NetworkEffect, NetworkCarried
<1>2. Held' = Held
    BY DEF Break, Read, Forget, Held, Queued, InHand
<1>3. ASSUME NEW c \in DOMAIN conns
      PROVE  /\ Increasing(conns[c].read) /\ Increasing(conns[c].wire)
             /\ \A m \in WasRead(c), n \in OnWire(c) : m < n
             /\ \A d \in DOMAIN conns : c < d => \A m \in Carried(c), n \in Carried(d) : m < n
             /\ \A m \in Carried(c), n \in Held : m < n
    BY DEF ConnInv
<1>4. Carried(k)' \subseteq Carried(k)
    BY NetworkCarried DEF Carried
<1>5. \A c \in DOMAIN conns : Carried(c)' \subseteq Carried(c)
    BY <1>1, <1>4
<1>6. /\ Increasing(conns'[k].read) /\ Increasing(conns'[k].wire)
      /\ \A m \in WasRead(k)', n \in OnWire(k)' : m < n
  <2>1. conns[k].wire \in Seq(Nat) /\ conns[k].read \in Seq(Nat)
    BY ConnType
  <2>2. CASE Break(k) /\ conns'[k].wire = conns[k].wire /\ conns'[k].read = conns[k].read
    <3>1. OnWire(k)' = OnWire(k) /\ WasRead(k)' = WasRead(k)
        BY <2>2 DEF OnWire, WasRead
    <3> QED
        BY <1>3, <2>2, <3>1
  <2>3. CASE /\ conns[k].wire # <<>>
             /\ conns'[k].wire = Tail(conns[k].wire)
             /\ conns'[k].read = Append(conns[k].read, Head(conns[k].wire))
    <3> DEFINE h == Head(conns[k].wire)
    <3>1. /\ h \in Nat /\ h \in OnWire(k)
          /\ Increasing(Tail(conns[k].wire))
          /\ \A n \in DOMAIN Tail(conns[k].wire) : h < Tail(conns[k].wire)[n]
        BY <1>3, <2>1, <2>3, TailFacts DEF OnWire
    <3>2. \A n \in DOMAIN conns[k].read : conns[k].read[n] < h
        BY <1>3, <3>1 DEF WasRead
    <3>3. Increasing(conns'[k].read)
        BY <1>3, <2>1, <2>3, <3>1, <3>2, IncreasingAppend
    <3>4. OnWire(k)' \subseteq OnWire(k) /\ WasRead(k)' = WasRead(k) \cup {h}
        <4>1. Elements(conns[k].wire) = {h} \cup Elements(conns'[k].wire)
            BY <2>1, <2>3, TailFacts
        <4>2. Elements(conns'[k].read) = Elements(conns[k].read) \cup {h}
            BY <2>1, <2>3, <3>1, AppendRange
        <4> QED
            BY <4>1, <4>2 DEF OnWire, WasRead, Elements
    <3>5. \A n \in OnWire(k)' : h < n
        BY <2>3, <3>1 DEF OnWire
    <3>6. \A m \in WasRead(k)', n \in OnWire(k)' : m < n
        BY <1>3, <3>4, <3>5
    <3> QED
        BY <2>3, <3>1, <3>3, <3>6
  <2>4. CASE conns'[k].wire = <<>> /\ conns'[k].read = conns[k].read
    <3>1. Increasing(conns'[k].wire) /\ OnWire(k)' = {}
        BY <2>4, EmptySeq DEF Increasing, OnWire
    <3> QED
        BY <1>3, <2>4, <3>1
  <2> QED
    BY <2>2, <2>3, <2>4, NetworkEffect
<1>7. SUFFICES ASSUME NEW c \in DOMAIN conns
               PROVE  /\ Increasing(conns'[c].read)
                      /\ Increasing(conns'[c].wire)
                      /\ \A m \in WasRead(c)', n \in OnWire(c)' : m < n
                      /\ \A d \in DOMAIN conns : c < d =>
                            \A m \in Carried(c)', n \in Carried(d)' : m < n
                      /\ \A m \in Carried(c)', n \in Held' : m < n
    BY <1>1 DEF ConnInv
<1>8. /\ \A d \in DOMAIN conns : c < d => \A m \in Carried(c)', n \in Carried(d)' : m < n
      /\ \A m \in Carried(c)', n \in Held' : m < n
    BY <1>2, <1>3, <1>5
<1>9. CASE c = k
    BY <1>6, <1>8, <1>9
<1>10. CASE c # k
    BY <1>1, <1>3, <1>8, <1>10 DEF SameCarried
<1> QED
    BY <1>9, <1>10

LEMMA ConnStep ==
    TypeOK /\ WorkerInv /\ QueueInv /\ ConnInv /\ PlaceInv /\ [Next]_vars => ConnInv'
<1> SUFFICES ASSUME TypeOK, WorkerInv, QueueInv, ConnInv, PlaceInv, [Next]_vars
             PROVE  ConnInv'
    OBVIOUS
<1>1. CASE SendSyslog
  <2>1. conns' = conns
    BY <1>1 DEF SendSyslog
  <2> QED
    BY <1>1, <2>1, OfferEffect, ConnKept
<1>2. CASE Take
  <2>1. conns' = conns
    BY <1>2 DEF Take
  <2> QED
    BY <1>2, <2>1, TakeEffect, ConnKept
<1>3. CASE PutSentinel
  <2>1. conns' = conns
    BY <1>3 DEF PutSentinel
  <2> QED
    BY <1>3, <2>1, SentinelEffect, ConnKept
<1>4. CASE Connect
  <2> DEFINE conn == [wire |-> <<>>, read |-> <<>>, up |-> TRUE]
  <2>1. conn \in Conn /\ conn.read = <<>> /\ conn.wire = <<>>
    BY EmptySeq DEF Conn
  <2>2. conns' = Append(conns, conn) /\ Held' = Held
    BY <1>4 DEF Connect, Held, Queued, InHand
  <2>3. Elements(<<>>) = {} /\ Increasing(<<>>)
    BY EmptySeq DEF Elements, Increasing
  <2> HIDE DEF conn
  <2> QED
    BY <2>1, <2>2, <2>3, ConnAdded
<1>5. CASE SendAll
    BY <1>5, ConnSent
<1>6. CASE SendInVain \/ AttemptFails \/ SendRaises
  <2>1. conns' = conns /\ queue' = queue /\ hand' \in {hand, 0}
    BY <1>6 DEF SendInVain, AttemptFails, SendRaises, NextItem
  <2>2. Held' \subseteq Held
    BY <2>1 DEF Held, Queued, InHand
  <2> QED
    BY <2>1, <2>2, ConnKept
<1>7. CASE SendUdp
  <2>1. /\ hand \in Nat /\ hand \in Held
        /\ Held' = Held \ {hand}
        /\ \A m \in Held' : hand < m
    BY <1>7, HandEffect DEF SendUdp
  <2> DEFINE conn == [wire |-> <<hand>>, read |-> <<>>, up |-> FALSE]
  <2>2. conn \in Conn /\ conn.read = <<>> /\ conn.wire = <<hand>>
    BY <2>1, EmptySeq DEF Conn
  <2>3. Elements(<<hand>>) = {hand} /\ Increasing(<<hand>>)
    BY <2>1 DEF Elements, Increasing
  <2>4. conns' = conns \/ conns' = Append(conns, conn)
    BY <1>7 DEF SendUdp
  <2> HIDE DEF conn
  <2>5. CASE conns' = conns
    BY <2>1, <2>5, ConnKept
  <2>6. CASE conns' = Append(conns, conn)
    BY <2>1, <2>2, <2>3, <2>6, ConnAdded
  <2> QED
    BY <2>4, <2>5, <2>6
<1>8. CASE BeginExit \/ Exit \/ UNCHANGED vars
  <2>1. conns' = conns /\ Held' = Held
    BY <1>8 DEF BeginExit, Exit, vars, Held, Queued, InHand
  <2> QED
    BY <2>1, ConnKept
<1>9. ASSUME NEW k \in DOMAIN conns, Break(k) \/ Read(k) \/ Forget(k)
      PROVE  ConnInv'
    BY <1>9, ConnNetwork
<1> QED
    BY <1>1, <1>2, <1>3, <1>4, <1>5, <1>6, <1>7, <1>8, <1>9 DEF Next, Worker

-----------------------------------------------------------------------------
(* Where the messages are. *)

(* The order keeps the places of the process and of the connections apart. *)
LEMMA Apart ==
    ASSUME TypeOK, ConnInv
    PROVE  /\ \A c \in DOMAIN conns : /\ Carried(c) \cap Held = {}
                                      /\ OnWire(c) \cap WasRead(c) = {}
           /\ \A c, d \in DOMAIN conns : c # d => Carried(c) \cap Carried(d) = {}
<1>1. /\ DOMAIN conns \subseteq Nat
      /\ \A c \in DOMAIN conns : Carried(c) \subseteq Nat
    BY ConnType DEF Carried
<1>2. ASSUME NEW c \in DOMAIN conns
      PROVE  Carried(c) \cap Held = {} /\ OnWire(c) \cap WasRead(c) = {}
  <2>1. /\ \A m \in WasRead(c), n \in OnWire(c) : m < n
        /\ \A m \in Carried(c), n \in Held : m < n
    BY DEF ConnInv
  <2>2. OnWire(c) \subseteq Nat
    BY ConnType
  <2> QED
    BY <1>1, <2>1, <2>2
<1>3. ASSUME NEW c \in DOMAIN conns, NEW d \in DOMAIN conns, c < d
      PROVE  Carried(c) \cap Carried(d) = {}
  <2>1. \A m \in Carried(c), n \in Carried(d) : m < n
    BY <1>3 DEF ConnInv
  <2> QED
    BY <1>1, <2>1
<1>4. \A c, d \in DOMAIN conns : c # d => c < d \/ d < c
    BY <1>1
<1> QED
    BY <1>2, <1>3, <1>4

(* No message moves; a connection that is new carries none. *)
LEMMA PlaceKept ==
    ASSUME PlaceInv, UNCHANGED <<offered, refused, lost>>, Held' = Held,
           DOMAIN conns \subseteq DOMAIN conns',
           \A c \in DOMAIN conns : Carried(c)' = Carried(c),
           \A c \in DOMAIN conns' \ DOMAIN conns : Carried(c)' = {}
    PROVE  PlaceInv'
<1>1. Messages' = Messages /\ Gone' = Gone
    BY DEF Messages, Gone
<1>2. \A c \in DOMAIN conns' : Carried(c)' = {} \/ (c \in DOMAIN conns /\ Carried(c)' = Carried(c))
    OBVIOUS
<1> QED
    BY <1>1, <1>2 DEF PlaceInv

(* The message in hand is given up. *)
LEMMA PlaceLost ==
    ASSUME TypeOK, WorkerInv, QueueInv, ConnInv, PlaceInv,
           Sending, NextItem, queue' = queue,
           UNCHANGED <<offered, refused, conns>>, lost' = lost \cup {hand}
    PROVE  PlaceInv'
<1>1. hand \in Held /\ Held' = Held \ {hand}
    BY HandEffect
<1>2. Messages' = Messages /\ Gone' = Gone \cup {hand}
    BY DEF Messages, Gone
<1>3. /\ DOMAIN conns' = DOMAIN conns
      /\ \A c \in DOMAIN conns : Carried(c)' = Carried(c)
    BY SameConn
<1>4. hand \notin Gone /\ hand \notin refused /\ \A c \in DOMAIN conns : hand \notin Carried(c)
    BY <1>1, Apart DEF PlaceInv, Gone
<1>5. /\ Gone' \cup Held' \subseteq Messages'
      /\ \A c \in DOMAIN conns' : Carried(c)' \subseteq Messages'
    BY <1>1, <1>2, <1>3 DEF PlaceInv
<1>6. \A m \in Messages' : m \in Gone' \/ m \in Held' \/ \E c \in DOMAIN conns' : m \in Carried(c)'
    BY <1>1, <1>2, <1>3 DEF PlaceInv
<1>7. refused' \cap lost' = {}
    BY <1>4 DEF PlaceInv
<1>8. \A m \in Gone' : m \notin Held' /\ \A c \in DOMAIN conns' : m \notin Carried(c)'
    BY <1>1, <1>2, <1>3, <1>4 DEF PlaceInv
<1> QED
    BY <1>5, <1>6, <1>7, <1>8 DEF PlaceInv

(* The message in hand goes to connection k, old or new. *)
LEMMA PlaceSent ==
    ASSUME TypeOK, WorkerInv, QueueInv, ConnInv, PlaceInv,
           Sending, NextItem, queue' = queue,
           UNCHANGED <<offered, refused, lost>>,
           NEW k, DOMAIN conns' = DOMAIN conns \cup {k},
           \A c \in DOMAIN conns \ {k} : Carried(c)' = Carried(c),
           IF k \in DOMAIN conns THEN Carried(k)' = Carried(k) \cup {hand}
                                 ELSE Carried(k)' = {hand}
    PROVE  PlaceInv'
<1>1. hand \in Held /\ Held' = Held \ {hand}
    BY HandEffect
<1>2. Messages' = Messages /\ Gone' = Gone
    BY DEF Messages, Gone
<1>3. hand \in Carried(k)'
    OBVIOUS
<1>4. \A c \in DOMAIN conns' : \A m \in Carried(c)' :
         m = hand \/ (c \in DOMAIN conns /\ m \in Carried(c))
    OBVIOUS
<1>5. \A c \in DOMAIN conns : Carried(c) \subseteq Carried(c)'
    OBVIOUS
<1>6. /\ Gone' \cup Held' \subseteq Messages'
      /\ \A c \in DOMAIN conns' : Carried(c)' \subseteq Messages'
    BY <1>1, <1>2, <1>4 DEF PlaceInv
<1>7. ASSUME NEW m \in Messages'
      PROVE  m \in Gone' \/ m \in Held' \/ \E c \in DOMAIN conns' : m \in Carried(c)'
  <2>1. CASE m = hand
    BY <1>3, <2>1
  <2>2. CASE m # hand
    BY <1>1, <1>2, <1>5, <2>2 DEF PlaceInv
  <2> QED
    BY <2>1, <2>2
<1>8. \A m \in Gone' : m \notin Held' /\ \A c \in DOMAIN conns' : m \notin Carried(c)'
    BY <1>1, <1>2, <1>4 DEF PlaceInv
<1>9. refused' \cap lost' = {}
    BY DEF PlaceInv
<1> QED
    BY <1>6, <1>7, <1>8, <1>9 DEF PlaceInv

(* What is on the wire of connection k is forgotten. *)
LEMMA PlaceForgotten ==
    ASSUME TypeOK, ConnInv, PlaceInv, NEW k \in DOMAIN conns, Forget(k)
    PROVE  PlaceInv'
<1>1. /\ DOMAIN conns' = DOMAIN conns
      /\ \A c \in DOMAIN conns \ {k} : Carried(c)' = Carried(c)
      /\ Carried(k)' \cap OnWire(k) = {}
      /\ Carried(k) = Carried(k)' \cup OnWire(k)
  <2>1. /\ DOMAIN conns' = DOMAIN conns
        /\ \A c \in DOMAIN conns \ {k} : conns'[c] = conns[c]
    BY NetworkEffect
  <2>2. conns'[k] = [conns[k] EXCEPT !.wire = <<>>]
    BY ConnType DEF Forget
  <2>3. conns'[k].read = conns[k].read /\ conns'[k].wire = <<>>
    BY <2>2, ConnType DEF Conn
  <2>4. WasRead(k)' = WasRead(k) /\ OnWire(k)' = {}
    BY <2>3, EmptySeq DEF WasRead, OnWire
  <2>5. OnWire(k) \cap WasRead(k) = {}
    BY Apart
  <2> QED
    BY <2>1, <2>4, <2>5, SameConn DEF Carried
<1>2. UNCHANGED <<offered, refused>> /\ lost' = lost \cup OnWire(k) /\ Held' = Held
    BY DEF Forget, Held, Queued, InHand
<1>3. Messages' = Messages /\ Gone' = Gone \cup OnWire(k)
    BY <1>2 DEF Messages, Gone
<1>4. /\ OnWire(k) \cap Held = {} /\ OnWire(k) \cap refused = {}
      /\ \A c \in DOMAIN conns \ {k} : OnWire(k) \cap Carried(c) = {}
    BY <1>1, Apart DEF PlaceInv, Gone
<1>5. \A c \in DOMAIN conns : Carried(c)' \subseteq Carried(c) /\ Carried(c)' \cap OnWire(k) = {}
    BY <1>1, <1>4
<1>6. /\ Gone' \cup Held' \subseteq Messages'
      /\ \A c \in DOMAIN conns' : Carried(c)' \subseteq Messages'
    BY <1>1, <1>2, <1>3 DEF PlaceInv
<1>7. \A m \in Messages' : m \in Gone' \/ m \in Held' \/ \E c \in DOMAIN conns' : m \in Carried(c)'
    BY <1>1, <1>2, <1>3 DEF PlaceInv
<1>8. \A m \in Gone' : m \notin Held' /\ \A c \in DOMAIN conns' : m \notin Carried(c)'
    BY <1>1, <1>2, <1>3, <1>4, <1>5 DEF PlaceInv
<1>9. refused' \cap lost' = {}
    BY <1>2, <1>4 DEF PlaceInv
<1> QED
    BY <1>6, <1>7, <1>8, <1>9 DEF PlaceInv

LEMMA PlaceStep ==
    TypeOK /\ WorkerInv /\ QueueInv /\ ConnInv /\ PlaceInv /\ [Next]_vars => PlaceInv'
<1> SUFFICES ASSUME TypeOK, WorkerInv, QueueInv, ConnInv, PlaceInv, [Next]_vars
             PROVE  PlaceInv'
    OBVIOUS
<1>1. CASE SendSyslog
  <2>1. conns' = conns /\ lost' = lost
    BY <1>1 DEF SendSyslog
  <2>2. DOMAIN conns' = DOMAIN conns /\ \A c \in DOMAIN conns : Carried(c)' = Carried(c)
    BY <2>1, SameConn
  <2>3. /\ offered + 1 \notin Messages
        /\ Messages' = Messages \cup {offered + 1}
        /\ \/ Held' = Held \cup {offered + 1} /\ refused' = refused
           \/ Held' = Held /\ refused' = refused \cup {offered + 1}
    BY <1>1, OfferEffect
  <2>4. \/ Held' = Held \cup {offered + 1} /\ Gone' = Gone
        \/ Held' = Held /\ Gone' = Gone \cup {offered + 1}
    BY <2>1, <2>3 DEF Gone
  <2>5. refused' \cap lost' = {}
    BY <2>1, <2>3 DEF PlaceInv, Gone
  <2>6. \A m \in Gone' : m \notin Held' /\ \A c \in DOMAIN conns' : m \notin Carried(c)'
    BY <2>2, <2>3, <2>4 DEF PlaceInv
  <2>7. \A m \in Messages' :
           m \in Gone' \/ m \in Held' \/ \E c \in DOMAIN conns' : m \in Carried(c)'
    BY <2>2, <2>3, <2>4 DEF PlaceInv
  <2>8. /\ Gone' \cup Held' \subseteq Messages'
        /\ \A c \in DOMAIN conns' : Carried(c)' \subseteq Messages'
    BY <2>2, <2>3, <2>4 DEF PlaceInv
  <2> QED
    BY <2>5, <2>6, <2>7, <2>8 DEF PlaceInv
<1>2. CASE Take \/ PutSentinel \/ BeginExit \/ Exit \/ UNCHANGED vars
  <2>1. Held' = Held
    <3>1. CASE Take
        BY <3>1, TakeEffect
    <3>2. CASE PutSentinel
        BY <3>2, SentinelEffect
    <3>3. CASE BeginExit \/ Exit \/ UNCHANGED vars
        BY <3>3 DEF BeginExit, Exit, vars, Held, Queued, InHand
    <3> QED
        BY <1>2, <3>1, <3>2, <3>3
  <2>2. UNCHANGED <<offered, refused, lost, conns>>
    BY <1>2 DEF Take, PutSentinel, BeginExit, Exit, vars
  <2>3. \A c \in DOMAIN conns : Carried(c)' = Carried(c)
    BY <2>2, SameConn
  <2> QED
    BY <2>1, <2>2, <2>3, PlaceKept
<1>3. CASE Connect
  <2> DEFINE conn == [wire |-> <<>>, read |-> <<>>, up |-> TRUE]
  <2>1. conn \in Conn /\ conn.wire = <<>> /\ conn.read = <<>>
    BY EmptySeq DEF Conn
  <2>2. conns' = Append(conns, conn) /\ UNCHANGED <<offered, refused, lost>> /\ Held' = Held
    BY <1>3 DEF Connect, Held, Queued, InHand
  <2> HIDE DEF conn
  <2>3. /\ DOMAIN conns' = DOMAIN conns \cup {Len(conns) + 1}
        /\ \A c \in DOMAIN conns : Carried(c)' = Carried(c)
    BY <2>1, <2>2, NewConn, NewCarried
  <2>4. ASSUME NEW c, c = Len(conns) + 1
        PROVE  Carried(c)' = {}
    <3>1. OnWire(c)' = Elements(conn.wire) /\ WasRead(c)' = Elements(conn.read)
        BY <2>1, <2>2, <2>4, NewCarried DEF Elements
    <3>2. Elements(<<>>) = {}
        BY EmptySeq DEF Elements
    <3> QED
        BY <2>1, <3>1, <3>2 DEF Carried
  <2> QED
    BY <2>2, <2>3, <2>4, PlaceKept
<1>4. CASE SendAll
  <2>1. DOMAIN conns' = DOMAIN conns /\ sock \in DOMAIN conns
    BY <1>4, SendAllEffect
  <2>2. Sending /\ NextItem /\ UNCHANGED <<offered, refused, queue, lost>>
    BY <1>4 DEF SendAll
  <2>3. PICK k : k = sock
    OBVIOUS
  <2>4. /\ \A c \in DOMAIN conns \ {k} : Carried(c)' = Carried(c)
        /\ Carried(k)' = Carried(k) \cup {hand}
    BY <1>4, <2>1, <2>3, SentCarried
  <2> QED
    BY <2>1, <2>2, <2>3, <2>4, PlaceSent
<1>5. CASE SendInVain \/ SendRaises
  <2>1. /\ Sending /\ NextItem /\ lost' = lost \cup {hand}
        /\ UNCHANGED <<offered, refused, queue, conns>>
    BY <1>5 DEF SendInVain, SendRaises
  <2> QED
    BY <2>1, PlaceLost
<1>6. CASE AttemptFails
  <2>1. Sending /\ UNCHANGED <<offered, refused, queue, conns>>
    BY <1>6 DEF AttemptFails
  <2>2. CASE attempt = 1
    <3>1. Held' = Held /\ lost' = lost
        BY <1>6, <2>2 DEF AttemptFails, Held, Queued, InHand
    <3>2. \A c \in DOMAIN conns : Carried(c)' = Carried(c)
        BY <2>1, SameConn
    <3> QED
        BY <2>1, <3>1, <3>2, PlaceKept
  <2>3. CASE attempt # 1
    <3>1. NextItem /\ lost' = lost \cup {hand}
        BY <1>6, <2>3 DEF AttemptFails
    <3> QED
        BY <2>1, <3>1, PlaceLost
  <2> QED
    BY <2>2, <2>3
<1>7. CASE SendUdp
  <2>1. Sending /\ NextItem /\ UNCHANGED <<offered, refused, queue>>
    BY <1>7 DEF SendUdp
  <2> DEFINE conn == [wire |-> <<hand>>, read |-> <<>>, up |-> FALSE]
  <2>2. CASE conns' = Append(conns, conn) /\ lost' = lost
    <3>1. conn \in Conn /\ conn.wire = <<hand>> /\ conn.read = <<>>
        BY EmptySeq DEF Conn, TypeOK
    <3> HIDE DEF conn
    <3>2. PICK k : k = Len(conns) + 1
        OBVIOUS
    <3>3. /\ DOMAIN conns' = DOMAIN conns \cup {k} /\ k \notin DOMAIN conns
          /\ \A c \in DOMAIN conns : Carried(c)' = Carried(c)
        BY <2>2, <3>1, <3>2, NewConn, NewCarried, ConnType
    <3>4. Carried(k)' = {hand}
        <4>1. OnWire(k)' = Elements(conn.wire) /\ WasRead(k)' = Elements(conn.read)
            BY <2>2, <3>1, <3>2, NewCarried DEF Elements
        <4>2. Elements(<<>>) = {} /\ Elements(<<hand>>) = {hand}
            BY EmptySeq DEF Elements
        <4> QED
            BY <3>1, <4>1, <4>2 DEF Carried
    <3> QED
        BY <2>1, <2>2, <3>3, <3>4, PlaceSent
  <2>3. CASE conns' = conns /\ lost' = lost \cup {hand}
    BY <2>1, <2>3, PlaceLost
  <2> QED
    BY <1>7, <2>2, <2>3 DEF SendUdp
<1>8. ASSUME NEW k \in DOMAIN conns, Break(k) \/ Read(k) \/ Forget(k)
      PROVE  PlaceInv'
  <2>1. CASE Forget(k)
    BY <2>1, PlaceForgotten
  <2>2. CASE (Break(k) \/ Read(k)) /\ ~Forget(k)
    <3>1. UNCHANGED <<offered, refused, lost>> /\ Held' = Held
        BY <2>2 DEF Break, Read, Held, Queued, InHand
    <3>2. DOMAIN conns' = DOMAIN conns
        BY <1>8, NetworkEffect
    <3>3. \A c \in DOMAIN conns : Carried(c)' = Carried(c)
        BY <2>2, NetworkCarried
    <3> QED
        BY <3>1, <3>2, <3>3, PlaceKept
  <2> QED
    BY <1>8, <2>1, <2>2
<1> QED
    BY <1>1, <1>2, <1>3, <1>4, <1>5, <1>6, <1>7, <1>8 DEF Next, Worker

-----------------------------------------------------------------------------
(* The inductive invariant and what it implies. *)

LEMMA InvInit == Init => IInv
<1> SUFFICES ASSUME Init
             PROVE  IInv
    OBVIOUS
<1>1. TypeOK
    BY TypeInit
<1>2. DOMAIN queue = {} /\ DOMAIN conns = {} /\ Len(conns) = 0
    BY EmptySeq DEF Init
<1>3. WorkerInv
    BY <1>2 DEF Init, WorkerInv
<1>4. QueueInv /\ ConnInv /\ SentinelInv
    BY <1>2 DEF Init, QueueInv, ConnInv, SentinelInv
<1>5. Held = {} /\ Gone = {} /\ Messages = {}
    BY <1>2 DEF Init, Held, Queued, InHand, Gone, Messages
<1>6. refused = {}
    BY DEF Init
<1>7. PlaceInv
    BY <1>2, <1>5, <1>6 DEF PlaceInv
<1> QED
    BY <1>1, <1>3, <1>4, <1>7 DEF IInv

LEMMA InvStep == IInv /\ [Next]_vars => IInv'
BY TypeStep, WorkerStep, QueueStep, SentinelStep, ConnStep, PlaceStep DEF IInv

(* The order of messages from the queue to the receiver holds in every
   reachable state (syslog_handler.py). *)
THEOREM SenderInvariant == Spec => []IInv
BY InvInit, InvStep, PTL DEF Spec

(* Messages that are on a connection keep the order of the send_syslog
   calls, on it and from one connection to the next. *)
THEOREM SendOrderTheorem == Spec => []SendOrder
<1>1. ASSUME IInv
      PROVE  SendOrder
  <2>1. TypeOK /\ ConnInv
    BY <1>1 DEF IInv
  <2>2. ASSUME NEW c \in DOMAIN conns
        PROVE  Increasing(conns[c].read \o conns[c].wire)
    <3>1. conns[c].read \in Seq(Nat) /\ conns[c].wire \in Seq(Nat)
        BY <2>1, ConnType
    <3>2. Increasing(conns[c].read) /\ Increasing(conns[c].wire)
        BY <2>1 DEF ConnInv
    <3>3. \A m \in DOMAIN conns[c].read, n \in DOMAIN conns[c].wire :
             conns[c].read[m] < conns[c].wire[n]
        BY <2>1 DEF ConnInv, WasRead, OnWire
    <3> QED
        BY <3>1, <3>2, <3>3, IncreasingConcat
  <2> QED
    BY <2>1, <2>2 DEF ConnInv, SendOrder, Carried
<1> QED
    BY <1>1, SenderInvariant, PTL

(* When the worker stops, nothing that was accepted before the sentinel is
   left in the queue or in its hands (_shutdown_syslog_worker). *)
THEOREM DrainedWhenStoppedTheorem == Spec => []DrainedWhenStopped
<1>1. ASSUME IInv
      PROVE  DrainedWhenStopped
  <2>1. worker = "stopped" => hand = 0 /\ \A n \in DOMAIN queue : queue[n] > last
    BY <1>1 DEF IInv, WorkerInv, SentinelInv
  <2> QED
    BY <2>1 DEF DrainedWhenStopped, InHand, Queued
<1> QED
    BY <1>1, SenderInvariant, PTL

LEMMA FunctionSeq ==
    ASSUME NEW S, NEW n \in Nat, NEW s \in [1 .. n -> S]
    PROVE  s \in Seq(S) /\ Len(s) = n
<1>1. s \in Seq(S)
    BY SeqDef
<1>2. Len(s) \in Nat /\ 1 .. Len(s) = 1 .. n
    BY <1>1, LenProperties
<1>3. Len(s) = n
    BY <1>2
<1> QED
    BY <1>1, <1>3

(* The nth of the places. *)
LEMMA PlacesAt ==
    ASSUME TypeOK
    PROVE  /\ DOMAIN Places = 1 .. 4 + 2 * Len(conns)
           /\ Places[1] = refused /\ Places[2] = Queued
           /\ Places[3] = InHand /\ Places[4] = lost
           /\ \A c \in DOMAIN conns : /\ Places[4 + c] = OnWire(c)
                                      /\ Places[4 + Len(conns) + c] = WasRead(c)
<1> DEFINE N == Len(conns)
           process == <<refused, Queued, InHand, lost>>
           wires == [c \in DOMAIN conns |-> OnWire(c)]
           reads == [c \in DOMAIN conns |-> WasRead(c)]
<1>1. N \in Nat /\ DOMAIN conns = 1 .. N
    BY ConnType
<1>2. /\ wires \in Seq(SUBSET Nat) /\ Len(wires) = N
      /\ reads \in Seq(SUBSET Nat) /\ Len(reads) = N
  <2>1. wires \in [1 .. N -> SUBSET Nat] /\ reads \in [1 .. N -> SUBSET Nat]
    BY <1>1, ConnType
  <2> HIDE DEF N, wires, reads
  <2> QED
    BY <1>1, <2>1, FunctionSeq
<1>3. /\ process \in Seq(SUBSET Nat) /\ Len(process) = 4
      /\ process[1] = refused /\ process[2] = Queued
      /\ process[3] = InHand /\ process[4] = lost
  <2>1. refused \in SUBSET Nat /\ Queued \in SUBSET Nat /\ InHand \in SUBSET Nat /\ lost \in SUBSET Nat
    BY HeldType DEF TypeOK, Held
  <2> QED
    BY <2>1
<1>4. /\ \A c \in DOMAIN conns : wires[c] = OnWire(c) /\ reads[c] = WasRead(c)
      /\ Places = (process \o wires) \o reads
    BY DEF Places
<1> HIDE DEF N, process, wires, reads
<1>5. /\ process \o wires \in Seq(SUBSET Nat)
      /\ Len(process \o wires) = 4 + N
      /\ \A i \in 1 .. 4 + N :
            (process \o wires)[i] = IF i <= 4 THEN process[i] ELSE wires[i - 4]
  <2>1. /\ process \o wires \in Seq(SUBSET Nat)
        /\ Len(process \o wires) = Len(process) + Len(wires)
        /\ \A i \in 1 .. Len(process) + Len(wires) :
              (process \o wires)[i] = IF i <= Len(process) THEN process[i] ELSE wires[i - Len(process)]
    BY <1>2, <1>3, ConcatProperties
  <2> QED
    BY <1>2, <1>3, <2>1
<1>6. /\ Places \in Seq(SUBSET Nat)
      /\ Len(Places) = 4 + N + N
      /\ \A i \in 1 .. 4 + N + N :
            Places[i] = IF i <= 4 + N THEN (process \o wires)[i] ELSE reads[i - (4 + N)]
  <2> DEFINE front == process \o wires
  <2>1. front \in Seq(SUBSET Nat) /\ Len(front) = 4 + N /\ Places = front \o reads
    BY <1>4, <1>5
  <2> HIDE DEF front
  <2>2. /\ Places \in Seq(SUBSET Nat)
        /\ Len(Places) = Len(front) + Len(reads)
        /\ \A i \in 1 .. Len(front) + Len(reads) :
              Places[i] = IF i <= Len(front) THEN front[i] ELSE reads[i - Len(front)]
    BY <1>2, <2>1, ConcatProperties
  <2> QED
    BY <1>2, <2>1, <2>2 DEF front
<1>7. DOMAIN Places = 1 .. 4 + 2 * N
    BY <1>1, <1>6, LenProperties
<1>8. \A i \in 1 .. 4 : Places[i] = process[i]
    BY <1>1, <1>5, <1>6
<1>9. ASSUME NEW c \in DOMAIN conns
      PROVE  Places[4 + c] = wires[c] /\ Places[4 + N + c] = reads[c]
  <2>1. /\ 4 + c \in 1 .. 4 + N /\ 4 + c \in 1 .. 4 + N + N /\ 4 + c <= 4 + N
        /\ 4 + N + c \in 1 .. 4 + N + N /\ c \in Nat /\ N \in Nat
        /\ ~(4 + c <= 4) /\ 4 + c - 4 = c
        /\ ~(4 + N + c <= 4 + N) /\ 4 + N + c - (4 + N) = c
    BY <1>1
  <2>2. Places[4 + c] = (process \o wires)[4 + c]
    BY <1>6, <2>1
  <2>3. (process \o wires)[4 + c] = wires[c]
    <3>1. \A i \in 1 .. 4 + N : ~(i <= 4) => (process \o wires)[i] = wires[i - 4]
        BY <1>5
    <3> DEFINE front == process \o wires
               i == 4 + c
    <3>2. \A j \in 1 .. 4 + N : ~(j <= 4) => front[j] = wires[j - 4]
        BY <3>1
    <3>3. i \in 1 .. 4 + N /\ ~(i <= 4) /\ i - 4 = c
        BY <2>1
    <3> HIDE DEF front, i
    <3>4. front[i] = wires[c]
        BY <3>2, <3>3
    <3> QED
        BY <3>4 DEF front, i
  <2>4. Places[4 + N + c] = reads[c]
    <3>1. \A i \in 1 .. 4 + N + N : ~(i <= 4 + N) => Places[i] = reads[i - (4 + N)]
        BY <1>6
    <3> QED
        BY <2>1, <3>1
  <2> QED
    BY <2>2, <2>3, <2>4
<1>10. /\ Places[1] = refused /\ Places[2] = Queued
       /\ Places[3] = InHand /\ Places[4] = lost
    BY <1>3, <1>8
<1> QED
    BY <1>4, <1>7, <1>9, <1>10 DEF N

(* Every message offered is in exactly one place (syslog_handler.py): the
   sender neither loses track of a message nor sends one twice. *)
THEOREM AccountedTheorem == Spec => []Accounted
<1>1. ASSUME IInv
      PROVE  Accounted
  <2>1. TypeOK /\ QueueInv /\ ConnInv /\ PlaceInv
    BY <1>1 DEF IInv
  <2>2. /\ DOMAIN Places = 1 .. 4 + 2 * Len(conns)
        /\ Places[1] = refused /\ Places[2] = Queued
        /\ Places[3] = InHand /\ Places[4] = lost
        /\ \A c \in DOMAIN conns : /\ Places[4 + c] = OnWire(c)
                                   /\ Places[4 + Len(conns) + c] = WasRead(c)
    BY <2>1, PlacesAt
  <2>3. Len(conns) \in Nat /\ DOMAIN conns = 1 .. Len(conns)
    BY <2>1, ConnType
  <2>4. \A n \in DOMAIN Places :
           \/ n \in 1 .. 4
           \/ \E c \in DOMAIN conns : n = 4 + c
           \/ \E c \in DOMAIN conns : n = 4 + Len(conns) + c
    <3>1. ASSUME NEW n \in 1 .. 4 + 2 * Len(conns), n \notin 1 .. 4
          PROVE  n - 4 \in 1 .. Len(conns) \/ n - 4 - Len(conns) \in 1 .. Len(conns)
        BY <2>3, <3>1
    <3>2. \A n \in 1 .. 4 + 2 * Len(conns) : n = 4 + (n - 4) /\ n = 4 + Len(conns) + (n - 4 - Len(conns))
        BY <2>3
    <3> QED
        BY <2>2, <2>3, <3>1, <3>2
  <2>5. UNION {Places[n] : n \in DOMAIN Places} = Messages
    <3>1. ASSUME NEW n \in DOMAIN Places
          PROVE  Places[n] \subseteq Messages
        <4>1. CASE n \in 1 .. 4
            <5>1. n = 1 \/ n = 2 \/ n = 3 \/ n = 4
                BY <4>1
            <5> QED
                BY <2>1, <2>2, <5>1 DEF PlaceInv, Gone, Held
        <4>2. CASE n \notin 1 .. 4
            BY <2>1, <2>2, <2>4, <4>2 DEF PlaceInv, Carried
        <4> QED
            BY <4>1, <4>2
    <3>2. ASSUME NEW m \in Messages
          PROVE  \E n \in DOMAIN Places : m \in Places[n]
        <4>1. CASE m \in Gone \/ m \in Held
            <5>1. 1 \in DOMAIN Places /\ 2 \in DOMAIN Places /\ 3 \in DOMAIN Places /\ 4 \in DOMAIN Places
                BY <2>2, <2>3
            <5> QED
                BY <2>2, <4>1, <5>1 DEF Gone, Held
        <4>2. ASSUME NEW c \in DOMAIN conns, m \in Carried(c)
              PROVE  \E n \in DOMAIN Places : m \in Places[n]
            <5>1. 4 + c \in DOMAIN Places /\ 4 + Len(conns) + c \in DOMAIN Places
                BY <2>2, <2>3
            <5> QED
                BY <2>2, <4>2, <5>1 DEF Carried
        <4> QED
            BY <2>1, <4>1, <4>2 DEF PlaceInv
    <3> QED
        BY <3>1, <3>2
  <2>6. ASSUME NEW m \in DOMAIN Places, NEW n \in DOMAIN Places, m < n
        PROVE  Places[m] \cap Places[n] = {}
    <3>1. CASE n \in 1 .. 4
        <4>1. /\ n = 2 \/ n = 3 \/ n = 4
              /\ m = 1 \/ m = 2 \/ m = 3
            BY <2>2, <2>3, <2>6, <3>1
        <4>2. Queued \cap InHand = {}
            <5>1. \A k \in DOMAIN queue : queue[k] # Sentinel => queue[k] # hand
                BY <2>1, QueueType DEF QueueInv, TypeOK
            <5> QED
                BY <5>1 DEF Queued, InHand
        <4>3. refused \cap lost = {} /\ Gone \cap Held = {}
            BY <2>1 DEF PlaceInv
        <4> QED
            BY <2>2, <2>6, <4>1, <4>2, <4>3 DEF Gone, Held
    <3>2. ASSUME m \in 1 .. 4, NEW c \in DOMAIN conns
          PROVE  Places[m] \cap Carried(c) = {}
        <4>1. m = 1 \/ m = 2 \/ m = 3 \/ m = 4
            BY <3>2
        <4>2. Places[m] \subseteq Gone \cup Held
            BY <2>2, <4>1 DEF Gone, Held
        <4> QED
            BY <2>1, <4>2, Apart DEF PlaceInv
    <3>3. CASE m \in 1 .. 4 /\ n \notin 1 .. 4
        BY <2>2, <2>4, <3>2, <3>3 DEF Carried
    <3>4. ASSUME NEW c \in DOMAIN conns, NEW d \in DOMAIN conns,
                 m \in {4 + c, 4 + Len(conns) + c}, n \in {4 + d, 4 + Len(conns) + d}
          PROVE  Places[m] \cap Places[n] = {}
        <4>1. Places[m] \subseteq Carried(c) /\ Places[n] \subseteq Carried(d)
            BY <2>2, <3>4 DEF Carried
        <4>2. CASE c # d
            BY <2>1, <4>1, <4>2, Apart
        <4>3. CASE c = d
            <5>1. m = 4 + c /\ n = 4 + Len(conns) + d
                BY <2>3, <2>6, <3>4, <4>3
            <5> QED
                BY <2>1, <2>2, <4>3, <5>1, Apart
        <4> QED
            BY <4>2, <4>3
    <3>5. CASE m \notin 1 .. 4 /\ n \notin 1 .. 4
        BY <2>4, <3>4, <3>5
    <3>6. n \in 1 .. 4 => m \in 1 .. 4
        BY <2>2, <2>3, <2>6
    <3> QED
        BY <3>1, <3>3, <3>5, <3>6
  <2>7. \A m, n \in DOMAIN Places : m # n => m < n \/ n < m
    BY <2>2, <2>3
  <2> QED
    BY <2>5, <2>6, <2>7 DEF Accounted
<1> QED
    BY <1>1, SenderInvariant, PTL

-----------------------------------------------------------------------------
(* The refinement of the best-effort channel. *)

Wired == UNION {OnWire(c) : c \in DOMAIN conns}

Pending == Queued \cup InHand \cup Wired

Delivered == UNION {WasRead(c) : c \in DOMAIN conns}

(* Connections that carry what they carried, and new ones that carry nothing. *)
LEMMA ChannelKept ==
    ASSUME DOMAIN conns \subseteq DOMAIN conns',
           \A c \in DOMAIN conns : SameCarried(c),
           \A c \in DOMAIN conns' \ DOMAIN conns : OnWire(c)' = {} /\ WasRead(c)' = {}
    PROVE  Wired' = Wired /\ Delivered' = Delivered
<1>1. /\ Wired' \subseteq Wired /\ Wired \subseteq Wired'
    BY DEF Wired, SameCarried
<1>2. /\ Delivered' \subseteq Delivered /\ Delivered \subseteq Delivered'
    BY DEF Delivered, SameCarried
<1> QED
    BY <1>1, <1>2

LEMMA ChannelNext ==
    ASSUME IInv, [Next]_vars
    PROVE  \/ /\ offered' = offered + 1
              /\ Pending' \in {Pending, Pending \cup {offered + 1}}
              /\ Delivered' = Delivered
           \/ /\ offered' = offered
              /\ \E m \in Pending : Pending' = Pending \ {m} /\ Delivered' = Delivered \cup {m}
           \/ offered' = offered /\ Pending' \subseteq Pending /\ Delivered' = Delivered
<1>0. TypeOK /\ WorkerInv /\ QueueInv /\ ConnInv
    BY DEF IInv
<1>1. Pending = Held \cup Wired /\ Pending' = Held' \cup Wired'
    BY DEF Pending, Held
<1>2. ASSUME conns' = conns
      PROVE  Wired' = Wired /\ Delivered' = Delivered
    BY <1>2 DEF Wired, Delivered, OnWire, WasRead
<1>3. CASE SendSyslog
  <2>1. conns' = conns /\ offered' = offered + 1
    BY <1>3 DEF SendSyslog
  <2>2. Held' = Held \/ Held' = Held \cup {offered + 1}
    BY <1>0, <1>3, OfferEffect
  <2>3. Wired' = Wired /\ Delivered' = Delivered
    BY <1>2, <2>1
  <2>4. Pending' = Pending \/ Pending' = Pending \cup {offered + 1}
    BY <1>1, <2>2, <2>3
  <2> QED
    BY <2>1, <2>3, <2>4
<1>4. CASE Take \/ PutSentinel \/ BeginExit \/ Exit \/ UNCHANGED vars
           \/ SendInVain \/ AttemptFails \/ SendRaises
  <2>1. conns' = conns /\ offered' = offered
    BY <1>4 DEF Take, PutSentinel, BeginExit, Exit, vars, SendInVain, AttemptFails, SendRaises
  <2>2. Held' \subseteq Held
    <3>1. CASE Take
        BY <1>0, <3>1, TakeEffect
    <3>2. CASE PutSentinel
        BY <1>0, <3>2, SentinelEffect
    <3>3. CASE BeginExit \/ Exit \/ UNCHANGED vars
        BY <3>3 DEF BeginExit, Exit, vars, Held, Queued, InHand
    <3>4. CASE SendInVain \/ AttemptFails \/ SendRaises
        <4>1. queue' = queue /\ hand' \in {hand, 0}
            BY <3>4 DEF SendInVain, AttemptFails, SendRaises, NextItem
        <4> QED
            BY <4>1 DEF Held, Queued, InHand
    <3> QED
        BY <1>4, <3>1, <3>2, <3>3, <3>4
  <2> QED
    BY <1>1, <1>2, <2>1, <2>2
<1>5. CASE Connect
  <2> DEFINE conn == [wire |-> <<>>, read |-> <<>>, up |-> TRUE]
  <2>1. conn \in Conn /\ conn.wire = <<>> /\ conn.read = <<>>
    BY EmptySeq DEF Conn
  <2>2. conns' = Append(conns, conn) /\ offered' = offered /\ Held' = Held
    BY <1>5 DEF Connect, Held, Queued, InHand
  <2>3. Elements(<<>>) = {}
    BY EmptySeq DEF Elements
  <2> HIDE DEF conn
  <2>4. /\ DOMAIN conns' = DOMAIN conns \cup {Len(conns) + 1}
        /\ \A c \in DOMAIN conns : SameCarried(c)
    BY <1>0, <2>1, <2>2, NewConn, NewCarried
  <2>5. ASSUME NEW c, c = Len(conns) + 1
        PROVE  OnWire(c)' = {} /\ WasRead(c)' = {}
    <3>1. OnWire(c)' = Elements(conn.wire) /\ WasRead(c)' = Elements(conn.read)
        BY <1>0, <2>1, <2>2, <2>5, NewCarried DEF Elements
    <3> QED
        BY <2>1, <2>3, <3>1
  <2>6. Wired' = Wired /\ Delivered' = Delivered
    BY <2>4, <2>5, ChannelKept
  <2> QED
    BY <1>1, <2>2, <2>6
<1>6. CASE SendAll
  <2>1. DOMAIN conns' = DOMAIN conns /\ offered' = offered
    BY <1>0, <1>6, SendAllEffect DEF SendAll
  <2>2. hand \in Held /\ Held' = Held \ {hand}
    BY <1>0, <1>6, HandEffect DEF SendAll
  <2>3. \A c \in DOMAIN conns :
           /\ OnWire(c)' = OnWire(c) \/ OnWire(c)' = OnWire(c) \cup {hand}
           /\ WasRead(c)' = WasRead(c)
    BY <1>0, <1>6, SentCarried DEF SameCarried
  <2>4. Wired' \subseteq Wired \cup {hand} /\ Delivered' = Delivered
    BY <2>1, <2>3 DEF Wired, Delivered
  <2> QED
    BY <1>1, <2>1, <2>2, <2>4
<1>7. CASE SendUdp
  <2> DEFINE conn == [wire |-> <<hand>>, read |-> <<>>, up |-> FALSE]
  <2>1. offered' = offered
    BY <1>7 DEF SendUdp
  <2>2. hand \in Held /\ Held' = Held \ {hand}
    BY <1>0, <1>7, HandEffect DEF SendUdp
  <2>3. CASE conns' = conns
    BY <1>1, <1>2, <2>1, <2>2, <2>3
  <2>4. CASE conns' = Append(conns, conn)
    <3>1. conn \in Conn /\ conn.wire = <<hand>> /\ conn.read = <<>>
        BY <1>0, EmptySeq DEF Conn, TypeOK
    <3>2. Elements(<<>>) = {} /\ Elements(<<hand>>) = {hand}
        BY EmptySeq DEF Elements
    <3> HIDE DEF conn
    <3>3. /\ DOMAIN conns' = DOMAIN conns \cup {Len(conns) + 1}
          /\ \A c \in DOMAIN conns : SameCarried(c)
        BY <1>0, <2>4, <3>1, NewConn, NewCarried
    <3>4. ASSUME NEW c, c = Len(conns) + 1
          PROVE  OnWire(c)' = {hand} /\ WasRead(c)' = {}
        <4>1. OnWire(c)' = Elements(conn.wire) /\ WasRead(c)' = Elements(conn.read)
            BY <1>0, <2>4, <3>1, <3>4, NewCarried DEF Elements
        <4> QED
            BY <3>1, <3>2, <4>1
    <3>5. Wired' \subseteq Wired \cup {hand}
        BY <3>3, <3>4 DEF Wired, SameCarried
    <3>6. Delivered' \subseteq Delivered /\ Delivered \subseteq Delivered'
        BY <3>3, <3>4 DEF Delivered, SameCarried
    <3> QED
        BY <1>1, <2>1, <2>2, <3>5, <3>6
  <2> QED
    BY <1>7, <2>3, <2>4 DEF SendUdp
<1>8. ASSUME NEW k \in DOMAIN conns, Break(k) \/ Read(k) \/ Forget(k)
      PROVE  \/ /\ offered' = offered
                /\ \E m \in Pending : Pending' = Pending \ {m} /\ Delivered' = Delivered \cup {m}
             \/ offered' = offered /\ Pending' \subseteq Pending /\ Delivered' = Delivered
  <2>1. /\ DOMAIN conns' = DOMAIN conns /\ offered' = offered /\ Held' = Held
        /\ \A c \in DOMAIN conns \ {k} : SameCarried(c)
    <3>1. offered' = offered /\ Held' = Held
        BY <1>8 DEF Break, Read, Forget, Held, Queued, InHand
    <3> QED
        BY <1>0, <1>8, <3>1, NetworkEffect, NetworkCarried
  <2>2. CASE SameCarried(k)
    <3>1. Wired' = Wired /\ Delivered' = Delivered
        BY <2>1, <2>2, ChannelKept
    <3> QED
        BY <1>1, <2>1, <3>1
  <2>3. CASE /\ Head(conns[k].wire) \in OnWire(k)
             /\ OnWire(k) = {Head(conns[k].wire)} \cup OnWire(k)'
             /\ WasRead(k)' = WasRead(k) \cup {Head(conns[k].wire)}
             /\ Read(k)
    <3> DEFINE h == Head(conns[k].wire)
    <3>1. h \in Pending
        BY <1>1, <2>3 DEF Wired
    <3>2. h \notin Held /\ \A c \in DOMAIN conns \ {k} : h \notin OnWire(c)
        BY <1>0, <2>3, Apart DEF Carried
    <3>3. ConnInv' /\ TypeOK'
        BY InvStep DEF IInv
    <3>4. h \in WasRead(k)' /\ k \in DOMAIN conns'
        BY <2>1, <2>3
    <3> HIDE DEF h
    <3>5. h \notin OnWire(k)'
        <4>1. \A m \in WasRead(k)', n \in OnWire(k)' : m < n
            BY <3>3, <3>4 DEF ConnInv
        <4>2. h \in Nat
            BY <1>0, <2>3, ConnType DEF h
        <4> QED
            BY <3>4, <4>1, <4>2
    <3>6. Wired' = Wired \ {h}
        <4>1. Wired' \subseteq Wired \ {h}
            BY <2>1, <2>3, <3>2, <3>5 DEF Wired, SameCarried, h
        <4>2. Wired \ {h} \subseteq Wired'
            BY <2>1, <2>3 DEF Wired, SameCarried, h
        <4> QED
            BY <4>1, <4>2
    <3>7. Delivered' = Delivered \cup {h}
        <4>1. Delivered' \subseteq Delivered \cup {h}
            BY <2>1, <2>3 DEF Delivered, SameCarried, h
        <4>2. Delivered \cup {h} \subseteq Delivered'
            BY <2>1, <2>3 DEF Delivered, SameCarried, h
        <4> QED
            BY <4>1, <4>2
    <3>8. Pending' = Pending \ {h}
        BY <1>1, <2>1, <3>2, <3>6
    <3> QED
        BY <2>1, <3>1, <3>7, <3>8
  <2>4. CASE OnWire(k)' = {} /\ WasRead(k)' = WasRead(k)
    <3>1. Wired' \subseteq Wired
        BY <2>1, <2>4 DEF Wired, SameCarried
    <3>2. Delivered' = Delivered
        BY <2>1, <2>4 DEF Delivered, SameCarried
    <3> QED
        BY <1>1, <2>1, <3>1, <3>2
  <2> QED
    BY <1>0, <1>8, <2>2, <2>3, <2>4, NetworkCarried
<1> QED
    BY <1>3, <1>4, <1>5, <1>6, <1>7, <1>8 DEF Next, Worker

(* The syslog output is a best-effort channel: a message that was turned
   away, lost or read never comes back (syslog_handler.py). *)
THEOREM ChannelTheorem == Spec => ImplementsChannel
<1>1. ASSUME Init
      PROVE  Channel!Init
  <2>1. queue = <<>> /\ conns = <<>> /\ hand = 0 /\ offered = 0
    BY <1>1 DEF Init
  <2>2. DOMAIN queue = {} /\ DOMAIN conns = {}
    BY <2>1, EmptySeq
  <2> QED
    BY <2>1, <2>2 DEF Channel!Init, Queued, InHand
<1>2. ASSUME IInv, [Next]_vars
      PROVE  [Channel!Next]_(Channel!vars)
  <2>1. \/ /\ offered' = offered + 1
           /\ Pending' \in {Pending, Pending \cup {offered + 1}}
           /\ Delivered' = Delivered
        \/ /\ offered' = offered
           /\ \E m \in Pending : Pending' = Pending \ {m} /\ Delivered' = Delivered \cup {m}
        \/ offered' = offered /\ Pending' \subseteq Pending /\ Delivered' = Delivered
    BY <1>2, ChannelNext
  <2> QED
    BY <2>1
        DEF Channel!Next, Channel!Offer, Channel!Deliver, Channel!Lose, Pending, Delivered, Wired
<1> QED
    BY <1>1, <1>2, SenderInvariant, PTL DEF Spec, ImplementsChannel, Channel!Spec
=============================================================================
