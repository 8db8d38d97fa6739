---------------------------- MODULE SyslogSender ----------------------------
(***************************************************************************)
(* The syslog output (syslog_handler.py): a bounded queue that the record  *)
(* processors put messages into without waiting, one worker thread that    *)
(* sends them over a connection it keeps, and the exit hook that stops the *)
(* worker with a sentinel.  A message is its number in the order of the    *)
(* calls of send_syslog.                                                   *)
(*                                                                         *)
(* The network and the receiver are external.  A connection carries frames *)
(* in order and holds WireCap of them before sendall blocks.  It breaks at *)
(* any time; frames on it are then still read or lost, and the next send   *)
(* on it succeeds in vain or fails.  What arrives of a frame whose sendall *)
(* failed is incomplete, and the receivers drop it.  A UDP datagram is a   *)
(* connection of its own, closed when the datagram has been sent.          *)
(***************************************************************************)
EXTENDS Naturals, Sequences, FiniteSets

CONSTANTS
    Transports,  \* the values of SYSLOG_TRANSPORT in this instance
    QueueSize,   \* _SYSLOG_QUEUE_MAXSIZE
    WireCap,     \* frames a connection takes before sendall blocks
    MaxMsgs,     \* bound on the calls of send_syslog
    MaxConns     \* bound on the connections

ASSUME SyslogAssumption ==
    /\ Transports \subseteq {"tcp", "udp"}
    /\ QueueSize \in Nat \ {0} /\ WireCap \in Nat \ {0}
    /\ MaxMsgs \in Nat /\ MaxConns \in Nat

VARIABLES
    transport, \* SYSLOG_TRANSPORT, which never changes
    offered,   \* calls of send_syslog so far
    refused,   \* messages dropped because the queue was full (history)
    queue,     \* _syslog_queue
    worker,    \* the worker thread: waiting, sending or stopped
    hand,      \* the message it sends, 0 when there is none
    attempt,   \* of _send_tcp
    sock,      \* _tcp_socket, the number of a connection, 0 for None
    conns,     \* the connections made: frames on the wire, frames read, up
    lost,      \* messages given up by the worker or the network (history)
    exit,      \* the main thread: running, putting, joining or gone
    last       \* messages offered before the sentinel was put (history)

vars == <<transport, offered, refused, queue, worker, hand, attempt, sock, conns, lost, exit, last>>

Sentinel == 0

Messages == 1 .. offered

TypeOK ==
    /\ transport \in Transports
    /\ offered \in Nat
    /\ refused \in SUBSET Nat
    /\ queue \in Seq(Nat)
    /\ worker \in {"waiting", "sending", "stopped"}
    /\ hand \in Nat
    /\ attempt \in {1, 2}
    /\ conns \in Seq([wire : Seq(Nat), read : Seq(Nat), up : BOOLEAN])
    /\ sock \in 0 .. Len(conns)
    /\ lost \in SUBSET Nat
    /\ exit \in {"running", "putting", "joining", "gone"}
    /\ last \in Nat

Init ==
    /\ transport \in Transports
    /\ offered = 0
    /\ refused = {}
    /\ queue = <<>>
    /\ worker = "waiting"
    /\ hand = 0
    /\ attempt = 1
    /\ sock = 0
    /\ conns = <<>>
    /\ lost = {}
    /\ exit = "running"
    /\ last = 0

-----------------------------------------------------------------------------
(* The callers of send_syslog.  The processor threads are daemons: they go
   on while the exit hooks run. *)
SendSyslog ==
    /\ exit # "gone"
    /\ offered < MaxMsgs
    /\ offered' = offered + 1
    /\ IF Len(queue) < QueueSize
       THEN queue' = Append(queue, offered') /\ UNCHANGED refused
       ELSE refused' = refused \cup {offered'} /\ UNCHANGED queue
    /\ UNCHANGED <<transport, worker, hand, attempt, sock, conns, lost, exit, last>>

-----------------------------------------------------------------------------
(* The worker thread. *)

Sending == exit # "gone" /\ worker = "sending"

(* _syslog_queue.get(): a message, or the sentinel. *)
Take ==
    /\ exit # "gone"
    /\ worker = "waiting"
    /\ queue # <<>>
    /\ queue' = Tail(queue)
    /\ IF Head(queue) = Sentinel
       THEN worker' = "stopped" /\ UNCHANGED <<hand, attempt>>
       ELSE worker' = "sending" /\ hand' = Head(queue) /\ attempt' = 1
    /\ UNCHANGED <<transport, offered, refused, sock, conns, lost, exit, last>>

NextItem == worker' = "waiting" /\ hand' = 0

Connect ==
    /\ Sending
    /\ transport = "tcp"
    /\ sock = 0
    /\ Len(conns) < MaxConns
    /\ conns' = Append(conns, [wire |-> <<>>, read |-> <<>>, up |-> TRUE])
    /\ sock' = Len(conns) + 1
    /\ UNCHANGED <<transport, offered, refused, queue, worker, hand, attempt, lost, exit, last>>

SendAllAgain ==                          \* mutant: no return after sendall
    /\ Sending
    /\ sock # 0
    /\ conns[sock].up
    /\ Len(conns[sock].wire) < WireCap
    /\ conns' = [conns EXCEPT ![sock].wire = Append(@, hand)]
    /\ IF attempt = 2 THEN NextItem /\ UNCHANGED attempt
                      ELSE attempt' = 2 /\ UNCHANGED <<worker, hand>>
    /\ UNCHANGED <<transport, offered, refused, queue, sock, lost, exit, last>>

(* sendall returns: the frame is on the wire. *)
SendAll ==
    /\ Sending
    /\ sock # 0
    /\ conns[sock].up
    /\ Len(conns[sock].wire) < WireCap
    /\ conns' = [conns EXCEPT ![sock].wire = Append(@, hand)]
    /\ NextItem
    /\ UNCHANGED <<transport, offered, refused, queue, attempt, sock, lost, exit, last>>

(* sendall returns although the receiver is not there any more. *)
SendInVain ==
    /\ Sending
    /\ sock # 0
    /\ ~conns[sock].up
    /\ lost' = lost \cup {hand}
    /\ NextItem
    /\ UNCHANGED <<transport, offered, refused, queue, attempt, sock, conns, exit, last>>

AttemptFailsThrice ==                    \* mutant: a third attempt
    /\ Sending
    /\ transport = "tcp"
    /\ sock # 0 => ~conns[sock].up
    /\ sock' = 0
    /\ IF attempt <= 2
       THEN attempt' = attempt + 1 /\ UNCHANGED <<worker, hand, lost>>
       ELSE lost' = lost \cup {hand} /\ NextItem /\ UNCHANGED attempt
    /\ UNCHANGED <<transport, offered, refused, queue, conns, exit, last>>

AttemptFailsRequeued ==                  \* mutant: tried again after the others
    /\ Sending
    /\ transport = "tcp"
    /\ sock # 0 => ~conns[sock].up
    /\ sock' = 0
    /\ queue' = Append(queue, hand)
    /\ NextItem
    /\ UNCHANGED <<transport, offered, refused, attempt, conns, lost, exit, last>>

(* connect or sendall fails with an OSError: the socket is closed and, the
   first time, a new connection tried at once. *)
AttemptFails ==
    /\ Sending
    /\ transport = "tcp"
    /\ sock # 0 => ~conns[sock].up
    /\ sock' = 0
    /\ IF attempt = 1
       THEN attempt' = 2 /\ UNCHANGED <<worker, hand, lost>>
       ELSE lost' = lost \cup {hand} /\ NextItem /\ UNCHANGED attempt
    /\ UNCHANGED <<transport, offered, refused, queue, conns, exit, last>>

SendRaisesUncaught ==                    \* mutant: only OSError is caught
    /\ Sending
    /\ sock = 0
    /\ lost' = lost \cup {hand}
    /\ worker' = "stopped" /\ hand' = 0
    /\ UNCHANGED <<transport, offered, refused, queue, attempt, sock, conns, exit, last>>

(* Another exception, of connect or sendto (a port out of range, say): the
   worker logs it and goes on with the next message. *)
SendRaises ==
    /\ Sending
    /\ sock = 0
    /\ lost' = lost \cup {hand}
    /\ NextItem
    /\ UNCHANGED <<transport, offered, refused, queue, attempt, sock, conns, exit, last>>

(* _send_udp: the datagram leaves, or sendto fails and it is dropped. *)
SendUdp ==
    /\ Sending
    /\ transport = "udp"
    /\ Len(conns) < MaxConns
    /\ \/ /\ conns' = Append(conns, [wire |-> <<hand>>, read |-> <<>>, up |-> FALSE])
          /\ UNCHANGED lost
       \/ /\ lost' = lost \cup {hand}
          /\ UNCHANGED conns
    /\ NextItem
    /\ UNCHANGED <<transport, offered, refused, queue, attempt, sock, exit, last>>

Worker ==
    \/ Take \/ Connect \/ SendAll \/ SendInVain \/ AttemptFails \/ SendRaises \/ SendUdp

-----------------------------------------------------------------------------
(* The exit of the process. *)

BeginExit ==
    /\ exit = "running"
    /\ exit' = "putting"
    /\ UNCHANGED <<transport, offered, refused, queue, worker, hand, attempt, sock, conns, lost, last>>

PutSentinelFirst ==                      \* mutant: the sentinel overtakes the queue
    /\ exit = "putting"
    /\ Len(queue) < QueueSize
    /\ queue' = <<Sentinel>> \o queue
    /\ last' = offered
    /\ exit' = "joining"
    /\ UNCHANGED <<transport, offered, refused, worker, hand, attempt, sock, conns, lost>>

(* _syslog_queue.put(None), which waits for room without a timeout. *)
PutSentinel ==
    /\ exit = "putting"
    /\ Len(queue) < QueueSize
    /\ queue' = Append(queue, Sentinel)
    /\ last' = offered
    /\ exit' = "joining"
    /\ UNCHANGED <<transport, offered, refused, worker, hand, attempt, sock, conns, lost>>

(* _syslog_thread.join(timeout=10) returns, with the thread stopped or not;
   the process ends. *)
Exit ==
    /\ exit = "joining"
    /\ exit' = "gone"
    /\ UNCHANGED <<transport, offered, refused, queue, worker, hand, attempt, sock, conns, lost, last>>

-----------------------------------------------------------------------------
(* The network and the receiver. *)

Break(c) ==
    /\ conns[c].up
    /\ conns' = [conns EXCEPT ![c].up = FALSE]
    /\ UNCHANGED <<transport, offered, refused, queue, worker, hand, attempt, sock, lost, exit, last>>

Read(c) ==
    /\ conns[c].wire # <<>>
    /\ conns' = [conns EXCEPT ![c].read = Append(@, Head(conns[c].wire)),
                              ![c].wire = Tail(@)]
    /\ UNCHANGED <<transport, offered, refused, queue, worker, hand, attempt, sock, lost, exit, last>>

OnWire(c) == {conns[c].wire[n] : n \in DOMAIN conns[c].wire}

Forget(c) ==
    /\ ~conns[c].up
    /\ conns[c].wire # <<>>
    /\ lost' = lost \cup OnWire(c)
    /\ conns' = [conns EXCEPT ![c].wire = <<>>]
    /\ UNCHANGED <<transport, offered, refused, queue, worker, hand, attempt, sock, exit, last>>

Next ==
    \/ SendSyslog \/ Worker
    \/ BeginExit \/ PutSentinel \/ Exit
    \/ \E c \in DOMAIN conns : Break(c) \/ Read(c) \/ Forget(c)

Spec == Init /\ [][Next]_vars

(* The threads of the process are scheduled; the receiver may stall. *)
FairSpec == Spec /\ WF_vars(Worker) /\ WF_vars(PutSentinel) /\ WF_vars(Exit)

(* The receiver reads what it has been sent. *)
FairReceiverSpec == FairSpec /\ \A c \in 1 .. MaxConns : WF_vars(c \in DOMAIN conns /\ Read(c))
-----------------------------------------------------------------------------
(* Safety. *)

Queued == {queue[n] : n \in DOMAIN queue} \ {Sentinel}

InHand == {hand} \ {0}

WasRead(c) == {conns[c].read[n] : n \in DOMAIN conns[c].read}

Increasing(seq) == \A m, n \in DOMAIN seq : m < n => seq[m] < seq[n]

(* Where messages can be. *)
Places ==
    <<refused, Queued, InHand, lost>>
        \o [c \in DOMAIN conns |-> OnWire(c)] \o [c \in DOMAIN conns |-> WasRead(c)]

(* Every message offered is in exactly one place: turned away, queued, being
   sent, on one connection's wire, read from it, or given up.  No message is
   sent twice by the retry on a new connection, and none vanishes without an
   error that is logged or a connection that breaks (_send_tcp). *)
Accounted ==
    /\ UNION {Places[n] : n \in DOMAIN Places} = Messages
    /\ \A m, n \in DOMAIN Places : m # n => Places[m] \cap Places[n] = {}

(* A connection carries the messages in the order of the send_syslog calls,
   and what a later connection carries was offered after everything on an
   earlier one, whatever was dropped, retried or lost in between. *)
SendOrder ==
    /\ \A c \in DOMAIN conns : Increasing(conns[c].read \o conns[c].wire)
    /\ \A c, d \in DOMAIN conns : c < d =>
          \A m \in OnWire(c) \cup WasRead(c), n \in OnWire(d) \cup WasRead(d) : m < n

(* "Enqueues a None sentinel and joins the thread so in-flight messages are
   sent": when the worker has stopped, every message accepted before the
   sentinel has been sent or given up by it, none is left in the queue. *)
DrainedWhenStopped ==
    worker = "stopped" => InHand = {} /\ \A m \in Queued : m > last

(* What has happened to a message is final: one that was read, lost or turned
   away is never delivered afterwards ("best-effort"). *)
Channel == INSTANCE BestEffortChannel WITH
    pending   <- Queued \cup InHand \cup UNION {OnWire(c) : c \in DOMAIN conns},
    delivered <- UNION {WasRead(c) : c \in DOMAIN conns}

ImplementsChannel == Channel!Spec

-----------------------------------------------------------------------------
(* Liveness. *)

(* With a receiver that reads, every accepted message leaves the queue as
   long as the process lives: neither a broken connection nor an exception
   stops the worker (_syslog_worker). *)
QueueMoves == \A m \in 1 .. MaxMsgs : m \in Queued ~> m \notin Queued \/ exit = "gone"

(* With a receiver that reads, the exit hook returns, also when it finds the
   queue full (_shutdown_syslog_worker). *)
ExitEnds == exit = "putting" ~> exit = "gone"
=============================================================================
