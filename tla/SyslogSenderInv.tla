--------------------------- MODULE SyslogSenderInv ---------------------------
(***************************************************************************)
(* The inductive strengthening of Accounted, SendOrder and                 *)
(* DrainedWhenStopped.  They follow from one order: what the connections   *)
(* carry, one after the other, then the message in hand, then the queue,   *)
(* holds the messages in the order of their numbers, with those missing    *)
(* that were turned away or lost.                                          *)
(***************************************************************************)
EXTENDS SyslogSender

(* What has left the process on connection c. *)
Carried(c) == OnWire(c) \cup WasRead(c)

(* What the process holds. *)
Held == Queued \cup InHand

(* The worker's hand and its connection, which is the newest one. *)
WorkerInv ==
    /\ worker = "sending" <=> hand # 0
    /\ sock \in {0, Len(conns)}
    /\ transport = "udp" => sock = 0

(* The queue is in the order of the calls. *)
QueueInv ==
    \A n \in DOMAIN queue :
        /\ queue[n] <= offered
        /\ queue[n] # Sentinel => hand < queue[n]
        /\ \A k \in DOMAIN queue :
              n < k /\ queue[n] # Sentinel /\ queue[k] # Sentinel => queue[n] < queue[k]

(* Behind the sentinel there are only messages offered after it. *)
SentinelInv ==
    /\ last <= offered
    /\ exit \in {"running", "putting"} => worker # "stopped"
    /\ worker = "stopped" => \A k \in DOMAIN queue : queue[k] > last
    /\ \A n \in DOMAIN queue : queue[n] = Sentinel =>
          /\ exit \notin {"running", "putting"}
          /\ \A k \in DOMAIN queue : n < k => queue[k] > last

(* The order on a connection, between connections, and towards the process. *)
ConnInv ==
    \A c \in DOMAIN conns :
        /\ Increasing(conns[c].read)
        /\ Increasing(conns[c].wire)
        /\ \A m \in WasRead(c), n \in OnWire(c) : m < n
        /\ \A d \in DOMAIN conns : c < d => \A m \in Carried(c), n \in Carried(d) : m < n
        /\ \A m \in Carried(c), n \in Held : m < n

Gone == refused \cup lost

(* Every message is somewhere, and what is gone is nowhere else. *)
PlaceInv ==
    /\ Gone \cup Held \subseteq Messages
    /\ \A c \in DOMAIN conns : Carried(c) \subseteq Messages
    /\ \A m \in Messages :
          m \in Gone \/ m \in Held \/ \E c \in DOMAIN conns : m \in Carried(c)
    /\ refused \cap lost = {}
    /\ \A m \in Gone : m \notin Held /\ \A c \in DOMAIN conns : m \notin Carried(c)

(* Implies the three invariants above, and is preserved by every step. *)
IInv ==
    /\ TypeOK
    /\ WorkerInv
    /\ QueueInv
    /\ SentinelInv
    /\ ConnInv
    /\ PlaceInv
=============================================================================
