---------------------------- MODULE PollStreamInv ----------------------------
(***************************************************************************)
(* The inductive strengthening of NoGap.  NoGap speaks of the cursors; to  *)
(* see that the next cursor is safe one must know what the processor that  *)
(* will save it still holds, in hand and queued, and what the fetch loop   *)
(* has already asked for.  It is about Spec: with Modify it is false.      *)
(* After it, those of the properties about the order of the deliveries.    *)
(***************************************************************************)
EXTENDS PollStream

Records == 1 .. Len(log)

(* What the threads hold are records of the log. *)
IndexInv ==
    /\ live \subseteq Records
    /\ \A s \in Slots :
          /\ proc[s].hand \subseteq Records
          /\ \A n \in 1 .. Len(proc[s].pages) : proc[s].pages[n] \subseteq Records

(* The log is sorted by stamp, nothing in it is superseded or in the future. *)
LogInv ==
    /\ \A i, j \in Records : i <= j => log[i].ts <= log[j].ts
    /\ \A i \in Records : log[i].ts <= now
    /\ live = Records

ClockInv ==
    /\ now <= MaxTime
    /\ mem <= now
    /\ disk <= now
    /\ base <= LookbackStart

(* Dealt with, or about to be by the processor in slot s. *)
Held(s) == handled \cup proc[s].hand

(* What is known of a processor's thread, wherever it is. *)
CursorInv(s) ==
    /\ proc[s].since <= proc[s].maxTs
    /\ proc[s].maxTs <= now
    /\ Clear(proc[s].since)
    /\ \A i \in Records :
          proc[s].since <= log[i].ts /\ log[i].ts < proc[s].maxTs => i \in Held(s)

(* The page in hand has no gap before any of its records. *)
HandInv(s) ==
    /\ proc[s].status = "waiting" => proc[s].hand = {}
    /\ \A j \in proc[s].hand : \A i \in Records :
          i < j /\ proc[s].since <= log[i].ts => i \in Held(s)

(* Nor has a queued page, given the pages queued before it. *)
QueueInv(s) ==
    \A n \in 1 .. Len(proc[s].pages) :
        \A j \in proc[s].pages[n] : \A i \in Records :
            i < j /\ proc[s].since <= log[i].ts
            => i \in Held(s) \/ \E m \in 1 .. n : i \in proc[s].pages[m]

ProcInv(s) ==
    proc[s].status # "free" => CursorInv(s) /\ HandInv(s) /\ QueueInv(s)

(* Held, or in the queue of the processor in slot s. *)
Coming(s, i) ==
    i \in Held(s) \/ \E m \in 1 .. Len(proc[s].pages) : i \in proc[s].pages[m]

(* The results before the next offset have all been put in the queue. *)
FetchInv ==
    loop = "fetching" =>
        LET since == proc[cur].since
        IN  /\ proc[cur].status # "free"
            /\ searchFrom <= Cardinality(Results(since))
            /\ \A i \in Results(since) : Rank(i, since) < searchFrom => Coming(cur, i)

(* Implies NoGap, and is preserved by every step of Next. *)
IInv ==
    /\ TypeOK
    /\ IndexInv
    /\ LogInv
    /\ ClockInv
    /\ NoGap
    /\ \A s \in Slots : ProcInv(s)
    /\ FetchInv

(* The stamp of a record that was handed over, or no cursor at all. *)
Attained(c) == c = 0 \/ \E i \in handled : log[i].ts = c

(* Implies CursorAttained: what a processor has moved away from its start,
   it has moved to the stamp of a record it handed over. *)
AttainedInv ==
    /\ handled \subseteq Records
    /\ Attained(mem)
    /\ Attained(disk)
    /\ \A s \in Slots : proc[s].maxTs > proc[s].since => Attained(proc[s].maxTs)

(* Records come to the processor in the order of their stamps: those in hand
   before the queued ones, the pages in the order of the queue, and the
   processor's maximum is ahead of none of them. *)
OrderInv(s) ==
    /\ \A i \in proc[s].hand : proc[s].maxTs <= log[i].ts
    /\ \A n \in 1 .. Len(proc[s].pages) : \A j \in proc[s].pages[n] :
          /\ proc[s].maxTs <= log[j].ts
          /\ \A i \in proc[s].hand : log[i].ts <= log[j].ts
          /\ \A m \in 1 .. Len(proc[s].pages) :
                m < n => \A i \in proc[s].pages[m] : log[i].ts <= log[j].ts

(* The processor in slot s holds nothing stamped after t. *)
UpTo(s, t) ==
    /\ proc[s].maxTs <= t
    /\ \A i \in proc[s].hand : log[i].ts <= t
    /\ \A n \in 1 .. Len(proc[s].pages) : \A i \in proc[s].pages[n] : log[i].ts <= t

(* Nor is it ahead of what the fetch loop has yet to ask for. *)
FetchOrderInv ==
    loop = "fetching" =>
        \A j \in Results(proc[cur].since) :
            Rank(j, proc[cur].since) >= searchFrom => UpTo(cur, log[j].ts)

(* Implies QueueAhead, given IInv. *)
AheadInv == (\A s \in Slots : OrderInv(s)) /\ FetchOrderInv

(* No reply of an unexpected shape has left a processor running, so that each
   poll joins its own before the next one starts. *)
OneProcessor == \A s, t \in Slots : s = t

(* The processor at work started at the cursor or moved it. *)
BehindInv == \A s \in Slots : proc[s].status # "free" => mem <= proc[s].maxTs
=============================================================================
