------------------------------- MODULE Outbox -------------------------------
(***************************************************************************)
(* What a sink does for a stream that keeps a saved cursor: records are    *)
(* accepted into memory or turned away, and an accepted one is done with   *)
(* or given up.  When the process ends, what is in memory goes: a record   *)
(* at the cursor or after it is asked for again, one before it is lost.    *)
(* The promise is in Save: the cursor leaves no record behind that is not  *)
(* pending, done or known to be lost.  Delivery implements this            *)
(* specification twice, for the log file and for syslog.                   *)
(***************************************************************************)
EXTENDS Naturals

CONSTANT Records   \* numbers in the order of the records' stamps

VARIABLES
    cursor,    \* the saved cursor, a record's number, 0 when there is none
    pending,   \* accepted, in the memory of the process
    done,      \* delivered
    lost       \* turned away, given up, or left behind at a process end

vars == <<cursor, pending, done, lost>>

Init ==
    /\ cursor = 0
    /\ pending = {}
    /\ done = {}
    /\ lost = {}

Accept ==
    /\ \E i \in Records : pending' = pending \cup {i}
    /\ UNCHANGED <<cursor, done, lost>>

TurnAway ==
    /\ \E i \in Records : lost' = lost \cup {i}
    /\ UNCHANGED <<cursor, pending, done>>

(* A record accepted more than once may still be pending afterwards. *)
Finish ==
    /\ \E i \in pending :
          /\ pending' \in {pending, pending \ {i}}
          /\ \/ done' = done \cup {i} /\ UNCHANGED lost
             \/ lost' = lost \cup {i} /\ UNCHANGED done
    /\ UNCHANGED cursor

Save ==
    /\ cursor' \in Records \cup {0}
    /\ \A i \in Records : i < cursor' => i \in pending \cup done \cup lost
    /\ UNCHANGED <<pending, done, lost>>

End ==
    /\ pending' = {}
    /\ lost' = lost \cup {i \in pending : i < cursor}
    /\ UNCHANGED <<cursor, done>>

Next == Accept \/ TurnAway \/ Finish \/ Save \/ End

Spec == Init /\ [][Next]_vars
=============================================================================
