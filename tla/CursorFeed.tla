----------------------------- MODULE CursorFeed -----------------------------
(***************************************************************************)
(* What one stream of the poller promises, without threads, pages, HTTP or *)
(* a state file format: a service appends records with non-decreasing      *)
(* timestamps, the poller deals with them in any order and any number of   *)
(* times, and it keeps a cursor in memory and a saved copy of it.  The     *)
(* promise is in Advance: the cursor moves to a timestamp only when every  *)
(* record of the current window before that timestamp has been dealt with. *)
(* PollStream implements this specification.                               *)
(***************************************************************************)
EXTENDS Naturals, Sequences

CONSTANT Times   \* the service's clock values, natural numbers

VARIABLES
    stamps,   \* timestamps of the service's records, in order of arrival
    base,     \* start of the latest lookback window
    cursor,   \* the in-memory cursor, 0 when there is none
    saved,    \* the cursor in the state file, 0 when there is none
    dealt     \* indices of the records dealt with so far (history)

vars == <<stamps, base, cursor, saved, dealt>>

Records == 1 .. Len(stamps)

(* Every record of the window older than c has been dealt with. *)
Clear(c) == \A i \in Records : base <= stamps[i] /\ stamps[i] < c => i \in dealt

Init ==
    /\ stamps = <<>>
    /\ base = 0
    /\ cursor = 0
    /\ saved = 0
    /\ dealt = {}

(* A record arrives, not older than any other nor than a cursor. *)
Arrive ==
    /\ \E t \in Times :
          /\ t >= cursor /\ t >= saved
          /\ \A i \in Records : stamps[i] <= t
          /\ stamps' = Append(stamps, t)
    /\ UNCHANGED <<base, cursor, saved, dealt>>

Deal ==
    /\ \E i \in Records : dealt' = dealt \cup {i}
    /\ UNCHANGED <<stamps, base, cursor, saved>>

(* The cursor moves, and the saved copy with it or not at all. *)
Advance ==
    /\ \E c \in Times :
          /\ Clear(c)
          /\ cursor' = c
          /\ saved' \in {saved, c}
    /\ UNCHANGED <<stamps, base, dealt>>

Persist ==
    /\ saved' = cursor
    /\ UNCHANGED <<stamps, base, cursor, dealt>>

(* A restart resumes from the saved cursor, or from none when the file
   cannot be read. *)
Restart ==
    /\ cursor' \in {saved, 0}
    /\ UNCHANGED <<stamps, base, saved, dealt>>

(* Without a cursor the window starts later: what is older is given up. *)
Rebase ==
    /\ cursor = 0
    /\ \E b \in Times : b >= base /\ base' = b
    /\ UNCHANGED <<stamps, cursor, saved, dealt>>

Next == Arrive \/ Deal \/ Advance \/ Persist \/ Restart \/ Rebase

Spec == Init /\ [][Next]_vars
=============================================================================
