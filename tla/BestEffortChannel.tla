------------------------- MODULE BestEffortChannel -------------------------
(***************************************************************************)
(* What the syslog output promises: "best-effort" delivery.  A message is  *)
(* accepted or turned away when it is offered; an accepted one is          *)
(* delivered once or lost, and neither can be undone.  SyslogSender        *)
(* implements it.                                                          *)
(***************************************************************************)
EXTENDS Naturals

VARIABLES
    offered,    \* number of messages offered, which also names them
    pending,    \* accepted and not yet delivered or lost
    delivered   \* written by the receiver

vars == <<offered, pending, delivered>>

Init ==
    /\ offered = 0
    /\ pending = {}
    /\ delivered = {}

Offer ==
    /\ offered' = offered + 1
    /\ pending' \in {pending, pending \cup {offered'}}
    /\ UNCHANGED delivered

Deliver ==
    /\ \E m \in pending :
          /\ pending' = pending \ {m}
          /\ delivered' = delivered \cup {m}
    /\ UNCHANGED offered

Lose ==
    /\ pending' \in SUBSET pending
    /\ UNCHANGED <<offered, delivered>>

Next == Offer \/ Deliver \/ Lose

Spec == Init /\ [][Next]_vars
=============================================================================
