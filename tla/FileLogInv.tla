----------------------------- MODULE FileLogInv -----------------------------
(***************************************************************************)
(* The inductive strengthening of the invariants of FileLog: how the days  *)
(* of the handler and of the files agree, what there is room for, how the  *)
(* lines in hand and in the queue continue those in the files, and what    *)
(* the sentinel separates.                                                 *)
(***************************************************************************)
EXTENDS FileLog

(* The interval has begun, the file has changed in it or later, the line in
   hand belongs to it, and no rotated file is of a later one or of the same
   day as another. *)
DayInv ==
    /\ rolloverAt <= today + 1
    /\ touched <= today
    /\ stream # "missing" => rolloverAt <= touched + 1
    /\ \A l \in hand : l.day = rolloverAt - 1
    /\ IsFiniteSet(backups)
    /\ \A b \in backups : b.day < rolloverAt
    /\ \A b, c \in backups : b.day = c.day => b = c

(* There is room for the line in hand, and for one more in a file that a
   rollover has left without a stream. *)
RoomInv ==
    /\ unsaved <= Len(file)
    /\ stream = "missing" => file = <<>>
    /\ hand # {} \/ stream = "none" => Len(file) < MaxBytes + faults

(* The line in hand is later than those in the files, and the queued lines are
   in order and later than all of them. *)
OrderInv ==
    /\ \A i \in DOMAIN file : file[i].n <= logged
    /\ \A b \in backups : \A i \in DOMAIN b.lines : b.lines[i].n <= logged
    /\ \A l \in hand :
          /\ l.n <= logged
          /\ \A i \in DOMAIN file : file[i].n < l.n
          /\ \A b \in backups : \A i \in DOMAIN b.lines : b.lines[i].n < l.n
    /\ \A n \in DOMAIN queue :
          /\ queue[n] <= logged
          /\ queue[n] # Sentinel =>
                /\ \A k \in DOMAIN queue : n < k /\ queue[k] # Sentinel => queue[n] < queue[k]
                /\ \A l \in hand : l.n < queue[n]
                /\ \A i \in DOMAIN file : file[i].n < queue[n]
                /\ \A b \in backups : \A i \in DOMAIN b.lines : b.lines[i].n < queue[n]

(* Behind the sentinel there are only lines logged after it. *)
StopInv ==
    /\ last <= logged
    /\ exit = "running" => listening
    /\ exit = "gone" => ~listening
    /\ ~listening => hand = {} /\ \A k \in DOMAIN queue : queue[k] > last
    /\ \A n \in DOMAIN queue : queue[n] = Sentinel =>
          /\ exit = "joining"
          /\ \A k \in DOMAIN queue : n < k => queue[k] > last

(* Implies the other invariants, and is preserved by every step. *)
IInv ==
    /\ TypeOK
    /\ DayInv
    /\ RoomInv
    /\ OrderInv
    /\ StopInv
    /\ Chronicle
    /\ DaysApart
    /\ DiskBounded
=============================================================================
