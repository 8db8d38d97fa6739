------------------------------ MODULE StateFile ------------------------------
(***************************************************************************)
(* The cursors of all streams and the file that keeps them (state.py, with *)
(* its caller in poller_base.py and load_state in cortex.py).  One dict is *)
(* shared by the processor threads.  A thread sets its own key and saves   *)
(* the whole dict: under a lock it truncates one temporary file, writes    *)
(* the dict into it item by item, and renames it over the state file.      *)
(* Nothing stops the other threads from changing the dict meanwhile, and a *)
(* dict that grows makes the iteration raise.                              *)
(*                                                                         *)
(* One processor per stream: PollStream has the case of more.              *)
(***************************************************************************)
EXTENDS Naturals, FiniteSets

CONSTANTS
    Streams,      \* the keys of the dict, one writer each
    MaxTs,        \* bound on the cursors
    MaxCrashes,   \* bound on process restarts
    None          \* no writer

ASSUME StateFileAssumption ==
    /\ IsFiniteSet(Streams) /\ None \notin Streams
    /\ MaxTs \in Nat /\ MaxCrashes \in Nat

VARIABLES
    state,     \* the shared dict: a key's cursor, 0 when it is absent
    pc,        \* each writer: idle, locking, dumping, renaming or dead
    saveLock,  \* the holder of _save_lock
    todo,      \* keys the iteration of the dump has not reached
    size,      \* number of keys when the iteration began
    tmp,       \* STATE_FILE.tmp: the items written, and whether it is whole
    file,      \* STATE_FILE, the same (absent: no items)
    synced,    \* the writers whose latest save succeeded (history)
    fresh,     \* the process started without the file's cursors (history)
    crashes    \* restarts so far (bounded)

vars == <<state, pc, saveLock, todo, size, tmp, file, synced, fresh, crashes>>

NoItems == [k \in Streams |-> 0]

Keys == {k \in Streams : state[k] # 0}

Content == [items : [Streams -> Nat], whole : BOOLEAN]

TypeOK ==
    /\ state \in [Streams -> Nat]
    /\ pc \in [Streams -> {"idle", "locking", "dumping", "renaming", "dead"}]
    /\ saveLock \in Streams \cup {None}
    /\ todo \in SUBSET Streams
    /\ size \in Nat
    /\ tmp \in Content
    /\ file \in Content
    /\ synced \in SUBSET Streams
    /\ fresh \in BOOLEAN
    /\ crashes \in Nat

Init ==
    /\ state = NoItems
    /\ pc = [s \in Streams |-> "idle"]
    /\ saveLock = None
    /\ todo = {}
    /\ size = 0
    /\ tmp = [items |-> NoItems, whole |-> TRUE]
    /\ file = tmp
    /\ synced = Streams
    /\ fresh = FALSE
    /\ crashes = 0

-----------------------------------------------------------------------------
(* state[state_key] = ctx["max_ts"]: a page ended with a cursor past the
   start of the poll, perhaps the one of the page before. *)
Advance(s) ==
    /\ pc[s] = "idle"
    /\ \E ts \in 1 .. MaxTs : ts >= state[s] /\ state' = [state EXCEPT ![s] = ts]
    /\ pc' = [pc EXCEPT ![s] = "locking"]
    /\ synced' = synced \ {s}
    /\ UNCHANGED <<saveLock, todo, size, tmp, file, fresh, crashes>>

OpenUnlocked(s) ==                      \* mutant: no lock
    /\ pc[s] = "locking"
    /\ saveLock' = s
    /\ tmp' = [items |-> NoItems, whole |-> FALSE]
    /\ todo' = Keys
    /\ size' = Cardinality(Keys)
    /\ pc' = [pc EXCEPT ![s] = "dumping"]
    /\ UNCHANGED <<state, file, synced, fresh, crashes>>

(* The lock is taken, the temporary file truncated, the iteration begun. *)
Open(s) ==
    /\ pc[s] = "locking"
    /\ saveLock = None
    /\ saveLock' = s
    /\ tmp' = [items |-> NoItems, whole |-> FALSE]
    /\ todo' = Keys
    /\ size' = Cardinality(Keys)
    /\ pc' = [pc EXCEPT ![s] = "dumping"]
    /\ UNCHANGED <<state, file, synced, fresh, crashes>>

(* json.dump writes an item.  The order is the dict's, which is not
   tracked: any order. *)
WriteItem(s) ==
    /\ pc[s] = "dumping"
    /\ Cardinality(Keys) = size
    /\ \E k \in todo :
          /\ tmp' = [tmp EXCEPT !.items[k] = state[k]]
          /\ todo' = todo \ {k}
    /\ UNCHANGED <<state, pc, saveLock, size, file, synced, fresh, crashes>>

(* The iteration ends, the file is closed. *)
EndDump(s) ==
    /\ pc[s] = "dumping"
    /\ Cardinality(Keys) = size
    /\ todo = {}
    /\ tmp' = [tmp EXCEPT !.whole = TRUE]
    /\ pc' = [pc EXCEPT ![s] = "renaming"]
    /\ UNCHANGED <<state, saveLock, todo, size, file, synced, fresh, crashes>>

DumpRaisesLocked(s) ==                  \* mutant: the lock is not released
    /\ pc[s] = "dumping"
    /\ Cardinality(Keys) # size
    /\ pc' = [pc EXCEPT ![s] = "dead"]
    /\ UNCHANGED <<state, saveLock, todo, size, tmp, file, synced, fresh, crashes>>

(* "dictionary changed size during iteration": a RuntimeError, which
   save_state does not catch, ends the processor thread. *)
DumpRaises(s) ==
    /\ pc[s] = "dumping"
    /\ Cardinality(Keys) # size
    /\ saveLock' = None
    /\ pc' = [pc EXCEPT ![s] = "dead"]
    /\ UNCHANGED <<state, todo, size, tmp, file, synced, fresh, crashes>>

Replace(s) ==
    /\ pc[s] = "renaming"
    /\ file' = tmp
    /\ saveLock' = None
    /\ synced' = synced \cup {s}
    /\ pc' = [pc EXCEPT ![s] = "idle"]
    /\ UNCHANGED <<state, todo, size, tmp, fresh, crashes>>

SaveFailsRenaming(s) ==                 \* mutant: os.replace in a finally clause
    /\ pc[s] \in {"dumping", "renaming"}
    /\ file' = tmp
    /\ saveLock' = None
    /\ pc' = [pc EXCEPT ![s] = "idle"]
    /\ UNCHANGED <<state, todo, size, tmp, synced, fresh, crashes>>

(* open, write, close or rename fails with an OSError, which is logged: the
   save is not tried again until the next page. *)
SaveFails(s) ==
    /\ \/ pc[s] = "locking" /\ saveLock = None /\ UNCHANGED saveLock
       \/ pc[s] \in {"dumping", "renaming"} /\ saveLock' = None
    /\ pc' = [pc EXCEPT ![s] = "idle"]
    /\ UNCHANGED <<state, todo, size, tmp, file, synced, fresh, crashes>>

(* The next poll of the stream starts a new processor. *)
NextPoll(s) ==
    /\ pc[s] = "dead"
    /\ pc' = [pc EXCEPT ![s] = "idle"]
    /\ UNCHANGED <<state, saveLock, todo, size, tmp, file, synced, fresh, crashes>>

(* The process ends; load_state returns the file's items, or none when it
   cannot be read. *)
Restart ==
    /\ crashes < MaxCrashes
    /\ crashes' = crashes + 1
    /\ \/ file.whole /\ state' = file.items /\ fresh' = FALSE
       \/ state' = NoItems /\ fresh' = TRUE
    /\ synced' = {s \in Streams : state'[s] = file.items[s]}
    /\ pc' = [s \in Streams |-> "idle"]
    /\ saveLock' = None
    /\ UNCHANGED <<todo, size, tmp, file>>

Dump(s) == WriteItem(s) \/ EndDump(s) \/ DumpRaises(s) \/ Replace(s)

Writer(s) == Advance(s) \/ Open(s) \/ Dump(s) \/ SaveFails(s) \/ NextPoll(s)

Next == (\E s \in Streams : Writer(s)) \/ Restart

Spec == Init /\ [][Next]_vars

(* The threads are scheduled.  Between two saves of a thread lie network
   requests and sleeps, so the lock is free again and again and a waiting
   thread gets it in the end. *)
FairSpec == Spec /\ \A s \in Streams : SF_vars(Open(s)) /\ WF_vars(Dump(s))
-----------------------------------------------------------------------------
(* "A partial write will never corrupt the existing state file": what a
   restart would load is a whole dump, although the writers share one
   temporary file and may fail or die in the middle of it (save_state). *)
FileWhole == file.whole

(* A stream whose save succeeded stays saved: the file has its cursor until
   it sets a newer one, whatever the other streams write over the file in the
   meantime, from dumps begun before or after (poll_stream, save_state). *)
SavedStaysSaved ==
    \A s \in synced : file.items[s] = state[s]

(* No save moves another stream's cursor in the file back, except in a
   process that started without the file (save_state, load_state). *)
NoRollback ==
    [][~fresh => \A k \in Streams : file'.items[k] >= file.items[k]]_vars

(* Every save ends: no thread waits for a lock that is not given back
   (save_state, _save_lock). *)
SavesEnd ==
    \A s \in Streams : pc[s] = "locking" ~> pc[s] \in {"idle", "dead"}

(* The lock is with the thread that dumps or renames. *)
LockInv ==
    \A s \in Streams : pc[s] \in {"dumping", "renaming"} <=> saveLock = s

(* The temporary file, as far as it has been written: the saving thread's own
   cursor and those already saved are in it, it is not behind the file, and
   it is whole when it is renamed. *)
DumpInv ==
    \A s \in Streams : saveLock = s =>
        /\ \A k \in (synced \cup {s}) \ todo : tmp.items[k] = state[k]
        /\ \A k \in Streams \ todo : ~fresh => file.items[k] <= tmp.items[k]
        /\ \A k \in Streams : tmp.items[k] <= state[k]
        /\ pc[s] = "renaming" => todo = {} /\ tmp.whole

(* Preserved by every step, and enough for the three properties above. *)
IInv ==
    /\ TypeOK
    /\ FileWhole
    /\ SavedStaysSaved
    /\ LockInv
    /\ DumpInv
    /\ \A k \in Streams : ~fresh => file.items[k] <= state[k]

(* "Each stream runs in its own daemon thread so all four polls are
   independent": no stream's processor is ended by what the others do. *)
StreamsIndependent == \A s \in Streams : pc[s] # "dead"
=============================================================================
