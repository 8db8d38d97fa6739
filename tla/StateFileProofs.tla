-------------------------- MODULE StateFileProofs --------------------------
(***************************************************************************)
(* Proofs about StateFile, for any number of streams, cursors and restarts.*)
(***************************************************************************)
EXTENDS StateFile, FiniteSetTheorems, TLAPS

USE StateFileAssumption

LEMMA KeysCounted ==
    ASSUME TypeOK
    PROVE  Keys \in SUBSET Streams /\ Cardinality(Keys) \in Nat
<1>1. Keys \subseteq Streams
    BY DEF Keys
<1>2. IsFiniteSet(Keys)
    BY <1>1, FS_Subset
<1> QED
    BY <1>1, <1>2, FS_CardinalityType

LEMMA ContentType ==
    ASSUME NEW c \in Content
    PROVE  /\ \A k \in Streams : c.items[k] \in Nat
           /\ c.whole \in BOOLEAN
           /\ \A k \in Streams, v \in Nat :
                 /\ [c EXCEPT !.items[k] = v] \in Content
                 /\ [c EXCEPT !.items[k] = v].items[k] = v
                 /\ \A j \in Streams \ {k} : [c EXCEPT !.items[k] = v].items[j] = c.items[j]
                 /\ [c EXCEPT !.items[k] = v].whole = c.whole
           /\ \A w \in BOOLEAN :
                 /\ [c EXCEPT !.whole = w] \in Content
                 /\ [c EXCEPT !.whole = w].items = c.items
                 /\ [c EXCEPT !.whole = w].whole = w
BY DEF Content

LEMMA EmptyType ==
    \A w \in BOOLEAN : [items |-> NoItems, whole |-> w] \in Content
BY DEF NoItems, Content

LEMMA InitInv == Init => IInv
<1> SUFFICES ASSUME Init
             PROVE  IInv
    OBVIOUS
<1>1. tmp \in Content /\ file \in Content
    BY EmptyType DEF Init
<1>2. TypeOK
    BY <1>1 DEF Init, TypeOK, NoItems
<1>3. FileWhole /\ SavedStaysSaved
    BY DEF Init, FileWhole, SavedStaysSaved
<1>4. LockInv /\ DumpInv
    BY DEF Init, LockInv, DumpInv
<1>5. \A k \in Streams : file.items[k] <= state[k]
    BY DEF Init, NoItems
<1> QED
    BY <1>2, <1>3, <1>4, <1>5 DEF IInv

LEMMA StepInv == IInv /\ [Next]_vars => IInv'
<1> SUFFICES ASSUME IInv, [Next]_vars
             PROVE  IInv'
    OBVIOUS
<1> USE DEF IInv
<1>t. /\ file \in Content
      /\ tmp \in Content
      /\ state \in [Streams -> Nat]
    BY DEF TypeOK
<1>1. ASSUME NEW s \in Streams, Advance(s)
      PROVE  IInv'
  <2>1. PICK ts \in 1 .. MaxTs : ts >= state[s] /\ state' = [state EXCEPT ![s] = ts]
      BY <1>1 DEF Advance
  <2>2. ts \in Nat /\ state'[s] = ts
      BY <2>1, <1>t
  <2>3. \A k \in Streams \ {s} : state'[k] = state[k]
      BY <2>1, <1>t
  <2>4. \A k \in Streams : state'[k] \in Nat /\ state[k] \in Nat /\ state[k] <= state'[k]
      BY <2>1, <2>2, <2>3, <1>t
  <2>5. TypeOK'
      BY <1>1, <2>1, <2>2 DEF TypeOK, Advance
  <2>6. (FileWhole /\ SavedStaysSaved /\ LockInv)'
      BY <1>1, <2>3 DEF Advance, FileWhole, SavedStaysSaved, LockInv, TypeOK
  <2>7. DumpInv'
    <3>1. saveLock # s
        BY <1>1 DEF LockInv, Advance, TypeOK
    <3>2. \A k \in Streams : tmp.items[k] \in Nat
        BY ContentType, <1>t
    <3> QED
        BY <1>1, <2>3, <2>4, <3>1, <3>2 DEF Advance, DumpInv, TypeOK
  <2>8. (\A k \in Streams : ~fresh => file.items[k] <= state[k])'
    <3>1. \A k \in Streams : file.items[k] \in Nat
        BY ContentType, <1>t
    <3> QED
        BY <1>1, <2>4, <3>1 DEF Advance
  <2> QED
      BY <2>5, <2>6, <2>7, <2>8
<1>2. ASSUME NEW s \in Streams, Open(s)
      PROVE  IInv'
  <2>1. /\ tmp' \in Content
        /\ tmp'.items = NoItems
      BY <1>2, EmptyType DEF Open
  <2>2. TypeOK'
      BY <1>2, <2>1, KeysCounted DEF TypeOK, Open
  <2>3. (FileWhole /\ SavedStaysSaved /\ LockInv)'
      BY <1>2 DEF Open, FileWhole, SavedStaysSaved, LockInv, TypeOK
  <2>4. \A k \in Streams \ todo' : state'[k] = 0
      BY <1>2 DEF Open, Keys
  <2>5. DumpInv'
      BY <1>2, <2>1, <2>4, <1>t DEF Open, DumpInv, NoItems, TypeOK
  <2>6. (\A k \in Streams : ~fresh => file.items[k] <= state[k])'
      BY <1>2 DEF Open
  <2> QED
      BY <2>2, <2>3, <2>5, <2>6
<1>3. ASSUME NEW s \in Streams, WriteItem(s)
      PROVE  IInv'
  <2>1. PICK k \in todo : tmp' = [tmp EXCEPT !.items[k] = state[k]] /\ todo' = todo \ {k}
      BY <1>3 DEF WriteItem
  <2>2. k \in Streams /\ state[k] \in Nat
      BY <1>t DEF TypeOK
  <2>3. /\ tmp' \in Content
        /\ tmp'.items[k] = state[k]
        /\ \A j \in Streams \ {k} : tmp'.items[j] = tmp.items[j]
        /\ tmp'.whole = tmp.whole
      BY <2>1, <2>2, <1>t, ContentType
  <2>4. TypeOK'
      BY <1>3, <2>1, <2>3 DEF TypeOK, WriteItem
  <2>5. (FileWhole /\ SavedStaysSaved /\ LockInv)'
      BY <1>3 DEF WriteItem, FileWhole, SavedStaysSaved, LockInv
  <2>6. saveLock = s /\ saveLock' = s /\ pc'[s] = "dumping"
      BY <1>3 DEF WriteItem, LockInv
  <2>7. \A j \in Streams \ todo' : j # k => j \in Streams \ todo
      BY <2>1
  <2>8. DumpInv'
      BY <1>3, <2>2, <2>3, <2>6, <2>7 DEF WriteItem, DumpInv, TypeOK
  <2>9. (\A j \in Streams : ~fresh => file.items[j] <= state[j])'
      BY <1>3 DEF WriteItem
  <2> QED
      BY <2>4, <2>5, <2>8, <2>9
<1>4. ASSUME NEW s \in Streams, EndDump(s)
      PROVE  IInv'
  <2>1. tmp' \in Content /\ tmp'.items = tmp.items /\ tmp'.whole = TRUE
      BY <1>4, <1>t, ContentType DEF EndDump
  <2>2. TypeOK'
      BY <1>4, <2>1 DEF TypeOK, EndDump
  <2>3. saveLock = s
      BY <1>4 DEF LockInv, EndDump
  <2>4. (FileWhole /\ SavedStaysSaved /\ LockInv)'
      BY <1>4 DEF EndDump, FileWhole, SavedStaysSaved, LockInv, TypeOK
  <2>5. DumpInv'
      BY <1>4, <2>1, <2>3 DEF EndDump, DumpInv, TypeOK
  <2>6. (\A k \in Streams : ~fresh => file.items[k] <= state[k])'
      BY <1>4 DEF EndDump
  <2> QED
      BY <2>2, <2>4, <2>5, <2>6
<1>5. ASSUME NEW s \in Streams, DumpRaises(s)
      PROVE  IInv'
  <2>1. saveLock = s
      BY <1>5 DEF LockInv, DumpRaises
  <2>2. TypeOK' /\ FileWhole' /\ SavedStaysSaved'
      BY <1>5 DEF TypeOK, DumpRaises, FileWhole, SavedStaysSaved
  <2>3. LockInv' /\ DumpInv'
      BY <1>5, <2>1 DEF DumpRaises, LockInv, DumpInv, TypeOK
  <2>4. (\A k \in Streams : ~fresh => file.items[k] <= state[k])'
      BY <1>5 DEF DumpRaises
  <2> QED
      BY <2>2, <2>3, <2>4
<1>6. ASSUME NEW s \in Streams, Replace(s)
      PROVE  IInv'
  <2>1. saveLock = s
      BY <1>6 DEF LockInv, Replace
  <2>2. /\ \A k \in synced \cup {s} : tmp.items[k] = state[k]
        /\ \A k \in Streams : tmp.items[k] <= state[k]
        /\ tmp.whole
      BY <1>6, <2>1 DEF DumpInv, Replace
  <2>3. TypeOK'
      BY <1>6 DEF TypeOK, Replace
  <2>4. FileWhole' /\ SavedStaysSaved'
      BY <1>6, <2>2 DEF Replace, FileWhole, SavedStaysSaved
  <2>5. LockInv' /\ DumpInv'
      BY <1>6, <2>1 DEF Replace, LockInv, DumpInv, TypeOK
  <2>6. (\A k \in Streams : ~fresh => file.items[k] <= state[k])'
      BY <1>6, <2>2 DEF Replace
  <2> QED
      BY <2>3, <2>4, <2>5, <2>6
<1>7. ASSUME NEW s \in Streams, SaveFails(s)
      PROVE  IInv'
  <2>1. saveLock = s \/ saveLock = None
      BY <1>7 DEF SaveFails, LockInv
  <2>2. saveLock' = None
      BY <1>7 DEF SaveFails
  <2>3. TypeOK' /\ FileWhole' /\ SavedStaysSaved'
      BY <1>7, <2>2 DEF TypeOK, SaveFails, FileWhole, SavedStaysSaved
  <2>4. LockInv' /\ DumpInv'
      BY <1>7, <2>1, <2>2 DEF SaveFails, LockInv, DumpInv, TypeOK
  <2>5. (\A k \in Streams : ~fresh => file.items[k] <= state[k])'
      BY <1>7 DEF SaveFails
  <2> QED
      BY <2>3, <2>4, <2>5
<1>8. ASSUME NEW s \in Streams, NextPoll(s)
      PROVE  IInv'
  <2>1. TypeOK' /\ FileWhole' /\ SavedStaysSaved'
      BY <1>8 DEF TypeOK, NextPoll, FileWhole, SavedStaysSaved
  <2>2. saveLock # s
      BY <1>8 DEF NextPoll, LockInv
  <2>3. LockInv' /\ DumpInv'
      BY <1>8, <2>2 DEF NextPoll, LockInv, DumpInv, TypeOK
  <2>4. (\A k \in Streams : ~fresh => file.items[k] <= state[k])'
      BY <1>8 DEF NextPoll
  <2> QED
      BY <2>1, <2>3, <2>4
<1>9. CASE Restart
  <2>1. /\ state' \in [Streams -> Nat]
        /\ fresh' \in BOOLEAN
        /\ ~fresh' => state' = file.items
    <3>1. file.items \in [Streams -> Nat] /\ NoItems \in [Streams -> Nat]
        BY <1>t DEF Content, NoItems
    <3> QED
        BY <1>9, <3>1 DEF Restart
  <2>2. TypeOK'
      BY <1>9, <2>1 DEF Restart, TypeOK
  <2>3. FileWhole' /\ SavedStaysSaved'
      BY <1>9 DEF Restart, FileWhole, SavedStaysSaved
  <2>4. LockInv' /\ DumpInv'
      BY <1>9 DEF Restart, LockInv, DumpInv
  <2>5. (\A k \in Streams : ~fresh => file.items[k] <= state[k])'
      BY <1>9, <2>1, <1>t, ContentType DEF Restart
  <2> QED
      BY <2>2, <2>3, <2>4, <2>5
<1>10. CASE UNCHANGED vars
    BY <1>10 DEF vars, TypeOK, FileWhole, SavedStaysSaved, LockInv, DumpInv
<1> QED
    BY <1>1, <1>2, <1>3, <1>4, <1>5, <1>6, <1>7, <1>8, <1>9, <1>10
    DEF Next, Writer, Dump

(* IInv holds in every behaviour. *)
THEOREM SaveInvariance == Spec => []IInv
<1>1. IInv /\ [Next]_vars => IInv'
    BY StepInv
<1> QED
    BY InitInv, <1>1, PTL DEF Spec

(* save_state's docstring: a partial write never corrupts the state file. *)
THEOREM FileWholeTheorem == Spec => []FileWhole
<1>1. IInv => FileWhole
    BY DEF IInv
<1> QED
    BY SaveInvariance, <1>1, PTL

(* A successful save is undone by no other stream's save. *)
THEOREM SavedStaysSavedTheorem == Spec => []SavedStaysSaved
<1>1. IInv => SavedStaysSaved
    BY DEF IInv
<1> QED
    BY SaveInvariance, <1>1, PTL

LEMMA StepForward ==
    IInv /\ [Next]_vars =>
        [~fresh => \A k \in Streams : file'.items[k] >= file.items[k]]_vars
<1> SUFFICES ASSUME IInv, [Next]_vars, ~fresh, NEW k \in Streams
             PROVE  file'.items[k] >= file.items[k]
    OBVIOUS
<1>1. file.items[k] \in Nat
    BY ContentType DEF IInv, TypeOK
<1>2. ASSUME NEW s \in Streams, Replace(s)
      PROVE  file'.items[k] >= file.items[k]
  <2>1. todo = {} /\ saveLock = s
      BY <1>2 DEF IInv, LockInv, DumpInv, Replace
  <2>2. file.items[k] <= tmp.items[k]
      BY <2>1 DEF IInv, DumpInv
  <2>3. tmp.items[k] \in Nat
      BY ContentType DEF IInv, TypeOK
  <2> QED
      BY <1>1, <1>2, <2>2, <2>3 DEF Replace
<1>3. ASSUME file' = file
      PROVE  file'.items[k] >= file.items[k]
    BY <1>1, <1>3
<1> QED
    BY <1>2, <1>3 DEF Next, Writer, Dump, Advance, Open, WriteItem, EndDump, DumpRaises,
                      SaveFails, NextPoll, Restart, vars

(* No save moves another stream's saved cursor back. *)
THEOREM NoRollbackTheorem == Spec => NoRollback
<1>1. IInv /\ [Next]_vars =>
        [~fresh => \A k \in Streams : file'.items[k] >= file.items[k]]_vars
    BY StepForward
<1> QED
    BY SaveInvariance, <1>1, PTL DEF Spec, NoRollback
=============================================================================
