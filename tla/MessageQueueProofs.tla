------------------------- MODULE MessageQueueProofs -------------------------
(***************************************************************************)
(* Proofs about MessageQueue, for any threads and any number of pushes:    *)
(* the semaphore accounts for the entries of the list, the list is only    *)
(* worked on under the mutex, and the queue implements Fifo.               *)
(***************************************************************************)
EXTENDS MessageQueue, FiniteSetTheorems, TLAPS

(* A producer that is in ws_pushQueue() has an element to push; a producer *)
(* never extracts and a consumer never appends.                            *)
Roles ==
    /\ \A p \in Producers : /\ at[p] # "extract"
                            /\ at[p] # "idle" => element[p] \in Messages
    /\ \A c \in Consumers : at[c] \notin {"append", "post"}

(* The inductive invariant.                                                *)
IInv == mqTypeOK /\ SemCounts /\ ListLocked /\ Roles

-----------------------------------------------------------------------------
(* Granted and Unposted are finite, so their cardinalities are numbers.    *)
LEMMA FiniteParts ==
    /\ IsFiniteSet(Granted) /\ Cardinality(Granted) \in Nat
    /\ IsFiniteSet(Unposted) /\ Cardinality(Unposted) \in Nat
<1>1. IsFiniteSet(Granted)
  <2>1. Granted \subseteq Consumers
    BY DEF Granted
  <2> QED
    BY <2>1, MessageQueueAssumption, FS_Subset
<1>2. IsFiniteSet(Unposted)
  <2>1. Unposted \subseteq Producers
    BY DEF Unposted
  <2> QED
    BY <2>1, MessageQueueAssumption, FS_Subset
<1> QED
  BY <1>1, <1>2, FS_CardinalityType

(* The initial state satisfies the invariant.                              *)
LEMMA InitIInv == mqInit => IInv
<1> SUFFICES ASSUME mqInit PROVE IInv
  OBVIOUS
<1> USE MessageQueueAssumption
<1>1. mqTypeOK
  BY DEF mqInit, mqTypeOK, mqThreads
<1>2. SemCounts
  <2>1. Granted = {} /\ Unposted = {}
    BY DEF mqInit, Granted, Unposted
  <2> QED
    BY <2>1, FS_EmptySet DEF mqInit, SemCounts
<1>3. ListLocked
  BY DEF mqInit, ListLocked, mqThreads
<1>4. Roles
  BY DEF mqInit, Roles
<1> QED
  BY <1>1, <1>2, <1>3, <1>4 DEF IInv

(* Types are preserved, step by step of the two operations.                *)
LEMMA TypeStep == IInv /\ [mqNext]_mqVars => mqTypeOK'
<1> SUFFICES ASSUME IInv, [mqNext]_mqVars PROVE mqTypeOK'
  OBVIOUS
<1> USE MessageQueueAssumption DEF IInv, mqTypeOK, mqThreads
<1>1. ASSUME NEW p \in Producers, NEW m \in Messages, PushCall(p, m)
      PROVE  mqTypeOK'
  BY <1>1 DEF PushCall
<1>2. ASSUME NEW p \in Producers, PushLock(p) PROVE mqTypeOK'
  BY <1>2 DEF PushLock
<1>3. ASSUME NEW p \in Producers, PushAppend(p) PROVE mqTypeOK'
  <2>1. element[p] \in Messages
    BY <1>3 DEF PushAppend, Roles
  <2> QED
    BY <1>3, <2>1 DEF PushAppend
<1>4. ASSUME NEW p \in Producers, PushUnlock(p) PROVE mqTypeOK'
  BY <1>4 DEF PushUnlock
<1>5. ASSUME NEW p \in Producers, PushPost(p) PROVE mqTypeOK'
  BY <1>5 DEF PushPost
<1>6. ASSUME NEW c \in Consumers, PopWait(c) PROVE mqTypeOK'
  BY <1>6 DEF PopWait
<1>7. ASSUME NEW c \in Consumers, PopLock(c) PROVE mqTypeOK'
  BY <1>7 DEF PopLock
<1>8. ASSUME NEW c \in Consumers, PopExtract(c) PROVE mqTypeOK'
  BY <1>8 DEF PopExtract
<1>9. ASSUME NEW c \in Consumers, PopUnlock(c) PROVE mqTypeOK'
  BY <1>9 DEF PopUnlock
<1>10. CASE UNCHANGED mqVars
  BY <1>10 DEF mqVars
<1> QED
  BY <1>1, <1>2, <1>3, <1>4, <1>5, <1>6, <1>7, <1>8, <1>9, <1>10
     DEF mqNext, PushStep, PopStep

(* The mutex protects the list at every step.                              *)
LEMMA LockStep == IInv /\ [mqNext]_mqVars => ListLocked' /\ Roles'
<1> SUFFICES ASSUME IInv, [mqNext]_mqVars PROVE ListLocked' /\ Roles'
  OBVIOUS
<1> USE MessageQueueAssumption DEF IInv, mqTypeOK, mqThreads, ListLocked, Roles
<1>1. ASSUME NEW p \in Producers, NEW m \in Messages, PushCall(p, m)
      PROVE  ListLocked' /\ Roles'
  BY <1>1 DEF PushCall
<1>2. ASSUME NEW p \in Producers, PushLock(p) PROVE ListLocked' /\ Roles'
  BY <1>2 DEF PushLock
<1>3. ASSUME NEW p \in Producers, PushAppend(p) PROVE ListLocked' /\ Roles'
  BY <1>3 DEF PushAppend
<1>4. ASSUME NEW p \in Producers, PushUnlock(p) PROVE ListLocked' /\ Roles'
  BY <1>4 DEF PushUnlock
<1>5. ASSUME NEW p \in Producers, PushPost(p) PROVE ListLocked' /\ Roles'
  BY <1>5 DEF PushPost
<1>6. ASSUME NEW c \in Consumers, PopWait(c) PROVE ListLocked' /\ Roles'
  BY <1>6 DEF PopWait
<1>7. ASSUME NEW c \in Consumers, PopLock(c) PROVE ListLocked' /\ Roles'
  BY <1>7 DEF PopLock
<1>8. ASSUME NEW c \in Consumers, PopExtract(c) PROVE ListLocked' /\ Roles'
  BY <1>8 DEF PopExtract
<1>9. ASSUME NEW c \in Consumers, PopUnlock(c) PROVE ListLocked' /\ Roles'
  BY <1>9 DEF PopUnlock
<1>10. CASE UNCHANGED mqVars
  BY <1>10 DEF mqVars
<1> QED
  BY <1>1, <1>2, <1>3, <1>4, <1>5, <1>6, <1>7, <1>8, <1>9, <1>10
     DEF mqNext, PushStep, PopStep

(* A consumer on its way to the list finds an entry there.                 *)
LEMMA EntryThere ==
    ASSUME IInv, NEW c \in Consumers, at[c] \in {"lock", "extract"}
    PROVE  list # <<>>
<1>1. c \in Granted
  BY DEF Granted
<1>2. Cardinality(Granted) # 0
  BY <1>1, FiniteParts, FS_EmptySet
<1>3. Len(list) # 0
  BY <1>2, FiniteParts DEF IInv, mqTypeOK, SemCounts
<1> QED
  BY <1>3

(* Every step moves an entry from one part of the account to the next.     *)
LEMMA CountStep == IInv /\ [mqNext]_mqVars => SemCounts'
<1> SUFFICES ASSUME IInv, [mqNext]_mqVars PROVE SemCounts'
  OBVIOUS
<1> USE MessageQueueAssumption, FiniteParts DEF IInv, mqTypeOK, mqThreads
<1>1. ASSUME Granted' = Granted, Unposted' = Unposted, list' = list, sem' = sem
      PROVE  SemCounts'
  BY <1>1 DEF SemCounts
<1>2. ASSUME NEW p \in Producers, NEW m \in Messages, PushCall(p, m)
      PROVE  SemCounts'
  BY <1>1, <1>2 DEF PushCall, Granted, Unposted
<1>3. ASSUME NEW p \in Producers, PushLock(p) PROVE SemCounts'
  BY <1>1, <1>3 DEF PushLock, Granted, Unposted
<1>4. ASSUME NEW p \in Producers, PushAppend(p) PROVE SemCounts'
  <2>1. Granted' = Granted /\ Unposted' = Unposted \cup {p} /\ p \notin Unposted
    BY <1>4 DEF PushAppend, Granted, Unposted
  <2>2. Cardinality(Unposted') = Cardinality(Unposted) + 1
    BY <2>1, FS_AddElement
  <2>3. Len(list') = Len(list) + 1
    BY <1>4 DEF PushAppend, Roles
  <2> QED
    BY <1>4, <2>1, <2>2, <2>3 DEF PushAppend, SemCounts
<1>5. ASSUME NEW p \in Producers, PushUnlock(p) PROVE SemCounts'
  BY <1>1, <1>5 DEF PushUnlock, Granted, Unposted
<1>6. ASSUME NEW p \in Producers, PushPost(p) PROVE SemCounts'
  <2>1. Granted' = Granted /\ Unposted' = Unposted \ {p} /\ p \in Unposted
    BY <1>6 DEF PushPost, Granted, Unposted
  <2>2. Cardinality(Unposted') = Cardinality(Unposted) - 1
    BY <2>1, FS_RemoveElement
  <2> QED
    BY <1>6, <2>1, <2>2 DEF PushPost, SemCounts
<1>7. ASSUME NEW c \in Consumers, PopWait(c) PROVE SemCounts'
  <2>1. Unposted' = Unposted /\ Granted' = Granted \cup {c} /\ c \notin Granted
    BY <1>7 DEF PopWait, Granted, Unposted
  <2>2. Cardinality(Granted') = Cardinality(Granted) + 1
    BY <2>1, FS_AddElement
  <2> QED
    BY <1>7, <2>1, <2>2 DEF PopWait, SemCounts
<1>8. ASSUME NEW c \in Consumers, PopLock(c) PROVE SemCounts'
  BY <1>1, <1>8 DEF PopLock, Granted, Unposted
<1>9. ASSUME NEW c \in Consumers, PopExtract(c) PROVE SemCounts'
  <2>1. Unposted' = Unposted /\ Granted' = Granted \ {c} /\ c \in Granted
    BY <1>9 DEF PopExtract, Granted, Unposted
  <2>2. Cardinality(Granted') = Cardinality(Granted) - 1
    BY <2>1, FS_RemoveElement
  <2>3. list # <<>>
    BY <1>9, EntryThere DEF PopExtract
  <2>4. Len(list') = Len(list) - 1
    BY <1>9, <2>3 DEF PopExtract
  <2> QED
    BY <1>9, <2>1, <2>2, <2>4 DEF PopExtract, SemCounts
<1>10. ASSUME NEW c \in Consumers, PopUnlock(c) PROVE SemCounts'
  BY <1>1, <1>10 DEF PopUnlock, Granted, Unposted
<1>11. CASE UNCHANGED mqVars
  BY <1>1, <1>11 DEF mqVars, Granted, Unposted
<1> QED
  BY <1>2, <1>3, <1>4, <1>5, <1>6, <1>7, <1>8, <1>9, <1>10, <1>11
     DEF mqNext, PushStep, PopStep

(* The invariant is inductive, and so holds of every state.                *)
THEOREM Invariance == mqSpec => []IInv
<1>1. IInv /\ [mqNext]_mqVars => IInv'
  BY TypeStep, LockStep, CountStep DEF IInv
<1> QED
  BY InitIInv, <1>1, PTL DEF mqSpec

(* The semaphore counts what nobody has been promised: ws_popQueue() and   *)
(* ws_pushQueue() never lose or double an announcement.                    *)
THEOREM QueueCounts == mqSpec => []SemCounts
<1>1. IInv => SemCounts
  BY DEF IInv
<1> QED
  BY Invariance, <1>1, PTL

(* Between PlatformLockMutex() and PlatformUnlockMutex() a thread has the  *)
(* list to itself.                                                         *)
THEOREM QueueLocked == mqSpec => []ListLocked
<1>1. IInv => ListLocked
  BY DEF IInv
<1> QED
  BY Invariance, <1>1, PTL

-----------------------------------------------------------------------------
(* The queue starts as an empty Fifo.                                      *)
LEMMA FifoInit == mqInit => F!Init
BY DEF mqInit, F!Init

(* Every step of a push or a pop is a step of Fifo or leaves it alone: the *)
(* element counts as put when it is appended and as taken when extracted.  *)
LEMMA FifoStep == IInv /\ [mqNext]_mqVars => [F!Next]_<<list, ret>>
<1> SUFFICES ASSUME IInv, mqNext PROVE F!Next \/ UNCHANGED <<list, ret>>
  BY DEF mqVars
<1>1. ASSUME NEW p \in Producers, PushAppend(p) PROVE F!Next
  <2>1. element[p] \in Messages
    BY <1>1 DEF PushAppend, IInv, Roles
  <2>2. F!Put(element[p])
    BY <1>1 DEF PushAppend, F!Put
  <2> QED
    BY <2>1, <2>2 DEF F!Next
<1>2. ASSUME NEW c \in Consumers, PopExtract(c) PROVE F!Next
  <2>1. list # <<>>
    BY <1>2, EntryThere DEF PopExtract
  <2>2. F!Take(c)
    BY <1>2, <2>1 DEF PopExtract, F!Take
  <2> QED
    BY <2>2 DEF F!Next
<1>3. ASSUME NEW p \in Producers,
             \/ \E m \in Messages : PushCall(p, m)
             \/ PushLock(p) \/ PushUnlock(p) \/ PushPost(p)
      PROVE  UNCHANGED <<list, ret>>
  BY <1>3 DEF PushCall, PushLock, PushUnlock, PushPost
<1>4. ASSUME NEW c \in Consumers, PopWait(c) \/ PopLock(c) \/ PopUnlock(c)
      PROVE  UNCHANGED <<list, ret>>
  BY <1>4 DEF PopWait, PopLock, PopUnlock
<1> QED
  BY <1>1, <1>2, <1>3, <1>4 DEF mqNext, PushStep, PopStep

(* message_queue.c implements a first-in first-out queue for any number of *)
(* producers and consumers; a pop always returns an element.               *)
THEOREM QueueIsFifo == mqSpec => IsFifo
<1>1. mqSpec => F!Init
  BY FifoInit, PTL DEF mqSpec
<1>2. mqSpec => [][F!Next]_<<list, ret>>
  BY Invariance, FifoStep, PTL DEF mqSpec
<1> QED
  BY <1>1, <1>2, PTL DEF IsFifo, F!Spec
=============================================================================
