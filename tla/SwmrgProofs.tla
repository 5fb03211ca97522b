---------------------------- MODULE SwmrgProofs -----------------------------
(***************************************************************************)
(* Proofs about Swmrg, for every finite set of threads: the lock's counts  *)
(* are exact, no wake-up is lost, writers exclude everybody else, and the  *)
(* lock implements the safety part of RWLock.                              *)
(*                                                                         *)
(* Exclusion is not inductive: done decides on the counters alone, so the  *)
(* proof has to know that the counters agree with where the threads are,   *)
(* including the threads the lock was handed to that have not woken.       *)
(***************************************************************************)
EXTENDS Swmrg, FiniteSetTheorems, TLAPS

\* What done and the wake-ups rely on; each conjunct is an invariant that the
\* run swmrg checks.
IInv == /\ TypeOK
        /\ ActiveIsExact
        /\ NoLostWakeup
        /\ OneRelease
        /\ NeverIdleWithWaiters

-----------------------------------------------------------------------------
\* Three shares that add up to nothing, or to one, which the first one has.
LEMMA Shares ==
  ASSUME NEW x \in Nat, NEW y \in Nat, NEW z \in Nat
  PROVE  /\ x + y + z = 0 => x = 0 /\ y = 0 /\ z = 0
         /\ x + y + z = 1 /\ x > 0 => x = 1 /\ y = 0 /\ z = 0
OBVIOUS

\* The number of threads at a place is a natural number, zero exactly when
\* nobody is there; any finite Threads.
LEMMA CountType ==
  ASSUME NEW p
  PROVE  /\ Count(p) \in Nat
         /\ Count(p) = 0 <=> At(p) = {}
         /\ \A t \in At(p) : Count(p) > 0
         /\ \A t, u \in At(p) : Count(p) = 1 => t = u
<1>1. At(p) \in SUBSET Threads
  BY DEF At
<1>2. IsFiniteSet(At(p))
  BY <1>1, ThreadsFinite, FS_Subset
<1>3. Count(p) \in Nat /\ (Count(p) = 0 <=> At(p) = {})
  BY <1>2, FS_CardinalityType, FS_EmptySet DEF Count
<1>4. Count(p) = 1 => \A t, u \in At(p) : t = u
  BY <1>2, FS_Singleton DEF Count
<1>. QED  BY <1>3, <1>4

\* A thread that goes from one place to another is added to the second, taken
\* from the first, and no other place is affected.
LEMMA GotoCounts ==
  ASSUME TypeOK, NEW t \in Threads, NEW o \in PCs, NEW q \in PCs,
         pc[t] = o, o # q, Goto(t, q)
  PROVE  /\ At(q)' = At(q) \cup {t} /\ Count(q)' = Count(q) + 1
         /\ At(o)' = At(o) \ {t} /\ Count(o)' = Count(o) - 1
         /\ \A p \in PCs \ {q, o} : At(p)' = At(p) /\ Count(p)' = Count(p)
<1>1. pc' = [pc EXCEPT ![t] = q] /\ pc \in [Threads -> PCs]
  BY DEF Goto, TypeOK
<1>2. At(q)' = At(q) \cup {t} /\ t \notin At(q)
  BY <1>1 DEF At
<1>3. At(o)' = At(o) \ {t} /\ t \in At(o)
  BY <1>1 DEF At
<1>4. \A p \in PCs \ {q, o} : At(p)' = At(p)
  BY <1>1 DEF At
<1>5. IsFiniteSet(At(q)) /\ IsFiniteSet(At(o))
  BY ThreadsFinite, FS_Subset, At(q) \in SUBSET Threads,
     At(o) \in SUBSET Threads DEF At
<1>6. Count(q)' = Count(q) + 1
  BY <1>2, <1>5, FS_AddElement DEF Count
<1>7. Count(o)' = Count(o) - 1
  BY <1>3, <1>5, FS_RemoveElement DEF Count
<1>8. \A p \in PCs \ {q, o} : Count(p)' = Count(p)
  BY <1>4 DEF Count
<1>. QED  BY <1>2, <1>3, <1>4, <1>6, <1>7, <1>8

\* Nothing the invariant speaks of depends on anything but vars.
LEMMA StutterCounts ==
  ASSUME UNCHANGED pc, NEW p
  PROVE  At(p)' = At(p) /\ Count(p)' = Count(p)
BY DEF At, Count
-----------------------------------------------------------------------------
\* Every variable keeps its type: the counters and the semaphores never go
\* below zero, and m_nActive has no negative value but -1
\* (AC/SyncObject.h:130-132).
THEOREM TypeCorrect == Spec => []TypeOK
<1>1. Init => TypeOK
  BY DEF Init, TypeOK, PCs
<1>2. TypeOK /\ [Next]_vars => TypeOK'
  <2> SUFFICES ASSUME TypeOK, [Next]_vars
               PROVE  TypeOK'
    OBVIOUS
  <2>. USE DEF TypeOK, PCs, Goto, counters, semaphores
  <2>1. ASSUME NEW t \in Threads, WaitToRead(t)
        PROVE  TypeOK'
    BY <2>1 DEF WaitToRead
  <2>2. ASSUME NEW t \in Threads, WakeReader(t)
        PROVE  TypeOK'
    BY <2>2 DEF WakeReader
  <2>3. ASSUME NEW t \in Threads, WaitToWrite(t)
        PROVE  TypeOK'
    BY <2>3 DEF WaitToWrite
  <2>4. ASSUME NEW t \in Threads, WakeWriter(t)
        PROVE  TypeOK'
    BY <2>4 DEF WakeWriter
  <2>5. ASSUME NEW t \in Threads, Done(t)
        PROVE  TypeOK'
    <3>1. CASE PassToWriter(t)
      BY <2>5, <3>1 DEF Done, PassToWriter, Hand
    <3>2. CASE PassToReaders(t)
      BY <2>5, <3>2 DEF Done, PassToReaders, Hand
    <3>3. CASE PassToNobody(t)
      BY <2>5, <3>3 DEF Done, PassToNobody, Left
    <3>. QED  BY <2>5, <3>1, <3>2, <3>3 DEF Done
  <2>6. ASSUME NEW t \in Threads, Release(t)
        PROVE  TypeOK'
    BY <2>6 DEF Release
  <2>7. CASE UNCHANGED vars
    BY <2>7 DEF vars
  <2>. QED  BY <2>1, <2>2, <2>3, <2>4, <2>5, <2>6, <2>7 DEF Next
<1>. QED  BY <1>1, <1>2, PTL DEF Spec

-----------------------------------------------------------------------------
\* The initial state has nobody anywhere but at "idle".
LEMMA InitInv == Init => IInv
<1> SUFFICES ASSUME Init PROVE IInv
  OBVIOUS
<1>1. TypeOK
  BY DEF Init, TypeOK, PCs
<1>2. \A p \in PCs \ {"idle"} : At(p) = {} /\ Count(p) = 0
  BY CountType DEF Init, At
<1>3. \A p \in {"reading", "writing", "blockedR", "blockedW", "wakesR", "wakesW"} :
        p \in PCs \ {"idle"}
  BY DEF PCs
<1>4. ActiveIsExact /\ NoLostWakeup /\ OneRelease /\ NeverIdleWithWaiters
  BY <1>2, <1>3
     DEF Init, ActiveIsExact, NoLostWakeup, OneRelease, NeverIdleWithWaiters, Owed
<1>. QED  BY <1>1, <1>4 DEF IInv

\* A reader queues behind a writer, or joins the readers.
LEMMA WaitToReadInv ==
  ASSUME IInv, TypeOK', NEW t \in Threads, WaitToRead(t)
  PROVE  IInv'
<1>. USE DEF IInv
<1>1. CASE WritePending
  <2>1. /\ pc[t] = "idle" /\ Goto(t, "blockedR")
        /\ m_nWaitingReaders' = m_nWaitingReaders + 1
        /\ UNCHANGED <<m_nWaitingWriters, m_nActive, semReaders, semWriters, lCount>>
    BY <1>1 DEF WaitToRead, semaphores
  <2>2. /\ Count("blockedR")' = Count("blockedR") + 1
        /\ \A p \in PCs \ {"idle", "blockedR"} : At(p)' = At(p) /\ Count(p)' = Count(p)
    BY <2>1, GotoCounts DEF PCs
  <2>3. m_nActive # 0
    BY <1>1 DEF WritePending, NeverIdleWithWaiters
  <2>4. \A p \in {"reading", "writing", "blockedW", "wakesR", "wakesW"} :
          At(p)' = At(p) /\ Count(p)' = Count(p)
    BY <2>2 DEF PCs
  <2>5. ActiveIsExact'
    BY <2>1, <2>4 DEF ActiveIsExact, Owed
  <2>6. OneRelease'
    BY <2>1, <2>4 DEF OneRelease
  <2>7. NoLostWakeup'
    BY <2>1, <2>2, <2>4, CountType DEF NoLostWakeup, Owed, TypeOK
  <2>8. NeverIdleWithWaiters'
    BY <2>1, <2>3 DEF NeverIdleWithWaiters
  <2>. QED  BY <2>5, <2>6, <2>7, <2>8
<1>2. CASE ~WritePending
  <2>1. /\ pc[t] = "idle" /\ Goto(t, "reading") /\ m_nActive' = m_nActive + 1
        /\ m_nActive \in Nat
        /\ UNCHANGED <<m_nWaitingReaders, m_nWaitingWriters, semReaders, semWriters, lCount>>
    BY <1>2 DEF WaitToRead, WritePending, semaphores, TypeOK
  <2>2. /\ Count("reading")' = Count("reading") + 1
        /\ \A p \in PCs \ {"idle", "reading"} : At(p)' = At(p) /\ Count(p)' = Count(p)
    BY <2>1, GotoCounts DEF PCs
  <2>3. ActiveIsExact' /\ OneRelease' /\ NoLostWakeup'
    BY <2>1, <2>2, CountType
       DEF ActiveIsExact, OneRelease, NoLostWakeup, Owed, PCs, TypeOK
  <2>4. NeverIdleWithWaiters'
    BY <2>1 DEF NeverIdleWithWaiters
  <2>. QED  BY <2>3, <2>4
<1>. QED  BY <1>1, <1>2

\* A writer queues, or takes a free lock.
LEMMA WaitToWriteInv ==
  ASSUME IInv, TypeOK', NEW t \in Threads, WaitToWrite(t)
  PROVE  IInv'
<1>. USE DEF IInv
<1>1. CASE m_nActive # 0
  <2>1. /\ pc[t] = "idle" /\ Goto(t, "blockedW")
        /\ m_nWaitingWriters' = m_nWaitingWriters + 1
        /\ UNCHANGED <<m_nWaitingReaders, m_nActive, semReaders, semWriters, lCount>>
    BY <1>1 DEF WaitToWrite, semaphores
  <2>2. /\ Count("blockedW")' = Count("blockedW") + 1
        /\ \A p \in PCs \ {"idle", "blockedW"} : At(p)' = At(p) /\ Count(p)' = Count(p)
    BY <2>1, GotoCounts DEF PCs
  <2>3. \A p \in {"reading", "writing", "blockedR", "wakesR", "wakesW"} :
          At(p)' = At(p) /\ Count(p)' = Count(p)
    BY <2>2 DEF PCs
  <2>4. ActiveIsExact'
    BY <2>1, <2>3 DEF ActiveIsExact, Owed
  <2>5. OneRelease'
    BY <2>1, <2>3 DEF OneRelease
  <2>6. NoLostWakeup'
    BY <2>1, <2>2, <2>3, CountType DEF NoLostWakeup, Owed, TypeOK
  <2>7. NeverIdleWithWaiters'
    BY <1>1, <2>1 DEF NeverIdleWithWaiters
  <2>. QED  BY <2>4, <2>5, <2>6, <2>7
<1>2. CASE m_nActive = 0
  <2>1. /\ pc[t] = "idle" /\ Goto(t, "writing") /\ m_nActive' = -1
        /\ UNCHANGED <<m_nWaitingReaders, m_nWaitingWriters, semReaders, semWriters, lCount>>
    BY <1>2 DEF WaitToWrite, semaphores
  <2>2. /\ Count("writing")' = Count("writing") + 1
        /\ \A p \in PCs \ {"idle", "writing"} : At(p)' = At(p) /\ Count(p)' = Count(p)
    BY <2>1, GotoCounts DEF PCs
  <2>3. \A p \in {"reading", "blockedR", "blockedW", "wakesR", "wakesW"} :
          At(p)' = At(p) /\ Count(p)' = Count(p)
    BY <2>2 DEF PCs
  <2>4. At("wakesR") = {} /\ Count("reading") + semReaders = 0
    <3>1. Count("reading") \in Nat /\ semReaders \in Nat
      BY CountType DEF TypeOK
    <3>2. Owed("wakesR", 0 - Count("reading") - semReaders)
      BY <1>2 DEF ActiveIsExact
    <3>3. ASSUME NEW u \in At("wakesR")
          PROVE  FALSE
      BY <3>1, <3>2 DEF Owed, OneRelease
    <3>. QED  BY <3>1, <3>2, <3>3 DEF Owed
  <2>5. ActiveIsExact'
    <3>1. /\ Count("reading") \in Nat /\ Count("writing") \in Nat
          /\ Count("wakesW") \in Nat
          /\ semReaders \in Nat /\ semWriters \in Nat /\ Count("wakesR") = 0
      BY <2>4, CountType DEF TypeOK
    <3>2. Count("writing") + semWriters + Count("wakesW") = 0
      BY <1>2 DEF ActiveIsExact
    <3>3. Count("writing") = 0 /\ semWriters = 0 /\ Count("wakesW") = 0
      BY <3>1, <3>2
    <3>4. Count("reading")' + semReaders' + Count("wakesR")' = 0
      BY <2>1, <2>3, <2>4, <3>1
    <3>5. Count("writing")' + semWriters' + Count("wakesW")' = 1
      BY <2>1, <2>2, <2>3, <3>3
    <3>. QED  BY <2>1, <3>4, <3>5 DEF ActiveIsExact
  <2>6. OneRelease'
    BY <2>1, <2>3 DEF OneRelease
  <2>7. NoLostWakeup'
    BY <2>1, <2>3 DEF NoLostWakeup, Owed
  <2>8. NeverIdleWithWaiters'
    BY <2>1 DEF NeverIdleWithWaiters
  <2>. QED  BY <2>5, <2>6, <2>7, <2>8
<1>. QED  BY <1>1, <1>2

\* A woken reader was counted in m_nActive when the lock was passed on.
LEMMA WakeReaderInv ==
  ASSUME IInv, TypeOK', NEW t \in Threads, WakeReader(t)
  PROVE  IInv'
<1>. USE DEF IInv
<1>1. /\ pc[t] = "blockedR" /\ Goto(t, "reading")
      /\ semReaders > 0 /\ semReaders' = semReaders - 1
      /\ UNCHANGED <<m_nWaitingReaders, m_nWaitingWriters, m_nActive, semWriters, lCount>>
  BY DEF WakeReader, counters
<1>2. /\ Count("reading")' = Count("reading") + 1
      /\ At("blockedR")' = At("blockedR") \ {t}
      /\ Count("blockedR")' = Count("blockedR") - 1
      /\ \A p \in PCs \ {"blockedR", "reading"} : At(p)' = At(p) /\ Count(p)' = Count(p)
  BY <1>1, GotoCounts DEF PCs
<1>3. \A p \in {"writing", "blockedW", "wakesR", "wakesW"} :
        At(p)' = At(p) /\ Count(p)' = Count(p)
  BY <1>2 DEF PCs
<1>4. ActiveIsExact'
  BY <1>1, <1>2, <1>3, CountType DEF ActiveIsExact, Owed, TypeOK
<1>5. OneRelease'
  BY <1>1, <1>3 DEF OneRelease
<1>6. NoLostWakeup'
  BY <1>1, <1>2, <1>3, CountType DEF NoLostWakeup, Owed, TypeOK
<1>7. NeverIdleWithWaiters'
  BY <1>1, <1>2, <1>3 DEF NeverIdleWithWaiters
<1>. QED  BY <1>4, <1>5, <1>6, <1>7

\* A woken writer is the one that -1 stood for.
LEMMA WakeWriterInv ==
  ASSUME IInv, TypeOK', NEW t \in Threads, WakeWriter(t)
  PROVE  IInv'
<1>. USE DEF IInv
<1>1. /\ pc[t] = "blockedW" /\ Goto(t, "writing")
      /\ semWriters > 0 /\ semWriters' = semWriters - 1
      /\ UNCHANGED <<m_nWaitingReaders, m_nWaitingWriters, m_nActive, semReaders, lCount>>
  BY DEF WakeWriter, counters
<1>2. /\ Count("writing")' = Count("writing") + 1
      /\ At("blockedW")' = At("blockedW") \ {t}
      /\ Count("blockedW")' = Count("blockedW") - 1
      /\ \A p \in PCs \ {"blockedW", "writing"} : At(p)' = At(p) /\ Count(p)' = Count(p)
  BY <1>1, GotoCounts DEF PCs
<1>3. \A p \in {"reading", "blockedR", "wakesR", "wakesW"} :
        At(p)' = At(p) /\ Count(p)' = Count(p)
  BY <1>2 DEF PCs
<1>4. ActiveIsExact'
  BY <1>1, <1>2, <1>3, CountType DEF ActiveIsExact, Owed, TypeOK
<1>5. OneRelease'
  BY <1>1, <1>3 DEF OneRelease
<1>6. NoLostWakeup'
  BY <1>1, <1>2, <1>3, CountType DEF NoLostWakeup, Owed, TypeOK
<1>7. NeverIdleWithWaiters'
  BY <1>1, <1>2, <1>3 DEF NeverIdleWithWaiters
<1>. QED  BY <1>4, <1>5, <1>6, <1>7

\* Before done, the caller's own share is in m_nActive.  If the caller is the
\* last to leave, nobody else has the lock and nobody is being woken.
LEMMA LastOut ==
  ASSUME IInv, NEW t \in Threads, pc[t] \in {"reading", "writing"}, Left = 0
  PROVE  /\ At("wakesR") = {} /\ At("wakesW") = {}
         /\ semReaders = 0 /\ semWriters = 0
         /\ Count("reading") + Count("writing") = 1
<1>1. /\ Count("reading") \in Nat /\ Count("writing") \in Nat
      /\ Count("wakesR") \in Nat /\ Count("wakesW") \in Nat
      /\ semReaders \in Nat /\ semWriters \in Nat /\ m_nActive \in Nat \cup {-1}
  BY CountType DEF IInv, TypeOK
<1>2. CASE pc[t] = "reading"
  <2>1. Count("reading") > 0
    BY <1>2, CountType DEF At
  <2>2. m_nActive \in Nat
    BY <1>1, <2>1 DEF IInv, ActiveIsExact
  <2>3. /\ Owed("wakesR", m_nActive - Count("reading") - semReaders)
        /\ Count("writing") + semWriters + Count("wakesW") = 0
    BY <2>2 DEF IInv, ActiveIsExact
  <2>4. Count("writing") = 0 /\ semWriters = 0 /\ At("wakesW") = {}
    BY <1>1, <2>3, CountType
  <2>5. m_nActive <= 1
    BY <2>2 DEF Left
  <2>6. ASSUME NEW u \in At("wakesR")
        PROVE  FALSE
    BY <1>1, <2>1, <2>2, <2>3, <2>5 DEF IInv, Owed, OneRelease
  <2>7. At("wakesR") = {}
    BY <2>6
  <2>8. m_nActive = Count("reading") + semReaders
    <3>1. m_nActive - Count("reading") - semReaders = 0
      BY <2>3, <2>7 DEF Owed
    <3>. QED  BY <1>1, <2>2, <3>1
  <2>9. Count("reading") = 1 /\ semReaders = 0
    BY <1>1, <2>1, <2>2, <2>5, <2>8
  <2>. QED  BY <2>4, <2>7, <2>9
<1>3. CASE pc[t] = "writing"
  <2>1. Count("writing") > 0
    BY <1>3, CountType DEF At
  <2>2. m_nActive = -1
    BY <1>1, <2>1 DEF IInv, ActiveIsExact
  <2>3. /\ Count("writing") + semWriters + Count("wakesW") = 1
        /\ Count("reading") + semReaders + Count("wakesR") = 0
    BY <2>2 DEF IInv, ActiveIsExact
  <2>4. Count("writing") = 1 /\ semWriters = 0 /\ Count("wakesW") = 0
    BY <1>1, <2>1, <2>3, Shares
  <2>5. Count("reading") = 0 /\ semReaders = 0 /\ Count("wakesR") = 0
    BY <1>1, <2>3, Shares
  <2>6. At("wakesR") = {} /\ At("wakesW") = {}
    BY <2>4, <2>5, CountType
  <2>. QED  BY <2>4, <2>5, <2>6
<1>. QED  BY <1>2, <1>3

\* When the last one out goes to q, nobody has the lock any more.
LEMMA AfterLastOut ==
  ASSUME IInv, NEW t \in Threads, pc[t] \in {"reading", "writing"}, Left = 0,
         NEW q \in {"idle", "wakesR", "wakesW"}, Goto(t, q)
  PROVE  /\ Count("reading")' = 0 /\ Count("writing")' = 0
         /\ At(q)' = At(q) \cup {t} /\ Count(q)' = Count(q) + 1
         /\ \A p \in PCs \ {q, "reading", "writing"} : At(p)' = At(p) /\ Count(p)' = Count(p)
<1>1. PICK o \in {"reading", "writing"} : pc[t] = o
  OBVIOUS
<1>2. Count("reading") \in Nat /\ Count("writing") \in Nat /\ Count(o) > 0
  BY <1>1, CountType DEF At
<1>3. Count("reading") + Count("writing") = 1
  BY LastOut
<1>4. /\ At(q)' = At(q) \cup {t} /\ Count(q)' = Count(q) + 1
      /\ Count(o)' = Count(o) - 1
      /\ \A p \in PCs \ {q, o} : At(p)' = At(p) /\ Count(p)' = Count(p)
  BY <1>1, GotoCounts DEF IInv, PCs
<1>5. CASE o = "reading"
  <2>1. Count("writing")' = Count("writing")
    BY <1>4, <1>5 DEF PCs
  <2>2. Count("reading") = 1 /\ Count("writing") = 0
    BY <1>2, <1>3, <1>5
  <2>. QED  BY <1>4, <1>5, <2>1, <2>2
<1>6. CASE o = "writing"
  <2>1. Count("reading")' = Count("reading")
    BY <1>4, <1>6 DEF PCs
  <2>2. Count("writing") = 1 /\ Count("reading") = 0
    BY <1>2, <1>3, <1>6
  <2>. QED  BY <1>4, <1>6, <2>1, <2>2
<1>. QED  BY <1>5, <1>6

\* The last one out passes the lock to one of the writers.
LEMMA PassToWriterInv ==
  ASSUME IInv, TypeOK', NEW t \in Threads, Done(t), PassToWriter(t)
  PROVE  IInv'
<1>1. /\ pc[t] \in {"reading", "writing"} /\ Left = 0 /\ Goto(t, "wakesW")
      /\ m_nActive' = -1 /\ m_nWaitingWriters' = m_nWaitingWriters - 1
      /\ lCount' = [lCount EXCEPT ![t] = 1]
      /\ UNCHANGED <<m_nWaitingReaders, semReaders, semWriters>>
  BY DEF Done, PassToWriter, Hand, semaphores
<1>2. /\ At("wakesR") = {} /\ At("wakesW") = {} /\ Count("wakesW") = 0
      /\ semReaders = 0 /\ semWriters = 0
  BY <1>1, LastOut, CountType
<1>3. /\ Count("reading")' = 0 /\ Count("writing")' = 0
      /\ At("wakesW")' = {t} /\ Count("wakesW")' = 1
      /\ \A p \in PCs \ {"wakesW", "reading", "writing"} : At(p)' = At(p) /\ Count(p)' = Count(p)
  BY <1>1, <1>2, AfterLastOut
<1>4. /\ At("wakesR")' = {} /\ Count("wakesR")' = 0
      /\ Count("blockedR")' = Count("blockedR") /\ Count("blockedW")' = Count("blockedW")
  BY <1>2, <1>3, CountType DEF PCs
<1>5. ActiveIsExact'
  BY <1>1, <1>2, <1>3, <1>4 DEF ActiveIsExact
<1>6. OneRelease'
  BY <1>1, <1>3, <1>4 DEF OneRelease, IInv, TypeOK
<1>7. NoLostWakeup'
  <2>1. Count("blockedW") = m_nWaitingWriters
    BY <1>2, CountType DEF IInv, NoLostWakeup, TypeOK
  <2>2. Count("blockedW")' = m_nWaitingWriters' + semWriters' + Count("wakesW")'
    BY <1>1, <1>2, <1>3, <1>4, <2>1 DEF IInv, TypeOK
  <2>3. Owed("wakesR", Count("blockedR") - m_nWaitingReaders - semReaders)'
    BY <1>1, <1>2, <1>4 DEF IInv, NoLostWakeup, Owed
  <2>. QED  BY <2>2, <2>3 DEF NoLostWakeup
<1>8. NeverIdleWithWaiters'
  BY <1>1 DEF NeverIdleWithWaiters
<1>. QED  BY <1>5, <1>6, <1>7, <1>8 DEF IInv

\* The last one out passes the lock to all the waiting readers.
LEMMA PassToReadersInv ==
  ASSUME IInv, TypeOK', NEW t \in Threads, Done(t), PassToReaders(t)
  PROVE  IInv'
<1>1. /\ pc[t] \in {"reading", "writing"} /\ Left = 0 /\ Goto(t, "wakesR")
      /\ m_nActive' = m_nWaitingReaders /\ m_nWaitingReaders' = 0
      /\ m_nWaitingReaders > 0
      /\ lCount' = [lCount EXCEPT ![t] = m_nWaitingReaders]
      /\ UNCHANGED <<m_nWaitingWriters, semReaders, semWriters>>
  BY DEF Done, PassToReaders, Hand, semaphores
<1>2. /\ At("wakesR") = {} /\ At("wakesW") = {} /\ Count("wakesW") = 0
      /\ semReaders = 0 /\ semWriters = 0
  BY <1>1, LastOut, CountType
<1>3. /\ Count("reading")' = 0 /\ Count("writing")' = 0 /\ At("wakesR")' = {t}
      /\ \A p \in PCs \ {"wakesR", "reading", "writing"} : At(p)' = At(p) /\ Count(p)' = Count(p)
  BY <1>1, <1>2, AfterLastOut
<1>4. /\ At("wakesW")' = {} /\ Count("wakesW")' = 0
      /\ Count("blockedR")' = Count("blockedR") /\ Count("blockedW")' = Count("blockedW")
  BY <1>2, <1>3 DEF PCs
<1>5. lCount'[t] = m_nWaitingReaders /\ m_nWaitingReaders \in Nat
  BY <1>1 DEF IInv, TypeOK
<1>6. ActiveIsExact'
  BY <1>1, <1>2, <1>3, <1>4, <1>5 DEF ActiveIsExact, Owed
<1>7. OneRelease'
  BY <1>1, <1>3, <1>4, <1>5 DEF OneRelease
<1>8. NoLostWakeup'
  <2>1. Count("blockedR") = m_nWaitingReaders
    BY <1>2, <1>5, CountType DEF IInv, NoLostWakeup, Owed
  <2>2. Owed("wakesR", Count("blockedR") - m_nWaitingReaders - semReaders)'
    BY <1>1, <1>2, <1>3, <1>4, <1>5, <2>1 DEF Owed
  <2>3. Count("blockedW")' = m_nWaitingWriters' + semWriters' + Count("wakesW")'
    BY <1>1, <1>2, <1>4 DEF IInv, NoLostWakeup
  <2>. QED  BY <2>2, <2>3 DEF NoLostWakeup
<1>9. NeverIdleWithWaiters'
  BY <1>1 DEF NeverIdleWithWaiters
<1>. QED  BY <1>6, <1>7, <1>8, <1>9 DEF IInv

\* The lock becomes free with nobody waiting, or stays with the other readers.
LEMMA PassToNobodyInv ==
  ASSUME IInv, TypeOK', NEW t \in Threads, Done(t), PassToNobody(t)
  PROVE  IInv'
<1>1. /\ pc[t] \in {"reading", "writing"} /\ Goto(t, "idle") /\ m_nActive' = Left
      /\ UNCHANGED <<m_nWaitingReaders, m_nWaitingWriters, semReaders, semWriters, lCount>>
  BY DEF Done, PassToNobody, semaphores
<1>2. CASE Left = 0
  <2>1. m_nWaitingReaders = 0 /\ m_nWaitingWriters = 0
    BY <1>2 DEF PassToNobody, Unwanted, IInv, TypeOK
  <2>2. /\ At("wakesR") = {} /\ At("wakesW") = {} /\ Count("wakesW") = 0
        /\ semReaders = 0 /\ semWriters = 0
    BY <1>1, <1>2, LastOut, CountType
  <2>3. /\ Count("reading")' = 0 /\ Count("writing")' = 0
        /\ \A p \in PCs \ {"idle", "reading", "writing"} : At(p)' = At(p) /\ Count(p)' = Count(p)
    BY <1>1, <1>2, AfterLastOut
  <2>4. \A p \in {"blockedR", "blockedW", "wakesR", "wakesW"} :
          At(p)' = At(p) /\ Count(p)' = Count(p)
    BY <2>3 DEF PCs
  <2>5. ActiveIsExact'
    BY <1>1, <1>2, <2>2, <2>3, <2>4 DEF ActiveIsExact, Owed
  <2>6. OneRelease'
    BY <1>1, <2>4 DEF OneRelease, IInv
  <2>7. NoLostWakeup'
    BY <1>1, <2>4 DEF NoLostWakeup, Owed, IInv
  <2>8. Count("blockedR") = 0 /\ Count("blockedW") = 0
    BY <2>1, <2>2, CountType DEF IInv, NoLostWakeup, Owed
  <2>9. NeverIdleWithWaiters'
    BY <1>1, <2>1, <2>4, <2>8, CountType DEF NeverIdleWithWaiters
  <2>. QED  BY <2>5, <2>6, <2>7, <2>9 DEF IInv
<1>3. CASE Left # 0
  <2>1. /\ Count("reading") \in Nat /\ Count("writing") \in Nat
        /\ Count("wakesW") \in Nat /\ semWriters \in Nat /\ semReaders \in Nat
        /\ m_nActive \in Nat \cup {-1}
    BY CountType DEF IInv, TypeOK
  <2>2. m_nActive # -1
    BY <1>3 DEF Left
  <2>3. m_nActive \in Nat
    BY <2>1, <2>2
  <2>4. /\ Owed("wakesR", m_nActive - Count("reading") - semReaders)
        /\ Count("writing") + semWriters + Count("wakesW") = 0
    BY <2>3 DEF IInv, ActiveIsExact
  <2>5. Count("writing") = 0
    BY <2>1, <2>4, Shares
  <2>6. pc[t] = "reading"
    BY <1>1, <2>5, CountType DEF At
  <2>7. /\ Count("reading")' = Count("reading") - 1
        /\ \A p \in PCs \ {"idle", "reading"} : At(p)' = At(p) /\ Count(p)' = Count(p)
    BY <1>1, <2>6, GotoCounts DEF IInv, PCs
  <2>8. \A p \in {"writing", "blockedR", "blockedW", "wakesR", "wakesW"} :
          At(p)' = At(p) /\ Count(p)' = Count(p)
    BY <2>7 DEF PCs
  <2>9. m_nActive' = m_nActive - 1 /\ m_nActive' >= 0
    <3>1. Count("reading") > 0
      BY <2>6, CountType DEF At
    <3>2. m_nActive # 0
      BY <2>1, <2>4, <3>1 DEF Owed, IInv, OneRelease, TypeOK
    <3>. QED  BY <1>1, <2>3, <3>2 DEF Left
  <2>10. ActiveIsExact'
    <3>1. m_nActive' - Count("reading")' - semReaders'
            = m_nActive - Count("reading") - semReaders
      BY <1>1, <2>1, <2>3, <2>7, <2>9
    <3>. QED  BY <1>1, <2>4, <2>8, <2>9, <3>1 DEF ActiveIsExact, Owed
  <2>11. OneRelease'
    BY <1>1, <2>8 DEF OneRelease, IInv
  <2>12. NoLostWakeup'
    BY <1>1, <2>8 DEF NoLostWakeup, Owed, IInv
  <2>13. NeverIdleWithWaiters'
    BY <1>1, <1>3 DEF NeverIdleWithWaiters
  <2>. QED  BY <2>10, <2>11, <2>12, <2>13 DEF IInv
<1>. QED  BY <1>2, <1>3

\* A release moves what is owed into the semaphore.
LEMMA ReleaseInv ==
  ASSUME IInv, TypeOK', NEW t \in Threads, Release(t)
  PROVE  IInv'
<1>1. /\ Goto(t, "idle") /\ lCount' = [lCount EXCEPT ![t] = 0]
      /\ UNCHANGED <<m_nWaitingReaders, m_nWaitingWriters, m_nActive>>
      /\ m_nActive \in Nat \cup {-1}
      /\ Count("reading") \in Nat /\ Count("writing") \in Nat
      /\ Count("blockedR") \in Nat /\ Count("blockedW") \in Nat
      /\ m_nWaitingReaders \in Nat /\ m_nWaitingWriters \in Nat
      /\ semReaders \in Nat /\ semWriters \in Nat
  BY CountType DEF Release, counters, IInv, TypeOK
<1>2. CASE pc[t] = "wakesR"
  <2>1. semReaders' = semReaders + lCount[t] /\ semWriters' = semWriters
    BY <1>2 DEF Release
  <2>2. /\ Count("wakesR")' = Count("wakesR") - 1 /\ At("wakesR")' = At("wakesR") \ {t}
        /\ \A p \in PCs \ {"idle", "wakesR"} : At(p)' = At(p) /\ Count(p)' = Count(p)
    BY <1>1, <1>2, GotoCounts DEF IInv, PCs
  <2>3. \A p \in {"reading", "writing", "blockedR", "blockedW", "wakesW"} :
          At(p)' = At(p) /\ Count(p)' = Count(p)
    BY <2>2 DEF PCs
  <2>4. At("wakesR") = {t} /\ At("wakesR")' = {} /\ At("wakesW") = {} /\ lCount[t] > 0
    BY <1>2, <2>2 DEF IInv, OneRelease, At
  <2>5. Count("wakesR") # 0 /\ m_nActive \in Nat /\ lCount[t] \in Nat
    <3>1. Count("wakesR") # 0 /\ Count("wakesR") \in Nat
      BY <2>4, CountType
    <3>2. ~(m_nActive < 0)
      BY <1>1, <3>1, Shares DEF IInv, ActiveIsExact
    <3>. QED  BY <1>1, <3>1, <3>2 DEF IInv, TypeOK
  <2>6. ActiveIsExact'
    <3>1. /\ m_nActive - Count("reading") - semReaders = lCount[t]
          /\ Count("writing") + semWriters + Count("wakesW") = 0
      BY <2>4, <2>5 DEF IInv, ActiveIsExact, Owed
    <3>2. m_nActive' - Count("reading")' - semReaders' = 0
      BY <1>1, <2>1, <2>3, <2>5, <3>1
    <3>. QED  BY <1>1, <2>1, <2>3, <2>4, <2>5, <3>1, <3>2 DEF ActiveIsExact, Owed
  <2>7. OneRelease'
    BY <2>3, <2>4 DEF OneRelease
  <2>8. NoLostWakeup'
    <3>1. Count("blockedR") - m_nWaitingReaders - semReaders = lCount[t]
      BY <2>4 DEF IInv, NoLostWakeup, Owed
    <3>2. Count("blockedR")' - m_nWaitingReaders' - semReaders' = 0
      BY <1>1, <2>1, <2>3, <2>5, <3>1
    <3>. QED  BY <1>1, <2>1, <2>3, <2>4, <3>2 DEF IInv, NoLostWakeup, Owed
  <2>9. NeverIdleWithWaiters'
    BY <1>1, <2>3 DEF IInv, NeverIdleWithWaiters
  <2>. QED  BY <2>6, <2>7, <2>8, <2>9 DEF IInv
<1>3. CASE pc[t] = "wakesW"
  <2>1. semWriters' = semWriters + 1 /\ semReaders' = semReaders
    BY <1>3 DEF Release, IInv, OneRelease, At
  <2>2. /\ Count("wakesW")' = Count("wakesW") - 1 /\ At("wakesW")' = At("wakesW") \ {t}
        /\ \A p \in PCs \ {"idle", "wakesW"} : At(p)' = At(p) /\ Count(p)' = Count(p)
    BY <1>1, <1>3, GotoCounts DEF IInv, PCs
  <2>3. \A p \in {"reading", "writing", "blockedR", "blockedW", "wakesR"} :
          At(p)' = At(p) /\ Count(p)' = Count(p)
    BY <2>2 DEF PCs
  <2>4. At("wakesW") = {t} /\ At("wakesW")' = {} /\ At("wakesR") = {}
    BY <1>3, <2>2 DEF IInv, OneRelease, At
  <2>5. Count("wakesW") > 0 /\ Count("wakesW") \in Nat
    BY <2>4, CountType
  <2>6. semWriters' + Count("wakesW")' = semWriters + Count("wakesW")
    BY <1>1, <2>1, <2>2, <2>5
  <2>7. ActiveIsExact'
    <3>1. ~(m_nActive >= 0)
      BY <1>1, <2>5, Shares DEF IInv, ActiveIsExact
    <3>2. m_nActive < 0
      BY <1>1, <3>1
    <3>3. Count("writing")' + semWriters' + Count("wakesW")' = 1
      BY <1>1, <2>1, <2>2, <2>3, <2>5, <3>2 DEF IInv, ActiveIsExact
    <3>. QED  BY <1>1, <2>1, <2>3, <3>2, <3>3 DEF IInv, ActiveIsExact
  <2>8. OneRelease'
    BY <2>3, <2>4 DEF OneRelease
  <2>9. NoLostWakeup'
    <3>1. Count("blockedW")' = m_nWaitingWriters' + semWriters' + Count("wakesW")'
      BY <1>1, <2>1, <2>2, <2>3, <2>5 DEF IInv, NoLostWakeup
    <3>. QED  BY <1>1, <2>1, <2>3, <2>4, <3>1 DEF IInv, NoLostWakeup, Owed
  <2>10. NeverIdleWithWaiters'
    BY <1>1, <2>3 DEF IInv, NeverIdleWithWaiters
  <2>. QED  BY <2>7, <2>8, <2>9, <2>10 DEF IInv
<1>. QED  BY <1>2, <1>3 DEF Release
-----------------------------------------------------------------------------
\* The counters agree with where the threads are in every reachable state:
\* nobody is handed a lock somebody still has, every blocked thread is counted
\* or on its way to being woken, and a free lock has no waiters.
THEOREM Counting == Spec => []IInv
<1>1. IInv /\ TypeOK' /\ [Next]_vars => IInv'
  <2> SUFFICES ASSUME IInv, TypeOK', [Next]_vars
               PROVE  IInv'
    OBVIOUS
  <2>1. ASSUME NEW t \in Threads, WaitToRead(t)
        PROVE  IInv'
    BY <2>1, WaitToReadInv
  <2>2. ASSUME NEW t \in Threads, WakeReader(t)
        PROVE  IInv'
    BY <2>2, WakeReaderInv
  <2>3. ASSUME NEW t \in Threads, WaitToWrite(t)
        PROVE  IInv'
    BY <2>3, WaitToWriteInv
  <2>4. ASSUME NEW t \in Threads, WakeWriter(t)
        PROVE  IInv'
    BY <2>4, WakeWriterInv
  <2>5. ASSUME NEW t \in Threads, Done(t)
        PROVE  IInv'
    BY <2>5, PassToWriterInv, PassToReadersInv, PassToNobodyInv DEF Done
  <2>6. ASSUME NEW t \in Threads, Release(t)
        PROVE  IInv'
    BY <2>6, ReleaseInv
  <2>7. CASE UNCHANGED vars
    <3>1. /\ UNCHANGED <<m_nWaitingReaders, m_nWaitingWriters, m_nActive,
                        semReaders, semWriters, lCount>>
          /\ \A p : At(p)' = At(p) /\ Count(p)' = Count(p)
      BY <2>7, StutterCounts DEF vars
    <3>. QED  BY <3>1 DEF IInv, ActiveIsExact, NoLostWakeup, OneRelease,
                          NeverIdleWithWaiters, Owed
  <2>. QED  BY <2>1, <2>2, <2>3, <2>4, <2>5, <2>6, <2>7 DEF Next
<1>. QED  BY InitInv, TypeCorrect, <1>1, PTL DEF Spec

\* Principles 1 to 3 of AC/SyncObject.cpp:263-269 hold in every state the
\* counting invariant allows.
LEMMA CountingExcludes == IInv => Exclusion
<1> SUFFICES ASSUME IInv, NEW t \in Threads, NEW u \in Threads,
                    t # u, pc[t] = "writing", pc[u] \in {"reading", "writing"}
             PROVE  FALSE
  BY DEF Exclusion
<1>1. /\ Count("reading") \in Nat /\ Count("wakesR") \in Nat
      /\ Count("writing") \in Nat /\ Count("wakesW") \in Nat
      /\ semReaders \in Nat /\ semWriters \in Nat /\ m_nActive \in Nat \cup {-1}
  BY CountType DEF IInv, TypeOK
<1>2. t \in At("writing") /\ Count("writing") > 0
  BY CountType DEF At
<1>3. ~(m_nActive >= 0)
  BY <1>1, <1>2, Shares DEF IInv, ActiveIsExact
<1>4. m_nActive < 0
  BY <1>1, <1>3
<1>5. Count("writing") = 1 /\ Count("reading") = 0
  BY <1>1, <1>2, <1>4, Shares DEF IInv, ActiveIsExact
<1>6. u \in At("writing")
  BY <1>5, CountType DEF At
<1>. QED  BY <1>2, <1>5, <1>6, CountType

\* While a thread writes, no other thread reads or writes, for every finite
\* set of threads and every interleaving.
THEOREM WritersExclude == Spec => []Exclusion
BY Counting, CountingExcludes, PTL

\* m_nActive, the semaphores and the releases under way agree with the threads,
\* and the lock is never idle while somebody waits.
THEOREM CountsStayExact == Spec => []CountsAgree
<1>1. IInv => CountsAgree
  BY DEF IInv, CountsAgree
<1>. QED  BY <1>1, Counting, PTL

\* No thread blocked on a semaphore is forgotten: it is still counted as
\* waiting, or a count meant for a waiter is in the semaphore or about to be.
THEOREM WakeupsKept == Spec => []NoLostWakeup
<1>1. IInv => NoLostWakeup
  BY DEF IInv
<1>. QED  BY <1>1, Counting, PTL

-----------------------------------------------------------------------------
\* Where a thread is determines what it is doing with the abstract lock.
LEMMA AbstractMoves ==
  ASSUME TypeOK, NEW t \in Threads, NEW q \in PCs, Goto(t, q)
  PROVE  rwLock' = [rwLock EXCEPT ![t] = Abstract[q]]
BY DEF TypeOK, Goto, rwLock

\* Every step of swmrg is a step of the abstract lock, or leaves it alone.
LEMMA RWStep ==
  ASSUME TypeOK, Exclusion', [Next]_vars
  PROVE  [RW!Next]_rwLock
<1>. USE DEF Abstract, PCs
<1>1. \A t \in Threads : rwLock[t] = Abstract[pc[t]] /\ pc[t] \in PCs
  BY DEF rwLock, TypeOK
<1>2. ASSUME NEW t \in Threads, pc'[t] = "reading", pc[t] \in {"idle", "blockedR"},
             Goto(t, "reading")
      PROVE  RW!GrantRead(t)
  <2>1. rwLock' = [rwLock EXCEPT ![t] = "reads"]
    BY <1>2, AbstractMoves
  <2>2. \A u \in Threads : pc[u] # "writing"
    BY <1>2 DEF Exclusion, Goto, TypeOK
  <2>3. \A u \in Threads : rwLock[u] # "writes"
    BY <1>1, <2>2
  <2>. QED  BY <1>1, <1>2, <2>1, <2>3 DEF RW!GrantRead
<1>3. ASSUME NEW t \in Threads, pc'[t] = "writing", pc[t] \in {"idle", "blockedW"},
             Goto(t, "writing")
      PROVE  RW!GrantWrite(t)
  <2>1. rwLock' = [rwLock EXCEPT ![t] = "writes"]
    BY <1>3, AbstractMoves
  <2>2. \A u \in Threads : pc[u] \notin {"reading", "writing"}
    BY <1>3 DEF Exclusion, Goto, TypeOK
  <2>3. \A u \in Threads : rwLock[u] \notin {"reads", "writes"}
    BY <1>1, <2>2
  <2>. QED  BY <1>1, <1>3, <2>1, <2>3 DEF RW!GrantWrite
<1>4. ASSUME NEW t \in Threads, WaitToRead(t)
      PROVE  RW!Next
  <2>1. CASE Goto(t, "blockedR")
    <3>1. rwLock' = [rwLock EXCEPT ![t] = "wantsRead"] /\ rwLock[t] = "idle"
      BY <1>1, <1>4, <2>1, AbstractMoves DEF WaitToRead
    <3>. QED  BY <3>1 DEF RW!Next, RW!Queue
  <2>2. CASE Goto(t, "reading")
    BY <1>2, <1>4, <2>2 DEF WaitToRead, Goto, TypeOK, RW!Next
  <2>. QED  BY <1>4, <2>1, <2>2 DEF WaitToRead
<1>5. ASSUME NEW t \in Threads, WaitToWrite(t)
      PROVE  RW!Next
  <2>1. CASE Goto(t, "blockedW")
    <3>1. rwLock' = [rwLock EXCEPT ![t] = "wantsWrite"] /\ rwLock[t] = "idle"
      BY <1>1, <1>5, <2>1, AbstractMoves DEF WaitToWrite
    <3>. QED  BY <3>1 DEF RW!Next, RW!Queue
  <2>2. CASE Goto(t, "writing")
    BY <1>3, <1>5, <2>2 DEF WaitToWrite, Goto, TypeOK, RW!Next
  <2>. QED  BY <1>5, <2>1, <2>2 DEF WaitToWrite
<1>6. ASSUME NEW t \in Threads, WakeReader(t)
      PROVE  RW!Next
  BY <1>2, <1>6 DEF WakeReader, Goto, TypeOK, RW!Next
<1>7. ASSUME NEW t \in Threads, WakeWriter(t)
      PROVE  RW!Next
  BY <1>3, <1>7 DEF WakeWriter, Goto, TypeOK, RW!Next
<1>8. ASSUME NEW t \in Threads, Done(t)
      PROVE  RW!Next
  <2>1. rwLock' = [rwLock EXCEPT ![t] = "idle"]
    <3>1. PICK q \in {"idle", "wakesR", "wakesW"} : Goto(t, q)
      BY <1>8 DEF Done, PassToWriter, PassToReaders, PassToNobody, Hand
    <3>2. Abstract[q] = "idle" /\ q \in PCs
      OBVIOUS
    <3>. QED  BY <3>1, <3>2, AbstractMoves
  <2>2. rwLock[t] \in {"reads", "writes"}
    BY <1>1, <1>8 DEF Done
  <2>. QED  BY <2>1, <2>2 DEF RW!Next, RW!GiveBack
<1>9. ASSUME NEW t \in Threads, Release(t)
      PROVE  UNCHANGED rwLock
  <2>1. Goto(t, "idle") /\ pc[t] \in {"wakesR", "wakesW"}
    BY <1>9 DEF Release
  <2>2. rwLock' = [rwLock EXCEPT ![t] = "idle"] /\ rwLock[t] = "idle"
    BY <1>1, <2>1, AbstractMoves
  <2>. QED  BY <2>2 DEF rwLock
<1>10. CASE UNCHANGED vars
  BY <1>10 DEF vars, rwLock
<1>. QED  BY <1>4, <1>5, <1>6, <1>7, <1>8, <1>9, <1>10 DEF Next

\* swmrg is a reader/writer lock: each of its behaviours, seen through rwLock,
\* is one of RWLock's, for every finite set of threads.
THEOREM ImplementsSafely == Spec => RW!SafeSpec
<1>1. Init => RW!Init
  BY DEF Init, RW!Init, rwLock, Abstract
<1>. QED  BY <1>1, RWStep, TypeCorrect, WritersExclude, PTL DEF Spec, RW!SafeSpec
=============================================================================
