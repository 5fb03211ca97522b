------------------------------- MODULE Swmrg --------------------------------
(***************************************************************************)
(* gtc::swmrg (AC/SyncObject.h:94-137, AC/SyncObject.cpp:262-447): a       *)
(* single-writer/multiple-reader guard built from a critical section, two  *)
(* semaphores and three counters.                                          *)
(*                                                                         *)
(* The counters are only touched between EnterCriticalSection and          *)
(* LeaveCriticalSection, so the part of a call inside the section is one   *)
(* step.  What happens after LeaveCriticalSection is a step of its own:    *)
(* waiting on a semaphore (waitToRead, waitToWrite) and releasing one      *)
(* (done).  Between the two, any thread may run.                           *)
(***************************************************************************)
EXTENDS Integers, FiniteSets

CONSTANT Threads    \* the threads that share one swmrg

ASSUME ThreadsFinite == IsFiniteSet(Threads)

VARIABLES
  pc,                   \* where each thread is
  m_nWaitingReaders,
  m_nWaitingWriters,
  m_nActive,            \* > 0: that many readers; -1: a writer; 0: free
  semReaders,           \* the count of m_hsemReaders
  semWriters,           \* the count of m_hsemWriters
  lCount                \* the count each thread is about to release

vars == <<pc, m_nWaitingReaders, m_nWaitingWriters, m_nActive,
          semReaders, semWriters, lCount>>
counters == <<m_nWaitingReaders, m_nWaitingWriters, m_nActive>>
semaphores == <<semReaders, semWriters>>

\* "blockedR", "blockedW": past the critical section, at WaitForSingleObject.
\* "wakesR", "wakesW": in done, past the critical section, at ReleaseSemaphore
\* with hsem = m_hsemReaders or m_hsemWriters.
PCs == {"idle", "blockedR", "reading", "blockedW", "writing", "wakesR", "wakesW"}

At(p) == {t \in Threads : pc[t] = p}
Count(p) == Cardinality(At(p))

Init ==
  /\ pc = [t \in Threads |-> "idle"]
  /\ m_nWaitingReaders = 0 /\ m_nWaitingWriters = 0 /\ m_nActive = 0
  /\ semReaders = 0 /\ semWriters = 0
  /\ lCount = [t \in Threads |-> 0]
-----------------------------------------------------------------------------
Goto(t, p) == pc' = [pc EXCEPT ![t] = p]

\* waitToRead up to LeaveCriticalSection.  (Mut_ operators are seeded bugs: the
\* definition after them is checked to need what they leave out.)
Mut_WritePending_NoQueue == m_nActive < 0
WritePending == m_nWaitingWriters > 0 \/ m_nActive < 0

WaitToRead(t) ==
  /\ pc[t] = "idle"
  /\ \/ /\ WritePending
        /\ m_nWaitingReaders' = m_nWaitingReaders + 1
        /\ Goto(t, "blockedR")
        /\ UNCHANGED m_nActive
     \/ /\ ~WritePending
        /\ m_nActive' = m_nActive + 1
        /\ Goto(t, "reading")
        /\ UNCHANGED m_nWaitingReaders
  /\ UNCHANGED <<m_nWaitingWriters, semaphores, lCount>>

\* waitToWrite up to LeaveCriticalSection.
WaitToWrite(t) ==
  /\ pc[t] = "idle"
  /\ \/ /\ m_nActive # 0
        /\ m_nWaitingWriters' = m_nWaitingWriters + 1
        /\ Goto(t, "blockedW")
        /\ UNCHANGED m_nActive
     \/ /\ m_nActive = 0
        /\ m_nActive' = -1
        /\ Goto(t, "writing")
        /\ UNCHANGED m_nWaitingWriters
  /\ UNCHANGED <<m_nWaitingReaders, semaphores, lCount>>

\* WaitForSingleObject(m_hsemReaders, INFINITE): any waiter may get the count,
\* also one that started to wait after the count was meant for another.
WakeReader(t) ==
  /\ pc[t] = "blockedR" /\ semReaders > 0
  /\ semReaders' = semReaders - 1
  /\ Goto(t, "reading")
  /\ UNCHANGED <<counters, semWriters, lCount>>

WakeWriter(t) ==
  /\ pc[t] = "blockedW" /\ semWriters > 0
  /\ semWriters' = semWriters - 1
  /\ Goto(t, "writing")
  /\ UNCHANGED <<counters, semReaders, lCount>>

\* done up to LeaveCriticalSection, by the branch it takes.  Left is m_nActive
\* after the caller's own share is taken off.
Mut_Left_NoWriter == m_nActive - 1
Left == IF m_nActive > 0 THEN m_nActive - 1 ELSE m_nActive + 1

\* The lock goes straight to those about to be woken: it is theirs before
\* they run.
Mut_Hand_LeavesFree(t, p, active, count) ==
  m_nActive' = 0 /\ lCount' = [lCount EXCEPT ![t] = count] /\ Goto(t, p)
Mut_Hand_WakesOne(t, p, active, count) ==
  m_nActive' = active /\ lCount' = [lCount EXCEPT ![t] = 1] /\ Goto(t, p)
Hand(t, p, active, count) ==
  m_nActive' = active /\ lCount' = [lCount EXCEPT ![t] = count] /\ Goto(t, p)

PassToWriter(t) ==
  /\ Left = 0 /\ m_nWaitingWriters > 0
  /\ m_nWaitingWriters' = m_nWaitingWriters - 1
  /\ UNCHANGED m_nWaitingReaders
  /\ Hand(t, "wakesW", -1, 1)

PassToReaders(t) ==
  /\ Left = 0 /\ m_nWaitingWriters <= 0 /\ m_nWaitingReaders > 0
  /\ m_nWaitingReaders' = 0
  /\ UNCHANGED m_nWaitingWriters
  /\ Hand(t, "wakesR", m_nWaitingReaders, m_nWaitingReaders)

Mut_Unwanted_Forgets == m_nWaitingWriters <= 0
Unwanted == m_nWaitingWriters <= 0 /\ m_nWaitingReaders <= 0

PassToNobody(t) ==
  /\ Left = 0 => Unwanted
  /\ m_nActive' = Left
  /\ Goto(t, "idle")
  /\ UNCHANGED <<m_nWaitingReaders, m_nWaitingWriters, lCount>>

Done(t) ==
  /\ pc[t] \in {"reading", "writing"}
  /\ PassToWriter(t) \/ PassToReaders(t) \/ PassToNobody(t)
  /\ UNCHANGED semaphores

\* ReleaseSemaphore(hsem, lCount, NULL), outside the critical section.
Release(t) ==
  /\ \/ /\ pc[t] = "wakesR"
        /\ semReaders' = semReaders + lCount[t]
        /\ UNCHANGED semWriters
     \/ /\ pc[t] = "wakesW"
        /\ semWriters' = semWriters + lCount[t]
        /\ UNCHANGED semReaders
  /\ lCount' = [lCount EXCEPT ![t] = 0]
  /\ Goto(t, "idle")
  /\ UNCHANGED counters
-----------------------------------------------------------------------------
Next == \E t \in Threads :
          \/ WaitToRead(t) \/ WakeReader(t)
          \/ WaitToWrite(t) \/ WakeWriter(t)
          \/ Done(t) \/ Release(t)

\* A thread that has the lock gives it back, and one that owes a release makes
\* it.  The kernel queues the waiters of a semaphore, so none is passed over
\* for ever: strong fairness.  Nobody is obliged to ask for the lock.
Fairness == \A t \in Threads :
              /\ WF_vars(Done(t)) /\ WF_vars(Release(t))
              /\ SF_vars(WakeReader(t)) /\ SF_vars(WakeWriter(t))

Spec == Init /\ [][Next]_vars
FairSpec == Spec /\ Fairness
-----------------------------------------------------------------------------
TypeOK ==
  /\ pc \in [Threads -> PCs]
  /\ m_nWaitingReaders \in Nat /\ m_nWaitingWriters \in Nat
  /\ m_nActive \in Nat \cup {-1}
  /\ semReaders \in Nat /\ semWriters \in Nat
  /\ lCount \in [Threads -> Nat]

\* The four principles of AC/SyncObject.cpp:263-269: a writer excludes every
\* other thread that is past waitToRead or waitToWrite and not yet in done.
Exclusion ==
  \A t, u \in Threads :
    t # u /\ pc[t] = "writing" => pc[u] \notin {"reading", "writing"}

\* n is what the threads at p are about to add to their semaphore.
Owed(p, n) == IF At(p) = {} THEN n = 0 ELSE \A t \in At(p) : n = lCount[t]

\* m_nActive counts the readers that have the lock together with those it was
\* handed to and that have not woken; -1 stands for one writer, in either
\* situation.  So nobody is handed a lock that somebody still has.
ActiveIsExact ==
  /\ m_nActive >= 0 =>
       /\ Owed("wakesR", m_nActive - Count("reading") - semReaders)
       /\ Count("writing") + semWriters + Count("wakesW") = 0
  /\ m_nActive < 0 =>
       /\ Count("writing") + semWriters + Count("wakesW") = 1
       /\ Count("reading") + semReaders + Count("wakesR") = 0

\* No lost wake-up: every thread blocked on a semaphore is either still counted
\* as waiting, so that a later done releases it, or has its release on the way.
NoLostWakeup ==
  /\ Owed("wakesR", Count("blockedR") - m_nWaitingReaders - semReaders)
  /\ Count("blockedW")
       = m_nWaitingWriters + semWriters + Count("wakesW")

\* The release made after LeaveCriticalSection is never still outstanding when
\* another done decides on a release of its own.
OneRelease ==
  /\ \A t, u \in At("wakesR") \cup At("wakesW") : t = u
  /\ \A t \in At("wakesR") : lCount[t] > 0
  /\ \A t \in At("wakesW") : lCount[t] = 1

\* The lock is never idle while somebody waits: a waiting thread has a thread
\* before it that will call done or ReleaseSemaphore, or its release is made.
NeverIdleWithWaiters ==
  m_nActive = 0 => /\ At("blockedR") \cup At("blockedW") = {}
                   /\ m_nWaitingReaders = 0 /\ m_nWaitingWriters = 0

\* The counters, the semaphores and the releases under way tell the truth about
\* the threads, between the critical section of done and its ReleaseSemaphore too
\* (AC/SyncObject.cpp:401-446).
CountsAgree == ActiveIsExact /\ OneRelease /\ NeverIdleWithWaiters

\* A blocked reader gets to read, unless writers keep coming
\* (AC/SyncObject.cpp:404-405).
ReadersServed ==
  \A t \in Threads :
    \/ (pc[t] = "blockedR" ~> pc[t] = "reading")
    \/ []<>(\E u \in Threads : pc[u] = "writing")

\* swmrg implements RWLock: a thread in waitToRead or waitToWrite that has not
\* returned waits for the lock, one that owes a release has given it back.
\* RWLock also promises that every waiting writer gets to write: a waiting writer
\* stops the readers from keeping the lock for ever (AC/SyncObject.h:122-123).
Abstract == [idle |-> "idle", wakesR |-> "idle", wakesW |-> "idle",
             blockedR |-> "wantsRead", reading |-> "reads",
             blockedW |-> "wantsWrite", writing |-> "writes"]
rwLock == [t \in Threads |-> Abstract[pc[t]]]

RW == INSTANCE RWLock WITH lock <- rwLock
ImplementsRWLock == RW!Spec
=============================================================================
