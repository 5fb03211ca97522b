------------------------------- MODULE Optex --------------------------------
(***************************************************************************)
(* gtc::optex (AC/SyncObject.h:36-90, AC/SyncObject.cpp:42-260): a         *)
(* recursive lock that spins on an interlocked counter before it waits on  *)
(* an auto-reset event.  The shared fields may live in a file mapping and  *)
(* be used by several processes; a thread here is a thread of any of them. *)
(*                                                                         *)
(* Every interlocked operation, every look at dwThreadId and every kernel  *)
(* call is a step of its own.  The owner's writes to dwThreadId,           *)
(* dwProcessID and lRecurseCount come after the interlocked operation that *)
(* made it the owner, so another thread can see the lock taken and no      *)
(* owner recorded.  lRecurseCount is only touched by the owner.            *)
(***************************************************************************)
EXTENDS Integers, FiniteSets

CONSTANTS
  Threads,     \* the threads that share one optex
  SpinCount,   \* dwSpinCount; 0 on a single-processor host
  MaxDepth,    \* how deep the callers nest their calls
  Nobody       \* the value 0 of dwThreadId

ASSUME ThreadsFinite == IsFiniteSet(Threads) /\ Nobody \notin Threads
ASSUME BoundsType == SpinCount \in Nat /\ MaxDepth \in Nat

VARIABLES
  pc,              \* where each thread is in enter, tryEnter or leave
  call,            \* which of enter and tryEnter it is in
  spins,           \* tryEnter's local dwSpinCount
  lLockCount, dwThreadId, lRecurseCount,
  event,           \* whether m_hEvent is signalled
  depth            \* how often each caller has entered and not left

shared == <<lLockCount, dwThreadId, lRecurseCount, event>>
vars == <<pc, call, spins, shared, depth>>

\* "out": in the caller's code.  The others name what the thread does next.
PCs == {"out", "cas", "isMine", "nest", "count", "isMineToo", "wait",
        "own", "uncount", "signal"}

Init ==
  /\ pc = [t \in Threads |-> "out"]
  /\ call = [t \in Threads |-> "enter"]
  /\ spins = [t \in Threads |-> 0]
  /\ lLockCount = 0 /\ dwThreadId = Nobody /\ lRecurseCount = 0
  /\ event = FALSE
  /\ depth = [t \in Threads |-> 0]
-----------------------------------------------------------------------------
Goto(t, p) == pc' = [pc EXCEPT ![t] = p]
Entered(t) == Goto(t, "out") /\ depth' = [depth EXCEPT ![t] = @ + 1]

\* enter and tryEnter both start with tryEnter's loop.
Call(t) ==
  /\ pc[t] = "out" /\ depth[t] < MaxDepth
  /\ \E c \in {"enter", "tryEnter"} : call' = [call EXCEPT ![t] = c]
  /\ spins' = [spins EXCEPT ![t] = SpinCount]
  /\ Goto(t, "cas")
  /\ UNCHANGED <<shared, depth>>

\* InterlockedCompareExchange(&lLockCount, 1, 0).
CompareExchange(t) ==
  /\ pc[t] = "cas"
  /\ \/ /\ lLockCount = 0
        /\ lLockCount' = 1
        /\ Goto(t, "own")
     \/ /\ lLockCount # 0
        /\ UNCHANGED lLockCount
        /\ Goto(t, "isMine")
  /\ UNCHANGED <<call, spins, dwThreadId, lRecurseCount, event, depth>>

\* dwThreadId == dwThreadId of the caller?  If not, spin or give up.
IsMine(t) ==
  /\ pc[t] = "isMine"
  /\ \/ dwThreadId = t /\ Goto(t, "nest") /\ UNCHANGED spins
     \/ /\ dwThreadId # t /\ spins[t] > 0
        /\ spins' = [spins EXCEPT ![t] = @ - 1]
        /\ Goto(t, "cas")
     \/ /\ dwThreadId # t /\ spins[t] = 0
        /\ Goto(t, IF call[t] = "enter" THEN "count" ELSE "out")
        /\ UNCHANGED spins
  /\ UNCHANGED <<call, shared, depth>>

Nest(t) ==
  /\ pc[t] = "nest"
  /\ lLockCount' = lLockCount + 1
  /\ lRecurseCount' = lRecurseCount + 1
  /\ Entered(t)
  /\ UNCHANGED <<call, spins, dwThreadId, event>>

\* enter, after tryEnter failed: InterlockedIncrement(&lLockCount) == 1 ?
CountMe(t) ==
  /\ pc[t] = "count"
  /\ lLockCount' = lLockCount + 1
  /\ Goto(t, IF lLockCount' = 1 THEN "own" ELSE "isMineToo")
  /\ UNCHANGED <<call, spins, dwThreadId, lRecurseCount, event, depth>>

\* The second look at dwThreadId; OwnersDoNotWait says that it never matches.
IsMineToo(t) ==
  /\ pc[t] = "isMineToo"
  /\ IF dwThreadId = t
     THEN lRecurseCount' = lRecurseCount + 1 /\ Entered(t)
     ELSE Goto(t, "wait") /\ UNCHANGED <<lRecurseCount, depth>>
  /\ UNCHANGED <<call, spins, lLockCount, dwThreadId, event>>

\* WaitForSingleObject(m_hEvent, INFINITE) resets the event it returns for.
Wait(t) ==
  /\ pc[t] = "wait" /\ event
  /\ event' = FALSE
  /\ Goto(t, "own")
  /\ UNCHANGED <<call, spins, lLockCount, dwThreadId, lRecurseCount, depth>>

\* dwThreadId = me, dwProcessID = mine, lRecurseCount = 1.
Own(t) ==
  /\ pc[t] = "own"
  /\ dwThreadId' = t
  /\ lRecurseCount' = 1
  /\ Entered(t)
  /\ UNCHANGED <<call, spins, lLockCount, event>>

\* leave, up to its interlocked decrement; a nested leave ends there.
Leaver(t) == Nobody
Mut_Unnested_Same(n) == n
Unnested(n) == n - 1

Leave(t) ==
  /\ pc[t] = "out" /\ depth[t] > 0
  /\ depth' = [depth EXCEPT ![t] = @ - 1]
  /\ lRecurseCount' = lRecurseCount - 1
  /\ \/ /\ lRecurseCount' > 0
        /\ lLockCount' = Unnested(lLockCount)
        /\ UNCHANGED <<pc, dwThreadId>>
     \/ /\ lRecurseCount' <= 0
        /\ dwThreadId' = Leaver(t)
        /\ Goto(t, "uncount")
        /\ UNCHANGED lLockCount
  /\ UNCHANGED <<call, spins, event>>

\* InterlockedDecrement(&lLockCount) > 0 ?
Mut_Contended_Always(n) == TRUE
Mut_Contended_Never(n) == FALSE
Contended(n) == n > 0

Uncount(t) ==
  /\ pc[t] = "uncount"
  /\ lLockCount' = lLockCount - 1
  /\ Goto(t, IF Contended(lLockCount') THEN "signal" ELSE "out")
  /\ UNCHANGED <<call, spins, dwThreadId, lRecurseCount, event, depth>>

Signal(t) ==
  /\ pc[t] = "signal"
  /\ event' = TRUE
  /\ Goto(t, "out")
  /\ UNCHANGED <<call, spins, lLockCount, dwThreadId, lRecurseCount, depth>>
-----------------------------------------------------------------------------
InCall(t) == CompareExchange(t) \/ IsMine(t) \/ Nest(t) \/ CountMe(t)
               \/ IsMineToo(t) \/ Own(t) \/ Uncount(t) \/ Signal(t)

Next == \E t \in Threads : Call(t) \/ InCall(t) \/ Wait(t) \/ Leave(t)

\* A thread inside a call runs on; the kernel does not pass over a waiter of
\* the event for ever; a thread that owns the optex ends its critical section,
\* however it nests.  Nobody is obliged to call.
Fairness == \A t \in Threads :
              /\ WF_vars(InCall(t)) /\ SF_vars(Wait(t))
              /\ SF_vars(depth[t] = 1 /\ Leave(t)) /\ WF_vars(Leave(t))

Spec == Init /\ [][Next]_vars
FairSpec == Spec /\ Fairness
-----------------------------------------------------------------------------
TypeOK ==
  /\ pc \in [Threads -> PCs]
  /\ call \in [Threads -> {"enter", "tryEnter"}]
  /\ spins \in [Threads -> 0..SpinCount]
  /\ lLockCount \in Nat /\ lRecurseCount \in Nat
  /\ dwThreadId \in Threads \cup {Nobody}
  /\ event \in BOOLEAN
  /\ depth \in [Threads -> Nat]

At(p) == {t \in Threads : pc[t] = p}

\* Threads that count in lLockCount: those that wait for the optex, and the one
\* that has it, is about to record it, or has not yet uncounted itself.
Queued == {t \in Threads : pc[t] \in {"isMineToo", "wait"}}
QueueLength == Cardinality(Queued)
Claims(t) == depth[t] > 0 \/ pc[t] \in {"own", "uncount"}
Share(t) == IF depth[t] > 0 THEN depth[t] ELSE 1

\* At most one thread is anywhere between taking the optex and giving it up.
OneClaimant == \A t, u \in Threads : Claims(t) /\ Claims(u) => t = u

\* dwThreadId and lRecurseCount name the owner and its depth
\* (AC/SyncObject.h:73-74), so a thread nests in what it owns and nothing else.
OwnerIsRecorded ==
  /\ \A t \in Threads : depth[t] > 0 => dwThreadId = t /\ lRecurseCount = depth[t]
  /\ dwThreadId # Nobody => depth[dwThreadId] > 0

\* lLockCount is the number of attempts to enter that have not been undone
\* (AC/SyncObject.h:71): with it at 0 the optex is free, and above 0 it is not
\* to be had by an interlocked operation.
LockCountIsExact ==
  /\ \A t \in Threads : Claims(t) => lLockCount = Share(t) + QueueLength
  /\ (\A t \in Threads : ~Claims(t)) => lLockCount = QueueLength

\* The event is set once per free optex with a queue: never while somebody has
\* the optex, so two threads cannot both go on; and never omitted, so that no
\* queue is left without an owner to wake it.
HandOff ==
  /\ Queued # {} => event \/ At("signal") # {} \/ \E t \in Threads : Claims(t)
  /\ event \/ At("signal") # {} => Queued # {} /\ \A t \in Threads : ~Claims(t)
  /\ event => At("signal") = {}
  /\ \A t, u \in At("signal") : t = u

\* A call made by a thread that owns nothing is the only kind that can wait.
OwnersDoNotWait ==
  \A t \in Threads :
    /\ pc[t] \in {"count", "isMineToo", "wait", "own", "uncount", "signal"} => depth[t] = 0
    /\ pc[t] = "nest" => depth[t] > 0

\* The fields of the optex, read by threads that are not its owner, never mislead
\* them: owner, depth and count agree with where the threads are, although they
\* are set one after the other (AC/SyncObject.cpp:140-210).
FieldsAreExact == OwnerIsRecorded /\ LockCountIsExact /\ OwnersDoNotWait

\* optex implements RecursiveMutex.
Mutex == INSTANCE RecursiveMutex
ImplementsMutex == Mutex!Spec

\* enter returns with the optex, however many other threads compete for it.
EnterReturns ==
  \A t \in Threads :
    pc[t] = "cas" /\ call[t] = "enter" ~> pc[t] = "out" /\ depth[t] > 0
=============================================================================
