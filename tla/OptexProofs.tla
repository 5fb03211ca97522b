---------------------------- MODULE OptexProofs -----------------------------
(***************************************************************************)
(* Proofs about Optex, for every finite set of threads, every spin count   *)
(* and every nesting depth: at most one thread owns the optex, the fields  *)
(* of SHAREDINFO mean what their comments say, the event is set exactly    *)
(* when a free optex has a queue, and optex implements RecursiveMutex.     *)
(*                                                                         *)
(* Mutual exclusion rests on all of this at once: a thread takes the optex *)
(* because lLockCount was 0, or because the event was set, and neither     *)
(* says anything about owners unless the counts are exact.                 *)
(***************************************************************************)
EXTENDS Optex, FiniteSetTheorems, TLAPS

IInv == /\ TypeOK
        /\ OneClaimant
        /\ OwnerIsRecorded
        /\ LockCountIsExact
        /\ HandOff
        /\ OwnersDoNotWait

-----------------------------------------------------------------------------
\* The length of the queue is a natural number, 0 when it is empty.
LEMMA QueueType == /\ QueueLength \in Nat
                   /\ QueueLength = 0 <=> Queued = {}
                   /\ QueueLength > 0 <=> Queued # {}
<1>1. Queued \in SUBSET Threads
  BY DEF Queued
<1>2. IsFiniteSet(Queued)
  BY <1>1, ThreadsFinite, FS_Subset
<1>3. QueueLength \in Nat /\ (QueueLength = 0 <=> Queued = {})
  BY <1>2, FS_CardinalityType, FS_EmptySet DEF QueueLength
<1>. QED  BY <1>3

\* A step of one thread lengthens the queue, shortens it or leaves it alone.
LEMMA QueueMoves ==
  ASSUME TypeOK, NEW t \in Threads, NEW q \in PCs, Goto(t, q)
  PROVE  /\ pc[t] \notin {"isMineToo", "wait"} /\ q \notin {"isMineToo", "wait"}
              => Queued' = Queued /\ QueueLength' = QueueLength
         /\ pc[t] \in {"isMineToo", "wait"} /\ q \in {"isMineToo", "wait"}
              => Queued' = Queued /\ QueueLength' = QueueLength
         /\ pc[t] \notin {"isMineToo", "wait"} /\ q \in {"isMineToo", "wait"}
              => Queued' = Queued \cup {t} /\ QueueLength' = QueueLength + 1
         /\ pc[t] \in {"isMineToo", "wait"} /\ q \notin {"isMineToo", "wait"}
              => Queued' = Queued \ {t} /\ QueueLength' = QueueLength - 1
<1>0. Queued \in SUBSET Threads
  BY DEF Queued
<1>1. IsFiniteSet(Queued)
  BY <1>0, ThreadsFinite, FS_Subset
<1>2. pc' = [pc EXCEPT ![t] = q] /\ pc \in [Threads -> PCs]
  BY DEF Goto, TypeOK
<1>3. CASE (pc[t] \in {"isMineToo", "wait"}) <=> (q \in {"isMineToo", "wait"})
  <2>1. Queued' = Queued
    BY <1>2, <1>3 DEF Queued
  <2>. QED  BY <1>3, <2>1 DEF QueueLength
<1>4. CASE pc[t] \notin {"isMineToo", "wait"} /\ q \in {"isMineToo", "wait"}
  <2>1. Queued' = Queued \cup {t} /\ t \notin Queued
    BY <1>2, <1>4 DEF Queued
  <2>. QED  BY <1>1, <1>4, <2>1, FS_AddElement DEF QueueLength
<1>5. CASE pc[t] \in {"isMineToo", "wait"} /\ q \notin {"isMineToo", "wait"}
  <2>1. Queued' = Queued \ {t} /\ t \in Queued
    BY <1>2, <1>5 DEF Queued
  <2>. QED  BY <1>1, <1>5, <2>1, FS_RemoveElement DEF QueueLength
<1>. QED  BY <1>3, <1>4, <1>5

\* A step of one thread does not change what the others claim.
LEMMA OthersClaim ==
  ASSUME TypeOK, NEW t \in Threads, NEW q \in PCs, NEW d, Goto(t, q),
         depth' = depth \/ depth' = [depth EXCEPT ![t] = d],
         NEW u \in Threads, u # t
  PROVE  /\ pc'[u] = pc[u] /\ depth'[u] = depth[u]
         /\ Claims(u)' <=> Claims(u)
         /\ Share(u)' = Share(u)
<1>1. pc'[u] = pc[u] /\ depth'[u] = depth[u]
  BY DEF TypeOK, Goto
<1>. QED  BY <1>1 DEF Claims, Share

-----------------------------------------------------------------------------
LEMMA InitInv == Init => IInv
<1> SUFFICES ASSUME Init PROVE IInv
  OBVIOUS
<1>0. 0 \in 0..SpinCount
  BY BoundsType
<1>1. TypeOK
  BY <1>0 DEF Init, TypeOK, PCs
<1>2. Queued = {} /\ QueueLength = 0 /\ At("signal") = {}
  BY QueueType DEF Init, Queued, At
<1>3. \A t \in Threads : ~Claims(t) /\ depth[t] = 0
  BY DEF Init, Claims
<1>4. OneClaimant /\ OwnerIsRecorded /\ LockCountIsExact /\ HandOff /\ OwnersDoNotWait
  BY <1>2, <1>3, ThreadsFinite
     DEF Init, OneClaimant, OwnerIsRecorded, LockCountIsExact, HandOff, OwnersDoNotWait
<1>. QED  BY <1>1, <1>4 DEF IInv

-----------------------------------------------------------------------------
\* Every variable keeps its type.  That lLockCount and lRecurseCount are not
\* decremented below 0 needs the rest of the invariant.
LEMMA TypeStep == IInv /\ [Next]_vars => TypeOK'
<1> SUFFICES ASSUME IInv, [Next]_vars PROVE TypeOK'
  OBVIOUS
<1>. USE DEF TypeOK, PCs, Goto, Entered, shared
<1>0. TypeOK
  BY DEF IInv
<1>1. ASSUME NEW t \in Threads, Call(t) PROVE TypeOK'
  <2>1. SpinCount \in 0..SpinCount
    BY BoundsType
  <2>. QED  BY <1>0, <1>1, <2>1 DEF Call
<1>2. ASSUME NEW t \in Threads, CompareExchange(t) PROVE TypeOK'
  BY <1>0, <1>2 DEF CompareExchange
<1>3. ASSUME NEW t \in Threads, IsMine(t) PROVE TypeOK'
  <2>1. CASE UNCHANGED spins
    BY <1>0, <1>3, <2>1 DEF IsMine
  <2>2. CASE spins[t] > 0 /\ spins' = [spins EXCEPT ![t] = @ - 1]
    <3>1. spins[t] - 1 \in 0..SpinCount
      BY <1>0, <2>2, BoundsType
    <3>. QED  BY <1>0, <1>3, <2>2, <3>1 DEF IsMine
  <2>. QED  BY <1>3, <2>1, <2>2 DEF IsMine
<1>4. ASSUME NEW t \in Threads, Nest(t) PROVE TypeOK'
  BY <1>0, <1>4 DEF Nest
<1>5. ASSUME NEW t \in Threads, CountMe(t) PROVE TypeOK'
  BY <1>0, <1>5 DEF CountMe
<1>6. ASSUME NEW t \in Threads, IsMineToo(t) PROVE TypeOK'
  BY <1>0, <1>6 DEF IsMineToo
<1>7. ASSUME NEW t \in Threads, Wait(t) PROVE TypeOK'
  BY <1>0, <1>7 DEF Wait
<1>8. ASSUME NEW t \in Threads, Own(t) PROVE TypeOK'
  BY <1>0, <1>8 DEF Own
<1>9. ASSUME NEW t \in Threads, Leave(t) PROVE TypeOK'
  <2>1. depth[t] \in Nat /\ depth[t] > 0 /\ lRecurseCount = depth[t]
    BY <1>0, <1>9 DEF Leave, IInv, OwnerIsRecorded
  <2>2. lLockCount = depth[t] + QueueLength
    BY <2>1 DEF IInv, LockCountIsExact, Claims, Share
  <2>3. lLockCount - 1 \in Nat
    BY <2>1, <2>2, QueueType
  <2>. QED  BY <1>0, <1>9, <2>1, <2>3 DEF Leave, Leaver, Unnested
<1>10. ASSUME NEW t \in Threads, Uncount(t) PROVE TypeOK'
  <2>1. depth[t] = 0 /\ Claims(t)
    BY <1>10 DEF Uncount, IInv, OwnersDoNotWait, Claims
  <2>2. lLockCount = 1 + QueueLength
    BY <2>1 DEF IInv, LockCountIsExact, Share
  <2>3. lLockCount - 1 \in Nat
    BY <2>2, QueueType
  <2>. QED  BY <1>0, <1>10, <2>3 DEF Uncount
<1>11. ASSUME NEW t \in Threads, Signal(t) PROVE TypeOK'
  BY <1>0, <1>11 DEF Signal
<1>12. CASE UNCHANGED vars
  BY <1>0, <1>12 DEF vars
<1>. QED
  BY <1>1, <1>2, <1>3, <1>4, <1>5, <1>6, <1>7, <1>8, <1>9, <1>10, <1>11, <1>12
     DEF Next, InCall

-----------------------------------------------------------------------------
Inside == {"out", "cas", "isMine", "nest", "count"}

\* A thread that neither counts itself, nor takes the optex, nor gives it up
\* disturbs nothing.
LEMMA QuietStep ==
  ASSUME IInv, TypeOK', NEW t \in Threads, NEW q \in Inside,
         pc[t] \in Inside, Goto(t, q), UNCHANGED <<shared, depth>>,
         q = "count" => depth[t] = 0, q = "nest" => depth[t] > 0
  PROVE  IInv'
<1>1. TypeOK /\ pc' = [pc EXCEPT ![t] = q] /\ pc \in [Threads -> PCs] /\ q \in PCs
  BY DEF IInv, TypeOK, Goto, Inside, PCs
<1>2. Queued' = Queued /\ QueueLength' = QueueLength
  BY <1>1, QueueMoves DEF Inside
<1>3. At("signal")' = At("signal")
  BY <1>1 DEF At, Inside
<1>4. \A u \in Threads : (Claims(u)' <=> Claims(u)) /\ Share(u)' = Share(u)
  BY <1>1 DEF Claims, Share, Inside
<1>5. OneClaimant'
  BY <1>4 DEF IInv, OneClaimant
<1>6. OwnerIsRecorded'
  BY DEF IInv, OwnerIsRecorded, shared
<1>7. LockCountIsExact'
  BY <1>2, <1>4 DEF IInv, LockCountIsExact, shared
<1>8. HandOff'
  BY <1>2, <1>3, <1>4 DEF IInv, HandOff, shared
<1>9. OwnersDoNotWait'
  BY <1>1 DEF IInv, OwnersDoNotWait, Inside
<1>. QED  BY <1>5, <1>6, <1>7, <1>8, <1>9 DEF IInv

LEMMA CallInv ==
  ASSUME IInv, TypeOK', NEW t \in Threads, Call(t)
  PROVE  IInv'
BY QuietStep DEF Call, Inside

LEMMA IsMineInv ==
  ASSUME IInv, TypeOK', NEW t \in Threads, IsMine(t)
  PROVE  IInv'
<1>1. pc[t] = "isMine" /\ UNCHANGED <<shared, depth>>
  BY DEF IsMine
<1>2. CASE dwThreadId = t /\ Goto(t, "nest")
  <2>1. depth[t] > 0
    BY <1>2, ThreadsFinite DEF IInv, OwnerIsRecorded
  <2>. QED  BY <1>1, <1>2, <2>1, QuietStep DEF Inside
<1>3. CASE Goto(t, "cas")
  BY <1>1, <1>3, QuietStep DEF Inside
<1>4. CASE dwThreadId # t /\ Goto(t, IF call[t] = "enter" THEN "count" ELSE "out")
  <2>1. depth[t] = 0
    BY <1>4 DEF IInv, OwnerIsRecorded, TypeOK
  <2>. QED  BY <1>1, <1>4, <2>1, QuietStep DEF Inside
<1>. QED  BY <1>2, <1>3, <1>4 DEF IsMine

\* The compare-exchange finds 0 only when nobody claims the optex and nobody
\* waits for it.
LEMMA CompareExchangeInv ==
  ASSUME IInv, TypeOK', NEW t \in Threads, CompareExchange(t)
  PROVE  IInv'
<1>1. CASE lLockCount # 0
  BY <1>1, QuietStep DEF CompareExchange, Inside, shared
<1>2. CASE lLockCount = 0
  <2>1. /\ pc[t] = "cas" /\ Goto(t, "own") /\ lLockCount' = 1
        /\ UNCHANGED <<dwThreadId, lRecurseCount, event, depth>>
    BY <1>2 DEF CompareExchange
  <2>2. TypeOK /\ pc' = [pc EXCEPT ![t] = "own"] /\ pc \in [Threads -> PCs]
    BY <2>1 DEF IInv, TypeOK, Goto
  <2>3. Queued' = Queued /\ QueueLength' = QueueLength
    BY <2>1, <2>2, QueueMoves DEF PCs
  <2>4. \A u \in Threads : ~Claims(u)
    <3>1. ASSUME NEW u \in Threads, Claims(u) PROVE FALSE
      <4>1. lLockCount = Share(u) + QueueLength
        BY <3>1 DEF IInv, LockCountIsExact
      <4>2. Share(u) \in Nat /\ Share(u) > 0
        BY <2>2 DEF TypeOK, Share
      <4>. QED  BY <1>2, <4>1, <4>2, QueueType
    <3>. QED  BY <3>1
  <2>5. QueueLength = 0 /\ Queued = {}
    BY <1>2, <2>4, QueueType DEF IInv, LockCountIsExact
  <2>6. depth[t] = 0 /\ depth[t] \in Nat
    BY <2>2, <2>4 DEF Claims, TypeOK
  <2>7. /\ \A u \in Threads : Claims(u)' <=> u = t
        /\ Share(t)' = 1
    BY <2>1, <2>2, <2>4, <2>6 DEF Claims, Share
  <2>8. ~event /\ At("signal") = {} /\ At("signal")' = {}
    BY <2>2, <2>5 DEF IInv, HandOff, At
  <2>9. OneClaimant'
    BY <2>7 DEF OneClaimant
  <2>10. OwnerIsRecorded'
    BY <2>1 DEF IInv, OwnerIsRecorded
  <2>11. LockCountIsExact'
    BY <2>1, <2>3, <2>5, <2>7 DEF LockCountIsExact
  <2>12. HandOff'
    BY <2>1, <2>3, <2>5, <2>8 DEF HandOff
  <2>13. OwnersDoNotWait'
    BY <2>1, <2>2, <2>6 DEF IInv, OwnersDoNotWait
  <2>. QED  BY <2>9, <2>10, <2>11, <2>12, <2>13 DEF IInv
<1>. QED  BY <1>1, <1>2

\* The owner nests: its share of lLockCount grows with its depth.
LEMMA NestInv ==
  ASSUME IInv, TypeOK', NEW t \in Threads, Nest(t)
  PROVE  IInv'
<1>1. /\ pc[t] = "nest" /\ Goto(t, "out") /\ depth' = [depth EXCEPT ![t] = @ + 1]
      /\ lLockCount' = lLockCount + 1 /\ lRecurseCount' = lRecurseCount + 1
      /\ UNCHANGED <<dwThreadId, event>>
  BY DEF Nest, Entered
<1>2. /\ TypeOK /\ pc' = [pc EXCEPT ![t] = "out"] /\ pc \in [Threads -> PCs]
      /\ depth[t] \in Nat /\ depth[t] > 0
  BY <1>1 DEF IInv, TypeOK, Goto, OwnersDoNotWait
<1>3. Queued' = Queued /\ QueueLength' = QueueLength
  BY <1>1, <1>2, QueueMoves DEF PCs
<1>4. At("signal")' = At("signal")
  BY <1>1, <1>2 DEF At
<1>5. Claims(t) /\ \A u \in Threads : Claims(u) => u = t
  BY <1>2 DEF IInv, OneClaimant, Claims
<1>6. dwThreadId = t /\ lRecurseCount = depth[t] /\ lLockCount = depth[t] + QueueLength
  BY <1>2, <1>5 DEF IInv, OwnerIsRecorded, LockCountIsExact, Share
<1>7. depth'[t] = depth[t] + 1 /\ \A u \in Threads : u # t => depth'[u] = depth[u]
  BY <1>1, <1>2 DEF TypeOK
<1>8. /\ \A u \in Threads : Claims(u)' <=> u = t
      /\ Share(t)' = depth[t] + 1
  <2>1. Claims(t)' /\ Share(t)' = depth[t] + 1
    BY <1>2, <1>7 DEF Claims, Share
  <2>2. ASSUME NEW u \in Threads, u # t PROVE ~Claims(u)'
    BY <1>2, <1>5, <1>7, <2>2 DEF Claims
  <2>. QED  BY <2>1, <2>2
<1>9. OneClaimant'
  BY <1>8 DEF OneClaimant
<1>10. OwnerIsRecorded'
  <2>1. ASSUME NEW u \in Threads, depth'[u] > 0 PROVE u = t
    BY <1>8, <2>1 DEF Claims
  <2>. QED  BY <1>1, <1>2, <1>6, <1>7, <2>1 DEF OwnerIsRecorded
<1>11. LockCountIsExact'
  BY <1>1, <1>2, <1>3, <1>6, <1>8, QueueType DEF LockCountIsExact
<1>12. HandOff'
  BY <1>1, <1>3, <1>4, <1>5, <1>8 DEF IInv, HandOff
<1>13. OwnersDoNotWait'
  BY <1>1, <1>2, <1>7 DEF IInv, OwnersDoNotWait
<1>. QED  BY <1>9, <1>10, <1>11, <1>12, <1>13 DEF IInv

\* A thread that counts itself either finds the optex free, and has it, or is
\* queued; a free optex whose event is on its way is not free by this count.
LEMMA CountMeInv ==
  ASSUME IInv, TypeOK', NEW t \in Threads, CountMe(t)
  PROVE  IInv'
<1>1. /\ pc[t] = "count" /\ depth[t] = 0 /\ lLockCount' = lLockCount + 1
      /\ UNCHANGED <<dwThreadId, lRecurseCount, event, depth>>
      /\ TypeOK /\ pc \in [Threads -> PCs] /\ lLockCount \in Nat
  BY DEF CountMe, IInv, OwnersDoNotWait, TypeOK
<1>2. OwnerIsRecorded'
  BY <1>1 DEF IInv, OwnerIsRecorded
<1>3. CASE lLockCount = 0
  <2>1. Goto(t, "own") /\ pc' = [pc EXCEPT ![t] = "own"]
    BY <1>1, <1>3 DEF CountMe, Goto
  <2>2. Queued' = Queued /\ QueueLength' = QueueLength
    BY <1>1, <2>1, QueueMoves DEF PCs
  <2>3. \A u \in Threads : ~Claims(u)
    <3>1. ASSUME NEW u \in Threads, Claims(u) PROVE FALSE
      <4>1. lLockCount = Share(u) + QueueLength
        BY <3>1 DEF IInv, LockCountIsExact
      <4>2. Share(u) \in Nat /\ Share(u) > 0
        BY <1>1 DEF TypeOK, Share
      <4>. QED  BY <1>3, <4>1, <4>2, QueueType
    <3>. QED  BY <3>1
  <2>4. QueueLength = 0 /\ Queued = {}
    BY <1>3, <2>3, QueueType DEF IInv, LockCountIsExact
  <2>5. (\A u \in Threads : Claims(u)' <=> u = t) /\ Share(t)' = 1
    BY <1>1, <2>1, <2>3 DEF Claims, Share
  <2>6. ~event /\ At("signal") = {} /\ At("signal")' = {}
    BY <1>1, <2>1, <2>4 DEF IInv, HandOff, At
  <2>7. OneClaimant'
    BY <2>5 DEF OneClaimant
  <2>8. LockCountIsExact'
    BY <1>1, <1>3, <2>2, <2>4, <2>5 DEF LockCountIsExact
  <2>9. HandOff'
    BY <1>1, <2>2, <2>4, <2>6 DEF HandOff
  <2>10. OwnersDoNotWait'
    BY <1>1, <2>1 DEF IInv, OwnersDoNotWait
  <2>. QED  BY <1>2, <2>7, <2>8, <2>9, <2>10 DEF IInv
<1>4. CASE lLockCount # 0
  <2>0. lLockCount' # 1
    BY <1>1, <1>4
  <2>1. Goto(t, "isMineToo") /\ pc' = [pc EXCEPT ![t] = "isMineToo"]
    BY <2>0 DEF CountMe, Goto
  <2>2. Queued' = Queued \cup {t} /\ QueueLength' = QueueLength + 1
    BY <1>1, <2>1, QueueMoves DEF PCs
  <2>3. At("signal")' = At("signal")
    BY <1>1, <2>1 DEF At
  <2>4. \A u \in Threads : (Claims(u)' <=> Claims(u)) /\ Share(u)' = Share(u)
    BY <1>1, <2>1 DEF Claims, Share
  <2>5. OneClaimant'
    BY <2>4 DEF IInv, OneClaimant
  <2>6. LockCountIsExact'
    <3>1. ASSUME NEW u \in Threads, Claims(u) PROVE lLockCount' = Share(u) + QueueLength'
      <4>1. lLockCount = Share(u) + QueueLength /\ Share(u) \in Nat
        BY <1>1, <3>1 DEF IInv, LockCountIsExact, TypeOK, Share
      <4>. QED  BY <1>1, <2>2, <4>1, QueueType
    <3>2. ASSUME \A u \in Threads : ~Claims(u) PROVE lLockCount' = QueueLength'
      BY <1>1, <2>2, <3>2 DEF IInv, LockCountIsExact
    <3>. QED  BY <2>4, <3>1, <3>2 DEF LockCountIsExact
  <2>7. HandOff'
    <3>1. event \/ At("signal") # {} \/ \E u \in Threads : Claims(u)
      <4>1. SUFFICES ASSUME \A u \in Threads : ~Claims(u), ~event, At("signal") = {}
                     PROVE  FALSE
        OBVIOUS
      <4>2. Queued = {} /\ lLockCount = QueueLength
        BY <4>1 DEF IInv, HandOff, LockCountIsExact
      <4>. QED  BY <1>4, <4>2, QueueType
    <3>2. event \/ At("signal") # {} => \A u \in Threads : ~Claims(u)
      BY DEF IInv, HandOff
    <3>3. event' = event /\ Queued' # {}
      BY <1>1, <2>2
    <3>. QED  BY <2>3, <2>4, <3>1, <3>2, <3>3 DEF IInv, HandOff
  <2>8. OwnersDoNotWait'
    BY <1>1, <2>1 DEF IInv, OwnersDoNotWait
  <2>. QED  BY <1>2, <2>5, <2>6, <2>7, <2>8 DEF IInv
<1>. QED  BY <1>3, <1>4

\* A queued thread is not the recorded owner, so the second look at dwThreadId
\* only leads to the wait.
LEMMA IsMineTooInv ==
  ASSUME IInv, TypeOK', NEW t \in Threads, IsMineToo(t)
  PROVE  IInv'
<1>1. pc[t] = "isMineToo" /\ depth[t] = 0
  BY DEF IsMineToo, IInv, OwnersDoNotWait
<1>2. dwThreadId # t
  BY <1>1, ThreadsFinite DEF IInv, OwnerIsRecorded, TypeOK
<1>3. /\ Goto(t, "wait") /\ UNCHANGED <<shared, depth>>
      /\ TypeOK /\ pc' = [pc EXCEPT ![t] = "wait"] /\ pc \in [Threads -> PCs]
  BY <1>2 DEF IsMineToo, Goto, IInv, TypeOK, shared
<1>4. Queued' = Queued /\ QueueLength' = QueueLength
  BY <1>1, <1>3, QueueMoves DEF PCs
<1>5. At("signal")' = At("signal")
  BY <1>1, <1>3 DEF At
<1>6. \A u \in Threads : (Claims(u)' <=> Claims(u)) /\ Share(u)' = Share(u)
  BY <1>1, <1>3 DEF Claims, Share
<1>7. OneClaimant'
  BY <1>6 DEF IInv, OneClaimant
<1>8. OwnerIsRecorded'
  BY <1>3 DEF IInv, OwnerIsRecorded, shared
<1>9. LockCountIsExact'
  BY <1>3, <1>4, <1>6 DEF IInv, LockCountIsExact, shared
<1>10. HandOff'
  BY <1>3, <1>4, <1>5, <1>6 DEF IInv, HandOff, shared
<1>11. OwnersDoNotWait'
  BY <1>1, <1>3 DEF IInv, OwnersDoNotWait
<1>. QED  BY <1>7, <1>8, <1>9, <1>10, <1>11 DEF IInv

\* The event hands the free optex to one of the queue.
LEMMA WaitInv ==
  ASSUME IInv, TypeOK', NEW t \in Threads, Wait(t)
  PROVE  IInv'
<1>1. /\ pc[t] = "wait" /\ event /\ event' = FALSE /\ Goto(t, "own")
      /\ UNCHANGED <<lLockCount, dwThreadId, lRecurseCount, depth>>
      /\ TypeOK /\ pc' = [pc EXCEPT ![t] = "own"] /\ pc \in [Threads -> PCs]
  BY DEF Wait, Goto, IInv, TypeOK
<1>2. Queued' = Queued \ {t} /\ QueueLength' = QueueLength - 1
  BY <1>1, QueueMoves DEF PCs
<1>3. (\A u \in Threads : ~Claims(u)) /\ At("signal") = {}
  BY <1>1 DEF IInv, HandOff
<1>4. depth[t] = 0 /\ lLockCount = QueueLength
  BY <1>1, <1>3 DEF IInv, OwnersDoNotWait, LockCountIsExact
<1>5. (\A u \in Threads : Claims(u)' <=> u = t) /\ Share(t)' = 1
  BY <1>1, <1>3, <1>4 DEF Claims, Share
<1>6. At("signal")' = {}
  BY <1>1, <1>3 DEF At
<1>7. OneClaimant'
  BY <1>5 DEF OneClaimant
<1>8. OwnerIsRecorded'
  BY <1>1 DEF IInv, OwnerIsRecorded
<1>9. LockCountIsExact'
  <2>1. lLockCount' = 1 + QueueLength'
    BY <1>1, <1>2, <1>4, QueueType
  <2>. QED  BY <1>5, <2>1 DEF LockCountIsExact
<1>10. HandOff'
  BY <1>1, <1>5, <1>6 DEF HandOff
<1>11. OwnersDoNotWait'
  BY <1>1, <1>4 DEF IInv, OwnersDoNotWait
<1>. QED  BY <1>7, <1>8, <1>9, <1>10, <1>11 DEF IInv

\* The thread that has the optex records itself.
LEMMA OwnInv ==
  ASSUME IInv, TypeOK', NEW t \in Threads, Own(t)
  PROVE  IInv'
<1>1. /\ pc[t] = "own" /\ depth[t] = 0 /\ Goto(t, "out")
      /\ dwThreadId' = t /\ lRecurseCount' = 1
      /\ depth' = [depth EXCEPT ![t] = @ + 1]
      /\ UNCHANGED <<lLockCount, event>>
      /\ TypeOK /\ pc' = [pc EXCEPT ![t] = "out"] /\ pc \in [Threads -> PCs]
  BY DEF Own, Entered, Goto, IInv, TypeOK, OwnersDoNotWait
<1>2. depth'[t] = 1 /\ \A u \in Threads : u # t => depth'[u] = depth[u]
  BY <1>1 DEF TypeOK
<1>3. Queued' = Queued /\ QueueLength' = QueueLength
  BY <1>1, QueueMoves DEF PCs
<1>4. At("signal")' = At("signal")
  BY <1>1 DEF At
<1>5. Claims(t) /\ Share(t) = 1 /\ \A u \in Threads : Claims(u) => u = t
  BY <1>1 DEF IInv, OneClaimant, Claims, Share
<1>6. (\A u \in Threads : Claims(u)' <=> u = t) /\ Share(t)' = 1
  <2>1. Claims(t)' /\ Share(t)' = 1
    BY <1>2 DEF Claims, Share
  <2>2. ASSUME NEW u \in Threads, u # t PROVE ~Claims(u)'
    BY <1>1, <1>2, <1>5, <2>2 DEF Claims
  <2>. QED  BY <2>1, <2>2
<1>7. OneClaimant'
  BY <1>6 DEF OneClaimant
<1>8. OwnerIsRecorded'
  <2>1. ASSUME NEW u \in Threads, depth'[u] > 0 PROVE u = t
    BY <1>6, <2>1 DEF Claims
  <2>. QED  BY <1>1, <1>2, <2>1 DEF OwnerIsRecorded
<1>9. LockCountIsExact'
  BY <1>1, <1>3, <1>5, <1>6 DEF IInv, LockCountIsExact
<1>10. HandOff'
  BY <1>1, <1>3, <1>4, <1>5, <1>6 DEF IInv, HandOff
<1>11. OwnersDoNotWait'
  BY <1>1, <1>2 DEF IInv, OwnersDoNotWait
<1>. QED  BY <1>7, <1>8, <1>9, <1>10, <1>11 DEF IInv

\* The owner undoes one of its calls; the last one makes the optex ownerless,
\* and still claimed until the count is taken back.
LEMMA LeaveInv ==
  ASSUME IInv, TypeOK', NEW t \in Threads, Leave(t)
  PROVE  IInv'
<1>1. /\ pc[t] = "out" /\ depth[t] \in Nat /\ depth[t] > 0
      /\ depth' = [depth EXCEPT ![t] = @ - 1]
      /\ lRecurseCount' = lRecurseCount - 1 /\ UNCHANGED event
      /\ TypeOK /\ pc \in [Threads -> PCs]
  BY DEF Leave, IInv, TypeOK
<1>2. Claims(t) /\ \A u \in Threads : Claims(u) => u = t
  BY <1>1 DEF IInv, OneClaimant, Claims
<1>3. dwThreadId = t /\ lRecurseCount = depth[t] /\ lLockCount = depth[t] + QueueLength
  BY <1>1, <1>2 DEF IInv, OwnerIsRecorded, LockCountIsExact, Share
<1>4. depth'[t] = depth[t] - 1 /\ \A u \in Threads : u # t => depth'[u] = depth[u]
  BY <1>1 DEF TypeOK
<1>5. CASE lRecurseCount' > 0
  <2>1. UNCHANGED <<pc, dwThreadId>> /\ lLockCount' = lLockCount - 1
    BY <1>1, <1>3, <1>5 DEF Leave, Unnested
  <2>2. Queued' = Queued /\ QueueLength' = QueueLength /\ At("signal")' = At("signal")
    BY <2>1 DEF Queued, QueueLength, At
  <2>3. depth[t] - 1 > 0
    BY <1>1, <1>3, <1>5
  <2>4. (\A u \in Threads : Claims(u)' <=> u = t) /\ Share(t)' = depth[t] - 1
    <3>1. Claims(t)' /\ Share(t)' = depth[t] - 1
      BY <1>4, <2>3 DEF Claims, Share
    <3>2. ASSUME NEW u \in Threads, u # t PROVE ~Claims(u)'
      BY <1>2, <1>4, <2>1, <3>2 DEF Claims
    <3>. QED  BY <3>1, <3>2
  <2>5. OneClaimant'
    BY <2>4 DEF OneClaimant
  <2>6. OwnerIsRecorded'
    <3>1. ASSUME NEW u \in Threads, depth'[u] > 0 PROVE u = t
      BY <2>4, <3>1 DEF Claims
    <3>. QED  BY <1>1, <1>3, <1>4, <2>1, <2>3, <3>1 DEF OwnerIsRecorded
  <2>7. LockCountIsExact'
    BY <1>1, <1>3, <2>1, <2>2, <2>4, QueueType DEF LockCountIsExact
  <2>8. HandOff'
    BY <1>1, <1>2, <2>2, <2>4 DEF IInv, HandOff
  <2>9. OwnersDoNotWait'
    BY <1>1, <1>4, <2>1, <2>3 DEF IInv, OwnersDoNotWait
  <2>. QED  BY <2>5, <2>6, <2>7, <2>8, <2>9 DEF IInv
<1>6. CASE lRecurseCount' <= 0
  <2>1. /\ Goto(t, "uncount") /\ pc' = [pc EXCEPT ![t] = "uncount"]
        /\ dwThreadId' = Nobody /\ UNCHANGED lLockCount
    BY <1>1, <1>3, <1>6 DEF Leave, Leaver, Goto
  <2>2. Queued' = Queued /\ QueueLength' = QueueLength
    BY <1>1, <2>1, QueueMoves DEF PCs
  <2>3. At("signal")' = At("signal")
    BY <1>1, <2>1 DEF At
  <2>4. depth[t] = 1
    BY <1>1, <1>3, <1>6
  <2>5. (\A u \in Threads : Claims(u)' <=> u = t) /\ Share(t)' = 1
    <3>1. Claims(t)' /\ Share(t)' = 1
      BY <1>1, <1>4, <2>1, <2>4 DEF Claims, Share
    <3>2. ASSUME NEW u \in Threads, u # t PROVE ~Claims(u)'
      BY <1>1, <1>2, <1>4, <2>1, <3>2 DEF Claims
    <3>. QED  BY <3>1, <3>2
  <2>6. OneClaimant'
    BY <2>5 DEF OneClaimant
  <2>7. OwnerIsRecorded'
    <3>1. ASSUME NEW u \in Threads PROVE ~(depth'[u] > 0)
      BY <1>2, <1>4, <2>4 DEF Claims
    <3>. QED  BY <2>1, <3>1 DEF OwnerIsRecorded
  <2>8. LockCountIsExact'
    BY <1>3, <2>1, <2>2, <2>4, <2>5, QueueType DEF LockCountIsExact
  <2>9. HandOff'
    BY <1>1, <1>2, <2>2, <2>3, <2>5 DEF IInv, HandOff
  <2>10. OwnersDoNotWait'
    BY <1>1, <1>4, <2>1, <2>4 DEF IInv, OwnersDoNotWait
  <2>. QED  BY <2>6, <2>7, <2>8, <2>9, <2>10 DEF IInv
<1>7. lRecurseCount' \in Nat
  BY DEF TypeOK
<1>. QED  BY <1>5, <1>6, <1>7

\* The owner takes its count back: what is left of lLockCount is the queue, so
\* the leaver owes a signal exactly when there is one.
LEMMA UncountInv ==
  ASSUME IInv, TypeOK', NEW t \in Threads, Uncount(t)
  PROVE  IInv'
<1>1. /\ pc[t] = "uncount" /\ depth[t] = 0 /\ lLockCount' = lLockCount - 1
      /\ UNCHANGED <<dwThreadId, lRecurseCount, event, depth>>
      /\ TypeOK /\ pc \in [Threads -> PCs]
  BY DEF Uncount, IInv, OwnersDoNotWait, TypeOK
<1>2. Claims(t) /\ \A u \in Threads : Claims(u) => u = t
  BY <1>1 DEF IInv, OneClaimant, Claims
<1>3. lLockCount = 1 + QueueLength
  BY <1>1, <1>2 DEF IInv, LockCountIsExact, Share
<1>4. lLockCount' = QueueLength
  BY <1>1, <1>3, QueueType
<1>5. ~event /\ At("signal") = {}
  BY <1>2 DEF IInv, HandOff
<1>6. PICK q \in {"signal", "out"} : pc' = [pc EXCEPT ![t] = q] /\ Goto(t, q)
  BY DEF Uncount, Goto
<1>7. Queued' = Queued /\ QueueLength' = QueueLength
  BY <1>1, <1>6, QueueMoves DEF PCs
<1>8. \A u \in Threads : ~Claims(u)'
  BY <1>1, <1>2, <1>6 DEF Claims
<1>9. q = "signal" <=> Queued # {}
  BY <1>1, <1>4, <1>6, QueueType DEF Uncount, Contended, Goto
<1>10. At("signal")' = IF q = "signal" THEN {t} ELSE {}
  BY <1>1, <1>5, <1>6 DEF At
<1>11. OneClaimant'
  BY <1>8 DEF OneClaimant
<1>12. OwnerIsRecorded'
  BY <1>1 DEF IInv, OwnerIsRecorded
<1>13. LockCountIsExact'
  BY <1>4, <1>7, <1>8 DEF LockCountIsExact
<1>14. HandOff'
  BY <1>1, <1>5, <1>7, <1>8, <1>9, <1>10 DEF HandOff
<1>15. OwnersDoNotWait'
  BY <1>1, <1>6 DEF IInv, OwnersDoNotWait
<1>. QED  BY <1>11, <1>12, <1>13, <1>14, <1>15 DEF IInv

\* The leaver pays the signal it owes.
LEMMA SignalInv ==
  ASSUME IInv, TypeOK', NEW t \in Threads, Signal(t)
  PROVE  IInv'
<1>1. /\ pc[t] = "signal" /\ depth[t] = 0 /\ Goto(t, "out") /\ event' = TRUE
      /\ UNCHANGED <<lLockCount, dwThreadId, lRecurseCount, depth>>
      /\ TypeOK /\ pc' = [pc EXCEPT ![t] = "out"] /\ pc \in [Threads -> PCs]
  BY DEF Signal, Goto, IInv, OwnersDoNotWait, TypeOK
<1>2. t \in At("signal")
  BY <1>1 DEF At
<1>3. Queued' = Queued /\ QueueLength' = QueueLength
  BY <1>1, QueueMoves DEF PCs
<1>4. Queued # {} /\ \A u \in Threads : ~Claims(u)
  BY <1>2 DEF IInv, HandOff
<1>5. \A u \in Threads : ~Claims(u)'
  BY <1>1, <1>4 DEF Claims
<1>6. At("signal")' = {}
  <2>1. At("signal") \subseteq {t}
    BY <1>2 DEF IInv, HandOff
  <2>. QED  BY <1>1, <2>1 DEF At
<1>7. OneClaimant'
  BY <1>5 DEF OneClaimant
<1>8. OwnerIsRecorded'
  BY <1>1 DEF IInv, OwnerIsRecorded
<1>9. LockCountIsExact'
  BY <1>1, <1>3, <1>4, <1>5 DEF IInv, LockCountIsExact
<1>10. HandOff'
  BY <1>1, <1>3, <1>4, <1>5, <1>6 DEF HandOff
<1>11. OwnersDoNotWait'
  BY <1>1 DEF IInv, OwnersDoNotWait
<1>. QED  BY <1>7, <1>8, <1>9, <1>10, <1>11 DEF IInv

LEMMA StutterInv == ASSUME IInv, UNCHANGED vars PROVE IInv'
BY DEF IInv, vars, shared, TypeOK, OneClaimant, OwnerIsRecorded, LockCountIsExact,
       HandOff, OwnersDoNotWait, Claims, Share, Queued, QueueLength, At

LEMMA NextInv == IInv /\ [Next]_vars => IInv'
<1> SUFFICES ASSUME IInv, [Next]_vars PROVE IInv'
  OBVIOUS
<1>1. TypeOK'
  BY TypeStep
<1>2. CASE UNCHANGED vars
  BY <1>2, StutterInv
<1>3. CASE Next
  BY <1>1, <1>3, CallInv, CompareExchangeInv, IsMineInv, NestInv, CountMeInv,
     IsMineTooInv, WaitInv, OwnInv, LeaveInv, UncountInv, SignalInv DEF Next, InCall
<1>. QED  BY <1>2, <1>3

-----------------------------------------------------------------------------
\* All the invariants of the runs at once: lLockCount, dwThreadId and
\* lRecurseCount mean what AC/SyncObject.h:71-74 says they mean.
THEOREM FieldsMeanWhatTheySay == Spec => []IInv
BY InitInv, NextInv, PTL DEF Spec

\* Every variable keeps its type; lLockCount and lRecurseCount never go below 0.
THEOREM TypeCorrect == Spec => []TypeOK
<1>1. IInv => TypeOK
  BY DEF IInv
<1>. QED  BY <1>1, FieldsMeanWhatTheySay, PTL

\* No two threads are ever between taking the optex and giving it up.
THEOREM OneOwner == Spec => []OneClaimant
<1>1. IInv => OneClaimant
  BY DEF IInv
<1>. QED  BY <1>1, FieldsMeanWhatTheySay, PTL

\* Owner, depth and count of the optex agree with where the threads are.
THEOREM FieldsExact == Spec => []FieldsAreExact
<1>1. IInv => FieldsAreExact
  BY DEF IInv, FieldsAreExact
<1>. QED  BY <1>1, FieldsMeanWhatTheySay, PTL

\* leave signals exactly when a free optex has a queue (AC/SyncObject.cpp:244-248).
THEOREM SignalledWhenFree == Spec => []HandOff
<1>1. IInv => HandOff
  BY DEF IInv
<1>. QED  BY <1>1, FieldsMeanWhatTheySay, PTL

\* optex is a recursive mutex for the threads that use it.
THEOREM Implements == Spec => ImplementsMutex
<1>1. Init => Mutex!Init
  BY DEF Init, Mutex!Init
<1>2. IInv /\ [Next]_vars => [Mutex!Next]_depth
  <2> SUFFICES ASSUME IInv, [Next]_vars PROVE [Mutex!Next]_depth
    OBVIOUS
  <2>1. ASSUME NEW t \in Threads, pc[t] \in {"nest", "own"},
               depth' = [depth EXCEPT ![t] = @ + 1]
        PROVE  Mutex!Next
    <3>1. ASSUME NEW u \in Threads \ {t} PROVE depth[u] = 0
      <4>1. Claims(t)
        BY <2>1 DEF Claims, IInv, OwnersDoNotWait
      <4>2. ~Claims(u)
        BY <4>1 DEF IInv, OneClaimant
      <4>3. depth[u] \in Nat
        BY DEF IInv, TypeOK
      <4>. QED  BY <4>2, <4>3 DEF Claims
    <3>2. Mutex!Acquire(t)
      BY <2>1, <3>1 DEF Mutex!Acquire
    <3>. QED  BY <3>2 DEF Mutex!Next
  <2>2. ASSUME NEW t \in Threads, Leave(t) PROVE Mutex!Next
    BY <2>2 DEF Leave, Mutex!Release, Mutex!Next
  <2>3. ASSUME NEW t \in Threads, IsMineToo(t) PROVE UNCHANGED depth
    <3>1. depth[t] = 0
      BY <2>3 DEF IsMineToo, IInv, OwnersDoNotWait
    <3>2. dwThreadId # t
      BY <3>1, ThreadsFinite DEF IInv, OwnerIsRecorded, TypeOK
    <3>. QED  BY <2>3, <3>2 DEF IsMineToo
  <2>4. ASSUME NEW t \in Threads, Nest(t) \/ Own(t) PROVE Mutex!Next
    BY <2>1, <2>4 DEF Nest, Own, Entered
  <2>5. ASSUME NEW t \in Threads,
               Call(t) \/ CompareExchange(t) \/ IsMine(t) \/ CountMe(t)
                 \/ Wait(t) \/ Uncount(t) \/ Signal(t)
        PROVE  UNCHANGED depth
    BY <2>5 DEF Call, CompareExchange, IsMine, CountMe, Wait, Uncount, Signal, shared
  <2>6. CASE UNCHANGED vars
    BY <2>6 DEF vars
  <2>. QED  BY <2>2, <2>3, <2>4, <2>5, <2>6 DEF Next, InCall
<1>. QED  BY <1>1, <1>2, FieldsMeanWhatTheySay, PTL DEF Spec, ImplementsMutex, Mutex!Spec
=============================================================================
