------------------------------- MODULE RWLock -------------------------------
(***************************************************************************)
(* What a reader/writer lock promises its callers: the four principles     *)
(* listed above class swmrg (AC/SyncObject.h:96-100), with no counters, no *)
(* critical section and no semaphores.  A thread waits for the lock, or is *)
(* granted it at once, when nobody it conflicts with has it, and gives it  *)
(* back.                                                                   *)
(***************************************************************************)
CONSTANT Threads

VARIABLE lock     \* what each thread is doing with the lock

Phases == {"idle", "wantsRead", "reads", "wantsWrite", "writes"}

Init == lock = [t \in Threads |-> "idle"]

Queue(t) ==
  /\ lock[t] = "idle"
  /\ \E p \in {"wantsRead", "wantsWrite"} : lock' = [lock EXCEPT ![t] = p]

\* Principles 2 and 4: a reader shares the resource with readers only.
GrantRead(t) ==
  /\ lock[t] \in {"idle", "wantsRead"}
  /\ \A u \in Threads : lock[u] # "writes"
  /\ lock' = [lock EXCEPT ![t] = "reads"]

\* Principles 1 and 3: a writer has the resource to itself.
GrantWrite(t) ==
  /\ lock[t] \in {"idle", "wantsWrite"}
  /\ \A u \in Threads : lock[u] \notin {"reads", "writes"}
  /\ lock' = [lock EXCEPT ![t] = "writes"]

GiveBack(t) ==
  /\ lock[t] \in {"reads", "writes"}
  /\ lock' = [lock EXCEPT ![t] = "idle"]

Next == \E t \in Threads : Queue(t) \/ GrantRead(t) \/ GrantWrite(t) \/ GiveBack(t)

\* A reader may starve behind writers (AC/SyncObject.cpp:404), so only the
\* writers are promised the lock.
Served == \A t \in Threads : lock[t] = "wantsWrite" ~> lock[t] = "writes"

SafeSpec == Init /\ [][Next]_lock
Spec == SafeSpec /\ Served
=============================================================================
