--------------------------- MODULE RecursiveMutex ---------------------------
(***************************************************************************)
(* What optex promises its callers (AC/SyncObject.h:36-39, 71-75): one     *)
(* thread at a time owns it, the owner may enter again, and it is free     *)
(* again when the owner has left as often as it entered.                   *)
(***************************************************************************)
EXTENDS Naturals

CONSTANT Threads

VARIABLE depth      \* how often each thread has entered and not left

Init == depth = [t \in Threads |-> 0]

Acquire(t) ==
  /\ \A u \in Threads \ {t} : depth[u] = 0
  /\ depth' = [depth EXCEPT ![t] = @ + 1]

Release(t) ==
  /\ depth[t] > 0
  /\ depth' = [depth EXCEPT ![t] = @ - 1]

Next == \E t \in Threads : Acquire(t) \/ Release(t)

Spec == Init /\ [][Next]_depth
=============================================================================
