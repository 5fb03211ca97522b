------------------------------ MODULE MCSwmrg -------------------------------
(***************************************************************************)
(* Instances of Swmrg for TLC.  MCSpec adds one history variable, which    *)
(* records for every reader the writers that were already waiting when it  *)
(* called waitToRead and have not got the lock since.                      *)
(***************************************************************************)
EXTENDS Swmrg, TLC

VARIABLE behind

mcvars == <<vars, behind>>
Symmetry == Permutations(Threads)

MCInit == Init /\ behind = [t \in Threads |-> {}]

MCNext ==
  /\ Next
  /\ behind' = [t \in Threads |->
       IF pc[t] = "idle"
       THEN IF pc'[t] = "idle" THEN {} ELSE At("blockedW")
       ELSE IF pc'[t] = "idle" THEN {}
       ELSE behind[t] \ {u \in Threads : pc'[u] = "writing"}]

MCSpec == MCInit /\ [][MCNext]_mcvars

\* "While a thread is waiting [to write], new reading threads are refused
\* access to the resource" (AC/SyncObject.h:122-123): a reader that arrives
\* behind waiting writers reads only when each of them has had its turn.
NewReadersRefused ==
  \A t \in Threads : pc[t] = "reading" => behind[t] = {}
=============================================================================
