----------------------------- MODULE DelayedFree ----------------------------
(***************************************************************************)
(* The controls of a container whose m_bDelayedFree is set: containerUC    *)
(* (UC/wucContainer.cpp) hands each one that it takes out to the           *)
(* drawManager (UC/drawManager.cpp), whose thread deletes it later.        *)
(*                                                                         *)
(* The thread of the window and that thread share m_vecDelayedFree without *)
(* a lock: READ_LOCK_DLYFREE and WRITE_LOCK_DLYFREE are empty, because     *)
(* GTC_BOOST_THREAD is defined nowhere.  Each access to the vector, the    *)
(* event, the switch or m_items is a step of its own, and push_back is     *)
(* two: it looks where the vector ends, and it stores the element and the  *)
(* new end.  What it stores when clear() came between is up to the build:  *)
(* see Stored.  When the vector moves in memory under the iterator of the  *)
(* thread, that one never meets the end: it is "astray", and nothing is    *)
(* said of what it does to memory from then on.                            *)
(*                                                                         *)
(* A message is handled in less than the second that the thread sleeps;    *)
(* nothing else is assumed of time.  Which messages there are, and what    *)
(* the window's thread does with controls, is ControlLife's business.      *)
(***************************************************************************)
EXTENDS Naturals, Sequences, FiniteSets, SequencesExt

CONSTANTS
  Ctl,      \* the controls of the container
  None      \* nullptr

ASSUME ControlsType == IsFiniteSet(Ctl) /\ None \notin Ctl

VARIABLES
  items,    \* m_items
  vec,      \* m_vecDelayedFree
  deletes,  \* how often each control was deleted
  msg,      \* the message of the window's thread: whose Event runs, and whether
            \* that control was taken out meanwhile
  op,       \* where it is in remove, removeAll or stopDelayedFreeControl
  seen,     \* the vector as push_back found it
  window,   \* "open", "closed" (after WM_CLOSE), "dying" (in the destructor) or "gone"
  handles,  \* m_eventDelayedFree and m_threadDelayedFree are not NULL
  switch,   \* m_lDelayedFreeSwitch
  event,    \* whether m_eventDelayedFree is signalled
  worker,   \* where threadDelayedFreeControl is
  next,     \* the index its iterator in clearDelayedFree stands at
  earlier,  \* whether a message of before the thread's Sleep is still handled
  met       \* history: push_back ran while the thread went through the vector

container == <<items, vec, deletes, seen>>
shutting == <<window, handles, switch>>
freeing == <<worker, next>>
vars == <<container, msg, op, shutting, event, freeing, earlier, met>>

Nothing == [at |-> "idle", on |-> None, own |-> FALSE]
Done == [at |-> "none", ctl |-> None, left |-> {}, taken |-> {}]
At(l) == [Done EXCEPT !.at = l]

Init ==
  /\ items = Ctl /\ vec = <<>> /\ deletes = [c \in Ctl |-> 0] /\ seen = <<>>
  /\ msg = Nothing /\ op = Done
  /\ window = "open" /\ handles = TRUE /\ switch = 1 /\ event = FALSE
  /\ worker = "loop" /\ next = 1 /\ earlier = FALSE /\ met = FALSE

InMessage == msg # Nothing \/ op # Done
Overlap == op.at = "store" /\ worker \in {"free", "clear"}
-----------------------------------------------------------------------------
(* The thread of the window.                                               *)

Between == op = Done                    \* not within one of the three calls
Free == msg = Nothing /\ Between /\ window \in {"open", "closed"}
InHandler == msg.at = "running" /\ Between

\* A message runs the Event of a control, or none.
Message ==
  /\ Free
  /\ \E c \in items \cup {None} : msg' = [at |-> "running", on |-> c, own |-> FALSE]
  /\ UNCHANGED <<container, op, shutting, event, freeing>>

Return ==
  /\ InHandler /\ msg' = Nothing
  /\ UNCHANGED <<container, op, shutting, event, freeing>>

\* containerUC::remove and removeAll call addDelayedFree for each control C that
\* they take out, the first of them c.
Take(c, C) ==
  /\ op' = [at |-> "find", ctl |-> c, left |-> C \ {c}, taken |-> {}]
  /\ msg' = [msg EXCEPT !.own = @ \/ msg.on \in C]
  /\ UNCHANGED <<container, shutting, event, freeing>>

remove == InHandler /\ \E c \in items : Take(c, {c})
removeAll == InHandler /\ \E c \in items : Take(c, items)

\* The control is in the vector; SetEvent is next.
HandedOver ==
  op' = [at |-> "signal", ctl |-> op.ctl, left |-> op.left, taken |-> op.taken \cup {op.ctl}]

\* existsDelayedFree.
Find ==
  /\ op.at = "find"
  /\ IF op.ctl \in ToSet(vec) THEN HandedOver ELSE op' = [op EXCEPT !.at = "push"]
  /\ UNCHANGED <<container, msg, shutting, event, freeing>>

\* push_back looks where the vector ends.
PushBegin ==
  /\ op.at = "push" /\ seen' = vec /\ op' = [op EXCEPT !.at = "store"]
  /\ UNCHANGED <<items, vec, deletes, msg, shutting, event, freeing>>

\* push_back stores at the end that it saw.  If clear() has emptied the vector
\* since, the new end may be counted from the old one or from the new one, so
\* that the old entries, all or the first, are back; or all of it came later.
Stored(v, c) ==
  IF seen = v THEN {Append(v, c)}
  ELSE {Append(seen, c), SubSeq(Append(seen, c), 1, Len(v) + 1), Append(v, c)}

PushEnd ==
  /\ op.at = "store"
  /\ vec' \in Stored(vec, op.ctl) /\ HandedOver
  /\ \/ UNCHANGED worker
     \/ worker = "free" /\ worker' = "astray"
  /\ UNCHANGED <<items, deletes, seen, msg, shutting, event, next>>

\* SetEvent of m_eventDelayedFree, unless it is NULL.
Mut_Wake_Forgotten == UNCHANGED event
Wake == event' = (event \/ handles)

\* The end of addDelayedFree: removeAll goes on with the next control.
Signal ==
  /\ op.at = "signal" /\ Wake
  /\ IF op.left = {} THEN op' = [op EXCEPT !.at = "erase"]
     ELSE \E c \in op.left :
            op' = [at |-> "find", ctl |-> c, left |-> op.left \ {c}, taken |-> op.taken]
  /\ UNCHANGED <<container, msg, shutting, freeing>>

\* m_items.erase and m_items.clear.
Erase ==
  /\ op.at = "erase"
  /\ items' = items \ op.taken /\ op' = Done
  /\ UNCHANGED <<vec, deletes, seen, msg, shutting, event, freeing>>

\* The tree goes, and the destructor of the container deletes what it still has.
DeleteItems ==
  /\ items' = {} /\ deletes' = [c \in Ctl |-> IF c \in items THEN deletes[c] + 1 ELSE deletes[c]]
  /\ UNCHANGED <<vec, seen>>

DeleteTree ==
  /\ InHandler /\ DeleteItems
  /\ UNCHANGED <<msg, op, shutting, event, freeing>>
-----------------------------------------------------------------------------
(* The end: WM_CLOSE and the destructor, both of which call                *)
(* stopDelayedFreeControl.                                                 *)

Close ==
  /\ Free /\ window = "open" /\ window' = "closed" /\ op' = At("off")
  /\ UNCHANGED <<container, msg, handles, switch, event, freeing>>

Destroy ==
  /\ Free /\ window' = "dying" /\ DeleteItems /\ op' = At("off")
  /\ UNCHANGED <<msg, handles, switch, event, freeing>>

SwitchOff ==
  /\ op.at = "off" /\ switch' = 0 /\ op' = At("last")
  /\ UNCHANGED <<container, msg, window, handles, event, freeing>>

LastSignal ==
  /\ op.at = "last" /\ Wake /\ op' = At("join")
  /\ UNCHANGED <<container, msg, shutting, freeing>>

\* The wait for the thread, which fails at once for a NULL handle.
Join ==
  /\ op.at = "join" /\ (handles => worker = "ended")
  /\ handles' = FALSE /\ op' = Done
  /\ window' = IF window = "dying" THEN "gone" ELSE window
  /\ UNCHANGED <<container, msg, switch, event, freeing>>
-----------------------------------------------------------------------------
(* threadDelayedFreeControl.                                               *)

Thread == UNCHANGED <<items, seen, msg, op, shutting>>

WorkerLoop ==
  /\ worker = "loop" /\ worker' = IF switch = 1 THEN "wait" ELSE "ended"
  /\ Thread /\ UNCHANGED <<vec, deletes, event, next>>

WorkerWake ==
  /\ worker = "wait" /\ event /\ event' = FALSE /\ worker' = "woken"
  /\ Thread /\ UNCHANGED <<vec, deletes, next>>

WorkerWoken ==
  /\ worker = "woken" /\ worker' = IF switch = 1 THEN "sleep" ELSE "ended"
  /\ Thread /\ UNCHANGED <<vec, deletes, event, next>>

\* The second is over: so are the messages of before it, but for the wait
\* for this thread.
WorkerSlept ==
  /\ worker = "sleep" /\ (earlier => op.at = "join") /\ worker' = "free"
  /\ Thread /\ UNCHANGED <<vec, deletes, event, next>>

WorkerFree ==
  /\ worker = "free" /\ next <= Len(vec)
  /\ deletes' = [deletes EXCEPT ![vec[next]] = @ + 1] /\ next' = next + 1
  /\ Thread /\ UNCHANGED <<vec, event, worker>>

\* end() is reached; what is appended from here to clear() is lost.
WorkerFreed ==
  /\ worker = "free" /\ next > Len(vec) /\ worker' = "clear"
  /\ Thread /\ UNCHANGED <<vec, deletes, event, next>>

Mut_WorkerClear_End ==
  /\ worker = "clear" /\ vec' = <<>> /\ worker' = "test"
  /\ Thread /\ UNCHANGED <<deletes, event, next>>
Mut_WorkerClear_Not ==
  /\ worker = "clear" /\ next' = 1 /\ worker' = "test"
  /\ Thread /\ UNCHANGED <<vec, deletes, event>>
WorkerClear ==
  /\ worker = "clear" /\ vec' = <<>> /\ next' = 1 /\ worker' = "test"
  /\ Thread /\ UNCHANGED <<deletes, event>>

\* emptyDelayedFree is TRUE when there is something left.
emptyDelayedFree == Len(vec) > 0

WorkerTest ==
  /\ worker = "test" /\ worker' = IF emptyDelayedFree THEN "loop" ELSE "again"
  /\ Thread /\ UNCHANGED <<vec, deletes, event, next>>

WorkerAgain ==
  /\ worker = "again" /\ event' = TRUE /\ worker' = "loop"
  /\ Thread /\ UNCHANGED <<vec, deletes, next>>
-----------------------------------------------------------------------------
Calls == remove \/ removeAll \/ Find \/ PushBegin \/ PushEnd \/ Signal \/ Erase
Ends == Close \/ Destroy \/ SwitchOff \/ LastSignal \/ Join
Worker == WorkerLoop \/ WorkerWake \/ WorkerWoken \/ WorkerSlept \/ WorkerFree \/ WorkerFreed
            \/ WorkerClear \/ WorkerTest \/ WorkerAgain

Next ==
  /\ Message \/ Return \/ DeleteTree \/ Calls \/ Ends \/ Worker
  /\ earlier' = (InMessage' /\ (worker = "sleep" => earlier))
  /\ met' = (met \/ Overlap')

Spec == Init /\ [][Next]_vars
-----------------------------------------------------------------------------
\* Every variable has its type; the iterator of the thread, until the vector moves
\* under it, is within the vector or at its end, and at the beginning when
\* clearDelayedFree is not at work.
TypeOK ==
  /\ items \subseteq Ctl /\ vec \in Seq(Ctl) /\ seen \in Seq(Ctl) /\ deletes \in [Ctl -> Nat]
  /\ msg \in [at : {"idle", "running"}, on : Ctl \cup {None}, own : BOOLEAN]
  /\ op \in [at : {"none", "find", "push", "store", "signal", "erase", "off", "last", "join"},
             ctl : Ctl \cup {None}, left : SUBSET Ctl, taken : SUBSET Ctl]
  /\ window \in {"open", "closed", "dying", "gone"}
  /\ handles \in BOOLEAN /\ switch \in {0, 1} /\ event \in BOOLEAN
  /\ worker \in {"loop", "wait", "woken", "sleep", "free", "clear", "test", "again", "ended", "astray"}
  /\ earlier \in BOOLEAN /\ met \in BOOLEAN
  /\ next \in 1..Len(vec) + 1 /\ (worker \notin {"free", "clear", "astray"} => next = 1)

\* The entries of control c in m_vecDelayedFree that are still to be freed.
Waits(c) == {i \in next..Len(vec) : vec[i] = c}

\* As long as no push_back has run while the thread went through the vector:
\* a control that a container has is not deleted and waits nowhere; one that is
\* being taken out (wucContainer.cpp:560, 628) or was taken out is freed, once, or
\* waits to be, once.
FreedOnce ==
  ~met => \A c \in Ctl :
    IF c \in items \ op.taken THEN deletes[c] = 0 /\ Waits(c) = {}
    ELSE \/ deletes[c] = 1 /\ Waits(c) = {}
         \/ deletes[c] = 0 /\ \E i \in DOMAIN vec : Waits(c) = {i}

\* The thread that frees does not sleep over a control in its vector, unless the
\* window's thread is on its way to wake it, nor over the end of the window,
\* which waits for it (drawManager.cpp:1004, 1027).
NoLostWakeup ==
  worker = "wait" /\ ~event => (vec = <<>> \/ op.at = "signal") /\ op.at # "join"

\* A control that is taken out in its own event is not deleted before its
\* handler returns: what m_vecDelayedFree is for, UC/drawManager.h:422.
SelfRemovalSafe == msg.own => deletes[msg.on] = 0

\* No control is deleted twice: m_vecDelayedFree is said to be protected by a
\* lock, UC/drawManager.h:345.
DeletedOnce == \A c \in Ctl : deletes[c] <= 1

\* A control is freed only after it has left m_items, or others that look there
\* would use it: UC/wucContainer.cpp:575-577, of the other kind of container.
FreedAfterErased == \A c \in items : deletes[c] = 0
=============================================================================
