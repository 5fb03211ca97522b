----------------------------- MODULE DeskNodes ------------------------------
(***************************************************************************)
(* kpdeskAdmin (KP/KPDeskInfo.cpp): a map of the icons of the desktop,     *)
(* kept beside Explorer's list view.  List view and shell change           *)
(* without asking; the map follows by index checks, by messages about      *)
(* nodes to add and to delete, and by refreshAllNode.                      *)
(*                                                                         *)
(* Two threads use it.  "lv" is the thread of the list view: it paints     *)
(* icons (findNode) and places them (moveto), and while it does so the     *)
(* list does not change.  "worker" is every other use.  Each look of the   *)
(* worker at the list view is a message that lv answers when it is idle,   *)
(* so the worker waits for lv while it holds m_csLockNodes; lv must not    *)
(* wait for the worker, and only tries the lock.                           *)
(*                                                                         *)
(* An icon is its key: looks (name, type, size, date) tell icons apart.    *)
(***************************************************************************)
EXTENDS Integers, Sequences, FiniteSets, SequencesExt

CONSTANTS
  N,            \* the keys are 1..N, in the order of std::map
  MaxChanges,   \* bound: how often Explorer and the shell change something
  None

ASSUME BoundsType == N \in Nat \ {0} /\ MaxChanges \in Nat
ASSUME NoneDistinct == None \notin Int /\ None \notin {"lv", "worker", "find", "move"}

Keys == 1..N
Indexes == 0..N-1

VARIABLES
  shell,        \* the keys that exist in the shell
  list,         \* the list view: list[i+1] is the icon with index i
  changes,
  index,        \* m_mapNodes: the index of each node, None if there is no node
  lock,         \* who owns m_csLockNodes
  oldNodeIndex, \* c_ioldNodeIndex
  addQueue, delQueue,   \* the nodesCache queues behind ADDNODE and DELETENODE
  lv,           \* the call the list view's thread is in
  worker,       \* the call the other thread is in
  kept,         \* the nodes with m_optFlag = 1; read by refreshAllNode only
  quiet         \* history: nothing changed since refreshAllNode began

vars == <<shell, list, changes, index, lock, oldNodeIndex, addQueue, delQueue,
          lv, worker, kept, quiet>>
desktop == <<shell, list, changes>>
queues == <<addQueue, delQueue>>

Idle == [at |-> "idle", op |-> None, arg |-> 0]
Resting == [at |-> "idle", arg |-> 0, pos |-> None, count |-> 0, ok |-> {}]

\* The index of icon k in the list view, -1 without an icon.
Place(k) == IF k \in ToSet(list) THEN (CHOOSE i \in 1..Len(list) : list[i] = k) - 1 ELSE -1

\* After enumNodes with saveNodePosition: a node for each icon, with the index it
\* had in a list in the order of the keys.  The list may have been sorted since.
Init ==
  /\ shell \in {1..N-1, Keys}
  /\ list \in SetToSeqs(shell)
  /\ index = [k \in Keys |-> IF k \in shell THEN k - 1 ELSE None]
  /\ changes = 0
  /\ lock = None /\ oldNodeIndex = -1
  /\ addQueue = <<>> /\ delQueue = <<>>
  /\ lv = Idle /\ worker = Resting
  /\ kept = {} /\ quiet = FALSE
-----------------------------------------------------------------------------
\* nodesCache: new keys in front, the oldest at the back.
Mut_Push_NoSearch(q, k) == <<k>> \o q
Push(q, k) == IF k \in ToSet(q) THEN q ELSE <<k>> \o q

\* The keys of S, the last in the order of the map first.
Descending(S) ==
  [i \in 1..Cardinality(S) |-> CHOOSE k \in S : Cardinality({j \in S : j >= k}) = i]
PushAll(q, S) == Descending(S \ ToSet(q)) \o q
GetNode(q) == Last(q)
PopNode(q) == Front(q)

Known == {k \in Keys : index[k] # None}
\* isEqualNode: the icon at index i is that of node k.
IsEqualNode(i, k) == i \in 0..Len(list)-1 /\ list[i+1] = k
\* findNodeIndex
FindNodeIndex(k) == Place(k)
-----------------------------------------------------------------------------
(* Explorer's own doings, on lv's thread and in the file system.           *)
Changed ==
  /\ quiet' = FALSE
  /\ UNCHANGED <<index, lock, oldNodeIndex, queues, lv, worker, kept>>
Counted == changes < MaxChanges /\ changes' = changes + 1

FileAppears(k) ==
  k \notin shell /\ shell' = shell \cup {k} /\ UNCHANGED list /\ Counted /\ Changed
FileGoes(k) ==
  k \in shell /\ shell' = shell \ {k} /\ UNCHANGED list /\ Counted /\ Changed

Sort ==
  /\ lv.at = "idle"
  /\ list' \in SetToSeqs(ToSet(list)) \ {list}
  /\ UNCHANGED shell /\ Counted /\ Changed

\* The icons follow the files.
IconAppears(k) ==
  /\ lv.at = "idle" /\ k \in shell \ ToSet(list)
  /\ \E i \in 1..Len(list)+1 : list' = InsertAt(list, i, k)
  /\ UNCHANGED <<shell, changes>> /\ Changed

IconGoes(k) ==
  /\ lv.at = "idle" /\ k \in ToSet(list) \ shell
  /\ list' = RemoveAt(list, Place(k) + 1)
  /\ UNCHANGED <<shell, changes>> /\ Changed

Explorer ==
  \/ \E k \in Keys : FileAppears(k) \/ FileGoes(k) \/ IconAppears(k) \/ IconGoes(k)
  \/ Sort
-----------------------------------------------------------------------------
(* The list view's thread.                                                 *)

\* The look before the lock, wrapExistsNode: the first node with the index.
\* The calls that succeed with it change nothing and are left out.
First(i) == {k \in Known : index[k] = i /\ \A j \in Known : index[j] = i => k <= j}

FindNode(i) ==
  /\ lv.at = "idle" /\ i < Len(list)
  /\ \A k \in First(i) : ~IsEqualNode(i, k)
  /\ lv' = [at |-> "try", op |-> "find", arg |-> i]
  /\ UNCHANGED <<desktop, index, lock, oldNodeIndex, queues, worker, kept, quiet>>

\* The look before the lock, wrapMoveto.
MoveTo(k) ==
  /\ lv.at = "idle"
  /\ k \in Known => ~IsEqualNode(index[k], k)
  /\ lv' = [at |-> "try", op |-> "move", arg |-> k]
  /\ UNCHANGED <<desktop, index, lock, oldNodeIndex, queues, worker, kept, quiet>>

\* TryEnterCriticalSection; without the lock the call returns -1.
Mut_TryEnter_Waits ==
  /\ lock = None /\ lock' = "lv" /\ lv' = [lv EXCEPT !.at = "locked"]
TryEnter ==
  \/ lock = None /\ lock' = "lv" /\ lv' = [lv EXCEPT !.at = "locked"]
  \/ lock # None /\ lv' = Idle /\ UNCHANGED lock

LvTries ==
  /\ lv.at = "try"
  /\ TryEnter
  /\ UNCHANGED <<desktop, index, oldNodeIndex, queues, worker, kept, quiet>>

LvLeaves == lock' = None /\ lv' = Idle

\* existsNode(i): nodes that have the index wrongly get their own, or -1; then
\* the icon's node, whatever its index, gets this one.
Misplaced(i) ==
  {k \in Known : index[k] = i /\ ~IsEqualNode(i, k)
                 /\ (index[list[i+1]] = i => k < list[i+1])}

ExistsNode(i) ==
  /\ index' = [k \in Keys |-> IF k \in Misplaced(i) THEN FindNodeIndex(k)
                              ELSE IF k \in Known /\ IsEqualNode(i, k) THEN i
                              ELSE index[k]]
  /\ delQueue' = PushAll(delQueue,
                   {k \in Misplaced(i) : FindNodeIndex(k) = -1 /\ k \notin shell})

\* findNode(i) with the lock: an icon without a node is announced, if its file
\* can be found and the last one announced had another index.
FindNodeLocked ==
  /\ lv.at = "locked" /\ lv.op = "find"
  /\ LET i == lv.arg
         k == list[i+1] IN
     /\ ExistsNode(i)
     /\ \/ /\ k \notin Known /\ k \in shell /\ oldNodeIndex # i
           /\ oldNodeIndex' = i
           /\ addQueue' = Push(addQueue, k)
        \/ /\ k \in Known \/ k \notin shell \/ oldNodeIndex = i
           /\ UNCHANGED <<oldNodeIndex, addQueue>>
  /\ LvLeaves
  /\ UNCHANGED <<desktop, worker, kept, quiet>>

\* moveto with the lock.  Without a node the icon is only taken out of its
\* group (DELETENODE with LPARAM 1), which is nothing here.
MoveToLocked ==
  /\ lv.at = "locked" /\ lv.op = "move"
  /\ LET k == lv.arg IN
     IF k \in Known /\ ~IsEqualNode(index[k], k)
     THEN IF FindNodeIndex(k) >= 0
          THEN index' = [index EXCEPT ![k] = FindNodeIndex(k)] /\ UNCHANGED delQueue
          ELSE delQueue' = Push(delQueue, k) /\ UNCHANGED index
     ELSE UNCHANGED <<index, delQueue>>
  /\ LvLeaves
  /\ UNCHANGED <<desktop, oldNodeIndex, addQueue, worker, kept, quiet>>

LvThread == LvTries \/ FindNodeLocked \/ MoveToLocked
-----------------------------------------------------------------------------
(* The other thread.  A call that cannot take the lock returns -1 and      *)
(* changes nothing; the key stays in its queue.                            *)
Enter(step) == lock = None /\ lock' = "worker" /\ worker.at = "idle" /\ worker' = step
Leave == lock' = None /\ worker' = Resting
\* A look at the list view: lv answers between its own calls.
ListView == lv.at = "idle"

\* addNode for the oldest key: known, or not to be found, it is done with.
AddNode ==
  /\ addQueue # <<>>
  /\ Enter([Resting EXCEPT !.at = "find", !.arg = GetNode(addQueue)])
  /\ UNCHANGED <<desktop, index, oldNodeIndex, queues, lv, kept, quiet>>

Done == Leave /\ addQueue' = PopNode(addQueue)

AddFind ==
  /\ worker.at = "find"
  /\ \/ /\ worker.arg \in Known \/ worker.arg \notin shell
        /\ Done
     \/ /\ worker.arg \notin Known /\ worker.arg \in shell
        /\ ListView
        /\ worker' = [worker EXCEPT !.at = "store", !.pos = FindNodeIndex(worker.arg)]
        /\ UNCHANGED <<lock, addQueue>>
  /\ UNCHANGED <<desktop, index, oldNodeIndex, delQueue, lv, kept, quiet>>

AddStore ==
  /\ worker.at = "store"
  /\ worker.pos >= 0 => ListView
  /\ index' = [index EXCEPT ![worker.arg] = worker.pos]
  /\ Done
  /\ UNCHANGED <<desktop, oldNodeIndex, delQueue, lv, kept, quiet>>

\* deleteNode for the oldest key: the indexes behind it move up by one, whether or
\* not the list view has done so.
Mut_Erased_NeedsIndex(k) ==
  IF index[k] < 0 THEN index
  ELSE [j \in Keys |-> IF j = k THEN None
                       ELSE IF j \in Known /\ index[j] > index[k] THEN index[j] - 1
                       ELSE index[j]]
Erased(k) ==
  [j \in Keys |-> IF j = k THEN None
                  ELSE IF j \in Known /\ index[k] >= 0 /\ index[j] > index[k]
                  THEN index[j] - 1
                  ELSE index[j]]

DeleteNode ==
  /\ delQueue # <<>> /\ lock = None /\ worker.at = "idle"
  /\ LET k == GetNode(delQueue) IN index' = IF k \in Known THEN Erased(k) ELSE index
  /\ delQueue' = PopNode(delQueue)
  /\ UNCHANGED <<desktop, lock, oldNodeIndex, addQueue, lv, worker, kept, quiet>>

\* renameNode: the only call here that waits for the lock.  It makes sure that the
\* new name exists, not that the old one is gone.  Nothing in src/ calls it: that
\* no file has the old name is what it is called for, a file that was renamed.
RenameNode(o, n) ==
  /\ worker.at = "idle" /\ lock = None
  /\ n \in shell /\ o \notin shell /\ o \in Known
  /\ index' = [index EXCEPT ![n] = index[o], ![o] = None]
  /\ UNCHANGED <<desktop, lock, oldNodeIndex, queues, lv, worker, kept, quiet>>

\* updateNode looks for the node with the lock and works on it without.
UpdateNode(k) ==
  /\ worker.at = "idle" /\ lock = None
  /\ k \in Known /\ k \in shell
  /\ ListView
  /\ FindNodeIndex(k) >= 0
  /\ worker' = [Resting EXCEPT !.at = "update", !.arg = k, !.pos = FindNodeIndex(k)]
  /\ UNCHANGED <<desktop, index, lock, oldNodeIndex, queues, lv, kept, quiet>>

UpdateStore ==
  /\ worker.at = "update" /\ ListView
  /\ index' = [index EXCEPT ![worker.arg] = worker.pos]
  /\ worker' = Resting
  /\ UNCHANGED <<desktop, lock, oldNodeIndex, queues, lv, kept, quiet>>
-----------------------------------------------------------------------------
(* refreshAllNode.                                                         *)
RefreshAllNode ==
  /\ Enter([Resting EXCEPT !.at = "check", !.arg = 1])
  /\ kept' = {}
  /\ quiet' = TRUE
  /\ UNCHANGED <<desktop, index, oldNodeIndex, queues, lv>>

\* The nodes whose index is right are kept.
RefreshCheck ==
  /\ worker.at = "check" /\ worker.arg <= N /\ ListView
  /\ LET k == worker.arg
         right == k \in Known /\ IsEqualNode(index[k], k) IN
     /\ kept' = IF right THEN kept \cup {k} ELSE kept
     /\ worker' = [worker EXCEPT !.arg = k + 1,
                                 !.ok = IF right THEN @ \cup {index[k]} ELSE @]
  /\ UNCHANGED <<desktop, index, lock, oldNodeIndex, queues, lv, quiet>>

RefreshCount ==
  /\ worker.at = "check" /\ worker.arg > N /\ ListView
  /\ worker' = [worker EXCEPT !.at = "place", !.arg = 0, !.count = Len(list)]
  /\ UNCHANGED <<desktop, index, lock, oldNodeIndex, queues, lv, kept, quiet>>

\* The icon at the next index that is not yet taken care of: its node gets the
\* index and is kept, or a node for it is asked for.
Mut_Settle_OnlyPlaces(k, i) ==
  /\ index' = [index EXCEPT ![k] = i]
  /\ UNCHANGED <<addQueue, kept>>
Settle(k, i) ==
  IF k \in Known
  THEN /\ index' = [index EXCEPT ![k] = i]
       /\ kept' = kept \cup {k}
       /\ UNCHANGED addQueue
  ELSE /\ addQueue' = Push(addQueue, k)
       /\ UNCHANGED <<index, kept>>

RefreshPlace ==
  /\ worker.at = "place" /\ worker.arg < worker.count /\ ListView
  /\ LET i == worker.arg IN
     /\ worker' = [worker EXCEPT !.arg = i + 1]
     /\ IF i \notin worker.ok /\ i < Len(list) /\ list[i+1] \in shell
        THEN Settle(list[i+1], i)
        ELSE UNCHANGED <<index, kept, addQueue>>
  /\ UNCHANGED <<desktop, lock, oldNodeIndex, delQueue, lv, quiet>>

\* freeNone: the nodes that were not kept are to be deleted.
FreeNone ==
  /\ worker.at = "place" /\ worker.arg >= worker.count /\ ListView
  /\ delQueue' = PushAll(delQueue, Known \ kept)
  /\ worker' = [Resting EXCEPT !.at = "leave"]
  /\ UNCHANGED <<desktop, index, lock, oldNodeIndex, addQueue, lv, kept, quiet>>

RefreshLeave ==
  /\ worker.at = "leave"
  /\ Leave
  /\ kept' = {} /\ quiet' = FALSE
  /\ UNCHANGED <<desktop, index, oldNodeIndex, queues, lv>>

InRefresh == RefreshCheck \/ RefreshCount \/ RefreshPlace \/ FreeNone \/ RefreshLeave
InCall == AddFind \/ AddStore \/ UpdateStore \/ InRefresh
-----------------------------------------------------------------------------
Next ==
  \/ Explorer
  \/ \E i \in Indexes : FindNode(i)
  \/ \E k \in Keys : MoveTo(k) \/ UpdateNode(k)
  \/ \E o, n \in Keys : RenameNode(o, n)
  \/ LvThread
  \/ AddNode \/ DeleteNode \/ RefreshAllNode \/ InCall

\* lv runs on and answers the worker between its own calls.  Messages are
\* handled, and refreshAllNode is called, again and again, and not always while
\* the lock is taken.  Icons of files that are gone disappear.
Fairness ==
  /\ WF_vars(LvThread) /\ SF_vars(InCall)
  /\ SF_vars(AddNode) /\ SF_vars(DeleteNode) /\ SF_vars(RefreshAllNode)
  /\ SF_vars(\E k \in Keys : IconGoes(k))

Spec == Init /\ [][Next]_vars
FairSpec == Spec /\ Fairness
-----------------------------------------------------------------------------
TypeOK ==
  /\ shell \subseteq Keys
  /\ list \in Seq(Keys) /\ IsInjective(list)
  /\ changes \in 0..MaxChanges
  /\ index \in [Keys -> {None, -1} \cup Indexes]
  /\ lock \in {None, "lv", "worker"}
  /\ oldNodeIndex \in {-1} \cup Indexes
  /\ \A q \in {addQueue, delQueue} : q \in Seq(Keys) /\ IsInjective(q)
  /\ lv.at \in {"idle", "try", "locked"}
  /\ worker.at \in {"idle", "find", "store", "update", "check", "place", "leave"}
  /\ (lock = "lv") <=> (lv.at = "locked")
  /\ (lock = "worker") <=> (worker.at \notin {"idle", "update"})
  /\ kept \subseteq Keys /\ quiet \in BOOLEAN

\* A refreshAllNode during which nothing changes leaves every icon with a node
\* of the right index that stays, or with a node asked for, and every node
\* without an icon on its way out (KP/KPDeskInfo.cpp:3016, 3032, 3068).
QuietRefresh ==
  worker.at = "leave" /\ quiet =>
    /\ \A k \in ToSet(list) \cap shell :
         IF k \in Known THEN index[k] = Place(k) /\ k \in kept ELSE k \in ToSet(addQueue)
    /\ Known \ ToSet(list) \subseteq ToSet(delQueue)

\* The list view's thread is never held up by the worker: a call that paints
\* or places an icon returns.
LvReturns == lv.at # "idle" ~> lv.at = "idle"

\* The map is the list view, and neither a message that waits nor a call under way
\* will change that.
Exact == \A k \in Keys : index[k] = IF k \in ToSet(list) THEN Place(k) ELSE None
Calm ==
  /\ Exact /\ ToSet(list) \subseteq shell
  /\ ToSet(addQueue) \cap shell \subseteq Known
  /\ Known \cap ToSet(delQueue) = {}
  /\ worker.at = "find" => worker.arg \in Known \/ worker.arg \notin shell
  /\ worker.at \in {"store", "update"} => worker.arg \in Known /\ worker.pos = Place(worker.arg)
  /\ worker.at = "check" => \A k \in Known : k < worker.arg => k \in kept
  /\ worker.at = "place" => Known \subseteq kept

\* Whatever wrong indexes deleted nodes, unanswered tries and changes in the
\* middle of a refresh leave behind, once the desktop has stopped changing the
\* map becomes the list view and stays so (KP/KPDeskInfo.cpp:2485, 2553, 2996).
Settles == <>[]Calm
=============================================================================
