# NTools in TLA+

TLA+ models of the parts of NTools in which threads, messages or callbacks meet,
TLC runs that check them on small instances, and TLAPS proofs for every value of
the constants. File names below are relative to `src/NTools/`; line numbers are
those of the files there. `PROJECT.json` maps every definition to its lines.

Contents: [the system](#1-the-system-and-its-components), [what is
hard](#2-what-is-hard-in-this-code), [the modules](#3-the-modules), [the
runs](#4-the-runs), [what disagrees with the code's
comments](#5-where-the-code-and-its-comments-disagree), [the proofs](#6-the-proofs),
[what is left out](#7-what-is-not-modelled-and-why), [the plan](#8-the-plan).

## 1. The system and its components

NTools is a C++ library for Windows (with some C for a microcontroller) and the
programs built on it: a desktop organizer (KP), a client for a device that speaks
a line protocol over TCP (socket, GT), a window library with drawn controls (UC),
general helpers (AC), a Modbus master and an EEPROM driver (MCU, AC/Device).

| component | state it keeps | operations | interacts with | what makes it correct | module |
|---|---|---|---|---|---|
| `swmrg` reader/writer lock, AC/SyncObject.cpp:262-447 | two waiting counts, `m_nActive`, two semaphores, a critical section | `waitToRead`, `waitToWrite`, `done` | its callers' threads | writers exclude, no wake-up is lost, writers are served | Swmrg |
| `optex`, AC/SyncObject.cpp:42-260 | lock count, owner, recursion count in shared memory, an auto-reset event | `enter`, `tryEnter`, `leave`, `setSpinCount` | threads of one or several processes | one owner, exact counts, `enter` returns | Optex |
| device client, socket/socketclient.cpp, socket/sockcache.h | socket, four thread handles, three switches, two queues, two events | `startup`, `shutdown`, `pushGTCommand`; threads waitfor, heartbeat, sender, recver | the user's threads, the network, the window (messages), `sockcache` | everything queued is dealt with once and in order, shutdown stops everything, nobody sleeps on work | SockClient |
| framing of responses, socket/sockcache.cpp, socket/sockme.cpp | received bytes, the receive queue, an unfinished response | `receive`, `pushRecvData`, `popRecvData`, `analysisRecvData`, dispatch | the network, the window, waiters on named events | what is handed over is what was sent | RecvFraming |
| control lifetimes, UC/drawManager.cpp, UC/wucContainer.cpp | the tree of controls, five raw pointers into it, two vectors of controls to delete, a thread with switch and event | input messages, `setFocus`, `remove`, `removeAll`, `attachDialog`, `reapObject`, WM_APP+1, WM_CLOSE, the destructor | event handlers (which call back into it), the thread that frees controls | no control is used after it is deleted, none is deleted twice or never | ControlLife, DelayedFree |
| painting and layout, UC/wuc*.cpp | geometry | drawing | | pure data | none |
| desktop nodes, KP/KPDeskInfo.cpp `kpdeskAdmin` | map from name to node with its index in Explorer's list view, `m_csLockNodes` | `findNode`, `addNode`, `deleteNode`, `renameNode`, `updateNode`, `moveto`, `refreshAllNode` | Explorer's list view (messages both ways), monitoring threads | map and list view come to agree; the list view's thread never waits for the lock | DeskNodes |
| desktop windows, KP/kpdeskWnd.cpp, kpdeskGroupWnd.cpp | window handles | forward messages | kpdeskAdmin, UC | | none |
| socket library and test server, socket/sockme.cpp | a list of connections | `serviceHeartBeat`, `clientHeartBeat`, `send`, `receive` | the network | what is sent is answered, who is gone is freed, who is alive is kept | HeartbeatServer |
| commands, GT/gtcmd.h | text of a command | formatting | the client's queue | | a value in SockClient |
| delegates, AC/delegateBase.cpp | vector of handlers | `+=`, `-=`, `=`, call | handlers that change it while it is walked | each handler is called once, none twice | none, see section 7 |
| queue cache, AC/cache.h | a locked queue | push, pop | | one critical section each | none; the queues of DeskNodes are of its kind |
| serial port and modbus devices, AC/Device | a shared libmodbus context, a counter | `open`, `close`, copy, destroy | devices that share the port | the context is closed once, by the last | none, see section 7 |
| modbus RTU master, MCU/COMM/serialport.c | frame buffers | build, check, resolve | the slave | an accepted answer answers the request, and a right one is accepted | RtuMaster |
| EEPROM, MCU/RAM/EEPROM.c | sectors of bytes, the chip's registers, EA | `ISP_Erase`, `ISP_Read`, `ISP_Write`, `ISP_WriteVerify`, `ISP_Writes`, `ISP_Reads` | interrupt routines that use the registers too, power | MCU_OK means stored, nothing else changes, EA is restored | Eeprom |
| displays, SQLite, hook DLL, memory pool, helpers, drivers and samples | | | | | none, see section 7 |

How they meet: an application thread pushes a command into the client's
`sockcache`; the sender thread takes it out and sends it; the waitfor thread
queues whatever `receive` returned; the recver thread cuts it into responses and
sends each one to the window with `SendMessage`, or sets the named event a caller
waits for. The window's thread runs the `drawManager`, which calls the event
handlers of controls, which call back into the `drawManager`. `swmrg` and `optex`
are the library's own locks; the client and the drawManager use
`CRITICAL_SECTION` or nothing.

## 2. What is hard in this code

Section "hazards" of `PROJECT.json` lists each one at its line with the properties
that would notice. In groups:

* **A step made after the lock is released.** `swmrg::done` releases a semaphore
  after `LeaveCriticalSection`; `optex` records its owner after the interlocked
  operation that made it the owner. Covered: Swmrg, Optex.
* **Look, then reset.** The sender and recver threads test their queue and reset
  the manual-reset event in two steps. Covered: SockClient.
* **Waiting for oneself, or for a handle that is not one.** `shutdown` joins four
  threads, one of which may be its caller, with handles that may be NULL. Covered:
  SockClient.
* **Restart over leftovers.** `startup` again, without forgetting the old socket
  and handles. Covered: SockClient.
* **A stream cut anywhere.** TCP splits and glues responses. Covered: RecvFraming.
* **A handler that deletes the object it runs on**, or the one a message holds in
  a local variable. Covered: ControlLife.
* **A vector shared by two threads without a lock** (`m_vecDelayedFree`), and a control
  handed over in it before its container lets go of it. Covered: DelayedFree.
* **Indexes that mirror another program's list, a `SendMessage` under a lock, a
  call that gives up when the lock is taken**: kpdeskAdmin. Covered: DeskNodes.
* **A full table, a connection dropped half-way, a `recv` that has nothing to
  read**: the heartbeat server. Covered: HeartbeatServer.
* **Registers shared with interrupt routines, a write cut short by the power, a chip
  that ignores a command**: the EEPROM. Covered: Eeprom.
* **A length kept in a char, an error code in the place of a count**: the Modbus
  master. Covered, by theorems about its functions: RtuMaster.
* **A vector changed while it is walked, a shared context closed twice, a node
  deleted while another thread uses it.** Not covered: the first and the last are
  undefined behaviour with nothing left to model, the second is a sequence of three
  calls (section 7).

## 3. The modules

Dependencies: `Swmrg` instantiates `RWLock`, `Optex` instantiates
`RecursiveMutex` and `HeartbeatServer` instantiates `EchoService`; DeskNodes, Eeprom, ControlLife, DelayedFree, SockClient and
RecvFraming stand alone. The `MC` modules extend the module they are named after, and
so do the `Proofs` modules (`HeartbeatProofs` extends HeartbeatServer, `McuProofs` both Eeprom
and RtuMaster, and `ControlLifeProofs` extends ControlLife and instantiates DelayedFree); RtuMaster has definitions only. Operators
whose names begin with `Mut_` are seeded bugs: each stands before the definition it
is a variant of, and no specification uses one.

### RWLock, Swmrg, MCSwmrg

`RWLock` is the promise: threads want, have and give back a lock; a reader excludes
writers, a writer excludes everybody, a writer that waits is served. `Swmrg` is the
code. What runs between `EnterCriticalSection` and `LeaveCriticalSection` is one
step (`WaitToRead`, `WaitToWrite`, `Done`); the wait on a semaphore (`WakeReader`,
`WakeWriter`) and the `ReleaseSemaphore` of `done` (`Release`) are steps of their
own, because any thread may run in between. A semaphore gives its count to *any*
thread that waits, also one that came later. `pc` says where a thread is;
`lCount` is `done`'s local variable. `MCSwmrg` adds one history variable, for
the statement NewReadersRefused of section 5.

### RecursiveMutex, Optex

`RecursiveMutex` is the promise: a depth per thread, at most one of them above 0.
`Optex` has a step for every interlocked operation, every test of `dwThreadId` and
every kernel call, so that another thread can see the optex taken with no owner
recorded. `dwProcessID` is written with `dwThreadId` and read nowhere else than
there; a thread of the model is a thread of any process. `setSpinCount` only
changes `SpinCount`, a constant here. The model has no owner that dies: the code
does not handle it (hazard `AC/SyncObject.cpp:74`), and an optex whose owner died
stays taken for ever.

### SockClient, MCSockClient

The client with its four threads. `pc[r][g]` is where the thread of role `r` that
the `g`-th `startup` created is; the client's own fields (`on`, `handle`, `scMain`,
`queue`, `event`) exist once, so an old thread that is still alive works on the
fields of the new one. Steps are accesses to a switch, an event, a locked queue or
a handle. `While`, `Wait`, `Take`, `Handle`, `Tidy`, `Reset` are the loop that
`doThreadSendGTCmd` and `doThreadAnalysisRecvData` share; `Beat` and
`AnnounceBeat` are `doThreadHeartbeat`; `WaitforData`, `Select`, `AnnounceData`,
`Reconnect` are `doThreadWaitforData`; `StopBeat` to `Close` are `shutdown`, by
whichever thread calls it; `Startup` to `ResumeWaitfor` are `startup` with all its
failures.

Assumptions: the window is served by a thread that does not itself call
`shutdown` (otherwise the recver's `SendMessage` and the join wait for each other:
hazard `socket/socketclient.cpp:352`); the value of a closed handle is not reused;
heartbeats that pile up at the end of the send queue are kept as one. `setup`
chooses, once, whether the client has a heartbeat, whether the network fails, whether
threads can be created, how often it is started, and how many commands are pushed and
responses arrive.

*InOrder* compares what was pushed with what was dealt with, is in hand and is
queued, heartbeats left out (`Real`); *DealtWithOnce* says the same without the order,
as the set of places of a thing (`Where`) that must have one member. Pieces of data
are numbers, and a command is not one of them (`CommandsType`): a queue holds either.

Several properties hold for *orderly* clients only: a heartbeat, threads that can
be created, no restart after the connection was lost for good. `Orderly` says so in
one place; each of the conditions is there because without it `shutdown` does not
wait, or waits for itself (section 5).

### RecvFraming, MCRecvFraming

The bytes of responses: `Respond` (the device), `Receive` (one `recv`, and what
`receive` does with a full or a partial buffer), `PopRecvData` with
`analysisRecvData` (`Pieces`) and the loop of `popRecvData` (`Scan`, `ScanData`,
`Scanned`, `Found`), `Dispatch` (event or window message, including the message number that
stays from the response before). When threads run, sleep and stop is SockClient's
business; here each is one step between two accesses to the locked queue. The
buffer is four bytes, so that responses are shorter than, as long as and longer
than what one `recv` returns. `arrived` and `whole` record, for the properties, how far
the stream has been read and which responses came whole in one piece of data: those of
`WholeIn`, between where the piece begins and where it ends.

Assumption (`ResponsesShape`): a response is a finite sequence of bytes that begins with
its type and ends with the only end byte in it. A device may send the type bytes inside
a body. What is dispatched is not parsed any further.

### ControlLife

The drawManager's tree, its five pointers and `m_vecDelayedCleanup` against event
handlers, for a container with the default flags. All of it is the window's thread.
`stack` is what that thread is doing: a frame for each `Event` that runs, with the
place where the message goes on (`at`) and the control the message keeps in a local
variable (`ctl`). Between two `Event` calls a message is one step, since no other
thread works on this state. Handlers may take controls out with `removeAll`, replace
the tree (`AttachDialog`) or move the focus (`FocusInHandler`, once each), which runs
further handlers up to `MaxDepth`. Controls that are taken out are deleted by
`Cleanup`, which is WM_APP+1: `removeAll` posts it (`Post`), `remove` sends it and so
runs it at once. `Hidden` controls are never found by input.

Assumptions: handlers do not run message loops of their own, and do not call `remove`
for a control of this container, which would delete it under its own handler. `Hasty`
has the controls for which they do: it is empty in the passing run, the premise of the
theorem on UsedAreAlive, and has one control in `ControlLifeHasty.cfg`, which shows
what happens (section 5). `Ctl` is finite, and `None` and `Root` are not in it
(`ControlsDistinct`). `stopDelayedFreeControl`, called by WM_CLOSE and the destructor,
is in DelayedFree.

### DelayedFree

The controls of a container with `m_bDelayedFree`, the window's thread and
`threadDelayedFreeControl`. `READ_LOCK_DLYFREE` and `WRITE_LOCK_DLYFREE` are empty in
every build of the repository, so the two threads share `m_vecDelayedFree` without a
lock, and every access to it, to the event, to the switch and to `m_items` is a step
of its own. `remove` and `removeAll` hand over one control after the other: look
whether it is there (`Find`), `push_back`, `SetEvent` (`Signal`); and only after the
last of them does the container erase what it handed over (`Erase`). `op` says where
they are. `WorkerLoop` to `WorkerAgain` are the thread, with `clearDelayedFree` as
`WorkerFree` (one control), `WorkerFreed` (the comparison with `end()`) and
`WorkerClear`.

`push_back` is two steps, `PushBegin` (where does the vector end?) and `PushEnd` (the
element and the new end are stored), and `clear()` may come between them. What then
becomes of the vector is a race, and the model takes every outcome of a build that
keeps the end in a member (`Stored`): the new end is counted from the old one, so that
all the entries that were just freed are back, or from the new one, so that the first
of them are, or the whole `push_back` comes after `clear()`. If the `push_back` comes
while the thread goes through the vector, the vector may also move in memory; the
iterator then never meets the end and the thread is `astray`. It takes no further step
of the model, as nothing can be said of what it does to memory: properties that
hold after that say nothing about the thread, and FreedOnce does not claim to, since it
excludes such runs. `met` records that a `push_back` and the walk of the thread
overlapped.

Assumptions: a message is handled in less time than the thread sleeps (one second),
and nothing else about time. What a message does with controls apart from taking them
out is ControlLife's business; there is one tree, which `DeleteTree` deletes as WM_APP+1
does once `attachDialog` has replaced it.

### DeskNodes

kpdeskAdmin between two threads. The thread of the list view, `lv`, paints icons
(`FindNode`) and places them (`MoveTo`): it looks without the lock and only then
tries it (`LvTries`), because the other thread, `worker`, asks the list view under
the lock and waits for the answer. A look of the worker is enabled when `lv` is idle
(`ListView`). The worker handles the queues of icons to add and nodes to delete
(`AddNode` to `AddStore`, `DeleteNode`), renames and updates (`UpdateNode` finds its
node with the lock and works on it without), and runs `refreshAllNode`, one look
after the other (`RefreshCheck` to `RefreshLeave`); between any two of them Explorer
may change its list, and the shell its files (`Explorer`). A call that cannot take
the lock returns -1 and its key stays queued.

Assumptions: looks (name, type, size, date) tell icons apart; one look at one icon
is one step; a file that `RenameNode` is called for does not have its old name any
more; `lv` uses no operation that waits for the lock; one worker, which alone
deletes nodes; a node deleted under the look without lock counts as not found, which
is the lucky outcome of the exception handler around it. `freeNone` queues its keys
in one step, in the order in which its walk over the map puts them there
(`Descending`). Left out: saving and restoring positions, hidden and cut icons, sizes
of nodes, groups.

### EchoService, HeartbeatServer

`EchoService` is the promise: each connection is dealt with for itself. It is accepted in
its turn, if there is room; what its client sends is taken only to be answered; and only
when it has been reset is it given up. Which of the open connections is next is open.
`HeartbeatServer` is the code, `serviceHeartBeat` with its loop of `Select`, `Accept`
and `Serve`, and clients that connect, send, and go. Clients run `threadHeartBeat`, which never reads. The sockets
are non-blocking, so `recv` on one that has nothing to read is an error, and an error
ends the connection (`Drop`) and the walk through the others. `m_lstSocket` has the
connections accepted, newest first; an `FD_SET` takes the listening socket and the
`FD_SETSIZE - 1` newest connections, and drops the others silently (`Watched`). `Serve`
goes through the list from its front on: it is the turn of the first connection that
is still in `fdread` (`Turn`), which is answered (`Answer`) or dropped (`Drop`). The
echo and daytime servers, which serve one connection at a time, are left out.

### Eeprom

All of EEPROM.c. A byte is the set of its bits that are 1: erasing sets all,
programming clears some of those it should, or none. The registers are as in the chip:
`ISP_ADDRH` and `ISP_ADDRL` are two (`addrh`, `addrl`; `addr` is what they make
together), and `ISP_DATA` is a third. The calls for a single byte or a sector leave EA
as it is while they fill them, and each store is a step (`FillLow`, `FillHigh`,
`FillData`), as are the command, which has EA cleared, and the look at the result. Between
any two of them an interrupt routine may run and read bytes of its own with `ISP_Read`,
which leaves its address and its data in the registers: after both stores the command
goes to the routine's address, and between them to a third one, with the high byte of
the call and the low byte of the routine. Runs of bytes have EA cleared, and take one
step for each byte. The chip may ignore a command to read, which then looks like a
zero. The power may fail anywhere, also within a command (`Torn`): a byte is then partly
programmed, and of a sector that was being erased each cell has some more of its bits
set. `before` and `call` keep what a call began with. Left out: the check for a NULL
buffer and the time the chip takes.

### RtuMaster

The functions that send a request for registers, work out how long the answer will
be, confirm an answer and say how many registers are copied. They keep nothing
between calls, so there is no state and no run; widths (`BYTE`, signed `char`) are
as in the code. What they compute for every request and answer is proved in
McuProofs. Left out: checksums, the port's settings, waiting for bytes.

## 4. The runs

All passing runs are exhaustive. "Violation" runs check one statement of a comment
that the code does not keep; section 5 says what they show.

| run | instance | distinct states | checks |
|---|---|---|---|
| swmrg | 4 threads | 747 | TypeOK, Exclusion, CountsAgree, NoLostWakeup, ReadersServed, ImplementsRWLock |
| optex | 3 threads, SpinCount 1, depth 2 | 17,204 | TypeOK, OneClaimant, FieldsAreExact, HandOff, ImplementsMutex, EnterReturns |
| sockclient | 6 setups, 1 retry: 2 startups around 2 commands, or 2 responses; a network that fails around 2 responses, or 1 command; 2 startups, 1 command and threads that cannot be created; 1 startup with 1 of each | 5,536,577 | TypeOK, InOrder, DealtWithOnce, OrderlyClose, DownMeansDown |
| sockclient_live | 1 command, 1 startup, with and without heartbeat | 175,424 | ShutdownEnds, HeartbeatsHelp |
| sockclient_givesup | the same, one setup | | GivingUpEnds (violated) |
| recvframing | 3 responses of 4 kinds, buffer of 4 | 99,110 | TypeOK, StuckTakenApart, WholeKept |
| controllife | 3 controls, one of them hidden, handlers 3 deep, 2 posted messages | 1,169,425 | TypeOK, OnePlace, UsedAreAlive |
| delayedfree | 3 controls | 107,851 | TypeOK, FreedOnce, NoLostWakeup |
| delayedfree_self | the same | | SelfRemovalSafe (violated) |
| desknodes | 3 icons, 1 change of files or order | 158,585 | TypeOK, QuietRefresh, LvReturns, Settles |
| heartbeat | 4 clients, FD_SETSIZE 3 | 353,009 | TypeOK, ImplementsEcho, Answered, GoneAreFreed |
| eeprom | 2 sectors of 2 bytes of 2 bits, an interrupt routine that reads the last byte | 1,886,732 | TypeOK, OkMeansStored, OnlyTarget, ReadsBack |

What the less obvious ones say:

* *CountsAgree*: `m_nActive` is exact, at most one `done` has still to release, and
  only as many as wait, and nobody waits at a lock that is idle.
* *FieldsAreExact*: the owner is recorded, the lock count is right, owners do not
  wait.
* *DownMeansDown*: after an orderly `shutdown` there is no open socket and no
  thread, and there are never two threads in one role.
* *ShutdownEnds*: `shutdown` returns and the threads it told to stop end.
* *InOrder*: what was dealt with, is in hand and is queued is, in this order, what was
  pushed, for the commands and for the responses.
* *UsedAreAlive*: a control that a message under way or one of the five pointers refers
  to has not been deleted.
* *OnePlace*: a control is in a tree, once in `m_vecDelayedCleanup`, or deleted once;
  in that vector it has a WM_APP+1 on its way unless it is there with its whole tree;
  and nothing is left when the window is gone.
* *FreedOnce*: as long as no `push_back` overlapped with the walk of the thread, a
  control that is handed over is freed once or waits once to be, wherever both threads
  are, and one that is not handed over is neither.
* *DelayedFree!NoLostWakeup*: the thread does not wait for an event that is not set
  while there is something in its vector, unless the window's thread is about to set
  it, nor while WM_CLOSE or the destructor waits for the thread. It has no condition about
  the vector; but a thread that is astray waits no more, so that it says nothing of one.
* *QuietRefresh*: a `refreshAllNode` during which nothing changes sorts out every
  icon and every node.
* *Settles*: whatever went wrong in between, once the desktop stops changing the map
  becomes the list view and nothing that waits in the queues or is under way can
  disturb it any more (`Calm`).
* *LvReturns*: painting never waits for the worker.
* *ImplementsEcho*: whatever the server does is a step of EchoService: only connections
  that are gone are dropped, also while they wait to be accepted, and no data is taken
  that is not answered. KeepsTheLiving is the part of it about open connections.
* *Answered* and *GoneAreFreed*: everyone is served, unless the table is full or
  clients are dropped again and again.
* *OkMeansStored*: after MCU_OK every byte but zeros is in its cell.
* *OnlyTarget*: no other cell has changed, also if the power failed; for calls on
  single bytes and sectors, made with interrupts enabled, "other" leaves out the addresses
  of the interrupt routine, and those that have its low byte under the call's high
  byte. Of a run, no byte behind the one that failed.
* *ReadsBack*: a read that says MCU_OK gives what is stored, or zero where the chip
  did nothing.

Why the bounds are enough. *swmrg*: two readers and two writers are the least with
which a `done` has both kinds to choose from while another is still between its
critical section and its release. The invariants of every passing run are proved as
well, for all values of the constants (section 6; one of them under a premise that the
run meets), so that the bounds matter only for what a run checks besides: liveness,
deadlock, and that every action happens. *optex*: an owner, a waiter and a thread that
spins past; depth 2 is a nested call. *sockclient*: two startups are a restart over
leftovers; a retry count of 1 has one retry and one giving up. Two commands, and
in another setup two responses, are in the queue together, or one in hand and one in the
queue, while the client is started again, and two responses while the connection is lost;
heartbeats do not count, as InOrder leaves them out. The commands are alike (symmetry).
*recvframing*:
three responses are one split over the boundary between two others. *controllife*: a
handler inside a handler inside a handler, and a second WM_APP+1, which finds nothing
left; deeper stacks repeat the same frames. *delayedfree*: one control that the
thread is freeing, one that `removeAll` hands over and one that it has yet to hand
over. *desknodes*: three icons are
one that moves with one before and one behind it; one change of files or order is
followed by any number of changes that make the list view agree, and each of them can
hit between two steps of the worker; two changes are out of reach for the liveness
check. *heartbeat*: a table of three has two connections watched, one that is not, and
a client that finds it full. *eeprom*: runs go from one byte to one more than a sector
and so end inside, at the end of and beyond it; two bits tell a byte that is stored
from one that is partly stored; with two values of `ISP_ADDRL` the routine's low byte
under the call's high byte is an address that is neither's.

Deadlock. Swmrg, Optex, DeskNodes, Eeprom and the live run of the client check it.
It is switched off in `SockClient.cfg` and `SockClientGivesUp.cfg`, where the client
may really stop: a waitfor thread that gave up waits for itself, and a sender whose
recver could not be created is never resumed; in the RecvFraming runs, where the
number of responses is bounded; in the ControlLife and DelayedFree runs, where a destroyed
window is the end and a thread that is astray never ends; in the HeartbeatServer runs,
where clients need not do anything and the server then waits in `select`.

Fairness. `Swmrg!Fairness`: a thread that has the lock calls `done`, one that owes a
release makes it, and the kernel does not pass over a waiter of a semaphore for ever
(strong fairness: Windows queues waiters, and a count that is there is taken by
somebody). `Optex!Fairness`: the same for the event; owners end their outermost
critical section; a spinning thread runs on. `SockClient!Fairness`: weak fairness of
each thread, of a caller inside `startup` or `shutdown`, and of a pusher between
queueing and `SetEvent`; sleeps and `select` end. No fairness makes anybody call
anything or the network deliver. Without `sockclient_live`'s heartbeat no fairness
would make commands go out (CommandsGoOut, section 5). `DeskNodes!Fairness`: `lv`
runs on (weak: it waits for nobody) and answers the worker between its own calls
(strong: it paints in between); messages are handled and `refreshAllNode` is called
again and again, and not always just while the lock is taken (strong: a call that
finds it taken gives up, and the timer or the message comes again); Explorer removes
icons whose files are gone. `HeartbeatServer`: the server's thread runs on; no
client has to do anything. RecvFraming, ControlLife, DelayedFree and Eeprom have no
fairness: their properties are invariants.

## 5. Where the code and its comments disagree

GivingUpEnds and SelfRemovalSafe are the violation runs. The others are stated in
their modules, and refuted under configurations that are kept for whoever wants to see
the traces: `MCSwmrgRefused.cfg`, `SockClientCloses.cfg`, `SockClientSleeps.cfg` (with
MCSockClient), `RecvFramingSplit.cfg` (with MCRecvFraming), `ControlLifeHasty.cfg`,
`DelayedFreeTwice.cfg`, `DelayedFreeHeld.cfg` and `HeartbeatServerFull.cfg`.

* **NewReadersRefused** (`AC/SyncObject.h:122`: new readers are refused while a
  writer waits). A reader that arrives late can take the semaphore count released
  for one that has not reached `WaitForSingleObject`. The number of readers is
  right, only who they are is not; Exclusion holds.
* **CloseAfterThreads** (`socket/socketclient.cpp:105`). Without a heartbeat one of
  the four handles is NULL, the wait fails at once, and the socket is closed under
  running threads.
* **CommandsGoOut** (`socket/socketclient.h:156`, `socketclient.cpp:222`). A command
  queued between `isEmptySender` and `ResetEvent` waits until something else is
  queued. With a heartbeat that is three seconds: HeartbeatsHelp passes.
* **GivingUpEnds** (`socket/socketclient.h:68`). The waitfor thread calls `shutdown`,
  which waits for the waitfor thread.
* **NothingInvented** (`socket/sockcache.h:31`). `popRecvData` overwrites the first
  part of a split response with the second and then appends the second again.
* **UsedAreAlive**, when handlers call `remove` (`UC/drawManager.h:428`: controls are
  deleted later because one may be captured by a mouse message). `remove` runs
  WM_APP+1 before it returns (`UC/wucContainer.cpp:575`), so the control is deleted under
  its handler, and WM_MOUSEMOVE goes on to use it. With `removeAll`, which posts the
  message, it holds.
* **SelfRemovalSafe** (`UC/drawManager.h:422`). The thread that frees sleeps a second
  after it was *woken*, not after each control; a control handed over while it
  sleeps is deleted less than a second later, possibly under its own handler. Since
  `emptyDelayedFree` answers the opposite of its name, the thread wakes itself again
  whenever there is nothing to do, so it sleeps most of the time.
* **DeletedOnce** (`UC/drawManager.h:345`: `m_vecDelayedFree` has a lock). It has none in
  any build. If `clear()` comes while `push_back` has read the old end, the entries
  just freed are back and are deleted again.
* **FreedAfterErased** (`UC/wucContainer.cpp:575-577`: a control that is deleted while
  `m_items` has it crashes whoever looks there). `remove` hands the control to the other
  thread (line 560) before it erases it (line 572), and `removeAll` does the same with all
  of them; the thread may be at the end of its second over an earlier one.
* **ClosedAreReleased** (`socket/sockme.cpp:432`). With a full table the server neither
  takes the connection that waits nor looks at those that are readable, so that
  connections whose clients are gone keep it full, for ever. Below that
  (`GoneAreFreed`) they are released.
* **The Modbus master** (`MCU/COMM/serialport.h:75`: up to 125 registers). The expected
  length is kept in a signed `char`: the right answer with 62 to 124 registers is
  refused, and with 125 an answer of any length is accepted, since 255 is then -1, "length
  not known" (FullAnswersTaken, CopiedWereAnswered). A refusal is 255, and the caller
  copies 255 registers (`serialport.c:485`, RefusedAreCopied). `RTU_BuildRequestByReadRegisters` refuses
  buffers *longer* than 12 bytes, and `RTU_BuildRequestByInputRegisters` sends no
  checksum. No run can show this, for there is no behaviour.
* **Single bytes of the EEPROM.** `ISP_Erase`, `ISP_Read` and `ISP_Write` fill the
  registers before they disable interrupts. An interrupt routine that uses the EEPROM
  in between makes them hit its address, or, between the stores of the two address bytes
  (`EEPROM.c:87-88`, `109-110`, `130-131`), one that is nobody's. `OnlyTarget` holds with that exception only
  (`MayChange`); `ISP_Writes` and `ISP_Reads` need none.

## 6. The proofs

`SwmrgProofs`, from `ThreadsFinite` alone. *Exclusion* is not inductive: `done`
decides on counters, so one has to know that they agree with where the threads are.
The inductive invariant `IInv` is TypeOK, ActiveIsExact (m_nActive counts the
readers that have the lock *and* those it was handed to that have not woken),
NoLostWakeup, OneRelease and NeverIdleWithWaiters. TypeCorrect comes first, then a
lemma per action (`WaitToReadInv` ... `ReleaseInv`; the three ways `done` goes have
one each, behind `LastOut`, which says who is left), then `Counting`. From it follow
`WritersExclude`, `WakeupsKept`, `CountsStayExact` (the run's CountsAgree) and
`ImplementsSafely`: seen through `rwLock`, every
step of swmrg is a step of RWLock or none.

`OptexProofs`, from `ThreadsFinite` and `BoundsType`. Here all invariants are one:
a thread takes the optex because `lLockCount` was 0 or because the event was set,
and neither says anything about owners unless the counts are exact and the event is
set only for a free optex with a queue. `IInv` is the conjunction of the six
invariants; `TypeStep` and a lemma per action give `FieldsMeanWhatTheySay`; from it
follow `TypeCorrect`, `OneOwner`, `FieldsExact` (the run's FieldsAreExact),
`SignalledWhenFree` and `Implements`. Where an
action changes the queue of waiters, the cardinalities come from `QueueMoves`.

`McuProofs`, for Eeprom from `EepromAssumption`: sectors have at least one byte, there is at
least one, they begin where the low byte of the address is 0, and the interrupt routine
reads addresses of the chip. `TypeInv` adds to
the types where a call can be (`Phases`: a run of bytes is worked on with EA cleared,
and stays in its sector); TypeCorrect, and with it that EA is restored, follows from it
alone. That two bytes from different addresses still make an address of the chip,
in the sector that the high byte says, is `JoinedAddress`. `IInv` adds what a call under way has done. `Aimed`: which bytes can be
in the registers where the call is. `Written` and `WasRead`: what of a run has been
dealt with is as it should be, and the rest as it was before. From it follow
OkIsStored, OnlyTheTarget and ReadsAreStored. `Hits` is the step from registers to cells: after
the stores the command goes to the call's address or, if EA was set, to one of those
in `Hit`. That the addresses of a run that passes the test of `InSector` never wrap is
the lemma `WithinSector`.

`McuProofs` goes on with RtuMaster, from nothing. `Lengths` says what becomes of the
length of an answer in a `char`, `Numbers` that the counts survive it. From them
`FullAnswersTaken`: the right answer to a request for n registers is taken exactly if n
is at most 61 or is 125; `CopiedWereAnswered`: what is confirmed has as many registers
as were asked for, and is long enough to hold them unless 125 were asked for; and
`RefusedAreCopied`: a refusal can be told from a confirmation, but is used as a count
that exceeds every request and every answer.

`HeartbeatProofs`, from `SetSizeType`. KeepsTheLiving and ImplementsEcho speak of steps,
and need what is true before one: `IInv` says that what `select` found readable stays
so until it is served (`Served`: nobody but the server reads, and a client that is
gone does not come back), and that the two lists have each connection once
(`Lists`), so that dropping one takes no other with it. It gives TypeCorrect,
LivingAreKept and `Implements`: with the list as a set, each step is one of EchoService
or none. `Drop` is a `Release` because of `Served`; `Accept` is one because a list
without repetition has no more members than its length (`ListAsSet`, `ConsAsSet`), and
`Answer` is an `Echo`.

`SockClientProofs`, from `SetupsType` and `CommandsType`, has two invariants above
`TypeInv`.

* `ControlInv`, for orderly clients: only the threads of the last startup are alive
  and they are where `startup` and `shutdown` brought them (`ThreadsInv`); who is in
  `shutdown` is the user, or a waitfor thread that gave up and comes no further than
  to wait for itself (`CallersInv`); the socket (`SocketInv`). Its heart is that the
  handles that `shutdown` waits for are all valid or the threads are all dead, so that
  the wait does not fail. From it follow ClosesAfterThreads and ShutMeansDown.
* `OnceInv`, for every client: threads hold things only where they deal with them, the
  sender one at a time (`HandsInv`), nothing is pushed twice (`PushedInv`), and what is
  not pushed yet is nowhere (`PlacesInv`). It holds whatever the threads of former
  startups still do, so long as a startup has no cache threads before it made them
  (`FreshInv`). From it follows EverythingOnce.

KeepsTheOrder takes InOrder itself as the invariant, next to both: that there is one
thread to hold things comes from ControlInv. Leaving out heartbeats is a recursive
function; that it commutes with concatenation (`NoBeatsConcat`) and is a sequence at
all takes an induction, which `SetInduction` provides. It is the principle for a *set*
of numbers, which is first order: it is proved from the theorem that a finite set has
no injection into a smaller one.

`ControlLifeProofs`, for ControlLife from `ControlsDistinct` and `BoundsPositive`.

* `PlaceInv`: each control is in a tree, in `m_vecDelayedCleanup` once, or deleted once.
* `StackInv(C)`: messages under way and the five pointers refer to members of C. With
  `Live` for C it says that they refer to nothing deleted, and each way to delete has
  to show that it took the control out of the pointers first and that no message can
  still have it. That is NothingDeletedIsUsed, which has the premise `Hasty = {}`:
  handlers do not call `remove`, which deletes the control at once, under its handler.
* `WindowInv`: a control in `m_vecDelayedCleanup` has its message on the way, and a
  window that dies has nothing left. OneOwner, all of OnePlace, follows from it and
  PlaceInv without that premise, and TypeCorrect with StackInv.

The same module has the proofs for DelayedFree (`DF`), from `ControlsType`, each access of
the two threads being a step of its own.

* `CallInv`: what was handed over and what is still to be are in `m_items` until `Erase`.
* `StoreInv`: a `push_back` that finds the vector changed finds it empty, and the thread
  away from it until the message is over. With it `Stored` keeps the iterator within
  the vector: IteratorWithin.
* `WaitInv`: the event is set whenever the thread is on its way to wait for it and there
  is something to do. TheThreadIsWoken follows, with or without a meeting in the vector.
* `MeetInv`: as long as the two have not met in the vector, what the thread has passed is
  deleted and `clear()` removes exactly that. HandedOverFreedOnce follows: it is
  FreedOnce, with its condition that they have not met. Without the condition the
  statement is false, as DeletedOnce is (section 5).

`DeskNodesProofs`, from `BoundsType` and `NoneDistinct`. `CallInv`: each queue and the
list view have a key once; the icon `lv` looks at and the key the worker works for stay
where they are as long as they are needed; the lock's owner is the call under
way with it. TypeCorrect follows. `RefreshInv`: as long as nothing has changed since
`refreshAllNode` began, the nodes it kept are where the list view has them, the
indexes it found right are those of such nodes, and the icons it has gone through
are taken care of. RefreshIsExact follows: the count of the icons is the length of the
list, and the icons that the walk passes over are those with a node that was kept.

StaysSettled is half of Settles: for as long as the desktop does not change, a map that
is `Calm` stays so. `Exact` alone, that the map is the list view, would not do: a call may
be on its way to store an old index, a queue may hold a node that is alive, and a refresh
may not have kept every node yet, so `Calm` has a part for each of these. From Calm each
step finds nothing to do: there is no misplaced node for `existsNode`, what is announced
is known or gone, what is to be deleted has no node, `updateNode` stores the index that
is there, and a refresh keeps every node. That Calm is reached is liveness, and stays
with TLC.

`RecvFramingProofs`, from `ResponsesShape` and `BoundsPositive`. What the code computes
here is recursive all through: a fold over the pieces of one piece of data, inside a
fold over the queue, with cuts counted by cardinalities. `SetInduction` (as in
`SockClientProofs`) and `Recursion`, which says that a function defined as the model
defines its folds satisfies its equations, replace the induction over data that the
provers lack. On them stand three groups of lemmas.

* The stream: `OffsetUnfold`, `OffsetGrows`, `OffsetAppend`, and `BegunIs`, `EndedIs`:
  the counts of responses that begin and end before a byte are where they should be.
* The cuts: `CutIs` (the k-th cut is the k-th end byte), `CutsAt` (in a stretch of the
  stream the cuts are the ends of responses, in order) and `WholePieces` (so the pieces
  are the responses that lie in it, with the rests of one before and one behind).
* The scan: `ScanResponse` and `ScanKeeps`: whatever is left of a response before, a
  piece that is a response is found; `ScannedAppend` and `ScannedEmpty` say the same
  of the queue.

The inductive invariant `FrameInv` has two parts besides the types. `StreamInv`: `data`
and `wire` are the bytes of the stream from `arrived - Len(data)` on, and nothing else.
`HandedInv`: what was handed over contains `whole` as a subsequence; and while no
response is split, what receive has returned ends where a response ends, and Handed is
exactly the responses up to there. `RespondStep`, `ReceiveFullStep`, `ReceiveQueueStep`,
`PopStep` and `DispatchStep` are its steps; all the work is in `ReceiveQueueStep`, as
`PopStep` and `DispatchStep` only move responses within Handed. From it follow
TypeCorrect, PacketsTakenApart and WholeAreKept, and `AllShown`: while no response is
split, once nothing is on the way the window and the events have got exactly what was
sent.

Each of these invariants was checked by TLC on the instance of the run before it was
proved, and the proofs changed the models in a few places, with no change of
behaviour: `fdread` of HeartbeatServer is a set, `Descending`, `RealUpTo` and `Offset`
replace operators of the library that are recursive or sums, `Scanned` and `WholeIn` are
names for what `Found` and `Receive` had in them, and constants have the assumptions
named above.

Only model-checked is all liveness (ReadersServed, EnterReturns, ShutdownEnds,
HeartbeatsHelp, LvReturns, Answered, GoneAreFreed, of Settles that Calm is reached, and
the liveness half of RWLock), which the proof system does not reach.

## 7. What is not modelled, and why

* Painting, layout, input coordinates, timers other than their end in
  `reapObject`, drag and drop, names and option groups of controls: values that no
  property here tells apart, or control flow that shares no state with lifetimes.
* Texts: commands and responses are values; only the bytes that framing looks at
  exist.
* `readLock` and `writeLock` of AC/SyncObject.h: they wrap a boost mutex under
  `GTC_BOOST_THREAD`, which no build defines.
* `InterlockedExchangePointer` on x64 and other matters of widths and alignment.
* Startup's use of Winsock, `select` and `connect`: their results are choices.
* Delegates and event sources (AC/delegateBase): one thread and one vector. All is well
  unless a handler changes the vector it is called from; then the library's behaviour
  is undefined, and which handlers do so is up to programs outside the repository.
* Serial port and Modbus devices (AC/Device): one thread. The count of users goes
  wrong when a port is closed and then destroyed (`AC/Device/port.cpp:129`), a
  sequence of three calls; what libmodbus does then is not in this repository.
* The unique queue cache (AC/cache.h): each operation is one critical section on one
  queue.
* SQLite wrapper, hook DLL, memory pool wrapper, displays, general helpers, drivers
  and samples: one thread calling an API, with no state that outlives a call but
  handles. What can go wrong in them is listed under the hazards where it is real.
* Vendored and generated code (boost, curl, libmodbus, nedmalloc, sqlite, thunder):
  not this program's.

Two things are stated and not checked: `SockClient!HeartbeatExists` (the sender may
hold the heartbeat object while its thread deletes it; hazard
`socket/socketclient.cpp:216`), and the assumption of handlers above.

## 8. The plan

The modules planned at first are written, but for event sources and the serial port's
channel, which section 7 explains, and every invariant that a run checks is proved. What
is left is to state a promise for DeskNodes as `RWLock`, `RecursiveMutex` and
`EchoService` are for other modules (a map that follows a list: it may be wrong for a
while, so that the promise is about what happens after the last change), and to show
that the detailed module implements it.
