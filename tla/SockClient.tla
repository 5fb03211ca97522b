----------------------------- MODULE SockClient -----------------------------
(***************************************************************************)
(* gtc::sockclient (socket/socketclient.h, socket/socketclient.cpp) and    *)
(* the two queues of its gtc::sockcache (socket/sockcache.h): a connection *)
(* served by four threads that startup creates and shutdown stops.         *)
(*                                                                         *)
(*   waitfor    waits for data, queues it, reconnects after errors and     *)
(*              calls shutdown itself when reconnecting does not help      *)
(*   heartbeat  queues its one gtcmdH object again every three seconds     *)
(*   sender     takes queued commands one at a time and sends them         *)
(*   recver     takes all queued data and hands it to the window           *)
(*                                                                         *)
(* sender and recver run the same loop over a locked queue and a           *)
(* manual-reset event; the threads are told to stop by three switches.     *)
(* A thread belongs to the startup, numbered in Gens, that created it; the *)
(* client only keeps the handles of the last startup.                      *)
(*                                                                         *)
(* Every access to a switch, an event, a queue (under its lock) or a       *)
(* handle is a step of its own, except that a switch and a queue read one  *)
(* after the other are read together: nobody acts between the two reads on *)
(* what they returned.  What is in the data is RecvFraming's business.     *)
(* The window is served by a thread that does not call shutdown.           *)
(***************************************************************************)
EXTENDS Integers, Sequences, SequencesExt

CONSTANTS
  Commands,      \* the commands that application threads push, once each
  MaxRetries,    \* SOCKET_CONNECTION_RETRYS, 10 in the code
  Setups,        \* the clients and surroundings to look at, see SetupsType
  MaxStarts      \* bound on the calls of startup that connect, for all setups

\* heartbeat is m_bHeartbeat; linkFails tells whether the network refuses and
\* loses connections, threadsFail whether _beginthreadex may fail; starts, commands
\* and responses bound the calls of startup that connect, the commands that are
\* pushed and the data that arrives.
ASSUME SetupsType ==
  /\ MaxStarts \in Nat \ {0} /\ MaxRetries \in Nat
  /\ Setups \subseteq [heartbeat : BOOLEAN, linkFails : BOOLEAN, threadsFail : BOOLEAN,
                       starts : 0..MaxStarts, commands : Nat, responses : Nat]

\* The heartbeat objects and the data are numbers in the queues; commands are not.
ASSUME CommandsType == Commands \cap Nat = {}

VARIABLES
  setup,     \* which of Setups this is
  pc,        \* pc[r][g]: where thread r of startup g is
  held,      \* held[c][g]: what the cache thread took from its queue
  retrys,    \* waitfor's count of failed reconnections
  beat,      \* beat[g]: whether the heartbeat object of startup g exists
  queue,     \* m_queSender, m_queRecver
  event,     \* m_heventWaitforSender, m_heventWaitforRecver: signalled
  on,        \* the three thread switches
  handle,    \* the four thread handles
  scMain,    \* m_scMain: invalid, open, or closed and not forgotten
  starts,    \* calls of startup that connected
  user,      \* where the user's thread is in startup or shutdown
  down,      \* down[x]: where caller x is in shutdown
  pushing,   \* pushing[c]: where the pusher of command c is in pushGTCmd
  pushed,    \* everything put into the queues, in order, without heartbeats
  handled    \* everything taken out and dealt with, in order

cache == <<queue, event, held, pushed, handled>>
threads == <<pc, retrys, beat>>
control == <<setup, on, handle, scMain, starts, user, down>>
vars == <<threads, cache, control, pushing>>

Roles == {"waitfor", "heartbeat", "sender", "recver"}
Caches == {"sender", "recver"}
Gens == 1..MaxStarts
Callers == {0} \cup Gens    \* of shutdown: the user, or waitfor of a startup
User == 0

Init ==
  /\ setup \in Setups
  /\ pc = [r \in Roles |-> [g \in Gens |-> "none"]]
  /\ held = [c \in Caches |-> [g \in Gens |-> <<>>]]
  /\ retrys = [g \in Gens |-> 0]
  /\ beat = [g \in Gens |-> "none"]
  /\ queue = [c \in Caches |-> <<>>]
  /\ event = [c \in Caches |-> FALSE]
  /\ on = [s \in {"heartbeat", "cache", "waitfor"} |-> FALSE]
  /\ handle = [r \in Roles |-> "null"]
  /\ scMain = "invalid" /\ starts = 0 /\ user = "idle"
  /\ down = [x \in Callers |-> "no"]
  /\ pushing = [c \in Commands |-> "new"]
  /\ pushed = [c \in Caches |-> <<>>]
  /\ handled = [c \in Caches |-> <<>>]
-----------------------------------------------------------------------------
Goto(r, g, p) == pc' = [pc EXCEPT ![r][g] = p]
IsBeat(x) == x \in Gens

Mut_Push_InFront(c, x) ==
  /\ queue' = [queue EXCEPT ![c] =
                 IF c = "sender" /\ IsBeat(x) /\ @ # <<>> /\ Last(@) = x
                 THEN @ ELSE <<x>> \o @]
  /\ pushed' = [pushed EXCEPT ![c] =
                  IF c = "sender" /\ IsBeat(x) THEN @ ELSE Append(@, x)]

\* The heartbeat object of startup g is queued as g.  A run of heartbeats at
\* the end of the queue, which has no bound in the code, is kept as one.
Push(c, x) ==
  /\ queue' = [queue EXCEPT ![c] =
                 IF c = "sender" /\ IsBeat(x) /\ @ # <<>> /\ Last(@) = x
                 THEN @ ELSE Append(@, x)]
  /\ pushed' = [pushed EXCEPT ![c] =
                  IF c = "sender" /\ IsBeat(x) THEN @ ELSE Append(@, x)]

\* pushGTCmd by an application thread: queue the command, then set the event.
PushGTCmd(x) ==
  /\ pushing[x] = "new" /\ Len(pushed["sender"]) < setup.commands
  /\ Push("sender", x)
  /\ pushing' = [pushing EXCEPT ![x] = "queued"]
  /\ UNCHANGED <<threads, control, event, held, handled>>

Announce(x) ==
  /\ pushing[x] = "queued"
  /\ event' = [event EXCEPT !["sender"] = TRUE]
  /\ pushing' = [pushing EXCEPT ![x] = "done"]
  /\ UNCHANGED <<threads, control, queue, held, pushed, handled>>
-----------------------------------------------------------------------------
\* The loop of doThreadSendGTCmd and doThreadAnalysisRecvData.

While(c, g) ==
  /\ pc[c][g] = "while"
  /\ Goto(c, g, IF on["cache"] THEN "wait" ELSE "ended")
  /\ UNCHANGED <<retrys, beat, cache, control, pushing>>

Wait(c, g) ==
  /\ pc[c][g] = "wait" /\ event[c]
  /\ Goto(c, g, "take")
  /\ UNCHANGED <<retrys, beat, cache, control, pushing>>

\* popGTCmd takes one command, popRecvData everything there is.
Mut_Batch_Last(c) == LET q == queue[c] IN IF q = <<>> THEN q ELSE <<Last(q)>>
Batch(c) ==
  LET q == queue[c] IN IF c = "recver" \/ q = <<>> THEN q ELSE <<Head(q)>>

Mut_Rest_Keeps(c) == queue[c]
Rest(c) == IF c = "recver" \/ queue[c] = <<>> THEN <<>> ELSE Tail(queue[c])

Take(c, g) ==
  /\ pc[c][g] = "take"
  /\ \/ ~on["cache"] /\ Goto(c, g, "ended") /\ UNCHANGED <<held, queue>>
     \/ /\ on["cache"]
        /\ held' = [held EXCEPT ![c][g] = Batch(c)]
        /\ queue' = [queue EXCEPT ![c] = Rest(c)]
        /\ Goto(c, g, "handle")
  /\ UNCHANGED <<retrys, beat, event, pushed, handled, control, pushing>>

\* Sent or not, a command is deleted, unless it is a heartbeat; every piece of
\* data goes to the window.
Handle(c, g) ==
  /\ pc[c][g] = "handle"
  /\ handled' = [handled EXCEPT ![c] =
       IF c = "sender" /\ held[c][g] # <<>> /\ IsBeat(Head(held[c][g]))
       THEN @ ELSE @ \o held[c][g]]
  /\ held' = [held EXCEPT ![c][g] = <<>>]
  /\ Goto(c, g, "tidy")
  /\ UNCHANGED <<retrys, beat, queue, event, pushed, control, pushing>>

Drained(c) == queue[c] = <<>> /\ on["cache"]

Tidy(c, g) ==
  /\ pc[c][g] = "tidy"
  /\ Goto(c, g, IF Drained(c) THEN "reset" ELSE "while")
  /\ UNCHANGED <<retrys, beat, cache, control, pushing>>

Reset(c, g) ==
  /\ pc[c][g] = "reset"
  /\ event' = [event EXCEPT ![c] = FALSE]
  /\ Goto(c, g, "while")
  /\ UNCHANGED <<retrys, beat, queue, held, pushed, handled, control, pushing>>

CacheThread(c, g) == \/ While(c, g) \/ Wait(c, g) \/ Take(c, g)
                     \/ Handle(c, g) \/ Tidy(c, g) \/ Reset(c, g)
-----------------------------------------------------------------------------
\* doThreadHeartbeat: queue the object, set the sender's event, sleep; delete
\* the object when the switch is off.
Beat(g) ==
  /\ pc["heartbeat"][g] = "while"
  /\ \/ /\ on["heartbeat"]
        /\ Push("sender", g)
        /\ Goto("heartbeat", g, "announce")
        /\ UNCHANGED beat
     \/ /\ ~on["heartbeat"]
        /\ beat' = [beat EXCEPT ![g] = "deleted"]
        /\ Goto("heartbeat", g, "ended")
        /\ UNCHANGED <<queue, pushed>>
  /\ UNCHANGED <<retrys, event, held, handled, control, pushing>>

AnnounceBeat(g) ==
  /\ pc["heartbeat"][g] = "announce"
  /\ event' = [event EXCEPT !["sender"] = TRUE]
  /\ Goto("heartbeat", g, "while")
  /\ UNCHANGED <<retrys, beat, queue, held, pushed, handled, control, pushing>>
-----------------------------------------------------------------------------
\* doThreadWaitforData.
WaitforData(g) ==
  /\ pc["waitfor"][g] = "while"
  /\ Goto("waitfor", g, IF on["waitfor"] THEN "select" ELSE "ended")
  /\ UNCHANGED <<retrys, beat, cache, control, pushing>>

\* select and receive: nothing in two seconds, some data, the empty result of
\* a connection that the peer closed, or an error; anything but an open socket
\* is an error.
Select(g) ==
  /\ pc["waitfor"][g] = "select"
  /\ \/ scMain = "open" /\ Goto("waitfor", g, "while") /\ UNCHANGED <<queue, pushed>>
     \/ /\ scMain = "open" /\ Len(pushed["recver"]) < setup.responses
        /\ Push("recver", Len(pushed["recver"]) + 1)
        /\ Goto("waitfor", g, "announce")
     \/ /\ scMain = "open" /\ setup.linkFails
        /\ Goto("waitfor", g, "announce") /\ UNCHANGED <<queue, pushed>>
     \/ /\ scMain # "open" \/ setup.linkFails
        /\ Goto("waitfor", g, "reconnect") /\ UNCHANGED <<queue, pushed>>
  /\ UNCHANGED <<retrys, beat, event, held, handled, control, pushing>>

AnnounceData(g) ==
  /\ pc["waitfor"][g] = "announce"
  /\ event' = [event EXCEPT !["recver"] = TRUE]
  /\ Goto("waitfor", g, "while")
  /\ UNCHANGED <<retrys, beat, queue, held, pushed, handled, control, pushing>>

Mut_MayRetry_OnceMore(g) == retrys[g] <= MaxRetries
MayRetry(g) == retrys[g] < MaxRetries

Reconnect(g) ==
  /\ pc["waitfor"][g] = "reconnect"
  /\ \/ /\ scMain' = "open"
        /\ retrys' = [retrys EXCEPT ![g] = 0]
        /\ Goto("waitfor", g, "while") /\ UNCHANGED down
     \/ /\ setup.linkFails /\ MayRetry(g)
        /\ scMain' = "invalid"
        /\ retrys' = [retrys EXCEPT ![g] = @ + 1]
        /\ Goto("waitfor", g, "while") /\ UNCHANGED down
     \/ /\ setup.linkFails /\ ~MayRetry(g)
        /\ scMain' = "invalid"
        /\ down' = [down EXCEPT ![g] = "heartbeat"]
        /\ Goto("waitfor", g, "shutdown") /\ UNCHANGED retrys
  /\ UNCHANGED <<setup, beat, cache, on, handle, starts, user, pushing>>
-----------------------------------------------------------------------------
\* shutdown, called by x.
Step(x, from, to) == down[x] = from /\ down' = [down EXCEPT ![x] = to]

StopBeat(x) ==
  /\ Step(x, "heartbeat", "cache")
  /\ on' = [on EXCEPT !["heartbeat"] = FALSE]
  /\ UNCHANGED <<setup, threads, cache, handle, scMain, starts, user, pushing>>

StopCache(x) ==
  /\ Step(x, "cache", "wake")
  /\ on' = [on EXCEPT !["cache"] = FALSE, !["waitfor"] = FALSE]
  /\ UNCHANGED <<setup, threads, cache, handle, scMain, starts, user, pushing>>

Mut_Woken_None == event
Woken == [c \in Caches |-> TRUE]

WakeBoth(x) ==
  /\ Step(x, "wake", "join")
  /\ event' = Woken
  /\ UNCHANGED <<setup, threads, queue, held, pushed, handled, on, handle, scMain, starts, user, pushing>>

\* WaitForMultipleObjects on the four handles, for all, INFINITE: it fails at
\* once when one of them is no handle.
Mut_Joined_Never == TRUE
Joined == (\A r \in Roles : handle[r] = "valid") => \A r \in Roles : pc[r][starts] = "ended"

Join(x) ==
  /\ Step(x, "join", "close")
  /\ Joined
  /\ UNCHANGED <<setup, threads, cache, on, handle, scMain, starts, user, pushing>>

\* closesocket, and CloseHandle four times; neither m_scMain nor a handle is
\* forgotten.  Then the caller goes on.
Mut_Closing_Nothing(s) == s
Closing(s) == IF s = "open" THEN "closed" ELSE s

Close(x) ==
  /\ Step(x, "close", "no")
  /\ scMain' = Closing(scMain)
  /\ handle' = [r \in Roles |-> IF handle[r] = "null" THEN "null" ELSE "closed"]
  /\ \/ /\ x = User
        /\ user' = IF user = "restart" THEN "connect" ELSE "idle"
        /\ UNCHANGED pc
     \/ x # User /\ Goto("waitfor", x, "while") /\ UNCHANGED user
  /\ UNCHANGED <<setup, retrys, beat, cache, on, starts, pushing>>

InShutdown(x) == StopBeat(x) \/ StopCache(x) \/ WakeBoth(x) \/ Join(x) \/ Close(x)

Shutdown ==
  /\ user = "idle"
  /\ user' = "shutdown" /\ Step(User, "no", "heartbeat")
  /\ UNCHANGED <<setup, threads, cache, on, handle, scMain, starts, pushing>>
-----------------------------------------------------------------------------
\* startup: shut down what was started before, connect, create the threads.
Startup ==
  /\ user = "idle" /\ starts < setup.starts
  /\ \/ /\ scMain # "invalid"
        /\ user' = "restart" /\ Step(User, "no", "heartbeat")
     \/ scMain = "invalid" /\ user' = "connect" /\ UNCHANGED down
  /\ UNCHANGED <<setup, threads, cache, on, handle, scMain, starts, pushing>>

Connect ==
  /\ user = "connect"
  /\ \/ /\ scMain' = "open" /\ user' = "create" /\ starts' = starts + 1
     \/ setup.linkFails /\ scMain' = "invalid" /\ user' = "idle" /\ UNCHANGED starts
  /\ UNCHANGED <<setup, threads, cache, on, handle, down, pushing>>

\* Whatever thread cannot be created, startup undoes itself with shutdown.
GiveUp == user' = "failed" /\ Step(User, "no", "heartbeat")

\* All threads are created suspended; sender and recver run when both are there.
CreateThreads ==
  /\ user = "create" /\ user' = "beat"
  /\ handle' = [r \in Roles |-> IF r = "heartbeat" THEN handle[r] ELSE "valid"]
  /\ pc' = [pc EXCEPT !["waitfor"][starts] = "suspended",
                      !["sender"][starts] = "while", !["recver"][starts] = "while"]
  /\ on' = [on EXCEPT !["cache"] = TRUE]
  /\ UNCHANGED <<setup, retrys, beat, cache, scMain, starts, down, pushing>>

\* Without waitfor nothing else is tried; without sender or recver the other
\* one stays suspended.
CreateFails ==
  /\ setup.threadsFail /\ user = "create" /\ GiveUp
  /\ \/ handle' = [handle EXCEPT !["waitfor"] = "null"] /\ UNCHANGED pc
     \/ \E made \in {{}, {"sender"}, {"recver"}} :
          /\ handle' = [r \in Roles |-> CASE r = "heartbeat" -> handle[r]
                                         [] r \in made \cup {"waitfor"} -> "valid"
                                         [] OTHER -> "null"]
          /\ pc' = [r \in Roles |-> IF r \in made \cup {"waitfor"}
                                    THEN [pc[r] EXCEPT ![starts] = "suspended"] ELSE pc[r]]
  /\ UNCHANGED <<setup, retrys, beat, cache, on, scMain, starts, pushing>>

CreateHeartbeat ==
  /\ user = "beat"
  /\ \/ ~setup.heartbeat /\ user' = "resume" /\ UNCHANGED <<pc, beat, on, handle, down>>
     \/ /\ setup.heartbeat
        /\ handle' = [handle EXCEPT !["heartbeat"] = "valid"]
        /\ on' = [on EXCEPT !["heartbeat"] = TRUE]
        /\ beat' = [beat EXCEPT ![starts] = "live"]
        /\ Goto("heartbeat", starts, "while")
        /\ user' = "resume" /\ UNCHANGED down
     \/ /\ setup.heartbeat /\ setup.threadsFail
        /\ handle' = [handle EXCEPT !["heartbeat"] = "null"]
        /\ GiveUp /\ UNCHANGED <<pc, beat, on>>
  /\ UNCHANGED <<setup, retrys, cache, scMain, starts, pushing>>

ResumeWaitfor ==
  /\ user = "resume"
  /\ on' = [on EXCEPT !["waitfor"] = TRUE]
  /\ Goto("waitfor", starts, "while")
  /\ user' = "idle"
  /\ UNCHANGED <<setup, retrys, beat, cache, handle, scMain, starts, down, pushing>>

InStartup == Connect \/ CreateThreads \/ CreateFails \/ CreateHeartbeat \/ ResumeWaitfor
-----------------------------------------------------------------------------
HeartbeatThread(g) == Beat(g) \/ AnnounceBeat(g)
WaitforThread(g) == WaitforData(g) \/ Select(g) \/ AnnounceData(g) \/ Reconnect(g)

Next ==
  \/ \E x \in Commands : PushGTCmd(x) \/ Announce(x)
  \/ \E g \in Gens : \/ \E c \in Caches : CacheThread(c, g)
                      \/ HeartbeatThread(g) \/ WaitforThread(g)
  \/ \E x \in Callers : InShutdown(x)
  \/ Startup \/ InStartup \/ Shutdown

\* Every thread that can run runs on: sleeps and select end, the network and
\* the window answer, one way or the other.  Nobody has to call anything.
Fairness ==
  /\ \A x \in Commands : WF_vars(Announce(x))
  /\ \A g \in Gens : /\ \A c \in Caches : WF_vars(CacheThread(c, g))
                     /\ WF_vars(HeartbeatThread(g)) /\ WF_vars(WaitforThread(g))
  /\ \A x \in Callers : WF_vars(InShutdown(x))
  /\ WF_vars(InStartup)

Spec == Init /\ [][Next]_vars
FairSpec == Spec /\ Fairness
-----------------------------------------------------------------------------
Places == {"none", "suspended", "ended", "while", "wait", "take", "handle", "tidy",
           "reset", "announce", "select", "reconnect", "shutdown"}

TypeOK ==
  /\ pc \in [Roles -> [Gens -> Places]]
  /\ held \in [Caches -> [Gens -> Seq(Commands \cup Nat)]]
  /\ retrys \in [Gens -> 0..MaxRetries]
  /\ beat \in [Gens -> {"none", "live", "deleted"}]
  /\ queue \in [Caches -> Seq(Commands \cup Nat)]
  /\ event \in [Caches -> BOOLEAN]
  /\ on \in [{"heartbeat", "cache", "waitfor"} -> BOOLEAN]
  /\ handle \in [Roles -> {"null", "valid", "closed"}]
  /\ scMain \in {"invalid", "open", "closed"}
  /\ starts \in 0..MaxStarts
  /\ user \in {"idle", "restart", "connect", "create", "beat", "resume", "failed", "shutdown"}
  /\ down \in [Callers -> {"no", "heartbeat", "cache", "wake", "join", "close"}]
  /\ pushing \in [Commands -> {"new", "queued", "done"}]
  /\ pushed \in [Caches -> Seq(Commands \cup Nat)]
  /\ handled \in [Caches -> Seq(Commands \cup Nat)]

Alive(r, g) == pc[r][g] \notin {"none", "suspended", "ended"}

\* What is in a queue but heartbeats: at n, what is so among the first n.
RealUpTo(s) ==
  LET real[n \in 0..Len(s)] ==
        IF n = 0 THEN <<>> ELSE IF IsBeat(s[n]) THEN real[n - 1] ELSE Append(real[n - 1], s[n])
  IN real
Real(c, s) == IF c = "sender" THEN RealUpTo(s)[Len(s)] ELSE s

\* The clients that startup and shutdown work for: one with a heartbeat, whose
\* threads could be created, and which is not started again after a connection
\* was lost for good.
Orderly == /\ setup.heartbeat /\ ~setup.threadsFail
           /\ setup.linkFails => setup.starts = 1

\* Everything put into a queue is dealt with, held by the one thread that serves
\* it or still queued, exactly once, and in the order it was put in: the cache
\* keeps the order it is given (socket/sockcache.h:31), and no command is deleted
\* twice (socket/socketclient.cpp:269-273).
InOrder == Orderly =>
  \A c \in Caches : \E g \in Gens :
    /\ \A h \in Gens \ {g} : held[c][h] = <<>>
    /\ pushed[c] = handled[c] \o Real(c, held[c][g]) \o Real(c, queue[c])

\* Where x is: dealt with, held by the thread of a startup, or queued.
Positions(x, s) == {i \in DOMAIN s : s[i] = x}
Where(c, x) ==
  {<<"handled", 0, i>> : i \in Positions(x, handled[c])}
    \cup {<<"queue", 0, i>> : i \in Positions(x, queue[c])}
    \cup UNION {{<<"held", g, i>> : i \in Positions(x, held[c][g])} : g \in Gens}

\* The same without the order, for any client, even with two senders at work:
\* what was put into a queue is in one place.
DealtWithOnce ==
  \A c \in Caches : \A x \in ToSet(pushed[c]) : \E w \in Where(c, x) : Where(c, x) = {w}

\* The connection is closed only when all threads have ended
\* (socket/socketclient.cpp:105), which is more than shutdown can promise to
\* every client.
CloseAfterThreads ==
  (\E x \in Callers : down[x] = "close") => \A r \in Roles, g \in Gens : ~Alive(r, g)

OrderlyClose == Orderly => CloseAfterThreads

\* After shutdown, and before the next startup, no thread runs and no
\* connection is open (socket/socketclient.h:68); a restart never leaves two
\* threads in the same role.
DownMeansDown ==
  Orderly =>
    /\ user = "idle" /\ (\A r \in Roles : handle[r] = "closed") =>
         scMain # "open" /\ \A r \in Roles, g \in Gens : ~Alive(r, g)
    /\ \A r \in Roles : \A g, h \in Gens : Alive(r, g) /\ Alive(r, h) => g = h

\* The sender keeps the heartbeat object because it is to be queued again
\* (socket/socketclient.cpp:269); what it has in hand should exist.  It need
\* not: the heartbeat thread deletes the object when its switch goes off.
HeartbeatExists ==
  \A g \in Gens : \A x \in ToSet(held["sender"][g]) : IsBeat(x) => beat[x] = "live"

\* shutdown returns, as long as no waitfor thread waits for itself; and once the
\* client is shut down for good its threads end, waited for or not
\* (socket/socketclient.h:68).
ShutdownEnds ==
  /\ user = "shutdown" ~> user = "idle"
  /\ user = "shutdown" ~>
       (starts = setup.starts => \A r \in Roles, g \in Gens : ~Alive(r, g))

\* The shutdown that a waitfor thread calls when it has given up reconnecting
\* (socket/socketclient.cpp:180) ends, and stops the threads.
GivingUpEnds == \A g \in Gens : pc["waitfor"][g] = "shutdown" ~> pc["waitfor"][g] = "ended"

\* While the client stays up, every command in the queue is taken out and dealt
\* with (socket/socketclient.cpp:222).
GoesOut(x) ==
  x \in ToSet(queue["sender"]) /\ on["cache"] ~> x \in ToSet(handled["sender"]) \/ ~on["cache"]
CommandsGoOut == \A x \in Commands : GoesOut(x)

\* The sender can go to sleep on a command that was queued between its look at
\* the queue and its ResetEvent; with a heartbeat, the next one wakes it.
HeartbeatsHelp ==
  \A x \in Commands :
    x \in ToSet(queue["sender"]) /\ on["cache"] /\ setup.heartbeat
      ~> x \in ToSet(handled["sender"]) \/ ~on["cache"]
=============================================================================
