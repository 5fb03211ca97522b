-------------------------- MODULE SockClientProofs --------------------------
(***************************************************************************)
(* Proofs about SockClient, for any number of commands, startups, retries  *)
(* and responses and in any surroundings: what startup and shutdown        *)
(* promise to an orderly client, and that the queues lose, double and      *)
(* reorder nothing.                                                        *)
(***************************************************************************)
EXTENDS SockClient, SequenceTheorems, FiniteSetTheorems, TLAPS

Items == Commands \cup Nat
Users == {"idle", "restart", "connect", "create", "beat", "resume", "failed", "shutdown"}
Stages == {"no", "heartbeat", "cache", "wake", "join", "close"}

\* A startup is only begun while the setup has one left.
TypeInv ==
  /\ TypeOK /\ setup \in Setups
  /\ user \in {"restart", "connect"} => starts < setup.starts
-----------------------------------------------------------------------------
(* Functions of functions.                                                 *)

PCs == [Roles -> [Gens -> Places]]

\* A thread that goes on leaves the others where they are.
LEMMA GotoProperties ==
  ASSUME pc \in PCs, NEW r \in Roles, NEW g \in Gens, NEW p \in Places, Goto(r, g, p)
  PROVE  /\ pc' \in PCs /\ pc'[r][g] = p
         /\ \A s \in Roles, h \in Gens : s # r \/ h # g => pc'[s][h] = pc[s][h]
BY DEF Goto, PCs

\* An item that is put into a queue.
LEMMA PushProperties ==
  ASSUME TypeOK, NEW c \in Caches, NEW x \in Items, Push(c, x)
  PROVE  queue' \in [Caches -> Seq(Items)] /\ pushed' \in [Caches -> Seq(Items)]
<1>1. queue \in [Caches -> Seq(Items)] /\ pushed \in [Caches -> Seq(Items)]
  BY DEF TypeOK, Items
<1>2. Append(queue[c], x) \in Seq(Items) /\ Append(pushed[c], x) \in Seq(Items)
  BY <1>1, AppendProperties
<1>. QED  BY <1>1, <1>2 DEF Push

LEMMA CacheRoles == Caches \subseteq Roles /\ Gens \subseteq Items /\ Gens \subseteq Nat /\ Gens \subseteq Callers
BY SetupsType DEF Caches, Roles, Gens, Items, Callers

LEMMA InitTypes == Init => TypeInv
<1>. SUFFICES ASSUME Init PROVE TypeInv
  OBVIOUS
<1>1. <<>> \in Seq(Items)
  BY EmptySeq
<1>2. MaxRetries \in Nat /\ MaxStarts \in Nat
  BY SetupsType
<1>. QED  BY <1>1, <1>2 DEF Init, TypeInv, TypeOK, Places, Items, Roles, Caches

LEMMA CommandTypes == ASSUME TypeInv, NEW x \in Commands, PushGTCmd(x) \/ Announce(x) PROVE TypeInv'
<1>1. CASE PushGTCmd(x)
  <2>1. x \in Items /\ "sender" \in Caches
    BY DEF Items, Caches
  <2>2. queue' \in [Caches -> Seq(Items)] /\ pushed' \in [Caches -> Seq(Items)]
    BY <1>1, <2>1, PushProperties DEF PushGTCmd, TypeInv
  <2>3. pushing' \in [Commands -> {"new", "queued", "done"}]
    BY <1>1 DEF PushGTCmd, TypeInv, TypeOK
  <2>. QED
    BY <1>1, <2>2, <2>3 DEF PushGTCmd, TypeInv, TypeOK, threads, control, Items
<1>2. CASE Announce(x)
  BY <1>2 DEF Announce, TypeInv, TypeOK, threads, control, Caches
<1>. QED  BY <1>1, <1>2

\* What a cache thread takes and leaves.
LEMMA TakeProperties ==
  ASSUME TypeOK, NEW c \in Caches
  PROVE  Batch(c) \in Seq(Items) /\ Rest(c) \in Seq(Items)
<1>1. queue[c] \in Seq(Items) /\ <<>> \in Seq(Items)
  BY EmptySeq DEF TypeOK, Items
<1>2. queue[c] # <<>> => <<Head(queue[c])>> \in Seq(Items) /\ Tail(queue[c]) \in Seq(Items)
  BY <1>1, HeadTailProperties
<1>. QED  BY <1>1, <1>2 DEF Batch, Rest

LEMMA CacheTypes ==
  ASSUME TypeInv, NEW c \in Caches, NEW g \in Gens, CacheThread(c, g) PROVE TypeInv'
<1>1. /\ pc \in PCs /\ c \in Roles /\ {"wait", "ended", "take", "handle", "tidy", "reset", "while"} \subseteq Places
      /\ queue \in [Caches -> Seq(Items)] /\ held \in [Caches -> [Gens -> Seq(Items)]]
      /\ handled \in [Caches -> Seq(Items)] /\ <<>> \in Seq(Items) /\ event \in [Caches -> BOOLEAN]
  BY CacheRoles, EmptySeq DEF TypeInv, TypeOK, PCs, Places, Items
<1>2. /\ pc' \in PCs /\ queue' \in [Caches -> Seq(Items)] /\ held' \in [Caches -> [Gens -> Seq(Items)]]
      /\ handled' \in [Caches -> Seq(Items)] /\ event' \in [Caches -> BOOLEAN]
      /\ UNCHANGED <<retrys, beat, pushed, control, pushing>>
  <2>1. CASE While(c, g)
    BY <1>1, <2>1, GotoProperties DEF While, cache
  <2>2. CASE Wait(c, g)
    BY <1>1, <2>2, GotoProperties DEF Wait, cache
  <2>3. CASE Take(c, g)
    <3>1. Batch(c) \in Seq(Items) /\ Rest(c) \in Seq(Items)
      BY TakeProperties DEF TypeInv
    <3>2. pc' \in PCs
      BY <1>1, <2>3, GotoProperties DEF Take
    <3>3. held' \in [Caches -> [Gens -> Seq(Items)]] /\ queue' \in [Caches -> Seq(Items)]
      <4>1. CASE UNCHANGED <<held, queue>>
        BY <1>1, <4>1
      <4>2. CASE held' = [held EXCEPT ![c][g] = Batch(c)] /\ queue' = [queue EXCEPT ![c] = Rest(c)]
        BY <1>1, <3>1, <4>2
      <4>. QED  BY <2>3, <4>1, <4>2 DEF Take
    <3>. QED  BY <1>1, <2>3, <3>2, <3>3 DEF Take
  <2>4. CASE Handle(c, g)
    <3>1. pc' \in PCs
      BY <1>1, <2>4, GotoProperties DEF Handle
    <3>2. handled[c] \o held[c][g] \in Seq(Items)
      BY <1>1, ConcatProperties
    <3>. QED  BY <1>1, <2>4, <3>1, <3>2 DEF Handle
  <2>5. CASE Tidy(c, g)
    BY <1>1, <2>5, GotoProperties DEF Tidy, cache
  <2>6. CASE Reset(c, g)
    BY <1>1, <2>6, GotoProperties DEF Reset
  <2>. QED  BY <2>1, <2>2, <2>3, <2>4, <2>5, <2>6 DEF CacheThread
<1>. QED  BY <1>2 DEF TypeInv, TypeOK, PCs, control, Items

LEMMA HeartbeatTypes ==
  ASSUME TypeInv, NEW g \in Gens, HeartbeatThread(g) PROVE TypeInv'
<1>1. /\ pc \in PCs /\ "heartbeat" \in Roles /\ {"ended", "announce", "while"} \subseteq Places
      /\ "sender" \in Caches /\ g \in Items
      /\ queue \in [Caches -> Seq(Items)] /\ pushed \in [Caches -> Seq(Items)]
  BY CacheRoles DEF TypeInv, TypeOK, PCs, Places, Items, Roles, Caches
<1>2. CASE Beat(g)
  <2>1. pc' \in PCs
    BY <1>1, <1>2, GotoProperties DEF Beat
  <2>2. queue' \in [Caches -> Seq(Items)] /\ pushed' \in [Caches -> Seq(Items)]
    BY <1>1, <1>2, PushProperties DEF Beat, TypeInv
  <2>3. beat' \in [Gens -> {"none", "live", "deleted"}]
    BY <1>2 DEF Beat, TypeInv, TypeOK
  <2>. QED  BY <1>2, <2>1, <2>2, <2>3 DEF Beat, TypeInv, TypeOK, PCs, control, Items
<1>3. CASE AnnounceBeat(g)
  <2>1. pc' \in PCs
    BY <1>1, <1>3, GotoProperties DEF AnnounceBeat
  <2>2. event' \in [Caches -> BOOLEAN]
    BY <1>3 DEF AnnounceBeat, TypeInv, TypeOK
  <2>. QED  BY <1>3, <2>1, <2>2 DEF AnnounceBeat, TypeInv, TypeOK, PCs, control
<1>. QED  BY <1>2, <1>3 DEF HeartbeatThread

LEMMA WaitforTypes ==
  ASSUME TypeInv, NEW g \in Gens, WaitforThread(g) PROVE TypeInv'
<1>1. /\ pc \in PCs /\ "waitfor" \in Roles /\ "recver" \in Caches
      /\ {"select", "ended", "announce", "while", "reconnect", "shutdown"} \subseteq Places
  BY CacheRoles DEF TypeInv, TypeOK, PCs, Places, Roles, Caches
<1>2. CASE WaitforData(g)
  <2>1. pc' \in PCs
    BY <1>1, <1>2, GotoProperties DEF WaitforData
  <2>. QED  BY <1>2, <2>1 DEF WaitforData, TypeInv, TypeOK, PCs, control, cache
<1>3. CASE Select(g)
  <2>1. pc' \in PCs
    BY <1>1, <1>3, GotoProperties DEF Select
  <2>2. Len(pushed["recver"]) + 1 \in Items
    <3>1. pushed["recver"] \in Seq(Items)
      BY <1>1 DEF TypeInv, TypeOK, Items
    <3>. QED  BY <3>1, LenProperties DEF Items
  <2>3. queue' \in [Caches -> Seq(Items)] /\ pushed' \in [Caches -> Seq(Items)]
    <3>1. CASE Push("recver", Len(pushed["recver"]) + 1)
      BY <1>1, <2>2, <3>1, PushProperties DEF TypeInv
    <3>2. CASE UNCHANGED <<queue, pushed>>
      BY <3>2 DEF TypeInv, TypeOK, Items
    <3>. QED  BY <1>3, <3>1, <3>2 DEF Select
  <2>4. UNCHANGED <<retrys, beat, event, held, handled, control, pushing>>
    BY <1>3 DEF Select
  <2>. QED  BY <2>1, <2>3, <2>4 DEF TypeInv, TypeOK, PCs, control, Items
<1>4. CASE AnnounceData(g)
  <2>1. pc' \in PCs
    BY <1>1, <1>4, GotoProperties DEF AnnounceData
  <2>2. event' \in [Caches -> BOOLEAN]
    BY <1>4 DEF AnnounceData, TypeInv, TypeOK
  <2>. QED  BY <1>4, <2>1, <2>2 DEF AnnounceData, TypeInv, TypeOK, PCs, control
<1>5. CASE Reconnect(g)
  <2>1. pc' \in PCs
    BY <1>1, <1>5, GotoProperties DEF Reconnect
  <2>2. retrys' \in [Gens -> 0..MaxRetries]
    <3>1. /\ MaxRetries \in Nat /\ retrys[g] \in 0..MaxRetries
          /\ retrys[g] < MaxRetries => retrys[g] + 1 \in 0..MaxRetries
      BY SetupsType DEF TypeInv, TypeOK
    <3>2. retrys \in [Gens -> 0..MaxRetries] /\ 0 \in 0..MaxRetries
      BY <3>1 DEF TypeInv, TypeOK
    <3>3. \/ retrys' = [retrys EXCEPT ![g] = 0]
          \/ retrys' = [retrys EXCEPT ![g] = @ + 1] /\ retrys[g] < MaxRetries
          \/ retrys' = retrys
      BY <1>5 DEF Reconnect, MayRetry
    <3>. QED  BY <3>1, <3>2, <3>3
  <2>3. scMain' \in {"invalid", "open", "closed"} /\ down' \in [Callers -> Stages]
    BY <1>5 DEF Reconnect, TypeInv, TypeOK, Stages
  <2>. QED  BY <1>5, <2>1, <2>2, <2>3 DEF Reconnect, TypeInv, TypeOK, PCs, cache, Stages
<1>. QED  BY <1>2, <1>3, <1>4, <1>5 DEF WaitforThread

LEMMA ShutdownTypes ==
  ASSUME TypeInv, NEW x \in Callers, InShutdown(x) PROVE TypeInv'
<1>1. /\ down \in [Callers -> Stages] /\ pc \in PCs /\ "waitfor" \in Roles /\ "while" \in Places
      /\ Callers \ {User} = Gens
  BY CacheRoles DEF TypeInv, TypeOK, Stages, PCs, Places, Roles, Callers, User, Gens
<1>2. \A from, to \in Stages : Step(x, from, to) => down' \in [Callers -> Stages]
  BY <1>1 DEF Step
<1>3. CASE StopBeat(x)
  BY <1>2, <1>3 DEF StopBeat, TypeInv, TypeOK, threads, cache, Stages
<1>4. CASE StopCache(x)
  BY <1>2, <1>4 DEF StopCache, TypeInv, TypeOK, threads, cache, Stages
<1>5. CASE WakeBoth(x)
  <2>1. event' \in [Caches -> BOOLEAN]
    BY <1>5 DEF WakeBoth, Woken
  <2>. QED  BY <1>2, <1>5, <2>1 DEF WakeBoth, TypeInv, TypeOK, threads, Stages
<1>6. CASE Join(x)
  BY <1>2, <1>6 DEF Join, TypeInv, TypeOK, threads, cache, Stages
<1>7. CASE Close(x)
  <2>1. pc' \in PCs
    <3>1. CASE x = User
      BY <1>1, <1>7, <3>1 DEF Close, User, Gens
    <3>2. CASE x # User
      <4>1. x \in Gens /\ Goto("waitfor", x, "while")
        BY <1>1, <1>7, <3>2 DEF Close
      <4>. QED  BY <1>1, <4>1, GotoProperties
    <3>. QED  BY <3>1, <3>2
  <2>2. scMain' \in {"invalid", "open", "closed"} /\ handle' \in [Roles -> {"null", "valid", "closed"}]
    BY <1>7 DEF Close, Closing, TypeInv, TypeOK
  <2>3. down' \in [Callers -> Stages]
    BY <1>2, <1>7 DEF Close, Stages
  <2>4. user' \in Users /\ (user' \in {"restart", "connect"} => starts < setup.starts)
    BY <1>7 DEF Close, TypeInv, TypeOK, Users
  <2>. QED  BY <1>7, <2>1, <2>2, <2>3, <2>4 DEF Close, TypeInv, TypeOK, PCs, cache, Stages, Users
<1>. QED  BY <1>3, <1>4, <1>5, <1>6, <1>7 DEF InShutdown

LEMMA UserTypes ==
  ASSUME TypeInv, Shutdown \/ Startup \/ InStartup PROVE TypeInv'
<1>1. /\ down \in [Callers -> Stages] /\ pc \in PCs /\ User \in Callers
      /\ Roles = {"waitfor", "heartbeat", "sender", "recver"} /\ {"suspended", "while"} \subseteq Places
      /\ handle \in [Roles -> {"null", "valid", "closed"}]
  BY DEF TypeInv, TypeOK, Stages, PCs, Places, Roles, Callers, User
<1>2. \A from, to \in Stages : Step(User, from, to) => down' \in [Callers -> Stages]
  BY <1>1 DEF Step
<1>3. CASE Shutdown
  BY <1>2, <1>3 DEF Shutdown, TypeInv, TypeOK, threads, cache, Stages
<1>4. CASE Startup
  <2>1. down' \in [Callers -> Stages] /\ user' \in {"restart", "connect"} /\ starts < setup.starts
    BY <1>1, <1>2, <1>4 DEF Startup, Stages
  <2>. QED  BY <1>4, <2>1 DEF Startup, TypeInv, TypeOK, threads, cache, Stages
<1>5. CASE Connect
  <2>1. starts < setup.starts /\ setup.starts \in 0..MaxStarts /\ starts \in 0..MaxStarts /\ MaxStarts \in Nat
    BY <1>5, SetupsType DEF Connect, TypeInv, TypeOK
  <2>2. starts' \in 0..MaxStarts
    BY <1>5, <2>1 DEF Connect
  <2>3. scMain' \in {"invalid", "open", "closed"} /\ user' \in {"create", "idle"}
    BY <1>5 DEF Connect
  <2>. QED  BY <1>5, <2>2, <2>3 DEF Connect, TypeInv, TypeOK, threads, cache
<1>6. CASE CreateThreads
  <2>1. pc' \in PCs
    BY <1>1, <1>6 DEF CreateThreads, PCs
  <2>2. handle' \in [Roles -> {"null", "valid", "closed"}]
    BY <1>1, <1>6 DEF CreateThreads
  <2>3. on' \in [{"heartbeat", "cache", "waitfor"} -> BOOLEAN]
    BY <1>6 DEF CreateThreads, TypeInv, TypeOK
  <2>. QED  BY <1>6, <2>1, <2>2, <2>3 DEF CreateThreads, TypeInv, TypeOK, PCs, cache
<1>7. CASE CreateFails
  <2>1. pc' \in PCs /\ handle' \in [Roles -> {"null", "valid", "closed"}]
    <3>1. CASE handle' = [handle EXCEPT !["waitfor"] = "null"] /\ UNCHANGED pc
      BY <1>1, <3>1
    <3>2. CASE ~(handle' = [handle EXCEPT !["waitfor"] = "null"] /\ UNCHANGED pc)
      <4>1. PICK made \in {{}, {"sender"}, {"recver"}} :
               /\ handle' = [r \in Roles |-> CASE r = "heartbeat" -> handle[r]
                                              [] r \in made \cup {"waitfor"} -> "valid"
                                              [] OTHER -> "null"]
               /\ pc' = [r \in Roles |-> IF r \in made \cup {"waitfor"}
                                         THEN [pc[r] EXCEPT ![starts] = "suspended"] ELSE pc[r]]
        BY <1>7, <3>2 DEF CreateFails
      <4>2. pc' \in PCs
        BY <1>1, <4>1 DEF PCs
      <4>3. handle' \in [Roles -> {"null", "valid", "closed"}]
        BY <1>1, <4>1
      <4>. QED  BY <4>2, <4>3
    <3>. QED  BY <3>1, <3>2
  <2>2. user' = "failed" /\ down' \in [Callers -> Stages]
    BY <1>2, <1>7 DEF CreateFails, GiveUp, Stages
  <2>. QED  BY <1>7, <2>1, <2>2 DEF CreateFails, TypeInv, TypeOK, PCs, cache, Stages
<1>8. CASE CreateHeartbeat
  <2>1. pc' \in PCs
    BY <1>1, <1>8 DEF CreateHeartbeat, Goto, PCs
  <2>2. down' \in [Callers -> Stages] /\ user' \in {"resume", "failed"}
    BY <1>1, <1>2, <1>8 DEF CreateHeartbeat, GiveUp, Stages
  <2>3. /\ handle' \in [Roles -> {"null", "valid", "closed"}]
        /\ on' \in [{"heartbeat", "cache", "waitfor"} -> BOOLEAN]
        /\ beat' \in [Gens -> {"none", "live", "deleted"}]
    <3>1. handle' \in [Roles -> {"null", "valid", "closed"}]
      BY <1>1, <1>8 DEF CreateHeartbeat
    <3>2. on' \in [{"heartbeat", "cache", "waitfor"} -> BOOLEAN]
      <4>1. on \in [{"heartbeat", "cache", "waitfor"} -> BOOLEAN]
        BY DEF TypeInv, TypeOK
      <4>2. on' = on \/ on' = [on EXCEPT !["heartbeat"] = TRUE]
        BY <1>8 DEF CreateHeartbeat
      <4>. QED  BY <4>1, <4>2
    <3>3. beat' \in [Gens -> {"none", "live", "deleted"}]
      BY <1>8 DEF CreateHeartbeat, TypeInv, TypeOK
    <3>. QED  BY <3>1, <3>2, <3>3
  <2>. QED  BY <1>8, <2>1, <2>2, <2>3 DEF CreateHeartbeat, TypeInv, TypeOK, PCs, cache, Stages
<1>9. CASE ResumeWaitfor
  <2>1. pc' \in PCs /\ on' \in [{"heartbeat", "cache", "waitfor"} -> BOOLEAN]
    BY <1>1, <1>9 DEF ResumeWaitfor, Goto, PCs, TypeInv, TypeOK
  <2>. QED  BY <1>9, <2>1 DEF ResumeWaitfor, TypeInv, TypeOK, PCs, cache
<1>. QED  BY <1>3, <1>4, <1>5, <1>6, <1>7, <1>8, <1>9 DEF InStartup

LEMMA TypeStep == TypeInv /\ [Next]_vars => TypeInv'
<1>1. CASE UNCHANGED vars
  BY <1>1 DEF vars, threads, cache, control, TypeInv, TypeOK
<1>2. CASE Next
  BY <1>2, CommandTypes, CacheTypes, HeartbeatTypes, WaitforTypes, ShutdownTypes, UserTypes DEF Next
<1>. QED  BY <1>1, <1>2

LEMMA TypeInvariant == Spec => []TypeInv
BY InitTypes, TypeStep, PTL DEF Spec

\* Every variable keeps its type.
THEOREM TypeCorrect == Spec => []TypeOK
<1>1. TypeInv => TypeOK
  BY DEF TypeInv
<1>. QED  BY <1>1, TypeInvariant, PTL
-----------------------------------------------------------------------------
(* Startup and shutdown of an orderly client.                              *)

AllDead == \A r \in Roles, g \in Gens : ~Alive(r, g)
AllValid == \A r \in Roles : handle[r] = "valid"
AllClosed == \A r \in Roles : handle[r] = "closed"

\* The threads of former startups have ended; those of the last one are at the
\* place where startup and shutdown have brought them.
ThreadsInv ==
  /\ \A r \in Roles, g \in Gens : g # starts => ~Alive(r, g)
  /\ user \in {"connect", "create"} => AllDead
  /\ user \in {"create", "beat", "resume"} => starts \in Gens
  /\ user \in {"beat", "resume"} =>
       pc["waitfor"][starts] = "suspended" /\ \A r \in Roles \ {"heartbeat"} : handle[r] = "valid"
  /\ user = "resume" => handle["heartbeat"] = "valid"
  /\ user \in {"idle", "restart", "shutdown"} => AllValid \/ AllDead

\* Who is in shutdown: the user, or a waitfor thread that has given up, which
\* comes no further than to wait for itself.
CallersInv ==
  /\ user # "failed"
  /\ down[User] # "no" <=> user \in {"restart", "shutdown"}
  /\ down[User] = "close" => AllDead
  /\ \A x \in Gens : down[x] # "no" =>
       down[x] # "close" /\ x = starts /\ pc["waitfor"][x] = "shutdown"

\* The socket: forgotten only by a reconnection that fails.
SocketInv ==
  /\ scMain = "invalid" /\ ~setup.linkFails => starts = 0
  /\ user \in {"idle", "restart", "shutdown", "connect"} /\ AllClosed => scMain # "open"

ControlInv == Orderly => ThreadsInv /\ CallersInv /\ SocketInv

LEMMA ControlTypes ==
  ASSUME TypeInv
  PROVE  /\ pc \in PCs /\ handle \in [Roles -> {"null", "valid", "closed"}]
         /\ down \in [Callers -> Stages] /\ User \in Callers /\ User \notin Gens
         /\ Gens \subseteq Nat \ {0} /\ \A x \in Callers : x = User \/ x \in Gens
         /\ Roles = {"waitfor", "heartbeat", "sender", "recver"}
         /\ starts \in Nat /\ starts <= MaxStarts
         /\ setup.starts \in Nat /\ setup.starts <= MaxStarts /\ MaxStarts \in Nat
BY SetupsType DEF TypeInv, TypeOK, PCs, Stages, Callers, Gens, User, Roles

LEMMA InitControl == Init => ControlInv
<1>. SUFFICES ASSUME Init PROVE ControlInv
  OBVIOUS
<1>1. \A r \in Roles, g \in Gens : pc[r][g] = "none"
  BY DEF Init
<1>2. \A x \in Callers : down[x] = "no"
  BY DEF Init
<1>3. AllDead
  BY <1>1 DEF AllDead, Alive
<1>. QED
  BY <1>1, <1>2, <1>3 DEF Init, ControlInv, ThreadsInv, CallersInv, SocketInv, Callers, User, AllDead

\* What ControlInv talks of stays as it is.
LEMMA ControlUnchanged ==
  ASSUME ControlInv, UNCHANGED <<pc, setup, handle, scMain, starts, user, down>> PROVE ControlInv'
BY DEF ControlInv, Orderly, ThreadsInv, CallersInv, SocketInv, AllDead, AllValid, AllClosed, Alive

\* A thread that runs belongs to the last startup, whose handles are all there
\* unless startup is still at work.
LEMMA Running ==
  ASSUME TypeInv, ControlInv, Orderly, NEW r \in Roles, NEW g \in Gens, Alive(r, g)
  PROVE  /\ g = starts /\ ~AllDead /\ down[User] # "close"
         /\ user \in {"beat", "resume", "idle", "restart", "shutdown"}
         /\ user \in {"idle", "restart", "shutdown"} => AllValid /\ ~AllClosed
         /\ r = "waitfor" => user \in {"idle", "restart", "shutdown"}
<1>1. ~AllDead
  BY DEF AllDead
<1>2. g = starts /\ down[User] # "close" /\ user \notin {"connect", "create", "failed"}
  BY <1>1 DEF ControlInv, ThreadsInv, CallersInv
<1>3. user \in Users
  BY DEF TypeInv, TypeOK, Users
<1>4. user \in {"idle", "restart", "shutdown"} => AllValid
  BY <1>1 DEF ControlInv, ThreadsInv
<1>5. AllValid => ~AllClosed
  BY DEF AllValid, AllClosed, Roles
<1>6. r = "waitfor" => user \notin {"beat", "resume"}
  BY <1>2 DEF ControlInv, ThreadsInv, Alive
<1>. QED  BY <1>1, <1>2, <1>3, <1>4, <1>5, <1>6 DEF Users

\* A thread goes on, and waitfor may have reconnected, or failed to.
LEMMA ThreadMoves ==
  ASSUME TypeInv, ControlInv, NEW r \in Roles, NEW g \in Gens, NEW p \in Places, Alive(r, g),
         Goto(r, g, p), r = "waitfor" => pc[r][g] # "shutdown",
         UNCHANGED <<setup, handle, starts, user>>,
         \/ UNCHANGED down
         \/ p = "shutdown" /\ r = "waitfor" /\ down' = [down EXCEPT ![g] = "heartbeat"],
         \/ scMain' = scMain
         \/ scMain' = "open" /\ r = "waitfor"
         \/ scMain' = "invalid" /\ setup.linkFails
  PROVE  ControlInv'
<1>. SUFFICES ASSUME Orderly PROVE (ThreadsInv /\ CallersInv /\ SocketInv)'
  BY DEF ControlInv, Orderly
<1>1. /\ g = starts /\ ~AllDead /\ down[User] # "close"
      /\ user \in {"beat", "resume", "idle", "restart", "shutdown"}
      /\ user \in {"idle", "restart", "shutdown"} => AllValid /\ ~AllClosed
      /\ r = "waitfor" => user \in {"idle", "restart", "shutdown"}
  BY Running
<1>2. /\ pc'[r][g] = p /\ \A s \in Roles, h \in Gens : s # r \/ h # g => pc'[s][h] = pc[s][h]
  BY GotoProperties, ControlTypes
<1>3. /\ (AllValid <=> AllValid') /\ (AllClosed <=> AllClosed') /\ "waitfor" \in Roles
  BY DEF AllValid, AllClosed, Roles
<1>4. ThreadsInv'
  <2>1. \A s \in Roles, h \in Gens : h # starts => ~Alive(s, h)'
    BY <1>1, <1>2 DEF ControlInv, ThreadsInv, Alive
  <2>2. user \in {"beat", "resume"} => r # "waitfor" /\ pc'["waitfor"][starts] = "suspended"
    BY <1>1, <1>2, <1>3 DEF ControlInv, ThreadsInv
  <2>. QED  BY <1>1, <1>3, <2>1, <2>2 DEF ControlInv, ThreadsInv
<1>5. CallersInv'
  <2>1. down' \in [Callers -> Stages] => down'[User] = down[User]
    BY ControlTypes
  <2>2. \A x \in Gens : x # g => down'[x] = down[x]
    BY ControlTypes, CacheRoles
  <2>3. \A x \in Gens : x # g => down[x] = "no"
    BY <1>1 DEF ControlInv, CallersInv
  <2>4. down'[g] # "no" => \/ r = "waitfor" /\ p = "shutdown" /\ down'[g] = "heartbeat"
                           \/ r # "waitfor" /\ down'[g] = down[g]
    <3>1. CASE UNCHANGED down
      BY <3>1 DEF ControlInv, CallersInv
    <3>2. CASE p = "shutdown" /\ r = "waitfor" /\ down' = [down EXCEPT ![g] = "heartbeat"]
      BY ControlTypes, CacheRoles, <3>2
    <3>. QED  BY <3>1, <3>2
  <2>5. down'[g] # "no" => down'[g] # "close" /\ pc'["waitfor"][g] = "shutdown"
    BY <1>1, <1>2, <1>3, <2>4 DEF ControlInv, CallersInv
  <2>6. down'[User] = down[User]
    BY ControlTypes
  <2>. QED  BY <1>1, <2>2, <2>3, <2>5, <2>6 DEF ControlInv, CallersInv
<1>6. SocketInv'
  <2>1. user' \in {"idle", "restart", "shutdown", "connect"} => ~AllClosed'
    BY <1>1, <1>3
  <2>. QED  BY <2>1 DEF ControlInv, SocketInv
<1>. QED  BY <1>4, <1>5, <1>6

LEMMA ThreadsControl ==
  ASSUME TypeInv, ControlInv, NEW g \in Gens,
         \/ \E c \in Caches : CacheThread(c, g)
         \/ HeartbeatThread(g) \/ WaitforThread(g)
  PROVE  ControlInv'
<1>1. ASSUME NEW c \in Caches, CacheThread(c, g) PROVE ControlInv'
  <2>1. PICK p \in Places : Goto(c, g, p) /\ UNCHANGED control /\ Alive(c, g)
    BY <1>1 DEF CacheThread, While, Wait, Take, Handle, Tidy, Reset, Places, Alive
  <2>2. c \in Roles /\ c # "waitfor"
    BY DEF Caches, Roles
  <2>. QED  BY <2>1, <2>2, ThreadMoves DEF control
<1>2. CASE HeartbeatThread(g)
  <2>1. PICK p \in Places : Goto("heartbeat", g, p) /\ UNCHANGED control /\ Alive("heartbeat", g)
    BY <1>2 DEF HeartbeatThread, Beat, AnnounceBeat, Places, Alive
  <2>. QED  BY <2>1, ThreadMoves DEF control, Roles
<1>3. CASE WaitforData(g) \/ Select(g) \/ AnnounceData(g)
  <2>1. PICK p \in Places : /\ Goto("waitfor", g, p) /\ UNCHANGED control /\ Alive("waitfor", g)
                            /\ pc["waitfor"][g] # "shutdown"
    BY <1>3 DEF WaitforData, Select, AnnounceData, Places, Alive
  <2>. QED  BY <2>1, ThreadMoves DEF control, Roles
<1>4. CASE Reconnect(g)
  <2>1. /\ Alive("waitfor", g) /\ pc["waitfor"][g] # "shutdown"
        /\ UNCHANGED <<setup, handle, starts, user>>
    BY <1>4 DEF Reconnect, Alive
  <2>2. PICK p \in Places :
          /\ Goto("waitfor", g, p)
          /\ \/ UNCHANGED down
             \/ p = "shutdown" /\ down' = [down EXCEPT ![g] = "heartbeat"]
          /\ scMain' = "open" \/ (scMain' = "invalid" /\ setup.linkFails)
    BY <1>4 DEF Reconnect, Places
  <2>. QED  BY <2>1, <2>2, ThreadMoves DEF Roles
<1>. QED  BY <1>1, <1>2, <1>3, <1>4 DEF WaitforThread

\* A caller goes on in shutdown.
LEMMA StepControl ==
  ASSUME TypeInv, ControlInv, NEW x \in Callers, NEW from \in Stages \ {"no"},
         NEW to \in Stages \ {"no", "close"}, Step(x, from, to),
         UNCHANGED <<pc, setup, handle, scMain, starts, user>>
  PROVE  ControlInv'
<1>1. /\ down[x] # "no" /\ down'[x] \notin {"no", "close"}
      /\ \A y \in Callers : y # x => down'[y] = down[y]
  BY ControlTypes DEF Step
<1>. SUFFICES ASSUME Orderly PROVE (ThreadsInv /\ CallersInv /\ SocketInv)'
  BY DEF ControlInv, Orderly
<1>2. (ThreadsInv /\ SocketInv)'
  BY DEF ControlInv, ThreadsInv, SocketInv, AllDead, AllValid, AllClosed, Alive
<1>3. \A y \in Callers : (down'[y] # "no" <=> down[y] # "no") /\ (down'[y] = "close" => down[y] = "close")
  BY <1>1
<1>4. CallersInv'
  BY <1>3, ControlTypes, CacheRoles DEF ControlInv, CallersInv, AllDead, Alive
<1>. QED  BY <1>2, <1>4

\* A waitfor thread that is in shutdown waits for itself.
LEMMA WaitsForItself ==
  ASSUME TypeInv, ControlInv, Orderly, NEW x \in Gens, down[x] # "no"
  PROVE  AllValid /\ ~Joined /\ down[x] # "close" /\ ~AllDead
<1>1. down[x] # "close" /\ x = starts /\ pc["waitfor"][x] = "shutdown"
  BY DEF ControlInv, CallersInv
<1>2. "waitfor" \in Roles /\ Alive("waitfor", x)
  BY <1>1 DEF Alive, Roles
<1>3. AllValid /\ ~AllDead
  BY <1>2, Running
<1>. QED  BY <1>1, <1>2, <1>3 DEF AllValid, Joined

\* The user's shutdown has waited for all threads.
LEMMA JoinedAll ==
  ASSUME TypeInv, ControlInv, Orderly, Join(User) PROVE AllDead
<1>1. user \in {"restart", "shutdown"}
  BY DEF Join, Step, ControlInv, CallersInv
<1>2. CASE AllValid
  <2>1. \A r \in Roles : pc[r][starts] = "ended"
    BY <1>2 DEF Join, Joined, AllValid
  <2>. QED  BY <2>1 DEF ControlInv, ThreadsInv, AllDead, Alive
<1>. QED  BY <1>1, <1>2 DEF ControlInv, ThreadsInv

LEMMA ShutdownControl ==
  ASSUME TypeInv, ControlInv, NEW x \in Callers, InShutdown(x) PROVE ControlInv'
<1>1. CASE StopBeat(x) \/ StopCache(x) \/ WakeBoth(x)
  <2>1. PICK from \in Stages \ {"no"}, to \in Stages \ {"no", "close"} : Step(x, from, to)
    BY <1>1 DEF StopBeat, StopCache, WakeBoth, Stages
  <2>2. UNCHANGED <<pc, setup, handle, scMain, starts, user>>
    BY <1>1 DEF StopBeat, StopCache, WakeBoth, threads
  <2>. QED  BY <2>1, <2>2, StepControl
<1>2. SUFFICES ASSUME Orderly, Join(x) \/ Close(x) PROVE (ThreadsInv /\ CallersInv /\ SocketInv)'
  BY <1>1 DEF InShutdown, ControlInv, Orderly, Join, Close
<1>3. x = User
  <2>1. x \in Gens => down[x] # "no" /\ (Joined \/ down[x] = "close")
    BY <1>2 DEF Join, Close, Step
  <2>. QED  BY <1>2, <2>1, WaitsForItself, ControlTypes
<1>4. CASE Join(x)
  <2>1. AllDead
    BY <1>2, <1>3, <1>4, JoinedAll
  <2>2. /\ UNCHANGED <<pc, setup, handle, scMain, starts, user>>
        /\ down[User] = "join" /\ down' = [down EXCEPT ![User] = "close"]
    BY <1>3, <1>4 DEF Join, Step, threads
  <2>3. (ThreadsInv /\ SocketInv)' /\ AllDead'
    BY <1>2, <2>1, <2>2 DEF ControlInv, ThreadsInv, SocketInv, AllDead, AllValid, AllClosed, Alive
  <2>4. down'[User] = "close" /\ \A y \in Gens : down'[y] = down[y]
    BY <2>2, ControlTypes, CacheRoles
  <2>5. CallersInv'
    BY <1>2, <2>2, <2>3, <2>4 DEF ControlInv, CallersInv
  <2>. QED  BY <2>3, <2>5
<1>5. CASE Close(x)
  <2>1. /\ UNCHANGED <<pc, setup, starts>> /\ scMain' = Closing(scMain)
        /\ down[User] = "close" /\ down' = [down EXCEPT ![User] = "no"]
        /\ user' = IF user = "restart" THEN "connect" ELSE "idle"
    BY <1>3, <1>5 DEF Close, Step, User
  <2>2. AllDead /\ AllDead'
    BY <1>2, <2>1 DEF ControlInv, CallersInv, AllDead, Alive
  <2>3. user \in {"restart", "shutdown"}
    BY <1>2, <2>1 DEF ControlInv, CallersInv
  <2>4. ThreadsInv'
    BY <1>2, <2>1, <2>2, <2>3 DEF ControlInv, ThreadsInv, AllDead
  <2>5. down'[User] = "no" /\ \A y \in Gens : down'[y] = "no"
    <3>1. \A y \in Gens : down'[y] = down[y]
      BY <2>1, ControlTypes, CacheRoles
    <3>2. \A y \in Gens : down[y] = "no"
      BY <1>2, <2>2, WaitsForItself
    <3>. QED  BY <2>1, <3>1, <3>2, ControlTypes
  <2>6. CallersInv'
    BY <2>1, <2>5 DEF CallersInv
  <2>7. SocketInv'
    BY <1>2, <2>1 DEF ControlInv, SocketInv, Closing
  <2>. QED  BY <2>4, <2>6, <2>7
<1>. QED  BY <1>2, <1>4, <1>5

LEMMA UserControl ==
  ASSUME TypeInv, ControlInv, Shutdown \/ Startup \/ Connect PROVE ControlInv'
<1>1. SUFFICES ASSUME Orderly PROVE (ThreadsInv /\ CallersInv /\ SocketInv)'
  BY DEF ControlInv, Orderly, Shutdown, Startup, Connect
<1>2. UNCHANGED <<pc, setup, handle>>
  BY DEF Shutdown, Startup, Connect, threads
<1>3. (AllDead <=> AllDead') /\ (AllValid <=> AllValid') /\ (AllClosed <=> AllClosed')
  BY <1>2 DEF AllDead, AllValid, AllClosed, Alive
<1>4. CASE Shutdown \/ (Startup /\ user' = "restart")
  <2>1. /\ user = "idle" /\ user' \in {"shutdown", "restart"} /\ UNCHANGED <<scMain, starts>>
        /\ down' = [down EXCEPT ![User] = "heartbeat"]
    BY <1>4 DEF Shutdown, Startup, Step
  <2>2. down'[User] = "heartbeat" /\ \A y \in Gens : down'[y] = down[y]
    BY <2>1, ControlTypes, CacheRoles
  <2>3. ThreadsInv'
    BY <1>1, <1>2, <1>3, <2>1 DEF ControlInv, ThreadsInv, Alive
  <2>4. CallersInv'
    BY <1>1, <1>2, <2>1, <2>2 DEF ControlInv, CallersInv
  <2>5. SocketInv'
    BY <1>1, <1>2, <1>3, <2>1 DEF ControlInv, SocketInv
  <2>. QED  BY <2>3, <2>4, <2>5
<1>5. CASE Startup /\ user' # "restart"
  <2>1. /\ user = "idle" /\ user' = "connect" /\ scMain = "invalid" /\ starts < setup.starts
        /\ UNCHANGED <<scMain, starts, down>>
    BY <1>5 DEF Startup
  <2>2. starts = 0
    BY <1>1, <2>1, ControlTypes DEF ControlInv, SocketInv, Orderly
  <2>3. AllDead
    BY <1>1, <2>2, ControlTypes DEF ControlInv, ThreadsInv, AllDead
  <2>4. ThreadsInv'
    BY <1>1, <1>2, <1>3, <2>1, <2>3 DEF ControlInv, ThreadsInv, Alive
  <2>5. CallersInv'
    BY <1>1, <1>2, <1>3, <2>1 DEF ControlInv, CallersInv
  <2>6. SocketInv'
    BY <1>1, <1>2, <1>3, <2>1 DEF ControlInv, SocketInv
  <2>. QED  BY <2>4, <2>5, <2>6
<1>6. CASE Connect
  <2>1. /\ user = "connect" /\ down' = down
        /\ \/ scMain' = "open" /\ user' = "create" /\ starts' = starts + 1
           \/ setup.linkFails /\ scMain' = "invalid" /\ user' = "idle" /\ starts' = starts
    BY <1>6 DEF Connect
  <2>2. AllDead /\ AllDead'
    BY <1>1, <1>3, <2>1 DEF ControlInv, ThreadsInv
  <2>3. \A y \in Gens : down[y] = "no"
    BY <1>1, <2>2, WaitsForItself
  <2>4. user' = "create" => starts' \in Gens
    <3>1. starts < setup.starts
      BY <2>1 DEF TypeInv
    <3>. QED  BY <2>1, <3>1, ControlTypes DEF Gens
  <2>5. ThreadsInv'
    BY <1>1, <2>1, <2>2, <2>4 DEF ThreadsInv, AllDead
  <2>6. CallersInv'
    BY <1>1, <2>1, <2>2, <2>3 DEF ControlInv, CallersInv
  <2>7. SocketInv'
    BY <1>1, <1>2, <2>1 DEF ControlInv, SocketInv
  <2>. QED  BY <2>5, <2>6, <2>7
<1>. QED  BY <1>4, <1>5, <1>6

\* The threads of the new startup appear one after the other.
LEMMA CreateControl ==
  ASSUME TypeInv, ControlInv, CreateThreads \/ CreateFails \/ CreateHeartbeat \/ ResumeWaitfor
  PROVE  ControlInv'
<1>1. SUFFICES ASSUME Orderly PROVE (ThreadsInv /\ CallersInv /\ SocketInv)'
  BY DEF ControlInv, Orderly, CreateThreads, CreateFails, CreateHeartbeat, ResumeWaitfor
<1>2. ~CreateFails /\ setup.heartbeat /\ ~setup.threadsFail
  BY <1>1 DEF Orderly, CreateFails
<1>3. /\ user \in {"create", "beat", "resume"} /\ UNCHANGED <<setup, scMain, starts>> /\ down' = down
      /\ user' \in {"beat", "resume", "idle"} /\ starts \in Gens
      /\ down[User] = "no"
  BY <1>1, <1>2 DEF CreateThreads, CreateHeartbeat, ResumeWaitfor, ControlInv, ThreadsInv, CallersInv
<1>4. \A y \in Gens : down[y] = "no"
  <2>1. \A r \in Roles, g \in Gens : Alive(r, g) => g = starts
    BY <1>1 DEF ControlInv, ThreadsInv
  <2>2. ~Alive("waitfor", starts)
    BY <1>1, <1>3 DEF ControlInv, ThreadsInv, AllDead, Alive, Roles
  <2>3. \A y \in Gens : down[y] # "no" => Alive("waitfor", y) /\ y = starts
    BY <1>1 DEF ControlInv, CallersInv, Alive
  <2>. QED  BY <2>2, <2>3
<1>5. CallersInv'
  BY <1>1, <1>3, <1>4 DEF ControlInv, CallersInv
<1>6. \A r \in Roles, h \in Gens : h # starts => pc'[r][h] = pc[r][h]
  <2>1. CASE CreateThreads
    BY <2>1, ControlTypes DEF CreateThreads, PCs
  <2>2. CASE CreateHeartbeat
    BY <2>2, ControlTypes DEF CreateHeartbeat, Goto, PCs
  <2>3. CASE ResumeWaitfor
    BY <2>3, ControlTypes DEF ResumeWaitfor, Goto, PCs
  <2>. QED  BY <1>2, <2>1, <2>2, <2>3
<1>7. \A r \in Roles, h \in Gens : h # starts => ~Alive(r, h)'
  BY <1>1, <1>3, <1>6 DEF ControlInv, ThreadsInv, Alive
<1>8. CASE CreateThreads
  <2>1. user' = "beat" /\ pc'["waitfor"][starts] = "suspended"
    BY <1>3, <1>8, ControlTypes DEF CreateThreads, PCs
  <2>2. \A r \in Roles \ {"heartbeat"} : handle'[r] = "valid"
    BY <1>8 DEF CreateThreads
  <2>3. ThreadsInv'
    BY <1>3, <1>7, <2>1, <2>2 DEF ThreadsInv
  <2>. QED  BY <1>5, <1>3, <1>1, <2>1, <2>3 DEF ControlInv, SocketInv
<1>9. CASE CreateHeartbeat
  <2>1. /\ user = "beat" /\ user' = "resume" /\ handle' = [handle EXCEPT !["heartbeat"] = "valid"]
        /\ Goto("heartbeat", starts, "while")
    BY <1>2, <1>9 DEF CreateHeartbeat
  <2>2. pc'["waitfor"][starts] = "suspended"
    <3>1. pc["waitfor"][starts] = "suspended"
      BY <1>1, <2>1 DEF ControlInv, ThreadsInv
    <3>. QED  BY <1>3, <2>1, <3>1, ControlTypes DEF Goto, PCs
  <2>3. \A r \in Roles : handle'[r] = "valid"
    BY <1>1, <2>1, ControlTypes DEF ControlInv, ThreadsInv
  <2>4. ThreadsInv'
    BY <1>3, <1>7, <2>1, <2>2, <2>3 DEF ThreadsInv, Roles
  <2>. QED  BY <1>1, <1>3, <1>5, <2>1, <2>4 DEF ControlInv, SocketInv
<1>10. CASE ResumeWaitfor
  <2>1. user = "resume" /\ user' = "idle" /\ handle' = handle
    BY <1>10 DEF ResumeWaitfor
  <2>2. AllValid' /\ ~AllClosed'
    BY <1>1, <2>1 DEF ControlInv, ThreadsInv, AllValid, AllClosed, Roles
  <2>3. ThreadsInv'
    BY <1>3, <1>7, <2>1, <2>2 DEF ThreadsInv
  <2>4. SocketInv'
    BY <1>1, <1>3, <2>2 DEF ControlInv, SocketInv
  <2>. QED  BY <1>5, <2>3, <2>4
<1>. QED  BY <1>2, <1>8, <1>9, <1>10

LEMMA ControlStep == TypeInv /\ ControlInv /\ [Next]_vars => ControlInv'
<1>. SUFFICES ASSUME TypeInv, ControlInv, [Next]_vars PROVE ControlInv'
  OBVIOUS
<1>1. CASE UNCHANGED vars
  BY <1>1, ControlUnchanged DEF vars, threads, control
<1>2. ASSUME NEW x \in Commands, PushGTCmd(x) \/ Announce(x) PROVE ControlInv'
  BY <1>2, ControlUnchanged DEF PushGTCmd, Announce, threads, control
<1>. QED
  BY <1>1, <1>2, ThreadsControl, ShutdownControl, UserControl, CreateControl DEF Next, InStartup

LEMMA ControlInvariant == Spec => [](TypeInv /\ ControlInv)
<1>1. Init => TypeInv /\ ControlInv
  BY InitTypes, InitControl
<1>2. TypeInv /\ ControlInv /\ [Next]_vars => (TypeInv /\ ControlInv)'
  BY TypeStep, ControlStep
<1>. QED  BY <1>1, <1>2, PTL DEF Spec

\* shutdown of an orderly client closes the connection only when all of its
\* threads have ended (socket/socketclient.cpp:105).
THEOREM ClosesAfterThreads == Spec => []OrderlyClose
<1>1. ASSUME TypeInv, ControlInv PROVE OrderlyClose
  <2>1. SUFFICES ASSUME Orderly, NEW x \in Callers, down[x] = "close" PROVE AllDead
    BY DEF OrderlyClose, CloseAfterThreads, AllDead
  <2>2. x = User
    BY <1>1, <2>1, ControlTypes DEF ControlInv, CallersInv
  <2>. QED  BY <1>1, <2>1, <2>2 DEF ControlInv, CallersInv
<1>. QED  BY <1>1, ControlInvariant, PTL

\* Once an orderly client is shut down no thread of it runs and no connection is
\* open, and a restart never leaves two threads in the same role
\* (socket/socketclient.h:68).
THEOREM ShutMeansDown == Spec => []DownMeansDown
<1>1. ASSUME TypeInv, ControlInv PROVE DownMeansDown
  <2>1. SUFFICES ASSUME Orderly PROVE
          /\ user = "idle" /\ AllClosed => scMain # "open" /\ AllDead
          /\ \A r \in Roles : \A g, h \in Gens : Alive(r, g) /\ Alive(r, h) => g = h
    BY DEF DownMeansDown, AllDead, AllClosed
  <2>2. AllClosed => ~AllValid
    BY DEF AllClosed, AllValid, Roles
  <2>. QED  BY <1>1, <2>1, <2>2 DEF ControlInv, ThreadsInv, SocketInv
<1>. QED  BY <1>1, ControlInvariant, PTL
-----------------------------------------------------------------------------
(* What is in a queue but heartbeats.                                      *)

\* Induction over the numbers, for a set of them: with a number n that is not
\* in S, k - 1 would be an injection of the numbers up to n that are not in S
\* into themselves that misses n.
LEMMA SetInduction ==
  ASSUME NEW S, 0 \in S, \A n \in Nat : n \in S => n + 1 \in S
  PROVE  \A n \in Nat : n \in S
<1>1. SUFFICES ASSUME NEW n \in Nat, n \notin S PROVE FALSE
  OBVIOUS
<1> DEFINE A == {k \in 0..n : k \notin S}
           f == [k \in A |-> k - 1]
<1>2. \A k \in A : k \in Nat /\ k <= n /\ k - 1 \in A /\ k \notin S
  <2>1. TAKE k \in A
  <2>2. k \in Nat /\ k <= n /\ k \notin S
    OBVIOUS
  <2>3. k - 1 \in Nat /\ (k - 1) + 1 = k
    BY <2>2
  <2>4. k - 1 \notin S
    BY <2>2, <2>3
  <2>. QED  BY <2>2, <2>3, <2>4
<1>3. n \in A /\ IsFiniteSet(A)
  <2>1. IsFiniteSet(0..n) /\ A \in SUBSET (0..n)
    BY FS_Interval
  <2>. QED  BY <1>1, <2>1, FS_Subset
<1>4. f \in [A -> A] /\ \A k \in A : f[k] = k - 1
  BY <1>2
<1>. HIDE DEF A, f
<1>5. f \in Injection(A, A)
  BY <1>2, <1>4 DEF Injection, IsInjective
<1>6. f \in Surjection(A, A)
  BY <1>3, <1>5, FS_Injection
<1>7. PICK k \in A : f[k] = n
  BY <1>3, <1>6 DEF Surjection
<1>. QED  BY <1>2, <1>4, <1>7

\* One step of RealUpTo.
RealAt(s, f, n) ==
  IF n = 0 THEN <<>> ELSE IF IsBeat(s[n]) THEN f[n - 1] ELSE Append(f[n - 1], s[n])

LEMMA RealExists ==
  ASSUME NEW s \in Seq(Items)
  PROVE  \E f : f = [n \in 0..Len(s) |-> RealAt(s, f, n)]
<1> DEFINE Good(f, m) == \A n \in 0..m : f[n] = RealAt(s, f, n)
           Exists(m) == \E f \in [0..m -> Seq(Items)] : Good(f, m)
           S == {m \in Nat : m <= Len(s) => Exists(m)}
<1>1. Len(s) \in Nat /\ <<>> \in Seq(Items)
  BY LenProperties, EmptySeq
<1>2. Exists(0)
  <2> DEFINE f == [n \in 0..0 |-> <<>>]
  <2>1. f \in [0..0 -> Seq(Items)]
    BY <1>1
  <2>2. Good(f, 0)
    BY DEF RealAt
  <2>. QED  BY <2>1, <2>2
<1>3. ASSUME NEW m \in Nat, m + 1 <= Len(s), Exists(m) PROVE Exists(m + 1)
  <2>2. PICK g \in [0..m -> Seq(Items)] : Good(g, m)
    BY <1>3
  <2> DEFINE f == [n \in 0..m+1 |-> IF n <= m THEN g[n] ELSE RealAt(s, g, m + 1)]
  <2>3. s[m + 1] \in Items /\ g[m] \in Seq(Items) /\ m + 1 # 0 /\ (m + 1) - 1 = m
    BY <1>1, <1>3, ElementOfSeq
  <2>4. RealAt(s, g, m + 1) \in Seq(Items)
    BY <2>3, AppendProperties DEF RealAt
  <2>5. f \in [0..m+1 -> Seq(Items)]
    BY <2>4
  <2>6. \A n \in 0..m : f[n] = g[n] /\ (n # 0 => f[n - 1] = g[n - 1])
    OBVIOUS
  <2>7. f[m + 1] = RealAt(s, g, m + 1) /\ f[m] = g[m]
    OBVIOUS
  <2>. HIDE DEF f
  <2>8. \A n \in 0..m : f[n] = RealAt(s, f, n)
    BY <2>2, <2>6 DEF RealAt
  <2>9. f[m + 1] = RealAt(s, f, m + 1)
    BY <2>3, <2>7 DEF RealAt
  <2>10. Good(f, m + 1)
    BY <2>8, <2>9
  <2>. QED  BY <2>5, <2>10
<1>4. \A m \in Nat : m \in S
  <2>. HIDE DEF Exists
  <2>1. 0 \in S /\ \A m \in Nat : m \in S => m + 1 \in S
    BY <1>1, <1>2, <1>3
  <2>. HIDE DEF S
  <2>. QED  BY <2>1, SetInduction
<1>5. PICK f \in [0..Len(s) -> Seq(Items)] : Good(f, Len(s))
  <2>1. Exists(Len(s))
    <3>. HIDE DEF Exists
    <3>. QED  BY <1>1, <1>4
  <2>. QED  BY <2>1
<1>6. f = [n \in 0..Len(s) |-> RealAt(s, f, n)]
  BY <1>5
<1>. QED  BY <1>6

\* RealUpTo(s) is what its definition says.
LEMMA RealUnfold ==
  ASSUME NEW s \in Seq(Items)
  PROVE  \A n \in 0..Len(s) : RealUpTo(s)[n] = RealAt(s, RealUpTo(s), n)
<1> DEFINE R == CHOOSE f : f = [n \in 0..Len(s) |-> RealAt(s, f, n)]
<1>1. R = [n \in 0..Len(s) |-> RealAt(s, R, n)]
  BY RealExists
<1>2. RealUpTo(s) = R
  BY DEF RealUpTo, RealAt
<1>. HIDE DEF R
<1>. QED  BY <1>1, <1>2

LEMMA RealType ==
  ASSUME NEW s \in Seq(Items)
  PROVE  \A n \in 0..Len(s) : RealUpTo(s)[n] \in Seq(Items)
<1> DEFINE S == {n \in Nat : n <= Len(s) => RealUpTo(s)[n] \in Seq(Items)}
<1>1. Len(s) \in Nat /\ <<>> \in Seq(Items)
  BY LenProperties, EmptySeq
<1>2. 0 \in S
  <2>1. 0 \in 0..Len(s)
    BY <1>1
  <2>2. RealUpTo(s)[0] = <<>>
    BY <2>1, RealUnfold DEF RealAt
  <2>. QED  BY <1>1, <2>2
<1>3. ASSUME NEW n \in Nat, n \in S PROVE n + 1 \in S
  <2>1. SUFFICES ASSUME n + 1 <= Len(s) PROVE RealUpTo(s)[n + 1] \in Seq(Items)
    OBVIOUS
  <2>2. RealUpTo(s)[n] \in Seq(Items) /\ s[n + 1] \in Items /\ n + 1 \in 0..Len(s)
    BY <1>1, <1>3, <2>1, ElementOfSeq
  <2>3. RealUpTo(s)[n + 1] = IF IsBeat(s[n + 1]) THEN RealUpTo(s)[n] ELSE Append(RealUpTo(s)[n], s[n + 1])
    BY <2>2, RealUnfold DEF RealAt
  <2>. QED  BY <2>2, <2>3, AppendProperties
<1>. HIDE DEF S
<1>4. \A n \in Nat : n \in S
  BY <1>2, <1>3, SetInduction
<1>. QED  BY <1>1, <1>4 DEF S

NoBeats(s) == RealUpTo(s)[Len(s)]

LEMMA NoBeatsType == ASSUME NEW s \in Seq(Items) PROVE NoBeats(s) \in Seq(Items)
<1>1. Len(s) \in 0..Len(s)
  BY LenProperties
<1>. QED  BY <1>1, RealType DEF NoBeats

\* The heartbeats of two queues, one behind the other, can be left out of each.
LEMMA RealPrefix ==
  ASSUME NEW s \in Seq(Items), NEW t \in Seq(Items)
  PROVE  \A n \in 0..Len(s) : RealUpTo(s \o t)[n] = RealUpTo(s)[n]
<1> DEFINE S == {n \in Nat : n <= Len(s) => RealUpTo(s \o t)[n] = RealUpTo(s)[n]}
<1>1. /\ Len(s) \in Nat /\ Len(t) \in Nat /\ s \o t \in Seq(Items) /\ Len(s \o t) = Len(s) + Len(t)
      /\ \A n \in 1..Len(s) : (s \o t)[n] = s[n]
  BY LenProperties, ConcatProperties
<1>2. 0 \in S
  <2>1. 0 \in 0..Len(s) /\ 0 \in 0..Len(s \o t)
    BY <1>1
  <2>. QED  BY <1>1, <2>1, RealUnfold DEF RealAt
<1>3. ASSUME NEW n \in Nat, n \in S PROVE n + 1 \in S
  <2>1. SUFFICES ASSUME n + 1 <= Len(s) PROVE RealUpTo(s \o t)[n + 1] = RealUpTo(s)[n + 1]
    OBVIOUS
  <2>2. /\ n + 1 \in 0..Len(s) /\ n + 1 \in 0..Len(s \o t) /\ (s \o t)[n + 1] = s[n + 1]
        /\ RealUpTo(s \o t)[n] = RealUpTo(s)[n] /\ n + 1 # 0 /\ (n + 1) - 1 = n
    BY <1>1, <1>3, <2>1
  <2>3. RealUpTo(s)[n + 1] = RealAt(s, RealUpTo(s), n + 1)
    BY <2>2, RealUnfold
  <2>4. RealUpTo(s \o t)[n + 1] = RealAt(s \o t, RealUpTo(s \o t), n + 1)
    BY <1>1, <2>2, RealUnfold
  <2>. QED  BY <2>2, <2>3, <2>4 DEF RealAt
<1>. HIDE DEF S
<1>4. \A n \in Nat : n \in S
  BY <1>2, <1>3, SetInduction
<1>. QED  BY <1>1, <1>4 DEF S

LEMMA NoBeatsConcat ==
  ASSUME NEW s \in Seq(Items), NEW t \in Seq(Items)
  PROVE  NoBeats(s \o t) = NoBeats(s) \o NoBeats(t)
<1> DEFINE S == {n \in Nat : n <= Len(t) =>
                               RealUpTo(s \o t)[Len(s) + n] = NoBeats(s) \o RealUpTo(t)[n]}
<1>1. /\ Len(s) \in Nat /\ Len(t) \in Nat /\ s \o t \in Seq(Items) /\ Len(s \o t) = Len(s) + Len(t)
      /\ \A n \in 1..Len(s) + Len(t) : (s \o t)[n] = IF n <= Len(s) THEN s[n] ELSE t[n - Len(s)]
      /\ NoBeats(s) \in Seq(Items)
  BY LenProperties, ConcatProperties, NoBeatsType
<1>2. 0 \in S
  <2>1. RealUpTo(s \o t)[Len(s)] = NoBeats(s)
    BY <1>1, RealPrefix DEF NoBeats
  <2>2. 0 \in 0..Len(t)
    BY <1>1
  <2>3. RealUpTo(t)[0] = <<>>
    BY <2>2, RealUnfold DEF RealAt
  <2>. QED  BY <1>1, <2>1, <2>3, ConcatEmptySeq
<1>3. ASSUME NEW n \in Nat, n \in S PROVE n + 1 \in S
  <2>1. SUFFICES ASSUME n + 1 <= Len(t)
                 PROVE  RealUpTo(s \o t)[Len(s) + (n + 1)] = NoBeats(s) \o RealUpTo(t)[n + 1]
    OBVIOUS
  <2> DEFINE m == Len(s) + (n + 1)
  <2>2. /\ m \in 0..Len(s \o t) /\ m \in 1..Len(s) + Len(t) /\ m # 0 /\ m - 1 = Len(s) + n
        /\ ~(m <= Len(s)) /\ m - Len(s) = n + 1
        /\ n + 1 \in 0..Len(t) /\ n + 1 \in 1..Len(t) /\ n \in 0..Len(t) /\ n + 1 # 0 /\ (n + 1) - 1 = n
    BY <1>1, <2>1
  <2>3. RealUpTo(s \o t)[m - 1] = NoBeats(s) \o RealUpTo(t)[n]
    BY <1>3, <2>2
  <2>. HIDE DEF m
  <2>4. /\ (s \o t)[m] = t[n + 1] /\ t[n + 1] \in Items
        /\ RealUpTo(t)[n] \in Seq(Items)
    BY <1>1, <2>2, ElementOfSeq, RealType
  <2>5. RealUpTo(t)[n + 1] = IF IsBeat(t[n + 1]) THEN RealUpTo(t)[n] ELSE Append(RealUpTo(t)[n], t[n + 1])
    BY <2>2, RealUnfold DEF RealAt
  <2>6. RealUpTo(s \o t)[m] =
          IF IsBeat(t[n + 1]) THEN RealUpTo(s \o t)[m - 1] ELSE Append(RealUpTo(s \o t)[m - 1], t[n + 1])
    BY <1>1, <2>2, <2>4, RealUnfold DEF RealAt
  <2>7. Append(NoBeats(s) \o RealUpTo(t)[n], t[n + 1]) = NoBeats(s) \o Append(RealUpTo(t)[n], t[n + 1])
    <3> DEFINE u == RealUpTo(t)[n]
               x == t[n + 1]
               a == NoBeats(s)
    <3>1. u \in Seq(Items) /\ x \in Items /\ a \in Seq(Items)
      BY <1>1, <2>4
    <3>. HIDE DEF u, x, a
    <3>2. <<x>> \in Seq(Items) /\ a \o u \in Seq(Items)
      BY <3>1, ConcatProperties
    <3>3. Append(a \o u, x) = (a \o u) \o <<x>> /\ Append(u, x) = u \o <<x>>
      BY <3>1, <3>2, AppendIsConcat
    <3>4. (a \o u) \o <<x>> = a \o (u \o <<x>>)
      BY <3>1, <3>2, ConcatAssociative
    <3>5. Append(a \o u, x) = a \o Append(u, x)
      BY <3>3, <3>4
    <3>. QED  BY <3>5 DEF u, x, a
  <2>. QED  BY <2>3, <2>5, <2>6, <2>7 DEF m
<1>. HIDE DEF S
<1>4. \A n \in Nat : n \in S
  BY <1>2, <1>3, SetInduction
<1>5. RealUpTo(s \o t)[Len(s) + Len(t)] = NoBeats(s) \o RealUpTo(t)[Len(t)]
  <2>1. Len(t) \in S /\ Len(t) <= Len(t)
    BY <1>1, <1>4
  <2>. QED  BY <2>1 DEF S
<1>. QED  BY <1>1, <1>5 DEF NoBeats
-----------------------------------------------------------------------------
(* What was put into a queue is kept, once and in order.                   *)

\* A cache thread has something in hand only where it deals with it, and the
\* sender has one thing in hand.
HandsInv ==
  \A c \in Caches, g \in Gens :
    /\ held[c][g] # <<>> => pc[c][g] = "handle"
    /\ c = "sender" => Len(held[c][g]) <= 1

\* What was pushed was pushed once: commands, and data with running numbers.
PushedInv ==
  /\ \A i \in DOMAIN pushed["sender"] :
       pushed["sender"][i] \in Commands /\ pushing[pushed["sender"][i]] # "new"
  /\ \A i \in DOMAIN pushed["recver"] : pushed["recver"][i] = i

IsReal(c, x) == c = "sender" => ~IsBeat(x)

\* A command or a piece of data is nowhere before it is pushed, and then in one
\* place.
PlacesInv ==
  \A c \in Caches : \A x \in Items :
    IsReal(c, x) =>
      /\ x \in ToSet(pushed[c]) => \E w \in Where(c, x) : Where(c, x) = {w}
      /\ x \notin ToSet(pushed[c]) => Where(c, x) = {}

OnceInv == HandsInv /\ PushedInv /\ PlacesInv

\* A startup that has no cache threads yet.
FreshInv ==
  \A c \in Caches, g \in Gens :
    (g > starts) \/ (g = starts /\ user = "create") => pc[c][g] = "none"

LEMMA PositionsConcat ==
  ASSUME NEW s \in Seq(Items), NEW t \in Seq(Items), NEW x
  PROVE  \A i : i \in Positions(x, s \o t) <=>
                  (i \in Positions(x, s)) \/ (\E k \in Positions(x, t) : i = Len(s) + k)
<1>1. /\ Len(s) \in Nat /\ Len(t) \in Nat
      /\ DOMAIN s = 1..Len(s) /\ DOMAIN t = 1..Len(t) /\ DOMAIN (s \o t) = 1..Len(s) + Len(t)
      /\ \A n \in 1..Len(s) + Len(t) : (s \o t)[n] = IF n <= Len(s) THEN s[n] ELSE t[n - Len(s)]
  BY LenProperties, ConcatProperties
<1>2. ASSUME NEW i, i \in Positions(x, s \o t)
      PROVE  (i \in Positions(x, s)) \/ (\E k \in Positions(x, t) : i = Len(s) + k)
  <2>1. i \in 1..Len(s) + Len(t) /\ (s \o t)[i] = x
    BY <1>1, <1>2 DEF Positions
  <2>2. CASE i <= Len(s)
    BY <1>1, <2>1, <2>2 DEF Positions
  <2>3. CASE ~(i <= Len(s))
    <3>1. i - Len(s) \in 1..Len(t) /\ t[i - Len(s)] = x /\ i = Len(s) + (i - Len(s))
      BY <1>1, <2>1, <2>3
    <3>. QED  BY <1>1, <3>1 DEF Positions
  <2>. QED  BY <2>2, <2>3
<1>3. ASSUME NEW i \in Positions(x, s) PROVE i \in Positions(x, s \o t)
  BY <1>1, <1>3 DEF Positions
<1>4. ASSUME NEW k \in Positions(x, t) PROVE Len(s) + k \in Positions(x, s \o t)
  <2>1. /\ Len(s) + k \in 1..Len(s) + Len(t) /\ ~(Len(s) + k <= Len(s)) /\ (Len(s) + k) - Len(s) = k
        /\ t[k] = x
    BY <1>1, <1>4 DEF Positions
  <2>. QED  BY <1>1, <2>1 DEF Positions
<1>. QED  BY <1>2, <1>3, <1>4

LEMMA PositionsOne ==
  ASSUME NEW x, NEW y
  PROVE  Positions(x, <<>>) = {} /\ Positions(x, <<y>>) = IF x = y THEN {1} ELSE {}
BY DEF Positions

LEMMA PositionsAppend ==
  ASSUME NEW s \in Seq(Items), NEW x \in Items, NEW y
  PROVE  /\ y # x => Positions(y, Append(s, x)) = Positions(y, s)
         /\ \A i : i \in Positions(x, Append(s, x)) <=> (i \in Positions(x, s)) \/ i = Len(s) + 1
<1> DEFINE t == <<x>>
<1>1. Append(s, x) = s \o t /\ t \in Seq(Items)
  BY AppendIsConcat
<1>2. Positions(x, t) = {1} /\ (y # x => Positions(y, t) = {})
  BY PositionsOne
<1>. HIDE DEF t
<1>3. \A i : i \in Positions(x, s \o t) <=> (i \in Positions(x, s)) \/ (\E k \in Positions(x, t) : i = Len(s) + k)
  BY <1>1, PositionsConcat
<1>4. \A i : i \in Positions(y, s \o t) <=> (i \in Positions(y, s)) \/ (\E k \in Positions(y, t) : i = Len(s) + k)
  BY <1>1, PositionsConcat
<1>5. y # x => Positions(y, s \o t) = Positions(y, s)
  BY <1>2, <1>4
<1>6. \A i : i \in Positions(x, s \o t) <=> (i \in Positions(x, s)) \/ i = Len(s) + 1
  BY <1>2, <1>3
<1>. QED  BY <1>1, <1>5, <1>6

LEMMA PositionsNat ==
  ASSUME NEW s \in Seq(Items), NEW x, NEW i \in Positions(x, s)
  PROVE  i \in 1..Len(s) /\ s[i] = x /\ i \in Nat /\ Len(s) \in Nat
BY LenProperties DEF Positions

\* Where(c, x), of what is dealt with, queued and held.
Spots(x, hd, q, hl) ==
  {<<"handled", 0, i>> : i \in Positions(x, hd)}
    \cup {<<"queue", 0, i>> : i \in Positions(x, q)}
    \cup UNION {{<<"held", g, i>> : i \in Positions(x, hl[g])} : g \in Gens}

LEMMA SpotsAt ==
  ASSUME NEW x, NEW hd, NEW q, NEW hl, NEW w
  PROVE  w \in Spots(x, hd, q, hl) <=>
           \/ \E i \in Positions(x, hd) : w = <<"handled", 0, i>>
           \/ \E i \in Positions(x, q) : w = <<"queue", 0, i>>
           \/ \E g \in Gens : \E i \in Positions(x, hl[g]) : w = <<"held", g, i>>
BY DEF Spots

LEMMA WhereSpots ==
  ASSUME NEW c, NEW x
  PROVE  /\ Where(c, x) = Spots(x, handled[c], queue[c], held[c])
         /\ Where(c, x)' = Spots(x, handled'[c], queue'[c], held'[c])
BY DEF Where, Spots

LEMMA OnceTypes ==
  ASSUME TypeInv
  PROVE  /\ queue \in [Caches -> Seq(Items)] /\ handled \in [Caches -> Seq(Items)]
         /\ pushed \in [Caches -> Seq(Items)] /\ held \in [Caches -> [Gens -> Seq(Items)]]
         /\ \A c \in Caches : ToSet(pushed[c]) \subseteq Items
<1>1. /\ queue \in [Caches -> Seq(Items)] /\ handled \in [Caches -> Seq(Items)]
      /\ pushed \in [Caches -> Seq(Items)] /\ held \in [Caches -> [Gens -> Seq(Items)]]
  BY DEF TypeInv, TypeOK, Items
<1>2. \A c \in Caches : \A i \in DOMAIN pushed[c] : pushed[c][i] \in Items
  BY <1>1, ElementOfSeq, LenProperties
<1>. QED  BY <1>1, <1>2 DEF ToSet

\* What is appended is in the sequence, with what was there.
LEMMA AppendSet ==
  ASSUME NEW s \in Seq(Items), NEW x \in Items
  PROVE  /\ ToSet(Append(s, x)) = ToSet(s) \cup {x}
         /\ \A i \in DOMAIN Append(s, x) :
              \/ i \in DOMAIN s /\ Append(s, x)[i] = s[i]
              \/ i = Len(s) + 1 /\ Append(s, x)[i] = x
<1>1. /\ Len(s) \in Nat /\ DOMAIN s = 1..Len(s) /\ DOMAIN Append(s, x) = 1..Len(s) + 1
      /\ \A i \in 1..Len(s) : Append(s, x)[i] = s[i]
      /\ Append(s, x)[Len(s) + 1] = x
  BY LenProperties, AppendProperties
<1>2. \A i \in 1..Len(s) + 1 : i \in 1..Len(s) \/ i = Len(s) + 1
  BY <1>1
<1>3. 1..Len(s) \subseteq 1..Len(s) + 1 /\ Len(s) + 1 \in 1..Len(s) + 1
  BY <1>1
<1>. QED  BY <1>1, <1>2, <1>3 DEF ToSet

LEMMA OnceKept ==
  ASSUME TypeInv, OnceInv, UNCHANGED <<queue, held, pushed, handled>>,
         \A x \in Commands : pushing[x] # "new" => pushing'[x] # "new",
         \A c \in Caches, g \in Gens : pc[c][g] = "handle" => pc'[c][g] = "handle"
  PROVE  OnceInv'
<1>1. HandsInv'
  BY DEF OnceInv, HandsInv
<1>2. PushedInv'
  BY DEF OnceInv, PushedInv
<1>3. PlacesInv'
  BY DEF OnceInv, PlacesInv, Where, IsReal
<1>. QED  BY <1>1, <1>2, <1>3 DEF OnceInv

\* Something is pushed that was not pushed before, or a heartbeat.
LEMMA PushPlaces ==
  ASSUME TypeInv, PlacesInv, NEW c \in Caches, NEW x \in Items, Push(c, x), UNCHANGED <<held, handled>>,
         IsReal(c, x) => x \notin ToSet(pushed[c])
  PROVE  PlacesInv'
<1>1. SUFFICES ASSUME NEW d \in Caches, NEW y \in Items, IsReal(d, y)
               PROVE  /\ y \in ToSet(pushed'[d]) => \E w : Where(d, y)' = {w}
                      /\ y \notin ToSet(pushed'[d]) => Where(d, y)' = {}
  <2>1. \A d \in Caches : \A y : (\E w : Where(d, y)' = {w}) => \E w \in Where(d, y)' : Where(d, y)' = {w}
    OBVIOUS
  <2>. QED  BY <1>1, <2>1 DEF PlacesInv, IsReal
<1>2. /\ y \in ToSet(pushed[d]) => \E w : Where(d, y) = {w}
      /\ y \notin ToSet(pushed[d]) => Where(d, y) = {}
  BY <1>1 DEF PlacesInv
<1>3. CASE d # c
  <2>1. queue'[d] = queue[d] /\ pushed'[d] = pushed[d]
    BY <1>3, OnceTypes DEF Push
  <2>. QED  BY <1>2, <2>1 DEF Where
<1>4. CASE d = c /\ ~IsReal(c, x)
  <2>1. pushed'[c] = pushed[c] /\ queue'[c] \in {queue[c], Append(queue[c], x)} /\ x # y
    BY <1>1, <1>4, OnceTypes DEF Push, IsReal
  <2>2. queue[c] \in Seq(Items)
    BY OnceTypes
  <2>3. Positions(y, Append(queue[c], x)) = Positions(y, queue[c])
    BY <2>1, <2>2, PositionsAppend
  <2>4. Positions(y, queue'[c]) = Positions(y, queue[c])
    BY <2>1, <2>3
  <2>5. Where(d, y)' = Where(d, y)
    BY <1>4, <2>4 DEF Where
  <2>. QED  BY <1>2, <1>4, <2>1, <2>5
<1>5. CASE d = c /\ IsReal(c, x)
  <2>1. pushed'[c] = Append(pushed[c], x) /\ queue'[c] = Append(queue[c], x)
    BY <1>5, OnceTypes DEF Push, IsReal
  <2>2. queue[c] \in Seq(Items)
    BY OnceTypes
  <2>3. ToSet(pushed'[c]) = ToSet(pushed[c]) \cup {x}
    BY <2>1, OnceTypes, AppendSet
  <2>4. CASE y # x
    <3>2. Positions(y, queue'[c]) = Positions(y, queue[c])
      BY <2>1, <2>2, <2>4, PositionsAppend
    <3>3. Where(d, y)' = Where(d, y)
      BY <1>5, <3>2 DEF Where
    <3>. QED  BY <1>2, <1>5, <2>3, <2>4, <3>3
  <2>5. CASE y = x
    <3>1. Where(c, x) = {}
      BY <1>2, <1>5, <2>5
    <3>3. \A i : i \in Positions(x, queue'[c]) <=> (i \in Positions(x, queue[c])) \/ i = Len(queue[c]) + 1
      BY <2>1, <2>2, PositionsAppend
    <3>4. \A w : w \in Where(c, x)' <=> (w \in Where(c, x)) \/ w = <<"queue", 0, Len(queue[c]) + 1>>
      BY <3>3, SpotsAt, WhereSpots
    <3>5. Where(c, x)' = {<<"queue", 0, Len(queue[c]) + 1>>}
      BY <3>1, <3>4
    <3>. QED  BY <1>5, <2>3, <2>5, <3>5
  <2>. QED  BY <2>4, <2>5
<1>. QED  BY <1>3, <1>4, <1>5

\* What a cache thread takes comes before what it leaves.
LEMMA TakeConcat ==
  ASSUME TypeInv, NEW c \in Caches
  PROVE  /\ Batch(c) \in Seq(Items) /\ Rest(c) \in Seq(Items) /\ queue[c] = Batch(c) \o Rest(c)
         /\ c = "sender" => Len(Batch(c)) <= 1
<1>1. Batch(c) \in Seq(Items) /\ Rest(c) \in Seq(Items) /\ queue[c] \in Seq(Items)
  BY TakeProperties, OnceTypes DEF TypeInv
<1>2. CASE c = "recver" \/ queue[c] = <<>>
  <2>1. Batch(c) = queue[c] /\ Rest(c) = <<>> /\ (c = "sender" => Len(queue[c]) = 0)
    BY <1>2 DEF Batch, Rest
  <2>. QED  BY <1>1, <2>1, ConcatEmptySeq
<1>3. CASE ~(c = "recver" \/ queue[c] = <<>>)
  <2>1. Batch(c) = <<Head(queue[c])>> /\ Rest(c) = Tail(queue[c]) /\ Len(<<Head(queue[c])>>) = 1
    BY <1>3 DEF Batch, Rest
  <2>2. queue[c] = <<Head(queue[c])>> \o Tail(queue[c])
    <3> DEFINE q == queue[c]
               p == <<Head(q)>>
               u == Tail(q)
    <3>1. /\ q \in Seq(Items) /\ q # <<>> /\ p \in Seq(Items) /\ u \in Seq(Items) /\ p[1] = q[1] /\ Len(p) = 1
          /\ Len(q) \in Nat /\ Len(u) = Len(q) - 1 /\ \A i \in 1..Len(u) : u[i] = q[i + 1]
      BY <1>1, <1>3, HeadTailProperties, LenProperties
    <3>. HIDE DEF q, p, u
    <3> DEFINE n == Len(p) + Len(u)
    <3>5. /\ p \o u \in Seq(Items) /\ Len(p \o u) = n
          /\ \A i \in 1..n : (p \o u)[i] = IF i <= Len(p) THEN p[i] ELSE u[i - Len(p)]
      <4>1. p \in Seq(Items) /\ u \in Seq(Items)
        BY <3>1
      <4>. QED  BY ONLY <4>1, ConcatProperties
    <3>6. n = Len(q)
      BY <3>1
    <3>2. /\ p \o u \in Seq(Items) /\ Len(p \o u) = Len(q)
          /\ \A i \in 1..Len(q) : (p \o u)[i] = IF i <= 1 THEN p[i] ELSE u[i - 1]
      <4>. HIDE DEF n
      <4>. QED  BY <3>1, <3>5, <3>6
    <3>3. \A i \in 1..Len(q) : (p \o u)[i] = q[i]
      BY <3>1, <3>2
    <3>4. q = p \o u
      BY <3>1, <3>2, <3>3, SeqEqual
    <3>. QED  BY <3>4 DEF q, p, u
  <2>. QED  BY <1>1, <2>1, <2>2
<1>. QED  BY <1>2, <1>3

LEMMA PositionsConcatNat ==
  ASSUME NEW s \in Seq(Items), NEW t \in Seq(Items), NEW x
  PROVE  /\ Len(s) \in Nat
         /\ \A i \in Positions(x, s) : i \in Positions(x, s \o t) /\ i <= Len(s)
         /\ \A k \in Positions(x, t) : /\ Len(s) + k \in Positions(x, s \o t) /\ ~(Len(s) + k <= Len(s))
                                       /\ (Len(s) + k) - Len(s) = k
         /\ \A i \in Positions(x, s \o t) :
              \/ i \in Positions(x, s) /\ i <= Len(s)
              \/ i - Len(s) \in Positions(x, t) /\ ~(i <= Len(s)) /\ i = Len(s) + (i - Len(s))
<1>1. \A i : i \in Positions(x, s \o t) <=>
               (i \in Positions(x, s)) \/ (\E k \in Positions(x, t) : i = Len(s) + k)
  BY PositionsConcat
<1>2. Len(s) \in Nat /\ \A i \in Positions(x, s) : i <= Len(s)
  BY PositionsNat, LenProperties
<1>3. \A k \in Positions(x, t) : k \in Nat /\ k >= 1
  BY PositionsNat, LenProperties
<1>4. \A k \in Positions(x, t) : ~(Len(s) + k <= Len(s)) /\ (Len(s) + k) - Len(s) = k
  BY <1>2, <1>3
<1>. QED  BY <1>1, <1>2, <1>4

\* A cache thread takes what is first in the queue.
LEMMA TakePlaces ==
  ASSUME TypeInv, PlacesInv, NEW c \in Caches, NEW g \in Gens, held[c][g] = <<>>,
         held' = [held EXCEPT ![c][g] = Batch(c)], queue' = [queue EXCEPT ![c] = Rest(c)],
         UNCHANGED <<pushed, handled>>
  PROVE  PlacesInv'
<1>1. SUFFICES ASSUME NEW d \in Caches, NEW x \in Items, IsReal(d, x)
               PROVE  /\ (\E w : Where(d, x) = {w}) => (\E w : Where(d, x)' = {w})
                      /\ Where(d, x) = {} => Where(d, x)' = {}
  <2>1. \A d \in Caches : \A x : (\E w : Where(d, x)' = {w}) => \E w \in Where(d, x)' : Where(d, x)' = {w}
    OBVIOUS
  <2>. QED  BY <1>1, <2>1 DEF PlacesInv, IsReal
<1>2. CASE d # c
  <2>1. queue'[d] = queue[d] /\ held'[d] = held[d]
    BY <1>2, OnceTypes
  <2>2. Where(d, x)' = Where(d, x)
    BY <2>1 DEF Where
  <2>. QED  BY <2>2
<1>3. CASE d = c
  <2> DEFINE q == queue[c]
             s == Batch(c)
             t == Rest(c)
             h == handled[c]
             f == [w \in Where(c, x) |->
                     IF w[1] # "queue" THEN w
                     ELSE IF w[3] <= Len(s) THEN <<"held", g, w[3]>> ELSE <<"queue", 0, w[3] - Len(s)>>]
  <2>1. /\ s \in Seq(Items) /\ t \in Seq(Items) /\ q = s \o t
        /\ queue'[c] = t /\ handled'[c] = h /\ held'[c][g] = s
        /\ \A k \in Gens \ {g} : held'[c][k] = held[c][k]
    BY TakeConcat, OnceTypes
  <2>2. Positions(x, held[c][g]) = {}
    BY PositionsOne
  <2>3. \A w : w \in Where(c, x) <=>
          \/ \E i \in Positions(x, h) : w = <<"handled", 0, i>>
          \/ \E i \in Positions(x, q) : w = <<"queue", 0, i>>
          \/ \E k \in Gens \ {g} : \E i \in Positions(x, held[c][k]) : w = <<"held", k, i>>
    BY <2>2, SpotsAt, WhereSpots
  <2>4. \A w : w \in Where(c, x)' <=>
          \/ \E i \in Positions(x, h) : w = <<"handled", 0, i>>
          \/ \E i \in Positions(x, t) : w = <<"queue", 0, i>>
          \/ \E i \in Positions(x, s) : w = <<"held", g, i>>
          \/ \E k \in Gens \ {g} : \E i \in Positions(x, held[c][k]) : w = <<"held", k, i>>
    <3>1. Where(c, x)' = Spots(x, h, t, held'[c])
      BY <2>1, WhereSpots
    <3>2. \A w : w \in Where(c, x)' <=>
          \/ \E i \in Positions(x, h) : w = <<"handled", 0, i>>
          \/ \E i \in Positions(x, t) : w = <<"queue", 0, i>>
          \/ \E k \in Gens : \E i \in Positions(x, held'[c][k]) : w = <<"held", k, i>>
      BY <3>1 DEF Spots
    <3>. QED  BY <2>1, <3>2
  <2>5. /\ Len(s) \in Nat
        /\ \A i \in Positions(x, s) : i \in Positions(x, q) /\ i <= Len(s)
        /\ \A k \in Positions(x, t) : /\ Len(s) + k \in Positions(x, q) /\ ~(Len(s) + k <= Len(s))
                                      /\ (Len(s) + k) - Len(s) = k
        /\ \A i \in Positions(x, q) :
             \/ i \in Positions(x, s) /\ i <= Len(s)
             \/ i - Len(s) \in Positions(x, t) /\ ~(i <= Len(s))
    BY <2>1, PositionsConcatNat
  <2>. HIDE DEF q, s, t, h
  <2>6. \A w \in Where(c, x) : f[w] \in Where(c, x)'
    <3>1. TAKE w \in Where(c, x)
    <3>2. CASE \E i \in Positions(x, q) : w = <<"queue", 0, i>>
      <4>1. PICK i \in Positions(x, q) : w = <<"queue", 0, i>>
        BY <3>2
      <4>2. f[w] = IF i <= Len(s) THEN <<"held", g, i>> ELSE <<"queue", 0, i - Len(s)>>
        BY <4>1
      <4>. QED  BY <2>4, <2>5, <4>2
    <3>3. CASE \/ \E i \in Positions(x, h) : w = <<"handled", 0, i>>
               \/ \E k \in Gens \ {g} : \E i \in Positions(x, held[c][k]) : w = <<"held", k, i>>
      <4>1. w[1] # "queue"
        BY <3>3
      <4>2. f[w] = w
        BY <4>1
      <4>. QED  BY <2>4, <3>3, <4>2
    <3>. QED  BY <2>3, <3>2, <3>3
  <2>7. \A w \in Where(c, x)' : \E v \in Where(c, x) : w = f[v]
    <3>1. TAKE w \in Where(c, x)'
    <3>2. CASE \E i \in Positions(x, t) : w = <<"queue", 0, i>>
      <4>1. PICK i \in Positions(x, t) : w = <<"queue", 0, i>>
        BY <3>2
      <4>2. <<"queue", 0, Len(s) + i>> \in Where(c, x)
        BY <2>3, <2>5
      <4>3. f[<<"queue", 0, Len(s) + i>>] = w
        BY <2>5, <4>1, <4>2
      <4>. QED  BY <4>2, <4>3
    <3>3. CASE \E i \in Positions(x, s) : w = <<"held", g, i>>
      <4>1. PICK i \in Positions(x, s) : w = <<"held", g, i>>
        BY <3>3
      <4>2. <<"queue", 0, i>> \in Where(c, x)
        BY <2>3, <2>5
      <4>3. f[<<"queue", 0, i>>] = w
        BY <2>5, <4>1, <4>2
      <4>. QED  BY <4>2, <4>3
    <3>4. CASE \/ \E i \in Positions(x, h) : w = <<"handled", 0, i>>
               \/ \E k \in Gens \ {g} : \E i \in Positions(x, held[c][k]) : w = <<"held", k, i>>
      <4>1. w \in Where(c, x) /\ w[1] # "queue"
        BY <2>3, <3>4
      <4>2. f[w] = w
        BY <4>1
      <4>. QED  BY <4>1, <4>2
    <3>. QED  BY <2>4, <3>2, <3>3, <3>4
  <2>. HIDE DEF f
  <2>8. /\ (\E w : Where(c, x) = {w}) => (\E w : Where(c, x)' = {w})
        /\ Where(c, x) = {} => Where(c, x)' = {}
    <3> DEFINE V == Where(c, x)
               W == Where(c, x)'
    <3>1. (\A v \in V : f[v] \in W) /\ (\A w \in W : \E v \in V : w = f[v])
      BY <2>6, <2>7
    <3>. HIDE DEF V, W
    <3>2. \A v : V = {v} => W = {f[v]}
      BY <3>1
    <3>3. V = {} => W = {}
      BY <3>1
    <3>. QED  BY <3>2, <3>3 DEF V, W
  <2>. QED  BY <1>3, <2>8
<1>. QED  BY <1>2, <1>3

\* What the thread deals with goes behind what was dealt with before.
LEMMA HandlePlaces ==
  ASSUME TypeInv, HandsInv, PlacesInv, NEW c \in Caches, NEW g \in Gens, Handle(c, g)
  PROVE  PlacesInv'
<1>1. SUFFICES ASSUME NEW d \in Caches, NEW x \in Items, IsReal(d, x)
               PROVE  /\ (\E w : Where(d, x) = {w}) => (\E w : Where(d, x)' = {w})
                      /\ Where(d, x) = {} => Where(d, x)' = {}
  <2>1. \A d \in Caches : \A x : (\E w : Where(d, x)' = {w}) => \E w \in Where(d, x)' : Where(d, x)' = {w}
    OBVIOUS
  <2>2. UNCHANGED pushed
    BY DEF Handle
  <2>. QED  BY <1>1, <2>1, <2>2 DEF PlacesInv, IsReal
<1>2. CASE d # c
  <2>1. handled'[d] = handled[d] /\ held'[d] = held[d] /\ queue' = queue
    BY <1>2, OnceTypes DEF Handle
  <2>2. Where(d, x)' = Where(d, x)
    BY <2>1 DEF Where
  <2>. QED  BY <2>2
<1>3. CASE d = c
  <2> DEFINE q == queue[c]
             s == handled[c]
             t == held[c][g]
  <2>1. /\ s \in Seq(Items) /\ t \in Seq(Items) /\ queue'[c] = q /\ held'[c][g] = <<>>
        /\ \A k \in Gens \ {g} : held'[c][k] = held[c][k]
    BY OnceTypes DEF Handle
  <2>2. Positions(x, held'[c][g]) = {}
    BY <2>1, PositionsOne
  <2>3. \A w : w \in Where(c, x) <=>
          \/ \E i \in Positions(x, s) : w = <<"handled", 0, i>>
          \/ \E i \in Positions(x, q) : w = <<"queue", 0, i>>
          \/ \E i \in Positions(x, t) : w = <<"held", g, i>>
          \/ \E k \in Gens \ {g} : \E i \in Positions(x, held[c][k]) : w = <<"held", k, i>>
    <3>1. Where(c, x) = Spots(x, s, q, held[c])
      BY WhereSpots
    <3>2. \A w : w \in Where(c, x) <=>
          \/ \E i \in Positions(x, s) : w = <<"handled", 0, i>>
          \/ \E i \in Positions(x, q) : w = <<"queue", 0, i>>
          \/ \E k \in Gens : \E i \in Positions(x, held[c][k]) : w = <<"held", k, i>>
      BY <3>1 DEF Spots
    <3>. QED  BY <3>2
  <2>4. \A w : w \in Where(c, x)' <=>
          \/ \E i \in Positions(x, handled'[c]) : w = <<"handled", 0, i>>
          \/ \E i \in Positions(x, q) : w = <<"queue", 0, i>>
          \/ \E k \in Gens \ {g} : \E i \in Positions(x, held[c][k]) : w = <<"held", k, i>>
    <3>1. Where(c, x)' = Spots(x, handled'[c], q, held'[c])
      BY <2>1, WhereSpots
    <3>2. \A w : w \in Where(c, x)' <=>
          \/ \E i \in Positions(x, handled'[c]) : w = <<"handled", 0, i>>
          \/ \E i \in Positions(x, q) : w = <<"queue", 0, i>>
          \/ \E k \in Gens : \E i \in Positions(x, held'[c][k]) : w = <<"held", k, i>>
      BY <3>1 DEF Spots
    <3>. QED  BY <2>1, <2>2, <3>2
  <2>5. CASE c = "sender" /\ t # <<>> /\ IsBeat(Head(t))
    <3>1. handled'[c] = s
      BY <2>5, OnceTypes DEF Handle
    <3>2. Positions(x, t) = {}
      <4>1. DOMAIN t = {1} /\ t[1] # x
        <5>1. Len(t) \in Nat /\ Len(t) <= 1 /\ DOMAIN t = 1..Len(t)
          BY <2>1, <2>5, LenProperties DEF HandsInv
        <5>2. Len(t) # 0
          BY <2>1, <2>5, EmptySeq
        <5>3. t[1] # x
          BY <1>1, <1>3, <2>5 DEF IsReal
        <5>4. Len(t) = 1
          <6>1. \A n \in Nat : n <= 1 /\ n # 0 => n = 1
            OBVIOUS
          <6>. HIDE DEF t
          <6>. QED  BY <5>1, <5>2, <6>1
        <5>. QED  BY <5>1, <5>3, <5>4
      <4>. QED  BY <4>1 DEF Positions
    <3>. HIDE DEF q, s, t
    <3>3. Where(c, x)' = Where(c, x)
      BY <2>3, <2>4, <3>1, <3>2
    <3>. QED  BY <1>3, <3>3
  <2>6. CASE ~(c = "sender" /\ t # <<>> /\ IsBeat(Head(t)))
    <3> DEFINE f == [w \in Where(c, x) |->
                       IF w[1] = "held" /\ w[2] = g THEN <<"handled", 0, Len(s) + w[3]>> ELSE w]
    <3>1. handled'[c] = s \o t
      BY <2>6, OnceTypes DEF Handle
    <3>2. /\ \A i \in Positions(x, s) : i \in Positions(x, s \o t)
          /\ \A k \in Positions(x, t) : Len(s) + k \in Positions(x, s \o t)
          /\ \A i \in Positions(x, s \o t) :
               (i \in Positions(x, s)) \/ (i - Len(s) \in Positions(x, t) /\ i = Len(s) + (i - Len(s)))
      BY <2>1, PositionsConcatNat
    <3>. HIDE DEF q, s, t
    <3>3. \A w \in Where(c, x) : f[w] \in Where(c, x)'
      <4>1. TAKE w \in Where(c, x)
      <4>2. CASE \E i \in Positions(x, t) : w = <<"held", g, i>>
        <5>1. PICK i \in Positions(x, t) : w = <<"held", g, i>>
          BY <4>2
        <5>2. f[w] = <<"handled", 0, Len(s) + i>>
          BY <5>1
        <5>. QED  BY <2>4, <3>1, <3>2, <5>2
      <4>3. CASE \/ \E i \in Positions(x, s) : w = <<"handled", 0, i>>
                 \/ \E i \in Positions(x, q) : w = <<"queue", 0, i>>
                 \/ \E k \in Gens \ {g} : \E i \in Positions(x, held[c][k]) : w = <<"held", k, i>>
        <5>1. ~(w[1] = "held" /\ w[2] = g)
          BY <4>3
        <5>2. f[w] = w
          BY <5>1
        <5>. QED  BY <2>4, <3>1, <3>2, <4>3, <5>2
      <4>. QED  BY <2>3, <4>2, <4>3
    <3>4. \A w \in Where(c, x)' : \E v \in Where(c, x) : w = f[v]
      <4>1. TAKE w \in Where(c, x)'
      <4>2. CASE \E i \in Positions(x, t) : w = <<"handled", 0, Len(s) + i>>
        <5>1. PICK i \in Positions(x, t) : w = <<"handled", 0, Len(s) + i>>
          BY <4>2
        <5>2. <<"held", g, i>> \in Where(c, x)
          BY <2>3
        <5>3. f[<<"held", g, i>>] = w
          BY <5>1, <5>2
        <5>. QED  BY <5>2, <5>3
      <4>3. CASE \/ \E i \in Positions(x, s) : w = <<"handled", 0, i>>
                 \/ \E i \in Positions(x, q) : w = <<"queue", 0, i>>
                 \/ \E k \in Gens \ {g} : \E i \in Positions(x, held[c][k]) : w = <<"held", k, i>>
        <5>1. w \in Where(c, x) /\ ~(w[1] = "held" /\ w[2] = g)
          BY <2>3, <4>3
        <5>2. f[w] = w
          BY <5>1
        <5>. QED  BY <5>1, <5>2
      <4>. QED  BY <2>4, <3>1, <3>2, <4>2, <4>3
    <3>5. /\ (\E w : Where(c, x) = {w}) => (\E w : Where(c, x)' = {w})
          /\ Where(c, x) = {} => Where(c, x)' = {}
      <4> DEFINE V == Where(c, x)
                 W == Where(c, x)'
      <4>1. (\A v \in V : f[v] \in W) /\ (\A w \in W : \E v \in V : w = f[v])
        BY <3>3, <3>4
      <4>. HIDE DEF V, W, f
      <4>2. \A v : V = {v} => W = {f[v]}
        BY <4>1
      <4>3. V = {} => W = {}
        BY <4>1
      <4>. QED  BY <4>2, <4>3 DEF V, W
    <3>. QED  BY <1>3, <3>5
  <2>. QED  BY <2>5, <2>6
<1>. QED  BY <1>2, <1>3

LEMMA InitOnce == Init => OnceInv /\ FreshInv
<1>. SUFFICES ASSUME Init PROVE OnceInv /\ FreshInv
  OBVIOUS
<1>1. /\ \A c \in Caches : queue[c] = <<>> /\ handled[c] = <<>> /\ pushed[c] = <<>>
      /\ \A c \in Caches, g \in Gens : held[c][g] = <<>> /\ pc[c][g] = "none"
  BY CacheRoles DEF Init
<1>2. Len(<<>>) <= 1 /\ DOMAIN <<>> = {} /\ "sender" \in Caches /\ "recver" \in Caches
  BY DEF Caches
<1>3. HandsInv
  BY <1>1, <1>2 DEF HandsInv
<1>4. PushedInv
  BY <1>1, <1>2 DEF PushedInv
<1>5. \A c \in Caches : \A x : Where(c, x) = {}
  BY <1>1, PositionsOne DEF Where
<1>6. PlacesInv
  BY <1>1, <1>2, <1>5 DEF PlacesInv, ToSet
<1>. QED  BY <1>1, <1>3, <1>4, <1>6 DEF OnceInv, FreshInv

\* Cache threads run only in startups that have them.
LEMMA FreshStep == TypeInv /\ FreshInv /\ [Next]_vars => FreshInv'
<1>. SUFFICES ASSUME TypeInv, FreshInv, [Next]_vars PROVE FreshInv'
  OBVIOUS
<1>0. pc \in PCs /\ starts \in Nat /\ Gens \subseteq Nat /\ Caches \subseteq Roles \ {"waitfor", "heartbeat"}
  BY ControlTypes, CacheRoles DEF Caches, Roles
<1>1. ASSUME NEW r \in Roles, NEW g \in Gens, NEW p \in Places, Goto(r, g, p),
             r \in Caches => pc[r][g] # "none", starts' = starts, user' # "create" \/ user' = user
      PROVE  FreshInv'
  <2>1. \A c \in Caches, h \in Gens : pc[c][h] = "none" => pc'[c][h] = "none"
    BY <1>0, <1>1, GotoProperties
  <2>. QED  BY <1>1, <2>1 DEF FreshInv
<1>2. ASSUME UNCHANGED <<pc, starts>>, user' # "create" \/ user' = user PROVE FreshInv'
  BY <1>2 DEF FreshInv
<1>3. ASSUME NEW x \in Commands, PushGTCmd(x) \/ Announce(x) PROVE FreshInv'
  BY <1>2, <1>3 DEF PushGTCmd, Announce, threads, control
<1>4. ASSUME NEW g \in Gens, NEW c \in Caches, CacheThread(c, g) PROVE FreshInv'
  <2>1. PICK p \in Places : Goto(c, g, p) /\ UNCHANGED control /\ pc[c][g] # "none"
    BY <1>4 DEF CacheThread, While, Wait, Take, Handle, Tidy, Reset, Places
  <2>. QED  BY <1>0, <1>1, <2>1 DEF control
<1>5. ASSUME NEW g \in Gens, HeartbeatThread(g) PROVE FreshInv'
  <2>1. PICK p \in Places : Goto("heartbeat", g, p) /\ UNCHANGED control
    BY <1>5 DEF HeartbeatThread, Beat, AnnounceBeat, Places
  <2>. QED  BY <1>0, <1>1, <2>1 DEF control, Roles
<1>6. ASSUME NEW g \in Gens, WaitforThread(g) PROVE FreshInv'
  <2>1. PICK p \in Places : Goto("waitfor", g, p) /\ UNCHANGED <<starts, user>>
    BY <1>6 DEF WaitforThread, WaitforData, Select, AnnounceData, Reconnect, Places, control
  <2>. QED  BY <1>0, <1>1, <2>1 DEF Roles
<1>7. ASSUME NEW x \in Callers, InShutdown(x) PROVE FreshInv'
  <2>1. CASE StopBeat(x) \/ StopCache(x) \/ WakeBoth(x) \/ Join(x)
    BY <1>2, <2>1 DEF StopBeat, StopCache, WakeBoth, Join, threads
  <2>2. CASE Close(x)
    <3>1. starts' = starts /\ (user' # "create" \/ user' = user)
      BY <2>2 DEF Close
    <3>2. CASE UNCHANGED pc
      BY <1>2, <3>1, <3>2
    <3>3. CASE x # User /\ Goto("waitfor", x, "while")
      <4>1. x \in Gens /\ "while" \in Places /\ "waitfor" \in Roles
        BY <3>3, ControlTypes DEF Places
      <4>. QED  BY <1>0, <1>1, <3>1, <3>3, <4>1
    <3>. QED  BY <2>2, <3>2, <3>3 DEF Close
  <2>. QED  BY <1>7, <2>1, <2>2 DEF InShutdown
<1>8. CASE Startup \/ Shutdown
  BY <1>2, <1>8 DEF Startup, Shutdown, threads
<1>9. CASE Connect
  <2>1. UNCHANGED pc /\ (\/ user' = "create" /\ starts' = starts + 1
                         \/ user' # "create" /\ starts' = starts)
    BY <1>9 DEF Connect, threads
  <2>2. \A g \in Gens : (g > starts') \/ (g = starts' /\ user' = "create") => g > starts
    BY <1>0, <2>1
  <2>. QED  BY <2>1, <2>2 DEF FreshInv
<1>10. CASE CreateThreads \/ CreateFails
  <2>1. starts' = starts /\ user' # "create"
    BY <1>10 DEF CreateThreads, CreateFails, GiveUp
  <2>2. \A c \in Caches, g \in Gens : g > starts => pc'[c][g] = pc[c][g]
    <3>1. \A g \in Gens : g > starts => g # starts
      BY <1>0
    <3>2. CASE CreateThreads
      BY <1>0, <3>1, <3>2 DEF CreateThreads, PCs
    <3>3. CASE CreateFails
      <4>1. CASE UNCHANGED pc
        BY <4>1
      <4>2. ASSUME NEW made, pc' = [r \in Roles |-> IF r \in made \cup {"waitfor"}
                                    THEN [pc[r] EXCEPT ![starts] = "suspended"] ELSE pc[r]]
            PROVE  \A c \in Caches, g \in Gens : g > starts => pc'[c][g] = pc[c][g]
        BY <1>0, <3>1, <4>2 DEF PCs
      <4>. QED  BY <3>3, <4>1, <4>2 DEF CreateFails
    <3>. QED  BY <1>10, <3>2, <3>3
  <2>. QED  BY <2>1, <2>2 DEF FreshInv
<1>11. CASE CreateHeartbeat
  <2>1. starts' = starts /\ (user' # "create" \/ user' = user)
    BY <1>11 DEF CreateHeartbeat, GiveUp
  <2>2. \A c \in Caches, g \in Gens : pc'[c][g] = pc[c][g]
    BY <1>0, <1>11 DEF CreateHeartbeat, Goto, PCs
  <2>. QED  BY <2>1, <2>2 DEF FreshInv
<1>12. CASE ResumeWaitfor
  <2>1. starts' = starts /\ user' # "create"
    BY <1>12 DEF ResumeWaitfor
  <2>2. \A c \in Caches, g \in Gens : pc'[c][g] = pc[c][g]
    BY <1>0, <1>12 DEF ResumeWaitfor, Goto, PCs
  <2>. QED  BY <2>1, <2>2 DEF FreshInv
<1>13. CASE UNCHANGED vars
  BY <1>2, <1>13 DEF vars, threads, control
<1>. QED  BY <1>3, <1>4, <1>5, <1>6, <1>7, <1>8, <1>9, <1>10, <1>11, <1>12, <1>13 DEF Next, InStartup

\* A thread that does not deal with anything goes on.
LEMMA GoesOnKept ==
  ASSUME TypeInv, NEW r \in Roles, NEW g \in Gens, NEW p \in Places, Goto(r, g, p),
         (r \notin Caches) \/ pc[r][g] # "handle"
  PROVE  \A c \in Caches, h \in Gens : pc[c][h] = "handle" => pc'[c][h] = "handle"
<1>1. pc \in PCs /\ Caches \subseteq Roles
  BY ControlTypes, CacheRoles
<1>. QED  BY <1>1, GotoProperties

LEMMA HandsKept ==
  ASSUME HandsInv, UNCHANGED held,
         \A c \in Caches, g \in Gens : pc[c][g] = "handle" => pc'[c][g] = "handle"
  PROVE  HandsInv'
BY DEF HandsInv

LEMMA OncePush ==
  ASSUME TypeInv, OnceInv, NEW x \in Commands, PushGTCmd(x) PROVE OnceInv'
<1>1. x \in Items /\ "sender" \in Caches /\ Push("sender", x) /\ ~IsBeat(x)
  BY CommandsType, SetupsType DEF PushGTCmd, Items, Caches, IsBeat, Gens
<1>2. x \notin ToSet(pushed["sender"])
  BY DEF OnceInv, PushedInv, PushGTCmd, ToSet
<1>3. UNCHANGED <<pc, held, handled>> /\ pushing' = [pushing EXCEPT ![x] = "queued"]
  BY DEF PushGTCmd, threads
<1>4. PlacesInv'
  BY <1>1, <1>2, <1>3, PushPlaces DEF OnceInv
<1>5. HandsInv'
  BY <1>3, HandsKept DEF OnceInv
<1>6. PushedInv'
  <2>1. pushed'["sender"] = Append(pushed["sender"], x) /\ pushed'["recver"] = pushed["recver"]
    BY <1>1, OnceTypes DEF Push, Caches
  <2>2. pushed["sender"] \in Seq(Items)
    BY <1>1, OnceTypes
  <2>3. \A i \in DOMAIN pushed'["sender"] :
          \/ i \in DOMAIN pushed["sender"] /\ pushed'["sender"][i] = pushed["sender"][i]
          \/ pushed'["sender"][i] = x
    BY <1>1, <2>1, <2>2, AppendSet
  <2>4. pushing'[x] # "new" /\ \A y \in Commands : pushing[y] # "new" => pushing'[y] # "new"
    BY <1>3 DEF TypeInv, TypeOK
  <2>. QED  BY <2>1, <2>3, <2>4 DEF OnceInv, PushedInv
<1>. QED  BY <1>4, <1>5, <1>6 DEF OnceInv

LEMMA OnceCache ==
  ASSUME TypeInv, OnceInv, NEW c \in Caches, NEW g \in Gens, CacheThread(c, g) PROVE OnceInv'
<1>1. c \in Roles /\ UNCHANGED <<pushed, pushing>>
  BY CacheRoles DEF CacheThread, While, Wait, Take, Handle, Tidy, Reset, cache
<1>2. ASSUME NEW p \in Places, Goto(c, g, p), pc[c][g] # "handle", UNCHANGED <<queue, held, handled>>
      PROVE  OnceInv'
  BY <1>1, <1>2, GoesOnKept, OnceKept
<1>3. CASE While(c, g) \/ Wait(c, g) \/ Tidy(c, g) \/ Reset(c, g)
  <2>1. UNCHANGED <<queue, held, handled>> /\ pc[c][g] # "handle"
    BY <1>3 DEF While, Wait, Tidy, Reset, cache
  <2>2. PICK p \in Places : Goto(c, g, p)
    BY <1>3 DEF While, Wait, Tidy, Reset, Places
  <2>. QED  BY <1>2, <2>1, <2>2
<1>4. PushedInv'
  BY <1>1 DEF OnceInv, PushedInv
<1>5. held \in [Caches -> [Gens -> Seq(Items)]] /\ pc \in PCs /\ Caches \subseteq Roles
  BY OnceTypes, ControlTypes, CacheRoles
<1>6. CASE Take(c, g)
  <2>1. CASE Goto(c, g, "ended") /\ UNCHANGED <<held, queue>>
    BY <1>2, <1>6, <2>1 DEF Take, Places
  <2>2. CASE /\ held' = [held EXCEPT ![c][g] = Batch(c)] /\ queue' = [queue EXCEPT ![c] = Rest(c)]
             /\ Goto(c, g, "handle")
    <3>1. held[c][g] = <<>> /\ "handle" \in Places
      BY <1>6 DEF Take, OnceInv, HandsInv, Places
    <3>2. PlacesInv'
      BY <1>1, <1>6, <2>2, <3>1, TakePlaces DEF Take, OnceInv
    <3>3. /\ pc'[c][g] = "handle"
          /\ \A d \in Caches, h \in Gens : d # c \/ h # g => pc'[d][h] = pc[d][h]
      BY <1>1, <1>5, <2>2, <3>1, GotoProperties
    <3>4. held'[c][g] = Batch(c) /\ \A d \in Caches, h \in Gens : d # c \/ h # g => held'[d][h] = held[d][h]
      BY <1>5, <2>2
    <3>5. c = "sender" => Len(Batch(c)) <= 1
      BY TakeConcat
    <3>6. HandsInv'
      BY <3>3, <3>4, <3>5 DEF OnceInv, HandsInv
    <3>. QED  BY <1>4, <3>2, <3>6 DEF OnceInv
  <2>. QED  BY <1>6, <2>1, <2>2 DEF Take
<1>7. CASE Handle(c, g)
  <2>1. PlacesInv'
    BY <1>7, HandlePlaces DEF OnceInv
  <2>2. Goto(c, g, "tidy") /\ "tidy" \in Places /\ held' = [held EXCEPT ![c][g] = <<>>]
    BY <1>7 DEF Handle, Places
  <2>3. \A d \in Caches, h \in Gens : d # c \/ h # g => pc'[d][h] = pc[d][h]
    BY <1>1, <1>5, <2>2, GotoProperties
  <2>4. held'[c][g] = <<>> /\ \A d \in Caches, h \in Gens : d # c \/ h # g => held'[d][h] = held[d][h]
    BY <1>5, <2>2
  <2>5. Len(<<>>) <= 1
    OBVIOUS
  <2>6. HandsInv'
    BY <2>3, <2>4, <2>5 DEF OnceInv, HandsInv
  <2>. QED  BY <1>4, <2>1, <2>6 DEF OnceInv
<1>. QED  BY <1>3, <1>6, <1>7 DEF CacheThread

LEMMA OnceBeat ==
  ASSUME TypeInv, OnceInv, NEW g \in Gens, HeartbeatThread(g) PROVE OnceInv'
<1>1. UNCHANGED <<held, handled, pushing>> /\ "heartbeat" \in Roles \ Caches
  BY DEF HeartbeatThread, Beat, AnnounceBeat, Roles, Caches
<1>2. PICK p \in Places : Goto("heartbeat", g, p)
  BY DEF HeartbeatThread, Beat, AnnounceBeat, Places
<1>3. \A c \in Caches, h \in Gens : pc[c][h] = "handle" => pc'[c][h] = "handle"
  BY <1>1, <1>2, GoesOnKept
<1>4. CASE UNCHANGED <<queue, pushed>>
  BY <1>1, <1>3, <1>4, OnceKept
<1>5. CASE Push("sender", g)
  <2>1. g \in Items /\ IsBeat(g) /\ "sender" \in Caches
    BY CacheRoles DEF IsBeat, Caches
  <2>2. PlacesInv'
    BY <1>1, <1>5, <2>1, PushPlaces DEF OnceInv, IsReal
  <2>3. pushed' = pushed
    BY <1>5, <2>1, OnceTypes DEF Push
  <2>4. PushedInv'
    BY <1>1, <2>3 DEF OnceInv, PushedInv
  <2>5. HandsInv'
    BY <1>1, <1>3, HandsKept DEF OnceInv
  <2>. QED  BY <2>2, <2>4, <2>5 DEF OnceInv
<1>. QED  BY <1>4, <1>5 DEF HeartbeatThread, Beat, AnnounceBeat

LEMMA OnceWaitfor ==
  ASSUME TypeInv, OnceInv, NEW g \in Gens, WaitforThread(g) PROVE OnceInv'
<1>1. UNCHANGED <<held, handled, pushing>> /\ "waitfor" \in Roles \ Caches
  BY DEF WaitforThread, WaitforData, Select, AnnounceData, Reconnect, Roles, Caches, cache
<1>2. PICK p \in Places : Goto("waitfor", g, p)
  BY DEF WaitforThread, WaitforData, Select, AnnounceData, Reconnect, Places
<1>3. \A c \in Caches, h \in Gens : pc[c][h] = "handle" => pc'[c][h] = "handle"
  BY <1>1, <1>2, GoesOnKept
<1>4. CASE UNCHANGED <<queue, pushed>>
  BY <1>1, <1>3, <1>4, OnceKept
<1>5. CASE Push("recver", Len(pushed["recver"]) + 1)
  <2> DEFINE s == pushed["recver"]
             x == Len(s) + 1
  <2>1. "recver" \in Caches /\ s \in Seq(Items) /\ Len(s) \in Nat /\ DOMAIN s = 1..Len(s)
    BY OnceTypes, LenProperties DEF Caches
  <2>2. x \in Items /\ x \notin 1..Len(s)
    BY <2>1 DEF Items
  <2>3. x \notin ToSet(s)
    BY <2>1, <2>2 DEF ToSet, OnceInv, PushedInv
  <2>4. PlacesInv'
    BY <1>1, <1>5, <2>1, <2>2, <2>3, PushPlaces DEF OnceInv
  <2>5. pushed'["recver"] = Append(s, x) /\ pushed'["sender"] = pushed["sender"]
    BY <1>5, <2>1, OnceTypes DEF Push, Caches
  <2>6. \A i \in DOMAIN Append(s, x) : \/ i \in DOMAIN s /\ Append(s, x)[i] = s[i]
                                       \/ i = Len(s) + 1 /\ Append(s, x)[i] = x
    BY <2>1, <2>2, AppendSet
  <2>7. PushedInv'
    BY <1>1, <2>5, <2>6 DEF OnceInv, PushedInv
  <2>8. HandsInv'
    BY <1>1, <1>3, HandsKept DEF OnceInv
  <2>. QED  BY <2>4, <2>7, <2>8 DEF OnceInv
<1>. QED  BY <1>4, <1>5 DEF WaitforThread, WaitforData, Select, AnnounceData, Reconnect, cache

LEMMA OnceStep == TypeInv /\ FreshInv /\ OnceInv /\ [Next]_vars => OnceInv'
<1>. SUFFICES ASSUME TypeInv, FreshInv, OnceInv, [Next]_vars PROVE OnceInv'
  OBVIOUS
<1>0. pc \in PCs /\ starts \in Nat /\ Gens \subseteq Nat /\ Caches \subseteq Roles \ {"waitfor", "heartbeat"}
  BY ControlTypes, CacheRoles DEF Caches, Roles
<1>1. ASSUME UNCHANGED <<queue, held, pushed, handled, pushing>>,
             \A c \in Caches, g \in Gens : pc[c][g] = "handle" => pc'[c][g] = "handle"
      PROVE  OnceInv'
  BY <1>1, OnceKept
<1>2. ASSUME NEW x \in Commands, Announce(x) PROVE OnceInv'
  <2>1. \A y \in Commands : pushing[y] # "new" => pushing'[y] # "new"
    BY <1>2 DEF Announce, TypeInv, TypeOK
  <2>. QED  BY <1>2, <2>1, OnceKept DEF Announce, threads
<1>3. ASSUME NEW x \in Callers, InShutdown(x) PROVE OnceInv'
  <2>1. CASE UNCHANGED pc
    BY <1>1, <1>3, <2>1 DEF InShutdown, StopBeat, StopCache, WakeBoth, Join, Close, cache
  <2>2. CASE x # User /\ Goto("waitfor", x, "while")
    <3>1. x \in Gens /\ "while" \in Places /\ "waitfor" \in Roles \ Caches
      BY <1>0, <2>2, ControlTypes DEF Places, Roles
    <3>2. \A c \in Caches, h \in Gens : pc[c][h] = "handle" => pc'[c][h] = "handle"
      BY <2>2, <3>1, GoesOnKept
    <3>. QED  BY <1>1, <1>3, <3>2 DEF InShutdown, StopBeat, StopCache, WakeBoth, Join, Close, cache
  <2>. QED  BY <1>3, <2>1, <2>2 DEF InShutdown, StopBeat, StopCache, WakeBoth, Join, Close, threads
<1>4. CASE Startup \/ Shutdown \/ Connect
  BY <1>1, <1>4 DEF Startup, Shutdown, Connect, threads, cache
<1>5. CASE CreateThreads \/ CreateFails
  <2>1. UNCHANGED <<queue, held, pushed, handled, pushing>> /\ user = "create"
    BY <1>5 DEF CreateThreads, CreateFails, cache
  <2>2. \A c \in Caches, g \in Gens : pc[c][g] = "handle" => g # starts
    BY <2>1 DEF FreshInv
  <2>3. \A c \in Caches, g \in Gens : g # starts => pc'[c][g] = pc[c][g]
    <3>2. CASE CreateThreads
      BY <1>0, <3>2 DEF CreateThreads, PCs
    <3>3. CASE CreateFails
      <4>1. CASE UNCHANGED pc
        BY <4>1
      <4>2. ASSUME NEW made, pc' = [r \in Roles |-> IF r \in made \cup {"waitfor"}
                                    THEN [pc[r] EXCEPT ![starts] = "suspended"] ELSE pc[r]]
            PROVE  \A c \in Caches, g \in Gens : g # starts => pc'[c][g] = pc[c][g]
        BY <1>0, <4>2 DEF PCs
      <4>. QED  BY <3>3, <4>1, <4>2 DEF CreateFails
    <3>. QED  BY <1>5, <3>2, <3>3
  <2>. QED  BY <1>1, <2>1, <2>2, <2>3
<1>6. CASE CreateHeartbeat \/ ResumeWaitfor
  <2>2. \A c \in Caches, g \in Gens : pc'[c][g] = pc[c][g]
    BY <1>0, <1>6 DEF CreateHeartbeat, ResumeWaitfor, Goto, PCs
  <2>. QED  BY <1>1, <1>6, <2>2 DEF CreateHeartbeat, ResumeWaitfor, cache
<1>7. CASE UNCHANGED vars
  BY <1>1, <1>7 DEF vars, threads, cache
<1>. QED
  BY <1>2, <1>3, <1>4, <1>5, <1>6, <1>7, OncePush, OnceCache, OnceBeat, OnceWaitfor DEF Next, InStartup

LEMMA OnceInvariant == Spec => [](TypeInv /\ FreshInv /\ OnceInv)
<1>1. Init => TypeInv /\ FreshInv /\ OnceInv
  BY InitTypes, InitOnce
<1>2. TypeInv /\ FreshInv /\ OnceInv /\ [Next]_vars => (TypeInv /\ FreshInv /\ OnceInv)'
  BY TypeStep, FreshStep, OnceStep
<1>. QED  BY <1>1, <1>2, PTL DEF Spec

\* What was put into a queue is in one place: dealt with, in the hand of one
\* thread, or queued (socket/socketclient.cpp:269-273).
THEOREM EverythingOnce == Spec => []DealtWithOnce
<1>1. ASSUME TypeInv, OnceInv PROVE DealtWithOnce
  <2>1. SUFFICES ASSUME NEW c \in Caches, NEW x \in ToSet(pushed[c])
                 PROVE  \E w \in Where(c, x) : Where(c, x) = {w}
    BY DEF DealtWithOnce
  <2>2. x \in Items
    BY OnceTypes, <1>1
  <2>3. IsReal(c, x)
    <3>1. c = "sender" => x \in Commands
      BY <1>1 DEF OnceInv, PushedInv, ToSet
    <3>. QED  BY <3>1, CommandsType, CacheRoles DEF IsReal, IsBeat
  <2>. QED  BY <1>1, <2>2, <2>3 DEF OnceInv, PlacesInv
<1>. QED  BY <1>1, OnceInvariant, PTL
-----------------------------------------------------------------------------
(* The order in which things were put into a queue.                        *)

LEMMA RealConcat ==
  ASSUME NEW c, NEW s \in Seq(Items), NEW t \in Seq(Items)
  PROVE  /\ Real(c, s) \in Seq(Items)
         /\ Real(c, s \o t) = Real(c, s) \o Real(c, t)
BY NoBeatsConcat, NoBeatsType DEF Real, NoBeats

LEMMA RealShort ==
  ASSUME NEW c, NEW x \in Items
  PROVE  /\ Real(c, <<>>) = <<>>
         /\ Real(c, <<x>>) = IF IsReal(c, x) THEN <<x>> ELSE <<>>
<1> DEFINE t == <<x>>
<1>1. RealUpTo(<<>>)[0] = <<>>
  <2>1. <<>> \in Seq(Items) /\ Len(<<>>) = 0 /\ 0 \in 0..0
    BY EmptySeq
  <2>2. RealUpTo(<<>>)[0] = RealAt(<<>>, RealUpTo(<<>>), 0)
    BY <2>1, RealUnfold
  <2>. QED  BY <2>2 DEF RealAt
<1>2. t \in Seq(Items) /\ Len(t) = 1 /\ t[1] = x
  OBVIOUS
<1>. HIDE DEF t
<1>3. RealUpTo(t)[1] = IF IsBeat(x) THEN <<>> ELSE <<x>>
  <2>1. 0 \in 0..Len(t) /\ 1 \in 0..Len(t) /\ 1 # 0 /\ 1 - 1 = 0
    BY <1>2
  <2>2. RealUpTo(t)[0] = <<>>
    BY <1>2, <2>1, RealUnfold DEF RealAt
  <2>3. RealUpTo(t)[1] = RealAt(t, RealUpTo(t), 1)
    BY <1>2, <2>1, RealUnfold
  <2>4. Append(<<>>, x) = <<x>>
    OBVIOUS
  <2>. QED  BY <1>2, <2>1, <2>2, <2>3, <2>4 DEF RealAt
<1>4. Real(c, t) = IF IsReal(c, x) THEN <<x>> ELSE <<>>
  <2>1. CASE c = "sender"
    BY <1>2, <1>3, <2>1 DEF Real, IsReal
  <2>2. CASE c # "sender"
    BY <2>2 DEF Real, IsReal, t
  <2>. QED  BY <2>1, <2>2
<1>5. Real(c, <<>>) = <<>>
  BY <1>1 DEF Real
<1>. QED  BY <1>4, <1>5 DEF t

\* A queue, and what its one thread has in hand.
InLine(c, g) ==
  /\ \A h \in Gens \ {g} : held[c][h] = <<>>
  /\ pushed[c] = handled[c] \o Real(c, held[c][g]) \o Real(c, queue[c])

LEMMA InLineNext ==
  ASSUME NEW c, NEW g
  PROVE  InLine(c, g)' <=> /\ \A h \in Gens \ {g} : held'[c][h] = <<>>
                           /\ pushed'[c] = handled'[c] \o Real(c, held'[c][g]) \o Real(c, queue'[c])
BY DEF InLine, Real, RealUpTo, IsBeat

LEMMA InOrderNext ==
  /\ InOrder <=> (Orderly => \A c \in Caches : \E g \in Gens : InLine(c, g))
  /\ InOrder' <=> (Orderly' => \A c \in Caches : \E g \in Gens : InLine(c, g)')
  /\ UNCHANGED setup => (Orderly' <=> Orderly)
<1>1. InOrder <=> (Orderly => \A c \in Caches : \E g \in Gens : InLine(c, g))
  BY DEF InOrder, InLine
<1>2. InOrder' <=> (Orderly' => \A c \in Caches : \E g \in Gens : InLine(c, g)')
  BY DEF InOrder, InLine, Real, RealUpTo, IsBeat
<1>3. UNCHANGED setup => (Orderly' <=> Orderly)
  BY DEF Orderly
<1>. QED  BY <1>1, <1>2, <1>3

LEMMA OrderKept ==
  ASSUME InOrder, UNCHANGED <<setup, queue, held, pushed, handled>> PROVE InOrder'
<1>1. \A c, g : InLine(c, g) => InLine(c, g)'
  BY InLineNext DEF InLine
<1>. QED  BY <1>1, InOrderNext

\* What is pushed goes to the end of the line.
LEMMA OrderPush ==
  ASSUME TypeInv, InOrder, NEW c \in Caches, NEW x \in Items, Push(c, x), UNCHANGED <<setup, held, handled>>
  PROVE  InOrder'
<1>1. SUFFICES ASSUME Orderly, NEW d \in Caches PROVE \E g \in Gens : InLine(d, g)'
  BY InOrderNext
<1>2. PICK g \in Gens : InLine(d, g)
  BY <1>1, InOrderNext
<1>3. CASE d # c
  <2>1. queue'[d] = queue[d] /\ pushed'[d] = pushed[d]
    BY <1>3, OnceTypes DEF Push
  <2>2. InLine(d, g)'
    BY <1>2, <2>1, InLineNext DEF InLine
  <2>. QED  BY <2>2
<1>4. CASE d = c
  <2> DEFINE a == handled[c] \o Real(c, held[c][g])
             q == queue[c]
             t == <<x>>
  <2>1. /\ handled[c] \in Seq(Items) /\ Real(c, held[c][g]) \in Seq(Items)
        /\ q \in Seq(Items) /\ t \in Seq(Items) /\ Real(c, q) \in Seq(Items)
    BY OnceTypes, RealConcat
  <2>2. a \in Seq(Items) /\ pushed[c] = a \o Real(c, q) /\ pushed[c] \in Seq(Items)
    <3>1. a \in Seq(Items)
      BY <2>1, ConcatProperties
    <3>2. pushed[c] \in Seq(Items)
      BY OnceTypes
    <3>. QED  BY <1>2, <1>4, <3>1, <3>2 DEF InLine
  <2>3. pushed'[c] = a \o Real(c, queue'[c])
    <3>1. CASE ~IsReal(c, x)
      <4>1. pushed'[c] = pushed[c] /\ queue'[c] \in {q, Append(q, x)}
        BY <3>1, OnceTypes DEF Push, IsReal
      <4>2. Append(q, x) = q \o t
        BY <2>1, AppendIsConcat
      <4>3. Real(c, t) = <<>>
        BY <3>1, RealShort
      <4>4. Real(c, q \o t) = Real(c, q) \o Real(c, t)
        <5>. HIDE DEF q, t
        <5>. QED  BY <2>1, RealConcat
      <4>5. Real(c, q) \o <<>> = Real(c, q)
        BY <2>1, ConcatEmptySeq
      <4>. QED  BY <2>2, <4>1, <4>2, <4>3, <4>4, <4>5
    <3>2. CASE IsReal(c, x)
      <4>1. pushed'[c] = Append(pushed[c], x) /\ queue'[c] = Append(q, x)
        BY <3>2, OnceTypes DEF Push, IsReal
      <4>2. Append(q, x) = q \o t /\ Append(pushed[c], x) = pushed[c] \o t
        BY <2>1, <2>2, AppendIsConcat
      <4>3. Real(c, t) = t
        BY <3>2, RealShort
      <4>4. Real(c, q \o t) = Real(c, q) \o Real(c, t)
        <5>. HIDE DEF q, t
        <5>. QED  BY <2>1, RealConcat
      <4>5. (a \o Real(c, q)) \o t = a \o (Real(c, q) \o t)
        <5>. HIDE DEF q, t, a
        <5>. QED  BY <2>1, <2>2, ConcatAssociative
      <4>. QED  BY <2>2, <4>1, <4>2, <4>3, <4>4, <4>5
    <3>. QED  BY <3>1, <3>2
  <2>4. InLine(c, g)'
    BY <1>2, <1>4, <2>3, InLineNext DEF InLine
  <2>. QED  BY <1>4, <2>4
<1>. QED  BY <1>3, <1>4

\* The thread that runs is the one that serves the queue.
LEMMA OneServes ==
  ASSUME TypeInv, ControlInv, HandsInv, InOrder, Orderly, NEW c \in Caches, NEW g \in Gens, Alive(c, g)
  PROVE  InLine(c, g)
<1>1. \A h \in Gens \ {g} : held[c][h] = <<>>
  <2>1. SUFFICES ASSUME NEW h \in Gens \ {g}, held[c][h] # <<>> PROVE FALSE
    OBVIOUS
  <2>2. c \in Roles /\ pc[c][h] = "handle"
    BY <2>1, CacheRoles DEF HandsInv
  <2>3. Alive(c, h)
    BY <2>2 DEF Alive
  <2>. QED  BY <2>2, <2>3, Running
<1>2. PICK k \in Gens : InLine(c, k)
  BY InOrderNext
<1>3. held[c][k] = held[c][g]
  BY <1>1, <1>2 DEF InLine
<1>. QED  BY <1>1, <1>2, <1>3 DEF InLine

LEMMA OrderCache ==
  ASSUME TypeInv, ControlInv, HandsInv, InOrder, NEW c \in Caches, NEW g \in Gens, CacheThread(c, g)
  PROVE  InOrder'
<1>1. UNCHANGED <<setup, pushed>>
  BY DEF CacheThread, While, Wait, Take, Handle, Tidy, Reset, cache, control
<1>2. CASE UNCHANGED <<queue, held, handled>>
  BY <1>1, <1>2, OrderKept
<1>3. ASSUME InLine(c, g) => InLine(c, g)', Orderly, Alive(c, g),
             \A d \in Caches \ {c} : queue'[d] = queue[d] /\ held'[d] = held[d] /\ handled'[d] = handled[d]
      PROVE  InOrder'
  <2>1. SUFFICES ASSUME NEW d \in Caches PROVE \E k \in Gens : InLine(d, k)'
    BY InOrderNext
  <2>2. CASE d = c
    BY <1>3, <2>2, OneServes
  <2>3. CASE d # c
    <3>1. PICK k \in Gens : InLine(d, k)
      BY <1>3, InOrderNext
    <3>2. InLine(d, k)'
      BY <1>1, <1>3, <2>3, <3>1, InLineNext DEF InLine
    <3>. QED  BY <3>2
  <2>. QED  BY <2>2, <2>3
<1>4. ASSUME ~Orderly PROVE InOrder'
  BY <1>1, <1>4, InOrderNext
<1>5. CASE /\ Take(c, g)
           /\ held' = [held EXCEPT ![c][g] = Batch(c)] /\ queue' = [queue EXCEPT ![c] = Rest(c)]
  <2> DEFINE s == Batch(c)
             t == Rest(c)
             h == handled[c]
  <2>1. /\ s \in Seq(Items) /\ t \in Seq(Items) /\ queue[c] = s \o t /\ h \in Seq(Items)
        /\ queue'[c] = t /\ held'[c][g] = s /\ handled' = handled
        /\ \A k \in Gens \ {g} : held'[c][k] = held[c][k]
        /\ \A d \in Caches \ {c} : queue'[d] = queue[d] /\ held'[d] = held[d]
    BY <1>5, TakeConcat, OnceTypes DEF Take
  <2>2. held[c][g] = <<>> /\ Alive(c, g)
    BY <1>5 DEF Take, HandsInv, Alive
  <2>. HIDE DEF s, t, h
  <2>3. Real(c, <<>>) = <<>>
    BY RealShort, CacheRoles DEF Real, Items
  <2>4. Real(c, s) \in Seq(Items) /\ Real(c, t) \in Seq(Items) /\ Real(c, s \o t) = Real(c, s) \o Real(c, t)
    BY <2>1, RealConcat
  <2>5. h \o <<>> = h
    BY <2>1, ConcatEmptySeq
  <2>6. h \o (Real(c, s) \o Real(c, t)) = (h \o Real(c, s)) \o Real(c, t)
    <3> DEFINE a == Real(c, s)
               b == Real(c, t)
    <3>1. h \in Seq(Items) /\ a \in Seq(Items) /\ b \in Seq(Items)
      BY <2>1, <2>4
    <3>. HIDE DEF a, b
    <3>2. (h \o a) \o b = h \o (a \o b)
      BY ONLY <3>1, ConcatAssociative
    <3>. QED  BY <3>2 DEF a, b
  <2>7. InLine(c, g) => InLine(c, g)'
    <3>1. SUFFICES ASSUME InLine(c, g) PROVE InLine(c, g)'
      OBVIOUS
    <3>2. pushed[c] = h \o Real(c, held[c][g]) \o Real(c, queue[c])
      BY <3>1 DEF InLine, h
    <3>3. pushed[c] = (h \o Real(c, s)) \o Real(c, t)
      BY <2>1, <2>2, <2>3, <2>4, <2>5, <2>6, <3>2
    <3>4. handled'[c] = h /\ \A k \in Gens \ {g} : held'[c][k] = <<>>
      BY <2>1, <3>1 DEF InLine, h
    <3>. QED  BY <1>1, <2>1, <3>3, <3>4, InLineNext
  <2>. QED  BY <1>3, <1>4, <2>1, <2>2, <2>7
<1>6. CASE Handle(c, g)
  <2> DEFINE t == held[c][g]
             h == handled[c]
             q == Real(c, queue[c])
  <2>1. /\ t \in Seq(Items) /\ h \in Seq(Items) /\ queue' = queue /\ held'[c][g] = <<>>
        /\ \A k \in Gens \ {g} : held'[c][k] = held[c][k]
        /\ \A d \in Caches \ {c} : handled'[d] = handled[d] /\ held'[d] = held[d]
    BY <1>6, OnceTypes DEF Handle
  <2>2. Alive(c, g)
    BY <1>6 DEF Handle, Alive
  <2>3. Real(c, <<>>) = <<>>
    BY RealShort, CacheRoles DEF Real, Items
  <2>4. Real(c, t) \in Seq(Items) /\ h \o Real(c, t) \in Seq(Items) /\ (h \o Real(c, t)) \o <<>> = h \o Real(c, t)
    <3>1. Real(c, t) \in Seq(Items)
      BY <2>1, RealConcat
    <3>2. h \o Real(c, t) \in Seq(Items)
      BY <2>1, <3>1, ConcatProperties
    <3>. QED  BY <3>1, <3>2, ConcatEmptySeq
  <2>5. handled'[c] = h \o Real(c, t)
    <3>1. CASE c = "recver"
      <4>1. Real(c, t) = t
        BY <3>1 DEF Real
      <4>2. handled'[c] = h \o t
        BY <1>6, <3>1, OnceTypes DEF Handle
      <4>. QED  BY <4>1, <4>2
    <3>2. CASE c = "sender" /\ t = <<>>
      <4>1. handled'[c] = h \o <<>>
        BY <1>6, <3>2, OnceTypes DEF Handle
      <4>. QED  BY <2>3, <3>2, <4>1
    <3>3. CASE c = "sender" /\ t # <<>>
      <4>1. Len(t) \in Nat /\ Len(t) <= 1 /\ Len(t) # 0 /\ DOMAIN t = 1..Len(t) /\ t[1] \in Items
        <5>1. Len(t) \in Nat /\ Len(t) # 0 /\ DOMAIN t = 1..Len(t)
          BY <2>1, <3>3, EmptySeq, LenProperties
        <5>2. Len(t) <= 1
          BY <3>3 DEF HandsInv
        <5>3. Head(t) \in Items /\ Head(t) = t[1]
          BY <2>1, <3>3, HeadTailProperties
        <5>. QED  BY <5>1, <5>2, <5>3
      <4>2. Len(t) = 1
        <5>. HIDE DEF t
        <5>. QED  BY <4>1
      <4> DEFINE x == t[1]
      <4>3. t = <<x>>
        <5> DEFINE u == <<x>>
        <5>1. u \in Seq(Items) /\ Len(u) = 1 /\ u[1] = x
          BY <4>1
        <5>2. \A i \in 1..Len(t) : t[i] = u[i]
          BY <4>2, <5>1
        <5>. HIDE DEF u, t
        <5>3. t = u
          BY <2>1, <4>2, <5>1, <5>2, SeqEqual
        <5>. QED  BY <5>3 DEF u
      <4>4. Real(c, <<x>>) = IF IsReal(c, x) THEN <<x>> ELSE <<>>
        BY <4>1, RealShort
      <4>5. handled'[c] = IF IsBeat(x) THEN h ELSE h \o t
        BY <1>6, <3>3, OnceTypes DEF Handle
      <4>6. h \o <<>> = h
        BY <2>1, ConcatEmptySeq
      <4>. HIDE DEF x, t, h
      <4>. QED  BY <3>3, <4>3, <4>4, <4>5, <4>6 DEF IsReal
    <3>. QED  BY <3>1, <3>2, <3>3 DEF Caches
  <2>6. InLine(c, g) => InLine(c, g)'
    <3>1. SUFFICES ASSUME InLine(c, g) PROVE InLine(c, g)'
      OBVIOUS
    <3>2. pushed[c] = h \o Real(c, t) \o q /\ \A k \in Gens \ {g} : held'[c][k] = <<>>
      BY <2>1, <3>1 DEF InLine
    <3>3. pushed'[c] = handled'[c] \o Real(c, held'[c][g]) \o Real(c, queue'[c])
      <4>. HIDE DEF t, h
      <4>. QED  BY <1>1, <2>1, <2>3, <2>4, <2>5, <3>2
    <3>. QED  BY <3>2, <3>3, InLineNext
  <2>7. \A d \in Caches \ {c} : queue'[d] = queue[d] /\ held'[d] = held[d] /\ handled'[d] = handled[d]
    BY <2>1
  <2>. QED  BY <1>3, <1>4, <2>2, <2>6, <2>7
<1>. QED
  BY <1>2, <1>5, <1>6 DEF CacheThread, While, Wait, Take, Tidy, Reset, cache

LEMMA InitOrder == Init => InOrder
<1>. SUFFICES ASSUME Init, NEW c \in Caches PROVE InLine(c, 1) /\ 1 \in Gens
  BY InOrderNext
<1>1. 1 \in Gens
  BY SetupsType DEF Gens
<1>2. queue[c] = <<>> /\ pushed[c] = <<>> /\ handled[c] = <<>> /\ \A g \in Gens : held[c][g] = <<>>
  BY DEF Init
<1>3. Real(c, <<>>) = <<>>
  BY <1>1, RealShort, CacheRoles
<1>4. <<>> \o <<>> \o <<>> = <<>>
  BY EmptySeq, ConcatEmptySeq
<1>. QED  BY <1>1, <1>2, <1>3, <1>4 DEF InLine

LEMMA OrderStep == TypeInv /\ ControlInv /\ HandsInv /\ InOrder /\ [Next]_vars => InOrder'
<1>. SUFFICES ASSUME TypeInv, ControlInv, HandsInv, InOrder, [Next]_vars PROVE InOrder'
  OBVIOUS
<1>1. ASSUME NEW x \in Commands, PushGTCmd(x) \/ Announce(x) PROVE InOrder'
  <2>1. CASE PushGTCmd(x)
    <3>1. x \in Items /\ "sender" \in Caches /\ Push("sender", x) /\ UNCHANGED <<setup, held, handled>>
      BY <2>1 DEF PushGTCmd, Items, Caches, control
    <3>. QED  BY <3>1, OrderPush
  <2>2. CASE Announce(x)
    BY <2>2, OrderKept DEF Announce, control
  <2>. QED  BY <1>1, <2>1, <2>2
<1>2. ASSUME NEW g \in Gens, HeartbeatThread(g) PROVE InOrder'
  <2>1. g \in Items /\ "sender" \in Caches /\ UNCHANGED <<setup, held, handled>>
    BY <1>2, CacheRoles DEF HeartbeatThread, Beat, AnnounceBeat, Caches, control
  <2>2. CASE UNCHANGED <<queue, pushed>>
    BY <2>1, <2>2, OrderKept
  <2>3. CASE Push("sender", g)
    BY <2>1, <2>3, OrderPush
  <2>. QED  BY <1>2, <2>2, <2>3 DEF HeartbeatThread, Beat, AnnounceBeat
<1>3. ASSUME NEW g \in Gens, WaitforThread(g) PROVE InOrder'
  <2>1. "recver" \in Caches /\ UNCHANGED <<setup, held, handled>>
    BY <1>3 DEF WaitforThread, WaitforData, Select, AnnounceData, Reconnect, Caches, control, cache
  <2>2. CASE UNCHANGED <<queue, pushed>>
    BY <2>1, <2>2, OrderKept
  <2>3. CASE Push("recver", Len(pushed["recver"]) + 1)
    <3>1. Len(pushed["recver"]) + 1 \in Items
      BY <2>1, OnceTypes, LenProperties DEF Items
    <3>. QED  BY <2>1, <2>3, <3>1, OrderPush
  <2>. QED  BY <1>3, <2>2, <2>3 DEF WaitforThread, WaitforData, Select, AnnounceData, Reconnect, cache
<1>4. ASSUME NEW x \in Callers, InShutdown(x) PROVE InOrder'
  BY <1>4, OrderKept DEF InShutdown, StopBeat, StopCache, WakeBoth, Join, Close, cache
<1>5. CASE Startup \/ Shutdown \/ InStartup
  BY <1>5, OrderKept
     DEF Startup, Shutdown, InStartup, Connect, CreateThreads, CreateFails, CreateHeartbeat, ResumeWaitfor, cache
<1>6. CASE UNCHANGED vars
  BY <1>6, OrderKept DEF vars, cache, control
<1>. QED  BY <1>1, <1>2, <1>3, <1>4, <1>5, <1>6, OrderCache DEF Next

\* The queues of an orderly client keep the order they are given: what was put
\* into one is what was dealt with, then what its thread has in hand, then what is
\* queued, heartbeats aside (socket/sockcache.h:31).
THEOREM KeepsTheOrder == Spec => []InOrder
<1>1. OnceInv => HandsInv
  BY DEF OnceInv
<1>2. TypeInv /\ ControlInv /\ HandsInv /\ InOrder /\ [Next]_vars => InOrder'
  BY OrderStep
<1>. QED  BY <1>1, <1>2, InitOrder, ControlInvariant, OnceInvariant, PTL DEF Spec
=============================================================================
