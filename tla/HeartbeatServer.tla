-------------------------- MODULE HeartbeatServer ---------------------------
(***************************************************************************)
(* The heartbeat service of the socket library (socket/sockme.cpp):        *)
(* serviceHeartBeat, one thread that selects among the connections it has  *)
(* accepted and sends back what it receives, and clients that run          *)
(* threadHeartBeat, which sends every three seconds and never reads.       *)
(*                                                                         *)
(* All sockets of the server are non-blocking: recv on one with nothing to *)
(* read is an error like any other, and an error ends the connection.      *)
(***************************************************************************)
EXTENDS Integers, Sequences, SequencesExt

CONSTANTS
  Clients,      \* the connections there may be at a time
  FD_SETSIZE    \* how many sockets an FD_SET holds; 64 unless redefined

ASSUME SetSizeType == FD_SETSIZE \in Nat \ {0}

VARIABLES
  peer,         \* the client's side of each connection
  unread,       \* whether data has arrived that the server has not received
  backlog,      \* connections the server has yet to accept, oldest first
  m_lstSocket,  \* accepted connections, newest first
  fdread,       \* what select found readable and the loop has still to serve
  pc            \* where the server is

vars == <<peer, unread, backlog, m_lstSocket, fdread, pc>>
network == <<peer, unread>>

Init ==
  /\ peer = [c \in Clients |-> "none"]
  /\ unread = [c \in Clients |-> FALSE]
  /\ backlog = <<>> /\ m_lstSocket = <<>>
  /\ fdread = {} /\ pc = "select"
-----------------------------------------------------------------------------
(* Clients.                                                                *)
Connect(c) ==
  /\ peer[c] = "none"
  /\ peer' = [peer EXCEPT ![c] = "up"]
  /\ backlog' = Append(backlog, c)
  /\ UNCHANGED <<unread, m_lstSocket, fdread, pc>>

Beat(c) ==
  /\ peer[c] = "up" /\ ~unread[c]
  /\ unread' = [unread EXCEPT ![c] = TRUE]
  /\ UNCHANGED <<peer, backlog, m_lstSocket, fdread, pc>>

\* The client's program ends: with answers it has not read its side resets the
\* connection, and what it sent may be lost; otherwise it closes it.
End(c) ==
  /\ peer[c] = "up"
  /\ \/ peer' = [peer EXCEPT ![c] = "closed"] /\ UNCHANGED unread
     \/ /\ peer' = [peer EXCEPT ![c] = "reset"]
        /\ unread' = [unread EXCEPT ![c] = FALSE]
  /\ UNCHANGED <<backlog, m_lstSocket, fdread, pc>>
-----------------------------------------------------------------------------
(* The server.                                                             *)

\* FD_SET does nothing once the set is full: m_scMain, then the newest ones.
Mut_Watched_OneLess == {m_lstSocket[i] : i \in {j \in DOMAIN m_lstSocket : j < FD_SETSIZE - 1}}
Watched == {m_lstSocket[i] : i \in {j \in DOMAIN m_lstSocket : j < FD_SETSIZE}}

Readable(c) == unread[c] \/ peer[c] \in {"closed", "reset"}

\* select with its timeout; when nothing is readable it is called again.
Mut_Ready_Everybody == Watched
Ready == {c \in Watched : Readable(c)}

Select ==
  /\ pc = "select"
  /\ Ready # {} \/ backlog # <<>>
  /\ fdread' = Ready
  /\ pc' = IF backlog # <<>> THEN "accept" ELSE "serve"
  /\ UNCHANGED <<network, backlog, m_lstSocket>>

\* With FD_SETSIZE connections nobody is accepted, and nobody served.
Mut_Full_OneMore == Len(m_lstSocket) > FD_SETSIZE
Full == Len(m_lstSocket) >= FD_SETSIZE

\* The new connection was not there for select and is not served this time.
Accept ==
  /\ pc = "accept"
  /\ \/ /\ Full
        /\ pc' = "select" /\ fdread' = {}
        /\ UNCHANGED <<peer, backlog, m_lstSocket>>
     \/ /\ ~Full
        /\ backlog' = Tail(backlog)
        /\ \/ /\ peer[Head(backlog)] = "reset"      \* accept fails
              /\ peer' = [peer EXCEPT ![Head(backlog)] = "none"]
              /\ UNCHANGED m_lstSocket
           \/ /\ peer[Head(backlog)] # "reset"
              /\ m_lstSocket' = <<Head(backlog)>> \o m_lstSocket
              /\ UNCHANGED peer
        /\ pc' = (IF fdread = {} THEN "select" ELSE "serve")
        /\ UNCHANGED fdread
  /\ UNCHANGED unread

\* receive succeeds with what has arrived, or with nothing from a closed peer.
Receives(c) == unread[c] \/ peer[c] = "closed"

\* The loop goes through the list from the newest connection on, and its
\* iterator has come to the one at i.
Turn(i) == m_lstSocket[i] \in fdread /\ \A j \in 1..i-1 : m_lstSocket[j] \notin fdread

\* The answer to a client that is gone comes back as a reset.
Answer(i) ==
  LET c == m_lstSocket[i] IN
    /\ Receives(c)
    /\ unread' = [unread EXCEPT ![c] = FALSE]
    /\ peer' = IF peer[c] = "closed" THEN [peer EXCEPT ![c] = "reset"] ELSE peer
    /\ fdread' = fdread \ {c}
    /\ pc' = IF fdread' # {} THEN "serve" ELSE "select"
    /\ UNCHANGED m_lstSocket

\* closesocket and erase; the others have to wait for the next select.
Mut_Drop_Keeps(i) ==
  /\ ~Receives(m_lstSocket[i])
  /\ fdread' = {} /\ pc' = "select"
  /\ UNCHANGED <<network, m_lstSocket>>
Drop(i) ==
  /\ ~Receives(m_lstSocket[i])
  /\ m_lstSocket' = RemoveAt(m_lstSocket, i)
  /\ peer' = [peer EXCEPT ![m_lstSocket[i]] = "none"]
  /\ fdread' = {} /\ pc' = "select"
  /\ UNCHANGED unread

Serve ==
  /\ pc = "serve"
  /\ \E i \in DOMAIN m_lstSocket : Turn(i) /\ (Answer(i) \/ Drop(i))
  /\ UNCHANGED backlog

Server == Select \/ Accept \/ Serve
-----------------------------------------------------------------------------
Next == Server \/ \E c \in Clients : Connect(c) \/ Beat(c) \/ End(c)

\* The server's thread runs on.  No client has to do anything.
Spec == Init /\ [][Next]_vars /\ WF_vars(Server)
-----------------------------------------------------------------------------
TypeOK ==
  /\ peer \in [Clients -> {"none", "up", "closed", "reset"}]
  /\ unread \in [Clients -> BOOLEAN]
  /\ backlog \o m_lstSocket \in Seq({c \in Clients : peer[c] # "none"})
  /\ IsInjective(backlog \o m_lstSocket)
  /\ \A c \in Clients : peer[c] = "none" => ~unread[c]
  /\ Len(m_lstSocket) <= FD_SETSIZE
  /\ fdread \subseteq ToSet(m_lstSocket)
  /\ (pc = "serve") => (fdread # {})
  /\ pc \in {"select", "accept", "serve"}

\* Whatever select, the walk through the list and its end at the first connection
\* that is lost do, the service deals with each connection for itself: it takes
\* data only to answer it, accepts in the order of arrival, gives up no connection
\* but those that are reset, waiting ones too (socket/sockme.cpp:349, 432).
Echo == INSTANCE EchoService
          WITH Limit <- FD_SETSIZE, waiting <- backlog, open <- ToSet(m_lstSocket)
ImplementsEcho == Echo!Spec

\* Only connections whose client is gone are closed: recv is never tried where
\* it would only say that there is nothing to read (socket/sockme.cpp:416).  This is
\* a part of ImplementsEcho, and the one that takes an invariant.
KeepsTheLiving ==
  [][\A c \in ToSet(m_lstSocket) \ ToSet(m_lstSocket') : peer[c] = "reset"]_vars

\* The two things that keep the server from going through the whole list: a full
\* table, and clients that are lost, each of which sends the server back to the
\* newest connection.
FullAgain == []<>Full
DroppedAgain == []<><<\E c \in ToSet(m_lstSocket) : c \notin ToSet(m_lstSocket')>>_vars

\* What a client sends is received and sent back (socket/sockme.cpp:349),
\* unless the table is full again and again, or clients are lost for ever.
Answered == (\A c \in Clients : unread[c] ~> ~unread[c]) \/ FullAgain \/ DroppedAgain

\* A connection whose client is gone is closed, with the same exceptions.
GoneAreFreed ==
  (\A c \in Clients : peer[c] = "reset" ~> peer[c] = "none") \/ FullAgain \/ DroppedAgain

\* The same without exception, as the code has it: connections that have been
\* closed are released (socket/sockme.cpp:432).
ClosedAreReleased == \A c \in Clients : peer[c] = "reset" ~> peer[c] = "none"
=============================================================================
