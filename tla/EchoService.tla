---------------------------- MODULE EchoService -----------------------------
(***************************************************************************)
(* What serviceHeartBeat (socket/sockme.cpp:349, 432) promises: what a     *)
(* client sends is received and sent back, and connections that have been  *)
(* closed are released; with no select, no walk through a list and no      *)
(* order among the connections that are open.  What is promised is to do   *)
(* nothing else: no connection is given up, and no data taken, but so.     *)
(***************************************************************************)
EXTENDS Naturals, Sequences, FiniteSets

CONSTANTS Clients, Limit

VARIABLES
  peer,      \* the client's side of each connection
  unread,    \* whether it has sent something that is not received yet
  waiting,   \* the connections to be accepted, oldest first
  open       \* the connections that are served

vars == <<peer, unread, waiting, open>>

Init ==
  /\ peer = [c \in Clients |-> "none"] /\ unread = [c \in Clients |-> FALSE]
  /\ waiting = <<>> /\ open = {}

Connect(c) ==
  /\ peer[c] = "none" /\ peer' = [peer EXCEPT ![c] = "up"]
  /\ waiting' = Append(waiting, c)
  /\ UNCHANGED <<unread, open>>

Beat(c) ==
  /\ peer[c] = "up" /\ unread' = [unread EXCEPT ![c] = TRUE]
  /\ UNCHANGED <<peer, waiting, open>>

Close(c) ==
  /\ peer[c] = "up" /\ peer' = [peer EXCEPT ![c] = "closed"]
  /\ UNCHANGED <<unread, waiting, open>>

\* Only a client that is gone takes back what it sent.
Reset(c) ==
  /\ peer[c] = "up" /\ peer' = [peer EXCEPT ![c] = "reset"]
  /\ unread' = [unread EXCEPT ![c] = FALSE]
  /\ UNCHANGED <<waiting, open>>

\* The oldest connection is accepted, unless it is gone.
Accept ==
  /\ waiting # <<>> /\ Cardinality(open) < Limit
  /\ waiting' = Tail(waiting)
  /\ LET c == Head(waiting) IN
       \/ open' = open \cup {c} /\ UNCHANGED peer
       \/ peer[c] = "reset" /\ peer' = [peer EXCEPT ![c] = "none"] /\ UNCHANGED open
  /\ UNCHANGED unread

\* A client that has closed its side answers what it gets with a reset.
Echo(c) ==
  /\ c \in open /\ (unread[c] \/ peer[c] = "closed")
  /\ unread' = [unread EXCEPT ![c] = FALSE]
  /\ peer' = IF peer[c] = "closed" THEN [peer EXCEPT ![c] = "reset"] ELSE peer
  /\ UNCHANGED <<waiting, open>>

Release(c) ==
  /\ c \in open /\ peer[c] = "reset"
  /\ open' = open \ {c} /\ peer' = [peer EXCEPT ![c] = "none"]
  /\ UNCHANGED <<unread, waiting>>

Next ==
  \/ Accept
  \/ \E c \in Clients : Connect(c) \/ Beat(c) \/ Close(c) \/ Reset(c) \/ Echo(c) \/ Release(c)

Spec == Init /\ [][Next]_vars
=============================================================================
