--------------------------- MODULE HeartbeatProofs --------------------------
(***************************************************************************)
(* Proofs about HeartbeatServer, for any number of clients and any size of *)
(* an FD_SET: every connection is in one place, the server closes only     *)
(* connections whose client is gone, and it implements EchoService.        *)
(***************************************************************************)
EXTENDS HeartbeatServer, SequenceTheorems, FiniteSetTheorems, TLAPS

States == {"none", "up", "closed", "reset"}

Typed ==
  /\ peer \in [Clients -> States] /\ unread \in [Clients -> BOOLEAN]
  /\ backlog \in Seq(Clients) /\ m_lstSocket \in Seq(Clients)
  /\ fdread \in SUBSET Clients
  /\ pc \in {"select", "accept", "serve"}

\* The two lists have no connection twice, share none, and hold no connection
\* that the client's side has not.
Distinct(s) == \A i, j \in 1..Len(s) : s[i] = s[j] => i = j
Lists ==
  /\ Distinct(backlog) /\ Distinct(m_lstSocket)
  /\ \A i \in 1..Len(backlog) : \A j \in 1..Len(m_lstSocket) : backlog[i] # m_lstSocket[j]
  /\ \A i \in 1..Len(backlog) : peer[backlog[i]] # "none"
  /\ \A j \in 1..Len(m_lstSocket) : peer[m_lstSocket[j]] # "none"
  /\ Len(m_lstSocket) <= FD_SETSIZE

\* What select found readable stays so until it is served: only the server
\* itself takes the data, and nobody comes back.
Served ==
  /\ \A c \in fdread : Readable(c) /\ (\E j \in 1..Len(m_lstSocket) : m_lstSocket[j] = c)
  /\ \A c \in Clients : peer[c] \in {"none", "reset"} => ~unread[c]
  /\ pc = "serve" => fdread # {}
  /\ pc = "accept" => backlog # <<>>

IInv == Typed /\ Lists /\ Served
-----------------------------------------------------------------------------
(* Sequences.                                                              *)

\* What erase leaves of a list, here one without the element at i.
LEMMA RemoveAtProperties ==
  ASSUME NEW S, NEW s \in Seq(S), NEW i \in 1..Len(s)
  PROVE  /\ RemoveAt(s, i) \in Seq(S) /\ Len(RemoveAt(s, i)) = Len(s) - 1
         /\ \A j \in 1..Len(s)-1 : RemoveAt(s, i)[j] = IF j < i THEN s[j] ELSE s[j + 1]
<1> DEFINE l == SubSeq(s, 1, i - 1)
           r == SubSeq(s, i + 1, Len(s))
<1>1. Len(s) \in Nat /\ i \in Nat /\ \A j \in 1..Len(s) : s[j] \in S
  BY LenProperties, ElementOfSeq
<1>2. /\ l \in Seq(S) /\ Len(l) = i - 1
      /\ \A j \in 1..i-1 : l[j] = s[j]
  BY <1>1, SubSeqProperties
<1>3. /\ r \in Seq(S) /\ Len(r) = Len(s) - i
      /\ \A j \in 1..Len(s)-i : r[j] = s[i + j]
  <2>1. /\ r \in Seq(S) /\ Len(r) = IF i + 1 <= Len(s) THEN Len(s) - (i + 1) + 1 ELSE 0
        /\ \A j \in 1..Len(s)-(i+1)+1 : r[j] = s[i + 1 + j - 1]
    BY <1>1, SubSeqProperties
  <2>. HIDE DEF r
  <2>2. ASSUME NEW j \in 1..Len(s)-i PROVE r[j] = s[i + j]
    <3>1. j \in 1..Len(s)-(i+1)+1 /\ i + 1 + j - 1 = i + j
      BY <1>1
    <3>. QED  BY <2>1, <3>1
  <2>. QED  BY <1>1, <2>1, <2>2
<1>. HIDE DEF l, r
<1>4. /\ l \o r \in Seq(S) /\ Len(l \o r) = Len(s) - 1
      /\ \A j \in 1..Len(s)-1 : (l \o r)[j] = IF j <= i - 1 THEN l[j] ELSE r[j - (i - 1)]
  BY <1>1, <1>2, <1>3, ConcatProperties
<1>5. ASSUME NEW j \in 1..Len(s)-1 PROVE (l \o r)[j] = IF j < i THEN s[j] ELSE s[j + 1]
  <2>1. CASE j < i
    BY <1>1, <1>2, <1>4, <2>1
  <2>2. CASE ~(j < i)
    <3>1. j - (i - 1) \in 1..Len(s)-i /\ i + (j - (i - 1)) = j + 1
      BY <1>1, <2>2
    <3>. QED  BY <1>1, <1>3, <1>4, <2>2, <3>1
  <2>. QED  BY <2>1, <2>2
<1>. QED  BY <1>4, <1>5 DEF RemoveAt, l, r

\* What push_front makes of a list.
LEMMA ConsProperties ==
  ASSUME NEW S, NEW s \in Seq(S), NEW e \in S
  PROVE  /\ <<e>> \o s \in Seq(S) /\ Len(<<e>> \o s) = Len(s) + 1
         /\ \A j \in 1..Len(s)+1 : (<<e>> \o s)[j] = IF j = 1 THEN e ELSE s[j - 1]
<1>1. <<e>> \in Seq(S) /\ Len(<<e>>) = 1 /\ Len(s) \in Nat /\ <<e>>[1] = e
  BY LenProperties
<1>. QED  BY <1>1, ConcatProperties
-----------------------------------------------------------------------------
(* The invariant.                                                          *)

LEMMA InitInvariant == Init => IInv
<1>1. \A s \in {<<>>} : s \in Seq(Clients) /\ Len(s) = 0
  BY EmptySeq
<1>. QED
  BY <1>1, SetSizeType DEF Init, IInv, Typed, Lists, Served, Distinct, States

LEMMA ConnectInvariant == ASSUME IInv, NEW c \in Clients, Connect(c) PROVE IInv'
<1>1. /\ peer[c] = "none" /\ peer' = [peer EXCEPT ![c] = "up"] /\ backlog' = Append(backlog, c)
      /\ UNCHANGED <<unread, m_lstSocket, fdread, pc>>
  BY DEF Connect
<1>2. /\ backlog \in Seq(Clients) /\ m_lstSocket \in Seq(Clients)
      /\ Len(backlog) \in Nat /\ Len(m_lstSocket) \in Nat
      /\ peer \in [Clients -> States]
      /\ \A i \in 1..Len(backlog) : backlog[i] \in Clients
      /\ \A i \in 1..Len(m_lstSocket) : m_lstSocket[i] \in Clients
  BY LenProperties, ElementOfSeq DEF IInv, Typed
<1>3. /\ backlog' \in Seq(Clients) /\ backlog' # <<>> /\ Len(backlog') = Len(backlog) + 1
      /\ \A i \in 1..Len(backlog) : backlog'[i] = backlog[i]
      /\ backlog'[Len(backlog) + 1] = c
  BY <1>1, <1>2, AppendProperties
<1>4. Typed'
  BY <1>1, <1>3 DEF IInv, Typed, States
<1>5. /\ \A i \in 1..Len(backlog) : backlog[i] # c
      /\ \A i \in 1..Len(m_lstSocket) : m_lstSocket[i] # c
  BY <1>1 DEF IInv, Lists
<1>6. Lists'
  <2>1. Distinct(backlog)'
    BY <1>2, <1>3, <1>5 DEF IInv, Lists, Distinct
  <2>2. \A i \in 1..Len(backlog') : \A j \in 1..Len(m_lstSocket) : backlog'[i] # m_lstSocket[j]
    BY <1>2, <1>3, <1>5 DEF IInv, Lists
  <2>3. \A i \in 1..Len(backlog') : peer'[backlog'[i]] # "none"
    BY <1>1, <1>2, <1>3, <1>5 DEF IInv, Lists
  <2>4. \A j \in 1..Len(m_lstSocket) : peer'[m_lstSocket[j]] # "none"
    BY <1>1, <1>2, <1>5 DEF IInv, Lists
  <2>. QED  BY <1>1, <2>1, <2>2, <2>3, <2>4 DEF IInv, Lists, Distinct
<1>7. Served'
  BY <1>1, <1>2, <1>3, <1>5 DEF IInv, Served, Readable
<1>. QED  BY <1>4, <1>6, <1>7 DEF IInv

\* A client that beats or ends stays where it is, and readable if it was.
LEMMA BeatInvariant == ASSUME IInv, NEW c \in Clients, Beat(c) PROVE IInv'
BY DEF Beat, IInv, Typed, Lists, Served, Readable, Distinct

LEMMA EndInvariant == ASSUME IInv, NEW c \in Clients, End(c) PROVE IInv'
<1>1. /\ peer[c] = "up" /\ UNCHANGED <<backlog, m_lstSocket, fdread, pc>>
      /\ \/ peer' = [peer EXCEPT ![c] = "closed"] /\ UNCHANGED unread
         \/ /\ peer' = [peer EXCEPT ![c] = "reset"]
            /\ unread' = [unread EXCEPT ![c] = FALSE]
  BY DEF End
<1>2. /\ peer \in [Clients -> States] /\ unread \in [Clients -> BOOLEAN]
      /\ \A i \in 1..Len(backlog) : backlog[i] \in Clients
      /\ \A i \in 1..Len(m_lstSocket) : m_lstSocket[i] \in Clients
  BY ElementOfSeq DEF IInv, Typed
<1>3. Typed'
  BY <1>1, <1>2 DEF IInv, Typed, States
<1>4. Lists'
  BY <1>1, <1>2 DEF IInv, Lists, Distinct
<1>5. Served'
  BY <1>1, <1>2 DEF IInv, Served, Readable, Typed
<1>. QED  BY <1>3, <1>4, <1>5 DEF IInv

\* What is watched is in the list.
LEMMA SelectInvariant == ASSUME IInv, Select PROVE IInv'
<1>1. /\ fdread' = Ready /\ pc' \in {"accept", "serve"} /\ UNCHANGED <<peer, unread, backlog, m_lstSocket>>
      /\ pc' = "accept" => backlog # <<>>
      /\ pc' = "serve" => Ready # {}
  BY DEF Select, network
<1>2. \A j \in DOMAIN m_lstSocket : j \in 1..Len(m_lstSocket) /\ m_lstSocket[j] \in Clients
  BY LenProperties, ElementOfSeq DEF IInv, Typed
<1>3. \A c \in Ready : c \in Clients /\ Readable(c) /\ \E j \in 1..Len(m_lstSocket) : m_lstSocket[j] = c
  BY <1>2 DEF Ready, Watched
<1>4. Typed'
  BY <1>1, <1>3 DEF IInv, Typed
<1>5. Lists'
  BY <1>1 DEF IInv, Lists, Distinct
<1>6. Served'
  BY <1>1, <1>3 DEF IInv, Served, Readable
<1>. QED  BY <1>4, <1>5, <1>6 DEF IInv

\* A connection that is accepted moves from one list to the other.
LEMMA AcceptInvariant == ASSUME IInv, Accept PROVE IInv'
<1>1. /\ backlog \in Seq(Clients) /\ m_lstSocket \in Seq(Clients) /\ backlog # <<>>
      /\ Len(backlog) \in Nat \ {0} /\ Len(m_lstSocket) \in Nat
      /\ peer \in [Clients -> States] /\ fdread \in SUBSET Clients
      /\ \A i \in 1..Len(backlog) : backlog[i] \in Clients
      /\ \A i \in 1..Len(m_lstSocket) : m_lstSocket[i] \in Clients
  BY LenProperties, ElementOfSeq, EmptySeq DEF IInv, Typed, Served, Accept
<1>2. /\ Head(backlog) = backlog[1] /\ Head(backlog) \in Clients
      /\ Tail(backlog) \in Seq(Clients) /\ Len(Tail(backlog)) = Len(backlog) - 1
      /\ \A i \in 1..Len(backlog)-1 : Tail(backlog)[i] = backlog[i + 1]
  BY <1>1, HeadTailProperties
<1>3. CASE Full
  <2>1. pc' = "select" /\ fdread' = {} /\ UNCHANGED <<peer, unread, backlog, m_lstSocket>>
    BY <1>3 DEF Accept
  <2>. QED  BY <2>1 DEF IInv, Typed, Lists, Served, Readable, Distinct
<1>4. CASE ~Full
  <2> DEFINE c == Head(backlog)
  <2>1. /\ backlog' = Tail(backlog) /\ fdread' = fdread /\ unread' = unread
        /\ pc' = IF fdread = {} THEN "select" ELSE "serve"
        /\ \/ peer[c] = "reset" /\ peer' = [peer EXCEPT ![c] = "none"] /\ m_lstSocket' = m_lstSocket
           \/ m_lstSocket' = <<c>> \o m_lstSocket /\ peer' = peer
    BY <1>4 DEF Accept
  <2>2. /\ \A i \in 1..Len(backlog)-1 : backlog[i + 1] # c
        /\ \A j \in 1..Len(m_lstSocket) : m_lstSocket[j] # c
        /\ peer[c] # "none"
    BY <1>1, <1>2 DEF IInv, Lists, Distinct
  <2>3. c \notin fdread
    BY <2>2 DEF IInv, Served
  <2>. HIDE DEF c
  <2>4. /\ \A i, j \in 1..Len(backlog') : backlog'[i] = backlog'[j] => i = j
        /\ \A i \in 1..Len(backlog') : /\ backlog'[i] \in Clients /\ backlog'[i] # c
                                       /\ peer[backlog'[i]] # "none"
                                       /\ \A j \in 1..Len(m_lstSocket) : backlog'[i] # m_lstSocket[j]
    <3>1. \A i \in 1..Len(backlog') : i + 1 \in 1..Len(backlog) /\ backlog'[i] = backlog[i + 1] /\ i \in Int
      BY <1>1, <1>2, <2>1
    <3>2. \A i \in 1..Len(backlog') : backlog'[i] # c
      BY <1>1, <1>2, <2>1, <2>2
    <3>. QED  BY <1>1, <3>1, <3>2 DEF IInv, Lists, Distinct
  <2>5. CASE peer[c] = "reset" /\ peer' = [peer EXCEPT ![c] = "none"] /\ m_lstSocket' = m_lstSocket
    <3>1. Typed'
      BY <1>1, <1>2, <2>1, <2>5 DEF IInv, Typed, States
    <3>2. Lists'
      BY <1>1, <2>2, <2>4, <2>5 DEF IInv, Lists, Distinct
    <3>3. \A d \in fdread : Readable(d)' /\ \E j \in 1..Len(m_lstSocket) : m_lstSocket[j] = d
      BY <1>1, <2>1, <2>3, <2>5 DEF IInv, Served, Readable
    <3>4. \A d \in Clients : peer'[d] \in {"none", "reset"} => ~unread'[d]
      <4>1. peer[c] = "reset" => ~unread[c]
        BY <1>2 DEF IInv, Served, c
      <4>. QED  BY <1>1, <2>1, <2>5, <4>1 DEF IInv, Served
    <3>. QED  BY <2>1, <2>5, <3>1, <3>2, <3>3, <3>4 DEF IInv, Served
  <2>6. CASE m_lstSocket' = <<c>> \o m_lstSocket /\ peer' = peer
    <3>1. /\ m_lstSocket' \in Seq(Clients) /\ Len(m_lstSocket') = Len(m_lstSocket) + 1
          /\ \A j \in 1..Len(m_lstSocket)+1 :
               m_lstSocket'[j] = IF j = 1 THEN c ELSE m_lstSocket[j - 1]
      BY <1>1, <1>2, <2>6, ConsProperties DEF c
    <3>2. Typed'
      BY <1>1, <1>2, <2>1, <2>6, <3>1 DEF IInv, Typed
    <3>3. Len(m_lstSocket') <= FD_SETSIZE
      BY <1>1, <1>4, <3>1, SetSizeType DEF Full
    <3>4. \A j \in 1..Len(m_lstSocket') :
            j # 1 => j - 1 \in 1..Len(m_lstSocket) /\ m_lstSocket'[j] = m_lstSocket[j - 1]
      BY <1>1, <3>1
    <3>5. 1 \in 1..Len(m_lstSocket') /\ m_lstSocket'[1] = c
      BY <1>1, <3>1
    <3>6. Distinct(m_lstSocket)'
      <4>1. \A i, j \in 1..Len(m_lstSocket') : i \in Int /\ j \in Int /\ (i - 1 = j - 1 => i = j)
        OBVIOUS
      <4>. QED  BY <2>2, <3>4, <3>5, <4>1 DEF IInv, Lists, Distinct
    <3>7. Lists'
      BY <1>1, <2>2, <2>4, <2>6, <3>3, <3>4, <3>5, <3>6 DEF IInv, Lists, Distinct
    <3>8. \A d \in fdread : \E j \in 1..Len(m_lstSocket') : m_lstSocket'[j] = d
      <4>1. \A j \in 1..Len(m_lstSocket) : /\ j + 1 \in 1..Len(m_lstSocket')
                                           /\ m_lstSocket'[j + 1] = m_lstSocket[j]
        BY <1>1, <3>1
      <4>. QED  BY <4>1 DEF IInv, Served
    <3>. QED  BY <2>1, <2>6, <3>2, <3>7, <3>8 DEF IInv, Served, Readable
  <2>. QED  BY <2>1, <2>5, <2>6
<1>. QED  BY <1>3, <1>4

LEMMA AnswerInvariant ==
  ASSUME IInv, Serve, NEW i \in DOMAIN m_lstSocket, Turn(i), Answer(i) PROVE IInv'
<1> DEFINE c == m_lstSocket[i]
<1>1. c \in Clients
  BY LenProperties, ElementOfSeq DEF IInv, Typed
<1>2. /\ unread' = [unread EXCEPT ![c] = FALSE]
      /\ peer' = IF peer[c] = "closed" THEN [peer EXCEPT ![c] = "reset"] ELSE peer
      /\ fdread' = fdread \ {c} /\ pc' = (IF fdread' # {} THEN "serve" ELSE "select")
      /\ UNCHANGED <<m_lstSocket, backlog>>
  BY DEF Answer, Serve
<1>. HIDE DEF c
<1>3. /\ peer \in [Clients -> States] /\ unread \in [Clients -> BOOLEAN] /\ fdread \in SUBSET Clients
      /\ \A j \in 1..Len(backlog) : backlog[j] \in Clients
      /\ \A j \in 1..Len(m_lstSocket) : m_lstSocket[j] \in Clients
  BY ElementOfSeq DEF IInv, Typed
<1>4. Typed'
  BY <1>1, <1>2, <1>3 DEF IInv, Typed, States
<1>5. /\ \A d \in Clients : peer'[d] = "none" <=> peer[d] = "none"
      /\ \A d \in Clients \ {c} : peer'[d] = peer[d] /\ unread'[d] = unread[d]
      /\ ~unread'[c]
  BY <1>1, <1>2, <1>3
<1>6. Lists'
  BY <1>2, <1>3, <1>5 DEF IInv, Lists, Distinct
<1>7. Served'
  BY <1>2, <1>3, <1>5 DEF IInv, Served, Readable
<1>. QED  BY <1>4, <1>6, <1>7 DEF IInv

\* The connection that is dropped is in the list once, and select will look at
\* the others again.
LEMMA DropInvariant ==
  ASSUME IInv, Serve, NEW i \in DOMAIN m_lstSocket, Turn(i), Drop(i) PROVE IInv'
<1> DEFINE c == m_lstSocket[i]
<1>1. c \in Clients /\ i \in 1..Len(m_lstSocket) /\ Len(m_lstSocket) \in Nat
  BY LenProperties, ElementOfSeq DEF IInv, Typed
<1>2. /\ m_lstSocket' = RemoveAt(m_lstSocket, i) /\ peer' = [peer EXCEPT ![c] = "none"]
      /\ fdread' = {} /\ pc' = "select" /\ UNCHANGED <<unread, backlog>> /\ ~unread[c]
  BY DEF Drop, Serve, Receives
<1>3. /\ peer \in [Clients -> States]
      /\ \A j \in 1..Len(backlog) : backlog[j] \in Clients /\ backlog[j] # c
      /\ \A j \in 1..Len(m_lstSocket) : m_lstSocket[j] \in Clients
  BY <1>1, ElementOfSeq DEF IInv, Typed, Lists
<1>4. /\ m_lstSocket' \in Seq(Clients) /\ Len(m_lstSocket') = Len(m_lstSocket) - 1
      /\ \A j \in 1..Len(m_lstSocket)-1 :
           m_lstSocket'[j] = IF j < i THEN m_lstSocket[j] ELSE m_lstSocket[j + 1]
  BY <1>1, <1>2, RemoveAtProperties DEF IInv, Typed
<1>5. ASSUME NEW j \in 1..Len(m_lstSocket')
      PROVE  \E k \in 1..Len(m_lstSocket) :
               m_lstSocket'[j] = m_lstSocket[k] /\ k # i /\ k = IF j < i THEN j ELSE j + 1
  BY <1>1, <1>4
<1>6. Distinct(m_lstSocket)'
  <2>1. SUFFICES ASSUME NEW j \in 1..Len(m_lstSocket'), NEW k \in 1..Len(m_lstSocket'),
                        m_lstSocket'[j] = m_lstSocket'[k]
                 PROVE  j = k
    BY DEF Distinct
  <2>2. (IF j < i THEN j ELSE j + 1) = (IF k < i THEN k ELSE k + 1)
    BY <1>5, <2>1 DEF IInv, Lists, Distinct
  <2>. QED  BY <1>1, <2>2
<1>7. \A j \in 1..Len(m_lstSocket') :
        /\ m_lstSocket'[j] \in Clients /\ m_lstSocket'[j] # c /\ peer[m_lstSocket'[j]] # "none"
        /\ \A k \in 1..Len(backlog) : backlog[k] # m_lstSocket'[j]
  <2>1. TAKE j \in 1..Len(m_lstSocket')
  <2>2. PICK k \in 1..Len(m_lstSocket) : m_lstSocket'[j] = m_lstSocket[k] /\ k # i
    BY <1>5
  <2>3. m_lstSocket[k] # c
    BY <1>1, <2>2 DEF IInv, Lists, Distinct
  <2>. QED  BY <1>3, <2>2, <2>3 DEF IInv, Lists
<1>. HIDE DEF c
<1>8. Lists'
  <2>1. Len(m_lstSocket') <= FD_SETSIZE
    BY <1>1, <1>4, SetSizeType DEF IInv, Lists
  <2>2. \A d \in Clients \ {c} : peer'[d] = peer[d]
    BY <1>2, <1>3
  <2>. QED  BY <1>2, <1>3, <1>6, <1>7, <2>1, <2>2 DEF IInv, Lists, Distinct
<1>9. Typed'
  BY <1>1, <1>2, <1>3, <1>4 DEF IInv, Typed, States
<1>10. Served'
  BY <1>1, <1>2, <1>3 DEF IInv, Served
<1>. QED  BY <1>8, <1>9, <1>10 DEF IInv

LEMMA StepInvariant == IInv /\ [Next]_vars => IInv'
<1>1. CASE UNCHANGED vars
  BY <1>1 DEF vars, IInv, Typed, Lists, Served, Readable, Distinct
<1>2. CASE Next
  <2>1. Serve => \E i \in DOMAIN m_lstSocket : Turn(i) /\ (Answer(i) \/ Drop(i))
    BY DEF Serve
  <2>. QED
    BY <1>2, <2>1, ConnectInvariant, BeatInvariant, EndInvariant, SelectInvariant,
       AcceptInvariant, AnswerInvariant, DropInvariant DEF Next, Server
<1>. QED  BY <1>1, <1>2

LEMMA Invariant == Spec => []IInv
BY InitInvariant, StepInvariant, PTL DEF Spec

\* Every connection the server knows is in one of its two lists, once, and its
\* list is never longer than an FD_SET (socket/sockme.cpp:398).
THEOREM TypeCorrect == Spec => []TypeOK
<1>1. ASSUME IInv PROVE TypeOK
  <2> DEFINE S == {c \in Clients : peer[c] # "none"}
             both == backlog \o m_lstSocket
  <2>1. /\ backlog \in Seq(Clients) /\ m_lstSocket \in Seq(Clients)
        /\ Len(backlog) \in Nat /\ Len(m_lstSocket) \in Nat
        /\ \A i \in 1..Len(backlog) : backlog[i] \in S
        /\ \A i \in 1..Len(m_lstSocket) : m_lstSocket[i] \in S
    BY <1>1, LenProperties, ElementOfSeq DEF IInv, Typed, Lists
  <2>2. backlog \in Seq(S) /\ m_lstSocket \in Seq(S) /\ DOMAIN m_lstSocket = 1..Len(m_lstSocket)
    <3>1. backlog \in [1..Len(backlog) -> S] /\ m_lstSocket \in [1..Len(m_lstSocket) -> S]
      BY <2>1, LenProperties
    <3>. QED  BY <2>1, <3>1, SeqDef
  <2>. HIDE DEF S
  <2>3. /\ both \in Seq(S) /\ DOMAIN both = 1..Len(backlog)+Len(m_lstSocket)
        /\ \A i \in 1..Len(backlog)+Len(m_lstSocket) :
             both[i] = IF i <= Len(backlog) THEN backlog[i] ELSE m_lstSocket[i - Len(backlog)]
    BY <2>2, ConcatProperties, LenProperties
  <2>. HIDE DEF both
  <2>4. ASSUME NEW i \in DOMAIN both, NEW j \in DOMAIN both, both[i] = both[j] PROVE i = j
    <3>1. /\ i \in Nat /\ i <= Len(backlog) => i \in 1..Len(backlog)
          /\ i > Len(backlog) => i - Len(backlog) \in 1..Len(m_lstSocket)
      BY <2>1, <2>3
    <3>2. /\ j \in Nat /\ j <= Len(backlog) => j \in 1..Len(backlog)
          /\ j > Len(backlog) => j - Len(backlog) \in 1..Len(m_lstSocket)
      BY <2>1, <2>3
    <3>3. CASE i <= Len(backlog) /\ j <= Len(backlog)
      BY <1>1, <2>3, <2>4, <3>1, <3>2, <3>3 DEF IInv, Lists, Distinct
    <3>4. CASE i <= Len(backlog) /\ ~(j <= Len(backlog))
      BY <1>1, <2>1, <2>3, <2>4, <3>1, <3>2, <3>4 DEF IInv, Lists
    <3>5. CASE ~(i <= Len(backlog)) /\ j <= Len(backlog)
      BY <1>1, <2>1, <2>3, <2>4, <3>1, <3>2, <3>5 DEF IInv, Lists
    <3>6. CASE ~(i <= Len(backlog)) /\ ~(j <= Len(backlog))
      <4>1. i - Len(backlog) = j - Len(backlog)
        BY <1>1, <2>1, <2>3, <2>4, <3>1, <3>2, <3>6 DEF IInv, Lists, Distinct
      <4>. QED  BY <2>1, <3>1, <3>2, <4>1
    <3>. QED  BY <3>3, <3>4, <3>5, <3>6
  <2>5. IsInjective(both)
    BY <2>4 DEF IsInjective
  <2>6. fdread \subseteq ToSet(m_lstSocket)
    BY <1>1, <2>2 DEF IInv, Served, ToSet
  <2>. QED  BY <1>1, <2>3, <2>5, <2>6 DEF IInv, Typed, Lists, Served, TypeOK, States, S, both
<1>. QED  BY <1>1, Invariant, PTL

\* The server closes only connections whose client is gone: it never tries recv
\* where there is nothing to read (socket/sockme.cpp:416).
THEOREM LivingAreKept == Spec => KeepsTheLiving
<1> DEFINE Kept == \A c \in ToSet(m_lstSocket) \ ToSet(m_lstSocket') : peer[c] = "reset"
<1>1. ASSUME IInv, [Next]_vars PROVE Kept
  <2>1. /\ m_lstSocket \in Seq(Clients) /\ Len(m_lstSocket) \in Nat
        /\ DOMAIN m_lstSocket = 1..Len(m_lstSocket)
    BY <1>1, LenProperties DEF IInv, Typed
  <2>2. CASE m_lstSocket' = m_lstSocket
    BY <2>2
  <2>3. CASE Accept /\ m_lstSocket' # m_lstSocket
    <3>1. m_lstSocket' = <<Head(backlog)>> \o m_lstSocket /\ backlog # <<>> /\ backlog \in Seq(Clients)
      BY <1>1, <2>3 DEF Accept, IInv, Served, Typed
    <3>2. Head(backlog) \in Clients
      BY <3>1, HeadTailProperties
    <3>3. /\ m_lstSocket' \in Seq(Clients) /\ Len(m_lstSocket') = Len(m_lstSocket) + 1
          /\ \A j \in 1..Len(m_lstSocket)+1 :
               m_lstSocket'[j] = IF j = 1 THEN Head(backlog) ELSE m_lstSocket[j - 1]
      BY <2>1, <3>1, <3>2, ConsProperties
    <3>4. DOMAIN m_lstSocket' = 1..Len(m_lstSocket)+1
      BY <3>3, LenProperties
    <3>5. \A j \in DOMAIN m_lstSocket : j + 1 \in DOMAIN m_lstSocket' /\ m_lstSocket'[j + 1] = m_lstSocket[j]
      BY <2>1, <3>3, <3>4
    <3>. QED  BY <3>5 DEF ToSet
  <2>4. CASE Serve /\ m_lstSocket' # m_lstSocket
    <3>1. PICK i \in DOMAIN m_lstSocket : Turn(i) /\ Drop(i)
      BY <2>4 DEF Serve, Answer
    <3>2. /\ m_lstSocket' \in Seq(Clients) /\ Len(m_lstSocket') = Len(m_lstSocket) - 1
          /\ \A j \in 1..Len(m_lstSocket)-1 :
               m_lstSocket'[j] = IF j < i THEN m_lstSocket[j] ELSE m_lstSocket[j + 1]
      BY <2>1, <3>1, RemoveAtProperties DEF Drop
    <3>3. DOMAIN m_lstSocket' = 1..Len(m_lstSocket)-1
      BY <2>1, <3>2, LenProperties
    <3>4. ASSUME NEW j \in DOMAIN m_lstSocket, j # i PROVE m_lstSocket[j] \in ToSet(m_lstSocket')
      <4>1. CASE j < i
        BY <2>1, <3>2, <3>3, <4>1 DEF ToSet
      <4>2. CASE i < j
        <5>1. j - 1 \in DOMAIN m_lstSocket' /\ m_lstSocket'[j - 1] = m_lstSocket[j]
          BY <2>1, <3>2, <3>3, <4>2
        <5>. QED  BY <5>1 DEF ToSet
      <4>. QED  BY <2>1, <3>4, <4>1, <4>2
    <3>5. peer[m_lstSocket[i]] = "reset"
      BY <1>1, <3>1 DEF Turn, Drop, Receives, IInv, Served, Readable
    <3>. QED  BY <3>4, <3>5 DEF ToSet
  <2>5. Accept \/ Serve \/ m_lstSocket' = m_lstSocket
    BY <1>1 DEF Next, Server, Connect, Beat, End, Select, vars
  <2>. QED  BY <2>2, <2>3, <2>4, <2>5
<1>2. IInv /\ [Next]_vars => [Kept]_vars
  BY <1>1
<1>. HIDE DEF Kept
<1>3. Spec => [][Kept]_vars
  BY <1>2, Invariant, PTL DEF Spec
<1>. QED  BY <1>3 DEF KeepsTheLiving, Kept
-----------------------------------------------------------------------------
(* EchoService.                                                            *)

\* The list as a set: what it has, and how much at most.
LEMMA ListAsSet ==
  ASSUME NEW S, NEW s \in Seq(S)
  PROVE  /\ ToSet(s) = {s[i] : i \in 1..Len(s)}
         /\ Cardinality(ToSet(s)) <= Len(s) /\ Cardinality(ToSet(s)) \in Nat
<1>1. s \in [1..Len(s) -> S] /\ Len(s) \in Nat /\ DOMAIN s = 1..Len(s)
  BY LenProperties
<1>2. ToSet(s) = {s[i] : i \in 1..Len(s)}
  BY <1>1 DEF ToSet
<1>3. s \in Surjection(1..Len(s), ToSet(s))
  BY <1>1, <1>2 DEF Surjection
<1>4. IsFiniteSet(1..Len(s)) /\ Cardinality(1..Len(s)) = Len(s)
  <2>1. /\ IsFiniteSet(1..Len(s))
        /\ Cardinality(1..Len(s)) = IF 1 > Len(s) THEN 0 ELSE Len(s) - 1 + 1
    <3>1. 1 \in Int /\ Len(s) \in Int
      BY <1>1
    <3>. QED  BY <3>1, FS_Interval
  <2>. QED  BY <1>1, <2>1
<1>5. IsFiniteSet(ToSet(s)) /\ Cardinality(ToSet(s)) <= Len(s)
  BY <1>3, <1>4, FS_Surjection
<1>. QED  BY <1>2, <1>5, FS_CardinalityType

\* What push_front makes of it.
LEMMA ConsAsSet ==
  ASSUME NEW S, NEW s \in Seq(S), NEW e \in S
  PROVE  ToSet(<<e>> \o s) = ToSet(s) \cup {e}
<1> DEFINE t == <<e>> \o s
<1>1. /\ t \in Seq(S) /\ Len(t) = Len(s) + 1 /\ Len(s) \in Nat
      /\ \A j \in 1..Len(s)+1 : t[j] = IF j = 1 THEN e ELSE s[j - 1]
  BY ConsProperties, LenProperties
<1>. HIDE DEF t
<1>2. ToSet(t) = {t[j] : j \in 1..Len(s)+1} /\ ToSet(s) = {s[j] : j \in 1..Len(s)}
  BY <1>1, ListAsSet
<1>3. ASSUME NEW j \in 1..Len(s)+1 PROVE t[j] \in ToSet(s) \cup {e}
  <2>1. j # 1 => j - 1 \in 1..Len(s)
    BY <1>1
  <2>. QED  BY <1>1, <1>2, <2>1
<1>4. 1 \in 1..Len(s)+1 /\ t[1] = e
  BY <1>1
<1>5. ASSUME NEW j \in 1..Len(s) PROVE j + 1 \in 1..Len(s)+1 /\ t[j + 1] = s[j]
  BY <1>1
<1>. QED  BY <1>2, <1>3, <1>4, <1>5 DEF t

\* EchoService counts as this module does.
LEMMA SameCardinality == ASSUME NEW S PROVE Echo!Cardinality(S) = Cardinality(S)
BY DEF Echo!Cardinality, Cardinality

\* A connection that is accepted is one more.
LEMMA AcceptIsAccept == ASSUME IInv, Accept PROVE [Echo!Next]_Echo!vars
<1> DEFINE c == Head(backlog)
<1>1. /\ backlog \in Seq(Clients) /\ m_lstSocket \in Seq(Clients) /\ backlog # <<>>
      /\ c \in Clients /\ Len(m_lstSocket) \in Nat
  BY LenProperties, HeadTailProperties DEF IInv, Typed, Served, Accept
<1>2. CASE Full
  <2>1. UNCHANGED <<peer, unread, backlog, m_lstSocket>>
    BY <1>2 DEF Accept
  <2>. QED  BY <2>1 DEF Echo!vars
<1>3. CASE ~Full
  <2>1. /\ backlog' = Tail(backlog) /\ unread' = unread
        /\ \/ peer[c] = "reset" /\ peer' = [peer EXCEPT ![c] = "none"] /\ m_lstSocket' = m_lstSocket
           \/ m_lstSocket' = <<c>> \o m_lstSocket /\ peer' = peer
    BY <1>3 DEF Accept
  <2>2. Echo!Cardinality(ToSet(m_lstSocket)) < FD_SETSIZE
    <3>1. Cardinality(ToSet(m_lstSocket)) < FD_SETSIZE
      BY <1>1, <1>3, ListAsSet, SetSizeType DEF Full
    <3>. QED  BY <3>1, SameCardinality
  <2>3. m_lstSocket' = <<c>> \o m_lstSocket => ToSet(m_lstSocket') = ToSet(m_lstSocket) \cup {c}
    <3>1. ToSet(<<c>> \o m_lstSocket) = ToSet(m_lstSocket) \cup {c}
      BY <1>1, ConsAsSet
    <3>. QED  BY <3>1
  <2>4. Echo!Accept
    <3>1. CASE peer[c] = "reset" /\ peer' = [peer EXCEPT ![c] = "none"] /\ m_lstSocket' = m_lstSocket
      <4>1. UNCHANGED ToSet(m_lstSocket)
        BY <3>1
      <4>. QED  BY <1>1, <2>1, <2>2, <3>1, <4>1 DEF Echo!Accept
    <3>2. CASE m_lstSocket' = <<c>> \o m_lstSocket /\ peer' = peer
      <4>1. (ToSet(m_lstSocket))' = ToSet(m_lstSocket) \cup {c}
        BY <2>3, <3>2
      <4>. QED  BY <1>1, <2>1, <2>2, <3>2, <4>1 DEF Echo!Accept
    <3>. QED  BY <2>1, <3>1, <3>2
  <2>. QED  BY <2>4 DEF Echo!Next
<1>. QED  BY <1>2, <1>3

\* One that is dropped has been reset, and is one less.
LEMMA DropIsRelease ==
  ASSUME IInv, Serve, NEW i \in DOMAIN m_lstSocket, Turn(i), Drop(i)
  PROVE  [Echo!Next]_Echo!vars
<1> DEFINE c == m_lstSocket[i]
<1>1. /\ m_lstSocket \in Seq(Clients) /\ Len(m_lstSocket) \in Nat /\ i \in 1..Len(m_lstSocket)
      /\ c \in Clients
  BY LenProperties, ElementOfSeq DEF IInv, Typed
<1>2. /\ m_lstSocket' = RemoveAt(m_lstSocket, i) /\ peer' = [peer EXCEPT ![c] = "none"]
      /\ UNCHANGED <<unread, backlog>>
  BY DEF Drop, Serve
<1>3. peer[c] = "reset" /\ c \in fdread
  BY DEF Turn, Drop, Receives, IInv, Served, Readable
<1>4. /\ m_lstSocket' \in Seq(Clients) /\ Len(m_lstSocket') = Len(m_lstSocket) - 1
      /\ \A j \in 1..Len(m_lstSocket)-1 :
           m_lstSocket'[j] = IF j < i THEN m_lstSocket[j] ELSE m_lstSocket[j + 1]
  BY <1>1, <1>2, RemoveAtProperties
<1>5. /\ ToSet(m_lstSocket') = {m_lstSocket'[j] : j \in 1..Len(m_lstSocket)-1}
      /\ ToSet(m_lstSocket) = {m_lstSocket[j] : j \in 1..Len(m_lstSocket)}
  BY <1>1, <1>4, ListAsSet
<1>6. \A j \in 1..Len(m_lstSocket) : j # i => m_lstSocket[j] # c
  BY <1>1 DEF IInv, Lists, Distinct
<1>. HIDE DEF c
<1>7. ASSUME NEW j \in 1..Len(m_lstSocket)-1 PROVE m_lstSocket'[j] \in ToSet(m_lstSocket) \ {c}
  <2>1. /\ j < i => j \in 1..Len(m_lstSocket) /\ j # i
        /\ ~(j < i) => j + 1 \in 1..Len(m_lstSocket) /\ j + 1 # i
    BY <1>1
  <2>. QED  BY <1>4, <1>5, <1>6, <2>1
<1>8. ASSUME NEW j \in 1..Len(m_lstSocket), m_lstSocket[j] # c
      PROVE  \E k \in 1..Len(m_lstSocket)-1 : m_lstSocket'[k] = m_lstSocket[j]
  <2>1. CASE j < i
    BY <1>1, <1>4, <2>1
  <2>2. CASE ~(j < i)
    <3>1. j # i
      BY <1>8 DEF c
    <3>2. j - 1 \in 1..Len(m_lstSocket)-1 /\ ~(j - 1 < i) /\ j - 1 + 1 = j
      BY <1>1, <2>2, <3>1
    <3>. QED  BY <1>4, <3>2
  <2>. QED  BY <2>1, <2>2
<1>9. ToSet(m_lstSocket') = ToSet(m_lstSocket) \ {c}
  BY <1>5, <1>7, <1>8
<1>10. c \in ToSet(m_lstSocket)
  BY <1>1, <1>5 DEF c
<1>11. Echo!Release(c)
  BY <1>2, <1>3, <1>9, <1>10 DEF Echo!Release
<1>. QED  BY <1>1, <1>11 DEF Echo!Next, c

\* Every step is one of EchoService or none.
LEMMA EchoStep == ASSUME IInv, [Next]_vars PROVE [Echo!Next]_Echo!vars
<1>1. CASE UNCHANGED vars
  BY <1>1 DEF vars, Echo!vars
<1>2. ASSUME NEW c \in Clients, Connect(c) \/ Beat(c) \/ End(c) PROVE Echo!Next
  <2>1. CASE Connect(c)
    BY <2>1 DEF Connect, Echo!Next, Echo!Connect
  <2>2. CASE Beat(c)
    BY <2>2 DEF Beat, Echo!Next, Echo!Beat
  <2>3. CASE End(c)
    <3>1. Echo!Close(c) \/ Echo!Reset(c)
      BY <2>3 DEF End, Echo!Close, Echo!Reset
    <3>. QED  BY <3>1 DEF Echo!Next
  <2>. QED  BY <1>2, <2>1, <2>2, <2>3
<1>3. CASE Select
  BY <1>3 DEF Select, network, Echo!vars
<1>4. CASE Accept
  BY <1>4, AcceptIsAccept
<1>5. CASE Serve
  <2>1. PICK i \in DOMAIN m_lstSocket : Turn(i) /\ (Answer(i) \/ Drop(i))
    BY <1>5 DEF Serve
  <2>2. CASE Answer(i)
    <3> DEFINE c == m_lstSocket[i]
    <3>1. c \in Clients /\ c \in ToSet(m_lstSocket)
      BY LenProperties, ElementOfSeq DEF IInv, Typed, ToSet
    <3>2. Echo!Echo(c)
      BY <1>5, <2>2, <3>1 DEF Serve, Answer, Receives, Echo!Echo
    <3>. QED  BY <3>1, <3>2 DEF Echo!Next
  <2>3. CASE Drop(i)
    BY <1>5, <2>1, <2>3, DropIsRelease
  <2>. QED  BY <2>1, <2>2, <2>3
<1>. QED  BY <1>1, <1>2, <1>3, <1>4, <1>5 DEF Next, Server

\* The server deals with each connection for itself: whatever it does is a step of
\* EchoService, in which no list, select or order among connections exists.
THEOREM Implements == Spec => ImplementsEcho
<1>1. Init => Echo!Init
  <2>1. ToSet(<<>>) = {}
    BY DEF ToSet
  <2>. QED  BY <2>1 DEF Init, Echo!Init
<1>. QED  BY <1>1, EchoStep, Invariant, PTL DEF Spec, ImplementsEcho, Echo!Spec
=============================================================================
