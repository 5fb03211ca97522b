---------------------------- MODULE RecvFraming -----------------------------
(***************************************************************************)
(* How the bytes a device sends become responses again: socket::receive    *)
(* (socket/sockme.cpp), sockcache::analysisRecvData and popRecvData        *)
(* (socket/sockcache.cpp) and the dispatch of doThreadAnalysisRecvData     *)
(* (socket/socketclient.cpp).                                              *)
(*                                                                         *)
(* A response is a type byte, any body and an end byte.  TCP delivers the  *)
(* stream of responses in pieces of any size; receive glues what fills its *)
(* buffer to what follows; the waitfor thread queues what receive returns  *)
(* and the recver thread takes apart whatever is queued when it looks.     *)
(* The two threads share only the locked queue: one action here is what a  *)
(* thread does between two accesses to it.  When they run, sleep and stop  *)
(* is SockClient's business.                                               *)
(***************************************************************************)
EXTENDS Integers, Sequences, FiniteSets, SequencesExt

CONSTANTS
  Types,       \* the bytes that say what a response is: 't', 'd', 'h', 'a'
  EOF,         \* _GTCMD_RECVTYPE_EOF, 0x0D
  Responses,   \* the responses the device may send
  BufLen,      \* SOCKET_RECVBUFF_LEN
  MaxSent      \* bound on the responses of a run

\* A response begins with its type, and neither type nor body holds an end byte.
ASSUME ResponsesShape ==
  \A r \in Responses : /\ r \in Seq(ToSet(r)) /\ Len(r) > 1 /\ r[1] \in Types
                       /\ \A i \in 1..Len(r) : r[i] = EOF <=> i = Len(r)
ASSUME BoundsPositive == BufLen \in Nat \ {0} /\ MaxSent \in Nat

VARIABLES
  aligned,   \* whether the network delivers whole responses only
  sent,      \* the responses sent so far
  wire,      \* their bytes that receive has not read
  arrived,   \* how many bytes receive has read
  data,      \* what receive has read and not returned yet
  queue,     \* m_queRecver
  cmds,      \* the responses popRecvData found that are not dispatched yet
  cmdflag,   \* the message number the dispatcher used last
  shown,     \* everything dispatched: responses with message or event
  whole      \* the responses that came whole in one piece of data, in order

vars == <<aligned, sent, wire, arrived, data, queue, cmds, cmdflag, shown, whole>>

Init ==
  /\ aligned \in BOOLEAN
  /\ sent = <<>> /\ wire = <<>> /\ arrived = 0 /\ data = <<>> /\ queue = <<>>
  /\ cmds = <<>> /\ cmdflag = "none" /\ shown = <<>> /\ whole = <<>>
-----------------------------------------------------------------------------
\* Offset(s)[i] is where the first i responses of s end.
Offset(s) ==
  LET offset[i \in 0..Len(s)] == IF i = 0 THEN 0 ELSE offset[i - 1] + Len(s[i])
  IN offset

Respond(r) ==
  /\ Len(sent) < MaxSent
  /\ sent' = Append(sent, r)
  /\ wire' = wire \o r
  /\ UNCHANGED <<aligned, arrived, data, queue, cmds, cmdflag, shown, whole>>

\* How many responses begin within the first p bytes of all that was sent, and how
\* many end there; those that lie between the first from and the first to bytes.
Begun(p) == Cardinality({i \in DOMAIN sent : Offset(sent)[i - 1] < p})
Ended(p) == Cardinality({i \in DOMAIN sent : Offset(sent)[i] <= p})
WholeIn(from, to) == SubSeq(sent, Begun(from) + 1, Ended(to))

\* One recv of n bytes.  A full buffer makes receive go on; anything less ends
\* it, and what has been read is queued as one piece of data.
Mut_Full_Never(n) == FALSE
Mut_Full_Early(n) == n >= BufLen - 1
Full(n) == n = BufLen

Receive(n) ==
  LET read == data \o SubSeq(wire, 1, n)
      to == arrived + n
  IN /\ n <= Len(wire)
     /\ aligned => n = BufLen \/ wire[n] = EOF
     /\ arrived' = to
     /\ wire' = SubSeq(wire, n + 1, Len(wire))
     /\ IF Full(n) THEN data' = read /\ UNCHANGED <<queue, whole>>
        ELSE /\ data' = <<>>
             /\ queue' = Append(queue, read)
             /\ whole' = whole \o WholeIn(to - Len(read), to)
     /\ UNCHANGED <<aligned, sent, cmds, cmdflag, shown>>
-----------------------------------------------------------------------------
\* analysisRecvData: cut after every end byte; what follows the last one is
\* lost, unless there is none.
Cut(bytes, k) ==     \* where the k-th end byte is
  LET ends == {i \in DOMAIN bytes : bytes[i] = EOF}
  IN IF k = 0 THEN 0 ELSE CHOOSE i \in ends : Cardinality({j \in ends : j <= i}) = k
Cuts(bytes) == Cardinality({i \in DOMAIN bytes : bytes[i] = EOF})

Mut_Pieces_First(bytes) ==
  IF Cuts(bytes) = 0 THEN <<bytes>> ELSE <<SubSeq(bytes, 1, Cut(bytes, 1))>>
Pieces(bytes) ==
  IF Cuts(bytes) = 0 THEN <<bytes>>
  ELSE [k \in 1..Cuts(bytes) |-> SubSeq(bytes, Cut(bytes, k - 1) + 1, Cut(bytes, k))]

\* The loop body of popRecvData for one piece: a type byte starts a response,
\* anything else continues one that was started, and an end byte completes it.
Started(piece) == piece[1] \in Types

Scan(s, piece) ==
  LET now == IF Started(piece) THEN piece
             ELSE IF s.valid THEN s.data \o piece ELSE s.data
  IN IF (s.valid \/ Started(piece)) /\ Last(now) = EOF
     THEN [data |-> now, valid |-> FALSE, found |-> Append(s.found, now)]
     ELSE [data |-> now, valid |-> s.valid \/ Started(piece), found |-> s.found]

\* A piece of data overwrites what is left of the one before, whether that was
\* a response or not, and is then taken apart.
ScanData(s, bytes) ==
  LET pieces == Pieces(bytes)
      scan[k \in 0..Len(pieces)] ==
        IF k = 0 THEN [s EXCEPT !.data = bytes] ELSE Scan(scan[k - 1], pieces[k])
  IN scan[Len(pieces)]

Scanned(q) ==
  LET scan[k \in 0..Len(q)] ==
        IF k = 0 THEN [data |-> <<>>, valid |-> FALSE, found |-> <<>>]
        ELSE ScanData(scan[k - 1], q[k])
  IN scan[Len(q)]
Found(q) == Scanned(q).found

PopRecvData ==
  /\ cmds = <<>> /\ queue # <<>>
  /\ cmds' = Found(queue)
  /\ queue' = <<>>
  /\ UNCHANGED <<aligned, sent, wire, arrived, data, cmdflag, shown, whole>>

\* The window's message for a response: the G and Ac ones have none of their
\* own, and go under the number that was used last.
Flag(r) ==
  CASE r[1] = "d" -> "WM_Pn" [] r[1] = "h" -> "WM_H" [] OTHER -> cmdflag

\* An application that waits for the answer to a G or Ac command has created the
\* named event, and gets it; anybody else's response goes to the window.
Dispatch ==
  /\ cmds # <<>>
  /\ LET r == Head(cmds) IN
       \/ /\ r[1] \in {"t", "a"}
          /\ shown' = Append(shown, [msg |-> "event", bytes |-> r])
          /\ UNCHANGED cmdflag
       \/ /\ cmdflag' = Flag(r)
          /\ shown' = Append(shown, [msg |-> Flag(r), bytes |-> r])
  /\ cmds' = Tail(cmds)
  /\ UNCHANGED <<aligned, sent, wire, arrived, data, queue, whole>>

Next == \/ \E r \in Responses : Respond(r)
        \/ \E n \in 1..BufLen : Receive(n)
        \/ PopRecvData \/ Dispatch

Spec == Init /\ [][Next]_vars
-----------------------------------------------------------------------------
TypeOK ==
  /\ aligned \in BOOLEAN
  /\ sent \in Seq(Responses) /\ whole \in Seq(Responses)
  /\ arrived + Len(wire) = Offset(sent)[Len(sent)]
  /\ Len(data) % BufLen = 0
  /\ \A i \in DOMAIN queue : queue[i] # <<>>
  /\ \A i \in DOMAIN cmds : Last(cmds[i]) = EOF
  /\ cmdflag \in {"none", "WM_Pn", "WM_H"}

Handed == [i \in DOMAIN shown |-> shown[i].bytes] \o cmds \o Found(queue)

\* Packets that stick together are taken apart again (socket/sockcache.h:96,
\* socket/sockcache.cpp:99): while no response is split between two pieces of
\* data, the responses handed over are the ones sent, in order, once each.
\* Missing are only those that receive has not returned: it waits in recv for
\* more when the last read filled its buffer to the last byte.
StuckTakenApart == aligned =>
  /\ Handed = SubSeq(sent, 1, Len(Handed))
  /\ Offset(sent)[Len(Handed)] = arrived - Len(data)

\* Whatever the network does to the others, a response that came whole is handed
\* over, in its order.
SubsequenceOf(s, t) ==
  \E f \in [DOMAIN s -> DOMAIN t] :
    \A i, j \in DOMAIN s : s[i] = t[f[i]] /\ (i < j => f[i] < f[j])
WholeKept == SubsequenceOf(whole, Handed)

\* What is handed over was sent.  "Large data, sent in several packets, is
\* assumed to arrive in order" (socket/sockcache.h:31): it does here, and yet
\* a response that was split is put together wrongly.
NothingInvented == \A i \in DOMAIN Handed : Handed[i] \in ToSet(sent)
=============================================================================
