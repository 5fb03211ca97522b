-------------------------- MODULE DeskNodesProofs ---------------------------
(***************************************************************************)
(* Proofs about DeskNodes, for any number of icons and of changes.         *)
(***************************************************************************)
EXTENDS DeskNodes, SequenceTheorems, FiniteSetTheorems, TLAPS

\* A queue, or the list view: each key at most once.
Line(s) == s \in Seq(Keys) /\ IsInjective(s)

Places == {None, -1} \cup Indexes
Types ==
  /\ shell \subseteq Keys /\ Line(list) /\ changes \in 0..MaxChanges
  /\ index \in [Keys -> Places] /\ oldNodeIndex \in {-1} \cup Indexes
  /\ Line(addQueue) /\ Line(delQueue)
  /\ kept \subseteq Keys /\ quiet \in BOOLEAN

\* What the calls under way may rely on: lv that its icon stays where it is, the
\* worker that the key it works for stays the oldest of the queue.
LvCall ==
  /\ lv \in [at : {"idle", "try", "locked"}, op : {None, "find", "move"}, arg : 0..N]
  /\ lv.at # "idle" => \/ lv.op = "find" /\ lv.arg < Len(list)
                       \/ lv.op = "move" /\ lv.arg \in Keys
WorkerAt == {"idle", "find", "store", "update", "check", "place", "leave"}
WorkerCall ==
  /\ worker \in [at : WorkerAt, arg : 0..N+1, pos : Places, count : 0..N, ok : SUBSET Indexes]
  /\ worker.at \in {"find", "store", "update"} => worker.arg \in Keys
  /\ worker.at \in {"find", "store"} => addQueue # <<>>
  /\ worker.at = "store" => worker.pos \in {-1} \cup Indexes
  /\ worker.at = "update" => worker.pos \in Indexes
  /\ worker.at = "check" => worker.arg # 0

\* m_csLockNodes has one owner, the call that is under way with it.
Locked ==
  /\ lock \in {None, "lv", "worker"}
  /\ (lock = "lv") <=> (lv.at = "locked")
  /\ (lock = "worker") <=> (worker.at \notin {"idle", "update"})
CallInv == Types /\ LvCall /\ WorkerCall /\ Locked

\* As long as nothing has changed: the nodes kept are where the list view has
\* them, an index that the check passed is that of such a node, and the icons up
\* to the present one are taken care of.
Cared(k) == k \in shell => IF k \in Known THEN k \in kept ELSE k \in ToSet(addQueue)
RefreshInv ==
  worker.at \in {"check", "place", "leave"} /\ quiet =>
    /\ \A k \in kept : k \in Known /\ IsEqualNode(index[k], k)
    /\ \A p \in worker.ok : p < Len(list) /\ list[p+1] \in kept
    /\ worker.at = "place" => /\ worker.count = Len(list)
                              /\ \A i \in DOMAIN list : i <= worker.arg => Cared(list[i])
    /\ worker.at = "leave" => /\ \A i \in DOMAIN list : Cared(list[i])
                              /\ Known \ ToSet(list) \subseteq ToSet(delQueue)
-----------------------------------------------------------------------------
(* Queues and the list view.                                               *)

LEMMA Constants ==
  /\ N \in Nat \ {0} /\ MaxChanges \in Nat
  /\ None \notin Int /\ None \notin {"lv", "worker", "find", "move"}
  /\ Keys \subseteq Int /\ Indexes \subseteq Int /\ -1 \notin Indexes
  /\ \A k \in Keys : k - 1 \in Indexes
BY BoundsType, NoneDistinct DEF Keys, Indexes

LEMMA FiniteKeys == IsFiniteSet(Keys) /\ Cardinality(Keys) = N
<1>1. 1 \in Int /\ N \in Int /\ N > 0
  BY Constants
<1>2. IsFiniteSet(1..N) /\ Cardinality(1..N) = IF 1 > N THEN 0 ELSE N - 1 + 1
  BY <1>1, FS_Interval
<1>. QED  BY <1>1, <1>2 DEF Keys

LEMMA LineDomain ==
  ASSUME NEW s, Line(s)
  PROVE  /\ Len(s) \in Nat /\ DOMAIN s = 1..Len(s) /\ s \in [1..Len(s) -> Keys]
         /\ \A i \in DOMAIN s : s[i] \in Keys /\ s[i] \in ToSet(s)
         /\ \A i, j \in DOMAIN s : s[i] = s[j] => i = j
         /\ ToSet(s) \subseteq Keys
         /\ s = <<>> <=> Len(s) = 0
<1>1. Len(s) \in Nat /\ DOMAIN s = 1..Len(s) /\ s \in [1..Len(s) -> Keys]
  BY LenProperties DEF Line
<1>2. \A i \in DOMAIN s : s[i] \in Keys /\ s[i] \in ToSet(s)
  BY <1>1 DEF ToSet
<1>3. ToSet(s) \subseteq Keys
  BY <1>2 DEF ToSet
<1>4. s = <<>> <=> Len(s) = 0
  BY EmptySeq DEF Line
<1>. QED  BY <1>1, <1>2, <1>3, <1>4 DEF Line, IsInjective

\* No more icons than keys.
LEMMA LineIsShort == ASSUME NEW s, Line(s) PROVE Len(s) <= N
<1> DEFINE n == Len(s)
<1>1. n \in Nat /\ DOMAIN s = 1..n /\ s \in [1..n -> Keys] /\ \A i, j \in 1..n : s[i] = s[j] => i = j
  BY LineDomain
<1>2. IsFiniteSet(1..n) /\ Cardinality(1..n) = n
  <2>1. IsFiniteSet(1..n) /\ Cardinality(1..n) = IF 1 > n THEN 0 ELSE n - 1 + 1
    BY <1>1, FS_Interval
  <2>. HIDE DEF n
  <2>. QED  BY <1>1, <2>1
<1>3. s \in Injection(1..n, Keys)
  BY <1>1 DEF Injection, IsInjective
<1>. HIDE DEF n
<1>4. Cardinality(1..n) <= Cardinality(Keys)
  BY <1>3, FiniteKeys, FS_Injection
<1>. QED  BY <1>2, <1>4, FiniteKeys DEF n

LEMMA ConcatLine ==
  ASSUME NEW s, NEW t, Line(s), Line(t), ToSet(s) \cap ToSet(t) = {}
  PROVE  Line(s \o t) /\ ToSet(s \o t) = ToSet(s) \cup ToSet(t)
<1> DEFINE u == s \o t
<1>1. /\ Len(s) \in Nat /\ DOMAIN s = 1..Len(s) /\ (\A i \in DOMAIN s : s[i] \in ToSet(s))
      /\ Len(t) \in Nat /\ DOMAIN t = 1..Len(t) /\ (\A i \in DOMAIN t : t[i] \in ToSet(t))
      /\ (\A i, j \in DOMAIN s : s[i] = s[j] => i = j)
      /\ (\A i, j \in DOMAIN t : t[i] = t[j] => i = j)
  BY LineDomain
<1>2. /\ u \in Seq(Keys) /\ Len(u) = Len(s) + Len(t) /\ DOMAIN u = 1..Len(s) + Len(t)
      /\ \A i \in 1..Len(s) + Len(t) : u[i] = IF i <= Len(s) THEN s[i] ELSE t[i - Len(s)]
  <2>1. /\ u \in Seq(Keys) /\ Len(u) = Len(s) + Len(t)
        /\ \A i \in 1..Len(s) + Len(t) : u[i] = IF i <= Len(s) THEN s[i] ELSE t[i - Len(s)]
    BY ConcatProperties DEF Line
  <2>2. DOMAIN u = 1..Len(u)
    BY <2>1, LenProperties
  <2>. QED  BY <2>1, <2>2
<1>. HIDE DEF u
<1>3. \A i \in DOMAIN u : \/ i \in DOMAIN s /\ i <= Len(s) /\ u[i] = s[i] /\ u[i] \in ToSet(s)
                          \/ ~(i <= Len(s)) /\ i - Len(s) \in DOMAIN t /\ u[i] = t[i - Len(s)] /\ u[i] \in ToSet(t)
  <2>1. TAKE i \in DOMAIN u
  <2>2. CASE i <= Len(s)
    BY <1>1, <1>2, <2>2
  <2>3. CASE ~(i <= Len(s))
    <3>1. i - Len(s) \in 1..Len(t)
      BY <1>1, <1>2, <2>3
    <3>. QED  BY <1>1, <1>2, <2>3, <3>1
  <2>. QED  BY <2>2, <2>3
<1>4. \A i, j \in DOMAIN u : u[i] = u[j] => i = j
  <2>1. SUFFICES ASSUME NEW i \in DOMAIN u, NEW j \in DOMAIN u, u[i] = u[j] PROVE i = j
    OBVIOUS
  <2>2. (i <= Len(s)) <=> (j <= Len(s))
    BY <1>3, <2>1
  <2>3. CASE i <= Len(s)
    BY <1>1, <1>3, <2>1, <2>2, <2>3
  <2>4. CASE ~(i <= Len(s))
    <3>1. i - Len(s) = j - Len(s)
      BY <1>1, <1>3, <2>1, <2>2, <2>4
    <3>. QED  BY <1>1, <1>2, <3>1
  <2>. QED  BY <2>3, <2>4
<1>5. ToSet(u) = ToSet(s) \cup ToSet(t)
  <2>1. ToSet(u) \subseteq ToSet(s) \cup ToSet(t)
    BY <1>3 DEF ToSet
  <2>2. ASSUME NEW i \in DOMAIN s PROVE s[i] \in ToSet(u)
    <3>1. i \in DOMAIN u /\ u[i] = s[i]
      BY <1>1, <1>2
    <3>. QED  BY <3>1 DEF ToSet
  <2>3. ASSUME NEW i \in DOMAIN t PROVE t[i] \in ToSet(u)
    <3>1. Len(s) + i \in DOMAIN u /\ ~(Len(s) + i <= Len(s)) /\ (Len(s) + i) - Len(s) = i
      BY <1>1, <1>2
    <3>2. u[Len(s) + i] = t[i]
      BY <1>2, <3>1
    <3>. QED  BY <3>1, <3>2 DEF ToSet
  <2>. QED  BY <2>1, <2>2, <2>3 DEF ToSet
<1>. QED  BY <1>2, <1>4, <1>5 DEF Line, IsInjective, u

LEMMA SingleLine == ASSUME NEW k \in Keys PROVE Line(<<k>>) /\ ToSet(<<k>>) = {k}
<1>1. <<k>> \in Seq(Keys) /\ DOMAIN <<k>> = {1} /\ <<k>>[1] = k
  OBVIOUS
<1>. QED  BY <1>1 DEF Line, ToSet, IsInjective

\* A part of a line.
LEMMA PartLine ==
  ASSUME NEW s, Line(s), NEW m \in Nat \ {0}, NEW n \in Nat, n <= Len(s)
  PROVE  /\ Line(SubSeq(s, m, n)) /\ ToSet(SubSeq(s, m, n)) = {s[i] : i \in m..n}
<1> DEFINE t == SubSeq(s, m, n)
<1>1. /\ Len(s) \in Nat /\ DOMAIN s = 1..Len(s) /\ (\A i \in 1..Len(s) : s[i] \in Keys)
      /\ \A i, j \in 1..Len(s) : s[i] = s[j] => i = j
  BY LineDomain
<1>2. \A i \in m..n : s[i] \in Keys /\ i \in 1..Len(s)
  BY <1>1
<1>3. t \in Seq(Keys) /\ Len(t) = (IF m <= n THEN n - m + 1 ELSE 0) /\ \A i \in 1..n - m + 1 : t[i] = s[m + i - 1]
  <2>1. m \in Int /\ n \in Int
    OBVIOUS
  <2>. QED  BY <1>2, <2>1, SubSeqProperties
<1>4. DOMAIN t = 1..Len(t)
  BY <1>3, LenProperties
<1>. HIDE DEF t
<1>5. \A i \in DOMAIN t : i \in 1..n - m + 1 /\ m + i - 1 \in m..n /\ t[i] = s[m + i - 1]
  <2>1. DOMAIN t = 1..n - m + 1
    BY <1>3, <1>4
  <2>. QED  BY <1>3, <2>1
<1>6. \A i, j \in DOMAIN t : t[i] = t[j] => i = j
  <2>1. SUFFICES ASSUME NEW i \in DOMAIN t, NEW j \in DOMAIN t, t[i] = t[j] PROVE i = j
    OBVIOUS
  <2>2. i \in Int /\ j \in Int /\ s[m + i - 1] = s[m + j - 1] /\ m + i - 1 \in 1..Len(s) /\ m + j - 1 \in 1..Len(s)
    BY <1>2, <1>5, <2>1
  <2>3. m + i - 1 = m + j - 1
    BY <1>1, <2>2
  <2>. QED  BY <2>2, <2>3
<1>7. ToSet(t) = {s[i] : i \in m..n}
  <2>1. ToSet(t) \subseteq {s[i] : i \in m..n}
    BY <1>5 DEF ToSet
  <2>2. ASSUME NEW i \in m..n PROVE s[i] \in ToSet(t)
    <3>1. i - m + 1 \in DOMAIN t /\ m + (i - m + 1) - 1 = i
      BY <1>3, <1>4
    <3>2. t[i - m + 1] = s[i]
      BY <1>5, <3>1
    <3>. QED  BY <3>1, <3>2 DEF ToSet
  <2>. QED  BY <2>1, <2>2
<1>. QED  BY <1>3, <1>6, <1>7 DEF Line, IsInjective, t

LEMMA QueueEnds ==
  ASSUME NEW q, Line(q), q # <<>>
  PROVE  GetNode(q) \in Keys /\ Line(PopNode(q))
<1>1. Len(q) \in Nat \ {0} /\ DOMAIN q = 1..Len(q) /\ (\A i \in DOMAIN q : q[i] \in Keys)
  BY LineDomain
<1>2. GetNode(q) \in Keys
  <2>1. Len(q) \in DOMAIN q
    BY <1>1
  <2>. QED  BY <1>1, <2>1 DEF GetNode, Last
<1>3. Line(SubSeq(q, 1, Len(q) - 1))
  <2>1. PICK m \in Nat \ {0} : m = 1
    OBVIOUS
  <2>2. PICK n \in Nat : n = Len(q) - 1
    <3>1. Len(q) - 1 \in Nat
      BY <1>1
    <3>. QED  BY <3>1
  <2>3. Line(SubSeq(q, m, n))
    BY <1>1, <2>2, PartLine
  <2>. QED  BY <2>1, <2>2, <2>3
<1>. QED  BY <1>2, <1>3 DEF PopNode, Front

LEMMA PushLine ==
  ASSUME NEW q, Line(q), NEW k \in Keys
  PROVE  Line(Push(q, k)) /\ ToSet(Push(q, k)) = ToSet(q) \cup {k}
<1> DEFINE t == <<k>>
<1>1. Line(t) /\ ToSet(t) = {k}
  BY SingleLine
<1>. HIDE DEF t
<1>2. CASE k \in ToSet(q)
  BY <1>2 DEF Push
<1>3. CASE k \notin ToSet(q)
  <2>1. Push(q, k) = t \o q
    BY <1>3 DEF Push, t
  <2>. QED  BY <1>1, <1>3, <2>1, ConcatLine
<1>. QED  BY <1>2, <1>3

\* How many of S are no smaller than k: a number of its own for each k.
LEMMA Ranks ==
  ASSUME NEW S \in SUBSET Keys
  PROVE  \A k \in S : /\ Cardinality({j \in S : j >= k}) \in 1..Cardinality(S)
                      /\ \A l \in S : Cardinality({j \in S : j >= k}) = Cardinality({j \in S : j >= l}) => k = l
<1> DEFINE above(k) == {j \in S : j >= k}
           rank(k) == Cardinality(above(k))
<1>1. IsFiniteSet(S) /\ Cardinality(S) \in Nat /\ S \subseteq Int
  BY FiniteKeys, Constants, FS_Subset, FS_CardinalityType
<1>2. ASSUME NEW k \in S PROVE rank(k) \in 1..Cardinality(S) /\ IsFiniteSet(above(k))
  <2>1. above(k) \in SUBSET S /\ k \in above(k)
    BY <1>1
  <2>. HIDE DEF above
  <2>2. IsFiniteSet(above(k)) /\ rank(k) <= Cardinality(S) /\ rank(k) \in Nat
    BY <1>1, <2>1, FS_Subset, FS_CardinalityType
  <2>3. rank(k) # 0
    BY <2>1, <2>2, FS_EmptySet
  <2>. QED  BY <1>1, <2>2, <2>3
<1>3. ASSUME NEW k \in S, NEW l \in S, k < l PROVE rank(k) # rank(l)
  <2>1. above(l) \in SUBSET above(k) /\ k \in above(k) /\ k \notin above(l)
    <3>1. \A j \in S : j \in Int /\ (j >= l => j >= k)
      BY <1>1, <1>3
    <3>2. k \in Int /\ l \in Int /\ k >= k /\ ~(k >= l)
      BY <1>1, <1>3
    <3>. QED  BY <3>1, <3>2
  <2>2. IsFiniteSet(above(k))
    BY <1>2
  <2>. HIDE DEF above
  <2>3. rank(k) = rank(l) => above(k) = above(l)
    BY <2>1, <2>2, FS_Subset
  <2>. QED  BY <2>1, <2>3
<1>4. ASSUME NEW k \in S, NEW l \in S, rank(k) = rank(l) PROVE k = l
  <2>1. k \in Int /\ l \in Int
    BY <1>1
  <2>2. k < l \/ l < k \/ k = l
    BY <2>1
  <2>. HIDE DEF rank
  <2>. QED  BY <1>3, <1>4, <2>2
<1>. QED  BY <1>2, <1>4

LEMMA DescendingLine ==
  ASSUME NEW S \in SUBSET Keys
  PROVE  Line(Descending(S)) /\ ToSet(Descending(S)) = S
<1> DEFINE n == Cardinality(S)
           f == [k \in S |-> Cardinality({j \in S : j >= k})]
           d == Descending(S)
<1>1. IsFiniteSet(S) /\ n \in Nat
  BY FiniteKeys, FS_Subset, FS_CardinalityType
<1>2. f \in Injection(S, 1..n)
  <2>1. \A k \in S : f[k] \in 1..n /\ \A l \in S : f[k] = f[l] => k = l
    BY Ranks
  <2>2. f \in [S -> 1..n]
    BY <2>1
  <2>. HIDE DEF f
  <2>. QED  BY <2>1, <2>2 DEF Injection, IsInjective
<1>3. f \in Surjection(S, 1..n)
  <2>1. IsFiniteSet(1..n) /\ Cardinality(1..n) = n
    <3>1. IsFiniteSet(1..n) /\ Cardinality(1..n) = IF 1 > n THEN 0 ELSE n - 1 + 1
      BY <1>1, FS_Interval
    <3>. HIDE DEF n
    <3>. QED  BY <1>1, <3>1
  <2>. HIDE DEF f
  <2>2. Cardinality(S) = Cardinality(1..n)
    BY <2>1
  <2>. HIDE DEF n
  <2>. QED  BY <1>2, <2>1, <2>2, FS_Injection
<1>4. \A k \in S : f[k] = Cardinality({j \in S : j >= k})
  OBVIOUS
<1>5. /\ DOMAIN d = 1..n
      /\ \A i \in 1..n : d[i] \in S /\ f[d[i]] = i
  <2>1. d = [i \in 1..n |-> CHOOSE k \in S : Cardinality({j \in S : j >= k}) = i]
    BY DEF Descending
  <2>2. ASSUME NEW i \in 1..n PROVE d[i] \in S /\ f[d[i]] = i
    <3>. HIDE DEF f
    <3>1. \E k \in S : f[k] = i
      BY <1>3, <2>2 DEF Surjection
    <3>2. \E k \in S : Cardinality({j \in S : j >= k}) = i
      BY <1>4, <3>1
    <3>3. d[i] = CHOOSE k \in S : Cardinality({j \in S : j >= k}) = i
      BY <2>1
    <3>4. d[i] \in S /\ Cardinality({j \in S : j >= d[i]}) = i
      BY <3>2, <3>3
    <3>. QED  BY <1>4, <3>4
  <2>. QED  BY <2>1, <2>2
<1>6. d \in Seq(Keys)
  <2>1. d = [i \in 1..n |-> d[i]]
    BY DEF Descending
  <2>. HIDE DEF d
  <2>2. d \in [1..n -> Keys]
    BY <1>5, <2>1
  <2>. QED  BY <1>1, <2>2, SeqDef
<1>. HIDE DEF d, f, n
<1>7. IsInjective(d)
  BY <1>5 DEF IsInjective
<1>8. ToSet(d) = S
  <2>1. ToSet(d) \subseteq S
    BY <1>5 DEF ToSet
  <2>2. ASSUME NEW k \in S PROVE k \in ToSet(d)
    <3>1. f[k] \in 1..n /\ d[f[k]] \in S /\ f[d[f[k]]] = f[k]
      BY <1>2, <1>5 DEF Injection
    <3>2. d[f[k]] = k
      BY <1>2, <3>1 DEF Injection, IsInjective
    <3>. QED  BY <1>5, <3>1, <3>2 DEF ToSet
  <2>. QED  BY <2>1, <2>2
<1>. QED  BY <1>6, <1>7, <1>8 DEF Line, d

LEMMA PushAllLine ==
  ASSUME NEW q, Line(q), NEW S \in SUBSET Keys
  PROVE  Line(PushAll(q, S)) /\ ToSet(PushAll(q, S)) = ToSet(q) \cup S
<1> DEFINE T == S \ ToSet(q)
           d == Descending(T)
<1>1. Line(d) /\ ToSet(d) = T
  <2>1. T \in SUBSET Keys
    OBVIOUS
  <2>. HIDE DEF T
  <2>. QED  BY <2>1, DescendingLine
<1>2. PushAll(q, S) = d \o q
  BY DEF PushAll
<1>. HIDE DEF d
<1>3. Line(d \o q) /\ ToSet(d \o q) = ToSet(d) \cup ToSet(q)
  BY <1>1, ConcatLine
<1>. QED  BY <1>1, <1>2, <1>3

LEMMA RemoveAtLine ==
  ASSUME NEW s, Line(s), NEW i \in DOMAIN s PROVE Line(RemoveAt(s, i))
<1>1. /\ Len(s) \in Nat /\ DOMAIN s = 1..Len(s) /\ i \in 1..Len(s)
      /\ (\A j \in 1..Len(s) : s[j] \in Keys) /\ \A j, l \in 1..Len(s) : s[j] = s[l] => j = l
  BY LineDomain
<1>2. PICK one \in Nat \ {0} : one = 1
  OBVIOUS
<1>3. i - 1 \in Nat /\ i - 1 <= Len(s) /\ i + 1 \in Nat \ {0} /\ Len(s) <= Len(s)
  BY <1>1
<1> DEFINE from == i + 1
           a == SubSeq(s, one, i - 1)
           b == SubSeq(s, from, Len(s))
<1>4. Line(a) /\ ToSet(a) = {s[j] : j \in one..i - 1}
  BY <1>3, PartLine
<1>5. Line(b) /\ ToSet(b) = {s[j] : j \in from..Len(s)}
  <2>. HIDE DEF from
  <2>. QED  BY <1>1, <1>3, PartLine DEF from
<1>6. ToSet(a) \cap ToSet(b) = {}
  <2>1. SUFFICES ASSUME NEW j \in one..i - 1, NEW l \in from..Len(s), s[j] = s[l] PROVE FALSE
    BY <1>4, <1>5
  <2>2. j \in 1..Len(s) /\ l \in 1..Len(s) /\ j # l
    BY <1>1, <1>2
  <2>. QED  BY <1>1, <2>1, <2>2
<1>7. RemoveAt(s, i) = a \o b
  BY <1>2 DEF RemoveAt
<1>8. Line(a \o b)
  <2>1. Line(a) /\ Line(b)
    BY <1>4, <1>5
  <2>. HIDE DEF a, b
  <2>. QED  BY <1>6, <2>1, ConcatLine
<1>. QED  BY <1>7, <1>8

LEMMA InsertAtLine ==
  ASSUME NEW s, Line(s), NEW k \in Keys, k \notin ToSet(s), NEW i \in 1..Len(s) + 1
  PROVE  Line(InsertAt(s, i, k))
<1>1. /\ Len(s) \in Nat /\ DOMAIN s = 1..Len(s)
      /\ (\A j \in 1..Len(s) : s[j] \in Keys /\ s[j] \in ToSet(s))
      /\ \A j, l \in 1..Len(s) : s[j] = s[l] => j = l
  BY LineDomain
<1>2. PICK one \in Nat \ {0} : one = 1
  OBVIOUS
<1>3. i - 1 \in Nat /\ i - 1 <= Len(s) /\ i \in Nat \ {0} /\ Len(s) <= Len(s)
  BY <1>1
<1> DEFINE a == SubSeq(s, one, i - 1)
           b == SubSeq(s, i, Len(s))
           t == <<k>>
<1>4. Line(a) /\ ToSet(a) = {s[j] : j \in one..i - 1}
  BY <1>3, PartLine
<1>5. Line(b) /\ ToSet(b) = {s[j] : j \in i..Len(s)}
  BY <1>1, <1>3, PartLine
<1>6. Line(t) /\ ToSet(t) = {k}
  BY SingleLine
<1>7. \A j \in one..i - 1 : j \in 1..Len(s)
  BY <1>1, <1>2, <1>3
<1>8. \A j \in i..Len(s) : j \in 1..Len(s)
  BY <1>1, <1>3
<1>9. ToSet(a) \cap ToSet(b) = {}
  <2>1. SUFFICES ASSUME NEW j \in one..i - 1, NEW l \in i..Len(s), s[j] = s[l] PROVE FALSE
    BY <1>4, <1>5
  <2>2. j # l
    BY <1>1, <1>2, <1>3
  <2>. QED  BY <1>1, <1>7, <1>8, <2>1, <2>2
<1>10. k \notin ToSet(a) /\ k \notin ToSet(b)
  BY <1>1, <1>4, <1>5, <1>7, <1>8
<1>11. InsertAt(s, i, k) = (a \o t) \o b
  BY <1>2 DEF InsertAt
<1>12. Line(a) /\ Line(b)
  BY <1>4, <1>5
<1>. HIDE DEF a, b, t
<1>13. Line(a \o t) /\ ToSet(a \o t) = ToSet(a) \cup {k}
  BY <1>6, <1>10, <1>12, ConcatLine
<1>14. ToSet(a \o t) \cap ToSet(b) = {}
  BY <1>9, <1>10, <1>13
<1>15. Line((a \o t) \o b)
  BY <1>12, <1>13, <1>14, ConcatLine
<1>. QED  BY <1>11, <1>15

LEMMA SortedLine ==
  ASSUME NEW S \in SUBSET Keys, NEW s \in SetToSeqs(S) PROVE Line(s)
<1> DEFINE n == Cardinality(S)
<1>1. IsFiniteSet(S) /\ n \in Nat
  BY FiniteKeys, FS_Subset, FS_CardinalityType
<1>2. s \in [1..n -> S] /\ \A i, j \in 1..n : i # j => s[i] # s[j]
  BY DEF SetToSeqs
<1>. HIDE DEF n
<1>3. s \in Seq(S) /\ IsInjective(s)
  BY <1>1, <1>2, SeqDef DEF IsInjective
<1>4. s \in Seq(Keys)
  BY <1>3, SeqMonotonic
<1>. QED  BY <1>3, <1>4 DEF Line

\* Where an icon is.
LEMMA PlaceProperties ==
  ASSUME Line(list)
  PROVE  /\ \A k \in ToSet(list) : /\ Place(k) + 1 \in DOMAIN list /\ list[Place(k) + 1] = k
                                   /\ Place(k) \in Indexes /\ Place(k) < Len(list)
         /\ \A k : k \notin ToSet(list) => Place(k) = -1
         /\ \A k \in Keys : Place(k) \in {-1} \cup Indexes /\ (Place(k) >= 0 => Place(k) \in Indexes)
         /\ \A i \in DOMAIN list : Place(list[i]) = i - 1 /\ i - 1 \in Indexes
         /\ \A i \in 0..Len(list) - 1 : i \in Indexes /\ i + 1 \in DOMAIN list
<1>1. /\ Len(list) \in Nat /\ DOMAIN list = 1..Len(list) /\ (\A i \in DOMAIN list : list[i] \in ToSet(list))
      /\ (\A i, j \in DOMAIN list : list[i] = list[j] => i = j) /\ Len(list) <= N /\ N \in Nat
  BY LineDomain, LineIsShort, Constants
<1>2. ASSUME NEW k \in ToSet(list)
      PROVE  /\ Place(k) + 1 \in DOMAIN list /\ list[Place(k) + 1] = k
             /\ Place(k) \in Indexes /\ Place(k) < Len(list)
  <2> DEFINE i == CHOOSE i \in 1..Len(list) : list[i] = k
  <2>1. i \in 1..Len(list) /\ list[i] = k
    <3>1. \E j \in 1..Len(list) : list[j] = k
      BY <1>1 DEF ToSet
    <3>. QED  BY <3>1
  <2>2. Place(k) = i - 1
    BY DEF Place
  <2>. HIDE DEF i
  <2>3. Place(k) + 1 = i /\ Place(k) \in 0..N - 1 /\ Place(k) < Len(list)
    BY <1>1, <2>1, <2>2
  <2>. QED  BY <1>1, <2>1, <2>3 DEF Indexes
<1>3. \A k : k \notin ToSet(list) => Place(k) = -1
  BY DEF Place
<1>4. \A k \in Keys : Place(k) \in {-1} \cup Indexes /\ (Place(k) >= 0 => Place(k) \in Indexes)
  <2>1. TAKE k \in Keys
  <2>2. CASE k \in ToSet(list)
    BY <1>2, <2>2
  <2>3. CASE k \notin ToSet(list)
    BY <1>3, <2>3
  <2>. QED  BY <2>2, <2>3
<1>5. ASSUME NEW i \in DOMAIN list PROVE Place(list[i]) = i - 1 /\ i - 1 \in Indexes
  <2>1. list[i] \in ToSet(list)
    BY <1>1
  <2>2. Place(list[i]) + 1 \in DOMAIN list /\ list[Place(list[i]) + 1] = list[i] /\ Place(list[i]) \in Indexes
    BY <1>2, <2>1
  <2>3. Place(list[i]) + 1 = i /\ Place(list[i]) \in Int
    BY <1>1, <2>2 DEF Indexes
  <2>. QED  BY <2>2, <2>3
<1>6. \A i \in 0..Len(list) - 1 : i \in Indexes /\ i + 1 \in DOMAIN list
  BY <1>1 DEF Indexes
<1>. QED  BY <1>2, <1>3, <1>4, <1>5, <1>6
-----------------------------------------------------------------------------
(* The types, the lock and the calls under way.                            *)

LEMMA InitCalls == Init => CallInv
<1>. SUFFICES ASSUME Init PROVE CallInv
  OBVIOUS
<1>1. shell \subseteq Keys
  BY Constants DEF Init, Keys
<1>2. Line(list)
  BY <1>1, SortedLine DEF Init
<1>3. index \in [Keys -> Places]
  BY Constants DEF Init, Places
<1>4. Line(<<>>)
  <2>1. <<>> \in Seq(Keys) /\ DOMAIN <<>> = {}
    BY EmptySeq
  <2>. QED  BY <2>1 DEF Line, IsInjective
<1>5. Types
  <2>1. Line(addQueue) /\ Line(delQueue)
    BY <1>4 DEF Init
  <2>2. changes \in 0..MaxChanges
    BY Constants DEF Init
  <2>3. oldNodeIndex \in {-1} \cup Indexes /\ kept \subseteq Keys /\ quiet \in BOOLEAN
    BY DEF Init
  <2>. QED  BY <1>1, <1>2, <1>3, <2>1, <2>2, <2>3 DEF Types
<1>6. LvCall /\ WorkerCall /\ Locked
  BY Constants DEF Init, LvCall, WorkerCall, Locked, Idle, Resting, Places, WorkerAt
<1>. QED  BY <1>5, <1>6 DEF CallInv

\* The list view as Explorer leaves it.
LEMMA ExplorerCalls == CallInv /\ Explorer => CallInv'
<1>. SUFFICES ASSUME CallInv, Explorer PROVE CallInv'
  OBVIOUS
<1>1. /\ quiet' = FALSE
      /\ UNCHANGED <<index, lock, oldNodeIndex, addQueue, delQueue, lv, worker, kept>>
  BY DEF Explorer, FileAppears, FileGoes, IconAppears, IconGoes, Sort, Changed, queues
<1>2. Line(list) /\ shell \subseteq Keys /\ changes \in 0..MaxChanges /\ MaxChanges \in Nat
  BY Constants DEF CallInv, Types
<1>3. changes' \in 0..MaxChanges
  BY <1>2 DEF Explorer, FileAppears, FileGoes, IconAppears, IconGoes, Sort, Counted
<1>4. shell' \subseteq Keys
  BY <1>2 DEF Explorer, FileAppears, FileGoes, IconAppears, IconGoes, Sort
<1>5. Line(list') /\ (lv.at = "idle" \/ UNCHANGED list)
  <2>1. ASSUME NEW k \in Keys, FileAppears(k) \/ FileGoes(k) PROVE UNCHANGED list
    BY <2>1 DEF FileAppears, FileGoes
  <2>2. ASSUME NEW k \in Keys, IconAppears(k) PROVE Line(list') /\ lv.at = "idle"
    BY <1>2, <2>2, InsertAtLine DEF IconAppears
  <2>3. ASSUME NEW k \in Keys, IconGoes(k) PROVE Line(list') /\ lv.at = "idle"
    <3>1. Place(k) + 1 \in DOMAIN list /\ list' = RemoveAt(list, Place(k) + 1) /\ lv.at = "idle"
      BY <1>2, <2>3, PlaceProperties DEF IconGoes
    <3>2. PICK i \in DOMAIN list : i = Place(k) + 1
      BY <3>1
    <3>3. Line(RemoveAt(list, i))
      BY <1>2, RemoveAtLine
    <3>. QED  BY <3>1, <3>2, <3>3
  <2>4. CASE Sort
    <3>1. ToSet(list) \in SUBSET Keys /\ list' \in SetToSeqs(ToSet(list)) /\ lv.at = "idle"
      BY <1>2, <2>4, LineDomain DEF Sort
    <3>. QED  BY <3>1, SortedLine
  <2>. QED  BY <1>2, <2>1, <2>2, <2>3, <2>4 DEF Explorer
<1>6. Types'
  BY <1>1, <1>3, <1>4, <1>5 DEF CallInv, Types
<1>7. LvCall'
  BY <1>1, <1>5 DEF CallInv, LvCall
<1>8. WorkerCall' /\ Locked'
  BY <1>1 DEF CallInv, WorkerCall, Locked
<1>. QED  BY <1>6, <1>7, <1>8 DEF CallInv

\* The list view's thread.
LEMMA LvBegins == ASSUME CallInv, (\E i \in Indexes : FindNode(i)) \/ (\E k \in Keys : MoveTo(k)) PROVE CallInv'
<1>1. UNCHANGED <<shell, list, changes, index, lock, oldNodeIndex, addQueue, delQueue, worker, kept, quiet>>
  BY DEF FindNode, MoveTo, desktop, queues
<1>2. lv.at = "idle" /\ \E l \in 0..N : \/ lv' = [at |-> "try", op |-> "find", arg |-> l] /\ l < Len(list)
                                        \/ lv' = [at |-> "try", op |-> "move", arg |-> l] /\ l \in Keys
  <2>1. Keys \subseteq 0..N /\ Indexes \subseteq 0..N
    BY Constants DEF Keys, Indexes
  <2>. QED  BY <2>1 DEF FindNode, MoveTo
<1>3. Types' /\ WorkerCall'
  BY <1>1 DEF CallInv, Types, WorkerCall
<1>4. LvCall'
  <2>1. PICK l \in 0..N : \/ lv' = [at |-> "try", op |-> "find", arg |-> l] /\ l < Len(list)
                          \/ lv' = [at |-> "try", op |-> "move", arg |-> l] /\ l \in Keys
    BY <1>2
  <2>. QED  BY <1>1, <2>1 DEF LvCall
<1>5. Locked'
  BY <1>1, <1>2 DEF CallInv, Locked
<1>. QED  BY <1>3, <1>4, <1>5 DEF CallInv

LEMMA IdleCall == Idle.at = "idle" /\ Idle \in [at : {"idle", "try", "locked"}, op : {None, "find", "move"}, arg : 0..N]
BY Constants DEF Idle

LEMMA TryCalls == CallInv /\ LvTries => CallInv'
<1>. SUFFICES ASSUME CallInv, LvTries PROVE CallInv'
  OBVIOUS
<1>1. UNCHANGED <<shell, list, changes, index, oldNodeIndex, addQueue, delQueue, worker, kept, quiet>> /\ lv.at = "try"
  BY DEF LvTries, desktop, queues
<1>2. Types' /\ WorkerCall'
  BY <1>1 DEF CallInv, Types, WorkerCall
<1>3. CASE lock = None /\ lock' = "lv" /\ lv' = [lv EXCEPT !.at = "locked"]
  BY <1>1, <1>2, <1>3, Constants DEF CallInv, LvCall, Locked
<1>4. CASE lock # None /\ lv' = Idle /\ UNCHANGED lock
  BY <1>1, <1>2, <1>4, IdleCall DEF CallInv, LvCall, Locked
<1>. QED  BY <1>3, <1>4 DEF LvTries, TryEnter

\* The call is over: nobody has the lock.
LEMMA LvDone ==
  ASSUME CallInv, lv.at = "locked", LvLeaves, UNCHANGED worker, addQueue = <<>> \/ addQueue' # <<>>
  PROVE  LvCall' /\ WorkerCall' /\ Locked'
<1>1. lock = "lv" /\ worker.at \in {"idle", "update"} /\ lock' = None /\ lv' = Idle
  BY DEF CallInv, Locked, WorkerCall, WorkerAt, LvLeaves
<1>. QED  BY <1>1, IdleCall, Constants DEF CallInv, LvCall, WorkerCall, Locked

LEMMA LockedCalls == CallInv /\ (FindNodeLocked \/ MoveToLocked) => CallInv'
<1>. SUFFICES ASSUME CallInv, FindNodeLocked \/ MoveToLocked PROVE CallInv'
  OBVIOUS
<1>1. /\ Line(list) /\ Line(addQueue) /\ Line(delQueue) /\ index \in [Keys -> Places]
      /\ oldNodeIndex \in {-1} \cup Indexes
  BY DEF CallInv, Types
<1>2. \A k \in Keys : FindNodeIndex(k) \in {-1} \cup Indexes
  BY <1>1, PlaceProperties DEF FindNodeIndex
<1>3. CASE FindNodeLocked
  <2> DEFINE i == lv.arg
             k == list[i + 1]
  <2>1. i \in Indexes /\ i + 1 \in DOMAIN list /\ k \in Keys
    <3>1. i \in 0..Len(list) - 1
      BY <1>1, <1>3, LineDomain, Constants DEF FindNodeLocked, CallInv, LvCall
    <3>. QED  BY <1>1, <3>1, PlaceProperties, LineDomain
  <2>2. /\ LvLeaves /\ lv.at = "locked" /\ UNCHANGED <<shell, list, changes, worker, kept, quiet>>
    BY <1>3 DEF FindNodeLocked, desktop
  <2>3. index' \in [Keys -> Places]
    <3>1. index' = [j \in Keys |-> IF j \in Misplaced(i) THEN FindNodeIndex(j)
                                   ELSE IF j \in Known /\ IsEqualNode(i, j) THEN i
                                   ELSE index[j]]
      BY <1>3 DEF FindNodeLocked, ExistsNode
    <3>. QED  BY <1>1, <1>2, <2>1, <3>1 DEF Places
  <2>4. Line(delQueue')
    <3>1. PICK S : delQueue' = PushAll(delQueue, S) /\ S \in SUBSET Keys
      BY <1>3 DEF FindNodeLocked, ExistsNode, Misplaced, Known
    <3>. QED  BY <1>1, <3>1, PushAllLine
  <2>5. Line(addQueue') /\ (addQueue = <<>> \/ addQueue' # <<>>) /\ oldNodeIndex' \in {-1} \cup Indexes
    <3>1. \/ oldNodeIndex' = i /\ addQueue' = Push(addQueue, k)
          \/ UNCHANGED <<oldNodeIndex, addQueue>>
      BY <1>3 DEF FindNodeLocked
    <3>2. Line(Push(addQueue, k)) /\ Push(addQueue, k) # <<>>
      <4>1. Line(Push(addQueue, k)) /\ ToSet(Push(addQueue, k)) = ToSet(addQueue) \cup {k}
        BY <1>1, <2>1, PushLine
      <4>. QED  BY <4>1 DEF ToSet
    <3>. QED  BY <1>1, <2>1, <3>1, <3>2
  <2>6. Types'
    BY <2>2, <2>3, <2>4, <2>5 DEF CallInv, Types
  <2>. QED  BY <2>2, <2>5, <2>6, LvDone DEF CallInv
<1>4. CASE MoveToLocked
  <2> DEFINE k == lv.arg
  <2>1. k \in Keys
    BY <1>4, Constants DEF MoveToLocked, CallInv, LvCall
  <2>2. /\ LvLeaves /\ lv.at = "locked" /\ UNCHANGED <<shell, list, changes, oldNodeIndex, addQueue, worker, kept, quiet>>
    BY <1>4 DEF MoveToLocked, desktop
  <2>3. index' \in [Keys -> Places] /\ Line(delQueue')
    <3>1. \/ UNCHANGED <<index, delQueue>>
          \/ index' = [index EXCEPT ![k] = FindNodeIndex(k)] /\ UNCHANGED delQueue
          \/ delQueue' = Push(delQueue, k) /\ UNCHANGED index
      BY <1>4 DEF MoveToLocked
    <3>2. Line(Push(delQueue, k))
      BY <1>1, <2>1, PushLine
    <3>. QED  BY <1>1, <1>2, <2>1, <3>1, <3>2 DEF Places
  <2>4. Types'
    BY <2>2, <2>3 DEF CallInv, Types
  <2>. QED  BY <2>2, <2>4, LvDone DEF CallInv
<1>. QED  BY <1>3, <1>4

\* The other thread.
LEMMA RestingCall ==
  /\ Resting \in [at : WorkerAt, arg : 0..N+1, pos : Places, count : 0..N, ok : SUBSET Indexes]
  /\ Resting.at = "idle"
BY Constants DEF Resting, WorkerAt, Places

\* A call that takes the lock, or ends.
LEMMA EnterCall ==
  ASSUME CallInv, NEW a \in {"find", "check"}, NEW k \in Keys, Enter([Resting EXCEPT !.at = a, !.arg = k]),
         UNCHANGED <<addQueue, lv, list>>, a = "find" => addQueue # <<>>
  PROVE  LvCall' /\ WorkerCall' /\ Locked'
<1>1. /\ lock = None /\ lock' = "worker" /\ worker.at = "idle"
      /\ worker' = [at |-> a, arg |-> k, pos |-> None, count |-> 0, ok |-> {}]
  BY DEF Enter, Resting
<1>2. LvCall'
  BY DEF CallInv, LvCall
<1>3. Locked'
  BY <1>1, Constants DEF CallInv, Locked
<1>4. worker' \in [at : WorkerAt, arg : 0..N+1, pos : Places, count : 0..N, ok : SUBSET Indexes]
  BY <1>1, Constants DEF Places, WorkerAt, Keys
<1>5. WorkerCall'
  BY <1>1, <1>4, Constants DEF WorkerCall, Keys
<1>. QED  BY <1>2, <1>3, <1>5

LEMMA LeaveCall ==
  ASSUME CallInv, worker.at \notin {"idle", "update"}, Leave, UNCHANGED <<lv, list>>
  PROVE  LvCall' /\ WorkerCall' /\ Locked'
<1>1. lock' = None /\ worker' = Resting /\ lock = "worker"
  BY DEF Leave, CallInv, Locked
<1>2. LvCall'
  BY DEF CallInv, LvCall
<1>3. Locked'
  BY <1>1, RestingCall, Constants DEF CallInv, Locked
<1>4. WorkerCall'
  BY <1>1, RestingCall DEF WorkerCall
<1>. QED  BY <1>2, <1>3, <1>4

LEMMA AddCalls == CallInv /\ (AddNode \/ AddFind \/ AddStore) => CallInv'
<1>. SUFFICES ASSUME CallInv, AddNode \/ AddFind \/ AddStore PROVE CallInv'
  OBVIOUS
<1>1. /\ Line(list) /\ Line(addQueue) /\ index \in [Keys -> Places] /\ WorkerCall
      /\ UNCHANGED <<shell, list, changes, oldNodeIndex, delQueue, lv, kept, quiet>>
  BY DEF CallInv, Types, AddNode, AddFind, AddStore, desktop, queues
<1>2. CASE AddNode
  <2>1. addQueue # <<>> /\ GetNode(addQueue) \in Keys /\ UNCHANGED <<index, addQueue>>
        /\ Enter([Resting EXCEPT !.at = "find", !.arg = GetNode(addQueue)])
    BY <1>1, <1>2, QueueEnds DEF AddNode, queues
  <2>2. LvCall' /\ WorkerCall' /\ Locked'
    BY <1>1, <2>1, EnterCall
  <2>3. Types'
    BY <1>1, <2>1 DEF CallInv, Types
  <2>. QED  BY <2>2, <2>3 DEF CallInv
<1>3. ASSUME Done, worker.at \in {"find", "store"}, index' \in [Keys -> Places] PROVE CallInv'
  <2>1. addQueue # <<>> /\ addQueue' = PopNode(addQueue) /\ Leave
    BY <1>1, <1>3 DEF Done, WorkerCall
  <2>2. Line(addQueue')
    BY <1>1, <2>1, QueueEnds
  <2>3. LvCall' /\ WorkerCall' /\ Locked'
    BY <1>1, <1>3, <2>1, LeaveCall
  <2>4. Types'
    BY <1>1, <1>3, <2>2 DEF CallInv, Types
  <2>. QED  BY <2>3, <2>4 DEF CallInv
<1>4. CASE AddFind
  <2>1. worker.at = "find" /\ UNCHANGED index
    BY <1>4 DEF AddFind
  <2>2. CASE Done
    BY <1>1, <1>3, <2>1, <2>2
  <2>3. CASE /\ worker' = [worker EXCEPT !.at = "store", !.pos = FindNodeIndex(worker.arg)]
             /\ UNCHANGED <<lock, addQueue>>
    <3>1. worker.arg \in Keys /\ addQueue # <<>> /\ FindNodeIndex(worker.arg) \in {-1} \cup Indexes
      BY <1>1, <2>1, PlaceProperties DEF WorkerCall, FindNodeIndex
    <3>2. WorkerCall'
      BY <1>1, <2>3, <3>1 DEF WorkerCall, WorkerAt, Places
    <3>3. Locked'
      BY <1>1, <2>1, <2>3 DEF CallInv, Locked, WorkerCall
    <3>4. Types' /\ LvCall'
      BY <1>1, <2>1, <2>3 DEF CallInv, Types, LvCall
    <3>. QED  BY <3>2, <3>3, <3>4 DEF CallInv
  <2>. QED  BY <1>4, <2>2, <2>3 DEF AddFind
<1>5. CASE AddStore
  <2>1. worker.at = "store" /\ Done /\ index' = [index EXCEPT ![worker.arg] = worker.pos]
    BY <1>5 DEF AddStore
  <2>2. index' \in [Keys -> Places]
    BY <1>1, <2>1 DEF WorkerCall, Places
  <2>. QED  BY <1>3, <2>1, <2>2
<1>. QED  BY <1>2, <1>4, <1>5

\* deleteNode leaves indexes.
LEMMA ErasedIndexes ==
  ASSUME index \in [Keys -> Places], NEW k \in Known PROVE Erased(k) \in [Keys -> Places]
<1>1. k \in Keys /\ index[k] \in {-1} \cup Indexes
  BY DEF Known, Places
<1>2. ASSUME NEW j \in Keys, j \in Known, index[k] >= 0, index[j] > index[k] PROVE index[j] - 1 \in Places
  <2>1. index[j] \in {-1} \cup Indexes
    BY <1>2 DEF Known, Places
  <2>2. index[j] - 1 \in 0..N - 1
    BY <1>1, <1>2, <2>1, Constants DEF Indexes
  <2>. QED  BY <2>2 DEF Places, Indexes
<1>3. Erased(k) = [j \in Keys |-> IF j = k THEN None
                                  ELSE IF j \in Known /\ index[k] >= 0 /\ index[j] > index[k]
                                  THEN index[j] - 1
                                  ELSE index[j]]
  BY DEF Erased
<1>. QED  BY <1>2, <1>3 DEF Places

LEMMA OtherCalls ==
  ASSUME CallInv,
         DeleteNode \/ (\E o, n \in Keys : RenameNode(o, n)) \/ (\E k \in Keys : UpdateNode(k)) \/ UpdateStore
  PROVE  CallInv'
<1>1. /\ Line(list) /\ Line(delQueue) /\ index \in [Keys -> Places] /\ WorkerCall
      /\ UNCHANGED <<shell, list, changes, lock, oldNodeIndex, addQueue, lv, kept, quiet>>
  BY DEF CallInv, Types, DeleteNode, RenameNode, UpdateNode, UpdateStore, desktop, queues
<1>2. LvCall'
  BY <1>1 DEF CallInv, LvCall
<1>3. CASE DeleteNode
  <2> DEFINE k == GetNode(delQueue)
  <2>1. k \in Keys /\ delQueue' = PopNode(delQueue) /\ Line(delQueue') /\ UNCHANGED worker
        /\ index' = IF k \in Known THEN Erased(k) ELSE index
    BY <1>1, <1>3, QueueEnds DEF DeleteNode
  <2>2. index' \in [Keys -> Places]
    BY <1>1, <2>1, ErasedIndexes
  <2>3. Types'
    BY <1>1, <2>1, <2>2 DEF CallInv, Types
  <2>4. WorkerCall' /\ Locked'
    BY <1>1, <2>1 DEF CallInv, WorkerCall, Locked
  <2>. QED  BY <1>2, <2>3, <2>4 DEF CallInv
<1>4. ASSUME NEW o \in Keys, NEW n \in Keys, RenameNode(o, n) PROVE CallInv'
  <2>1. index' = [index EXCEPT ![n] = index[o], ![o] = None] /\ UNCHANGED <<delQueue, worker>>
    BY <1>4 DEF RenameNode, queues
  <2>2. index' \in [Keys -> Places]
    BY <1>1, <2>1 DEF Places
  <2>3. Types' /\ WorkerCall' /\ Locked'
    BY <1>1, <2>1, <2>2 DEF CallInv, Types, WorkerCall, Locked
  <2>. QED  BY <1>2, <2>3 DEF CallInv
<1>5. ASSUME NEW k \in Keys, UpdateNode(k) PROVE CallInv'
  <2>1. /\ worker' = [Resting EXCEPT !.at = "update", !.arg = k, !.pos = FindNodeIndex(k)]
        /\ worker.at = "idle" /\ UNCHANGED <<index, delQueue>> /\ FindNodeIndex(k) \in Indexes
    BY <1>1, <1>5, PlaceProperties DEF UpdateNode, queues, FindNodeIndex
  <2>2. worker' \in [at : WorkerAt, arg : 0..N+1, pos : Places, count : 0..N, ok : SUBSET Indexes]
    <3>1. PICK i \in Indexes : i = FindNodeIndex(k)
      BY <2>1
    <3>2. worker' = [at |-> "update", arg |-> k, pos |-> i, count |-> 0, ok |-> {}]
      BY <2>1, <3>1 DEF Resting
    <3>3. k \in 0..N+1 /\ 0 \in 0..N
      BY Constants DEF Keys
    <3>. QED  BY <3>2, <3>3 DEF WorkerAt, Places
  <2>3. WorkerCall'
    BY <2>1, <2>2 DEF Resting, WorkerCall
  <2>4. Types' /\ Locked'
    BY <1>1, <2>1 DEF CallInv, Types, Locked, Resting
  <2>. QED  BY <1>2, <2>3, <2>4 DEF CallInv
<1>6. CASE UpdateStore
  <2>1. /\ worker.at = "update" /\ index' = [index EXCEPT ![worker.arg] = worker.pos]
        /\ worker' = Resting /\ UNCHANGED delQueue
    BY <1>6 DEF UpdateStore, queues
  <2>2. index' \in [Keys -> Places]
    BY <1>1, <2>1 DEF WorkerCall, Places
  <2>3. Types' /\ WorkerCall' /\ Locked'
    BY <1>1, <2>1, <2>2, RestingCall DEF CallInv, Types, WorkerCall, Locked
  <2>. QED  BY <1>2, <2>3 DEF CallInv
<1>. QED  BY <1>3, <1>4, <1>5, <1>6

LEMMA RefreshCalls ==
  ASSUME CallInv, RefreshAllNode \/ InRefresh PROVE CallInv'
<1>1. /\ Line(list) /\ Line(addQueue) /\ Line(delQueue) /\ index \in [Keys -> Places] /\ WorkerCall
      /\ kept \subseteq Keys
      /\ UNCHANGED <<shell, list, changes, oldNodeIndex, lv>>
  BY DEF CallInv, Types, RefreshAllNode, InRefresh, RefreshCheck, RefreshCount, RefreshPlace, FreeNone,
         RefreshLeave, desktop, queues
<1>2. Len(list) \in 0..N /\ DOMAIN list = 1..Len(list) /\ \A i \in DOMAIN list : list[i] \in Keys
  BY <1>1, LineDomain, LineIsShort, Constants
<1>3. LvCall'
  BY <1>1 DEF CallInv, LvCall
<1>4. ASSUME UNCHANGED lock, worker.at \in {"check", "place"}, worker'.at \in {"check", "place", "leave"}
      PROVE  Locked'
  BY <1>1, <1>4 DEF CallInv, Locked
<1>5. CASE RefreshAllNode
  <2>1. /\ UNCHANGED <<index, addQueue, delQueue>> /\ kept' = {} /\ quiet' = TRUE
        /\ Enter([Resting EXCEPT !.at = "check", !.arg = 1])
    BY <1>5 DEF RefreshAllNode, queues
  <2>2. PICK k \in Keys : k = 1
    BY Constants DEF Keys
  <2>3. LvCall' /\ WorkerCall' /\ Locked'
    <3>1. Enter([Resting EXCEPT !.at = "check", !.arg = k])
      BY <2>1, <2>2
    <3>. QED  BY <1>1, <2>1, <3>1, EnterCall
  <2>4. Types'
    BY <1>1, <2>1 DEF CallInv, Types
  <2>. QED  BY <2>3, <2>4 DEF CallInv
<1>6. CASE RefreshCheck
  <2> DEFINE k == worker.arg
  <2>1. /\ worker.at = "check" /\ k \in Keys /\ UNCHANGED <<index, lock, addQueue, delQueue, quiet>>
        /\ kept' \in {kept, kept \cup {k}}
    BY <1>1, <1>6, Constants DEF RefreshCheck, WorkerCall, queues, Keys
  <2>2. \E o \in SUBSET Indexes : worker' = [worker EXCEPT !.arg = k + 1, !.ok = o]
    <3>1. CASE k \in Known /\ IsEqualNode(index[k], k)
      <4>1. index[k] \in Indexes
        BY <1>1, <2>1, <3>1, PlaceProperties DEF IsEqualNode, Known
      <4>2. worker.ok \cup {index[k]} \in SUBSET Indexes
        BY <1>1, <4>1 DEF WorkerCall
      <4>3. worker' = [worker EXCEPT !.arg = k + 1, !.ok = worker.ok \cup {index[k]}]
        BY <1>6, <3>1 DEF RefreshCheck
      <4>. QED  BY <4>2, <4>3
    <3>2. CASE ~(k \in Known /\ IsEqualNode(index[k], k))
      <4>1. worker' = [worker EXCEPT !.arg = k + 1, !.ok = worker.ok]
        BY <1>6, <3>2 DEF RefreshCheck
      <4>. QED  BY <1>1, <4>1 DEF WorkerCall
    <3>. QED  BY <3>1, <3>2
  <2>3. WorkerCall' /\ worker'.at = "check"
    <3>1. k + 1 \in 0..N+1 /\ k + 1 # 0
      BY <2>1, Constants DEF Keys
    <3>. QED  BY <1>1, <2>1, <2>2, <3>1 DEF WorkerCall
  <2>4. Types'
    BY <1>1, <2>1 DEF CallInv, Types
  <2>. QED  BY <1>3, <1>4, <2>1, <2>3, <2>4 DEF CallInv
<1>7. CASE RefreshCount
  <2>1. /\ worker.at = "check" /\ UNCHANGED <<index, lock, addQueue, delQueue, kept, quiet>>
        /\ worker' = [worker EXCEPT !.at = "place", !.arg = 0, !.count = Len(list)]
    BY <1>7 DEF RefreshCount, queues
  <2>2. WorkerCall' /\ worker'.at = "place"
    <3>1. PICK n \in 0..N : n = Len(list)
      BY <1>2
    <3>2. worker' = [worker EXCEPT !.at = "place", !.arg = 0, !.count = n] /\ 0 \in 0..N+1
      BY <2>1, <3>1, Constants
    <3>. QED  BY <1>1, <3>2 DEF WorkerCall, WorkerAt
  <2>3. Types'
    BY <1>1, <2>1 DEF CallInv, Types
  <2>. QED  BY <1>3, <1>4, <2>1, <2>2, <2>3 DEF CallInv
<1>8. CASE RefreshPlace
  <2> DEFINE i == worker.arg
             k == list[i + 1]
  <2>1. /\ worker.at = "place" /\ i < worker.count /\ worker' = [worker EXCEPT !.arg = i + 1]
        /\ UNCHANGED <<lock, delQueue, quiet>>
    BY <1>8 DEF RefreshPlace
  <2>2. WorkerCall' /\ worker'.at = "place"
    <3>1. i + 1 \in 0..N+1
      BY <1>1, <2>1, Constants DEF WorkerCall
    <3>. QED  BY <1>1, <2>1, <3>1 DEF WorkerCall
  <2>3. index' \in [Keys -> Places] /\ kept' \subseteq Keys /\ Line(addQueue')
    <3>1. CASE i < Len(list) /\ Settle(k, i)
      <4>1. i \in Indexes /\ k \in Keys
        <5>1. i \in 0..Len(list) - 1 /\ i + 1 \in 1..Len(list)
          BY <1>1, <1>2, <3>1 DEF WorkerCall
        <5>. QED  BY <1>1, <1>2, <5>1, PlaceProperties
      <4>2. Line(Push(addQueue, k))
        BY <1>1, <4>1, PushLine
      <4>3. \/ index' = [index EXCEPT ![k] = i] /\ kept' = kept \cup {k} /\ UNCHANGED addQueue
            \/ addQueue' = Push(addQueue, k) /\ UNCHANGED <<index, kept>>
        BY <3>1 DEF Settle
      <4>. QED  BY <1>1, <4>1, <4>2, <4>3 DEF Places
    <3>2. CASE UNCHANGED <<index, kept, addQueue>>
      BY <1>1, <3>2
    <3>. QED  BY <1>8, <3>1, <3>2 DEF RefreshPlace
  <2>4. Types'
    BY <1>1, <2>1, <2>3 DEF CallInv, Types
  <2>. QED  BY <1>3, <1>4, <2>1, <2>2, <2>4 DEF CallInv
<1>9. CASE FreeNone
  <2>1. /\ worker.at = "place" /\ UNCHANGED <<index, lock, addQueue, kept, quiet>>
        /\ worker' = [at |-> "leave", arg |-> 0, pos |-> None, count |-> 0, ok |-> {}]
        /\ delQueue' = PushAll(delQueue, Known \ kept)
    BY <1>9 DEF FreeNone, Resting
  <2>2. Line(delQueue')
    <3>1. PICK S \in SUBSET Keys : S = Known \ kept
      BY DEF Known
    <3>. QED  BY <1>1, <2>1, <3>1, PushAllLine
  <2>3. WorkerCall' /\ worker'.at = "leave"
    <3>1. worker' \in [at : WorkerAt, arg : 0..N+1, pos : Places, count : 0..N, ok : SUBSET Indexes]
      BY <2>1, Constants DEF WorkerAt, Places
    <3>. QED  BY <2>1, <3>1 DEF WorkerCall
  <2>4. Types'
    BY <1>1, <2>1, <2>2 DEF CallInv, Types
  <2>. QED  BY <1>3, <1>4, <2>1, <2>3, <2>4 DEF CallInv
<1>10. CASE RefreshLeave
  <2>1. /\ worker.at = "leave" /\ Leave /\ UNCHANGED <<index, addQueue, delQueue>>
        /\ kept' = {} /\ quiet' = FALSE
    BY <1>10 DEF RefreshLeave, queues
  <2>2. Types'
    BY <1>1, <2>1 DEF CallInv, Types
  <2>. QED  BY <1>1, <2>1, <2>2, LeaveCall DEF CallInv
<1>. QED  BY <1>5, <1>6, <1>7, <1>8, <1>9, <1>10 DEF InRefresh

LEMMA CallsStep == CallInv /\ [Next]_vars => CallInv'
<1>. SUFFICES ASSUME CallInv, [Next]_vars PROVE CallInv'
  OBVIOUS
<1>1. CASE UNCHANGED vars
  BY <1>1 DEF vars, CallInv, Types, LvCall, WorkerCall, Locked
<1>. QED
  BY <1>1, ExplorerCalls, LvBegins, TryCalls, LockedCalls, AddCalls, OtherCalls, RefreshCalls
     DEF Next, LvThread, InCall

\* Every variable has its type, and the lock one owner: the call of lv or of the
\* worker that is under way with it, however the two threads, Explorer and the
\* queues interleave (KP/KPDeskInfo.cpp:2299, 2380, 2900).
THEOREM TypeCorrect == Spec => []TypeOK
<1>1. CallInv => TypeOK
  BY DEF CallInv, Types, LvCall, WorkerCall, Locked, TypeOK, Line, Places, WorkerAt
<1>. QED  BY <1>1, InitCalls, CallsStep, PTL DEF Spec
-----------------------------------------------------------------------------
(* refreshAllNode.                                                         *)

\* The parts of RefreshInv.
InPlace == \A k \in kept : k \in Known /\ IsEqualNode(index[k], k)
Passed == \A p \in worker.ok : p < Len(list) /\ list[p+1] \in kept

\* Outside of it only Explorer, and lv without the lock, take a step.
LEMMA RefreshAlone ==
  ASSUME CallInv, [Next]_vars, worker.at \in {"check", "place", "leave"},
         quiet', ~InRefresh
  PROVE  UNCHANGED <<shell, list, index, addQueue, delQueue, worker, kept, quiet>>
<1>1. lock = "worker" /\ lv.at # "locked" /\ lock # None
  BY Constants DEF CallInv, Locked
<1>2. ~Explorer
  BY DEF Explorer, FileAppears, FileGoes, IconAppears, IconGoes, Sort, Changed
<1>3. ~(FindNodeLocked \/ MoveToLocked \/ AddNode \/ DeleteNode \/ RefreshAllNode \/ AddFind \/ AddStore
        \/ UpdateStore \/ (\E k \in Keys : UpdateNode(k)) \/ \E o, n \in Keys : RenameNode(o, n))
  BY <1>1 DEF FindNodeLocked, MoveToLocked, AddNode, DeleteNode, RefreshAllNode, AddFind, AddStore, UpdateStore,
     UpdateNode, RenameNode, Enter
<1>4. CASE UNCHANGED vars
  BY <1>4 DEF vars, queues
<1>5. CASE (\E i \in Indexes : FindNode(i)) \/ (\E k \in Keys : MoveTo(k)) \/ LvTries
  BY <1>5 DEF FindNode, MoveTo, LvTries, desktop, queues
<1>. QED  BY <1>2, <1>3, <1>4, <1>5 DEF Next, InCall, LvThread

\* One look of it after the other.
LEMMA LookSteps ==
  ASSUME CallInv, RefreshInv, quiet,
         RefreshCheck \/ RefreshCount \/ RefreshPlace \/ FreeNone
  PROVE  RefreshInv'
<1>1. /\ Line(list) /\ Line(addQueue) /\ Line(delQueue) /\ index \in [Keys -> Places] /\ WorkerCall
      /\ worker.at \in {"check", "place"} /\ UNCHANGED <<shell, list>>
  BY DEF CallInv, Types, RefreshCheck, RefreshCount, RefreshPlace, FreeNone, desktop
<1>2. /\ InPlace /\ Passed
      /\ worker.at = "place" => /\ worker.count = Len(list)
                                /\ \A i \in DOMAIN list : i <= worker.arg => Cared(list[i])
  BY <1>1 DEF RefreshInv, InPlace, Passed
<1>3. /\ Len(list) \in Nat /\ DOMAIN list = 1..Len(list) /\ \A i \in DOMAIN list : list[i] \in Keys
      /\ \A i, j \in DOMAIN list : list[i] = list[j] => i = j
  BY <1>1, LineDomain
<1>4. CASE RefreshCheck
  <2> DEFINE k == worker.arg
  <2>1. worker'.at = "check" /\ UNCHANGED <<index, addQueue>>
    BY <1>1, <1>4 DEF RefreshCheck, WorkerCall, queues
  <2>2. InPlace' /\ Passed'
    <3>1. CASE k \in Known /\ IsEqualNode(index[k], k)
      <4>1. kept' = kept \cup {k} /\ worker'.ok = worker.ok \cup {index[k]}
        BY <1>1, <1>4, <3>1 DEF RefreshCheck, WorkerCall
      <4>2. InPlace'
        BY <1>1, <1>2, <2>1, <3>1, <4>1 DEF InPlace, Known, IsEqualNode
      <4>3. index[k] < Len(list) /\ list[index[k] + 1] = k
        BY <1>3, <3>1 DEF IsEqualNode
      <4>. QED  BY <1>1, <1>2, <4>1, <4>2, <4>3 DEF Passed
    <3>2. CASE ~(k \in Known /\ IsEqualNode(index[k], k))
      <4>1. kept' = kept /\ worker'.ok = worker.ok
        BY <1>1, <1>4, <3>2 DEF RefreshCheck, WorkerCall
      <4>. QED  BY <1>1, <1>2, <2>1, <4>1 DEF InPlace, Passed, Known, IsEqualNode
    <3>. QED  BY <3>1, <3>2
  <2>. QED  BY <2>1, <2>2 DEF RefreshInv, InPlace, Passed
<1>5. CASE RefreshCount
  <2>1. /\ worker'.at = "place" /\ worker'.arg = 0 /\ worker'.count = Len(list) /\ worker'.ok = worker.ok
        /\ UNCHANGED <<index, addQueue, kept>>
    BY <1>1, <1>5 DEF RefreshCount, WorkerCall, queues
  <2>2. InPlace' /\ Passed'
    BY <1>1, <1>2, <2>1 DEF InPlace, Passed, Known, IsEqualNode
  <2>3. \A i \in DOMAIN list : ~(i <= worker'.arg)
    BY <1>3, <2>1
  <2>. QED  BY <1>1, <2>1, <2>2, <2>3 DEF RefreshInv, InPlace, Passed
<1>6. CASE FreeNone
  <2>1. /\ worker'.at = "leave" /\ worker'.ok = {} /\ UNCHANGED <<index, addQueue, kept>>
        /\ delQueue' = PushAll(delQueue, Known \ kept)
        /\ worker.at = "place" /\ worker.arg >= worker.count
    BY <1>6 DEF FreeNone, Resting
  <2>2. InPlace' /\ Passed'
    BY <1>1, <1>2, <2>1 DEF InPlace, Passed, Known, IsEqualNode
  <2>3. \A i \in DOMAIN list : Cared(list[i])'
    <3>1. \A i \in DOMAIN list : i <= worker.arg
      BY <1>1, <1>2, <1>3, <2>1 DEF WorkerCall
    <3>. QED  BY <1>1, <1>2, <2>1, <3>1 DEF Cared, Known
  <2>4. Known' \ ToSet(list) \subseteq ToSet(delQueue')
    <3>1. PICK S \in SUBSET Keys : S = Known \ kept
      BY DEF Known
    <3>2. ToSet(delQueue') = ToSet(delQueue) \cup S
      BY <1>1, <2>1, <3>1, PushAllLine
    <3>3. kept \subseteq ToSet(list)
      <4>1. ASSUME NEW k \in kept PROVE k \in ToSet(list)
        <5>1. index[k] + 1 \in DOMAIN list /\ list[index[k] + 1] = k
          BY <1>1, <1>2, <4>1, PlaceProperties DEF InPlace, IsEqualNode
        <5>. QED  BY <5>1 DEF ToSet
      <4>. QED  BY <4>1
    <3>. QED  BY <2>1, <3>1, <3>2, <3>3 DEF Known
  <2>. QED  BY <1>1, <2>1, <2>2, <2>3, <2>4 DEF RefreshInv, InPlace, Passed
<1>7. CASE RefreshPlace
  <2>0. PICK i, k : i = worker.arg /\ k = list[i + 1]
    OBVIOUS
  <2> DEFINE due == i \notin worker.ok /\ i < Len(list) /\ list[i + 1] \in shell
  <2>1. /\ worker.at = "place" /\ i < worker.count /\ worker'.at = "place" /\ worker'.arg = i + 1
        /\ worker'.count = worker.count /\ worker'.ok = worker.ok
        /\ IF due THEN Settle(k, i) ELSE UNCHANGED <<index, kept, addQueue>>
    BY <1>1, <1>7, <2>0 DEF RefreshPlace, WorkerCall
  <2>2. i \in 0..Len(list) - 1 /\ i + 1 \in DOMAIN list /\ k \in Keys /\ i \in Int /\ k = list[i + 1]
        /\ \A j \in DOMAIN list : j <= i + 1 => j <= i \/ j = i + 1
    BY <1>1, <1>2, <1>3, <2>0, <2>1 DEF WorkerCall
  <2>3. \A j \in DOMAIN list : j <= i => Cared(list[j])
    BY <1>2, <2>0, <2>1
  <2>4. InPlace' /\ Passed' /\ Cared(k)' /\ \A j \in DOMAIN list : Cared(list[j]) => Cared(list[j])'
    <3>1. CASE due /\ k \in Known
      <4>1. index' = [index EXCEPT ![k] = i] /\ kept' = kept \cup {k} /\ UNCHANGED addQueue
        BY <2>1, <3>1 DEF Settle
      <4>2. Known' = Known /\ index'[k] = i /\ i # None /\ \A j \in Keys : j # k => index'[j] = index[j]
        BY <1>1, <2>2, <3>1, <4>1, Constants DEF Known
      <4>3. IsEqualNode(i, k)'
        BY <1>1, <2>2 DEF IsEqualNode
      <4>4. InPlace'
        BY <1>1, <1>2, <3>1, <4>1, <4>2, <4>3 DEF InPlace, IsEqualNode, Known
      <4>5. Passed'
        BY <1>1, <1>2, <2>1, <4>1 DEF Passed
      <4>6. Cared(k)' /\ \A j \in DOMAIN list : Cared(list[j]) => Cared(list[j])'
        BY <1>1, <3>1, <4>1, <4>2 DEF Cared
      <4>. QED  BY <4>4, <4>5, <4>6
    <3>2. CASE due /\ k \notin Known
      <4>1. addQueue' = Push(addQueue, k) /\ UNCHANGED <<index, kept>>
        BY <2>1, <3>2 DEF Settle
      <4>2. ToSet(addQueue') = ToSet(addQueue) \cup {k}
        BY <1>1, <2>2, <4>1, PushLine
      <4>. QED  BY <1>1, <1>2, <2>1, <3>2, <4>1, <4>2 DEF InPlace, Passed, IsEqualNode, Known, Cared
    <3>3. CASE ~due
      <4>1. UNCHANGED <<index, kept, addQueue>>
        BY <2>1, <3>3
      <4>2. Cared(k)
        <5>1. CASE i \in worker.ok
          <6>1. k \in kept
            BY <1>2, <2>2, <5>1 DEF Passed
          <6>. QED  BY <1>2, <6>1 DEF Cared, InPlace
        <5>2. CASE k \notin shell
          BY <5>2 DEF Cared
        <5>. QED  BY <2>2, <3>3, <5>1, <5>2
      <4>3. \A j \in DOMAIN list : Cared(list[j]) => Cared(list[j])'
        BY <1>1, <4>1 DEF Cared, Known
      <4>. QED  BY <1>1, <1>2, <2>1, <2>2, <4>1, <4>2, <4>3 DEF InPlace, Passed, IsEqualNode, Known, Cared
    <3>. QED  BY <3>1, <3>2, <3>3
  <2>5. \A j \in DOMAIN list : j <= worker'.arg => Cared(list[j])'
    <3>1. \A j \in DOMAIN list : j <= i + 1 => Cared(list[j])'
      <4>1. SUFFICES ASSUME NEW j \in DOMAIN list, j <= i + 1 PROVE Cared(list[j])'
        OBVIOUS
      <4>2. CASE j <= i
        BY <2>3, <2>4, <4>2
      <4>3. CASE j = i + 1
        <5>1. list[j]' = k
          BY <1>1, <2>2, <4>3
        <5>. QED  BY <2>4, <5>1 DEF Cared
      <4>. QED  BY <2>2, <4>1, <4>2, <4>3
    <3>. QED  BY <2>1, <3>1
  <2>. QED  BY <1>1, <1>2, <2>1, <2>4, <2>5 DEF RefreshInv, InPlace, Passed
<1>. QED  BY <1>4, <1>5, <1>6, <1>7

LEMMA RefreshStep == CallInv /\ RefreshInv /\ [Next]_vars => RefreshInv'
<1>. SUFFICES ASSUME CallInv, RefreshInv, [Next]_vars PROVE RefreshInv'
  OBVIOUS
<1>1. CASE ~quiet'
  BY <1>1 DEF RefreshInv
<1>2. CASE quiet' /\ (RefreshCheck \/ RefreshCount \/ RefreshPlace \/ FreeNone)
  <2>1. quiet
    BY <1>2 DEF RefreshCheck, RefreshCount, RefreshPlace, FreeNone
  <2>. QED  BY <1>2, <2>1, LookSteps
<1>3. CASE quiet' /\ RefreshAllNode
  <2>1. kept' = {} /\ worker' = [Resting EXCEPT !.at = "check", !.arg = 1]
    BY <1>3 DEF RefreshAllNode, Enter
  <2>. QED  BY <2>1 DEF RefreshInv, Resting
<1>4. CASE RefreshLeave
  BY <1>4 DEF RefreshLeave, RefreshInv
<1>5. CASE quiet' /\ ~InRefresh /\ worker.at \in {"check", "place", "leave"}
  <2>1. UNCHANGED <<shell, list, index, addQueue, delQueue, worker, kept, quiet>>
    BY <1>5, RefreshAlone
  <2>. QED  BY <2>1 DEF RefreshInv, Known, IsEqualNode, Cared
<1>6. CASE ~InRefresh /\ ~RefreshAllNode /\ worker.at \notin {"check", "place", "leave"}
  <2>1. worker'.at \notin {"check", "place", "leave"}
    <3>1. CASE AddNode
      <4>1. PICK k : worker' = [Resting EXCEPT !.at = "find", !.arg = k]
        BY <3>1 DEF AddNode, Enter
      <4>. QED  BY <4>1 DEF Resting
    <3>2. CASE AddFind \/ AddStore
      <4>1. worker' = Resting \/ \E p : worker' = [worker EXCEPT !.at = "store", !.pos = p]
        BY <3>2 DEF AddFind, AddStore, Done, Leave
      <4>2. worker \in [at : WorkerAt, arg : 0..N+1, pos : Places, count : 0..N, ok : SUBSET Indexes]
        BY DEF CallInv, WorkerCall
      <4>3. CASE worker' = Resting
        BY <4>3 DEF Resting
      <4>4. ASSUME NEW p, worker' = [worker EXCEPT !.at = "store", !.pos = p]
            PROVE  worker'.at = "store"
        BY <4>2, <4>4
      <4>. QED  BY <4>1, <4>3, <4>4
    <3>3. CASE UpdateStore \/ \E k \in Keys : UpdateNode(k)
      <4>1. worker' = Resting \/ \E k, p : worker' = [Resting EXCEPT !.at = "update", !.arg = k, !.pos = p]
        BY <3>3 DEF UpdateStore, UpdateNode
      <4>2. ASSUME NEW k, NEW p, worker' = [Resting EXCEPT !.at = "update", !.arg = k, !.pos = p]
            PROVE  worker'.at = "update"
        BY <4>2 DEF Resting
      <4>3. CASE worker' = Resting
        BY <4>3 DEF Resting
      <4>. QED  BY <4>1, <4>2, <4>3
    <3>4. CASE UNCHANGED worker
      BY <1>6, <3>4
    <3>5. CASE Explorer \/ (\E i \in Indexes : FindNode(i)) \/ (\E k \in Keys : MoveTo(k)) \/ LvThread \/ DeleteNode
               \/ (\E o, n \in Keys : RenameNode(o, n)) \/ UNCHANGED vars
      <4>1. UNCHANGED worker
        BY <3>5 DEF Explorer, FileAppears, FileGoes, IconAppears, IconGoes, Sort, Changed, FindNode, MoveTo,
           LvThread, LvTries, FindNodeLocked, MoveToLocked, DeleteNode, RenameNode, vars
      <4>. QED  BY <3>4, <4>1
    <3>. QED  BY <1>6, <3>1, <3>2, <3>3, <3>5 DEF Next, InCall
  <2>. QED  BY <2>1 DEF RefreshInv
<1>. QED  BY <1>1, <1>2, <1>3, <1>4, <1>5, <1>6 DEF InRefresh

\* A refreshAllNode during which nothing changes leaves every icon with a node of
\* the right index that stays, or with a node asked for, and every node without an
\* icon on its way out, for any number of icons and whatever indexes were wrong
\* when it began (KP/KPDeskInfo.cpp:3016, 3032, 3068).
THEOREM RefreshIsExact == Spec => []QuietRefresh
<1>1. Init => RefreshInv
  BY DEF Init, RefreshInv, Resting
<1>2. ASSUME CallInv, RefreshInv PROVE QuietRefresh
  <2>1. SUFFICES ASSUME worker.at = "leave", quiet
                 PROVE  /\ \A k \in ToSet(list) \cap shell :
                             IF k \in Known THEN index[k] = Place(k) /\ k \in kept ELSE k \in ToSet(addQueue)
                        /\ Known \ ToSet(list) \subseteq ToSet(delQueue)
    BY DEF QuietRefresh
  <2>2. Line(list) /\ InPlace /\ Known \ ToSet(list) \subseteq ToSet(delQueue)
        /\ \A i \in DOMAIN list : Cared(list[i])
    BY <1>2, <2>1 DEF CallInv, Types, RefreshInv, InPlace
  <2>3. ASSUME NEW k \in ToSet(list) \cap shell
        PROVE  IF k \in Known THEN index[k] = Place(k) /\ k \in kept ELSE k \in ToSet(addQueue)
    <3>1. Cared(k)
      BY <2>2, <2>3 DEF ToSet
    <3>2. k \in Known => k \in kept
      BY <2>3, <3>1 DEF Cared
    <3>3. ASSUME k \in kept PROVE index[k] = Place(k)
      <4>1. index[k] \in 0..Len(list) - 1 /\ list[index[k] + 1] = k
        BY <2>2, <3>3 DEF InPlace, IsEqualNode
      <4>2. index[k] + 1 \in DOMAIN list /\ index[k] \in Int
        BY <2>2, <4>1, PlaceProperties
      <4>3. Place(k) = (index[k] + 1) - 1
        BY <2>2, <4>1, <4>2, PlaceProperties
      <4>. QED  BY <4>2, <4>3
    <3>. QED  BY <2>3, <3>1, <3>2, <3>3 DEF Cared
  <2>. QED  BY <2>2, <2>3
<1>. QED  BY <1>1, <1>2, InitCalls, CallsStep, RefreshStep, PTL DEF Spec
-----------------------------------------------------------------------------
(* A map that has become the list view.                                    *)

\* Every node is where the list view has its icon, and every icon has a node.
LEMMA CalmMeans ==
  ASSUME CallInv, Calm
  PROVE  /\ Known = ToSet(list) /\ Known \subseteq Keys /\ Known \subseteq shell
         /\ \A k \in Known : index[k] = Place(k) /\ IsEqualNode(index[k], k) /\ Place(k) \in Indexes
         /\ \A i \in Int : i >= 0 /\ i < Len(list) => list[i+1] \in Known /\ index[list[i+1]] = i
         /\ \A i : \A k \in Known : IsEqualNode(i, k) => i = index[k]
<1>1. Line(list) /\ Exact /\ ToSet(list) \subseteq shell /\ index \in [Keys -> Places]
  BY DEF CallInv, Types, Calm
<1>2. Len(list) \in Nat /\ DOMAIN list = 1..Len(list) /\ ToSet(list) \subseteq Keys
      /\ \A i \in DOMAIN list : list[i] \in ToSet(list)
  BY <1>1, LineDomain
<1>3. \A k \in ToSet(list) : /\ Place(k) + 1 \in DOMAIN list /\ list[Place(k) + 1] = k
                             /\ Place(k) \in Indexes /\ Place(k) < Len(list)
  BY <1>1, PlaceProperties
<1>4. \A i \in DOMAIN list : Place(list[i]) = i - 1
  BY <1>1, PlaceProperties
<1>5. \A k \in ToSet(list) : index[k] = Place(k) /\ Place(k) \in Int /\ Place(k) # None
  BY <1>1, <1>2, <1>3, Constants DEF Exact
<1>6. Known = ToSet(list)
  BY <1>1, <1>2, <1>5 DEF Exact, Known
<1>7. \A k \in Known : IsEqualNode(index[k], k)
  <2>1. TAKE k \in Known
  <2>2. Place(k) \in 0..Len(list) - 1
    BY <1>2, <1>3, <1>5, <1>6
  <2>. QED  BY <1>3, <1>5, <1>6, <2>2 DEF IsEqualNode
<1>8. \A i \in Int : i >= 0 /\ i < Len(list) => list[i+1] \in Known /\ index[list[i+1]] = i
  <2>1. SUFFICES ASSUME NEW i \in Int, i >= 0, i < Len(list) PROVE list[i+1] \in Known /\ index[list[i+1]] = i
    OBVIOUS
  <2>2. i + 1 \in DOMAIN list /\ (i + 1) - 1 = i
    BY <1>2, <2>1
  <2>. QED  BY <1>2, <1>4, <1>5, <1>6, <2>2
<1>9. ASSUME NEW i, NEW k \in Known, IsEqualNode(i, k) PROVE i = index[k]
  <2>1. i \in Int /\ i >= 0 /\ i < Len(list) /\ list[i+1] = k
    BY <1>2, <1>9 DEF IsEqualNode
  <2>. QED  BY <1>8, <2>1
<1>. QED  BY <1>1, <1>2, <1>3, <1>5, <1>6, <1>7, <1>8, <1>9

\* The oldest of a queue is of the queue, and so are those that stay.
LEMMA OldestIsThere ==
  ASSUME NEW q, Line(q), q # <<>>
  PROVE  GetNode(q) \in ToSet(q) /\ ToSet(PopNode(q)) \subseteq ToSet(q)
<1>1. Len(q) \in Nat \ {0} /\ DOMAIN q = 1..Len(q) /\ (\A i \in DOMAIN q : q[i] \in ToSet(q))
  BY LineDomain
<1>2. Len(q) \in DOMAIN q
  BY <1>1
<1>3. PICK m \in Nat \ {0} : m = 1
  OBVIOUS
<1>4. PICK n \in Nat : n = Len(q) - 1
  <2>1. Len(q) - 1 \in Nat
    BY <1>1
  <2>. QED  BY <2>1
<1>5. n <= Len(q) /\ \A i \in m..n : i \in DOMAIN q
  BY <1>1, <1>3, <1>4
<1>6. ToSet(SubSeq(q, m, n)) = {q[i] : i \in m..n}
  BY <1>5, PartLine
<1>7. PopNode(q) = SubSeq(q, m, n)
  BY <1>3, <1>4 DEF PopNode, Front
<1>. QED  BY <1>1, <1>2, <1>5, <1>6, <1>7 DEF GetNode, Last

\* Calm looks at nothing but these.
LEMMA CalmSame ==
  ASSUME Calm, UNCHANGED <<shell, list, index>>,
         ToSet(addQueue') \subseteq ToSet(addQueue), ToSet(delQueue') \subseteq ToSet(delQueue),
         \/ UNCHANGED <<worker, kept>>
         \/ worker'.at \in {"idle", "leave"}
  PROVE  Calm'
<1>1. Exact' /\ ToSet(list') \subseteq shell' /\ Known' = Known /\ \A k : Place(k)' = Place(k)
  BY DEF Calm, Exact, Known, Place
<1>2. ToSet(addQueue') \cap shell' \subseteq Known' /\ Known' \cap ToSet(delQueue') = {}
  BY <1>1 DEF Calm
<1>3. CASE UNCHANGED <<worker, kept>>
  BY <1>1, <1>2, <1>3 DEF Calm
<1>4. CASE worker'.at \in {"idle", "leave"}
  BY <1>1, <1>2, <1>4 DEF Calm
<1>. QED  BY <1>3, <1>4

\* The calls of the list view's thread find nothing to put right.
LEMMA LvCalm == ASSUME CallInv, Calm, LvThread PROVE Calm'
<1>1. /\ Known \subseteq Keys /\ lv.arg \in Int /\ lv.arg >= 0 /\ index \in [Keys -> Places]
      /\ (\A k \in Known : index[k] = Place(k) /\ IsEqualNode(index[k], k))
      /\ (\A i \in Int : i >= 0 /\ i < Len(list) => list[i+1] \in Known /\ index[list[i+1]] = i)
      /\ (\A i : \A k \in Known : IsEqualNode(i, k) => i = index[k])
  <2>1. lv.arg \in Int /\ lv.arg >= 0
    BY Constants DEF CallInv, LvCall
  <2>. QED  BY <2>1, CalmMeans DEF CallInv, Types
<1>2. CASE LvTries
  BY <1>2, CalmSame DEF LvTries, desktop, queues
<1>3. CASE FindNodeLocked
  <2> DEFINE i == lv.arg
             gone == {k \in Misplaced(i) : FindNodeIndex(k) = -1 /\ k \notin shell}
  <2>1. i < Len(list)
    BY <1>3, Constants DEF FindNodeLocked, CallInv, LvCall
  <2>2. Misplaced(i) = {}
    BY <1>1 DEF Misplaced
  <2>3. index' = index
    <3>1. index' = [k \in Keys |-> IF k \in Misplaced(i) THEN FindNodeIndex(k)
                                   ELSE IF k \in Known /\ IsEqualNode(i, k) THEN i ELSE index[k]]
      BY <1>3 DEF FindNodeLocked, ExistsNode
    <3>2. \A k \in Keys : index'[k] = index[k]
      BY <1>1, <2>2, <3>1
    <3>3. index' \in [Keys -> Places]
      BY <1>1, <2>2, <3>1
    <3>. QED  BY <1>1, <3>2, <3>3
  <2>4. ToSet(delQueue') = ToSet(delQueue)
    <3>1. delQueue' = PushAll(delQueue, gone)
      BY <1>3 DEF FindNodeLocked, ExistsNode
    <3>2. gone = {}
      BY <2>2
    <3>3. PICK S \in SUBSET Keys : S = {}
      OBVIOUS
    <3>4. ToSet(PushAll(delQueue, S)) = ToSet(delQueue) \cup S
      BY PushAllLine DEF CallInv, Types
    <3>. QED  BY <3>1, <3>2, <3>3, <3>4
  <2>5. addQueue' = addQueue
    BY <1>1, <1>3, <2>1 DEF FindNodeLocked
  <2>6. UNCHANGED <<shell, list, worker, kept>>
    BY <1>3 DEF FindNodeLocked, desktop
  <2>. QED  BY <2>3, <2>4, <2>5, <2>6, CalmSame
<1>4. CASE MoveToLocked
  <2>1. UNCHANGED <<shell, list, worker, kept, addQueue, index, delQueue>>
    BY <1>1, <1>4 DEF MoveToLocked, desktop
  <2>. QED  BY <2>1, CalmSame
<1>. QED  BY <1>2, <1>3, <1>4 DEF LvThread

\* What the queues hold is done with already.
LEMMA QueuesCalm == ASSUME CallInv, Calm, AddNode \/ AddFind \/ AddStore \/ DeleteNode PROVE Calm'
<1>1. /\ Line(addQueue) /\ Line(delQueue) /\ index \in [Keys -> Places] /\ WorkerCall
      /\ Known \subseteq Keys /\ \A k \in Known : index[k] = Place(k)
  BY CalmMeans DEF CallInv, Types
<1>2. ASSUME Leave PROVE worker'.at = "idle"
  BY <1>2 DEF Leave, Resting
<1>3. CASE AddNode
  <2>1. /\ worker'.at = "find" /\ worker'.arg = GetNode(addQueue) /\ addQueue # <<>>
        /\ UNCHANGED <<shell, list, index, addQueue, delQueue, kept>>
    BY <1>3 DEF AddNode, Enter, Resting, desktop, queues
  <2>2. GetNode(addQueue) \in ToSet(addQueue)
    BY <1>1, <2>1, OldestIsThere
  <2>3. Exact' /\ Known' = Known
    BY <2>1 DEF Calm, Exact, Known, Place
  <2>. QED  BY <2>1, <2>2, <2>3 DEF Calm
<1>4. CASE AddFind
  <2>1. worker.at = "find" /\ Done /\ UNCHANGED <<shell, list, index, delQueue>>
    BY <1>4 DEF AddFind, Calm, desktop
  <2>2. ToSet(addQueue') \subseteq ToSet(addQueue)
    BY <1>1, <2>1, OldestIsThere DEF Done, WorkerCall
  <2>. QED  BY <1>2, <2>1, <2>2, CalmSame DEF Done
<1>5. CASE AddStore
  <2>1. /\ worker.at = "store" /\ Done /\ UNCHANGED <<shell, list, delQueue>>
        /\ index' = [index EXCEPT ![worker.arg] = worker.pos]
    BY <1>5 DEF AddStore, desktop
  <2>2. worker.arg \in Known /\ worker.pos = index[worker.arg]
    BY <1>1, <2>1 DEF Calm
  <2>3. index' = index
    BY <1>1, <2>1, <2>2
  <2>4. ToSet(addQueue') \subseteq ToSet(addQueue)
    BY <1>1, <2>1, OldestIsThere DEF Done, WorkerCall
  <2>. QED  BY <1>2, <2>1, <2>3, <2>4, CalmSame DEF Done
<1>6. CASE DeleteNode
  <2>1. /\ delQueue # <<>> /\ delQueue' = PopNode(delQueue)
        /\ index' = IF GetNode(delQueue) \in Known THEN Erased(GetNode(delQueue)) ELSE index
        /\ UNCHANGED <<shell, list, addQueue, worker, kept>>
    BY <1>6 DEF DeleteNode, desktop
  <2>2. GetNode(delQueue) \in ToSet(delQueue) /\ ToSet(delQueue') \subseteq ToSet(delQueue)
    BY <1>1, <2>1, OldestIsThere
  <2>3. index' = index
    BY <2>1, <2>2 DEF Calm
  <2>. QED  BY <2>1, <2>2, <2>3, CalmSame
<1>. QED  BY <1>3, <1>4, <1>5, <1>6

\* renameNode has nothing to rename, updateNode stores the index that is there.
LEMMA OthersCalm ==
  ASSUME CallInv, Calm,
         (\E k \in Keys : UpdateNode(k)) \/ UpdateStore \/ \E o, n \in Keys : RenameNode(o, n)
  PROVE  Calm'
<1>1. /\ index \in [Keys -> Places] /\ Known \subseteq shell
      /\ Known \subseteq Keys /\ \A k \in Known : index[k] = Place(k)
  BY CalmMeans DEF CallInv, Types
<1>2. CASE \E k \in Keys : UpdateNode(k)
  <2>1. PICK k \in Keys : UpdateNode(k)
    BY <1>2
  <2>2. /\ worker'.at = "update" /\ worker'.arg = k /\ worker'.pos = Place(k) /\ k \in Known
        /\ UNCHANGED <<shell, list, index, addQueue, delQueue, kept>>
    BY <2>1 DEF UpdateNode, Resting, FindNodeIndex, desktop, queues
  <2>3. Exact' /\ Known' = Known /\ Place(k)' = Place(k)
    BY <2>2 DEF Calm, Exact, Known, Place
  <2>. QED  BY <2>2, <2>3 DEF Calm, Place
<1>3. CASE UpdateStore
  <2>1. /\ worker.at = "update" /\ worker'.at = "idle" /\ UNCHANGED <<shell, list, addQueue, delQueue>>
        /\ index' = [index EXCEPT ![worker.arg] = worker.pos]
    BY <1>3 DEF UpdateStore, Resting, desktop, queues
  <2>2. worker.arg \in Known /\ worker.pos = index[worker.arg]
    BY <1>1, <2>1 DEF Calm
  <2>3. index' = index
    BY <1>1, <2>1, <2>2
  <2>. QED  BY <2>1, <2>3, CalmSame
<1>4. CASE \E o, n \in Keys : RenameNode(o, n)
  BY <1>1, <1>4 DEF RenameNode
<1>. QED  BY <1>2, <1>3, <1>4

\* refreshAllNode keeps every node where it is.
LEMMA RefreshCalm == ASSUME CallInv, Calm, RefreshAllNode \/ InRefresh PROVE Calm'
<1>1. /\ index \in [Keys -> Places] /\ WorkerCall /\ Known \subseteq Keys /\ Len(list) \in Nat
      /\ (\A k \in Known : index[k] = Place(k) /\ IsEqualNode(index[k], k))
      /\ (\A i \in Int : i >= 0 /\ i < Len(list) => list[i+1] \in Known /\ index[list[i+1]] = i)
  BY CalmMeans, LineDomain DEF CallInv, Types
<1>2. UNCHANGED <<shell, list>>
  BY DEF RefreshAllNode, InRefresh, RefreshCheck, RefreshCount, RefreshPlace, FreeNone, RefreshLeave, desktop
<1>3. ASSUME UNCHANGED <<index, addQueue, delQueue>>
      PROVE  /\ Exact' /\ Known' = Known /\ ToSet(list') \subseteq shell'
             /\ ToSet(addQueue') \cap shell' \subseteq Known' /\ Known' \cap ToSet(delQueue') = {}
  BY <1>2, <1>3 DEF Calm, Exact, Known, Place
<1>4. CASE RefreshAllNode
  <2>1. worker'.at = "check" /\ worker'.arg = 1 /\ UNCHANGED <<index, addQueue, delQueue>>
    BY <1>4 DEF RefreshAllNode, Enter, Resting, queues
  <2>2. \A k \in Known : ~(k < 1)
    BY <1>1 DEF Keys
  <2>. QED  BY <1>3, <2>1, <2>2 DEF Calm
<1>5. CASE RefreshCheck
  <2>1. /\ worker.at = "check" /\ worker'.at = "check" /\ worker'.arg = worker.arg + 1 /\ worker.arg \in Int
        /\ kept' = IF worker.arg \in Known /\ IsEqualNode(index[worker.arg], worker.arg)
                   THEN kept \cup {worker.arg} ELSE kept
        /\ UNCHANGED <<index, addQueue, delQueue>>
    BY <1>1, <1>5, Constants DEF RefreshCheck, WorkerCall, queues
  <2>2. ASSUME NEW k \in Known, k < worker.arg + 1 PROVE k \in kept'
    <3>1. k < worker.arg \/ k = worker.arg
      BY <1>1, <2>1, <2>2, Constants
    <3>. QED  BY <1>1, <2>1, <2>2, <3>1 DEF Calm
  <2>. QED  BY <1>3, <2>1, <2>2 DEF Calm
<1>6. CASE RefreshCount
  <2>1. /\ worker.at = "check" /\ worker'.at = "place" /\ worker.arg > N /\ worker.arg \in Int
        /\ UNCHANGED <<index, addQueue, delQueue, kept>>
    BY <1>1, <1>6, Constants DEF RefreshCount, WorkerCall, queues
  <2>2. \A k \in Known : k < worker.arg
    BY <1>1, <2>1, Constants DEF Keys
  <2>3. Known \subseteq kept
    BY <2>1, <2>2 DEF Calm
  <2>. QED  BY <1>3, <2>1, <2>3 DEF Calm
<1>7. CASE RefreshPlace
  <2>1. PICK i, k : i = worker.arg /\ k = list[i+1]
    OBVIOUS
  <2>2. /\ worker.at = "place" /\ worker'.at = "place" /\ i \in Int /\ i >= 0
        /\ (i < Len(list) /\ Settle(k, i)) \/ UNCHANGED <<index, kept, addQueue>>
        /\ UNCHANGED delQueue
    BY <1>1, <1>7, <2>1, Constants DEF RefreshPlace, WorkerCall
  <2>3. UNCHANGED <<index, addQueue>> /\ kept \subseteq kept'
    <3>1. CASE i < Len(list) /\ Settle(k, i)
      <4>1. k \in Known /\ index[k] = i
        BY <1>1, <2>1, <2>2, <3>1
      <4>. QED  BY <1>1, <3>1, <4>1 DEF Settle
    <3>. QED  BY <2>2, <3>1
  <2>. QED  BY <1>3, <2>2, <2>3 DEF Calm
<1>8. CASE FreeNone
  <2>1. /\ worker.at = "place" /\ worker'.at = "leave" /\ UNCHANGED <<index, addQueue>>
        /\ delQueue' = PushAll(delQueue, Known \ kept)
    BY <1>8 DEF FreeNone, Resting
  <2>2. PICK S \in SUBSET Keys : S = Known \ kept
    BY <1>1
  <2>3. ToSet(PushAll(delQueue, S)) = ToSet(delQueue) \cup S
    BY PushAllLine DEF CallInv, Types
  <2>4. S = {}
    BY <2>1, <2>2 DEF Calm
  <2>. QED  BY <1>2, <2>1, <2>2, <2>3, <2>4, CalmSame
<1>9. CASE RefreshLeave
  BY <1>2, <1>9, CalmSame DEF RefreshLeave, Leave, Resting, queues
<1>. QED  BY <1>4, <1>5, <1>6, <1>7, <1>8, <1>9 DEF InRefresh

LEMMA CalmStep == ASSUME CallInv, Calm, [Next]_vars, UNCHANGED desktop PROVE Calm'
<1>1. CASE UNCHANGED vars \/ (\E i \in Indexes : FindNode(i)) \/ (\E k \in Keys : MoveTo(k)) \/ Explorer
  <2>1. UNCHANGED <<shell, list, index, addQueue, delQueue, worker, kept>>
    BY <1>1 DEF FindNode, MoveTo, Explorer, FileAppears, FileGoes, IconAppears, IconGoes, Sort, Changed,
       vars, desktop, queues
  <2>. QED  BY <2>1, CalmSame
<1>. QED
  BY <1>1, LvCalm, QueuesCalm, OthersCalm, RefreshCalm DEF Next, InCall

\* A map that has become the list view stays so for as long as the desktop does
\* not change: no message that waits, no look of the list view's thread and no
\* refresh, rename or update disturbs it, for any number of icons (the
\* renumbering at KP/KPDeskInfo.cpp:2492 and the repairs at 2105 and 2906 find
\* nothing to do).
THEOREM StaysSettled == Spec => [](Calm /\ [][UNCHANGED desktop]_vars => []Calm)
<1>1. CallInv /\ Calm /\ [Next]_vars /\ [UNCHANGED desktop]_vars => Calm'
  <2>1. SUFFICES ASSUME CallInv, Calm, [Next]_vars, [UNCHANGED desktop]_vars PROVE Calm'
    OBVIOUS
  <2>2. UNCHANGED desktop
    BY <2>1 DEF vars, desktop
  <2>. QED  BY <2>1, <2>2, CalmStep
<1>. QED  BY <1>1, InitCalls, CallsStep, PTL DEF Spec
=============================================================================
