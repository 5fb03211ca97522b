------------------------- MODULE RecvFramingProofs --------------------------
(***************************************************************************)
(* Proofs about RecvFraming, for any set of responses, any size of the     *)
(* buffer and any number of responses, however the network cuts them.      *)
(***************************************************************************)
EXTENDS RecvFraming, SequenceTheorems, FiniteSetTheorems, TLAPS

Byte == UNION {ToSet(r) : r \in Responses}
Pieced == Seq(Seq(Byte))
-----------------------------------------------------------------------------
(* Induction and recursion.                                                *)

\* Induction over the numbers up to L, for a set of them: with a number n that is
\* not in S, k - 1 would be an injection of the numbers up to n that are not in S
\* into themselves that misses n.
LEMMA SetInduction ==
  ASSUME NEW S, NEW L \in Nat, 0 \in S, \A n \in 1..L : n - 1 \in S => n \in S
  PROVE  \A n \in 0..L : n \in S
<1>1. SUFFICES ASSUME NEW n \in 0..L, n \notin S PROVE FALSE
  OBVIOUS
<1> DEFINE A == {k \in 0..n : k \notin S}
           f == [k \in A |-> k - 1]
<1>2. \A k \in A : k \in Nat /\ k <= n /\ k - 1 \in A /\ k \notin S
  <2>1. TAKE k \in A
  <2>2. k \in Nat /\ k <= n /\ k \notin S
    OBVIOUS
  <2>3. k \in 1..L /\ k - 1 \in Nat /\ k - 1 <= n
    BY <2>2
  <2>4. k - 1 \notin S
    BY <2>2, <2>3
  <2>. QED  BY <2>2, <2>3, <2>4
<1>3. n \in A /\ IsFiniteSet(A)
  <2>1. IsFiniteSet(0..n) /\ A \in SUBSET (0..n)
    BY FS_Interval
  <2>. QED  BY <1>1, <2>1, FS_Subset
<1>4. f \in [A -> A] /\ \A k \in A : f[k] = k - 1
  BY <1>2
<1>. HIDE DEF A, f
<1>5. f \in Injection(A, A)
  BY <1>2, <1>4 DEF Injection, IsInjective
<1>6. f \in Surjection(A, A)
  BY <1>3, <1>5, FS_Injection
<1>7. PICK k \in A : f[k] = n
  BY <1>3, <1>6 DEF Surjection
<1>. QED  BY <1>2, <1>4, <1>7

\* A function that is a at 0 and goes on as G says; there is one.
Follows(f, a, L, G) == f[0] = a /\ \A n \in 1..L : f[n] = G[n][f[n - 1]]

LEMMA Recursion ==
  ASSUME NEW S, NEW a \in S, NEW L \in Nat, NEW G \in [1..L -> [S -> S]]
  PROVE  \E f \in [0..L -> S] : Follows(f, a, L, G)
<1> DEFINE Good(f, m) == f[0] = a /\ \A n \in 1..m : f[n] = G[n][f[n - 1]]
           Exists(m) == \E f \in [0..m -> S] : Good(f, m)
           M == {m \in 0..L : Exists(m)}
<1>1. Exists(0)
  <2> DEFINE f == [n \in 0..0 |-> a]
  <2>1. f \in [0..0 -> S] /\ Good(f, 0)
    OBVIOUS
  <2>. QED  BY <2>1
<1>2. ASSUME NEW m \in 1..L, Exists(m - 1) PROVE Exists(m)
  <2>1. PICK g \in [0..m-1 -> S] : Good(g, m - 1)
    BY <1>2
  <2> DEFINE f == [n \in 0..m |-> IF n <= m - 1 THEN g[n] ELSE G[m][g[m - 1]]]
  <2>2. g[m - 1] \in S /\ m # 0 /\ ~(m <= m - 1) /\ G[m][g[m - 1]] \in S
    BY <1>2
  <2>3. f \in [0..m -> S]
    BY <2>2
  <2>4. f[0] = g[0] /\ \A n \in 1..m-1 : f[n] = g[n] /\ f[n - 1] = g[n - 1]
    OBVIOUS
  <2>5. f[m] = G[m][g[m - 1]] /\ f[m - 1] = g[m - 1]
    BY <2>2
  <2>. HIDE DEF f
  <2>6. \A n \in 1..m : n \in 1..m-1 \/ n = m
    OBVIOUS
  <2>7. Good(f, m)
    BY <2>1, <2>2, <2>4, <2>5, <2>6
  <2>. QED  BY <2>3, <2>7
<1>3. \A m \in 0..L : m \in M
  <2>. HIDE DEF Exists
  <2>1. 0 \in M /\ \A m \in 1..L : m - 1 \in M => m \in M
    BY <1>1, <1>2
  <2>. HIDE DEF M
  <2>. QED  BY <2>1, SetInduction
<1>4. PICK f \in [0..L -> S] : Good(f, L)
  <2>1. Exists(L)
    <3>. HIDE DEF Exists
    <3>. QED  BY <1>3
  <2>. QED  BY <2>1
<1>. QED  BY <1>4 DEF Follows
-----------------------------------------------------------------------------
(* Responses and where they end.                                           *)

LEMMA ResponsesAre ==
  ASSUME NEW r \in Responses
  PROVE  /\ r \in Seq(Byte) /\ Len(r) \in Nat /\ Len(r) > 1 /\ r[1] \in Types
         /\ \A i \in 1..Len(r) : r[i] = EOF <=> i = Len(r)
<1>1. ToSet(r) \subseteq Byte
  BY DEF Byte
<1>2. r \in Seq(ToSet(r))
  BY ResponsesShape
<1>3. r \in Seq(Byte)
  BY <1>1, <1>2, SeqMonotonic
<1>. QED  BY <1>3, LenProperties, ResponsesShape

LEMMA SentAre ==
  ASSUME NEW s \in Seq(Responses)
  PROVE  /\ s \in Pieced /\ Len(s) \in Nat /\ DOMAIN s = 1..Len(s)
         /\ \A i \in 1..Len(s) : s[i] \in Responses /\ s[i] \in Seq(Byte) /\ Len(s[i]) \in Nat \ {0}
<1>1. Responses \subseteq Seq(Byte)
  BY ResponsesAre
<1>2. s \in Seq(Seq(Byte))
  BY <1>1, SeqMonotonic
<1>3. \A i \in 1..Len(s) : s[i] \in Responses
  BY ElementOfSeq
<1>4. \A i \in 1..Len(s) : s[i] \in Seq(Byte) /\ Len(s[i]) \in Nat /\ Len(s[i]) > 1
  BY <1>3, ResponsesAre
<1>. QED  BY <1>2, <1>3, <1>4, LenProperties DEF Pieced

\* Offset(s) is what its definition says.
LEMMA OffsetUnfold ==
  ASSUME NEW s \in Seq(Responses)
  PROVE  /\ Offset(s) \in [0..Len(s) -> Nat] /\ Offset(s)[0] = 0
         /\ \A i \in 1..Len(s) : Offset(s)[i] = Offset(s)[i - 1] + Len(s[i])
<1> DEFINE L == Len(s)
           G == [i \in 1..L |-> [v \in Nat |-> v + Len(s[i])]]
           Rec(f) == [i \in 0..L |-> IF i = 0 THEN 0 ELSE f[i - 1] + Len(s[i])]
           R == CHOOSE f : f = Rec(f)
<1>1. L \in Nat /\ \A i \in 1..L : Len(s[i]) \in Nat
  BY SentAre
<1>2. G \in [1..L -> [Nat -> Nat]]
  BY <1>1
<1>3. \A i \in 1..L : \A v \in Nat : G[i][v] = v + Len(s[i])
  OBVIOUS
<1>4. PICK f \in [0..L -> Nat] : f[0] = 0 /\ \A i \in 1..L : f[i] = G[i][f[i - 1]]
  <2>. HIDE DEF G, L
  <2>1. \E f \in [0..L -> Nat] : Follows(f, 0, L, G)
    BY <1>1, <1>2, Recursion
  <2>. QED  BY <2>1 DEF Follows
<1>5. f = Rec(f)
  <2>. HIDE DEF G, L
  <2>1. \A i \in 0..L : i # 0 => i \in 1..L /\ f[i - 1] \in Nat
    BY <1>1
  <2>2. \A i \in 0..L : f[i] = IF i = 0 THEN 0 ELSE f[i - 1] + Len(s[i])
    BY <1>3, <1>4, <2>1
  <2>. QED  BY <2>2
<1>6. R = Rec(R)
  BY <1>5
<1>7. Offset(s) = R
  BY DEF Offset
<1>8. R \in [0..L -> Nat]
  <2> DEFINE S == {i \in 0..L : R[i] \in Nat}
  <2>. HIDE DEF R, L
  <2>1. 0 \in S
    BY <1>1, <1>6
  <2>2. ASSUME NEW i \in 1..L, i - 1 \in S PROVE i \in S
    BY <1>1, <1>6, <2>2
  <2>. HIDE DEF S
  <2>3. \A i \in 0..L : i \in S
    BY <1>1, <2>1, <2>2, SetInduction
  <2>4. \A i \in 0..L : R[i] \in Nat
    BY <2>3 DEF S
  <2>. QED  BY <1>6, <2>4
<1>. HIDE DEF R
<1>9. R[0] = 0 /\ \A i \in 1..L : R[i] = R[i - 1] + Len(s[i])
  <2>. HIDE DEF L
  <2>1. \A i \in 1..L : i \in 0..L /\ i # 0
    OBVIOUS
  <2>2. 0 \in 0..L
    BY <1>1
  <2>. QED  BY <1>6, <2>1, <2>2
<1>. QED  BY <1>7, <1>8, <1>9

LEMMA OffsetGrows ==
  ASSUME NEW s \in Seq(Responses)
  PROVE  \A j \in 0..Len(s) : \A i \in 0..Len(s) : i < j => Offset(s)[i] < Offset(s)[j]
<1> DEFINE L == Len(s)
           o == Offset(s)
           S == {j \in 0..L : \A i \in 0..L : i < j => o[i] < o[j]}
<1>1. L \in Nat /\ \A i \in 1..L : Len(s[i]) \in Nat \ {0}
  BY SentAre
<1>2. o \in [0..L -> Nat] /\ \A i \in 1..L : o[i] = o[i - 1] + Len(s[i])
  BY OffsetUnfold
<1>. HIDE DEF L, o
<1>3. 0 \in S
  BY <1>1
<1>4. ASSUME NEW j \in 1..L, j - 1 \in S PROVE j \in S
  <2>1. j - 1 \in 0..L /\ j \in 0..L /\ o[j - 1] \in Nat /\ o[j] \in Nat /\ o[j - 1] < o[j]
    BY <1>1, <1>2
  <2>2. ASSUME NEW i \in 0..L, i < j PROVE o[i] < o[j]
    <3>1. o[i] \in Nat /\ (i = j - 1 \/ i < j - 1)
      BY <1>1, <1>2, <2>2
    <3>. QED  BY <1>4, <2>1, <2>2, <3>1
  <2>. QED  BY <2>1, <2>2
<1>. HIDE DEF S
<1>5. \A j \in 0..L : j \in S
  BY <1>1, <1>3, <1>4, SetInduction
<1>. QED  BY <1>5 DEF S, L, o

LEMMA OffsetAppend ==
  ASSUME NEW s \in Seq(Responses), NEW r \in Responses
  PROVE  /\ \A i \in 0..Len(s) : Offset(Append(s, r))[i] = Offset(s)[i]
         /\ Offset(Append(s, r))[Len(s) + 1] = Offset(s)[Len(s)] + Len(r)
<1> DEFINE L == Len(s)
           t == Append(s, r)
           o == Offset(s)
           u == Offset(t)
           S == {i \in 0..L : u[i] = o[i]}
<1>1. /\ L \in Nat /\ t \in Seq(Responses) /\ Len(t) = L + 1
      /\ t[L + 1] = r /\ \A i \in 1..L : t[i] = s[i]
  BY AppendProperties, LenProperties
<1>2. o[0] = 0 /\ \A i \in 1..L : o[i] = o[i - 1] + Len(s[i])
  BY OffsetUnfold
<1>3. u[0] = 0 /\ \A i \in 1..L+1 : u[i] = u[i - 1] + Len(t[i])
  BY <1>1, OffsetUnfold
<1>. HIDE DEF L, t, o, u
<1>4. 0 \in S
  BY <1>1, <1>2, <1>3
<1>5. ASSUME NEW i \in 1..L, i - 1 \in S PROVE i \in S
  <2>1. i \in 1..L+1 /\ i \in 0..L
    BY <1>1
  <2>. QED  BY <1>1, <1>2, <1>3, <1>5, <2>1
<1>. HIDE DEF S
<1>6. \A i \in 0..L : i \in S
  BY <1>1, <1>4, <1>5, SetInduction
<1>7. L \in 0..L /\ L + 1 \in 1..L+1 /\ (L + 1) - 1 = L
  BY <1>1
<1>8. \A i \in 0..L : u[i] = o[i]
  BY <1>6 DEF S
<1>9. u[L + 1] = o[L] + Len(r)
  BY <1>1, <1>3, <1>7, <1>8
<1>. QED  BY <1>8, <1>9 DEF L, t, o, u

\* What holds of a number and of all smaller ones holds up to how many there are.
LEMMA InitialSegment ==
  ASSUME NEW n \in Nat, NEW D \in SUBSET (1..n),
         \A i \in D : \A j \in 1..n : j <= i => j \in D
  PROVE  Cardinality(D) \in 0..n /\ \A i \in 1..n : i \in D <=> i <= Cardinality(D)
<1> DEFINE c == Cardinality(D)
<1>1. IsFiniteSet(1..n) /\ Cardinality(1..n) = n
  BY FS_Interval
<1>2. IsFiniteSet(D) /\ c \in Nat /\ c <= n
  BY <1>1, FS_Subset, FS_CardinalityType
<1>3. ASSUME NEW i \in D PROVE i <= c
  <2>1. i \in Nat /\ i <= n
    OBVIOUS
  <2>2. 1..i \in SUBSET D
    BY <2>1
  <2>3. Cardinality(1..i) = i
    BY <2>1, FS_Interval
  <2>. QED  BY <1>2, <2>2, <2>3, FS_Subset
<1>4. IsFiniteSet(1..c) /\ Cardinality(1..c) = c
  BY <1>2, FS_Interval
<1>. HIDE DEF c
<1>5. D \in SUBSET (1..c)
  BY <1>2, <1>3
<1>6. D = 1..c
  BY <1>4, <1>5, FS_Subset DEF c
<1>. QED  BY <1>2, <1>6 DEF c

\* Ended(p) and Begun(p) say which responses end, and which begin, before p.
LEMMA EndedIs ==
  ASSUME sent \in Seq(Responses), NEW p \in Int
  PROVE  /\ Ended(p) \in 0..Len(sent)
         /\ \A i \in 1..Len(sent) : Offset(sent)[i] <= p <=> i <= Ended(p)
<1> DEFINE n == Len(sent)
           o == Offset(sent)
           D == {i \in 1..n : o[i] <= p}
<1>1. n \in Nat /\ DOMAIN sent = 1..n
  BY SentAre
<1>2. o \in [0..n -> Nat]
  BY OffsetUnfold
<1>3. \A j \in 0..n : \A i \in 0..n : i < j => o[i] < o[j]
  BY OffsetGrows
<1>4. Ended(p) = Cardinality(D)
  BY <1>1 DEF Ended
<1>. HIDE DEF n, o
<1>5. ASSUME NEW i \in D, NEW j \in 1..n, j <= i PROVE j \in D
  <2>1. i \in 0..n /\ j \in 0..n /\ o[i] \in Nat /\ o[j] \in Nat /\ o[i] <= p
    BY <1>1, <1>2
  <2>2. j = i \/ o[j] < o[i]
    BY <1>1, <1>3, <1>5, <2>1
  <2>. QED  BY <2>1, <2>2
<1>6. D \in SUBSET (1..n) /\ \A i \in 1..n : i \in D <=> o[i] <= p
  OBVIOUS
<1>. HIDE DEF D
<1>7. Cardinality(D) \in 0..n /\ \A i \in 1..n : i \in D <=> i <= Cardinality(D)
  BY <1>1, <1>5, <1>6, InitialSegment
<1>. QED  BY <1>4, <1>6, <1>7 DEF n, o

LEMMA BegunIs ==
  ASSUME sent \in Seq(Responses), NEW p \in Int
  PROVE  /\ Begun(p) \in 0..Len(sent)
         /\ \A i \in 1..Len(sent) : Offset(sent)[i - 1] < p <=> i <= Begun(p)
<1> DEFINE n == Len(sent)
           o == Offset(sent)
           D == {i \in 1..n : o[i - 1] < p}
<1>1. n \in Nat /\ DOMAIN sent = 1..n
  BY SentAre
<1>2. o \in [0..n -> Nat]
  BY OffsetUnfold
<1>3. \A j \in 0..n : \A i \in 0..n : i < j => o[i] < o[j]
  BY OffsetGrows
<1>4. Begun(p) = Cardinality(D)
  BY <1>1 DEF Begun
<1>. HIDE DEF n, o
<1>5. ASSUME NEW i \in D, NEW j \in 1..n, j <= i PROVE j \in D
  <2>1. i - 1 \in 0..n /\ j - 1 \in 0..n /\ o[i - 1] \in Nat /\ o[j - 1] \in Nat /\ o[i - 1] < p
    BY <1>1, <1>2
  <2>2. j = i \/ o[j - 1] < o[i - 1]
    BY <1>1, <1>3, <1>5, <2>1
  <2>. QED  BY <2>1, <2>2
<1>6. D \in SUBSET (1..n) /\ \A i \in 1..n : i \in D <=> o[i - 1] < p
  OBVIOUS
<1>. HIDE DEF D
<1>7. Cardinality(D) \in 0..n /\ \A i \in 1..n : i \in D <=> i <= Cardinality(D)
  BY <1>1, <1>5, <1>6, InitialSegment
<1>. QED  BY <1>4, <1>6, <1>7 DEF n, o

\* A response that has begun within the first p bytes has ended there or is the
\* one that p splits; none is split at the end of a response.
LEMMA BegunOrEnded ==
  ASSUME sent \in Seq(Responses), NEW p \in 0..Offset(sent)[Len(sent)]
  PROVE  /\ Offset(sent)[Ended(p)] <= p
         /\ Begun(p) = IF Offset(sent)[Ended(p)] = p THEN Ended(p) ELSE Ended(p) + 1
         /\ \A k \in 0..Len(sent) : Offset(sent)[k] = p => Ended(p) = k
<1> DEFINE n == Len(sent)
           o == Offset(sent)
           e == Ended(p)
           b == Begun(p)
<1>1. n \in Nat
  BY SentAre
<1>2. o \in [0..n -> Nat] /\ o[0] = 0
  BY OffsetUnfold
<1>3. \A j \in 0..n : \A i \in 0..n : i < j => o[i] < o[j]
  BY OffsetGrows
<1>4. p \in Int
  BY <1>1, <1>2
<1>5. e \in 0..n /\ \A i \in 1..n : o[i] <= p <=> i <= e
  BY <1>4, EndedIs
<1>6. b \in 0..n /\ \A i \in 1..n : o[i - 1] < p <=> i <= b
  BY <1>4, BegunIs
<1>. HIDE DEF o, e, b
<1>7. p <= o[n] /\ 0 <= p
  BY <1>1, <1>2 DEF o
<1>. HIDE DEF n
<1>8. o[e] <= p
  <2>1. e = 0 \/ (e \in 1..n /\ e <= e)
    BY <1>1, <1>5
  <2>. QED  BY <1>2, <1>5, <1>7, <2>1
<1>9. e < n => p < o[e + 1]
  <2>. SUFFICES ASSUME e < n PROVE p < o[e + 1]
    OBVIOUS
  <2>1. e + 1 \in 1..n /\ ~(e + 1 <= e) /\ o[e + 1] \in Nat
    BY <1>1, <1>2, <1>5
  <2>. QED  BY <1>4, <1>5, <2>1
<1>10. CASE o[e] = p
  <2>1. b <= e
    <3>1. b = 0 \/ (b \in 1..n /\ b - 1 \in 0..n /\ o[b - 1] < p /\ o[b - 1] \in Nat)
      BY <1>1, <1>2, <1>6
    <3>. QED  BY <1>3, <1>5, <1>6, <1>10, <3>1
  <2>2. e <= b
    <3>1. e = 0 \/ (e \in 1..n /\ e - 1 \in 0..n /\ e - 1 < e)
      BY <1>1, <1>5
    <3>. QED  BY <1>3, <1>5, <1>6, <1>10, <3>1
  <2>3. b = e
    BY <1>5, <1>6, <2>1, <2>2
  <2>4. ASSUME NEW k \in 0..n, o[k] = p PROVE e = k
    <3>1. k \in Int /\ e \in Int /\ e \in 0..n
      BY <1>1, <1>5
    <3>. QED  BY <1>3, <1>4, <1>10, <2>4, <3>1
  <2>. QED  BY <1>8, <1>10, <2>3, <2>4 DEF n, o, e, b
<1>11. CASE o[e] # p
  <2>1. e < n
    BY <1>1, <1>2, <1>4, <1>5, <1>7, <1>8, <1>11
  <2>2. e + 1 \in 1..n /\ o[(e + 1) - 1] < p
    BY <1>1, <1>2, <1>4, <1>5, <1>8, <1>11, <2>1
  <2>3. ~(e + 2 <= b)
    <3>1. SUFFICES ASSUME e + 2 <= b PROVE FALSE
      OBVIOUS
    <3>2. e + 2 \in 1..n /\ (e + 2) - 1 = e + 1
      BY <1>1, <1>5, <1>6, <3>1
    <3>3. o[e + 1] < p
      BY <1>6, <3>1, <3>2
    <3>. QED  BY <1>2, <1>4, <1>9, <2>1, <2>2, <3>3
  <2>4. b = e + 1
    BY <1>5, <1>6, <2>2, <2>3
  <2>5. ASSUME NEW k \in 0..n, o[k] = p PROVE e = k
    <3>1. k = 0 \/ (k \in 1..n /\ k <= e)
      BY <1>1, <1>4, <1>5, <2>5
    <3>2. k # e /\ k \in Int /\ e \in Int /\ e \in 0..n
      BY <1>5, <1>11, <2>5
    <3>3. k < e
      BY <1>5, <3>1, <3>2
    <3>4. o[k] < o[e] /\ o[e] \in Nat
      BY <1>2, <1>3, <3>2, <3>3
    <3>. QED  BY <1>4, <1>8, <2>5, <3>4
  <2>. QED  BY <1>8, <1>11, <2>4, <2>5 DEF n, o, e, b
<1>. QED  BY <1>10, <1>11
-----------------------------------------------------------------------------
(* Where the end bytes of a piece of data are.                             *)

\* The place of a number in a set of them.
Rank(E, i) == Cardinality({j \in E : j <= i})

\* Counting up to each number of a set numbers its elements from 1.
LEMMA Ranks ==
  ASSUME NEW n \in Nat, NEW E \in SUBSET (1..n)
  PROVE  /\ IsFiniteSet(E) /\ Cardinality(E) \in 0..n
         /\ \A i \in E : Rank(E, i) \in 1..Cardinality(E)
         /\ \A i \in E : \A l \in E : i < l => Rank(E, i) < Rank(E, l)
         /\ \A k \in 1..Cardinality(E) : \E i \in E : Rank(E, i) = k
<1> DEFINE upto(i) == {j \in E : j <= i}
           c == Cardinality(E)
           rank == [i \in E |-> Cardinality(upto(i))]
<1>1. IsFiniteSet(1..n) /\ Cardinality(1..n) = n
  BY FS_Interval
<1>2. IsFiniteSet(E) /\ c \in Nat /\ c <= n
  BY <1>1, FS_Subset, FS_CardinalityType
<1>3. ASSUME NEW i \in E PROVE rank[i] \in 1..c /\ IsFiniteSet(upto(i))
  <2>1. upto(i) \in SUBSET E /\ i \in upto(i) /\ rank[i] = Cardinality(upto(i))
    OBVIOUS
  <2>. HIDE DEF upto, rank
  <2>2. IsFiniteSet(upto(i)) /\ Cardinality(upto(i)) <= c /\ Cardinality(upto(i)) \in Nat
    BY <1>2, <2>1, FS_Subset, FS_CardinalityType
  <2>3. Cardinality(upto(i)) # 0
    BY <2>1, <2>2, FS_EmptySet
  <2>. QED  BY <1>2, <2>1, <2>2, <2>3
<1>4. ASSUME NEW i \in E, NEW l \in E, i < l PROVE rank[i] < rank[l]
  <2>1. upto(i) \in SUBSET upto(l) /\ l \in upto(l) /\ l \notin upto(i)
    <3>1. \A j \in E : j \in Int /\ (j <= i => j <= l)
      BY <1>4
    <3>2. l <= l /\ ~(l <= i)
      BY <1>4
    <3>. QED  BY <3>1, <3>2
  <2>2. rank[i] = Cardinality(upto(i)) /\ rank[l] = Cardinality(upto(l))
    OBVIOUS
  <2>3. IsFiniteSet(upto(l)) /\ rank[i] \in Nat /\ rank[l] \in Nat
    BY <1>2, <1>3
  <2>. HIDE DEF upto, rank
  <2>4. rank[i] <= rank[l] /\ rank[i] # rank[l]
    BY <2>1, <2>2, <2>3, FS_Subset
  <2>. QED  BY <2>3, <2>4
<1>5. rank \in Injection(E, 1..c)
  <2>1. rank \in [E -> 1..c]
    BY <1>3
  <2>2. \A i \in E : i \in Int /\ rank[i] \in Int
    BY <1>3
  <2>3. ASSUME NEW i \in E, NEW l \in E, rank[i] = rank[l] PROVE i = l
    <3>. HIDE DEF rank
    <3>1. ~(i < l) /\ ~(l < i)
      BY <1>4, <2>2, <2>3
    <3>. QED  BY <2>2, <3>1
  <2>. HIDE DEF rank
  <2>. QED  BY <2>1, <2>3 DEF Injection, IsInjective
<1>6. IsFiniteSet(1..c) /\ Cardinality(1..c) = Cardinality(E)
  BY <1>2, FS_Interval
<1>7. \A i \in E : rank[i] = Cardinality(upto(i))
  OBVIOUS
<1>8. rank \in Surjection(E, 1..c)
  <2>. HIDE DEF rank, c
  <2>. QED  BY <1>5, <1>6, FS_Injection
<1>9. \A k \in 1..c : \E i \in E : rank[i] = k
  <2>. HIDE DEF rank, c
  <2>. QED  BY <1>8 DEF Surjection
<1>. HIDE DEF rank
<1>10. \A k \in 1..c : \E i \in E : Cardinality(upto(i)) = k
  BY <1>7, <1>9
<1>11. \A i \in E : Cardinality(upto(i)) \in 1..c
  BY <1>3, <1>7
<1>12. \A i \in E : \A l \in E : i < l => Cardinality(upto(i)) < Cardinality(upto(l))
  BY <1>4, <1>7
<1>. QED  BY <1>2, <1>10, <1>11, <1>12 DEF Rank

Ends(bytes) == {i \in DOMAIN bytes : bytes[i] = EOF}

LEMMA EndsAre ==
  ASSUME NEW bytes \in Seq(Byte)
  PROVE  /\ Len(bytes) \in Nat /\ Ends(bytes) \in SUBSET (1..Len(bytes))
         /\ \A i \in Ends(bytes) : i \in 1..Len(bytes) /\ i \in Int
         /\ Cuts(bytes) = Cardinality(Ends(bytes)) /\ Cuts(bytes) \in 0..Len(bytes)
<1>1. Len(bytes) \in Nat /\ DOMAIN bytes = 1..Len(bytes)
  BY LenProperties
<1>2. Ends(bytes) \in SUBSET (1..Len(bytes)) /\ Cuts(bytes) = Cardinality(Ends(bytes))
  BY <1>1 DEF Ends, Cuts
<1>3. \A i \in Ends(bytes) : i \in 1..Len(bytes)
  BY <1>1 DEF Ends
<1>. QED  BY <1>1, <1>2, <1>3, Ranks

\* The k-th end byte is the one up to which there are k.
LEMMA CutIs ==
  ASSUME NEW bytes \in Seq(Byte)
  PROVE  /\ Cut(bytes, 0) = 0
         /\ \A k \in 1..Cuts(bytes) : /\ Cut(bytes, k) \in Ends(bytes)
                                      /\ Rank(Ends(bytes), Cut(bytes, k)) = k
<1> DEFINE E == Ends(bytes)
<1>1. /\ Len(bytes) \in Nat /\ E \in SUBSET (1..Len(bytes)) /\ \A i \in E : i \in 1..Len(bytes) /\ i \in Int
      /\ Cuts(bytes) = Cardinality(E)
  BY EndsAre
<1>2. ASSUME NEW k \in 1..Cuts(bytes)
      PROVE  Cut(bytes, k) \in E /\ Rank(E, Cut(bytes, k)) = k
  <2>0. k # 0
    BY <1>1
  <2>1. Cut(bytes, k) = CHOOSE i \in E : Rank(E, i) = k
    BY <2>0, Zenon DEF Cut, Ends, Rank
  <2>. HIDE DEF E
  <2>2. \E i \in E : Rank(E, i) = k
    BY <1>1, Ranks
  <2>. QED  BY <2>1, <2>2
<1>3. Cut(bytes, 0) = 0
  BY DEF Cut
<1>. QED  BY <1>2, <1>3

LEMMA CutGrows ==
  ASSUME NEW bytes \in Seq(Byte)
  PROVE  /\ \A k \in 0..Cuts(bytes) : Cut(bytes, k) \in 0..Len(bytes)
         /\ \A k \in 1..Cuts(bytes) : Cut(bytes, k - 1) < Cut(bytes, k)
         /\ \A k \in 1..Cuts(bytes) : bytes[Cut(bytes, k)] = EOF
<1> DEFINE E == Ends(bytes)
<1>1. /\ Len(bytes) \in Nat /\ E \in SUBSET (1..Len(bytes)) /\ \A i \in E : i \in 1..Len(bytes) /\ i \in Int
      /\ Cuts(bytes) \in Nat
  BY EndsAre
<1>2. \A k \in 1..Cuts(bytes) : Cut(bytes, k) \in 1..Len(bytes)
  BY EndsAre, CutIs
<1>3. Cuts(bytes) \in Nat /\ Len(bytes) \in Nat
  BY <1>1
<1>4. Cut(bytes, 0) = 0 /\ \A k \in 1..Cuts(bytes) : Cut(bytes, k) \in E /\ Rank(E, Cut(bytes, k)) = k
  BY CutIs
<1>5. \A i \in E : bytes[i] = EOF
  BY DEF Ends
<1>. HIDE DEF E
<1>6. \A k \in 0..Cuts(bytes) : Cut(bytes, k) \in 0..Len(bytes)
  <2>1. \A k \in 0..Cuts(bytes) : k = 0 \/ k \in 1..Cuts(bytes)
    BY <1>3
  <2>. QED  BY <1>4, <1>2, <1>3, <2>1
<1>7. ASSUME NEW k \in 1..Cuts(bytes) PROVE Cut(bytes, k - 1) < Cut(bytes, k)
  <2>1. CASE k = 1
    <3>1. k - 1 = 0 /\ Cut(bytes, k) \in 1..Len(bytes)
      BY <1>2, <2>1
    <3>. QED  BY <1>4, <1>3, <2>1, <3>1
  <2>2. CASE k # 1
    <3>1. k - 1 \in 1..Cuts(bytes)
      BY <1>1, <2>2
    <3> DEFINE i == Cut(bytes, k - 1)
               l == Cut(bytes, k)
    <3>2. /\ i \in E /\ l \in E /\ i \in Int /\ l \in Int
          /\ Rank(E, i) = k - 1 /\ Rank(E, l) = k
      BY <1>1, <1>4, <3>1
    <3>. HIDE DEF i, l
    <3>3. ~(l < i)
      <4>1. SUFFICES ASSUME l < i PROVE FALSE
        OBVIOUS
      <4>2. Rank(E, l) < Rank(E, i)
        BY <1>1, <3>2, <4>1, Ranks
      <4>. QED  BY <3>2, <4>2
    <3>4. l # i
      BY <3>2
    <3>. QED  BY <3>2, <3>3, <3>4 DEF i, l
  <2>. QED  BY <2>1, <2>2
<1>. QED  BY <1>4, <1>5, <1>6, <1>7

\* Numbers that rise through all end bytes are the cuts.
LEMMA CutsAt ==
  ASSUME NEW bytes \in Seq(Byte), NEW K \in Nat, NEW c \in [1..K -> Ends(bytes)],
         \A k \in 1..K : \A l \in 1..K : k < l => c[k] < c[l],
         \A i \in Ends(bytes) : \E k \in 1..K : c[k] = i
  PROVE  Cuts(bytes) = K /\ \A k \in 1..K : Cut(bytes, k) = c[k]
<1> DEFINE E == Ends(bytes)
<1>1. /\ Len(bytes) \in Nat /\ E \in SUBSET (1..Len(bytes)) /\ \A i \in E : i \in 1..Len(bytes) /\ i \in Int
      /\ Cuts(bytes) = Cardinality(E)
  BY EndsAre
<1>2. /\ c \in [1..K -> E] /\ \A k \in 1..K : \A l \in 1..K : k < l => c[k] < c[l]
      /\ \A i \in E : \E k \in 1..K : c[k] = i
  OBVIOUS
<1>3. \A k \in 1..Cuts(bytes) : Cut(bytes, k) \in E /\ Rank(E, Cut(bytes, k)) = k
  BY CutIs
<1>. HIDE DEF E
<1>4. \A k \in 1..K : c[k] \in E /\ c[k] \in Int /\ k \in Int
  <2>1. \A k \in 1..K : c[k] \in E
    BY <1>2
  <2>2. \A i \in E : i \in Int
    BY <1>1
  <2>3. \A k \in 1..K : k \in Int
    OBVIOUS
  <2>. QED  BY <2>1, <2>2, <2>3
<1>5. \A k \in 1..K : \A l \in 1..K : c[k] = c[l] => k = l
  <2>1. ASSUME NEW k \in 1..K, NEW l \in 1..K, c[k] = c[l] PROVE k = l
    <3>1. ~(k < l) /\ ~(l < k)
      BY <1>2, <1>4, <2>1
    <3>. QED  BY <1>4, <3>1
  <2>. QED  BY <2>1
<1>6. ASSUME NEW k \in 0..K PROVE Cardinality({j \in E : \E l \in 1..k : c[l] = j}) = k
  <2> DEFINE T == {j \in E : \E l \in 1..k : c[l] = j}
             f == [l \in 1..k |-> c[l]]
  <2>1. \A l \in 1..k : l \in 1..K
    OBVIOUS
  <2>2. f \in [1..k -> T] /\ \A l \in 1..k : f[l] = c[l]
    BY <1>4, <2>1
  <2>3. \A j \in T : \E l \in 1..k : f[l] = j
    BY <2>2
  <2>. HIDE DEF f, T
  <2>4. f \in Bijection(1..k, T)
    BY <1>5, <2>1, <2>2, <2>3 DEF Bijection, Injection, Surjection, IsInjective
  <2>5. ExistsBijection(1..k, T) /\ k \in Nat
    BY <2>4 DEF ExistsBijection
  <2>. QED  BY <2>5, FS_CountingElements DEF T
<1>7. Cardinality(E) = K
  <2>1. E = {j \in E : \E l \in 1..K : c[l] = j}
    BY <1>2
  <2>2. K \in 0..K
    OBVIOUS
  <2>. QED  BY <1>6, <2>1, <2>2
<1>8. ASSUME NEW k \in 1..K PROVE Cut(bytes, k) = c[k]
  <2>1. {j \in E : j <= c[k]} = {j \in E : \E l \in 1..k : c[l] = j}
    <3>1. ASSUME NEW j \in E PROVE j <= c[k] <=> \E l \in 1..k : c[l] = j
      <4>1. PICK m \in 1..K : c[m] = j
        BY <1>2
      <4>2. m \in Int /\ k \in Int /\ (m = k \/ m < k \/ k < m)
        OBVIOUS
      <4>3. j <= c[k] <=> m <= k
        BY <1>2, <1>4, <4>1, <4>2
      <4>4. (\E l \in 1..k : c[l] = j) <=> m <= k
        BY <1>5, <4>1, <4>2
      <4>. QED  BY <4>3, <4>4
    <3>. QED  BY <3>1
  <2>2. Rank(E, c[k]) = k
    BY <1>6, <2>1 DEF Rank
  <2> DEFINE i == Cut(bytes, k)
             l == c[k]
  <2>3. /\ i \in E /\ l \in E /\ i \in Int /\ l \in Int
        /\ Rank(E, i) = k /\ Rank(E, l) = k
    BY <1>1, <1>3, <1>4, <1>7, <2>2
  <2>. HIDE DEF i, l
  <2>4. ~(i < l) /\ ~(l < i)
    <3>1. i < l => Rank(E, i) < Rank(E, l)
      BY <1>1, <2>3, Ranks
    <3>2. l < i => Rank(E, l) < Rank(E, i)
      BY <1>1, <2>3, Ranks
    <3>. QED  BY <2>3, <3>1, <3>2
  <2>. QED  BY <2>3, <2>4 DEF i, l
<1>. QED  BY <1>1, <1>7, <1>8
-----------------------------------------------------------------------------
(* Sequences that are kept within others.                                  *)

LEMMA KeptEmpty ==
  ASSUME NEW T, NEW t \in Seq(T)
  PROVE  SubsequenceOf(<<>>, t)
<1> DEFINE f == [i \in DOMAIN <<>> |-> i]
<1>1. DOMAIN <<>> = {}
  OBVIOUS
<1>2. f \in [DOMAIN <<>> -> DOMAIN t]
  BY <1>1
<1>. QED  BY <1>1, <1>2 DEF SubsequenceOf

LEMMA KeptSelf ==
  ASSUME NEW T, NEW t \in Seq(T)
  PROVE  SubsequenceOf(t, t)
<1> DEFINE f == [i \in DOMAIN t |-> i]
<1>1. f \in [DOMAIN t -> DOMAIN t] /\ \A i \in DOMAIN t : f[i] = i
  OBVIOUS
<1>. HIDE DEF f
<1>. QED  BY <1>1 DEF SubsequenceOf

LEMMA KeptConcat ==
  ASSUME NEW T, NEW s \in Seq(T), NEW t \in Seq(T), NEW u \in Seq(T), NEW v \in Seq(T),
         SubsequenceOf(s, t), SubsequenceOf(u, v)
  PROVE  SubsequenceOf(s \o u, t \o v)
<1> DEFINE a == Len(s)
           b == Len(t)
           c == Len(u)
           d == Len(v)
<1>1. a \in Nat /\ b \in Nat /\ c \in Nat /\ d \in Nat
  BY LenProperties
<1>2. /\ DOMAIN s = 1..a /\ DOMAIN t = 1..b /\ DOMAIN u = 1..c /\ DOMAIN v = 1..d
      /\ s \o u \in Seq(T) /\ t \o v \in Seq(T)
  BY LenProperties, ConcatProperties
<1>3. /\ Len(s \o u) = a + c /\ Len(t \o v) = b + d
      /\ DOMAIN (s \o u) = 1..a+c /\ DOMAIN (t \o v) = 1..b+d
  BY <1>2, LenProperties, ConcatProperties
<1>4. /\ \A i \in 1..a+c : (s \o u)[i] = IF i <= a THEN s[i] ELSE u[i - a]
      /\ \A i \in 1..b+d : (t \o v)[i] = IF i <= b THEN t[i] ELSE v[i - b]
  BY ConcatProperties
<1>5. PICK f \in [1..a -> 1..b] : \A i, j \in 1..a : s[i] = t[f[i]] /\ (i < j => f[i] < f[j])
  BY <1>2 DEF SubsequenceOf
<1>6. PICK g \in [1..c -> 1..d] : \A i, j \in 1..c : u[i] = v[g[i]] /\ (i < j => g[i] < g[j])
  BY <1>2 DEF SubsequenceOf
<1> DEFINE h == [i \in 1..a+c |-> IF i <= a THEN f[i] ELSE b + g[i - a]]
<1>. HIDE DEF a, b, c, d
<1>7. ASSUME NEW i \in 1..a+c
      PROVE  \/ i \in 1..a /\ i <= a /\ h[i] = f[i] /\ f[i] \in 1..b
             \/ i - a \in 1..c /\ ~(i <= a) /\ h[i] = b + g[i - a] /\ g[i - a] \in 1..d
  <2>1. (i \in 1..a /\ i <= a) \/ (i - a \in 1..c /\ ~(i <= a))
    BY <1>1
  <2>2. h[i] = IF i <= a THEN f[i] ELSE b + g[i - a]
    OBVIOUS
  <2>3. \A k \in 1..a : f[k] \in 1..b
    OBVIOUS
  <2>4. \A k \in 1..c : g[k] \in 1..d
    OBVIOUS
  <2>. HIDE DEF h
  <2>. QED  BY <2>1, <2>2, <2>3, <2>4
<1>8. h = [i \in 1..a+c |-> h[i]]
  OBVIOUS
<1>. HIDE DEF h
<1>9. ASSUME NEW i \in 1..a+c PROVE h[i] \in 1..b+d
  <2>1. \A k \in 1..d : b + k \in 1..b+d
    BY <1>1
  <2>2. \A k \in 1..b : k \in 1..b+d
    BY <1>1
  <2>. QED  BY <1>7, <2>1, <2>2
<1>10. h \in [1..a+c -> 1..b+d]
  BY <1>8, <1>9
<1>11. ASSUME NEW i \in 1..a+c PROVE (s \o u)[i] = (t \o v)[h[i]]
  <2>1. CASE i \in 1..a /\ i <= a /\ h[i] = f[i] /\ f[i] \in 1..b
    <3>1. f[i] \in 1..b+d /\ f[i] <= b
      BY <1>1, <2>1
    <3>. QED  BY <1>4, <1>5, <2>1, <3>1
  <2>2. CASE i - a \in 1..c /\ ~(i <= a) /\ h[i] = b + g[i - a] /\ g[i - a] \in 1..d
    <3>1. b + g[i - a] \in 1..b+d /\ ~(b + g[i - a] <= b) /\ (b + g[i - a]) - b = g[i - a]
      BY <1>1, <2>2
    <3>2. (t \o v)[h[i]] = v[g[i - a]]
      BY <1>4, <2>2, <3>1
    <3>. QED  BY <1>4, <1>6, <2>2, <3>2
  <2>. QED  BY <1>7, <2>1, <2>2
<1>12. ASSUME NEW i \in 1..a+c, NEW j \in 1..a+c, i < j PROVE h[i] < h[j]
  <2>1. CASE i \in 1..a /\ j \in 1..a /\ h[i] = f[i] /\ h[j] = f[j]
    BY <1>5, <1>12, <2>1
  <2>2. CASE i - a \in 1..c /\ j - a \in 1..c /\ h[i] = b + g[i - a] /\ h[j] = b + g[j - a]
    <3>1. i - a < j - a
      BY <1>1, <1>12
    <3>2. g[i - a] < g[j - a] /\ g[i - a] \in Nat /\ g[j - a] \in Nat
      BY <1>6, <2>2, <3>1
    <3>. QED  BY <1>1, <2>2, <3>2
  <2>3. CASE i \in 1..a /\ h[i] = f[i] /\ f[i] \in 1..b /\ h[j] = b + g[j - a] /\ g[j - a] \in 1..d
    BY <1>1, <2>3
  <2>4. ~(~(i <= a) /\ j <= a)
    BY <1>1, <1>12
  <2>. QED  BY <1>7, <2>1, <2>2, <2>3, <2>4
<1>13. DOMAIN (s \o u) = 1..a+c /\ DOMAIN (t \o v) = 1..b+d
  BY <1>3 DEF a, b, c, d
<1>. QED  BY <1>10, <1>11, <1>12, <1>13 DEF SubsequenceOf

LEMMA KeptAppend ==
  ASSUME NEW T, NEW s \in Seq(T), NEW t \in Seq(T), NEW x \in T, SubsequenceOf(s, t)
  PROVE  SubsequenceOf(Append(s, x), Append(t, x)) /\ SubsequenceOf(s, Append(t, x))
<1>1. <<x>> \in Seq(T) /\ <<>> \in Seq(T)
  BY EmptySeq
<1>2. Append(s, x) = s \o <<x>> /\ Append(t, x) = t \o <<x>> /\ s = s \o <<>>
  BY AppendIsConcat, ConcatEmptySeq
<1>3. SubsequenceOf(<<x>>, <<x>>) /\ SubsequenceOf(<<>>, <<x>>)
  BY <1>1, KeptSelf, KeptEmpty
<1>4. SubsequenceOf(s \o <<x>>, t \o <<x>>)
  BY <1>1, <1>3, KeptConcat
<1>5. SubsequenceOf(s \o <<>>, t \o <<x>>)
  BY <1>1, <1>3, KeptConcat
<1>. QED  BY <1>2, <1>4, <1>5
-----------------------------------------------------------------------------
(* How pieces of data are taken apart.                                     *)

States == [data : Seq(Byte), valid : BOOLEAN, found : Pieced]
Nothing == [data |-> <<>>, valid |-> FALSE, found |-> <<>>]

LEMMA PiecesAre ==
  ASSUME NEW bytes \in Seq(Byte)
  PROVE  /\ Pieces(bytes) \in Pieced /\ Cuts(bytes) \in Nat
         /\ Len(Pieces(bytes)) = IF Cuts(bytes) = 0 THEN 1 ELSE Cuts(bytes)
         /\ \A k \in 1..Cuts(bytes) : Pieces(bytes)[k] = SubSeq(bytes, Cut(bytes, k - 1) + 1, Cut(bytes, k))
<1> DEFINE K == Cuts(bytes)
           piece(k) == SubSeq(bytes, Cut(bytes, k - 1) + 1, Cut(bytes, k))
<1>1. K \in Nat /\ Len(bytes) \in Nat
  BY EndsAre
<1>2. ASSUME NEW k \in 1..K PROVE piece(k) \in Seq(Byte)
  <2>1. k - 1 \in 0..K /\ k \in 0..K
    BY <1>1
  <2>2. Cut(bytes, k - 1) \in 0..Len(bytes) /\ Cut(bytes, k) \in 0..Len(bytes)
    BY <2>1, CutGrows
  <2> DEFINE m == Cut(bytes, k - 1) + 1
             n == Cut(bytes, k)
  <2>3. m \in Int /\ n \in Int /\ \A i \in m..n : i \in 1..Len(bytes)
    BY <1>1, <2>2
  <2>. HIDE DEF m, n
  <2>4. \A i \in m..n : bytes[i] \in Byte
    BY <2>3, ElementOfSeq
  <2>5. SubSeq(bytes, m, n) \in Seq(Byte)
    BY <2>3, <2>4, SubSeqProperties
  <2>. QED  BY <2>5 DEF m, n
<1>3. CASE K = 0
  <2>1. Pieces(bytes) = <<bytes>>
    BY <1>3 DEF Pieces
  <2>2. <<bytes>> \in Seq(Seq(Byte)) /\ Len(<<bytes>>) = 1
    OBVIOUS
  <2>. QED  BY <1>1, <1>3, <2>1, <2>2 DEF Pieced
<1>4. CASE K # 0
  <2>1. Pieces(bytes) = [k \in 1..K |-> piece(k)]
    BY <1>4 DEF Pieces
  <2> DEFINE P == Pieces(bytes)
  <2>2. P \in [1..K -> Seq(Byte)] /\ \A k \in 1..K : P[k] = piece(k)
    <3>. HIDE DEF piece, K
    <3>. QED  BY <1>2, <2>1
  <2>3. P \in Seq(Seq(Byte)) /\ Len(P) = K
    <3>. HIDE DEF P, K
    <3>. QED  BY <1>1, <2>2
  <2>. QED  BY <1>1, <1>4, <2>2, <2>3 DEF Pieced
<1>. QED  BY <1>3, <1>4

\* A piece completes a response, which then ends with an end byte, or none.
LEMMA ScanIs ==
  ASSUME NEW s \in States, NEW piece \in Seq(Byte)
  PROVE  /\ Scan(s, piece) \in States
         /\ \/ Scan(s, piece).found = s.found
            \/ \E x \in Seq(Byte) : Last(x) = EOF /\ Scan(s, piece).found = Append(s.found, x)
<1> DEFINE now == IF Started(piece) THEN piece ELSE IF s.valid THEN s.data \o piece ELSE s.data
<1>1. s.data \in Seq(Byte) /\ s.valid \in BOOLEAN /\ s.found \in Pieced
  BY DEF States
<1>2. now \in Seq(Byte)
  BY <1>1, ConcatProperties
<1>3. Scan(s, piece) =
        IF (s.valid \/ Started(piece)) /\ Last(now) = EOF
        THEN [data |-> now, valid |-> FALSE, found |-> Append(s.found, now)]
        ELSE [data |-> now, valid |-> s.valid \/ Started(piece), found |-> s.found]
  BY DEF Scan
<1>. HIDE DEF now
<1>4. Append(s.found, now) \in Pieced
  BY <1>1, <1>2, AppendProperties DEF Pieced
<1>5. Started(piece) \in BOOLEAN
  BY DEF Started
<1>6. CASE (s.valid \/ Started(piece)) /\ Last(now) = EOF
  <2>1. Scan(s, piece) = [data |-> now, valid |-> FALSE, found |-> Append(s.found, now)]
    BY <1>3, <1>6
  <2>. QED  BY <1>2, <1>4, <1>6, <2>1 DEF States
<1>7. CASE ~((s.valid \/ Started(piece)) /\ Last(now) = EOF)
  <2>1. Scan(s, piece) = [data |-> now, valid |-> s.valid \/ Started(piece), found |-> s.found]
    BY <1>3, <1>7
  <2>2. (s.valid \/ Started(piece)) \in BOOLEAN
    BY <1>1, <1>5
  <2>. QED  BY <1>1, <1>2, <2>1, <2>2 DEF States
<1>. QED  BY <1>6, <1>7

\* A piece that is a response is found, whatever came before.
LEMMA ScanResponse ==
  ASSUME NEW s \in States, NEW r \in Responses
  PROVE  Scan(s, r).found = Append(s.found, r) /\ Last(r) = EOF
<1>1. r[1] \in Types /\ Len(r) \in Nat /\ Len(r) > 1 /\ r[Len(r)] = EOF
  <2>1. /\ Len(r) \in Nat /\ Len(r) > 1 /\ r[1] \in Types
        /\ \A i \in 1..Len(r) : r[i] = EOF <=> i = Len(r)
    BY ResponsesAre
  <2>2. Len(r) \in 1..Len(r)
    BY <2>1
  <2>. QED  BY <2>1, <2>2
<1>2. Started(r) /\ Last(r) = EOF
  BY <1>1 DEF Started, Last
<1>. QED  BY <1>2 DEF Scan

\* ScanData is what its definition says.
LEMMA ScanDataUnfold ==
  ASSUME NEW s \in States, NEW bytes \in Seq(Byte)
  PROVE  \E f \in [0..Len(Pieces(bytes)) -> States] :
           /\ f[0].found = s.found
           /\ \A k \in 1..Len(Pieces(bytes)) : f[k] = Scan(f[k - 1], Pieces(bytes)[k])
           /\ ScanData(s, bytes) = f[Len(Pieces(bytes))]
<1> DEFINE P == Pieces(bytes)
           L == Len(P)
           a == [s EXCEPT !.data = bytes]
           G == [k \in 1..L |-> [v \in States |-> Scan(v, P[k])]]
           Rec(f) == [k \in 0..L |-> IF k = 0 THEN a ELSE Scan(f[k - 1], P[k])]
           R == CHOOSE f : f = Rec(f)
<1>1. L \in Nat /\ \A k \in 1..L : P[k] \in Seq(Byte)
  <2>1. P \in Seq(Seq(Byte))
    BY PiecesAre DEF Pieced
  <2>. HIDE DEF P
  <2>. QED  BY <2>1, LenProperties, ElementOfSeq
<1>2. a \in States /\ a.found = s.found
  BY DEF States
<1>3. ScanData(s, bytes) = R[L]
  BY DEF ScanData
<1>. HIDE DEF P, L, a
<1>4. \A k \in 1..L : \A v \in States : Scan(v, P[k]) \in States
  BY <1>1, ScanIs
<1>5. G \in [1..L -> [States -> States]]
  BY <1>4
<1>6. \A k \in 1..L : \A v \in States : G[k][v] = Scan(v, P[k])
  OBVIOUS
<1>7. PICK f \in [0..L -> States] : f[0] = a /\ \A k \in 1..L : f[k] = G[k][f[k - 1]]
  <2>. HIDE DEF G
  <2>1. \E f \in [0..L -> States] : Follows(f, a, L, G)
    BY <1>1, <1>2, <1>5, Recursion
  <2>. QED  BY <2>1 DEF Follows
<1>8. f = Rec(f)
  <2>. HIDE DEF G
  <2>1. \A k \in 0..L : k # 0 => k \in 1..L /\ f[k - 1] \in States
    BY <1>1
  <2>2. \A k \in 0..L : f[k] = IF k = 0 THEN a ELSE Scan(f[k - 1], P[k])
    BY <1>6, <1>7, <2>1
  <2>. QED  BY <2>2
<1>9. R = Rec(R)
  BY <1>8
<1>. HIDE DEF R
<1>10. R[0] = a /\ \A k \in 1..L : R[k] = Scan(R[k - 1], P[k])
  <2>1. \A k \in 1..L : k \in 0..L /\ k # 0
    OBVIOUS
  <2>2. 0 \in 0..L
    BY <1>1
  <2>. QED  BY <1>9, <2>1, <2>2
<1>11. R \in [0..L -> States]
  <2> DEFINE S == {k \in 0..L : R[k] \in States}
  <2>1. 0 \in S
    BY <1>1, <1>2, <1>10
  <2>2. ASSUME NEW k \in 1..L, k - 1 \in S PROVE k \in S
    BY <1>1, <1>4, <1>10, <2>2
  <2>. HIDE DEF S
  <2>3. \A k \in 0..L : k \in S
    BY <1>1, <2>1, <2>2, SetInduction
  <2>4. \A k \in 0..L : R[k] \in States
    BY <2>3 DEF S
  <2>. QED  BY <1>9, <2>4
<1>. QED  BY <1>2, <1>3, <1>10, <1>11 DEF P, L

LEMMA ScanDataType ==
  ASSUME NEW s \in States, NEW bytes \in Seq(Byte)
  PROVE  ScanData(s, bytes) \in States
<1>1. Len(Pieces(bytes)) \in 0..Len(Pieces(bytes))
  BY PiecesAre
<1>. QED  BY <1>1, ScanDataUnfold

\* Scanned is what its definition says.
LEMMA ScannedUnfold ==
  ASSUME NEW q \in Pieced
  PROVE  \E f \in [0..Len(q) -> States] :
           /\ f[0] = Nothing
           /\ \A k \in 1..Len(q) : f[k] = ScanData(f[k - 1], q[k])
           /\ Scanned(q) = f[Len(q)]
<1> DEFINE L == Len(q)
           a == Nothing
           G == [k \in 1..L |-> [v \in States |-> ScanData(v, q[k])]]
           Rec(f) == [k \in 0..L |-> IF k = 0 THEN a ELSE ScanData(f[k - 1], q[k])]
           R == CHOOSE f : f = Rec(f)
<1>1. L \in Nat /\ \A k \in 1..L : q[k] \in Seq(Byte)
  BY LenProperties, ElementOfSeq DEF Pieced
<1>2. a \in States
  BY EmptySeq DEF States, Nothing, Pieced
<1>3. Scanned(q) = R[L]
  BY DEF Scanned, Nothing
<1>. HIDE DEF L, a
<1>4. \A k \in 1..L : \A v \in States : ScanData(v, q[k]) \in States
  BY <1>1, ScanDataType
<1>5. G \in [1..L -> [States -> States]]
  BY <1>4
<1>6. \A k \in 1..L : \A v \in States : G[k][v] = ScanData(v, q[k])
  OBVIOUS
<1>7. PICK f \in [0..L -> States] : f[0] = a /\ \A k \in 1..L : f[k] = G[k][f[k - 1]]
  <2>. HIDE DEF G
  <2>1. \E f \in [0..L -> States] : Follows(f, a, L, G)
    BY <1>1, <1>2, <1>5, Recursion
  <2>. QED  BY <2>1 DEF Follows
<1>8. f = Rec(f)
  <2>. HIDE DEF G
  <2>1. \A k \in 0..L : k # 0 => k \in 1..L /\ f[k - 1] \in States
    BY <1>1
  <2>2. \A k \in 0..L : f[k] = IF k = 0 THEN a ELSE ScanData(f[k - 1], q[k])
    BY <1>6, <1>7, <2>1
  <2>. QED  BY <2>2
<1>9. R = Rec(R)
  BY <1>8
<1>. HIDE DEF R
<1>10. R[0] = a /\ \A k \in 1..L : R[k] = ScanData(R[k - 1], q[k])
  <2>1. \A k \in 1..L : k \in 0..L /\ k # 0
    OBVIOUS
  <2>2. 0 \in 0..L
    BY <1>1
  <2>. QED  BY <1>9, <2>1, <2>2
<1>11. R \in [0..L -> States]
  <2> DEFINE S == {k \in 0..L : R[k] \in States}
  <2>1. 0 \in S
    BY <1>1, <1>2, <1>10
  <2>2. ASSUME NEW k \in 1..L, k - 1 \in S PROVE k \in S
    BY <1>1, <1>4, <1>10, <2>2
  <2>. HIDE DEF S
  <2>3. \A k \in 0..L : k \in S
    BY <1>1, <2>1, <2>2, SetInduction
  <2>4. \A k \in 0..L : R[k] \in States
    BY <2>3 DEF S
  <2>. QED  BY <1>9, <2>4
<1>. QED  BY <1>3, <1>10, <1>11 DEF L, a

\* What a queue gives when one more piece of data is put on it.
LEMMA ScannedAppend ==
  ASSUME NEW q \in Pieced, NEW d \in Seq(Byte)
  PROVE  /\ Scanned(q) \in States
         /\ Scanned(Append(q, d)) = ScanData(Scanned(q), d)
<1> DEFINE L == Len(q)
           t == Append(q, d)
<1>1. /\ L \in Nat /\ t \in Pieced /\ Len(t) = L + 1 /\ t[L + 1] = d
      /\ \A k \in 1..L : t[k] = q[k]
  BY AppendProperties, LenProperties DEF Pieced
<1>2. PICK f \in [0..L -> States] :
        f[0] = Nothing /\ (\A k \in 1..L : f[k] = ScanData(f[k - 1], q[k])) /\ Scanned(q) = f[L]
  BY ScannedUnfold
<1>. HIDE DEF L, t
<1>3. PICK g \in [0..L+1 -> States] :
        g[0] = Nothing /\ (\A k \in 1..L+1 : g[k] = ScanData(g[k - 1], t[k])) /\ Scanned(t) = g[L + 1]
  BY <1>1, ScannedUnfold
<1> DEFINE S == {k \in 0..L : g[k] = f[k]}
<1>4. 0 \in S
  BY <1>1, <1>2, <1>3
<1>5. ASSUME NEW k \in 1..L, k - 1 \in S PROVE k \in S
  <2>1. k \in 1..L+1 /\ k \in 0..L
    BY <1>1
  <2>. QED  BY <1>1, <1>2, <1>3, <1>5, <2>1
<1>. HIDE DEF S
<1>6. \A k \in 0..L : k \in S
  BY <1>1, <1>4, <1>5, SetInduction
<1>7. L \in 0..L /\ L + 1 \in 1..L+1 /\ (L + 1) - 1 = L
  BY <1>1
<1>8. g[L] = f[L]
  BY <1>6, <1>7 DEF S
<1>9. Scanned(t) = ScanData(Scanned(q), d)
  BY <1>1, <1>2, <1>3, <1>7, <1>8
<1>10. Scanned(q) \in States
  BY <1>2, <1>7
<1>. QED  BY <1>9, <1>10 DEF t

LEMMA ScannedEmpty == Scanned(<<>>) = Nothing
<1>1. <<>> \in Pieced /\ Len(<<>>) = 0
  BY EmptySeq DEF Pieced
<1>. QED  BY <1>1, ScannedUnfold

\* A piece of data whose last pieces are responses gives those, in their order,
\* after whatever the pieces before them give; if it has no others it gives only
\* those.
LEMMA ScanKeeps ==
  ASSUME NEW s \in States, NEW bytes \in Seq(Byte), NEW w \in Seq(Responses),
         Len(w) <= Len(Pieces(bytes)),
         \A k \in 1..Len(w) : Pieces(bytes)[Len(Pieces(bytes)) - Len(w) + k] = w[k]
  PROVE  \E u \in Pieced : /\ ScanData(s, bytes).found = s.found \o u
                           /\ \A i \in 1..Len(u) : Last(u[i]) = EOF
                           /\ SubsequenceOf(w, u)
                           /\ Len(w) = Len(Pieces(bytes)) => u = w
<1> DEFINE P == Pieces(bytes)
           L == Len(P)
           m == L - Len(w)
           Upto(k) == SubSeq(w, 1, k - m)
<1>1. P \in Pieced /\ L \in Nat /\ \A k \in 1..L : P[k] \in Seq(Byte)
  <2>1. P \in Seq(Seq(Byte))
    BY PiecesAre DEF Pieced
  <2>. HIDE DEF P
  <2>. QED  BY <2>1, LenProperties, ElementOfSeq DEF Pieced
<1>2. /\ w \in Seq(Seq(Byte)) /\ Len(w) \in Nat
      /\ \A k \in 1..Len(w) : w[k] \in Responses /\ w[k] \in Seq(Byte)
  BY SentAre DEF Pieced
<1>3. m \in Nat /\ m <= L /\ L - m = Len(w)
  BY <1>1, <1>2
<1>4. PICK f \in [0..L -> States] : /\ f[0].found = s.found
                                    /\ \A k \in 1..L : f[k] = Scan(f[k - 1], P[k])
                                    /\ ScanData(s, bytes) = f[L]
  BY ScanDataUnfold
<1>5. \A k \in 1..Len(w) : P[m + k] = w[k]
  OBVIOUS
<1>. HIDE DEF P, L, m
<1>6. s.found \in Seq(Seq(Byte)) /\ <<>> \in Seq(Seq(Byte)) /\ Len(<<>>) = 0
  BY EmptySeq DEF States, Pieced
<1> DEFINE Good(u, k) == /\ f[k].found = s.found \o u
                         /\ \A i \in 1..Len(u) : Last(u[i]) = EOF
                         /\ m <= k => SubsequenceOf(Upto(k), u)
                         /\ m = 0 => u = Upto(k)
           S == {k \in 0..L : \E u \in Seq(Seq(Byte)) : Good(u, k)}
<1>7. 0 \in S
  <2> DEFINE e == <<>>
  <2>0. e \in Seq(Seq(Byte)) /\ Len(e) = 0 /\ \A i \in 1..Len(e) : FALSE
    BY <1>6
  <2>1. SubsequenceOf(e, e) /\ s.found \o e = s.found
    <3>1. SubsequenceOf(e, e)
      BY <2>0, KeptEmpty
    <3>2. s.found \o e = s.found
      BY <1>6, ConcatEmptySeq
    <3>. QED  BY <3>1, <3>2
  <2>2. 0 \in 0..L /\ (m <= 0 => 0 - m = 0) /\ (m = 0 => 0 - m = 0)
    BY <1>1, <1>3
  <2>4. SubSeq(w, 1, 0) = e
    BY SubSeqEmpty
  <2>5. (m <= 0 => Upto(0) = e) /\ (m = 0 => Upto(0) = e)
    BY <2>2, <2>4
  <2>. HIDE DEF e, Upto
  <2>3. Good(e, 0)
    BY <1>4, <2>0, <2>1, <2>5
  <2>. QED  BY <2>0, <2>2, <2>3
<1>8. ASSUME NEW k \in 1..L, k - 1 \in S PROVE k \in S
  <2>1. PICK u \in Seq(Seq(Byte)) : Good(u, k - 1)
    BY <1>8
  <2>2. /\ k - 1 \in 0..L /\ k \in 0..L /\ f[k - 1] \in States /\ P[k] \in Seq(Byte)
        /\ f[k] = Scan(f[k - 1], P[k])
    BY <1>1, <1>4
  <2>3. ASSUME NEW x \in Seq(Byte), Last(x) = EOF, f[k].found = Append(f[k - 1].found, x)
        PROVE  /\ Append(u, x) \in Seq(Seq(Byte))
               /\ f[k].found = s.found \o Append(u, x)
               /\ \A i \in 1..Len(Append(u, x)) : Last(Append(u, x)[i]) = EOF
    <3>1. /\ Append(u, x) \in Seq(Seq(Byte)) /\ Len(Append(u, x)) = Len(u) + 1 /\ Len(u) \in Nat
          /\ Append(u, x)[Len(u) + 1] = x /\ \A i \in 1..Len(u) : Append(u, x)[i] = u[i]
      BY AppendProperties, LenProperties
    <3>2. f[k].found = s.found \o Append(u, x)
      <4>1. f[k - 1].found = s.found \o u
        BY <2>1
      <4>2. Append(s.found \o u, x) = s.found \o Append(u, x)
        <5> DEFINE T == Seq(Byte)
                   a == s.found
        <5>1. a \in Seq(T) /\ u \in Seq(T) /\ x \in T
          BY <1>6
        <5>. HIDE DEF T, a
        <5>2. <<x>> \in Seq(T) /\ a \o u \in Seq(T)
          BY <5>1, ConcatProperties
        <5>3. Append(a \o u, x) = (a \o u) \o <<x>> /\ Append(u, x) = u \o <<x>>
          BY <5>1, <5>2, AppendIsConcat
        <5>4. (a \o u) \o <<x>> = a \o (u \o <<x>>)
          BY <5>1, <5>2, ConcatAssociative
        <5>5. Append(a \o u, x) = a \o Append(u, x)
          BY <5>3, <5>4
        <5>. QED  BY <5>5 DEF a
      <4>. QED  BY <2>3, <4>1, <4>2
    <3>3. \A i \in 1..Len(u)+1 : i \in 1..Len(u) \/ i = Len(u) + 1
      BY <3>1
    <3>4. \A i \in 1..Len(u) : Last(u[i]) = EOF
      BY <2>1
    <3>. QED  BY <2>3, <3>1, <3>2, <3>3, <3>4
  <2>4. CASE m < k
    <3> DEFINE j == k - m
               r == w[j]
    <3>1. j \in 1..Len(w) /\ m + j = k /\ m <= k - 1 /\ (k - 1) - m = j - 1
      BY <1>1, <1>2, <1>3, <2>4
    <3>. HIDE DEF j
    <3>2. r \in Responses /\ r \in Seq(Byte) /\ P[k] = r
      BY <1>2, <1>5, <3>1
    <3>. HIDE DEF r
    <3>3. f[k].found = Append(f[k - 1].found, r) /\ Last(r) = EOF
      BY <2>2, <3>2, ScanResponse
    <3>4. Upto(k - 1) = SubSeq(w, 1, j - 1) /\ Upto(k) = SubSeq(w, 1, j)
      BY <3>1 DEF j
    <3>5. SubSeq(w, 1, j - 1) \in Seq(Seq(Byte)) /\ SubSeq(w, 1, j) = Append(SubSeq(w, 1, j - 1), r)
      <4>1. 1 \in Int /\ j - 1 \in Int /\ \A i \in 1..j-1 : i \in 1..Len(w)
        BY <1>2, <3>1
      <4>2. \A i \in 1..j-1 : w[i] \in Seq(Byte)
        BY <1>2, <4>1
      <4>3. SubSeq(w, 1, j - 1) \in Seq(Seq(Byte))
        BY <4>1, <4>2, SubSeqProperties
      <4>4. 1 \in 1..Len(w) /\ j \in 1..Len(w)
        BY <1>2, <3>1
      <4>5. SubSeq(w, 1, j) = SubSeq(w, 1, j - 1) \o <<w[j]>>
        BY <1>2, <4>4, SubSeqRecursiveSecond
      <4>6. Append(SubSeq(w, 1, j - 1), r) = SubSeq(w, 1, j - 1) \o <<r>>
        BY <3>2, <4>3, AppendIsConcat
      <4>. QED  BY <4>3, <4>5, <4>6 DEF r
    <3>6. SubsequenceOf(SubSeq(w, 1, j - 1), u) /\ (m = 0 => u = SubSeq(w, 1, j - 1))
      BY <2>1, <3>1, <3>4
    <3>7. SubsequenceOf(SubSeq(w, 1, j), Append(u, r)) /\ (m = 0 => Append(u, r) = SubSeq(w, 1, j))
      BY <3>2, <3>5, <3>6, KeptAppend
    <3>8. Good(Append(u, r), k) /\ Append(u, r) \in Seq(Seq(Byte))
      BY <2>3, <3>2, <3>3, <3>4, <3>7
    <3>. QED  BY <2>2, <3>8
  <2>5. CASE ~(m < k)
    <3>1. m # 0 /\ (m <= k => k - m = 0)
      BY <1>3, <2>5
    <3>2. m <= k => Upto(k) = <<>>
      BY <3>1, SubSeqEmpty
    <3>3. CASE f[k].found = f[k - 1].found
      <4>1. Good(u, k)
        BY <2>1, <3>1, <3>2, <3>3, KeptEmpty
      <4>. QED  BY <2>2, <4>1
    <3>4. CASE \E x \in Seq(Byte) : Last(x) = EOF /\ f[k].found = Append(f[k - 1].found, x)
      <4>1. PICK x \in Seq(Byte) : Last(x) = EOF /\ f[k].found = Append(f[k - 1].found, x)
        BY <3>4
      <4>2. Append(u, x) \in Seq(Seq(Byte)) /\ (m <= k => SubsequenceOf(Upto(k), Append(u, x)))
        BY <2>3, <3>2, <4>1, KeptEmpty
      <4>3. Good(Append(u, x), k)
        BY <2>3, <3>1, <4>1, <4>2
      <4>. QED  BY <2>2, <4>2, <4>3
    <3>. QED  BY <2>2, <3>3, <3>4, ScanIs
  <2>. QED  BY <2>4, <2>5
<1>9. L \in S
  <2>1. L \in 0..L
    BY <1>1
  <2>. HIDE DEF S
  <2>2. \A k \in 0..L : k \in S
    BY <1>1, <1>7, <1>8, SetInduction
  <2>. QED  BY <2>1, <2>2
<1>10. PICK u \in Seq(Seq(Byte)) : Good(u, L)
  BY <1>9
<1>11. Upto(L) = w
  BY <1>2, <1>3, SubSeqFull
<1>12. Len(w) = L => m = 0
  BY <1>1, <1>2, <1>3
<1>. QED  BY <1>3, <1>4, <1>10, <1>11, <1>12 DEF Pieced, P, L
-----------------------------------------------------------------------------
(* What a piece of the stream is taken apart into.                         *)

\* Every byte of the stream is one of a response.
LEMMA Located ==
  ASSUME sent \in Seq(Responses), NEW p \in 1..Offset(sent)[Len(sent)]
  PROVE  \E i \in 1..Len(sent) : \E j \in 1..Len(sent[i]) : p = Offset(sent)[i - 1] + j
<1> DEFINE n == Len(sent)
           o == Offset(sent)
           b == Begun(p)
<1>1. n \in Nat /\ \A i \in 1..n : Len(sent[i]) \in Nat
  BY SentAre
<1>2. o \in [0..n -> Nat] /\ o[0] = 0 /\ \A i \in 1..n : o[i] = o[i - 1] + Len(sent[i])
  BY OffsetUnfold
<1>3. p \in Int /\ 0 < p /\ p <= o[n]
  <2>1. o[n] \in Nat
    BY <1>1, <1>2
  <2>. HIDE DEF n, o
  <2>2. p \in 1..o[n]
    BY DEF n, o
  <2>. QED  BY <2>1, <2>2
<1>4. b \in 0..n /\ \A i \in 1..n : o[i - 1] < p <=> i <= b
  BY <1>3, BegunIs
<1>. HIDE DEF n, o, b
<1>5. n # 0
  BY <1>2, <1>3
<1>6. b \in 1..n
  <2>1. 1 \in 1..n /\ 1 - 1 = 0
    BY <1>1, <1>5
  <2>2. 1 <= b
    BY <1>2, <1>3, <1>4, <2>1
  <2>. QED  BY <1>4, <2>2
<1>7. o[b - 1] < p /\ b - 1 \in 0..n /\ o[b - 1] \in Nat
  BY <1>1, <1>2, <1>4, <1>6
<1>8. p <= o[b]
  <2>1. CASE b = n
    BY <1>3, <2>1
  <2>2. CASE b # n
    <3>1. b + 1 \in 1..n /\ ~(b + 1 <= b) /\ (b + 1) - 1 = b /\ o[b] \in Nat
      BY <1>1, <1>2, <1>6, <2>2
    <3>. QED  BY <1>3, <1>4, <3>1
  <2>. QED  BY <2>1, <2>2
<1>9. p - o[b - 1] \in 1..Len(sent[b]) /\ p = o[b - 1] + (p - o[b - 1])
  <2>1. o[b] = o[b - 1] + Len(sent[b]) /\ Len(sent[b]) \in Nat
    BY <1>1, <1>2, <1>6
  <2>. QED  BY <1>3, <1>7, <1>8, <2>1
<1>10. \E i \in 1..n : \E j \in 1..Len(sent[i]) : p = o[i - 1] + j
  BY <1>6, <1>9
<1>. QED  BY <1>10 DEF n, o

\* read holds the bytes of the stream after the first from up to the first to.
Reads(read, from, to) ==
  /\ read \in Seq(Byte) /\ Len(read) = to - from
  /\ \A i \in 1..Len(sent) : \A j \in 1..Len(sent[i]) :
       from < Offset(sent)[i - 1] + j /\ Offset(sent)[i - 1] + j <= to
         => read[Offset(sent)[i - 1] + j - from] = sent[i][j]

\* The cuts of a piece of the stream are the ends of the responses that end in it.
LEMMA CutsOfStream ==
  ASSUME sent \in Seq(Responses), NEW from \in Nat, NEW to \in Nat, from <= to,
         to <= Offset(sent)[Len(sent)], NEW read, Reads(read, from, to)
  PROVE  /\ Ended(from) <= Ended(to) /\ Cuts(read) = Ended(to) - Ended(from)
         /\ \A k \in 1..Ended(to) - Ended(from) : Cut(read, k) = Offset(sent)[Ended(from) + k] - from
<1> DEFINE n == Len(sent)
           o == Offset(sent)
           e == Ended(from)
           E == Ended(to)
           K == E - e
           c == [k \in 1..K |-> o[e + k] - from]
<1>1. n \in Nat /\ \A i \in 1..n : Len(sent[i]) \in Nat \ {0} /\ sent[i] \in Responses
  BY SentAre
<1>2. o \in [0..n -> Nat] /\ o[0] = 0 /\ \A i \in 1..n : o[i] = o[i - 1] + Len(sent[i])
  BY OffsetUnfold
<1>3. \A j \in 0..n : \A i \in 0..n : i < j => o[i] < o[j]
  BY OffsetGrows
<1>4. e \in 0..n /\ \A i \in 1..n : o[i] <= from <=> i <= e
  BY EndedIs
<1>5. E \in 0..n /\ \A i \in 1..n : o[i] <= to <=> i <= E
  BY EndedIs
<1>6. /\ read \in Seq(Byte) /\ Len(read) = to - from
      /\ \A i \in 1..n : \A j \in 1..Len(sent[i]) :
           from < o[i - 1] + j /\ o[i - 1] + j <= to => read[o[i - 1] + j - from] = sent[i][j]
  BY DEF Reads
<1>7. \A p \in 1..o[n] : \E i \in 1..n : \E j \in 1..Len(sent[i]) : p = o[i - 1] + j
  BY Located
<1>8. \A i \in 1..n : \A j \in 1..Len(sent[i]) : sent[i][j] = EOF <=> j = Len(sent[i])
  BY <1>1, ResponsesAre
<1>9. from \in Nat /\ to \in Nat /\ from <= to /\ to <= o[n]
  OBVIOUS
<1>. HIDE DEF n, o, e, E
<1>10. e <= E
  <2>1. e = 0 \/ e \in 1..n
    BY <1>4
  <2>2. CASE e \in 1..n
    <3>1. o[e] <= from /\ o[e] \in Nat
      BY <1>2, <1>4, <2>2
    <3>2. o[e] <= to
      BY <1>9, <3>1
    <3>. QED  BY <1>5, <2>2, <3>2
  <2>. QED  BY <1>5, <2>1, <2>2
<1>11. K \in Nat
  BY <1>4, <1>5, <1>10
<1>12. Ends(read) = {i \in 1..Len(read) : read[i] = EOF}
  BY <1>6, LenProperties DEF Ends
<1>13. ASSUME NEW k \in 1..K
       PROVE  /\ e + k \in 1..n /\ o[e + k] \in Nat /\ from < o[e + k] /\ o[e + k] <= to
              /\ o[e + k] - from \in 1..Len(read) /\ read[o[e + k] - from] = EOF
  <2> DEFINE r == e + k
  <2>1. r \in 1..n /\ ~(r <= e) /\ r <= E /\ r - 1 \in 0..n
    BY <1>1, <1>4, <1>5, <1>11
  <2>. HIDE DEF r
  <2>2. o[r] \in Nat /\ from < o[r] /\ o[r] <= to
    <3>1. o[r] \in Nat
      BY <1>1, <1>2, <2>1
    <3>. QED  BY <1>4, <1>5, <1>9, <2>1, <3>1
  <2>3. o[r] = o[r - 1] + Len(sent[r]) /\ Len(sent[r]) \in 1..Len(sent[r]) /\ o[r - 1] \in Nat
    BY <1>1, <1>2, <2>1
  <2>4. read[o[r] - from] = sent[r][Len(sent[r])]
    <3>1. from < o[r - 1] + Len(sent[r]) /\ o[r - 1] + Len(sent[r]) <= to
      BY <2>2, <2>3
    <3>2. read[o[r - 1] + Len(sent[r]) - from] = sent[r][Len(sent[r])]
      BY <1>6, <2>1, <2>3, <3>1
    <3>. QED  BY <2>3, <3>2
  <2>5. sent[r][Len(sent[r])] = EOF
    BY <1>8, <2>1, <2>3
  <2>6. o[r] - from \in 1..Len(read)
    BY <1>6, <1>9, <2>2
  <2>. QED  BY <2>1, <2>2, <2>4, <2>5, <2>6 DEF r
<1>14. c \in [1..K -> Ends(read)] /\ \A k \in 1..K : c[k] = o[e + k] - from
  BY <1>12, <1>13
<1>15. ASSUME NEW k \in 1..K, NEW l \in 1..K, k < l PROVE c[k] < c[l]
  <2>1. e + k \in 0..n /\ e + l \in 0..n /\ e + k < e + l
    BY <1>1, <1>4, <1>13, <1>15
  <2>2. o[e + k] < o[e + l] /\ o[e + k] \in Nat /\ o[e + l] \in Nat
    BY <1>2, <1>3, <2>1
  <2>. QED  BY <1>9, <1>14, <2>2
<1>16. ASSUME NEW q \in Ends(read) PROVE \E k \in 1..K : c[k] = q
  <2>1. q \in 1..Len(read) /\ read[q] = EOF
    BY <1>12
  <2>2. from + q \in 1..o[n] /\ from + q <= to /\ from < from + q /\ q \in Int
    <3>1. o[n] \in Nat
      BY <1>1, <1>2
    <3>. QED  BY <1>6, <1>9, <2>1, <3>1
  <2>3. PICK i \in 1..n : \E j \in 1..Len(sent[i]) : from + q = o[i - 1] + j
    BY <1>7, <2>2
  <2>4. PICK j \in 1..Len(sent[i]) : from + q = o[i - 1] + j
    BY <2>3
  <2>5. i - 1 \in 0..n /\ o[i - 1] \in Nat /\ Len(sent[i]) \in Nat /\ o[i] = o[i - 1] + Len(sent[i])
    BY <1>1, <1>2
  <2>6. (o[i - 1] + j) - from = q /\ j \in Int
    BY <1>9, <2>2, <2>4, <2>5
  <2>7. sent[i][j] = EOF
    <3>1. from < o[i - 1] + j /\ o[i - 1] + j <= to
      BY <2>2, <2>4
    <3>2. read[o[i - 1] + j - from] = sent[i][j]
      BY <1>6, <3>1
    <3>3. read[q] = sent[i][j]
      BY <1>9, <2>2, <2>4, <2>5, <2>6, <3>2
    <3>. QED  BY <2>1, <3>3
  <2>8. j = Len(sent[i])
    BY <1>8, <2>7
  <2>9. o[i] = from + q
    BY <2>4, <2>5, <2>8
  <2>10. ~(i <= e) /\ i <= E
    BY <1>4, <1>5, <1>9, <2>2, <2>9
  <2>11. i - e \in 1..K /\ e + (i - e) = i
    BY <1>4, <1>5, <2>10
  <2>12. c[i - e] = q
    BY <1>9, <1>14, <2>2, <2>9, <2>11
  <2>. QED  BY <2>11, <2>12
<1>. HIDE DEF c
<1>17. Cuts(read) = K /\ \A k \in 1..K : Cut(read, k) = c[k]
  <2>. HIDE DEF K
  <2>. QED  BY <1>6, <1>11, <1>14, <1>15, <1>16, CutsAt
<1>. QED  BY <1>10, <1>14, <1>17 DEF n, o, e, E

\* Its last pieces are the responses that lie in it whole, and all its pieces are
\* when it begins and ends where responses do.
LEMMA WholePieces ==
  ASSUME sent \in Seq(Responses), NEW from \in Nat, NEW to \in Nat, from <= to,
         to <= Offset(sent)[Len(sent)], NEW read, Reads(read, from, to)
  PROVE  /\ WholeIn(from, to) \in Seq(Responses)
         /\ Len(WholeIn(from, to)) <= Len(Pieces(read))
         /\ \A k \in 1..Len(WholeIn(from, to)) :
              Pieces(read)[Len(Pieces(read)) - Len(WholeIn(from, to)) + k] = WholeIn(from, to)[k]
         /\ \A h, m \in 0..Len(sent) :
              h < m /\ Offset(sent)[h] = from /\ Offset(sent)[m] = to
                => WholeIn(from, to) = SubSeq(sent, h + 1, m) /\ Len(WholeIn(from, to)) = Len(Pieces(read))
<1> DEFINE n == Len(sent)
           o == Offset(sent)
           e == Ended(from)
           E == Ended(to)
           b == Begun(from)
           P == Pieces(read)
           w == WholeIn(from, to)
<1>1. n \in Nat /\ \A i \in 1..n : Len(sent[i]) \in Nat \ {0} /\ sent[i] \in Responses /\ sent[i] \in Seq(Byte)
  BY SentAre
<1>2. o \in [0..n -> Nat] /\ \A i \in 1..n : o[i] = o[i - 1] + Len(sent[i])
  BY OffsetUnfold
<1>3. from \in 0..o[n] /\ to \in 0..o[n] /\ from \in Int /\ to \in Int
  <2>1. n \in 0..n
    BY <1>1
  <2>2. o[n] \in Nat
    BY <1>2, <2>1
  <2>. QED  BY <2>2
<1>4. e \in 0..n /\ E \in 0..n
  BY <1>3, EndedIs
<1>5. o[e] <= from /\ b = IF o[e] = from THEN e ELSE e + 1
  BY <1>3, BegunOrEnded
<1>6. \A k \in 0..n : (o[k] = from => e = k) /\ (o[k] = to => E = k)
  BY <1>3, BegunOrEnded
<1>7. /\ e <= E /\ Cuts(read) = E - e
      /\ \A k \in 1..E-e : Cut(read, k) = o[e + k] - from
  BY CutsOfStream
<1>8. /\ read \in Seq(Byte) /\ Len(read) = to - from
      /\ \A i \in 1..n : \A j \in 1..Len(sent[i]) :
           from < o[i - 1] + j /\ o[i - 1] + j <= to => read[o[i - 1] + j - from] = sent[i][j]
  BY DEF Reads
<1>9. /\ Len(P) = IF E - e = 0 THEN 1 ELSE E - e
      /\ \A k \in 1..E-e : P[k] = SubSeq(read, Cut(read, k - 1) + 1, Cut(read, k))
  BY <1>7, <1>8, PiecesAre
<1>10. Cut(read, 0) = 0 /\ \A k \in 1..E-e : Cut(read, k) \in 0..Len(read)
  BY <1>7, <1>8, CutIs, CutGrows
<1>11. w = SubSeq(sent, b + 1, E)
  BY DEF WholeIn
<1>12. \A i \in 1..n : o[i] <= to <=> i <= E
  BY <1>3, EndedIs
<1>13. \A i \in 1..n : o[i] <= from <=> i <= e
  BY <1>3, EndedIs
<1>. HIDE DEF n, o, e, E, b, P, w
<1>14. ASSUME NEW k \in 1..E-e, k # 1 \/ o[e] = from
       PROVE  e + k \in 1..n /\ P[k] = sent[e + k]
  <2> DEFINE r == e + k
             x == Cut(read, k - 1)
             y == Cut(read, k)
  <2>1. r \in 1..n /\ r - 1 \in 0..n /\ r <= E /\ ~(r <= e) /\ k \in Int /\ r - 1 = e + (k - 1)
    BY <1>1, <1>4, <1>7
  <2>2. y = o[r] - from
    BY <1>7
  <2>3. x = o[r - 1] - from
    <3>1. CASE k = 1
      <4>1. k - 1 = 0 /\ r - 1 = e /\ o[e] = from
        BY <1>4, <1>14, <3>1
      <4>. QED  BY <1>3, <1>10, <4>1
    <3>2. CASE k # 1
      <4>1. k - 1 \in 1..E-e
        BY <1>4, <1>7, <3>2
      <4>. QED  BY <1>7, <2>1, <4>1
    <3>. QED  BY <3>1, <3>2
  <2>. HIDE DEF r, x, y
  <2>4. /\ o[r] \in Nat /\ o[r - 1] \in Nat /\ o[r] = o[r - 1] + Len(sent[r]) /\ Len(sent[r]) \in Nat
        /\ o[r] <= to /\ sent[r] \in Seq(Byte)
    BY <1>1, <1>2, <1>12, <2>1
  <2>5. from <= o[r - 1]
    <3>1. CASE k = 1
      <4>1. r - 1 = e /\ o[e] = from
        BY <1>4, <1>14, <3>1 DEF r
      <4>. QED  BY <1>3, <4>1
    <3>2. CASE k # 1
      <4>1. r - 1 \in 1..n /\ ~(r - 1 <= e)
        BY <1>4, <1>7, <2>1, <3>2
      <4>2. ~(o[r - 1] <= from)
        BY <1>13, <4>1
      <4>. QED  BY <1>3, <2>4, <4>2
    <3>. QED  BY <3>1, <3>2
  <2>6. x \in Nat /\ y \in Nat /\ y - x = Len(sent[r]) /\ y <= Len(read)
    <3>1. Len(read) = to - from /\ from \in Int /\ to \in Int
      BY <1>3, <1>8
    <3> DEFINE u == o[r - 1]
               v == o[r]
               l == Len(sent[r])
    <3>2. /\ y = v - from /\ x = u - from /\ from <= u /\ v <= to
          /\ v = u + l /\ v \in Nat /\ u \in Nat /\ l \in Nat
      BY <2>2, <2>3, <2>4, <2>5
    <3>. HIDE DEF u, v, l
    <3>3. x \in Nat /\ y \in Nat /\ y - x = l /\ y <= Len(read)
      BY <3>1, <3>2
    <3>. QED  BY <3>3 DEF l
  <2> DEFINE m == x + 1
             q == SubSeq(read, m, y)
  <2>7. m \in Int /\ y \in Int /\ y - m + 1 = Len(sent[r]) /\ \A i \in m..y : i \in 1..Len(read)
    BY <1>8, <1>3, <2>6
  <2>8. \A i \in m..y : read[i] \in Byte
    BY <1>8, <2>7, ElementOfSeq
  <2>9. /\ q \in Seq(Byte) /\ Len(q) = IF m <= y THEN y - m + 1 ELSE 0
        /\ \A i \in 1..y-m+1 : q[i] = read[m + i - 1]
    <3>. HIDE DEF m
    <3>. QED  BY <2>7, <2>8, SubSeqProperties
  <2>10. Len(q) = Len(sent[r])
    BY <2>4, <2>7, <2>9
  <2>11. ASSUME NEW j \in 1..Len(sent[r]) PROVE q[j] = sent[r][j]
    <3>1. q[j] = read[m + j - 1]
      BY <2>7, <2>9
    <3>2. m + j - 1 = o[r - 1] + j - from
      BY <1>3, <2>3, <2>4
    <3>3. from < o[r - 1] + j /\ o[r - 1] + j <= to
      BY <1>3, <2>4, <2>5
    <3>4. read[o[r - 1] + j - from] = sent[r][j]
      BY <1>8, <2>1, <3>3
    <3>. QED  BY <3>1, <3>2, <3>4
  <2>. HIDE DEF q
  <2>12. q = sent[r]
    BY <2>4, <2>9, <2>10, <2>11, SeqEqual
  <2>13. P[k] = q
    BY <1>9 DEF q, x, y
  <2>. QED  BY <2>1, <2>12, <2>13 DEF r
<1>15. b \in Nat /\ (b = e \/ b = e + 1) /\ e <= b /\ E \in Nat /\ E <= n
  BY <1>4, <1>5
<1>16. /\ w \in Seq(Responses) /\ Len(w) = IF b + 1 <= E THEN E - b ELSE 0
       /\ \A k \in 1..E-b : w[k] = sent[b + k]
  <2> DEFINE m == b + 1
  <2>1. m \in Int /\ E \in Int /\ \A i \in m..E : i \in 1..n
    BY <1>1, <1>15
  <2>2. \A i \in m..E : sent[i] \in Responses
    BY <1>1, <2>1
  <2>3. w = SubSeq(sent, m, E)
    BY <1>11
  <2>4. E - m + 1 = E - b /\ \A k \in 1..E-b : m + k - 1 = b + k
    BY <1>15
  <2>. HIDE DEF m
  <2>5. /\ w \in Seq(Responses) /\ Len(w) = IF m <= E THEN E - m + 1 ELSE 0
        /\ \A k \in 1..E-m+1 : w[k] = sent[m + k - 1]
    BY <2>1, <2>2, <2>3, SubSeqProperties
  <2>. QED  BY <2>4, <2>5 DEF m
<1>17. Len(w) <= Len(P)
  BY <1>4, <1>7, <1>9, <1>15, <1>16
<1>18. ASSUME NEW k \in 1..Len(w) PROVE P[Len(P) - Len(w) + k] = w[k]
  <2>1. b + 1 <= E /\ Len(w) = E - b /\ k \in 1..E-b
    BY <1>15, <1>16
  <2>2. Len(P) = E - e
    BY <1>4, <1>9, <1>15, <2>1
  <2> DEFINE l == b - e + k
  <2>3. Len(P) - Len(w) + k = l /\ e + l = b + k /\ l \in 1..E-e
    BY <1>4, <1>15, <2>1, <2>2
  <2>4. l # 1 \/ o[e] = from
    BY <1>4, <1>5, <2>1
  <2>. HIDE DEF l
  <2>5. P[l] = sent[e + l]
    BY <1>14, <2>3, <2>4
  <2>. QED  BY <1>16, <2>1, <2>3, <2>5
<1>19. ASSUME NEW h \in 0..n, NEW m \in 0..n, h < m, o[h] = from, o[m] = to
       PROVE  w = SubSeq(sent, h + 1, m) /\ Len(w) = Len(P)
  <2>1. e = h /\ E = m
    BY <1>6, <1>19
  <2>2. b = h
    BY <1>5, <1>19, <2>1
  <2>3. w = SubSeq(sent, h + 1, m)
    BY <1>11, <2>1, <2>2
  <2>4. Len(w) = m - h /\ Len(P) = m - h
    BY <1>9, <1>16, <1>19, <2>1, <2>2
  <2>. QED  BY <2>3, <2>4
<1>. QED  BY <1>16, <1>17, <1>18, <1>19 DEF n, o, P, w
-----------------------------------------------------------------------------
(* The inductive invariant.                                                *)

Base == arrived - Len(data)
Flags == {"none", "WM_Pn", "WM_H"}
Shown == [msg : Flags \cup {"event"}, bytes : Seq(Byte)]

\* x is the byte of the responses of s at the place p, and read the bytes from the
\* place after from on.
ByteAt(s, p, x) ==
  \E i \in 1..Len(s) : \E j \in 1..Len(s[i]) : p = Offset(s)[i - 1] + j /\ x = s[i][j]
Stretch(s, read, from) == \A k \in 1..Len(read) : ByteAt(s, from + k, read[k])

\* What receive holds back and what it has not read is the rest of the stream.
StreamInv ==
  /\ arrived \in Nat /\ data \in Seq(Byte) /\ wire \in Seq(Byte)
  /\ Len(data) <= arrived /\ Len(data) % BufLen = 0
  /\ arrived + Len(wire) = Offset(sent)[Len(sent)]
  /\ Stretch(sent, data, Base) /\ Stretch(sent, wire, arrived)

\* What has left receive gives what came whole, and all that came when no response
\* is split: the responses up to where the data held back begins.
HandedInv ==
  /\ queue \in Pieced /\ \A i \in 1..Len(queue) : queue[i] # <<>>
  /\ \A i \in 1..Len(Found(queue)) : Last(Found(queue)[i]) = EOF
  /\ cmds \in Pieced /\ \A i \in 1..Len(cmds) : Last(cmds[i]) = EOF
  /\ cmdflag \in Flags /\ shown \in Seq(Shown)
  /\ SubsequenceOf(whole, Handed)
  /\ aligned => \E h \in 0..Len(sent) : Handed = SubSeq(sent, 1, h) /\ Offset(sent)[h] = Base

FrameInv ==
  /\ aligned \in BOOLEAN /\ sent \in Seq(Responses) /\ whole \in Seq(Responses)
  /\ StreamInv /\ HandedInv

\* What the window has been given, as responses.
Given(s) == [i \in DOMAIN s |-> s[i].bytes]

LEMMA GivenAre ==
  ASSUME NEW s \in Seq(Shown)
  PROVE  /\ Given(s) \in Seq(Seq(Byte)) /\ Len(Given(s)) = Len(s)
         /\ \A x \in Shown : Given(Append(s, x)) = Append(Given(s), x.bytes)
<1> DEFINE T == Seq(Byte)
<1>1. \A x \in Shown : x.bytes \in T
  BY DEF Shown
<1>. HIDE DEF T
<1>2. ASSUME NEW t \in Seq(Shown)
      PROVE  Given(t) \in Seq(T) /\ Len(Given(t)) = Len(t) /\ \A i \in 1..Len(t) : Given(t)[i] = t[i].bytes
  <2>1. Len(t) \in Nat /\ DOMAIN t = 1..Len(t) /\ \A i \in 1..Len(t) : t[i] \in Shown
    BY LenProperties, ElementOfSeq
  <2>2. Given(t) = [i \in 1..Len(t) |-> t[i].bytes]
    BY <2>1 DEF Given
  <2>3. Given(t) \in [1..Len(t) -> T]
    BY <1>1, <2>1, <2>2
  <2>4. Given(t) \in Seq(T) /\ Len(Given(t)) = Len(t)
    BY <2>1, <2>3
  <2>. QED  BY <2>2, <2>4
<1>3. ASSUME NEW x \in Shown PROVE Given(Append(s, x)) = Append(Given(s), x.bytes)
  <2> DEFINE t == Append(s, x)
             g == Given(s)
             y == x.bytes
             l == Len(s)
  <2>1. /\ t \in Seq(Shown) /\ Len(t) = l + 1 /\ l \in Nat /\ t[l + 1] = x
        /\ \A i \in 1..l : t[i] = s[i]
    BY AppendProperties, LenProperties
  <2>2. y \in T /\ g \in Seq(T) /\ Len(g) = l /\ \A i \in 1..l : g[i] = s[i].bytes
    BY <1>1, <1>2
  <2>. HIDE DEF t, g, y, l
  <2>3. /\ Append(g, y) \in Seq(T) /\ Len(Append(g, y)) = l + 1 /\ Append(g, y)[l + 1] = y
        /\ \A i \in 1..l : Append(g, y)[i] = g[i]
    BY <2>2, AppendProperties
  <2>4. /\ Given(t) \in Seq(T) /\ Len(Given(t)) = l + 1
        /\ \A i \in 1..l+1 : Given(t)[i] = t[i].bytes
    BY <1>2, <2>1
  <2>5. \A i \in 1..l+1 : Given(t)[i] = Append(g, y)[i]
    <3>1. \A i \in 1..l+1 : i \in 1..l \/ i = l + 1
      BY <2>1
    <3>. QED  BY <2>1, <2>2, <2>3, <2>4, <3>1 DEF y
  <2>6. Given(t) = Append(g, y)
    BY <2>3, <2>4, <2>5, SeqEqual
  <2>. QED  BY <2>6 DEF t, g, y
<1>. QED  BY <1>2, <1>3 DEF T

LEMMA HandedAre ==
  ASSUME HandedInv
  PROVE  /\ Handed = Given(shown) \o cmds \o Found(queue)
         /\ Given(shown) \in Seq(Seq(Byte)) /\ cmds \in Seq(Seq(Byte)) /\ Found(queue) \in Seq(Seq(Byte))
         /\ Handed \in Seq(Seq(Byte))
<1> DEFINE T == Seq(Byte)
<1>1. shown \in Seq(Shown) /\ cmds \in Seq(T) /\ queue \in Pieced
  BY DEF HandedInv, Pieced
<1>2. Given(shown) \in Seq(T)
  BY <1>1, GivenAre
<1>3. Found(queue) \in Seq(T)
  <2>1. Scanned(queue) \in States
    <3>1. <<>> \in Seq(Byte)
      BY EmptySeq
    <3>. QED  BY <1>1, <3>1, ScannedAppend
  <2>. QED  BY <2>1 DEF Found, States, Pieced
<1>4. Handed = Given(shown) \o cmds \o Found(queue)
  BY DEF Handed, Given
<1>. HIDE DEF T
<1>5. Given(shown) \o cmds \in Seq(T)
  BY <1>1, <1>2, ConcatProperties
<1>6. Handed \in Seq(T)
  BY <1>3, <1>4, <1>5, ConcatProperties
<1>. QED  BY <1>1, <1>2, <1>3, <1>4, <1>6 DEF T

LEMMA FrameInit == Init => FrameInv
<1> SUFFICES ASSUME Init PROVE FrameInv
  OBVIOUS
<1>1. /\ sent = <<>> /\ wire = <<>> /\ arrived = 0 /\ data = <<>> /\ queue = <<>> /\ cmds = <<>>
      /\ cmdflag = "none" /\ shown = <<>> /\ whole = <<>> /\ aligned \in BOOLEAN
  BY DEF Init
<1>2. /\ Len(<<>>) = 0 /\ <<>> \in Seq(Responses) /\ <<>> \in Seq(Byte) /\ <<>> \in Seq(Seq(Byte))
      /\ <<>> \in Seq(Shown)
  BY EmptySeq
<1>3. Found(queue) = <<>>
  BY <1>1, ScannedEmpty DEF Found, Nothing
<1>4. Offset(sent)[0] = 0
  BY <1>1, <1>2, OffsetUnfold
<1>5. StreamInv
  <2>1. 0 % BufLen = 0
    BY BoundsPositive
  <2>2. 0 + 0 = 0 /\ 0 \in Nat /\ 0 <= 0
    OBVIOUS
  <2>3. \A i \in 1..0 : FALSE
    OBVIOUS
  <2>. QED  BY <1>1, <1>2, <1>4, <2>1, <2>2, <2>3 DEF StreamInv, Stretch
<1>6. Handed = <<>>
  <2>1. Given(shown) = <<>>
    <3>1. Given(shown) \in Seq(Seq(Byte)) /\ Len(Given(shown)) = 0
      BY <1>1, <1>2, GivenAre
    <3>. QED  BY <3>1, EmptySeq
  <2>2. Handed = Given(shown) \o cmds \o Found(queue)
    BY DEF Handed, Given
  <2>. QED  BY <1>1, <1>3, <2>1, <2>2
<1>7. HandedInv
  <2>1. SubsequenceOf(whole, Handed)
    BY <1>1, <1>2, <1>6, KeptEmpty
  <2>2. \E h \in 0..Len(sent) : Handed = SubSeq(sent, 1, h) /\ Offset(sent)[h] = Base
    <3>1. SubSeq(sent, 1, 0) = <<>>
      BY SubSeqEmpty
    <3>2. 0 \in 0..Len(sent) /\ Base = 0
      <4>1. Len(sent) = 0 /\ Len(data) = 0
        BY <1>1, <1>2
      <4>2. 0 - 0 = 0 /\ 0 \in 0..0
        OBVIOUS
      <4>. QED  BY <1>1, <4>1, <4>2 DEF Base
    <3>. QED  BY <1>4, <1>6, <3>1, <3>2
  <2>3. \A i \in 1..Len(<<>>) : FALSE
    BY <1>2
  <2>. QED  BY <1>1, <1>2, <1>3, <2>1, <2>2, <2>3 DEF HandedInv, Pieced, Flags
<1>. QED  BY <1>1, <1>2, <1>5, <1>7 DEF FrameInv

\* Nothing that is handed over changes.
LEMMA HandedKept ==
  ASSUME FrameInv, UNCHANGED <<aligned, queue, cmds, cmdflag, shown, whole>>,
         sent' \in Seq(Responses), Base' = Base, Len(sent) <= Len(sent'),
         \A i \in 1..Len(sent) : sent'[i] = sent[i],
         \A i \in 0..Len(sent) : Offset(sent')[i] = Offset(sent)[i]
  PROVE  HandedInv'
<1>1. HandedInv /\ sent \in Seq(Responses)
  BY DEF FrameInv
<1>2. Handed' = Handed /\ Found(queue)' = Found(queue)
  BY DEF Handed
<1>3. ASSUME aligned
      PROVE  \E h \in 0..Len(sent') : Handed' = SubSeq(sent', 1, h) /\ Offset(sent')[h] = Base'
  <2>1. PICK h \in 0..Len(sent) : Handed = SubSeq(sent, 1, h) /\ Offset(sent)[h] = Base
    BY <1>1, <1>3 DEF HandedInv
  <2>2. Len(sent) \in Nat /\ Len(sent') \in Nat /\ DOMAIN sent = 1..Len(sent)
    BY <1>1, SentAre
  <2>3. h \in 0..Len(sent') /\ h \in Int /\ 1 \in Int /\ \A i \in 1..h : i \in 1..Len(sent) /\ i \in 1..Len(sent')
    BY <2>2
  <2>4. \A i \in 1..h : sent[i] \in Responses /\ sent'[i] \in Responses
    BY <1>1, <2>3, SentAre
  <2> DEFINE u == SubSeq(sent, 1, h)
             v == SubSeq(sent', 1, h)
  <2>5. u \in Seq(Responses) /\ Len(u) = (IF 1 <= h THEN h ELSE 0) /\ \A i \in 1..h : u[i] = sent[i]
    <3>1. /\ u \in Seq(Responses) /\ Len(u) = (IF 1 <= h THEN h - 1 + 1 ELSE 0)
          /\ \A i \in 1..h-1+1 : u[i] = sent[1 + i - 1]
      BY <2>3, <2>4, SubSeqProperties
    <3>2. h - 1 + 1 = h /\ \A i \in 1..h : 1 + i - 1 = i
      BY <2>3
    <3>. HIDE DEF u
    <3>. QED  BY <3>1, <3>2
  <2>6. v \in Seq(Responses) /\ Len(v) = (IF 1 <= h THEN h ELSE 0) /\ \A i \in 1..h : v[i] = sent'[i]
    <3>1. /\ v \in Seq(Responses) /\ Len(v) = (IF 1 <= h THEN h - 1 + 1 ELSE 0)
          /\ \A i \in 1..h-1+1 : v[i] = sent'[1 + i - 1]
      BY <2>3, <2>4, SubSeqProperties
    <3>2. h - 1 + 1 = h /\ \A i \in 1..h : 1 + i - 1 = i
      BY <2>3
    <3>. HIDE DEF v
    <3>. QED  BY <3>1, <3>2
  <2>7. \A i \in 1..Len(u) : i \in 1..h /\ u[i] = v[i]
    <3>1. \A i \in 1..Len(u) : i \in 1..h
      BY <2>3, <2>5
    <3>. HIDE DEF u, v
    <3>. QED  BY <2>3, <2>5, <2>6, <3>1
  <2>8. u = v
    <3>. HIDE DEF u, v
    <3>. QED  BY <2>5, <2>6, <2>7, SeqEqual
  <2>. QED  BY <1>2, <2>1, <2>3, <2>8
<1>. QED  BY <1>1, <1>2, <1>3 DEF HandedInv

LEMMA ByteAtAppend ==
  ASSUME NEW s \in Seq(Responses), NEW r \in Responses
  PROVE  /\ \A p, x : ByteAt(s, p, x) => ByteAt(Append(s, r), p, x)
         /\ \A j \in 1..Len(r) : ByteAt(Append(s, r), Offset(s)[Len(s)] + j, r[j])
<1> DEFINE n == Len(s)
           t == Append(s, r)
<1>1. n \in Nat /\ Len(t) = n + 1 /\ t[n + 1] = r /\ \A i \in 1..n : t[i] = s[i]
  BY AppendProperties, LenProperties
<1>2. \A i \in 0..n : Offset(t)[i] = Offset(s)[i]
  BY OffsetAppend
<1>. HIDE DEF n, t
<1>3. ASSUME NEW p, NEW x, ByteAt(s, p, x) PROVE ByteAt(t, p, x)
  <2>1. PICK i \in 1..n : \E j \in 1..Len(s[i]) : p = Offset(s)[i - 1] + j /\ x = s[i][j]
    BY <1>3 DEF ByteAt, n
  <2>2. i \in 1..Len(t) /\ i - 1 \in 0..n
    BY <1>1
  <2>. QED  BY <1>1, <1>2, <2>1, <2>2 DEF ByteAt
<1>4. ASSUME NEW j \in 1..Len(r) PROVE ByteAt(t, Offset(s)[n] + j, r[j])
  <2>1. n + 1 \in 1..Len(t) /\ (n + 1) - 1 = n /\ n \in 0..n
    BY <1>1
  <2>. QED  BY <1>1, <1>2, <2>1 DEF ByteAt
<1>. QED  BY <1>3, <1>4 DEF n, t

\* Stretches of the stream can be put together and split.
LEMMA StretchConcat ==
  ASSUME NEW s, NEW a \in Seq(Byte), NEW b \in Seq(Byte), NEW from \in Int,
         Stretch(s, a, from), Stretch(s, b, from + Len(a))
  PROVE  Stretch(s, a \o b, from)
<1> DEFINE c == a \o b
           l == Len(a)
           m == Len(b)
<1>1. /\ l \in Nat /\ m \in Nat /\ Len(c) = l + m
      /\ \A k \in 1..l+m : c[k] = IF k <= l THEN a[k] ELSE b[k - l]
  BY LenProperties, ConcatProperties
<1>2. /\ \A k \in 1..l : ByteAt(s, from + k, a[k])
      /\ \A k \in 1..m : ByteAt(s, (from + l) + k, b[k])
  BY DEF Stretch
<1>. HIDE DEF c, l, m
<1>3. ASSUME NEW k \in 1..l+m PROVE ByteAt(s, from + k, c[k])
  <2>1. CASE k <= l
    <3>1. k \in 1..l
      BY <1>1, <2>1
    <3>. QED  BY <1>1, <1>2, <2>1, <3>1
  <2>2. CASE ~(k <= l)
    <3>1. k - l \in 1..m /\ (from + l) + (k - l) = from + k
      BY <1>1, <2>2
    <3>2. ByteAt(s, (from + l) + (k - l), b[k - l])
      BY <1>2, <3>1
    <3>. QED  BY <1>1, <2>2, <3>1, <3>2
  <2>. QED  BY <2>1, <2>2
<1>. QED  BY <1>1, <1>3 DEF Stretch, c

LEMMA StretchSplit ==
  ASSUME NEW s, NEW a \in Seq(Byte), NEW from \in Int, Stretch(s, a, from), NEW n \in 0..Len(a)
  PROVE  /\ SubSeq(a, 1, n) \in Seq(Byte) /\ Len(SubSeq(a, 1, n)) = n
         /\ SubSeq(a, n + 1, Len(a)) \in Seq(Byte) /\ Len(SubSeq(a, n + 1, Len(a))) = Len(a) - n
         /\ Stretch(s, SubSeq(a, 1, n), from)
         /\ Stretch(s, SubSeq(a, n + 1, Len(a)), from + n)
<1> DEFINE l == Len(a)
           b == SubSeq(a, 1, n)
           q == n + 1
           c == SubSeq(a, q, l)
<1>1. l \in Nat /\ n \in Nat /\ n <= l /\ \A k \in 1..l : a[k] \in Byte
  BY LenProperties, ElementOfSeq
<1>2. \A k \in 1..l : ByteAt(s, from + k, a[k])
  BY DEF Stretch
<1>3. /\ b \in Seq(Byte) /\ Len(b) = n /\ \A k \in 1..n : b[k] = a[k]
  <2>1. 1 \in Int /\ n \in Int /\ \A k \in 1..n : k \in 1..l
    BY <1>1
  <2>2. \A k \in 1..n : a[k] \in Byte
    BY <1>1, <2>1
  <2>3. /\ b \in Seq(Byte) /\ Len(b) = (IF 1 <= n THEN n - 1 + 1 ELSE 0)
        /\ \A k \in 1..n-1+1 : b[k] = a[1 + k - 1]
    BY <2>1, <2>2, SubSeqProperties
  <2>4. (IF 1 <= n THEN n - 1 + 1 ELSE 0) = n /\ n - 1 + 1 = n /\ \A k \in 1..n : 1 + k - 1 = k
    BY <1>1
  <2>. HIDE DEF b
  <2>. QED  BY <2>3, <2>4
<1>4. /\ c \in Seq(Byte) /\ Len(c) = l - n /\ \A k \in 1..l-n : c[k] = a[n + k]
  <2>1. q \in Int /\ l \in Int /\ \A k \in q..l : k \in 1..l
    BY <1>1
  <2>2. \A k \in q..l : a[k] \in Byte
    BY <1>1, <2>1
  <2>3. (IF q <= l THEN l - q + 1 ELSE 0) = l - n /\ l - q + 1 = l - n /\ \A k \in 1..l-n : q + k - 1 = n + k
    BY <1>1
  <2>. HIDE DEF q, l
  <2>4. /\ c \in Seq(Byte) /\ Len(c) = (IF q <= l THEN l - q + 1 ELSE 0)
        /\ \A k \in 1..l-q+1 : c[k] = a[q + k - 1]
    BY <2>1, <2>2, SubSeqProperties
  <2>. HIDE DEF c
  <2>. QED  BY <2>3, <2>4
<1>. HIDE DEF l, b, c
<1>5. ASSUME NEW k \in 1..n PROVE ByteAt(s, from + k, b[k])
  <2>1. k \in 1..l
    BY <1>1
  <2>. QED  BY <1>2, <1>3, <2>1
<1>6. ASSUME NEW k \in 1..l-n PROVE ByteAt(s, (from + n) + k, c[k])
  <2>1. n + k \in 1..l /\ from + (n + k) = (from + n) + k
    BY <1>1
  <2>2. ByteAt(s, from + (n + k), a[n + k])
    BY <1>2, <2>1
  <2>. QED  BY <1>4, <2>1, <2>2
<1>. QED  BY <1>3, <1>4, <1>5, <1>6 DEF Stretch, b, c, l

LEMMA RespondStep ==
  ASSUME FrameInv, NEW r \in Responses, Respond(r)
  PROVE  FrameInv'
<1> DEFINE n == Len(sent)
           o == Offset(sent)
           s == Append(sent, r)
           u == Offset(s)
<1>1. /\ sent' = s /\ wire' = wire \o r
      /\ aligned' = aligned /\ arrived' = arrived /\ data' = data /\ queue' = queue /\ cmds' = cmds
      /\ cmdflag' = cmdflag /\ shown' = shown /\ whole' = whole
  BY DEF Respond
<1>2. /\ sent \in Seq(Responses) /\ aligned \in BOOLEAN /\ whole \in Seq(Responses)
      /\ StreamInv /\ HandedInv
  BY DEF FrameInv
<1>3. /\ s \in Seq(Responses) /\ Len(s) = n + 1 /\ n \in Nat /\ s[n + 1] = r
      /\ \A i \in 1..n : s[i] = sent[i]
  BY <1>2, AppendProperties, LenProperties
<1>4. (\A i \in 0..n : u[i] = o[i]) /\ u[n + 1] = o[n] + Len(r)
  BY <1>2, OffsetAppend
<1>5. n \in 0..n /\ o[n] \in Nat
  BY <1>2, <1>3, OffsetUnfold
<1>6. r \in Seq(Byte) /\ Len(r) \in Nat
  BY ResponsesAre
<1>7. /\ arrived \in Nat /\ data \in Seq(Byte) /\ wire \in Seq(Byte)
      /\ Len(data) <= arrived /\ Len(data) % BufLen = 0 /\ arrived + Len(wire) = o[n]
      /\ Stretch(sent, data, Base) /\ Stretch(sent, wire, arrived)
  BY <1>2 DEF StreamInv
<1>8. /\ wire \o r \in Seq(Byte) /\ Len(wire \o r) = Len(wire) + Len(r) /\ Len(wire) \in Nat
  BY <1>6, <1>7, ConcatProperties, LenProperties
<1>9. Base' = Base
  BY <1>1 DEF Base
<1>10. Stretch(s, data, Base) /\ Stretch(s, wire, arrived)
  BY <1>2, <1>7, ByteAtAppend DEF Stretch
<1>11. Stretch(s, r, o[n])
  BY <1>2, ByteAtAppend DEF Stretch
<1>. HIDE DEF n, o, s, u
<1>12. Stretch(s, wire \o r, arrived)
  BY <1>6, <1>7, <1>10, <1>11, StretchConcat
<1>13. arrived + Len(wire \o r) = u[n + 1]
  BY <1>4, <1>5, <1>6, <1>7, <1>8
<1>14. StreamInv'
  BY <1>1, <1>3, <1>7, <1>8, <1>9, <1>10, <1>12, <1>13 DEF StreamInv, u
<1>15. HandedInv'
  BY <1>1, <1>3, <1>4, <1>9, HandedKept DEF n, o, u
<1>. QED  BY <1>1, <1>2, <1>3, <1>14, <1>15 DEF FrameInv

\* Every place of the stream is in one response only.
LEMMA StretchReads ==
  ASSUME sent \in Seq(Responses), NEW read \in Seq(Byte), NEW from \in Nat, NEW to \in Nat,
         Len(read) = to - from, Stretch(sent, read, from)
  PROVE  Reads(read, from, to)
<1> DEFINE n == Len(sent)
           o == Offset(sent)
<1>1. n \in Nat /\ \A i \in 1..n : Len(sent[i]) \in Nat
  BY SentAre
<1>2. o \in [0..n -> Nat] /\ \A i \in 1..n : o[i] = o[i - 1] + Len(sent[i])
  BY OffsetUnfold
<1>3. \A j \in 0..n : \A i \in 0..n : i < j => o[i] < o[j]
  BY OffsetGrows
<1>4. \A k \in 1..Len(read) : \E i \in 1..n : \E j \in 1..Len(sent[i]) :
        from + k = o[i - 1] + j /\ read[k] = sent[i][j]
  BY DEF Stretch, ByteAt
<1>. HIDE DEF n, o
<1>5. ASSUME NEW i \in 1..n, NEW j \in 1..Len(sent[i]), NEW k \in 1..n, NEW l \in 1..Len(sent[k]),
             o[i - 1] + j = o[k - 1] + l
      PROVE  ~(i < k)
  <2>1. SUFFICES ASSUME i < k PROVE FALSE
    OBVIOUS
  <2>2. i \in 0..n /\ k - 1 \in 0..n /\ i - 1 \in 0..n /\ (i = k - 1 \/ i < k - 1)
    BY <1>1, <2>1
  <2> DEFINE x == o[i - 1]
             y == o[i]
             z == o[k - 1]
  <2>3. /\ x \in Nat /\ y \in Nat /\ z \in Nat /\ y = x + Len(sent[i]) /\ (y = z \/ y < z)
        /\ x + j = z + l /\ Len(sent[i]) \in Nat
    BY <1>1, <1>2, <1>3, <1>5, <2>2
  <2>. HIDE DEF x, y, z
  <2>. QED  BY <2>3
<1>6. ASSUME NEW i \in 1..n, NEW j \in 1..Len(sent[i]), from < o[i - 1] + j, o[i - 1] + j <= to
      PROVE  read[o[i - 1] + j - from] = sent[i][j]
  <2> DEFINE p == o[i - 1] + j
             q == p - from
  <2>1. o[i - 1] \in Nat /\ j \in Nat
    BY <1>1, <1>2
  <2>2. p \in Nat /\ q \in 1..Len(read) /\ from + q = p
    BY <1>6, <2>1
  <2>. HIDE DEF q
  <2>3. PICK k \in 1..n : \E l \in 1..Len(sent[k]) : p = o[k - 1] + l /\ read[q] = sent[k][l]
    BY <1>4, <2>2
  <2>4. PICK l \in 1..Len(sent[k]) : p = o[k - 1] + l /\ read[q] = sent[k][l]
    BY <2>3
  <2>5. i = k
    <3>1. ~(i < k) /\ ~(k < i)
      BY <1>5, <2>4
    <3>2. i \in Int /\ k \in Int
      OBVIOUS
    <3>. QED  BY <3>1, <3>2
  <2>6. j = l
    BY <2>1, <2>4, <2>5
  <2>7. read[q] = sent[i][j]
    BY <2>4, <2>5, <2>6
  <2>8. q = o[i - 1] + j - from
    <3> DEFINE x == o[i - 1]
    <3>1. x \in Nat /\ j \in Nat /\ q \in Int /\ from + q = x + j
      BY <2>1, <2>2
    <3>. HIDE DEF x
    <3>2. q = x + j - from
      BY <3>1
    <3>. QED  BY <3>2 DEF x
  <2>. QED  BY <2>7, <2>8
<1>. QED  BY <1>6 DEF Reads, n, o

\* What receive has read, with n bytes more of the stream, and what is left of it.
LEMMA ReadIs ==
  ASSUME FrameInv, NEW n \in 1..BufLen, Receive(n)
  PROVE  LET read == data \o SubSeq(wire, 1, n) IN
         /\ n \in Nat /\ n # 0 /\ n <= Len(wire) /\ arrived + n <= Offset(sent)[Len(sent)] /\ Base \in Nat
         /\ read \in Seq(Byte) /\ Len(read) = Len(data) + n /\ Len(data) \in Nat
         /\ Stretch(sent, read, Base)
         /\ wire' \in Seq(Byte) /\ Len(wire') = Len(wire) - n /\ Stretch(sent, wire', arrived + n)
         /\ arrived' = arrived + n /\ arrived' \in Nat /\ arrived' + Len(wire') = Offset(sent)[Len(sent)]
         /\ UNCHANGED <<aligned, sent, cmds, cmdflag, shown>>
<1> DEFINE head == SubSeq(wire, 1, n)
           tail == SubSeq(wire, n + 1, Len(wire))
           read == data \o head
<1>1. StreamInv
  BY DEF FrameInv
<1>2. /\ arrived \in Nat /\ data \in Seq(Byte) /\ wire \in Seq(Byte)
      /\ Len(data) <= arrived /\ arrived + Len(wire) = Offset(sent)[Len(sent)]
      /\ Stretch(sent, data, Base) /\ Stretch(sent, wire, arrived)
  BY <1>1 DEF StreamInv
<1>3. /\ n <= Len(wire) /\ arrived' = arrived + n /\ wire' = tail
      /\ UNCHANGED <<aligned, sent, cmds, cmdflag, shown>>
  BY DEF Receive
<1>4. Len(wire) \in Nat /\ Len(data) \in Nat /\ n \in Nat /\ n # 0 /\ n \in 0..Len(wire)
  BY <1>2, <1>3, BoundsPositive, LenProperties
<1>5. /\ head \in Seq(Byte) /\ Len(head) = n /\ Stretch(sent, head, arrived)
      /\ tail \in Seq(Byte) /\ Len(tail) = Len(wire) - n /\ Stretch(sent, tail, arrived + n)
  BY <1>2, <1>4, StretchSplit
<1>. HIDE DEF head, tail
<1>6. Base \in Nat /\ Base + Len(data) = arrived
  BY <1>2, <1>4 DEF Base
<1>7. read \in Seq(Byte) /\ Len(read) = Len(data) + n
  BY <1>2, <1>5, ConcatProperties
<1>8. Stretch(sent, read, Base)
  BY <1>2, <1>5, <1>6, StretchConcat
<1>9. arrived' \in Nat /\ arrived' + Len(wire') = Offset(sent)[Len(sent)] /\ arrived + n <= Offset(sent)[Len(sent)]
  <2> DEFINE e == Offset(sent)[Len(sent)]
             l == Len(wire)
  <2>1. arrived + l = e /\ l \in Nat /\ Len(wire') = l - n /\ n <= l
    BY <1>2, <1>3, <1>4, <1>5
  <2>. HIDE DEF e, l
  <2>2. arrived' \in Nat /\ arrived' + Len(wire') = e /\ arrived + n <= e
    BY <1>2, <1>3, <1>4, <2>1
  <2>. QED  BY <2>2 DEF e
<1>. QED  BY <1>3, <1>4, <1>5, <1>6, <1>7, <1>8, <1>9 DEF head

LEMMA MultipleAdd ==
  ASSUME NEW b \in Nat \ {0}, NEW a \in Nat, a % b = 0
  PROVE  (a + b) % b = 0
<1> DEFINE q == a \div b
<1>1. q \in Nat /\ a = b * q + (a % b)
  OBVIOUS
<1>. HIDE DEF q
<1>2. a + b = b * (q + 1)
  BY <1>1
<1>3. (b * (q + 1)) % b = 0
  BY <1>1
<1>. QED  BY <1>2, <1>3

LEMMA ReceiveFullStep ==
  ASSUME FrameInv, NEW n \in 1..BufLen, Receive(n), Full(n)
  PROVE  FrameInv'
<1> DEFINE read == data \o SubSeq(wire, 1, n)
<1>1. data' = read /\ queue' = queue /\ whole' = whole /\ n = BufLen
  BY DEF Receive, Full
<1>2. /\ n \in Nat /\ Base \in Nat
      /\ read \in Seq(Byte) /\ Len(read) = Len(data) + n /\ Len(data) \in Nat
      /\ Stretch(sent, read, Base)
      /\ wire' \in Seq(Byte) /\ Stretch(sent, wire', arrived + n)
      /\ arrived' = arrived + n /\ arrived' \in Nat /\ arrived' + Len(wire') = Offset(sent)[Len(sent)]
      /\ UNCHANGED <<aligned, sent, cmds, cmdflag, shown>>
  BY ReadIs
<1>. HIDE DEF read
<1>3. sent \in Seq(Responses) /\ arrived \in Nat /\ Len(data) <= arrived /\ Len(data) % BufLen = 0
  BY DEF FrameInv, StreamInv
<1>4. Base' = Base /\ Len(read) <= arrived'
  BY <1>1, <1>2, <1>3 DEF Base
<1>5. Len(read) % BufLen = 0
  BY <1>1, <1>2, <1>3, MultipleAdd, BoundsPositive
<1>6. StreamInv'
  BY <1>1, <1>2, <1>4, <1>5 DEF StreamInv
<1>7. Len(sent) \in Nat
  BY <1>3, LenProperties
<1>8. HandedInv'
  BY <1>1, <1>2, <1>3, <1>4, <1>7, HandedKept
<1>. QED  BY <1>1, <1>2, <1>6, <1>8 DEF FrameInv

\* A read that ends receive while no response is split ends where a response does.
LEMMA EndsAtResponse ==
  ASSUME FrameInv, NEW n \in 1..BufLen, Receive(n), ~Full(n), aligned
  PROVE  \E m \in 0..Len(sent) : Offset(sent)[m] = arrived + n
<1>1. sent \in Seq(Responses) /\ arrived \in Nat /\ Stretch(sent, wire, arrived) /\ Len(wire) \in Nat
  BY LenProperties DEF FrameInv, StreamInv
<1>2. n \in 1..Len(wire) /\ wire[n] = EOF
  BY <1>1, BoundsPositive DEF Receive, Full
<1>3. ByteAt(sent, arrived + n, EOF)
  BY <1>1, <1>2 DEF Stretch
<1>4. PICK i \in 1..Len(sent) : \E j \in 1..Len(sent[i]) : arrived + n = Offset(sent)[i - 1] + j /\ EOF = sent[i][j]
  BY <1>3 DEF ByteAt
<1>5. PICK j \in 1..Len(sent[i]) : arrived + n = Offset(sent)[i - 1] + j /\ EOF = sent[i][j]
  BY <1>4
<1>6. sent[i] \in Responses /\ Len(sent) \in Nat
  BY <1>1, SentAre
<1>7. j = Len(sent[i])
  BY <1>5, <1>6, ResponsesAre
<1>8. Offset(sent)[i] = arrived + n
  BY <1>1, <1>5, <1>7, OffsetUnfold
<1>9. i \in 0..Len(sent)
  BY <1>6
<1>. QED  BY <1>8, <1>9

\* What is queued is found after all that was found before.
LEMMA QueuedFound ==
  ASSUME HandedInv, NEW read \in Seq(Byte), NEW w \in Seq(Responses),
         Len(w) <= Len(Pieces(read)),
         \A k \in 1..Len(w) : Pieces(read)[Len(Pieces(read)) - Len(w) + k] = w[k]
  PROVE  \E u \in Seq(Seq(Byte)) :
           /\ Found(Append(queue, read)) = Found(queue) \o u
           /\ Given(shown) \o cmds \o Found(Append(queue, read)) = Handed \o u
           /\ \A i \in 1..Len(Found(Append(queue, read))) : Last(Found(Append(queue, read))[i]) = EOF
           /\ SubsequenceOf(w, u)
           /\ Len(w) = Len(Pieces(read)) => u = w
<1> DEFINE T == Seq(Byte)
           s == Scanned(queue)
           a == Given(shown) \o cmds
           f == Found(queue)
           g == Found(Append(queue, read))
<1>1. queue \in Pieced /\ \A i \in 1..Len(f) : Last(f[i]) = EOF
  BY DEF HandedInv
<1>2. Given(shown) \in Seq(T) /\ cmds \in Seq(T) /\ f \in Seq(T) /\ Handed = a \o f
  BY HandedAre
<1>3. s \in States /\ Scanned(Append(queue, read)) = ScanData(s, read)
  BY <1>1, ScannedAppend
<1>4. f = s.found /\ g = ScanData(s, read).found
  BY <1>3 DEF Found
<1>5. PICK u \in Pieced : /\ ScanData(s, read).found = s.found \o u
                          /\ \A i \in 1..Len(u) : Last(u[i]) = EOF
                          /\ SubsequenceOf(w, u)
                          /\ Len(w) = Len(Pieces(read)) => u = w
  <2>. HIDE DEF s
  <2>. QED  BY <1>3, ScanKeeps
<1>6. u \in Seq(T) /\ g = f \o u
  BY <1>4, <1>5 DEF Pieced
<1>. HIDE DEF T, s, f, g
<1>7. a \in Seq(T)
  BY <1>2, ConcatProperties
<1>. HIDE DEF a
<1>8. a \o g = Handed \o u
  <2>1. (a \o f) \o u = a \o (f \o u)
    <3>1. a \in Seq(T) /\ f \in Seq(T) /\ u \in Seq(T)
      BY <1>2, <1>6, <1>7
    <3>. QED  BY <3>1, ConcatAssociative
  <2>. QED  BY <1>2, <1>6, <2>1
<1>9. \A i \in 1..Len(g) : Last(g[i]) = EOF
  <2>1. /\ Len(f) \in Nat /\ Len(u) \in Nat /\ Len(g) = Len(f) + Len(u)
        /\ \A i \in 1..Len(f)+Len(u) : g[i] = IF i <= Len(f) THEN f[i] ELSE u[i - Len(f)]
    BY <1>2, <1>6, LenProperties, ConcatProperties
  <2>2. ASSUME NEW i \in 1..Len(g) PROVE Last(g[i]) = EOF
    <3>1. i \in 1..Len(f) \/ (i - Len(f) \in 1..Len(u) /\ ~(i <= Len(f)))
      BY <2>1
    <3>2. CASE i \in 1..Len(f)
      <4>1. g[i] = f[i]
        BY <2>1, <3>2
      <4>. QED  BY <1>1, <3>2, <4>1 DEF f
    <3>3. CASE i - Len(f) \in 1..Len(u) /\ ~(i <= Len(f))
      <4>1. g[i] = u[i - Len(f)]
        BY <2>1, <3>3
      <4>. QED  BY <1>5, <3>3, <4>1
    <3>. QED  BY <3>1, <3>2, <3>3
  <2>. QED  BY <2>2
<1>. QED  BY <1>5, <1>6, <1>8, <1>9 DEF T, a, f, g

LEMMA ReceiveQueueStep ==
  ASSUME FrameInv, NEW n \in 1..BufLen, Receive(n), ~Full(n)
  PROVE  FrameInv'
<1> DEFINE T == Seq(Byte)
           read == data \o SubSeq(wire, 1, n)
           to == arrived + n
           w == WholeIn(Base, to)
<1>1. /\ n \in Nat /\ n # 0 /\ Base \in Nat /\ to <= Offset(sent)[Len(sent)]
      /\ read \in Seq(Byte) /\ Len(read) = Len(data) + n /\ Len(data) \in Nat
      /\ Stretch(sent, read, Base)
      /\ wire' \in Seq(Byte) /\ Stretch(sent, wire', to)
      /\ arrived' = to /\ arrived' \in Nat /\ arrived' + Len(wire') = Offset(sent)[Len(sent)]
      /\ UNCHANGED <<aligned, sent, cmds, cmdflag, shown>>
  BY ReadIs
<1>2. /\ sent \in Seq(Responses) /\ whole \in Seq(Responses) /\ aligned \in BOOLEAN /\ HandedInv
      /\ arrived \in Nat /\ Len(data) <= arrived
  BY DEF FrameInv, StreamInv
<1>3. Base + Len(read) = to /\ Base + Len(data) = arrived /\ Base < to /\ to \in Nat
  BY <1>1, <1>2 DEF Base
<1>4. data' = <<>> /\ queue' = Append(queue, read) /\ whole' = whole \o w
  <2>1. to - Len(read) = Base
    BY <1>1, <1>3
  <2>2. data' = <<>> /\ queue' = Append(queue, read) /\ whole' = whole \o WholeIn(to - Len(read), to)
    BY DEF Receive
  <2>. QED  BY <2>1, <2>2
<1>. HIDE DEF read
<1>5. Reads(read, Base, to)
  <2>1. Len(read) = to - Base
    BY <1>1, <1>3
  <2>. HIDE DEF to
  <2>. QED  BY <1>1, <1>2, <1>3, <2>1, StretchReads
<1>6. /\ w \in Seq(Responses) /\ Len(w) <= Len(Pieces(read))
      /\ \A k \in 1..Len(w) : Pieces(read)[Len(Pieces(read)) - Len(w) + k] = w[k]
      /\ \A h, m \in 0..Len(sent) :
           h < m /\ Offset(sent)[h] = Base /\ Offset(sent)[m] = to
             => w = SubSeq(sent, h + 1, m) /\ Len(w) = Len(Pieces(read))
  <2>. HIDE DEF to
  <2>. QED  BY <1>1, <1>2, <1>3, <1>5, WholePieces
<1>. HIDE DEF w
<1>7. PICK u \in Seq(T) :
        /\ Found(Append(queue, read)) = Found(queue) \o u
        /\ Given(shown) \o cmds \o Found(Append(queue, read)) = Handed \o u
        /\ \A i \in 1..Len(Found(Append(queue, read))) : Last(Found(Append(queue, read))[i]) = EOF
        /\ SubsequenceOf(w, u)
        /\ Len(w) = Len(Pieces(read)) => u = w
  BY <1>1, <1>2, <1>6, QueuedFound
<1>8. Handed' = Handed \o u /\ Found(queue)' = Found(Append(queue, read))
  BY <1>1, <1>4, <1>7 DEF Handed, Given
<1>9. whole \in Seq(T) /\ w \in Seq(T) /\ Handed \in Seq(T)
  BY <1>2, <1>6, SentAre, HandedAre DEF Pieced
<1>10. SubsequenceOf(whole', Handed')
  <2>1. SubsequenceOf(whole, Handed)
    BY <1>2 DEF HandedInv
  <2>2. SubsequenceOf(whole \o w, Handed \o u)
    <3>. HIDE DEF T
    <3>. QED  BY <1>7, <1>9, <2>1, KeptConcat
  <2>. QED  BY <1>4, <1>8, <2>2
<1>11. whole' \in Seq(Responses)
  BY <1>2, <1>4, <1>6, ConcatProperties
<1>12. Len(data') = 0 /\ data' \in Seq(Byte) /\ Base' = to
  <2>1. Len(<<>>) = 0 /\ <<>> \in Seq(Byte)
    BY EmptySeq
  <2>2. to - 0 = to
    BY <1>3
  <2>. QED  BY <1>1, <1>4, <2>1, <2>2 DEF Base
<1>13. queue' \in Pieced /\ \A i \in 1..Len(queue') : queue'[i] # <<>>
  <2>1. queue \in Seq(Seq(Byte)) /\ \A i \in 1..Len(queue) : queue[i] # <<>>
    BY <1>2 DEF HandedInv, Pieced
  <2>2. /\ queue' \in Seq(Seq(Byte)) /\ Len(queue') = Len(queue) + 1 /\ Len(queue) \in Nat
        /\ queue'[Len(queue) + 1] = read /\ \A i \in 1..Len(queue) : queue'[i] = queue[i]
    BY <1>1, <1>4, <2>1, AppendProperties, LenProperties
  <2>3. read # <<>>
    <3>1. Len(<<>>) = 0 /\ Len(read) # 0
      BY <1>1, EmptySeq
    <3>. QED  BY <3>1
  <2>4. \A i \in 1..Len(queue') : i \in 1..Len(queue) \/ i = Len(queue) + 1
    BY <2>2
  <2>. QED  BY <2>1, <2>2, <2>3, <2>4 DEF Pieced
<1>14. ASSUME aligned
       PROVE  \E m \in 0..Len(sent) : Handed' = SubSeq(sent, 1, m) /\ Offset(sent)[m] = to
  <2>1. PICK h \in 0..Len(sent) : Handed = SubSeq(sent, 1, h) /\ Offset(sent)[h] = Base
    BY <1>2, <1>14 DEF HandedInv
  <2>2. PICK m \in 0..Len(sent) : Offset(sent)[m] = to
    BY <1>14, EndsAtResponse
  <2>3. Len(sent) \in Nat /\ h \in Int /\ m \in Int
    BY <1>2, LenProperties
  <2>4. h < m
    <3>1. m < h => Offset(sent)[m] < Offset(sent)[h]
      BY <1>2, OffsetGrows
    <3>2. ~(m < h) /\ m # h
      BY <1>1, <1>3, <2>1, <2>2, <3>1
    <3>. QED  BY <2>3, <3>2
  <2>5. w = SubSeq(sent, h + 1, m) /\ u = w
    BY <1>6, <1>7, <2>1, <2>2, <2>4
  <2>6. SubSeq(sent, 1, h) \o SubSeq(sent, h + 1, m) = SubSeq(sent, 1, m)
    <3>1. 1 \in 1..Len(sent)+1 /\ h \in 1-1..Len(sent) /\ m \in h..Len(sent)
      BY <2>3, <2>4
    <3>. QED  BY <1>2, <3>1, ConcatAdjacentSubSeq
  <2>. QED  BY <1>8, <2>1, <2>2, <2>5, <2>6
<1>. HIDE DEF to
<1>15. StreamInv'
  <2>1. Stretch(sent, data', to)
    <3>1. \A i \in 1..0 : FALSE
      OBVIOUS
    <3>. QED  BY <1>12, <3>1 DEF Stretch
  <2>2. 0 % BufLen = 0 /\ 0 <= arrived'
    BY <1>1, BoundsPositive
  <2>. QED  BY <1>1, <1>12, <2>1, <2>2 DEF StreamInv
<1>16. HandedInv'
  <2>1. cmds \in Pieced /\ (\A i \in 1..Len(cmds) : Last(cmds[i]) = EOF) /\ cmdflag \in Flags /\ shown \in Seq(Shown)
    BY <1>2 DEF HandedInv
  <2>2. \A i \in 1..Len(Found(queue)') : Last(Found(queue)'[i]) = EOF
    BY <1>7, <1>8
  <2>. QED  BY <1>1, <1>10, <1>12, <1>13, <1>14, <2>1, <2>2 DEF HandedInv
<1>. QED  BY <1>1, <1>2, <1>11, <1>15, <1>16 DEF FrameInv

LEMMA PopStep == ASSUME FrameInv, PopRecvData PROVE FrameInv'
<1> DEFINE T == Seq(Byte)
           g == Given(shown)
           f == Found(queue)
<1>1. /\ cmds = <<>> /\ cmds' = f /\ queue' = <<>>
      /\ UNCHANGED <<aligned, sent, wire, arrived, data, cmdflag, shown, whole>>
  BY DEF PopRecvData
<1>2. HandedInv /\ StreamInv
  BY DEF FrameInv
<1>3. g \in Seq(T) /\ f \in Seq(T) /\ Handed = g \o cmds \o f
  BY <1>2, HandedAre
<1>4. Found(queue)' = <<>>
  BY <1>1, ScannedEmpty DEF Found, Nothing
<1>5. Handed' = g \o f \o <<>>
  BY <1>1, <1>4 DEF Handed, Given
<1>6. \A i \in 1..Len(f) : Last(f[i]) = EOF
  BY <1>2 DEF HandedInv
<1>. HIDE DEF g, f
<1>7. Handed' = Handed
  <2>. HIDE DEF T
  <2>1. g \o f \in Seq(T)
    BY <1>3, ConcatProperties
  <2>2. (g \o f) \o <<>> = g \o f /\ g \o <<>> = g
    BY <1>3, <2>1, ConcatEmptySeq
  <2>. QED  BY <1>1, <1>3, <1>5, <2>2
<1>8. Base' = Base
  BY <1>1 DEF Base
<1>9. StreamInv'
  BY <1>1, <1>2, <1>8 DEF StreamInv
<1>10. HandedInv'
  <2>1. Len(<<>>) = 0 /\ <<>> \in Seq(Seq(Byte)) /\ \A i \in 1..0 : FALSE
    BY EmptySeq
  <2>2. /\ cmdflag \in Flags /\ shown \in Seq(Shown) /\ SubsequenceOf(whole, Handed)
        /\ aligned => \E h \in 0..Len(sent) : Handed = SubSeq(sent, 1, h) /\ Offset(sent)[h] = Base
    BY <1>2 DEF HandedInv
  <2>. QED  BY <1>1, <1>3, <1>4, <1>6, <1>7, <1>8, <2>1, <2>2 DEF HandedInv, Pieced
<1>. QED  BY <1>1, <1>9, <1>10 DEF FrameInv

LEMMA DispatchStep == ASSUME FrameInv, Dispatch PROVE FrameInv'
<1> DEFINE T == Seq(Byte)
           r == Head(cmds)
           rest == Tail(cmds)
           g == Given(shown)
           f == Found(queue)
<1>1. /\ cmds # <<>> /\ cmds' = rest
      /\ UNCHANGED <<aligned, sent, wire, arrived, data, queue, whole>>
  BY DEF Dispatch
<1>2. HandedInv /\ StreamInv
  BY DEF FrameInv
<1>3. /\ cmds \in Seq(T) /\ \A i \in 1..Len(cmds) : Last(cmds[i]) = EOF
  BY <1>2 DEF HandedInv, Pieced
<1>4. cmdflag \in Flags /\ shown \in Seq(Shown)
  BY <1>2 DEF HandedInv
<1>5. PICK m \in Flags \cup {"event"} : shown' = Append(shown, [msg |-> m, bytes |-> r])
  BY <1>4 DEF Dispatch, Flag, Flags
<1>6. cmdflag' \in Flags
  BY <1>4 DEF Dispatch, Flag, Flags
<1>7. g \in Seq(T) /\ f \in Seq(T) /\ Handed = g \o cmds \o f
  BY <1>2, HandedAre
<1>8. r \in T /\ rest \in Seq(T) /\ Len(rest) = Len(cmds) - 1 /\ \A i \in 1..Len(rest) : rest[i] = cmds[i + 1]
  <2>. HIDE DEF T
  <2>. QED  BY <1>1, <1>3, HeadTailProperties
<1>9. cmds = <<r>> \o rest
  <2>. HIDE DEF T
  <2>1. Len(cmds) \in Nat \ {0} /\ SubSeq(cmds, 1, Len(cmds)) = cmds
    BY <1>1, <1>3, EmptySeq, SubSeqFull
  <2>2. 1 \in 1..Len(cmds) /\ Len(cmds) \in 1..Len(cmds)
    BY <2>1
  <2>3. SubSeq(cmds, 1, Len(cmds)) = <<cmds[1]>> \o SubSeq(cmds, 1 + 1, Len(cmds))
    BY <1>3, <2>2, SubSeqRecursiveFirst
  <2>4. rest = SubSeq(cmds, 2, Len(cmds)) /\ r = cmds[1]
    BY <1>1, <1>3, TailIsSubSeq
  <2>. QED  BY <2>1, <2>3, <2>4
<1>10. [msg |-> m, bytes |-> r] \in Shown
  BY <1>8 DEF Shown
<1>11. Given(shown') = Append(g, r) /\ shown' \in Seq(Shown)
  <2> DEFINE x == [msg |-> m, bytes |-> r]
  <2>1. x \in Shown /\ x.bytes = r /\ shown' = Append(shown, x)
    BY <1>5, <1>10
  <2>. HIDE DEF x, r
  <2>2. Given(Append(shown, x)) = Append(g, x.bytes)
    BY <1>4, <2>1, GivenAre
  <2>3. Append(shown, x) \in Seq(Shown)
    BY <1>4, <2>1, AppendProperties
  <2>. QED  BY <2>1, <2>2, <2>3
<1>12. Handed' = Append(g, r) \o rest \o f
  BY <1>1, <1>11 DEF Handed, Given
<1>13. \A i \in 1..Len(rest) : Last(rest[i]) = EOF
  <2>1. Len(cmds) \in Nat
    BY <1>3, LenProperties
  <2>2. \A i \in 1..Len(rest) : i + 1 \in 1..Len(cmds)
    BY <1>8, <2>1
  <2>. QED  BY <1>3, <1>8, <2>2
<1>. HIDE DEF r, rest, g, f
<1>14. Handed' = Handed
  <2>. HIDE DEF T
  <2>1. <<r>> \in Seq(T)
    BY <1>8
  <2>2. Append(g, r) = g \o <<r>>
    BY <1>7, <1>8, AppendIsConcat
  <2>3. (g \o <<r>>) \o rest = g \o (<<r>> \o rest)
    <3>1. g \in Seq(T) /\ rest \in Seq(T)
      BY <1>7, <1>8
    <3>. QED  BY <2>1, <3>1, ConcatAssociative
  <2>4. Append(g, r) \o rest = g \o cmds
    BY <1>9, <2>2, <2>3
  <2>. QED  BY <1>7, <1>12, <2>4
<1>15. Base' = Base
  BY <1>1 DEF Base
<1>16. StreamInv'
  BY <1>1, <1>2, <1>15 DEF StreamInv
<1>17. HandedInv'
  <2>1. /\ queue \in Pieced /\ \A i \in 1..Len(queue) : queue[i] # <<>>
        /\ \A i \in 1..Len(Found(queue)) : Last(Found(queue)[i]) = EOF
        /\ SubsequenceOf(whole, Handed)
        /\ aligned => \E h \in 0..Len(sent) : Handed = SubSeq(sent, 1, h) /\ Offset(sent)[h] = Base
    BY <1>2 DEF HandedInv
  <2>2. Found(queue)' = Found(queue)
    BY <1>1
  <2>. QED  BY <1>1, <1>6, <1>8, <1>11, <1>13, <1>14, <1>15, <2>1, <2>2 DEF HandedInv, Pieced
<1>. QED  BY <1>1, <1>16, <1>17 DEF FrameInv

LEMMA FrameStep == ASSUME FrameInv, [Next]_vars PROVE FrameInv'
<1>1. ASSUME NEW r \in Responses, Respond(r) PROVE FrameInv'
  BY <1>1, RespondStep
<1>2. ASSUME NEW n \in 1..BufLen, Receive(n) PROVE FrameInv'
  BY <1>2, ReceiveFullStep, ReceiveQueueStep
<1>3. CASE PopRecvData
  BY <1>3, PopStep
<1>4. CASE Dispatch
  BY <1>4, DispatchStep
<1>5. CASE UNCHANGED vars
  <2>1. Handed' = Handed /\ Base' = Base /\ Found(queue)' = Found(queue)
    BY <1>5 DEF vars, Handed, Base
  <2>2. StreamInv' <=> StreamInv
    BY <1>5, <2>1 DEF vars, StreamInv
  <2>3. HandedInv' <=> HandedInv
    BY <1>5, <2>1 DEF vars, HandedInv
  <2>. QED  BY <1>5, <2>2, <2>3 DEF vars, FrameInv
<1>. QED  BY <1>1, <1>2, <1>3, <1>4, <1>5 DEF Next

LEMMA FrameInvariant == Spec => []FrameInv
<1>1. Init => FrameInv
  BY FrameInit
<1>2. FrameInv /\ [Next]_vars => FrameInv'
  BY FrameStep
<1>. QED  BY <1>1, <1>2, PTL DEF Spec
-----------------------------------------------------------------------------
(* What follows for the device's client.                                   *)

\* All variables stay in their ranges: what has been read is the stream, a piece of
\* data that is queued is not empty, data that is held back fills whole buffers, and
\* what is to be dispatched ends with an end byte.
THEOREM TypeCorrect == Spec => []TypeOK
<1>1. FrameInv => TypeOK
  <2>. SUFFICES ASSUME FrameInv PROVE TypeOK
    OBVIOUS
  <2>1. /\ aligned \in BOOLEAN /\ sent \in Seq(Responses) /\ whole \in Seq(Responses)
        /\ arrived + Len(wire) = Offset(sent)[Len(sent)] /\ Len(data) % BufLen = 0
    BY DEF FrameInv, StreamInv
  <2>2. /\ queue \in Pieced /\ \A i \in 1..Len(queue) : queue[i] # <<>>
        /\ cmds \in Pieced /\ \A i \in 1..Len(cmds) : Last(cmds[i]) = EOF
        /\ cmdflag \in {"none", "WM_Pn", "WM_H"}
    BY DEF FrameInv, HandedInv, Flags
  <2>3. DOMAIN queue = 1..Len(queue) /\ DOMAIN cmds = 1..Len(cmds)
    BY <2>2, LenProperties DEF Pieced
  <2>. QED  BY <2>1, <2>2, <2>3 DEF TypeOK
<1>. QED  BY <1>1, FrameInvariant, PTL

\* Packets that stick together are taken apart again: while no response is split
\* between two pieces of data, the responses handed over are the ones sent, in
\* order, once each, up to where the data begins that receive holds back.
THEOREM PacketsTakenApart == Spec => []StuckTakenApart
<1>1. FrameInv => StuckTakenApart
  <2>. SUFFICES ASSUME FrameInv, aligned
                PROVE  /\ Handed = SubSeq(sent, 1, Len(Handed))
                       /\ Offset(sent)[Len(Handed)] = arrived - Len(data)
    BY DEF StuckTakenApart
  <2>1. PICK h \in 0..Len(sent) : Handed = SubSeq(sent, 1, h) /\ Offset(sent)[h] = Base
    BY DEF FrameInv, HandedInv
  <2>2. sent \in Seq(Responses) /\ Len(sent) \in Nat
    BY LenProperties DEF FrameInv
  <2>3. Len(Handed) = h
    <3>1. 1 \in Int /\ h \in Int /\ \A i \in 1..h : i \in 1..Len(sent)
      BY <2>2
    <3>2. \A i \in 1..h : sent[i] \in Responses
      BY <2>2, <3>1, ElementOfSeq
    <3>3. Len(SubSeq(sent, 1, h)) = IF 1 <= h THEN h - 1 + 1 ELSE 0
      BY <3>1, <3>2, SubSeqProperties
    <3>4. h \in Nat
      BY <2>2
    <3>. QED  BY <2>1, <3>3, <3>4
  <2>. QED  BY <2>1, <2>3 DEF Base
<1>. QED  BY <1>1, FrameInvariant, PTL

\* However the network cuts the stream, a response that came whole in one piece of
\* data is handed over, in its order among the others.
THEOREM WholeAreKept == Spec => []WholeKept
<1>1. FrameInv => WholeKept
  BY DEF FrameInv, HandedInv, WholeKept
<1>. QED  BY <1>1, FrameInvariant, PTL

\* Nothing is left on the wire, in receive, in the queue or to be dispatched.
Quiet == wire = <<>> /\ data = <<>> /\ queue = <<>> /\ cmds = <<>>
AllGiven == aligned /\ Quiet => Given(shown) = sent

\* While no response is split, nothing is lost, doubled or reordered on the way:
\* once doThreadAnalysisRecvData has come to the end of what the device sent, the
\* window and the events have got exactly that.
THEOREM AllShown == Spec => []AllGiven
<1>1. ASSUME FrameInv, aligned, Quiet PROVE Given(shown) = sent
  <2>1. HandedInv /\ sent \in Seq(Responses) /\ arrived \in Nat /\ arrived + Len(wire) = Offset(sent)[Len(sent)]
    BY <1>1 DEF FrameInv, StreamInv
  <2>2. PICK h \in 0..Len(sent) : Handed = SubSeq(sent, 1, h) /\ Offset(sent)[h] = Base
    BY <1>1, <2>1 DEF HandedInv, Quiet
  <2>3. Len(<<>>) = 0 /\ Len(sent) \in Nat
    BY <2>1, LenProperties, EmptySeq
  <2>4. Offset(sent)[h] = Offset(sent)[Len(sent)]
    BY <1>1, <2>1, <2>2, <2>3 DEF Base, Quiet
  <2>5. h = Len(sent)
    <3>1. Len(sent) \in 0..Len(sent) /\ h \in Nat /\ h <= Len(sent)
      BY <2>3
    <3>2. Offset(sent)[h] \in Nat
      BY <2>1, <2>2, OffsetUnfold
    <3>3. ~(h < Len(sent))
      BY <2>1, <2>4, <3>1, <3>2, OffsetGrows
    <3>. QED  BY <2>3, <3>1, <3>3
  <2>6. Handed = sent
    BY <2>1, <2>2, <2>5, SubSeqFull
  <2>7. Handed = Given(shown)
    <3>1. Handed = Given(shown) \o cmds \o Found(queue) /\ Given(shown) \in Seq(Seq(Byte))
      BY <2>1, HandedAre
    <3>2. Found(queue) = <<>>
      BY <1>1, ScannedEmpty DEF Found, Nothing, Quiet
    <3>3. Given(shown) \o <<>> = Given(shown)
      BY <3>1, ConcatEmptySeq
    <3>. QED  BY <1>1, <3>1, <3>2, <3>3 DEF Quiet
  <2>. QED  BY <2>6, <2>7
<1>2. FrameInv => AllGiven
  BY <1>1 DEF AllGiven
<1>. QED  BY <1>2, FrameInvariant, PTL
=============================================================================
