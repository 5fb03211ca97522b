------------------------- MODULE ControlLifeProofs -------------------------
(***************************************************************************)
(* Proofs about ControlLife, for any number of controls, any depth of      *)
(* handlers and any number of messages; and, after them, about DelayedFree *)
(* for any number of controls.                                             *)
(***************************************************************************)
EXTENDS ControlLife, SequenceTheorems, FiniteSetTheorems, TLAPS

InTree == attached \cup detached
Once(s) == \A i, j \in DOMAIN s : s[i] = s[j] => i = j

\* Every control is in one place, and m_vecDelayedCleanup has each of its once.  The
\* tree that attachDialog replaced waits in m_vecDelayedCleanup; no other comes,
\* for a window is given one tree more.
Trees ==
  /\ attached \subseteq Ctl /\ detached \subseteq Ctl /\ attached \cap detached = {}
  /\ attached # {} => detached = {} /\ Root \notin ToSet(cleanup)
  /\ detached # {} => Root \in ToSet(cleanup)
Vector == cleanup \in Seq(Ctl \cup {Root}) /\ Once(cleanup)
Places ==
  \A c \in Ctl : \/ c \in InTree /\ c \notin ToSet(cleanup) /\ deletes[c] = 0
                 \/ c \notin InTree /\ c \in ToSet(cleanup) /\ deletes[c] = 0
                 \/ c \notin InTree /\ c \notin ToSet(cleanup) /\ deletes[c] = 1
PlaceInv == deletes \in [Ctl -> Nat] /\ Trees /\ Vector /\ Places

\* The messages under way, with controls of C in their hands.
FrameAt == {"end", "left", "entered", "mouseleft", "tip", "pressed", "released", "wheeled", "keyed",
            "unkeyed", "killed", "dropped", "took", "bye"}
FramesOf(C) == [at : FrameAt, ctl : C, on : C, fresh : BOOLEAN]
StackOf(C, s) == s \in Seq(FramesOf(C)) /\ Len(s) <= MaxDepth
RoomOn(C, s) == s \in Seq(FramesOf(C)) /\ Len(s) < MaxDepth
PtrsOf(C) == [Pointers -> C]
StackInv(C) == ptr \in PtrsOf(C) /\ StackOf(C, stack)

\* What a message may have in its hands: anything but a deleted control.
Live == {c \in Ctl \cup {None} : c \in Ctl => deletes[c] = 0}

\* The end of the window.
WindowInv ==
  /\ window \in {"open", "closed", "gone"} /\ posted \in 0..MaxPosted
  /\ window = "gone" => attached = {} /\ detached = {} /\ cleanup = <<>> /\ stack = <<>>
  /\ (\E c \in Ctl : c \in ToSet(cleanup)) => posted > 0
-----------------------------------------------------------------------------
(* Sequences.                                                              *)

\* SetToSeq(S) has every member of S once.
LEMMA SetToSeqProperties ==
  ASSUME NEW S, IsFiniteSet(S)
  PROVE  SetToSeq(S) \in Seq(S) /\ Once(SetToSeq(S)) /\ ToSet(SetToSeq(S)) = S
<1> DEFINE n == Cardinality(S)
           f == SetToSeq(S)
<1>1. n \in Nat /\ ExistsBijection(1..n, S)
  BY FS_CardinalityType
<1>2. \E g \in [1..n -> S] : IsInjective(g)
  BY <1>1 DEF ExistsBijection, Bijection, Injection
<1>3. f \in [1..n -> S] /\ IsInjective(f)
  BY <1>2 DEF SetToSeq
<1>4. IsFiniteSet(1..n) /\ Cardinality(1..n) = n
  <2>1. Cardinality(1..n) = IF 1 > n THEN 0 ELSE n - 1 + 1
    BY <1>1, FS_Interval
  <2>2. IsFiniteSet(1..n)
    BY <1>1, FS_Interval
  <2>. HIDE DEF n
  <2>. QED  BY <1>1, <2>1, <2>2
<1>. HIDE DEF f
<1>5. f \in Surjection(1..n, S)
  <2>1. f \in Injection(1..n, S)
    BY <1>3 DEF Injection
  <2>2. Cardinality(1..n) = Cardinality(S)
    BY <1>4
  <2>. HIDE DEF n
  <2>. QED  BY <2>1, <2>2, FS_Injection
<1>6. f \in Seq(S) /\ DOMAIN f = 1..n
  BY <1>1, <1>3, SeqDef
<1>7. ToSet(f) = S
  BY <1>3, <1>5, <1>6 DEF ToSet, Surjection
<1>8. Once(f)
  BY <1>3 DEF Once, IsInjective
<1>. QED  BY <1>6, <1>7, <1>8 DEF f

LEMMA ConcatAt ==
  ASSUME NEW X, NEW s \in Seq(X), NEW t \in Seq(X)
  PROVE  /\ s \o t \in Seq(X) /\ Len(s) \in Nat /\ Len(t) \in Nat /\ Len(s \o t) = Len(s) + Len(t)
         /\ DOMAIN s = 1..Len(s) /\ DOMAIN t = 1..Len(t)
         /\ \A i \in DOMAIN (s \o t) : \/ i \in DOMAIN s /\ (s \o t)[i] = s[i]
                                       \/ i > Len(s) /\ i - Len(s) \in DOMAIN t /\ (s \o t)[i] = t[i - Len(s)]
         /\ \A i \in DOMAIN s : i \in DOMAIN (s \o t) /\ (s \o t)[i] = s[i]
         /\ \A i \in DOMAIN t : Len(s) + i \in DOMAIN (s \o t) /\ (s \o t)[Len(s) + i] = t[i]
<1>1. /\ s \o t \in Seq(X) /\ Len(s) \in Nat /\ Len(t) \in Nat /\ Len(s \o t) = Len(s) + Len(t)
      /\ DOMAIN s = 1..Len(s) /\ DOMAIN t = 1..Len(t) /\ DOMAIN (s \o t) = 1..Len(s) + Len(t)
      /\ \A i \in 1..Len(s) + Len(t) : (s \o t)[i] = IF i <= Len(s) THEN s[i] ELSE t[i - Len(s)]
  BY LenProperties, ConcatProperties
<1>2. ASSUME NEW i \in DOMAIN (s \o t)
      PROVE  \/ i \in DOMAIN s /\ (s \o t)[i] = s[i]
             \/ i > Len(s) /\ i - Len(s) \in DOMAIN t /\ (s \o t)[i] = t[i - Len(s)]
  <2>1. i \in 1..Len(s) + Len(t)
    BY <1>1
  <2>2. CASE i <= Len(s)
    BY <1>1, <2>1, <2>2
  <2>3. CASE ~(i <= Len(s))
    <3>1. i > Len(s) /\ i - Len(s) \in 1..Len(t)
      BY <1>1, <2>1, <2>3
    <3>. QED  BY <1>1, <2>1, <2>3, <3>1
  <2>. QED  BY <2>2, <2>3
<1>3. ASSUME NEW i \in DOMAIN s PROVE i \in DOMAIN (s \o t) /\ (s \o t)[i] = s[i]
  BY <1>1
<1>4. ASSUME NEW i \in DOMAIN t PROVE Len(s) + i \in DOMAIN (s \o t) /\ (s \o t)[Len(s) + i] = t[i]
  <2>1. Len(s) + i \in 1..Len(s) + Len(t) /\ ~(Len(s) + i <= Len(s)) /\ (Len(s) + i) - Len(s) = i
    BY <1>1
  <2>. QED  BY <1>1, <2>1
<1>. QED  BY <1>1, <1>2, <1>3, <1>4

LEMMA OnceConcat ==
  ASSUME NEW X, NEW s \in Seq(X), NEW t \in Seq(X), Once(s), Once(t), ToSet(s) \cap ToSet(t) = {}
  PROVE  /\ s \o t \in Seq(X) /\ Once(s \o t) /\ ToSet(s \o t) = ToSet(s) \cup ToSet(t)
         /\ \A i \in DOMAIN (s \o t) : \/ i \in DOMAIN s /\ (s \o t)[i] = s[i]
                                       \/ i > Len(s) /\ (s \o t)[i] \in ToSet(t)
         /\ Len(s \o t) >= Len(s)
<1> DEFINE u == s \o t
<1>1. /\ u \in Seq(X) /\ Len(s) \in Nat /\ Len(t) \in Nat /\ Len(u) = Len(s) + Len(t)
      /\ DOMAIN s = 1..Len(s) /\ DOMAIN t = 1..Len(t) /\ DOMAIN u = 1..Len(u)
      /\ \A i \in DOMAIN u : \/ i \in DOMAIN s /\ u[i] = s[i]
                             \/ i > Len(s) /\ i - Len(s) \in DOMAIN t /\ u[i] = t[i - Len(s)]
      /\ \A i \in DOMAIN s : i \in DOMAIN u /\ u[i] = s[i]
      /\ \A i \in DOMAIN t : Len(s) + i \in DOMAIN u /\ u[Len(s) + i] = t[i]
  BY ConcatAt, LenProperties
<1>. HIDE DEF u
<1>2. \A i \in DOMAIN u : \/ i \in DOMAIN s /\ u[i] = s[i]
                          \/ i > Len(s) /\ u[i] \in ToSet(t)
  BY <1>1 DEF ToSet
<1>3. ToSet(u) = ToSet(s) \cup ToSet(t)
  BY <1>1 DEF ToSet
<1>4. Once(u)
  <2>1. SUFFICES ASSUME NEW i \in DOMAIN u, NEW j \in DOMAIN u, u[i] = u[j] PROVE i = j
    BY DEF Once
  <2>2. CASE i \in DOMAIN s /\ j \in DOMAIN s
    BY <1>1, <2>1, <2>2 DEF Once
  <2>3. CASE i \in DOMAIN s /\ j \notin DOMAIN s
    BY <1>1, <2>1, <2>3 DEF ToSet
  <2>4. CASE i \notin DOMAIN s /\ j \in DOMAIN s
    BY <1>1, <2>1, <2>4 DEF ToSet
  <2>5. CASE i \notin DOMAIN s /\ j \notin DOMAIN s
    <3>1. /\ i - Len(s) \in DOMAIN t /\ u[i] = t[i - Len(s)]
          /\ j - Len(s) \in DOMAIN t /\ u[j] = t[j - Len(s)] /\ i \in Nat /\ j \in Nat
      BY <1>1, <2>5
    <3>2. i - Len(s) = j - Len(s)
      BY <2>1, <3>1 DEF Once
    <3>. QED  BY <1>1, <3>1, <3>2
  <2>. QED  BY <2>2, <2>3, <2>4, <2>5
<1>5. Len(u) >= Len(s)
  BY <1>1
<1>. QED  BY <1>1, <1>2, <1>3, <1>4, <1>5 DEF u
-----------------------------------------------------------------------------
(* Where the controls are.                                                 *)

LEMMA Subsets ==
  /\ Root \notin Ctl /\ None \notin Ctl
  /\ \A C \in SUBSET Ctl : IsFiniteSet(C)
  /\ Hidden \subseteq Ctl /\ MaxDepth \in Nat \ {0} /\ MaxPosted \in Nat \ {0}
BY ControlsDistinct, BoundsPositive, FS_Subset

\* What goes with the entries of m_vecDelayedCleanup and the controls of extra.
Doomed(extra) == extra \cup detached \cup (ToSet(cleanup) \ {Root})

LEMMA DeleteAllProperties ==
  ASSUME PlaceInv, NEW extra \in SUBSET InTree, DeleteAll(extra)
  PROVE  /\ deletes' = [c \in Ctl |-> IF c \in Doomed(extra) THEN deletes[c] + 1 ELSE deletes[c]]
         /\ ptr' = Without(Doomed(extra)) /\ detached' = {} /\ cleanup' = <<>>
<1> DEFINE oldTree == detached \ extra
           owned(e) == IF e = Root THEN oldTree ELSE {e}
           at(c) == {i \in DOMAIN cleanup : c \in owned(cleanup[i])}
           times(c) == Cardinality(at(c)) + (IF c \in extra THEN 1 ELSE 0)
<1>1. /\ deletes' = [c \in Ctl |-> deletes[c] + times(c)]
      /\ ptr' = Without(extra \cup UNION {owned(e) : e \in ToSet(cleanup)})
      /\ detached' = IF Root \in ToSet(cleanup) THEN {} ELSE oldTree
      /\ cleanup' = <<>>
  BY DEF DeleteAll, reapObject
<1>2. /\ Once(cleanup) /\ detached \subseteq Ctl /\ (detached # {} => Root \in ToSet(cleanup))
      /\ ToSet(cleanup) \subseteq Ctl \cup {Root} /\ deletes \in [Ctl -> Nat]
      /\ \A c \in Ctl : c \in ToSet(cleanup) => c \notin InTree
  <2>1. cleanup \in Seq(Ctl \cup {Root})
    BY DEF PlaceInv, Vector
  <2>2. ToSet(cleanup) \subseteq Ctl \cup {Root}
    BY <2>1, ElementOfSeq, LenProperties DEF ToSet
  <2>. QED  BY <2>2 DEF PlaceInv, Trees, Vector, Places
<1>3. detached' = {}
  BY <1>1, <1>2
<1>4. extra \cup UNION {owned(e) : e \in ToSet(cleanup)} = Doomed(extra)
  <2>1. CASE Root \in ToSet(cleanup)
    <3>1. UNION {owned(e) : e \in ToSet(cleanup)} = oldTree \cup (ToSet(cleanup) \ {Root})
      BY <2>1
    <3>. QED  BY <3>1 DEF Doomed
  <2>2. CASE Root \notin ToSet(cleanup)
    <3>1. UNION {owned(e) : e \in ToSet(cleanup)} = ToSet(cleanup)
      BY <2>2
    <3>. QED  BY <1>2, <2>2, <3>1 DEF Doomed
  <2>. QED  BY <2>1, <2>2
<1>5. ASSUME NEW c \in Ctl PROVE deletes[c] + times(c) = IF c \in Doomed(extra) THEN deletes[c] + 1 ELSE deletes[c]
  <2>1. \A i \in DOMAIN cleanup : cleanup[i] \in ToSet(cleanup)
    BY DEF ToSet
  <2>2. \A i, j \in at(c) : i = j
    <3>1. TAKE i, j \in at(c)
    <3>2. c # Root /\ (cleanup[i] = Root => c \in InTree) /\ (cleanup[j] = Root => c \in InTree)
          /\ (cleanup[i] # Root => cleanup[i] = c /\ c \in Ctl /\ c \notin InTree)
          /\ (cleanup[j] # Root => cleanup[j] = c /\ c \in Ctl /\ c \notin InTree)
      BY <1>2, <2>1, Subsets DEF InTree
    <3>3. cleanup[i] = cleanup[j]
      BY <3>2
    <3>. QED  BY <1>2, <3>3 DEF Once
  <2>3. at(c) # {} <=> c \in detached \ extra \/ c \in ToSet(cleanup)
    <3>1. c # Root
      BY Subsets
    <3>2. ASSUME NEW i \in at(c) PROVE c \in detached \ extra \/ c \in ToSet(cleanup)
      BY <2>1
    <3>3. ASSUME c \in detached \ extra PROVE at(c) # {}
      <4>1. PICK i \in DOMAIN cleanup : cleanup[i] = Root
        BY <1>2, <3>3 DEF ToSet
      <4>. QED  BY <3>3, <4>1
    <3>4. ASSUME c \in ToSet(cleanup) PROVE at(c) # {}
      <4>1. PICK i \in DOMAIN cleanup : cleanup[i] = c
        BY <3>4 DEF ToSet
      <4>. QED  BY <3>1, <4>1
    <3>. QED  BY <3>2, <3>3, <3>4
  <2>4. Cardinality(at(c)) = IF at(c) = {} THEN 0 ELSE 1
    <3>1. CASE at(c) = {}
      BY <3>1, FS_EmptySet
    <3>2. CASE at(c) # {}
      <4>1. PICK i : at(c) = {i}
        BY <2>2, <3>2
      <4>2. Cardinality({i}) = 1
        BY FS_Singleton
      <4>. QED  BY <4>1, <4>2
    <3>. QED  BY <3>1, <3>2
  <2>5. c # Root /\ ~(c \in extra /\ c \in ToSet(cleanup))
    BY <1>2, Subsets
  <2>6. deletes[c] \in Nat
    BY <1>2
  <2>. HIDE DEF at
  <2>7. CASE at(c) = {}
    <3>1. c \in Doomed(extra) <=> c \in extra
      BY <2>3, <2>5, <2>7 DEF Doomed
    <3>. QED  BY <2>4, <2>6, <2>7, <3>1
  <2>8. CASE at(c) # {}
    <3>1. c \in Doomed(extra) /\ c \notin extra
      BY <2>3, <2>5, <2>8 DEF Doomed
    <3>. QED  BY <2>4, <2>6, <2>8, <3>1
  <2>. QED  BY <2>7, <2>8
<1>. HIDE DEF times
<1>6. deletes' = [c \in Ctl |-> IF c \in Doomed(extra) THEN deletes[c] + 1 ELSE deletes[c]]
  BY <1>1, <1>5
<1>. QED  BY <1>1, <1>3, <1>4, <1>6

\* The vector and the tree after that.
LEMMA PlacesDelete ==
  ASSUME PlaceInv, NEW extra \in SUBSET InTree, DeleteAll(extra), attached' = attached \ extra
  PROVE  PlaceInv'
<1>1. /\ deletes' = [c \in Ctl |-> IF c \in Doomed(extra) THEN deletes[c] + 1 ELSE deletes[c]]
      /\ detached' = {} /\ cleanup' = <<>>
  BY DeleteAllProperties
<1>2. /\ ToSet(<<>>) = {} /\ <<>> \in Seq(Ctl \cup {Root}) /\ Once(<<>>)
  BY EmptySeq DEF ToSet, Once
<1>3. deletes' \in [Ctl -> Nat] /\ Trees' /\ Vector'
  BY <1>1, <1>2 DEF PlaceInv, Trees, Vector
<1>4. \A c \in Ctl : /\ c \in InTree' => c \in InTree /\ c \notin Doomed(extra)
                     /\ c \in InTree /\ c \notin InTree' => c \in Doomed(extra)
  <2>1. InTree' = attached \ extra
    BY <1>1 DEF InTree
  <2>2. TAKE c \in Ctl
  <2>3. c \in attached => c \notin detached /\ c \notin ToSet(cleanup)
    BY DEF PlaceInv, Trees, Places, InTree
  <2>. QED  BY <2>1, <2>3, Subsets DEF Doomed, InTree
<1>5. Places'
  <2>1. SUFFICES ASSUME NEW c \in Ctl
                 PROVE  \/ c \in InTree' /\ deletes'[c] = 0
                        \/ c \notin InTree' /\ deletes'[c] = 1
    BY <1>1, <1>2 DEF Places
  <2>2. c # Root
    BY Subsets
  <2>3. deletes'[c] = IF c \in Doomed(extra) THEN deletes[c] + 1 ELSE deletes[c]
    BY <1>1
  <2>4. CASE c \in InTree
    BY <1>4, <2>3, <2>4 DEF PlaceInv, Places
  <2>5. CASE c \notin InTree /\ c \in ToSet(cleanup)
    BY <1>4, <2>2, <2>3, <2>5 DEF PlaceInv, Places, Doomed
  <2>6. CASE c \notin InTree /\ c \notin ToSet(cleanup)
    BY <1>4, <2>2, <2>3, <2>6 DEF PlaceInv, Places, Doomed, InTree
  <2>. QED  BY <2>4, <2>5, <2>6
<1>. QED  BY <1>3, <1>5 DEF PlaceInv

LEMMA PlacesKept ==
  ASSUME PlaceInv, UNCHANGED <<attached, detached, deletes, cleanup>> PROVE PlaceInv'
BY DEF PlaceInv, Trees, Vector, Places, InTree

\* Controls that are left to WM_APP+1.
LEMMA PlacesCleanup ==
  ASSUME PlaceInv, NEW C \in SUBSET InTree, addDelayedCleanup(C),
         attached' = attached \ C, detached' = detached \ C, UNCHANGED deletes
  PROVE  PlaceInv' /\ ToSet(cleanup') = ToSet(cleanup) \cup C
<1> DEFINE t == SetToSeq(C)
           E == Ctl \cup {Root}
<1>1. IsFiniteSet(C) /\ C \subseteq Ctl
  BY Subsets DEF PlaceInv, Trees, InTree
<1>2. t \in Seq(C) /\ Once(t) /\ ToSet(t) = C
  BY <1>1, SetToSeqProperties
<1>3. t \in Seq(E) /\ cleanup \in Seq(E) /\ Once(cleanup) /\ ToSet(cleanup) \cap ToSet(t) = {}
  <2>1. t \in Seq(E)
    BY <1>1, <1>2, SeqMonotonic
  <2>. QED  BY <1>1, <1>2, <2>1 DEF PlaceInv, Vector, Places
<1>4. cleanup' = cleanup \o t
  BY DEF addDelayedCleanup
<1>. HIDE DEF t, E
<1>5. cleanup' \in Seq(E) /\ Once(cleanup') /\ ToSet(cleanup') = ToSet(cleanup) \cup C
  BY <1>2, <1>3, <1>4, OnceConcat
<1>6. InTree' = InTree \ C /\ Root \notin C
  BY <1>1, Subsets DEF InTree
<1>7. Trees' /\ Vector'
  BY <1>5, <1>6 DEF PlaceInv, Trees, Vector, E
<1>8. Places'
  BY <1>5, <1>6 DEF PlaceInv, Places
<1>. QED  BY <1>5, <1>7, <1>8 DEF PlaceInv

LEMMA PlacesAttach == PlaceInv /\ AttachDialog => PlaceInv' /\ ToSet(cleanup') = ToSet(cleanup) \cup {Root}
<1>. SUFFICES ASSUME PlaceInv, AttachDialog PROVE PlaceInv' /\ ToSet(cleanup') = ToSet(cleanup) \cup {Root}
  OBVIOUS
<1> DEFINE t == <<Root>>
           E == Ctl \cup {Root}
<1>1. /\ attached # {} /\ attached' = {} /\ detached' = attached /\ cleanup' = Append(cleanup, Root)
      /\ UNCHANGED deletes
  BY DEF AttachDialog
<1>2. detached = {} /\ Root \notin ToSet(cleanup) /\ cleanup \in Seq(E) /\ Once(cleanup)
  BY <1>1 DEF PlaceInv, Trees, Vector
<1>3. t \in Seq(E) /\ Once(t) /\ ToSet(t) = {Root}
  BY DEF Once, ToSet
<1>4. cleanup' = cleanup \o t
  BY <1>1, <1>2, AppendIsConcat
<1>5. cleanup' \in Seq(E) /\ Once(cleanup') /\ ToSet(cleanup') = ToSet(cleanup) \cup {Root}
  <2>. HIDE DEF t, E
  <2>. QED  BY <1>2, <1>3, <1>4, OnceConcat
<1>6. InTree' = InTree
  BY <1>1, <1>2 DEF InTree
<1>7. Trees' /\ Vector'
  BY <1>1, <1>5 DEF PlaceInv, Trees, Vector
<1>8. Places'
  BY <1>1, <1>5, <1>6, Subsets DEF PlaceInv, Places
<1>. QED  BY <1>1, <1>5, <1>7, <1>8 DEF PlaceInv

\* The actions that handle a message and do not touch the tree.
Handling ==
  \/ MouseMove \/ MouseLeave \/ MouseHover \/ LButtonDown \/ ButtonLate \/ ButtonUp
  \/ Wheel \/ CharOrTimer \/ KeyDown \/ KeyUp \/ NextTab \/ FocusInHandler
  \/ Return \/ Left \/ Entered \/ MouseLeft \/ Pressed \/ Released \/ Wheeled \/ Keyed \/ Unkeyed
  \/ Killed \/ Dropped \/ Took \/ Bye

LEMMA NextParts ==
  Next => \/ Handling \/ Close \/ Cleanup \/ Destroy \/ AttachDialog \/ removeAll
          \/ (\E c \in Ctl : remove(c))
BY DEF Next, Input, Program, Going, Handling

LEMMA HandlingQuiet == Handling => Quiet
BY DEF Handling, MouseMove, MouseLeave, MouseHover, LButtonDown, ButtonLate, ButtonUp, Wheel, CharOrTimer,
       KeyDown, KeyUp, NextTab, FocusInHandler, Return, Left, Entered, MouseLeft, Pressed, Released, Wheeled,
       Keyed, Unkeyed, Killed, Dropped, Took, Bye

LEMMA InitPlaces == Init => PlaceInv
<1>. SUFFICES ASSUME Init PROVE PlaceInv
  OBVIOUS
<1>1. <<>> \in Seq(Ctl \cup {Root}) /\ Once(<<>>) /\ ToSet(<<>>) = {}
  BY EmptySeq DEF Once, ToSet
<1>2. Trees /\ Vector /\ InTree = Ctl
  BY <1>1 DEF Init, Trees, Vector, InTree
<1>3. Places
  BY <1>1, <1>2 DEF Init, Places
<1>. QED  BY <1>2, <1>3 DEF Init, PlaceInv

LEMMA PlacesRemove ==
  ASSUME PlaceInv, NEW c \in Ctl, remove(c) PROVE PlaceInv'
<1>1. c \in InTree /\ attached' = attached \ {c} /\ DeleteAll({c})
  BY DEF remove, Erase, InTree
<1>. QED  BY <1>1, PlacesDelete

LEMMA PlacesRemoveAll ==
  ASSUME PlaceInv, removeAll PROVE PlaceInv'
<1> DEFINE C == attached \cup detached
<1>1. attached' = attached \ C /\ detached' = detached \ C /\ UNCHANGED deletes
      /\ addDelayedCleanup(C) /\ C \in SUBSET InTree
  BY DEF removeAll, Erase, InTree
<1>. HIDE DEF C
<1>. QED  BY <1>1, PlacesCleanup

LEMMA PlacesStep == PlaceInv /\ [Next]_vars => PlaceInv'
<1>. SUFFICES ASSUME PlaceInv, [Next]_vars PROVE PlaceInv'
  OBVIOUS
<1>1. CASE Handling
  BY <1>1, HandlingQuiet, PlacesKept DEF Quiet, tree
<1>2. CASE Close
  BY <1>2, PlacesKept DEF Close, tree
<1>3. CASE Cleanup
  <2>1. DeleteAll({}) /\ attached' = attached \ {} /\ {} \in SUBSET InTree
    BY <1>3 DEF Cleanup
  <2>. QED  BY <2>1, PlacesDelete
<1>4. CASE Destroy
  <2>1. DeleteAll(attached) /\ attached' = attached \ attached
        /\ attached \in SUBSET InTree
    BY <1>4 DEF Destroy, InTree
  <2>. QED  BY <2>1, PlacesDelete
<1>5. CASE UNCHANGED vars
  BY <1>5, PlacesKept DEF vars
<1>. QED
  BY <1>1, <1>2, <1>3, <1>4, <1>5, NextParts, PlacesAttach, PlacesRemove, PlacesRemoveAll

\* How often a control is in a vector that has each of its controls once.
LEMMA TimesOnce ==
  ASSUME NEW s, NEW c, Once(s) PROVE Times(c, s) = IF c \in ToSet(s) THEN 1 ELSE 0
<1> DEFINE at == {i \in DOMAIN s : s[i] = c}
<1>1. \A i, j \in at : i = j
  BY DEF Once
<1>2. at # {} <=> c \in ToSet(s)
  BY DEF ToSet
<1>3. CASE at = {}
  BY <1>2, <1>3, FS_EmptySet DEF Times
<1>4. CASE at # {}
  <2>1. PICK i : at = {i}
    BY <1>1, <1>4
  <2>2. Cardinality({i}) = 1
    BY FS_Singleton
  <2>. QED  BY <1>2, <1>4, <2>1, <2>2 DEF Times
<1>. QED  BY <1>3, <1>4

-----------------------------------------------------------------------------
(* What the messages under way have in their hands.                        *)

LEMMA FrameProperties ==
  ASSUME NEW C, NEW c \in C, NEW on \in C, NEW l \in FrameAt, None \in C
  PROVE  Frame(l, c, on) \in FramesOf(C) /\ EndFrame(on) \in FramesOf(C)
BY DEF Frame, EndFrame, FramesOf, FrameAt

LEMMA PushFrame ==
  ASSUME NEW C, NEW s, RoomOn(C, s), NEW f \in FramesOf(C)
  PROVE  StackOf(C, Append(s, f)) /\ StackOf(C, s)
<1>1. s \in Seq(FramesOf(C)) /\ Len(s) < MaxDepth /\ Len(s) \in Nat /\ MaxDepth \in Nat
  BY Subsets, LenProperties DEF RoomOn
<1>2. Append(s, f) \in Seq(FramesOf(C)) /\ Len(Append(s, f)) = Len(s) + 1
  BY <1>1, AppendProperties
<1>3. Len(s) + 1 <= MaxDepth /\ Len(s) <= MaxDepth
  BY <1>1
<1>. QED  BY <1>1, <1>2, <1>3 DEF StackOf

LEMMA EmptyStack == \A C : StackOf(C, <<>>) /\ RoomOn(C, <<>>)
BY EmptySeq, Subsets DEF StackOf, RoomOn

\* The frame of a handler that returns, and those below it.
LEMMA PopFrame ==
  ASSUME NEW C, StackOf(C, stack), stack # <<>>
  PROVE  RoomOn(C, Below) /\ StackOf(C, Below) /\ Top \in FramesOf(C)
<1>1. stack \in Seq(FramesOf(C)) /\ Len(stack) \in Nat \ {0} /\ Len(stack) <= MaxDepth /\ MaxDepth \in Nat
  BY EmptySeq, LenProperties, Subsets DEF StackOf
<1>2. \A i \in 1..Len(stack) : stack[i] \in FramesOf(C)
  BY <1>1, ElementOfSeq
<1>3. Top \in FramesOf(C)
  <2>1. Len(stack) \in 1..Len(stack)
    BY <1>1
  <2>. QED  BY <1>2, <2>1 DEF Top, Last
<1>4. Below \in Seq(FramesOf(C)) /\ Len(Below) = Len(stack) - 1
  <2> DEFINE n == Len(stack) - 1
  <2>1. n \in Int /\ 1 \in Int /\ \A i \in 1..n : stack[i] \in FramesOf(C)
    BY <1>1, <1>2
  <2>2. n \in Nat /\ Below = SubSeq(stack, 1, n)
    BY <1>1 DEF Below, Front
  <2>. HIDE DEF n
  <2>3. Below \in Seq(FramesOf(C)) /\ Len(Below) = IF 1 <= n THEN n - 1 + 1 ELSE 0
    BY <2>1, <2>2, SubSeqProperties
  <2>4. Len(Below) = n
    BY <2>2, <2>3
  <2>. QED  BY <2>3, <2>4 DEF n
<1>5. Len(Below) < MaxDepth /\ Len(Below) <= MaxDepth
  BY <1>1, <1>4
<1>. QED  BY <1>3, <1>4, <1>5 DEF RoomOn, StackOf

\* The fields of a frame.
LEMMA FrameFields ==
  ASSUME NEW C, NEW f \in FramesOf(C) PROVE f.ctl \in C /\ f.on \in C
BY DEF FramesOf

LEMMA MoveFrames ==
  ASSUME NEW C, None \in C, NEW s, RoomOn(C, s), NEW p \in PtrsOf(C), NEW c \in C, MoveOn(s, p, c)
  PROVE  ptr' \in PtrsOf(C) /\ StackOf(C, stack')
<1>1. p["click"] \in C /\ "end" \in FrameAt
  BY DEF PtrsOf, Pointers, FrameAt
<1>2. EndFrame(p["click"]) \in FramesOf(C) /\ EndFrame(c) \in FramesOf(C)
  BY <1>1, FrameProperties
<1>3. StackOf(C, Append(s, EndFrame(p["click"]))) /\ StackOf(C, Append(s, EndFrame(c))) /\ StackOf(C, s)
  BY <1>2, PushFrame
<1>. QED  BY <1>3 DEF MoveOn

LEMMA EnterFrames ==
  ASSUME NEW C, None \in C, NEW s, RoomOn(C, s), NEW p \in PtrsOf(C), NEW c \in C, EnterOn(s, p, c)
  PROVE  ptr' \in PtrsOf(C) /\ StackOf(C, stack')
<1>1. Frame("entered", c, c) \in FramesOf(C)
  BY FrameProperties DEF FrameAt
<1>2. StackOf(C, Append(s, Frame("entered", c, c)))
  BY <1>1, PushFrame
<1>. QED  BY <1>2, MoveFrames DEF EnterOn

LEMMA LeaveFrames ==
  ASSUME NEW C, None \in C, NEW s, RoomOn(C, s), NEW p \in PtrsOf(C), NEW c \in C, LeaveOn(s, p, c)
  PROVE  ptr' \in PtrsOf(C) /\ StackOf(C, stack')
<1>1. p["hover"] \in C
  BY DEF PtrsOf, Pointers
<1>2. Frame("left", c, p["hover"]) \in FramesOf(C)
  BY <1>1, FrameProperties DEF FrameAt
<1>3. StackOf(C, Append(s, Frame("left", c, p["hover"])))
  BY <1>2, PushFrame
<1>. QED  BY <1>3, EnterFrames DEF LeaveOn

LEMMA TrackedFrames ==
  ASSUME NEW C, None \in C, NEW s, RoomOn(C, s), NEW p \in PtrsOf(C), TrackedOn(s, p)
  PROVE  ptr' \in PtrsOf(C) /\ StackOf(C, stack')
<1>1. EndFrame(None) \in FramesOf(C)
  BY FrameProperties DEF FrameAt
<1>2. StackOf(C, s)
  BY <1>1, PushFrame
<1>. QED  BY <1>2, LeaveFrames DEF TrackedOn

LEMMA TakeFrames ==
  ASSUME NEW C, None \in C, NEW s, RoomOn(C, s), NEW p \in PtrsOf(C), NEW c \in C, TakeOn(s, p, c)
  PROVE  ptr' \in PtrsOf(C) /\ StackOf(C, stack')
<1>1. Frame("took", None, c) \in FramesOf(C)
  BY FrameProperties DEF FrameAt
<1>2. StackOf(C, Append(s, Frame("took", None, c))) /\ StackOf(C, s)
  BY <1>1, PushFrame
<1>3. [p EXCEPT !["focus"] = c] \in PtrsOf(C)
  BY DEF PtrsOf
<1>. QED  BY <1>2, <1>3 DEF TakeOn

LEMMA FocusFrames ==
  ASSUME NEW C, None \in C, NEW s, RoomOn(C, s), ptr \in PtrsOf(C), NEW c \in C, setFocus(s, c)
  PROVE  ptr' \in PtrsOf(C) /\ StackOf(C, stack')
<1>1. ptr["focus"] \in C
  BY DEF PtrsOf, Pointers
<1>2. Frame("killed", c, ptr["focus"]) \in FramesOf(C)
  BY <1>1, FrameProperties DEF FrameAt
<1>3. StackOf(C, Append(s, Frame("killed", c, ptr["focus"])))
  BY <1>2, PushFrame
<1>. QED  BY <1>3, TakeFrames DEF setFocus

LEMMA SetPtr ==
  ASSUME NEW C, ptr \in PtrsOf(C), NEW p \in Pointers, NEW c \in C PROVE Set(p, c) \in PtrsOf(C)
BY DEF Set, PtrsOf

\* Messages that come in.
LEMMA InputFrames ==
  ASSUME NEW C, None \in C, StackInv(C), Found \subseteq C, \A c \in Ctl \ Hidden : deletes[c] = 0 => c \in C,
         MouseMove \/ MouseLeave \/ MouseHover \/ LButtonDown \/ ButtonLate \/ ButtonUp
         \/ Wheel \/ CharOrTimer \/ KeyDown \/ KeyUp \/ NextTab
  PROVE  ptr' \in PtrsOf(C) /\ StackOf(C, stack')
<1>1. NewMessage
  BY DEF MouseMove, MouseLeave, MouseHover, LButtonDown, ButtonLate, ButtonUp, Wheel, CharOrTimer,
         KeyDown, KeyUp, NextTab
<1>2. ptr \in PtrsOf(C) /\ RoomOn(C, stack) /\ \A p \in Pointers : ptr[p] \in C
  BY <1>1, EmptyStack DEF StackInv, PtrsOf, NewMessage
<1>3. \A l \in FrameAt, c, on \in C : StackOf(C, Append(stack, Frame(l, c, on)))
  BY <1>2, FrameProperties, PushFrame
<1>4. \A on \in C : StackOf(C, Append(stack, EndFrame(on)))
  <2>1. "end" \in FrameAt
    BY DEF FrameAt
  <2>. QED  BY <1>3, <2>1 DEF EndFrame
<1>5. StackOf(C, stack)
  BY <1>1, EmptyStack DEF NewMessage
<1>6. CASE MouseMove
  BY <1>2, <1>6, LeaveFrames DEF MouseMove
<1>7. CASE MouseLeave
  <2>1. CASE ptr["hover"] = None
    BY <1>2, <1>7, <2>1, TrackedFrames DEF MouseLeave
  <2>2. CASE stack' = Append(stack, Frame("mouseleft", None, ptr["hover"])) /\ UNCHANGED ptr
    BY <1>2, <1>3, <2>2 DEF FrameAt, Pointers
  <2>. QED  BY <1>7, <2>1, <2>2 DEF MouseLeave
<1>8. CASE MouseHover
  BY <1>2, <1>3, <1>8 DEF MouseHover, FrameAt, Pointers
<1>9. CASE LButtonDown
  BY <1>2, <1>4, <1>9, SetPtr DEF LButtonDown, Pointers
<1>10. CASE ButtonLate
  BY <1>2, <1>3, <1>10 DEF ButtonLate, FrameAt
<1>11. CASE ButtonUp
  BY <1>2, <1>3, <1>11 DEF ButtonUp, FrameAt, Pointers
<1>12. CASE Wheel
  <2>1. PICK c \in C : /\ ptr' = Set("wheel", c)
                       /\ stack' = IF c = None THEN stack ELSE Append(stack, Frame("wheeled", None, c))
    BY <1>2, <1>12 DEF Wheel, Pointers
  <2>2. ptr' \in PtrsOf(C)
    BY <1>2, <2>1, SetPtr DEF Pointers
  <2>3. "wheeled" \in FrameAt
    BY DEF FrameAt
  <2>. QED  BY <1>3, <1>5, <2>1, <2>2, <2>3
<1>13. CASE CharOrTimer
  <2>1. PICK c \in C : stack' = Append(stack, EndFrame(c)) /\ UNCHANGED ptr
    BY <1>2, <1>13 DEF CharOrTimer, Pointers
  <2>. QED  BY <1>2, <1>4, <2>1
<1>14. CASE KeyDown
  BY <1>2, <1>3, <1>14 DEF KeyDown, FrameAt, Pointers
<1>15. CASE KeyUp
  BY <1>2, <1>3, <1>15 DEF KeyUp, FrameAt, Pointers
<1>16. CASE NextTab
  BY <1>2, <1>16, FocusFrames DEF NextTab
<1>. QED
  BY <1>6, <1>7, <1>8, <1>9, <1>10, <1>11, <1>12, <1>13, <1>14, <1>15, <1>16

\* Handlers that return.
LEMMA GoingFrames ==
  ASSUME NEW C, None \in C, StackInv(C), Found \subseteq C,
         Return \/ Left \/ Entered \/ MouseLeft \/ Pressed \/ Released \/ Wheeled \/ Keyed \/ Unkeyed
         \/ Killed \/ Dropped \/ Took \/ Bye
  PROVE  ptr' \in PtrsOf(C) /\ StackOf(C, stack')
<1>1. Running
  BY DEF Return, Left, Entered, MouseLeft, Pressed, Released, Wheeled, Keyed, Unkeyed, Killed, Dropped,
         Took, Bye, Returned
<1>2. /\ ptr \in PtrsOf(C) /\ RoomOn(C, Below) /\ StackOf(C, Below)
      /\ Top.ctl \in C /\ Top.on \in C /\ \A p \in Pointers : ptr[p] \in C
  <2>1. StackOf(C, stack) /\ stack # <<>>
    BY <1>1 DEF StackInv, Running
  <2>2. RoomOn(C, Below) /\ StackOf(C, Below) /\ Top \in FramesOf(C)
    BY <2>1, PopFrame
  <2>. QED  BY <2>2, FrameFields DEF StackInv, PtrsOf
<1>3. \A l \in FrameAt, c, on \in C : StackOf(C, Append(Below, Frame(l, c, on)))
  BY <1>2, FrameProperties, PushFrame
<1>4. \A p \in Pointers, c \in C : Set(p, c) \in PtrsOf(C)
  BY <1>2, SetPtr
<1>5. {"hover", "click", "key", "focus"} \subseteq Pointers /\ {"dropped", "end", "released"} \subseteq FrameAt
  BY DEF Pointers, FrameAt
<1>6. CASE Return
  BY <1>2, <1>6 DEF Return
<1>7. CASE Left
  BY <1>2, <1>4, <1>5, <1>7, EnterFrames DEF Left
<1>8. CASE Entered
  BY <1>2, <1>4, <1>5, <1>8, MoveFrames DEF Entered
<1>9. CASE MouseLeft
  BY <1>2, <1>4, <1>5, <1>9, TrackedFrames DEF MouseLeft
<1>10. CASE Pressed \/ Released \/ Keyed \/ Unkeyed
  <2>1. stack' = Below /\ \E p \in Pointers, c \in C : ptr' = Set(p, c)
    BY <1>2, <1>5, <1>10 DEF Pressed, Released, Keyed, Unkeyed
  <2>. QED  BY <1>2, <1>4, <2>1
<1>11. CASE Wheeled
  BY <1>2, <1>11, LeaveFrames DEF Wheeled
<1>12. CASE Killed
  BY <1>2, <1>3, <1>5, <1>12 DEF Killed
<1>13. CASE Dropped
  BY <1>2, <1>4, <1>5, <1>13, TakeFrames DEF Dropped
<1>14. CASE Took
  BY <1>2, <1>3, <1>5, <1>14 DEF Took, EndFrame
<1>15. CASE Bye
  <2>1. StackOf(C, <<>>) /\ RoomOn(C, <<>>)
    BY EmptyStack
  <2>2. StackOf(C, Append(<<>>, Frame("released", None, ptr["click"])))
    BY <1>2, <1>5, <2>1, FrameProperties, PushFrame
  <2>3. Append(<<>>, Frame("released", None, ptr["click"])) = <<Frame("released", None, ptr["click"])>>
    OBVIOUS
  <2>. QED  BY <1>2, <1>15, <2>1, <2>2, <2>3 DEF Bye, UnclickOn
<1>. QED
  BY <1>6, <1>7, <1>8, <1>9, <1>10, <1>11, <1>12, <1>13, <1>14, <1>15

\* A handler that moves the focus.
LEMMA HandlerFrames ==
  ASSUME NEW C, None \in C, StackInv(C), Found \subseteq C, FocusInHandler
  PROVE  ptr' \in PtrsOf(C) /\ StackOf(C, stack')
<1> DEFINE n == Len(stack)
           s == [stack EXCEPT ![n].fresh = FALSE]
           f == [stack[n] EXCEPT !.fresh = FALSE]
<1>1. StackOf(C, stack) /\ stack # <<>> /\ n < MaxDepth /\ ptr \in PtrsOf(C)
  BY DEF FocusInHandler, StackInv, Running
<1>2. stack \in Seq(FramesOf(C)) /\ n \in 1..n
  BY <1>1, EmptySeq, LenProperties DEF StackOf
<1>3. stack[n] \in FramesOf(C)
  BY <1>2, ElementOfSeq
<1>4. f \in FramesOf(C)
  BY <1>3 DEF FramesOf
<1>5. s = [stack EXCEPT ![n] = f]
  OBVIOUS
<1>. HIDE DEF f
<1>6. s \in Seq(FramesOf(C)) /\ Len(s) = n
  <2>1. n \in 1..Len(stack) /\ Len(stack) = n
    BY <1>2
  <2>. HIDE DEF n, s
  <2>2. [stack EXCEPT ![n] = f] \in Seq(FramesOf(C)) /\ Len([stack EXCEPT ![n] = f]) = Len(stack)
    BY <1>2, <1>4, <2>1, ExceptSeq
  <2>. QED  BY <1>5, <2>1, <2>2
<1>7. RoomOn(C, s)
  BY <1>1, <1>6 DEF RoomOn
<1>8. PICK c \in C : setFocus(s, c)
  BY DEF FocusInHandler
<1>. HIDE DEF s
<1>. QED  BY <1>1, <1>7, <1>8, FocusFrames

LEMMA HandlingFrames ==
  ASSUME NEW C, None \in C, StackInv(C), Found \subseteq C, \A c \in Ctl \ Hidden : deletes[c] = 0 => c \in C,
         Handling
  PROVE  ptr' \in PtrsOf(C) /\ StackOf(C, stack')
BY InputFrames, GoingFrames, HandlerFrames DEF Handling

LEMMA WithoutPtrs ==
  ASSUME NEW C, None \in C, ptr \in PtrsOf(C), NEW X
  PROVE  Without(X) \in PtrsOf(C) /\ \A p \in Pointers : Without(X)[p] \notin X \/ Without(X)[p] = None
BY DEF Without, PtrsOf

\* Everything but the deletion of controls.
LEMMA FramesKept ==
  ASSUME PlaceInv, NEW C, None \in C, StackInv(C), Found \subseteq C,
         \A c \in Ctl \ Hidden : deletes[c] = 0 => c \in C,
         Handling \/ Close \/ AttachDialog \/ removeAll \/ UNCHANGED vars
  PROVE  ptr' \in PtrsOf(C) /\ StackOf(C, stack')
<1>1. ptr \in PtrsOf(C) /\ StackOf(C, stack)
  BY DEF StackInv
<1>2. CASE Handling
  BY <1>2, HandlingFrames
<1>3. CASE Close
  <2>1. UNCHANGED ptr /\ ptr["hover"] \in C /\ ptr["click"] \in C
    BY <1>1, <1>3 DEF Close, PtrsOf, Pointers
  <2>2. StackOf(C, <<>>) /\ RoomOn(C, <<>>) /\ {"released", "bye"} \subseteq FrameAt
    BY EmptyStack DEF FrameAt
  <2>3. \A l \in {"released", "bye"}, c \in C : StackOf(C, Append(<<>>, Frame(l, None, c)))
    BY <2>2, FrameProperties, PushFrame
  <2>4. \A f : Append(<<>>, f) = <<f>>
    OBVIOUS
  <2>5. stack' \in {<<>>, <<Frame("released", None, ptr["click"])>>, <<Frame("bye", None, ptr["hover"])>>}
    BY <1>3 DEF Close, UnclickOn
  <2>. QED  BY <1>1, <2>1, <2>2, <2>3, <2>4, <2>5
<1>4. CASE AttachDialog
  <2>1. UNCHANGED stack /\ ptr' = [p \in Pointers |-> IF p = "focus" /\ ptr[p] \notin attached THEN ptr[p] ELSE None]
    BY <1>4 DEF AttachDialog
  <2>. QED  BY <1>1, <2>1 DEF PtrsOf
<1>5. CASE removeAll
  <2>1. UNCHANGED stack /\ \E X : ptr' = Without(X)
    BY <1>5 DEF removeAll, addDelayedCleanup
  <2>. QED  BY <1>1, <2>1, WithoutPtrs
<1>6. CASE UNCHANGED vars
  BY <1>1, <1>6 DEF vars
<1>. QED  BY <1>2, <1>3, <1>4, <1>5, <1>6

\* The deletion of controls.
Deleting == Cleanup \/ Destroy \/ (\E c \in Ctl : remove(c))

LEMMA DeletingFrames ==
  ASSUME PlaceInv, NEW C, None \in C, StackInv(C), Deleting
  PROVE  /\ UNCHANGED stack /\ ptr' \in PtrsOf(C)
         /\ \E X : /\ deletes' = [c \in Ctl |-> IF c \in X THEN deletes[c] + 1 ELSE deletes[c]]
                   /\ ptr' = Without(X)
<1>1. ASSUME NEW extra \in SUBSET InTree, DeleteAll(extra)
      PROVE  /\ ptr' \in PtrsOf(C)
             /\ \E X : /\ deletes' = [c \in Ctl |-> IF c \in X THEN deletes[c] + 1 ELSE deletes[c]]
                       /\ ptr' = Without(X)
  <2>1. /\ deletes' = [c \in Ctl |-> IF c \in Doomed(extra) THEN deletes[c] + 1 ELSE deletes[c]]
        /\ ptr' = Without(Doomed(extra))
    BY <1>1, DeleteAllProperties
  <2>2. PICK X : X = Doomed(extra)
    OBVIOUS
  <2>3. Without(X) \in PtrsOf(C)
    BY WithoutPtrs DEF StackInv
  <2>4. Without(Doomed(extra)) = Without(X)
    BY <2>2 DEF Without
  <2>. QED  BY <2>1, <2>2, <2>3, <2>4
<1>2. CASE Cleanup
  <2>1. DeleteAll({}) /\ UNCHANGED stack /\ {} \in SUBSET InTree
    BY <1>2 DEF Cleanup
  <2>. QED  BY <1>1, <2>1
<1>3. CASE Destroy
  <2>1. DeleteAll(attached) /\ attached \in SUBSET InTree /\ UNCHANGED stack
    BY <1>3 DEF Destroy, InTree
  <2>. QED  BY <1>1, <2>1
<1>4. ASSUME NEW c \in Ctl, remove(c)
      PROVE  /\ UNCHANGED stack /\ ptr' \in PtrsOf(C)
             /\ \E X : /\ deletes' = [d \in Ctl |-> IF d \in X THEN deletes[d] + 1 ELSE deletes[d]]
                       /\ ptr' = Without(X)
  <2>1. DeleteAll({c}) /\ {c} \in SUBSET InTree /\ UNCHANGED stack
    BY <1>4 DEF remove, InTree
  <2>. QED  BY <1>1, <2>1
<1>. QED  BY <1>2, <1>3, <1>4 DEF Deleting

LEMMA NextFrames ==
  Next => Handling \/ Close \/ AttachDialog \/ removeAll \/ Deleting
BY NextParts DEF Deleting

\* Whatever the program does, the messages under way have controls in their
\* hands, or nothing.
All == Ctl \cup {None}

LEMMA FramesStep == PlaceInv /\ StackInv(All) /\ [Next]_vars => StackInv(All)'
<1>. SUFFICES ASSUME PlaceInv, StackInv(All), [Next]_vars PROVE ptr' \in PtrsOf(All) /\ StackOf(All, stack')
  BY DEF StackInv, PtrsOf, Pointers, StackOf, FramesOf, FrameAt, All
<1>1. None \in All /\ Found \subseteq All /\ \A c \in Ctl \ Hidden : deletes[c] = 0 => c \in All
  BY Subsets DEF All, Found, PlaceInv, Trees
<1>. HIDE DEF All
<1>2. CASE Deleting
  BY <1>1, <1>2, DeletingFrames DEF StackInv
<1>3. CASE ~Deleting
  BY <1>1, <1>3, NextFrames, FramesKept
<1>. QED  BY <1>2, <1>3

LEMMA InitFrames == \A C : Init /\ None \in C => StackInv(C)
BY EmptyStack DEF Init, StackInv, PtrsOf
-----------------------------------------------------------------------------
(* Nothing that is deleted is used.                                        *)

LEMMA AliveStep ==
  ASSUME Hasty = {}, PlaceInv, StackInv(Live), [Next]_vars PROVE StackInv(Live)'
<1>1. PICK C : C = Live
  OBVIOUS
<1>2. /\ None \in C /\ StackInv(C) /\ Found \subseteq C /\ \A c \in Ctl \ Hidden : deletes[c] = 0 => c \in C
  <2>1. None \in C /\ \A c \in Ctl \ Hidden : deletes[c] = 0 => c \in C
    BY <1>1, Subsets DEF Live
  <2>2. Found \subseteq C
    BY <1>1 DEF Found, Live, PlaceInv, Trees, Places, InTree
  <2>3. StackInv(C)
    BY <1>1 DEF StackInv, StackOf, PtrsOf, FramesOf
  <2>. QED  BY <2>1, <2>2, <2>3
<1>3. CASE ~Deleting
  <2>1. UNCHANGED deletes
    BY <1>3, NextFrames, HandlingQuiet DEF Quiet, tree, Close, AttachDialog, removeAll, vars
  <2>2. Live' = C
    BY <1>1, <2>1 DEF Live
  <2>3. ptr' \in PtrsOf(C) /\ StackOf(C, stack')
    BY <1>2, <1>3, NextFrames, FramesKept
  <2>. QED  BY <2>2, <2>3 DEF StackInv, StackOf, PtrsOf, FramesOf
<1>4. CASE Deleting
  <2>1. stack = <<>> /\ UNCHANGED stack
    BY <1>2, <1>4, DeletingFrames DEF Deleting, Cleanup, Destroy, remove, Code, NewMessage
  <2>2. PICK X : /\ deletes' = [c \in Ctl |-> IF c \in X THEN deletes[c] + 1 ELSE deletes[c]]
                 /\ ptr' = Without(X) /\ ptr' \in PtrsOf(C)
    BY <1>2, <1>4, DeletingFrames
  <2>3. ptr \in PtrsOf(C)
    BY <1>2 DEF StackInv
  <2>4. \A p \in Pointers : ptr'[p] \in Live'
    <3>1. TAKE p \in Pointers
    <3>2. ptr'[p] \in C /\ (ptr'[p] \notin X \/ ptr'[p] = None)
      BY <1>2, <2>2, <2>3, WithoutPtrs DEF PtrsOf
    <3>3. ptr'[p] \in Ctl \cup {None} /\ (ptr'[p] \in Ctl => deletes[ptr'[p]] = 0)
      BY <1>1, <3>2 DEF Live
    <3>4. ptr'[p] \in Ctl => deletes'[ptr'[p]] = 0
      BY <2>2, <3>2, <3>3, Subsets
    <3>. QED  BY <3>3, <3>4 DEF Live
  <2>5. ptr' \in [Pointers -> Live']
    BY <2>2, <2>4 DEF PtrsOf
  <2>6. PICK D : D = Live'
    OBVIOUS
  <2>7. ptr' \in PtrsOf(D) /\ StackOf(D, stack')
    BY <2>1, <2>5, <2>6, EmptyStack DEF PtrsOf
  <2>. QED  BY <2>6, <2>7 DEF StackInv, StackOf, PtrsOf, FramesOf
<1>. QED  BY <1>3, <1>4

LEMMA InitAlive == Init => StackInv(Live)
<1>. SUFFICES ASSUME Init PROVE StackInv(Live)
  OBVIOUS
<1>1. PICK C : C = Live
  OBVIOUS
<1>2. None \in C
  BY <1>1, Subsets DEF Live
<1>3. StackInv(C)
  BY <1>2, InitFrames
<1>. QED  BY <1>1, <1>3 DEF StackInv, StackOf, PtrsOf, FramesOf

\* When event handlers take controls out with removeAll or attachDialog only, a
\* control is not deleted while one of its handlers runs or a message has it in a
\* local variable; and focus, hover, click, key and wheel never are a deleted one
\* (UC/drawManager.cpp:282, 789, 2020).  Without that premise it is false: remove
\* deletes such a control at once (UC/wucContainer.cpp:575).
THEOREM NothingDeletedIsUsed ==
  ASSUME Hasty = {} PROVE Spec => []UsedAreAlive
<1>1. Init => PlaceInv /\ StackInv(Live)
  BY InitPlaces, InitAlive
<1>2. PlaceInv /\ StackInv(Live) /\ [Next]_vars => PlaceInv' /\ StackInv(Live)'
  BY PlacesStep, AliveStep
<1>3. ASSUME PlaceInv, StackInv(Live) PROVE UsedAreAlive
  <2>1. \A p \in Pointers : \A c \in {ptr[p]} \cap Ctl : deletes[c] = 0
    BY <1>3 DEF StackInv, PtrsOf, Live
  <2>2. ASSUME NEW i \in DOMAIN stack PROVE \A c \in {stack[i].ctl, stack[i].on} \cap Ctl : deletes[c] = 0
    <3>1. PICK C : C = Live
      OBVIOUS
    <3>2. stack \in Seq(FramesOf(C))
      BY <1>3, <3>1 DEF StackInv, StackOf
    <3>3. stack[i] \in FramesOf(C)
      BY <3>2, ElementOfSeq, LenProperties
    <3>4. stack[i].ctl \in C /\ stack[i].on \in C
      BY <3>3, FrameFields
    <3>. QED  BY <3>1, <3>4 DEF Live
  <2>. QED  BY <2>1, <2>2 DEF UsedAreAlive, ToSet
<1>. QED  BY <1>1, <1>2, <1>3, PTL DEF Spec
-----------------------------------------------------------------------------
(* The end of the window, and what waits for WM_APP+1.                     *)

\* Code runs in a window that is not gone.
LEMMA CodeOpen == WindowInv /\ Code => window \in {"open", "closed"}
BY DEF WindowInv, Code, NewMessage, Running

LEMMA HandlingRuns == Handling => Code
BY DEF Handling, MouseMove, MouseLeave, MouseHover, LButtonDown, ButtonLate, ButtonUp, Wheel, CharOrTimer,
       KeyDown, KeyUp, NextTab, FocusInHandler, Return, Left, Entered, MouseLeft, Pressed, Released, Wheeled,
       Keyed, Unkeyed, Killed, Dropped, Took, Bye, Returned, Code

LEMMA WindowStep ==
  ASSUME PlaceInv, StackInv(All), WindowInv, [Next]_vars PROVE WindowInv'
<1> DEFINE Waits == \E c \in Ctl : c \in ToSet(cleanup)
<1>1. posted \in 0..MaxPosted /\ posted \in Nat /\ MaxPosted \in Nat \ {0} /\ (Waits => posted > 0)
  BY Subsets DEF WindowInv
<1>2. ASSUME window \in {"open", "closed"}, window' = window, posted' \in 0..MaxPosted, Waits' => posted' > 0
      PROVE  WindowInv'
  BY <1>2 DEF WindowInv
<1>3. CASE Handling
  <2>1. window \in {"open", "closed"} /\ UNCHANGED <<window, posted, cleanup>>
    BY <1>3, HandlingRuns, HandlingQuiet, CodeOpen DEF Quiet, tree
  <2>. QED  BY <1>1, <1>2, <2>1
<1>4. CASE Close
  BY <1>1, <1>4 DEF Close, tree, WindowInv
<1>5. CASE AttachDialog
  <2>1. window \in {"open", "closed"} /\ UNCHANGED <<window, posted>>
    BY <1>5, CodeOpen DEF AttachDialog
  <2>2. ToSet(cleanup') = ToSet(cleanup) \cup {Root}
    BY <1>5, PlacesAttach
  <2>3. Waits' => Waits
    BY <2>2, Subsets
  <2>. QED  BY <1>1, <1>2, <2>1, <2>3
<1>6. CASE Cleanup
  <2>1. posted > 0 /\ posted' = posted - 1 /\ window \in {"open", "closed"} /\ UNCHANGED window
    BY <1>6 DEF Cleanup, NewMessage
  <2>2. cleanup' = <<>>
    BY <1>6 DEF Cleanup, DeleteAll
  <2>3. posted' \in 0..MaxPosted
    BY <1>1, <2>1
  <2>. QED  BY <1>2, <2>1, <2>2, <2>3 DEF ToSet
<1>7. CASE Destroy
  <2>1. DeleteAll(attached) /\ attached \in SUBSET InTree /\ attached' = {} /\ stack' = <<>>
        /\ window' = "gone" /\ UNCHANGED posted
    BY <1>7 DEF Destroy, InTree, NewMessage
  <2>2. detached' = {} /\ cleanup' = <<>>
    BY <2>1, DeleteAllProperties
  <2>. QED  BY <1>1, <2>1, <2>2 DEF WindowInv, ToSet
<1>8. ASSUME NEW c \in Ctl, remove(c) PROVE WindowInv'
  <2>1. window \in {"open", "closed"} /\ UNCHANGED <<window, posted>>
    BY <1>8, CodeOpen DEF remove
  <2>2. cleanup' = <<>> \/ UNCHANGED cleanup
    BY <1>8 DEF remove, DeleteAll
  <2>3. Waits' => Waits
    BY <2>2 DEF ToSet
  <2>. QED  BY <1>1, <1>2, <2>1, <2>3
<1>9. CASE removeAll
  <2>1. window \in {"open", "closed"} /\ UNCHANGED window /\ posted < MaxPosted /\ posted' = posted + 1
    BY <1>9, CodeOpen DEF removeAll, Post
  <2>2. posted' \in 0..MaxPosted /\ posted' > 0
    BY <1>1, <2>1
  <2>. QED  BY <1>2, <2>1, <2>2
<1>10. CASE UNCHANGED vars
  BY <1>10 DEF vars, WindowInv
<1>. QED
  BY <1>3, <1>4, <1>5, <1>6, <1>7, <1>8, <1>9, <1>10, NextParts

LEMMA InitWindow == Init => WindowInv
<1>. SUFFICES ASSUME Init PROVE WindowInv
  OBVIOUS
<1>1. 0 \in 0..MaxPosted /\ ToSet(<<>>) = {}
  BY Subsets DEF ToSet
<1>. QED  BY <1>1 DEF Init, WindowInv

LEMMA WindowInvariant == Spec => [](PlaceInv /\ StackInv(All) /\ WindowInv)
<1>1. Init => PlaceInv /\ StackInv(All) /\ WindowInv
  BY InitPlaces, InitFrames, InitWindow DEF All
<1>2. PlaceInv /\ StackInv(All) /\ WindowInv /\ [Next]_vars => PlaceInv' /\ StackInv(All)' /\ WindowInv'
  BY PlacesStep, FramesStep, WindowStep
<1>. QED  BY <1>1, <1>2, PTL DEF Spec

\* A control is in one place: in a tree, once in m_vecDelayedCleanup, or deleted,
\* once, however WM_APP+1, remove, removeAll, attachDialog and the destructor take
\* turns; what removeAll put off has a WM_APP+1 on its way; and nothing is left
\* when the drawManager is gone (UC/wucContainer.cpp:575, 643, UC/drawManager.cpp:1217).
THEOREM OneOwner == Spec => []OnePlace
<1>1. ASSUME PlaceInv, WindowInv PROVE OnePlace
  <2>1. Once(cleanup) /\ attached \cap detached = {}
    BY <1>1 DEF PlaceInv, Vector, Trees
  <2>2. SUFFICES ASSUME NEW c \in Ctl
                 PROVE  /\ Held(c) + deletes[c] = 1
                        /\ c \in ToSet(cleanup) => posted > 0
                        /\ window = "gone" => deletes[c] = 1
    BY DEF OnePlace
  <2>3. Held(c) = IF c \in InTree
                  THEN IF c \in ToSet(cleanup) THEN 2 ELSE 1
                  ELSE IF c \in ToSet(cleanup) THEN 1 ELSE 0
    <3>1. Times(c, cleanup) = IF c \in ToSet(cleanup) THEN 1 ELSE 0
      BY <2>1, TimesOnce
    <3>2. (IF c \in attached THEN 1 ELSE 0) + (IF c \in detached THEN 1 ELSE 0) = IF c \in InTree THEN 1 ELSE 0
      BY <2>1 DEF InTree
    <3>. QED  BY <3>1, <3>2 DEF Held
  <2>4. window = "gone" => InTree = {} /\ ToSet(cleanup) = {}
    BY <1>1 DEF WindowInv, InTree, ToSet
  <2>. QED  BY <1>1, <2>3, <2>4 DEF PlaceInv, Places, WindowInv
<1>. QED  BY <1>1, WindowInvariant, PTL
-----------------------------------------------------------------------------
(* The types.                                                              *)

LEMMA TypesFollow ==
  ASSUME PlaceInv, StackInv(All), WindowInv PROVE TypeOK
<1>1. attached \subseteq Ctl /\ detached \subseteq Ctl
  BY DEF PlaceInv, Trees
<1>2. deletes \in [Ctl -> 0..2]
  <2>1. \A c \in Ctl : deletes[c] \in {0, 1}
    BY DEF PlaceInv, Places
  <2>. QED  BY <2>1 DEF PlaceInv
<1>3. ptr \in [Pointers -> Ctl \cup {None}]
  BY DEF StackInv, PtrsOf, All
<1>4. cleanup \in Seq(Ctl \cup {Root})
  BY DEF PlaceInv, Vector
<1>5. stack \in Seq(FrameType) /\ Len(stack) <= MaxDepth
  <2>1. FramesOf(All) \subseteq FrameType
    BY DEF FramesOf, FrameAt, FrameType, All
  <2>. QED  BY <2>1, SeqMonotonic DEF StackInv, StackOf
<1>. QED
  BY <1>1, <1>2, <1>3, <1>4, <1>5 DEF TypeOK, WindowInv

\* Every variable has its type: no control is deleted twice, and the messages
\* inside each other and in the queue stay within their bounds.
THEOREM TypeCorrect == Spec => []TypeOK
BY WindowInvariant, TypesFollow, PTL
-----------------------------------------------------------------------------
(* DelayedFree: the controls that a thread frees.                          *)

VARIABLES items, vec, seen, msg, op, handles, switch, event, worker, next, earlier, met

DF == INSTANCE DelayedFree

\* Where the thread is when its iterator is not at work.
Resting == {"test", "again", "loop", "wait", "woken", "sleep", "ended"}

\* The controls that remove or removeAll has handed over are still in m_items, and
\* so are those that it has yet to hand over.
CallInv ==
  /\ op.taken \subseteq items /\ op.left \subseteq items \ op.taken
  /\ op.at \in {"find", "push", "store"} => op.ctl \in items \ op.taken /\ op.ctl \notin op.left
  /\ op.at \in {"none", "off", "last", "join"} => op.taken = {}

\* When push_back finds the vector changed, clear() has emptied it, and the thread
\* does not come back to it before the message is handled.
StoreInv ==
  op.at = "store" /\ seen # vec
    => vec = <<>> /\ next = 1 /\ worker \in Resting /\ (worker = "sleep" => earlier)

\* The event that wakes the thread is set when there is something to wake it for.
WaitInv ==
  /\ ~handles => worker = "ended"
  /\ worker \in {"test", "again", "loop", "wait"} /\ ~event => vec = <<>> \/ op.at = "signal"
  /\ op.at \in {"last", "join"} => switch = 0
  /\ op.at = "join" /\ worker = "wait" => event

\* As long as push_back and the thread have not met in the vector.
MeetInv ==
  /\ DF!Overlap \/ worker = "astray" => met
  /\ ~met => /\ op.at = "store" => seen = vec
             /\ worker = "clear" => next = Len(vec) + 1
             /\ \A i \in 1..next - 1 : deletes[vec[i]] = 1

LEMMA DFInit == DF!Init => DF!TypeOK /\ CallInv /\ StoreInv /\ WaitInv /\ MeetInv /\ DF!FreedOnce
<1>. SUFFICES ASSUME DF!Init PROVE DF!TypeOK /\ CallInv /\ StoreInv /\ WaitInv /\ MeetInv /\ DF!FreedOnce
  OBVIOUS
<1>1. /\ op = [at |-> "none", ctl |-> None, left |-> {}, taken |-> {}]
      /\ msg = [at |-> "idle", on |-> None, own |-> FALSE]
      /\ items = Ctl /\ vec = <<>> /\ deletes = [c \in Ctl |-> 0] /\ seen = <<>>
      /\ window = "open" /\ handles = TRUE /\ switch = 1 /\ event = FALSE
      /\ worker = "loop" /\ next = 1 /\ earlier = FALSE /\ met = FALSE
  BY DEF DF!Init, DF!Done, DF!Nothing
<1>2. <<>> \in Seq(Ctl) /\ Len(<<>>) = 0 /\ 1 \in 1..Len(<<>>) + 1
  BY EmptySeq
<1>3. DF!TypeOK
  BY <1>1, <1>2 DEF DF!TypeOK
<1>4. CallInv /\ StoreInv /\ WaitInv /\ MeetInv
  BY <1>1, <1>2 DEF CallInv, StoreInv, WaitInv, MeetInv, DF!Overlap
<1>5. DF!FreedOnce
  BY <1>1, <1>2 DEF DF!FreedOnce, DF!Waits
<1>. QED  BY <1>3, <1>4, <1>5

\* The calls of the window's thread other than the end of push_back leave the vector
\* and the thread that frees alone.
DFCalls == DF!Message \/ DF!Return \/ DF!DeleteTree \/ DF!remove \/ DF!removeAll \/ DF!Find \/ DF!PushBegin
             \/ DF!Signal \/ DF!Erase \/ DF!Ends

LEMMA DFParts == DF!Next => DFCalls \/ DF!PushEnd \/ DF!Worker
BY DEF DF!Next, DFCalls, DF!Calls

LEMMA DFCallsQuiet == DFCalls => UNCHANGED <<vec, worker, next>>
BY DEF DFCalls, DF!Message, DF!Return, DF!DeleteTree, DF!remove, DF!removeAll, DF!Take, DF!Find, DF!PushBegin,
       DF!Signal, DF!Erase, DF!Ends, DF!Close, DF!Destroy, DF!SwitchOff, DF!LastSignal, DF!Join,
       DF!DeleteItems, DF!container, DF!freeing

LEMMA DFWorkerQuiet == DF!Worker => UNCHANGED <<items, seen, msg, op, window, handles, switch>>
BY DEF DF!Worker, DF!WorkerLoop, DF!WorkerWake, DF!WorkerWoken, DF!WorkerSlept, DF!WorkerFree, DF!WorkerFreed,
       DF!WorkerClear, DF!WorkerTest, DF!WorkerAgain, DF!Thread, DF!shutting

LEMMA DFCallTypes ==
  ASSUME DF!TypeOK, CallInv, StoreInv, DFCalls,
         earlier' \in BOOLEAN, met' \in BOOLEAN
  PROVE  DF!TypeOK' /\ CallInv'
<1>1. UNCHANGED <<vec, worker, next>>
  BY DFCallsQuiet
<1>2. CASE DF!Message
  BY <1>1, <1>2 DEF DF!TypeOK, CallInv, DF!Message, DF!container, DF!shutting
<1>3. CASE DF!Return
  BY <1>1, <1>3 DEF DF!TypeOK, CallInv, DF!Return, DF!container, DF!shutting, DF!Nothing
<1>4. CASE DF!DeleteTree
  <2>1. op.taken = {} /\ op.left = {} /\ op.at = "none"
    BY <1>4 DEF DF!DeleteTree, DF!InHandler, DF!Between, DF!Done
  <2>. QED  BY <1>1, <1>4, <2>1 DEF DF!TypeOK, CallInv, DF!DeleteTree, DF!DeleteItems, DF!shutting
<1>5. ASSUME NEW C \in SUBSET items, NEW c \in C, DF!Take(c, C) PROVE DF!TypeOK' /\ CallInv'
  BY <1>1, <1>5 DEF DF!TypeOK, CallInv, DF!Take, DF!container, DF!shutting
<1>6. CASE DF!Find
  <2>1. op.at = "find" /\ UNCHANGED <<items, vec, deletes, seen, msg, window, handles, switch, event>>
    BY <1>6 DEF DF!Find, DF!container, DF!shutting
  <2>2. CASE DF!HandedOver
    BY <1>1, <2>1, <2>2 DEF DF!TypeOK, CallInv, DF!HandedOver
  <2>3. CASE op' = [op EXCEPT !.at = "push"]
    BY <1>1, <2>1, <2>3 DEF DF!TypeOK, CallInv
  <2>. QED  BY <1>6, <2>2, <2>3 DEF DF!Find
<1>7. CASE DF!PushBegin
  BY <1>1, <1>7 DEF DF!TypeOK, CallInv, DF!PushBegin, DF!shutting
<1>8. CASE DF!Signal
  <2>1. op.at = "signal" /\ event' \in BOOLEAN
        /\ UNCHANGED <<items, vec, deletes, seen, msg, window, handles, switch>>
    BY <1>8 DEF DF!Signal, DF!Wake, DF!container, DF!shutting
  <2>2. CASE op' = [op EXCEPT !.at = "erase"]
    <3>1. op' \in [at : {"erase"}, ctl : Ctl \cup {None}, left : SUBSET Ctl, taken : SUBSET Ctl]
          /\ op'.at = "erase" /\ op'.taken = op.taken /\ op'.left = op.left
      BY <2>2 DEF DF!TypeOK
    <3>. QED  BY <1>1, <2>1, <3>1 DEF DF!TypeOK, CallInv
  <2>3. ASSUME NEW c \in op.left, op' = [at |-> "find", ctl |-> c, left |-> op.left \ {c}, taken |-> op.taken]
        PROVE  DF!TypeOK' /\ CallInv'
    BY <1>1, <2>1, <2>3 DEF DF!TypeOK, CallInv
  <2>. QED  BY <1>8, <2>2, <2>3 DEF DF!Signal
<1>9. CASE DF!Erase
  BY <1>1, <1>9 DEF DF!TypeOK, CallInv, DF!Erase, DF!shutting, DF!Done
<1>10. CASE DF!Ends
  <2>1. \E l \in {"none", "off", "last", "join"} : op' = [at |-> l, ctl |-> None, left |-> {}, taken |-> {}]
    BY <1>10 DEF DF!Ends, DF!Close, DF!Destroy, DF!SwitchOff, DF!LastSignal, DF!Join, DF!Done, DF!At
  <2>2. /\ items' \subseteq Ctl /\ deletes' \in [Ctl -> Nat] /\ UNCHANGED <<seen, msg>>
        /\ window' \in {"open", "closed", "dying", "gone"}
        /\ handles' \in BOOLEAN /\ switch' \in {0, 1} /\ event' \in BOOLEAN
    <3>1. CASE DF!Close \/ DF!SwitchOff \/ DF!Join
      BY <3>1 DEF DF!TypeOK, DF!Close, DF!SwitchOff, DF!Join, DF!container
    <3>2. CASE DF!Destroy
      BY <3>2 DEF DF!TypeOK, DF!Destroy, DF!DeleteItems
    <3>3. CASE DF!LastSignal
      <4>1. event' \in BOOLEAN
        BY <3>3 DEF DF!LastSignal, DF!Wake
      <4>. QED  BY <3>3, <4>1 DEF DF!TypeOK, DF!LastSignal, DF!container, DF!shutting
    <3>. QED  BY <1>10, <3>1, <3>2, <3>3 DEF DF!Ends
  <2>. QED  BY <1>1, <2>1, <2>2 DEF DF!TypeOK, CallInv
<1>. QED
  BY <1>2, <1>3, <1>4, <1>5, <1>6, <1>7, <1>8, <1>9, <1>10 DEF DFCalls, DF!remove, DF!removeAll

LEMMA DFStored ==
  ASSUME vec \in Seq(Ctl), seen \in Seq(Ctl), NEW c \in Ctl, seen # vec => vec = <<>>,
         NEW w, w \in DF!Stored(vec, c)
  PROVE  w \in Seq(Ctl) /\ Len(w) >= Len(vec) /\ w # <<>> /\ (seen = vec => w = Append(vec, c))
<1>1. /\ Append(vec, c) \in Seq(Ctl) /\ Len(Append(vec, c)) = Len(vec) + 1 /\ Len(vec) \in Nat
      /\ Append(seen, c) \in Seq(Ctl) /\ Len(Append(seen, c)) = Len(seen) + 1 /\ Len(seen) \in Nat
  BY AppendProperties, LenProperties
<1>2. CASE seen = vec
  BY <1>1, <1>2, EmptySeq DEF DF!Stored
<1>3. CASE seen # vec
  <2>1. Len(vec) = 0
    BY <1>3, EmptySeq
  <2>2. CASE w = SubSeq(Append(seen, c), 1, Len(vec) + 1)
    <3> DEFINE s == Append(seen, c)
    <3>1. Len(vec) + 1 = 1 /\ \A i \in 1..1 : s[i] \in Ctl
      BY <1>1, <2>1, ElementOfSeq
    <3>. HIDE DEF s
    <3>2. SubSeq(s, 1, 1) \in Seq(Ctl) /\ Len(SubSeq(s, 1, 1)) = 1
      BY <3>1, SubSeqProperties
    <3>. QED  BY <1>3, <2>1, <2>2, <3>1, <3>2, EmptySeq DEF s
  <2>3. CASE w \in {Append(seen, c), Append(vec, c)}
    <3>1. w \in Seq(Ctl) /\ Len(w) >= 1
      BY <1>1, <2>3
    <3>. QED  BY <1>3, <2>1, <3>1, EmptySeq
  <2>. QED  BY <1>3, <2>2, <2>3 DEF DF!Stored
<1>. QED  BY <1>2, <1>3

LEMMA DFPushTypes ==
  ASSUME DF!TypeOK, CallInv, StoreInv, DF!PushEnd, earlier' \in BOOLEAN, met' \in BOOLEAN
  PROVE  DF!TypeOK' /\ CallInv'
<1>1. /\ op.at = "store" /\ op.ctl \in items /\ op.ctl \in Ctl
      /\ op' = [at |-> "signal", ctl |-> op.ctl, left |-> op.left, taken |-> op.taken \cup {op.ctl}]
      /\ UNCHANGED <<items, deletes, seen, msg, window, handles, switch, event, next>>
      /\ worker' = worker \/ (worker = "free" /\ worker' = "astray")
      /\ vec' \in DF!Stored(vec, op.ctl)
  BY DEF DF!TypeOK, CallInv, DF!PushEnd, DF!HandedOver, DF!shutting
<1>2. vec' \in Seq(Ctl) /\ Len(vec') >= Len(vec) /\ Len(vec') \in Nat /\ Len(vec) \in Nat
  <2>1. PICK w : w = vec'
    OBVIOUS
  <2>2. w \in Seq(Ctl) /\ Len(w) >= Len(vec)
    BY <1>1, <2>1, DFStored DEF DF!TypeOK, StoreInv
  <2>. QED  BY <2>1, <2>2, LenProperties DEF DF!TypeOK
<1>3. next' \in 1..Len(vec') + 1 /\ (worker' \notin {"free", "clear", "astray"} => next' = 1)
  BY <1>1, <1>2 DEF DF!TypeOK
<1>4. op' \in [at : {"signal"}, ctl : Ctl \cup {None}, left : SUBSET Ctl, taken : SUBSET Ctl]
  BY <1>1 DEF DF!TypeOK
<1>5. CallInv'
  BY <1>1 DEF CallInv
<1>. QED  BY <1>1, <1>2, <1>3, <1>4, <1>5 DEF DF!TypeOK

LEMMA DFWorkerTypes ==
  ASSUME DF!TypeOK, CallInv, DF!Worker, earlier' \in BOOLEAN, met' \in BOOLEAN
  PROVE  DF!TypeOK' /\ CallInv'
<1>1. UNCHANGED <<items, seen, msg, op, window, handles, switch>>
  BY DFWorkerQuiet
<1>2. CASE DF!WorkerFree
  <2>1. next <= Len(vec) /\ next' = next + 1 /\ UNCHANGED <<vec, event, worker>>
        /\ deletes' = [deletes EXCEPT ![vec[next]] = @ + 1]
    BY <1>2 DEF DF!WorkerFree
  <2>2. Len(vec) \in Nat
    BY LenProperties DEF DF!TypeOK
  <2>3. next' \in 1..Len(vec') + 1 /\ worker = "free"
    BY <1>2, <2>1, <2>2 DEF DF!TypeOK, DF!WorkerFree
  <2>. QED  BY <1>1, <2>1, <2>3 DEF DF!TypeOK, CallInv
<1>3. CASE DF!WorkerClear
  <2>1. vec' = <<>> /\ next' = 1 /\ worker' = "test" /\ UNCHANGED <<deletes, event>>
    BY <1>3 DEF DF!WorkerClear
  <2>2. <<>> \in Seq(Ctl) /\ 1 \in 1..Len(<<>>) + 1
    BY EmptySeq
  <2>. QED  BY <1>1, <2>1, <2>2 DEF DF!TypeOK, CallInv
<1>4. CASE DF!WorkerLoop \/ DF!WorkerWake \/ DF!WorkerWoken \/ DF!WorkerSlept \/ DF!WorkerFreed
           \/ DF!WorkerTest \/ DF!WorkerAgain
  <2>1. /\ UNCHANGED <<vec, deletes, next>> /\ event' \in BOOLEAN
        /\ worker' \in {"wait", "ended", "woken", "sleep", "free", "clear", "loop", "again"}
        /\ worker' \notin {"free", "clear"} => worker # "free" /\ worker # "clear" /\ worker # "astray"
    BY <1>4 DEF DF!TypeOK, DF!WorkerLoop, DF!WorkerWake, DF!WorkerWoken, DF!WorkerSlept, DF!WorkerFreed,
                DF!WorkerTest, DF!WorkerAgain
  <2>. QED  BY <1>1, <2>1 DEF DF!TypeOK, CallInv
<1>. QED  BY <1>2, <1>3, <1>4 DEF DF!Worker

LEMMA DFHistory ==
  ASSUME DF!TypeOK, DF!Next PROVE earlier' \in BOOLEAN /\ met' \in BOOLEAN
BY DEF DF!Next, DF!InMessage, DF!Overlap

LEMMA DFTypes ==
  ASSUME DF!TypeOK, CallInv, StoreInv, [DF!Next]_(DF!vars) PROVE DF!TypeOK' /\ CallInv'
<1>1. CASE DF!Next
  BY <1>1, DFParts, DFHistory, DFCallTypes, DFPushTypes, DFWorkerTypes
<1>2. CASE UNCHANGED DF!vars
  BY <1>2 DEF DF!vars, DF!container, DF!shutting, DF!freeing, DF!TypeOK, CallInv
<1>. QED  BY <1>1, <1>2

\* The window's thread sets the event at the end of addDelayedFree and of
\* stopDelayedFreeControl; it waits for the other thread only after the latter.
LEMMA DFCallSteps ==
  ASSUME DF!TypeOK, WaitInv, DFCalls
  PROVE  /\ op'.at = "store" => seen' = vec
         /\ (op.at # "signal" /\ op'.at # "join" /\ UNCHANGED event) \/ event' \/ worker = "ended"
         /\ event => event'
         /\ ~handles' => worker = "ended"
         /\ op'.at \in {"last", "join"} => switch' = 0
<1>1. CASE DF!Message \/ DF!Return \/ DF!DeleteTree
  BY <1>1 DEF WaitInv, DF!Message, DF!Return, DF!DeleteTree, DF!DeleteItems, DF!InHandler, DF!Free, DF!Between,
              DF!Done, DF!container, DF!shutting
<1>2. ASSUME NEW C, NEW c, DF!Take(c, C), op = DF!Done
      PROVE  op'.at = "find" /\ UNCHANGED <<event, handles>> /\ op.at = "none"
  BY <1>2 DEF DF!Take, DF!shutting, DF!Done
<1>3. CASE DF!remove \/ DF!removeAll
  BY <1>2, <1>3 DEF WaitInv, DF!remove, DF!removeAll, DF!InHandler, DF!Between
<1>4. CASE DF!Find
  <2>1. op.at = "find" /\ UNCHANGED <<event, handles>>
    BY <1>4 DEF DF!Find, DF!shutting
  <2>2. op'.at \in {"signal", "push"}
    BY <1>4 DEF DF!Find, DF!HandedOver, DF!TypeOK
  <2>. QED  BY <2>1, <2>2 DEF WaitInv
<1>5. CASE DF!PushBegin
  <2>1. op.at = "push" /\ op'.at = "store" /\ seen' = vec /\ UNCHANGED <<event, handles>>
    BY <1>5 DEF DF!PushBegin, DF!shutting, DF!TypeOK
  <2>. QED  BY <2>1 DEF WaitInv
<1>6. CASE DF!Signal
  <2>1. event' = (event \/ handles) /\ UNCHANGED handles
    BY <1>6 DEF DF!Signal, DF!Wake, DF!shutting
  <2>2. op'.at \in {"erase", "find"}
    BY <1>6 DEF DF!Signal, DF!TypeOK
  <2>3. (event' \/ ~handles) /\ (event => event')
    BY <2>1
  <2>. QED  BY <2>1, <2>2, <2>3 DEF WaitInv
<1>7. CASE DF!Erase
  BY <1>7 DEF WaitInv, DF!Erase, DF!Done, DF!shutting
<1>8. CASE DF!Close \/ DF!Destroy
  BY <1>8 DEF WaitInv, DF!Close, DF!Destroy, DF!Free, DF!Between, DF!Done, DF!At
<1>9. CASE DF!SwitchOff
  BY <1>9 DEF WaitInv, DF!SwitchOff, DF!Done, DF!At
<1>10. CASE DF!LastSignal
  <2>1. event' = (event \/ handles) /\ UNCHANGED <<handles, switch>> /\ op.at = "last" /\ op'.at = "join"
    BY <1>10 DEF DF!LastSignal, DF!Wake, DF!shutting, DF!Done, DF!At
  <2>2. (event' \/ ~handles) /\ (event => event')
    BY <2>1
  <2>. QED  BY <2>1, <2>2 DEF WaitInv
<1>11. CASE DF!Join
  BY <1>11 DEF WaitInv, DF!Join, DF!Done
<1>. QED
  BY <1>1, <1>3, <1>4, <1>5, <1>6, <1>7, <1>8, <1>9, <1>10, <1>11 DEF DFCalls, DF!Ends

LEMMA DFStoreStep ==
  ASSUME DF!TypeOK, StoreInv, WaitInv, [DF!Next]_(DF!vars) PROVE StoreInv'
<1>1. CASE DFCalls
  BY <1>1, DFCallSteps, DFCallsQuiet DEF StoreInv
<1>2. CASE DF!PushEnd
  BY <1>2 DEF DF!PushEnd, DF!HandedOver, StoreInv
<1>3. CASE DF!Worker /\ DF!Next
  <2>1. UNCHANGED <<op, seen>> /\ (op.at = "store" => DF!InMessage')
    BY <1>3, DFWorkerQuiet DEF DF!InMessage, DF!Done
  <2>2. earlier' = (DF!InMessage' /\ (worker = "sleep" => earlier))
    BY <1>3 DEF DF!Next
  <2>3. CASE DF!WorkerClear
    BY <2>1, <2>3 DEF DF!WorkerClear, StoreInv, Resting
  <2>4. CASE DF!WorkerWoken
    <3>1. worker = "woken" /\ worker' \in {"sleep", "ended"} /\ UNCHANGED <<vec, next>>
      BY <2>4 DEF DF!WorkerWoken
    <3>. QED  BY <2>1, <2>2, <3>1 DEF StoreInv, Resting
  <2>5. CASE DF!WorkerSlept \/ DF!WorkerFree \/ DF!WorkerFreed
    <3>1. UNCHANGED vec /\ (op.at = "store" => seen = vec)
      BY <2>5 DEF DF!WorkerSlept, DF!WorkerFree, DF!WorkerFreed, StoreInv, Resting
    <3>. QED  BY <2>1, <3>1 DEF StoreInv
  <2>6. CASE DF!WorkerLoop \/ DF!WorkerWake \/ DF!WorkerTest \/ DF!WorkerAgain
    <3>1. worker' \in {"wait", "ended", "woken", "loop", "again"} /\ UNCHANGED <<vec, next>>
      BY <2>6 DEF DF!WorkerLoop, DF!WorkerWake, DF!WorkerTest, DF!WorkerAgain
    <3>. QED  BY <2>1, <3>1 DEF StoreInv, Resting
  <2>. QED  BY <1>3, <2>3, <2>4, <2>5, <2>6 DEF DF!Worker
<1>4. CASE UNCHANGED DF!vars
  BY <1>4 DEF DF!vars, DF!container, DF!freeing, StoreInv
<1>. QED  BY <1>1, <1>2, <1>3, <1>4, DFParts

LEMMA DFWaitStep ==
  ASSUME DF!TypeOK, WaitInv, [DF!Next]_(DF!vars) PROVE WaitInv'
<1>1. CASE DFCalls
  BY <1>1, DFCallSteps, DFCallsQuiet DEF WaitInv
<1>2. CASE DF!PushEnd
  <2>1. /\ op'.at = "signal" /\ UNCHANGED <<handles, switch, event>>
        /\ worker' = worker \/ (worker = "free" /\ worker' = "astray")
    BY <1>2 DEF DF!PushEnd, DF!HandedOver, DF!shutting
  <2>. QED  BY <2>1 DEF WaitInv
<1>3. CASE DF!Worker
  <2>1. UNCHANGED <<op, handles, switch>>
    BY <1>3, DFWorkerQuiet
  <2>2. CASE DF!WorkerLoop
    BY <2>1, <2>2 DEF DF!WorkerLoop, WaitInv
  <2>3. CASE DF!WorkerWake \/ DF!WorkerWoken \/ DF!WorkerSlept \/ DF!WorkerFree \/ DF!WorkerFreed
    BY <2>1, <2>3 DEF DF!WorkerWake, DF!WorkerWoken, DF!WorkerSlept, DF!WorkerFree, DF!WorkerFreed, WaitInv
  <2>4. CASE DF!WorkerClear \/ DF!WorkerTest \/ DF!WorkerAgain
    BY <2>1, <2>4 DEF DF!WorkerClear, DF!WorkerTest, DF!WorkerAgain, WaitInv
  <2>. QED  BY <1>3, <2>2, <2>3, <2>4 DEF DF!Worker
<1>4. CASE UNCHANGED DF!vars
  BY <1>4 DEF DF!vars, DF!container, DF!freeing, DF!shutting, WaitInv
<1>. QED  BY <1>1, <1>2, <1>3, <1>4, DFParts

\* The window's thread and the vector, as long as they have not met in it.
LEMMA DFMeetCalls ==
  ASSUME DF!TypeOK, CallInv, MeetInv, DF!FreedOnce, DFCalls, ~met
  PROVE  \/ UNCHANGED deletes /\ items' \ op'.taken = items \ op.taken
         \/ DF!DeleteItems /\ op.taken = {} /\ op'.taken = {}
<1>1. CASE DF!Message \/ DF!Return
  BY <1>1 DEF DF!Message, DF!Return, DF!container
<1>2. CASE DF!DeleteTree \/ DF!Destroy
  BY <1>2 DEF DF!DeleteTree, DF!Destroy, DF!InHandler, DF!Free, DF!Between, DF!Done, DF!At
<1>3. ASSUME NEW C, NEW c, DF!Take(c, C), op = DF!Done
      PROVE  UNCHANGED deletes /\ items' \ op'.taken = items \ op.taken
  BY <1>3 DEF DF!Take, DF!container, DF!Done
<1>4. CASE DF!remove \/ DF!removeAll
  BY <1>3, <1>4 DEF DF!remove, DF!removeAll, DF!InHandler, DF!Between
<1>5. CASE DF!Find
  <2>1. op.at = "find" /\ UNCHANGED <<items, deletes>>
    BY <1>5 DEF DF!Find, DF!container
  <2>2. op.ctl \in items \ op.taken /\ op.ctl \in Ctl
    BY <2>1 DEF CallInv, DF!TypeOK
  <2>3. deletes[op.ctl] = 0 /\ DF!Waits(op.ctl) = {}
    BY <2>2 DEF DF!FreedOnce
  <2>4. ASSUME NEW i \in DOMAIN vec, vec[i] = op.ctl PROVE FALSE
    <3>1. i \in 1..Len(vec) /\ Len(vec) \in Nat /\ next \in 1..Len(vec) + 1
      BY LenProperties DEF DF!TypeOK
    <3>2. CASE i < next
      <4>1. i \in 1..next - 1
        BY <3>1, <3>2
      <4>. QED  BY <2>3, <2>4, <4>1 DEF MeetInv
    <3>3. CASE ~(i < next)
      <4>1. i \in next..Len(vec)
        BY <3>1, <3>3
      <4>. QED  BY <2>3, <2>4, <4>1 DEF DF!Waits
    <3>. QED  BY <3>2, <3>3
  <2>5. op.ctl \notin DF!ToSet(vec)
    BY <2>4 DEF DF!ToSet
  <2>6. op' = [op EXCEPT !.at = "push"]
    BY <1>5, <2>5 DEF DF!Find
  <2>. QED  BY <2>1, <2>6 DEF DF!TypeOK
<1>6. CASE DF!PushBegin
  BY <1>6 DEF DF!PushBegin, DF!TypeOK
<1>7. CASE DF!Signal
  BY <1>7 DEF DF!Signal, DF!container, DF!TypeOK
<1>8. CASE DF!Erase
  BY <1>8 DEF DF!Erase, DF!Done
<1>9. CASE DF!Close \/ DF!SwitchOff \/ DF!LastSignal \/ DF!Join
  <2>1. UNCHANGED <<items, deletes>> /\ op'.taken = {} /\ op.taken = {}
    BY <1>9 DEF DF!Close, DF!SwitchOff, DF!LastSignal, DF!Join, DF!Free, DF!Between, DF!container, DF!Done, DF!At,
                CallInv
  <2>. QED  BY <2>1
<1>. QED
  BY <1>1, <1>2, <1>4, <1>5, <1>6, <1>7, <1>8, <1>9 DEF DFCalls, DF!Ends

\* What the thread has passed is deleted, and what waits does so once, after each step.
Passed == \A i \in 1..next - 1 : deletes[vec[i]] = 1
FreedOnceOr(c) ==
  IF c \in items \ op.taken THEN deletes[c] = 0 /\ DF!Waits(c) = {}
  ELSE \/ deletes[c] = 1 /\ DF!Waits(c) = {}
       \/ deletes[c] = 0 /\ \E i \in DOMAIN vec : DF!Waits(c) = {i}

LEMMA DFMeetVector ==
  ASSUME DF!TypeOK, CallInv, MeetInv, DF!FreedOnce, DF!Next, ~met
  PROVE  Passed' /\ \A c \in Ctl : FreedOnceOr(c)'
<1>1. Passed /\ \A c \in Ctl : FreedOnceOr(c)
  BY DEF MeetInv, Passed, DF!FreedOnce, FreedOnceOr
<1>2. vec \in Seq(Ctl) /\ Len(vec) \in Nat /\ DOMAIN vec = 1..Len(vec) /\ next \in 1..Len(vec) + 1 /\ next \in Nat
      /\ \A i \in DOMAIN vec : vec[i] \in Ctl
  BY LenProperties, ElementOfSeq DEF DF!TypeOK
<1>3. ASSUME UNCHANGED <<vec, next, deletes>>, items' \ op'.taken = items \ op.taken
      PROVE  Passed' /\ \A c \in Ctl : FreedOnceOr(c)'
  BY <1>1, <1>3 DEF Passed, FreedOnceOr, DF!Waits
<1>4. CASE DFCalls
  <2>1. UNCHANGED <<vec, next>>
    BY <1>4, DFCallsQuiet
  <2>2. CASE DF!DeleteItems /\ op.taken = {} /\ op'.taken = {}
    <3>1. /\ items' = {} /\ op.taken = {}
          /\ deletes' = [c \in Ctl |-> IF c \in items THEN deletes[c] + 1 ELSE deletes[c]]
      BY <2>2 DEF DF!DeleteItems
    <3>2. \A c \in Ctl : FreedOnceOr(c)'
      BY <1>1, <2>1, <3>1 DEF FreedOnceOr, DF!Waits
    <3>3. ASSUME NEW i \in 1..next - 1 PROVE deletes'[vec[i]] = 1
      <4>1. i \in DOMAIN vec /\ vec[i] \in Ctl
        BY <1>2
      <4>2. deletes[vec[i]] = 1
        BY <1>1 DEF Passed
      <4>3. vec[i] \notin items
        BY <1>1, <3>1, <4>1, <4>2 DEF FreedOnceOr
      <4>. QED  BY <3>1, <4>1, <4>2, <4>3
    <3>. QED  BY <2>1, <3>2, <3>3 DEF Passed
  <2>. QED  BY <1>3, <1>4, <2>1, <2>2, DFMeetCalls
<1>5. CASE DF!PushEnd
  <2>1. /\ op.at = "store" /\ vec' \in DF!Stored(vec, op.ctl) /\ op'.taken = op.taken \cup {op.ctl}
        /\ UNCHANGED <<items, deletes, next>> /\ op.ctl \in items \ op.taken /\ op.ctl \in Ctl
    BY <1>5 DEF DF!PushEnd, DF!HandedOver, CallInv, DF!TypeOK
  <2>2. vec' = Append(vec, op.ctl)
    BY <2>1 DEF DF!Stored, MeetInv
  <2>3. /\ Len(vec') = Len(vec) + 1 /\ vec'[Len(vec) + 1] = op.ctl /\ DOMAIN vec' = 1..Len(vec) + 1
        /\ \A i \in DOMAIN vec : vec'[i] = vec[i]
    BY <1>2, <2>1, <2>2, AppendProperties
  <2>4. Passed'
    <3>1. \A i \in 1..next - 1 : i \in DOMAIN vec
      BY <1>2
    <3>. QED  BY <1>1, <2>1, <2>3, <3>1 DEF Passed
  <2>5. ASSUME NEW c \in Ctl PROVE FreedOnceOr(c)'
    <3>1. CASE c = op.ctl
      <4>1. deletes[c] = 0 /\ DF!Waits(c) = {}
        BY <1>1, <2>1, <3>1 DEF FreedOnceOr
      <4>2. DF!Waits(c)' = {Len(vec) + 1}
        <5>1. \A i \in next..Len(vec) : i \in DOMAIN vec /\ vec[i] # c
          BY <1>2, <4>1 DEF DF!Waits
        <5>2. \A i : i \in next..Len(vec) + 1 <=> i \in next..Len(vec) \/ i = Len(vec) + 1
          BY <1>2
        <5>3. \A i \in next..Len(vec) + 1 : vec'[i] = c <=> i = Len(vec) + 1
          BY <2>3, <3>1, <5>1, <5>2
        <5>. QED  BY <2>1, <2>3, <5>2, <5>3 DEF DF!Waits
      <4>3. Len(vec) + 1 \in DOMAIN vec'
        BY <1>2, <2>3
      <4>. QED  BY <2>1, <3>1, <4>1, <4>2, <4>3 DEF FreedOnceOr
    <3>2. CASE c # op.ctl
      <4>1. DF!Waits(c)' = DF!Waits(c)
        <5>1. \A i : i \in next..Len(vec) + 1 <=> i \in next..Len(vec) \/ i = Len(vec) + 1
          BY <1>2
        <5>2. \A i \in next..Len(vec) : vec'[i] = vec[i]
          BY <1>2, <2>3
        <5>. QED  BY <2>1, <2>3, <3>2, <5>1, <5>2 DEF DF!Waits
      <4>2. DOMAIN vec \subseteq DOMAIN vec'
        BY <1>2, <2>3
      <4>. QED  BY <1>1, <2>1, <3>2, <4>1, <4>2 DEF FreedOnceOr
    <3>. QED  BY <3>1, <3>2
  <2>. QED  BY <2>4, <2>5
<1>6. CASE DF!WorkerFree
  <2> DEFINE d == vec[next]
  <2>1. /\ next <= Len(vec) /\ deletes' = [deletes EXCEPT ![d] = @ + 1] /\ next' = next + 1
        /\ UNCHANGED <<vec, items, op>>
    BY <1>6 DEF DF!WorkerFree, DF!Thread
  <2>2. next \in DOMAIN vec /\ d \in Ctl /\ next \in DF!Waits(d)
    BY <1>2, <2>1 DEF DF!Waits
  <2>3. d \notin items \ op.taken /\ deletes[d] = 0 /\ DF!Waits(d) = {next}
    BY <1>1, <2>2 DEF FreedOnceOr
  <2>4. deletes'[d] = 1 /\ \A c \in Ctl \ {d} : deletes'[c] = deletes[c]
    BY <2>1, <2>2, <2>3 DEF DF!TypeOK
  <2>5. ASSUME NEW i \in 1..next' - 1 PROVE deletes'[vec[i]] = 1
    <3>1. CASE i = next
      BY <2>4, <3>1
    <3>2. CASE i # next
      <4>1. i \in 1..next - 1 /\ i \in DOMAIN vec
        BY <1>2, <2>1, <3>2
      <4>2. deletes[vec[i]] = 1 /\ vec[i] \in Ctl
        BY <1>1, <1>2, <4>1 DEF Passed
      <4>. QED  BY <2>3, <2>4, <4>2
    <3>. QED  BY <3>1, <3>2
  <2>6. \A c \in Ctl : DF!Waits(c)' = DF!Waits(c) \ {next}
    <3>1. \A i : i \in next + 1..Len(vec) <=> i \in next..Len(vec) /\ i # next
      BY <1>2, <2>1
    <3>. QED  BY <2>1, <3>1 DEF DF!Waits
  <2>7. ASSUME NEW c \in Ctl PROVE FreedOnceOr(c)'
    <3>1. CASE c = d
      BY <2>1, <2>3, <2>4, <2>6, <3>1 DEF FreedOnceOr
    <3>2. CASE c # d
      <4>1. DF!Waits(c)' = DF!Waits(c)
        BY <2>6, <3>2 DEF DF!Waits
      <4>. QED  BY <1>1, <2>1, <2>4, <3>2, <4>1 DEF FreedOnceOr
    <3>. QED  BY <3>1, <3>2
  <2>. QED  BY <2>1, <2>5, <2>7 DEF Passed
<1>7. CASE DF!WorkerClear
  <2>1. /\ worker = "clear" /\ vec' = <<>> /\ next' = 1 /\ UNCHANGED <<deletes, items, op>>
    BY <1>7 DEF DF!WorkerClear, DF!Thread
  <2>2. next = Len(vec) + 1
    BY <2>1 DEF MeetInv
  <2>3. \A c \in Ctl : DF!Waits(c) = {} /\ DF!Waits(c)' = {}
    <3>1. next..Len(vec) = {} /\ next'..Len(vec') = {}
      BY <1>2, <2>1, <2>2, EmptySeq
    <3>. QED  BY <3>1 DEF DF!Waits
  <2>4. Passed'
    BY <2>1 DEF Passed
  <2>5. \A c \in Ctl : FreedOnceOr(c)'
    BY <1>1, <2>1, <2>3 DEF FreedOnceOr
  <2>. QED  BY <2>4, <2>5
<1>8. CASE DF!Worker /\ ~DF!WorkerFree /\ ~DF!WorkerClear
  <2>1. UNCHANGED <<vec, next, deletes>>
    BY <1>8 DEF DF!Worker, DF!WorkerLoop, DF!WorkerWake, DF!WorkerWoken, DF!WorkerSlept, DF!WorkerFreed,
                DF!WorkerTest, DF!WorkerAgain
  <2>. QED  BY <1>3, <1>8, <2>1, DFWorkerQuiet
<1>. QED  BY <1>4, <1>5, <1>6, <1>7, <1>8, DFParts

LEMMA DFMeetStep ==
  ASSUME DF!TypeOK, CallInv, WaitInv, MeetInv, DF!FreedOnce, [DF!Next]_(DF!vars)
  PROVE  MeetInv' /\ DF!FreedOnce'
<1>1. CASE UNCHANGED DF!vars
  BY <1>1 DEF DF!vars, DF!container, DF!freeing, DF!Overlap, DF!FreedOnce, DF!Waits, MeetInv
<1>2. CASE DF!Next
  <2>1. met' <=> met \/ DF!Overlap'
    BY <1>2 DEF DF!Next
  <2>2. DF!Overlap => met
    BY DEF MeetInv
  <2>3. worker' = "astray" => met
    <3>1. CASE DFCalls
      BY <3>1, DFCallsQuiet DEF MeetInv
    <3>2. CASE DF!PushEnd
      BY <3>2 DEF DF!PushEnd, MeetInv, DF!Overlap
    <3>3. CASE DF!Worker
      BY <3>3 DEF DF!Worker, DF!WorkerLoop, DF!WorkerWake, DF!WorkerWoken, DF!WorkerSlept, DF!WorkerFree,
                  DF!WorkerFreed, DF!WorkerClear, DF!WorkerTest, DF!WorkerAgain
    <3>. QED  BY <1>2, <3>1, <3>2, <3>3, DFParts
  <2>4. CASE ~met'
    <3>1. ~met /\ ~DF!Overlap
      BY <2>1, <2>2, <2>4
    <3>2. Passed' /\ \A c \in Ctl : FreedOnceOr(c)'
      BY <1>2, <3>1, DFMeetVector
    <3>3. op'.at = "store" => seen' = vec'
      <4>1. CASE DFCalls
        <5>1. op'.at = "store" => seen' = vec
          BY <4>1, DFCallSteps
        <5>. QED  BY <4>1, <5>1, DFCallsQuiet
      <4>2. CASE DF!PushEnd
        BY <4>2 DEF DF!PushEnd, DF!HandedOver
      <4>3. CASE DF!Worker
        <5>1. UNCHANGED <<op, seen>>
          BY <4>3, DFWorkerQuiet
        <5>2. op.at = "store" => UNCHANGED vec
          BY <3>1, <4>3 DEF DF!Worker, DF!WorkerLoop, DF!WorkerWake, DF!WorkerWoken, DF!WorkerSlept,
                            DF!WorkerFree, DF!WorkerFreed, DF!WorkerClear, DF!WorkerTest, DF!WorkerAgain, DF!Overlap
        <5>. QED  BY <3>1, <5>1, <5>2 DEF MeetInv
      <4>. QED  BY <1>2, <4>1, <4>2, <4>3, DFParts
    <3>4. worker' = "clear" => next' = Len(vec') + 1
      <4>1. CASE DFCalls
        BY <3>1, <4>1, DFCallsQuiet DEF MeetInv
      <4>2. CASE DF!PushEnd
        BY <3>1, <4>2 DEF DF!PushEnd, DF!Overlap
      <4>3. CASE DF!WorkerFreed
        BY <4>3, LenProperties DEF DF!WorkerFreed, DF!TypeOK
      <4>4. CASE DF!Worker /\ ~DF!WorkerFreed
        BY <4>4 DEF DF!Worker, DF!WorkerLoop, DF!WorkerWake, DF!WorkerWoken, DF!WorkerSlept, DF!WorkerFree,
                    DF!WorkerClear, DF!WorkerTest, DF!WorkerAgain
      <4>. QED  BY <1>2, <4>1, <4>2, <4>3, <4>4, DFParts
    <3>5. DF!FreedOnce'
      BY <3>2 DEF FreedOnceOr, DF!FreedOnce
    <3>. QED  BY <2>1, <2>3, <2>4, <3>1, <3>2, <3>3, <3>4, <3>5 DEF MeetInv, Passed
  <2>5. CASE met'
    BY <2>5 DEF MeetInv, DF!FreedOnce
  <2>. QED  BY <2>4, <2>5
<1>. QED  BY <1>1, <1>2

LEMMA DFInvariant == DF!Spec => [](DF!TypeOK /\ CallInv /\ StoreInv /\ WaitInv /\ MeetInv /\ DF!FreedOnce)
<1>1. /\ DF!TypeOK /\ CallInv /\ StoreInv /\ WaitInv /\ MeetInv /\ DF!FreedOnce /\ [DF!Next]_(DF!vars)
      => (DF!TypeOK /\ CallInv /\ StoreInv /\ WaitInv /\ MeetInv /\ DF!FreedOnce)'
  BY DFTypes, DFStoreStep, DFWaitStep, DFMeetStep
<1>. QED  BY <1>1, DFInit, PTL DEF DF!Spec

\* As long as push_back does not run while the thread goes through m_vecDelayedFree,
\* which nothing prevents, every control that is handed over is freed once or waits
\* once to be, and no other is deleted or waits, wherever the thread is when remove
\* or removeAll hands one over (UC/wucContainer.cpp:560, 628, UC/drawManager.cpp:905, 925).
THEOREM HandedOverFreedOnce == DF!Spec => []DF!FreedOnce
BY DFInvariant, PTL

\* The thread that frees never waits for an event that is not set while there is a
\* control in its vector that the window's thread is not about to wake it for, or
\* the end of the window waits for it; although the vector has no lock
\* (UC/drawManager.cpp:905, 1005, 1030).
THEOREM TheThreadIsWoken == DF!Spec => []DF!NoLostWakeup
<1>1. DF!TypeOK /\ WaitInv => DF!NoLostWakeup
  BY DEF DF!TypeOK, WaitInv, DF!NoLostWakeup
<1>. QED  BY <1>1, DFInvariant, PTL

\* Every variable has its type: the thread's iterator is within the vector or at its
\* end, whatever clear() does to a push_back, until a push_back moves the vector under
\* it; and at the beginning when clearDelayedFree is not at work (UC/drawManager.cpp:925).
THEOREM IteratorWithin == DF!Spec => []DF!TypeOK
BY DFInvariant, PTL
=============================================================================
