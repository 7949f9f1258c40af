---------------------------- MODULE LayoutTreeProofs ----------------------------
(***************************************************************************)
(* Proofs about LayoutTree: what the operations on a layout do to its      *)
(* leaves, for binary trees of any size.                                   *)
(***************************************************************************)
EXTENDS LayoutTree, SequenceTheorems, WellFoundedInduction, TLAPS

-----------------------------------------------------------------------------
(* Naturals: what stands for induction here                                *)

LEMMA LeastNat ==
    ASSUME NEW T, T \subseteq Nat, T # {}
    PROVE  \E x \in T : \A y \in T : x <= y
<1> DEFINE R == OpToRel(<, Nat)
<1>1. IsWellFoundedOn(R, Nat)
  BY NatLessThanWellFounded
<1>2. \A x, y \in Nat : <<x, y>> \in R <=> x < y
  BY DEF OpToRel
<1> HIDE DEF R
<1>3. PICK x \in T : \A y \in T : ~(<<y, x>> \in R)
  BY <1>1, WFMin
<1>4. ASSUME NEW y \in T PROVE x <= y
  <2>1. x \in Nat /\ y \in Nat /\ <<y, x>> \notin R
    BY <1>3
  <2>2. ~(y < x)
    BY <1>2, <2>1
  <2> QED BY <2>1, <2>2
<1> QED BY <1>4

LEMMA GreatestNat ==
    ASSUME NEW T, T \subseteq Nat, T # {}, NEW b \in Nat, \A x \in T : x <= b
    PROVE  \E x \in T : \A y \in T : y <= x
<1> DEFINE B == {c \in Nat : \A x \in T : x <= c}
<1>1. PICK c \in B : \A d \in B : c <= d
  BY LeastNat
<1>2. CASE c \in T
  BY <1>2
<1>3. CASE c \notin T
  <2>1. \A x \in T : x <= c - 1
    BY <1>3
  <2>2. c - 1 \in Nat
    <3>1. PICK x \in T : TRUE
      OBVIOUS
    <3>2. x \in Nat /\ x <= c - 1 /\ c \in Nat
      BY <2>1
    <3> QED BY <3>2
  <2>3. c - 1 \in B
    BY <2>1, <2>2
  <2> QED BY <1>1, <2>3
<1> QED BY <1>2, <1>3

-----------------------------------------------------------------------------
(* Places by their steps                                                   *)

Place == Seq({1, 2})

\* q goes the first n steps of p.
Follows(q, p, n) == n <= Len(q) /\ \A j \in 1..n : q[j] = p[j]

LEMMA PlaceSteps ==
    ASSUME NEW p \in Place
    PROVE  Len(p) \in Nat /\ \A k \in 1..Len(p) : p[k] \in {1, 2}
BY DEF Place

LEMMA SamePlace ==
    ASSUME NEW p \in Place, NEW q \in Place, Len(p) = Len(q), Follows(q, p, Len(p))
    PROVE  p = q
BY SeqEqual DEF Place, Follows

\* The first n steps of a place.
LEMMA TakeSteps ==
    ASSUME NEW p \in Place, NEW n \in 0..Len(p)
    PROVE  /\ SubSeq(p, 1, n) \in Place
           /\ Len(SubSeq(p, 1, n)) = n
           /\ \A j \in 1..n : SubSeq(p, 1, n)[j] = p[j]
<1>1. \A j \in 1..n : p[j] \in {1, 2}
  BY PlaceSteps
<1>2. n \in Int /\ Len(p) \in Nat
  BY PlaceSteps
<1> QED BY <1>1, <1>2, SubSeqProperties DEF Place

LEMMA PrefixSteps ==
    ASSUME NEW p \in Place, NEW q \in Place
    PROVE  Prefix(p, q) <=> Follows(q, p, Len(p))
<1>1. Len(p) \in Nat /\ Len(q) \in Nat
  BY PlaceSteps
<1> SUFFICES ASSUME Len(p) <= Len(q)
             PROVE  SubSeq(q, 1, Len(p)) = p <=> \A j \in 1..Len(p) : q[j] = p[j]
  BY DEF Prefix, Follows
<1> DEFINE s == SubSeq(q, 1, Len(p))
<1>2. /\ s \in Place /\ Len(s) = Len(p)
      /\ \A j \in 1..Len(p) : s[j] = q[j]
  BY <1>1, TakeSteps
<1> HIDE DEF s
<1>3. (\A j \in 1..Len(p) : q[j] = p[j]) => s = p
  BY <1>2, <1>1, SamePlace DEF Follows
<1>4. s = p <=> \A j \in 1..Len(p) : q[j] = p[j]
  BY <1>2, <1>3
<1> QED BY <1>4 DEF s

\* The other side of the k-th split on the way to p.
LEMMA SideSteps ==
    ASSUME NEW p \in Place, NEW q \in Place, NEW k \in 1..Len(p)
    PROVE  LET side == Append(SubSeq(p, 1, k - 1), 3 - p[k])
           IN  /\ side \in Place /\ Len(side) = k
               /\ Follows(side, p, k - 1) /\ side[k] = 3 - p[k]
               /\ Prefix(side, q) <=>
                      Follows(q, p, k - 1) /\ k <= Len(q) /\ q[k] # p[k]
<1> DEFINE a    == SubSeq(p, 1, k - 1)
           side == Append(a, 3 - p[k])
<1>1. Len(p) \in Nat /\ Len(q) \in Nat /\ k \in Nat /\ k <= Len(p) /\ 1 <= k
  BY PlaceSteps
<1>2. p[k] \in {1, 2} /\ 3 - p[k] \in {1, 2}
  BY PlaceSteps
<1>3. a \in Place /\ Len(a) = k - 1 /\ \A j \in 1..(k - 1) : a[j] = p[j]
  BY <1>1, TakeSteps
<1> HIDE DEF a
<1>4. /\ side \in Place /\ Len(side) = k
      /\ \A j \in 1..(k - 1) : side[j] = p[j]
      /\ side[k] = 3 - p[k]
  <2>1. /\ side \in Place /\ Len(side) = Len(a) + 1
        /\ \A j \in 1..Len(a) : side[j] = a[j]
        /\ side[Len(a) + 1] = 3 - p[k]
    BY <1>2, <1>3, AppendProperties DEF Place
  <2> HIDE DEF side
  <2>2. Len(a) + 1 = k
    BY <1>1, <1>3
  <2> QED BY <1>3, <2>1, <2>2
<1> HIDE DEF side
<1>5. Prefix(side, q) <=> k <= Len(q) /\ \A j \in 1..k : q[j] = side[j]
  BY <1>4, PrefixSteps DEF Follows
<1>6. ASSUME k <= Len(q)
      PROVE  (\A j \in 1..k : q[j] = side[j]) <=>
                 (\A j \in 1..(k - 1) : q[j] = p[j]) /\ q[k] = 3 - p[k]
  <2>1. \A j \in 1..k : j \in 1..(k - 1) \/ j = k
    BY <1>1
  <2>2. \A j \in 1..(k - 1) : j \in 1..k
    BY <1>1
  <2>3. k \in 1..k
    BY <1>1
  <2> QED BY <1>4, <2>1, <2>2, <2>3
<1>7. k <= Len(q) => (q[k] = 3 - p[k] <=> q[k] # p[k])
  <2>1. k <= Len(q) => q[k] \in {1, 2}
    BY <1>1, PlaceSteps
  <2> QED BY <1>2, <2>1
<1>8. Follows(side, p, k - 1)
  BY <1>1, <1>4 DEF Follows
<1>9. k <= Len(q) => k - 1 <= Len(q)
  BY <1>1
<1>10. Prefix(side, q) <=> Follows(q, p, k - 1) /\ k <= Len(q) /\ q[k] # p[k]
  BY <1>5, <1>6, <1>7, <1>9 DEF Follows
<1> QED BY <1>4, <1>8, <1>10 DEF side, a

\* A binary tree, told by the steps of its places.
Tree(P) ==
    /\ P \subseteq Place
    /\ \E p \in P : \A q \in P : Len(q) <= Len(p)
    /\ \A p, q \in P : Follows(q, p, Len(p)) => p = q
    /\ \A p \in P : \A k \in 1..Len(p) :
         \E q \in P : Follows(q, p, k - 1) /\ k <= Len(q) /\ q[k] # p[k]

LEMMA TreeSteps == ASSUME NEW P PROVE IsTree(P) <=> Tree(P)
<1>1. CASE ~(P \subseteq Place)
  BY <1>1 DEF IsTree, Tree, Place
<1>2. CASE P \subseteq Place
  <2>1. \A p, q \in P : Prefix(p, q) <=> Follows(q, p, Len(p))
    BY <1>2, PrefixSteps
  <2>2. \A p, q \in P : \A k \in 1..Len(p) :
          Prefix(Append(SubSeq(p, 1, k - 1), 3 - p[k]), q) <=>
              Follows(q, p, k - 1) /\ k <= Len(q) /\ q[k] # p[k]
    BY <1>2, SideSteps
  <2>3. (\A p, q \in P : Prefix(p, q) => p = q) <=>
            \A p, q \in P : Follows(q, p, Len(p)) => p = q
    BY <2>1
  <2>4. ASSUME NEW p \in P, NEW k \in 1..Len(p)
        PROVE  (\E q \in P : Prefix(Append(SubSeq(p, 1, k - 1), 3 - p[k]), q))
               <=> \E q \in P :
                     Follows(q, p, k - 1) /\ k <= Len(q) /\ q[k] # p[k]
    BY <2>2
  <2>5. (\A p \in P : \A k \in 1..Len(p) :
           \E q \in P : Prefix(Append(SubSeq(p, 1, k - 1), 3 - p[k]), q))
        <=> \A p \in P : \A k \in 1..Len(p) :
              \E q \in P : Follows(q, p, k - 1) /\ k <= Len(q) /\ q[k] # p[k]
    BY <2>4
  <2>6. P \subseteq Seq({1, 2})
    BY <1>2 DEF Place
  <2> QED BY Zenon, <1>2, <2>3, <2>5, <2>6 DEF IsTree, Tree
<1> QED BY <1>1, <1>2

\* A set of places that go no deeper than b has a deepest one.
LEMMA Deepest ==
    ASSUME NEW P, P \subseteq Place, P # {}, NEW b \in Nat,
           \A p \in P : Len(p) <= b
    PROVE  \E p \in P : \A q \in P : Len(q) <= Len(p)
<1> DEFINE T == {Len(p) : p \in P}
<1>1. T \subseteq Nat
  BY PlaceSteps
<1>2. T # {} /\ \A x \in T : x <= b
  OBVIOUS
<1> HIDE DEF T
<1>3. PICK x \in T : \A y \in T : y <= x
  BY <1>1, <1>2, GreatestNat
<1> QED BY <1>3 DEF T

-----------------------------------------------------------------------------
(* The leaf of first children                                              *)

LEMMA FirstPlace ==
    ASSUME NEW P, Tree(P)
    PROVE  \E p \in P : \A k \in 1..Len(p) : p[k] = 1
<1> DEFINE Ones(p, k) == k <= Len(p) /\ \A j \in 1..k : p[j] = 1
           T == {k \in Nat : \E p \in P : Ones(p, k)}
<1>1. PICK d \in P : \A q \in P : Len(q) <= Len(d)
  BY DEF Tree
<1>2. \A p \in P : p \in Place /\ Len(p) \in Nat
  BY PlaceSteps DEF Tree
<1>3. 0 \in T
  BY <1>1, <1>2
<1>4. Len(d) \in Nat /\ \A k \in T : k <= Len(d)
  BY <1>1, <1>2
<1>5. PICK n \in T : \A k \in T : k <= n
  BY <1>3, <1>4, GreatestNat
<1>6. n \in Nat /\ n + 1 \notin T
  BY <1>5
<1>7. PICK p \in P : Ones(p, n)
  BY <1>5
<1>8. n = Len(p)
  <2> SUFFICES ASSUME n # Len(p) PROVE FALSE
    OBVIOUS
  <2>1. n + 1 \in 1..Len(p) /\ n + 1 <= Len(p)
    BY <1>2, <1>6, <1>7
  <2>2. \A j \in 1..(n + 1) : j \in 1..n \/ j = n + 1
    BY <1>6
  <2>3. p[n + 1] # 1
    BY <1>6, <1>7, <2>1, <2>2
  <2>4. PICK q \in P : /\ Follows(q, p, (n + 1) - 1) /\ n + 1 <= Len(q)
                       /\ q[n + 1] # p[n + 1]
    BY <2>1 DEF Tree
  <2>5. p[n + 1] \in {1, 2} /\ q[n + 1] \in {1, 2}
    <3>1. n + 1 \in 1..Len(q)
      BY <1>2, <1>6, <2>4
    <3> QED BY <1>2, <2>1, <3>1, PlaceSteps
  <2>6. q[n + 1] = 1
    BY <2>3, <2>4, <2>5
  <2>7. \A j \in 1..n : q[j] = 1
    BY <1>6, <1>7, <2>4 DEF Follows
  <2>8. Ones(q, n + 1)
    BY <2>2, <2>4, <2>6, <2>7
  <2> QED BY <1>6, <2>8
<1> QED BY <1>7, <1>8

\* collectLeafIds(L)[0] is there.
LEMMA FirstLeafIsThere ==
    ASSUME NEW L, IsTree(DOMAIN L)
    PROVE  /\ FirstLeafId(L) \in CollectLeafIds(L)
           /\ \E p \in DOMAIN L : FirstLeafId(L) = L[p].id
<1>1. \E p \in DOMAIN L : \A k \in 1..Len(p) : p[k] = 1
  BY TreeSteps, FirstPlace
<1> QED BY <1>1 DEF FirstLeafId, CollectLeafIds

-----------------------------------------------------------------------------
(* One leaf, other leaves                                                  *)

LEMMA SingleLeafTree ==
    ASSUME NEW leaf
    PROVE  /\ IsTree(DOMAIN SingleLeaf(leaf))
           /\ DOMAIN SingleLeaf(leaf) = {<<>>} /\ SingleLeaf(leaf)[<<>>] = leaf
<1>1. DOMAIN SingleLeaf(leaf) = {<<>>} /\ SingleLeaf(leaf)[<<>>] = leaf
  BY DEF SingleLeaf
<1>2. <<>> \in Place /\ Len(<<>>) = 0
  BY EmptySeq DEF Place
<1>3. Tree({<<>>})
  BY <1>2 DEF Tree
<1> QED BY <1>1, <1>3, TreeSteps

\* No id is in a layout twice.
Distinct(L) == \A p, q \in DOMAIN L : p # q => L[p].id # L[q].id

LEMMA ReplaceLeafNodeProperties ==
    ASSUME NEW L, NEW id, NEW leaf
    PROVE  LET M == ReplaceLeafNode(L, id, leaf)
           IN  /\ DOMAIN M = DOMAIN L
               /\ \A p \in DOMAIN L : M[p] \in {L[p], leaf}
               /\ CollectLeafIds(M) \subseteq CollectLeafIds(L) \cup {leaf.id}
               /\ CollectLeafIds(L) \subseteq CollectLeafIds(M) \cup {id}
               /\ HasLeaf(L, id) => leaf.id \in CollectLeafIds(M)
               /\ leaf.id \notin CollectLeafIds(L) /\ Distinct(L) => Distinct(M)
BY DEF ReplaceLeafNode, CollectLeafIds, HasLeaf, Distinct

LEMMA MarkLeafExitedProperties ==
    ASSUME NEW L, NEW id,
           \A p \in DOMAIN L : DOMAIN L[p] = {"id", "kind", "empty", "exited"}
    PROVE  LET M == MarkLeafExited(L, id)
           IN  /\ DOMAIN M = DOMAIN L
               /\ \A p \in DOMAIN L : /\ M[p].id = L[p].id
                                      /\ M[p].kind = L[p].kind
                                      /\ M[p].empty = L[p].empty
                                      /\ M[p].exited \in {L[p].exited, TRUE}
               /\ CollectLeafIds(M) = CollectLeafIds(L)
               /\ Distinct(L) => Distinct(M)
BY DEF MarkLeafExited, CollectLeafIds, Distinct

-----------------------------------------------------------------------------
(* SplitLeaf                                                               *)

Sides == {1, 2}

\* The places of the halves of q.
LEMMA HalfSteps ==
    ASSUME NEW q \in Place, NEW k \in Sides
    PROVE  /\ Append(q, k) \in Place
           /\ Len(Append(q, k)) = Len(q) + 1
           /\ Follows(Append(q, k), q, Len(q))
           /\ Append(q, k)[Len(q) + 1] = k
           /\ SubSeq(Append(q, k), 1, Len(Append(q, k)) - 1) = q
<1> DEFINE a == Append(q, k)
<1>1. Len(q) \in Nat
  BY PlaceSteps
<1>2. /\ a \in Place /\ Len(a) = Len(q) + 1 /\ a[Len(q) + 1] = k
      /\ \A j \in 1..Len(q) : a[j] = q[j]
  BY AppendProperties DEF Place, Sides
<1> HIDE DEF a
<1>3. Follows(a, q, Len(q))
  BY <1>1, <1>2 DEF Follows
<1>4. SubSeq(a, 1, Len(a) - 1) = q
  <2>1. Len(a) - 1 = Len(q) /\ Len(q) \in 0..Len(a)
    BY <1>1, <1>2
  <2> DEFINE b == SubSeq(a, 1, Len(q))
  <2>2. b \in Place /\ Len(b) = Len(q) /\ \A j \in 1..Len(q) : b[j] = a[j]
    BY <1>2, <2>1, TakeSteps
  <2> HIDE DEF b
  <2>3. b = q
    BY <1>1, <1>2, <2>2, SamePlace DEF Follows
  <2> QED BY <2>1, <2>3 DEF b
<1> QED BY <1>2, <1>3, <1>4 DEF a

LEMMA HalfIsNew ==
    ASSUME NEW P, Tree(P), NEW q \in P, NEW k \in Sides
    PROVE  Append(q, k) \notin P
<1>1. q \in Place /\ Len(q) \in Nat
  BY PlaceSteps DEF Tree
<1>2. Len(Append(q, k)) = Len(q) + 1 /\ Follows(Append(q, k), q, Len(q))
  BY <1>1, HalfSteps
<1>3. Append(q, k) # q
  BY <1>1, <1>2
<1> QED BY <1>2, <1>3 DEF Tree

\* Some leaves of a tree become splits of two.
LEMMA SplitTree ==
    ASSUME NEW P, Tree(P), NEW X, X \subseteq P
    PROVE  Tree((P \ X) \cup {Append(q, k) : q \in X, k \in Sides})
<1> DEFINE H == {Append(q, k) : q \in X, k \in Sides}
           Q == (P \ X) \cup H
<1>1. \A p \in P : p \in Place /\ Len(p) \in Nat
  BY PlaceSteps DEF Tree
<1>2. ASSUME NEW q \in X, NEW k \in Sides
      PROVE  /\ Append(q, k) \in H /\ Append(q, k) \in Place
             /\ Len(Append(q, k)) = Len(q) + 1
             /\ Follows(Append(q, k), q, Len(q))
             /\ Append(q, k)[Len(q) + 1] = k
  <2>1. q \in Place
    BY <1>1
  <2> QED BY <2>1, HalfSteps
<1>3. ASSUME NEW h \in H
      PROVE  \E q \in X, k \in Sides :
               /\ h \in Place /\ h = Append(q, k) /\ Len(h) = Len(q) + 1
               /\ Follows(h, q, Len(q)) /\ h[Len(q) + 1] = k
  <2>1. PICK q \in X, k \in Sides : h = Append(q, k)
    BY DEF H
  <2>2. /\ Append(q, k) \in Place /\ Len(Append(q, k)) = Len(q) + 1
        /\ Follows(Append(q, k), q, Len(q))
        /\ Append(q, k)[Len(q) + 1] = k
    BY <1>2
  <2>3. /\ h \in Place /\ Len(h) = Len(q) + 1
        /\ Follows(h, q, Len(q)) /\ h[Len(q) + 1] = k
    BY ONLY <2>1, <2>2
  <2> HIDE DEF H
  <2> WITNESS q \in X, k \in Sides
  <2> QED BY <2>1, <2>3
<1> HIDE DEF H
<1>4. PICK d \in P : \A q \in P : Len(q) <= Len(d)
  BY DEF Tree
<1>5. \A p, q \in P : Follows(q, p, Len(p)) => p = q
  BY DEF Tree
<1>6. \A p \in P : \A k \in 1..Len(p) :
        \E q \in P : Follows(q, p, k - 1) /\ k <= Len(q) /\ q[k] # p[k]
  BY DEF Tree
<1>7. Q \subseteq Place
  BY <1>1, <1>3
\* In place of each leaf there is one that follows it.
<1>8. ASSUME NEW p \in P
      PROVE  \E q \in Q : Len(p) <= Len(q) /\ \A j \in 1..Len(p) : q[j] = p[j]
  <2>1. CASE p \in X
    <3>1. 1 \in Sides /\ Len(p) \in Nat
      BY <1>1 DEF Sides
    <3>2. Append(p, 1) \in H /\ Follows(Append(p, 1), p, Len(p))
      BY <2>1, <3>1, <1>2
    <3> QED BY <3>2 DEF Follows
  <2>2. CASE p \notin X
    BY <2>2, <1>1
  <2> QED BY <2>1, <2>2
<1>9. \E p \in Q : \A q \in Q : Len(q) <= Len(p)
  <2>1. Q # {}
    BY <1>4, <1>8
  <2>2. Len(d) + 1 \in Nat /\ \A q \in Q : Len(q) <= Len(d) + 1
    BY <1>1, <1>3, <1>4
  <2> QED BY <1>7, <2>1, <2>2, Deepest
<1>10. ASSUME NEW p \in Q, NEW q \in Q, Follows(q, p, Len(p))
       PROVE  p = q
  <2>0. \A j \in 1..Len(p) : q[j] = p[j]
    BY <1>10 DEF Follows
  <2>00. Len(p) <= Len(q)
    BY <1>10 DEF Follows
  <2>1. CASE p \in P \ X /\ q \in P \ X
    BY <2>1, <1>5, <1>10
  <2>2. CASE p \in H /\ q \in P \ X
    <3>1. PICK x \in X, k \in Sides : Len(p) = Len(x) + 1 /\ Follows(p, x, Len(x))
      BY <2>2, <1>3
    <3>2. Len(x) \in Nat /\ Len(q) \in Nat
      BY <1>1, <2>2
    <3>3. Follows(q, x, Len(x))
      <4>1. Len(x) <= Len(q)
        BY <2>00, <3>1, <3>2
      <4>2. \A j \in 1..Len(x) : j \in 1..Len(p)
        BY <3>1, <3>2
      <4> QED BY <2>0, <3>1, <4>1, <4>2 DEF Follows
    <3>4. x = q
      BY <1>5, <2>2, <3>3
    <3> QED BY <2>2, <3>4
  <2>3. CASE p \in P \ X /\ q \in H
    <3>1. PICK x \in X, k \in Sides : Len(q) = Len(x) + 1 /\ Follows(q, x, Len(x))
      BY <2>3, <1>3
    <3>2. Len(x) \in Nat /\ Len(p) \in Nat
      BY <1>1, <2>3
    <3>3. CASE Len(p) <= Len(x)
      <4>1. \A j \in 1..Len(p) : j \in 1..Len(x)
        BY <3>2, <3>3
      <4>2. Follows(x, p, Len(p))
        BY <2>0, <3>1, <3>3, <4>1 DEF Follows
      <4> QED BY <4>2, <1>5, <2>3
    <3>4. CASE Len(x) <= Len(p)
      <4>1. \A j \in 1..Len(x) : j \in 1..Len(p)
        BY <3>2, <3>4
      <4>2. Follows(p, x, Len(x))
        BY <2>0, <3>1, <3>4, <4>1 DEF Follows
      <4> QED BY <4>2, <1>5, <2>3
    <3> QED BY <3>2, <3>3, <3>4
  <2>4. CASE p \in H /\ q \in H
    <3>1. PICK x \in X, k \in Sides :
            /\ p = Append(x, k) /\ Len(p) = Len(x) + 1
            /\ Follows(p, x, Len(x)) /\ p[Len(x) + 1] = k
      BY <2>4, <1>3
    <3>2. PICK y \in X, m \in Sides :
            /\ q = Append(y, m) /\ Len(q) = Len(y) + 1
            /\ Follows(q, y, Len(y)) /\ q[Len(y) + 1] = m
      BY <2>4, <1>3
    <3>3. Len(x) \in Nat /\ Len(y) \in Nat
      BY <1>1
    <3>4. Len(x) <= Len(y) /\ \A j \in 1..Len(x) : j \in 1..Len(y) /\ j \in 1..Len(p)
      BY <2>00, <3>1, <3>2, <3>3
    <3>5. Follows(y, x, Len(x))
      BY <2>0, <3>1, <3>2, <3>4 DEF Follows
    <3>6. x = y
      BY <1>5, <3>5
    <3>7. Len(x) + 1 \in 1..Len(p)
      BY <3>1, <3>3
    <3>8. k = m
      BY <2>0, <3>1, <3>2, <3>6, <3>7
    <3> QED BY <3>1, <3>2, <3>6, <3>8
  <2> QED BY <2>1, <2>2, <2>3, <2>4
<1>11. ASSUME NEW p \in Q, NEW k \in 1..Len(p)
       PROVE  \E q \in Q : Follows(q, p, k - 1) /\ k <= Len(q) /\ q[k] # p[k]
  <2>0. k \in Nat /\ 1 <= k /\ Len(p) \in Nat /\ k <= Len(p)
    BY <1>7, PlaceSteps
  \* What p shares with a leaf of P up to the k-th step.
  <2>1. ASSUME NEW x \in P, k \in 1..Len(x),
               \A j \in 1..k : p[j] = x[j]
        PROVE  \E q \in Q : Follows(q, p, k - 1) /\ k <= Len(q) /\ q[k] # p[k]
    <3>1. PICK s \in P : Follows(s, x, k - 1) /\ k <= Len(s) /\ s[k] # x[k]
      BY <1>6, <2>1
    <3>2. PICK q \in Q : Len(s) <= Len(q) /\ \A j \in 1..Len(s) : q[j] = s[j]
      BY <1>8
    <3>3. Len(s) \in Nat /\ Len(q) \in Nat
      BY <1>1, <1>7, PlaceSteps
    <3>4. k - 1 <= Len(q) /\ k <= Len(q) /\ k \in 1..Len(s) /\ k \in 1..k
      BY <2>0, <3>1, <3>2, <3>3
    <3>5. q[k] # p[k]
      BY <2>1, <3>1, <3>2, <3>4
    <3>6. \A j \in 1..(k - 1) : j \in 1..k /\ j \in 1..Len(s)
      BY <2>0, <3>1, <3>3
    <3>7. \A j \in 1..(k - 1) : q[j] = p[j]
      BY <2>1, <3>1, <3>2, <3>6 DEF Follows
    <3> QED BY <3>4, <3>5, <3>7 DEF Follows
  <2>2. CASE p \in P \ X
    BY <2>1, <2>2
  <2>3. CASE p \in H
    <3>1. PICK x \in X, m \in Sides :
            /\ p = Append(x, m) /\ Len(p) = Len(x) + 1
            /\ Follows(p, x, Len(x)) /\ p[Len(x) + 1] = m
      BY <2>3, <1>3
    <3>2. Len(x) \in Nat /\ x \in P
      BY <1>1
    <3>3. CASE k <= Len(x)
      <4>1. k \in 1..Len(x) /\ \A j \in 1..k : j \in 1..Len(x)
        BY <2>0, <3>2, <3>3
      <4>2. \A j \in 1..k : p[j] = x[j]
        BY <3>1, <4>1 DEF Follows
      <4> QED BY <2>1, <3>2, <4>1, <4>2
    <3>4. CASE k = Len(x) + 1
      <4> DEFINE q == Append(x, 3 - m)
      <4>1. 3 - m \in Sides /\ 3 - m # m
        BY DEF Sides
      <4>2. /\ q \in H /\ Len(q) = Len(x) + 1 /\ q[Len(x) + 1] = 3 - m
            /\ Follows(q, x, Len(x))
        BY <4>1, <1>2
      <4> HIDE DEF q
      <4>3. k - 1 = Len(x)
        BY <3>2, <3>4
      <4>4. Follows(q, p, k - 1)
        BY <3>1, <4>2, <4>3 DEF Follows
      <4>5. k <= Len(q) /\ q[k] # p[k]
        BY <2>0, <3>1, <3>4, <4>1, <4>2
      <4> QED BY <4>2, <4>4, <4>5
    <3> QED BY <2>0, <3>1, <3>2, <3>3, <3>4
  <2> QED BY <2>2, <2>3
<1>12. Tree(Q)
  BY <1>7, <1>9, <1>10, <1>11 DEF Tree
<1> QED BY <1>12 DEF H

\* splitLeaf makes a binary tree of one: its leaves are those of before and the
\* new one, and no id is there twice when the new one was not.
LEMMA SplitLeafProperties ==
    ASSUME NEW L, IsTree(DOMAIN L), NEW id, NEW leaf
    PROVE  LET M == SplitLeaf(L, id, leaf)
           IN  /\ IsTree(DOMAIN M)
               /\ \A p \in DOMAIN M : M[p] = leaf \/ \E q \in DOMAIN L : M[p] = L[q]
               /\ CollectLeafIds(L) \subseteq CollectLeafIds(M)
               /\ CollectLeafIds(M) \subseteq CollectLeafIds(L) \cup {leaf.id}
               /\ HasLeaf(L, id) => leaf.id \in CollectLeafIds(M)
               /\ leaf.id \notin CollectLeafIds(L) /\ Distinct(L) => Distinct(M)
<1> DEFINE P == DOMAIN L
           X == LeavesAt(L, id)
           H == {Append(q, k) : q \in X, k \in Sides}
           M == SplitLeaf(L, id, leaf)
<1>1. Tree(P) /\ X \subseteq P /\ \A p \in P : p \in Place
  BY TreeSteps DEF LeavesAt, Tree
<1>2. Tree((P \ X) \cup H) /\ \A q \in X, k \in Sides : Append(q, k) \notin P
  <2> HIDE DEF P, X
  <2>1. Tree(P) /\ X \subseteq P
    BY <1>1
  <2>2. Tree((P \ X) \cup {Append(q, k) : q \in X, k \in Sides})
    BY ONLY <2>1, SplitTree
  <2>3. ASSUME NEW q \in X, NEW k \in Sides PROVE Append(q, k) \notin P
    BY <2>1, HalfIsNew
  <2> QED BY <2>2, <2>3
<1>3. /\ DOMAIN M = (P \ X) \cup H
      /\ \A p \in (P \ X) \cup H :
           M[p] = IF p \in P THEN L[p]
                  ELSE IF p[Len(p)] = 1 THEN L[SubSeq(p, 1, Len(p) - 1)] ELSE leaf
  BY DEF SplitLeaf, Sides
<1> HIDE DEF M
<1>4. IsTree(DOMAIN M)
  BY <1>2, <1>3, TreeSteps
<1>5. ASSUME NEW p \in P \ X PROVE p \in DOMAIN M /\ M[p] = L[p]
  BY <1>3
<1>6. ASSUME NEW q \in X, NEW k \in Sides
      PROVE  M[Append(q, k)] = IF k = 1 THEN L[q] ELSE leaf
  <2> DEFINE h == Append(q, k)
  <2>1. q \in Place /\ Len(q) \in Nat
    BY <1>1, PlaceSteps
  <2>2. h[Len(h)] = k /\ SubSeq(h, 1, Len(h) - 1) = q
    <3>1. Len(h) = Len(q) + 1 /\ h[Len(q) + 1] = k /\ SubSeq(h, 1, Len(h) - 1) = q
      BY <2>1, HalfSteps
    <3> HIDE DEF h
    <3> QED BY <3>1
  <2>3. h \in H /\ h \notin DOMAIN L
    BY <1>2
  <2> HIDE DEF h, H, P, X
  <2>4. h \notin P
    BY <2>3 DEF P
  <2>5. M[h] = IF k = 1 THEN L[q] ELSE leaf
    BY <1>3, <2>2, <2>3, <2>4
  <2> QED BY <2>5 DEF h
<1>7. ASSUME NEW p \in DOMAIN M
      PROVE  M[p] = leaf \/ \E q \in DOMAIN L : M[p] = L[q]
  <2>1. CASE p \in P \ X
    BY <1>5, <2>1
  <2>2. CASE p \in H
    <3>1. PICK q \in X, k \in Sides : p = Append(q, k)
      BY <2>2
    <3>2. M[p] = IF k = 1 THEN L[q] ELSE leaf
      BY <1>6, <3>1
    <3> QED BY <1>1, <3>2
  <2> QED BY <1>3, <2>1, <2>2
<1>8. CollectLeafIds(M) \subseteq CollectLeafIds(L) \cup {leaf.id}
  BY <1>7 DEF CollectLeafIds
<1>9. ASSUME leaf.id \notin CollectLeafIds(L), Distinct(L)
      PROVE  Distinct(M)
  <2>1. \A q \in P : L[q].id # leaf.id
    BY <1>9 DEF CollectLeafIds
  <2>2. \A q, r \in X : q = r
    BY <1>9 DEF Distinct, LeavesAt
  <2> SUFFICES ASSUME NEW p \in DOMAIN M, NEW q \in DOMAIN M, p # q
               PROVE  M[p].id # M[q].id
    BY DEF Distinct
  <2>3. CASE p \in P \ X /\ q \in P \ X
    BY <2>3, <1>5, <1>9 DEF Distinct
  <2>4. CASE p \in P \ X /\ q \in H
    <3>1. PICK x \in X, k \in Sides : q = Append(x, k)
      BY <2>4
    <3>2. M[q] = L[x] \/ M[q] = leaf
      BY <1>6, <3>1
    <3>3. p # x /\ x \in P
      BY <1>1, <2>4
    <3> QED BY <1>5, <1>9, <2>1, <2>4, <3>2, <3>3 DEF Distinct
  <2>5. CASE p \in H /\ q \in P \ X
    <3>1. PICK x \in X, k \in Sides : p = Append(x, k)
      BY <2>5
    <3>2. M[p] = L[x] \/ M[p] = leaf
      BY <1>6, <3>1
    <3>3. q # x /\ x \in P
      BY <1>1, <2>5
    <3> QED BY <1>5, <1>9, <2>1, <2>5, <3>2, <3>3 DEF Distinct
  <2>6. CASE p \in H /\ q \in H
    <3>1. PICK x \in X, k \in Sides, y \in X, m \in Sides :
            p = Append(x, k) /\ q = Append(y, m)
      BY <2>6
    <3>2. x = y /\ k # m
      BY <2>2, <3>1
    <3>3. M[p] = (IF k = 1 THEN L[x] ELSE leaf)
      BY <1>6, <3>1
    <3>4. M[q] = (IF m = 1 THEN L[x] ELSE leaf)
      BY <1>6, <3>1, <3>2
    <3>5. L[x].id # leaf.id
      BY <1>1, <2>1
    <3>6. (k = 1 /\ m # 1) \/ (k # 1 /\ m = 1)
      BY <3>2 DEF Sides
    <3> QED BY <3>3, <3>4, <3>5, <3>6
  <2>7. p \in (P \ X) \cup H /\ q \in (P \ X) \cup H
    BY <1>3
  <2> HIDE DEF P, X, H
  <2> QED BY <2>3, <2>4, <2>5, <2>6, <2>7
<1>10. \A q \in X, k \in Sides : Append(q, k) \in DOMAIN M
  BY <1>3
<1>11. CollectLeafIds(L) \subseteq CollectLeafIds(M)
  <2> SUFFICES ASSUME NEW p \in P PROVE \E q \in DOMAIN M : M[q] = L[p]
    BY DEF CollectLeafIds
  <2>1. CASE p \in X
    <3>1. 1 \in Sides
      BY DEF Sides
    <3> QED BY <1>6, <1>10, <2>1, <3>1
  <2> QED BY <1>5, <2>1
<1>12. HasLeaf(L, id) => leaf.id \in CollectLeafIds(M)
  <2> SUFFICES ASSUME HasLeaf(L, id) PROVE \E q \in DOMAIN M : M[q] = leaf
    BY DEF CollectLeafIds
  <2>1. PICK q \in X : TRUE
    BY DEF HasLeaf, CollectLeafIds, LeavesAt
  <2>2. 2 \in Sides /\ 2 # 1
    BY DEF Sides
  <2> QED BY <1>6, <1>10, <2>2
<1> QED BY <1>4, <1>7, <1>8, <1>9, <1>11, <1>12 DEF M

-----------------------------------------------------------------------------
(* CloseLeaf                                                               *)

LEMMA DropSteps ==
    ASSUME NEW p \in Place, NEW n \in 0..Len(p)
    PROVE  /\ Below(p, n) \in Place
           /\ Len(Below(p, n)) = Len(p) - n
           /\ \A j \in 1..(Len(p) - n) : Below(p, n)[j] = p[n + j]
<1>1. Len(p) \in Nat /\ n \in Int /\ n + 1 \in Int /\ 0 <= n /\ n <= Len(p)
  BY PlaceSteps
<1>2. \A j \in (n + 1)..Len(p) : p[j] \in {1, 2}
  BY <1>1, PlaceSteps
<1> DEFINE b == SubSeq(p, n + 1, Len(p))
<1>3. /\ b \in Place
      /\ Len(b) = IF n + 1 <= Len(p) THEN Len(p) - (n + 1) + 1 ELSE 0
      /\ \A j \in 1..(Len(p) - (n + 1) + 1) : b[j] = p[(n + 1) + j - 1]
  BY <1>1, <1>2, SubSeqProperties DEF Place
<1> HIDE DEF b
<1>4. Len(b) = Len(p) - n
  BY <1>1, <1>3
<1>5. ASSUME NEW j \in 1..(Len(p) - n) PROVE b[j] = p[n + j]
  <2>1. j \in 1..(Len(p) - (n + 1) + 1) /\ (n + 1) + j - 1 = n + j
    BY <1>1
  <2> QED BY <1>3, <2>1
<1> QED BY <1>3, <1>4, <1>5 DEF b, Below

LEMMA JoinSteps ==
    ASSUME NEW a \in Place, NEW b \in Place
    PROVE  /\ a \o b \in Place
           /\ Len(a \o b) = Len(a) + Len(b)
           /\ \A j \in 1..Len(a) : (a \o b)[j] = a[j]
           /\ \A j \in 1..Len(b) : (a \o b)[Len(a) + j] = b[j]
<1> DEFINE c == a \o b
<1>1. Len(a) \in Nat /\ Len(b) \in Nat
  BY PlaceSteps
<1>2. /\ c \in Place /\ Len(c) = Len(a) + Len(b)
      /\ \A j \in 1..(Len(a) + Len(b)) :
           c[j] = IF j <= Len(a) THEN a[j] ELSE b[j - Len(a)]
  BY ConcatProperties DEF Place
<1> HIDE DEF c
<1>3. ASSUME NEW j \in 1..Len(a) PROVE c[j] = a[j]
  BY <1>1, <1>2
<1>4. ASSUME NEW j \in 1..Len(b) PROVE c[Len(a) + j] = b[j]
  <2>1. /\ Len(a) + j \in 1..(Len(a) + Len(b)) /\ ~(Len(a) + j <= Len(a))
        /\ (Len(a) + j) - Len(a) = j
    BY <1>1
  <2> QED BY <1>2, <2>1
<1> QED BY <1>2, <1>3, <1>4 DEF c

\* q is r without the step n + 1, which is the one away from p.
Lifted(q, r, p, n) ==
    /\ q \in Place /\ Len(q) = Len(r) - 1 /\ Follows(q, p, n)
    /\ \A j \in (n + 1)..Len(q) : q[j] = r[j + 1]

\* The places beside the last step of p.
Beside(P, p, n) ==
    {r \in P : Follows(r, p, n) /\ n + 1 <= Len(r) /\ r[n + 1] # p[n + 1]}

\* What is beside the last step of p moves up by one.
LEMMA CloseTree ==
    ASSUME NEW P, Tree(P), NEW p \in P, NEW n \in Nat, Len(p) = n + 1,
           NEW U, U = {r \in P : ~Follows(r, p, n)},
           NEW V,
           \A q \in V : \E r \in Beside(P, p, n) : Lifted(q, r, p, n),
           \A r \in Beside(P, p, n) : \E q \in V : Lifted(q, r, p, n)
    PROVE  Tree(U \cup V)
<1> DEFINE S == Beside(P, p, n)
           Q == U \cup V
<1>1. \A r \in P : r \in Place /\ Len(r) \in Nat
  BY PlaceSteps DEF Tree
<1>2. \A q \in V : /\ q \in Place /\ Len(q) \in Nat /\ Follows(q, p, n)
  BY PlaceSteps DEF Lifted
<1>3. U \subseteq P /\ \A q \in U : ~Follows(q, p, n)
  OBVIOUS
<1>4. \A r \in S : /\ r \in P /\ Follows(r, p, n) /\ n + 1 <= Len(r)
                   /\ r[n + 1] # p[n + 1]
  BY DEF Beside
<1>5. PICK d \in P : \A q \in P : Len(q) <= Len(d)
  BY DEF Tree
<1>6. \A r, q \in P : Follows(q, r, Len(r)) => r = q
  BY DEF Tree
<1>7. \A r \in P : \A k \in 1..Len(r) :
        \E q \in P : Follows(q, r, k - 1) /\ k <= Len(q) /\ q[k] # r[k]
  BY DEF Tree
<1>8. PICK r0 \in S : TRUE
  <2>1. n + 1 \in 1..Len(p) /\ (n + 1) - 1 = n
    OBVIOUS
  <2>2. \E q \in P : Follows(q, p, n) /\ n + 1 <= Len(q) /\ q[n + 1] # p[n + 1]
    BY <1>7, <2>1
  <2> QED BY <2>2 DEF Beside
<1>9. PICK q0 \in V : Lifted(q0, r0, p, n)
  BY <1>8
<1> HIDE DEF S
<1>10. Q \subseteq Place
  BY <1>1, <1>2, <1>3
<1>11. \E a \in Q : \A q \in Q : Len(q) <= Len(a)
  <2>1. ASSUME NEW q \in Q PROVE Len(q) <= Len(d)
    <3>1. CASE q \in U
      BY <1>3, <1>5, <3>1
    <3>2. CASE q \in V
      <4>1. PICK r \in S : Lifted(q, r, p, n)
        BY <3>2 DEF S
      <4>2. Len(q) = Len(r) - 1 /\ Len(r) <= Len(d) /\ Len(r) \in Nat /\ Len(d) \in Nat
        BY <1>1, <1>4, <1>5, <4>1 DEF Lifted
      <4> QED BY <4>2
    <3> QED BY <3>1, <3>2
  <2>2. Len(d) \in Nat /\ Q # {}
    BY <1>1, <1>9
  <2> HIDE DEF Q
  <2> QED BY <1>10, <2>1, <2>2, Deepest
<1>12. ASSUME NEW a \in Q, NEW b \in Q, Follows(b, a, Len(a))
       PROVE  a = b
  <2>0. Len(a) <= Len(b) /\ \A j \in 1..Len(a) : b[j] = a[j]
    BY <1>12 DEF Follows
  <2>00. Len(a) \in Nat /\ Len(b) \in Nat
    BY <1>10, PlaceSteps
  <2>1. CASE a \in U /\ b \in U
    BY <1>3, <1>6, <1>12, <2>1
  <2>2. CASE a \in U /\ b \in V
    <3>1. Follows(b, p, n)
      BY <1>2, <2>2
    <3>2. CASE Len(a) <= n
      <4>1. \A j \in 1..Len(a) : j \in 1..n
        BY <2>00, <3>2
      <4>2. \A j \in 1..Len(a) : p[j] = a[j]
        BY <2>0, <3>1, <4>1 DEF Follows
      <4>3. Len(a) <= Len(p)
        BY <2>00, <3>2
      <4>4. Follows(p, a, Len(a))
        BY <4>2, <4>3 DEF Follows
      <4>5. a = p
        BY <1>3, <1>6, <2>2, <4>4
      <4> QED BY <3>2, <4>5
    <3>3. CASE n <= Len(a)
      <4>1. \A j \in 1..n : j \in 1..Len(a)
        BY <2>00, <3>3
      <4>2. Follows(a, p, n)
        BY <2>0, <3>1, <3>3, <4>1 DEF Follows
      <4> QED BY <1>3, <2>2, <4>2
    <3> QED BY <2>00, <3>2, <3>3
  <2>3. CASE a \in V /\ b \in U
    <3>1. Follows(a, p, n)
      BY <1>2, <2>3
    <3>2. n <= Len(b) /\ \A j \in 1..n : j \in 1..Len(a)
      BY <2>0, <2>00, <3>1 DEF Follows
    <3>3. Follows(b, p, n)
      BY <2>0, <3>1, <3>2 DEF Follows
    <3> QED BY <1>3, <2>3, <3>3
  <2>4. CASE a \in V /\ b \in V
    <3>1. PICK r \in S : Lifted(a, r, p, n)
      BY <2>4 DEF S
    <3>2. PICK s \in S : Lifted(b, s, p, n)
      BY <2>4 DEF S
    <3>3. /\ r \in P /\ s \in P /\ Len(r) \in Nat /\ Len(s) \in Nat
          /\ Len(a) = Len(r) - 1 /\ Len(b) = Len(s) - 1
      BY <1>1, <1>4, <3>1, <3>2 DEF Lifted
    <3>4. ASSUME NEW j \in 1..Len(r) PROVE s[j] = r[j]
      <4>1. CASE j \in 1..n
        <5>1. r[j] = p[j] /\ s[j] = p[j]
          BY <1>4, <4>1 DEF Follows
        <5> QED BY <5>1
      <4>2. CASE j = n + 1
        <5>1. n + 1 \in 1..Len(s) /\ n + 1 \in 1..Len(r) /\ n + 1 \in 1..Len(p)
          BY <1>4, <3>3
        <5>2. s[n + 1] \in {1, 2} /\ r[n + 1] \in {1, 2} /\ p[n + 1] \in {1, 2}
          BY <1>1, <3>3, <5>1, PlaceSteps
        <5>3. s[n + 1] # p[n + 1] /\ r[n + 1] # p[n + 1]
          BY <1>4
        <5> QED BY <4>2, <5>2, <5>3
      <4>3. CASE j > n + 1
        <5>1. /\ j - 1 \in (n + 1)..Len(a) /\ j - 1 \in 1..Len(a)
              /\ j - 1 \in (n + 1)..Len(b) /\ (j - 1) + 1 = j
          BY <2>0, <2>00, <3>3, <4>3
        <5>2. a[j - 1] = r[j] /\ b[j - 1] = s[j]
          BY <3>1, <3>2, <5>1 DEF Lifted
        <5> QED BY <2>0, <5>1, <5>2
      <4> QED BY <4>1, <4>2, <4>3
    <3>5. Len(r) <= Len(s)
      BY <2>0, <3>3
    <3>6. r = s
      BY <1>6, <3>3, <3>4, <3>5 DEF Follows
    <3>7. Len(a) = Len(b)
      BY <3>3, <3>6
    <3> QED BY <1>2, <1>12, <2>4, <3>7, SamePlace
  <2> QED BY <2>1, <2>2, <2>3, <2>4
<1>13. ASSUME NEW q \in Q, NEW k \in 1..Len(q)
       PROVE  \E s \in Q : Follows(s, q, k - 1) /\ k <= Len(s) /\ s[k] # q[k]
  <2>0. k \in Nat /\ 1 <= k /\ k <= Len(q) /\ Len(q) \in Nat
    BY <1>10, PlaceSteps
  <2>1. CASE q \in U
    <3>1. PICK s \in P : Follows(s, q, k - 1) /\ k <= Len(s) /\ s[k] # q[k]
      BY <1>3, <1>7, <2>1
    <3>2. CASE ~Follows(s, p, n)
      BY <3>1, <3>2
    <3>3. CASE Follows(s, p, n) /\ k <= n
      <4>1. Follows(q0, p, n) /\ Len(q0) \in Nat
        BY <1>2, <1>9
      <4>2. k \in 1..n /\ \A j \in 1..(k - 1) : j \in 1..n
        BY <2>0, <3>3
      <4>3. k <= Len(q0) /\ k - 1 <= Len(q0)
        BY <2>0, <3>3, <4>1 DEF Follows
      <4>4. q0[k] = p[k] /\ s[k] = p[k]
        BY <3>3, <4>1, <4>2 DEF Follows
      <4>5. \A j \in 1..(k - 1) : q0[j] = q[j]
        BY <3>1, <3>3, <4>1, <4>2 DEF Follows
      <4> QED BY <1>9, <3>1, <4>3, <4>4, <4>5 DEF Follows
    <3>4. CASE Follows(s, p, n) /\ n < k
      <4>1. n <= Len(q) /\ \A j \in 1..n : j \in 1..(k - 1)
        BY <2>0, <3>4
      <4>2. Follows(q, p, n)
        BY <3>1, <3>4, <4>1 DEF Follows
      <4> QED BY <1>3, <2>1, <4>2
    <3> QED BY <2>0, <3>2, <3>3, <3>4
  <2>2. CASE q \in V
    <3>1. PICK r \in S : Lifted(q, r, p, n)
      BY <2>2 DEF S
    <3>2. /\ r \in P /\ Len(r) \in Nat /\ Len(q) = Len(r) - 1
          /\ Follows(r, p, n) /\ Follows(q, p, n) /\ n + 1 <= Len(r)
          /\ r[n + 1] # p[n + 1]
      BY <1>1, <1>4, <3>1 DEF Lifted
    <3>3. CASE k <= n
      <4>1. k \in 1..Len(r) /\ k \in 1..n /\ \A j \in 1..(k - 1) : j \in 1..n
        BY <2>0, <3>2, <3>3
      <4>2. PICK s \in P : Follows(s, r, k - 1) /\ k <= Len(s) /\ s[k] # r[k]
        BY <1>7, <3>2, <4>1
      <4>3. r[k] = p[k] /\ q[k] = p[k]
        BY <3>2, <4>1 DEF Follows
      <4>4. ~Follows(s, p, n)
        BY <4>1, <4>2, <4>3 DEF Follows
      <4>5. s \in U
        BY <4>4
      <4>6. \A j \in 1..(k - 1) : s[j] = q[j]
        BY <3>2, <4>1, <4>2 DEF Follows
      <4>7. k - 1 <= Len(s)
        BY <4>2 DEF Follows
      <4> QED BY <4>2, <4>3, <4>5, <4>6, <4>7 DEF Follows
    <3>4. CASE n < k
      <4>1. k + 1 \in 1..Len(r) /\ (k + 1) - 1 = k /\ n <= k
        BY <2>0, <3>2, <3>4
      <4>2. PICK s \in P : /\ Follows(s, r, k) /\ k + 1 <= Len(s)
                           /\ s[k + 1] # r[k + 1]
        BY <1>7, <3>2, <4>1
      <4>3. Len(s) \in Nat /\ \A j \in 1..n : j \in 1..k
        BY <1>1, <2>0, <3>4
      <4>4. n + 1 \in 1..k
        BY <2>0, <3>4
      <4>5. n <= Len(s) /\ n + 1 <= Len(s)
        BY <2>0, <3>4, <4>2, <4>3
      <4>6. Follows(s, p, n) /\ s[n + 1] # p[n + 1]
        BY <3>2, <4>2, <4>3, <4>4, <4>5 DEF Follows
      <4>7. s \in S
        BY <4>5, <4>6 DEF S, Beside
      <4>8. PICK t \in V : Lifted(t, s, p, n)
        BY <4>7 DEF S
      <4>9. /\ Len(t) = Len(s) - 1 /\ Follows(t, p, n)
            /\ \A j \in (n + 1)..Len(t) : t[j] = s[j + 1]
        BY <4>8 DEF Lifted
      <4>10. k <= Len(t) /\ k - 1 <= Len(t)
        BY <2>0, <4>2, <4>3, <4>9
      <4>11. k \in (n + 1)..Len(t) /\ k \in (n + 1)..Len(q)
        BY <2>0, <3>4, <4>9, <4>10, <4>3
      <4>12. t[k] # q[k]
        BY <3>1, <4>2, <4>9, <4>11 DEF Lifted
      <4>13. ASSUME NEW j \in 1..(k - 1) PROVE t[j] = q[j]
        <5>1. CASE j <= n
          <6>1. j \in 1..n
            BY <5>1
          <6> QED BY <3>2, <4>9, <6>1 DEF Follows
        <5>2. CASE n < j
          <6>1. j \in (n + 1)..Len(t) /\ j \in (n + 1)..Len(q) /\ j + 1 \in 1..k
            BY <2>0, <4>10, <5>2, <4>9, <4>3
          <6> QED BY <3>1, <4>2, <4>9, <6>1 DEF Lifted, Follows
        <5> QED BY <2>0, <5>1, <5>2
      <4> QED BY <4>10, <4>12, <4>13 DEF Follows
    <3> QED BY <2>0, <3>3, <3>4
  <2> QED BY <2>1, <2>2
<1> QED BY <1>10, <1>11, <1>12, <1>13 DEF Tree

\* A place beside the last step of p is moved up, and back.
LEMMA MoveUp ==
    ASSUME NEW p \in Place, NEW n \in Nat, Len(p) = n + 1,
           NEW r \in Place, Follows(r, p, n), n + 1 <= Len(r), r[n + 1] # p[n + 1]
    PROVE  LET split   == SubSeq(p, 1, n)
               sibling == Append(split, 3 - p[n + 1])
               q       == split \o Below(r, n + 1)
           IN  Lifted(q, r, p, n) /\ sibling \o Below(q, n) = r
<1> DEFINE split   == SubSeq(p, 1, n)
           sibling == Append(split, 3 - p[n + 1])
           tail    == Below(r, n + 1)
           q       == split \o tail
<1>1. Len(r) \in Nat
  BY PlaceSteps
<1>2. split \in Place /\ Len(split) = n /\ \A j \in 1..n : split[j] = p[j]
  BY TakeSteps
<1>3. /\ sibling \in Place /\ Len(sibling) = n + 1 /\ Follows(sibling, p, n)
      /\ sibling[n + 1] = 3 - p[n + 1]
  <2>1. n + 1 \in 1..Len(p) /\ (n + 1) - 1 = n
    OBVIOUS
  <2> QED BY <2>1, SideSteps
<1>4. r[n + 1] = 3 - p[n + 1]
  <2>1. n + 1 \in 1..Len(r) /\ n + 1 \in 1..Len(p)
    BY <1>1
  <2>2. r[n + 1] \in {1, 2} /\ p[n + 1] \in {1, 2}
    BY <2>1, PlaceSteps
  <2> QED BY <2>2
<1>5. /\ tail \in Place /\ Len(tail) = Len(r) - (n + 1)
      /\ \A j \in 1..(Len(r) - (n + 1)) : tail[j] = r[(n + 1) + j]
  <2>1. n + 1 \in 0..Len(r)
    BY <1>1
  <2> QED BY <2>1, DropSteps
<1> HIDE DEF split, sibling, tail
<1>6. /\ q \in Place /\ Len(q) = n + Len(tail)
      /\ \A j \in 1..n : q[j] = split[j]
      /\ \A j \in 1..Len(tail) : q[n + j] = tail[j]
  BY <1>2, <1>5, JoinSteps
<1> HIDE DEF q
<1>7. Len(q) = Len(r) - 1 /\ n <= Len(q) /\ Len(q) \in Nat
  BY <1>1, <1>5, <1>6
<1>8. Follows(q, p, n)
  BY <1>2, <1>6, <1>7 DEF Follows
<1>9. ASSUME NEW j \in (n + 1)..Len(q) PROVE q[j] = r[j + 1]
  <2>1. /\ j - n \in 1..Len(tail) /\ n + (j - n) = j /\ (n + 1) + (j - n) = j + 1
        /\ j - n \in 1..(Len(r) - (n + 1))
    BY <1>1, <1>5, <1>7
  <2> QED BY <1>5, <1>6, <2>1
<1>10. sibling \o Below(q, n) = r
  <2> DEFINE b == Below(q, n)
             t == sibling \o b
  <2>1. n \in 0..Len(q)
    BY <1>7
  <2>2. /\ b \in Place /\ Len(b) = Len(q) - n
        /\ \A j \in 1..(Len(q) - n) : b[j] = q[n + j]
    BY <1>6, <2>1, DropSteps
  <2> HIDE DEF b
  <2>3. /\ t \in Place /\ Len(t) = n + 1 + Len(b)
        /\ \A j \in 1..(n + 1) : t[j] = sibling[j]
        /\ \A j \in 1..Len(b) : t[(n + 1) + j] = b[j]
    <3>1. /\ t \in Place /\ Len(t) = Len(sibling) + Len(b)
          /\ \A j \in 1..Len(sibling) : t[j] = sibling[j]
          /\ \A j \in 1..Len(b) : t[Len(sibling) + j] = b[j]
      BY <1>3, <2>2, JoinSteps
    <3> HIDE DEF t
    <3> QED BY <1>3, <3>1
  <2> HIDE DEF t
  <2>4. Len(t) = Len(r)
    BY <1>1, <1>7, <2>2, <2>3
  <2>5. ASSUME NEW j \in 1..Len(t) PROVE r[j] = t[j]
    <3>1. CASE j \in 1..n
      <4>1. j \in 1..(n + 1)
        BY <3>1
      <4> QED BY <3>1, <4>1, <2>3, <1>3 DEF Follows
    <3>2. CASE j = n + 1
      <4>1. n + 1 \in 1..(n + 1)
        OBVIOUS
      <4> QED BY <3>2, <4>1, <1>3, <1>4, <2>3
    <3>3. CASE n + 1 < j
      <4>1. /\ j - (n + 1) \in 1..Len(b) /\ (n + 1) + (j - (n + 1)) = j
            /\ j - (n + 1) \in 1..(Len(q) - n) /\ n + (j - (n + 1)) = j - 1
            /\ j - 1 \in (n + 1)..Len(q) /\ (j - 1) + 1 = j
        BY <1>1, <1>7, <2>2, <2>3, <2>4, <3>3
      <4>2. t[j] = b[j - (n + 1)] /\ b[j - (n + 1)] = q[j - 1] /\ q[j - 1] = r[j]
        BY <1>9, <2>2, <2>3, <4>1
      <4> QED BY <4>2
    <3> QED BY <1>1, <2>4, <3>1, <3>2, <3>3
  <2>6. t = r
    BY <1>1, <2>3, <2>4, <2>5, SamePlace DEF Follows
  <2> QED BY <2>6 DEF t, b
<1> QED BY <1>6, <1>7, <1>8, <1>9, <1>10 DEF Lifted, q, tail, split, sibling

\* What is left of the tree are the other leaves, each at one place.
LEMMA CloseLeafPlaces ==
    ASSUME NEW L, IsTree(DOMAIN L), NEW id, HasLeaf(L, id), DOMAIN L # {<<>>}
    PROVE  \E p \in LeavesAt(L, id) :
             LET M == CloseLeaf(L, id)
             IN  /\ IsTree(DOMAIN M)
                 /\ \E from \in [DOMAIN M -> DOMAIN L \ {p}] :
                      /\ \A q \in DOMAIN M : M[q] = L[from[q]]
                      /\ \A q, s \in DOMAIN M : from[q] = from[s] => q = s
                      /\ \A r \in DOMAIN L \ {p} : \E q \in DOMAIN M : from[q] = r
<1> DEFINE P       == DOMAIN L
           p       == CHOOSE q \in LeavesAt(L, id) : TRUE
           n       == Len(p) - 1
           split   == SubSeq(p, 1, n)
           sibling == Append(split, 3 - p[n + 1])
           U       == {r \in P : ~Prefix(split, r)}
           V       == {split \o Below(r, n + 1) :
                         r \in {s \in P : Prefix(sibling, s)}}
           M       == CloseLeaf(L, id)
           At(q)   == IF Prefix(split, q) THEN sibling \o Below(q, n) ELSE q
<1>1. p \in LeavesAt(L, id) /\ p \in P
  BY DEF HasLeaf, CollectLeafIds, LeavesAt
<1>2. /\ DOMAIN M = U \cup V
      /\ \A q \in U \cup V : M[q] = IF Prefix(split, q)
                                    THEN L[sibling \o Below(q, n)] ELSE L[q]
  BY DEF CloseLeaf
<1> HIDE DEF p, M
<1>3. Tree(P) /\ \A r \in P : r \in Place /\ Len(r) \in Nat
  BY TreeSteps, PlaceSteps DEF Tree
<1>4. Len(p) # 0
  <2> SUFFICES ASSUME Len(p) = 0 PROVE FALSE
    OBVIOUS
  <2>1. \A q \in P : Follows(q, p, Len(p))
    BY <1>3 DEF Follows
  <2>2. \A q \in P : q = p
    BY <1>1, <1>3, <2>1 DEF Tree
  <2>3. p = <<>>
    BY <1>1, <1>3, EmptySeq DEF Place
  <2> QED BY <1>1, <2>2, <2>3
<1>5. n \in Nat /\ Len(p) = n + 1 /\ p \in Place
  BY <1>1, <1>3, <1>4
<1> HIDE DEF n
<1>6. split \in Place /\ Len(split) = n /\ \A j \in 1..n : split[j] = p[j]
  BY <1>5, TakeSteps
<1>7. \A r \in Place : Prefix(split, r) <=> Follows(r, p, n)
  <2> HIDE DEF split
  <2> QED BY <1>6, PrefixSteps DEF Follows
<1>8. \A r \in Place : Prefix(sibling, r) <=>
          Follows(r, p, n) /\ n + 1 <= Len(r) /\ r[n + 1] # p[n + 1]
  <2>1. n + 1 \in 1..Len(p) /\ (n + 1) - 1 = n
    BY <1>5
  <2> QED BY <1>5, <2>1, SideSteps
<1>9. {s \in P : Prefix(sibling, s)} = Beside(P, p, n)
  <2> HIDE DEF sibling
  <2> QED BY <1>3, <1>8 DEF Beside
<1>10. ASSUME NEW r \in Beside(P, p, n)
       PROVE  /\ split \o Below(r, n + 1) \in V
              /\ Lifted(split \o Below(r, n + 1), r, p, n)
              /\ sibling \o Below(split \o Below(r, n + 1), n) = r
  <2>1. r \in P /\ Follows(r, p, n) /\ n + 1 <= Len(r) /\ r[n + 1] # p[n + 1]
    BY DEF Beside
  <2>2. r \in Place
    BY <1>3, <2>1
  <2>3. split \o Below(r, n + 1) \in V
    BY <1>9
  <2>4. /\ Lifted(split \o Below(r, n + 1), r, p, n)
        /\ sibling \o Below(split \o Below(r, n + 1), n) = r
    BY <1>5, <2>1, <2>2, MoveUp
  <2> QED BY <2>3, <2>4
<1>11. ASSUME NEW q \in V
       PROVE  \E r \in Beside(P, p, n) : /\ q = split \o Below(r, n + 1)
                                         /\ Lifted(q, r, p, n)
                                         /\ sibling \o Below(q, n) = r
  <2>1. PICK r \in Beside(P, p, n) : q = split \o Below(r, n + 1)
    BY <1>9
  <2> QED BY <1>10, <2>1
<1> HIDE DEF V
<1>12. U = {r \in P : ~Follows(r, p, n)}
  <2> HIDE DEF split
  <2> QED BY <1>3, <1>7
<1> HIDE DEF U, split, sibling
<1>13. IsTree(DOMAIN M)
  <2>1. \A q \in V : \E r \in Beside(P, p, n) : Lifted(q, r, p, n)
    BY <1>11
  <2>2. \A r \in Beside(P, p, n) : \E q \in V : Lifted(q, r, p, n)
    BY <1>10
  <2>3. Tree(U \cup V)
    BY <1>1, <1>3, <1>5, <1>12, <2>1, <2>2, CloseTree
  <2> QED BY <1>2, <2>3, TreeSteps
<1>14. ASSUME NEW q \in U
       PROVE  q \in P \ {p} /\ At(q) = q /\ M[q] = L[q]
  <2>1. q \in P /\ ~Follows(q, p, n)
    BY <1>12
  <2>2. ~Prefix(split, q)
    BY <1>3, <1>7, <2>1
  <2>3. Follows(p, p, n)
    BY <1>5 DEF Follows
  <2> QED BY <1>2, <2>1, <2>2, <2>3
<1>15. ASSUME NEW q \in V
       PROVE  At(q) \in Beside(P, p, n) /\ M[q] = L[At(q)]
              /\ q = split \o Below(At(q), n + 1)
  <2>1. PICK r \in Beside(P, p, n) : /\ q = split \o Below(r, n + 1)
                                     /\ Lifted(q, r, p, n)
                                     /\ sibling \o Below(q, n) = r
    BY <1>11
  <2>2. Prefix(split, q)
    BY <1>7, <2>1 DEF Lifted
  <2> QED BY <1>2, <2>1, <2>2
<1>16. \A r \in Beside(P, p, n) : r \in P \ {p} /\ Follows(r, p, n)
  BY DEF Beside
<1> DEFINE from == [q \in DOMAIN M |-> At(q)]
<1>17. \A q \in DOMAIN M : from[q] = At(q)
  OBVIOUS
<1>18. from \in [DOMAIN M -> P \ {p}]
  <2>1. \A q \in DOMAIN M : At(q) \in P \ {p}
    BY <1>2, <1>14, <1>15, <1>16
  <2> HIDE DEF At
  <2> QED BY <2>1
<1> HIDE DEF from, At
<1>19. \A q \in DOMAIN M : M[q] = L[from[q]]
  BY <1>2, <1>14, <1>15, <1>17
<1>20. ASSUME NEW q \in DOMAIN M, NEW s \in DOMAIN M, from[q] = from[s]
       PROVE  q = s
  <2>1. At(q) = At(s)
    BY <1>17, <1>20
  <2>2. CASE q \in U /\ s \in U
    BY <1>14, <2>1, <2>2
  <2>3. CASE q \in U /\ s \in V
    BY <1>12, <1>14, <1>15, <1>16, <2>1, <2>3
  <2>4. CASE q \in V /\ s \in U
    BY <1>12, <1>14, <1>15, <1>16, <2>1, <2>4
  <2>5. CASE q \in V /\ s \in V
    BY <1>15, <2>1, <2>5
  <2> QED BY <1>2, <2>2, <2>3, <2>4, <2>5
<1>21. ASSUME NEW r \in P \ {p}
       PROVE  \E q \in DOMAIN M : from[q] = r
  <2>1. CASE ~Follows(r, p, n)
    <3>1. r \in U
      BY <1>12, <2>1
    <3> QED BY <1>2, <1>14, <1>17, <3>1
  <2>2. CASE Follows(r, p, n)
    <3>1. r \in Place /\ Len(r) \in Nat /\ n <= Len(r)
      BY <1>3, <2>2 DEF Follows
    <3>2. Len(r) # n
      <4> SUFFICES ASSUME Len(r) = n PROVE FALSE
        OBVIOUS
      <4>1. Follows(p, r, Len(r))
        BY <1>5, <2>2 DEF Follows
      <4> QED BY <1>1, <1>3, <4>1 DEF Tree
    <3>3. n + 1 <= Len(r)
      BY <1>5, <3>1, <3>2
    <3>4. r[n + 1] # p[n + 1]
      <4> SUFFICES ASSUME r[n + 1] = p[n + 1] PROVE FALSE
        OBVIOUS
      <4>1. \A j \in 1..(n + 1) : j \in 1..n \/ j = n + 1
        BY <1>5
      <4>2. Follows(r, p, n + 1)
        BY <2>2, <3>3, <4>1 DEF Follows
      <4> QED BY <1>1, <1>3, <1>5, <4>2 DEF Tree
    <3>5. r \in Beside(P, p, n)
      BY <2>2, <3>3, <3>4 DEF Beside
    <3> DEFINE q == split \o Below(r, n + 1)
    <3>6. q \in V /\ sibling \o Below(q, n) = r /\ Lifted(q, r, p, n)
      BY <1>10, <3>5
    <3> HIDE DEF q
    <3>7. At(q) = r
      BY <1>7, <3>6 DEF Lifted, At
    <3> QED BY <1>2, <1>17, <3>6, <3>7
  <2> QED BY <2>1, <2>2
<1>22. \E f \in [DOMAIN M -> P \ {p}] :
         /\ \A q \in DOMAIN M : M[q] = L[f[q]]
         /\ \A q, s \in DOMAIN M : f[q] = f[s] => q = s
         /\ \A r \in P \ {p} : \E q \in DOMAIN M : f[q] = r
  BY <1>18, <1>19, <1>20, <1>21
<1> QED BY <1>1, <1>13, <1>22 DEF M

\* closeLeaf makes a binary tree of one: it loses at most the leaf that is
\* closed, and does lose it unless it is the last.
LEMMA CloseLeafProperties ==
    ASSUME NEW L, IsTree(DOMAIN L), NEW id
    PROVE  LET M == CloseLeaf(L, id)
           IN  /\ IsTree(DOMAIN M)
               /\ \A q \in DOMAIN M : \E p \in DOMAIN L : M[q] = L[p]
               /\ CollectLeafIds(M) \subseteq CollectLeafIds(L)
               /\ CollectLeafIds(L) \subseteq CollectLeafIds(M) \cup {id}
               /\ Distinct(L) => Distinct(M)
               /\ Distinct(L) /\ DOMAIN L # {<<>>} => ~HasLeaf(M, id)
<1> DEFINE M == CloseLeaf(L, id)
<1>1. CASE ~HasLeaf(L, id) \/ DOMAIN L = {<<>>}
  BY <1>1 DEF CloseLeaf, HasLeaf
<1>2. CASE HasLeaf(L, id) /\ DOMAIN L # {<<>>}
  <2>1. PICK p \in LeavesAt(L, id) :
          /\ IsTree(DOMAIN M)
          /\ \E from \in [DOMAIN M -> DOMAIN L \ {p}] :
               /\ \A q \in DOMAIN M : M[q] = L[from[q]]
               /\ \A q, s \in DOMAIN M : from[q] = from[s] => q = s
               /\ \A r \in DOMAIN L \ {p} : \E q \in DOMAIN M : from[q] = r
    BY <1>2, CloseLeafPlaces
  <2> HIDE DEF M
  <2>2. PICK from \in [DOMAIN M -> DOMAIN L \ {p}] :
          /\ \A q \in DOMAIN M : M[q] = L[from[q]]
          /\ \A q, s \in DOMAIN M : from[q] = from[s] => q = s
          /\ \A r \in DOMAIN L \ {p} : \E q \in DOMAIN M : from[q] = r
    BY <2>1
  <2>3. \A q \in DOMAIN M : from[q] \in DOMAIN L /\ from[q] # p
    BY <2>2
  <2>4. p \in DOMAIN L /\ L[p].id = id
    BY DEF LeavesAt
  <2>5. \A q \in DOMAIN M : \E r \in DOMAIN L : M[q] = L[r]
    BY <2>2, <2>3
  <2>6. CollectLeafIds(M) \subseteq CollectLeafIds(L)
    BY <2>5 DEF CollectLeafIds
  <2>7. CollectLeafIds(L) \subseteq CollectLeafIds(M) \cup {id}
    <3> SUFFICES ASSUME NEW r \in DOMAIN L, L[r].id # id
                 PROVE  \E q \in DOMAIN M : M[q].id = L[r].id
      BY DEF CollectLeafIds
    <3>1. r \in DOMAIN L \ {p}
      BY <2>4
    <3> QED BY <2>2, <3>1
  <2>8. Distinct(L) => Distinct(M)
    BY <2>2, <2>3 DEF Distinct
  <2>9. Distinct(L) => ~HasLeaf(M, id)
    BY <2>2, <2>3, <2>4 DEF Distinct, HasLeaf, CollectLeafIds
  <2> QED BY <2>1, <2>5, <2>6, <2>7, <2>8, <2>9 DEF M
<1> QED BY <1>1, <1>2

-----------------------------------------------------------------------------
(* The order of the leaves                                                 *)

LEMMA LeftOfSteps ==
    ASSUME NEW p \in Place, NEW q \in Place
    PROVE  LeftOf(p, q) <=>
             \E k \in 1..Len(p) : /\ k <= Len(q)
                                  /\ \A j \in 1..(k - 1) : q[j] = p[j]
                                  /\ p[k] < q[k]
<1>1. Len(p) \in Nat /\ Len(q) \in Nat
  BY PlaceSteps
<1>2. ASSUME NEW k \in 1..Len(p), k <= Len(q)
      PROVE  SubSeq(p, 1, k - 1) = SubSeq(q, 1, k - 1)
               <=> \A j \in 1..(k - 1) : q[j] = p[j]
  <2> DEFINE a == SubSeq(p, 1, k - 1)
             b == SubSeq(q, 1, k - 1)
  <2>1. k - 1 \in 0..Len(p) /\ k - 1 \in 0..Len(q) /\ k - 1 \in Nat
    BY <1>1, <1>2
  <2>2. a \in Place /\ Len(a) = k - 1 /\ \A j \in 1..(k - 1) : a[j] = p[j]
    BY <2>1, TakeSteps
  <2>3. b \in Place /\ Len(b) = k - 1 /\ \A j \in 1..(k - 1) : b[j] = q[j]
    BY <2>1, TakeSteps
  <2> HIDE DEF a, b
  <2>4. (\A j \in 1..(k - 1) : q[j] = p[j]) => a = b
    BY <2>1, <2>2, <2>3, SamePlace DEF Follows
  <2>5. a = b <=> \A j \in 1..(k - 1) : q[j] = p[j]
    BY <2>2, <2>3, <2>4
  <2> QED BY <2>5 DEF a, b
<1> QED BY <1>2 DEF LeftOf

LEMMA LeftOfIsStrict ==
    ASSUME NEW p \in Place, NEW q \in Place, LeftOf(p, q)
    PROVE  p # q /\ ~LeftOf(q, p)
<1>1. PICK k \in 1..Len(p) : /\ k <= Len(q)
                             /\ \A j \in 1..(k - 1) : q[j] = p[j]
                             /\ p[k] < q[k]
  BY LeftOfSteps
<1>2. Len(p) \in Nat /\ Len(q) \in Nat /\ k \in 1..Len(q)
  BY <1>1, PlaceSteps
<1>3. p[k] \in {1, 2} /\ q[k] \in {1, 2}
  BY <1>2, PlaceSteps
<1>4. p # q
  BY <1>1, <1>3
<1>5. ASSUME NEW m \in 1..Len(q), m <= Len(p),
             \A j \in 1..(m - 1) : p[j] = q[j], q[m] < p[m]
      PROVE  FALSE
  <2>1. m \in 1..Len(p)
    BY <1>2, <1>5
  <2>2. p[m] \in {1, 2} /\ q[m] \in {1, 2}
    BY <2>1, PlaceSteps
  <2>3. CASE m < k
    <3>1. m \in 1..(k - 1)
      BY <2>3
    <3> QED BY <1>1, <1>5, <2>2, <3>1
  <2>4. CASE k < m
    <3>1. k \in 1..(m - 1)
      BY <2>4
    <3> QED BY <1>1, <1>3, <1>5, <3>1
  <2>5. CASE k = m
    BY <1>1, <1>3, <1>5, <2>5
  <2> QED BY <2>3, <2>4, <2>5
<1>6. ~LeftOf(q, p)
  BY <1>5, LeftOfSteps
<1> QED BY <1>4, <1>6

\* p and q go the same way up to their m-th steps, which are apart.
Part(p, q, m) == /\ 1 <= m /\ m <= Len(p) /\ m <= Len(q)
                 /\ \A j \in 1..(m - 1) : q[j] = p[j]
                 /\ q[m] # p[m]

LEMMA PlacesPart ==
    ASSUME NEW P, Tree(P), NEW p \in P, NEW q \in P, p # q
    PROVE  \E m \in Nat : Part(p, q, m)
<1>1. p \in Place /\ q \in Place /\ Len(p) \in Nat /\ Len(q) \in Nat
  BY PlaceSteps DEF Tree
<1> DEFINE T == {m \in Nat : /\ 1 <= m /\ m <= Len(p) /\ m <= Len(q)
                             /\ q[m] # p[m]}
<1>2. T # {}
  <2>0. ~Follows(q, p, Len(p)) /\ ~Follows(p, q, Len(q))
    BY DEF Tree
  <2>1. Len(q) < Len(p) \/ \E m \in 1..Len(p) : q[m] # p[m]
    BY <1>1, <2>0 DEF Follows
  <2>2. Len(p) < Len(q) \/ \E m \in 1..Len(q) : q[m] # p[m]
    BY <1>1, <2>0 DEF Follows
  <2>3. CASE \E m \in 1..Len(p) : m <= Len(q) /\ q[m] # p[m]
    BY <1>1, <2>3
  <2>4. CASE \E m \in 1..Len(q) : m <= Len(p) /\ q[m] # p[m]
    BY <1>1, <2>4
  <2>5. Len(q) < Len(p) => \A m \in 1..Len(q) : m <= Len(p)
    BY <1>1
  <2>6. Len(p) <= Len(q) => \A m \in 1..Len(p) : m <= Len(q)
    BY <1>1
  <2> QED BY <1>1, <2>1, <2>2, <2>3, <2>4, <2>5, <2>6
<1>3. PICK m \in T : \A k \in T : m <= k
  BY <1>2, LeastNat
<1>4. ASSUME NEW j \in 1..(m - 1) PROVE q[j] = p[j]
  <2>1. /\ j \in Nat /\ 1 <= j /\ j < m /\ m \in Nat
        /\ m <= Len(p) /\ m <= Len(q)
    BY <1>3
  <2>2. j <= Len(p) /\ j <= Len(q)
    BY <1>1, <2>1
  <2>3. j \notin T
    BY <1>3, <2>1
  <2> QED BY <2>1, <2>2, <2>3
<1> QED BY <1>3, <1>4 DEF Part

\* Some leaves of a tree have a leftmost one.
LEMMA LeftmostIsThere ==
    ASSUME NEW P, IsTree(P), NEW R, R \subseteq P, R # {}
    PROVE  \E p \in R : \A q \in R : p = q \/ LeftOf(p, q)
<1>1. Tree(P)
  BY TreeSteps
<1>2. \A p \in R : p \in P /\ p \in Place /\ Len(p) \in Nat
  BY <1>1, PlaceSteps DEF Tree
<1>3. PICK d \in P : \A q \in P : Len(q) <= Len(d)
  BY <1>1 DEF Tree
<1>4. Len(d) \in Nat
  BY <1>1, <1>3, PlaceSteps DEF Tree
<1> DEFINE Least(p, k) ==
             \A q \in R : \A m \in Nat : m <= k /\ Part(p, q, m) => p[m] < q[m]
           T == {k \in Nat : k <= Len(d) /\ \E p \in R : Least(p, k)}
<1>5. 0 \in T
  <2>1. PICK p \in R : TRUE
    OBVIOUS
  <2>2. Least(p, 0)
    BY DEF Part
  <2> QED BY <1>4, <2>1, <2>2
<1>6. PICK n \in T : \A k \in T : k <= n
  BY <1>4, <1>5, GreatestNat
<1>7. PICK p \in R : Least(p, n)
  BY <1>6
<1>8. n \in Nat /\ n <= Len(d)
  BY <1>6
<1>9. n = Len(d)
  <2> SUFFICES ASSUME n # Len(d) PROVE FALSE
    OBVIOUS
  <2>1. n + 1 \in Nat /\ n + 1 <= Len(d) /\ ~(n + 1 <= n)
    BY <1>4, <1>8
  <2>2. n + 1 \notin T
    BY <1>6, <2>1
  <2>3. \A r \in R : ~Least(r, n + 1)
    BY <2>1, <2>2
  <2>4. PICK q \in R, m \in Nat : m <= n + 1 /\ Part(p, q, m) /\ ~(p[m] < q[m])
    BY <2>3
  <2>5. m = n + 1
    <3>1. ~(m <= n)
      BY <1>7, <2>4
    <3> QED BY <1>8, <2>4, <3>1
  <2>6. /\ n + 1 \in 1..Len(p) /\ n + 1 \in 1..Len(q)
        /\ \A j \in 1..n : q[j] = p[j]
        /\ q[n + 1] # p[n + 1] /\ ~(p[n + 1] < q[n + 1])
    <3>1. (n + 1) - 1 = n
      BY <1>8
    <3> QED BY <1>2, <1>8, <2>4, <2>5, <3>1 DEF Part
  <2>7. q[n + 1] = 1
    <3>1. p[n + 1] \in {1, 2} /\ q[n + 1] \in {1, 2}
      BY <1>2, <2>6, PlaceSteps
    <3> QED BY <2>6, <3>1
  <2>8. ASSUME NEW r \in R, NEW k \in Nat, k <= n + 1, Part(q, r, k)
        PROVE  q[k] < r[k]
    <3>1. /\ 1 <= k /\ k <= Len(q) /\ k <= Len(r) /\ r[k] # q[k]
          /\ \A j \in 1..(k - 1) : r[j] = q[j]
      BY <2>8 DEF Part
    <3>2. CASE k = n + 1
      <4>1. r[k] \in {1, 2}
        <5>1. k \in 1..Len(r)
          BY <1>2, <3>1
        <5> QED BY <1>2, <5>1, PlaceSteps
      <4> QED BY <2>7, <3>1, <3>2, <4>1
    <3>3. CASE k # n + 1
      <4>1. k <= n /\ k \in 1..n
        BY <1>8, <2>8, <3>1, <3>3
      <4>2. k <= Len(p)
        <5>1. n + 1 <= Len(p)
          BY <2>6
        <5> QED BY <1>2, <1>8, <4>1, <5>1
      <4>3. q[k] = p[k]
        BY <2>6, <4>1
      <4>4. \A j \in 1..(k - 1) : r[j] = p[j]
        <5>1. \A j \in 1..(k - 1) : j \in 1..n
          BY <1>8, <4>1
        <5> QED BY <2>6, <3>1, <5>1
      <4>5. Part(p, r, k)
        BY <3>1, <4>2, <4>3, <4>4 DEF Part
      <4> QED BY <1>7, <4>1, <4>3, <4>5
    <3> QED BY <3>2, <3>3
  <2>9. Least(q, n + 1)
    BY <2>8
  <2> QED BY <2>3, <2>9
<1>10. ASSUME NEW q \in R, p # q PROVE LeftOf(p, q)
  <2>1. PICK m \in Nat : Part(p, q, m)
    BY <1>1, <1>2, <1>10, PlacesPart
  <2>2. m <= n
    <3>1. m <= Len(p) /\ Len(p) <= Len(d)
      BY <1>2, <1>3, <2>1 DEF Part
    <3> QED BY <1>2, <1>4, <1>9, <3>1
  <2>3. p[m] < q[m]
    BY <1>7, <2>1, <2>2
  <2>4. /\ m \in 1..Len(p) /\ m <= Len(q)
        /\ \A j \in 1..(m - 1) : q[j] = p[j]
    BY <1>2, <2>1 DEF Part
  <2> QED BY <1>2, <2>3, <2>4, LeftOfSteps
<1> QED BY <1>10

-----------------------------------------------------------------------------
(* chainSplits                                                             *)

LEMMA ChainSteps ==
    ASSUME NEW n \in Nat \ {0}, NEW i \in 1..n
    PROVE  LET p == ChainPlace(n, i)
           IN  /\ p \in Place
               /\ Len(p) = IF i = n THEN n - 1 ELSE i
               /\ \A k \in 1..(i - 1) : p[k] = 2
               /\ i # n => p[i] = 1
<1>1. CASE i = n
  <2>1. ChainPlace(n, i) = [k \in 1..(n - 1) |-> 2]
    BY <1>1 DEF ChainPlace
  <2>2. n - 1 \in Nat
    OBVIOUS
  <2> QED BY <1>1, <2>1, <2>2 DEF Place
<1>2. CASE i # n
  <2>1. ChainPlace(n, i) = [k \in 1..i |-> IF k = i THEN 1 ELSE 2]
    BY <1>2 DEF ChainPlace
  <2>2. i \in Nat /\ i \in 1..i /\ \A k \in 1..(i - 1) : k \in 1..i /\ k # i
    OBVIOUS
  <2> DEFINE f == [k \in 1..i |-> IF k = i THEN 1 ELSE 2]
  <2>3. f \in Place /\ Len(f) = i
    BY <2>2 DEF Place
  <2>4. (\A k \in 1..(i - 1) : f[k] = 2) /\ f[i] = 1
    BY <2>2
  <2> QED BY <1>2, <2>1, <2>3, <2>4
<1> QED BY <1>1, <1>2

LEMMA ChainOrder ==
    ASSUME NEW n \in Nat \ {0}, NEW i \in 1..n, NEW j \in 1..n, i < j
    PROVE  LeftOf(ChainPlace(n, i), ChainPlace(n, j))
<1> DEFINE p == ChainPlace(n, i)
           q == ChainPlace(n, j)
<1>1. p \in Place /\ Len(p) = i /\ (\A k \in 1..(i - 1) : p[k] = 2) /\ p[i] = 1
  BY ChainSteps
<1>2. q \in Place /\ i <= Len(q) /\ \A k \in 1..(j - 1) : q[k] = 2
  <2>1. /\ q \in Place /\ Len(q) = (IF j = n THEN n - 1 ELSE j)
        /\ \A k \in 1..(j - 1) : q[k] = 2
    BY ChainSteps
  <2> HIDE DEF q
  <2> QED BY <2>1
<1> HIDE DEF p, q
<1>3. i \in 1..Len(p) /\ i \in 1..(j - 1) /\ \A k \in 1..(i - 1) : k \in 1..(j - 1)
  BY <1>1
<1>4. \E k \in 1..Len(p) : /\ k <= Len(q)
                           /\ \A m \in 1..(k - 1) : q[m] = p[m]
                           /\ p[k] < q[k]
  BY <1>1, <1>2, <1>3
<1> QED BY <1>1, <1>2, <1>4, LeftOfSteps DEF p, q

LEMMA ChainTree ==
    ASSUME NEW n \in Nat \ {0}
    PROVE  /\ Tree({ChainPlace(n, i) : i \in 1..n})
           /\ \A p \in {ChainPlace(n, i) : i \in 1..n} : Len(p) <= n
<1> DEFINE P == {ChainPlace(n, i) : i \in 1..n}
           C(i) == ChainPlace(n, i)
<1>1. ASSUME NEW i \in 1..n
      PROVE  /\ C(i) \in P /\ C(i) \in Place
             /\ Len(C(i)) = (IF i = n THEN n - 1 ELSE i)
             /\ \A k \in 1..(i - 1) : C(i)[k] = 2
             /\ i # n => C(i)[i] = 1
  BY ChainSteps
<1>2. \A p \in P : \E i \in 1..n : p = C(i)
  OBVIOUS
<1> HIDE DEF P, C
<1>3. P \subseteq Place
  BY <1>1, <1>2
<1>4. \A p \in P : Len(p) <= n
  BY <1>1, <1>2
<1>5. \E p \in P : \A q \in P : Len(q) <= Len(p)
  <2>1. P # {}
    <3>1. 1 \in 1..n
      OBVIOUS
    <3> QED BY <1>1, <3>1
  <2> QED BY <1>3, <1>4, <2>1, Deepest
<1>6. ASSUME NEW i \in 1..n, NEW j \in 1..n, Follows(C(j), C(i), Len(C(i)))
      PROVE  i = j
  <2>1. Len(C(i)) <= Len(C(j)) /\ \A k \in 1..Len(C(i)) : C(j)[k] = C(i)[k]
    BY <1>6 DEF Follows
  <2>2. CASE i # n
    <3>1. i \in 1..Len(C(i)) /\ C(i)[i] = 1
      BY <1>1, <2>2
    <3>2. C(j)[i] = 1 /\ i <= Len(C(j))
      BY <1>1, <2>1, <2>2, <3>1
    <3>3. ~(i \in 1..(j - 1))
      <4>1. \A k \in 1..(j - 1) : C(j)[k] = 2
        BY <1>1
      <4> QED BY <3>2, <4>1
    <3>4. Len(C(j)) = IF j = n THEN n - 1 ELSE j
      BY <1>1
    <3> QED BY <3>2, <3>3, <3>4
  <2>3. CASE i = n /\ j # n
    <3>1. Len(C(i)) = n - 1 /\ Len(C(j)) = j
      BY <1>1, <2>3
    <3>2. j = n - 1 /\ j \in 1..Len(C(i)) /\ j \in 1..(i - 1)
      BY <2>1, <2>3, <3>1
    <3>3. C(j)[j] = 1 /\ C(i)[j] = 2
      BY <1>1, <2>3, <3>2
    <3> QED BY <2>1, <3>2, <3>3
  <2> QED BY <2>2, <2>3
<1>7. \A p, q \in P : Follows(q, p, Len(p)) => p = q
  BY <1>2, <1>6
<1>8. ASSUME NEW i \in 1..n, NEW k \in 1..Len(C(i))
      PROVE  \E j \in 1..n : /\ Follows(C(j), C(i), k - 1) /\ k <= Len(C(j))
                             /\ C(j)[k] # C(i)[k]
  <2>0. /\ Len(C(i)) = (IF i = n THEN n - 1 ELSE i)
        /\ \A m \in 1..(i - 1) : C(i)[m] = 2
        /\ i # n => C(i)[i] = 1
    BY <1>1
  <2>1. CASE k < i
    <3>1. k \in 1..n /\ k # n /\ k \in 1..(i - 1)
      BY <2>1
    <3>2. /\ Len(C(k)) = k /\ C(k)[k] = 1 /\ \A m \in 1..(k - 1) : C(k)[m] = 2
      BY <1>1, <3>1
    <3>3. \A m \in 1..(k - 1) : m \in 1..(i - 1)
      BY <2>1
    <3>4. Follows(C(k), C(i), k - 1)
      BY <2>0, <3>1, <3>2, <3>3 DEF Follows
    <3>5. k <= Len(C(k)) /\ C(k)[k] # C(i)[k]
      BY <2>0, <3>1, <3>2
    <3> QED BY <3>1, <3>4, <3>5
  <2>2. CASE ~(k < i)
    <3>1. k = i /\ i # n
      BY <2>0, <2>2
    <3>2. i + 1 \in 1..n /\ i \in 1..((i + 1) - 1)
      BY <3>1
    <3>3. /\ Len(C(i + 1)) = (IF i + 1 = n THEN n - 1 ELSE i + 1)
          /\ \A m \in 1..((i + 1) - 1) : C(i + 1)[m] = 2
      BY <1>1, <3>2
    <3>4. k <= Len(C(i + 1)) /\ k - 1 <= Len(C(i + 1))
      BY <3>1, <3>3
    <3>5. C(i + 1)[k] # C(i)[k]
      BY <2>0, <3>1, <3>2, <3>3
    <3>6. \A m \in 1..(k - 1) : m \in 1..(i - 1) /\ m \in 1..((i + 1) - 1)
      BY <3>1
    <3>7. Follows(C(i + 1), C(i), k - 1)
      BY <2>0, <3>3, <3>4, <3>6 DEF Follows
    <3> QED BY <3>2, <3>4, <3>5, <3>7
  <2> QED BY <2>1, <2>2
<1>9. \A p \in P : \A k \in 1..Len(p) :
        \E q \in P : Follows(q, p, k - 1) /\ k <= Len(q) /\ q[k] # p[k]
  <2> SUFFICES ASSUME NEW p \in P, NEW k \in 1..Len(p)
               PROVE  \E q \in P : /\ Follows(q, p, k - 1) /\ k <= Len(q)
                                   /\ q[k] # p[k]
    OBVIOUS
  <2>1. PICK i \in 1..n : p = C(i)
    BY <1>2
  <2>2. PICK j \in 1..n : /\ Follows(C(j), C(i), k - 1) /\ k <= Len(C(j))
                          /\ C(j)[k] # C(i)[k]
    BY <1>8, <2>1
  <2> QED BY <1>1, <2>1, <2>2
<1>10. Tree(P)
  BY <1>3, <1>5, <1>7, <1>9 DEF Tree
<1> QED BY <1>4, <1>10 DEF P

-----------------------------------------------------------------------------
(* The grid                                                                *)

\* Trees in place of the leaves of a tree.
LEMMA GraftTree ==
    ASSUME NEW P, Tree(P), NEW Q, \A p \in P : Tree(Q[p]),
           NEW b \in Nat, \A p \in P : \A q \in Q[p] : Len(q) <= b,
           NEW T,
           \A t \in T : \E p \in P : \E q \in Q[p] : t = p \o q,
           \A p \in P : \A q \in Q[p] : p \o q \in T
    PROVE  Tree(T)
<1>1. \A p \in P : p \in Place /\ Len(p) \in Nat
  BY PlaceSteps DEF Tree
<1>2. \A p \in P : \A q \in Q[p] : q \in Place /\ Len(q) \in Nat
  BY PlaceSteps DEF Tree
<1>3. ASSUME NEW p \in P, NEW q \in Q[p]
      PROVE  /\ p \o q \in T /\ p \o q \in Place
             /\ Len(p \o q) = Len(p) + Len(q)
             /\ \A j \in 1..Len(p) : (p \o q)[j] = p[j]
             /\ \A j \in 1..Len(q) : (p \o q)[Len(p) + j] = q[j]
  BY <1>1, <1>2, JoinSteps
<1>4. T \subseteq Place
  BY <1>3
<1>5. PICK d \in P : \A p \in P : Len(p) <= Len(d)
  BY DEF Tree
<1>6. \A p \in P : \E q \in Q[p] : TRUE
  BY DEF Tree
<1>7. \E s \in T : \A t \in T : Len(t) <= Len(s)
  <2>1. T # {}
    BY <1>3, <1>5, <1>6
  <2>2. Len(d) + b \in Nat
    BY <1>1
  <2>3. ASSUME NEW t \in T PROVE Len(t) <= Len(d) + b
    <3>0. PICK p \in P : \E q \in Q[p] : t = p \o q
      OBVIOUS
    <3>1. PICK q \in Q[p] : t = p \o q
      BY <3>0
    <3>2. Len(t) = Len(p) + Len(q)
      BY <1>3, <3>1
    <3>3. Len(p) <= Len(d) /\ Len(q) <= b /\ Len(p) \in Nat /\ Len(q) \in Nat
      BY <1>1, <1>2, <1>5
    <3> QED BY <1>1, <3>2, <3>3
  <2> QED BY <1>4, <2>1, <2>2, <2>3, Deepest
<1>8. ASSUME NEW t \in T, NEW u \in T, Follows(u, t, Len(t))
      PROVE  t = u
  <2>1a. PICK p \in P : \E q \in Q[p] : t = p \o q
    OBVIOUS
  <2>1. PICK q \in Q[p] : t = p \o q
    BY <2>1a
  <2>2a. PICK r \in P : \E s \in Q[r] : u = r \o s
    OBVIOUS
  <2>2. PICK s \in Q[r] : u = r \o s
    BY <2>2a
  <2>3. /\ Len(t) = Len(p) + Len(q)
        /\ \A j \in 1..Len(p) : t[j] = p[j]
        /\ \A j \in 1..Len(q) : t[Len(p) + j] = q[j]
    BY <1>3, <2>1
  <2>4. /\ Len(u) = Len(r) + Len(s)
        /\ \A j \in 1..Len(r) : u[j] = r[j]
        /\ \A j \in 1..Len(s) : u[Len(r) + j] = s[j]
    BY <1>3, <2>2
  <2>5. /\ Len(p) \in Nat /\ Len(q) \in Nat /\ Len(r) \in Nat /\ Len(s) \in Nat
        /\ q \in Place /\ s \in Place
    BY <1>1, <1>2
  <2>6. Len(t) <= Len(u) /\ \A j \in 1..Len(t) : u[j] = t[j]
    BY <1>8 DEF Follows
  <2>7. p = r
    <3>1. CASE Len(p) <= Len(r)
      <4>1. \A j \in 1..Len(p) : j \in 1..Len(r) /\ j \in 1..Len(t)
        BY <2>3, <2>5, <3>1
      <4>2. Follows(r, p, Len(p))
        BY <2>3, <2>4, <2>6, <3>1, <4>1 DEF Follows
      <4> QED BY <4>2 DEF Tree
    <3>2. CASE Len(r) <= Len(p)
      <4>1. \A j \in 1..Len(r) : j \in 1..Len(p) /\ j \in 1..Len(t)
        BY <2>3, <2>5, <3>2
      <4>2. Follows(p, r, Len(r))
        BY <2>3, <2>4, <2>6, <3>2, <4>1 DEF Follows
      <4> QED BY <4>2 DEF Tree
    <3> QED BY <2>5, <3>1, <3>2
  <2>8. q = s
    <3>1. Len(q) <= Len(s)
      BY <2>3, <2>4, <2>5, <2>6, <2>7
    <3>2. ASSUME NEW j \in 1..Len(q) PROVE s[j] = q[j]
      <4>1. j \in 1..Len(s) /\ Len(p) + j \in 1..Len(t)
        BY <2>3, <2>5, <3>1
      <4> QED BY <2>3, <2>4, <2>6, <2>7, <4>1
    <3>3. Follows(s, q, Len(q)) /\ s \in Q[p]
      BY <2>7, <3>1, <3>2 DEF Follows
    <3> QED BY <3>3 DEF Tree
  <2> QED BY <2>1, <2>2, <2>7, <2>8
<1>9. ASSUME NEW t \in T, NEW k \in 1..Len(t)
      PROVE  \E u \in T : Follows(u, t, k - 1) /\ k <= Len(u) /\ u[k] # t[k]
  <2>1a. PICK p \in P : \E q \in Q[p] : t = p \o q
    OBVIOUS
  <2>1. PICK q \in Q[p] : t = p \o q
    BY <2>1a
  <2>2. /\ Len(t) = Len(p) + Len(q)
        /\ \A j \in 1..Len(p) : t[j] = p[j]
        /\ \A j \in 1..Len(q) : t[Len(p) + j] = q[j]
    BY <1>3, <2>1
  <2>3. /\ Len(p) \in Nat /\ Len(q) \in Nat /\ k \in Nat /\ 1 <= k
        /\ k <= Len(p) + Len(q)
    BY <1>1, <1>2, <2>2
  <2>4. CASE k <= Len(p)
    <3>1. k \in 1..Len(p)
      BY <2>3, <2>4
    <3>2. PICK r \in P : Follows(r, p, k - 1) /\ k <= Len(r) /\ r[k] # p[k]
      BY <3>1 DEF Tree
    <3>3. PICK s \in Q[r] : TRUE
      BY <1>6
    <3> DEFINE u == r \o s
    <3>4. /\ u \in T /\ Len(u) = Len(r) + Len(s)
          /\ \A j \in 1..Len(r) : u[j] = r[j]
      BY <1>3
    <3> HIDE DEF u
    <3>5. Len(r) \in Nat /\ Len(s) \in Nat /\ k \in 1..Len(r)
      BY <1>1, <1>2, <2>3, <3>2
    <3>6. k <= Len(u) /\ k - 1 <= Len(u)
      BY <2>3, <3>2, <3>4, <3>5
    <3>7. u[k] # t[k]
      BY <2>2, <3>1, <3>2, <3>4, <3>5
    <3>8. \A j \in 1..(k - 1) : j \in 1..Len(p) /\ j \in 1..Len(r)
      BY <2>3, <2>4, <3>5
    <3>9. \A j \in 1..(k - 1) : u[j] = t[j]
      BY <2>2, <3>2, <3>4, <3>8 DEF Follows
    <3> QED BY <3>4, <3>6, <3>7, <3>9 DEF Follows
  <2>5. CASE Len(p) < k
    <3> DEFINE m == k - Len(p)
    <3>1. m \in 1..Len(q) /\ Len(p) + m = k
      BY <2>3, <2>5
    <3> HIDE DEF m
    <3>2. PICK s \in Q[p] : Follows(s, q, m - 1) /\ m <= Len(s) /\ s[m] # q[m]
      BY <3>1 DEF Tree
    <3> DEFINE u == p \o s
    <3>3. /\ u \in T /\ Len(u) = Len(p) + Len(s)
          /\ \A j \in 1..Len(p) : u[j] = p[j]
          /\ \A j \in 1..Len(s) : u[Len(p) + j] = s[j]
      BY <1>3
    <3> HIDE DEF u
    <3>4. Len(s) \in Nat /\ m \in 1..Len(s)
      BY <1>2, <3>1, <3>2
    <3>5. k <= Len(u) /\ k - 1 <= Len(u)
      <4>1. Len(u) = Len(p) + Len(s) /\ k = Len(p) + m /\ m <= Len(s)
        BY <3>1, <3>2, <3>3
      <4>2. m \in Nat
        BY <3>4
      <4> QED BY ONLY <2>3, <3>4, <4>1, <4>2
    <3>6. u[k] # t[k]
      BY <2>2, <3>1, <3>2, <3>3, <3>4
    <3>7. ASSUME NEW j \in 1..(k - 1) PROVE u[j] = t[j]
      <4>1. CASE j <= Len(p)
        <5>1. j \in 1..Len(p)
          BY <2>3, <4>1
        <5> QED BY <2>2, <3>3, <5>1
      <4>2. CASE Len(p) < j
        <5>1. /\ j - Len(p) \in 1..(m - 1) /\ j - Len(p) \in 1..Len(q)
              /\ j - Len(p) \in 1..Len(s) /\ Len(p) + (j - Len(p)) = j
          BY <2>3, <3>1, <3>4, <4>2
        <5>2. u[j] = s[j - Len(p)] /\ t[j] = q[j - Len(p)]
          BY <2>2, <3>3, <5>1
        <5> QED BY <3>2, <5>1, <5>2 DEF Follows
      <4> QED BY <2>3, <4>1, <4>2
    <3> QED BY <3>3, <3>5, <3>6, <3>7 DEF Follows
  <2> QED BY <2>3, <2>4, <2>5
<1> QED BY <1>4, <1>7, <1>8, <1>9 DEF Tree

LEMMA LeftOfJoin ==
    ASSUME NEW p \in Place, NEW q \in Place, NEW r \in Place, NEW s \in Place,
           LeftOf(p, r) \/ (p = r /\ LeftOf(q, s))
    PROVE  LeftOf(p \o q, r \o s)
<1> DEFINE t == p \o q
           u == r \o s
<1>1. /\ t \in Place /\ Len(t) = Len(p) + Len(q)
      /\ \A j \in 1..Len(p) : t[j] = p[j]
      /\ \A j \in 1..Len(q) : t[Len(p) + j] = q[j]
  BY JoinSteps
<1>2. /\ u \in Place /\ Len(u) = Len(r) + Len(s)
      /\ \A j \in 1..Len(r) : u[j] = r[j]
      /\ \A j \in 1..Len(s) : u[Len(r) + j] = s[j]
  BY JoinSteps
<1> HIDE DEF t, u
<1>3. Len(p) \in Nat /\ Len(q) \in Nat /\ Len(r) \in Nat /\ Len(s) \in Nat
  BY PlaceSteps
<1> SUFFICES \E k \in 1..Len(t) : /\ k <= Len(u)
                                  /\ \A j \in 1..(k - 1) : u[j] = t[j]
                                  /\ t[k] < u[k]
  BY <1>1, <1>2, LeftOfSteps DEF t, u
<1>4. CASE LeftOf(p, r)
  <2>1. PICK k \in 1..Len(p) : /\ k <= Len(r)
                               /\ \A j \in 1..(k - 1) : r[j] = p[j]
                               /\ p[k] < r[k]
    BY <1>4, LeftOfSteps
  <2>2. /\ k \in 1..Len(t) /\ k <= Len(u) /\ k \in 1..Len(r)
        /\ \A j \in 1..(k - 1) : j \in 1..Len(p) /\ j \in 1..Len(r)
    BY <1>1, <1>2, <1>3, <2>1
  <2> QED BY <1>1, <1>2, <2>1, <2>2
<1>5. CASE p = r /\ LeftOf(q, s)
  <2>1. PICK k \in 1..Len(q) : /\ k <= Len(s)
                               /\ \A j \in 1..(k - 1) : s[j] = q[j]
                               /\ q[k] < s[k]
    BY <1>5, LeftOfSteps
  <2> DEFINE m == Len(p) + k
  <2>2. m \in 1..Len(t) /\ m <= Len(u) /\ k \in 1..Len(s)
    BY <1>1, <1>2, <1>3, <1>5, <2>1
  <2>3. t[m] < u[m]
    BY <1>1, <1>2, <1>5, <2>1, <2>2
  <2>4. ASSUME NEW j \in 1..(m - 1) PROVE u[j] = t[j]
    <3>1. CASE j <= Len(p)
      <4>1. j \in 1..Len(p)
        BY <1>3, <3>1
      <4> QED BY <1>1, <1>2, <1>5, <4>1
    <3>2. CASE Len(p) < j
      <4>1. /\ j - Len(p) \in 1..(k - 1) /\ j - Len(p) \in 1..Len(q)
            /\ j - Len(p) \in 1..Len(s) /\ Len(p) + (j - Len(p)) = j
        BY <1>3, <2>1, <3>2
      <4>2. t[j] = q[j - Len(p)] /\ u[j] = s[j - Len(p)]
        BY <1>1, <1>2, <1>5, <4>1
      <4> QED BY <2>1, <4>1, <4>2
    <3> QED BY <1>3, <3>1, <3>2
  <2> HIDE DEF m
  <2> QED BY <2>2, <2>3, <2>4
<1> QED BY <1>4, <1>5

LEMMA Times ==
    ASSUME NEW c \in Nat, NEW a \in Int, NEW b \in Int, a <= b
    PROVE  c * a <= c * b
OBVIOUS

LEMMA Quotient ==
    ASSUME NEW c \in Nat \ {0}, NEW d \in Nat
    PROVE  /\ d \div c \in Nat
           /\ c * (d \div c) <= d /\ d < c * (d \div c) + c
           /\ \A r \in Nat : c * r <= d /\ d < c * r + c => d \div c = r
<1> DEFINE k == d \div c
<1>1. k \in Nat /\ c * k <= d /\ d < c * (k + 1)
  OBVIOUS
<1> HIDE DEF k
<1>2. c * (k + 1) = c * k + c
  BY <1>1
<1>3. ASSUME NEW r \in Nat, c * r <= d, d < c * r + c
      PROVE  k = r
  <2>1. CASE k + 1 <= r
    <3>1. c * (k + 1) <= c * r
      BY <1>1, <2>1, Times
    <3> DEFINE x == c * (k + 1)
               y == c * r
    <3>2. x \in Int /\ y \in Int
      BY <1>1
    <3>3. x <= y /\ y <= d /\ d < x
      BY <1>1, <1>3, <3>1
    <3> HIDE DEF x, y
    <3> QED BY <3>2, <3>3
  <2>2. CASE r + 1 <= k
    <3>1. c * (r + 1) <= c * k /\ c * (r + 1) = c * r + c
      BY <1>1, <2>2, Times
    <3> DEFINE x == c * k
               y == c * r
    <3>2. x \in Int /\ y \in Int /\ x <= d /\ d < y + c /\ y + c <= x
      BY <1>1, <1>3, <3>1
    <3> HIDE DEF x, y
    <3> QED BY <3>2
  <2> QED BY <1>1, <2>1, <2>2
<1>4. d < c * k + c
  BY <1>1, <1>2
<1> QED BY <1>1, <1>3, <1>4 DEF k

\* Math.ceil(Math.sqrt(n)) of a number of panes is a number of columns.
LEMMA GridColsIsThere ==
    ASSUME NEW n \in Nat \ {0}
    PROVE  /\ GridCols(n) \in 1..n
           /\ GridCols(n) * GridCols(n) >= n
<1> DEFINE T == {c \in Nat : c * c >= n}
<1>1. n \in T
  <2>1. n * 1 <= n * n
    BY Times
  <2> QED BY <2>1
<1>2. PICK c \in T : \A d \in T : c <= d
  BY <1>1, LeastNat
<1>3. c \in 1..n
  BY <1>1, <1>2
<1>4. (c - 1) * (c - 1) < n
  <2>1. c - 1 \in Nat /\ c - 1 \notin T
    BY <1>2, <1>3
  <2>2. ~((c - 1) * (c - 1) >= n)
    BY <2>1
  <2> QED BY <2>1, <2>2
<1>5. c * c >= n
  BY <1>2
<1> QED BY <1>3, <1>4, <1>5 DEF GridCols

\* The row of a pane, and how many panes its row has.
Row(n, i) == (i - 1) \div GridCols(n)
InRow(n, row) ==
    IF row = ((n + GridCols(n) - 1) \div GridCols(n)) - 1
    THEN n - row * GridCols(n) ELSE GridCols(n)

LEMMA GridRows ==
    ASSUME NEW n \in Nat \ {0}
    PROVE  LET cols == GridCols(n)
               rows == (n + cols - 1) \div cols
           IN  /\ cols \in 1..n /\ rows \in Nat \ {0}
               /\ \A row \in 0..(rows - 1) : InRow(n, row) \in 1..cols
               /\ \A i \in 1..n : /\ Row(n, i) \in 0..(rows - 1)
                                  /\ i - Row(n, i) * cols \in 1..InRow(n, Row(n, i))
               /\ \A row \in 0..(rows - 1) : \A x \in 1..InRow(n, row) :
                    \E i \in 1..n : Row(n, i) = row /\ i - row * cols = x
               /\ \A i, j \in 1..n : i < j => Row(n, i) <= Row(n, j)
<1> DEFINE cols == GridCols(n)
           rows == (n + cols - 1) \div cols
<1>1. cols \in 1..n
  BY GridColsIsThere
<1> HIDE DEF cols
<1>2. cols \in Nat \ {0} /\ n + cols - 1 \in Nat
  BY <1>1
<1>3. /\ rows \in Nat
      /\ cols * rows <= n + cols - 1 /\ n + cols - 1 < cols * rows + cols
  BY <1>2, Quotient
<1>4. \A i \in 1..n :
        /\ Row(n, i) \in Nat
        /\ cols * Row(n, i) <= i - 1 /\ i - 1 < cols * Row(n, i) + cols
        /\ \A r \in Nat : cols * r <= i - 1 /\ i - 1 < cols * r + cols
                            => Row(n, i) = r
  <2> TAKE i \in 1..n
  <2>1. i - 1 \in Nat /\ Row(n, i) = (i - 1) \div cols
    BY DEF Row, cols
  <2> DEFINE d == i - 1
  <2>2. /\ d \div cols \in Nat
        /\ cols * (d \div cols) <= d /\ d < cols * (d \div cols) + cols
        /\ \A r \in Nat : cols * r <= d /\ d < cols * r + cols => d \div cols = r
    BY <1>2, <2>1, Quotient
  <2> QED BY <2>1, <2>2
<1>5. \A row : InRow(n, row) = IF row = rows - 1 THEN n - row * cols ELSE cols
  BY DEF InRow, cols
<1> HIDE DEF rows
<1>6. \A r \in Nat : /\ cols * r \in Nat /\ r * cols = cols * r
                     /\ cols * (r + 1) = cols * r + cols
  BY <1>2
<1>7. \A r, s \in Nat : r <= s => cols * r <= cols * s
  BY <1>2, Times
\* What is before the last row, and with it.
<1>8. rows # 0
  <2> SUFFICES ASSUME rows = 0 PROVE FALSE
    OBVIOUS
  <2>1. cols * rows = 0
    BY <1>2
  <2> QED BY <1>2, <1>3, <2>1
<1>9. rows - 1 \in Nat /\ cols * rows = cols * (rows - 1) + cols
  <2>1. rows - 1 \in Nat /\ (rows - 1) + 1 = rows
    BY <1>3, <1>8
  <2> QED BY <1>6, <2>1
<1> DEFINE full == cols * (rows - 1)
<1>10. full \in Nat /\ full <= n - 1 /\ n <= full + cols
  <2>1. full \in Nat /\ cols * rows = full + cols
    BY <1>6, <1>9
  <2> HIDE DEF full
  <2> QED BY <1>2, <1>3, <2>1
<1>11. ASSUME NEW row \in 0..(rows - 1), row # rows - 1
       PROVE  cols * row + cols <= full
  <2>1. row + 1 \in Nat /\ row + 1 <= rows - 1 /\ row \in Nat
    BY <1>9, <1>11
  <2> QED BY <1>6, <1>7, <1>9, <2>1
<1>12. ASSUME NEW row \in 0..(rows - 1)
       PROVE  InRow(n, row) \in 1..cols
  <2>1. CASE row = rows - 1
    <3>1. row * cols = full
      BY <1>6, <1>9, <2>1
    <3> HIDE DEF full
    <3> QED BY <1>1, <1>5, <1>10, <2>1, <3>1
  <2>2. CASE row # rows - 1
    BY <1>1, <1>5, <2>2
  <2> QED BY <2>1, <2>2
<1>13. ASSUME NEW i \in 1..n
       PROVE  /\ Row(n, i) \in 0..(rows - 1)
              /\ i - Row(n, i) * cols \in 1..InRow(n, Row(n, i))
  <2> DEFINE row == Row(n, i)
             x == cols * row
  <2>1. row \in Nat /\ x \in Nat /\ x <= i - 1 /\ i - 1 < x + cols /\ row * cols = x
    BY <1>4, <1>6
  <2>2. row <= rows - 1
    <3> SUFFICES ASSUME rows <= row PROVE FALSE
      BY <1>3, <2>1
    <3>1. cols * rows <= x /\ cols * rows = full + cols
      BY <1>3, <1>7, <1>9, <2>1
    <3> HIDE DEF row, x, full
    <3> QED BY <1>2, <1>10, <2>1, <3>1
  <2>3. CASE row = rows - 1
    <3>1. InRow(n, row) = n - x
      BY <1>5, <2>1, <2>3
    <3> HIDE DEF row, x
    <3>2. i - x \in 1..(n - x) /\ row \in 0..(rows - 1)
      BY <1>9, <2>1, <2>2
    <3> QED BY <2>1, <3>1, <3>2 DEF row
  <2>4. CASE row # rows - 1
    <3>1. InRow(n, row) = cols
      BY <1>5, <2>4
    <3> HIDE DEF row, x
    <3>2. i - x \in 1..cols /\ row \in 0..(rows - 1)
      BY <1>2, <1>9, <2>1, <2>2
    <3> QED BY <2>1, <3>1, <3>2 DEF row
  <2> QED BY <2>3, <2>4
<1>14. ASSUME NEW row \in 0..(rows - 1), NEW x \in 1..InRow(n, row)
       PROVE  \E i \in 1..n : Row(n, i) = row /\ i - row * cols = x
  <2> DEFINE y == cols * row
             i == y + x
  <2>1. row \in Nat /\ y \in Nat /\ row * cols = y
    BY <1>6, <1>9
  <2>2. x \in Nat /\ 1 <= x /\ x <= cols
    BY <1>1, <1>12
  <2>3. i <= n
    <3>1. CASE row = rows - 1
      <4>1. InRow(n, row) = n - y
        BY <1>5, <2>1, <3>1
      <4> HIDE DEF y
      <4> QED BY <2>1, <2>2, <4>1
    <3>2. CASE row # rows - 1
      <4>1. y + cols <= full
        BY <1>11, <3>2
      <4> HIDE DEF y, full
      <4> QED BY <1>2, <1>10, <2>1, <2>2, <4>1
    <3> QED BY <3>1, <3>2
  <2> HIDE DEF y
  <2>4. i \in 1..n /\ y <= i - 1 /\ i - 1 < y + cols /\ i - y = x
    BY <1>2, <2>1, <2>2, <2>3
  <2>5. Row(n, i) = row
    BY <1>4, <2>1, <2>4 DEF y
  <2> QED BY <2>1, <2>4, <2>5
<1>15. ASSUME NEW i \in 1..n, NEW j \in 1..n, i < j
       PROVE  Row(n, i) <= Row(n, j)
  <2> DEFINE r == Row(n, i)
             s == Row(n, j)
  <2>1. /\ r \in Nat /\ s \in Nat /\ cols * r <= i - 1 /\ j - 1 < cols * s + cols
    BY <1>4
  <2> SUFFICES ASSUME s + 1 <= r PROVE FALSE
    BY <2>1
  <2>2. cols * s + cols <= cols * r /\ cols * s \in Nat /\ cols * r \in Nat
    BY <1>6, <1>7, <2>1
  <2> DEFINE x == cols * r
             y == cols * s
  <2> HIDE DEF r, s
  <2>3. x <= i - 1 /\ j - 1 < y + cols /\ y + cols <= x /\ x \in Nat /\ y \in Nat
    BY <2>1, <2>2
  <2> HIDE DEF x, y
  <2> QED BY <1>2, <1>15, <2>3
<1> QED BY <1>1, <1>3, <1>8, <1>12, <1>13, <1>14, <1>15 DEF rows, cols

\* The panes of a launch are the leaves of a tree, in the order of the spec.
LEMMA PanePlaces ==
    ASSUME NEW split, NEW n \in Nat \ {0}
    PROVE  /\ IsTree({PanePlace(split, n, i) : i \in 1..n})
           /\ \A i \in 1..n : PanePlace(split, n, i) \in Place
           /\ \A i, j \in 1..n :
                i < j => LeftOf(PanePlace(split, n, i), PanePlace(split, n, j))
<1>1. CASE split # "grid"
  <2>1. \A i \in 1..n : PanePlace(split, n, i) = ChainPlace(n, i)
    BY <1>1 DEF PanePlace
  <2>2. {PanePlace(split, n, i) : i \in 1..n} = {ChainPlace(n, i) : i \in 1..n}
    BY <2>1
  <2>3. IsTree({ChainPlace(n, i) : i \in 1..n})
    BY ChainTree, TreeSteps
  <2>4. \A i \in 1..n : ChainPlace(n, i) \in Place
    BY ChainSteps
  <2>5. \A i, j \in 1..n : i < j => LeftOf(ChainPlace(n, i), ChainPlace(n, j))
    BY ChainOrder
  <2> QED BY <2>1, <2>2, <2>3, <2>4, <2>5
<1>2. CASE split = "grid"
  <2> DEFINE cols == GridCols(n)
             rows == (n + cols - 1) \div cols
             R(r) == ChainPlace(rows, r + 1)
             C(r, x) == ChainPlace(InRow(n, r), x)
             P == {ChainPlace(rows, r) : r \in 1..rows}
             T == {PanePlace(split, n, i) : i \in 1..n}
  <2>1. /\ cols \in 1..n /\ rows \in Nat \ {0}
        /\ \A row \in 0..(rows - 1) : InRow(n, row) \in 1..cols
        /\ \A i \in 1..n : /\ Row(n, i) \in 0..(rows - 1)
                           /\ i - Row(n, i) * cols \in 1..InRow(n, Row(n, i))
        /\ \A row \in 0..(rows - 1) : \A x \in 1..InRow(n, row) :
             \E i \in 1..n : Row(n, i) = row /\ i - row * cols = x
        /\ \A i, j \in 1..n : i < j => Row(n, i) <= Row(n, j)
    BY GridRows
  <2>2. ASSUME NEW i \in 1..n
        PROVE  PanePlace(split, n, i)
                 = R(Row(n, i)) \o C(Row(n, i), i - Row(n, i) * cols)
    BY <1>2 DEF PanePlace, Row, InRow
  <2> HIDE DEF cols, rows
  <2>3. \A r \in 0..(rows - 1) : /\ r + 1 \in 1..rows /\ r \in Nat
                                 /\ InRow(n, r) \in Nat \ {0}
    BY <2>1
  <2>4. ASSUME NEW r \in 0..(rows - 1)
        PROVE  /\ R(r) \in P /\ R(r) \in Place
               /\ Tree({C(r, x) : x \in 1..InRow(n, r)})
               /\ \A q \in {C(r, x) : x \in 1..InRow(n, r)} : Len(q) <= n
               /\ \A x \in 1..InRow(n, r) : C(r, x) \in Place
    <3>1. R(r) \in P /\ R(r) \in Place
      BY <2>1, <2>3, ChainSteps
    <3> DEFINE m == InRow(n, r)
    <3>0. m \in 1..cols /\ cols \in 1..n
      BY <2>1
    <3> HIDE DEF m
    <3>2. m \in Nat \ {0} /\ m <= n
      BY <3>0
    <3>3. /\ Tree({ChainPlace(m, x) : x \in 1..m})
          /\ \A q \in {ChainPlace(m, x) : x \in 1..m} : Len(q) <= m
      BY <3>2, ChainTree
    <3>4. \A x \in 1..m : ChainPlace(m, x) \in Place
      BY <3>2, ChainSteps
    <3>5. \A q \in {ChainPlace(m, x) : x \in 1..m} : Len(q) \in Nat
      BY <3>4, PlaceSteps
    <3>6. \A q \in {ChainPlace(m, x) : x \in 1..m} : Len(q) <= n
      BY <3>2, <3>3, <3>5
    <3> QED BY <3>1, <3>3, <3>4, <3>6 DEF m
  <2>5. ASSUME NEW r \in 0..(rows - 1), NEW s \in 0..(rows - 1), r < s
        PROVE  LeftOf(R(r), R(s))
    BY <2>1, <2>3, <2>5, ChainOrder
  <2>6. ASSUME NEW r \in 0..(rows - 1), NEW x \in 1..InRow(n, r),
               NEW y \in 1..InRow(n, r), x < y
        PROVE  LeftOf(C(r, x), C(r, y))
    BY <2>3, <2>6, ChainOrder
  <2>7. \A p \in P : \E r \in 0..(rows - 1) : p = R(r)
    <3> SUFFICES ASSUME NEW k \in 1..rows
                 PROVE  \E r \in 0..(rows - 1) : ChainPlace(rows, k) = R(r)
      OBVIOUS
    <3>1. k - 1 \in 0..(rows - 1) /\ (k - 1) + 1 = k
      BY <2>1
    <3> QED BY <3>1
  <2>8. Tree(P)
    BY <2>1, ChainTree
  <2>9. \A t \in T : \E i \in 1..n : t = PanePlace(split, n, i)
    OBVIOUS
  <2>10. \A i \in 1..n : PanePlace(split, n, i) \in T
    OBVIOUS
  <2> HIDE DEF P, R, C, T
  <2>11. ASSUME NEW r \in 0..(rows - 1), NEW s \in 0..(rows - 1), R(r) = R(s)
         PROVE  r = s
    <3>1. R(r) \in Place /\ R(s) \in Place
      BY <2>4
    <3>2. ~LeftOf(R(r), R(s)) /\ ~LeftOf(R(s), R(r))
      BY <2>11, <3>1, LeftOfIsStrict
    <3>3. ~(r < s) /\ ~(s < r)
      BY <2>5, <3>2
    <3> QED BY <2>1, <3>3
  <2> DEFINE RowOf(p) == CHOOSE r \in 0..(rows - 1) : p = R(r)
             Q == [p \in P |-> {C(RowOf(p), x) : x \in 1..InRow(n, RowOf(p))}]
  <2>12. ASSUME NEW r \in 0..(rows - 1)
         PROVE  Q[R(r)] = {C(r, x) : x \in 1..InRow(n, r)}
    <3>1. RowOf(R(r)) = r
      BY <2>11
    <3> QED BY <2>4, <3>1
  <2> HIDE DEF Q
  <2>13. \A p \in P : Tree(Q[p]) /\ \A q \in Q[p] : Len(q) <= n
    BY <2>4, <2>7, <2>12
  <2>14. ASSUME NEW t \in T
         PROVE  \E p \in P : \E q \in Q[p] : t = p \o q
    <3>1. PICK i \in 1..n : t = PanePlace(split, n, i)
      BY <2>9
    <3> DEFINE r == Row(n, i)
               x == i - Row(n, i) * cols
    <3>2. t = R(r) \o C(r, x)
      BY <2>2, <3>1
    <3>3. r \in 0..(rows - 1) /\ x \in 1..InRow(n, r)
      BY <2>1
    <3> HIDE DEF r, x
    <3>4. R(r) \in P /\ C(r, x) \in Q[R(r)]
      BY <2>4, <2>12, <3>3
    <3> QED BY <3>2, <3>4
  <2>15. ASSUME NEW p \in P, NEW q \in Q[p]
         PROVE  p \o q \in T
    <3>1. PICK r \in 0..(rows - 1) : p = R(r)
      BY <2>7
    <3>2. PICK x \in 1..InRow(n, r) : q = C(r, x)
      BY <2>12, <3>1
    <3>3. PICK i \in 1..n : Row(n, i) = r /\ i - r * cols = x
      BY <2>1
    <3> QED BY <2>2, <2>10, <3>1, <3>2, <3>3
  <2>16. Tree(T)
    BY <2>8, <2>13, <2>14, <2>15, GraftTree
  <2>17. ASSUME NEW i \in 1..n, NEW j \in 1..n, i < j
         PROVE  LeftOf(PanePlace(split, n, i), PanePlace(split, n, j))
    <3> DEFINE r == Row(n, i)
               s == Row(n, j)
               x == i - r * cols
               y == j - s * cols
    <3>1. /\ r \in 0..(rows - 1) /\ s \in 0..(rows - 1)
          /\ x \in 1..InRow(n, r) /\ y \in 1..InRow(n, s) /\ r <= s
      BY <2>1, <2>17
    <3>2. /\ R(r) \in Place /\ R(s) \in Place
          /\ C(r, x) \in Place /\ C(s, y) \in Place
      BY <2>4, <3>1
    <3>3. LeftOf(R(r), R(s)) \/ (R(r) = R(s) /\ LeftOf(C(r, x), C(s, y)))
      <4>1. CASE r < s
        BY <2>5, <3>1, <4>1
      <4>2. CASE r = s
        <5>1. r * cols \in Int
          BY <2>1, <3>1
        <5>2. x < y
          BY <2>17, <4>2, <5>1
        <5> HIDE DEF r, s, x, y
        <5> QED BY <2>6, <3>1, <4>2, <5>2
      <4> HIDE DEF r, s
      <4> QED BY <2>1, <3>1, <4>1, <4>2
    <3> HIDE DEF r, s, x, y
    <3>4. LeftOf(R(r) \o C(r, x), R(s) \o C(s, y))
      BY <3>2, <3>3, LeftOfJoin
    <3> QED BY <2>2, <3>4 DEF r, s, x, y
  <2>18. \A i \in 1..n : PanePlace(split, n, i) \in Place
    BY <2>10, <2>16 DEF Tree
  <2> QED BY <2>16, <2>17, <2>18, TreeSteps DEF T
<1> QED BY <1>1, <1>2
=============================================================================
