------------------------------ MODULE LayoutTree ------------------------------
(***************************************************************************)
(* The pane layout of a terminal tab (frontend/src/lib/layout-tree.ts): a  *)
(* binary tree whose leaves are panes, and the operations on it.           *)
(*                                                                         *)
(* A layout is the function from the places of its leaves to the leaves.   *)
(* The place of a leaf is the path to it from the root, 1 for a first and  *)
(* 2 for a second child; the splits are the proper prefixes of the places. *)
(* What the code finds by recursion is then a set of places.  Directions   *)
(* and ratios of the splits are left out.                                  *)
(***************************************************************************)
EXTENDS Naturals, Sequences, FiniteSets

Prefix(p, q) == Len(p) <= Len(q) /\ SubSeq(q, 1, Len(p)) = p

\* The place p with its first n steps dropped.
Below(p, n) == SubSeq(p, n + 1, Len(p))

\* The places of the leaves of a finite binary tree: one is the deepest, none
\* is below another, and the other side of every split on the way to a leaf
\* has a leaf too.
IsTree(P) ==
    /\ P \subseteq Seq({1, 2})
    /\ \E p \in P : \A q \in P : Len(q) <= Len(p)
    /\ \A p, q \in P : Prefix(p, q) => p = q
    /\ \A p \in P : \A k \in 1..Len(p) :
         \E q \in P : Prefix(Append(SubSeq(p, 1, k - 1), 3 - p[k]), q)

LeavesAt(L, id)   == {p \in DOMAIN L : L[p].id = id}
CollectLeafIds(L) == {L[p].id : p \in DOMAIN L}
HasLeaf(L, id)    == id \in CollectLeafIds(L)
FindLeaf(L, id)   == L[CHOOSE p \in LeavesAt(L, id) : TRUE]

\* collectLeafIds(L)[0]: the leaf that is reached by first children only.
FirstLeafId(L) ==
    L[CHOOSE p \in DOMAIN L : \A k \in 1..Len(p) : p[k] = 1].id

\* The order of collectLeaves: p comes before q, neither being below the other.
LeftOf(p, q) ==
    \E k \in 1..Len(p) : /\ k <= Len(q)
                         /\ SubSeq(p, 1, k - 1) = SubSeq(q, 1, k - 1)
                         /\ p[k] < q[k]

SingleLeaf(leaf) == [p \in {<<>>} |-> leaf]

\* The leaf becomes a split of itself and the new leaf.
SplitLeaf(L, id, leaf) ==
    [p \in (DOMAIN L \ LeavesAt(L, id))
             \cup {Append(q, k) : q \in LeavesAt(L, id), k \in {1, 2}} |->
        IF p \in DOMAIN L THEN L[p]
        ELSE IF p[Len(p)] = 1 THEN L[SubSeq(p, 1, Len(p) - 1)] ELSE leaf]

\* wasLastLeaf of closeLeaf: nothing meaningful would remain.
IsLastLeaf(L, id) == DOMAIN L = {<<>>} /\ L[<<>>].id = id

\* Mutant: the sibling stays where it was.
CloseLeafInPlace(L, id) ==
    IF ~HasLeaf(L, id) \/ DOMAIN L = {<<>>} THEN L
    ELSE [p \in DOMAIN L \ LeavesAt(L, id) |-> L[p]]

\* The leaf and its parent split go; what was under the sibling takes the
\* place of the split.  The last leaf, or an unknown one, is not removed.
CloseLeaf(L, id) ==
    IF ~HasLeaf(L, id) \/ DOMAIN L = {<<>>} THEN L
    ELSE LET p       == CHOOSE q \in LeavesAt(L, id) : TRUE
             n       == Len(p) - 1
             split   == SubSeq(p, 1, n)
             sibling == Append(split, 3 - p[n + 1])
         IN [q \in {r \in DOMAIN L : ~Prefix(split, r)}
                     \cup {split \o Below(r, n + 1) :
                             r \in {s \in DOMAIN L : Prefix(sibling, s)}} |->
                IF Prefix(split, q) THEN L[sibling \o Below(q, n)] ELSE L[q]]

\* replaceLeafId, markLeafExited, _setLeafEmpty and _replaceLeafNode.
ReplaceLeafNode(L, id, leaf) ==
    [p \in DOMAIN L |-> IF L[p].id = id THEN leaf ELSE L[p]]
MarkLeafExited(L, id) ==
    [p \in DOMAIN L |-> IF L[p].id = id THEN [L[p] EXCEPT !.exited = TRUE]
                        ELSE L[p]]

-----------------------------------------------------------------------------
(* buildPaneLayout (frontend/src/lib/launch.ts)                            *)

\* chainSplits: the place of the i-th of n nodes in a chain nested to the
\* right.
ChainPlace(n, i) ==
    IF i = n THEN [k \in 1..(n - 1) |-> 2]
    ELSE [k \in 1..i |-> IF k = i THEN 1 ELSE 2]

\* Math.ceil(Math.sqrt(n)).
GridCols(n) == CHOOSE c \in 1..n : c * c >= n /\ (c - 1) * (c - 1) < n

\* Mutant: rows as long as the grid is high.
PanePlaceByRows(split, n, i) ==
    IF split # "grid" THEN ChainPlace(n, i)
    ELSE LET cols == GridCols(n)
             rows == (n + cols - 1) \div cols
             row  == (i - 1) \div cols
         IN ChainPlace(rows, row + 1) \o ChainPlace(cols, i - row * cols)

\* The place of the i-th of n panes: rows of a grid are filled in order, and
\* the last one may be short.
PanePlace(split, n, i) ==
    IF split # "grid" THEN ChainPlace(n, i)
    ELSE LET cols == GridCols(n)
             rows == (n + cols - 1) \div cols
             row  == (i - 1) \div cols
             inRow == IF row = rows - 1 THEN n - row * cols ELSE cols
         IN ChainPlace(rows, row + 1)
              \o ChainPlace(inRow, i - row * cols)
=============================================================================
