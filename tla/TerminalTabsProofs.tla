--------------------------- MODULE TerminalTabsProofs ---------------------------
(***************************************************************************)
(* Proofs about TerminalTabs, for any number of panes, tabs and            *)
(* overlapping calls: the state has its type, the strip is sound, and a    *)
(* launch keeps the order of its panes (TabsInv); a pane whose id is that  *)
(* of a running PTY is a shell's (KindsInv); and what a step may do to the *)
(* strip, to its panes, to the focus and to the PTYs.                      *)
(***************************************************************************)
EXTENDS TerminalTabs, LayoutTreeProofs, FiniteSetTheorems

-----------------------------------------------------------------------------
(* The types as sets                                                       *)

Layouts ==
    {L \in UNION {[P -> LeafType] : P \in SUBSET Place} : IsTree(DOMAIN L)}
Tabs  == [id : Tab \cup {None}, layout : Layouts]
CallNames ==
    {"none", "addTab", "closeTab", "closeTabNoReSeed", "splitPane", "closePane",
     "replaceEmptyLeaf", "launch", "launched", "seed", "hydrate", "rebuilt",
     "reset"}
Calls ==
    [call : CallNames, tab : Tab \cup {None}, leaf : Ids,
     pane : {"agent", "shell"}, seen : Layouts \cup {NoLayout},
     got : Seq(Tabs)]

LEMMA LayoutsAre == ASSUME NEW L PROVE L \in Layouts <=> IsLayout(L)
<1>1. ASSUME L \in Layouts PROVE IsLayout(L)
  <2>1. PICK P \in SUBSET Place : L \in [P -> LeafType]
    BY <1>1 DEF Layouts
  <2> QED BY <1>1, <2>1 DEF Layouts, IsLayout
<1>2. ASSUME IsLayout(L) PROVE L \in Layouts
  <2>1. DOMAIN L \in SUBSET Place /\ L \in [DOMAIN L -> LeafType]
    BY <1>2 DEF IsLayout, IsTree, Place
  <2> QED BY <1>2, <2>1 DEF Layouts, IsLayout
<1> QED BY <1>1, <1>2

LEMMA LayoutParts ==
    ASSUME NEW L \in Layouts
    PROVE  /\ IsTree(DOMAIN L) /\ DOMAIN L \subseteq Place /\ DOMAIN L # {}
           /\ \A p \in DOMAIN L : L[p] \in LeafType /\ L[p].id \in Ids
           /\ L = [p \in DOMAIN L |-> L[p]] /\ CollectLeafIds(L) \subseteq Ids
           /\ FirstLeafId(L) \in CollectLeafIds(L) /\ FirstLeafId(L) \in Ids
           /\ L # NoLayout
<1>1. IsTree(DOMAIN L) /\ L \in [DOMAIN L -> LeafType]
  BY LayoutsAre DEF IsLayout
<1>2. DOMAIN L \subseteq Place /\ DOMAIN L # {}
  BY <1>1 DEF IsTree, Place
<1>3. \A p \in DOMAIN L : L[p] \in LeafType /\ L[p].id \in Ids
  BY <1>1 DEF LeafType
<1>4. CollectLeafIds(L) \subseteq Ids
  BY <1>3 DEF CollectLeafIds
<1>5. FirstLeafId(L) \in CollectLeafIds(L)
  BY <1>1, FirstLeafIsThere
<1>6. DOMAIN NoLayout = {}
  BY EmptySeq, LenProperties DEF NoLayout
<1> QED BY <1>1, <1>2, <1>3, <1>4, <1>5, <1>6

\* A function on the places of a tree to leaves is a layout.
LEMMA NewLayout ==
    ASSUME NEW L, IsTree(DOMAIN L), L = [p \in DOMAIN L |-> L[p]],
           \A p \in DOMAIN L : L[p] \in LeafType
    PROVE  L \in Layouts
BY LayoutsAre DEF IsLayout

LEMMA TabsAre == ASSUME NEW t PROVE IsTab(t) <=> t \in Tabs
BY LayoutsAre DEF IsTab, Tabs

LEMMA StripsAre == ASSUME NEW strip PROVE IsStrip(strip) <=> strip \in Seq(Tabs)
<1>1. ASSUME IsStrip(strip) PROVE strip \in Seq(Tabs)
  <2>1. strip \in Seq(Range(strip)) /\ Range(strip) \subseteq Tabs
    BY <1>1, TabsAre DEF IsStrip
  <2> QED BY <2>1
<1>2. ASSUME strip \in Seq(Tabs) PROVE IsStrip(strip)
  <2>1. \A i \in DOMAIN strip : strip[i] \in Tabs
    BY <1>2
  <2>2. \A t \in Range(strip) : IsTab(t)
    BY <2>1, TabsAre DEF Range
  <2>3. strip \in Seq(Range(strip))
    BY <1>2 DEF Range
  <2> QED BY <2>2, <2>3 DEF IsStrip
<1> QED BY <1>1, <1>2

LEMMA CallsAre == ASSUME NEW x PROVE IsCall(x) <=> x \in Calls
<1>1. x.seen # NoLayout => (IsLayout(x.seen) <=> x.seen \in Layouts)
  BY LayoutsAre
<1>2. IsStrip(x.got) <=> x.got \in Seq(Tabs)
  BY StripsAre
<1>3. ASSUME IsCall(x) PROVE x \in Calls
  <2>1. x.seen \in Layouts \cup {NoLayout} /\ x.got \in Seq(Tabs)
    BY <1>1, <1>2, <1>3 DEF IsCall
  <2> QED BY <1>3, <2>1 DEF IsCall, Calls, CallNames
<1>4. ASSUME x \in Calls PROVE IsCall(x)
  <2>1. x.seen \in Layouts \cup {NoLayout} /\ x.got \in Seq(Tabs)
    BY <1>4 DEF Calls
  <2> QED BY <1>1, <1>2, <1>4, <2>1 DEF IsCall, Calls, CallNames
<1> QED BY <1>3, <1>4

-----------------------------------------------------------------------------
(* Strips                                                                  *)

\* What is in a sequence without its i-th element.
LEMMA RemoveAtProperties ==
    ASSUME NEW S, NEW s \in Seq(S), NEW i \in 1..Len(s)
    PROVE  /\ RemoveAt(s, i) \in Seq(S)
           /\ Len(RemoveAt(s, i)) = Len(s) - 1
           /\ \A k \in 1..(Len(s) - 1) :
                RemoveAt(s, i)[k] = IF k < i THEN s[k] ELSE s[k + 1]
<1>1. i \in Nat /\ Len(s) \in Nat /\ 1 <= i /\ i <= Len(s)
  OBVIOUS
<1>2. \A k \in 1..Len(s) : s[k] \in S
  OBVIOUS
<1> DEFINE a == SubSeq(s, 1, i - 1)
           b == SubSeq(s, i + 1, Len(s))
<1>3. /\ a \in Seq(S) /\ Len(a) = i - 1
      /\ \A k \in 1..(i - 1) : a[k] = s[k]
  <2>1. \A k \in 1..(i - 1) : s[k] \in S
    BY <1>1, <1>2
  <2>2. /\ a \in Seq(S) /\ Len(a) = IF 1 <= i - 1 THEN i - 1 - 1 + 1 ELSE 0
        /\ \A k \in 1..(i - 1 - 1 + 1) : a[k] = s[1 + k - 1]
    BY <1>1, <2>1, SubSeqProperties
  <2> HIDE DEF a
  <2> QED BY <1>1, <2>2
<1>4. /\ b \in Seq(S) /\ Len(b) = Len(s) - i
      /\ \A k \in 1..(Len(s) - i) : b[k] = s[k + i]
  <2>1. \A k \in (i + 1)..Len(s) : s[k] \in S
    BY <1>1, <1>2
  <2>2. /\ b \in Seq(S)
        /\ Len(b) = IF i + 1 <= Len(s) THEN Len(s) - (i + 1) + 1 ELSE 0
        /\ \A k \in 1..(Len(s) - (i + 1) + 1) : b[k] = s[(i + 1) + k - 1]
    BY <1>1, <2>1, SubSeqProperties
  <2> HIDE DEF b
  <2>3. Len(b) = Len(s) - i
    BY <1>1, <2>2
  <2>4. ASSUME NEW k \in 1..(Len(s) - i)
        PROVE  b[k] = s[k + i]
    <3>1. (i + 1) + k - 1 = k + i /\ k \in 1..(Len(s) - (i + 1) + 1)
      BY <1>1
    <3> QED BY <2>2, <3>1
  <2> QED BY <2>2, <2>3, <2>4
<1> DEFINE r == RemoveAt(s, i)
<1>5. /\ r \in Seq(S) /\ Len(r) = Len(s) - 1
      /\ \A k \in 1..(Len(s) - 1) : r[k] = IF k < i THEN s[k] ELSE s[k + 1]
  <2>1. r = a \o b
    BY DEF RemoveAt
  <2> HIDE DEF a, b, r
  <2>2. /\ r \in Seq(S) /\ Len(r) = Len(a) + Len(b)
        /\ \A k \in 1..(Len(a) + Len(b)) :
             r[k] = IF k <= Len(a) THEN a[k] ELSE b[k - Len(a)]
    BY <1>3, <1>4, <2>1, ConcatProperties
  <2>3. Len(a) + Len(b) = Len(s) - 1
    BY <1>1, <1>3, <1>4
  <2>4. ASSUME NEW k \in 1..(Len(s) - 1)
        PROVE  r[k] = IF k < i THEN s[k] ELSE s[k + 1]
    <3>1. CASE k < i
      BY <3>1, <1>1, <1>3, <2>2, <2>3
    <3>2. CASE ~(k < i)
      <4>1. k - Len(a) \in 1..(Len(s) - i) /\ (k - Len(a)) + i = k + 1
        BY <3>2, <1>1, <1>3
      <4>2. ~(k <= Len(a))
        BY <3>2, <1>1, <1>3
      <4> QED BY <4>1, <4>2, <2>2, <2>3, <1>4, <3>2
    <3> QED BY <3>1, <3>2
  <2> QED BY <2>2, <2>3, <2>4
<1> QED BY <1>5

\* What the strip may show: every pane has an id, and none is there twice.
GoodLayouts ==
    {L \in Layouts : Distinct(L) /\ CollectLeafIds(L) \subseteq Leaf \cup Pending}
GoodTabs == [id : Tab, layout : GoodLayouts]
GoodStrip(strip) ==
    /\ strip \in Seq(GoodTabs)
    /\ \A i, j \in DOMAIN strip : i # j => strip[i].id # strip[j].id

\* The tab t of the strip has the pane l.
TabHas(strip, l, t) ==
    \E i \in DOMAIN strip : /\ strip[i].id = t
                            /\ l \in CollectLeafIds(strip[i].layout)

LEMMA GoodTabParts ==
    ASSUME NEW t \in GoodTabs
    PROVE  /\ t.id \in Tab /\ t.layout \in GoodLayouts /\ t.layout \in Layouts
           /\ t \in Tabs /\ t = [id |-> t.id, layout |-> t.layout]
BY DEF GoodTabs, GoodLayouts, Tabs

LEMMA StripParts ==
    ASSUME NEW strip \in Seq(GoodTabs)
    PROVE  /\ Len(strip) \in Nat /\ DOMAIN strip = 1..Len(strip)
           /\ \A i \in DOMAIN strip : strip[i] \in GoodTabs
           /\ strip \in Seq(Tabs) /\ TabIdsOf(strip) \subseteq Tab
           /\ strip # <<>> => 1 \in DOMAIN strip
           /\ strip = <<>> => DOMAIN strip = {}
<1>1. Len(strip) \in Nat /\ DOMAIN strip = 1..Len(strip)
  OBVIOUS
<1>2. \A i \in DOMAIN strip : strip[i] \in GoodTabs
  OBVIOUS
<1>3. GoodTabs \subseteq Tabs
  BY GoodTabParts
<1>4. strip \in Seq(Tabs)
  BY <1>3
<1>5. TabIdsOf(strip) \subseteq Tab
  BY <1>2, GoodTabParts DEF TabIdsOf
<1>6. strip # <<>> => 1 \in DOMAIN strip
  <2>1. strip # <<>> => Len(strip) \in Nat \ {0}
    BY EmptySeq
  <2> QED BY <1>1, <2>1
<1>7. strip = <<>> => DOMAIN strip = {}
  <2>1. strip = <<>> => Len(strip) = 0
    BY EmptySeq
  <2> QED BY <1>1, <2>1
<1> QED BY <1>1, <1>2, <1>4, <1>5, <1>6, <1>7

LEMMA TabOfIsThere ==
    ASSUME NEW strip, NEW id \in TabIdsOf(strip)
    PROVE  \E i \in DOMAIN strip : strip[i].id = id /\ TabOf(strip, id) = strip[i]
<1>1. \E i \in DOMAIN strip : strip[i].id = id
  BY DEF TabIdsOf
<1> QED BY <1>1 DEF TabOf

\* The tab that an id names.
LEMMA TabOfParts ==
    ASSUME NEW strip, GoodStrip(strip), NEW id \in TabIdsOf(strip)
    PROVE  /\ TabOf(strip, id) \in GoodTabs /\ TabOf(strip, id).id = id
           /\ TabOf(strip, id).layout \in GoodLayouts
           /\ \A l \in CollectLeafIds(TabOf(strip, id).layout) :
                TabHas(strip, l, id)
<1>1. PICK i \in DOMAIN strip : strip[i].id = id /\ TabOf(strip, id) = strip[i]
  BY TabOfIsThere
<1>2. strip[i] \in GoodTabs
  BY StripParts DEF GoodStrip
<1> QED BY <1>1, <1>2, GoodTabParts DEF TabHas

LEMMA LeafIdsAre ==
    ASSUME NEW strip, NEW l
    PROVE  l \in LeafIdsOf(strip) <=>
             \E i \in DOMAIN strip : l \in CollectLeafIds(strip[i].layout)
BY DEF LeafIdsOf

LEMMA NoStrip ==
    /\ <<>> \in Seq(Tabs) /\ GoodStrip(<<>>) /\ DOMAIN <<>> = {}
    /\ TabIdsOf(<<>>) = {} /\ LeafIdsOf(<<>>) = {}
    /\ \A l, t : ~TabHas(<<>>, l, t)
<1>1. <<>> \in Seq(GoodTabs) /\ <<>> \in Seq(Tabs)
  BY EmptySeq
<1>2. DOMAIN <<>> = {}
  BY <1>1, StripParts
<1> QED BY <1>1, <1>2 DEF GoodStrip, TabIdsOf, LeafIdsOf, TabHas

LEMMA OneTab ==
    ASSUME NEW t
    PROVE  /\ DOMAIN <<t>> = {1} /\ <<t>>[1] = t /\ <<t>> # <<>>
           /\ LeafIdsOf(<<t>>) = CollectLeafIds(t.layout)
           /\ t \in Tabs => <<t>> \in Seq(Tabs)
<1>1. DOMAIN <<t>> = {1} /\ <<t>>[1] = t /\ <<t>> # <<>>
  OBVIOUS
<1>2. LeafIdsOf(<<t>>) = CollectLeafIds(t.layout)
  BY <1>1 DEF LeafIdsOf
<1>3. t \in Tabs => <<t>> \in Seq(Tabs)
  OBVIOUS
<1> QED BY <1>1, <1>2, <1>3

LEMMA GoodAppend ==
    ASSUME NEW strip, GoodStrip(strip), NEW t \in GoodTabs,
           t.id \notin TabIdsOf(strip)
    PROVE  LET r == Append(strip, t)
           IN  /\ GoodStrip(r) /\ r # <<>>
               /\ TabIdsOf(r) = TabIdsOf(strip) \cup {t.id}
               /\ \A l, u : TabHas(r, l, u) =>
                    \/ TabHas(strip, l, u)
                    \/ u = t.id /\ l \in CollectLeafIds(t.layout)
<1> DEFINE r == Append(strip, t)
<1>1. strip \in Seq(GoodTabs) /\ Len(strip) \in Nat /\ DOMAIN strip = 1..Len(strip)
  BY StripParts DEF GoodStrip
<1>2. /\ r \in Seq(GoodTabs) /\ r # <<>> /\ Len(r) = Len(strip) + 1
      /\ \A i \in 1..Len(strip) : r[i] = strip[i]
      /\ r[Len(strip) + 1] = t
  BY <1>1, AppendProperties
<1>3. DOMAIN r = 1..(Len(strip) + 1)
  BY <1>2, StripParts
<1> HIDE DEF r
<1>4. \A i \in DOMAIN r : \/ i \in DOMAIN strip /\ r[i] = strip[i]
                          \/ i = Len(strip) + 1 /\ r[i] = t
  BY <1>1, <1>2, <1>3
<1>5. \A i \in DOMAIN strip : i \in DOMAIN r /\ r[i] = strip[i]
  BY <1>1, <1>2, <1>3
<1>6. Len(strip) + 1 \in DOMAIN r
  BY <1>1, <1>3
<1>7. \A i \in DOMAIN strip : strip[i].id # t.id
  BY DEF TabIdsOf
<1>8. \A i, j \in DOMAIN r : i # j => r[i].id # r[j].id
  BY <1>4, <1>7 DEF GoodStrip
<1>9. TabIdsOf(r) = TabIdsOf(strip) \cup {t.id}
  BY <1>2, <1>4, <1>5, <1>6 DEF TabIdsOf
<1>10. ASSUME NEW l, NEW u, TabHas(r, l, u)
       PROVE  TabHas(strip, l, u) \/ (u = t.id /\ l \in CollectLeafIds(t.layout))
  <2>1. PICK i \in DOMAIN r : r[i].id = u /\ l \in CollectLeafIds(r[i].layout)
    BY <1>10 DEF TabHas
  <2> QED BY <1>4, <2>1 DEF TabHas
<1> QED BY <1>2, <1>8, <1>9, <1>10 DEF GoodStrip, r

\* A strip whose tabs are given other layouts.
LEMMA SameTabs ==
    ASSUME NEW strip, GoodStrip(strip), NEW r, r = [i \in DOMAIN strip |-> r[i]],
           \A i \in DOMAIN strip : r[i] \in GoodTabs /\ r[i].id = strip[i].id
    PROVE  /\ GoodStrip(r) /\ TabIdsOf(r) = TabIdsOf(strip)
           /\ DOMAIN r = DOMAIN strip /\ (r = <<>> <=> strip = <<>>)
<1>1. strip \in Seq(GoodTabs) /\ Len(strip) \in Nat /\ DOMAIN strip = 1..Len(strip)
  BY StripParts DEF GoodStrip
<1>2. DOMAIN r = DOMAIN strip
  OBVIOUS
<1>3. r \in Seq(GoodTabs)
  <2>1. r \in [1..Len(strip) -> GoodTabs]
    BY <1>1
  <2> QED BY <1>1, <2>1
<1>4. r = <<>> <=> strip = <<>>
  BY <1>1, <1>2, <1>3, StripParts
<1>5. TabIdsOf(r) = TabIdsOf(strip)
  BY <1>2 DEF TabIdsOf
<1> QED BY <1>2, <1>3, <1>4, <1>5 DEF GoodStrip

LEMMA GoodWith ==
    ASSUME NEW strip, GoodStrip(strip), NEW id, NEW L,
           id \in TabIdsOf(strip) => L \in GoodLayouts
    PROVE  LET r == WithLayout(strip, id, L)
           IN  /\ GoodStrip(r) /\ TabIdsOf(r) = TabIdsOf(strip)
               /\ r = <<>> <=> strip = <<>>
               /\ \A l, u : TabHas(r, l, u) =>
                    \/ TabHas(strip, l, u)
                    \/ u = id /\ id \in TabIdsOf(strip) /\ l \in CollectLeafIds(L)
<1> DEFINE r == WithLayout(strip, id, L)
<1>1. \A i \in DOMAIN strip : strip[i] \in GoodTabs
  BY StripParts DEF GoodStrip
<1>2. r = [i \in DOMAIN strip |-> r[i]]
  BY DEF WithLayout
<1>3. \A i \in DOMAIN strip :
        r[i] = IF strip[i].id = id THEN [strip[i] EXCEPT !.layout = L] ELSE strip[i]
  BY DEF WithLayout
<1> HIDE DEF r
<1>4. ASSUME NEW i \in DOMAIN strip
      PROVE  /\ r[i] \in GoodTabs /\ r[i].id = strip[i].id
             /\ r[i].layout = IF strip[i].id = id THEN L ELSE strip[i].layout
  <2>1. CASE strip[i].id = id
    <3>1. L \in GoodLayouts
      BY <2>1 DEF TabIdsOf
    <3> QED BY <1>1, <1>3, <2>1, <3>1 DEF GoodTabs
  <2>2. CASE strip[i].id # id
    BY <1>1, <1>3, <2>2
  <2> QED BY <2>1, <2>2
<1>5. /\ GoodStrip(r) /\ TabIdsOf(r) = TabIdsOf(strip)
      /\ DOMAIN r = DOMAIN strip /\ (r = <<>> <=> strip = <<>>)
  BY <1>2, <1>4, SameTabs
<1>6. ASSUME NEW l, NEW u, TabHas(r, l, u)
      PROVE  \/ TabHas(strip, l, u)
             \/ u = id /\ id \in TabIdsOf(strip) /\ l \in CollectLeafIds(L)
  <2>1. PICK i \in DOMAIN strip : r[i].id = u /\ l \in CollectLeafIds(r[i].layout)
    BY <1>5, <1>6 DEF TabHas
  <2> QED BY <1>4, <2>1 DEF TabHas, TabIdsOf
<1> QED BY <1>5, <1>6 DEF r

LEMMA GoodMark ==
    ASSUME NEW strip, GoodStrip(strip), NEW id
    PROVE  LET r == [i \in DOMAIN strip |->
                       [strip[i] EXCEPT !.layout = MarkLeafExited(@, id)]]
           IN  /\ GoodStrip(r) /\ TabIdsOf(r) = TabIdsOf(strip)
               /\ r = <<>> <=> strip = <<>>
               /\ \A l, u : TabHas(r, l, u) => TabHas(strip, l, u)
<1> DEFINE r == [i \in DOMAIN strip |->
                   [strip[i] EXCEPT !.layout = MarkLeafExited(@, id)]]
<1>1. \A i \in DOMAIN strip : strip[i] \in GoodTabs
  BY StripParts DEF GoodStrip
<1>2. r = [i \in DOMAIN strip |-> r[i]]
  OBVIOUS
<1>3. \A i \in DOMAIN strip :
        r[i] = [strip[i] EXCEPT !.layout = MarkLeafExited(strip[i].layout, id)]
  OBVIOUS
<1> HIDE DEF r
<1>4. ASSUME NEW L \in GoodLayouts
      PROVE  /\ MarkLeafExited(L, id) \in GoodLayouts
             /\ CollectLeafIds(MarkLeafExited(L, id)) = CollectLeafIds(L)
  <2> DEFINE M == MarkLeafExited(L, id)
  <2>1. /\ IsTree(DOMAIN L) /\ \A p \in DOMAIN L : L[p] \in LeafType
        /\ Distinct(L) /\ CollectLeafIds(L) \subseteq Leaf \cup Pending
    BY LayoutParts DEF GoodLayouts
  <2>2. \A p \in DOMAIN L : DOMAIN L[p] = {"id", "kind", "empty", "exited"}
    BY <2>1 DEF LeafType
  <2>3. /\ DOMAIN M = DOMAIN L /\ CollectLeafIds(M) = CollectLeafIds(L)
        /\ Distinct(M)
    BY <2>1, <2>2, MarkLeafExitedProperties
  <2>4. \A p \in DOMAIN L : M[p] \in {L[p], [L[p] EXCEPT !.exited = TRUE]}
    BY DEF MarkLeafExited
  <2>5. M = [p \in DOMAIN M |-> M[p]]
    BY DEF MarkLeafExited
  <2> HIDE DEF M
  <2>6. ASSUME NEW p \in DOMAIN M PROVE M[p] \in LeafType
    <3>1. L[p] \in LeafType /\ M[p] \in {L[p], [L[p] EXCEPT !.exited = TRUE]}
      BY <2>1, <2>3, <2>4
    <3> QED BY <3>1 DEF LeafType
  <2>7. M \in Layouts
    BY <2>1, <2>3, <2>5, <2>6, NewLayout
  <2>8. M \in GoodLayouts
    BY <2>1, <2>3, <2>7 DEF GoodLayouts
  <2> QED BY <2>3, <2>8 DEF M
<1>5. ASSUME NEW i \in DOMAIN strip
      PROVE  /\ r[i] \in GoodTabs /\ r[i].id = strip[i].id
             /\ CollectLeafIds(r[i].layout) = CollectLeafIds(strip[i].layout)
  <2>1. strip[i].layout \in GoodLayouts
    BY <1>1, GoodTabParts
  <2> QED BY <1>1, <1>3, <1>4, <2>1 DEF GoodTabs
<1>6. /\ GoodStrip(r) /\ TabIdsOf(r) = TabIdsOf(strip)
      /\ DOMAIN r = DOMAIN strip /\ (r = <<>> <=> strip = <<>>)
  BY <1>2, <1>5, SameTabs
<1>7. \A l, u : TabHas(r, l, u) => TabHas(strip, l, u)
  BY <1>5, <1>6 DEF TabHas
<1> QED BY <1>6, <1>7 DEF r

LEMMA GoodRemove ==
    ASSUME NEW strip, GoodStrip(strip), NEW id
    PROVE  LET r == WithoutTab(strip, id)
           IN  /\ GoodStrip(r) /\ TabIdsOf(r) = TabIdsOf(strip) \ {id}
               /\ r # <<>> => r[1].id \in TabIdsOf(r)
               /\ r = <<>> <=> TabIdsOf(r) = {}
               /\ \A l, u : TabHas(r, l, u) => TabHas(strip, l, u)
               /\ \A i \in DOMAIN r :
                    \E j \in DOMAIN strip : r[i] = strip[j] /\ strip[j].id # id
               /\ \A j \in DOMAIN strip :
                    strip[j].id # id => \E i \in DOMAIN r : r[i] = strip[j]
<1> DEFINE r == WithoutTab(strip, id)
           I == {i \in 1..Len(strip) : strip[i].id = id}
<1>1. /\ strip \in Seq(GoodTabs) /\ Len(strip) \in Nat
      /\ DOMAIN strip = 1..Len(strip)
      /\ \A i, j \in DOMAIN strip : i # j => strip[i].id # strip[j].id
  BY StripParts DEF GoodStrip
<1>2. \/ I = {} /\ r = strip
      \/ \E i \in I : r = RemoveAt(strip, i)
  <2>1. CASE I = {}
    BY <2>1 DEF WithoutTab, RemoveFirstMatch
  <2>2. CASE I # {}
    <3>1. I \subseteq Nat
      BY <1>1
    <3>2. \E i \in I : \A j \in I : i <= j
      BY <2>2, <3>1, LeastNat
    <3>3. Min(I) \in I
      BY <3>2 DEF Min
    <3>4. r = RemoveAt(strip, Min(I))
      BY <2>2 DEF WithoutTab, RemoveFirstMatch, SelectInSeq
    <3> QED BY <3>3, <3>4
  <2> QED BY <2>1, <2>2
<1> HIDE DEF r
<1>3. /\ r \in Seq(GoodTabs)
      /\ \A i \in DOMAIN r :
           \E j \in DOMAIN strip : r[i] = strip[j] /\ strip[j].id # id
      /\ \A j \in DOMAIN strip :
           strip[j].id # id => \E i \in DOMAIN r : r[i] = strip[j]
      /\ \A i, j \in DOMAIN r : i # j => r[i].id # r[j].id
  <2>1. CASE I = {} /\ r = strip
    BY <1>1, <2>1
  <2>2. CASE \E i \in I : r = RemoveAt(strip, i)
    <3>1. PICK i \in I : r = RemoveAt(strip, i)
      BY <2>2
    <3>2. i \in Nat /\ 1 <= i /\ i <= Len(strip) /\ strip[i].id = id
      BY <1>1
    <3>3. /\ r \in Seq(GoodTabs) /\ Len(r) = Len(strip) - 1
          /\ \A k \in 1..(Len(strip) - 1) :
               r[k] = IF k < i THEN strip[k] ELSE strip[k + 1]
      BY <1>1, <3>1, RemoveAtProperties
    <3>4. DOMAIN r = 1..(Len(strip) - 1)
      BY <3>3
    <3> DEFINE at(k) == IF k < i THEN k ELSE k + 1
    <3>5. ASSUME NEW k \in DOMAIN r
          PROVE  at(k) \in DOMAIN strip /\ at(k) # i /\ r[k] = strip[at(k)]
      <4>1. k \in 1..(Len(strip) - 1)
        BY <3>4
      <4>2. r[k] = strip[at(k)]
        BY <3>3, <4>1
      <4>3. at(k) \in 1..Len(strip) /\ at(k) # i
        BY <1>1, <3>2, <4>1
      <4> QED BY <1>1, <4>2, <4>3
    <3>6. \A k \in DOMAIN r : r[k].id # id
      <4>1. i \in DOMAIN strip
        BY <1>1
      <4> QED BY <1>1, <3>2, <3>5, <4>1
    <3>7. ASSUME NEW k \in DOMAIN r, NEW m \in DOMAIN r, k # m
          PROVE  r[k].id # r[m].id
      <4>1. k \in Nat /\ m \in Nat
        BY <3>4
      <4>2. at(k) # at(m)
        BY <3>2, <3>7, <4>1
      <4> QED BY <1>1, <3>5, <4>2
    <3>8. ASSUME NEW j \in DOMAIN strip, strip[j].id # id
          PROVE  \E k \in DOMAIN r : r[k] = strip[j]
      <4>1. j \in Nat /\ 1 <= j /\ j <= Len(strip) /\ j # i
        BY <1>1, <3>2, <3>8
      <4>2. CASE j < i
        <5>1. j \in 1..(Len(strip) - 1)
          BY <1>1, <3>2, <4>1, <4>2
        <5> QED BY <3>3, <3>4, <4>2, <5>1
      <4>3. CASE i < j
        <5>1. j - 1 \in 1..(Len(strip) - 1) /\ ~(j - 1 < i) /\ (j - 1) + 1 = j
          BY <1>1, <3>2, <4>1, <4>3
        <5> QED BY <3>3, <3>4, <5>1
      <4> QED BY <3>2, <4>1, <4>2, <4>3
    <3> QED BY <3>3, <3>5, <3>6, <3>7, <3>8
  <2> QED BY <1>2, <2>1, <2>2
<1>4. GoodStrip(r)
  BY <1>3 DEF GoodStrip
<1>5. TabIdsOf(r) = TabIdsOf(strip) \ {id}
  BY <1>3 DEF TabIdsOf
<1>6. \A l, u : TabHas(r, l, u) => TabHas(strip, l, u)
  BY <1>3 DEF TabHas
<1>7. /\ r # <<>> => r[1].id \in TabIdsOf(r)
      /\ r = <<>> <=> TabIdsOf(r) = {}
  <2>1. /\ r # <<>> => 1 \in DOMAIN r
        /\ r = <<>> => DOMAIN r = {}
    BY <1>3, StripParts
  <2> QED BY <2>1 DEF TabIdsOf
<1> QED BY <1>3, <1>4, <1>5, <1>6, <1>7 DEF r

-----------------------------------------------------------------------------
(* Calls in flight, and who a pane belongs to                              *)

\* The panes of a template are placeholders, in the order of their numbers.
IsTemplate(L) ==
    /\ CollectLeafIds(L) \subseteq Pending
    /\ \A p, q \in DOMAIN L : LeftOf(p, q) => L[p].id[2] < L[q].id[2]

\* The tabs of a strip have ids of their own.
Named(strip) ==
    \A i, j \in DOMAIN strip :
      strip[i].id \in Tab /\ (i # j => strip[i].id # strip[j].id)

\* No pane is in two tabs.
Apart(strip) ==
    \A l \in Leaf : \A t, u : TabHas(strip, l, t) /\ TabHas(strip, l, u) => t = u

\* What a call has in hand.
CallOK(x) ==
    /\ x.call \in OpensOne =>
         \/ x.got = <<>>
         \/ \E leaf \in LeafType :
              /\ x.pane = "shell" /\ leaf.kind = "shell" /\ leaf.id \in Leaf
              /\ x.got = <<NewTab(None, SingleLeaf(leaf))>>
    /\ x.call = "replaceEmptyLeaf" => x.leaf \in Leaf \cup Pending
    /\ x.call = "closePane" => x.seen \in GoodLayouts
    /\ x.call = "launch" =>
         \E L \in GoodLayouts : IsTemplate(L) /\ x.got = <<NewTab(None, L)>>
    /\ x.call = "launched" => \E L \in GoodLayouts : x.got = <<NewTab(None, L)>>
    /\ x.call = "hydrate" => Named(x.got) /\ LeafIdsOf(x.got) \subseteq {None}
    /\ x.call = "rebuilt" => x.got # <<>> /\ GoodStrip(x.got) /\ Apart(x.got)
    /\ x.call \notin OpensOne \cup {"launch", "launched", "hydrate", "rebuilt", "reset"}
         => x.got = <<>>
GoodCalls == {x \in Calls : CallOK(x)}

\* A call will put the pane l back into the tab t.
CallHas(x, l, t) ==
    x.call = "closePane" /\ x.tab = t /\ l \in CollectLeafIds(x.seen)

\* A call has opened the pane l and has not put it anywhere yet.
Carries(x, l) ==
    x.call \in OpensOne \cup {"launched", "rebuilt"} /\ l \in LeafIdsOf(x.got)

Held(strip, calls, l, t) ==
    TabHas(strip, l, t) \/ \E c \in Call : CallHas(calls[c], l, t)

\* A pane belongs to one tab, or to one call, or to none.
OneOwner(strip, calls) ==
    \A l \in Leaf :
      /\ \A t, u : Held(strip, calls, l, t) /\ Held(strip, calls, l, u) => t = u
      /\ \A c \in Call : Carries(calls[c], l) =>
           /\ \A t : ~Held(strip, calls, l, t)
           /\ \A d \in Call : Carries(calls[d], l) => c = d

\* A pane that belongs to none.
Free(strip, calls, l) ==
    /\ \A t : ~Held(strip, calls, l, t)
    /\ \A c \in Call : ~Carries(calls[c], l)

\* A call that neither has nor carries a pane.
Quiet(x) == \A l \in Leaf : ~Carries(x, l) /\ \A t : ~CallHas(x, l, t)

LEMMA OwnersKept ==
    ASSUME NEW s, NEW x, OneOwner(s, x), NEW r, NEW y,
           \A l \in Leaf : \A t : TabHas(r, l, t) => Held(s, x, l, t),
           \A d \in Call : \/ y[d] = x[d]
                           \/ \A l \in Leaf :
                                /\ ~Carries(y[d], l)
                                /\ \A t : CallHas(y[d], l, t) => Held(s, x, l, t)
    PROVE  OneOwner(r, y)
<1> SUFFICES ASSUME NEW l \in Leaf
             PROVE  /\ \A t : Held(r, y, l, t) => Held(s, x, l, t)
                    /\ \A c \in Call : Carries(y[c], l) => Carries(x[c], l)
  BY DEF OneOwner
<1>1. \A t : Held(r, y, l, t) => Held(s, x, l, t)
  BY DEF Held
<1> QED BY <1>1

\* Only the tab id has got panes, of N, where the strip s became r.
Gets(s, r, id, N) ==
    \A l \in Leaf : \A t :
      TabHas(r, l, t) => TabHas(s, l, t) \/ (t = id /\ l \in N)

\* The panes of N were the tab's, or nobody's, or carried by the call c that
\* ends, where the calls x became y.
Given(s, x, y, c, id, N) ==
    \A l \in N \cap Leaf : \/ Held(s, x, l, id)
                            \/ Free(s, x, l)
                            \/ (Carries(x[c], l) /\ Quiet(y[c]))

LEMMA OwnersToTab ==
    ASSUME NEW s, NEW x, OneOwner(s, x), NEW r, NEW y, NEW id, NEW N,
           NEW c \in Call, \A d \in Call : y[d] = x[d] \/ Quiet(y[d]),
           Gets(s, r, id, N), Given(s, x, y, c, id, N)
    PROVE  OneOwner(r, y)
<1> SUFFICES ASSUME NEW l \in Leaf
             PROVE  /\ \A t, u : Held(r, y, l, t) /\ Held(r, y, l, u) => t = u
                    /\ \A d \in Call : Carries(y[d], l) =>
                         /\ \A t : ~Held(r, y, l, t)
                         /\ \A e \in Call : Carries(y[e], l) => d = e
  BY DEF OneOwner
<1>1. \A d \in Call : /\ Carries(y[d], l) => Carries(x[d], l)
                      /\ \A t : CallHas(y[d], l, t) => CallHas(x[d], l, t)
  BY DEF Quiet
<1>2. \A t : Held(r, y, l, t) => Held(s, x, l, t) \/ (t = id /\ l \in N)
  BY <1>1 DEF Held, Gets
<1>3. CASE l \notin N
  BY <1>1, <1>2, <1>3 DEF OneOwner
<1>4. CASE l \in N
  <2>1. CASE Held(s, x, l, id)
    BY <1>1, <1>2, <2>1 DEF OneOwner
  <2>2. CASE Free(s, x, l)
    BY <1>1, <1>2, <2>2 DEF Free
  <2>3. CASE Carries(x[c], l) /\ Quiet(y[c])
    <3>1. \A d \in Call : ~Carries(y[d], l)
      BY <1>1, <2>3 DEF OneOwner, Quiet
    <3>2. \A t : ~Held(s, x, l, t)
      BY <2>3 DEF OneOwner
    <3> QED BY <1>2, <3>1, <3>2
  <2> QED BY <1>4, <2>1, <2>2, <2>3 DEF Given
<1> QED BY <1>3, <1>4

\* Panes that were nobody's are carried by one call.
LEMMA OwnersToCall ==
    ASSUME NEW s, NEW x, OneOwner(s, x), NEW y, NEW c \in Call,
           \A d \in Call : d # c => y[d] = x[d],
           \A l \in Leaf : /\ \A t : ~CallHas(y[c], l, t)
                           /\ Carries(y[c], l) => Free(s, x, l)
    PROVE  OneOwner(s, y)
<1> SUFFICES ASSUME NEW l \in Leaf
             PROVE  /\ \A t, u : Held(s, y, l, t) /\ Held(s, y, l, u) => t = u
                    /\ \A d \in Call : Carries(y[d], l) =>
                         /\ \A t : ~Held(s, y, l, t)
                         /\ \A e \in Call : Carries(y[e], l) => d = e
  BY DEF OneOwner
<1>1. \A t : Held(s, y, l, t) => Held(s, x, l, t)
  BY DEF Held
<1>2. \A d \in Call : d # c => (Carries(y[d], l) => Carries(x[d], l))
  OBVIOUS
<1>3. CASE Carries(y[c], l)
  BY <1>1, <1>2, <1>3 DEF Free
<1>4. CASE ~Carries(y[c], l)
  BY <1>1, <1>2, <1>4 DEF OneOwner
<1> QED BY <1>3, <1>4

\* What a call carried becomes the strip.
LEMMA OwnersOfRebuilt ==
    ASSUME NEW s, NEW x, OneOwner(s, x), NEW r, Apart(r), NEW y, NEW c \in Call,
           \A l, t : TabHas(r, l, t) => Carries(x[c], l),
           Quiet(y[c]), \A d \in Call : d # c => y[d] = x[d]
    PROVE  OneOwner(r, y)
<1> SUFFICES ASSUME NEW l \in Leaf
             PROVE  /\ \A t, u : Held(r, y, l, t) /\ Held(r, y, l, u) => t = u
                    /\ \A d \in Call : Carries(y[d], l) =>
                         /\ \A t : ~Held(r, y, l, t)
                         /\ \A e \in Call : Carries(y[e], l) => d = e
  BY DEF OneOwner
<1>1. \A d \in Call : /\ Carries(y[d], l) => d # c /\ Carries(x[d], l)
                      /\ \A t : CallHas(y[d], l, t) => Held(s, x, l, t)
  BY DEF Quiet, Held
<1>2. \A t : Held(r, y, l, t) => TabHas(r, l, t) \/ Held(s, x, l, t)
  BY <1>1 DEF Held
<1>3. CASE \E t : TabHas(r, l, t)
  <2>1. Carries(x[c], l)
    BY <1>3
  <2>2. \A t : ~Held(s, x, l, t)
    BY <2>1 DEF OneOwner
  <2>3. \A d \in Call : ~Carries(y[d], l)
    BY <1>1, <2>1 DEF OneOwner
  <2> QED BY <1>2, <2>2, <2>3 DEF Apart
<1>4. CASE ~\E t : TabHas(r, l, t)
  BY <1>1, <1>2, <1>4 DEF OneOwner
<1> QED BY <1>3, <1>4

-----------------------------------------------------------------------------
(* The invariant                                                           *)

Active(strip, id) == IF strip = <<>> THEN id = None ELSE id \in TabIdsOf(strip)

\* The calls in flight are sound, and what they have in hand is theirs.
CallsInv(strip, calls) ==
    calls \in [Call -> GoodCalls] /\ OneOwner(strip, calls)

Pointers == focusedLeafId \in Ids /\ maximizedLeafId \in Ids

Rest == /\ hydrated \in BOOLEAN /\ hydrating \in BOOLEAN
        /\ win \in {"main", "popout", "closed"}
        /\ pty \subseteq Leaf /\ exits \subseteq Leaf
        /\ inputs \in 0..MaxInputs

TabsInv ==
    /\ GoodStrip(tabs) /\ Active(tabs, activeTabId)
    /\ Pointers
    /\ Rest
    /\ IsSaved(saved)
    /\ CallsInv(tabs, op)

LEMMA ActiveTab ==
    ASSUME NEW strip, GoodStrip(strip), NEW id, Active(strip, id)
    PROVE  /\ id \in Tab \cup {None}
           /\ strip # <<>> => id \in TabIdsOf(strip)
BY StripParts DEF Active, GoodStrip

LEMMA CallParts ==
    ASSUME NEW x \in GoodCalls
    PROVE  /\ x.call \in CallNames /\ x.tab \in Tab \cup {None} /\ x.leaf \in Ids
           /\ x.pane \in {"agent", "shell"} /\ x.seen \in Layouts \cup {NoLayout}
           /\ x.got \in Seq(Tabs) /\ CallOK(x) /\ x \in Calls
BY DEF GoodCalls, Calls

\* A call that has nothing in hand yet.
LEMMA EmptyHanded ==
    ASSUME NEW x \in Calls, x.got = <<>>, x.call \notin {"closePane", "launch",
                                                         "launched", "rebuilt"},
           x.call = "replaceEmptyLeaf" => x.leaf \in Leaf \cup Pending
    PROVE  x \in GoodCalls /\ Quiet(x)
<1>1. CallOK(x)
  BY NoStrip DEF CallOK, Named
<1>2. Quiet(x)
  BY NoStrip DEF Quiet, Carries, CallHas
<1> QED BY <1>1, <1>2 DEF GoodCalls

LEMMA IdleIs ==
    /\ Idle \in Calls /\ Idle.call = "none" /\ Idle.got = <<>>
    /\ Idle \in GoodCalls /\ Quiet(Idle)
<1>1. Idle \in Calls /\ Idle.call = "none" /\ Idle.got = <<>>
  BY NoStrip DEF Idle, Calls, CallNames, Ids
<1> QED BY <1>1, EmptyHanded

\* One call goes on as x.
LEMMA CallGoesOn ==
    ASSUME NEW calls \in [Call -> GoodCalls], NEW c \in Call, NEW x \in GoodCalls
    PROVE  LET y == [calls EXCEPT ![c] = x]
           IN  /\ y \in [Call -> GoodCalls] /\ y[c] = x
               /\ \A d \in Call : d # c => y[d] = calls[d]
OBVIOUS

\* A call starts, or ends, with nothing of its own in hand.
LEMMA CallGoesOnQuietly ==
    ASSUME NEW strip, NEW calls, CallsInv(strip, calls), NEW c \in Call,
           NEW x \in GoodCalls,
           \A l \in Leaf : /\ ~Carries(x, l)
                           /\ \A t : CallHas(x, l, t) => Held(strip, calls, l, t)
    PROVE  CallsInv(strip, [calls EXCEPT ![c] = x])
<1> DEFINE y == [calls EXCEPT ![c] = x]
<1>1. /\ y \in [Call -> GoodCalls] /\ y[c] = x
      /\ \A d \in Call : d # c => y[d] = calls[d]
  BY CallGoesOn DEF CallsInv
<1> HIDE DEF y
<1>2. \A l \in Leaf : \A t : TabHas(strip, l, t) => Held(strip, calls, l, t)
  BY DEF Held
<1>3. OneOwner(strip, y)
  BY <1>1, <1>2, OwnersKept DEF CallsInv
<1> QED BY <1>1, <1>3 DEF CallsInv, y

LEMMA QuietGoesOn ==
    ASSUME NEW strip, NEW calls, CallsInv(strip, calls), NEW c \in Call,
           NEW x \in GoodCalls, Quiet(x)
    PROVE  CallsInv(strip, [calls EXCEPT ![c] = x])
BY CallGoesOnQuietly DEF Quiet

LEMMA AllIdle ==
    ASSUME NEW strip, NEW calls, CallsInv(strip, calls), NEW r,
           \A l \in Leaf : \A t : TabHas(r, l, t) => Held(strip, calls, l, t)
    PROVE  CallsInv(r, [c \in Call |-> Idle])
<1> DEFINE y == [c \in Call |-> Idle]
<1>1. y \in [Call -> GoodCalls] /\ \A d \in Call : y[d] = Idle
  BY IdleIs
<1> HIDE DEF y
<1>2. \A d \in Call : \A l \in Leaf : ~Carries(y[d], l) /\ \A t : ~CallHas(y[d], l, t)
  BY <1>1, IdleIs DEF Quiet
<1>3. OneOwner(r, y)
  BY <1>2, OwnersKept DEF CallsInv
<1> QED BY <1>1, <1>3 DEF CallsInv, y

\* The strip is changed while no pane gets to another tab.
LEMMA StripGoesOn ==
    ASSUME NEW strip, NEW calls, CallsInv(strip, calls), NEW r,
           \A l \in Leaf : \A t : TabHas(r, l, t) => TabHas(strip, l, t)
    PROVE  CallsInv(r, calls)
<1>1. \A l \in Leaf : \A t : TabHas(r, l, t) => Held(strip, calls, l, t)
  BY DEF Held
<1> QED BY <1>1, OwnersKept DEF CallsInv

\* What localStorage is given can be read back.
LEMMA StoredIsSaved ==
    ASSUME NEW strip, GoodStrip(strip), NEW id \in Tab \cup {None}
    PROVE  IsSaved(Stored(strip, id))
<1> DEFINE Kept(L) == [p \in DOMAIN L |-> [L[p] EXCEPT !.id = None]]
           r == [i \in DOMAIN strip |-> NewTab(strip[i].id, Kept(strip[i].layout))]
           s == Stored(strip, id)
<1>1. s = [tabs |-> r, activeTabId |-> id]
  BY DEF Stored
<1>2. /\ Len(strip) \in Nat /\ DOMAIN strip = 1..Len(strip)
      /\ \A i \in DOMAIN strip : strip[i] \in GoodTabs
  BY StripParts DEF GoodStrip
<1>3. ASSUME NEW L \in Layouts PROVE Kept(L) \in Layouts
  <2> DEFINE M == Kept(L)
  <2>1. IsTree(DOMAIN L) /\ \A p \in DOMAIN L : L[p] \in LeafType
    BY LayoutParts
  <2>2. DOMAIN M = DOMAIN L /\ M = [p \in DOMAIN M |-> M[p]]
    OBVIOUS
  <2>3. \A p \in DOMAIN L : M[p] = [L[p] EXCEPT !.id = None]
    OBVIOUS
  <2> HIDE DEF M
  <2>4. ASSUME NEW p \in DOMAIN M PROVE M[p] \in LeafType
    <3>1. L[p] \in LeafType /\ M[p] = [L[p] EXCEPT !.id = None]
      BY <2>1, <2>2, <2>3
    <3> QED BY <3>1 DEF LeafType, Ids
  <2>5. M \in Layouts
    BY <2>1, <2>2, <2>4, NewLayout
  <2> QED BY <2>5 DEF M
<1> HIDE DEF Kept
<1>4. \A i \in DOMAIN strip :
        r[i] = [id |-> strip[i].id, layout |-> Kept(strip[i].layout)]
  BY DEF NewTab
<1>5. DOMAIN r = DOMAIN strip /\ r = [i \in DOMAIN strip |-> r[i]]
  OBVIOUS
<1> HIDE DEF r
<1>6. ASSUME NEW i \in DOMAIN strip
      PROVE  r[i] \in Tabs /\ r[i].id = strip[i].id /\ r[i].id \in Tab
  <2>1. strip[i].id \in Tab /\ strip[i].layout \in Layouts
    BY <1>2, GoodTabParts
  <2>2. Kept(strip[i].layout) \in Layouts
    BY <1>3, <2>1
  <2>3. r[i] = [id |-> strip[i].id, layout |-> Kept(strip[i].layout)]
    BY <1>4
  <2>4. r[i] \in Tabs
    BY <2>1, <2>2, <2>3 DEF Tabs
  <2> QED BY <2>1, <2>3, <2>4
<1>7. r \in Seq(Tabs)
  <2>1. r \in [1..Len(strip) -> Tabs]
    BY <1>2, <1>5, <1>6
  <2> QED BY <1>2, <2>1
<1>8. IsStrip(r)
  BY <1>7, StripsAre
<1>9. \A i, j \in DOMAIN r : r[i].id \in Tab /\ (i # j => r[i].id # r[j].id)
  BY <1>5, <1>6 DEF GoodStrip
<1> HIDE DEF s
<1>10. /\ s.tabs = r /\ s.activeTabId = id
       /\ s \in [tabs : {r}, activeTabId : Tab \cup {None}]
  BY <1>1
<1>11. ASSUME NEW t \in Range(r) PROVE CollectLeafIds(t.layout) = {None}
  <2>1. PICK i \in DOMAIN strip : t = r[i]
    BY <1>5, <1>11 DEF Range
  <2>2. t.layout = Kept(strip[i].layout) /\ strip[i].layout \in Layouts
    <3>1. t = [id |-> strip[i].id, layout |-> Kept(strip[i].layout)]
      BY <1>4, <2>1
    <3>2. strip[i].layout \in Layouts
      BY <1>2, GoodTabParts
    <3> QED BY <3>1, <3>2
  <2> DEFINE L == strip[i].layout
             M == Kept(L)
  <2>3. DOMAIN M = DOMAIN L /\ \A p \in DOMAIN L : M[p].id = None
    <3>1. \A p \in DOMAIN L : L[p] \in LeafType
      BY <2>2, LayoutParts
    <3> QED BY <3>1 DEF Kept, LeafType
  <2>4. DOMAIN L # {}
    BY <2>2, LayoutParts, FirstPlace
  <2> QED BY <2>2, <2>3, <2>4 DEF CollectLeafIds
<1>12. IsSaved(s)
  BY <1>8, <1>9, <1>10, <1>11 DEF IsSaved
<1> QED BY <1>12 DEF s

LEMMA NothingIsSaved == IsSaved(NothingStored)
<1>1. IsStrip(<<>>) /\ DOMAIN <<>> = {}
  BY NoStrip, StripsAre
<1>2. Range(<<>>) = {}
  BY <1>1 DEF Range
<1> QED BY <1>1, <1>2 DEF IsSaved, NothingStored

\* The step writes to localStorage what it shows, or nothing.
LEMMA PersistKeeps ==
    ASSUME TabsInv, GoodStrip(tabs'), Active(tabs', activeTabId'), Persist
    PROVE  IsSaved(saved')
<1>1. activeTabId' \in Tab \cup {None}
  BY ActiveTab
<1>2. IsSaved(Stored(tabs', activeTabId'))
  BY <1>1, StoredIsSaved
<1> QED BY <1>2 DEF Persist, TabsInv

-----------------------------------------------------------------------------
(* Parts of steps                                                          *)

LEMMA FreshLeafParts ==
    ASSUME NEW l \in FreshLeaf
    PROVE  /\ l \in Leaf /\ l \in Ids /\ Free(tabs, op, l)
           /\ l \notin LeafIdsOf(tabs)
<1>1. l \in Leaf /\ l \notin LeafIdsOf(tabs)
  BY DEF FreshLeaf
<1>2. \A c \in Call : /\ l \notin CollectLeafIds(op[c].seen)
                     /\ l \notin LeafIdsOf(op[c].got)
  BY DEF FreshLeaf
<1>3. \A t : ~TabHas(tabs, l, t)
  BY <1>1, LeafIdsAre DEF TabHas
<1>4. \A c \in Call : ~Carries(op[c], l) /\ \A t : ~CallHas(op[c], l, t)
  BY <1>2, LeafIdsAre DEF Carries, CallHas, TabHas
<1> QED BY <1>1, <1>3, <1>4 DEF Free, Held, Ids

LEMMA FreshTabParts ==
    ASSUME NEW t \in FreshTab
    PROVE  t \in Tab /\ t \notin TabIdsOf(tabs)
BY DEF FreshTab

LEMMA NewLeafIs ==
    ASSUME NEW id \in Ids, NEW kind \in {"agent", "shell"}
    PROVE  NewLeaf(id, kind) \in LeafType /\ NewLeaf(id, kind).id = id
BY DEF NewLeaf, LeafType

LEMMA SingleIsGood ==
    ASSUME NEW leaf \in LeafType, leaf.id \in Leaf \cup Pending
    PROVE  /\ SingleLeaf(leaf) \in GoodLayouts /\ SingleLeaf(leaf) \in Layouts
           /\ CollectLeafIds(SingleLeaf(leaf)) = {leaf.id}
           /\ SingleLeaf(leaf)[<<>>] = leaf
<1> DEFINE L == SingleLeaf(leaf)
<1>1. IsTree(DOMAIN L) /\ DOMAIN L = {<<>>} /\ L[<<>>] = leaf
  BY SingleLeafTree
<1>2. L = [p \in DOMAIN L |-> L[p]]
  BY DEF SingleLeaf
<1> HIDE DEF L
<1>3. L \in Layouts
  BY <1>1, <1>2, NewLayout
<1>4. CollectLeafIds(L) = {leaf.id} /\ Distinct(L)
  BY <1>1 DEF CollectLeafIds, Distinct
<1> QED BY <1>1, <1>3, <1>4 DEF GoodLayouts, L

LEMMA GoodTabIs ==
    ASSUME NEW t \in Tab, NEW L \in GoodLayouts
    PROVE  NewTab(t, L) \in GoodTabs /\ NewTab(t, L).id = t
           /\ NewTab(t, L).layout = L
BY DEF NewTab, GoodTabs

LEMMA NamelessTabIs ==
    ASSUME NEW L \in Layouts
    PROVE  NewTab(None, L) \in Tabs /\ NewTab(None, L).layout = L
BY DEF NewTab, Tabs

\* The shell that a call has opened.
LEMMA OpenedIs ==
    ASSUME TabsInv, NEW c \in Call, op[c].call \in OpensOne, op[c].got # <<>>
    PROVE  /\ Opened(c) \in LeafType /\ Opened(c).id \in Leaf
           /\ Carries(op[c], Opened(c).id)
<1>1. op[c] \in GoodCalls
  BY DEF TabsInv, CallsInv
<1>2. PICK leaf \in LeafType :
        leaf.id \in Leaf /\ op[c].got = <<NewTab(None, SingleLeaf(leaf))>>
  BY <1>1, CallParts DEF CallOK
<1> DEFINE L == SingleLeaf(leaf)
<1>3. L \in Layouts /\ CollectLeafIds(L) = {leaf.id} /\ L[<<>>] = leaf
  BY <1>2, SingleIsGood
<1> HIDE DEF L
<1>4. NewTab(None, L).layout = L
  BY <1>3, NamelessTabIs
<1>5. op[c].got = <<NewTab(None, L)>>
  BY <1>2 DEF L
<1>6. op[c].got[1].layout = L /\ LeafIdsOf(op[c].got) = {leaf.id}
  BY <1>3, <1>4, <1>5, OneTab
<1> QED BY <1>2, <1>3, <1>6 DEF Opened, Carries

LEMMA KillKeeps ==
    ASSUME TabsInv, NEW ids, Kill(ids)
    PROVE  pty' \subseteq Leaf /\ exits' \subseteq Leaf
BY DEF TabsInv, Rest, Kill

LEMMA InputKeeps ==
    ASSUME TabsInv, Input
    PROVE  inputs' \in 0..MaxInputs
<1>1. inputs \in Nat /\ MaxInputs \in Nat /\ inputs < MaxInputs
  BY TabsAssumption DEF TabsAssumption, TabsInv, Rest, Input
<1> QED BY <1>1 DEF Input

\* A pane to focus.
LEMMA FirstIsId ==
    ASSUME NEW strip, GoodStrip(strip), NEW t \in TabIdsOf(strip)
    PROVE  FirstLeafId(TabOf(strip, t).layout) \in Ids
<1>1. TabOf(strip, t).layout \in Layouts
  BY TabOfParts, GoodTabParts
<1> QED BY <1>1, LayoutParts

LEMMA HeldIs ==
    ASSUME NEW strip, NEW calls, NEW l, NEW t, TabHas(strip, l, t)
    PROVE  Held(strip, calls, l, t)
BY DEF Held

\* A call starts, or ends, and the strip stays as it is.
LEMMA CallStepKeeps ==
    ASSUME TabsInv, NEW c \in Call, NEW x \in GoodCalls,
           \A l \in Leaf : /\ ~Carries(x, l)
                           /\ \A t : CallHas(x, l, t) => Held(tabs, op, l, t),
           op' = [op EXCEPT ![c] = x], UNCHANGED ui, IsSaved(saved'), Rest'
    PROVE  TabsInv'
<1>1. CallsInv(tabs, [op EXCEPT ![c] = x])
  BY CallGoesOnQuietly DEF TabsInv
<1>2. CallsInv(tabs', op')
  BY <1>1 DEF ui
<1>3. GoodStrip(tabs') /\ Active(tabs', activeTabId')
  BY DEF TabsInv, ui
<1>4. Pointers'
  BY DEF TabsInv, ui, Pointers
<1> QED BY <1>2, <1>3, <1>4 DEF TabsInv

LEMMA QuietStepKeeps ==
    ASSUME TabsInv, NEW c \in Call, NEW x \in GoodCalls, Quiet(x),
           op' = [op EXCEPT ![c] = x], UNCHANGED ui, IsSaved(saved'), Rest'
    PROVE  TabsInv'
BY CallStepKeeps DEF Quiet

\* The step adds a tab, whose panes were nobody's or the call's that ends.
LEMMA AppendKeeps ==
    ASSUME TabsInv, NEW c \in Call, NEW t \in FreshTab, NEW L \in GoodLayouts,
           \A l \in CollectLeafIds(L) \cap Leaf :
             Free(tabs, op, l) \/ Carries(op[c], l),
           tabs' = Append(tabs, NewTab(t, L)), activeTabId' = t, Done(c)
    PROVE  /\ GoodStrip(tabs') /\ Active(tabs', activeTabId')
           /\ CallsInv(tabs', op')
<1> DEFINE n == NewTab(t, L)
<1>1. n \in GoodTabs /\ n.id = t /\ n.layout = L
  BY FreshTabParts, GoodTabIs
<1>2. GoodStrip(tabs) /\ n.id \notin TabIdsOf(tabs)
  BY <1>1, FreshTabParts DEF TabsInv
<1>3. tabs' = Append(tabs, n)
  OBVIOUS
<1> HIDE DEF n
<1>4. /\ GoodStrip(tabs') /\ tabs' # <<>>
      /\ TabIdsOf(tabs') = TabIdsOf(tabs) \cup {t}
      /\ \A l, u : TabHas(tabs', l, u) =>
           TabHas(tabs, l, u) \/ (u = t /\ l \in CollectLeafIds(L))
  <2>1. LET r == Append(tabs, n)
        IN  /\ GoodStrip(r) /\ r # <<>>
            /\ TabIdsOf(r) = TabIdsOf(tabs) \cup {n.id}
            /\ \A l, u : TabHas(r, l, u) =>
                 \/ TabHas(tabs, l, u)
                 \/ u = n.id /\ l \in CollectLeafIds(n.layout)
    BY <1>1, <1>2, GoodAppend
  <2> QED BY <1>1, <1>3, <2>1
<1>5. Active(tabs', activeTabId')
  BY <1>4 DEF Active
<1>6. /\ op' \in [Call -> GoodCalls] /\ op'[c] = Idle
      /\ \A d \in Call : d # c => op'[d] = op[d]
  BY CallGoesOn, IdleIs DEF TabsInv, CallsInv, Done
<1>7. \A d \in Call : op'[d] = op[d] \/ Quiet(op'[d])
  BY <1>6, IdleIs
<1>8. Quiet(op'[c])
  BY <1>6, IdleIs
<1>9. OneOwner(tabs, op)
  BY DEF TabsInv, CallsInv
<1>10. OneOwner(tabs', op')
  <2>1. Given(tabs, op, op', c, t, CollectLeafIds(L))
    BY <1>8 DEF Given
  <2>2. Gets(tabs, tabs', t, CollectLeafIds(L))
    BY <1>4 DEF Gets
  <2> QED BY <1>7, <1>9, <2>1, <2>2, OwnersToTab
<1> QED BY <1>4, <1>5, <1>6, <1>10 DEF CallsInv

\* A tab is given another layout, whose panes were its own, or nobody's, or the
\* call's that ends.
LEMMA WithKeeps ==
    ASSUME TabsInv, NEW c \in Call, NEW id, NEW L,
           id \in TabIdsOf(tabs) =>
             /\ L \in GoodLayouts
             /\ Given(tabs, op, op', c, id, CollectLeafIds(L)),
           tabs' = WithLayout(tabs, id, L), activeTabId' = activeTabId,
           op' \in [Call -> GoodCalls],
           \A d \in Call : op'[d] = op[d] \/ Quiet(op'[d])
    PROVE  /\ GoodStrip(tabs') /\ Active(tabs', activeTabId')
           /\ CallsInv(tabs', op')
<1>1. GoodStrip(tabs) /\ Active(tabs, activeTabId) /\ OneOwner(tabs, op)
  BY DEF TabsInv, CallsInv
<1>2. /\ GoodStrip(tabs') /\ TabIdsOf(tabs') = TabIdsOf(tabs)
      /\ tabs' = <<>> <=> tabs = <<>>
      /\ \A l, u : TabHas(tabs', l, u) =>
           \/ TabHas(tabs, l, u)
           \/ u = id /\ id \in TabIdsOf(tabs) /\ l \in CollectLeafIds(L)
  BY <1>1, GoodWith
<1>3. Active(tabs', activeTabId')
  BY <1>1, <1>2 DEF Active
<1>4. OneOwner(tabs', op')
  <2>1. CASE id \in TabIdsOf(tabs)
    <3>1. Gets(tabs, tabs', id, CollectLeafIds(L))
      BY <1>2 DEF Gets
    <3> QED BY <1>1, <2>1, <3>1, OwnersToTab
  <2>2. CASE id \notin TabIdsOf(tabs)
    <3>1. \A l \in Leaf : \A t : TabHas(tabs', l, t) => Held(tabs, op, l, t)
      BY <1>2, <2>2 DEF Held
    <3>2. \A d \in Call :
            \/ op'[d] = op[d]
            \/ \A l \in Leaf :
                 /\ ~Carries(op'[d], l)
                 /\ \A t : CallHas(op'[d], l, t) => Held(tabs, op, l, t)
      BY DEF Quiet
    <3> QED BY <1>1, <3>1, <3>2, OwnersKept
  <2> QED BY <2>1, <2>2
<1> QED BY <1>2, <1>3, <1>4 DEF CallsInv

\* A tab goes.
LEMMA WithoutKeeps ==
    ASSUME TabsInv, NEW id, NEW ids, Without(id, ids)
    PROVE  /\ GoodStrip(tabs') /\ Active(tabs', activeTabId') /\ Pointers'
           /\ \A l, t : TabHas(tabs', l, t) => TabHas(tabs, l, t)
<1> DEFINE r == WithoutTab(tabs, id)
           next == IF activeTabId = id THEN r[1].id ELSE activeTabId
<1>1. GoodStrip(tabs) /\ Active(tabs, activeTabId)
  BY DEF TabsInv
<1>2. /\ tabs' = r
      /\ IF r = <<>> THEN activeTabId' = None /\ focusedLeafId' = None
         ELSE /\ activeTabId' = next
              /\ focusedLeafId' = FirstLeafId(TabOf(r, next).layout)
      /\ maximizedLeafId' = IF maximizedLeafId \in ids THEN None
                            ELSE maximizedLeafId
  BY DEF Without
<1>3. /\ GoodStrip(r) /\ TabIdsOf(r) = TabIdsOf(tabs) \ {id}
      /\ r # <<>> => r[1].id \in TabIdsOf(r)
      /\ r = <<>> <=> TabIdsOf(r) = {}
      /\ \A l, u : TabHas(r, l, u) => TabHas(tabs, l, u)
  BY <1>1, GoodRemove
<1> HIDE DEF r
<1>4. r # <<>> => next \in TabIdsOf(r)
  <2>1. r # <<>> => tabs # <<>>
    BY <1>3, NoStrip
  <2> QED BY <1>1, <1>3, <2>1 DEF Active
<1>5. r # <<>> => FirstLeafId(TabOf(r, next).layout) \in Ids
  BY <1>3, <1>4, FirstIsId
<1>6. None \in Ids
  BY DEF Ids
<1>7. Pointers'
  BY <1>2, <1>5, <1>6 DEF Pointers, TabsInv
<1> QED BY <1>2, <1>3, <1>4, <1>7 DEF Active

\* A pane goes from a layout that was its tab's.
LEMMA ClosedIsGood ==
    ASSUME NEW L \in GoodLayouts, NEW id
    PROVE  /\ CloseLeaf(L, id) \in GoodLayouts
           /\ CollectLeafIds(CloseLeaf(L, id)) \subseteq CollectLeafIds(L)
           /\ FirstLeafId(CloseLeaf(L, id)) \in Ids
<1> DEFINE M == CloseLeaf(L, id)
<1>1. /\ IsTree(DOMAIN L) /\ Distinct(L)
      /\ CollectLeafIds(L) \subseteq Leaf \cup Pending
      /\ \A p \in DOMAIN L : L[p] \in LeafType
      /\ L = [p \in DOMAIN L |-> L[p]]
  BY LayoutParts DEF GoodLayouts
<1>2. /\ IsTree(DOMAIN M)
      /\ \A q \in DOMAIN M : \E p \in DOMAIN L : M[q] = L[p]
      /\ CollectLeafIds(M) \subseteq CollectLeafIds(L)
      /\ Distinct(L) => Distinct(M)
  BY <1>1, CloseLeafProperties
<1>3. M = [q \in DOMAIN M |-> M[q]]
  <2>1. CASE ~HasLeaf(L, id) \/ DOMAIN L = {<<>>}
    BY <1>1, <2>1 DEF CloseLeaf
  <2>2. CASE HasLeaf(L, id) /\ DOMAIN L # {<<>>}
    <3> DEFINE p       == CHOOSE q \in LeavesAt(L, id) : TRUE
               n       == Len(p) - 1
               split   == SubSeq(p, 1, n)
               sibling == Append(split, 3 - p[n + 1])
               D       == {r \in DOMAIN L : ~Prefix(split, r)}
                            \cup {split \o Below(r, n + 1) :
                                    r \in {s \in DOMAIN L : Prefix(sibling, s)}}
               E(q)    == IF Prefix(split, q) THEN L[sibling \o Below(q, n)]
                          ELSE L[q]
    <3>1. M = [q \in D |-> E(q)]
      BY <2>2 DEF CloseLeaf
    <3> HIDE DEF D, E, M
    <3> QED BY <3>1
  <2> QED BY <2>1, <2>2
<1> HIDE DEF M
<1>4. M \in Layouts
  BY <1>1, <1>2, <1>3, NewLayout
<1>5. M \in GoodLayouts /\ FirstLeafId(M) \in Ids
  BY <1>1, <1>2, <1>4, LayoutParts DEF GoodLayouts
<1> QED BY <1>2, <1>5 DEF M

LEMMA SplitIsGood ==
    ASSUME NEW L \in GoodLayouts, NEW id, NEW leaf \in LeafType, leaf.id \in Leaf,
           leaf.id \notin CollectLeafIds(L)
    PROVE  /\ SplitLeaf(L, id, leaf) \in GoodLayouts
           /\ CollectLeafIds(SplitLeaf(L, id, leaf))
                \subseteq CollectLeafIds(L) \cup {leaf.id}
<1> DEFINE M == SplitLeaf(L, id, leaf)
<1>1. /\ IsTree(DOMAIN L) /\ Distinct(L)
      /\ CollectLeafIds(L) \subseteq Leaf \cup Pending
      /\ \A p \in DOMAIN L : L[p] \in LeafType
  BY LayoutParts DEF GoodLayouts
<1>2. /\ IsTree(DOMAIN M)
      /\ \A p \in DOMAIN M : M[p] = leaf \/ \E q \in DOMAIN L : M[p] = L[q]
      /\ CollectLeafIds(M) \subseteq CollectLeafIds(L) \cup {leaf.id}
      /\ leaf.id \notin CollectLeafIds(L) /\ Distinct(L) => Distinct(M)
  BY <1>1, SplitLeafProperties
<1>3. M = [q \in DOMAIN M |-> M[q]]
  BY DEF SplitLeaf
<1> HIDE DEF M
<1>4. M \in Layouts
  BY <1>1, <1>2, <1>3, NewLayout
<1>5. M \in GoodLayouts
  BY <1>1, <1>2, <1>4 DEF GoodLayouts
<1> QED BY <1>2, <1>5 DEF M

LEMMA ReplacedIsGood ==
    ASSUME NEW L \in GoodLayouts, NEW id, NEW leaf \in LeafType, leaf.id \in Leaf,
           leaf.id \notin CollectLeafIds(L)
    PROVE  /\ ReplaceLeafNode(L, id, leaf) \in GoodLayouts
           /\ CollectLeafIds(ReplaceLeafNode(L, id, leaf))
                \subseteq CollectLeafIds(L) \cup {leaf.id}
<1> DEFINE M == ReplaceLeafNode(L, id, leaf)
<1>1. /\ IsTree(DOMAIN L) /\ Distinct(L)
      /\ CollectLeafIds(L) \subseteq Leaf \cup Pending
      /\ \A p \in DOMAIN L : L[p] \in LeafType
  BY LayoutParts DEF GoodLayouts
<1>2. /\ DOMAIN M = DOMAIN L
      /\ \A p \in DOMAIN L : M[p] \in {L[p], leaf}
      /\ CollectLeafIds(M) \subseteq CollectLeafIds(L) \cup {leaf.id}
      /\ leaf.id \notin CollectLeafIds(L) /\ Distinct(L) => Distinct(M)
  BY ReplaceLeafNodeProperties
<1>3. M = [q \in DOMAIN M |-> M[q]]
  BY DEF ReplaceLeafNode
<1> HIDE DEF M
<1>4. \A p \in DOMAIN M : M[p] \in LeafType
  <2> SUFFICES ASSUME NEW p \in DOMAIN M PROVE M[p] \in LeafType
    OBVIOUS
  <2> QED BY <1>1, <1>2
<1>5. M \in Layouts
  BY <1>1, <1>2, <1>3, <1>4, NewLayout
<1>6. M \in GoodLayouts
  BY <1>1, <1>2, <1>5 DEF GoodLayouts
<1> QED BY <1>2, <1>6 DEF M

-----------------------------------------------------------------------------
(* addTab                                                                  *)

LEMMA CallIs ==
    ASSUME TabsInv, NEW c \in Call
    PROVE  /\ op[c] \in GoodCalls /\ op[c] \in Calls /\ CallOK(op[c])
           /\ op \in [Call -> GoodCalls]
BY CallParts DEF TabsInv, CallsInv

LEMMA AddTabStartKeeps ==
    ASSUME TabsInv, NEW c \in Call, NEW kind \in {"agent", "shell"},
           AddTabStart(c, kind)
    PROVE  TabsInv'
<1> DEFINE x == [Idle EXCEPT !.call = "addTab", !.pane = kind]
<1>1. x \in Calls /\ x.got = <<>> /\ x.call = "addTab"
  BY IdleIs DEF Calls, CallNames
<1>2. op' = [op EXCEPT ![c] = x]
  BY DEF AddTabStart
<1> HIDE DEF x
<1>3. x \in GoodCalls /\ Quiet(x)
  BY <1>1, EmptyHanded
<1>4. UNCHANGED ui /\ IsSaved(saved')
  BY DEF AddTabStart, TabsInv
<1>5. Rest'
  BY InputKeeps DEF AddTabStart, TabsInv, Rest
<1> QED BY <1>2, <1>3, <1>4, <1>5, QuietStepKeeps

LEMMA AddAgentTabKeeps ==
    ASSUME TabsInv, NEW c \in Call, AddAgentTab(c)
    PROVE  TabsInv'
<1>1. PICK l \in FreshLeaf, t \in FreshTab :
        Appended(NewTab(t, SingleLeaf(NewLeaf(l, "agent"))), l)
  BY DEF AddAgentTab
<1> DEFINE leaf == NewLeaf(l, "agent")
           L == SingleLeaf(leaf)
<1>2. l \in Leaf /\ l \in Ids /\ Free(tabs, op, l) /\ t \in Tab
  BY FreshLeafParts, FreshTabParts
<1>3. leaf \in LeafType /\ leaf.id = l
  BY <1>2, NewLeafIs
<1> HIDE DEF leaf
<1>4. L \in GoodLayouts /\ CollectLeafIds(L) = {l}
  BY <1>2, <1>3, SingleIsGood
<1>5. /\ tabs' = Append(tabs, NewTab(t, L)) /\ activeTabId' = t
      /\ focusedLeafId' = l /\ maximizedLeafId' = maximizedLeafId
  BY <1>1 DEF Appended, NewTab, leaf
<1> HIDE DEF L
<1>6. GoodStrip(tabs') /\ Active(tabs', activeTabId') /\ CallsInv(tabs', op')
  BY <1>2, <1>4, <1>5, AppendKeeps DEF AddAgentTab
<1>7. Pointers'
  BY <1>2, <1>5 DEF Pointers, TabsInv
<1>8. Rest'
  BY DEF AddAgentTab, Rest, TabsInv
<1>9. IsSaved(saved')
  BY <1>6, PersistKeeps DEF AddAgentTab
<1> QED BY <1>6, <1>7, <1>8, <1>9 DEF TabsInv

LEMMA OpenTerminalKeeps ==
    ASSUME TabsInv, NEW c \in Call, OpenTerminal(c)
    PROVE  TabsInv'
<1>1. PICK l \in FreshLeaf :
        /\ pty' = pty \cup {l}
        /\ op' = [op EXCEPT ![c].got =
                    <<NewTab(None, SingleLeaf(NewLeaf(l, "shell")))>>]
  BY DEF OpenTerminal
<1> DEFINE leaf == NewLeaf(l, "shell")
           L == SingleLeaf(leaf)
           got == <<NewTab(None, L)>>
           x == [op[c] EXCEPT !.got = got]
<1>2. l \in Leaf /\ l \in Ids /\ Free(tabs, op, l)
  BY FreshLeafParts
<1>3. leaf \in LeafType /\ leaf.id = l
  BY <1>2, NewLeafIs
<1>4. L \in Layouts /\ CollectLeafIds(L) = {l}
  <2> HIDE DEF leaf
  <2> QED BY <1>2, <1>3, SingleIsGood
<1>5. got \in Seq(Tabs) /\ LeafIdsOf(got) = {l}
  <2> HIDE DEF L
  <2> QED BY <1>4, NamelessTabIs, OneTab
<1>6. op[c] \in Calls /\ op[c] \in GoodCalls /\ op \in [Call -> GoodCalls]
  BY CallIs
<1>7. op[c].call \in OpensOne /\ op[c].pane = "shell" /\ CallOK(op[c])
  BY <1>6 DEF OpenTerminal, GoodCalls
<1>8. op' = [op EXCEPT ![c] = x]
  BY <1>1, <1>6
<1>9. CallOK(x)
  <2>0. leaf.kind = "shell"
    BY DEF NewLeaf
  <2>1. \E k \in LeafType : /\ k.kind = "shell" /\ k.id \in Leaf
                            /\ got = <<NewTab(None, SingleLeaf(k))>>
    BY <1>2, <1>3, <2>0
  <2> HIDE DEF got
  <2>2. /\ x.call \in OpensOne /\ x.got = got /\ x.pane = "shell"
        /\ x.call = "replaceEmptyLeaf" => x.leaf \in Leaf \cup Pending
    BY <1>6, <1>7 DEF Calls, CallOK
  <2> HIDE DEF x
  <2> QED BY <2>1, <2>2 DEF CallOK, OpensOne
<1>10. /\ x \in GoodCalls /\ \A k \in Leaf : /\ \A t : ~CallHas(x, k, t)
                                             /\ Carries(x, k) => k = l
  <2> HIDE DEF got
  <2>1. x \in Calls /\ x.call \in OpensOne /\ x.got = got
    BY <1>5, <1>6, <1>7 DEF Calls
  <2> HIDE DEF x
  <2> QED BY <1>5, <1>9, <2>1 DEF GoodCalls, CallHas, Carries, OpensOne
<1> HIDE DEF x
<1>11. /\ op' \in [Call -> GoodCalls] /\ op'[c] = x
       /\ \A d \in Call : d # c => op'[d] = op[d]
  BY <1>6, <1>8, <1>10, CallGoesOn
<1>12. OneOwner(tabs, op')
  <2>1. OneOwner(tabs, op)
    BY DEF TabsInv, CallsInv
  <2> QED BY <1>2, <1>10, <1>11, <2>1, OwnersToCall
<1>13. CallsInv(tabs', op')
  BY <1>11, <1>12 DEF CallsInv, OpenTerminal, ui
<1>14. Rest'
  BY <1>1, <1>2 DEF OpenTerminal, Rest, TabsInv
<1>15. /\ GoodStrip(tabs') /\ Active(tabs', activeTabId') /\ Pointers'
       /\ IsSaved(saved')
  BY DEF OpenTerminal, TabsInv, Pointers, ui
<1> QED BY <1>13, <1>14, <1>15 DEF TabsInv

LEMMA OpenTerminalFailsKeeps ==
    ASSUME TabsInv, NEW c \in Call, OpenTerminalFails(c)
    PROVE  TabsInv'
<1>1. op' = [op EXCEPT ![c] = Idle] /\ UNCHANGED ui /\ IsSaved(saved')
  BY DEF OpenTerminalFails, Done, TabsInv
<1>2. Rest'
  BY DEF OpenTerminalFails, Rest, TabsInv
<1> QED BY <1>1, <1>2, IdleIs, QuietStepKeeps

LEMMA AddShellTabKeeps ==
    ASSUME TabsInv, NEW c \in Call, AddShellTab(c)
    PROVE  TabsInv'
<1>1. PICK t \in FreshTab :
        Appended(NewTab(t, SingleLeaf(Opened(c))), Opened(c).id)
  BY DEF AddShellTab
<1> DEFINE leaf == Opened(c)
           L == SingleLeaf(leaf)
<1>2. leaf \in LeafType /\ leaf.id \in Leaf /\ Carries(op[c], leaf.id)
  BY OpenedIs DEF AddShellTab, OpensOne
<1> HIDE DEF leaf
<1>3. L \in GoodLayouts /\ CollectLeafIds(L) = {leaf.id} /\ t \in Tab
  BY <1>2, SingleIsGood, FreshTabParts
<1>4. /\ tabs' = Append(tabs, NewTab(t, L)) /\ activeTabId' = t
      /\ focusedLeafId' = leaf.id /\ maximizedLeafId' = maximizedLeafId
  BY <1>1 DEF Appended, NewTab, leaf
<1> HIDE DEF L
<1>5. GoodStrip(tabs') /\ Active(tabs', activeTabId') /\ CallsInv(tabs', op')
  BY <1>2, <1>3, <1>4, AppendKeeps DEF AddShellTab
<1>6. Pointers'
  BY <1>2, <1>4 DEF Pointers, TabsInv, Ids
<1>7. Rest'
  BY DEF AddShellTab, Rest, TabsInv
<1>8. IsSaved(saved')
  BY <1>5, PersistKeeps DEF AddShellTab
<1> QED BY <1>5, <1>6, <1>7, <1>8 DEF TabsInv

-----------------------------------------------------------------------------
(* closeTab, closeTabNoReSeed and the window's end                         *)

LEMMA ClosingIs ==
    ASSUME TabsInv, NEW id \in TabIdsOf(tabs),
           NEW call \in {"closeTab", "closeTabNoReSeed"}
    PROVE  Closing(id, call) \in GoodCalls /\ Quiet(Closing(id, call))
<1> DEFINE x == Closing(id, call)
<1>1. TabOf(tabs, id).layout \in Layouts /\ id \in Tab
  BY TabOfParts, GoodTabParts, StripParts DEF TabsInv, GoodStrip
<1>2. x \in Calls /\ x.call = call /\ x.got = <<>>
  BY <1>1, IdleIs DEF Closing, Calls, CallNames
<1> HIDE DEF x
<1>3. x \in GoodCalls /\ Quiet(x)
  BY <1>2, EmptyHanded
<1> QED BY <1>3 DEF x

LEMMA CloseTabStartKeeps ==
    ASSUME TabsInv, NEW c \in Call, NEW id \in Tab, CloseTabStart(c, id)
    PROVE  TabsInv'
<1>1. PICK call \in {"closeTab", "closeTabNoReSeed"} :
        op' = [op EXCEPT ![c] = Closing(id, call)]
  BY DEF CloseTabStart
<1>2. Closing(id, call) \in GoodCalls /\ Quiet(Closing(id, call))
  BY ClosingIs DEF CloseTabStart
<1>3. UNCHANGED ui /\ IsSaved(saved')
  BY DEF CloseTabStart, TabsInv
<1>4. Rest'
  BY InputKeeps DEF CloseTabStart, TabsInv, Rest
<1> QED BY <1>1, <1>2, <1>3, <1>4, QuietStepKeeps

\* A tab goes and the call goes on as one that has nothing in hand.
LEMMA GoneKeeps ==
    ASSUME TabsInv, NEW id, NEW ids, Without(id, ids), NEW c \in Call,
           NEW x \in GoodCalls, Quiet(x), op' = [op EXCEPT ![c] = x]
    PROVE  /\ GoodStrip(tabs') /\ Active(tabs', activeTabId') /\ Pointers'
           /\ CallsInv(tabs', op')
<1>1. /\ GoodStrip(tabs') /\ Active(tabs', activeTabId') /\ Pointers'
      /\ \A l, t : TabHas(tabs', l, t) => TabHas(tabs, l, t)
  BY WithoutKeeps
<1>2. CallsInv(tabs', op)
  BY <1>1, StripGoesOn DEF TabsInv
<1>3. CallsInv(tabs', [op EXCEPT ![c] = x])
  BY <1>2, QuietGoesOn
<1> QED BY <1>1, <1>3

LEMMA CloseTabKeeps ==
    ASSUME TabsInv, NEW c \in Call, CloseTab(c)
    PROVE  TabsInv'
<1> DEFINE seed == [Idle EXCEPT !.call = "addTab"]
<1>1. seed \in Calls /\ seed.got = <<>> /\ seed.call = "addTab"
  BY IdleIs DEF Calls, CallNames
<1>2. op' = [op EXCEPT ![c] = IF tabs' = <<>> THEN seed ELSE Idle]
  BY DEF CloseTab
<1> HIDE DEF seed
<1>3. seed \in GoodCalls /\ Quiet(seed)
  BY <1>1, EmptyHanded
<1>4. PICK x \in GoodCalls : Quiet(x) /\ op' = [op EXCEPT ![c] = x]
  BY <1>2, <1>3, IdleIs
<1>5. Without(op[c].tab, Unmaximized(c)) /\ Kill(ShellIds(op[c].seen)) /\ Persist
  BY DEF CloseTab
<1>6. /\ GoodStrip(tabs') /\ Active(tabs', activeTabId') /\ Pointers'
      /\ CallsInv(tabs', op')
  BY <1>4, <1>5, GoneKeeps
<1>7. Rest'
  BY <1>5, KillKeeps DEF CloseTab, Rest, TabsInv
<1>8. IsSaved(saved')
  BY <1>5, <1>6, PersistKeeps
<1> QED BY <1>6, <1>7, <1>8 DEF TabsInv

LEMMA CloseTabNoReSeedKeeps ==
    ASSUME TabsInv, NEW c \in Call, CloseTabNoReSeed(c)
    PROVE  TabsInv'
<1>1. Without(op[c].tab, Unmaximized(c)) /\ Kill(ShellIds(op[c].seen)) /\ Persist
  BY DEF CloseTabNoReSeed
<1>2. /\ GoodStrip(tabs') /\ Active(tabs', activeTabId') /\ Pointers'
      /\ CallsInv(tabs', op')
  <2>1. CASE tabs' = <<>>
    <3>1. op' = [d \in Call |-> Idle]
      BY <2>1 DEF CloseTabNoReSeed, WindowGone
    <3>2. /\ GoodStrip(tabs') /\ Active(tabs', activeTabId') /\ Pointers'
          /\ \A l, t : TabHas(tabs', l, t) => TabHas(tabs, l, t)
      BY <1>1, WithoutKeeps
    <3>3. CallsInv(tabs', op')
      BY <3>1, <3>2, AllIdle, HeldIs DEF TabsInv
    <3> QED BY <3>2, <3>3
  <2>2. CASE tabs' # <<>>
    <3>1. op' = [op EXCEPT ![c] = Idle]
      BY <2>2 DEF CloseTabNoReSeed, Done
    <3> QED BY <1>1, <3>1, IdleIs, GoneKeeps
  <2> QED BY <2>1, <2>2
<1>3. Rest'
  BY <1>1, KillKeeps DEF CloseTabNoReSeed, WindowGone, Rest, TabsInv
<1>4. IsSaved(saved')
  BY <1>1, <1>2, PersistKeeps
<1> QED BY <1>2, <1>3, <1>4 DEF TabsInv

LEMMA CloseWindowKeeps ==
    ASSUME TabsInv, CloseWindow
    PROVE  TabsInv'
<1>1. /\ UNCHANGED ui /\ op' = [d \in Call |-> Idle]
      /\ Kill(UNION {ShellIds(tabs[i].layout) : i \in DOMAIN tabs})
  BY DEF CloseWindow, WindowGone
<1>2. CallsInv(tabs, [d \in Call |-> Idle])
  BY AllIdle, HeldIs DEF TabsInv
<1>3. CallsInv(tabs', op')
  BY <1>1, <1>2 DEF ui
<1>4. Rest'
  BY <1>1, KillKeeps, InputKeeps DEF CloseWindow, WindowGone, Rest, TabsInv
<1>5. /\ GoodStrip(tabs') /\ Active(tabs', activeTabId') /\ Pointers'
      /\ IsSaved(saved')
  BY <1>1 DEF CloseWindow, TabsInv, Pointers, ui
<1> QED BY <1>3, <1>4, <1>5 DEF TabsInv

-----------------------------------------------------------------------------
(* splitPane and closePane                                                 *)

LEMMA ShownTab ==
    ASSUME TabsInv, tabs # <<>>
    PROVE  /\ activeTabId \in TabIdsOf(tabs) /\ activeTabId \in Tab
           /\ TabOf(tabs, activeTabId).layout \in GoodLayouts
           /\ TabOf(tabs, activeTabId).layout \in Layouts
           /\ CollectLeafIds(TabOf(tabs, activeTabId).layout) \subseteq Ids
           /\ \A l \in CollectLeafIds(TabOf(tabs, activeTabId).layout) :
                TabHas(tabs, l, activeTabId)
<1>1. GoodStrip(tabs) /\ activeTabId \in TabIdsOf(tabs)
  BY DEF TabsInv, Active
<1>2. activeTabId \in Tab
  BY <1>1, StripParts DEF GoodStrip
<1>3. /\ TabOf(tabs, activeTabId) \in GoodTabs
      /\ \A l \in CollectLeafIds(TabOf(tabs, activeTabId).layout) :
           TabHas(tabs, l, activeTabId)
  BY <1>1, TabOfParts
<1> QED BY <1>1, <1>2, <1>3, GoodTabParts, LayoutParts

LEMMA SplitPaneStartKeeps ==
    ASSUME TabsInv, NEW c \in Call, NEW id \in Leaf \cup Pending,
           NEW kind \in {"agent", "shell"}, SplitPaneStart(c, id, kind)
    PROVE  TabsInv'
<1> DEFINE x == [Idle EXCEPT !.call = "splitPane", !.tab = activeTabId,
                             !.leaf = id, !.pane = kind]
<1>1. activeTabId \in Tab
  BY ShownTab DEF SplitPaneStart
<1>2. x \in Calls /\ x.got = <<>> /\ x.call = "splitPane"
  BY <1>1, IdleIs DEF Calls, CallNames, Ids
<1>3. op' = [op EXCEPT ![c] = x]
  BY DEF SplitPaneStart
<1> HIDE DEF x
<1>4. x \in GoodCalls /\ Quiet(x)
  BY <1>2, EmptyHanded
<1>5. UNCHANGED ui /\ IsSaved(saved')
  BY DEF SplitPaneStart, TabsInv
<1>6. Rest'
  BY InputKeeps DEF SplitPaneStart, TabsInv, Rest
<1> QED BY <1>3, <1>4, <1>5, <1>6, QuietStepKeeps

\* The new leaf is nobody's, or the call's own.
LEMMA NotShown ==
    ASSUME TabsInv, NEW c \in Call, NEW l \in Leaf, NEW id \in TabIdsOf(tabs),
           Free(tabs, op, l) \/ Carries(op[c], l)
    PROVE  l \notin CollectLeafIds(TabOf(tabs, id).layout)
<1>1. \A t : ~Held(tabs, op, l, t)
  BY DEF TabsInv, CallsInv, OneOwner, Free
<1>2. GoodStrip(tabs)
  BY DEF TabsInv
<1> QED BY <1>1, <1>2, TabOfParts, HeldIs

\* The leaf goes into the layout of a tab, where M is that layout with the leaf.
LEMMA LeafIntoTab ==
    ASSUME TabsInv, NEW c \in Call, NEW l \in Leaf, NEW id, NEW M,
           id \in TabIdsOf(tabs) =>
             /\ M \in GoodLayouts
             /\ CollectLeafIds(M)
                  \subseteq CollectLeafIds(TabOf(tabs, id).layout) \cup {l},
           Free(tabs, op, l) \/ Carries(op[c], l),
           tabs' = WithLayout(tabs, id, M), activeTabId' = activeTabId, Done(c)
    PROVE  /\ GoodStrip(tabs') /\ Active(tabs', activeTabId')
           /\ CallsInv(tabs', op')
<1>1. /\ op' \in [Call -> GoodCalls] /\ op'[c] = Idle
      /\ \A d \in Call : d # c => op'[d] = op[d]
  BY CallIs, CallGoesOn, IdleIs DEF Done
<1>2. Quiet(op'[c]) /\ \A d \in Call : op'[d] = op[d] \/ Quiet(op'[d])
  BY <1>1, IdleIs
<1>3. ASSUME id \in TabIdsOf(tabs)
      PROVE  Given(tabs, op, op', c, id, CollectLeafIds(M))
  <2>1. \A k \in CollectLeafIds(TabOf(tabs, id).layout) : Held(tabs, op, k, id)
    BY <1>3, TabOfParts, HeldIs DEF TabsInv
  <2> QED BY <1>2, <1>3, <2>1 DEF Given
<1> QED BY <1>1, <1>2, <1>3, WithKeeps

LEMMA SplitWithKeeps ==
    ASSUME TabsInv, NEW c \in Call, NEW leaf \in LeafType, leaf.id \in Leaf,
           Free(tabs, op, leaf.id) \/ Carries(op[c], leaf.id),
           SplitWith(c, leaf), UNCHANGED inputs
    PROVE  TabsInv'
<1> DEFINE L == TabOf(tabs, op[c].tab).layout
           M == SplitLeaf(L, op[c].leaf, leaf)
<1>1. ASSUME op[c].tab \in TabIdsOf(tabs)
      PROVE  /\ M \in GoodLayouts
             /\ CollectLeafIds(M) \subseteq CollectLeafIds(L) \cup {leaf.id}
  <2>1. L \in GoodLayouts /\ leaf.id \notin CollectLeafIds(L)
    BY <1>1, TabOfParts, NotShown DEF TabsInv
  <2> QED BY <2>1, SplitIsGood
<1>2. /\ tabs' = WithLayout(tabs, op[c].tab, M) /\ activeTabId' = activeTabId
      /\ Done(c)
  BY DEF SplitWith
<1> HIDE DEF M
<1>3. GoodStrip(tabs') /\ Active(tabs', activeTabId') /\ CallsInv(tabs', op')
  BY <1>1, <1>2, LeafIntoTab
<1>4. Pointers'
  BY DEF SplitWith, Pointers, TabsInv, Ids
<1>5. Rest'
  BY DEF SplitWith, Rest, TabsInv
<1>6. IsSaved(saved')
  BY <1>3, PersistKeeps DEF SplitWith
<1> QED BY <1>3, <1>4, <1>5, <1>6 DEF TabsInv

LEMMA SplitPaneKeeps ==
    ASSUME TabsInv, NEW c \in Call, SplitPane(c)
    PROVE  TabsInv'
<1>1. CASE op[c].pane = "agent"
  <2>1. PICK l \in FreshLeaf : SplitWith(c, NewLeaf(l, "agent"))
    BY <1>1 DEF SplitPane
  <2>2. l \in Leaf /\ l \in Ids /\ Free(tabs, op, l)
    BY FreshLeafParts
  <2>3. NewLeaf(l, "agent") \in LeafType /\ NewLeaf(l, "agent").id = l
    BY <2>2, NewLeafIs
  <2> QED BY <2>1, <2>2, <2>3, SplitWithKeeps DEF SplitPane
<1>2. CASE op[c].pane # "agent"
  <2>1. op[c].got # <<>> /\ SplitWith(c, Opened(c))
    BY <1>2 DEF SplitPane
  <2>2. /\ Opened(c) \in LeafType /\ Opened(c).id \in Leaf
        /\ Carries(op[c], Opened(c).id)
    BY <2>1, OpenedIs DEF SplitPane, OpensOne
  <2> QED BY <2>1, <2>2, SplitWithKeeps DEF SplitPane
<1> QED BY <1>1, <1>2

\* A pane is closed in a tab: the layout written is the one given, which has
\* only panes that are the tab's.
LEMMA WriteClosedKeeps ==
    ASSUME TabsInv, NEW id, NEW t, NEW L \in GoodLayouts,
           \A l \in CollectLeafIds(L) \cap Leaf : Held(tabs, op, l, t),
           WriteClosed(id, t, L), op' \in [Call -> GoodCalls],
           \A d \in Call : op'[d] = op[d] \/ Quiet(op'[d])
    PROVE  /\ GoodStrip(tabs') /\ Active(tabs', activeTabId') /\ Pointers'
           /\ CallsInv(tabs', op')
<1> DEFINE M == CloseLeaf(L, id)
<1>1. /\ M \in GoodLayouts /\ CollectLeafIds(M) \subseteq CollectLeafIds(L)
      /\ FirstLeafId(M) \in Ids
  BY ClosedIsGood
<1>2. /\ tabs' = WithLayout(tabs, t, M) /\ activeTabId' = activeTabId
      /\ focusedLeafId' = IF focusedLeafId = id THEN FirstLeafId(M) ELSE focusedLeafId
      /\ maximizedLeafId' = IF maximizedLeafId = id THEN None ELSE maximizedLeafId
  BY DEF WriteClosed
<1> HIDE DEF M
<1>3. Pointers'
  BY <1>1, <1>2 DEF Pointers, TabsInv, Ids
<1>4. \A c \in Call : Given(tabs, op, op', c, t, CollectLeafIds(M))
  BY <1>1 DEF Given
<1>5. CASE Call = {}
  <2>1. GoodStrip(tabs) /\ Active(tabs, activeTabId)
    BY DEF TabsInv
  <2>2. /\ GoodStrip(tabs') /\ TabIdsOf(tabs') = TabIdsOf(tabs)
        /\ tabs' = <<>> <=> tabs = <<>>
        /\ \A l, u : TabHas(tabs', l, u) =>
             \/ TabHas(tabs, l, u)
             \/ u = t /\ t \in TabIdsOf(tabs) /\ l \in CollectLeafIds(M)
    BY <1>1, <1>2, <2>1, GoodWith
  <2>3. Active(tabs', activeTabId')
    BY <1>2, <2>1, <2>2 DEF Active
  <2>4. \A l \in Leaf : \A u : TabHas(tabs', l, u) => Held(tabs, op, l, u)
    BY <1>1, <2>2 DEF Held
  <2>5. OneOwner(tabs', op')
    BY <1>5, <2>4, OwnersKept DEF TabsInv, CallsInv
  <2> QED BY <1>3, <2>2, <2>3, <2>5 DEF CallsInv
<1>6. CASE Call # {}
  <2>1. PICK c \in Call : TRUE
    BY <1>6
  <2> QED BY <1>1, <1>2, <1>3, <1>4, WithKeeps
<1> QED BY <1>5, <1>6

LEMMA ClosePaneStartKeeps ==
    ASSUME TabsInv, NEW c \in Call, NEW id \in Leaf \cup Pending,
           ClosePaneStart(c, id)
    PROVE  TabsInv'
<1> DEFINE seen == TabOf(tabs, activeTabId).layout
<1>1. /\ activeTabId \in TabIdsOf(tabs) /\ activeTabId \in Tab
      /\ seen \in GoodLayouts /\ seen \in Layouts
      /\ \A l \in CollectLeafIds(seen) : Held(tabs, op, l, activeTabId)
  BY ShownTab, HeldIs DEF ClosePaneStart
<1>2. Rest' /\ hydrated' = hydrated
  BY InputKeeps DEF ClosePaneStart, TabsInv, Rest
<1>3. CASE HasLeaf(seen, id) /\ FindLeaf(seen, id).kind = "agent"
           /\ IsLastLeaf(seen, id)
  <2>1. /\ op' = [op EXCEPT ![c] = Closing(activeTabId, "closeTab")]
        /\ UNCHANGED <<ui, saved>>
    BY <1>3 DEF ClosePaneStart
  <2>2. IsSaved(saved') /\ UNCHANGED ui
    BY <2>1 DEF TabsInv
  <2> QED BY <1>1, <1>2, <2>1, <2>2, ClosingIs, QuietStepKeeps
<1>4. CASE HasLeaf(seen, id) /\ FindLeaf(seen, id).kind = "agent"
           /\ ~IsLastLeaf(seen, id)
  <2>1. WriteClosed(id, activeTabId, seen) /\ op' = op /\ Persist
    BY <1>4 DEF ClosePaneStart
  <2>2. op' \in [Call -> GoodCalls]
    BY <2>1, CallIs
  <2> HIDE DEF seen
  <2>3. /\ GoodStrip(tabs') /\ Active(tabs', activeTabId') /\ Pointers'
        /\ CallsInv(tabs', op')
    BY <1>1, <2>1, <2>2, WriteClosedKeeps
  <2>4. IsSaved(saved')
    BY <2>1, <2>3, PersistKeeps
  <2> QED BY <1>2, <2>3, <2>4 DEF TabsInv
<1>5. CASE ~(HasLeaf(seen, id) /\ FindLeaf(seen, id).kind = "agent")
  <2> DEFINE x == [Idle EXCEPT !.call = "closePane", !.tab = activeTabId,
                               !.leaf = id, !.seen = seen]
  <2>1. op' = [op EXCEPT ![c] = x] /\ UNCHANGED <<ui, saved>>
    BY <1>5 DEF ClosePaneStart
  <2> HIDE DEF seen
  <2>2. /\ x \in Calls /\ x.got = <<>> /\ x.call = "closePane"
        /\ x.tab = activeTabId /\ x.seen = seen
    BY <1>1, IdleIs DEF Calls, CallNames, Ids
  <2> HIDE DEF x
  <2>3. x \in GoodCalls
    BY <1>1, <2>2 DEF GoodCalls, CallOK, OpensOne
  <2>4. \A l \in Leaf : /\ ~Carries(x, l)
                        /\ \A t : CallHas(x, l, t) => Held(tabs, op, l, t)
    BY <1>1, <2>2 DEF Carries, CallHas, OpensOne
  <2>5. IsSaved(saved') /\ UNCHANGED ui
    BY <2>1 DEF TabsInv
  <2> QED BY <1>2, <2>1, <2>3, <2>4, <2>5, CallStepKeeps
<1> QED BY <1>3, <1>4, <1>5

LEMMA ClosePaneKeeps ==
    ASSUME TabsInv, NEW c \in Call, ClosePane(c)
    PROVE  TabsInv'
<1> DEFINE x == op[c]
<1>1. /\ x.call = "closePane" /\ x.seen \in GoodLayouts
      /\ op \in [Call -> GoodCalls]
  BY CallIs DEF ClosePane, CallOK
<1>2. Kill({x.leaf}) /\ hydrated' = hydrated /\ UNCHANGED <<hydrating, win, inputs>>
  BY DEF ClosePane, Persist
<1>3. Rest'
  BY <1>2, KillKeeps DEF Rest, TabsInv
<1>4. CASE IsLastLeaf(x.seen, x.leaf)
  <2>1. /\ op' = [op EXCEPT ![c] = IF x.tab \in TabIdsOf(tabs)
                                   THEN Closing(x.tab, "closeTab") ELSE Idle]
        /\ UNCHANGED <<ui, saved>>
    BY <1>4 DEF ClosePane
  <2>2. PICK y \in GoodCalls : Quiet(y) /\ op' = [op EXCEPT ![c] = y]
    BY <2>1, ClosingIs, IdleIs
  <2>3. IsSaved(saved') /\ UNCHANGED ui
    BY <2>1 DEF TabsInv
  <2> QED BY <1>3, <2>2, <2>3, QuietStepKeeps
<1>5. CASE ~IsLastLeaf(x.seen, x.leaf)
  <2>1. /\ WriteClosed(x.leaf, x.tab, x.seen) /\ Persist
        /\ op' = [op EXCEPT ![c] = Idle]
    BY <1>5 DEF ClosePane, Done
  <2>2. /\ op' \in [Call -> GoodCalls] /\ op'[c] = Idle
        /\ \A d \in Call : d # c => op'[d] = op[d]
    BY <1>1, <2>1, CallGoesOn, IdleIs
  <2>3. \A d \in Call : op'[d] = op[d] \/ Quiet(op'[d])
    BY <2>2, IdleIs
  <2>4. \A l \in CollectLeafIds(x.seen) \cap Leaf : Held(tabs, op, l, x.tab)
    BY <1>1 DEF Held, CallHas
  <2> HIDE DEF x
  <2>5. /\ GoodStrip(tabs') /\ Active(tabs', activeTabId') /\ Pointers'
        /\ CallsInv(tabs', op')
    BY <1>1, <2>1, <2>2, <2>3, <2>4, WriteClosedKeeps
  <2>6. IsSaved(saved')
    BY <2>1, <2>5, PersistKeeps
  <2> QED BY <1>3, <2>5, <2>6 DEF TabsInv
<1> QED BY <1>4, <1>5

\* The tab that shows a pane.
LEMMA OwnerTab ==
    ASSUME TabsInv, NEW id \in LeafIdsOf(tabs)
    PROVE  LET t == CHOOSE t \in TabIdsOf(tabs) : HasLeaf(TabOf(tabs, t).layout, id)
           IN  t \in TabIdsOf(tabs) /\ HasLeaf(TabOf(tabs, t).layout, id)
<1>1. PICK i \in DOMAIN tabs : id \in CollectLeafIds(tabs[i].layout)
  BY LeafIdsAre
<1>2. tabs[i].id \in TabIdsOf(tabs)
  BY DEF TabIdsOf
<1>3. PICK j \in DOMAIN tabs :
        tabs[j].id = tabs[i].id /\ TabOf(tabs, tabs[i].id) = tabs[j]
  BY <1>2, TabOfIsThere
<1>4. TabOf(tabs, tabs[i].id) = tabs[i]
  BY <1>3 DEF TabsInv, GoodStrip
<1> QED BY <1>1, <1>2, <1>4 DEF HasLeaf

LEMMA StopAgentPaneKeeps ==
    ASSUME TabsInv, NEW id \in Leaf, StopAgentPane(id)
    PROVE  TabsInv'
<1> DEFINE t == CHOOSE t \in TabIdsOf(tabs) : HasLeaf(TabOf(tabs, t).layout, id)
           owner == TabOf(tabs, t)
<1>1. t \in TabIdsOf(tabs)
  BY OwnerTab DEF StopAgentPane
<1>2. /\ owner \in GoodTabs /\ owner.id = t /\ owner.layout \in GoodLayouts
      /\ \A l \in CollectLeafIds(owner.layout) : TabHas(tabs, l, t)
  <2>1. GoodStrip(tabs)
    BY DEF TabsInv
  <2> HIDE DEF t
  <2> QED BY <1>1, <2>1, TabOfParts
<1>3. /\ IF IsLastLeaf(owner.layout, id) THEN Without(owner.id, {id})
         ELSE WriteClosed(id, owner.id, owner.layout)
      /\ \/ UNCHANGED <<win, op, hydrating>>
         \/ WindowGone
      /\ \E ids : Kill(ids)
      /\ hydrated' = hydrated /\ Persist /\ Input
  BY DEF StopAgentPane
<1> HIDE DEF owner, t
<1>4. /\ op' \in [Call -> GoodCalls]
      /\ \A d \in Call : op'[d] = op[d] \/ Quiet(op'[d])
  <2>1. CASE op' = op
    BY <2>1 DEF TabsInv, CallsInv
  <2>2. CASE WindowGone
    BY <2>2, IdleIs DEF WindowGone
  <2> QED BY <1>3, <2>1, <2>2
<1>5. /\ GoodStrip(tabs') /\ Active(tabs', activeTabId') /\ Pointers'
      /\ CallsInv(tabs', op')
  <2>1. CASE IsLastLeaf(owner.layout, id)
    <3>1. Without(owner.id, {id})
      BY <1>3, <2>1
    <3>2. /\ GoodStrip(tabs') /\ Active(tabs', activeTabId') /\ Pointers'
          /\ \A l, u : TabHas(tabs', l, u) => TabHas(tabs, l, u)
      BY <3>1, WithoutKeeps
    <3>3. \A l \in Leaf : \A u : TabHas(tabs', l, u) => Held(tabs, op, l, u)
      BY <3>2, HeldIs
    <3>4. OneOwner(tabs, op)
      BY DEF TabsInv, CallsInv
    <3>5. \A d \in Call :
            \/ op'[d] = op[d]
            \/ \A l \in Leaf :
                 /\ ~Carries(op'[d], l)
                 /\ \A u : CallHas(op'[d], l, u) => Held(tabs, op, l, u)
      BY <1>4 DEF Quiet
    <3>6. OneOwner(tabs', op')
      BY <3>3, <3>4, <3>5, OwnersKept
    <3> QED BY <1>4, <3>2, <3>6 DEF CallsInv
  <2>2. CASE ~IsLastLeaf(owner.layout, id)
    <3>1. WriteClosed(id, t, owner.layout)
      BY <1>2, <1>3, <2>2
    <3>2. \A l \in CollectLeafIds(owner.layout) \cap Leaf : Held(tabs, op, l, t)
      BY <1>2, HeldIs
    <3> QED BY <1>2, <1>4, <3>1, <3>2, WriteClosedKeeps
  <2> QED BY <2>1, <2>2
<1>6. Rest'
  BY <1>3, KillKeeps, InputKeeps DEF WindowGone, Rest, TabsInv
<1>7. IsSaved(saved')
  BY <1>3, <1>5, PersistKeeps
<1> QED BY <1>5, <1>6, <1>7 DEF TabsInv

-----------------------------------------------------------------------------
(* Focus and maximize                                                      *)

\* Nothing of the strip or of the calls changes.
LEMMA PointerStepKeeps ==
    ASSUME TabsInv, tabs' = tabs, op' = op, Active(tabs, activeTabId'), Pointers',
           Rest', Persist \/ saved' = saved
    PROVE  TabsInv'
<1>1. GoodStrip(tabs') /\ Active(tabs', activeTabId') /\ CallsInv(tabs', op')
  BY DEF TabsInv
<1>2. IsSaved(saved')
  BY <1>1, PersistKeeps DEF TabsInv
<1> QED BY <1>1, <1>2 DEF TabsInv

LEMMA SomeTabShown ==
    ASSUME TabsInv, NEW id \in TabIdsOf(tabs)
    PROVE  Active(tabs, id)
BY NoStrip DEF Active

LEMMA SetActiveTabKeeps ==
    ASSUME TabsInv, NEW id \in Tab, SetActiveTab(id)
    PROVE  TabsInv'
<1>1. id \in TabIdsOf(tabs) /\ activeTabId' = id /\ tabs' = tabs /\ op' = op
  BY DEF SetActiveTab
<1>2. Pointers'
  BY <1>1, FirstIsId DEF SetActiveTab, Pointers, TabsInv, Ids
<1>3. Rest'
  BY InputKeeps DEF SetActiveTab, Rest, TabsInv
<1>4. Persist \/ saved' = saved
  BY DEF SetActiveTab
<1> QED BY <1>1, <1>2, <1>3, <1>4, SomeTabShown, PointerStepKeeps

LEMMA FocusPaneKeeps ==
    ASSUME TabsInv, NEW id \in Leaf, FocusPane(id)
    PROVE  TabsInv'
<1>1. activeTabId' \in TabIdsOf(tabs) /\ tabs' = tabs /\ op' = op
  BY OwnerTab DEF FocusPane
<1>2. Pointers'
  BY DEF FocusPane, Pointers, Ids
<1>3. Rest'
  BY InputKeeps DEF FocusPane, Rest, TabsInv
<1>4. Persist \/ saved' = saved
  BY DEF FocusPane
<1> QED BY <1>1, <1>2, <1>3, <1>4, SomeTabShown, PointerStepKeeps

LEMMA SetFocusedLeafKeeps ==
    ASSUME TabsInv, NEW id \in Leaf \cup Pending, SetFocusedLeaf(id)
    PROVE  TabsInv'
<1>1. /\ tabs' = tabs /\ op' = op /\ activeTabId' = activeTabId
      /\ saved' = saved /\ Active(tabs, activeTabId')
  BY DEF SetFocusedLeaf, TabsInv
<1>2. Pointers'
  BY DEF SetFocusedLeaf, Pointers, TabsInv, Ids
<1>3. Rest'
  BY InputKeeps DEF SetFocusedLeaf, Rest, TabsInv
<1> QED BY <1>1, <1>2, <1>3, PointerStepKeeps

LEMMA ToggleMaximizeKeeps ==
    ASSUME TabsInv, NEW id \in Leaf \cup Pending, ToggleMaximize(id)
    PROVE  TabsInv'
<1>1. /\ tabs' = tabs /\ op' = op /\ activeTabId' = activeTabId
      /\ saved' = saved /\ Active(tabs, activeTabId')
  BY DEF ToggleMaximize, TabsInv
<1>2. Pointers'
  BY DEF ToggleMaximize, Pointers, TabsInv, Ids
<1>3. Rest'
  BY InputKeeps DEF ToggleMaximize, Rest, TabsInv
<1> QED BY <1>1, <1>2, <1>3, PointerStepKeeps

LEMMA RestoreMaximizeKeeps ==
    ASSUME TabsInv, RestoreMaximize
    PROVE  TabsInv'
<1>1. /\ tabs' = tabs /\ op' = op /\ activeTabId' = activeTabId
      /\ saved' = saved /\ Active(tabs, activeTabId')
  BY DEF RestoreMaximize, TabsInv
<1>2. Pointers'
  BY DEF RestoreMaximize, Pointers, TabsInv, Ids
<1>3. Rest'
  BY InputKeeps DEF RestoreMaximize, Rest, TabsInv
<1> QED BY <1>1, <1>2, <1>3, PointerStepKeeps

-----------------------------------------------------------------------------
(* hydrateFromStorage                                                      *)

LEMMA SavedIs ==
    ASSUME TabsInv
    PROVE  /\ saved.tabs \in Seq(Tabs) /\ saved.activeTabId \in Tab \cup {None}
           /\ \A i, j \in DOMAIN saved.tabs :
                /\ saved.tabs[i].id \in Tab
                /\ i # j => saved.tabs[i].id # saved.tabs[j].id
           /\ Named(saved.tabs) /\ LeafIdsOf(saved.tabs) \subseteq {None}
<1>1. IsSaved(saved)
  BY DEF TabsInv
<1>2. \A i \in DOMAIN saved.tabs : CollectLeafIds(saved.tabs[i].layout) = {None}
  BY <1>1 DEF IsSaved, Range
<1> QED BY <1>1, <1>2, StripsAre DEF IsSaved, Named, LeafIdsOf

LEMMA HydrateStartKeeps ==
    ASSUME TabsInv, NEW c \in Call, HydrateStart(c)
    PROVE  TabsInv'
<1> DEFINE x == Reading
<1>1. /\ x \in Calls /\ x.call \in {"seed", "hydrate"} /\ x.got = saved.tabs
      /\ x.call = "seed" => x.got = <<>>
  BY SavedIs, IdleIs DEF Reading, Calls, CallNames
<1>2. op' = [op EXCEPT ![c] = x] /\ UNCHANGED ui /\ IsSaved(saved')
  BY DEF HydrateStart, TabsInv
<1> HIDE DEF x
<1>3. x \in GoodCalls /\ Quiet(x)
  BY <1>1, SavedIs DEF GoodCalls, CallOK, OpensOne, Quiet, Carries, CallHas
<1>4. Rest'
  BY InputKeeps DEF HydrateStart, Rest, TabsInv
<1> QED BY <1>2, <1>3, <1>4, QuietStepKeeps

LEMMA HydrateSeedKeeps ==
    ASSUME TabsInv, NEW c \in Call, HydrateSeed(c)
    PROVE  TabsInv'
<1>1. PICK l \in FreshLeaf, t \in FreshTab :
        Appended(NewTab(t, SingleLeaf(NewLeaf(l, "agent"))), l)
  BY DEF HydrateSeed
<1> DEFINE leaf == NewLeaf(l, "agent")
           L == SingleLeaf(leaf)
<1>2. l \in Leaf /\ l \in Ids /\ Free(tabs, op, l) /\ t \in Tab
  BY FreshLeafParts, FreshTabParts
<1>3. leaf \in LeafType /\ leaf.id = l
  BY <1>2, NewLeafIs
<1> HIDE DEF leaf
<1>4. L \in GoodLayouts /\ CollectLeafIds(L) = {l}
  BY <1>2, <1>3, SingleIsGood
<1>5. /\ tabs' = Append(tabs, NewTab(t, L)) /\ activeTabId' = t
      /\ focusedLeafId' = l /\ maximizedLeafId' = maximizedLeafId
  BY <1>1 DEF Appended, NewTab, leaf
<1> HIDE DEF L
<1>6. GoodStrip(tabs') /\ Active(tabs', activeTabId') /\ CallsInv(tabs', op')
  BY <1>2, <1>4, <1>5, AppendKeeps DEF HydrateSeed
<1>7. Pointers'
  BY <1>2, <1>5 DEF Pointers, TabsInv
<1>8. Rest'
  BY DEF HydrateSeed, Rest, TabsInv
<1>9. IsSaved(saved')
  <2>1. IsSaved(Stored(tabs', activeTabId'))
    BY <1>6, ActiveTab, StoredIsSaved
  <2> QED BY <2>1 DEF HydrateSeed, TabsInv
<1> QED BY <1>6, <1>7, <1>8, <1>9 DEF TabsInv

LEMMA HydrateFinishKeeps ==
    ASSUME TabsInv, NEW c \in Call, HydrateFinish(c)
    PROVE  TabsInv'
<1> DEFINE r == op[c].got
<1>1. /\ op[c].call = "rebuilt" /\ tabs' = r /\ op' = [op EXCEPT ![c] = Idle]
      /\ activeTabId' = IF op[c].tab \in TabIdsOf(r) THEN op[c].tab ELSE r[1].id
      /\ focusedLeafId' = FirstLeafId(TabOf(r, activeTabId').layout)
      /\ maximizedLeafId' = maximizedLeafId
  BY DEF HydrateFinish, Done
<1>2. r # <<>> /\ GoodStrip(r) /\ Apart(r)
  BY <1>1, CallIs DEF CallOK
<1>3. \A l, t : TabHas(r, l, t) => Carries(op[c], l)
  BY <1>1, LeafIdsAre DEF Carries, TabHas
<1>11. tabs' = r
  BY <1>1
<1> HIDE DEF r
<1>4. r[1].id \in TabIdsOf(r)
  BY <1>2, StripParts DEF GoodStrip, TabIdsOf
<1>5. activeTabId' \in TabIdsOf(r)
  BY <1>1, <1>4
<1>6. GoodStrip(tabs') /\ Active(tabs', activeTabId')
  BY <1>1, <1>2, <1>5 DEF Active
<1>7. Pointers'
  BY <1>1, <1>2, <1>5, FirstIsId DEF Pointers, TabsInv
<1>8. CallsInv(tabs', op')
  <2>1. /\ op' \in [Call -> GoodCalls] /\ op'[c] = Idle
        /\ \A d \in Call : d # c => op'[d] = op[d]
    BY <1>1, CallIs, CallGoesOn, IdleIs
  <2>2. OneOwner(tabs, op) /\ Quiet(op'[c])
    BY <2>1, IdleIs DEF TabsInv, CallsInv
  <2>3. \A d \in Call : d # c => op'[d] = op[d]
    BY <2>1
  <2>4. OneOwner(r, op')
    BY <1>2, <1>3, <2>2, <2>3, OwnersOfRebuilt
  <2> QED BY <1>11, <2>1, <2>4 DEF CallsInv
<1>9. Rest'
  BY DEF HydrateFinish, Rest, TabsInv
<1>10. IsSaved(saved')
  BY <1>6, PersistKeeps DEF HydrateFinish
<1> QED BY <1>6, <1>7, <1>8, <1>9, <1>10 DEF TabsInv

\* A layout whose leaves are given ids that are all different.
LEMMA GoodLayoutIs ==
    ASSUME NEW M, IsTree(DOMAIN M), M = [p \in DOMAIN M |-> M[p]],
           \A p \in DOMAIN M : M[p] \in LeafType /\ M[p].id \in Leaf \cup Pending,
           \A p, q \in DOMAIN M : p # q => M[p].id # M[q].id
    PROVE  M \in GoodLayouts
<1>1. M \in Layouts
  BY NewLayout
<1>2. CollectLeafIds(M) \subseteq Leaf \cup Pending /\ Distinct(M)
  BY DEF CollectLeafIds, Distinct
<1> QED BY <1>1, <1>2 DEF GoodLayouts

LEMMA PlacesAre ==
    ASSUME NEW strip, NEW i \in DOMAIN strip, NEW p \in DOMAIN strip[i].layout
    PROVE  <<i, p>> \in PlacesOf(strip)
BY DEF PlacesOf

\* The places of the tabs that are kept, and what is rebuilt of the strip.
KeptPlaces(strip, kept) == {x \in PlacesOf(strip) : x[1] \in kept}
RebuiltStrip(strip, f, h) == [i \in DOMAIN h |-> WithIds(strip, f)[h[i]]]

\* The tabs that are rebuilt, each pane with an id of its own.
LEMMA Rebuilt ==
    ASSUME NEW strip \in Seq(Tabs), Named(strip),
           NEW kept \in SUBSET DOMAIN strip, NEW F \in SUBSET Leaf,
           NEW f \in FreshIds(KeptPlaces(strip, kept), F),
           NEW h \in Ascending(kept)
    PROVE  LET r == RebuiltStrip(strip, f, h)
           IN  /\ GoodStrip(r) /\ (r = <<>> <=> kept = {})
               /\ \A l, t : TabHas(r, l, t) => l \in F
               /\ \A l, t, u : TabHas(r, l, t) /\ TabHas(r, l, u) => t = u
<1> DEFINE r == RebuiltStrip(strip, f, h)
           P == KeptPlaces(strip, kept)
           n == Cardinality(kept)
<1>1. /\ Len(strip) \in Nat /\ DOMAIN strip = 1..Len(strip)
      /\ \A i \in DOMAIN strip : strip[i] \in Tabs
  OBVIOUS
<1>2. n \in Nat /\ (n = 0 <=> kept = {})
  <2>1. IsFiniteSet(1..Len(strip))
    BY <1>1, FS_Interval
  <2>2. IsFiniteSet(kept)
    BY <1>1, <2>1, FS_Subset
  <2> QED BY <2>2, FS_CardinalityType, FS_EmptySet
<1>3. /\ h \in [1..n -> kept]
      /\ \A i, j \in 1..n : i < j => h[i] < h[j]
  BY DEF Ascending
<1>4. \A i, j \in 1..n : h[i] = h[j] => i = j
  <2> SUFFICES ASSUME NEW i \in 1..n, NEW j \in 1..n, h[i] = h[j], i # j
               PROVE  FALSE
    OBVIOUS
  <2>1. h[i] \in Nat /\ h[j] \in Nat
    BY <1>1, <1>3
  <2>2. i < j \/ j < i
    BY <1>2
  <2> QED BY <1>3, <2>1, <2>2
<1>5. f \in [P -> F] /\ \A x, y \in P : f[x] = f[y] => x = y
  BY DEF FreshIds, IsInjective
<1>6. \A i \in kept : \A p \in DOMAIN strip[i].layout : <<i, p>> \in P
  BY PlacesAre DEF KeptPlaces
<1> DEFINE M(i) == [p \in DOMAIN strip[i].layout |->
                      [strip[i].layout[p] EXCEPT !.id = f[<<i, p>>]]]
           Put(l, i) == \E p \in DOMAIN strip[i].layout : l = f[<<i, p>>]
<1>7. ASSUME NEW i \in kept
      PROVE  /\ WithIds(strip, f)[i] = NewTab(strip[i].id, M(i))
             /\ M(i) \in GoodLayouts
             /\ \A l \in CollectLeafIds(M(i)) : Put(l, i)
  <2> DEFINE L == strip[i].layout
             N == M(i)
  <2>1. L \in Layouts
    BY <1>1 DEF Tabs
  <2>2. IsTree(DOMAIN L) /\ \A p \in DOMAIN L : L[p] \in LeafType
    BY <2>1, LayoutParts
  <2>3. WithIds(strip, f)[i] = NewTab(strip[i].id, N)
    <3>1. DOMAIN f = P
      BY <1>5
    <3>2. \A p \in DOMAIN L : <<i, p>> \in DOMAIN f
      BY <1>6, <3>1
    <3>3. N = [p \in DOMAIN L |->
                 IF <<i, p>> \in DOMAIN f
                 THEN [L[p] EXCEPT !.id = f[<<i, p>>]] ELSE L[p]]
      BY <3>2
    <3> HIDE DEF N
    <3> QED BY <3>3 DEF WithIds
  <2>4. /\ DOMAIN N = DOMAIN L /\ N = [p \in DOMAIN N |-> N[p]]
        /\ \A p \in DOMAIN L : N[p] = [L[p] EXCEPT !.id = f[<<i, p>>]]
    OBVIOUS
  <2> HIDE DEF N
  <2>5. \A p \in DOMAIN L : f[<<i, p>>] \in Leaf
    BY <1>5, <1>6
  <2>6. \A p, q \in DOMAIN L : p # q => f[<<i, p>>] # f[<<i, q>>]
    BY <1>5, <1>6
  <2> HIDE DEF L
  <2>7. ASSUME NEW p \in DOMAIN L
        PROVE  N[p] \in LeafType /\ N[p].id = f[<<i, p>>]
    <3>1. L[p] \in LeafType /\ f[<<i, p>>] \in Ids
      BY <2>2, <2>5 DEF Ids
    <3>2. N[p] = [L[p] EXCEPT !.id = f[<<i, p>>]]
      BY <2>4
    <3> QED BY <3>1, <3>2 DEF LeafType
  <2>8. N \in GoodLayouts
    <3>1. IsTree(DOMAIN N) /\ N = [p \in DOMAIN N |-> N[p]]
      BY <2>2, <2>4
    <3>2. \A p \in DOMAIN N : N[p] \in LeafType /\ N[p].id \in Leaf \cup Pending
      BY <2>4, <2>5, <2>7
    <3>3. ASSUME NEW p \in DOMAIN N, NEW q \in DOMAIN N, p # q
          PROVE  N[p].id # N[q].id
      <4>1. p \in DOMAIN L /\ q \in DOMAIN L
        BY <2>4
      <4>2. N[p].id = f[<<i, p>>] /\ N[q].id = f[<<i, q>>]
        BY <2>7, <4>1
      <4> QED BY <2>6, <3>3, <4>1, <4>2
    <3> QED BY <3>1, <3>2, <3>3, GoodLayoutIs
  <2>9. ASSUME NEW l \in CollectLeafIds(N)
        PROVE  \E p \in DOMAIN L : l = f[<<i, p>>]
    <3>1. PICK p \in DOMAIN N : l = N[p].id
      BY DEF CollectLeafIds
    <3> QED BY <2>4, <2>7, <3>1
  <2>10. \A l \in CollectLeafIds(N) : Put(l, i)
    BY <2>9 DEF L
  <2> QED BY <2>3, <2>8, <2>10 DEF N
<1> HIDE DEF M, Put
<1>8. DOMAIN r = 1..n /\ \A i \in 1..n : r[i] = WithIds(strip, f)[h[i]]
  BY <1>3 DEF RebuiltStrip
<1>9. r = [i \in 1..n |-> r[i]]
  BY <1>3 DEF RebuiltStrip
<1> HIDE DEF r
<1>10. ASSUME NEW i \in 1..n
       PROVE  /\ h[i] \in kept /\ r[i] \in GoodTabs /\ r[i].id = strip[h[i]].id
              /\ \A l \in CollectLeafIds(r[i].layout) : Put(l, h[i])
  <2>1. h[i] \in kept /\ strip[h[i]].id \in Tab
    BY <1>3 DEF Named
  <2>2. r[i] = NewTab(strip[h[i]].id, M(h[i])) /\ M(h[i]) \in GoodLayouts
    BY <1>7, <1>8, <2>1
  <2>3. r[i] \in GoodTabs /\ r[i].id = strip[h[i]].id /\ r[i].layout = M(h[i])
    BY <2>1, <2>2, GoodTabIs
  <2> QED BY <1>7, <2>1, <2>3
<1>11. r \in Seq(GoodTabs) /\ Len(r) = n
  <2>1. r \in [1..n -> GoodTabs]
    BY <1>9, <1>10
  <2> QED BY <1>2, <2>1
<1>12. GoodStrip(r)
  <2>1. \A i, j \in 1..n : i # j => r[i].id # r[j].id
    <3> SUFFICES ASSUME NEW i \in 1..n, NEW j \in 1..n, i # j
                 PROVE  r[i].id # r[j].id
      OBVIOUS
    <3>1. h[i] # h[j] /\ h[i] \in DOMAIN strip /\ h[j] \in DOMAIN strip
      BY <1>3, <1>4
    <3> QED BY <1>10, <3>1 DEF Named
  <2> QED BY <1>8, <1>11, <2>1 DEF GoodStrip
<1>13. r = <<>> <=> kept = {}
  <2>1. r = <<>> <=> Len(r) = 0
    BY <1>11, EmptySeq
  <2> QED BY <1>2, <1>11, <2>1
<1>14. ASSUME NEW l, NEW t, TabHas(r, l, t)
       PROVE  \E i \in 1..n : t = strip[h[i]].id /\ Put(l, h[i])
  <2>1. PICK i \in 1..n : r[i].id = t /\ l \in CollectLeafIds(r[i].layout)
    BY <1>8, <1>14 DEF TabHas
  <2> QED BY <1>10, <2>1
<1>15. ASSUME NEW i \in 1..n, NEW l, Put(l, h[i])
       PROVE  \E x \in P : x[1] = h[i] /\ l = f[x]
  <2>1. PICK p \in DOMAIN strip[h[i]].layout : l = f[<<h[i], p>>]
    BY <1>15 DEF Put
  <2>2. <<h[i], p>> \in P /\ <<h[i], p>>[1] = h[i]
    BY <1>6, <1>10
  <2> QED BY <2>1, <2>2
<1>16. \A l, t : TabHas(r, l, t) => l \in F
  BY <1>5, <1>14, <1>15
<1>17. \A l, t, u : TabHas(r, l, t) /\ TabHas(r, l, u) => t = u
  <2> SUFFICES ASSUME NEW l, NEW t, NEW u, TabHas(r, l, t), TabHas(r, l, u)
               PROVE  t = u
    OBVIOUS
  <2>1. PICK i \in 1..n : t = strip[h[i]].id /\ Put(l, h[i])
    BY <1>14
  <2>2. PICK j \in 1..n : u = strip[h[j]].id /\ Put(l, h[j])
    BY <1>14
  <2>3. PICK x \in P : x[1] = h[i] /\ l = f[x]
    BY <1>15, <2>1
  <2>4. PICK y \in P : y[1] = h[j] /\ l = f[y]
    BY <1>15, <2>2
  <2>5. x = y
    BY <1>5, <2>3, <2>4
  <2> QED BY <2>1, <2>2, <2>3, <2>4, <2>5
<1> QED BY <1>12, <1>13, <1>16, <1>17 DEF r

LEMMA HydrateOpenKeeps ==
    ASSUME TabsInv, NEW c \in Call, HydrateOpen(c)
    PROVE  TabsInv'
<1> DEFINE strip == op[c].got
           shells == {x \in PlacesOf(strip) :
                        strip[x[1]].layout[x[2]].kind = "shell"}
<1>1. PICK kept \in SUBSET DOMAIN strip, lost \in SUBSET FreshLeaf :
        \E f \in FreshIds(KeptPlaces(strip, kept), FreshLeaf \ lost),
           h \in Ascending(kept) :
          /\ op' = [op EXCEPT ![c].call = IF kept = {} THEN "seed" ELSE "rebuilt",
                              ![c].got  = RebuiltStrip(strip, f, h)]
          /\ pty' = pty \cup lost
                     \cup {f[x] : x \in shells \cap KeptPlaces(strip, kept)}
  BY Zenon DEF HydrateOpen, KeptPlaces, RebuiltStrip
<1>2. PICK f \in FreshIds(KeptPlaces(strip, kept), FreshLeaf \ lost),
           h \in Ascending(kept) :
        /\ op' = [op EXCEPT ![c].call = IF kept = {} THEN "seed" ELSE "rebuilt",
                            ![c].got  = RebuiltStrip(strip, f, h)]
        /\ pty' = pty \cup lost \cup {f[x] : x \in shells \cap KeptPlaces(strip, kept)}
  BY <1>1
<1> DEFINE F    == FreshLeaf \ lost
           got  == RebuiltStrip(strip, f, h)
           call == IF kept = {} THEN "seed" ELSE "rebuilt"
           x    == [op[c] EXCEPT !.call = call, !.got = got]
<1>3. op[c] \in Calls /\ op \in [Call -> GoodCalls] /\ op[c].call = "hydrate"
  BY CallIs DEF HydrateOpen
<1>4. strip \in Seq(Tabs) /\ Named(strip)
  <2>1. CallOK(op[c]) /\ op[c].got \in Seq(Tabs)
    BY CallIs, CallParts
  <2> QED BY <1>3, <2>1 DEF CallOK, Named
<1>5. F \subseteq Leaf /\ \A l \in F : Free(tabs, op, l)
  BY FreshLeafParts
<1>6. /\ GoodStrip(got) /\ (got = <<>> <=> kept = {})
      /\ \A l, t : TabHas(got, l, t) => l \in F
      /\ \A l, t, u : TabHas(got, l, t) /\ TabHas(got, l, u) => t = u
  <2>1. /\ kept \in SUBSET DOMAIN strip /\ F \in SUBSET Leaf
        /\ f \in FreshIds(KeptPlaces(strip, kept), F)
        /\ h \in Ascending(kept)
    BY <1>5
  <2> HIDE DEF strip, F
  <2> QED BY <1>4, <2>1, Rebuilt
<1>7. op' = [op EXCEPT ![c] = x]
  BY <1>2, <1>3
<1>8. pty' \subseteq Leaf
  <2>1. f \in [KeptPlaces(strip, kept) -> F]
    BY DEF FreshIds
  <2>2. {f[y] : y \in shells \cap KeptPlaces(strip, kept)} \subseteq F
    BY <2>1
  <2>3. pty \subseteq Leaf /\ lost \subseteq Leaf
    BY FreshLeafParts DEF TabsInv, Rest
  <2> QED BY <1>2, <1>5, <2>2, <2>3
<1> HIDE DEF got
<1>9. got \in Seq(Tabs)
  BY <1>6, StripParts DEF GoodStrip
<1>10. x \in Calls /\ x.call = call /\ x.got = got
  BY <1>3, <1>9 DEF Calls, CallNames
<1> HIDE DEF x
<1>11. CallsInv(tabs, [op EXCEPT ![c] = x])
  <2>1. CASE kept = {}
    <3>1. x \in GoodCalls /\ Quiet(x)
      BY <1>6, <1>10, <2>1, EmptyHanded
    <3> QED BY <3>1, QuietGoesOn DEF TabsInv
  <2>2. CASE kept # {}
    <3>1. x.call = "rebuilt" /\ got # <<>>
      BY <1>6, <1>10, <2>2
    <3>2. x \in GoodCalls
      BY <1>6, <1>10, <3>1 DEF GoodCalls, CallOK, OpensOne, Apart
    <3> DEFINE y == [op EXCEPT ![c] = x]
    <3>3. /\ y \in [Call -> GoodCalls] /\ y[c] = x
          /\ \A d \in Call : d # c => y[d] = op[d]
      BY <1>3, <3>2, CallGoesOn
    <3> HIDE DEF y
    <3>4. \A l \in Leaf : /\ \A t : ~CallHas(y[c], l, t)
                          /\ Carries(y[c], l) => Free(tabs, op, l)
      <4>1. \A l \in Leaf : l \in LeafIdsOf(got) => \E t : TabHas(got, l, t)
        BY LeafIdsAre DEF TabHas
      <4> QED BY <1>5, <1>6, <1>10, <3>1, <3>3, <4>1 DEF Carries, CallHas
    <3>5. OneOwner(tabs, op)
      BY DEF TabsInv, CallsInv
    <3>6. OneOwner(tabs, y)
      BY <3>3, <3>4, <3>5, OwnersToCall
    <3> QED BY <3>3, <3>6 DEF CallsInv, y
  <2> QED BY <2>1, <2>2
<1>12. CallsInv(tabs', op')
  BY Zenon, <1>7, <1>11 DEF HydrateOpen, ui
<1>13. Rest'
  BY Zenon, <1>8 DEF HydrateOpen, Rest, TabsInv, rest
<1>14. /\ GoodStrip(tabs') /\ Active(tabs', activeTabId') /\ Pointers'
       /\ IsSaved(saved')
  BY DEF HydrateOpen, TabsInv, Pointers, ui
<1> QED BY <1>12, <1>13, <1>14 DEF TabsInv

-----------------------------------------------------------------------------
(* applyPaneLayout and replaceEmptyLeaf                                    *)

\* The template of a launch has a placeholder for each pane, in their order.
LEMMA TemplateIsGood ==
    ASSUME NEW spec \in Launch
    PROVE  BuildPaneLayout(spec) \in GoodLayouts /\ IsTemplate(BuildPaneLayout(spec))
<1> DEFINE n     == Len(spec.panes)
           At(p) == CHOOSE i \in 1..n : PanePlace(spec.split, n, i) = p
           P     == {PanePlace(spec.split, n, i) : i \in 1..n}
           L     == BuildPaneLayout(spec)
<1>1. n \in 1..8 /\ \A i \in 1..n : spec.panes[i] \in {"agent", "shell"}
  BY TabsAssumption DEF TabsAssumption
<1>2. /\ IsTree(P) /\ \A i \in 1..n : PanePlace(spec.split, n, i) \in Place
      /\ \A i, j \in 1..n :
           i < j => LeftOf(PanePlace(spec.split, n, i), PanePlace(spec.split, n, j))
  <2>1. n \in Nat \ {0}
    <3>1. n \in 1..8
      BY <1>1
    <3> HIDE DEF n
    <3> QED BY <3>1
  <2> HIDE DEF n
  <2> QED BY <2>1, PanePlaces
<1>3. L = [p \in P |-> NewLeaf(PendingId(At(p)), spec.panes[At(p)])]
  BY DEF BuildPaneLayout
<1>4. \A p \in P : At(p) \in 1..n /\ PanePlace(spec.split, n, At(p)) = p
  OBVIOUS
<1> HIDE DEF n, P, At
<1>5. DOMAIN L = P /\ L = [p \in DOMAIN L |-> L[p]]
  BY <1>3
<1>6. \A p \in P : L[p] = NewLeaf(PendingId(At(p)), spec.panes[At(p)])
  BY <1>3
<1> HIDE DEF L
<1>7. ASSUME NEW p \in P
      PROVE  /\ L[p] \in LeafType /\ L[p].id = <<"pending", At(p) - 1>>
             /\ L[p].id \in Pending
  <2>1. At(p) \in Nat /\ At(p) - 1 \in 0..7
    BY <1>1, <1>4
  <2>2. PendingId(At(p)) \in Pending /\ PendingId(At(p)) = <<"pending", At(p) - 1>>
    BY <2>1 DEF PendingId, Pending
  <2>3. PendingId(At(p)) \in Ids /\ spec.panes[At(p)] \in {"agent", "shell"}
    BY <1>1, <1>4, <2>2 DEF Ids
  <2> QED BY <1>6, <2>2, <2>3, NewLeafIs
<1>8. ASSUME NEW p \in P, NEW q \in P, L[p].id = L[q].id
      PROVE  p = q
  <2>1. At(p) \in Nat /\ At(q) \in Nat
    BY <1>1, <1>4
  <2>2. At(p) - 1 = At(q) - 1
    BY <1>7, <1>8
  <2>3. At(p) = At(q)
    BY <2>1, <2>2
  <2> QED BY <1>4, <2>3
<1>9. ASSUME NEW p \in P, NEW q \in P, LeftOf(p, q)
      PROVE  L[p].id[2] < L[q].id[2]
  <2>1. At(p) \in Nat /\ At(q) \in Nat /\ At(p) \in 1..n /\ At(q) \in 1..n
    BY <1>1, <1>4
  <2>2. p \in Place /\ q \in Place
    BY <1>2, <1>4
  <2>3. p # q /\ ~LeftOf(q, p)
    BY <1>9, <2>2, LeftOfIsStrict
  <2>4. ~(At(q) < At(p)) /\ At(p) # At(q)
    BY <1>2, <1>4, <2>1, <2>3
  <2>5. L[p].id[2] = At(p) - 1 /\ L[q].id[2] = At(q) - 1
    BY <1>7
  <2> QED BY <2>1, <2>4, <2>5
<1>10. L \in GoodLayouts
  BY <1>2, <1>5, <1>7, <1>8, GoodLayoutIs
<1>11. IsTemplate(L)
  BY <1>5, <1>7, <1>9 DEF IsTemplate, CollectLeafIds
<1> QED BY <1>10, <1>11 DEF L

\* A call that a launch has started.
LEMMA LaunchingIs ==
    ASSUME NEW spec \in Launch
    PROVE  Launching(spec) \in GoodCalls /\ Quiet(Launching(spec))
<1> DEFINE L == BuildPaneLayout(spec)
           got == <<NewTab(None, L)>>
           x == Launching(spec)
<1>1. L \in GoodLayouts /\ IsTemplate(L) /\ L \in Layouts
  BY TemplateIsGood DEF GoodLayouts
<1> HIDE DEF L
<1>2. got \in Seq(Tabs)
  BY <1>1, NamelessTabIs, OneTab
<1>3. \E M \in GoodLayouts : IsTemplate(M) /\ got = <<NewTab(None, M)>>
  BY <1>1
<1> HIDE DEF got
<1>4. x \in Calls /\ x.call = "launch" /\ x.got = got
  BY <1>2, IdleIs DEF Launching, Calls, CallNames, L, got
<1> HIDE DEF x
<1>5. CallOK(x)
  BY <1>3, <1>4 DEF CallOK, OpensOne
<1>6. Quiet(x)
  BY <1>4 DEF Quiet, Carries, CallHas, OpensOne
<1> QED BY <1>4, <1>5, <1>6 DEF GoodCalls, x

LEMMA ApplyPaneLayoutKeeps ==
    ASSUME TabsInv, NEW c \in Call, NEW spec \in Launch, ApplyPaneLayout(c, spec)
    PROVE  TabsInv'
<1> DEFINE x == Launching(spec)
<1>1. x \in GoodCalls /\ Quiet(x)
  BY LaunchingIs
<1>2. op' = [op EXCEPT ![c] = x] /\ UNCHANGED ui /\ IsSaved(saved')
  BY DEF ApplyPaneLayout, TabsInv
<1>3. Rest'
  BY InputKeeps DEF ApplyPaneLayout, Rest, TabsInv, rest
<1> HIDE DEF x
<1> QED BY <1>1, <1>2, <1>3, QuietStepKeeps

LEMMA MountForLaunchKeeps ==
    ASSUME TabsInv, NEW c \in Call, NEW spec \in Launch, MountForLaunch(c, spec)
    PROVE  TabsInv'
<1> DEFINE x == Launching(spec)
<1>1. x \in GoodCalls /\ Quiet(x)
  BY LaunchingIs
<1>2. op' = [op EXCEPT ![c] = x] /\ UNCHANGED ui /\ IsSaved(saved')
  BY NothingIsSaved DEF MountForLaunch
<1>3. Rest'
  BY InputKeeps DEF MountForLaunch, Rest, TabsInv
<1> HIDE DEF x
<1> QED BY <1>1, <1>2, <1>3, QuietStepKeeps

LEMMA LaunchOpenKeeps ==
    ASSUME TabsInv, NEW c \in Call, LaunchOpen(c)
    PROVE  TabsInv'
<1> DEFINE places == PlacesOf(op[c].got)
           shells == {x \in places : op[c].got[1].layout[x[2]].kind = "shell"}
           M(placed, f) == [p \in DOMAIN op[c].got[1].layout |->
                              IF <<1, p>> \in placed
                              THEN [op[c].got[1].layout[p] EXCEPT !.id = f[<<1, p>>]]
                              ELSE [op[c].got[1].layout[p] EXCEPT !.empty = TRUE]]
<1>1. op[c] \in Calls /\ op \in [Call -> GoodCalls] /\ op[c].call = "launch"
  BY CallIs DEF LaunchOpen
<1>2. PICK placed \in SUBSET places :
        \E f \in FreshIds(placed, FreshLeaf) : \E lost \in SUBSET FreshLeaf :
          /\ pty' = pty \cup lost \cup {f[x] : x \in placed \cap shells}
          /\ op' = [op EXCEPT ![c].call = "launched",
                              ![c].got = <<NewTab(None, M(placed, f))>>]
  BY Zenon DEF LaunchOpen
<1>3. PICK f \in FreshIds(placed, FreshLeaf), lost \in SUBSET FreshLeaf :
        /\ pty' = pty \cup lost \cup {f[x] : x \in placed \cap shells}
        /\ op' = [op EXCEPT ![c].call = "launched",
                            ![c].got = <<NewTab(None, M(placed, f))>>]
  BY <1>2
<1>4. PICK L \in GoodLayouts : IsTemplate(L) /\ op[c].got = <<NewTab(None, L)>>
  BY <1>1, CallIs DEF CallOK
<1>5. op[c].got[1].layout = L /\ LeafIdsOf(op[c].got) = CollectLeafIds(L)
  BY <1>4, OneTab DEF NewTab
<1>6. f \in [placed -> FreshLeaf] /\ \A x, y \in placed : f[x] = f[y] => x = y
  BY SMTT(30) DEF FreshIds, IsInjective
<1>7. pty' \subseteq Leaf
  <2>1. {f[x] : x \in placed \cap shells} \subseteq FreshLeaf
    BY <1>6
  <2>2. pty \subseteq Leaf /\ FreshLeaf \subseteq Leaf
    BY SMTT(30), FreshLeafParts DEF TabsInv, Rest
  <2> QED BY <1>3, <2>1, <2>2
<1> DEFINE N   == M(placed, f)
           got == <<NewTab(None, N)>>
           x   == [op[c] EXCEPT !.call = "launched", !.got = got]
<1>8. op' = [op EXCEPT ![c] = x]
  BY <1>1, <1>3
<1>9. /\ DOMAIN N = DOMAIN L /\ N = [p \in DOMAIN N |-> N[p]]
      /\ \A p \in DOMAIN L : <<1, p>> \in placed =>
           N[p] = [L[p] EXCEPT !.id = f[<<1, p>>]]
      /\ \A p \in DOMAIN L : <<1, p>> \notin placed =>
           N[p] = [L[p] EXCEPT !.empty = TRUE]
  BY <1>5
<1> HIDE DEF N
<1>10. /\ IsTree(DOMAIN L) /\ Distinct(L) /\ CollectLeafIds(L) \subseteq Pending
       /\ \A p \in DOMAIN L : L[p] \in LeafType
  BY <1>4, LayoutParts DEF GoodLayouts, IsTemplate
<1>11. \A p \in DOMAIN L : L[p].id \in Pending /\ L[p].id \in Ids
  BY <1>10 DEF CollectLeafIds, Ids
<1>12. Leaf \cap Pending = {}
  BY TabsAssumption DEF TabsAssumption
<1>13. ASSUME NEW p \in DOMAIN L, <<1, p>> \in placed
       PROVE  /\ N[p] \in LeafType /\ N[p].id = f[<<1, p>>]
              /\ N[p].id \in FreshLeaf /\ N[p].id \in Leaf
  <2>1. f[<<1, p>>] \in FreshLeaf /\ f[<<1, p>>] \in Ids /\ f[<<1, p>>] \in Leaf
    BY <1>6, <1>13, FreshLeafParts
  <2>2. N[p] = [L[p] EXCEPT !.id = f[<<1, p>>]] /\ L[p] \in LeafType
    BY <1>9, <1>10, <1>13
  <2> QED BY <2>1, <2>2 DEF LeafType
<1>14. ASSUME NEW p \in DOMAIN L, <<1, p>> \notin placed
       PROVE  /\ N[p] \in LeafType /\ N[p].id = L[p].id
              /\ N[p].id \in Pending /\ N[p].id \notin Leaf
  <2>1. N[p] = [L[p] EXCEPT !.empty = TRUE] /\ L[p] \in LeafType
    BY <1>9, <1>10, <1>14
  <2> QED BY <1>11, <1>12, <2>1 DEF LeafType
<1>15. ASSUME NEW p \in DOMAIN L, NEW q \in DOMAIN L, p # q
       PROVE  N[p].id # N[q].id
  <2>1. CASE <<1, p>> \in placed /\ <<1, q>> \in placed
    <3>1. <<1, p>> # <<1, q>>
      BY <1>15
    <3> QED BY <1>6, <1>13, <2>1, <3>1
  <2>2. CASE <<1, p>> \notin placed /\ <<1, q>> \notin placed
    <3>1. L[p].id # L[q].id
      BY <1>10, <1>15 DEF Distinct
    <3> QED BY <1>14, <2>2, <3>1
  <2>3. CASE <<1, p>> \in placed /\ <<1, q>> \notin placed
    BY <1>13, <1>14, <2>3
  <2>4. CASE <<1, p>> \notin placed /\ <<1, q>> \in placed
    BY <1>13, <1>14, <2>4
  <2> QED BY <2>1, <2>2, <2>3, <2>4
<1>16. N \in GoodLayouts /\ N \in Layouts
  <2>1. ASSUME NEW p \in DOMAIN N
        PROVE  N[p] \in LeafType /\ N[p].id \in Leaf \cup Pending
    <3>1. p \in DOMAIN L
      BY <1>9
    <3> QED BY <1>13, <1>14, <3>1
  <2>2. \A p, q \in DOMAIN N : p # q => N[p].id # N[q].id
    BY <1>9, <1>15
  <2>3. IsTree(DOMAIN N) /\ N = [p \in DOMAIN N |-> N[p]]
    BY <1>9, <1>10
  <2>4. N \in GoodLayouts
    BY <2>1, <2>2, <2>3, GoodLayoutIs
  <2> QED BY <2>4 DEF GoodLayouts
<1>17. ASSUME NEW l \in Leaf, l \in CollectLeafIds(N)
       PROVE  Free(tabs, op, l)
  <2>1. PICK p \in DOMAIN L : l = N[p].id
    BY <1>9, <1>17 DEF CollectLeafIds
  <2>2. l \in FreshLeaf
    BY <1>13, <1>14, <2>1
  <2> QED BY <2>2, FreshLeafParts
<1>18. got \in Seq(Tabs) /\ LeafIdsOf(got) = CollectLeafIds(N)
  BY <1>16, NamelessTabIs, OneTab
<1>19. \E K \in GoodLayouts : got = <<NewTab(None, K)>>
  BY <1>16
<1> HIDE DEF got
<1>20. x \in Calls /\ x.call = "launched" /\ x.got = got
  BY <1>1, <1>18 DEF Calls, CallNames
<1> HIDE DEF x
<1>21. x \in GoodCalls
  BY <1>19, <1>20 DEF GoodCalls, CallOK, OpensOne
<1>22. /\ op' \in [Call -> GoodCalls] /\ op'[c] = x
       /\ \A d \in Call : d # c => op'[d] = op[d]
  BY <1>1, <1>8, <1>21, CallGoesOn
<1>23. OneOwner(tabs, op')
  <2>1. OneOwner(tabs, op)
    BY DEF TabsInv, CallsInv
  <2>2. \A l \in Leaf : /\ \A t : ~CallHas(op'[c], l, t)
                        /\ Carries(op'[c], l) => Free(tabs, op, l)
    BY <1>17, <1>18, <1>20, <1>22 DEF CallHas, Carries
  <2> QED BY <1>22, <2>1, <2>2, OwnersToCall
<1>24. CallsInv(tabs', op')
  BY Zenon, <1>22, <1>23 DEF CallsInv, LaunchOpen, ui
<1>25. Rest'
  BY Zenon, <1>7 DEF LaunchOpen, Rest, TabsInv, rest
<1>26. /\ GoodStrip(tabs') /\ Active(tabs', activeTabId') /\ Pointers'
       /\ IsSaved(saved')
  BY DEF LaunchOpen, TabsInv, Pointers, ui
<1> QED BY SMTT(30), <1>24, <1>25, <1>26 DEF TabsInv

\* The pane to focus of a layout is one of its panes.
LEMMA FirstRealIs ==
    ASSUME NEW L \in Layouts
    PROVE  FirstReal(L) \in CollectLeafIds(L) /\ FirstReal(L) \in Ids
<1> DEFINE real == {p \in DOMAIN L : ~L[p].empty}
<1>1. CASE real = {}
  BY <1>1, LayoutParts DEF FirstReal
<1>2. CASE real # {}
  <2>1. IsTree(DOMAIN L) /\ real \subseteq DOMAIN L
    BY LayoutParts
  <2>2. \E p \in real : \A q \in real : p = q \/ LeftOf(p, q)
    <3> HIDE DEF real
    <3> QED BY <1>2, <2>1, LeftmostIsThere
  <2>3. \E p \in real : FirstReal(L) = L[p].id
    <3>1. FirstReal(L) = L[CHOOSE p \in real : \A q \in real : p = q \/ LeftOf(p, q)].id
      BY <1>2 DEF FirstReal
    <3> HIDE DEF real
    <3> QED BY <2>2, <3>1
  <2> QED BY <2>1, <2>3, LayoutParts DEF CollectLeafIds
<1> QED BY <1>1, <1>2

LEMMA LaunchFinishKeeps ==
    ASSUME TabsInv, NEW c \in Call, LaunchFinish(c)
    PROVE  TabsInv'
<1>1. PICK t \in FreshTab :
        /\ tabs' = Append(tabs, NewTab(t, op[c].got[1].layout))
        /\ activeTabId' = t
  BY DEF LaunchFinish
<1>2. PICK L \in GoodLayouts : op[c].got = <<NewTab(None, L)>>
  BY CallIs DEF CallOK, LaunchFinish
<1>3. op[c].got[1].layout = L /\ LeafIdsOf(op[c].got) = CollectLeafIds(L)
  BY <1>2, OneTab DEF NewTab
<1>4. \A l \in CollectLeafIds(L) \cap Leaf :
        Free(tabs, op, l) \/ Carries(op[c], l)
  BY <1>3 DEF Carries, LaunchFinish
<1>5. GoodStrip(tabs') /\ Active(tabs', activeTabId') /\ CallsInv(tabs', op')
  BY <1>1, <1>3, <1>4, AppendKeeps DEF LaunchFinish
<1>6. Pointers'
  <2>1. FirstReal(L) \in Ids
    BY FirstRealIs DEF GoodLayouts
  <2> QED BY <1>3, <2>1 DEF Pointers, LaunchFinish, Ids
<1>7. Rest'
  BY DEF LaunchFinish, Rest, TabsInv
<1>8. IsSaved(saved')
  BY <1>5, PersistKeeps DEF LaunchFinish
<1> QED BY <1>5, <1>6, <1>7, <1>8 DEF TabsInv

LEMMA ReplaceEmptyStartKeeps ==
    ASSUME TabsInv, NEW c \in Call, NEW id \in Leaf \cup Pending,
           ReplaceEmptyStart(c, id)
    PROVE  TabsInv'
<1> DEFINE x == [Idle EXCEPT !.call = "replaceEmptyLeaf", !.tab = activeTabId,
                             !.leaf = id, !.pane = "shell"]
<1>1. activeTabId \in Tab \cup {None} /\ id \in Ids
  BY ActiveTab DEF TabsInv, Ids
<1>2. /\ x \in Calls /\ x.got = <<>> /\ x.call = "replaceEmptyLeaf"
      /\ x.leaf \in Leaf \cup Pending
  BY <1>1, IdleIs DEF Calls, CallNames
<1>3. op' = [op EXCEPT ![c] = x] /\ UNCHANGED ui /\ IsSaved(saved')
  BY DEF ReplaceEmptyStart, TabsInv
<1> HIDE DEF x
<1>4. x \in GoodCalls /\ Quiet(x)
  BY <1>2, EmptyHanded
<1>5. Rest'
  BY InputKeeps DEF ReplaceEmptyStart, TabsInv, Rest, rest
<1> QED BY <1>3, <1>4, <1>5, QuietStepKeeps

LEMMA ReplaceEmptyKeeps ==
    ASSUME TabsInv, NEW c \in Call, ReplaceEmpty(c)
    PROVE  TabsInv'
<1> DEFINE leaf == Opened(c)
           L == TabOf(tabs, op[c].tab).layout
           M == ReplaceLeafNode(L, op[c].leaf, leaf)
<1>1. leaf \in LeafType /\ leaf.id \in Leaf /\ Carries(op[c], leaf.id)
  BY OpenedIs DEF ReplaceEmpty, OpensOne
<1>2. /\ tabs' = WithLayout(tabs, op[c].tab, M) /\ activeTabId' = activeTabId
      /\ Done(c) /\ focusedLeafId' = leaf.id /\ maximizedLeafId' = maximizedLeafId
  BY DEF ReplaceEmpty
<1> HIDE DEF leaf
<1>3. ASSUME op[c].tab \in TabIdsOf(tabs)
      PROVE  /\ M \in GoodLayouts
             /\ CollectLeafIds(M) \subseteq CollectLeafIds(L) \cup {leaf.id}
  <2>1. L \in GoodLayouts /\ leaf.id \notin CollectLeafIds(L)
    BY <1>1, <1>3, TabOfParts, NotShown DEF TabsInv
  <2> QED BY <1>1, <2>1, ReplacedIsGood
<1> HIDE DEF M
<1>4. GoodStrip(tabs') /\ Active(tabs', activeTabId') /\ CallsInv(tabs', op')
  BY <1>1, <1>2, <1>3, LeafIntoTab
<1>5. Pointers'
  BY <1>1, <1>2 DEF Pointers, TabsInv, Ids
<1>6. Rest'
  BY DEF ReplaceEmpty, Rest, TabsInv, rest
<1>7. IsSaved(saved')
  BY <1>4, PersistKeeps DEF ReplaceEmpty
<1> QED BY <1>4, <1>5, <1>6, <1>7 DEF TabsInv

LEMMA ReplaceEmptySendFailsKeeps ==
    ASSUME TabsInv, NEW c \in Call, ReplaceEmptySendFails(c)
    PROVE  TabsInv'
<1>1. op' = [op EXCEPT ![c] = Idle] /\ UNCHANGED ui /\ IsSaved(saved')
  BY DEF ReplaceEmptySendFails, Done, TabsInv
<1>2. Rest'
  BY DEF ReplaceEmptySendFails, Rest, TabsInv, rest
<1> QED BY <1>1, <1>2, IdleIs, QuietStepKeeps

-----------------------------------------------------------------------------
(* Exits, reset, relaunch                                                  *)

LEMMA PtyExitsKeeps ==
    ASSUME TabsInv, NEW id, PtyExits(id)
    PROVE  TabsInv'
<1>1. /\ GoodStrip(tabs') /\ Active(tabs', activeTabId') /\ Pointers'
      /\ IsSaved(saved') /\ CallsInv(tabs', op')
  BY DEF PtyExits, TabsInv, Pointers, ui
<1>2. pty' \subseteq Leaf /\ exits' \subseteq Leaf
  BY KillKeeps DEF PtyExits
<1>3. Rest'
  BY <1>2 DEF PtyExits, Rest, TabsInv, rest
<1> QED BY <1>1, <1>3 DEF TabsInv

LEMMA PtyExitedKeeps ==
    ASSUME TabsInv, NEW id, PtyExited(id)
    PROVE  TabsInv'
<1> DEFINE r == [i \in DOMAIN tabs |->
                   [tabs[i] EXCEPT !.layout = MarkLeafExited(@, id)]]
<1>1. /\ tabs' = r /\ activeTabId' = activeTabId
      /\ focusedLeafId' = focusedLeafId /\ maximizedLeafId' = maximizedLeafId
  BY DEF PtyExited, MarkExited
<1>2. /\ GoodStrip(r) /\ TabIdsOf(r) = TabIdsOf(tabs)
      /\ r = <<>> <=> tabs = <<>>
      /\ \A l, u : TabHas(r, l, u) => TabHas(tabs, l, u)
  BY GoodMark DEF TabsInv
<1> HIDE DEF r
<1>3. GoodStrip(tabs') /\ Active(tabs', activeTabId')
  BY <1>1, <1>2 DEF Active, TabsInv
<1>4. CallsInv(tabs', op')
  <2>1. CallsInv(r, op)
    BY <1>2, StripGoesOn DEF TabsInv
  <2> QED BY <1>1, <2>1 DEF PtyExited
<1>5. Pointers'
  BY <1>1 DEF Pointers, TabsInv
<1>6. Rest'
  BY DEF PtyExited, Rest, TabsInv, rest
<1>7. IsSaved(saved')
  BY <1>3, PersistKeeps DEF PtyExited
<1> QED BY <1>3, <1>4, <1>5, <1>6, <1>7 DEF TabsInv

LEMMA ResetStartKeeps ==
    ASSUME TabsInv, NEW c \in Call, ResetStart(c)
    PROVE  TabsInv'
<1> DEFINE x == [Idle EXCEPT !.call = "reset", !.got = tabs]
<1>1. tabs \in Seq(Tabs)
  BY StripParts DEF TabsInv, GoodStrip
<1>2. x \in Calls /\ x.call = "reset"
  BY <1>1, IdleIs DEF Calls, CallNames
<1>3. op' = [op EXCEPT ![c] = x] /\ UNCHANGED ui /\ IsSaved(saved')
  BY DEF ResetStart, TabsInv
<1> HIDE DEF x
<1>4. x \in GoodCalls /\ Quiet(x)
  BY <1>2 DEF GoodCalls, CallOK, OpensOne, Quiet, Carries, CallHas
<1>5. Rest'
  BY InputKeeps DEF ResetStart, TabsInv, Rest, rest
<1> QED BY <1>3, <1>4, <1>5, QuietStepKeeps

\* An empty strip, and nothing that points into it.
LEMMA BareIs ==
    ASSUME tabs' = <<>>, activeTabId' = None, focusedLeafId' = None,
           maximizedLeafId' = None
    PROVE  /\ GoodStrip(tabs') /\ Active(tabs', activeTabId') /\ Pointers'
           /\ \A l, t : ~TabHas(tabs', l, t)
BY NoStrip DEF Active, Pointers, Ids

LEMMA ResetKeeps ==
    ASSUME TabsInv, NEW c \in Call, Reset(c)
    PROVE  TabsInv'
<1>1. /\ GoodStrip(tabs') /\ Active(tabs', activeTabId') /\ Pointers'
      /\ \A l, t : ~TabHas(tabs', l, t)
  BY BareIs DEF Reset
<1>2. CallsInv(tabs', op')
  <2>1. CallsInv(tabs, op')
    BY IdleIs, QuietGoesOn DEF TabsInv, Reset, Done
  <2> QED BY <1>1, <2>1, StripGoesOn
<1>3. pty' \subseteq Leaf /\ exits' \subseteq Leaf
  BY KillKeeps DEF Reset
<1>4. Rest'
  BY <1>3 DEF Reset, Rest, TabsInv, rest
<1>5. IsSaved(saved')
  BY NothingIsSaved DEF Reset
<1> QED BY <1>1, <1>2, <1>4, <1>5 DEF TabsInv

LEMMA RelaunchKeeps ==
    ASSUME TabsInv, Relaunch
    PROVE  TabsInv'
<1>1. /\ GoodStrip(tabs') /\ Active(tabs', activeTabId') /\ Pointers'
      /\ \A l, t : ~TabHas(tabs', l, t)
  BY BareIs DEF Relaunch
<1>2. CallsInv(tabs', op')
  BY <1>1, AllIdle DEF TabsInv, Relaunch
<1>3. Rest'
  BY InputKeeps DEF Relaunch, Rest, TabsInv
<1>4. IsSaved(saved')
  BY DEF Relaunch, TabsInv
<1> QED BY <1>1, <1>2, <1>3, <1>4 DEF TabsInv

-----------------------------------------------------------------------------
(* The theorems                                                            *)

LEMMA TabsInit == ASSUME Init PROVE TabsInv
<1>1. tabs = <<>> /\ op = [c \in Call |-> Idle] /\ activeTabId = None
  BY DEF Init
<1>2. GoodStrip(tabs) /\ Active(tabs, activeTabId) /\ \A l, t : ~TabHas(tabs, l, t)
  BY <1>1, NoStrip DEF Active
<1>3. op \in [Call -> GoodCalls] /\ \A c \in Call : Quiet(op[c])
  BY <1>1, IdleIs
<1>4. OneOwner(tabs, op)
  BY <1>2, <1>3 DEF OneOwner, Held, Quiet
<1>5. Pointers
  BY DEF Init, Pointers, Ids
<1>6. Rest
  <2>1. MaxInputs \in Nat /\ inputs = 0
    BY TabsAssumption DEF TabsAssumption, Init
  <2>2. inputs \in 0..MaxInputs
    BY <2>1
  <2> QED BY <2>2 DEF Init, Rest
<1>7. IsSaved(saved)
  BY TabsAssumption DEF TabsAssumption, Init
<1> QED BY <1>2, <1>3, <1>4, <1>5, <1>6, <1>7 DEF TabsInv, CallsInv

LEMMA InputsKeep == ASSUME TabsInv, Inputs PROVE TabsInv'
<1>1. ASSUME NEW c \in Call, NEW kind \in {"agent", "shell"}, AddTabStart(c, kind)
      PROVE  TabsInv'
  BY <1>1, AddTabStartKeeps
<1>2. ASSUME NEW c \in Call, NEW id \in Tab, CloseTabStart(c, id)
      PROVE  TabsInv'
  BY <1>2, CloseTabStartKeeps
<1>3. ASSUME NEW c \in Call, NEW id \in Leaf \cup Pending,
             NEW kind \in {"agent", "shell"}, SplitPaneStart(c, id, kind)
      PROVE  TabsInv'
  BY <1>3, SplitPaneStartKeeps
<1>4. ASSUME NEW c \in Call, NEW id \in Leaf \cup Pending, ClosePaneStart(c, id)
      PROVE  TabsInv'
  BY <1>4, ClosePaneStartKeeps
<1>5. ASSUME NEW c \in Call, NEW id \in Leaf \cup Pending,
             ReplaceEmptyStart(c, id)
      PROVE  TabsInv'
  BY <1>5, ReplaceEmptyStartKeeps
<1>6. ASSUME NEW c \in Call, NEW spec \in Launch, ApplyPaneLayout(c, spec)
      PROVE  TabsInv'
  BY <1>6, ApplyPaneLayoutKeeps
<1>7. ASSUME NEW c \in Call, NEW spec \in Launch, MountForLaunch(c, spec)
      PROVE  TabsInv'
  BY <1>7, MountForLaunchKeeps
<1>8. ASSUME NEW c \in Call, HydrateStart(c) PROVE TabsInv'
  BY <1>8, HydrateStartKeeps
<1>9. ASSUME NEW c \in Call, ResetStart(c) PROVE TabsInv'
  BY <1>9, ResetStartKeeps
<1>10. ASSUME NEW id \in Tab, SetActiveTab(id) PROVE TabsInv'
  BY <1>10, SetActiveTabKeeps
<1>11. ASSUME NEW id \in Leaf, StopAgentPane(id) PROVE TabsInv'
  BY <1>11, StopAgentPaneKeeps
<1>12. ASSUME NEW id \in Leaf, FocusPane(id) PROVE TabsInv'
  BY <1>12, FocusPaneKeeps
<1>13. ASSUME NEW id \in Leaf \cup Pending, SetFocusedLeaf(id) PROVE TabsInv'
  BY <1>13, SetFocusedLeafKeeps
<1>14. ASSUME NEW id \in Leaf \cup Pending, ToggleMaximize(id) PROVE TabsInv'
  BY <1>14, ToggleMaximizeKeeps
<1>15. CASE RestoreMaximize
  BY <1>15, RestoreMaximizeKeeps
<1>16. CASE CloseWindow
  BY <1>16, CloseWindowKeeps
<1>17. CASE Relaunch
  BY <1>17, RelaunchKeeps
<1> QED
  BY <1>1, <1>2, <1>3, <1>4, <1>5, <1>6, <1>7, <1>8, <1>9, <1>10, <1>11, <1>12,
     <1>13, <1>14, <1>15, <1>16, <1>17 DEF Inputs

LEMMA AnswersKeep == ASSUME TabsInv, Answers PROVE TabsInv'
<1>1. PICK c \in Call :
        \/ AddAgentTab(c) \/ OpenTerminal(c) \/ OpenTerminalFails(c)
        \/ AddShellTab(c) \/ CloseTab(c) \/ CloseTabNoReSeed(c) \/ SplitPane(c)
        \/ ClosePane(c) \/ HydrateSeed(c) \/ HydrateOpen(c) \/ HydrateFinish(c)
        \/ LaunchOpen(c) \/ LaunchFinish(c) \/ ReplaceEmpty(c)
        \/ ReplaceEmptySendFails(c) \/ Reset(c)
  BY DEF Answers
<1>2. CASE AddAgentTab(c)           BY <1>2, AddAgentTabKeeps
<1>3. CASE OpenTerminal(c)          BY <1>3, OpenTerminalKeeps
<1>4. CASE OpenTerminalFails(c)     BY <1>4, OpenTerminalFailsKeeps
<1>5. CASE AddShellTab(c)           BY <1>5, AddShellTabKeeps
<1>6. CASE CloseTab(c)              BY <1>6, CloseTabKeeps
<1>7. CASE CloseTabNoReSeed(c)      BY <1>7, CloseTabNoReSeedKeeps
<1>8. CASE SplitPane(c)             BY <1>8, SplitPaneKeeps
<1>9. CASE ClosePane(c)             BY <1>9, ClosePaneKeeps
<1>10. CASE HydrateSeed(c)          BY <1>10, HydrateSeedKeeps
<1>11. CASE HydrateOpen(c)          BY <1>11, HydrateOpenKeeps
<1>12. CASE HydrateFinish(c)        BY <1>12, HydrateFinishKeeps
<1>13. CASE LaunchOpen(c)           BY <1>13, LaunchOpenKeeps
<1>14. CASE LaunchFinish(c)         BY <1>14, LaunchFinishKeeps
<1>15. CASE ReplaceEmpty(c)         BY <1>15, ReplaceEmptyKeeps
<1>16. CASE ReplaceEmptySendFails(c) BY <1>16, ReplaceEmptySendFailsKeeps
<1>17. CASE Reset(c)                BY <1>17, ResetKeeps
<1> QED
  BY <1>1, <1>2, <1>3, <1>4, <1>5, <1>6, <1>7, <1>8, <1>9, <1>10, <1>11, <1>12,
     <1>13, <1>14, <1>15, <1>16, <1>17

LEMMA StutterKeeps == ASSUME TabsInv, UNCHANGED vars PROVE TabsInv'
BY DEF TabsInv, Pointers, Rest, vars

LEMMA TabsNext == ASSUME TabsInv, [Next]_vars PROVE TabsInv'
<1>1. CASE Inputs         BY <1>1, InputsKeep
<1>2. CASE Answers        BY <1>2, AnswersKeep
<1>3. CASE Exits          BY <1>3, PtyExitsKeeps, PtyExitedKeeps DEF Exits
<1>4. CASE UNCHANGED vars BY <1>4, StutterKeeps
<1> QED BY <1>1, <1>2, <1>3, <1>4 DEF Next

\* The inductive invariant of the strip and of the calls that overlap on it:
\* each pane belongs to one tab or to one call in flight, and what a call will
\* write is a layout whose panes were its tab's, or are its own.
THEOREM TabsInvariant == Spec => []TabsInv
<1>1. Init => TabsInv
  BY TabsInit
<1>2. TabsInv /\ [Next]_vars => TabsInv'
  BY TabsNext
<1> QED BY <1>1, <1>2, PTL DEF Spec

\* Every layout that the strip, localStorage or a call in flight holds is a
\* finite binary tree of leaves, however splits, closes, launches and
\* hydrations interleave; the rest of the state has its type.
THEOREM TabsTypes == Spec => []TypeOK
<1>1. TabsInv => TypeOK
  <2> SUFFICES ASSUME TabsInv PROVE TypeOK
    OBVIOUS
  <2>1. IsStrip(tabs)
    BY StripParts, StripsAre DEF TabsInv, GoodStrip
  <2>2. activeTabId \in Tab \cup {None}
    BY ActiveTab DEF TabsInv
  <2>3. op \in [Call -> GoodCalls] /\ \A c \in Call : IsCall(op[c])
    BY CallIs, CallsAre DEF TabsInv, CallsInv
  <2>4. op \in [Call -> Range(op)]
    BY <2>3 DEF Range
  <2> QED BY <2>1, <2>2, <2>3, <2>4 DEF TabsInv, TypeOK, Pointers, Rest
<1> QED BY <1>1, TabsInvariant, PTL

\* No pane is in the strip twice, no two tabs have one id, and the active tab
\* is one of the strip, for any number of overlapping calls, one of which
\* writes back a layout it read before it waited (terminal-store.ts:596-624).
THEOREM StripSound == Spec => []StripIsSound
<1>1. TabsInv => StripIsSound
  <2> SUFFICES ASSUME TabsInv PROVE StripIsSound
    OBVIOUS
  <2>1. /\ \A i, j \in DOMAIN tabs : i # j => tabs[i].id # tabs[j].id
        /\ \A i \in DOMAIN tabs : tabs[i].layout \in GoodLayouts
    BY StripParts, GoodTabParts DEF TabsInv, GoodStrip
  <2>2. ASSUME NEW i \in DOMAIN tabs, NEW j \in DOMAIN tabs, i # j
        PROVE  CollectLeafIds(tabs[i].layout) \cap CollectLeafIds(tabs[j].layout)
                 \subseteq Pending
    <3> SUFFICES ASSUME NEW l, l \in CollectLeafIds(tabs[i].layout),
                        l \in CollectLeafIds(tabs[j].layout), l \in Leaf
                 PROVE  FALSE
      BY <2>1 DEF GoodLayouts
    <3>1. Held(tabs, op, l, tabs[i].id) /\ Held(tabs, op, l, tabs[j].id)
      BY DEF Held, TabHas
    <3>2. tabs[i].id = tabs[j].id
      BY <3>1 DEF TabsInv, CallsInv, OneOwner
    <3> QED BY <2>1, <2>2, <3>2
  <2>3. ASSUME NEW i \in DOMAIN tabs, NEW p \in DOMAIN tabs[i].layout,
               NEW q \in DOMAIN tabs[i].layout, p # q
        PROVE  tabs[i].layout[p].id # tabs[i].layout[q].id
    BY <2>1, <2>3 DEF GoodLayouts, Distinct
  <2>4. IF tabs = <<>> THEN activeTabId = None ELSE activeTabId \in TabIdsOf(tabs)
    BY DEF TabsInv, Active
  <2> QED BY <2>1, <2>2, <2>3, <2>4 DEF StripIsSound
<1> QED BY <1>1, TabsInvariant, PTL

\* The panes of a launch stand in the tree that buildPaneLayout makes of them
\* in the order of its spec, in columns, in rows and in every grid: the prompt
\* and the command of a pane are found by its index (launch.ts:187-190).
THEOREM LaunchOrder == Spec => []LaunchKeepsPaneOrder
<1>1. TabsInv => LaunchKeepsPaneOrder
  <2> SUFFICES ASSUME TabsInv, NEW c \in Call, op[c].call = "launch"
               PROVE  LET L == op[c].got[1].layout
                      IN /\ IsTree(DOMAIN L)
                         /\ \A p, q \in DOMAIN L :
                              LeftOf(p, q) => L[p].id[2] < L[q].id[2]
    BY DEF LaunchKeepsPaneOrder
  <2>1. PICK L \in GoodLayouts : IsTemplate(L) /\ op[c].got = <<NewTab(None, L)>>
    BY CallIs DEF CallOK
  <2>2. op[c].got[1].layout = L
    BY <2>1, OneTab DEF NewTab
  <2>3. IsTree(DOMAIN L)
    BY LayoutParts DEF GoodLayouts
  <2> QED BY <2>1, <2>2, <2>3 DEF IsTemplate
<1> QED BY <1>1, TabsInvariant, PTL

-----------------------------------------------------------------------------
(* Which leaves the strip has                                              *)

TabLeaf(strip, k, t) ==
    \E i \in DOMAIN strip : strip[i].id = t /\ k \in Range(strip[i].layout)

LEMMA LeavesAre ==
    ASSUME NEW strip
    PROVE  /\ \A k : k \in LeavesOf(strip) <=> \E t : TabLeaf(strip, k, t)
           /\ \A l : l \in LeafIdsOf(strip) <=> \E t : TabHas(strip, l, t)
           /\ \A l, t : TabHas(strip, l, t)
                          <=> \E k : TabLeaf(strip, k, t) /\ k.id = l
           /\ \A l : l \in LeafIdsOf(strip)
                          <=> \E k \in LeavesOf(strip) : k.id = l
<1>1. \A k : k \in LeavesOf(strip) <=> \E t : TabLeaf(strip, k, t)
  BY DEF LeavesOf, TabLeaf
<1>2. \A l : l \in LeafIdsOf(strip) <=> \E t : TabHas(strip, l, t)
  BY DEF LeafIdsOf, TabHas
<1>3. \A l, t : TabHas(strip, l, t) <=> \E k : TabLeaf(strip, k, t) /\ k.id = l
  BY DEF TabHas, TabLeaf, CollectLeafIds, Range
<1> QED BY <1>1, <1>2, <1>3

LEMMA IdsOfLeaves ==
    ASSUME NEW L
    PROVE  \A l : l \in CollectLeafIds(L) <=> \E k \in Range(L) : k.id = l
BY DEF CollectLeafIds, Range

LEMMA NoLeaves ==
    /\ LeavesOf(<<>>) = {} /\ LeafIdsOf(<<>>) = {} /\ Range(NoLayout) = {}
<1>1. DOMAIN <<>> = {} /\ LeafIdsOf(<<>>) = {}
  BY NoStrip
<1> QED BY <1>1 DEF LeavesOf, NoLayout, Range

LEMMA OneTabLeaves ==
    ASSUME NEW t
    PROVE  /\ LeavesOf(<<t>>) = Range(t.layout)
           /\ LeafIdsOf(<<t>>) = CollectLeafIds(t.layout)
BY OneTab DEF LeavesOf

LEMMA SingleLeaves ==
    ASSUME NEW leaf
    PROVE  /\ Range(SingleLeaf(leaf)) = {leaf}
           /\ CollectLeafIds(SingleLeaf(leaf)) = {leaf.id}
BY DEF SingleLeaf, Range, CollectLeafIds

\* A good strip, and the leaf ids of its tab.
LEMMA TabHasIs ==
    ASSUME NEW strip, GoodStrip(strip), NEW id \in TabIdsOf(strip)
    PROVE  /\ \A l : TabHas(strip, l, id)
                       <=> l \in CollectLeafIds(TabOf(strip, id).layout)
           /\ \A k : TabLeaf(strip, k, id) <=> k \in Range(TabOf(strip, id).layout)
<1>1. PICK i \in DOMAIN strip : strip[i].id = id /\ TabOf(strip, id) = strip[i]
  BY TabOfIsThere
<1>2. \A j \in DOMAIN strip : strip[j].id = id => j = i
  BY <1>1 DEF GoodStrip
<1> QED BY <1>1, <1>2 DEF TabHas, TabLeaf

\* The tab t has the pane l, in terms of tabs there are.
LEMMA TabHasTab ==
    ASSUME NEW strip, NEW l, NEW t, TabHas(strip, l, t)
    PROVE  t \in TabIdsOf(strip)
BY DEF TabHas, TabIdsOf

LEMMA AppendLeaves ==
    ASSUME NEW strip, GoodStrip(strip), NEW t \in GoodTabs
    PROVE  LET r == Append(strip, t)
           IN  /\ \A k, u : TabLeaf(r, k, u)
                     <=> TabLeaf(strip, k, u) \/ (u = t.id /\ k \in Range(t.layout))
               /\ \A l, u : TabHas(r, l, u)
                     <=> \/ TabHas(strip, l, u)
                         \/ u = t.id /\ l \in CollectLeafIds(t.layout)
<1> DEFINE r == Append(strip, t)
<1>1. strip \in Seq(GoodTabs) /\ Len(strip) \in Nat /\ DOMAIN strip = 1..Len(strip)
  BY StripParts DEF GoodStrip
<1>2. /\ DOMAIN r = 1..(Len(strip) + 1) /\ r[Len(strip) + 1] = t
      /\ \A i \in 1..Len(strip) : r[i] = strip[i]
  BY <1>1
<1> HIDE DEF r
<1>3. \A i \in DOMAIN r : i \in DOMAIN strip \/ i = Len(strip) + 1
  BY <1>1, <1>2
<1>4. Len(strip) + 1 \in DOMAIN r /\ \A i \in DOMAIN strip : i \in DOMAIN r
  BY <1>1, <1>2
<1>5. \A k, u : TabLeaf(r, k, u)
        <=> TabLeaf(strip, k, u) \/ (u = t.id /\ k \in Range(t.layout))
  BY <1>1, <1>2, <1>3, <1>4 DEF TabLeaf
<1>6. \A l, u : TabHas(r, l, u)
        <=> TabHas(strip, l, u) \/ (u = t.id /\ l \in CollectLeafIds(t.layout))
  BY <1>1, <1>2, <1>3, <1>4 DEF TabHas
<1> QED BY <1>5, <1>6 DEF r

LEMMA WithLeaves ==
    ASSUME NEW strip, GoodStrip(strip), NEW id, NEW L
    PROVE  LET r == WithLayout(strip, id, L)
           IN  /\ \A k, u : TabLeaf(r, k, u)
                     <=> \/ u # id /\ TabLeaf(strip, k, u)
                         \/ u = id /\ id \in TabIdsOf(strip) /\ k \in Range(L)
               /\ \A l, u : TabHas(r, l, u)
                     <=> \/ u # id /\ TabHas(strip, l, u)
                         \/ /\ u = id /\ id \in TabIdsOf(strip)
                            /\ l \in CollectLeafIds(L)
<1> DEFINE r == WithLayout(strip, id, L)
<1>1. \A i \in DOMAIN strip : strip[i] \in GoodTabs
  BY StripParts DEF GoodStrip
<1>2. /\ DOMAIN r = DOMAIN strip
      /\ \A i \in DOMAIN strip :
           r[i] = IF strip[i].id = id THEN [strip[i] EXCEPT !.layout = L] ELSE strip[i]
  BY DEF WithLayout
<1> HIDE DEF r
<1>3. \A i \in DOMAIN strip :
        /\ r[i].id = strip[i].id
        /\ r[i].layout = IF strip[i].id = id THEN L ELSE strip[i].layout
  BY <1>1, <1>2 DEF GoodTabs
<1>4. \A k, u : TabLeaf(r, k, u)
        <=> \/ u # id /\ TabLeaf(strip, k, u)
            \/ u = id /\ id \in TabIdsOf(strip) /\ k \in Range(L)
  BY <1>2, <1>3 DEF TabLeaf, TabIdsOf
<1>5. \A l, u : TabHas(r, l, u)
        <=> \/ u # id /\ TabHas(strip, l, u)
            \/ u = id /\ id \in TabIdsOf(strip) /\ l \in CollectLeafIds(L)
  BY <1>2, <1>3 DEF TabHas, TabIdsOf
<1> QED BY <1>4, <1>5 DEF r

LEMMA RemoveLeaves ==
    ASSUME NEW strip, GoodStrip(strip), NEW id
    PROVE  LET r == WithoutTab(strip, id)
           IN  /\ \A k, u : TabLeaf(r, k, u) <=> TabLeaf(strip, k, u) /\ u # id
               /\ \A l, u : TabHas(r, l, u) <=> TabHas(strip, l, u) /\ u # id
<1> DEFINE r == WithoutTab(strip, id)
<1>1. /\ \A i \in DOMAIN r :
           \E j \in DOMAIN strip : r[i] = strip[j] /\ strip[j].id # id
      /\ \A j \in DOMAIN strip :
           strip[j].id # id => \E i \in DOMAIN r : r[i] = strip[j]
  BY GoodRemove
<1> HIDE DEF r
<1>2. \A k, u : TabLeaf(r, k, u) <=> TabLeaf(strip, k, u) /\ u # id
  BY <1>1 DEF TabLeaf
<1>3. \A l, u : TabHas(r, l, u) <=> TabHas(strip, l, u) /\ u # id
  BY <1>1 DEF TabHas
<1> QED BY <1>2, <1>3 DEF r

\* Where the exited shell of a pane is marked.
LEMMA MarkLeaves ==
    ASSUME NEW strip, GoodStrip(strip), NEW id
    PROVE  LET r == [i \in DOMAIN strip |->
                       [strip[i] EXCEPT !.layout = MarkLeafExited(@, id)]]
           IN  /\ \A k, u : TabLeaf(r, k, u) =>
                    \E j : /\ TabLeaf(strip, j, u) /\ k.id = j.id /\ k.kind = j.kind
                           /\ k = j \/ k.exited
                           /\ k.id = id => k.exited
               /\ \A l, u : TabHas(r, l, u) <=> TabHas(strip, l, u)
<1> DEFINE r == [i \in DOMAIN strip |->
                   [strip[i] EXCEPT !.layout = MarkLeafExited(@, id)]]
<1>1. \A i \in DOMAIN strip : strip[i] \in GoodTabs
  BY StripParts DEF GoodStrip
<1>2. DOMAIN r = DOMAIN strip
  OBVIOUS
<1>3. \A i \in DOMAIN strip :
        r[i] = [strip[i] EXCEPT !.layout = MarkLeafExited(strip[i].layout, id)]
  OBVIOUS
<1> HIDE DEF r
<1>4. \A i \in DOMAIN strip :
        /\ r[i].id = strip[i].id /\ strip[i].layout \in GoodLayouts
        /\ r[i].layout = MarkLeafExited(strip[i].layout, id)
  BY <1>1, <1>3 DEF GoodTabs
<1>5. ASSUME NEW L \in GoodLayouts, NEW k \in Range(MarkLeafExited(L, id))
      PROVE  \E j \in Range(L) : /\ k.id = j.id /\ k.kind = j.kind
                                 /\ k = j \/ k.exited
                                 /\ k.id = id => k.exited
  <2>1. PICK p \in DOMAIN L : k = IF L[p].id = id
                                  THEN [L[p] EXCEPT !.exited = TRUE] ELSE L[p]
    BY <1>5 DEF MarkLeafExited, Range
  <2>2. L[p] \in LeafType /\ L[p] \in Range(L)
    BY LayoutParts DEF GoodLayouts, Range
  <2>3. CASE L[p].id = id
    <3>1. k = [L[p] EXCEPT !.exited = TRUE]
      BY <2>1, <2>3
    <3>2. k.id = L[p].id /\ k.kind = L[p].kind /\ k.exited
      BY <2>2, <3>1 DEF LeafType
    <3> QED BY <2>2, <3>2
  <2>4. CASE L[p].id # id
    BY <2>1, <2>2, <2>4
  <2> QED BY <2>3, <2>4
<1>6. \A k, u : TabLeaf(r, k, u) =>
        \E j : /\ TabLeaf(strip, j, u) /\ k.id = j.id /\ k.kind = j.kind
               /\ k = j \/ k.exited
               /\ k.id = id => k.exited
  <2> SUFFICES ASSUME NEW k, NEW u, TabLeaf(r, k, u)
               PROVE  \E j : /\ TabLeaf(strip, j, u)
                             /\ k.id = j.id /\ k.kind = j.kind
                             /\ k = j \/ k.exited
                             /\ k.id = id => k.exited
    OBVIOUS
  <2>1. PICK i \in DOMAIN strip : r[i].id = u /\ k \in Range(r[i].layout)
    BY <1>2 DEF TabLeaf
  <2>2. PICK j \in Range(strip[i].layout) : /\ k.id = j.id /\ k.kind = j.kind
                                            /\ k = j \/ k.exited
                                            /\ k.id = id => k.exited
    BY <1>4, <1>5, <2>1
  <2>3. TabLeaf(strip, j, u)
    BY <1>4, <2>1, <2>2 DEF TabLeaf
  <2> QED BY <2>2, <2>3
<1>7. ASSUME NEW L \in GoodLayouts
      PROVE  CollectLeafIds(MarkLeafExited(L, id)) = CollectLeafIds(L)
  <2>1. IsTree(DOMAIN L) /\ \A p \in DOMAIN L : L[p] \in LeafType
    BY LayoutParts DEF GoodLayouts
  <2>2. \A p \in DOMAIN L : DOMAIN L[p] = {"id", "kind", "empty", "exited"}
    BY <2>1 DEF LeafType
  <2> QED BY <2>1, <2>2, MarkLeafExitedProperties
<1>8. \A l, u : TabHas(r, l, u) <=> TabHas(strip, l, u)
  BY <1>2, <1>4, <1>7 DEF TabHas
<1> QED BY <1>6, <1>8 DEF r

-----------------------------------------------------------------------------
(* What a step puts into the strip and takes out of it                     *)

\* The step puts only leaves of K into the strip.
Adds(K) == \A k \in LeavesOf(tabs') : k \in LeavesOf(tabs) \/ k \in K

\* The step takes only panes of G out of it.
Takes(G) == \A l \in Shown : l \in Shown' \/ l \in G

LEMMA AppendMoves ==
    ASSUME TabsInv, NEW t \in Tab, NEW L \in GoodLayouts,
           tabs' = Append(tabs, NewTab(t, L))
    PROVE  Adds(Range(L)) /\ Takes({}) /\ CollectLeafIds(L) \subseteq Shown'
<1> DEFINE n == NewTab(t, L)
<1>1. n \in GoodTabs /\ n.id = t /\ n.layout = L
  BY GoodTabIs
<1>2. GoodStrip(tabs)
  BY DEF TabsInv
<1>3. tabs' = Append(tabs, n)
  OBVIOUS
<1> HIDE DEF n
<1>4. /\ \A k, u : TabLeaf(tabs', k, u)
                     <=> TabLeaf(tabs, k, u) \/ (u = t /\ k \in Range(L))
      /\ \A l, u : TabHas(tabs', l, u)
                     <=> TabHas(tabs, l, u) \/ (u = t /\ l \in CollectLeafIds(L))
  BY <1>1, <1>2, <1>3, AppendLeaves
<1> QED BY <1>4, LeavesAre DEF Adds, Takes, Shown

LEMMA WithMoves ==
    ASSUME TabsInv, NEW t, NEW L, tabs' = WithLayout(tabs, t, L)
    PROVE  /\ \A k \in LeavesOf(tabs') :
                \/ k \in LeavesOf(tabs)
                \/ t \in TabIdsOf(tabs) /\ k \in Range(L)
           /\ \A l \in Shown :
                \/ l \in Shown'
                \/ TabHas(tabs, l, t) /\ l \notin CollectLeafIds(L)
           /\ t \in TabIdsOf(tabs) => CollectLeafIds(L) \subseteq Shown'
<1>1. GoodStrip(tabs)
  BY DEF TabsInv
<1>2. /\ \A k, u : TabLeaf(tabs', k, u)
            <=> \/ u # t /\ TabLeaf(tabs, k, u)
                \/ u = t /\ t \in TabIdsOf(tabs) /\ k \in Range(L)
      /\ \A l, u : TabHas(tabs', l, u)
            <=> \/ u # t /\ TabHas(tabs, l, u)
                \/ u = t /\ t \in TabIdsOf(tabs) /\ l \in CollectLeafIds(L)
  BY <1>1, WithLeaves
<1>3. \A k \in LeavesOf(tabs') : \/ k \in LeavesOf(tabs)
                                 \/ t \in TabIdsOf(tabs) /\ k \in Range(L)
  BY <1>2, LeavesAre
<1>4. ASSUME NEW l \in Shown, l \notin Shown'
      PROVE  TabHas(tabs, l, t) /\ l \notin CollectLeafIds(L)
  <2>1. PICK u : TabHas(tabs, l, u)
    BY LeavesAre DEF Shown
  <2>2. \A w : ~TabHas(tabs', l, w)
    BY <1>4, LeavesAre DEF Shown
  <2> QED BY <1>2, <2>1, <2>2, TabHasTab
<1>5. t \in TabIdsOf(tabs) => CollectLeafIds(L) \subseteq Shown'
  BY <1>2, LeavesAre DEF Shown
<1> QED BY <1>3, <1>4, <1>5

LEMMA WithoutMoves ==
    ASSUME TabsInv, NEW t, NEW ids, Without(t, ids)
    PROVE  /\ Adds({})
           /\ \A l \in Shown : l \in Shown' \/ TabHas(tabs, l, t)
<1>1. GoodStrip(tabs) /\ tabs' = WithoutTab(tabs, t)
  BY DEF TabsInv, Without
<1>2. /\ \A k, u : TabLeaf(tabs', k, u) <=> TabLeaf(tabs, k, u) /\ u # t
      /\ \A l, u : TabHas(tabs', l, u) <=> TabHas(tabs, l, u) /\ u # t
  BY <1>1, RemoveLeaves
<1> QED BY <1>2, LeavesAre DEF Adds, Shown

LEMMA ClosedLeaves ==
    ASSUME NEW L \in GoodLayouts, NEW id
    PROVE  /\ Range(CloseLeaf(L, id)) \subseteq Range(L)
           /\ CollectLeafIds(L) \subseteq CollectLeafIds(CloseLeaf(L, id)) \cup {id}
<1>1. IsTree(DOMAIN L)
  BY LayoutParts DEF GoodLayouts
<1>2. LET M == CloseLeaf(L, id)
      IN  /\ \A q \in DOMAIN M : \E p \in DOMAIN L : M[q] = L[p]
          /\ CollectLeafIds(L) \subseteq CollectLeafIds(M) \cup {id}
  BY <1>1, CloseLeafProperties
<1> QED BY <1>2 DEF Range

LEMMA WriteClosedMoves ==
    ASSUME TabsInv, NEW id, NEW t, NEW L \in GoodLayouts, WriteClosed(id, t, L)
    PROVE  /\ Adds(Range(L))
           /\ \A l \in Shown :
                \/ l \in Shown'
                \/ TabHas(tabs, l, t) /\ (l = id \/ l \notin CollectLeafIds(L))
<1> DEFINE M == CloseLeaf(L, id)
<1>1. tabs' = WithLayout(tabs, t, M)
  BY DEF WriteClosed
<1>2. /\ Range(M) \subseteq Range(L)
      /\ CollectLeafIds(L) \subseteq CollectLeafIds(M) \cup {id}
  BY ClosedLeaves
<1> HIDE DEF M
<1> QED BY <1>1, <1>2, WithMoves DEF Adds

\* The call's target is there.
Target(c) == /\ op[c].tab \in TabIdsOf(tabs)
             /\ HasLeaf(TabOf(tabs, op[c].tab).layout, op[c].leaf)

LEMMA SplitWithMoves ==
    ASSUME TabsInv, NEW c \in Call, NEW leaf, SplitWith(c, leaf)
    PROVE  Adds({leaf}) /\ Takes({}) /\ (Target(c) => leaf.id \in Shown')
<1> DEFINE L == TabOf(tabs, op[c].tab).layout
           M == SplitLeaf(L, op[c].leaf, leaf)
           t == op[c].tab
<1>1. tabs' = WithLayout(tabs, t, M)
  BY DEF SplitWith
<1>2. ASSUME t \in TabIdsOf(tabs)
      PROVE  /\ Range(M) \subseteq Range(L) \cup {leaf}
             /\ CollectLeafIds(L) \subseteq CollectLeafIds(M)
             /\ HasLeaf(L, op[c].leaf) => leaf.id \in CollectLeafIds(M)
             /\ \A k \in Range(L) : TabLeaf(tabs, k, t)
             /\ \A l : TabHas(tabs, l, t) => l \in CollectLeafIds(L)
  <2>1. GoodStrip(tabs)
    BY DEF TabsInv
  <2>2. L \in GoodLayouts
    BY <1>2, <2>1, TabOfParts
  <2>3. IsTree(DOMAIN L)
    BY <2>2, LayoutParts DEF GoodLayouts
  <2>4. /\ \A p \in DOMAIN M : M[p] = leaf \/ \E q \in DOMAIN L : M[p] = L[q]
        /\ CollectLeafIds(L) \subseteq CollectLeafIds(M)
        /\ HasLeaf(L, op[c].leaf) => leaf.id \in CollectLeafIds(M)
    BY <2>3, SplitLeafProperties
  <2>5. /\ \A k \in Range(L) : TabLeaf(tabs, k, t)
        /\ \A l : TabHas(tabs, l, t) => l \in CollectLeafIds(L)
    BY <1>2, <2>1, TabHasIs
  <2> QED BY <2>4, <2>5 DEF Range
<1> HIDE DEF M, L, t
<1>3. /\ \A k \in LeavesOf(tabs') : \/ k \in LeavesOf(tabs)
                                    \/ t \in TabIdsOf(tabs) /\ k \in Range(M)
      /\ \A l \in Shown : \/ l \in Shown'
                          \/ TabHas(tabs, l, t) /\ l \notin CollectLeafIds(M)
      /\ t \in TabIdsOf(tabs) => CollectLeafIds(M) \subseteq Shown'
  BY <1>1, WithMoves
<1>4. Adds({leaf})
  BY <1>2, <1>3, LeavesAre DEF Adds
<1>5. Takes({})
  BY <1>2, <1>3, TabHasTab DEF Takes
<1>6. Target(c) => leaf.id \in Shown'
  BY <1>2, <1>3 DEF Target, t, L
<1> QED BY <1>4, <1>5, <1>6

LEMMA ReplaceEmptyMoves ==
    ASSUME TabsInv, NEW c \in Call, ReplaceEmpty(c)
    PROVE  /\ Adds({Opened(c)}) /\ Takes({op[c].leaf})
           /\ Target(c) => Opened(c).id \in Shown'
<1> DEFINE L == TabOf(tabs, op[c].tab).layout
           M == ReplaceLeafNode(L, op[c].leaf, Opened(c))
           t == op[c].tab
<1>1. tabs' = WithLayout(tabs, t, M)
  BY DEF ReplaceEmpty
<1>2. /\ DOMAIN M = DOMAIN L
      /\ \A p \in DOMAIN L : M[p] \in {L[p], Opened(c)}
      /\ CollectLeafIds(L) \subseteq CollectLeafIds(M) \cup {op[c].leaf}
      /\ HasLeaf(L, op[c].leaf) => Opened(c).id \in CollectLeafIds(M)
  BY ReplaceLeafNodeProperties
<1>3. Range(M) \subseteq Range(L) \cup {Opened(c)}
  BY <1>2 DEF Range
<1>4. ASSUME t \in TabIdsOf(tabs)
      PROVE  /\ \A k \in Range(L) : TabLeaf(tabs, k, t)
             /\ \A l : TabHas(tabs, l, t) => l \in CollectLeafIds(L)
  BY <1>4, TabHasIs DEF TabsInv
<1> HIDE DEF M, L, t
<1>5. /\ \A k \in LeavesOf(tabs') : \/ k \in LeavesOf(tabs)
                                    \/ t \in TabIdsOf(tabs) /\ k \in Range(M)
      /\ \A l \in Shown : \/ l \in Shown'
                          \/ TabHas(tabs, l, t) /\ l \notin CollectLeafIds(M)
      /\ t \in TabIdsOf(tabs) => CollectLeafIds(M) \subseteq Shown'
  BY <1>1, WithMoves
<1>6. Adds({Opened(c)})
  BY <1>3, <1>4, <1>5, LeavesAre DEF Adds
<1>7. Takes({op[c].leaf})
  BY <1>2, <1>4, <1>5, TabHasTab DEF Takes
<1>8. Target(c) => Opened(c).id \in Shown'
  BY <1>2, <1>5 DEF Target, t, L
<1> QED BY <1>6, <1>7, <1>8

-----------------------------------------------------------------------------
(* The steps that may change the strip                                     *)

LEMMA StripSteps ==
    ASSUME Next
    PROVE  \/ UNCHANGED tabs
           \/ \E c \in Call :
                \/ AddAgentTab(c) \/ AddShellTab(c) \/ CloseTab(c)
                \/ CloseTabNoReSeed(c) \/ SplitPane(c) \/ ClosePane(c)
                \/ HydrateSeed(c) \/ HydrateFinish(c) \/ LaunchFinish(c)
                \/ ReplaceEmpty(c) \/ Reset(c)
           \/ \E c \in Call, id \in Leaf \cup Pending : ClosePaneStart(c, id)
           \/ \E id \in Leaf : StopAgentPane(id) \/ PtyExited(id)
           \/ Relaunch
<1>1. CASE Inputs
  BY Zenon, <1>1 DEF Inputs, AddTabStart, CloseTabStart, SplitPaneStart,
     ReplaceEmptyStart, ApplyPaneLayout, MountForLaunch, HydrateStart,
     ResetStart, SetActiveTab, FocusPane, SetFocusedLeaf, ToggleMaximize,
     RestoreMaximize, CloseWindow, ui
<1>2. CASE Answers
  BY Zenon, <1>2 DEF Answers, OpenTerminal, OpenTerminalFails, HydrateOpen, LaunchOpen,
     ReplaceEmptySendFails, ui
<1>3. CASE Exits
  BY <1>3 DEF Exits, PtyExits, ui
<1> QED BY <1>1, <1>2, <1>3 DEF Next

\* A call that ends is another.
LEMMA CallEnds ==
    ASSUME TabsInv, NEW c \in Call, op[c].call # "none",
           \/ Done(c)
           \/ op' = [d \in Call |-> Idle]
    PROVE  op'[c] = Idle /\ op'[c] # op[c]
<1>1. op \in [Call -> GoodCalls]
  BY CallIs
<1> QED BY <1>1, IdleIs DEF Done

LEMMA CloseTabEnds ==
    ASSUME TabsInv, NEW c \in Call, CloseTab(c) \/ CloseTabNoReSeed(c)
    PROVE  Finishes(c, {"closeTab", "closeTabNoReSeed"})
<1>1. op \in [Call -> GoodCalls] /\ op[c].call \in {"closeTab", "closeTabNoReSeed"}
  BY CallIs DEF CloseTab, CloseTabNoReSeed
<1>2. op'[c].call \in {"none", "addTab"}
  BY <1>1, IdleIs DEF CloseTab, CloseTabNoReSeed, Done, WindowGone, Idle
<1> QED BY <1>1, <1>2 DEF Finishes

\* What a call that opens one shell has got.
LEMMA OpenedHand ==
    ASSUME TabsInv, NEW c \in Call, op[c].call \in OpensOne, op[c].got # <<>>
    PROVE  /\ Opened(c) \in LeafType /\ Opened(c).id \in Leaf
           /\ Opened(c).kind = "shell"
           /\ LeafIdsOf(op[c].got) = {Opened(c).id}
           /\ LeavesOf(op[c].got) = {Opened(c)}
<1>1. op[c] \in GoodCalls
  BY CallIs
<1>2. PICK leaf \in LeafType :
        /\ leaf.kind = "shell" /\ leaf.id \in Leaf
        /\ op[c].got = <<NewTab(None, SingleLeaf(leaf))>>
  BY <1>1, CallParts DEF CallOK
<1> DEFINE L == SingleLeaf(leaf)
<1>3. /\ L \in Layouts /\ CollectLeafIds(L) = {leaf.id} /\ L[<<>>] = leaf
      /\ Range(L) = {leaf}
  BY <1>2, SingleIsGood, SingleLeaves
<1> HIDE DEF L
<1>4. NewTab(None, L).layout = L
  BY <1>3, NamelessTabIs
<1>5. op[c].got = <<NewTab(None, L)>>
  BY <1>2 DEF L
<1>6. /\ op[c].got[1].layout = L /\ LeafIdsOf(op[c].got) = {leaf.id}
      /\ LeavesOf(op[c].got) = {leaf}
  BY <1>3, <1>4, <1>5, OneTab, OneTabLeaves
<1> QED BY <1>2, <1>3, <1>6 DEF Opened

\* What a launch has got.
LEMMA LaunchedHand ==
    ASSUME TabsInv, NEW c \in Call, op[c].call \in {"launch", "launched"}
    PROVE  \E L \in GoodLayouts :
             /\ op[c].got = <<NewTab(None, L)>> /\ op[c].got[1].layout = L
             /\ LeafIdsOf(op[c].got) = CollectLeafIds(L)
             /\ LeavesOf(op[c].got) = Range(L)
<1>1. PICK L \in GoodLayouts : op[c].got = <<NewTab(None, L)>>
  BY CallIs DEF CallOK
<1>2. NewTab(None, L).layout = L
  BY DEF NewTab
<1> QED BY <1>1, <1>2, OneTab, OneTabLeaves

\* A new tab of one agent.
LEMMA AgentTabMoves ==
    ASSUME TabsInv, NEW l \in FreshLeaf, NEW t \in FreshTab,
           Appended(NewTab(t, SingleLeaf(NewLeaf(l, "agent"))), l)
    PROVE  Adds({NewLeaf(l, "agent")}) /\ Takes({})
<1> DEFINE leaf == NewLeaf(l, "agent")
           L == SingleLeaf(leaf)
<1>1. l \in Leaf /\ l \in Ids /\ t \in Tab
  BY FreshLeafParts, FreshTabParts
<1>2. leaf \in LeafType /\ leaf.id = l
  BY <1>1, NewLeafIs
<1> HIDE DEF leaf
<1>3. L \in GoodLayouts /\ Range(L) = {leaf}
  BY <1>1, <1>2, SingleIsGood, SingleLeaves
<1>4. tabs' = Append(tabs, NewTab(t, L))
  BY DEF Appended, leaf
<1> HIDE DEF L
<1>5. Adds(Range(L)) /\ Takes({})
  BY <1>1, <1>3, <1>4, AppendMoves
<1> QED BY <1>3, <1>5 DEF leaf

LEMMA AddShellTabMoves ==
    ASSUME TabsInv, NEW c \in Call, AddShellTab(c)
    PROVE  Adds({Opened(c)}) /\ Takes({}) /\ Opened(c).id \in Shown'
<1>1. PICK t \in FreshTab :
        Appended(NewTab(t, SingleLeaf(Opened(c))), Opened(c).id)
  BY DEF AddShellTab
<1> DEFINE leaf == Opened(c)
           L == SingleLeaf(leaf)
<1>2. leaf \in LeafType /\ leaf.id \in Leaf
  BY OpenedHand DEF AddShellTab, OpensOne
<1> HIDE DEF leaf
<1>3. /\ L \in GoodLayouts /\ CollectLeafIds(L) = {leaf.id} /\ t \in Tab
      /\ Range(L) = {leaf}
  BY <1>2, SingleIsGood, SingleLeaves, FreshTabParts
<1>4. tabs' = Append(tabs, NewTab(t, L))
  BY <1>1 DEF Appended, leaf
<1> HIDE DEF L
<1>5. Adds(Range(L)) /\ Takes({}) /\ CollectLeafIds(L) \subseteq Shown'
  BY <1>3, <1>4, AppendMoves
<1> QED BY <1>3, <1>5 DEF leaf

LEMMA LaunchFinishMoves ==
    ASSUME TabsInv, NEW c \in Call, LaunchFinish(c)
    PROVE  /\ Adds(LeavesOf(op[c].got)) /\ Takes({})
           /\ LeafIdsOf(op[c].got) \subseteq Shown'
<1>1. PICK t \in FreshTab : tabs' = Append(tabs, NewTab(t, op[c].got[1].layout))
  BY DEF LaunchFinish
<1>2. PICK L \in GoodLayouts : /\ op[c].got[1].layout = L
                               /\ LeafIdsOf(op[c].got) = CollectLeafIds(L)
                               /\ LeavesOf(op[c].got) = Range(L)
  BY LaunchedHand DEF LaunchFinish
<1>3. tabs' = Append(tabs, NewTab(t, L)) /\ t \in Tab
  BY <1>1, <1>2, FreshTabParts
<1>4. Adds(Range(L)) /\ Takes({}) /\ CollectLeafIds(L) \subseteq Shown'
  BY <1>3, AppendMoves
<1> QED BY <1>2, <1>4

\* A pane that is new in the strip is one of the leaves added.
LEMMA AddedIds ==
    ASSUME NEW K, Adds(K)
    PROVE  \A l \in Shown' : l \in Shown \/ \E k \in K : k.id = l
BY LeavesAre DEF Adds, Shown

-----------------------------------------------------------------------------
(* A pane whose id is that of a running PTY is a shell's                   *)

\* The leaves that a call has in hand, and those that anyone has.
Hand(x)  == Range(x.seen) \cup LeavesOf(x.got)
Known(k) == k \in LeavesOf(tabs) \/ \E c \in Call : k \in Hand(op[c])

KindsInv == \A k : Known(k) /\ k.id \in pty => k.kind = "shell"

\* The step may let a call, or the strip, have the leaf.
Fits(k) == Known(k) \/ (k.id \in pty' => k.kind = "shell")

LEMMA FreshUnknown ==
    ASSUME NEW l \in FreshLeaf
    PROVE  l \notin pty /\ \A k : Known(k) => k.id # l
<1>1. /\ l \notin pty /\ l \notin LeafIdsOf(tabs)
      /\ \A c \in Call : l \notin CollectLeafIds(op[c].seen)
                         /\ l \notin LeafIdsOf(op[c].got)
  BY DEF FreshLeaf
<1>2. \A k \in LeavesOf(tabs) : k.id \in LeafIdsOf(tabs)
  BY LeavesAre
<1>3. \A c \in Call : \A k \in Hand(op[c]) :
        k.id \in CollectLeafIds(op[c].seen) \/ k.id \in LeafIdsOf(op[c].got)
  BY LeavesAre, IdsOfLeaves DEF Hand
<1> QED BY <1>1, <1>2, <1>3 DEF Known

LEMMA KindsStep ==
    ASSUME TabsInv, KindsInv, NEW N \in SUBSET FreshLeaf, pty' \subseteq pty \cup N,
           \A k \in LeavesOf(tabs') : Fits(k),
           \A d \in Call : op'[d] = op[d] \/ \A k \in Hand(op'[d]) : Fits(k)
    PROVE  KindsInv'
<1> SUFFICES ASSUME NEW k, Known(k)', k.id \in pty'
             PROVE  k.kind = "shell"
  BY DEF KindsInv
<1>1. Fits(k)
  <2>1. \A d \in Call : k \in Hand(op[d]) => Fits(k)
    BY DEF Fits, Known
  <2> QED BY <2>1 DEF Known, Hand
<1>2. CASE Known(k)
  <2>1. k.id \notin N
    BY <1>2, FreshUnknown
  <2> QED BY <1>2, <2>1 DEF KindsInv
<1> QED BY <1>1, <1>2 DEF Fits

\* Only one call goes on, and the PTYs are no more than there were.
LEMMA KindsOfCall ==
    ASSUME TabsInv, KindsInv, NEW c \in Call, NEW x,
           op' = [op EXCEPT ![c] = x], pty' \subseteq pty,
           \A k \in Hand(x) : Fits(k), \A k \in LeavesOf(tabs') : Fits(k)
    PROVE  KindsInv'
<1>1. op'[c] = x /\ \A d \in Call : d # c => op'[d] = op[d]
  BY CallIs
<1>2. \A d \in Call : op'[d] = op[d] \/ \A k \in Hand(op'[d]) : Fits(k)
  BY <1>1
<1>3. pty' \subseteq pty \cup {}
  OBVIOUS
<1> QED BY <1>2, <1>3, KindsStep

LEMMA KindsOfIdle ==
    ASSUME TabsInv, KindsInv, \A d \in Call : op'[d] = op[d] \/ op'[d] = Idle,
           pty' \subseteq pty, \A k \in LeavesOf(tabs') : Fits(k)
    PROVE  KindsInv'
<1>1. Hand(Idle) = {}
  BY NoLeaves DEF Hand, Idle
<1>2. \A d \in Call : op'[d] = op[d] \/ \A k \in Hand(op'[d]) : Fits(k)
  BY <1>1
<1>3. pty' \subseteq pty \cup {}
  OBVIOUS
<1> QED BY <1>2, <1>3, KindsStep

LEMMA EmptyHand ==
    ASSUME NEW x, x.seen = NoLayout, x.got = <<>>
    PROVE  \A k \in Hand(x) : Fits(k)
BY NoLeaves DEF Hand

LEMMA StripFits ==
    ASSUME UNCHANGED tabs
    PROVE  \A k \in LeavesOf(tabs') : Fits(k)
BY DEF Fits, Known

LEMMA AddsFit ==
    ASSUME NEW K, Adds(K), \A k \in K : Fits(k)
    PROVE  \A k \in LeavesOf(tabs') : Fits(k)
BY DEF Adds, Fits, Known

LEMMA GotFits ==
    ASSUME NEW c \in Call, NEW k \in Hand(op[c])
    PROVE  Fits(k)
BY DEF Fits, Known

LEMMA TabFits ==
    ASSUME TabsInv, NEW t \in TabIdsOf(tabs)
    PROVE  \A k \in Range(TabOf(tabs, t).layout) : k \in LeavesOf(tabs) /\ Fits(k)
<1>1. GoodStrip(tabs)
  BY DEF TabsInv
<1> QED BY <1>1, TabHasIs, LeavesAre DEF Fits, Known

\* A leaf for an agent has an id that no PTY has.
LEMMA AgentFits ==
    ASSUME NEW l \in FreshLeaf, pty' \subseteq pty
    PROVE  Fits(NewLeaf(l, "agent"))
<1>1. l \notin pty
  BY FreshUnknown
<1> QED BY <1>1 DEF Fits, NewLeaf

LEMMA ShellFits ==
    ASSUME NEW l
    PROVE  Fits(NewLeaf(l, "shell"))
BY DEF Fits, NewLeaf

\* A leaf without the id of a PTY.
LEMMA StrangerFits ==
    ASSUME TabsInv', NEW k, k.id \notin Leaf
    PROVE  Fits(k)
BY DEF Fits, TabsInv, Rest

LEMMA AddTabStartKinds ==
    ASSUME TabsInv, KindsInv, NEW c \in Call, NEW kind, AddTabStart(c, kind)
    PROVE  KindsInv'
<1> DEFINE x == [Idle EXCEPT !.call = "addTab", !.pane = kind]
<1>1. op' = [op EXCEPT ![c] = x] /\ tabs' = tabs /\ pty' \subseteq pty
  BY DEF AddTabStart, ui
<1>2. x.seen = NoLayout /\ x.got = <<>>
  BY DEF Idle
<1> HIDE DEF x
<1> QED BY <1>1, <1>2, EmptyHand, StripFits, KindsOfCall

LEMMA SplitPaneStartKinds ==
    ASSUME TabsInv, KindsInv, NEW c \in Call, NEW id, NEW kind,
           SplitPaneStart(c, id, kind)
    PROVE  KindsInv'
<1> DEFINE x == [Idle EXCEPT !.call = "splitPane", !.tab = activeTabId,
                             !.leaf = id, !.pane = kind]
<1>1. op' = [op EXCEPT ![c] = x] /\ tabs' = tabs /\ pty' \subseteq pty
  BY DEF SplitPaneStart, ui
<1>2. x.seen = NoLayout /\ x.got = <<>>
  BY DEF Idle
<1> HIDE DEF x
<1> QED BY <1>1, <1>2, EmptyHand, StripFits, KindsOfCall

LEMMA ReplaceEmptyStartKinds ==
    ASSUME TabsInv, KindsInv, NEW c \in Call, NEW id, ReplaceEmptyStart(c, id)
    PROVE  KindsInv'
<1> DEFINE x == [Idle EXCEPT !.call = "replaceEmptyLeaf", !.tab = activeTabId,
                             !.leaf = id, !.pane = "shell"]
<1>1. op' = [op EXCEPT ![c] = x] /\ tabs' = tabs /\ pty' \subseteq pty
  BY DEF ReplaceEmptyStart, ui
<1>2. x.seen = NoLayout /\ x.got = <<>>
  BY DEF Idle
<1> HIDE DEF x
<1> QED BY <1>1, <1>2, EmptyHand, StripFits, KindsOfCall

LEMMA ClosingFits ==
    ASSUME TabsInv, NEW t \in TabIdsOf(tabs), NEW call
    PROVE  \A k \in Hand(Closing(t, call)) : Fits(k)
<1> DEFINE x == Closing(t, call)
<1>1. x.seen = TabOf(tabs, t).layout /\ x.got = <<>>
  BY DEF Closing, Idle
<1> HIDE DEF x
<1>2. \A k \in Hand(x) : k \in Range(TabOf(tabs, t).layout)
  BY <1>1, NoLeaves DEF Hand
<1> QED BY <1>2, TabFits DEF x

LEMMA CloseTabStartKinds ==
    ASSUME TabsInv, KindsInv, NEW c \in Call, NEW id, CloseTabStart(c, id)
    PROVE  KindsInv'
<1>1. PICK call : op' = [op EXCEPT ![c] = Closing(id, call)]
  BY DEF CloseTabStart
<1>2. tabs' = tabs /\ pty' \subseteq pty /\ id \in TabIdsOf(tabs)
  BY DEF CloseTabStart, ui
<1> QED BY <1>1, <1>2, ClosingFits, StripFits, KindsOfCall

LEMMA ClosePaneStartKinds ==
    ASSUME TabsInv, KindsInv, NEW c \in Call, NEW id, ClosePaneStart(c, id)
    PROVE  KindsInv'
<1> DEFINE seen == TabOf(tabs, activeTabId).layout
<1>1. activeTabId \in TabIdsOf(tabs) /\ seen \in GoodLayouts /\ pty' \subseteq pty
  BY ShownTab DEF ClosePaneStart
<1>2. \A k \in Range(seen) : Fits(k)
  BY <1>1, TabFits
<1>3. CASE HasLeaf(seen, id) /\ FindLeaf(seen, id).kind = "agent"
           /\ IsLastLeaf(seen, id)
  <2>1. op' = [op EXCEPT ![c] = Closing(activeTabId, "closeTab")] /\ tabs' = tabs
    BY <1>3 DEF ClosePaneStart, ui
  <2> QED BY <1>1, <2>1, ClosingFits, StripFits, KindsOfCall
<1>4. CASE HasLeaf(seen, id) /\ FindLeaf(seen, id).kind = "agent"
           /\ ~IsLastLeaf(seen, id)
  <2>1. WriteClosed(id, activeTabId, seen) /\ op' = op
    BY <1>4 DEF ClosePaneStart
  <2> HIDE DEF seen
  <2>2. Adds(Range(seen))
    BY <1>1, <2>1, WriteClosedMoves
  <2>3. \A k \in LeavesOf(tabs') : Fits(k)
    BY <1>2, <2>2, AddsFit
  <2> QED BY <1>1, <2>1, <2>3, KindsOfIdle
<1>5. CASE ~(HasLeaf(seen, id) /\ FindLeaf(seen, id).kind = "agent")
  <2> DEFINE x == [Idle EXCEPT !.call = "closePane", !.tab = activeTabId,
                               !.leaf = id, !.seen = seen]
  <2>1. op' = [op EXCEPT ![c] = x] /\ tabs' = tabs
    BY <1>5 DEF ClosePaneStart, ui
  <2> HIDE DEF seen
  <2>2. x.seen = seen /\ x.got = <<>>
    BY DEF Idle
  <2> HIDE DEF x
  <2>3. \A k \in Hand(x) : Fits(k)
    BY <1>2, <2>2, NoLeaves DEF Hand
  <2> QED BY <1>1, <2>1, <2>3, StripFits, KindsOfCall
<1> QED BY <1>3, <1>4, <1>5

LEMMA SavedFit ==
    ASSUME TabsInv, TabsInv'
    PROVE  \A k \in LeavesOf(saved.tabs) : Fits(k)
<1>1. \A k \in LeavesOf(saved.tabs) : k.id = None
  BY SavedIs, LeavesAre
<1>2. None \notin Leaf
  BY TabsAssumption DEF TabsAssumption
<1> QED BY <1>1, <1>2, StrangerFits

LEMMA HydrateStartKinds ==
    ASSUME TabsInv, TabsInv', KindsInv, NEW c \in Call, HydrateStart(c)
    PROVE  KindsInv'
<1> DEFINE x == Reading
<1>1. op' = [op EXCEPT ![c] = x] /\ tabs' = tabs /\ pty' \subseteq pty
  BY DEF HydrateStart, ui
<1>2. x.seen = NoLayout /\ x.got = saved.tabs
  BY DEF Reading, Idle
<1> HIDE DEF x
<1>3. \A k \in Hand(x) : Fits(k)
  BY <1>2, SavedFit, NoLeaves DEF Hand
<1> QED BY <1>1, <1>3, StripFits, KindsOfCall

LEMMA LaunchingKinds ==
    ASSUME TabsInv, TabsInv', KindsInv, NEW c \in Call, NEW spec \in Launch,
           op' = [op EXCEPT ![c] = Launching(spec)], UNCHANGED <<tabs, pty>>
    PROVE  KindsInv'
<1> DEFINE L == BuildPaneLayout(spec)
           x == Launching(spec)
<1>1. L \in GoodLayouts /\ CollectLeafIds(L) \subseteq Pending
  BY TemplateIsGood DEF IsTemplate
<1>2. x.seen = NoLayout /\ x.got = <<NewTab(None, L)>>
  BY DEF Launching, Idle
<1> HIDE DEF L, x
<1>3. NewTab(None, L).layout = L
  BY DEF NewTab
<1>4. Leaf \cap Pending = {}
  BY TabsAssumption DEF TabsAssumption
<1>5. \A k \in Hand(x) : k.id \in Pending
  BY <1>1, <1>2, <1>3, NoLeaves, OneTabLeaves, IdsOfLeaves DEF Hand
<1>6. \A k \in Hand(x) : Fits(k)
  BY <1>4, <1>5, StrangerFits
<1>7. op' = [op EXCEPT ![c] = x] /\ tabs' = tabs /\ pty' \subseteq pty
  BY DEF x
<1> QED BY <1>6, <1>7, StripFits, KindsOfCall

LEMMA ResetStartKinds ==
    ASSUME TabsInv, KindsInv, NEW c \in Call, ResetStart(c)
    PROVE  KindsInv'
<1> DEFINE x == [Idle EXCEPT !.call = "reset", !.got = tabs]
<1>1. op' = [op EXCEPT ![c] = x] /\ tabs' = tabs /\ pty' \subseteq pty
  BY DEF ResetStart, ui
<1>2. x.seen = NoLayout /\ x.got = tabs
  BY DEF Idle
<1> HIDE DEF x
<1>3. \A k \in Hand(x) : Fits(k)
  BY <1>2, NoLeaves DEF Hand, Fits, Known
<1> QED BY <1>1, <1>3, StripFits, KindsOfCall

LEMMA AddAgentTabKinds ==
    ASSUME TabsInv, KindsInv, NEW c \in Call, AddAgentTab(c) \/ HydrateSeed(c)
    PROVE  KindsInv'
<1>1. PICK l \in FreshLeaf, t \in FreshTab :
        Appended(NewTab(t, SingleLeaf(NewLeaf(l, "agent"))), l)
  BY DEF AddAgentTab, HydrateSeed
<1>2. op' = [op EXCEPT ![c] = Idle] /\ pty' \subseteq pty
  BY DEF AddAgentTab, HydrateSeed, Done
<1>3. Adds({NewLeaf(l, "agent")})
  BY <1>1, AgentTabMoves
<1>4. \A k \in {NewLeaf(l, "agent")} : Fits(k)
  BY <1>2, AgentFits
<1>5. \A k \in LeavesOf(tabs') : Fits(k)
  BY <1>3, <1>4, AddsFit
<1>6. \A d \in Call : op'[d] = op[d] \/ op'[d] = Idle
  BY <1>2, CallIs
<1> QED BY <1>2, <1>5, <1>6, KindsOfIdle

LEMMA OpenTerminalKinds ==
    ASSUME TabsInv, KindsInv, NEW c \in Call, OpenTerminal(c)
    PROVE  KindsInv'
<1>1. PICK l \in FreshLeaf :
        /\ pty' = pty \cup {l}
        /\ op' = [op EXCEPT ![c].got =
                    <<NewTab(None, SingleLeaf(NewLeaf(l, "shell")))>>]
  BY DEF OpenTerminal
<1> DEFINE leaf == NewLeaf(l, "shell")
           L == SingleLeaf(leaf)
           got == <<NewTab(None, L)>>
           x == [op[c] EXCEPT !.got = got]
<1>2. op \in [Call -> GoodCalls] /\ op[c] \in Calls
  BY CallIs
<1>3. op'[c] = x /\ \A d \in Call : d # c => op'[d] = op[d]
  BY <1>1, <1>2
<1>4. LeavesOf(got) = {leaf}
  <2>1. Range(L) = {leaf}
    BY SingleLeaves
  <2> HIDE DEF L
  <2>2. NewTab(None, L).layout = L
    BY DEF NewTab
  <2> QED BY <2>1, <2>2, OneTabLeaves
<1> HIDE DEF got
<1>5. x.seen = op[c].seen /\ x.got = got
  BY <1>2 DEF Calls
<1> HIDE DEF x
<1>6. \A k \in Range(op[c].seen) : Fits(k)
  BY GotFits DEF Hand
<1>7. \A k \in Hand(x) : Fits(k)
  BY <1>4, <1>5, <1>6, ShellFits DEF Hand
<1>8. \A d \in Call : op'[d] = op[d] \/ \A k \in Hand(op'[d]) : Fits(k)
  BY <1>3, <1>7
<1>9. {l} \in SUBSET FreshLeaf /\ pty' \subseteq pty \cup {l} /\ tabs' = tabs
  BY <1>1 DEF OpenTerminal, ui
<1> QED BY <1>8, <1>9, StripFits, KindsStep

LEMMA CallEndsKinds ==
    ASSUME TabsInv, KindsInv, NEW c \in Call,
           OpenTerminalFails(c) \/ ReplaceEmptySendFails(c)
    PROVE  KindsInv'
<1>1. /\ op' = [op EXCEPT ![c] = Idle] /\ pty' \subseteq pty /\ tabs' = tabs
  BY DEF OpenTerminalFails, ReplaceEmptySendFails, Done, ui
<1>2. \A d \in Call : op'[d] = op[d] \/ op'[d] = Idle
  BY <1>1, CallIs
<1> QED BY <1>1, <1>2, StripFits, KindsOfIdle

LEMMA OpenedFits ==
    ASSUME TabsInv, NEW c \in Call, op[c].call \in OpensOne, op[c].got # <<>>
    PROVE  \A k \in {Opened(c)} : Fits(k)
BY OpenedHand DEF Fits

LEMMA ShellPlacedKinds ==
    ASSUME TabsInv, KindsInv, NEW c \in Call, AddShellTab(c) \/ ReplaceEmpty(c)
    PROVE  KindsInv'
<1>1. op' = [op EXCEPT ![c] = Idle] /\ pty' \subseteq pty
  BY DEF AddShellTab, ReplaceEmpty, Done
<1>2. Adds({Opened(c)})
  BY AddShellTabMoves, ReplaceEmptyMoves
<1>3. \A k \in {Opened(c)} : Fits(k)
  BY OpenedFits DEF AddShellTab, ReplaceEmpty, OpensOne
<1>4. \A k \in LeavesOf(tabs') : Fits(k)
  BY <1>2, <1>3, AddsFit
<1>5. \A d \in Call : op'[d] = op[d] \/ op'[d] = Idle
  BY <1>1, CallIs
<1> QED BY <1>1, <1>4, <1>5, KindsOfIdle

LEMMA SplitPaneKinds ==
    ASSUME TabsInv, KindsInv, NEW c \in Call, SplitPane(c)
    PROVE  KindsInv'
<1>1. PICK leaf : /\ SplitWith(c, leaf)
                  /\ \/ \E l \in FreshLeaf : leaf = NewLeaf(l, "agent")
                     \/ op[c].got # <<>> /\ leaf = Opened(c)
  BY DEF SplitPane
<1>2. op' = [op EXCEPT ![c] = Idle] /\ pty' \subseteq pty
  BY <1>1 DEF SplitWith, Done
<1>3. Adds({leaf})
  BY <1>1, SplitWithMoves
<1>4. \A k \in {leaf} : Fits(k)
  BY <1>1, <1>2, AgentFits, OpenedFits DEF SplitPane, OpensOne
<1>5. \A k \in LeavesOf(tabs') : Fits(k)
  BY <1>3, <1>4, AddsFit
<1>6. \A d \in Call : op'[d] = op[d] \/ op'[d] = Idle
  BY <1>2, CallIs
<1> QED BY <1>2, <1>5, <1>6, KindsOfIdle

LEMMA CloseTabKinds ==
    ASSUME TabsInv, KindsInv, NEW c \in Call, CloseTab(c) \/ CloseTabNoReSeed(c)
    PROVE  KindsInv'
<1>1. Without(op[c].tab, Unmaximized(c)) /\ pty' \subseteq pty
  BY DEF CloseTab, CloseTabNoReSeed, Kill
<1>2. Adds({})
  BY <1>1, WithoutMoves
<1>3. \A k \in LeavesOf(tabs') : Fits(k)
  BY <1>2, AddsFit
<1> DEFINE seed == [Idle EXCEPT !.call = "addTab"]
<1>4. seed.seen = NoLayout /\ seed.got = <<>> /\ Idle.seen = NoLayout /\ Idle.got = <<>>
  BY DEF Idle
<1>5. \/ \E x \in {Idle, seed} : op' = [op EXCEPT ![c] = x]
      \/ op' = [d \in Call |-> Idle]
  BY DEF CloseTab, CloseTabNoReSeed, Done, WindowGone
<1> HIDE DEF seed
<1>6. CASE \E x \in {Idle, seed} : op' = [op EXCEPT ![c] = x]
  <2>1. PICK x \in {Idle, seed} : op' = [op EXCEPT ![c] = x]
    BY <1>6
  <2>2. x.seen = NoLayout /\ x.got = <<>>
    BY <1>4
  <2>3. \A k \in Hand(x) : Fits(k)
    BY <2>2, EmptyHand
  <2> QED BY <1>1, <1>3, <2>1, <2>3, KindsOfCall
<1>7. CASE op' = [d \in Call |-> Idle]
  BY <1>1, <1>3, <1>7, KindsOfIdle
<1> QED BY <1>5, <1>6, <1>7

LEMMA ClosePaneKinds ==
    ASSUME TabsInv, KindsInv, NEW c \in Call, ClosePane(c)
    PROVE  KindsInv'
<1>1. op[c].call = "closePane" /\ op[c].seen \in GoodLayouts /\ pty' \subseteq pty
  BY CallIs DEF ClosePane, CallOK, Kill
<1>2. CASE IsLastLeaf(op[c].seen, op[c].leaf)
  <2>1. tabs' = tabs
    BY <1>2 DEF ClosePane, ui
  <2>2. CASE op[c].tab \in TabIdsOf(tabs)
    <3>1. op' = [op EXCEPT ![c] = Closing(op[c].tab, "closeTab")]
      BY <1>2, <2>2 DEF ClosePane
    <3> QED BY <1>1, <2>1, <2>2, <3>1, ClosingFits, StripFits, KindsOfCall
  <2>3. CASE op[c].tab \notin TabIdsOf(tabs)
    <3>1. op' = [op EXCEPT ![c] = Idle]
      BY <1>2, <2>3 DEF ClosePane
    <3>2. \A d \in Call : op'[d] = op[d] \/ op'[d] = Idle
      BY <3>1, CallIs
    <3> QED BY <1>1, <2>1, <3>2, StripFits, KindsOfIdle
  <2> QED BY <2>2, <2>3
<1>3. CASE ~IsLastLeaf(op[c].seen, op[c].leaf)
  <2>1. /\ WriteClosed(op[c].leaf, op[c].tab, op[c].seen)
        /\ op' = [op EXCEPT ![c] = Idle]
    BY <1>3 DEF ClosePane, Done
  <2>2. Adds(Range(op[c].seen))
    BY <1>1, <2>1, WriteClosedMoves
  <2>3. \A k \in Range(op[c].seen) : Fits(k)
    BY GotFits DEF Hand
  <2>4. \A k \in LeavesOf(tabs') : Fits(k)
    BY <2>2, <2>3, AddsFit
  <2>5. \A d \in Call : op'[d] = op[d] \/ op'[d] = Idle
    BY <2>1, CallIs
  <2> QED BY <1>1, <2>4, <2>5, KindsOfIdle
<1> QED BY <1>2, <1>3

\* Which leaves are rebuilt.
LEMMA RebuiltLeaves ==
    ASSUME NEW strip \in Seq(Tabs), NEW kept \in SUBSET DOMAIN strip, NEW F,
           NEW f \in FreshIds(KeptPlaces(strip, kept), F),
           NEW h \in Ascending(kept), NEW k \in LeavesOf(RebuiltStrip(strip, f, h))
    PROVE  \E x \in KeptPlaces(strip, kept) :
             k.id = f[x] /\ k.kind = strip[x[1]].layout[x[2]].kind
<1> DEFINE r == RebuiltStrip(strip, f, h)
<1>1. /\ DOMAIN r = DOMAIN h /\ \A i \in DOMAIN h : h[i] \in kept
      /\ \A i \in DOMAIN h : r[i] = WithIds(strip, f)[h[i]]
  BY DEF RebuiltStrip, Ascending
<1>2. PICK i \in DOMAIN h : k \in Range(r[i].layout)
  BY <1>1 DEF LeavesOf
<1> DEFINE j == h[i]
           L == strip[j].layout
           M == [p \in DOMAIN L |-> IF <<j, p>> \in DOMAIN f
                                    THEN [L[p] EXCEPT !.id = f[<<j, p>>]]
                                    ELSE L[p]]
<1>3. j \in kept /\ j \in DOMAIN strip /\ strip[j] \in Tabs
  BY <1>1
<1>4. r[i].layout = M
  <2>1. r[i] = WithIds(strip, f)[j]
    BY <1>1
  <2>2. WithIds(strip, f)[j] = NewTab(strip[j].id, M)
    <3> HIDE DEF j
    <3> QED BY <1>3 DEF WithIds
  <2> HIDE DEF M, r
  <2> QED BY <2>1, <2>2 DEF NewTab
<1> HIDE DEF r
<1>5. DOMAIN M = DOMAIN L /\ \A p \in DOMAIN L : <<j, p>> \in DOMAIN f =>
                               M[p] = [L[p] EXCEPT !.id = f[<<j, p>>]]
  OBVIOUS
<1> HIDE DEF M
<1>6. PICK p \in DOMAIN L : k = M[p]
  BY <1>2, <1>4, <1>5 DEF Range
<1>7. <<j, p>> \in KeptPlaces(strip, kept) /\ DOMAIN f = KeptPlaces(strip, kept)
  BY <1>3, PlacesAre DEF KeptPlaces, FreshIds
<1>8. L[p] \in LeafType
  <2>1. L \in Layouts
    BY <1>3 DEF Tabs
  <2> QED BY <2>1, LayoutParts
<1> HIDE DEF L
<1>9. k = [L[p] EXCEPT !.id = f[<<j, p>>]]
  BY <1>5, <1>6, <1>7
<1>10. k.id = f[<<j, p>>] /\ k.kind = L[p].kind
  BY <1>8, <1>9 DEF LeafType
<1>11. <<j, p>>[1] = j /\ <<j, p>>[2] = p
  OBVIOUS
<1> QED BY <1>7, <1>10, <1>11 DEF L

LEMMA HydrateOpenIs ==
    ASSUME NEW c \in Call, HydrateOpen(c)
    PROVE  \E kept \in SUBSET DOMAIN op[c].got, lost \in SUBSET FreshLeaf :
           \E f \in FreshIds(KeptPlaces(op[c].got, kept), FreshLeaf \ lost),
              h \in Ascending(kept) :
             /\ op' = [op EXCEPT ![c].call = IF kept = {} THEN "seed" ELSE "rebuilt",
                                 ![c].got  = RebuiltStrip(op[c].got, f, h)]
             /\ pty' = pty \cup lost
                        \cup {f[x] : x \in {y \in PlacesOf(op[c].got) :
                                 op[c].got[y[1]].layout[y[2]].kind = "shell"}
                               \cap KeptPlaces(op[c].got, kept)}
BY Zenon DEF HydrateOpen, KeptPlaces, RebuiltStrip

LEMMA HydrateOpenKinds ==
    ASSUME TabsInv, KindsInv, NEW c \in Call, HydrateOpen(c)
    PROVE  KindsInv'
<1> DEFINE strip == op[c].got
           shells == {x \in PlacesOf(strip) :
                        strip[x[1]].layout[x[2]].kind = "shell"}
           P(kept) == KeptPlaces(strip, kept)
<1>1. PICK kept \in SUBSET DOMAIN strip, lost \in SUBSET FreshLeaf :
        \E f \in FreshIds(P(kept), FreshLeaf \ lost), h \in Ascending(kept) :
          /\ op' = [op EXCEPT ![c].call = IF kept = {} THEN "seed" ELSE "rebuilt",
                              ![c].got  = RebuiltStrip(strip, f, h)]
          /\ pty' = pty \cup lost \cup {f[x] : x \in shells \cap P(kept)}
  BY HydrateOpenIs
<1>2. PICK f \in FreshIds(P(kept), FreshLeaf \ lost), h \in Ascending(kept) :
        /\ op' = [op EXCEPT ![c].call = IF kept = {} THEN "seed" ELSE "rebuilt",
                            ![c].got  = RebuiltStrip(strip, f, h)]
        /\ pty' = pty \cup lost \cup {f[x] : x \in shells \cap P(kept)}
  BY <1>1
<1> DEFINE got  == RebuiltStrip(strip, f, h)
           call == IF kept = {} THEN "seed" ELSE "rebuilt"
           x    == [op[c] EXCEPT !.call = call, !.got = got]
           S    == {f[y] : y \in shells \cap P(kept)}
<1>3. op[c] \in Calls /\ op \in [Call -> GoodCalls] /\ strip \in Seq(Tabs)
  BY CallIs, CallParts
<1>4. /\ f \in [P(kept) -> FreshLeaf \ lost]
      /\ \A y, z \in P(kept) : f[y] = f[z] => y = z
  BY DEF FreshIds, IsInjective
<1>5. op'[c] = x /\ \A d \in Call : d # c => op'[d] = op[d]
  BY <1>2, <1>3
<1>6. ASSUME NEW k \in LeavesOf(got), k.id \in pty'
      PROVE  k.kind = "shell"
  <2>1. PICK y \in P(kept) : k.id = f[y] /\ k.kind = strip[y[1]].layout[y[2]].kind
    <3> HIDE DEF strip
    <3> QED BY <1>3, RebuiltLeaves
  <2>2. f[y] \in FreshLeaf /\ f[y] \notin lost /\ f[y] \notin pty
    BY <1>4, FreshUnknown
  <2>3. PICK z \in shells \cap P(kept) : f[y] = f[z]
    BY <1>2, <1>6, <2>1, <2>2
  <2>4. y = z
    BY <1>4, <2>3
  <2> QED BY <2>1, <2>3, <2>4
<1> HIDE DEF got
<1>7. x.seen = op[c].seen /\ x.got = got
  BY <1>3 DEF Calls
<1> HIDE DEF x
<1>8. \A k \in Hand(x) : Fits(k)
  <2>1. \A k \in LeavesOf(got) : Fits(k)
    BY <1>6 DEF Fits
  <2>2. \A k \in Range(op[c].seen) : Fits(k)
    BY GotFits DEF Hand
  <2> QED BY <1>7, <2>1, <2>2 DEF Hand
<1>9. \A d \in Call : op'[d] = op[d] \/ \A k \in Hand(op'[d]) : Fits(k)
  BY <1>5, <1>8
<1>10. lost \cup S \in SUBSET FreshLeaf /\ pty' \subseteq pty \cup (lost \cup S)
  <2>1. S \subseteq FreshLeaf
    BY <1>4
  <2>2. pty' = pty \cup lost \cup S
    BY <1>2
  <2> HIDE DEF S
  <2> QED BY <2>1, <2>2
<1>11. tabs' = tabs
  BY Zenon DEF HydrateOpen, ui
<1> HIDE DEF S
<1> QED BY <1>9, <1>10, <1>11, StripFits, KindsStep

LEMMA LaunchOpenKinds ==
    ASSUME TabsInv, KindsInv, NEW c \in Call, LaunchOpen(c)
    PROVE  KindsInv'
<1> DEFINE places == PlacesOf(op[c].got)
           shells == {x \in places : op[c].got[1].layout[x[2]].kind = "shell"}
           M(placed, f) == [p \in DOMAIN op[c].got[1].layout |->
                              IF <<1, p>> \in placed
                              THEN [op[c].got[1].layout[p] EXCEPT !.id = f[<<1, p>>]]
                              ELSE [op[c].got[1].layout[p] EXCEPT !.empty = TRUE]]
<1>1. op[c] \in Calls /\ op \in [Call -> GoodCalls] /\ op[c].call = "launch"
  BY CallIs DEF LaunchOpen
<1>2. PICK placed \in SUBSET places :
        \E f \in FreshIds(placed, FreshLeaf) :
        \E lost \in SUBSET (FreshLeaf \ {f[x] : x \in placed}) :
          /\ pty' = pty \cup lost \cup {f[x] : x \in placed \cap shells}
          /\ op' = [op EXCEPT ![c].call = "launched",
                              ![c].got = <<NewTab(None, M(placed, f))>>]
  BY Zenon DEF LaunchOpen
<1>3. PICK f \in FreshIds(placed, FreshLeaf) :
        \E lost \in SUBSET (FreshLeaf \ {f[x] : x \in placed}) :
          /\ pty' = pty \cup lost \cup {f[x] : x \in placed \cap shells}
          /\ op' = [op EXCEPT ![c].call = "launched",
                              ![c].got = <<NewTab(None, M(placed, f))>>]
  BY <1>2
<1>4. PICK lost \in SUBSET (FreshLeaf \ {f[x] : x \in placed}) :
        /\ pty' = pty \cup lost \cup {f[x] : x \in placed \cap shells}
        /\ op' = [op EXCEPT ![c].call = "launched",
                            ![c].got = <<NewTab(None, M(placed, f))>>]
  BY <1>3
<1>5. PICK L \in GoodLayouts : IsTemplate(L) /\ op[c].got = <<NewTab(None, L)>>
  BY <1>1, CallIs DEF CallOK
<1>6. op[c].got[1].layout = L
  BY <1>5, OneTab DEF NewTab
<1>7. f \in [placed -> FreshLeaf] /\ \A x, y \in placed : f[x] = f[y] => x = y
  BY DEF FreshIds, IsInjective
<1> DEFINE N   == M(placed, f)
           got == <<NewTab(None, N)>>
           x   == [op[c] EXCEPT !.call = "launched", !.got = got]
           S   == {f[y] : y \in placed \cap shells}
<1>8. op'[c] = x /\ \A d \in Call : d # c => op'[d] = op[d]
  BY <1>1, <1>4
<1>9. /\ DOMAIN N = DOMAIN L
      /\ \A p \in DOMAIN L : <<1, p>> \in placed =>
           N[p] = [L[p] EXCEPT !.id = f[<<1, p>>]]
      /\ \A p \in DOMAIN L : <<1, p>> \notin placed =>
           N[p] = [L[p] EXCEPT !.empty = TRUE]
  BY <1>6
<1> HIDE DEF N
<1>10. /\ CollectLeafIds(L) \subseteq Pending /\ Leaf \cap Pending = {}
       /\ \A p \in DOMAIN L : L[p] \in LeafType
  BY <1>5, LayoutParts, TabsAssumption DEF GoodLayouts, IsTemplate, TabsAssumption
<1>11. ASSUME NEW p \in DOMAIN L, N[p].id \in pty'
       PROVE  N[p].kind = "shell"
  <2>1. CASE <<1, p>> \in placed
    <3>1. N[p] = [L[p] EXCEPT !.id = f[<<1, p>>]] /\ L[p] \in LeafType
      BY <1>9, <1>10, <2>1
    <3>2. N[p].id = f[<<1, p>>] /\ N[p].kind = L[p].kind
      BY <3>1 DEF LeafType
    <3>3. f[<<1, p>>] \notin pty /\ f[<<1, p>>] \notin lost
      BY SMTT(30), <1>7, <2>1, FreshUnknown
    <3>4. PICK y \in placed \cap shells : f[<<1, p>>] = f[y]
      BY <1>4, <1>11, <3>2, <3>3
    <3>5. y = <<1, p>>
      BY <1>7, <2>1, <3>4
    <3>6. op[c].got[1].layout[y[2]].kind = "shell"
      BY <3>4
    <3> QED BY <1>6, <3>2, <3>5, <3>6
  <2>2. CASE <<1, p>> \notin placed
    <3>1. N[p] = [L[p] EXCEPT !.empty = TRUE] /\ L[p] \in LeafType
      BY <1>9, <1>10, <2>2
    <3>2. N[p].id = L[p].id
      BY <3>1 DEF LeafType
    <3>3. L[p].id \in Pending
      BY SMTT(30), <1>10 DEF CollectLeafIds
    <3>4. pty' \subseteq Leaf
      <4>1. S \subseteq Leaf /\ lost \subseteq Leaf /\ pty \subseteq Leaf
        BY <1>7, FreshLeafParts DEF TabsInv, Rest
      <4> QED BY <1>4, <4>1
    <3> QED BY <1>10, <1>11, <3>2, <3>3, <3>4
  <2> QED BY <2>1, <2>2
<1>12. LeavesOf(got) = Range(N)
  <2>1. NewTab(None, N).layout = N
    BY DEF NewTab
  <2> QED BY <2>1, OneTabLeaves
<1> HIDE DEF got
<1>13. x.seen = op[c].seen /\ x.got = got
  BY <1>1 DEF Calls
<1> HIDE DEF x
<1>14. \A k \in Hand(x) : Fits(k)
  <2>1. \A k \in LeavesOf(got) : Fits(k)
    BY <1>9, <1>11, <1>12 DEF Fits, Range
  <2>2. \A k \in Range(op[c].seen) : Fits(k)
    BY GotFits DEF Hand
  <2> QED BY <1>13, <2>1, <2>2 DEF Hand
<1>15. \A d \in Call : op'[d] = op[d] \/ \A k \in Hand(op'[d]) : Fits(k)
  BY <1>8, <1>14
<1>16. lost \cup S \in SUBSET FreshLeaf /\ pty' \subseteq pty \cup (lost \cup S)
  <2>1. S \subseteq FreshLeaf
    BY <1>7
  <2>2. pty' = pty \cup lost \cup S
    BY <1>4
  <2>3. lost \subseteq FreshLeaf
    BY SMTT(30)
  <2> HIDE DEF S
  <2> QED BY <2>1, <2>2, <2>3
<1>17. tabs' = tabs
  BY DEF LaunchOpen, ui
<1> HIDE DEF S
<1> QED BY SMTT(30), <1>15, <1>16, <1>17, StripFits, KindsStep

LEMMA HydrateFinishKinds ==
    ASSUME TabsInv, KindsInv, NEW c \in Call, HydrateFinish(c)
    PROVE  KindsInv'
<1>1. /\ tabs' = op[c].got /\ op' = [op EXCEPT ![c] = Idle] /\ pty' \subseteq pty
  BY DEF HydrateFinish, Done
<1>2. \A k \in LeavesOf(tabs') : Fits(k)
  BY <1>1, GotFits DEF Hand
<1>3. \A d \in Call : op'[d] = op[d] \/ op'[d] = Idle
  BY <1>1, CallIs
<1> QED BY <1>1, <1>2, <1>3, KindsOfIdle

LEMMA LaunchFinishKinds ==
    ASSUME TabsInv, KindsInv, NEW c \in Call, LaunchFinish(c)
    PROVE  KindsInv'
<1>1. /\ Adds(LeavesOf(op[c].got)) /\ op' = [op EXCEPT ![c] = Idle]
      /\ pty' \subseteq pty
  BY LaunchFinishMoves DEF LaunchFinish, Done
<1>2. \A k \in LeavesOf(op[c].got) : Fits(k)
  BY GotFits DEF Hand
<1>3. \A k \in LeavesOf(tabs') : Fits(k)
  BY <1>1, <1>2, AddsFit
<1>4. \A d \in Call : op'[d] = op[d] \/ op'[d] = Idle
  BY <1>1, CallIs
<1> QED BY <1>1, <1>3, <1>4, KindsOfIdle

LEMMA ResetKinds ==
    ASSUME TabsInv, KindsInv, NEW c \in Call, Reset(c)
    PROVE  KindsInv'
<1>1. /\ tabs' = <<>> /\ op' = [op EXCEPT ![c] = Idle] /\ pty' \subseteq pty
  BY DEF Reset, Done, Kill
<1>2. \A k \in LeavesOf(tabs') : Fits(k)
  BY <1>1, NoLeaves
<1>3. \A d \in Call : op'[d] = op[d] \/ op'[d] = Idle
  BY <1>1, CallIs
<1> QED BY <1>1, <1>2, <1>3, KindsOfIdle

LEMMA CloseWindowKinds ==
    ASSUME TabsInv, KindsInv, CloseWindow
    PROVE  KindsInv'
<1>1. tabs' = tabs /\ pty' \subseteq pty /\ op' = [d \in Call |-> Idle]
  BY DEF CloseWindow, WindowGone, Kill, ui
<1>2. \A d \in Call : op'[d] = op[d] \/ op'[d] = Idle
  BY <1>1
<1> QED BY <1>1, <1>2, StripFits, KindsOfIdle

LEMMA RelaunchKinds ==
    ASSUME Relaunch
    PROVE  KindsInv'
BY DEF Relaunch, KindsInv

\* What stop-agent-pane does: to the tab of the pane, and to the window.
LEMMA StopAgentIs ==
    ASSUME TabsInv, NEW id \in Leaf, StopAgentPane(id)
    PROVE  \E t \in TabIdsOf(tabs) :
             LET L == TabOf(tabs, t).layout
             IN  /\ id \in CollectLeafIds(L) /\ L \in GoodLayouts
                 /\ \/ IsLastLeaf(L, id) /\ Without(t, {id})
                    \/ ~IsLastLeaf(L, id) /\ WriteClosed(id, t, L)
<1> DEFINE t == CHOOSE t \in TabIdsOf(tabs) : HasLeaf(TabOf(tabs, t).layout, id)
           owner == TabOf(tabs, t)
<1>1. t \in TabIdsOf(tabs)
  BY OwnerTab DEF StopAgentPane
<1>2. HasLeaf(owner.layout, id)
  <2>1. id \in LeafIdsOf(tabs) /\ GoodStrip(tabs)
    BY DEF StopAgentPane, TabsInv
  <2>2. PICK u : TabHas(tabs, id, u)
    BY <2>1, LeavesAre
  <2>3. u \in TabIdsOf(tabs) /\ HasLeaf(TabOf(tabs, u).layout, id)
    BY <2>1, <2>2, TabHasTab, TabHasIs DEF HasLeaf
  <2> QED BY <2>3
<1>3. IF IsLastLeaf(owner.layout, id) THEN Without(owner.id, {id})
      ELSE WriteClosed(id, owner.id, owner.layout)
  BY DEF StopAgentPane
<1> HIDE DEF t
<1>4. owner.id = t /\ owner.layout \in GoodLayouts
  <2>1. GoodStrip(tabs)
    BY DEF TabsInv
  <2> QED BY <1>1, <2>1, TabOfParts
<1> QED BY <1>1, <1>2, <1>3, <1>4 DEF HasLeaf

\* Only the pane goes.
LEMMA StopAgentMoves ==
    ASSUME TabsInv, NEW id \in Leaf, StopAgentPane(id)
    PROVE  /\ Takes({id}) /\ \A k \in LeavesOf(tabs') : k \in LeavesOf(tabs)
<1>1. PICK t \in TabIdsOf(tabs) :
        LET L == TabOf(tabs, t).layout
        IN  /\ id \in CollectLeafIds(L) /\ L \in GoodLayouts
            /\ \/ IsLastLeaf(L, id) /\ Without(t, {id})
               \/ ~IsLastLeaf(L, id) /\ WriteClosed(id, t, L)
  BY StopAgentIs
<1> DEFINE L == TabOf(tabs, t).layout
<1>2. /\ \A l : TabHas(tabs, l, t) <=> l \in CollectLeafIds(L)
      /\ \A k \in Range(L) : k \in LeavesOf(tabs)
  BY TabHasIs, TabFits DEF TabsInv
<1>3. CASE IsLastLeaf(L, id) /\ Without(t, {id})
  <2>1. \A l \in CollectLeafIds(L) : l = id
    BY <1>3 DEF IsLastLeaf, CollectLeafIds
  <2>2. Adds({}) /\ \A l \in Shown : l \in Shown' \/ TabHas(tabs, l, t)
    BY <1>3, WithoutMoves
  <2> QED BY <1>2, <2>1, <2>2 DEF Adds, Takes
<1>4. CASE WriteClosed(id, t, L)
  <2>1. L \in GoodLayouts
    BY <1>1
  <2>2. /\ Adds(Range(L))
        /\ \A l \in Shown :
             \/ l \in Shown'
             \/ TabHas(tabs, l, t) /\ (l = id \/ l \notin CollectLeafIds(L))
    BY <1>4, <2>1, WriteClosedMoves
  <2> QED BY <1>2, <2>2 DEF Adds, Takes
<1> QED BY <1>1, <1>3, <1>4

LEMMA StopAgentPaneKinds ==
    ASSUME TabsInv, KindsInv, NEW id \in Leaf, StopAgentPane(id)
    PROVE  KindsInv'
<1>1. pty' \subseteq pty /\ \A d \in Call : op'[d] = op[d] \/ op'[d] = Idle
  BY DEF StopAgentPane, Kill, WindowGone
<1>2. \A k \in LeavesOf(tabs') : Fits(k)
  BY StopAgentMoves DEF Fits, Known
<1> QED BY <1>1, <1>2, KindsOfIdle

LEMMA PtyExitedMoves ==
    ASSUME TabsInv, NEW id, PtyExited(id)
    PROVE  /\ \A k \in LeavesOf(tabs') :
                \E j \in LeavesOf(tabs) : /\ k.id = j.id /\ k.kind = j.kind
                                          /\ k = j \/ k.exited
                                          /\ k.id = id => k.exited
           /\ Shown' = Shown
<1> DEFINE r == [i \in DOMAIN tabs |->
                   [tabs[i] EXCEPT !.layout = MarkLeafExited(@, id)]]
<1>1. tabs' = r /\ GoodStrip(tabs)
  BY DEF PtyExited, MarkExited, TabsInv
<1>2. /\ \A k, u : TabLeaf(r, k, u) =>
           \E j : /\ TabLeaf(tabs, j, u) /\ k.id = j.id /\ k.kind = j.kind
                  /\ k = j \/ k.exited
                  /\ k.id = id => k.exited
      /\ \A l, u : TabHas(r, l, u) <=> TabHas(tabs, l, u)
  BY <1>1, MarkLeaves
<1> HIDE DEF r
<1>3. \A k \in LeavesOf(tabs') :
        \E j \in LeavesOf(tabs) : /\ k.id = j.id /\ k.kind = j.kind
                                  /\ k = j \/ k.exited
                                  /\ k.id = id => k.exited
  BY <1>1, <1>2, LeavesAre
<1>4. \A l : l \in Shown' <=> l \in Shown
  BY <1>1, <1>2, LeavesAre DEF Shown
<1> QED BY <1>3, <1>4

LEMMA PtyExitedKinds ==
    ASSUME TabsInv, KindsInv, NEW id, PtyExited(id)
    PROVE  KindsInv'
<1>1. pty' = pty /\ op' = op
  BY DEF PtyExited
<1>2. ASSUME NEW k \in LeavesOf(tabs') PROVE Fits(k)
  <2>1. PICK j \in LeavesOf(tabs) : k.id = j.id /\ k.kind = j.kind
    BY PtyExitedMoves
  <2> QED BY <1>1, <2>1 DEF Fits, KindsInv, Known
<1> QED BY <1>1, <1>2, KindsOfIdle

LEMMA PtyExitsKinds ==
    ASSUME TabsInv, KindsInv, NEW id, PtyExits(id)
    PROVE  KindsInv'
<1>1. pty' \subseteq pty /\ op' = op /\ tabs' = tabs
  BY DEF PtyExits, Kill, ui
<1> QED BY <1>1, StripFits, KindsOfIdle

LEMMA KindsNext == ASSUME TabsInv, TabsInv', KindsInv, [Next]_vars PROVE KindsInv'
<1>1. CASE Inputs
  <2>1. ASSUME NEW c \in Call, NEW kind, AddTabStart(c, kind) PROVE KindsInv'
    BY <2>1, AddTabStartKinds
  <2>2. ASSUME NEW c \in Call, NEW id, CloseTabStart(c, id) PROVE KindsInv'
    BY <2>2, CloseTabStartKinds
  <2>3. ASSUME NEW c \in Call, NEW id, NEW kind, SplitPaneStart(c, id, kind)
        PROVE  KindsInv'
    BY <2>3, SplitPaneStartKinds
  <2>4. ASSUME NEW c \in Call, NEW id, ClosePaneStart(c, id) PROVE KindsInv'
    BY <2>4, ClosePaneStartKinds
  <2>5. ASSUME NEW c \in Call, NEW id, ReplaceEmptyStart(c, id) PROVE KindsInv'
    BY <2>5, ReplaceEmptyStartKinds
  <2>6. ASSUME NEW c \in Call, NEW spec \in Launch,
               ApplyPaneLayout(c, spec) \/ MountForLaunch(c, spec)
        PROVE  KindsInv'
    <3>1. op' = [op EXCEPT ![c] = Launching(spec)] /\ UNCHANGED <<tabs, pty>>
      BY <2>6 DEF ApplyPaneLayout, MountForLaunch, ui
    <3> QED BY <3>1, LaunchingKinds
  <2>7. ASSUME NEW c \in Call, HydrateStart(c) PROVE KindsInv'
    BY <2>7, HydrateStartKinds
  <2>8. ASSUME NEW c \in Call, ResetStart(c) PROVE KindsInv'
    BY <2>8, ResetStartKinds
  <2>9. ASSUME NEW id \in Leaf, StopAgentPane(id) PROVE KindsInv'
    BY <2>9, StopAgentPaneKinds
  <2>10. CASE CloseWindow
    BY <2>10, CloseWindowKinds
  <2>11. CASE Relaunch
    BY <2>11, RelaunchKinds
  <2>12. CASE UNCHANGED <<tabs, op, pty>>
    BY <2>12, StripFits, KindsOfIdle
  <2> QED
    BY <1>1, <2>1, <2>2, <2>3, <2>4, <2>5, <2>6, <2>7, <2>8, <2>9, <2>10, <2>11,
       <2>12 DEF Inputs, SetActiveTab, FocusPane, SetFocusedLeaf, ToggleMaximize,
       RestoreMaximize
<1>2. CASE Answers
  <2>1. PICK c \in Call :
          \/ AddAgentTab(c) \/ OpenTerminal(c) \/ OpenTerminalFails(c)
          \/ AddShellTab(c) \/ CloseTab(c) \/ CloseTabNoReSeed(c) \/ SplitPane(c)
          \/ ClosePane(c) \/ HydrateSeed(c) \/ HydrateOpen(c) \/ HydrateFinish(c)
          \/ LaunchOpen(c) \/ LaunchFinish(c) \/ ReplaceEmpty(c)
          \/ ReplaceEmptySendFails(c) \/ Reset(c)
    BY <1>2 DEF Answers
  <2> QED
    BY <2>1, AddAgentTabKinds, OpenTerminalKinds, CallEndsKinds, ShellPlacedKinds,
       CloseTabKinds, SplitPaneKinds, ClosePaneKinds, HydrateOpenKinds,
       HydrateFinishKinds, LaunchOpenKinds, LaunchFinishKinds, ResetKinds
<1>3. CASE Exits
  BY <1>3, PtyExitsKinds, PtyExitedKinds DEF Exits
<1>4. CASE UNCHANGED vars
  <2>1. UNCHANGED <<tabs, op, pty>>
    BY <1>4 DEF vars
  <2> QED BY <2>1, StripFits, KindsOfIdle
<1> QED BY <1>1, <1>2, <1>3, <1>4 DEF Next

LEMMA KindsInvariant == Spec => []KindsInv
<1>1. Init => KindsInv
  BY DEF Init, KindsInv
<1>2. TabsInv /\ TabsInv' /\ KindsInv /\ [Next]_vars => KindsInv'
  BY KindsNext
<1> QED BY <1>1, <1>2, TabsInvariant, PTL DEF Spec

-----------------------------------------------------------------------------
(* Panes come and go as asked                                              *)

PanesStep ==
    /\ \A p \in Shown \ Shown' : LeavesAsAsked(p)
    /\ \A p \in Shown' \ Shown : EntersAsAsked(p)

LEMMA OpenedMoves ==
    ASSUME TabsInv, NEW c \in Call, AddShellTab(c) \/ ReplaceEmpty(c)
    PROVE  PanesStep
<1>1. op[c].call \in {"addTab", "replaceEmptyLeaf"} /\ op[c].got # <<>> /\ Done(c)
  BY DEF AddShellTab, ReplaceEmpty
<1>2. op'[c] # op[c]
  BY <1>1, CallEnds
<1>3. /\ Adds({Opened(c)})
      /\ \A l \in Shown : l \in Shown' \/ (ReplaceEmpty(c) /\ l = op[c].leaf)
  BY AddShellTabMoves, ReplaceEmptyMoves DEF Takes
<1>4. Opened(c).id \in LeafIdsOf(op[c].got)
  BY <1>1, OpenedHand DEF OpensOne
<1>5. \A p \in Shown \ Shown' : LeavesAsAsked(p)
  BY <1>2, <1>3 DEF LeavesAsAsked, Finishes, ReplaceEmpty
<1>6. \A p \in Shown' \ Shown : EntersAsAsked(p)
  BY <1>2, <1>3, <1>4, AddedIds DEF EntersAsAsked
<1> QED BY <1>5, <1>6 DEF PanesStep

LEMMA AgentTabStep ==
    ASSUME TabsInv, NEW c \in Call, AddAgentTab(c) \/ HydrateSeed(c)
    PROVE  PanesStep
<1>1. PICK l \in FreshLeaf, t \in FreshTab :
        Appended(NewTab(t, SingleLeaf(NewLeaf(l, "agent"))), l)
  BY DEF AddAgentTab, HydrateSeed
<1>2. Adds({NewLeaf(l, "agent")}) /\ Takes({})
  BY <1>1, AgentTabMoves
<1>3. NewLeaf(l, "agent").id = l
  BY DEF NewLeaf
<1> QED BY <1>2, <1>3, AddedIds DEF PanesStep, Takes, EntersAsAsked

LEMMA LaunchFinishStep ==
    ASSUME TabsInv, NEW c \in Call, LaunchFinish(c)
    PROVE  PanesStep
<1>1. op[c].call = "launched" /\ Done(c)
  BY DEF LaunchFinish
<1>2. op'[c] # op[c]
  BY <1>1, CallEnds
<1>3. Adds(LeavesOf(op[c].got)) /\ Takes({})
  BY LaunchFinishMoves
<1>4. \A k \in LeavesOf(op[c].got) : k.id \in LeafIdsOf(op[c].got)
  BY LeavesAre
<1> QED BY <1>2, <1>3, <1>4, AddedIds DEF PanesStep, Takes, EntersAsAsked

LEMMA SplitPaneStep ==
    ASSUME TabsInv, NEW c \in Call, SplitPane(c)
    PROVE  PanesStep
<1>1. PICK leaf : /\ SplitWith(c, leaf)
                  /\ \/ \E l \in FreshLeaf : leaf = NewLeaf(l, "agent")
                     \/ op[c].got # <<>> /\ leaf = Opened(c)
  BY DEF SplitPane
<1>2. op[c].call = "splitPane" /\ Done(c)
  BY <1>1 DEF SplitPane, SplitWith
<1>3. op'[c] # op[c]
  BY <1>2, CallEnds
<1>4. Adds({leaf}) /\ Takes({})
  BY <1>1, SplitWithMoves
<1>5. leaf.id \in FreshLeaf \/ leaf.id \in LeafIdsOf(op[c].got)
  BY <1>1, <1>2, OpenedHand DEF OpensOne, NewLeaf
<1> QED BY <1>3, <1>4, <1>5, AddedIds DEF PanesStep, Takes, EntersAsAsked

LEMMA CloseTabStep ==
    ASSUME TabsInv, NEW c \in Call, CloseTab(c) \/ CloseTabNoReSeed(c)
    PROVE  PanesStep
<1>1. /\ op[c].call \in {"closeTab", "closeTabNoReSeed"}
      /\ Without(op[c].tab, Unmaximized(c))
  BY DEF CloseTab, CloseTabNoReSeed
<1>2. op'[c] # op[c]
  BY CloseTabEnds DEF Finishes
<1>3. Adds({}) /\ \A l \in Shown : l \in Shown' \/ TabHas(tabs, l, op[c].tab)
  BY <1>1, WithoutMoves
<1>4. ASSUME NEW l, TabHas(tabs, l, op[c].tab)
      PROVE  \E t \in Range(tabs) : t.id = op[c].tab /\ HasLeaf(t.layout, l)
  BY <1>4 DEF TabHas, Range, HasLeaf
<1>5. \A p \in Shown \ Shown' : LeavesAsAsked(p)
  BY <1>1, <1>2, <1>3, <1>4 DEF LeavesAsAsked, Finishes
<1> QED BY <1>3, <1>5, AddedIds DEF PanesStep

LEMMA ClosePaneStep ==
    ASSUME TabsInv, NEW c \in Call, ClosePane(c)
    PROVE  PanesStep
<1>1. op[c].call = "closePane" /\ op[c].seen \in GoodLayouts
  BY CallIs DEF ClosePane, CallOK
<1>2. CASE IsLastLeaf(op[c].seen, op[c].leaf)
  BY <1>2 DEF ClosePane, ui, PanesStep, Shown
<1>3. CASE ~IsLastLeaf(op[c].seen, op[c].leaf)
  <2>1. WriteClosed(op[c].leaf, op[c].tab, op[c].seen) /\ Done(c)
    BY <1>3 DEF ClosePane
  <2>2. op'[c] # op[c]
    BY <1>1, <2>1, CallEnds
  <2>3. /\ Adds(Range(op[c].seen))
        /\ \A l \in Shown :
             \/ l \in Shown'
             \/ /\ TabHas(tabs, l, op[c].tab)
                /\ l = op[c].leaf \/ l \notin CollectLeafIds(op[c].seen)
    BY <1>1, <2>1, WriteClosedMoves
  <2>4. \A p \in Shown \ Shown' : LeavesAsAsked(p)
    BY <1>1, <2>2, <2>3 DEF LeavesAsAsked, Finishes, HasLeaf
  <2>5. \A p \in Shown' \ Shown : EntersAsAsked(p)
    BY <1>1, <2>2, <2>3, AddedIds, IdsOfLeaves DEF EntersAsAsked, Finishes, HasLeaf
  <2> QED BY <2>4, <2>5 DEF PanesStep
<1> QED BY <1>2, <1>3

LEMMA HydrateFinishStep ==
    ASSUME TabsInv, NEW c \in Call, HydrateFinish(c)
    PROVE  PanesStep
<1>1. op[c].call = "rebuilt" /\ Done(c) /\ Shown' = LeafIdsOf(op[c].got)
  BY DEF HydrateFinish, Shown
<1>2. op'[c] # op[c]
  BY <1>1, CallEnds
<1> QED BY <1>1, <1>2 DEF PanesStep, LeavesAsAsked, EntersAsAsked, Finishes

LEMMA ResetStep ==
    ASSUME TabsInv, NEW c \in Call, Reset(c)
    PROVE  PanesStep
<1>1. op[c].call = "reset" /\ Done(c) /\ tabs' = <<>>
  BY DEF Reset
<1>2. op'[c] # op[c] /\ Shown' = {}
  BY <1>1, CallEnds, NoStrip DEF Shown
<1> QED BY <1>1, <1>2 DEF PanesStep, LeavesAsAsked, Finishes

\* The agent pane that goes at once has no PTY, and goes alone.
LEMMA AgentPaneGoes ==
    ASSUME TabsInv, KindsInv, tabs # <<>>, NEW id,
           HasLeaf(TabOf(tabs, activeTabId).layout, id),
           FindLeaf(TabOf(tabs, activeTabId).layout, id).kind = "agent",
           WriteClosed(id, activeTabId, TabOf(tabs, activeTabId).layout)
    PROVE  /\ id \notin pty /\ Shown' \subseteq Shown
           /\ \A p \in Shown \ Shown' : p = id
<1> DEFINE L == TabOf(tabs, activeTabId).layout
<1>1. activeTabId \in TabIdsOf(tabs) /\ L \in GoodLayouts /\ GoodStrip(tabs)
  BY ShownTab DEF TabsInv
<1>2. /\ \A l : TabHas(tabs, l, activeTabId) => l \in CollectLeafIds(L)
      /\ \A k \in Range(L) : k \in LeavesOf(tabs)
  BY <1>1, TabHasIs, TabFits
<1>3. id \notin pty
  <2>1. FindLeaf(L, id) \in Range(L) /\ FindLeaf(L, id).id = id
    <3>1. \E p \in LeavesAt(L, id) : TRUE
      BY DEF HasLeaf, CollectLeafIds, LeavesAt
    <3> QED BY <3>1 DEF FindLeaf, LeavesAt, Range
  <2> QED BY <1>2, <2>1 DEF KindsInv, Known
<1>4. WriteClosed(id, activeTabId, L)
  OBVIOUS
<1> HIDE DEF L
<1>5. /\ Adds(Range(L))
      /\ \A l \in Shown :
           \/ l \in Shown'
           \/ TabHas(tabs, l, activeTabId) /\ (l = id \/ l \notin CollectLeafIds(L))
  BY <1>1, <1>4, WriteClosedMoves
<1>6. Shown' \subseteq Shown
  BY <1>2, <1>5, AddedIds, LeavesAre DEF Shown
<1> QED BY <1>2, <1>3, <1>5, <1>6

LEMMA ClosePaneStartStep ==
    ASSUME TabsInv, KindsInv, NEW c \in Call, NEW id, ClosePaneStart(c, id)
    PROVE  PanesStep
<1> DEFINE L == TabOf(tabs, activeTabId).layout
<1>1. CASE UNCHANGED tabs
  BY <1>1 DEF PanesStep, Shown
<1>2. CASE /\ HasLeaf(L, id) /\ FindLeaf(L, id).kind = "agent"
           /\ WriteClosed(id, activeTabId, L) /\ UNCHANGED <<op, pty>>
  <2>1. /\ id \notin pty /\ Shown' \subseteq Shown
        /\ \A p \in Shown \ Shown' : p = id
    BY <1>2, AgentPaneGoes DEF ClosePaneStart
  <2>2. ASSUME NEW p \in Shown \ Shown' PROVE LeavesAsAsked(p)
    <3>1. Shown \ Shown' = {p} /\ p \notin pty'
      BY <1>2, <2>1
    <3> QED BY <1>2, <3>1 DEF LeavesAsAsked
  <2> QED BY <2>1, <2>2 DEF PanesStep
<1> QED BY <1>1, <1>2 DEF ClosePaneStart, ui

LEMMA StopAgentStep ==
    ASSUME TabsInv, NEW id \in Leaf, StopAgentPane(id)
    PROVE  PanesStep
<1>1. Takes({id}) /\ Shown' \subseteq Shown
  BY StopAgentMoves, LeavesAre DEF Shown
<1>2. \A p \in Shown \ Shown' : p = id
  BY <1>1 DEF Takes
<1>3. win' = "closed" \/ (UNCHANGED op /\ id \notin pty')
  BY DEF StopAgentPane, Kill, WindowGone
<1>4. ASSUME NEW p \in Shown \ Shown' PROVE LeavesAsAsked(p)
  <2>1. Shown \ Shown' = {p} /\ p = id
    BY <1>2
  <2> QED BY <1>3, <2>1 DEF LeavesAsAsked
<1> QED BY <1>1, <1>4 DEF PanesStep

LEMMA RelaunchStep == ASSUME Relaunch PROVE PanesStep
<1>1. Shown' = {} /\ Relaunched
  BY NoStrip DEF Relaunch, Relaunched, Shown
<1> QED BY <1>1 DEF PanesStep, LeavesAsAsked

LEMMA PanesNext == ASSUME TabsInv, KindsInv, Next PROVE PanesStep
<1>1. CASE UNCHANGED tabs
  BY <1>1 DEF PanesStep, Shown
<1>2. CASE \E c \in Call :
             \/ AddAgentTab(c) \/ AddShellTab(c) \/ CloseTab(c)
             \/ CloseTabNoReSeed(c) \/ SplitPane(c) \/ ClosePane(c)
             \/ HydrateSeed(c) \/ HydrateFinish(c) \/ LaunchFinish(c)
             \/ ReplaceEmpty(c) \/ Reset(c)
  BY <1>2, OpenedMoves, AgentTabStep, LaunchFinishStep, SplitPaneStep, CloseTabStep,
     ClosePaneStep, HydrateFinishStep, ResetStep
<1>3. CASE \E id \in Leaf : PtyExited(id)
  BY <1>3, PtyExitedMoves DEF PanesStep
<1> QED
  BY <1>1, <1>2, <1>3, StripSteps, ClosePaneStartStep, StopAgentStep, RelaunchStep

\* A pane leaves the strip only when it, or its tab, is closed or stopped, when
\* it is an empty one that has been given a shell, when a hydration or a reset
\* replaces the strip, or when a closePane writes back a layout from before it;
\* it enters only when a call has opened it or such a closePane brings it back
\* (terminal-store.ts:609-617), for any number of overlapping calls.
THEOREM PanesComeAndGo == Spec => PanesComeAndGoAsAsked
<1>1. TabsInv /\ KindsInv /\ [Next]_vars => [PanesStep]_vars
  BY PanesNext
<1> QED
  BY <1>1, TabsInvariant, KindsInvariant, PTL
     DEF Spec, PanesComeAndGoAsAsked, PanesStep

-----------------------------------------------------------------------------
(* A bare strip is refilled                                                *)

Refilling == {"addTab", "seed", "rebuilt", "hydrate", "launch", "launched"}

RefillStep ==
    ~Bare /\ Bare' =>
      \/ \E c \in Call : op[c].call = "reset" /\ op'[c] = Idle
      \/ \E c \in Call : op[c].call = "addTab" /\ op[c].pane = "shell"

\* What becomes of an empty strip's tabs is an empty strip, and of no other's.
LEMMA StaysEmpty ==
    ASSUME TabsInv, DOMAIN tabs' = DOMAIN tabs, tabs' = <<>>
    PROVE  tabs = <<>>
<1>1. DOMAIN tabs = {}
  BY NoStrip
<1> QED BY <1>1, StripParts DEF TabsInv, GoodStrip

LEMMA WithStaysEmpty ==
    ASSUME TabsInv, NEW t, NEW L, tabs' = WithLayout(tabs, t, L), tabs' = <<>>
    PROVE  tabs = <<>>
<1>1. DOMAIN tabs' = DOMAIN tabs
  BY DEF WithLayout
<1> QED BY <1>1, StaysEmpty

LEMMA AppendFills ==
    ASSUME TabsInv, NEW t, tabs' = Append(tabs, t)
    PROVE  tabs' # <<>>
<1>1. tabs \in Seq(GoodTabs)
  BY DEF TabsInv, GoodStrip
<1>2. Len(tabs) \in Nat
  BY <1>1, StripParts
<1>3. DOMAIN tabs' = 1..(Len(tabs) + 1)
  BY <1>1
<1>4. 1 \in DOMAIN tabs'
  BY <1>2, <1>3
<1> QED BY <1>4, NoStrip

\* Only calls that would not refill the strip end or start.
LEMMA WasBare ==
    ASSUME Bare', UNCHANGED <<win, hydrated>>, tabs = <<>>, NEW c \in Call,
           op[c].call \notin Refilling \/ op'[c].call \in Refilling,
           \A d \in Call : d # c => op'[d] = op[d]
    PROVE  Bare
BY DEF Bare, Refilling

LEMMA WasBareSame ==
    ASSUME Bare', UNCHANGED <<win, hydrated, op>>, tabs = <<>>
    PROVE  Bare
BY DEF Bare

\* A call starts: it would not have refilled the strip before.
LEMMA StartRefills ==
    ASSUME TabsInv, NEW c \in Call, ~Busy(c), NEW x, op' = [op EXCEPT ![c] = x],
           UNCHANGED <<win, hydrated, tabs>>
    PROVE  RefillStep
<1>1. op[c].call \notin Refilling /\ \A d \in Call : d # c => op'[d] = op[d]
  BY CallIs DEF Busy, Refilling
<1>2. ASSUME Bare' PROVE Bare
  <2>1. tabs = <<>>
    BY <1>2 DEF Bare
  <2> QED BY <1>1, <1>2, <2>1, WasBare
<1> QED BY <1>2 DEF RefillStep

LEMMA InputsRefill == ASSUME TabsInv, Inputs PROVE RefillStep
<1> SUFFICES ASSUME Bare', ~Bare PROVE RefillStep
  BY DEF RefillStep
<1>0. win' = "main" /\ hydrated' /\ tabs' = <<>>
  BY DEF Bare
<1>1. ASSUME NEW c \in Call, NEW kind, AddTabStart(c, kind) PROVE RefillStep
  BY <1>1, StartRefills DEF AddTabStart, ui
<1>2. ASSUME NEW c \in Call, NEW id, CloseTabStart(c, id) PROVE RefillStep
  BY <1>2, StartRefills DEF CloseTabStart, ui
<1>3. ASSUME NEW c \in Call, NEW id, NEW kind, SplitPaneStart(c, id, kind)
      PROVE  RefillStep
  BY <1>3, StartRefills DEF SplitPaneStart, ui
<1>4. ASSUME NEW c \in Call, NEW id, ClosePaneStart(c, id) PROVE FALSE
  <2>1. tabs # <<>> /\ (tabs' = tabs \/ \E M : tabs' = WithLayout(tabs, activeTabId, M))
    BY <1>4 DEF ClosePaneStart, WriteClosed, ui
  <2> QED BY <1>0, <2>1, WithStaysEmpty
<1>5. ASSUME NEW c \in Call, NEW id, ReplaceEmptyStart(c, id) PROVE RefillStep
  BY <1>5, StartRefills DEF ReplaceEmptyStart, ui, rest
<1>6. ASSUME NEW c \in Call, NEW spec, ApplyPaneLayout(c, spec) PROVE RefillStep
  BY <1>6, StartRefills DEF ApplyPaneLayout, ui, rest
<1>7. ASSUME NEW c \in Call, NEW spec, MountForLaunch(c, spec) PROVE FALSE
  BY <1>0, <1>7 DEF MountForLaunch
<1>8. ASSUME NEW c \in Call, HydrateStart(c) PROVE FALSE
  BY <1>0, <1>8 DEF HydrateStart
<1>9. ASSUME NEW c \in Call, ResetStart(c) PROVE RefillStep
  BY <1>9, StartRefills DEF ResetStart, ui, rest
<1>10. ASSUME NEW id, StopAgentPane(id) PROVE FALSE
  BY <1>0, <1>10 DEF StopAgentPane, WindowGone
<1>11. CASE CloseWindow
  BY <1>0, <1>11 DEF CloseWindow, WindowGone
<1>12. CASE Relaunch
  BY <1>0, <1>12 DEF Relaunch
<1>13. CASE UNCHANGED <<win, hydrated, op, tabs>>
  BY <1>0, <1>13, WasBareSame
<1> QED
  BY <1>1, <1>2, <1>3, <1>4, <1>5, <1>6, <1>7, <1>8, <1>9, <1>10, <1>11, <1>12,
     <1>13 DEF Inputs, SetActiveTab, FocusPane, SetFocusedLeaf, ToggleMaximize,
     RestoreMaximize

LEMMA AnswersRefill == ASSUME TabsInv, Answers PROVE RefillStep
<1> SUFFICES ASSUME Bare', ~Bare PROVE RefillStep
  BY DEF RefillStep
<1>0. win' = "main" /\ hydrated' /\ tabs' = <<>>
  BY DEF Bare
<1>1. PICK c \in Call :
        \/ AddAgentTab(c) \/ OpenTerminal(c) \/ OpenTerminalFails(c)
        \/ AddShellTab(c) \/ CloseTab(c) \/ CloseTabNoReSeed(c) \/ SplitPane(c)
        \/ ClosePane(c) \/ HydrateSeed(c) \/ HydrateOpen(c) \/ HydrateFinish(c)
        \/ LaunchOpen(c) \/ LaunchFinish(c) \/ ReplaceEmpty(c)
        \/ ReplaceEmptySendFails(c) \/ Reset(c)
  BY DEF Answers
<1>2. op \in [Call -> GoodCalls] /\ CallOK(op[c])
  BY CallIs
<1>3. op'[c].call \notin Refilling
  BY DEF Bare, Refilling
<1>4. CASE AddAgentTab(c) \/ AddShellTab(c) \/ HydrateSeed(c) \/ LaunchFinish(c)
  <2>1. \E t : tabs' = Append(tabs, t)
    BY <1>4 DEF AddAgentTab, AddShellTab, HydrateSeed, LaunchFinish, Appended
  <2> QED BY <1>0, <2>1, AppendFills

\* The calls that go on, or end, and would not have refilled the strip.
<1>5. ASSUME op[c].call \notin Refilling \/ op'[c].call \in Refilling,
             \A d \in Call : d # c => op'[d] = op[d], UNCHANGED <<win, hydrated>>,
             tabs' = tabs \/ \E t, M : tabs' = WithLayout(tabs, t, M)
      PROVE  FALSE
  BY <1>0, <1>5, WithStaysEmpty, WasBare
<1>6. CASE OpenTerminal(c)
  <2>1. PICK got : op' = [op EXCEPT ![c].got = got]
    BY <1>6 DEF OpenTerminal
  <2>2. op'[c].call = op[c].call /\ \A d \in Call : d # c => op'[d] = op[d]
    BY <1>2, <2>1 DEF GoodCalls, Calls
  <2> QED BY <1>3, <1>5, <1>6, <2>2 DEF OpenTerminal, ui
<1>7. CASE OpenTerminalFails(c)
  BY <1>2, <1>5, <1>7
     DEF OpenTerminalFails, Done, ui, OpensOne, Refilling, RefillStep
<1>8. CASE CloseTab(c)
  <2>1. op'[c].call = "addTab"
    BY <1>0, <1>2, <1>8 DEF CloseTab, Idle
  <2> QED BY <1>3, <2>1 DEF Refilling
<1>9. CASE CloseTabNoReSeed(c)
  BY <1>0, <1>9 DEF CloseTabNoReSeed, WindowGone
<1>10. CASE SplitPane(c)
  <2>1. PICK leaf : SplitWith(c, leaf)
    BY <1>10 DEF SplitPane
  <2> QED BY <1>2, <1>5, <1>10, <2>1 DEF SplitPane, SplitWith, Done, Refilling
<1>11. CASE ClosePane(c)
  <2>1. op[c].call \notin Refilling /\ UNCHANGED <<win, hydrated>>
    BY <1>11 DEF ClosePane, Refilling
  <2>2. /\ \E x : op' = [op EXCEPT ![c] = x]
        /\ tabs' = tabs \/ \E t, M : tabs' = WithLayout(tabs, t, M)
    BY <1>11 DEF ClosePane, WriteClosed, Done, ui
  <2> QED BY <1>2, <1>5, <2>1, <2>2
<1>12. CASE HydrateOpen(c)
  <2>1. \E kept, got :
          op' = [op EXCEPT ![c].call = IF kept = {} THEN "seed" ELSE "rebuilt",
                           ![c].got  = got]
    BY <1>12, HydrateOpenIs
  <2>2. op'[c].call \in {"seed", "rebuilt"}
    BY <1>2, <2>1 DEF GoodCalls, Calls
  <2> QED BY <1>3, <2>2 DEF Refilling
<1>13. CASE HydrateFinish(c)
  BY <1>0, <1>2, <1>13 DEF HydrateFinish, CallOK
<1>14. CASE LaunchOpen(c)
  <2>1. PICK got : op' = [op EXCEPT ![c].call = "launched", ![c].got = got]
    BY <1>14 DEF LaunchOpen
  <2>2. op'[c].call = "launched"
    BY <1>2, <2>1 DEF GoodCalls, Calls
  <2> QED BY <1>3, <2>2 DEF Refilling
<1>15. CASE ReplaceEmpty(c)
  BY <1>2, <1>5, <1>15 DEF ReplaceEmpty, Done, Refilling, rest
<1>16. CASE ReplaceEmptySendFails(c)
  BY <1>2, <1>5, <1>16 DEF ReplaceEmptySendFails, Done, Refilling, ui, rest
<1>17. CASE Reset(c)
  <2>1. op'[c] = Idle /\ op[c].call = "reset"
    BY <1>2, <1>17 DEF Reset, Done
  <2> QED BY <2>1 DEF RefillStep
<1> QED
  BY <1>1, <1>4, <1>6, <1>7, <1>8, <1>9, <1>10, <1>11, <1>12, <1>13, <1>14, <1>15,
     <1>16, <1>17

LEMMA ExitsRefill == ASSUME TabsInv, Exits PROVE RefillStep
<1>1. DOMAIN tabs' = DOMAIN tabs /\ UNCHANGED <<win, hydrated, op>>
  BY DEF Exits, PtyExits, PtyExited, MarkExited, ui, rest
<1> QED BY <1>1, StaysEmpty, WasBareSame DEF RefillStep, Bare

\* The page of the main window always has a tab, or a call that is about to add
\* one (terminal-store.ts:468-470), but after a factory reset and when the
\* shell refuses the terminal of a new tab.
THEOREM StripRefilled == Spec => StripIsRefilled
<1>1. TabsInv /\ [Next]_vars => [RefillStep]_vars
  BY InputsRefill, AnswersRefill, ExitsRefill DEF Next
<1> QED BY <1>1, TabsInvariant, PTL DEF Spec, StripIsRefilled, RefillStep

-----------------------------------------------------------------------------
(* The end of a shell is marked                                            *)

\* The pane came with a call that opened its shell, or with a closePane.
Excused(p) ==
    \/ p \in Opening \ Shown
    \/ \E c \in Call : Finishes(c, {"closePane"}) /\ HasLeaf(op[c].seen, p)

DeadStep == \A p \in DeadUnmarked' \ DeadUnmarked : Excused(p)

LEMMA CarriedIsNew ==
    ASSUME TabsInv, NEW c \in Call, NEW l \in Leaf, Carries(op[c], l)
    PROVE  l \in Opening \ Shown
<1>1. \A t : ~Held(tabs, op, l, t)
  BY DEF TabsInv, CallsInv, OneOwner
<1>2. l \notin Shown
  BY <1>1, LeavesAre, HeldIs DEF Shown
<1> QED BY <1>2 DEF Opening, Carries

\* A shell leaves the PTYs and the events to come only by its event.
LEMMA PtysStay ==
    ASSUME Next
    PROVE  \/ pty \cup exits \subseteq pty' \cup exits'
           \/ \E id \in Leaf : PtyExited(id)
           \/ Relaunch
<1>1. CASE Inputs
  BY Zenon, <1>1 DEF Inputs, AddTabStart, CloseTabStart, SplitPaneStart, ClosePaneStart,
     ReplaceEmptyStart, ApplyPaneLayout, MountForLaunch, HydrateStart,
     ResetStart, SetActiveTab, FocusPane, SetFocusedLeaf, ToggleMaximize,
     RestoreMaximize, CloseWindow, StopAgentPane, Kill
<1>2. CASE Answers
  <2>1. PICK c \in Call :
          \/ AddAgentTab(c) \/ OpenTerminal(c) \/ OpenTerminalFails(c)
          \/ AddShellTab(c) \/ CloseTab(c) \/ CloseTabNoReSeed(c) \/ SplitPane(c)
          \/ ClosePane(c) \/ HydrateSeed(c) \/ HydrateOpen(c) \/ HydrateFinish(c)
          \/ LaunchOpen(c) \/ LaunchFinish(c) \/ ReplaceEmpty(c)
          \/ ReplaceEmptySendFails(c) \/ Reset(c)
    BY <1>2 DEF Answers
  <2>2. CASE HydrateOpen(c)
    BY <2>2, HydrateOpenIs DEF HydrateOpen
  <2>3. CASE LaunchOpen(c)
    BY <2>3 DEF LaunchOpen
  <2> QED
    BY <2>1, <2>2, <2>3 DEF AddAgentTab, OpenTerminal, OpenTerminalFails,
       AddShellTab, CloseTab, CloseTabNoReSeed, SplitPane, SplitWith, ClosePane,
       HydrateSeed, HydrateFinish, LaunchFinish, ReplaceEmpty,
       ReplaceEmptySendFails, Reset, Kill
<1>3. CASE Exits
  BY <1>3 DEF Exits, PtyExits, Kill
<1> QED BY <1>1, <1>2, <1>3 DEF Next

\* The leaves that the strip may get.
LEMMA DeadOfAdded ==
    ASSUME pty \cup exits \subseteq pty' \cup exits', NEW K, Adds(K),
           \A k \in K : \/ k \in LeavesOf(tabs) \/ k.kind = "agent"
                        \/ k.id \notin Leaf \/ Excused(k.id)
    PROVE  DeadStep
BY DEF Adds, DeadStep, DeadUnmarked

LEMMA DeadOfSame ==
    ASSUME pty \cup exits \subseteq pty' \cup exits',
           \A k \in LeavesOf(tabs') : k \in LeavesOf(tabs)
    PROVE  DeadStep
BY DEF DeadStep, DeadUnmarked

LEMMA CarriedAreExcused ==
    ASSUME TabsInv, NEW c \in Call,
           op[c].call \in OpensOne \cup {"launched", "rebuilt"}
    PROVE  \A k \in LeavesOf(op[c].got) : k.id \notin Leaf \/ Excused(k.id)
<1>1. \A k \in LeavesOf(op[c].got) : k.id \in LeafIdsOf(op[c].got)
  BY LeavesAre
<1>2. \A k \in LeavesOf(op[c].got) : k.id \in Leaf => Carries(op[c], k.id)
  BY <1>1 DEF Carries
<1> QED BY <1>2, CarriedIsNew DEF Excused

LEMMA DeadOfAnswers ==
    ASSUME TabsInv, NEW c \in Call, pty \cup exits \subseteq pty' \cup exits',
           \/ AddAgentTab(c) \/ AddShellTab(c) \/ CloseTab(c)
           \/ CloseTabNoReSeed(c) \/ SplitPane(c) \/ ClosePane(c)
           \/ HydrateSeed(c) \/ HydrateFinish(c) \/ LaunchFinish(c)
           \/ ReplaceEmpty(c) \/ Reset(c)
    PROVE  DeadStep
<1>1. CASE AddAgentTab(c) \/ HydrateSeed(c)
  <2>1. PICK l \in FreshLeaf, t \in FreshTab :
          Appended(NewTab(t, SingleLeaf(NewLeaf(l, "agent"))), l)
    BY <1>1 DEF AddAgentTab, HydrateSeed
  <2>2. Adds({NewLeaf(l, "agent")}) /\ NewLeaf(l, "agent").kind = "agent"
    BY <2>1, AgentTabMoves DEF NewLeaf
  <2> QED BY <2>2, DeadOfAdded
<1>2. CASE AddShellTab(c) \/ ReplaceEmpty(c)
  <2>1. op[c].call \in OpensOne /\ op[c].got # <<>> /\ Adds({Opened(c)})
    BY <1>2, AddShellTabMoves, ReplaceEmptyMoves DEF AddShellTab, ReplaceEmpty, OpensOne
  <2>2. Opened(c) \in LeavesOf(op[c].got)
    BY <2>1, OpenedHand
  <2> QED BY <2>1, <2>2, CarriedAreExcused, DeadOfAdded
<1>3. CASE CloseTab(c) \/ CloseTabNoReSeed(c)
  <2>1. Adds({})
    BY <1>3, WithoutMoves DEF CloseTab, CloseTabNoReSeed
  <2> QED BY <2>1, DeadOfAdded
<1>4. CASE SplitPane(c)
  <2>1. PICK leaf : /\ SplitWith(c, leaf)
                    /\ \/ \E l \in FreshLeaf : leaf = NewLeaf(l, "agent")
                       \/ op[c].got # <<>> /\ leaf = Opened(c)
    BY <1>4 DEF SplitPane
  <2>2. Adds({leaf}) /\ op[c].call \in OpensOne
    BY <1>4, <2>1, SplitWithMoves DEF SplitPane, OpensOne
  <2>3. leaf.kind = "agent" \/ leaf \in LeavesOf(op[c].got)
    BY <2>1, <2>2, OpenedHand DEF NewLeaf
  <2> QED BY <2>2, <2>3, CarriedAreExcused, DeadOfAdded
<1>5. CASE ClosePane(c)
  <2>1. op[c].call = "closePane" /\ op[c].seen \in GoodLayouts
    BY <1>5, CallIs DEF ClosePane, CallOK
  <2>2. CASE IsLastLeaf(op[c].seen, op[c].leaf)
    <3>1. tabs' = tabs
      BY <1>5, <2>2 DEF ClosePane, ui
    <3> QED BY <3>1, DeadOfSame
  <2>3. CASE ~IsLastLeaf(op[c].seen, op[c].leaf)
    <3>1. WriteClosed(op[c].leaf, op[c].tab, op[c].seen) /\ Done(c)
      BY <1>5, <2>3 DEF ClosePane
    <3>2. Adds(Range(op[c].seen)) /\ op'[c] # op[c]
      BY <2>1, <3>1, WriteClosedMoves, CallEnds
    <3>3. \A k \in Range(op[c].seen) : Excused(k.id)
      BY <2>1, <3>2, IdsOfLeaves DEF Excused, Finishes, HasLeaf
    <3> QED BY <3>2, <3>3, DeadOfAdded
  <2> QED BY <2>2, <2>3
<1>6. CASE HydrateFinish(c)
  <2>1. op[c].call = "rebuilt" /\ Adds(LeavesOf(op[c].got))
    BY <1>6 DEF HydrateFinish, Adds
  <2> QED BY <2>1, CarriedAreExcused, DeadOfAdded
<1>7. CASE LaunchFinish(c)
  <2>1. op[c].call = "launched" /\ Adds(LeavesOf(op[c].got))
    BY <1>7, LaunchFinishMoves DEF LaunchFinish
  <2> QED BY <2>1, CarriedAreExcused, DeadOfAdded
<1>8. CASE Reset(c)
  BY <1>8, NoLeaves, DeadOfSame DEF Reset
<1> QED BY <1>1, <1>2, <1>3, <1>4, <1>5, <1>6, <1>7, <1>8

LEMMA ClosePaneStartAdds ==
    ASSUME TabsInv, NEW c \in Call, NEW id, ClosePaneStart(c, id)
    PROVE  \A k \in LeavesOf(tabs') : k \in LeavesOf(tabs)
<1> DEFINE L == TabOf(tabs, activeTabId).layout
<1>1. L \in GoodLayouts /\ \A k \in Range(L) : k \in LeavesOf(tabs)
  BY ShownTab, TabFits DEF ClosePaneStart
<1>2. tabs' = tabs \/ WriteClosed(id, activeTabId, L)
  BY DEF ClosePaneStart, ui
<1> HIDE DEF L
<1> QED BY <1>1, <1>2, WriteClosedMoves DEF Adds

LEMMA DeadNext == ASSUME TabsInv, Next PROVE DeadStep
<1>1. CASE \E id \in Leaf : PtyExited(id)
  <2>1. PICK id \in Leaf : PtyExited(id)
    BY <1>1
  <2>2. pty' = pty /\ exits' = exits \ {id}
    BY <2>1 DEF PtyExited
  <2> SUFFICES ASSUME NEW k \in LeavesOf(tabs'), k.kind = "shell", k.id \in Leaf,
                      k.id \notin pty' \cup exits', ~k.exited,
                      k.id \notin DeadUnmarked
               PROVE  FALSE
    BY DEF DeadStep, DeadUnmarked
  <2>3. k \in LeavesOf(tabs) /\ k.id # id
    BY <2>1, PtyExitedMoves
  <2> QED BY <2>2, <2>3 DEF DeadUnmarked
<1>2. CASE Relaunch
  BY <1>2, NoLeaves DEF Relaunch, DeadStep, DeadUnmarked
<1>3. CASE pty \cup exits \subseteq pty' \cup exits'
  <2>1. CASE UNCHANGED tabs
    BY <1>3, <2>1, DeadOfSame
  <2>2. ASSUME NEW c \in Call, NEW id, ClosePaneStart(c, id) PROVE DeadStep
    BY <1>3, <2>2, ClosePaneStartAdds, DeadOfSame
  <2>3. ASSUME NEW id \in Leaf, StopAgentPane(id) PROVE DeadStep
    BY <1>3, <2>3, StopAgentMoves, DeadOfSame
  <2> QED BY <1>1, <1>2, <1>3, <2>1, <2>2, <2>3, StripSteps, DeadOfAnswers
<1> QED BY <1>1, <1>2, <1>3, PtysStay

\* The end of a shell reaches its pane: a pane of the strip whose shell is gone,
\* with no event to come, is marked, unless the event came while the call that
\* opened the shell had not yet put the pane into the strip, or a closePane
\* writes back a layout from before the end.
THEOREM DeadShellMarked == Spec => DeadShellIsMarked
<1>1. TabsInv /\ [Next]_vars => [DeadStep]_vars
  BY DeadNext
<1> QED
  BY <1>1, TabsInvariant, PTL DEF Spec, DeadShellIsMarked, DeadStep, Excused

-----------------------------------------------------------------------------
(* The focus stays on screen                                               *)

Focused == focusedLeafId = None \/ TabHas(tabs, focusedLeafId, activeTabId)

LEMMA ScreenIs ==
    ASSUME NEW strip, GoodStrip(strip), NEW id, Active(strip, id)
    PROVE  \A l : TabHas(strip, l, id) <=>
             l \in IF strip = <<>> THEN {}
                   ELSE CollectLeafIds(TabOf(strip, id).layout)
<1>1. CASE strip = <<>>
  BY <1>1, NoStrip
<1>2. CASE strip # <<>>
  <2>1. id \in TabIdsOf(strip)
    BY <1>2 DEF Active
  <2> QED BY <1>2, <2>1, TabHasIs
<1> QED BY <1>1, <1>2

LEMMA FocusedIs ==
    ASSUME TabsInv, TabsInv'
    PROVE  (FocusLost <=> ~Focused) /\ (FocusLost' <=> ~Focused')
<1>1. /\ GoodStrip(tabs) /\ Active(tabs, activeTabId)
      /\ GoodStrip(tabs') /\ Active(tabs', activeTabId')
  BY DEF TabsInv
<1>2. /\ \A l : TabHas(tabs, l, activeTabId) <=> l \in OnScreen
      /\ \A l : TabHas(tabs', l, activeTabId') <=> l \in OnScreen'
  BY <1>1, ScreenIs DEF OnScreen
<1> QED BY <1>2 DEF FocusLost, Focused

LEMMA FirstIsThere ==
    ASSUME NEW strip, GoodStrip(strip), NEW t \in TabIdsOf(strip)
    PROVE  TabHas(strip, FirstLeafId(TabOf(strip, t).layout), t)
<1>1. /\ TabOf(strip, t).layout \in Layouts
      /\ \A l \in CollectLeafIds(TabOf(strip, t).layout) : TabHas(strip, l, t)
  BY TabOfParts, GoodTabParts
<1> QED BY <1>1, LayoutParts

\* The step focuses a pane of the tab that it adds.
LEMMA AppendFocus ==
    ASSUME TabsInv, NEW t \in Tab, NEW L \in GoodLayouts,
           tabs' = Append(tabs, NewTab(t, L)), activeTabId' = t,
           focusedLeafId' \in CollectLeafIds(L)
    PROVE  Focused'
<1> DEFINE n == NewTab(t, L)
<1>1. n \in GoodTabs /\ n.id = t /\ n.layout = L
  BY GoodTabIs
<1>2. GoodStrip(tabs) /\ tabs' = Append(tabs, n)
  BY DEF TabsInv
<1> HIDE DEF n
<1>3. \A l : l \in CollectLeafIds(L) => TabHas(tabs', l, t)
  BY <1>1, <1>2, AppendLeaves
<1> QED BY <1>3 DEF Focused

LEMMA AddedFocus ==
    ASSUME TabsInv, NEW c \in Call,
           AddAgentTab(c) \/ HydrateSeed(c) \/ AddShellTab(c)
    PROVE  Focused'
<1>1. PICK leaf \in LeafType, t \in FreshTab :
        leaf.id \in Leaf /\ Appended(NewTab(t, SingleLeaf(leaf)), leaf.id)
  <2>1. CASE AddAgentTab(c) \/ HydrateSeed(c)
    <3>1. PICK l \in FreshLeaf, t \in FreshTab :
            Appended(NewTab(t, SingleLeaf(NewLeaf(l, "agent"))), l)
      BY <2>1 DEF AddAgentTab, HydrateSeed
    <3>2. l \in Leaf /\ NewLeaf(l, "agent") \in LeafType /\ NewLeaf(l, "agent").id = l
      BY FreshLeafParts, NewLeafIs
    <3> QED BY <3>1, <3>2
  <2>2. CASE AddShellTab(c)
    <3>1. Opened(c) \in LeafType /\ Opened(c).id \in Leaf
      BY <2>2, OpenedHand DEF AddShellTab, OpensOne
    <3> QED BY <2>2, <3>1 DEF AddShellTab
  <2> QED BY <2>1, <2>2
<1> DEFINE L == SingleLeaf(leaf)
<1>2. L \in GoodLayouts /\ CollectLeafIds(L) = {leaf.id} /\ t \in Tab
  BY <1>1, SingleIsGood, FreshTabParts
<1>3. /\ tabs' = Append(tabs, NewTab(t, L)) /\ activeTabId' = t
      /\ focusedLeafId' = leaf.id
  BY <1>1 DEF Appended, NewTab
<1> HIDE DEF L
<1> QED BY <1>2, <1>3, AppendFocus

LEMMA LaunchFinishFocus ==
    ASSUME TabsInv, NEW c \in Call, LaunchFinish(c)
    PROVE  Focused'
<1>1. PICK t \in FreshTab :
        /\ tabs' = Append(tabs, NewTab(t, op[c].got[1].layout))
        /\ activeTabId' = t
  BY DEF LaunchFinish
<1>2. PICK L \in GoodLayouts : op[c].got[1].layout = L
  BY LaunchedHand DEF LaunchFinish
<1>3. focusedLeafId' = FirstReal(L) /\ t \in Tab
  BY <1>2, FreshTabParts DEF LaunchFinish
<1>4. FirstReal(L) \in CollectLeafIds(L)
  BY FirstRealIs DEF GoodLayouts
<1> QED BY <1>1, <1>2, <1>3, <1>4, AppendFocus

\* The focus goes to the first pane of the tab on screen.
LEMMA FirstFocus ==
    ASSUME TabsInv', activeTabId' \in TabIdsOf(tabs'),
           focusedLeafId' = FirstLeafId(TabOf(tabs', activeTabId').layout)
    PROVE  Focused'
<1>1. GoodStrip(tabs')
  BY DEF TabsInv
<1>2. TabHas(tabs', focusedLeafId', activeTabId')
  BY <1>1, FirstIsThere
<1> QED BY <1>2 DEF Focused

LEMMA WithoutFocus ==
    ASSUME TabsInv', NEW t, NEW ids, Without(t, ids)
    PROVE  Focused'
<1> DEFINE r == WithoutTab(tabs, t)
           next == IF activeTabId = t THEN r[1].id ELSE activeTabId
<1>1. /\ tabs' = r
      /\ IF r = <<>> THEN focusedLeafId' = None
         ELSE /\ activeTabId' = next
              /\ focusedLeafId' = FirstLeafId(TabOf(r, next).layout)
  BY DEF Without
<1> HIDE DEF r, next
<1>2. CASE r = <<>>
  BY <1>1, <1>2 DEF Focused
<1>3. CASE r # <<>>
  <2>1. activeTabId' \in TabIdsOf(tabs')
    BY <1>1, <1>3 DEF TabsInv, Active
  <2> QED BY <1>1, <1>3, <2>1, FirstFocus
<1> QED BY <1>2, <1>3

\* The pane is closed in the layout as it is.
LEMMA WriteClosedFocus ==
    ASSUME TabsInv, Focused, NEW t \in TabIdsOf(tabs), NEW id,
           id \in CollectLeafIds(TabOf(tabs, t).layout),
           id \in Leaf \/ t = activeTabId,
           WriteClosed(id, t, TabOf(tabs, t).layout)
    PROVE  Focused'
<1> DEFINE L == TabOf(tabs, t).layout
           M == CloseLeaf(L, id)
<1>1. GoodStrip(tabs)
  BY DEF TabsInv
<1>2. L \in GoodLayouts
  BY <1>1, TabOfParts
<1>3. /\ tabs' = WithLayout(tabs, t, M) /\ activeTabId' = activeTabId
      /\ focusedLeafId' = IF focusedLeafId = id THEN FirstLeafId(M) ELSE focusedLeafId
  BY DEF WriteClosed
<1>4. \A l : TabHas(tabs, l, t) <=> l \in CollectLeafIds(L)
  BY <1>1, TabHasIs
<1>5. /\ FirstLeafId(M) \in CollectLeafIds(M)
      /\ CollectLeafIds(L) \subseteq CollectLeafIds(M) \cup {id}
  BY <1>2, ClosedIsGood, ClosedLeaves, LayoutParts DEF GoodLayouts
<1>6. id \in CollectLeafIds(L)
  OBVIOUS
<1> HIDE DEF M, L
<1>7. \A l, u : TabHas(tabs', l, u) <=>
        \/ u # t /\ TabHas(tabs, l, u)
        \/ u = t /\ t \in TabIdsOf(tabs) /\ l \in CollectLeafIds(M)
  BY <1>1, <1>3, WithLeaves
<1>8. CASE focusedLeafId = id
  <2>1. t = activeTabId
    <3>1. id \in Leaf \cup Pending /\ id # None
      BY <1>2, <1>6, TabsAssumption DEF GoodLayouts, TabsAssumption
    <3>2. TabHas(tabs, id, activeTabId) /\ TabHas(tabs, id, t)
      BY <1>4, <1>6, <1>8, <3>1 DEF Focused
    <3>3. id \in Leaf => t = activeTabId
      BY <3>2, HeldIs DEF TabsInv, CallsInv, OneOwner
    <3> QED BY <3>3
  <2> QED BY <1>3, <1>5, <1>7, <1>8, <2>1 DEF Focused
<1>9. CASE focusedLeafId # id
  BY <1>3, <1>4, <1>5, <1>7, <1>9 DEF Focused
<1> QED BY <1>8, <1>9

\* A call that had opened a pane, or closes one, ends.
LateWrite ==
    \E c \in Call : Finishes(c, {"splitPane", "replaceEmptyLeaf", "closePane"})

LEMMA PointerSteps ==
    ASSUME Next
    PROVE  \/ UNCHANGED ui
           \/ \E c \in Call :
                \/ AddAgentTab(c) \/ AddShellTab(c) \/ CloseTab(c)
                \/ CloseTabNoReSeed(c) \/ SplitPane(c) \/ ClosePane(c)
                \/ HydrateSeed(c) \/ HydrateFinish(c) \/ LaunchFinish(c)
                \/ ReplaceEmpty(c) \/ Reset(c)
           \/ \E c \in Call, id \in Leaf \cup Pending : ClosePaneStart(c, id)
           \/ \E id \in Leaf : StopAgentPane(id) \/ PtyExited(id)
           \/ Relaunch
           \/ \E id \in Tab : SetActiveTab(id)
           \/ \E id \in Leaf : FocusPane(id)
           \/ \E id \in Leaf \cup Pending : SetFocusedLeaf(id) \/ ToggleMaximize(id)
           \/ RestoreMaximize
<1>1. CASE Inputs
  BY Zenon, <1>1 DEF Inputs, AddTabStart, CloseTabStart, SplitPaneStart,
     ReplaceEmptyStart, ApplyPaneLayout, MountForLaunch, HydrateStart,
     ResetStart, CloseWindow
<1>2. CASE Answers
  BY Zenon, <1>2 DEF Answers, OpenTerminal, OpenTerminalFails, HydrateOpen, LaunchOpen,
     ReplaceEmptySendFails
<1>3. CASE Exits
  BY <1>3 DEF Exits, PtyExits
<1> QED BY <1>1, <1>2, <1>3 DEF Next

LEMMA FocusOfAnswers ==
    ASSUME TabsInv, TabsInv', Focused, NEW c \in Call,
           \/ AddAgentTab(c) \/ AddShellTab(c) \/ CloseTab(c)
           \/ CloseTabNoReSeed(c) \/ SplitPane(c) \/ ClosePane(c)
           \/ HydrateSeed(c) \/ HydrateFinish(c) \/ LaunchFinish(c)
           \/ ReplaceEmpty(c) \/ Reset(c)
    PROVE  Focused' \/ LateWrite
<1>1. CASE AddAgentTab(c) \/ HydrateSeed(c) \/ AddShellTab(c)
  BY <1>1, AddedFocus
<1>2. CASE LaunchFinish(c)
  BY <1>2, LaunchFinishFocus
<1>3. CASE CloseTab(c) \/ CloseTabNoReSeed(c)
  BY <1>3, WithoutFocus DEF CloseTab, CloseTabNoReSeed
<1>4. CASE SplitPane(c) \/ ReplaceEmpty(c)
  <2>1. op[c].call \in {"splitPane", "replaceEmptyLeaf"} /\ Done(c)
    BY <1>4 DEF SplitPane, SplitWith, ReplaceEmpty
  <2> QED BY <2>1, CallEnds DEF LateWrite, Finishes
<1>5. CASE ClosePane(c)
  <2>1. CASE UNCHANGED ui
    BY <2>1 DEF ui, Focused
  <2>2. CASE Done(c)
    BY <1>5, <2>2, CallEnds DEF ClosePane, LateWrite, Finishes
  <2> QED BY <1>5, <2>1, <2>2 DEF ClosePane
<1>6. CASE HydrateFinish(c)
  <2>1. tabs' = op[c].got /\ op[c].got # <<>>
    BY <1>6, CallIs DEF HydrateFinish, CallOK
  <2>2. activeTabId' \in TabIdsOf(tabs')
    BY <2>1 DEF TabsInv, Active
  <2> QED BY <1>6, <2>2, FirstFocus DEF HydrateFinish
<1>7. CASE Reset(c)
  BY <1>7 DEF Reset, Focused
<1> QED BY <1>1, <1>2, <1>3, <1>4, <1>5, <1>6, <1>7

LEMMA FocusOfInputs ==
    ASSUME TabsInv, TabsInv', Focused,
           \/ \E id \in Tab : SetActiveTab(id)
           \/ \E id \in Leaf : FocusPane(id)
           \/ \E id \in Leaf \cup Pending : SetFocusedLeaf(id) \/ ToggleMaximize(id)
           \/ RestoreMaximize
    PROVE  Focused'
<1>1. ASSUME NEW id \in Tab, SetActiveTab(id) PROVE Focused'
  BY <1>1, FirstFocus DEF SetActiveTab
<1>2. ASSUME NEW id \in Leaf, FocusPane(id) PROVE Focused'
  <2> DEFINE t == CHOOSE t \in TabIdsOf(tabs) : HasLeaf(TabOf(tabs, t).layout, id)
  <2>1. t \in TabIdsOf(tabs) /\ HasLeaf(TabOf(tabs, t).layout, id)
    BY <1>2, OwnerTab DEF FocusPane
  <2>2. activeTabId' = t /\ focusedLeafId' = id /\ tabs' = tabs
    BY <1>2 DEF FocusPane
  <2> HIDE DEF t
  <2>3. TabHas(tabs, id, t)
    BY <2>1, TabHasIs DEF TabsInv, HasLeaf
  <2> QED BY <2>2, <2>3 DEF Focused
<1>3. ASSUME NEW id, SetFocusedLeaf(id) PROVE Focused'
  BY <1>3, ShownTab DEF SetFocusedLeaf, Focused
<1>4. ASSUME NEW id, ToggleMaximize(id) PROVE Focused'
  <2>1. /\ tabs' = tabs /\ activeTabId' = activeTabId
        /\ focusedLeafId' \in {focusedLeafId, id}
    BY <1>4 DEF ToggleMaximize
  <2>2. \/ id = focusedLeafId
        \/ tabs # <<>> /\ id \in CollectLeafIds(TabOf(tabs, activeTabId).layout)
    BY <1>4 DEF ToggleMaximize, InHand
  <2> QED BY <2>1, <2>2, ShownTab DEF Focused
<1>5. CASE RestoreMaximize
  BY <1>5 DEF RestoreMaximize, Focused
<1> QED BY <1>1, <1>2, <1>3, <1>4, <1>5

LEMMA FocusNext == ASSUME TabsInv, TabsInv', Focused, Next PROVE Focused' \/ LateWrite
<1>1. CASE UNCHANGED ui
  BY <1>1 DEF ui, Focused
<1>2. ASSUME NEW c \in Call, NEW id, ClosePaneStart(c, id) PROVE Focused'
  <2>1. CASE UNCHANGED ui
    BY <2>1 DEF ui, Focused
  <2>2. CASE /\ HasLeaf(TabOf(tabs, activeTabId).layout, id)
             /\ WriteClosed(id, activeTabId, TabOf(tabs, activeTabId).layout)
    <3>1. activeTabId \in TabIdsOf(tabs)
      BY <1>2, ShownTab DEF ClosePaneStart
    <3> QED BY <2>2, <3>1, WriteClosedFocus DEF HasLeaf
  <2> QED BY <1>2, <2>1, <2>2 DEF ClosePaneStart
<1>3. ASSUME NEW id \in Leaf, StopAgentPane(id) PROVE Focused'
  <2>1. PICK t \in TabIdsOf(tabs) :
          LET L == TabOf(tabs, t).layout
          IN  /\ id \in CollectLeafIds(L) /\ L \in GoodLayouts
              /\ \/ IsLastLeaf(L, id) /\ Without(t, {id})
                 \/ ~IsLastLeaf(L, id) /\ WriteClosed(id, t, L)
    BY <1>3, StopAgentIs
  <2> QED BY <2>1, WithoutFocus, WriteClosedFocus
<1>4. ASSUME NEW id, PtyExited(id) PROVE Focused'
  <2> DEFINE r == [i \in DOMAIN tabs |->
                     [tabs[i] EXCEPT !.layout = MarkLeafExited(@, id)]]
  <2>1. /\ tabs' = r /\ GoodStrip(tabs)
        /\ activeTabId' = activeTabId /\ focusedLeafId' = focusedLeafId
    BY <1>4 DEF PtyExited, MarkExited, TabsInv
  <2>2. \A l, u : TabHas(r, l, u) <=> TabHas(tabs, l, u)
    BY <2>1, MarkLeaves
  <2> HIDE DEF r
  <2> QED BY <2>1, <2>2 DEF Focused
<1>5. CASE Relaunch
  BY <1>5 DEF Relaunch, Focused
<1> QED
  BY <1>1, <1>2, <1>3, <1>4, <1>5, PointerSteps, FocusOfAnswers, FocusOfInputs

-----------------------------------------------------------------------------
(* The maximized pane stays in the strip                                   *)

\* Why the maximized pane may be gone.
MaximizedGone ==
    \/ FocusLost /\ maximizedLeafId' = focusedLeafId
    \/ \E c \in Call :
         \/ LateFor(c, maximizedLeafId)
         \/ Finishes(c, {"rebuilt"})
         \/ /\ Finishes(c, {"replaceEmptyLeaf"})
            /\ op[c].leaf = maximizedLeafId

MaxStep == ~MaximizedLost /\ MaximizedLost' => MaximizedGone

LEMMA MaximizedIs ==
    ASSUME Next
    PROVE  \/ maximizedLeafId' \in {maximizedLeafId, None}
           \/ UNCHANGED tabs /\ \E id \in Leaf \cup Pending : ToggleMaximize(id)
<1>1. CASE UNCHANGED ui
  BY <1>1 DEF ui
<1>2. ASSUME NEW c \in Call,
             \/ AddAgentTab(c) \/ AddShellTab(c) \/ CloseTab(c)
             \/ CloseTabNoReSeed(c) \/ SplitPane(c) \/ ClosePane(c)
             \/ HydrateSeed(c) \/ HydrateFinish(c) \/ LaunchFinish(c)
             \/ ReplaceEmpty(c) \/ Reset(c)
      PROVE  maximizedLeafId' \in {maximizedLeafId, None}
  BY <1>2 DEF AddAgentTab, AddShellTab, Appended, CloseTab, CloseTabNoReSeed,
     Without, SplitPane, SplitWith, ClosePane, WriteClosed, HydrateSeed,
     HydrateFinish, LaunchFinish, ReplaceEmpty, Reset, ui
<1>3. ASSUME NEW c \in Call, NEW id, ClosePaneStart(c, id)
      PROVE  maximizedLeafId' \in {maximizedLeafId, None}
  BY <1>3 DEF ClosePaneStart, WriteClosed, ui
<1>4. ASSUME NEW id, StopAgentPane(id) \/ PtyExited(id)
      PROVE  maximizedLeafId' \in {maximizedLeafId, None}
  BY <1>4 DEF StopAgentPane, WriteClosed, Without, PtyExited, MarkExited
<1>5. ASSUME NEW id, SetActiveTab(id) \/ FocusPane(id) \/ SetFocusedLeaf(id)
      PROVE  maximizedLeafId' \in {maximizedLeafId, None}
  BY <1>5 DEF SetActiveTab, FocusPane, SetFocusedLeaf
<1>6. CASE Relaunch \/ RestoreMaximize
  BY <1>6 DEF Relaunch, RestoreMaximize
<1>7. ASSUME NEW id, ToggleMaximize(id) PROVE UNCHANGED tabs
  BY <1>7 DEF ToggleMaximize
<1> QED BY <1>1, <1>2, <1>3, <1>4, <1>5, <1>6, <1>7, PointerSteps

LEMMA ScreenIsShown ==
    ASSUME TabsInv
    PROVE  OnScreen \subseteq Shown
<1>1. CASE tabs = <<>>
  BY <1>1 DEF OnScreen
<1>2. CASE tabs # <<>>
  BY <1>2, ShownTab, LeavesAre DEF OnScreen, Shown
<1> QED BY <1>1, <1>2

LEMMA ShownArePanes ==
    ASSUME TabsInv
    PROVE  Shown \subseteq Leaf \cup Pending
<1>1. \A i \in DOMAIN tabs : tabs[i].layout \in GoodLayouts
  BY StripParts, GoodTabParts DEF TabsInv, GoodStrip
<1> QED BY <1>1 DEF Shown, LeafIdsOf, GoodLayouts

\* The maximized pane is not taken out of the strip, or it is no longer
\* maximized.
LEMMA MaxOfTaken ==
    ASSUME NEW G, Takes(G), maximizedLeafId' \in {maximizedLeafId, None},
           maximizedLeafId \in G =>
             maximizedLeafId' = None \/ MaximizedGone
    PROVE  MaxStep
BY DEF Takes, MaxStep, MaximizedLost

LEMMA MaxOfAnswers ==
    ASSUME TabsInv, NEW c \in Call, maximizedLeafId' \in {maximizedLeafId, None},
           \/ AddAgentTab(c) \/ AddShellTab(c) \/ CloseTab(c)
           \/ CloseTabNoReSeed(c) \/ SplitPane(c) \/ ClosePane(c)
           \/ HydrateSeed(c) \/ HydrateFinish(c) \/ LaunchFinish(c)
           \/ ReplaceEmpty(c) \/ Reset(c)
    PROVE  MaxStep
<1>1. CASE AddAgentTab(c) \/ HydrateSeed(c) \/ AddShellTab(c) \/ LaunchFinish(c)
           \/ SplitPane(c)
  <2>1. Takes({})
    BY <1>1, AgentTabMoves, AddShellTabMoves, LaunchFinishMoves, SplitWithMoves
       DEF AddAgentTab, HydrateSeed, SplitPane
  <2> QED BY <2>1, MaxOfTaken
<1>2. CASE ReplaceEmpty(c)
  <2>1. op[c].call = "replaceEmptyLeaf" /\ op'[c] # op[c]
    BY <1>2, CallEnds DEF ReplaceEmpty
  <2>2. Takes({op[c].leaf})
    BY <1>2, ReplaceEmptyMoves
  <2> QED BY <2>1, <2>2, MaxOfTaken DEF MaximizedGone, Finishes
<1>3. CASE HydrateFinish(c)
  <2>1. op[c].call = "rebuilt" /\ op'[c] # op[c]
    BY <1>3, CallEnds DEF HydrateFinish
  <2> QED BY <2>1 DEF MaxStep, MaximizedGone, Finishes
<1>4. CASE Reset(c)
  BY <1>4 DEF Reset, MaxStep, MaximizedLost
<1>5. CASE CloseTab(c) \/ CloseTabNoReSeed(c)
  <2>1. op[c].call \in {"closeTab", "closeTabNoReSeed"}
    BY <1>5 DEF CloseTab, CloseTabNoReSeed
  <2>2. op'[c] # op[c]
    BY <1>5, CloseTabEnds DEF Finishes
  <2>3. /\ \A l \in Shown : l \in Shown' \/ TabHas(tabs, l, op[c].tab)
        /\ maximizedLeafId \in Unmaximized(c) => maximizedLeafId' = None
    BY <1>5, WithoutMoves DEF CloseTab, CloseTabNoReSeed, Without
  <2> DEFINE G == {l \in Shown : TabHas(tabs, l, op[c].tab)}
  <2>4. Takes(G)
    BY <2>3 DEF Takes
  <2>5. ASSUME maximizedLeafId \in G, maximizedLeafId' # None
        PROVE  MaximizedGone
    <3>1. maximizedLeafId \in Leaf \cup Pending /\ maximizedLeafId \notin Unmaximized(c)
      BY <2>3, <2>5, ShownArePanes
    <3>2. maximizedLeafId \notin CollectLeafIds(op[c].seen)
      BY <3>1 DEF Unmaximized
    <3> QED BY <2>1, <2>2, <2>5, <3>2 DEF MaximizedGone, LateFor, Finishes
  <2> HIDE DEF G
  <2> QED BY <2>4, <2>5, MaxOfTaken
<1>6. CASE ClosePane(c)
  <2>1. op[c].call = "closePane" /\ op[c].seen \in GoodLayouts
    BY <1>6, CallIs DEF ClosePane, CallOK
  <2>2. CASE UNCHANGED ui
    BY <2>2 DEF ui, MaxStep, MaximizedLost, Shown
  <2>3. CASE WriteClosed(op[c].leaf, op[c].tab, op[c].seen) /\ Done(c)
    <3>1. op'[c] # op[c]
      BY <2>1, <2>3, CallEnds
    <3> DEFINE G == {l \in Shown : \/ l = op[c].leaf
                                    \/ l \notin CollectLeafIds(op[c].seen)}
    <3>2. Takes(G)
      BY <2>1, <2>3, WriteClosedMoves DEF Takes
    <3>3. maximizedLeafId = op[c].leaf => maximizedLeafId' = None
      BY <2>3 DEF WriteClosed
    <3>4. ASSUME maximizedLeafId \in G, maximizedLeafId' # None
          PROVE  MaximizedGone
      BY <2>1, <3>1, <3>3, <3>4 DEF MaximizedGone, LateFor, Finishes
    <3> HIDE DEF G
    <3> QED BY <3>2, <3>4, MaxOfTaken
  <2> QED BY <1>6, <2>2, <2>3 DEF ClosePane
<1> QED BY <1>1, <1>2, <1>3, <1>4, <1>5, <1>6

LEMMA MaxNext == ASSUME TabsInv, Next PROVE MaxStep
<1>1. ASSUME NEW id, ToggleMaximize(id), UNCHANGED tabs PROVE MaxStep
  <2>1. Shown' = Shown
    BY <1>1 DEF Shown
  <2>2. CASE maximizedLeafId' = None
    BY <2>2 DEF MaxStep, MaximizedLost
  <2>3. CASE maximizedLeafId' = id /\ id \notin Shown /\ id # None
    <3>1. id = focusedLeafId /\ id \notin OnScreen
      BY <1>1, <2>3, ScreenIsShown DEF ToggleMaximize, InHand, OnScreen
    <3> QED BY <2>3, <3>1 DEF MaxStep, MaximizedGone, FocusLost
  <2> QED BY <1>1, <2>1, <2>2, <2>3 DEF ToggleMaximize, MaxStep, MaximizedLost
<1>2. CASE maximizedLeafId' \in {maximizedLeafId, None}
  <2>1. CASE UNCHANGED tabs
    BY <1>2, <2>1 DEF MaxStep, MaximizedLost, Shown
  <2>2. ASSUME NEW c \in Call, NEW id, ClosePaneStart(c, id) PROVE MaxStep
    <3> DEFINE L == TabOf(tabs, activeTabId).layout
    <3>1. activeTabId \in TabIdsOf(tabs) /\ L \in GoodLayouts
      BY <2>2, ShownTab DEF ClosePaneStart
    <3>2. CASE WriteClosed(id, activeTabId, L)
      <4>1. \A l : TabHas(tabs, l, activeTabId) => l \in CollectLeafIds(L)
        BY <3>1, TabHasIs DEF TabsInv
      <4> HIDE DEF L
      <4>2. Takes({id})
        BY <3>1, <3>2, <4>1, WriteClosedMoves DEF Takes
      <4>3. maximizedLeafId = id => maximizedLeafId' = None
        BY <3>2 DEF WriteClosed
      <4> QED BY <1>2, <4>2, <4>3, MaxOfTaken
    <3> QED BY <2>1, <2>2, <3>2 DEF ClosePaneStart, ui
  <2>3. ASSUME NEW id \in Leaf, StopAgentPane(id) PROVE MaxStep
    <3>1. Takes({id})
      BY <2>3, StopAgentMoves
    <3>2. maximizedLeafId = id => maximizedLeafId' = None
      BY <2>3 DEF StopAgentPane, WriteClosed, Without
    <3> QED BY <1>2, <3>1, <3>2, MaxOfTaken
  <2>4. ASSUME NEW id, PtyExited(id) PROVE MaxStep
    BY <1>2, <2>4, PtyExitedMoves DEF MaxStep, MaximizedLost
  <2>5. CASE Relaunch
    BY <2>5 DEF Relaunch, MaxStep, MaximizedLost
  <2> QED BY <1>2, <2>1, <2>2, <2>3, <2>4, <2>5, StripSteps, MaxOfAnswers
<1> QED BY <1>1, <1>2, MaximizedIs

PointersStep == /\ ~FocusLost /\ FocusLost' => LateWrite
                /\ ~MaximizedLost /\ MaximizedLost' => MaximizedGone

\* The keys act on a pane of the tab on screen, and the maximized pane is in the
\* strip, but for the calls that finish late: for a pane or a tab that is no
\* longer where they had found it, or with a layout read before (terminal-store.ts
\* setState after each await).
THEOREM PointersShown == Spec => PointersAreShown
<1>1. TabsInv /\ TabsInv' /\ [Next]_vars => [PointersStep]_vars
  BY FocusNext, FocusedIs, MaxNext DEF PointersStep, MaxStep
<1>2. TabsInv /\ [Next]_vars => TabsInv'
  BY TabsNext
<1> QED
  BY <1>1, <1>2, TabsInvariant, PTL
     DEF Spec, PointersAreShown, PointersStep, MaximizedGone, LateWrite

-----------------------------------------------------------------------------
(* What a PTY is lost by                                                    *)

Lost(p) ==
    \/ \E c \in Call : LateFor(c, p) \/ TargetGone(c, p) \/ Replaced(c, p)
    \/ p \in Shown /\ \E c \in Call : Finishes(c, {"rebuilt"})
    \/ p \notin pty /\ \E c \in Call : Finishes(c, {"hydrate", "launch"})
    \/ \E c \in Call : /\ Finishes(c, {"replaceEmptyLeaf"})
                       /\ p \in LeafIdsOf(op[c].got) /\ UNCHANGED tabs
    \/ win' = "closed" /\ p \in Opening

LostStep == \A p \in Orphans' \ Orphans : Lost(p)

\* The step does not lose the PTY: a pane shows it, a call has it, or its child
\* has ended.
Kept(p) == p \in Shown' \/ p \in Opening' \/ p \notin pty'

\* Only the call c goes on, and no PTY is new.
LEMMA LostOfCall ==
    ASSUME NEW c \in Call, \A d \in Call : d # c => op'[d] = op[d],
           pty' \subseteq pty,
           \A p \in Shown : Kept(p) \/ Lost(p),
           \A p \in LeafIdsOf(op[c].got) : Kept(p) \/ Lost(p)
    PROVE  LostStep
<1>1. \A p \in Opening : p \in Opening' \/ p \in LeafIdsOf(op[c].got)
  BY DEF Opening
<1> QED BY <1>1 DEF LostStep, Orphans, Kept

LEMMA LostOfSame ==
    ASSUME Shown' = Shown, op' = op, pty' \subseteq pty
    PROVE  LostStep
BY DEF LostStep, Orphans, Opening

\* A call starts: what it had in hand was nothing.
LEMMA LostOfStart ==
    ASSUME TabsInv, NEW c \in Call, ~Busy(c), NEW x, op' = [op EXCEPT ![c] = x],
           UNCHANGED <<tabs, pty>>
    PROVE  LostStep
<1>1. /\ \A d \in Call : d # c => op'[d] = op[d]
      /\ op[c].got = <<>>
  BY CallIs DEF Busy, CallOK, OpensOne
<1>2. LeafIdsOf(op[c].got) = {} /\ Shown' = Shown
  BY <1>1, NoStrip DEF Shown
<1> QED BY <1>1, <1>2, LostOfCall DEF Kept

\* A shell that a call has in hand, and one that the strip shows.
LEMMA ShellInHand ==
    ASSUME KindsInv, NEW c \in Call, NEW p \in pty
    PROVE  /\ p \in CollectLeafIds(op[c].seen) => p \in ShellIds(op[c].seen)
           /\ p \in LeafIdsOf(op[c].got) =>
                \E i \in DOMAIN op[c].got : p \in ShellIds(op[c].got[i].layout)
<1>1. \A k \in Hand(op[c]) : k.id = p => k.kind = "shell"
  BY DEF KindsInv, Known
<1>2. p \in CollectLeafIds(op[c].seen) => p \in ShellIds(op[c].seen)
  BY <1>1, IdsOfLeaves DEF Hand, ShellIds
<1>3. ASSUME p \in LeafIdsOf(op[c].got)
      PROVE  \E i \in DOMAIN op[c].got : p \in ShellIds(op[c].got[i].layout)
  <2>1. PICK k \in LeavesOf(op[c].got) : k.id = p
    BY <1>3, LeavesAre
  <2>2. k.kind = "shell"
    BY <1>1, <2>1 DEF Hand
  <2>3. PICK i \in DOMAIN op[c].got : k \in Range(op[c].got[i].layout)
    BY <2>1 DEF LeavesOf
  <2> QED BY <2>1, <2>2, <2>3 DEF ShellIds
<1> QED BY <1>2, <1>3

\* A call that has opened nothing.
LEMMA LostOfEmptyHanded ==
    ASSUME TabsInv, NEW c \in Call, op[c].got = <<>>,
           \A d \in Call : d # c => op'[d] = op[d], pty' \subseteq pty,
           \A p \in Shown : Kept(p) \/ Lost(p)
    PROVE  LostStep
<1>1. LeafIdsOf(op[c].got) = {}
  BY NoStrip
<1> QED BY <1>1, LostOfCall

LEMMA OneCallEnds ==
    ASSUME TabsInv, NEW c \in Call, Done(c)
    PROVE  \A d \in Call : d # c => op'[d] = op[d]
BY CallIs DEF Done

LEMMA LostOfInputs ==
    ASSUME TabsInv, KindsInv, Inputs
    PROVE  LostStep
<1>1. ASSUME NEW c \in Call, NEW x, ~Busy(c), op' = [op EXCEPT ![c] = x],
             UNCHANGED <<tabs, pty>>
      PROVE  LostStep
  BY <1>1, LostOfStart
<1>2. ASSUME NEW c \in Call, NEW id, ClosePaneStart(c, id) PROVE LostStep
  <2> DEFINE L == TabOf(tabs, activeTabId).layout
  <2>1. pty' = pty /\ ~Busy(c)
    BY <1>2 DEF ClosePaneStart
  <2>2. CASE UNCHANGED ui /\ \E x : op' = [op EXCEPT ![c] = x]
    BY <1>1, <2>1, <2>2 DEF ui
  <2>3. CASE /\ HasLeaf(L, id) /\ FindLeaf(L, id).kind = "agent"
             /\ WriteClosed(id, activeTabId, L) /\ UNCHANGED <<op, pty>>
    <3>1. \A p \in Shown \ Shown' : p = id /\ id \notin pty
      BY <1>2, <2>3, AgentPaneGoes DEF ClosePaneStart
    <3> QED BY <2>3, <3>1 DEF LostStep, Orphans, Opening
  <2> QED BY <1>2, <2>2, <2>3 DEF ClosePaneStart
<1>3. ASSUME NEW id \in Leaf, StopAgentPane(id) PROVE LostStep
  <2>1. Takes({id})
    BY <1>3, StopAgentMoves
  <2>2. /\ pty' \subseteq pty \ {id}
        /\ win' = "closed" \/ UNCHANGED op
    BY <1>3 DEF StopAgentPane, Kill, WindowGone
  <2>3. CASE win' = "closed"
    BY <2>1, <2>2, <2>3 DEF Takes, LostStep, Orphans, Lost
  <2>4. CASE UNCHANGED op
    BY <2>1, <2>2, <2>4 DEF Takes, LostStep, Orphans, Opening
  <2> QED BY <2>2, <2>3, <2>4
<1>4. CASE CloseWindow
  <2>1. tabs' = tabs /\ pty' \subseteq pty /\ win' = "closed"
    BY <1>4 DEF CloseWindow, Kill, WindowGone, ui
  <2> QED BY <2>1 DEF LostStep, Orphans, Lost, Shown
<1>5. CASE Relaunch
  BY <1>5 DEF Relaunch, LostStep, Orphans
<1>6. CASE UNCHANGED <<tabs, op, pty>>
  BY <1>6, LostOfSame DEF Shown
<1> USE DEF ui, rest
<1>7. ASSUME NEW c \in Call, NEW kind, AddTabStart(c, kind) PROVE LostStep
  BY <1>1, <1>7 DEF AddTabStart
<1>8. ASSUME NEW c \in Call, NEW id, CloseTabStart(c, id) PROVE LostStep
  BY <1>1, <1>8 DEF CloseTabStart
<1>9. ASSUME NEW c \in Call, NEW id, NEW kind, SplitPaneStart(c, id, kind)
      PROVE  LostStep
  BY <1>1, <1>9 DEF SplitPaneStart
<1>10. ASSUME NEW c \in Call, NEW id, ReplaceEmptyStart(c, id) PROVE LostStep
  BY <1>1, <1>10 DEF ReplaceEmptyStart
<1>11. ASSUME NEW c \in Call, NEW spec,
              ApplyPaneLayout(c, spec) \/ MountForLaunch(c, spec)
       PROVE  LostStep
  BY <1>1, <1>11 DEF ApplyPaneLayout, MountForLaunch
<1>12. ASSUME NEW c \in Call, HydrateStart(c) \/ ResetStart(c) PROVE LostStep
  BY <1>1, <1>12 DEF HydrateStart, ResetStart
<1> QED
  BY <1>2, <1>3, <1>4, <1>5, <1>6, <1>7, <1>8, <1>9, <1>10, <1>11, <1>12
     DEF Inputs, SetActiveTab, FocusPane, SetFocusedLeaf, ToggleMaximize,
     RestoreMaximize

LEMMA LostOfEmptyEnds ==
    ASSUME TabsInv, NEW c \in Call,
           OpenTerminalFails(c) \/ AddAgentTab(c) \/ HydrateSeed(c)
    PROVE  LostStep
<1>1. op[c].got = <<>> /\ Done(c) /\ pty' = pty
  BY CallIs DEF OpenTerminalFails, AddAgentTab, HydrateSeed, CallOK, OpensOne
<1>2. Takes({})
  BY AgentTabMoves DEF OpenTerminalFails, AddAgentTab, HydrateSeed, Takes, Shown, ui
<1> QED BY <1>1, <1>2, OneCallEnds, LostOfEmptyHanded DEF Takes, Kept

LEMMA LostOfOpen ==
    ASSUME TabsInv, NEW c \in Call, OpenTerminal(c)
    PROVE  LostStep
<1>1. PICK l \in FreshLeaf :
        /\ pty' = pty \cup {l}
        /\ op' = [op EXCEPT ![c].got =
                    <<NewTab(None, SingleLeaf(NewLeaf(l, "shell")))>>]
  BY DEF OpenTerminal
<1>2. op[c].got = <<>> /\ Shown' = Shown
  BY DEF OpenTerminal, ui, Shown
<1> DEFINE t == NewTab(None, SingleLeaf(NewLeaf(l, "shell")))
<1>3. CollectLeafIds(t.layout) = {l}
  BY SingleLeaves DEF NewTab, NewLeaf
<1> HIDE DEF t
<1>4. op'[c].got = <<t>> /\ \A d \in Call : d # c => op'[d] = op[d]
  BY <1>1, CallIs DEF t, Calls
<1>5. l \in LeafIdsOf(op'[c].got) /\ LeafIdsOf(op[c].got) = {}
  BY <1>2, <1>3, <1>4, OneTab, NoStrip
<1> QED BY <1>1, <1>2, <1>4, <1>5 DEF LostStep, Orphans, Opening

\* A call that carries panes puts all of them into the strip.
LEMMA LostOfPlaced ==
    ASSUME TabsInv, NEW c \in Call,
           AddShellTab(c) \/ LaunchFinish(c) \/ HydrateFinish(c)
    PROVE  LostStep
<1>1. Done(c) /\ pty' = pty
  BY DEF AddShellTab, LaunchFinish, HydrateFinish
<1>2. LeafIdsOf(op[c].got) \subseteq Shown'
  BY AddShellTabMoves, LaunchFinishMoves, OpenedHand
     DEF AddShellTab, OpensOne, HydrateFinish, Shown
<1>3. ASSUME NEW p \in Shown PROVE Kept(p) \/ Lost(p)
  <2>1. CASE AddShellTab(c) \/ LaunchFinish(c)
    BY <2>1, AddShellTabMoves, LaunchFinishMoves DEF Takes, Kept
  <2>2. CASE HydrateFinish(c)
    BY <1>1, <2>2, CallEnds DEF HydrateFinish, Lost, Finishes
  <2> QED BY <2>1, <2>2
<1> QED BY <1>1, <1>2, <1>3, OneCallEnds, LostOfCall DEF Kept

LEMMA LostOfCloseTab ==
    ASSUME TabsInv, KindsInv, NEW c \in Call, CloseTab(c) \/ CloseTabNoReSeed(c)
    PROVE  LostStep
<1>1. /\ op[c].call \in {"closeTab", "closeTabNoReSeed"}
      /\ Without(op[c].tab, Unmaximized(c))
      /\ pty' = pty \ ShellIds(op[c].seen)
  BY DEF CloseTab, CloseTabNoReSeed, Kill
<1>2. op \in [Call -> GoodCalls] /\ op[c].got = <<>>
  BY <1>1, CallIs DEF CallOK, OpensOne
<1>3. op'[c] # op[c]
  BY CloseTabEnds DEF Finishes
<1>4. \A l \in Shown : l \in Shown' \/ TabHas(tabs, l, op[c].tab)
  BY <1>1, WithoutMoves
<1>5. ASSUME NEW p \in Shown PROVE Kept(p) \/ Lost(p)
  <2>1. CASE p \in CollectLeafIds(op[c].seen)
    <3>1. p \notin pty'
      BY <1>1, <2>1, ShellInHand
    <3> QED BY <3>1 DEF Kept
  <2>2. CASE p \notin CollectLeafIds(op[c].seen)
    BY <1>1, <1>3, <2>2 DEF Lost, LateFor, Finishes
  <2> QED BY <2>1, <2>2
<1>6. CASE win' = "closed"
  <2>1. \A p \in pty : p \in Opening => Lost(p)
    BY <1>6 DEF Lost
  <2> QED BY <1>1, <1>5, <2>1 DEF LostStep, Orphans, Kept
<1>7. CASE \A d \in Call : d # c => op'[d] = op[d]
  BY <1>1, <1>2, <1>5, <1>7, LostOfEmptyHanded
<1> QED BY <1>2, <1>6, <1>7 DEF CloseTab, CloseTabNoReSeed, WindowGone, Done

LEMMA LostOfClosePane ==
    ASSUME TabsInv, NEW c \in Call, ClosePane(c)
    PROVE  LostStep
<1>1. /\ op[c].call = "closePane" /\ op[c].seen \in GoodLayouts
      /\ op[c].got = <<>> /\ pty' = pty \ {op[c].leaf}
  BY CallIs DEF ClosePane, CallOK, OpensOne, Kill
<1>2. \A d \in Call : d # c => op'[d] = op[d]
  BY CallIs DEF ClosePane, Done
<1>3. ASSUME NEW p \in Shown PROVE Kept(p) \/ Lost(p)
  <2>1. CASE tabs' = tabs
    BY <2>1 DEF Kept, Shown
  <2>2. CASE WriteClosed(op[c].leaf, op[c].tab, op[c].seen) /\ Done(c)
    <3>1. op'[c] # op[c]
      BY <1>1, <2>2, CallEnds
    <3>2. \/ p \in Shown'
          \/ p = op[c].leaf \/ p \notin CollectLeafIds(op[c].seen)
      BY <1>1, <2>2, WriteClosedMoves
    <3> QED BY <1>1, <3>1, <3>2 DEF Kept, Lost, LateFor, Finishes
  <2> QED BY <2>1, <2>2 DEF ClosePane, ui
<1> QED BY <1>1, <1>2, <1>3, LostOfEmptyHanded

\* The pane that a call opened is shown, or its target is gone.  Only the pane
\* that the call replaces goes.
LEMMA LostOfTarget ==
    ASSUME TabsInv, NEW c \in Call, SplitPane(c) \/ ReplaceEmpty(c)
    PROVE  LostStep
<1>1. op[c].call \in {"splitPane", "replaceEmptyLeaf"} /\ Done(c) /\ pty' = pty
  BY DEF SplitPane, SplitWith, ReplaceEmpty
<1>2. op'[c] # op[c]
  BY <1>1, CallEnds
<1>3. ASSUME NEW p \in LeafIdsOf(op[c].got) PROVE p \in Shown' \/ Lost(p)
  <2>1. op[c].got # <<>>
    BY <1>3, NoStrip
  <2>2. p = Opened(c).id
    BY <1>1, <2>1, OpenedHand DEF OpensOne
  <2>3. op[c].pane = "shell"
    BY <1>1, <2>1, CallIs DEF CallOK, OpensOne
  <2>4. Target(c) => p \in Shown'
    BY <2>2, <2>3, SplitWithMoves, ReplaceEmptyMoves DEF SplitPane
  <2>5. ~Target(c) => TargetGone(c, p)
    BY <1>1, <1>2, <1>3 DEF Target, TargetGone, Finishes
  <2> QED BY <2>4, <2>5 DEF Lost
<1>4. ASSUME NEW p \in Shown PROVE Kept(p) \/ Lost(p)
  <2>1. CASE SplitPane(c)
    <3>1. Takes({})
      BY <2>1, SplitWithMoves DEF SplitPane
    <3> QED BY <3>1 DEF Takes, Kept
  <2>2. CASE ReplaceEmpty(c)
    <3>1. CASE p = op[c].leaf
      <4>1. op[c].call = "replaceEmptyLeaf"
        BY <2>2 DEF ReplaceEmpty
      <4>2. Replaced(c, p)
        BY <1>2, <3>1, <4>1 DEF Replaced, Finishes
      <4> QED BY <4>2 DEF Lost
    <3>2. CASE p # op[c].leaf
      BY <2>2, <3>2, ReplaceEmptyMoves DEF Takes, Kept
    <3> QED BY <3>1, <3>2
  <2> QED BY <2>1, <2>2
<1> QED BY <1>1, <1>3, <1>4, OneCallEnds, LostOfCall DEF Kept

LEMMA LostOfSendFails ==
    ASSUME TabsInv, NEW c \in Call, ReplaceEmptySendFails(c)
    PROVE  LostStep
<1>1. /\ op[c].call = "replaceEmptyLeaf" /\ Done(c)
      /\ UNCHANGED <<tabs, pty>>
  BY DEF ReplaceEmptySendFails, ui
<1>2. op'[c] # op[c]
  BY <1>1, CallEnds
<1>3. \A p \in LeafIdsOf(op[c].got) : Lost(p)
  BY <1>1, <1>2 DEF Lost, Finishes
<1>4. \A p \in Shown : Kept(p)
  BY <1>1 DEF Kept, Shown
<1> QED BY <1>1, <1>3, <1>4, OneCallEnds, LostOfCall

\* A hydration, or a launch, opens several shells: one that is new may be lost.
LEMMA LostOfOpens ==
    ASSUME TabsInv, NEW c \in Call, HydrateOpen(c) \/ LaunchOpen(c)
    PROVE  LostStep
<1>1. op[c].call \in {"hydrate", "launch"} /\ tabs' = tabs
  BY Zenon DEF HydrateOpen, LaunchOpen, ui
<1>2. /\ op'[c].call \in {"seed", "rebuilt", "launched"}
      /\ \A d \in Call : d # c => op'[d] = op[d]
  <2>1. \E call \in {"seed", "rebuilt", "launched"} : \E got :
          op' = [op EXCEPT ![c].call = call, ![c].got = got]
    BY HydrateOpenIs DEF LaunchOpen
  <2> QED BY <2>1, CallIs DEF Calls
<1>3. op'[c] # op[c]
  BY <1>1, <1>2
<1>4. LeafIdsOf(op[c].got) \cap Leaf = {}
  <2>1. CASE op[c].call = "hydrate"
    BY <2>1, CallIs, TabsAssumption DEF CallOK, TabsAssumption
  <2>2. CASE op[c].call = "launch"
    <3>1. PICK L \in GoodLayouts : IsTemplate(L) /\ op[c].got = <<NewTab(None, L)>>
      BY <2>2, CallIs DEF CallOK
    <3>2. LeafIdsOf(op[c].got) \subseteq Pending
      BY <3>1, OneTab DEF NewTab, IsTemplate
    <3> QED BY <3>2, TabsAssumption DEF TabsAssumption
  <2> QED BY <1>1, <2>1, <2>2
<1>5. pty \subseteq Leaf
  BY DEF TabsInv, Rest
<1>6. \A p \in Opening \cap pty : p \in Opening'
  BY <1>2, <1>4, <1>5 DEF Opening
<1>7. \A p : p \notin pty => Lost(p)
  BY <1>1, <1>3 DEF Lost, Finishes
<1> QED BY <1>1, <1>6, <1>7 DEF LostStep, Orphans, Shown

LEMMA LostOfReset ==
    ASSUME TabsInv, KindsInv, NEW c \in Call, Reset(c)
    PROVE  LostStep
<1>1. /\ op[c].call = "reset" /\ Done(c)
      /\ pty' = pty \ UNION {ShellIds(op[c].got[i].layout) : i \in DOMAIN op[c].got}
  BY DEF Reset, Kill
<1>2. op'[c] # op[c]
  BY <1>1, CallEnds
<1>3. \A p \in LeafIdsOf(op[c].got) : p \notin pty'
  BY <1>1, ShellInHand
<1>4. \A p \in Shown : Kept(p) \/ Lost(p)
  BY <1>1, <1>2, <1>3 DEF Kept, Lost, LateFor, Finishes
<1>5. pty' \subseteq pty
  BY <1>1
<1> QED BY <1>1, <1>3, <1>4, <1>5, OneCallEnds, LostOfCall DEF Kept

LEMMA LostNext == ASSUME TabsInv, KindsInv, Next PROVE LostStep
<1>1. CASE Answers
  <2>1. PICK c \in Call :
          \/ AddAgentTab(c) \/ OpenTerminal(c) \/ OpenTerminalFails(c)
          \/ AddShellTab(c) \/ CloseTab(c) \/ CloseTabNoReSeed(c) \/ SplitPane(c)
          \/ ClosePane(c) \/ HydrateSeed(c) \/ HydrateOpen(c) \/ HydrateFinish(c)
          \/ LaunchOpen(c) \/ LaunchFinish(c) \/ ReplaceEmpty(c)
          \/ ReplaceEmptySendFails(c) \/ Reset(c)
    BY <1>1 DEF Answers
  <2> QED
    BY <2>1, LostOfEmptyEnds, LostOfOpen, LostOfPlaced, LostOfCloseTab,
       LostOfTarget, LostOfClosePane, LostOfOpens, LostOfSendFails, LostOfReset
<1>2. CASE Exits
  <2>1. ASSUME NEW id, PtyExits(id) PROVE LostStep
    BY <2>1, LostOfSame DEF PtyExits, Kill, ui, Shown
  <2>2. ASSUME NEW id, PtyExited(id) PROVE LostStep
    BY <2>2, PtyExitedMoves, LostOfSame DEF PtyExited
  <2> QED BY <1>2, <2>1, <2>2 DEF Exits
<1> QED BY <1>1, <1>2, LostOfInputs DEF Next

\* A PTY that runs is lost, shown by no pane and opened by no call, only where
\* two calls overlap, the shell refuses a later pane of the same tab or the
\* command of a pane, the window goes (terminal-store.ts: each await between
\* openTerminal and the setState that shows the pane), or a pane is replaced
\* that was saved empty and has a shell since its hydration (731-734, 935-936).
THEOREM PtyLossExplained == Spec => PtyLossIsExplained
<1>1. TabsInv /\ KindsInv /\ [Next]_vars => [LostStep]_vars
  BY LostNext
<1> QED
  BY <1>1, TabsInvariant, KindsInvariant, PTL
     DEF Spec, PtyLossIsExplained, LostStep, Lost
=============================================================================
