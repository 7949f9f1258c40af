---------------------------- MODULE MCTerminalTabs ----------------------------
EXTENDS TerminalTabs

\* The larger grids are only laid out: there are not the ids to open them.
MCLaunch == {[split |-> "columns", panes |-> <<"shell">>],
             [split |-> "grid", panes |-> <<"shell", "agent">>]}
              \cup {[split |-> "grid", panes |-> [i \in 1..n |-> "agent"]] :
                      n \in 6..8}

StoredLeaf(kind) ==
    [id |-> None, kind |-> kind, empty |-> FALSE, exited |-> FALSE]
Pair(a, b) == (<<1>> :> StoredLeaf(a)) @@ (<<2>> :> StoredLeaf(b))
Single     == SingleLeaf(StoredLeaf("shell"))
Unopened   == (<<1>> :> [StoredLeaf("shell") EXCEPT !.empty = TRUE])
                @@ (<<2>> :> StoredLeaf("agent"))

\* Nothing, a tab of two shells, one with a pane that was left empty, or two
\* tabs: for all ids, as they are symmetric.
MCSaves ==
    {NothingStored}
      \cup {[tabs |-> <<NewTab(t, L)>>, activeTabId |-> t] :
              L \in {Pair("shell", "shell"), Unopened}, t \in Tab}
      \cup {[tabs |-> <<NewTab(t[1], Single), NewTab(t[2], Single)>>,
              activeTabId |-> t[2]] : t \in {u \in Tab \X Tab : u[1] # u[2]}}

Symm == Permutations(Leaf) \cup Permutations(Tab) \cup Permutations(Call)
=============================================================================
