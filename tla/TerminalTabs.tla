----------------------------- MODULE TerminalTabs -----------------------------
(***************************************************************************)
(* The tab strip of a window (frontend/src/stores/terminal-store.ts) and   *)
(* its callers: the page that hydrates it, the shortcuts, the run list,    *)
(* the root of the detached window.  The store is one object that only     *)
(* synchronous code writes; most of its calls read it, await the shell,    *)
(* and write it, and any other call may run in between.                    *)
(*                                                                         *)
(* A call in flight is a record of op: what it read (tab, leaf, seen) and  *)
(* what it opened (got).  The PTYs are the shell's (external): an id is in *)
(* pty while its child runs, then in exits until the window has seen its   *)
(* pty-exited event.  Titles, working directories and ratios are left out. *)
(***************************************************************************)
EXTENDS LayoutTree, SequencesExt

CONSTANTS
    Leaf,         \* pane ids: of PTYs, and minted for agents
    Tab,          \* tab ids
    Call,         \* slots of calls in flight: bounds how many overlap
    Launch,       \* the launches that may come: [split, panes]
    MaxTabs,      \* bound on the tabs of the strip when a call may add one
    MaxInputs,    \* bound on the inputs and relaunches
    Saves,        \* what localStorage may hold at first
    None

\* The placeholder ids of buildPaneLayout; an unplaced shell pane keeps its.
Pending == {<<"pending", i>> : i \in 0..7}

\* The ids of panes, stored ones too; the types of a leaf, a layout, a strip.
Ids      == Leaf \cup Pending \cup {None}
LeafType == [id : Ids, kind : {"agent", "shell"}, empty : BOOLEAN,
             exited : BOOLEAN]
IsLayout(L) == IsTree(DOMAIN L) /\ L \in [DOMAIN L -> LeafType]
IsTab(t) == /\ t \in [id : Tab \cup {None}, layout : {t.layout}]
            /\ IsLayout(t.layout)
IsStrip(strip) == strip \in Seq(Range(strip)) /\ \A t \in Range(strip) : IsTab(t)

\* What the app may have written to localStorage.
IsSaved(s) ==
    /\ s \in [tabs : {s.tabs}, activeTabId : Tab \cup {None}]
    /\ IsStrip(s.tabs)
    /\ \A i, j \in DOMAIN s.tabs :
         s.tabs[i].id \in Tab /\ (i # j => s.tabs[i].id # s.tabs[j].id)
    /\ \A t \in Range(s.tabs) : CollectLeafIds(t.layout) = {None}

ASSUME TabsAssumption ==
    /\ Leaf \cap Pending = {} /\ None \notin Leaf \cup Tab \cup Pending
    /\ MaxTabs \in Nat /\ MaxInputs \in Nat
    /\ \A spec \in Launch : /\ spec.split \in {"columns", "rows", "grid"}
                            /\ spec.panes \in Seq({"agent", "shell"})
                            /\ Len(spec.panes) \in 1..8
    /\ \A s \in Saves : IsSaved(s)

VARIABLES
    tabs,         \* the strip, a sequence of [id, layout]
    activeTabId,
    focusedLeafId,
    maximizedLeafId,
    hydrated,
    hydrating,
    saved,        \* localStorage: [tabs, activeTabId]
    win,          \* "main", "popout", or "closed"
    op,           \* the calls in flight
    pty,          \* PTYs whose child runs
    exits,        \* pty-exited events not yet delivered
    inputs        \* inputs and relaunches so far, up to MaxInputs

ui   == <<tabs, activeTabId, focusedLeafId, maximizedLeafId>>
rest == <<hydrated, hydrating, win>>
vars == <<tabs, activeTabId, focusedLeafId, maximizedLeafId, hydrated,
          hydrating, saved, win, op, pty, exits, inputs>>

\* A step of the user, or a relaunch.
Input == inputs < MaxInputs /\ inputs' = inputs + 1

NewLeaf(id, kind) == [id |-> id, kind |-> kind, empty |-> FALSE,
                      exited |-> FALSE]
NewTab(id, layout) == [id |-> id, layout |-> layout]

NoLayout == << >>
Idle == [call |-> "none", tab |-> None, leaf |-> None, pane |-> "agent",
         seen |-> NoLayout, got |-> << >>]
Busy(c) == op[c].call # "none"

LeafIdsOf(strip) == UNION {CollectLeafIds(strip[i].layout) : i \in DOMAIN strip}
TabIdsOf(strip)  == {strip[i].id : i \in DOMAIN strip}
TabOf(strip, id) == strip[CHOOSE i \in DOMAIN strip : strip[i].id = id]
LeavesOf(strip)  == UNION {Range(strip[i].layout) : i \in DOMAIN strip}
ShellIds(L)      == {l.id : l \in {x \in Range(L) : x.kind = "shell"}}

\* An id minted by genId or by the shell is used nowhere.
FreshLeaf ==
    Leaf \ (LeafIdsOf(tabs) \cup pty \cup exits
              \cup {focusedLeafId, maximizedLeafId}
              \cup UNION {{op[c].leaf} \cup CollectLeafIds(op[c].seen)
                            \cup LeafIdsOf(op[c].got) : c \in Call})
FreshTab ==
    Tab \ (TabIdsOf(tabs) \cup TabIdsOf(saved.tabs)
             \cup UNION {{op[c].tab} \cup TabIdsOf(op[c].got) : c \in Call})

\* Mutant: every tab is given the layout.
WithLayoutEverywhere(strip, id, layout) ==
    [i \in DOMAIN strip |-> [strip[i] EXCEPT !.layout = layout]]

\* setState on one tab, found by its id; nothing when it is gone.
WithLayout(strip, id, layout) ==
    [i \in DOMAIN strip |-> IF strip[i].id = id
                            THEN [strip[i] EXCEPT !.layout = layout]
                            ELSE strip[i]]

\* What localStorage keeps of the strip.  The ids of the leaves are kept too
\* but never used again.
Stored(strip, active) ==
    [tabs |-> [i \in DOMAIN strip |->
                 NewTab(strip[i].id,
                        [p \in DOMAIN strip[i].layout |->
                           [strip[i].layout[p] EXCEPT !.id = None]])],
     activeTabId |-> active]
NothingStored == [tabs |-> << >>, activeTabId |-> None]

\* The store's subscriber, on a change of tabs or activeTabId.
Persist == saved' = IF hydrated' THEN Stored(tabs', activeTabId') ELSE saved

Done(c) == op' = [op EXCEPT ![c] = Idle]

Init ==
    /\ tabs = << >> /\ activeTabId = None
    /\ focusedLeafId = None /\ maximizedLeafId = None
    /\ hydrated = FALSE /\ hydrating = FALSE
    /\ saved \in Saves
    /\ win \in {"main", "popout"}
    /\ op = [c \in Call |-> Idle]
    /\ pty = {} /\ exits = {} /\ inputs = 0

\* The window's page is there: it hydrates as soon as it is.
Open == win # "closed" /\ (hydrated \/ hydrating)

-----------------------------------------------------------------------------
(* addTab                                                                  *)

AddTabStart(c, kind) ==
    /\ Input
    /\ Open /\ ~Busy(c)
    /\ op' = [op EXCEPT ![c] = [Idle EXCEPT !.call = "addTab", !.pane = kind]]
    /\ UNCHANGED <<ui, hydrated, hydrating, saved, win, pty, exits>>

Appended(tab, focus) ==
    /\ tabs' = Append(tabs, tab)
    /\ activeTabId' = tab.id
    /\ focusedLeafId' = focus
    /\ UNCHANGED maximizedLeafId

\* The working directory has been resolved: no more to await for an agent.
AddAgentTab(c) ==
    /\ UNCHANGED inputs
    /\ op[c].call = "addTab" /\ op[c].pane = "agent"
    /\ Len(tabs) < MaxTabs
    /\ \E l \in FreshLeaf, t \in FreshTab :
         Appended(NewTab(t, SingleLeaf(NewLeaf(l, "agent"))), l)
    /\ Done(c)
    /\ UNCHANGED <<hydrated, hydrating, win, pty, exits>>
    /\ Persist

\* openTerminal for a call that opens one PTY: the shell answers, or refuses.
OpensOne == {"addTab", "splitPane", "replaceEmptyLeaf"}

OpenTerminal(c) ==
    /\ UNCHANGED inputs
    /\ op[c].call \in OpensOne /\ op[c].pane = "shell" /\ op[c].got = << >>
    /\ \E l \in FreshLeaf :
         /\ pty' = pty \cup {l}
         /\ op' = [op EXCEPT ![c].got =
                     <<NewTab(None, SingleLeaf(NewLeaf(l, "shell")))>>]
    /\ UNCHANGED <<ui, hydrated, hydrating, saved, win, exits>>

OpenTerminalFails(c) ==
    /\ UNCHANGED inputs
    /\ op[c].call \in OpensOne /\ op[c].pane = "shell" /\ op[c].got = << >>
    /\ Done(c)
    /\ UNCHANGED <<ui, hydrated, hydrating, saved, win, pty, exits>>

Opened(c) == op[c].got[1].layout[<<>>]

AddShellTab(c) ==
    /\ UNCHANGED inputs
    /\ op[c].call = "addTab" /\ op[c].got # << >>
    /\ Len(tabs) < MaxTabs
    /\ \E t \in FreshTab :
         Appended(NewTab(t, SingleLeaf(Opened(c))), Opened(c).id)
    /\ Done(c)
    /\ UNCHANGED <<hydrated, hydrating, win, pty, exits>>
    /\ Persist

-----------------------------------------------------------------------------
(* closeTab and closeTabNoReSeed                                           *)

Closing(id, call) ==
    [Idle EXCEPT !.call = call, !.tab = id, !.seen = TabOf(tabs, id).layout]

CloseTabStart(c, id) ==
    /\ Input
    /\ Open /\ ~Busy(c) /\ id \in TabIdsOf(tabs)
    /\ op' = [op EXCEPT ![c] =
                Closing(id, IF win = "main" THEN "closeTab"
                            ELSE "closeTabNoReSeed")]
    /\ UNCHANGED <<ui, hydrated, hydrating, saved, win, pty, exits>>

Kill(ids) == pty' = pty \ ids /\ exits' = exits \cup (pty \cap ids)

\* The tabs but one, whose id no other has.
WithoutTab(strip, id) == RemoveFirstMatch(strip, LAMBDA t : t.id = id)

\* Mutant: the active tab is only replaced when none is left.
WithoutNext(id, ids) ==
    LET remaining == WithoutTab(tabs, id)
    IN /\ tabs' = remaining
       /\ activeTabId' = IF remaining = << >> THEN None ELSE activeTabId
       /\ focusedLeafId' = IF remaining = << >> THEN None
                           ELSE FirstLeafId(remaining[1].layout)
       /\ maximizedLeafId' = IF maximizedLeafId \in ids THEN None
                             ELSE maximizedLeafId

\* The strip without a tab; the active one is replaced when it is the tab, and
\* the focus moves to the first leaf of the active one in any case.  A pane of
\* ids is no longer maximized.
Without(id, ids) ==
    LET remaining == WithoutTab(tabs, id)
        next == IF activeTabId = id THEN remaining[1].id ELSE activeTabId
    IN /\ tabs' = remaining
       /\ IF remaining = << >>
          THEN activeTabId' = None /\ focusedLeafId' = None
          ELSE /\ activeTabId' = next
               /\ focusedLeafId' = FirstLeafId(TabOf(remaining, next).layout)
       /\ maximizedLeafId' = IF maximizedLeafId \in ids THEN None
                             ELSE maximizedLeafId

\* What a closed tab un-maximizes: its panes, or anything when it is the last.
Unmaximized(c) == IF TabIdsOf(tabs) \subseteq {op[c].tab}
                  THEN Leaf \cup Pending ELSE CollectLeafIds(op[c].seen)

\* Mutant: the re-seed is left to the caller.
CloseTabNoSeed(c) ==
    /\ UNCHANGED inputs
    /\ op[c].call = "closeTab"
    /\ Kill(ShellIds(op[c].seen))
    /\ Without(op[c].tab, Unmaximized(c))
    /\ Done(c)
    /\ UNCHANGED <<hydrated, hydrating, win>>
    /\ Persist

\* The PTYs known at the start are killed; the tab is looked up afresh.  The
\* last tab is replaced by an agent's.
CloseTab(c) ==
    /\ UNCHANGED inputs
    /\ op[c].call = "closeTab"
    /\ Kill(ShellIds(op[c].seen))
    /\ Without(op[c].tab, Unmaximized(c))
    /\ op' = [op EXCEPT ![c] = IF tabs' = << >>
                               THEN [Idle EXCEPT !.call = "addTab"]
                               ELSE Idle]
    /\ UNCHANGED <<hydrated, hydrating, win>>
    /\ Persist

\* The context of a window that goes away: nothing in flight survives it.
WindowGone ==
    /\ win' = "closed"
    /\ op' = [c \in Call |-> Idle]
    /\ hydrating' = FALSE

CloseTabNoReSeed(c) ==
    /\ UNCHANGED inputs
    /\ op[c].call = "closeTabNoReSeed"
    /\ Kill(ShellIds(op[c].seen))
    /\ Without(op[c].tab, Unmaximized(c))
    /\ IF tabs' = << >> THEN WindowGone
       ELSE Done(c) /\ UNCHANGED <<hydrating, win>>
    /\ UNCHANGED hydrated
    /\ Persist

\* onCloseRequested of the detached window: what the strip shows is killed.
CloseWindow ==
    /\ Input
    /\ win = "popout"
    /\ Kill(UNION {ShellIds(tabs[i].layout) : i \in DOMAIN tabs})
    /\ WindowGone
    /\ UNCHANGED <<ui, hydrated, saved>>

-----------------------------------------------------------------------------
(* splitPane and closePane                                                 *)

\* Ids a shortcut or a button of a visible pane can name.
InHand == ({focusedLeafId} \ {None})
            \cup IF tabs = << >> THEN {}
                 ELSE CollectLeafIds(TabOf(tabs, activeTabId).layout)

SplitPaneStart(c, id, kind) ==
    /\ Input
    /\ Open /\ ~Busy(c) /\ tabs # << >> /\ id \in InHand
    /\ HasLeaf(TabOf(tabs, activeTabId).layout, id)
    /\ op' = [op EXCEPT ![c] = [Idle EXCEPT !.call = "splitPane",
                                  !.tab = activeTabId, !.leaf = id,
                                  !.pane = kind]]
    /\ UNCHANGED <<ui, hydrated, hydrating, saved, win, pty, exits>>

\* The tab that was active at the start is split, if it is still there and
\* still has the leaf; the new leaf is focused in any case.
SplitWith(c, leaf) ==
    /\ tabs' = WithLayout(tabs, op[c].tab,
                 SplitLeaf(TabOf(tabs, op[c].tab).layout, op[c].leaf, leaf))
    /\ focusedLeafId' = leaf.id
    /\ Done(c)
    /\ UNCHANGED <<activeTabId, maximizedLeafId, hydrated, hydrating, win, pty,
                   exits>>
    /\ Persist

SplitPane(c) ==
    /\ UNCHANGED inputs
    /\ op[c].call = "splitPane"
    /\ IF op[c].pane = "agent"
       THEN \E l \in FreshLeaf : SplitWith(c, NewLeaf(l, "agent"))
       ELSE op[c].got # << >> /\ SplitWith(c, Opened(c))

\* Mutant: a closed pane stays maximized.
WriteClosedMaximized(id, tab, seen) ==
    LET layout == CloseLeaf(seen, id)
    IN /\ tabs' = WithLayout(tabs, tab, layout)
       /\ focusedLeafId' = IF focusedLeafId = id THEN FirstLeafId(layout)
                           ELSE focusedLeafId
       /\ UNCHANGED <<activeTabId, maximizedLeafId>>

\* The layout is the one read at the start, without the leaf.
WriteClosed(id, tab, seen) ==
    LET layout == CloseLeaf(seen, id)
    IN /\ tabs' = WithLayout(tabs, tab, layout)
       /\ focusedLeafId' = IF focusedLeafId = id THEN FirstLeafId(layout)
                           ELSE focusedLeafId
       /\ maximizedLeafId' = IF maximizedLeafId = id THEN None
                             ELSE maximizedLeafId
       /\ UNCHANGED activeTabId

\* The id is one of the active tab, or any of a run: the run list closes the
\* pane of a run it has stopped, whichever tab shows it.  The agent of a leaf
\* needs no command, so its leaf goes at once.
ClosePaneStart(c, id) ==
    /\ Input
    /\ Open /\ ~Busy(c) /\ tabs # << >>
    /\ id \in InHand \cup LeafIdsOf(tabs)
    /\ LET seen == TabOf(tabs, activeTabId).layout IN
       IF HasLeaf(seen, id) /\ FindLeaf(seen, id).kind = "agent"
       THEN IF IsLastLeaf(seen, id)
            THEN /\ op' = [op EXCEPT ![c] = Closing(activeTabId, "closeTab")]
                 /\ UNCHANGED <<ui, saved, hydrated>>
            ELSE /\ WriteClosed(id, activeTabId, seen)
                 /\ UNCHANGED <<op, hydrated>>
                 /\ Persist
       ELSE /\ op' = [op EXCEPT ![c] = [Idle EXCEPT !.call = "closePane",
                                          !.tab = activeTabId, !.leaf = id,
                                          !.seen = seen]]
            /\ UNCHANGED <<ui, saved, hydrated>>
    /\ UNCHANGED <<hydrating, win, pty, exits>>

\* Mutant: the pane goes, its shell stays.
ClosePaneKeepsPty(c) ==
    /\ UNCHANGED inputs
    /\ op[c].call = "closePane"
    /\ ~IsLastLeaf(op[c].seen, op[c].leaf)
    /\ WriteClosed(op[c].leaf, op[c].tab, op[c].seen)
    /\ Done(c)
    /\ UNCHANGED <<hydrated, hydrating, win, pty, exits>>
    /\ Persist

ClosePane(c) ==
    /\ UNCHANGED inputs
    /\ op[c].call = "closePane"
    /\ Kill({op[c].leaf})
    /\ IF IsLastLeaf(op[c].seen, op[c].leaf)
       THEN /\ op' = [op EXCEPT ![c] =
                        IF op[c].tab \in TabIdsOf(tabs)
                        THEN Closing(op[c].tab, "closeTab") ELSE Idle]
            /\ UNCHANGED <<ui, saved, hydrated>>
       ELSE /\ WriteClosed(op[c].leaf, op[c].tab, op[c].seen)
            /\ Done(c)
            /\ UNCHANGED hydrated
            /\ Persist
    /\ UNCHANGED <<hydrating, win>>

\* stop-agent-pane of the detached window: the main window has stopped the
\* child; the window closes when only placeholders are left.
StopAgentPane(id) ==
    /\ Input
    /\ win = "popout" /\ id \in LeafIdsOf(tabs) \cap Leaf
    /\ LET owner == TabOf(tabs, CHOOSE t \in TabIdsOf(tabs) :
                                  HasLeaf(TabOf(tabs, t).layout, id))
       IN IF IsLastLeaf(owner.layout, id) THEN Without(owner.id, {id})
          ELSE WriteClosed(id, owner.id, owner.layout)
    /\ IF \E l \in LeavesOf(tabs') : ~l.empty
       THEN /\ Kill({id}) /\ UNCHANGED <<win, op, hydrating>>
       ELSE /\ Kill({id} \cup UNION {ShellIds(tabs[i].layout) : i \in DOMAIN tabs})
            /\ WindowGone
    /\ UNCHANGED hydrated
    /\ Persist

-----------------------------------------------------------------------------
(* Focus and maximize                                                      *)

SetActiveTab(id) ==
    /\ Input
    /\ Open /\ id \in TabIdsOf(tabs)
    /\ activeTabId' = id
    /\ focusedLeafId' = FirstLeafId(TabOf(tabs, id).layout)
    /\ maximizedLeafId' = None
    /\ UNCHANGED <<tabs, hydrated, hydrating, win, op, pty, exits>>
    /\ IF activeTabId' # activeTabId THEN Persist ELSE UNCHANGED saved

\* The pane of a run or of an attention item: its tab, then the pane itself.
FocusPane(id) ==
    /\ Input
    /\ Open /\ id \in LeafIdsOf(tabs) \cap Leaf
    /\ activeTabId' = (CHOOSE t \in TabIdsOf(tabs) :
                         HasLeaf(TabOf(tabs, t).layout, id))
    /\ focusedLeafId' = id
    /\ maximizedLeafId' = None
    /\ UNCHANGED <<tabs, hydrated, hydrating, win, op, pty, exits>>
    /\ IF activeTabId' # activeTabId THEN Persist ELSE UNCHANGED saved

SetFocusedLeaf(id) ==
    /\ Input
    /\ Open /\ tabs # << >>
    /\ id \in CollectLeafIds(TabOf(tabs, activeTabId).layout)
    /\ focusedLeafId' = id
    /\ UNCHANGED <<tabs, activeTabId, maximizedLeafId, hydrated, hydrating,
                   saved, win, op, pty, exits>>

ToggleMaximize(id) ==
    /\ Input
    /\ Open /\ id \in InHand
    /\ IF maximizedLeafId = id
       THEN maximizedLeafId' = None /\ UNCHANGED focusedLeafId
       ELSE maximizedLeafId' = id /\ focusedLeafId' = id
    /\ UNCHANGED <<tabs, activeTabId, hydrated, hydrating, saved, win, op, pty,
                   exits>>

RestoreMaximize ==
    /\ Input
    /\ Open /\ maximizedLeafId # None
    /\ maximizedLeafId' = None
    /\ UNCHANGED <<tabs, activeTabId, focusedLeafId, hydrated, hydrating,
                   saved, win, op, pty, exits>>

-----------------------------------------------------------------------------
(* hydrateFromStorage                                                      *)

\* What a hydration does with what it reads: nothing to restore is a fresh tab.
Reading == [Idle EXCEPT !.call = IF saved.tabs = << >> THEN "seed" ELSE "hydrate",
                        !.tab = saved.activeTabId, !.got = saved.tabs]

\* The effect of the mounted page, and the run list before it focuses a pane.
HydrateStart(c) ==
    /\ Input
    /\ win # "closed" /\ ~Busy(c) /\ ~hydrated /\ ~hydrating
    /\ hydrating' = TRUE
    /\ op' = [op EXCEPT ![c] = Reading]
    /\ UNCHANGED <<ui, hydrated, saved, win, pty, exits>>

\* addTab, then hydrated: the subscriber is not called for the second.
HydrateSeed(c) ==
    /\ UNCHANGED inputs
    /\ op[c].call = "seed"
    /\ \E l \in FreshLeaf, t \in FreshTab :
         Appended(NewTab(t, SingleLeaf(NewLeaf(l, "agent"))), l)
    /\ hydrated' = TRUE /\ hydrating' = FALSE
    /\ Done(c)
    /\ saved' = IF hydrated THEN Stored(tabs', activeTabId') ELSE saved
    /\ UNCHANGED <<win, pty, exits>>

\* The layouts with ids put in for those of the leaves at the places in f.
WithIds(strip, f) ==
    [i \in DOMAIN strip |->
       NewTab(strip[i].id,
              [p \in DOMAIN strip[i].layout |->
                 IF <<i, p>> \in DOMAIN f
                 THEN [strip[i].layout[p] EXCEPT !.id = f[<<i, p>>]]
                 ELSE strip[i].layout[p]])]

PlacesOf(strip) ==
    UNION {{<<i, p>> : p \in DOMAIN strip[i].layout} : i \in DOMAIN strip}

\* Injective choices of fresh ids for a set of places.
FreshIds(P, ids) == {f \in [P -> ids] : IsInjective(f)}

\* The numbers of a finite set in their order.
Ascending(S) == {h \in [1..Cardinality(S) -> S] :
                   \A i, j \in DOMAIN h : i < j => h[i] < h[j]}

\* The tabs are rebuilt side by side, each pane after the other.  A tab one of
\* whose shells cannot be opened is dropped; the PTYs opened for it stay.
HydrateOpen(c) ==
    /\ UNCHANGED inputs
    /\ op[c].call = "hydrate"
    /\ \E kept \in SUBSET DOMAIN op[c].got, lost \in SUBSET FreshLeaf :
       LET strip   == op[c].got
           dropped == DOMAIN strip \ kept
           shells  == {x \in PlacesOf(strip) :
                         strip[x[1]].layout[x[2]].kind = "shell"}
           ofKept  == {x \in PlacesOf(strip) : x[1] \in kept}
       IN /\ \A i \in dropped : \E x \in shells : x[1] = i
          /\ Cardinality(lost) <= Cardinality(shells \ ofKept)
                                    - Cardinality(dropped)
          /\ \E f \in FreshIds(ofKept, FreshLeaf \ lost), h \in Ascending(kept) :
               /\ op' = [op EXCEPT
                    ![c].call = IF kept = {} THEN "seed" ELSE "rebuilt",
                    ![c].got  = [i \in DOMAIN h |-> WithIds(strip, f)[h[i]]]]
               /\ pty' = pty \cup lost \cup {f[x] : x \in shells \cap ofKept}
    /\ UNCHANGED <<ui, rest, saved, exits>>

\* The strip is what was rebuilt, whatever it has become meanwhile.
HydrateFinish(c) ==
    /\ UNCHANGED inputs
    /\ op[c].call = "rebuilt"
    /\ tabs' = op[c].got
    /\ activeTabId' = IF op[c].tab \in TabIdsOf(tabs') THEN op[c].tab
                      ELSE tabs'[1].id
    /\ focusedLeafId' = FirstLeafId(TabOf(tabs', activeTabId').layout)
    /\ hydrated' = TRUE /\ hydrating' = FALSE
    /\ Done(c)
    /\ UNCHANGED <<maximizedLeafId, win, pty, exits>>
    /\ Persist

-----------------------------------------------------------------------------
(* applyPaneLayout and replaceEmptyLeaf                                    *)

PendingId(i) == <<"pending", i - 1>>

\* buildPaneLayout: the template, whose panes have placeholder ids.
BuildPaneLayout(spec) ==
    LET n == Len(spec.panes)
        At(p) == CHOOSE i \in 1..n : PanePlace(spec.split, n, i) = p
    IN [p \in {PanePlace(spec.split, n, i) : i \in 1..n} |->
          NewLeaf(PendingId(At(p)), spec.panes[At(p)])]

Launching(spec) == [Idle EXCEPT !.call = "launch",
                      !.got = <<NewTab(None, BuildPaneLayout(spec))>>]

ApplyPaneLayout(c, spec) ==
    /\ Input
    /\ win # "closed" /\ ~Busy(c)
    /\ op' = [op EXCEPT ![c] = Launching(spec)]
    /\ UNCHANGED <<ui, rest, saved, pty, exits>>

\* The detached window is opened for a launch: it does not hydrate, and what
\* the windows have saved is removed first.
MountForLaunch(c, spec) ==
    /\ Input
    /\ win = "popout" /\ ~hydrated /\ ~hydrating /\ ~Busy(c) /\ tabs = << >>
    /\ hydrated' = TRUE
    /\ saved' = NothingStored
    /\ op' = [op EXCEPT ![c] = Launching(spec)]
    /\ UNCHANGED <<ui, hydrating, win, pty, exits>>

\* An agent's pane only needs an id.  A shell's is placed when it opens and
\* takes its command; else it is left empty, the PTY, if one opened, too.
LaunchOpen(c) ==
    /\ UNCHANGED inputs
    /\ op[c].call = "launch"
    /\ LET places == PlacesOf(op[c].got)
           shells == {x \in places : op[c].got[1].layout[x[2]].kind = "shell"}
       IN \E placed \in {S \in SUBSET places : places \ S \subseteq shells} :
          \E f \in FreshIds(placed, FreshLeaf) :
          \E lost \in SUBSET (FreshLeaf \ {f[x] : x \in placed}) :
            /\ Cardinality(lost) <= Cardinality(places \ placed)
            /\ pty' = pty \cup lost \cup {f[x] : x \in placed \cap shells}
            /\ op' = [op EXCEPT ![c].call = "launched",
                        ![c].got = <<NewTab(None,
                          [p \in DOMAIN @[1].layout |->
                             IF <<1, p>> \in placed
                             THEN [@[1].layout[p] EXCEPT !.id = f[<<1, p>>]]
                             ELSE [@[1].layout[p] EXCEPT !.empty = TRUE]])>>]
    /\ UNCHANGED <<ui, rest, saved, exits>>

\* The first pane, in the order of the layout, that is not empty.
FirstReal(L) ==
    LET real == {p \in DOMAIN L : ~L[p].empty}
    IN IF real = {} THEN FirstLeafId(L)
       ELSE L[CHOOSE p \in real : \A q \in real : p = q \/ LeftOf(p, q)].id

LaunchFinish(c) ==
    /\ UNCHANGED inputs
    /\ op[c].call = "launched"
    /\ Len(tabs) < MaxTabs
    /\ \E t \in FreshTab :
         /\ tabs' = Append(tabs, NewTab(t, op[c].got[1].layout))
         /\ activeTabId' = t
    /\ focusedLeafId' = FirstReal(op[c].got[1].layout)
    /\ maximizedLeafId' = None
    /\ hydrated' = TRUE
    /\ Done(c)
    /\ UNCHANGED <<hydrating, win, pty, exits>>
    /\ Persist

\* "Open shell here" of an empty pane: a placeholder, or a pane that was empty
\* when it was saved and that a hydration has given a shell it does not show.
ReplaceEmptyStart(c, id) ==
    /\ Input
    /\ Open /\ ~Busy(c) /\ tabs # << >>
    /\ LET L == TabOf(tabs, activeTabId).layout
       IN HasLeaf(L, id) /\ FindLeaf(L, id).empty
    /\ op' = [op EXCEPT ![c] = [Idle EXCEPT !.call = "replaceEmptyLeaf",
                                  !.tab = activeTabId, !.leaf = id,
                                  !.pane = "shell"]]
    /\ UNCHANGED <<ui, rest, saved, pty, exits>>

ReplaceEmpty(c) ==
    /\ UNCHANGED inputs
    /\ op[c].call = "replaceEmptyLeaf" /\ op[c].got # << >>
    /\ tabs' = WithLayout(tabs, op[c].tab,
                 ReplaceLeafNode(TabOf(tabs, op[c].tab).layout, op[c].leaf,
                                 Opened(c)))
    /\ focusedLeafId' = Opened(c).id
    /\ Done(c)
    /\ UNCHANGED <<activeTabId, maximizedLeafId, rest, pty, exits>>
    /\ Persist

\* The shell is gone before it takes the command: the call ends there.
ReplaceEmptySendFails(c) ==
    /\ UNCHANGED inputs
    /\ op[c].call = "replaceEmptyLeaf" /\ op[c].got # << >>
    /\ Done(c)
    /\ UNCHANGED <<ui, rest, saved, pty, exits>>

-----------------------------------------------------------------------------
(* Exits, reset, relaunch                                                  *)

\* Mutant: only the tab on screen is looked at.
MarkExitedInView(id) ==
    /\ tabs' = [i \in DOMAIN tabs |->
                  IF tabs[i].id = activeTabId
                  THEN [tabs[i] EXCEPT !.layout = MarkLeafExited(@, id)]
                  ELSE tabs[i]]
    /\ UNCHANGED <<activeTabId, focusedLeafId, maximizedLeafId>>

MarkExited(id) ==
    /\ tabs' = [i \in DOMAIN tabs |->
                  [tabs[i] EXCEPT !.layout = MarkLeafExited(@, id)]]
    /\ UNCHANGED <<activeTabId, focusedLeafId, maximizedLeafId>>

\* External: a shell ends by itself.
PtyExits(id) ==
    /\ UNCHANGED inputs
    /\ Open /\ id \in pty
    /\ Kill({id})
    /\ UNCHANGED <<ui, rest, saved, op>>

\* The listener of pty-exited.
PtyExited(id) ==
    /\ UNCHANGED inputs
    /\ Open /\ id \in exits
    /\ exits' = exits \ {id}
    /\ MarkExited(id)
    /\ UNCHANGED <<rest, op, pty>>
    /\ Persist

\* teardownSessionsForReset of the settings page.
ResetStart(c) ==
    /\ Input
    /\ win = "main" /\ ~Busy(c)
    /\ op' = [op EXCEPT ![c] = [Idle EXCEPT !.call = "reset", !.got = tabs]]
    /\ UNCHANGED <<ui, rest, saved, pty, exits>>

Reset(c) ==
    /\ UNCHANGED inputs
    /\ op[c].call = "reset"
    /\ Kill(UNION {ShellIds(op[c].got[i].layout) : i \in DOMAIN op[c].got})
    /\ tabs' = << >> /\ activeTabId' = None
    /\ focusedLeafId' = None /\ maximizedLeafId' = None
    /\ saved' = NothingStored
    /\ Done(c)
    /\ UNCHANGED rest

\* The app, or the detached window, is started anew: only localStorage stays.
Relaunch ==
    /\ Input
    /\ tabs' = << >> /\ activeTabId' = None
    /\ focusedLeafId' = None /\ maximizedLeafId' = None
    /\ hydrated' = FALSE /\ hydrating' = FALSE
    /\ win' \in {"main", "popout"}
    /\ op' = [c \in Call |-> Idle]
    /\ pty' = {} /\ exits' = {}
    /\ UNCHANGED saved

\* The user, and the app's own callers of the store.
Inputs ==
    \/ \E c \in Call, kind \in {"agent", "shell"} : AddTabStart(c, kind)
    \/ \E c \in Call, id \in Tab : CloseTabStart(c, id)
    \/ \E c \in Call, id \in Leaf \cup Pending, kind \in {"agent", "shell"} :
         SplitPaneStart(c, id, kind)
    \/ \E c \in Call, id \in Leaf \cup Pending : ClosePaneStart(c, id)
    \/ \E c \in Call, id \in Leaf \cup Pending : ReplaceEmptyStart(c, id)
    \/ \E c \in Call, spec \in Launch : ApplyPaneLayout(c, spec)
    \/ \E c \in Call, spec \in Launch : MountForLaunch(c, spec)
    \/ \E c \in Call : HydrateStart(c)
    \/ \E c \in Call : ResetStart(c)
    \/ \E id \in Tab : SetActiveTab(id)
    \/ \E id \in Leaf : StopAgentPane(id)
    \/ \E id \in Leaf : FocusPane(id)
    \/ \E id \in Leaf \cup Pending : SetFocusedLeaf(id)
    \/ \E id \in Leaf \cup Pending : ToggleMaximize(id)
    \/ RestoreMaximize
    \/ CloseWindow
    \/ Relaunch

\* A call goes on when the shell has answered.
Answers ==
    \E c \in Call :
      \/ AddAgentTab(c)
      \/ OpenTerminal(c)
      \/ OpenTerminalFails(c)
      \/ AddShellTab(c)
      \/ CloseTab(c)
      \/ CloseTabNoReSeed(c)
      \/ SplitPane(c)
      \/ ClosePane(c)
      \/ HydrateSeed(c)
      \/ HydrateOpen(c)
      \/ HydrateFinish(c)
      \/ LaunchOpen(c)
      \/ LaunchFinish(c)
      \/ ReplaceEmpty(c)
      \/ ReplaceEmptySendFails(c)
      \/ Reset(c)

Exits ==
    \/ \E id \in Leaf : PtyExits(id)
    \/ \E id \in Leaf : PtyExited(id)

Next == Inputs \/ Answers \/ Exits

Spec == Init /\ [][Next]_vars

-----------------------------------------------------------------------------
(* Properties                                                              *)

\* A call in flight, or none.
IsCall(x) ==
    /\ x \in [call : {"none", "addTab", "closeTab", "closeTabNoReSeed", "splitPane",
                      "closePane", "replaceEmptyLeaf", "launch", "launched",
                      "seed", "hydrate", "rebuilt", "reset"},
              tab : Tab \cup {None}, leaf : Ids, pane : {"agent", "shell"},
              seen : {x.seen}, got : {x.got}]
    /\ x.seen # NoLayout => IsLayout(x.seen)
    /\ IsStrip(x.got)

\* Every layout of the strip, of localStorage and of a call in flight is a
\* binary tree of leaves; the rest of the state has its type.
TypeOK ==
    /\ IsStrip(tabs) /\ IsSaved(saved)
    /\ activeTabId \in Tab \cup {None}
    /\ focusedLeafId \in Ids /\ maximizedLeafId \in Ids
    /\ hydrated \in BOOLEAN /\ hydrating \in BOOLEAN
    /\ win \in {"main", "popout", "closed"}
    /\ op \in [Call -> Range(op)] /\ \A c \in Call : IsCall(op[c])
    /\ pty \subseteq Leaf /\ exits \subseteq Leaf
    /\ inputs \in 0..MaxInputs

\* No pane is in the strip twice (a placeholder may be in two tabs), no two
\* tabs have one id, and the active tab is one of the strip.  Calls mint ids
\* at one time and write them at another, and one writes a layout that it had
\* read before it awaited (terminal-store.ts:596-624).
StripIsSound ==
    /\ \A i, j \in DOMAIN tabs :
         /\ i # j => /\ tabs[i].id # tabs[j].id
                     /\ CollectLeafIds(tabs[i].layout)
                          \cap CollectLeafIds(tabs[j].layout) \subseteq Pending
         /\ \A p, q \in DOMAIN tabs[i].layout :
              p # q => tabs[i].layout[p].id # tabs[i].layout[q].id
    /\ IF tabs = << >> THEN activeTabId = None
       ELSE activeTabId \in TabIdsOf(tabs)

\* A page of the main window that shows no tab is about to be given one:
\* "terminal page always has at least one tab" (terminal-store.ts:468-470).
\* Only the teardown of a factory reset leaves a bare strip behind.
Bare == /\ win = "main" /\ hydrated /\ tabs = << >>
        /\ \A c \in Call : op[c].call \notin {"addTab", "seed", "rebuilt",
                                             "hydrate", "launch", "launched"}
StripIsRefilled ==
    [][~Bare /\ Bare' =>
         \/ \E c \in Call : op[c].call = "reset" /\ op'[c] = Idle
         \/ \E c \in Call : op[c].call = "addTab" /\ op[c].pane = "shell"]_vars

-----------------------------------------------------------------------------
Shown   == LeafIdsOf(tabs)
Opening == UNION {LeafIdsOf(op[c].got) : c \in Call}
Orphans == pty \ (Shown \cup Opening)

Finishes(c, which) == op[c].call \in which /\ op'[c] # op[c]

\* The call had read its tab, or the strip, before the pane was in it.
LateFor(c, p) ==
    \/ /\ Finishes(c, {"closeTab", "closeTabNoReSeed", "closePane"})
       /\ p \notin CollectLeafIds(op[c].seen)
    \/ /\ Finishes(c, {"reset"}) /\ p \notin LeafIdsOf(op[c].got)

\* The call opened the PTY for a pane that is gone.
TargetGone(c, p) ==
    /\ Finishes(c, {"splitPane", "replaceEmptyLeaf"})
    /\ p \in LeafIdsOf(op[c].got)
    /\ \/ op[c].tab \notin TabIdsOf(tabs)
       \/ ~HasLeaf(TabOf(tabs, op[c].tab).layout, op[c].leaf)

\* The call gives a shell to an empty pane that has one.
Replaced(c, p) == Finishes(c, {"replaceEmptyLeaf"}) /\ op[c].leaf = p /\ p \in Shown

\* A PTY that runs and that no pane shows cannot be closed by anyone.  One is
\* lost when two calls overlap (a pane is split off in a tab while the tab or a
\* pane of it is closing, a split or a replaced pane is gone, a hydration
\* replaces a strip that has got panes), when the shell refuses a later pane of
\* the same tab or the command of a pane, or with the window.  One is lost
\* without any of these: hydrateFromStorage opens a shell for a pane that was
\* saved empty and leaves it empty (terminal-store.ts:731-734), and
\* replaceEmptyLeaf then puts a second one in its place (935-936).
PtyLossIsExplained ==
    [][\A p \in Orphans' \ Orphans :
         \/ \E c \in Call : LateFor(c, p) \/ TargetGone(c, p) \/ Replaced(c, p)
         \/ p \in Shown /\ \E c \in Call : Finishes(c, {"rebuilt"})
         \/ p \notin pty /\ \E c \in Call : Finishes(c, {"hydrate", "launch"})
         \/ \E c \in Call : /\ Finishes(c, {"replaceEmptyLeaf"})
                            /\ p \in LeafIdsOf(op[c].got) /\ UNCHANGED tabs
         \/ win' = "closed" /\ p \in Opening]_vars

\* The step starts the window anew.
Relaunched == tabs' = << >> /\ ~hydrated'

LeavesAsAsked(p) ==
    \/ \E c \in Call :
         \/ /\ Finishes(c, {"closeTab", "closeTabNoReSeed"})
            /\ \E t \in Range(tabs) : t.id = op[c].tab /\ HasLeaf(t.layout, p)
         \/ Finishes(c, {"closePane", "replaceEmptyLeaf"}) /\ op[c].leaf = p
         \/ Finishes(c, {"closePane"}) /\ ~HasLeaf(op[c].seen, p)
         \/ Finishes(c, {"rebuilt", "reset"})
    \/ UNCHANGED op /\ p \notin pty' /\ Shown \ Shown' = {p}
    \/ win' = "closed" \/ Relaunched

EntersAsAsked(p) ==
    \/ p \in FreshLeaf
    \/ \E c \in Call : op'[c] # op[c] /\ p \in LeafIdsOf(op[c].got)
    \/ \E c \in Call : Finishes(c, {"closePane"}) /\ HasLeaf(op[c].seen, p)

\* A pane leaves the strip when it, or its tab, is closed or stopped, or is an
\* empty one that has been given a shell, and enters it when a call has opened
\* it.  There are two exceptions: a hydration replaces panes that were added
\* while it ran (a reset, too), and a closePane writes back the layout it had
\* read before it waited for the shell, which takes away a pane split off since
\* and brings back one closed since (terminal-store.ts:609-617).
PanesComeAndGoAsAsked ==
    [][/\ \A p \in Shown \ Shown' : LeavesAsAsked(p)
       /\ \A p \in Shown' \ Shown : EntersAsAsked(p)]_vars

\* The leaf's shell is gone and nothing will say so.
DeadUnmarked ==
    {l.id : l \in {x \in LeavesOf(tabs) : /\ x.kind = "shell" /\ x.id \in Leaf
                                          /\ x.id \notin pty \cup exits
                                          /\ ~x.exited}}

\* The end of a shell reaches its pane, unless the event came while the call
\* that opened the shell had not yet put the pane into the strip, or a closePane
\* writes back a layout from before the end.
DeadShellIsMarked ==
    [][\A p \in DeadUnmarked' \ DeadUnmarked :
         \/ p \in Opening \ Shown
         \/ \E c \in Call : Finishes(c, {"closePane"}) /\ HasLeaf(op[c].seen, p)
      ]_vars

OnScreen == IF tabs = << >> THEN {}
            ELSE CollectLeafIds(TabOf(tabs, activeTabId).layout)
FocusLost     == focusedLeafId \notin OnScreen \cup {None}
MaximizedLost == maximizedLeafId \notin Shown \cup {None}

\* The keys act on a pane of the tab on screen, and the maximized pane is in the
\* strip.  The focus is lost when a call that opened a pane finishes for a tab
\* that is no longer on screen or a pane that is gone, or a closePane writes
\* back; the maximized pane when the lost focus is maximized, when the pane came
\* after the call that takes it away had read its tab, when a hydration replaces
\* it, and when it is an empty one that is given a shell.
PointersAreShown ==
    [][/\ ~FocusLost /\ FocusLost' =>
            \E c \in Call :
              Finishes(c, {"splitPane", "replaceEmptyLeaf", "closePane"})
       /\ ~MaximizedLost /\ MaximizedLost' =>
            \/ FocusLost /\ maximizedLeafId' = focusedLeafId
            \/ \E c \in Call :
                 \/ LateFor(c, maximizedLeafId)
                 \/ Finishes(c, {"rebuilt"})
                 \/ /\ Finishes(c, {"replaceEmptyLeaf"})
                    /\ op[c].leaf = maximizedLeafId]_vars

\* The panes of a launch stand in the layout in the order of its spec: the
\* prompt and the command of a pane are found by its index (launch.ts:187-190).
LaunchKeepsPaneOrder ==
    \A c \in Call : op[c].call = "launch" =>
      LET L == op[c].got[1].layout
      IN /\ IsTree(DOMAIN L)
         /\ \A p, q \in DOMAIN L : LeftOf(p, q) => L[p].id[2] < L[q].id[2]
=============================================================================
