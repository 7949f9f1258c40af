---------------------------- MODULE AgentSessions ----------------------------
(***************************************************************************)
(* The registry of duplex agent sessions (src-tauri/src/agent/mod.rs): at  *)
(* most one `claude` child per terminal pane, kept in a mutex-protected    *)
(* map from pane to slot.                                                  *)
(*                                                                         *)
(* start, stop and close_all may be called from any thread; start takes    *)
(* the lock twice, to reserve the pane and to publish the session, and     *)
(* provisions the child in between without it.  Each spawned child has     *)
(* reader threads that forward its output as frames and a waiter thread    *)
(* that sees its exit, joins the readers, removes the slot and emits the   *)
(* terminal exit frame.  One attempt to start is one session id.           *)
(***************************************************************************)
EXTENDS Naturals, FiniteSets

CONSTANTS
    Pane,             \* terminal panes
    Attempt,          \* calls of start, each with the session id it mints
    None              \* an attempt that was not made for any pane yet

ASSUME AgentAssumption == None \notin Pane /\ None \notin Attempt

VARIABLES
    slot,             \* [Pane -> Slot], the map AgentManager.sessions
    pane,             \* [Attempt -> Pane], the pane a start call is for
    start,            \* progress of the start call
    proc,             \* process group of the child, ProcState
    reader,           \* reader threads: "none", "reading", "ended"
    waiter,           \* waiter thread
    frame,            \* kind of the last frame emitted for the session
    killing,          \* groups sent SIGTERM, whose detached SIGKILL is due
    closePc,          \* progress of close_all and of the app's exit
    doomed,           \* groups close_all is stopping
    stopped           \* history: sessions stopped before they were published

callVars  == <<pane, start>>
childVars == <<proc, reader, waiter, frame>>
closeVars == <<closePc, doomed>>
vars == <<slot, callVars, childVars, killing, closeVars, stopped>>

Free         == [st |-> "free", id |-> None]
Reserved(a)  == [st |-> "reserved", id |-> a]
Cancelled(a) == [st |-> "cancelled", id |-> a]
Live(a)      == [st |-> "live", id |-> a]

Slot == {Free} \cup [st : {"reserved", "cancelled", "live"}, id : Attempt]

\* What is left of a child's process group, and of the writers of its pipes.
ProcState == {
    "none",        \* not spawned
    "running",     \* the child runs and its pipes are open
    "mute",        \* the child runs, no writer of the pipes is left
    "lingering",   \* the child has exited, what it forked holds the pipes
    "detached",    \* the child has exited, no writer of the pipes is left,
                   \* something of the group with other outputs lives on
    "gone" }       \* nothing of the group is left

TypeOK ==
    /\ slot \in [Pane -> Slot]
    /\ pane \in [Attempt -> Pane \cup {None}]
    /\ start \in [Attempt -> {"idle", "reserved", "spawned", "ok", "failed"}]
    /\ proc \in [Attempt -> ProcState]
    /\ reader \in [Attempt -> {"none", "reading", "ended"}]
    /\ waiter \in [Attempt -> {"none", "polling", "joining", "cleaned", "done"}]
    /\ frame \in [Attempt -> {"none", "output", "exit"}]
    /\ killing \subseteq Attempt
    /\ closePc \in {"open", "terminating", "killed", "exited"}
    /\ doomed \subseteq Attempt
    /\ stopped \subseteq Attempt

Init ==
    /\ slot = [p \in Pane |-> Free]
    /\ pane = [a \in Attempt |-> None]
    /\ start = [a \in Attempt |-> "idle"]
    /\ proc = [a \in Attempt |-> "none"]
    /\ reader = [a \in Attempt |-> "none"]
    /\ waiter = [a \in Attempt |-> "none"]
    /\ frame = [a \in Attempt |-> "none"]
    /\ killing = {} /\ doomed = {} /\ stopped = {}
    /\ closePc = "open"

ChildRuns(a) == proc[a] \in {"running", "mute"}
PipesHeld(a) == proc[a] \in {"running", "lingering"}
Alive(a)     == proc[a] \in {"running", "mute", "lingering", "detached"}

\* Every thread but the children lives in the app's process.
Running == closePc # "exited"

-----------------------------------------------------------------------------
(* start                                                                   *)

\* Mutant: the pane is reserved whoever holds it.
ReserveAnyway(a, p) ==
    /\ Running /\ start[a] = "idle"
    /\ pane' = [pane EXCEPT ![a] = p]
    /\ start' = [start EXCEPT ![a] = "reserved"]
    /\ slot' = [slot EXCEPT ![p] = Reserved(a)]
    /\ UNCHANGED <<childVars, killing, closeVars, stopped>>

\* Step 1: the duplicate check and the reservation in one critical section.
Reserve(a, p) ==
    /\ Running /\ start[a] = "idle"
    /\ pane' = [pane EXCEPT ![a] = p]
    /\ IF slot[p] = Free
         THEN /\ slot' = [slot EXCEPT ![p] = Reserved(a)]
              /\ start' = [start EXCEPT ![a] = "reserved"]
         ELSE /\ start' = [start EXCEPT ![a] = "failed"]
              /\ UNCHANGED slot
    /\ UNCHANGED <<childVars, killing, closeVars, stopped>>

\* Steps 2 to 6 fail (cwd, argv, spawn): the guard's Drop removes the slot
\* if it is still this attempt's, reserved or cancelled.
ProvisionFails(a) ==
    /\ Running /\ start[a] = "reserved"
    /\ start' = [start EXCEPT ![a] = "failed"]
    /\ slot' = [slot EXCEPT ![pane[a]] =
                  IF @ \in {Reserved(a), Cancelled(a)} THEN Free ELSE @]
    /\ UNCHANGED <<pane, childVars, killing, closeVars, stopped>>

\* Steps 6 to 8: the child is spawned and its threads are started.
SpawnChild(a) ==
    /\ Running /\ start[a] = "reserved"
    /\ start' = [start EXCEPT ![a] = "spawned"]
    /\ proc' = [proc EXCEPT ![a] = "running"]
    /\ reader' = [reader EXCEPT ![a] = "reading"]
    /\ waiter' = [waiter EXCEPT ![a] = "polling"]
    /\ UNCHANGED <<slot, pane, frame, killing, closeVars, stopped>>

\* Mutant: the session is published over whatever the slot holds.
PublishUnchecked(a) ==
    /\ Running /\ start[a] = "spawned"
    /\ slot' = [slot EXCEPT ![pane[a]] = Live(a)]
    /\ start' = [start EXCEPT ![a] = "ok"]
    /\ UNCHANGED <<pane, childVars, killing, closeVars, stopped>>

\* Mutant: a start that was stopped returns its error and leaves the child.
PublishForgetsChild(a) ==
    /\ Running /\ start[a] = "spawned"
    /\ IF slot[pane[a]] = Reserved(a)
         THEN /\ slot' = [slot EXCEPT ![pane[a]] = Live(a)]
              /\ start' = [start EXCEPT ![a] = "ok"]
         ELSE /\ slot' = [slot EXCEPT ![pane[a]] =
                            IF @ = Cancelled(a) THEN Free ELSE @]
              /\ start' = [start EXCEPT ![a] = "failed"]
    /\ UNCHANGED <<pane, childVars, killing, closeVars, stopped>>

\* Step 9: publish the session if the slot is still reserved for it;
\* otherwise clear the slot if it is this attempt's, and terminate the child.
Publish(a) ==
    /\ Running /\ start[a] = "spawned"
    /\ IF slot[pane[a]] = Reserved(a)
         THEN /\ slot' = [slot EXCEPT ![pane[a]] = Live(a)]
              /\ start' = [start EXCEPT ![a] = "ok"]
              /\ UNCHANGED killing
         ELSE /\ slot' = [slot EXCEPT ![pane[a]] =
                            IF @ = Cancelled(a) THEN Free ELSE @]
              /\ start' = [start EXCEPT ![a] = "failed"]
              /\ killing' = killing \cup {a}
    /\ UNCHANGED <<pane, childVars, closeVars, stopped>>

-----------------------------------------------------------------------------
(* stop and close_all                                                      *)

\* A live session leaves the map and is terminated; a reservation is marked
\* cancelled for its start call to find; anything else is left as it is.
Stop(p) ==
    /\ Running
    /\ \E a \in Attempt :
         \/ /\ slot[p] = Live(a)
            /\ slot' = [slot EXCEPT ![p] = Free]
            /\ killing' = killing \cup {a}
            /\ UNCHANGED stopped
         \/ /\ slot[p] = Reserved(a)
            /\ slot' = [slot EXCEPT ![p] = Cancelled(a)]
            /\ stopped' = stopped \cup {a}
            /\ UNCHANGED killing
    /\ UNCHANGED <<callVars, childVars, closeVars>>

KillGroups(S) ==
    proc' = [a \in Attempt |-> IF a \in S /\ Alive(a) THEN "gone" ELSE proc[a]]

\* Mutant: the leader is killed alone, not its group.
SigkillLeaderOnly(a) ==
    /\ Running /\ a \in killing
    /\ killing' = killing \ {a}
    /\ proc' = [proc EXCEPT ![a] = IF @ = "running" THEN "lingering"
                                    ELSE IF @ = "mute" THEN "detached" ELSE @]
    /\ UNCHANGED <<slot, callVars, reader, waiter, frame, closeVars, stopped>>

\* The detached thread of terminate_process_group sends SIGKILL.
Sigkill(a) ==
    /\ Running /\ a \in killing
    /\ killing' = killing \ {a}
    /\ KillGroups({a})
    /\ UNCHANGED <<slot, callVars, reader, waiter, frame, closeVars, stopped>>

\* Mutant: whatever the map holds is signalled, also where no session is.
CloseAllSignalsEverySlot ==
    /\ closePc = "open"
    /\ closePc' = "terminating"
    /\ doomed' = {slot[p].id : p \in Pane}
    /\ slot' = [p \in Pane |-> Free]
    /\ UNCHANGED <<callVars, childVars, killing, stopped>>

\* close_all on the window's CloseRequested: the map is emptied; only live
\* sessions have a group to signal.
CloseAll ==
    /\ closePc = "open"
    /\ closePc' = "terminating"
    /\ doomed' = {a \in Attempt : \E p \in Pane : slot[p] = Live(a)}
    /\ slot' = [p \in Pane |-> Free]
    /\ UNCHANGED <<callVars, childVars, killing, stopped>>

CloseKills ==
    /\ closePc = "terminating"
    /\ closePc' = "killed"
    /\ doomed' = {}
    /\ KillGroups(doomed)
    /\ UNCHANGED <<slot, callVars, reader, waiter, frame, killing, stopped>>

AppExits ==
    /\ closePc = "killed"
    /\ closePc' = "exited"
    /\ UNCHANGED <<slot, callVars, childVars, killing, doomed, stopped>>

-----------------------------------------------------------------------------
(* The children and their threads                                          *)

\* The child exits (by itself, on SIGTERM, or on its closed stdin); what it
\* forked may live on, with its pipes or with other outputs.
LeaderExits(a) ==
    /\ ChildRuns(a)
    /\ \E p \in {"lingering", "detached", "gone"} :
         /\ p = "lingering" => PipesHeld(a)
         /\ proc' = [proc EXCEPT ![a] = p]
    /\ UNCHANGED <<slot, callVars, reader, waiter, frame, killing, closeVars,
                   stopped>>

\* The last writer of the pipes closes them and the group lives on.
PipesClose(a) ==
    /\ PipesHeld(a)
    /\ proc' = [proc EXCEPT ![a] = IF ChildRuns(a) THEN "mute" ELSE "detached"]
    /\ UNCHANGED <<slot, callVars, reader, waiter, frame, killing, closeVars,
                   stopped>>

GroupExits(a) ==
    /\ Alive(a) /\ ~ChildRuns(a)
    /\ proc' = [proc EXCEPT ![a] = "gone"]
    /\ UNCHANGED <<slot, callVars, reader, waiter, frame, killing, closeVars,
                   stopped>>

\* The readers forward what the pipes hold, also after the last writer left.
ReaderEmits(a) ==
    /\ Running /\ reader[a] = "reading"
    /\ frame' = [frame EXCEPT ![a] = "output"]
    /\ UNCHANGED <<slot, callVars, proc, reader, waiter, killing, closeVars,
                   stopped>>

\* End of file: no writer of the pipes is left.
ReaderEnds(a) ==
    /\ Running /\ reader[a] = "reading" /\ ~PipesHeld(a)
    /\ reader' = [reader EXCEPT ![a] = "ended"]
    /\ UNCHANGED <<slot, callVars, proc, waiter, frame, killing, closeVars,
                   stopped>>

WaiterSeesExit(a) ==
    /\ Running /\ waiter[a] = "polling" /\ ~ChildRuns(a)
    /\ waiter' = [waiter EXCEPT ![a] = "joining"]
    /\ UNCHANGED <<slot, callVars, proc, reader, frame, killing, closeVars,
                   stopped>>

\* try_wait fails: the waiter goes on as if the child had exited.
WaiterFails(a) ==
    /\ Running /\ waiter[a] = "polling"
    /\ waiter' = [waiter EXCEPT ![a] = "joining"]
    /\ UNCHANGED <<slot, callVars, proc, reader, frame, killing, closeVars,
                   stopped>>

\* Mutant: the readers are not joined.
WaiterCleansEarly(a) ==
    /\ Running /\ waiter[a] = "joining"
    /\ waiter' = [waiter EXCEPT ![a] = "cleaned"]
    /\ slot' = [slot EXCEPT ![pane[a]] = IF @ = Live(a) THEN Free ELSE @]
    /\ UNCHANGED <<callVars, proc, reader, frame, killing, closeVars, stopped>>

\* The readers have ended; the slot is removed if this session is live in it.
WaiterCleans(a) ==
    /\ Running /\ waiter[a] = "joining" /\ reader[a] = "ended"
    /\ waiter' = [waiter EXCEPT ![a] = "cleaned"]
    /\ slot' = [slot EXCEPT ![pane[a]] = IF @ = Live(a) THEN Free ELSE @]
    /\ UNCHANGED <<callVars, proc, reader, frame, killing, closeVars, stopped>>

WaiterEmitsExit(a) ==
    /\ Running /\ waiter[a] = "cleaned"
    /\ waiter' = [waiter EXCEPT ![a] = "done"]
    /\ frame' = [frame EXCEPT ![a] = "exit"]
    /\ UNCHANGED <<slot, callVars, proc, reader, killing, closeVars, stopped>>

-----------------------------------------------------------------------------
StartStep(a) ==
    \/ \E p \in Pane : Reserve(a, p)
    \/ ProvisionFails(a) \/ SpawnChild(a) \/ Publish(a)
ChildStep(a) == LeaderExits(a) \/ PipesClose(a) \/ GroupExits(a)
ReaderStep(a) == ReaderEmits(a) \/ ReaderEnds(a)
WaiterStep(a) == WaiterSeesExit(a) \/ WaiterCleans(a) \/ WaiterEmitsExit(a)
CloseStep == CloseAll \/ CloseKills \/ AppExits

Next ==
    \/ \E a \in Attempt :
         StartStep(a) \/ ChildStep(a) \/ ReaderStep(a) \/ WaiterStep(a)
           \/ WaiterFails(a) \/ Sigkill(a)
    \/ \E p \in Pane : Stop(p)
    \/ CloseStep

Spec == Init /\ [][Next]_vars

\* The threads of the app take their steps.  No child has to exit, no wait has
\* to fail, and no pane has to be started, stopped or closed.
Fairness ==
    \A a \in Attempt :
        /\ WF_vars(Publish(a))
        /\ WF_vars(Sigkill(a))
        /\ WF_vars(ReaderEnds(a))
        /\ WF_vars(WaiterStep(a))

FairSpec == Spec /\ Fairness

-----------------------------------------------------------------------------
(* Properties                                                              *)

\* A session goes on while something holds its pipes, and while its child runs
\* and is waited for.  Processes the child forked with other outputs may
\* outlive it, and the registry does not know them.
GoesOn(a) == PipesHeld(a) \/ (ChildRuns(a) /\ waiter[a] = "polling")

\* A child somebody will end, or still has in hand: its start call has yet to
\* publish it, it is live in the map, or a SIGKILL is on its way.
InHand(a) ==
    \/ start[a] = "spawned"
    \/ slot[pane[a]] = Live(a)
    \/ a \in killing
    \/ a \in doomed

\* However start, stop, close_all and the waiters of earlier sessions of the
\* pane interleave, no child is lost from the map while its session goes on
\* (agent/mod.rs:520-526, 757-761).
NoChildIsLost == \A a \in Attempt : GoesOn(a) => InHand(a)

\* A stop that finds the session still being started is not undone when the
\* start call gets to its publish step (agent/mod.rs:338-345).
StopIsNotUndone == \A a \in stopped : slot[pane[a]] # Live(a)

\* One pane never has two sessions that go on and that nobody is ending, until
\* the app closes.
OneChildPerPane ==
    closePc = "open" =>
        \A a, b \in Attempt :
            GoesOn(a) /\ GoesOn(b) /\ a # b /\ pane[a] = pane[b] =>
                a \in killing \/ b \in killing

\* The exit frame of a session is its last frame.
ExitFrameIsLast ==
    [][\A a \in Attempt : frame[a] = "exit" => frame'[a] = "exit"]_vars

\* "self-cleanup on the child's own exit" (agent/mod.rs:449-451): a session
\* whose exit frame is out is not live in the map.
ExitedSessionIsRemoved ==
    \A a \in Attempt : frame[a] = "exit" => slot[pane[a]] # Live(a)

\* A stopped session ends with its exit frame, whatever its child does with
\* SIGTERM, unless the app exits first.
StoppedSessionEnds ==
    \A a \in Attempt : a \in killing ~> frame[a] = "exit" \/ ~Running
=============================================================================
