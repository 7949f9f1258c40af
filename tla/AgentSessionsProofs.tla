------------------------- MODULE AgentSessionsProofs -------------------------
(***************************************************************************)
(* Theorems about the agent session registry, for every set of panes and   *)
(* every set of start calls.                                               *)
(***************************************************************************)
EXTENDS AgentSessions, TLAPS

-----------------------------------------------------------------------------
(* Types                                                                   *)

\* The initial state is well typed.
LEMMA TypeInit == Init => TypeOK
BY DEF Init, TypeOK, Slot, Free, ProcState

\* Every step keeps the types (TypeOK), whichever thread takes it.
LEMMA TypeStep == TypeOK /\ [Next]_vars => TypeOK'
<1> SUFFICES ASSUME TypeOK, [Next]_vars PROVE TypeOK'
    OBVIOUS
<1> USE DEF TypeOK, Slot, Free, Reserved, Cancelled, Live, ProcState
<1>1. CASE UNCHANGED vars
    BY <1>1 DEF vars, callVars, childVars, closeVars
<1>2. ASSUME NEW a \in Attempt, StartStep(a) PROVE TypeOK'
    <2>1. ASSUME NEW p \in Pane, Reserve(a, p) PROVE TypeOK'
        BY <2>1 DEF Reserve, childVars, closeVars
    <2>2. CASE ProvisionFails(a)
        BY <2>2 DEF ProvisionFails, childVars, closeVars
    <2>3. CASE SpawnChild(a)
        BY <2>3 DEF SpawnChild, closeVars
    <2>4. CASE Publish(a)
        BY <2>4 DEF Publish, childVars, closeVars
    <2> QED BY <1>2, <2>1, <2>2, <2>3, <2>4 DEF StartStep
<1>3. ASSUME NEW a \in Attempt, ChildStep(a) PROVE TypeOK'
    BY <1>3 DEF ChildStep, LeaderExits, PipesClose, GroupExits, callVars,
                closeVars
<1>4. ASSUME NEW a \in Attempt, ReaderStep(a) PROVE TypeOK'
    BY <1>4 DEF ReaderStep, ReaderEmits, ReaderEnds, callVars, closeVars
<1>5. ASSUME NEW a \in Attempt, WaiterStep(a) \/ WaiterFails(a) PROVE TypeOK'
    <2>1. CASE WaiterSeesExit(a) \/ WaiterFails(a)
        BY <2>1 DEF WaiterSeesExit, WaiterFails, callVars, closeVars
    <2>2. CASE WaiterCleans(a)
        BY <2>2 DEF WaiterCleans, callVars, closeVars
    <2>3. CASE WaiterEmitsExit(a)
        BY <2>3 DEF WaiterEmitsExit, callVars, closeVars
    <2> QED BY <1>5, <2>1, <2>2, <2>3 DEF WaiterStep
<1>6. ASSUME NEW a \in Attempt, Sigkill(a) PROVE TypeOK'
    BY <1>6 DEF Sigkill, KillGroups, callVars, closeVars
<1>7. ASSUME NEW p \in Pane, Stop(p) PROVE TypeOK'
    BY <1>7 DEF Stop, callVars, childVars, closeVars
<1>8. CASE CloseStep
    <2>1. CASE CloseAll
        BY <2>1 DEF CloseAll, callVars, childVars
    <2>2. CASE CloseKills
        BY <2>2 DEF CloseKills, KillGroups, callVars
    <2>3. CASE AppExits
        BY <2>3 DEF AppExits, callVars, childVars
    <2> QED BY <1>8, <2>1, <2>2, <2>3 DEF CloseStep
<1> QED BY <1>1, <1>2, <1>3, <1>4, <1>5, <1>6, <1>7, <1>8 DEF Next

\* The registry and its threads stay well typed (TypeOK).
THEOREM TypeCorrect == Spec => []TypeOK
<1>1. Init => TypeOK BY TypeInit
<1>2. TypeOK /\ [Next]_vars => TypeOK' BY TypeStep
<1> QED BY <1>1, <1>2, PTL DEF Spec

-----------------------------------------------------------------------------
(* Ownership of slots and children                                         *)

\* A slot belongs to the attempt that reserved it, for the pane of that
\* attempt, and its kind follows the progress of the start call.
SlotHasOwner ==
    \A p \in Pane, a \in Attempt :
        /\ slot[p] \in {Reserved(a), Cancelled(a), Live(a)} => pane[a] = p
        /\ slot[p] \in {Reserved(a), Cancelled(a)} =>
               start[a] \in {"reserved", "spawned"}
        /\ slot[p] = Live(a) => start[a] = "ok"

\* While the app is open a start call finds its reservation where it left it,
\* cancelled at most.
ReservationIsKept ==
    \A a \in Attempt :
        /\ start[a] # "idle" => pane[a] \in Pane
        /\ closePc = "open" /\ start[a] \in {"reserved", "spawned"} =>
               slot[pane[a]] \in {Reserved(a), Cancelled(a)}

\* A child exists only from its spawn on, its readers outlive the writers of
\* its pipes, its waiter stops polling before the slot is cleared, and once
\* its start call is over it is live in the map or being killed.
ChildIsAccounted ==
    \A a \in Attempt :
        /\ start[a] \in {"idle", "reserved"} =>
               proc[a] = "none" /\ reader[a] = "none"
        /\ reader[a] = "ended" => ~PipesHeld(a)
        /\ start[a] = "failed" /\ GoesOn(a) => a \in killing
        /\ start[a] = "ok" /\ GoesOn(a) =>
               slot[pane[a]] = Live(a) \/ a \in killing \/ a \in doomed

\* Only close_all between its SIGTERM and its SIGKILL holds groups.
DoomedWhileTerminating == doomed # {} => closePc = "terminating"

\* A session stopped before it was published is neither reserved nor live.
StoppedIsOut ==
    \A a \in stopped :
        /\ start[a] # "idle"
        /\ slot[pane[a]] \notin {Reserved(a), Live(a)}

OwnInv ==
    /\ SlotHasOwner
    /\ ReservationIsKept
    /\ ChildIsAccounted
    /\ DoomedWhileTerminating
    /\ StoppedIsOut

\* A slot names its kind and its attempt, and Free is none of the others.
LEMMA SlotKinds ==
    /\ \A a \in Attempt :
         {Reserved(a), Cancelled(a), Live(a)} \subseteq Slot \ {Free}
    /\ \A a, b \in Attempt :
         /\ Reserved(a) \notin {Cancelled(b), Live(b)}
         /\ Cancelled(a) # Live(b)
         /\ Reserved(a) = Reserved(b) => a = b
         /\ Cancelled(a) = Cancelled(b) => a = b
         /\ Live(a) = Live(b) => a = b
    /\ Free \in Slot
BY DEF Slot, Free, Reserved, Cancelled, Live

\* At the start no pane has a session and no call was made.
LEMMA OwnInvInit == Init => OwnInv
BY SlotKinds DEF Init, OwnInv, SlotHasOwner, ReservationIsKept,
    ChildIsAccounted, DoomedWhileTerminating, StoppedIsOut, GoesOn, PipesHeld,
    ChildRuns

\* Every step keeps the ownership invariant.
LEMMA OwnInvStep == TypeOK /\ OwnInv /\ [Next]_vars => OwnInv'
<1> SUFFICES ASSUME TypeOK, OwnInv, [Next]_vars PROVE OwnInv'
    OBVIOUS
<1> USE SlotKinds DEF TypeOK, Alive, ChildRuns, PipesHeld, GoesOn
<1> USE DEF OwnInv, SlotHasOwner, ReservationIsKept, ChildIsAccounted,
            DoomedWhileTerminating, StoppedIsOut
<1>1. CASE UNCHANGED vars
    BY <1>1 DEF vars, callVars, childVars, closeVars
<1>2. ASSUME NEW a \in Attempt, NEW p \in Pane, Reserve(a, p) PROVE OwnInv'
    <2>1. CASE slot[p] = Free
        BY <1>2, <2>1 DEF Reserve, childVars, closeVars
    <2>2. CASE slot[p] # Free
        BY <1>2, <2>2 DEF Reserve, childVars, closeVars
    <2> QED BY <2>1, <2>2
<1>3. ASSUME NEW a \in Attempt, ProvisionFails(a) PROVE OwnInv'
    BY <1>3 DEF ProvisionFails, childVars, closeVars
<1>4. ASSUME NEW a \in Attempt, SpawnChild(a) PROVE OwnInv'
    BY <1>4 DEF SpawnChild, closeVars
<1>5. ASSUME NEW a \in Attempt, Publish(a) PROVE OwnInv'
    <2>1. CASE slot[pane[a]] = Reserved(a)
        BY <1>5, <2>1 DEF Publish, childVars, closeVars
    <2>2. CASE slot[pane[a]] # Reserved(a)
        BY <1>5, <2>2 DEF Publish, childVars, closeVars
    <2> QED BY <2>1, <2>2
<1>6. ASSUME NEW a \in Attempt, ChildStep(a) PROVE OwnInv'
    BY <1>6 DEF ChildStep, LeaderExits, PipesClose, GroupExits, callVars,
                closeVars
<1>7. ASSUME NEW a \in Attempt, ReaderStep(a) PROVE OwnInv'
    BY <1>7 DEF ReaderStep, ReaderEmits, ReaderEnds, callVars, closeVars
<1>8. ASSUME NEW a \in Attempt, WaiterStep(a) \/ WaiterFails(a) PROVE OwnInv'
    <2>1. CASE WaiterSeesExit(a) \/ WaiterFails(a)
        BY <2>1 DEF WaiterSeesExit, WaiterFails, callVars, closeVars
    <2>2. CASE WaiterCleans(a)
        <3>1. CASE slot[pane[a]] = Live(a)
            BY <2>2, <3>1 DEF WaiterCleans, callVars, closeVars
        <3>2. CASE slot[pane[a]] # Live(a)
            BY <2>2, <3>2 DEF WaiterCleans, callVars, closeVars
        <3> QED BY <3>1, <3>2
    <2>3. CASE WaiterEmitsExit(a)
        BY <2>3 DEF WaiterEmitsExit, callVars, closeVars
    <2> QED BY <1>8, <2>1, <2>2, <2>3 DEF WaiterStep
<1>9. ASSUME NEW a \in Attempt, Sigkill(a) PROVE OwnInv'
    BY <1>9 DEF Sigkill, KillGroups, callVars, closeVars
<1>10. ASSUME NEW p \in Pane, Stop(p) PROVE OwnInv'
    BY <1>10 DEF Stop, callVars, childVars, closeVars
<1>11. CASE CloseAll
    BY <1>11 DEF CloseAll, callVars, childVars
<1>12. CASE CloseKills
    BY <1>12 DEF CloseKills, KillGroups, callVars
<1>13. CASE AppExits
    BY <1>13 DEF AppExits, callVars, childVars
<1> QED
    BY <1>1, <1>2, <1>3, <1>4, <1>5, <1>6, <1>7, <1>8, <1>9, <1>10, <1>11,
       <1>12, <1>13 DEF Next, StartStep, CloseStep

\* Types and ownership hold in every reachable state.
LEMMA OwnInvariance == Spec => [](TypeOK /\ OwnInv)
BY TypeInit, TypeStep, OwnInvInit, OwnInvStep, PTL DEF Spec

\* However start, stop, close_all and the waiters interleave, a child whose
\* session goes on is about to be published, live in the map, or being killed.
THEOREM EveryChildHasAnOwner == Spec => []NoChildIsLost
<1>1. TypeOK /\ OwnInv => NoChildIsLost
    BY DEF TypeOK, OwnInv, ChildIsAccounted, NoChildIsLost, InHand, GoesOn,
           PipesHeld, ChildRuns
<1> QED BY <1>1, OwnInvariance, PTL

\* A session stopped while it was being started is never published.
THEOREM StopWins == Spec => []StopIsNotUndone
<1>1. OwnInv => StopIsNotUndone
    BY DEF OwnInv, StoppedIsOut, StopIsNotUndone
<1> QED BY <1>1, OwnInvariance, PTL

\* Until the app closes, two sessions of one pane never go on without one of
\* them being killed.
THEOREM PaneHasOneChild == Spec => []OneChildPerPane
<1>1. TypeOK /\ OwnInv => OneChildPerPane
    <2> SUFFICES ASSUME TypeOK, OwnInv, closePc = "open",
                        NEW a \in Attempt, NEW b \in Attempt,
                        GoesOn(a), GoesOn(b), pane[a] = pane[b],
                        a \notin killing, b \notin killing
                 PROVE  a = b
        BY DEF OneChildPerPane
    <2>1. doomed = {}
        BY DEF OwnInv, DoomedWhileTerminating
    <2>2. ASSUME NEW c \in Attempt, GoesOn(c), c \notin killing
          PROVE  slot[pane[c]] \in {Reserved(c), Cancelled(c), Live(c)}
        BY <2>1, <2>2
           DEF TypeOK, OwnInv, ReservationIsKept, ChildIsAccounted, GoesOn,
               PipesHeld, ChildRuns
    <2> QED BY <2>2, SlotKinds
<1> QED BY <1>1, OwnInvariance, PTL

-----------------------------------------------------------------------------
(* Order of the frames                                                     *)

\* The waiter passes its joins only when the readers have ended, and it is the
\* one that emits the exit frame.
FrameInv ==
    \A a \in Attempt :
        /\ start[a] \in {"idle", "reserved"} => waiter[a] = "none"
        /\ waiter[a] \in {"cleaned", "done"} => reader[a] = "ended"
        /\ frame[a] = "exit" => waiter[a] = "done"

\* No frame has been emitted at the start.
LEMMA FrameInvInit == Init => FrameInv
BY DEF Init, FrameInv

\* Every step keeps the order of reader, waiter and frames.
LEMMA FrameInvStep == TypeOK /\ FrameInv /\ [Next]_vars => FrameInv'
<1> SUFFICES ASSUME TypeOK, FrameInv, [Next]_vars PROVE FrameInv'
    OBVIOUS
<1> USE DEF TypeOK, FrameInv, callVars, childVars, closeVars
<1>1. CASE UNCHANGED vars
    BY <1>1 DEF vars
<1>2. ASSUME NEW a \in Attempt, StartStep(a) PROVE FrameInv'
    <2>1. ASSUME NEW p \in Pane, Reserve(a, p) PROVE FrameInv'
        BY <2>1 DEF Reserve
    <2>2. CASE ProvisionFails(a) \/ Publish(a)
        BY <2>2 DEF ProvisionFails, Publish
    <2>3. CASE SpawnChild(a)
        BY <2>3 DEF SpawnChild
    <2> QED BY <1>2, <2>1, <2>2, <2>3 DEF StartStep
<1>3. ASSUME NEW a \in Attempt, ChildStep(a) \/ Sigkill(a) PROVE FrameInv'
    BY <1>3 DEF ChildStep, LeaderExits, PipesClose, GroupExits, Sigkill
<1>4. ASSUME NEW a \in Attempt, ReaderStep(a) PROVE FrameInv'
    BY <1>4 DEF ReaderStep, ReaderEmits, ReaderEnds
<1>5. ASSUME NEW a \in Attempt, WaiterStep(a) \/ WaiterFails(a) PROVE FrameInv'
    <2>1. CASE WaiterSeesExit(a) \/ WaiterFails(a)
        BY <2>1 DEF WaiterSeesExit, WaiterFails
    <2>2. CASE WaiterCleans(a)
        BY <2>2 DEF WaiterCleans
    <2>3. CASE WaiterEmitsExit(a)
        BY <2>3 DEF WaiterEmitsExit
    <2> QED BY <1>5, <2>1, <2>2, <2>3 DEF WaiterStep
<1>6. ASSUME NEW p \in Pane, Stop(p) PROVE FrameInv'
    BY <1>6 DEF Stop
<1>7. CASE CloseStep
    BY <1>7 DEF CloseStep, CloseAll, CloseKills, AppExits
<1> QED BY <1>1, <1>2, <1>3, <1>4, <1>5, <1>6, <1>7 DEF Next

\* Nothing is emitted for a session after its exit frame.
THEOREM ExitFrameEndsTheStream == Spec => ExitFrameIsLast
<1>1. TypeOK /\ FrameInv /\ [Next]_vars =>
          [\A a \in Attempt : frame[a] = "exit" => frame'[a] = "exit"]_vars
    <2> SUFFICES ASSUME TypeOK, FrameInv, Next,
                        NEW b \in Attempt, frame[b] = "exit"
                 PROVE  frame'[b] = "exit"
        OBVIOUS
    <2>1. reader[b] = "ended" /\ waiter[b] = "done"
        BY DEF FrameInv
    <2>2. ASSUME NEW a \in Attempt,
                 ReaderStep(a) \/ WaiterStep(a) \/ WaiterFails(a)
          PROVE  frame'[b] = "exit"
        BY <2>1, <2>2 DEF TypeOK, ReaderStep, ReaderEmits, ReaderEnds,
            WaiterStep, WaiterSeesExit, WaiterFails, WaiterCleans,
            WaiterEmitsExit
    <2>3. ASSUME NEW a \in Attempt, StartStep(a) \/ ChildStep(a) \/ Sigkill(a)
          PROVE  frame'[b] = "exit"
        BY <2>3 DEF StartStep, Reserve, ProvisionFails, SpawnChild, Publish,
            ChildStep, LeaderExits, PipesClose, GroupExits, Sigkill, childVars
    <2>4. CASE (\E p \in Pane : Stop(p)) \/ CloseStep
        BY <2>4 DEF Stop, CloseStep, CloseAll, CloseKills, AppExits, childVars
    <2> QED BY <2>2, <2>3, <2>4 DEF Next
<1> QED
    BY <1>1, TypeInit, TypeStep, FrameInvInit, FrameInvStep, PTL
    DEF Spec, ExitFrameIsLast
=============================================================================
