-------------------------- MODULE RunDispatchProofs --------------------------
(***************************************************************************)
(* Proofs about RunDispatch, for any set of runs and any bounds.           *)
(***************************************************************************)
EXTENDS RunDispatch, TLAPS

USE DEF ExitCode, ProcState, FinState

\* A request of one of the three kinds is a message.
LEMMA MessageType ==
    ASSUME NEW r \in Run, NEW x \in ExitCode
    PROVE  /\ StartMsg(r) \in Message
           /\ TimeoutMsg(r) \in Message
           /\ FinishMsg(r, x) \in Message
BY DEF StartMsg, TimeoutMsg, FinishMsg, Message

\* Posting a message keeps the network well typed.
LEMMA PostType ==
    ASSUME net \subseteq Message, NEW m \in Message, Post(m)
    PROVE  net' \subseteq Message
BY DEF Post

\* Every handler of the store keeps the types of its variables.
LEMMA StoreTypePreserved ==
    ASSUME StoreTypeOK, NEW r \in Run, NEW x \in ExitCode,
           \/ InsertRun(r, "queued") \/ DeleteRun(r) \/ StartRun(r)
           \/ FinishRun(r, x)
           \/ TimeoutRun(r) \/ CancelRun(r) \/ SweepStaleRun(r)
           \/ ReapOrphanedRuns \/ CloseSession(r)
           \/ SessionHook(r) \/ SessionEndHook(r)
    PROVE  StoreTypeOK'
<1> USE DEF StoreTypeOK, RowStatus, SessionStatus, Active, Terminal, Inert
<1>1. CASE InsertRun(r, "queued")
  BY <1>1 DEF InsertRun
<1>2. CASE DeleteRun(r)
  BY <1>2 DEF DeleteRun
<1>3. CASE StartRun(r)
  BY <1>3 DEF StartRun
<1>4. CASE FinishRun(r, x)
  BY <1>4 DEF FinishRun
<1>5. CASE TimeoutRun(r)
  BY <1>5 DEF TimeoutRun
<1>6. CASE CancelRun(r)
  BY <1>6 DEF CancelRun
<1>7. CASE SweepStaleRun(r)
  BY <1>7 DEF SweepStaleRun, OpenSessions
<1>8. CASE ReapOrphanedRuns
  BY <1>8 DEF ReapOrphanedRuns, OpenSessions
<1>9. CASE CloseSession(r)
  BY <1>9 DEF CloseSession
<1>10. CASE SessionHook(r) \/ SessionEndHook(r)
  BY <1>10 DEF SessionHook, SessionEndHook
<1> QED BY <1>1, <1>2, <1>3, <1>4, <1>5, <1>6, <1>7, <1>8, <1>9, <1>10

LeaderGone(r) == proc[r] \in {"lingering", "detached", "gone"}

\* What the shell keeps, without the store and the network.
ShellTypeOK ==
    /\ shell \in {"up", "gone"}
    /\ closePc \in {"open", "terminating", "killed", "stopped"}
    /\ sidecar \in {"starting", "up", "down"}
    /\ pollPc \in {"idle", "starting", "building", "spawned"}
    /\ pollPc # "idle" => cur \in Run
    /\ batch \subseteq Run
    /\ cur \in Run \cup {None}
    /\ proc \in [Run -> ProcState]
    /\ exit \in [Run -> ExitCode \cup {"none"}]
    /\ \A r \in Run : LeaderGone(r) => exit[r] \in ExitCode
    /\ \A r \in Run : fin[r] = "waiting" => proc[r] # "none"
    /\ \A r \in Run : fin[r] = "draining" => exit[r] \in ExitCode
    /\ pollPc = "spawned" => proc[cur] # "none"
    /\ registry \subseteq Run
    /\ handled \in [Run -> BOOLEAN]
    /\ wdog \in [Run -> {"none", "armed", "killing", "posted", "done"}]
    /\ fin \in [Run -> FinState]
    /\ doomed \subseteq Run
    /\ spawns \in [Run -> Nat]
    /\ reports \in [Run -> Nat]
    /\ launches \in 1..MaxLaunches

\* TypeOK made inductive: while the poll thread is busy it has a current run,
\* a process that is waited for was launched, and one whose leader has exited
\* has an exit code, which a finish thread that drains has seen.
TypeInv == StoreTypeOK /\ net \subseteq Message /\ ShellTypeOK

\* The initial state satisfies the type invariant.
LEMMA TypeInvInit == Init => TypeInv
BY DispatchAssumption
   DEF Init, StoreInit, TypeInv, ShellTypeOK, LeaderGone, StoreTypeOK,
       RowStatus, SessionStatus, DispatchAssumption

\* Every step of the store, the shell and the environment keeps it.
LEMMA TypeInvStep == TypeInv /\ [Next]_vars => TypeInv'
<1> SUFFICES ASSUME TypeInv, [Next]_vars PROVE TypeInv'
  OBVIOUS
<1> USE DispatchAssumption DEF DispatchAssumption
<1> USE DEF TypeInv, ShellTypeOK, LeaderGone
<1> USE DEF pollVars, procVars, threadVars, appVars, storeVars
<1>1. ASSUME NEW r \in Run, StoreStep(r) PROVE TypeInv'
  <2>1. StoreTypeOK'
    BY <1>1, StoreTypePreserved
       DEF StoreStep, StoreOnly, Hook, Enqueue, Cancel, Sweep, Delete
  <2> QED BY <1>1, <2>1 DEF StoreStep, StoreOnly, Hook
<1>2. ASSUME NEW r \in Run, HandleStep(r) PROVE TypeInv'
  <2>1. StoreTypeOK'
    BY <1>2, StoreTypePreserved
       DEF HandleStep, HandleStart, HandleFinish, HandleTimeout
  <2> QED
    BY <1>2, <2>1 DEF HandleStep, HandleStart, HandleFinish, HandleTimeout
<1>3. ASSUME NEW r \in Run, ProcessStep(r) PROVE TypeInv'
  <2>1. CASE LeaderExits(r)
    <3>1. PICK p \in {"lingering", "detached", "gone"}, x \in ExitCode :
            /\ proc' = [proc EXCEPT ![r] = p]
            /\ exit' = [exit EXCEPT ![r] = x]
      BY <2>1 DEF LeaderExits
    <3> QED BY <2>1, <3>1 DEF LeaderExits, LeaderRuns, StoreTypeOK
  <2>2. CASE PipesClose(r)
    BY <2>2 DEF PipesClose, LeaderRuns, PipesHeld, StoreTypeOK
  <2>3. CASE GroupExits(r)
    BY <2>3 DEF GroupExits, Alive, LeaderRuns, StoreTypeOK
  <2> QED BY <1>3, <2>1, <2>2, <2>3 DEF ProcessStep
<1>4. ASSUME NEW r \in Run, WatchdogStep(r) PROVE TypeInv'
  <2>1. CASE WatchdogFires(r)
    BY <2>1 DEF WatchdogFires, StoreTypeOK
  <2>2. CASE WatchdogReports(r)
    <3>1. net' \subseteq Message
      BY <2>2, MessageType, PostType DEF WatchdogReports
    <3> QED
      BY <2>2, <3>1 DEF WatchdogReports, KillGroups, Alive, LeaderRuns,
                        StoreTypeOK
  <2>3. CASE WatchdogEnds(r)
    BY <2>3 DEF WatchdogEnds, StoreTypeOK
  <2> QED BY <1>4, <2>1, <2>2, <2>3 DEF WatchdogStep
<1>5. ASSUME NEW r \in Run, FinishStep(r) \/ WaitFails(r) PROVE TypeInv'
  <2>1. CASE FinishSeesExit(r)
    BY <2>1 DEF FinishSeesExit, LeaderRuns, StoreTypeOK
  <2>4. CASE WaitFails(r)
    BY <2>4 DEF WaitFails, StoreTypeOK
  <2>2. CASE FinishReports(r)
    <3>1. net' \subseteq Message
      <4>1. \A x \in Reportable(r) : FinishMsg(r, x) \in Message
        BY MessageType, <2>2 DEF FinishReports, Reportable
      <4> QED BY <2>2, <4>1, PostType DEF FinishReports
    <3> QED BY <2>2, <3>1 DEF FinishReports, StoreTypeOK
  <2>3. CASE FinishEnds(r)
    BY <2>3 DEF FinishEnds, StoreTypeOK
  <2> QED BY <1>5, <2>1, <2>2, <2>3, <2>4 DEF FinishStep
<1>6. CASE RequestFails
  BY <1>6 DEF RequestFails, StoreTypeOK
<1>7. CASE PollStep
  <2>1. CASE FetchPending
    BY <2>1 DEF FetchPending, Queued, StoreTypeOK
  <2>2. ASSUME NEW r \in Run, DispatchRun(r) PROVE TypeInv'
    <3>1. net' \subseteq Message
      BY <2>2, MessageType, PostType DEF DispatchRun
    <3> QED BY <2>2, <3>1 DEF DispatchRun, StoreTypeOK
  <2>3. CASE StartGivenUp \/ BuildFails
    BY <2>3 DEF StartGivenUp, BuildFails, BackToIdle, StoreTypeOK
  <2>4. CASE ReportUnlaunched
    <3>1. net' \subseteq Message
      BY <2>4, MessageType, PostType DEF ReportUnlaunched
    <3> QED BY <2>4, <3>1 DEF ReportUnlaunched, BackToIdle, StoreTypeOK
  <2>5. CASE Spawn
    BY <2>5 DEF Spawn, StoreTypeOK
  <2>6. CASE Supervise
    BY <2>6 DEF Supervise, BackToIdle, StoreTypeOK
  <2> QED BY <1>7, <2>1, <2>2, <2>3, <2>4, <2>5, <2>6 DEF PollStep
<1>8. CASE CloseRequested \/ CloseStep
  <2>1. CASE CloseRequested
    BY <2>1 DEF CloseRequested, StoreTypeOK
  <2>2. CASE CloseKills
    BY <2>2 DEF CloseKills, KillGroups, Alive, LeaderRuns, StoreTypeOK
  <2>3. CASE CloseStopsSidecar
    BY <2>3 DEF CloseStopsSidecar, SidecarDies, StoreTypeOK
  <2>4. CASE AppExits
    BY <2>4 DEF AppExits, ShellEnds, StoreTypeOK
  <2> QED BY <1>8, <2>1, <2>2, <2>3, <2>4 DEF CloseStep
<1>9. CASE CrashStep
  <2>1. CASE ShellCrashes
    BY <2>1 DEF ShellCrashes, ShellEnds, StoreTypeOK
  <2>2. CASE SidecarCrashes
    BY <2>2 DEF SidecarCrashes, SidecarGone, SidecarDies, StoreTypeOK
  <2> QED BY <1>9, <2>1, <2>2 DEF CrashStep
<1>10. CASE LaunchStep
  <2>1. CASE SidecarFollowsShell
    BY <2>1 DEF SidecarFollowsShell, SidecarGone, SidecarDies, StoreTypeOK
  <2>2. CASE Relaunch
    BY <2>2 DEF Relaunch, StoreTypeOK
  <2>3. CASE SidecarBoots
    BY <2>3 DEF SidecarBoots, ReapOrphanedRuns, OpenSessions, StoreTypeOK,
                RowStatus, Terminal
  <2> QED BY <1>10, <2>1, <2>2, <2>3 DEF LaunchStep
<1>11. CASE UNCHANGED vars
  BY <1>11 DEF vars, StoreTypeOK
<1> QED
  BY <1>1, <1>2, <1>3, <1>4, <1>5, <1>6, <1>7, <1>8, <1>9, <1>10, <1>11
  DEF Next

\* It holds in every reachable state, for any set of runs and any bounds.
THEOREM TypeInvariance == Spec => []TypeInv
BY TypeInvInit, TypeInvStep, PTL DEF Spec

\* Every variable keeps its type, however many runs there are.
THEOREM TypeCorrect == Spec => []TypeOK
<1>1. TypeInv => TypeOK
  BY DEF TypeInv, ShellTypeOK, TypeOK
<1> QED BY <1>1, TypeInvariance, PTL

-----------------------------------------------------------------------------
(* One launch per run                                                      *)

\* Why a run is launched at most once: from the moment the poll thread has
\* the answer to its start until the end of time the row is not queued, and
\* a run that was fetched before is not in the batch any more when it is
\* launched.
LaunchInv ==
    /\ \A r \in Run : spawns[r] = 0 \/ spawns[r] = 1
    /\ \A r \in Run : spawns[r] = 1 => status[r] \notin {"absent", "queued"}
    /\ \A r \in batch : spawns[r] = 0 /\ status[r] # "absent"
    /\ pollPc \in {"starting", "building"} =>
         cur \notin batch /\ spawns[cur] = 0 /\ status[cur] # "absent"
    /\ pollPc = "building" => status[cur] # "queued"

\* At the start nothing is fetched and nothing was launched.
LEMMA LaunchInvInit == Init => LaunchInv
BY DEF Init, StoreInit, LaunchInv

\* Every step keeps the order of fetching, starting and launching.
LEMMA LaunchInvStep == TypeInv /\ LaunchInv /\ [Next]_vars => LaunchInv'
<1> SUFFICES ASSUME TypeInv, LaunchInv, [Next]_vars PROVE LaunchInv'
  OBVIOUS
<1> USE DEF TypeInv, StoreTypeOK, ShellTypeOK, LaunchInv
<1> USE DEF pollVars, procVars, threadVars, appVars, storeVars
\* Steps that touch neither a row, nor the poll thread, nor a launch.
<1>1. CASE UNCHANGED <<status, pollVars, spawns>>
  BY <1>1
<1>2. ASSUME NEW r \in Run, StoreStep(r) PROVE LaunchInv'
  <2>1. CASE Enqueue(r) /\ UNCHANGED <<pollVars, spawns>>
    BY <2>1 DEF Enqueue, InsertRun
  <2>2. CASE Cancel(r) /\ UNCHANGED <<pollVars, spawns>>
    BY <2>2 DEF Cancel, CancelRun, Active, Exists
  <2>3. CASE Sweep(r) /\ UNCHANGED <<pollVars, spawns>>
    BY <2>3 DEF Sweep, SweepStaleRun
  <2>4. CASE Delete(r) /\ UNCHANGED <<pollVars, spawns>>
    BY <2>4 DEF Delete, DeleteRun
  <2>5. CASE UNCHANGED <<status, pollVars, spawns>>
    BY <2>5, <1>1
  <2> QED
    BY <1>2, <2>1, <2>2, <2>3, <2>4, <2>5
       DEF StoreStep, StoreOnly, Hook, CloseSession, SessionHook, SessionEndHook
<1>3. ASSUME NEW r \in Run, HandleStep(r) PROVE LaunchInv'
  <2>1. CASE HandleStart(r)
    BY <2>1 DEF HandleStart, StartRun, Exists
  <2>2. CASE HandleFinish(r)
    BY <2>2 DEF HandleFinish, FinishRun, Exists
  <2>3. CASE HandleTimeout(r)
    BY <2>3 DEF HandleTimeout, TimeoutRun
  <2> QED BY <1>3, <2>1, <2>2, <2>3 DEF HandleStep
<1>4. ASSUME NEW r \in Run,
             \/ ProcessStep(r) \/ WatchdogStep(r)
             \/ FinishStep(r) \/ WaitFails(r)
      PROVE  LaunchInv'
  <2>1. UNCHANGED <<status, pollVars, spawns>>
    BY <1>4 DEF ProcessStep, LeaderExits, PipesClose, GroupExits, WatchdogStep,
                WatchdogFires, WatchdogReports, WatchdogEnds, KillGroups,
                FinishStep, FinishSeesExit, FinishReports, FinishEnds, WaitFails
  <2> QED BY <2>1, <1>1
<1>5. CASE RequestFails
  BY <1>5 DEF RequestFails
<1>6. CASE PollStep
  <2>1. CASE FetchPending
    BY <2>1 DEF FetchPending, Queued
  <2>2. ASSUME NEW r \in Run, DispatchRun(r) PROVE LaunchInv'
    BY <2>2 DEF DispatchRun
  <2>3. CASE StartGivenUp \/ BuildFails \/ ReportUnlaunched
    BY <2>3 DEF StartGivenUp, BuildFails, ReportUnlaunched, BackToIdle
  <2>4. CASE Spawn
    BY <2>4 DEF Spawn
  <2>5. CASE Supervise
    BY <2>5 DEF Supervise, BackToIdle
  <2> QED BY <1>6, <2>1, <2>2, <2>3, <2>4, <2>5 DEF PollStep
<1>7. CASE CloseRequested \/ CloseStep \/ CrashStep
  <2>1. CASE ShellEnds
    BY <2>1 DEF ShellEnds
  <2>2. CASE CloseRequested \/ CloseKills \/ CloseStopsSidecar \/ SidecarGone
    BY <2>2, <1>1
       DEF CloseRequested, CloseKills, KillGroups, CloseStopsSidecar, SidecarGone
  <2> QED
    BY <1>7, <2>1, <2>2
       DEF CloseStep, AppExits, CrashStep, ShellCrashes, SidecarCrashes
<1>8. CASE LaunchStep
  <2>1. CASE SidecarBoots
    BY <2>1 DEF SidecarBoots, ReapOrphanedRuns
  <2>2. CASE SidecarFollowsShell \/ Relaunch
    BY <2>2, <1>1 DEF SidecarFollowsShell, SidecarGone, Relaunch
  <2> QED BY <1>8, <2>1, <2>2 DEF LaunchStep
<1>9. CASE UNCHANGED vars
  BY <1>9, <1>1 DEF vars
<1> QED
  BY <1>2, <1>3, <1>4, <1>5, <1>6, <1>7, <1>8, <1>9 DEF Next

\* However often a run is fetched and its start is sent, failed or answered
\* late, at most one process is launched for it.
THEOREM OneLaunchPerRun == Spec => []LaunchedAtMostOnce
<1>1. Init => LaunchInv
  BY LaunchInvInit
<1>2. TypeInv /\ LaunchInv /\ [Next]_vars => LaunchInv'
  BY LaunchInvStep
<1>3. LaunchInv => LaunchedAtMostOnce
  <2>1. LaunchInv => \A r \in Run : spawns[r] \in {0, 1}
    BY DEF LaunchInv
  <2>2. \A n \in {0, 1} : n <= 1
    OBVIOUS
  <2> QED BY <2>1, <2>2 DEF LaunchedAtMostOnce
<1> QED BY <1>1, <1>2, <1>3, TypeInvariance, PTL DEF Spec

-----------------------------------------------------------------------------
(* One report per run                                                      *)

\* A run that was not launched is neither supervised nor reported; while the
\* flag is not taken nobody has reported; who took it has yet to report and
\* the other thread is not about to.  A finish thread that drains has seen its
\* leader gone.
ReportInv ==
    /\ \A r \in Run :
         /\ reports[r] \in {0, 1}
         /\ spawns[r] = 0 =>
              proc[r] = "none" /\ wdog[r] = "none" /\ fin[r] = "none"
                /\ reports[r] = 0
         /\ wdog[r] = "armed" /\ ~handled[r] => reports[r] = 0
         /\ fin[r] = "waiting" /\ ~handled[r] => reports[r] = 0
         /\ wdog[r] = "killing" => handled[r] /\ reports[r] = 0
         /\ fin[r] \in {"draining", "blind"} =>
              handled[r] /\ reports[r] = 0 /\ wdog[r] # "killing"
         /\ fin[r] = "draining" => LeaderGone(r)
    /\ pollPc = "spawned" =>
         /\ spawns[cur] = 1 /\ reports[cur] = 0
         /\ wdog[cur] = "none" /\ fin[cur] = "none"

\* At the start no run has a supervising thread.
LEMMA ReportInvInit == Init => ReportInv
BY DEF Init, ReportInv

\* Every step keeps the agreement of watchdog and finish thread.
LEMMA ReportInvStep ==
    TypeInv /\ LaunchInv /\ ReportInv /\ [Next]_vars => ReportInv'
<1> SUFFICES ASSUME TypeInv, LaunchInv, ReportInv, [Next]_vars PROVE ReportInv'
  OBVIOUS
<1> USE DEF TypeInv, ShellTypeOK, ReportInv, LeaderGone
<1> USE DEF pollVars, procVars, threadVars, appVars
\* Steps of the store and of the network do not touch the threads; the
\* answer to a start moves the poll thread between states before a launch.
<1>1. CASE /\ UNCHANGED <<procVars, threadVars>>
           /\ pollPc' = "spawned" => UNCHANGED pollVars
  BY <1>1
<1>2. ASSUME NEW r \in Run, StoreStep(r) \/ HandleStep(r) PROVE ReportInv'
  BY <1>2, <1>1
     DEF StoreStep, StoreOnly, Hook, HandleStep, HandleStart, HandleFinish,
         HandleTimeout
<1>3. CASE RequestFails
  BY <1>3, <1>1 DEF RequestFails
<1>4. ASSUME NEW r \in Run, ProcessStep(r) PROVE ReportInv'
  <2>1. CASE LeaderExits(r)
    <3>1. PICK p \in {"lingering", "detached", "gone"}, x \in ExitCode :
            /\ proc' = [proc EXCEPT ![r] = p]
            /\ exit' = [exit EXCEPT ![r] = x]
      BY <2>1 DEF LeaderExits
    <3> QED BY <2>1, <3>1 DEF LeaderExits, LeaderRuns
  <2>2. CASE PipesClose(r)
    BY <2>2 DEF PipesClose, LeaderRuns, PipesHeld
  <2>3. CASE GroupExits(r)
    BY <2>3 DEF GroupExits, Alive, LeaderRuns
  <2> QED BY <1>4, <2>1, <2>2, <2>3 DEF ProcessStep
<1>5. ASSUME NEW r \in Run, WatchdogStep(r) PROVE ReportInv'
  <2>1. CASE WatchdogFires(r)
    BY <2>1 DEF WatchdogFires
  <2>2. CASE WatchdogReports(r)
    BY <2>2 DEF WatchdogReports, KillGroups, Alive
  <2>3. CASE WatchdogEnds(r)
    BY <2>3 DEF WatchdogEnds
  <2> QED BY <1>5, <2>1, <2>2, <2>3 DEF WatchdogStep
<1>6. ASSUME NEW r \in Run, FinishStep(r) \/ WaitFails(r) PROVE ReportInv'
  <2>1. CASE FinishSeesExit(r)
    BY <2>1 DEF FinishSeesExit, LeaderRuns
  <2>2. CASE FinishReports(r)
    BY <2>2 DEF FinishReports
  <2>3. CASE FinishEnds(r)
    BY <2>3 DEF FinishEnds
  <2>4. CASE WaitFails(r)
    BY <2>4 DEF WaitFails
  <2> QED BY <1>6, <2>1, <2>2, <2>3, <2>4 DEF FinishStep
<1>7. CASE PollStep
  <2>1. CASE Spawn
    BY <2>1 DEF Spawn, LaunchInv
  <2>2. CASE Supervise
    BY <2>2 DEF Supervise, BackToIdle
  <2>3. ASSUME NEW r \in Run, DispatchRun(r) PROVE ReportInv'
    BY <2>3, <1>1 DEF DispatchRun
  <2>4. CASE FetchPending \/ StartGivenUp \/ BuildFails \/ ReportUnlaunched
    BY <2>4, <1>1
       DEF FetchPending, StartGivenUp, BuildFails, ReportUnlaunched, BackToIdle
  <2> QED BY <1>7, <2>1, <2>2, <2>3, <2>4 DEF PollStep
<1>8. CASE CloseRequested \/ CloseStep \/ CrashStep
  <2>1. CASE ShellEnds
    BY <2>1 DEF ShellEnds
  <2>2. CASE CloseRequested
    BY <2>2 DEF CloseRequested
  <2>3. CASE CloseKills
    BY <2>3 DEF CloseKills, KillGroups, Alive, LeaderRuns
  <2>4. CASE CloseStopsSidecar \/ SidecarGone
    BY <2>4 DEF CloseStopsSidecar, SidecarGone
  <2> QED
    BY <1>8, <2>1, <2>2, <2>3, <2>4
       DEF CloseStep, AppExits, CrashStep, ShellCrashes, SidecarCrashes
<1>9. CASE LaunchStep
  BY <1>9, <1>1
     DEF LaunchStep, SidecarFollowsShell, SidecarGone, Relaunch, SidecarBoots
<1>10. CASE UNCHANGED vars
  BY <1>10, <1>1 DEF vars
<1> QED
  BY <1>2, <1>3, <1>4, <1>5, <1>6, <1>7, <1>8, <1>9, <1>10 DEF Next

\* Types, launches and reports hold together in every reachable state.
LEMMA LaunchAndReportInvariance == Spec => [](TypeInv /\ LaunchInv /\ ReportInv)
BY TypeInvInit, TypeInvStep, LaunchInvInit, LaunchInvStep, ReportInvInit,
   ReportInvStep, PTL DEF Spec

\* Watchdog and finish thread never both report a run.
THEOREM OneReportPerRun == Spec => []ReportedAtMostOnce
<1>1. ReportInv => ReportedAtMostOnce
  <2>1. ReportInv => \A r \in Run : reports[r] \in {0, 1}
    BY DEF ReportInv
  <2>2. \A n \in {0, 1} : n <= 1
    OBVIOUS
  <2> QED BY <2>1, <2>2 DEF ReportedAtMostOnce
<1> QED BY <1>1, LaunchAndReportInvariance, PTL

-----------------------------------------------------------------------------
(* No supervised process escapes the registry                              *)

\* A supervised run that its close handler should find goes on.
GoesOn(r) == PipesHeld(r) \/ (LeaderRuns(r) /\ fin[r] = "waiting")

\* A thread unregisters a run only after that.
RegistryInv ==
    /\ \A r \in Run : wdog[r] = "posted" \/ fin[r] = "posted" => ~GoesOn(r)
    /\ LiveRunIsRegistered

\* At the start no process is alive.
LEMMA RegistryInvInit == Init => RegistryInv
BY DEF Init, RegistryInv, LiveRunIsRegistered, GoesOn, PipesHeld, LeaderRuns

\* Every step keeps the registry a superset of the supervised processes.
LEMMA RegistryInvStep ==
    TypeInv /\ LaunchInv /\ ReportInv /\ RegistryInv /\ [Next]_vars
        => RegistryInv'
<1> SUFFICES ASSUME TypeInv, LaunchInv, ReportInv, RegistryInv, [Next]_vars
             PROVE  RegistryInv'
  OBVIOUS
<1> USE DEF TypeInv, ShellTypeOK, RegistryInv, LiveRunIsRegistered, GoesOn,
            Alive, LeaderRuns, PipesHeld
<1> USE DEF pollVars, procVars, threadVars, appVars
\* Steps of the store, the network and the poll thread that launch nothing.
<1>1. CASE UNCHANGED <<procVars, threadVars, closePc, doomed>>
  BY <1>1
<1>2. ASSUME NEW r \in Run, StoreStep(r) \/ HandleStep(r) PROVE RegistryInv'
  BY <1>2, <1>1
     DEF StoreStep, StoreOnly, Hook, HandleStep, HandleStart, HandleFinish,
         HandleTimeout
<1>3. CASE RequestFails
  BY <1>3, <1>1 DEF RequestFails
<1>4. ASSUME NEW r \in Run, ProcessStep(r) PROVE RegistryInv'
  BY <1>4 DEF ProcessStep, LeaderExits, PipesClose, GroupExits
<1>5. ASSUME NEW r \in Run, WatchdogStep(r) PROVE RegistryInv'
  <2>1. CASE WatchdogFires(r)
    BY <2>1 DEF WatchdogFires
  <2>2. CASE WatchdogReports(r)
    BY <2>2 DEF WatchdogReports, KillGroups
  <2>3. CASE WatchdogEnds(r)
    BY <2>3 DEF WatchdogEnds
  <2> QED BY <1>5, <2>1, <2>2, <2>3 DEF WatchdogStep
<1>6. ASSUME NEW r \in Run, FinishStep(r) \/ WaitFails(r) PROVE RegistryInv'
  <2>1. CASE FinishSeesExit(r)
    BY <2>1 DEF FinishSeesExit
  <2>2. CASE FinishReports(r)
    BY <2>2 DEF FinishReports
  <2>3. CASE FinishEnds(r)
    BY <2>3 DEF FinishEnds
  <2>4. CASE WaitFails(r)
    BY <2>4 DEF WaitFails
  <2> QED BY <1>6, <2>1, <2>2, <2>3, <2>4 DEF FinishStep
<1>7. CASE PollStep
  <2>1. CASE Spawn
    BY <2>1 DEF Spawn, LaunchInv, ReportInv
  <2>2. CASE Supervise
    BY <2>2 DEF Supervise, BackToIdle
  <2>3. ASSUME NEW r \in Run, DispatchRun(r) PROVE RegistryInv'
    BY <2>3, <1>1 DEF DispatchRun
  <2>4. CASE FetchPending \/ StartGivenUp \/ BuildFails \/ ReportUnlaunched
    BY <2>4, <1>1
       DEF FetchPending, StartGivenUp, BuildFails, ReportUnlaunched
  <2> QED BY <1>7, <2>1, <2>2, <2>3, <2>4 DEF PollStep
<1>8. CASE CloseRequested \/ CloseStep \/ CrashStep
  <2>1. CASE ShellEnds
    BY <2>1 DEF ShellEnds
  <2>2. CASE CloseRequested
    BY <2>2 DEF CloseRequested
  <2>3. CASE CloseKills
    BY <2>3 DEF CloseKills, KillGroups
  <2>4. CASE CloseStopsSidecar \/ SidecarGone
    BY <2>4 DEF CloseStopsSidecar, SidecarGone
  <2> QED
    BY <1>8, <2>1, <2>2, <2>3, <2>4
       DEF CloseStep, AppExits, CrashStep, ShellCrashes, SidecarCrashes
<1>9. CASE LaunchStep
  BY <1>9, <1>1
     DEF LaunchStep, SidecarFollowsShell, SidecarGone, Relaunch, SidecarBoots
<1>10. CASE UNCHANGED vars
  BY <1>10, <1>1 DEF vars
<1> QED
  BY <1>2, <1>3, <1>4, <1>5, <1>6, <1>7, <1>8, <1>9, <1>10 DEF Next

\* A supervised run is in the registry, or in the hands of the close handler,
\* as long as its leader runs or something holds its pipes.
THEOREM LiveRunsStayRegistered == Spec => []LiveRunIsRegistered
<1>1. RegistryInv => LiveRunIsRegistered
  BY DEF RegistryInv
<1> QED
  BY <1>1, RegistryInvInit, RegistryInvStep, LaunchAndReportInvariance, PTL
  DEF Spec

-----------------------------------------------------------------------------
(* A success is a finished process                                         *)

EndedWell(r) ==
    Ended(r) /\ exit[r] = "zero" /\ reports[r] = 1

\* Before the row says so, the report on its way does.
SuccessInv ==
    \A r \in Run :
        status[r] = "succeeded" \/ FinishMsg(r, "zero") \in net => EndedWell(r)

\* A report of success names its run and is no other request.
LEMMA SuccessMessage ==
    ASSUME NEW r \in Run, NEW q \in Run, NEW x \in ExitCode
    PROVE  /\ FinishMsg(r, "zero") = FinishMsg(q, x) => r = q /\ x = "zero"
           /\ FinishMsg(r, "zero") # StartMsg(q)
           /\ FinishMsg(r, "zero") # TimeoutMsg(q)
<1>1. /\ FinishMsg(r, "zero").run = r /\ FinishMsg(q, x).run = q
      /\ FinishMsg(r, "zero").exit = "zero" /\ FinishMsg(q, x).exit = x
  BY DEF FinishMsg
<1>2. /\ FinishMsg(r, "zero").type = "finish"
      /\ StartMsg(q).type = "start" /\ TimeoutMsg(q).type = "timeout"
  BY DEF FinishMsg, StartMsg, TimeoutMsg
<1> QED BY <1>1, <1>2

\* At the start no row exists and no report is under way.
LEMMA SuccessInvInit == Init => SuccessInv
BY DEF Init, StoreInit, SuccessInv

\* Every step keeps a success backed by a process that ended well.
LEMMA SuccessInvStep ==
    TypeInv /\ LaunchInv /\ ReportInv /\ SuccessInv /\ [Next]_vars
        => SuccessInv'
<1> SUFFICES ASSUME TypeInv, LaunchInv, ReportInv, SuccessInv, [Next]_vars,
                    NEW q \in Run
             PROVE  (status[q] = "succeeded" \/ FinishMsg(q, "zero") \in net
                        => EndedWell(q))'
  BY DEF SuccessInv
<1> DEFINE Claim == (status[q] = "succeeded" \/ FinishMsg(q, "zero") \in net
                        => EndedWell(q))'
<1>0. status[q] = "succeeded" \/ FinishMsg(q, "zero") \in net => EndedWell(q)
  BY DEF SuccessInv
<1> USE DEF TypeInv, StoreTypeOK, ShellTypeOK, EndedWell, Ended
<1> USE DEF pollVars, procVars, threadVars, appVars, storeVars
\* A step after which the run claims no more than before and is as ended.
<1>1. CASE /\ status'[q] = "succeeded" => status[q] = "succeeded"
           /\ FinishMsg(q, "zero") \in net' => FinishMsg(q, "zero") \in net
           /\ EndedWell(q) => EndedWell(q)'
  BY <1>0, <1>1
<1>2. ASSUME NEW r \in Run, StoreStep(r) PROVE Claim
  <2>1. UNCHANGED <<net, procVars, threadVars>>
    BY <1>2 DEF StoreStep, StoreOnly, Hook
  <2>2. status'[q] = "succeeded" => status[q] = "succeeded"
    BY <1>2 DEF StoreStep, StoreOnly, Hook, Enqueue, InsertRun, Cancel,
                CancelRun, Sweep, SweepStaleRun, Delete, DeleteRun,
                CloseSession, SessionHook, SessionEndHook
  <2> QED BY <2>1, <2>2, <1>1
<1>3. ASSUME NEW r \in Run, HandleStep(r) PROVE Claim
  <2>1. CASE HandleStart(r)
    BY <2>1, <1>1 DEF HandleStart, StartRun
  <2>2. CASE HandleTimeout(r)
    BY <2>2, <1>1 DEF HandleTimeout, TimeoutRun
  <2>3. CASE HandleFinish(r)
    <3>1. PICK x \in ExitCode :
            /\ FinishMsg(r, x) \in net
            /\ FinishRun(r, x)
            /\ net' = net \ {FinishMsg(r, x)}
      BY <2>3 DEF HandleFinish
    <3>2. UNCHANGED <<procVars, threadVars>>
      BY <2>3 DEF HandleFinish
    <3>3. status'[q] = "succeeded" =>
            status[q] = "succeeded" \/ (q = r /\ x = "zero")
      BY <3>1 DEF FinishRun, Exists
    <3> QED BY <1>0, <3>1, <3>2, <3>3
  <2> QED BY <1>3, <2>1, <2>2, <2>3 DEF HandleStep
<1>4. CASE RequestFails
  BY <1>4, <1>1 DEF RequestFails
<1>5. ASSUME NEW r \in Run, ProcessStep(r) PROVE Claim
  BY <1>5, <1>1 DEF ProcessStep, LeaderExits, PipesClose, GroupExits,
                    LeaderRuns, PipesHeld
<1>6. ASSUME NEW r \in Run, WatchdogStep(r) PROVE Claim
  <2>1. CASE WatchdogReports(r)
    <3>1. FinishMsg(q, "zero") \in net' => FinishMsg(q, "zero") \in net
      BY <2>1, SuccessMessage DEF WatchdogReports, Post
    <3>2. reports[r] = 0 /\ (q # r => reports'[q] = reports[q])
      BY <2>1 DEF WatchdogReports, ReportInv
    <3>3. EndedWell(q) => q # r /\ EndedWell(q)'
      BY <2>1, <3>2 DEF WatchdogReports, KillGroups, Alive, LeaderRuns
    <3>4. UNCHANGED status
      BY <2>1 DEF WatchdogReports
    <3> QED BY <1>1, <3>1, <3>3, <3>4
  <2>2. CASE WatchdogFires(r) \/ WatchdogEnds(r)
    BY <2>2, <1>1 DEF WatchdogFires, WatchdogEnds
  <2> QED BY <1>6, <2>1, <2>2 DEF WatchdogStep
<1>7. ASSUME NEW r \in Run, FinishStep(r) \/ WaitFails(r) PROVE Claim
  <2>1. CASE FinishReports(r)
    <3>1. PICK x \in Reportable(r) : Post(FinishMsg(r, x))
      BY <2>1 DEF FinishReports
    <3>2. x \in ExitCode /\ (x = "zero" => Ended(r) /\ exit[r] = "zero")
      <4>1. fin[r] = "draining" => LeaderGone(r) /\ ~PipesHeld(r)
        BY <2>1 DEF FinishReports, ReportInv
      <4> QED BY <4>1 DEF Reportable, LeaderGone, PipesHeld
    <3>3. FinishMsg(q, "zero") \in net' =>
            FinishMsg(q, "zero") \in net \/ (q = r /\ x = "zero")
      BY <3>1, <3>2, SuccessMessage DEF Post
    <3>4. UNCHANGED <<procVars, storeVars>>
      BY <2>1 DEF FinishReports
    <3>5. /\ reports' = [reports EXCEPT ![r] = @ + 1]
          /\ reports[r] = 0
      BY <2>1 DEF FinishReports, ReportInv
    <3>6. reports'[r] = 1 /\ (q # r => reports'[q] = reports[q])
      BY <3>5
    <3> QED BY <1>0, <3>1, <3>2, <3>3, <3>4, <3>6
  <2>2. CASE FinishSeesExit(r) \/ FinishEnds(r)
    BY <2>2, <1>1 DEF FinishSeesExit, FinishEnds
  <2>3. CASE WaitFails(r)
    BY <2>3, <1>1 DEF WaitFails
  <2> QED BY <1>7, <2>1, <2>2, <2>3 DEF FinishStep
<1>8. CASE PollStep
  <2>1. CASE Spawn
    BY <2>1, <1>0, <1>1 DEF Spawn, LaunchInv, ReportInv
  <2>2. ASSUME NEW r \in Run, DispatchRun(r) PROVE Claim
    BY <2>2, <1>1, SuccessMessage DEF DispatchRun, Post
  <2>3. CASE ReportUnlaunched
    BY <2>3, <1>1, SuccessMessage DEF ReportUnlaunched, Post
  <2>4. CASE FetchPending \/ StartGivenUp \/ BuildFails \/ Supervise
    BY <2>4, <1>1 DEF FetchPending, StartGivenUp, BuildFails, Supervise
  <2> QED BY <1>8, <2>1, <2>2, <2>3, <2>4 DEF PollStep
<1>9. CASE CloseRequested \/ CloseStep \/ CrashStep
  <2>1. CASE CloseRequested \/ ShellEnds
    BY <2>1, <1>1 DEF CloseRequested, ShellEnds
  <2>2. CASE CloseKills
    BY <2>2, <1>1 DEF CloseKills, KillGroups, Alive, LeaderRuns
  <2>3. CASE CloseStopsSidecar \/ SidecarGone
    BY <2>3, <1>1 DEF CloseStopsSidecar, SidecarGone, SidecarDies
  <2> QED
    BY <1>9, <2>1, <2>2, <2>3
       DEF CloseStep, AppExits, CrashStep, ShellCrashes, SidecarCrashes
<1>10. CASE LaunchStep
  <2>1. CASE SidecarFollowsShell \/ Relaunch
    BY <2>1, <1>1 DEF SidecarFollowsShell, SidecarGone, SidecarDies, Relaunch
  <2>2. CASE SidecarBoots
    BY <2>2, <1>1 DEF SidecarBoots, ReapOrphanedRuns
  <2> QED BY <1>10, <2>1, <2>2 DEF LaunchStep
<1>11. CASE UNCHANGED vars
  BY <1>11, <1>1 DEF vars
<1> QED
  BY <1>2, <1>3, <1>4, <1>5, <1>6, <1>7, <1>8, <1>9, <1>10, <1>11 DEF Next

\* A row says succeeded only of a run whose leader exited with zero and of
\* whose pipes no writer is left.
THEOREM SuccessIsReal == Spec => []SucceededMeansExited
<1>1. SuccessInv => SucceededMeansExited
  BY DEF SuccessInv, EndedWell, SucceededMeansExited
<1> QED
  BY <1>1, SuccessInvInit, SuccessInvStep, LaunchAndReportInvariance, PTL
  DEF Spec

-----------------------------------------------------------------------------
(* The dispatcher implements the lifecycle                                 *)

\* A run that was launched has had a process ever since.
ProcInv == \A r \in Run : proc[r] = "none" => spawns[r] = 0

\* At the start nothing was launched, and only a launch counts.
LEMMA ProcInvariance == Spec => []ProcInv
<1>1. Init => ProcInv
  BY DEF Init, ProcInv
<1>2. TypeInv /\ ProcInv /\ [Next]_vars => ProcInv'
  <2> SUFFICES ASSUME TypeInv, ProcInv, [Next]_vars PROVE ProcInv'
    OBVIOUS
  <2> USE DEF TypeInv, ShellTypeOK, ProcInv, procVars
  <2>1. CASE UNCHANGED procVars
    BY <2>1
  <2>2. CASE Spawn
    BY <2>2 DEF Spawn
  <2>3. ASSUME NEW r \in Run, ProcessStep(r) PROVE ProcInv'
    BY <2>3 DEF ProcessStep, LeaderExits, PipesClose, GroupExits
  <2>4. ASSUME NEW S, KillGroups(S) PROVE ProcInv'
    BY <2>4 DEF KillGroups
  <2>5. \/ UNCHANGED procVars \/ Spawn \/ \E r \in Run : ProcessStep(r)
        \/ \E S : KillGroups(S)
    BY DEF Next, vars, StoreStep, StoreOnly, Hook, HandleStep, HandleStart,
           HandleFinish, HandleTimeout, RequestFails, PollStep, FetchPending,
           DispatchRun, StartGivenUp, BuildFails, ReportUnlaunched, Supervise,
           WatchdogStep, WatchdogFires, WatchdogReports, WatchdogEnds,
           FinishStep, FinishSeesExit, FinishReports, FinishEnds, WaitFails,
           CloseRequested, CloseStep, CloseKills, CloseStopsSidecar, AppExits,
           CrashStep, ShellCrashes, ShellEnds, SidecarCrashes, LaunchStep,
           SidecarFollowsShell, SidecarGone, Relaunch, SidecarBoots
  <2> QED BY <2>1, <2>2, <2>3, <2>4, <2>5
<1> QED BY <1>1, <1>2, TypeInvariance, PTL DEF Spec

\* What the refinement rests on.
LifecycleInv == TypeInv /\ LaunchInv /\ ReportInv /\ SuccessInv /\ ProcInv

\* What the refinement mapping says of a run.
LEMMA MappedRun ==
    ASSUME TypeInv, NEW q \in Run
    PROVE  /\ RowOf(q) = "none" <=> status[q] = "absent"
           /\ RowOf(q) = "queued" <=> status[q] = "queued"
           /\ RowOf(q) = "deleted" <=> status[q] = "deleted"
           /\ JobOf(q) = "none" <=> proc[q] = "none"
           /\ JobOf(q) = "live" <=> proc[q] # "none" /\ ~Ended(q)
           /\ Ended(q) => JobOf(q) = exit[q] /\ exit[q] \in ExitCode
BY DEF TypeInv, StoreTypeOK, ShellTypeOK, RowStatus, Active, Terminal, Inert,
       RowOf, JobOf, Ended, LeaderGone

\* A step that leaves the run's row, process and reports as they are.
LEMMA RunRests ==
    ASSUME NEW q \in Run,
           status'[q] = status[q], proc'[q] = proc[q], exit'[q] = exit[q],
           reports'[q] = reports[q]
    PROVE  Lifecycle!Rests(q)
BY DEF Lifecycle!Rests, Lifecycle!RowOnly, RowOf, JobOf, Ended

\* A step that writes the run's row only, in a way the lifecycle allows.
LEMMA RowMoves ==
    ASSUME TypeInv, LaunchInv, ReportInv, SuccessInv, TypeInv', SuccessInv',
           NEW q \in Run,
           proc'[q] = proc[q], exit'[q] = exit[q], reports'[q] = reports[q],
           \/ status[q] = "absent" /\ status'[q] = "queued"
           \/ status[q] = "queued" /\ status'[q] = "running"
           \/ Exists(q) /\ status'[q] \in Terminal \cup {"deleted"}
           \/ status'[q] = status[q]
    PROVE  Lifecycle!RunStep(q) \/ Lifecycle!Rests(q)
<1>1. Lifecycle!RowOnly(q)
  BY DEF Lifecycle!RowOnly, JobOf, Ended
<1> USE DEF Lifecycle!RunStep
<1>2. CASE status[q] = "absent" /\ status'[q] = "queued"
  BY <1>1, <1>2 DEF Lifecycle!Enqueue, RowOf
<1>3. CASE status[q] = "queued" /\ status'[q] = "running"
  <2>1. proc[q] = "none"
    BY <1>3 DEF LaunchInv, ReportInv
  <2> QED BY <1>1, <1>3, <2>1 DEF Lifecycle!Claim, RowOf, JobOf, Ended
<1>4. CASE Exists(q) /\ status'[q] \in Terminal \cup {"deleted"}
  <2>1. Lifecycle!Present(q)
    BY <1>4, MappedRun DEF Exists, Lifecycle!Present
  <2>2. CASE status'[q] = "deleted"
    BY <1>1, <2>1, <2>2 DEF Lifecycle!Delete, RowOf
  <2>3. CASE status'[q] = "succeeded"
    <3>1. Ended(q) /\ exit[q] = "zero" /\ reports[q] = 1
      <4>1. EndedWell(q)'
        BY <2>3 DEF SuccessInv
      <4> QED BY <4>1 DEF EndedWell, Ended
    <3>2. reports[q] # 0
      BY <3>1
    <3>3. JobOf(q) = "zero" /\ RowOf(q)' = "succeeded"
      BY <2>3, <3>1 DEF JobOf, RowOf, Ended
    <3> QED BY <1>1, <2>1, <3>2, <3>3 DEF Lifecycle!Succeed
  <2>4. CASE status'[q] \in {"failed", "timed_out", "cancelled"}
    BY <1>1, <2>1, <2>4 DEF Lifecycle!End, RowOf
  <2> QED BY <1>4, <2>2, <2>3, <2>4 DEF Terminal
<1>5. CASE status'[q] = status[q]
  BY <1>5, RunRests
<1> QED BY <1>2, <1>3, <1>4, <1>5

\* A step of the run's process and reports only, its row having left the
\* queue: it is launched, it comes nearer its end, or it is reported.
LEMMA JobMoves ==
    ASSUME TypeInv, TypeInv', ReportInv, NEW q \in Run,
           status'[q] = status[q],
           \/ /\ proc[q] = "none" /\ proc'[q] = "running"
              /\ status[q] \notin {"absent", "queued"}
              /\ reports'[q] = reports[q]
           \/ /\ proc[q] # "none" /\ proc'[q] # "none"
              /\ Ended(q) => Ended(q)' /\ exit'[q] = exit[q]
              /\ \/ reports'[q] = reports[q]
                 \/ reports[q] = 0 /\ reports'[q] = 1
    PROVE  Lifecycle!RunStep(q) \/ Lifecycle!Rests(q)
<1>1. RowOf(q)' = RowOf(q)
  BY DEF RowOf
<1>2. Run' = Run
  OBVIOUS
<1> USE DEF Lifecycle!RunStep
<1>3. CASE /\ proc[q] = "none" /\ proc'[q] = "running"
           /\ status[q] \notin {"absent", "queued"}
           /\ reports'[q] = reports[q]
  <2>1. JobOf(q) = "none" /\ JobOf(q)' = "live"
    BY <1>3 DEF JobOf, Ended
  <2>2. RowOf(q) \notin {"none", "queued"}
    BY <1>3, MappedRun
  <2> QED BY <1>1, <1>3, <2>1, <2>2 DEF Lifecycle!Launch
<1>4. CASE /\ proc[q] # "none" /\ proc'[q] # "none"
           /\ Ended(q) => Ended(q)' /\ exit'[q] = exit[q]
           /\ \/ reports'[q] = reports[q]
              \/ reports[q] = 0 /\ reports'[q] = 1
  <2>1. JobOf(q) # "none"
    BY <1>4, MappedRun
  <2>2. \/ JobOf(q)' = JobOf(q)
        \/ JobOf(q) = "live" /\ JobOf(q)' \in {"zero", "nonzero"}
    <3>1. CASE Ended(q)
      BY <1>4, <3>1 DEF JobOf, Ended
    <3>2. CASE ~Ended(q) /\ Ended(q)'
      BY <1>4, <3>2, MappedRun DEF JobOf, Ended, TypeInv, ShellTypeOK, LeaderGone
    <3>3. CASE ~Ended(q) /\ ~Ended(q)'
      BY <1>4, <3>3 DEF JobOf, Ended
    <3> QED BY <3>1, <3>2, <3>3
  <2>3. CASE reports'[q] = reports[q]
    BY <1>1, <2>2, <2>3
       DEF Lifecycle!JobEnds, Lifecycle!Over, Lifecycle!Rests, Lifecycle!RowOnly
  <2>4. CASE reports[q] = 0 /\ reports'[q] = 1
    <3>1. reports[q] = 0 /\ reports'[q] # 0
      BY <2>4
    <3> QED BY <1>1, <2>1, <2>2, <3>1 DEF Lifecycle!Report, Lifecycle!Over
  <2> QED BY <1>4, <2>3, <2>4
<1> QED BY <1>3, <1>4

\* Every step of the dispatcher is one of the lifecycle for each run.
LEMMA LifecycleStep == LifecycleInv /\ LifecycleInv' /\ [Next]_vars
                          => [Lifecycle!Next]_(Lifecycle!vars)
<1> SUFFICES ASSUME LifecycleInv, LifecycleInv', [Next]_vars, NEW q \in Run
             PROVE  Lifecycle!RunStep(q) \/ Lifecycle!Rests(q)
  BY DEF Lifecycle!Next
<1> DEFINE Moves == Lifecycle!RunStep(q) \/ Lifecycle!Rests(q)
<1> USE DEF LifecycleInv
<1> USE DEF pollVars, procVars, threadVars, appVars, storeVars
\* Steps that touch neither a row, nor a process, nor a report.
<1>1. CASE UNCHANGED <<status, proc, exit, reports>>
  BY <1>1, RunRests
<1>2. ASSUME NEW r \in Run, StoreStep(r) PROVE Moves
  <2>1. UNCHANGED <<proc, exit, reports>>
    BY <1>2 DEF StoreStep, StoreOnly, Hook
  <2>2. \/ status[q] = "absent" /\ status'[q] = "queued"
        \/ Exists(q) /\ status'[q] \in Terminal \cup {"deleted"}
        \/ status'[q] = status[q]
    BY <1>2 DEF StoreStep, StoreOnly, Hook, Enqueue, InsertRun, Cancel,
                CancelRun, Sweep, SweepStaleRun, Delete, DeleteRun,
                CloseSession, SessionHook, SessionEndHook, Exists, Terminal,
                TypeInv, StoreTypeOK
  <2> QED BY <2>1, <2>2, RowMoves
<1>3. ASSUME NEW r \in Run, HandleStep(r) PROVE Moves
  <2>1. UNCHANGED <<proc, exit, reports>>
    BY <1>3 DEF HandleStep, HandleStart, HandleFinish, HandleTimeout
  <2>2. \/ status[q] = "queued" /\ status'[q] = "running"
        \/ Exists(q) /\ status'[q] \in Terminal \cup {"deleted"}
        \/ status'[q] = status[q]
    BY <1>3 DEF HandleStep, HandleStart, HandleFinish, HandleTimeout, StartRun,
                FinishRun, TimeoutRun, Exists, Terminal, TypeInv, StoreTypeOK
  <2> QED BY <2>1, <2>2, RowMoves
<1>4. CASE RequestFails
  BY <1>1, <1>4 DEF RequestFails
<1>5. ASSUME NEW r \in Run, ProcessStep(r) PROVE Moves
  <2>1. CASE q = r
    BY <1>5, <2>1, JobMoves
       DEF ProcessStep, LeaderExits, PipesClose, GroupExits, Alive, LeaderRuns,
           PipesHeld, Ended, TypeInv, ShellTypeOK
  <2>2. CASE q # r
    BY <1>5, <2>2, RunRests
       DEF ProcessStep, LeaderExits, PipesClose, GroupExits, TypeInv, ShellTypeOK
  <2> QED BY <2>1, <2>2
<1>6. ASSUME NEW r \in Run, WatchdogStep(r) PROVE Moves
  <2>1. CASE WatchdogReports(r)
    <3>1. proc[r] # "none" /\ reports[r] = 0
      BY <2>1 DEF WatchdogReports, ReportInv, ProcInv
    <3>2. /\ status' = status
          /\ reports' = [reports EXCEPT ![r] = @ + 1]
          /\ proc' = [p \in Run |-> IF p = r /\ Alive(p) THEN "gone" ELSE proc[p]]
          /\ exit' = [p \in Run |-> IF p = r /\ LeaderRuns(p)
                                    THEN "nonzero" ELSE exit[p]]
      BY <2>1, Zenon DEF WatchdogReports, KillGroups
    <3>3. CASE q = r
      <4>1. /\ proc'[q] = "gone" /\ proc[q] # "none"
            /\ Ended(q) => exit'[q] = exit[q]
            /\ reports[q] = 0 /\ reports'[q] = 1
        BY <3>1, <3>2, <3>3 DEF Alive, LeaderRuns, Ended, TypeInv, ShellTypeOK
      <4> QED BY <3>2, <4>1, JobMoves DEF Ended
    <3>4. CASE q # r
      BY <3>2, <3>4, RunRests DEF TypeInv, ShellTypeOK
    <3> QED BY <3>3, <3>4
  <2>2. CASE WatchdogFires(r) \/ WatchdogEnds(r)
    BY <1>1, <2>2 DEF WatchdogFires, WatchdogEnds
  <2> QED BY <1>6, <2>1, <2>2 DEF WatchdogStep
<1>7. ASSUME NEW r \in Run, FinishStep(r) \/ WaitFails(r) PROVE Moves
  <2>1. CASE FinishReports(r)
    <3>1. /\ reports[r] = 0 /\ proc[r] # "none"
          /\ UNCHANGED <<status, proc, exit>>
          /\ reports' = [reports EXCEPT ![r] = @ + 1]
      BY <2>1 DEF FinishReports, ReportInv, ProcInv
    <3>2. CASE q = r
      <4>1. reports[q] = 0 /\ reports'[q] = 1
        BY <3>1, <3>2 DEF TypeInv, ShellTypeOK
      <4> QED BY <3>1, <3>2, <4>1, JobMoves DEF Ended
    <3>3. CASE q # r
      BY <3>1, <3>3, RunRests DEF TypeInv, ShellTypeOK
    <3> QED BY <3>2, <3>3
  <2>2. CASE FinishSeesExit(r) \/ FinishEnds(r)
    BY <1>1, <2>2 DEF FinishSeesExit, FinishEnds
  <2>3. CASE WaitFails(r)
    BY <1>1, <2>3 DEF WaitFails
  <2> QED BY <1>7, <2>1, <2>2, <2>3 DEF FinishStep
<1>8. CASE PollStep
  <2>1. CASE Spawn
    <3>1. /\ cur \in Run /\ UNCHANGED <<status, exit, reports>>
          /\ proc' = [proc EXCEPT ![cur] = "running"]
          /\ proc[cur] = "none" /\ status[cur] \notin {"absent", "queued"}
      BY <2>1 DEF Spawn, TypeInv, ShellTypeOK, LaunchInv, ReportInv
    <3>2. CASE q = cur
      BY <3>1, <3>2, JobMoves DEF TypeInv, ShellTypeOK
    <3>3. CASE q # cur
      BY <3>1, <3>3, RunRests DEF TypeInv, ShellTypeOK
    <3> QED BY <3>2, <3>3
  <2>2. CASE ~Spawn
    BY <1>1, <1>8, <2>2
       DEF PollStep, FetchPending, DispatchRun, StartGivenUp, BuildFails,
           ReportUnlaunched, Supervise
  <2> QED BY <2>1, <2>2
<1>9. CASE CloseRequested \/ CloseStep \/ CrashStep
  <2>1. CASE CloseKills
    <3>1. /\ status' = status /\ reports' = reports
          /\ proc' = [p \in Run |-> IF p \in doomed /\ Alive(p) THEN "gone"
                                    ELSE proc[p]]
          /\ exit' = [p \in Run |-> IF p \in doomed /\ LeaderRuns(p)
                                    THEN "nonzero" ELSE exit[p]]
      BY <2>1, Zenon DEF CloseKills, KillGroups
    <3>2. CASE q \in doomed /\ Alive(q)
      BY <3>1, <3>2, JobMoves DEF Alive, LeaderRuns, Ended
    <3>3. CASE ~(q \in doomed /\ Alive(q))
      BY <3>1, <3>3, RunRests DEF Alive, LeaderRuns
    <3> QED BY <3>2, <3>3
  <2>2. CASE CloseRequested \/ CloseStopsSidecar \/ SidecarGone \/ ShellEnds
    BY <1>1, <2>2
       DEF CloseRequested, CloseStopsSidecar, SidecarGone, ShellEnds
  <2> QED
    BY <1>9, <2>1, <2>2
       DEF CloseStep, AppExits, CrashStep, ShellCrashes, SidecarCrashes
<1>10. CASE LaunchStep
  <2>1. CASE SidecarFollowsShell \/ Relaunch
    BY <1>1, <2>1 DEF SidecarFollowsShell, SidecarGone, Relaunch
  <2>2. CASE SidecarBoots
    <3>1. UNCHANGED <<proc, exit, reports>>
      BY <2>2 DEF SidecarBoots
    <3>2. \/ Exists(q) /\ status'[q] \in Terminal \cup {"deleted"}
          \/ status'[q] = status[q]
      BY <2>2 DEF SidecarBoots, ReapOrphanedRuns, Exists, Terminal, Active
    <3> QED BY <3>1, <3>2, RowMoves
  <2> QED BY <1>10, <2>1, <2>2 DEF LaunchStep
<1>11. CASE UNCHANGED vars
  BY <1>1, <1>11 DEF vars
<1> QED
  BY <1>2, <1>3, <1>4, <1>5, <1>6, <1>7, <1>8, <1>9, <1>10, <1>11 DEF Next

\* Every run goes through the abstract lifecycle, whatever the threads, the
\* requests, the crashes and the launches of the app do in between.
THEOREM RefinesLifecycle == Spec => RunsFollowLifecycle
<1>1. Init => Lifecycle!Init
  <2> SUFFICES ASSUME Init PROVE Lifecycle!Init
    OBVIOUS
  <2>1. \A r \in Run : RowOf(r) = "none" /\ JobOf(r) = "none"
    BY DEF Init, StoreInit, RowOf, JobOf, Ended
  <2>2. \A r \in Run : reports[r] = 0
    BY DEF Init
  <2> QED BY <2>1, <2>2, Zenon DEF Lifecycle!Init
<1>2. Spec => []LifecycleInv
  BY LaunchAndReportInvariance, SuccessInvInit, SuccessInvStep, ProcInvariance,
     PTL DEF Spec, LifecycleInv
<1>3. LifecycleInv /\ LifecycleInv' /\ [Next]_vars
        => [Lifecycle!Next]_(Lifecycle!vars)
  BY LifecycleStep
<1> QED
  BY <1>1, <1>2, <1>3, PTL DEF Spec, RunsFollowLifecycle, Lifecycle!Spec
=============================================================================
