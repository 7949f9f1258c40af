----------------------------- MODULE RunDispatch -----------------------------
(***************************************************************************)
(* How a queued scheduled run is launched, supervised and reported: the    *)
(* Rust shell (src-tauri/src/scheduler/mod.rs and the close handler of     *)
(* src-tauri/src/lib.rs) against the sidecar's store of runs.              *)
(*                                                                         *)
(* In the shell one poll thread fetches the queued rows and dispatches     *)
(* them one after the other; each launched run has a watchdog thread and a *)
(* finish thread that agree through the flag "handled" on which of them    *)
(* reports; the window's close handler drains the registry of process      *)
(* groups and stops the sidecar.  Shell and sidecar talk over local HTTP:  *)
(* a request may fail, and a client that gave up on a request does not     *)
(* take it back, so it may still be handled later.  Shell and sidecar may  *)
(* crash; the app may be launched again.                                   *)
(***************************************************************************)
EXTENDS ScheduleRuns, Naturals, FiniteSets

CONSTANTS
    None,             \* the poll thread works on no run
    PendingLimit,     \* rows that one poll returns at most (10 in the code)
    MaxLaunches       \* bound: number of times the app is launched

ASSUME DispatchAssumption ==
    /\ None \notin Run
    /\ PendingLimit \in Nat \ {0}
    /\ MaxLaunches \in Nat \ {0}

VARIABLES
    \* the two programs
    shell,            \* "up" or "gone"
    closePc,          \* progress of the CloseRequested handler
    sidecar,          \* "starting", "up" or "down"
    net,              \* requests sent to the sidecar and not handled yet
    \* the poll thread (locals of run_loop and dispatch_run)
    pollPc,           \* "idle", "starting", "building" or "spawned"
    batch,            \* fetched runs it has not come to yet
    cur,              \* the run it is dispatching
    \* per run: process group, registry, supervising threads
    proc,             \* ProcState
    exit,             \* exit code of the group's leader
    registry,         \* keys of RunRegistry
    handled,          \* the AtomicBool both threads swap
    wdog,             \* watchdog thread
    fin,              \* finish thread
    doomed,           \* groups the close handler is stopping
    \* history
    spawns,           \* number of processes launched for a run
    reports,          \* number of times a supervising thread reported
    launches          \* number of times the app was launched

pollVars   == <<pollPc, batch, cur>>
procVars   == <<proc, exit, spawns>>
threadVars == <<registry, handled, wdog, fin, reports>>
appVars    == <<shell, closePc, doomed, launches>>
vars == <<storeVars, sidecar, net, pollVars, procVars, threadVars, appVars>>

StartMsg(r)      == [type |-> "start", run |-> r]
TimeoutMsg(r)    == [type |-> "timeout", run |-> r]
FinishMsg(r, x)  == [type |-> "finish", run |-> r, exit |-> x]

ExitCode == {"zero", "nonzero"}

\* A launched process group: what is left of it, and of the writers of the
\* pipes to the shell's readers.
ProcState == {
    "none",        \* not launched
    "running",     \* the leader runs and its pipes are open
    "mute",        \* the leader runs, no writer of the pipes is left
    "lingering",   \* the leader has exited, what it forked holds the pipes
    "detached",    \* the leader has exited, no writer of the pipes is left,
                   \* something of the group with other outputs lives on
    "gone" }       \* nothing of the group is left

\* "draining" knows the exit code, "blind" could not wait for the leader.
FinState == {"none", "waiting", "draining", "blind", "posted", "done"}

Message == [type : {"start", "timeout"}, run : Run]
             \cup [type : {"finish"}, run : Run, exit : ExitCode]

TypeOK ==
    /\ StoreTypeOK
    /\ shell \in {"up", "gone"}
    /\ closePc \in {"open", "terminating", "killed", "stopped"}
    /\ sidecar \in {"starting", "up", "down"}
    /\ net \subseteq Message
    /\ pollPc \in {"idle", "starting", "building", "spawned"}
    /\ batch \subseteq Run
    /\ cur \in Run \cup {None}
    /\ proc \in [Run -> ProcState]
    /\ exit \in [Run -> ExitCode \cup {"none"}]
    /\ registry \subseteq Run
    /\ handled \in [Run -> BOOLEAN]
    /\ wdog \in [Run -> {"none", "armed", "killing", "posted", "done"}]
    /\ fin \in [Run -> FinState]
    /\ doomed \subseteq Run
    /\ spawns \in [Run -> Nat]
    /\ reports \in [Run -> Nat]
    /\ launches \in 1..MaxLaunches

Init ==
    /\ StoreInit
    /\ shell = "up" /\ closePc = "open" /\ sidecar = "starting" /\ net = {}
    /\ pollPc = "idle" /\ batch = {} /\ cur = None
    /\ proc = [r \in Run |-> "none"] /\ exit = [r \in Run |-> "none"]
    /\ registry = {} /\ doomed = {}
    /\ handled = [r \in Run |-> FALSE]
    /\ wdog = [r \in Run |-> "none"] /\ fin = [r \in Run |-> "none"]
    /\ spawns = [r \in Run |-> 0] /\ reports = [r \in Run |-> 0]
    /\ launches = 1

LeaderRuns(r) == proc[r] \in {"running", "mute"}
PipesHeld(r)  == proc[r] \in {"running", "lingering"}
Alive(r)      == proc[r] \in {"running", "mute", "lingering", "detached"}

\* The leader has exited and the readers of its pipes have met the end.
Ended(r) == proc[r] \in {"detached", "gone"}

\* A POST reaches the sidecar only while it listens; otherwise the connection
\* is refused and the caller has its error at once.
Post(m) == net' = IF sidecar = "up" THEN net \cup {m} ELSE net

-----------------------------------------------------------------------------
(* The sidecar's handlers                                                  *)

Serving == sidecar = "up"

\* A row appears, is cancelled by the user, is swept, or is deleted.
Enqueue(r) == Serving /\ InsertRun(r, "queued")
Cancel(r)  == Serving /\ CancelRun(r)
Sweep(r)   == Serving /\ SweepStaleRun(r)
Delete(r)  == Serving /\ DeleteRun(r)

StoreOnly(r) ==
    /\ \/ Enqueue(r)
       \/ Cancel(r)
       \/ Sweep(r)
       \/ Delete(r)
       \/ Serving /\ CloseSession(r)
    /\ UNCHANGED <<sidecar, net, pollVars, procVars, threadVars, appVars>>

\* Hooks are posted by the run's own CLI.
Hook(r) ==
    /\ Serving /\ Alive(r)
    /\ SessionHook(r) \/ SessionEndHook(r)
    /\ UNCHANGED <<sidecar, net, pollVars, procVars, threadVars, appVars>>

\* POST start.  If the poll thread still waits for this answer it goes on to
\* build the command, or gives the run up when the row is gone (404).
HandleStart(r) ==
    /\ Serving /\ StartMsg(r) \in net
    /\ StartRun(r)
    /\ net' = net \ {StartMsg(r)}
    /\ IF pollPc = "starting" /\ cur = r
         THEN /\ pollPc' = IF Exists(r) THEN "building" ELSE "idle"
              /\ cur' = IF Exists(r) THEN r ELSE None
              /\ UNCHANGED batch
         ELSE UNCHANGED pollVars
    /\ UNCHANGED <<sidecar, procVars, threadVars, appVars>>

HandleFinish(r) ==
    /\ Serving
    /\ \E x \in ExitCode :
         /\ FinishMsg(r, x) \in net
         /\ FinishRun(r, x)
         /\ net' = net \ {FinishMsg(r, x)}
    /\ UNCHANGED <<sidecar, pollVars, procVars, threadVars, appVars>>

HandleTimeout(r) ==
    /\ Serving /\ TimeoutMsg(r) \in net
    /\ TimeoutRun(r)
    /\ net' = net \ {TimeoutMsg(r)}
    /\ UNCHANGED <<sidecar, pollVars, procVars, threadVars, appVars>>

\* A handler fails (database locked, 500): nothing is changed.
RequestFails ==
    /\ Serving
    /\ \E m \in net :
         /\ net' = net \ {m}
         /\ IF m.type = "start" /\ pollPc = "starting" /\ cur = m.run
              THEN pollPc' = "idle" /\ cur' = None /\ UNCHANGED batch
              ELSE UNCHANGED pollVars
    /\ UNCHANGED <<storeVars, sidecar, procVars, threadVars, appVars>>

-----------------------------------------------------------------------------
(* The shell's poll thread                                                 *)

Queued == {r \in Run : status[r] = "queued"}

\* fetch_pending / claim_pending_dispatches: the oldest queued rows.  They
\* stay queued, and the list is not looked at again until it is used up.
FetchPending ==
    /\ pollPc = "idle" /\ batch = {} /\ shell = "up" /\ Serving
    /\ \E S \in SUBSET Queued :
         /\ S # {}
         /\ \/ S = Queued /\ Cardinality(S) <= PendingLimit
            \/ Cardinality(S) = PendingLimit
         /\ batch' = S
    /\ UNCHANGED <<storeVars, sidecar, net, pollPc, cur, procVars, threadVars,
                   appVars>>

\* dispatch_run begins.  A run without a provider is reported failed and not
\* launched; every other run is announced with POST start.
DispatchRun(r) ==
    /\ shell = "up" /\ pollPc = "idle" /\ r \in batch
    /\ batch' = batch \ {r}
    /\ \/ Post(FinishMsg(r, "nonzero")) /\ UNCHANGED <<pollPc, cur>>
       \/ Post(StartMsg(r)) /\ pollPc' = "starting" /\ cur' = r
    /\ UNCHANGED <<storeVars, sidecar, procVars, threadVars, appVars>>

BackToIdle == pollPc' = "idle" /\ cur' = None /\ UNCHANGED batch

\* POST start errs or times out: dispatch_run returns, the request may still
\* be on its way.
StartGivenUp ==
    /\ shell = "up" /\ pollPc = "starting"
    /\ BackToIdle
    /\ UNCHANGED <<storeVars, sidecar, net, procVars, threadVars, appVars>>

\* The command cannot be built (an empty prompt) or the transcript cannot be
\* opened: dispatch_run returns its error and reports nothing.
BuildFails ==
    /\ shell = "up" /\ pollPc = "building"
    /\ BackToIdle
    /\ UNCHANGED <<storeVars, sidecar, net, procVars, threadVars, appVars>>

\* The credential preflight says NotLoggedIn, or spawning fails.
ReportUnlaunched ==
    /\ shell = "up" /\ pollPc = "building"
    /\ Post(FinishMsg(cur, "nonzero"))
    /\ BackToIdle
    /\ UNCHANGED <<storeVars, sidecar, procVars, threadVars, appVars>>

Spawn ==
    /\ shell = "up" /\ pollPc = "building"
    /\ pollPc' = "spawned"
    /\ proc' = [proc EXCEPT ![cur] = "running"]
    /\ spawns' = [spawns EXCEPT ![cur] = @ + 1]
    /\ UNCHANGED <<storeVars, sidecar, net, batch, cur, exit, threadVars,
                   appVars>>

\* The pid is registered and the supervising threads are started.
Supervise ==
    /\ shell = "up" /\ pollPc = "spawned"
    /\ registry' = registry \cup {cur}
    /\ handled' = [handled EXCEPT ![cur] = FALSE]
    /\ wdog' = [wdog EXCEPT ![cur] = "armed"]
    /\ fin' = [fin EXCEPT ![cur] = "waiting"]
    /\ BackToIdle
    /\ UNCHANGED <<storeVars, sidecar, net, procVars, reports, appVars>>

-----------------------------------------------------------------------------
(* Processes                                                               *)

\* The leader of the group exits.  What it forked may live on, with the pipes
\* open ("lingering") or with its outputs redirected ("detached").
LeaderExits(r) ==
    /\ LeaderRuns(r)
    /\ \E p \in {"lingering", "detached", "gone"}, x \in ExitCode :
         /\ p = "lingering" => PipesHeld(r)
         /\ proc' = [proc EXCEPT ![r] = p]
         /\ exit' = [exit EXCEPT ![r] = x]
    /\ UNCHANGED <<storeVars, sidecar, net, pollVars, spawns, threadVars,
                   appVars>>

\* The last writer of the pipes closes them and the group lives on.
PipesClose(r) ==
    /\ PipesHeld(r)
    /\ proc' = [proc EXCEPT ![r] = IF LeaderRuns(r) THEN "mute" ELSE "detached"]
    /\ UNCHANGED <<storeVars, sidecar, net, pollVars, exit, spawns, threadVars,
                   appVars>>

GroupExits(r) ==
    /\ Alive(r) /\ ~LeaderRuns(r)
    /\ proc' = [proc EXCEPT ![r] = "gone"]
    /\ UNCHANGED <<storeVars, sidecar, net, pollVars, exit, spawns, threadVars,
                   appVars>>

\* SIGKILL to the process groups of the runs in S.
KillGroups(S) ==
    /\ proc' = [r \in Run |-> IF r \in S /\ Alive(r) THEN "gone" ELSE proc[r]]
    /\ exit' = [r \in Run |->
                  IF r \in S /\ LeaderRuns(r) THEN "nonzero" ELSE exit[r]]
    /\ UNCHANGED spawns

-----------------------------------------------------------------------------
(* The supervising threads of a launched run                               *)

\* Mutant: the watchdog sets the flag without looking at it.
WatchdogFiresAnyway(r) ==
    /\ shell = "up" /\ wdog[r] = "armed"
    /\ handled' = [handled EXCEPT ![r] = TRUE]
    /\ wdog' = [wdog EXCEPT ![r] = "killing"]
    /\ UNCHANGED <<storeVars, sidecar, net, pollVars, procVars, registry, fin,
                   reports, appVars>>

\* Mutant: having taken the flag the watchdog returns.
WatchdogTakesFlagOnly(r) ==
    /\ shell = "up" /\ wdog[r] = "armed"
    /\ handled' = [handled EXCEPT ![r] = TRUE]
    /\ wdog' = [wdog EXCEPT ![r] = "done"]
    /\ UNCHANGED <<storeVars, sidecar, net, pollVars, procVars, registry, fin,
                   reports, appVars>>

\* max_runtime_sec is over: the watchdog takes the flag or finds it taken.
WatchdogFires(r) ==
    /\ shell = "up" /\ wdog[r] = "armed"
    /\ handled' = [handled EXCEPT ![r] = TRUE]
    /\ wdog' = [wdog EXCEPT ![r] = IF handled[r] THEN "done" ELSE "killing"]
    /\ UNCHANGED <<storeVars, sidecar, net, pollVars, procVars, registry, fin,
                   reports, appVars>>

WatchdogReports(r) ==
    /\ shell = "up" /\ wdog[r] = "killing"
    /\ KillGroups({r})
    /\ Post(TimeoutMsg(r))
    /\ wdog' = [wdog EXCEPT ![r] = "posted"]
    /\ reports' = [reports EXCEPT ![r] = @ + 1]
    /\ UNCHANGED <<storeVars, sidecar, pollVars, registry, handled, fin,
                   appVars>>

\* The result of the POST is not looked at.
WatchdogEnds(r) ==
    /\ shell = "up" /\ wdog[r] = "posted"
    /\ registry' = registry \ {r}
    /\ wdog' = [wdog EXCEPT ![r] = "done"]
    /\ UNCHANGED <<storeVars, sidecar, net, pollVars, procVars, handled, fin,
                   reports, appVars>>

\* try_wait has seen the leader's exit: the finish thread takes the flag or
\* leaves the report to the watchdog.
FinishSeesExit(r) ==
    /\ shell = "up" /\ fin[r] = "waiting" /\ ~LeaderRuns(r)
    /\ handled' = [handled EXCEPT ![r] = TRUE]
    /\ fin' = [fin EXCEPT ![r] = IF handled[r] THEN "done" ELSE "draining"]
    /\ UNCHANGED <<storeVars, sidecar, net, pollVars, procVars, registry, wdog,
                   reports, appVars>>

\* try_wait fails, whatever the leader does: the exit code is taken for -1.
WaitFails(r) ==
    /\ shell = "up" /\ fin[r] = "waiting"
    /\ handled' = [handled EXCEPT ![r] = TRUE]
    /\ fin' = [fin EXCEPT ![r] = IF handled[r] THEN "done" ELSE "blind"]
    /\ UNCHANGED <<storeVars, sidecar, net, pollVars, procVars, registry, wdog,
                   reports, appVars>>

\* What a finish thread may report: a zero exit whose result event is an
\* error counts as nonzero, and so does an exit it has not seen.
Reportable(r) == {"nonzero"} \cup IF fin[r] = "draining" THEN {exit[r]} ELSE {}

\* Mutant: the report does not join the pipes' readers.
FinishReportsEarly(r) ==
    /\ shell = "up" /\ fin[r] \in {"draining", "blind"}
    /\ \E x \in Reportable(r) : Post(FinishMsg(r, x))
    /\ fin' = [fin EXCEPT ![r] = "posted"]
    /\ reports' = [reports EXCEPT ![r] = @ + 1]
    /\ UNCHANGED <<storeVars, sidecar, pollVars, procVars, registry, handled,
                   wdog, appVars>>

\* Both readers are joined: they end with the last writer of the pipes, not
\* with the group.  Then the transcript is parsed and the run reported.
FinishReports(r) ==
    /\ shell = "up" /\ fin[r] \in {"draining", "blind"} /\ ~PipesHeld(r)
    /\ \E x \in Reportable(r) : Post(FinishMsg(r, x))
    /\ fin' = [fin EXCEPT ![r] = "posted"]
    /\ reports' = [reports EXCEPT ![r] = @ + 1]
    /\ UNCHANGED <<storeVars, sidecar, pollVars, procVars, registry, handled,
                   wdog, appVars>>

\* Success or not, the POST is not repeated.
FinishEnds(r) ==
    /\ shell = "up" /\ fin[r] = "posted"
    /\ registry' = registry \ {r}
    /\ fin' = [fin EXCEPT ![r] = "done"]
    /\ UNCHANGED <<storeVars, sidecar, net, pollVars, procVars, handled, wdog,
                   reports, appVars>>

-----------------------------------------------------------------------------
(* Closing, crashing, launching                                            *)

\* Everything the sidecar held in memory is gone.
SidecarDies == sidecar' = "down" /\ net' = {} /\ toClose' = {}

\* CloseRequested on the main window: shutdown_running_jobs empties the
\* registry and sends SIGTERM, which a process may follow (LeaderExits).
CloseRequested ==
    /\ shell = "up" /\ closePc = "open"
    /\ closePc' = "terminating"
    /\ doomed' = registry
    /\ registry' = {}
    /\ UNCHANGED <<storeVars, sidecar, net, pollVars, procVars, handled, wdog,
                   fin, reports, shell, launches>>

\* Mutant: only SIGTERM is sent.
CloseSkipsKill ==
    /\ shell = "up" /\ closePc = "terminating"
    /\ closePc' = "killed"
    /\ UNCHANGED <<storeVars, sidecar, net, pollVars, procVars, threadVars,
                   shell, doomed, launches>>

\* SIGKILL after the grace.
CloseKills ==
    /\ shell = "up" /\ closePc = "terminating"
    /\ closePc' = "killed"
    /\ KillGroups(doomed)
    /\ UNCHANGED <<storeVars, sidecar, net, pollVars, threadVars, shell, doomed,
                   launches>>

\* SidecarManager::shutdown.
CloseStopsSidecar ==
    /\ shell = "up" /\ closePc = "killed"
    /\ closePc' = "stopped"
    /\ SidecarDies
    /\ UNCHANGED <<status, session, pollVars, procVars, threadVars, shell,
                   doomed, launches>>

\* The shell's process ends and its threads with it; process groups stay.
ShellEnds ==
    /\ shell = "up"
    /\ shell' = "gone"
    /\ closePc' = "open" /\ doomed' = {}
    /\ pollPc' = "idle" /\ batch' = {} /\ cur' = None
    /\ registry' = {}
    /\ handled' = [r \in Run |-> FALSE]
    /\ wdog' = [r \in Run |-> "none"] /\ fin' = [r \in Run |-> "none"]
    /\ UNCHANGED <<storeVars, sidecar, net, procVars, reports, launches>>

AppExits    == closePc = "stopped" /\ ShellEnds
ShellCrashes == closePc # "stopped" /\ ShellEnds

\* The sidecar dies on its own, and nothing starts it again before the next
\* launch; or its parent-pid watchdog sees that the shell is gone.
SidecarGone ==
    /\ sidecar # "down"
    /\ SidecarDies
    /\ UNCHANGED <<status, session, pollVars, procVars, threadVars, appVars>>

SidecarCrashes      == shell = "up" /\ SidecarGone
SidecarFollowsShell == shell = "gone" /\ SidecarGone

\* The next launch reclaims the port from whatever still holds it.
Relaunch ==
    /\ shell = "gone" /\ launches < MaxLaunches
    /\ shell' = "up" /\ sidecar' = "starting"
    /\ net' = {} /\ toClose' = {}
    /\ launches' = launches + 1
    /\ UNCHANGED <<status, session, pollVars, procVars, threadVars, closePc,
                   doomed>>

\* Lifespan startup: the orphaned runs are reaped before the port is bound; a
\* reaper that fails is logged, and the startup goes on.
SidecarBoots ==
    /\ shell = "up" /\ sidecar = "starting"
    /\ sidecar' = "up"
    /\ ReapOrphanedRuns \/ UNCHANGED storeVars
    /\ UNCHANGED <<net, pollVars, procVars, threadVars, appVars>>

-----------------------------------------------------------------------------
StoreStep(r)  == StoreOnly(r) \/ Hook(r)
HandleStep(r) == HandleStart(r) \/ HandleFinish(r) \/ HandleTimeout(r)
PollStep ==
    \/ FetchPending
    \/ \E r \in Run : DispatchRun(r)
    \/ StartGivenUp \/ BuildFails \/ ReportUnlaunched \/ Spawn \/ Supervise
ProcessStep(r) == LeaderExits(r) \/ PipesClose(r) \/ GroupExits(r)
WatchdogStep(r) == WatchdogFires(r) \/ WatchdogReports(r) \/ WatchdogEnds(r)
FinishStep(r) == FinishSeesExit(r) \/ FinishReports(r) \/ FinishEnds(r)
CloseStep == CloseKills \/ CloseStopsSidecar \/ AppExits
CrashStep == ShellCrashes \/ SidecarCrashes
LaunchStep == SidecarFollowsShell \/ Relaunch \/ SidecarBoots

Next ==
    \/ \E r \in Run :
         \/ StoreStep(r) \/ HandleStep(r) \/ ProcessStep(r)
         \/ WatchdogStep(r) \/ FinishStep(r) \/ WaitFails(r)
    \/ RequestFails \/ PollStep
    \/ CloseRequested \/ CloseStep \/ CrashStep \/ LaunchStep

Spec == Init /\ [][Next]_vars

\* A thread that can take its next step takes it, and so do the handlers and
\* the tick loop of a sidecar that is up.  A request that is sent again and
\* again is handled once in a while (strong fairness: the database does not
\* fail for ever).  No process has to end by itself or to close its pipes, no
\* wait has to fail, and nobody has to close, crash, launch, cancel or delete
\* anything.
Fairness ==
    /\ WF_vars(SidecarBoots) /\ WF_vars(SidecarFollowsShell)
    /\ WF_vars(FetchPending)
    /\ WF_vars(StartGivenUp)
    /\ WF_vars(ReportUnlaunched \/ Spawn)
    /\ WF_vars(Supervise)
    /\ WF_vars(CloseStep)
    /\ \A r \in Run :
         /\ WF_vars(DispatchRun(r))
         /\ SF_vars(HandleStep(r))
         /\ WF_vars(Sweep(r) /\ StoreOnly(r))
         /\ WF_vars(Serving /\ CloseSession(r) /\ StoreOnly(r))
         /\ WF_vars(WatchdogStep(r))
         /\ WF_vars(FinishStep(r))

FairSpec == Spec /\ Fairness

-----------------------------------------------------------------------------
(* Safety                                                                  *)

\* However often a run is fetched and its start is sent, failed or answered
\* late, at most one process is launched for it, over all launches of the app.
\* The start endpoint does not say whether it claimed the row
\* (schedule_service.py:634-646), so this rests on the order in which the one
\* poll thread fetches, starts and spawns.
LaunchedAtMostOnce == \A r \in Run : spawns[r] <= 1

\* Watchdog and finish thread never both report a run (scheduler/mod.rs:541).
ReportedAtMostOnce == \A r \in Run : reports[r] <= 1

\* A row says succeeded only when the run's leader exited with zero and no
\* writer of its pipes was left, so that the transcript which was read for the
\* tokens and the cost was complete.
SucceededMeansExited ==
    \A r \in Run : status[r] = "succeeded" => Ended(r) /\ exit[r] = "zero"

\* As long as a supervised run goes on, that is its leader runs or something
\* holds its pipes, it is in the registry, where a close handler that is still
\* to come finds it, or the handler holds it and has yet to send SIGKILL.
\* Watchdog and finish thread unregister it only behind that
\* (scheduler/mod.rs:591, 741).  A leader that cannot be waited for counts
\* until its pipes are closed.  It is not said of what a reported run left
\* behind with other outputs ("detached"), which nothing stops any more, nor
\* that a handler is still to come: a run registered behind the drain stays
\* registered and is not stopped (ClosedAppLeavesNoRun).
LiveRunIsRegistered ==
    \A r \in Run :
        /\ fin[r] # "none"
        /\ PipesHeld(r) \/ (LeaderRuns(r) /\ fin[r] = "waiting")
        => r \in registry \/ (r \in doomed /\ closePc = "terminating")

\* The lifecycle written beside the table (migrations/000_baseline_schema.sql
\* 478-480) ends in a terminal status: it is not left any more, except that
\* the row may be deleted.
TerminalIsFinal ==
    [][\A r \in Run : status[r] \in Terminal =>
                        status'[r] \in {status[r], "deleted"}]_vars

\* lib.rs:356-359: closing the app never leaves a scheduled job running.
\* Said of the `claude` processes the closing shell launched and supervises,
\* not of what they forked.
ClosedAppLeavesNoRun ==
    [][AppExits => \A r \in Run : fin[r] # "none" => ~LeaderRuns(r)]_vars

-----------------------------------------------------------------------------
(* Refinement                                                              *)

\* A row as the lifecycle knows it, and the job, over when the leader of its
\* group has exited and no writer of its pipes is left.
RowOf(r) ==
    CASE status[r] = "absent" -> "none"
      [] status[r] \in {"failed", "timed_out", "cancelled"} -> "ended"
      [] OTHER -> status[r]

JobOf(r) ==
    CASE proc[r] = "none" -> "none"
      [] Ended(r) -> exit[r]
      [] OTHER -> "live"

Lifecycle ==
    INSTANCE RunLifecycle WITH
        row <- [r \in Run |-> RowOf(r)],
        job <- [r \in Run |-> JobOf(r)],
        reported <- [r \in Run |-> reports[r] # 0]

\* Every run goes through the abstract lifecycle, whatever the threads, the
\* requests, the crashes and the launches of the app do in between.
RunsFollowLifecycle == Lifecycle!Spec

-----------------------------------------------------------------------------
(* Liveness                                                                *)

\* A row in the queue or running leaves these statuses, or the two programs
\* do not both go on.  A lost start or finish, an unreported error of
\* dispatch_run and a hanging process are made up for by the sweep.
ActiveRunsEnd ==
    \A r \in Run : status[r] \in Active ~>
        \/ status[r] \notin Active
        \/ shell = "gone" \/ closePc # "open" \/ sidecar = "down"

\* Who takes the flag reports: it is never taken for nothing, unless the
\* shell ends, or something holds the run's pipes open for ever behind a
\* finish thread that has the flag.  Once they are closed the report comes.
FlagIsHonoured ==
    \A r \in Run : handled[r] ~>
        \/ reports[r] = 1
        \/ [](fin[r] \in {"draining", "blind"} /\ PipesHeld(r))
        \/ shell = "gone"

\* schedule_service.py:456-472: the finishing run closes the session it owns,
\* deterministically, so no session of an ended run stays open while the
\* sidecar serves.
EndedRunReleasesSession ==
    \A r \in Run : status[r] \in Terminal /\ ~Alive(r) /\ Serving ~>
                        session[r] # "open" \/ ~Serving
=============================================================================
