# A TLA+ model of CodeNest

CodeNest is a desktop app around the `claude` CLI. Three programs make it up:

- the **shell**, a Tauri app in Rust (`src-tauri/src`), which owns every process: it starts
  the sidecar, launches scheduled runs, keeps the terminals and the duplex agent sessions;
- the **sidecar**, a FastAPI server in Python (`app/`), which owns the SQLite database:
  schedules, runs, agent sessions, events, tasks, providers;
- the **frontend** in React (`frontend/src`), which talks to both.

They meet over local HTTP, Tauri commands and events, and the hooks that each `claude`
process posts to the sidecar.

## Inventory

| Component | State | Operations | Hard behaviour | What makes it correct |
|---|---|---|---|---|
| Run store (`schedule_service.py`) | rows of `schedule_runs`, `agent_sessions` of runs | insert, start, finish, timeout, cancel, sweep, reap, delete, close session | unconditional finish, two transactions per handler, restart | lifecycle; every active row ends; sessions are released |
| Run dispatcher (`scheduler/mod.rs`) | registry of pids, `handled` flag, batch of pending rows | poll, start, spawn, watchdog, finish, drain | threads racing, lost and late requests, close during dispatch | one launch, one report, true success, no process escapes |
| Launch and close (`lib.rs`, `sidecar/mod.rs`, `app/__init__.py`) | child, lifespan | start, reap, close, follow the shell | crash of either program, orphans | nothing left running, orphans reaped |
| Agent sessions (`agent/mod.rs`) | map pane -> Reserved, Cancelled, Live; reader, writer, waiter threads | start, stop, send, close_all | start releases the lock while it spawns | no child lost, stop wins, one child per pane, exit frame last |
| Tick engine (`schedule_service.py`: tick, fire_manual, dispatch_event) | rows of `schedules`, `next_fire_at`; rows a coroutine has read | tick, manual and event fire, create, edit, delete | awaits between check and insert, stale rows, crash between commits | a slot has one row, no overlap, a due slot is passed |
| Hook ingest (`agent_service.py`) | status of sessions, events, broadcast queues | one handler per hook | late and reordered hooks, full queues | an ended session stays ended |
| Lane reconciler, transcript scanner, OTLP, attention queue | claims per field, file cursors, series, derived rows | apply, scan, ingest, derive | order of lanes, growing files, restarts of counters | precedence, nothing read twice |
| Terminal tabs (`terminal-store.ts`, `layout-tree.ts`, `launch.ts`) | tabs with trees of panes, focus, maximized pane, what localStorage keeps | add, split, close, focus, hydrate, launch, reset | every call awaits the shell between reading and writing the strip | the strip is sound; panes come and go as asked; no PTY without a pane |
| Agent pane (`agent-pane.tsx`) | boots of the component, started keys, the subscription, stops in flight | mount, unmount, restart, close | cleanups cannot await; a restart's stop races its start | one listener, heard sessions, one session or a reason, none after the close |
| Agent conversation (`agent-conversation.ts`, `agent-session-store.ts`, `composer-store.ts`, `agent-composer.tsx`) | what the pane shows; draft, queue, sends in flight | type, send, queue, answer, clear; one reducer case per frame | frames carry no session, sends await, sessions are replaced | a text is sent once and kept; what is shown is what the session does |
| Providers, tasks, projects, settings, PTY, file watchers, pages and the HTTP client | database rows, handles | CRUD, I/O, rendering | none to speak of | not modelled: no protocol of their own |

`PROJECT.json` lists the components with their status and reason, and under `hazards` every
place in the code that is hard to test, with the property that covers it or the reason none does.

## Modules

| Module | Models | State and how it corresponds to the code |
|---|---|---|
| `ScheduleRuns` | the store's handlers on one run row | `status` is the column; `session` is the `agent_sessions` row of the run (`open` = active or idle); `toClose` holds the handlers between their commit and the session's close |
| `RunDispatch` | shell and sidecar around a run; extends `ScheduleRuns` | `pollPc`, `batch`, `cur`: locals of `run_loop` and `dispatch_run`; `registry`, `handled`: the shared objects; `wdog`, `fin`: the two threads of a run; `proc`, `exit`: its process group; `net`: requests sent and not handled; `closePc`, `doomed`: the close handler; `sidecar`, `shell`: the programs |
| `RunLifecycle` | the abstract promise of a run | `row`, `job` and `reported` of a run, each step a row, a job or a report moves; no thread, request, crash or launch |
| `MCRunDispatch` | the instance for TLC | one run |
| `RunDispatchProofs` | theorems about `RunDispatch`, the refinement of `RunLifecycle` among them | |
| `ScheduleTick` | what inserts runs; extends `ScheduleRuns` | `row` is the row of `schedules` (`next` = `next_fire_at`, `cadence` = `interval_seconds` or the cron expression); `of` is `schedule_id` of a run; `rows`, `tick`: the list and the locals of `tick`; `fire`: the locals of `fire_manual` and `dispatch_event` per request; `clock`: `_now()`; `due`: a history variable, the slot and the life of the sidecar a row was written for |
| `MCScheduleTick` | instances for TLC | symmetry of the runs, the view, a cron function |
| `ScheduleTickProofs` | theorems about `ScheduleTick` | |
| `AgentSessions` | `AgentManager` | `slot` is the map; `start` is how far a start call is; `proc`, `reader`, `waiter`, `frame`: a child and its threads; `killing`: detached SIGKILL threads; `closePc`, `doomed`: `close_all` |
| `MCAgentSessions` | the instance for TLC | one pane, two start calls |
| `AgentSessionsProofs` | theorems about `AgentSessions` | |
| `LayoutTree` | the pane tree and the layouts of a launch | a layout is a function from places (paths of 1 and 2) to leaves, so that an inner node is a proper prefix of places |
| `TerminalTabs` | the tab store and its callers in both windows | `tabs`, `activeTabId`, `focusedLeafId`, `maximizedLeafId`, `hydrated`, `hydrating`: the store; `saved`: localStorage; `op`: the calls in flight with what they have read and opened; `pty`, `exits`: shells alive, and `pty-exited` events on their way; `win`: the window |
| `MCTerminalTabs` | the instance for TLC | specs of launches, what localStorage may hold, symmetry |
| `LayoutTreeProofs` | lemmas about `LayoutTree` | trees of any size: split, close, replace, mark, and the places of a launch's panes |
| `TerminalTabsProofs` | theorems about `TerminalTabs` | |
| `AgentPane` | the lifecycle effect of `agent-pane.tsx` over the shell's slot | `mount`: the mounted component (`token` = `retryToken`); `boot`: the runs of `boot()`; `started`, `registered`, `pendingSub`, `pendingStop`: the module's maps; `subs`, `stops`: commands in flight; `slot`, `child`: the shell's side in coarser steps than `AgentSessions` |
| `MCAgentPane`, `AgentPaneProofs` | the instance for TLC; theorems about `AgentPane` | |
| `Conversation` | the reducer of frames | `status`, `permissions`, `calls`, `orchestrations`, the streaming buffer; every item also carries the session it came from, which the code does not keep and the properties compare with |
| `AgentConversation` | composer, store and dialog of one pane over its sessions; uses `Conversation` | `phase`, `keyed`: how far the pane's boot is, and a key of `startedPanes`; `conv`, `allowed`: the session store; `draft`, `queued`: the composer store; `sends`: `agent_send` in flight; `cli`: what each child is doing, from which its frames follow; `delivered`, `overlap`: history |
| `MCAgentConversation` | the instance for TLC | two texts, two sessions |
| `AgentConversationProofs`, `AgentComposerProofs` | theorems about `AgentConversation`: what the pane shows; types, texts and status | |

Operators called a mutant in their comment are not part of any specification: each is a
plausible bug in the definition below it, and `PROJECT.json` says which property finds it.

### What a step is

A handler of the sidecar commits the row in one transaction: that is one step. The close of
the run's session is a second transaction and a second step (`CloseSession`); the sidecar may
die between them. A request may be handled later than the client waits for it (`StartGivenUp`
while the message stays in `net`), may fail (`RequestFails`), and is lost when the sidecar dies.
Threads of the shell take one step per access to shared state: the flag, the registry, a POST.
A process group (`ProcState`) is told apart by its leader and by the writers of its pipes: `running`,
`mute` (the leader runs, the pipes are closed), `lingering` (the leader has exited, something it forked
holds the pipes), `detached` (the leader has exited, the pipes are closed, something it forked with outputs
of its own lives on) or `gone`. The finish thread waits for the leader and joins the readers of the pipes
(`FinishReports`, `scheduler/mod.rs:632-634`); it does not wait for the group, and what is `detached` leaves
the registry with the report. It may also be unable to wait for the leader (`WaitFails`), takes the exit code for -1
and still joins the readers. A crash of the shell removes its threads and leaves process groups alive,
because each is a session leader of its own. A relaunch starts a new sidecar, whose startup
reaper fails the orphaned rows, or fails itself and is logged.

In `ScheduleTick` the coroutines of the sidecar's one event loop give way at every await, so each
statement with its commit is a step: `tick` reads the due rows, then for each row decides, inserts,
and advances; `fire_manual` reads, checks, inserts, and re-anchors. What was read stays in
`rows`, `tick` and `fire` and may be stale. `delete_schedule` takes the runs along (foreign key
with cascade), and an insert for a schedule that is gone raises: `tick` logs it and goes on,
`dispatch_event` ends. The end of the sidecar, a crash or the cancellation of the loop in
`lifespan`, loses the coroutines and keeps the rows. Time is one clock that only advances; a cron
expression is the function `NextOccurrence`, of which `TickAssumption` says no more than that an
occurrence is later than the time it is asked for. The shell is only something that starts and
ends runs: that part is `RunDispatch`, and both modules extend the same store.

In `AgentSessions` the lock is taken twice by a start call, and everything between is a step
without it. The Tauri commands are synchronous, so today's frontend calls them one after the
other; the manager itself is shared by `Arc`, is locked for concurrent callers, and its comments
and tests promise what happens when start and stop race. The model checks that promise. The
readers, waiters and SIGKILL threads do run concurrently with every command. A child's group has the same
states as that of a scheduled run: the readers end with the last writer of the pipes, not with the group, and the
waiter may fail to wait (`WaiterFails`).

In `TerminalTabs` an action of the store is one step up to its first await and one after each:
between them other calls, shortcuts and events run. What a call has read of the strip before an
await is in `op` and may be stale when it is used. Tauri's answer to a command, and the refusal, are
steps of their own (`OpenTerminal`, `OpenTerminalFails`); tabs of a hydration and panes of a launch open side by
side, in one step with every outcome. Ids are fresh when they are minted. The main window
and the detached one run the same store, which differs in what closing the last tab does; they
share nothing but localStorage.

In `AgentPane` a run of the lifecycle effect is a boot; a boot that is awaiting something is
overtaken by unmounts, restarts and the answers of other commands in any order. A cleanup tears down
only when the leaf left the layout or a restart asked for it, as in the code. The reservation of a
slot, its publication and its removal are steps; the slot is emptied and the exit frame emitted in
one (`AgentSessions` has them apart), and `list_live_panes` lists live slots.

`AgentConversation` takes the restarts of a pane as they come (a restart kills the session and
deafens the pane until it boots) and has every step of the user and every frame of the children.
Of several sessions of a pane an old one may still emit what its pipes hold, its `status/requesting` and its exit
among it, because frames are applied by pane. A turn starts with a message that is read (`TurnStarts`) or
without one (`TurnOpens`: a hook, a resumed session), and requests the model as often as it likes (`TurnGoesOn`). A pane that is mounted again while the key of a first mount is
not in `startedPanes` (`keyed`: it was deleted by a restart or a failed start, whose boots have other keys) boots once
more although its session lives (`Remount`); the start is refused, the session is found among the live ones
(`FindsLive`), and `markAttached` shows it idle (`Attach`), whatever it is doing or if it has ended since.

### Left out

What leaves the process group it was launched in (`setsid` of its own), which no signal of the app reaches. Texts, paths, tokens and costs; command building, the preflight probe and notifications (a
choice of outcome each); the file watchers and PTYs that the close handler also stops; two
shells at once; reuse of process ids; a pipe or a client that cannot be created after the spawn;
a database error while a session is closed (logged and swallowed by the code); ids in the order
rows are dispatched (the model takes a batch in any order). In `RunDispatch` the `skipped` and
`missed` rows are left out, which the shell never reads; `ScheduleTick` writes them. In
`ScheduleTick`: a stored cadence that is invalid (create and update refuse it; tick would disable
the row), database errors other than the foreign key, a local clock set back, seconds as the grain
of stored times, the order of ids in a tick, and the time limit of runs, whose effect on the overlap
guard is that of `RunEnds`. `DueSlotIsHandled` speaks of enabled schedules: the SELECT of tick asks for
`enabled = 1`, so the comment at `schedule_service.py:796`, "so disabled rows still advance", is about rows the loop never
sees. In `AgentSessions` the writer's queue is left out:
`send` and the control requests add a line to it and change nothing else.

In `TerminalTabs`: titles, ratios, working directories, the agent configuration of a leaf, the
prompts of a launch, and failures of localStorage. In `AgentPane`: the provider catalog (one step),
the records of launches and exits for the sidecar, control-note sinks, a `subscribe` call that is rejected. In `AgentConversation`: the
attach of a page that was loaded anew, whose store is empty and has no conversation to compare with; a `list_live_panes` that
fails; more than one open request of a session, of which the store keeps a FIFO; texts of
the transcript, usage, clocks and costs, thinking, control requests (model, mode, interrupt), pills, mentions,
history, fan-out to several panes, and slash commands other than `/clear`. A launch's prompt is in the draft
from the start.

## Runs

| Run | Instance | Question |
|---|---|---|
| `dispatch_relaunch` | 1 run, 2 launches, sessions, fairness | do crashes and lost requests keep a run launched and reported once and its success real, do the programs implement `RunLifecycle`, and does every active row end? |
| `agent_sessions` | 1 pane, 2 start calls, fairness | are children, stops and frames handled right when calls race on a pane, and does a stopped session reach its exit frame? |
| `tick_safety` | 1 interval and 1 event schedule, 2 runs, 1 request, 2 cadences, clock to 2, 2 lives, runs symmetric | do tick, requests, edits, deletes and a restart keep slots, overlap and rows right? |
| `tick_liveness` | 1 cron schedule, 2 runs, 2 lives, fairness | is a due slot passed? |
| `terminal_tabs` | 3 leaves, 3 tab ids, 2 tabs at a time, 2 calls in flight, 3 steps of the user, 4 kinds of saved state, 2 launches, all ids symmetric | do overlapping calls, exits, hydration and launches keep strip, panes, PTYs and pointers right? |
| `agent_pane` | 4 boots, 4 steps of the user or ends of a child | do mounts, restarts and the close of a pane keep its listener and its session right? |
| `agent_conversation` | 2 texts, 2 sessions, restarts, remounts that attach, 5 steps of the user or works of a session | are texts sent once and kept, and does the pane show what its session does? |
| `dispatch_terminal`, `dispatch_close`, `dispatch_session`, `agent_dead_slot`, `tick_overlap` | as above | what a comment of the code says, and the code does not do |

Bounds. One run suffices for what crosses a relaunch, and two launches for a crash, an orphan and
its reaper. Runs of one launch meet in the poll thread, the registry and the close handler: the
safety of several runs is the matter of the theorems, which hold for every set of runs and every
`PendingLimit`. Panes share nothing but the lock of the agent manager, so one pane is enough; two
start calls give an earlier session and the one being started, and the theorems hold for any
number. In `ScheduleTick` schedules meet only in the order of a tick's loop, so one that tick fires
and one that it does not are enough; two runs are what an overlap or a slot with two rows takes; a
clock of three moments with steps of one and two has a slot that is due, one that is late, one that
is stale (`Staleness` 0) and one that is ahead. One request in progress meets the tick; two manual
fires race in the same way, and the theorems hold for any number. `RunView` drops `toClose` and `session`, which
are not touched without a CLI, and how a run ended, which nothing here reads.

In `TerminalTabs` two calls are what a race takes, and a user's step starts each of them; the third
step prepares them (splits, maximizes, hydrates) or follows. Two tabs distinguish the active from the other,
and three leaves give one pane that stays, one that goes and one that comes; what the theorems say holds for any
number of calls, tabs and panes. The two launches and
the saved strips are the smallest with a pane that may fail and one that may not, with two panes in one tab and one in each of
two, and with a pane that was saved empty. Grids of 6, 7 and 8 panes (8 is the cap of the code), whose last rows are full, of one pane and short,
are laid out for `LaunchKeepsPaneOrder`, and wait there: the ids do not suffice to open them. In `AgentPane` the
longest story is one that reuses a boot's key: start, restart, remount, restart, which is four boots
and four steps; the theorems hold for any number. In `AgentConversation` two sessions give a live one and the
one before; two texts, one that is sent and one typed behind it; five steps let one be sent, one be queued, and
the session work, restart or be attached to in between; the theorems hold for any number of each.

`CHECK_DEADLOCK FALSE`: the app exits for the last time, the store is full, the clock and the
number of lives are used up, or the user has taken the last step the bound allows and all is
answered.

### Fairness

`RunDispatch` assumes that a thread that can go on does (the poll thread, watchdog, finish
thread, the close handler once it began), that a live sidecar boots, handles what it was sent and
runs its tick loop (the sweep), and, strongly, that a request repeated for ever is handled once
in a while. Spawning or reporting is weakly fair because a dispatch cannot fail for ever to do
either: it is one straight-line function. No process has to end, and no user has to do anything:
`ActiveRunsEnd` rests on the sweep, not on the CLI. `AgentSessions` assumes the app's threads
run; the child may ignore SIGTERM for ever, and a start call that never returns from its spawn
is allowed. `ScheduleTick` assumes that the loop of `_schedule_tick_loop` goes on while the sidecar
is up and that the app is started again; the last life that `MaxBoots` allows does not end. No
request, run or user is fair. A store that is full, which only the bound makes so, is exempted.
The frontend's modules are checked for safety only: what they promise of the future (that an opened
PTY reaches its pane, that a pane at rest has a session) is stated of the moment when nothing is in
flight, and no fairness is assumed.

## What the runs show

- A run is launched at most once over retries, late answers, crashes and relaunches
  (`LaunchedAtMostOnce`), although `start_run` answers 200 whether or not it claimed the row: the
  single poll thread and the fetch of queued rows only are what guarantees it.
- Watchdog and finish thread report a run at most once between them, and whoever takes the flag
  does report (`ReportedAtMostOnce`, `FlagIsHonoured`). The exemption for pipes that are held for ever is the
  code's: the finish thread takes the flag before it joins the readers, so a forked process that
  keeps the pipes open disables the time limit. Once they are closed the report has to come.
- Store and shell together implement `RunLifecycle` (`RunsFollowLifecycle`): a row is claimed
  once, its job launched and reported once, and it says succeeded only on the report of a job that ended
  well. What that module does not promise, the code does not keep either: a row may be ended over a living
  job, and an end may be overwritten.
- A success is real: the leader exited with zero, and the transcript was complete, since no writer of the pipes
  was left (`SucceededMeansExited`). A supervised run stays in the registry while its leader runs or something holds its
  pipes (`LiveRunIsRegistered`). Two things the property does not say, and the code does not do: what a
  reported run left behind with outputs of its own is not in the registry and is stopped by nobody, although
  `scheduler/mod.rs:437-438` means to stop "the entire job (claude + anything it forks)"; and a run that is registered
  behind the drain of the close handler is in the registry, and nobody drains it again (`dispatch_close`).
- Every row that is queued or running leaves these statuses while both programs stay up
  (`ActiveRunsEnd`).
- No child of a pane is lost, a stop that finds a start in progress wins, a pane has one child
  that nobody is killing, and the exit frame is the last (`NoChildIsLost`, `StopIsNotUndone`,
  `OneChildPerPane`, `ExitFrameIsLast`); a stopped session ends (`StoppedSessionEnds`).

- A due slot gets one row in a life of the sidecar, whatever is edited, fired by hand or deleted
  while tick holds its stale rows (`SlotHasOneRow`); the runs of the tick do not overlap
  (`TickRunsDoNotOverlap`): tick is one coroutine, so between its guard and its insert nobody else
  inserts a run of the tick. No run is left of a deleted schedule (`NoRunWithoutSchedule`), the next
  fire of an interval is the first slot of its grid that is ahead (`NextIsFirstSlotAhead`), and a
  due slot is passed (`DueSlotIsHandled`).
- Two behaviours the model has and no line of the repository excludes: an edit or the re-anchor of
  a manual fire, made while tick is between its read and its update, is overwritten by the
  `next_fire_at` of the stale row; and a crash between the insert of a run and that update fires the slot
  again in the next life, the reaper having failed the first run. The comment in
  `app/__init__.py:285-287` is about the first run, which is not launched again.

- In the strip of tabs no pane is twice and the active tab is there (`StripIsSound`), a page of the main
  window that is emptied is given a tab (`StripIsRefilled`), the panes of a launch are in the order of its
  spec (`LaunchKeepsPaneOrder`). `PanesComeAndGoAsAsked`, `PtyLossIsExplained`, `DeadShellIsMarked` and
  `PointersAreShown` hold with exceptions, each named in the property, which is how the model shows them to be
  the only ones. They are behaviours of the code a reader should know:
  - `closePane` writes back the layout it read before it awaited the shell: closing two panes quickly may
    bring the first back, dead, and a pane split off meanwhile is gone while its PTY runs on;
  - a PTY is left without a pane when a split or a retry of an empty pane finds its target gone, when a tab
    gets a pane while it is closing, when a hydration replaces a strip a launch or a new tab has written to
    (the launch marks the store hydrated, which keeps out a later hydration, not one that is under way:
    `terminal-store.ts:921-923`), when a later shell of a restored tab or the command of a launched pane
    fails, or with the window; and with no overlap or failure at all when a shell is opened in a restored
    empty pane: a hydration opens a PTY for a pane that was saved empty and leaves it `empty`
    (`terminal-store.ts:731-734`), so the pane offers a shell, and `replaceEmptyLeaf` (935-936) puts that one in its
    place and leaves the first running;
  - a shell that exits before its pane is in the strip is not marked;
  - the maximized pane is lost when it is an empty one that is given a shell.
- A pane has one listener, the one that will be disposed of, and its live session is heard, mounted or not
  (`ListenerIsRegistered`, `LiveSessionIsHeard`). A start refused for the pane's own stop finds room
  when it tries again (`StopMakesRoom`), a pane at rest has a session or says why not
  (`SettledPaneHasSession`), and a closed pane keeps none (`NoSessionWithoutPane`). The exceptions: a remount
  starts `retryToken` at 0, so that a later Restart may mint a key `startedPanes` still has, and the
  pane then boots nothing and shows no error; a start that the shell handles after the stop meant for it
  outlives its leaf or meets the second attempt; a Restart while the first start is still being
  provisioned ends in the refusal the retry was to avoid.
- A text reaches a session once unless it was sent again while being sent (`SentOnce`), and is lost only
  when no session took it, when it was typed while a send was awaited, which then empties the composer, or
  with `/clear` (`TextIsKept`). While the pane is starting the composer does send, although there is no
  session: the text is refused by the shell, logged, and gone from the composer. What the pane shows of
  its live session is right across restarts and late frames (`LiveIsShown`). Once the live session has reported, a
  pane shown running has work and a turn is shown as one, with two exceptions (`RunningIsWork`). A late frame of an
  earlier session may have set the status last: its `status/requesting` leaves the pane running with nothing to wait for,
  and what is typed then is queued behind a result that need not come; its exit shows a live session as exited. And a
  pane that was mounted again shows a turn as starting, then idle, until the next request: the comment at
  `agent-session-store.ts:38-42` has the very next frame put it right, and of the frames of a turn that goes on only a
  `status/requesting` does.
  An attach whose session ended meanwhile shows idle over a dead one. Of a
  session that is gone the pane may keep dialogs, a half-streamed text and orchestrations.

Five runs end in a counterexample, each against a line of the repository (`findings`):

- `dispatch_terminal`: `finish_run` overwrites a terminal status. In the trace the row is cancelled before the
  finish is handled that the dispatch posts for a run it does not launch; a late report of a launched process does
  the same.
- `dispatch_close`: a dispatch whose spawn comes after the close handler drained the registry launches a
  process that outlives the app.
- `dispatch_session`: after a crash of the shell the surviving process opens its session again
  behind the reaper, and nothing but the user's clean-up closes it.
- `agent_dead_slot`: a child that exits before its session is published stays live in the map.
- `tick_overlap`: the overlap guard and the insert are two statements; tick and a manual fire both
  pass the guard and a schedule has two queued runs.

## What is proved

`RunDispatchProofs`, for any set of runs, any `PendingLimit` and any number of launches, from
`DispatchAssumption` alone:

- `TypeCorrect`. `TypeOK` is not inductive: `TypeInv` adds that a busy poll thread has a current
  run and that a process whose leader exited has an exit code.
- `OneLaunchPerRun`. `LaunchInv` says that a run that was launched is not queued any more, and that
  from the answer to its start on the current run is not queued, so no fetch returns it again. A late
  start request cannot bring a row back to the queue.
- `OneReportPerRun`. `ReportInv` relates the flag to the two threads: while it is not taken nobody
  reported, and when it is, one thread at most is past it.
- `LiveRunsStayRegistered`. A thread is past its report only when no writer of the pipes is left and the leader has
  exited or cannot be waited for.
- `SuccessIsReal`. `SuccessInv` says of a report of success on its way what the property says of
  the row.
- `RefinesLifecycle`: under the mapping of `RowOf` and `JobOf` every step is, for each run, a step of
  `RunLifecycle` or none. `LifecycleInv` is all of the above and `ProcInv`, that a job which was launched has
  a process or an exit code. `RowMoves` and `JobMoves` say which abstract step the change of a row or of a
  process is; the steps of the shell that end several runs at once, the reaper and the close handler, are
  why `RunLifecycle` lets every run take a step of its own.

`AgentSessionsProofs`, for any panes and start calls, from `AgentAssumption` alone:

- `TypeCorrect`.
- `EveryChildHasAnOwner`, `StopWins` and `PaneHasOneChild` rest on one invariant, `OwnInv`: a slot
  belongs to the attempt that reserved it and follows its progress; while the app is open a start
  call finds its own reservation, cancelled at most; readers outlive the writers of its pipes; a session that goes on and whose
  start call is over is live in the map or being killed; a stopped attempt is neither reserved nor
  live. The properties alone are not inductive: nothing in them says that the slot a publish
  finds is its own.
- `ExitFrameEndsTheStream`, an action property, from `FrameInv`: the waiter passes its joins only
  when the readers have ended.

`AgentPaneProofs`, for any number of boots and of steps of the user, from `PaneAssumption` alone, all six
properties of `agent_pane`:

- `TypeCorrect`, with `BootInv`: boots are taken in order, and a reservation is that of the one boot that is
  spawning. What a step does to the boots is a lemma per action (`MountBoots`, `StartBoots`, ...), which the
  invariants cite instead of the actions.
- `OneListener` and `SessionsAreHeard` from `SubInv`: a subscription that is asked for is in flight, and a
  leaf in the layout has a listener or is about to have one.
- `SecondStartFindsRoom` and `ClosedPaneKeepsNothing` from `ChildInv` (a child that lives is the slot's),
  `RoomInv` and `GoneInv`: behind a stop the starts of earlier boots that are still to be handled
  are those it overtook. The property speaks of the slot only; that no other start can come in between
  is what makes it inductive.
- `RestingPaneHasSession` from `LiveInv`, `KeyInv` (while a pane was never unmounted, the keys taken are those of
  earlier tokens) and `EndInv`, which says what each way for a boot to end leaves behind.

`ScheduleTickProofs`, for any schedules, requests, cadences, cron functions, staleness, clock and
number of lives, from `TickAssumption` alone:

- `TypeCorrect`. `TypeInv` adds what `TypeOK` does not say of the coroutines: a tick at work is on
  a row it has read, a manual fire carries its schedule and cadence, a sidecar that is down may
  start again.
- `NoOrphanRuns`, inductive with the types: an insert needs the schedule, a delete takes its runs.
- `TickRunsNeverOverlap`. `OverlapInv` adds that between a guard that said `queued` and the insert
  no run of the tick is active for that schedule. Other inserts may happen in between, but not of
  the tick; a run that is not active never becomes so again.
- `OneRowPerSlot`. `SlotInv` orders time: no row of this life has a slot later than the clock; a row
  that tick is to insert, or has yet to take, is later than every slot written for its schedule in this
  life; and what is stored, or will be, as `next_fire_at` is later too, except the slot being
  advanced. An edit puts `next_fire_at` after the clock and so after all slots written.
- `TickLooksAhead`, an action property, from the lemma `IntervalNextFireAhead` on the catch-up
  arithmetic, which rests on `DivBounds`.

`AgentConversationProofs` and `AgentComposerProofs`, for any texts, sessions and steps of the user, from
`ConversationAssumption` alone, all five properties of `agent_conversation`:

- `LiveIsShownHolds` from `ShownHolds`. The property speaks of the live session only and is not inductive, as
  frames of sessions before are applied to the same pane. `ShownInv` adds what keeps them apart: streamed
  blocks are nested, only the last session is alive, nothing is shown of a session to come, and a dialog
  is about a request that waits. The lemmas say per frame what the reducer leaves of other sessions.
- `TypeCorrect`, in which no request is in the dialogs twice.
- `SentOnceHolds` from `OnceHolds`. `OnceInv` says where a text that was not used again is: in the draft, in
  one message of the queue, in one message on its way, or delivered, and in no two of them but for the draft
  it is being sent from. `TextIsKeptHolds` is the action property. Both look at a step through the lemma
  `TextSteps`, which says that every step of the module starts or ends a send, queues, clears, types,
  flushes, or leaves the texts alone.
- `RunningIsWorkHolds`, inductive together with `ShownInv` and the types, and with what a boot, an attach and a refused
  start leave as the status.

`LayoutTreeProofs`, for any binary tree, and for any number of panes a launch may have:

- `SplitLeafProperties` and `CloseLeafProperties`: what `splitLeaf` and `closeLeaf` return is a binary tree again,
  with the leaves it should have. The code is recursive and the proofs cannot be by induction on a tree; a
  layout is its set of places, so that the operations are maps of places and each part of `IsTree` is
  shown of the image. Where an induction is needed (a leftmost leaf, a deepest one, a number of columns), the
  least or the greatest of a bounded set of naturals takes its place (`LeastNat`, `GreatestNat`).
- `PanePlaces`: chains and grids of `n` panes are binary trees, and the order of their leaves from left to
  right is that of the spec, with the last row of a grid full, short or of one pane.

`TerminalTabsProofs`, for any panes, tabs, launches and saved strips, and any number of calls in flight, from
`TabsAssumption` alone (which says of localStorage what `Stored` writes there: strips with distinct tab ids, and no leaf
id that may be in use, as a hydration gives every leaf a new one):

- `StripSound` from `TabsInvariant`. The property is not inductive: `closePane` writes back a layout it read
  before it awaited the shell, a hydration replaces the strip with what it has rebuilt, and a call puts a
  pane it has opened into a tab later. `TabsInv` says who a pane belongs to: to one tab, which may have it in
  the strip, in the layout a `closePane` holds and in what a hydration has rebuilt, or else to one
  call, which has opened it and not placed it. Two tabs never share a pane because tabs are taken from calls
  and from localStorage with the ids they had, and a fresh pane is nobody's.
- `TabsTypes`: every layout of the strip, of localStorage and in the hands of a call is a binary tree.
- `LaunchOrder`, from `PanePlaces`.
- The five action properties. Each is of a step from one state of `TabsInv` to the next, with a lemma per action
  under it; what they share are the lemmas of the form `Adds` (which leaves a step may put into the strip)
  and `Takes` (which panes it may take out), one for each way a call ends.
  `StripRefilled` follows the calls that are about to add a tab. `DeadShellMarked` and `PtyLossExplained` compare what
  a step does to the strip with what it does to the shells. `DeadShellMarked` and `PointersShown` need that a pane
  has one owner (`OneOwner`): what a call has opened is not in the strip yet, and a call that closes the pane in focus
  is a call on the tab on screen.
- `PanesComeAndGo` and `PtyLossExplained` also need `KindsInv`, proved inductive with `TabsInv`: a pane, in the strip
  or in a call's hands, whose id is that of a running PTY is a shell's. An agent's pane goes without the shell being
  asked, and closing a tab kills the PTYs of its shells only; without the invariant either could take a PTY's pane
  out of the strip.

Only model-checked: the liveness properties (`ActiveRunsEnd`, `FlagIsHonoured`,
`StoppedSessionEnds`, `DueSlotIsHandled`), which the proof system cannot reach because it has no rule for
fairness here; and the violated properties.

## Not modelled

Most of the lines of the repository are TypeScript that renders: pages, forms, charts and the HTTP client with
its types (`lib/api.ts`). They hold no state that outlives a render but a query's cache and a form, and no two
of their steps can be told apart by a property. Of the sidecar, providers, projects, tasks and settings are
single statements on the database. The PTY manager, the file watchers and the migrations are I/O. `PROJECT.json`
has the reason for each part.

## Plan

Done: the run store, the dispatcher and the lifecycle it implements, the agent registry, the tick engine,
the tab strip, the agent pane, its conversation, and the proofs of every safety and action property that the
runs show to hold. What is next, in this order:

1. **Composition** of `AgentPane` with `AgentSessions`: the coarse slot of the pane as a refinement of the
   registry's steps, the dead slot of `agent_dead_slot` included.
2. **Hook ingest** (`SessionStatus`): hooks in any order against `record_session_end`, the close of a run
   and the clean-up of stale sessions; the bounded queues of the broadcast.
3. **Sidecar supervision**: boot attempts, health, shutdown during boot.
4. **Data lanes**: the precedence rule of the lane reconciler, cursors of the transcript scanner, delta and
   cumulative OTLP series, as operators against reference definitions.
