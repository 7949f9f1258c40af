---------------------------- MODULE ScheduleTick ----------------------------
(***************************************************************************)
(* What puts runs into the store: the tick loop of the sidecar and the     *)
(* handlers that fire, edit and delete schedules (schedule_service.py).    *)
(*                                                                         *)
(* All of them are coroutines of one event loop over one database          *)
(* connection.  A coroutine gives way at every await, so each statement    *)
(* with its commit is a step, and what a coroutine read before an await is *)
(* kept in tick or fire and may be stale when it is used.  A crash, or the *)
(* cancellation of the loop on shutdown, loses tick and fire and keeps the *)
(* rows.                                                                   *)
(*                                                                         *)
(* The runs that come out are those of ScheduleRuns.  Here the shell is    *)
(* only something that starts a queued run and later reports its end.      *)
(***************************************************************************)
EXTENDS ScheduleRuns, Integers, FiniteSets

CONSTANTS
    IntervalSchedule,  \* schedules of kind interval,
    CronSchedule,      \* of kind cron,
    EventSchedule,     \* and of kind event
    Client,            \* requests to fire that may be in progress at once
    Cadence,           \* values of interval_seconds, names of cron expressions
    NextOccurrence,    \* croniter: [Cadence -> [Time -> Nat]]
    Staleness,         \* _STALENESS_HOURS
    MaxTime,           \* bound on the clock
    MaxBoots,          \* bound on the starts of the sidecar
    None

Schedule == IntervalSchedule \cup CronSchedule \cup EventSchedule
Time     == 0..MaxTime

\* A cron expression names, for every time, an occurrence later than it.
ASSUME TickAssumption ==
    /\ IntervalSchedule \cap CronSchedule = {}
    /\ (IntervalSchedule \cup CronSchedule) \cap EventSchedule = {}
    /\ Cadence \subseteq Nat \ {0}
    /\ Staleness \in Nat
    /\ MaxTime \in Nat
    /\ MaxBoots \in Nat \ {0}
    /\ None \notin Schedule
    /\ NextOccurrence \in [Cadence -> [Time -> Nat]]
    /\ \A c \in Cadence, t \in Time : NextOccurrence[c][t] > t

VARIABLES
    row,      \* [Schedule -> row of schedules]
    of,       \* [Run -> Schedule \cup {None}], schedule_id
    clock,    \* the wall clock, _now()
    sidecar,  \* "up", "down"
    rows,     \* due rows as tick has read them, those it is not done with
    tick,     \* where the tick coroutine is, and its other locals
    fire,     \* [Client -> locals of fire_manual or dispatch_event]
    boots,    \* starts of the sidecar so far: names its present life
    due       \* [Run -> due slot and life], for rows the tick wrote

rowVars  == <<row, of, due>>
tickVars == <<rows, tick>>
flowVars == <<tickVars, fire>>
lifeVars == <<sidecar, boots>>
vars == <<storeVars, rowVars, flowVars, lifeVars, clock>>

Row == [state : {"absent", "present", "deleted"}, enabled : BOOLEAN,
        cadence : Cadence, next : Nat]

NoTick == [pc |-> "idle", now |-> 0, cur |-> None, next |-> 0,
           verdict |-> "queued"]
NoRows == [s \in {} |-> 0]
NoFire == [pc |-> "idle", of |-> None, cadence |-> 0, left |-> {}]
NoSlot == [at |-> 0, life |-> 0]

TypeOK ==
    /\ StoreTypeOK
    /\ row \in [Schedule -> Row]
    /\ of \in [Run -> Schedule \cup {None}]
    /\ due \in [Run -> [at : Nat, life : 0..MaxBoots]]
    /\ clock \in Time
    /\ sidecar \in {"up", "down"}
    /\ boots \in 0..MaxBoots
    /\ DOMAIN rows \subseteq IntervalSchedule \cup CronSchedule
    /\ rows \in [DOMAIN rows -> Row]
    /\ tick \in [pc : {"idle", "rows", "insert", "advance"}, now : Time,
                 cur : Schedule \cup {None}, next : Nat,
                 verdict : {"queued", "skipped", "missed"}]
    /\ fire \in [Client -> [pc : {"idle", "check", "insert", "update", "event"},
                            of : Schedule \cup {None},
                            cadence : Cadence \cup {0},
                            left : SUBSET EventSchedule]]

\* Before the first start of the sidecar there is nothing.
Init ==
    /\ StoreInit
    /\ \E cadence \in [Schedule -> Cadence] :
          row = [s \in Schedule |-> [state |-> "absent", enabled |-> TRUE,
                                     cadence |-> cadence[s], next |-> 0]]
    /\ of = [r \in Run |-> None]
    /\ due = [r \in Run |-> NoSlot]
    /\ clock = 0
    /\ sidecar = "down"
    /\ rows = NoRows
    /\ tick = NoTick
    /\ fire = [c \in Client |-> NoFire]
    /\ boots = 0

Present(s) == row[s].state = "present"

\* _has_running_run
HasRunningRun(s) == \E r \in Run : of[r] = s /\ status[r] \in Active

\* Mutant: a connection without PRAGMA foreign_keys.
InsertRunUnchecked(r, s, as) ==
    /\ InsertRun(r, as)
    /\ of' = [of EXCEPT ![r] = s]

\* The foreign key of schedule_runs: no row without its schedule.
InsertRunOf(r, s, as) ==
    /\ Present(s)
    /\ InsertRun(r, as)
    /\ of' = [of EXCEPT ![r] = s]

\* UPDATE schedules SET next_fire_at WHERE id = s: no row, no effect.
SetNext(s, at) ==
    row' = [row EXCEPT ![s].next = IF Present(s) THEN at ELSE @]
-----------------------------------------------------------------------------
(* The tick                                                                *)

\* Mutant: catches up to the last slot passed instead of the one after it.
IntervalNextFireLate(step, after, now) ==
    IF after + step > now THEN after + step
    ELSE after + step * ((now - after) \div step)

\* _interval_next_fire: one step on, or in whole steps to the first slot ahead.
\* The clamp to the minimum interval never acts: create and update refuse less.
IntervalNextFire(step, after, now) ==
    IF after + step > now THEN after + step
    ELSE after + step * (((now - after) \div step) + 1)

\* The fire after the row's slot, from the row as it was read.  Every kind is
\* computed from the clock of now or the clock the tick began with.
NextFire(s) ==
    LET old == rows[s]
    IN  IF s \in IntervalSchedule
        THEN IntervalNextFire(old.cadence, old.next, clock)
        ELSE NextOccurrence[old.cadence][tick.now]

\* Mutant: the slot of the very moment instead of every slot up to it.
DueRowsExact ==
    {s \in IntervalSchedule \cup CronSchedule :
        /\ Present(s)
        /\ row[s].enabled
        /\ row[s].next = clock}

\* The SELECT of the due rows.
DueRows ==
    {s \in IntervalSchedule \cup CronSchedule :
        /\ Present(s)
        /\ row[s].enabled
        /\ row[s].next <= clock}

\* tick reads the clock and all due rows at once.
TickBegins ==
    /\ sidecar = "up"
    /\ tick.pc = "idle"
    /\ DueRows # {}
    /\ rows' = [s \in DueRows |-> row[s]]
    /\ tick' = [NoTick EXCEPT !.pc = "rows", !.now = clock]
    /\ UNCHANGED <<storeVars, rowVars, fire, lifeVars, clock>>

Stale(slot) == tick.now - slot > Staleness

\* Mutant: the guard counts running rows and forgets queued ones.
VerdictIfNotRunning(s) ==
    IF Stale(rows[s].next) THEN "missed"
    ELSE IF \E r \in Run : of[r] = s /\ status[r] = "running" THEN "skipped"
    ELSE "queued"

\* A slot too old is missed; otherwise the overlap guard reads the runs.
Verdict(s) ==
    IF Stale(rows[s].next) THEN "missed"
    ELSE IF HasRunningRun(s) THEN "skipped"
    ELSE "queued"

\* The next row of the loop: its next fire is computed first, then the guards.
TickTakesRow(s) ==
    /\ tick.pc = "rows"
    /\ s \in DOMAIN rows
    /\ tick' = [tick EXCEPT !.pc = "insert", !.cur = s, !.next = NextFire(s),
                            !.verdict = Verdict(s)]
    /\ UNCHANGED <<storeVars, rowVars, rows, fire, lifeVars, clock>>

\* The loop goes on without the row it is done with.
TickLeavesRow ==
    LET left == DOMAIN rows \ {tick.cur}
    IN  /\ rows' = [s \in left |-> rows[s]]
        /\ tick' = IF left = {} THEN NoTick
                   ELSE [NoTick EXCEPT !.pc = "rows", !.now = tick.now]

\* The row of the slot, with what the guards decided.
TickInserts(r) ==
    /\ tick.pc = "insert"
    /\ InsertRunOf(r, tick.cur, tick.verdict)
    /\ due' = [due EXCEPT ![r] = [at |-> rows[tick.cur].next,
                                  life |-> boots]]
    /\ tick' = [tick EXCEPT !.pc = "advance"]
    /\ UNCHANGED <<row, rows, fire, lifeVars, clock>>

\* The schedule is gone: the insert raises, and the loop logs and goes on.
TickInsertFails ==
    /\ tick.pc = "insert"
    /\ ~Present(tick.cur)
    /\ TickLeavesRow
    /\ UNCHANGED <<storeVars, rowVars, fire, lifeVars, clock>>

\* Mutant: only a slot that was fired is advanced.
TickAdvancesIfFired ==
    /\ tick.pc = "advance"
    /\ IF tick.verdict = "queued" THEN SetNext(tick.cur, tick.next)
       ELSE UNCHANGED row
    /\ TickLeavesRow
    /\ UNCHANGED <<storeVars, of, due, fire, lifeVars, clock>>

\* The second transaction: next_fire_at as computed from the row read.
TickAdvances ==
    /\ tick.pc = "advance"
    /\ SetNext(tick.cur, tick.next)
    /\ TickLeavesRow
    /\ UNCHANGED <<storeVars, of, due, fire, lifeVars, clock>>
-----------------------------------------------------------------------------
(* Requests                                                                *)

\* fire_manual reads the schedule; 404 if there is none.
FireBegins(c, s) ==
    /\ sidecar = "up"
    /\ fire[c].pc = "idle"
    /\ Present(s)
    /\ fire' = [fire EXCEPT ![c] = [NoFire EXCEPT !.pc = "check", !.of = s,
                                                  !.cadence = row[s].cadence]]
    /\ UNCHANGED <<storeVars, rowVars, tickVars, lifeVars, clock>>

\* The overlap guard: 409 if a run is queued or running.
FireChecks(c) ==
    /\ fire[c].pc = "check"
    /\ fire' = [fire EXCEPT ![c] = IF HasRunningRun(@.of) THEN NoFire
                                   ELSE [@ EXCEPT !.pc = "insert"]]
    /\ UNCHANGED <<storeVars, rowVars, tickVars, lifeVars, clock>>

FireInserts(c, r) ==
    /\ fire[c].pc = "insert"
    /\ InsertRunOf(r, fire[c].of, "queued")
    /\ fire' = [fire EXCEPT ![c].pc = "update"]
    /\ UNCHANGED <<row, due, tickVars, lifeVars, clock>>

\* The schedule was deleted meanwhile: the insert raises.
FireInsertFails(c) ==
    /\ fire[c].pc = "insert"
    /\ ~Present(fire[c].of)
    /\ fire' = [fire EXCEPT ![c] = NoFire]
    /\ UNCHANGED <<storeVars, rowVars, tickVars, lifeVars, clock>>

\* "Run now" resets the countdown of an interval, with the interval it read.
FireUpdates(c) ==
    /\ fire[c].pc = "update"
    /\ IF fire[c].of \in IntervalSchedule
       THEN SetNext(fire[c].of, clock + fire[c].cadence)
       ELSE UNCHANGED row
    /\ fire' = [fire EXCEPT ![c] = NoFire]
    /\ UNCHANGED <<storeVars, of, due, tickVars, lifeVars, clock>>

\* dispatch_event reads the ids of the matching schedules, all those enabled.
EventBegins(c) ==
    LET ids == {s \in EventSchedule : Present(s) /\ row[s].enabled}
    IN  /\ sidecar = "up"
        /\ fire[c].pc = "idle"
        /\ ids # {}
        /\ fire' = [fire EXCEPT ![c] = [NoFire EXCEPT !.pc = "event",
                                                      !.left = ids]]
        /\ UNCHANGED <<storeVars, rowVars, tickVars, lifeVars, clock>>

\* One run per id and no overlap guard.
EventInserts(c, s, r) ==
    LET left == fire[c].left \ {s}
    IN  /\ fire[c].pc = "event"
        /\ s \in fire[c].left
        /\ InsertRunOf(r, s, "queued")
        /\ fire' = [fire EXCEPT ![c] = IF left = {} THEN NoFire
                                       ELSE [@ EXCEPT !.left = left]]
        /\ UNCHANGED <<row, due, tickVars, lifeVars, clock>>

\* One of the schedules was deleted meanwhile: the insert raises out of the
\* loop, and the ids that are left get no run.
EventInsertFails(c, s) ==
    /\ fire[c].pc = "event"
    /\ s \in fire[c].left
    /\ ~Present(s)
    /\ fire' = [fire EXCEPT ![c] = NoFire]
    /\ UNCHANGED <<storeVars, rowVars, tickVars, lifeVars, clock>>

\* Where the cadence of a schedule begins when it is created or edited now.
FirstFire(s, cadence) ==
    IF s \in IntervalSchedule THEN clock + cadence
    ELSE IF s \in CronSchedule THEN NextOccurrence[cadence][clock]
    ELSE 0

\* create_schedule; next_fire_at of an event schedule is NULL, here 0.  One
\* created disabled is one that is disabled at once.
Create(s) ==
    /\ sidecar = "up"
    /\ row[s].state = "absent"
    /\ row' = [row EXCEPT ![s] =
                  [@ EXCEPT !.state = "present",
                            !.next = FirstFire(s, row[s].cadence)]]
    /\ UNCHANGED <<storeVars, of, due, flowVars, lifeVars, clock>>

\* update_schedule with a new interval or cron expression.
EditCadence(s, cadence) ==
    /\ sidecar = "up"
    /\ Present(s)
    /\ s \notin EventSchedule
    /\ row' = [row EXCEPT ![s] = [@ EXCEPT !.cadence = cadence,
                                           !.next = FirstFire(s, cadence)]]
    /\ UNCHANGED <<storeVars, of, due, flowVars, lifeVars, clock>>

\* update_schedule with enabled: next_fire_at stays, however old it is.
SetEnabled(s, b) ==
    /\ sidecar = "up"
    /\ Present(s)
    /\ row' = [row EXCEPT ![s].enabled = b]
    /\ UNCHANGED <<storeVars, of, due, flowVars, lifeVars, clock>>

\* delete_schedule: ON DELETE CASCADE takes the runs along.
Delete(s) ==
    /\ sidecar = "up"
    /\ Present(s)
    /\ row' = [row EXCEPT ![s] = [@ EXCEPT !.state = "deleted", !.next = 0,
                                           !.enabled = TRUE]]
    /\ status' = [r \in Run |-> IF of[r] = s /\ Exists(r) THEN "deleted"
                                ELSE status[r]]
    /\ UNCHANGED <<session, toClose, of, due, flowVars, lifeVars, clock>>
-----------------------------------------------------------------------------
(* Runs, time and the life of the sidecar                                  *)

RunStarts(r) ==
    /\ sidecar = "up"
    /\ status[r] = "queued"
    /\ StartRun(r)
    /\ UNCHANGED <<rowVars, flowVars, lifeVars, clock>>

RunEnds(r) ==
    /\ sidecar = "up"
    /\ status[r] = "running"
    /\ FinishRun(r, "zero")
    /\ UNCHANGED <<rowVars, flowVars, lifeVars, clock>>

RunIsCancelled(r) ==
    /\ sidecar = "up"
    /\ CancelRun(r)
    /\ UNCHANGED <<rowVars, flowVars, lifeVars, clock>>

SessionIsClosed(r) ==
    /\ sidecar = "up"
    /\ CloseSession(r)
    /\ UNCHANGED <<rowVars, flowVars, lifeVars, clock>>

ClockAdvances ==
    /\ clock < MaxTime
    /\ clock' = clock + 1
    /\ UNCHANGED <<storeVars, rowVars, flowVars, lifeVars>>

\* The sidecar crashes, or shuts down and cancels what is in progress; the
\* bound leaves it another start.
SidecarEnds ==
    /\ sidecar = "up"
    /\ boots < MaxBoots
    /\ sidecar' = "down"
    /\ rows' = NoRows
    /\ tick' = NoTick
    /\ fire' = [c \in Client |-> NoFire]
    /\ toClose' = {}
    /\ UNCHANGED <<status, session, rowVars, boots, clock>>

\* The reaper runs before the tick loop and the requests, or fails and is
\* logged.
SidecarBoots ==
    /\ sidecar = "down"
    /\ sidecar' = "up"
    /\ boots' = boots + 1
    /\ ReapOrphanedRuns \/ UNCHANGED storeVars
    /\ UNCHANGED <<rowVars, flowVars, clock>>

TickStep ==
    \/ TickBegins
    \/ \E s \in Schedule : TickTakesRow(s)
    \/ \E r \in Run : TickInserts(r)
    \/ TickInsertFails
    \/ TickAdvances

FireStep(c) ==
    \/ \E s \in Schedule : FireBegins(c, s)
    \/ FireChecks(c)
    \/ \E r \in Run : FireInserts(c, r)
    \/ FireInsertFails(c)
    \/ FireUpdates(c)

EventStep(c) ==
    \/ EventBegins(c)
    \/ \E s \in Schedule, r \in Run : EventInserts(c, s, r)
    \/ \E s \in Schedule : EventInsertFails(c, s)

EditStep(s) ==
    \/ Create(s)
    \/ \E cadence \in Cadence : EditCadence(s, cadence)
    \/ \E b \in BOOLEAN : SetEnabled(s, b)
    \/ Delete(s)

RunStep(r) ==
    RunStarts(r) \/ RunEnds(r) \/ RunIsCancelled(r) \/ SessionIsClosed(r)

Next ==
    \/ TickStep
    \/ \E c \in Client : FireStep(c) \/ EventStep(c)
    \/ \E s \in Schedule : EditStep(s)
    \/ \E r \in Run : RunStep(r)
    \/ ClockAdvances
    \/ SidecarEnds
    \/ SidecarBoots

Spec == Init /\ [][Next]_vars

\* The loop ticks for as long as the sidecar is up, and the user starts the app
\* again.
FairSpec ==
    /\ Spec
    /\ WF_vars(TickStep)
    /\ WF_vars(SidecarBoots)
-----------------------------------------------------------------------------
(* Properties                                                              *)

\* Within one life of the sidecar a due slot gets one row, be it a run, a skip
\* or a miss: neither edits and manual fires in between nor the catch-up of
\* _interval_next_fire make tick return to a slot it has been through.
\* (Across a crash between its two transactions it does return.)
SlotHasOneRow ==
    \A q, r \in Run :
        /\ q # r
        /\ due[q].life > 0
        /\ due[q] = due[r]
        => of[q] # of[r]

\* The runs that tick itself fires never overlap: whatever cancels, ends and
\* restarts do in between, at most one of a schedule is queued or running.
TickRunsDoNotOverlap ==
    \A q, r \in Run :
        /\ q # r
        /\ due[q].life > 0 /\ due[r].life > 0
        /\ status[q] \in Active /\ status[r] \in Active
        => of[q] # of[r]

\* No run is left of a deleted schedule, also when it was deleted while tick
\* or a request was between its read and its insert.
NoRunWithoutSchedule ==
    \A r \in Run : Exists(r) => of[r] \in Schedule /\ Present(of[r])

\* tick looks ahead: the fire it computes for an interval is the first of the
\* slots a whole number of intervals after the one due that is in the future,
\* however long the app was closed.
NextIsFirstSlotAhead ==
    [][\A s \in IntervalSchedule :
        tick.pc = "rows" /\ tick'.pc = "insert" /\ tick'.cur = s =>
            LET old == rows[s]
            IN  /\ tick'.next > clock
                /\ (tick'.next - old.next) % old.cadence = 0
                /\ tick'.next - old.cadence \in {old.next} \cup 0..clock]_vars

\* A slot that is due does not stay due: tick gets past it, or somebody edits
\* or disables the schedule, across skips, misses, deletes and restarts.  Rows
\* are bounded here, so the store may be full.
DueSlotIsHandled ==
    \A s \in Schedule \ EventSchedule, at \in Time :
        LET waits == /\ Present(s) /\ row[s].enabled
                     /\ row[s].next = at /\ at <= clock
        IN  waits ~> ~waits \/ \A r \in Run : status[r] # "absent"

\* "Overlap guard even for manual fires": of a schedule that is not fired by
\* an event at most one run is queued or running.
NoOverlap ==
    \A q, r \in Run :
        /\ q # r
        /\ status[q] \in Active /\ status[r] \in Active
        /\ of[q] \notin EventSchedule
        => of[q] # of[r]
=============================================================================
