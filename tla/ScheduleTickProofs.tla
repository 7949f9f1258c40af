------------------------- MODULE ScheduleTickProofs -------------------------
(***************************************************************************)
(* Proofs about ScheduleTick, for any schedules, cadences and bounds.      *)
(***************************************************************************)
EXTENDS ScheduleTick, TLAPS

\* What \div leaves over is less than the divisor.
LEMMA DivBounds ==
    ASSUME NEW step \in Nat \ {0}, NEW d \in Nat
    PROVE  /\ d \div step \in Nat
           /\ step * (d \div step) =< d
           /\ d < step * ((d \div step) + 1)
OBVIOUS

\* A whole number of steps leaves nothing over.
LEMMA MultipleMod ==
    ASSUME NEW step \in Nat \ {0}, NEW k \in Nat
    PROVE  (step * k) % step = 0
OBVIOUS

\* _interval_next_fire returns the first slot of the grid that is ahead of
\* now, and a later one than the slot it started from.
LEMMA IntervalNextFireAhead ==
    ASSUME NEW step \in Nat \ {0}, NEW after \in Nat, NEW now \in Nat
    PROVE  LET next == IntervalNextFire(step, after, now)
           IN  /\ next \in Nat
               /\ next > after
               /\ next > now
               /\ (next - after) % step = 0
               /\ next - step \in {after} \cup 0..now
<1> DEFINE next == IntervalNextFire(step, after, now)
<1>1. CASE after + step > now
  <2>1. next = after + step
    BY <1>1 DEF IntervalNextFire
  <2>2. (step * 1) % step = 0
    BY MultipleMod
  <2>3. next - after = step * 1 /\ next - step = after
    BY <2>1
  <2> QED BY <1>1, <2>1, <2>2, <2>3
<1>2. CASE ~(after + step > now)
  <2> DEFINE d == now - after
             k == d \div step
  <2>1. d \in Nat
    BY <1>2
  <2>2. next = after + step * (k + 1)
    BY <1>2 DEF IntervalNextFire
  <2> HIDE DEF d, next
  <2>3. k \in Nat /\ step * k =< d /\ d < step * (k + 1)
    BY <2>1, DivBounds
  <2> HIDE DEF k
  <2>4. step * k \in Nat /\ step * (k + 1) = step * k + step
    BY <2>3
  <2>5. (step * (k + 1)) % step = 0
    BY <2>3, MultipleMod
  <2>6. next \in Nat /\ next > after /\ next > now
    BY <2>2, <2>3, <2>4 DEF d
  <2>7. next - after = step * (k + 1)
    BY <2>2, <2>4
  <2>8. next - step = after + step * k /\ after + step * k =< now
    BY <2>2, <2>3, <2>4 DEF d
  <2>9. next - step \in 0..now
    BY <2>4, <2>8
  <2> QED BY <2>5, <2>6, <2>7, <2>9 DEF next
<1> QED BY <1>1, <1>2

-----------------------------------------------------------------------------
(* Types                                                                   *)

\* TypeOK made inductive: a sidecar that is down has another start, a tick at
\* work is on a row it has read, and a manual fire carries the schedule and the
\* cadence it has read.
TypeInv ==
    /\ TypeOK
    /\ sidecar = "down" => boots < MaxBoots
    /\ tick.pc \in {"insert", "advance"} => tick.cur \in DOMAIN rows
    /\ \A c \in Client :
         /\ fire[c].pc \in {"check", "insert", "update"} =>
              fire[c].of \in Schedule /\ fire[c].cadence \in Cadence
         /\ fire[c].pc = "event" => fire[c].left # {}

\* The constants have the types the proofs rely on.
LEMMA ConstantTypes ==
    /\ Cadence \subseteq Nat \ {0}
    /\ Time \subseteq Nat
    /\ 0 \in Time
    /\ 0 \in 0..MaxBoots
    /\ \A s \in Schedule : s # None
    /\ \A c \in Cadence, t \in Time :
         NextOccurrence[c][t] \in Nat /\ NextOccurrence[c][t] > t
BY TickAssumption DEF TickAssumption, Time

\* The initial state satisfies the type invariant.
LEMMA TypeInvInit == Init => TypeInv
<1> SUFFICES ASSUME Init PROVE TypeInv
  OBVIOUS
<1>1. StoreTypeOK
  BY DEF Init, StoreInit, StoreTypeOK, RowStatus, SessionStatus
<1>2. row \in [Schedule -> Row]
  BY DEF Init, Row
<1>3. due \in [Run -> [at : Nat, life : 0..MaxBoots]]
  BY ConstantTypes DEF Init, NoSlot
<1>4. /\ tick \in [pc : {"idle", "rows", "insert", "advance"}, now : Time,
                   cur : Schedule \cup {None}, next : Nat,
                   verdict : {"queued", "skipped", "missed"}]
      /\ tick.pc = "idle"
  BY ConstantTypes DEF Init, NoTick
<1>5. rows \in [DOMAIN rows -> Row] /\ DOMAIN rows = {}
  BY DEF Init, NoRows
<1>6. /\ fire \in [Client -> [pc : {"idle", "check", "insert", "update", "event"},
                              of : Schedule \cup {None},
                              cadence : Cadence \cup {0},
                              left : SUBSET EventSchedule]]
      /\ \A c \in Client : fire[c].pc = "idle"
  BY DEF Init, NoFire
<1> QED
  BY <1>1, <1>2, <1>3, <1>4, <1>5, <1>6, ConstantTypes, TickAssumption
     DEF Init, TypeInv, TypeOK, TickAssumption

\* Every handler of the store used here keeps the types of its variables.
LEMMA StoreTypePreserved ==
    ASSUME StoreTypeOK, NEW r \in Run, NEW as \in {"queued", "skipped", "missed"},
           \/ InsertRun(r, as) \/ StartRun(r) \/ FinishRun(r, "zero")
           \/ CancelRun(r) \/ CloseSession(r) \/ ReapOrphanedRuns
    PROVE  StoreTypeOK'
<1> USE DEF StoreTypeOK, RowStatus, SessionStatus, Active, Terminal, Inert
<1>1. CASE InsertRun(r, as)
  BY <1>1 DEF InsertRun
<1>2. CASE StartRun(r)
  BY <1>2 DEF StartRun
<1>3. CASE FinishRun(r, "zero")
  BY <1>3 DEF FinishRun
<1>4. CASE CancelRun(r)
  BY <1>4 DEF CancelRun
<1>5. CASE CloseSession(r)
  BY <1>5 DEF CloseSession
<1>6. CASE ReapOrphanedRuns
  BY <1>6 DEF ReapOrphanedRuns, OpenSessions
<1> QED BY <1>1, <1>2, <1>3, <1>4, <1>5, <1>6

\* What tick computes for a row is a time after the row's slot, if that was
\* due, and for an interval the first slot ahead of the clock.
LEMMA NextFireLater ==
    ASSUME TypeInv, NEW s \in DOMAIN rows
    PROVE  /\ NextFire(s) \in Nat
           /\ rows[s].next =< tick.now => NextFire(s) > rows[s].next
<1> USE DEF TypeInv, TypeOK
<1>1. s \in Schedule /\ rows[s] \in Row
  BY DEF Schedule
<1>2. /\ rows[s].cadence \in Cadence /\ rows[s].next \in Nat
      /\ clock \in Time /\ tick.now \in Time
  BY <1>1 DEF Row
<1>3. CASE s \in IntervalSchedule
  <2>1. NextFire(s) = IntervalNextFire(rows[s].cadence, rows[s].next, clock)
    BY <1>3 DEF NextFire
  <2> QED BY <1>2, <2>1, ConstantTypes, IntervalNextFireAhead
<1>4. CASE s \notin IntervalSchedule
  <2>1. NextFire(s) = NextOccurrence[rows[s].cadence][tick.now]
    BY <1>4 DEF NextFire
  <2> QED BY <1>2, <2>1, ConstantTypes
<1> QED BY <1>3, <1>4

\* An insert or a new next_fire_at keeps the types of what it writes.
LEMMA WriteTypes ==
    ASSUME TypeInv
    PROVE  /\ \A r \in Run, s \in Schedule, as \in {"queued", "skipped", "missed"} :
                InsertRunOf(r, s, as) =>
                    StoreTypeOK' /\ of' \in [Run -> Schedule \cup {None}]
           /\ \A s \in Schedule, at \in Nat : SetNext(s, at) =>
                    row' \in [Schedule -> Row]
<1> USE DEF TypeInv, TypeOK
<1>1. ASSUME NEW r \in Run, NEW s \in Schedule,
             NEW as \in {"queued", "skipped", "missed"}, InsertRunOf(r, s, as)
      PROVE  StoreTypeOK' /\ of' \in [Run -> Schedule \cup {None}]
  BY <1>1, StoreTypePreserved DEF InsertRunOf
<1>2. ASSUME NEW s \in Schedule, NEW at \in Nat, SetNext(s, at)
      PROVE  row' \in [Schedule -> Row]
  BY <1>2 DEF SetNext, Row
<1> QED BY <1>1, <1>2

\* Leaving a row keeps the types of the tick.
LEMMA LeaveTypes ==
    ASSUME TypeInv, tick.pc # "idle", TickLeavesRow
    PROVE  /\ DOMAIN rows' = DOMAIN rows \ {tick.cur}
           /\ \A s \in DOMAIN rows' : rows'[s] = rows[s]
           /\ rows' \in [DOMAIN rows' -> Row]
           /\ tick' \in [pc : {"idle", "rows", "insert", "advance"}, now : Time,
                         cur : Schedule \cup {None}, next : Nat,
                         verdict : {"queued", "skipped", "missed"}]
           /\ tick'.pc \in {"idle", "rows"}
           /\ tick'.pc = "rows" => tick'.now = tick.now
           /\ tick'.pc = "idle" => DOMAIN rows' = {}
<1> USE DEF TypeInv, TypeOK
<1>1. rows' = [s \in DOMAIN rows \ {tick.cur} |-> rows[s]]
  BY DEF TickLeavesRow
<1>2. rows \in [DOMAIN rows -> Row]
  OBVIOUS
<1>3. tick' = IF DOMAIN rows \ {tick.cur} = {} THEN NoTick
              ELSE [NoTick EXCEPT !.pc = "rows", !.now = tick.now]
  BY DEF TickLeavesRow
<1>4. tick' = NoTick \/ tick' = [pc |-> "rows", now |-> tick.now, cur |-> None,
                                next |-> 0, verdict |-> "queued"]
  BY <1>3 DEF NoTick
<1>5. tick.now \in Time
  OBVIOUS
<1>6. /\ tick' \in [pc : {"idle", "rows", "insert", "advance"}, now : Time,
                    cur : Schedule \cup {None}, next : Nat,
                    verdict : {"queued", "skipped", "missed"}]
      /\ tick'.pc \in {"idle", "rows"}
      /\ tick'.pc = "rows" => tick'.now = tick.now
  BY <1>4, <1>5, ConstantTypes DEF NoTick
<1>7. tick'.pc = "idle" => DOMAIN rows \ {tick.cur} = {}
  BY <1>3 DEF NoTick
<1> HIDE DEF TypeInv
<1> QED BY <1>1, <1>2, <1>6, <1>7

\* Every step of the tick keeps the types.
LEMMA TypeInvTick == TypeInv /\ TickStep => TypeInv'
<1> SUFFICES ASSUME TypeInv, TickStep PROVE TypeInv'
  OBVIOUS
<1> USE DEF TypeInv, TypeOK, storeVars, rowVars, lifeVars, StoreTypeOK
<1>1. CASE TickBegins
  <2>1. DueRows \subseteq IntervalSchedule \cup CronSchedule
    BY DEF DueRows
  <2>2. rows' = [s \in DueRows |-> row[s]]
    BY <1>1 DEF TickBegins
  <2>3. /\ DOMAIN rows' \subseteq IntervalSchedule \cup CronSchedule
        /\ rows' \in [DOMAIN rows' -> Row]
    BY <2>1, <2>2 DEF Schedule
  <2>4. tick' = [pc |-> "rows", now |-> clock, cur |-> None, next |-> 0,
                 verdict |-> "queued"]
    BY <1>1 DEF TickBegins, NoTick
  <2> QED BY <1>1, <2>3, <2>4 DEF TickBegins
<1>2. ASSUME NEW s \in Schedule, TickTakesRow(s) PROVE TypeInv'
  <2>1. NextFire(s) \in Nat
    BY <1>2, NextFireLater DEF TickTakesRow
  <2>2. Verdict(s) \in {"queued", "skipped", "missed"}
    BY DEF Verdict
  <2> QED BY <1>2, <2>1, <2>2 DEF TickTakesRow
<1>3. ASSUME NEW r \in Run, TickInserts(r) PROVE TypeInv'
  <2>1. tick.cur \in DOMAIN rows /\ tick.cur \in Schedule
    BY <1>3 DEF TickInserts, Schedule
  <2>2. StoreTypeOK' /\ of' \in [Run -> Schedule \cup {None}]
    BY <1>3, <2>1, WriteTypes DEF TickInserts
  <2>3. rows[tick.cur].next \in Nat
    BY <2>1 DEF Row
  <2> QED BY <1>3, <2>1, <2>2, <2>3 DEF TickInserts
<1>4. CASE TickInsertFails
  BY <1>4, LeaveTypes DEF TickInsertFails
<1>5. CASE TickAdvances
  <2>1. tick.cur \in Schedule /\ tick.next \in Nat
    BY <1>5 DEF TickAdvances, Schedule
  <2>2. row' \in [Schedule -> Row]
    BY <1>5, <2>1, WriteTypes DEF TickAdvances
  <2> QED BY <1>5, <2>2, LeaveTypes DEF TickAdvances
<1> QED BY <1>1, <1>2, <1>3, <1>4, <1>5 DEF TickStep

\* Every step of a request keeps them.
LEMMA TypeInvRequest ==
    ASSUME TypeInv, NEW c \in Client, FireStep(c) \/ EventStep(c)
    PROVE  TypeInv'
<1> USE DEF TypeInv, TypeOK, storeVars, rowVars, tickVars, lifeVars, StoreTypeOK
<1>1. ASSUME NEW s \in Schedule, FireBegins(c, s) PROVE TypeInv'
  <2>1. row[s].cadence \in Cadence
    BY DEF Row
  <2> QED BY <1>1, <2>1 DEF FireBegins, NoFire
<1>2. CASE FireChecks(c)
  BY <1>2 DEF FireChecks, NoFire
<1>3. ASSUME NEW r \in Run, FireInserts(c, r) PROVE TypeInv'
  <2>1. StoreTypeOK' /\ of' \in [Run -> Schedule \cup {None}]
    BY <1>3, WriteTypes DEF FireInserts
  <2> QED BY <1>3, <2>1 DEF FireInserts
<1>4. CASE FireInsertFails(c)
  BY <1>4 DEF FireInsertFails, NoFire
<1>5. CASE FireUpdates(c)
  <2>1. clock + fire[c].cadence \in Nat
    BY <1>5, ConstantTypes DEF FireUpdates
  <2>2. row' \in [Schedule -> Row]
    BY <1>5, <2>1, WriteTypes DEF FireUpdates
  <2> QED BY <1>5, <2>2 DEF FireUpdates, NoFire
<1>6. CASE EventBegins(c)
  BY <1>6 DEF EventBegins, NoFire
<1>7. ASSUME NEW s \in Schedule, NEW r \in Run, EventInserts(c, s, r)
      PROVE  TypeInv'
  <2>1. StoreTypeOK' /\ of' \in [Run -> Schedule \cup {None}]
    BY <1>7, WriteTypes DEF EventInserts
  <2> QED BY <1>7, <2>1 DEF EventInserts, NoFire
<1>8. ASSUME NEW s \in Schedule, EventInsertFails(c, s) PROVE TypeInv'
  BY <1>8 DEF EventInsertFails, NoFire
<1> QED
  BY <1>1, <1>2, <1>3, <1>4, <1>5, <1>6, <1>7, <1>8 DEF FireStep, EventStep

\* A row stays a row when its fields get values of their types.
LEMMA RowFields ==
    ASSUME NEW x \in Row
    PROVE  /\ \A st \in {"present", "deleted"}, at \in Nat :
                [x EXCEPT !.state = st, !.next = at] \in Row
           /\ \A at \in Nat :
                [x EXCEPT !.state = "deleted", !.next = at, !.enabled = TRUE] \in Row
           /\ \A cadence \in Cadence, at \in Nat :
                [x EXCEPT !.cadence = cadence, !.next = at] \in Row
           /\ \A b \in BOOLEAN : [x EXCEPT !.enabled = b] \in Row
BY DEF Row

\* So does every edit of a schedule.
LEMMA TypeInvEdit ==
    ASSUME TypeInv, NEW s \in Schedule, EditStep(s)
    PROVE  TypeInv'
<1> USE DEF TypeInv, TypeOK, storeVars, rowVars, flowVars, tickVars, lifeVars,
            StoreTypeOK
<1>1. ASSUME NEW cadence \in Cadence PROVE FirstFire(s, cadence) \in Nat
  BY ConstantTypes DEF FirstFire
<1>2. CASE Create(s)
  <2>1. FirstFire(s, row[s].cadence) \in Nat
    BY <1>1 DEF Row
  <2>2. row' \in [Schedule -> Row]
    BY <1>2, <2>1, RowFields DEF Create
  <2> QED BY <1>2, <2>2 DEF Create
<1>3. ASSUME NEW cadence \in Cadence, EditCadence(s, cadence) PROVE TypeInv'
  <2>1. row' \in [Schedule -> Row]
    BY <1>1, <1>3, RowFields DEF EditCadence
  <2> QED BY <1>3, <2>1 DEF EditCadence
<1>4. ASSUME NEW b \in BOOLEAN, SetEnabled(s, b) PROVE TypeInv'
  <2>1. row' \in [Schedule -> Row]
    BY <1>4, RowFields DEF SetEnabled
  <2> QED BY <1>4, <2>1 DEF SetEnabled
<1>5. CASE Delete(s)
  <2>1. row' \in [Schedule -> Row]
    BY <1>5, RowFields DEF Delete
  <2>2. StoreTypeOK'
    BY <1>5 DEF Delete, RowStatus
  <2> QED BY <1>5, <2>1, <2>2 DEF Delete
<1> QED BY <1>2, <1>3, <1>4, <1>5 DEF EditStep

\* Every step keeps the type invariant.
LEMMA TypeInvStep == TypeInv /\ [Next]_vars => TypeInv'
<1> SUFFICES ASSUME TypeInv, [Next]_vars PROVE TypeInv'
  OBVIOUS
<1> USE DEF TypeInv, TypeOK, storeVars, rowVars, flowVars, tickVars, lifeVars
<1>1. ASSUME NEW r \in Run, RunStep(r) PROVE TypeInv'
  <2>1. StoreTypeOK'
    BY <1>1, StoreTypePreserved
       DEF RunStep, RunStarts, RunEnds, RunIsCancelled, SessionIsClosed
  <2> QED
    BY <1>1, <2>1
       DEF RunStep, RunStarts, RunEnds, RunIsCancelled, SessionIsClosed
<1>2. CASE ClockAdvances
  <2>1. clock' \in Time
    BY <1>2, TickAssumption DEF ClockAdvances, Time, TickAssumption
  <2> QED BY <1>2, <2>1 DEF ClockAdvances, StoreTypeOK
<1>3. CASE SidecarEnds
  <2>1. rows' \in [DOMAIN rows' -> Row] /\ DOMAIN rows' = {}
    BY <1>3 DEF SidecarEnds, NoRows
  <2>2. /\ tick' \in [pc : {"idle", "rows", "insert", "advance"}, now : Time,
                      cur : Schedule \cup {None}, next : Nat,
                      verdict : {"queued", "skipped", "missed"}]
        /\ tick'.pc = "idle"
    BY <1>3, ConstantTypes DEF SidecarEnds, NoTick
  <2> QED BY <1>3, <2>1, <2>2 DEF SidecarEnds, StoreTypeOK, NoFire
<1>4. CASE SidecarBoots
  <2>1. StoreTypeOK'
    BY <1>4 DEF SidecarBoots, ReapOrphanedRuns, OpenSessions, StoreTypeOK,
                RowStatus, Terminal
  <2>2. boots' \in 0..MaxBoots
    BY <1>4, TickAssumption DEF SidecarBoots, TickAssumption
  <2> QED BY <1>4, <2>1, <2>2 DEF SidecarBoots
<1>5. CASE UNCHANGED vars
  BY <1>5 DEF vars, StoreTypeOK
<1> HIDE DEF TypeInv
<1> QED
  BY <1>1, <1>2, <1>3, <1>4, <1>5, TypeInvTick, TypeInvRequest, TypeInvEdit
     DEF Next

\* The type invariant holds in every state.
LEMMA TypeInvariant == Spec => []TypeInv
<1> QED BY TypeInvInit, TypeInvStep, PTL DEF Spec

\* The rows, the tick and the requests stay well typed.
THEOREM TypeCorrect == Spec => []TypeOK
<1>1. TypeInv => TypeOK
  BY DEF TypeInv
<1> QED BY <1>1, TypeInvariant, PTL

-----------------------------------------------------------------------------
(* Runs and their schedules                                                *)

\* No step but those that insert a row changes of or due, and no row becomes
\* active but by an insert.
LEMMA OtherSteps ==
    ASSUME TypeInv, [Next]_vars,
           ~ \E r \in Run : TickInserts(r),
           ~ \E c \in Client, r \in Run : FireInserts(c, r),
           ~ \E c \in Client, s \in Schedule, r \in Run : EventInserts(c, s, r)
    PROVE  /\ UNCHANGED <<of, due>>
           /\ \A r \in Run : status'[r] \in Active => status[r] \in Active
           /\ \A r \in Run : Exists(r)' => Exists(r)
           /\ \A r \in Run : status[r] # "absent" => status'[r] # "absent"
<1> USE DEF TypeInv, TypeOK, StoreTypeOK, storeVars, rowVars, flowVars, tickVars,
            lifeVars, Exists, Active
<1>1. CASE TickStep
  BY <1>1 DEF TickStep, TickBegins, TickTakesRow, TickInsertFails, TickAdvances
<1>2. ASSUME NEW c \in Client, FireStep(c) \/ EventStep(c)
      PROVE  UNCHANGED <<of, due, status>>
  BY <1>2 DEF FireStep, EventStep, FireBegins, FireChecks, FireInsertFails,
              FireUpdates, EventBegins, EventInsertFails
<1>3. ASSUME NEW s \in Schedule, EditStep(s)
      PROVE  /\ UNCHANGED <<of, due>>
             /\ \A r \in Run : status'[r] \in {status[r], "deleted"}
             /\ \A r \in Run : ~Exists(r) => status'[r] = status[r]
  BY <1>3 DEF EditStep, Create, EditCadence, SetEnabled, Delete
<1>4. ASSUME NEW r \in Run, RunStep(r)
      PROVE  /\ UNCHANGED <<of, due>>
             /\ \A q \in Run : status'[q] \in Active => status[q] \in Active
             /\ \A q \in Run : Exists(q)' <=> Exists(q)
             /\ \A q \in Run : status[q] # "absent" => status'[q] # "absent"
  BY <1>4 DEF RunStep, RunStarts, RunEnds, RunIsCancelled, SessionIsClosed,
              StartRun, FinishRun, CancelRun, CloseSession
<1>5. CASE ClockAdvances \/ SidecarEnds \/ UNCHANGED vars
  BY <1>5 DEF ClockAdvances, SidecarEnds, vars
<1>6. CASE SidecarBoots
  BY <1>6 DEF SidecarBoots, ReapOrphanedRuns
<1> HIDE DEF TypeInv
<1> QED BY <1>1, <1>2, <1>3, <1>4, <1>5, <1>6 DEF Next

\* What an insert does to the runs, whoever makes it.
LEMMA InsertEffect ==
    ASSUME TypeInv, NEW r \in Run, NEW s \in Schedule,
           NEW as \in {"queued", "skipped", "missed"}, InsertRunOf(r, s, as)
    PROVE  /\ Present(s)
           /\ status[r] = "absent" /\ status'[r] = as /\ of'[r] = s
           /\ \A q \in Run \ {r} : status'[q] = status[q] /\ of'[q] = of[q]
BY DEF TypeInv, TypeOK, StoreTypeOK, InsertRunOf, InsertRun

\* Every insert is one of a present schedule; all but the tick's leave due
\* and the tick alone.
LEMMA InsertSteps ==
    ASSUME TypeInv
    PROVE  /\ \A r \in Run : TickInserts(r) =>
                /\ tick.cur \in Schedule
                /\ tick.verdict \in {"queued", "skipped", "missed"}
                /\ InsertRunOf(r, tick.cur, tick.verdict)
                /\ UNCHANGED <<row, clock, sidecar, boots>>
           /\ \A c \in Client, r \in Run : FireInserts(c, r) =>
                /\ fire[c].of \in Schedule
                /\ InsertRunOf(r, fire[c].of, "queued")
                /\ UNCHANGED <<row, due, rows, tick, clock, sidecar, boots>>
           /\ \A c \in Client, s \in Schedule, r \in Run :
                EventInserts(c, s, r) =>
                /\ InsertRunOf(r, s, "queued")
                /\ UNCHANGED <<row, due, rows, tick, clock, sidecar, boots>>
BY DEF TypeInv, TypeOK, TickInserts, FireInserts, EventInserts, Schedule,
       tickVars, lifeVars

\* A schedule that was there is there unless this step deletes it, and then
\* its runs go with it.
LEMMA PresentOrDeleted ==
    ASSUME TypeInv, [Next]_vars, NEW s \in Schedule, Present(s), ~Present(s)'
    PROVE  \A r \in Run : of[r] = s => ~Exists(r)'
<1> USE DEF TypeInv, TypeOK, StoreTypeOK, storeVars, rowVars, flowVars, tickVars,
            lifeVars, Present
<1>1. ASSUME row' = row PROVE FALSE
  BY <1>1
<1>2. ASSUME NEW z \in Schedule, NEW at, SetNext(z, at) PROVE FALSE
  <2>1. row'[s].state = row[s].state
    BY <1>2 DEF SetNext, Row
  <2> QED BY <2>1
<1>3. CASE TickStep
  <2>1. CASE TickAdvances
    <3>1. tick.cur \in Schedule
      BY <2>1 DEF TickAdvances, Schedule
    <3> QED BY <1>2, <2>1, <3>1 DEF TickAdvances
  <2> QED
    BY <1>1, <1>3, <2>1 DEF TickStep, TickBegins, TickTakesRow, TickInserts,
                            TickInsertFails
<1>4. ASSUME NEW c \in Client, FireStep(c) \/ EventStep(c) PROVE FALSE
  <2>1. ASSUME FireUpdates(c) PROVE FALSE
    BY <1>1, <1>2, <2>1 DEF FireUpdates
  <2> QED
    BY <1>1, <1>4, <2>1 DEF FireStep, EventStep, FireBegins, FireChecks,
         FireInserts, FireInsertFails, EventBegins, EventInserts,
         EventInsertFails
<1>5. ASSUME NEW z \in Schedule, EditStep(z)
      PROVE  \A r \in Run : of[r] = s => ~Exists(r)'
  <2>1. ASSUME Create(z) PROVE FALSE
    BY <2>1 DEF Create, Row
  <2>2. ASSUME NEW k \in Cadence, EditCadence(z, k) PROVE FALSE
    BY <2>2 DEF EditCadence, Row
  <2>3. ASSUME NEW b \in BOOLEAN, SetEnabled(z, b) PROVE FALSE
    BY <2>3 DEF SetEnabled, Row
  <2>4. CASE Delete(z)
    <3>1. z = s
      BY <2>4 DEF Delete
    <3> QED BY <2>4, <3>1 DEF Delete, Exists
  <2> QED BY <1>5, <2>1, <2>2, <2>3, <2>4 DEF EditStep
<1>6. ASSUME NEW r \in Run, RunStep(r) PROVE FALSE
  BY <1>1, <1>6
     DEF RunStep, RunStarts, RunEnds, RunIsCancelled, SessionIsClosed
<1>7. CASE ClockAdvances \/ SidecarEnds \/ SidecarBoots \/ UNCHANGED vars
  BY <1>1, <1>7 DEF ClockAdvances, SidecarEnds, SidecarBoots, vars
<1> HIDE DEF TypeInv
<1> QED BY <1>3, <1>4, <1>5, <1>6, <1>7 DEF Next

\* No run outlives its schedule, also when the schedule is deleted between
\* the read and the insert of a tick or a request.
THEOREM NoOrphanRuns == Spec => []NoRunWithoutSchedule
<1>1. Init => NoRunWithoutSchedule
  BY DEF Init, StoreInit, NoRunWithoutSchedule, Exists
<1>2. TypeInv /\ NoRunWithoutSchedule /\ [Next]_vars => NoRunWithoutSchedule'
  <2> SUFFICES ASSUME TypeInv, NoRunWithoutSchedule, [Next]_vars,
                      NEW r \in Run, status'[r] \notin {"absent", "deleted"}
               PROVE  of'[r] \in Schedule /\ row'[of'[r]].state = "present"
    BY DEF NoRunWithoutSchedule, Present, Exists
  <2>1. ASSUME NEW q \in Run, NEW s \in Schedule,
               NEW as \in {"queued", "skipped", "missed"},
               InsertRunOf(q, s, as), UNCHANGED row
        PROVE  of'[r] \in Schedule /\ row'[of'[r]].state = "present"
    <3>1. CASE r = q
      <4>1. of'[q] = s /\ Present(s)
        BY <2>1, InsertEffect
      <4> QED BY <2>1, <3>1, <4>1 DEF Present
    <3>2. CASE r # q
      <4>1. status'[r] = status[r] /\ of'[r] = of[r]
        BY <2>1, <3>2, InsertEffect
      <4> QED BY <2>1, <4>1 DEF NoRunWithoutSchedule, Exists, Present
    <3> QED BY <3>1, <3>2
  <2>2. CASE \E q \in Run : TickInserts(q)
    BY <2>1, <2>2, InsertSteps
  <2>3. CASE \E c \in Client, q \in Run : FireInserts(c, q)
    BY <2>1, <2>3, InsertSteps
  <2>4. CASE \E c \in Client, s \in Schedule, q \in Run : EventInserts(c, s, q)
    BY <2>1, <2>4, InsertSteps
  <2>5. CASE /\ ~ \E q \in Run : TickInserts(q)
             /\ ~ \E c \in Client, q \in Run : FireInserts(c, q)
             /\ ~ \E c \in Client, s \in Schedule, q \in Run :
                    EventInserts(c, s, q)
    <3>1. Exists(r) /\ of'[r] = of[r]
      BY <2>5, OtherSteps DEF Exists
    <3>2. of[r] \in Schedule /\ Present(of[r])
      BY <3>1 DEF NoRunWithoutSchedule
    <3> QED BY <3>1, <3>2, PresentOrDeleted DEF Present, Exists
  <2> QED BY <2>2, <2>3, <2>4, <2>5
<1> QED BY <1>1, <1>2, TypeInvariant, PTL DEF Spec

-----------------------------------------------------------------------------
(* Overlap                                                                 *)

\* What the guard saw is still so when the tick inserts, of its own runs: a
\* request may queue a run meanwhile, but not one that due knows.
OverlapInv ==
    /\ TickRunsDoNotOverlap
    /\ \A r \in Run : status[r] = "absent" => due[r].life = 0
    /\ tick.pc = "insert" /\ tick.verdict = "queued" =>
         \A r \in Run : due[r].life > 0 /\ of[r] = tick.cur =>
            status[r] \notin Active

\* A tick that is about to insert was so before, with the same row, or has
\* just evaluated its guard.
LEMMA ReachesInsert ==
    ASSUME TypeInv, [Next]_vars, tick'.pc = "insert"
    PROVE  \/ tick' = tick
           \/ \E s \in Schedule : TickTakesRow(s)
<1> USE DEF TypeInv, TypeOK, storeVars, rowVars, flowVars, tickVars, lifeVars
<1>1. CASE TickStep
  <2>1. ASSUME NEW r \in Run, TickInserts(r) PROVE FALSE
    BY <2>1 DEF TickInserts
  <2>2. CASE TickBegins
    BY <2>2 DEF TickBegins, NoTick
  <2>3. ASSUME TickInsertFails \/ TickAdvances PROVE FALSE
    BY <2>3, LeaveTypes DEF TickInsertFails, TickAdvances
  <2> QED BY <1>1, <2>1, <2>2, <2>3 DEF TickStep
<1>2. ASSUME NEW c \in Client, FireStep(c) \/ EventStep(c) PROVE tick' = tick
  BY <1>2 DEF FireStep, EventStep, FireBegins, FireChecks, FireInserts,
              FireInsertFails, FireUpdates, EventBegins, EventInserts,
              EventInsertFails
<1>3. ASSUME NEW s \in Schedule, EditStep(s) PROVE tick' = tick
  BY <1>3 DEF EditStep, Create, EditCadence, SetEnabled, Delete
<1>4. ASSUME NEW r \in Run, RunStep(r) PROVE tick' = tick
  BY <1>4 DEF RunStep, RunStarts, RunEnds, RunIsCancelled, SessionIsClosed
<1>5. CASE ClockAdvances \/ SidecarBoots \/ UNCHANGED vars
  BY <1>5 DEF ClockAdvances, SidecarBoots, vars
<1>6. CASE SidecarEnds
  BY <1>6 DEF SidecarEnds, NoTick
<1> HIDE DEF TypeInv
<1> QED BY <1>1, <1>2, <1>3, <1>4, <1>5, <1>6 DEF Next

\* Every step keeps OverlapInv.
LEMMA OverlapStep == TypeInv /\ OverlapInv /\ [Next]_vars => OverlapInv'
<1> SUFFICES ASSUME TypeInv, OverlapInv, [Next]_vars PROVE OverlapInv'
  OBVIOUS
<1>1. ASSUME NEW r \in Run, TickInserts(r) PROVE OverlapInv'
  <2>1. /\ tick.cur \in Schedule
        /\ InsertRunOf(r, tick.cur, tick.verdict)
        /\ tick.verdict \in {"queued", "skipped", "missed"}
    BY <1>1, InsertSteps
  <2>2. /\ status[r] = "absent" /\ status'[r] = tick.verdict
        /\ of'[r] = tick.cur
        /\ \A q \in Run \ {r} : status'[q] = status[q] /\ of'[q] = of[q]
    BY <2>1, InsertEffect
  <2>3. \A q \in Run \ {r} : due'[q] = due[q]
    BY <1>1 DEF TypeInv, TypeOK, TickInserts
  <2>4. tick.pc = "insert" /\ tick'.pc = "advance"
    BY <1>1 DEF TypeInv, TypeOK, TickInserts
  <2>5. status'[r] \in Active => tick.verdict = "queued"
    BY <2>1, <2>2 DEF Active
  <2>6. \A q \in Run \ {r} : due'[q].life > 0 /\ status'[q] \in Active
                               /\ status'[r] \in Active => of'[q] # of'[r]
    BY <2>2, <2>3, <2>4, <2>5 DEF OverlapInv
  <2>7. TickRunsDoNotOverlap'
    BY <2>2, <2>3, <2>6 DEF OverlapInv, TickRunsDoNotOverlap
  <2>8. \A q \in Run : status'[q] = "absent" => due'[q].life = 0
    BY <2>1, <2>2, <2>3 DEF OverlapInv
  <2> QED BY <2>4, <2>7, <2>8 DEF OverlapInv
<1>2. ASSUME NEW r \in Run, NEW s \in Schedule, InsertRunOf(r, s, "queued"),
             UNCHANGED <<due, tick>>
      PROVE  OverlapInv'
  <2>1. /\ status[r] = "absent" /\ status'[r] = "queued"
        /\ \A q \in Run \ {r} : status'[q] = status[q] /\ of'[q] = of[q]
    BY <1>2, InsertEffect
  <2>2. due'[r].life = 0
    BY <1>2, <2>1 DEF OverlapInv
  <2> QED BY <1>2, <2>1, <2>2 DEF OverlapInv, TickRunsDoNotOverlap
<1>3. CASE /\ ~ \E q \in Run : TickInserts(q)
           /\ ~ \E c \in Client, q \in Run : FireInserts(c, q)
           /\ ~ \E c \in Client, s \in Schedule, q \in Run :
                  EventInserts(c, s, q)
  <2>1. /\ UNCHANGED <<of, due>>
        /\ \A r \in Run : status'[r] \in Active => status[r] \in Active
        /\ \A r \in Run : status[r] # "absent" => status'[r] # "absent"
    BY <1>3, OtherSteps
  <2>2. TickRunsDoNotOverlap'
    BY <2>1 DEF OverlapInv, TickRunsDoNotOverlap
  <2>3. \A r \in Run : status'[r] = "absent" => due'[r].life = 0
    BY <2>1 DEF OverlapInv
  <2>4. ASSUME tick'.pc = "insert", tick'.verdict = "queued"
        PROVE  \A r \in Run : due'[r].life > 0 /\ of'[r] = tick'.cur =>
                  status'[r] \notin Active
    <3>1. CASE tick' = tick
      BY <2>1, <2>4, <3>1 DEF OverlapInv
    <3>2. ASSUME NEW s \in Schedule, TickTakesRow(s)
          PROVE  \A r \in Run : of'[r] = tick'.cur => status'[r] \notin Active
      <4>1. tick'.cur = s /\ tick'.verdict = Verdict(s)
        BY <3>2 DEF TypeInv, TypeOK, TickTakesRow
      <4>2. ~HasRunningRun(s)
        BY <2>4, <4>1 DEF Verdict
      <4> QED BY <2>1, <4>1, <4>2 DEF HasRunningRun
    <3> QED BY <2>4, <3>1, <3>2, ReachesInsert
  <2> QED BY <2>2, <2>3, <2>4 DEF OverlapInv
<1>4. CASE \/ \E c \in Client, q \in Run : FireInserts(c, q)
           \/ \E c \in Client, s \in Schedule, q \in Run : EventInserts(c, s, q)
  BY <1>2, <1>4, InsertSteps
<1> QED BY <1>1, <1>3, <1>4

\* The overlap guard keeps the runs of the tick apart.
THEOREM TickRunsNeverOverlap == Spec => []TickRunsDoNotOverlap
<1>1. Init => OverlapInv
  BY DEF Init, StoreInit, OverlapInv, TickRunsDoNotOverlap, Active, NoSlot, NoTick
<1>2. OverlapInv => TickRunsDoNotOverlap
  BY DEF OverlapInv
<1> QED BY <1>1, <1>2, OverlapStep, TypeInvariant, PTL DEF Spec

-----------------------------------------------------------------------------
(* Slots                                                                   *)

\* The tick is between the two transactions of schedule s.
Advancing(s) == tick.pc = "advance" /\ tick.cur = s

\* Row r was written by the tick of the sidecar that is up.
OfThisLife(r) == sidecar = "up" /\ due[r].life > 0 /\ due[r].life = boots

\* The slot of row r lies behind everything the tick may still take for due:
\* next_fire_at of its schedule and the copy of it the tick has read.  Only
\* while the tick is about to advance it may they be the slot itself.
Passed(r) ==
    LET s  == of[r]
        at == due[r].at
    IN  /\ s \in Schedule /\ row[s].state # "absent"
        /\ at =< clock
        /\ Advancing(s) => at =< rows[s].next
        /\ ~Advancing(s) /\ row[s].state = "present" => at < row[s].next
        /\ ~Advancing(s) /\ s \in DOMAIN rows => at < rows[s].next

SlotInv ==
    /\ SlotHasOneRow
    /\ \A r \in Run : due[r].life =< boots
    /\ sidecar = "down" => tick.pc = "idle"
    /\ tick.pc = "idle" => DOMAIN rows = {}
    /\ tick.pc # "idle" => tick.now =< clock
    /\ \A s \in DOMAIN rows :
         rows[s].next =< tick.now /\ row[s].state # "absent"
    /\ tick.pc \in {"insert", "advance"} => tick.next > rows[tick.cur].next
    /\ \A r \in Run : OfThisLife(r) => Passed(r)

\* Steps that leave the rows of the tick alone keep SlotInv if they let no
\* schedule vanish and set next_fire_at to times ahead of the clock.
LEMMA SlotFrame ==
    ASSUME TypeInv, SlotInv, UNCHANGED <<of, due, boots, sidecar, rows, tick>>,
           clock' \in Nat, clock =< clock',
           \A s \in Schedule :
              /\ row[s].state # "absent" => row'[s].state # "absent"
              /\ row[s].state # "absent" /\ row'[s].state = "present" =>
                    /\ row[s].state = "present"
                    /\ row'[s].next = row[s].next \/ row'[s].next > clock,
           row' \in [Schedule -> Row]
    PROVE  SlotInv'
<1> USE DEF TypeInv, TypeOK
<1>1. DOMAIN rows \subseteq Schedule
  BY DEF Schedule
<1>2. tick.now \in Nat /\ clock \in Nat
  BY ConstantTypes
<1>3. SlotHasOneRow'
  BY DEF SlotInv, SlotHasOneRow
<1>4. ASSUME NEW r \in Run, OfThisLife(r)' PROVE Passed(r)'
  <2>1. Passed(r)
    BY <1>4 DEF SlotInv, OfThisLife
  <2>2. due[r].at \in Nat /\ due[r].at =< clock
    BY <2>1 DEF Passed
  <2>3. of[r] \in Schedule /\ row[of[r]].state # "absent"
    BY <2>1 DEF Passed
  <2>4. row'[of[r]].next \in Nat /\ row[of[r]].next \in Nat
    BY <2>3 DEF Row
  <2>5. ~Advancing(of[r]) /\ row'[of[r]].state = "present"
          => due[r].at < row'[of[r]].next
    BY <1>2, <2>1, <2>2, <2>3, <2>4 DEF Passed
  <2> QED BY <1>2, <2>1, <2>2, <2>3, <2>5 DEF Passed, Advancing
<1>5. tick'.pc # "idle" => tick'.now =< clock'
  BY <1>2 DEF SlotInv
<1> QED BY <1>1, <1>3, <1>4, <1>5 DEF SlotInv

\* Every step of the tick keeps SlotInv.
LEMMA SlotTick == TypeInv /\ SlotInv /\ OverlapInv /\ TickStep => SlotInv'
<1> SUFFICES ASSUME TypeInv, SlotInv, OverlapInv, TickStep PROVE SlotInv'
  OBVIOUS
<1> USE DEF TypeInv, TypeOK, storeVars, rowVars, lifeVars
<1>0. /\ DOMAIN rows \subseteq Schedule
      /\ \A s \in DOMAIN rows : rows[s].next \in Nat
      /\ \A s \in Schedule : row[s].next \in Nat
      /\ clock \in Nat /\ tick.now \in Nat
      /\ \A r \in Run : due[r].at \in Nat
  BY ConstantTypes DEF Schedule, Row
<1>1. CASE TickBegins
  <2>1. /\ UNCHANGED <<row, of, due, sidecar, boots, clock>>
        /\ rows' = [s \in DueRows |-> row[s]]
        /\ tick.pc = "idle" /\ tick'.pc = "rows" /\ tick'.now = clock
        /\ sidecar = "up"
    BY <1>1 DEF TickBegins, NoTick
  <2>2. \A s \in DueRows : /\ s \in Schedule /\ row[s].state = "present"
                           /\ row[s].next =< clock
    BY DEF DueRows, Present, Schedule
  <2>3. ASSUME NEW r \in Run, OfThisLife(r)' PROVE Passed(r)'
    <3>1. Passed(r) /\ ~Advancing(of[r]) /\ ~Advancing(of[r])'
      BY <2>1, <2>3 DEF SlotInv, OfThisLife, Advancing
    <3> QED BY <2>1, <2>2, <3>1 DEF Passed
  <2>4. SlotHasOneRow'
    BY <2>1 DEF SlotInv, SlotHasOneRow
  <2> QED BY <1>0, <2>1, <2>2, <2>3, <2>4 DEF SlotInv
<1>2. ASSUME NEW s \in Schedule, TickTakesRow(s) PROVE SlotInv'
  <2>1. /\ UNCHANGED <<row, of, due, sidecar, boots, clock, rows>>
        /\ s \in DOMAIN rows
        /\ tick.pc = "rows" /\ tick'.pc = "insert" /\ tick'.now = tick.now
        /\ tick'.cur = s /\ tick'.next = NextFire(s)
    BY <1>2 DEF TickTakesRow
  <2>2. NextFire(s) > rows[s].next
    BY <2>1, NextFireLater DEF SlotInv
  <2>3. ASSUME NEW r \in Run, OfThisLife(r)' PROVE Passed(r)'
    <3>1. Passed(r) /\ ~Advancing(of[r]) /\ ~Advancing(of[r])'
      BY <2>1, <2>3 DEF SlotInv, OfThisLife, Advancing
    <3> QED BY <2>1, <3>1 DEF Passed
  <2>4. SlotHasOneRow'
    BY <2>1 DEF SlotInv, SlotHasOneRow
  <2> QED BY <2>1, <2>2, <2>3, <2>4 DEF SlotInv
<1>3. ASSUME NEW r \in Run, TickInserts(r) PROVE SlotInv'
  <2> DEFINE s == tick.cur
             at == rows[s].next
  <2>1. /\ UNCHANGED <<row, sidecar, boots, clock, rows>>
        /\ due' = [due EXCEPT ![r] = [at |-> at, life |-> boots]]
        /\ tick.pc = "insert" /\ tick'.pc = "advance" /\ tick'.now = tick.now
        /\ tick'.cur = s /\ tick'.next = tick.next
        /\ s \in DOMAIN rows /\ s \in Schedule
    BY <1>0, <1>3 DEF TickInserts
  <2>2. /\ Present(s) /\ of'[r] = s
        /\ \A q \in Run \ {r} : of'[q] = of[q] /\ due'[q] = due[q]
        /\ due'[r].at = at /\ due'[r].life = boots
    BY <1>3, <2>1, InsertSteps, InsertEffect
  <2>3. sidecar = "up"
    BY <2>1 DEF SlotInv
  <2>4. at =< tick.now /\ tick.now =< clock
    BY <2>1 DEF SlotInv
  <2>5. \A q \in Run : ~Advancing(of[q])
    BY <2>1 DEF Advancing
  <2>6. ASSUME NEW q \in Run \ {r}, due'[q] = due'[r], boots > 0
        PROVE  of'[q] # of'[r]
    <3>1. Passed(q)
      BY <2>2, <2>3, <2>6 DEF SlotInv, OfThisLife
    <3>2. of[q] = s => due[q].at < at
      BY <2>1, <2>5, <3>1 DEF Passed
    <3> QED BY <1>0, <2>1, <2>2, <2>6, <3>2
  <2>7. SlotHasOneRow'
    <3> SUFFICES ASSUME NEW p \in Run, NEW q \in Run, p # q,
                        due'[p].life > 0, due'[p] = due'[q]
                 PROVE  of'[p] # of'[q]
      BY DEF SlotHasOneRow
    <3>1. CASE p = r
      BY <2>2, <2>6, <3>1
    <3>2. CASE q = r
      BY <2>2, <2>6, <3>2
    <3>3. CASE p # r /\ q # r
      BY <2>2, <3>3 DEF SlotInv, SlotHasOneRow
    <3> QED BY <3>1, <3>2, <3>3
  <2>8. ASSUME NEW q \in Run, OfThisLife(q)' PROVE Passed(q)'
    <3>1. CASE q = r
      <4>1. at =< clock
        BY <1>0, <2>1, <2>4
      <4> QED BY <1>0, <2>1, <2>2, <3>1, <4>1 DEF Passed, Advancing, Present
    <3>2. CASE q # r
      <4>1. Passed(q) /\ ~Advancing(of[q])
        BY <2>1, <2>2, <2>5, <2>8, <3>2 DEF SlotInv, OfThisLife
      <4>2. of'[q] = of[q] /\ due'[q] = due[q]
        BY <2>2, <3>2
      <4> QED BY <1>0, <2>1, <4>1, <4>2 DEF Passed, Advancing
    <3> QED BY <3>1, <3>2
  <2>9. \A q \in Run : due'[q].life =< boots'
    BY <2>1, <2>2 DEF SlotInv
  <2> QED BY <2>1, <2>7, <2>8, <2>9 DEF SlotInv
<1>4. ASSUME TickLeavesRow, tick.pc # "idle",
             UNCHANGED <<of, due, sidecar, boots, clock>>,
             \A z \in Schedule : row'[z].state = row[z].state,
             \A r \in Run : OfThisLife(r) /\ row[of[r]].state = "present"
                 => due[r].at < row'[of[r]].next,
             \A r \in Run : OfThisLife(r) /\ of[r] # tick.cur
                 => ~Advancing(of[r])
      PROVE  SlotInv'
  <2>1. /\ DOMAIN rows' = DOMAIN rows \ {tick.cur}
        /\ \A z \in DOMAIN rows' : rows'[z] = rows[z]
        /\ tick'.pc \in {"idle", "rows"}
        /\ tick'.pc = "rows" => tick'.now = tick.now
        /\ tick'.pc = "idle" => DOMAIN rows' = {}
    BY <1>4, LeaveTypes
  <2>2. ASSUME NEW r \in Run, OfThisLife(r)' PROVE Passed(r)'
    <3>1. OfThisLife(r) /\ Passed(r)
      BY <1>4, <2>2 DEF SlotInv, OfThisLife
    <3>2. ~Advancing(of[r])'
      BY <2>1 DEF Advancing
    <3>3. of[r] \in DOMAIN rows' => due[r].at < rows'[of[r]].next
      BY <1>4, <2>1, <3>1 DEF Passed
    <3> QED BY <1>4, <3>1, <3>2, <3>3 DEF Passed
  <2>3. SlotHasOneRow'
    BY <1>4 DEF SlotInv, SlotHasOneRow
  <2>4. tick'.pc # "idle" => tick'.now =< clock'
    BY <1>4, <2>1 DEF SlotInv
  <2>5. \A z \in DOMAIN rows' :
            rows'[z].next =< tick'.now /\ row'[z].state # "absent"
    BY <1>0, <1>4, <2>1 DEF SlotInv
  <2>6. sidecar' = "down" => tick'.pc = "idle"
    BY <1>4 DEF SlotInv
  <2>7. \A r \in Run : due'[r].life =< boots'
    BY <1>4 DEF SlotInv
  <2> QED BY <2>1, <2>2, <2>3, <2>4, <2>5, <2>6, <2>7 DEF SlotInv
<1>5. CASE TickInsertFails
  <2>1. /\ TickLeavesRow /\ tick.pc = "insert"
        /\ UNCHANGED <<row, of, due, sidecar, boots, clock>>
    BY <1>5 DEF TickInsertFails
  <2>2. \A r \in Run : ~Advancing(of[r])
    BY <2>1 DEF Advancing
  <2>3. \A r \in Run : OfThisLife(r) /\ row[of[r]].state = "present"
                 => due[r].at < row'[of[r]].next
    BY <2>1, <2>2 DEF SlotInv, Passed
  <2> QED BY <1>4, <2>1, <2>2, <2>3
<1>6. CASE TickAdvances
  <2>1. /\ TickLeavesRow /\ tick.pc = "advance" /\ SetNext(tick.cur, tick.next)
        /\ UNCHANGED <<of, due, sidecar, boots, clock>>
        /\ tick.cur \in Schedule /\ tick.cur \in DOMAIN rows
    BY <1>0, <1>6 DEF TickAdvances
  <2>2. /\ \A z \in Schedule : row'[z].state = row[z].state
        /\ \A z \in Schedule \ {tick.cur} : row'[z] = row[z]
        /\ row[tick.cur].state = "present" => row'[tick.cur].next = tick.next
    BY <2>1 DEF SetNext, Present, Row
  <2>3. ASSUME NEW r \in Run, OfThisLife(r), row[of[r]].state = "present"
        PROVE  due[r].at < row'[of[r]].next
    <3>1. Passed(r)
      BY <2>3 DEF SlotInv
    <3>2. CASE of[r] = tick.cur
      <4>1. due[r].at =< rows[tick.cur].next
        BY <2>1, <3>1, <3>2 DEF Passed, Advancing
      <4>2. rows[tick.cur].next < tick.next
        BY <2>1 DEF SlotInv
      <4>3. row'[of[r]].next = tick.next
        BY <2>2, <2>3, <3>2
      <4>4. tick.next \in Nat /\ due[r].at \in Nat /\ rows[tick.cur].next \in Nat
        BY <1>0, <2>1
      <4> QED BY <4>1, <4>2, <4>3, <4>4
    <3>3. CASE of[r] # tick.cur
      <4>1. ~Advancing(of[r])
        BY <3>3 DEF Advancing
      <4> QED BY <2>2, <2>3, <3>1, <3>3, <4>1 DEF Passed
    <3> QED BY <3>2, <3>3
  <2>4. \A r \in Run : of[r] # tick.cur => ~Advancing(of[r])
    BY DEF Advancing
  <2> QED BY <1>4, <2>1, <2>2, <2>3, <2>4
<1> QED BY <1>1, <1>2, <1>3, <1>5, <1>6 DEF TickStep

\* A run queued by a request is not the tick's, so no slot changes.
LEMMA SlotRequestInsert ==
    ASSUME TypeInv, SlotInv, OverlapInv, NEW r \in Run, NEW s \in Schedule,
           InsertRunOf(r, s, "queued"),
           UNCHANGED <<row, due, rows, tick, clock, sidecar, boots>>
    PROVE  SlotInv'
<1>1. due[r].life = 0 /\ \A q \in Run \ {r} : of'[q] = of[q]
  BY InsertEffect DEF OverlapInv
<1>2. SlotHasOneRow'
  BY <1>1 DEF SlotInv, SlotHasOneRow
<1>3. ASSUME NEW q \in Run, OfThisLife(q)' PROVE Passed(q)'
  <2>1. q # r /\ OfThisLife(q)
    BY <1>1, <1>3 DEF OfThisLife
  <2>2. Passed(q) /\ of'[q] = of[q]
    BY <1>1, <2>1 DEF SlotInv
  <2> QED BY <2>2 DEF Passed, Advancing
<1> QED BY <1>2, <1>3 DEF SlotInv

\* Every step keeps SlotInv.
LEMMA SlotStep == TypeInv /\ SlotInv /\ OverlapInv /\ [Next]_vars => SlotInv'
<1> SUFFICES ASSUME TypeInv, SlotInv, OverlapInv, [Next]_vars PROVE SlotInv'
  OBVIOUS
<1>0. TypeInv'
  BY TypeInvStep
<1>a. /\ row' \in [Schedule -> Row] /\ clock' \in Nat /\ clock \in Nat
      /\ \A s \in Schedule : row[s].next \in Nat
  BY <1>0, ConstantTypes DEF TypeInv, TypeOK, Row
<1>1. ASSUME UNCHANGED <<row, of, due, boots, sidecar, rows, tick>>,
             clock =< clock'
      PROVE  SlotInv'
  BY <1>1, <1>a, SlotFrame
<1>2. ASSUME NEW c \in Client, FireStep(c) \/ EventStep(c) PROVE SlotInv'
  <2>1. CASE FireUpdates(c)
    <3>1. /\ UNCHANGED <<of, due, boots, sidecar, rows, tick, clock>>
          /\ fire[c].of \in Schedule /\ fire[c].cadence \in Nat \ {0}
          /\ row' = row \/ SetNext(fire[c].of, clock + fire[c].cadence)
      BY <2>1, ConstantTypes
         DEF FireUpdates, TypeInv, tickVars, lifeVars
    <3>2. \A s \in Schedule :
             /\ row'[s].state = row[s].state
             /\ row'[s].next = row[s].next \/ row'[s].next > clock
      BY <1>a, <3>1 DEF SetNext, TypeInv, TypeOK, Row
    <3> QED BY <1>a, <3>1, <3>2, SlotFrame
  <2>2. CASE \E r \in Run : FireInserts(c, r)
    BY <2>2, InsertSteps, SlotRequestInsert
  <2>3. CASE \E s \in Schedule, r \in Run : EventInserts(c, s, r)
    BY <2>3, InsertSteps, SlotRequestInsert
  <2>4. ASSUME \/ \E s \in Schedule : FireBegins(c, s) \/ EventInsertFails(c, s)
               \/ FireChecks(c) \/ FireInsertFails(c) \/ EventBegins(c)
        PROVE  UNCHANGED <<row, of, due, boots, sidecar, rows, tick, clock>>
    BY <2>4
       DEF FireBegins, FireChecks, FireInsertFails, EventBegins,
           EventInsertFails, rowVars, tickVars, lifeVars
  <2> QED
    BY <1>1, <1>2, <1>a, <2>1, <2>2, <2>3, <2>4 DEF FireStep, EventStep
<1>3. ASSUME NEW s \in Schedule, EditStep(s) PROVE SlotInv'
  <2>1. UNCHANGED <<of, due, boots, sidecar, rows, tick, clock>>
    BY <1>3 DEF EditStep, Create, EditCadence, SetEnabled, Delete, flowVars,
                tickVars, lifeVars
  <2>2. \A z \in Schedule \ {s} : row'[z] = row[z]
    BY <1>3 DEF EditStep, Create, EditCadence, SetEnabled, Delete, TypeInv,
                TypeOK
  <2>3. /\ row[s].state # "absent" => row'[s].state # "absent"
        /\ row[s].state # "absent" /\ row'[s].state = "present" =>
              /\ row[s].state = "present"
              /\ row'[s].next = row[s].next \/ row'[s].next > clock
    <3> USE DEF TypeInv, TypeOK
    <3>1. CASE Create(s)
      BY <3>1 DEF Create
    <3>2. ASSUME NEW k \in Cadence, EditCadence(s, k)
          PROVE  row'[s].state = "present" /\ row[s].state = "present"
                 /\ row'[s].next > clock
      <4>1. FirstFire(s, k) > clock
        BY <3>2, <1>a, ConstantTypes DEF EditCadence, FirstFire, Schedule
      <4> QED BY <3>2, <4>1 DEF EditCadence, Present, Row
    <3>3. ASSUME NEW b \in BOOLEAN, SetEnabled(s, b)
          PROVE  row'[s].state = row[s].state /\ row'[s].next = row[s].next
      BY <3>3 DEF SetEnabled, Row
    <3>4. CASE Delete(s)
      BY <3>4 DEF Delete, Row
    <3> QED
      BY <1>3, <3>1, <3>2, <3>3, <3>4 DEF EditStep, EditCadence, SetEnabled,
                                          Present
  <2> QED BY <1>a, <2>1, <2>2, <2>3, SlotFrame
<1>4. ASSUME NEW r \in Run, RunStep(r) PROVE SlotInv'
  BY <1>1, <1>4, <1>a
     DEF RunStep, RunStarts, RunEnds, RunIsCancelled, SessionIsClosed, rowVars,
         flowVars, tickVars, lifeVars
<1>5. CASE ClockAdvances \/ UNCHANGED vars
  BY <1>1, <1>5, <1>a
     DEF ClockAdvances, vars, rowVars, flowVars, tickVars, lifeVars
<1>6. CASE SidecarEnds
  <2>1. /\ UNCHANGED <<row, of, due, boots, clock>>
        /\ sidecar' = "down" /\ tick'.pc = "idle" /\ DOMAIN rows' = {}
    BY <1>6 DEF SidecarEnds, NoTick, NoRows, rowVars
  <2>2. SlotHasOneRow'
    BY <2>1 DEF SlotInv, SlotHasOneRow
  <2> QED BY <2>1, <2>2 DEF SlotInv, OfThisLife
<1>7. CASE SidecarBoots
  <2>1. /\ UNCHANGED <<row, of, due, clock, rows, tick>>
        /\ sidecar' = "up" /\ boots' = boots + 1
    BY <1>7 DEF SidecarBoots, rowVars, flowVars, tickVars
  <2>2. /\ \A r \in Run : due[r].life \in Nat /\ due[r].life =< boots
        /\ boots \in Nat
    BY DEF SlotInv, TypeInv, TypeOK
  <2>3. \A r \in Run : ~OfThisLife(r)'
    BY <2>1, <2>2 DEF OfThisLife
  <2>4. SlotHasOneRow'
    BY <2>1 DEF SlotInv, SlotHasOneRow
  <2> QED BY <2>1, <2>2, <2>3, <2>4 DEF SlotInv
<1> QED
  BY <1>2, <1>3, <1>4, <1>5, <1>6, <1>7, SlotTick DEF Next

\* While a sidecar lives, a due slot gets one row.
THEOREM OneRowPerSlot == Spec => []SlotHasOneRow
<1>1. Init => SlotInv
  BY DEF Init, SlotInv, SlotHasOneRow, OfThisLife, NoSlot, NoTick, NoRows
<1>2. Init => OverlapInv
  BY DEF Init, StoreInit, OverlapInv, TickRunsDoNotOverlap, Active, NoSlot, NoTick
<1>3. SlotInv => SlotHasOneRow
  BY DEF SlotInv
<1> QED
  BY <1>1, <1>2, <1>3, OverlapStep, SlotStep, TypeInvariant, PTL DEF Spec

\* The fire computed for an interval is the first slot of its grid that is
\* ahead, for every interval and however late the tick is.
THEOREM TickLooksAhead == Spec => NextIsFirstSlotAhead
<1> DEFINE Ahead ==
      \A s \in IntervalSchedule :
        tick.pc = "rows" /\ tick'.pc = "insert" /\ tick'.cur = s =>
            LET old == rows[s]
            IN  /\ tick'.next > clock
                /\ (tick'.next - old.next) % old.cadence = 0
                /\ tick'.next - old.cadence \in {old.next} \cup 0..clock
<1>1. TypeInv /\ [Next]_vars => Ahead
  <2> SUFFICES ASSUME TypeInv, [Next]_vars, NEW s \in IntervalSchedule,
                      tick.pc = "rows", tick'.pc = "insert", tick'.cur = s
               PROVE  LET old == rows[s]
                      IN  /\ tick'.next > clock
                          /\ (tick'.next - old.next) % old.cadence = 0
                          /\ tick'.next - old.cadence \in {old.next} \cup 0..clock
    OBVIOUS
  <2>1. PICK z \in Schedule : TickTakesRow(z)
    BY ReachesInsert
  <2>2. z = s /\ s \in DOMAIN rows /\ tick'.next = NextFire(s)
    BY <2>1 DEF TickTakesRow, TypeInv, TypeOK
  <2>3. NextFire(s) = IntervalNextFire(rows[s].cadence, rows[s].next, clock)
    BY DEF NextFire
  <2>4. /\ rows[s].cadence \in Nat \ {0} /\ rows[s].next \in Nat
        /\ clock \in Nat
    BY <2>2, ConstantTypes DEF TypeInv, TypeOK, Row
  <2> QED BY <2>2, <2>3, <2>4, IntervalNextFireAhead
<1>2. TypeInv /\ [Next]_vars => [Ahead]_vars
  BY <1>1
<1> QED BY <1>2, TypeInvariant, PTL DEF Spec, NextIsFirstSlotAhead
=============================================================================
