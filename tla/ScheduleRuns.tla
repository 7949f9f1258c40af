---------------------------- MODULE ScheduleRuns ----------------------------
(***************************************************************************)
(* The sidecar's store of scheduled runs: one row of schedule_runs per run *)
(* and the agent_sessions row the run's CLI registers under the run's      *)
(* session id.  Every operator below is one handler of                     *)
(* app/services/schedule_service.py.  A handler commits the status of the  *)
(* row in one transaction and closes the session of the row in a later     *)
(* one, so the close is an action of its own (CloseSession) that works off *)
(* toClose; that set is a local of the handlers' coroutines and is lost    *)
(* when the sidecar dies.                                                  *)
(*                                                                         *)
(* Which schedule fires when, and the overlap guard in front of an insert, *)
(* are not part of this module but of ScheduleTick: here an insert is      *)
(* always possible, as it is for dispatch_event.                           *)
(***************************************************************************)
CONSTANT Run          \* ids of schedule_runs rows that may be created

VARIABLES
    status,           \* [Run -> RowStatus], schedule_runs.status
    session,          \* [Run -> SessionStatus], the run's agent_sessions row
    toClose           \* runs whose handler has yet to close the session

storeVars == <<status, session, toClose>>

Active   == {"queued", "running"}
Terminal == {"succeeded", "failed", "timed_out", "cancelled"}

\* Rows the tick writes for a slot it does not launch.
Inert == {"skipped", "missed"}

\* "absent" is a row not inserted yet, "deleted" one that went with its
\* schedule (ON DELETE CASCADE).
RowStatus == Active \cup Terminal \cup Inert \cup {"absent", "deleted"}

\* "open" stands for the statuses active and idle.
SessionStatus == {"none", "open", "ended"}

StoreTypeOK ==
    /\ status \in [Run -> RowStatus]
    /\ session \in [Run -> SessionStatus]
    /\ toClose \subseteq Run

StoreInit ==
    /\ status = [r \in Run |-> "absent"]
    /\ session = [r \in Run |-> "none"]
    /\ toClose = {}

Exists(r) == status[r] \notin {"absent", "deleted"}

-----------------------------------------------------------------------------
(* Handlers                                                                *)

\* _insert_run: a new row, queued for the shell or of a slot not launched.
InsertRun(r, as) ==
    /\ status[r] = "absent"
    /\ status' = [status EXCEPT ![r] = as]
    /\ UNCHANGED <<session, toClose>>

\* delete_schedule: a row goes with its schedule, its session stays.
DeleteRun(r) ==
    /\ Exists(r)
    /\ status' = [status EXCEPT ![r] = "deleted"]
    /\ UNCHANGED <<session, toClose>>

\* Mutant: every row becomes running.
StartRunAnyway(r) ==
    /\ status' = [status EXCEPT ![r] = IF Exists(r) THEN "running" ELSE @]
    /\ UNCHANGED <<session, toClose>>

\* start_run: only a queued row becomes running.  The caller is answered
\* 200 for every row that exists, also when no row was updated.
StartRun(r) ==
    /\ status' = [status EXCEPT ![r] = IF @ = "queued" THEN "running" ELSE @]
    /\ UNCHANGED <<session, toClose>>

\* finish_run: get_run raises 404 when the row is gone; otherwise the UPDATE
\* has no condition on the status it overwrites.
FinishRun(r, exit) ==
    /\ status' = [status EXCEPT ![r] =
                    IF ~Exists(r) THEN @
                    ELSE IF exit = "zero" THEN "succeeded" ELSE "failed"]
    /\ toClose' = IF Exists(r) THEN toClose \cup {r} ELSE toClose
    /\ UNCHANGED session

\* timeout_run: conditional on running; the session is closed regardless.
TimeoutRun(r) ==
    /\ status' = [status EXCEPT ![r] = IF @ = "running" THEN "timed_out" ELSE @]
    /\ toClose' = IF Exists(r) THEN toClose \cup {r} ELSE toClose
    /\ UNCHANGED session

\* Mutant: a status the CHECK of the table does not know.
CancelRunMisspelt(r) ==
    /\ Exists(r)
    /\ status' = [status EXCEPT ![r] = IF @ \in Active THEN "canceled" ELSE @]
    /\ toClose' = toClose \cup {r}
    /\ UNCHANGED session

\* cancel_run: conditional on queued or running.  The database is all it
\* touches: nothing tells the shell to stop the run's process.
CancelRun(r) ==
    /\ Exists(r)
    /\ status' = [status EXCEPT ![r] = IF @ \in Active THEN "cancelled" ELSE @]
    /\ toClose' = toClose \cup {r}
    /\ UNCHANGED session

OpenSessions(S) == {r \in S : session[r] = "open"}

\* Mutant: the sweep leaves the row as it is and only tidies the session.
SweepStaleRunKeepsRow(r) ==
    /\ status[r] = "running"
    /\ toClose' = toClose \cup OpenSessions({r})
    /\ UNCHANGED <<status, session>>

\* sweep_stale_runs, for a row whose started_at is older than the schedule's
\* current max_runtime_sec plus the grace.  Which running rows are that old
\* is not decided here: max_runtime_sec may be lowered while the run is live,
\* and the wall clock runs on while the machine, and with it the shell's
\* watchdog, sleeps.
SweepStaleRun(r) ==
    /\ status[r] = "running"
    /\ status' = [status EXCEPT ![r] = "timed_out"]
    /\ toClose' = toClose \cup OpenSessions({r})
    /\ UNCHANGED session

\* Mutant: the startup reaper puts the orphaned runs back into the queue.
ReapRequeues ==
    /\ status' = [r \in Run |->
                    IF status[r] \in Active THEN "queued" ELSE status[r]]
    /\ UNCHANGED <<session, toClose>>

\* reap_orphaned_runs: on startup every run still queued or running fails.
ReapOrphanedRuns ==
    LET orphaned == {r \in Run : status[r] \in Active}
    IN  /\ status' = [r \in Run |->
                        IF r \in orphaned THEN "failed" ELSE status[r]]
        /\ toClose' = OpenSessions(orphaned)
        /\ UNCHANGED session

\* close_session_for_run: the second transaction of the handlers above.
CloseSession(r) ==
    /\ r \in toClose
    /\ toClose' = toClose \ {r}
    /\ session' = [session EXCEPT ![r] = IF @ = "open" THEN "ended" ELSE @]
    /\ UNCHANGED status

\* A lifecycle hook of the run's CLI (SessionStart, UserPromptSubmit,
\* PreToolUse, PostToolUse, Stop) sets the session active or idle whatever it
\* was; a SessionEnd hook ends it.
SessionHook(r) ==
    /\ session' = [session EXCEPT ![r] = "open"]
    /\ UNCHANGED <<status, toClose>>

SessionEndHook(r) ==
    /\ session' = [session EXCEPT ![r] = "ended"]
    /\ UNCHANGED <<status, toClose>>
=============================================================================
