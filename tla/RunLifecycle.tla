----------------------------- MODULE RunLifecycle -----------------------------
(***************************************************************************)
(* What the scheduler promises of its runs, without threads, requests,     *)
(* crashes or launches of the app: a row waits in the queue, is claimed    *)
(* once and never queued again; its job is launched once, and only after   *)
(* the row has left the queue; the job is reported once, when it is over   *)
(* or its end can no longer be waited for; and the row says succeeded only *)
(* on the report of a job that ended well.                                 *)
(*                                                                         *)
(* What it does not promise: that a claimed run is launched, that a row    *)
(* follows its job (cancel, sweep and reaper end the row of a living job), *)
(* or that an end is final (a late report overwrites it).                  *)
(*                                                                         *)
(* RunDispatch implements this module.                                     *)
(***************************************************************************)
CONSTANT Run          \* ids of runs

VARIABLES
    row,              \* "none", "queued", "running", "succeeded", "ended", "deleted"
    job,              \* "none", "live", or how it ended: "zero", "nonzero"
    reported          \* the job was reported by the shell that supervised it

vars == <<row, job, reported>>

Present(r) == row[r] \notin {"none", "deleted"}
Over == {"zero", "nonzero"}

Init ==
    /\ row = [r \in Run |-> "none"]
    /\ job = [r \in Run |-> "none"]
    /\ reported = [r \in Run |-> FALSE]

RowOnly(r) == job'[r] = job[r] /\ reported'[r] = reported[r]

Enqueue(r) ==
    /\ row[r] = "none"
    /\ row'[r] = "queued" /\ RowOnly(r)

\* A run that was launched is never claimed again.
Claim(r) ==
    /\ row[r] = "queued" /\ job[r] = "none"
    /\ row'[r] = "running" /\ RowOnly(r)

Launch(r) ==
    /\ row[r] \notin {"none", "queued"} /\ job[r] = "none"
    /\ job'[r] = "live"
    /\ row'[r] = row[r] /\ reported'[r] = reported[r]

JobEnds(r) ==
    /\ job[r] = "live"
    /\ job'[r] \in Over
    /\ row'[r] = row[r] /\ reported'[r] = reported[r]

\* The report of a job that is over, that is ended to be reported, or whose
\* end can no longer be waited for.
Report(r) ==
    /\ ~reported[r] /\ job[r] # "none"
    /\ reported'[r]
    /\ job'[r] \in {job[r]} \cup IF job[r] = "live" THEN Over ELSE {}
    /\ row'[r] = row[r]

Succeed(r) ==
    /\ Present(r) /\ job[r] = "zero" /\ reported[r]
    /\ row'[r] = "succeeded" /\ RowOnly(r)

End(r) ==
    /\ Present(r)
    /\ row'[r] = "ended" /\ RowOnly(r)

Delete(r) ==
    /\ Present(r)
    /\ row'[r] = "deleted" /\ RowOnly(r)

Rests(r) == row'[r] = row[r] /\ RowOnly(r)

RunStep(r) ==
    \/ Enqueue(r) \/ Claim(r) \/ Launch(r) \/ JobEnds(r) \/ Report(r)
    \/ Succeed(r) \/ End(r) \/ Delete(r)

\* One step of the shell or of the reaper may end several runs.
Next == \A r \in Run : RunStep(r) \/ Rests(r)

Spec == Init /\ [][Next]_vars
=============================================================================
