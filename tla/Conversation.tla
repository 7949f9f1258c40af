----------------------------- MODULE Conversation -----------------------------
(***************************************************************************)
(* The reducer that turns the frames of a pane's `claude` child into what  *)
(* the pane shows (frontend/src/lib/agent-conversation.ts), with the part  *)
(* of the store around it that writes the same record                      *)
(* (frontend/src/stores/agent-session-store.ts).                           *)
(*                                                                         *)
(* Every item of a conversation carries the session it came from, which    *)
(* the code does not keep: frames are applied by pane, whatever session    *)
(* sent them.  0 is no session.  Of the transcript there are the calls to  *)
(* sub-agents and, in the stream of a call, the calls of the sub-agent;    *)
(* texts, clocks, models, modes and costs are left out.                    *)
(***************************************************************************)
EXTENDS Naturals, Sequences, SequencesExt

EmptyConversation ==
    [status |-> "starting",
     by |-> 0,                \* whose frame set the status, 0 the pane itself
     stream |-> 0,            \* whose text is in the streaming buffer
     permissions |-> << >>,   \* sessions that asked; the first is the dialog
     calls |-> {},            \* blocks of sub-agents, with their own calls
     orchestrations |-> {}]   \* whose orchestrations are shown as running

\* A block of the main transcript, or of the stream of the sub-agent's block.
Call(s, level, done) == [of |-> s, level |-> level, done |-> done]

Status(c, status, s) == [c EXCEPT !.status = status, !.by = s]

MarkStarting(c)   == Status(c, "starting", 0)
MarkAttached(c)   == Status(c, "idle", 0)
AppendUserTurn(c) == Status(c, "running", 0)

\* Everything that is the transcript; the session goes on.
ClearContext(c) == [c EXCEPT !.stream = 0, !.calls = {}]

\* Mutant: the status is left to the frames of the turn.
ApplyInitKeepsStatus(c, s) == [c EXCEPT !.by = s]

\* The dialogs, the buffer and the orchestration of the session before stay.
ApplyInit(c, s) == Status(c, "idle", s)

ApplyDelta(c, s) == [c EXCEPT !.stream = s]

\* An assistant frame replaces the buffer by its text.
ApplyAssistant(c) == [c EXCEPT !.stream = 0]

ApplyToolUse(c, s) ==
    [ApplyAssistant(c) EXCEPT !.calls = @ \cup {Call(s, "main", FALSE)}]

\* The block is looked up in the stream the frame belongs to.
ApplyToolResult(c, s, level) ==
    [c EXCEPT !.calls = {IF k.of = s /\ k.level = level
                         THEN [k EXCEPT !.done = TRUE] ELSE k : k \in @}]

\* withChildStream: a frame of a sub-agent whose block is unknown is dropped.
Knows(c, s) == \E k \in c.calls : k.of = s /\ k.level = "main"

ApplyChildToolUse(c, s) ==
    IF Knows(c, s) THEN [c EXCEPT !.calls = @ \cup {Call(s, "child", FALSE)}]
    ELSE c
ApplyChildToolResult(c, s) ==
    IF Knows(c, s) THEN ApplyToolResult(c, s, "child") ELSE c

ApplyResult(c, s) == [Status(c, "idle", s) EXCEPT !.stream = 0]

ApplyPermission(c, s) == [c EXCEPT !.permissions = Append(@, s)]

\* Mutant: a request that was answered stays.
ResolveNothing(c, s) == c

\* The code filters by the id of the request: there is one of a session.
ResolvePermission(c, s) == [c EXCEPT !.permissions = RemoveFirst(@, s)]

\* system: status/requesting, task_started, task_updated or task_notification.
ApplyRequesting(c, s)  == Status(c, "running", s)
ApplyTaskStarted(c, s) == [c EXCEPT !.orchestrations = @ \cup {s}]
ApplyTaskEnded(c, s)   == [c EXCEPT !.orchestrations = @ \ {s}]

\* Whatever session it is of; dialogs, buffer and orchestration stay.
ApplyExit(c, s) == Status(c, "exited", s)

\* activeSubagents and activeOrchestrations.
ActiveSubagents(c) ==
    IF c.status = "exited" THEN {}
    ELSE {k.of : k \in {j \in c.calls : j.level = "main" /\ ~j.done}}
ActiveOrchestrations(c) ==
    IF c.status = "exited" THEN {} ELSE c.orchestrations
=============================================================================
