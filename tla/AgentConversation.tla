-------------------------- MODULE AgentConversation --------------------------
(***************************************************************************)
(* What the user of one agent pane types, sees and answers, across the     *)
(* sessions the pane runs one after another: the composer                  *)
(* (frontend/src/components/terminal/agent-composer.tsx,                   *)
(* stores/composer-store.ts), the store that applies the frames            *)
(* (stores/agent-session-store.ts) with its reducer (Conversation), and    *)
(* the permission dialog of agent-pane.tsx.                                *)
(*                                                                         *)
(* How the pane starts and restarts its session is AgentPane's matter;     *)
(* here a restart kills the session, deafens the pane, and later boots,    *)
(* and a remount that boots again attaches to the session that lives.      *)
(* Commands to the shell are asynchronous and handled in any order; what   *)
(* the child does and the frames it emits are those of the CLI.            *)
(***************************************************************************)
EXTENDS Conversation

CONSTANTS
    Text,             \* pieces of text: the launch's prompt and typed ones
    MaxSessions,      \* bound: sessions of the pane
    MaxInputs         \* bound: steps of the user, and work a session begins

ASSUME ConversationAssumption == MaxSessions \in Nat /\ MaxInputs \in Nat

VARIABLES
    phase,            \* the pane: "booting", "starting", "attaching",
                      \* "started", "failed"
    keyed,            \* startedPanes has the key of a first mount
    sess,             \* the last session started, 0 none
    child,            \* [Session -> "none", "alive", "dying", "gone"]
    cli,              \* [Session -> what the child is doing]
    conv,             \* the pane's conversation
    allowed,          \* what is asked was allowed "for this session"
    draft,            \* texts in the composer
    queued,           \* messages queued behind the turn
    sends,            \* agent_send commands in flight
    delivered,        \* history: [Text -> messages with it sessions took]
    overlap,          \* history: texts used again while being sent
    inputs

sessionVars == <<phase, keyed, sess, child>>
textVars    == <<draft, queued, sends, delivered, overlap>>
vars == <<sessionVars, cli, conv, allowed, textVars, inputs>>

Session == 1..MaxSessions
Idle == [init |-> FALSE, turn |-> FALSE, inbox |-> 0, asks |-> FALSE,
         task |-> "none", orch |-> FALSE]

Input == inputs < MaxInputs /\ inputs' = inputs + 1

\* A session that takes a line, and the pane that listens.
Takes(s) == s = sess /\ child[s] = "alive"
Lives == \E s \in Session : Takes(s)
Hears == phase # "booting"

Init ==
    /\ phase = "starting" /\ keyed = TRUE /\ sess = 0
    /\ child = [s \in Session |-> "none"]
    /\ cli = [s \in Session |-> Idle]
    /\ conv = EmptyConversation /\ allowed = FALSE
    /\ draft \in {{}} \cup {{t} : t \in Text}     \* seeded by the launch
    /\ queued = << >> /\ sends = << >>
    /\ delivered = [t \in Text |-> 0] /\ overlap = {}
    /\ inputs = 0

-----------------------------------------------------------------------------
(* The session                                                             *)

SessionStarts ==
    /\ phase = "starting" /\ ~Lives /\ sess + 1 \in Session
    /\ phase' = "started" /\ sess' = sess + 1
    /\ child' = [child EXCEPT ![sess + 1] = "alive"]
    /\ UNCHANGED <<keyed, cli, conv, allowed, textVars, inputs>>

StartFails ==
    /\ phase = "starting"
    /\ phase' = "failed" /\ keyed' = FALSE
    /\ UNCHANGED <<sess, child, cli, conv, allowed, textVars, inputs>>

\* The conversation, the composer and what was allowed stay as they are.  The
\* boot key is deleted, and the next has another.
Restart ==
    /\ Input /\ phase # "booting"
    /\ phase' = "booting" /\ keyed' = FALSE
    /\ child' = [s \in Session |-> IF child[s] = "alive" THEN "dying" ELSE child[s]]
    /\ UNCHANGED <<sess, cli, conv, allowed, textVars>>

Boots ==
    /\ phase = "booting"
    /\ phase' = "starting" /\ conv' = MarkStarting(conv)
    /\ UNCHANGED <<keyed, sess, child, cli, allowed, textVars, inputs>>

\* The pane is mounted again, with the key of a first mount, and boots once
\* more: its session, if it lives, goes on, and the pane still hears it.
Remount ==
    /\ Input /\ ~keyed /\ phase \in {"started", "failed"}
    /\ phase' = "starting" /\ keyed' = TRUE /\ conv' = MarkStarting(conv)
    /\ UNCHANGED <<sess, child, cli, allowed, textVars>>

\* agent_start is refused, no stop is under way, and the session is listed.
FindsLive ==
    /\ phase = "starting" /\ Lives
    /\ phase' = "attaching"
    /\ UNCHANGED <<keyed, sess, child, cli, conv, allowed, textVars, inputs>>

\* The session may have ended since.
Attach ==
    /\ phase = "attaching"
    /\ phase' = "started" /\ conv' = MarkAttached(conv)
    /\ UNCHANGED <<keyed, sess, child, cli, allowed, textVars, inputs>>

ChildEnds(s) ==
    /\ Input /\ child[s] = "alive"
    /\ child' = [child EXCEPT ![s] = "dying"]
    /\ UNCHANGED <<phase, keyed, sess, cli, conv, allowed, textVars>>

-----------------------------------------------------------------------------
(* The composer                                                            *)

InFlight == UNION {m.msg : m \in ToSet(sends)}
Held == draft \cup (UNION ToSet(queued)) \cup InFlight

Type(t) ==
    /\ Input /\ t \notin Held /\ delivered[t] = 0
    /\ draft' = draft \cup {t}
    /\ UNCHANGED <<sessionVars, cli, conv, allowed, queued, sends, delivered,
                   overlap>>

Ended == conv.status = "exited" \/ phase = "failed"

\* handleSend: the turn is shown before it is sent; the draft stays for now.
SendStart ==
    /\ Input /\ draft # {} /\ ~Ended
    /\ conv' = AppendUserTurn(conv)
    /\ sends' = Append(sends, [msg |-> draft, from |-> "draft"])
    /\ overlap' = overlap \cup (draft \cap InFlight)
    /\ UNCHANGED <<sessionVars, cli, allowed, draft, queued, delivered>>

Queue ==
    /\ Input /\ draft # {} /\ conv.status = "running" /\ ~Ended
    /\ queued' = Append(queued, draft) /\ draft' = {}
    /\ overlap' = overlap \cup (draft \cap InFlight)
    /\ UNCHANGED <<sessionVars, cli, conv, allowed, sends, delivered>>

\* agent_send: taken by the session, or refused and logged.
Handled(m) ==
    IF Lives
    THEN /\ cli' = [cli EXCEPT ![sess].inbox = @ + 1]
         /\ delivered' = [t \in Text |-> IF t \in m.msg THEN delivered[t] + 1
                                         ELSE delivered[t]]
    ELSE UNCHANGED <<cli, delivered>>

\* What empties the composer when it is handled, whatever is in it by then: a
\* draft that was sent, taken or not, and a /clear that was taken.
Empties(m) == \/ m.from = "draft"
              \/ m.from = "clear" /\ Lives

\* Mutant: a send empties the queue along with the draft.
SendHandledDropsQueue(i) ==
    /\ Handled(sends[i])
    /\ sends' = RemoveAt(sends, i)
    /\ draft' = IF Empties(sends[i]) THEN {} ELSE draft
    /\ queued' = << >>
    /\ UNCHANGED <<sessionVars, conv, allowed, overlap, inputs>>

SendHandled(i) ==
    /\ Handled(sends[i])
    /\ sends' = RemoveAt(sends, i)
    /\ draft' = IF Empties(sends[i]) THEN {} ELSE draft
    /\ UNCHANGED <<sessionVars, conv, allowed, queued, overlap, inputs>>

\* /clear: the composer, the transcript and, in turn, the session's context.
Clear ==
    /\ Input
    /\ draft' = {} /\ queued' = << >> /\ conv' = ClearContext(conv)
    /\ sends' = IF Ended THEN sends
                ELSE Append(sends, [msg |-> {}, from |-> "clear"])
    /\ UNCHANGED <<sessionVars, cli, allowed, delivered, overlap>>

\* Allow, allow for this session, deny: the answer names its request.
Answer(forSession) ==
    /\ Input /\ conv.permissions # << >>
    /\ LET s == Head(conv.permissions) IN
       /\ conv' = ResolvePermission(conv, s)
       /\ cli' = IF Takes(s) THEN [cli EXCEPT ![s].asks = FALSE] ELSE cli
    /\ allowed' = (allowed \/ forSession)
    /\ UNCHANGED <<sessionVars, textVars>>

-----------------------------------------------------------------------------
(* The session's frames, until its exit frame                              *)

Emits(s) == child[s] \in {"alive", "dying"}
Shows(c) == conv' = IF Hears THEN c ELSE conv
Does(s, field, value) == cli' = [cli EXCEPT ![s][field] = value]

InitFrame(s) ==
    /\ Emits(s) /\ ~cli[s].init
    /\ Does(s, "init", TRUE) /\ Shows(ApplyInit(conv, s))
    /\ UNCHANGED <<sessionVars, allowed, textVars, inputs>>

\* The model is requested.
Requests(s) ==
    /\ Emits(s) /\ cli[s].init
    /\ Shows(ApplyRequesting(conv, s))
    /\ UNCHANGED <<sessionVars, allowed, textVars>>

\* A message is read.
TurnStarts(s) ==
    /\ Requests(s) /\ ~cli[s].turn /\ cli[s].inbox > 0
    /\ cli' = [cli EXCEPT ![s].turn = TRUE, ![s].inbox = @ - 1]
    /\ UNCHANGED inputs

\* A turn that no message asked for: of a hook, or of a resumed session.
TurnOpens(s) ==
    /\ Input /\ Requests(s) /\ ~cli[s].turn
    /\ Does(s, "turn", TRUE)

\* The model is requested again in the same turn, behind a tool's result.
TurnGoesOn(s) ==
    /\ Requests(s) /\ cli[s].turn
    /\ UNCHANGED <<cli, inputs>>

Delta(s) ==
    /\ Emits(s) /\ cli[s].turn /\ conv.stream # s
    /\ Shows(ApplyDelta(conv, s))
    /\ UNCHANGED <<sessionVars, cli, allowed, textVars, inputs>>

Assistant(s) ==
    /\ Emits(s) /\ cli[s].turn /\ conv.stream # 0
    /\ Shows(ApplyAssistant(conv))
    /\ UNCHANGED <<sessionVars, cli, allowed, textVars, inputs>>

\* Mutant: what was allowed is answered for, and shown all the same.
AsksShownAnyway(s) ==
    /\ Input /\ Emits(s) /\ cli[s].turn /\ ~cli[s].asks
    /\ Does(s, "asks", ~(Hears /\ allowed /\ Takes(s)))
    /\ Shows(ApplyPermission(conv, s))
    /\ UNCHANGED <<sessionVars, allowed, textVars>>

\* A permission frame; what was allowed for the session is answered at once.
Asks(s) ==
    /\ Input /\ Emits(s) /\ cli[s].turn /\ ~cli[s].asks
    /\ IF Hears /\ allowed THEN Does(s, "asks", ~Takes(s)) /\ UNCHANGED conv
       ELSE Does(s, "asks", TRUE) /\ Shows(ApplyPermission(conv, s))
    /\ UNCHANGED <<sessionVars, allowed, textVars>>

\* A sub-agent is called, calls a tool of its own, and returns.
Delegates(s) ==
    /\ Input /\ Emits(s) /\ cli[s].turn /\ cli[s].task = "none"
    /\ Does(s, "task", "runs") /\ Shows(ApplyToolUse(conv, s))
    /\ UNCHANGED <<sessionVars, allowed, textVars>>

ChildCalls(s) ==
    /\ Emits(s) /\ cli[s].task = "runs"
    /\ Does(s, "task", "calls") /\ Shows(ApplyChildToolUse(conv, s))
    /\ UNCHANGED <<sessionVars, allowed, textVars, inputs>>

ChildReturns(s) ==
    /\ Emits(s) /\ cli[s].task = "calls"
    /\ Does(s, "task", "returned") /\ Shows(ApplyChildToolResult(conv, s))
    /\ UNCHANGED <<sessionVars, allowed, textVars, inputs>>

TaskReturns(s) ==
    /\ Emits(s) /\ cli[s].task \in {"runs", "returned"}
    /\ Does(s, "task", "none") /\ Shows(ApplyToolResult(conv, s, "main"))
    /\ UNCHANGED <<sessionVars, allowed, textVars, inputs>>

\* An orchestration outlives its turn.
OrchestrationStarts(s) ==
    /\ Input /\ Emits(s) /\ cli[s].turn /\ ~cli[s].orch
    /\ Does(s, "orch", TRUE) /\ Shows(ApplyTaskStarted(conv, s))
    /\ UNCHANGED <<sessionVars, allowed, textVars>>

OrchestrationEnds(s) ==
    /\ Emits(s) /\ cli[s].orch
    /\ Does(s, "orch", FALSE) /\ Shows(ApplyTaskEnded(conv, s))
    /\ UNCHANGED <<sessionVars, allowed, textVars, inputs>>

\* Mutant: the message that is sent stays in the queue.
ShowsAndFlushesKept(c) ==
    IF Hears /\ queued # << >>
    THEN /\ conv' = AppendUserTurn(c)
         /\ sends' = Append(sends, [msg |-> Head(queued), from |-> "queue"])
         /\ UNCHANGED queued
    ELSE Shows(c) /\ UNCHANGED <<queued, sends>>

\* flushQueue: the next message is shown as a turn and sent.
ShowsAndFlushes(c) ==
    IF Hears /\ queued # << >>
    THEN /\ conv' = AppendUserTurn(c)
         /\ queued' = Tail(queued)
         /\ sends' = Append(sends, [msg |-> Head(queued), from |-> "queue"])
    ELSE Shows(c) /\ UNCHANGED <<queued, sends>>

\* A result frame of a sub-agent changes no state, but flushes all the same.
ChildResult(s) ==
    /\ Emits(s) /\ cli[s].task \in {"runs", "returned"} /\ queued # << >>
    /\ ShowsAndFlushes(conv)
    /\ UNCHANGED <<sessionVars, cli, allowed, draft, delivered, overlap, inputs>>

Result(s) ==
    /\ Emits(s) /\ cli[s].turn /\ ~cli[s].asks /\ cli[s].task = "none"
    /\ Does(s, "turn", FALSE)
    /\ ShowsAndFlushes(ApplyResult(conv, s))
    /\ UNCHANGED <<sessionVars, allowed, draft, delivered, overlap, inputs>>

ExitFrame(s) ==
    /\ child[s] = "dying"
    /\ child' = [child EXCEPT ![s] = "gone"]
    /\ Shows(ApplyExit(conv, s))
    /\ UNCHANGED <<phase, keyed, sess, cli, allowed, textVars, inputs>>

-----------------------------------------------------------------------------
Next ==
    \/ SessionStarts \/ StartFails \/ Restart \/ Boots
    \/ Remount \/ FindsLive \/ Attach
    \/ SendStart \/ Queue \/ Clear
    \/ \E t \in Text : Type(t)
    \/ \E i \in DOMAIN sends : SendHandled(i)
    \/ \E forSession \in BOOLEAN : Answer(forSession)
    \/ \E s \in Session : ChildEnds(s)
    \/ \E s \in Session : InitFrame(s)
    \/ \E s \in Session : TurnStarts(s)
    \/ \E s \in Session : TurnOpens(s)
    \/ \E s \in Session : TurnGoesOn(s)
    \/ \E s \in Session : Delta(s)
    \/ \E s \in Session : Assistant(s)
    \/ \E s \in Session : Asks(s)
    \/ \E s \in Session : Delegates(s)
    \/ \E s \in Session : ChildCalls(s)
    \/ \E s \in Session : ChildReturns(s)
    \/ \E s \in Session : TaskReturns(s)
    \/ \E s \in Session : OrchestrationStarts(s)
    \/ \E s \in Session : OrchestrationEnds(s)
    \/ \E s \in Session : ChildResult(s)
    \/ \E s \in Session : Result(s)
    \/ \E s \in Session : ExitFrame(s)

Spec == Init /\ [][Next]_vars

-----------------------------------------------------------------------------
(* Properties                                                              *)

ChildState ==
    [init : BOOLEAN, turn : BOOLEAN, inbox : Nat, asks : BOOLEAN,
     task : {"none", "runs", "calls", "returned"}, orch : BOOLEAN]
Calls == [of : Session, level : {"main", "child"}, done : BOOLEAN]
ConversationType ==
    [status : {"starting", "idle", "running", "exited"}, by : 0..MaxSessions,
     stream : 0..MaxSessions, permissions : Seq(Session),
     calls : SUBSET Calls, orchestrations : SUBSET Session]
Send == [msg : SUBSET Text, from : {"draft", "queue", "clear"}]

\* Every variable is of its type, and no request is in the dialogs twice.
TypeOK ==
    /\ phase \in {"booting", "starting", "attaching", "started", "failed"}
    /\ keyed \in BOOLEAN
    /\ sess \in 0..MaxSessions
    /\ child \in [Session -> {"none", "alive", "dying", "gone"}]
    /\ cli \in [Session -> ChildState]
    /\ conv \in ConversationType /\ IsInjective(conv.permissions)
    /\ allowed \in BOOLEAN
    /\ draft \subseteq Text /\ overlap \subseteq Text
    /\ queued \in Seq(SUBSET Text)
    /\ sends \in Seq(Send)
    /\ delivered \in [Text -> Nat]
    /\ inputs \in 0..MaxInputs

\* A text reaches the sessions once, unless the user sent or queued it again
\* while a send of it was under way: the composer keeps the draft until
\* agent_send has answered.
SentOnce == \A t \in Text : delivered[t] > 1 => t \in overlap

\* A text that is gone from the composer, the queue and the wire was given to
\* a session, in a step that loses it for one of three reasons: agent_send was
\* refused, since no session took it; it was typed behind a draft or a /clear
\* that then emptied the composer; or /clear emptied the composer and the queue.
TextIsKept ==
    [][\A t \in Held \ Held' : delivered'[t] = 0 =>
         \/ ~Lives /\ \E m \in ToSet(sends) : t \in m.msg
         \/ /\ t \in draft
            /\ \E m \in ToSet(sends) : m.from # "queue" /\ t \notin m.msg
         \/ draft' = {} /\ queued' = << >> /\ Len(sends') >= Len(sends)]_vars

\* What the pane shows of its live session is what the session is doing: its
\* open request is in the dialogs, and no answered one; its orchestration is
\* listed while it runs; its text streams, its sub-agent and the sub-agent's
\* own call are open only while they are.  This holds across restarts, /clear
\* and the late frames of the sessions before.
LiveIsShown ==
    \A s \in Session : Takes(s) =>
        /\ cli[s].asks <=> s \in ToSet(conv.permissions)
        /\ s \in ActiveOrchestrations(conv) <=>
               cli[s].orch /\ conv.status # "exited"
        /\ conv.stream = s => cli[s].turn
        /\ s \in ActiveSubagents(conv) => cli[s].task # "none"
        /\ Call(s, "child", FALSE) \in conv.calls => cli[s].task = "calls"

\* Once the live session has reported, a pane that is shown running has a
\* message on its way or a turn going on, and a turn is shown as one.  Either
\* may be undone by a frame of a session before, a late status/requesting or
\* exit, since frames are applied by pane (agent-conversation.ts:1343-1350);
\* and a turn goes on unseen from a remount that boots again and attaches
\* (agent-pane.tsx:463, 554) to the next request.
RunningIsWork ==
    \A s \in Session : Takes(s) /\ cli[s].init /\ conv.by \in {0, s} =>
        /\ conv.status = "running" =>
               sends # << >> \/ cli[s].turn \/ cli[s].inbox > 0
        /\ cli[s].turn /\ conv.status # "running" =>
               /\ conv.by = 0
               /\ conv.status = IF phase = "started" THEN "idle" ELSE "starting"
=============================================================================
