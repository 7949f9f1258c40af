------------------------------ MODULE AgentPane ------------------------------
(***************************************************************************)
(* The lifecycle of one agent pane of the terminal page                    *)
(* (frontend/src/components/terminal/agent-pane.tsx): the component that   *)
(* subscribes to the frames of its session, starts it, restarts it and     *)
(* stops it, with the pane's slot in the shell (AgentSessions, here in     *)
(* steps as large as the pane can tell apart) and the `claude` children.   *)
(*                                                                         *)
(* The component may be unmounted and mounted again at any time while its  *)
(* leaf is in the layout.  Every mount and every restart boots: boot b is  *)
(* one run of the lifecycle effect, and also the name of the session it    *)
(* starts.  Commands of the pane are handled by the shell in any order.    *)
(***************************************************************************)
EXTENDS Naturals, FiniteSets

CONSTANTS
    MaxBoots,         \* bound: boots of the pane
    MaxInputs         \* bound: steps of the user, and sessions that end

ASSUME PaneAssumption == MaxBoots \in Nat \ {0} /\ MaxInputs \in Nat

VARIABLES
    inStore,          \* the leaf is in the layout
    mount,            \* on; the state retryToken, startError; the current boot;
                      \* again: it is not the first mount of the leaf
    boot,             \* [1..MaxBoots -> [pc, key, on]], the async boots
    started,          \* startedPanes: retryTokens started, or on their way
    registered,       \* frameSubscriptions: the subscription, 0 none
    listeners,        \* subscriptions whose listener is live
    pendingSub,       \* pendingSubscriptions: the boot that asked, 0 none
    subs,             \* subscribe calls in flight, by the boot that asked
    stops,            \* agent_stop commands in flight
    pendingStop,      \* pendingStops: the boot whose stop it is, 0 none
    slot,             \* the pane's slot in the shell's registry
    child,            \* [1..MaxBoots -> state of the session's child]
    status,           \* the status of the pane's conversation
    missed,           \* history: boots whose start a stop overtook
    inputs

paneVars == <<inStore, mount, boot, started>>
subVars  == <<registered, listeners, pendingSub, subs>>
stopVars == <<stops, pendingStop, missed>>
vars == <<paneVars, subVars, stopVars, slot, child, status, inputs>>

Boot == 1..MaxBoots
Free == [st |-> "free", of |-> 0]
Slot == {Free} \cup [st : {"reserved", "cancelled", "live"}, of : Boot]

\* Where a boot is, its retryToken, and the subscribe call or the stop it
\* waits for; a component; an agent_stop command.
BootPc == {"unused", "subscribing", "catalog", "starting", "spawning",
           "waiting", "listing", "clearing", "starting again", "taken", "done"}
BootState == [pc : BootPc, key : Nat, on : 0..MaxBoots]
MountState == [on : BOOLEAN, token : Nat, error : BOOLEAN, cur : 0..MaxBoots,
               again : BOOLEAN]
StopCall == [kind : {"cleanup", "run", "boot"}, by : 0..MaxBoots, key : Nat]

-----------------------------------------------------------------------------
(* Boots and cleanups of the component                                     *)

NextBoot == Cardinality({b \in Boot : boot[b].pc # "unused"}) + 1

At(pc, key, on) == [pc |-> pc, key |-> key, on |-> on]
Over(pc) == At(pc, 0, 0)
Current(b) == mount.on /\ mount.cur = b

Input == inputs < MaxInputs /\ inputs' = inputs + 1

\* What a boot that finds its subscription goes on with, at once.
Subscribed(b, key) ==
    IF ~(mount'.on /\ mount'.cur = b) THEN Over("done")
    ELSE IF key \in started THEN Over("taken")
    ELSE At("catalog", key, 0)

\* ensureFrameSubscription: registered, asked for by another boot, or asked.
Mount ==
    /\ Input /\ inStore /\ ~mount.on /\ NextBoot \in Boot
    /\ mount' = [on |-> TRUE, token |-> 0, error |-> FALSE, cur |-> NextBoot,
               again |-> TRUE]
    /\ boot' = [boot EXCEPT ![NextBoot] =
                  CASE registered # 0 -> Subscribed(NextBoot, 0)
                    [] registered = 0 /\ pendingSub # 0 ->
                         At("subscribing", 0, pendingSub)
                    [] OTHER -> At("subscribing", 0, NextBoot)]
    /\ IF registered = 0 /\ pendingSub = 0
       THEN pendingSub' = NextBoot /\ subs' = subs \cup {NextBoot}
       ELSE UNCHANGED <<pendingSub, subs>>
    /\ status' = IF boot'[NextBoot].pc = "catalog" THEN "starting"
                 ELSE status
    /\ UNCHANGED <<inStore, started, registered, listeners, stopVars, slot,
                   child>>

Unmounted == [on |-> FALSE, token |-> 0, error |-> FALSE, cur |-> 0,
              again |-> FALSE]

\* Mutant: the frame subscription is the mounted component's.
UnmountDisposes ==
    /\ Input /\ mount.on
    /\ mount' = Unmounted
    /\ listeners' = {} /\ registered' = 0 /\ pendingSub' = 0
    /\ UNCHANGED <<inStore, boot, started, subs, stopVars, slot, child, status>>

\* The cleanup sees the leaf in the layout and leaves the session alone.
Unmount ==
    /\ Input /\ mount.on
    /\ mount' = Unmounted
    /\ UNCHANGED <<inStore, boot, started, subVars, stopVars, slot, child,
                   status>>

\* disposeFrameSubscription, and the stop that a cleanup cannot await.
Teardown ==
    /\ listeners' = listeners \ {registered}
    /\ registered' = 0
    /\ stops' = stops \cup {[kind |-> "cleanup", by |-> mount.cur,
                             key |-> mount.token]}
    /\ pendingStop' = mount.cur

\* Mutant: boots are keyed on the leaf alone.
RestartSameKey ==
    /\ Input /\ mount.on /\ NextBoot \in Boot
    /\ Teardown
    /\ mount' = [mount EXCEPT !.error = FALSE, !.cur = NextBoot]
    /\ boot' = [boot EXCEPT ![NextBoot] = At("subscribing", 0, NextBoot)]
    /\ pendingSub' = NextBoot /\ subs' = subs \cup {NextBoot}
    /\ UNCHANGED <<inStore, started, missed, slot, child, status>>

\* Restart, retry, or another provider: cleanup, then a boot of its own key.
Restart ==
    /\ Input /\ mount.on /\ NextBoot \in Boot
    /\ Teardown
    /\ mount' = [mount EXCEPT !.token = @ + 1, !.error = FALSE, !.cur = NextBoot]
    /\ boot' = [boot EXCEPT ![NextBoot] =
                  At("subscribing", mount.token + 1, NextBoot)]
    /\ pendingSub' = NextBoot /\ subs' = subs \cup {NextBoot}
    /\ UNCHANGED <<inStore, started, missed, slot, child, status>>

\* The leaf leaves the layout while mounted: both effects clean up.
CloseLeaf ==
    /\ Input /\ mount.on
    /\ Teardown
    /\ pendingSub' = 0
    /\ inStore' = FALSE
    /\ mount' = Unmounted
    /\ status' = "starting"
    /\ UNCHANGED <<boot, started, subs, missed, slot, child>>

\* Stop in the list of runs while the page is not mounted: no cleanup runs.
StopUnmounted ==
    /\ Input /\ inStore /\ ~mount.on
    /\ stops' = stops \cup {[kind |-> "run", by |-> 0, key |-> 0]}
    /\ inStore' = FALSE
    /\ UNCHANGED <<mount, boot, started, subVars, pendingStop, missed, slot,
                   child, status>>

\* The boots that waited for the answer go on.
Answered(s) ==
    /\ boot' = [b \in Boot |->
                  IF boot[b].pc = "subscribing" /\ boot[b].on = s
                  THEN Subscribed(b, boot[b].key) ELSE boot[b]]
    /\ status' = IF \E b \in Boot : boot[b].pc # boot'[b].pc /\ boot'[b].pc = "catalog"
                 THEN "starting" ELSE status

\* Mutant: the listener is registered whether or not it was disposed of.
SubscribeAnswersAnyway(s) ==
    /\ s \in subs
    /\ subs' = subs \ {s}
    /\ listeners' = listeners \cup {s} /\ registered' = s
    /\ pendingSub' = 0
    /\ UNCHANGED <<inStore, mount, started, stopVars, slot, child, inputs>>
    /\ Answered(s)

\* A pending entry, of whichever call, is what lets a listener stay.
SubscribeAnswers(s) ==
    /\ s \in subs
    /\ subs' = subs \ {s}
    /\ IF pendingSub = 0 THEN UNCHANGED <<listeners, registered>>
       ELSE listeners' = listeners \cup {s} /\ registered' = s
    /\ pendingSub' = 0
    /\ UNCHANGED <<inStore, mount, started, stopVars, slot, child, inputs>>
    /\ Answered(s)

\* The working directory and the providers are known.
BootCatalog(b) ==
    /\ boot[b].pc = "catalog"
    /\ IF Current(b)
       THEN /\ started' = started \cup {boot[b].key}
            /\ boot' = [boot EXCEPT ![b].pc = "starting"]
       ELSE boot' = [boot EXCEPT ![b] = Over("done")] /\ UNCHANGED started
    /\ UNCHANGED <<inStore, mount, subVars, stopVars, slot, child, status,
                   inputs>>

NoWorkingDirectory(b) ==
    /\ boot[b].pc = "catalog" /\ Current(b)
    /\ boot' = [boot EXCEPT ![b] = Over("done")]
    /\ mount' = [mount EXCEPT !.error = TRUE]
    /\ UNCHANGED <<inStore, started, subVars, stopVars, slot, child, status,
                   inputs>>

-----------------------------------------------------------------------------
(* agent_start and agent_stop: a command is answered before the next one   *)

\* The catch of boot.
Fails(b) ==
    /\ boot' = [boot EXCEPT ![b] = Over("done")]
    /\ started' = started \ {boot[b].key}
    /\ mount' = [mount EXCEPT !.error = @ \/ Current(b)]

\* Mutant: a refused start does not wait for the stop.
StartHandledAtOnce(b) ==
    /\ boot[b].pc \in {"starting", "starting again"}
    /\ IF slot = Free
       THEN /\ slot' = [st |-> "reserved", of |-> b]
            /\ boot' = [boot EXCEPT ![b].pc = "spawning"]
       ELSE /\ boot' = [boot EXCEPT ![b].pc = "starting again"]
            /\ UNCHANGED slot
    /\ UNCHANGED <<inStore, mount, started, subVars, stopVars, child, status,
                   inputs>>

\* The pane is reserved, or the start refused: the slot is our own on its
\* way out, or somebody else's.
StartHandled(b) ==
    /\ boot[b].pc \in {"starting", "starting again"}
    /\ CASE slot = Free ->
              /\ slot' = [st |-> "reserved", of |-> b]
              /\ boot' = [boot EXCEPT ![b].pc = "spawning"]
              /\ UNCHANGED <<started, mount>>
         [] slot # Free /\ boot[b].pc = "starting" ->
              /\ boot' = [boot EXCEPT ![b] =
                            IF pendingStop # 0 THEN At("waiting", @.key, pendingStop)
                            ELSE At("listing", @.key, 0)]
              /\ UNCHANGED <<slot, started, mount>>
         [] slot # Free /\ boot[b].pc = "starting again" ->
              Fails(b) /\ UNCHANGED slot
    /\ UNCHANGED <<inStore, subVars, stopVars, child, status, inputs>>

\* Mutant: the session is published over the stop.
StartPublishAnyway(b) ==
    /\ boot[b].pc = "spawning"
    /\ slot' = [slot EXCEPT !.st = "live"]
    /\ boot' = [boot EXCEPT ![b] = Over("done")]
    /\ child' = [child EXCEPT ![b] = "alive"]
    /\ UNCHANGED <<inStore, started, mount, subVars, stopVars, status, inputs>>

\* The session is published, or was stopped meanwhile and is killed.
StartPublish(b) ==
    /\ boot[b].pc = "spawning"
    /\ IF slot.st = "reserved"
       THEN /\ slot' = [slot EXCEPT !.st = "live"]
            /\ boot' = [boot EXCEPT ![b] = Over("done")]
            /\ child' = [child EXCEPT ![b] = "alive"]
            /\ UNCHANGED <<started, mount>>
       ELSE /\ slot' = Free /\ Fails(b)
            /\ child' = [child EXCEPT ![b] = "dying"]
    /\ UNCHANGED <<inStore, subVars, stopVars, status, inputs>>

\* Mutant: the reservation outlives the start.
ProvisionFailsReserved(b) ==
    /\ boot[b].pc = "spawning"
    /\ Fails(b)
    /\ UNCHANGED <<inStore, subVars, stopVars, slot, child, status, inputs>>

ProvisionFails(b) ==
    /\ boot[b].pc = "spawning"
    /\ slot' = Free /\ Fails(b)
    /\ UNCHANGED <<inStore, subVars, stopVars, child, status, inputs>>

\* list_live_panes: attach to the live session, or clear the slot.
BootListed(b) ==
    /\ boot[b].pc = "listing"
    /\ IF Current(b) /\ slot.st # "live"
       THEN /\ boot' = [boot EXCEPT ![b].pc = "clearing"]
            /\ stops' = stops \cup {[kind |-> "boot", by |-> b, key |-> 0]}
            /\ UNCHANGED status
       ELSE /\ boot' = [boot EXCEPT ![b] = Over("done")]
            /\ status' = IF Current(b) THEN "idle" ELSE status
            /\ UNCHANGED stops
    /\ UNCHANGED <<inStore, mount, started, subVars, pendingStop, missed, slot,
                   child, inputs>>

\* The boots that go on when the stop has been answered.
WaitsFor(b, c) ==
    \/ c.kind = "cleanup" /\ boot[b].pc = "waiting" /\ boot[b].on = c.by
    \/ c.kind = "boot" /\ boot[b].pc = "clearing" /\ b = c.by

StopHandled(c) ==
    /\ c \in stops
    /\ stops' = stops \ {c}
    /\ slot' = CASE slot.st = "live"     -> Free
                 [] slot.st = "reserved" -> [slot EXCEPT !.st = "cancelled"]
                 [] OTHER -> slot
    /\ child' = [s \in Boot |-> IF slot = [st |-> "live", of |-> s] THEN "dying"
                                ELSE child[s]]
    /\ IF c.kind = "cleanup"
       THEN /\ started' = started \ {c.key}
            /\ pendingStop' = IF pendingStop = c.by THEN 0 ELSE pendingStop
       ELSE UNCHANGED <<started, pendingStop>>
    /\ boot' = [b \in Boot |->
                  IF ~WaitsFor(b, c) THEN boot[b]
                  ELSE IF Current(b) THEN At("starting again", boot[b].key, 0)
                  ELSE Over("done")]
    /\ missed' = {b \in missed : child[b] \in {"none", "alive", "ready"}} \cup
                 {b \in Boot : boot[b].pc \in {"starting", "starting again"}}
    /\ UNCHANGED <<inStore, mount, subVars, status, inputs>>

-----------------------------------------------------------------------------
(* The sessions; a pane without a listener misses their frames             *)

Shows(st) == status' = IF listeners = {} THEN status ELSE st

InitFrame(s) ==
    /\ child[s] = "alive"
    /\ child' = [child EXCEPT ![s] = "ready"]
    /\ Shows("idle")
    /\ UNCHANGED <<paneVars, subVars, stopVars, slot, inputs>>

ChildEnds(s) ==
    /\ Input /\ child[s] \in {"alive", "ready"}
    /\ child' = [child EXCEPT ![s] = "dying"]
    /\ UNCHANGED <<paneVars, subVars, stopVars, slot, status>>

\* The waiter frees the slot if it is still this session's, then the frame.
ExitFrame(s) ==
    /\ child[s] = "dying"
    /\ child' = [child EXCEPT ![s] = "none"]
    /\ slot' = IF slot = [st |-> "live", of |-> s] THEN Free ELSE slot
    /\ Shows("exited")
    /\ UNCHANGED <<paneVars, subVars, stopVars, inputs>>

-----------------------------------------------------------------------------
\* The pane of a launch, mounted for the first time.
Init ==
    /\ inStore = TRUE
    /\ mount = [on |-> TRUE, token |-> 0, error |-> FALSE, cur |-> 1,
                again |-> FALSE]
    /\ boot = [b \in Boot |-> IF b = 1 THEN At("subscribing", 0, 1)
                              ELSE At("unused", 0, 0)]
    /\ started = {}
    /\ registered = 0 /\ listeners = {} /\ pendingSub = 1 /\ subs = {1}
    /\ stops = {} /\ pendingStop = 0
    /\ slot = Free
    /\ child = [s \in Boot |-> "none"]
    /\ status = "starting"
    /\ missed = {} /\ inputs = 0

Next ==
    \/ Mount \/ Unmount \/ Restart \/ CloseLeaf \/ StopUnmounted
    \/ \E c \in stops : StopHandled(c)
    \/ \E s \in subs : SubscribeAnswers(s)
    \/ \E b \in Boot : BootCatalog(b)
    \/ \E b \in Boot : NoWorkingDirectory(b)
    \/ \E b \in Boot : StartHandled(b)
    \/ \E b \in Boot : StartPublish(b)
    \/ \E b \in Boot : ProvisionFails(b)
    \/ \E b \in Boot : BootListed(b)
    \/ \E s \in Boot : InitFrame(s)
    \/ \E s \in Boot : ChildEnds(s)
    \/ \E s \in Boot : ExitFrame(s)

Spec == Init /\ [][Next]_vars

-----------------------------------------------------------------------------
(* Properties                                                              *)

\* Every variable is of its type, and a reservation is that of a start which
\* is still being provisioned: no failed start keeps the pane.
TypeOK ==
    /\ inStore \in BOOLEAN
    /\ mount \in MountState
    /\ boot \in [Boot -> BootState]
    /\ started \subseteq Nat
    /\ registered \in 0..MaxBoots /\ listeners \subseteq Boot
    /\ pendingSub \in 0..MaxBoots /\ subs \subseteq Boot
    /\ stops \subseteq StopCall
    /\ pendingStop \in 0..MaxBoots
    /\ slot \in Slot
    /\ slot.st \in {"reserved", "cancelled"} => boot[slot.of].pc = "spawning"
    /\ child \in [Boot -> {"none", "alive", "ready", "dying"}]
    /\ missed \subseteq Boot
    /\ status \in {"starting", "idle", "exited"}
    /\ inputs \in 0..MaxInputs

HasSession(s) ==
    slot = [st |-> "live", of |-> s] /\ child[s] \in {"alive", "ready"}

\* Frames are applied once, and to a pane that is gone not at all: the only
\* listener there is is the one disposeFrameSubscription knows, however the
\* answers of subscribe calls fall between mounts, restarts and the close.
ListenerIsRegistered == listeners \subseteq {registered} \ {0}

\* While the leaf is in the layout, mounted or not, the frames of its live
\* session land: there is a listener, or one is on its way (at the mount or
\* after a restart) and will stay.
LiveSessionIsHeard ==
    inStore /\ (\E s \in Boot : HasSession(s)) =>
        listeners # {} \/ (subs # {} /\ pendingSub # 0)

Settled ==
    /\ mount.on /\ stops = {}
    /\ \A b \in Boot : boot[b].pc \in {"unused", "taken", "done"}

\* A pane at rest has a session, or says why it has none: an error with a
\* retry, an exit with a restart (which may still be on its way).  The one
\* way out is a boot that found its key taken in a pane that was mounted
\* before: retryToken begins at 0 again and mints keys startedPanes has seen.
SettledPaneHasSession ==
    Settled => \/ mount.error \/ status = "exited"
               \/ \E s \in Boot : HasSession(s) \/ child[s] = "dying"
               \/ mount.again /\ boot[mount.cur].pc = "taken"

\* The stop a refused start has waited for made room for the second attempt,
\* which is the last.  It did not if it cancelled a start that has still to
\* give up its reservation, or overtook one that then took the pane.
StopMakesRoom ==
    \A b \in Boot : Current(b) /\ boot[b].pc = "starting again" =>
        slot = Free \/ slot.st = "cancelled" \/ slot.of \in missed

\* A leaf that is gone leaves no session behind once its stops are handled,
\* but for a session whose start was handled after a stop that was meant for
\* it.
NoSessionWithoutPane ==
    ~inStore /\ stops = {} => \A s \in Boot : HasSession(s) => s \in missed
=============================================================================
