--------------------------- MODULE AgentPaneProofs ---------------------------
(***************************************************************************)
(* Proofs about AgentPane, for any number of boots and inputs.             *)
(*                                                                         *)
(* The effects of the steps on the boots are lemmas of their own: the      *)
(* invariants cite what a step does to the boots and not how it says so.   *)
(***************************************************************************)
EXTENDS AgentPane, FiniteSetTheorems, TLAPS

-----------------------------------------------------------------------------
(* Records                                                                 *)

\* A boot that is over is of its type.
LEMMA OverType ==
    ASSUME NEW pc \in BootPc
    PROVE  Over(pc) \in BootState /\ Over(pc).pc = pc
BY PaneAssumption DEF Over, At, BootState, PaneAssumption

\* So is one that goes on to another step.
LEMMA PcType ==
    ASSUME NEW r \in BootState, NEW pc \in BootPc
    PROVE  /\ [r EXCEPT !.pc = pc] \in BootState
           /\ [r EXCEPT !.pc = pc].pc = pc /\ [r EXCEPT !.pc = pc].key = r.key
BY DEF BootState

\* The fields of a boot.
LEMMA BootFields ==
    ASSUME TypeOK, NEW b \in Boot
    PROVE  /\ boot \in [Boot -> BootState] /\ boot[b] \in BootState
           /\ boot[b].pc \in BootPc /\ boot[b].key \in Nat
           /\ boot[b].on \in 0..MaxBoots
BY DEF TypeOK, BootState

\* One boot goes on, the others stay.
LEMMA BootGoesOn ==
    ASSUME boot \in [Boot -> BootState], NEW b \in Boot, NEW v \in BootState,
           boot' = [boot EXCEPT ![b] = v]
    PROVE  /\ boot' \in [Boot -> BootState]
           /\ boot'[b] = v
           /\ \A c \in Boot \ {b} : boot'[c] = boot[c]
OBVIOUS

\* The bounds of what boots and calls are named by.
LEMMA Bounds ==
    /\ Boot \subseteq 0..MaxBoots /\ 0 \in 0..MaxBoots /\ 0 \notin Boot
    /\ 1 \in Boot /\ MaxBoots \in Nat
    /\ 0 \in 0..MaxInputs
    /\ inputs \in 0..MaxInputs /\ Input => inputs' \in 0..MaxInputs
BY PaneAssumption DEF Boot, Input, PaneAssumption

-----------------------------------------------------------------------------
(* What the steps do to the boots                                          *)

\* Boots are taken in order; the shell's reservation is that of the one boot
\* that is spawning; a component is mounted for a leaf that is there.
BootInv ==
    /\ \E n \in 0..MaxBoots : {b \in Boot : boot[b].pc # "unused"} = 1..n
    /\ \A b \in Boot : boot[b].pc = "spawning" =>
           slot.of = b /\ slot.st \in {"reserved", "cancelled"}
    /\ mount.on =>
           inStore /\ mount.cur \in Boot /\ boot[mount.cur].pc # "unused"

\* The next boot is one that nothing in the pane or the shell knows yet.
LEMMA NextBootIsNew ==
    ASSUME BootInv, NextBoot \in Boot
    PROVE  /\ boot[NextBoot].pc = "unused"
           /\ {b \in Boot : boot[b].pc # "unused"} = 1..(NextBoot - 1)
<1>1. PICK n \in 0..MaxBoots : {b \in Boot : boot[b].pc # "unused"} = 1..n
  BY DEF BootInv
<1>2. Cardinality(1..n) = n
  BY FS_Interval, PaneAssumption DEF PaneAssumption
<1>3. NextBoot = n + 1
  BY <1>1, <1>2 DEF NextBoot
<1> QED BY <1>1, <1>3, PaneAssumption DEF Boot, PaneAssumption

\* A mount takes the next boot, which finds its subscription or asks.
LEMMA MountBoots ==
    ASSUME TypeOK, BootInv, Mount
    PROVE  /\ NextBoot \in Boot /\ boot[NextBoot].pc = "unused"
           /\ boot' \in [Boot -> BootState]
           /\ \A b \in Boot \ {NextBoot} : boot'[b] = boot[b]
           /\ \/ boot'[NextBoot].pc = "subscribing" /\ registered = 0
              \/ boot'[NextBoot].pc = "catalog" /\ registered # 0
              \/ boot'[NextBoot].pc = "taken" /\ registered # 0
           /\ boot'[NextBoot].pc \in {"subscribing", "catalog"} =>
                boot'[NextBoot].key = 0
<1>1. NextBoot \in Boot /\ boot[NextBoot].pc = "unused"
  BY NextBootIsNew DEF Mount
<1>2. pendingSub \in 0..MaxBoots /\ NextBoot \in 0..MaxBoots /\ 0 \in Nat
      /\ boot \in [Boot -> BootState]
  BY <1>1, Bounds, BootFields DEF TypeOK
<1>3. mount'.on /\ mount'.cur = NextBoot
  BY DEF Mount
<1>4. \/ /\ boot' = [boot EXCEPT ![NextBoot] = Over("taken")]
         /\ registered # 0
      \/ /\ boot' = [boot EXCEPT ![NextBoot] = At("catalog", 0, 0)]
         /\ registered # 0
      \/ /\ \E on \in 0..MaxBoots :
              boot' = [boot EXCEPT ![NextBoot] = At("subscribing", 0, on)]
         /\ registered = 0
  BY <1>2, <1>3 DEF Mount, Subscribed
<1>5. CASE /\ boot' = [boot EXCEPT ![NextBoot] = Over("taken")]
           /\ registered # 0
  BY <1>1, <1>2, <1>5, BootGoesOn, OverType DEF BootPc
<1>6. CASE /\ boot' = [boot EXCEPT ![NextBoot] = At("catalog", 0, 0)]
           /\ registered # 0
  <2>1. At("catalog", 0, 0) \in BootState /\ At("catalog", 0, 0).pc = "catalog"
        /\ At("catalog", 0, 0).key = 0
    BY Bounds DEF At, BootState, BootPc
  <2> QED BY <1>1, <1>2, <1>6, <2>1, BootGoesOn
<1>7. CASE /\ \E on \in 0..MaxBoots :
                boot' = [boot EXCEPT ![NextBoot] = At("subscribing", 0, on)]
           /\ registered = 0
  <2>1. PICK on \in 0..MaxBoots :
          boot' = [boot EXCEPT ![NextBoot] = At("subscribing", 0, on)]
    BY <1>7
  <2>2. /\ At("subscribing", 0, on) \in BootState
        /\ At("subscribing", 0, on).pc = "subscribing"
        /\ At("subscribing", 0, on).key = 0
    BY DEF At, BootState, BootPc
  <2> QED BY <1>1, <1>2, <1>7, <2>1, <2>2, BootGoesOn
<1> QED BY <1>4, <1>5, <1>6, <1>7

\* A restart takes the next boot, under a retryToken of its own.
LEMMA RestartBoots ==
    ASSUME TypeOK, BootInv, Restart
    PROVE  /\ NextBoot \in Boot /\ boot[NextBoot].pc = "unused"
           /\ boot' \in [Boot -> BootState]
           /\ \A b \in Boot \ {NextBoot} : boot'[b] = boot[b]
           /\ boot'[NextBoot].pc = "subscribing"
           /\ boot'[NextBoot].key = mount.token + 1
<1>1. NextBoot \in Boot /\ boot[NextBoot].pc = "unused"
  BY NextBootIsNew DEF Restart
<1>2. /\ boot' = [boot EXCEPT ![NextBoot] =
                    At("subscribing", mount.token + 1, NextBoot)]
      /\ mount.token + 1 \in Nat /\ NextBoot \in 0..MaxBoots
      /\ boot \in [Boot -> BootState]
  BY <1>1, Bounds DEF Restart, TypeOK, MountState
<1>3. /\ At("subscribing", mount.token + 1, NextBoot) \in BootState
      /\ At("subscribing", mount.token + 1, NextBoot).pc = "subscribing"
      /\ At("subscribing", mount.token + 1, NextBoot).key = mount.token + 1
  BY <1>2 DEF At, BootState, BootPc
<1> QED BY <1>1, <1>2, <1>3, BootGoesOn

\* The answer to a stop wakes the boots that waited for it; the current one
\* tries again.
LEMMA StopBoots ==
    ASSUME TypeOK, NEW c \in stops, StopHandled(c)
    PROVE  /\ boot' \in [Boot -> BootState]
           /\ \A b \in Boot :
                \/ boot'[b] = boot[b]
                \/ /\ boot[b].pc \in {"waiting", "clearing"}
                   /\ \/ Current(b) /\ boot'[b].pc = "starting again"
                      \/ ~Current(b) /\ boot'[b].pc = "done"
<1>1. \A b \in Boot :
        \/ boot'[b] = boot[b]
        \/ /\ boot[b].pc \in {"waiting", "clearing"}
           /\ \/ Current(b) /\ boot'[b] = At("starting again", boot[b].key, 0)
              \/ ~Current(b) /\ boot'[b] = Over("done")
  BY DEF StopHandled, WaitsFor
<1>2. \A b \in Boot : boot'[b] \in BootState /\
        \/ boot'[b] = boot[b]
        \/ /\ boot[b].pc \in {"waiting", "clearing"}
           /\ \/ Current(b) /\ boot'[b].pc = "starting again"
              \/ ~Current(b) /\ boot'[b].pc = "done"
  <2> TAKE b \in Boot
  <2>1. At("starting again", boot[b].key, 0) \in BootState
        /\ At("starting again", boot[b].key, 0).pc = "starting again"
        /\ Over("done") \in BootState /\ Over("done").pc = "done"
        /\ boot[b] \in BootState
    BY BootFields, OverType, Bounds DEF At, BootState, BootPc
  <2> QED BY <1>1, <2>1
<1>3. boot' = [b \in Boot |-> boot'[b]]
  BY DEF StopHandled
<1> QED BY <1>2, <1>3

\* The answer to a subscribe call wakes the boots that waited for it; the
\* current one goes on unless its key is taken.
LEMMA SubscribeBoots ==
    ASSUME TypeOK, NEW s \in subs, SubscribeAnswers(s)
    PROVE  /\ boot' \in [Boot -> BootState]
           /\ \A b \in Boot :
                \/ boot'[b] = boot[b]
                \/ /\ boot[b].pc = "subscribing"
                   /\ \/ ~Current(b) /\ boot'[b].pc = "done"
                      \/ /\ Current(b) /\ boot'[b].pc = "taken"
                         /\ boot[b].key \in started
                      \/ /\ Current(b) /\ boot'[b].pc = "catalog"
                         /\ boot'[b].key = boot[b].key
                         /\ boot[b].key \notin started
<1>1. \A b \in Boot :
        \/ boot'[b] = boot[b]
        \/ /\ boot[b].pc = "subscribing"
           /\ \/ ~Current(b) /\ boot'[b] = Over("done")
              \/ /\ Current(b) /\ boot'[b] = Over("taken")
                 /\ boot[b].key \in started
              \/ /\ Current(b) /\ boot'[b] = At("catalog", boot[b].key, 0)
                 /\ boot[b].key \notin started
  BY DEF SubscribeAnswers, Answered, Subscribed, Current
<1>2. \A b \in Boot : boot'[b] \in BootState /\
                \/ boot'[b] = boot[b]
                \/ /\ boot[b].pc = "subscribing"
                   /\ \/ ~Current(b) /\ boot'[b].pc = "done"
                      \/ /\ Current(b) /\ boot'[b].pc = "taken"
                         /\ boot[b].key \in started
                      \/ /\ Current(b) /\ boot'[b].pc = "catalog"
                         /\ boot'[b].key = boot[b].key
                         /\ boot[b].key \notin started
  <2> TAKE b \in Boot
  <2>1. /\ At("catalog", boot[b].key, 0) \in BootState
        /\ At("catalog", boot[b].key, 0).pc = "catalog"
        /\ At("catalog", boot[b].key, 0).key = boot[b].key
        /\ Over("done") \in BootState /\ Over("done").pc = "done"
        /\ Over("taken") \in BootState /\ Over("taken").pc = "taken"
        /\ boot[b] \in BootState
    BY BootFields, OverType, Bounds DEF At, BootState, BootPc
  <2> QED BY <1>1, <2>1
<1>3. boot' = [b \in Boot |-> boot'[b]]
  BY DEF SubscribeAnswers, Answered
<1> QED BY <1>2, <1>3

\* The boot that knows its directory and its provider starts, if it is still
\* the current one.
LEMMA CatalogBoots ==
    ASSUME TypeOK, NEW b \in Boot, BootCatalog(b) \/ NoWorkingDirectory(b)
    PROVE  /\ boot' \in [Boot -> BootState]
           /\ \A c \in Boot \ {b} : boot'[c] = boot[c]
           /\ boot[b].pc = "catalog"
           /\ \/ Current(b) /\ boot'[b].pc = "starting"
              \/ ~Current(b) /\ boot'[b].pc = "done"
              \/ mount'.error /\ boot'[b].pc = "done"
<1>0. boot \in [Boot -> BootState] /\ boot[b] \in BootState
  BY BootFields
<1>1. CASE BootCatalog(b) /\ Current(b)
  <2>1. boot' = [boot EXCEPT ![b] = [boot[b] EXCEPT !.pc = "starting"]]
    BY <1>1 DEF BootCatalog
  <2> QED BY <1>0, <1>1, <2>1, PcType, BootGoesOn DEF BootCatalog, BootPc
<1>2. CASE BootCatalog(b) /\ ~Current(b)
  BY <1>0, <1>2, OverType, BootGoesOn DEF BootCatalog, BootPc
<1>3. CASE NoWorkingDirectory(b)
  <2>1. mount'.error
    BY <1>3 DEF NoWorkingDirectory, TypeOK, MountState
  <2> QED
    BY <1>0, <1>3, <2>1, OverType, BootGoesOn DEF NoWorkingDirectory, BootPc
<1> QED BY <1>1, <1>2, <1>3

\* A start is taken, or refused once and waits, or refused for good.
LEMMA StartBoots ==
    ASSUME TypeOK, NEW b \in Boot, StartHandled(b)
    PROVE  /\ boot' \in [Boot -> BootState]
           /\ \A c \in Boot \ {b} : boot'[c] = boot[c]
           /\ boot[b].pc \in {"starting", "starting again"}
           /\ \/ /\ slot = Free /\ slot' = [st |-> "reserved", of |-> b]
                 /\ boot'[b].pc = "spawning" /\ mount' = mount
                 /\ started' = started
              \/ /\ slot' = slot /\ boot'[b].pc \in {"waiting", "listing"}
                 /\ mount' = mount /\ started' = started
              \/ /\ slot' = slot /\ boot'[b].pc = "done" /\ Fails(b)
<1>0. boot[b] \in BootState /\ boot[b].key \in Nat /\ pendingStop \in 0..MaxBoots
      /\ 0 \in 0..MaxBoots /\ boot \in [Boot -> BootState]
  BY BootFields, Bounds DEF TypeOK
<1>1. CASE slot = Free
  <2>1. boot' = [boot EXCEPT ![b] = [boot[b] EXCEPT !.pc = "spawning"]]
    BY <1>1 DEF StartHandled
  <2> QED BY <1>0, <1>1, <2>1, PcType, BootGoesOn DEF StartHandled, BootPc
<1>2. CASE slot # Free /\ boot[b].pc = "starting"
  <2>1. PICK pc \in {"waiting", "listing"}, on \in 0..MaxBoots :
          boot' = [boot EXCEPT ![b] = At(pc, boot[b].key, on)]
    BY <1>0, <1>2 DEF StartHandled
  <2>2. At(pc, boot[b].key, on) \in BootState /\ At(pc, boot[b].key, on).pc = pc
    BY <1>0, <2>1 DEF At, BootState, BootPc
  <2> QED BY <1>0, <1>2, <2>1, <2>2, BootGoesOn DEF StartHandled
<1>3. CASE slot # Free /\ boot[b].pc = "starting again"
  <2>1. boot' = [boot EXCEPT ![b] = Over("done")] /\ Fails(b)
    BY <1>3 DEF StartHandled, Fails
  <2> QED BY <1>0, <1>3, <2>1, OverType, BootGoesOn DEF StartHandled, BootPc
<1> QED BY <1>1, <1>2, <1>3 DEF StartHandled

\* The spawning boot is over, whatever came of it.
LEMMA SpawnBoots ==
    ASSUME TypeOK, BootInv, NEW b \in Boot, StartPublish(b) \/ ProvisionFails(b)
    PROVE  /\ boot' \in [Boot -> BootState]
           /\ \A c \in Boot \ {b} : boot'[c] = boot[c]
           /\ boot[b].pc = "spawning" /\ boot'[b].pc = "done"
           /\ slot.of = b /\ slot.st \in {"reserved", "cancelled"}
           /\ \/ /\ slot = [st |-> "reserved", of |-> b]
                 /\ slot' = [st |-> "live", of |-> b]
                 /\ child' = [child EXCEPT ![b] = "alive"]
                 /\ mount' = mount /\ started' = started
              \/ slot' = Free /\ Fails(b) /\ child' = [child EXCEPT ![b] = "dying"]
              \/ slot' = Free /\ Fails(b) /\ child' = child
<1>1. boot \in [Boot -> BootState] /\ boot' = [boot EXCEPT ![b] = Over("done")]
  BY BootFields DEF StartPublish, ProvisionFails, Fails
<1>2. boot[b].pc = "spawning"
  BY DEF StartPublish, ProvisionFails
<1>3. slot.of = b /\ slot.st \in {"reserved", "cancelled"}
  BY <1>2 DEF BootInv
<1>4. slot = [st |-> slot.st, of |-> b]
  BY <1>3 DEF TypeOK, Slot, Free
<1>5. CASE StartPublish(b)
  BY <1>1, <1>2, <1>3, <1>4, <1>5, OverType, BootGoesOn
     DEF StartPublish, BootPc
<1>6. CASE ProvisionFails(b)
  BY <1>1, <1>2, <1>3, <1>6, OverType, BootGoesOn DEF ProvisionFails, BootPc
<1> QED BY <1>5, <1>6

\* The boot that asked for the live panes attaches, clears the slot, or ends.
LEMMA ListBoots ==
    ASSUME TypeOK, NEW b \in Boot, BootListed(b)
    PROVE  /\ boot' \in [Boot -> BootState]
           /\ \A c \in Boot \ {b} : boot'[c] = boot[c]
           /\ boot[b].pc = "listing"
           /\ \/ Current(b) /\ slot.st = "live" /\ boot'[b].pc = "done"
              \/ ~Current(b) /\ boot'[b].pc = "done"
              \/ Current(b) /\ boot'[b].pc = "clearing"
<1>0. boot \in [Boot -> BootState] /\ boot[b] \in BootState
  BY BootFields
<1>1. CASE Current(b) /\ slot.st # "live"
  <2>1. boot' = [boot EXCEPT ![b] = [boot[b] EXCEPT !.pc = "clearing"]]
    BY <1>1 DEF BootListed
  <2> QED BY <1>0, <1>1, <2>1, PcType, BootGoesOn DEF BootListed, BootPc
<1>2. CASE ~(Current(b) /\ slot.st # "live")
  BY <1>0, <1>2, OverType, BootGoesOn DEF BootListed, BootPc
<1> QED BY <1>1, <1>2

-----------------------------------------------------------------------------
(* Types                                                                   *)

\* The first boot is the only one at the start.
LEMMA TypeInit == Init => TypeOK /\ BootInv
<1> SUFFICES ASSUME Init PROVE TypeOK /\ BootInv
  OBVIOUS
<1>1. boot \in [Boot -> BootState]
  <2>1. /\ At("subscribing", 0, 1) \in BootState
        /\ At("unused", 0, 0) \in BootState
    BY Bounds DEF At, BootState, BootPc
  <2> QED BY <2>1 DEF Init
<1>2. mount \in MountState /\ slot \in Slot /\ slot.st = "free"
  BY Bounds DEF Init, MountState, Slot, Free
<1>3. TypeOK
  BY <1>1, <1>2, Bounds DEF Init, TypeOK
<1>4. {b \in Boot : boot[b].pc # "unused"} = 1..1
  BY Bounds DEF Init, At
<1>5. BootInv
  BY <1>4, Bounds DEF Init, BootInv, At
<1> QED BY <1>3, <1>5

\* A step that takes no boot into use keeps their order.
LEMMA SameBootsUsed ==
    ASSUME BootInv,
           \A b \in Boot : boot'[b].pc = "unused" <=> boot[b].pc = "unused"
    PROVE  \E n \in 0..MaxBoots : {b \in Boot : boot'[b].pc # "unused"} = 1..n
<1>1. {b \in Boot : boot'[b].pc # "unused"} = {b \in Boot : boot[b].pc # "unused"}
  OBVIOUS
<1> QED BY <1>1 DEF BootInv

\* A step that takes the next boot into use keeps it too.
LEMMA NextBootUsed ==
    ASSUME BootInv, NextBoot \in Boot, boot'[NextBoot].pc # "unused",
           \A b \in Boot \ {NextBoot} : boot'[b] = boot[b]
    PROVE  \E n \in 0..MaxBoots : {b \in Boot : boot'[b].pc # "unused"} = 1..n
<1>1. {b \in Boot : boot'[b].pc # "unused"} = 1..(NextBoot - 1) \cup {NextBoot}
  BY NextBootIsNew
<1>2. 1..(NextBoot - 1) \cup {NextBoot} = 1..NextBoot /\ NextBoot \in 0..MaxBoots
  BY PaneAssumption DEF Boot, PaneAssumption
<1> QED BY <1>1, <1>2

\* The key and the error of a start that fails.
LEMMA FailsType ==
    ASSUME TypeOK, NEW b \in Boot, Fails(b)
    PROVE  /\ started' \subseteq Nat /\ mount' \in MountState
           /\ mount'.on = mount.on /\ mount'.cur = mount.cur
           /\ mount'.token = mount.token /\ mount'.again = mount.again
           /\ mount.error => mount'.error
           /\ Current(b) => mount'.error
<1>1. Current(b) \in BOOLEAN
  BY DEF Current, TypeOK, MountState
<1> QED BY <1>1 DEF Fails, TypeOK, MountState

\* A stop that a cleanup sends.
LEMMA TeardownType ==
    ASSUME TypeOK, Teardown
    PROVE  /\ listeners' \subseteq Boot /\ registered' = 0
           /\ stops' \subseteq StopCall /\ stops' # {}
           /\ pendingStop' \in 0..MaxBoots
<1>1. [kind |-> "cleanup", by |-> mount.cur, key |-> mount.token] \in StopCall
  BY DEF TypeOK, MountState, StopCall
<1> QED BY <1>1 DEF Teardown, TypeOK, MountState

\* A slot that is not free belongs to a boot; a step that leaves the slot and
\* the spawning boot alone leaves the reservation its owner.
LEMMA SlotOwner ==
    ASSUME TypeOK
    PROVE  /\ slot.st \in {"free", "reserved", "cancelled", "live"}
           /\ slot.st = "free" => slot = Free
           /\ slot.st # "free" => slot.of \in Boot
           /\ slot.st # "free" => slot = [st |-> slot.st, of |-> slot.of]
           /\ (\A d \in Boot : boot[d].pc = "spawning" => boot'[d].pc = "spawning")
                => (slot.st \in {"reserved", "cancelled"} =>
                        boot'[slot.of].pc = "spawning")
<1>1. slot = Free \/ slot \in [st : {"reserved", "cancelled", "live"}, of : Boot]
  BY DEF TypeOK, Slot
<1>2. CASE slot = Free
  BY <1>2 DEF Free
<1>3. CASE slot \in [st : {"reserved", "cancelled", "live"}, of : Boot]
  BY <1>3 DEF TypeOK
<1> QED BY <1>1, <1>2, <1>3

\* Every step of the pane, the shell and the sessions keeps the types.
LEMMA TypeStep == TypeOK /\ BootInv /\ [Next]_vars => TypeOK'
<1> SUFFICES ASSUME TypeOK, BootInv, [Next]_vars PROVE TypeOK'
  OBVIOUS
<1> USE Bounds
<1> USE DEF paneVars, subVars, stopVars
<1>1. CASE Mount
  <2>1. mount' \in MountState
    BY <1>1, MountBoots DEF Mount, MountState
  <2>2. slot.st \in {"reserved", "cancelled"} => boot'[slot.of].pc = "spawning"
    <3>1. \A d \in Boot : boot[d].pc = "spawning" => boot'[d].pc = "spawning"
      BY <1>1, MountBoots
    <3> QED BY <3>1, SlotOwner
  <2>3. boot' \in [Boot -> BootState] /\ NextBoot \in Boot
    BY <1>1, MountBoots
  <2>4. /\ status' \in {"starting", "idle", "exited"}
        /\ pendingSub' \in 0..MaxBoots /\ subs' \subseteq Boot
    BY <1>1, <2>3 DEF Mount, TypeOK
  <2> QED BY <1>1, <2>1, <2>2, <2>3, <2>4 DEF Mount, TypeOK
<1>2. CASE Unmount
  <2>1. mount' \in MountState
    BY <1>2 DEF Unmount, Unmounted, MountState
  <2> QED BY <1>2, <2>1 DEF Unmount, TypeOK
<1>3. CASE Restart
  <2>1. mount' \in MountState
    <3>1. /\ mount.token \in Nat /\ mount.on \in BOOLEAN /\ mount.again \in BOOLEAN
          /\ mount = [on |-> mount.on, token |-> mount.token,
                      error |-> mount.error, cur |-> mount.cur,
                      again |-> mount.again]
      BY DEF TypeOK, MountState
    <3>2. mount' = [on |-> mount.on, token |-> mount.token + 1, error |-> FALSE,
                    cur |-> NextBoot, again |-> mount.again]
      BY <1>3, <3>1 DEF Restart
    <3> QED BY <1>3, <3>1, <3>2, RestartBoots DEF MountState
  <2>2. slot.st \in {"reserved", "cancelled"} => boot'[slot.of].pc = "spawning"
    <3>1. \A d \in Boot : boot[d].pc = "spawning" => boot'[d].pc = "spawning"
      BY <1>3, RestartBoots
    <3> QED BY <3>1, SlotOwner
  <2>3. boot' \in [Boot -> BootState] /\ NextBoot \in Boot
    BY <1>3, RestartBoots
  <2>4. Teardown
    BY <1>3 DEF Restart
  <2> QED BY <1>3, <2>1, <2>2, <2>3, <2>4, TeardownType DEF Restart, TypeOK
<1>4. CASE CloseLeaf
  <2>1. mount' \in MountState
    BY <1>4 DEF CloseLeaf, Unmounted, MountState
  <2>2. Teardown
    BY <1>4 DEF CloseLeaf
  <2> QED BY <1>4, <2>1, <2>2, TeardownType DEF CloseLeaf, TypeOK
<1>5. CASE StopUnmounted
  <2>1. [kind |-> "run", by |-> 0, key |-> 0] \in StopCall
    BY DEF StopCall
  <2> QED BY <1>5, <2>1 DEF StopUnmounted, TypeOK
<1>6. ASSUME NEW c \in stops, StopHandled(c) PROVE TypeOK'
  <2>1. boot' \in [Boot -> BootState]
    BY <1>6, StopBoots
  <2>2. slot' \in Slot /\
        (slot'.st \in {"reserved", "cancelled"} => boot'[slot'.of].pc = "spawning")
    <3>1. \A d \in Boot : boot[d].pc = "spawning" => boot'[d].pc = "spawning"
      BY <1>6, StopBoots
    <3>2. CASE slot.st = "live"
      BY <1>6, <3>2 DEF StopHandled, Slot, Free
    <3>3. CASE slot.st = "reserved"
      <4>1. slot' = [slot EXCEPT !.st = "cancelled"]
        BY <1>6, <3>3 DEF StopHandled
      <4>2. slot \in [st : {"reserved", "cancelled", "live"}, of : Boot]
        BY <3>3 DEF TypeOK, Slot, Free
      <4>3. slot' \in Slot /\ slot'.of = slot.of /\ slot.of \in Boot
        BY <4>1, <4>2 DEF Slot
      <4> QED BY <3>1, <3>3, <4>3 DEF TypeOK
    <3>4. CASE slot.st \notin {"live", "reserved"}
      <4>1. slot' = slot
        BY <1>6, <3>4 DEF StopHandled
      <4>2. slot.st = "cancelled" => slot.of \in Boot
        BY DEF TypeOK, Slot, Free
      <4> QED BY <3>1, <3>4, <4>1, <4>2 DEF TypeOK
    <3> QED BY <3>2, <3>3, <3>4
  <2>3. child' \in [Boot -> {"none", "alive", "ready", "dying"}]
    BY <1>6 DEF StopHandled, TypeOK
  <2>4. /\ started' \subseteq Nat /\ pendingStop' \in 0..MaxBoots
        /\ stops' \subseteq StopCall /\ missed' \subseteq Boot
    BY <1>6 DEF StopHandled, TypeOK
  <2> QED BY <1>6, <2>1, <2>2, <2>3, <2>4 DEF StopHandled, TypeOK
<1>7. ASSUME NEW s \in subs, SubscribeAnswers(s) PROVE TypeOK'
  <2>1. boot' \in [Boot -> BootState]
    BY <1>7, SubscribeBoots
  <2>2. slot.st \in {"reserved", "cancelled"} => boot'[slot.of].pc = "spawning"
    <3>1. \A d \in Boot : boot[d].pc = "spawning" => boot'[d].pc = "spawning"
      BY <1>7, SubscribeBoots
    <3> QED BY <3>1, SlotOwner
  <2>3. status' \in {"starting", "idle", "exited"}
    BY <1>7 DEF SubscribeAnswers, Answered, TypeOK
  <2> QED BY <1>7, <2>1, <2>2, <2>3 DEF SubscribeAnswers, TypeOK
<1>8. ASSUME NEW b \in Boot, BootCatalog(b) \/ NoWorkingDirectory(b)
      PROVE  TypeOK'
  <2>1. boot' \in [Boot -> BootState]
    BY <1>8, CatalogBoots
  <2>2. slot.st \in {"reserved", "cancelled"} => boot'[slot.of].pc = "spawning"
    <3>1. \A d \in Boot : boot[d].pc = "spawning" => boot'[d].pc = "spawning"
      BY <1>8, CatalogBoots
    <3> QED BY <3>1, SlotOwner
  <2>3. mount' \in MountState /\ started' \subseteq Nat
    <3>1. boot[b].key \in Nat
      BY BootFields
    <3> QED
      BY <1>8, <3>1 DEF BootCatalog, NoWorkingDirectory, TypeOK, MountState
  <2> QED
    BY <1>8, <2>1, <2>2, <2>3 DEF BootCatalog, NoWorkingDirectory, TypeOK
<1>9. ASSUME NEW b \in Boot, StartHandled(b) PROVE TypeOK'
  <2>1. boot' \in [Boot -> BootState]
    BY <1>9, StartBoots
  <2>2. slot' \in Slot /\
        (slot'.st \in {"reserved", "cancelled"} => boot'[slot'.of].pc = "spawning")
    <3>1. CASE slot' = [st |-> "reserved", of |-> b] /\ boot'[b].pc = "spawning"
      BY <3>1 DEF Slot
    <3>2. CASE slot' = slot /\ boot'[b].pc # "spawning"
      <4>1. \A c \in Boot : boot[c].pc = "spawning" => boot'[c].pc = "spawning"
        BY <1>9, StartBoots
      <4> QED BY <3>2, <4>1, SlotOwner DEF TypeOK
    <3> QED BY <1>9, <3>1, <3>2, StartBoots
  <2>3. mount' \in MountState /\ started' \subseteq Nat
    <3>1. CASE mount' = mount /\ started' = started
      BY <3>1 DEF TypeOK
    <3>2. CASE Fails(b)
      BY <3>2, FailsType
    <3> QED BY <1>9, <3>1, <3>2, StartBoots
  <2> QED BY <1>9, <2>1, <2>2, <2>3 DEF StartHandled, TypeOK
<1>10. ASSUME NEW b \in Boot, StartPublish(b) \/ ProvisionFails(b) PROVE TypeOK'
  <2>1. boot' \in [Boot -> BootState]
    BY <1>10, SpawnBoots
  <2>2. slot' \in Slot /\ slot'.st \in {"live", "free"}
    BY <1>10, SpawnBoots DEF Slot, Free
  <2>3. mount' \in MountState /\ started' \subseteq Nat
    BY <1>10, SpawnBoots, FailsType DEF TypeOK
  <2>4. child' \in [Boot -> {"none", "alive", "ready", "dying"}]
    BY <1>10, SpawnBoots DEF TypeOK
  <2> QED
    BY <1>10, <2>1, <2>2, <2>3, <2>4 DEF StartPublish, ProvisionFails, TypeOK
<1>11. ASSUME NEW b \in Boot, BootListed(b) PROVE TypeOK'
  <2>1. boot' \in [Boot -> BootState]
    BY <1>11, ListBoots
  <2>2. slot.st \in {"reserved", "cancelled"} => boot'[slot.of].pc = "spawning"
    <3>1. \A d \in Boot : boot[d].pc = "spawning" => boot'[d].pc = "spawning"
      BY <1>11, ListBoots
    <3> QED BY <3>1, SlotOwner
  <2>3. [kind |-> "boot", by |-> b, key |-> 0] \in StopCall
    BY DEF StopCall
  <2>4. /\ status' \in {"starting", "idle", "exited"}
        /\ stops' \subseteq StopCall
    BY <1>11, <2>3 DEF BootListed, TypeOK
  <2> QED BY <1>11, <2>1, <2>2, <2>4 DEF BootListed, TypeOK
<1>12. ASSUME NEW s \in Boot, InitFrame(s) \/ ChildEnds(s) \/ ExitFrame(s)
       PROVE  TypeOK'
  <2>1. /\ status' \in {"starting", "idle", "exited"}
        /\ child' \in [Boot -> {"none", "alive", "ready", "dying"}]
        /\ inputs' \in 0..MaxInputs
    BY <1>12 DEF InitFrame, ChildEnds, ExitFrame, Shows, TypeOK
  <2>2. CASE slot' = slot
    BY <1>12, <2>1, <2>2 DEF InitFrame, ChildEnds, ExitFrame, TypeOK
  <2>3. CASE slot' = Free
    BY <1>12, <2>1, <2>3
       DEF InitFrame, ChildEnds, ExitFrame, TypeOK, Slot, Free
  <2> QED BY <1>12, <2>2, <2>3 DEF InitFrame, ChildEnds, ExitFrame
<1>13. CASE UNCHANGED vars
  BY <1>13 DEF vars, TypeOK
<1> QED
  BY <1>1, <1>2, <1>3, <1>4, <1>5, <1>6, <1>7, <1>8, <1>9, <1>10, <1>11,
     <1>12, <1>13 DEF Next

\* Every step keeps the order of the boots and the owner of a reservation.
LEMMA BootInvStep == TypeOK /\ BootInv /\ [Next]_vars => BootInv'
<1> SUFFICES ASSUME TypeOK, BootInv, [Next]_vars PROVE BootInv'
  OBVIOUS
<1> USE Bounds
<1> USE DEF paneVars, subVars, stopVars
<1> DEFINE Order == \E n \in 0..MaxBoots :
                        {b \in Boot : boot[b].pc # "unused"} = 1..n
           Owner == \A b \in Boot : boot[b].pc = "spawning" =>
                        slot.of = b /\ slot.st \in {"reserved", "cancelled"}
           Here == mount.on =>
                       inStore /\ mount.cur \in Boot
                           /\ boot[mount.cur].pc # "unused"
<1>0. Order' /\ Owner' /\ Here' => BootInv'
  BY DEF BootInv
<1>1. CASE Mount
  <2>1. Order'
    BY <1>1, MountBoots, NextBootUsed
  <2>2. Owner' /\ Here'
    BY <1>1, MountBoots DEF Mount, BootInv
  <2> QED BY <1>0, <2>1, <2>2
<1>2. CASE Unmount \/ CloseLeaf
  BY <1>2 DEF Unmount, CloseLeaf, Unmounted, BootInv
<1>3. CASE Restart
  <2>1. Order'
    BY <1>3, RestartBoots, NextBootUsed
  <2>2. mount'.on /\ mount'.cur = NextBoot /\ mount.on
    BY <1>3 DEF Restart, TypeOK, MountState
  <2>3. Owner' /\ Here'
    BY <1>3, <2>2, RestartBoots DEF Restart, BootInv
  <2> QED BY <1>0, <2>1, <2>3
<1>4. CASE StopUnmounted
  BY <1>4 DEF StopUnmounted, BootInv
<1>5. ASSUME NEW c \in stops, StopHandled(c) PROVE BootInv'
  <2>1. Order'
    BY <1>5, StopBoots, SameBootsUsed
  <2>2. Here'
    BY <1>5, StopBoots DEF StopHandled, BootInv
  <2>3. Owner'
    <3> SUFFICES ASSUME NEW b \in Boot, boot'[b].pc = "spawning"
                 PROVE  slot'.of = b /\ slot'.st \in {"reserved", "cancelled"}
      OBVIOUS
    <3>1. slot.of = b /\ slot.st \in {"reserved", "cancelled"}
      BY <1>5, StopBoots DEF BootInv
    <3>2. CASE slot.st = "reserved"
      BY <1>5, <3>1, <3>2 DEF StopHandled, TypeOK, Slot, Free
    <3>3. CASE slot.st = "cancelled"
      BY <1>5, <3>1, <3>3 DEF StopHandled
    <3> QED BY <3>1, <3>2, <3>3
  <2> QED BY <1>0, <2>1, <2>2, <2>3
<1>6. ASSUME NEW s \in subs, SubscribeAnswers(s) PROVE BootInv'
  <2>1. Order'
    BY <1>6, SubscribeBoots, SameBootsUsed
  <2>2. Owner' /\ Here'
    BY <1>6, SubscribeBoots DEF SubscribeAnswers, BootInv
  <2> QED BY <1>0, <2>1, <2>2
<1>7. ASSUME NEW b \in Boot, BootCatalog(b) \/ NoWorkingDirectory(b)
      PROVE  BootInv'
  <2>1. Order'
    BY <1>7, CatalogBoots, SameBootsUsed
  <2>2. mount'.on = mount.on /\ mount'.cur = mount.cur
    BY <1>7 DEF BootCatalog, NoWorkingDirectory, TypeOK, MountState
  <2>3. Owner' /\ Here'
    BY <1>7, <2>2, CatalogBoots DEF BootCatalog, NoWorkingDirectory, BootInv
  <2> QED BY <1>0, <2>1, <2>3
<1>8. ASSUME NEW b \in Boot, StartHandled(b) PROVE BootInv'
  <2>1. Order'
    BY <1>8, StartBoots, SameBootsUsed
  <2>2. mount'.on = mount.on /\ mount'.cur = mount.cur
    BY <1>8, StartBoots, FailsType
  <2>3. Owner'
    <3>1. slot = Free => \A c \in Boot : boot[c].pc # "spawning"
      BY DEF BootInv, Free
    <3> SUFFICES ASSUME NEW c \in Boot, boot'[c].pc = "spawning"
                 PROVE  slot'.of = c /\ slot'.st \in {"reserved", "cancelled"}
      OBVIOUS
    <3>2. CASE c = b
      <4>1. slot' = [st |-> "reserved", of |-> b]
        BY <1>8, <3>2, StartBoots
      <4> QED BY <3>2, <4>1
    <3>3. CASE c # b
      <4>1. boot[c].pc = "spawning"
        BY <1>8, <3>3, StartBoots
      <4>2. slot' = slot
        BY <1>8, <3>1, <4>1, StartBoots
      <4> QED BY <4>1, <4>2 DEF BootInv
    <3> QED BY <3>2, <3>3
  <2>4. Here'
    <3>1. inStore' = inStore
      BY <1>8 DEF StartHandled
    <3>2. \A c \in Boot : boot[c].pc # "unused" => boot'[c].pc # "unused"
      BY <1>8, StartBoots
    <3> QED BY <2>2, <3>1, <3>2 DEF BootInv
  <2> QED BY <1>0, <2>1, <2>3, <2>4
<1>9. ASSUME NEW b \in Boot, StartPublish(b) \/ ProvisionFails(b) PROVE BootInv'
  <2>1. Order'
    BY <1>9, SpawnBoots, SameBootsUsed
  <2>2. mount'.on = mount.on /\ mount'.cur = mount.cur
    BY <1>9, SpawnBoots, FailsType
  <2>3. Owner'
    BY <1>9, SpawnBoots DEF BootInv
  <2>4. Here'
    <3>1. inStore' = inStore
      BY <1>9 DEF StartPublish, ProvisionFails
    <3>2. \A c \in Boot : boot[c].pc # "unused" => boot'[c].pc # "unused"
      BY <1>9, SpawnBoots
    <3> QED BY <2>2, <3>1, <3>2 DEF BootInv
  <2> QED BY <1>0, <2>1, <2>3, <2>4
<1>10. ASSUME NEW b \in Boot, BootListed(b) PROVE BootInv'
  <2>1. Order'
    BY <1>10, ListBoots, SameBootsUsed
  <2>2. Owner' /\ Here'
    BY <1>10, ListBoots DEF BootListed, BootInv
  <2> QED BY <1>0, <2>1, <2>2
<1>11. ASSUME NEW s \in Boot, InitFrame(s) \/ ChildEnds(s) \/ ExitFrame(s)
       PROVE  BootInv'
  BY <1>11 DEF InitFrame, ChildEnds, ExitFrame, BootInv
<1>12. CASE UNCHANGED vars
  BY <1>12 DEF vars, BootInv
<1> QED
  BY <1>1, <1>2, <1>3, <1>4, <1>5, <1>6, <1>7, <1>8, <1>9, <1>10, <1>11,
     <1>12 DEF Next

\* Every variable keeps its type, and a reservation is that of a start which
\* is still being provisioned.
THEOREM TypeCorrect == Spec => []TypeOK
<1>1. Spec => [](TypeOK /\ BootInv)
  BY TypeInit, TypeStep, BootInvStep, PTL DEF Spec
<1> QED BY <1>1, PTL

-----------------------------------------------------------------------------
(* Who hears the session                                                   *)

\* One listener at most, the registered one; a subscription that is asked for
\* is on its way; and a leaf in the layout has one or the other.
SubInv ==
    /\ listeners \subseteq {registered} \ {0}
    /\ registered # 0 => registered \in listeners
    /\ pendingSub # 0 => registered = 0 /\ subs # {}
    /\ inStore => registered # 0 \/ pendingSub # 0

\* Every step keeps it: a teardown takes the listener of the registered
\* subscription, and an answer that finds no pending entry is disposed of.
LEMMA SubInvStep == TypeOK /\ BootInv /\ SubInv /\ [Next]_vars => SubInv'
<1> SUFFICES ASSUME TypeOK, BootInv, SubInv, [Next]_vars PROVE SubInv'
  OBVIOUS
<1> USE Bounds DEF SubInv
<1> USE DEF paneVars, subVars, stopVars
<1>1. CASE UNCHANGED <<registered, listeners, pendingSub, subs, inStore>>
  BY <1>1
<1>2. CASE Mount
  BY <1>2, MountBoots DEF Mount
<1>3. CASE Restart
  BY <1>3, RestartBoots DEF Restart, Teardown
<1>4. CASE CloseLeaf
  BY <1>4 DEF CloseLeaf, Teardown
<1>5. CASE StopUnmounted
  BY <1>5 DEF StopUnmounted
<1>6. ASSUME NEW s \in subs, SubscribeAnswers(s) PROVE SubInv'
  <2>1. s \in Boot
    BY <1>6 DEF TypeOK
  <2> QED BY <1>6, <2>1 DEF SubscribeAnswers
<1>7. CASE ~(Mount \/ Restart \/ CloseLeaf \/ StopUnmounted
               \/ \E s \in subs : SubscribeAnswers(s))
  BY <1>1, <1>7
     DEF Next, vars, Unmount, StopHandled, BootCatalog, NoWorkingDirectory,
         StartHandled, StartPublish, ProvisionFails, BootListed, InitFrame,
         ChildEnds, ExitFrame
<1> QED BY <1>2, <1>3, <1>4, <1>5, <1>6, <1>7

\* The invariants so far, together.
LEMMA SubInvariance == Spec => [](TypeOK /\ BootInv /\ SubInv)
<1>1. Init => SubInv
  BY Bounds DEF Init, SubInv
<1> QED BY <1>1, TypeInit, TypeStep, BootInvStep, SubInvStep, PTL DEF Spec

\* Frames are applied once, and to a pane that is gone not at all: the only
\* listener there is is the one disposeFrameSubscription knows.
THEOREM OneListener == Spec => []ListenerIsRegistered
<1>1. SubInv => ListenerIsRegistered
  BY DEF SubInv, ListenerIsRegistered
<1> QED BY <1>1, SubInvariance, PTL

\* While the leaf is in the layout the frames of its live session land, or
\* will as soon as the subscribe call is answered.
THEOREM SessionsAreHeard == Spec => []LiveSessionIsHeard
<1>1. SubInv => LiveSessionIsHeard
  BY DEF SubInv, LiveSessionIsHeard
<1> QED BY <1>1, SubInvariance, PTL

-----------------------------------------------------------------------------
(* What a stop leaves behind                                               *)

AtStart(b) == boot[b].pc \in {"starting", "starting again"}

\* A child that lives is the slot's.
ChildInv ==
    \A s \in Boot : child[s] \in {"alive", "ready"} =>
        slot = [st |-> "live", of |-> s]

\* The boot that waited for its stop finds the slot free, or a start in it that
\* has been cancelled or that the stop overtook; and so it is with the starts
\* of the boots before it, which are still to be handled.
RoomInv ==
    \A b \in Boot : Current(b) /\ boot[b].pc = "starting again" =>
        /\ slot.st \in {"free", "cancelled"} \/ slot.of \in missed
        /\ \A c \in Boot \ {b} : AtStart(c) => c \in missed

\* Once a leaf is gone and its stops are handled, the starts, the reservation
\* and the session that are left were overtaken.
GoneInv ==
    ~inStore /\ stops = {} => \A b \in Boot :
        AtStart(b) \/ slot = [st |-> "reserved", of |-> b] \/ HasSession(b)
            => b \in missed

\* What the answer to a stop leaves in the slot, and whom it overtook.
LEMMA StopEffect ==
    ASSUME TypeOK, NEW c \in stops, StopHandled(c)
    PROVE  /\ slot'.st \in {"free", "cancelled"}
           /\ \A b \in Boot : AtStart(b) => b \in missed'
<1>1. slot'.st \in {"free", "cancelled"}
  <2>1. CASE slot.st = "live"
    BY <2>1 DEF StopHandled, Free
  <2>2. CASE slot.st = "reserved"
    BY <2>2, SlotOwner DEF StopHandled
  <2>3. CASE slot.st \in {"free", "cancelled"}
    BY <2>3 DEF StopHandled
  <2> QED BY <2>1, <2>2, <2>3, SlotOwner
<1>2. \A b \in Boot : AtStart(b) => b \in missed'
  BY DEF StopHandled, AtStart
<1> QED BY <1>1, <1>2

\* Every step keeps them.
LEMMA StopInvStep ==
    TypeOK /\ BootInv /\ ChildInv /\ RoomInv /\ GoneInv /\ [Next]_vars
        => ChildInv' /\ RoomInv' /\ GoneInv'
<1> SUFFICES ASSUME TypeOK, BootInv, ChildInv, RoomInv, GoneInv, [Next]_vars
             PROVE  ChildInv' /\ RoomInv' /\ GoneInv'
  OBVIOUS
<1> DEFINE Kept == ChildInv' /\ RoomInv' /\ GoneInv'
<1> USE Bounds
<1> USE DEF paneVars, subVars, stopVars, Current, AtStart
<1>1. CASE Mount
  <2>1. ChildInv'
    BY <1>1 DEF Mount, ChildInv
  <2>2. RoomInv'
    BY <1>1, MountBoots DEF Mount, RoomInv
  <2>3. GoneInv'
    BY <1>1 DEF Mount, GoneInv
  <2> QED BY <2>1, <2>2, <2>3
<1>2. CASE Unmount
  BY <1>2 DEF Unmount, Unmounted, ChildInv, RoomInv, GoneInv, HasSession, BootInv
<1>3. CASE Restart
  <2>1. ChildInv'
    BY <1>3 DEF Restart, ChildInv
  <2>2. mount'.cur = NextBoot
    BY <1>3 DEF Restart, TypeOK, MountState
  <2>3. RoomInv'
    BY <1>3, <2>2, RestartBoots DEF RoomInv
  <2>4. GoneInv'
    BY <1>3 DEF Restart, BootInv, GoneInv
  <2> QED BY <2>1, <2>3, <2>4
<1>4. CASE CloseLeaf
  <2>1. Teardown /\ ~mount'.on
    BY <1>4 DEF CloseLeaf, Unmounted
  <2>2. stops' # {}
    BY <2>1, TeardownType
  <2> QED BY <1>4, <2>1, <2>2 DEF CloseLeaf, ChildInv, RoomInv, GoneInv
<1>5. CASE StopUnmounted
  BY <1>5 DEF StopUnmounted, ChildInv, RoomInv, GoneInv
<1>6. ASSUME NEW c \in stops, StopHandled(c) PROVE Kept
  <2>1. ChildInv'
    BY <1>6 DEF StopHandled, ChildInv, TypeOK
  <2>2. RoomInv'
    <3> SUFFICES ASSUME NEW b \in Boot, Current(b)',
                        NEW d \in Boot \ {b}, AtStart(d)'
                 PROVE  d \in missed'
      BY <1>6, StopEffect DEF RoomInv
    <3>1. Current(b)
      BY <1>6 DEF StopHandled
    <3>2. boot'[d] = boot[d]
      BY <1>6, <3>1, StopBoots
    <3> QED BY <1>6, <3>2, StopEffect
  <2>3. \A b \in Boot : ~HasSession(b)' /\ slot' # [st |-> "reserved", of |-> b]
    <3>1. slot'.st \in {"free", "cancelled"}
      BY <1>6, StopEffect
    <3> QED BY <3>1 DEF HasSession
  <2>4. mount' = mount /\ inStore' = inStore
    BY <1>6 DEF StopHandled
  <2>5. ~inStore => \A b \in Boot : AtStart(b)' => AtStart(b)
    BY <1>6, StopBoots DEF BootInv
  <2>6. GoneInv'
    BY <1>6, <2>3, <2>4, <2>5, StopEffect DEF GoneInv
  <2> QED BY <2>1, <2>2, <2>6
<1>7. ASSUME NEW s \in subs, SubscribeAnswers(s) PROVE Kept
  <2>1. \A b \in Boot : /\ AtStart(b)' <=> AtStart(b)
                        /\ boot'[b].pc = "starting again" <=>
                               boot[b].pc = "starting again"
    BY <1>7, SubscribeBoots
  <2>2. UNCHANGED <<slot, child, missed, stops, inStore, mount>>
    BY <1>7 DEF SubscribeAnswers
  <2> QED BY <2>1, <2>2 DEF ChildInv, RoomInv, GoneInv, HasSession
<1>8. ASSUME NEW b \in Boot, BootCatalog(b) \/ NoWorkingDirectory(b)
      PROVE  Kept
  <2>1. /\ UNCHANGED <<slot, child, missed, stops, inStore>>
        /\ mount'.on = mount.on /\ mount'.cur = mount.cur
    BY <1>8 DEF BootCatalog, NoWorkingDirectory, TypeOK, MountState
  <2>2. RoomInv'
    BY <1>8, <2>1, CatalogBoots DEF RoomInv
  <2>3. ~inStore => \A c \in Boot : AtStart(c)' => AtStart(c)
    BY <1>8, CatalogBoots DEF BootCatalog, NoWorkingDirectory, BootInv
  <2>4. GoneInv'
    BY <2>1, <2>3 DEF GoneInv, HasSession
  <2>5. ChildInv'
    BY <2>1 DEF ChildInv
  <2> QED BY <2>2, <2>4, <2>5
<1>9. ASSUME NEW b \in Boot, StartHandled(b) PROVE Kept
  <2>1. /\ UNCHANGED <<child, missed, stops, inStore>>
        /\ mount'.on = mount.on /\ mount'.cur = mount.cur
    BY <1>9, StartBoots, FailsType DEF StartHandled
  <2>2. AtStart(b) /\ ~AtStart(b)'
    BY <1>9, StartBoots
  <2>3. slot' = slot \/ (slot = Free /\ slot' = [st |-> "reserved", of |-> b])
    BY <1>9, StartBoots
  <2>4. \A c \in Boot \ {b} : boot'[c] = boot[c]
    BY <1>9, StartBoots
  <2>5. ChildInv'
    BY <2>1, <2>3 DEF ChildInv, Free
  <2>6. RoomInv'
    <3> SUFFICES ASSUME NEW a \in Boot, Current(a)',
                        boot'[a].pc = "starting again"
                 PROVE  /\ slot'.st \in {"free", "cancelled"} \/ slot'.of \in missed
                        /\ \A c \in Boot \ {a} : AtStart(c)' => c \in missed
      BY <2>1 DEF RoomInv
    <3>1. a # b /\ Current(a) /\ boot[a].pc = "starting again"
      BY <2>1, <2>2, <2>4
    <3>2. \A c \in Boot \ {a} : AtStart(c) => c \in missed
      BY <3>1 DEF RoomInv
    <3>3. b \in missed
      BY <2>2, <3>1, <3>2
    <3>4. slot'.st \in {"free", "cancelled"} \/ slot'.of \in missed
      <4>1. CASE slot' = slot
        BY <3>1, <4>1 DEF RoomInv
      <4>2. CASE slot' = [st |-> "reserved", of |-> b]
        BY <3>3, <4>2
      <4> QED BY <2>3, <4>1, <4>2
    <3>5. \A c \in Boot \ {a} : AtStart(c)' => c \in missed
      BY <2>2, <2>4, <3>2
    <3> QED BY <3>4, <3>5
  <2>7. GoneInv'
    <3> SUFFICES ASSUME ~inStore, stops = {}, NEW c \in Boot,
                        AtStart(c)' \/ slot' = [st |-> "reserved", of |-> c]
                            \/ HasSession(c)'
                 PROVE  c \in missed
      BY <2>1 DEF GoneInv
    <3>1. CASE AtStart(c)'
      BY <2>2, <2>4, <3>1 DEF GoneInv
    <3>2. CASE slot' = slot /\ ~AtStart(c)'
      BY <2>1, <3>2 DEF GoneInv, HasSession
    <3>3. CASE slot' = [st |-> "reserved", of |-> b]
      <4>1. ~HasSession(c)'
        BY <3>3 DEF HasSession
      <4>2. c = b \/ AtStart(c)'
        BY <3>3, <4>1
      <4> QED BY <2>2, <3>1, <4>2 DEF GoneInv
    <3> QED BY <2>3, <3>1, <3>2, <3>3
  <2> QED BY <2>5, <2>6, <2>7
<1>10. ASSUME NEW b \in Boot, StartPublish(b) \/ ProvisionFails(b) PROVE Kept
  <2>1. /\ UNCHANGED <<missed, stops, inStore>>
        /\ mount'.on = mount.on /\ mount'.cur = mount.cur
    BY <1>10, SpawnBoots, FailsType DEF StartPublish, ProvisionFails
  <2>2. \A c \in Boot : /\ AtStart(c)' <=> AtStart(c)
                        /\ boot'[c].pc = "starting again" <=>
                               boot[c].pc = "starting again"
    BY <1>10, SpawnBoots
  <2>3. \A c \in Boot : child[c] \notin {"alive", "ready"}
    BY <1>10, SpawnBoots DEF ChildInv
  <2>4. child \in [Boot -> {"none", "alive", "ready", "dying"}]
    BY DEF TypeOK
  <2>5. CASE /\ slot = [st |-> "reserved", of |-> b]
             /\ slot' = [st |-> "live", of |-> b]
             /\ child' = [child EXCEPT ![b] = "alive"]
    <3>1. ChildInv'
      BY <2>3, <2>4, <2>5 DEF ChildInv
    <3>2. RoomInv'
      BY <2>1, <2>2, <2>5 DEF RoomInv
    <3>3. \A c \in Boot : HasSession(c)' => c = b
      BY <2>5 DEF HasSession
    <3>4. \A c \in Boot : slot' # [st |-> "reserved", of |-> c]
      BY <2>5
    <3>5. GoneInv'
      BY <2>1, <2>2, <2>5, <3>3, <3>4 DEF GoneInv
    <3> QED BY <3>1, <3>2, <3>5
  <2>6. CASE slot' = Free /\ (child' = [child EXCEPT ![b] = "dying"] \/ child' = child)
    <3>1. ChildInv'
      BY <2>3, <2>4, <2>6 DEF ChildInv
    <3>2. RoomInv'
      BY <2>1, <2>2, <2>6 DEF RoomInv, Free
    <3>3. GoneInv'
      BY <2>1, <2>2, <2>6 DEF GoneInv, HasSession, Free
    <3> QED BY <3>1, <3>2, <3>3
  <2> QED BY <1>10, <2>5, <2>6, SpawnBoots
<1>11. ASSUME NEW b \in Boot, BootListed(b) PROVE Kept
  <2>1. UNCHANGED <<slot, child, missed, inStore, mount>>
    BY <1>11 DEF BootListed
  <2>2. \A c \in Boot : /\ AtStart(c)' <=> AtStart(c)
                        /\ boot'[c].pc = "starting again" <=>
                               boot[c].pc = "starting again"
    BY <1>11, ListBoots
  <2>3. stops \subseteq stops'
    BY <1>11 DEF BootListed
  <2> QED BY <2>1, <2>2, <2>3 DEF ChildInv, RoomInv, GoneInv, HasSession
<1>12. ASSUME NEW s \in Boot, InitFrame(s) \/ ChildEnds(s) \/ ExitFrame(s)
       PROVE  Kept
  <2>1. UNCHANGED <<boot, mount, inStore, stops, missed>>
    BY <1>12 DEF InitFrame, ChildEnds, ExitFrame
  <2>2. \A b \in Boot : child'[b] \in {"alive", "ready"} =>
                            child[b] \in {"alive", "ready"}
    BY <1>12 DEF InitFrame, ChildEnds, ExitFrame, TypeOK
  <2>3. slot' = slot \/ (slot = [st |-> "live", of |-> s] /\ slot' = Free)
    BY <1>12 DEF InitFrame, ChildEnds, ExitFrame
  <2>4. slot' = Free => child'[s] = "none" \/ slot' = slot
    BY <1>12 DEF InitFrame, ChildEnds, ExitFrame, TypeOK
  <2>5. ChildInv'
    BY <2>2, <2>3, <2>4 DEF ChildInv
  <2>6. RoomInv'
    <3>1. slot'.st = "free" \/ slot' = slot
      BY <2>3 DEF Free
    <3> QED BY <2>1, <3>1 DEF RoomInv
  <2>7. GoneInv'
    <3>1. CASE slot' = slot
      BY <2>1, <2>2, <3>1 DEF GoneInv, HasSession
    <3>2. CASE slot' = Free
      <4>1. \A b \in Boot : ~HasSession(b)' /\ slot' # [st |-> "reserved", of |-> b]
        BY <3>2 DEF HasSession, Free
      <4> QED BY <2>1, <4>1 DEF GoneInv
    <3> QED BY <2>3, <3>1, <3>2
  <2> QED BY <2>5, <2>6, <2>7
<1>13. CASE UNCHANGED vars
  BY <1>13 DEF vars, ChildInv, RoomInv, GoneInv, HasSession
<1> QED
  BY <1>1, <1>2, <1>3, <1>4, <1>5, <1>6, <1>7, <1>8, <1>9, <1>10, <1>11,
     <1>12, <1>13 DEF Next

\* All of them hold together.
LEMMA StopInvariance ==
    Spec => [](TypeOK /\ BootInv /\ ChildInv /\ RoomInv /\ GoneInv)
<1>1. Init => ChildInv /\ RoomInv /\ GoneInv
  BY DEF Init, ChildInv, RoomInv, GoneInv, At
<1> QED BY <1>1, TypeInit, TypeStep, BootInvStep, StopInvStep, PTL DEF Spec

\* The stop a refused start has waited for made room for the second attempt,
\* but for a start that is cancelled and one that the stop overtook.
THEOREM SecondStartFindsRoom == Spec => []StopMakesRoom
<1>1. TypeOK /\ RoomInv => StopMakesRoom
  BY SlotOwner DEF RoomInv, StopMakesRoom
<1> QED BY <1>1, StopInvariance, PTL

\* A leaf that is gone leaves no session behind once its stops are handled,
\* but for one whose start was handled after its stop.
THEOREM ClosedPaneKeepsNothing == Spec => []NoSessionWithoutPane
<1>1. GoneInv => NoSessionWithoutPane
  BY DEF GoneInv, NoSessionWithoutPane
<1> QED BY <1>1, StopInvariance, PTL


-----------------------------------------------------------------------------
(* A pane at rest                                                          *)

\* The session of a live slot has a child, if one that is on its way out.
LiveInv == slot.st = "live" => child[slot.of] # "none"

\* Of the current boot: a subscription is asked for only while it waits for
\* one; until it starts its key is the retryToken; and in a pane that was never
\* unmounted the keys that are taken are those of retryTokens before it.
KeyInv == mount.on =>
    /\ boot[mount.cur].pc # "subscribing" => pendingSub = 0
    /\ boot[mount.cur].pc \in {"subscribing", "catalog"} =>
           boot[mount.cur].key = mount.token
    /\ ~mount.again => \A k \in started :
           /\ k <= mount.token
           /\ boot[mount.cur].pc \in {"subscribing", "catalog"} => k # mount.token

\* What a current boot that is over has come to.
EndInv == mount.on =>
    /\ boot[mount.cur].pc = "taken" => mount.again
    /\ boot[mount.cur].pc = "done" =>
           \/ mount.error \/ status = "exited"
           \/ \E s \in Boot : HasSession(s) \/ child[s] = "dying"

\* A slot stays live as long as its session's child is there.
LEMMA LiveInvStep == TypeOK /\ BootInv /\ LiveInv /\ [Next]_vars => LiveInv'
<1> SUFFICES ASSUME TypeOK, BootInv, LiveInv, [Next]_vars PROVE LiveInv'
  OBVIOUS
<1> USE DEF paneVars, subVars, stopVars
<1>1. CASE UNCHANGED <<slot, child>>
  BY <1>1 DEF LiveInv
<1>2. ASSUME NEW c \in stops, StopHandled(c) PROVE LiveInv'
  BY <1>2, StopEffect DEF LiveInv
<1>3. ASSUME NEW b \in Boot, StartHandled(b) PROVE LiveInv'
  <2>1. child' = child
    BY <1>3 DEF StartHandled
  <2>2. slot' = slot \/ slot' = [st |-> "reserved", of |-> b]
    BY <1>3, StartBoots
  <2> QED BY <2>1, <2>2 DEF LiveInv
<1>4. ASSUME NEW b \in Boot, StartPublish(b) \/ ProvisionFails(b) PROVE LiveInv'
  <2>1. \/ slot' = [st |-> "live", of |-> b] /\ child' = [child EXCEPT ![b] = "alive"]
        \/ slot' = Free
    BY <1>4, SpawnBoots
  <2> QED BY <2>1 DEF LiveInv, Free, TypeOK
<1>5. ASSUME NEW s \in Boot, InitFrame(s) \/ ChildEnds(s) \/ ExitFrame(s)
      PROVE  LiveInv'
  <2>1. slot.st = "live" => slot = [st |-> "live", of |-> slot.of] /\ slot.of \in Boot
    BY SlotOwner
  <2>2. CASE slot' = slot
    <3>1. slot.st = "live" => child'[slot.of] # "none"
      BY <1>5, <2>1, <2>2
         DEF InitFrame, ChildEnds, ExitFrame, LiveInv, TypeOK, Free
    <3> QED BY <2>2, <3>1 DEF LiveInv
  <2>3. CASE slot' = Free
    BY <2>3 DEF LiveInv, Free
  <2> QED BY <1>5, <2>2, <2>3 DEF InitFrame, ChildEnds, ExitFrame
<1> QED
  BY <1>1, <1>2, <1>3, <1>4, <1>5
     DEF Next, vars, Mount, Unmount, Restart, CloseLeaf, StopUnmounted,
         SubscribeAnswers, BootCatalog, NoWorkingDirectory, BootListed

\* Keys and subscriptions of the current boot, step by step.
LEMMA KeyInvStep ==
    TypeOK /\ BootInv /\ SubInv /\ KeyInv /\ [Next]_vars => KeyInv'
<1> SUFFICES ASSUME TypeOK, BootInv, SubInv, KeyInv, [Next]_vars, mount'.on
             PROVE  KeyInv'
  BY DEF KeyInv
<1> USE DEF paneVars, subVars, stopVars
<1>0. mount.on => mount.cur \in Boot /\ mount.token \in Nat
  BY DEF BootInv, TypeOK, MountState
<1>1. CASE Mount
  <2>1. mount'.cur = NextBoot /\ mount'.token = 0 /\ mount'.again
    BY <1>1 DEF Mount
  <2>2. boot'[NextBoot].pc # "subscribing" => pendingSub' = 0
    BY <1>1, MountBoots DEF Mount, SubInv
  <2> QED BY <1>1, <2>1, <2>2, MountBoots DEF KeyInv
<1>2. CASE Restart
  <2>1. /\ mount'.cur = NextBoot /\ mount'.token = mount.token + 1
        /\ mount'.again = mount.again /\ mount.on /\ started' = started
    BY <1>2 DEF Restart, TypeOK, MountState
  <2>2. ~mount.again => \A k \in started : k <= mount.token /\ k \in Nat
    BY <2>1 DEF KeyInv, TypeOK
  <2>3. ~mount.again => \A k \in started :
          k <= mount.token + 1 /\ k # mount.token + 1
    BY <1>0, <2>1, <2>2
  <2> QED BY <1>2, <2>1, <2>3, RestartBoots DEF KeyInv
<1>3. CASE Unmount \/ CloseLeaf
  BY <1>3 DEF Unmount, CloseLeaf, Unmounted
<1>4. ASSUME /\ mount.on /\ mount'.cur = mount.cur /\ mount'.token = mount.token
             /\ mount'.again = mount.again
             /\ started' \subseteq started
             /\ pendingSub' = pendingSub \/ pendingSub' = 0
             /\ \/ boot'[mount.cur] = boot[mount.cur]
                \/ boot'[mount.cur].pc \notin {"subscribing", "catalog"}
                     /\ (boot[mount.cur].pc # "subscribing" \/ pendingSub' = 0)
                \/ /\ boot[mount.cur].pc = "subscribing"
                   /\ boot'[mount.cur].key = boot[mount.cur].key
                   /\ pendingSub' = 0
      PROVE  KeyInv'
  BY <1>4 DEF KeyInv
<1>5. CASE StopUnmounted
  BY <1>5 DEF StopUnmounted
<1>6. ASSUME NEW c \in stops, StopHandled(c) PROVE KeyInv'
  <2>1. mount' = mount /\ pendingSub' = pendingSub /\ started' \subseteq started
    BY <1>6 DEF StopHandled
  <2>2. \/ boot'[mount.cur] = boot[mount.cur]
        \/ boot'[mount.cur].pc \notin {"subscribing", "catalog"}
             /\ boot[mount.cur].pc # "subscribing"
    BY <1>0, <1>6, <2>1, StopBoots
  <2> QED BY <1>4, <2>1, <2>2
<1>7. ASSUME NEW s \in subs, SubscribeAnswers(s) PROVE KeyInv'
  <2>1. mount' = mount /\ pendingSub' = 0 /\ started' = started
    BY <1>7 DEF SubscribeAnswers
  <2>2. \/ boot'[mount.cur] = boot[mount.cur]
        \/ boot'[mount.cur].pc \notin {"subscribing", "catalog"}
        \/ /\ boot[mount.cur].pc = "subscribing"
           /\ boot'[mount.cur].key = boot[mount.cur].key
    BY <1>0, <1>7, <2>1, SubscribeBoots
  <2> QED BY <1>4, <2>1, <2>2
<1>8. ASSUME NEW b \in Boot, BootCatalog(b) \/ NoWorkingDirectory(b)
      PROVE  KeyInv'
  <2>1. /\ mount'.on = mount.on /\ mount'.cur = mount.cur
        /\ mount'.token = mount.token /\ mount'.again = mount.again
        /\ pendingSub' = pendingSub
    BY <1>8 DEF BootCatalog, NoWorkingDirectory, TypeOK, MountState
  <2>2. CASE Current(b) /\ BootCatalog(b)
    <3>1. mount.cur = b /\ boot[b].pc = "catalog" /\ boot[b].key = mount.token
      BY <2>2 DEF Current, BootCatalog, KeyInv
    <3>2. started' = started \cup {mount.token}
      BY <2>2, <3>1 DEF BootCatalog
    <3>3. boot'[b].pc = "starting"
      BY <2>2, <3>1, BootFields DEF BootCatalog, BootState
    <3>4. pendingSub' = 0
      BY <2>1, <3>1, <2>2 DEF KeyInv, Current
    <3>5. ~mount.again => \A k \in started' : k <= mount.token
      BY <1>0, <2>1, <3>2 DEF KeyInv
    <3> QED BY <2>1, <3>1, <3>3, <3>4, <3>5 DEF KeyInv
  <2>3. CASE ~(Current(b) /\ BootCatalog(b))
    <3>1. started' = started
      BY <1>8, <2>3 DEF BootCatalog, NoWorkingDirectory
    <3>2. \/ boot'[mount.cur] = boot[mount.cur]
          \/ boot'[mount.cur].pc = "done" /\ boot[mount.cur].pc = "catalog"
      <4>1. CASE NoWorkingDirectory(b)
        BY <1>0, <2>1, <4>1, BootFields, OverType
           DEF NoWorkingDirectory, BootPc
      <4>2. CASE BootCatalog(b) /\ ~Current(b)
        <5>1. mount.cur # b
          BY <2>1, <4>2 DEF Current
        <5> QED BY <1>0, <1>8, <2>1, <5>1, CatalogBoots
      <4> QED BY <1>8, <2>3, <4>1, <4>2
    <3> QED BY <1>4, <2>1, <3>1, <3>2
  <2> QED BY <2>2, <2>3
<1>9. ASSUME NEW b \in Boot, StartHandled(b) PROVE KeyInv'
  <2>1. /\ mount'.on = mount.on /\ mount'.cur = mount.cur
        /\ mount'.token = mount.token /\ mount'.again = mount.again
        /\ started' \subseteq started
    BY <1>9, StartBoots, FailsType DEF Fails
  <2>2. pendingSub' = pendingSub
    BY <1>9 DEF StartHandled
  <2>3. \/ boot'[mount.cur] = boot[mount.cur]
        \/ boot'[mount.cur].pc \notin {"subscribing", "catalog"}
             /\ boot[mount.cur].pc # "subscribing"
    BY <1>0, <1>9, <2>1, StartBoots
  <2> QED BY <1>4, <2>1, <2>2, <2>3
<1>10. ASSUME NEW b \in Boot, StartPublish(b) \/ ProvisionFails(b) PROVE KeyInv'
  <2>1. /\ mount'.on = mount.on /\ mount'.cur = mount.cur
        /\ mount'.token = mount.token /\ mount'.again = mount.again
        /\ started' \subseteq started
    BY <1>10, SpawnBoots, FailsType DEF Fails
  <2>2. pendingSub' = pendingSub
    BY <1>10 DEF StartPublish, ProvisionFails
  <2>3. \/ boot'[mount.cur] = boot[mount.cur]
        \/ boot'[mount.cur].pc \notin {"subscribing", "catalog"}
             /\ boot[mount.cur].pc # "subscribing"
    BY <1>0, <1>10, <2>1, SpawnBoots
  <2> QED BY <1>4, <2>1, <2>2, <2>3
<1>11. ASSUME NEW b \in Boot, BootListed(b) PROVE KeyInv'
  <2>1. mount' = mount /\ pendingSub' = pendingSub /\ started' = started
    BY <1>11 DEF BootListed
  <2>2. \/ boot'[mount.cur] = boot[mount.cur]
        \/ boot'[mount.cur].pc \notin {"subscribing", "catalog"}
             /\ boot[mount.cur].pc # "subscribing"
    BY <1>0, <1>11, <2>1, ListBoots
  <2> QED BY <1>4, <2>1, <2>2
<1>12. CASE UNCHANGED <<mount, boot, started, pendingSub>>
  BY <1>12 DEF KeyInv
<1> QED
  BY <1>1, <1>2, <1>3, <1>5, <1>6, <1>7, <1>8, <1>9, <1>10, <1>11, <1>12
     DEF Next, vars, InitFrame, ChildEnds, ExitFrame

\* What the current boot comes to, step by step.
LEMMA EndInvStep ==
    TypeOK /\ BootInv /\ SubInv /\ ChildInv /\ LiveInv /\ KeyInv /\ EndInv
        /\ [Next]_vars => EndInv'
<1> SUFFICES ASSUME TypeOK, BootInv, SubInv, ChildInv, LiveInv, KeyInv, EndInv,
                    [Next]_vars, mount'.on
             PROVE  EndInv'
  BY DEF EndInv
<1> USE DEF paneVars, subVars, stopVars
<1> DEFINE Has == \E s \in Boot : HasSession(s) \/ child[s] = "dying"
<1>0. mount.on => mount.cur \in Boot
  BY DEF BootInv
<1>1. CASE Mount
  <2>1. mount'.cur = NextBoot /\ mount'.again
    BY <1>1 DEF Mount
  <2> QED BY <1>1, <2>1, MountBoots DEF EndInv
<1>2. CASE Restart
  <2>1. mount'.cur = NextBoot
    BY <1>2 DEF Restart, TypeOK, MountState
  <2> QED BY <1>2, <2>1, RestartBoots DEF EndInv
<1>3. CASE Unmount \/ CloseLeaf
  BY <1>3 DEF Unmount, CloseLeaf, Unmounted
<1>4. CASE StopUnmounted
  BY <1>4 DEF StopUnmounted
<1>5. ASSUME /\ mount.on /\ mount'.cur = mount.cur /\ mount'.again = mount.again
             /\ mount.error => mount'.error
             /\ status = "exited" => status' = "exited"
             /\ Has => Has'
             /\ \/ boot'[mount.cur] = boot[mount.cur]
                \/ boot'[mount.cur].pc \notin {"taken", "done"}
                \/ boot'[mount.cur].pc = "done" /\ (mount'.error \/ Has')
      PROVE  EndInv'
  BY <1>5 DEF EndInv
<1>6. ASSUME NEW c \in stops, StopHandled(c) PROVE EndInv'
  <2>1. mount' = mount /\ status' = status
    BY <1>6 DEF StopHandled
  <2>2. Has => Has'
    BY <1>6 DEF StopHandled, HasSession, TypeOK
  <2>3. \/ boot'[mount.cur] = boot[mount.cur]
        \/ boot'[mount.cur].pc \notin {"taken", "done"}
    BY <1>0, <1>6, <2>1, StopBoots DEF Current
  <2> QED BY <1>5, <2>1, <2>2, <2>3
<1>7. ASSUME NEW s \in subs, SubscribeAnswers(s) PROVE EndInv'
  <2>1. mount' = mount /\ slot' = slot /\ child' = child
    BY <1>7 DEF SubscribeAnswers
  <2>2. Has => Has'
    BY <2>1 DEF HasSession
  <2>3. CASE boot[mount.cur].pc = "subscribing"
    <3>1. mount.cur \in Boot /\ mount.on /\ Current(mount.cur)
      BY <1>0, <2>1 DEF Current
    <3>2. boot'[mount.cur].pc # "done"
      BY <1>7, <2>3, <3>1, SubscribeBoots
    <3>3. boot'[mount.cur].pc = "taken" => boot[mount.cur].key \in started
      BY <1>7, <2>3, <3>1, SubscribeBoots
    <3>4. boot[mount.cur].key \in started => mount.again
      BY <2>3, <3>1 DEF KeyInv
    <3> QED BY <2>1, <3>2, <3>3, <3>4 DEF EndInv
  <2>4. CASE boot[mount.cur].pc # "subscribing"
    <3>1. boot'[mount.cur] = boot[mount.cur]
      BY <1>0, <1>7, <2>1, <2>4, SubscribeBoots
    <3>2. \A b \in Boot : boot[b].pc # boot'[b].pc => boot'[b].pc # "catalog"
      BY <1>0, <1>7, <2>1, <2>4, SubscribeBoots DEF Current
    <3>3. status' = status
      BY <1>7, <3>2 DEF SubscribeAnswers, Answered
    <3> QED BY <1>5, <2>1, <2>2, <3>1, <3>3
  <2> QED BY <2>3, <2>4
<1>8. ASSUME NEW b \in Boot, BootCatalog(b) \/ NoWorkingDirectory(b)
      PROVE  EndInv'
  <2>1. /\ mount'.on = mount.on /\ mount'.cur = mount.cur
        /\ mount'.again = mount.again
        /\ mount.error => mount'.error
        /\ slot' = slot /\ child' = child /\ status' = status
    BY <1>8 DEF BootCatalog, NoWorkingDirectory, TypeOK, MountState
  <2>2. Has => Has'
    BY <2>1 DEF HasSession
  <2>3. \/ boot'[mount.cur] = boot[mount.cur]
        \/ boot'[mount.cur].pc = "starting"
        \/ boot'[mount.cur].pc = "done" /\ mount'.error
    BY <1>0, <1>8, <2>1, CatalogBoots DEF Current
  <2> QED BY <1>5, <2>1, <2>2, <2>3
<1>9. ASSUME NEW b \in Boot, StartHandled(b) PROVE EndInv'
  <2>1. /\ mount'.on = mount.on /\ mount'.cur = mount.cur
        /\ mount'.again = mount.again
        /\ mount.error => mount'.error
        /\ status' = status /\ child' = child
    BY <1>9, StartBoots, FailsType DEF StartHandled
  <2>2. Has => Has'
    <3>1. slot = Free => \A s \in Boot : ~HasSession(s)
      BY DEF HasSession, Free
    <3>2. slot' = slot \/ slot = Free
      BY <1>9, StartBoots
    <3> QED BY <2>1, <3>1, <3>2 DEF HasSession
  <2>3. \/ boot'[mount.cur] = boot[mount.cur]
        \/ boot'[mount.cur].pc \notin {"taken", "done"}
        \/ boot'[mount.cur].pc = "done" /\ mount'.error
    BY <1>0, <1>9, <2>1, StartBoots, FailsType DEF Current
  <2> QED BY <1>5, <2>1, <2>2, <2>3
<1>10. ASSUME NEW b \in Boot, StartPublish(b) \/ ProvisionFails(b) PROVE EndInv'
  <2>1. /\ mount'.on = mount.on /\ mount'.cur = mount.cur
        /\ mount'.again = mount.again
        /\ mount.error => mount'.error
        /\ status' = status
    BY <1>10, SpawnBoots, FailsType DEF StartPublish, ProvisionFails
  <2>2. \A s \in Boot : ~HasSession(s)
    BY <1>10, SpawnBoots DEF HasSession
  <2>3. CASE /\ slot' = [st |-> "live", of |-> b]
             /\ child' = [child EXCEPT ![b] = "alive"]
    <3>1. HasSession(b)'
      BY <2>3 DEF HasSession, TypeOK
    <3>2. \/ boot'[mount.cur] = boot[mount.cur]
          \/ boot'[mount.cur].pc = "done"
      BY <1>0, <1>10, <2>1, SpawnBoots
    <3> QED BY <1>5, <2>1, <3>1, <3>2
  <2>4. CASE /\ Fails(b)
             /\ child' = [child EXCEPT ![b] = "dying"] \/ child' = child
    <3>1. Has => Has'
      BY <2>2, <2>4 DEF TypeOK
    <3>2. \/ boot'[mount.cur] = boot[mount.cur]
          \/ boot'[mount.cur].pc = "done" /\ mount'.error
      BY <1>0, <1>10, <2>1, <2>4, SpawnBoots, FailsType DEF Current
    <3> QED BY <1>5, <2>1, <3>1, <3>2
  <2> QED BY <1>10, <2>3, <2>4, SpawnBoots
<1>11. ASSUME NEW b \in Boot, BootListed(b) PROVE EndInv'
  <2>1. mount' = mount /\ slot' = slot /\ child' = child
    BY <1>11 DEF BootListed
  <2>2. Has => Has'
    BY <2>1 DEF HasSession
  <2>3. CASE Current(b) /\ slot.st = "live"
    <3>1. child[slot.of] # "none" /\ slot.of \in Boot
          /\ slot = [st |-> "live", of |-> slot.of]
      BY <2>3, SlotOwner DEF LiveInv
    <3>2. HasSession(slot.of) \/ child[slot.of] = "dying"
      BY <3>1 DEF HasSession, TypeOK
    <3>3. mount.cur = b /\ boot'[b].pc \notin {"taken"}
      BY <1>11, <2>3, ListBoots DEF Current
    <3> QED BY <2>1, <2>2, <3>1, <3>2, <3>3 DEF EndInv
  <2>4. CASE ~(Current(b) /\ slot.st = "live")
    <3>1. status' = status
      BY <1>11, <2>4 DEF BootListed
    <3>2. \/ boot'[mount.cur] = boot[mount.cur]
          \/ boot'[mount.cur].pc = "clearing"
      BY <1>0, <1>11, <2>1, <2>4, ListBoots DEF Current
    <3> QED BY <1>5, <2>1, <2>2, <3>1, <3>2
  <2> QED BY <2>3, <2>4
<1>12. ASSUME NEW s \in Boot, InitFrame(s) \/ ChildEnds(s) \/ ExitFrame(s)
       PROVE  EndInv'
  <2>1. boot' = boot /\ mount' = mount
    BY <1>12 DEF InitFrame, ChildEnds, ExitFrame
  <2>2. CASE InitFrame(s)
    <3>1. slot = [st |-> "live", of |-> s] /\ slot' = slot /\ child'[s] = "ready"
      BY <2>2 DEF InitFrame, ChildInv, TypeOK
    <3>2. Has'
      BY <3>1 DEF HasSession
    <3> QED BY <2>1, <3>2 DEF EndInv
  <2>3. CASE ChildEnds(s)
    <3>1. child'[s] = "dying"
      BY <2>3 DEF ChildEnds, TypeOK
    <3> QED BY <2>1, <3>1 DEF EndInv
  <2>4. CASE ExitFrame(s)
    <3>1. CASE boot[mount.cur].pc = "done"
      <4>1. inStore /\ pendingSub = 0
        BY <2>1, <3>1 DEF BootInv, KeyInv
      <4>2. listeners # {}
        BY <4>1 DEF SubInv
      <4>3. status' = "exited"
        BY <2>4, <4>2 DEF ExitFrame, Shows
      <4> QED BY <2>1, <3>1, <4>3 DEF EndInv
    <3>2. CASE boot[mount.cur].pc # "done"
      BY <2>1, <3>2 DEF EndInv
    <3> QED BY <3>1, <3>2
  <2> QED BY <1>12, <2>2, <2>3, <2>4
<1>13. CASE UNCHANGED vars
  BY <1>13 DEF vars, EndInv, HasSession
<1> QED
  BY <1>1, <1>2, <1>3, <1>4, <1>6, <1>7, <1>8, <1>9, <1>10, <1>11, <1>12,
     <1>13 DEF Next

\* A pane at rest has a session or says why it has none, but for a remounted
\* one whose restart minted a key that was taken before.
THEOREM RestingPaneHasSession == Spec => []SettledPaneHasSession
<1> DEFINE Inv == /\ TypeOK /\ BootInv /\ SubInv
                  /\ ChildInv /\ RoomInv /\ GoneInv
                  /\ LiveInv /\ KeyInv /\ EndInv
<1>1. Init => Inv
  <2>1. Init => SubInv
    BY Bounds DEF Init, SubInv
  <2>2. Init => ChildInv /\ RoomInv /\ GoneInv
    BY DEF Init, ChildInv, RoomInv, GoneInv, At
  <2>3. Init => LiveInv /\ KeyInv /\ EndInv
    BY Bounds DEF Init, LiveInv, KeyInv, EndInv, At, Free
  <2> QED BY <2>1, <2>2, <2>3, TypeInit
<1>2. Inv /\ [Next]_vars => Inv'
  BY TypeStep, BootInvStep, SubInvStep, StopInvStep, LiveInvStep, KeyInvStep,
     EndInvStep
<1>3. Inv => SettledPaneHasSession
  BY DEF EndInv, SettledPaneHasSession, Settled, BootInv
<1> HIDE DEF Inv
<1> QED BY <1>1, <1>2, <1>3, PTL DEF Spec
=============================================================================
