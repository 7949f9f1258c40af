-------------------------- MODULE AgentComposerProofs --------------------------
(***************************************************************************)
(* Proofs about the texts of AgentConversation: where they are kept, how   *)
(* often they reach a session, and what a running pane waits for.          *)
(***************************************************************************)
EXTENDS AgentConversationProofs

-----------------------------------------------------------------------------
(* Steps, as the composer sees them                                        *)

\* The first message of the queue is sent.
Flushes ==
    /\ queued # << >> /\ queued' = Tail(queued)
    /\ sends' = Append(sends, [msg |-> Head(queued), from |-> "queue"])
    /\ UNCHANGED <<draft, delivered, overlap>>

\* What a step is to the texts, and what it leaves of the user's steps.
TextStep ==
    \/ SendStart \/ Queue \/ Clear
    \/ \E t \in Text : Type(t)
    \/ \E i \in DOMAIN sends : SendHandled(i)
    \/ Flushes
    \/ UNCHANGED textVars
OtherStep ==
    /\ Input \/ UNCHANGED inputs
    /\ allowed \in BOOLEAN => allowed' \in BOOLEAN

\* A step that touches no text, or flushes the queue at most.
LEMMA QuietStep ==
    ASSUME UNCHANGED textVars, UNCHANGED allowed, Input \/ UNCHANGED inputs
    PROVE  TextStep /\ OtherStep
BY DEF TextStep, OtherStep

LEMMA FlushStep ==
    ASSUME NEW c, ShowsAndFlushes(c),
           UNCHANGED <<draft, delivered, overlap, allowed, inputs>>
    PROVE  TextStep /\ OtherStep
<1>1. Flushes \/ UNCHANGED textVars
  BY DEF ShowsAndFlushes, Flushes, textVars
<1> QED BY <1>1 DEF TextStep, OtherStep

\* Whatever happens in the pane is such a step.
LEMMA TextSteps == [Next]_vars => TextStep /\ OtherStep
<1> SUFFICES ASSUME [Next]_vars PROVE TextStep /\ OtherStep
  OBVIOUS
<1>1. CASE SessionStarts
  BY <1>1, QuietStep DEF SessionStarts
<1>2. CASE StartFails
  BY <1>2, QuietStep DEF StartFails
<1>3. CASE Restart
  BY <1>3, QuietStep DEF Restart
<1>4. CASE Boots
  BY <1>4, QuietStep DEF Boots
<1>5. CASE SendStart
  BY <1>5 DEF TextStep, OtherStep, SendStart
<1>6. CASE Queue
  BY <1>6 DEF TextStep, OtherStep, Queue
<1>7. CASE Clear
  BY <1>7 DEF TextStep, OtherStep, Clear
<1>8. ASSUME NEW t \in Text, Type(t) PROVE TextStep /\ OtherStep
  <2>1. OtherStep
    BY <1>8 DEF OtherStep, Type
  <2> QED BY <1>8, <2>1 DEF TextStep
<1>9. ASSUME NEW i \in DOMAIN sends, SendHandled(i) PROVE TextStep /\ OtherStep
  <2>1. OtherStep
    BY <1>9 DEF OtherStep, SendHandled
  <2> QED BY <1>9, <2>1 DEF TextStep
<1>10. ASSUME NEW forSession \in BOOLEAN, Answer(forSession)
       PROVE  TextStep /\ OtherStep
  BY <1>10 DEF TextStep, OtherStep, Answer
<1>11. ASSUME NEW s \in Session, ChildEnds(s) PROVE TextStep /\ OtherStep
  BY <1>11, QuietStep DEF ChildEnds
<1>12. ASSUME NEW s \in Session, InitFrame(s) PROVE TextStep /\ OtherStep
  BY <1>12, QuietStep DEF InitFrame
<1>13. ASSUME NEW s \in Session, TurnStarts(s) PROVE TextStep /\ OtherStep
  BY <1>13, QuietStep DEF TurnStarts, Requests
<1>14. ASSUME NEW s \in Session, Delta(s) PROVE TextStep /\ OtherStep
  BY <1>14, QuietStep DEF Delta
<1>15. ASSUME NEW s \in Session, Assistant(s) PROVE TextStep /\ OtherStep
  BY <1>15, QuietStep DEF Assistant
<1>16. ASSUME NEW s \in Session, Asks(s) PROVE TextStep /\ OtherStep
  BY <1>16, QuietStep DEF Asks
<1>17. ASSUME NEW s \in Session, Delegates(s) PROVE TextStep /\ OtherStep
  BY <1>17, QuietStep DEF Delegates
<1>18. ASSUME NEW s \in Session, ChildCalls(s) PROVE TextStep /\ OtherStep
  BY <1>18, QuietStep DEF ChildCalls
<1>19. ASSUME NEW s \in Session, ChildReturns(s) PROVE TextStep /\ OtherStep
  BY <1>19, QuietStep DEF ChildReturns
<1>20. ASSUME NEW s \in Session, TaskReturns(s) PROVE TextStep /\ OtherStep
  BY <1>20, QuietStep DEF TaskReturns
<1>21. ASSUME NEW s \in Session, OrchestrationStarts(s) PROVE TextStep /\ OtherStep
  BY <1>21, QuietStep DEF OrchestrationStarts
<1>22. ASSUME NEW s \in Session, OrchestrationEnds(s) PROVE TextStep /\ OtherStep
  BY <1>22, QuietStep DEF OrchestrationEnds
<1>23. ASSUME NEW s \in Session, ChildResult(s) PROVE TextStep /\ OtherStep
  BY <1>23, FlushStep DEF ChildResult
<1>24. ASSUME NEW s \in Session, Result(s) PROVE TextStep /\ OtherStep
  BY <1>24, FlushStep DEF Result
<1>25. ASSUME NEW s \in Session, ExitFrame(s) PROVE TextStep /\ OtherStep
  BY <1>25, QuietStep DEF ExitFrame
<1>26. CASE UNCHANGED vars
  BY <1>26, QuietStep DEF vars
<1>27. CASE Remount
  BY <1>27, QuietStep DEF Remount
<1>28. CASE FindsLive
  BY <1>28, QuietStep DEF FindsLive
<1>29. CASE Attach
  BY <1>29, QuietStep DEF Attach
<1>30. ASSUME NEW s \in Session, TurnOpens(s) PROVE TextStep /\ OtherStep
  BY <1>30, QuietStep DEF TurnOpens, Requests
<1>31. ASSUME NEW s \in Session, TurnGoesOn(s) PROVE TextStep /\ OtherStep
  BY <1>31, QuietStep DEF TurnGoesOn, Requests
<1> QED BY <1>1, <1>2, <1>3, <1>4, <1>5, <1>6, <1>7, <1>8, <1>9, <1>10, <1>11,
           <1>12, <1>13, <1>14, <1>15, <1>16, <1>17, <1>18, <1>19, <1>20,
           <1>21, <1>22, <1>23, <1>24, <1>25, <1>26, <1>27, <1>28, <1>29,
           <1>30, <1>31 DEF Next

-----------------------------------------------------------------------------
(* Types                                                                   *)

TextType ==
    /\ draft \subseteq Text /\ overlap \subseteq Text
    /\ queued \in Seq(SUBSET Text)
    /\ sends \in Seq(Send)
    /\ delivered \in [Text -> Nat]

LEMMA SendTypes ==
    ASSUME NEW m \in SUBSET Text, NEW from \in {"draft", "queue", "clear"}
    PROVE  LET e == [msg |-> m, from |-> from]
           IN e \in Send /\ e.msg = m /\ e.from = from
BY DEF Send

LEMMA TextTypeStep == TextType /\ [Next]_vars => TextType'
<1> SUFFICES ASSUME TextType, [Next]_vars PROVE TextType'
  OBVIOUS
<1>t. /\ draft \in SUBSET Text /\ queued \in Seq(SUBSET Text)
      /\ sends \in Seq(Send) /\ delivered \in [Text -> Nat]
  BY DEF TextType
<1>1. CASE SendStart
  <2>1. [msg |-> draft, from |-> "draft"] \in Send
    BY <1>t, SendTypes
  <2> QED BY <1>1, <1>t, <2>1, AppendProperties DEF SendStart, TextType
<1>2. CASE Queue
  BY <1>2, <1>t, AppendProperties DEF Queue, TextType
<1>3. CASE Clear
  <2>1. [msg |-> {}, from |-> "clear"] \in Send
    BY SendTypes
  <2> QED BY <1>3, <1>t, <2>1, AppendProperties DEF Clear, TextType
<1>4. ASSUME NEW t \in Text, Type(t) PROVE TextType'
  BY <1>4 DEF Type, TextType
<1>5. ASSUME NEW i \in DOMAIN sends, SendHandled(i) PROVE TextType'
  <2>1. sends' \in Seq(Send)
    BY <1>5, <1>t, RemoveAtProperties DEF SendHandled
  <2>2. delivered' \in [Text -> Nat]
    BY <1>5, <1>t DEF SendHandled, Handled
  <2> QED BY <1>5, <2>1, <2>2 DEF SendHandled, TextType
<1>6. CASE Flushes
  <2>1. Head(queued) \in SUBSET Text /\ queued' \in Seq(SUBSET Text)
    BY <1>6, <1>t, TailSet DEF Flushes
  <2>2. [msg |-> Head(queued), from |-> "queue"] \in Send
    BY <2>1, SendTypes
  <2> QED BY <1>6, <1>t, <2>1, <2>2, AppendProperties DEF Flushes, TextType
<1>7. CASE UNCHANGED textVars
  BY <1>7 DEF textVars, TextType
<1> QED BY <1>1, <1>2, <1>3, <1>4, <1>5, <1>6, <1>7, TextSteps DEF TextStep

LEMMA TypeInit == Init => TextType /\ allowed \in BOOLEAN /\ inputs \in 0..MaxInputs
<1> SUFFICES ASSUME Init
             PROVE  TextType /\ allowed \in BOOLEAN /\ inputs \in 0..MaxInputs
  OBVIOUS
<1>1. inputs \in 0..MaxInputs /\ allowed \in BOOLEAN
  <2>1. inputs = 0 /\ ~allowed /\ allowed \in BOOLEAN
    BY Zenon DEF Init
  <2> QED BY <2>1, ConversationAssumption DEF ConversationAssumption
<1>2. << >> \in Seq(SUBSET Text) /\ << >> \in Seq(Send)
  OBVIOUS
<1>3. draft \subseteq Text
  BY Zenon DEF Init
<1> QED BY <1>1, <1>2, <1>3 DEF Init, TextType

\* The boot key of a first mount is there or not.
LEMMA KeyStep == keyed \in BOOLEAN /\ [Next]_vars => keyed' \in BOOLEAN
<1> SUFFICES ASSUME keyed \in BOOLEAN, [Next]_vars PROVE keyed' \in BOOLEAN
  OBVIOUS
<1>1. CASE StartFails \/ Restart \/ Remount
  BY <1>1 DEF StartFails, Restart, Remount
<1>2. CASE \/ SessionStarts \/ Boots \/ FindsLive \/ Attach
           \/ SendStart \/ Queue \/ Clear
           \/ \E t \in Text : Type(t)
           \/ \E i \in DOMAIN sends : SendHandled(i)
           \/ \E forSession \in BOOLEAN : Answer(forSession)
  BY <1>2 DEF SessionStarts, Boots, FindsLive, Attach, SendStart, Queue, Clear,
     Type, SendHandled, Answer, sessionVars
<1>3. ASSUME NEW s \in Session,
             \/ ChildEnds(s) \/ InitFrame(s) \/ TurnStarts(s) \/ TurnOpens(s)
             \/ TurnGoesOn(s) \/ Delta(s) \/ Assistant(s) \/ Asks(s) \/ Delegates(s)
             \/ ChildCalls(s) \/ ChildReturns(s) \/ TaskReturns(s)
             \/ OrchestrationStarts(s) \/ OrchestrationEnds(s)
             \/ ChildResult(s) \/ Result(s) \/ ExitFrame(s)
      PROVE  keyed' \in BOOLEAN
  BY <1>3 DEF ChildEnds, InitFrame, TurnStarts, TurnOpens, TurnGoesOn, Requests, Delta,
     Assistant, Asks, Delegates, ChildCalls, ChildReturns, TaskReturns,
     OrchestrationStarts, OrchestrationEnds, ChildResult, Result, ExitFrame,
     sessionVars
<1>4. CASE UNCHANGED vars
  BY <1>4 DEF vars, sessionVars
<1> QED BY <1>1, <1>2, <1>3, <1>4 DEF Next

LEMMA TypeStep == TypeOK /\ ShownInv' /\ [Next]_vars => TypeOK'
<1> SUFFICES ASSUME TypeOK, ShownInv', [Next]_vars PROVE TypeOK'
  OBVIOUS
<1>1. TextType'
  BY TextTypeStep DEF TextType, TypeOK
<1>2. allowed' \in BOOLEAN /\ inputs' \in 0..MaxInputs
  BY TextSteps, ConversationAssumption
     DEF OtherStep, Input, TypeOK, ConversationAssumption
<1>3. ShownType'
  BY DEF ShownInv
<1>4. keyed' \in BOOLEAN
  BY KeyStep DEF TypeOK
<1> QED BY <1>1, <1>2, <1>3, <1>4 DEF TypeOK, ShownType, Phases, TextType

\* Every variable is of its type, and no request is in the dialogs twice.
THEOREM TypeCorrect == Spec => []TypeOK
<1>1. Init => TypeOK
  <2> SUFFICES ASSUME Init PROVE TypeOK
    OBVIOUS
  <2>1. ShownType
    BY ShownInit DEF ShownInv
  <2>2. keyed \in BOOLEAN
    BY Zenon DEF Init
  <2> QED BY <2>1, <2>2, TypeInit DEF TypeOK, ShownType, Phases, TextType
<1> QED BY <1>1, TypeStep, ShownHolds, PTL DEF Spec

-----------------------------------------------------------------------------
(* How often a text is where                                               *)

\* A text is in the composer, in the queue or under way.
Queued(t) == \E i \in DOMAIN queued : t \in queued[i]
Sent(t)   == \E i \in DOMAIN sends : t \in sends[i].msg

LEMMA Places ==
    ASSUME NEW t
    PROVE  /\ t \in InFlight <=> Sent(t)
           /\ t \in Held <=> t \in draft \/ Queued(t) \/ Sent(t)
<1>1. t \in InFlight <=> Sent(t)
  BY DEF InFlight, Sent, ToSet
<1>2. t \in UNION ToSet(queued) <=> Queued(t)
  BY DEF Queued, ToSet
<1> QED BY <1>1, <1>2 DEF Held

\* The same after a step.
LEMMA PlacesAfter ==
    ASSUME NEW t
    PROVE  t \in Held' <=> t \in draft' \/ Queued(t)' \/ Sent(t)'
<1>1. t \in InFlight' <=> Sent(t)'
  BY DEF InFlight, Sent, ToSet
<1>2. t \in (UNION ToSet(queued))' <=> Queued(t)'
  BY DEF Queued, ToSet
<1> QED BY <1>1, <1>2 DEF Held

\* A text that was not used again while it was being sent has one place: one
\* message at most carries it, and one of the queue, which it is in alone; in
\* the composer it stays only while its own message is sent from there; and
\* once a session has it, it is in none of these.
Once(t) ==
    /\ \A i, j \in DOMAIN sends :
         t \in sends[i].msg /\ t \in sends[j].msg => i = j
    /\ \A i, j \in DOMAIN queued : t \in queued[i] /\ t \in queued[j] => i = j
    /\ Queued(t) => t \notin draft /\ ~Sent(t)
    /\ \A i \in DOMAIN sends :
         t \in sends[i].msg /\ t \in draft => sends[i].from = "draft"
    /\ delivered[t] \in {0, 1}
    /\ delivered[t] = 1 => t \notin draft /\ ~Queued(t) /\ ~Sent(t)

OnceInv == \A t \in Text \ overlap : Once(t)

\* A message is appended to the commands in flight.
LEMMA AppendSend ==
    ASSUME NEW e, sends \in Seq(Send), e \in Send, sends' = Append(sends, e)
    PROVE  /\ DOMAIN sends = 1..Len(sends) /\ Len(sends) \in Nat
           /\ DOMAIN sends' = 1..(Len(sends) + 1)
           /\ \A i \in 1..Len(sends) : sends'[i] = sends[i]
           /\ sends'[Len(sends) + 1] = e
<1>1. /\ sends' \in Seq(Send) /\ Len(sends') = Len(sends) + 1
      /\ \A i \in 1..Len(sends) : sends'[i] = sends[i]
      /\ sends'[Len(sends) + 1] = e
  BY AppendProperties
<1> QED BY <1>1

\* How a text is sent again, of all that are under way.
LEMMA AppendSent ==
    ASSUME NEW e, sends \in Seq(Send), e \in Send, sends' = Append(sends, e),
           NEW t
    PROVE  /\ Sent(t)' <=> Sent(t) \/ t \in e.msg
           /\ /\ t \in e.msg => ~Sent(t)
              /\ \A i, j \in DOMAIN sends :
                   t \in sends[i].msg /\ t \in sends[j].msg => i = j
              => \A i, j \in DOMAIN sends' :
                   t \in sends'[i].msg /\ t \in sends'[j].msg => i = j
           /\ \A i \in DOMAIN sends' :
                t \in sends'[i].msg =>
                  \/ \E j \in DOMAIN sends : sends'[i] = sends[j]
                  \/ sends'[i] = e
<1> DEFINE n == Len(sends)
<1>1. /\ DOMAIN sends = 1..n /\ n \in Nat /\ DOMAIN sends' = 1..(n + 1)
      /\ \A i \in 1..n : sends'[i] = sends[i]
      /\ sends'[n + 1] = e
  BY AppendSend
<1> HIDE DEF n
<1>2. \A i \in DOMAIN sends' : \/ i \in DOMAIN sends /\ sends'[i] = sends[i]
                               \/ i = n + 1 /\ sends'[i] = e
  BY <1>1
<1>3. /\ \A i \in DOMAIN sends : i \in DOMAIN sends' /\ sends'[i] = sends[i]
      /\ n + 1 \in DOMAIN sends'
  BY <1>1
<1>4. Sent(t)' <=> Sent(t) \/ t \in e.msg
  BY <1>1, <1>2, <1>3 DEF Sent
<1>5. ASSUME t \in e.msg => ~Sent(t),
             \A i, j \in DOMAIN sends :
               t \in sends[i].msg /\ t \in sends[j].msg => i = j,
             NEW i \in DOMAIN sends', NEW j \in DOMAIN sends',
             t \in sends'[i].msg, t \in sends'[j].msg
      PROVE  i = j
  BY <1>2, <1>5 DEF Sent
<1> QED BY <1>2, <1>4, <1>5

\* What is under way, and how often, after a message has been handled.
LEMMA RemoveSent ==
    ASSUME NEW n \in DOMAIN sends, sends \in Seq(Send),
           sends' = RemoveAt(sends, n), NEW t
    PROVE  /\ Sent(t) <=> Sent(t)' \/ t \in sends[n].msg
           /\ (\A i, j \in DOMAIN sends :
                 t \in sends[i].msg /\ t \in sends[j].msg => i = j)
              => /\ \A i, j \in DOMAIN sends' :
                      t \in sends'[i].msg /\ t \in sends'[j].msg => i = j
                 /\ t \in sends[n].msg => ~Sent(t)'
           /\ \A i \in DOMAIN sends' :
                \E j \in DOMAIN sends : sends'[i] = sends[j]
<1> DEFINE l == Len(sends)
           From(i) == IF i < n THEN i ELSE i + 1
<1>1. /\ l \in Nat /\ n \in Nat /\ 1 <= n /\ n <= l
      /\ DOMAIN sends = 1..l /\ n \in 1..Len(sends)
  OBVIOUS
<1>2. /\ sends' \in Seq(Send) /\ Len(sends') = l - 1
      /\ \A i \in 1..(l - 1) :
           sends'[i] = IF i < n THEN sends[i] ELSE sends[i + 1]
  BY <1>1, RemoveAtProperties
<1>3. DOMAIN sends' = 1..(l - 1)
  BY <1>1, <1>2
<1> HIDE DEF l
<1>4. \A i \in DOMAIN sends' : /\ From(i) \in DOMAIN sends /\ From(i) # n
                               /\ sends'[i] = sends[From(i)]
  BY <1>1, <1>2, <1>3
<1>5. \A i, j \in DOMAIN sends' : From(i) = From(j) => i = j
  BY <1>1, <1>3
<1>6. \A j \in DOMAIN sends \ {n} : \E i \in DOMAIN sends' : From(i) = j
  <2>1. SUFFICES ASSUME NEW j \in DOMAIN sends \ {n}
                 PROVE  \E i \in DOMAIN sends' : From(i) = j
    OBVIOUS
  <2>2. CASE j < n
    <3>1. j \in DOMAIN sends' /\ From(j) = j
      BY <1>1, <1>3, <2>2
    <3> QED BY <3>1
  <2>3. CASE j > n
    <3>1. j - 1 \in DOMAIN sends' /\ From(j - 1) = j
      BY <1>1, <1>3, <2>3
    <3> QED BY <3>1
  <2> QED BY <1>1, <2>2, <2>3
<1> HIDE DEF From
<1>7. Sent(t) <=> Sent(t)' \/ t \in sends[n].msg
  BY <1>4, <1>6 DEF Sent
<1>8. ASSUME \A i, j \in DOMAIN sends :
               t \in sends[i].msg /\ t \in sends[j].msg => i = j
      PROVE  /\ \A i, j \in DOMAIN sends' :
                  t \in sends'[i].msg /\ t \in sends'[j].msg => i = j
             /\ t \in sends[n].msg => ~Sent(t)'
  BY <1>4, <1>5, <1>8 DEF Sent
<1> QED BY <1>4, <1>7, <1>8

\* A message joins the queue.
LEMMA AppendQueued ==
    ASSUME NEW e \in SUBSET Text, queued \in Seq(SUBSET Text),
           queued' = Append(queued, e), NEW t
    PROVE  /\ Queued(t)' <=> Queued(t) \/ t \in e
           /\ /\ t \in e => ~Queued(t)
              /\ \A i, j \in DOMAIN queued : t \in queued[i] /\ t \in queued[j] => i = j
              => \A i, j \in DOMAIN queued' :
                   t \in queued'[i] /\ t \in queued'[j] => i = j
<1> DEFINE n == Len(queued)
<1>0. /\ queued' \in Seq(SUBSET Text) /\ Len(queued') = n + 1
      /\ \A i \in 1..n : queued'[i] = queued[i]
      /\ queued'[n + 1] = e
  BY AppendProperties
<1>1. DOMAIN queued = 1..n /\ n \in Nat /\ DOMAIN queued' = 1..(n + 1)
  BY <1>0
<1> HIDE DEF n
<1>2. \A i \in DOMAIN queued' : \/ i \in DOMAIN queued /\ queued'[i] = queued[i]
                                \/ i = n + 1 /\ queued'[i] = e
  BY <1>0, <1>1
<1>3. /\ \A i \in DOMAIN queued : i \in DOMAIN queued' /\ queued'[i] = queued[i]
      /\ n + 1 \in DOMAIN queued' /\ queued'[n + 1] = e
  BY <1>0, <1>1
<1> QED BY <1>2, <1>3 DEF Queued

\* The first message leaves the queue.
LEMMA TailQueued ==
    ASSUME queued \in Seq(SUBSET Text), queued # << >>,
           queued' = Tail(queued), NEW t
    PROVE  /\ Queued(t) <=> Queued(t)' \/ t \in Head(queued)
           /\ (\A i, j \in DOMAIN queued :
                 t \in queued[i] /\ t \in queued[j] => i = j)
              => /\ \A i, j \in DOMAIN queued' :
                      t \in queued'[i] /\ t \in queued'[j] => i = j
                 /\ t \in Head(queued) => ~Queued(t)'
<1> DEFINE n == Len(queued)
<1>0. /\ queued' \in Seq(SUBSET Text) /\ Len(queued') = n - 1
      /\ \A i \in 1..Len(queued') : queued'[i] = queued[i + 1]
      /\ Head(queued) = queued[1]
  BY HeadTailProperties
<1>1. DOMAIN queued = 1..n /\ n \in Nat \ {0} /\ DOMAIN queued' = 1..(n - 1)
  BY <1>0
<1> HIDE DEF n
<1>2. \A i \in DOMAIN queued' : /\ i + 1 \in DOMAIN queued /\ i + 1 # 1
                                /\ queued'[i] = queued[i + 1] /\ i \in Nat
  BY <1>0, <1>1
<1>3. /\ 1 \in DOMAIN queued
      /\ \A j \in DOMAIN queued \ {1} : j - 1 \in DOMAIN queued' /\ (j - 1) + 1 = j
  BY <1>1
<1>4. Queued(t) <=> Queued(t)' \/ t \in Head(queued)
  <2>1. ASSUME Queued(t), t \notin Head(queued) PROVE Queued(t)'
    <3>1. PICK j \in DOMAIN queued : t \in queued[j]
      BY <2>1 DEF Queued
    <3>2. j # 1
      BY <1>0, <2>1, <3>1
    <3>3. j - 1 \in DOMAIN queued' /\ queued'[j - 1] = queued[j]
      BY <1>2, <1>3, <3>1, <3>2
    <3> QED BY <3>1, <3>3 DEF Queued
  <2>2. ASSUME Queued(t)' PROVE Queued(t)
    BY <1>2, <2>2 DEF Queued
  <2>3. ASSUME t \in Head(queued) PROVE Queued(t)
    BY <1>0, <1>3, <2>3 DEF Queued
  <2> QED BY <2>1, <2>2, <2>3
<1>5. ASSUME \A i, j \in DOMAIN queued : t \in queued[i] /\ t \in queued[j] => i = j
      PROVE  /\ \A i, j \in DOMAIN queued' :
                  t \in queued'[i] /\ t \in queued'[j] => i = j
             /\ t \in Head(queued) => ~Queued(t)'
  <2>1. ASSUME NEW i \in DOMAIN queued', NEW j \in DOMAIN queued',
               t \in queued'[i], t \in queued'[j]
        PROVE  i = j
    <3>1. i + 1 = j + 1
      BY <1>2, <1>5, <2>1
    <3> QED BY <1>2, <3>1
  <2>2. ASSUME NEW i \in DOMAIN queued', t \in queued'[i], t \in Head(queued)
        PROVE  FALSE
    <3>1. i + 1 = 1
      BY <1>0, <1>2, <1>3, <1>5, <2>2
    <3> QED BY <1>2, <3>1
  <2> QED BY <2>1, <2>2 DEF Queued
<1> QED BY <1>4, <1>5

LEMMA OnceInit == Init => OnceInv
<1> SUFFICES ASSUME Init, NEW t \in Text PROVE Once(t)
  BY DEF OnceInv
<1>1. queued = << >> /\ sends = << >>
  BY Zenon DEF Init
<1>2. delivered[t] = 0
  BY Zenon DEF Init
<1>3. ~Queued(t) /\ ~Sent(t)
  BY <1>1 DEF Queued, Sent
<1> QED BY <1>1, <1>2, <1>3 DEF Once, Sent

LEMMA SendStartOnce ==
    ASSUME TextType, SendStart, NEW t \in Text \ overlap', Once(t)
    PROVE  Once(t)'
<1> DEFINE e == [msg |-> draft, from |-> "draft"]
<1>1. /\ e \in Send /\ e.msg = draft /\ e.from = "draft"
      /\ sends \in Seq(Send) /\ sends' = Append(sends, e)
      /\ UNCHANGED <<draft, queued, delivered>>
      /\ t \in draft => ~Sent(t)
  BY SendTypes, Places DEF SendStart, TextType
<1> HIDE DEF e
<1>2. /\ Sent(t)' <=> Sent(t) \/ t \in draft
      /\ \A i, j \in DOMAIN sends' :
           t \in sends'[i].msg /\ t \in sends'[j].msg => i = j
      /\ \A i \in DOMAIN sends' :
           t \in sends'[i].msg =>
             \/ \E j \in DOMAIN sends : sends'[i] = sends[j]
             \/ sends'[i] = e
  BY <1>1, AppendSent DEF Once
<1>3. Queued(t)' <=> Queued(t)
  BY <1>1 DEF Queued
<1> QED BY <1>1, <1>2, <1>3 DEF Once

LEMMA QueueOnce ==
    ASSUME TextType, Queue, NEW t \in Text \ overlap', Once(t)
    PROVE  Once(t)'
<1>1. /\ queued \in Seq(SUBSET Text) /\ draft \in SUBSET Text
      /\ queued' = Append(queued, draft) /\ draft' = {}
      /\ UNCHANGED <<sends, delivered>>
      /\ t \in draft => ~Sent(t)
  BY Places DEF Queue, TextType
<1>2. /\ Queued(t)' <=> Queued(t) \/ t \in draft
      /\ \A i, j \in DOMAIN queued' :
           t \in queued'[i] /\ t \in queued'[j] => i = j
  BY <1>1, AppendQueued DEF Once
<1>3. Sent(t)' <=> Sent(t)
  BY <1>1 DEF Sent
<1> QED BY <1>1, <1>2, <1>3 DEF Once

LEMMA ClearOnce ==
    ASSUME TextType, Clear, NEW t \in Text \ overlap', Once(t)
    PROVE  Once(t)'
<1> DEFINE e == [msg |-> {}, from |-> "clear"]
<1>1. /\ e \in Send /\ e.msg = {} /\ sends \in Seq(Send)
      /\ sends' = sends \/ sends' = Append(sends, e)
      /\ draft' = {} /\ queued' = << >> /\ UNCHANGED delivered
  BY SendTypes DEF Clear, TextType
<1> HIDE DEF e
<1>2. /\ Sent(t)' <=> Sent(t)
      /\ \A i, j \in DOMAIN sends' :
           t \in sends'[i].msg /\ t \in sends'[j].msg => i = j
  <2>1. CASE sends' = sends
    BY <2>1 DEF Sent, Once
  <2>2. CASE sends' = Append(sends, e)
    BY <1>1, <2>2, AppendSent DEF Once
  <2> QED BY <1>1, <2>1, <2>2
<1>3. ~Queued(t)'
  BY <1>1 DEF Queued
<1> QED BY <1>1, <1>2, <1>3 DEF Once

LEMMA TypeOnce ==
    ASSUME NEW u \in Text, Type(u), NEW t \in Text \ overlap', Once(t)
    PROVE  Once(t)'
<1>1. /\ draft' = draft \cup {u} /\ UNCHANGED <<queued, sends, delivered>>
      /\ delivered[u] = 0 /\ ~Queued(u) /\ ~Sent(u)
  BY Places DEF Type
<1>2. (Queued(t)' <=> Queued(t)) /\ (Sent(t)' <=> Sent(t))
  BY <1>1 DEF Queued, Sent
<1>3. CASE t = u
  BY <1>1, <1>2, <1>3 DEF Once, Sent
<1>4. CASE t # u
  BY <1>1, <1>2, <1>4 DEF Once
<1> QED BY <1>3, <1>4

\* What a handled message does to its texts.
LEMMA HandledTexts ==
    ASSUME TextType, NEW n \in DOMAIN sends, Handled(sends[n]), NEW t \in Text
    PROVE  /\ t \notin sends[n].msg => delivered'[t] = delivered[t]
           /\ t \in sends[n].msg =>
                \/ Lives /\ delivered'[t] = delivered[t] + 1
                \/ ~Lives /\ delivered'[t] = delivered[t]
BY DEF TextType, Handled

LEMMA SendHandledOnce ==
    ASSUME TextType, NEW n \in DOMAIN sends, SendHandled(n),
           NEW t \in Text \ overlap', Once(t)
    PROVE  Once(t)'
<1>1. /\ sends \in Seq(Send) /\ sends' = RemoveAt(sends, n)
      /\ UNCHANGED queued /\ draft' \subseteq draft
      /\ sends[n].from = "draft" => draft' = {}
  BY DEF SendHandled, TextType, Empties
<1>2. /\ Sent(t) <=> Sent(t)' \/ t \in sends[n].msg
      /\ \A i, j \in DOMAIN sends' :
           t \in sends'[i].msg /\ t \in sends'[j].msg => i = j
      /\ t \in sends[n].msg => ~Sent(t)'
      /\ \A i \in DOMAIN sends' : \E j \in DOMAIN sends : sends'[i] = sends[j]
  BY <1>1, RemoveSent DEF Once
<1>3. Queued(t)' <=> Queued(t)
  BY <1>1 DEF Queued
<1>4. /\ t \notin sends[n].msg => delivered'[t] = delivered[t]
      /\ t \in sends[n].msg => delivered'[t] \in {delivered[t], delivered[t] + 1}
  BY HandledTexts DEF SendHandled
<1>5. CASE t \notin sends[n].msg
  BY <1>1, <1>2, <1>3, <1>4, <1>5 DEF Once
<1>6. CASE t \in sends[n].msg
  <2>1. delivered[t] = 0 /\ ~Queued(t)
    BY <1>2, <1>6 DEF Once
  <2>2. delivered'[t] \in {0, 1}
    BY <1>4, <1>6, <2>1
  <2>3. t \notin draft'
    BY <1>1, <1>6 DEF Once
  <2> QED BY <1>1, <1>2, <1>3, <1>6, <2>1, <2>2, <2>3 DEF Once
<1> QED BY <1>5, <1>6

LEMMA FlushesOnce ==
    ASSUME TextType, Flushes, NEW t \in Text \ overlap', Once(t)
    PROVE  Once(t)'
<1>0. PICK m \in SUBSET Text : m = Head(queued)
  BY TailSet DEF Flushes, TextType
<1> DEFINE e == [msg |-> m, from |-> "queue"]
<1>1. /\ e \in Send /\ e.msg = m /\ e.from = "queue"
      /\ sends \in Seq(Send) /\ sends' = Append(sends, e)
      /\ queued \in Seq(SUBSET Text) /\ queued # << >> /\ queued' = Tail(queued)
      /\ UNCHANGED <<draft, delivered>>
  BY <1>0, SendTypes DEF Flushes, TextType
<1> HIDE DEF e
<1>2. /\ Queued(t) <=> Queued(t)' \/ t \in m
      /\ \A i, j \in DOMAIN queued' :
           t \in queued'[i] /\ t \in queued'[j] => i = j
      /\ t \in m => ~Queued(t)'
  BY <1>0, <1>1, TailQueued DEF Once
<1>3. t \in m => ~Sent(t) /\ t \notin draft /\ delivered[t] # 1
  BY <1>2 DEF Once
<1>4. /\ Sent(t)' <=> Sent(t) \/ t \in m
      /\ \A i, j \in DOMAIN sends' :
           t \in sends'[i].msg /\ t \in sends'[j].msg => i = j
      /\ \A i \in DOMAIN sends' :
           t \in sends'[i].msg =>
             \/ \E j \in DOMAIN sends : sends'[i] = sends[j]
             \/ sends'[i] = e
  BY <1>1, <1>3, AppendSent DEF Once
<1> QED BY <1>1, <1>2, <1>3, <1>4 DEF Once

LEMMA OnceStep == TextType /\ OnceInv /\ [Next]_vars => OnceInv'
<1> SUFFICES ASSUME TextType, OnceInv, [Next]_vars, NEW t \in Text \ overlap'
             PROVE  Once(t)'
  BY DEF OnceInv
<1>1. TextStep
  BY TextSteps
<1>2. overlap \subseteq overlap'
  BY <1>1 DEF TextStep, SendStart, Queue, Clear, Type, SendHandled, Flushes,
     textVars
<1>3. Once(t)
  BY <1>2 DEF OnceInv
<1>4. CASE SendStart
  BY <1>3, <1>4, SendStartOnce
<1>5. CASE Queue
  BY <1>3, <1>5, QueueOnce
<1>6. CASE Clear
  BY <1>3, <1>6, ClearOnce
<1>7. ASSUME NEW u \in Text, Type(u) PROVE Once(t)'
  BY <1>3, <1>7, TypeOnce
<1>8. ASSUME NEW i \in DOMAIN sends, SendHandled(i) PROVE Once(t)'
  BY <1>3, <1>8, SendHandledOnce
<1>9. CASE Flushes
  BY <1>3, <1>9, FlushesOnce
<1>10. CASE UNCHANGED textVars
  BY <1>3, <1>10 DEF textVars, Once, Queued, Sent
<1> QED BY <1>1, <1>4, <1>5, <1>6, <1>7, <1>8, <1>9, <1>10 DEF TextStep

\* A text that the user did not send or queue again while a send of it was
\* under way is in one place at a time and reaches the sessions once.
THEOREM OnceHolds == Spec => []OnceInv
<1>1. TypeOK => TextType
  BY DEF TypeOK, TextType
<1> QED BY <1>1, OnceInit, OnceStep, TypeCorrect, PTL DEF Spec

\* A text reaches the sessions once, unless it was used again meanwhile.
THEOREM SentOnceHolds == Spec => []SentOnce
<1>1. OnceInv => SentOnce
  BY DEF OnceInv, Once, SentOnce
<1> QED BY <1>1, OnceHolds, PTL

-----------------------------------------------------------------------------
(* How a text is lost                                                      *)

\* What one step may take from the composer, the queue and the wire.
Lost(t) ==
    \/ ~Lives /\ \E m \in ToSet(sends) : t \in m.msg
    \/ t \in draft /\ \E m \in ToSet(sends) : m.from # "queue" /\ t \notin m.msg
    \/ draft' = {} /\ queued' = << >> /\ Len(sends') >= Len(sends)

LEMMA SendHandledLoses ==
    ASSUME TextType, NEW n \in DOMAIN sends, SendHandled(n),
           NEW t \in Text, t \in Held, t \notin Held', delivered'[t] = 0
    PROVE  Lost(t)
<1>1. /\ sends \in Seq(Send) /\ sends' = RemoveAt(sends, n) /\ UNCHANGED queued
      /\ draft' = IF Empties(sends[n]) THEN {} ELSE draft
      /\ Handled(sends[n])
  BY DEF SendHandled, TextType
<1>2. (Sent(t) <=> Sent(t)' \/ t \in sends[n].msg) /\ (Queued(t)' <=> Queued(t))
  BY <1>1, RemoveSent DEF Queued
<1>3. /\ t \in draft \/ Queued(t) \/ Sent(t)
      /\ t \notin draft' /\ ~Queued(t)' /\ ~Sent(t)'
  BY Places, PlacesAfter
<1>4. sends[n] \in ToSet(sends)
  BY DEF ToSet
<1>5. CASE t \in sends[n].msg
  <2>1. delivered[t] \in Nat
    BY DEF TextType
  <2>2. ~Lives
    BY <1>1, <1>5, <2>1, HandledTexts
  <2> QED BY <1>4, <1>5, <2>2 DEF Lost
<1>6. CASE t \notin sends[n].msg
  <2>1. t \in draft /\ Empties(sends[n])
    BY <1>1, <1>2, <1>3, <1>6
  <2>2. sends[n].from # "queue"
    BY <2>1 DEF Empties
  <2> QED BY <1>4, <1>6, <2>1, <2>2 DEF Lost
<1> QED BY <1>5, <1>6

LEMMA ClearLoses == ASSUME TextType, Clear, NEW t PROVE Lost(t)
<1>1. Len(sends') >= Len(sends)
  <2>1. [msg |-> {}, from |-> "clear"] \in Send /\ sends \in Seq(Send)
    BY SendTypes DEF TextType
  <2> QED BY <2>1, AppendSet DEF Clear
<1> QED BY <1>1 DEF Clear, Lost

LEMMA KeptStep ==
    ASSUME TextType, TextStep, NEW t \in Text, t \in Held, t \notin Held',
           delivered'[t] = 0
    PROVE  Lost(t)
<1>1. /\ t \in draft \/ Queued(t) \/ Sent(t)
      /\ t \notin draft' /\ ~Queued(t)' /\ ~Sent(t)'
  BY Places, PlacesAfter
<1>2. CASE SendStart
  <2> DEFINE e == [msg |-> draft, from |-> "draft"]
  <2>1. /\ e \in Send /\ sends \in Seq(Send) /\ sends' = Append(sends, e)
        /\ UNCHANGED <<draft, queued>>
    BY <1>2, SendTypes DEF SendStart, TextType
  <2> HIDE DEF e
  <2>2. Sent(t) => Sent(t)'
    BY <2>1, AppendSent
  <2> QED BY <1>1, <2>1, <2>2 DEF Queued
<1>3. CASE Queue
  <2>1. /\ draft \in SUBSET Text /\ queued \in Seq(SUBSET Text)
        /\ queued' = Append(queued, draft) /\ UNCHANGED sends
    BY <1>3 DEF Queue, TextType
  <2>2. Queued(t)' <=> Queued(t) \/ t \in draft
    BY <2>1, AppendQueued
  <2> QED BY <1>1, <2>1, <2>2 DEF Sent
<1>4. CASE Clear
  BY <1>4, ClearLoses
<1>5. ASSUME NEW u \in Text, Type(u) PROVE Lost(t)
  BY <1>1, <1>5 DEF Type, Queued, Sent
<1>6. ASSUME NEW i \in DOMAIN sends, SendHandled(i) PROVE Lost(t)
  BY <1>6, SendHandledLoses
<1>7. CASE Flushes
  <2>1. PICK m \in SUBSET Text : m = Head(queued)
    BY <1>7, TailSet DEF Flushes, TextType
  <2> DEFINE e == [msg |-> m, from |-> "queue"]
  <2>2. /\ e \in Send /\ e.msg = m
        /\ sends \in Seq(Send) /\ sends' = Append(sends, e)
        /\ queued \in Seq(SUBSET Text) /\ queued # << >> /\ queued' = Tail(queued)
        /\ UNCHANGED draft
    BY <1>7, <2>1, SendTypes DEF Flushes, TextType
  <2> HIDE DEF e
  <2>3. /\ Sent(t)' <=> Sent(t) \/ t \in m
        /\ Queued(t) <=> Queued(t)' \/ t \in m
    BY <2>1, <2>2, AppendSent, TailQueued
  <2> QED BY <1>1, <2>2, <2>3
<1>8. CASE UNCHANGED textVars
  BY <1>1, <1>8 DEF textVars, Queued, Sent
<1> QED BY <1>2, <1>3, <1>4, <1>5, <1>6, <1>7, <1>8 DEF TextStep

\* A text leaves the composer, the queue and the wire without reaching a
\* session in three ways only: its message was refused, it was behind another
\* message that emptied the composer, or /clear took it.
THEOREM TextIsKeptHolds == Spec => TextIsKept
<1>1. TypeOK /\ [Next]_vars =>
        [\A t \in Held \ Held' : delivered'[t] = 0 =>
           \/ ~Lives /\ \E m \in ToSet(sends) : t \in m.msg
           \/ /\ t \in draft
              /\ \E m \in ToSet(sends) : m.from # "queue" /\ t \notin m.msg
           \/ draft' = {} /\ queued' = << >> /\ Len(sends') >= Len(sends)]_vars
  <2>1. SUFFICES ASSUME TypeOK, [Next]_vars, NEW t \in Held \ Held',
                        delivered'[t] = 0
                 PROVE  Lost(t)
    BY DEF Lost
  <2>2. TextType /\ TextStep
    BY <2>1, TextSteps DEF TypeOK, TextType
  <2>3. t \in Text
    <3>1. t \in draft \/ Queued(t) \/ Sent(t)
      BY <2>1, Places
    <3>2. Queued(t) => t \in Text
      BY <2>2 DEF TextType, Queued
    <3>3. Sent(t) => t \in Text
      <4>1. \A i \in DOMAIN sends : sends[i] \in Send
        BY <2>2 DEF TextType
      <4> QED BY <4>1 DEF Sent, Send
    <3> QED BY <2>2, <3>1, <3>2, <3>3 DEF TextType
  <2> QED BY <2>1, <2>2, <2>3, KeptStep
<1> QED BY <1>1, TypeCorrect, PTL DEF Spec, TextIsKept

-----------------------------------------------------------------------------
(* A pane that runs                                                        *)

\* What the pane says of the session s, and of the work it has.
WorkOf(s) ==
    conv.by \in {0, s} =>
      /\ conv.status = "running" => sends # << >> \/ cli[s].turn \/ cli[s].inbox > 0
      /\ cli[s].turn /\ conv.status # "running" =>
             /\ conv.by = 0
             /\ conv.status = IF phase = "started" THEN "idle" ELSE "starting"

\* The status stays, and so does the work.
LEMMA WorkKept ==
    ASSUME RunningIsWork, sends' # << >> \/ UNCHANGED sends,
           UNCHANGED <<phase, conv.status, conv.by>>,
           \A s \in Session : Takes(s)' =>
             /\ Takes(s)
             /\ cli'[s].init = cli[s].init /\ cli'[s].turn = cli[s].turn
             /\ cli'[s].inbox = cli[s].inbox
    PROVE  RunningIsWork'
BY DEF RunningIsWork

\* The frames and answers that leave the status, of a conversation.
LEMMA StatusKept ==
    ASSUME NEW c \in ConversationType, NEW s \in Session
    PROVE  \A d \in {ClearContext(c), ApplyDelta(c, s), ApplyAssistant(c),
                     ApplyPermission(c, s), ResolvePermission(c, s),
                     ApplyToolUse(c, s), ApplyToolResult(c, s, "main"),
                     ApplyChildToolUse(c, s), ApplyChildToolResult(c, s),
                     ApplyTaskStarted(c, s), ApplyTaskEnded(c, s)} :
             d.status = c.status /\ d.by = c.by
<1>1. \A d \in {ClearContext(c), ApplyDelta(c, s), ApplyAssistant(c),
                ApplyTaskStarted(c, s), ApplyTaskEnded(c, s)} :
        d.status = c.status /\ d.by = c.by
  BY DEF ConversationType, ClearContext, ApplyDelta, ApplyAssistant,
     ApplyTaskStarted, ApplyTaskEnded
<1>2. \A d \in {ApplyPermission(c, s), ResolvePermission(c, s)} :
        d.status = c.status /\ d.by = c.by
  BY DEF ConversationType, ApplyPermission, ResolvePermission
<1>3. \A d \in {ApplyToolUse(c, s), ApplyToolResult(c, s, "main"),
                ApplyToolResult(c, s, "child")} :
        d.status = c.status /\ d.by = c.by
  BY DEF ConversationType, ApplyToolUse, ApplyAssistant, ApplyToolResult
<1>4. \A d \in {ApplyChildToolUse(c, s), ApplyChildToolResult(c, s)} :
        d.status = c.status /\ d.by = c.by
  BY <1>3 DEF ConversationType, ApplyChildToolUse, ApplyChildToolResult
<1> QED BY <1>1, <1>2, <1>3, <1>4

\* What a session does besides its turns.
LEMMA DoesBesides ==
    ASSUME cli \in [Session -> ChildState], NEW s \in Session,
           NEW field \in {"asks", "task", "orch"}, NEW value,
           Does(s, field, value)
    PROVE  \A x \in Session : /\ cli'[x].init = cli[x].init
                              /\ cli'[x].turn = cli[x].turn
                              /\ cli'[x].inbox = cli[x].inbox
BY DEF Does, ChildState

\* A frame that leaves the status and starts or ends no turn.
LEMMA BesidesWork ==
    ASSUME ShownInv, RunningIsWork, NEW s \in Session, UNCHANGED sessionVars,
           NEW d, Shows(d), d.status = conv.status, d.by = conv.by,
           UNCHANGED sends,
           \A x \in Session : /\ cli'[x].init = cli[x].init
                              /\ cli'[x].turn = cli[x].turn
                              /\ cli'[x].inbox = cli[x].inbox
    PROVE  RunningIsWork'
<1>1. UNCHANGED <<conv.status, conv.by>>
  BY DEF Shows
<1>2. UNCHANGED phase /\ \A x \in Session : Takes(x)' <=> Takes(x)
  BY DEF Takes, sessionVars
<1> QED BY <1>1, <1>2, WorkKept

\* The session that takes lines is one, and the last.
LEMMA OneTakes ==
    ASSUME NEW s \in Session, NEW x \in Session, Takes(s), Takes(x)
    PROVE  s = x
BY DEF Takes

\* What a frame of a session finds.
LEMMA WorkBefore ==
    ASSUME ShownInv
    PROVE  /\ conv \in ConversationType /\ cli \in [Session -> ChildState]
           /\ \A s \in Session : /\ s \in 0..MaxSessions /\ s # 0
                                 /\ cli[s] \in ChildState
                                 /\ Takes(s) => Hears
                                 /\ cli[s].turn => cli[s].init
                                 /\ child[s] = "alive" => Takes(s)
BY NoSession DEF ShownInv, ShownType, Takes, Hears

LEMMA InitFrameWork ==
    ASSUME ShownInv, RunningIsWork, NEW s \in Session, InitFrame(s)
    PROVE  RunningIsWork'
<1>1. /\ UNCHANGED sessionVars /\ UNCHANGED sends /\ ~cli[s].init
      /\ Does(s, "init", TRUE) /\ Shows(ApplyInit(conv, s))
  BY DEF InitFrame, textVars
<1>2. /\ \A x \in Session \ {s} : cli'[x] = cli[x]
      /\ cli'[s].turn = cli[s].turn /\ ~cli[s].turn
  BY <1>1, WorkBefore DEF Does, ChildState
<1>3. SUFFICES ASSUME NEW x \in Session, Takes(x), cli'[x].init
               PROVE  WorkOf(x)'
  BY <1>1 DEF RunningIsWork, WorkOf, Takes, sessionVars
<1>4. conv'.status = "idle" /\ conv'.by = s /\ s # 0
  BY <1>1, <1>3, WorkBefore, StatusEffects DEF Shows
<1>5. CASE x = s
  BY <1>2, <1>4, <1>5 DEF WorkOf
<1>6. CASE x # s
  BY <1>4, <1>6 DEF WorkOf
<1> QED BY <1>5, <1>6

\* A turn of the live session is shown, one of a session before comes late.
LEMMA RequestsWork ==
    ASSUME ShownInv, RunningIsWork, NEW s \in Session, Requests(s),
           UNCHANGED sends, \A x \in Session \ {s} : cli'[x] = cli[x],
           cli'[s].turn
    PROVE  RunningIsWork'
<1>1. UNCHANGED sessionVars /\ Shows(ApplyRequesting(conv, s))
  BY DEF Requests
<1>2. SUFFICES ASSUME NEW x \in Session, Takes(x), cli'[x].init
               PROVE  WorkOf(x)'
  BY <1>1 DEF RunningIsWork, WorkOf, Takes, sessionVars
<1>3. conv'.status = "running" /\ conv'.by = s /\ s # 0
  BY <1>1, <1>2, WorkBefore, StatusEffects DEF Shows
<1>4. CASE x = s
  BY <1>3, <1>4 DEF WorkOf
<1>5. CASE x # s
  BY <1>3, <1>5 DEF WorkOf
<1> QED BY <1>4, <1>5

LEMMA TurnStartsWork ==
    ASSUME ShownInv, RunningIsWork, NEW s \in Session,
           TurnStarts(s) \/ TurnOpens(s) \/ TurnGoesOn(s)
    PROVE  RunningIsWork'
<1>1. /\ Requests(s) /\ UNCHANGED sends
      /\ \/ cli' = [cli EXCEPT ![s].turn = TRUE, ![s].inbox = @ - 1]
         \/ cli' = [cli EXCEPT ![s].turn = TRUE]
         \/ cli[s].turn /\ UNCHANGED cli
  BY DEF TurnStarts, TurnOpens, TurnGoesOn, Requests, Does, textVars
<1>2. cli'[s].turn /\ \A x \in Session \ {s} : cli'[x] = cli[x]
  BY <1>1, WorkBefore DEF ChildState
<1> QED BY <1>1, <1>2, RequestsWork

LEMMA ExitFrameWork ==
    ASSUME ShownInv, RunningIsWork, NEW s \in Session, ExitFrame(s)
    PROVE  RunningIsWork'
<1>1. /\ UNCHANGED <<phase, sess, cli, sends>> /\ Shows(ApplyExit(conv, s))
      /\ child[s] = "dying" /\ child' = [child EXCEPT ![s] = "gone"]
  BY DEF ExitFrame, textVars
<1>2. \A x \in Session : Takes(x)' => Takes(x) /\ x # s
  BY <1>1 DEF Takes, ShownInv, ShownType
<1>3. SUFFICES ASSUME NEW x \in Session, Takes(x), x # s
               PROVE  WorkOf(x)'
  BY <1>2 DEF RunningIsWork, WorkOf
<1>4. conv'.status = "exited" /\ conv'.by = s /\ s # 0
  BY <1>1, <1>3, WorkBefore, StatusEffects DEF Shows
<1> QED BY <1>3, <1>4 DEF WorkOf

\* What a result frame shows: a turn that is over, or the next one.
LEMMA FlushWork ==
    ASSUME TextType, NEW d \in ConversationType, ShowsAndFlushes(d), Hears
    PROVE  \/ conv'.status = "running" /\ conv'.by = 0 /\ sends' # << >>
           \/ conv' = d /\ UNCHANGED sends
<1>1. CASE queued = << >>
  BY <1>1 DEF ShowsAndFlushes, Shows
<1>2. CASE queued # << >>
  <2>1. PICK m \in SUBSET Text : m = Head(queued)
    BY <1>2, TailSet DEF TextType
  <2>2. [msg |-> m, from |-> "queue"] \in Send /\ sends \in Seq(Send)
    BY SendTypes DEF TextType
  <2>3. conv' = AppendUserTurn(d) /\ sends' = Append(sends, [msg |-> m, from |-> "queue"])
    BY <1>2, <2>1 DEF ShowsAndFlushes
  <2> QED BY <2>2, <2>3, AppendSet, OwnStatusEffects
<1> QED BY <1>1, <1>2

LEMMA ChildResultWork ==
    ASSUME ShownInv, TextType, RunningIsWork, NEW s \in Session, ChildResult(s)
    PROVE  RunningIsWork'
<1>1. UNCHANGED sessionVars /\ UNCHANGED cli /\ ShowsAndFlushes(conv)
  BY DEF ChildResult
<1>2. SUFFICES ASSUME NEW x \in Session, Takes(x), cli[x].init
               PROVE  WorkOf(x)'
  BY <1>1 DEF RunningIsWork, WorkOf, Takes, sessionVars
<1>3. \/ conv'.status = "running" /\ conv'.by = 0 /\ sends' # << >>
      \/ conv' = conv /\ UNCHANGED sends
  BY <1>1, <1>2, WorkBefore, FlushWork
<1>4. WorkOf(x)
  BY <1>2 DEF RunningIsWork, WorkOf
<1> QED BY <1>1, <1>3, <1>4 DEF WorkOf, sessionVars

LEMMA ResultWork ==
    ASSUME ShownInv, TextType, RunningIsWork, NEW s \in Session, Result(s)
    PROVE  RunningIsWork'
<1>1. /\ UNCHANGED sessionVars /\ Does(s, "turn", FALSE)
      /\ ShowsAndFlushes(ApplyResult(conv, s))
  BY DEF Result
<1>2. ~cli'[s].turn
  BY <1>1, WorkBefore DEF Does, ChildState
<1>3. SUFFICES ASSUME NEW x \in Session, Takes(x), cli'[x].init
               PROVE  WorkOf(x)'
  BY <1>1 DEF RunningIsWork, WorkOf, Takes, sessionVars
<1>4. PICK d \in ConversationType : /\ d = ApplyResult(conv, s)
                                    /\ d.status = "idle" /\ d.by = s
  BY WorkBefore, ResultEffect
<1>5. \/ conv'.status = "running" /\ conv'.by = 0 /\ sends' # << >>
      \/ conv' = d
  BY <1>1, <1>3, <1>4, WorkBefore, FlushWork
<1>6. s # 0
  BY WorkBefore
<1>7. CASE x = s
  BY <1>2, <1>4, <1>5, <1>6, <1>7 DEF WorkOf
<1>8. CASE x # s
  BY <1>4, <1>5, <1>6, <1>8 DEF WorkOf
<1> QED BY <1>7, <1>8

LEMMA SendStartWork ==
    ASSUME ShownInv, TextType, RunningIsWork, SendStart
    PROVE  RunningIsWork'
<1>1. /\ UNCHANGED sessionVars /\ UNCHANGED cli /\ conv' = AppendUserTurn(conv)
      /\ sends' = Append(sends, [msg |-> draft, from |-> "draft"])
  BY DEF SendStart
<1>2. conv'.status = "running"
  BY <1>1, WorkBefore, OwnStatusEffects
<1>3. sends' # << >>
  <2>1. [msg |-> draft, from |-> "draft"] \in Send /\ sends \in Seq(Send)
    BY SendTypes DEF TextType
  <2> QED BY <1>1, <2>1, AppendSet
<1> QED BY <1>2, <1>3 DEF RunningIsWork

LEMMA SendHandledWork ==
    ASSUME ShownInv, TextType, RunningIsWork, NEW i \in DOMAIN sends,
           SendHandled(i)
    PROVE  RunningIsWork'
<1>1. UNCHANGED sessionVars /\ UNCHANGED conv /\ Handled(sends[i])
  BY DEF SendHandled
<1>2. SUFFICES ASSUME NEW x \in Session, Takes(x), cli'[x].init
               PROVE  WorkOf(x)'
  BY <1>1 DEF RunningIsWork, WorkOf, Takes, sessionVars
<1>3. cli'[x].inbox > 0 /\ cli'[x].turn = cli[x].turn /\ cli[x].init
  BY <1>1, <1>2, HandledEffect, WorkBefore DEF ChildState
<1>4. WorkOf(x)
  BY <1>2, <1>3 DEF RunningIsWork, WorkOf
<1> QED BY <1>1, <1>3, <1>4 DEF WorkOf, sessionVars

LEMMA ClearWork ==
    ASSUME ShownInv, TextType, RunningIsWork, Clear
    PROVE  RunningIsWork'
<1>1. /\ UNCHANGED sessionVars /\ UNCHANGED cli /\ conv' = ClearContext(conv)
      /\ sends' \in {sends, Append(sends, [msg |-> {}, from |-> "clear"])}
  BY DEF Clear
<1>2. sends' # << >> \/ UNCHANGED sends
  <2>1. [msg |-> {}, from |-> "clear"] \in Send /\ sends \in Seq(Send)
    BY SendTypes DEF TextType
  <2> QED BY <1>1, <2>1, AppendSet
<1>3. UNCHANGED <<conv.status, conv.by>>
  BY <1>1, WorkBefore, ClearEffect DEF SameButCalls
<1>4. UNCHANGED phase /\ \A x \in Session : Takes(x)' <=> Takes(x)
  BY <1>1 DEF Takes, sessionVars
<1> QED BY <1>1, <1>2, <1>3, <1>4, WorkKept

\* The pane's own steps: they make no session take lines that has begun to
\* report, or they show a boot, or that it has attached.
LEMMA PaneWork ==
    ASSUME ShownInv, RunningIsWork,
           \/ SessionStarts \/ StartFails \/ Restart \/ Boots
           \/ Remount \/ FindsLive \/ Attach
    PROVE  RunningIsWork'
<1>1. CASE SessionStarts
  <2>1. SUFFICES ASSUME NEW x \in Session, Takes(x)' PROVE ~cli'[x].init
    BY DEF RunningIsWork
  <2>2. x = sess + 1 /\ UNCHANGED cli
    BY <1>1, <2>1 DEF SessionStarts, Takes
  <2>3. x > sess
    BY <2>2 DEF ShownInv, ShownType
  <2> QED BY <2>2, <2>3 DEF ShownInv, NotShown, Idle
<1>2. CASE Restart
  <2>1. \A x \in Session : ~Takes(x)'
    BY <1>2 DEF Restart, Takes
  <2> QED BY <2>1 DEF RunningIsWork
<1>3. CASE Boots
  <2>1. \A x \in Session : ~Takes(x)'
    BY <1>3 DEF Boots, Takes, ShownInv
  <2> QED BY <2>1 DEF RunningIsWork
<1>4. CASE StartFails \/ FindsLive
  <2>1. /\ phase = "starting" /\ phase' # "started"
        /\ UNCHANGED <<sess, child, cli, conv, sends>>
    BY <1>4 DEF StartFails, FindsLive, textVars
  <2> QED BY <2>1 DEF RunningIsWork, Takes
<1>5. CASE Remount
  <2>1. phase' = "starting" /\ conv'.status = "starting" /\ conv'.by = 0
    BY <1>5, WorkBefore, OwnStatusEffects DEF Remount
  <2> QED BY <2>1 DEF RunningIsWork
<1>6. CASE Attach
  <2>1. phase' = "started" /\ conv'.status = "idle" /\ conv'.by = 0
    BY <1>6, WorkBefore, OwnStatusEffects DEF Attach
  <2> QED BY <2>1 DEF RunningIsWork
<1> QED BY <1>1, <1>2, <1>3, <1>4, <1>5, <1>6

LEMMA AnswerWork ==
    ASSUME ShownInv, RunningIsWork, NEW forSession \in BOOLEAN,
           Answer(forSession)
    PROVE  RunningIsWork'
<1>1. /\ conv.permissions # << >> /\ UNCHANGED sessionVars /\ UNCHANGED sends
  BY DEF Answer, textVars
<1>2. PICK s \in Session : s = Head(conv.permissions)
  BY <1>1, WorkBefore, TailSet DEF ConversationType
<1>3. /\ conv' = ResolvePermission(conv, s)
      /\ cli' = cli \/ cli' = [cli EXCEPT ![s].asks = FALSE]
  BY <1>2 DEF Answer
<1>4. \A x \in Session : /\ cli'[x].init = cli[x].init
                         /\ cli'[x].turn = cli[x].turn
                         /\ cli'[x].inbox = cli[x].inbox
  BY <1>3, WorkBefore DEF ChildState
<1>5. UNCHANGED <<conv.status, conv.by>>
  BY <1>3, WorkBefore, StatusKept
<1>6. UNCHANGED phase /\ \A x \in Session : Takes(x)' <=> Takes(x)
  BY <1>1 DEF Takes, sessionVars
<1> QED BY <1>1, <1>4, <1>5, <1>6, WorkKept

\* Frames about text, requests, sub-agents and orchestrations.
LEMMA BesidesFrames ==
    ASSUME ShownInv, RunningIsWork, NEW s \in Session,
           UNCHANGED sessionVars, UNCHANGED sends,
           NEW d \in {ApplyPermission(conv, s), ApplyToolUse(conv, s),
                      ApplyToolResult(conv, s, "main"),
                      ApplyChildToolUse(conv, s), ApplyChildToolResult(conv, s),
                      ApplyTaskStarted(conv, s), ApplyTaskEnded(conv, s)},
           NEW field \in {"asks", "task", "orch"}, NEW value,
           Does(s, field, value), Shows(d)
    PROVE  RunningIsWork'
<1>1. d.status = conv.status /\ d.by = conv.by
  BY WorkBefore, StatusKept
<1>2. \A x \in Session : /\ cli'[x].init = cli[x].init
                         /\ cli'[x].turn = cli[x].turn
                         /\ cli'[x].inbox = cli[x].inbox
  BY WorkBefore, DoesBesides
<1> QED BY <1>1, <1>2, BesidesWork

LEMMA TextFramesWork ==
    ASSUME ShownInv, RunningIsWork, NEW s \in Session, Delta(s) \/ Assistant(s)
    PROVE  RunningIsWork'
<1>1. /\ UNCHANGED sessionVars /\ UNCHANGED sends /\ UNCHANGED cli
      /\ Shows(ApplyDelta(conv, s)) \/ Shows(ApplyAssistant(conv))
  BY DEF Delta, Assistant, textVars
<1>2. \A d \in {ApplyDelta(conv, s), ApplyAssistant(conv)} :
        d.status = conv.status /\ d.by = conv.by
  BY WorkBefore, StatusKept
<1> QED BY <1>1, <1>2, BesidesWork

LEMMA AsksWork ==
    ASSUME ShownInv, RunningIsWork, NEW s \in Session, Asks(s)
    PROVE  RunningIsWork'
<1>1. UNCHANGED sessionVars /\ UNCHANGED sends
  BY DEF Asks, textVars
<1>2. CASE Hears /\ allowed
  <2>1. Does(s, "asks", ~Takes(s)) /\ UNCHANGED conv
    BY <1>2 DEF Asks
  <2>2. \A x \in Session : /\ cli'[x].init = cli[x].init
                           /\ cli'[x].turn = cli[x].turn
                           /\ cli'[x].inbox = cli[x].inbox
    BY <2>1, WorkBefore, DoesBesides
  <2>3. UNCHANGED phase /\ \A x \in Session : Takes(x)' <=> Takes(x)
    BY <1>1 DEF Takes, sessionVars
  <2> QED BY <1>1, <2>1, <2>2, <2>3, WorkKept
<1>3. CASE ~(Hears /\ allowed)
  <2>1. Does(s, "asks", TRUE) /\ Shows(ApplyPermission(conv, s))
    BY <1>3 DEF Asks
  <2> QED BY <1>1, <2>1, BesidesFrames
<1> QED BY <1>2, <1>3

\* A step that neither a session nor the conversation takes part in.
LEMMA ElsewhereWork ==
    ASSUME RunningIsWork, UNCHANGED <<phase, conv, cli, sends>>,
           \A s \in Session : Takes(s)' => Takes(s)
    PROVE  RunningIsWork'
BY WorkKept

LEMMA WorkStep == ShownInv /\ TextType /\ RunningIsWork /\ [Next]_vars => RunningIsWork'
<1> SUFFICES ASSUME ShownInv, TextType, RunningIsWork, [Next]_vars
             PROVE  RunningIsWork'
  OBVIOUS
<1>1. CASE \/ SessionStarts \/ StartFails \/ Restart \/ Boots
           \/ Remount \/ FindsLive \/ Attach
  BY <1>1, PaneWork
<1>2. CASE SendStart
  BY <1>2, SendStartWork
<1>3. CASE Queue
  BY <1>3, ElsewhereWork DEF Queue, Takes, sessionVars
<1>4. CASE Clear
  BY <1>4, ClearWork
<1>5. ASSUME NEW t \in Text, Type(t) PROVE RunningIsWork'
  BY <1>5, ElsewhereWork DEF Type, Takes, sessionVars
<1>6. ASSUME NEW i \in DOMAIN sends, SendHandled(i) PROVE RunningIsWork'
  BY <1>6, SendHandledWork
<1>7. ASSUME NEW forSession \in BOOLEAN, Answer(forSession) PROVE RunningIsWork'
  BY <1>7, AnswerWork
<1>8. ASSUME NEW s \in Session, ChildEnds(s) PROVE RunningIsWork'
  <2>1. \A x \in Session : Takes(x)' => Takes(x)
    BY <1>8 DEF ChildEnds, Takes, ShownInv, ShownType
  <2> QED BY <1>8, <2>1, ElsewhereWork DEF ChildEnds, textVars
<1>9. ASSUME NEW s \in Session, InitFrame(s) PROVE RunningIsWork'
  BY <1>9, InitFrameWork
<1>10. ASSUME NEW s \in Session,
              TurnStarts(s) \/ TurnOpens(s) \/ TurnGoesOn(s)
       PROVE  RunningIsWork'
  BY <1>10, TurnStartsWork
<1>11. ASSUME NEW s \in Session, Delta(s) PROVE RunningIsWork'
  BY <1>11, TextFramesWork
<1>12. ASSUME NEW s \in Session, Assistant(s) PROVE RunningIsWork'
  BY <1>12, TextFramesWork
<1>13. ASSUME NEW s \in Session, Asks(s) PROVE RunningIsWork'
  BY <1>13, AsksWork
<1>14. ASSUME NEW s \in Session, Delegates(s) PROVE RunningIsWork'
  BY <1>14, BesidesFrames DEF Delegates, textVars
<1>15. ASSUME NEW s \in Session, ChildCalls(s) PROVE RunningIsWork'
  BY <1>15, BesidesFrames DEF ChildCalls, textVars
<1>16. ASSUME NEW s \in Session, ChildReturns(s) PROVE RunningIsWork'
  BY <1>16, BesidesFrames DEF ChildReturns, textVars
<1>17. ASSUME NEW s \in Session, TaskReturns(s) PROVE RunningIsWork'
  BY <1>17, BesidesFrames DEF TaskReturns, textVars
<1>18. ASSUME NEW s \in Session, OrchestrationStarts(s) PROVE RunningIsWork'
  BY <1>18, BesidesFrames DEF OrchestrationStarts, textVars
<1>19. ASSUME NEW s \in Session, OrchestrationEnds(s) PROVE RunningIsWork'
  BY <1>19, BesidesFrames DEF OrchestrationEnds, textVars
<1>20. ASSUME NEW s \in Session, ChildResult(s) PROVE RunningIsWork'
  BY <1>20, ChildResultWork
<1>21. ASSUME NEW s \in Session, Result(s) PROVE RunningIsWork'
  BY <1>21, ResultWork
<1>22. ASSUME NEW s \in Session, ExitFrame(s) PROVE RunningIsWork'
  BY <1>22, ExitFrameWork
<1>23. CASE UNCHANGED vars
  BY <1>23, ElsewhereWork DEF vars, textVars, sessionVars, Takes
<1> QED BY <1>1, <1>2, <1>3, <1>4, <1>5, <1>6, <1>7, <1>8, <1>9, <1>10, <1>11,
           <1>12, <1>13, <1>14, <1>15, <1>16, <1>17, <1>18, <1>19, <1>20,
           <1>21, <1>22, <1>23 DEF Next

\* Once the live session has reported, a pane that is shown running has a
\* message on its way or a turn going on, and a turn is shown as one, unless a
\* late frame of a session before was the last to set the status, or the pane
\* was mounted again over the session and has shown no request since.
THEOREM RunningIsWorkHolds == Spec => []RunningIsWork
<1>1. Init => RunningIsWork
  <2>1. SUFFICES ASSUME Init, NEW s \in Session PROVE ~Takes(s)
    BY DEF RunningIsWork
  <2>2. child = [x \in Session |-> "none"]
    BY <2>1, Zenon DEF Init
  <2> QED BY <2>2 DEF Takes
<1>2. TypeOK => TextType
  BY DEF TypeOK, TextType
<1> QED BY <1>1, <1>2, WorkStep, ShownHolds, TypeCorrect, PTL DEF Spec
=============================================================================
