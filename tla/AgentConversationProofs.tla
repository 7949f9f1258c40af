------------------------ MODULE AgentConversationProofs ------------------------
(***************************************************************************)
(* Proofs about AgentConversation, for any texts and any number of         *)
(* sessions and steps of the user.                                         *)
(***************************************************************************)
EXTENDS AgentConversation, SequenceTheorems, TLAPS

-----------------------------------------------------------------------------
(* Sequences                                                               *)

\* What is in a sequence without its i-th element.
LEMMA RemoveAtProperties ==
    ASSUME NEW S, NEW s \in Seq(S), NEW i \in 1..Len(s)
    PROVE  /\ RemoveAt(s, i) \in Seq(S)
           /\ Len(RemoveAt(s, i)) = Len(s) - 1
           /\ \A k \in 1..(Len(s) - 1) :
                RemoveAt(s, i)[k] = IF k < i THEN s[k] ELSE s[k + 1]
<1>1. i \in Nat /\ Len(s) \in Nat /\ 1 <= i /\ i <= Len(s)
  OBVIOUS
<1>2. \A k \in 1..Len(s) : s[k] \in S
  OBVIOUS
<1> DEFINE a == SubSeq(s, 1, i - 1)
           b == SubSeq(s, i + 1, Len(s))
<1>3. /\ a \in Seq(S) /\ Len(a) = i - 1
      /\ \A k \in 1..(i - 1) : a[k] = s[k]
  <2>1. \A k \in 1..(i - 1) : s[k] \in S
    BY <1>1, <1>2
  <2>2. /\ a \in Seq(S) /\ Len(a) = IF 1 <= i - 1 THEN i - 1 - 1 + 1 ELSE 0
        /\ \A k \in 1..(i - 1 - 1 + 1) : a[k] = s[1 + k - 1]
    BY <1>1, <2>1, SubSeqProperties
  <2> HIDE DEF a
  <2> QED BY <1>1, <2>2
<1>4. /\ b \in Seq(S) /\ Len(b) = Len(s) - i
      /\ \A k \in 1..(Len(s) - i) : b[k] = s[k + i]
  <2>1. \A k \in (i + 1)..Len(s) : s[k] \in S
    BY <1>1, <1>2
  <2>2. /\ b \in Seq(S)
        /\ Len(b) = IF i + 1 <= Len(s) THEN Len(s) - (i + 1) + 1 ELSE 0
        /\ \A k \in 1..(Len(s) - (i + 1) + 1) : b[k] = s[(i + 1) + k - 1]
    BY <1>1, <2>1, SubSeqProperties
  <2> HIDE DEF b
  <2>3. Len(b) = Len(s) - i
    BY <1>1, <2>2
  <2>4. ASSUME NEW k \in 1..(Len(s) - i)
        PROVE  b[k] = s[k + i]
    <3>1. (i + 1) + k - 1 = k + i /\ k \in 1..(Len(s) - (i + 1) + 1)
      BY <1>1
    <3> QED BY <2>2, <3>1
  <2> QED BY <2>2, <2>3, <2>4
<1> DEFINE r == RemoveAt(s, i)
<1>5. /\ r \in Seq(S) /\ Len(r) = Len(s) - 1
      /\ \A k \in 1..(Len(s) - 1) : r[k] = IF k < i THEN s[k] ELSE s[k + 1]
  <2>1. r = a \o b
    BY DEF RemoveAt
  <2> HIDE DEF a, b, r
  <2>2. /\ r \in Seq(S) /\ Len(r) = Len(a) + Len(b)
        /\ \A k \in 1..(Len(a) + Len(b)) :
             r[k] = IF k <= Len(a) THEN a[k] ELSE b[k - Len(a)]
    BY <1>3, <1>4, <2>1, ConcatProperties
  <2>3. Len(a) + Len(b) = Len(s) - 1
    BY <1>1, <1>3, <1>4
  <2>4. ASSUME NEW k \in 1..(Len(s) - 1)
        PROVE  r[k] = IF k < i THEN s[k] ELSE s[k + 1]
    <3>1. CASE k < i
      BY <3>1, <1>1, <1>3, <2>2, <2>3
    <3>2. CASE ~(k < i)
      <4>1. k - Len(a) \in 1..(Len(s) - i) /\ (k - Len(a)) + i = k + 1
        BY <3>2, <1>1, <1>3
      <4>2. ~(k <= Len(a))
        BY <3>2, <1>1, <1>3
      <4> QED BY <4>1, <4>2, <2>2, <2>3, <1>4, <3>2
    <3> QED BY <3>1, <3>2
  <2> QED BY <2>2, <2>3, <2>4
<1> QED BY <1>5

LEMMA RemoveAtSet ==
    ASSUME NEW S, NEW s \in Seq(S), NEW i \in 1..Len(s)
    PROVE  ToSet(s) = ToSet(RemoveAt(s, i)) \cup {s[i]}
<1> DEFINE r == RemoveAt(s, i)
<1>1. /\ r \in Seq(S) /\ Len(r) = Len(s) - 1
      /\ \A k \in 1..(Len(s) - 1) : r[k] = IF k < i THEN s[k] ELSE s[k + 1]
  BY RemoveAtProperties
<1> HIDE DEF r
<1>2. DOMAIN r = 1..(Len(s) - 1) /\ DOMAIN s = 1..Len(s) /\ Len(s) \in Nat
  BY <1>1
<1>3. ASSUME NEW x \in ToSet(s), x # s[i]
      PROVE  x \in ToSet(r)
  <2>1. PICK k \in 1..Len(s) : x = s[k] /\ k # i
    BY <1>2, <1>3 DEF ToSet
  <2>2. CASE k < i
    <3>1. k \in DOMAIN r /\ r[k] = x
      BY <1>1, <1>2, <2>1, <2>2
    <3> QED BY <3>1 DEF ToSet
  <2>3. CASE k > i
    <3>1. k - 1 \in DOMAIN r /\ r[k - 1] = x
      BY <1>1, <1>2, <2>1, <2>3
    <3> QED BY <3>1 DEF ToSet
  <2> QED BY <1>2, <2>1, <2>2, <2>3
<1>4. ASSUME NEW x \in ToSet(r)
      PROVE  x \in ToSet(s)
  <2>1. PICK k \in DOMAIN r : x = r[k]
    BY DEF ToSet
  <2>2. k \in DOMAIN s /\ k + 1 \in DOMAIN s /\ (x = s[k] \/ x = s[k + 1])
    BY <1>1, <1>2, <2>1
  <2> QED BY <2>2 DEF ToSet
<1>5. s[i] \in ToSet(s)
  BY <1>2 DEF ToSet
<1> QED BY <1>3, <1>4, <1>5 DEF r

\* What is in a sequence with an element more.
LEMMA AppendSet ==
    ASSUME NEW S, NEW s \in Seq(S), NEW e \in S
    PROVE  /\ Append(s, e) \in Seq(S) /\ Append(s, e) # << >>
           /\ Len(Append(s, e)) = Len(s) + 1
           /\ ToSet(Append(s, e)) = ToSet(s) \cup {e}
<1> DEFINE a == Append(s, e)
<1>1. /\ a \in Seq(S) /\ a # << >> /\ Len(a) = Len(s) + 1
      /\ \A k \in 1..Len(s) : a[k] = s[k]
      /\ a[Len(s) + 1] = e
  BY AppendProperties
<1>2. /\ DOMAIN s = 1..Len(s) /\ Len(s) \in Nat
      /\ DOMAIN a = 1..(Len(s) + 1)
  BY <1>1
<1>3. ToSet(a) = ToSet(s) \cup {e}
  <2> HIDE DEF a
  <2> QED BY <1>1, <1>2 DEF ToSet
<1> QED BY <1>1, <1>3

\* What is in a sequence after its first element.
LEMMA TailSet ==
    ASSUME NEW S, NEW s \in Seq(S), s # << >>
    PROVE  /\ Head(s) \in S /\ Head(s) = s[1] /\ 1 \in DOMAIN s
           /\ Tail(s) \in Seq(S)
           /\ \A k \in DOMAIN Tail(s) : k + 1 \in DOMAIN s
                                        /\ Tail(s)[k] = s[k + 1]
           /\ ToSet(s) = {Head(s)} \cup ToSet(Tail(s))
<1> DEFINE t == Tail(s)
<1>1. /\ Head(s) \in S /\ t \in Seq(S) /\ Len(t) = Len(s) - 1
      /\ \A k \in 1..Len(t) : t[k] = s[k + 1]
  BY HeadTailProperties
<1>2. /\ DOMAIN s = 1..Len(s) /\ Len(s) \in Nat \ {0}
      /\ DOMAIN t = 1..(Len(s) - 1) /\ Head(s) = s[1]
  BY <1>1
<1>3. ToSet(s) = {Head(s)} \cup ToSet(t)
  <2> HIDE DEF t
  <2>1. ASSUME NEW x \in ToSet(s), x # Head(s)
        PROVE  x \in ToSet(t)
    <3>1. PICK k \in 1..Len(s) : x = s[k] /\ k # 1
      BY <2>1, <1>2 DEF ToSet
    <3>2. k - 1 \in DOMAIN t /\ t[k - 1] = x
      BY <3>1, <1>1, <1>2
    <3> QED BY <3>2 DEF ToSet
  <2>2. ASSUME NEW x \in ToSet(t)
        PROVE  x \in ToSet(s)
    <3>1. PICK k \in DOMAIN t : x = t[k]
      BY DEF ToSet
    <3>2. k + 1 \in DOMAIN s /\ s[k + 1] = x
      BY <3>1, <1>1, <1>2
    <3> QED BY <3>2 DEF ToSet
  <2>3. Head(s) \in ToSet(s)
    BY <1>2 DEF ToSet
  <2> QED BY <2>1, <2>2, <2>3
<1>4. 1 \in DOMAIN s /\ \A k \in DOMAIN t : k + 1 \in DOMAIN s /\ t[k] = s[k + 1]
  <2> HIDE DEF t
  <2> QED BY <1>1, <1>2
<1> QED BY <1>1, <1>2, <1>3, <1>4

\* The first element is removed from a sequence that has it once.
LEMMA RemoveHead ==
    ASSUME NEW S, NEW s \in Seq(S), s # << >>, IsInjective(s)
    PROVE  /\ RemoveFirst(s, Head(s)) \in Seq(S)
           /\ IsInjective(RemoveFirst(s, Head(s)))
           /\ ToSet(RemoveFirst(s, Head(s))) = ToSet(s) \ {Head(s)}
<1>1. 1 \in DOMAIN s /\ Head(s) = s[1] /\ DOMAIN s = 1..Len(s)
  BY TailSet
<1>2. SelectInSeq(s, LAMBDA v : v = Head(s)) = 1
  <2>1. {i \in 1..Len(s) : s[i] = Head(s)} = {1}
    BY <1>1 DEF IsInjective
  <2>2. Min({1}) = 1
    BY DEF Min
  <2> QED BY <2>1, <2>2 DEF SelectInSeq
<1>3. RemoveFirst(s, Head(s)) = RemoveAt(s, 1)
  BY <1>1, <1>2 DEF RemoveFirst
<1>r. 1 \in 1..Len(s)
  BY <1>1
<1>p. /\ RemoveAt(s, 1) \in Seq(S) /\ Len(RemoveAt(s, 1)) = Len(s) - 1
      /\ \A k \in 1..(Len(s) - 1) :
           RemoveAt(s, 1)[k] = IF k < 1 THEN s[k] ELSE s[k + 1]
  BY <1>r, RemoveAtProperties
<1>q. ToSet(s) = ToSet(RemoveAt(s, 1)) \cup {s[1]}
  BY <1>r, RemoveAtSet
<1> DEFINE r == RemoveAt(s, 1)
<1>4. /\ r \in Seq(S) /\ Len(r) = Len(s) - 1
      /\ \A k \in 1..(Len(s) - 1) : r[k] = IF k < 1 THEN s[k] ELSE s[k + 1]
      /\ ToSet(s) = ToSet(r) \cup {s[1]}
  BY <1>p, <1>q
<1> HIDE DEF r
<1>5. \A k \in DOMAIN r : k + 1 \in DOMAIN s /\ r[k] = s[k + 1] /\ k \in Nat \ {0}
  BY <1>1, <1>4
<1>6. IsInjective(r)
  <2>1. ASSUME NEW a \in DOMAIN r, NEW b \in DOMAIN r, r[a] = r[b]
        PROVE  a = b
    <3>1. a + 1 = b + 1
      BY <1>5, <2>1 DEF IsInjective
    <3> QED BY <3>1, <1>5
  <2> QED BY <2>1 DEF IsInjective
<1>7. s[1] \notin ToSet(r)
  <2>1. SUFFICES ASSUME NEW k \in DOMAIN r, r[k] = s[1]
                 PROVE  FALSE
    BY DEF ToSet
  <2>2. k + 1 \in DOMAIN s /\ s[k + 1] = s[1]
    BY <1>5, <2>1
  <2>3. k + 1 = 1
    BY <1>1, <2>2 DEF IsInjective
  <2> QED BY <1>5, <2>3
<1> QED BY <1>1, <1>3, <1>4, <1>6, <1>7 DEF r

\* An element that a sequence does not have is appended.
LEMMA AppendInjective1 ==
    ASSUME NEW S, NEW s \in Seq(S), NEW e \in S, IsInjective(s), e \notin ToSet(s)
    PROVE  IsInjective(Append(s, e))
<1> DEFINE a == Append(s, e)
<1>1. /\ a \in Seq(S) /\ Len(a) = Len(s) + 1
      /\ \A k \in 1..Len(s) : a[k] = s[k]
      /\ a[Len(s) + 1] = e
  BY AppendProperties
<1>2. DOMAIN s = 1..Len(s) /\ Len(s) \in Nat /\ DOMAIN a = 1..(Len(s) + 1)
  BY <1>1
<1>3. \A k \in 1..Len(s) : s[k] # e
  BY <1>2 DEF ToSet
<1> HIDE DEF a
<1>4. ASSUME NEW i \in DOMAIN a, NEW j \in DOMAIN a, a[i] = a[j]
      PROVE  i = j
  BY <1>1, <1>2, <1>3, <1>4 DEF IsInjective
<1>5. IsInjective(a)
  BY <1>4 DEF IsInjective
<1> QED BY <1>5 DEF a

-----------------------------------------------------------------------------
(* Conversations                                                           *)

Statuses == {"starting", "idle", "running", "exited"}

\* Whatever number of sessions there are, 0 is none of them.
LEMMA NoSession == 0 \in 0..MaxSessions /\ 0 \notin Session /\ Session \subseteq 0..MaxSessions
BY ConversationAssumption DEF ConversationAssumption, Session

\* The status is set, and by whom; nothing else changes.
LEMMA StatusFields ==
    ASSUME NEW c \in ConversationType, NEW status \in Statuses,
           NEW s \in 0..MaxSessions
    PROVE  LET d == Status(c, status, s)
           IN /\ d \in ConversationType /\ d.status = status /\ d.by = s
              /\ d.stream = c.stream /\ d.permissions = c.permissions
              /\ d.calls = c.calls /\ d.orchestrations = c.orchestrations
BY DEF ConversationType, Statuses, Status

\* Everything but the status is the same; the operations that set it.
SameButStatus(c, d) ==
    /\ d \in ConversationType /\ d.stream = c.stream
    /\ d.permissions = c.permissions /\ d.calls = c.calls
    /\ d.orchestrations = c.orchestrations

LEMMA StatusEffects ==
    ASSUME NEW c \in ConversationType, NEW s \in Session
    PROVE  /\ SameButStatus(c, ApplyInit(c, s))
           /\ ApplyInit(c, s).status = "idle" /\ ApplyInit(c, s).by = s
           /\ SameButStatus(c, ApplyRequesting(c, s))
           /\ ApplyRequesting(c, s).status = "running"
           /\ ApplyRequesting(c, s).by = s
           /\ SameButStatus(c, ApplyExit(c, s))
           /\ ApplyExit(c, s).status = "exited" /\ ApplyExit(c, s).by = s
<1>1. s \in 0..MaxSessions /\ \A x \in {"idle", "running", "exited"} : x \in Statuses
  BY NoSession DEF Statuses
<1>2. \A x \in {"idle", "running", "exited"} :
        LET d == Status(c, x, s)
        IN SameButStatus(c, d) /\ d.status = x /\ d.by = s
  BY <1>1, StatusFields DEF SameButStatus
<1> QED BY <1>2 DEF ApplyInit, ApplyRequesting, ApplyExit

LEMMA OwnStatusEffects ==
    ASSUME NEW c \in ConversationType
    PROVE  /\ SameButStatus(c, MarkStarting(c))
           /\ MarkStarting(c).status = "starting" /\ MarkStarting(c).by = 0
           /\ SameButStatus(c, MarkAttached(c))
           /\ MarkAttached(c).status = "idle" /\ MarkAttached(c).by = 0
           /\ SameButStatus(c, AppendUserTurn(c))
           /\ AppendUserTurn(c).status = "running" /\ AppendUserTurn(c).by = 0
<1>1. 0 \in 0..MaxSessions /\ \A x \in {"starting", "idle", "running"} : x \in Statuses
  BY NoSession DEF Statuses
<1>2. \A x \in {"starting", "idle", "running"} :
        LET d == Status(c, x, 0)
        IN SameButStatus(c, d) /\ d.status = x /\ d.by = 0
  BY <1>1, StatusFields DEF SameButStatus
<1> QED BY <1>2 DEF MarkStarting, MarkAttached, AppendUserTurn

\* The buffer is set.
LEMMA StreamFields ==
    ASSUME NEW c \in ConversationType, NEW s \in 0..MaxSessions
    PROVE  LET d == [c EXCEPT !.stream = s]
           IN /\ d \in ConversationType /\ d.stream = s
              /\ d.status = c.status /\ d.by = c.by
              /\ d.permissions = c.permissions
              /\ d.calls = c.calls /\ d.orchestrations = c.orchestrations
BY DEF ConversationType

\* The dialogs are set.
LEMMA PermissionFields ==
    ASSUME NEW c \in ConversationType, NEW q \in Seq(Session)
    PROVE  LET d == [c EXCEPT !.permissions = q]
           IN /\ d \in ConversationType /\ d.permissions = q
              /\ d.status = c.status /\ d.by = c.by /\ d.stream = c.stream
              /\ d.calls = c.calls /\ d.orchestrations = c.orchestrations
BY DEF ConversationType

\* The blocks are set.
LEMMA CallFields ==
    ASSUME NEW c \in ConversationType, NEW K \in SUBSET Calls
    PROVE  LET d == [c EXCEPT !.calls = K]
           IN /\ d \in ConversationType /\ d.calls = K
              /\ d.status = c.status /\ d.by = c.by /\ d.stream = c.stream
              /\ d.permissions = c.permissions
              /\ d.orchestrations = c.orchestrations
BY DEF ConversationType

\* The orchestrations are set.
LEMMA OrchestrationFields ==
    ASSUME NEW c \in ConversationType, NEW O \in SUBSET Session
    PROVE  LET d == [c EXCEPT !.orchestrations = O]
           IN /\ d \in ConversationType /\ d.orchestrations = O
              /\ d.status = c.status /\ d.by = c.by /\ d.stream = c.stream
              /\ d.permissions = c.permissions /\ d.calls = c.calls
BY DEF ConversationType

\* A block that is not done, and one that is.
Pending(s, level) == Call(s, level, FALSE)

LEMMA CallType ==
    ASSUME NEW s \in Session
    PROVE  /\ Pending(s, "main") \in Calls
           /\ Pending(s, "main").of = s
           /\ Pending(s, "main").level = "main"
           /\ ~Pending(s, "main").done
           /\ Pending(s, "child") \in Calls
           /\ Pending(s, "child").of = s
           /\ Pending(s, "child").level = "child"
           /\ ~Pending(s, "child").done
           /\ \A k \in Calls : [k EXCEPT !.done = TRUE] \in Calls
           /\ \A k \in Calls : /\ [k EXCEPT !.done = TRUE].of = k.of
                               /\ [k EXCEPT !.done = TRUE].level = k.level
                               /\ [k EXCEPT !.done = TRUE].done
BY DEF Calls, Call, Pending

\* The blocks of a session, and a sub-agent's call has the block it is in.
Blocks(c, s) == {k \in c.calls : k.of = s}
Nested(c)    == \A k \in c.calls : Knows(c, k.of)

\* Everything but the blocks is the same.
SameButCalls(c, d) ==
    /\ d \in ConversationType /\ d.status = c.status /\ d.by = c.by
    /\ d.permissions = c.permissions /\ d.orchestrations = c.orchestrations

\* /clear leaves no block and no buffer.
LEMMA ClearEffect ==
    ASSUME NEW c \in ConversationType
    PROVE  LET d == ClearContext(c)
           IN SameButCalls(c, d) /\ d.stream = 0 /\ d.calls = {} /\ Nested(d)
<1> DEFINE d == ClearContext(c)
<1>1. SameButCalls(c, d) /\ d.stream = 0 /\ d.calls = {}
  BY NoSession DEF ConversationType, ClearContext, SameButCalls
<1> QED BY <1>1 DEF Nested

\* A sub-agent is called by the session s.
LEMMA ToolUseEffect ==
    ASSUME NEW c \in ConversationType, NEW s \in Session, Nested(c)
    PROVE  LET d == ApplyToolUse(c, s)
           IN /\ SameButCalls(c, d) /\ d.stream = 0 /\ Nested(d)
              /\ d.calls = c.calls \cup {Pending(s, "main")}
              /\ \A x \in Session \ {s} : Blocks(d, x) = Blocks(c, x)
<1> DEFINE d == ApplyToolUse(c, s)
<1>1. c.calls \cup {Pending(s, "main")} \in SUBSET Calls
  BY CallType DEF ConversationType
<1>2. /\ SameButCalls(c, d) /\ d.stream = 0
      /\ d.calls = c.calls \cup {Pending(s, "main")}
  BY <1>1, NoSession
     DEF ConversationType, ApplyToolUse, ApplyAssistant, SameButCalls, Pending
<1> HIDE DEF d
<1>3. Nested(d)
  BY <1>2, CallType DEF Nested, Knows
<1>4. \A x \in Session \ {s} : Blocks(d, x) = Blocks(c, x)
  BY <1>2, CallType DEF Blocks
<1> QED BY <1>2, <1>3, <1>4 DEF d

\* A block of the session s, at one level, is done.
LEMMA ToolResultEffect ==
    ASSUME NEW c \in ConversationType, NEW s \in Session, Nested(c),
           NEW level \in {"main", "child"}
    PROVE  LET d == ApplyToolResult(c, s, level)
           IN /\ SameButCalls(c, d) /\ d.stream = c.stream /\ Nested(d)
              /\ Pending(s, level) \notin d.calls
              /\ \A l \in {"main", "child"} \ {level} :
                   Pending(s, l) \in d.calls => Pending(s, l) \in c.calls
              /\ \A x \in Session \ {s} : Blocks(d, x) = Blocks(c, x)
<1> DEFINE d == ApplyToolResult(c, s, level)
           Done(k) == IF k.of = s /\ k.level = level
                      THEN [k EXCEPT !.done = TRUE] ELSE k
<1>1. c.calls \subseteq Calls
  BY DEF ConversationType
<1>2. \A k \in Calls : /\ Done(k) \in Calls
                       /\ Done(k).of = k.of /\ Done(k).level = k.level
                       /\ k.of = s /\ k.level = level => Done(k).done
                       /\ k.of # s \/ k.level # level => Done(k) = k
  BY CallType
<1>3. d = [c EXCEPT !.calls = {Done(k) : k \in @}]
  BY DEF ApplyToolResult
<1> HIDE DEF Done
<1>4. {Done(k) : k \in c.calls} \in SUBSET Calls
  BY <1>1, <1>2
<1>5. /\ SameButCalls(c, d) /\ d.stream = c.stream
      /\ d.calls = {Done(k) : k \in c.calls}
  BY <1>3, <1>4 DEF ConversationType, SameButCalls
<1> HIDE DEF d
<1>6. Nested(d)
  BY <1>1, <1>2, <1>5 DEF Nested, Knows
<1>7. Pending(s, level) \notin d.calls
  BY <1>1, <1>2, <1>5, CallType
<1>8. \A l \in {"main", "child"} \ {level} :
        Pending(s, l) \in d.calls => Pending(s, l) \in c.calls
  BY <1>1, <1>2, <1>5, CallType
<1>9. \A x \in Session \ {s} : Blocks(d, x) = Blocks(c, x)
  BY <1>1, <1>2, <1>5 DEF Blocks
<1> QED BY <1>5, <1>6, <1>7, <1>8, <1>9 DEF d

\* The sub-agent of s calls a tool of its own.
LEMMA ChildToolUseEffect ==
    ASSUME NEW c \in ConversationType, NEW s \in Session, Nested(c)
    PROVE  LET d == ApplyChildToolUse(c, s)
           IN /\ SameButCalls(c, d) /\ d.stream = c.stream /\ Nested(d)
              /\ Pending(s, "main") \in d.calls
                   => Pending(s, "main") \in c.calls
              /\ \A x \in Session \ {s} : Blocks(d, x) = Blocks(c, x)
<1> DEFINE d == ApplyChildToolUse(c, s)
<1>1. CASE ~Knows(c, s)
  BY <1>1 DEF ApplyChildToolUse, SameButCalls
<1>2. CASE Knows(c, s)
  <2>1. c.calls \cup {Pending(s, "child")} \in SUBSET Calls
    BY CallType DEF ConversationType
  <2>2. /\ SameButCalls(c, d) /\ d.stream = c.stream
        /\ d.calls = c.calls \cup {Pending(s, "child")}
    BY <1>2, <2>1 DEF ConversationType, ApplyChildToolUse, SameButCalls, Pending
  <2> HIDE DEF d
  <2>3. Nested(d)
    BY <1>2, <2>2, CallType DEF Nested, Knows
  <2>4. \A x \in Session \ {s} : Blocks(d, x) = Blocks(c, x)
    BY <2>2, CallType DEF Blocks
  <2>5. Pending(s, "main") # Pending(s, "child")
    BY CallType
  <2> QED BY <2>2, <2>3, <2>4, <2>5 DEF d
<1> QED BY <1>1, <1>2

\* A tool of the sub-agent of s returns.
LEMMA ChildToolResultEffect ==
    ASSUME NEW c \in ConversationType, NEW s \in Session, Nested(c)
    PROVE  LET d == ApplyChildToolResult(c, s)
           IN /\ SameButCalls(c, d) /\ d.stream = c.stream /\ Nested(d)
              /\ Pending(s, "child") \notin d.calls
              /\ Pending(s, "main") \in d.calls
                   => Pending(s, "main") \in c.calls
              /\ \A x \in Session \ {s} : Blocks(d, x) = Blocks(c, x)
<1>1. CASE ~Knows(c, s)
  <2>1. Pending(s, "child") \notin c.calls
    BY <1>1, CallType DEF Nested
  <2> QED BY <1>1, <2>1 DEF ApplyChildToolResult, SameButCalls
<1>2. CASE Knows(c, s)
  BY <1>2, ToolResultEffect DEF ApplyChildToolResult
<1> QED BY <1>1, <1>2

\* The session s asks, and its request is answered.
LEMMA PermissionEffect ==
    ASSUME NEW c \in ConversationType, IsInjective(c.permissions),
           NEW s \in Session, s \notin ToSet(c.permissions)
    PROVE  LET d == ApplyPermission(c, s)
           IN /\ d \in ConversationType /\ d.status = c.status /\ d.by = c.by
              /\ d.stream = c.stream /\ d.calls = c.calls
              /\ d.orchestrations = c.orchestrations
              /\ IsInjective(d.permissions)
              /\ ToSet(d.permissions) = ToSet(c.permissions) \cup {s}
<1>1. c.permissions \in Seq(Session)
  BY DEF ConversationType
<1>2. /\ Append(c.permissions, s) \in Seq(Session)
      /\ IsInjective(Append(c.permissions, s))
      /\ ToSet(Append(c.permissions, s)) = ToSet(c.permissions) \cup {s}
  BY <1>1, AppendSet, AppendInjective1
<1> QED BY <1>2, PermissionFields DEF ApplyPermission

LEMMA ResolveEffect ==
    ASSUME NEW c \in ConversationType, IsInjective(c.permissions),
           c.permissions # << >>
    PROVE  LET s == Head(c.permissions)
               d == ResolvePermission(c, s)
           IN /\ s \in Session
              /\ d \in ConversationType /\ d.status = c.status /\ d.by = c.by
              /\ d.stream = c.stream /\ d.calls = c.calls
              /\ d.orchestrations = c.orchestrations
              /\ IsInjective(d.permissions)
              /\ ToSet(d.permissions) = ToSet(c.permissions) \ {s}
<1>1. c.permissions \in Seq(Session)
  BY DEF ConversationType
<1> DEFINE q == RemoveFirst(c.permissions, Head(c.permissions))
<1>2. /\ q \in Seq(Session) /\ IsInjective(q)
      /\ ToSet(q) = ToSet(c.permissions) \ {Head(c.permissions)}
  BY <1>1, RemoveHead
<1>3. Head(c.permissions) \in Session
  BY <1>1, TailSet
<1>4. ResolvePermission(c, Head(c.permissions)) = [c EXCEPT !.permissions = q]
  BY DEF ResolvePermission
<1> HIDE DEF q
<1> DEFINE d == [c EXCEPT !.permissions = q]
<1>5. /\ d \in ConversationType /\ d.status = c.status /\ d.by = c.by
      /\ d.stream = c.stream /\ d.calls = c.calls /\ d.permissions = q
      /\ d.orchestrations = c.orchestrations
  BY <1>2, PermissionFields
<1> HIDE DEF d
<1> QED BY <1>2, <1>3, <1>4, <1>5 DEF d

-----------------------------------------------------------------------------
(* What the pane shows, and what its sessions do                           *)

Phases == {"booting", "starting", "attaching", "started", "failed"}

ShownType ==
    /\ phase \in Phases
    /\ sess \in 0..MaxSessions
    /\ child \in [Session -> {"none", "alive", "dying", "gone"}]
    /\ cli \in [Session -> ChildState]
    /\ conv \in ConversationType /\ IsInjective(conv.permissions)

\* What is shown of a session that takes lines, whatever the status says.
LiveShown(s) ==
    /\ cli[s].asks => s \in ToSet(conv.permissions)
    /\ s \in conv.orchestrations <=> cli[s].orch
    /\ conv.stream = s => cli[s].turn
    /\ Pending(s, "main") \in conv.calls => cli[s].task # "none"
    /\ Pending(s, "child") \in conv.calls => cli[s].task = "calls"

\* Nothing is shown of a session that has not started.
NotShown(s) ==
    /\ child[s] = "none" /\ cli[s] = Idle
    /\ s \notin ToSet(conv.permissions) /\ s \notin conv.orchestrations
    /\ conv.stream # s /\ Blocks(conv, s) = {}

\* The inductive invariant: only the last session runs freely, nothing is
\* shown of the next ones, and a dialog is about a request that waits.
ShownInv ==
    /\ ShownType /\ Nested(conv)
    /\ \A s \in Session : child[s] = "alive" => s = sess /\ phase # "booting"
    /\ \A s \in Session : s > sess => NotShown(s)
    /\ \A s \in Session : cli[s].turn => cli[s].init
    /\ \A s \in Session : s \in ToSet(conv.permissions) => cli[s].asks
    /\ \A s \in Session : Takes(s) => LiveShown(s)

LEMMA ShownInit == Init => ShownInv
<1> SUFFICES ASSUME Init PROVE ShownInv
  OBVIOUS
<1>1. conv = EmptyConversation /\ cli = [s \in Session |-> Idle] /\ sess = 0
      /\ child = [s \in Session |-> "none"] /\ phase = "starting"
  BY DEF Init
<1>2. EmptyConversation \in ConversationType
  BY NoSession DEF ConversationType, EmptyConversation
<1>3. /\ conv.permissions = << >> /\ conv.orchestrations = {}
      /\ conv.stream = 0 /\ conv.calls = {}
  BY <1>1 DEF EmptyConversation
<1>4. IsInjective(conv.permissions) /\ ToSet(conv.permissions) = {}
  BY <1>3 DEF IsInjective, ToSet
<1>5. Idle \in ChildState /\ ~Idle.turn
  BY DEF ChildState, Idle
<1>6. ShownType
  BY <1>1, <1>2, <1>4, <1>5, NoSession DEF ShownType, Phases
<1>7. Nested(conv) /\ \A s \in Session : Blocks(conv, s) = {}
  BY <1>3 DEF Nested, Blocks
<1>8. \A s \in Session : NotShown(s)
  BY <1>1, <1>3, <1>4, <1>7, NoSession DEF NotShown
<1> QED BY <1>1, <1>4, <1>5, <1>6, <1>7, <1>8 DEF ShownInv, Takes

\* A step that changes nothing of what the sessions other than s show or do.
OnlyOf(s) ==
    /\ UNCHANGED <<phase, sess>>
    /\ child' \in [Session -> {"none", "alive", "dying", "gone"}]
    /\ cli' \in [Session -> ChildState]
    /\ conv' \in ConversationType /\ IsInjective(conv'.permissions)
    /\ Nested(conv')
    /\ \A x \in Session \ {s} :
         /\ child'[x] = child[x] /\ cli'[x] = cli[x]
         /\ x \in ToSet(conv'.permissions) <=> x \in ToSet(conv.permissions)
         /\ x \in conv'.orchestrations <=> x \in conv.orchestrations
         /\ conv'.stream = x => conv.stream = x
         /\ Blocks(conv', x) = Blocks(conv, x)

\* After such a step there is only s to look at.
LEMMA OnlyOfPreserves ==
    ASSUME ShownInv, NEW s \in Session, OnlyOf(s), ~(s > sess),
           child'[s] = child[s] \/ child'[s] # "alive",
           cli'[s].turn => cli'[s].init,
           s \in ToSet(conv'.permissions) => cli'[s].asks,
           Takes(s) /\ Takes(s)' => LiveShown(s)'
    PROVE  ShownInv'
<1>1. ShownType'
  BY DEF ShownInv, ShownType, OnlyOf
<1>2. \A x \in Session : child'[x] = "alive" => x = sess' /\ phase' # "booting"
  BY DEF ShownInv, OnlyOf
<1>3. \A x \in Session : x > sess' => NotShown(x)'
  <2>1. SUFFICES ASSUME NEW x \in Session, x > sess PROVE NotShown(x)'
    BY DEF OnlyOf
  <2>2. NotShown(x)
    BY <2>1 DEF ShownInv
  <2>3. x # s
    BY <2>1
  <2> QED BY <2>2, <2>3 DEF NotShown, OnlyOf
<1>4. \A x \in Session : cli'[x].turn => cli'[x].init
  BY DEF ShownInv, OnlyOf
<1>5. \A x \in Session : x \in ToSet(conv'.permissions) => cli'[x].asks
  BY DEF ShownInv, OnlyOf
<1>6. \A x \in Session : Takes(x)' => LiveShown(x)'
  <2>1. SUFFICES ASSUME NEW x \in Session, Takes(x)' PROVE LiveShown(x)'
    OBVIOUS
  <2>2. CASE x = s
    <3>1. Takes(s)
      BY <2>1, <2>2 DEF Takes, OnlyOf
    <3> QED BY <2>1, <2>2, <3>1
  <2>3. CASE x # s
    <3>1. LiveShown(x)
      BY <2>1, <2>3 DEF Takes, OnlyOf, ShownInv
    <3>2. \A level \in {"main", "child"} :
            Pending(x, level) \in conv'.calls => Pending(x, level) \in conv.calls
      <4>1. Blocks(conv', x) = Blocks(conv, x)
        BY <2>3 DEF OnlyOf
      <4>2. \A level \in {"main", "child"} : Pending(x, level).of = x
        BY CallType
      <4> QED BY <4>1, <4>2 DEF Blocks
    <3> QED BY <2>3, <3>1, <3>2 DEF LiveShown, OnlyOf
  <2> QED BY <2>2, <2>3
<1> QED BY <1>1, <1>2, <1>3, <1>4, <1>5, <1>6 DEF ShownInv, OnlyOf

\* A conversation that has changed in what is of the session s.
FrameOf(c, d, s) ==
    /\ d \in ConversationType /\ IsInjective(d.permissions) /\ Nested(d)
    /\ \A x \in Session \ {s} :
         /\ x \in ToSet(d.permissions) <=> x \in ToSet(c.permissions)
         /\ x \in d.orchestrations <=> x \in c.orchestrations
         /\ d.stream = x => c.stream = x
         /\ Blocks(d, x) = Blocks(c, x)

\* What was so before a frame of s, of the session and of the conversation.
LEMMA BeforeFrame ==
    ASSUME ShownInv, NEW s \in Session, Emits(s)
    PROVE  /\ conv \in ConversationType /\ IsInjective(conv.permissions)
           /\ Nested(conv) /\ FrameOf(conv, conv, s)
           /\ cli \in [Session -> ChildState] /\ cli[s] \in ChildState
           /\ s \in 0..MaxSessions /\ ~(s > sess)
           /\ cli[s].turn => cli[s].init
           /\ s \in ToSet(conv.permissions) => cli[s].asks
           /\ Takes(s) => LiveShown(s) /\ Hears
           /\ child[s] = "alive" => Takes(s)
BY NoSession DEF ShownInv, ShownType, FrameOf, Emits, Takes, Hears, NotShown

\* A frame that changes no session but s, neither what it does nor what it shows.
LEMMA AfterFrame ==
    ASSUME ShownInv, NEW s \in Session, Emits(s), UNCHANGED sessionVars,
           cli' \in [Session -> ChildState],
           \A x \in Session \ {s} : cli'[x] = cli[x],
           FrameOf(conv, conv', s),
           cli'[s].turn => cli'[s].init,
           s \in ToSet(conv'.permissions) => cli'[s].asks,
           Takes(s) => LiveShown(s)'
    PROVE  ShownInv'
<1>1. OnlyOf(s)
  BY DEF OnlyOf, FrameOf, sessionVars, ShownInv, ShownType
<1> QED BY <1>1, BeforeFrame, OnlyOfPreserves DEF sessionVars

\* A frame that changes the status, the buffer or the orchestrations only.
LEMMA FrameKeeps ==
    ASSUME NEW c \in ConversationType, IsInjective(c.permissions), Nested(c),
           NEW s, NEW d \in ConversationType,
           d.permissions = c.permissions, d.calls = c.calls,
           d.stream \in {c.stream, 0, s},
           \A x \in Session \ {s} : x \in d.orchestrations <=> x \in c.orchestrations
    PROVE  FrameOf(c, d, s)
BY NoSession DEF FrameOf, Nested, Knows, Blocks

\* A frame that sets the status only.
LEMMA StatusFrame ==
    ASSUME ShownInv, NEW s \in Session, Emits(s), UNCHANGED sessionVars,
           NEW d, SameButStatus(conv, d), Shows(d),
           cli' \in [Session -> ChildState],
           \A x \in Session \ {s} : cli'[x] = cli[x],
           cli'[s].turn => cli'[s].init,
           cli'[s].asks = cli[s].asks, cli'[s].task = cli[s].task,
           cli'[s].orch = cli[s].orch, cli[s].turn => cli'[s].turn
    PROVE  ShownInv'
<1>1. conv' = d \/ conv' = conv
  BY DEF Shows
<1>2. SameButStatus(conv, conv')
  BY <1>1, BeforeFrame DEF SameButStatus
<1>3. FrameOf(conv, conv', s)
  BY <1>2, BeforeFrame, FrameKeeps DEF SameButStatus
<1>4. Takes(s) => LiveShown(s)'
  BY <1>2, BeforeFrame DEF LiveShown, SameButStatus
<1> QED BY <1>2, <1>3, <1>4, BeforeFrame, AfterFrame DEF SameButStatus

LEMMA InitFrameShown ==
    ASSUME ShownInv, NEW s \in Session, InitFrame(s)
    PROVE  ShownInv'
<1>1. Emits(s) /\ UNCHANGED sessionVars
  BY DEF InitFrame
<1>2. /\ cli' \in [Session -> ChildState]
      /\ \A x \in Session \ {s} : cli'[x] = cli[x]
      /\ cli'[s].init /\ cli'[s].asks = cli[s].asks
      /\ cli'[s].turn = cli[s].turn /\ cli'[s].task = cli[s].task
      /\ cli'[s].orch = cli[s].orch
  BY <1>1, BeforeFrame DEF InitFrame, Does, ChildState
<1>3. SameButStatus(conv, ApplyInit(conv, s)) /\ Shows(ApplyInit(conv, s))
  BY <1>1, BeforeFrame, StatusEffects DEF InitFrame
<1> QED BY <1>1, <1>2, <1>3, StatusFrame

LEMMA TurnStartsShown ==
    ASSUME ShownInv, NEW s \in Session, TurnStarts(s)
    PROVE  ShownInv'
<1>1. Emits(s) /\ UNCHANGED sessionVars
  BY DEF TurnStarts, Requests
<1>2. /\ cli' \in [Session -> ChildState]
      /\ \A x \in Session \ {s} : cli'[x] = cli[x]
      /\ cli'[s].init /\ cli'[s].asks = cli[s].asks
      /\ cli'[s].turn /\ cli'[s].task = cli[s].task
      /\ cli'[s].orch = cli[s].orch
  BY <1>1, BeforeFrame DEF TurnStarts, Requests, ChildState
<1>3. SameButStatus(conv, ApplyRequesting(conv, s)) /\ Shows(ApplyRequesting(conv, s))
  BY <1>1, BeforeFrame, StatusEffects DEF TurnStarts, Requests
<1> QED BY <1>1, <1>2, <1>3, StatusFrame

LEMMA TurnOpensShown ==
    ASSUME ShownInv, NEW s \in Session, TurnOpens(s)
    PROVE  ShownInv'
<1>1. Emits(s) /\ UNCHANGED sessionVars
  BY DEF TurnOpens, Requests
<1>2. /\ cli' \in [Session -> ChildState]
      /\ \A x \in Session \ {s} : cli'[x] = cli[x]
      /\ cli'[s].init /\ cli'[s].asks = cli[s].asks
      /\ cli'[s].turn /\ cli'[s].task = cli[s].task
      /\ cli'[s].orch = cli[s].orch
  BY <1>1, BeforeFrame DEF TurnOpens, Requests, Does, ChildState
<1>3. SameButStatus(conv, ApplyRequesting(conv, s)) /\ Shows(ApplyRequesting(conv, s))
  BY <1>1, BeforeFrame, StatusEffects DEF TurnOpens, Requests
<1> QED BY <1>1, <1>2, <1>3, StatusFrame

LEMMA TurnGoesOnShown ==
    ASSUME ShownInv, NEW s \in Session, TurnGoesOn(s)
    PROVE  ShownInv'
<1>1. Emits(s) /\ UNCHANGED sessionVars /\ UNCHANGED cli
  BY DEF TurnGoesOn, Requests
<1>2. cli' \in [Session -> ChildState] /\ (cli'[s].turn => cli'[s].init)
  BY <1>1, BeforeFrame
<1>3. SameButStatus(conv, ApplyRequesting(conv, s)) /\ Shows(ApplyRequesting(conv, s))
  BY <1>1, BeforeFrame, StatusEffects DEF TurnGoesOn, Requests
<1> QED BY <1>1, <1>2, <1>3, StatusFrame

LEMMA DeltaShown ==
    ASSUME ShownInv, NEW s \in Session, Delta(s)
    PROVE  ShownInv'
<1>1. Emits(s) /\ UNCHANGED <<sessionVars, cli>> /\ cli[s].turn
  BY DEF Delta
<1> DEFINE d == ApplyDelta(conv, s)
<1>2. /\ d \in ConversationType /\ d.stream = s
      /\ d.permissions = conv.permissions /\ d.calls = conv.calls
      /\ d.orchestrations = conv.orchestrations
  BY <1>1, BeforeFrame, StreamFields DEF ApplyDelta
<1>3. conv' = d \/ conv' = conv
  BY DEF Delta, Shows
<1> HIDE DEF d
<1>4. FrameOf(conv, conv', s) /\ conv'.permissions = conv.permissions
      /\ conv'.calls = conv.calls /\ conv'.orchestrations = conv.orchestrations
  BY <1>1, <1>2, <1>3, BeforeFrame, FrameKeeps
<1>5. Takes(s) => LiveShown(s)'
  BY <1>1, <1>4, BeforeFrame DEF LiveShown
<1> QED BY <1>1, <1>4, <1>5, BeforeFrame, AfterFrame

LEMMA AssistantShown ==
    ASSUME ShownInv, NEW s \in Session, Assistant(s)
    PROVE  ShownInv'
<1>1. Emits(s) /\ UNCHANGED <<sessionVars, cli>> /\ cli[s].turn
  BY DEF Assistant
<1> DEFINE d == ApplyAssistant(conv)
<1>2. /\ d \in ConversationType /\ d.stream = 0
      /\ d.permissions = conv.permissions /\ d.calls = conv.calls
      /\ d.orchestrations = conv.orchestrations
  BY <1>1, NoSession, BeforeFrame, StreamFields DEF ApplyAssistant
<1>3. conv' = d \/ conv' = conv
  BY DEF Assistant, Shows
<1> HIDE DEF d
<1>4. FrameOf(conv, conv', s) /\ conv'.permissions = conv.permissions
      /\ conv'.calls = conv.calls /\ conv'.orchestrations = conv.orchestrations
  BY <1>1, <1>2, <1>3, BeforeFrame, FrameKeeps
<1>5. Takes(s) => LiveShown(s)'
  BY <1>1, <1>4, BeforeFrame DEF LiveShown
<1> QED BY <1>1, <1>4, <1>5, BeforeFrame, AfterFrame

LEMMA AsksFields ==
    ASSUME ShownInv, NEW s \in Session, Emits(s), NEW asks \in BOOLEAN,
           Does(s, "asks", asks)
    PROVE  /\ cli' \in [Session -> ChildState]
           /\ \A x \in Session \ {s} : cli'[x] = cli[x]
           /\ cli'[s].init = cli[s].init /\ cli'[s].turn = cli[s].turn
           /\ cli'[s].asks <=> asks
           /\ cli'[s].task = cli[s].task /\ cli'[s].orch = cli[s].orch
BY BeforeFrame DEF Does, ChildState

LEMMA AsksShown ==
    ASSUME ShownInv, NEW s \in Session, Asks(s)
    PROVE  ShownInv'
<1>1. Emits(s) /\ UNCHANGED sessionVars /\ cli[s].turn /\ ~cli[s].asks
  BY DEF Asks
<1>2. s \notin ToSet(conv.permissions)
  BY <1>1, BeforeFrame
<1>3. CASE Hears /\ allowed
  <2>1. /\ cli' \in [Session -> ChildState] /\ conv' = conv
        /\ \A x \in Session \ {s} : cli'[x] = cli[x]
        /\ cli'[s].init = cli[s].init /\ cli'[s].turn = cli[s].turn
        /\ cli'[s].asks <=> ~Takes(s)
        /\ cli'[s].task = cli[s].task /\ cli'[s].orch = cli[s].orch
    <3>1. Does(s, "asks", ~Takes(s)) /\ conv' = conv
      BY <1>3 DEF Asks
    <3> DEFINE asks == ~Takes(s)
    <3>2. asks \in BOOLEAN /\ Does(s, "asks", asks) /\ (asks <=> ~Takes(s))
      BY <3>1
    <3> HIDE DEF asks
    <3> QED BY <1>1, <3>1, <3>2, AsksFields
  <2>2. Takes(s) => LiveShown(s)'
    BY <1>1, <2>1, BeforeFrame DEF LiveShown
  <2> QED BY <1>1, <1>2, <2>1, <2>2, BeforeFrame, AfterFrame
<1>4. CASE ~(Hears /\ allowed)
  <2>1. /\ cli' \in [Session -> ChildState]
        /\ \A x \in Session \ {s} : cli'[x] = cli[x]
        /\ cli'[s].init = cli[s].init /\ cli'[s].turn = cli[s].turn
        /\ cli'[s].asks
        /\ cli'[s].task = cli[s].task /\ cli'[s].orch = cli[s].orch
    <3>1. Does(s, "asks", TRUE)
      BY <1>4 DEF Asks
    <3> QED BY <1>1, <3>1, AsksFields
  <2> DEFINE d == ApplyPermission(conv, s)
  <2>2. /\ d \in ConversationType /\ d.stream = conv.stream
        /\ d.calls = conv.calls /\ d.orchestrations = conv.orchestrations
        /\ IsInjective(d.permissions)
        /\ ToSet(d.permissions) = ToSet(conv.permissions) \cup {s}
    BY <1>1, <1>2, BeforeFrame, PermissionEffect
  <2>3. conv' = IF Hears THEN d ELSE conv
    BY <1>4 DEF Asks, Shows
  <2> HIDE DEF d
  <2>4. FrameOf(conv, d, s)
    BY <1>1, <2>2, BeforeFrame DEF FrameOf, Nested, Knows, Blocks
  <2>5. FrameOf(conv, conv', s)
    BY <1>1, <2>3, <2>4, BeforeFrame
  <2>6. Takes(s) => LiveShown(s)'
    <3>1. SUFFICES ASSUME Takes(s) PROVE LiveShown(s)'
      OBVIOUS
    <3>2. conv' = d
      BY <1>1, <2>3, <3>1, BeforeFrame
    <3> QED BY <1>1, <2>1, <2>2, <3>1, <3>2, BeforeFrame DEF LiveShown
  <2> QED BY <1>1, <2>1, <2>5, <2>6, BeforeFrame, AfterFrame
<1> QED BY <1>3, <1>4

\* A frame that changes the blocks of s, and may empty the buffer.
LEMMA CallsFrame ==
    ASSUME ShownInv, NEW s \in Session, Emits(s), UNCHANGED sessionVars,
           NEW d, SameButCalls(conv, d), Nested(d), d.stream \in {conv.stream, 0},
           \A x \in Session \ {s} : Blocks(d, x) = Blocks(conv, x),
           Shows(d),
           cli' \in [Session -> ChildState],
           \A x \in Session \ {s} : cli'[x] = cli[x],
           cli'[s].init = cli[s].init, cli'[s].turn = cli[s].turn,
           cli'[s].asks = cli[s].asks, cli'[s].orch = cli[s].orch,
           Takes(s) => /\ Pending(s, "main") \in d.calls => cli'[s].task # "none"
                       /\ Pending(s, "child") \in d.calls => cli'[s].task = "calls"
    PROVE  ShownInv'
<1>1. conv' = IF Hears THEN d ELSE conv
  BY DEF Shows
<1>2. FrameOf(conv, d, s)
  BY BeforeFrame, NoSession DEF FrameOf, SameButCalls
<1>3. FrameOf(conv, conv', s) /\ conv'.permissions = conv.permissions
  BY <1>1, <1>2, BeforeFrame DEF SameButCalls
<1>4. Takes(s) => LiveShown(s)'
  <2>1. SUFFICES ASSUME Takes(s) PROVE LiveShown(s)'
    OBVIOUS
  <2>2. conv' = d
    BY <1>1, <2>1, BeforeFrame
  <2> QED BY <2>1, <2>2, BeforeFrame, NoSession DEF LiveShown, SameButCalls
<1> QED BY <1>3, <1>4, BeforeFrame, AfterFrame

\* The one field of s that these frames set.
LEMMA TaskFields ==
    ASSUME ShownInv, NEW s \in Session, Emits(s),
           NEW task \in {"none", "runs", "calls", "returned"}, Does(s, "task", task)
    PROVE  /\ cli' \in [Session -> ChildState]
           /\ \A x \in Session \ {s} : cli'[x] = cli[x]
           /\ cli'[s].init = cli[s].init /\ cli'[s].turn = cli[s].turn
           /\ cli'[s].asks = cli[s].asks /\ cli'[s].orch = cli[s].orch
           /\ cli'[s].task = task
BY BeforeFrame DEF Does, ChildState

LEMMA DelegatesShown ==
    ASSUME ShownInv, NEW s \in Session, Delegates(s)
    PROVE  ShownInv'
<1>1. /\ Emits(s) /\ UNCHANGED sessionVars /\ cli[s].task = "none"
      /\ Does(s, "task", "runs") /\ Shows(ApplyToolUse(conv, s))
  BY DEF Delegates
<1> DEFINE d == ApplyToolUse(conv, s)
<1>2. /\ SameButCalls(conv, d) /\ Nested(d) /\ d.stream = 0
      /\ d.calls = conv.calls \cup {Pending(s, "main")}
      /\ \A x \in Session \ {s} : Blocks(d, x) = Blocks(conv, x)
  BY <1>1, BeforeFrame, ToolUseEffect
<1> HIDE DEF d
<1>3. Takes(s) => Pending(s, "child") \notin d.calls
  BY <1>1, <1>2, BeforeFrame, CallType DEF LiveShown
<1> QED BY <1>1, <1>2, <1>3, TaskFields, CallsFrame DEF d

LEMMA ChildCallsShown ==
    ASSUME ShownInv, NEW s \in Session, ChildCalls(s)
    PROVE  ShownInv'
<1>1. /\ Emits(s) /\ UNCHANGED sessionVars /\ cli[s].task = "runs"
      /\ Does(s, "task", "calls") /\ Shows(ApplyChildToolUse(conv, s))
  BY DEF ChildCalls
<1> DEFINE d == ApplyChildToolUse(conv, s)
<1>2. /\ SameButCalls(conv, d) /\ Nested(d) /\ d.stream = conv.stream
      /\ \A x \in Session \ {s} : Blocks(d, x) = Blocks(conv, x)
  BY <1>1, BeforeFrame, ChildToolUseEffect
<1> HIDE DEF d
<1> QED BY <1>1, <1>2, TaskFields, CallsFrame DEF d

LEMMA ChildReturnsShown ==
    ASSUME ShownInv, NEW s \in Session, ChildReturns(s)
    PROVE  ShownInv'
<1>1. /\ Emits(s) /\ UNCHANGED sessionVars /\ cli[s].task = "calls"
      /\ Does(s, "task", "returned") /\ Shows(ApplyChildToolResult(conv, s))
  BY DEF ChildReturns
<1> DEFINE d == ApplyChildToolResult(conv, s)
<1>2. /\ SameButCalls(conv, d) /\ Nested(d) /\ d.stream = conv.stream
      /\ Pending(s, "child") \notin d.calls
      /\ \A x \in Session \ {s} : Blocks(d, x) = Blocks(conv, x)
  BY <1>1, BeforeFrame, ChildToolResultEffect
<1> HIDE DEF d
<1> QED BY <1>1, <1>2, TaskFields, CallsFrame DEF d

LEMMA TaskReturnsShown ==
    ASSUME ShownInv, NEW s \in Session, TaskReturns(s)
    PROVE  ShownInv'
<1>1. /\ Emits(s) /\ UNCHANGED sessionVars /\ cli[s].task \in {"runs", "returned"}
      /\ Does(s, "task", "none") /\ Shows(ApplyToolResult(conv, s, "main"))
  BY DEF TaskReturns
<1> DEFINE d == ApplyToolResult(conv, s, "main")
<1>2. /\ SameButCalls(conv, d) /\ Nested(d) /\ d.stream = conv.stream
      /\ Pending(s, "main") \notin d.calls
      /\ Pending(s, "child") \in d.calls => Pending(s, "child") \in conv.calls
      /\ \A x \in Session \ {s} : Blocks(d, x) = Blocks(conv, x)
  BY <1>1, BeforeFrame, ToolResultEffect
<1> HIDE DEF d
<1>3. Takes(s) => Pending(s, "child") \notin d.calls
  BY <1>1, <1>2, BeforeFrame DEF LiveShown
<1> QED BY <1>1, <1>2, <1>3, TaskFields, CallsFrame DEF d

\* An orchestration that starts or ends is listed, or no longer.
LEMMA OrchestrationFrame ==
    ASSUME ShownInv, NEW s \in Session, Emits(s), UNCHANGED sessionVars,
           NEW runs \in BOOLEAN, Does(s, "orch", runs),
           Shows([conv EXCEPT !.orchestrations = IF runs THEN @ \cup {s}
                                                 ELSE @ \ {s}])
    PROVE  ShownInv'
<1>1. /\ cli' \in [Session -> ChildState]
      /\ \A x \in Session \ {s} : cli'[x] = cli[x]
      /\ cli'[s].init = cli[s].init /\ cli'[s].turn = cli[s].turn
      /\ cli'[s].asks = cli[s].asks /\ cli'[s].task = cli[s].task
      /\ cli'[s].orch <=> runs
  BY BeforeFrame DEF Does, ChildState
<1> DEFINE O == IF runs THEN conv.orchestrations \cup {s}
                ELSE conv.orchestrations \ {s}
           d == [conv EXCEPT !.orchestrations = O]
<1>2. O \in SUBSET Session
  BY BeforeFrame DEF ConversationType
<1>3. /\ \A x \in Session \ {s} : x \in O <=> x \in conv.orchestrations
      /\ s \in O <=> runs
  OBVIOUS
<1>4. conv' = IF Hears THEN d ELSE conv
  BY DEF Shows
<1> HIDE DEF O
<1>5. /\ d \in ConversationType /\ d.orchestrations = O
      /\ d.stream = conv.stream /\ d.permissions = conv.permissions
      /\ d.calls = conv.calls
  BY <1>2, BeforeFrame, OrchestrationFields
<1> HIDE DEF d
<1>6. FrameOf(conv, d, s)
  BY <1>3, <1>5, BeforeFrame, FrameKeeps
<1>7. FrameOf(conv, conv', s) /\ conv'.permissions = conv.permissions
  BY <1>4, <1>5, <1>6, BeforeFrame
<1>8. Takes(s) => LiveShown(s)'
  <2>1. SUFFICES ASSUME Takes(s) PROVE LiveShown(s)'
    OBVIOUS
  <2>2. conv' = d
    BY <1>4, <2>1, BeforeFrame
  <2> QED BY <1>1, <1>3, <1>5, <2>1, <2>2, BeforeFrame DEF LiveShown
<1> QED BY <1>1, <1>7, <1>8, BeforeFrame, AfterFrame

LEMMA OrchestrationStartsShown ==
    ASSUME ShownInv, NEW s \in Session, OrchestrationStarts(s)
    PROVE  ShownInv'
<1>1. /\ Emits(s) /\ UNCHANGED sessionVars /\ Does(s, "orch", TRUE)
      /\ Shows(ApplyTaskStarted(conv, s))
  BY DEF OrchestrationStarts
<1> QED BY <1>1, OrchestrationFrame DEF ApplyTaskStarted

LEMMA OrchestrationEndsShown ==
    ASSUME ShownInv, NEW s \in Session, OrchestrationEnds(s)
    PROVE  ShownInv'
<1>1. /\ Emits(s) /\ UNCHANGED sessionVars /\ Does(s, "orch", FALSE)
      /\ Shows(ApplyTaskEnded(conv, s))
  BY DEF OrchestrationEnds
<1> QED BY <1>1, OrchestrationFrame DEF ApplyTaskEnded

\* A turn ends: its status, and the buffer.
LEMMA ResultEffect ==
    ASSUME NEW c \in ConversationType, NEW s \in Session
    PROVE  LET d == ApplyResult(c, s)
           IN /\ d \in ConversationType /\ d.status = "idle" /\ d.by = s
              /\ d.stream = 0 /\ d.permissions = c.permissions
              /\ d.calls = c.calls /\ d.orchestrations = c.orchestrations
<1> DEFINE b == Status(c, "idle", s)
<1>1. b = ApplyInit(c, s)
  BY DEF ApplyInit
<1>2. SameButStatus(c, b) /\ b.status = "idle" /\ b.by = s
  BY <1>1, StatusEffects
<1> HIDE DEF b
<1>3. LET d == [b EXCEPT !.stream = 0]
      IN /\ d \in ConversationType /\ d.stream = 0
         /\ d.status = b.status /\ d.by = b.by /\ d.permissions = b.permissions
         /\ d.calls = b.calls /\ d.orchestrations = b.orchestrations
  BY <1>2, NoSession, StreamFields DEF SameButStatus
<1> QED BY <1>2, <1>3 DEF ApplyResult, SameButStatus, b

\* A queued message that is sent is a turn that is shown.
LEMMA FlushEffect ==
    ASSUME NEW d \in ConversationType, conv \in ConversationType,
           ShowsAndFlushes(d)
    PROVE  \/ SameButStatus(d, conv')
           \/ ~Hears /\ conv' = conv
BY OwnStatusEffects DEF ShowsAndFlushes, Shows, SameButStatus

LEMMA ChildResultShown ==
    ASSUME ShownInv, NEW s \in Session, ChildResult(s)
    PROVE  ShownInv'
<1>1. Emits(s) /\ UNCHANGED <<sessionVars, cli>> /\ ShowsAndFlushes(conv)
  BY DEF ChildResult
<1>2. SameButStatus(conv, conv')
  BY <1>1, BeforeFrame, FlushEffect DEF SameButStatus
<1>3. FrameOf(conv, conv', s)
  BY <1>1, <1>2, BeforeFrame, FrameKeeps DEF SameButStatus
<1>4. Takes(s) => LiveShown(s)'
  BY <1>1, <1>2, BeforeFrame DEF LiveShown, SameButStatus
<1> QED BY <1>1, <1>2, <1>3, <1>4, BeforeFrame, AfterFrame DEF SameButStatus

LEMMA ResultShown ==
    ASSUME ShownInv, NEW s \in Session, Result(s)
    PROVE  ShownInv'
<1>1. /\ Emits(s) /\ UNCHANGED sessionVars
      /\ Does(s, "turn", FALSE) /\ ShowsAndFlushes(ApplyResult(conv, s))
  BY DEF Result
<1>2. /\ cli' \in [Session -> ChildState]
      /\ \A x \in Session \ {s} : cli'[x] = cli[x]
      /\ ~cli'[s].turn /\ cli'[s].asks = cli[s].asks
      /\ cli'[s].task = cli[s].task /\ cli'[s].orch = cli[s].orch
  BY <1>1, BeforeFrame DEF Does, ChildState
<1> DEFINE d == ApplyResult(conv, s)
<1>3. /\ d \in ConversationType /\ d.stream = 0
      /\ d.permissions = conv.permissions
      /\ d.calls = conv.calls /\ d.orchestrations = conv.orchestrations
  BY <1>1, BeforeFrame, ResultEffect
<1>4. ShowsAndFlushes(d)
  BY <1>1
<1> HIDE DEF d
<1>5. SameButStatus(d, conv') \/ (~Hears /\ conv' = conv)
  BY <1>1, <1>3, <1>4, BeforeFrame, FlushEffect
<1>6. /\ conv' \in ConversationType /\ conv'.stream \in {conv.stream, 0}
      /\ Hears => conv'.stream = 0
      /\ conv'.permissions = conv.permissions
      /\ conv'.calls = conv.calls /\ conv'.orchestrations = conv.orchestrations
  BY <1>1, <1>3, <1>5, BeforeFrame DEF SameButStatus
<1>7. FrameOf(conv, conv', s)
  BY <1>1, <1>6, BeforeFrame, FrameKeeps
<1>8. Takes(s) => LiveShown(s)'
  BY <1>1, <1>2, <1>6, BeforeFrame, NoSession DEF LiveShown
<1> QED BY <1>1, <1>2, <1>6, <1>7, <1>8, BeforeFrame, AfterFrame

LEMMA ExitFrameShown ==
    ASSUME ShownInv, NEW s \in Session, ExitFrame(s)
    PROVE  ShownInv'
<1>1. /\ Emits(s) /\ UNCHANGED <<phase, sess, cli>> /\ child[s] = "dying"
      /\ child' = [child EXCEPT ![s] = "gone"]
      /\ Shows(ApplyExit(conv, s))
  BY DEF ExitFrame, Emits
<1>2. SameButStatus(conv, conv')
  BY <1>1, BeforeFrame, StatusEffects DEF Shows, SameButStatus
<1>3. FrameOf(conv, conv', s)
  BY <1>1, <1>2, BeforeFrame, FrameKeeps DEF SameButStatus
<1>4. /\ child' \in [Session -> {"none", "alive", "dying", "gone"}]
      /\ child'[s] = "gone" /\ \A x \in Session \ {s} : child'[x] = child[x]
  BY <1>1 DEF ShownInv, ShownType
<1>5. OnlyOf(s)
  BY <1>1, <1>3, <1>4, BeforeFrame DEF OnlyOf, FrameOf
<1>6. ~Takes(s)
  BY <1>1 DEF Takes
<1> QED BY <1>1, <1>2, <1>4, <1>5, <1>6, BeforeFrame, OnlyOfPreserves
     DEF SameButStatus

\* The answer to a request: of a session that has started.
LEMMA AnswerShown ==
    ASSUME ShownInv, NEW forSession \in BOOLEAN, Answer(forSession)
    PROVE  ShownInv'
<1>1. conv \in ConversationType /\ IsInjective(conv.permissions)
  BY DEF ShownInv, ShownType
<1>2. conv.permissions # << >> /\ UNCHANGED sessionVars
  BY DEF Answer
<1>3. PICK s \in Session : /\ s = Head(conv.permissions)
                           /\ s \in ToSet(conv.permissions)
  BY <1>1, <1>2, TailSet DEF ConversationType
<1>4. /\ conv' \in ConversationType /\ conv'.stream = conv.stream
      /\ conv'.calls = conv.calls /\ conv'.orchestrations = conv.orchestrations
      /\ IsInjective(conv'.permissions)
      /\ ToSet(conv'.permissions) = ToSet(conv.permissions) \ {s}
  <2>1. conv' = ResolvePermission(conv, Head(conv.permissions))
    BY DEF Answer
  <2> QED BY <1>1, <1>2, <1>3, <2>1, ResolveEffect
<1>5. ~(s > sess)
  BY <1>3 DEF ShownInv, NotShown
<1>6. /\ cli' \in [Session -> ChildState]
      /\ \A x \in Session \ {s} : cli'[x] = cli[x]
      /\ cli'[s].init = cli[s].init /\ cli'[s].turn = cli[s].turn
      /\ Takes(s) => ~cli'[s].asks
      /\ cli'[s].task = cli[s].task /\ cli'[s].orch = cli[s].orch
  <2>1. cli' = IF Takes(s) THEN [cli EXCEPT ![s].asks = FALSE] ELSE cli
    BY <1>3 DEF Answer
  <2>2. cli \in [Session -> ChildState]
    BY DEF ShownInv, ShownType
  <2> QED BY <2>1, <2>2 DEF ChildState
<1>7. OnlyOf(s)
  BY <1>1, <1>2, <1>4, <1>6
     DEF OnlyOf, sessionVars, ShownInv, ShownType, Nested, Knows, Blocks
<1>8. Takes(s) => LiveShown(s)'
  BY <1>4, <1>6 DEF LiveShown, ShownInv
<1>9. cli'[s].turn => cli'[s].init
  BY <1>3, <1>6 DEF ShownInv
<1> QED BY <1>2, <1>4, <1>5, <1>7, <1>8, <1>9, OnlyOfPreserves DEF sessionVars

\* A step of the pane or of the child: what is shown changes in the status only.
LEMMA SessionStepShown ==
    ASSUME ShownInv, SameButStatus(conv, conv'), UNCHANGED cli,
           phase' \in Phases,
           sess' \in 0..MaxSessions, ~(sess > sess'),
           child' \in [Session -> {"none", "alive", "dying", "gone"}],
           \A s \in Session : child'[s] = "alive" => s = sess' /\ phase' # "booting",
           \A s \in Session : s > sess' => child'[s] = "none",
           \A s \in Session : Takes(s)' => Takes(s) \/ s > sess
    PROVE  ShownInv'
<1>1. ShownType'
  BY DEF ShownInv, ShownType, SameButStatus
<1>2. Nested(conv') /\ \A s \in Session : Blocks(conv', s) = Blocks(conv, s)
  BY DEF ShownInv, SameButStatus, Nested, Knows, Blocks
<1>3. \A s \in Session : s > sess' => NotShown(s)'
  <2>1. ASSUME NEW s \in Session, s > sess' PROVE s > sess
    BY <2>1 DEF ShownInv, ShownType, Session
  <2> QED BY <1>2, <2>1 DEF ShownInv, NotShown, SameButStatus
<1>4. \A s \in Session : Takes(s)' => LiveShown(s)'
  <2>1. SUFFICES ASSUME NEW s \in Session, Takes(s)' PROVE LiveShown(s)'
    OBVIOUS
  <2>2. CASE Takes(s)
    BY <2>1, <2>2 DEF ShownInv, LiveShown, SameButStatus
  <2>3. CASE s > sess
    <3>1. NotShown(s)
      BY <2>3 DEF ShownInv
    <3>2. Pending(s, "main") \notin conv.calls /\ Pending(s, "child") \notin conv.calls
      BY <3>1, CallType DEF NotShown, Blocks
    <3> QED BY <3>1, <3>2 DEF NotShown, LiveShown, SameButStatus, Idle
  <2> QED BY <2>1, <2>2, <2>3
<1> QED BY <1>1, <1>2, <1>3, <1>4 DEF ShownInv, SameButStatus

\* A conversation that stays.
LEMMA ConvKept == ASSUME ShownInv PROVE SameButStatus(conv, conv)
BY DEF ShownInv, ShownType, SameButStatus

LEMMA SessionStartsShown == ASSUME ShownInv, SessionStarts PROVE ShownInv'
<1>1. /\ ~Lives /\ sess + 1 \in Session
      /\ phase' = "started" /\ sess' = sess + 1
      /\ child' = [child EXCEPT ![sess + 1] = "alive"]
      /\ UNCHANGED <<cli, conv>>
  BY DEF SessionStarts
<1>2. sess \in 0..MaxSessions /\ MaxSessions \in Nat
  BY ConversationAssumption DEF ShownInv, ShownType, ConversationAssumption
<1>3. sess' \in 0..MaxSessions /\ ~(sess > sess') /\ sess + 1 > sess
  BY <1>1, <1>2 DEF Session
<1>4. child' \in [Session -> {"none", "alive", "dying", "gone"}]
  BY <1>1 DEF ShownInv, ShownType
<1>5. \A s \in Session : child[s] # "alive"
  BY <1>1 DEF ShownInv, Lives, Takes
<1>6. \A s \in Session : child'[s] = "alive" => s = sess'
  BY <1>1, <1>5 DEF ShownInv, ShownType
<1>7. \A s \in Session : s > sess' => child'[s] = "none"
  <2>1. ASSUME NEW s \in Session, s > sess'
        PROVE  s > sess /\ s # sess + 1
    BY <1>1, <1>2, <2>1 DEF Session
  <2> QED BY <1>1, <2>1 DEF ShownInv, ShownType, NotShown
<1>8. \A s \in Session : Takes(s)' => s > sess
  BY <1>1, <1>3 DEF Takes
<1>9. phase' \in Phases /\ phase' # "booting"
  BY <1>1 DEF Phases
<1> QED BY <1>1, <1>3, <1>4, <1>6, <1>7, <1>8, <1>9, ConvKept, SessionStepShown

\* A step of the pane alone, which hears its session from then on.
LEMMA PaneStepShown ==
    ASSUME ShownInv, SameButStatus(conv, conv'), UNCHANGED <<sess, child, cli>>,
           phase' \in Phases \ {"booting"}
    PROVE  ShownInv'
<1>1. /\ sess' \in 0..MaxSessions /\ ~(sess > sess')
      /\ child' \in [Session -> {"none", "alive", "dying", "gone"}]
  BY ConversationAssumption DEF ShownInv, ShownType, ConversationAssumption
<1>2. \A s \in Session : child'[s] = "alive" => s = sess'
  BY DEF ShownInv
<1>3. \A s \in Session : s > sess' => child'[s] = "none"
  BY DEF ShownInv, NotShown
<1>4. \A s \in Session : Takes(s)' => Takes(s)
  BY DEF Takes
<1> QED BY <1>1, <1>2, <1>3, <1>4, SessionStepShown

LEMMA StartFailsShown == ASSUME ShownInv, StartFails PROVE ShownInv'
BY ConvKept, PaneStepShown DEF StartFails, Phases

LEMMA BootsShown == ASSUME ShownInv, Boots PROVE ShownInv'
<1>1. SameButStatus(conv, conv')
  BY OwnStatusEffects DEF Boots, ShownInv, ShownType
<1> QED BY <1>1, PaneStepShown DEF Boots, Phases

LEMMA RemountShown == ASSUME ShownInv, Remount PROVE ShownInv'
<1>1. SameButStatus(conv, conv')
  BY OwnStatusEffects DEF Remount, ShownInv, ShownType
<1> QED BY <1>1, PaneStepShown DEF Remount, Phases

LEMMA FindsLiveShown == ASSUME ShownInv, FindsLive PROVE ShownInv'
BY ConvKept, PaneStepShown DEF FindsLive, Phases

LEMMA AttachShown == ASSUME ShownInv, Attach PROVE ShownInv'
<1>1. SameButStatus(conv, conv')
  BY OwnStatusEffects DEF Attach, ShownInv, ShownType
<1> QED BY <1>1, PaneStepShown DEF Attach, Phases

LEMMA RestartShown == ASSUME ShownInv, Restart PROVE ShownInv'
<1>1. /\ phase' = "booting" /\ UNCHANGED <<sess, cli, conv>>
      /\ child' = [s \in Session |-> IF child[s] = "alive" THEN "dying" ELSE child[s]]
  BY DEF Restart
<1>2. /\ sess' \in 0..MaxSessions /\ ~(sess > sess')
      /\ child' \in [Session -> {"none", "alive", "dying", "gone"}]
  BY <1>1, ConversationAssumption
     DEF ShownInv, ShownType, ConversationAssumption
<1>3. \A s \in Session : child'[s] # "alive"
  BY <1>1
<1>4. \A s \in Session : s > sess' => child'[s] = "none"
  BY <1>1 DEF ShownInv, NotShown
<1>5. \A s \in Session : ~Takes(s)'
  BY <1>3 DEF Takes
<1>6. phase' \in Phases
  BY <1>1 DEF Phases
<1> QED BY <1>1, <1>2, <1>3, <1>4, <1>5, <1>6, ConvKept, SessionStepShown

LEMMA ChildEndsShown ==
    ASSUME ShownInv, NEW s \in Session, ChildEnds(s)
    PROVE  ShownInv'
<1>1. /\ child[s] = "alive" /\ child' = [child EXCEPT ![s] = "dying"]
      /\ UNCHANGED <<phase, sess, cli, conv>>
  BY DEF ChildEnds
<1>2. /\ sess' \in 0..MaxSessions /\ ~(sess > sess')
      /\ phase' \in Phases
      /\ child' \in [Session -> {"none", "alive", "dying", "gone"}]
  BY <1>1, ConversationAssumption
     DEF ShownInv, ShownType, ConversationAssumption
<1>3. \A x \in Session : child'[x] = "alive" => child[x] = "alive"
  BY <1>1 DEF ShownInv, ShownType
<1>4. \A x \in Session : x > sess' => child'[x] = "none"
  <2>1. ~(s > sess)
    BY <1>1 DEF ShownInv, NotShown
  <2> QED BY <1>1, <2>1 DEF ShownInv, ShownType, NotShown
<1>5. \A x \in Session : Takes(x)' => Takes(x)
  BY <1>1, <1>3 DEF Takes
<1> QED BY <1>1, <1>2, <1>3, <1>4, <1>5, ConvKept, SessionStepShown DEF ShownInv

\* A step of the composer, which changes no session but may give it a line.
LEMMA ComposerStepShown ==
    ASSUME ShownInv, UNCHANGED sessionVars,
           SameButStatus(conv, conv') \/ conv' = ClearContext(conv),
           cli' \in [Session -> ChildState],
           \A s \in Session : cli'[s] # cli[s] => Takes(s),
           \A s \in Session : /\ cli'[s].init = cli[s].init
                              /\ cli'[s].turn = cli[s].turn
                              /\ cli'[s].asks = cli[s].asks
                              /\ cli'[s].task = cli[s].task
                              /\ cli'[s].orch = cli[s].orch
    PROVE  ShownInv'
<1>1. /\ conv' \in ConversationType /\ Nested(conv')
      /\ conv'.stream \in {0, conv.stream} /\ conv'.permissions = conv.permissions
      /\ conv'.calls \subseteq conv.calls
      /\ conv'.orchestrations = conv.orchestrations
  <2>1. conv \in ConversationType /\ Nested(conv)
    BY DEF ShownInv, ShownType
  <2>2. CASE SameButStatus(conv, conv')
    BY <2>1, <2>2 DEF SameButStatus, Nested, Knows
  <2>3. CASE conv' = ClearContext(conv)
    BY <2>1, <2>3, ClearEffect DEF SameButCalls
  <2> QED BY <2>2, <2>3
<1>2. ShownType'
  BY <1>1 DEF ShownInv, ShownType, sessionVars
<1>3. \A s \in Session : s > sess' => NotShown(s)'
  <2>1. SUFFICES ASSUME NEW s \in Session, s > sess PROVE NotShown(s)'
    BY DEF sessionVars
  <2>2. NotShown(s) /\ cli'[s] = cli[s]
    BY <2>1 DEF ShownInv, Takes, NotShown
  <2> QED BY <1>1, <2>2, NoSession DEF NotShown, Blocks, sessionVars
<1>4. \A s \in Session : Takes(s)' => LiveShown(s)'
  <2>1. SUFFICES ASSUME NEW s \in Session, Takes(s) PROVE LiveShown(s)'
    BY DEF Takes, sessionVars
  <2>2. LiveShown(s)
    BY <2>1 DEF ShownInv
  <2> QED BY <1>1, <2>2, NoSession DEF LiveShown
<1> QED BY <1>1, <1>2, <1>3, <1>4 DEF ShownInv, sessionVars

LEMMA SendStartShown == ASSUME ShownInv, SendStart PROVE ShownInv'
<1>1. conv' = AppendUserTurn(conv) /\ UNCHANGED <<sessionVars, cli>>
  BY DEF SendStart
<1>2. SameButStatus(conv, conv') /\ cli \in [Session -> ChildState]
  BY <1>1, OwnStatusEffects DEF ShownInv, ShownType
<1> QED BY <1>1, <1>2, ComposerStepShown

LEMMA ClearShown == ASSUME ShownInv, Clear PROVE ShownInv'
<1>1. conv' = ClearContext(conv) /\ UNCHANGED <<sessionVars, cli>>
  BY DEF Clear
<1>2. cli \in [Session -> ChildState]
  BY DEF ShownInv, ShownType
<1> QED BY <1>1, <1>2, ComposerStepShown

\* A step that neither a session takes part in nor the conversation.
LEMMA ElsewhereShown ==
    ASSUME ShownInv, UNCHANGED <<sessionVars, cli, conv>>
    PROVE  ShownInv'
<1>1. cli \in [Session -> ChildState]
  BY DEF ShownInv, ShownType
<1> QED BY <1>1, ConvKept, ComposerStepShown

\* What a handled message changes of a session.
LEMMA HandledEffect ==
    ASSUME ShownInv, NEW m, Handled(m)
    PROVE  /\ cli' \in [Session -> ChildState]
           /\ \A s \in Session : Takes(s) => cli'[s].inbox = cli[s].inbox + 1
           /\ \A s \in Session : cli'[s] # cli[s] => Takes(s)
           /\ \A s \in Session : /\ cli'[s].init = cli[s].init
                                 /\ cli'[s].turn = cli[s].turn
                                 /\ cli'[s].asks = cli[s].asks
                                 /\ cli'[s].task = cli[s].task
                                 /\ cli'[s].orch = cli[s].orch
<1>1. cli \in [Session -> ChildState]
  BY DEF ShownInv, ShownType
<1>2. CASE ~Lives
  BY <1>1, <1>2 DEF Handled, Lives
<1>3. CASE Lives
  <2>1. PICK s \in Session : Takes(s)
    BY <1>3 DEF Lives
  <2>2. s = sess /\ \A x \in Session : Takes(x) => x = s
    BY <2>1 DEF Takes
  <2>3. cli' = [cli EXCEPT ![s].inbox = @ + 1]
    BY <1>3, <2>2 DEF Handled
  <2> QED BY <1>1, <2>1, <2>2, <2>3 DEF ChildState
<1> QED BY <1>2, <1>3

LEMMA SendHandledShown ==
    ASSUME ShownInv, NEW i, SendHandled(i)
    PROVE  ShownInv'
<1>1. Handled(sends[i]) /\ UNCHANGED <<sessionVars, conv>>
  BY DEF SendHandled
<1> QED BY <1>1, HandledEffect, ConvKept, ComposerStepShown

LEMMA ShownStep == ShownInv /\ [Next]_vars => ShownInv'
<1> SUFFICES ASSUME ShownInv, [Next]_vars PROVE ShownInv'
  OBVIOUS
<1>1. CASE SessionStarts
  BY <1>1, SessionStartsShown
<1>2. CASE StartFails
  BY <1>2, StartFailsShown
<1>3. CASE Restart
  BY <1>3, RestartShown
<1>4. CASE Boots
  BY <1>4, BootsShown
<1>5. CASE SendStart
  BY <1>5, SendStartShown
<1>6. CASE Queue
  BY <1>6, ElsewhereShown DEF Queue
<1>7. CASE Clear
  BY <1>7, ClearShown
<1>8. ASSUME NEW t \in Text, Type(t) PROVE ShownInv'
  BY <1>8, ElsewhereShown DEF Type
<1>9. ASSUME NEW i \in DOMAIN sends, SendHandled(i) PROVE ShownInv'
  BY <1>9, SendHandledShown
<1>10. ASSUME NEW forSession \in BOOLEAN, Answer(forSession) PROVE ShownInv'
  BY <1>10, AnswerShown
<1>11. ASSUME NEW s \in Session, ChildEnds(s) PROVE ShownInv'
  BY <1>11, ChildEndsShown
<1>12. ASSUME NEW s \in Session, InitFrame(s) PROVE ShownInv'
  BY <1>12, InitFrameShown
<1>13. ASSUME NEW s \in Session, TurnStarts(s) PROVE ShownInv'
  BY <1>13, TurnStartsShown
<1>14. ASSUME NEW s \in Session, Delta(s) PROVE ShownInv'
  BY <1>14, DeltaShown
<1>15. ASSUME NEW s \in Session, Assistant(s) PROVE ShownInv'
  BY <1>15, AssistantShown
<1>16. ASSUME NEW s \in Session, Asks(s) PROVE ShownInv'
  BY <1>16, AsksShown
<1>17. ASSUME NEW s \in Session, Delegates(s) PROVE ShownInv'
  BY <1>17, DelegatesShown
<1>18. ASSUME NEW s \in Session, ChildCalls(s) PROVE ShownInv'
  BY <1>18, ChildCallsShown
<1>19. ASSUME NEW s \in Session, ChildReturns(s) PROVE ShownInv'
  BY <1>19, ChildReturnsShown
<1>20. ASSUME NEW s \in Session, TaskReturns(s) PROVE ShownInv'
  BY <1>20, TaskReturnsShown
<1>21. ASSUME NEW s \in Session, OrchestrationStarts(s) PROVE ShownInv'
  BY <1>21, OrchestrationStartsShown
<1>22. ASSUME NEW s \in Session, OrchestrationEnds(s) PROVE ShownInv'
  BY <1>22, OrchestrationEndsShown
<1>23. ASSUME NEW s \in Session, ChildResult(s) PROVE ShownInv'
  BY <1>23, ChildResultShown
<1>24. ASSUME NEW s \in Session, Result(s) PROVE ShownInv'
  BY <1>24, ResultShown
<1>25. ASSUME NEW s \in Session, ExitFrame(s) PROVE ShownInv'
  BY <1>25, ExitFrameShown
<1>26. CASE UNCHANGED vars
  BY <1>26, ElsewhereShown DEF vars
<1>27. CASE Remount
  BY <1>27, RemountShown
<1>28. CASE FindsLive
  BY <1>28, FindsLiveShown
<1>29. CASE Attach
  BY <1>29, AttachShown
<1>30. ASSUME NEW s \in Session, TurnOpens(s) PROVE ShownInv'
  BY <1>30, TurnOpensShown
<1>31. ASSUME NEW s \in Session, TurnGoesOn(s) PROVE ShownInv'
  BY <1>31, TurnGoesOnShown
<1> QED BY <1>1, <1>2, <1>3, <1>4, <1>5, <1>6, <1>7, <1>8, <1>9, <1>10, <1>11,
           <1>12, <1>13, <1>14, <1>15, <1>16, <1>17, <1>18, <1>19, <1>20,
           <1>21, <1>22, <1>23, <1>24, <1>25, <1>26, <1>27, <1>28, <1>29,
           <1>30, <1>31 DEF Next

\* At any time only the last session runs freely, nothing is shown of the
\* sessions to come, and every dialog is about a request that waits for it.
THEOREM ShownHolds == Spec => []ShownInv
BY ShownInit, ShownStep, PTL DEF Spec

\* The list of orchestrations, the sub-agents and the dialogs of a pane tell
\* of its live session what that session is doing, whatever restarts, /clear
\* and late frames of the sessions before have come between.
THEOREM LiveIsShownHolds == Spec => []LiveIsShown
<1>1. ShownInv => LiveIsShown
  <2>1. SUFFICES ASSUME ShownInv, NEW s \in Session, Takes(s)
                 PROVE  /\ cli[s].asks <=> s \in ToSet(conv.permissions)
                        /\ s \in ActiveOrchestrations(conv) <=>
                               cli[s].orch /\ conv.status # "exited"
                        /\ conv.stream = s => cli[s].turn
                        /\ s \in ActiveSubagents(conv) => cli[s].task # "none"
                        /\ Pending(s, "child") \in conv.calls => cli[s].task = "calls"
    BY DEF LiveIsShown, Pending
  <2>2. LiveShown(s) /\ (s \in ToSet(conv.permissions) => cli[s].asks)
    BY <2>1 DEF ShownInv
  <2>3. s \in ActiveSubagents(conv) => Pending(s, "main") \in conv.calls
    <3>1. SUFFICES ASSUME s \in ActiveSubagents(conv)
                   PROVE  Pending(s, "main") \in conv.calls
      OBVIOUS
    <3>2. PICK k \in conv.calls : k.of = s /\ k.level = "main" /\ ~k.done
      BY <3>1 DEF ActiveSubagents
    <3>3. k \in Calls
      BY <2>1 DEF ShownInv, ShownType, ConversationType
    <3>4. k = Pending(s, "main")
      BY <3>2, <3>3 DEF Calls, Pending, Call
    <3> QED BY <3>2, <3>4
  <2>4. s \in ActiveOrchestrations(conv) <=>
            s \in conv.orchestrations /\ conv.status # "exited"
    BY DEF ActiveOrchestrations
  <2> QED BY <2>2, <2>3, <2>4 DEF LiveShown
<1> QED BY <1>1, ShownHolds, PTL
=============================================================================
