--------------------------- MODULE GroupJoinProof ---------------------------
(* Proofs about the views of GroupAgent, for any set of agents and any      *)
(* bounds: whom a joiner reaches and who comes to know it; and what holds   *)
(* of commands that wait for each other, to the refinement of GroupViews.   *)
EXTENDS GroupAgentProof, FiniteSetTheorems

-----------------------------------------------------------------------------
(* The inductive invariant of the sockets statuses travel over.             *)

\* A subscribe request being served is one its joiner still waits for.
SubscribeAwaited ==
  \A b, j \in Agents : server[b] = [kind |-> "sub", from |-> j] =>
     pc[j] = "subscribing" /\ b \in todo[j]

\* An agent without the state filter is connected to nobody, has heard nothing
\* and lists at most itself: its next connection will set the filter.
Unfiltered(a) ==
  /\ \A b \in Agents : link[a][b] = "none"
  /\ \A b \in Agents : view[a][b] > 0 => b = a
  /\ inbox[a] = {}
  /\ pc[a] = "connecting" => Members(group[a].view) \subseteq todo[a]
FilterInv == \A a \in Agents : leaves[a] = 0 /\ refs[a] = 0 => Unfiltered(a)

\* Whoever heard of j, or acknowledged it, has a live link to it.
Heard(m, j) == m \in acked[j] \/ \E s \in inbox[m] : s.from = j
HeardInv ==
  \A j, m \in Agents :
     leaves[j] = 0 /\ leaves[m] = 0 /\ Heard(m, j) => link[m][j] = "live"

\* A joiner announces itself when all members have acknowledged it.
NotifyInv ==
  \A j \in Agents : pc[j] = "notify" => Members(group[j].view) \subseteq acked[j]

WireInv == FilterInv /\ HeardInv /\ NotifyInv

-----------------------------------------------------------------------------
(* Subscribe requests are awaited.                                          *)

\* A subscribe request is neither the idle server nor one that waits for ever.
LEMMA SubscribeRecord ==
  ASSUME NEW j \in Agents
  PROVE  /\ [kind |-> "sub", from |-> j] # Free
         /\ [kind |-> "sub", from |-> j] # Stuck
         /\ [kind |-> "sub", from |-> j] # Denied
  BY DEF Free, Stuck, Denied

\* Steps that take no subscribe request and leave the waiting joiners alone.
LEMMA AwaitedKept ==
  ASSUME SubscribeAwaited,
         \A b, j \in Agents : server'[b] = [kind |-> "sub", from |-> j] =>
                              server[b] = [kind |-> "sub", from |-> j],
         \A j \in Agents : pc[j] = "subscribing" =>
                           pc'[j] = "subscribing" /\ todo'[j] = todo[j]
  PROVE  SubscribeAwaited'
  BY DEF SubscribeAwaited

\* A joiner waits for the answer to each subscribe request it sent.
LEMMA SubscribeStep == TypeOK /\ CallInv /\ SubscribeAwaited /\ [Next]_vars => SubscribeAwaited'
<1> SUFFICES ASSUME TypeOK, CallInv, SubscribeAwaited, [Next]_vars
             PROVE  SubscribeAwaited'
  OBVIOUS
<1> USE DEF storeVars, callVars, serveVars, netVars, faultVars
<1>1. ASSUME NEW a \in Agents, Command(a) PROVE SubscribeAwaited'
  BY <1>1, AwaitedKept DEF Command, Create, StartJoin, StartLeave, MayCommand, TypeOK
<1>2. ASSUME NEW a \in Agents, StartConnecting(a) PROVE SubscribeAwaited'
  BY <1>2 DEF StartConnecting, SubscribeAwaited, TypeOK
<1>3. ASSUME NEW a \in Agents, NEW m \in Agents, ConnectMember(a, m) PROVE SubscribeAwaited'
  <2>1. server' = server
    BY <1>3 DEF ConnectMember
  <2>2. \A j \in Agents : pc[j] = "subscribing" =>
                          pc'[j] = "subscribing" /\ todo'[j] = todo[j]
    BY <1>3 DEF ConnectMember, TypeOK
  <2> QED BY <2>1, <2>2, AwaitedKept
<1>4. ASSUME NEW a \in Agents, AcceptOneself(a) PROVE SubscribeAwaited'
  BY <1>4, AwaitedKept DEF AcceptOneself, TypeOK, Stuck
<1>5. ASSUME NEW a \in Agents, StartSubscribing(a) \/ FinishVerify(a) PROVE SubscribeAwaited'
  BY <1>5, AwaitedKept DEF StartSubscribing, FinishVerify, Return, TypeOK
<1>6. ASSUME NEW a \in Agents, SayHello(a) \/ NotifyActive(a) \/ FinishLeave(a)
      PROVE  SubscribeAwaited'
  BY <1>6, AwaitedKept DEF SayHello, NotifyActive, Return, FinishLeave, TypeOK
<1>7. ASSUME NEW b \in Agents, NEW j \in Agents, TakeJoin(b, j) PROVE SubscribeAwaited'
  BY <1>7, AwaitedKept, JoinRecord, SubscribeRecord DEF TakeJoin, Serve, TypeOK
<1>8. ASSUME NEW b \in Agents, NEW j \in Agents, AnswerJoin(b, j) PROVE SubscribeAwaited'
  <2>1. pc[j] = "request"
    BY <1>8 DEF AnswerJoin, CallInv, JoinAwaited
  <2>2. \A i \in Agents : pc[i] = "subscribing" =>
                          pc'[i] = "subscribing" /\ todo'[i] = todo[i]
    BY <1>8, <2>1 DEF AnswerJoin, TypeOK
  <2>3. server' = server \/ server' = [server EXCEPT ![b] = Free]
    BY <1>8 DEF AnswerJoin, Serve
  <2>4. \A c, i \in Agents : server'[c] = [kind |-> "sub", from |-> i] =>
                             server[c] = [kind |-> "sub", from |-> i]
    BY <2>3, SubscribeRecord DEF TypeOK
  <2> QED BY <2>2, <2>4, AwaitedKept
<1>9. ASSUME NEW b \in Agents, NEW j \in Agents, TakeSubscribe(b, j) PROVE SubscribeAwaited'
  <2>1. pc[j] = "subscribing" /\ b \in todo[j] /\ pc' = pc /\ todo' = todo
    BY <1>9 DEF TakeSubscribe
  <2>2. \/ server' = [server EXCEPT ![b] = Stuck]
        \/ server' = [server EXCEPT ![b] = [kind |-> "sub", from |-> j]]
    BY <1>9 DEF TakeSubscribe, Serve
  <2>3. \A c, i \in Agents : server'[c] = [kind |-> "sub", from |-> i] =>
           server[c] = [kind |-> "sub", from |-> i] \/ (c = b /\ i = j)
    BY <2>2 DEF TypeOK, Stuck
  <2> QED BY <2>1, <2>3 DEF SubscribeAwaited
<1>10. ASSUME NEW b \in Agents, NEW j \in Agents, AnswerSubscribe(b, j) PROVE SubscribeAwaited'
  <2>1. CASE UNCHANGED <<todo, server>>
    BY <1>10, <2>1 DEF AnswerSubscribe, SubscribeAwaited
  <2>2. CASE Serve(b, Free) /\ todo' = [todo EXCEPT ![j] = todo[j] \ {b}]
    BY <1>10, <2>2 DEF AnswerSubscribe, Serve, SubscribeAwaited, TypeOK, Free
  <2> QED BY <1>10, <2>1, <2>2 DEF AnswerSubscribe
<1>11. ASSUME NEW b \in Agents, NEW r \in conning[b], ConnectSubscriber(b, r) PROVE SubscribeAwaited'
  BY <1>11 DEF ConnectSubscriber, SubscribeAwaited
<1>12. ASSUME NEW b \in Agents, NEW r \in adding[b], AddSubscriber(b, r) PROVE SubscribeAwaited'
  BY <1>12 DEF AddSubscriber, SubscribeAwaited
<1>13. ASSUME NEW b \in Agents, NEW a \in Agents, Handling(b, a) PROVE SubscribeAwaited'
  BY <1>13 DEF Handling, AnswerHello, AddMember, RemoveMember, SubscribeAwaited
<1>14. ASSUME NEW a \in Agents, NEW b \in Agents, GoLive(a, b) PROVE SubscribeAwaited'
  BY <1>14 DEF GoLive, SubscribeAwaited
<1>15. ASSUME NEW b \in Agents, NEW s \in inbox[b], LoseStatus(b, s) PROVE SubscribeAwaited'
  BY <1>15 DEF LoseStatus, SubscribeAwaited
<1>16. CASE UNCHANGED vars
  BY <1>16 DEF vars, SubscribeAwaited
<1> QED
  BY <1>1, <1>2, <1>3, <1>4, <1>5, <1>6, <1>7, <1>8, <1>9, <1>10, <1>11, <1>12,
     <1>13, <1>14, <1>15, <1>16 DEF Next, Progress, Serving

-----------------------------------------------------------------------------
(* A status reaches whoever has the filter set and the link live.           *)

\* Steps that touch no socket and deliver no status.
LEMMA WireKept ==
  ASSUME WireInv, UNCHANGED <<leaves, refs, link, acked>>,
         \A x \in Agents : inbox'[x] \subseteq inbox[x],
         \A x, y \in Agents : view'[x][y] > 0 => view[x][y] > 0 \/ y = x,
         \A x \in Agents : pc'[x] = "connecting" =>
            \/ pc[x] = "connecting" /\ group'[x] = group[x] /\ todo'[x] = todo[x]
            \/ todo'[x] = Members(group'[x].view),
         \A x \in Agents : pc'[x] = "notify" =>
            pc[x] = "notify" /\ group'[x] = group[x]
  PROVE  WireInv'
<1>1. FilterInv'
  <2> SUFFICES ASSUME NEW x \in Agents, leaves'[x] = 0, refs'[x] = 0
               PROVE  Unfiltered(x)'
    BY DEF FilterInv
  <2>1. Unfiltered(x)
    BY DEF WireInv, FilterInv
  <2>2. inbox'[x] = {} /\ link'[x] = link[x]
    BY <2>1 DEF Unfiltered
  <2>3. pc'[x] = "connecting" => Members(group'[x].view) \subseteq todo'[x]
    BY <2>1 DEF Unfiltered
  <2> QED BY <2>1, <2>2, <2>3 DEF Unfiltered, Members
<1>2. HeardInv'
  BY DEF WireInv, HeardInv, Heard
<1>3. NotifyInv'
  BY DEF WireInv, NotifyInv, Members
<1> QED BY <1>1, <1>2, <1>3 DEF WireInv

\* A view that lists nobody but its owner does not make the topic exist.
LEMMA AloneNoTopic ==
  ASSUME NEW a \in Agents, \A b \in Agents : view[a][b] > 0 => b = a
  PROVE  ~TopicExists(a)
<1>1. Members(view[a]) \in SUBSET {a}
  BY DEF Members
<1>2. IsFiniteSet({a}) /\ Cardinality({a}) = 1
  BY FS_Singleton
<1>3. Cardinality(Members(view[a])) <= 1 /\ IsFiniteSet(Members(view[a]))
  BY <1>1, <1>2, FS_Subset
<1>4. Cardinality(Members(view[a])) \in Nat
  BY <1>3, FS_CardinalityType
<1> QED BY <1>3, <1>4 DEF TopicExists

\* Connecting sets the filter, and no link gets worse.
LEMMA ConnectWire ==
  ASSUME TypeOK, WireInv, NEW a \in Agents, NEW b \in Agents, Connect(a, b),
         UNCHANGED <<leaves, acked, inbox, view, group>>,
         \A x \in Agents : x # a => todo'[x] = todo[x],
         \A x \in Agents : pc'[x] = pc[x]
  PROVE  WireInv' /\ (leaves[a] = 0 => refs'[a] > 0)
<1>1. /\ \A x \in Agents : x # a => link'[x] = link[x] /\ refs'[x] = refs[x]
      /\ \A x \in Agents : x # b => link'[a][x] = link[a][x]
      /\ link'[a][b] = IF link[a][b] = "none" THEN "pending" ELSE link[a][b]
      /\ refs'[a] = IF TopicExists(a) THEN refs[a] ELSE refs[a] + 1
  BY DEF Connect, TypeOK
<1>2. leaves[a] = 0 => refs'[a] > 0
  <2>1. refs[a] \in Nat
    BY DEF TypeOK
  <2>2. CASE TopicExists(a)
    <3>1. ~Unfiltered(a)
      BY <2>2, AloneNoTopic DEF Unfiltered
    <3> QED BY <1>1, <2>1, <2>2, <3>1 DEF WireInv, FilterInv
  <2>3. CASE ~TopicExists(a)
    BY <1>1, <2>1, <2>3
  <2> QED BY <2>2, <2>3
<1>3. FilterInv'
  <2> SUFFICES ASSUME NEW x \in Agents, leaves'[x] = 0, refs'[x] = 0
               PROVE  Unfiltered(x)'
    BY DEF FilterInv
  <2>1. x # a
    BY <1>2
  <2>2. Unfiltered(x)
    BY <1>1, <2>1 DEF WireInv, FilterInv
  <2> QED BY <1>1, <2>1, <2>2 DEF Unfiltered, Members
<1>4. HeardInv'
  <2> SUFFICES ASSUME NEW j \in Agents, NEW m \in Agents,
                      leaves[j] = 0, leaves[m] = 0, Heard(m, j)
               PROVE  link'[m][j] = "live"
    BY DEF HeardInv, Heard
  <2>1. link[m][j] = "live"
    BY DEF WireInv, HeardInv
  <2> QED BY <1>1, <2>1
<1>5. NotifyInv'
  BY DEF WireInv, NotifyInv, Members
<1> QED BY <1>2, <1>3, <1>4, <1>5 DEF WireInv

\* A status published is heard over live links only.
LEMMA PublishWire ==
  ASSUME TypeOK, WireInv, NEW a \in Agents, NEW kind, NEW to, Publish(a, kind, to)
  PROVE  /\ \A x \in Agents : Unfiltered(x) => inbox'[x] = {}
         /\ \A x \in Agents : \A s \in inbox'[x] : s \in inbox[x]
               \/ (s.from = a /\ s.kind = kind /\ x \in to /\ link[x][a] = "live")
<1> DEFINE s == [kind |-> kind, from |-> a, call |-> calls[a]]
<1>1. s.from = a /\ s.kind = kind
  OBVIOUS
<1>2. inbox' = [b \in Agents |->
         IF b \in to /\ link[b][a] = "live" THEN inbox[b] \cup {s} ELSE inbox[b]]
  BY DEF Publish
<1> HIDE DEF s
<1>3. \A x \in Agents : inbox'[x] =
         IF x \in to /\ link[x][a] = "live" THEN inbox[x] \cup {s} ELSE inbox[x]
  BY <1>2
<1>4. ASSUME NEW x \in Agents, Unfiltered(x) PROVE inbox'[x] = {}
  <2>1. link[x][a] # "live" /\ inbox[x] = {}
    BY <1>4 DEF Unfiltered
  <2> QED BY <1>3, <2>1
<1> QED BY <1>1, <1>3, <1>4

\* Publishing, with nothing else but the command going on.
LEMMA PublishKept ==
  ASSUME TypeOK, WireInv, NEW a \in Agents, NEW kind, NEW to, Publish(a, kind, to),
         UNCHANGED <<leaves, refs, link, acked, todo>>,
         \A x, y \in Agents : view'[x][y] > 0 => view[x][y] > 0,
         \A x \in Agents : pc'[x] = "connecting" =>
            pc[x] = "connecting" /\ group'[x] = group[x],
         \A x \in Agents : pc'[x] = "notify" =>
            \/ pc[x] = "notify" /\ group'[x] = group[x]
            \/ Members(group'[x].view) \subseteq acked[x]
  PROVE  WireInv'
<1>1. FilterInv'
  <2> SUFFICES ASSUME NEW x \in Agents, leaves'[x] = 0, refs'[x] = 0
               PROVE  Unfiltered(x)'
    BY DEF FilterInv
  <2>1. Unfiltered(x)
    BY DEF WireInv, FilterInv
  <2>2. inbox'[x] = {}
    BY <2>1, PublishWire
  <2> QED BY <2>1, <2>2 DEF Unfiltered, Members
<1>2. HeardInv'
  <2> SUFFICES ASSUME NEW j \in Agents, NEW m \in Agents,
                      leaves[j] = 0, leaves[m] = 0, Heard(m, j)'
               PROVE  link[m][j] = "live"
    BY DEF HeardInv
  <2>1. Heard(m, j) \/ link[m][j] = "live"
    <3>1. CASE m \in acked'[j]
      BY <3>1 DEF Heard
    <3>2. CASE \E s \in inbox'[m] : s.from = j
      <4> PICK s \in inbox'[m] : s.from = j
        BY <3>2
      <4>1. s \in inbox[m] \/ (s.from = a /\ link[m][a] = "live")
        BY PublishWire
      <4> QED BY <4>1 DEF Heard
    <3> QED BY <3>1, <3>2 DEF Heard
  <2> QED BY <2>1 DEF WireInv, HeardInv
<1>3. NotifyInv'
  BY DEF WireInv, NotifyInv, Members
<1> QED BY <1>1, <1>2, <1>3 DEF WireInv

\* No step takes the filter or the link from an agent that heard of another,
\* and none announces a joiner before all members heard of it.
LEMMA WireStep ==
  TypeOK /\ CallInv /\ InactiveInv /\ SubscribeAwaited /\ WireInv /\ [Next]_vars => WireInv'
<1> SUFFICES ASSUME TypeOK, CallInv, InactiveInv, SubscribeAwaited, WireInv, [Next]_vars
             PROVE  WireInv'
  OBVIOUS
<1> USE DEF storeVars, callVars, serveVars, netVars, faultVars
<1>0. \A x \in Agents : leaves[x] \in Nat
  BY DEF TypeOK
<1>1. ASSUME NEW a \in Agents, Create(a) PROVE WireInv'
  <2>1. \A x, y \in Agents : view'[x][y] > 0 => view[x][y] > 0 \/ y = x
    BY <1>1 DEF Create, TypeOK, View
  <2> QED BY <1>1, <2>1, WireKept DEF Create
<1>2. ASSUME NEW a \in Agents, NEW b \in Agents, StartJoin(a, b) PROVE WireInv'
  BY <1>2, WireKept DEF StartJoin, TypeOK
<1>3. ASSUME NEW a \in Agents, StartLeave(a) PROVE WireInv'
  <2>1. /\ leaves'[a] > 0
        /\ \A x \in Agents : x # a => /\ leaves'[x] = leaves[x]
                                      /\ refs'[x] = refs[x] /\ link'[x] = link[x]
        /\ UNCHANGED <<acked, inbox, view, group, todo>>
    BY <1>3 DEF StartLeave, TypeOK, Closed
  <2>2. \A x \in Agents : /\ pc'[x] = "connecting" => pc[x] = "connecting"
                          /\ pc'[x] = "notify" => pc[x] = "notify"
    BY <1>3 DEF StartLeave, MayCommand, TypeOK
  <2>3. FilterInv'
    BY <2>1, <2>2 DEF WireInv, FilterInv, Unfiltered, Members
  <2>4. HeardInv'
    BY <2>1 DEF WireInv, HeardInv, Heard
  <2>5. NotifyInv'
    BY <2>1, <2>2 DEF WireInv, NotifyInv, Members
  <2> QED BY <2>3, <2>4, <2>5 DEF WireInv
<1>4. ASSUME NEW a \in Agents, StartSubscribing(a) PROVE WireInv'
  BY <1>4, WireKept DEF StartSubscribing, TypeOK
<1>5. ASSUME NEW a \in Agents, AcceptOneself(a) PROVE WireInv'
  BY <1>5, WireKept DEF AcceptOneself
<1>6. ASSUME NEW a \in Agents, StartConnecting(a) PROVE WireInv'
  <2>1. \A x \in Agents : pc'[x] = "connecting" =>
            \/ pc[x] = "connecting" /\ group'[x] = group[x] /\ todo'[x] = todo[x]
            \/ todo'[x] = Members(group'[x].view)
    BY <1>6 DEF StartConnecting, TypeOK, Members
  <2>2. \A x \in Agents : pc'[x] = "notify" => pc[x] = "notify" /\ group'[x] = group[x]
    BY <1>6 DEF StartConnecting, TypeOK
  <2> QED BY <1>6, <2>1, <2>2, WireKept DEF StartConnecting
<1>7. ASSUME NEW a \in Agents, NEW m \in Agents, ConnectMember(a, m) PROVE WireInv'
  <2>1. CASE wedged[a]
    BY <1>7, <2>1, WireKept DEF ConnectMember, TypeOK
  <2>2. CASE ~wedged[a]
    <3>1. \A x \in Agents : x # a => todo'[x] = todo[x]
      BY <1>7, <2>2 DEF ConnectMember, TypeOK
    <3> QED BY <1>7, <2>2, <3>1, ConnectWire DEF ConnectMember
  <2> QED BY <2>1, <2>2
<1>8. ASSUME NEW a \in Agents, FinishVerify(a) PROVE WireInv'
  <2>1. CASE Return(a) /\ view' = view
    <3>1. \A x \in Agents : pc'[x] \in {"connecting", "notify"} =>
             pc'[x] = pc[x] /\ group'[x] = group[x] /\ todo'[x] = todo[x]
      BY <1>8, <2>1 DEF FinishVerify, Return, TypeOK
    <3> QED BY <1>8, <2>1, <3>1, WireKept DEF FinishVerify
  <2>2. CASE pc' = [pc EXCEPT ![a] = "hello"]
    <3>1. /\ pc[a] = "connecting" /\ todo[a] = {}
          /\ UNCHANGED <<leaves, refs, link, acked, inbox, group, todo>>
      BY <1>8, <2>2 DEF FinishVerify, Return, TypeOK
    <3>2. \A x \in Agents : pc'[x] \in {"connecting", "notify"} => pc'[x] = pc[x]
      BY <2>2 DEF TypeOK
    <3>3. \A x, y \in Agents :
             view'[x][y] > 0 => \/ view[x][y] > 0 \/ y = x
                                \/ x = a /\ group[a].view[y] > 0
      BY <1>8 DEF FinishVerify, TypeOK
    <3>4. FilterInv'
      <4> SUFFICES ASSUME NEW x \in Agents, leaves'[x] = 0, refs'[x] = 0
                   PROVE  Unfiltered(x)'
        BY DEF FilterInv
      <4>1. Unfiltered(x)
        BY <3>1 DEF WireInv, FilterInv
      <4>2. x = a => Members(group[a].view) = {}
        BY <3>1, <4>1 DEF Unfiltered
      <4>3. \A y \in Agents : view'[x][y] > 0 => y = x
        BY <3>3, <4>1, <4>2 DEF Unfiltered, Members
      <4> QED BY <3>1, <3>2, <4>1, <4>3 DEF Unfiltered, Members
    <3>5. HeardInv'
      BY <3>1 DEF WireInv, HeardInv, Heard
    <3>6. NotifyInv'
      BY <3>1, <3>2 DEF WireInv, NotifyInv, Members
    <3> QED BY <3>4, <3>5, <3>6 DEF WireInv
  <2> QED BY <1>8, <2>1, <2>2 DEF FinishVerify
<1>9. ASSUME NEW a \in Agents, SayHello(a) PROVE WireInv'
  <2>1. \A x \in Agents :
           /\ pc'[x] = "connecting" => pc[x] = "connecting"
           /\ pc'[x] = "notify" => pc[x] = "notify" \/ (x = a /\ AllConnected(a))
    BY <1>9 DEF SayHello, TypeOK
  <2> QED BY <1>9, <2>1, PublishKept DEF SayHello, AllConnected
<1>10. ASSUME NEW a \in Agents, NotifyActive(a) PROVE WireInv'
  <2>1. \A x \in Agents : pc'[x] \in {"connecting", "notify"} =>
                          pc'[x] = pc[x] /\ group'[x] = group[x]
    BY <1>10 DEF NotifyActive, Return, TypeOK
  <2> QED BY <1>10, <2>1, PublishKept DEF NotifyActive
<1>11. ASSUME NEW a \in Agents, FinishLeave(a) PROVE WireInv'
  <2>1. /\ UNCHANGED <<leaves, refs, link, acked, todo, group>>
        /\ \A x \in Agents : pc'[x] \in {"connecting", "notify"} => pc'[x] = pc[x]
    BY <1>11 DEF FinishLeave, TypeOK
  <2>2. CASE UNCHANGED <<view, inbox>>
    BY <2>1, <2>2, WireKept
  <2>3. CASE /\ Publish(a, "inactive", Members(view[a]) \ {a})
             /\ view' = [view EXCEPT ![a] = Empty]
    <3>1. \A x, y \in Agents : view'[x][y] > 0 => view[x][y] > 0
      BY <2>3 DEF TypeOK, Empty
    <3> QED BY <2>1, <2>3, <3>1, PublishKept
  <2> QED BY <1>11, <2>2, <2>3 DEF FinishLeave
<1>12. ASSUME NEW b \in Agents, NEW j \in Agents, TakeJoin(b, j) \/ TakeSubscribe(b, j)
       PROVE  WireInv'
  BY <1>12, WireKept DEF TakeJoin, TakeSubscribe
<1>13. ASSUME NEW b \in Agents, NEW j \in Agents, AnswerJoin(b, j) PROVE WireInv'
  <2>1. pc[j] = "request"
    BY <1>13 DEF AnswerJoin, CallInv, JoinAwaited
  <2>2. \A x \in Agents : pc'[x] \in {"connecting", "notify"} =>
           pc'[x] = pc[x] /\ group'[x] = group[x] /\ todo'[x] = todo[x]
    <3>1. CASE UNCHANGED <<pc, group>>
      BY <1>13, <3>1 DEF AnswerJoin
    <3>2. CASE /\ pc' = [pc EXCEPT ![j] = "accepted"]
               /\ group' = [group EXCEPT ![j] = [view |-> view[b], params |-> params[b]]]
      BY <1>13, <3>2 DEF AnswerJoin, TypeOK
    <3> QED BY <1>13, <3>1, <3>2 DEF AnswerJoin
  <2> QED BY <1>13, <2>2, WireKept DEF AnswerJoin
<1>14. ASSUME NEW b \in Agents, NEW j \in Agents, AnswerSubscribe(b, j) PROVE WireInv'
  <2>1. pc[j] = "subscribing" /\ UNCHANGED <<pc, group>>
    BY <1>14 DEF AnswerSubscribe, SubscribeAwaited
  <2>2. \A x \in Agents : x # j => todo'[x] = todo[x]
    BY <1>14 DEF AnswerSubscribe, TypeOK
  <2> QED BY <1>14, <2>1, <2>2, WireKept DEF AnswerSubscribe
<1>15. ASSUME NEW b \in Agents, NEW r \in conning[b], ConnectSubscriber(b, r) PROVE WireInv'
  <2>1. r[1] \in Agents
    BY DEF TypeOK
  <2> QED BY <1>15, <2>1, ConnectWire DEF ConnectSubscriber
<1>16. ASSUME NEW b \in Agents, NEW r \in adding[b], AddSubscriber(b, r) PROVE WireInv'
  BY <1>16, WireKept DEF AddSubscriber
<1>17. ASSUME NEW b \in Agents, NEW s \in inbox[b], AnswerHello(b, s) PROVE WireInv'
  <2>1. /\ UNCHANGED <<view, pc, group, todo, leaves, link, refs>>
        /\ \A x \in Agents : inbox'[x] \subseteq inbox[x]
    BY <1>17 DEF AnswerHello, Take, TypeOK
  <2>2. \A x \in Agents : acked'[x] = IF x = s.from THEN acked[x] \cup {b} ELSE acked[x]
    BY <1>17 DEF AnswerHello, TypeOK
  <2>3. FilterInv'
    BY <2>1 DEF WireInv, FilterInv, Unfiltered, Members
  <2>4. HeardInv'
    <3>1. ASSUME NEW m \in Agents, NEW j \in Agents, Heard(m, j)' PROVE Heard(m, j)
      <4>1. CASE \E t \in inbox'[m] : t.from = j
        BY <2>1, <4>1 DEF Heard
      <4>2. CASE m \in acked'[j]
        BY <2>2, <4>2 DEF Heard
      <4> QED BY <3>1, <4>1, <4>2 DEF Heard
    <3> QED BY <2>1, <3>1 DEF WireInv, HeardInv
  <2>5. NotifyInv'
    BY <2>1, <2>2 DEF WireInv, NotifyInv, Members
  <2> QED BY <2>3, <2>4, <2>5 DEF WireInv
<1>18. ASSUME NEW b \in Agents, NEW s \in inbox[b], AddMember(b, s) PROVE WireInv'
  <2>1. /\ UNCHANGED <<pc, group, todo, leaves, link, refs, acked>>
        /\ \A x \in Agents : inbox'[x] \subseteq inbox[x]
        /\ \A x \in Agents : x # b => view'[x] = view[x]
    BY <1>18 DEF AddMember, Take, TypeOK
  <2>2. FilterInv'
    <3> SUFFICES ASSUME NEW x \in Agents, leaves[x] = 0, refs[x] = 0
                 PROVE  Unfiltered(x)'
      BY <2>1 DEF FilterInv
    <3>1. Unfiltered(x)
      BY DEF WireInv, FilterInv
    <3>2. x # b
      BY <3>1 DEF Unfiltered
    <3> QED BY <2>1, <3>1, <3>2 DEF Unfiltered, Members
  <2>3. HeardInv'
    BY <2>1 DEF WireInv, HeardInv, Heard
  <2>4. NotifyInv'
    BY <2>1 DEF WireInv, NotifyInv, Members
  <2> QED BY <2>2, <2>3, <2>4 DEF WireInv
<1>19. ASSUME NEW b \in Agents, NEW s \in inbox[b], RemoveMember(b, s) PROVE WireInv'
  <2>1. /\ UNCHANGED <<pc, group, todo, leaves, refs, acked>>
        /\ \A x \in Agents : inbox'[x] \subseteq inbox[x]
    BY <1>19 DEF RemoveMember, Take, TypeOK
  <2>2. \A x, y \in Agents : view'[x][y] > 0 => view[x][y] > 0
    <3>1. CASE UNCHANGED view
      BY <3>1
    <3>2. CASE Forget(b, s.from)
      <4>1. \A x \in Agents : x # b => view'[x] = view[x]
        BY <3>2 DEF Forget, TypeOK
      <4>2. view'[b] = [view[b] EXCEPT ![s.from] = 0]
        BY <3>2 DEF Forget, TypeOK
      <4>3. \A y \in Agents : view'[b][y] = 0 \/ view'[b][y] = view[b][y]
        BY <4>2 DEF TypeOK, View
      <4> QED BY <4>1, <4>3
    <3> QED BY <1>19, <3>1, <3>2 DEF RemoveMember
  <2>3. leaves[s.from] > 0
    BY <1>19 DEF RemoveMember, InactiveInv, LeaverSpoke
  <2>4. CASE link' = link
    BY <2>1, <2>2, <2>4, WireKept
  <2>5. CASE link' = Closed(b, {s.from}, refs[b]) /\ link[b][s.from] # "none"
    <3>1. s.from \in Agents
      BY DEF TypeOK, Status
    <3>2. leaves[b] = 0 => refs[b] # 0
      BY <2>5, <3>1 DEF WireInv, FilterInv, Unfiltered
    <3>3. \A x, y \in Agents :
             /\ link[x][y] = "none" => link'[x][y] = "none"
             /\ leaves[x] = 0 /\ leaves[y] = 0 => link'[x][y] = link[x][y]
      <4>1. \A x \in Agents : x # b => link'[x] = link[x]
        BY <2>5 DEF Closed, TypeOK
      <4>2. \A y \in Agents : link'[b][y] =
               IF y \in {s.from} THEN "none"
               ELSE IF refs[b] = 0 /\ link[b][y] = "live" THEN "pending" ELSE link[b][y]
        BY <2>5 DEF Closed, TypeOK
      <4> QED BY <2>3, <3>2, <4>1, <4>2
    <3>4. FilterInv'
      BY <2>1, <2>2, <3>3 DEF WireInv, FilterInv, Unfiltered, Members
    <3>5. HeardInv'
      BY <2>1, <3>3 DEF WireInv, HeardInv, Heard
    <3>6. NotifyInv'
      BY <2>1 DEF WireInv, NotifyInv, Members
    <3> QED BY <3>4, <3>5, <3>6 DEF WireInv
  <2> QED BY <1>19, <2>4, <2>5 DEF RemoveMember
<1>20. ASSUME NEW a \in Agents, NEW b \in Agents, GoLive(a, b) PROVE WireInv'
  <2>1. /\ UNCHANGED <<view, pc, group, todo, leaves, refs, inbox, acked>>
        /\ refs[a] > 0
        /\ \A x, y \in Agents : link'[x][y] = link[x][y] \/ (x = a /\ link'[x][y] = "live")
    BY <1>20 DEF GoLive, TypeOK
  <2>2. FilterInv'
    BY <2>1 DEF WireInv, FilterInv, Unfiltered, Members
  <2>3. HeardInv'
    BY <2>1 DEF WireInv, HeardInv, Heard
  <2>4. NotifyInv'
    BY <2>1 DEF WireInv, NotifyInv, Members
  <2> QED BY <2>2, <2>3, <2>4 DEF WireInv
<1>21. ASSUME NEW b \in Agents, NEW s \in inbox[b], LoseStatus(b, s) PROVE WireInv'
  BY <1>21, WireKept DEF LoseStatus, Take, TypeOK
<1>22. CASE UNCHANGED vars
  BY <1>22, WireKept DEF vars
<1> QED
  BY <1>1, <1>2, <1>3, <1>4, <1>5, <1>6, <1>7, <1>8, <1>9, <1>10, <1>11, <1>12,
     <1>13, <1>14, <1>15, <1>16, <1>17, <1>18, <1>19, <1>20, <1>21, <1>22
  DEF Next, Command, Progress, Serving, Handling

\* The sockets' invariant on top of all that holds of views and calls.
LEMMA WireInvAlways == Spec => [](GroupInv /\ SubscribeAwaited /\ WireInv)
<1>1. Init => SubscribeAwaited /\ WireInv
  <2> SUFFICES ASSUME Init PROVE SubscribeAwaited /\ WireInv
    OBVIOUS
  <2>1. SubscribeAwaited
    BY SubscribeRecord DEF Init, SubscribeAwaited
  <2>2. FilterInv
    BY DEF Init, FilterInv, Unfiltered, Empty
  <2>3. HeardInv /\ NotifyInv
    BY DEF Init, HeardInv, Heard, NotifyInv
  <2> QED BY <2>1, <2>2, <2>3 DEF WireInv
<1>2. GroupInv /\ SubscribeAwaited /\ WireInv /\ [Next]_vars
        => SubscribeAwaited' /\ WireInv'
  BY SubscribeStep, WireStep DEF GroupInv
<1> QED
  BY <1>1, <1>2, GroupInvAlways, PTL DEF Spec

\* subscribeStatus of zmq.go may skip the filter when topicExists: an agent
\* that never left and holds a connection has the state topic subscribed, so
\* the second member stored is never the first one without a filter.
THEOREM FilterIsSetAlways == Spec => []FilterIsSet
<1>1. GroupInv /\ WireInv => FilterIsSet
  <2> SUFFICES ASSUME GroupInv, WireInv, NEW a \in Agents, NEW b \in Agents,
                      link[a][b] # "none", leaves[a] = 0
               PROVE  refs[a] > 0
    BY DEF FilterIsSet
  <2>1. refs[a] # 0
    BY DEF WireInv, FilterInv, Unfiltered
  <2> QED BY <2>1 DEF GroupInv, TypeOK
<1> QED BY <1>1, WireInvAlways, PTL

\* The hello protocol of waitForConns keeps its promise: when a joiner
\* publishes its active status, the link of every member of the group it
\* received is live, so the PUB socket drops none of the statuses, whatever
\* joins and leaves go on at the same time.
THEOREM HelloGuaranteeAlways == Spec => []HelloGuarantee
<1>1. WireInv => HelloGuarantee
  BY DEF WireInv, NotifyInv, HeardInv, Heard, HelloGuarantee
<1> QED BY <1>1, WireInvAlways, PTL

-----------------------------------------------------------------------------
(* While nobody leaves, nothing learnt is lost.                             *)

NobodyLeft == \A a \in Agents : leaves[a] = 0
AllStay == GroupInv /\ SubscribeAwaited /\ WireInv /\ NobodyLeft

\* The call that made a record has a number, and is the last one or before.
EnteredCalls ==
  \A a \in Agents, n \in 0..MaxCalls : <<a, n>> \in entered => n # 0 /\ n <= calls[a]

\* The data connections of a to b are made, or are about to be.
Adds(a, b) == b \in subs[a] \/ \E r \in conning[a] \cup adding[a] : r[1] = b

\* Who lists another is connected to it; a publisher sends to it as well.
Connects ==
  \A a, b \in Agents : view[a][b] > 0 /\ a # b =>
     link[a][b] # "none" /\ (a \in Publishers => Adds(a, b))
ConnectsSoFar ==
  \A j \in Agents : pc[j] = "connecting" => \A m \in Members(group[j].view) \ todo[j] :
     link[j][m] # "none" /\ (j \in Publishers => m \in subs[j])

\* An active status goes to agents its sender lists.
ActiveSent ==
  \A a \in Agents : \A s \in inbox[a] : s.kind = "active" => view[s.from][a] > 0

\* Who is listed knows who lists it, or will be told.
Tells(a, b) ==
  \/ view[b][a] > 0
  \/ \E s \in inbox[b] : s.kind = "active" /\ s.from = a
  \/ pc[a] \in {"hello", "notify"} /\ b \in Members(group[a].view)
ToldInv == \A a, b \in Agents : view[a][b] > 0 /\ a # b => Tells(a, b)

\* Whoever answered a subscription, or is listed, sends to the subscriber.
AddsInv ==
  \A a, b \in Agents : a # b =>
     /\ pc[b] = "subscribing" /\ a \in Members(group[b].view) \ todo[b] => Adds(a, b)
     /\ pc[b] = "connecting" /\ a \in Members(group[b].view) => Adds(a, b)
     /\ view[b][a] > 0 => view[a][b] > 0 \/ Adds(a, b)

JoinInv == Connects /\ ConnectsSoFar /\ ActiveSent /\ ToldInv /\ AddsInv

\* Nothing goes wrong and no status is inactive or without a live link.
LEMMA AllWell ==
  ASSUME AllStay, NEW a \in Agents
  PROVE  /\ up[a] /\ ~wedged[a] /\ pc[a] # "leaving"
         /\ \A s \in inbox[a] : /\ s.kind # "inactive" /\ s.from \in Agents
                                /\ link[a][s.from] = "live"
<1> USE DEF AllStay, GroupInv
<1>1. up[a] /\ ~wedged[a]
  BY DEF NobodyLeft, OnlyLeaversFail
<1>2. pc[a] # "leaving"
  BY DEF NobodyLeft, CallInv, CallFacts
<1>3. ASSUME NEW s \in inbox[a]
      PROVE  s.kind # "inactive" /\ s.from \in Agents /\ link[a][s.from] = "live"
  <2>1. s.from \in Agents
    BY DEF TypeOK, Status
  <2>2. s.kind # "inactive"
    BY <2>1 DEF NobodyLeft, InactiveInv, LeaverSpoke
  <2>3. Heard(a, s.from)
    BY DEF Heard
  <2> QED BY <2>1, <2>2, <2>3 DEF NobodyLeft, WireInv, HeardInv
<1> QED BY <1>1, <1>2, <1>3

\* The steps of leaving are not taken, and no status is lost.
LEMMA NoneLeaves ==
  ASSUME AllStay, NobodyLeft', NEW a \in Agents
  PROVE  /\ ~StartLeave(a) /\ ~FinishLeave(a)
         /\ \A s \in inbox[a] : ~RemoveMember(a, s) /\ ~LoseStatus(a, s)
<1>1. StartLeave(a) => leaves'[a] = leaves[a] + 1
  BY DEF StartLeave, AllStay, GroupInv, TypeOK
<1>2. leaves[a] = 0 /\ leaves'[a] = 0
  BY DEF AllStay, NobodyLeft
<1>3. ~StartLeave(a)
  BY <1>1, <1>2
<1> QED BY <1>3, AllWell DEF FinishLeave, RemoveMember, LoseStatus

\* A Join that gets to store itself has a call number, and so has a Create.
LEMMA EnteredCallsStep ==
  TypeOK /\ CallInv /\ EnteredCalls /\ [Next]_vars => EnteredCalls'
<1> SUFFICES ASSUME TypeOK, CallInv, EnteredCalls, [Next]_vars PROVE EnteredCalls'
  OBVIOUS
<1> USE DEF storeVars, callVars, serveVars, netVars, faultVars
<1>0. \A x \in Agents : calls[x] \in Nat
  BY DEF TypeOK
<1>1. ASSUME UNCHANGED <<entered, calls>> PROVE EnteredCalls'
  BY <1>1 DEF EnteredCalls
<1>2. ASSUME NEW a \in Agents, Create(a) PROVE EnteredCalls'
  <2>1. /\ entered' = entered \cup {<<a, calls'[a]>>} /\ calls'[a] = calls[a] + 1
        /\ \A x \in Agents : calls[x] <= calls'[x] /\ calls'[x] \in Nat
    BY <1>0, <1>2 DEF Create, TypeOK
  <2>2. \A x \in Agents, n \in 0..MaxCalls :
           <<x, n>> \in entered' => <<x, n>> \in entered \/ (x = a /\ n = calls'[a])
    BY <2>1
  <2> QED BY <1>0, <2>1, <2>2 DEF EnteredCalls
<1>3. ASSUME NEW a \in Agents, NEW b \in Agents, StartJoin(a, b) PROVE EnteredCalls'
  <2>1. /\ entered' = entered
        /\ \A x \in Agents : calls[x] <= calls'[x] /\ calls'[x] \in Nat
    BY <1>0, <1>3 DEF StartJoin, TypeOK
  <2> QED BY <1>0, <2>1 DEF EnteredCalls
<1>4. ASSUME NEW a \in Agents, FinishVerify(a) PROVE EnteredCalls'
  <2>1. calls[a] # 0 /\ calls' = calls
    BY <1>4 DEF FinishVerify, CallInv, CallFacts
  <2>2. entered' = entered \/ entered' = entered \cup {<<a, calls[a]>>}
    BY <1>4 DEF FinishVerify
  <2>3. \A x \in Agents, n \in 0..MaxCalls :
           <<x, n>> \in entered' => <<x, n>> \in entered \/ (x = a /\ n = calls[a])
    BY <2>2
  <2> QED BY <1>0, <2>1, <2>3 DEF EnteredCalls
<1>5. ASSUME NEW a \in Agents, Command(a) PROVE EnteredCalls'
  BY <1>1, <1>2, <1>3, <1>5 DEF Command, StartLeave
<1>6. ASSUME NEW a \in Agents, Progress(a) PROVE EnteredCalls'
  BY <1>1, <1>4, <1>6 DEF Progress, StartSubscribing, AcceptOneself, StartConnecting,
     ConnectMember, SayHello, NotifyActive, FinishLeave
<1>7. ASSUME NEW b \in Agents, Serving(b) PROVE EnteredCalls'
  BY <1>1, <1>7 DEF Serving, TakeJoin, AnswerJoin, TakeSubscribe, AnswerSubscribe,
     ConnectSubscriber, AddSubscriber
<1>8. ASSUME NEW b \in Agents, NEW a \in Agents, Handling(b, a) PROVE EnteredCalls'
  BY <1>1, <1>8 DEF Handling, AnswerHello, AddMember, RemoveMember
<1>9. ASSUME NEW a \in Agents, NEW b \in Agents, GoLive(a, b) PROVE EnteredCalls'
  BY <1>1, <1>9 DEF GoLive
<1>10. ASSUME NEW a \in Agents, NEW s \in inbox[a], LoseStatus(a, s) PROVE EnteredCalls'
  BY <1>1, <1>10 DEF LoseStatus
<1>11. CASE UNCHANGED vars
  BY <1>1, <1>11 DEF vars
<1> QED BY <1>5, <1>6, <1>7, <1>8, <1>9, <1>10, <1>11 DEF Next

-----------------------------------------------------------------------------
(* What a step does to the views, the links, the subscribers, the statuses  *)
(* and the commands while nobody leaves.                                    *)

\* x stores the group it received, with y in it.
Stores(x, y) ==
  /\ pc[x] = "connecting" /\ todo[x] = {} /\ y \in Members(group[x].view)
  /\ pc'[x] = "hello" /\ group'[x] = group[x]

LEMMA ViewStep ==
  ASSUME AllStay, NobodyLeft', EnteredCalls, [Next]_vars,
         NEW x \in Agents, NEW y \in Agents
  PROVE  /\ view[x][y] > 0 => view'[x][y] > 0
         /\ view'[x][y] > 0 => \/ view[x][y] > 0 \/ y = x \/ Stores(x, y)
                               \/ \E s \in inbox[x] : s.kind = "active" /\ s.from = y
<1> DEFINE Grows == /\ view[x][y] > 0 => view'[x][y] > 0
                    /\ view'[x][y] > 0 =>
                          \/ view[x][y] > 0 \/ y = x \/ Stores(x, y)
                          \/ \E s \in inbox[x] : s.kind = "active" /\ s.from = y
<1> USE DEF storeVars, callVars, serveVars, netVars, faultVars
<1>0. TypeOK
  BY DEF AllStay, GroupInv
<1>1. ASSUME NEW a \in Agents, Create(a) PROVE Grows
  <2>1. calls'[a] > 0
    BY <1>0, <1>1 DEF Create, TypeOK
  <2>2. view' = [view EXCEPT ![a][a] = calls'[a]]
    BY <1>1 DEF Create
  <2>3. view'[x][y] = IF x = a /\ y = a THEN calls'[a] ELSE view[x][y]
    BY <1>0, <2>2 DEF TypeOK, View
  <2> QED BY <2>1, <2>3
<1>2. ASSUME NEW a \in Agents, FinishVerify(a) PROVE Grows
  <2>1. CASE view' = view
    BY <2>1
  <2>2. CASE /\ pc' = [pc EXCEPT ![a] = "hello"] /\ group' = group
             /\ view' = [view EXCEPT ![a] = [m \in Agents |->
                  IF m = a THEN calls[a]
                  ELSE IF group[a].view[m] > 0 THEN group[a].view[m] ELSE @[m]]]
    <3>1. pc[a] = "connecting" /\ todo[a] = {} /\ calls[a] > 0
      BY <1>2 DEF FinishVerify, AllStay, GroupInv, CallInv, CallFacts
    <3>2. x # a => view'[x] = view[x]
      BY <1>0, <2>2 DEF TypeOK
    <3>3. x = a => view'[x] = [m \in Agents |->
                  IF m = a THEN calls[a]
                  ELSE IF group[a].view[m] > 0 THEN group[a].view[m] ELSE view[a][m]]
      BY <1>0, <2>2 DEF TypeOK
    <3>4. x = a => view'[x][y] =
                  IF y = a THEN calls[a]
                  ELSE IF group[a].view[y] > 0 THEN group[a].view[y] ELSE view[a][y]
      BY <3>3
    <3>5. x = a => pc'[x] = "hello"
      BY <1>0, <2>2 DEF TypeOK
    <3>6. CASE x # a
      BY <3>2, <3>6
    <3>7. CASE x = a
      BY <2>2, <3>1, <3>4, <3>5, <3>7 DEF Stores, Members
    <3> QED BY <3>6, <3>7
  <2> QED BY <1>2, <2>1, <2>2 DEF FinishVerify
<1>3. ASSUME NEW b \in Agents, NEW s \in inbox[b], AddMember(b, s) PROVE Grows
  <2>1. s.kind = "active" /\ view' = [view EXCEPT ![b][s.from] = s.call]
    BY <1>3 DEF AddMember
  <2>2. s.from \in Agents /\ s.call \in 0..MaxCalls /\ s.call \in Nat
    BY <1>0, ConstantsAssumption DEF TypeOK, Status
  <2>3. s.call # 0
    BY <2>1, <2>2 DEF AllStay, GroupInv, EnteredInv, StatusEntered, EnteredCalls
  <2>4. view'[x][y] = IF x = b /\ y = s.from THEN s.call ELSE view[x][y]
    BY <1>0, <2>1, <2>2 DEF TypeOK, View
  <2> QED BY <2>1, <2>2, <2>3, <2>4
<1>4. ASSUME NEW a \in Agents, Command(a) PROVE Grows
  BY <1>1, <1>4 DEF Command, StartJoin, StartLeave
<1>5. ASSUME NEW a \in Agents, Progress(a) PROVE Grows
  BY <1>2, <1>5, NoneLeaves DEF Progress, StartSubscribing, AcceptOneself, StartConnecting,
     ConnectMember, SayHello, NotifyActive
<1>6. ASSUME NEW b \in Agents, Serving(b) PROVE Grows
  BY <1>6 DEF Serving, TakeJoin, AnswerJoin, TakeSubscribe, AnswerSubscribe,
     ConnectSubscriber, AddSubscriber
<1>7. ASSUME NEW b \in Agents, NEW a \in Agents, Handling(b, a) PROVE Grows
  BY <1>3, <1>7, NoneLeaves DEF Handling, AnswerHello
<1>8. ASSUME NEW a \in Agents, NEW b \in Agents, GoLive(a, b) PROVE Grows
  BY <1>8 DEF GoLive
<1>9. ASSUME NEW a \in Agents, NEW s \in inbox[a], LoseStatus(a, s) PROVE Grows
  BY <1>9 DEF LoseStatus
<1>10. CASE UNCHANGED vars
  BY <1>10 DEF vars
<1> QED BY <1>4, <1>5, <1>6, <1>7, <1>8, <1>9, <1>10 DEF Next

\* A link once asked for stays.
LEMMA LinkStep ==
  ASSUME AllStay, NobodyLeft', [Next]_vars, NEW x \in Agents, NEW y \in Agents,
         link[x][y] # "none"
  PROVE  link'[x][y] # "none"
<1> USE DEF storeVars, callVars, serveVars, netVars, faultVars
<1>0. TypeOK
  BY DEF AllStay, GroupInv
<1>1. ASSUME NEW a \in Agents, NEW b \in Agents, Connect(a, b) PROVE link'[x][y] # "none"
  <2>1. link'[x][y] = IF x = a /\ y = b /\ link[a][b] = "none" THEN "pending" ELSE link[x][y]
    BY <1>0, <1>1 DEF Connect, TypeOK
  <2> QED BY <2>1
<1>2. ASSUME NEW a \in Agents, NEW b \in Agents, GoLive(a, b) PROVE link'[x][y] # "none"
  <2>1. link'[x][y] = IF x = a /\ y = b THEN "live" ELSE link[x][y]
    BY <1>0, <1>2 DEF GoLive, TypeOK
  <2> QED BY <2>1
<1>3. ASSUME NEW a \in Agents, Command(a) PROVE link'[x][y] # "none"
  BY <1>3, NoneLeaves DEF Command, Create, StartJoin
<1>4. ASSUME NEW a \in Agents, Progress(a) PROVE link'[x][y] # "none"
  BY <1>1, <1>4, NoneLeaves DEF Progress, StartSubscribing, AcceptOneself, StartConnecting,
     ConnectMember, FinishVerify, SayHello, NotifyActive
<1>5. ASSUME NEW b \in Agents, NEW r \in conning[b], ConnectSubscriber(b, r)
      PROVE  link'[x][y] # "none"
  <2>1. r[1] \in Agents
    BY <1>0 DEF TypeOK
  <2> QED BY <1>1, <1>5, <2>1 DEF ConnectSubscriber
<1>6. ASSUME NEW b \in Agents, Serving(b) PROVE link'[x][y] # "none"
  BY <1>5, <1>6 DEF Serving, TakeJoin, AnswerJoin, TakeSubscribe, AnswerSubscribe,
     AddSubscriber
<1>7. ASSUME NEW b \in Agents, NEW a \in Agents, Handling(b, a) PROVE link'[x][y] # "none"
  BY <1>7, NoneLeaves DEF Handling, AnswerHello, AddMember
<1>8. ASSUME NEW a \in Agents, NEW s \in inbox[a], LoseStatus(a, s)
      PROVE  link'[x][y] # "none"
  BY <1>8 DEF LoseStatus
<1>9. CASE UNCHANGED vars
  BY <1>9 DEF vars
<1> QED BY <1>2, <1>3, <1>4, <1>6, <1>7, <1>8, <1>9 DEF Next

\* A subscriber stored stays, and one about to be stored is not forgotten.
LEMMA AddsStep ==
  ASSUME AllStay, NobodyLeft', GroupInv', [Next]_vars, NEW x \in Agents
  PROVE  /\ subs[x] \subseteq subs'[x]
         /\ \A y \in Agents : Adds(x, y) => Adds(x, y)'
<1> DEFINE Kept == /\ subs[x] \subseteq subs'[x]
                   /\ \A y \in Agents : Adds(x, y) => Adds(x, y)'
<1> USE DEF storeVars, callVars, serveVars, netVars, faultVars
<1>0. TypeOK /\ \A b \in Agents : up'[b] /\ ~wedged[b]
  <2>1. \A b \in Agents : up'[b]
    BY DEF NobodyLeft, GroupInv, OnlyLeaversFail
  <2> QED BY <2>1, AllWell DEF AllStay, GroupInv
<1>1. ASSUME UNCHANGED <<subs, conning, adding>> PROVE Kept
  BY <1>1 DEF Adds
<1>2. ASSUME NEW a \in Agents, NEW m \in Agents, ConnectMember(a, m) PROVE Kept
  <2>1. subs[x] \subseteq subs'[x] /\ UNCHANGED <<conning, adding>>
    BY <1>0, <1>2 DEF ConnectMember, TypeOK
  <2> QED BY <2>1 DEF Adds
<1>3. ASSUME NEW b \in Agents, NEW j \in Agents, AnswerSubscribe(b, j) PROVE Kept
  <2>1. conning[x] \subseteq conning'[x] /\ UNCHANGED <<subs, adding>>
    <3>1. \/ conning' = conning
          \/ conning' = [conning EXCEPT ![b] = conning[b] \cup {<<j, calls[j]>>}]
      BY <1>3 DEF AnswerSubscribe
    <3>2. conning[x] \subseteq conning'[x]
      <4> DEFINE C == conning[b] \cup {<<j, calls[j]>>}
      <4>1. conning[b] \subseteq C /\ (conning' = conning \/ conning' = [conning EXCEPT ![b] = C])
        BY <3>1
      <4>2. conning = [z \in Agents |-> conning[z]]
        BY <1>0 DEF TypeOK
      <4> HIDE DEF C
      <4> QED BY <4>1, <4>2
    <3> QED BY <1>3, <3>2 DEF AnswerSubscribe
  <2> QED BY <2>1 DEF Adds
<1>4. ASSUME NEW b \in Agents, NEW r \in conning[b], ConnectSubscriber(b, r) PROVE Kept
  <2>1. ~DataPanics(b, {r[1]})
    BY <1>0, <1>4 DEF ConnectSubscriber, Panic, TypeOK
  <2>2. adding' = [adding EXCEPT ![b] = adding[b] \cup {r}]
    BY <1>0, <1>4, <2>1 DEF ConnectSubscriber
  <2>3. conning' = [conning EXCEPT ![b] = conning[b] \ {r}] /\ subs' = subs
    BY <1>4 DEF ConnectSubscriber
  <2>4. conning[x] \cup adding[x] \subseteq conning'[x] \cup adding'[x]
    BY <1>0, <2>2, <2>3 DEF TypeOK
  <2> QED BY <2>3, <2>4 DEF Adds
<1>5. ASSUME NEW b \in Agents, NEW r \in adding[b], AddSubscriber(b, r) PROVE Kept
  <2>1. /\ conning' = conning /\ subs[x] \subseteq subs'[x]
        /\ \A q \in adding[x] : q \in adding'[x] \/ q[1] \in subs'[x]
    BY <1>0, <1>5 DEF AddSubscriber, TypeOK
  <2> QED BY <2>1 DEF Adds
<1>6. ASSUME NEW a \in Agents, Command(a) PROVE Kept
  BY <1>1, <1>6 DEF Command, Create, StartJoin, StartLeave
<1>7. ASSUME NEW a \in Agents, Progress(a) PROVE Kept
  BY <1>1, <1>2, <1>7, NoneLeaves DEF Progress, StartSubscribing, AcceptOneself, StartConnecting,
     FinishVerify, SayHello, NotifyActive
<1>8. ASSUME NEW b \in Agents, Serving(b) PROVE Kept
  BY <1>1, <1>3, <1>4, <1>5, <1>8 DEF Serving, TakeJoin, AnswerJoin, TakeSubscribe
<1>9. ASSUME NEW b \in Agents, NEW a \in Agents, Handling(b, a) PROVE Kept
  BY <1>1, <1>9, NoneLeaves DEF Handling, AnswerHello, AddMember
<1>10. ASSUME NEW a \in Agents, NEW b \in Agents, GoLive(a, b) PROVE Kept
  BY <1>1, <1>10 DEF GoLive
<1>11. ASSUME NEW a \in Agents, NEW s \in inbox[a], LoseStatus(a, s) PROVE Kept
  BY <1>1, <1>11 DEF LoseStatus
<1>12. CASE UNCHANGED vars
  BY <1>1, <1>12 DEF vars
<1> QED BY <1>6, <1>7, <1>8, <1>9, <1>10, <1>11, <1>12 DEF Next

\* An active status is taken by storing the record, and is sent to agents
\* that its sender lists.
LEMMA ActiveStep ==
  ASSUME AllStay, NobodyLeft', EnteredCalls, [Next]_vars, NEW x \in Agents
  PROVE  /\ \A s \in inbox[x] :
               s.kind = "active" => s \in inbox'[x] \/ view'[x][s.from] > 0
         /\ \A s \in inbox'[x] :
               s.kind = "active" => s \in inbox[x] \/ view[s.from][x] > 0
<1> DEFINE Told == /\ \A s \in inbox[x] :
                         s.kind = "active" => s \in inbox'[x] \/ view'[x][s.from] > 0
                   /\ \A s \in inbox'[x] :
                         s.kind = "active" => s \in inbox[x] \/ view[s.from][x] > 0
<1> USE DEF storeVars, callVars, serveVars, netVars, faultVars
<1>0. TypeOK /\ WireInv
  BY DEF AllStay, GroupInv
<1>1. ASSUME UNCHANGED inbox PROVE Told
  BY <1>1
<1>2. ASSUME NEW a \in Agents, SayHello(a) PROVE Told
  <2>1. Publish(a, "hello", Members(group[a].view))
    BY <1>2 DEF SayHello
  <2>2. \A s \in inbox'[x] : s \in inbox[x] \/ s.kind = "hello"
    BY <1>0, <2>1, PublishWire
  <2>3. inbox[x] \subseteq inbox'[x]
    BY <2>1 DEF Publish
  <2> QED BY <2>2, <2>3
<1>3. ASSUME NEW a \in Agents, NotifyActive(a) PROVE Told
  <2>1. Publish(a, "active", Members(view[a]) \ {a})
    BY <1>3 DEF NotifyActive
  <2>2. \A s \in inbox'[x] : s \in inbox[x] \/ (s.from = a /\ x \in Members(view[a]) \ {a})
    BY <1>0, <2>1, PublishWire
  <2>3. inbox[x] \subseteq inbox'[x]
    BY <2>1 DEF Publish
  <2> QED BY <2>2, <2>3 DEF Members
<1>4. ASSUME NEW b \in Agents, NEW s \in inbox[b], AnswerHello(b, s) PROVE Told
  <2>1. inbox' = [inbox EXCEPT ![b] = inbox[b] \ {s}] /\ s.kind = "hello"
    BY <1>4 DEF AnswerHello, Take
  <2> QED BY <1>0, <2>1 DEF TypeOK
<1>5. ASSUME NEW b \in Agents, NEW s \in inbox[b], AddMember(b, s) PROVE Told
  <2>1. /\ inbox' = [inbox EXCEPT ![b] = inbox[b] \ {s}] /\ s.kind = "active"
        /\ view' = [view EXCEPT ![b][s.from] = s.call]
    BY <1>5 DEF AddMember, Take
  <2>2. s.from \in Agents /\ s.call \in 0..MaxCalls /\ s.call \in Nat
    BY <1>0, ConstantsAssumption DEF TypeOK, Status
  <2>3. s.call # 0
    BY <2>1, <2>2 DEF AllStay, GroupInv, EnteredInv, StatusEntered, EnteredCalls
  <2>4. view'[b][s.from] = s.call
    BY <1>0, <2>1, <2>2 DEF TypeOK, View
  <2>5. inbox'[x] = IF x = b THEN inbox[b] \ {s} ELSE inbox[x]
    BY <1>0, <2>1 DEF TypeOK
  <2> QED BY <2>2, <2>3, <2>4, <2>5
<1>6. ASSUME NEW a \in Agents, Command(a) PROVE Told
  BY <1>1, <1>6, NoneLeaves DEF Command, Create, StartJoin
<1>7. ASSUME NEW a \in Agents, Progress(a) PROVE Told
  BY <1>1, <1>2, <1>3, <1>7, NoneLeaves DEF Progress, StartSubscribing, AcceptOneself,
     StartConnecting, ConnectMember, FinishVerify
<1>8. ASSUME NEW b \in Agents, Serving(b) PROVE Told
  BY <1>1, <1>8 DEF Serving, TakeJoin, AnswerJoin, TakeSubscribe, AnswerSubscribe,
     ConnectSubscriber, AddSubscriber
<1>9. ASSUME NEW b \in Agents, NEW a \in Agents, Handling(b, a) PROVE Told
  BY <1>4, <1>5, <1>9, NoneLeaves DEF Handling
<1>10. ASSUME NEW a \in Agents, NEW b \in Agents, GoLive(a, b) PROVE Told
  BY <1>1, <1>10 DEF GoLive
<1>11. ASSUME NEW a \in Agents, NEW s \in inbox[a], LoseStatus(a, s) PROVE Told
  BY <1>11, NoneLeaves
<1>12. CASE UNCHANGED vars
  BY <1>1, <1>12 DEF vars
<1> QED BY <1>6, <1>7, <1>8, <1>9, <1>10, <1>11, <1>12 DEF Next

\* How a Join of x goes on, seen from a member m of the group it received: m
\* answers the subscription and takes x for a subscriber, x connects to m, and
\* at the end m is told of x.
Answered(x, m) ==
  pc'[x] = "subscribing" /\ m \in Members(group'[x].view) \ todo'[x] =>
     \/ pc[x] = "subscribing" /\ m \in Members(group[x].view) \ todo[x]
     \/ Adds(m, x)'
AllAnswered(x, m) ==
  pc'[x] = "connecting" /\ m \in Members(group'[x].view) =>
     /\ m \in Members(group[x].view)
     /\ pc[x] = "connecting" \/ (pc[x] = "subscribing" /\ todo[x] = {})
Connected(x, m) ==
  pc'[x] = "connecting" /\ m \in Members(group'[x].view) \ todo'[x] =>
     \/ pc[x] = "connecting" /\ m \in Members(group[x].view) \ todo[x]
     \/ link'[x][m] # "none" /\ (x \in Publishers => m \in subs'[x])
Announced(x, m) ==
  /\ pc[x] \in {"hello", "notify"} /\ m \in Members(group[x].view)
  /\ view[x][m] > 0 /\ m # x
  => \/ pc'[x] \in {"hello", "notify"} /\ m \in Members(group'[x].view)
     \/ \E s \in inbox'[m] : s.kind = "active" /\ s.from = x

LEMMA CommandStep ==
  ASSUME AllStay, NobodyLeft', [Next]_vars, NEW x \in Agents, NEW m \in Agents
  PROVE  Answered(x, m) /\ AllAnswered(x, m) /\ Connected(x, m) /\ Announced(x, m)
<1> DEFINE Goes == Answered(x, m) /\ AllAnswered(x, m) /\ Connected(x, m) /\ Announced(x, m)
<1> USE DEF storeVars, callVars, serveVars, netVars, faultVars, Members
<1>0. TypeOK /\ WireInv /\ CallInv
  BY DEF AllStay, GroupInv
<1>1. ASSUME UNCHANGED <<pc, group, todo>> PROVE Goes
  BY <1>1 DEF Answered, AllAnswered, Connected, Announced
<1>2. ASSUME UNCHANGED group,
             pc'[x] \in {"subscribing", "connecting"} =>
                pc'[x] = pc[x] /\ todo'[x] = todo[x],
             pc[x] \in {"hello", "notify"} => pc'[x] \in {"hello", "notify"}
      PROVE  Goes
  BY <1>2 DEF Answered, AllAnswered, Connected, Announced
<1>3. ASSUME NEW a \in Agents, NEW b \in Agents, StartJoin(a, b) PROVE Goes
  BY <1>0, <1>2, <1>3 DEF StartJoin, MayCommand, TypeOK
<1>4. ASSUME NEW a \in Agents, StartSubscribing(a) PROVE Goes
  <2>1. CASE x # a
    BY <1>0, <1>4, <2>1 DEF StartSubscribing, TypeOK, Answered, AllAnswered, Connected, Announced
  <2>2. CASE x = a
    <3>1. /\ pc[x] = "accepted" /\ pc'[x] = "subscribing" /\ group' = group
          /\ todo'[x] = Members(group[x].view)
      BY <1>0, <1>4, <2>2 DEF StartSubscribing, TypeOK
    <3> QED BY <3>1 DEF Answered, AllAnswered, Connected, Announced
  <2> QED BY <2>1, <2>2
<1>5. ASSUME NEW a \in Agents, StartConnecting(a) PROVE Goes
  <2>1. CASE x # a
    BY <1>0, <1>5, <2>1 DEF StartConnecting, TypeOK, Answered, AllAnswered, Connected, Announced
  <2>2. CASE x = a
    <3>1. /\ pc[x] = "subscribing" /\ todo[x] = {} /\ pc'[x] = "connecting"
          /\ group' = group /\ todo'[x] = Members(group[x].view)
      BY <1>0, <1>5, <2>2 DEF StartConnecting, TypeOK
    <3> QED BY <3>1 DEF Answered, AllAnswered, Connected, Announced
  <2> QED BY <2>1, <2>2
<1>6. ASSUME NEW a \in Agents, NEW c \in Agents, ConnectMember(a, c) PROVE Goes
  <2>0. ~wedged[a] /\ UNCHANGED <<pc, group>> /\ pc[a] = "connecting"
    BY <1>6, AllWell DEF ConnectMember
  <2>1. CASE x # a
    BY <1>0, <1>6, <2>0, <2>1 DEF ConnectMember, TypeOK, Answered, AllAnswered, Connected, Announced
  <2>2. CASE x = a
    <3>1. todo'[x] = todo[x] \ {c}
      BY <1>0, <1>6, <2>0, <2>2 DEF ConnectMember, TypeOK
    <3>2. link'[x][c] # "none"
      BY <1>0, <1>6, <2>0, <2>2 DEF ConnectMember, Connect, TypeOK
    <3>3. x \in Publishers => c \in subs'[x]
      BY <1>0, <1>6, <2>0, <2>2 DEF ConnectMember, TypeOK
    <3> QED BY <2>0, <2>2, <3>1, <3>2, <3>3 DEF Answered, AllAnswered, Connected, Announced
  <2> QED BY <2>1, <2>2
<1>7. ASSUME NEW a \in Agents, FinishVerify(a) PROVE Goes
  <2>1. CASE x # a
    <3>1. pc'[x] = pc[x] /\ group'[x] = group[x] /\ todo'[x] = todo[x]
      BY <1>0, <1>7, <2>1 DEF FinishVerify, Return, TypeOK
    <3> QED BY <3>1 DEF Answered, AllAnswered, Connected, Announced
  <2>2. CASE x = a
    <3>1. pc[x] = "connecting" /\ pc'[x] \in {"idle", "hello"}
      BY <1>0, <1>7, <2>2 DEF FinishVerify, Return, TypeOK
    <3> QED BY <3>1 DEF Answered, AllAnswered, Connected, Announced
  <2> QED BY <2>1, <2>2
<1>8. ASSUME NEW a \in Agents, SayHello(a) PROVE Goes
  BY <1>0, <1>2, <1>8 DEF SayHello, TypeOK
<1>9. ASSUME NEW a \in Agents, NotifyActive(a) PROVE Goes
  <2>1. CASE x # a
    <3>1. pc'[x] = pc[x] /\ group'[x] = group[x] /\ todo'[x] = todo[x]
      BY <1>0, <1>9, <2>1 DEF NotifyActive, Return, TypeOK
    <3> QED BY <3>1 DEF Answered, AllAnswered, Connected, Announced
  <2>2. CASE x = a
    <3>1. pc[x] = "notify" /\ pc'[x] = "idle"
      BY <1>0, <1>9, <2>2 DEF NotifyActive, Return, TypeOK
    <3>2. ASSUME m \in Members(group[x].view), view[x][m] > 0, m # x
          PROVE  \E s \in inbox'[m] : s.kind = "active" /\ s.from = x
      <4>1. link[m][x] = "live"
        BY <1>0, <3>1, <3>2 DEF AllStay, NobodyLeft, WireInv, NotifyInv, HeardInv, Heard
      <4>2. m \in Members(view[x]) \ {x}
        BY <3>2
      <4> DEFINE t == [kind |-> "active", from |-> x, call |-> calls[x]]
      <4>3. inbox'[m] = inbox[m] \cup {t}
        BY <1>9, <2>2, <4>1, <4>2 DEF NotifyActive, Publish
      <4>4. t.kind = "active" /\ t.from = x
        OBVIOUS
      <4> HIDE DEF t
      <4>5. t \in inbox'[m]
        BY <4>3
      <4> QED BY <4>4, <4>5
    <3> QED BY <3>1, <3>2 DEF Answered, AllAnswered, Connected, Announced
  <2> QED BY <2>1, <2>2
<1>10. ASSUME NEW b \in Agents, NEW j \in Agents, AnswerJoin(b, j) PROVE Goes
  <2>1. pc[j] = "request"
    BY <1>0, <1>10 DEF AnswerJoin, CallInv, JoinAwaited
  <2>2. CASE UNCHANGED <<pc, group>>
    BY <1>1, <1>10, <2>2 DEF AnswerJoin
  <2>3. CASE /\ pc' = [pc EXCEPT ![j] = "accepted"]
             /\ group' = [group EXCEPT ![j] = [view |-> view[b], params |-> params[b]]]
    <3>1. IF x = j THEN pc'[x] = "accepted" ELSE pc'[x] = pc[x] /\ group'[x] = group[x]
      BY <1>0, <2>3 DEF TypeOK
    <3>2. todo' = todo
      BY <1>10 DEF AnswerJoin
    <3> QED BY <2>1, <3>1, <3>2 DEF Answered, AllAnswered, Connected, Announced
  <2> QED BY <1>10, <2>2, <2>3 DEF AnswerJoin
<1>11. ASSUME NEW b \in Agents, NEW j \in Agents, AnswerSubscribe(b, j) PROVE Goes
  <2>0. pc[j] = "subscribing" /\ UNCHANGED <<pc, group>>
    BY <1>11 DEF AnswerSubscribe, AllStay, SubscribeAwaited
  <2>1. CASE todo' = todo
    BY <1>1, <2>0, <2>1
  <2>2. CASE /\ todo' = [todo EXCEPT ![j] = todo[j] \ {b}]
             /\ conning' = [conning EXCEPT ![b] = conning[b] \cup {<<j, calls[j]>>}]
    <3>1. todo'[x] = IF x = j THEN todo[j] \ {b} ELSE todo[x]
      BY <1>0, <2>2 DEF TypeOK
    <3>2. Adds(b, j)'
      <4> PICK r : r = <<j, calls[j]>>
        OBVIOUS
      <4>1. r[1] = j
        OBVIOUS
      <4>2. r \in conning'[b]
        BY <1>0, <2>2 DEF TypeOK
      <4> QED BY <4>1, <4>2 DEF Adds
    <3> QED BY <2>0, <3>1, <3>2 DEF Answered, AllAnswered, Connected, Announced
  <2> QED BY <1>11, <2>1, <2>2 DEF AnswerSubscribe
<1>12. ASSUME NEW a \in Agents, Command(a) PROVE Goes
  BY <1>1, <1>3, <1>12, NoneLeaves DEF Command, Create
<1>13. ASSUME NEW a \in Agents, Progress(a) PROVE Goes
  BY <1>1, <1>4, <1>5, <1>6, <1>7, <1>8, <1>9, <1>13, NoneLeaves DEF Progress, AcceptOneself
<1>14. ASSUME NEW b \in Agents, Serving(b) PROVE Goes
  BY <1>1, <1>10, <1>11, <1>14 DEF Serving, TakeJoin, TakeSubscribe, ConnectSubscriber,
     AddSubscriber
<1>15. ASSUME NEW b \in Agents, NEW a \in Agents, Handling(b, a) PROVE Goes
  BY <1>1, <1>15 DEF Handling, AnswerHello, AddMember, RemoveMember
<1>16. ASSUME NEW a \in Agents, NEW b \in Agents, GoLive(a, b) PROVE Goes
  BY <1>1, <1>16 DEF GoLive
<1>17. ASSUME NEW a \in Agents, NEW s \in inbox[a], LoseStatus(a, s) PROVE Goes
  BY <1>1, <1>17 DEF LoseStatus
<1>18. CASE UNCHANGED vars
  BY <1>1, <1>18 DEF vars
<1> QED BY <1>12, <1>13, <1>14, <1>15, <1>16, <1>17, <1>18 DEF Next

-----------------------------------------------------------------------------
(* While nobody leaves, members come to know each other.                    *)

\* No step undoes what joiners and members have learnt of each other.
LEMMA JoinStep ==
  ASSUME AllStay, NobodyLeft', GroupInv', EnteredCalls, JoinInv, [Next]_vars
  PROVE  JoinInv'
<1>1. \A x, y \in Agents : view[x][y] > 0 => view'[x][y] > 0
  BY ViewStep
<1>2. \A x \in Agents : \A s \in inbox[x] : s.from \in Agents /\ link[x][s.from] = "live"
  BY AllWell
<1>3. ASSUME NEW a \in Agents, NEW b \in Agents, view'[a][b] > 0, a # b
      PROVE  \/ view[a][b] > 0
             \/ Stores(a, b)
             \/ /\ view[b][a] > 0 /\ link[a][b] = "live"
                /\ \E s \in inbox[a] : s.kind = "active" /\ s.from = b
  <2>1. CASE \E s \in inbox[a] : s.kind = "active" /\ s.from = b
    BY <1>2, <2>1 DEF JoinInv, ActiveSent
  <2> QED BY <1>3, <2>1, ViewStep
<1>4. Connects'
  <2> SUFFICES ASSUME NEW a \in Agents, NEW b \in Agents, view'[a][b] > 0, a # b
               PROVE  link'[a][b] # "none" /\ (a \in Publishers => Adds(a, b)')
    BY DEF Connects
  <2>1. link[a][b] # "none" /\ (a \in Publishers => Adds(a, b))
    <3>1. CASE view[a][b] > 0
      BY <3>1 DEF JoinInv, Connects
    <3>2. CASE Stores(a, b)
      BY <3>2 DEF Stores, JoinInv, ConnectsSoFar, Adds
    <3>3. CASE ~(view[a][b] > 0) /\ view[b][a] > 0 /\ link[a][b] = "live"
      BY <3>3 DEF JoinInv, AddsInv
    <3> QED BY <1>3, <3>1, <3>2, <3>3
  <2> QED BY <2>1, LinkStep, AddsStep
<1>5. ConnectsSoFar'
  <2> SUFFICES ASSUME NEW j \in Agents, pc'[j] = "connecting",
                      NEW m \in Members(group'[j].view) \ todo'[j]
               PROVE  link'[j][m] # "none" /\ (j \in Publishers => m \in subs'[j])
    BY DEF ConnectsSoFar, Members
  <2>1. m \in Agents
    BY DEF Members
  <2>2. \/ pc[j] = "connecting" /\ m \in Members(group[j].view) \ todo[j]
        \/ link'[j][m] # "none" /\ (j \in Publishers => m \in subs'[j])
    BY <2>1, CommandStep DEF Connected
  <2>3. CASE pc[j] = "connecting" /\ m \in Members(group[j].view) \ todo[j]
    <3>1. link[j][m] # "none" /\ (j \in Publishers => m \in subs[j])
      BY <2>3 DEF JoinInv, ConnectsSoFar
    <3> QED BY <2>1, <3>1, LinkStep, AddsStep
  <2> QED BY <2>2, <2>3
<1>6. ActiveSent'
  <2> SUFFICES ASSUME NEW a \in Agents, NEW s \in inbox'[a], s.kind = "active"
               PROVE  view'[s.from][a] > 0
    BY DEF ActiveSent
  <2>1. s.from \in Agents
    BY DEF GroupInv, TypeOK, Status
  <2>2. view[s.from][a] > 0
    BY ActiveStep DEF JoinInv, ActiveSent
  <2> QED BY <1>1, <2>1, <2>2
<1>7. ToldInv'
  <2> SUFFICES ASSUME NEW a \in Agents, NEW b \in Agents, view'[a][b] > 0, a # b
               PROVE  Tells(a, b)'
    BY DEF ToldInv
  <2>1. CASE view[b][a] > 0
    BY <1>1, <2>1 DEF Tells
  <2>2. CASE \E s \in inbox[b] : s.kind = "active" /\ s.from = a
    BY <2>2, ActiveStep DEF Tells
  <2>3. CASE /\ pc[a] \in {"hello", "notify"} /\ b \in Members(group[a].view)
             /\ view[a][b] > 0
    BY <2>3, CommandStep DEF Announced, Tells, Members
  <2>4. CASE Stores(a, b)
    BY <2>4 DEF Stores, Tells, Members
  <2>5. CASE view[a][b] > 0
    BY <2>1, <2>2, <2>3, <2>5 DEF JoinInv, ToldInv, Tells
  <2> QED BY <1>3, <2>1, <2>4, <2>5
<1>8. AddsInv'
  <2> SUFFICES ASSUME NEW a \in Agents, NEW b \in Agents, a # b
               PROVE  /\ pc'[b] = "subscribing" /\ a \in Members(group'[b].view) \ todo'[b]
                            => Adds(a, b)'
                      /\ pc'[b] = "connecting" /\ a \in Members(group'[b].view)
                            => Adds(a, b)'
                      /\ view'[b][a] > 0 => view'[a][b] > 0 \/ Adds(a, b)'
    BY DEF AddsInv, Members
  <2>0. Adds(a, b) => Adds(a, b)'
    BY AddsStep
  <2>1. ASSUME pc'[b] = "subscribing", a \in Members(group'[b].view) \ todo'[b]
        PROVE  Adds(a, b)'
    <3>1. \/ pc[b] = "subscribing" /\ a \in Members(group[b].view) \ todo[b]
          \/ Adds(a, b)'
      BY <2>1, CommandStep DEF Answered
    <3> QED BY <2>0, <3>1 DEF JoinInv, AddsInv
  <2>2. ASSUME pc'[b] = "connecting", a \in Members(group'[b].view)
        PROVE  Adds(a, b)'
    <3>1. /\ a \in Members(group[b].view)
          /\ pc[b] = "connecting" \/ (pc[b] = "subscribing" /\ todo[b] = {})
      BY <2>2, CommandStep DEF AllAnswered
    <3> QED BY <2>0, <3>1 DEF JoinInv, AddsInv
  <2>3. ASSUME view'[b][a] > 0 PROVE view'[a][b] > 0 \/ Adds(a, b)'
    <3>1. CASE view[b][a] > 0
      BY <1>1, <2>0, <3>1 DEF JoinInv, AddsInv
    <3>2. CASE Stores(b, a)
      BY <2>0, <3>2 DEF Stores, JoinInv, AddsInv
    <3>3. CASE view[a][b] > 0
      BY <1>1, <3>3
    <3> QED BY <1>3, <2>3, <3>1, <3>2, <3>3
  <2> QED BY <2>1, <2>2, <2>3
<1> QED BY <1>4, <1>5, <1>6, <1>7, <1>8 DEF JoinInv

LEMMA JoinInvAlways == Spec => [](EnteredCalls /\ (NobodyLeft => AllStay /\ JoinInv))
<1> DEFINE Base == GroupInv /\ SubscribeAwaited /\ WireInv
<1>1. Init => EnteredCalls /\ JoinInv
  <2> SUFFICES ASSUME Init PROVE EnteredCalls /\ JoinInv
    OBVIOUS
  <2>1. EnteredCalls
    BY DEF Init, EnteredCalls
  <2>2. Connects /\ ConnectsSoFar /\ ActiveSent /\ ToldInv /\ AddsInv
    BY DEF Init, Empty, Connects, ConnectsSoFar, ActiveSent, ToldInv, AddsInv
  <2> QED BY <2>1, <2>2 DEF JoinInv
<1>2. Base /\ Base' /\ EnteredCalls /\ (NobodyLeft => JoinInv) /\ [Next]_vars
        => EnteredCalls' /\ (NobodyLeft => JoinInv)'
  <2> SUFFICES ASSUME Base, Base', EnteredCalls, NobodyLeft => JoinInv, [Next]_vars
               PROVE  EnteredCalls' /\ (NobodyLeft' => JoinInv')
    OBVIOUS
  <2>1. EnteredCalls'
    BY EnteredCallsStep DEF GroupInv
  <2>2. ASSUME NobodyLeft' PROVE JoinInv'
    <3>1. \A a \in Agents : leaves[a] \in Nat /\ leaves[a] <= leaves'[a]
      BY LeavesGrow DEF GroupInv, TypeOK
    <3>2. NobodyLeft
      BY <2>2, <3>1 DEF NobodyLeft
    <3>3. AllStay /\ GroupInv' /\ JoinInv
      BY <3>2 DEF AllStay
    <3> QED BY <2>2, <3>3, JoinStep
  <2> QED BY <2>1, <2>2
<1>3. Spec => []Base
  BY WireInvAlways
<1>4. Base /\ NobodyLeft => AllStay
  BY DEF AllStay
<1> HIDE DEF Base
<1> QED BY <1>1, <1>2, <1>3, <1>4, PTL DEF Spec

\* As long as nobody has left, a publisher comes to send its data messages to
\* every member it lists, whichever of the two joined first: once all is
\* settled each of them is in its subscriber list, through connectMember of
\* its own Join or through the subscriptions handler that served the other's.
THEOREM SubscribersCompleteAlways == Spec => [](NobodyLeft => SubscribersComplete)
<1>1. JoinInv => SubscribersComplete
  <2> SUFFICES ASSUME JoinInv, Settled, NEW a \in Publishers, NEW b \in Agents,
                      view[a][b] > 0, b # a
               PROVE  b \in subs[a]
    BY DEF SubscribersComplete, Members
  <2>1. a \in Agents
    BY ConstantsAssumption
  <2>2. Adds(a, b)
    BY <2>1 DEF JoinInv, Connects
  <2>3. conning[a] = {} /\ adding[a] = {}
    BY <2>1 DEF Settled
  <2> QED BY <2>2, <2>3 DEF Adds
<1> QED BY <1>1, JoinInvAlways, PTL

\* What MutualViews says apart from which of its calls a record comes from.
MutuallyListed ==
  Settled => \A a, b \in Agents :
     view[a][b] > 0 /\ a # b => view[b][a] > 0 /\ link[a][b] = "live"

\* As long as nobody has left, concurrent joins end with members that know
\* each other: once all is settled whoever is listed lists the other one in
\* turn, and the sockets between them are connected both ways.
THEOREM MutuallyListedAlways == Spec => [](NobodyLeft => MutuallyListed)
<1>1. AllStay /\ JoinInv => MutuallyListed
  <2> SUFFICES ASSUME AllStay, JoinInv, Settled, NEW a \in Agents, NEW b \in Agents,
                      view[a][b] > 0, a # b
               PROVE  view[b][a] > 0 /\ link[a][b] = "live"
    BY DEF MutuallyListed
  <2>1. Tells(a, b)
    BY DEF JoinInv, ToldInv
  <2>2. view[b][a] > 0
    BY <2>1 DEF Tells, Settled
  <2>3. link[a][b] # "none"
    BY DEF JoinInv, Connects
  <2>4. refs[a] # 0 /\ refs[a] \in Nat
    BY <2>3 DEF AllStay, GroupInv, TypeOK, NobodyLeft, WireInv, FilterInv, Unfiltered
  <2>5. link[a][b] # "pending"
    BY <2>4 DEF Settled
  <2>6. link[a][b] \in {"none", "pending", "live"}
    BY DEF AllStay, GroupInv, TypeOK
  <2> QED BY <2>2, <2>3, <2>5, <2>6
<1> QED BY <1>1, JoinInvAlways, PTL

\* Every user has created or joined at most once.
CalledOnce == \A a \in Agents : calls[a] <= 1

\* If besides every user has created or joined once, each member is listed
\* under the record it holds of itself.  (A founder that creates its group
\* again makes a new record of itself, of which it tells nobody.)
THEOREM MutualViewsAlways == Spec => [](NobodyLeft /\ CalledOnce => MutualViews)
<1>1. AllStay /\ EnteredCalls /\ CalledOnce /\ MutuallyListed => MutualViews
  <2> SUFFICES ASSUME AllStay, EnteredCalls, CalledOnce, MutuallyListed, Settled,
                      NEW a \in Agents, NEW b \in Agents, view[a][b] > 0, a # b
               PROVE  /\ view[a][b] = view[b][b] /\ view[b][a] = view[a][a]
                      /\ link[a][b] = "live"
    BY DEF MutualViews
  <2>1. view[b][a] > 0 /\ link[a][b] = "live"
    BY DEF MutuallyListed
  <2>2. \A x, y \in Agents : view[x][y] > 0 => view[x][y] = 1
    <3> SUFFICES ASSUME NEW x \in Agents, NEW y \in Agents, view[x][y] > 0
                 PROVE  view[x][y] = 1
      OBVIOUS
    <3>1. view[x][y] \in 0..MaxCalls /\ calls[y] \in Nat
      BY DEF AllStay, GroupInv, TypeOK, View
    <3>2. <<y, view[x][y]>> \in entered
      BY DEF AllStay, GroupInv, EnteredInv, OnlyEntered
    <3>3. view[x][y] <= calls[y]
      BY <3>1, <3>2 DEF EnteredCalls
    <3> QED BY <3>1, <3>3 DEF CalledOnce
  <2>3. \A x, y \in Agents : view[x][y] > 0 => view[x][x] > 0
    BY DEF AllStay, NobodyLeft, GroupInv, LoyalInv, ListsAsMember, MemberStays
  <2> QED BY <2>1, <2>2, <2>3
<1> QED BY <1>1, JoinInvAlways, MutuallyListedAlways, PTL

-----------------------------------------------------------------------------
(* Commands that wait for each other: one of them is under way at a time,   *)
(* with what it has made the others do, and all else is as it was settled.  *)

\* An agent that lists itself.
Member(a) == view[a][a] > 0

\* Nothing fails, and what an agent holds fits what its user has called.
Sound(a) ==
  /\ up[a] /\ ~wedged[a] /\ server[a] # Stuck /\ pc[a] # "hung"
  /\ link[a][a] = "none" /\ a \notin subs[a]
  /\ Member(a) => /\ joined[a] /\ params[a] # "none" /\ view[a][a] = calls[a]
                  /\ pc[a] # "leaving" => leaves[a] = 0
  /\ ~Member(a) => view[a] = Empty
  /\ calls[a] = 0 => leaves[a] = 0 /\ refs[a] = 0 /\ sums[a] = {} /\ ~joined[a]
AllSound == \A a \in Agents : Sound(a)

\* Whatever is under way is of the command of c.
Sole(c) ==
  \A a \in Agents :
     /\ pc[a] # "idle" => a = c
     /\ \A r \in conning[a] \cup adding[a] : r[1] = c /\ a # c
     /\ \A s \in inbox[a] : s.from = c /\ a # c

\* What agents other than c know of each other.
Agree(c) ==
  \A a, b \in Agents \ {c} :
     /\ view[a][b] > 0 => \A d \in Agents \ {c} : view[b][d] = view[a][d]
     /\ view[a][b] > 0 /\ a # b => link[a][b] = "live"
     /\ link[a][b] # "none" => view[a][b] > 0 /\ link[a][b] = "live"
     /\ b \in subs[a] => view[a][b] > 0

\* The group of c: the one it received, until it has told its members.
Joining == {"accepted", "subscribing", "connecting", "hello", "notify"}
GroupOf(c) == IF pc[c] \in Joining THEN group[c].view ELSE view[c]
Mates(c) == Members(GroupOf(c)) \ {c}

\* A mate of c, or one that was and has not heard yet that c left.
Tie(b, c) == b \in Mates(c) \/ \E s \in inbox[b] : s.kind = "inactive"

\* The acceptor is answering the join request of c.
Answers(c) == server[acceptor[c]] = [kind |-> "join", from |-> c]

\* How far the command of c has come.
Stage(c) ==
  /\ pc[c] = "request" => acceptor[c] # c /\ (Answers(c) => Member(acceptor[c]))
  /\ pc[c] \in {"request", "accepted", "subscribing", "connecting"} => ~Member(c)
  /\ pc[c] \in Joining \cup {"request"} => leaves[c] = 0
  /\ pc[c] \in Joining => group[c].view[c] = 0
  /\ pc[c] \in {"hello", "notify"} =>
        Member(c) /\ \A d \in Agents \ {c} : view[c][d] = group[c].view[d]
  /\ pc[c] \in {"accepted", "subscribing", "connecting"} => sums[c] \subseteq {group[c].view}
  /\ pc[c] = "request" => sums[c] = {}
  /\ pc[c] = "connecting" => todo[c] \subseteq Mates(c)
  /\ pc[c] = "leaving" => \A b \in Agents : link[c][b] = "none"
  /\ subs[c] \subseteq Mates(c)

\* What c and a mate know of each other.
Bound(b, c) ==
  /\ \A d \in Agents \ {c} : view[b][d] = GroupOf(c)[d]
  /\ pc[c] = "connecting" => link[c][b] # "none" \/ b \in todo[c]
  /\ pc[c] \in {"hello", "notify", "idle"} => link[c][b] # "none"
  /\ pc[c] \in {"idle", "leaving"} => link[b][c] = "live"
  /\ pc[c] = "idle" => \/ view[b][c] = view[c][c]
                       \/ \E s \in inbox[b] : s.kind = "active" /\ s.call = view[c][c]
  /\ pc[c] = "leaving" => view[b][c] = view[c][c]

\* What c and any other agent hold of each other.
Loose(b, c) ==
  /\ link[c][b] # "none" => b \in Mates(c)
  /\ link[b][c] # "none" => Tie(b, c) /\ Member(b)
  /\ c \in subs[b] => Tie(b, c)
  /\ view[b][c] > 0 => /\ Tie(b, c) /\ pc[c] \in {"idle", "leaving"}
                       /\ Member(c) => view[b][c] = view[c][c]
  /\ conning[b] \cup adding[b] # {} => b \in Mates(c) /\ pc[c] # "leaving"
  /\ \A s \in inbox[b] :
        /\ s.kind = "active" => /\ pc[c] = "idle" /\ Member(c) /\ b \in Mates(c)
                                /\ s.call = view[c][c]
        /\ s.kind = "inactive" => /\ pc[c] = "idle" /\ ~Member(c)
                                  /\ link[b][c] = "live" /\ s.call = calls[c]

Pair(b, c) == Loose(b, c) /\ (b \in Mates(c) => Bound(b, c))
Pairs(c) == \A b \in Agents \ {c} : Pair(b, c)

\* The command of c is the only one under way.
OneCommand(c) == Sole(c) /\ Agree(c) /\ Stage(c) /\ Pairs(c)

\* What is known of all commands, whether they overlap or not.
Base == GroupInv /\ SubscribeAwaited /\ WireInv /\ EnteredCalls

-----------------------------------------------------------------------------
(* What a step leaves alone.                                                *)

LEMMA SoundKept ==
  ASSUME AllSound, UNCHANGED <<up, wedged, calls, leaves>>,
         \A a \in Agents :
            /\ view'[a] = view[a] \/ (Member(a) /\ view'[a][a] = view[a][a])
            /\ server'[a] # Stuck /\ pc'[a] # "hung"
            /\ link'[a][a] = link[a][a] /\ (a \in subs'[a] => a \in subs[a])
            /\ Member(a) => joined'[a] /\ params'[a] = params[a]
            /\ pc[a] = "leaving" => pc'[a] = "leaving"
            /\ calls[a] = 0 => /\ refs'[a] = refs[a] /\ sums'[a] = sums[a]
                               /\ joined'[a] = joined[a]
  PROVE  AllSound'
<1> SUFFICES ASSUME NEW a \in Agents PROVE Sound(a)'
  BY DEF AllSound
<1> QED BY DEF AllSound, Sound, Member, Empty

LEMMA SoleKept ==
  ASSUME NEW c \in Agents, Sole(c),
         \A a \in Agents :
            /\ pc'[a] # "idle" => pc[a] # "idle" \/ a = c
            /\ \A r \in conning'[a] \cup adding'[a] : 
                  r \in conning[a] \cup adding[a] \/ (r[1] = c /\ a # c)
            /\ \A s \in inbox'[a] : s \in inbox[a] \/ (s.from = c /\ a # c)
  PROVE  Sole(c)'
  BY DEF Sole

LEMMA AgreeKept ==
  ASSUME NEW c \in Agents, Agree(c),
         \A a, b \in Agents \ {c} :
            /\ view'[a][b] = view[a][b] /\ link'[a][b] = link[a][b]
            /\ b \in subs'[a] => b \in subs[a]
  PROVE  Agree(c)'
<1> SUFFICES ASSUME NEW a \in Agents \ {c}, NEW b \in Agents \ {c}
             PROVE  /\ view'[a][b] > 0 => \A d \in Agents \ {c} : view'[b][d] = view'[a][d]
                    /\ view'[a][b] > 0 /\ a # b => link'[a][b] = "live"
                    /\ link'[a][b] # "none" => view'[a][b] > 0 /\ link'[a][b] = "live"
                    /\ b \in subs'[a] => view'[a][b] > 0
  BY DEF Agree
<1> QED BY DEF Agree

\* Steps that leave the command where it is.
LEMMA StageKept ==
  ASSUME NEW c \in Agents, Stage(c), UNCHANGED <<acceptor, leaves, group>>,
         pc'[c] = pc[c], view'[c] = view[c],
         pc[c] = "request" =>
            view' = view /\ (Answers(c)' => Answers(c) \/ Member(acceptor[c])),
         pc[c] = "connecting" => todo'[c] \subseteq todo[c],
         pc[c] = "leaving" => link'[c] = link[c],
         sums'[c] \subseteq sums[c] \cup {group[c].view},
         pc[c] = "request" => sums'[c] = sums[c],
         subs'[c] \subseteq Mates(c)
  PROVE  Stage(c)'
  BY DEF Stage, Member, Mates, GroupOf, Members

\* ... and what the two hold of each other, but for statuses handled.
LEMMA PairKept ==
  ASSUME NEW c \in Agents, NEW b \in Agents \ {c}, Pair(b, c),
         UNCHANGED <<group, calls>>, pc'[c] = pc[c],
         view'[b] = view[b], view'[c] = view[c],
         pc[c] = "connecting" /\ b \in todo[c] => b \in todo'[c],
         link'[c][b] = link[c][b] \/ (link'[c][b] # "none" /\ b \in Mates(c)),
         link'[b][c] = link[b][c] \/ (link[b][c] # "live" /\ Member(b) /\ b \in Mates(c)),
         c \in subs'[b] => c \in subs[b] \/ b \in Mates(c),
         conning'[b] \cup adding'[b] # {} =>
            conning[b] \cup adding[b] # {} \/ (b \in Mates(c) /\ pc[c] # "leaving"),
         \A s \in inbox'[b] : s \in inbox[b],
         \A s \in inbox[b] : s.kind \in {"active", "inactive"} => s \in inbox'[b]
  PROVE  Pair(b, c)'
<1>1. Mates(c)' = Mates(c) /\ GroupOf(c)' = GroupOf(c) /\ Member(c)' = Member(c)
      /\ Member(b)' = Member(b)
  BY DEF Mates, GroupOf, Members, Member
<1>2. Tie(b, c) => Tie(b, c)'
  BY <1>1 DEF Tie
<1>3. Loose(b, c)'
  BY <1>1, <1>2 DEF Pair, Loose, Bound, Tie
<1>4. b \in Mates(c) => Bound(b, c)'
  BY <1>1 DEF Pair, Bound, Loose
<1> QED BY <1>1, <1>3, <1>4 DEF Pair

Holds(c) == AllSound /\ OneCommand(c)

\* Whose command it is.
LEMMA OwnCommand ==
  ASSUME NEW c \in Agents, OneCommand(c), NEW a \in Agents, pc[a] # "idle"
  PROVE  a = c
  BY DEF OneCommand, Sole

\* The mates of a joiner are the members of the group it received.
LEMMA JoinersMates ==
  ASSUME TypeOK, NEW c \in Agents, Stage(c), pc[c] \in Joining
  PROVE  /\ GroupOf(c) = group[c].view /\ Mates(c) = Members(group[c].view)
         /\ group[c].view \in View
  BY DEF Stage, GroupOf, Mates, Members, TypeOK, Group

\* A mate of a joiner holds the view the joiner received.
LEMMA MateView ==
  ASSUME TypeOK, NEW c \in Agents, OneCommand(c), pc[c] \in Joining,
         NEW b \in Members(group[c].view)
  PROVE  b \in Agents \ {c} /\ view[b] = group[c].view /\ Member(b)
<1>1. b \in Agents \ {c} /\ b \in Mates(c) /\ group[c].view[b] > 0
  BY JoinersMates DEF Members, Mates, OneCommand
<1>2. \A d \in Agents \ {c} : view[b][d] = group[c].view[d]
  BY <1>1, JoinersMates DEF OneCommand, Pairs, Pair, Bound
<1>3. view[b][c] = 0 /\ group[c].view[c] = 0
  <2>1. view[b][c] \in Nat
    BY <1>1, ConstantsAssumption DEF TypeOK, View
  <2>2. ~(view[b][c] > 0)
    BY <1>1 DEF OneCommand, Pairs, Pair, Loose, Joining
  <2> QED BY <2>1, <2>2 DEF OneCommand, Stage
<1>4. view[b] \in View /\ group[c].view \in View
  BY <1>1 DEF TypeOK, Group
<1>5. \A d \in Agents : view[b][d] = group[c].view[d]
  BY <1>2, <1>3
<1>6. view[b] = group[c].view
  BY <1>4, <1>5 DEF View
<1> QED BY <1>1, <1>2, <1>6 DEF Member

\* Steps of the servers.
LEMMA TakeJoinHolds ==
  ASSUME Base, NEW c \in Agents, Holds(c), NEW b \in Agents, NEW j \in Agents, TakeJoin(b, j)
  PROVE  Holds(c)'
<1> USE DEF storeVars, callVars, serveVars, netVars, faultVars
<1>1. j = c /\ pc[c] = "request" /\ acceptor[c] = b
  BY OwnCommand DEF TakeJoin, Holds
<1>2. \/ server' = [server EXCEPT ![b] = Denied]
      \/ Members(view[b]) # {} /\ server' = [server EXCEPT ![b] = [kind |-> "join", from |-> j]]
  BY DEF TakeJoin, Serve
<1>3. Answers(c)' => Member(b)
  <2>1. ~Member(b) => Members(view[b]) = {}
    BY DEF Holds, AllSound, Sound, Members, Empty
  <2>2. ~Member(b) => server'[b] = Denied
    BY <1>2, <2>1 DEF Base, GroupInv, TypeOK
  <2> QED BY <1>1, <2>2, JoinRecord DEF Answers, TakeJoin
<1>4. \A a \in Agents : server'[a] # Stuck
  BY <1>2, JoinRecord, FreeNotStuck DEF Base, GroupInv, TypeOK, Holds, AllSound, Sound
<1>5. AllSound'
  BY <1>4, SoundKept DEF TakeJoin, Holds, AllSound, Sound
<1>6. Sole(c)' /\ Agree(c)' /\ Stage(c)'
  BY <1>1, <1>3, SoleKept, AgreeKept, StageKept DEF TakeJoin, Holds, OneCommand, Stage
<1>7. Pairs(c)'
  BY PairKept DEF TakeJoin, Holds, OneCommand, Pairs
<1> QED BY <1>5, <1>6, <1>7 DEF Holds, OneCommand

LEMMA TakeSubscribeHolds ==
  ASSUME Base, NEW c \in Agents, Holds(c), NEW b \in Agents, NEW j \in Agents,
         TakeSubscribe(b, j)
  PROVE  Holds(c)'
<1> USE DEF storeVars, callVars, serveVars, netVars, faultVars
<1>1. j = c /\ pc[c] = "subscribing" /\ b \in todo[c]
  BY OwnCommand DEF TakeSubscribe, Holds
<1>2. b \in Members(group[c].view)
  BY <1>1 DEF Base, GroupInv, CallInv, CallFacts
<1>3. Member(b)
  BY <1>1, <1>2, MateView DEF Base, GroupInv, Holds, Joining
<1>4. server' = [server EXCEPT ![b] = [kind |-> "sub", from |-> j]]
  BY <1>3 DEF TakeSubscribe, Serve, Member, Holds, AllSound, Sound
<1>5. \A a \in Agents : server'[a] # Stuck
  BY <1>4, SubscribeRecord DEF Base, GroupInv, TypeOK, Holds, AllSound, Sound, Stuck
<1>6. AllSound'
  BY <1>5, SoundKept DEF TakeSubscribe, Holds, AllSound, Sound
<1>7. Sole(c)' /\ Agree(c)' /\ Stage(c)'
  <2>1. pc[c] # "request"
    BY <1>1
  <2>2. Stage(c)'
    BY <2>1, StageKept DEF TakeSubscribe, Holds, OneCommand, Stage
  <2> QED BY <2>2, SoleKept, AgreeKept DEF TakeSubscribe, Holds, OneCommand
<1>8. Pairs(c)'
  BY PairKept DEF TakeSubscribe, Holds, OneCommand, Pairs
<1> QED BY <1>6, <1>7, <1>8 DEF Holds, OneCommand

LEMMA AnswerSubscribeHolds ==
  ASSUME Base, NEW c \in Agents, Holds(c), NEW b \in Agents, NEW j \in Agents,
         AnswerSubscribe(b, j)
  PROVE  Holds(c)'
<1> USE DEF storeVars, callVars, serveVars, netVars, faultVars
<1>1. pc[j] = "subscribing" /\ b \in todo[j]
  BY DEF AnswerSubscribe, Base, SubscribeAwaited
<1>2. j = c
  BY <1>1, OwnCommand DEF Holds
<1>3. b \in Members(group[c].view)
  BY <1>1, <1>2 DEF Base, GroupInv, CallInv, CallFacts
<1>4. b \in Agents \ {c} /\ view[b] = group[c].view /\ Member(b)
  BY <1>1, <1>2, <1>3, MateView DEF Base, GroupInv, Holds, Joining
<1>5. b \in Mates(c)
  BY <1>1, <1>2, <1>3, JoinersMates DEF Base, GroupInv, Holds, OneCommand, Joining
<1>6. /\ todo' = [todo EXCEPT ![c] = @ \ {b}]
      /\ sums' = [sums EXCEPT ![c] = IF b = acceptor[c] THEN @ ELSE @ \cup {view[b]}]
      /\ conning' = [conning EXCEPT ![b] = @ \cup {<<c, calls[c]>>}]
      /\ server' = [server EXCEPT ![b] = Free] /\ up' = up
      /\ UNCHANGED <<storeVars, pc, calls, leaves, acceptor, group, adding,
                     netVars, wedged, entered>>
  BY <1>2, <1>4 DEF AnswerSubscribe, Holds, AllSound, Sound, Serve
<1>7. TypeOK
  BY DEF Base, GroupInv
<1>8. AllSound'
  <2>1. \A a \in Agents : server'[a] # Stuck
    BY <1>6, <1>7, FreeNotStuck DEF Holds, AllSound, Sound, TypeOK
  <2>2. calls[c] > 0
    BY <1>1, <1>2 DEF Base, GroupInv, CallInv, CallFacts
  <2>3. \A a \in Agents : calls[a] = 0 => sums'[a] = sums[a]
    BY <1>6, <1>7, <2>2 DEF TypeOK
  <2> QED BY <1>6, <2>1, <2>3, SoundKept DEF Holds, AllSound, Sound
<1>9. Sole(c)'
  <2>1. \A a \in Agents : \A r \in conning'[a] \cup adding'[a] :
           r \in conning[a] \cup adding[a] \/ (r[1] = c /\ a # c)
    BY <1>4, <1>6, <1>7 DEF TypeOK
  <2> QED BY <1>6, <2>1, SoleKept DEF Holds, OneCommand
<1>10. Agree(c)'
  BY <1>6, AgreeKept DEF Holds, OneCommand
<1>11. Stage(c)'
  <2>1. sums'[c] \subseteq sums[c] \cup {group[c].view}
    BY <1>4, <1>6, <1>7 DEF TypeOK
  <2> QED BY <1>1, <1>2, <1>6, <2>1, StageKept DEF Holds, OneCommand, Stage
<1>12. Pairs(c)'
  <2> SUFFICES ASSUME NEW x \in Agents \ {c} PROVE Pair(x, c)'
    BY DEF Pairs
  <2>1. conning'[x] \cup adding'[x] # {} => conning[x] \cup adding[x] # {} \/ x \in Mates(c)
    BY <1>5, <1>6, <1>7 DEF TypeOK
  <2> QED BY <1>1, <1>2, <1>6, <2>1, PairKept DEF Holds, OneCommand, Pairs
<1> QED BY <1>8, <1>9, <1>10, <1>11, <1>12 DEF Holds, OneCommand

LEMMA AnswerJoinHolds ==
  ASSUME Base, NEW c \in Agents, Holds(c), NEW b \in Agents, NEW j \in Agents, AnswerJoin(b, j)
  PROVE  /\ Holds(c)' /\ Member(b) /\ b # c /\ UNCHANGED view
         /\ Mates(c)' = Members(view[b]) \ {c}
<1> USE DEF storeVars, callVars, serveVars, netVars, faultVars
<1>0. TypeOK /\ Sole(c) /\ Agree(c) /\ Stage(c) /\ Pairs(c) /\ AllSound
  BY DEF Base, GroupInv, Holds, OneCommand
<1>1. pc[j] = "request" /\ acceptor[j] = b
  BY DEF AnswerJoin, Base, GroupInv, CallInv, JoinAwaited
<1>2. j = c
  BY <1>1, OwnCommand DEF Holds
<1>3. b \in Agents \ {c} /\ Member(b) /\ ~Member(c) /\ leaves[c] = 0 /\ sums[c] = {}
  BY <1>0, <1>1, <1>2 DEF Stage, Answers, AnswerJoin
<1>4. /\ group' = [group EXCEPT ![c] = [view |-> view[b], params |-> params[b]]]
      /\ pc' = [pc EXCEPT ![c] = "accepted"]
      /\ server' = [server EXCEPT ![b] = Free] /\ up' = up
      /\ UNCHANGED <<storeVars, calls, leaves, acceptor, todo, sums, conning,
                     adding, netVars, wedged, entered>>
  BY <1>0, <1>2, <1>3 DEF AnswerJoin, AllSound, Sound, Serve
<1>5. pc'[c] = "accepted" /\ group'[c].view = view[b]
  BY <1>0, <1>4 DEF TypeOK
<1>6. view[b][c] = 0 /\ view[c] = Empty
  <2>1. view[b][c] \in Nat
    BY <1>0, <1>3, ConstantsAssumption DEF TypeOK, View
  <2>2. ~(view[b][c] > 0)
    BY <1>0, <1>1, <1>2, <1>3 DEF Pairs, Pair, Loose
  <2> QED BY <1>0, <1>3, <2>1, <2>2 DEF AllSound, Sound
<1>7. Mates(c) = {}
  BY <1>1, <1>2, <1>6 DEF Mates, Members, GroupOf, Joining, Empty
<1>8. GroupOf(c)' = view[b] /\ Mates(c)' = Members(view[b]) \ {c}
  BY <1>5, <1>4 DEF Mates, GroupOf, Joining, Members
<1>9. AllSound'
  <2>1. \A a \in Agents : server'[a] # Stuck /\ pc'[a] # "hung"
    BY <1>0, <1>4, FreeNotStuck DEF AllSound, Sound, TypeOK
  <2>2. \A a \in Agents : pc[a] = "leaving" => pc'[a] = "leaving"
    BY <1>0, <1>1, <1>2, <1>4 DEF TypeOK
  <2> QED BY <1>0, <1>4, <2>1, <2>2, SoundKept DEF AllSound, Sound
<1>10. Sole(c)'
  <2>1. \A a \in Agents : pc'[a] # "idle" => pc[a] # "idle" \/ a = c
    BY <1>0, <1>4 DEF TypeOK
  <2> QED BY <1>0, <1>4, <2>1, SoleKept
<1>11. Agree(c)'
  BY <1>0, <1>4, AgreeKept
<1>12. Stage(c)'
  BY <1>0, <1>3, <1>4, <1>5, <1>6, <1>7 DEF Stage, Member
<1>13. ASSUME NEW x \in Agents \ {c} PROVE Pair(x, c)'
  <2>1. Loose(x, c)'
    BY <1>0, <1>1, <1>2, <1>4, <1>5, <1>7 DEF Pairs, Pair, Loose, Tie, Member
  <2>2. ASSUME x \in Mates(c)' PROVE Bound(x, c)'
    <3>1. view[b][x] > 0
      BY <1>8, <2>2 DEF Members
    <3>2. \A d \in Agents \ {c} : view[x][d] = view[b][d]
      BY <1>0, <1>3, <3>1 DEF Agree
    <3> QED BY <1>4, <1>5, <1>8, <3>2 DEF Bound
  <2> QED BY <2>1, <2>2 DEF Pair
<1> QED BY <1>3, <1>4, <1>8, <1>9, <1>10, <1>11, <1>12, <1>13 DEF Holds, OneCommand, Pairs

\* Connecting a to b touches that link only, and it is not closed.
LEMMA ConnectLink ==
  ASSUME TypeOK, NEW a \in Agents, NEW b \in Agents, Connect(a, b)
  PROVE  /\ link'[a][b] = IF link[a][b] = "none" THEN "pending" ELSE link[a][b]
         /\ \A x, y \in Agents : x # a \/ y # b => link'[x][y] = link[x][y]
         /\ \A x \in Agents : x # a => refs'[x] = refs[x]
  BY DEF Connect, TypeOK

\* A member has been called, and a member that is no leaver has params.
LEMMA MemberCalled ==
  ASSUME TypeOK, AllSound, NEW a \in Agents, Member(a)
  PROVE  calls[a] # 0 /\ params[a] # "none" /\ joined[a]
  BY DEF AllSound, Sound, Member, TypeOK

LEMMA ConnectSubscriberHolds ==
  ASSUME Base, NEW c \in Agents, Holds(c), NEW b \in Agents, NEW r \in conning[b],
         ConnectSubscriber(b, r)
  PROVE  Holds(c)'
<1> USE DEF storeVars, callVars, serveVars, netVars, faultVars
<1>0. TypeOK /\ Sole(c) /\ Agree(c) /\ Stage(c) /\ Pairs(c) /\ AllSound
  BY DEF Base, GroupInv, Holds, OneCommand
<1>1. r[1] = c /\ b \in Agents \ {c}
  BY <1>0 DEF Sole
<1>2. b \in Mates(c) /\ pc[c] # "leaving"
  BY <1>0, <1>1 DEF Pairs, Pair, Loose
<1>3. Member(b)
  BY <1>0, <1>1, <1>2 DEF Pairs, Pair, Bound, Mates, Members, Member
<1>4. /\ conning' = [conning EXCEPT ![b] = @ \ {r}] /\ Connect(b, c)
      /\ adding' = [adding EXCEPT ![b] = @ \cup {r}] /\ up' = up
      /\ UNCHANGED <<storeVars, callVars, server, inbox, acked, wedged, entered>>
  BY <1>0, <1>1, <1>3, MemberCalled DEF ConnectSubscriber, DataPanics, AllSound, Sound
<1>5. /\ link'[b][c] = IF link[b][c] = "none" THEN "pending" ELSE link[b][c]
      /\ \A x, y \in Agents : x # b \/ y # c => link'[x][y] = link[x][y]
      /\ \A x \in Agents : x # b => refs'[x] = refs[x]
  BY <1>0, <1>4, ConnectLink
<1>6. \A a \in Agents : conning'[a] \cup adding'[a] = conning[a] \cup adding[a]
  BY <1>0, <1>4 DEF TypeOK
<1>7. AllSound'
  <2>1. \A a \in Agents : link'[a][a] = link[a][a]
    BY <1>1, <1>5
  <2>2. \A a \in Agents : calls[a] = 0 => refs'[a] = refs[a]
    BY <1>0, <1>3, <1>5, MemberCalled
  <2> QED BY <1>0, <1>4, <2>1, <2>2, SoundKept DEF AllSound, Sound
<1>8. Sole(c)'
  BY <1>0, <1>4, <1>6, SoleKept
<1>9. Agree(c)'
  BY <1>0, <1>4, <1>5, AgreeKept
<1>10. Stage(c)'
  BY <1>0, <1>2, <1>4, StageKept DEF Answers, Stage
<1>11. Pairs(c)'
  <2> SUFFICES ASSUME NEW x \in Agents \ {c} PROVE Pair(x, c)'
    BY DEF Pairs
  <2>1. Pair(x, c)
    BY <1>0 DEF Pairs
  <2>2. link'[c][x] = link[c][x]
    BY <1>1, <1>5
  <2>3. link'[x][c] = link[x][c] \/ (link[x][c] # "live" /\ Member(x) /\ x \in Mates(c))
    BY <1>2, <1>3, <1>5
  <2> QED BY <1>4, <1>6, <2>1, <2>2, <2>3, PairKept
<1> QED BY <1>7, <1>8, <1>9, <1>10, <1>11 DEF Holds, OneCommand

LEMMA AddSubscriberHolds ==
  ASSUME Base, NEW c \in Agents, Holds(c), NEW b \in Agents, NEW r \in adding[b],
         AddSubscriber(b, r)
  PROVE  Holds(c)'
<1> USE DEF storeVars, callVars, serveVars, netVars, faultVars
<1>0. TypeOK /\ Sole(c) /\ Agree(c) /\ Stage(c) /\ Pairs(c) /\ AllSound
  BY DEF Base, GroupInv, Holds, OneCommand
<1>1. r[1] = c /\ b \in Agents \ {c}
  BY <1>0 DEF Sole
<1>2. b \in Mates(c)
  BY <1>0, <1>1 DEF Pairs, Pair, Loose
<1>3. \A a \in Agents : adding'[a] \subseteq adding[a]
  BY <1>0 DEF AddSubscriber, TypeOK
<1>4. \A a \in Agents : \A x \in subs'[a] : x \in subs[a] \/ (a = b /\ x = c)
  BY <1>0, <1>1 DEF AddSubscriber, TypeOK
<1>5. AllSound'
  BY <1>0, <1>1, <1>4, SoundKept DEF AddSubscriber, AllSound, Sound
<1>6. Sole(c)'
  BY <1>0, <1>3, SoleKept DEF AddSubscriber
<1>7. Agree(c)'
  BY <1>0, <1>4, AgreeKept DEF AddSubscriber
<1>8. Stage(c)'
  <2>1. subs'[c] = subs[c]
    BY <1>0, <1>1 DEF AddSubscriber, TypeOK
  <2> QED BY <1>0, <2>1, StageKept DEF Answers, AddSubscriber, Stage
<1>9. Pairs(c)'
  <2> SUFFICES ASSUME NEW x \in Agents \ {c} PROVE Pair(x, c)'
    BY DEF Pairs
  <2>1. Pair(x, c)
    BY <1>0 DEF Pairs
  <2>2. c \in subs'[x] => c \in subs[x] \/ x \in Mates(c)
    BY <1>2, <1>4
  <2>3. conning'[x] \cup adding'[x] # {} => conning[x] \cup adding[x] # {}
    BY <1>3 DEF AddSubscriber
  <2> QED BY <2>1, <2>2, <2>3, PairKept DEF AddSubscriber
<1> QED BY <1>5, <1>6, <1>7, <1>8, <1>9 DEF Holds, OneCommand

-----------------------------------------------------------------------------
(* Statuses.                                                                *)

LEMMA GoLiveHolds ==
  ASSUME Base, NEW c \in Agents, Holds(c), NEW a \in Agents, NEW b \in Agents, GoLive(a, b)
  PROVE  Holds(c)'
<1> USE DEF storeVars, callVars, serveVars, netVars, faultVars
<1>0. TypeOK /\ Sole(c) /\ Agree(c) /\ Stage(c) /\ Pairs(c) /\ AllSound
  BY DEF Base, GroupInv, Holds, OneCommand
<1>1. link[a][b] = "pending" /\ a # b
  BY <1>0 DEF GoLive, AllSound, Sound
<1>2. a = c \/ b = c
  BY <1>0, <1>1 DEF Agree
<1>3. /\ link'[a][b] = "live"
      /\ \A x, y \in Agents : x # a \/ y # b => link'[x][y] = link[x][y]
  BY <1>0 DEF GoLive, TypeOK
<1>4. AllSound'
  BY <1>0, <1>1, <1>3, SoundKept DEF GoLive, AllSound, Sound
<1>5. Sole(c)'
  BY <1>0, SoleKept DEF GoLive
<1>6. Agree(c)'
  BY <1>0, <1>2, <1>3, AgreeKept DEF GoLive
<1>7. Stage(c)'
  <2>1. pc[c] = "leaving" => link'[c] = link[c]
    BY <1>0, <1>1, <1>2 DEF GoLive, Stage, TypeOK
  <2> QED BY <1>0, <2>1, StageKept DEF Answers, GoLive, Stage
<1>8. Pairs(c)'
  <2> SUFFICES ASSUME NEW x \in Agents \ {c} PROVE Pair(x, c)'
    BY DEF Pairs
  <2>1. Pair(x, c)
    BY <1>0 DEF Pairs
  <2>2. link'[c][x] = link[c][x] \/ (link'[c][x] # "none" /\ x \in Mates(c))
    BY <1>1, <1>3, <2>1 DEF Pair, Loose
  <2>3. link'[x][c] = link[x][c] \/ (link[x][c] # "live" /\ Member(x) /\ x \in Mates(c))
    BY <1>1, <1>3, <2>1 DEF Pair, Loose, Tie
  <2> QED BY <2>1, <2>2, <2>3, PairKept DEF GoLive
<1> QED BY <1>4, <1>5, <1>6, <1>7, <1>8 DEF Holds, OneCommand

\* A status is taken: the rest of the inbox stays.
LEMMA TakeStatus ==
  ASSUME TypeOK, NEW b \in Agents, NEW s, Take(b, s)
  PROVE  /\ inbox'[b] = inbox[b] \ {s}
         /\ \A x \in Agents : x # b => inbox'[x] = inbox[x]
         /\ \A x \in Agents : inbox'[x] \subseteq inbox[x]
  BY DEF Take, TypeOK

LEMMA LoseStatusHolds ==
  ASSUME Base, NEW c \in Agents, Holds(c), NEW b \in Agents, NEW s \in inbox[b],
         LoseStatus(b, s)
  PROVE  Holds(c)'
<1> USE DEF storeVars, callVars, serveVars, netVars, faultVars
<1>0. TypeOK /\ Sole(c) /\ Agree(c) /\ Stage(c) /\ Pairs(c) /\ AllSound
  BY DEF Base, GroupInv, Holds, OneCommand
<1>1. s.from = c /\ b \in Agents \ {c} /\ link[b][c] # "live"
  BY <1>0 DEF LoseStatus, Sole
<1>2. s.kind \notin {"active", "inactive"}
  BY <1>0, <1>1 DEF Pairs, Pair, Loose, Bound
<1>3. /\ \A x \in Agents : inbox'[x] \subseteq inbox[x]
      /\ inbox'[b] = inbox[b] \ {s}
      /\ \A x \in Agents : x # b => inbox'[x] = inbox[x]
  BY <1>0, TakeStatus DEF LoseStatus
<1>4. AllSound'
  BY <1>0, SoundKept DEF LoseStatus, AllSound, Sound
<1>5. Sole(c)'
  BY <1>0, <1>3, SoleKept DEF LoseStatus
<1>6. Agree(c)'
  BY <1>0, AgreeKept DEF LoseStatus
<1>7. Stage(c)'
  BY <1>0, StageKept DEF Answers, LoseStatus, Stage
<1>8. Pairs(c)'
  <2> SUFFICES ASSUME NEW x \in Agents \ {c} PROVE Pair(x, c)'
    BY DEF Pairs
  <2>1. Pair(x, c)
    BY <1>0 DEF Pairs
  <2>2. \A t \in inbox[x] : t.kind \in {"active", "inactive"} => t \in inbox'[x]
    BY <1>2, <1>3
  <2> QED BY <1>3, <2>1, <2>2, PairKept DEF LoseStatus
<1> QED BY <1>4, <1>5, <1>6, <1>7, <1>8 DEF Holds, OneCommand

LEMMA AnswerHelloHolds ==
  ASSUME Base, NEW c \in Agents, Holds(c), NEW b \in Agents, NEW s \in inbox[b],
         AnswerHello(b, s)
  PROVE  Holds(c)'
<1> USE DEF storeVars, callVars, serveVars, netVars, faultVars
<1>0. TypeOK /\ Sole(c) /\ Agree(c) /\ Stage(c) /\ Pairs(c) /\ AllSound
  BY DEF Base, GroupInv, Holds, OneCommand
<1>1. /\ \A x \in Agents : inbox'[x] \subseteq inbox[x]
      /\ inbox'[b] = inbox[b] \ {s}
      /\ \A x \in Agents : x # b => inbox'[x] = inbox[x]
  BY <1>0, TakeStatus DEF AnswerHello
<1>2. AllSound'
  BY <1>0, SoundKept DEF AnswerHello, AllSound, Sound
<1>3. Sole(c)'
  BY <1>0, <1>1, SoleKept DEF AnswerHello
<1>4. Agree(c)'
  BY <1>0, AgreeKept DEF AnswerHello
<1>5. Stage(c)'
  BY <1>0, StageKept DEF Answers, AnswerHello, Stage
<1>6. Pairs(c)'
  <2> SUFFICES ASSUME NEW x \in Agents \ {c} PROVE Pair(x, c)'
    BY DEF Pairs
  <2>1. Pair(x, c)
    BY <1>0 DEF Pairs
  <2>2. \A t \in inbox[x] : t.kind \in {"active", "inactive"} => t \in inbox'[x]
    BY <1>1 DEF AnswerHello
  <2> QED BY <1>1, <2>1, <2>2, PairKept DEF AnswerHello
<1> QED BY <1>2, <1>3, <1>4, <1>5, <1>6 DEF Holds, OneCommand

LEMMA AddMemberHolds ==
  ASSUME Base, NEW c \in Agents, Holds(c), NEW b \in Agents, NEW s \in inbox[b],
         AddMember(b, s)
  PROVE  /\ Holds(c)' /\ b # c /\ Member(b) /\ Member(c) /\ UNCHANGED <<pc, group>>
         /\ \A x \in Agents : x # b => view'[x] = view[x]
         /\ \A y \in Agents : y # c => view'[b][y] = view[b][y]
         /\ view'[b][c] = view[c][c]
<1> USE DEF storeVars, callVars, serveVars, netVars, faultVars
<1>0. TypeOK /\ Sole(c) /\ Agree(c) /\ Stage(c) /\ Pairs(c) /\ AllSound
  BY DEF Base, GroupInv, Holds, OneCommand
<1>1. s.from = c /\ b \in Agents \ {c} /\ s.kind = "active" /\ s \in inbox[b]
  BY <1>0 DEF AddMember, Sole
<1>2. pc[c] = "idle" /\ Member(c) /\ b \in Mates(c) /\ s.call = view[c][c]
  BY <1>0, <1>1 DEF Pairs, Pair, Loose
<1>3. Member(b)
  BY <1>0, <1>1, <1>2 DEF Pairs, Pair, Bound, Mates, Members, Member
<1>4. /\ \A x \in Agents : inbox'[x] \subseteq inbox[x]
      /\ inbox'[b] = inbox[b] \ {s}
      /\ \A x \in Agents : x # b => inbox'[x] = inbox[x]
  BY <1>0, TakeStatus DEF AddMember
<1>5. /\ \A x, y \in Agents : x # b \/ y # c => view'[x][y] = view[x][y]
      /\ view'[b][c] = view[c][c]
      /\ \A x \in Agents : x # b => view'[x] = view[x]
      /\ \A x \in Agents : joined[x] => joined'[x]
      /\ \A x \in Agents : x # b => joined'[x] = joined[x]
  BY <1>0, <1>1, <1>2 DEF AddMember, TypeOK, View
<1>6. AllSound'
  <2>1. \A a \in Agents : view'[a] = view[a] \/ (Member(a) /\ view'[a][a] = view[a][a])
    BY <1>1, <1>3, <1>5
  <2>2. \A a \in Agents : /\ Member(a) => joined'[a] /\ params'[a] = params[a]
                          /\ calls[a] = 0 => joined'[a] = joined[a]
    BY <1>0, <1>3, <1>5, MemberCalled DEF AddMember
  <2> QED BY <1>0, <2>1, <2>2, SoundKept DEF AddMember, AllSound, Sound
<1>7. Sole(c)'
  BY <1>0, <1>4, SoleKept DEF AddMember
<1>8. Agree(c)'
  BY <1>0, <1>5, AgreeKept DEF AddMember
<1>9. Stage(c)'
  BY <1>0, <1>1, <1>2, <1>5, StageKept DEF AddMember, Stage
<1>10. ASSUME NEW x \in Agents \ {c}, x # b PROVE Pair(x, c)'
  <2>1. Pair(x, c) /\ inbox'[x] = inbox[x] /\ view'[x] = view[x] /\ view'[c] = view[c]
    BY <1>0, <1>1, <1>4, <1>5, <1>10 DEF Pairs
  <2> QED BY <2>1, PairKept DEF AddMember
<1>11. Pair(b, c)'
  <2>0. Pair(b, c) /\ view'[c] = view[c]
    BY <1>0, <1>1, <1>5 DEF Pairs
  <2>1. GroupOf(c)' = GroupOf(c) /\ Mates(c)' = Mates(c) /\ Member(c)' /\ Member(b)'
    BY <1>1, <1>2, <1>3, <1>5, <2>0 DEF AddMember, GroupOf, Mates, Members, Member
  <2>2. Tie(b, c)'
    BY <1>2, <2>1 DEF Tie
  <2>3. Loose(b, c)'
    BY <1>1, <1>2, <1>4, <1>5, <2>0, <2>1, <2>2 DEF AddMember, Pair, Loose
  <2>4. Bound(b, c)'
    BY <1>1, <1>2, <1>5, <2>0, <2>1 DEF AddMember, Pair, Bound
  <2> QED BY <2>3, <2>4 DEF Pair
<1>12. UNCHANGED <<pc, group>>
  BY DEF AddMember
<1> QED BY <1>1, <1>2, <1>3, <1>5, <1>6, <1>7, <1>8, <1>9, <1>10, <1>11, <1>12
  DEF Holds, OneCommand, Pairs

\* What is closed, when the filter stays.
LEMMA ClosedLink ==
  ASSUME TypeOK, NEW a \in Agents, NEW P, NEW n \in Nat, n > 0, link' = Closed(a, P, n)
  PROVE  /\ \A y \in Agents : link'[a][y] = IF y \in P THEN "none" ELSE link[a][y]
         /\ \A x, y \in Agents : x # a => link'[x][y] = link[x][y]
  BY DEF Closed, TypeOK

LEMMA RemoveMemberHolds ==
  ASSUME Base, NEW c \in Agents, Holds(c), NEW b \in Agents, NEW s \in inbox[b],
         RemoveMember(b, s)
  PROVE  /\ Holds(c)' /\ b # c /\ Member(b) /\ ~Member(c) /\ UNCHANGED <<pc, group>>
         /\ \A x \in Agents : x # b => view'[x] = view[x]
         /\ \A y \in Agents : y # c => view'[b][y] = view[b][y]
         /\ view'[b][c] = 0
<1> USE DEF storeVars, callVars, serveVars, netVars, faultVars
<1>0. TypeOK /\ Sole(c) /\ Agree(c) /\ Stage(c) /\ Pairs(c) /\ AllSound
  BY DEF Base, GroupInv, Holds, OneCommand
<1>1. s.from = c /\ b \in Agents \ {c} /\ s.kind = "inactive" /\ s \in inbox[b]
  BY <1>0 DEF RemoveMember, Sole
<1>2. pc[c] = "idle" /\ ~Member(c) /\ link[b][c] = "live" /\ s.call = calls[c]
  BY <1>0, <1>1 DEF Pairs, Pair, Loose
<1>3. Member(b)
  BY <1>0, <1>1, <1>2 DEF Pairs, Pair, Loose
<1>4. refs[b] \in Nat /\ refs[b] > 0
  <2>1. leaves[b] = 0
    BY <1>0, <1>1, <1>3 DEF AllSound, Sound, Sole
  <2>2. ~Unfiltered(b)
    BY <1>1, <1>2 DEF Unfiltered
  <2> QED BY <1>0, <2>1, <2>2 DEF Base, WireInv, FilterInv, TypeOK
<1>5. view[c] = Empty /\ Mates(c) = {}
  BY <1>0, <1>2 DEF AllSound, Sound, Mates, GroupOf, Joining, Members, Empty
<1>6. /\ link' = Closed(b, {c}, refs[b]) /\ Forget(b, c)
      /\ Take(b, s)
      /\ UNCHANGED <<up, wedged, joined, params, callVars, serveVars, refs, acked, entered>>
  BY <1>0, <1>1, <1>2, <1>3, MemberCalled DEF RemoveMember, DataPanics, AllSound, Sound
<1>7. /\ \A x \in Agents : inbox'[x] \subseteq inbox[x]
      /\ inbox'[b] = inbox[b] \ {s}
      /\ \A x \in Agents : x # b => inbox'[x] = inbox[x]
  BY <1>0, <1>6, TakeStatus
<1>8. /\ link'[b][c] = "none"
      /\ \A x, y \in Agents : x # b \/ y # c => link'[x][y] = link[x][y]
  <2>1. PICK n \in Nat : n = refs[b] /\ n > 0
    BY <1>4
  <2>2. link' = Closed(b, {c}, n)
    BY <1>6, <2>1
  <2>3. /\ \A y \in Agents : link'[b][y] = IF y \in {c} THEN "none" ELSE link[b][y]
        /\ \A x, y \in Agents : x # b => link'[x][y] = link[x][y]
    BY <1>0, <2>1, <2>2, ClosedLink
  <2> QED BY <2>3
<1>9. /\ \A x, y \in Agents : x # b \/ y # c => view'[x][y] = view[x][y]
      /\ view'[b][c] = 0
      /\ \A x \in Agents : x # b => view'[x] = view[x] /\ subs'[x] = subs[x]
      /\ subs'[b] = subs[b] \ {c}
  BY <1>0, <1>6 DEF Forget, TypeOK, View
<1>10. AllSound'
  <2>1. \A a \in Agents : view'[a] = view[a] \/ (Member(a) /\ view'[a][a] = view[a][a])
    BY <1>1, <1>3, <1>9
  <2>2. \A a \in Agents : link'[a][a] = link[a][a] /\ (a \in subs'[a] => a \in subs[a])
    BY <1>1, <1>8, <1>9
  <2> QED BY <1>0, <1>6, <2>1, <2>2, SoundKept DEF AllSound, Sound
<1>11. Sole(c)'
  BY <1>0, <1>6, <1>7, SoleKept
<1>12. Agree(c)'
  BY <1>0, <1>8, <1>9, AgreeKept
<1>13. Stage(c)'
  BY <1>0, <1>1, <1>2, <1>6, <1>9, StageKept DEF Stage
<1>14. ASSUME NEW x \in Agents \ {c}, x # b PROVE Pair(x, c)'
  <2>1. Pair(x, c) /\ inbox'[x] = inbox[x] /\ view'[x] = view[x] /\ view'[c] = view[c]
        /\ link'[x][c] = link[x][c] /\ link'[c][x] = link[c][x] /\ subs'[x] = subs[x]
    BY <1>0, <1>1, <1>7, <1>8, <1>9, <1>14 DEF Pairs
  <2> QED BY <1>6, <2>1, PairKept
<1>15. Pair(b, c)'
  <2>1. Pair(b, c) /\ view'[c] = view[c] /\ link'[c][b] = link[c][b] /\ pc'[c] = "idle"
    BY <1>0, <1>1, <1>2, <1>6, <1>8, <1>9 DEF Pairs
  <2>2. Mates(c)' = {}
    BY <1>5, <2>1 DEF Mates, GroupOf, Joining, Members, Empty
  <2>3. \A t \in inbox'[b] : t.kind # "inactive"
    <3> SUFFICES ASSUME NEW t \in inbox[b], t.kind = "inactive" PROVE t = s
      BY <1>7
    <3>1. t.from = s.from /\ t.call = s.call /\ t \in Status /\ s \in Status
      BY <1>0, <1>1, <1>2, <2>1 DEF Pair, Loose, Sole, TypeOK
    <3> QED BY <1>1, <3>1 DEF Status
  <2>4. Loose(b, c)'
    BY <1>2, <1>5, <1>6, <1>7, <1>8, <1>9, <2>1, <2>3 DEF Pair, Loose
  <2> QED BY <2>2, <2>4 DEF Pair
<1> QED BY <1>1, <1>2, <1>3, <1>6, <1>9, <1>10, <1>11, <1>12, <1>13, <1>14, <1>15
  DEF Holds, OneCommand, Pairs

-----------------------------------------------------------------------------
(* The steps of a joiner.                                                   *)

\* What a joiner and the others know does not depend on how far it has come
\* before it stores itself.
LEMMA PairAdvances ==
  ASSUME NEW c \in Agents, NEW b \in Agents \ {c}, Pair(b, c),
         UNCHANGED <<view, group, calls, link, inbox, conning, adding, subs>>,
         pc[c] \in {"accepted", "subscribing", "connecting", "hello"},
         pc'[c] \in Joining,
         pc'[c] = "connecting" => b \notin Mates(c) \/ b \in todo'[c] \/ link[c][b] # "none",
         pc'[c] \in {"hello", "notify"} => b \notin Mates(c) \/ link[c][b] # "none"
  PROVE  Pair(b, c)'
<1>1. Mates(c)' = Mates(c) /\ GroupOf(c)' = GroupOf(c) /\ Member(c)' = Member(c)
      /\ Member(b)' = Member(b)
  BY DEF Mates, GroupOf, Members, Member, Joining
<1>2. Tie(b, c)' <=> Tie(b, c)
  BY <1>1 DEF Tie
<1>3. Loose(b, c)'
  BY <1>1, <1>2 DEF Pair, Loose, Joining
<1>4. b \in Mates(c) => Bound(b, c)'
  BY <1>1 DEF Pair, Bound, Joining
<1> QED BY <1>1, <1>3, <1>4 DEF Pair

LEMMA StartSubscribingHolds ==
  ASSUME Base, NEW c \in Agents, Holds(c), NEW j \in Agents, StartSubscribing(j)
  PROVE  Holds(c)'
<1> USE DEF storeVars, callVars, serveVars, netVars, faultVars
<1>0. TypeOK /\ Sole(c) /\ Agree(c) /\ Stage(c) /\ Pairs(c) /\ AllSound
  BY DEF Base, GroupInv, Holds, OneCommand
<1>1. j = c /\ pc[c] = "accepted"
  BY OwnCommand DEF StartSubscribing, Holds
<1>2. /\ pc'[c] = "subscribing"
      /\ \A x \in Agents : x # c => /\ pc'[x] = pc[x] /\ joined'[x] = joined[x]
                                    /\ params'[x] = params[x]
  BY <1>0, <1>1 DEF StartSubscribing, TypeOK
<1>3. ~Member(c) /\ calls[c] > 0
  BY <1>0, <1>1 DEF Stage, Base, GroupInv, CallInv, CallFacts
<1>4. AllSound'
  <2>1. \A a \in Agents :
            /\ pc'[a] # "hung"
            /\ Member(a) => joined'[a] /\ params'[a] = params[a]
            /\ pc[a] = "leaving" => pc'[a] = "leaving"
            /\ calls[a] = 0 => joined'[a] = joined[a]
    BY <1>0, <1>1, <1>2, <1>3, MemberCalled DEF AllSound, Sound
  <2> QED BY <1>0, <2>1, SoundKept DEF StartSubscribing, AllSound, Sound
<1>5. Sole(c)' /\ Agree(c)'
  BY <1>0, <1>2, SoleKept, AgreeKept DEF StartSubscribing
<1>6. Stage(c)'
  <2>1. Mates(c)' = Mates(c)
    BY <1>1, <1>2 DEF StartSubscribing, Mates, GroupOf, Members, Joining
  <2> QED BY <1>0, <1>1, <1>2, <2>1 DEF StartSubscribing, Stage, Member, Joining
<1>7. Pairs(c)'
  BY <1>0, <1>1, <1>2, PairAdvances DEF StartSubscribing, Pairs, Joining
<1> QED BY <1>4, <1>5, <1>6, <1>7 DEF Holds, OneCommand

\* The group received does not list the joiner.
LEMMA NeverOneself ==
  ASSUME Base, NEW c \in Agents, Holds(c), NEW j \in Agents
  PROVE  ~AcceptOneself(j)
<1> SUFFICES ASSUME AcceptOneself(j) PROVE FALSE
  OBVIOUS
<1>1. j = c /\ pc[c] = "subscribing" /\ c \in todo[c]
  BY OwnCommand DEF AcceptOneself, Holds
<1>2. c \in Members(group[c].view)
  BY <1>1 DEF Base, GroupInv, CallInv, CallFacts
<1> QED BY <1>1, <1>2, MateView DEF Base, GroupInv, Holds, Joining

LEMMA StartConnectingHolds ==
  ASSUME Base, NEW c \in Agents, Holds(c), NEW j \in Agents, StartConnecting(j)
  PROVE  Holds(c)'
<1> USE DEF storeVars, callVars, serveVars, netVars, faultVars
<1>0. TypeOK /\ Sole(c) /\ Agree(c) /\ Stage(c) /\ Pairs(c) /\ AllSound
  BY DEF Base, GroupInv, Holds, OneCommand
<1>1. j = c /\ pc[c] = "subscribing"
  BY OwnCommand DEF StartConnecting, Holds
<1>2. /\ pc'[c] = "connecting" /\ todo'[c] = Members(group[c].view)
      /\ \A x \in Agents : x # c => pc'[x] = pc[x]
  BY <1>0, <1>1 DEF StartConnecting, TypeOK
<1>3. AllSound'
  <2>1. \A a \in Agents : pc'[a] # "hung" /\ (pc[a] = "leaving" => pc'[a] = "leaving")
    BY <1>0, <1>1, <1>2 DEF AllSound, Sound
  <2> QED BY <1>0, <2>1, SoundKept DEF StartConnecting, AllSound, Sound
<1>4. Sole(c)' /\ Agree(c)'
  BY <1>0, <1>2, SoleKept, AgreeKept DEF StartConnecting
<1>5. Mates(c) = Members(group[c].view)
  BY <1>0, <1>1, JoinersMates DEF Joining
<1>6. Stage(c)'
  <2>1. Mates(c)' = Mates(c)
    BY <1>1, <1>2 DEF StartConnecting, Mates, GroupOf, Members, Joining
  <2> QED BY <1>0, <1>1, <1>2, <1>5, <2>1 DEF StartConnecting, Stage, Member, Joining
<1>7. Pairs(c)'
  BY <1>0, <1>1, <1>2, <1>5, PairAdvances DEF StartConnecting, Pairs, Joining
<1> QED BY <1>3, <1>4, <1>6, <1>7 DEF Holds, OneCommand

LEMMA ConnectMemberHolds ==
  ASSUME Base, NEW c \in Agents, Holds(c), NEW j \in Agents, NEW m \in Agents,
         ConnectMember(j, m)
  PROVE  Holds(c)'
<1> USE DEF storeVars, callVars, serveVars, netVars, faultVars
<1>0. TypeOK /\ Sole(c) /\ Agree(c) /\ Stage(c) /\ Pairs(c) /\ AllSound
  BY DEF Base, GroupInv, Holds, OneCommand
<1>1. j = c /\ pc[c] = "connecting" /\ m \in todo[c]
  BY OwnCommand DEF ConnectMember, Holds
<1>2. m \in Mates(c)
  BY <1>0, <1>1 DEF Stage
<1>3. /\ Connect(c, m) /\ todo' = [todo EXCEPT ![c] = @ \ {m}]
      /\ subs' = [subs EXCEPT ![c] = IF c \in Publishers THEN @ \cup {m} ELSE @]
      /\ UNCHANGED <<pc, joined, params, view, calls, leaves, acceptor, group, sums,
                     serveVars, inbox, acked, faultVars, entered>>
  BY <1>0, <1>1 DEF ConnectMember, AllSound, Sound
<1>4. /\ link'[c][m] = IF link[c][m] = "none" THEN "pending" ELSE link[c][m]
      /\ \A x, y \in Agents : x # c \/ y # m => link'[x][y] = link[x][y]
      /\ \A x \in Agents : x # c => refs'[x] = refs[x]
  BY <1>0, <1>3, ConnectLink
<1>5. m \in Agents \ {c}
  BY <1>2 DEF Mates
<1>6. calls[c] > 0
  BY <1>1 DEF Base, GroupInv, CallInv, CallFacts
<1>7. \A x \in Agents : \A y \in subs'[x] : y \in subs[x] \/ (x = c /\ y = m)
  BY <1>0, <1>3 DEF TypeOK
<1>8. AllSound'
  <2>1. \A a \in Agents : /\ link'[a][a] = link[a][a] /\ (a \in subs'[a] => a \in subs[a])
                          /\ calls[a] = 0 => refs'[a] = refs[a]
    BY <1>4, <1>5, <1>6, <1>7
  <2> QED BY <1>0, <1>3, <2>1, SoundKept DEF AllSound, Sound
<1>9. Sole(c)' /\ Agree(c)'
  BY <1>0, <1>3, <1>4, <1>7, SoleKept, AgreeKept
<1>10. Stage(c)'
  <2>1. subs'[c] \subseteq Mates(c)
    BY <1>0, <1>2, <1>7 DEF Stage
  <2>2. todo'[c] \subseteq todo[c]
    BY <1>0, <1>3 DEF TypeOK
  <2> QED BY <1>0, <1>1, <1>3, <2>1, <2>2, StageKept
<1>11. Pairs(c)'
  <2> SUFFICES ASSUME NEW x \in Agents \ {c} PROVE Pair(x, c)'
    BY DEF Pairs
  <2>1. Pair(x, c) /\ link'[x][c] = link[x][c]
    BY <1>0, <1>4 DEF Pairs
  <2>2. link'[c][x] = link[c][x] \/ (link'[c][x] # "none" /\ x \in Mates(c))
    BY <1>2, <1>4
  <2>3. c \in subs'[x] => c \in subs[x]
    BY <1>7
  <2>4. CASE x # m
    <3>1. x \in todo[c] => x \in todo'[c]
      BY <1>0, <1>3, <2>4 DEF TypeOK
    <3> QED BY <1>3, <2>1, <2>2, <2>3, <3>1, PairKept
  <2>5. CASE x = m
    <3>1. link'[c][m] # "none" /\ Mates(c)' = Mates(c) /\ GroupOf(c)' = GroupOf(c)
          /\ Member(c)' = Member(c) /\ Member(m)' = Member(m)
      BY <1>3, <1>4 DEF Mates, GroupOf, Members, Member
    <3>2. Loose(m, c)'
      BY <1>2, <1>3, <2>1, <2>3, <2>5, <3>1 DEF Pair, Loose, Tie
    <3>3. Bound(m, c)'
      BY <1>1, <1>2, <1>3, <2>1, <2>5, <3>1 DEF Pair, Bound
    <3> QED BY <2>5, <3>2, <3>3 DEF Pair
  <2> QED BY <2>4, <2>5
<1> QED BY <1>8, <1>9, <1>10, <1>11 DEF Holds, OneCommand

LEMMA FinishVerifyHolds ==
  ASSUME Base, NEW c \in Agents, Holds(c), NEW j \in Agents, FinishVerify(j)
  PROVE  /\ Holds(c)' /\ pc[c] = "connecting" /\ ~Member(c) /\ calls[c] > 0
         /\ view'[c][c] = calls[c] /\ Mates(c)' = Mates(c)
         /\ \A d \in Agents \ {c} : view'[c][d] = group[c].view[d]
         /\ \A x \in Agents : x # c => view'[x] = view[x]
<1> USE DEF storeVars, callVars, serveVars, netVars, faultVars
<1>0. TypeOK /\ Sole(c) /\ Agree(c) /\ Stage(c) /\ Pairs(c) /\ AllSound
  BY DEF Base, GroupInv, Holds, OneCommand
<1>1. j = c /\ pc[c] = "connecting" /\ todo[c] = {}
  BY OwnCommand DEF FinishVerify, Holds
<1>2. ValidJoin(c)
  BY <1>0, <1>1 DEF ValidJoin, Stage
<1>3. /\ joined' = [joined EXCEPT ![c] = TRUE]
      /\ view' = [view EXCEPT ![c] = [m \in Agents |->
            IF m = c THEN calls[c]
            ELSE IF group[c].view[m] > 0 THEN group[c].view[m] ELSE @[m]]]
      /\ pc' = [pc EXCEPT ![c] = "hello"]
      /\ UNCHANGED <<acceptor, group, sums, params, subs, calls, leaves, todo, serveVars,
                     netVars, faultVars>>
  BY <1>1, <1>2 DEF FinishVerify
<1>4. ~Member(c) /\ view[c] = Empty /\ leaves[c] = 0 /\ group[c].view[c] = 0
  BY <1>0, <1>1 DEF Stage, AllSound, Sound, Joining
<1>5. calls[c] > 0 /\ params[c] # "none"
  BY <1>1 DEF Base, GroupInv, CallInv, CallFacts
<1>6. group[c].view \in View /\ \A d \in Agents : group[c].view[d] \in Nat
  BY <1>0, ConstantsAssumption DEF TypeOK, Group, View
<1>7. /\ view'[c][c] = calls[c]
      /\ \A d \in Agents \ {c} : view'[c][d] = group[c].view[d]
      /\ \A x \in Agents : x # c => view'[x] = view[x]
  <2>1. view'[c] = [m \in Agents |-> IF m = c THEN calls[c]
                        ELSE IF group[c].view[m] > 0 THEN group[c].view[m] ELSE view[c][m]]
    BY <1>0, <1>3 DEF TypeOK
  <2>2. \A d \in Agents \ {c} : view[c][d] = 0
    BY <1>4 DEF Empty
  <2> QED BY <1>0, <1>3, <1>6, <2>1, <2>2 DEF TypeOK
<1>8. /\ pc'[c] = "hello" /\ joined'[c]
      /\ \A x \in Agents : x # c => pc'[x] = pc[x] /\ joined'[x] = joined[x]
  BY <1>0, <1>3 DEF TypeOK
<1>9. AllSound'
  <2> SUFFICES ASSUME NEW a \in Agents PROVE Sound(a)'
    BY DEF AllSound
  <2>1. CASE a = c
    BY <1>0, <1>3, <1>4, <1>5, <1>7, <1>8, <2>1 DEF AllSound, Sound, Member
  <2>2. CASE a # c
    BY <1>0, <1>3, <1>7, <1>8, <2>2 DEF AllSound, Sound, Member, Empty
  <2> QED BY <2>1, <2>2
<1>10. Sole(c)' /\ Agree(c)'
  BY <1>0, <1>3, <1>7, <1>8, SoleKept, AgreeKept
<1>11. /\ GroupOf(c)' = GroupOf(c) /\ Mates(c)' = Mates(c)
       /\ \A x \in Agents : x # c => Member(x)' = Member(x)
  BY <1>1, <1>3, <1>7, <1>8 DEF GroupOf, Mates, Members, Member, Joining
<1>12. Stage(c)'
  BY <1>0, <1>1, <1>3, <1>4, <1>5, <1>7, <1>8, <1>11 DEF Stage, Member, Joining
<1>13. ASSUME NEW b \in Agents \ {c} PROVE Pair(b, c)'
  <2>1. Pair(b, c)
    BY <1>0 DEF Pairs
  <2>2. Loose(b, c)'
    BY <1>1, <1>3, <1>7, <1>8, <1>11, <2>1 DEF Pair, Loose, Tie
  <2>3. b \in Mates(c) => Bound(b, c)'
    BY <1>1, <1>3, <1>7, <1>8, <1>11, <2>1 DEF Pair, Bound
  <2> QED BY <1>11, <2>2, <2>3 DEF Pair
<1> QED BY <1>1, <1>4, <1>5, <1>7, <1>11, <1>9, <1>10, <1>12, <1>13 DEF Holds, OneCommand, Pairs

\* What publishing does to the inboxes: those with a live link get the status.
LEMMA PublishInbox ==
  ASSUME TypeOK, NEW a \in Agents, NEW kind, NEW to, Publish(a, kind, to)
  PROVE  \A x \in Agents :
            /\ inbox[x] \subseteq inbox'[x]
            /\ \A s \in inbox'[x] : s \in inbox[x]
                  \/ /\ s.from = a /\ s.kind = kind /\ s.call = calls[a]
                     /\ x \in to /\ link[x][a] = "live"
            /\ x \in to /\ link[x][a] = "live" =>
                  \E s \in inbox'[x] : s.kind = kind /\ s.call = calls[a]
<1> DEFINE s == [kind |-> kind, from |-> a, call |-> calls[a]]
<1>1. s.from = a /\ s.kind = kind /\ s.call = calls[a]
  OBVIOUS
<1>2. inbox' = [b \in Agents |->
         IF b \in to /\ link[b][a] = "live" THEN inbox[b] \cup {s} ELSE inbox[b]]
  BY DEF Publish
<1> HIDE DEF s
<1>3. \A x \in Agents : inbox'[x] =
         IF x \in to /\ link[x][a] = "live" THEN inbox[x] \cup {s} ELSE inbox[x]
  BY <1>2
<1> QED BY <1>1, <1>3

LEMMA SayHelloHolds ==
  ASSUME Base, NEW c \in Agents, Holds(c), NEW j \in Agents, SayHello(j)
  PROVE  Holds(c)'
<1> USE DEF storeVars, callVars, serveVars, netVars, faultVars
<1>0. TypeOK /\ Sole(c) /\ Agree(c) /\ Stage(c) /\ Pairs(c) /\ AllSound
  BY DEF Base, GroupInv, Holds, OneCommand
<1>1. j = c /\ pc[c] = "hello"
  BY OwnCommand DEF SayHello, Holds
<1>2. /\ pc'[c] \in {"hello", "notify"}
      /\ \A x \in Agents : x # c => pc'[x] = pc[x]
  BY <1>0, <1>1 DEF SayHello, TypeOK
<1>3. \A x \in Agents : /\ inbox[x] \subseteq inbox'[x]
                        /\ \A s \in inbox'[x] : s \in inbox[x] \/
                              (s.from = c /\ s.kind = "hello" /\ link[x][c] = "live")
  BY <1>0, <1>1, PublishInbox DEF SayHello
<1>4. AllSound'
  <2>1. \A a \in Agents : pc'[a] # "hung" /\ (pc[a] = "leaving" => pc'[a] = "leaving")
    BY <1>0, <1>1, <1>2 DEF AllSound, Sound
  <2> QED BY <1>0, <2>1, SoundKept DEF SayHello, AllSound, Sound
<1>5. Sole(c)' /\ Agree(c)'
  <2>1. link[c][c] # "live"
    BY <1>0 DEF AllSound, Sound
  <2> QED BY <1>0, <1>2, <1>3, <2>1, SoleKept, AgreeKept DEF SayHello
<1>6. /\ GroupOf(c)' = GroupOf(c) /\ Mates(c)' = Mates(c)
      /\ \A x \in Agents : Member(x)' = Member(x)
  BY <1>1, <1>2 DEF SayHello, GroupOf, Mates, Members, Member, Joining
<1>7. Stage(c)'
  BY <1>0, <1>1, <1>2, <1>6 DEF SayHello, Stage, Joining
<1>8. ASSUME NEW b \in Agents \ {c} PROVE Pair(b, c)'
  <2>1. Pair(b, c)
    BY <1>0 DEF Pairs
  <2>2. \A s \in inbox'[b] : s.kind \in {"active", "inactive"} => s \in inbox[b]
    BY <1>3
  <2>3. Tie(b, c) => Tie(b, c)'
    BY <1>3, <1>6 DEF Tie
  <2>4. Loose(b, c)'
    BY <1>1, <1>2, <1>6, <2>1, <2>2, <2>3 DEF SayHello, Pair, Loose
  <2>5. b \in Mates(c) => Bound(b, c)'
    BY <1>1, <1>2, <1>6, <2>1 DEF SayHello, Pair, Bound
  <2> QED BY <1>6, <2>4, <2>5 DEF Pair
<1> QED BY <1>4, <1>5, <1>7, <1>8 DEF Holds, OneCommand, Pairs

LEMMA NotifyActiveHolds ==
  ASSUME Base, NEW c \in Agents, Holds(c), NEW j \in Agents, NotifyActive(j)
  PROVE  Holds(c)' /\ pc[c] = "notify" /\ Mates(c)' = Mates(c) /\ UNCHANGED view
<1> USE DEF storeVars, callVars, serveVars, netVars, faultVars
<1>0. TypeOK /\ Sole(c) /\ Agree(c) /\ Stage(c) /\ Pairs(c) /\ AllSound
  BY DEF Base, GroupInv, Holds, OneCommand
<1>1. j = c /\ pc[c] = "notify"
  BY OwnCommand DEF NotifyActive, Holds
<1>2. /\ pc'[c] = "idle" /\ sums'[c] = {}
      /\ \A x \in Agents : x # c => pc'[x] = pc[x]
  BY <1>0, <1>1 DEF NotifyActive, Return, TypeOK
<1>3. /\ Member(c) /\ leaves[c] = 0 /\ view[c][c] = calls[c] /\ group[c].view[c] = 0
      /\ \A d \in Agents \ {c} : view[c][d] = group[c].view[d]
  BY <1>0, <1>1 DEF Stage, Joining, AllSound, Sound
<1>4. Members(view[c]) \ {c} = Mates(c) /\ Members(group[c].view) = Mates(c)
  BY <1>1, <1>3 DEF Mates, GroupOf, Joining, Members
<1>5. \A b \in Mates(c) : b \in Agents \ {c} /\ leaves[b] = 0 /\ link[b][c] = "live"
  <2> SUFFICES ASSUME NEW b \in Mates(c)
               PROVE  b \in Agents \ {c} /\ leaves[b] = 0 /\ link[b][c] = "live"
    OBVIOUS
  <2>1. b \in Agents \ {c} /\ b \in Members(group[c].view)
    BY <1>4 DEF Mates, Members
  <2>2. Member(b)
    BY <1>0, <1>1, <2>1, MateView DEF Joining, Holds
  <2>3. leaves[b] = 0
    BY <1>0, <2>1, <2>2 DEF AllSound, Sound, Sole
  <2>4. Heard(b, c)
    BY <1>1, <2>1 DEF Base, WireInv, NotifyInv, Heard
  <2>5. link[b][c] = "live"
    BY <1>3, <2>1, <2>3, <2>4 DEF Base, WireInv, HeardInv
  <2> QED BY <2>1, <2>3, <2>5
<1>6. \A x \in Agents :
         /\ inbox[x] \subseteq inbox'[x]
         /\ \A s \in inbox'[x] : s \in inbox[x] \/
               /\ s.from = c /\ s.kind = "active" /\ s.call = view[c][c]
               /\ x \in Mates(c)
         /\ x \in Mates(c) =>
               \E s \in inbox'[x] : s.kind = "active" /\ s.call = view[c][c]
  <2>1. Publish(c, "active", Mates(c))
    BY <1>1, <1>4 DEF NotifyActive
  <2> QED BY <1>0, <1>3, <1>5, <2>1, PublishInbox
<1>7. AllSound'
  <2>1. \A a \in Agents : /\ pc'[a] # "hung" /\ (pc[a] = "leaving" => pc'[a] = "leaving")
                          /\ calls[a] = 0 => sums'[a] = sums[a]
    BY <1>0, <1>1, <1>2, <1>3, MemberCalled DEF NotifyActive, Return, AllSound, Sound, TypeOK
  <2> QED BY <1>0, <2>1, SoundKept DEF NotifyActive, AllSound, Sound
<1>8. Sole(c)' /\ Agree(c)'
  BY <1>0, <1>2, <1>5, <1>6, SoleKept, AgreeKept DEF NotifyActive
<1>9. /\ GroupOf(c)' = view[c] /\ Mates(c)' = Mates(c)
      /\ \A x \in Agents : Member(x)' = Member(x)
  BY <1>1, <1>2, <1>4 DEF NotifyActive, GroupOf, Mates, Members, Member, Joining
<1>10. Stage(c)'
  BY <1>0, <1>1, <1>2, <1>9 DEF NotifyActive, Stage, Joining
<1>11. ASSUME NEW b \in Agents \ {c} PROVE Pair(b, c)'
  <2>1. Pair(b, c)
    BY <1>0 DEF Pairs
  <2>2. \A s \in inbox[b] : s.kind \notin {"active", "inactive"}
    BY <1>1, <2>1 DEF Pair, Loose
  <2>3. ~(view[b][c] > 0)
    BY <1>1, <2>1 DEF Pair, Loose
  <2>4. Tie(b, c) => Tie(b, c)'
    BY <1>6, <1>9 DEF Tie
  <2>5. Loose(b, c)'
    BY <1>1, <1>2, <1>3, <1>6, <1>9, <2>1, <2>2, <2>3, <2>4 DEF NotifyActive, Pair, Loose
  <2>6. ASSUME b \in Mates(c) PROVE Bound(b, c)'
    <3>1. \A d \in Agents \ {c} : view[b][d] = view[c][d]
      BY <1>1, <1>3, <2>1, <2>6 DEF Pair, Bound, GroupOf, Joining
    <3> QED BY <1>1, <1>2, <1>5, <1>6, <1>9, <2>1, <2>6, <3>1 DEF NotifyActive, Pair, Bound
  <2> QED BY <1>9, <2>5, <2>6 DEF Pair
<1>12. UNCHANGED view
  BY DEF NotifyActive
<1> QED BY <1>1, <1>9, <1>7, <1>8, <1>10, <1>11, <1>12 DEF Holds, OneCommand, Pairs

LEMMA FinishLeaveHolds ==
  ASSUME Base, NEW c \in Agents, Holds(c), NEW a \in Agents, FinishLeave(a)
  PROVE  /\ Holds(c)' /\ a = c /\ pc[c] = "leaving" /\ pc'[c] = "idle" /\ view'[c] = Empty
         /\ \A x \in Agents : x # c => view'[x] = view[x]
<1> USE DEF storeVars, callVars, serveVars, netVars, faultVars
<1>0. TypeOK /\ Sole(c) /\ Agree(c) /\ Stage(c) /\ Pairs(c) /\ AllSound
  BY DEF Base, GroupInv, Holds, OneCommand
<1>1. a = c /\ pc[c] = "leaving"
  BY OwnCommand DEF FinishLeave, Holds
<1>2. /\ pc'[c] = "idle"
      /\ \A x \in Agents : x # c => pc'[x] = pc[x]
      /\ UNCHANGED <<calls, leaves, acceptor, group, todo, sums, serveVars,
                     link, refs, acked, faultVars, entered>>
  BY <1>0, <1>1 DEF FinishLeave, TypeOK
<1>3. Mates(c) = Members(view[c]) \ {c}
  BY <1>1 DEF Mates, GroupOf, Joining
<1>4. /\ ~joined'[c] \/ joined'[c] = joined[c]
      /\ view'[c] = Empty /\ subs'[c] = {}
      /\ \A x \in Agents : x # c => /\ joined'[x] = joined[x] /\ params'[x] = params[x]
                                    /\ view'[x] = view[x] /\ subs'[x] = subs[x]
  <2>1. CASE Members(view[c]) = {}
    <3>1. ~Member(c) /\ Mates(c) = {}
      BY <1>3, <2>1 DEF Members, Member
    <3>2. view[c] = Empty /\ subs[c] = {}
      BY <1>0, <3>1 DEF AllSound, Sound, Stage
    <3> QED BY <1>1, <2>1, <3>2 DEF FinishLeave
  <2>2. CASE Members(view[c]) # {}
    BY <1>0, <1>1, <2>2 DEF FinishLeave, TypeOK
  <2> QED BY <2>1, <2>2
<1>5. \A b \in Mates(c) : link[b][c] = "live"
  BY <1>0, <1>1 DEF Pairs, Pair, Bound, Mates, Members
<1>6. \A x \in Agents :
         /\ inbox[x] \subseteq inbox'[x]
         /\ \A s \in inbox'[x] : s \in inbox[x] \/
               /\ s.from = c /\ s.kind = "inactive" /\ s.call = calls[c]
               /\ x \in Mates(c) /\ link[x][c] = "live"
         /\ x \in Mates(c) => \E s \in inbox'[x] : s.kind = "inactive"
  <2>1. CASE Members(view[c]) = {}
    BY <1>1, <1>3, <2>1 DEF FinishLeave
  <2>2. CASE Members(view[c]) # {}
    <3>1. Publish(c, "inactive", Mates(c))
      BY <1>1, <1>3, <2>2 DEF FinishLeave
    <3> QED BY <1>0, <1>5, <3>1, PublishInbox
  <2> QED BY <2>1, <2>2
<1>7. AllSound'
  <2> SUFFICES ASSUME NEW x \in Agents PROVE Sound(x)'
    BY DEF AllSound
  <2>1. CASE x = c
    <3>1. ~Member(c)'
      BY <1>4 DEF Member, Empty
    <3> QED BY <1>0, <1>2, <1>4, <2>1, <3>1 DEF AllSound, Sound, Empty
  <2>2. CASE x # c
    BY <1>0, <1>2, <1>4, <2>2 DEF AllSound, Sound, Member, Empty
  <2> QED BY <2>1, <2>2
<1>8. Sole(c)' /\ Agree(c)'
  <2>1. c \notin Mates(c)
    BY DEF Mates
  <2> QED BY <1>0, <1>2, <1>4, <1>6, <2>1, SoleKept, AgreeKept
<1>9. Mates(c)' = {} /\ ~Member(c)'
  BY <1>2, <1>4 DEF Mates, GroupOf, Joining, Members, Member, Empty
<1>10. Stage(c)'
  BY <1>2, <1>4, <1>9 DEF Stage, Joining
<1>11. ASSUME NEW b \in Agents \ {c} PROVE Pair(b, c)'
  <2>1. Pair(b, c) /\ link[c][b] = "none"
    BY <1>0, <1>1 DEF Pairs, Stage
  <2>2. \A s \in inbox[b] : s.kind \notin {"active", "inactive"}
    BY <1>1, <2>1 DEF Pair, Loose
  <2>3. Tie(b, c) => Tie(b, c)'
    BY <1>6, <2>2 DEF Tie
  <2>4. Loose(b, c)'
    BY <1>1, <1>2, <1>4, <1>6, <1>9, <2>1, <2>2, <2>3 DEF Pair, Loose, Member
  <2> QED BY <1>9, <2>4 DEF Pair
<1> QED BY <1>1, <1>2, <1>4, <1>7, <1>8, <1>10, <1>11 DEF Holds, OneCommand, Pairs

-----------------------------------------------------------------------------
(* The commands: a user starts one when all is settled.                     *)

\* Once all is settled: members hold one view and are connected, and there are
\* no other connections.
Quiet ==
  \A a, b \in Agents :
     /\ view[a][b] > 0 => view[b] = view[a]
     /\ view[a][b] > 0 /\ a # b => link[a][b] = "live"
     /\ link[a][b] # "none" => view[a][b] > 0 /\ link[a][b] = "live"
     /\ b \in subs[a] => view[a][b] > 0

\* Mates hold the view of c once all is settled.
LEMMA SettledMate ==
  ASSUME Base, NEW c \in Agents, Holds(c), Settled, NEW b \in Agents \ {c}
  PROVE  /\ b \in Mates(c) => /\ Member(c) /\ view[b] = view[c] /\ link[b][c] = "live"
                              /\ link[c][b] = "live"
         /\ Tie(b, c) => b \in Mates(c)
         /\ view[b][c] > 0 <=> b \in Mates(c)
         /\ view[c][b] > 0 <=> b \in Mates(c)
<1>0. TypeOK /\ Sole(c) /\ Agree(c) /\ Stage(c) /\ Pair(b, c) /\ AllSound
  BY DEF Base, GroupInv, Holds, OneCommand, Pairs
<1>1. pc[c] = "idle" /\ inbox[b] = {}
  BY DEF Settled
<1>2. GroupOf(c) = view[c] /\ Mates(c) = Members(view[c]) \ {c}
  BY <1>1 DEF GroupOf, Mates, Joining
<1>3. Tie(b, c) => b \in Mates(c)
  BY <1>1 DEF Tie
<1>4. view[c][b] > 0 <=> b \in Mates(c)
  BY <1>2 DEF Members
<1>5. ASSUME b \in Mates(c)
      PROVE  /\ Member(c) /\ view[b] = view[c] /\ link[b][c] = "live"
             /\ link[c][b] = "live" /\ view[b][c] > 0
  <2>1. Bound(b, c)
    BY <1>0, <1>5 DEF Pair
  <2>2. Member(c)
    BY <1>0, <1>4, <1>5 DEF AllSound, Sound, Empty
  <2>3. \A d \in Agents : view[b][d] = view[c][d]
    BY <1>1, <1>2, <2>1 DEF Bound
  <2>4. view[b] = view[c]
    BY <1>0, <2>3 DEF TypeOK, View
  <2>5. link[c][b] # "none" /\ link[b][c] = "live"
    BY <1>1, <2>1 DEF Bound
  <2>6. refs[c] > 0
    <3>1. leaves[c] = 0
      BY <1>0, <1>1, <2>2 DEF AllSound, Sound
    <3>2. ~Unfiltered(c)
      BY <2>5 DEF Unfiltered
    <3> QED BY <1>0, <3>1, <3>2 DEF Base, WireInv, FilterInv, TypeOK
  <2>7. link[c][b] = "live"
    BY <1>0, <2>5, <2>6 DEF Settled, TypeOK
  <2> QED BY <2>2, <2>4, <2>5, <2>7 DEF Member
<1>6. view[b][c] > 0 => b \in Mates(c)
  BY <1>0, <1>3 DEF Pair, Loose
<1> QED BY <1>3, <1>4, <1>5, <1>6

LEMMA SettledQuiet ==
  ASSUME Base, NEW c \in Agents, Holds(c), Settled
  PROVE  Quiet
<1>0. TypeOK /\ Sole(c) /\ Agree(c) /\ Stage(c) /\ Pairs(c) /\ AllSound
  BY DEF Base, GroupInv, Holds, OneCommand
<1>1. ASSUME NEW a \in Agents \ {c}, NEW b \in Agents \ {c}, view[a][b] > 0
      PROVE  view[b] = view[a]
  <2>1. \A d \in Agents \ {c} : view[b][d] = view[a][d]
    BY <1>0, <1>1 DEF Agree
  <2>2. view[a][a] > 0 /\ view[b][a] > 0
    <3>1. Member(a)
      BY <1>0, <1>1 DEF AllSound, Sound, Empty
    <3> QED BY <2>1, <3>1 DEF Member
  <2>3. a \in Mates(c) <=> b \in Mates(c)
    <3>1. ASSUME a \in Mates(c) PROVE b \in Mates(c)
      BY <1>1, <3>1, SettledMate
    <3>2. ASSUME b \in Mates(c) PROVE a \in Mates(c)
      BY <2>2, <3>2, SettledMate
    <3> QED BY <3>1, <3>2
  <2>4. CASE a \in Mates(c)
    BY <2>3, <2>4, SettledMate
  <2>5. CASE a \notin Mates(c)
    <3>1. view[a] \in View /\ view[b] \in View /\ view[a][c] \in Nat /\ view[b][c] \in Nat
      BY <1>0, ConstantsAssumption DEF TypeOK, View
    <3>2. view[a][c] = 0 /\ view[b][c] = 0
      BY <2>3, <2>5, <3>1, SettledMate
    <3>3. \A d \in Agents : view[b][d] = view[a][d]
      BY <2>1, <3>2
    <3> QED BY <3>1, <3>3 DEF View
  <2> QED BY <2>4, <2>5
<1>2. ASSUME NEW a \in Agents \ {c}, NEW b \in Agents \ {c}
      PROVE  /\ view[a][b] > 0 /\ a # b => link[a][b] = "live"
             /\ link[a][b] # "none" => view[a][b] > 0 /\ link[a][b] = "live"
             /\ b \in subs[a] => view[a][b] > 0
  BY <1>0 DEF Agree
<1>3. ASSUME NEW b \in Agents \ {c}
      PROVE  /\ view[c][b] > 0 => view[b] = view[c] /\ link[c][b] = "live"
             /\ link[c][b] # "none" => view[c][b] > 0 /\ link[c][b] = "live"
             /\ b \in subs[c] => view[c][b] > 0
             /\ view[b][c] > 0 => view[c] = view[b] /\ link[b][c] = "live"
             /\ link[b][c] # "none" => view[b][c] > 0 /\ link[b][c] = "live"
             /\ c \in subs[b] => view[b][c] > 0
  <2>1. Loose(b, c) /\ subs[c] \subseteq Mates(c)
    BY <1>0 DEF Pairs, Pair, Stage
  <2> QED BY <2>1, SettledMate DEF Loose
<1>4. link[c][c] = "none" /\ c \notin subs[c]
  BY <1>0 DEF AllSound, Sound
<1> QED BY <1>1, <1>2, <1>3, <1>4 DEF Quiet

\* Any agent may be the one whose command is next.
LEMMA QuietCommand ==
  ASSUME TypeOK, AllSound, Quiet, Settled, NEW c \in Agents
  PROVE  Holds(c) /\ GroupOf(c) = view[c] /\ Mates(c) = Members(view[c]) \ {c}
<1>1. GroupOf(c) = view[c] /\ Mates(c) = Members(view[c]) \ {c} /\ pc[c] = "idle"
  BY DEF GroupOf, Mates, Joining, Settled
<1>2. Sole(c)
  BY DEF Sole, Settled
<1>3. Agree(c)
  BY DEF Quiet, Agree
<1>4. Stage(c)
  <2>1. subs[c] \subseteq Mates(c)
    BY <1>1 DEF Quiet, Members, AllSound, Sound, TypeOK
  <2> QED BY <1>1, <2>1 DEF Stage, Joining
<1>5. ASSUME NEW b \in Agents \ {c} PROVE Pair(b, c)
  <2>1. /\ view[c][b] > 0 => view[b] = view[c] /\ link[c][b] = "live" /\ Member(c)
        /\ view[b][c] > 0 => view[b] = view[c] /\ link[b][c] = "live" /\ Member(b)
        /\ link[b][c] # "none" => view[b][c] > 0
        /\ link[c][b] # "none" => view[c][b] > 0
        /\ c \in subs[b] => view[b][c] > 0
    <3>1. ASSUME NEW x \in Agents, NEW y \in Agents, view[x][y] > 0 PROVE Member(x)
      BY <3>1 DEF AllSound, Sound, Empty
    <3> QED BY <3>1 DEF Quiet
  <2>2. view[b][c] > 0 <=> view[c][b] > 0
    BY <2>1 DEF Member
  <2>3. b \in Mates(c) <=> view[c][b] > 0
    BY <1>1 DEF Members
  <2>4. inbox[b] = {} /\ conning[b] = {} /\ adding[b] = {}
    BY DEF Settled
  <2>5. Loose(b, c)
    BY <1>1, <2>1, <2>2, <2>3, <2>4 DEF Loose, Tie
  <2>6. b \in Mates(c) => Bound(b, c)
    BY <1>1, <2>1, <2>2, <2>3 DEF Bound
  <2> QED BY <2>5, <2>6 DEF Pair
<1> QED BY <1>1, <1>2, <1>3, <1>4, <1>5 DEF Holds, OneCommand, Pairs

LEMMA CreateHolds ==
  ASSUME Base, AllSound, Quiet, Settled, NEW a \in Agents, Create(a), calls'[a] <= 1
  PROVE  Holds(a)'
<1> USE DEF storeVars, callVars, serveVars, netVars, faultVars
<1>0. /\ TypeOK /\ Sole(a) /\ Agree(a) /\ Stage(a) /\ Pairs(a)
      /\ Mates(a) = Members(view[a]) \ {a}
  BY QuietCommand DEF Base, GroupInv, Holds, OneCommand
<1>1. calls[a] = 0 /\ calls'[a] = 1 /\ \A x \in Agents : x # a => calls'[x] = calls[x]
  BY <1>0 DEF Create, TypeOK
<1>2. ~Member(a) /\ view[a] = Empty /\ leaves[a] = 0
  BY <1>0, <1>1, MemberCalled DEF AllSound, Sound
<1>3. PICK k \in Kinds : params' = [params EXCEPT ![a] = k]
  BY DEF Create
<1>4. /\ joined'[a] /\ params'[a] # "none"
      /\ \A x \in Agents : x # a => joined'[x] = joined[x] /\ params'[x] = params[x]
  BY <1>0, <1>3, ConstantsAssumption DEF Create, TypeOK
<1>5. /\ view'[a][a] = 1
      /\ \A d \in Agents : d # a => view'[a][d] = 0
      /\ \A x \in Agents : x # a => view'[x] = view[x]
  BY <1>0, <1>1, <1>2 DEF Create, TypeOK, View, Empty
<1>6. AllSound'
  <2> SUFFICES ASSUME NEW x \in Agents PROVE Sound(x)'
    BY DEF AllSound
  <2>1. CASE x = a
    BY <1>1, <1>2, <1>4, <1>5, <2>1 DEF Create, AllSound, Sound, Member
  <2>2. CASE x # a
    BY <1>1, <1>4, <1>5, <2>2 DEF Create, AllSound, Sound, Member, Empty
  <2> QED BY <2>1, <2>2
<1>7. Sole(a)' /\ Agree(a)'
  BY <1>0, <1>5, SoleKept, AgreeKept DEF Create
<1>8. pc'[a] = "idle" /\ Mates(a) = {} /\ Mates(a)' = {}
  BY <1>0, <1>2, <1>5 DEF Create, Settled, Mates, GroupOf, Joining, Members, Empty
<1>9. Stage(a)'
  BY <1>0, <1>8 DEF Create, Stage, Joining
<1>10. ASSUME NEW b \in Agents \ {a} PROVE Pair(b, a)'
  <2>1. inbox[b] = {} /\ Loose(b, a)
    BY <1>0 DEF Settled, Pairs, Pair
  <2>2. Loose(b, a)'
    BY <1>5, <1>8, <2>1 DEF Create, Loose, Tie
  <2> QED BY <1>8, <2>2 DEF Pair
<1> QED BY <1>6, <1>7, <1>9, <1>10 DEF Holds, OneCommand, Pairs

LEMMA StartJoinHolds ==
  ASSUME Base, AllSound, Quiet, Settled, NEW j \in Agents, NEW b \in Agents,
         StartJoin(j, b), calls'[j] <= 1
  PROVE  Holds(j)'
<1> USE DEF storeVars, callVars, serveVars, netVars, faultVars
<1>0. /\ TypeOK /\ Sole(j) /\ Agree(j) /\ Stage(j) /\ Pairs(j)
      /\ Mates(j) = Members(view[j]) \ {j}
  BY QuietCommand DEF Base, GroupInv, Holds, OneCommand
<1>1. calls[j] = 0 /\ calls'[j] = 1 /\ \A x \in Agents : x # j => calls'[x] = calls[x]
  BY <1>0 DEF StartJoin, TypeOK
<1>2. ~Member(j) /\ view[j] = Empty /\ leaves[j] = 0 /\ sums[j] = {}
  BY <1>0, <1>1, MemberCalled DEF AllSound, Sound
<1>3. b # j /\ server'[b] # [kind |-> "join", from |-> j]
  BY JoinRecord DEF StartJoin, Settled
<1>4. /\ pc'[j] = "request" /\ acceptor'[j] = b
      /\ \A x \in Agents : x # j => pc'[x] = pc[x]
  BY <1>0 DEF StartJoin, TypeOK
<1>5. AllSound'
  <2> SUFFICES ASSUME NEW x \in Agents PROVE Sound(x)'
    BY DEF AllSound
  <2>1. CASE x = j
    BY <1>1, <1>2, <1>4, <2>1 DEF StartJoin, AllSound, Sound, Member, Empty
  <2>2. CASE x # j
    BY <1>1, <1>4, <2>2 DEF StartJoin, AllSound, Sound, Member, Empty
  <2> QED BY <2>1, <2>2
<1>6. Sole(j)' /\ Agree(j)'
  BY <1>0, <1>4, SoleKept, AgreeKept DEF StartJoin
<1>7. Mates(j) = {} /\ Mates(j)' = {}
  BY <1>0, <1>2, <1>4 DEF StartJoin, Mates, GroupOf, Joining, Members, Empty
<1>8. Stage(j)'
  BY <1>0, <1>2, <1>3, <1>4, <1>7 DEF StartJoin, Stage, Answers, Joining, Member
<1>9. ASSUME NEW x \in Agents \ {j} PROVE Pair(x, j)'
  <2>1. inbox[x] = {} /\ Loose(x, j)
    BY <1>0 DEF Settled, Pairs, Pair
  <2>2. Loose(x, j)'
    BY <1>4, <1>7, <2>1 DEF StartJoin, Loose, Tie
  <2> QED BY <1>7, <2>2 DEF Pair
<1> QED BY <1>5, <1>6, <1>8, <1>9 DEF Holds, OneCommand, Pairs

LEMMA StartLeaveHolds ==
  ASSUME Base, AllSound, Quiet, Settled, NEW a \in Agents, StartLeave(a)
  PROVE  Holds(a)'
<1> USE DEF storeVars, callVars, serveVars, netVars, faultVars
<1> DEFINE peers == Members(view[a]) \ {a}
           count == IF refs[a] = 0 THEN 0 ELSE refs[a] - 1
<1>0. /\ TypeOK /\ Sole(a) /\ Agree(a) /\ Stage(a) /\ Pairs(a) /\ Mates(a) = peers
  BY QuietCommand DEF Base, GroupInv, Holds, OneCommand
<1>1. \A m \in peers : link[a][m] # "none"
  BY DEF Quiet, Members
<1>2. \A b \in Agents : b \notin peers => link[a][b] = "none"
  BY DEF Quiet, Members, AllSound, Sound
<1>3. peers # {} => params[a] # "none"
  <2>1. peers # {} => view[a] # Empty
    BY DEF Members, Empty
  <2> QED BY <2>1 DEF AllSound, Sound
<1>4. /\ link' = Closed(a, peers, count) /\ pc' = [pc EXCEPT ![a] = "leaving"]
      /\ leaves' = [leaves EXCEPT ![a] = @ + 1] /\ UNCHANGED <<wedged, up>>
      /\ refs' = [refs EXCEPT ![a] = count]
      /\ UNCHANGED <<storeVars, calls, acceptor, group, todo, sums, serveVars,
                     inbox, acked, entered>>
  <2>1. {m \in peers : link[a][m] # "none"} = peers
    BY <1>1
  <2>2. ~DataPanics(a, peers)
    BY <1>3 DEF DataPanics
  <2>3. ~wedged[a]
    BY DEF AllSound, Sound
  <2> QED BY <2>1, <2>2, <2>3 DEF StartLeave
<1>5. /\ \A b \in Agents : link'[a][b] = "none"
      /\ \A x, y \in Agents : x # a => link'[x][y] = link[x][y]
  BY <1>0, <1>2, <1>4 DEF Closed, TypeOK
<1>6. /\ UNCHANGED <<view, subs, joined, params, calls, acceptor, group, sums, server,
                     conning, adding, inbox, wedged, up>>
      /\ pc'[a] = "leaving"
      /\ \A x \in Agents : x # a => /\ pc'[x] = pc[x] /\ leaves'[x] = leaves[x]
                                    /\ refs'[x] = refs[x]
  BY <1>0, <1>4 DEF TypeOK
<1> HIDE DEF peers, count
<1>7. calls[a] # 0
  BY <1>0 DEF StartLeave, AllSound, Sound, TypeOK
<1>8. AllSound'
  <2> SUFFICES ASSUME NEW x \in Agents PROVE Sound(x)'
    BY DEF AllSound
  <2>1. CASE x = a
    BY <1>5, <1>6, <1>7, <2>1 DEF AllSound, Sound, Member, Empty
  <2>2. CASE x # a
    BY <1>5, <1>6, <2>2 DEF AllSound, Sound, Member, Empty
  <2> QED BY <2>1, <2>2
<1>9. Sole(a)' /\ Agree(a)'
  BY <1>0, <1>5, <1>6, SoleKept, AgreeKept
<1>10. GroupOf(a) = view[a] /\ GroupOf(a)' = view[a] /\ Mates(a)' = Mates(a)
  BY <1>0, <1>6 DEF Settled, GroupOf, Mates, Joining, Members
<1>11. Stage(a)'
  BY <1>0, <1>5, <1>6, <1>10 DEF Stage, Joining
<1>12. ASSUME NEW b \in Agents \ {a} PROVE Pair(b, a)'
  <2>1. /\ inbox[b] = {} /\ conning[b] = {} /\ adding[b] = {} /\ pc[a] = "idle"
        /\ Loose(b, a) /\ (b \in Mates(a) => Bound(b, a))
    BY <1>0 DEF Settled, Pairs, Pair
  <2>2. Loose(b, a)'
    BY <1>5, <1>6, <1>10, <2>1 DEF Loose, Tie, Member
  <2>3. b \in Mates(a) => Bound(b, a)'
    BY <1>5, <1>6, <1>10, <2>1 DEF Bound
  <2> QED BY <1>10, <2>2, <2>3 DEF Pair
<1> QED BY <1>8, <1>9, <1>11, <1>12 DEF Holds, OneCommand, Pairs

-----------------------------------------------------------------------------

\* Steps of the program itself go on with the command under way.
Works(a) ==
  \/ Progress(a) \/ Serving(a)
  \/ \E b \in Agents : Handling(a, b) \/ GoLive(a, b)
  \/ \E s \in inbox[a] : LoseStatus(a, s)

LEMMA WorkHolds ==
  ASSUME Base, NEW c \in Agents, Holds(c), NEW a \in Agents, Works(a)
  PROVE  Holds(c)'
<1>1. Progress(a) => Holds(c)'
  BY StartSubscribingHolds, NeverOneself, StartConnectingHolds, ConnectMemberHolds,
     FinishVerifyHolds, SayHelloHolds, NotifyActiveHolds, FinishLeaveHolds DEF Progress
<1>2. Serving(a) => Holds(c)'
  BY TakeJoinHolds, AnswerJoinHolds, TakeSubscribeHolds, AnswerSubscribeHolds,
     ConnectSubscriberHolds, AddSubscriberHolds DEF Serving
<1>3. \A b \in Agents : Handling(a, b) => Holds(c)'
  BY AnswerHelloHolds, AddMemberHolds, RemoveMemberHolds DEF Handling
<1>4. \A b \in Agents : GoLive(a, b) => Holds(c)'
  BY GoLiveHolds
<1>5. \A s \in inbox[a] : LoseStatus(a, s) => Holds(c)'
  BY LoseStatusHolds
<1> QED BY <1>1, <1>2, <1>3, <1>4, <1>5 DEF Works

\* The next command starts from what the one before has left.
LEMMA CommandHolds ==
  ASSUME Sequential, Base, NEW c \in Agents, Holds(c), CalledOnce',
         NEW a \in Agents, Command(a)
  PROVE  Holds(a)'
<1>1. Settled
  BY DEF Command, Create, StartJoin, StartLeave, MayCommand
<1>2. Quiet /\ AllSound /\ calls'[a] <= 1
  BY <1>1, SettledQuiet DEF Holds, CalledOnce
<1>3. Create(a) => Holds(a)'
  BY <1>1, <1>2, CreateHolds
<1>4. StartLeave(a) => Holds(a)'
  BY <1>1, <1>2, StartLeaveHolds
<1>5. \A b \in Agents : StartJoin(a, b) => Holds(a)'
  BY <1>1, <1>2, StartJoinHolds
<1> QED BY <1>3, <1>4, <1>5 DEF Command

\* Only commands count as calls.
LEMMA WorksCall ==
  ASSUME NEW a \in Agents, Works(a)
  PROVE  calls' = calls
<1> USE DEF storeVars, callVars, serveVars, netVars, faultVars
<1>1. CASE Progress(a)
  BY <1>1 DEF Progress, StartSubscribing, AcceptOneself, StartConnecting, ConnectMember,
     FinishVerify, SayHello, NotifyActive, FinishLeave
<1>2. CASE Serving(a)
  BY <1>2 DEF Serving, TakeJoin, AnswerJoin, TakeSubscribe, AnswerSubscribe,
     ConnectSubscriber, AddSubscriber
<1>3. ASSUME NEW b \in Agents, Handling(a, b) PROVE calls' = calls
  BY <1>3 DEF Handling, AnswerHello, AddMember, RemoveMember
<1>4. ASSUME NEW b \in Agents, GoLive(a, b) PROVE calls' = calls
  BY <1>4 DEF GoLive
<1>5. ASSUME NEW s \in inbox[a], LoseStatus(a, s) PROVE calls' = calls
  BY <1>5 DEF LoseStatus
<1> QED BY <1>1, <1>2, <1>3, <1>4, <1>5 DEF Works

LEMMA CalledOnceBefore ==
  ASSUME TypeOK, [Next]_vars, CalledOnce'
  PROVE  CalledOnce
<1>0. \A x \in Agents : calls[x] \in Nat /\ calls'[x] \in Nat
  BY NextTypeOK, ConstantsAssumption DEF TypeOK
<1> SUFFICES \A x \in Agents : calls[x] <= calls'[x]
  BY <1>0 DEF CalledOnce
<1>1. ASSUME NEW a \in Agents, Command(a) PROVE \A x \in Agents : calls[x] <= calls'[x]
  <2>1. calls' = calls \/ calls' = [calls EXCEPT ![a] = @ + 1]
    BY <1>1 DEF Command, Create, StartJoin, StartLeave
  <2>2. calls \in [Agents -> 0..MaxCalls]
    BY DEF TypeOK
  <2>3. ASSUME NEW x \in Agents PROVE calls'[x] = calls[x] \/ calls'[x] = calls[x] + 1
    BY <2>1, <2>2
  <2> QED BY <1>0, <2>3
<1>2. ASSUME NEW a \in Agents, Works(a) PROVE calls' = calls
  BY <1>2, WorksCall
<1>3. CASE UNCHANGED vars
  BY <1>0, <1>3 DEF vars, callVars
<1> QED BY <1>0, <1>1, <1>2, <1>3 DEF Next, Works

\* A step that changes nothing.
LEMMA StutterHolds ==
  ASSUME NEW c \in Agents, Holds(c), UNCHANGED vars
  PROVE  Holds(c)'
<1> USE DEF vars, storeVars, callVars, serveVars, netVars, faultVars
<1>1. AllSound' /\ Sole(c)' /\ Agree(c)'
  BY DEF Holds, OneCommand, AllSound, Sound, Sole, Agree, Member
<1>2. Stage(c)'
  BY DEF Holds, OneCommand, Stage, Answers, Member, Mates, GroupOf, Members
<1>3. Pairs(c)'
  BY DEF Holds, OneCommand, Pairs, Pair, Loose, Bound, Tie, Mates, GroupOf, Members, Member
<1> QED BY <1>1, <1>2, <1>3 DEF Holds, OneCommand

\* Nobody can start when there is nobody.
OneAtATime == Agents # {} => \E c \in Agents : Holds(c)

LEMMA OneAtATimeStep ==
  ASSUME Sequential, Base, OneAtATime, CalledOnce', [Next]_vars
  PROVE  OneAtATime'
<1>1. ASSUME NEW a \in Agents, Command(a) \/ Works(a) PROVE OneAtATime'
  <2>1. PICK c \in Agents : Holds(c)
    BY DEF OneAtATime
  <2> QED BY <1>1, <2>1, WorkHolds, CommandHolds DEF OneAtATime
<1>2. CASE UNCHANGED vars
  BY <1>2, StutterHolds DEF OneAtATime
<1>3. CASE Next
  BY <1>1, <1>3 DEF Next, Works
<1> QED BY <1>2, <1>3

LEMMA BaseAlways == Spec => []Base
<1>1. Init => EnteredCalls
  BY DEF Init, EnteredCalls
<1>2. GroupInv /\ EnteredCalls /\ [Next]_vars => EnteredCalls'
  BY EnteredCallsStep DEF GroupInv
<1>3. GroupInv /\ SubscribeAwaited /\ WireInv /\ EnteredCalls => Base
  BY DEF Base
<1> QED BY <1>1, <1>2, <1>3, WireInvAlways, PTL DEF Spec

LEMMA InitHolds ==
  ASSUME Init, NEW c \in Agents
  PROVE  Holds(c)
<1>1. AllSound /\ GroupOf(c) = Empty /\ Mates(c) = {}
  BY FreeNotStuck DEF Init, AllSound, Sound, Member, GroupOf, Mates, Members, Joining, Empty
<1>2. Sole(c) /\ Agree(c)
  BY DEF Init, Sole, Agree, Empty
<1>3. Stage(c)
  BY <1>1 DEF Init, Stage, Joining
<1>4. Pairs(c)
  BY <1>1 DEF Init, Pairs, Pair, Loose, Bound, Empty
<1> QED BY <1>1, <1>2, <1>3, <1>4 DEF Holds, OneCommand

LEMMA OneAtATimeAlways ==
  ASSUME Sequential
  PROVE  Spec => [](CalledOnce => OneAtATime)
<1>1. Init => OneAtATime
  BY InitHolds DEF OneAtATime
<1>2. Base /\ (CalledOnce => OneAtATime) /\ [Next]_vars => (CalledOnce => OneAtATime)'
  <2> SUFFICES ASSUME Base, CalledOnce => OneAtATime, [Next]_vars, CalledOnce'
               PROVE  OneAtATime'
    OBVIOUS
  <2>1. CalledOnce
    BY CalledOnceBefore DEF Base, GroupInv
  <2> QED BY <2>1, OneAtATimeStep
<1> QED BY <1>1, <1>2, BaseAlways, PTL DEF Spec

\* Commands of users that wait for each other, none of whom creates or joins
\* twice, leave nothing behind: once all is settled, an agent sends to and is
\* connected to agents it lists and no others, whoever joined and left before
\* (Leave, removeMember and connectMember undo what the others have made).
THEOREM NoLeftoversAlways == Sequential => (Spec => [](CalledOnce => NoLeftovers))
<1>1. Base /\ OneAtATime => NoLeftovers
  <2> SUFFICES ASSUME Base, OneAtATime, Settled, NEW a \in Agents
               PROVE  /\ subs[a] \subseteq Members(view[a])
                      /\ \A b \in Agents : link[a][b] # "none" => view[a][b] > 0
    BY DEF NoLeftovers
  <2>1. Quiet
    BY SettledQuiet DEF OneAtATime
  <2>2. subs[a] \subseteq Agents
    BY DEF Base, GroupInv, TypeOK
  <2> QED BY <2>1, <2>2 DEF Quiet, Members
<1> SUFFICES ASSUME Sequential PROVE Spec => [](CalledOnce => NoLeftovers)
  OBVIOUS
<1> QED BY <1>1, OneAtATimeAlways, BaseAlways, PTL

-----------------------------------------------------------------------------
(* One founder: there is one group, and all of it know each other.          *)

OneFounder == \A f, g \in Founders : f = g

\* Before a founder has called nobody has entered, and all that others have
\* called is a Join that nobody answers.
Begun == \E f \in Founders : calls[f] > 0
Waiting(a) == calls[a] = 0 \/ pc[a] = "request"
Unanswered(a) == \A j \in Agents : server[a] # [kind |-> "join", from |-> j]
FounderFirst ==
  Begun \/ (entered = {} /\ \A a \in Agents : Waiting(a) /\ Unanswered(a))

LEMMA FounderFirstStep ==
  ASSUME TypeOK, EnteredInv, CallInv, FounderFirst, [Next]_vars
  PROVE  FounderFirst'
<1> USE DEF storeVars, callVars, serveVars, netVars, faultVars
<1>0. calls \in [Agents -> 0..MaxCalls] /\ Founders \subseteq Agents /\ MaxCalls \in Nat
  BY ConstantsAssumption DEF TypeOK
<1>1. ASSUME NEW a \in Agents, Create(a) PROVE FounderFirst'
  <2>1. a \in Founders /\ calls'[a] > 0
    BY <1>0, <1>1 DEF Create
  <2> QED BY <2>1 DEF FounderFirst, Begun
<1>2. ASSUME NEW j \in Agents, NEW b \in Agents, StartJoin(j, b) PROVE FounderFirst'
  <2>1. /\ calls'[j] > 0 /\ pc'[j] = "request" /\ UNCHANGED <<entered, server>>
        /\ \A x \in Agents : x # j => calls'[x] = calls[x] /\ pc'[x] = pc[x]
    BY <1>0, <1>2 DEF StartJoin, TypeOK
  <2> QED BY <1>0, <2>1 DEF FounderFirst, Begun, Waiting, Unanswered
<1>3. ASSUME NEW a \in Agents, StartLeave(a) PROVE FounderFirst'
  <2>1. /\ UNCHANGED <<calls, entered, server>> /\ pc[a] = "idle"
        /\ \A x \in Agents : x # a => pc'[x] = pc[x]
    BY <1>3 DEF StartLeave, MayCommand, TypeOK
  <2> QED BY <2>1 DEF FounderFirst, Begun, Waiting, Unanswered
<1>4. ASSUME NEW a \in Agents, Works(a), Begun PROVE FounderFirst'
  BY <1>4, WorksCall DEF FounderFirst, Begun
<1>5. ASSUME NEW a \in Agents, Progress(a), ~Begun PROVE FounderFirst'
  <2>0. calls' = calls
    BY <1>5, WorksCall DEF Works
  <2>1. pc[a] # "request"
    BY <1>5 DEF Progress, StartSubscribing, AcceptOneself, StartConnecting, ConnectMember,
       FinishVerify, SayHello, NotifyActive, FinishLeave
  <2>2. calls[a] = 0 /\ pc[a] # "connecting"
    BY <1>0, <1>5, <2>1 DEF FounderFirst, Waiting, CallInv, CallFacts
  <2>3. /\ entered' = entered /\ \A x \in Agents : x # a => pc'[x] = pc[x]
        /\ server' = server \/ server' = [server EXCEPT ![a] = Stuck]
    BY <1>5, <2>2 DEF Progress, StartSubscribing, AcceptOneself, StartConnecting,
       ConnectMember, FinishVerify, SayHello, NotifyActive, FinishLeave, Return, TypeOK
  <2>4. \A x \in Agents : Unanswered(x)'
    BY <1>5, <2>3, JoinRecord DEF FounderFirst, Unanswered, TypeOK
  <2> QED BY <1>5, <2>0, <2>2, <2>3, <2>4 DEF FounderFirst, Waiting
<1>6. ASSUME NEW b \in Agents, Serving(b), ~Begun PROVE FounderFirst'
  <2>0. calls' = calls
    BY <1>6, WorksCall DEF Works
  <2>1. Members(view[b]) = {}
    BY <1>6 DEF FounderFirst, EnteredInv, OnlyEntered, Members
  <2>2. \A j \in Agents : ~AnswerJoin(b, j)
    BY <1>6 DEF FounderFirst, Unanswered, AnswerJoin
  <2>3. /\ UNCHANGED <<entered, pc>>
        /\ \/ server' = server
           \/ \E r \in {Free, Stuck, Denied} \cup {[kind |-> "sub", from |-> j] : j \in Agents} :
                 server' = [server EXCEPT ![b] = r]
    BY <1>6, <2>1, <2>2 DEF Serving, TakeJoin, TakeSubscribe, AnswerSubscribe,
       ConnectSubscriber, AddSubscriber, Serve
  <2>4. \A r \in {Free, Stuck, Denied} \cup {[kind |-> "sub", from |-> j] : j \in Agents} :
           \A i \in Agents : r # [kind |-> "join", from |-> i]
    BY JoinRecord
  <2>5. /\ \A i \in Agents : server'[b] # [kind |-> "join", from |-> i]
        /\ \A x \in Agents \ {b} : server'[x] = server[x]
    BY <1>6, <2>3, <2>4 DEF FounderFirst, Unanswered, TypeOK
  <2>6. \A x \in Agents : Unanswered(x)'
    BY <1>6, <2>5 DEF FounderFirst, Unanswered
  <2> QED BY <1>6, <2>0, <2>3, <2>6 DEF FounderFirst, Waiting
<1>7. ASSUME NEW b \in Agents, NEW a \in Agents, Handling(b, a) PROVE FounderFirst'
  BY <1>7 DEF Handling, AnswerHello, AddMember, RemoveMember, FounderFirst, Begun, Waiting,
     Unanswered
<1>8. ASSUME NEW a \in Agents, NEW b \in Agents, GoLive(a, b) PROVE FounderFirst'
  BY <1>8 DEF GoLive, FounderFirst, Begun, Waiting, Unanswered
<1>9. ASSUME NEW a \in Agents, NEW s \in inbox[a], LoseStatus(a, s) PROVE FounderFirst'
  BY <1>9 DEF LoseStatus, FounderFirst, Begun, Waiting, Unanswered
<1>10. CASE UNCHANGED vars
  BY <1>10 DEF vars, FounderFirst, Begun, Waiting, Unanswered
<1> QED BY <1>1, <1>2, <1>3, <1>4, <1>5, <1>6, <1>7, <1>8, <1>9, <1>10
        DEF Next, Works, Command

\* So when all is settled the founder that has not called is the first to.
LEMMA NobodyBefore ==
  ASSUME OneFounder, FounderFirst, TypeOK, Settled, NEW a \in Founders, calls[a] = 0
  PROVE  \A x \in Agents : calls[x] = 0
<1>1. ~Begun
  BY DEF OneFounder, Begun
<1> QED BY <1>1 DEF FounderFirst, Waiting, Settled

\* Members other than c list each other, and if c is one or is becoming one,
\* all of them are its mates.
Together(c) ==
  /\ \A a, b \in Agents \ {c} : Member(a) /\ Member(b) => view[a][b] > 0
  /\ \A b \in Agents \ {c} :
        Member(b) /\ (Member(c) \/ pc[c] \in Joining) => b \in Mates(c)

LEMMA TogetherKept ==
  ASSUME NEW c \in Agents, Together(c), Mates(c)' = Mates(c),
         \A x, y \in Agents \ {c} : view'[x][y] = view[x][y],
         Member(c)' \/ pc'[c] \in Joining => Member(c) \/ pc[c] \in Joining
  PROVE  Together(c)'
  BY DEF Together, Member

\* Once all is settled, all members list each other.
LEMMA SettledTogether ==
  ASSUME Base, NEW c \in Agents, Holds(c), Together(c), Settled,
         NEW a \in Agents, NEW b \in Agents, Member(a), Member(b)
  PROVE  view[a][b] > 0
<1>1. CASE a # c /\ b # c
  BY <1>1 DEF Together
<1>2. CASE a = b
  BY <1>2 DEF Member
<1>3. CASE a = c /\ b # c
  BY <1>3, SettledMate DEF Together
<1>4. CASE a # c /\ b = c
  BY <1>4, SettledMate DEF Together
<1> QED BY <1>1, <1>2, <1>3, <1>4

LEMMA CommandTogether ==
  ASSUME Sequential, OneFounder, FounderFirst, Base, NEW c \in Agents, Holds(c),
         Together(c), CalledOnce', NEW a \in Agents, Command(a)
  PROVE  Together(a)'
<1>0. TypeOK /\ AllSound
  BY DEF Base, GroupInv, Holds
<1>1. Settled
  BY DEF Command, Create, StartJoin, StartLeave, MayCommand
<1>2. pc[a] = "idle"
  BY <1>1 DEF Settled
<1>3. CASE Create(a)
  <2>1. calls[a] = 0
    BY <1>0, <1>3 DEF Create, CalledOnce, TypeOK
  <2>2. \A x \in Agents : calls[x] = 0
    BY <1>0, <1>1, <1>3, <2>1, NobodyBefore DEF Create
  <2>3. \A x \in Agents : ~Member(x)
    BY <1>0, <2>2, MemberCalled
  <2>4. \A x \in Agents : x # a => view'[x] = view[x]
    BY <1>0, <1>3 DEF Create, TypeOK
  <2> QED BY <2>3, <2>4 DEF Together, Member
<1>4. ASSUME NEW b \in Agents, StartJoin(a, b) PROVE Together(a)'
  <2>1. /\ view' = view /\ pc'[a] = "request"
    BY <1>0, <1>4 DEF StartJoin, TypeOK, storeVars
  <2>2. ~Member(a)
    BY <1>0, <1>4, MemberCalled DEF StartJoin
  <2> QED BY <1>1, <2>1, <2>2, SettledTogether DEF Together, Member, Joining
<1>5. CASE StartLeave(a)
  <2>1. view' = view /\ pc'[a] \notin Joining
    BY <1>0, <1>2, <1>5 DEF StartLeave, TypeOK, storeVars, Joining
  <2>2. Mates(a)' = Members(view[a]) \ {a}
    BY <2>1 DEF Mates, GroupOf, Members
  <2> QED BY <1>1, <2>1, <2>2, SettledTogether DEF Together, Member, Members
<1> QED BY <1>3, <1>4, <1>5 DEF Command

-----------------------------------------------------------------------------
(* Each step of the agents is a step of GroupViews or changes no view.      *)

\* The agents that list themselves, and under which record.
Listed == [a \in Agents |-> view[a][a]]

\* Every member knows of each agent what the agent knows of itself.
InStep == \A a, b \in Agents : Member(a) => view[a][b] = view[b][b]

LEMMA ListedType ==
  TypeOK => /\ Listed \in [Agents -> Nat] /\ view \in [Agents -> [Agents -> Nat]]
            /\ \A a \in Agents : Listed[a] = view[a][a]
  BY ConstantsAssumption DEF Listed, TypeOK, View

LEMMA ListedTypeNext ==
  TypeOK' => /\ Listed' \in [Agents -> Nat] /\ view' \in [Agents -> [Agents -> Nat]]
             /\ \A a \in Agents : Listed'[a] = view'[a][a]
  BY ConstantsAssumption DEF Listed, TypeOK, View

LEMMA InStepSynchronous == ASSUME TypeOK, InStep PROVE Views!Synchronous
<1> SUFFICES ASSUME NEW a \in Agents, Member(a) PROVE view[a] = Listed
  BY DEF Views!Synchronous, Views!Member, Listed, Member
<1>1. \A b \in Agents : view[a][b] = Listed[b]
  BY ListedType DEF InStep
<1> QED BY <1>1, ListedType

\* What Enter, Exit and Install of GroupViews need, view by view.
LEMMA EnterBy ==
  ASSUME TypeOK, TypeOK', InStep, NEW c \in Agents,
         \A x \in Agents : x # c => view'[x] = view[x],
         \A d \in Agents : d # c => view'[c][d] = view[d][d],
         view'[c][c] \in 1..MaxCalls
  PROVE  Views!Enter(c)
<1>1. Listed' = [Listed EXCEPT ![c] = view'[c][c]]
  BY ListedType, ListedTypeNext
<1>2. view'[c] = Listed'
  <2>1. \A d \in Agents : view'[c][d] = Listed'[d]
    BY <1>1, ListedType, ListedTypeNext
  <2> QED BY <2>1, ListedTypeNext
<1>3. view' = [view EXCEPT ![c] = Listed']
  BY <1>2, ListedType, ListedTypeNext
<1> QED BY <1>1, <1>3, InStepSynchronous DEF Views!Enter, Listed

LEMMA ExitBy ==
  ASSUME TypeOK, TypeOK', InStep, NEW c \in Agents, Member(c),
         \A x \in Agents : x # c => view'[x] = view[x], view'[c] = Empty
  PROVE  Views!Exit(c)
<1>1. Listed' = [Listed EXCEPT ![c] = 0]
  BY ListedType, ListedTypeNext DEF Empty
<1>2. view' = [view EXCEPT ![c] = Empty]
  BY ListedType, ListedTypeNext
<1>3. Views!Member(c)
  BY DEF Views!Member, Member
<1> QED BY <1>1, <1>2, <1>3, InStepSynchronous DEF Views!Exit, Views!None, Listed, Empty

LEMMA InstallBy ==
  ASSUME TypeOK, TypeOK', NEW b \in Agents, Member(b), UNCHANGED Listed,
         \A x \in Agents : x # b => view'[x] = view[x],
         \A d \in Agents : view'[b][d] = view[d][d]
  PROVE  Views!Install(b) \/ UNCHANGED view
<1>1. view'[b] = Listed
  <2>1. \A d \in Agents : view'[b][d] = Listed[d]
    BY ListedType
  <2> QED BY <2>1, ListedType, ListedTypeNext
<1>2. view' = [view EXCEPT ![b] = Listed]
  BY <1>1, ListedType, ListedTypeNext
<1>3. CASE view[b] # Listed
  <2>1. Views!Member(b)
    BY DEF Views!Member, Member
  <2> QED BY <1>2, <1>3, <2>1 DEF Views!Install, Listed
<1>4. CASE view[b] = Listed
  BY <1>2, <1>4, ListedType
<1> QED BY <1>3, <1>4

\* What the others know of each other is what each knows of itself.
LEMMA OthersView ==
  ASSUME TypeOK, NEW c \in Agents, Agree(c), Together(c),
         NEW a \in Agents \ {c}, Member(a), NEW d \in Agents \ {c}
  PROVE  view[a][d] = view[d][d]
<1>1. view[a][d] \in Nat /\ view[d][d] \in Nat
  BY ConstantsAssumption DEF TypeOK, View
<1>2. CASE view[a][d] > 0
  BY <1>2 DEF Agree
<1>3. CASE view[a][d] = 0
  BY <1>1, <1>3 DEF Together, Member
<1> QED BY <1>1, <1>2, <1>3

\* So does c, once it has a group and it is that of its mates.
LEMMA GroupKnown ==
  ASSUME TypeOK, NEW c \in Agents, OneCommand(c), Together(c),
         Member(c) \/ pc[c] \in Joining, NEW d \in Agents \ {c}
  PROVE  GroupOf(c)[d] = view[d][d]
<1>1. GroupOf(c)[d] \in Nat /\ view[d][d] \in Nat
  BY ConstantsAssumption DEF TypeOK, View, Group, GroupOf
<1>2. CASE d \in Mates(c)
  BY <1>2 DEF OneCommand, Pairs, Pair, Bound
<1>3. CASE d \notin Mates(c)
  BY <1>1, <1>3 DEF Together, Member, Mates, Members
<1> QED BY <1>2, <1>3

LEMMA CreateEnters ==
  ASSUME OneFounder, FounderFirst, TypeOK, TypeOK', AllSound, Settled, CalledOnce',
         NEW a \in Agents, Create(a)
  PROVE  Views!Enter(a)
<1>1. calls[a] = 0 /\ calls'[a] = 1 /\ 1 \in 1..MaxCalls
  BY ConstantsAssumption DEF Create, CalledOnce, TypeOK
<1>2. \A x \in Agents : calls[x] = 0
  BY <1>1, NobodyBefore DEF Create
<1>3. \A x \in Agents : ~Member(x) /\ view[x] = Empty
  BY <1>2, MemberCalled DEF AllSound, Sound
<1>4. InStep
  BY <1>3 DEF InStep
<1>5. /\ \A x \in Agents : x # a => view'[x] = view[x]
      /\ \A d \in Agents : d # a => view'[a][d] = view[d][d]
      /\ view'[a][a] = 1
  BY <1>1, <1>3 DEF Create, TypeOK, View, Empty
<1> QED BY <1>1, <1>4, <1>5, EnterBy

LEMMA FinishVerifyEnters ==
  ASSUME Base, TypeOK', NEW c \in Agents, Holds(c), Together(c), NEW j \in Agents, FinishVerify(j)
  PROVE  Views!Enter(c) /\ Together(c)'
<1>0. TypeOK /\ Agree(c) /\ Pairs(c) /\ OneCommand(c)
  BY DEF Base, GroupInv, Holds, OneCommand
<1>1. /\ pc[c] = "connecting" /\ ~Member(c) /\ calls[c] > 0
      /\ view'[c][c] = calls[c] /\ Mates(c)' = Mates(c)
      /\ \A d \in Agents \ {c} : view'[c][d] = group[c].view[d]
      /\ \A x \in Agents : x # c => view'[x] = view[x]
  BY FinishVerifyHolds
<1>2. view'[c][c] \in 1..MaxCalls
  BY <1>0, <1>1, ConstantsAssumption DEF TypeOK
<1>3. InStep
  <2> SUFFICES ASSUME NEW a \in Agents, NEW b \in Agents, Member(a)
               PROVE  view[a][b] = view[b][b]
    BY DEF InStep
  <2>1. a # c
    BY <1>1
  <2>2. CASE b # c
    BY <1>0, <2>1, <2>2, OthersView
  <2>3. CASE b = c
    <3>1. ~(view[a][c] > 0) /\ ~(view[c][c] > 0)
      BY <1>0, <1>1, <2>1 DEF Pairs, Pair, Loose, Member
    <3>2. view[a][c] \in Nat /\ view[c][c] \in Nat
      BY <1>0, ConstantsAssumption DEF TypeOK, View
    <3> QED BY <2>3, <3>1, <3>2
  <2> QED BY <2>2, <2>3
<1>4. \A d \in Agents : d # c => view'[c][d] = view[d][d]
  BY <1>0, <1>1, GroupKnown DEF GroupOf, Joining
<1>5. Views!Enter(c)
  BY <1>0, <1>1, <1>2, <1>3, <1>4, EnterBy
<1>6. Together(c)'
  BY <1>1, TogetherKept DEF Joining
<1> QED BY <1>5, <1>6

LEMMA AddMemberInstalls ==
  ASSUME Base, TypeOK', NEW c \in Agents, Holds(c), Together(c),
         NEW b \in Agents, NEW s \in inbox[b], AddMember(b, s)
  PROVE  (Views!Install(b) \/ UNCHANGED view) /\ Together(c)'
<1>0. TypeOK /\ Agree(c)
  BY DEF Base, GroupInv, Holds, OneCommand
<1>1. /\ b # c /\ Member(b) /\ Member(c) /\ UNCHANGED <<pc, group>>
      /\ \A x \in Agents : x # b => view'[x] = view[x]
      /\ \A y \in Agents : y # c => view'[b][y] = view[b][y]
      /\ view'[b][c] = view[c][c]
  BY AddMemberHolds
<1>2. \A d \in Agents : view'[b][d] = view[d][d]
  BY <1>0, <1>1, OthersView
<1>3. UNCHANGED Listed
  BY <1>1 DEF Listed
<1>4. Together(c)'
  <2>1. Mates(c)' = Mates(c) /\ Member(c)' = Member(c)
    BY <1>1 DEF Mates, GroupOf, Members, Member
  <2> QED BY <1>1, <2>1, TogetherKept
<1> QED BY <1>0, <1>1, <1>2, <1>3, <1>4, InstallBy

LEMMA RemoveMemberInstalls ==
  ASSUME Base, TypeOK', NEW c \in Agents, Holds(c), Together(c),
         NEW b \in Agents, NEW s \in inbox[b], RemoveMember(b, s)
  PROVE  (Views!Install(b) \/ UNCHANGED view) /\ Together(c)'
<1>0. TypeOK /\ Agree(c)
  BY DEF Base, GroupInv, Holds, OneCommand
<1>1. /\ b # c /\ Member(b) /\ ~Member(c) /\ UNCHANGED <<pc, group>>
      /\ \A x \in Agents : x # b => view'[x] = view[x]
      /\ \A y \in Agents : y # c => view'[b][y] = view[b][y]
      /\ view'[b][c] = 0
  BY RemoveMemberHolds
<1>2. view[c][c] = 0
  BY <1>0, <1>1, ConstantsAssumption DEF TypeOK, View, Member
<1>3. \A d \in Agents : view'[b][d] = view[d][d]
  BY <1>0, <1>1, <1>2, OthersView
<1>4. UNCHANGED Listed
  BY <1>1 DEF Listed
<1>5. Together(c)'
  <2>1. Mates(c)' = Mates(c) /\ Member(c)' = Member(c)
    BY <1>1 DEF Mates, GroupOf, Members, Member
  <2> QED BY <1>1, <2>1, TogetherKept
<1> QED BY <1>0, <1>1, <1>3, <1>4, <1>5, InstallBy

LEMMA FinishLeaveExits ==
  ASSUME Base, TypeOK', NEW c \in Agents, Holds(c), Together(c), NEW a \in Agents, FinishLeave(a)
  PROVE  (Views!Exit(c) \/ UNCHANGED view) /\ Together(c)'
<1>0. TypeOK /\ Agree(c) /\ Pairs(c) /\ OneCommand(c) /\ AllSound
  BY DEF Base, GroupInv, Holds, OneCommand
<1>1. /\ pc[c] = "leaving" /\ pc'[c] = "idle" /\ view'[c] = Empty
      /\ \A x \in Agents : x # c => view'[x] = view[x]
  BY FinishLeaveHolds
<1>2. Together(c)'
  BY <1>1 DEF Together, Member, Empty, Joining
<1>3. CASE ~Member(c)
  <2>1. \A x \in Agents : view'[x] = view[x]
    BY <1>0, <1>1, <1>3 DEF AllSound, Sound
  <2>2. UNCHANGED view
    BY <1>0, <2>1, ListedType, ListedTypeNext
  <2> QED BY <1>2, <2>2
<1>4. CASE Member(c)
  <2>1. InStep
    <3> SUFFICES ASSUME NEW x \in Agents, NEW d \in Agents, Member(x), x # d
                 PROVE  view[x][d] = view[d][d]
      BY DEF InStep
    <3>1. CASE x = c
      BY <1>0, <1>1, <1>4, <3>1, GroupKnown DEF GroupOf, Joining
    <3>2. CASE d = c
      BY <1>0, <1>1, <1>4, <3>2 DEF Together, Pairs, Pair, Bound
    <3>3. CASE x # c /\ d # c
      BY <1>0, <3>3, OthersView
    <3> QED BY <3>1, <3>2, <3>3
  <2> QED BY <1>0, <1>1, <1>2, <1>4, <2>1, ExitBy
<1> QED BY <1>2, <1>3, <1>4

LEMMA ViewsStutter ==
  ASSUME UNCHANGED view
  PROVE  UNCHANGED Views!vars
  BY DEF Views!vars

\* The other steps of the command of c.
LEMMA StillTogether ==
  ASSUME NEW c \in Agents, Together(c), UNCHANGED <<view, group>>,
         pc'[c] \in Joining <=> pc[c] \in Joining
  PROVE  Together(c)'
<1>1. Mates(c)' = Mates(c) /\ Member(c)' = Member(c)
  BY DEF Mates, GroupOf, Members, Member
<1> QED BY <1>1, TogetherKept

LEMMA AnswerJoinTogether ==
  ASSUME Base, NEW c \in Agents, Holds(c), Together(c), NEW b \in Agents, NEW j \in Agents,
         AnswerJoin(b, j)
  PROVE  UNCHANGED view /\ Together(c)'
<1>1. Member(b) /\ b # c /\ UNCHANGED view /\ Mates(c)' = Members(view[b]) \ {c}
  BY AnswerJoinHolds
<1>2. \A x \in Agents \ {c} : Member(x) => x \in Members(view[b]) \ {c}
  BY <1>1 DEF Together, Members
<1> QED BY <1>1, <1>2 DEF Together, Member

\* What a step of the command of c does to views.
Does(c) == ([Views!Next]_(Views!vars) /\ Together(c)')

LEMMA ProgressDoes ==
  ASSUME Base, TypeOK', NEW c \in Agents, Holds(c), Together(c),
         NEW a \in Agents, Progress(a)
  PROVE  Does(c)
<1> USE DEF storeVars, callVars, serveVars, netVars, faultVars
<1>0. TypeOK /\ AllSound
  BY DEF Base, GroupInv, Holds
<1>1. CASE StartSubscribing(a) \/ StartConnecting(a) \/ SayHello(a)
  <2>1. a = c
    BY <1>1, OwnCommand DEF StartSubscribing, StartConnecting, SayHello, Holds
  <2>2. UNCHANGED <<view, group>> /\ pc[c] \in Joining /\ pc'[c] \in Joining
    BY <1>0, <1>1, <2>1 DEF StartSubscribing, StartConnecting, SayHello, TypeOK, Joining
  <2> QED BY <2>2, StillTogether, ViewsStutter DEF Does
<1>2. CASE AcceptOneself(a)
  BY <1>2, NeverOneself
<1>3. ASSUME NEW m \in Agents, ConnectMember(a, m) PROVE Does(c)
  <2>1. UNCHANGED <<view, group, pc>>
    BY <1>0, <1>3 DEF ConnectMember, AllSound, Sound
  <2> QED BY <2>1, StillTogether, ViewsStutter DEF Does
<1>4. CASE FinishVerify(a)
  BY <1>4, FinishVerifyEnters DEF Does, Views!Next
<1>5. CASE NotifyActive(a)
  <2>1. pc[c] = "notify" /\ Mates(c)' = Mates(c) /\ UNCHANGED view
    BY <1>5, NotifyActiveHolds
  <2>2. Together(c)'
    BY <2>1, TogetherKept DEF Joining
  <2> QED BY <2>1, <2>2, ViewsStutter DEF Does
<1>6. CASE FinishLeave(a)
  BY <1>6, FinishLeaveExits, ViewsStutter DEF Does, Views!Next
<1> QED BY <1>1, <1>2, <1>3, <1>4, <1>5, <1>6 DEF Progress

LEMMA ServingDoes ==
  ASSUME Base, TypeOK', NEW c \in Agents, Holds(c), Together(c), NEW b \in Agents, Serving(b)
  PROVE  Does(c)
<1> USE DEF storeVars, callVars, serveVars, netVars, faultVars
<1>1. ASSUME NEW j \in Agents, AnswerJoin(b, j) PROVE Does(c)
  BY <1>1, AnswerJoinTogether, ViewsStutter DEF Does
<1>2. CASE ~\E j \in Agents : AnswerJoin(b, j)
  <2>1. UNCHANGED <<view, group, pc>>
    BY <1>2 DEF Serving, TakeJoin, TakeSubscribe, AnswerSubscribe, ConnectSubscriber,
       AddSubscriber
  <2> QED BY <2>1, StillTogether, ViewsStutter DEF Does
<1> QED BY <1>1, <1>2

LEMMA HandlingDoes ==
  ASSUME Base, TypeOK', NEW c \in Agents, Holds(c), Together(c),
         NEW b \in Agents, NEW a \in Agents, Handling(b, a)
  PROVE  Does(c)
<1>1. PICK s \in inbox[b] : AnswerHello(b, s) \/ AddMember(b, s) \/ RemoveMember(b, s)
  BY DEF Handling
<1>2. CASE AnswerHello(b, s)
  <2>1. UNCHANGED <<view, group, pc>>
    BY <1>2 DEF AnswerHello, storeVars, callVars
  <2> QED BY <2>1, StillTogether, ViewsStutter DEF Does
<1>3. CASE AddMember(b, s)
  BY <1>3, AddMemberInstalls, ViewsStutter DEF Does, Views!Next
<1>4. CASE RemoveMember(b, s)
  BY <1>4, RemoveMemberInstalls, ViewsStutter DEF Does, Views!Next
<1> QED BY <1>1, <1>2, <1>3, <1>4

LEMMA WorkDoes ==
  ASSUME Base, TypeOK', NEW c \in Agents, Holds(c), Together(c), NEW a \in Agents, Works(a)
  PROVE  Does(c)
<1>1. ASSUME NEW b \in Agents, GoLive(a, b) PROVE Does(c)
  <2>1. UNCHANGED <<view, group, pc>>
    BY <1>1 DEF GoLive, storeVars, callVars
  <2> QED BY <2>1, StillTogether, ViewsStutter DEF Does
<1>2. ASSUME NEW s \in inbox[a], LoseStatus(a, s) PROVE Does(c)
  <2>1. UNCHANGED <<view, group, pc>>
    BY <1>2 DEF LoseStatus, storeVars, callVars
  <2> QED BY <2>1, StillTogether, ViewsStutter DEF Does
<1> QED BY <1>1, <1>2, ProgressDoes, ServingDoes, HandlingDoes DEF Works

\* One command is under way, of an agent that is together with the others.
Sync == Agents # {} => \E c \in Agents : Holds(c) /\ Together(c)

LEMMA SyncStep ==
  ASSUME Sequential, OneFounder, FounderFirst, Base, Sync, CalledOnce', [Next]_vars
  PROVE  Sync' /\ [Views!Next]_(Views!vars)
<1>0. TypeOK /\ TypeOK'
  BY NextTypeOK DEF Base, GroupInv
<1>1. ASSUME NEW a \in Agents, Command(a) PROVE Sync' /\ [Views!Next]_(Views!vars)
  <2>1. PICK c \in Agents : Holds(c) /\ Together(c)
    BY DEF Sync
  <2>2. Holds(a)' /\ Together(a)'
    BY <1>1, <2>1, CommandHolds, CommandTogether
  <2>3. CASE Create(a)
    <3>1. Views!Enter(a)
      BY <1>0, <2>1, <2>3, CreateEnters DEF Holds, Create, MayCommand
    <3> QED BY <2>2, <3>1 DEF Sync, Views!Next
  <2>4. CASE ~Create(a)
    <3>1. UNCHANGED view
      BY <1>1, <2>4 DEF Command, StartJoin, StartLeave, storeVars
    <3> QED BY <2>2, <3>1, ViewsStutter DEF Sync
  <2> QED BY <2>3, <2>4
<1>2. ASSUME NEW a \in Agents, Works(a) PROVE Sync' /\ [Views!Next]_(Views!vars)
  <2>1. PICK c \in Agents : Holds(c) /\ Together(c)
    BY DEF Sync
  <2>2. Holds(c)' /\ Does(c)
    BY <1>0, <1>2, <2>1, WorkHolds, WorkDoes
  <2> QED BY <2>2 DEF Sync, Does
<1>3. CASE UNCHANGED vars
  <2>1. UNCHANGED view
    BY <1>3 DEF vars, storeVars
  <2>2. Sync'
    <3>1. \A c \in Agents : Holds(c) => Holds(c)'
      BY <1>3, StutterHolds
    <3>2. \A c \in Agents : Together(c) => Together(c)'
      BY <1>3 DEF vars, storeVars, callVars, Together, Mates, GroupOf, Members, Member
    <3> QED BY <3>1, <3>2 DEF Sync
  <2> QED BY <2>1, <2>2, ViewsStutter
<1> QED BY <1>1, <1>2, <1>3 DEF Next, Works

LEMMA FounderFirstAlways == Spec => []FounderFirst
<1>1. Init => FounderFirst
  BY JoinRecord DEF Init, FounderFirst, Waiting, Unanswered
<1>2. Base /\ FounderFirst /\ [Next]_vars => FounderFirst'
  BY FounderFirstStep DEF Base, GroupInv
<1> QED BY <1>1, <1>2, BaseAlways, PTL DEF Spec

LEMMA SyncAlways ==
  ASSUME Sequential, OneFounder
  PROVE  Spec => [](CalledOnce => Sync)
<1>1. Init => Sync
  <2> SUFFICES ASSUME Init, NEW c \in Agents PROVE Holds(c) /\ Together(c)
    BY DEF Sync
  <2>1. \A a \in Agents : ~Member(a) /\ pc[a] \notin Joining
    BY DEF Init, Member, Empty, Joining
  <2> QED BY <2>1, InitHolds DEF Together
<1>2. Base /\ FounderFirst /\ (CalledOnce => Sync) /\ [Next]_vars => (CalledOnce => Sync)'
  <2> SUFFICES ASSUME Base, FounderFirst, CalledOnce => Sync, [Next]_vars, CalledOnce'
               PROVE  Sync'
    OBVIOUS
  <2>1. CalledOnce
    BY CalledOnceBefore DEF Base, GroupInv
  <2> QED BY <2>1, SyncStep
<1> QED BY <1>1, <1>2, BaseAlways, FounderFirstAlways, PTL DEF Spec

\* If one user may create the group, commands wait for each other and nobody
\* creates or joins twice, then once all is settled each member holds of every
\* agent the record that agent holds of itself: the views of cli/runner.go's
\* "virtual synchrony" agree.  Commands that overlap break it (the run
\* group_concurrent_joins).
THEOREM AgreementAlways ==
  Sequential /\ OneFounder => (Spec => [](CalledOnce => Agreement))
<1>1. Base /\ Sync => Agreement
  <2> SUFFICES ASSUME Base, Sync, Settled, NEW a \in Agents, NEW b \in Agents, Member(a)
               PROVE  view[a][b] = view[b][b]
    BY DEF Agreement, Member
  <2>1. PICK c \in Agents : Holds(c) /\ Together(c)
    BY DEF Sync
  <2>2. Quiet
    BY <2>1, SettledQuiet
  <2>3. view[a][b] \in Nat /\ view[b][b] \in Nat
    BY ConstantsAssumption DEF Base, GroupInv, TypeOK, View
  <2>4. CASE view[a][b] > 0
    BY <2>2, <2>4 DEF Quiet
  <2>5. CASE view[a][b] = 0
    BY <2>1, <2>3, <2>5, SettledTogether DEF Member
  <2> QED BY <2>3, <2>4, <2>5
<1> SUFFICES ASSUME Sequential, OneFounder PROVE Spec => [](CalledOnce => Agreement)
  OBVIOUS
<1> QED BY <1>1, SyncAlways, BaseAlways, PTL

\* Under the same conditions the agents implement GroupViews: each step of
\* Create, Join, Leave and of the handlers of statuses lets an agent enter or
\* exit when all members hold the same view, lets one member install the last
\* change, or changes nobody's view.  (What SynchronousViews says but for the
\* members installing every change in the end.)
THEOREM ViewsImplemented ==
  Sequential /\ OneFounder => (Spec /\ []CalledOnce => Views!Steps)
<1> SUFFICES ASSUME Sequential, OneFounder PROVE Spec /\ []CalledOnce => Views!Steps
  OBVIOUS
<1>1. Init => Views!Init
  BY DEF Init, Views!Init, Views!None, Empty
<1>2. Base /\ FounderFirst /\ Sync /\ CalledOnce' /\ [Next]_vars => [Views!Next]_(Views!vars)
  BY SyncStep
<1> QED BY <1>1, <1>2, BaseAlways, FounderFirstAlways, SyncAlways, PTL DEF Spec, Views!Steps

=============================================================================
