-------------------------- MODULE GroupAgentProof --------------------------
(* Proofs about GroupAgent for any set of agents and any bounds.           *)
EXTENDS GroupAgent, TLAPS

-----------------------------------------------------------------------------
(* Type correctness. *)

\* What the shared pieces of the actions produce.
LEMMA EmptyType == Empty \in View /\ NoGroup \in Group
  BY ConstantsAssumption DEF Empty, View, NoGroup, Group, Params

LEMMA ConnectType ==
  ASSUME TypeOK, NEW a \in Agents, NEW b \in Agents, Connect(a, b)
  PROVE  /\ link' \in [Agents -> [Agents -> {"none", "pending", "live"}]]
         /\ refs' \in [Agents -> Nat]
<1> USE DEF TypeOK, Connect
<1>1. link' \in [Agents -> [Agents -> {"none", "pending", "live"}]]
  OBVIOUS
<1>2. refs' \in [Agents -> Nat]
  OBVIOUS
<1> QED BY <1>1, <1>2

LEMMA ClosedType ==
  ASSUME TypeOK, NEW a \in Agents, NEW S, NEW n
  PROVE  Closed(a, S, n) \in [Agents -> [Agents -> {"none", "pending", "live"}]]
  BY DEF TypeOK, Closed

LEMMA PublishType ==
  ASSUME TypeOK, NEW a \in Agents, NEW k \in {"hello", "active", "inactive"},
         NEW S, Publish(a, k, S)
  PROVE  inbox' \in [Agents -> SUBSET Status]
  BY DEF TypeOK, Publish, Status

LEMMA ReturnType ==
  ASSUME TypeOK, NEW a \in Agents, Return(a)
  PROVE  /\ pc' \in [Agents -> Steps]
         /\ acceptor' \in [Agents -> Agents]
         /\ group' \in [Agents -> Group]
         /\ sums' \in [Agents -> SUBSET View]
  BY EmptyType DEF TypeOK, Return, Steps

\* The initial state of every agent is well typed.
LEMMA InitTypeOK == Init => TypeOK
<1> SUFFICES ASSUME Init PROVE TypeOK OBVIOUS
<1> USE ConstantsAssumption
<1> QED
  BY EmptyType DEF Init, TypeOK, View, Steps, Params, Free

\* Every step of every agent keeps all the state well typed.
LEMMA NextTypeOK == TypeOK /\ [Next]_vars => TypeOK'
<1> SUFFICES ASSUME TypeOK, [Next]_vars PROVE TypeOK' OBVIOUS
<1> USE ConstantsAssumption DEF TypeOK, storeVars, callVars, serveVars, netVars, faultVars
<1>1. ASSUME NEW a \in Agents, Create(a) PROVE TypeOK'
  BY <1>1 DEF Create, View, Params
<1>2. ASSUME NEW a \in Agents, NEW b \in Agents, StartJoin(a, b) PROVE TypeOK'
  BY <1>2 DEF StartJoin, Steps
<1>3. ASSUME NEW a \in Agents, StartLeave(a) PROVE TypeOK'
  <2> DEFINE peers == Members(view[a]) \ {a}
             linked == {m \in peers : link[a][m] # "none"}
             count == IF refs[a] = 0 THEN 0 ELSE refs[a] - 1
  <2>1. count \in Nat
    OBVIOUS
  <2>2. refs' \in [Agents -> Nat]
    BY <1>3, <2>1 DEF StartLeave
  <2>3. link' \in [Agents -> [Agents -> {"none", "pending", "live"}]]
    <3> HIDE DEF count
    <3>1. \/ link' = Closed(a, peers, count)
          \/ \E S \in SUBSET linked : link' = Closed(a, S, count)
      BY <1>3 DEF StartLeave, count
    <3> QED BY <3>1, ClosedType
  <2>4. pc' \in [Agents -> Steps] /\ wedged' \in [Agents -> BOOLEAN]
    BY <1>3 DEF StartLeave, Steps
  <2>5. leaves' \in [Agents -> 0..MaxLeaves]
    BY <1>3 DEF StartLeave
  <2>6. up' \in [Agents -> BOOLEAN]
    BY <1>3 DEF StartLeave, Panic
  <2> QED BY <1>3, <2>2, <2>3, <2>4, <2>5, <2>6 DEF StartLeave
<1>4. ASSUME NEW a \in Agents, StartSubscribing(a) PROVE TypeOK'
  BY <1>4 DEF StartSubscribing, Steps, Group, Members
<1>5. ASSUME NEW a \in Agents, AcceptOneself(a) PROVE TypeOK'
  BY <1>5 DEF AcceptOneself
<1>6. ASSUME NEW a \in Agents, StartConnecting(a) PROVE TypeOK'
  BY <1>6 DEF StartConnecting, Steps, Members
<1>7. ASSUME NEW a \in Agents, NEW m \in Agents, ConnectMember(a, m) PROVE TypeOK'
  <2>1. CASE wedged[a]
    BY <1>7, <2>1 DEF ConnectMember, Steps
  <2>2. CASE ~wedged[a]
    <3>1. Connect(a, m)
      BY <1>7, <2>2 DEF ConnectMember
    <3>2. /\ link' \in [Agents -> [Agents -> {"none", "pending", "live"}]]
          /\ refs' \in [Agents -> Nat]
      BY <3>1, ConnectType
    <3>3. subs' \in [Agents -> SUBSET Agents] /\ todo' \in [Agents -> SUBSET Agents]
      <4>1. subs' = [subs EXCEPT ![a] = subs[a] \cup {m}] \/ subs' = subs
        BY <1>7, <2>2 DEF ConnectMember
      <4>2. todo' = [todo EXCEPT ![a] = todo[a] \ {m}]
        BY <1>7, <2>2 DEF ConnectMember
      <4>3. todo[a] \ {m} \in SUBSET Agents /\ subs[a] \cup {m} \in SUBSET Agents
        OBVIOUS
      <4>4. subs \in [Agents -> SUBSET Agents] /\ todo \in [Agents -> SUBSET Agents]
        OBVIOUS
      <4> HIDE DEF TypeOK
      <4> QED BY <4>1, <4>2, <4>3, <4>4
    <3> QED BY <1>7, <2>2, <3>2, <3>3 DEF ConnectMember
  <2> QED BY <2>1, <2>2
<1>8. ASSUME NEW a \in Agents, FinishVerify(a) PROVE TypeOK'
  <2>1. CASE Return(a) /\ UNCHANGED <<joined, view, entered>>
    BY <1>8, <2>1, ReturnType DEF FinishVerify
  <2>2. CASE UNCHANGED <<acceptor, group, sums>>
    <3> DEFINE v == [m \in Agents |-> IF m = a THEN calls[a]
                     ELSE IF group[a].view[m] > 0 THEN group[a].view[m]
                     ELSE view[a][m]]
    <3>1. group[a].view \in View
      BY DEF Group
    <3>2. v \in View
      BY <3>1 DEF View
    <3>3. view' = view \/ view' = [view EXCEPT ![a] = v]
      BY <1>8 DEF FinishVerify
    <3>4. view' \in [Agents -> View]
      <4> HIDE DEF v
      <4> QED BY <3>2, <3>3
    <3>5. joined' \in [Agents -> BOOLEAN]
      BY <1>8 DEF FinishVerify
    <3>7. pc' \in [Agents -> Steps]
      BY <1>8 DEF FinishVerify, Return, Steps
    <3>6. entered' \subseteq Agents \X (0..MaxCalls)
      BY <1>8 DEF FinishVerify
    <3> QED BY <1>8, <2>2, <3>4, <3>5, <3>6, <3>7 DEF FinishVerify
  <2> QED BY <1>8, <2>1, <2>2 DEF FinishVerify
<1>9. ASSUME NEW a \in Agents, SayHello(a) PROVE TypeOK'
  BY <1>9, PublishType DEF SayHello, Steps
<1>10. ASSUME NEW a \in Agents, NotifyActive(a) PROVE TypeOK'
  BY <1>10, PublishType, ReturnType DEF NotifyActive
<1>11. ASSUME NEW a \in Agents, FinishLeave(a) PROVE TypeOK'
  <2>1. inbox' \in [Agents -> SUBSET Status]
    BY <1>11, PublishType DEF FinishLeave
  <2>2. view' \in [Agents -> View] /\ subs' \in [Agents -> SUBSET Agents]
    <3>1. /\ view' = view \/ view' = [view EXCEPT ![a] = Empty]
          /\ subs' = subs \/ subs' = [subs EXCEPT ![a] = {}]
      BY <1>11 DEF FinishLeave
    <3>2. view' \in [Agents -> View]
      BY <3>1, EmptyType
    <3>3. subs' \in [Agents -> SUBSET Agents]
      BY <3>1
    <3> QED BY <3>2, <3>3
  <2>3. joined' \in [Agents -> BOOLEAN] /\ params' \in [Agents -> Params]
    BY <1>11 DEF FinishLeave, Params
  <2> QED BY <1>11, <2>1, <2>2, <2>3 DEF FinishLeave, Steps
<1>12. ASSUME NEW b \in Agents, Serving(b) PROVE TypeOK'
  <2>1. ASSUME NEW j \in Agents, TakeJoin(b, j) PROVE TypeOK'
    BY <2>1 DEF TakeJoin, Serve, Request
  <2>2. ASSUME NEW j \in Agents, AnswerJoin(b, j) PROVE TypeOK'
    <3>1. [view |-> view[b], params |-> params[b]] \in Group
      BY DEF Group
    <3>2. pc' \in [Agents -> Steps]
      BY <2>2 DEF AnswerJoin, Steps
    <3>4. group' \in [Agents -> Group]
      <4> DEFINE g == [view |-> view[b], params |-> params[b]]
      <4>1. group' = group \/ group' = [group EXCEPT ![j] = g]
        BY <2>2 DEF AnswerJoin
      <4>2. g \in Group
        BY <3>1
      <4> HIDE DEF g
      <4> QED BY <4>1, <4>2
    <3>3. /\ server' \in [Agents -> Request \cup {Free, Stuck, Denied}]
          /\ up' \in [Agents -> BOOLEAN]
      BY <2>2 DEF AnswerJoin, Serve, Panic
    <3> QED BY <2>2, <3>2, <3>3, <3>4 DEF AnswerJoin
  <2>3. ASSUME NEW j \in Agents, TakeSubscribe(b, j) PROVE TypeOK'
    BY <2>3 DEF TakeSubscribe, Serve, Request
  <2>4. ASSUME NEW j \in Agents, AnswerSubscribe(b, j) PROVE TypeOK'
    <3>1. /\ todo' \in [Agents -> SUBSET Agents]
          /\ sums' \in [Agents -> SUBSET View]
      <4>1. todo' = todo \/ todo' = [todo EXCEPT ![j] = todo[j] \ {b}]
        BY <2>4 DEF AnswerSubscribe
      <4>2. sums' = sums \/ sums' = [sums EXCEPT ![j] = sums[j] \cup {view[b]}]
        BY <2>4 DEF AnswerSubscribe
      <4>3. todo[j] \ {b} \in SUBSET Agents /\ sums[j] \cup {view[b]} \in SUBSET View
        OBVIOUS
      <4>4. todo' \in [Agents -> SUBSET Agents]
        BY <4>1, <4>3
      <4>5. sums' \in [Agents -> SUBSET View]
        <5> DEFINE S == sums[j] \cup {view[b]}
        <5>1. S \in SUBSET View
          BY <4>3
        <5>2. sums' = sums \/ sums' = [sums EXCEPT ![j] = S]
          BY <4>2
        <5> HIDE DEF S
        <5> QED BY <5>1, <5>2
      <4> QED BY <4>4, <4>5
    <3>2. conning' \in [Agents -> SUBSET (Agents \X (0..MaxCalls))]
      <4> DEFINE Calls == SUBSET (Agents \X (0..MaxCalls))
                 C == conning[b] \cup {<<j, calls[j]>>}
      <4>1. conning' = conning \/ conning' = [conning EXCEPT ![b] = C]
        BY <2>4 DEF AnswerSubscribe
      <4>2. C \in Calls
        OBVIOUS
      <4>3. conning \in [Agents -> Calls]
        OBVIOUS
      <4> HIDE DEF C, Calls, TypeOK
      <4>4. conning' \in [Agents -> Calls]
        BY <4>1, <4>2, <4>3
      <4> QED BY <4>4 DEF Calls
    <3>3. /\ server' \in [Agents -> Request \cup {Free, Stuck, Denied}]
          /\ up' \in [Agents -> BOOLEAN]
      BY <2>4 DEF AnswerSubscribe, Serve, Panic
    <3> QED BY <2>4, <3>1, <3>2, <3>3 DEF AnswerSubscribe
  <2>5. ASSUME NEW r \in conning[b], ConnectSubscriber(b, r) PROVE TypeOK'
    <3>1. r \in Agents \X (0..MaxCalls) /\ r[1] \in Agents
      OBVIOUS
    <3>2. up' \in [Agents -> BOOLEAN]
      BY <2>5 DEF ConnectSubscriber, Panic
    <3>3. adding' \in [Agents -> SUBSET (Agents \X (0..MaxCalls))]
      <4> DEFINE Calls == SUBSET (Agents \X (0..MaxCalls))
                 A == adding[b] \cup {r}
      <4>1. adding' = adding \/ adding' = [adding EXCEPT ![b] = A]
        BY <2>5 DEF ConnectSubscriber
      <4>2. A \in Calls /\ adding \in [Agents -> Calls]
        BY <3>1
      <4> HIDE DEF A, Calls, TypeOK
      <4>3. adding' \in [Agents -> Calls]
        BY <4>1, <4>2
      <4> QED BY <4>3 DEF Calls
    <3>4. conning' \in [Agents -> SUBSET (Agents \X (0..MaxCalls))]
      BY <2>5 DEF ConnectSubscriber
    <3>5. /\ link' \in [Agents -> [Agents -> {"none", "pending", "live"}]]
          /\ refs' \in [Agents -> Nat]
      BY <2>5, <3>1, ConnectType DEF ConnectSubscriber
    <3> QED BY <2>5, <3>2, <3>3, <3>4, <3>5 DEF ConnectSubscriber
  <2>6. ASSUME NEW r \in adding[b], AddSubscriber(b, r) PROVE TypeOK'
    BY <2>6 DEF AddSubscriber
  <2> QED BY <1>12, <2>1, <2>2, <2>3, <2>4, <2>5, <2>6 DEF Serving
<1>13. ASSUME NEW b \in Agents, NEW a \in Agents, Handling(b, a) PROVE TypeOK'
  <2>1. ASSUME NEW s \in inbox[b], AnswerHello(b, s) PROVE TypeOK'
    BY <2>1 DEF AnswerHello, Take, Status
  <2>2. ASSUME NEW s \in inbox[b], AddMember(b, s) PROVE TypeOK'
    BY <2>2 DEF AddMember, Take, Status, View
  <2>3. ASSUME NEW s \in inbox[b], RemoveMember(b, s) PROVE TypeOK'
    <3>1. inbox' \in [Agents -> SUBSET Status] /\ s.from \in Agents
      BY <2>3 DEF RemoveMember, Take, Status
    <3>2. link' \in [Agents -> [Agents -> {"none", "pending", "live"}]]
      BY <2>3, ClosedType DEF RemoveMember
    <3>3. view' \in [Agents -> View] /\ wedged' \in [Agents -> BOOLEAN]
      <4> DEFINE v == [view[b] EXCEPT ![s.from] = 0]
      <4>1. view' = view \/ view' = [view EXCEPT ![b] = v]
        BY <2>3 DEF RemoveMember, Forget
      <4>2. v \in View
        BY <3>1 DEF View
      <4>3. wedged' \in [Agents -> BOOLEAN]
        BY <2>3 DEF RemoveMember
      <4>4. view' \in [Agents -> View]
        <5> HIDE DEF v
        <5> QED BY <4>1, <4>2
      <4> QED BY <4>3, <4>4
    <3>4. subs' \in [Agents -> SUBSET Agents]
      <4>1. subs' = subs \/ subs' = [subs EXCEPT ![b] = subs[b] \ {s.from}]
        BY <2>3 DEF RemoveMember, Forget
      <4>2. subs[b] \ {s.from} \in SUBSET Agents
        OBVIOUS
      <4> QED BY <4>1, <4>2
    <3>5. up' \in [Agents -> BOOLEAN]
      BY <2>3 DEF RemoveMember, Panic
    <3> QED BY <2>3, <3>1, <3>2, <3>3, <3>4, <3>5 DEF RemoveMember
  <2> QED BY <1>13, <2>1, <2>2, <2>3 DEF Handling
<1>14. ASSUME NEW a \in Agents, NEW b \in Agents, GoLive(a, b) PROVE TypeOK'
  BY <1>14 DEF GoLive
<1>15. ASSUME NEW b \in Agents, NEW s \in inbox[b], LoseStatus(b, s) PROVE TypeOK'
  BY <1>15 DEF LoseStatus, Take
<1>16. CASE UNCHANGED vars
  BY <1>16 DEF vars
<1> QED
  BY <1>1, <1>2, <1>3, <1>4, <1>5, <1>6, <1>7, <1>8, <1>9, <1>10, <1>11,
     <1>12, <1>13, <1>14, <1>15, <1>16 DEF Next, Command, Progress

\* The type invariant of GroupAgent: every variable keeps the shape the code's
\* maps, sets and counters have, for any agents and any bounds.
THEOREM TypeCorrect == Spec => []TypeOK
<1>1. Init => TypeOK
  BY InitTypeOK
<1>2. TypeOK /\ [Next]_vars => TypeOK'
  BY NextTypeOK
<1> QED
  BY <1>1, <1>2, PTL DEF Spec

-----------------------------------------------------------------------------
(* The inductive invariants.  TypeOK and each of them together are          *)
(* preserved by every step.                                                 *)

\* Wherever a record of a member comes from, the call that made it got past
\* verification: a view, a group received, an active status under way, and
\* the call of a joiner that has stored itself.
GroupEntered ==
  \A j, a \in Agents :
     group[j].view[a] > 0 => <<a, group[j].view[a]>> \in entered
StatusEntered ==
  \A b \in Agents : \A s \in inbox[b] :
     s.kind = "active" => <<s.from, s.call>> \in entered
CallEntered ==
  \A j \in Agents :
     pc[j] \in {"hello", "notify"} => <<j, calls[j]>> \in entered
EnteredInv == OnlyEntered /\ GroupEntered /\ StatusEntered /\ CallEntered

WasMember(b) == \E n \in 0..MaxCalls : <<b, n>> \in entered

\* What holds of an agent that never left: once a member it stays one, and
\* nobody is led to ask anything of it before.
MemberStays ==
  \A b \in Agents : leaves[b] = 0 /\ WasMember(b) =>
     view[b][b] > 0 /\ joined[b] /\ params[b] # "none"
ListsAsMember ==
  \A b, x \in Agents : leaves[b] = 0 /\ view[b][x] > 0 => WasMember(b)
ServesAsMember ==
  \A b \in Agents : leaves[b] = 0 /\ server[b] \in Request => WasMember(b)
StatusTarget ==
  \A b \in Agents : \A s \in inbox[b] :
     /\ s.kind = "active" => WasMember(b)
     /\ s.kind # "hello" => s.from # b
LoyalInv == MemberStays /\ ListsAsMember /\ ServesAsMember /\ StatusTarget

\* A join request being served is that of a joiner waiting for its answer.
JoinAwaited ==
  \A b, j \in Agents : server[b] = [kind |-> "join", from |-> j] =>
     pc[j] = "request" /\ acceptor[j] = b

\* How far the command of j has come.
CallFacts(j) ==
  /\ pc[j] = "subscribing" => todo[j] \subseteq Members(group[j].view)
  /\ pc[j] \in {"request", "accepted", "subscribing", "connecting"} =>
        /\ calls[j] > 0
        /\ leaves[j] = 0 => ~WasMember(j)
  /\ pc[j] \in {"accepted", "subscribing", "connecting"} =>
        group[j].params # "none"
  /\ pc[j] \in {"subscribing", "connecting"} => params[j] # "none"
  /\ pc[j] = "leaving" => leaves[j] > 0
CallInv == JoinAwaited /\ \A j \in Agents : CallFacts(j)

OneLeave == \A a \in Agents : leaves[a] <= 1

\* An inactive status comes once from an agent that left once, and finds the
\* connection to that agent still there.
LeaverSpoke ==
  \A b \in Agents : \A s \in inbox[b] : s.kind = "inactive" => leaves[s.from] > 0
InactiveOnce ==
  OneLeave => \A b \in Agents : \A s \in inbox[b] : s.kind = "inactive" =>
     /\ pc[s.from] # "leaving"
     /\ \A t \in inbox[b] : t.kind = "inactive" /\ t.from = s.from => t = s
InactiveLinked ==
  OneLeave => \A b \in Agents : \A s \in inbox[b] :
     s.kind = "inactive" /\ leaves[b] = 0 => link[b][s.from] # "none"
InactiveInv == LeaverSpoke /\ InactiveOnce /\ InactiveLinked

\* An agent that never left has params as soon as it is connected to anybody,
\* or is about to be.
ParamsHeld ==
  \A b \in Agents :
     leaves[b] = 0 /\ (conning[b] # {} \/ \E x \in Agents : link[b][x] # "none")
        => params[b] # "none"

-----------------------------------------------------------------------------
(* Only agents that entered are ever listed.                                *)

\* A command that returns forgets the group it received.
LEMMA ReturnGroup ==
  ASSUME TypeOK, NEW a \in Agents, Return(a)
  PROVE  \A i, x \in Agents :
            group'[i].view[x] > 0 => group'[i].view[x] = group[i].view[x]
<1>1. group' = [group EXCEPT ![a] = NoGroup]
  BY DEF Return
<1>2. \A x \in Agents : NoGroup.view[x] = 0
  BY DEF NoGroup, Empty
<1> QED BY <1>1, <1>2 DEF TypeOK

\* No step lets a record in that did not come from an agent that entered.
LEMMA EnteredStep == TypeOK /\ EnteredInv /\ [Next]_vars => EnteredInv'
<1> SUFFICES ASSUME TypeOK, EnteredInv, [Next]_vars PROVE EnteredInv'
  OBVIOUS
<1> USE DEF storeVars, callVars, serveVars, netVars, faultVars
<1>1. ASSUME NEW a \in Agents, Create(a) PROVE EnteredInv'
  BY <1>1 DEF Create, TypeOK, EnteredInv, OnlyEntered, GroupEntered, StatusEntered, CallEntered
<1>2. ASSUME NEW a \in Agents, NEW b \in Agents, StartJoin(a, b) PROVE EnteredInv'
  BY <1>2 DEF StartJoin, TypeOK, EnteredInv, OnlyEntered, GroupEntered, StatusEntered, CallEntered
<1>3. ASSUME NEW a \in Agents, StartLeave(a) PROVE EnteredInv'
  BY <1>3 DEF StartLeave, TypeOK, EnteredInv, OnlyEntered, GroupEntered, StatusEntered, CallEntered
<1>4. ASSUME NEW a \in Agents, StartSubscribing(a) PROVE EnteredInv'
  BY <1>4 DEF StartSubscribing, TypeOK, EnteredInv, OnlyEntered, GroupEntered, StatusEntered, CallEntered
<1>5. ASSUME NEW a \in Agents, AcceptOneself(a) PROVE EnteredInv'
  BY <1>5 DEF AcceptOneself, TypeOK, EnteredInv, OnlyEntered, GroupEntered, StatusEntered, CallEntered
<1>6. ASSUME NEW a \in Agents, StartConnecting(a) PROVE EnteredInv'
  BY <1>6 DEF StartConnecting, TypeOK, EnteredInv, OnlyEntered, GroupEntered, StatusEntered, CallEntered
<1>7. ASSUME NEW a \in Agents, NEW m \in Agents, ConnectMember(a, m) PROVE EnteredInv'
  BY <1>7 DEF ConnectMember, Connect, TypeOK, EnteredInv, OnlyEntered, GroupEntered, StatusEntered, CallEntered
<1>8. ASSUME NEW a \in Agents, FinishVerify(a) PROVE EnteredInv'
  <2> USE DEF TypeOK, EnteredInv, FinishVerify
  <2>1. OnlyEntered'
    <3> SUFFICES ASSUME NEW c \in Agents, NEW x \in Agents, view'[c][x] > 0
                 PROVE  <<x, view'[c][x]>> \in entered'
      BY DEF OnlyEntered
    <3>1. CASE UNCHANGED view
      BY <1>8, <3>1 DEF OnlyEntered
    <3>2. CASE /\ entered' = entered \cup {<<a, calls[a]>>}
               /\ view' = [view EXCEPT ![a] = [m \in Agents |->
                     IF m = a THEN calls[a]
                     ELSE IF group[a].view[m] > 0 THEN group[a].view[m]
                     ELSE view[a][m]]]
      <4>1. CASE c # a
        BY <3>2, <4>1 DEF OnlyEntered
      <4>2. CASE c = a
        <5>1. view'[a] = [m \in Agents |->
                     IF m = a THEN calls[a]
                     ELSE IF group[a].view[m] > 0 THEN group[a].view[m]
                     ELSE view[a][m]]
          BY <3>2
        <5>2. view'[a][x] = IF x = a THEN calls[a]
                            ELSE IF group[a].view[x] > 0 THEN group[a].view[x]
                            ELSE view[a][x]
          BY <5>1
        <5> QED BY <3>2, <4>2, <5>2 DEF OnlyEntered, GroupEntered
      <4> QED BY <4>1, <4>2
    <3> QED BY <1>8, <3>1, <3>2
  <2>2. GroupEntered'
    <3>1. \A i, x \in Agents :
             group'[i].view[x] > 0 => group'[i].view[x] = group[i].view[x]
      BY <1>8, ReturnGroup
    <3>2. entered \subseteq entered'
      BY <1>8
    <3> QED BY <3>1, <3>2 DEF GroupEntered
  <2>3. StatusEntered'
    BY <1>8 DEF StatusEntered
  <2>4. CallEntered'
    BY <1>8 DEF CallEntered, Return
  <2> QED BY <2>1, <2>2, <2>3, <2>4
<1>9. ASSUME NEW a \in Agents, SayHello(a) PROVE EnteredInv'
  BY <1>9 DEF SayHello, Publish, TypeOK, EnteredInv, OnlyEntered, GroupEntered, StatusEntered, CallEntered
<1>10. ASSUME NEW a \in Agents, NotifyActive(a) PROVE EnteredInv'
  <2> USE DEF TypeOK, EnteredInv, NotifyActive
  <2>1. OnlyEntered' /\ CallEntered'
    BY <1>10 DEF OnlyEntered, CallEntered, Return
  <2>2. GroupEntered'
    <3>1. \A i, x \in Agents :
             group'[i].view[x] > 0 => group'[i].view[x] = group[i].view[x]
      BY <1>10, ReturnGroup
    <3>2. entered' = entered
      BY <1>10
    <3> QED BY <3>1, <3>2 DEF GroupEntered
  <2>3. StatusEntered'
    <3>1. <<a, calls[a]>> \in entered
      BY <1>10 DEF CallEntered
    <3> DEFINE t == [kind |-> "active", from |-> a, call |-> calls[a]]
    <3>2. \A c \in Agents : inbox'[c] \subseteq inbox[c] \cup {t}
      BY <1>10 DEF Publish
    <3>3. <<t.from, t.call>> \in entered
      BY <3>1
    <3> HIDE DEF t
    <3>4. entered' = entered
      BY <1>10
    <3> QED BY <3>2, <3>3, <3>4 DEF StatusEntered
  <2> QED BY <2>1, <2>2, <2>3
<1>11. ASSUME NEW a \in Agents, FinishLeave(a) PROVE EnteredInv'
  <2> USE DEF TypeOK, EnteredInv, FinishLeave
  <2>1. OnlyEntered'
    <3>1. view' = view \/ view' = [view EXCEPT ![a] = Empty]
      BY <1>11
    <3>2. \A c, x \in Agents : view'[c][x] > 0 => view'[c][x] = view[c][x]
      <4>1. CASE view' = view
        BY <4>1
      <4>2. CASE view' = [view EXCEPT ![a] = Empty]
        BY <4>2 DEF Empty
      <4> QED BY <3>1, <4>1, <4>2
    <3>3. entered' = entered
      BY <1>11
    <3> QED BY <3>2, <3>3 DEF OnlyEntered
  <2>2. GroupEntered'
    BY <1>11 DEF GroupEntered
  <2>3. StatusEntered'
    BY <1>11 DEF StatusEntered, Publish
  <2>4. CallEntered'
    BY <1>11 DEF CallEntered
  <2> QED BY <2>1, <2>2, <2>3, <2>4
<1>12. ASSUME NEW b \in Agents, NEW j \in Agents, TakeJoin(b, j) PROVE EnteredInv'
  BY <1>12 DEF TakeJoin, Serve, TypeOK, EnteredInv, OnlyEntered, GroupEntered, StatusEntered, CallEntered
<1>13. ASSUME NEW b \in Agents, NEW j \in Agents, AnswerJoin(b, j) PROVE EnteredInv'
  <2> USE DEF TypeOK, EnteredInv, AnswerJoin
  <2>1. OnlyEntered' /\ StatusEntered' /\ CallEntered'
    BY <1>13 DEF OnlyEntered, StatusEntered, CallEntered
  <2>2. GroupEntered'
    <3>1. \/ group' = group
          \/ group' = [group EXCEPT ![j] =
                          [view |-> view[b], params |-> params[b]]]
      BY <1>13
    <3>2. \A i \in Agents : group'[i].view = group[i].view
                             \/ group'[i].view = view[b]
      <4>1. CASE group' = group
        BY <4>1
      <4>2. CASE group' = [group EXCEPT ![j] =
                             [view |-> view[b], params |-> params[b]]]
        BY <4>2
      <4> QED BY <3>1, <4>1, <4>2
    <3> QED BY <1>13, <3>2 DEF GroupEntered, OnlyEntered
  <2> QED BY <2>1, <2>2
<1>14. ASSUME NEW b \in Agents, NEW j \in Agents, TakeSubscribe(b, j) PROVE EnteredInv'
  BY <1>14 DEF TakeSubscribe, Serve, TypeOK, EnteredInv, OnlyEntered, GroupEntered, StatusEntered, CallEntered
<1>15. ASSUME NEW b \in Agents, NEW j \in Agents, AnswerSubscribe(b, j) PROVE EnteredInv'
  BY <1>15 DEF AnswerSubscribe, Serve, Panic, TypeOK, EnteredInv, OnlyEntered, GroupEntered, StatusEntered, CallEntered
<1>16. ASSUME NEW b \in Agents, NEW r \in conning[b], ConnectSubscriber(b, r) PROVE EnteredInv'
  BY <1>16 DEF ConnectSubscriber, Connect, TypeOK, EnteredInv, OnlyEntered, GroupEntered, StatusEntered, CallEntered
<1>17. ASSUME NEW b \in Agents, NEW r \in adding[b], AddSubscriber(b, r) PROVE EnteredInv'
  BY <1>17 DEF AddSubscriber, TypeOK, EnteredInv, OnlyEntered, GroupEntered, StatusEntered, CallEntered
<1>18. ASSUME NEW b \in Agents, NEW s \in inbox[b], AnswerHello(b, s) PROVE EnteredInv'
  BY <1>18 DEF AnswerHello, Take, TypeOK, EnteredInv, OnlyEntered, GroupEntered, StatusEntered, CallEntered
<1>19. ASSUME NEW b \in Agents, NEW s \in inbox[b], AddMember(b, s) PROVE EnteredInv'
  BY <1>19 DEF AddMember, Take, TypeOK, EnteredInv, OnlyEntered, GroupEntered, StatusEntered, CallEntered
<1>20. ASSUME NEW b \in Agents, NEW s \in inbox[b], RemoveMember(b, s) PROVE EnteredInv'
  <2> USE DEF TypeOK, EnteredInv, RemoveMember
  <2>1. OnlyEntered'
    <3>1. view' = view \/ view' = [view EXCEPT ![b] = [@ EXCEPT ![s.from] = 0]]
      BY <1>20 DEF Forget
    <3>2. s.from \in Agents
      BY DEF Status
    <3>3. \A c, x \in Agents : view'[c][x] > 0 => view'[c][x] = view[c][x]
      <4>1. CASE view' = view
        BY <4>1
      <4>2. CASE view' = [view EXCEPT ![b] = [@ EXCEPT ![s.from] = 0]]
        BY <3>2, <4>2 DEF View
      <4> QED BY <3>1, <4>1, <4>2
    <3>4. entered' = entered
      BY <1>20
    <3> QED BY <3>3, <3>4 DEF OnlyEntered
  <2>2. GroupEntered' /\ StatusEntered' /\ CallEntered'
    BY <1>20 DEF GroupEntered, StatusEntered, CallEntered, Take
  <2> QED BY <2>1, <2>2
<1>21. ASSUME NEW a \in Agents, NEW b \in Agents, GoLive(a, b) PROVE EnteredInv'
  BY <1>21 DEF GoLive, TypeOK, EnteredInv, OnlyEntered, GroupEntered, StatusEntered, CallEntered
<1>22. ASSUME NEW b \in Agents, NEW s \in inbox[b], LoseStatus(b, s) PROVE EnteredInv'
  BY <1>22 DEF LoseStatus, Take, TypeOK, EnteredInv, OnlyEntered, GroupEntered, StatusEntered, CallEntered
<1>23. CASE UNCHANGED vars
  BY <1>23 DEF vars, TypeOK, EnteredInv, OnlyEntered, GroupEntered, StatusEntered, CallEntered
<1> QED
  BY <1>1, <1>2, <1>3, <1>4, <1>5, <1>6, <1>7, <1>8, <1>9, <1>10, <1>11, <1>12, <1>13, <1>14, <1>15, <1>16, <1>17, <1>18, <1>19, <1>20, <1>21, <1>22, <1>23
  DEF Next, Command, Progress, Serving, Handling


\* Nobody's view ever holds a record of an agent whose Create or Join did not
\* get past verification, in any group and whatever is lost or reordered.
THEOREM OnlyEnteredAlways == Spec => []OnlyEntered
<1>1. Init => EnteredInv
  BY DEF Init, EnteredInv, OnlyEntered, GroupEntered, StatusEntered,
         CallEntered, NoGroup, Empty
<1>2. TypeOK /\ EnteredInv /\ [Next]_vars => EnteredInv'
  BY EnteredStep
<1>3. EnteredInv => OnlyEntered
  BY DEF EnteredInv
<1> QED
  BY <1>1, <1>2, <1>3, TypeCorrect, PTL DEF Spec

-----------------------------------------------------------------------------
(* An agent that never left stays a member and is asked only as a member.   *)

\* Requests, and the idle and stuck server, are told apart.
LEMMA JoinRecord ==
  ASSUME NEW j \in Agents
  PROVE  /\ [kind |-> "join", from |-> j] # Free
         /\ [kind |-> "join", from |-> j] # Stuck
         /\ [kind |-> "join", from |-> j] # Denied
         /\ \A i \in Agents : /\ [kind |-> "join", from |-> j] # [kind |-> "sub", from |-> i]
                              /\ [kind |-> "join", from |-> j] = [kind |-> "join", from |-> i] => i = j
  BY DEF Free, Stuck, Denied

LEMMA NotRequest ==
  Free \notin Request /\ Stuck \notin Request /\ Denied \notin Request
  BY DEF Free, Stuck, Denied, Request

\* Views that get a record only of agents that were members.
LEMMA ListsKept ==
  ASSUME ListsAsMember,
         \A b \in Agents : leaves'[b] = 0 => leaves[b] = 0,
         \A b \in Agents : WasMember(b) => WasMember(b)',
         \A b \in Agents : \/ leaves'[b] = 0 => WasMember(b)'
                           \/ \A x \in Agents : view'[b][x] > 0 => view[b][x] > 0
  PROVE  ListsAsMember'
  BY DEF ListsAsMember

\* No step disturbs what holds of agents that never left.
LEMMA LoyalStep ==
  TypeOK /\ EnteredInv /\ LoyalInv /\ CallInv /\ [Next]_vars => LoyalInv' /\ CallInv'
<1> SUFFICES ASSUME TypeOK, EnteredInv, LoyalInv, CallInv, [Next]_vars
             PROVE  LoyalInv' /\ CallInv'
  OBVIOUS
<1> USE DEF storeVars, callVars, serveVars, netVars, faultVars, LoyalInv
<1>0. TypeOK'
  BY NextTypeOK
<1>1. ASSUME NEW a \in Agents, Create(a) PROVE LoyalInv' /\ CallInv'
  <2>0. \A x \in Agents : WasMember(x)' => WasMember(x) \/ x = a
    BY <1>1 DEF Create, WasMember
  <2>9. \A x \in Agents : WasMember(x) => WasMember(x)'
    BY <1>1 DEF Create, WasMember
  <2>1. MemberStays'
    <3>1. view'[a][a] > 0
      <4>1. calls'[a] = calls[a] + 1 /\ calls[a] \in Nat
        BY <1>1 DEF Create, TypeOK
      <4>2. view'[a][a] = calls'[a]
        BY <1>1 DEF Create, TypeOK, View
      <4> QED BY <4>1, <4>2
    <3>2. joined'[a] /\ params'[a] # "none"
      BY <1>1, ConstantsAssumption DEF Create, TypeOK
    <3>3. \A x \in Agents \ {a} :
             /\ view'[x][x] = view[x][x] /\ joined'[x] = joined[x]
             /\ params'[x] = params[x] /\ leaves'[x] = leaves[x]
      BY <1>1 DEF Create, TypeOK
    <3> QED BY <2>0, <3>1, <3>2, <3>3 DEF MemberStays
  <2>2. ListsAsMember'
    <3>1. WasMember(a)'
      <4>1. calls'[a] \in 0..MaxCalls /\ <<a, calls'[a]>> \in entered'
        BY <1>0, <1>1 DEF Create, TypeOK
      <4> QED BY <4>1 DEF WasMember
    <3>2. \A b, x \in Agents : b # a => view'[b][x] = view[b][x]
      BY <1>1 DEF Create, TypeOK
    <3>3. leaves' = leaves
      BY <1>1 DEF Create
    <3> QED BY <2>9, <3>1, <3>2, <3>3, ListsKept
  <2>3. ServesAsMember'
    BY <1>0, <1>1, <2>0, <2>9 DEF Create, TypeOK, ServesAsMember
  <2>4. StatusTarget'
    BY <1>0, <1>1, <2>0, <2>9 DEF Create, TypeOK, StatusTarget, Members
  <2>5. (\A i \in Agents : CallFacts(i))'
    <3> SUFFICES ASSUME NEW j \in Agents PROVE CallFacts(j)'
      BY DEF CallInv
    <3>1. CASE j = a
      BY <1>0, <1>1, <3>1 DEF Create, MayCommand, TypeOK, CallFacts
    <3>2. CASE j # a
      <4>1. CallFacts(j)
        BY DEF CallInv
      <4>2. UNCHANGED <<pc, leaves, acceptor, todo, group>> /\ calls'[j] = calls[j]
            /\ params'[j] = params[j]
        BY <1>1, <3>2 DEF Create, TypeOK
      <4> QED BY <2>0, <2>9, <3>2, <4>1, <4>2 DEF CallFacts, TypeOK
    <3> QED BY <3>1, <3>2
  <2>6. JoinAwaited'
    BY <1>0, <1>1, <2>0, <2>9 DEF Create, TypeOK, CallInv, JoinAwaited
  <2> QED BY <2>1, <2>2, <2>3, <2>4, <2>5, <2>6 DEF CallInv
<1>2. ASSUME NEW a \in Agents, NEW b \in Agents, StartJoin(a, b) PROVE LoyalInv' /\ CallInv'
  <2>0. \A x \in Agents : WasMember(x)' <=> WasMember(x)
    BY <1>2 DEF StartJoin, WasMember
  <2>1. MemberStays'
    BY <1>0, <1>2, <2>0 DEF StartJoin, TypeOK, MemberStays
  <2>2. ListsAsMember'
    BY <1>0, <1>2, <2>0 DEF StartJoin, TypeOK, ListsAsMember
  <2>3. ServesAsMember'
    BY <1>0, <1>2, <2>0 DEF StartJoin, TypeOK, ServesAsMember
  <2>4. StatusTarget'
    BY <1>0, <1>2, <2>0 DEF StartJoin, TypeOK, StatusTarget, Members
  <2>5. (\A i \in Agents : CallFacts(i))'
    <3> SUFFICES ASSUME NEW j \in Agents PROVE CallFacts(j)'
      BY DEF CallInv
    <3>1. CASE j = a
      <4>1. leaves[a] = 0 => ~WasMember(a)
        BY <1>2 DEF StartJoin, MemberStays
      <4>2. pc'[a] = "request" /\ leaves' = leaves /\ calls'[a] > 0
        BY <1>2 DEF StartJoin, TypeOK
      <4> QED BY <2>0, <3>1, <4>1, <4>2 DEF CallFacts
    <3>2. CASE j # a
      <4>1. CallFacts(j)
        BY DEF CallInv
      <4>2. /\ UNCHANGED <<leaves, todo, group, params>>
            /\ calls'[j] = calls[j] /\ pc'[j] = pc[j] /\ acceptor'[j] = acceptor[j]
        BY <1>2, <3>2 DEF StartJoin, TypeOK
      <4> QED BY <1>0, <2>0, <4>1, <4>2 DEF CallFacts, TypeOK
    <3> QED BY <3>1, <3>2
  <2>6. JoinAwaited'
    BY <1>2 DEF StartJoin, MayCommand, TypeOK, CallInv, JoinAwaited
  <2> QED BY <2>1, <2>2, <2>3, <2>4, <2>5, <2>6 DEF CallInv
<1>3. ASSUME NEW a \in Agents, StartLeave(a) PROVE LoyalInv' /\ CallInv'
  <2>0. \A x \in Agents : WasMember(x)' <=> WasMember(x)
    BY <1>3 DEF StartLeave, WasMember
  <2>1. MemberStays'
    BY <1>0, <1>3, <2>0 DEF StartLeave, TypeOK, MemberStays
  <2>2. ListsAsMember'
    BY <1>0, <1>3, <2>0 DEF StartLeave, TypeOK, ListsAsMember
  <2>3. ServesAsMember'
    BY <1>0, <1>3, <2>0 DEF StartLeave, TypeOK, ServesAsMember
  <2>4. StatusTarget'
    BY <1>0, <1>3, <2>0 DEF StartLeave, TypeOK, StatusTarget, Members
  <2>5. (\A i \in Agents : CallFacts(i))'
    BY <1>0, <1>3, <2>0 DEF StartLeave, TypeOK, CallInv, CallFacts, Members
  <2>6. JoinAwaited'
    <3>1. server' = server /\ acceptor' = acceptor /\ pc[a] = "idle"
      BY <1>3 DEF StartLeave, MayCommand
    <3>2. \A j \in Agents \ {a} : pc'[j] = pc[j]
      BY <1>3 DEF StartLeave, TypeOK
    <3> QED BY <3>1, <3>2 DEF CallInv, JoinAwaited
  <2> QED BY <2>1, <2>2, <2>3, <2>4, <2>5, <2>6 DEF CallInv
<1>4. ASSUME NEW a \in Agents, StartSubscribing(a) PROVE LoyalInv' /\ CallInv'
  <2>0. \A x \in Agents : WasMember(x)' <=> WasMember(x)
    BY <1>4 DEF StartSubscribing, WasMember
  <2>1. MemberStays'
    <3>1. CallFacts(a)
      BY DEF CallInv
    <3>2. joined'[a] /\ params'[a] # "none"
      BY <1>4, <3>1 DEF StartSubscribing, TypeOK, CallFacts
    <3>3. \A x \in Agents \ {a} : joined'[x] = joined[x] /\ params'[x] = params[x]
      BY <1>4 DEF StartSubscribing, TypeOK
    <3>4. UNCHANGED <<view, leaves>>
      BY <1>4 DEF StartSubscribing
    <3> QED BY <2>0, <3>2, <3>3, <3>4 DEF MemberStays
  <2>2. ListsAsMember'
    BY <1>0, <1>4, <2>0 DEF StartSubscribing, TypeOK, ListsAsMember
  <2>3. ServesAsMember'
    BY <1>0, <1>4, <2>0 DEF StartSubscribing, TypeOK, ServesAsMember
  <2>4. StatusTarget'
    BY <1>0, <1>4, <2>0 DEF StartSubscribing, TypeOK, StatusTarget, Members
  <2>5. (\A i \in Agents : CallFacts(i))'
    BY <1>0, <1>4, <2>0 DEF StartSubscribing, TypeOK, CallInv, CallFacts, Members
  <2>6. JoinAwaited'
    BY <1>0, <1>4, <2>0 DEF StartSubscribing, TypeOK, CallInv, JoinAwaited
  <2> QED BY <2>1, <2>2, <2>3, <2>4, <2>5, <2>6 DEF CallInv
<1>5. ASSUME NEW a \in Agents, AcceptOneself(a) PROVE LoyalInv' /\ CallInv'
  <2>0. \A x \in Agents : WasMember(x)' <=> WasMember(x)
    BY <1>5 DEF AcceptOneself, WasMember
  <2>1. MemberStays'
    BY <1>0, <1>5, <2>0 DEF AcceptOneself, TypeOK, MemberStays
  <2>2. ListsAsMember'
    BY <1>0, <1>5, <2>0 DEF AcceptOneself, TypeOK, ListsAsMember
  <2>3. ServesAsMember'
    BY <1>5, <2>0, NotRequest DEF AcceptOneself, TypeOK, ServesAsMember
  <2>4. StatusTarget'
    BY <1>0, <1>5, <2>0 DEF AcceptOneself, TypeOK, StatusTarget, Members
  <2>5. (\A i \in Agents : CallFacts(i))'
    BY <1>0, <1>5, <2>0 DEF AcceptOneself, TypeOK, CallInv, CallFacts, Members
  <2>6. JoinAwaited'
    BY <1>5, JoinRecord DEF AcceptOneself, TypeOK, CallInv, JoinAwaited
  <2> QED BY <2>1, <2>2, <2>3, <2>4, <2>5, <2>6 DEF CallInv
<1>6. ASSUME NEW a \in Agents, StartConnecting(a) PROVE LoyalInv' /\ CallInv'
  <2>0. \A x \in Agents : WasMember(x)' <=> WasMember(x)
    BY <1>6 DEF StartConnecting, WasMember
  <2>1. MemberStays'
    BY <1>0, <1>6, <2>0 DEF StartConnecting, TypeOK, MemberStays
  <2>2. ListsAsMember'
    BY <1>0, <1>6, <2>0 DEF StartConnecting, TypeOK, ListsAsMember
  <2>3. ServesAsMember'
    BY <1>0, <1>6, <2>0 DEF StartConnecting, TypeOK, ServesAsMember
  <2>4. StatusTarget'
    BY <1>0, <1>6, <2>0 DEF StartConnecting, TypeOK, StatusTarget, Members
  <2>5. (\A i \in Agents : CallFacts(i))'
    BY <1>0, <1>6, <2>0 DEF StartConnecting, TypeOK, CallInv, CallFacts, Members
  <2>6. JoinAwaited'
    BY <1>0, <1>6, <2>0 DEF StartConnecting, TypeOK, CallInv, JoinAwaited
  <2> QED BY <2>1, <2>2, <2>3, <2>4, <2>5, <2>6 DEF CallInv
<1>7. ASSUME NEW a \in Agents, NEW m \in Agents, ConnectMember(a, m) PROVE LoyalInv' /\ CallInv'
  <2>0. \A x \in Agents : WasMember(x)' <=> WasMember(x)
    BY <1>7 DEF ConnectMember, Connect, WasMember
  <2>1. MemberStays'
    BY <1>0, <1>7, <2>0 DEF ConnectMember, Connect, TypeOK, MemberStays
  <2>2. ListsAsMember'
    BY <1>0, <1>7, <2>0 DEF ConnectMember, Connect, TypeOK, ListsAsMember
  <2>3. ServesAsMember'
    BY <1>0, <1>7, <2>0 DEF ConnectMember, Connect, TypeOK, ServesAsMember
  <2>4. StatusTarget'
    BY <1>0, <1>7, <2>0 DEF ConnectMember, Connect, TypeOK, StatusTarget, Members
  <2>5. (\A i \in Agents : CallFacts(i))'
    BY <1>0, <1>7, <2>0 DEF ConnectMember, Connect, TypeOK, CallInv, CallFacts, Members
  <2>6. JoinAwaited'
    BY <1>0, <1>7, <2>0 DEF ConnectMember, Connect, TypeOK, CallInv, JoinAwaited
  <2> QED BY <2>1, <2>2, <2>3, <2>4, <2>5, <2>6 DEF CallInv
<1>8. ASSUME NEW a \in Agents, FinishVerify(a) PROVE LoyalInv' /\ CallInv'
  <2>0. \A x \in Agents : WasMember(x)' => WasMember(x) \/ x = a
    BY <1>8 DEF FinishVerify, Return, WasMember
  <2>9. \A x \in Agents : WasMember(x) => WasMember(x)'
    BY <1>8 DEF FinishVerify, Return, WasMember
  <2>1. MemberStays'
    <3>1. CallFacts(a)
      BY DEF CallInv
    <3>2. params' = params /\ leaves' = leaves /\ params[a] # "none" /\ calls[a] > 0
      BY <1>8, <3>1 DEF FinishVerify, CallFacts
    <3>3. CASE UNCHANGED <<joined, view, entered>>
      BY <3>2, <3>3 DEF MemberStays, WasMember
    <3>4. CASE /\ joined' = [joined EXCEPT ![a] = TRUE]
               /\ view' = [view EXCEPT ![a] = [m \in Agents |->
                     IF m = a THEN calls[a]
                     ELSE IF group[a].view[m] > 0 THEN group[a].view[m]
                     ELSE view[a][m]]]
      <4>1. joined'[a] /\ view'[a][a] = calls[a]
        BY <3>4 DEF TypeOK
      <4>2. \A x \in Agents \ {a} : joined'[x] = joined[x] /\ view'[x] = view[x]
        BY <3>4 DEF TypeOK
      <4> QED BY <2>0, <3>2, <4>1, <4>2 DEF MemberStays
    <3> QED BY <1>8, <3>3, <3>4 DEF FinishVerify
  <2>2. ListsAsMember'
    <3>1. leaves' = leaves
      BY <1>8 DEF FinishVerify
    <3>2. \A b \in Agents \ {a} : view'[b] = view[b]
      BY <1>8 DEF FinishVerify, TypeOK
    <3>3. view' = view \/ WasMember(a)'
      <4>1. view' = view \/ <<a, calls[a]>> \in entered'
        BY <1>8 DEF FinishVerify
      <4>2. calls[a] \in 0..MaxCalls
        BY DEF TypeOK
      <4> QED BY <4>1, <4>2 DEF WasMember
    <3> QED BY <2>9, <3>1, <3>2, <3>3, ListsKept
  <2>3. ServesAsMember'
    BY <1>0, <1>8, <2>0, <2>9 DEF FinishVerify, Return, TypeOK, ServesAsMember
  <2>4. StatusTarget'
    BY <1>0, <1>8, <2>0, <2>9 DEF FinishVerify, Return, TypeOK, StatusTarget, Members
  <2>5. (\A i \in Agents : CallFacts(i))'
    BY <1>0, <1>8, <2>0, <2>9 DEF FinishVerify, Return, TypeOK, CallInv, CallFacts, Members
  <2>6. JoinAwaited'
    BY <1>0, <1>8, <2>0, <2>9 DEF FinishVerify, Return, TypeOK, CallInv, JoinAwaited
  <2> QED BY <2>1, <2>2, <2>3, <2>4, <2>5, <2>6 DEF CallInv
<1>9. ASSUME NEW a \in Agents, SayHello(a) PROVE LoyalInv' /\ CallInv'
  <2>0. \A x \in Agents : WasMember(x)' <=> WasMember(x)
    BY <1>9 DEF SayHello, Publish, WasMember
  <2>1. MemberStays'
    BY <1>0, <1>9, <2>0 DEF SayHello, Publish, TypeOK, MemberStays
  <2>2. ListsAsMember'
    BY <1>0, <1>9, <2>0 DEF SayHello, Publish, TypeOK, ListsAsMember
  <2>3. ServesAsMember'
    BY <1>0, <1>9, <2>0 DEF SayHello, Publish, TypeOK, ServesAsMember
  <2>4. StatusTarget'
    BY <1>0, <1>9, <2>0 DEF SayHello, Publish, TypeOK, StatusTarget, Members
  <2>5. (\A i \in Agents : CallFacts(i))'
    BY <1>0, <1>9, <2>0 DEF SayHello, Publish, TypeOK, CallInv, CallFacts, Members
  <2>6. JoinAwaited'
    BY <1>0, <1>9, <2>0 DEF SayHello, Publish, TypeOK, CallInv, JoinAwaited
  <2> QED BY <2>1, <2>2, <2>3, <2>4, <2>5, <2>6 DEF CallInv
<1>10. ASSUME NEW a \in Agents, NotifyActive(a) PROVE LoyalInv' /\ CallInv'
  <2>0. \A x \in Agents : WasMember(x)' <=> WasMember(x)
    BY <1>10 DEF NotifyActive, Publish, Return, WasMember
  <2>1. MemberStays'
    BY <1>0, <1>10, <2>0 DEF NotifyActive, Publish, Return, TypeOK, MemberStays
  <2>2. ListsAsMember'
    BY <1>0, <1>10, <2>0 DEF NotifyActive, Publish, Return, TypeOK, ListsAsMember
  <2>3. ServesAsMember'
    BY <1>0, <1>10, <2>0 DEF NotifyActive, Publish, Return, TypeOK, ServesAsMember
  <2>4. StatusTarget'
    <3>1. \A x \in Agents \ {a} : x \in Members(view[a]) => WasMember(x)
      <4>1. \A x \in Agents : view[a][x] > 0 =>
               view[a][x] \in 0..MaxCalls /\ <<x, view[a][x]>> \in entered
        BY DEF EnteredInv, OnlyEntered, TypeOK, View
      <4> QED BY <4>1 DEF Members, WasMember
    <3> DEFINE t == [kind |-> "active", from |-> a, call |-> calls[a]]
    <3>2. \A x \in Agents : \/ inbox'[x] = inbox[x]
                            \/ /\ x \in Members(view[a]) \ {a}
                               /\ inbox'[x] = inbox[x] \cup {t}
      BY <1>10 DEF NotifyActive, Publish
    <3>3. t.kind = "active" /\ t.from = a
      OBVIOUS
    <3> HIDE DEF t
    <3>4. SUFFICES ASSUME NEW x \in Agents, NEW s \in inbox'[x]
                   PROVE  /\ s.kind = "active" => WasMember(x)'
                          /\ s.kind # "hello" => s.from # x
      BY DEF StatusTarget
    <3>5. CASE s \in inbox[x]
      BY <2>0, <3>5 DEF StatusTarget
    <3>6. CASE s \notin inbox[x]
      <4>1. s = t /\ x # a /\ WasMember(x)
        BY <3>1, <3>2, <3>6
      <4> QED BY <2>0, <3>3, <4>1
    <3> QED BY <3>5, <3>6
  <2>5. (\A i \in Agents : CallFacts(i))'
    BY <1>0, <1>10, <2>0 DEF NotifyActive, Publish, Return, TypeOK, CallInv, CallFacts, Members
  <2>6. JoinAwaited'
    BY <1>0, <1>10, <2>0 DEF NotifyActive, Publish, Return, TypeOK, CallInv, JoinAwaited
  <2> QED BY <2>1, <2>2, <2>3, <2>4, <2>5, <2>6 DEF CallInv
<1>11. ASSUME NEW a \in Agents, FinishLeave(a) PROVE LoyalInv' /\ CallInv'
  <2>0. \A x \in Agents : WasMember(x)' <=> WasMember(x)
    BY <1>11 DEF FinishLeave, Publish, WasMember
  <2>1. MemberStays'
    <3>1. CallFacts(a)
      BY DEF CallInv
    <3>2. leaves' = leaves /\ leaves[a] > 0
      BY <1>11, <3>1 DEF FinishLeave, CallFacts
    <3>3. \A x \in Agents \ {a} :
             view'[x] = view[x] /\ joined'[x] = joined[x] /\ params'[x] = params[x]
      BY <1>11 DEF FinishLeave, TypeOK
    <3>4. \A x \in Agents : leaves'[x] = 0 => x # a
      BY <3>2
    <3> QED BY <2>0, <3>2, <3>3, <3>4 DEF MemberStays
  <2>2. ListsAsMember'
    <3>1. CallFacts(a)
      BY DEF CallInv
    <3>2. leaves' = leaves /\ leaves[a] > 0
      BY <1>11, <3>1 DEF FinishLeave, CallFacts
    <3>3. \A x \in Agents \ {a} : view'[x] = view[x]
      BY <1>11 DEF FinishLeave, TypeOK
    <3> QED BY <2>0, <3>2, <3>3, ListsKept
  <2>3. ServesAsMember'
    BY <1>0, <1>11, <2>0 DEF FinishLeave, Publish, TypeOK, ServesAsMember
  <2>4. StatusTarget'
    <3> DEFINE t == [kind |-> "inactive", from |-> a, call |-> calls[a]]
    <3>2. \A x \in Agents : \/ inbox'[x] = inbox[x]
                            \/ x # a /\ inbox'[x] = inbox[x] \cup {t}
      BY <1>11 DEF FinishLeave, Publish, TypeOK
    <3>3. t.kind = "inactive" /\ t.from = a
      OBVIOUS
    <3> HIDE DEF t
    <3>4. SUFFICES ASSUME NEW x \in Agents, NEW s \in inbox'[x]
                   PROVE  /\ s.kind = "active" => WasMember(x)'
                          /\ s.kind # "hello" => s.from # x
      BY DEF StatusTarget
    <3>5. CASE s \in inbox[x]
      BY <2>0, <3>5 DEF StatusTarget
    <3>6. CASE s \notin inbox[x]
      <4>1. s = t /\ x # a
        BY <3>2, <3>6
      <4> QED BY <3>3, <4>1
    <3> QED BY <3>5, <3>6
  <2>5. (\A i \in Agents : CallFacts(i))'
    BY <1>0, <1>11, <2>0 DEF FinishLeave, Publish, TypeOK, CallInv, CallFacts, Members
  <2>6. JoinAwaited'
    BY <1>0, <1>11, <2>0 DEF FinishLeave, Publish, TypeOK, CallInv, JoinAwaited
  <2> QED BY <2>1, <2>2, <2>3, <2>4, <2>5, <2>6 DEF CallInv
<1>12. ASSUME NEW b \in Agents, NEW j \in Agents, TakeJoin(b, j) PROVE LoyalInv' /\ CallInv'
  <2>0. \A x \in Agents : WasMember(x)' <=> WasMember(x)
    BY <1>12 DEF TakeJoin, Serve, WasMember
  <2>1. MemberStays'
    BY <1>0, <1>12, <2>0 DEF TakeJoin, Serve, TypeOK, MemberStays
  <2>2. ListsAsMember'
    BY <1>0, <1>12, <2>0 DEF TakeJoin, Serve, TypeOK, ListsAsMember
  <2>3. ServesAsMember'
    <3>1. server'[b] \in Request /\ leaves[b] = 0 => WasMember(b)
      BY <1>12, NotRequest DEF TakeJoin, Serve, TypeOK, ListsAsMember, Members
    <3>2. leaves' = leaves /\ \A x \in Agents \ {b} : server'[x] = server[x]
      BY <1>12 DEF TakeJoin, Serve, TypeOK
    <3> QED BY <2>0, <3>1, <3>2 DEF ServesAsMember
  <2>4. StatusTarget'
    BY <1>0, <1>12, <2>0 DEF TakeJoin, Serve, TypeOK, StatusTarget, Members
  <2>5. (\A i \in Agents : CallFacts(i))'
    BY <1>0, <1>12, <2>0 DEF TakeJoin, Serve, TypeOK, CallInv, CallFacts, Members
  <2>6. JoinAwaited'
    <3>1. UNCHANGED <<pc, acceptor>>
      BY <1>12 DEF TakeJoin
    <3>2. \A i \in Agents : server'[b] = [kind |-> "join", from |-> i] =>
             pc[i] = "request" /\ acceptor[i] = b
      BY <1>12, JoinRecord DEF TakeJoin, Serve, TypeOK
    <3>3. \A x \in Agents \ {b} : server'[x] = server[x]
      BY <1>12 DEF TakeJoin, Serve, TypeOK
    <3> QED BY <3>1, <3>2, <3>3 DEF CallInv, JoinAwaited
  <2> QED BY <2>1, <2>2, <2>3, <2>4, <2>5, <2>6 DEF CallInv
<1>13. ASSUME NEW b \in Agents, NEW j \in Agents, AnswerJoin(b, j) PROVE LoyalInv' /\ CallInv'
  <2>0. \A x \in Agents : WasMember(x)' <=> WasMember(x)
    BY <1>13 DEF AnswerJoin, Serve, Panic, WasMember
  <2>1. MemberStays'
    BY <1>0, <1>13, <2>0 DEF AnswerJoin, Serve, Panic, TypeOK, MemberStays
  <2>2. ListsAsMember'
    BY <1>0, <1>13, <2>0 DEF AnswerJoin, Serve, Panic, TypeOK, ListsAsMember
  <2>3. ServesAsMember'
    BY <1>13, <2>0, NotRequest DEF AnswerJoin, Serve, TypeOK, ServesAsMember
  <2>4. StatusTarget'
    BY <1>0, <1>13, <2>0 DEF AnswerJoin, Serve, Panic, TypeOK, StatusTarget, Members
  <2>5. (\A i \in Agents : CallFacts(i))'
    <3> SUFFICES ASSUME NEW i \in Agents PROVE CallFacts(i)'
      BY DEF CallInv
    <3>1. CallFacts(i)
      BY DEF CallInv
    <3>2. CASE UNCHANGED <<pc, group>>
      BY <1>13, <2>0, <3>1, <3>2 DEF AnswerJoin, CallFacts, TypeOK
    <3>3. CASE i # j
      <4>1. pc'[i] = pc[i] /\ group'[i] = group[i]
        BY <1>13, <3>3 DEF AnswerJoin, TypeOK
      <4> QED BY <1>13, <2>0, <3>1, <4>1 DEF AnswerJoin, CallFacts, TypeOK
    <3>4. CASE i = j /\ params[b] # "none"
      <4>1. pc'[i] = "accepted"
        BY <1>13, <3>4 DEF AnswerJoin, TypeOK
      <4>2. group'[i].params = params[b]
        BY <1>13, <3>4 DEF AnswerJoin, TypeOK
      <4>3. UNCHANGED <<calls, leaves, params>>
        BY <1>13 DEF AnswerJoin
      <4>4. calls[i] > 0 /\ (leaves[i] = 0 => ~WasMember(i))
        BY <1>13, <3>1, <3>4 DEF AnswerJoin, CallInv, JoinAwaited, CallFacts
      <4> QED BY <2>0, <3>4, <4>1, <4>2, <4>3, <4>4 DEF CallFacts
    <3> QED BY <1>13, <3>2, <3>3, <3>4 DEF AnswerJoin
  <2>6. JoinAwaited'
    <3>1. acceptor[j] = b /\ acceptor' = acceptor
      BY <1>13 DEF AnswerJoin, CallInv, JoinAwaited
    <3>2. CASE UNCHANGED <<pc, server>>
      BY <3>1, <3>2 DEF CallInv, JoinAwaited
    <3>3. CASE /\ pc' = [pc EXCEPT ![j] = "accepted"]
               /\ server' = [server EXCEPT ![b] = Free]
      <4>1. SUFFICES ASSUME NEW c \in Agents, NEW i \in Agents,
                            server'[c] = [kind |-> "join", from |-> i]
                     PROVE  pc'[i] = "request" /\ acceptor'[i] = c
        BY DEF JoinAwaited
      <4>2. c # b /\ server'[c] = server[c]
        BY <3>3, <4>1, JoinRecord DEF TypeOK
      <4>3. pc[i] = "request" /\ acceptor[i] = c
        BY <4>1, <4>2 DEF CallInv, JoinAwaited
      <4>4. i # j
        BY <3>1, <4>2, <4>3
      <4> QED BY <3>1, <3>3, <4>3, <4>4 DEF TypeOK
    <3> QED BY <1>13, <3>2, <3>3 DEF AnswerJoin, Serve
  <2> QED BY <2>1, <2>2, <2>3, <2>4, <2>5, <2>6 DEF CallInv
<1>14. ASSUME NEW b \in Agents, NEW j \in Agents, TakeSubscribe(b, j) PROVE LoyalInv' /\ CallInv'
  <2>0. \A x \in Agents : WasMember(x)' <=> WasMember(x)
    BY <1>14 DEF TakeSubscribe, Serve, WasMember
  <2>1. MemberStays'
    BY <1>0, <1>14, <2>0 DEF TakeSubscribe, Serve, TypeOK, MemberStays
  <2>2. ListsAsMember'
    BY <1>0, <1>14, <2>0 DEF TakeSubscribe, Serve, TypeOK, ListsAsMember
  <2>3. ServesAsMember'
    <3>1. server'[b] \in Request /\ leaves[b] = 0 => WasMember(b)
      BY <1>14, NotRequest DEF TakeSubscribe, Serve, TypeOK, View, ListsAsMember
    <3>2. leaves' = leaves /\ \A x \in Agents \ {b} : server'[x] = server[x]
      BY <1>14 DEF TakeSubscribe, Serve, TypeOK
    <3> QED BY <2>0, <3>1, <3>2 DEF ServesAsMember
  <2>4. StatusTarget'
    BY <1>0, <1>14, <2>0 DEF TakeSubscribe, Serve, TypeOK, StatusTarget, Members
  <2>5. (\A i \in Agents : CallFacts(i))'
    BY <1>0, <1>14, <2>0 DEF TakeSubscribe, Serve, TypeOK, CallInv, CallFacts, Members
  <2>6. JoinAwaited'
    BY <1>14, JoinRecord DEF TakeSubscribe, Serve, TypeOK, CallInv, JoinAwaited
  <2> QED BY <2>1, <2>2, <2>3, <2>4, <2>5, <2>6 DEF CallInv
<1>15. ASSUME NEW b \in Agents, NEW j \in Agents, AnswerSubscribe(b, j) PROVE LoyalInv' /\ CallInv'
  <2>0. \A x \in Agents : WasMember(x)' <=> WasMember(x)
    BY <1>15 DEF AnswerSubscribe, Serve, Panic, WasMember
  <2>1. MemberStays'
    BY <1>0, <1>15, <2>0 DEF AnswerSubscribe, Serve, Panic, TypeOK, MemberStays
  <2>2. ListsAsMember'
    BY <1>0, <1>15, <2>0 DEF AnswerSubscribe, Serve, Panic, TypeOK, ListsAsMember
  <2>3. ServesAsMember'
    BY <1>15, <2>0, NotRequest DEF AnswerSubscribe, Serve, TypeOK, ServesAsMember
  <2>4. StatusTarget'
    BY <1>0, <1>15, <2>0 DEF AnswerSubscribe, Serve, Panic, TypeOK, StatusTarget, Members
  <2>5. (\A i \in Agents : CallFacts(i))'
    <3> SUFFICES ASSUME NEW i \in Agents PROVE CallFacts(i)'
      BY DEF CallInv
    <3>1. CallFacts(i)
      BY DEF CallInv
    <3>2. todo'[i] \subseteq todo[i]
      <4>1. CASE todo' = todo
        BY <4>1
      <4>2. CASE todo' = [todo EXCEPT ![j] = todo[j] \ {b}]
        BY <4>2 DEF TypeOK
      <4> QED BY <1>15, <4>1, <4>2 DEF AnswerSubscribe
    <3>3. UNCHANGED <<pc, calls, leaves, acceptor, group, params>>
      BY <1>15 DEF AnswerSubscribe
    <3> QED BY <2>0, <3>1, <3>2, <3>3 DEF CallFacts, TypeOK
  <2>6. JoinAwaited'
    <3>1. UNCHANGED <<pc, acceptor>>
      BY <1>15 DEF AnswerSubscribe
    <3>2. server' = server \/ server' = [server EXCEPT ![b] = Free]
      BY <1>15 DEF AnswerSubscribe, Serve
    <3>3. ASSUME NEW c \in Agents, NEW i \in Agents,
                 server'[c] = [kind |-> "join", from |-> i]
          PROVE  server[c] = [kind |-> "join", from |-> i]
      BY <3>2, <3>3, JoinRecord DEF TypeOK
    <3> QED BY <3>1, <3>3 DEF CallInv, JoinAwaited
  <2> QED BY <2>1, <2>2, <2>3, <2>4, <2>5, <2>6 DEF CallInv
<1>16. ASSUME NEW b \in Agents, NEW r \in conning[b], ConnectSubscriber(b, r) PROVE LoyalInv' /\ CallInv'
  <2>0. \A x \in Agents : WasMember(x)' <=> WasMember(x)
    BY <1>16 DEF ConnectSubscriber, Connect, WasMember
  <2>1. MemberStays'
    BY <1>0, <1>16, <2>0 DEF ConnectSubscriber, Connect, TypeOK, MemberStays
  <2>2. ListsAsMember'
    BY <1>0, <1>16, <2>0 DEF ConnectSubscriber, Connect, TypeOK, ListsAsMember
  <2>3. ServesAsMember'
    BY <1>0, <1>16, <2>0 DEF ConnectSubscriber, Connect, TypeOK, ServesAsMember
  <2>4. StatusTarget'
    BY <1>0, <1>16, <2>0 DEF ConnectSubscriber, Connect, TypeOK, StatusTarget, Members
  <2>5. (\A i \in Agents : CallFacts(i))'
    BY <1>0, <1>16, <2>0 DEF ConnectSubscriber, Connect, TypeOK, CallInv, CallFacts, Members
  <2>6. JoinAwaited'
    BY <1>0, <1>16, <2>0 DEF ConnectSubscriber, Connect, TypeOK, CallInv, JoinAwaited
  <2> QED BY <2>1, <2>2, <2>3, <2>4, <2>5, <2>6 DEF CallInv
<1>17. ASSUME NEW b \in Agents, NEW r \in adding[b], AddSubscriber(b, r) PROVE LoyalInv' /\ CallInv'
  <2>0. \A x \in Agents : WasMember(x)' <=> WasMember(x)
    BY <1>17 DEF AddSubscriber, WasMember
  <2>1. MemberStays'
    BY <1>0, <1>17, <2>0 DEF AddSubscriber, TypeOK, MemberStays
  <2>2. ListsAsMember'
    BY <1>0, <1>17, <2>0 DEF AddSubscriber, TypeOK, ListsAsMember
  <2>3. ServesAsMember'
    BY <1>0, <1>17, <2>0 DEF AddSubscriber, TypeOK, ServesAsMember
  <2>4. StatusTarget'
    BY <1>0, <1>17, <2>0 DEF AddSubscriber, TypeOK, StatusTarget, Members
  <2>5. (\A i \in Agents : CallFacts(i))'
    BY <1>0, <1>17, <2>0 DEF AddSubscriber, TypeOK, CallInv, CallFacts, Members
  <2>6. JoinAwaited'
    BY <1>0, <1>17, <2>0 DEF AddSubscriber, TypeOK, CallInv, JoinAwaited
  <2> QED BY <2>1, <2>2, <2>3, <2>4, <2>5, <2>6 DEF CallInv
<1>18. ASSUME NEW b \in Agents, NEW s \in inbox[b], AnswerHello(b, s) PROVE LoyalInv' /\ CallInv'
  <2>0. \A x \in Agents : WasMember(x)' <=> WasMember(x)
    BY <1>18 DEF AnswerHello, Take, WasMember
  <2>1. MemberStays'
    BY <1>0, <1>18, <2>0 DEF AnswerHello, Take, TypeOK, MemberStays
  <2>2. ListsAsMember'
    BY <1>0, <1>18, <2>0 DEF AnswerHello, Take, TypeOK, ListsAsMember
  <2>3. ServesAsMember'
    BY <1>0, <1>18, <2>0 DEF AnswerHello, Take, TypeOK, ServesAsMember
  <2>4. StatusTarget'
    BY <1>0, <1>18, <2>0 DEF AnswerHello, Take, TypeOK, StatusTarget, Members
  <2>5. (\A i \in Agents : CallFacts(i))'
    BY <1>0, <1>18, <2>0 DEF AnswerHello, Take, TypeOK, CallInv, CallFacts, Members
  <2>6. JoinAwaited'
    BY <1>0, <1>18, <2>0 DEF AnswerHello, Take, TypeOK, CallInv, JoinAwaited
  <2> QED BY <2>1, <2>2, <2>3, <2>4, <2>5, <2>6 DEF CallInv
<1>19. ASSUME NEW b \in Agents, NEW s \in inbox[b], AddMember(b, s) PROVE LoyalInv' /\ CallInv'
  <2>0. \A x \in Agents : WasMember(x)' <=> WasMember(x)
    BY <1>19 DEF AddMember, Take, WasMember
  <2>1. MemberStays'
    <3>1. s.from # b /\ s.from \in Agents
      BY <1>19 DEF AddMember, StatusTarget, TypeOK, Status
    <3>2. \A x \in Agents : view'[x][x] = view[x][x]
      BY <1>19, <3>1 DEF AddMember, TypeOK, View
    <3>3. \A x \in Agents : joined[x] => joined'[x]
      BY <1>19 DEF AddMember, TypeOK
    <3>4. UNCHANGED <<leaves, params>>
      BY <1>19 DEF AddMember
    <3> QED BY <2>0, <3>2, <3>3, <3>4 DEF MemberStays
  <2>2. ListsAsMember'
    <3>1. WasMember(b)
      BY <1>19 DEF AddMember, StatusTarget
    <3>2. leaves' = leaves /\ \A x \in Agents \ {b} : view'[x] = view[x]
      BY <1>19 DEF AddMember, TypeOK
    <3> QED BY <2>0, <3>1, <3>2, ListsKept
  <2>3. ServesAsMember'
    BY <1>0, <1>19, <2>0 DEF AddMember, Take, TypeOK, ServesAsMember
  <2>4. StatusTarget'
    BY <1>0, <1>19, <2>0 DEF AddMember, Take, TypeOK, StatusTarget, Members
  <2>5. (\A i \in Agents : CallFacts(i))'
    BY <1>0, <1>19, <2>0 DEF AddMember, Take, TypeOK, CallInv, CallFacts, Members
  <2>6. JoinAwaited'
    BY <1>0, <1>19, <2>0 DEF AddMember, Take, TypeOK, CallInv, JoinAwaited
  <2> QED BY <2>1, <2>2, <2>3, <2>4, <2>5, <2>6 DEF CallInv
<1>20. ASSUME NEW b \in Agents, NEW s \in inbox[b], RemoveMember(b, s) PROVE LoyalInv' /\ CallInv'
  <2>0. \A x \in Agents : WasMember(x)' <=> WasMember(x)
    BY <1>20 DEF RemoveMember, Take, Forget, WasMember
  <2>1. MemberStays'
    <3>1. s.from # b /\ s.from \in Agents
      BY <1>20 DEF RemoveMember, StatusTarget, TypeOK, Status
    <3>2. \A x \in Agents : view'[x][x] = view[x][x]
      <4>1. CASE view' = view
        BY <4>1
      <4>2. CASE view' = [view EXCEPT ![b] = [@ EXCEPT ![s.from] = 0]]
        BY <3>1, <4>2 DEF TypeOK, View
      <4> QED BY <1>20, <4>1, <4>2 DEF RemoveMember, Forget
    <3>3. UNCHANGED <<leaves, params, joined>>
      BY <1>20 DEF RemoveMember
    <3> QED BY <2>0, <3>2, <3>3 DEF MemberStays
  <2>2. ListsAsMember'
    <3>1. leaves' = leaves
      BY <1>20 DEF RemoveMember
    <3>2. \A c, x \in Agents : view'[c][x] > 0 => view'[c][x] = view[c][x]
      <4>1. CASE view' = view
        BY <4>1
      <4>2. CASE view' = [view EXCEPT ![b] = [@ EXCEPT ![s.from] = 0]]
        BY <4>2 DEF TypeOK, View
      <4> QED BY <1>20, <4>1, <4>2 DEF RemoveMember, Forget
    <3> QED BY <2>0, <3>1, <3>2, ListsKept
  <2>3. ServesAsMember'
    BY <1>0, <1>20, <2>0 DEF RemoveMember, Take, Forget, TypeOK, ServesAsMember
  <2>4. StatusTarget'
    BY <1>0, <1>20, <2>0 DEF RemoveMember, Take, Forget, TypeOK, StatusTarget, Members
  <2>5. (\A i \in Agents : CallFacts(i))'
    BY <1>0, <1>20, <2>0 DEF RemoveMember, Take, Forget, TypeOK, CallInv, CallFacts, Members
  <2>6. JoinAwaited'
    BY <1>0, <1>20, <2>0 DEF RemoveMember, Take, Forget, TypeOK, CallInv, JoinAwaited
  <2> QED BY <2>1, <2>2, <2>3, <2>4, <2>5, <2>6 DEF CallInv
<1>21. ASSUME NEW a \in Agents, NEW b \in Agents, GoLive(a, b) PROVE LoyalInv' /\ CallInv'
  <2>0. \A x \in Agents : WasMember(x)' <=> WasMember(x)
    BY <1>21 DEF GoLive, WasMember
  <2>1. MemberStays'
    BY <1>0, <1>21, <2>0 DEF GoLive, TypeOK, MemberStays
  <2>2. ListsAsMember'
    BY <1>0, <1>21, <2>0 DEF GoLive, TypeOK, ListsAsMember
  <2>3. ServesAsMember'
    BY <1>0, <1>21, <2>0 DEF GoLive, TypeOK, ServesAsMember
  <2>4. StatusTarget'
    BY <1>0, <1>21, <2>0 DEF GoLive, TypeOK, StatusTarget, Members
  <2>5. (\A i \in Agents : CallFacts(i))'
    BY <1>0, <1>21, <2>0 DEF GoLive, TypeOK, CallInv, CallFacts, Members
  <2>6. JoinAwaited'
    BY <1>0, <1>21, <2>0 DEF GoLive, TypeOK, CallInv, JoinAwaited
  <2> QED BY <2>1, <2>2, <2>3, <2>4, <2>5, <2>6 DEF CallInv
<1>22. ASSUME NEW b \in Agents, NEW s \in inbox[b], LoseStatus(b, s) PROVE LoyalInv' /\ CallInv'
  <2>0. \A x \in Agents : WasMember(x)' <=> WasMember(x)
    BY <1>22 DEF LoseStatus, Take, WasMember
  <2>1. MemberStays'
    BY <1>0, <1>22, <2>0 DEF LoseStatus, Take, TypeOK, MemberStays
  <2>2. ListsAsMember'
    BY <1>0, <1>22, <2>0 DEF LoseStatus, Take, TypeOK, ListsAsMember
  <2>3. ServesAsMember'
    BY <1>0, <1>22, <2>0 DEF LoseStatus, Take, TypeOK, ServesAsMember
  <2>4. StatusTarget'
    BY <1>0, <1>22, <2>0 DEF LoseStatus, Take, TypeOK, StatusTarget, Members
  <2>5. (\A i \in Agents : CallFacts(i))'
    BY <1>0, <1>22, <2>0 DEF LoseStatus, Take, TypeOK, CallInv, CallFacts, Members
  <2>6. JoinAwaited'
    BY <1>0, <1>22, <2>0 DEF LoseStatus, Take, TypeOK, CallInv, JoinAwaited
  <2> QED BY <2>1, <2>2, <2>3, <2>4, <2>5, <2>6 DEF CallInv
<1>23. CASE UNCHANGED vars
  BY <1>23 DEF vars, MemberStays, ListsAsMember, ServesAsMember, StatusTarget, CallInv,
               CallFacts, JoinAwaited, WasMember, Members
<1> QED
  BY <1>1, <1>2, <1>3, <1>4, <1>5, <1>6, <1>7, <1>8, <1>9, <1>10, <1>11, <1>12, <1>13, <1>14, <1>15, <1>16, <1>17, <1>18, <1>19, <1>20, <1>21, <1>22, <1>23
  DEF Next, Command, Progress, Serving, Handling

-----------------------------------------------------------------------------
(* While nobody leaves twice, only an agent that left fails.                *)

\* A server waiting for a request is not one that waits for ever, and the two
\* ways to wait for ever are told apart.
LEMMA FreeNotStuck == Free # Stuck /\ Free # Denied /\ Denied # Stuck
  BY DEF Free, Stuck, Denied

\* The count of Leave calls never falls, so "never left" was true before.
LEMMA LeavesGrow ==
  TypeOK /\ [Next]_vars => \A a \in Agents : leaves'[a] \in Nat /\ leaves[a] <= leaves'[a]
<1> SUFFICES ASSUME TypeOK, [Next]_vars
             PROVE  \A a \in Agents : leaves'[a] \in Nat /\ leaves[a] <= leaves'[a]
  OBVIOUS
<1>1. leaves' = leaves \/ \E a \in Agents : StartLeave(a)
  <2>1. ASSUME NEW a \in Agents, Command(a) PROVE leaves' = leaves \/ StartLeave(a)
    BY <2>1 DEF Command, Create, StartJoin
  <2>2. ASSUME NEW a \in Agents, Progress(a) PROVE leaves' = leaves
    BY <2>2 DEF Progress, StartSubscribing, AcceptOneself, StartConnecting,
       ConnectMember, FinishVerify, SayHello, NotifyActive, FinishLeave, callVars
  <2>3. ASSUME NEW b \in Agents, Serving(b) PROVE leaves' = leaves
    BY <2>3 DEF Serving, TakeJoin, AnswerJoin, TakeSubscribe, AnswerSubscribe,
       ConnectSubscriber, AddSubscriber, callVars
  <2>4. ASSUME NEW b \in Agents, NEW a \in Agents, Handling(b, a)
        PROVE  leaves' = leaves
    BY <2>4 DEF Handling, AnswerHello, AddMember, RemoveMember, callVars
  <2>5. ASSUME NEW a \in Agents, NEW b \in Agents, GoLive(a, b)
        PROVE  leaves' = leaves
    BY <2>5 DEF GoLive, callVars
  <2>6. ASSUME NEW a \in Agents, NEW s \in inbox[a], LoseStatus(a, s)
        PROVE  leaves' = leaves
    BY <2>6 DEF LoseStatus, callVars
  <2>7. CASE UNCHANGED vars
    BY <2>7 DEF vars, callVars
  <2> QED BY <2>1, <2>2, <2>3, <2>4, <2>5, <2>6, <2>7 DEF Next
<1>2. ASSUME NEW a \in Agents, StartLeave(a)
      PROVE  leaves' = [leaves EXCEPT ![a] = leaves[a] + 1]
  BY <1>2 DEF StartLeave
<1>3. \A a \in Agents : leaves[a] \in Nat
  BY DEF TypeOK
<1>4. CASE leaves' = leaves
  BY <1>3, <1>4
<1>5. CASE \E a \in Agents : StartLeave(a)
  BY <1>2, <1>3, <1>5 DEF TypeOK
<1> QED BY <1>1, <1>4, <1>5

\* Steps that put no status under way keep each inactive status unique.
LEMMA OnceKept ==
  ASSUME InactiveOnce, OneLeave' => OneLeave,
         \A x \in Agents : pc'[x] = "leaving" => pc[x] = "leaving",
         \A b \in Agents : inbox'[b] \subseteq inbox[b],
         TypeOK
  PROVE  InactiveOnce'
<1> SUFFICES ASSUME OneLeave', NEW b \in Agents, NEW s \in inbox'[b], s.kind = "inactive"
             PROVE  /\ pc'[s.from] # "leaving"
                    /\ \A t \in inbox'[b] : t.kind = "inactive" /\ t.from = s.from => t = s
  BY DEF InactiveOnce
<1>1. s \in inbox[b] /\ s.from \in Agents
  BY DEF TypeOK, Status
<1>2. pc[s.from] # "leaving"
  BY <1>1 DEF InactiveOnce
<1>3. \A t \in inbox[b] : t.kind = "inactive" /\ t.from = s.from => t = s
  BY <1>1 DEF InactiveOnce
<1> QED BY <1>1, <1>2, <1>3

\* Steps that close no link keep the link an inactive status finds.
LEMMA LinkedKept ==
  ASSUME InactiveLinked, OneLeave' => OneLeave, TypeOK,
         \A b \in Agents : leaves'[b] = 0 => leaves[b] = 0,
         \A b \in Agents : inbox'[b] \subseteq inbox[b],
         \A b, x \in Agents : link[b][x] # "none" => link'[b][x] # "none"
  PROVE  InactiveLinked'
<1> SUFFICES ASSUME OneLeave', NEW b \in Agents, NEW s \in inbox'[b],
                    s.kind = "inactive", leaves'[b] = 0
             PROVE  link'[b][s.from] # "none"
  BY DEF InactiveLinked
<1>1. s \in inbox[b] /\ s.from \in Agents
  BY DEF TypeOK, Status
<1>2. link[b][s.from] # "none"
  BY <1>1 DEF InactiveLinked
<1> QED BY <1>1, <1>2

\* Whoever a joiner asks for a subscription has been a member.
LEMMA AskedWasMember ==
  ASSUME TypeOK, EnteredInv, CallInv, NEW j \in Agents, NEW b \in todo[j],
         pc[j] = "subscribing"
  PROVE  WasMember(b)
<1>1. b \in Agents /\ group[j].view[b] > 0
  BY DEF CallInv, CallFacts, Members
<1>2. group[j].view[b] \in 0..MaxCalls
  BY <1>1 DEF TypeOK, Group, View
<1>3. <<b, group[j].view[b]>> \in entered
  BY <1>1 DEF EnteredInv, GroupEntered
<1> QED BY <1>2, <1>3 DEF WasMember

\* Connections are asked for by a Join that has the params of its group and
\* for subscribers of a member; only FinishLeave takes params away.
LEMMA ParamsStep ==
  TypeOK /\ LoyalInv /\ CallInv /\ ParamsHeld /\ [Next]_vars => ParamsHeld'
<1> SUFFICES ASSUME TypeOK, LoyalInv, CallInv, ParamsHeld, [Next]_vars,
                    NEW c \in Agents, leaves'[c] = 0,
                    conning'[c] # {} \/ \E x \in Agents : link'[c][x] # "none"
             PROVE  params'[c] # "none"
  BY DEF ParamsHeld
<1> DEFINE Held == conning[c] # {} \/ \E x \in Agents : link[c][x] # "none"
<1>0. leaves[c] = 0 /\ (Held => params[c] # "none")
  <2>1. \A x \in Agents : leaves[x] \in Nat
    BY DEF TypeOK
  <2>2. leaves[c] = 0
    BY <2>1, LeavesGrow
  <2> QED BY <2>2 DEF ParamsHeld
<1> USE <1>0 DEF storeVars, callVars, serveVars, netVars, faultVars
<1>1. ASSUME NEW a \in Agents, Create(a) PROVE params'[c] # "none"
  <2>1. params' = params \/ \E k \in Kinds : params' = [params EXCEPT ![a] = k]
    BY <1>1 DEF Create
  <2>2. "none" \notin Kinds
    BY ConstantsAssumption
  <2>3. Held
    BY <1>1 DEF Create
  <2> QED BY <2>1, <2>2, <2>3 DEF TypeOK
<1>2. ASSUME NEW a \in Agents, NEW b \in Agents, StartJoin(a, b)
      PROVE params'[c] # "none"
  BY <1>2 DEF StartJoin
<1>3. ASSUME NEW a \in Agents, StartLeave(a) PROVE params'[c] # "none"
  <2>1. \A x \in Agents : link[c][x] = "none" => link'[c][x] = "none"
    BY <1>3 DEF StartLeave, Closed, TypeOK
  <2> QED BY <1>3, <2>1 DEF StartLeave
<1>4. ASSUME NEW a \in Agents, StartSubscribing(a) PROVE params'[c] # "none"
  <2>1. group[a].params # "none"
    BY <1>4 DEF StartSubscribing, CallInv, CallFacts
  <2> QED BY <1>4, <2>1 DEF StartSubscribing, TypeOK
<1>5. ASSUME NEW a \in Agents, AcceptOneself(a) PROVE params'[c] # "none"
  BY <1>5 DEF AcceptOneself
<1>6. ASSUME NEW a \in Agents, StartConnecting(a) PROVE params'[c] # "none"
  BY <1>6 DEF StartConnecting
<1>7. ASSUME NEW a \in Agents, NEW b \in Agents, ConnectMember(a, b)
      PROVE params'[c] # "none"
  <2>1. params[a] # "none" /\ params' = params
    BY <1>7 DEF ConnectMember, CallInv, CallFacts
  <2>2. a # c => Held
    BY <1>7 DEF ConnectMember, Connect, TypeOK
  <2> QED BY <2>1, <2>2
<1>8. ASSUME NEW a \in Agents, FinishVerify(a) PROVE params'[c] # "none"
  BY <1>8 DEF FinishVerify
<1>9. ASSUME NEW a \in Agents, SayHello(a) PROVE params'[c] # "none"
  BY <1>9 DEF SayHello
<1>10. ASSUME NEW a \in Agents, NotifyActive(a) PROVE params'[c] # "none"
  BY <1>10 DEF NotifyActive
<1>11. ASSUME NEW a \in Agents, FinishLeave(a) PROVE params'[c] # "none"
  <2>1. a # c
    BY <1>11 DEF FinishLeave, CallInv, CallFacts
  <2> QED BY <1>11, <2>1 DEF FinishLeave, TypeOK
<1>12. ASSUME NEW b \in Agents, NEW j \in Agents, TakeJoin(b, j)
       PROVE params'[c] # "none"
  BY <1>12 DEF TakeJoin
<1>13. ASSUME NEW b \in Agents, NEW j \in Agents, AnswerJoin(b, j)
       PROVE params'[c] # "none"
  BY <1>13 DEF AnswerJoin
<1>14. ASSUME NEW b \in Agents, NEW j \in Agents, TakeSubscribe(b, j)
       PROVE params'[c] # "none"
  BY <1>14 DEF TakeSubscribe
<1>15. ASSUME NEW b \in Agents, NEW j \in Agents, AnswerSubscribe(b, j)
       PROVE params'[c] # "none"
  <2>1. leaves[b] = 0 => params[b] # "none"
    <3>1. server[b] \in Request
      BY <1>15 DEF AnswerSubscribe, Request
    <3> QED BY <3>1 DEF LoyalInv, ServesAsMember, MemberStays
  <2>2. b # c => Held
    BY <1>15 DEF AnswerSubscribe, TypeOK
  <2> QED BY <1>15, <2>1, <2>2 DEF AnswerSubscribe
<1>16. ASSUME NEW b \in Agents, NEW r \in conning[b], ConnectSubscriber(b, r)
       PROVE params'[c] # "none"
  <2>1. Held
    BY <1>16 DEF ConnectSubscriber, Connect, TypeOK
  <2> QED BY <1>16, <2>1 DEF ConnectSubscriber
<1>17. ASSUME NEW b \in Agents, NEW r \in adding[b], AddSubscriber(b, r)
       PROVE params'[c] # "none"
  BY <1>17 DEF AddSubscriber
<1>18. ASSUME NEW b \in Agents, NEW s \in inbox[b], AnswerHello(b, s)
       PROVE params'[c] # "none"
  BY <1>18 DEF AnswerHello
<1>19. ASSUME NEW b \in Agents, NEW s \in inbox[b], AddMember(b, s)
       PROVE params'[c] # "none"
  BY <1>19 DEF AddMember
<1>20. ASSUME NEW b \in Agents, NEW s \in inbox[b], RemoveMember(b, s)
       PROVE params'[c] # "none"
  <2>1. \A x \in Agents : link[c][x] = "none" => link'[c][x] = "none"
    <3>1. link' = link \/ link' = Closed(b, {s.from}, refs[b])
      BY <1>20 DEF RemoveMember
    <3>2. CASE b # c
      BY <3>1, <3>2 DEF Closed, TypeOK
    <3>3. CASE b = c
      <4>1. ASSUME NEW x \in Agents, link[c][x] = "none"
            PROVE  Closed(b, {s.from}, refs[b])[b][x] = "none"
        BY <3>3, <4>1 DEF Closed, TypeOK
      <4> QED BY <3>1, <3>3, <4>1
    <3> QED BY <3>2, <3>3
  <2> QED BY <1>20, <2>1 DEF RemoveMember
<1>21. ASSUME NEW a \in Agents, NEW b \in Agents, GoLive(a, b)
       PROVE params'[c] # "none"
  <2>1. \A x \in Agents : link[c][x] = "none" => link'[c][x] = "none"
    BY <1>21 DEF GoLive, TypeOK
  <2> QED BY <1>21, <2>1 DEF GoLive
<1>22. ASSUME NEW b \in Agents, NEW s \in inbox[b], LoseStatus(b, s)
       PROVE params'[c] # "none"
  BY <1>22 DEF LoseStatus
<1>23. CASE UNCHANGED vars
  BY <1>23 DEF vars
<1> QED
  BY <1>1, <1>2, <1>3, <1>4, <1>5, <1>6, <1>7, <1>8, <1>9, <1>10, <1>11,
     <1>12, <1>13, <1>14, <1>15, <1>16, <1>17, <1>18, <1>19, <1>20, <1>21,
     <1>22, <1>23
  DEF Next, Command, Progress, Serving, Handling

\* No step lets an inactive status find its link gone at an agent that
\* never left, and so none makes such an agent fail.
LEMMA InactiveStep ==
  TypeOK /\ EnteredInv /\ LoyalInv /\ CallInv /\ InactiveInv /\ ParamsHeld
  /\ OnlyLeaversFail /\ [Next]_vars
     => InactiveInv' /\ OnlyLeaversFail'
<1> SUFFICES ASSUME TypeOK, EnteredInv, LoyalInv, CallInv, InactiveInv,
                    ParamsHeld, OnlyLeaversFail, [Next]_vars
             PROVE  InactiveInv' /\ OnlyLeaversFail'
  OBVIOUS
<1> USE DEF storeVars, callVars, serveVars, netVars, faultVars, InactiveInv
<1>0. /\ OneLeave' => OneLeave
      /\ \A x \in Agents : leaves[x] > 0 => leaves'[x] > 0
      /\ \A x \in Agents : leaves'[x] = 0 => leaves[x] = 0
  <2>1. \A x \in Agents : leaves[x] \in Nat
    BY DEF TypeOK
  <2> QED BY <2>1, LeavesGrow DEF OneLeave
<1>1. ASSUME NEW a \in Agents, Create(a) PROVE InactiveInv' /\ OnlyLeaversFail'
  <2>1. LeaverSpoke'
    BY <1>0, <1>1 DEF Create, TypeOK, LeaverSpoke
  <2>2. InactiveOnce'
    BY <1>0, <1>1 DEF Create, TypeOK, InactiveOnce
  <2>3. InactiveLinked'
    BY <1>0, <1>1 DEF Create, TypeOK, InactiveLinked
  <2>4. OnlyLeaversFail'
    BY <1>0, <1>1 DEF Create, TypeOK, OnlyLeaversFail
  <2> QED BY <2>1, <2>2, <2>3, <2>4
<1>2. ASSUME NEW a \in Agents, NEW b \in Agents, StartJoin(a, b) PROVE InactiveInv' /\ OnlyLeaversFail'
  <2>1. LeaverSpoke'
    BY <1>0, <1>2 DEF StartJoin, TypeOK, LeaverSpoke
  <2>2. InactiveOnce'
    BY <1>0, <1>2 DEF StartJoin, TypeOK, InactiveOnce
  <2>3. InactiveLinked'
    BY <1>0, <1>2 DEF StartJoin, TypeOK, InactiveLinked
  <2>4. OnlyLeaversFail'
    BY <1>0, <1>2 DEF StartJoin, TypeOK, OnlyLeaversFail
  <2> QED BY <2>1, <2>2, <2>3, <2>4
<1>3. ASSUME NEW a \in Agents, StartLeave(a) PROVE InactiveInv' /\ OnlyLeaversFail'
  <2>1. LeaverSpoke'
    BY <1>0, <1>3 DEF StartLeave, TypeOK, LeaverSpoke
  <2>2. InactiveOnce'
    <3> SUFFICES ASSUME OneLeave', NEW b \in Agents, NEW s \in inbox'[b],
                        s.kind = "inactive"
                 PROVE  /\ pc'[s.from] # "leaving"
                        /\ \A t \in inbox'[b] :
                              t.kind = "inactive" /\ t.from = s.from => t = s
      BY DEF InactiveOnce
    <3>1. inbox' = inbox /\ s.from \in Agents
      BY <1>3 DEF StartLeave, TypeOK, Status
    <3>2. leaves[s.from] > 0
      BY <3>1 DEF LeaverSpoke
    <3>3. s.from # a
      <4>1. leaves[a] \in Nat /\ leaves'[a] = leaves[a] + 1 /\ leaves'[a] <= 1
        BY <1>3 DEF StartLeave, TypeOK, OneLeave
      <4> QED BY <3>2, <4>1
    <3>4. pc'[s.from] = pc[s.from]
      BY <1>3, <3>1, <3>3 DEF StartLeave, TypeOK
    <3> QED BY <1>0, <3>1, <3>4 DEF InactiveOnce
  <2>3. InactiveLinked'
    <3> SUFFICES ASSUME OneLeave', NEW b \in Agents, NEW s \in inbox'[b],
                        s.kind = "inactive", leaves'[b] = 0
                 PROVE  link'[b][s.from] # "none"
      BY DEF InactiveLinked
    <3>1. b # a
      <4>1. leaves[a] \in Nat /\ leaves'[a] = leaves[a] + 1
        BY <1>3 DEF StartLeave, TypeOK
      <4> QED BY <4>1
    <3>2. inbox' = inbox /\ link'[b] = link[b]
      BY <1>3, <3>1 DEF StartLeave, TypeOK, Closed
    <3> QED BY <1>0, <3>2 DEF InactiveLinked
  <2>4. OnlyLeaversFail'
    <3>1. /\ UNCHANGED server
          /\ \A x \in Agents \ {a} :
                wedged'[x] = wedged[x] /\ up'[x] = up[x] /\ leaves'[x] = leaves[x]
          /\ leaves'[a] > 0
      BY <1>3 DEF StartLeave, Panic, TypeOK
    <3> QED BY <1>0, <3>1 DEF OnlyLeaversFail, OneLeave
  <2> QED BY <2>1, <2>2, <2>3, <2>4
<1>4. ASSUME NEW a \in Agents, StartSubscribing(a) PROVE InactiveInv' /\ OnlyLeaversFail'
  <2>1. LeaverSpoke'
    BY <1>0, <1>4 DEF StartSubscribing, TypeOK, LeaverSpoke
  <2>2. InactiveOnce'
    BY <1>0, <1>4 DEF StartSubscribing, TypeOK, InactiveOnce
  <2>3. InactiveLinked'
    BY <1>0, <1>4 DEF StartSubscribing, TypeOK, InactiveLinked
  <2>4. OnlyLeaversFail'
    BY <1>0, <1>4 DEF StartSubscribing, TypeOK, OnlyLeaversFail
  <2> QED BY <2>1, <2>2, <2>3, <2>4
<1>5. ASSUME NEW a \in Agents, AcceptOneself(a) PROVE InactiveInv' /\ OnlyLeaversFail'
  <2>1. LeaverSpoke'
    BY <1>0, <1>5 DEF AcceptOneself, TypeOK, LeaverSpoke
  <2>2. InactiveOnce'
    BY <1>0, <1>5 DEF AcceptOneself, TypeOK, InactiveOnce
  <2>3. InactiveLinked'
    BY <1>0, <1>5 DEF AcceptOneself, TypeOK, InactiveLinked
  <2>4. OnlyLeaversFail'
    <3>1. a \in todo[a] /\ pc[a] = "subscribing"
      BY <1>5 DEF AcceptOneself
    <3>2. leaves[a] # 0
      BY <3>1, AskedWasMember DEF CallInv, CallFacts
    <3>3. leaves[a] > 0
      BY <3>2 DEF TypeOK
    <3>4. /\ UNCHANGED <<wedged, up, leaves>>
          /\ \A x \in Agents \ {a} : server'[x] = server[x]
      BY <1>5 DEF AcceptOneself, TypeOK
    <3> QED BY <3>3, <3>4 DEF OnlyLeaversFail
  <2> QED BY <2>1, <2>2, <2>3, <2>4
<1>6. ASSUME NEW a \in Agents, StartConnecting(a) PROVE InactiveInv' /\ OnlyLeaversFail'
  <2>1. LeaverSpoke'
    BY <1>0, <1>6 DEF StartConnecting, TypeOK, LeaverSpoke
  <2>2. InactiveOnce'
    BY <1>0, <1>6 DEF StartConnecting, TypeOK, InactiveOnce
  <2>3. InactiveLinked'
    BY <1>0, <1>6 DEF StartConnecting, TypeOK, InactiveLinked
  <2>4. OnlyLeaversFail'
    BY <1>0, <1>6 DEF StartConnecting, TypeOK, OnlyLeaversFail
  <2> QED BY <2>1, <2>2, <2>3, <2>4
<1>7. ASSUME NEW a \in Agents, NEW m \in Agents, ConnectMember(a, m) PROVE InactiveInv' /\ OnlyLeaversFail'
  <2>1. LeaverSpoke'
    BY <1>0, <1>7 DEF ConnectMember, Connect, TypeOK, LeaverSpoke
  <2>2. InactiveOnce'
    <3>1. inbox' = inbox
      BY <1>7 DEF ConnectMember
    <3>2. \A x \in Agents : pc'[x] = "leaving" => pc[x] = "leaving"
      BY <1>7 DEF ConnectMember, TypeOK
    <3> QED BY <1>0, <3>1, <3>2, OnceKept
  <2>3. InactiveLinked'
    <3>1. inbox' = inbox
      BY <1>7 DEF ConnectMember
    <3>2. \A b, x \in Agents : link[b][x] # "none" => link'[b][x] # "none"
      <4>1. CASE link' = link
        BY <4>1
      <4>2. CASE Connect(a, m)
        <5> DEFINE row == [link[a] EXCEPT ![m] =
                              IF link[a][m] = "none" THEN "pending" ELSE link[a][m]]
        <5>1. link' = [link EXCEPT ![a] = row]
          BY <4>2 DEF Connect
        <5>2. \A x \in Agents : link[a][x] # "none" => row[x] # "none"
          BY DEF TypeOK
        <5> HIDE DEF row
        <5>3. /\ link'[a] = row
              /\ \A b \in Agents \ {a} : link'[b] = link[b]
          BY <5>1 DEF TypeOK
        <5> QED BY <5>2, <5>3
      <4> QED BY <1>7, <4>1, <4>2 DEF ConnectMember
    <3> QED BY <1>0, <3>1, <3>2, LinkedKept
  <2>4. OnlyLeaversFail'
    BY <1>0, <1>7 DEF ConnectMember, Connect, TypeOK, OnlyLeaversFail
  <2> QED BY <2>1, <2>2, <2>3, <2>4
<1>8. ASSUME NEW a \in Agents, FinishVerify(a) PROVE InactiveInv' /\ OnlyLeaversFail'
  <2>1. LeaverSpoke'
    BY <1>0, <1>8 DEF FinishVerify, Return, TypeOK, LeaverSpoke
  <2>2. InactiveOnce'
    <3>1. inbox' = inbox
      BY <1>8 DEF FinishVerify
    <3>2. \A x \in Agents : pc'[x] = "leaving" => pc[x] = "leaving"
      BY <1>8 DEF FinishVerify, Return, TypeOK
    <3> QED BY <1>0, <3>1, <3>2, OnceKept
  <2>3. InactiveLinked'
    BY <1>0, <1>8 DEF FinishVerify, Return, TypeOK, InactiveLinked
  <2>4. OnlyLeaversFail'
    BY <1>0, <1>8 DEF FinishVerify, Return, TypeOK, OnlyLeaversFail
  <2> QED BY <2>1, <2>2, <2>3, <2>4
<1>9. ASSUME NEW a \in Agents, SayHello(a) PROVE InactiveInv' /\ OnlyLeaversFail'
  <2>1. LeaverSpoke'
    BY <1>0, <1>9 DEF SayHello, Publish, TypeOK, LeaverSpoke
  <2>2. InactiveOnce'
    BY <1>0, <1>9 DEF SayHello, Publish, TypeOK, InactiveOnce
  <2>3. InactiveLinked'
    BY <1>0, <1>9 DEF SayHello, Publish, TypeOK, InactiveLinked
  <2>4. OnlyLeaversFail'
    BY <1>0, <1>9 DEF SayHello, Publish, TypeOK, OnlyLeaversFail
  <2> QED BY <2>1, <2>2, <2>3, <2>4
<1>10. ASSUME NEW a \in Agents, NotifyActive(a) PROVE InactiveInv' /\ OnlyLeaversFail'
  <2>1. LeaverSpoke'
    BY <1>0, <1>10 DEF NotifyActive, Publish, Return, TypeOK, LeaverSpoke
  <2>2. InactiveOnce'
    BY <1>0, <1>10 DEF NotifyActive, Publish, Return, TypeOK, InactiveOnce
  <2>3. InactiveLinked'
    BY <1>0, <1>10 DEF NotifyActive, Publish, Return, TypeOK, InactiveLinked
  <2>4. OnlyLeaversFail'
    BY <1>0, <1>10 DEF NotifyActive, Publish, Return, TypeOK, OnlyLeaversFail
  <2> QED BY <2>1, <2>2, <2>3, <2>4
<1>11. ASSUME NEW a \in Agents, FinishLeave(a) PROVE InactiveInv' /\ OnlyLeaversFail'
  <2>1. LeaverSpoke'
    <3> DEFINE t == [kind |-> "inactive", from |-> a, call |-> calls[a]]
    <3>1. t.kind = "inactive" /\ t.from = a
      OBVIOUS
    <3>2. \A x \in Agents : inbox'[x] = inbox[x] \/
                            (link[x][a] = "live" /\ inbox'[x] = inbox[x] \cup {t})
      <4>1. CASE inbox' = inbox
        BY <4>1
      <4>2. CASE Publish(a, "inactive", Members(view[a]) \ {a})
        BY <4>2 DEF Publish
      <4> QED BY <1>11, <4>1, <4>2 DEF FinishLeave
    <3> HIDE DEF t
    <3>3. pc[a] = "leaving" /\ leaves[a] > 0 /\ leaves' = leaves /\ link' = link
      BY <1>11 DEF FinishLeave, CallInv, CallFacts
    <3> QED BY <3>1, <3>2, <3>3 DEF LeaverSpoke
  <2>2. InactiveOnce'
    <3> DEFINE t == [kind |-> "inactive", from |-> a, call |-> calls[a]]
    <3>1. t.kind = "inactive" /\ t.from = a
      OBVIOUS
    <3>2. \A x \in Agents : inbox'[x] = inbox[x] \/
                            (link[x][a] = "live" /\ inbox'[x] = inbox[x] \cup {t})
      <4>1. CASE inbox' = inbox
        BY <4>1
      <4>2. CASE Publish(a, "inactive", Members(view[a]) \ {a})
        BY <4>2 DEF Publish
      <4> QED BY <1>11, <4>1, <4>2 DEF FinishLeave
    <3> HIDE DEF t
    <3>3. pc[a] = "leaving" /\ leaves[a] > 0 /\ leaves' = leaves /\ link' = link
      BY <1>11 DEF FinishLeave, CallInv, CallFacts
    <3>4. SUFFICES ASSUME OneLeave', NEW b \in Agents, NEW s \in inbox'[b],
                          s.kind = "inactive"
                   PROVE  /\ pc'[s.from] # "leaving"
                          /\ \A u \in inbox'[b] :
                                u.kind = "inactive" /\ u.from = s.from => u = s
      BY DEF InactiveOnce
    <3>5. \A u \in inbox[b] : u.kind = "inactive" =>
             u.from # a /\ u.from \in Agents /\ pc[u.from] # "leaving"
      BY <1>0, <3>3, <3>4 DEF InactiveOnce, TypeOK, Status
    <3>6. pc'[a] = "idle" /\ \A x \in Agents \ {a} : pc'[x] = pc[x]
      BY <1>11 DEF FinishLeave, TypeOK
    <3>7. CASE s \in inbox[b]
      <4>1. \A u \in inbox[b] : u.kind = "inactive" /\ u.from = s.from => u = s
        BY <1>0, <3>4, <3>7 DEF InactiveOnce
      <4>2. \A u \in inbox'[b] : u \in inbox[b] \/ u = t
        BY <3>2
      <4> QED BY <3>1, <3>4, <3>5, <3>6, <3>7, <4>1, <4>2
    <3>8. CASE s \notin inbox[b]
      <4>1. s = t /\ \A u \in inbox'[b] : u \in inbox[b] \/ u = t
        BY <3>2, <3>8
      <4> QED BY <3>1, <3>5, <3>6, <4>1
    <3> QED BY <3>7, <3>8
  <2>3. InactiveLinked'
    <3> DEFINE t == [kind |-> "inactive", from |-> a, call |-> calls[a]]
    <3>1. t.kind = "inactive" /\ t.from = a
      OBVIOUS
    <3>2. \A x \in Agents : inbox'[x] = inbox[x] \/
                            (link[x][a] = "live" /\ inbox'[x] = inbox[x] \cup {t})
      <4>1. CASE inbox' = inbox
        BY <4>1
      <4>2. CASE Publish(a, "inactive", Members(view[a]) \ {a})
        BY <4>2 DEF Publish
      <4> QED BY <1>11, <4>1, <4>2 DEF FinishLeave
    <3> HIDE DEF t
    <3>3. pc[a] = "leaving" /\ leaves[a] > 0 /\ leaves' = leaves /\ link' = link
      BY <1>11 DEF FinishLeave, CallInv, CallFacts
    <3>4. SUFFICES ASSUME OneLeave', NEW b \in Agents, NEW s \in inbox'[b],
                          s.kind = "inactive", leaves'[b] = 0
                   PROVE  link'[b][s.from] # "none"
      BY DEF InactiveLinked
    <3>5. CASE s \in inbox[b]
      BY <1>0, <3>3, <3>4, <3>5 DEF InactiveLinked
    <3>6. CASE s \notin inbox[b]
      <4>1. s = t /\ link[b][a] = "live"
        BY <3>2, <3>6
      <4> QED BY <3>1, <3>3, <4>1
    <3> QED BY <3>5, <3>6
  <2>4. OnlyLeaversFail'
    BY <1>0, <1>11 DEF FinishLeave, Publish, TypeOK, OnlyLeaversFail
  <2> QED BY <2>1, <2>2, <2>3, <2>4
<1>12. ASSUME NEW b \in Agents, NEW j \in Agents, TakeJoin(b, j) PROVE InactiveInv' /\ OnlyLeaversFail'
  <2>1. LeaverSpoke'
    BY <1>0, <1>12 DEF TakeJoin, Serve, TypeOK, LeaverSpoke
  <2>2. InactiveOnce'
    BY <1>0, <1>12 DEF TakeJoin, Serve, TypeOK, InactiveOnce
  <2>3. InactiveLinked'
    BY <1>0, <1>12 DEF TakeJoin, Serve, TypeOK, InactiveLinked
  <2>4. OnlyLeaversFail'
    <3>1. /\ UNCHANGED <<wedged, up, leaves>>
          /\ \A x \in Agents \ {b} : server'[x] = server[x]
      BY <1>12 DEF TakeJoin, Serve, TypeOK
    <3>2. server'[b] # Stuck
      BY <1>12, JoinRecord, FreeNotStuck DEF TakeJoin, Serve, TypeOK
    <3> QED BY <3>1, <3>2 DEF OnlyLeaversFail
  <2> QED BY <2>1, <2>2, <2>3, <2>4
<1>13. ASSUME NEW b \in Agents, NEW j \in Agents, AnswerJoin(b, j) PROVE InactiveInv' /\ OnlyLeaversFail'
  <2>1. LeaverSpoke'
    BY <1>0, <1>13 DEF AnswerJoin, Serve, Panic, TypeOK, LeaverSpoke
  <2>2. InactiveOnce'
    <3>1. inbox' = inbox
      BY <1>13 DEF AnswerJoin
    <3>2. \A x \in Agents : pc'[x] = "leaving" => pc[x] = "leaving"
      BY <1>13 DEF AnswerJoin, TypeOK
    <3> QED BY <1>0, <3>1, <3>2, OnceKept
  <2>3. InactiveLinked'
    BY <1>0, <1>13 DEF AnswerJoin, Serve, Panic, TypeOK, InactiveLinked
  <2>4. OnlyLeaversFail'
    <3>1. leaves[b] = 0 => params[b] # "none"
      <4>1. server[b] \in Request
        BY <1>13 DEF AnswerJoin, Request
      <4> QED BY <4>1 DEF LoyalInv, ServesAsMember, MemberStays
    <3>2. leaves[b] = 0 => up' = up
      BY <1>13, <3>1 DEF AnswerJoin
    <3>3. /\ UNCHANGED <<wedged, leaves>>
          /\ \A x \in Agents \ {b} : server'[x] = server[x] /\ up'[x] = up[x]
          /\ server'[b] # Stuck
      BY <1>13, NotRequest, FreeNotStuck DEF AnswerJoin, Serve, Panic, TypeOK, Request
    <3>4. leaves[b] \in Nat
      BY DEF TypeOK
    <3> QED BY <3>2, <3>3, <3>4 DEF OnlyLeaversFail
  <2> QED BY <2>1, <2>2, <2>3, <2>4
<1>14. ASSUME NEW b \in Agents, NEW j \in Agents, TakeSubscribe(b, j) PROVE InactiveInv' /\ OnlyLeaversFail'
  <2>1. LeaverSpoke'
    BY <1>0, <1>14 DEF TakeSubscribe, Serve, TypeOK, LeaverSpoke
  <2>2. InactiveOnce'
    BY <1>0, <1>14 DEF TakeSubscribe, Serve, TypeOK, InactiveOnce
  <2>3. InactiveLinked'
    BY <1>0, <1>14 DEF TakeSubscribe, Serve, TypeOK, InactiveLinked
  <2>4. OnlyLeaversFail'
    <3>1. /\ UNCHANGED <<wedged, up, leaves>>
          /\ \A x \in Agents \ {b} : server'[x] = server[x]
      BY <1>14 DEF TakeSubscribe, Serve, TypeOK
    <3>2. leaves[b] = 0 => view[b][b] # 0
      <4>1. WasMember(b)
        BY <1>14, AskedWasMember DEF TakeSubscribe
      <4>2. leaves[b] = 0 => view[b][b] > 0
        BY <4>1 DEF LoyalInv, MemberStays
      <4> QED BY <4>2
    <3>3. leaves[b] = 0 /\ ~wedged[b] => server'[b] # Stuck
      BY <1>14, <3>2, NotRequest DEF TakeSubscribe, Serve, TypeOK, Request
    <3>4. leaves[b] \in Nat
      BY DEF TypeOK
    <3> QED BY <3>1, <3>3, <3>4 DEF OnlyLeaversFail
  <2> QED BY <2>1, <2>2, <2>3, <2>4
<1>15. ASSUME NEW b \in Agents, NEW j \in Agents, AnswerSubscribe(b, j) PROVE InactiveInv' /\ OnlyLeaversFail'
  <2>1. LeaverSpoke'
    BY <1>0, <1>15 DEF AnswerSubscribe, Serve, Panic, TypeOK, LeaverSpoke
  <2>2. InactiveOnce'
    BY <1>0, <1>15 DEF AnswerSubscribe, Serve, Panic, TypeOK, InactiveOnce
  <2>3. InactiveLinked'
    BY <1>0, <1>15 DEF AnswerSubscribe, Serve, Panic, TypeOK, InactiveLinked
  <2>4. OnlyLeaversFail'
    <3>1. leaves[b] = 0 => joined[b]
      <4>1. server[b] \in Request
        BY <1>15 DEF AnswerSubscribe, Request
      <4> QED BY <4>1 DEF LoyalInv, ServesAsMember, MemberStays
    <3>2. leaves[b] = 0 => up' = up
      BY <1>15, <3>1 DEF AnswerSubscribe
    <3>3. /\ UNCHANGED <<wedged, leaves>>
          /\ \A x \in Agents \ {b} : server'[x] = server[x] /\ up'[x] = up[x]
          /\ server'[b] # Stuck
      BY <1>15, NotRequest, FreeNotStuck DEF AnswerSubscribe, Serve, Panic, TypeOK, Request
    <3>4. leaves[b] \in Nat
      BY DEF TypeOK
    <3> QED BY <3>2, <3>3, <3>4 DEF OnlyLeaversFail
  <2> QED BY <2>1, <2>2, <2>3, <2>4
<1>16. ASSUME NEW b \in Agents, NEW r \in conning[b], ConnectSubscriber(b, r) PROVE InactiveInv' /\ OnlyLeaversFail'
  <2>1. LeaverSpoke'
    BY <1>0, <1>16 DEF ConnectSubscriber, Connect, TypeOK, LeaverSpoke
  <2>2. InactiveOnce'
    BY <1>0, <1>16 DEF ConnectSubscriber, Connect, TypeOK, InactiveOnce
  <2>3. InactiveLinked'
    BY <1>0, <1>16 DEF ConnectSubscriber, Connect, TypeOK, InactiveLinked
  <2>4. OnlyLeaversFail'
    <3>1. leaves[b] = 0 => ~DataPanics(b, {r[1]})
      BY <1>16 DEF ParamsHeld, DataPanics
    <3>2. leaves[b] = 0 => up' = up
      BY <1>16, <3>1 DEF ConnectSubscriber
    <3>3. /\ UNCHANGED <<server, wedged, leaves>>
          /\ \A x \in Agents \ {b} : up'[x] = up[x]
      BY <1>16 DEF ConnectSubscriber, Panic, TypeOK
    <3>4. leaves[b] \in Nat
      BY DEF TypeOK
    <3> QED BY <3>2, <3>3, <3>4 DEF OnlyLeaversFail
  <2> QED BY <2>1, <2>2, <2>3, <2>4
<1>17. ASSUME NEW b \in Agents, NEW r \in adding[b], AddSubscriber(b, r) PROVE InactiveInv' /\ OnlyLeaversFail'
  <2>1. LeaverSpoke'
    BY <1>0, <1>17 DEF AddSubscriber, TypeOK, LeaverSpoke
  <2>2. InactiveOnce'
    BY <1>0, <1>17 DEF AddSubscriber, TypeOK, InactiveOnce
  <2>3. InactiveLinked'
    BY <1>0, <1>17 DEF AddSubscriber, TypeOK, InactiveLinked
  <2>4. OnlyLeaversFail'
    BY <1>0, <1>17 DEF AddSubscriber, TypeOK, OnlyLeaversFail
  <2> QED BY <2>1, <2>2, <2>3, <2>4
<1>18. ASSUME NEW b \in Agents, NEW s \in inbox[b], AnswerHello(b, s) PROVE InactiveInv' /\ OnlyLeaversFail'
  <2>1. LeaverSpoke'
    BY <1>0, <1>18 DEF AnswerHello, Take, TypeOK, LeaverSpoke
  <2>2. InactiveOnce'
    BY <1>0, <1>18 DEF AnswerHello, Take, TypeOK, InactiveOnce
  <2>3. InactiveLinked'
    BY <1>0, <1>18 DEF AnswerHello, Take, TypeOK, InactiveLinked
  <2>4. OnlyLeaversFail'
    BY <1>0, <1>18 DEF AnswerHello, Take, TypeOK, OnlyLeaversFail
  <2> QED BY <2>1, <2>2, <2>3, <2>4
<1>19. ASSUME NEW b \in Agents, NEW s \in inbox[b], AddMember(b, s) PROVE InactiveInv' /\ OnlyLeaversFail'
  <2>1. LeaverSpoke'
    BY <1>0, <1>19 DEF AddMember, Take, TypeOK, LeaverSpoke
  <2>2. InactiveOnce'
    BY <1>0, <1>19 DEF AddMember, Take, TypeOK, InactiveOnce
  <2>3. InactiveLinked'
    BY <1>0, <1>19 DEF AddMember, Take, TypeOK, InactiveLinked
  <2>4. OnlyLeaversFail'
    BY <1>0, <1>19 DEF AddMember, Take, TypeOK, OnlyLeaversFail
  <2> QED BY <2>1, <2>2, <2>3, <2>4
<1>20. ASSUME NEW b \in Agents, NEW s \in inbox[b], RemoveMember(b, s) PROVE InactiveInv' /\ OnlyLeaversFail'
  <2>1. LeaverSpoke'
    BY <1>0, <1>20 DEF RemoveMember, Take, Forget, TypeOK, LeaverSpoke
  <2>2. InactiveOnce'
    BY <1>0, <1>20 DEF RemoveMember, Take, Forget, TypeOK, InactiveOnce
  <2>3. InactiveLinked'
    <3> SUFFICES ASSUME OneLeave', NEW c \in Agents, NEW t \in inbox'[c],
                        t.kind = "inactive", leaves'[c] = 0
                 PROVE  link'[c][t.from] # "none"
      BY DEF InactiveLinked
    <3>1. inbox' = [inbox EXCEPT ![b] = inbox[b] \ {s}]
      BY <1>20 DEF RemoveMember, Take
    <3>2. t \in inbox[c] /\ (c = b => t # s)
      BY <3>1 DEF TypeOK
    <3>3. link[c][t.from] # "none"
      BY <1>0, <3>2 DEF InactiveLinked
    <3>4. c = b => t.from # s.from
      BY <1>0, <1>20, <3>2 DEF InactiveOnce, RemoveMember
    <3>5. t.from \in Agents
      BY <3>2 DEF TypeOK, Status
    <3>6. CASE link' = link
      BY <3>3, <3>6
    <3>7. CASE link' = Closed(b, {s.from}, refs[b])
      BY <3>3, <3>4, <3>5, <3>7 DEF Closed, TypeOK
    <3> QED BY <1>20, <3>6, <3>7 DEF RemoveMember
  <2>4. OnlyLeaversFail'
    <3>1. OneLeave /\ link[b][s.from] = "none" => leaves[b] # 0
      BY <1>20 DEF RemoveMember, InactiveLinked
    <3>2. OneLeave /\ leaves[b] = 0 => wedged' = wedged
      BY <1>20, <3>1 DEF RemoveMember
    <3>3. /\ UNCHANGED <<server, leaves>>
          /\ \A x \in Agents \ {b} : wedged'[x] = wedged[x] /\ up'[x] = up[x]
      BY <1>20 DEF RemoveMember, Panic, TypeOK
    <3>4. leaves[b] \in Nat /\ s.from \in Agents
      BY DEF TypeOK, Status
    <3>5. leaves[b] = 0 /\ link[b][s.from] # "none" => ~DataPanics(b, {s.from})
      BY <3>4 DEF ParamsHeld, DataPanics
    <3>6. leaves[b] = 0 => up' = up
      BY <1>20, <3>5 DEF RemoveMember
    <3> QED BY <3>2, <3>3, <3>4, <3>6 DEF OnlyLeaversFail, OneLeave
  <2> QED BY <2>1, <2>2, <2>3, <2>4
<1>21. ASSUME NEW a \in Agents, NEW b \in Agents, GoLive(a, b) PROVE InactiveInv' /\ OnlyLeaversFail'
  <2>1. LeaverSpoke'
    BY <1>0, <1>21 DEF GoLive, TypeOK, LeaverSpoke
  <2>2. InactiveOnce'
    BY <1>0, <1>21 DEF GoLive, TypeOK, InactiveOnce
  <2>3. InactiveLinked'
    BY <1>0, <1>21 DEF GoLive, TypeOK, InactiveLinked
  <2>4. OnlyLeaversFail'
    BY <1>0, <1>21 DEF GoLive, TypeOK, OnlyLeaversFail
  <2> QED BY <2>1, <2>2, <2>3, <2>4
<1>22. ASSUME NEW b \in Agents, NEW s \in inbox[b], LoseStatus(b, s) PROVE InactiveInv' /\ OnlyLeaversFail'
  <2>1. LeaverSpoke'
    BY <1>0, <1>22 DEF LoseStatus, Take, TypeOK, LeaverSpoke
  <2>2. InactiveOnce'
    BY <1>0, <1>22 DEF LoseStatus, Take, TypeOK, InactiveOnce
  <2>3. InactiveLinked'
    BY <1>0, <1>22 DEF LoseStatus, Take, TypeOK, InactiveLinked
  <2>4. OnlyLeaversFail'
    BY <1>0, <1>22 DEF LoseStatus, Take, TypeOK, OnlyLeaversFail
  <2> QED BY <2>1, <2>2, <2>3, <2>4
<1>23. CASE UNCHANGED vars
  BY <1>23 DEF vars, LeaverSpoke, InactiveOnce, InactiveLinked, OnlyLeaversFail, OneLeave
<1> QED
  BY <1>1, <1>2, <1>3, <1>4, <1>5, <1>6, <1>7, <1>8, <1>9, <1>10, <1>11, <1>12, <1>13, <1>14, <1>15, <1>16, <1>17, <1>18, <1>19, <1>20, <1>21, <1>22, <1>23
  DEF Next, Command, Progress, Serving, Handling

\* All that holds of the agents' views, calls, servers and statuses together.
GroupInv ==
  TypeOK /\ EnteredInv /\ LoyalInv /\ CallInv /\ InactiveInv /\ ParamsHeld /\ OnlyLeaversFail

LEMMA GroupInvAlways == Spec => []GroupInv
<1>1. Init => GroupInv
  <2> SUFFICES ASSUME Init PROVE GroupInv
    OBVIOUS
  <2>1. TypeOK
    BY InitTypeOK
  <2>2. EnteredInv
    BY DEF Init, Empty, NoGroup, EnteredInv, OnlyEntered, GroupEntered,
           StatusEntered, CallEntered
  <2>3. LoyalInv
    BY NotRequest DEF Init, Empty, LoyalInv, MemberStays, ListsAsMember,
           ServesAsMember, StatusTarget, WasMember
  <2>4. CallInv
    BY JoinRecord DEF Init, CallInv, JoinAwaited, CallFacts
  <2>5. InactiveInv
    BY DEF Init, InactiveInv, LeaverSpoke, InactiveOnce, InactiveLinked
  <2>6. OnlyLeaversFail
    BY FreeNotStuck DEF Init, OnlyLeaversFail
  <2>7. ParamsHeld
    BY DEF Init, ParamsHeld
  <2> QED BY <2>1, <2>2, <2>3, <2>4, <2>5, <2>6, <2>7 DEF GroupInv
<1>2. GroupInv /\ [Next]_vars => GroupInv'
  BY NextTypeOK, EnteredStep, LoyalStep, ParamsStep, InactiveStep DEF GroupInv
<1> QED
  BY <1>1, <1>2, PTL DEF Spec

\* As long as nobody leaves twice, an agent that never left leaves no request
\* without an answer but a Join to a group it does not have, its data listener
\* goes on and its process does not panic: the failing paths of subscriptions,
\* sendSubscribeRes and removeMember, and the nil dereferences, are met only by
\* agents that left themselves (pubsub/processor.go).
THEOREM OnlyLeaversFailAlways == Spec => []OnlyLeaversFail
<1>1. GroupInv => OnlyLeaversFail
  BY DEF GroupInv
<1> QED BY <1>1, GroupInvAlways, PTL

=============================================================================
