----------------------------- MODULE SyncerProof -----------------------------
(***************************************************************************)
(* Theorems about Syncer for any agents, ids, clocks and numbers of calls. *)
(***************************************************************************)
EXTENDS Syncer, TLAPS

\* What is done to the timestamp never takes it back.
LEMMA NextLampAhead ==
    ASSUME TypeOK, NEW a \in Agents
    PROVE  /\ NextLamp(a) \in Nat
           /\ NextLamp(a) >= ts[a].lamp
           /\ NextLamp(a) > ts[a].lamp \/ NextLamp(a) = clock[a]
BY DEF TypeOK, Ts, NextLamp

LEMMA MergeAhead ==
    ASSUME NEW x \in Ts, NEW y \in Ts
    PROVE  /\ Merge(x, y) \in Ts
           /\ Merge(x, y).lamp = Later(x.lamp, y.lamp)
BY DEF Ts, Merge, Later

-----------------------------------------------------------------------------
(* Type correctness. *)

LEMMA InitTypeOK == Init => TypeOK
BY DEF Init, TypeOK, Ts

LEMMA EnterTypeOK ==
    ASSUME TypeOK, NEW a \in Agents, NEW p \in {"plain", "ordered"}, Enter(a, p)
    PROVE  TypeOK'
<1>1. [sid |-> id[a], lamp |-> clock[a]] \in Ts
  BY DEF TypeOK, Ts
<1>2. ts' \in [Agents -> Ts]
  BY <1>1 DEF TypeOK, Enter
<1> QED BY <1>2 DEF TypeOK, Enter

\* A message is stamped with a timestamp.
LEMMA StampTyped ==
    ASSUME TypeOK, NEW a \in Agents
    PROVE  [ts[a] EXCEPT !.lamp = NextLamp(a)] \in Ts
BY NextLampAhead DEF TypeOK, Ts

LEMMA SendTypeOK ==
    ASSUME TypeOK, NEW a \in Agents, Send(a)
    PROVE  TypeOK'
<1> DEFINE stamp == IF Ordered(a) THEN [ts[a] EXCEPT !.lamp = NextLamp(a)]
                    ELSE ts[a]
<1> DEFINE msg == [by |-> a, n |-> sends[a], ordered |-> params[a] = "ordered",
                   wrapped |-> Ordered(a), ts |-> stamp, past |-> past[a],
                   at |-> clock[a]]
<1>1. stamp \in Ts
  BY StampTyped DEF TypeOK
<1>2. msg \in Message
  <2>1. Ordered(a) \in BOOLEAN
    BY DEF Ordered
  <2> HIDE DEF stamp
  <2> QED BY <1>1, <2>1 DEF TypeOK, Message
<1>3. Later(past[a], stamp.lamp) \in Nat
  BY <1>1 DEF TypeOK, Ts, Later
<1>4. /\ ts' = [ts EXCEPT ![a] = stamp]
      /\ sent' = sent \cup {msg}
      /\ flight' = flight \cup {[to |-> b, msg |-> msg] :
                     b \in {c \in Agents \ {a} : params[c] # "none"}}
      /\ past' = [past EXCEPT ![a] = Later(@, stamp.lamp)]
      /\ sends' = [sends EXCEPT ![a] = @ + 1]
      /\ UNCHANGED <<clock, id, params, calls, shown>>
  BY DEF Send
<1> HIDE DEF stamp, msg
<1> QED BY <1>1, <1>2, <1>3, <1>4 DEF TypeOK

LEMMA HandleTypeOK ==
    ASSUME TypeOK, NEW f \in flight, Handle(f)
    PROVE  TypeOK'
<1>1. /\ f.to \in Agents /\ f.msg \in Message /\ f.msg.ts \in Ts
      /\ ts[f.to] \in Ts
  BY DEF TypeOK, Message
<1>2. Later(past[f.to], f.msg.ts.lamp) \in Nat
  BY <1>1 DEF TypeOK, Ts, Later
<1>3. Merge(ts[f.to], f.msg.ts) \in Ts
  BY <1>1, MergeAhead
<1>4. ts' = ts \/ ts' = [ts EXCEPT ![f.to] = Merge(@, f.msg.ts)]
  BY DEF Handle
<1>5. past' = past \/ past' = [past EXCEPT ![f.to] = Later(@, f.msg.ts.lamp)]
  BY DEF Handle
<1>6. ts' \in [Agents -> Ts]
  BY <1>1, <1>3, <1>4 DEF TypeOK
<1>7. past' \in [Agents -> Nat]
  BY <1>1, <1>2, <1>5 DEF TypeOK
<1>8. shown' \subseteq [ordered : BOOLEAN, how : {"text", "raw", "dropped"}]
  <2>1. f.msg.ordered \in BOOLEAN
    BY <1>1 DEF Message
  <2>2. \E how \in {"text", "raw", "dropped"} :
          shown' = shown \cup {[ordered |-> f.msg.ordered, how |-> how]}
    BY DEF Handle
  <2> QED BY <2>1, <2>2 DEF TypeOK
<1> QED BY <1>6, <1>7, <1>8 DEF TypeOK, Handle

\* The steps of Create and Join.
LEMMA EnterCases ==
    ASSUME TypeOK, NEW a \in Agents, Create(a) \/ Join(a)
    PROVE  \E p \in {"plain", "ordered"} :
             /\ Enter(a, p)
             /\ \/ \A b \in Agents : params[b] = "none"
                \/ \E b \in Agents : params[b] = p
<1>1. CASE Create(a)
  BY <1>1 DEF Create
<1>2. CASE Join(a)
  <2>1. PICK b \in Agents : params[b] # "none" /\ Enter(a, params[b])
    BY <1>2 DEF Join
  <2> QED BY <2>1 DEF TypeOK
<1> QED BY <1>1, <1>2

LEMMA StepTypeOK == TypeOK /\ [Next]_vars => TypeOK'
<1> SUFFICES ASSUME TypeOK, [Next]_vars PROVE TypeOK'
  OBVIOUS
<1>1. ASSUME NEW a \in Agents, Tick(a) PROVE TypeOK'
  BY <1>1 DEF Tick, TypeOK
<1>2. ASSUME NEW a \in Agents, Create(a) \/ Join(a) PROVE TypeOK'
  BY <1>2, EnterCases, EnterTypeOK
<1>3. ASSUME NEW a \in Agents, Leave(a) PROVE TypeOK'
  BY <1>3 DEF Leave, TypeOK
<1>4. ASSUME NEW a \in Agents, Send(a) PROVE TypeOK'
  BY <1>4, SendTypeOK
<1>5. ASSUME NEW f \in flight, Handle(f) PROVE TypeOK'
  BY <1>5, HandleTypeOK
<1>6. CASE UNCHANGED vars
  BY <1>6 DEF vars, TypeOK
<1> QED BY <1>1, <1>2, <1>3, <1>4, <1>5, <1>6 DEF Next

\* Every variable keeps its type; no bound is needed for it.
THEOREM TypeCorrect == Spec => []TypeOK
<1> QED BY InitTypeOK, StepTypeOK, PTL DEF Spec

-----------------------------------------------------------------------------
(* Causal order. *)

\* The stored timestamp covers all that was sent and handled.
CausalInv ==
    /\ \A a \in Agents : past[a] <= ts[a].lamp
    /\ CausalUpToSecond

LEMMA InitCausalInv == Init => CausalInv
BY DEF Init, CausalInv, CausalUpToSecond

LEMMA SendCausalInv ==
    ASSUME TypeOK, CausalInv, NEW a \in Agents, Send(a)
    PROVE  CausalInv'
<1> DEFINE stamp == IF Ordered(a) THEN [ts[a] EXCEPT !.lamp = NextLamp(a)]
                    ELSE ts[a]
<1> DEFINE msg == [by |-> a, n |-> sends[a], ordered |-> params[a] = "ordered",
                   wrapped |-> Ordered(a), ts |-> stamp, past |-> past[a],
                   at |-> clock[a]]
<1>1. /\ ts' = [ts EXCEPT ![a] = stamp]
      /\ sent' = sent \cup {msg}
      /\ past' = [past EXCEPT ![a] = Later(@, stamp.lamp)]
  BY DEF Send
<1>2. stamp.lamp \in Nat /\ past[a] <= stamp.lamp
  BY NextLampAhead DEF TypeOK, Ts, CausalInv
<1>3. msg.wrapped => msg.past < msg.ts.lamp
                     \/ (msg.past = msg.ts.lamp /\ msg.at = msg.ts.lamp)
  <2> SUFFICES ASSUME Ordered(a)
               PROVE  past[a] < NextLamp(a)
                      \/ (past[a] = NextLamp(a) /\ clock[a] = NextLamp(a))
    BY DEF TypeOK, Ts
  <2>1. /\ past[a] \in Nat /\ ts[a].lamp \in Nat /\ clock[a] \in Nat
        /\ past[a] <= ts[a].lamp
    BY DEF TypeOK, Ts, CausalInv
  <2>2. /\ NextLamp(a) \in Nat /\ NextLamp(a) >= ts[a].lamp
        /\ NextLamp(a) > ts[a].lamp \/ NextLamp(a) = clock[a]
    BY NextLampAhead
  <2> HIDE DEF stamp, msg
  <2> QED BY <2>1, <2>2
<1>4. \A m \in sent' : m.wrapped =>
          m.past < m.ts.lamp \/ (m.past = m.ts.lamp /\ m.at = m.ts.lamp)
  <2> HIDE DEF msg
  <2> QED BY <1>1, <1>3 DEF CausalInv, CausalUpToSecond
<1>5. \A b \in Agents : past'[b] <= ts'[b].lamp
  <2> HIDE DEF stamp
  <2> SUFFICES ASSUME NEW b \in Agents PROVE past'[b] <= ts'[b].lamp
    OBVIOUS
  <2>1. CASE b = a
    BY <1>1, <1>2, <2>1 DEF TypeOK, Later
  <2>2. CASE b # a
    BY <1>1, <2>2 DEF TypeOK, CausalInv
  <2> QED BY <2>1, <2>2
<1> QED BY <1>4, <1>5 DEF CausalInv, CausalUpToSecond

LEMMA HandleCausalInv ==
    ASSUME TypeOK, CausalInv, NEW f \in flight, Handle(f)
    PROVE  CausalInv'
<1>1. f.to \in Agents /\ f.msg.ts \in Ts /\ ts[f.to] \in Ts
  BY DEF TypeOK, Message
<1>2. \/ UNCHANGED <<ts, past>>
      \/ /\ ts' = [ts EXCEPT ![f.to] = Merge(@, f.msg.ts)]
         /\ past' = [past EXCEPT ![f.to] = Later(@, f.msg.ts.lamp)]
  BY DEF Handle
<1>3. Merge(ts[f.to], f.msg.ts).lamp = Later(ts[f.to].lamp, f.msg.ts.lamp)
  BY <1>1, MergeAhead
<1>4. Later(past[f.to], f.msg.ts.lamp) <= Later(ts[f.to].lamp, f.msg.ts.lamp)
  BY <1>1 DEF TypeOK, Ts, CausalInv, Later
<1>5. \A b \in Agents : past'[b] <= ts'[b].lamp
  BY <1>1, <1>2, <1>3, <1>4 DEF TypeOK, CausalInv
<1>6. UNCHANGED sent
  BY DEF Handle
<1> QED BY <1>5, <1>6 DEF CausalInv, CausalUpToSecond

LEMMA StepCausalInv == TypeOK /\ CausalInv /\ [Next]_vars => CausalInv'
<1> SUFFICES ASSUME TypeOK, CausalInv, [Next]_vars PROVE CausalInv'
  OBVIOUS
<1>1. ASSUME NEW a \in Agents, Tick(a) PROVE CausalInv'
  BY <1>1 DEF Tick, CausalInv, CausalUpToSecond
<1>2. ASSUME NEW a \in Agents, Create(a) \/ Join(a) PROVE CausalInv'
  <2>1. PICK p \in {"plain", "ordered"} : Enter(a, p)
    BY <1>2, EnterCases
  <2>2. \A b \in Agents : past'[b] <= ts'[b].lamp
    BY <2>1 DEF Enter, TypeOK, Ts, CausalInv
  <2> QED BY <2>1, <2>2 DEF Enter, CausalInv, CausalUpToSecond
<1>3. ASSUME NEW a \in Agents, Leave(a) PROVE CausalInv'
  BY <1>3 DEF Leave, CausalInv, CausalUpToSecond
<1>4. ASSUME NEW a \in Agents, Send(a) PROVE CausalInv'
  BY <1>4, SendCausalInv
<1>5. ASSUME NEW f \in flight, Handle(f) PROVE CausalInv'
  BY <1>5, HandleCausalInv
<1>6. CASE UNCHANGED vars
  BY <1>6 DEF vars, CausalInv, CausalUpToSecond
<1> QED BY <1>1, <1>2, <1>3, <1>4, <1>5, <1>6 DEF Next

\* A message sorts after all its sender had sent or handled as a member, or
\* with it within the second: whatever the clocks of the hosts do, and in
\* whatever order messages are handled.
THEOREM CausalAlways == Spec => []CausalUpToSecond
<1>1. CausalInv => CausalUpToSecond
  BY DEF CausalInv
<1> QED BY InitCausalInv, StepCausalInv, TypeCorrect, <1>1, PTL DEF Spec

-----------------------------------------------------------------------------
(* Delivery in ordered groups. *)

\* Groups of the topic do not mix.
OneGroup ==
    \A a, b \in Agents :
        params[a] # "none" /\ params[b] # "none" => params[a] = params[b]

\* Whoever is in an ordered group, or is sent its messages, has a timestamp.
IntactInv ==
    /\ \A a \in Agents : clock[a] > 0
    /\ \A a \in Agents : params[a] = "ordered" => Ordered(a)
    /\ OneGroup
    /\ \A f \in flight : f.msg.ordered => Ordered(f.to) /\ f.msg.wrapped
    /\ Intact

LEMMA InitIntactInv == Init => IntactInv
BY DEF Init, IntactInv, OneGroup, Intact

\* No step takes a timestamp away.
LEMMA OrderedStays ==
    ASSUME TypeOK, IntactInv, [Next]_vars
    PROVE  \A b \in Agents : Ordered(b) => Ordered(b)'
<1> SUFFICES ASSUME NEW b \in Agents, ts[b].lamp > 0 PROVE ts'[b].lamp > 0
  BY DEF Ordered
<1>1. CASE UNCHANGED ts
  BY <1>1
<1>2. ASSUME NEW a \in Agents, Create(a) \/ Join(a) PROVE ts'[b].lamp > 0
  <2>1. PICK p \in {"plain", "ordered"} : Enter(a, p)
    BY <1>2, EnterCases
  <2> QED BY <2>1 DEF Enter, TypeOK, IntactInv
<1>3. ASSUME NEW a \in Agents, Send(a) PROVE ts'[b].lamp > 0
  <2>1. ts' = [ts EXCEPT ![a] = IF Ordered(a)
                                THEN [ts[a] EXCEPT !.lamp = NextLamp(a)]
                                ELSE ts[a]]
    BY <1>3 DEF Send
  <2>2. ts[a].lamp \in Nat /\ ts[a] \in Ts
    BY DEF TypeOK, Ts
  <2>3. a = b => NextLamp(a) > 0
    BY <2>2, NextLampAhead
  <2> QED BY <2>1, <2>2, <2>3 DEF TypeOK, Ts
<1>4. ASSUME NEW f \in flight, Handle(f) PROVE ts'[b].lamp > 0
  <2>1. f.to \in Agents /\ f.msg.ts \in Ts /\ ts[f.to] \in Ts
    BY DEF TypeOK, Message
  <2>2. Merge(ts[f.to], f.msg.ts).lamp = Later(ts[f.to].lamp, f.msg.ts.lamp)
    BY <2>1, MergeAhead
  <2>3. f.to = b => Later(ts[f.to].lamp, f.msg.ts.lamp) > 0
    BY <2>1 DEF Later, Ts
  <2>4. ts' = ts \/ ts' = [ts EXCEPT ![f.to] = Merge(@, f.msg.ts)]
    BY <1>4 DEF Handle
  <2> QED BY <2>1, <2>2, <2>3, <2>4 DEF TypeOK
<1> QED BY <1>1, <1>2, <1>3, <1>4 DEF Next, Tick, Leave, vars

LEMMA SendIntactInv ==
    ASSUME TypeOK, IntactInv, NEW a \in Agents, Send(a)
    PROVE  IntactInv'
<1> DEFINE stamp == IF Ordered(a) THEN [ts[a] EXCEPT !.lamp = NextLamp(a)]
                    ELSE ts[a]
<1> DEFINE msg == [by |-> a, n |-> sends[a], ordered |-> params[a] = "ordered",
                   wrapped |-> Ordered(a), ts |-> stamp, past |-> past[a],
                   at |-> clock[a]]
<1>1. /\ flight' = flight \cup {[to |-> b, msg |-> msg] :
                       b \in {c \in Agents \ {a} : params[c] # "none"}}
      /\ params[a] # "none"
      /\ UNCHANGED <<clock, params, shown>>
      /\ msg.wrapped = Ordered(a)
      /\ msg.ordered = (params[a] = "ordered")
  BY DEF Send
<1> HIDE DEF stamp, msg
<1>2. [Next]_vars
  BY DEF Next
<1>3. \A f \in flight' : f.msg.ordered => Ordered(f.to)' /\ f.msg.wrapped
  <2> SUFFICES ASSUME NEW f \in flight', f.msg.ordered
               PROVE  Ordered(f.to)' /\ f.msg.wrapped
    OBVIOUS
  <2>1. CASE f \in flight
    BY <1>2, <2>1, OrderedStays DEF IntactInv, TypeOK
  <2>2. CASE \E b \in Agents : params[b] # "none" /\ f = [to |-> b, msg |-> msg]
    <3>1. PICK b \in Agents : params[b] # "none" /\ f = [to |-> b, msg |-> msg]
      BY <2>2
    <3>2. f.to = b /\ f.msg = msg
      BY <3>1
    <3>3. params[a] = "ordered" /\ params[b] = "ordered"
      BY <1>1, <3>1, <3>2 DEF IntactInv, OneGroup
    <3>4. Ordered(a) /\ Ordered(b)'
      BY <1>2, <3>3, OrderedStays DEF IntactInv
    <3> QED BY <1>1, <3>2, <3>4
  <2> QED BY <1>1, <2>1, <2>2
<1>4. \A b \in Agents : params'[b] = "ordered" => Ordered(b)'
  BY <1>1, <1>2, OrderedStays DEF IntactInv
<1> QED BY <1>1, <1>3, <1>4 DEF IntactInv, OneGroup, Intact

LEMMA StepIntactInv == TypeOK /\ IntactInv /\ [Next]_vars => IntactInv'
<1> SUFFICES ASSUME TypeOK, IntactInv, [Next]_vars PROVE IntactInv'
  OBVIOUS
<1>1. ASSUME NEW a \in Agents, Tick(a) PROVE IntactInv'
  BY <1>1 DEF Tick, TypeOK, IntactInv, OneGroup, Intact, Ordered
<1>2. ASSUME NEW a \in Agents, Create(a) \/ Join(a) PROVE IntactInv'
  <2>1. PICK p \in {"plain", "ordered"} :
          /\ Enter(a, p)
          /\ \/ \A b \in Agents : params[b] = "none"
             \/ \E b \in Agents : params[b] = p
    BY <1>2, EnterCases
  <2>2. params' = [params EXCEPT ![a] = p] /\ UNCHANGED <<clock, flight, shown>>
    BY <2>1 DEF Enter
  <2>3. p = "ordered" => Ordered(a)'
    <3>1. p = "ordered" => ts'[a].lamp = clock[a]
      BY <2>1 DEF Enter, TypeOK
    <3> QED BY <3>1 DEF IntactInv, Ordered
  <2>4. \A b \in Agents : params'[b] = "ordered" => Ordered(b)'
    BY <2>2, <2>3, OrderedStays DEF IntactInv, TypeOK
  <2>5. OneGroup'
    BY <2>1, <2>2 DEF IntactInv, OneGroup, TypeOK
  <2>6. \A f \in flight' : f.msg.ordered => Ordered(f.to)' /\ f.msg.wrapped
    BY <2>2, OrderedStays DEF IntactInv, TypeOK
  <2> QED BY <2>2, <2>4, <2>5, <2>6 DEF IntactInv, Intact
<1>3. ASSUME NEW a \in Agents, Leave(a) PROVE IntactInv'
  <2>1. \A b \in Agents : params'[b] = params[b] \/ params'[b] = "none"
    BY <1>3 DEF Leave, TypeOK
  <2> QED BY <1>3, <2>1 DEF Leave, IntactInv, OneGroup, Intact, Ordered
<1>4. ASSUME NEW a \in Agents, Send(a) PROVE IntactInv'
  BY <1>4, SendIntactInv
<1>5. ASSUME NEW f \in flight, Handle(f) PROVE IntactInv'
  <2>1. flight' \subseteq flight /\ UNCHANGED <<clock, params>>
    BY <1>5 DEF Handle
  <2>2. f.msg.ordered => shown' = shown \cup {[ordered |-> f.msg.ordered,
                                               how |-> "text"]}
    BY <1>5 DEF Handle, IntactInv
  <2>3. \E how : shown' = shown \cup {[ordered |-> f.msg.ordered, how |-> how]}
    BY <1>5 DEF Handle
  <2>4. Intact'
    BY <2>2, <2>3 DEF IntactInv, Intact
  <2> QED BY <2>1, <2>4, OrderedStays DEF IntactInv, OneGroup, TypeOK
<1>6. CASE UNCHANGED vars
  BY <1>6 DEF vars, IntactInv, OneGroup, Intact, Ordered
<1> QED BY <1>1, <1>2, <1>3, <1>4, <1>5, <1>6 DEF Next

\* Whoever handles a message of an ordered group, member still, again, no
\* longer, or of a later group, hands the sender's text to the user.
THEOREM IntactAlways == Spec => []Intact
<1>1. IntactInv => Intact
  BY DEF IntactInv
<1> QED BY InitIntactInv, StepIntactInv, TypeCorrect, <1>1, PTL DEF Spec

=============================================================================
