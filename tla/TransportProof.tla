--------------------------- MODULE TransportProof ---------------------------
(***************************************************************************)
(* Theorems about Transport for any peers, topics and number of calls.     *)
(***************************************************************************)
EXTENDS Transport, SequenceTheorems, FiniteSetTheorems, TLAPS

-----------------------------------------------------------------------------
(* Type correctness. *)

\* The peer of a request, and of the request a goroutine has made last, is an
\* agent, save for the end of all subscriptions.
NamesPeer(r) == r.op \notin {"none", "unsubAll"} => r.peer \in Peers

PeerInv ==
    /\ \A j \in Jobs : job[j] \in Job => NamesPeer(job[j])
    /\ \A s \in Sockets : \A i \in 1..Len(queue[s]) : NamesPeer(queue[s][i])

TypeInv == TypeOK /\ PeerInv

LEMMA MinusNat ==
    ASSUME NEW n \in Nat, NEW k \in Nat
    PROVE  Minus(n, k) \in Nat
BY DEF Minus

LEMMA UnsubscribedTyped ==
    ASSUME TypeOK, NEW t \in Topics, NEW peers \in SUBSET Peers
    PROVE  Unsubscribed(t, peers) \in [Topics -> [Labels -> Nat]]
<1>1. ASSUME NEW l \in Labels
      PROVE  Cardinality({p \in peers : DataTopic(t, p) = l}) \in Nat
  <2>1. IsFiniteSet({p \in peers : DataTopic(t, p) = l})
    BY FS_Subset, ConstantsAssumption
  <2> QED BY <2>1, FS_CardinalityType
<1>2. ASSUME NEW l \in Labels
      PROVE  Minus(dataRefs[t][l],
                   Cardinality({p \in peers : DataTopic(t, p) = l})) \in Nat
  BY <1>1, MinusNat DEF TypeOK
<1> QED BY <1>2 DEF TypeOK, Unsubscribed

LEMMA DisconnectedTyped ==
    ASSUME TypeOK, NEW s \in Sockets, NEW peers
    PROVE  Disconnected(s, peers) \in [Sockets -> [Peers -> SUBSET Peers]]
BY DEF TypeOK, Disconnected

LEMMA ConnectedTyped ==
    ASSUME TypeOK, NEW s \in Sockets, NEW p \in Peers
    PROVE  Connected(s, p) \in [Sockets -> [Peers -> SUBSET Peers]]
BY DEF TypeOK, Connected

\* A call that has not begun, or is over, is not one that is under way.
LEMMA NotRunning == NoJob \notin Job /\ DoneJob \notin Job /\ NoJob # DoneJob
BY DEF NoJob, DoneJob, Job

LEMMA InitTypeInv == Init => TypeInv
<1> SUFFICES ASSUME Init PROVE TypeInv
  OBVIOUS
<1>1. TypeOK
  BY EmptySeq DEF Init, TypeOK, Jobs, Sockets, Labels
<1>2. PeerInv
  <2>1. \A j \in Jobs : job[j] \notin Job
    BY NotRunning DEF Init
  <2>2. \A s \in Sockets : Len(queue[s]) = 0
    BY EmptySeq DEF Init
  <2> QED BY <2>1, <2>2 DEF PeerInv
<1> QED BY <1>1, <1>2 DEF TypeInv

\* A listener that takes the request at the head of its queue.
LEMMA ReceiveTyped ==
    ASSUME TypeInv, NEW s \in Sockets, queue[s] # <<>>, Receive(s)
    PROVE  /\ Head(queue[s]) \in Request
           /\ NamesPeer(Head(queue[s]))
           /\ queue' \in [Sockets -> Seq(Request)]
           /\ \A u \in Sockets : \A i \in 1..Len(queue'[u]) :
                  NamesPeer(queue'[u][i])
<1>1. queue[s] \in Seq(Request)
  BY DEF TypeInv, TypeOK
<1>2. /\ Head(queue[s]) \in Request /\ Head(queue[s]) = queue[s][1]
      /\ Tail(queue[s]) \in Seq(Request)
      /\ Len(queue[s]) \in Nat \ {0}
      /\ Len(Tail(queue[s])) = Len(queue[s]) - 1
      /\ \A i \in 1..Len(Tail(queue[s])) : Tail(queue[s])[i] = queue[s][i + 1]
  BY <1>1, HeadTailProperties, EmptySeq
<1>3. NamesPeer(Head(queue[s]))
  BY <1>2 DEF TypeInv, PeerInv
<1>4. queue' = [queue EXCEPT ![s] = Tail(@)]
  BY DEF Receive
<1>5. queue' \in [Sockets -> Seq(Request)]
  BY <1>2, <1>4 DEF TypeInv, TypeOK
<1>6. ASSUME NEW u \in Sockets, NEW i \in 1..Len(queue'[u])
      PROVE  NamesPeer(queue'[u][i])
  <2>1. CASE u = s
    <3>1. i + 1 \in 1..Len(queue[s]) /\ queue'[u][i] = queue[s][i + 1]
      BY <1>2, <1>4, <2>1 DEF TypeInv, TypeOK
    <3> QED BY <3>1 DEF TypeInv, PeerInv
  <2>2. CASE u # s
    BY <1>4, <2>2 DEF TypeInv, TypeOK, PeerInv
  <2> QED BY <2>1, <2>2
<1> QED BY <1>2, <1>3, <1>5, <1>6

\* The reply it makes.
LEMMA AnswersTyped ==
    ASSUME TypeOK, NEW s \in Sockets, NEW r \in Request, NEW ok \in BOOLEAN,
           Answers(s, r, ok)
    PROVE  busy' \in [Sockets -> Reply \cup {Idle}]
BY DEF TypeOK, Answers, Request, Reply

LEMMA DataTopicTyped ==
    ASSUME NEW t \in Topics, NEW p \in Labels
    PROVE  DataTopic(t, p) \in Labels
BY DEF DataTopic, Labels

\* What no listener changes.
CallersStay == UNCHANGED <<storeVars, jobVars, open>>

LEMMA ListenedTyped ==
    ASSUME TypeInv, CallersStay, NEW s \in Sockets, queue[s] # <<>>, Receive(s),
           busy' \in [Sockets -> Reply \cup {Idle}],
           conn' \in [Sockets -> [Peers -> SUBSET Peers]],
           refs' \in [Topics -> Nat],
           dataRefs' \in [Topics -> [Labels -> Nat]],
           curve' \in [Sockets -> SUBSET Peers],
           keys' \subseteq Peers,
           up' \in BOOLEAN
    PROVE  TypeInv'
<1>1. /\ queue' \in [Sockets -> Seq(Request)]
      /\ \A u \in Sockets : \A i \in 1..Len(queue'[u]) : NamesPeer(queue'[u][i])
  BY ReceiveTyped
<1>2. TypeOK'
  BY <1>1 DEF TypeInv, TypeOK, CallersStay, storeVars, jobVars
<1>3. PeerInv'
  BY <1>1 DEF TypeInv, PeerInv, CallersStay, jobVars
<1> QED BY <1>2, <1>3 DEF TypeInv

LEMMA ListenStateTyped == TypeInv /\ ListenState => TypeInv'
<1> SUFFICES ASSUME TypeInv, ListenState PROVE TypeInv'
  OBVIOUS
<1> DEFINE r == Head(queue["state"])
<1>0. /\ queue["state"] # <<>> /\ "state" \in Sockets
      /\ StateAuth(r) \/ StateConnect(r) \/ StateDisconnect(r)
         \/ StateUnsubAll(r) \/ StatePass(r)
  BY DEF ListenState, Sockets
<1>1. Receive("state")
  BY <1>0 DEF StateAuth, StateConnect, StateDisconnect, StateUnsubAll, StatePass
<1>2. r \in Request /\ NamesPeer(r)
  BY <1>0, <1>1, ReceiveTyped
<1> HIDE DEF r
<1>3. CallersStay /\ UNCHANGED <<dataRefs, up>>
  BY <1>0 DEF StateAuth, StateConnect, StateDisconnect, StateUnsubAll, StatePass,
              CallersStay, socketVars
<1>4. busy' \in [Sockets -> Reply \cup {Idle}]
  <2>1. \E ok \in BOOLEAN : Answers("state", r, ok)
    BY <1>0 DEF StateAuth, StateConnect, StateDisconnect, StateUnsubAll, StatePass
  <2> QED BY <2>1, <1>0, <1>2, AnswersTyped DEF TypeInv
<1>5. /\ conn' \in [Sockets -> [Peers -> SUBSET Peers]]
      /\ refs' \in [Topics -> Nat]
      /\ curve' \in [Sockets -> SUBSET Peers]
      /\ keys' \subseteq Peers
  <2>1. CASE StateAuth(r)
    BY <2>1, <1>0, <1>2 DEF StateAuth, NamesPeer, TypeInv, TypeOK
  <2>2. CASE StateConnect(r)
    <3>1. r.peer \in Peers
      BY <2>2, <1>2 DEF StateConnect, NamesPeer
    <3>2. conn' \in [Sockets -> [Peers -> SUBSET Peers]]
      BY <2>2, <1>0, <3>1, ConnectedTyped DEF StateConnect, TypeInv
    <3>3. refs' \in [Topics -> Nat]
      <4>1. refs[r.topic] \in Nat /\ refs[r.topic] + 1 \in Nat
        BY <1>2 DEF Request, TypeInv, TypeOK
      <4>2. \/ refs' = [refs EXCEPT ![r.topic] = refs[r.topic] + 1]
            \/ refs' = [refs EXCEPT ![r.topic] = refs[r.topic]]
        BY <2>2 DEF StateConnect
      <4>3. PICK n \in Nat : refs' = [refs EXCEPT ![r.topic] = n]
        BY <4>1, <4>2
      <4> QED BY <4>3 DEF TypeInv, TypeOK
    <3> QED BY <2>2, <3>2, <3>3 DEF StateConnect, TypeInv, TypeOK
  <2>3. CASE StateDisconnect(r)
    <3>1. conn' \in [Sockets -> [Peers -> SUBSET Peers]]
      BY <2>3, <1>0, DisconnectedTyped DEF StateDisconnect, TypeInv
    <3> QED BY <2>3, <3>1 DEF StateDisconnect, TypeInv, TypeOK
  <2>4. CASE StateUnsubAll(r)
    <3>1. conn' \in [Sockets -> [Peers -> SUBSET Peers]]
      BY <2>4, <1>0, DisconnectedTyped DEF StateUnsubAll, TypeInv
    <3>2. refs' \in [Topics -> Nat]
      BY <2>4, MinusNat DEF StateUnsubAll, TypeInv, TypeOK
    <3> QED BY <2>4, <3>1, <3>2 DEF StateUnsubAll, TypeInv, TypeOK
  <2>5. CASE StatePass(r)
    BY <2>5 DEF StatePass, socketVars, TypeInv, TypeOK
  <2> QED BY <1>0, <2>1, <2>2, <2>3, <2>4, <2>5
<1>6. dataRefs' \in [Topics -> [Labels -> Nat]] /\ up' \in BOOLEAN
  BY <1>3 DEF TypeInv, TypeOK
<1> QED BY <1>0, <1>1, <1>3, <1>4, <1>5, <1>6, ListenedTyped

LEMMA ListenDataTyped == TypeInv /\ ListenData => TypeInv'
<1> SUFFICES ASSUME TypeInv, ListenData PROVE TypeInv'
  OBVIOUS
<1> DEFINE r == Head(queue["data"])
<1>0. /\ queue["data"] # <<>> /\ "data" \in Sockets
      /\ DataAuth(r) \/ DataConnect(r) \/ DataPass(r) \/ DataUnsub(r)
         \/ DataUnsubAll(r)
  BY DEF ListenData, Sockets
<1>1. Receive("data")
  BY <1>0 DEF DataAuth, DataConnect, DataPass, DataUnsub, DataUnsubAll
<1>2. r \in Request /\ NamesPeer(r)
  BY <1>0, <1>1, ReceiveTyped
<1> HIDE DEF r
<1>3. CallersStay /\ UNCHANGED <<refs, keys>>
  BY <1>0 DEF DataAuth, DataConnect, DataPass, DataUnsub, DataUnsubAll, Panic,
              CallersStay, socketVars
<1>4. busy' \in [Sockets -> Reply \cup {Idle}] /\ up' \in BOOLEAN
  <2>1. CASE Panic
    BY <2>1 DEF Panic, TypeInv, TypeOK
  <2>2. CASE UNCHANGED up /\ \E ok \in BOOLEAN : Answers("data", r, ok)
    BY <2>2, <1>0, <1>2, AnswersTyped DEF TypeInv, TypeOK
  <2> QED BY <1>0, <2>1, <2>2 DEF DataAuth, DataConnect, DataPass, DataUnsub,
                                  DataUnsubAll
<1>5. /\ conn' \in [Sockets -> [Peers -> SUBSET Peers]]
      /\ dataRefs' \in [Topics -> [Labels -> Nat]]
      /\ curve' \in [Sockets -> SUBSET Peers]
  <2>1. CASE DataAuth(r)
    BY <2>1, <1>0, ConstantsAssumption DEF DataAuth, TypeInv, TypeOK
  <2>2. CASE Panic
    BY <2>2 DEF Panic, socketVars, TypeInv, TypeOK
  <2>3. CASE DataConnect(r) /\ ~Panic
    <3>1. r.peer \in Peers /\ r.topic \in Topics
      BY <2>3, <1>2 DEF DataConnect, NamesPeer, Request
    <3>2. DataTopic(r.topic, r.peer) \in Labels
      BY <3>1, DataTopicTyped DEF Labels
    <3>3. conn' \in [Sockets -> [Peers -> SUBSET Peers]]
      <4>1. conn' = Connected("data", r.peer) \/ conn' = conn
        BY <2>3 DEF DataConnect
      <4> QED BY <4>1, <1>0, <3>1, ConnectedTyped DEF TypeInv, TypeOK
    <3>4. dataRefs' \in [Topics -> [Labels -> Nat]]
      <4>1. PICK n \in Nat : dataRefs' = [dataRefs EXCEPT
                ![r.topic][DataTopic(r.topic, r.peer)] = n]
        <5> DEFINE dt == DataTopic(r.topic, r.peer)
                   m == dataRefs[r.topic][dt]
        <5>1. m \in Nat /\ m + 1 \in Nat
          BY <3>1, <3>2 DEF TypeInv, TypeOK
        <5>2. \/ dataRefs' = [dataRefs EXCEPT ![r.topic][dt] = m + 1]
              \/ dataRefs' = [dataRefs EXCEPT ![r.topic][dt] = m]
          BY <2>3 DEF DataConnect
        <5> QED BY <5>1, <5>2
      <4> QED BY <4>1, <3>1, <3>2 DEF TypeInv, TypeOK
    <3> QED BY <2>3, <3>3, <3>4 DEF DataConnect, TypeInv, TypeOK
  <2>4. CASE DataPass(r)
    BY <2>4 DEF DataPass, socketVars, TypeInv, TypeOK
  <2>5. CASE DataUnsub(r) /\ ~Panic
    <3>1. {r.peer} \in SUBSET Peers /\ r.topic \in Topics
      BY <2>5, <1>2 DEF DataUnsub, NamesPeer, Request
    <3>2. conn' \in [Sockets -> [Peers -> SUBSET Peers]]
      BY <2>5, <1>0, DisconnectedTyped DEF DataUnsub, TypeInv
    <3>3. dataRefs' \in [Topics -> [Labels -> Nat]]
      BY <2>5, <3>1, UnsubscribedTyped DEF DataUnsub, TypeInv
    <3> QED BY <2>5, <3>2, <3>3 DEF DataUnsub, TypeInv, TypeOK
  <2>6. CASE DataUnsubAll(r) /\ ~Panic
    <3>1. r.topic \in Topics
      BY <1>2 DEF Request
    <3>2. conn' \in [Sockets -> [Peers -> SUBSET Peers]]
      <4>1. \E peers : conn' = Disconnected("data", peers)
        BY <2>6 DEF DataUnsubAll
      <4> QED BY <4>1, <1>0, DisconnectedTyped DEF TypeInv
    <3>3. \E peers \in SUBSET Peers : dataRefs' = Unsubscribed(r.topic, peers)
      <4> DEFINE ps == (members[r.topic] \ {Me}) \cap Publishers
                 on == On("data", ps)
      <4>1. ps \in SUBSET Peers /\ on \in SUBSET ps
        BY ConstantsAssumption DEF On
      <4>2. \/ dataRefs' = Unsubscribed(r.topic, ps)
            \/ \E gone \in SUBSET on, p \in ps \ on :
                  dataRefs' = Unsubscribed(r.topic, gone \cup {p})
        BY <2>6 DEF DataUnsubAll
      <4> HIDE DEF ps, on
      <4>3. CASE dataRefs' = Unsubscribed(r.topic, ps)
        BY <4>1, <4>3
      <4>4. CASE \E gone \in SUBSET on, p \in ps \ on :
                     dataRefs' = Unsubscribed(r.topic, gone \cup {p})
        <5>1. PICK gone \in SUBSET on, p \in ps \ on :
                  dataRefs' = Unsubscribed(r.topic, gone \cup {p})
          BY <4>4
        <5>2. gone \cup {p} \in SUBSET Peers
          BY <4>1
        <5> QED BY <5>1, <5>2
      <4> QED BY <4>2, <4>3, <4>4
    <3>4. dataRefs' \in [Topics -> [Labels -> Nat]]
      BY <3>1, <3>3, UnsubscribedTyped DEF TypeInv
    <3> QED BY <2>6, <3>2, <3>4 DEF DataUnsubAll, TypeInv, TypeOK
  <2> QED BY <1>0, <2>1, <2>2, <2>3, <2>4, <2>5, <2>6
<1>6. refs' \in [Topics -> Nat] /\ keys' \subseteq Peers
  BY <1>3 DEF TypeInv, TypeOK
<1> QED BY <1>0, <1>1, <1>3, <1>4, <1>5, <1>6, ListenedTyped

-----------------------------------------------------------------------------
(* The environment and the goroutines.                                      *)

\* What a goroutine does is kept apart from what the listeners use.
LEMMA CallTyped ==
    ASSUME TypeInv, NEW j \in Jobs, NEW v \in Job \cup {NoJob, DoneJob},
           job' = [job EXCEPT ![j] = v], v \in Job => NamesPeer(v)
    PROVE  /\ job' \in [Jobs -> Job \cup {NoJob, DoneJob}]
           /\ \A i \in Jobs : job'[i] \in Job => NamesPeer(job'[i])
BY DEF TypeInv, TypeOK, PeerInv

LEMMA RunningTyped ==
    ASSUME TypeInv, NEW j \in Jobs, job[j].pc \notin {"free", "done"}
    PROVE  job[j] \in Job
BY DEF TypeInv, TypeOK, NoJob, DoneJob

LEMMA BeginTyped ==
    ASSUME TypeInv, NEW j \in Jobs, NEW k \in Kinds, NEW t \in Topics,
           NEW ps \in SUBSET Peers, NEW pc \in Steps, Begin(j, k, t, ps, pc)
    PROVE  /\ job' \in [Jobs -> Job \cup {NoJob, DoneJob}]
           /\ \A i \in Jobs : job'[i] \in Job => NamesPeer(job'[i])
<1> DEFINE v == [kind |-> k, topic |-> t, peers |-> ps, todo |-> ps,
                 op |-> "none", peer |-> Me, pc |-> pc]
<1>1. v \in Job /\ NamesPeer(v)
  BY DEF Job, Ops, Labels, NamesPeer
<1>2. job' = [job EXCEPT ![j] = v]
  BY DEF Begin
<1> HIDE DEF v
<1> QED BY <1>1, <1>2, CallTyped

LEMMA NoteTyped ==
    ASSUME TypeInv, NEW j, NEW k, NEW t, NEW ps
    PROVE  Note(j, k, t, ps) \subseteq
               {"clash", "twice", "shared", "adds", "early", "missed"}
BY DEF Note, TypeInv, TypeOK

LEMMA EnvironmentTyped == TypeInv /\ Environment => TypeInv'
<1> SUFFICES ASSUME TypeInv, Environment PROVE TypeInv'
  OBVIOUS
<1> USE DEF Kinds, Steps
<1>1. CASE CloseConnector \/ ClosePublisher
  BY <1>1 DEF CloseConnector, ClosePublisher, storeVars, jobVars, socketVars,
              TypeInv, TypeOK, PeerInv
<1>2. ASSUME NEW t \in Topics, Create(t) PROVE TypeInv'
  BY <1>2 DEF Create, jobVars, socketVars, loopVars, TypeInv, TypeOK, PeerInv, Labels
<1>3. ASSUME NEW t \in Topics, StartJoin(t) PROVE TypeInv'
  <2>1. PICK j \in Jobs : /\ Begin(j, "join", t, {}, "asking")
                         /\ seen' = Note(j, "join", t, {})
    BY <1>3 DEF StartJoin
  <2> QED BY <1>3, <2>1, BeginTyped, NoteTyped DEF StartJoin,
              storeVars, socketVars, loopVars, TypeInv, TypeOK, PeerInv
<1>4. ASSUME NEW t \in Topics, StartLeave(t) PROVE TypeInv'
  <2>1. PICK j \in Jobs :
            /\ Begin(j, "leave", t, {}, "ready")
            /\ seen' = Note(j, "leave", t, members[t] \cup linked[t]) \cup
                   {c \in {"early"} : ~(linked[t] \subseteq members[t])}
    BY <1>4 DEF StartLeave
  <2> QED BY <1>4, <2>1, BeginTyped, NoteTyped DEF StartLeave,
              storeVars, socketVars, loopVars, TypeInv, TypeOK, PeerInv
<1>5. ASSUME NEW t \in Topics, NEW p \in Peers, StartSubscription(t, p)
      PROVE  TypeInv'
  <2>1. PICK j \in Jobs : /\ Begin(j, "sub", t, {p}, "ready")
                         /\ seen' = Note(j, "sub", t, {p})
    BY <1>5 DEF StartSubscription
  <2> QED BY <1>5, <2>1, BeginTyped, NoteTyped DEF StartSubscription,
              storeVars, socketVars, loopVars, TypeInv, TypeOK, PeerInv
<1>6. ASSUME NEW t \in Topics, NEW p \in Peers, AddMember(t, p)
      PROVE  TypeInv'
  BY <1>6 DEF AddMember, jobVars, socketVars, loopVars, TypeInv, TypeOK, PeerInv,
              Labels
<1>7. ASSUME NEW t \in Topics, NEW p \in Peers, Depart(t, p)
      PROVE  TypeInv'
  <2>1. CASE /\ seen' = seen \cup {c \in {"missed"} : conn["state"][p] \ {p} # {}}
             /\ UNCHANGED job
    BY <1>7, <2>1 DEF Depart, storeVars, socketVars, loopVars, TypeInv, TypeOK,
                      PeerInv
  <2>2. CASE \E j \in Jobs : /\ Begin(j, "remove", t, {p}, "ready")
                            /\ seen' = Note(j, "remove", t, {p})
    <3>1. PICK j \in Jobs : /\ Begin(j, "remove", t, {p}, "ready")
                           /\ seen' = Note(j, "remove", t, {p})
      BY <2>2
    <3> QED BY <1>7, <3>1, BeginTyped, NoteTyped DEF Depart,
                storeVars, socketVars, loopVars, TypeInv, TypeOK, PeerInv
  <2> QED BY <1>7, <2>1, <2>2 DEF Depart
<1> QED BY <1>1, <1>2, <1>3, <1>4, <1>5, <1>6, <1>7 DEF Environment

LEMMA ProceedTyped ==
    ASSUME TypeInv, NEW j \in Jobs, Proceed(j)
    PROVE  TypeInv'
<1>1. ASSUME NEW group \in SUBSET Peers, ReceiveGroup(j, group) PROVE TypeInv'
  <2> DEFINE v == [job[j] EXCEPT !.peers = group, !.todo = group, !.pc = "ready"]
  <2>1. job[j] \in Job
    BY <1>1, RunningTyped DEF ReceiveGroup
  <2>2. v \in Job /\ NamesPeer(v)
    BY <2>1 DEF Job, Steps, NamesPeer, TypeInv, PeerInv
  <2>3. job' = [job EXCEPT ![j] = v]
    BY <1>1, <2>1 DEF ReceiveGroup, TypeInv, TypeOK, Job
  <2> HIDE DEF v
  <2> QED BY <1>1, <2>2, <2>3, CallTyped, NoteTyped DEF ReceiveGroup, socketVars,
              loopVars, TypeInv, TypeOK, PeerInv
<1>2. CASE Answer(j)
  <2>1. job[j] \in Job
    BY <1>2, RunningTyped DEF Answer
  <2>2. PICK v \in Job : NamesPeer(v) /\ job' = [job EXCEPT ![j] = v]
    <3> DEFINE a == [job[j] EXCEPT !.kind = "conn"]
               b == [job[j] EXCEPT !.pc = "failed"]
    <3>1. a \in Job /\ NamesPeer(a) /\ b \in Job /\ NamesPeer(b)
      BY <2>1 DEF Job, Kinds, Steps, NamesPeer, TypeInv, PeerInv
    <3>2. job' = [job EXCEPT ![j] = a] \/ job' = [job EXCEPT ![j] = b]
      BY <1>2 DEF Answer
    <3> QED BY <3>1, <3>2
  <2> QED BY <1>2, <2>2, CallTyped DEF Answer, storeVars, socketVars,
              loopVars, TypeInv, TypeOK, PeerInv
<1>3. ASSUME NEW op \in Ops, NEW p \in Labels, Ask(j, op, p) PROVE TypeInv'
  <2> DEFINE r == [op |-> op, topic |-> job[j].topic, peer |-> p, job |-> j]
  <2>1. job[j] \in Job
    BY <1>3, RunningTyped DEF Ask
  <2>2. op \notin {"none", "unsubAll"} => p \in Peers
    BY <1>3, <2>1, ConstantsAssumption DEF Ask, NextRequest, Job, NamesPeer,
            TypeInv, PeerInv
  <2>3. r \in Request /\ NamesPeer(r)
    BY <2>1, <2>2 DEF Request, Job, NamesPeer
  <2>4. PICK v \in Job : NamesPeer(v) /\ job' = [job EXCEPT ![j] = v]
    <3> DEFINE v(pc) == [job[j] EXCEPT !.op = op, !.peer = p, !.pc = pc]
    <3>1. ASSUME NEW pc \in Steps PROVE v(pc) \in Job /\ NamesPeer(v(pc))
      BY <2>1, <2>2 DEF Job, NamesPeer
    <3>2. job' = [job EXCEPT ![j] = v("state")] \/ job' = [job EXCEPT ![j] = v("hung")]
      BY <1>3 DEF Ask
    <3> QED BY <3>1, <3>2 DEF Steps
  <2>5. /\ queue' \in [Sockets -> Seq(Request)]
        /\ \A s \in Sockets : \A i \in 1..Len(queue'[s]) : NamesPeer(queue'[s][i])
    <3>1. CASE queue' = queue
      BY <3>1 DEF TypeInv, TypeOK, PeerInv
    <3>2. CASE queue' = [s \in Sockets |-> Append(queue[s], r)]
      <4> HIDE DEF r
      <4>1. ASSUME NEW s \in Sockets
            PROVE  /\ queue'[s] \in Seq(Request)
                   /\ \A i \in 1..Len(queue'[s]) : NamesPeer(queue'[s][i])
        <5>1. queue[s] \in Seq(Request) /\ queue'[s] = Append(queue[s], r)
          BY <3>2 DEF TypeInv, TypeOK
        <5>2. /\ Append(queue[s], r) \in Seq(Request)
              /\ Len(Append(queue[s], r)) = Len(queue[s]) + 1
              /\ Len(queue[s]) \in Nat
              /\ \A i \in 1..Len(queue[s]) : Append(queue[s], r)[i] = queue[s][i]
              /\ Append(queue[s], r)[Len(queue[s]) + 1] = r
          BY <5>1, <2>3, AppendProperties
        <5>3. ASSUME NEW i \in 1..Len(queue'[s]) PROVE NamesPeer(queue'[s][i])
          <6>1. i = Len(queue[s]) + 1 \/ i \in 1..Len(queue[s])
            BY <5>1, <5>2
          <6> QED BY <6>1, <5>1, <5>2, <2>3 DEF TypeInv, PeerInv
        <5> QED BY <5>1, <5>2, <5>3
      <4> QED BY <4>1, <3>2
    <3> QED BY <1>3, <3>1, <3>2 DEF Ask
  <2> QED BY <1>3, <2>4, <2>5, CallTyped DEF Ask, storeVars, socketVars,
              TypeInv, TypeOK, PeerInv
<1>4. CASE ReadState(j)
  <2>1. job[j] \in Job
    BY <1>4, RunningTyped DEF ReadState
  <2>2. PICK pc \in Steps : job' = [job EXCEPT ![j] = [job[j] EXCEPT !.pc = pc]]
    <3>1. \/ job' = [job EXCEPT ![j] = [job[j] EXCEPT !.pc = "data"]]
          \/ job' = [job EXCEPT ![j] = [job[j] EXCEPT !.pc = "failed"]]
      BY <1>4 DEF ReadState
    <3> QED BY <3>1 DEF Steps
  <2>3. /\ [job[j] EXCEPT !.pc = pc] \in Job
        /\ NamesPeer([job[j] EXCEPT !.pc = pc])
    BY <2>1 DEF Job, NamesPeer, TypeInv, PeerInv
  <2> QED BY <1>4, <2>2, <2>3, CallTyped DEF ReadState, storeVars, socketVars,
              TypeInv, TypeOK, PeerInv
<1>5. CASE ReadData(j)
  <2>1. job[j] \in Job
    BY <1>5, RunningTyped DEF ReadData
  <2>2. PICK v \in Job : NamesPeer(v) /\ job' = [job EXCEPT ![j] = v]
    <3> DEFINE v(pc, todo) == [job[j] EXCEPT !.pc = pc, !.todo = todo]
    <3>1. ASSUME NEW pc \in Steps, NEW todo \in SUBSET Peers
          PROVE  v(pc, todo) \in Job /\ NamesPeer(v(pc, todo))
      BY <2>1 DEF Job, NamesPeer, TypeInv, PeerInv
    <3>2. \E pc \in Steps, todo \in SUBSET Peers :
              job' = [job EXCEPT ![j] = v(pc, todo)]
      <4>1. job[j].todo \in SUBSET Peers
        BY <2>1 DEF Job
      <4>2. \E pc \in {"ready", "failed"} :
                \/ job' = [job EXCEPT ![j] = v(pc, job[j].todo)]
                \/ job' = [job EXCEPT ![j] = v(pc, job[j].todo \ {job[j].peer})]
        BY <1>5 DEF ReadData
      <4> QED BY <4>1, <4>2 DEF Steps
    <3> QED BY <3>1, <3>2
  <2>3. linked' \in [Topics -> SUBSET Peers]
    <3>1. CASE job[j].op = "connect"
      <4>1. job[j].peer \in Peers
        BY <2>1, <3>1 DEF NamesPeer, TypeInv, PeerInv
      <4>2. \/ linked' = [linked EXCEPT ![job[j].topic] = linked[job[j].topic]]
            \/ linked' = [linked EXCEPT ![job[j].topic] =
                              linked[job[j].topic] \cup {job[j].peer}]
        BY <1>5 DEF ReadData
      <4> QED BY <4>1, <4>2 DEF TypeInv, TypeOK
    <3>2. CASE job[j].op # "connect"
      BY <1>5, <3>2 DEF ReadData, TypeInv, TypeOK
    <3> QED BY <3>1, <3>2
  <2> QED BY <1>5, <2>2, <2>3, CallTyped DEF ReadData, storeVars, socketVars,
              TypeInv, TypeOK, PeerInv
<1>6. CASE Finish(j)
  <2> DEFINE t == job[j].topic
             k == job[j].kind
             leaves == k = "leave" /\ members[t] # {} /\ "publisher" \in open
  <2>1. job[j] \in Job /\ t \in Topics /\ job[j].peers \in SUBSET Peers
    BY <1>6, RunningTyped DEF Finish, Job
  <2>2. PICK v \in Job \cup {DoneJob} :
            (v \in Job => NamesPeer(v)) /\ job' = [job EXCEPT ![j] = v]
    <3> DEFINE a == [job[j] EXCEPT !.pc = "failed"]
    <3>1. a \in Job /\ NamesPeer(a)
      BY <2>1 DEF Job, Steps, NamesPeer, TypeInv, PeerInv
    <3>2. job' = [job EXCEPT ![j] = a] \/ job' = [job EXCEPT ![j] = DoneJob]
      BY <1>6 DEF Finish
    <3> QED BY <3>1, <3>2, NotRunning
  <2>3. /\ members' \in [Topics -> SUBSET Labels]
        /\ linked' \in [Topics -> SUBSET Peers]
        /\ keys' \subseteq Peers
    <3>1. PICK m \in SUBSET Labels : members' = [members EXCEPT ![t] = m]
      <4>1. /\ members[t] \in SUBSET Labels
            /\ {} \in SUBSET Labels
            /\ members[t] \cup job[j].peers \cup {Me} \in SUBSET Labels
            /\ members[t] \ job[j].peers \in SUBSET Labels
        BY <2>1 DEF TypeInv, TypeOK, Labels
      <4>2. \/ members' = [members EXCEPT ![t] = members[t]]
            \/ members' = [members EXCEPT ![t] = {}]
            \/ members' = [members EXCEPT ![t] = members[t] \cup job[j].peers \cup {Me}]
            \/ members' = [members EXCEPT ![t] = members[t] \ job[j].peers]
        BY <1>6 DEF Finish
      <4> HIDE DEF t
      <4> QED BY <4>1, <4>2
    <3>2. PICK l \in SUBSET Peers : linked' = [linked EXCEPT ![t] = l]
      <4>1. linked[t] \in SUBSET Peers /\ linked[t] \ members[t] \in SUBSET Peers
        BY <2>1 DEF TypeInv, TypeOK
      <4>2. \/ linked' = [linked EXCEPT ![t] = linked[t]]
            \/ linked' = [linked EXCEPT ![t] = linked[t] \ members[t]]
        BY <1>6 DEF Finish
      <4> HIDE DEF t
      <4> QED BY <4>1, <4>2
    <3>3. keys' \subseteq Peers
      BY <1>6 DEF Finish, TypeInv, TypeOK
    <3> QED BY <2>1, <3>1, <3>2, <3>3 DEF TypeInv, TypeOK
  <2>4. entry' \in [Topics -> BOOLEAN] /\ params' \in [Topics -> BOOLEAN]
    <3>1. entry' = [entry EXCEPT ![t] = (@ \/ k = "join") /\ ~leaves]
      BY <1>6 DEF Finish
    <3>2. params' = [params EXCEPT ![t] = @ /\ ~leaves]
      BY <1>6 DEF Finish
    <3> HIDE DEF t, k, leaves
    <3> QED BY <3>1, <3>2, <2>1 DEF TypeInv, TypeOK
  <2> QED BY <1>6, <2>2, <2>3, <2>4, CallTyped DEF Finish,
              loopVars, TypeInv, TypeOK, PeerInv
<1> QED BY <1>1, <1>2, <1>3, <1>4, <1>5, <1>6 DEF Proceed

LEMMA NextTypeInv == TypeInv /\ [Next]_vars => TypeInv'
<1>1. TypeInv /\ UNCHANGED vars => TypeInv'
  BY DEF vars, storeVars, jobVars, socketVars, loopVars, TypeInv, TypeOK, PeerInv
<1> QED BY <1>1, ListenStateTyped, ListenDataTyped, EnvironmentTyped, ProceedTyped
        DEF Next, Work

\* The transport's state stays of its type (zmq.go, auth.go and the goroutines
\* of agent.go and processor.go): no request names an agent that is not a peer,
\* and no subscription is counted below zero.
THEOREM TypeCorrect == Spec => []TypeOK
<1>1. TypeInv => TypeOK
  BY DEF TypeInv
<1> QED BY <1>1, InitTypeInv, NextTypeInv, PTL DEF Spec

-----------------------------------------------------------------------------
(* The requests implement Requests.                                         *)

Queued(s) == {queue[s][i].job : i \in 1..Len(queue[s])}

Replying(s, j) == busy[s] # Idle /\ busy[s].job = j

\* A goroutine has one request in each queue at most, none while a listener
\* replies to it, and none at all between requests.
OneEach ==
    \A s \in Sockets : \A i, k \in 1..Len(queue[s]) :
        queue[s][i].job = queue[s][k].job => i = k

NotBoth == \A s \in Sockets, j \in Jobs : Replying(s, j) => j \notin Queued(s)

Waiting == {j \in Jobs : job[j].pc \in {"state", "data"}}

NoneBetween ==
    \A s \in Sockets, j \in Jobs \ (Waiting \cup Failed) :
        ~Replying(s, j) /\ j \notin Queued(s)

StateDone ==
    \A j \in Jobs : job[j].pc = "data" =>
        ~Replying("state", j) /\ j \notin Queued("state")

CallInv == OneEach /\ NotBoth /\ NoneBetween /\ StateDone

\* A listener moves a request out of its queue.
LEMMA TakeQueued ==
    ASSUME TypeInv, CallInv, NEW s \in Sockets, queue[s] # <<>>, Receive(s)
    PROVE  /\ Head(queue[s]).job \in Queued(s) \cap Jobs
           /\ \A u \in Sockets :
                  Queued(u)' = IF u = s THEN Queued(s) \ {Head(queue[s]).job}
                               ELSE Queued(u)
           /\ OneEach'
<1> DEFINE q == queue[s]
           j == Head(q).job
<1>1. q \in Seq(Request) /\ q # <<>>
  BY DEF TypeInv, TypeOK
<1>2. /\ Head(q) = q[1] /\ Head(q) \in Request
      /\ Len(q) \in Nat \ {0}
      /\ Len(Tail(q)) = Len(q) - 1
      /\ \A i \in 1..Len(Tail(q)) : Tail(q)[i] = q[i + 1]
  BY <1>1, HeadTailProperties, EmptySeq
<1>3. queue' = [queue EXCEPT ![s] = Tail(q)] /\ queue \in [Sockets -> Seq(Request)]
  BY DEF Receive, TypeInv, TypeOK
<1>4. \A i, k \in 1..Len(q) : q[i].job = q[k].job => i = k
  BY DEF CallInv, OneEach
<1>5. \A u \in Sockets \ {s} : queue'[u] = queue[u]
  BY <1>3
<1>6. queue'[s] = Tail(q)
  BY <1>3
<1>7. j \in Queued(s) \cap Jobs
  BY <1>2 DEF Queued, Request
<1>8. Queued(s)' = Queued(s) \ {j}
  <2>1. ASSUME NEW x PROVE x \in Queued(s)' <=> x \in Queued(s) /\ x # j
    <3>1. ASSUME x \in Queued(s)' PROVE x \in Queued(s) /\ x # j
      <4>1. PICK i \in 1..Len(Tail(q)) : x = Tail(q)[i].job
        BY <3>1, <1>6 DEF Queued
      <4>2. i + 1 \in 1..Len(q) /\ i + 1 # 1 /\ 1 \in 1..Len(q) /\ x = q[i + 1].job
        BY <4>1, <1>2
      <4> QED BY <4>2, <1>2, <1>4 DEF Queued
    <3>2. ASSUME x \in Queued(s), x # j PROVE x \in Queued(s)'
      <4>1. PICK i \in 1..Len(q) : x = q[i].job
        BY <3>2 DEF Queued
      <4>2. i # 1
        BY <4>1, <3>2, <1>2
      <4>3. i - 1 \in 1..Len(Tail(q)) /\ Tail(q)[i - 1] = q[i]
        BY <4>1, <4>2, <1>2
      <4> QED BY <4>1, <4>3, <1>6 DEF Queued
    <3> QED BY <3>1, <3>2
  <2> QED BY <2>1
<1>9. \A u \in Sockets \ {s} : Queued(u)' = Queued(u)
  BY <1>5 DEF Queued
<1>10. OneEach'
  <2>1. ASSUME NEW u \in Sockets,
               NEW i \in 1..Len(queue'[u]), NEW k \in 1..Len(queue'[u]),
               queue'[u][i].job = queue'[u][k].job
        PROVE  i = k
    <3>1. CASE u = s
      <4>1. /\ i + 1 \in 1..Len(q) /\ k + 1 \in 1..Len(q)
            /\ q[i + 1].job = q[k + 1].job
        BY <2>1, <3>1, <1>2, <1>6
      <4>2. i + 1 = k + 1
        BY <4>1, <1>4
      <4> QED BY <4>2, <3>1, <1>2, <1>6
    <3>2. CASE u # s
      BY <2>1, <3>2, <1>5 DEF CallInv, OneEach
    <3> QED BY <3>1, <3>2
  <2> QED BY <2>1 DEF OneEach
<1> QED BY <1>7, <1>8, <1>9, <1>10

\* A listener performs the request of a goroutine.
LEMMA ListenerPerforms ==
    ASSUME TypeInv, CallInv, NEW s \in Sockets, queue[s] # <<>>, Receive(s),
           UNCHANGED job,
           UNCHANGED busy \/ \E ok : Answers(s, Head(queue[s]), ok)
    PROVE  CallInv' /\ Calls!Next
<1>0. PICK j \in Jobs : j = Head(queue[s]).job
  BY TakeQueued
<1>1. /\ j \in Queued(s)
      /\ \A u \in Sockets :
             Queued(u)' = IF u = s THEN Queued(s) \ {j} ELSE Queued(u)
      /\ OneEach'
  BY <1>0, TakeQueued
<1>2. Waiting' = Waiting /\ Failed' = Failed
  BY DEF Waiting, Failed
<1>3. busy[s] = Idle /\ busy \in [Sockets -> Reply \cup {Idle}]
  BY DEF Receive, TypeInv, TypeOK
<1>4. \A u \in Sockets, i \in Jobs :
          Replying(u, i)' => Replying(u, i) \/ (u = s /\ i = j)
  <2>1. CASE UNCHANGED busy
    BY <2>1 DEF Replying
  <2>2. ASSUME NEW ok, Answers(s, Head(queue[s]), ok),
               NEW u \in Sockets, NEW i \in Jobs, Replying(u, i)'
        PROVE  Replying(u, i) \/ (u = s /\ i = j)
    <3>1. CASE u = s
      <4>1. busy'[u] = [job |-> j, ok |-> ok]
        BY <2>2, <3>1, <1>0, <1>3 DEF Answers
      <4> QED BY <4>1, <3>1, <2>2 DEF Replying
    <3>2. CASE u # s
      BY <2>2, <3>2, <1>3 DEF Answers, Replying
    <3> QED BY <3>1, <3>2
  <2> QED BY <2>1, <2>2
<1>5. NotBoth'
  BY <1>1, <1>4 DEF CallInv, NotBoth
<1>6. NoneBetween'
  BY <1>1, <1>2, <1>4 DEF CallInv, NoneBetween
<1>7. StateDone'
  <2>1. ASSUME NEW i \in Jobs, job'[i].pc = "data"
        PROVE  i # j \/ s # "state"
    BY <2>1, <1>1 DEF CallInv, StateDone
  <2>2. "state" \in Sockets
    BY DEF Sockets
  <2>3. ASSUME NEW i \in Jobs, job'[i].pc = "data"
        PROVE  ~Replying("state", i)' /\ i \notin Queued("state")'
    <3>1. ~Replying("state", i) /\ i \notin Queued("state")
      BY <2>3 DEF CallInv, StateDone
    <3>2. ~Replying("state", i)'
      BY <3>1, <2>1, <2>2, <2>3, <1>4
    <3>3. i \notin Queued("state")'
      BY <3>1, <2>2, <1>1
    <3> QED BY <3>2, <3>3
  <2> QED BY <2>3 DEF StateDone
<1>8. Calls!Perform(s, j)
  <2>1. [u \in Sockets |-> Queued(u)]'
          = [[u \in Sockets |-> Queued(u)] EXCEPT ![s] = @ \ {j}]
    BY <1>1
  <2>2. j \in [u \in Sockets |-> Queued(u)][s]
    BY <1>1
  <2> QED BY <2>1, <2>2, <1>2 DEF Calls!Perform, Queued, Waiting
<1>9. Calls!Next
  BY <1>8 DEF Calls!Next
<1> QED BY <1>1, <1>5, <1>6, <1>7, <1>9 DEF CallInv

\* A goroutine goes on without a request: nothing changes for Requests.
PcStep(j, pc) == \A i \in Jobs : job'[i].pc = IF i = j THEN pc ELSE job[i].pc

LEMMA CallPc ==
    ASSUME TypeInv, NEW j \in Jobs, NEW v, job' = [job EXCEPT ![j] = v]
    PROVE  PcStep(j, v.pc)
BY DEF TypeInv, TypeOK, PcStep

LEMMA IdleStep ==
    ASSUME CallInv, NEW j \in Jobs, NEW pc, PcStep(j, pc),
           j \notin Waiting \cup Failed, pc \notin {"state", "data", "failed"},
           UNCHANGED <<queue, busy>>
    PROVE  CallInv' /\ UNCHANGED Calls!vars
<1>1. Waiting' = Waiting /\ Failed' = Failed
  BY DEF PcStep, Waiting, Failed
<1>2. \A s \in Sockets : Queued(s)' = Queued(s)
  BY DEF Queued
<1>3. \A s \in Sockets, i \in Jobs : Replying(s, i)' <=> Replying(s, i)
  BY DEF Replying
<1>4. OneEach' /\ NotBoth'
  BY <1>2, <1>3 DEF CallInv, OneEach, NotBoth
<1>5. NoneBetween'
  BY <1>1, <1>2, <1>3 DEF CallInv, NoneBetween
<1>6. StateDone'
  BY <1>2, <1>3 DEF CallInv, StateDone, PcStep, Sockets
<1>7. UNCHANGED Calls!vars
  BY <1>1 DEF Calls!vars, Waiting
<1> QED BY <1>4, <1>5, <1>6, <1>7 DEF CallInv

\* A goroutine gives up between requests.
LEMMA LeaveStep ==
    ASSUME CallInv, NEW j \in Jobs, PcStep(j, "failed"),
           j \notin Waiting \cup Failed, UNCHANGED <<queue, busy>>
    PROVE  CallInv' /\ Calls!GiveUp(j)
<1>1. Waiting' = Waiting /\ Failed' = Failed \cup {j}
  BY DEF PcStep, Waiting, Failed
<1>2. \A s \in Sockets : Queued(s)' = Queued(s)
  BY DEF Queued
<1>3. \A s \in Sockets, i \in Jobs : Replying(s, i)' <=> Replying(s, i)
  BY DEF Replying
<1>4. OneEach' /\ NotBoth'
  BY <1>2, <1>3 DEF CallInv, OneEach, NotBoth
<1>5. NoneBetween'
  BY <1>1, <1>2, <1>3 DEF CallInv, NoneBetween
<1>6. StateDone'
  BY <1>2, <1>3 DEF CallInv, StateDone, PcStep, Sockets
<1>7. Calls!GiveUp(j)
  BY <1>1 DEF Calls!GiveUp, Waiting
<1> QED BY <1>4, <1>5, <1>6, <1>7 DEF CallInv

\* A goroutine asks.
LEMMA AskStep ==
    ASSUME TypeInv, CallInv, NEW j \in Jobs, PcStep(j, "state"),
           j \notin Waiting \cup Failed, UNCHANGED busy,
           NEW r, r.job = j, r \in Request,
           queue' = [s \in Sockets |-> Append(queue[s], r)]
    PROVE  CallInv' /\ Calls!Ask(j)
<1>1. Waiting' = Waiting \cup {j} /\ Failed' = Failed
  BY DEF PcStep, Waiting, Failed
<1>2. ASSUME NEW s \in Sockets
      PROVE  /\ Queued(s)' = Queued(s) \cup {j}
             /\ \A i, k \in 1..Len(queue'[s]) :
                    queue'[s][i].job = queue'[s][k].job => i = k
  <2> DEFINE q == queue[s]
  <2>1. q \in Seq(Request) /\ queue'[s] = Append(q, r)
    BY DEF TypeInv, TypeOK
  <2>2. /\ Len(queue'[s]) = Len(q) + 1
        /\ Len(q) \in Nat
        /\ \A i \in 1..Len(q) : queue'[s][i] = q[i]
        /\ queue'[s][Len(q) + 1] = r
    BY <2>1, AppendProperties
  <2>3. j \notin {q[i].job : i \in 1..Len(q)}
    BY DEF CallInv, NoneBetween, Queued
  <2>4. \A i, k \in 1..Len(q) : q[i].job = q[k].job => i = k
    BY DEF CallInv, OneEach
  <2>5. Queued(s)' = {queue'[s][i].job : i \in 1..Len(queue'[s])}
    BY DEF Queued
  <2>6. Queued(s) = {q[i].job : i \in 1..Len(q)}
    BY DEF Queued
  <2> HIDE DEF q
  <2>7. ASSUME NEW x
        PROVE  x \in {queue'[s][i].job : i \in 1..Len(queue'[s])} <=>
                   x \in {q[i].job : i \in 1..Len(q)} \/ x = j
    <3>1. ASSUME NEW i \in 1..Len(queue'[s])
          PROVE  i \in 1..Len(q) \/ i = Len(q) + 1
      BY <2>2
    <3>2. Len(q) + 1 \in 1..Len(queue'[s]) /\ 1..Len(q) \subseteq 1..Len(queue'[s])
      BY <2>2
    <3> QED BY <3>1, <3>2, <2>2
  <2>8. ASSUME NEW i \in 1..Len(queue'[s]), NEW k \in 1..Len(queue'[s]),
               queue'[s][i].job = queue'[s][k].job
        PROVE  i = k
    <3>1. /\ i \in 1..Len(q) \/ i = Len(q) + 1
          /\ k \in 1..Len(q) \/ k = Len(q) + 1
      BY <2>2
    <3> QED BY <3>1, <2>2, <2>3, <2>4, <2>8
  <2> QED BY <2>5, <2>6, <2>7, <2>8
<1>3. \A s \in Sockets, i \in Jobs : Replying(s, i)' <=> Replying(s, i)
  BY DEF Replying
<1>4. OneEach'
  BY <1>2 DEF OneEach
<1>5. NotBoth'
  BY <1>2, <1>3 DEF CallInv, NotBoth, NoneBetween
<1>6. NoneBetween'
  BY <1>1, <1>2, <1>3 DEF CallInv, NoneBetween
<1>7. StateDone'
  BY <1>2, <1>3 DEF CallInv, StateDone, PcStep, Sockets
<1>8. Calls!Ask(j)
  <2>1. /\ [s \in Sockets |-> Queued(s)]' = [s \in Sockets |-> Queued(s) \cup {j}]
        /\ \A s \in Sockets : j \notin Queued(s)
    BY <1>2 DEF CallInv, NoneBetween
  <2>2. \A s \in Sockets : [u \in Sockets |-> Queued(u)][s] = Queued(s)
    OBVIOUS
  <2>3. [s \in Sockets |-> [u \in Sockets |-> Queued(u)][s] \cup {j}]
           = [s \in Sockets |-> Queued(s) \cup {j}]
    BY <2>2
  <2> QED BY <2>1, <2>2, <2>3, <1>1 DEF Calls!Ask, Queued, Waiting
<1> QED BY <1>4, <1>5, <1>6, <1>7, <1>8 DEF CallInv

\* A goroutine has read the reply of the state listener.
LEMMA StateStep ==
    ASSUME TypeInv, CallInv, NEW j \in Jobs, job[j].pc = "state",
           Replying("state", j), busy' = [busy EXCEPT !["state"] = Idle],
           UNCHANGED queue, PcStep(j, "data") \/ PcStep(j, "failed")
    PROVE  CallInv' /\ (Calls!GiveUp(j) \/ UNCHANGED Calls!vars)
<1>0. "state" \in Sockets /\ j \in Waiting /\ j \notin Failed
  BY DEF Sockets, Waiting, Failed
<1>1. \A s \in Sockets : Queued(s)' = Queued(s)
  BY DEF Queued
<1>2. \A s \in Sockets, i \in Jobs :
          Replying(s, i)' <=> Replying(s, i) /\ s # "state"
  BY DEF Replying, TypeInv, TypeOK
<1>3. j \notin Queued("state")
  BY <1>0 DEF CallInv, NotBoth
<1>4. OneEach' /\ NotBoth'
  BY <1>1, <1>2 DEF CallInv, OneEach, NotBoth
<1>5. Waiting' \cup Failed' = Waiting \cup Failed
  BY <1>0 DEF PcStep, Waiting, Failed
<1>6. NoneBetween'
  BY <1>1, <1>2, <1>5 DEF CallInv, NoneBetween
<1>7. StateDone'
  BY <1>0, <1>1, <1>2, <1>3 DEF CallInv, StateDone, PcStep
<1>8. CASE PcStep(j, "data")
  <2>1. Waiting' = Waiting /\ Failed' = Failed
    BY <1>0, <1>8 DEF PcStep, Waiting, Failed
  <2>2. UNCHANGED Calls!vars
    BY <2>1 DEF Calls!vars, Waiting
  <2> QED BY <2>2, <1>4, <1>6, <1>7 DEF CallInv
<1>9. CASE PcStep(j, "failed")
  <2>1. Waiting' = Waiting \ {j} /\ Failed' = Failed \cup {j}
    BY <1>9 DEF PcStep, Waiting, Failed
  <2>2. \E s \in Sockets : j \notin [u \in Sockets |-> Queued(u)][s]
    BY <1>0, <1>3
  <2>3. Calls!GiveUp(j)
    BY <2>1, <2>2, <1>0 DEF Calls!GiveUp, Queued, Waiting
  <2> QED BY <2>3, <1>4, <1>6, <1>7 DEF CallInv
<1> QED BY <1>8, <1>9

\* A goroutine has read the reply of the data listener.
LEMMA DataStep ==
    ASSUME TypeInv, CallInv, NEW j \in Jobs, job[j].pc = "data",
           Replying("data", j), busy' = [busy EXCEPT !["data"] = Idle],
           UNCHANGED queue, PcStep(j, "ready") \/ PcStep(j, "failed")
    PROVE  CallInv' /\ (Calls!GiveUp(j) \/ Calls!Return(j))
<1>0. "data" \in Sockets /\ j \in Waiting /\ j \notin Failed
  BY DEF Sockets, Waiting, Failed
<1>1. \A s \in Sockets : Queued(s)' = Queued(s)
  BY DEF Queued
<1>2. \A s \in Sockets, i \in Jobs :
          Replying(s, i)' <=> Replying(s, i) /\ s # "data"
  BY DEF Replying, TypeInv, TypeOK
<1>3. \A s \in Sockets : j \notin Queued(s) /\ ~Replying(s, j)'
  BY <1>0, <1>2 DEF CallInv, NotBoth, StateDone, Sockets
<1>4. OneEach' /\ NotBoth'
  BY <1>1, <1>2 DEF CallInv, OneEach, NotBoth
<1>5. Waiting' = Waiting \ {j} /\ Failed \subseteq Failed'
  BY <1>0 DEF PcStep, Waiting, Failed
<1>6. NoneBetween'
  BY <1>1, <1>2, <1>3, <1>5 DEF CallInv, NoneBetween
<1>7. StateDone'
  BY <1>1, <1>2 DEF CallInv, StateDone, PcStep, Sockets
<1>8. CallInv'
  BY <1>4, <1>6, <1>7 DEF CallInv
<1>9. \A s \in Sockets : j \notin [u \in Sockets |-> Queued(u)][s]
  BY <1>3
<1>10. CASE PcStep(j, "ready")
  <2>1. Failed' = Failed
    BY <1>0, <1>10 DEF PcStep, Failed
  <2> QED BY <2>1, <1>0, <1>5, <1>8, <1>9 DEF Calls!Return, Queued, Waiting
<1>11. CASE PcStep(j, "failed")
  <2>1. Failed' = Failed \cup {j}
    BY <1>11 DEF PcStep, Failed
  <2> QED BY <2>1, <1>0, <1>5, <1>8, <1>9 DEF Calls!GiveUp, Queued, Waiting
<1> QED BY <1>10, <1>11

LEMMA ProceedCalls ==
    ASSUME TypeInv, CallInv, NEW j \in Jobs, Proceed(j)
    PROVE  CallInv' /\ [Calls!Next]_(Calls!vars)
<1> USE DEF Waiting, Failed
<1>1. ASSUME NEW group \in SUBSET Peers, ReceiveGroup(j, group)
      PROVE  CallInv' /\ UNCHANGED Calls!vars
  <2> DEFINE v == [job[j] EXCEPT !.peers = group, !.todo = group, !.pc = "ready"]
  <2>1. job[j] \in Job
    BY <1>1, RunningTyped DEF ReceiveGroup
  <2>2. job' = [job EXCEPT ![j] = v] /\ v.pc = "ready"
    BY <1>1, <2>1 DEF ReceiveGroup, TypeInv, TypeOK, Job
  <2> HIDE DEF v
  <2>3. PcStep(j, "ready")
    BY <2>2, CallPc
  <2> QED BY <1>1, <2>3, IdleStep DEF ReceiveGroup, loopVars
<1>2. ASSUME Answer(j)
      PROVE  CallInv' /\ (UNCHANGED Calls!vars \/ Calls!GiveUp(j))
  <2>1. job[j] \in Job
    BY <1>2, RunningTyped DEF Answer
  <2>2. PcStep(j, "ready") \/ PcStep(j, "failed")
    <3> DEFINE a == [job[j] EXCEPT !.kind = "conn"]
               b == [job[j] EXCEPT !.pc = "failed"]
    <3>1. a.pc = "ready" /\ b.pc = "failed"
      BY <1>2, <2>1 DEF Answer, Job
    <3>2. job' = [job EXCEPT ![j] = a] \/ job' = [job EXCEPT ![j] = b]
      BY <1>2 DEF Answer
    <3> HIDE DEF a, b
    <3> QED BY <3>1, <3>2, CallPc
  <2> QED BY <1>2, <2>2, IdleStep, LeaveStep DEF Answer, loopVars
<1>3. ASSUME NEW op \in Ops, NEW p \in Labels, Ask(j, op, p)
      PROVE  CallInv' /\ (UNCHANGED Calls!vars \/ Calls!Ask(j))
  <2> DEFINE r == [op |-> op, topic |-> job[j].topic, peer |-> p, job |-> j]
             v(pc) == [job[j] EXCEPT !.op = op, !.peer = p, !.pc = pc]
  <2>1. job[j] \in Job
    BY <1>3, RunningTyped DEF Ask
  <2>2. r \in Request /\ r.job = j
    BY <2>1 DEF Request, Job
  <2>3. v("state").pc = "state" /\ v("hung").pc = "hung"
    BY <2>1 DEF Job
  <2>4. \/ /\ job' = [job EXCEPT ![j] = v("state")]
           /\ queue' = [s \in Sockets |-> Append(queue[s], r)]
        \/ job' = [job EXCEPT ![j] = v("hung")] /\ UNCHANGED queue
    BY <1>3 DEF Ask
  <2> HIDE DEF r, v
  <2>5. \/ /\ PcStep(j, "state")
           /\ queue' = [s \in Sockets |-> Append(queue[s], r)]
        \/ PcStep(j, "hung") /\ UNCHANGED queue
    BY <2>3, <2>4, CallPc
  <2>6. j \notin Waiting \cup Failed /\ UNCHANGED busy
    BY <1>3 DEF Ask
  <2> QED BY <2>2, <2>5, <2>6, AskStep, IdleStep
<1>4. ASSUME ReadState(j)
      PROVE  CallInv' /\ (UNCHANGED Calls!vars \/ Calls!GiveUp(j))
  <2>1. job[j] \in Job
    BY <1>4, RunningTyped DEF ReadState
  <2> DEFINE v(pc) == [job[j] EXCEPT !.pc = pc]
  <2>2. v("data").pc = "data" /\ v("failed").pc = "failed"
    BY <2>1 DEF Job
  <2>3. job' = [job EXCEPT ![j] = v("data")] \/ job' = [job EXCEPT ![j] = v("failed")]
    BY <1>4 DEF ReadState
  <2> HIDE DEF v
  <2>4. PcStep(j, "data") \/ PcStep(j, "failed")
    BY <2>2, <2>3, CallPc
  <2> QED BY <1>4, <2>4, StateStep DEF ReadState, Replying
<1>5. ASSUME ReadData(j)
      PROVE  CallInv' /\ (Calls!GiveUp(j) \/ Calls!Return(j))
  <2>1. job[j] \in Job
    BY <1>5, RunningTyped DEF ReadData
  <2> DEFINE v(pc, todo) == [job[j] EXCEPT !.pc = pc, !.todo = todo]
  <2>2. ASSUME NEW pc, NEW todo PROVE v(pc, todo).pc = pc
    BY <2>1 DEF Job
  <2>3. PICK todo : \/ job' = [job EXCEPT ![j] = v("ready", todo)]
                    \/ job' = [job EXCEPT ![j] = v("failed", todo)]
    <3>1. CASE busy["data"].ok /\ job[j].op = "connect"
      <4> DEFINE rest == job[j].todo \ {job[j].peer}
      <4>1. job' = [job EXCEPT ![j] = v("ready", rest)]
        BY <1>5, <3>1 DEF ReadData
      <4> QED BY <4>1
    <3>2. CASE ~(busy["data"].ok /\ job[j].op = "connect")
      <4>1. \/ job' = [job EXCEPT ![j] = v("ready", job[j].todo)]
            \/ job' = [job EXCEPT ![j] = v("failed", job[j].todo)]
        BY <1>5, <3>2 DEF ReadData
      <4> QED BY <4>1
    <3> QED BY <3>1, <3>2
  <2> HIDE DEF v
  <2>4. PcStep(j, "ready") \/ PcStep(j, "failed")
    BY <2>2, <2>3, CallPc
  <2> QED BY <1>5, <2>4, DataStep DEF ReadData, Replying
<1>6. ASSUME Finish(j)
      PROVE  CallInv' /\ (UNCHANGED Calls!vars \/ Calls!GiveUp(j))
  <2>1. job[j] \in Job
    BY <1>6, RunningTyped DEF Finish
  <2>2. PcStep(j, "done") \/ PcStep(j, "failed")
    <3> DEFINE a == [job[j] EXCEPT !.pc = "failed"]
    <3>1. a.pc = "failed" /\ DoneJob.pc = "done"
      BY <2>1 DEF Job, DoneJob
    <3>2. job' = [job EXCEPT ![j] = a] \/ job' = [job EXCEPT ![j] = DoneJob]
      BY <1>6 DEF Finish
    <3> HIDE DEF a
    <3> QED BY <3>1, <3>2, CallPc
  <2> QED BY <1>6, <2>2, IdleStep, LeaveStep DEF Finish, loopVars
<1> QED BY <1>1, <1>2, <1>3, <1>4, <1>5, <1>6 DEF Proceed, Calls!Next

LEMMA BeginCalls ==
    ASSUME TypeInv, CallInv, NEW j \in Jobs, NEW k, NEW t, NEW ps, NEW pc,
           Begin(j, k, t, ps, pc), pc \notin {"state", "data", "failed"},
           UNCHANGED <<queue, busy>>
    PROVE  CallInv' /\ UNCHANGED Calls!vars
<1> DEFINE v == [kind |-> k, topic |-> t, peers |-> ps, todo |-> ps,
                 op |-> "none", peer |-> Me, pc |-> pc]
<1>1. job' = [job EXCEPT ![j] = v] /\ v.pc = pc
  BY DEF Begin
<1>2. j \notin Waiting \cup Failed
  BY DEF Begin, NoJob, Waiting, Failed
<1> HIDE DEF v
<1> QED BY <1>1, <1>2, CallPc, IdleStep

LEMMA StutterCalls ==
    ASSUME CallInv, UNCHANGED <<job, queue, busy>>
    PROVE  CallInv' /\ UNCHANGED Calls!vars
BY DEF CallInv, OneEach, NotBoth, NoneBetween, StateDone, Waiting, Failed, Queued,
       Replying, Calls!vars

LEMMA EnvironmentCalls ==
    ASSUME TypeInv, CallInv, Environment
    PROVE  CallInv' /\ UNCHANGED Calls!vars
<1>1. CASE CloseConnector \/ ClosePublisher
  BY <1>1, StutterCalls DEF CloseConnector, ClosePublisher, jobVars
<1>2. ASSUME NEW t \in Topics, Create(t) \/ \E p \in Peers : AddMember(t, p)
      PROVE  CallInv' /\ UNCHANGED Calls!vars
  BY <1>2, StutterCalls DEF Create, AddMember, jobVars, loopVars
<1>3. ASSUME NEW t \in Topics, StartJoin(t) \/ StartLeave(t)
      PROVE  CallInv' /\ UNCHANGED Calls!vars
  BY <1>3, BeginCalls DEF StartJoin, StartLeave, loopVars
<1>4. ASSUME NEW t \in Topics, NEW p \in Peers, StartSubscription(t, p)
      PROVE  CallInv' /\ UNCHANGED Calls!vars
  BY <1>4, BeginCalls DEF StartSubscription, loopVars
<1>5. ASSUME NEW t \in Topics, NEW p \in Peers, Depart(t, p)
      PROVE  CallInv' /\ UNCHANGED Calls!vars
  <2>1. UNCHANGED <<queue, busy>>
    BY <1>5 DEF Depart, loopVars
  <2>2. UNCHANGED job \/ \E j \in Jobs : Begin(j, "remove", t, {p}, "ready")
    BY <1>5 DEF Depart
  <2> QED BY <2>1, <2>2, BeginCalls, StutterCalls
<1> QED BY <1>1, <1>2, <1>3, <1>4, <1>5 DEF Environment

LEMMA ListenCalls ==
    ASSUME TypeInv, CallInv, ListenState \/ ListenData
    PROVE  CallInv' /\ Calls!Next
<1>1. CASE ListenState
  <2> DEFINE r == Head(queue["state"])
  <2>1. /\ queue["state"] # <<>> /\ "state" \in Sockets
        /\ StateAuth(r) \/ StateConnect(r) \/ StateDisconnect(r)
           \/ StateUnsubAll(r) \/ StatePass(r)
    BY <1>1 DEF ListenState, Sockets
  <2> HIDE DEF r
  <2>2. Receive("state") /\ UNCHANGED job /\ \E ok : Answers("state", r, ok)
    BY <2>1 DEF StateAuth, StateConnect, StateDisconnect, StateUnsubAll, StatePass,
                jobVars
  <2> QED BY <2>1, <2>2, ListenerPerforms DEF r
<1>2. CASE ListenData
  <2> DEFINE r == Head(queue["data"])
  <2>1. /\ queue["data"] # <<>> /\ "data" \in Sockets
        /\ DataAuth(r) \/ DataConnect(r) \/ DataPass(r) \/ DataUnsub(r)
           \/ DataUnsubAll(r)
    BY <1>2 DEF ListenData, Sockets
  <2> HIDE DEF r
  <2>2. /\ Receive("data") /\ UNCHANGED job
        /\ UNCHANGED busy \/ \E ok : Answers("data", r, ok)
    BY <2>1 DEF DataAuth, DataConnect, DataPass, DataUnsub, DataUnsubAll, Panic,
                jobVars
  <2> QED BY <2>1, <2>2, ListenerPerforms DEF r
<1> QED BY <1>1, <1>2

LEMMA InitCalls == Init => CallInv /\ Calls!Init
<1> SUFFICES ASSUME Init PROVE CallInv /\ Calls!Init
  OBVIOUS
<1>1. \A j \in Jobs : job[j].pc = "free"
  BY DEF Init, NoJob
<1>2. \A s \in Sockets : Len(queue[s]) = 0 /\ 1..Len(queue[s]) = {}
  BY EmptySeq DEF Init
<1>3. \A s \in Sockets : busy[s] = Idle
  BY DEF Init
<1>4. Waiting = {} /\ Failed = {} /\ \A s \in Sockets : Queued(s) = {}
  BY <1>1, <1>2 DEF Waiting, Failed, Queued
<1>5. CallInv
  BY <1>1, <1>2, <1>3, <1>4 DEF CallInv, OneEach, NotBoth, NoneBetween, StateDone,
     Replying
<1>6. Calls!Init
  BY <1>4 DEF Calls!Init, Waiting, Queued
<1> QED BY <1>5, <1>6

\* The goroutines and the two listeners (processor.go sendAuth, sendConnect,
\* sendSubscribe, zmq.go) implement Requests: a request that returns without
\* error has been performed by the state and the data listener, once each, and
\* a goroutine asks only when nothing of an earlier request of its is left.
THEOREM ServesCallsAlways == Spec => ServesCalls
<1>1. TypeInv /\ CallInv /\ [Next]_vars => CallInv' /\ [Calls!Next]_(Calls!vars)
  <2> SUFFICES ASSUME TypeInv, CallInv, [Next]_vars
               PROVE  CallInv' /\ [Calls!Next]_(Calls!vars)
    OBVIOUS
  <2>1. CASE UNCHANGED vars
    BY <2>1, StutterCalls DEF vars, jobVars, loopVars
  <2>2. CASE Environment
    BY <2>2, EnvironmentCalls
  <2>3. CASE ListenState \/ ListenData
    BY <2>3, ListenCalls
  <2>4. CASE \E j \in Jobs : Proceed(j)
    BY <2>4, ProceedCalls
  <2> QED BY <2>1, <2>2, <2>3, <2>4 DEF Next, Work
<1> QED BY <1>1, InitTypeInv, NextTypeInv, InitCalls, PTL
        DEF Spec, ServesCalls, Calls!Spec

-----------------------------------------------------------------------------
(* What a goroutine has asked for, and what the queues hold of it.          *)

Adders == {"join", "sub", "conn"}

\* How far a call of a kind has come.
Shape(c) ==
    /\ c.todo \subseteq c.peers
    /\ c.op = "none" => c.pc \in {"asking", "ready"} /\ c.todo = c.peers
    /\ c.pc = "asking" => c.kind = "join" /\ c.op = "none" /\ c.peers = {}
    /\ c.kind \in {"sub", "conn", "remove"} =>
           c.peers # {} /\ \A p, q \in c.peers : p = q
    /\ c.kind = "sub" => c.op \in {"none", "auth"}
    /\ c.kind = "conn" => c.op \in {"auth", "connect"}
    /\ c.kind = "remove" => c.op \in {"none", "disconnect", "unsubData"}
    /\ c.kind = "leave" => c.op \in {"none", "unsubAll"}
    /\ c.op = "auth" => c.kind \in Adders /\ c.peer \in c.todo
    /\ c.op = "connect" => /\ c.kind \in {"join", "conn"} /\ c.peer \in c.peers
                           /\ c.pc \in {"state", "data"} => c.peer \in c.todo
    /\ c.op \in {"disconnect", "unsubData"} =>
           c.kind = "remove" /\ c.peer \in c.peers
    /\ c.op = "unsubData" => c.peer \in Publishers
    /\ c.op = "unsubAll" => c.kind = "leave"

Shaped == \A j \in Jobs : job[j] \in Job => Shape(job[j])

\* The requests of a queue.
Asked(s) == {queue[s][i] : i \in 1..Len(queue[s])}

\* A request is the last one its goroutine has made; nobody gives up one that
\* adds a peer.
Matches(r) ==
    LET c == job[r.job]
    IN /\ c \in Job /\ c.op = r.op /\ c.topic = r.topic /\ c.peer = r.peer
       /\ r.op \in {"auth", "connect"} => r.job \in Waiting

Matched == \A s \in Sockets : \A r \in Asked(s) : Matches(r)

AddsSucceed ==
    \A s \in Sockets, j \in Jobs :
        Replying(s, j) /\ job[j].op \in {"auth", "connect"} => busy[s].ok

AskInv == Shaped /\ Matched /\ AddsSucceed

\* The call j goes on with these fields, or is another one.
Becomes(j, k, t, ps, td, op, p, pc) ==
    /\ job'[j] \in Job
    /\ job'[j].kind = k /\ job'[j].topic = t /\ job'[j].peers = ps
    /\ job'[j].todo = td /\ job'[j].op = op /\ job'[j].peer = p /\ job'[j].pc = pc
    /\ \A i \in Jobs \ {j} : job'[i] = job[i]

Ends(j) == job'[j] = DoneJob /\ \A i \in Jobs \ {j} : job'[i] = job[i]

LEMMA BeginBecomes ==
    ASSUME TypeInv, NEW j \in Jobs, NEW k \in Kinds, NEW t \in Topics,
           NEW ps \in SUBSET Peers, NEW pc \in Steps, Begin(j, k, t, ps, pc)
    PROVE  Becomes(j, k, t, ps, ps, "none", Me, pc) /\ job[j] = NoJob
<1> DEFINE v == [kind |-> k, topic |-> t, peers |-> ps, todo |-> ps,
                 op |-> "none", peer |-> Me, pc |-> pc]
<1>1. v \in Job
  BY DEF Job, Ops, Labels
<1>2. job' = [job EXCEPT ![j] = v] /\ job[j] = NoJob
  BY DEF Begin
<1>3. /\ v.kind = k /\ v.topic = t /\ v.peers = ps /\ v.todo = ps
      /\ v.op = "none" /\ v.peer = Me /\ v.pc = pc
  OBVIOUS
<1> HIDE DEF v
<1>4. job'[j] = v /\ \A i \in Jobs \ {j} : job'[i] = job[i]
  BY <1>2 DEF TypeInv, TypeOK
<1> QED BY <1>1, <1>2, <1>3, <1>4 DEF Becomes

LEMMA ReceiveGroupBecomes ==
    ASSUME TypeInv, NEW j \in Jobs, NEW g \in SUBSET Peers, ReceiveGroup(j, g)
    PROVE  /\ job[j] \in Job
           /\ Becomes(j, job[j].kind, job[j].topic, g, g, job[j].op, job[j].peer,
                      "ready")
<1> DEFINE v == [job[j] EXCEPT !.peers = g, !.todo = g, !.pc = "ready"]
<1>1. job[j] \in Job
  BY RunningTyped DEF ReceiveGroup
<1>2. v \in Job
  BY <1>1 DEF Job, Steps
<1>3. /\ v.kind = job[j].kind /\ v.topic = job[j].topic /\ v.peers = g /\ v.todo = g
      /\ v.op = job[j].op /\ v.peer = job[j].peer /\ v.pc = "ready"
  BY <1>1 DEF Job
<1>4. job' = [job EXCEPT ![j] = v]
  BY <1>1 DEF ReceiveGroup, TypeInv, TypeOK, Job
<1> HIDE DEF v
<1>5. job'[j] = v /\ \A i \in Jobs \ {j} : job'[i] = job[i]
  BY <1>4 DEF TypeInv, TypeOK
<1> QED BY <1>1, <1>2, <1>3, <1>5 DEF Becomes

LEMMA AnswerBecomes ==
    ASSUME TypeInv, NEW j \in Jobs, Answer(j)
    PROVE  /\ job[j] \in Job /\ job[j].kind = "sub" /\ job[j].op = "auth"
           /\ \/ /\ Me \in members[job[j].topic]
                 /\ Becomes(j, "conn", job[j].topic, job[j].peers, job[j].todo,
                            job[j].op, job[j].peer, "ready")
              \/ /\ Me \notin members[job[j].topic]
                 /\ Becomes(j, "sub", job[j].topic, job[j].peers, job[j].todo,
                            job[j].op, job[j].peer, "failed")
<1> DEFINE v == [job[j] EXCEPT !.kind = "conn"]
           w == [job[j] EXCEPT !.pc = "failed"]
<1>1. job[j] \in Job /\ job[j].pc = "ready" /\ job[j].kind = "sub" /\ job[j].op = "auth"
  BY RunningTyped DEF Answer
<1>2. v \in Job /\ w \in Job
  BY <1>1 DEF Job, Steps, Kinds
<1>3. /\ v.kind = "conn" /\ v.topic = job[j].topic /\ v.peers = job[j].peers
      /\ v.todo = job[j].todo /\ v.op = job[j].op /\ v.peer = job[j].peer /\ v.pc = "ready"
      /\ w.kind = "sub" /\ w.topic = job[j].topic /\ w.peers = job[j].peers
      /\ w.todo = job[j].todo /\ w.op = job[j].op /\ w.peer = job[j].peer /\ w.pc = "failed"
  BY <1>1 DEF Job
<1>4. \/ Me \in members[job[j].topic] /\ job' = [job EXCEPT ![j] = v]
      \/ Me \notin members[job[j].topic] /\ job' = [job EXCEPT ![j] = w]
  BY <1>1 DEF Answer
<1> HIDE DEF v, w
<1>5. /\ \/ Me \in members[job[j].topic] /\ job'[j] = v
         \/ Me \notin members[job[j].topic] /\ job'[j] = w
      /\ \A i \in Jobs \ {j} : job'[i] = job[i]
  BY <1>4 DEF TypeInv, TypeOK
<1> QED BY <1>1, <1>2, <1>3, <1>5 DEF Becomes

LEMMA AskBecomes ==
    ASSUME TypeInv, NEW j \in Jobs, NEW op \in Ops, NEW p \in Labels, Ask(j, op, p)
    PROVE  /\ job[j] \in Job /\ job[j].pc = "ready" /\ NextRequest(j, op, p)
           /\ \/ /\ "connector" \in open
                 /\ Becomes(j, job[j].kind, job[j].topic, job[j].peers, job[j].todo,
                            op, p, "state")
              \/ /\ "connector" \notin open
                 /\ UNCHANGED queue
                 /\ Becomes(j, job[j].kind, job[j].topic, job[j].peers, job[j].todo,
                            op, p, "hung")
<1> DEFINE v(pc) == [job[j] EXCEPT !.op = op, !.peer = p, !.pc = pc]
<1>1. job[j] \in Job /\ job[j].pc = "ready" /\ NextRequest(j, op, p)
  BY RunningTyped DEF Ask
<1>2. ASSUME NEW pc \in Steps
      PROVE  /\ v(pc) \in Job
             /\ v(pc).kind = job[j].kind /\ v(pc).topic = job[j].topic
             /\ v(pc).peers = job[j].peers /\ v(pc).todo = job[j].todo
             /\ v(pc).op = op /\ v(pc).peer = p /\ v(pc).pc = pc
  BY <1>1 DEF Job
<1>4. \/ "connector" \in open /\ job' = [job EXCEPT ![j] = v("state")]
      \/ /\ "connector" \notin open /\ job' = [job EXCEPT ![j] = v("hung")]
         /\ UNCHANGED queue
  BY <1>1 DEF Ask
<1> HIDE DEF v
<1>5. /\ \/ "connector" \in open /\ job'[j] = v("state")
         \/ "connector" \notin open /\ job'[j] = v("hung") /\ UNCHANGED queue
      /\ \A i \in Jobs \ {j} : job'[i] = job[i]
  BY <1>4 DEF TypeInv, TypeOK
<1>6. "state" \in Steps /\ "hung" \in Steps
  BY DEF Steps
<1> QED BY <1>1, <1>2, <1>5, <1>6 DEF Becomes

LEMMA ReadStateBecomes ==
    ASSUME TypeInv, NEW j \in Jobs, ReadState(j)
    PROVE  /\ job[j] \in Job /\ job[j].pc = "state" /\ Replying("state", j)
           /\ Becomes(j, job[j].kind, job[j].topic, job[j].peers, job[j].todo,
                      job[j].op, job[j].peer,
                      IF busy["state"].ok THEN "data" ELSE "failed")
<1> DEFINE pc == IF busy["state"].ok THEN "data" ELSE "failed"
           v == [job[j] EXCEPT !.pc = pc]
<1>1. job[j] \in Job /\ job[j].pc = "state" /\ Replying("state", j)
  BY RunningTyped DEF ReadState, Replying
<1>2. pc \in Steps
  BY DEF Steps
<1>3. job' = [job EXCEPT ![j] = v]
  BY DEF ReadState
<1> HIDE DEF pc
<1>4. /\ v \in Job
      /\ v.kind = job[j].kind /\ v.topic = job[j].topic /\ v.peers = job[j].peers
      /\ v.todo = job[j].todo /\ v.op = job[j].op /\ v.peer = job[j].peer /\ v.pc = pc
  BY <1>1, <1>2 DEF Job
<1> HIDE DEF v
<1>5. job'[j] = v /\ \A i \in Jobs \ {j} : job'[i] = job[i]
  BY <1>3 DEF TypeInv, TypeOK
<1> QED BY <1>1, <1>4, <1>5 DEF Becomes, pc

LEMMA ReadDataBecomes ==
    ASSUME TypeInv, NEW j \in Jobs, ReadData(j)
    PROVE  /\ job[j] \in Job /\ job[j].pc = "data" /\ Replying("data", j)
           /\ Becomes(j, job[j].kind, job[j].topic, job[j].peers,
                      IF busy["data"].ok /\ job[j].op = "connect"
                          THEN job[j].todo \ {job[j].peer} ELSE job[j].todo,
                      job[j].op, job[j].peer,
                      IF busy["data"].ok THEN "ready" ELSE "failed")
<1> DEFINE pc == IF busy["data"].ok THEN "ready" ELSE "failed"
           td == IF busy["data"].ok /\ job[j].op = "connect"
                     THEN job[j].todo \ {job[j].peer} ELSE job[j].todo
           v == [job[j] EXCEPT !.pc = pc, !.todo = td]
<1>1. job[j] \in Job /\ job[j].pc = "data" /\ Replying("data", j)
  BY RunningTyped DEF ReadData, Replying
<1>2. pc \in Steps /\ td \in SUBSET Peers
  BY <1>1 DEF Steps, Job
<1>3. job' = [job EXCEPT ![j] = v]
  BY DEF ReadData
<1> HIDE DEF pc, td
<1>4. /\ v \in Job
      /\ v.kind = job[j].kind /\ v.topic = job[j].topic /\ v.peers = job[j].peers
      /\ v.todo = td /\ v.op = job[j].op /\ v.peer = job[j].peer /\ v.pc = pc
  BY <1>1, <1>2 DEF Job
<1> HIDE DEF v
<1>5. job'[j] = v /\ \A i \in Jobs \ {j} : job'[i] = job[i]
  BY <1>3 DEF TypeInv, TypeOK
<1> QED BY <1>1, <1>4, <1>5 DEF Becomes, pc, td

LEMMA FinishBecomes ==
    ASSUME TypeInv, NEW j \in Jobs, Finish(j)
    PROVE  /\ job[j] \in Job /\ job[j].pc = "ready" /\ job[j].kind # "sub"
           /\ \A op \in Ops, p \in Labels : ~NextRequest(j, op, p)
           /\ \/ /\ job[j].kind = "leave" /\ members[job[j].topic] # {}
                 /\ "publisher" \notin open
                 /\ Becomes(j, job[j].kind, job[j].topic, job[j].peers, job[j].todo,
                            job[j].op, job[j].peer, "failed")
              \/ Ends(j)
<1> DEFINE v == [job[j] EXCEPT !.pc = "failed"]
<1>1. /\ job[j] \in Job /\ job[j].pc = "ready" /\ job[j].kind # "sub"
      /\ \A op \in Ops, p \in Labels : ~NextRequest(j, op, p)
  BY RunningTyped DEF Finish
<1>2. /\ v \in Job
      /\ v.kind = job[j].kind /\ v.topic = job[j].topic /\ v.peers = job[j].peers
      /\ v.todo = job[j].todo /\ v.op = job[j].op /\ v.peer = job[j].peer
      /\ v.pc = "failed"
  BY <1>1 DEF Job, Steps
<1>3. \/ /\ job[j].kind = "leave" /\ members[job[j].topic] # {}
         /\ "publisher" \notin open
         /\ job' = [job EXCEPT ![j] = v]
      \/ job' = [job EXCEPT ![j] = DoneJob]
  BY DEF Finish
<1> HIDE DEF v
<1>4. /\ \/ /\ job[j].kind = "leave" /\ members[job[j].topic] # {}
            /\ "publisher" \notin open /\ job'[j] = v
         \/ job'[j] = DoneJob
      /\ \A i \in Jobs \ {j} : job'[i] = job[i]
  BY <1>3 DEF TypeInv, TypeOK
<1> QED BY <1>1, <1>2, <1>4 DEF Becomes, Ends

-----------------------------------------------------------------------------

LEMMA AskedQueued ==
    ASSUME NEW s
    PROVE  /\ \A r \in Asked(s) : r.job \in Queued(s)
           /\ \A j \in Queued(s) : \E r \in Asked(s) : r.job = j
BY DEF Asked, Queued

LEMMA AskedTyped ==
    ASSUME TypeInv, NEW s \in Sockets, NEW r \in Asked(s)
    PROVE  r \in Request /\ r.job \in Jobs
<1>1. queue[s] \in Seq(Request)
  BY DEF TypeInv, TypeOK
<1>2. r \in Request
  BY <1>1 DEF Asked
<1> QED BY <1>2 DEF Request

LEMMA TakeAsked ==
    ASSUME TypeInv, NEW s \in Sockets, queue[s] # <<>>, Receive(s)
    PROVE  /\ Head(queue[s]) \in Asked(s)
           /\ \A u \in Sockets : Asked(u)' \subseteq Asked(u)
<1>1. queue[s] \in Seq(Request)
  BY DEF TypeInv, TypeOK
<1>2. /\ Head(queue[s]) = queue[s][1]
      /\ Len(queue[s]) \in Nat \ {0}
      /\ Len(Tail(queue[s])) = Len(queue[s]) - 1
      /\ \A i \in 1..Len(Tail(queue[s])) : Tail(queue[s])[i] = queue[s][i + 1]
  BY <1>1, HeadTailProperties, EmptySeq
<1>3. queue'[s] = Tail(queue[s]) /\ \A u \in Sockets \ {s} : queue'[u] = queue[u]
  BY DEF Receive, TypeInv, TypeOK
<1>4. ASSUME NEW u \in Sockets, NEW r \in Asked(u)' PROVE r \in Asked(u)
  <2>1. PICK i \in 1..Len(queue'[u]) : r = queue'[u][i]
    BY DEF Asked
  <2>2. CASE u = s
    <3>1. i + 1 \in 1..Len(queue[s]) /\ r = queue[s][i + 1]
      BY <2>1, <2>2, <1>2, <1>3
    <3> QED BY <3>1, <2>2 DEF Asked
  <2>3. CASE u # s
    BY <2>1, <2>3, <1>3 DEF Asked
  <2> QED BY <2>2, <2>3
<1>5. Head(queue[s]) \in Asked(s)
  BY <1>2 DEF Asked
<1> QED BY <1>4, <1>5

LEMMA AppendAsked ==
    ASSUME TypeInv, NEW r \in Request,
           queue' = [s \in Sockets |-> Append(queue[s], r)]
    PROVE  \A s \in Sockets : Asked(s)' \subseteq Asked(s) \cup {r}
<1> SUFFICES ASSUME NEW s \in Sockets, NEW x \in Asked(s)'
             PROVE  x \in Asked(s) \cup {r}
  OBVIOUS
<1>1. queue[s] \in Seq(Request) /\ queue'[s] = Append(queue[s], r)
  BY DEF TypeInv, TypeOK
<1>2. /\ Len(queue'[s]) = Len(queue[s]) + 1
      /\ Len(queue[s]) \in Nat
      /\ \A i \in 1..Len(queue[s]) : queue'[s][i] = queue[s][i]
      /\ queue'[s][Len(queue[s]) + 1] = r
  BY <1>1, AppendProperties
<1>3. PICK i \in 1..Len(queue'[s]) : x = queue'[s][i]
  BY DEF Asked
<1>4. i \in 1..Len(queue[s]) \/ i = Len(queue[s]) + 1
  BY <1>2
<1> QED BY <1>2, <1>3, <1>4 DEF Asked

\* One call goes on.
LEMMA ShapedStep ==
    ASSUME Shaped, NEW j \in Jobs, \A i \in Jobs \ {j} : job'[i] = job[i],
           job'[j] \in Job => Shape(job'[j])
    PROVE  Shaped'
BY DEF Shaped

\* A call whose last request is in no queue makes another one, or none.
LEMMA MatchedStep ==
    ASSUME TypeInv, CallInv, AskInv, NEW j \in Jobs,
           \A i \in Jobs \ {j} : job'[i] = job[i],
           \A s \in Sockets : j \notin Queued(s) /\ ~Replying(s, j)',
           UNCHANGED queue,
           \A s \in Sockets : busy'[s] = busy[s] \/ busy'[s] = Idle
    PROVE  Matched' /\ AddsSucceed'
<1>1. ASSUME NEW s \in Sockets, NEW r \in Asked(s)' PROVE Matches(r)'
  <2>1. r \in Asked(s) /\ r.job \in Queued(s)
    BY <1>1, AskedQueued DEF Asked
  <2>2. Matches(r) /\ r.job # j
    BY <2>1 DEF AskInv, Matched
  <2>3. r.job \in Jobs
    BY <2>1, AskedTyped
  <2>4. job'[r.job] = job[r.job]
    BY <2>2, <2>3
  <2> QED BY <2>2, <2>3, <2>4 DEF Matches, Waiting
<1>2. AddsSucceed'
  BY DEF AskInv, AddsSucceed, Replying
<1> QED BY <1>1, <1>2 DEF Matched

LEMMA ProceedAsks ==
    ASSUME TypeInv, CallInv, AskInv, NEW j \in Jobs, Proceed(j)
    PROVE  AskInv'
<1>0. /\ Shaped /\ Matched /\ AddsSucceed
      /\ job[j] \in Job => Shape(job[j])
  BY DEF AskInv, Shaped
<1>1. ASSUME job[j].pc \in {"asking", "ready"}
      PROVE  \A s \in Sockets : j \notin Queued(s) /\ ~Replying(s, j)
  BY <1>1 DEF CallInv, NoneBetween, Waiting, Failed
<1>2. ASSUME NEW g \in SUBSET Peers, ReceiveGroup(j, g) PROVE AskInv'
  <2>1. /\ job[j] \in Job /\ job[j].pc = "asking"
        /\ Becomes(j, job[j].kind, job[j].topic, g, g, job[j].op, job[j].peer, "ready")
        /\ UNCHANGED <<queue, busy>>
    BY <1>2, ReceiveGroupBecomes DEF ReceiveGroup, loopVars
  <2>2. Shape(job'[j])
    BY <2>1, <1>0 DEF Becomes, Shape, Adders
  <2>3. Shaped'
    BY <2>1, <2>2, <1>0, ShapedStep DEF Becomes
  <2>4. \A s \in Sockets : j \notin Queued(s) /\ ~Replying(s, j)'
    BY <2>1, <1>1 DEF Replying
  <2>5. Matched' /\ AddsSucceed'
    BY <2>1, <2>4, MatchedStep DEF Becomes
  <2> QED BY <2>3, <2>5 DEF AskInv
<1>3. ASSUME Answer(j) PROVE AskInv'
  <2>1. PICK k \in {"sub", "conn"}, pc \in {"ready", "failed"} :
            /\ job[j] \in Job /\ job[j].pc = "ready"
            /\ job[j].kind = "sub" /\ job[j].op = "auth"
            /\ Becomes(j, k, job[j].topic, job[j].peers, job[j].todo, job[j].op,
                       job[j].peer, pc)
            /\ UNCHANGED <<queue, busy>>
    BY <1>3, AnswerBecomes DEF Answer, loopVars
  <2>2. Shape(job'[j])
    BY <2>1, <1>0 DEF Becomes, Shape, Adders
  <2>3. Shaped'
    BY <2>1, <2>2, <1>0, ShapedStep DEF Becomes
  <2>4. \A s \in Sockets : j \notin Queued(s) /\ ~Replying(s, j)'
    BY <2>1, <1>1 DEF Replying
  <2>5. Matched' /\ AddsSucceed'
    BY <2>1, <2>4, MatchedStep DEF Becomes
  <2> QED BY <2>3, <2>5 DEF AskInv
<1>4. ASSUME NEW op \in Ops, NEW p \in Labels, Ask(j, op, p) PROVE AskInv'
  <2>1. PICK pc \in {"state", "hung"} :
            /\ job[j] \in Job /\ job[j].pc = "ready" /\ NextRequest(j, op, p)
            /\ Becomes(j, job[j].kind, job[j].topic, job[j].peers, job[j].todo,
                       op, p, pc)
            /\ pc = "hung" => UNCHANGED queue
            /\ UNCHANGED busy
    BY <1>4, AskBecomes DEF Ask
  <2>2. Shape(job'[j])
    <3> USE <2>1, <1>0 DEF Becomes, Shape, Adders
    <3>1. CASE op = "auth"
      BY <3>1 DEF NextRequest
    <3>2. CASE op = "connect"
      BY <3>2 DEF NextRequest
    <3>3. CASE op = "disconnect"
      BY <3>3 DEF NextRequest
    <3>4. CASE op = "unsubData"
      BY <3>4 DEF NextRequest
    <3>5. CASE op = "unsubAll"
      BY <3>5 DEF NextRequest
    <3> QED BY <3>1, <3>2, <3>3, <3>4, <3>5 DEF NextRequest
  <2>3. Shaped'
    BY <2>1, <2>2, <1>0, ShapedStep DEF Becomes
  <2>4. \A s \in Sockets : j \notin Queued(s) /\ ~Replying(s, j)'
    BY <2>1, <1>1 DEF Replying
  <2>5. CASE UNCHANGED queue
    BY <2>1, <2>4, <2>3, <2>5, MatchedStep DEF Becomes, AskInv
  <2>6. CASE queue' = [s \in Sockets |->
                           Append(queue[s], [op |-> op, topic |-> job[j].topic,
                                             peer |-> p, job |-> j])] /\ pc = "state"
    <3>1. PICK r \in Request :
              /\ r.op = op /\ r.topic = job[j].topic /\ r.peer = p /\ r.job = j
              /\ queue' = [s \in Sockets |-> Append(queue[s], r)]
      <4> DEFINE v == [op |-> op, topic |-> job[j].topic, peer |-> p, job |-> j]
      <4>1. /\ v \in Request
            /\ v.op = op /\ v.topic = job[j].topic /\ v.peer = p /\ v.job = j
        BY <2>1 DEF Request, Job
      <4>2. queue' = [s \in Sockets |-> Append(queue[s], v)]
        BY <2>6
      <4> HIDE DEF v
      <4> QED BY <4>1, <4>2
    <3>3. \A s \in Sockets : Asked(s)' \subseteq Asked(s) \cup {r}
      BY <3>1, AppendAsked
    <3>4. Matches(r)'
      BY <3>1, <2>1, <2>6 DEF Becomes, Matches, Waiting
    <3>5. ASSUME NEW s \in Sockets, NEW x \in Asked(s)' PROVE Matches(x)'
      <4>1. CASE x = r
        BY <4>1, <3>4
      <4>2. CASE x \in Asked(s)
        <5>1. Matches(x) /\ x.job \in Queued(s) /\ x.job # j
          BY <4>2, <2>4, <1>0, AskedQueued DEF Matched
        <5>2. x.job \in Jobs
          BY <4>2, AskedTyped
        <5>3. job'[x.job] = job[x.job]
          BY <5>1, <5>2, <2>1 DEF Becomes
        <5> QED BY <5>1, <5>2, <5>3 DEF Matches, Waiting
      <4> QED BY <4>1, <4>2, <3>3, <3>5
    <3>6. AddsSucceed'
      BY <2>1, <2>4, <1>0 DEF Becomes, AddsSucceed, Replying
    <3> QED BY <3>5, <3>6, <2>3 DEF AskInv, Matched
  <2> QED BY <2>1, <2>5, <2>6, <1>4 DEF Ask, Becomes
<1>5. ASSUME ReadState(j) PROVE AskInv'
  <2>1. /\ job[j] \in Job /\ job[j].pc = "state" /\ Replying("state", j)
        /\ Becomes(j, job[j].kind, job[j].topic, job[j].peers, job[j].todo,
                   job[j].op, job[j].peer,
                   IF busy["state"].ok THEN "data" ELSE "failed")
        /\ UNCHANGED queue
        /\ \A s \in Sockets : busy'[s] = IF s = "state" THEN Idle ELSE busy[s]
    BY <1>5, ReadStateBecomes DEF ReadState, TypeInv, TypeOK
  <2>2. Shape(job'[j])
    BY <2>1, <1>0 DEF Becomes, Shape, Adders
  <2>3. Shaped'
    BY <2>1, <2>2, <1>0, ShapedStep DEF Becomes
  <2>4. job[j].op \in {"auth", "connect"} => job'[j].pc = "data"
    BY <2>1, <1>0 DEF AddsSucceed, Becomes, Sockets
  <2>5. ASSUME NEW s \in Sockets, NEW r \in Asked(s)' PROVE Matches(r)'
    <3>1. r \in Asked(s) /\ Matches(r)
      BY <2>1, <2>5, <1>0 DEF Matched, Asked
    <3>2. r.job \in Jobs
      BY <3>1, AskedTyped
    <3>3. CASE r.job = j
      BY <3>1, <3>3, <2>1, <2>4 DEF Matches, Becomes, Waiting
    <3>4. CASE r.job # j
      <4>1. job'[r.job] = job[r.job]
        BY <3>2, <3>4, <2>1 DEF Becomes
      <4> QED BY <3>1, <3>2, <4>1 DEF Matches, Waiting
    <3> QED BY <3>3, <3>4
  <2>6. AddsSucceed'
    <3>1. ASSUME NEW s \in Sockets, NEW i \in Jobs, Replying(s, i)'
          PROVE  Replying(s, i) /\ busy'[s] = busy[s] /\ job'[i].op = job[i].op
      BY <3>1, <2>1 DEF Replying, Becomes
    <3> QED BY <3>1, <1>0 DEF AddsSucceed
  <2> QED BY <2>3, <2>5, <2>6 DEF AskInv, Matched
<1>6. ASSUME ReadData(j) PROVE AskInv'
  <2>1. PICK td \in {job[j].todo, job[j].todo \ {job[j].peer}},
             pc \in {"ready", "failed"} :
            /\ job[j] \in Job /\ job[j].pc = "data" /\ Replying("data", j)
            /\ td # job[j].todo => pc = "ready" /\ job[j].op = "connect"
            /\ Becomes(j, job[j].kind, job[j].topic, job[j].peers, td,
                       job[j].op, job[j].peer, pc)
            /\ pc = "failed" => ~busy["data"].ok
            /\ UNCHANGED queue
            /\ \A s \in Sockets : busy'[s] = IF s = "data" THEN Idle ELSE busy[s]
    <3>1. /\ job[j] \in Job /\ job[j].pc = "data" /\ Replying("data", j)
          /\ UNCHANGED queue
          /\ \A s \in Sockets : busy'[s] = IF s = "data" THEN Idle ELSE busy[s]
      BY <1>6, ReadDataBecomes DEF ReadData, TypeInv, TypeOK
    <3> QED BY <3>1, <1>6, ReadDataBecomes
  <2>2. Shape(job'[j])
    BY <2>1, <1>0 DEF Becomes, Shape, Adders
  <2>3. Shaped'
    BY <2>1, <2>2, <1>0, ShapedStep DEF Becomes
  <2>4. \A s \in Sockets : j \notin Queued(s) /\ ~Replying(s, j)'
    BY <2>1 DEF CallInv, NotBoth, StateDone, Sockets, Replying
  <2>5. Matched' /\ AddsSucceed'
    BY <2>1, <2>4, MatchedStep DEF Becomes
  <2> QED BY <2>3, <2>5 DEF AskInv
<1>7. ASSUME Finish(j) PROVE AskInv'
  <2>1. /\ job[j] \in Job /\ job[j].pc = "ready"
        /\ \/ Becomes(j, job[j].kind, job[j].topic, job[j].peers, job[j].todo,
                      job[j].op, job[j].peer, "failed") /\ job[j].kind = "leave"
           \/ Ends(j)
        /\ UNCHANGED <<queue, busy>>
        /\ job[j].kind # "sub" /\ \A op \in Ops, p \in Labels : ~NextRequest(j, op, p)
    BY <1>7, FinishBecomes DEF Finish, loopVars
  <2>2. job'[j] \in Job => Shape(job'[j])
    <3>1. ~NextRequest(j, "unsubAll", Me)
      BY <2>1 DEF Ops, Labels
    <3> QED BY <2>1, <3>1, <1>0, NotRunning DEF Becomes, Ends, Shape, Adders, NextRequest
  <2>3. Shaped'
    BY <2>1, <2>2, <1>0, ShapedStep DEF Becomes, Ends
  <2>4. \A s \in Sockets : j \notin Queued(s) /\ ~Replying(s, j)'
    BY <2>1, <1>1 DEF Replying
  <2>5. Matched' /\ AddsSucceed'
    BY <2>1, <2>4, MatchedStep DEF Becomes, Ends
  <2> QED BY <2>3, <2>5 DEF AskInv
<1> QED BY <1>2, <1>3, <1>4, <1>5, <1>6, <1>7 DEF Proceed

LEMMA BeginAsks ==
    ASSUME TypeInv, CallInv, AskInv, NEW j \in Jobs, NEW k \in Kinds, NEW t \in Topics,
           NEW ps \in SUBSET Peers, NEW pc \in {"asking", "ready"},
           Begin(j, k, t, ps, pc), UNCHANGED <<queue, busy>>,
           pc = "asking" => k = "join" /\ ps = {},
           k \notin {"join", "leave"} => ps # {} /\ \A p, q \in ps : p = q,
           k # "conn"
    PROVE  AskInv'
<1>1. Becomes(j, k, t, ps, ps, "none", Me, pc) /\ job[j] = NoJob
  BY BeginBecomes DEF Steps
<1>2. Shape(job'[j])
  BY <1>1 DEF Becomes, Shape, Adders, Kinds
<1>3. Shaped'
  BY <1>1, <1>2, ShapedStep DEF Becomes, AskInv
<1>4. \A s \in Sockets : j \notin Queued(s) /\ ~Replying(s, j)'
  BY <1>1 DEF NoJob, Replying, CallInv, NoneBetween, Waiting, Failed
<1>5. Matched' /\ AddsSucceed'
  BY <1>1, <1>4, MatchedStep DEF Becomes
<1> QED BY <1>3, <1>5 DEF AskInv

LEMMA StutterAsks ==
    ASSUME AskInv, UNCHANGED <<job, queue, busy>>
    PROVE  AskInv'
BY DEF AskInv, Shaped, Matched, AddsSucceed, Asked, Matches, Waiting, Replying

LEMMA EnvironmentAsks ==
    ASSUME TypeInv, CallInv, AskInv, Environment
    PROVE  AskInv'
<1> USE DEF Kinds
<1>1. CASE CloseConnector \/ ClosePublisher
  BY <1>1, StutterAsks DEF CloseConnector, ClosePublisher, jobVars
<1>2. ASSUME NEW t \in Topics, Create(t) \/ \E p \in Peers : AddMember(t, p)
      PROVE  AskInv'
  BY <1>2, StutterAsks DEF Create, AddMember, jobVars, loopVars
<1>3. ASSUME NEW t \in Topics, StartJoin(t) \/ StartLeave(t)
      PROVE  AskInv'
  BY <1>3, BeginAsks DEF StartJoin, StartLeave, loopVars
<1>4. ASSUME NEW t \in Topics, NEW p \in Peers, StartSubscription(t, p)
      PROVE  AskInv'
  BY <1>4, BeginAsks DEF StartSubscription, loopVars
<1>5. ASSUME NEW t \in Topics, NEW p \in Peers, Depart(t, p)
      PROVE  AskInv'
  <2>1. UNCHANGED <<queue, busy>>
    BY <1>5 DEF Depart, loopVars
  <2>2. UNCHANGED job \/ \E j \in Jobs : Begin(j, "remove", t, {p}, "ready")
    BY <1>5 DEF Depart
  <2> QED BY <2>1, <2>2, BeginAsks, StutterAsks
<1> QED BY <1>1, <1>2, <1>3, <1>4, <1>5 DEF Environment

LEMMA ListenAsks ==
    ASSUME TypeInv, CallInv, AskInv, NEW s \in Sockets, queue[s] # <<>>, Receive(s),
           UNCHANGED job,
           \/ UNCHANGED busy
           \/ \E ok : /\ Answers(s, Head(queue[s]), ok)
                      /\ Head(queue[s]).op \in {"auth", "connect"} => ok
    PROVE  AskInv'
<1> DEFINE r == Head(queue[s])
<1>1. r \in Asked(s) /\ \A u \in Sockets : Asked(u)' \subseteq Asked(u)
  BY TakeAsked
<1>2. Matches(r)
  BY <1>1 DEF AskInv, Matched
<1> HIDE DEF r
<1>3. ASSUME NEW u \in Sockets, NEW x \in Asked(u)' PROVE Matches(x)'
  BY <1>1, <1>3 DEF AskInv, Matched, Matches, Waiting
<1>4. Shaped'
  BY DEF AskInv, Shaped
<1>5. ASSUME NEW u \in Sockets, NEW j \in Jobs, Replying(u, j)',
             job'[j].op \in {"auth", "connect"}
      PROVE  busy'[u].ok
  <2>1. CASE busy'[u] = busy[u]
    BY <2>1, <1>5 DEF AskInv, AddsSucceed, Replying
  <2>2. CASE busy'[u] # busy[u]
    <3>1. PICK ok : /\ busy' = [busy EXCEPT ![s] = [job |-> r.job, ok |-> ok]]
                    /\ r.op \in {"auth", "connect"} => ok
      BY <2>2 DEF Answers, r
    <3>2. u = s /\ busy'[u] = [job |-> r.job, ok |-> ok]
      BY <2>2, <3>1 DEF TypeInv, TypeOK
    <3>3. j = r.job
      BY <3>2, <1>5 DEF Replying
    <3>4. r.op \in {"auth", "connect"}
      BY <3>3, <1>2, <1>5 DEF Matches
    <3> QED BY <3>1, <3>2, <3>4
  <2> QED BY <2>1, <2>2
<1> QED BY <1>3, <1>4, <1>5 DEF AskInv, Matched, AddsSucceed

LEMMA NextAsks == TypeInv /\ CallInv /\ AskInv /\ [Next]_vars => AskInv'
<1> SUFFICES ASSUME TypeInv, CallInv, AskInv, [Next]_vars PROVE AskInv'
  OBVIOUS
<1>1. CASE UNCHANGED vars
  BY <1>1, StutterAsks DEF vars, jobVars, loopVars
<1>2. CASE Environment
  BY <1>2, EnvironmentAsks
<1>3. CASE ListenState
  <2> DEFINE r == Head(queue["state"])
  <2>1. /\ queue["state"] # <<>> /\ "state" \in Sockets
        /\ StateAuth(r) \/ StateConnect(r) \/ StateDisconnect(r)
           \/ StateUnsubAll(r) \/ StatePass(r)
    BY <1>3 DEF ListenState, Sockets
  <2> HIDE DEF r
  <2>2. /\ Receive("state") /\ UNCHANGED job
        /\ \E ok : /\ Answers("state", r, ok)
                   /\ r.op \in {"auth", "connect"} => ok
    BY <2>1 DEF StateAuth, StateConnect, StateDisconnect, StateUnsubAll, StatePass,
                jobVars
  <2> QED BY <2>1, <2>2, ListenAsks DEF r
<1>4. CASE ListenData
  <2> DEFINE r == Head(queue["data"])
  <2>1. /\ queue["data"] # <<>> /\ "data" \in Sockets
        /\ DataAuth(r) \/ DataConnect(r) \/ DataPass(r) \/ DataUnsub(r)
           \/ DataUnsubAll(r)
    BY <1>4 DEF ListenData, Sockets
  <2> HIDE DEF r
  <2>2. /\ Receive("data") /\ UNCHANGED job
        /\ \/ UNCHANGED busy
           \/ \E ok : /\ Answers("data", r, ok)
                      /\ r.op \in {"auth", "connect"} => ok
    BY <2>1 DEF DataAuth, DataConnect, DataPass, DataUnsub, DataUnsubAll, Panic,
                jobVars
  <2> QED BY <2>1, <2>2, ListenAsks DEF r
<1>5. CASE \E j \in Jobs : Proceed(j)
  BY <1>5, ProceedAsks
<1> QED BY <1>1, <1>2, <1>3, <1>4, <1>5 DEF Next, Work

LEMMA InitAsks == Init => AskInv
<1> SUFFICES ASSUME Init PROVE AskInv
  OBVIOUS
<1>1. \A j \in Jobs : job[j] \notin Job
  BY NotRunning DEF Init
<1>2. \A s \in Sockets : Asked(s) = {}
  <2>1. \A s \in Sockets : Len(queue[s]) = 0 /\ 1..Len(queue[s]) = {}
    BY EmptySeq DEF Init
  <2> QED BY <2>1 DEF Asked
<1>3. \A s \in Sockets, j \in Jobs : ~Replying(s, j)
  BY DEF Init, Replying
<1> QED BY <1>1, <1>2, <1>3 DEF AskInv, Shaped, Matched, AddsSucceed

-----------------------------------------------------------------------------
(* The key of a SUB socket is the one of the peer that is being connected.  *)

Uses(s, p) == s = "state" \/ p \in Publishers

\* No two calls add different peers at the same time.
Paired ==
    \A i, j \in Jobs : i # j => \A p \in Adding(i), q \in Adding(j) : p = q

\* The socket has authenticated the peer of j and not yet connected to it.
Prepared(s, j) ==
    /\ Running(j)
    /\ \/ job[j].op = "auth" /\ j \notin Queued(s)
       \/ job[j].op = "connect" /\ j \in Queued(s)

KeySet ==
    \A s \in Sockets, j \in Jobs :
        Prepared(s, j) /\ Uses(s, job[j].peer) =>
            curve[s] # {} /\ ("adds" \notin seen => curve[s] = {job[j].peer})

KeyInv == KeySet /\ ("adds" \notin seen => Paired)

\* What holds when a circumstance is not noted.
LEMMA NoteKeeps ==
    ASSUME NEW j, NEW k, NEW t, NEW ps
    PROVE  seen \subseteq Note(j, k, t, ps)
BY DEF Note

LEMMA NoteAdds ==
    ASSUME NEW j \in Jobs, NEW k \in {"join", "sub"}, NEW t, NEW ps,
           "adds" \notin Note(j, k, t, ps)
    PROVE  \A i \in Jobs \ {j} : \A p \in ps, q \in Adding(i) : p = q
<1> SUFFICES ASSUME NEW i \in Jobs \ {j}, NEW p \in ps, NEW q \in Adding(i)
             PROVE  p = q
  OBVIOUS
<1>1. Running(i)
  BY DEF Adding
<1> QED BY <1>1 DEF Note

LEMMA NoteClash ==
    ASSUME NEW j \in Jobs, NEW k, NEW t, NEW ps, "clash" \notin Note(j, k, t, ps)
    PROVE  \A i \in Jobs \ {j} : Running(i) =>
               {k, job[i].kind} \cap {"remove", "leave"} = {}
BY DEF Note

LEMMA NoteTwice ==
    ASSUME NEW j \in Jobs, NEW k \in {"join", "sub"}, NEW t, NEW ps,
           "twice" \notin Note(j, k, t, ps)
    PROVE  /\ ps \cap linked[t] = {}
           /\ \A i \in Jobs \ {j} :
                  Running(i) /\ job[i].topic = t => ps \cap Adding(i) = {}
<1>1. ps \cap (linked[t] \cup UNION {Adding(i) : i \in
          {o \in {i \in Jobs \ {j} : Running(i)} : job[o].topic = t}}) = {}
  BY DEF Note
<1> QED BY <1>1

LEMMA NoteShared ==
    ASSUME NEW j, NEW k, k \notin {"join", "sub"}, NEW t, NEW ps,
           "shared" \notin Note(j, k, t, ps)
    PROVE  \A u \in Topics \ {t} : linked[u] \cap ps = {}
BY DEF Note

LEMMA AppendQueued ==
    ASSUME TypeInv, NEW j \in Jobs, NEW op \in Ops, NEW p \in Labels, Ask(j, op, p),
           "connector" \in open, NEW s \in Sockets
    PROVE  Queued(s)' = Queued(s) \cup {j}
<1>1. job[j] \in Job
  BY RunningTyped DEF Ask
<1>2. PICK r \in Request : r.job = j /\ queue' = [u \in Sockets |-> Append(queue[u], r)]
  <2> DEFINE v == [op |-> op, topic |-> job[j].topic, peer |-> p, job |-> j]
  <2>1. v \in Request /\ v.job = j
    BY <1>1 DEF Request, Job
  <2>2. queue' = [u \in Sockets |-> Append(queue[u], v)]
    BY DEF Ask
  <2> HIDE DEF v
  <2> QED BY <2>1, <2>2
<1>3. queue[s] \in Seq(Request) /\ queue'[s] = Append(queue[s], r)
  BY <1>2 DEF TypeInv, TypeOK
<1>4. /\ Len(queue'[s]) = Len(queue[s]) + 1
      /\ Len(queue[s]) \in Nat
      /\ \A i \in 1..Len(queue[s]) : queue'[s][i] = queue[s][i]
      /\ queue'[s][Len(queue[s]) + 1] = r
  BY <1>3, AppendProperties
<1>5. ASSUME NEW x
      PROVE  x \in Queued(s)' <=> x \in Queued(s) \/ x = j
  <2>1. ASSUME NEW i \in 1..Len(queue'[s])
        PROVE  i \in 1..Len(queue[s]) \/ i = Len(queue[s]) + 1
    BY <1>4
  <2>2. /\ Len(queue[s]) + 1 \in 1..Len(queue'[s])
        /\ 1..Len(queue[s]) \subseteq 1..Len(queue'[s])
    BY <1>4
  <2> QED BY <2>1, <2>2, <1>2, <1>4 DEF Queued
<1> QED BY <1>5

\* A call that goes on with its peers.
LEMMA PairedStep ==
    ASSUME Paired, \A i \in Jobs : Adding(i)' \subseteq Adding(i)
    PROVE  Paired'
BY DEF Paired

LEMMA KeySetStep ==
    ASSUME KeySet, UNCHANGED curve, seen \subseteq seen', NEW j \in Jobs,
           \A i \in Jobs \ {j} : job'[i] = job[i],
           \A s \in Sockets, i \in Jobs \ {j} : i \in Queued(s)' <=> i \in Queued(s),
           \A s \in Sockets :
               Prepared(s, j)' => Prepared(s, j) /\ job'[j].peer = job[j].peer
    PROVE  KeySet'
<1> SUFFICES ASSUME NEW s \in Sockets, NEW i \in Jobs, Prepared(s, i)',
                    Uses(s, job'[i].peer)
             PROVE  /\ curve'[s] # {}
                    /\ "adds" \notin seen' => curve'[s] = {job'[i].peer}
  BY DEF KeySet, Uses
<1>1. Prepared(s, i) /\ job'[i].peer = job[i].peer
  BY DEF Prepared, Running
<1> QED BY <1>1 DEF KeySet, Uses

LEMMA ProceedKeys ==
    ASSUME TypeInv, CallInv, AskInv, KeyInv, NEW j \in Jobs, Proceed(j)
    PROVE  KeyInv'
<1>0. job[j] \in Job => Shape(job[j])
  BY DEF AskInv, Shaped
<1>a. ASSUME NEW x \in Jobs, job'[x] = job[x] PROVE Adding(x)' = Adding(x)
  BY <1>a DEF Adding, Running
<1>2. ASSUME NEW g \in SUBSET Peers, ReceiveGroup(j, g) PROVE KeyInv'
  <2>1. /\ job[j] \in Job /\ job[j].pc = "asking"
        /\ Becomes(j, job[j].kind, job[j].topic, g, g, job[j].op, job[j].peer, "ready")
        /\ UNCHANGED <<queue, curve>>
        /\ seen' = Note(j, "join", job[j].topic, g)
        /\ job[j].topic \in Topics
    BY <1>2, ReceiveGroupBecomes DEF ReceiveGroup, loopVars, socketVars, Job
  <2>2. job[j].op = "none"
    BY <2>1, <1>0 DEF Shape
  <2>3. Adding(j)' \subseteq g /\ \A i \in Jobs \ {j} : Adding(i)' = Adding(i)
    BY <2>1, <1>a DEF Becomes, Adding
  <2>4. ASSUME "adds" \notin seen' PROVE Paired'
    <3>1. "adds" \notin Note(j, "join", job[j].topic, g) /\ "adds" \notin seen
      BY <2>1, <2>4, NoteKeeps
    <3>2. Paired /\ \A i \in Jobs \ {j} : \A p \in g, q \in Adding(i) : p = q
      BY <3>1, NoteAdds DEF KeyInv
    <3> QED BY <3>2, <2>3 DEF Paired
  <2>5. seen \subseteq seen'
    BY <2>1, NoteKeeps
  <2>6. KeySet'
    BY <2>1, <2>2, <2>5, KeySetStep DEF Becomes, Queued, Prepared, KeyInv
  <2> QED BY <2>4, <2>6 DEF KeyInv
<1>b. ASSUME NEW k, NEW td, NEW op, NEW p, NEW pc, job[j] \in Job,
             Becomes(j, k, job[j].topic, job[j].peers, td, op, p, pc),
             Running(j), k \in Adders => job[j].kind \in Adders,
             UNCHANGED <<curve, seen>>,
             \A s \in Sockets, i \in Jobs \ {j} : i \in Queued(s)' <=> i \in Queued(s),
             \A s \in Sockets :
                 Prepared(s, j)' => Prepared(s, j) /\ job'[j].peer = job[j].peer
      PROVE  KeyInv'
  <2>1. \A i \in Jobs : Adding(i)' \subseteq Adding(i)
    <3>1. Adding(j)' \subseteq Adding(j)
      BY <1>b DEF Becomes, Adding, Adders
    <3>2. \A i \in Jobs \ {j} : Adding(i)' = Adding(i)
      BY <1>a, <1>b DEF Becomes
    <3> QED BY <3>1, <3>2
  <2> QED BY <2>1, <1>b, PairedStep, KeySetStep DEF KeyInv, Becomes
<1>3. ASSUME Answer(j) PROVE KeyInv'
  <2>1. PICK k \in {"sub", "conn"}, pc \in {"ready", "failed"} :
            /\ job[j] \in Job /\ job[j].pc = "ready"
            /\ job[j].kind = "sub" /\ job[j].op = "auth"
            /\ Becomes(j, k, job[j].topic, job[j].peers, job[j].todo, job[j].op,
                       job[j].peer, pc)
            /\ UNCHANGED <<queue, curve, seen>>
    BY <1>3, AnswerBecomes DEF Answer, loopVars, socketVars
  <2>2. \A s \in Sockets : Queued(s)' = Queued(s)
    BY <2>1 DEF Queued
  <2>3. \A s \in Sockets :
            Prepared(s, j)' => Prepared(s, j) /\ job'[j].peer = job[j].peer
    BY <2>1, <2>2 DEF Becomes, Prepared, Running
  <2> QED BY <2>1, <2>2, <2>3, <1>b DEF Adders, Running
<1>4. ASSUME NEW op \in Ops, NEW p \in Labels, Ask(j, op, p) PROVE KeyInv'
  <2>1. PICK pc \in {"state", "hung"} :
            /\ job[j] \in Job /\ job[j].pc = "ready" /\ NextRequest(j, op, p)
            /\ Becomes(j, job[j].kind, job[j].topic, job[j].peers, job[j].todo,
                       op, p, pc)
            /\ pc = "state" => "connector" \in open
            /\ pc = "hung" => UNCHANGED queue
            /\ UNCHANGED <<curve, seen>>
    BY <1>4, AskBecomes DEF Ask, socketVars
  <2>2. /\ \A s \in Sockets, i \in Jobs \ {j} : i \in Queued(s)' <=> i \in Queued(s)
        /\ pc = "state" => \A s \in Sockets : j \in Queued(s)'
    <3>1. CASE pc = "state"
      BY <3>1, <2>1, <1>4, AppendQueued
    <3>2. CASE pc = "hung"
      BY <3>2, <2>1 DEF Queued
    <3> QED BY <3>1, <3>2
  <2>3. \A s \in Sockets : j \notin Queued(s)
    BY <2>1 DEF CallInv, NoneBetween, Waiting, Failed
  <2>4. ASSUME NEW s \in Sockets, Prepared(s, j)'
        PROVE  Prepared(s, j) /\ job'[j].peer = job[j].peer
    <3>1. pc = "state" /\ job'[j].op = op /\ job'[j].peer = p /\ job'[j].pc = pc
      BY <2>1, <2>4 DEF Becomes, Prepared, Running
    <3>2. op = "connect"
      BY <3>1, <2>2, <2>4 DEF Prepared
    <3>3. job[j].op = "auth" /\ p = job[j].peer
      BY <3>2, <2>1 DEF NextRequest
    <3> QED BY <3>1, <3>3, <2>1, <2>3 DEF Prepared, Running
  <2> QED BY <2>1, <2>2, <2>4, <1>b DEF Running
<1>5. ASSUME ReadState(j) PROVE KeyInv'
  <2>1. PICK pc \in {"data", "failed"} :
        /\ job[j] \in Job /\ job[j].pc = "state"
        /\ Becomes(j, job[j].kind, job[j].topic, job[j].peers, job[j].todo,
                   job[j].op, job[j].peer, pc)
        /\ UNCHANGED <<queue, curve, seen>>
    BY <1>5, ReadStateBecomes DEF ReadState, socketVars
  <2>2. \A s \in Sockets : Queued(s)' = Queued(s)
    BY <2>1 DEF Queued
  <2>3. \A s \in Sockets :
            Prepared(s, j)' => Prepared(s, j) /\ job'[j].peer = job[j].peer
    BY <2>1, <2>2 DEF Becomes, Prepared, Running
  <2> QED BY <2>1, <2>2, <2>3, <1>b DEF Running
<1>6. ASSUME ReadData(j) PROVE KeyInv'
  <2>1. PICK td \in {job[j].todo, job[j].todo \ {job[j].peer}},
             pc \in {"ready", "failed"} :
            /\ job[j] \in Job /\ job[j].pc = "data"
            /\ Becomes(j, job[j].kind, job[j].topic, job[j].peers, td,
                       job[j].op, job[j].peer, pc)
            /\ UNCHANGED <<queue, curve, seen>>
    <3>1. job[j] \in Job /\ job[j].pc = "data" /\ UNCHANGED <<queue, curve, seen>>
      BY <1>6, ReadDataBecomes DEF ReadData, socketVars
    <3> QED BY <3>1, <1>6, ReadDataBecomes
  <2>2. \A s \in Sockets : Queued(s)' = Queued(s)
    BY <2>1 DEF Queued
  <2>3. \A s \in Sockets :
            Prepared(s, j)' => Prepared(s, j) /\ job'[j].peer = job[j].peer
    BY <2>1, <2>2 DEF Becomes, Prepared, Running
  <2> QED BY <2>1, <2>2, <2>3, <1>b DEF Running
<1>7. ASSUME Finish(j) PROVE KeyInv'
  <2>1. /\ job[j] \in Job /\ job[j].pc = "ready"
        /\ \/ Becomes(j, job[j].kind, job[j].topic, job[j].peers, job[j].todo,
                      job[j].op, job[j].peer, "failed")
           \/ Ends(j)
        /\ UNCHANGED <<queue, curve, seen>>
    BY <1>7, FinishBecomes DEF Finish, loopVars
  <2>2. \A s \in Sockets : Queued(s)' = Queued(s)
    BY <2>1 DEF Queued
  <2>3. ~Running(j)'
    BY <2>1 DEF Becomes, Ends, DoneJob, Running
  <2>4. \A i \in Jobs : Adding(i)' \subseteq Adding(i)
    <3>1. Adding(j)' = {}
      BY <2>3 DEF Adding
    <3>2. \A i \in Jobs \ {j} : Adding(i)' = Adding(i)
      BY <1>a, <2>1 DEF Becomes, Ends
    <3> QED BY <3>1, <3>2
  <2>5. \A s \in Sockets : ~Prepared(s, j)'
    BY <2>3 DEF Prepared
  <2> QED BY <2>1, <2>2, <2>4, <2>5, PairedStep, KeySetStep
          DEF KeyInv, Becomes, Ends
<1> QED BY <1>2, <1>3, <1>4, <1>5, <1>6, <1>7 DEF Proceed

LEMMA BeginKeys ==
    ASSUME TypeInv, KeyInv, NEW j \in Jobs, NEW k \in Kinds, NEW t \in Topics,
           NEW ps \in SUBSET Peers, NEW pc \in {"asking", "ready"},
           Begin(j, k, t, ps, pc), UNCHANGED <<queue, curve>>, k # "conn",
           Note(j, k, t, ps) \subseteq seen' \/ (k \notin Adders /\ seen \subseteq seen')
    PROVE  KeyInv'
<1>1. Becomes(j, k, t, ps, ps, "none", Me, pc) /\ job[j] = NoJob
  BY BeginBecomes DEF Steps
<1>2. \A i \in Jobs \ {j} : Adding(i)' = Adding(i)
  BY <1>1 DEF Becomes, Adding, Running
<1>3. Adding(j)' \subseteq ps /\ (k \notin Adders => Adding(j)' = {})
  BY <1>1 DEF Becomes, Adding, Adders
<1>4. seen \subseteq seen'
  BY NoteKeeps
<1>5. ASSUME "adds" \notin seen' PROVE Paired'
  <2>1. "adds" \notin seen /\ (k \in Adders => "adds" \notin Note(j, k, t, ps))
    BY <1>5, <1>4
  <2>2. k \in Adders => k \in {"join", "sub"}
    BY DEF Adders
  <2>3. k \in Adders => \A i \in Jobs \ {j} : \A p \in ps, q \in Adding(i) : p = q
    BY <2>1, <2>2, NoteAdds
  <2> QED BY <1>2, <1>3, <2>1, <2>3 DEF Paired, KeyInv
<1>6. \A s \in Sockets : Queued(s)' = Queued(s) /\ ~Prepared(s, j)'
  BY <1>1 DEF Queued, Prepared, Becomes
<1>7. KeySet'
  BY <1>1, <1>4, <1>6, KeySetStep DEF Becomes, KeyInv
<1> QED BY <1>5, <1>7 DEF KeyInv

LEMMA StutterKeys ==
    ASSUME KeyInv, UNCHANGED <<job, queue, curve>>, seen \subseteq seen'
    PROVE  KeyInv'
BY DEF KeyInv, Paired, KeySet, Adding, Running, Prepared, Queued, Uses

LEMMA EnvironmentKeys ==
    ASSUME TypeInv, KeyInv, Environment
    PROVE  KeyInv'
<1> USE DEF Kinds
<1>1. CASE CloseConnector \/ ClosePublisher
  BY <1>1, StutterKeys DEF CloseConnector, ClosePublisher, jobVars, socketVars
<1>2. ASSUME NEW t \in Topics, Create(t) \/ \E p \in Peers : AddMember(t, p)
      PROVE  KeyInv'
  BY <1>2, StutterKeys DEF Create, AddMember, jobVars, loopVars, socketVars
<1>3. ASSUME NEW t \in Topics, StartJoin(t) \/ StartLeave(t)
      PROVE  KeyInv'
  <2>1. CASE StartJoin(t)
    BY <2>1, BeginKeys DEF StartJoin, loopVars, socketVars
  <2>2. CASE StartLeave(t)
    <3>1. PICK j \in Jobs : /\ Begin(j, "leave", t, {}, "ready")
                           /\ seen \subseteq seen'
                           /\ UNCHANGED <<queue, curve>>
      BY <2>2 DEF StartLeave, loopVars, socketVars, Note
    <3> QED BY <3>1, BeginKeys DEF Adders
  <2> QED BY <1>3, <2>1, <2>2
<1>4. ASSUME NEW t \in Topics, NEW p \in Peers, StartSubscription(t, p)
      PROVE  KeyInv'
  BY <1>4, BeginKeys DEF StartSubscription, loopVars, socketVars
<1>5. ASSUME NEW t \in Topics, NEW p \in Peers, Depart(t, p)
      PROVE  KeyInv'
  <2>1. UNCHANGED <<queue, curve>> /\ seen \subseteq seen'
    BY <1>5 DEF Depart, loopVars, socketVars, Note
  <2>2. UNCHANGED job \/ \E j \in Jobs : Begin(j, "remove", t, {p}, "ready")
    BY <1>5 DEF Depart
  <2> QED BY <2>1, <2>2, BeginKeys, StutterKeys DEF Adders
<1> QED BY <1>1, <1>2, <1>3, <1>4, <1>5 DEF Environment

\* A call that is authenticated or connected adds its peer.
LEMMA AddsPeer ==
    ASSUME AskInv, TypeInv, NEW j \in Jobs, Running(j), job[j].op \in {"auth", "connect"}
    PROVE  job[j].peer \in Adding(j)
<1>1. job[j] \in Job
  BY RunningTyped DEF Running
<1>2. Shape(job[j])
  BY <1>1 DEF AskInv, Shaped
<1> QED BY <1>2 DEF Shape, Adding, Adders

\* Listener s performs r: a request to authenticate sets the key, and one to
\* connect uses it.
LEMMA ListenKeys ==
    ASSUME TypeInv, CallInv, AskInv, KeyInv, KeysMatch,
           NEW s \in Sockets, queue[s] # <<>>, Receive(s), UNCHANGED <<job, seen>>,
           NEW r, r = Head(queue[s]),
           \/ /\ r.op = "auth" /\ Uses(s, r.peer)
              /\ curve' = [curve EXCEPT ![s] = {r.peer}]
           \/ (r.op = "auth" => ~Uses(s, r.peer)) /\ UNCHANGED curve,
           \A u \in Sockets, p \in Peers :
               \/ conn'[u][p] \subseteq conn[u][p]
               \/ /\ r.op = "connect" /\ Uses(s, p) /\ u = s /\ p = r.peer
                  /\ conn'[u][p] = curve[s]
    PROVE  KeyInv' /\ KeysMatch'
<1>0. r.job \in Queued(s) /\ r.job \in Jobs /\ r \in Asked(s)
  BY TakeQueued, TakeAsked
<1>1. \A u \in Sockets :
          Queued(u)' = IF u = s THEN Queued(s) \ {r.job} ELSE Queued(u)
  BY TakeQueued
<1>2. Matches(r)
  BY <1>0 DEF AskInv, Matched
<1>4. KeyInv' /\ KeysMatch'
  <2>1. /\ KeySet /\ ("adds" \notin seen => Paired)
        /\ \A u \in Sockets, p \in Peers : conn[u][p] \subseteq {p} \/ "adds" \in seen
    BY DEF KeyInv, KeysMatch
  <2>2. Paired => Paired'
    BY DEF Paired, Adding, Running
  <2>3. ASSUME NEW u \in Sockets, NEW j \in Jobs, Prepared(u, j)',
               Uses(u, job[j].peer)
        PROVE  curve'[u] # {} /\ ("adds" \notin seen => curve'[u] = {job[j].peer})
    <3>1. CASE u # s
      <4>1. Prepared(u, j) /\ curve'[u] = curve[u]
        BY <2>3, <3>1, <1>1 DEF Prepared, Running, TypeInv, TypeOK
      <4> QED BY <4>1, <2>1, <2>3 DEF KeySet
    <3>2. CASE u = s /\ j = r.job
      <4>1. job[j].op = "auth"
        BY <3>2, <1>1, <2>3 DEF Prepared
      <4>2. r.op = "auth" /\ r.peer = job[j].peer
        BY <4>1, <3>2, <1>2 DEF Matches
      <4>3. curve' = [curve EXCEPT ![s] = {r.peer}]
        BY <4>2, <3>2, <2>3
      <4> QED BY <4>2, <4>3, <3>2 DEF TypeInv, TypeOK
    <3>3. CASE u = s /\ j # r.job
      <4>1. Prepared(u, j)
        BY <2>3, <3>3, <1>1 DEF Prepared, Running
      <4>2. curve[u] # {} /\ ("adds" \notin seen => curve[u] = {job[j].peer})
        BY <4>1, <2>1, <2>3 DEF KeySet
      <4>3. CASE UNCHANGED curve
        BY <4>2, <4>3
      <4>4. CASE r.op = "auth" /\ curve' = [curve EXCEPT ![s] = {r.peer}]
        <5>1. Running(r.job) /\ job[r.job].op = "auth" /\ job[r.job].peer = r.peer
          BY <4>4, <1>2 DEF Matches, Waiting, Running
        <5>2. r.peer \in Adding(r.job)
          BY <5>1, <1>0, AddsPeer
        <5>3. job[j].peer \in Adding(j)
          BY <4>1, AddsPeer DEF Prepared
        <5>4. "adds" \notin seen => r.peer = job[j].peer
          BY <5>2, <5>3, <3>3, <1>0, <2>1 DEF Paired
        <5> QED BY <5>4, <4>4, <3>3 DEF TypeInv, TypeOK
      <4> QED BY <4>3, <4>4
    <3> QED BY <3>1, <3>2, <3>3
  <2>4. KeySet'
    BY <2>3 DEF KeySet, Uses
  <2>5. ASSUME NEW u \in Sockets, NEW p \in Peers, "adds" \notin seen
        PROVE  conn'[u][p] \subseteq {p}
    <3>1. CASE conn'[u][p] \subseteq conn[u][p]
      BY <3>1, <2>1, <2>5
    <3>2. CASE /\ r.op = "connect" /\ Uses(s, p) /\ u = s /\ p = r.peer
               /\ conn'[u][p] = curve[s]
      <4>1. /\ Running(r.job) /\ job[r.job].op = "connect"
            /\ job[r.job].peer = r.peer
        BY <3>2, <1>2 DEF Matches, Waiting, Running
      <4>2. Prepared(s, r.job)
        BY <4>1, <1>0 DEF Prepared
      <4>3. curve[s] = {r.peer}
        BY <4>1, <4>2, <3>2, <1>0, <2>1, <2>5 DEF KeySet
      <4> QED BY <4>3, <3>2
    <3> QED BY <3>1, <3>2
  <2> QED BY <2>1, <2>2, <2>4, <2>5 DEF KeyInv, KeysMatch
<1> QED BY <1>4

LEMMA ConnectedAt ==
    ASSUME TypeOK, NEW s \in Sockets, NEW p \in Peers, NEW u \in Sockets, NEW q \in Peers
    PROVE  Connected(s, p)[u][q] =
               IF u = s /\ q = p /\ conn[u][q] = {} THEN curve[s] ELSE conn[u][q]
BY DEF TypeOK, Connected

LEMMA DisconnectedAt ==
    ASSUME TypeOK, NEW s \in Sockets, NEW ps, NEW u \in Sockets, NEW q \in Peers
    PROVE  Disconnected(s, ps)[u][q] = IF u = s /\ q \in ps THEN {} ELSE conn[u][q]
BY DEF TypeOK, Disconnected

LEMMA SeenKept == [Next]_vars => seen \subseteq seen'
<1> SUFFICES ASSUME [Next]_vars PROVE seen \subseteq seen'
  OBVIOUS
<1>1. CASE UNCHANGED vars
  BY <1>1 DEF vars, jobVars
<1>2. CASE Environment
  <2>1. ASSUME NEW t \in Topics, StartJoin(t) \/ StartLeave(t) PROVE seen \subseteq seen'
    BY <2>1, NoteKeeps DEF StartJoin, StartLeave
  <2>2. ASSUME NEW t \in Topics, NEW p \in Peers, StartSubscription(t, p) \/ Depart(t, p)
        PROVE  seen \subseteq seen'
    BY <2>2, NoteKeeps DEF StartSubscription, Depart
  <2>3. ASSUME NEW t \in Topics, Create(t) \/ \E p \in Peers : AddMember(t, p)
        PROVE  seen \subseteq seen'
    BY <2>3 DEF Create, AddMember, jobVars
  <2>4. CASE CloseConnector \/ ClosePublisher
    BY <2>4 DEF CloseConnector, ClosePublisher, jobVars
  <2> QED BY <1>2, <2>1, <2>2, <2>3, <2>4 DEF Environment
<1>3. CASE ListenState \/ ListenData
  BY <1>3 DEF ListenState, ListenData, StateAuth, StateConnect, StateDisconnect,
     StateUnsubAll, StatePass, DataAuth, DataConnect, DataPass, DataUnsub,
     DataUnsubAll, Panic, jobVars
<1>4. ASSUME NEW j \in Jobs, Proceed(j) PROVE seen \subseteq seen'
  <2>1. ASSUME NEW g \in SUBSET Peers, ReceiveGroup(j, g) PROVE seen \subseteq seen'
    BY <2>1, NoteKeeps DEF ReceiveGroup
  <2>2. CASE \/ Answer(j) \/ ReadState(j) \/ ReadData(j) \/ Finish(j)
             \/ \E op \in Ops, p \in Labels : Ask(j, op, p)
    BY <2>2 DEF Answer, Ask, ReadState, ReadData, Finish
  <2> QED BY <1>4, <2>1, <2>2 DEF Proceed
<1> QED BY <1>1, <1>2, <1>3, <1>4 DEF Next, Work

LEMMA NextKeys ==
    ASSUME TypeInv, CallInv, AskInv, KeyInv, KeysMatch, [Next]_vars
    PROVE  KeyInv' /\ KeysMatch'
<1>0. seen \subseteq seen' /\ TypeOK
  BY SeenKept DEF TypeInv
<1>a. UNCHANGED conn => KeysMatch'
  BY <1>0 DEF KeysMatch
<1>1. CASE UNCHANGED vars
  BY <1>1, <1>a, StutterKeys DEF vars, jobVars, loopVars, socketVars
<1>2. CASE Environment
  <2>1. UNCHANGED conn
    BY <1>2 DEF Environment, Create, StartJoin, StartLeave, StartSubscription,
       AddMember, Depart, CloseConnector, ClosePublisher, socketVars
  <2> QED BY <2>1, <1>2, <1>a, EnvironmentKeys
<1>3. ASSUME NEW j \in Jobs, Proceed(j) PROVE KeyInv' /\ KeysMatch'
  <2>1. UNCHANGED conn
    BY <1>3 DEF Proceed, ReceiveGroup, Answer, Ask, ReadState, ReadData, Finish,
       socketVars
  <2> QED BY <2>1, <1>3, <1>a, ProceedKeys
<1>4. CASE ListenState
  <2>1. PICK r : r = Head(queue["state"])
    OBVIOUS
  <2>2. /\ queue["state"] # <<>> /\ "state" \in Sockets
        /\ StateAuth(r) \/ StateConnect(r) \/ StateDisconnect(r)
           \/ StateUnsubAll(r) \/ StatePass(r)
    BY <1>4, <2>1 DEF ListenState, Sockets
  <2>3. Receive("state") /\ UNCHANGED <<job, seen>>
    BY <2>2 DEF StateAuth, StateConnect, StateDisconnect, StateUnsubAll, StatePass,
                jobVars
  <2>4. \/ /\ r.op = "auth" /\ Uses("state", r.peer)
           /\ curve' = [curve EXCEPT !["state"] = {r.peer}]
        \/ (r.op = "auth" => ~Uses("state", r.peer)) /\ UNCHANGED curve
    BY <2>2 DEF StateAuth, StateConnect, StateDisconnect, StateUnsubAll, StatePass,
                socketVars, Uses
  <2>5. \/ conn' = conn
        \/ \E ps : conn' = Disconnected("state", ps)
        \/ r.op = "connect" /\ conn' = Connected("state", r.peer)
    BY <2>2 DEF StateAuth, StateConnect, StateDisconnect, StateUnsubAll, StatePass,
                socketVars
  <2>6. ASSUME NEW u \in Sockets, NEW p \in Peers
        PROVE  \/ conn'[u][p] \subseteq conn[u][p]
               \/ /\ r.op = "connect" /\ Uses("state", p) /\ u = "state" /\ p = r.peer
                  /\ conn'[u][p] = curve["state"]
    <3>1. CASE conn' = conn
      BY <3>1
    <3>2. CASE \E ps : conn' = Disconnected("state", ps)
      BY <3>2, <2>2, <1>0, DisconnectedAt
    <3>3. CASE r.op = "connect" /\ conn' = Connected("state", r.peer)
      <4>1. r.peer \in Peers
        BY <3>3, <2>1, <2>2, <2>3, ReceiveTyped DEF NamesPeer
      <4> QED BY <4>1, <3>3, <2>2, <1>0, ConnectedAt DEF Uses
    <3> QED BY <3>1, <3>2, <3>3, <2>5
  <2> QED BY <2>1, <2>2, <2>3, <2>4, <2>6, ListenKeys
<1>5. CASE ListenData
  <2>1. PICK r : r = Head(queue["data"])
    OBVIOUS
  <2>2. /\ queue["data"] # <<>> /\ "data" \in Sockets
        /\ DataAuth(r) \/ DataConnect(r) \/ DataPass(r) \/ DataUnsub(r)
           \/ DataUnsubAll(r)
    BY <1>5, <2>1 DEF ListenData, Sockets
  <2>3. Receive("data") /\ UNCHANGED <<job, seen>>
    BY <2>2 DEF DataAuth, DataConnect, DataPass, DataUnsub, DataUnsubAll, Panic,
                jobVars
  <2>4. \/ /\ r.op = "auth" /\ Uses("data", r.peer)
           /\ curve' = [curve EXCEPT !["data"] = {r.peer}]
        \/ (r.op = "auth" => ~Uses("data", r.peer)) /\ UNCHANGED curve
    <3>1. CASE DataAuth(r)
      <4>1. CASE r.peer \in Publishers
        BY <3>1, <4>1 DEF DataAuth, Uses
      <4>2. CASE r.peer \notin Publishers
        BY <3>1, <4>2, <1>0 DEF DataAuth, Uses, TypeOK
      <4> QED BY <4>1, <4>2
    <3>2. CASE ~DataAuth(r)
      BY <2>2, <3>2 DEF DataConnect, DataPass, DataUnsub, DataUnsubAll, Panic,
                        socketVars
    <3> QED BY <3>1, <3>2
  <2>5. \/ conn' = conn
        \/ \E ps : conn' = Disconnected("data", ps)
        \/ r.op = "connect" /\ r.peer \in Publishers /\ conn' = Connected("data", r.peer)
    BY <2>2 DEF DataAuth, DataConnect, DataPass, DataUnsub, DataUnsubAll, Panic,
                socketVars
  <2>6. ASSUME NEW u \in Sockets, NEW p \in Peers
        PROVE  \/ conn'[u][p] \subseteq conn[u][p]
               \/ /\ r.op = "connect" /\ Uses("data", p) /\ u = "data" /\ p = r.peer
                  /\ conn'[u][p] = curve["data"]
    <3>1. CASE conn' = conn
      BY <3>1
    <3>2. CASE \E ps : conn' = Disconnected("data", ps)
      BY <3>2, <2>2, <1>0, DisconnectedAt
    <3>3. CASE /\ r.op = "connect" /\ r.peer \in Publishers
               /\ conn' = Connected("data", r.peer)
      <4>1. r.peer \in Peers
        BY <3>3, <2>1, <2>2, <2>3, ReceiveTyped DEF NamesPeer
      <4> QED BY <4>1, <3>3, <2>2, <1>0, ConnectedAt DEF Uses
    <3> QED BY <3>1, <3>2, <3>3, <2>5
  <2> QED BY <2>1, <2>2, <2>3, <2>4, <2>6, ListenKeys
<1> QED BY <1>1, <1>2, <1>3, <1>4, <1>5 DEF Next, Work

LEMMA InitKeys == Init => KeyInv /\ KeysMatch
<1> SUFFICES ASSUME Init PROVE KeyInv /\ KeysMatch
  OBVIOUS
<1>1. \A j \in Jobs : ~Running(j)
  BY DEF Init, NoJob, Running
<1> QED BY <1>1 DEF Init, KeyInv, Paired, KeySet, Prepared, Adding, KeysMatch

\* What a goroutine asks and what the listeners hold of it, at any time.
LEMMA CallInvAlways == Spec => [](TypeInv /\ CallInv /\ AskInv)
<1>1. TypeInv /\ CallInv /\ [Next]_vars => CallInv'
  <2> SUFFICES ASSUME TypeInv, CallInv, [Next]_vars PROVE CallInv'
    OBVIOUS
  <2> QED BY StutterCalls, EnvironmentCalls, ListenCalls, ProceedCalls
          DEF Next, Work, vars, jobVars, loopVars
<1> QED BY <1>1, InitTypeInv, NextTypeInv, InitCalls, InitAsks, NextAsks, PTL DEF Spec

\* A SUB socket connects to a peer under the key of that peer unless several
\* peers were being added at once (auth.go setPeerStateAuthn, setPeerDataAuthn
\* and zmq.go connectState, connectData): between the authentication of a peer
\* and its connection nobody else sets the key, whichever listener is behind.
THEOREM KeysMatchAlways == Spec => []KeysMatch
<1>1. TypeInv /\ CallInv /\ AskInv /\ KeyInv /\ KeysMatch /\ [Next]_vars
          => KeyInv' /\ KeysMatch'
  BY NextKeys
<1> QED BY <1>1, InitKeys, CallInvAlways, PTL DEF Spec

=============================================================================
