------------------------------ MODULE Transport ------------------------------
(***************************************************************************)
(* The ZeroMQ transport of one group agent (pubsub/transport/zmq.go,       *)
(* auth.go) with several topics and peers, and the goroutines of agent.go  *)
(* and processor.go that send it requests.  A request goes through the     *)
(* connector to the two listeners, each of which owns one SUB socket, and  *)
(* the goroutine reads the two replies one after the other from unbuffered *)
(* channels.                                                               *)
(*                                                                         *)
(* Abstractions.  Peers are the environment: they subscribe, announce      *)
(* themselves and depart.  A curve key is the peer it belongs to, a state  *)
(* or data topic its group and, with a queue per subscriber, its           *)
(* publisher.  Members are kept without their records.                     *)
(***************************************************************************)
EXTENDS Naturals, Sequences, FiniteSets

CONSTANTS
    Me,           \* label of the agent
    Peers,        \* labels of the other agents
    Topics,       \* groups
    Publishers,   \* peers that are publishers
    SingleQueue,  \* topics with one data queue for all
    MayClose,     \* whether the agent may be closed
    MaxJobs       \* bound: goroutines that use the transport

ASSUME ConstantsAssumption ==
    /\ Me \notin Peers
    /\ IsFiniteSet(Peers)
    /\ Publishers \subseteq Peers
    /\ SingleQueue \subseteq Topics
    /\ MayClose \in BOOLEAN
    /\ MaxJobs \in Nat

VARIABLES
    \* pubsub/stores: Group.groups
    entry, params, members,
    \* goroutines: handlers and commands that send requests
    job,      \* what each one does and how far it is
    \* zmq.go
    queue,    \* requests published to a listener and not received by it
    busy,     \* the reply a listener is writing to a channel, if any
    conn,     \* per SUB socket and peer: the key it connected under, if it did
    refs,     \* per state topic: subscriptions of the state socket
    dataRefs, \* per data topic: subscriptions of the data socket
    curve,    \* per SUB socket: the server key set last, if any
    keys,     \* auth.go keys: peers whose client key is accepted
    open,     \* sockets of the connector and of the publisher not closed
    up,       \* FALSE once the process has panicked
    \* the environment and history
    linked,   \* peers connected for a topic that have not departed from it
    seen      \* circumstances met: see Note, Depart and StartLeave

storeVars == <<entry, params, members>>
jobVars == <<job, linked, seen>>
socketVars == <<conn, refs, dataRefs, curve, keys>>
loopVars == <<queue, busy, open, up>>
vars == <<storeVars, jobVars, socketVars, loopVars>>

-----------------------------------------------------------------------------
(* Types. *)

Jobs == 1..MaxJobs
Sockets == {"state", "data"}
Kinds == {"join", "sub", "conn", "remove", "leave"}
Ops == {"none", "auth", "connect", "disconnect", "unsubData", "unsubAll"}
Steps == {"asking", "ready", "state", "data", "hung", "failed"}
Labels == Peers \cup {Me}

Job == [kind : Kinds, topic : Topics, peers : SUBSET Peers,
        todo : SUBSET Peers, op : Ops, peer : Labels, pc : Steps]
NoJob == [pc |-> "free"]
DoneJob == [pc |-> "done"]
Request == [op : Ops, topic : Topics, peer : Labels, job : Jobs]
Reply == [job : Jobs, ok : BOOLEAN]
Idle == [idle |-> TRUE]

TypeOK ==
    /\ entry \in [Topics -> BOOLEAN]
    /\ params \in [Topics -> BOOLEAN]
    /\ members \in [Topics -> SUBSET Labels]
    /\ job \in [Jobs -> Job \cup {NoJob, DoneJob}]
    /\ queue \in [Sockets -> Seq(Request)]
    /\ busy \in [Sockets -> Reply \cup {Idle}]
    /\ conn \in [Sockets -> [Peers -> SUBSET Peers]]
    /\ refs \in [Topics -> Nat]
    /\ dataRefs \in [Topics -> [Labels -> Nat]]
    /\ curve \in [Sockets -> SUBSET Peers]
    /\ keys \subseteq Peers
    /\ open \subseteq {"connector", "publisher"}
    /\ up \in BOOLEAN
    /\ linked \in [Topics -> SUBSET Peers]
    /\ seen \subseteq {"clash", "twice", "shared", "adds", "early", "missed"}

Init ==
    /\ entry = [t \in Topics |-> FALSE]
    /\ params = [t \in Topics |-> FALSE]
    /\ members = [t \in Topics |-> {}]
    /\ job = [j \in Jobs |-> NoJob]
    /\ queue = [s \in Sockets |-> <<>>]
    /\ busy = [s \in Sockets |-> Idle]
    /\ conn = [s \in Sockets |-> [p \in Peers |-> {}]]
    /\ refs = [t \in Topics |-> 0]
    /\ dataRefs = [t \in Topics |-> [l \in Labels |-> 0]]
    /\ curve = [s \in Sockets |-> {}]
    /\ keys = {}
    /\ open = {"connector", "publisher"}
    /\ up = TRUE
    /\ linked = [t \in Topics |-> {}]
    /\ seen = {}

-----------------------------------------------------------------------------
(* Goroutines.  What one does is a sequence of requests.  Joining: for each *)
(* member of the group received, authentication and connection.  Serving a *)
(* subscription: authentication, then ("conn") the connection once the     *)
(* reply is sent.  Handling an inactive status: disconnection, and for a   *)
(* publisher the end of its data subscription.  Leaving: the end of all    *)
(* subscriptions of the topic.                                             *)

Running(j) == job[j].pc \in {"asking", "ready", "state", "data"}

\* Peers a running goroutine is adding.
Adding(j) ==
    IF Running(j) /\ job[j].kind \in {"join", "sub", "conn"}
    THEN job[j].peers ELSE {}

\* Circumstances a goroutine that starts to work on peers of t meets.
\*   clash:  one that removes or leaves runs beside another one
\*   twice:  a peer is added to a topic for which it is linked or being added
\*   adds:   different peers are being added at the same time
\*   shared: a peer it disconnects is linked for another topic
Note(j, kind, t, peers) ==
    LET others == {i \in Jobs \ {j} : Running(i)}
        adds == kind \in {"join", "sub"}
    IN seen
        \cup {c \in {"clash"} : \E i \in others :
                  {kind, job[i].kind} \cap {"remove", "leave"} # {}}
        \cup {c \in {"twice"} : adds /\ peers \cap (linked[t] \cup
                  UNION {Adding(i) : i \in {o \in others : job[o].topic = t}}) # {}}
        \cup {c \in {"adds"} : adds /\ \E i \in others, p \in peers :
                  Adding(i) \ {p} # {}}
        \cup {c \in {"shared"} : ~adds /\ \E u \in Topics \ {t} :
                  linked[u] \cap peers # {}}

Begin(j, kind, t, peers, pc) ==
    /\ job[j] = NoJob /\ \A i \in Jobs : i < j => job[i] # NoJob
    /\ job' = [job EXCEPT ![j] =
          [kind |-> kind, topic |-> t, peers |-> peers, todo |-> peers,
           op |-> "none", peer |-> Me, pc |-> pc]]

\* agent.go Create: SetParams, AddMembrs.
Create(t) ==
    /\ up /\ ~entry[t]
    /\ entry' = [entry EXCEPT ![t] = TRUE]
    /\ params' = [params EXCEPT ![t] = TRUE]
    /\ members' = [members EXCEPT ![t] = @ \cup {Me}]
    /\ UNCHANGED <<jobVars, socketVars, loopVars>>

\* agent.go Join up to the request for the group state.  The check of the
\* store and the entry it makes are far apart: the mocker can start a second
\* join of the topic in between.
StartJoin(t) ==
    /\ up /\ ~entry[t]
    /\ \E j \in Jobs : /\ Begin(j, "join", t, {}, "asking")
                     /\ seen' = Note(j, "join", t, {})
    /\ UNCHANGED <<storeVars, linked, socketVars, loopVars>>

ReceiveGroup_NoParams(j, group) ==                                \* mutant
    /\ up /\ job[j].pc = "asking"
    /\ entry' = [entry EXCEPT ![job[j].topic] = TRUE]
    /\ job' = [job EXCEPT ![j].peers = group, ![j].todo = group,
                          ![j].pc = "ready"]
    /\ seen' = Note(j, "join", job[j].topic, group)
    /\ UNCHANGED <<params, members, linked, socketVars, loopVars>>

\* agent.go Join: the group is received, and the members have answered the
\* subscribe requests.
ReceiveGroup(j, group) ==
    /\ up /\ job[j].pc = "asking"
    /\ entry' = [entry EXCEPT ![job[j].topic] = TRUE]
    /\ params' = [params EXCEPT ![job[j].topic] = TRUE]
    /\ job' = [job EXCEPT ![j].peers = group, ![j].todo = group,
                          ![j].pc = "ready"]
    /\ seen' = Note(j, "join", job[j].topic, group)
    /\ UNCHANGED <<members, linked, socketVars, loopVars>>

\* processor.go subscriptions.  The server waits for the reply, so that one
\* subscription at a time has not been answered; a failed one stops it.
\* Peers ask a member (GroupAgent has what happens otherwise).
StartSubscription(t, p) ==
    /\ up /\ Me \in members[t] /\ p \notin linked[t]
    /\ \A j \in Jobs : job[j] \in Job => job[j].kind # "sub"
    /\ \A j \in Jobs : Running(j) /\ job[j].topic = t => p \notin Adding(j)
    /\ \E j \in Jobs : /\ Begin(j, "sub", t, {p}, "ready")
                     /\ seen' = Note(j, "sub", t, {p})
    /\ UNCHANGED <<storeVars, linked, socketVars, loopVars>>

\* processor.go sendSubscribeRes: the membership check and the reply.
Answer(j) ==
    /\ up /\ job[j].pc = "ready" /\ job[j].kind = "sub" /\ job[j].op = "auth"
    /\ job' = IF Me \in members[job[j].topic]
              THEN [job EXCEPT ![j].kind = "conn"]
              ELSE [job EXCEPT ![j].pc = "failed"]
    /\ UNCHANGED <<storeVars, linked, seen, socketVars, loopVars>>

\* A status of p for the topic reaches the state socket.
Receives(t, p) == p \in linked[t] /\ conn["state"][p] = {p} /\ refs[t] > 0

\* processor.go state, active: AddMembrs.
AddMember(t, p) ==
    /\ up /\ Receives(t, p) /\ p \notin members[t]
    /\ entry' = [entry EXCEPT ![t] = TRUE]
    /\ members' = [members EXCEPT ![t] = @ \cup {p}]
    /\ UNCHANGED <<params, jobVars, socketVars, loopVars>>

\* A peer leaves; processor.go removeMember runs when its status arrives.  It
\* is missed when the socket is connected to the peer under another's key.
Depart(t, p) ==
    /\ up /\ p \in linked[t]
    /\ linked' = [linked EXCEPT ![t] = @ \ {p}]
    /\ \/ /\ ~Receives(t, p)
          /\ seen' = seen \cup {c \in {"missed"} : conn["state"][p] \ {p} # {}}
          /\ UNCHANGED job
       \/ /\ Receives(t, p)
          /\ \E j \in Jobs : /\ Begin(j, "remove", t, {p}, "ready")
                           /\ seen' = Note(j, "remove", t, {p})
    /\ UNCHANGED <<storeVars, socketVars, loopVars>>

\* agent.go Leave; without an entry and a subscription nothing changes.  It
\* is early when a peer that has subscribed is not a member yet.
StartLeave(t) ==
    /\ up /\ (entry[t] \/ refs[t] > 0)
    /\ \E j \in Jobs :
        /\ Begin(j, "leave", t, {}, "ready")
        /\ seen' = Note(j, "leave", t, members[t] \cup linked[t]) \cup
               {c \in {"early"} : ~(linked[t] \subseteq members[t])}
    /\ UNCHANGED <<storeVars, linked, socketVars, loopVars>>

-----------------------------------------------------------------------------
(* Requests: agent.go and processor.go sendAuth, sendConnect, sendSubscribe *)
(* and the connector, which publishes to both listeners.                   *)

\* The requests a goroutine sends next.
NextRequest(j, op, p) ==
    LET k == job[j].kind
        last == job[j].op
    IN \/ /\ k \in {"join", "sub"} /\ last \in {"none", "connect"}
          /\ op = "auth" /\ p \in job[j].todo
       \/ /\ k \in {"join", "conn"} /\ last = "auth"
          /\ op = "connect" /\ p = job[j].peer
       \/ /\ k = "remove" /\ last = "none"
          /\ op = "disconnect" /\ p \in job[j].peers
       \/ /\ k = "remove" /\ last = "disconnect"
          /\ op = "unsubData" /\ p = job[j].peer /\ p \in Publishers
       \/ /\ k = "leave" /\ last = "none" /\ op = "unsubAll" /\ p = Me

\* A closed connector logs the failure and publishes nothing.
Ask(j, op, p) ==
    LET r == [op |-> op, topic |-> job[j].topic, peer |-> p, job |-> j]
    IN
    /\ up /\ job[j].pc = "ready" /\ NextRequest(j, op, p)
    /\ IF "connector" \in open
       THEN /\ queue' = [s \in Sockets |-> Append(queue[s], r)]
            /\ job' = [job EXCEPT ![j].op = op, ![j].peer = p,
                                  ![j].pc = "state"]
       ELSE /\ job' = [job EXCEPT ![j].op = op, ![j].peer = p,
                                  ![j].pc = "hung"]
            /\ UNCHANGED queue
    /\ UNCHANGED <<storeVars, linked, seen, socketVars, busy, open, up>>

ReadState_Only(j) ==                                              \* mutant
    /\ up /\ job[j].pc = "state"
    /\ busy["state"] # Idle /\ busy["state"].job = j
    /\ busy' = [busy EXCEPT !["state"] = Idle]
    /\ job' = [job EXCEPT ![j].pc =
                  IF ~busy["state"].ok THEN "failed"
                  ELSE IF job[j].op = "auth" THEN "ready" ELSE "data"]
    /\ UNCHANGED <<storeVars, linked, seen, socketVars, queue, open, up>>

\* The replies are read in turn: an error of the state listener returns
\* without the reply of the data listener.
ReadState(j) ==
    /\ up /\ job[j].pc = "state"
    /\ busy["state"] # Idle /\ busy["state"].job = j
    /\ busy' = [busy EXCEPT !["state"] = Idle]
    /\ job' = [job EXCEPT ![j].pc =
                  IF busy["state"].ok THEN "data" ELSE "failed"]
    /\ UNCHANGED <<storeVars, linked, seen, socketVars, queue, open, up>>

ReadData(j) ==
    LET ok == busy["data"].ok
        joins == ok /\ job[j].op = "connect"
    IN
    /\ up /\ job[j].pc = "data"
    /\ busy["data"] # Idle /\ busy["data"].job = j
    /\ busy' = [busy EXCEPT !["data"] = Idle]
    /\ job' = [job EXCEPT ![j].pc = IF ok THEN "ready" ELSE "failed",
                          ![j].todo = IF joins THEN @ \ {job[j].peer} ELSE @]
    /\ linked' = [linked EXCEPT ![job[j].topic] =
                     IF joins THEN @ \cup {job[j].peer} ELSE @]
    /\ UNCHANGED <<storeVars, seen, socketVars, queue, open, up>>

\* What follows the last request.  Join: AddMembrs of the group and itself.
\* removeMember: DeleteMembr and RemvKeys.  Leave: the status is published,
\* and the topic deleted; a group without members ends it before that.
Finish(j) ==
    LET t == job[j].topic
        k == job[j].kind
        leaves == k = "leave" /\ members[t] # {} /\ "publisher" \in open
    IN
    /\ up /\ job[j].pc = "ready" /\ k # "sub"
    /\ \A op \in Ops, p \in Labels : ~NextRequest(j, op, p)
    /\ job' = IF k = "leave" /\ members[t] # {} /\ ~leaves
              THEN [job EXCEPT ![j].pc = "failed"]
              ELSE [job EXCEPT ![j] = DoneJob]
    /\ entry' = [entry EXCEPT ![t] = (@ \/ k = "join") /\ ~leaves]
    /\ params' = [params EXCEPT ![t] = @ /\ ~leaves]
    /\ members' = [members EXCEPT ![t] =
          IF leaves THEN {}
          ELSE IF k = "join" THEN @ \cup job[j].peers \cup {Me}
          ELSE IF k = "remove" THEN @ \ job[j].peers ELSE @]
    /\ keys' = IF k = "remove" THEN keys \ job[j].peers ELSE keys
    /\ linked' = [linked EXCEPT ![t] = IF leaves THEN @ \ members[t] ELSE @]
    /\ UNCHANGED <<seen, conn, refs, dataRefs, curve, loopVars>>

-----------------------------------------------------------------------------
(* The listeners: each receives one request, performs it on its socket and *)
(* then waits until its reply is read.                                     *)

\* Listener s takes its next request.
Receive(s) ==
    /\ up /\ busy[s] = Idle
    /\ queue' = [queue EXCEPT ![s] = Tail(@)]

Answers(s, r, ok) == busy' = [busy EXCEPT ![s] = [job |-> r.job, ok |-> ok]]

TopicExists_One(t) == Cardinality(members[t]) >= 1                \* mutant

\* zmq.go topicExists: with a second member the filter is taken as set.
TopicExists(t) == Cardinality(members[t]) >= 2

Minus_Below(n, k) == n - k                                        \* mutant

Minus(n, k) == IF n > k THEN n - k ELSE 0

\* Connecting twice to an endpoint changes nothing.
Connected(s, p) == [conn EXCEPT ![s][p] = IF @ = {} THEN curve[s] ELSE @]

Disconnected(s, peers) ==
    [conn EXCEPT ![s] = [p \in Peers |-> IF p \in peers THEN {} ELSE @[p]]]

On(s, peers) == {p \in peers : conn[s][p] # {}}

StateAuth_Once(r) ==                                              \* mutant
    /\ r.op = "auth" /\ Receive("state")
    /\ curve' = [curve EXCEPT !["state"] = IF @ = {} THEN {r.peer} ELSE @]
    /\ keys' = keys \cup {r.peer}
    /\ Answers("state", r, TRUE)
    /\ UNCHANGED <<storeVars, jobVars, conn, refs, dataRefs, open, up>>

\* auth.go setPeerStateAuthn.
StateAuth(r) ==
    /\ r.op = "auth" /\ Receive("state")
    /\ curve' = [curve EXCEPT !["state"] = {r.peer}]
    /\ keys' = keys \cup {r.peer}
    /\ Answers("state", r, TRUE)
    /\ UNCHANGED <<storeVars, jobVars, conn, refs, dataRefs, open, up>>

\* zmq.go connectState, subscribeStatus.
StateConnect(r) ==
    /\ r.op = "connect" /\ Receive("state")
    /\ conn' = Connected("state", r.peer)
    /\ refs' = [refs EXCEPT ![r.topic] =
                   IF TopicExists(r.topic) THEN @ ELSE @ + 1]
    /\ Answers("state", r, TRUE)
    /\ UNCHANGED <<storeVars, jobVars, dataRefs, curve, keys, open, up>>

\* zmq.go disconnectStatus: an endpoint that is not connected is an error.
StateDisconnect(r) ==
    /\ r.op = "disconnect" /\ Receive("state")
    /\ conn' = Disconnected("state", {r.peer})
    /\ Answers("state", r, conn["state"][r.peer] # {})
    /\ UNCHANGED <<storeVars, jobVars, refs, dataRefs, curve, keys, open, up>>

\* zmq.go unsubscribeState: the members' endpoints are disconnected in the
\* random order of a map, up to the first one that is not connected.
StateUnsubAll(r) ==
    LET peers == members[r.topic] \ {Me}
        on == On("state", peers)
    IN
    /\ r.op = "unsubAll" /\ Receive("state")
    /\ refs' = [refs EXCEPT ![r.topic] = Minus(@, 1)]
    /\ \E gone \in SUBSET on :
        /\ on = peers => gone = peers
        /\ conn' = Disconnected("state", gone)
    /\ Answers("state", r, on = peers)
    /\ UNCHANGED <<storeVars, jobVars, dataRefs, curve, keys, open, up>>

\* A request about data only.
StatePass(r) ==
    /\ r.op = "unsubData" /\ Receive("state")
    /\ Answers("state", r, TRUE)
    /\ UNCHANGED <<storeVars, jobVars, socketVars, open, up>>

\* zmq.go DataTopic, by what it depends on.
DataTopic(t, p) == IF t \in SingleQueue THEN Me ELSE p

\* One subscription less for each of the publishers.
Unsubscribed(t, peers) ==
    [dataRefs EXCEPT ![t] = [l \in Labels |->
        Minus(@[l], Cardinality({p \in peers : DataTopic(t, p) = l}))]]

\* DataTopic asks for the group's mode: without params that is a nil
\* dereference.
ModePanics(t) == ~params[t]

Panic == /\ up' = FALSE
         /\ UNCHANGED <<storeVars, jobVars, socketVars, busy, open>>

DataAuth_Silent(r) ==                                             \* mutant
    /\ r.op = "auth" /\ Receive("data")
    /\ curve' = [curve EXCEPT !["data"] =
                    IF r.peer \in Publishers THEN {r.peer} ELSE @]
    /\ IF r.peer \in Publishers THEN Answers("data", r, TRUE)
       ELSE UNCHANGED busy
    /\ UNCHANGED <<storeVars, jobVars, conn, refs, dataRefs, keys, open, up>>

\* auth.go setPeerDataAuthn, when the peer is a publisher.
DataAuth(r) ==
    /\ r.op = "auth" /\ Receive("data")
    /\ curve' = [curve EXCEPT !["data"] =
                    IF r.peer \in Publishers THEN {r.peer} ELSE @]
    /\ Answers("data", r, TRUE)
    /\ UNCHANGED <<storeVars, jobVars, conn, refs, dataRefs, keys, open, up>>

\* zmq.go connectData, subscribeData.
DataConnect(r) ==
    LET publisher == r.peer \in Publishers
        dt == DataTopic(r.topic, r.peer)
    IN
    /\ r.op = "connect" /\ Receive("data")
    /\ IF publisher /\ ModePanics(r.topic)
       THEN Panic
       ELSE /\ conn' = IF publisher THEN Connected("data", r.peer) ELSE conn
            /\ dataRefs' = [dataRefs EXCEPT ![r.topic][dt] =
                               IF publisher THEN @ + 1 ELSE @]
            /\ Answers("data", r, TRUE)
            /\ UNCHANGED <<storeVars, jobVars, refs, curve, keys, open, up>>

\* A request to disconnect is about states only.
DataPass(r) ==
    /\ r.op = "disconnect" /\ Receive("data")
    /\ Answers("data", r, TRUE)
    /\ UNCHANGED <<storeVars, jobVars, socketVars, open, up>>

\* zmq.go unsubscribeData, asked for a publisher only.
DataUnsub(r) ==
    /\ r.op = "unsubData" /\ Receive("data")
    /\ IF ModePanics(r.topic)
       THEN Panic
       ELSE /\ dataRefs' = Unsubscribed(r.topic, {r.peer})
            /\ conn' = Disconnected("data", {r.peer})
            /\ Answers("data", r, conn["data"][r.peer] # {})
            /\ UNCHANGED <<storeVars, jobVars, refs, curve, keys, open, up>>

\* zmq.go unsubscribeAllData: each publisher is unsubscribed and then
\* disconnected, up to the first one that is not connected.
DataUnsubAll(r) ==
    LET peers == (members[r.topic] \ {Me}) \cap Publishers
        on == On("data", peers)
    IN
    /\ r.op = "unsubAll" /\ Receive("data")
    /\ IF peers # {} /\ ModePanics(r.topic)
       THEN Panic
       ELSE /\ \/ /\ on = peers
                  /\ conn' = Disconnected("data", peers)
                  /\ dataRefs' = Unsubscribed(r.topic, peers)
               \/ \E gone \in SUBSET on, p \in peers \ on :
                  /\ conn' = Disconnected("data", gone)
                  /\ dataRefs' = Unsubscribed(r.topic, gone \cup {p})
            /\ Answers("data", r, on = peers)
            /\ UNCHANGED <<storeVars, jobVars, refs, curve, keys, open, up>>

-----------------------------------------------------------------------------
(* Close: the connector, then the publisher.  What the connector publishes *)
(* has no second frame, so the listeners log it and go on.                 *)

CloseConnector ==
    /\ MayClose /\ up /\ "connector" \in open
    /\ open' = open \ {"connector"}
    /\ UNCHANGED <<storeVars, jobVars, socketVars, queue, busy, up>>

ClosePublisher ==
    /\ up /\ open = {"publisher"}
    /\ open' = {}
    /\ UNCHANGED <<storeVars, jobVars, socketVars, queue, busy, up>>

-----------------------------------------------------------------------------

\* What users and peers decide.
Environment ==
    \/ \E t \in Topics :
        \/ Create(t) \/ StartJoin(t) \/ StartLeave(t)
        \/ \E p \in Peers :
            StartSubscription(t, p) \/ AddMember(t, p) \/ Depart(t, p)
    \/ CloseConnector \/ ClosePublisher

Proceed(j) ==
    \/ \E group \in SUBSET Peers : group # {} /\ ReceiveGroup(j, group)
    \/ Answer(j)
    \/ \E op \in Ops, p \in Labels : Ask(j, op, p)
    \/ ReadState(j) \/ ReadData(j) \/ Finish(j)

ListenState ==
    /\ queue["state"] # <<>>
    /\ LET r == Head(queue["state"])
       IN \/ StateAuth(r) \/ StateConnect(r) \/ StateDisconnect(r)
          \/ StateUnsubAll(r) \/ StatePass(r)

ListenData ==
    /\ queue["data"] # <<>>
    /\ LET r == Head(queue["data"])
       IN \/ DataAuth(r) \/ DataConnect(r) \/ DataPass(r) \/ DataUnsub(r)
          \/ DataUnsubAll(r)

Work == ListenState \/ ListenData \/ \E j \in Jobs : Proceed(j)

Next == Environment \/ Work

Spec == Init /\ [][Next]_vars

\* The goroutines of a live process run.  Each step of Work is taken a bounded
\* number of times, so fairness of Work is fairness of each listener and job.
FairSpec == Spec /\ WF_vars(Work)

-----------------------------------------------------------------------------
(* Properties. *)

Failed == {j \in Jobs : job[j].pc = "failed"}
Abandoned == \E s \in Sockets : busy[s] # Idle /\ busy[s].job \in Failed

\* Requests fail, replies are abandoned (processor.go sendConnect and
\* sendSubscribe) and the process panics (group.go Mode) only once a Leave or
\* the removal of a member overlapped another call, a peer was added twice or
\* for two topics, a Leave came between a subscription and the status that
\* follows it, or a peer left whose statuses did not arrive; or after Close.
OnlyClashesFail ==
    ~up \/ Abandoned \/ Failed # {} =>
        \/ {"clash", "twice", "shared", "early", "missed"} \cap seen # {}
        \/ "publisher" \notin open

\* A SUB socket connects to a peer under the key of that peer, unless several
\* peers were being added at once: sendAuth and sendConnect are two requests,
\* and the key set last counts (auth.go ClientAuthCurve).
KeysMatch ==
    \A s \in Sockets, p \in Peers : conn[s][p] \subseteq {p} \/ "adds" \in seen

Quiet == \A j \in Jobs : ~Running(j) /\ job[j].pc # "hung"

\* When no call is running, and nothing clashed, the sockets are connected to
\* the peers that are linked, and to no others; the data socket subscribes for
\* each linked publisher, once; the state socket's filter is set for them; and
\* their client keys are accepted.
SocketsFollow ==
    LET users(p) == {t \in Topics : p \in linked[t]}
        count(t, l) == Cardinality({p \in linked[t] \cap Publishers :
                                        DataTopic(t, p) = l})
    IN
    /\ up /\ "publisher" \in open /\ Quiet
    /\ seen = {}
    =>
        /\ \A p \in Peers :
            /\ conn["state"][p] # {} <=> users(p) # {}
            /\ conn["data"][p] # {} <=> users(p) # {} /\ p \in Publishers
            /\ users(p) # {} => p \in keys
        /\ \A t \in Topics :
            /\ linked[t] # {} => refs[t] > 0
            /\ \A l \in Labels : dataRefs[t][l] = count(t, l)

\* A request the connector has published is answered by both listeners, or its
\* goroutine gives up, also after Close; unless a reply was abandoned before.
RequestsReturn ==
    \A j \in Jobs :
        job[j].pc \in {"state", "data"}
            ~> job[j].pc \notin {"state", "data"} \/ Abandoned \/ ~up

\* What callers may rely on (Requests): a request that returns without error
\* has been performed by both listeners.
Calls == INSTANCE Requests WITH
    Callers <- Jobs,
    Servers <- Sockets,
    waiting <- {j \in Jobs : job[j].pc \in {"state", "data"}},
    pending <- [s \in Sockets |-> {queue[s][i].job : i \in 1..Len(queue[s])}],
    gone <- Failed

ServesCalls == Calls!Spec

=============================================================================
