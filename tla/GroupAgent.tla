----------------------------- MODULE GroupAgent -----------------------------
(***************************************************************************)
(* The publish-subscribe group protocol of pubsub/agent.go and             *)
(* pubsub/processor.go for ONE topic: creating, joining and leaving a      *)
(* group, with the membership view each agent keeps (pubsub/stores), the   *)
(* request-reply server that answers it (reqrep/zmq/server.go) and the     *)
(* ZeroMQ subscriptions over which statuses travel                         *)
(* (pubsub/transport/zmq.go).                                              *)
(*                                                                         *)
(* Abstractions.  Every pair of agents has an established DIDComm          *)
(* connection, so packing and unpacking always succeed and are left out.   *)
(* Commands of one agent run one at a time, as the CLI issues them.  A     *)
(* member record is the number of the Create or Join call that made it:    *)
(* every call makes a new invitation with a new id, so two records of one  *)
(* agent differ exactly when they come from different calls.  A checksum   *)
(* is the view it is computed over.  The data socket is followed only as   *)
(* far as it makes an internal request of the agent hang (wedged).         *)
(***************************************************************************)
EXTENDS Naturals, FiniteSets

CONSTANTS
    Agents,       \* labels of the agents
    Founders,     \* agents whose user may create the group
    Publishers,   \* agents that create or join as publishers
    Kinds,        \* the values of JoinConsistent a founder may choose
    Leavers,      \* agents whose user may leave
    Sequential,   \* TRUE: users start a command only when all is settled
    MaxCalls,     \* bound: Create and Join calls per agent
    MaxLeaves     \* bound: Leave calls per agent

ASSUME ConstantsAssumption ==
    /\ Founders \subseteq Agents
    /\ Publishers \subseteq Agents
    /\ Leavers \subseteq Agents
    /\ Kinds \subseteq {"plain", "consistent"}
    /\ Sequential \in BOOLEAN
    /\ MaxCalls \in Nat
    /\ MaxLeaves \in Nat

VARIABLES
    \* pubsub/stores: one topic of Group.groups and of Subscriber.subs
    joined,    \* groups[topic] # nil
    params,    \* GroupParams of the entry, "none" when nil
    view,      \* Members: the record held of each agent, 0 when none
    subs,      \* labels a data message of this agent is sent to
    \* the command an agent's user is running
    pc, calls, leaves,
    acceptor,  \* the agent asked for the group state
    group,     \* the ResGroupJoin received
    todo,      \* group members still to be subscribed or connected to
    sums,      \* checksums received from members other than the acceptor
    \* requests an agent serves
    server,    \* the single loop of zmq/server.go
    conning,   \* (subscriber, call) answered but not connected to yet
    adding,    \* (subscriber, call) connected to but not stored yet
    \* statuses: the SUB state socket of an agent against PUB sockets
    link,      \* none, pending: connecting, live: publisher has the filter
    refs,      \* reference count of the subscription to the state topic
    inbox,     \* statuses published and not handled yet
    acked,     \* transport/peers.go: endpoints that answered a hello
    \* what has gone wrong
    wedged,    \* listenData blocks for ever on a reply nobody reads
    up,        \* FALSE once the process has panicked
    \* history
    entered    \* (agent, call) pairs that completed Create or AddMembrs

storeVars == <<joined, params, view, subs>>
callVars  == <<pc, calls, leaves, acceptor, group, todo, sums>>
serveVars == <<server, conning, adding>>
netVars   == <<link, refs, inbox, acked>>
faultVars == <<wedged, up>>
vars == <<storeVars, callVars, serveVars, netVars, faultVars, entered>>

-----------------------------------------------------------------------------
(* Types. *)

View == [Agents -> 0..MaxCalls]
Empty == [a \in Agents |-> 0]
Params == {"none", "plain", "consistent"}
Group == [view : View, params : Params]
NoGroup == [view |-> Empty, params |-> "none"]

Steps == {"idle", "request", "accepted", "subscribing", "connecting",
          "hello", "notify", "leaving", "hung"}
Request == [kind : {"join", "sub"}, from : Agents]
Free == [kind |-> "free"]
Stuck == [kind |-> "stuck"]
Denied == [kind |-> "denied"]     \* stuck by a request for a group unknown here
Status == [kind : {"hello", "active", "inactive"},
           from : Agents, call : 0..MaxCalls]

\* The labels a view holds a record of.
Members(v) == {a \in Agents : v[a] > 0}

TypeOK ==
    /\ joined \in [Agents -> BOOLEAN]
    /\ params \in [Agents -> Params]
    /\ view \in [Agents -> View]
    /\ subs \in [Agents -> SUBSET Agents]
    /\ pc \in [Agents -> Steps]
    /\ calls \in [Agents -> 0..MaxCalls]
    /\ leaves \in [Agents -> 0..MaxLeaves]
    /\ acceptor \in [Agents -> Agents]
    /\ group \in [Agents -> Group]
    /\ todo \in [Agents -> SUBSET Agents]
    /\ sums \in [Agents -> SUBSET View]
    /\ server \in [Agents -> Request \cup {Free, Stuck, Denied}]
    /\ conning \in [Agents -> SUBSET (Agents \X (0..MaxCalls))]
    /\ adding \in [Agents -> SUBSET (Agents \X (0..MaxCalls))]
    /\ link \in [Agents -> [Agents -> {"none", "pending", "live"}]]
    /\ refs \in [Agents -> Nat]
    /\ inbox \in [Agents -> SUBSET Status]
    /\ acked \in [Agents -> SUBSET Agents]
    /\ wedged \in [Agents -> BOOLEAN]
    /\ up \in [Agents -> BOOLEAN]
    /\ entered \subseteq Agents \X (0..MaxCalls)

Init ==
    /\ joined = [a \in Agents |-> FALSE]
    /\ params = [a \in Agents |-> "none"]
    /\ view = [a \in Agents |-> Empty]
    /\ subs = [a \in Agents |-> {}]
    /\ pc = [a \in Agents |-> "idle"]
    /\ calls = [a \in Agents |-> 0]
    /\ leaves = [a \in Agents |-> 0]
    /\ acceptor = [a \in Agents |-> a]
    /\ group = [a \in Agents |-> NoGroup]
    /\ todo = [a \in Agents |-> {}]
    /\ sums = [a \in Agents |-> {}]
    /\ server = [a \in Agents |-> Free]
    /\ conning = [a \in Agents |-> {}]
    /\ adding = [a \in Agents |-> {}]
    /\ link = [a \in Agents |-> [b \in Agents |-> "none"]]
    /\ refs = [a \in Agents |-> 0]
    /\ inbox = [a \in Agents |-> {}]
    /\ acked = [a \in Agents |-> {}]
    /\ wedged = [a \in Agents |-> FALSE]
    /\ up = [a \in Agents |-> TRUE]
    /\ entered = {}

-----------------------------------------------------------------------------
(* When a user may start a command. *)

\* No command is running, no request or status is under way and every
\* connection that can be made is made.
Settled ==
    \A a \in Agents :
        /\ pc[a] = "idle" /\ server[a] = Free
        /\ conning[a] = {} /\ adding[a] = {} /\ inbox[a] = {}
        /\ refs[a] > 0 => \A b \in Agents : link[a][b] # "pending"

MayCommand(a) ==
    /\ up[a] /\ pc[a] = "idle"
    /\ Sequential => Settled

-----------------------------------------------------------------------------
(* ZeroMQ state sockets. *)

TopicExists_One(a) == Cardinality(Members(view[a])) >= 1      \* mutant

\* zmq.go topicExists: with a second member the filter is taken as set.
TopicExists(a) == Cardinality(Members(view[a])) >= 2

\* zmq.go connectState and subscribeStatus.  Connecting twice to an endpoint
\* changes nothing; subscribing twice counts twice.
Connect(a, b) ==
    /\ link' = [link EXCEPT ![a][b] = IF @ = "none" THEN "pending" ELSE @]
    /\ refs' = [refs EXCEPT ![a] = IF TopicExists(a) THEN @ ELSE @ + 1]

\* The link of a to peers is closed; without a filter no link is live.
Closed(a, peers, count) ==
    [link EXCEPT ![a] = [b \in Agents |->
        IF b \in peers THEN "none"
        ELSE IF count = 0 /\ @[b] = "live" THEN "pending" ELSE @[b]]]

\* A connection is made, or a filter arrives at the publisher, some time
\* after the call that asked for it.
GoLive(a, b) ==
    /\ up[a] /\ up[b]
    /\ link[a][b] = "pending" /\ refs[a] > 0
    /\ link' = [link EXCEPT ![a][b] = "live"]
    /\ UNCHANGED <<storeVars, callVars, serveVars, refs, inbox, acked,
                   faultVars, entered>>

Publish_NewRecord(a, kind, to) ==                              \* mutant
    LET s == [kind |-> kind, from |-> a, call |-> calls[a] + 1] IN
    inbox' = [b \in Agents |->
        IF b \in to /\ link[b][a] = "live" THEN inbox[b] \cup {s}
                                           ELSE inbox[b]]

\* A PUB socket sends to the subscribers it has now and drops the rest.
Publish(a, kind, to) ==
    LET s == [kind |-> kind, from |-> a, call |-> calls[a]] IN
    inbox' = [b \in Agents |->
        IF b \in to /\ link[b][a] = "live" THEN inbox[b] \cup {s}
                                           ELSE inbox[b]]

\* The process of b panics: nothing of it runs any more.
Panic(b) == up' = [up EXCEPT ![b] = FALSE]

\* zmq.go DataTopic reads the mode of the group, for a publisher that listenData
\* is to connect to or to unsubscribe from: without params a nil dereference.
DataPanics(b, peers) ==
    ~wedged[b] /\ params[b] = "none" /\ peers \cap Publishers # {}

-----------------------------------------------------------------------------
(* Create and the client side of Join. *)

\* agent.go Create; the checksum is that of the view.
Create(a) ==
    /\ MayCommand(a) /\ a \in Founders /\ calls[a] < MaxCalls
    /\ calls' = [calls EXCEPT ![a] = @ + 1]
    /\ \E k \in Kinds : params' = [params EXCEPT ![a] = k]
    /\ joined' = [joined EXCEPT ![a] = TRUE]
    /\ view' = [view EXCEPT ![a][a] = calls'[a]]
    /\ entered' = entered \cup {<<a, calls'[a]>>}
    /\ UNCHANGED <<subs, pc, leaves, acceptor, group, todo, sums, serveVars,
                   netVars, faultVars>>

\* agent.go Join up to the join request being sent.  Nothing is checked of the
\* agent the user names; a joined agent gets an error and nothing changes.
StartJoin(j, b) ==
    /\ MayCommand(j) /\ calls[j] < MaxCalls
    /\ b # j /\ ~joined[j]
    /\ calls' = [calls EXCEPT ![j] = @ + 1]
    /\ pc' = [pc EXCEPT ![j] = "request"]
    /\ acceptor' = [acceptor EXCEPT ![j] = b]
    /\ UNCHANGED <<storeVars, leaves, group, todo, sums, serveVars, netVars,
                   faultVars, entered>>

StartSubscribing_NoParams(j) ==                                \* mutant
    /\ up[j] /\ pc[j] = "accepted"
    /\ joined' = [joined EXCEPT ![j] = TRUE]
    /\ todo' = [todo EXCEPT ![j] = Members(group[j].view)]
    /\ pc' = [pc EXCEPT ![j] = "subscribing"]
    /\ UNCHANGED <<params, view, subs, calls, leaves, acceptor, group, sums,
                   serveVars, netVars, faultVars, entered>>

\* agent.go Join: SetParams, then one subscribe request per member at once.
StartSubscribing(j) ==
    /\ up[j] /\ pc[j] = "accepted"
    /\ joined' = [joined EXCEPT ![j] = TRUE]
    /\ params' = [params EXCEPT ![j] = group[j].params]
    /\ todo' = [todo EXCEPT ![j] = Members(group[j].view)]
    /\ pc' = [pc EXCEPT ![j] = "subscribing"]
    /\ UNCHANGED <<view, subs, calls, leaves, acceptor, group, sums,
                   serveVars, netVars, faultVars, entered>>

\* The group received still lists the joiner: it accepts its own invitation,
\* and its DID-exchange loop waits for its own server, which waits for it.
AcceptOneself(j) ==
    /\ up[j] /\ pc[j] = "subscribing" /\ j \in todo[j] /\ server[j] = Free
    /\ server' = [server EXCEPT ![j] = Stuck]
    /\ UNCHANGED <<storeVars, callVars, conning, adding, netVars, faultVars,
                   entered>>

\* wg.Wait returns: the members are connected one after another.
StartConnecting(j) ==
    /\ up[j] /\ pc[j] = "subscribing" /\ todo[j] = {}
    /\ pc' = [pc EXCEPT ![j] = "connecting"]
    /\ todo' = [todo EXCEPT ![j] = Members(group[j].view)]
    /\ UNCHANGED <<storeVars, calls, leaves, acceptor, group, sums, serveVars,
                   netVars, faultVars, entered>>

\* agent.go connectMember.
ConnectMember(j, m) ==
    /\ up[j] /\ pc[j] = "connecting" /\ m \in todo[j]
    /\ IF wedged[j]
       THEN /\ pc' = [pc EXCEPT ![j] = "hung"]
            /\ UNCHANGED <<subs, todo, link, refs>>
       ELSE /\ Connect(j, m)
            /\ todo' = [todo EXCEPT ![j] = @ \ {m}]
            /\ subs' = [subs EXCEPT ![j] =
                            IF j \in Publishers THEN @ \cup {m} ELSE @]
            /\ UNCHANGED pc
    /\ UNCHANGED <<joined, params, view, calls, leaves, acceptor, group, sums,
                   serveVars, inbox, acked, faultVars, entered>>

\* A command that returns drops its local variables.
Return(a) ==
    /\ pc' = [pc EXCEPT ![a] = "idle"]
    /\ acceptor' = [acceptor EXCEPT ![a] = a]
    /\ group' = [group EXCEPT ![a] = NoGroup]
    /\ sums' = [sums EXCEPT ![a] = {}]

\* validator.go ValidJoin: the acceptor counts with the view it sent, and one
\* checksum that differs from another makes the join inconsistent.
ValidJoin(j) ==
    Cardinality(Members(group[j].view)) > 1 => sums[j] \subseteq {group[j].view}

FinishVerify_AddFirst(j) ==                                    \* mutant
    /\ up[j] /\ pc[j] = "connecting" /\ todo[j] = {}
    /\ joined' = [joined EXCEPT ![j] = TRUE]
    /\ view' = [view EXCEPT ![j] = [m \in Agents |->
                    IF m = j THEN calls[j]
                    ELSE IF group[j].view[m] > 0 THEN group[j].view[m] ELSE @[m]]]
    /\ \/ /\ ~ValidJoin(j) /\ group[j].params = "consistent"
          /\ Return(j) /\ UNCHANGED entered
       \/ /\ ValidJoin(j) \/ group[j].params # "consistent"
          /\ entered' = entered \cup {<<j, calls[j]>>}
          /\ pc' = [pc EXCEPT ![j] = "hello"]
          /\ UNCHANGED <<acceptor, group, sums>>
    /\ UNCHANGED <<params, subs, calls, leaves, todo, serveVars, netVars,
                   faultVars>>

\* agent.go Join: verification, then AddMembrs of the group and the joiner.
\* Records received replace the ones that are there.
FinishVerify(j) ==
    /\ up[j] /\ pc[j] = "connecting" /\ todo[j] = {}
    /\ \/ /\ ~ValidJoin(j) /\ group[j].params = "consistent"
          /\ Return(j)
          /\ UNCHANGED <<joined, view, entered>>
       \/ /\ ValidJoin(j) \/ group[j].params # "consistent"
          /\ joined' = [joined EXCEPT ![j] = TRUE]
          /\ view' = [view EXCEPT ![j] = [m \in Agents |->
                IF m = j THEN calls[j]
                ELSE IF group[j].view[m] > 0 THEN group[j].view[m] ELSE @[m]]]
          /\ entered' = entered \cup {<<j, calls[j]>>}
          /\ pc' = [pc EXCEPT ![j] = "hello"]
          /\ UNCHANGED <<acceptor, group, sums>>
    /\ UNCHANGED <<params, subs, calls, leaves, todo, serveVars, netVars,
                   faultVars>>

AllConnected_AnyAck(j) == acked[j] # {}                        \* mutant

AllConnected_Self(j) ==                                        \* mutant
    Members(group[j].view) \cup {j} \subseteq acked[j]

\* peers.go Connected for every member of the group received.
AllConnected(j) == Members(group[j].view) \subseteq acked[j]

\* agent.go waitForConns: a hello is published before each look at the acks.
SayHello(j) ==
    /\ up[j] /\ pc[j] = "hello"
    /\ Publish(j, "hello", Members(group[j].view))
    /\ pc' = [pc EXCEPT ![j] = IF AllConnected(j) THEN "notify" ELSE "hello"]
    /\ UNCHANGED <<storeVars, calls, leaves, acceptor, group, todo, sums,
                   serveVars, link, refs, acked, faultVars, entered>>

\* agent.go notifyAll at the end of Join.
NotifyActive(j) ==
    /\ up[j] /\ pc[j] = "notify"
    /\ Publish(j, "active", Members(view[j]) \ {j})
    /\ Return(j)
    /\ UNCHANGED <<storeVars, calls, leaves, todo, serveVars, link, refs,
                   acked, faultVars, entered>>

-----------------------------------------------------------------------------
(* Serving requests: zmq/server.go runs one handler at a time and waits for *)
(* its reply; a handler that fails sends none, and the server waits on.     *)

Serve(b, r) == server' = [server EXCEPT ![b] = r]

\* processor.go joinReqs up to the membership check, which fails without a
\* reply: server.go then waits for one for ever, and so does the joiner.
TakeJoin(b, j) ==
    /\ up[b] /\ server[b] = Free
    /\ pc[j] = "request" /\ acceptor[j] = b
    /\ Serve(b, IF Members(view[b]) = {} THEN Denied
                ELSE [kind |-> "join", from |-> j])
    /\ UNCHANGED <<storeVars, callVars, conning, adding, netVars, faultVars,
                   entered>>

\* processor.go joinReqs from the reads of params on; reading the params of
\* a topic that is gone, or has none, is a nil dereference.
AnswerJoin(b, j) ==
    /\ up[b] /\ server[b] = [kind |-> "join", from |-> j]
    /\ IF params[b] = "none"
       THEN Panic(b) /\ UNCHANGED <<pc, group, server>>
       ELSE /\ group' = [group EXCEPT ![j] =
                            [view |-> view[b], params |-> params[b]]]
            /\ pc' = [pc EXCEPT ![j] = "accepted"]
            /\ Serve(b, Free)
            /\ UNCHANGED up
    /\ UNCHANGED <<storeVars, calls, leaves, acceptor, todo, sums, conning,
                   adding, netVars, wedged, entered>>

\* processor.go subscriptions up to the membership check of sendSubscribeRes.
\* The authentication request before it needs both listeners to answer.
TakeSubscribe(b, j) ==
    /\ up[b] /\ server[b] = Free
    /\ pc[j] = "subscribing" /\ b \in todo[j] /\ b # j
    /\ Serve(b, IF wedged[b] \/ view[b][b] = 0 THEN Stuck
                ELSE [kind |-> "sub", from |-> j])
    /\ UNCHANGED <<storeVars, callVars, conning, adding, netVars, faultVars,
                   entered>>

\* processor.go sendSubscribeRes: the checksum of a topic deleted since the
\* check is a nil dereference.  The acceptor's own checksum is not used.
AnswerSubscribe(b, j) ==
    /\ up[b] /\ server[b] = [kind |-> "sub", from |-> j]
    /\ IF ~joined[b]
       THEN Panic(b) /\ UNCHANGED <<todo, sums, conning, server>>
       ELSE /\ todo' = [todo EXCEPT ![j] = @ \ {b}]
            /\ sums' = [sums EXCEPT ![j] =
                            IF b = acceptor[j] THEN @ ELSE @ \cup {view[b]}]
            /\ conning' = [conning EXCEPT ![b] = @ \cup {<<j, calls[j]>>}]
            /\ Serve(b, Free)
            /\ UNCHANGED up
    /\ UNCHANGED <<storeVars, pc, calls, leaves, acceptor, group, adding,
                   netVars, wedged, entered>>

\* processor.go subscriptions after the reply: connect to the subscriber ...
ConnectSubscriber(b, r) ==
    /\ up[b] /\ r \in conning[b]
    /\ conning' = [conning EXCEPT ![b] = @ \ {r}]
    /\ Connect(b, r[1])
    /\ IF DataPanics(b, {r[1]})
       THEN Panic(b) /\ UNCHANGED adding
       ELSE /\ adding' = [adding EXCEPT ![b] =
                             IF wedged[b] THEN @ ELSE @ \cup {r}]
            /\ UNCHANGED up
    /\ UNCHANGED <<storeVars, callVars, server, inbox, acked, wedged,
                   entered>>

AddSubscriber_PublisherOnly(b, r) ==                           \* mutant
    /\ up[b] /\ r \in adding[b]
    /\ adding' = [adding EXCEPT ![b] = @ \ {r}]
    /\ subs' = [subs EXCEPT ![b] =
                    IF r[1] \in Publishers THEN @ \cup {r[1]} ELSE @]
    /\ UNCHANGED <<joined, params, view, callVars, server, conning, netVars,
                   faultVars, entered>>

\* ... and store it.
AddSubscriber(b, r) ==
    /\ up[b] /\ r \in adding[b]
    /\ adding' = [adding EXCEPT ![b] = @ \ {r}]
    /\ subs' = [subs EXCEPT ![b] = @ \cup {r[1]}]
    /\ UNCHANGED <<joined, params, view, callVars, server, conning, netVars,
                   faultVars, entered>>

-----------------------------------------------------------------------------
(* Statuses: each one is handled by a goroutine of its own, in any order.  *)

Take(b, s) == inbox' = [inbox EXCEPT ![b] = @ \ {s}]

\* A status not read yet is lost when its link or filter goes.
LoseStatus(b, s) ==
    /\ s \in inbox[b] /\ link[b][s.from] # "live"
    /\ Take(b, s)
    /\ UNCHANGED <<storeVars, callVars, serveVars, link, refs, acked,
                   faultVars, entered>>

\* processor.go state, hello: the ack is a request the sender's server takes,
\* and peers.go listen stores the endpoint, never to remove it.
AnswerHello(b, s) ==
    /\ up[b] /\ s \in inbox[b] /\ s.kind = "hello"
    /\ up[s.from] /\ server[s.from] = Free
    /\ Take(b, s)
    /\ acked' = [acked EXCEPT ![s.from] = @ \cup {b}]
    /\ UNCHANGED <<storeVars, callVars, serveVars, link, refs, faultVars,
                   entered>>

\* processor.go state, active: group.go AddMembrs, which makes the entry when
\* there is none.
AddMember(b, s) ==
    /\ up[b] /\ s \in inbox[b] /\ s.kind = "active"
    /\ Take(b, s)
    /\ joined' = [joined EXCEPT ![b] = TRUE]
    /\ view' = [view EXCEPT ![b][s.from] = s.call]
    /\ UNCHANGED <<params, subs, callVars, serveVars, link, refs, acked,
                   faultVars, entered>>

Forget_KeepSubscriber(b, a) ==                                 \* mutant
    /\ view' = [view EXCEPT ![b][a] = 0]
    /\ UNCHANGED subs

\* subscriber.go Delete and group.go DeleteMembr.
Forget(b, a) ==
    /\ view' = [view EXCEPT ![b][a] = 0]
    /\ subs' = [subs EXCEPT ![b] = @ \ {a}]

\* processor.go removeMember.  Disconnecting an endpoint that is not connected
\* fails: the handler returns without reading the data listener's reply.
RemoveMember(b, s) ==
    /\ up[b] /\ s \in inbox[b] /\ s.kind = "inactive"
    /\ Take(b, s)
    /\ IF link[b][s.from] = "none"
       THEN /\ wedged' = [wedged EXCEPT ![b] = TRUE]
            /\ UNCHANGED <<view, subs, link, up>>
       ELSE /\ link' = Closed(b, {s.from}, refs[b])
            /\ IF wedged[b] \/ DataPanics(b, {s.from})
               THEN UNCHANGED <<view, subs>>
               ELSE Forget(b, s.from)
            /\ IF DataPanics(b, {s.from}) THEN Panic(b) ELSE UNCHANGED up
            /\ UNCHANGED wedged
    /\ UNCHANGED <<joined, params, callVars, serveVars, refs, acked, entered>>

-----------------------------------------------------------------------------
(* Leave. *)

\* agent.go Leave: the state filter goes and every member's endpoint is
\* disconnected, in the random order of a Go map.  The first one that is not
\* connected ends the command and leaves the data listener waiting.
StartLeave(a) ==
    LET peers == Members(view[a]) \ {a}
        linked == {m \in peers : link[a][m] # "none"}
        count == IF refs[a] = 0 THEN 0 ELSE refs[a] - 1
    IN
    /\ MayCommand(a) /\ a \in Leavers /\ leaves[a] < MaxLeaves
    /\ joined[a] \/ refs[a] > 0        \* otherwise nothing changes
    /\ leaves' = [leaves EXCEPT ![a] = @ + 1]
    /\ refs' = [refs EXCEPT ![a] = count]
    /\ \/ /\ linked = peers
          /\ link' = Closed(a, peers, count)
          /\ pc' = [pc EXCEPT ![a] = IF wedged[a] THEN "hung" ELSE "leaving"]
          /\ UNCHANGED wedged
       \/ /\ linked # peers
          /\ \E S \in SUBSET linked : link' = Closed(a, S, count)
          /\ wedged' = [wedged EXCEPT ![a] = TRUE]
          /\ UNCHANGED pc
    /\ IF DataPanics(a, peers) THEN Panic(a) ELSE UNCHANGED up
    /\ UNCHANGED <<storeVars, calls, acceptor, group, todo, sums, serveVars,
                   inbox, acked, entered>>

FinishLeave_DeleteFirst(a) ==                                  \* mutant
    /\ up[a] /\ pc[a] = "leaving"
    /\ pc' = [pc EXCEPT ![a] = "idle"]
    /\ joined' = [joined EXCEPT ![a] = FALSE]
    /\ params' = [params EXCEPT ![a] = "none"]
    /\ view' = [view EXCEPT ![a] = Empty]
    /\ subs' = [subs EXCEPT ![a] = {}]
    /\ UNCHANGED <<calls, leaves, acceptor, group, todo, sums, serveVars,
                   netVars, faultVars, entered>>

\* agent.go Leave after the sockets are done: without members it fails and
\* keeps the entry, else it tells the members and forgets the topic.
FinishLeave(a) ==
    /\ up[a] /\ pc[a] = "leaving"
    /\ pc' = [pc EXCEPT ![a] = "idle"]
    /\ IF Members(view[a]) = {}
       THEN UNCHANGED <<storeVars, inbox>>
       ELSE /\ Publish(a, "inactive", Members(view[a]) \ {a})
            /\ joined' = [joined EXCEPT ![a] = FALSE]
            /\ params' = [params EXCEPT ![a] = "none"]
            /\ view' = [view EXCEPT ![a] = Empty]
            /\ subs' = [subs EXCEPT ![a] = {}]
    /\ UNCHANGED <<calls, leaves, acceptor, group, todo, sums, serveVars,
                   link, refs, acked, faultVars, entered>>

-----------------------------------------------------------------------------

\* What users decide.
Command(a) ==
    \/ Create(a)
    \/ \E b \in Agents : StartJoin(a, b)
    \/ StartLeave(a)

\* What the program then does by itself.
Progress(a) ==
    \/ StartSubscribing(a) \/ AcceptOneself(a) \/ StartConnecting(a)
    \/ \E m \in Agents : ConnectMember(a, m)
    \/ FinishVerify(a) \/ SayHello(a) \/ NotifyActive(a) \/ FinishLeave(a)

Serving(b) ==
    \/ \E j \in Agents : \/ TakeJoin(b, j) \/ AnswerJoin(b, j)
                         \/ TakeSubscribe(b, j) \/ AnswerSubscribe(b, j)
    \/ \E r \in conning[b] : ConnectSubscriber(b, r)
    \/ \E r \in adding[b] : AddSubscriber(b, r)

Handling(b, a) ==
    \E s \in inbox[b] :
        /\ s.from = a
        /\ AnswerHello(b, s) \/ AddMember(b, s) \/ RemoveMember(b, s)

Next ==
    \E a \in Agents :
        \/ Command(a) \/ Progress(a) \/ Serving(a)
        \/ \E b \in Agents : Handling(a, b) \/ GoLive(a, b)
        \/ \E s \in inbox[a] : LoseStatus(a, s)

Spec == Init /\ [][Next]_vars

\* The goroutines of a live process run, a handler of its own takes each
\* status, and a SUB socket keeps connecting.  No user has to do anything.
Fairness ==
    \A a \in Agents :
        /\ WF_vars(Progress(a)) /\ WF_vars(Serving(a))
        /\ WF_vars(\E b \in Agents : GoLive(a, b))
        /\ \A b \in Agents \ {a} : WF_vars(Handling(a, b))

FairSpec == Spec /\ Fairness

-----------------------------------------------------------------------------
(* Safety. *)

\* Nobody's view ever holds a record of an agent from a call that did not
\* get past verification: a joiner refused for an inconsistent view is never
\* a member for anybody (agent.go Join returns before AddMembrs and notifyAll).
OnlyEntered ==
    \A a, b \in Agents : view[b][a] > 0 => <<a, view[b][a]>> \in entered

\* When a joiner publishes its active status, each member of the group it
\* received is subscribed to it, so PUB does not drop the status (agent.go
\* waitForConns, "wait till zmq pub-sub socket connections are established via
\* hello protocol"), if neither of the two has left: peers.go keeps for ever
\* who has acknowledged, so that one that joins again does not wait.
HelloGuarantee ==
    \A j, m \in Agents :
        /\ pc[j] = "notify" /\ m \in Members(group[j].view)
        /\ leaves[m] = 0 /\ leaves[j] = 0
        => link[m][j] = "live"

\* As long as nobody leaves twice, one thing only can go wrong for good in an
\* agent that never left: it is asked to accept a Join to a group it does not
\* have (Denied, joinReqs).  No other request is left without an answer, its
\* data listener is not wedged and its process does not panic (the failure
\* paths of subscriptions, sendSubscribeRes and removeMember).  Two inactive
\* statuses of one agent, handled one right after the other, would wedge the
\* listener of an agent that never left.
OnlyLeaversFail ==
    (\A a \in Agents : leaves[a] <= 1) =>
        \A b \in Agents :
            server[b] = Stuck \/ wedged[b] \/ ~up[b] => leaves[b] > 0

\* subscribeStatus is right to skip the filter when topicExists: an agent that
\* never left and holds a connection has the state topic subscribed.
FilterIsSet ==
    \A a, b \in Agents : link[a][b] # "none" /\ leaves[a] = 0 => refs[a] > 0

\* Nobody leaving, once all is settled knowledge is mutual: each listed member
\* is listed under its own record, lists the other one, and is connected.
MutualViews ==
    Settled => \A a, b \in Agents :
        view[a][b] > 0 /\ a # b =>
            /\ view[a][b] = view[b][b] /\ view[b][a] = view[a][a]
            /\ link[a][b] = "live"

\* Nobody leaving, once all is settled a publisher sends to every member it
\* lists, whichever of the two joined first (subs.Add in connectMember and in
\* subscriptions).
SubscribersComplete ==
    Settled => \A a \in Publishers : Members(view[a]) \ {a} \subseteq subs[a]

\* Once all is settled every member holds the same view: the records the
\* members hold of themselves ("virtual synchrony", cli/runner.go).
Agreement ==
    Settled => \A a, b \in Agents : view[a][a] > 0 => view[a][b] = view[b][b]

\* Commands run one at a time leave nothing behind: when all is settled an
\* agent sends to and is connected to members only.
NoLeftovers ==
    Settled => \A a \in Agents :
        /\ subs[a] \subseteq Members(view[a])
        /\ \A b \in Agents : link[a][b] # "none" => view[a][b] > 0

-----------------------------------------------------------------------------
(* Liveness. *)

\* The Join of j never returns: j itself, which must take the acks, or an agent
\* it needs has been asked for a group it does not have and answers nobody.
JoinBlocked(j) ==
    /\ pc[j] # "idle"
    /\ \E b \in {j, acceptor[j]} \cup Members(group[j].view) :
          server[b] = Denied

\* As long as nobody leaves, a Join returns, with an error or not, and there
\* comes a time when every member the joiner lists also lists the joiner; or
\* the Join is blocked for ever by a server waiting for a denied reply.
JoinCompletes ==
    \A j \in Agents :
        pc[j] = "request" ~>
            \/ pc[j] = "idle" /\ \A m \in Members(view[j]) : view[m][j] > 0
            \/ []JoinBlocked(j)

\* Commands run one at a time: the agents implement the views of GroupViews,
\* an agent being a member when it lists itself.
Views == INSTANCE GroupViews WITH members <- [a \in Agents |-> view[a][a]]
SynchronousViews == Views!Spec

\* Commands run one at a time: nobody keeps a record of an agent that left.
LeaverForgotten ==
    \A a, b \in Agents : \A n \in 1..MaxCalls :
        (pc[a] = "leaving" /\ view[a][a] = n) ~> view[b][a] # n

=============================================================================
