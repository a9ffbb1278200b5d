# A TLA+ model of didcomm-prober

didcomm-prober is an agent, written in Go, that talks DIDComm: agents exchange
DIDs through out-of-band invitations, send each other packed messages over
ZeroMQ REQ/REP sockets, and form publish-subscribe groups whose statuses and
messages travel over ZeroMQ PUB/SUB sockets. This directory holds TLA+ modules
that model the program, the TLC configurations that check them, and TLAPS proofs.

    tlc -config GroupJoins.cfg MCGroupAgent.tla     # one run
    tlapm GroupAgentProof.tla                       # the proofs of a module

`PROJECT.json` lists the components, runs, mutants, hazards, findings and
theorems, and the source lines each definition stands for.

## 1. The system

| Component | Source | State | Operations | Interacts with |
|---|---|---|---|---|
| Group protocol | `pubsub/agent.go`, `pubsub/processor.go` | own invitation per topic, command locals | `Create`, `Join`, `Leave`, `Send`; handlers `joinReqs`, `subscriptions`, `state`, `data` | all of the below |
| Group store, subscriber store | `pubsub/stores` | per topic: params, members, checksum; subscribers and keys | add, delete, query under one lock each | group protocol, transport (`topicExists`) |
| View verification | `pubsub/validator` | none | `Calculate`, `ValidJoin`, `Verify` | store, `Join` |
| Pub-sub transport | `pubsub/transport/zmq.go`, `messages.go` | SUB state and data sockets, PUB socket, reply channels | connector, publisher, `listenState`, `listenData` loops; connect, subscribe, unsubscribe, disconnect, `Close` | group protocol through channels |
| Hello acks | `pubsub/transport/peers.go` | endpoints that acknowledged | `listen`, `Connected` | server, `waitForConns` |
| Request-reply | `reqrep/zmq` | handler table; the sender goroutine of each endpoint | `Server.Start`, `Client.Send`, `Close` | DID exchange, group protocol, discovery |
| DID exchange | `prober` | peers, DIDs, sync channels | `Invite`, `Accept`, `SyncAccept`, `processConnReq`, `processConnRes`, `ReadMessage`, `Service`, `SyncService` | key manager, server, client |
| Message ordering | `pubsub/syncer.go` | Lamport timestamp per topic | `init`, `parse`, `message` | `Create`, `Join`, `Send`, `data` |
| Keys and packing | `crypto`, `pubsub/packer.go`, `pubsub/compactor.go` | key pair per peer, invitation keys | generate, look up, pack, unpack | DID exchange, group protocol |
| Message formats | `didcomm/{connection,did,invitation}` | none | build and parse | DID exchange |
| Discovery | `didcomm/discovery` | supported features | query, disclose | server, client |
| Authentication of sockets | `pubsub/transport/auth.go` | curve key of each SUB socket, accepted client keys | set, remove | transport |
| Test mocker | `reqrep/mock` | ack callbacks | HTTP handlers, `initCallback` | `processor.acker`, all commands |
| CLI, wiring, scripts | `cli`, `bootstrap.go`, `main.go`, `domain/container`, `log`, `reqrep/http`, `scripts` | menu | user commands, start, `Stop` | everything |

How a join works: the joiner asks one member (the acceptor) for the group's
params and members over REQ/REP; it subscribes at each member at once, and each
member answers with the checksum of its own view and connects its SUB socket to
the joiner; the joiner connects to each member, compares the checksums, stores
the members and itself, publishes hellos until each member has acknowledged one
(so that PUB will not drop what follows), and publishes an active status. A
leaver unsubscribes, disconnects, publishes an inactive status and forgets the
topic. Each status a member receives is handled by a goroutine of its own.

How a connection is made: the accepter of an invitation generates a key pair
and sends a request with its DID document; the inviter's listen loop generates
a key pair of its own, sends the response, and stores the accepter; the
accepter stores the inviter once its request is acknowledged, and its listen
loop completes the entry when the response comes. `SyncAccept` then waits on a
channel the listen loop writes to.

What is hard in it: commands of several agents overlap without any
coordination; a handler's check and its reads are separate lock sections; a
handler that fails leaves the single-threaded server waiting for a reply; PUB
drops messages for subscribers that are not there yet; statuses are applied in
any order; internal requests wait for the replies of two listeners in turn on
unbuffered channels; topics share endpoints and keys; one goroutine handles all
DIDComm messages, sends the responses itself and writes to channels itself; a
response may come before the peer it belongs to is stored; keys are read and
replaced piece by piece; a sender is looked up and stored in separate steps;
callbacks are registered and removed while messages are handed to them. The
hazards of `PROJECT.json` name these at their lines. There is no persistence
and no restart, so no crash recovery is modelled; the only crash is the panic
of a nil dereference.

What makes each part correct:

* group protocol: only verified agents are members of anyone's view; joins
  return, unless an agent without the group is asked; settled members agree on
  the group; leavers are forgotten; one agent's leave does not stop another
  agent's server;
* stores: operations are atomic, an entry exists exactly for joined topics;
* verification: accepts exactly when all the views are the same one;
* transport: every internal request is performed once by each listener and
  returns, no listener blocks, and the sockets are connected, subscribed and
  keyed as the memberships call for;
* request-reply: one request at a time per socket, every request returns, and
  stopping an agent leaves no sender behind;
* discovery: a query is answered with the features that match it;
* delivery: a message reaches everyone who is subscribed while it is sent, is
  shown, and is counted by the callback that waits for it;
* DID exchange: both sides end with each other's keys, messages open, and nobody
  waits for ever;
* ordering: a message sent after one received does not sort before it, and texts
  arrive as they were sent.

## 2. Modules

| Module | What it holds |
|---|---|
| `GroupAgent` | create, join and leave of one topic by any number of agents, with stores, server, links and statuses |
| `GroupViews` | abstract: virtual synchrony, which `GroupAgent` implements when commands wait for each other |
| `MCGroupAgent` | names for the agents of its instances; a start state for one of them |
| `GroupAgentProof` | `TypeCorrect`, `OnlyEnteredAlways`, `OnlyLeaversFailAlways` and their lemmas |
| `GroupJoinProof` | `FilterIsSetAlways`, `HelloGuaranteeAlways`, `SubscribersCompleteAlways`, `MutuallyListedAlways`, `MutualViewsAlways`; `NoLeftoversAlways`, `AgreementAlways`, `ViewsImplemented`; and their lemmas |
| `Transport` | one agent's connector, listeners and publisher with several topics and peers, and the calls that use them |
| `Requests` | abstract: requests performed once by each server, which `Transport` implements |
| `MCTransport` | instances: topics, peers, publishers |
| `TransportProof` | `TypeCorrect`, `ServesCallsAlways`, `KeysMatchAlways` and their lemmas |
| `TransportSocketsProof` | `OnlyClashesFailAlways`, `SocketsFollowAlways` and their lemmas |
| `DidExchange` | connections between any number of agents, their messages and service queries |
| `MCDidExchange` | instances: who accepts whose invitation |
| `DidExchangeProof` | `TypeCorrect`, `OnlyAccepterPanicsAlways`, `OnlyRepeatsWedgeAlways`, `OnceReadableAlways`, `OnceConnectedAlways`, `SyncSoundAlways` and their lemmas |
| `ReqRep` | client, senders, server and loops of any number of agents; discovery; `Stop` |
| `MCReqRep` | an instance with two agents |
| `ReqRepProof` | `TypeCorrect`, `OneInFlightAlways`, `StopsGracefullyAlways`, `AnswersMatchAlways` and their lemmas |
| `Syncer` | timestamps of one topic's messages, with the calls that use them |
| `MCSyncer` | instances with two agents |
| `SyncerProof` | `TypeCorrect`, `CausalAlways`, `IntactAlways` and their lemmas |
| `Delivery` | a message from `Send` over the subscriber store to a subscriber's user and callbacks |
| `MCDelivery` | an instance with two callbacks |
| `DeliveryProof` | `TypeCorrect`, `SendCompleteAlways`, `CountsShownAlways`, `SecondOnlyAfterTimeoutAlways` and their lemmas |

How they fit together. `GroupAgent` looks at many agents and one topic and takes
each agent's transport and connections as they should work: a request to the
listeners is one step there (or wedges the listener, `wedged`), DIDComm
connections are made, and SUB sockets connect under the right curve key.
`Transport` looks at one agent and many topics with the peers as environment and
shows when that is so: `ServesCalls` and `RequestsReturn` are what the one step
stands for, `OnlyClashesFail` and `KeysMatch` say in which circumstances a
request fails or a key is another peer's. Likewise `ReqRep` has the server and
the senders that `DidExchange` and `GroupAgent` take as one exchange of messages
(`Acked`, `server`): `OneInFlight` and `CallsReturn` are what they rely on.
`Syncer` and `Delivery` take from `GroupAgent` only who is in the group. They
share no state otherwise, as the code's packages do not.

### GroupAgent and the code

| Variables | In the code |
|---|---|
| `joined`, `params`, `view` | `Group.groups[topic]`: the entry, its `GroupParams`, its `Members` (`stores/group.go`) |
| `subs` | `Subscriber.subs[topic]` |
| `pc`, `acceptor`, `group`, `todo`, `sums` | where `Join` or `Leave` stands and its local variables |
| `calls`, `leaves` | how many calls the user has made |
| `server` | the handler `Server.Start` is waiting for; `Stuck` once that handler failed, `Denied` once it failed for a group unknown to the agent |
| `conning`, `adding` | `subscriptions` handlers that have replied and have not yet connected, or stored the subscriber |
| `link`, `refs` | connections of the SUB state socket and the reference count of its filter |
| `inbox` | statuses received whose goroutine has not run |
| `acked` | `Peers.endpoints` |
| `wedged`, `up` | `listenData` blocked on a reply nobody reads; process not panicked |
| `entered` | history: the calls that reached `AddMembrs` |

An action is one stretch of code between two points where another goroutine or
agent can be seen: a request sent or answered, a lock section whose value is
used later, a channel reply. So `joinReqs` is `TakeJoin` (the membership check)
and `AnswerJoin` (the reads of the params); `subscriptions` is `TakeSubscribe`,
`AnswerSubscribe`, `ConnectSubscriber`, `AddSubscriber`; `Join` is the actions
`StartJoin` to `NotifyActive`; `Leave` is `StartLeave`, `FinishLeave`; `state`
is `AnswerHello`, `AddMember`, `RemoveMember`. `GoLive` and `LoseStatus` are
ZeroMQ's: connections complete later, and what a closed pipe held is lost.

Abstractions:

* DIDComm connections exist between all agents, packing works, and one agent's
  commands run one at a time, as in the CLI.
* A member record is the number of the call that made it: every `Create` or
  `Join` generates a new invitation, which is part of the record, so two records
  of an agent are equal exactly when one call made them. A checksum is the view
  it is computed over (SHA-256 is taken as injective).
* The data socket matters only where it makes an internal request hang, or
  where asking for the mode of a group that is gone stops the process
  (`DataPanics`).
* Nothing is assumed of whom a user asks to accept: an agent without the group
  takes the request (`TakeJoin`), sends no reply and serves nobody any more
  (`Denied`, an agent stuck for this one reason).

### DidExchange and the code

| Variables | In the code |
|---|---|
| `keys` | `KeyManager.keyStore`: a pair is its number among those the agent has made for the peer |
| `docs` | `didStore`: the key in the document for the peer |
| `peers` | `peers.store`: exchange id and the key in the peer's services, 0 while they are not known |
| `syncCons` | `Prober.syncCons`: the call whose channel is stored |
| `tasks` | `Accept`, `SyncAccept`, `SendMessage` calls, and the message the listen loop is handling, each with its local variables |
| `wire` | messages sent that the receiver's listen loop has not taken |
| `polls` | the goroutine of `SyncService` |
| `up` | the process has not panicked |
| `accepts`, `sends`, `unread` | bounds and history |

`Accept` is `StartAccept`, `ReadPublic`, `ReadPrivate`, `AddDid`, `SendOut`,
`StoreInviter`, and `StoreChannel` for `SyncAccept`; `processConnReq` is
`TakeRequest`, the same four steps, and `StoreAccepter`; `processConnRes` is
`TakeResponse`, `FindPeer`, the two key reads, `StoreServices`, `LoadChannel`,
`Signal`; `SendMessage` is `StartSend`, the key reads, `SendOut`, `FinishSend`;
`ReadMessage` is `TakeMessage`, the key reads, `OpenMessage`; `SyncService` with
`Service` is `StartQuery`, `Ask`, `TimeOut`. `Step` lets any of the running tasks
go on. The server hands a message to the listen loop over an unbuffered
channel and acknowledges it then, and `client.Send` returns with the
acknowledgement: so a message stays in `wire` until the loop takes it, the
sender's task waits (`Acked`), and a listen loop that sends a response waits
for the other agent's loop.

Abstractions: every inviter has made one invitation, whose keys do not change;
a packed message opens exactly when the keys it was packed with were one pair
and the receiver opens it with the pair it was packed for; `Prompt` says that
the retries of `processConnRes` for a peer not stored yet last as long as the
`Accept` call that is about to store it (with `Prompt = FALSE` a response may be
dropped at any time, and `OnceConnected` fails).

### Transport and the code

| Variables | In the code |
|---|---|
| `entry`, `params`, `members` | `Group.groups[topic]` as the transport reads it (`topicExists`, `Mode`, `Membrs`) |
| `job` | goroutines of `Join`, `subscriptions`, `state` and `Leave`: what each is doing, the request it has made, and where it waits |
| `queue` | requests the connector has published (inproc) that a listener has not received |
| `busy` | the reply a listener is writing to the unbuffered channel of the request |
| `conn`, `refs`, `dataRefs` | connections of the two SUB sockets with the key they were made under, and their subscriptions |
| `curve`, `keys` | `ClientAuthCurve` of each SUB socket, client keys accepted (`auth.go`) |
| `open`, `up` | connector and publisher not closed; process not panicked |
| `linked`, `seen` | history: peers connected for a topic, and the circumstances met |

`Ask` is `sendAuth`, `sendConnect`, `sendSubscribe` up to the publication by the
connector; `ReadState` and `ReadData` read the two replies in turn; `NextRequest`
is the order of the requests in `connectMember`, `subscriptions`, `removeMember` and
`Leave`. `StateAuth` to `StatePass` and `DataAuth` to `DataUnsubAll` are one
iteration of `listenState` and `listenData` each. `Finish` is what follows the
last request: the members stored or deleted, the inactive status published, the
topic deleted. `CloseConnector` and `ClosePublisher` are `Close`.

Abstractions: peers are environment (they subscribe, announce themselves, depart
and are asked for groups in any order); a key is the peer it belongs to, a topic
name its group and publisher; member records are left out, which `GroupAgent`
has. `seen` names circumstances: a removal or `Leave` beside another call
(`clash`), a peer added twice (`twice`), different peers added at once (`adds`),
an endpoint disconnected that another topic uses (`shared`), a `Leave` between a
subscription and the status that follows it (`early`), a peer that departs while
the socket is connected to it under another's key (`missed`).

### ReqRep and the code

| Variables | In the code |
|---|---|
| `call` | requests: where each is on its way through channel, sockets, server, handler and back |
| `chanMap`, `sender` | `Client.chanMap`, and the goroutines of `initSendr` |
| `server` | the request `Server.Start` has received and not answered |
| `loop` | the message the prober's `Listen`, the acks' `listen` and discovery's `listen` are handling |
| `stop`, `left`, `at`, `owed` | how far `Container.Stop` is, the endpoints `Close` has yet to visit, the sender it is terminating; history: senders stored when it began |
| `overlap` | history: pairs with two first `Send`s at once |

`Send`, `StartSender`, `Transmit`, `Return` are `Client.Send` and a sender's
loop; `Receive`, `TakeAsync`, `TakeQuery`, `TakeGroup` the server's loop with its
two kinds of handlers; `Disclose` with `ProcessQuery`, `Reply`, `Fail` the
handlers; `Respond` and `Finish` the prober's loop, which sends a connection
response while it handles a request; `BeginStop`, `Visit`, `Terminate`, `Exit`
are `Stop` and `Close`. Features are short token sequences, since `processQuery`
compares them piece by piece.

Abstractions: an endpoint is its agent; handlers are registered before the
server starts; the prober's loop returns from all but connection requests at
once (`DidExchange` has the cases where it does not); a message is lost only
with the process that sent it.

### Delivery and the code

| Variables | In the code |
|---|---|
| `member`, `topicThere`, `subs` | the publisher's membership and `Subscriber.subs[topic]`, the map `QueryByTopic` hands out |
| `send` | running `Send` calls: entries reached and still to reach, and whether the map they iterate over is still the store's |
| `copy` | the goroutine `data` runs in for each message received |
| `ackChan` | `processor.ackChans` for the publisher's label |
| `reg` | goroutines of `initCallback`: count, timer, results reported |
| `up` | processes that run |
| `changes`, `subscribed`, `shown` | bound and history |

`AddSub`, `DeleteSub`, `DeleteTopic` are the store's `Add`, `Delete`,
`DeleteTopic`; `StartSend`, `Publish`, `EndSend` are `Agent.Send`, whose loop
ranges over the store's own map: an entry deleted before it is reached is
skipped, one added meanwhile may be reached or not, and Go may stop a process
that writes to a map another goroutine ranges over (`WriteRace`, `AckRace`).
`Check`, `Lookup`, `Hear`, `Show` are the four steps of `data`: look whether
there is a channel, look again for it, send to it, hand the message on.
`Register`, `TimeOut`, `Finish` are `RegisterAck`, the timer, and the report that
ends a callback with `UnregisterAck`.

Abstractions: one topic, one publisher, one subscriber looked at; keys, packing
and order metadata are left out (`Syncer` has the latter); what is published
arrives, in any order.

### Syncer and the code

`ts[a]` is the entry of `tsMap` for the topic, `lamp = 0` when there is none;
`id[a]` what `newSyncer` drew; `clock[a]` the host's `time.Now().Unix()`;
`params[a]` the params of the group the agent is in; `flight` the messages
published and not handled. `Enter` is `syncer.init` as `Create` and `Join` call
it, `NextLamp` and `Send` are `syncer.message` within `Agent.Send`, `Merge` and
`Handle` are `syncer.parse` within `processor.data`, whose three disjuncts are
its outcomes: unwrapped, dropped because the wrapping is missing, handed on as
it came. `past` remembers the greatest timestamp the agent has sent or handled
since it entered the group, and each message carries its sender's; `shown` how
messages were handed to users.

## 3. What the runs check

### GroupAgent

Bounds: `MaxCalls` bounds the `Create` and `Join` calls of an agent,
`MaxLeaves` its `Leave` calls. Nothing else is bounded. Three agents are the
fewest for two joins that overlap at a third member, or for a leaver between
two others; two agents suffice for what goes wrong between one's earlier and
later calls. `CHECK_DEADLOCK FALSE`: users may stop issuing commands, and a
stuck server really stops.

| Run | Instance | Shows |
|---|---|---|
| `group_joins` | 3 agents, a consistent group, nobody leaves, joins through any agent overlap and may be refused, fair | `TypeOK`; `OnlyEntered`; `HelloGuarantee`; `MutualViews`, `SubscribersComplete` once settled; `JoinCompletes` |
| `group_rejoin` | 2 agents, both may leave and join again | `OnlyLeaversFail`, `FilterIsSet` |
| `group_one_at_a_time` | 3 agents, all may leave, each command waits until all is settled, fair | `NoLeftovers`, `SynchronousViews`, `LeaverForgotten` |
| `group_concurrent_joins` | 4 agents, a consistent group of two, two joiners; violated | `Agreement` after overlapping joins that both compare two equal checksums |

`Join` verifies only what it received of more than one member (`agent.go:242`).
In `group_joins` a joiner is refused when its acceptor and another member answer
with different views; `group_rejoin` has two agents, where nobody ever is, so its
groups are plain. For two joiners that both pass the comparison a group of two
members must be there first. That takes four agents, so
`group_concurrent_joins` starts in `TwoMembers`: `a1` has created the group, `a2`
has joined it, all is settled. TLC reaches this state from `Init` (21 states);
starting there only shortens the search. `AtOnce` leaves out behaviours, those in
which a subscriber that was answered waits to be connected and stored, or a
connection to complete, while something else happens; what the run finds is a behaviour of `Spec` all the
same. In the trace both joiners receive `{a1, a2}`, each finds the checksums of
`a1` and `a2` equal, and both end as members whose views lack the other.

`group_joins` and `group_concurrent_joins` belong together: overlapping joins do
not lead to agreement, yet knowledge is mutual: two agents both list each
other, under the same records, or neither does. When commands wait for each
other (`Sequential`), the agents implement `GroupViews` (`SynchronousViews`, with
an agent's own entry in its view as its membership): each change is installed by
every member before the next one, so settled members agree. This says how far
the program's virtual synchrony goes.

Facts met on the way: acknowledgements of an earlier join count in a later one,
so that its hello loop may end before anybody has heard it, and the member it
joined at then stays connected to it and sends to it without listing it, also
when commands wait for each other (TLC violates `NoLeftovers` with two agents,
`MaxCalls = 2` and `Sequential`, which is why its theorem speaks of users that
called once); an active status
overtaken by the receiver's `Leave` makes the topic's entry again, without
params; a join refused by verification leaves the entry that `SetParams` made;
two inactive statuses of an agent that left twice can wedge the data listener of
an agent that never left, hence the premise of `OnlyLeaversFail` that nobody
leaves twice (with `MaxLeaves = 2` and `MaxCalls = 3` the two agents of
`group_rejoin` violate it); a Join to an agent that does not have the group stops
that agent's server for good, although it did nothing, which is the one
exception `OnlyLeaversFail` makes for an agent that never left (`Denied`), and
with it those of `JoinCompletes` (`JoinBlocked`): a joiner waits for ever for an
agent in that state, or is in it itself and hears no acknowledgement. Under
`Sequential` such a Join is never settled, so that nothing follows it.

Fairness (`Fairness`): weak fairness of an agent's command once started, of its
server with its handlers, of ZeroMQ's connecting, and of the handling of the
statuses of each other agent. The Go scheduler runs every ready goroutine, each
status has a goroutine of its own, and ZeroMQ reconnects by itself. Users are
under no fairness: nobody has to start or leave anything. `JoinCompletes` is
checked where nobody leaves: a leaving member can keep a joiner in the hello
loop for ever, by design of that loop.

### DidExchange

Bounds: `MaxAccepts` bounds the accepts of a pair and with them the key pairs;
`MaxSends` its messages. `Invites`, `Synced`, `Senders`, `Queries` say who does
what with whom. Three agents let exchanges of different pairs interleave in one
listen loop, two suffice for what two exchanges of one pair do to each other.
`CHECK_DEADLOCK FALSE`: users may stop, and loops really wait for each other.
All passing runs have `Prompt = TRUE`.

| Run | Instance | Shows |
|---|---|---|
| `did_once` | 3 agents, each pair once, one of them by `SyncAccept`, fair | `OnceConnected`, `SyncSound`, `AcceptConnects`, `LoopGoesOn` |
| `did_any` | 2 agents that may accept each other's invitations, by `Accept` and by `SyncAccept`, send a message and query a service | `TypeOK`, `OnceReadable`, `OnlyAccepterPanics`, `OnlyRepeatsWedge` |

Facts met on the way: a `SyncAccept` can wait for ever although it is connected,
when the response is handled before its channel is stored (the source has a
todo for a timeout there), which is why `AcceptConnects` promises the connection
and not the return; two listen loops that respond to each other's requests wait
for each other, so `LoopGoesOn` is checked where accepts form no cycle; and
responses to repeated accepts can be opened with keys of a later one, or not at
all, hence the premise `Once`; agents that accept each other's invitations may
end with a stored peer and no connection; and a service query between an accept
and its response stops the process.

Fairness: weak fairness of what a listen loop is handling, of its taking some
message when it is free, and of calls once made. Again nobody has to call
anything, and nothing is assumed of queries.

### Syncer

Bounds: `MaxTime` stops the clocks, which start at 1 or 2, so that hosts may be
ahead or behind; `MaxCalls` bounds groups entered, `MaxSends` messages, per
agent. Two agents are enough for a chain of knowledge that goes back and forth,
for one that stays when the other leaves, and for groups of either kind one
after the other. Symmetry is used with invariants only.

| Run | Instance | Shows |
|---|---|---|
| `syncer` | 2 agents, ordered and other groups one after the other, equal ids | `TypeOK`, `CausalUpToSecond`, `Intact` |
| `syncer_sortable` | violated, with ids that differ | `Sortable`: the id is taken over with a timestamp |

Facts met on the way: a message sent within the second of the stored timestamp
gets that timestamp again, so causal order holds only up to the second; joining
again starts a timestamp from the clock, so order is kept within a membership,
not across them; and the timestamp survives `Leave`, so that in a later group
that is not ordered messages are wrapped for members that show the wrapping, or
dropped by members that expect one. `Intact` is therefore about the messages of
ordered groups.

### Transport

Bounds: `MaxJobs` bounds the calls that use the transport; an agent's own
`Create`, status and `Close` steps are not counted. Hazards of shared endpoints
need two topics and one peer, with three calls (two that add the peer and one
that takes it away); hazards of keys and of the two queues need two peers in one
topic and two calls. The second instance has `MayClose`, so that requests under
way meet `Close`; in the first one nothing that follows `Close` would be
promised. `CHECK_DEADLOCK FALSE`: calls come to an end, and a listener whose
reply is abandoned really stops.

| Run | Instance | Shows |
|---|---|---|
| `transport` | 1 peer, a publisher, in 2 topics with different queues, 3 calls | `OnlyClashesFail`, `SocketsFollow` |
| `transport_calls` | 2 peers, one of them a publisher, in 1 topic, 2 calls, `Close`, fair | `TypeOK`, `KeysMatch`, `RequestsReturn`, `ServesCalls` |

`ServesCalls` is the refinement: the queues and replies of `Transport`, seen
through what callers can observe, are `Requests`.

Facts met on the way: two subscriptions handled at once may connect one peer
under the other's key, since the key is an option of the socket and
authentication and connection are two requests; `Leave` and the removal of a
member disconnect an endpoint that other topics use; of two calls that take the
same member away the second fails, and its early return leaves the data listener
blocked on a reply nobody reads; a peer connected under another's key is not
heard when it leaves, so that a later `Leave` finds it among the members and
fails at its endpoint (hence `missed`); a `Leave` of a group without members
ends without an error and publishes nothing; `Close` sends the listeners a
message they discard, so that they do not end, and after it every new request
hangs.

Fairness: weak fairness of `Work`, the steps of listeners and calls. Each such
step brings its call nearer to its end, so a behaviour has finitely many of
them, and fairness of their disjunction is fairness of each. Users and peers are
under none.

### ReqRep

Bounds: `MaxCalls` bounds the requests users and goroutines make; connection
responses of the prober's loop come in addition. Two agents and two requests are
enough for two first `Send`s that overlap, for loops that wait for each other's
server, for a query beside another request, and for `Stop` with a request under
way; `Uses` has each kind of handler, `Patterns` a query with its wild card at
the end, one without, and one elsewhere. `CHECK_DEADLOCK FALSE`: requests come
to an end, and servers really wait for each other.

| Run | Instance | Shows |
|---|---|---|
| `reqrep` | 2 agents, connection requests both ways, joins, queries and acks, one agent may stop, fair | `TypeOK`, `OneInFlight`, `AnswersMatch`, `StopsGracefully`, `CallsReturn`, `StopExits` |

`CallsReturn` and `StopExits` name the only ways a request, or `Stop`, hangs: from
some time on the agent it waits for has exited, has a handler that failed
without a reply, or is one of a circle of agents whose loops wait for each other
(`Blocked`), and stays so. A circle that resolves is no excuse, nor is an agent
whose `Stop` terminates a sender, since its server goes on serving. The error
path of `PubSub.Close` in `Stop` is left out: `Transport` has that `Close`.

Facts met on the way: two first `Send`s to an endpoint start two senders, and
the one replaced is never terminated (hence `overlap`); `Close` hands its
terminate request to a sender that may be waiting for the answer of an agent
that will never send one, and `Stop` then does not return; a query whose wild
card is not at its end is answered as if it had none, a case that a comment in
`discovery/handler.go` says is neglected.

Fairness: weak fairness of `Work`, each step of which again is taken a bounded
number of times; nobody has to make a request or to stop.

### Delivery

Bounds: one `Send`, since calls of `Send` only read the store and share nothing
else; `MaxChanges = 2` writes, so that a subscriber can go and come back while
the message is sent, and two copies of it arrive; `MaxRegs = 2` callbacks, one
that replaces the other; targets 1 and 2, so that a callback ends at its first
message or at a later one. `CHECK_DEADLOCK FALSE`: everything comes to an end,
and a message whose channel is gone really waits for ever.

| Run | Instance | Shows |
|---|---|---|
| `delivery` | a subscriber, one more entry, two writes, two callbacks, fair | `TypeOK`, `SendComplete`, `CountsShown`, `SecondOnlyAfterTimeout`, `CalledBack`, `Shown` |

Facts met on the way: a callback that has timed out goes on counting and reports
a second time; callbacks are removed by label, so that one that ends removes the
registration of another, which then only times out; and a message whose
goroutine found a channel that is gone when it looks again is never shown, which
is why `Shown` excludes messages during which a callback ended.

Fairness: weak fairness of `Work` (the steps of running goroutines, and timers,
which do fire), each taken a bounded number of times. A report of a callback is
one step: `http.Post` has no timeout, and `CalledBack` is about test tools that
answer it.

## 4. What is proved

Each theorem holds for every set of agents and all bounds, from the module's
`ConstantsAssumption` only; what one assumes besides, it says in its statement:
`OnceConnectedAlways` assumes `Prompt`; the theorems of `GroupJoinProof` about
settled groups either have `NobodyLeft` in what they prove to hold always, or
are about commands that wait for each other: they assume `Sequential`, have
`CalledOnce` in what they prove and, where one group is meant, assume
`OneFounder`. `NobodyLeft` holds throughout `group_joins`, the other three
throughout `group_one_at_a_time`.

`GroupAgentProof`:

* `TypeCorrect`: `Spec => []TypeOK`. One lemma for each shared piece (`Connect`,
  `Closed`, `Publish`, `Return`), one step per action.
* `OnlyEnteredAlways`: `Spec => []OnlyEntered`. `OnlyEntered` alone is not
  inductive: a record reaches a view through a group received from an acceptor
  or through an active status, so `EnteredInv` adds the same fact of every group
  received (`GroupEntered`), of every status under way (`StatusEntered`) and of
  a joiner between storing itself and its status (`CallEntered`). `AnswerJoin`
  hands the fact from a view to a group, `FinishVerify` from the group to the
  joiner's view, `NotifyActive` to a status, `AddMember` back to a view.
* `OnlyLeaversFailAlways`: `Spec => []OnlyLeaversFail`. A Join asks whom it likes,
  and goes on only when the agent has the group; from then on agents are asked
  as members, and an agent that never left stays one (`LoyalInv`), so what
  `joinReqs` reads after its check is there and the check of `subscriptions`
  passes; how far a
  command has come bounds what it has stored and connected (`CallInv`); and the
  one inactive status of an agent finds the link it closes (`InactiveInv`).

`GroupInv` is the conjunction of these, and what `GroupJoinProof` builds on.

`GroupJoinProof`:

* `FilterIsSetAlways`: `Spec => []FilterIsSet`. An agent without the filter is
  connected to nobody, has no status to handle and lists at most itself
  (`FilterInv`): then `topicExists` cannot be true at its next connection, which
  sets the filter.
* `HelloGuaranteeAlways`: `Spec => []HelloGuarantee`. Whoever has acknowledged or
  has a status of an agent to handle has a live link to it (`HeardInv`),
  and keeps it until one of the two leaves, since the filter of an agent that
  never left stays (`FilterInv`).
* `SubscribersCompleteAlways`, `MutuallyListedAlways`, `MutualViewsAlways`: what
  holds as long as nobody has left, each of them `Spec => [](NobodyLeft => ...)`,
  from `JoinInv`. Who lists another is connected to it and, as a publisher, has
  it among those it will send to (`Connects`, `AddsInv`); and who lists another is
  listed by it, or is about to tell it: the joiner has yet to publish its active
  status, or the status is under way on a link that is live (`ToldInv`).
  `NobodyLeft` is the instance of the run `group_joins`; with leavers the views
  really differ (`group_concurrent_joins`, `LeaverForgotten` are about that).
  `MutualViewsAlways` has `CalledOnce` besides, as in the run: a founder that
  creates its group again makes a new record of itself which nobody is told of.
  `MutuallyListedAlways` is what remains without it.
* `NoLeftoversAlways`: `Sequential => (Spec => [](CalledOnce => NoLeftovers))`,
  whoever leaves, from `OneAtATime`: there is an agent `c` whose command is the
  only one under way (`Sole`), and all else is as it was settled. `Agree` says
  what the others know of each other: they list, and are connected to, the same
  agents. `Stage` says how far `c` has come between `StartJoin` and
  `NotifyActive` or through `Leave`; its mates are the members of the group it
  received, and of its own view once it is one of them. `Pair` says, for each
  other agent, what `c` and that agent hold of each other at this stage: a mate
  lists the same agents, is or will be connected, knows `c` or has its active
  status to handle; who holds anything of a `c` that left has its inactive status
  to handle, on a link it can close. When all is settled this leaves nothing
  under way (`SettledQuiet`), and the next user to start a command is the new `c`
  (`QuietCommand`). The steps are one lemma each, over lemmas that say which
  parts a step leaves alone (`SoleKept`, `AgreeKept`, `StageKept`, `PairKept`).
  `CalledOnce` is what makes the stages sure: acknowledgements stay in
  `Peers.endpoints`, so that a second join may end its hello loop before anybody
  is connected, and a second `Create` is told to nobody.
* `AgreementAlways`: `Sequential /\ OneFounder => (Spec => [](CalledOnce =>
  Agreement))`, the property that overlapping joins violate. Besides, all members
  other than `c` list each other, and all are mates of `c` once it has received
  its group (`Together`): until the only founder creates nobody has entered, and
  a Join there is waits for an answer that never comes (`FounderFirst`); whoever
  joins afterwards gets the whole group. With a second
  founder there would be two groups of the same name.
* `ViewsImplemented`: `Sequential /\ OneFounder => (Spec /\ []CalledOnce =>
  Views!Steps)`, the steps of `SynchronousViews`. When a joiner adds itself
  (`FinishVerify`), a founder creates or a leaver removes its view
  (`FinishLeave`), every member knows of each agent what it knows of itself
  (`InStep`): the step is an `Enter` or an `Exit`. `AddMember` and `RemoveMember`
  are an `Install`, and no other step changes a view.

`SyncerProof`:

* `TypeCorrect`: `Spec => []TypeOK`.
* `CausalAlways`: `Spec => []CausalUpToSecond`. The strengthening is that the
  stored timestamp is at least `past` (`CausalInv`); `NextLampAhead` and
  `MergeAhead` say that neither stamping nor handling takes it back.
* `IntactAlways`: `Spec => []Intact`. `IntactInv` adds that groups of the topic
  do not mix (`OneGroup`), that a member of an ordered group has a timestamp,
  and that an ordered message under way is wrapped and meets a timestamp;
  `OrderedStays` says that no step takes a timestamp away.

`TransportProof`:

* `TypeCorrect`: `Spec => []TypeOK`.
* `ServesCallsAlways`: `Spec => ServesCalls`, the refinement of `Requests`. Each
  step of `Transport` is a step of `Requests` or a stutter because of `CallInv`: a
  call has at most one request in each queue (`OneEach`), none in a queue whose
  listener is answering it (`NotBoth`), none while it is between requests
  (`NoneBetween`), and none with the state listener once it has read that reply
  (`StateDone`). So `Ask` finds nothing pending, and `ReadData` returns with
  nothing pending.
* `KeysMatchAlways`: `Spec => []KeysMatch`. A request in a queue is the last one
  of its call, and nobody gives up a request that adds a peer (`AskInv`). So
  between the authentication of a peer and its connection, as each listener sees
  them, the call is still adding it; unless several peers are being added, all
  calls that add anybody then add that one (`Paired`), and the key set last is
  its key (`KeySet`).

`TransportSocketsProof`, about behaviours in which nothing has clashed and the
publisher is open (`Calm`; a step never makes a behaviour calm again):

* `OnlyClashesFailAlways`: `Spec => []OnlyClashesFail`. A call that removes or
  leaves runs alone, calls that add to one topic add different peers that are
  not linked yet, the mode of a topic in use is known, and peers that are
  disconnected are of no use to another topic (`OrderInv`). With it, what a
  request under way is to disconnect is connected (`SureInv`), so that no
  listener answers with an error or panics. That what is linked is connected
  when such a request is made takes the invariant of the next theorem.
* `SocketsFollowAlways`: `Spec => []SocketsFollow`. `Held` says whom a socket is
  connected for at any point of the running calls: those linked; besides, the
  peer of a connection the listener has made and the call has not read; not,
  those a removal or a `Leave` has released already. The sockets are connected
  to those held (`Tied`), the data socket subscribed for each one once
  (`Counted`, over the cardinality of a set), the filter set (`Filtered`); members
  are linked or being removed (`Known`). `FollowInv` needs that no call hangs
  (`NoHung`): a call that finds the connector closed has done half of its work,
  which is why `SocketsFollow` speaks of moments when none hangs. `KeyedInv` is
  its counterpart for client keys.

`DidExchangeProof`, the first three from the inductive invariant `DidInv`, the
others from two more that rest on it:

* `TypeCorrect`: `Spec => []TypeOK`. That key pairs stay below twice `MaxAccepts`
  takes `CountInv`: a pair has made no more of them than both sides have made
  `Accept` calls, and one fewer while a request is still to be taken; there is
  one such request at most, as `Accept` waits for it.
* `OnlyAccepterPanicsAlways`: `Spec => []OnlyAccepterPanics`. `PeerOK` says who may
  have stored a peer without services; it needs that a response carries a
  document and that an exchange was begun by an `Accept` (`TaskOK`, `MessageOK`).
* `OnlyRepeatsWedgeAlways`: `Spec => []OnlyRepeatsWedge`. An exchange is in one
  place at a time (`OncePlaced`), so that of a pair's only `Accept` leads to one
  write; its channel is read until the exchange is over (`ChannelInv`).
* `OnceReadableAlways`: `Spec => []OnceReadable`. Every key that is read, stored,
  put into a message or into a document is one its owner has made (`KeyInv`); a
  pair that accepted once has one key pair on each side, so they all are that one.
* `OnceConnectedAlways`: `Prompt => (Spec => []OnceConnected)`. The one exchange
  of the pair goes through its stages in order, and each tells which side has
  stored what (`StageInv`). `Prompt` is needed where the response comes before
  the accepter has stored the inviter: without it the response may be dropped.
* `SyncSoundAlways`: `Spec => []SyncSound`, from `KeyInv` and the stage the signal
  on the channel belongs to.

`ReqRepProof`:

* `TypeCorrect`: `Spec => []TypeOK`.
* `OneInFlightAlways`: `Spec => []OneInFlight`. A request under way keeps its
  sender busy and is the only one that does (`FlightInv`); a request is sent by a
  sender between its own two agents, and there is one such sender unless first
  `Send`s overlapped, since a sender past its start has been stored
  (`SenderInv`).
* `StopsGracefullyAlways`: `Spec => []StopsGracefully`. What `Close` owes is yet to
  be visited, being terminated, ended or replaced (`OwedInv`); that `Range`
  visits an endpoint with the sender it has now is enough because of the
  uniqueness in `SenderInv`.
* `AnswersMatchAlways`: `Spec => []AnswersMatch`. An answered query has what
  `processQuery` makes of its own pattern (`AnswerInv`): only `Disclose` answers
  one, with the pattern of the query whose handler the server is waiting for
  (`ServerInv`), and later steps keep the answer. `ProcessQueryMatches` compares
  `processQuery` with `Glob`, for patterns of any length: a prefix is a match
  (`GlobPrefix`), and a feature, of two tokens, is matched by no pattern with its
  wild card at its end that is not a prefix (`GlobOnly`).

`DeliveryProof`:

* `TypeCorrect`: `Spec => []TypeOK`.
* `SendCompleteAlways`: `Spec => []SendComplete`. Whoever was subscribed
  throughout has been reached or is due, and whom the message was published to
  is marked as reached or was deleted since (`SendInv`).
* `SecondOnlyAfterTimeoutAlways`: `Spec => []SecondOnlyAfterTimeout`, from what the
  results of a callback are at each of its steps (`RegInv`).
* `CountsShownAlways`: `Spec => []CountsShown`. A counted message that will be
  shown and has been handed over is in the count already: the count is at least
  the number shown plus the number of those pending (`CountInv`, over the
  cardinality of a set), because a lone callback is the one that is registered
  (`LoneInv`).

Only model-checked: liveness (`JoinCompletes`, `LeaverForgotten`,
`AcceptConnects`, `LoopGoesOn`, `RequestsReturn`, `CallsReturn`, `StopExits`,
`CalledBack`, `Shown`, and of `SynchronousViews` that every change is installed in
the end), which under fairness is outside what TLAPS proves here. Every invariant
and every other action property of a passing run is a theorem.

## 5. Not modelled

* Encryption, packing formats, message encodings, DID documents beyond the key
  they carry: taken to work; they keep no state.
* `Verify` of the validator over arbitrary hash maps, which `Join` never makes;
  the unlocked read of `Checksum`, whose only outcome beside the values
  `GroupAgent` has is that Go stops the process.
* Dead code: `RemoveHandler` and `Server.Stop`, the terminate branches of the
  listeners, the HTTP transport.
* The error variable that `Join`'s goroutines share: `GroupAgent` has no failing
  connections between members.
* Generation and installation of curve keys, logging, the menu of the CLI, the
  deployment and measurement scripts.

There is no persistence and no restart, hence no recovery from crashes.

## 6. What is left

What holds of settled groups in which members have left, when joins overlap each
other but no `Leave`: `MutuallyListed` without `NobodyLeft` and without
`Sequential`. The proofs would need `ToldInv` and `AddsInv` of `GroupJoinProof` with
the leavers' inactive statuses beside the active ones. The properties of
liveness, and the hazards without a property, are as section 4 and
`PROJECT.json` say.
