----------------------------- MODULE DidExchange -----------------------------
(***************************************************************************)
(* The DID exchange of prober/agent.go: accepting an invitation, the       *)
(* listen loop that answers connection requests and takes in connection    *)
(* responses, messages between connected agents, and the queries for a     *)
(* peer's services; with the stores they share (prober/peers.go,           *)
(* prober/dids.go, crypto/keys.go).                                        *)
(*                                                                         *)
(* Abstractions.  Every inviter has made its invitation, whose key pair    *)
(* never changes.  A key pair is its number among those an agent makes for *)
(* one peer, and a DID document is the public key in it.  A packed message *)
(* opens exactly when its sender's key pair matches (ok) and the receiver  *)
(* opens it with the key pair it is packed for (kid).  The server holds a  *)
(* request until the listen loop takes it and then acknowledges it, so a   *)
(* message is on the wire until the loop takes it, and its sender waits.   *)
(***************************************************************************)
EXTENDS Naturals

CONSTANTS
    Agents,       \* labels of the agents
    Invites,      \* (accepter, inviter) pairs connected with Accept (cli)
    Synced,       \* pairs connected with SyncAccept (mocker, group joins)
    Senders,      \* (sender, receiver) pairs a user may send messages for
    Queries,      \* (agent, peer) pairs SyncService is called for
    Prompt,       \* TRUE: the retries of processConnRes outlast peers.add
    MaxAccepts,   \* bound: Accept calls per pair
    MaxSends      \* bound: messages per pair

ASSUME ConstantsAssumption ==
    /\ Invites \subseteq Agents \X Agents
    /\ Synced \subseteq Agents \X Agents
    /\ Senders \subseteq Agents \X Agents
    /\ Queries \subseteq Agents \X Agents
    /\ Prompt \in BOOLEAN
    /\ MaxAccepts \in Nat
    /\ MaxSends \in Nat

VARIABLES
    keys,      \* keyStore: number of the key pair for a peer, 0 when none
    docs,      \* didStore: the key in the DID document for a peer
    peers,     \* peers.store
    syncCons,  \* the Accept call whose channel is stored, 0 when none
    tasks,     \* running calls and the message the listen loop handles
    wire,      \* messages sent and not taken by the receiver's loop yet
    accepts, sends,  \* how many calls the users have made
    polls,     \* the goroutine of SyncService
    up,        \* FALSE once the process has panicked
    unread     \* history: (sender, receiver) of messages that did not open

stores == <<keys, docs, peers, syncCons>>
vars == <<stores, tasks, wire, accepts, sends, polls, up, unread>>

-----------------------------------------------------------------------------
(* Types. *)

\* One pair of keys for each Accept of either side.
Keys == 0..(2 * MaxAccepts)

\* An exchange is named by its connection request; n = 0 is no exchange.
Exch == [by : Agents, to : Agents, n : 0..MaxAccepts]

\* A stored peer; key = 0 while its services are not known.
Peer == [exch : Exch, key : Keys]

Calls == {"accept", "send"}                  \* run for a user
Handlers == {"respond", "confirm", "read"}   \* run by the listen loop

Task == [me : Agents, peer : Agents, kind : Calls \cup Handlers,
         at : {"public", "private", "did", "send", "sending", "sync", "wait",
               "find", "open", "load", "signal"},
         exch : Exch,
         sync : BOOLEAN,             \* run by SyncAccept
         pub : Keys, prv : Keys,     \* own keys read so far
         key : Keys,                 \* the peer's key
         kid : Keys, ok : BOOLEAN,   \* of the message being opened
         chan : 0..MaxAccepts]       \* sync channel to signal

Message == [from : Agents, to : Agents, kind : Calls \cup Handlers,
            exch : Exch, doc : Keys, kid : Keys, ok : BOOLEAN]

Pairs(S) == [Agents -> [Agents -> S]]

TypeOK ==
    /\ keys \in Pairs(Keys)
    /\ docs \in Pairs(Keys)
    /\ peers \in Pairs(Peer)
    /\ syncCons \in Pairs(0..MaxAccepts)
    /\ tasks \subseteq Task
    /\ wire \subseteq Message
    /\ accepts \in Pairs(0..MaxAccepts)
    /\ sends \in Pairs(0..MaxSends)
    /\ polls \in Pairs({"off", "polling", "served", "orphan", "stuck"})
    /\ up \in [Agents -> BOOLEAN]
    /\ unread \subseteq Agents \X Agents

All(v) == [a \in Agents |-> [b \in Agents |-> v]]

Init ==
    /\ keys = All(0) /\ docs = All(0)
    /\ peers = [a \in Agents |-> [b \in Agents |->
                    [exch |-> [by |-> a, to |-> b, n |-> 0], key |-> 0]]]
    /\ syncCons = All(0)
    /\ tasks = {} /\ wire = {}
    /\ accepts = All(0) /\ sends = All(0)
    /\ polls = All("off")
    /\ up = [a \in Agents |-> TRUE]
    /\ unread = {}

-----------------------------------------------------------------------------
(* Tasks. *)

Begun(a, b, kind, at) ==
    [me |-> a, peer |-> b, kind |-> kind, at |-> at,
     exch |-> [by |-> a, to |-> b, n |-> 0], sync |-> FALSE,
     pub |-> 0, prv |-> 0,
     key |-> 0, kid |-> 0, ok |-> TRUE, chan |-> 0]

Running(a, b, kind) ==
    \E t \in tasks : t.me = a /\ t.peer = b /\ t.kind = kind

Goto(t, u) == tasks' = (tasks \ {t}) \cup {u}
Done(t) == tasks' = tasks \ {t}

\* agent.go listen: one message at a time.
LoopIdle(a) == \A t \in tasks : t.me = a => t.kind \notin Handlers

\* Mutant: keys are generated twice.
GenerateKeys_Twice(a, b) == keys' = [keys EXCEPT ![a][b] = @ + 2]

\* keys.go GenerateKeys replaces the key pair for the peer.
GenerateKeys(a, b) == keys' = [keys EXCEPT ![a][b] = @ + 1]

\* keys.go PublicKey.
ReadPublic(t) ==
    /\ t.at = "public"
    /\ Goto(t, [t EXCEPT !.pub = keys[t.me][t.peer], !.at = "private"])
    /\ UNCHANGED <<stores, wire, unread>>

\* keys.go PrivateKey, a second look at the store.
ReadPrivate(t) ==
    /\ t.at = "private"
    /\ Goto(t, [t EXCEPT !.prv = keys[t.me][t.peer],
                         !.at = CASE t.kind \in {"accept", "respond"} -> "did"
                                  [] t.kind = "send" -> "send"
                                  [] OTHER -> "open"])
    /\ UNCHANGED <<stores, wire, unread>>

\* agent.go setConnPrereqs: the document made of the public key is stored.
AddDid(t) ==
    /\ t.at = "did"
    /\ docs' = [docs EXCEPT ![t.me][t.peer] = t.pub]
    /\ Goto(t, [t EXCEPT !.at = "send"])
    /\ UNCHANGED <<keys, peers, syncCons, wire, unread>>

\* dids.go get: the document sent is the one stored now; a text has none.
Document(t) == IF t.kind = "send" THEN 0 ELSE docs[t.me][t.peer]

\* packer.go Pack, for the peer's key and with the keys the call has read.
Packed(t) ==
    [from |-> t.me, to |-> t.peer, kind |-> t.kind, exch |-> t.exch,
     doc |-> Document(t), kid |-> t.key, ok |-> t.pub = t.prv]

\* The message is made, packed, and out once client.Send has it.
SendOut(t) ==
    /\ t.at = "send"
    /\ wire' = wire \cup {Packed(t)}
    /\ Goto(t, [t EXCEPT !.at = "sending"])
    /\ UNCHANGED <<stores, unread>>

\* The receiver's loop has taken the message and the server acknowledged it.
Acked(t) ==
    /\ t.at = "sending"
    /\ ~\E m \in wire : m.from = t.me /\ m.to = t.peer /\ m.kind = t.kind

-----------------------------------------------------------------------------
(* Accept, SyncAccept and SendMessage. *)

\* agent.go Accept up to GenerateKeys.
StartAccept(a, b, sync) ==
    /\ up[a] /\ accepts[a][b] < MaxAccepts
    /\ <<a, b>> \in IF sync THEN Synced ELSE Invites
    /\ ~Running(a, b, "accept")
    /\ accepts' = [accepts EXCEPT ![a][b] = @ + 1]
    /\ GenerateKeys(a, b)
    /\ tasks' = tasks \cup {[Begun(a, b, "accept", "public") EXCEPT
                                !.exch.n = accepts'[a][b], !.sync = sync]}
    /\ UNCHANGED <<docs, peers, syncCons, wire, sends, polls, up, unread>>

\* agent.go Accept: the peer is stored, without services, after the request
\* was acknowledged.
StoreInviter(t) ==
    /\ t.kind = "accept" /\ Acked(t)
    /\ peers' = [peers EXCEPT ![t.me][t.peer] = [exch |-> t.exch, key |-> 0]]
    /\ IF t.sync
       THEN Goto(t, [t EXCEPT !.at = "sync"])
       ELSE Done(t)
    /\ UNCHANGED <<keys, docs, syncCons, wire, unread>>

\* agent.go SyncAccept: a channel is stored, never to be removed, and read.
StoreChannel(t) ==
    /\ t.at = "sync"
    /\ syncCons' = [syncCons EXCEPT ![t.me][t.peer] = t.exch.n]
    /\ Goto(t, [t EXCEPT !.at = "wait"])
    /\ UNCHANGED <<keys, docs, peers, wire, unread>>

\* agent.go SendMessage: without a key for the peer it fails.
StartSend(a, b) ==
    /\ up[a] /\ <<a, b>> \in Senders /\ sends[a][b] < MaxSends
    /\ ~Running(a, b, "send")
    /\ peers[a][b].key > 0
    /\ sends' = [sends EXCEPT ![a][b] = @ + 1]
    /\ tasks' = tasks \cup {[Begun(a, b, "send", "public") EXCEPT
                                !.key = peers[a][b].key]}
    /\ UNCHANGED <<stores, wire, accepts, polls, up, unread>>

FinishSend(t) ==
    /\ t.kind = "send" /\ Acked(t)
    /\ Done(t)
    /\ UNCHANGED <<stores, wire, unread>>

-----------------------------------------------------------------------------
(* The listen loop. *)

Take(m) ==
    /\ up[m.to] /\ LoopIdle(m.to)
    /\ wire' = wire \ {m}

\* agent.go processConnReq up to GenerateKeys; a document that does not open
\* ends it.
TakeRequest(m) ==
    /\ m.kind = "accept" /\ Take(m)
    /\ IF m.ok
       THEN /\ GenerateKeys(m.to, m.from)
            /\ tasks' = tasks \cup {[Begun(m.to, m.from, "respond", "public")
                                    EXCEPT !.exch = m.exch, !.key = m.doc]}
       ELSE UNCHANGED <<keys, tasks>>
    /\ UNCHANGED <<docs, peers, syncCons, unread>>

\* Mutant: the peer is stored as by Accept, without its services.
StoreAccepter_NoServices(t) ==
    /\ t.kind = "respond" /\ Acked(t)
    /\ peers' = [peers EXCEPT ![t.me][t.peer] = [exch |-> t.exch, key |-> 0]]
    /\ Done(t)
    /\ UNCHANGED <<keys, docs, syncCons, wire, unread>>

\* agent.go processConnReq: the peer is stored after the response was
\* acknowledged.
StoreAccepter(t) ==
    /\ t.kind = "respond" /\ Acked(t)
    /\ peers' = [peers EXCEPT ![t.me][t.peer] =
                    [exch |-> t.exch, key |-> t.key]]
    /\ Done(t)
    /\ UNCHANGED <<keys, docs, syncCons, wire, unread>>

\* agent.go processConnRes.
TakeResponse(m) ==
    /\ m.kind = "respond" /\ Take(m)
    /\ tasks' = tasks \cup {[Begun(m.to, m.from, "confirm", "find") EXCEPT
                   !.exch = m.exch, !.key = m.doc, !.kid = m.kid, !.ok = m.ok]}
    /\ UNCHANGED <<stores, unread>>

\* peers.go peerByExchId.
PeersByExch(a, exch) == {b \in Agents : peers[a][b].exch = exch}

\* Mutant: the peer is looked up once, without retries.
FindPeer_NoRetry(t) ==
    LET found == PeersByExch(t.me, t.exch) IN
    /\ t.at = "find"
    /\ \/ \E b \in found : Goto(t, [t EXCEPT !.peer = b, !.at = "public"])
       \/ found = {} /\ Done(t)
    /\ UNCHANGED <<stores, wire, unread>>

\* processConnRes: tried again until the retries are used up.  Prompt says
\* that they last as long as the call that will store the peer; in the code
\* there are domain.RetryCount of them, whatever that call does.
FindPeer(t) ==
    LET found == PeersByExch(t.me, t.exch) IN
    /\ t.at = "find"
    /\ \/ \E b \in found : Goto(t, [t EXCEPT !.peer = b, !.at = "public"])
       \/ /\ found = {}
          /\ Prompt => ~\E w \in tasks : w.kind = "accept" /\ w.exch = t.exch
          /\ Done(t)
    /\ UNCHANGED <<stores, wire, unread>>

Opens(t) == t.ok /\ t.pub = t.kid /\ t.prv = t.kid

\* Mutant: the peer is not stored again.
StoreServices_NotStored(t) ==
    /\ t.kind = "confirm" /\ t.at = "open"
    /\ IF Opens(t) THEN Goto(t, [t EXCEPT !.at = "load"]) ELSE Done(t)
    /\ UNCHANGED <<stores, wire, unread>>

\* Mutant: setConnPrereqs is called for the response too.
StoreServices_NewKeys(t) ==
    /\ t.kind = "confirm" /\ t.at = "open"
    /\ IF Opens(t)
       THEN /\ peers' = [peers EXCEPT ![t.me][t.peer] =
                            [exch |-> t.exch, key |-> t.key]]
            /\ GenerateKeys(t.me, t.peer)
            /\ Goto(t, [t EXCEPT !.at = "load"])
       ELSE Done(t) /\ UNCHANGED <<keys, peers>>
    /\ UNCHANGED <<docs, syncCons, wire, unread>>

\* processConnRes: the document is opened and the peer's services stored.
StoreServices(t) ==
    /\ t.kind = "confirm" /\ t.at = "open"
    /\ IF Opens(t)
       THEN /\ peers' = [peers EXCEPT ![t.me][t.peer] =
                            [exch |-> t.exch, key |-> t.key]]
            /\ Goto(t, [t EXCEPT !.at = "load"])
       ELSE Done(t) /\ UNCHANGED peers
    /\ UNCHANGED <<keys, docs, syncCons, wire, unread>>

\* Mutant: the channel is written to whether there is one or not.
LoadChannel_Always(t) ==
    /\ t.at = "load"
    /\ Goto(t, [t EXCEPT !.at = "signal", !.chan = syncCons[t.me][t.peer]])
    /\ UNCHANGED <<stores, wire, unread>>

\* processConnRes: the channel, if there is one, ...
LoadChannel(t) ==
    /\ t.at = "load"
    /\ IF syncCons[t.me][t.peer] = 0
       THEN Done(t)
       ELSE Goto(t, [t EXCEPT !.at = "signal", !.chan = syncCons[t.me][t.peer]])
    /\ UNCHANGED <<stores, wire, unread>>

\* The calls that read the channel t writes to.
Readers(t) ==
    {w \in tasks : /\ w.me = t.me /\ w.peer = t.peer /\ w.kind = "accept"
                   /\ w.at = "wait" /\ w.exch.n = t.chan}

\* ... is written to, which waits until it is read.
Signal(t) ==
    /\ t.at = "signal"
    /\ \E w \in Readers(t) : tasks' = tasks \ {t, w}
    /\ UNCHANGED <<stores, wire, unread>>

\* agent.go ReadMessage: the receiver finds the peer by the key (keys.go Peer)
\* and reads the keys of that peer again.
TakeMessage(m) ==
    /\ m.kind = "send" /\ Take(m)
    /\ IF keys[m.to][m.from] = m.kid
       THEN /\ tasks' = tasks \cup {[Begun(m.to, m.from, "read", "public")
                                    EXCEPT !.kid = m.kid, !.ok = m.ok]}
            /\ UNCHANGED unread
       ELSE /\ unread' = unread \cup {<<m.from, m.to>>}
            /\ UNCHANGED tasks
    /\ UNCHANGED stores

OpenMessage(t) ==
    /\ t.kind = "read" /\ t.at = "open"
    /\ Done(t)
    /\ unread' = IF Opens(t) THEN unread ELSE unread \cup {<<t.peer, t.me>>}
    /\ UNCHANGED <<stores, wire>>

-----------------------------------------------------------------------------
(* SyncService: a goroutine asks for the service until it has it. *)

StartQuery(a, b) ==
    /\ up[a] /\ <<a, b>> \in Queries /\ polls[a][b] = "off"
    /\ polls' = [polls EXCEPT ![a][b] = "polling"]
    /\ UNCHANGED <<stores, tasks, wire, accepts, sends, up, unread>>

\* agent.go Service: a peer without services is a nil dereference.  Found
\* after the timeout, the service is written to a channel nobody reads.
Ask(a, b) ==
    /\ up[a] /\ polls[a][b] \in {"polling", "orphan"}
    /\ peers[a][b].exch.n > 0
    /\ IF peers[a][b].key = 0
       THEN up' = [up EXCEPT ![a] = FALSE] /\ UNCHANGED polls
       ELSE /\ polls' = [polls EXCEPT ![a][b] =
                            IF @ = "polling" THEN "served" ELSE "stuck"]
            /\ UNCHANGED up
    /\ UNCHANGED <<stores, tasks, wire, accepts, sends, unread>>

TimeOut(a, b) ==
    /\ up[a] /\ polls[a][b] = "polling"
    /\ polls' = [polls EXCEPT ![a][b] = "orphan"]
    /\ UNCHANGED <<stores, tasks, wire, accepts, sends, up, unread>>

-----------------------------------------------------------------------------

\* The next step of a running call or handler.
Step(t) ==
    /\ up[t.me]
    /\ \/ ReadPublic(t) \/ ReadPrivate(t) \/ AddDid(t) \/ SendOut(t)
       \/ StoreInviter(t) \/ StoreChannel(t) \/ FinishSend(t)
       \/ StoreAccepter(t)
       \/ FindPeer(t) \/ StoreServices(t) \/ LoadChannel(t) \/ Signal(t)
       \/ OpenMessage(t)
    /\ UNCHANGED <<accepts, sends, polls, up>>

Receive(m) ==
    /\ TakeRequest(m) \/ TakeResponse(m) \/ TakeMessage(m)
    /\ UNCHANGED <<accepts, sends, polls, up>>

Command(a, b) ==
    \/ \E sync \in BOOLEAN : StartAccept(a, b, sync)
    \/ StartSend(a, b) \/ StartQuery(a, b)

Next ==
    \/ \E a, b \in Agents : Command(a, b) \/ Ask(a, b) \/ TimeOut(a, b)
    \/ \E t \in tasks : Step(t)
    \/ \E m \in wire : Receive(m)

Spec == Init /\ [][Next]_vars

StepOf(a, b, kind) ==
    \E t \in tasks : t.me = a /\ t.peer = b /\ t.kind = kind /\ Step(t)
LoopStep(a) == \E t \in tasks : t.me = a /\ t.kind \in Handlers /\ Step(t)
Listen(a) == \E m \in wire : m.to = a /\ Receive(m)

\* Goroutines that can go on do, and a listen loop that is free takes some
\* message that is there.
Fairness ==
    /\ \A a \in Agents : WF_vars(LoopStep(a)) /\ WF_vars(Listen(a))
    /\ \A p \in Invites \cup Synced : WF_vars(StepOf(p[1], p[2], "accept"))
    /\ \A p \in Senders : WF_vars(StepOf(p[1], p[2], "send"))

FairSpec == Spec /\ Fairness

-----------------------------------------------------------------------------
(* Safety. *)

\* No step is left but for SyncAccept calls nobody will wake up.
Quiet == wire = {} /\ \A t \in tasks : t.at = "wait"

\* Each of the two uses the key the other one has for it.
Connected(a, b) ==
    /\ peers[a][b].key > 0 /\ peers[a][b].key = keys[b][a]
    /\ peers[b][a].key > 0 /\ peers[b][a].key = keys[a][b]

\* The users connected the two only once.
Once(a, b) == accepts[a][b] + accepts[b][a] <= 1

\* One accept is enough: whenever the agents come to rest, both of them have
\* stored the other under the same exchange and with its present key, although
\* the response may overtake the peers.add of Accept, and the messages of
\* other exchanges come in between.
OnceConnected ==
    Quiet => \A a, b \in Agents :
        peers[a][b].exch.n > 0 /\ Once(a, b) =>
            Connected(a, b) /\ peers[a][b].exch = peers[b][a].exch

\* A message of SendMessage is opened by ReadMessage if the two were connected
\* once: the key the sender keeps and the pair the receiver keeps, replaced by
\* either side's later accepts, do not come apart by themselves.
OnceReadable == \A p \in unread : ~Once(p[1], p[2])

\* processConnRes writes to the channel of SyncAccept from within the listen
\* loop.  Nobody reads it only if the same peer's invitation was accepted more
\* than once (syncCons is never cleared).
OnlyRepeatsWedge ==
    \A t \in tasks : t.at = "signal" /\ Readers(t) = {} =>
        accepts[t.me][t.peer] > 1

\* Service panics for a peer without services.  An agent that has accepted no
\* invitation never stores such a peer, whatever the others do.
OnlyAccepterPanics ==
    \A a \in Agents : ~up[a] => \E b \in Agents : accepts[a][b] > 0

\* b has taken a's request and goes on to store a's present key.
Answering(b, a) ==
    \E r \in tasks : /\ r.me = b /\ r.peer = a /\ r.kind = "respond"
                     /\ r.key = keys[a][b]

\* When SyncAccept returns, the inviter's present key is stored, and the
\* inviter has stored, or is about to store, the accepter's.
SyncSound ==
    [][\A t \in tasks : t.at = "wait" /\ t \notin tasks' /\ Once(t.me, t.peer) =>
          /\ peers[t.me][t.peer].key = keys[t.peer][t.me]
          /\ \/ peers[t.peer][t.me].key = keys[t.me][t.peer]
             \/ Answering(t.peer, t.me)]_vars

-----------------------------------------------------------------------------
(* Liveness. *)

\* An Accept leads to a connection both sides can use.
AcceptConnects ==
    \A a, b \in Agents : Running(a, b, "accept") ~> Connected(a, b)

\* The listen loop, which sends responses and signals channels itself, always
\* comes back to its select.
LoopGoesOn == \A a \in Agents : []<>LoopIdle(a)

=============================================================================
