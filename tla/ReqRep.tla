-------------------------------- MODULE ReqRep --------------------------------
(***************************************************************************)
(* Requests between agents over REQ and REP sockets (reqrep/zmq): Send of  *)
(* the client, the sender goroutine that owns the socket to an endpoint,   *)
(* the server that answers one request at a time, and the goroutines it    *)
(* hands messages to, one of which answers a request with a request of its *)
(* own.  Feature discovery (didcomm/discovery) is modelled to its answer;  *)
(* the stop of an agent (container Stop) as far as the client takes part.  *)
(*                                                                         *)
(* Abstractions.  An endpoint is its agent.  Handlers are registered       *)
(* before the server starts and every message sent has one, so the failed  *)
(* acknowledgement is not reachable.  The prober loop returns from what it *)
(* handles once its own requests do (DidExchange has the cases where it    *)
(* does not).  ZeroMQ loses a message only with the process that sent it.  *)
(***************************************************************************)
EXTENDS Naturals, Sequences, SequencesExt, FiniteSets

CONSTANTS
    Agents,    \* the agents
    Uses,      \* (from, to, kind): requests that users and goroutines make
    Queries,   \* queries for features
    Stoppers,  \* agents that may be stopped
    MaxCalls   \* bound: requests, without those the prober loop makes

VARIABLES
    call,      \* requests, in the order they are made
    chanMap,   \* Client.chanMap: per endpoint the sender stored, 0 when none
    sender,    \* the sender goroutine that a Send has started
    server,    \* the request the server is at, 0 when it receives
    loop,      \* the message a loop handles, 0 when it waits for one
    stop,      \* how far Stop is
    left,      \* endpoints that Range of Close has yet to visit
    at,        \* the sender that Close is terminating, 0 when none
    overlap,   \* history: pairs with two first Sends at the same time
    owed       \* history: the senders that were stored when Stop began

clientVars == <<chanMap, sender>>
stopVars == <<stop, left, at, owed>>
vars == <<call, clientVars, server, loop, stopVars, overlap>>

-----------------------------------------------------------------------------
(* Types.  A request made while the prober loop handles request c has the  *)
(* number MaxCalls + c.  A sender has the number of the request whose Send *)
(* started it.                                                             *)

Users == 1..MaxCalls
Calls == 1..(2 * MaxCalls)

Async == {"connReq", "connRes", "data", "statusAck"}
Kinds == Async \cup {"query", "join", "subscribe"}
Loops == {"prober", "peers", "discovery"}

\* send: blocked on the channel of the sender; sent: in the sockets; held: the
\* server waits for a goroutine to take it; handling: the server waits for the
\* reply; dropped: the handler has ended without one.
Steps == {"send", "sent", "held", "handling", "dropped", "lost", "answered",
          "returned"}

Token == {"base", "*", "out-of-band", "didexchange", "pub-sub"}
Features == {<<"base", "out-of-band">>, <<"base", "didexchange">>,
             <<"base", "pub-sub">>}

ASSUME ConstantsAssumption ==
    /\ Uses \subseteq Agents \X Agents \X Kinds
    /\ Queries \subseteq Seq(Token)
    /\ Stoppers \subseteq Agents
    /\ MaxCalls \in Nat

NoCall == [pc |-> "none"]
Call == [from : Agents, to : Agents, kind : Kinds, query : Queries \cup {<<>>},
         via : Calls, pc : Steps, res : SUBSET Features]

TypeOK ==
    /\ call \in [Calls -> Call \cup {NoCall}]
    /\ chanMap \in [Agents -> [Agents -> {0} \cup Calls]]
    /\ sender \in [Calls -> {"none", "starting", "idle", "busy", "ended"}]
    /\ server \in [Agents -> {0} \cup Calls]
    /\ loop \in [Agents -> [Loops -> {0} \cup Calls]]
    /\ stop \in [Agents -> {"no", "closing", "exited"}]
    /\ left \in [Agents -> SUBSET Agents]
    /\ at \in [Agents -> {0} \cup Calls]
    /\ overlap \subseteq Agents \X Agents
    /\ owed \in [Agents -> SUBSET Calls]

Init ==
    /\ call = [c \in Calls |-> NoCall]
    /\ chanMap = [a \in Agents |-> [b \in Agents |-> 0]]
    /\ sender = [c \in Calls |-> "none"]
    /\ server = [a \in Agents |-> 0]
    /\ loop = [a \in Agents |-> [l \in Loops |-> 0]]
    /\ stop = [a \in Agents |-> "no"]
    /\ left = [a \in Agents |-> {}]
    /\ at = [a \in Agents |-> 0]
    /\ overlap = {}
    /\ owed = [a \in Agents |-> {}]

Up(a) == stop[a] # "exited"
Made(c) == call[c].pc # "none"
Step(c, pc) == call' = [call EXCEPT ![c].pc = pc]

-----------------------------------------------------------------------------
(* Client. *)

Between(c, a, b) == call[c].from = a /\ call[c].to = b

\* Senders that a Send has started and that have not stored their channel.
Starting(a, b) == {c \in Calls : sender[c] = "starting" /\ Between(c, a, b)}

Send_New(c, a, b, k, q) ==   \* mutant
    /\ Up(a)
    /\ ~Made(c)
    /\ call' = [call EXCEPT ![c] = [from |-> a, to |-> b, kind |-> k,
         query |-> q, pc |-> "send", via |-> c, res |-> {}]]
    /\ sender' = [sender EXCEPT ![c] = "starting"]
    /\ overlap' = IF Starting(a, b) = {} THEN overlap
                  ELSE overlap \cup {<<a, b>>}
    /\ UNCHANGED <<chanMap, server, loop, stopVars>>

\* Send: the sender is looked up, and started when there is none.
Send(c, a, b, k, q) ==
    /\ Up(a)
    /\ ~Made(c)
    /\ LET known == chanMap[a][b] # 0 IN
        /\ call' = [call EXCEPT ![c] =
             [from |-> a, to |-> b, kind |-> k, query |-> q, pc |-> "send",
              via |-> IF known THEN chanMap[a][b] ELSE c, res |-> {}]]
        /\ sender' = IF known THEN sender
                     ELSE [sender EXCEPT ![c] = "starting"]
        /\ overlap' = IF known \/ Starting(a, b) = {} THEN overlap
                      ELSE overlap \cup {<<a, b>>}
    /\ UNCHANGED <<chanMap, server, loop, stopVars>>

\* initSendr stores the channel and connects.
StartSender(c) ==
    /\ sender[c] = "starting"
    /\ Up(call[c].from)
    /\ chanMap' = [chanMap EXCEPT ![call[c].from][call[c].to] = c]
    /\ sender' = [sender EXCEPT ![c] = "idle"]
    /\ UNCHANGED <<call, server, loop, stopVars, overlap>>

\* The sender receives a request from its channel and sends it.
Transmit(c) ==
    /\ call[c].pc = "send"
    /\ Up(call[c].from)
    /\ sender[call[c].via] = "idle"
    /\ sender' = [sender EXCEPT ![call[c].via] = "busy"]
    /\ Step(c, "sent")
    /\ UNCHANGED <<chanMap, server, loop, stopVars, overlap>>

Return_Once(c) ==   \* mutant
    /\ call[c].pc = "answered"
    /\ Up(call[c].from)
    /\ sender' = [sender EXCEPT ![call[c].via] = "ended"]
    /\ Step(c, "returned")
    /\ UNCHANGED <<chanMap, server, loop, stopVars, overlap>>

Return_KeepBusy(c) ==   \* mutant
    /\ call[c].pc = "answered"
    /\ Up(call[c].from)
    /\ Step(c, "returned")
    /\ UNCHANGED <<clientVars, server, loop, stopVars, overlap>>

\* The sender receives the answer and gives it to Send, which returns.
Return(c) ==
    /\ call[c].pc = "answered"
    /\ Up(call[c].from)
    /\ sender' = [sender EXCEPT ![call[c].via] = "idle"]
    /\ Step(c, "returned")
    /\ UNCHANGED <<chanMap, server, loop, stopVars, overlap>>

-----------------------------------------------------------------------------
(* Server. *)

At(a, pc) == server[a] # 0 /\ call[server[a]].pc = pc

Receive(a, c) ==
    /\ Up(a)
    /\ server[a] = 0
    /\ call[c].pc = "sent"
    /\ call[c].to = a
    /\ server' = [server EXCEPT ![a] = c]
    /\ Step(c, "held")
    /\ UNCHANGED <<clientVars, loop, stopVars, overlap>>

LoopOf(k) ==
    CASE k = "statusAck" -> "peers"
      [] k = "query" -> "discovery"
      [] OTHER -> "prober"

\* The loop takes the message; the server acknowledges it at once.
TakeAsync(a) ==
    /\ Up(a)
    /\ At(a, "held")
    /\ LET c == server[a]
           l == LoopOf(call[c].kind)
       IN
        /\ call[c].kind \in Async
        /\ loop[a][l] = 0
        /\ loop' = [loop EXCEPT ![a][l] = c]
        /\ Step(c, "answered")
    /\ server' = [server EXCEPT ![a] = 0]
    /\ UNCHANGED <<clientVars, stopVars, overlap>>

\* The discovery loop takes a query; the server waits for the reply.
TakeQuery(a) ==
    /\ Up(a)
    /\ At(a, "held")
    /\ call[server[a]].kind = "query"
    /\ loop[a]["discovery"] = 0
    /\ loop' = [loop EXCEPT ![a]["discovery"] = server[a]]
    /\ Step(server[a], "handling")
    /\ UNCHANGED <<clientVars, server, stopVars, overlap>>

\* process of pubsub/agent.go starts a goroutine for each message.
TakeGroup(a) ==
    /\ Up(a)
    /\ At(a, "held")
    /\ call[server[a]].kind \in {"join", "subscribe"}
    /\ Step(server[a], "handling")
    /\ UNCHANGED <<clientVars, server, loop, stopVars, overlap>>

-----------------------------------------------------------------------------
(* Handlers. *)

ProcessQuery_Echo(q) ==   \* mutant
    IF q \in {<<>>, <<"*">>} THEN Features ELSE {q}

ProcessQuery_Star(q) ==   \* mutant
    CASE q \in {<<>>, <<"*">>} -> Features
      [] q \notin {<<>>, <<"*">>} /\ ~Contains(q, "base") -> {}
      [] OTHER -> IF Last(q) = "*" THEN {f \in Features : IsPrefix(q, f)}
                  ELSE {f \in Features : f = q}

\* processQuery.
ProcessQuery(q) ==
    CASE q \in {<<>>, <<"*">>} -> Features
      [] q \notin {<<>>, <<"*">>} /\ ~Contains(q, "base") -> {}
      [] OTHER -> IF Last(q) = "*"
                  THEN {f \in Features : IsPrefix(Front(q), f)}
                  ELSE {f \in Features : f = q}

\* Disclose, and the reply of the discovery loop.
Disclose(a) ==
    /\ Up(a)
    /\ loop[a]["discovery"] # 0
    /\ LET c == loop[a]["discovery"] IN
        call' = [call EXCEPT ![c].res = ProcessQuery(call[c].query),
                             ![c].pc = "answered"]
    /\ server' = [server EXCEPT ![a] = 0]
    /\ loop' = [loop EXCEPT ![a]["discovery"] = 0]
    /\ UNCHANGED <<clientVars, stopVars, overlap>>

\* joinReqs and subscriptions reply when they succeed.
Reply(a) ==
    /\ Up(a)
    /\ At(a, "handling")
    /\ call[server[a]].kind \in {"join", "subscribe"}
    /\ Step(server[a], "answered")
    /\ server' = [server EXCEPT ![a] = 0]
    /\ UNCHANGED <<clientVars, loop, stopVars, overlap>>

Fail(a) ==
    /\ Up(a)
    /\ At(a, "handling")
    /\ call[server[a]].kind \in {"join", "subscribe"}
    /\ Step(server[a], "dropped")
    /\ UNCHANGED <<clientVars, server, loop, stopVars, overlap>>

\* processConnReq answers a connection request with a connection response.
Respond(a) ==
    LET c == loop[a]["prober"] IN
    /\ c \in Users
    /\ call[c].kind = "connReq"
    /\ Send(MaxCalls + c, a, call[c].from, "connRes", <<>>)

\* A loop returns to its channels.
Finish(a, l) ==
    /\ Up(a)
    /\ loop[a][l] # 0
    /\ l # "discovery"
    /\ call[loop[a][l]].kind = "connReq" =>
         call[MaxCalls + loop[a][l]].pc = "returned"
    /\ loop' = [loop EXCEPT ![a][l] = 0]
    /\ UNCHANGED <<call, clientVars, server, stopVars, overlap>>

-----------------------------------------------------------------------------
(* Stop: Close of the client sends a terminate request to every sender.    *)

BeginStop(a) ==
    /\ a \in Stoppers
    /\ stop[a] = "no"
    /\ stop' = [stop EXCEPT ![a] = "closing"]
    /\ left' = [left EXCEPT ![a] = Agents]
    /\ owed' = [owed EXCEPT ![a] = {chanMap[a][b] : b \in Agents} \ {0}]
    /\ UNCHANGED <<call, clientVars, server, loop, at, overlap>>

Visit_NoWait(a, b) ==   \* mutant
    /\ Up(a)
    /\ at[a] = 0
    /\ b \in left[a]
    /\ left' = [left EXCEPT ![a] = @ \ {b}]
    /\ at' = [at EXCEPT ![a] =
         IF chanMap[a][b] # 0 /\ sender[chanMap[a][b]] = "idle"
         THEN chanMap[a][b] ELSE 0]
    /\ UNCHANGED <<call, clientVars, server, loop, stop, owed, overlap>>

\* Range visits the next endpoint, in any order, with the sender it has now.
Visit(a, b) ==
    /\ Up(a)
    /\ at[a] = 0
    /\ b \in left[a]
    /\ left' = [left EXCEPT ![a] = @ \ {b}]
    /\ at' = [at EXCEPT ![a] = chanMap[a][b]]
    /\ UNCHANGED <<call, clientVars, server, loop, stop, owed, overlap>>

\* The sender receives the terminate request.
Terminate(a) ==
    /\ Up(a)
    /\ at[a] # 0
    /\ sender[at[a]] = "idle"
    /\ sender' = [sender EXCEPT ![at[a]] = "ended"]
    /\ at' = [at EXCEPT ![a] = 0]
    /\ UNCHANGED <<call, chanMap, server, loop, stop, left, owed, overlap>>

\* The process exits; messages it has sent may be lost with it.
Exit(a) ==
    /\ stop[a] = "closing"
    /\ left[a] = {}
    /\ at[a] = 0
    /\ stop' = [stop EXCEPT ![a] = "exited"]
    /\ \E lost \in SUBSET {c \in Calls : call[c].pc = "sent" /\ call[c].from = a} :
         call' = [c \in Calls |-> IF c \in lost THEN [call[c] EXCEPT !.pc = "lost"]
                                  ELSE call[c]]
    /\ UNCHANGED <<clientVars, server, loop, left, at, owed, overlap>>

-----------------------------------------------------------------------------

\* Requests are numbered in the order they are made.
Use(c) ==
    /\ \A d \in Users : d < c => Made(d)
    /\ \E u \in Uses :
         \E q \in IF u[3] = "query" THEN Queries ELSE {<<>>} :
             Send(c, u[1], u[2], u[3], q)

Work ==
    \/ \E c \in Calls : StartSender(c) \/ Transmit(c) \/ Return(c)
    \/ \E a \in Agents :
         \/ \E c \in Calls : Receive(a, c)
         \/ TakeAsync(a) \/ TakeQuery(a) \/ TakeGroup(a)
         \/ Disclose(a) \/ Reply(a) \/ Fail(a) \/ Respond(a)
         \/ \E l \in Loops : Finish(a, l)
         \/ \E b \in Agents : Visit(a, b)
         \/ Terminate(a) \/ Exit(a)

Next ==
    \/ \E c \in Users : Use(c)
    \/ \E a \in Agents : BeginStop(a)
    \/ Work

Spec == Init /\ [][Next]_vars

\* Goroutines that can go on do; each sender and loop by itself.  Nobody has
\* to make a request or to stop an agent, and every step of Work is taken a
\* bounded number of times, so fairness of Work is fairness of each step.
FairSpec == Spec /\ WF_vars(Work)
-----------------------------------------------------------------------------
(* Properties. *)

\* A sender sends a request only when the one before is answered, and an agent
\* keeps one sender per peer: two requests of an agent are under way to the
\* same peer only if two of its first Sends to it ran at the same time
\* (client.go 41-46, 73).
OneInFlight ==
    \A a, b \in Agents :
        <<a, b>> \in overlap
        \/ Cardinality({c \in Calls : Made(c) /\ Between(c, a, b)
               /\ call[c].pc \notin {"send", "returned"}}) <= 1

\* What a query pattern means: a wild card stands for any stretch of a feature,
\* another token for itself.  cut[i] tokens of f come before the i-th of q.  (A
\* comment of discovery/handler.go names what the code neglects: wild cards
\* elsewhere than at the end.)
Glob(q, f) ==
    \E cut \in [1..(Len(q) + 1) -> 0..Len(f)] :
        /\ cut[1] = 0 /\ cut[Len(q) + 1] = Len(f)
        /\ \A i \in 1..Len(q) :
             IF q[i] = "*" THEN cut[i] <= cut[i + 1]
                           ELSE cut[i + 1] = cut[i] + 1 /\ f[cut[i + 1]] = q[i]

\* A query is answered with the features it matches, no more, and with all of
\* them unless it has a wild card before its end or names no didcomm.org
\* feature (processQuery); the answer is that of the agent's own query, however
\* many run at the same time.
AnswersMatch ==
    \A c \in Calls :
        (call[c].pc \in {"answered", "returned"} /\ call[c].kind = "query"
            /\ call[c].query # <<>>)
        => LET q == call[c].query
               matching == {f \in Features : Glob(q, f)}
           IN /\ call[c].res \subseteq matching
              /\ (\A i \in 1..(Len(q) - 1) : q[i] # "*")
                   /\ (q = <<"*">> \/ Contains(q, "base"))
                   => call[c].res = matching

\* "graceful shutdown of agent completed": when the process exits, every sender
\* that was stored when Stop began has ended, and so none of them leaves a
\* request without its answer; one that a second first Send has replaced is
\* forgotten (init.go 44-61, client.go 124-136).
StopsGracefully ==
    \A a \in Agents : stop[a] = "exited" =>
        \A s \in owed[a] : sender[s] = "ended" \/ <<a, call[s].to>> \in overlap

\* The prober loop of x waits for the answer of y to a request of its own.
Waits(x, y) ==
    \E c \in Calls : c > MaxCalls /\ Made(c) /\ Between(c, x, y)
                       /\ call[c].pc # "returned"

\* x has exited, its server waits for a handler that has failed, or its prober
\* loop waits for an agent that is blocked, round a circle perhaps.
Blocked(x) ==
    \E S \in SUBSET Agents :
        /\ x \in S
        /\ \A y \in S : ~Up(y) \/ At(y, "dropped") \/ \E z \in S : Waits(y, z)

\* A request is answered unless the agent that makes it stops, or the one it is
\* sent to comes to be blocked and stays so: nothing else in client, server and
\* loops holds a request for ever, and no agents that only wait for each other
\* for a while do.
CallsReturn ==
    \A c \in Calls : Made(c) ~>
        \/ call[c].pc = "returned"
        \/ Made(c) /\ stop[call[c].from] # "no"
        \/ [](Made(c) /\ Blocked(call[c].to))

\* Stop ends the process unless, from some time on, one of its requests waits
\* for a blocked agent.
StopExits ==
    \A a \in Stoppers : stop[a] = "closing" ~>
        \/ stop[a] = "exited"
        \/ [](\E c \in Calls : call[c].pc \notin {"none", "send", "returned"}
                 /\ call[c].from = a /\ Blocked(call[c].to))

=============================================================================
