----------------------------- MODULE ReqRepProof -----------------------------
(***************************************************************************)
(* Theorems about ReqRep for any agents and any number of requests.        *)
(***************************************************************************)
EXTENDS ReqRep, SequenceTheorems, FiniteSetTheorems, TLAPS

-----------------------------------------------------------------------------
(* The inductive invariant. *)

InFlight(c) == call[c].pc \notin {"none", "send", "returned"}

Started(c) == sender[c] # "none"

Stored(c) == sender[c] \in {"idle", "busy", "ended"}

\* What a loop handles, and what a sender was started for, are requests.
MadeInv ==
    /\ \A a \in Agents, l \in Loops : loop[a][l] # 0 => Made(loop[a][l])
    /\ \A c \in Calls : Started(c) => Made(c)

TypeInv == TypeOK /\ MadeInv

\* The server is at a request to its own agent, and the discovery loop at a
\* query that its server waits for.
ServerInv ==
    \A a \in Agents :
        /\ server[a] # 0 => Made(server[a]) /\ call[server[a]].to = a
        /\ loop[a]["discovery"] # 0 =>
             /\ call[loop[a]["discovery"]].pc = "handling"
             /\ call[loop[a]["discovery"]].kind = "query"
             /\ call[loop[a]["discovery"]].to = a

\* A request is sent by a sender between its own two agents.  A sender that is
\* past its start has been stored, and without an overlap it is the only one.
SenderInv ==
    /\ \A c \in Calls : Made(c) =>
         /\ Started(call[c].via)
         /\ call[call[c].via].from = call[c].from
         /\ call[call[c].via].to = call[c].to
    /\ \A a, b \in Agents : chanMap[a][b] # 0 =>
         Stored(chanMap[a][b]) /\ Between(chanMap[a][b], a, b)
    /\ \A c \in Calls : Stored(c) => chanMap[call[c].from][call[c].to] # 0
    /\ \A c, d \in Calls :
         Started(c) /\ Started(d) /\ call[c].from = call[d].from /\ call[c].to = call[d].to
         => c = d \/ <<call[c].from, call[c].to>> \in overlap

\* A request under way keeps its sender busy, and is the only one that does.
FlightInv ==
    /\ \A c \in Calls : InFlight(c) => sender[call[c].via] = "busy"
    /\ \A c, d \in Calls :
         InFlight(c) /\ InFlight(d) /\ call[c].via = call[d].via => c = d

\* A sender that Close owes its end is yet to be visited, is being terminated,
\* has ended, or has been replaced; when the process has exited, none is yet to
\* be visited or being terminated.
OwedInv ==
    \A a \in Agents : \A s \in owed[a] :
        /\ Stored(s) /\ call[s].from = a
        /\ stop[a] # "no" =>
             \/ call[s].to \in left[a]
             \/ at[a] = s
             \/ sender[s] = "ended"
             \/ <<a, call[s].to>> \in overlap

ExitInv == \A a \in Agents : stop[a] = "exited" => left[a] = {} /\ at[a] = 0

StopInv == OwedInv /\ ExitInv

ReqRepInv == TypeInv /\ ServerInv /\ SenderInv /\ FlightInv /\ StopInv

-----------------------------------------------------------------------------
(* Facts about states. *)

LEMMA NoCallApart == NoCall \notin Call /\ NoCall.pc = "none"
BY DEF NoCall, Call, Steps

LEMMA CallThere ==
    ASSUME TypeOK, NEW c \in Calls
    PROVE  /\ Made(c) => call[c] \in Call
           /\ ~Made(c) => call[c] = NoCall
BY DEF TypeOK, Made, NoCall, Call, Steps

LEMMA NumbersApart ==
    /\ \A c \in Calls : c # 0
    /\ Users \subseteq Calls
    /\ \A c \in Users : MaxCalls + c \in Calls
BY ConstantsAssumption DEF Calls, Users

LEMMA AtMostOne ==
    ASSUME NEW S, \A x, y \in S : x = y
    PROVE  Cardinality(S) <= 1
<1>1. CASE S = {}
  BY <1>1, FS_EmptySet
<1>2. CASE S # {}
  <2>1. PICK x \in S : S = {x}
    BY <1>2
  <2> QED BY <2>1, FS_Singleton
<1> QED BY <1>1, <1>2

LEMMA InvOneInFlight == ReqRepInv => OneInFlight
<1> SUFFICES ASSUME ReqRepInv, NEW a \in Agents, NEW b \in Agents,
                    <<a, b>> \notin overlap
             PROVE  Cardinality({c \in Calls : Made(c) /\ Between(c, a, b)
                       /\ call[c].pc \notin {"send", "returned"}}) <= 1
  BY DEF OneInFlight
<1> DEFINE S == {c \in Calls : Made(c) /\ Between(c, a, b)
                     /\ call[c].pc \notin {"send", "returned"}}
<1>1. ASSUME NEW c \in S, NEW d \in S PROVE c = d
  <2>1. /\ c \in Calls /\ d \in Calls /\ Made(c) /\ Made(d) /\ InFlight(c) /\ InFlight(d)
        /\ call[c].from = a /\ call[c].to = b /\ call[d].from = a /\ call[d].to = b
    BY DEF InFlight, Made, Between
  <2>2. call[c].via \in Calls /\ call[d].via \in Calls
    BY <2>1, CallThere DEF ReqRepInv, TypeInv, Call
  <2>3. call[c].via = call[d].via
    BY <2>1, <2>2 DEF ReqRepInv, SenderInv
  <2> QED BY <2>1, <2>3 DEF ReqRepInv, FlightInv
<1> HIDE DEF S
<1>2. Cardinality(S) <= 1
  BY <1>1, AtMostOne
<1> QED BY <1>2 DEF S

-----------------------------------------------------------------------------
(* Steps. *)

\* No request changes what it is or who sends it.
KeepsCalls ==
    \A c \in Calls :
        /\ call'[c] \in Call \cup {NoCall}
        /\ Made(c)' <=> Made(c)
        /\ call'[c].from = call[c].from
        /\ call'[c].to = call[c].to
        /\ call'[c].kind = call[c].kind
        /\ call'[c].via = call[c].via

LEMMA StepKeeps ==
    ASSUME TypeOK, NEW c \in Calls, Made(c), NEW pc \in Steps, Step(c, pc)
    PROVE  /\ call' \in [Calls -> Call \cup {NoCall}]
           /\ KeepsCalls
           /\ \A d \in Calls : call'[d].pc = IF d = c THEN pc ELSE call[d].pc
<1>1. call[c] \in Call /\ call' = [call EXCEPT ![c] = [call[c] EXCEPT !.pc = pc]]
  BY CallThere DEF Step
<1>2. [call[c] EXCEPT !.pc = pc] \in Call
  BY <1>1 DEF Call
<1>3. call' \in [Calls -> Call \cup {NoCall}]
  BY <1>1, <1>2 DEF TypeOK
<1>4. ASSUME NEW d \in Calls
      PROVE  /\ Made(d)' <=> Made(d)
             /\ call'[d].from = call[d].from
             /\ call'[d].to = call[d].to
             /\ call'[d].kind = call[d].kind
             /\ call'[d].via = call[d].via
             /\ call'[d].pc = IF d = c THEN pc ELSE call[d].pc
  <2>1. CASE d = c
    BY <1>1, <2>1 DEF TypeOK, Call, Made, Steps
  <2>2. CASE d # c
    BY <1>1, <2>2 DEF TypeOK, Made
  <2> QED BY <2>1, <2>2
<1> QED BY <1>3, <1>4 DEF KeepsCalls

\* The client's part of the invariant after a step that starts no sender.
LEMMA SenderKept ==
    ASSUME ReqRepInv, KeepsCalls, UNCHANGED <<chanMap, overlap>>,
           \A c \in Calls : (Started(c)' <=> Started(c)) /\ (Stored(c)' <=> Stored(c))
    PROVE  SenderInv'
<1>1. \A c \in Calls : Made(c) => call[c].via \in Calls /\ call[c].from \in Agents
                                  /\ call[c].to \in Agents
  BY CallThere DEF ReqRepInv, TypeInv, Call
<1>2. \A a, b \in Agents : chanMap[a][b] \in {0} \cup Calls
  BY DEF ReqRepInv, TypeInv, TypeOK
<1>3. \A c \in Calls : Made(c)' =>
         /\ Started(call[c].via)'
         /\ call'[call'[c].via].from = call'[c].from
         /\ call'[call'[c].via].to = call'[c].to
  <2>1. ASSUME NEW c \in Calls, Made(c)'
        PROVE  /\ Started(call[c].via)'
               /\ call'[call'[c].via].from = call'[c].from
               /\ call'[call'[c].via].to = call'[c].to
    <3>1. /\ Made(c) /\ call'[c].via = call[c].via
          /\ call'[c].from = call[c].from /\ call'[c].to = call[c].to
      BY <2>1 DEF KeepsCalls
    <3>2. PICK v \in Calls : v = call[c].via
      BY <1>1, <3>1
    <3>3. Started(v) /\ call[v].from = call[c].from /\ call[v].to = call[c].to
      BY <3>1, <3>2 DEF ReqRepInv, SenderInv
    <3>4. Started(v)' /\ call'[v].from = call[v].from /\ call'[v].to = call[v].to
      BY <3>3 DEF KeepsCalls
    <3>5. sender'[call'[c].via] # "none"
      BY <3>1, <3>2, <3>4 DEF Started
    <3> QED BY <3>1, <3>2, <3>3, <3>4, <3>5 DEF Started
  <2> QED BY <2>1
<1>4. \A a, b \in Agents : chanMap'[a][b] # 0 =>
         Stored(chanMap[a][b])' /\ Between(chanMap[a][b], a, b)'
  <2>1. ASSUME NEW a \in Agents, NEW b \in Agents, chanMap'[a][b] # 0
        PROVE  Stored(chanMap[a][b])' /\ Between(chanMap[a][b], a, b)'
    <3>1. PICK s \in Calls : s = chanMap[a][b] /\ s = chanMap'[a][b]
      BY <1>2, <2>1
    <3>2. Stored(s) /\ Between(s, a, b)
      BY <2>1, <3>1 DEF ReqRepInv, SenderInv
    <3>3. Stored(s)' /\ Between(s, a, b)'
      BY <3>2 DEF KeepsCalls, Between
    <3> QED BY <3>1, <3>3 DEF Stored, Between
  <2> QED BY <2>1
<1>5. \A c \in Calls : Stored(c)' => chanMap'[call'[c].from][call'[c].to] # 0
  BY DEF KeepsCalls, ReqRepInv, SenderInv
<1>6. \A c, d \in Calls :
         Started(c)' /\ Started(d)' /\ call'[c].from = call'[d].from
             /\ call'[c].to = call'[d].to
         => c = d \/ <<call'[c].from, call'[c].to>> \in overlap'
  BY DEF KeepsCalls, ReqRepInv, SenderInv
<1> QED BY <1>3, <1>4, <1>5, <1>6 DEF SenderInv

\* A step of the server and its handlers: the requests under way stay so.
LEMMA ServerKept ==
    ASSUME ReqRepInv, KeepsCalls, UNCHANGED <<clientVars, overlap>>,
           \A c \in Calls : InFlight(c)' => InFlight(c)
    PROVE  SenderInv' /\ FlightInv'
<1>1. SenderInv'
  BY SenderKept DEF clientVars, Started, Stored
<1>2. FlightInv'
  BY DEF KeepsCalls, ReqRepInv, FlightInv, clientVars
<1> QED BY <1>1, <1>2

\* Close is as far as before.
LEMMA StopKept ==
    ASSUME ReqRepInv, KeepsCalls, UNCHANGED stopVars, overlap \subseteq overlap',
           \A c \in Calls : Stored(c) => Stored(c)',
           \A c \in Calls : sender[c] = "ended" => sender'[c] = "ended"
    PROVE  StopInv'
<1>5. ExitInv'
  BY DEF ReqRepInv, StopInv, ExitInv, stopVars
<1> SUFFICES ASSUME NEW a \in Agents, NEW s \in owed[a]
             PROVE  /\ Stored(s)' /\ call'[s].from = a
                    /\ stop'[a] # "no" =>
                         \/ call'[s].to \in left'[a]
                         \/ at'[a] = s
                         \/ sender'[s] = "ended"
                         \/ <<a, call'[s].to>> \in overlap'
  BY <1>5 DEF StopInv, OwedInv, stopVars
<1>1. s \in Calls
  BY DEF ReqRepInv, TypeInv, TypeOK
<1>2. /\ Stored(s) /\ call[s].from = a
      /\ stop[a] # "no" => \/ call[s].to \in left[a]
                           \/ at[a] = s
                           \/ sender[s] = "ended"
                           \/ <<a, call[s].to>> \in overlap
  BY DEF ReqRepInv, StopInv, OwedInv
<1>3. call'[s].from = call[s].from /\ call'[s].to = call[s].to
  BY <1>1 DEF KeepsCalls
<1>4. /\ stop' = stop /\ left' = left /\ at' = at
      /\ Stored(s)' /\ (sender[s] = "ended" => sender'[s] = "ended")
  BY <1>1, <1>2 DEF stopVars
<1> QED BY <1>2, <1>3, <1>4

LEMMA InitReqRep == Init => ReqRepInv
<1> SUFFICES ASSUME Init PROVE ReqRepInv
  OBVIOUS
<1>1. TypeInv
  BY DEF Init, TypeInv, TypeOK, MadeInv, Started
<1>2. SenderInv /\ FlightInv
  BY NoCallApart DEF Init, SenderInv, FlightInv, Made, Started, Stored, InFlight
<1>3. StopInv /\ ServerInv
  BY DEF Init, StopInv, OwedInv, ExitInv, ServerInv, Loops
<1> QED BY <1>1, <1>2, <1>3 DEF ReqRepInv

-----------------------------------------------------------------------------
(* The client's steps.                                                      *)

LEMMA SendSteps ==
    ASSUME ReqRepInv, NEW c \in Calls, NEW a \in Agents, NEW b \in Agents,
           NEW k \in Kinds, NEW q \in Queries \cup {<<>>}, Send(c, a, b, k, q)
    PROVE  ReqRepInv'
<1> USE DEF ReqRepInv
<1> DEFINE v == IF chanMap[a][b] # 0 THEN chanMap[a][b] ELSE c
           r == [from |-> a, to |-> b, kind |-> k, query |-> q, pc |-> "send",
                 via |-> v, res |-> {}]
<1>1. /\ ~Made(c) /\ call' = [call EXCEPT ![c] = r]
      /\ UNCHANGED <<chanMap, server, loop, stopVars>>
      /\ sender' = IF chanMap[a][b] # 0 THEN sender
                   ELSE [sender EXCEPT ![c] = "starting"]
      /\ overlap' = IF chanMap[a][b] # 0 \/ Starting(a, b) = {} THEN overlap
                    ELSE overlap \cup {<<a, b>>}
  BY DEF Send
<1>2. v \in Calls
  BY DEF TypeInv, TypeOK
<1>3. r \in Call /\ r.from = a /\ r.to = b /\ r.via = v /\ r.pc = "send"
  BY <1>2 DEF Call, Steps
<1>4. /\ call'[c] = r
      /\ \A d \in Calls : d # c => call'[d] = call[d]
  BY <1>1 DEF TypeInv, TypeOK
<1>5. \A d \in Calls : Made(d) => d # c
  BY <1>1
<1>6. ~Started(c)
  BY <1>1 DEF TypeInv, MadeInv
<1>7. /\ \A d \in Calls : d # c => sender'[d] = sender[d]
      /\ sender'[c] = IF chanMap[a][b] # 0 THEN "none" ELSE "starting"
      /\ sender' \in [Calls -> {"none", "starting", "idle", "busy", "ended"}]
  BY <1>1, <1>6 DEF TypeInv, TypeOK, Started
<1> HIDE DEF r
<1>8. TypeInv'
  <2>1. TypeOK'
    BY <1>1, <1>3, <1>7 DEF TypeInv, TypeOK, stopVars
  <2>2. MadeInv'
    <3>1. \A d \in Calls : Made(d) => Made(d)'
      BY <1>4, <1>5 DEF Made
    <3>2. Made(c)'
      BY <1>3, <1>4 DEF Made
    <3>3. \A x \in Agents, l \in Loops : loop'[x][l] # 0 => Made(loop[x][l])'
      BY <1>1, <3>1 DEF TypeInv, TypeOK, MadeInv
    <3>4. \A d \in Calls : Started(d)' => Made(d)'
      BY <1>7, <3>1, <3>2 DEF TypeInv, MadeInv, Started
    <3> QED BY <1>1, <3>3, <3>4 DEF MadeInv, Made
  <2> QED BY <2>1, <2>2 DEF TypeInv
<1>9. \A d \in Calls : (Stored(d)' <=> Stored(d)) /\ (Started(d) => Started(d)')
  BY <1>6, <1>7 DEF Stored, Started
<1>10. \A d \in Calls : Started(d) => d # c /\ call'[d] = call[d]
  BY <1>4, <1>6
<1>11. \A d \in Calls : Made(d) => call[d].via \in Calls
  BY CallThere DEF TypeInv, Call
<1>12. (Stored(v) /\ Between(v, a, b)) \/ (chanMap[a][b] = 0 /\ v = c)
  BY DEF SenderInv
<1>13. SenderInv'
  <2>1. ASSUME NEW d \in Calls, Made(d)'
        PROVE  /\ Started(call[d].via)'
               /\ call'[call'[d].via].from = call'[d].from
               /\ call'[call'[d].via].to = call'[d].to
    <3>1. CASE d = c
      <4>1. PICK w \in Calls : w = v
        BY <1>2
      <4>2. ASSUME chanMap[a][b] # 0
            PROVE  Started(w)' /\ call'[w].from = a /\ call'[w].to = b
        <5>1. Stored(w) /\ Between(w, a, b)
          BY <1>12, <4>1, <4>2
        <5>2. Started(w)
          BY <5>1 DEF Stored, Started
        <5> QED BY <1>9, <1>10, <5>1, <5>2 DEF Between
      <4>3. ASSUME chanMap[a][b] = 0
            PROVE  Started(w)' /\ call'[w].from = a /\ call'[w].to = b
        <5>1. w = c /\ sender'[c] = "starting"
          BY <1>7, <4>1, <4>3
        <5> QED BY <1>3, <1>4, <5>1 DEF Started
      <4>4. Started(w)' /\ call'[w].from = a /\ call'[w].to = b
        BY <4>2, <4>3
      <4>5. call'[d].from = a /\ call'[d].to = b /\ call'[d].via = w
        BY <1>3, <1>4, <3>1, <4>1
      <4>6. sender'[call'[d].via] # "none"
        BY <4>4, <4>5 DEF Started
      <4> QED BY <4>4, <4>5, <4>6 DEF Started
    <3>2. CASE d # c
      <4>1. Made(d) /\ call'[d] = call[d]
        BY <1>4, <2>1, <3>2 DEF Made
      <4>2. PICK u \in Calls : u = call[d].via
        BY <1>11, <4>1
      <4>3. Started(u) /\ call[u].from = call[d].from /\ call[u].to = call[d].to
        BY <4>1, <4>2 DEF SenderInv
      <4>4. Started(u)' /\ call'[u] = call[u]
        BY <1>9, <1>10, <4>3
      <4> QED BY <4>1, <4>2, <4>3, <4>4 DEF Started
    <3> QED BY <3>1, <3>2
  <2>2. ASSUME NEW x \in Agents, NEW y \in Agents, chanMap'[x][y] # 0
        PROVE  Stored(chanMap[x][y])' /\ Between(chanMap[x][y], x, y)'
    <3>1. PICK s \in Calls : s = chanMap[x][y] /\ s = chanMap'[x][y]
      BY <1>1, <2>2 DEF TypeInv, TypeOK
    <3>2. Stored(s) /\ Between(s, x, y)
      BY <2>2, <3>1 DEF SenderInv
    <3>3. Stored(s)' /\ Between(s, x, y)'
      BY <1>9, <1>10, <3>2 DEF Between, Stored, Started
    <3> QED BY <3>1, <3>3 DEF Stored, Between
  <2>3. ASSUME NEW d \in Calls, Stored(d)'
        PROVE  chanMap'[call'[d].from][call'[d].to] # 0
    <3>1. Stored(d) /\ call'[d] = call[d]
      BY <1>9, <1>10, <2>3 DEF Stored, Started
    <3> QED BY <1>1, <3>1 DEF SenderInv
  <2>4. ASSUME NEW d \in Calls, Started(d), chanMap[a][b] = 0,
               call[d].from = a, call[d].to = b
        PROVE  <<a, b>> \in overlap'
    <3>1. sender[d] = "starting"
      BY <2>4 DEF SenderInv, Stored, Started, TypeInv, TypeOK
    <3>2. d \in Starting(a, b)
      BY <2>4, <3>1 DEF Starting, Between
    <3> QED BY <1>1, <2>4, <3>2
  <2>5. ASSUME NEW d \in Calls, NEW e \in Calls, Started(d)', Started(e)',
               call'[d].from = call'[e].from, call'[d].to = call'[e].to, d # e
        PROVE  <<call'[d].from, call'[d].to>> \in overlap'
    <3>1. overlap \subseteq overlap'
      BY <1>1
    <3>2. \A f \in Calls : Started(f)' =>
              (Started(f) /\ call'[f] = call[f]) \/ (f = c /\ chanMap[a][b] = 0)
      BY <1>6, <1>7, <1>10 DEF Started
    <3>3. CASE d # c /\ e # c
      BY <2>5, <3>1, <3>2, <3>3 DEF SenderInv
    <3>4. CASE d = c
      <4>1. call'[d].from = a /\ call'[d].to = b /\ chanMap[a][b] = 0
        BY <1>3, <1>4, <1>6, <2>5, <3>2, <3>4
      <4>2. Started(e) /\ call[e].from = a /\ call[e].to = b
        BY <2>5, <3>2, <3>4, <4>1
      <4> QED BY <2>4, <4>1, <4>2
    <3>5. CASE e = c
      <4>1. call'[e].from = a /\ call'[e].to = b /\ chanMap[a][b] = 0
        BY <1>3, <1>4, <1>6, <2>5, <3>2, <3>5
      <4>2. Started(d) /\ call[d].from = a /\ call[d].to = b
        BY <2>5, <3>2, <3>5, <4>1
      <4> QED BY <2>4, <2>5, <4>1, <4>2
    <3> QED BY <3>3, <3>4, <3>5
  <2> QED BY <2>1, <2>2, <2>3, <2>5 DEF SenderInv
<1>14. FlightInv'
  <2>1. \A d \in Calls : InFlight(d)' => InFlight(d) /\ d # c /\ call'[d] = call[d]
    BY <1>3, <1>4 DEF InFlight
  <2>2. ASSUME NEW d \in Calls, InFlight(d) PROVE sender'[call[d].via] = "busy"
    <3>1. Made(d) /\ call[d].via \in Calls /\ sender[call[d].via] = "busy"
      BY <1>11, <2>2 DEF FlightInv, InFlight, Made
    <3> QED BY <1>6, <1>7, <3>1 DEF Started
  <2> QED BY <2>1, <2>2 DEF FlightInv
<1>15. StopInv'
  <2> SUFFICES ASSUME NEW x \in Agents, NEW s \in owed[x]
               PROVE  /\ Stored(s)' /\ call'[s].from = x
                      /\ stop'[x] # "no" =>
                           \/ call'[s].to \in left'[x]
                           \/ at'[x] = s
                           \/ sender'[s] = "ended"
                           \/ <<x, call'[s].to>> \in overlap'
    BY <1>1 DEF StopInv, OwedInv, ExitInv, stopVars
  <2>1. s \in Calls
    BY DEF TypeInv, TypeOK
  <2>2. /\ Stored(s) /\ call[s].from = x
        /\ stop[x] # "no" => \/ call[s].to \in left[x]
                             \/ at[x] = s
                             \/ sender[s] = "ended"
                             \/ <<x, call[s].to>> \in overlap
    BY DEF StopInv, OwedInv
  <2>3. s # c /\ call'[s] = call[s] /\ sender'[s] = sender[s] /\ Stored(s)'
    BY <1>7, <1>9, <1>10, <2>1, <2>2 DEF Stored, Started
  <2>4. stop' = stop /\ left' = left /\ at' = at /\ overlap \subseteq overlap'
    BY <1>1 DEF stopVars
  <2> QED BY <2>2, <2>3, <2>4
<1>16. ServerInv'
  <2>1. \A x \in Agents : server[x] \in {0} \cup Calls /\ loop[x]["discovery"] \in {0} \cup Calls
    BY DEF TypeInv, TypeOK, Loops
  <2>2. server' = server /\ loop' = loop
    BY <1>1
  <2>3. ASSUME NEW x \in Agents, server[x] # 0
        PROVE  Made(server[x])' /\ call'[server[x]].to = x
    <3>1. PICK d \in Calls : d = server[x]
      BY <2>1, <2>3
    <3>2. Made(d) /\ call[d].to = x
      BY <2>3, <3>1 DEF ServerInv
    <3>3. call'[d] = call[d]
      BY <1>4, <1>5, <3>2
    <3> QED BY <2>2, <3>1, <3>2, <3>3 DEF Made
  <2>4. ASSUME NEW x \in Agents, loop[x]["discovery"] # 0
        PROVE  /\ call'[loop[x]["discovery"]].pc = "handling"
               /\ call'[loop[x]["discovery"]].kind = "query"
               /\ call'[loop[x]["discovery"]].to = x
    <3>1. PICK d \in Calls : d = loop[x]["discovery"]
      BY <2>1, <2>4
    <3>2. call[d].pc = "handling" /\ call[d].kind = "query" /\ call[d].to = x
      BY <2>4, <3>1 DEF ServerInv
    <3>3. call'[d] = call[d]
      BY <1>4, <1>5, <3>2 DEF Made
    <3> QED BY <3>1, <3>2, <3>3
  <2>5. \A x \in Agents : server'[x] # 0 => Made(server[x])' /\ call'[server[x]].to = x
    BY <2>2, <2>3 DEF Made
  <2> QED BY <2>2, <2>4, <2>5 DEF ServerInv, Made
<1> QED BY <1>8, <1>13, <1>14, <1>15, <1>16

\* Steps that change no request.
LEMMA SameCalls ==
    ASSUME TypeOK, call' = call
    PROVE  KeepsCalls
BY DEF KeepsCalls, TypeOK, Made

\* What the loops handle are requests still.
LEMMA MadeKept ==
    ASSUME ReqRepInv, KeepsCalls,
           \A c \in Calls : Started(c)' <=> Started(c),
           \A a \in Agents, l \in Loops : loop'[a][l] # 0 =>
               loop'[a][l] \in Calls /\ Made(loop'[a][l])
    PROVE  MadeInv'
<1>1. ASSUME NEW a \in Agents, NEW l \in Loops, loop'[a][l] # 0
      PROVE  Made(loop[a][l])'
  <2>1. PICK c \in Calls : c = loop'[a][l] /\ Made(c)
    BY <1>1
  <2>2. Made(c)'
    BY <2>1 DEF KeepsCalls
  <2> QED BY <2>1, <2>2 DEF Made
<1>2. \A c \in Calls : Started(c)' => Made(c)'
  BY DEF ReqRepInv, TypeInv, MadeInv, KeepsCalls
<1> QED BY <1>1, <1>2 DEF MadeInv, Made

LEMMA ServerInvKept ==
    ASSUME ReqRepInv, KeepsCalls,
           \A a \in Agents : server'[a] # 0 =>
               server'[a] \in Calls /\ Made(server'[a]) /\ call[server'[a]].to = a,
           \A a \in Agents : loop'[a]["discovery"] # 0 =>
               /\ loop'[a]["discovery"] \in Calls
               /\ call'[loop'[a]["discovery"]].pc = "handling"
               /\ call[loop'[a]["discovery"]].kind = "query"
               /\ call[loop'[a]["discovery"]].to = a
    PROVE  ServerInv'
<1>1. ASSUME NEW a \in Agents, server'[a] # 0
      PROVE  Made(server[a])' /\ call'[server'[a]].to = a
  <2>1. PICK c \in Calls : c = server'[a] /\ Made(c) /\ call[c].to = a
    BY <1>1
  <2>2. Made(c)' /\ call'[c].to = a
    BY <2>1 DEF KeepsCalls
  <2> QED BY <2>1, <2>2 DEF Made
<1>2. ASSUME NEW a \in Agents, loop'[a]["discovery"] # 0
      PROVE  /\ call'[loop'[a]["discovery"]].pc = "handling"
             /\ call'[loop'[a]["discovery"]].kind = "query"
             /\ call'[loop'[a]["discovery"]].to = a
  BY <1>2 DEF KeepsCalls
<1> QED BY <1>1, <1>2 DEF ServerInv, Made

\* What ServerInv says of the state before a step, as functions are typed.
LEMMA ServerThere ==
    ASSUME ReqRepInv
    PROVE  /\ \A a \in Agents : server[a] # 0 =>
                server[a] \in Calls /\ Made(server[a]) /\ call[server[a]].to = a
           /\ \A a \in Agents, l \in Loops : loop[a][l] # 0 =>
                loop[a][l] \in Calls /\ Made(loop[a][l])
           /\ \A a \in Agents : loop[a]["discovery"] # 0 =>
                /\ loop[a]["discovery"] \in Calls
                /\ call[loop[a]["discovery"]].pc = "handling"
                /\ call[loop[a]["discovery"]].kind = "query"
                /\ call[loop[a]["discovery"]].to = a
BY DEF ReqRepInv, TypeInv, TypeOK, MadeInv, ServerInv, Loops

\* A step of the client or of Close, which handles no request.
LEMMA HandlersKept ==
    ASSUME ReqRepInv, KeepsCalls, UNCHANGED <<server, loop>>,
           \A c \in Calls : Started(c)' <=> Started(c),
           \A c \in Calls : call[c].pc = "handling" => call'[c].pc = "handling"
    PROVE  MadeInv' /\ ServerInv'
<1>1. MadeInv'
  BY MadeKept, ServerThere
<1>2. ServerInv'
  BY ServerInvKept, ServerThere
<1> QED BY <1>1, <1>2

LEMMA StartSenderSteps ==
    ASSUME ReqRepInv, NEW c \in Calls, StartSender(c)
    PROVE  ReqRepInv'
<1>1. /\ sender[c] = "starting" /\ call' = call
      /\ chanMap' = [chanMap EXCEPT ![call[c].from][call[c].to] = c]
      /\ sender' = [sender EXCEPT ![c] = "idle"]
      /\ UNCHANGED <<server, loop, stopVars, overlap>>
  BY DEF StartSender
<1>2. Started(c) /\ Made(c) /\ call[c] \in Call
  BY <1>1, CallThere DEF Started, ReqRepInv, TypeInv, MadeInv
<1>3. PICK a \in Agents, b \in Agents : a = call[c].from /\ b = call[c].to
  BY <1>2 DEF Call
<1>4. /\ sender'[c] = "idle" /\ \A d \in Calls : d # c => sender'[d] = sender[d]
      /\ sender' \in [Calls -> {"none", "starting", "idle", "busy", "ended"}]
  BY <1>1 DEF ReqRepInv, TypeInv, TypeOK
<1>5. /\ chanMap'[a][b] = c
      /\ \A x, y \in Agents : <<x, y>> # <<a, b>> => chanMap'[x][y] = chanMap[x][y]
      /\ chanMap' \in [Agents -> [Agents -> {0} \cup Calls]]
  BY <1>1, <1>3 DEF ReqRepInv, TypeInv, TypeOK
<1>6. KeepsCalls
  BY <1>1, SameCalls DEF ReqRepInv, TypeInv
<1>7. \A d \in Calls : /\ Started(d)' <=> Started(d)
                       /\ Stored(d)' <=> (Stored(d) \/ d = c)
  BY <1>1, <1>4 DEF Started, Stored
<1>8. TypeOK'
  BY <1>1, <1>4, <1>5 DEF ReqRepInv, TypeInv, TypeOK, stopVars
<1>9. MadeInv' /\ ServerInv'
  BY <1>1, <1>6, <1>7, HandlersKept
<1>10. SenderInv'
  <2>1. ASSUME NEW d \in Calls, Made(d)'
        PROVE  /\ Started(call[d].via)'
               /\ call'[call'[d].via].from = call'[d].from
               /\ call'[call'[d].via].to = call'[d].to
    <3>1. Made(d)
      BY <1>1, <2>1 DEF Made
    <3>2. PICK u \in Calls : u = call[d].via
      BY <3>1, CallThere DEF ReqRepInv, TypeInv, Call
    <3>3. Started(u) /\ call[u].from = call[d].from /\ call[u].to = call[d].to
      BY <3>1, <3>2 DEF ReqRepInv, SenderInv
    <3> QED BY <1>1, <1>7, <3>2, <3>3 DEF Started
  <2>2. ASSUME NEW x \in Agents, NEW y \in Agents, chanMap'[x][y] # 0
        PROVE  Stored(chanMap[x][y])' /\ Between(chanMap[x][y], x, y)'
    <3>1. CASE x = a /\ y = b
      BY <1>1, <1>3, <1>4, <1>5, <3>1 DEF Stored, Between
    <3>2. CASE <<x, y>> # <<a, b>>
      <4>1. PICK s \in Calls : s = chanMap[x][y] /\ s = chanMap'[x][y]
        BY <1>5, <2>2, <3>2
      <4>2. Stored(s) /\ Between(s, x, y)
        BY <2>2, <4>1 DEF ReqRepInv, SenderInv
      <4>3. Stored(s)' /\ Between(s, x, y)'
        BY <1>1, <1>7, <4>2 DEF Between
      <4> QED BY <4>1, <4>3 DEF Stored, Between
    <3> QED BY <3>1, <3>2
  <2>3. ASSUME NEW d \in Calls, Stored(d)'
        PROVE  chanMap'[call'[d].from][call'[d].to] # 0
    <3>1. c # 0
      BY NumbersApart
    <3>2. CASE d = c
      BY <1>1, <1>3, <1>5, <3>1, <3>2
    <3>3. CASE d # c
      <4>1. Stored(d) /\ Started(d)
        BY <1>7, <2>3, <3>3 DEF Stored, Started
      <4>2. call[d] \in Call
        BY <4>1, CallThere DEF ReqRepInv, TypeInv, MadeInv
      <4>3. PICK x \in Agents, y \in Agents : x = call[d].from /\ y = call[d].to
        BY <4>2 DEF Call
      <4>4. chanMap[x][y] # 0
        BY <4>1, <4>3 DEF ReqRepInv, SenderInv
      <4>5. chanMap'[x][y] # 0
        BY <1>5, <3>1, <4>4
      <4> QED BY <1>1, <4>3, <4>5
    <3> QED BY <3>2, <3>3
  <2>4. \A d, e \in Calls :
           Started(d)' /\ Started(e)' /\ call'[d].from = call'[e].from
               /\ call'[d].to = call'[e].to
           => d = e \/ <<call'[d].from, call'[d].to>> \in overlap'
    BY <1>1, <1>7 DEF ReqRepInv, SenderInv
  <2> QED BY <2>1, <2>2, <2>3, <2>4 DEF SenderInv
<1>11. FlightInv'
  <2>1. ASSUME NEW d \in Calls, InFlight(d) PROVE sender'[call[d].via] = "busy"
    <3>1. call[d].via \in Calls /\ sender[call[d].via] = "busy"
      BY <2>1, CallThere DEF ReqRepInv, TypeInv, FlightInv, InFlight, Made, Call
    <3> QED BY <1>1, <1>4, <3>1
  <2> QED BY <1>1, <2>1 DEF ReqRepInv, FlightInv, InFlight
<1>12. StopInv'
  BY <1>1, <1>4, <1>6, <1>7, StopKept
<1> QED BY <1>8, <1>9, <1>10, <1>11, <1>12 DEF ReqRepInv, TypeInv

\* The sender of a request.
LEMMA ViaThere ==
    ASSUME ReqRepInv, NEW c \in Calls, Made(c)
    PROVE  call[c].via \in Calls /\ Started(call[c].via)
BY CallThere DEF ReqRepInv, TypeInv, SenderInv, Call

LEMMA TransmitSteps ==
    ASSUME ReqRepInv, NEW c \in Calls, Transmit(c)
    PROVE  ReqRepInv'
<1>1. /\ call[c].pc = "send" /\ sender[call[c].via] = "idle" /\ Made(c)
      /\ sender' = [sender EXCEPT ![call[c].via] = "busy"]
      /\ Step(c, "sent")
      /\ UNCHANGED <<chanMap, server, loop, stopVars, overlap>>
  BY DEF Transmit, Made
<1>2. PICK v \in Calls : v = call[c].via
  BY <1>1, ViaThere
<1>3. /\ call' \in [Calls -> Call \cup {NoCall}]
      /\ KeepsCalls
      /\ \A d \in Calls : call'[d].pc = IF d = c THEN "sent" ELSE call[d].pc
  BY <1>1, StepKeeps DEF ReqRepInv, TypeInv, Steps
<1>4. /\ sender'[v] = "busy" /\ \A d \in Calls : d # v => sender'[d] = sender[d]
      /\ sender' \in [Calls -> {"none", "starting", "idle", "busy", "ended"}]
  BY <1>1, <1>2 DEF ReqRepInv, TypeInv, TypeOK
<1>5. \A d \in Calls : /\ Started(d)' <=> Started(d)
                       /\ Stored(d)' <=> Stored(d)
                       /\ sender[d] = "ended" => sender'[d] = "ended"
  BY <1>1, <1>2, <1>4 DEF Started, Stored
<1>6. TypeOK'
  BY <1>1, <1>3, <1>4 DEF ReqRepInv, TypeInv, TypeOK, stopVars
<1>7. MadeInv' /\ ServerInv'
  BY <1>1, <1>3, <1>5, HandlersKept
<1>8. SenderInv'
  BY <1>1, <1>3, <1>5, SenderKept
<1>9. FlightInv'
  <2>1. \A d \in Calls : InFlight(d)' <=> (InFlight(d) \/ d = c)
    BY <1>3 DEF InFlight
  <2>2. \A d \in Calls : InFlight(d) => call[d].via \in Calls /\ call[d].via # v
    BY <1>1, <1>2, ViaThere DEF ReqRepInv, FlightInv, InFlight, Made
  <2>3. ASSUME NEW d \in Calls, InFlight(d)' PROVE sender'[call'[d].via] = "busy"
    <3>1. CASE d = c
      BY <1>2, <1>3, <1>4, <3>1 DEF KeepsCalls
    <3>2. CASE InFlight(d)
      BY <1>3, <1>4, <2>2, <3>2 DEF KeepsCalls, ReqRepInv, FlightInv
    <3> QED BY <2>1, <2>3, <3>1, <3>2
  <2>4. ASSUME NEW d \in Calls, NEW e \in Calls, InFlight(d)', InFlight(e)',
               call'[d].via = call'[e].via
        PROVE  d = e
    <3>1. call[d].via = call[e].via
      BY <1>3, <2>4 DEF KeepsCalls
    <3> QED BY <1>2, <2>1, <2>2, <2>4, <3>1 DEF ReqRepInv, FlightInv
  <2> QED BY <2>3, <2>4 DEF FlightInv
<1>10. StopInv'
  BY <1>1, <1>3, <1>5, StopKept
<1> QED BY <1>6, <1>7, <1>8, <1>9, <1>10 DEF ReqRepInv, TypeInv

LEMMA ReturnSteps ==
    ASSUME ReqRepInv, NEW c \in Calls, Return(c)
    PROVE  ReqRepInv'
<1>1. /\ call[c].pc = "answered" /\ Made(c) /\ InFlight(c)
      /\ sender' = [sender EXCEPT ![call[c].via] = "idle"]
      /\ Step(c, "returned")
      /\ UNCHANGED <<chanMap, server, loop, stopVars, overlap>>
  BY DEF Return, Made, InFlight
<1>2. PICK v \in Calls : v = call[c].via /\ sender[v] = "busy"
  BY <1>1, ViaThere DEF ReqRepInv, FlightInv
<1>3. /\ call' \in [Calls -> Call \cup {NoCall}]
      /\ KeepsCalls
      /\ \A d \in Calls : call'[d].pc = IF d = c THEN "returned" ELSE call[d].pc
  BY <1>1, StepKeeps DEF ReqRepInv, TypeInv, Steps
<1>4. /\ sender'[v] = "idle" /\ \A d \in Calls : d # v => sender'[d] = sender[d]
      /\ sender' \in [Calls -> {"none", "starting", "idle", "busy", "ended"}]
  BY <1>1, <1>2 DEF ReqRepInv, TypeInv, TypeOK
<1>5. \A d \in Calls : /\ Started(d)' <=> Started(d)
                       /\ Stored(d)' <=> Stored(d)
                       /\ sender[d] = "ended" => sender'[d] = "ended"
  BY <1>1, <1>2, <1>4 DEF Started, Stored
<1>6. TypeOK'
  BY <1>1, <1>3, <1>4 DEF ReqRepInv, TypeInv, TypeOK, stopVars
<1>7. MadeInv' /\ ServerInv'
  BY <1>1, <1>3, <1>5, HandlersKept
<1>8. SenderInv'
  BY <1>1, <1>3, <1>5, SenderKept
<1>9. FlightInv'
  <2>1. \A d \in Calls : InFlight(d)' => InFlight(d) /\ d # c
    BY <1>3 DEF InFlight
  <2>2. ASSUME NEW d \in Calls, InFlight(d)' PROVE sender'[call'[d].via] = "busy"
    <3>1. InFlight(d) /\ d # c
      BY <2>1, <2>2
    <3>2. call[d].via \in Calls /\ call[d].via # v
      BY <1>1, <1>2, <3>1, ViaThere DEF ReqRepInv, FlightInv, InFlight, Made
    <3> QED BY <1>3, <1>4, <3>1, <3>2 DEF KeepsCalls, ReqRepInv, FlightInv
  <2>3. ASSUME NEW d \in Calls, NEW e \in Calls, InFlight(d)', InFlight(e)',
               call'[d].via = call'[e].via
        PROVE  d = e
    BY <1>3, <2>1, <2>3 DEF KeepsCalls, ReqRepInv, FlightInv
  <2> QED BY <2>2, <2>3 DEF FlightInv
<1>10. StopInv'
  BY <1>1, <1>3, <1>5, StopKept
<1> QED BY <1>6, <1>7, <1>8, <1>9, <1>10 DEF ReqRepInv, TypeInv

-----------------------------------------------------------------------------
(* The server's steps and its handlers'.                                    *)

\* A request under way that stays so.
LEMMA FlightStep ==
    ASSUME ReqRepInv, NEW c \in Calls, InFlight(c),
           NEW pc \in Steps \ {"send", "returned"}, Step(c, pc),
           UNCHANGED <<clientVars, stopVars, overlap>>
    PROVE  /\ call' \in [Calls -> Call \cup {NoCall}]
           /\ KeepsCalls
           /\ \A d \in Calls : call'[d].pc = IF d = c THEN pc ELSE call[d].pc
           /\ \A d \in Calls : Started(d)' <=> Started(d)
           /\ SenderInv' /\ FlightInv' /\ StopInv'
<1>1. Made(c) /\ pc \in Steps /\ pc # "none"
  BY DEF InFlight, Made, Steps
<1>2. /\ call' \in [Calls -> Call \cup {NoCall}]
      /\ KeepsCalls
      /\ \A d \in Calls : call'[d].pc = IF d = c THEN pc ELSE call[d].pc
  BY <1>1, StepKeeps DEF ReqRepInv, TypeInv
<1>3. \A d \in Calls : InFlight(d)' => InFlight(d)
  BY <1>2 DEF InFlight
<1>4. \A d \in Calls : Started(d)' <=> Started(d)
  BY DEF Started, clientVars
<1>5. SenderInv' /\ FlightInv'
  BY <1>2, <1>3, ServerKept
<1>6. StopInv'
  BY <1>2, StopKept DEF clientVars, Stored
<1> QED BY <1>2, <1>4, <1>5, <1>6

LEMMA ReceiveSteps ==
    ASSUME ReqRepInv, NEW a \in Agents, NEW c \in Calls, Receive(a, c)
    PROVE  ReqRepInv'
<1>1. /\ call[c].pc = "sent" /\ call[c].to = a /\ InFlight(c) /\ Made(c)
      /\ server' = [server EXCEPT ![a] = c] /\ Step(c, "held")
      /\ UNCHANGED <<clientVars, loop, stopVars, overlap>>
  BY DEF Receive, InFlight, Made
<1>2. /\ call' \in [Calls -> Call \cup {NoCall}]
      /\ KeepsCalls
      /\ \A d \in Calls : call'[d].pc = IF d = c THEN "held" ELSE call[d].pc
      /\ \A d \in Calls : Started(d)' <=> Started(d)
      /\ SenderInv' /\ FlightInv' /\ StopInv'
  BY <1>1, FlightStep DEF Steps
<1>3. TypeOK'
  BY <1>1, <1>2 DEF ReqRepInv, TypeInv, TypeOK, clientVars, stopVars
<1>4. MadeInv'
  BY <1>1, <1>2, MadeKept, ServerThere
<1>5. \A x \in Agents : server'[x] # 0 =>
         server'[x] \in Calls /\ Made(server'[x]) /\ call[server'[x]].to = x
  <2>1. server'[a] = c /\ \A x \in Agents : x # a => server'[x] = server[x]
    BY <1>1 DEF ReqRepInv, TypeInv, TypeOK
  <2> QED BY <1>1, <2>1, ServerThere
<1>6. ServerInv'
  BY <1>1, <1>2, <1>5, ServerInvKept, ServerThere
<1> QED BY <1>2, <1>3, <1>4, <1>6 DEF ReqRepInv, TypeInv

LEMMA TakeAsyncSteps ==
    ASSUME ReqRepInv, NEW a \in Agents, TakeAsync(a)
    PROVE  ReqRepInv'
<1>1. PICK c \in Calls : c = server[a] /\ Made(c) /\ call[c].pc = "held" /\ InFlight(c)
  BY ServerThere DEF TakeAsync, At, InFlight
<1>2. PICK l \in Loops : l = LoopOf(call[c].kind) /\ l # "discovery"
  BY <1>1 DEF TakeAsync, LoopOf, Async, Loops
<1>3. /\ loop' = [loop EXCEPT ![a][l] = c] /\ Step(c, "answered")
      /\ server' = [server EXCEPT ![a] = 0]
      /\ UNCHANGED <<clientVars, stopVars, overlap>>
  BY <1>1, <1>2 DEF TakeAsync
<1>4. /\ call' \in [Calls -> Call \cup {NoCall}]
      /\ KeepsCalls
      /\ \A d \in Calls : call'[d].pc = IF d = c THEN "answered" ELSE call[d].pc
      /\ \A d \in Calls : Started(d)' <=> Started(d)
      /\ SenderInv' /\ FlightInv' /\ StopInv'
  BY <1>1, <1>3, FlightStep DEF Steps
<1>5. TypeOK'
  BY <1>1, <1>3, <1>4 DEF ReqRepInv, TypeInv, TypeOK, clientVars, stopVars
<1>6. \A x \in Agents, m \in Loops : loop'[x][m] = c \/ loop'[x][m] = loop[x][m]
  BY <1>3 DEF ReqRepInv, TypeInv, TypeOK
<1>7. MadeInv'
  BY <1>1, <1>4, <1>6, MadeKept, ServerThere
<1>8. \A x \in Agents : /\ server'[x] = 0 \/ server'[x] = server[x]
                        /\ loop'[x]["discovery"] = loop[x]["discovery"]
  BY <1>2, <1>3 DEF ReqRepInv, TypeInv, TypeOK, Loops
<1>9. ServerInv'
  BY <1>1, <1>4, <1>8, ServerInvKept, ServerThere
<1> QED BY <1>4, <1>5, <1>7, <1>9 DEF ReqRepInv, TypeInv

LEMMA TakeQuerySteps ==
    ASSUME ReqRepInv, NEW a \in Agents, TakeQuery(a)
    PROVE  ReqRepInv'
<1>1. PICK c \in Calls : /\ c = server[a] /\ Made(c) /\ call[c].pc = "held"
                         /\ InFlight(c) /\ call[c].kind = "query" /\ call[c].to = a
  BY ServerThere DEF TakeQuery, At, InFlight
<1>2. /\ loop' = [loop EXCEPT ![a]["discovery"] = c] /\ Step(c, "handling")
      /\ UNCHANGED <<clientVars, server, stopVars, overlap>>
  BY <1>1 DEF TakeQuery
<1>3. /\ call' \in [Calls -> Call \cup {NoCall}]
      /\ KeepsCalls
      /\ \A d \in Calls : call'[d].pc = IF d = c THEN "handling" ELSE call[d].pc
      /\ \A d \in Calls : Started(d)' <=> Started(d)
      /\ SenderInv' /\ FlightInv' /\ StopInv'
  BY <1>1, <1>2, FlightStep DEF Steps
<1>4. TypeOK'
  BY <1>1, <1>2, <1>3 DEF ReqRepInv, TypeInv, TypeOK, clientVars, stopVars
<1>5. \A x \in Agents, m \in Loops : loop'[x][m] = c \/ loop'[x][m] = loop[x][m]
  BY <1>2 DEF ReqRepInv, TypeInv, TypeOK
<1>6. MadeInv'
  BY <1>1, <1>3, <1>5, MadeKept, ServerThere
<1>7. /\ loop'[a]["discovery"] = c
      /\ \A x \in Agents : x # a => loop'[x]["discovery"] = loop[x]["discovery"]
  BY <1>2 DEF ReqRepInv, TypeInv, TypeOK, Loops
<1>8. \A x \in Agents : loop'[x]["discovery"] # 0 =>
         /\ loop'[x]["discovery"] \in Calls
         /\ call'[loop'[x]["discovery"]].pc = "handling"
         /\ call[loop'[x]["discovery"]].kind = "query"
         /\ call[loop'[x]["discovery"]].to = x
  BY <1>1, <1>3, <1>7, ServerThere
<1>9. ServerInv'
  BY <1>2, <1>3, <1>8, ServerInvKept, ServerThere
<1> QED BY <1>3, <1>4, <1>6, <1>9 DEF ReqRepInv, TypeInv

\* The handlers of the groups: the loops and, but for its reply, the server
\* stay as they are.
LEMMA GroupStep ==
    ASSUME ReqRepInv, NEW a \in Agents, server[a] # 0, InFlight(server[a]),
           call[server[a]].kind \in {"join", "subscribe"},
           NEW pc \in {"handling", "answered", "dropped"}, Step(server[a], pc),
           UNCHANGED <<clientVars, loop, stopVars, overlap>>,
           server' = server \/ server' = [server EXCEPT ![a] = 0]
    PROVE  ReqRepInv'
<1>1. PICK c \in Calls : /\ c = server[a] /\ Made(c) /\ InFlight(c)
                         /\ call[c].kind \in {"join", "subscribe"}
  BY ServerThere
<1>2. /\ call' \in [Calls -> Call \cup {NoCall}]
      /\ KeepsCalls
      /\ \A d \in Calls : call'[d].pc = IF d = c THEN pc ELSE call[d].pc
      /\ \A d \in Calls : Started(d)' <=> Started(d)
      /\ SenderInv' /\ FlightInv' /\ StopInv'
  BY <1>1, FlightStep DEF Steps
<1>3. TypeOK'
  BY <1>2 DEF ReqRepInv, TypeInv, TypeOK, clientVars, stopVars
<1>4. MadeInv'
  BY <1>2, MadeKept, ServerThere
<1>5. \A x \in Agents : server'[x] = 0 \/ server'[x] = server[x]
  BY DEF ReqRepInv, TypeInv, TypeOK
<1>6. \A x \in Agents : loop[x]["discovery"] # 0 =>
         /\ loop[x]["discovery"] \in Calls /\ loop[x]["discovery"] # c
         /\ call'[loop[x]["discovery"]].pc = "handling"
  BY <1>1, <1>2, ServerThere
<1>7. ServerInv'
  BY <1>2, <1>5, <1>6, ServerInvKept, ServerThere
<1> QED BY <1>2, <1>3, <1>4, <1>7 DEF ReqRepInv, TypeInv

LEMMA DiscloseSteps ==
    ASSUME ReqRepInv, NEW a \in Agents, Disclose(a)
    PROVE  ReqRepInv'
<1>1. PICK c \in Calls : /\ c = loop[a]["discovery"] /\ call[c].pc = "handling"
                         /\ call[c].kind = "query" /\ call[c].to = a /\ Made(c)
  BY ServerThere DEF Disclose, Made
<1>2. PICK fs \in SUBSET Features : fs = ProcessQuery(call[c].query)
  <2>1. call[c] \in Call
    BY <1>1, CallThere DEF ReqRepInv, TypeInv
  <2>2. CASE call[c].query \in {<<>>, <<"*">>}
    BY <2>2 DEF ProcessQuery
  <2>3. CASE call[c].query \notin {<<>>, <<"*">>} /\ ~Contains(call[c].query, "base")
    BY <2>3 DEF ProcessQuery
  <2>4. CASE call[c].query \notin {<<>>, <<"*">>} /\ Contains(call[c].query, "base")
    BY <2>4 DEF ProcessQuery
  <2> QED BY <2>2, <2>3, <2>4
<1>3. /\ call' = [call EXCEPT ![c].res = fs, ![c].pc = "answered"]
      /\ server' = [server EXCEPT ![a] = 0]
      /\ loop' = [loop EXCEPT ![a]["discovery"] = 0]
      /\ UNCHANGED <<clientVars, stopVars, overlap>>
  BY <1>1, <1>2 DEF Disclose
<1>4. call[c] \in Call
  BY <1>1, CallThere DEF ReqRepInv, TypeInv
<1>5. /\ call'[c] = [call[c] EXCEPT !.res = fs, !.pc = "answered"]
      /\ \A d \in Calls : d # c => call'[d] = call[d]
  BY <1>3 DEF ReqRepInv, TypeInv, TypeOK
<1>6. /\ call'[c] \in Call /\ call'[c].pc = "answered" /\ call'[c].from = call[c].from
      /\ call'[c].to = call[c].to /\ call'[c].kind = call[c].kind
      /\ call'[c].via = call[c].via
  BY <1>4, <1>5 DEF Call, Steps
<1>7. call' \in [Calls -> Call \cup {NoCall}]
  BY <1>3, <1>5, <1>6 DEF ReqRepInv, TypeInv, TypeOK
<1>8. KeepsCalls
  BY <1>1, <1>5, <1>6, <1>7 DEF KeepsCalls, Made
<1>9. TypeOK'
  BY <1>3, <1>7 DEF ReqRepInv, TypeInv, TypeOK, clientVars, stopVars
<1>10. \A d \in Calls : Started(d)' <=> Started(d)
  BY <1>3 DEF Started, clientVars
<1>11. /\ \A x \in Agents, m \in Loops : loop'[x][m] = 0 \/ loop'[x][m] = loop[x][m]
       /\ \A x \in Agents : server'[x] = 0 \/ server'[x] = server[x]
       /\ loop'[a]["discovery"] = 0
  BY <1>3 DEF ReqRepInv, TypeInv, TypeOK, Loops
<1>12. MadeInv'
  BY <1>8, <1>10, <1>11, MadeKept, ServerThere
<1>13. \A x \in Agents : loop'[x]["discovery"] # 0 =>
         /\ loop'[x]["discovery"] = loop[x]["discovery"]
         /\ loop'[x]["discovery"] \in Calls /\ loop'[x]["discovery"] # c
         /\ call'[loop'[x]["discovery"]].pc = "handling"
  <2> SUFFICES ASSUME NEW x \in Agents, loop'[x]["discovery"] # 0
               PROVE  /\ loop'[x]["discovery"] = loop[x]["discovery"]
                      /\ loop'[x]["discovery"] \in Calls /\ loop'[x]["discovery"] # c
                      /\ call'[loop'[x]["discovery"]].pc = "handling"
    OBVIOUS
  <2>1. x # a /\ loop'[x]["discovery"] = loop[x]["discovery"]
    BY <1>11 DEF Loops
  <2>2. PICK d \in Calls : /\ d = loop[x]["discovery"] /\ call[d].pc = "handling"
                           /\ call[d].to = x
    BY <2>1, ServerThere
  <2> QED BY <1>1, <1>5, <2>1, <2>2
<1>14. ServerInv'
  BY <1>8, <1>11, <1>13, ServerInvKept, ServerThere
<1>15. \A d \in Calls : InFlight(d)' => InFlight(d)
  BY <1>1, <1>5 DEF InFlight
<1>16. SenderInv' /\ FlightInv'
  BY <1>3, <1>8, <1>15, ServerKept
<1>17. StopInv'
  BY <1>3, <1>8, StopKept DEF clientVars, Stored
<1> QED BY <1>9, <1>12, <1>14, <1>16, <1>17 DEF ReqRepInv, TypeInv

LEMMA RespondSteps ==
    ASSUME ReqRepInv, NEW a \in Agents, Respond(a)
    PROVE  ReqRepInv'
<1>1. PICK c \in Users : c = loop[a]["prober"]
  BY DEF Respond
<1>2. c \in Calls /\ MaxCalls + c \in Calls /\ c # 0
  BY NumbersApart
<1>3. call[c] \in Call
  BY <1>1, <1>2, ServerThere, CallThere DEF ReqRepInv, TypeInv, Loops
<1>4. PICK b \in Agents : b = call[c].from
  BY <1>3 DEF Call
<1>5. Send(MaxCalls + c, a, b, "connRes", <<>>)
  BY <1>1, <1>4 DEF Respond
<1> QED BY <1>2, <1>5, SendSteps DEF Kinds, Async

LEMMA FinishSteps ==
    ASSUME ReqRepInv, NEW a \in Agents, NEW l \in Loops, Finish(a, l)
    PROVE  ReqRepInv'
<1>1. /\ l # "discovery" /\ loop' = [loop EXCEPT ![a][l] = 0] /\ call' = call
      /\ UNCHANGED <<clientVars, server, stopVars, overlap>>
  BY DEF Finish
<1>2. KeepsCalls
  BY <1>1, SameCalls DEF ReqRepInv, TypeInv
<1>3. TypeOK'
  BY <1>1 DEF ReqRepInv, TypeInv, TypeOK, clientVars, stopVars
<1>4. /\ \A x \in Agents, m \in Loops : loop'[x][m] = 0 \/ loop'[x][m] = loop[x][m]
      /\ \A x \in Agents : loop'[x]["discovery"] = loop[x]["discovery"]
  BY <1>1 DEF ReqRepInv, TypeInv, TypeOK, Loops
<1>5. MadeInv'
  BY <1>1, <1>2, <1>4, MadeKept, ServerThere DEF Started, clientVars
<1>6. ServerInv'
  BY <1>1, <1>2, <1>4, ServerInvKept, ServerThere
<1>7. SenderInv' /\ FlightInv'
  BY <1>1, <1>2, ServerKept DEF InFlight
<1>8. StopInv'
  BY <1>1, <1>2, StopKept DEF clientVars, Stored
<1> QED BY <1>3, <1>5, <1>6, <1>7, <1>8 DEF ReqRepInv, TypeInv

-----------------------------------------------------------------------------
(* The steps of Stop. *)

LEMMA BeginStopSteps ==
    ASSUME ReqRepInv, NEW a \in Agents, BeginStop(a)
    PROVE  ReqRepInv'
<1>1. /\ stop[a] = "no" /\ stop' = [stop EXCEPT ![a] = "closing"]
      /\ left' = [left EXCEPT ![a] = Agents]
      /\ owed' = [owed EXCEPT ![a] = {chanMap[a][b] : b \in Agents} \ {0}]
      /\ UNCHANGED <<call, clientVars, server, loop, at, overlap>>
  BY DEF BeginStop
<1>2. KeepsCalls
  BY <1>1, SameCalls DEF ReqRepInv, TypeInv
<1>3. TypeOK'
  BY <1>1 DEF ReqRepInv, TypeInv, TypeOK, clientVars
<1>4. MadeInv' /\ ServerInv'
  BY <1>1, <1>2, HandlersKept DEF Started, clientVars
<1>5. SenderInv' /\ FlightInv'
  BY <1>1, <1>2, ServerKept DEF InFlight
<1>6. /\ left'[a] = Agents /\ stop'[a] = "closing"
      /\ owed'[a] = {chanMap[a][b] : b \in Agents} \ {0}
      /\ \A x \in Agents : x # a =>
           left'[x] = left[x] /\ owed'[x] = owed[x] /\ stop'[x] = stop[x]
  BY <1>1 DEF ReqRepInv, TypeInv, TypeOK
<1>7. ASSUME NEW x \in Agents, NEW s \in owed'[x]
      PROVE  /\ Stored(s)' /\ call'[s].from = x
             /\ stop'[x] # "no" => \/ call'[s].to \in left'[x]
                                   \/ at'[x] = s
                                   \/ sender'[s] = "ended"
                                   \/ <<x, call'[s].to>> \in overlap'
  <2>1. CASE x = a
    <3>1. PICK b \in Agents : s = chanMap[a][b] /\ s # 0
      BY <1>6, <1>7, <2>1
    <3>2. Stored(s) /\ call[s].from = a /\ call[s].to = b
      BY <3>1 DEF ReqRepInv, SenderInv, Between
    <3> QED BY <1>1, <1>6, <2>1, <3>2 DEF Stored, clientVars
  <2>2. CASE x # a
    <3>1. s \in owed[x]
      BY <1>6, <1>7, <2>2
    <3> QED BY <1>1, <1>6, <2>2, <3>1 DEF ReqRepInv, StopInv, OwedInv, Stored, clientVars
  <2> QED BY <2>1, <2>2
<1>8. ExitInv'
  BY <1>1, <1>6 DEF ReqRepInv, StopInv, ExitInv
<1>9. StopInv'
  BY <1>7, <1>8 DEF StopInv, OwedInv
<1> QED BY <1>3, <1>4, <1>5, <1>9 DEF ReqRepInv, TypeInv

LEMMA VisitSteps ==
    ASSUME ReqRepInv, NEW a \in Agents, NEW b \in Agents, Visit(a, b)
    PROVE  ReqRepInv'
<1>1. /\ stop[a] # "exited" /\ at[a] = 0
      /\ left' = [left EXCEPT ![a] = @ \ {b}]
      /\ at' = [at EXCEPT ![a] = chanMap[a][b]]
      /\ UNCHANGED <<call, clientVars, server, loop, stop, owed, overlap>>
  BY DEF Visit, Up
<1>2. KeepsCalls
  BY <1>1, SameCalls DEF ReqRepInv, TypeInv
<1>3. TypeOK'
  BY <1>1 DEF ReqRepInv, TypeInv, TypeOK, clientVars
<1>4. MadeInv' /\ ServerInv'
  BY <1>1, <1>2, HandlersKept DEF Started, clientVars
<1>5. SenderInv' /\ FlightInv'
  BY <1>1, <1>2, ServerKept DEF InFlight
<1>6. /\ left'[a] = left[a] \ {b} /\ at'[a] = chanMap[a][b]
      /\ \A x \in Agents : x # a => left'[x] = left[x] /\ at'[x] = at[x]
  BY <1>1 DEF ReqRepInv, TypeInv, TypeOK
<1>7. ASSUME NEW x \in Agents, NEW s \in owed[x]
      PROVE  /\ Stored(s)' /\ call'[s].from = x
             /\ stop'[x] # "no" => \/ call'[s].to \in left'[x]
                                   \/ at'[x] = s
                                   \/ sender'[s] = "ended"
                                   \/ <<x, call'[s].to>> \in overlap'
  <2>1. s \in Calls /\ s # 0
    BY NumbersApart DEF ReqRepInv, TypeInv, TypeOK
  <2>2. /\ Stored(s) /\ call[s].from = x
        /\ stop[x] # "no" => \/ call[s].to \in left[x]
                             \/ at[x] = s
                             \/ sender[s] = "ended"
                             \/ <<x, call[s].to>> \in overlap
    BY DEF ReqRepInv, StopInv, OwedInv
  <2>3. ASSUME x = a, call[s].to = b
        PROVE  at'[a] = s \/ <<a, b>> \in overlap
    <3>1. chanMap[a][b] # 0
      BY <2>1, <2>2, <2>3 DEF ReqRepInv, SenderInv
    <3>2. PICK t \in Calls : t = chanMap[a][b]
      BY <3>1 DEF ReqRepInv, TypeInv, TypeOK
    <3>3. Stored(t) /\ call[t].from = a /\ call[t].to = b
      BY <3>1, <3>2 DEF ReqRepInv, SenderInv, Between
    <3>4. Started(s) /\ Started(t)
      BY <2>2, <3>3 DEF Stored, Started
    <3>5. s = t \/ <<a, b>> \in overlap
      BY <2>1, <2>2, <2>3, <3>3, <3>4 DEF ReqRepInv, SenderInv
    <3> QED BY <1>6, <3>2, <3>5
  <2>4. Stored(s)' /\ call' = call /\ sender' = sender /\ overlap' = overlap /\ stop' = stop
    BY <1>1, <2>2 DEF Stored, clientVars
  <2>5. CASE x = a
    BY <1>1, <1>6, <2>1, <2>2, <2>3, <2>4, <2>5
  <2>6. CASE x # a
    BY <1>6, <2>2, <2>4, <2>6
  <2> QED BY <2>5, <2>6
<1>8. ExitInv'
  BY <1>1, <1>6 DEF ReqRepInv, StopInv, ExitInv
<1>9. StopInv'
  BY <1>1, <1>7, <1>8 DEF StopInv, OwedInv
<1> QED BY <1>3, <1>4, <1>5, <1>9 DEF ReqRepInv, TypeInv

LEMMA TerminateSteps ==
    ASSUME ReqRepInv, NEW a \in Agents, Terminate(a)
    PROVE  ReqRepInv'
<1>1. PICK v \in Calls : v = at[a] /\ sender[v] = "idle"
  BY DEF Terminate, ReqRepInv, TypeInv, TypeOK
<1>2. /\ stop[a] # "exited"
      /\ sender' = [sender EXCEPT ![v] = "ended"]
      /\ at' = [at EXCEPT ![a] = 0]
      /\ UNCHANGED <<call, chanMap, server, loop, stop, left, owed, overlap>>
  BY <1>1 DEF Terminate, Up
<1>3. KeepsCalls
  BY <1>2, SameCalls DEF ReqRepInv, TypeInv
<1>4. /\ sender'[v] = "ended" /\ \A d \in Calls : d # v => sender'[d] = sender[d]
      /\ sender' \in [Calls -> {"none", "starting", "idle", "busy", "ended"}]
      /\ at'[a] = 0 /\ \A x \in Agents : x # a => at'[x] = at[x]
      /\ at' \in [Agents -> {0} \cup Calls]
  BY <1>2 DEF ReqRepInv, TypeInv, TypeOK
<1>5. \A d \in Calls : /\ Started(d)' <=> Started(d)
                       /\ Stored(d)' <=> Stored(d)
                       /\ sender[d] = "ended" => sender'[d] = "ended"
  BY <1>1, <1>4 DEF Started, Stored
<1>6. TypeOK'
  BY <1>2, <1>4 DEF ReqRepInv, TypeInv, TypeOK
<1>7. MadeInv' /\ ServerInv'
  BY <1>2, <1>3, <1>5, HandlersKept
<1>8. SenderInv'
  BY <1>2, <1>3, <1>5, SenderKept
<1>9. FlightInv'
  <2>1. ASSUME NEW d \in Calls, InFlight(d) PROVE sender'[call[d].via] = "busy"
    <3>1. call[d].via \in Calls /\ sender[call[d].via] = "busy"
      BY <2>1, ViaThere DEF ReqRepInv, FlightInv, InFlight, Made
    <3> QED BY <1>1, <1>4, <3>1
  <2> QED BY <1>2, <2>1 DEF ReqRepInv, FlightInv, InFlight
<1>10. ASSUME NEW x \in Agents, NEW s \in owed[x]
       PROVE  /\ Stored(s)' /\ call'[s].from = x
              /\ stop'[x] # "no" => \/ call'[s].to \in left'[x]
                                    \/ at'[x] = s
                                    \/ sender'[s] = "ended"
                                    \/ <<x, call'[s].to>> \in overlap'
  <2>1. s \in Calls
    BY DEF ReqRepInv, TypeInv, TypeOK
  <2>2. /\ Stored(s) /\ call[s].from = x
        /\ stop[x] # "no" => \/ call[s].to \in left[x]
                             \/ at[x] = s
                             \/ sender[s] = "ended"
                             \/ <<x, call[s].to>> \in overlap
    BY DEF ReqRepInv, StopInv, OwedInv
  <2>3. at[x] = s => at'[x] = s \/ sender'[s] = "ended"
    BY <1>1, <1>4
  <2> QED BY <1>2, <1>5, <2>1, <2>2, <2>3
<1>11. ExitInv'
  BY <1>2, <1>4 DEF ReqRepInv, StopInv, ExitInv
<1>12. StopInv'
  BY <1>2, <1>10, <1>11 DEF StopInv, OwedInv
<1> QED BY <1>6, <1>7, <1>8, <1>9, <1>12 DEF ReqRepInv, TypeInv

LEMMA ExitSteps ==
    ASSUME ReqRepInv, NEW a \in Agents, Exit(a)
    PROVE  ReqRepInv'
<1>1. /\ left[a] = {} /\ at[a] = 0
      /\ stop' = [stop EXCEPT ![a] = "exited"] /\ stop[a] = "closing"
      /\ UNCHANGED <<clientVars, server, loop, left, at, owed, overlap>>
  BY DEF Exit
<1>2. PICK lost \in SUBSET {c \in Calls : call[c].pc = "sent" /\ call[c].from = a} :
         call' = [c \in Calls |-> IF c \in lost THEN [call[c] EXCEPT !.pc = "lost"]
                                  ELSE call[c]]
  BY DEF Exit
<1>3. ASSUME NEW c \in Calls
      PROVE  /\ c \notin lost => call'[c] = call[c]
             /\ c \in lost => /\ call[c].pc = "sent" /\ Made(c) /\ call'[c] \in Call
                              /\ call'[c].pc = "lost" /\ call'[c].from = call[c].from
                              /\ call'[c].to = call[c].to /\ call'[c].kind = call[c].kind
                              /\ call'[c].via = call[c].via
  <2>1. CASE c \notin lost
    BY <1>2, <2>1
  <2>2. CASE c \in lost
    <3>1. Made(c) /\ call[c].pc = "sent"
      BY <2>2 DEF Made
    <3>2. call[c] \in Call
      BY <3>1, CallThere DEF ReqRepInv, TypeInv
    <3>3. call'[c] = [call[c] EXCEPT !.pc = "lost"]
      BY <1>2, <2>2
    <3> QED BY <2>2, <3>1, <3>2, <3>3 DEF Call, Steps
  <2> QED BY <2>1, <2>2
<1>4. call' \in [Calls -> Call \cup {NoCall}]
  BY <1>2, <1>3 DEF ReqRepInv, TypeInv, TypeOK
<1>5. KeepsCalls
  BY <1>3, <1>4 DEF KeepsCalls, Made
<1>6. /\ \A c \in Calls : InFlight(c)' => InFlight(c)
      /\ \A c \in Calls : call[c].pc = "handling" => call'[c].pc = "handling"
  BY <1>3 DEF InFlight
<1>7. TypeOK'
  BY <1>1, <1>4 DEF ReqRepInv, TypeInv, TypeOK, clientVars
<1>8. MadeInv' /\ ServerInv'
  BY <1>1, <1>5, <1>6, HandlersKept DEF Started, clientVars
<1>9. SenderInv' /\ FlightInv'
  BY <1>1, <1>5, <1>6, ServerKept
<1>10. stop'[a] = "exited" /\ \A x \in Agents : x # a => stop'[x] = stop[x]
  BY <1>1 DEF ReqRepInv, TypeInv, TypeOK
<1>11. ASSUME NEW x \in Agents, NEW s \in owed[x]
       PROVE  /\ Stored(s)' /\ call'[s].from = x
              /\ stop'[x] # "no" => \/ call'[s].to \in left'[x]
                                    \/ at'[x] = s
                                    \/ sender'[s] = "ended"
                                    \/ <<x, call'[s].to>> \in overlap'
  <2>1. s \in Calls /\ call'[s].from = call[s].from /\ call'[s].to = call[s].to
    BY <1>5 DEF ReqRepInv, TypeInv, TypeOK, KeepsCalls
  <2>2. /\ Stored(s) /\ call[s].from = x
        /\ stop[x] # "no" => \/ call[s].to \in left[x]
                             \/ at[x] = s
                             \/ sender[s] = "ended"
                             \/ <<x, call[s].to>> \in overlap
    BY DEF ReqRepInv, StopInv, OwedInv
  <2>3. stop'[x] # "no" => stop[x] # "no"
    BY <1>1, <1>10
  <2> QED BY <1>1, <2>1, <2>2, <2>3 DEF Stored, clientVars
<1>12. ExitInv'
  BY <1>1, <1>10 DEF ReqRepInv, StopInv, ExitInv
<1>13. StopInv'
  BY <1>1, <1>11, <1>12 DEF StopInv, OwedInv
<1> QED BY <1>7, <1>8, <1>9, <1>13 DEF ReqRepInv, TypeInv

-----------------------------------------------------------------------------
(* The theorems about requests, senders and Stop. *)

LEMMA NextReqRep == ReqRepInv /\ [Next]_vars => ReqRepInv'
<1> SUFFICES ASSUME ReqRepInv, [Next]_vars PROVE ReqRepInv'
  OBVIOUS
<1>1. ASSUME NEW c \in Users, Use(c) PROVE ReqRepInv'
  <2>1. PICK u \in Uses, q \in Queries \cup {<<>>} : Send(c, u[1], u[2], u[3], q)
    BY <1>1 DEF Use
  <2>2. u[1] \in Agents /\ u[2] \in Agents /\ u[3] \in Kinds
    BY <2>1, ConstantsAssumption
  <2> QED BY <2>1, <2>2, NumbersApart, SendSteps
<1>2. ASSUME NEW a \in Agents, BeginStop(a) PROVE ReqRepInv'
  BY <1>2, BeginStopSteps
<1>3. ASSUME NEW c \in Calls, StartSender(c) \/ Transmit(c) \/ Return(c)
      PROVE  ReqRepInv'
  BY <1>3, StartSenderSteps, TransmitSteps, ReturnSteps
<1>4. ASSUME NEW a \in Agents, NEW c \in Calls, Receive(a, c) PROVE ReqRepInv'
  BY <1>4, ReceiveSteps
<1>5. ASSUME NEW a \in Agents, TakeAsync(a) \/ TakeQuery(a) PROVE ReqRepInv'
  BY <1>5, TakeAsyncSteps, TakeQuerySteps
<1>6. ASSUME NEW a \in Agents, TakeGroup(a) PROVE ReqRepInv'
  BY <1>6, GroupStep DEF TakeGroup, At, InFlight
<1>7. ASSUME NEW a \in Agents, Reply(a) PROVE ReqRepInv'
  BY <1>7, GroupStep DEF Reply, At, InFlight
<1>8. ASSUME NEW a \in Agents, Fail(a) PROVE ReqRepInv'
  BY <1>8, GroupStep DEF Fail, At, InFlight
<1>9. ASSUME NEW a \in Agents, Disclose(a) \/ Respond(a) PROVE ReqRepInv'
  BY <1>9, DiscloseSteps, RespondSteps
<1>10. ASSUME NEW a \in Agents, NEW l \in Loops, Finish(a, l) PROVE ReqRepInv'
  BY <1>10, FinishSteps
<1>11. ASSUME NEW a \in Agents, NEW b \in Agents, Visit(a, b) PROVE ReqRepInv'
  BY <1>11, VisitSteps
<1>12. ASSUME NEW a \in Agents, Terminate(a) \/ Exit(a) PROVE ReqRepInv'
  BY <1>12, TerminateSteps, ExitSteps
<1>13. CASE UNCHANGED vars
  <2>1. KeepsCalls /\ UNCHANGED <<call, chanMap, sender, server, loop, stopVars, overlap>>
    BY <1>13, SameCalls DEF vars, clientVars, ReqRepInv, TypeInv
  <2>2. TypeOK'
    BY <2>1 DEF ReqRepInv, TypeInv, TypeOK, stopVars
  <2>3. MadeInv' /\ ServerInv'
    BY <2>1, HandlersKept DEF Started
  <2>4. SenderInv' /\ FlightInv' /\ StopInv'
    BY <2>1, ServerKept, StopKept DEF InFlight, Stored, clientVars
  <2> QED BY <2>2, <2>3, <2>4 DEF ReqRepInv, TypeInv
<1> QED BY <1>1, <1>2, <1>3, <1>4, <1>5, <1>6, <1>7, <1>8, <1>9, <1>10, <1>11, <1>12,
           <1>13 DEF Next, Work

LEMMA InvStopsGracefully == ReqRepInv => StopsGracefully
<1> SUFFICES ASSUME ReqRepInv, NEW a \in Agents, stop[a] = "exited", NEW s \in owed[a]
             PROVE  sender[s] = "ended" \/ <<a, call[s].to>> \in overlap
  BY DEF StopsGracefully
<1>1. s # 0
  BY NumbersApart DEF ReqRepInv, TypeInv, TypeOK
<1>2. left[a] = {} /\ at[a] = 0
  BY DEF ReqRepInv, StopInv, ExitInv
<1> QED BY <1>1, <1>2 DEF ReqRepInv, StopInv, OwedInv

\* Every reachable state has its types.
THEOREM TypeCorrect == Spec => []TypeOK
<1>1. ReqRepInv => TypeOK
  BY DEF ReqRepInv, TypeInv
<1> QED BY <1>1, InitReqRep, NextReqRep, PTL DEF Spec

\* Client.Send and its senders never have two requests under way from an agent
\* to the same peer, unless two first Sends to that peer overlapped.
THEOREM OneInFlightAlways == Spec => []OneInFlight
BY InitReqRep, NextReqRep, InvOneInFlight, PTL DEF Spec

\* When Stop lets the process exit, Client.Close has ended every sender that was
\* stored when it began and that no overlapping first Send has replaced.
THEOREM StopsGracefullyAlways == Spec => []StopsGracefully
BY InitReqRep, NextReqRep, InvStopsGracefully, PTL DEF Spec

-----------------------------------------------------------------------------
(* What the answer to a query is.                                           *)

LEMMA FeatureShape ==
    ASSUME NEW f \in Features
    PROVE  f \in Seq(Token) /\ Len(f) = 2 /\ f[1] # "*" /\ f[2] # "*"
<1>1. PICK x \in Token \ {"*"} : f = <<"base", x>>
  BY DEF Features, Token
<1>2. "base" \in Token
  BY DEF Token
<1> QED BY <1>1, <1>2

LEMMA PrefixShape ==
    ASSUME NEW S, NEW s \in Seq(S), NEW n \in 0..Len(s)
    PROVE  /\ SubSeq(s, 1, n) \in Seq(S) /\ Len(SubSeq(s, 1, n)) = n
           /\ \A i \in 1..n : SubSeq(s, 1, n)[i] = s[i]
<1>1. \A i \in 1..n : s[i] \in S
  OBVIOUS
<1>2. 1 \in Int /\ n \in Int
  OBVIOUS
<1>3. /\ SubSeq(s, 1, n) \in Seq(S)
      /\ Len(SubSeq(s, 1, n)) = IF 1 <= n THEN n - 1 + 1 ELSE 0
      /\ \A i \in 1..(n - 1 + 1) : SubSeq(s, 1, n)[i] = s[1 + i - 1]
  BY <1>1, <1>2, SubSeqProperties
<1> QED BY <1>3

LEMMA FrontShape ==
    ASSUME NEW q \in Seq(Token), q # <<>>
    PROVE  \E n \in Nat :
             /\ Len(q) = n + 1 /\ Last(q) = q[n + 1]
             /\ Front(q) \in Seq(Token) /\ Len(Front(q)) = n
             /\ \A i \in 1..n : Front(q)[i] = q[i]
<1>1. Len(q) \in Nat /\ Len(q) # 0
  BY EmptySeq
<1>2. PICK n \in Nat : Len(q) = n + 1
  BY <1>1
<1>3. n \in 0..Len(q) /\ Front(q) = SubSeq(q, 1, n)
  BY <1>2 DEF Front
<1> QED BY <1>2, <1>3, PrefixShape DEF Last

\* A feature matches itself ...
LEMMA GlobItself ==
    ASSUME NEW f \in Features
    PROVE  Glob(f, f)
<1> DEFINE cut == [i \in 1..3 |-> i - 1]
<1>1. f \in Seq(Token) /\ Len(f) = 2 /\ f[1] # "*" /\ f[2] # "*"
  BY FeatureShape
<1>2. cut \in [1..(Len(f) + 1) -> 0..Len(f)]
  BY <1>1
<1>3. cut[1] = 0 /\ cut[2] = 1 /\ cut[3] = 2
  OBVIOUS
<1> HIDE DEF cut
<1>4. \A i \in 1..Len(f) : f[i] # "*" /\ cut[i + 1] = cut[i] + 1 /\ f[cut[i + 1]] = f[i]
  <2> SUFFICES ASSUME NEW i \in {1, 2}
               PROVE  f[i] # "*" /\ cut[i + 1] = cut[i] + 1 /\ f[cut[i + 1]] = f[i]
    BY <1>1
  <2>1. CASE i = 1
    BY <1>1, <1>3, <2>1
  <2>2. CASE i = 2
    BY <1>1, <1>3, <2>2
  <2> QED BY <2>1, <2>2
<1> QED BY <1>1, <1>2, <1>3, <1>4 DEF Glob

\* ... and each of its prefixes with a wild card behind it.
LEMMA GlobPrefix ==
    ASSUME NEW f \in Features, NEW q \in Seq(Token), q # <<>>, Last(q) = "*",
           IsPrefix(Front(q), f)
    PROVE  Glob(q, f)
<1>1. f \in Seq(Token) /\ Len(f) = 2 /\ f[1] # "*" /\ f[2] # "*"
  BY FeatureShape
<1>2. PICK n \in Nat : /\ Len(q) = n + 1 /\ Last(q) = q[n + 1]
                       /\ Front(q) \in Seq(Token) /\ Len(Front(q)) = n
                       /\ \A i \in 1..n : Front(q)[i] = q[i]
  BY FrontShape
<1>3. Front(q) \in Seq(Token) /\ Len(Front(q)) = n
      /\ \A i \in 1..n : Front(q)[i] = q[i]
  BY <1>2
<1>4. n <= 2 /\ \A i \in 1..n : q[i] = f[i]
  <2>1. n <= 2 /\ SubSeq(Front(q), 1, n) = SubSeq(f, 1, n)
    BY <1>1, <1>3 DEF IsPrefix
  <2>2. \A i \in 1..n : SubSeq(Front(q), 1, n)[i] = Front(q)[i] /\ SubSeq(f, 1, n)[i] = f[i]
    BY <1>1, <1>3, <2>1
  <2> QED BY <1>3, <2>1, <2>2
<1> DEFINE cut == [i \in 1..(n + 2) |-> IF i <= n + 1 THEN i - 1 ELSE 2]
<1>5. cut \in [1..(Len(q) + 1) -> 0..Len(f)] /\ cut[1] = 0 /\ cut[Len(q) + 1] = Len(f)
  BY <1>1, <1>2, <1>4
<1>6. ASSUME NEW i \in 1..n
      PROVE  q[i] # "*" /\ cut[i + 1] = cut[i] + 1 /\ f[cut[i + 1]] = q[i]
  <2>1. i \in {1, 2} /\ cut[i] = i - 1 /\ cut[i + 1] = i /\ q[i] = f[i]
    BY <1>4
  <2> QED BY <1>1, <2>1
<1>7. q[n + 1] = "*" /\ cut[n + 1] <= cut[n + 2]
  BY <1>2, <1>4 DEF Last
<1> HIDE DEF cut
<1>8. \A i \in 1..Len(q) : i \in 1..n \/ i = n + 1
  BY <1>2
<1>9. \A i \in 1..Len(q) :
        IF q[i] = "*" THEN cut[i] <= cut[i + 1]
                      ELSE cut[i + 1] = cut[i] + 1 /\ f[cut[i + 1]] = q[i]
  BY <1>6, <1>7, <1>8
<1> QED BY <1>5, <1>9 DEF Glob

\* Without a wild card before its end, a pattern matches nothing else.
LEMMA GlobOnly ==
    ASSUME NEW f \in Features, NEW q \in Seq(Token), q # <<>>, Glob(q, f),
           \A i \in 1..(Len(q) - 1) : q[i] # "*"
    PROVE  IF Last(q) = "*" THEN IsPrefix(Front(q), f) ELSE q = f
<1>1. f \in Seq(Token) /\ Len(f) = 2
  BY FeatureShape
<1>2. Len(q) \in Nat /\ Len(q) # 0
  BY EmptySeq
<1>3. PICK cut \in [1..(Len(q) + 1) -> 0..2] :
        /\ cut[1] = 0 /\ cut[Len(q) + 1] = 2
        /\ \A i \in 1..Len(q) :
             q[i] # "*" => cut[i + 1] = cut[i] + 1 /\ f[cut[i + 1]] = q[i]
  BY <1>1 DEF Glob
<1>4. Len(q) >= 2 => cut[2] = 1 /\ f[1] = q[1]
  <2> SUFFICES ASSUME Len(q) >= 2 PROVE cut[1 + 1] = 1 /\ f[1] = q[1]
    OBVIOUS
  <2>1. 1 \in 1..(Len(q) - 1) /\ 1 \in 1..Len(q)
    BY <1>2
  <2>2. q[1] # "*"
    BY <2>1
  <2>3. cut[1 + 1] = cut[1] + 1 /\ f[cut[1 + 1]] = q[1]
    BY <1>3, <2>1, <2>2
  <2> QED BY <1>3, <2>3
<1>5. Len(q) >= 3 => cut[3] = 2 /\ f[2] = q[2]
  <2> SUFFICES ASSUME Len(q) >= 3 PROVE cut[2 + 1] = 2 /\ f[2] = q[2]
    OBVIOUS
  <2>1. 2 \in 1..(Len(q) - 1) /\ 2 \in 1..Len(q)
    BY <1>2
  <2>2. q[2] # "*"
    BY <2>1
  <2>3. cut[2 + 1] = cut[2] + 1 /\ f[cut[2 + 1]] = q[2]
    BY <1>3, <2>1, <2>2
  <2> QED BY <1>2, <1>4, <2>3
<1>6. Len(q) < 4
  <2> SUFFICES ASSUME Len(q) >= 4 PROVE FALSE
    BY <1>2
  <2>1. 3 \in 1..(Len(q) - 1) /\ 3 \in 1..Len(q) /\ 3 + 1 \in 1..(Len(q) + 1)
    BY <1>2
  <2>2. q[3] # "*"
    BY <2>1
  <2>3. cut[3 + 1] = cut[3] + 1 /\ cut[3 + 1] \in 0..2
    BY <1>3, <2>1, <2>2
  <2> QED BY <1>2, <1>5, <2>3
<1>7. CASE Last(q) = "*"
  <2>1. PICK n \in Nat : /\ Len(q) = n + 1
                         /\ Front(q) \in Seq(Token) /\ Len(Front(q)) = n
                         /\ \A i \in 1..n : Front(q)[i] = q[i]
    BY FrontShape
  <2>2. n <= 2 /\ \A i \in 1..n : q[i] = f[i]
    <3>1. n < 3
      BY <1>6, <2>1
    <3>2. ASSUME NEW i \in 1..n PROVE q[i] = f[i]
      <4>1. i = 1 \/ i = 2
        BY <3>1
      <4>2. CASE i = 1
        BY <1>4, <2>1, <4>2
      <4>3. CASE i = 2
        BY <1>5, <2>1, <4>3
      <4> QED BY <4>1, <4>2, <4>3
    <3> QED BY <3>1, <3>2
  <2>3. /\ SubSeq(Front(q), 1, n) \in Seq(Token) /\ Len(SubSeq(Front(q), 1, n)) = n
        /\ \A i \in 1..n : SubSeq(Front(q), 1, n)[i] = q[i]
    BY <2>1, PrefixShape
  <2>4. /\ SubSeq(f, 1, n) \in Seq(Token) /\ Len(SubSeq(f, 1, n)) = n
        /\ \A i \in 1..n : SubSeq(f, 1, n)[i] = f[i]
    BY <1>1, <2>2, PrefixShape
  <2>5. SubSeq(Front(q), 1, n) = SubSeq(f, 1, n)
    BY <2>2, <2>3, <2>4, SeqEqual
  <2> QED BY <1>1, <1>7, <2>1, <2>2, <2>5 DEF IsPrefix
<1>8. CASE Last(q) # "*"
  <2>1. cut[Len(q) + 1] = cut[Len(q)] + 1 /\ f[cut[Len(q) + 1]] = q[Len(q)]
    <3>1. PICK n \in Nat : Len(q) = n + 1 /\ q[n + 1] # "*"
      BY <1>8, FrontShape
    <3>2. n + 1 \in 1..Len(q)
      BY <3>1
    <3>3. cut[(n + 1) + 1] = cut[n + 1] + 1 /\ f[cut[(n + 1) + 1]] = q[n + 1]
      BY <1>3, <3>1, <3>2
    <3> QED BY <3>1, <3>3
  <2>2. Len(q) = 1 \/ Len(q) = 2 \/ Len(q) = 3
    <3>1. PICK n \in Nat : Len(q) = n + 1
      BY FrontShape
    <3>2. n + 1 < 4
      BY <1>6, <3>1
    <3>3. n = 0 \/ n = 1 \/ n = 2
      BY <3>2
    <3> QED BY <3>1, <3>3
  <2>3. Len(q) = 2
    BY <1>3, <1>4, <1>5, <2>1, <2>2
  <2>4. q[1] = f[1] /\ q[2] = f[2]
    BY <1>3, <1>4, <2>1, <2>3
  <2>5. q = f
    BY <1>1, <2>3, <2>4, SeqEqual
  <2> QED BY <1>8, <2>5
<1> QED BY <1>7, <1>8

\* processQuery against what a pattern means.
LEMMA ProcessQueryMatches ==
    ASSUME NEW q \in Seq(Token), q # <<>>
    PROVE  LET matching == {f \in Features : Glob(q, f)}
           IN /\ ProcessQuery(q) \subseteq matching
              /\ (\A i \in 1..(Len(q) - 1) : q[i] # "*")
                   /\ (q = <<"*">> \/ Contains(q, "base"))
                   => ProcessQuery(q) = matching
<1> DEFINE matching == {f \in Features : Glob(q, f)}
           Plain == \A i \in 1..(Len(q) - 1) : q[i] # "*"
<1>1. CASE q = <<"*">>
  <2>1. Last(q) = "*" /\ Front(q) = <<>>
    BY <1>1 DEF Last, Front
  <2>2. \A f \in Features : IsPrefix(<<>>, f)
    BY FeatureShape DEF IsPrefix
  <2>3. \A f \in Features : Glob(q, f)
    BY <2>1, <2>2, GlobPrefix
  <2>4. ProcessQuery(q) = Features
    BY <1>1 DEF ProcessQuery
  <2> QED BY <2>3, <2>4
<1>2. CASE q # <<"*">> /\ ~Contains(q, "base")
  <2>1. ProcessQuery(q) = {}
    BY <1>2 DEF ProcessQuery
  <2> QED BY <1>2, <2>1
<1>3. CASE q # <<"*">> /\ Contains(q, "base")
  <2>1. ProcessQuery(q) = IF Last(q) = "*" THEN {f \in Features : IsPrefix(Front(q), f)}
                          ELSE {f \in Features : f = q}
    BY <1>3 DEF ProcessQuery
  <2>2. ProcessQuery(q) \subseteq matching
    BY <2>1, GlobPrefix, GlobItself
  <2>3. ASSUME Plain PROVE matching \subseteq ProcessQuery(q)
    <3>1. ASSUME NEW f \in Features, Glob(q, f)
          PROVE  IF Last(q) = "*" THEN IsPrefix(Front(q), f) ELSE q = f
      BY <2>3, <3>1, GlobOnly
    <3> QED BY <2>1, <3>1
  <2> QED BY <2>2, <2>3
<1> QED BY <1>1, <1>2, <1>3

\* A query that is answered has the answer to its own pattern.
Done(c) == call[c].pc \in {"answered", "returned"} /\ call[c].kind = "query"
AnswerInv == \A c \in Calls : Done(c) => call[c].res = ProcessQuery(call[c].query)

LEMMA AnswerInvMatches == TypeOK /\ AnswerInv => AnswersMatch
<1> SUFFICES ASSUME TypeOK, AnswerInv, NEW c \in Calls, Done(c), call[c].query # <<>>
             PROVE  LET q == call[c].query
                        matching == {f \in Features : Glob(q, f)}
                    IN /\ call[c].res \subseteq matching
                       /\ (\A i \in 1..(Len(q) - 1) : q[i] # "*")
                            /\ (q = <<"*">> \/ Contains(q, "base"))
                            => call[c].res = matching
  BY DEF AnswersMatch, Done
<1>1. call[c] \in Call
  BY CallThere DEF Done, Made
<1>2. PICK q \in Seq(Token) : q = call[c].query /\ q # <<>>
  BY <1>1, ConstantsAssumption DEF Call
<1>3. call[c].res = ProcessQuery(q)
  BY <1>2 DEF AnswerInv
<1> QED BY <1>2, <1>3, ProcessQueryMatches

\* Only the discovery loop answers a query, and no step changes its pattern.
LEMMA AnswerStep ==
    ASSUME TypeOK, AnswerInv, NEW c \in Calls, Made(c), NEW pc \in Steps, Step(c, pc),
           pc \in {"answered", "returned"} /\ call[c].kind = "query" => Done(c)
    PROVE  AnswerInv'
<1>1. call[c] \in Call /\ call' = [call EXCEPT ![c] = [call[c] EXCEPT !.pc = pc]]
  BY CallThere DEF Step
<1>2. ASSUME NEW d \in Calls, Done(d)' PROVE call'[d].res = ProcessQuery(call'[d].query)
  <2>1. CASE d = c
    <3>1. /\ call'[c].pc = pc /\ call'[c].kind = call[c].kind
          /\ call'[c].res = call[c].res /\ call'[c].query = call[c].query
      BY <1>1 DEF TypeOK, Call
    <3>2. Done(c)
      BY <1>2, <2>1, <3>1 DEF Done
    <3> QED BY <2>1, <3>1, <3>2 DEF AnswerInv
  <2>2. CASE d # c
    <3>1. call'[d] = call[d]
      BY <1>1, <2>2 DEF TypeOK
    <3> QED BY <1>2, <3>1 DEF AnswerInv, Done
  <2> QED BY <2>1, <2>2
<1> QED BY <1>2 DEF AnswerInv

LEMMA SendAnswers ==
    ASSUME TypeOK, AnswerInv, NEW c \in Calls, NEW a, NEW b, NEW k, NEW q,
           Send(c, a, b, k, q)
    PROVE  AnswerInv'
<1>1. call'[c].pc = "send" /\ \A d \in Calls : d # c => call'[d] = call[d]
  BY DEF Send, TypeOK
<1>2. ASSUME NEW d \in Calls, Done(d)' PROVE call'[d].res = ProcessQuery(call'[d].query)
  <2>1. d # c
    BY <1>1, <1>2 DEF Done
  <2> QED BY <1>1, <1>2, <2>1 DEF AnswerInv, Done
<1> QED BY <1>2 DEF AnswerInv

LEMMA DiscloseAnswers ==
    ASSUME ReqRepInv, AnswerInv, NEW a \in Agents, Disclose(a)
    PROVE  AnswerInv'
<1>1. PICK c \in Calls : /\ c = loop[a]["discovery"] /\ Made(c)
                         /\ call[c].pc = "handling"
  BY ServerThere DEF Disclose, Made
<1>2. call[c] \in Call /\ TypeOK
  BY <1>1, CallThere DEF ReqRepInv, TypeInv
<1>3. PICK fs : fs = ProcessQuery(call[c].query)
  OBVIOUS
<1>4. call' = [call EXCEPT ![c].res = fs, ![c].pc = "answered"]
  BY <1>1, <1>3 DEF Disclose
<1>5. call'[c] = [call[c] EXCEPT !.res = fs, !.pc = "answered"]
      /\ \A d \in Calls : d # c => call'[d] = call[d]
  BY <1>2, <1>4 DEF TypeOK
<1>6. call'[c].res = fs /\ call'[c].query = call[c].query
  BY <1>2, <1>5 DEF Call
<1>7. ASSUME NEW d \in Calls, Done(d)' PROVE call'[d].res = ProcessQuery(call'[d].query)
  <2>1. CASE d = c
    BY <1>3, <1>6, <2>1
  <2>2. CASE d # c
    BY <1>5, <1>7, <2>2 DEF AnswerInv, Done
  <2> QED BY <2>1, <2>2
<1> QED BY <1>7 DEF AnswerInv

LEMMA ExitAnswers ==
    ASSUME TypeOK, AnswerInv, NEW a \in Agents, Exit(a)
    PROVE  AnswerInv'
<1>1. PICK lost \in SUBSET {c \in Calls : call[c].pc = "sent" /\ call[c].from = a} :
         call' = [c \in Calls |-> IF c \in lost THEN [call[c] EXCEPT !.pc = "lost"]
                                  ELSE call[c]]
  BY DEF Exit
<1>2. ASSUME NEW d \in Calls, Done(d)' PROVE call'[d].res = ProcessQuery(call'[d].query)
  <2>1. CASE d \in lost
    <3>1. call[d] \in Call
      BY <2>1, CallThere DEF Made
    <3>2. call'[d].pc = "lost"
      BY <1>1, <2>1, <3>1 DEF Call
    <3> QED BY <1>2, <3>2 DEF Done
  <2>2. CASE d \notin lost
    <3>1. call'[d] = call[d]
      BY <1>1, <2>2
    <3> QED BY <1>2, <3>1 DEF AnswerInv, Done
  <2> QED BY <2>1, <2>2
<1> QED BY <1>2 DEF AnswerInv

LEMMA NextAnswers == ReqRepInv /\ AnswerInv /\ [Next]_vars => AnswerInv'
<1> SUFFICES ASSUME ReqRepInv, AnswerInv, [Next]_vars PROVE AnswerInv'
  OBVIOUS
<1>0. TypeOK
  BY DEF ReqRepInv, TypeInv
<1>1. ASSUME UNCHANGED call PROVE AnswerInv'
  BY <1>1 DEF AnswerInv, Done
<1>2. ASSUME NEW c \in Users, Use(c) PROVE AnswerInv'
  <2>1. PICK u \in Uses, q \in Queries \cup {<<>>} : Send(c, u[1], u[2], u[3], q)
    BY <1>2 DEF Use
  <2> QED BY <1>0, <2>1, NumbersApart, SendAnswers
<1>3. ASSUME NEW c \in Calls, Transmit(c) \/ Return(c) PROVE AnswerInv'
  <2>1. CASE Transmit(c)
    BY <1>0, <2>1, AnswerStep DEF Transmit, Made, Steps
  <2>2. CASE Return(c)
    BY <1>0, <2>2, AnswerStep DEF Return, Made, Steps, Done
  <2> QED BY <1>3, <2>1, <2>2
<1>4. ASSUME NEW a \in Agents, NEW c \in Calls, Receive(a, c) PROVE AnswerInv'
  BY <1>0, <1>4, AnswerStep DEF Receive, Made, Steps
<1>5. ASSUME NEW a \in Agents, TakeAsync(a) \/ TakeQuery(a) \/ TakeGroup(a) \/ Reply(a) \/ Fail(a)
      PROVE  AnswerInv'
  <2>1. PICK c \in Calls : c = server[a] /\ Made(c)
    <3>1. server[a] # 0 /\ server[a] \in Calls
      BY <1>0, <1>5 DEF TakeAsync, TakeQuery, TakeGroup, Reply, Fail, At, TypeOK
    <3> QED BY <3>1 DEF ReqRepInv, ServerInv
  <2>2. CASE TakeAsync(a)
    <3>1. Step(c, "answered") /\ call[c].kind # "query"
      BY <2>1, <2>2 DEF TakeAsync, Async
    <3> QED BY <1>0, <2>1, <3>1, AnswerStep DEF Steps
  <2>3. CASE Reply(a)
    <3>1. Step(c, "answered") /\ call[c].kind # "query"
      BY <2>1, <2>3 DEF Reply
    <3> QED BY <1>0, <2>1, <3>1, AnswerStep DEF Steps
  <2>4. CASE TakeQuery(a) \/ TakeGroup(a) \/ Fail(a)
    <3>1. Step(c, "handling") \/ Step(c, "dropped")
      BY <2>1, <2>4 DEF TakeQuery, TakeGroup, Fail
    <3> QED BY <1>0, <2>1, <3>1, AnswerStep DEF Steps
  <2> QED BY <1>5, <2>2, <2>3, <2>4
<1>6. ASSUME NEW a \in Agents, Respond(a) PROVE AnswerInv'
  <2>1. PICK c \in Users : Send(MaxCalls + c, a, call[c].from, "connRes", <<>>)
    BY <1>6 DEF Respond
  <2> QED BY <1>0, <2>1, NumbersApart, SendAnswers
<1>7. ASSUME NEW a \in Agents, Disclose(a) \/ Exit(a) PROVE AnswerInv'
  BY <1>0, <1>7, DiscloseAnswers, ExitAnswers
<1>8. ASSUME NEW c \in Calls, StartSender(c) PROVE AnswerInv'
  BY <1>1, <1>8 DEF StartSender
<1>9. ASSUME NEW a \in Agents, BeginStop(a) \/ Terminate(a) PROVE AnswerInv'
  BY <1>1, <1>9 DEF BeginStop, Terminate
<1>10. ASSUME NEW a \in Agents, NEW l \in Loops, Finish(a, l) PROVE AnswerInv'
  BY <1>1, <1>10 DEF Finish
<1>11. ASSUME NEW a \in Agents, NEW b \in Agents, Visit(a, b) PROVE AnswerInv'
  BY <1>1, <1>11 DEF Visit
<1>12. CASE UNCHANGED vars
  BY <1>1, <1>12 DEF vars
<1> QED BY <1>2, <1>3, <1>4, <1>5, <1>6, <1>7, <1>8, <1>9, <1>10, <1>11, <1>12 DEF Next, Work

\* However many queries run at the same time, each is answered with the features
\* its own pattern matches, no more, and with all of them unless it has a wild
\* card before its end or names no didcomm.org feature (processQuery, and the
\* discovery loop that carries the answer back to the server that waits).
THEOREM AnswersMatchAlways == Spec => []AnswersMatch
<1>1. Init => AnswerInv
  BY NoCallApart DEF Init, AnswerInv, Done
<1>2. ReqRepInv => TypeOK
  BY DEF ReqRepInv, TypeInv
<1> QED BY <1>1, <1>2, InitReqRep, NextReqRep, NextAnswers, AnswerInvMatches, PTL DEF Spec
=============================================================================
